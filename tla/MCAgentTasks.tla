---------------------------- MODULE MCAgentTasks ----------------------------
(* Values for the constants of AgentTasks; the bounds are in the cfgs. *)
EXTENDS AgentTasks

\* Instants are at least StaleClaim apart, as validateCronSchedule demands.
EveryOther == {t \in 1..MaxTime : t % 2 = 0}
EveryThird == {t \in 1..MaxTime : t % 3 = 0}

OneCron  == {EveryOther}
TwoCrons == {EveryOther, EveryThird}
=============================================================================
