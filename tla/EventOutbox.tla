----------------------------- MODULE EventOutbox ----------------------------
(***************************************************************************)
(* The observability lane of the event outbox: its rows, the polling       *)
(* worker that drains them, and the operator's replays                     *)
(* (application/events/outbox-worker.ts, application/polling-worker.ts,    *)
(* the outbox repository and application/system/observability-*.ts).       *)
(*                                                                         *)
(* Time is relative: a row and the worker's timer count down, and the      *)
(* dispatch in progress counts up, so that no run of the lane is cut off   *)
(* by a clock.  Events are their numbers.                                  *)
(***************************************************************************)
EXTENDS Integers, FiniteSets

CONSTANTS
    MaxEvents,          \* bound: events with a row in this lane
    MaxRetryAttempts,   \* OBSERVABILITY_MAX_RETRY_ATTEMPTS
    BatchLimit,         \* PROCESS_BATCH_LIMIT
    RetryDelay,         \* RETRY_DELAY_MS
    PollInterval,       \* multiagent.worker.pollIntervalMs
    MaxReplays,         \* bound: replays of an operator
    MaxFaults,          \* bound: dispatches that throw, rows that cannot be written
    MaxCrashes          \* bound: crashes of the process

ASSUME OutboxAssumption ==
    /\ {MaxEvents, RetryDelay, PollInterval, MaxReplays, MaxFaults, MaxCrashes} \subseteq Nat
    /\ {MaxRetryAttempts, BatchLimit} \subseteq Nat \ {0}

VARIABLES
    log,     \* number of events
    row,     \* the row of each event: status, attempts, wait until it is available
    lane,    \* the lane's worker; turn counts the entries of a run
    budget   \* what is left of each bound

vars == <<log, row, lane, budget>>

Event == 1..MaxEvents
NoRow == [status |-> "none", attempts |-> 0, wait |-> 0]

\* A worker that starts schedules its first run at once.
Started == [pc |-> "idle", timer |-> 0, woken |-> FALSE, entry |-> 0,
            elapsed |-> 0, turn |-> 0]

TypeOK ==
    /\ log \in 0..MaxEvents
    /\ row \in [Event -> [status : {"none", "pending", "processing", "failed", "quarantined", "done"},
                          attempts : 0..MaxRetryAttempts + MaxCrashes, wait : 0..RetryDelay]]
    /\ \A e \in Event : row[e].status = "none" <=> e > log
    /\ lane \in [pc : {"idle", "drain", "dispatch", "drained"}, timer : 0..PollInterval,
                 woken : BOOLEAN, entry : 0..log, elapsed : 0..RetryDelay,
                 turn : 0..BatchLimit]
    /\ budget \in [replay : 0..MaxReplays, fault : 0..MaxFaults, crash : 0..MaxCrashes]

Init ==
    /\ log = 0 /\ row = [e \in Event |-> NoRow] /\ lane = Started
    /\ budget = [replay |-> MaxReplays, fault |-> MaxFaults, crash |-> MaxCrashes]

----------------------------------------------------------------------------
(* The rows *)

Requested == [status |-> "pending", attempts |-> 0, wait |-> 0]

\* A plausible bug: what failed once is not looked at again.
ClaimablePending == {e \in Event : row[e].status = "pending" /\ row[e].wait = 0}

Claimable == {e \in Event : row[e].status \in {"pending", "failed"} /\ row[e].wait = 0}

\* A sleeping worker runs at once; a running one is told to run again.
Wake == [lane EXCEPT !.woken = TRUE, !.timer = IF lane.pc = "idle" THEN 0 ELSE @]

AppendEvent ==
    /\ log < MaxEvents
    /\ log' = log + 1
    /\ row' = [row EXCEPT ![log + 1] = Requested]
    /\ lane' = Wake
    /\ UNCHANGED budget

\* Events for the other lanes wake this one too.
AppendOther == lane' = Wake /\ UNCHANGED <<log, row, budget>>

\* A row in processing is left to the dispatch that is thought to be under way.
EnqueueReplay ==
    /\ budget.replay > 0
    /\ budget' = [budget EXCEPT !.replay = @ - 1]
    /\ \E e \in 1..log :
        row' = IF row[e].status = "processing" THEN row ELSE [row EXCEPT ![e] = Requested]
    /\ lane' = Wake
    /\ UNCHANGED log

ReplayQuarantined ==
    /\ budget.replay > 0
    /\ budget' = [budget EXCEPT !.replay = @ - 1]
    /\ \E e \in 1..log :
        /\ row[e].status = "quarantined"
        /\ row' = [row EXCEPT ![e] = Requested]
    /\ lane' = Wake
    /\ UNCHANGED log

----------------------------------------------------------------------------
(* A run of the worker *)

TimerFires ==
    /\ lane.pc = "idle" /\ lane.timer = 0
    /\ lane' = [lane EXCEPT !.pc = "drain", !.turn = 0]
    /\ UNCHANGED <<log, row, budget>>

\* The claimable row of the lowest event; every claim is an attempt.
Claim ==
    /\ lane.pc = "drain" /\ lane.turn < BatchLimit
    /\ \E e \in Claimable :
        /\ \A x \in Claimable : e <= x
        /\ row' = [row EXCEPT ![e].status = "processing", ![e].attempts = @ + 1]
        /\ lane' = [lane EXCEPT !.pc = "dispatch", !.entry = e, !.elapsed = 0]
    /\ UNCHANGED <<log, budget>>

\* The row as the lane leaves it, or, when it cannot be written, as it was.
Leave(r) ==
    /\ \/ row' = [row EXCEPT ![lane.entry] = r] /\ UNCHANGED budget
       \/ /\ budget.fault > 0
          /\ budget' = [budget EXCEPT !.fault = @ - 1]
          /\ UNCHANGED row
    /\ lane' = [lane EXCEPT !.pc = "drain", !.entry = 0, !.elapsed = 0, !.turn = @ + 1]
    /\ UNCHANGED log

Entry == row[lane.entry]
Quarantine == Leave([Entry EXCEPT !.status = "quarantined"])

\* The delay counts from the claim.
Retry == Leave([Entry EXCEPT !.status = "failed", !.wait = RetryDelay - lane.elapsed])

\* A plausible bug: one attempt too many.
SpentLate(r) == r.attempts > MaxRetryAttempts

Spent(r) == r.attempts >= MaxRetryAttempts

DispatchSucceeds == lane.pc = "dispatch" /\ Leave([Entry EXCEPT !.status = "done"])

DispatchFails ==
    /\ lane.pc = "dispatch"
    /\ \E permanent \in BOOLEAN : IF permanent \/ Spent(Entry) THEN Quarantine ELSE Retry

\* The worker sleeps again, or runs again at once after progress or a wake.
Scheduled(again) ==
    [Started EXCEPT !.timer = IF again THEN 0 ELSE PollInterval]

\* The row stays in processing, and the rest of the batch is not looked at.
DispatchThrows ==
    /\ lane.pc = "dispatch" /\ budget.fault > 0
    /\ budget' = [budget EXCEPT !.fault = @ - 1]
    /\ lane' = Scheduled(lane.woken)
    /\ UNCHANGED <<log, row>>

NothingLeft ==
    /\ lane.pc = "drain" /\ (lane.turn = BatchLimit \/ Claimable = {})
    /\ lane' = [lane EXCEPT !.pc = "drained"]
    /\ UNCHANGED <<log, row, budget>>

\* A plausible bug: only progress counts.
RunsAgainOnProgress == lane.turn > 0

RunsAgain == lane.woken \/ lane.turn > 0

EndRun ==
    /\ lane.pc = "drained"
    /\ lane' = Scheduled(RunsAgain)
    /\ UNCHANGED <<log, row, budget>>

----------------------------------------------------------------------------
(* Time and restarts *)

Down(n) == IF n = 0 THEN 0 ELSE n - 1

Tick ==
    /\ row' = [e \in Event |-> [row[e] EXCEPT !.wait = Down(@)]]
    /\ lane' = [lane EXCEPT !.timer = Down(@),
                            !.elapsed = IF lane.pc = "dispatch" /\ @ < RetryDelay THEN @ + 1 ELSE @]
    /\ UNCHANGED <<log, budget>>

\* A plausible bug: only rows that were tried before are taken up.
RecoveredIfRetried(r) ==
    IF r.status = "processing" /\ r.attempts > 1 THEN [r EXCEPT !.status = "failed", !.wait = 0] ELSE r

Recovered(r) ==
    IF r.status = "processing" THEN [r EXCEPT !.status = "failed", !.wait = 0] ELSE r

\* The process dies and starts again; startup takes up the rows in processing.
Crash ==
    /\ budget.crash > 0
    /\ budget' = [budget EXCEPT !.crash = @ - 1]
    /\ row' = [e \in Event |-> Recovered(row[e])]
    /\ lane' = Started
    /\ UNCHANGED log

----------------------------------------------------------------------------

Dispatched == DispatchSucceeds \/ DispatchFails \/ DispatchThrows
Run == TimerFires \/ Claim \/ NothingLeft \/ EndRun

Next ==
    \/ AppendEvent \/ AppendOther \/ EnqueueReplay \/ ReplayQuarantined
    \/ TimerFires \/ Claim \/ NothingLeft \/ EndRun
    \/ DispatchSucceeds \/ DispatchFails \/ DispatchThrows
    \/ Tick \/ Crash

Spec == Init /\ [][Next]_vars

\* The worker runs, time passes, and an export ends, well or not: its client has
\* a timeout.  Nothing has to be appended, replayed, to throw or to crash.
Fairness == WF_vars(Run) /\ WF_vars(Dispatched) /\ WF_vars(Tick)

FairSpec == Spec /\ Fairness

----------------------------------------------------------------------------
(* What the lane promises *)

\* A row in processing that no dispatch has in hand.
Stranded(e) == row[e].status = "processing" /\ lane.entry # e

\* A new or replayed entry is not left to the poll: a sleeping worker that has not
\* been stopped by an exception will run now if an entry is pending, also when
\* the entry came between the last claim of a run and its end.
WakeKept ==
    budget.fault = MaxFaults =>
        \A e \in Event : lane.pc = "idle" /\ row[e].status = "pending" => lane.timer = 0

\* Entries are stranded by exceptions and failed writes only, one by each, and
\* a restart takes all of them up.
StrandedByFaults ==
    Cardinality({e \in Event : Stranded(e)}) <= MaxFaults - budget.fault

\* An entry is tried as often as the limit says, and once more for each crash.
TriesBounded ==
    \A e \in Event : row[e].attempts <= MaxRetryAttempts + (MaxCrashes - budget.crash)

\* Every entry is exported or quarantined in the end, whatever fails, unless it
\* is stranded.
EntriesSettle ==
    \A e \in Event :
        row[e].status \in {"pending", "processing", "failed"} ~>
            row[e].status \in {"done", "quarantined"} \/ Stranded(e)
=============================================================================
