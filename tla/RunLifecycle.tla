---------------------------- MODULE RunLifecycle ----------------------------
(***************************************************************************)
(* What the scheduler promises of one run, without drains, leases, jobs or *)
(* time: the runs row is a register written under a (status, version)      *)
(* guard, every write bumps the version, and at most one execution, the    *)
(* HOLDER, may end a turn of it.  RunScheduler implements this module.     *)
(***************************************************************************)
EXTENDS Naturals

CONSTANTS
    Holder,         \* who may hold the run
    Nobody,         \* no holder
    MaxRecoveries   \* recoveries of a stale run before it is failed

VARIABLES status, version, recoveries, holder

lifecycle == <<status, version, recoveries, holder>>

Init ==
    /\ status = "pending" /\ version = 1
    /\ recoveries = 0
    /\ holder = Nobody

Held == holder \in Holder

Move(from, to) == status = from /\ status' = to /\ version' = version + 1

\* A pending run, or a waiting one whose waits are resolved, gets a new holder.
Start ==
    /\ Move("pending", "running") \/ Move("waiting", "running")
    /\ holder' \in Holder
    /\ UNCHANGED recoveries

\* Only a holder completes the run or suspends it, and it lets go of it.
EndTurn ==
    /\ Held
    /\ Move("running", "completed") \/ Move("running", "waiting")
    /\ holder' = Nobody
    /\ UNCHANGED recoveries

\* A holder may fail the run; so may a recovery when none is left.
Fail ==
    /\ Held \/ recoveries = MaxRecoveries
    /\ Move("running", "failed")
    /\ holder' = Nobody
    /\ UNCHANGED recoveries

\* A stale run is taken from its holder.
Recover ==
    /\ Move("running", "pending")
    /\ recoveries' \in {recoveries, recoveries + 1} /\ recoveries' <= MaxRecoveries
    /\ holder' = Nobody

\* A holder stops, or dies, and leaves the run to a recovery.
LetGo ==
    /\ Held /\ holder' = Nobody
    /\ UNCHANGED <<status, version, recoveries>>

Configure ==
    /\ Move("pending", "pending")
    /\ UNCHANGED <<recoveries, holder>>

\* A cancelled run that is running keeps its holder from committing at once,
\* and is cancelled when the holder has stopped.
Cancel ==
    /\ \/ Move("running", "cancelling")
       \/ \E live \in {"pending", "waiting", "cancelling"} : Move(live, "cancelled")
    /\ holder' = Nobody
    /\ UNCHANGED recoveries

Next == Start \/ EndTurn \/ Fail \/ Recover \/ LetGo \/ Configure \/ Cancel

Spec == Init /\ [][Next]_lifecycle
=============================================================================
