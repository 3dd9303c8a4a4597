---------------------------- MODULE RunScheduler ----------------------------
(***************************************************************************)
(* One run of the server, its linked job and its lease, driven by the      *)
(* multiagent scheduler (apps/server/src/application/runtime/scheduling)   *)
(* and executed by the turn loop (execution/drive-run.ts).                 *)
(*                                                                         *)
(* The server is one process on a synchronous SQLite driver: what a        *)
(* handler does between two awaits is atomic, and what interleaves are the *)
(* DRAINS, the asynchronous loops that pick a due decision and process it: *)
(* the worker's polling loop and every HTTP request that waits for a run.  *)
(* A drain that starts the run stays busy with it until the turn loop      *)
(* returns, so a drain is also the execution it carries.                   *)
(*                                                                         *)
(* Time is relative: every stored timestamp is kept as the distance to the *)
(* clock, clamped where the code no longer tells the values apart, so the  *)
(* clock itself needs no bound.                                            *)
(***************************************************************************)
EXTENDS Integers, FiniteSets

CONSTANTS
    Drain,              \* the loops that drain decisions in one process
    Nobody,             \* no drain: the run is not in the active-run registry
    WorkerLoop,         \* the drain of the polling worker and of the startup pass
    RunRole,            \* "root" or "child": decides what a startup requeue counts
    LeaseTtl,           \* multiagent.leaseTtlMs, in units of clock
    BeatEvery,          \* the heartbeat interval, a third of the lease
    MaxStaleRecoveries, \* multiagent.maxStaleRecoveries
    BaseDelay,          \* multiagent.staleRecoveryBaseDelayMs
    MaxRunTurns,        \* multiagent.maxRunTurns
    MaxCrashes,         \* bound: process crashes
    MaxStalls,          \* bound: event-loop stalls (a sleeping machine)
    MaxCommands,        \* bound: execute and cancel commands of clients
    MaxWaits            \* bound: times the run suspends on waits

\* The delay before the n-th recovery of a stale run is scheduled again.
StaleRecoveryDelay(n) == IF n <= 1 THEN 0 ELSE BaseDelay * 2^(n - 2)

ASSUME SchedulerAssumption ==
    /\ WorkerLoop \in Drain /\ Nobody \notin Drain
    /\ RunRole \in {"root", "child"}
    /\ LeaseTtl \in Nat \ {0}
    /\ BeatEvery \in 1..LeaseTtl
    /\ MaxStaleRecoveries \in Nat
    /\ MaxRunTurns \in Nat \ {0}
    /\ MaxCrashes \in Nat /\ MaxStalls \in Nat
    /\ MaxCommands \in Nat /\ MaxWaits \in Nat

\* True of every natural BaseDelay; stated because the prover knows nothing of ^.
ASSUME DelayAssumption ==
    \A n \in 0..MaxStaleRecoveries : StaleRecoveryDelay(n) \in Nat

NoCheck == -1           \* nextSchedulerCheckAt is null

\* There is no run_claims row; "left" then reads as expired, as a null
\* leaseExpiresAt does in the readiness query.
NoWorker == -1
NoClaim == [worker |-> NoWorker, left |-> -1, by |-> Nobody]

VARIABLES
    run,      \* the runs row: status, version, staleRecoveryCount
    job,      \* the linked jobs row: status, time to nextSchedulerCheckAt,
              \* time since lastHeartbeatAt
    claim,    \* the run_claims row: worker id, time to expiresAt, and the
              \* acquisition it stands for (acquiredAt), named by its drain
    waiting,  \* the run has pending run_dependencies rows
    proc,     \* the process: phase and the worker id of this incarnation
    exec,     \* what each drain is doing
    active,   \* the drain registered for the run in the active-run registry
    budget    \* what is left of each bound

vars == <<run, job, claim, waiting, proc, exec, active, budget>>

RunStatus == {"pending", "running", "waiting", "cancelling",
              "completed", "failed", "cancelled"}
Terminal  == {"completed", "failed", "cancelled"}
JobStatus == {"queued", "running", "waiting", "blocked", "completed", "cancelled"}
Phase     == {"down", "startup", "up"}
Pc        == {"idle", "context", "streaming", "tools", "converging"}

Idle == [pc |-> "idle", version |-> 0, turn |-> 0, aborted |-> FALSE, beatIn |-> 0]

TypeOK ==
    /\ run \in [status : RunStatus, version : Nat \ {0}, stale : 0..MaxStaleRecoveries]
    /\ job \in [status : JobStatus, check : Nat \cup {NoCheck}, beat : 0..LeaseTtl]
    /\ claim \in [worker : Nat, left : -1..LeaseTtl, by : Drain] \cup {NoClaim}
    /\ waiting \in BOOLEAN
    /\ proc \in [phase : Phase, worker : Nat]
    /\ exec \in [Drain -> [pc : Pc, version : Nat, turn : Nat,
                           aborted : BOOLEAN, beatIn : 0..BeatEvery]]
    /\ active \in Drain \cup {Nobody}
    /\ budget \in [crash : 0..MaxCrashes, stall : 0..MaxStalls,
                   command : 0..MaxCommands, wait : 0..MaxWaits]

Init ==
    /\ run = [status |-> "pending", version |-> 1, stale |-> 0]
    /\ job = [status |-> "queued", check |-> NoCheck, beat |-> 0]
    /\ claim = NoClaim
    /\ waiting = FALSE
    /\ proc = [phase |-> "up", worker |-> 0]
    /\ exec = [d \in Drain |-> Idle]
    /\ active = Nobody
    /\ budget = [crash |-> MaxCrashes, stall |-> MaxStalls,
                 command |-> MaxCommands, wait |-> MaxWaits]

----------------------------------------------------------------------------
(* Reading the state *)

Live(d) == exec[d].pc # "idle"

\* Plausible bugs: a guard on the status alone, or on the registry.
CurrentByStatus(d) == run.status = "running"
CurrentByRegistry(d) == active = d

\* The optimistic guard of every write of an execution: the row still is what
\* the execution loaded.
Current(d) == run.status = "running" /\ run.version = exec[d].version

ClaimExpired == claim.left <= 0

\* A plausible bug: an expired claim of another worker is never taken over.
ClaimableWithoutExpiry == claim = NoClaim \/ claim.worker = proc.worker

\* A claim is taken when there is none, when it is the worker's own, or when
\* it has expired.
Claimable == ClaimExpired \/ claim.worker = proc.worker

CheckDue == job.check = 0

\* A plausible bug: a job that never had a heartbeat has no check to be due.
StaleRunDueByCheck ==
    run.status = "running" /\ job.status = "running" /\ ClaimExpired /\ CheckDue

StaleRunDue ==
    /\ run.status = "running" /\ job.status = "running"
    /\ ClaimExpired
    /\ CheckDue \/ job.beat = LeaseTtl

PendingRunDue ==
    /\ run.status = "pending" /\ job.status = "queued"
    /\ job.check \in {NoCheck, 0}

WaitingJobDue  == run.status = "waiting" /\ ~waiting /\ job.status = "waiting"
WaitingRunDue  == run.status = "waiting" /\ ~waiting /\ job.status = "queued"

\* A drain that may pick a decision now: before the server listens only the
\* startup pass runs.
MayDecide(d) ==
    /\ ~Live(d)
    /\ \/ proc.phase = "up"
       \/ proc.phase = "startup" /\ d = WorkerLoop

----------------------------------------------------------------------------
(* Writing the state *)

\* Every run transition bumps the version; the linked job follows in the same
\* transaction with a fresh heartbeat.
SetRun(status) == run' = [run EXCEPT !.status = status, !.version = @ + 1]
SetJob(status, check) == job' = [status |-> status, check |-> check, beat |-> 0]

\* A heartbeat pushes the scheduler's next check of the job, whatever the
\* job's status is.  A plausible bug: it also says the job is running.
BeatJobAsRunning == job' = [status |-> "running", check |-> LeaseTtl, beat |-> 0]
BeatJob == job' = [job EXCEPT !.check = LeaseTtl, !.beat = 0]

\* An execution unregisters itself only.  A plausible bug: whoever is there.
UnregisterAny(d) == active' = Nobody
Unregister(d) == active' = IF active = d THEN Nobody ELSE active

\* The finally blocks: unregister the execution and delete the worker's claim.
Finish(d) ==
    /\ exec' = [exec EXCEPT ![d] = Idle]
    /\ Unregister(d)
    /\ claim' = IF claim.worker = proc.worker THEN NoClaim ELSE claim

\* A write that lost the race: return at once when the row already is in a
\* durable state, poll it for a while otherwise.
Converge(d) ==
    IF run.status \in Terminal \cup {"waiting"}
      THEN Finish(d)
      ELSE exec' = [exec EXCEPT ![d].pc = "converging"] /\ UNCHANGED <<active, claim>>

\* An aborted execution commits the cancellation the command asked for.
FinalizeCancelled(d) ==
    IF run.status = "cancelling"
      THEN /\ SetRun("cancelled") /\ SetJob("cancelled", NoCheck)
           /\ waiting' = FALSE
           /\ Finish(d)
      ELSE UNCHANGED <<run, job, waiting>> /\ Converge(d)

Conflict(d) ==
    IF exec[d].aborted
      THEN FinalizeCancelled(d)
      ELSE UNCHANGED <<run, job, waiting>> /\ Converge(d)

Fail(d) ==
    /\ SetRun("failed") /\ SetJob("blocked", NoCheck)
    /\ UNCHANGED waiting
    /\ Finish(d)

----------------------------------------------------------------------------
(* The decisions a drain processes *)

TakeClaim(d) == claim' = [worker |-> proc.worker, left |-> LeaseTtl, by |-> d]

StartRun(d) ==
    /\ Claimable
    /\ TakeClaim(d)
    /\ SetRun("running") /\ SetJob("running", NoCheck)
    /\ exec' = [exec EXCEPT ![d] = [pc |-> "context", version |-> run.version + 1,
                                    turn |-> 1, aborted |-> FALSE, beatIn |-> BeatEvery]]
    /\ active' = d
    /\ UNCHANGED <<waiting, proc, budget>>

ExecutePendingRun(d) ==
    MayDecide(d) /\ proc.phase = "up" /\ PendingRunDue /\ StartRun(d)

ResumeWaitingRun(d) == MayDecide(d) /\ WaitingRunDue /\ StartRun(d)

RequeueWaitingJob(d) ==
    /\ MayDecide(d) /\ WaitingJobDue
    /\ SetJob("queued", NoCheck)
    /\ UNCHANGED <<run, claim, waiting, proc, exec, active, budget>>

\* Recovery counts against the limit unless a root is requeued at startup.
Counted == proc.phase = "up" \/ RunRole = "child"

\* A plausible bug: one recovery too many.
RecoveryLeftOffByOne == Counted => run.stale <= MaxStaleRecoveries
RecoveryLeft == Counted => run.stale < MaxStaleRecoveries

RequeueStaleRun(d) ==
    /\ MayDecide(d) /\ StaleRunDue /\ RecoveryLeft
    /\ LET recoveries == IF Counted THEN run.stale + 1 ELSE run.stale
           delay == IF Counted THEN StaleRecoveryDelay(recoveries) ELSE 0
       IN /\ run' = [run EXCEPT !.status = "pending", !.version = @ + 1,
                                !.stale = recoveries]
          /\ SetJob("queued", IF delay > 0 THEN delay ELSE NoCheck)
    /\ UNCHANGED <<claim, waiting, proc, exec, active, budget>>

FailStaleRun(d) ==
    /\ MayDecide(d) /\ StaleRunDue /\ ~RecoveryLeft
    /\ SetRun("failed") /\ SetJob("blocked", NoCheck)
    /\ UNCHANGED <<claim, waiting, proc, exec, active, budget>>

Decide(d) ==
    \/ ExecutePendingRun(d)
    \/ ResumeWaitingRun(d)
    \/ RequeueWaitingJob(d)
    \/ RequeueStaleRun(d)
    \/ FailStaleRun(d)

----------------------------------------------------------------------------
(* The turn loop of an execution, one action per continuation *)

\* The context is loaded and the model call is made; an error returns and
\* leaves the run running.
LoadContext(d) ==
    /\ exec[d].pc = "context"
    /\ \/ exec' = [exec EXCEPT ![d].pc = "streaming"] /\ UNCHANGED <<active, claim>>
       \/ Finish(d)
    /\ UNCHANGED <<run, job, waiting, proc, budget>>

\* The provider answered with an error.
StreamFails(d) ==
    /\ exec[d].pc = "streaming"
    /\ IF exec[d].aborted THEN FinalizeCancelled(d)
       ELSE IF Current(d) THEN Fail(d)
       ELSE Conflict(d)
    /\ UNCHANGED <<proc, budget>>

\* The provider answered without tool calls: the run completes.
StreamCompletes(d) ==
    /\ exec[d].pc = "streaming"
    /\ IF Current(d)
         THEN /\ SetRun("completed") /\ SetJob("completed", NoCheck)
              /\ UNCHANGED waiting
              /\ Finish(d)
         ELSE Conflict(d)
    /\ UNCHANGED <<proc, budget>>

\* The provider asked for tools: usage, output items and calls are persisted
\* and the tools start.
StreamCallsTools(d) ==
    /\ exec[d].pc = "streaming"
    /\ IF Current(d)
         THEN /\ exec' = [exec EXCEPT ![d].pc = "tools"]
              /\ UNCHANGED <<run, job, claim, waiting, active>>
         ELSE Conflict(d)
    /\ UNCHANGED <<proc, budget>>

\* Every tool answered at once: the next turn starts, or the run has had its
\* turns and fails.
ToolsAnswer(d) ==
    /\ exec[d].pc = "tools"
    /\ IF ~Current(d) THEN Conflict(d)
       ELSE IF exec[d].turn + 1 > MaxRunTurns THEN Fail(d)
       ELSE /\ exec' = [exec EXCEPT ![d].pc = "context", ![d].turn = @ + 1]
            /\ UNCHANGED <<run, job, claim, waiting, active>>
    /\ UNCHANGED <<proc, budget>>

\* Some tool answers later: its wait is recorded and the run suspends.
ToolsWait(d) ==
    /\ exec[d].pc = "tools"
    /\ IF Current(d)
         THEN /\ budget.wait > 0
              /\ SetRun("waiting") /\ SetJob("waiting", NoCheck)
              /\ waiting' = TRUE
              /\ Finish(d)
              /\ budget' = [budget EXCEPT !.wait = @ - 1]
         ELSE Conflict(d) /\ UNCHANGED budget
    /\ UNCHANGED proc

StopConverging(d) ==
    /\ exec[d].pc = "converging"
    /\ Finish(d)
    /\ UNCHANGED <<run, job, waiting, proc, budget>>

Step(d) ==
    \/ LoadContext(d)
    \/ StreamFails(d)
    \/ StreamCompletes(d)
    \/ StreamCallsTools(d)
    \/ ToolsAnswer(d)
    \/ ToolsWait(d)
    \/ StopConverging(d)

\* A plausible bug: the timer is armed again and the claim is not renewed.
HeartbeatWithoutRenewal(d) ==
    /\ Live(d) /\ exec[d].beatIn = 0
    /\ exec' = [exec EXCEPT ![d].beatIn = BeatEvery]
    /\ UNCHANGED <<run, job, claim, waiting, proc, active, budget>>

\* The timer of a live execution fires: the claim of this WORKER is renewed if
\* it has not passed its expiry, and the job is told, whatever its status.
Heartbeat(d) ==
    /\ Live(d) /\ exec[d].beatIn = 0
    /\ exec' = [exec EXCEPT ![d].beatIn = BeatEvery]
    /\ IF claim.worker = proc.worker /\ claim.left >= 0
         THEN /\ claim' = [claim EXCEPT !.left = LeaseTtl]
              /\ BeatJob
         ELSE UNCHANGED <<claim, job>>
    /\ UNCHANGED <<run, waiting, proc, active, budget>>

----------------------------------------------------------------------------
(* Clients *)

Command == proc.phase = "up" /\ budget.command > 0
           /\ budget' = [budget EXCEPT !.command = @ - 1]

\* POST /runs/:id/execute refreshes the configuration of a pending run and
\* queues its job at once, whatever check was scheduled.
ExecuteRun ==
    /\ Command
    /\ run.status = "pending"
    /\ SetRun("pending") /\ SetJob("queued", NoCheck)
    /\ UNCHANGED <<claim, waiting, proc, exec, active>>

Abort == exec' = IF active = Nobody THEN exec ELSE [exec EXCEPT ![active].aborted = TRUE]

\* POST /runs/:id/cancel. A running run is asked to stop; any other live one
\* is cancelled on the spot.
CancelRun ==
    /\ Command
    /\ \/ /\ run.status = "running"
          /\ SetRun("cancelling")
          /\ UNCHANGED job
          /\ Abort
       \/ /\ run.status \in {"pending", "waiting"}
          /\ SetRun("cancelled") /\ SetJob("cancelled", NoCheck)
          /\ Abort
       \/ /\ run.status = "cancelling" /\ active = Nobody
          /\ SetRun("cancelled") /\ SetJob("cancelled", NoCheck)
          /\ UNCHANGED exec
    /\ waiting' = FALSE
    /\ UNCHANGED <<claim, proc, active>>

\* The last pending wait of the run is resolved (module RunWaits).
ResolveWaits ==
    /\ proc.phase # "down" /\ run.status = "waiting" /\ waiting
    /\ waiting' = FALSE
    /\ UNCHANGED <<run, job, claim, proc, exec, active, budget>>

----------------------------------------------------------------------------
(* Time, crashes and restarts *)

AtLeast(x, low) == IF x < low THEN low ELSE x
AtMost(x, high) == IF x > high THEN high ELSE x

Advance(k) ==
    /\ claim' = [claim EXCEPT !.left = AtLeast(@ - k, -1)]
    /\ job' = [job EXCEPT !.check = IF @ = NoCheck THEN @ ELSE AtLeast(@ - k, 0),
                          !.beat = AtMost(@ + k, LeaseTtl)]
    /\ exec' = [d \in Drain |-> [exec[d] EXCEPT !.beatIn = AtLeast(@ - k, 0)]]
    /\ UNCHANGED <<run, waiting, proc, active>>

\* The event loop keeps up: time passes only when no heartbeat is due.
Tick ==
    /\ \A d \in Drain : Live(d) => exec[d].beatIn > 0
    /\ Advance(1)
    /\ UNCHANGED budget

\* The event loop does not run for a while: a machine that slept, a blocking call.
Stall ==
    /\ proc.phase = "up" /\ budget.stall > 0
    /\ budget' = [budget EXCEPT !.stall = @ - 1]
    /\ \E k \in 1..(LeaseTtl + 1) : Advance(k)

Die ==
    /\ budget.crash > 0
    /\ budget' = [budget EXCEPT !.crash = @ - 1]
    /\ proc' = [proc EXCEPT !.phase = "down"]
    /\ exec' = [d \in Drain |-> Idle]
    /\ active' = Nobody

Crash ==
    /\ proc.phase # "down"
    /\ Die
    /\ UNCHANGED <<run, job, claim, waiting>>

\* The claim and its heartbeat are committed before the transaction that marks
\* the run running: a crash can fall between them.
CrashAfterClaim ==
    /\ \E d \in Drain :
          /\ MayDecide(d) /\ Claimable
          /\ \/ proc.phase = "up" /\ PendingRunDue
             \/ WaitingRunDue
          /\ TakeClaim(d)
    /\ BeatJob
    /\ Die
    /\ UNCHANGED <<run, waiting>>

Restart ==
    /\ proc.phase = "down"
    /\ proc' = [phase |-> "startup", worker |-> proc.worker + 1]
    /\ UNCHANGED <<run, job, claim, waiting, exec, active, budget>>

\* The startup pass is awaited: it ends when nothing is left for it to do.
EndStartup ==
    /\ proc.phase = "startup" /\ ~Live(WorkerLoop)
    /\ ~StaleRunDue /\ ~WaitingJobDue /\ ~(WaitingRunDue /\ Claimable)
    /\ proc' = [proc EXCEPT !.phase = "up"]
    /\ UNCHANGED <<run, job, claim, waiting, exec, active, budget>>

----------------------------------------------------------------------------
Next ==
    \/ \E d \in Drain : Decide(d) \/ Step(d) \/ Heartbeat(d)
    \/ ExecuteRun \/ CancelRun \/ ResolveWaits
    \/ Tick \/ Stall
    \/ Crash \/ CrashAfterClaim \/ Restart \/ EndStartup

Spec == Init /\ [][Next]_vars

(***************************************************************************)
(* Fairness.  The polling loop keeps polling, continuations and timers of  *)
(* the event loop eventually run, the provider and the tools eventually    *)
(* answer (their calls carry timeouts), and a supervisor restarts the      *)
(* process.  Nothing is assumed of clients, nor of those who resolve waits.*)
(***************************************************************************)
Fairness ==
    /\ WF_vars(Tick)
    /\ WF_vars(Decide(WorkerLoop))
    /\ \A d \in Drain : WF_vars(Step(d)) /\ WF_vars(Heartbeat(d))
    /\ WF_vars(Restart)
    /\ WF_vars(EndStartup)

FairSpec == Spec /\ Fairness

----------------------------------------------------------------------------
(* What the scheduler promises *)

\* However many drains, requeues and restarts there were, at most one execution
\* can still commit: the version every write is conditioned on was handed to
\* one execution only, so a superseded one can neither complete nor fail the
\* run, nor persist output or tool results for it (assertRunSnapshotCurrent).
OneCurrentExecution ==
    \A d, e \in Drain : Live(d) /\ Current(d) /\ Live(e) /\ Current(e) => d = e

\* The runs row and the jobs row are written by different repositories, the
\* job without any version check; readiness looks at the PAIR and has no
\* decision for a pair that disagrees, so a disagreement is a run nobody
\* schedules any more (evaluateSnapshot).
JobAgrees ==
    CASE run.status = "pending"    -> job.status = "queued"
      [] run.status = "running"    -> job.status = "running"
      [] run.status = "waiting"    -> job.status \in {"waiting", "queued"}
      [] run.status = "cancelling" -> job.status = "running"
      [] run.status = "completed"  -> job.status = "completed"
      [] run.status = "failed"     -> job.status = "blocked"
      [] run.status = "cancelled"  -> job.status = "cancelled"

\* The execution a cancel command must stop is the one in the registry, even
\* when an older execution of the run is still winding down beside it and
\* unregisters after the newer one registered: once a run is cancelling, the
\* execution that held it has its abort signal.
CancelReachesExecution ==
    run.status = "cancelling" =>
        \A d \in Drain : Live(d) /\ exec[d].version = run.version - 1 => exec[d].aborted

\* Why the fence holds: a version is handed out once, so no execution is ahead
\* of the row and no two carry the same version; the current one is registered.
Fenced ==
    /\ \A d \in Drain : Live(d) => exec[d].version <= run.version
    /\ \A d, e \in Drain :
          Live(d) /\ Live(e) /\ exec[d].version = exec[e].version => d = e
    /\ \A d \in Drain : Live(d) /\ Current(d) => active = d
    /\ CancelReachesExecution

\* Late results, late failures, recoveries and commands leave a finished run
\* and the status of its job as they are.
TerminalIsFinal ==
    [][run.status \in Terminal => run' = run /\ job'.status = job.status]_vars

\* The event loop has kept up so far.
NoStall == budget.stall = MaxStalls

\* While the event loop keeps up, the heartbeats of an execution in flight
\* keep every drain from recovering the run under it: the run leaves the
\* execution only by the execution's own step or by a cancel command.
InFlightKept ==
    [][\A d \in Drain :
          NoStall /\ Live(d) /\ Current(d) /\ run' # run =>
              run'.status = "cancelling" \/ ~Live(d)']_vars

\* "run claims preserve ownership until expiry": until a stall, an unexpired
\* claim goes only with the execution that acquired it.
OwnershipUntilExpiry ==
    [][\A d \in Drain :
          NoStall /\ Live(d) /\ claim.by = d /\ claim.left > 0 /\ claim' = NoClaim =>
              ~Live(d)']_vars

\* The run seen as a fenced register (module RunLifecycle): whoever is current
\* holds it.  A stale write of a superseded execution, a recovery past the
\* limit or a second holder would be a step the register does not have.
Executor ==
    IF \E d \in Drain : Live(d) /\ Current(d)
      THEN CHOOSE d \in Drain : Live(d) /\ Current(d)
      ELSE Nobody

Lifecycle == INSTANCE RunLifecycle WITH
    Holder <- Drain, MaxRecoveries <- MaxStaleRecoveries,
    status <- run.status, version <- run.version,
    recoveries <- run.stale, holder <- Executor

ImplementsLifecycle == Lifecycle!Spec

\* A run that is due is not forgotten: whatever crashes, stalls and recoveries
\* happen, it ends, suspends on waits or is being cancelled.
RunSettles ==
    run.status \in {"pending", "running"} ~>
        run.status \in Terminal \cup {"waiting", "cancelling"}

\* A suspended run is picked up again once its waits are resolved.
WaitsResume == (run.status = "waiting" /\ ~waiting) ~> run.status # "waiting"

\* The execution that held the run is streaming and has its abort signal.
StreamAborted ==
    \E d \in Drain :
        exec[d].pc = "streaming" /\ exec[d].aborted /\ exec[d].version = run.version - 1

\* "cancel run returns cancelling for an actively streaming root run and converges
\* to cancelled": once the stream is asked to stop, the cancellation ends.
CancellationConverges ==
    run.status = "cancelling" /\ StreamAborted ~> run.status = "cancelled"
=============================================================================
