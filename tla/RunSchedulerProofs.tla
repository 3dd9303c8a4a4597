------------------------- MODULE RunSchedulerProofs -------------------------
(***************************************************************************)
(* Theorems about RunScheduler, for every number of drains, every lease,   *)
(* limit and bound.                                                        *)
(***************************************************************************)
EXTENDS RunScheduler, TLAPS

ExecType == [pc : Pc, version : Nat, turn : Nat, aborted : BOOLEAN, beatIn : 0..BeatEvery]

\* The parts most actions write, typed once: a helper that writes them keeps
\* their types.
LEMMA IdleType == Idle \in ExecType
  BY SchedulerAssumption DEF Idle, ExecType, Pc

RunType == [status : RunStatus, version : Nat \ {0}, stale : 0..MaxStaleRecoveries]
JobType == [status : JobStatus, check : Nat \cup {NoCheck}, beat : 0..LeaseTtl]
ClaimType == [worker : Nat, left : -1..LeaseTtl, by : Drain] \cup {NoClaim}

LEMMA SetRunType ==
  ASSUME TypeOK, NEW s \in RunStatus, SetRun(s)
  PROVE  run' \in RunType /\ run' = [status |-> s, version |-> run.version + 1,
                                     stale |-> run.stale]
  <1>1. run \in RunType
    BY DEF TypeOK, RunType
  <1>2. run' = [status |-> s, version |-> run.version + 1, stale |-> run.stale]
    BY <1>1 DEF SetRun, RunType
  <1>3. run.version + 1 \in Nat \ {0} /\ run.stale \in 0..MaxStaleRecoveries
    BY <1>1 DEF RunType
  <1> QED BY <1>2, <1>3 DEF RunType

LEMMA SetJobType ==
  ASSUME NEW s \in JobStatus, NEW c \in Nat \cup {NoCheck}, SetJob(s, c)
  PROVE  job' \in JobType
  BY SchedulerAssumption DEF SetJob, JobType

LEMMA FinishType ==
  ASSUME TypeOK, NEW d \in Drain, Finish(d)
  PROVE  /\ exec' \in [Drain -> ExecType]
         /\ active' \in Drain \cup {Nobody}
         /\ claim' \in ClaimType
  BY IdleType DEF TypeOK, Finish, Unregister, ExecType, ClaimType

LEMMA ConvergeType ==
  ASSUME TypeOK, NEW d \in Drain, Converge(d)
  PROVE  /\ exec' \in [Drain -> ExecType]
         /\ active' \in Drain \cup {Nobody}
         /\ claim' \in ClaimType
  <1>1. CASE Finish(d)
    BY <1>1, FinishType
  <1>2. CASE exec' = [exec EXCEPT ![d].pc = "converging"] /\ UNCHANGED <<active, claim>>
    BY <1>2 DEF TypeOK, ExecType, ClaimType, Pc
  <1> QED BY <1>1, <1>2 DEF Converge

LEMMA FailType ==
  ASSUME TypeOK, NEW d \in Drain, Fail(d)
  PROVE  run' \in RunType /\ job' \in JobType /\ UNCHANGED waiting
  BY SetRunType, SetJobType DEF Fail, RunStatus, JobStatus

\* What every way to wind an execution down keeps.
Typed ==
    /\ run \in RunType /\ job \in JobType /\ claim \in ClaimType
    /\ waiting \in BOOLEAN
    /\ exec \in [Drain -> ExecType]
    /\ active \in Drain \cup {Nobody}

BudgetType == [crash : 0..MaxCrashes, stall : 0..MaxStalls,
               command : 0..MaxCommands, wait : 0..MaxWaits]

Bounded == proc \in [phase : Phase, worker : Nat] /\ budget \in BudgetType

LEMMA TypedTypeOK ==
  /\ TypeOK <=> Typed /\ Bounded
  /\ TypeOK' <=> Typed' /\ Bounded'
  BY DEF TypeOK, Typed, Bounded, RunType, JobType, ClaimType, ExecType, BudgetType

\* A handler that leaves the process and the bounds alone keeps their types.
LEMMA SameProcess ==
  ASSUME TypeOK, Typed', UNCHANGED <<proc, budget>>
  PROVE  TypeOK'
  BY TypedTypeOK DEF Bounded

LEMMA SpendBudget ==
  ASSUME TypeOK
  PROVE  /\ budget.wait > 0 => [budget EXCEPT !.wait = @ - 1] \in BudgetType
         /\ budget.command > 0 => [budget EXCEPT !.command = @ - 1] \in BudgetType
         /\ budget.stall > 0 => [budget EXCEPT !.stall = @ - 1] \in BudgetType
         /\ budget.crash > 0 => [budget EXCEPT !.crash = @ - 1] \in BudgetType
  <1>1. budget \in BudgetType
    BY TypedTypeOK DEF Bounded
  <1> QED BY <1>1, SchedulerAssumption DEF BudgetType

LEMMA FinalizeType ==
  ASSUME TypeOK, NEW d \in Drain, FinalizeCancelled(d)
  PROVE  Typed'
  <1>1. CASE run.status = "cancelling"
    <2>1. SetRun("cancelled") /\ SetJob("cancelled", NoCheck) /\ waiting' = FALSE /\ Finish(d)
      BY <1>1 DEF FinalizeCancelled
    <2>2. run' \in RunType
      BY <2>1, SetRunType DEF RunStatus
    <2>3. job' \in JobType
      BY <2>1, SetJobType DEF JobStatus
    <2> QED BY <2>1, <2>2, <2>3, FinishType DEF Typed
  <1>2. CASE run.status # "cancelling"
    BY <1>2, TypedTypeOK, ConvergeType DEF FinalizeCancelled, Typed
  <1> QED BY <1>1, <1>2

LEMMA ConflictType ==
  ASSUME TypeOK, NEW d \in Drain, Conflict(d)
  PROVE  Typed'
  BY TypedTypeOK, ConvergeType, FinalizeType DEF Conflict, Typed

LEMMA StartRunType ==
  ASSUME TypeOK, NEW d \in Drain, StartRun(d)
  PROVE  TypeOK'
  <1>1. run' \in RunType /\ job' \in JobType
    BY SetRunType, SetJobType DEF StartRun, RunStatus, JobStatus
  <1>2. claim' \in ClaimType
    BY SchedulerAssumption DEF StartRun, TakeClaim, TypeOK, ClaimType
  <1>3. exec' \in [Drain -> ExecType]
    BY SchedulerAssumption DEF StartRun, TypeOK, ExecType, Pc
  <1>4. active' \in Drain \cup {Nobody} /\ waiting' \in BOOLEAN
    BY TypedTypeOK DEF StartRun, Typed
  <1> QED BY <1>1, <1>2, <1>3, <1>4, SameProcess DEF StartRun, Typed

LEMMA DecideType ==
  ASSUME TypeOK, NEW d \in Drain, Decide(d)
  PROVE  TypeOK'
  <1>1. CASE ExecutePendingRun(d)
    BY <1>1, StartRunType DEF ExecutePendingRun
  <1>2. CASE ResumeWaitingRun(d)
    BY <1>2, StartRunType DEF ResumeWaitingRun
  <1>3. CASE RequeueWaitingJob(d)
    BY <1>3, SetJobType, TypedTypeOK, SameProcess DEF RequeueWaitingJob, JobStatus, Typed
  <1>4. CASE RequeueStaleRun(d)
    <2> DEFINE recoveries == IF Counted THEN run.stale + 1 ELSE run.stale
               delay == IF Counted THEN StaleRecoveryDelay(recoveries) ELSE 0
    <2>1. run \in RunType
      BY TypedTypeOK DEF Typed
    <2>2. recoveries \in 0..MaxStaleRecoveries
      BY <1>4, <2>1, SchedulerAssumption DEF RequeueStaleRun, RecoveryLeft, RunType
    <2>3. delay \in Nat
      BY <2>2, DelayAssumption
    <2>4. /\ run' = [run EXCEPT !.status = "pending", !.version = @ + 1, !.stale = recoveries]
          /\ SetJob("queued", IF delay > 0 THEN delay ELSE NoCheck)
          /\ UNCHANGED <<claim, waiting, proc, exec, active, budget>>
      BY <1>4 DEF RequeueStaleRun
    <2> HIDE DEF recoveries, delay
    <2>5. run' \in RunType
      <3>1. run' = [status |-> "pending", version |-> run.version + 1, stale |-> recoveries]
        BY <2>1, <2>4 DEF RunType
      <3> QED BY <2>1, <2>2, <3>1 DEF RunType, RunStatus
    <2>6. job' \in JobType
      BY <2>3, <2>4, SetJobType DEF JobStatus
    <2> QED BY <2>4, <2>5, <2>6, TypedTypeOK, SameProcess DEF Typed
  <1>5. CASE FailStaleRun(d)
    BY <1>5, SetRunType, SetJobType, TypedTypeOK, SameProcess
       DEF FailStaleRun, RunStatus, JobStatus, Typed
  <1> QED BY <1>1, <1>2, <1>3, <1>4, <1>5 DEF Decide

LEMMA StepType ==
  ASSUME TypeOK, NEW d \in Drain, Step(d)
  PROVE  TypeOK'
  <1>1. Typed
    BY TypedTypeOK
  <1>2. \A pc \in Pc : exec' = [exec EXCEPT ![d].pc = pc] => exec' \in [Drain -> ExecType]
    BY <1>1 DEF Typed, ExecType
  <1>3. CASE LoadContext(d)
    <2>1. Typed'
      BY <1>1, <1>2, <1>3, FinishType DEF LoadContext, Typed, Pc
    <2> QED BY <1>3, <2>1, SameProcess DEF LoadContext
  <1>4. CASE StreamFails(d)
    <2>1. Typed'
      BY <1>1, <1>4, FailType, FinishType, FinalizeType, ConflictType
         DEF StreamFails, Fail, Typed
    <2> QED BY <1>4, <2>1, SameProcess DEF StreamFails
  <1>5. CASE StreamCompletes(d)
    <2>1. CASE Current(d)
      BY <1>1, <1>5, <2>1, SetRunType, SetJobType, FinishType, SameProcess
         DEF StreamCompletes, Typed, RunStatus, JobStatus
    <2>2. CASE ~Current(d)
      BY <1>5, <2>2, ConflictType, SameProcess DEF StreamCompletes
    <2> QED BY <2>1, <2>2
  <1>6. CASE StreamCallsTools(d)
    <2>1. Typed'
      BY <1>1, <1>2, <1>6, ConflictType DEF StreamCallsTools, Typed, Pc
    <2> QED BY <1>6, <2>1, SameProcess DEF StreamCallsTools
  <1>7. CASE ToolsAnswer(d)
    <2>1. CASE ~Current(d)
      BY <1>7, <2>1, ConflictType, SameProcess DEF ToolsAnswer
    <2>2. CASE Current(d) /\ exec[d].turn + 1 > MaxRunTurns
      BY <1>1, <1>7, <2>2, FailType, FinishType, SameProcess DEF ToolsAnswer, Fail, Typed
    <2>3. CASE Current(d) /\ ~(exec[d].turn + 1 > MaxRunTurns)
      <3>1. exec' = [exec EXCEPT ![d].pc = "context", ![d].turn = @ + 1]
        BY <1>7, <2>3 DEF ToolsAnswer
      <3>2. exec' \in [Drain -> ExecType]
        BY <1>1, <3>1 DEF Typed, ExecType, Pc
      <3> QED BY <1>1, <1>7, <2>3, <3>2, SameProcess DEF ToolsAnswer, Typed
    <2> QED BY <2>1, <2>2, <2>3
  <1>8. CASE ToolsWait(d)
    <2>1. CASE Current(d)
      <3>1. Typed'
        BY <1>1, <1>8, <2>1, SetRunType, SetJobType, FinishType
           DEF ToolsWait, Typed, RunStatus, JobStatus
      <3>2. budget' \in BudgetType
        BY <1>8, <2>1, SpendBudget DEF ToolsWait
      <3> QED BY <1>8, <3>1, <3>2, TypedTypeOK DEF ToolsWait, Bounded
    <2>2. CASE ~Current(d)
      BY <1>8, <2>2, ConflictType, SameProcess DEF ToolsWait
    <2> QED BY <2>1, <2>2
  <1>9. CASE StopConverging(d)
    BY <1>1, <1>9, FinishType, SameProcess DEF StopConverging, Typed
  <1> QED BY <1>3, <1>4, <1>5, <1>6, <1>7, <1>8, <1>9 DEF Step

LEMMA BeatJobType ==
  ASSUME TypeOK, BeatJob
  PROVE  job' \in JobType /\ job'.status = job.status
  <1>1. job \in JobType
    BY TypedTypeOK DEF Typed
  <1>2. job' = [status |-> job.status, check |-> LeaseTtl, beat |-> 0]
    BY <1>1 DEF BeatJob, JobType
  <1> QED BY <1>1, <1>2, SchedulerAssumption DEF JobType

LEMMA HeartbeatType ==
  ASSUME TypeOK, NEW d \in Drain, Heartbeat(d)
  PROVE  TypeOK'
  <1>1. Typed
    BY TypedTypeOK
  <1>2. exec' \in [Drain -> ExecType]
    BY <1>1, SchedulerAssumption DEF Heartbeat, Typed, ExecType
  <1>3. claim' \in ClaimType /\ job' \in JobType
    <2>1. CASE claim.worker = proc.worker /\ claim.left >= 0
      <3>1. claim \in [worker : Nat, left : -1..LeaseTtl, by : Drain]
        BY <1>1, <2>1 DEF Typed, ClaimType, NoClaim
      <3>2. claim' = [claim EXCEPT !.left = LeaseTtl] /\ BeatJob
        BY <2>1 DEF Heartbeat
      <3> QED BY <3>1, <3>2, BeatJobType, SchedulerAssumption DEF ClaimType
    <2>2. CASE ~(claim.worker = proc.worker /\ claim.left >= 0)
      BY <1>1, <2>2 DEF Heartbeat, Typed
    <2> QED BY <2>1, <2>2
  <1> QED BY <1>1, <1>2, <1>3, SameProcess DEF Heartbeat, Typed

LEMMA CommandType ==
  ASSUME TypeOK, ExecuteRun \/ CancelRun
  PROVE  TypeOK'
  <1>1. Typed /\ Bounded
    BY TypedTypeOK
  <1>2. Bounded'
    BY <1>1, SpendBudget DEF ExecuteRun, CancelRun, Command, Bounded
  <1>3. CASE ExecuteRun
    BY <1>1, <1>2, <1>3, SetRunType, SetJobType, TypedTypeOK
       DEF ExecuteRun, Typed, RunStatus, JobStatus
  <1>4. CASE CancelRun
    <2>1. run' \in RunType
      BY <1>4, SetRunType DEF CancelRun, RunStatus
    <2>2. job' \in JobType
      BY <1>1, <1>4, SetJobType DEF CancelRun, JobStatus, Typed
    <2>3. exec' \in [Drain -> ExecType]
      BY <1>1, <1>4 DEF CancelRun, Abort, Typed, ExecType
    <2> QED BY <1>1, <1>2, <1>4, <2>1, <2>2, <2>3, TypedTypeOK DEF CancelRun, Typed
  <1> QED BY <1>3, <1>4

LEMMA AdvanceType ==
  ASSUME TypeOK, NEW k \in Nat, Advance(k)
  PROVE  Typed' /\ UNCHANGED proc
  <1>1. Typed
    BY TypedTypeOK
  <1>2. claim' \in ClaimType
    <2>1. claim' = [claim EXCEPT !.left = AtLeast(@ - k, -1)]
      BY DEF Advance
    <2>2. CASE claim = NoClaim
      BY <2>1, <2>2 DEF NoClaim, NoWorker, AtLeast, ClaimType
    <2>3. CASE claim \in [worker : Nat, left : -1..LeaseTtl, by : Drain]
      <3>1. AtLeast(claim.left - k, -1) \in -1..LeaseTtl
        BY <2>3, SchedulerAssumption DEF AtLeast
      <3> QED BY <2>1, <2>3, <3>1 DEF ClaimType
    <2> QED BY <1>1, <2>2, <2>3 DEF Typed, ClaimType
  <1>3. job' \in JobType
    <2>1. job \in JobType
      BY <1>1 DEF Typed
    <2> DEFINE check == IF job.check = NoCheck THEN job.check ELSE AtLeast(job.check - k, 0)
               beat == AtMost(job.beat + k, LeaseTtl)
    <2>2. check \in Nat \cup {NoCheck} /\ beat \in 0..LeaseTtl
      BY <2>1, SchedulerAssumption DEF AtLeast, AtMost, JobType, NoCheck
    <2>3. job' = [status |-> job.status, check |-> check, beat |-> beat]
      BY <2>1 DEF Advance, JobType
    <2> QED BY <2>1, <2>2, <2>3 DEF JobType
  <1>4. exec' \in [Drain -> ExecType]
    <2>1. ASSUME NEW d \in Drain
          PROVE  [exec[d] EXCEPT !.beatIn = AtLeast(@ - k, 0)] \in ExecType
      <3>1. exec[d] \in ExecType
        BY <1>1 DEF Typed
      <3>2. AtLeast(exec[d].beatIn - k, 0) \in 0..BeatEvery
        BY <3>1, SchedulerAssumption DEF AtLeast, ExecType
      <3> QED BY <3>1, <3>2 DEF ExecType
    <2> QED BY <2>1 DEF Advance
  <1> QED BY <1>1, <1>2, <1>3, <1>4 DEF Advance, Typed

LEMMA TimeType ==
  ASSUME TypeOK, Tick \/ Stall
  PROVE  TypeOK'
  <1>1. Bounded
    BY TypedTypeOK
  <1>2. CASE Tick
    BY <1>1, <1>2, AdvanceType, TypedTypeOK DEF Tick, Bounded
  <1>3. CASE Stall
    <2>1. PICK k \in 1..(LeaseTtl + 1) : Advance(k)
      BY <1>3 DEF Stall
    <2>2. Typed' /\ UNCHANGED proc
      BY <2>1, AdvanceType, SchedulerAssumption
    <2> QED BY <1>1, <1>3, <2>2, SpendBudget, TypedTypeOK DEF Stall, Bounded
  <1> QED BY <1>2, <1>3

LEMMA CrashType ==
  ASSUME TypeOK, Crash \/ CrashAfterClaim
  PROVE  TypeOK'
  <1>1. Typed /\ Bounded
    BY TypedTypeOK
  <1>2. Die
    BY DEF Crash, CrashAfterClaim
  <1>3. Bounded'
    <2>1. proc' \in [phase : Phase, worker : Nat]
      BY <1>1, <1>2 DEF Die, Bounded, Phase
    <2> QED BY <1>2, <2>1, SpendBudget DEF Die, Bounded
  <1>4. exec' \in [Drain -> ExecType] /\ active' \in Drain \cup {Nobody}
    BY <1>2, IdleType DEF Die
  <1>5. CASE Crash
    BY <1>1, <1>3, <1>4, <1>5, TypedTypeOK DEF Crash, Typed
  <1>6. CASE CrashAfterClaim
    <2>1. PICK d \in Drain : TakeClaim(d)
      BY <1>6 DEF CrashAfterClaim
    <2>2. claim' \in ClaimType
      BY <1>1, <2>1, SchedulerAssumption DEF TakeClaim, ClaimType, Bounded
    <2> QED BY <1>1, <1>3, <1>4, <1>6, <2>2, BeatJobType, TypedTypeOK DEF CrashAfterClaim, Typed
  <1> QED BY <1>5, <1>6

LEMMA ProcessType ==
  ASSUME TypeOK, ResolveWaits \/ Restart \/ EndStartup
  PROVE  TypeOK'
  <1>1. Typed /\ Bounded
    BY TypedTypeOK
  <1>2. Typed'
    BY <1>1 DEF ResolveWaits, Restart, EndStartup, Typed
  <1>3. Bounded'
    BY <1>1 DEF ResolveWaits, Restart, EndStartup, Bounded, Phase
  <1> QED BY <1>2, <1>3, TypedTypeOK

LEMMA NextType == TypeOK /\ [Next]_vars => TypeOK'
  <1> SUFFICES ASSUME TypeOK, [Next]_vars PROVE TypeOK'
    OBVIOUS
  <1>1. CASE Next
    <2>1. ASSUME NEW d \in Drain, Decide(d) \/ Step(d) \/ Heartbeat(d) PROVE TypeOK'
      BY <2>1, DecideType, StepType, HeartbeatType
    <2> QED BY <1>1, <2>1, CommandType, TimeType, CrashType, ProcessType DEF Next
  <1>2. CASE UNCHANGED vars
    BY <1>2 DEF TypeOK, vars
  <1> QED BY <1>1, <1>2

\* Every row, timer, bound and program counter keeps its type.
THEOREM TypeCorrect == Spec => []TypeOK
  <1>1. ASSUME Init PROVE TypeOK
    <2>1. run \in RunType /\ job \in JobType
      BY <1>1, SchedulerAssumption DEF Init, RunType, JobType, RunStatus, JobStatus
    <2>2. exec \in [Drain -> ExecType]
      BY <1>1, IdleType DEF Init
    <2>3. Bounded
      BY <1>1, SchedulerAssumption DEF Init, Bounded, BudgetType, Phase
    <2> QED BY <1>1, <2>1, <2>2, <2>3, TypedTypeOK DEF Init, Typed, ClaimType
  <1> QED BY <1>1, NextType, PTL DEF Spec

----------------------------------------------------------------------------
(* The fence.  A step either starts one execution with a new version or, for *)
(* the executions, is QUIET: none appears and none changes its version.      *)

Starts(d) ==
    /\ run.status \in {"pending", "waiting"} /\ run'.status = "running"
    /\ run'.version = run.version + 1 /\ run'.stale = run.stale
    /\ exec'[d].version = run'.version /\ ~Live(d) /\ Live(d)'
    /\ active' = d
    /\ \A e \in Drain \ {d} : exec'[e] = exec[e]

QuietExec ==
    \A d \in Drain : Live(d)' =>
        /\ Live(d) /\ exec'[d].version = exec[d].version
        /\ exec[d].aborted => exec'[d].aborted
        /\ active = d => active' = d

QuietRun ==
    \/ run' = run
    \/ /\ run'.version = run.version + 1
       /\ run'.status # "running"
       /\ run'.status = "cancelling" =>
             run.status = "running" /\ \A d \in Drain : active = d /\ Live(d)' => exec'[d].aborted

Quiet == QuietExec /\ QuietRun

\* The fence follows from these two shapes alone.
LEMMA ShapesKeepFence ==
  ASSUME TypeOK, TypeOK', Fenced, Quiet \/ \E d \in Drain : Starts(d)
  PROVE  Fenced'
  <1>1. /\ run.version \in Nat /\ run'.version \in Nat
        /\ \A d \in Drain : exec[d].version \in Nat /\ exec'[d].version \in Nat
    BY DEF TypeOK
  <1>2. CASE Quiet
    <2>1. run'.version >= run.version
      BY <1>1, <1>2 DEF Quiet, QuietRun
    <2>2. \A d \in Drain : Live(d)' => exec'[d].version <= run'.version
      BY <1>1, <1>2, <2>1 DEF Quiet, QuietExec, Fenced
    <2>3. \A d, e \in Drain :
             Live(d)' /\ Live(e)' /\ exec'[d].version = exec'[e].version => d = e
      BY <1>2 DEF Quiet, QuietExec, Fenced
    <2>4. \A d \in Drain : Live(d)' /\ Current(d)' => active' = d
      BY <1>2 DEF Quiet, QuietExec, QuietRun, Fenced, Current
    <2>5. ASSUME NEW d \in Drain, run'.status = "cancelling", Live(d)',
                 exec'[d].version = run'.version - 1
          PROVE  exec'[d].aborted
      <3>1. CASE run' = run
        BY <1>2, <2>5, <3>1 DEF Quiet, QuietExec, Fenced, CancelReachesExecution
      <3>2. CASE run' # run
        <4>1. Live(d) /\ Current(d)
          BY <1>1, <1>2, <2>5, <3>2 DEF Quiet, QuietExec, QuietRun, Current
        <4> QED BY <1>2, <2>5, <3>2, <4>1 DEF Quiet, QuietRun, Fenced
      <3> QED BY <3>1, <3>2
    <2> QED BY <2>2, <2>3, <2>4, <2>5 DEF Fenced, CancelReachesExecution, Live, Current
  <1>3. ASSUME NEW d \in Drain, Starts(d) PROVE Fenced'
    <2>1. \A e \in Drain \ {d} : Live(e)' =>
             Live(e) /\ exec'[e].version = exec[e].version /\ exec[e].version < run'.version
      BY <1>1, <1>3 DEF Starts, Live, Fenced
    <2>2. \A e \in Drain : Live(e)' => exec'[e].version <= run'.version
      BY <1>1, <1>3, <2>1 DEF Starts
    <2>3. \A e, f \in Drain :
             Live(e)' /\ Live(f)' /\ exec'[e].version = exec'[f].version => e = f
      <3> SUFFICES ASSUME NEW e \in Drain, NEW f \in Drain, Live(e)', Live(f)',
                          exec'[e].version = exec'[f].version
                   PROVE  e = f
        OBVIOUS
      <3>1. CASE e # d /\ f # d
        BY <2>1, <3>1 DEF Fenced
      <3>2. CASE e = d \/ f = d
        BY <1>1, <1>3, <2>1, <3>2 DEF Starts
      <3> QED BY <3>1, <3>2
    <2>4. \A e \in Drain : Live(e)' /\ Current(e)' => active' = e
      BY <1>1, <1>3, <2>1 DEF Starts, Current
    <2>5. run'.status # "cancelling"
      BY <1>3 DEF Starts
    <2> QED BY <2>2, <2>3, <2>4, <2>5 DEF Fenced, CancelReachesExecution, Live, Current
  <1> QED BY <1>2, <1>3

LEMMA FinishQuiet ==
  ASSUME TypeOK, NEW d \in Drain, Finish(d)
  PROVE  QuietExec
  BY SchedulerAssumption DEF TypeOK, Finish, Unregister, QuietExec, Live, Idle

LEMMA PcQuiet ==
  ASSUME TypeOK, NEW d \in Drain, Live(d), NEW pc,
         exec' = [exec EXCEPT ![d].pc = pc], UNCHANGED active
  PROVE  QuietExec
  BY DEF TypeOK, QuietExec, Live

LEMMA ConvergeQuiet ==
  ASSUME TypeOK, NEW d \in Drain, Live(d), Converge(d)
  PROVE  QuietExec
  BY FinishQuiet, PcQuiet DEF Converge

LEMMA FinalizeQuiet ==
  ASSUME TypeOK, NEW d \in Drain, Live(d), FinalizeCancelled(d)
  PROVE  Quiet
  <1>1. CASE run.status = "cancelling"
    <2>1. SetRun("cancelled") /\ Finish(d)
      BY <1>1 DEF FinalizeCancelled
    <2>2. run'.version = run.version + 1 /\ run'.status = "cancelled"
      BY <2>1, SetRunType DEF RunStatus
    <2> QED BY <2>1, <2>2, FinishQuiet DEF Quiet, QuietRun
  <1>2. CASE run.status # "cancelling"
    BY <1>2, ConvergeQuiet DEF FinalizeCancelled, Quiet, QuietRun
  <1> QED BY <1>1, <1>2

LEMMA ConflictQuiet ==
  ASSUME TypeOK, NEW d \in Drain, Live(d), Conflict(d)
  PROVE  Quiet
  BY ConvergeQuiet, FinalizeQuiet DEF Conflict, Quiet, QuietRun

LEMMA FailQuiet ==
  ASSUME TypeOK, NEW d \in Drain, Fail(d)
  PROVE  Quiet
  <1>1. run'.version = run.version + 1 /\ run'.status = "failed"
    BY SetRunType DEF Fail, RunStatus
  <1> QED BY <1>1, FinishQuiet DEF Fail, Quiet, QuietRun

LEMMA StartRunStarts ==
  ASSUME TypeOK, NEW d \in Drain, StartRun(d), MayDecide(d),
         run.status \in {"pending", "waiting"}
  PROVE  Starts(d)
  <1>1. run'.version = run.version + 1 /\ run'.status = "running" /\ run'.stale = run.stale
    BY SetRunType DEF StartRun, RunStatus
  <1> QED BY <1>1 DEF StartRun, MayDecide, Starts, TypeOK, Live

LEMMA DecideShape ==
  ASSUME TypeOK, NEW d \in Drain, Decide(d)
  PROVE  Quiet \/ Starts(d)
  <1>1. CASE ExecutePendingRun(d)
    BY <1>1, StartRunStarts DEF ExecutePendingRun, PendingRunDue
  <1>2. CASE ResumeWaitingRun(d)
    BY <1>2, StartRunStarts DEF ResumeWaitingRun, WaitingRunDue
  <1>3. CASE RequeueWaitingJob(d)
    BY <1>3 DEF RequeueWaitingJob, Quiet, QuietExec, QuietRun, Live
  <1>4. CASE RequeueStaleRun(d)
    <2>1. run \in RunType
      BY TypedTypeOK DEF Typed
    <2>2. run'.version = run.version + 1 /\ run'.status = "pending"
      BY <1>4, <2>1 DEF RequeueStaleRun, RunType
    <2> QED BY <1>4, <2>2 DEF RequeueStaleRun, Quiet, QuietExec, QuietRun, Live
  <1>5. CASE FailStaleRun(d)
    <2>1. run'.version = run.version + 1 /\ run'.status = "failed"
      BY <1>5, SetRunType DEF FailStaleRun, RunStatus
    <2> QED BY <1>5, <2>1 DEF FailStaleRun, Quiet, QuietExec, QuietRun, Live
  <1> QED BY <1>1, <1>2, <1>3, <1>4, <1>5 DEF Decide

LEMMA StepQuiet ==
  ASSUME TypeOK, NEW d \in Drain, Step(d)
  PROVE  Quiet
  <1>1. Live(d)
    BY DEF Step, LoadContext, StreamFails, StreamCompletes, StreamCallsTools, ToolsAnswer,
           ToolsWait, StopConverging, Live
  <1>2. CASE LoadContext(d)
    BY <1>1, <1>2, FinishQuiet, PcQuiet DEF LoadContext, Quiet, QuietRun
  <1>3. CASE StreamFails(d)
    BY <1>1, <1>3, FailQuiet, FinalizeQuiet, ConflictQuiet DEF StreamFails
  <1>4. CASE StreamCompletes(d)
    <2>1. CASE Current(d)
      <3>1. run'.version = run.version + 1 /\ run'.status = "completed"
        BY <1>4, <2>1, SetRunType DEF StreamCompletes, RunStatus
      <3> QED BY <1>4, <2>1, <3>1, FinishQuiet DEF StreamCompletes, Quiet, QuietRun
    <2> QED BY <1>1, <1>4, <2>1, ConflictQuiet DEF StreamCompletes
  <1>5. CASE StreamCallsTools(d)
    BY <1>1, <1>5, PcQuiet, ConflictQuiet DEF StreamCallsTools, Quiet, QuietRun
  <1>6. CASE ToolsAnswer(d)
    <2>1. CASE exec' = [exec EXCEPT ![d].pc = "context", ![d].turn = @ + 1]
               /\ UNCHANGED <<run, active>>
      BY <1>1, <2>1 DEF TypeOK, Quiet, QuietExec, QuietRun, Live
    <2> QED BY <1>1, <1>6, <2>1, FailQuiet, ConflictQuiet DEF ToolsAnswer
  <1>7. CASE ToolsWait(d)
    <2>1. CASE Current(d)
      <3>1. run'.version = run.version + 1 /\ run'.status = "waiting"
        BY <1>7, <2>1, SetRunType DEF ToolsWait, RunStatus
      <3> QED BY <1>7, <2>1, <3>1, FinishQuiet DEF ToolsWait, Quiet, QuietRun
    <2> QED BY <1>1, <1>7, <2>1, ConflictQuiet DEF ToolsWait
  <1>8. CASE StopConverging(d)
    BY <1>8, FinishQuiet DEF StopConverging, Quiet, QuietRun
  <1> QED BY <1>2, <1>3, <1>4, <1>5, <1>6, <1>7, <1>8 DEF Step

LEMMA CommandQuiet ==
  ASSUME TypeOK, ExecuteRun \/ CancelRun
  PROVE  Quiet
  <1>1. CASE ExecuteRun
    <2>1. run'.version = run.version + 1 /\ run'.status = "pending"
      BY <1>1, SetRunType DEF ExecuteRun, RunStatus
    <2> QED BY <1>1, <2>1 DEF ExecuteRun, Quiet, QuietExec, QuietRun, Live
  <1>2. CASE CancelRun
    <2>1. QuietExec
      BY <1>2 DEF CancelRun, Abort, TypeOK, QuietExec, Live
    <2>2. CASE run.status = "running" /\ SetRun("cancelling") /\ Abort
      <3>1. run'.version = run.version + 1 /\ run'.status = "cancelling"
        BY <2>2, SetRunType DEF RunStatus
      <3>2. \A d \in Drain : active = d => exec'[d].aborted
        BY <2>2, SchedulerAssumption DEF Abort, TypeOK
      <3> QED BY <2>1, <2>2, <3>1, <3>2 DEF Quiet, QuietRun
    <2>3. CASE SetRun("cancelled")
      <3>1. run'.version = run.version + 1 /\ run'.status = "cancelled"
        BY <2>3, SetRunType DEF RunStatus
      <3> QED BY <2>1, <3>1 DEF Quiet, QuietRun
    <2> QED BY <1>2, <2>2, <2>3 DEF CancelRun
  <1> QED BY <1>1, <1>2

LEMMA TimeQuiet ==
  ASSUME TypeOK, Tick \/ Stall
  PROVE  Quiet
  <1>1. PICK k : Advance(k)
    BY DEF Tick, Stall
  <1>2. \A d \in Drain : exec'[d] = [exec[d] EXCEPT !.beatIn = AtLeast(@ - k, 0)]
    BY <1>1 DEF Advance
  <1>3. \A d \in Drain : /\ exec'[d].pc = exec[d].pc /\ exec'[d].version = exec[d].version
                         /\ exec'[d].aborted = exec[d].aborted
    <2>1. \A d \in Drain : exec[d] \in ExecType
      BY TypedTypeOK DEF Typed
    <2> QED BY <1>2, <2>1 DEF ExecType
  <1> QED BY <1>1, <1>3 DEF Advance, Quiet, QuietExec, QuietRun, Live

LEMMA CrashQuiet ==
  ASSUME TypeOK, Crash \/ CrashAfterClaim
  PROVE  Quiet
  BY DEF Crash, CrashAfterClaim, Die, Quiet, QuietExec, QuietRun, Live, Idle

LEMMA NextShape ==
  ASSUME TypeOK, [Next]_vars
  PROVE  Quiet \/ \E d \in Drain : Starts(d)
  <1>1. ASSUME NEW d \in Drain, Heartbeat(d) PROVE Quiet
    BY <1>1 DEF Heartbeat, TypeOK, Quiet, QuietExec, QuietRun, Live
  <1>2. CASE ResolveWaits \/ Restart \/ EndStartup \/ UNCHANGED vars
    BY <1>2 DEF ResolveWaits, Restart, EndStartup, vars, Quiet, QuietExec, QuietRun, Live
  <1> QED BY <1>1, <1>2, DecideShape, StepQuiet, CommandQuiet, TimeQuiet, CrashQuiet DEF Next

LEMMA FencedInvariant == Spec => []Fenced
  <1>1. Init => Fenced
    BY DEF Init, Fenced, CancelReachesExecution, Live, Idle
  <1>2. TypeOK /\ Fenced /\ [Next]_vars => Fenced'
    BY NextShape, NextType, ShapesKeepFence
  <1> QED BY <1>1, <1>2, TypeCorrect, PTL DEF Spec

\* Two executions never hold the same (status, version) of the run: at most one
\* can still commit.
THEOREM AtMostOneCommits == Spec => []OneCurrentExecution
  <1>1. Fenced => OneCurrentExecution
    BY DEF Fenced, OneCurrentExecution, Current
  <1> QED BY <1>1, FencedInvariant, PTL

\* The abort signal of a cancel command reaches the execution it must stop.
THEOREM CancelReaches == Spec => []CancelReachesExecution
  <1>1. Fenced => CancelReachesExecution
    BY DEF Fenced
  <1> QED BY <1>1, FencedInvariant, PTL

\* A version that an execution carries and the row has left behind never comes
\* back: once a recovery, a command or another write has taken the run from an
\* execution, no later write of it commits, however long it goes on beside its
\* successors (the (status, version) guards of run-repository.ts).
LostForGood ==
    [][\A d \in Drain : Live(d) /\ ~Current(d) /\ Live(d)' => ~Current(d)']_vars

\* An execution carries the version of the row only while the run is running:
\* whatever leaves that status moves the version.
Behind == \A d \in Drain : Live(d) => Current(d) \/ exec[d].version < run.version

LEMMA ShapesKeepBehind ==
  ASSUME TypeOK, TypeOK', Behind, Quiet \/ \E d \in Drain : Starts(d)
  PROVE  /\ Behind'
         /\ \A d \in Drain : Live(d) /\ ~Current(d) /\ Live(d)' => ~Current(d)'
  <1>1. /\ run.version \in Nat /\ run'.version \in Nat
        /\ \A d \in Drain : exec[d].version \in Nat /\ exec'[d].version \in Nat
    BY DEF TypeOK
  <1>2. CASE Quiet
    <2>1. run' = run \/ run'.version = run.version + 1
      BY <1>2 DEF Quiet, QuietRun
    <2>2. \A d \in Drain : Live(d)' => Live(d) /\ exec'[d].version = exec[d].version
      BY <1>2 DEF Quiet, QuietExec
    <2> QED BY <1>1, <2>1, <2>2 DEF Behind, Current
  <1>3. ASSUME NEW d \in Drain, Starts(d)
        PROVE  /\ Behind'
               /\ \A e \in Drain : Live(e) /\ ~Current(e) /\ Live(e)' => ~Current(e)'
    <2>1. \A e \in Drain \ {d} : Live(e)' =>
             Live(e) /\ exec'[e].version = exec[e].version /\ exec[e].version < run'.version
      BY <1>1, <1>3 DEF Starts, Live, Behind, Current
    <2>2. Current(d)' /\ ~Live(d)
      BY <1>3 DEF Starts, Current
    <2> QED BY <1>1, <2>1, <2>2 DEF Behind, Current
  <1> QED BY <1>2, <1>3

\* A superseded execution never gets the run back (LostForGood).
THEOREM SupersededStays == Spec => LostForGood
  <1>1. Init => Behind
    BY DEF Init, Behind, Live, Idle
  <1>2. TypeOK /\ TypeOK' /\ Behind /\ [Next]_vars => Behind'
    BY NextShape, ShapesKeepBehind
  <1>3. TypeOK /\ TypeOK' /\ Behind /\ [Next]_vars =>
           [\A d \in Drain : Live(d) /\ ~Current(d) /\ Live(d)' => ~Current(d)']_vars
    BY NextShape, ShapesKeepBehind
  <1> QED BY <1>1, <1>2, <1>3, TypeCorrect, PTL DEF Spec, LostForGood

----------------------------------------------------------------------------
(* The rows.  Every step moves the run and its job along one edge of this   *)
(* graph, or leaves both statuses alone.                                    *)

Commits == \E d \in Drain : Live(d) /\ Current(d)

Edge(from, to, jobStatus) ==
    /\ run.status \in from /\ run'.status = to /\ run'.version = run.version + 1
    /\ job'.status = jobStatus

RowStep ==
    \/ run' = run /\ (job'.status = job.status \/ (run.status = "waiting" /\ job'.status = "queued"))
    \/ /\ run'.stale = run.stale
       /\ \/ Edge({"pending", "waiting"}, "running", "running")
          \/ Commits /\ Edge({"running"}, "completed", "completed")
          \/ Commits /\ Edge({"running"}, "waiting", "waiting")
          \/ (Commits \/ run.stale = MaxStaleRecoveries) /\ Edge({"running"}, "failed", "blocked")
          \/ Edge({"pending"}, "pending", "queued")
          \/ Edge({"running"}, "cancelling", job.status)
          \/ Edge({"pending", "waiting", "cancelling"}, "cancelled", "cancelled")
    \/ /\ run'.stale \in {run.stale, run.stale + 1} /\ run'.stale <= MaxStaleRecoveries
       /\ Edge({"running"}, "pending", "queued")

LEMMA SetRow ==
  ASSUME TypeOK, NEW s \in RunStatus, NEW j \in JobStatus, NEW c, SetRun(s), SetJob(j, c)
  PROVE  /\ run'.stale = run.stale
         /\ \A from : run.status \in from => Edge(from, s, j)
  BY SetRunType DEF SetJob, Edge

LEMMA SameRow ==
  ASSUME UNCHANGED <<run, job>> PROVE RowStep
  BY DEF RowStep

LEMMA ConflictRow ==
  ASSUME TypeOK, NEW d \in Drain, Conflict(d) \/ FinalizeCancelled(d)
  PROVE  RowStep
  <1>1. CASE run.status = "cancelling" /\ FinalizeCancelled(d)
    <2>1. SetRun("cancelled") /\ SetJob("cancelled", NoCheck)
      BY <1>1 DEF FinalizeCancelled
    <2> QED BY <1>1, <2>1, SetRow DEF RowStep, RunStatus, JobStatus
  <1> QED BY <1>1, SameRow DEF Conflict, FinalizeCancelled

LEMMA FailRow ==
  ASSUME TypeOK, NEW d \in Drain, Live(d), Current(d), Fail(d)
  PROVE  RowStep
  BY SetRow DEF Fail, RowStep, Commits, Current, RunStatus, JobStatus

LEMMA DecideRow ==
  ASSUME TypeOK, NEW d \in Drain, Decide(d)
  PROVE  RowStep
  <1>1. CASE StartRun(d) /\ run.status \in {"pending", "waiting"}
    BY <1>1, SetRow DEF StartRun, RowStep, RunStatus, JobStatus
  <1>2. CASE RequeueWaitingJob(d)
    BY <1>2 DEF RequeueWaitingJob, WaitingJobDue, SetJob, RowStep
  <1>3. CASE RequeueStaleRun(d)
    <2>1. run \in RunType /\ run.status = "running"
      BY <1>3, TypedTypeOK DEF Typed, RequeueStaleRun, StaleRunDue
    <2>2. job'.status = "queued"
      BY <1>3 DEF RequeueStaleRun, SetJob
    <2>3. /\ run'.version = run.version + 1 /\ run'.status = "pending"
          /\ run'.stale = IF Counted THEN run.stale + 1 ELSE run.stale
      BY <1>3, <2>1 DEF RequeueStaleRun, RunType
    <2>4. run'.stale <= MaxStaleRecoveries
      BY <1>3, <2>1, <2>3, SchedulerAssumption DEF RequeueStaleRun, RecoveryLeft, RunType
    <2> QED BY <2>1, <2>2, <2>3, <2>4 DEF RowStep, Edge
  <1>4. CASE FailStaleRun(d)
    <2>1. run.status = "running" /\ run.stale = MaxStaleRecoveries
      BY <1>4, SchedulerAssumption, TypedTypeOK
         DEF FailStaleRun, StaleRunDue, RecoveryLeft, Typed, RunType
    <2> QED BY <1>4, <2>1, SetRow DEF FailStaleRun, RowStep, RunStatus, JobStatus
  <1> QED BY <1>1, <1>2, <1>3, <1>4
          DEF Decide, ExecutePendingRun, ResumeWaitingRun, PendingRunDue, WaitingRunDue

LEMMA StepRow ==
  ASSUME TypeOK, NEW d \in Drain, Step(d)
  PROVE  RowStep
  <1>1. CASE LoadContext(d) \/ StopConverging(d)
    BY <1>1, SameRow DEF LoadContext, StopConverging
  <1>2. CASE StreamFails(d)
    BY <1>2, FailRow, ConflictRow DEF StreamFails, Live
  <1>3. CASE StreamCompletes(d)
    <2>1. CASE Current(d)
      <3>1. Commits
        BY <1>3, <2>1 DEF StreamCompletes, Commits, Live
      <3> QED BY <1>3, <2>1, <3>1, SetRow
              DEF StreamCompletes, RowStep, Current, RunStatus, JobStatus
    <2> QED BY <1>3, <2>1, ConflictRow DEF StreamCompletes
  <1>4. CASE StreamCallsTools(d)
    BY <1>4, SameRow, ConflictRow DEF StreamCallsTools
  <1>5. CASE ToolsAnswer(d)
    BY <1>5, SameRow, FailRow, ConflictRow DEF ToolsAnswer, Live
  <1>6. CASE ToolsWait(d)
    <2>1. CASE Current(d)
      <3>1. Commits
        BY <1>6, <2>1 DEF ToolsWait, Commits, Live
      <3> QED BY <1>6, <2>1, <3>1, SetRow DEF ToolsWait, RowStep, Current, RunStatus, JobStatus
    <2> QED BY <1>6, <2>1, ConflictRow DEF ToolsWait
  <1> QED BY <1>1, <1>2, <1>3, <1>4, <1>5, <1>6 DEF Step

LEMMA CommandRow ==
  ASSUME TypeOK, ExecuteRun \/ CancelRun
  PROVE  RowStep
  <1>1. CASE ExecuteRun
    BY <1>1, SetRow DEF ExecuteRun, RowStep, RunStatus, JobStatus
  <1>2. CASE CancelRun
    <2>1. CASE run.status = "running" /\ SetRun("cancelling") /\ UNCHANGED job
      BY <2>1, SetRunType DEF RowStep, Edge, RunStatus
    <2>2. CASE run.status \in {"pending", "waiting", "cancelling"}
               /\ SetRun("cancelled") /\ SetJob("cancelled", NoCheck)
      BY <2>2, SetRow DEF RowStep, RunStatus, JobStatus
    <2> QED BY <1>2, <2>1, <2>2 DEF CancelRun
  <1> QED BY <1>1, <1>2

LEMMA NextRow ==
  ASSUME TypeOK, [Next]_vars
  PROVE  RowStep
  <1>1. ASSUME NEW k, Advance(k) PROVE RowStep
    <2>1. job \in JobType
      BY TypedTypeOK DEF Typed
    <2> QED BY <1>1, <2>1 DEF Advance, RowStep, JobType
  <1>2. ASSUME NEW d \in Drain, Heartbeat(d) PROVE RowStep
    BY <1>2, BeatJobType DEF Heartbeat, RowStep
  <1>3. CASE Crash \/ CrashAfterClaim
    BY <1>3, BeatJobType DEF Crash, CrashAfterClaim, RowStep
  <1>4. CASE ResolveWaits \/ Restart \/ EndStartup \/ UNCHANGED vars
    BY <1>4, SameRow DEF ResolveWaits, Restart, EndStartup, vars
  <1> QED BY <1>1, <1>2, <1>3, <1>4, DecideRow, StepRow, CommandRow DEF Next, Tick, Stall

\* The run and its job never disagree, so readiness always has a decision for
\* the pair (or none is due).
THEOREM JobFollowsRun == Spec => []JobAgrees
  <1>1. Init => JobAgrees
    BY DEF Init, JobAgrees
  <1>2. RowStep /\ JobAgrees => JobAgrees'
    BY DEF RowStep, Edge, JobAgrees
  <1> QED BY <1>1, <1>2, TypeCorrect, NextRow, PTL DEF Spec

\* A finished run stays as it is, and so does the status of its job.
THEOREM TerminalStays == Spec => TerminalIsFinal
  <1>1. RowStep => (run.status \in Terminal => run' = run /\ job'.status = job.status)
    BY DEF RowStep, Edge, Terminal
  <1>2. TypeOK /\ [Next]_vars => [run.status \in Terminal => run' = run /\ job'.status = job.status]_vars
    BY <1>1, NextRow
  <1> QED BY <1>2, TypeCorrect, PTL DEF Spec, TerminalIsFinal

----------------------------------------------------------------------------
(* The refinement.  Its holder is the current execution, unique by the fence. *)

LEMMA ExecutorIs ==
  ASSUME Fenced
  PROVE  /\ \A d \in Drain : Live(d) /\ Current(d) => Executor = d
         /\ ~Commits => Executor = Nobody
         /\ Commits => Executor \in Drain
  BY DEF Fenced, Executor, Commits

LEMMA ExecutorIsNext ==
  ASSUME Fenced'
  PROVE  /\ \A d \in Drain : Live(d)' /\ Current(d)' => Executor' = d
         /\ run'.status # "running" => Executor' = Nobody
         /\ (~\E d \in Drain : Live(d)' /\ Current(d)') => Executor' = Nobody
  BY DEF Fenced, Executor, Current, Live

LEMMA LifecycleStep ==
  ASSUME TypeOK, TypeOK', Fenced, Fenced', RowStep, Quiet \/ \E d \in Drain : Starts(d)
  PROVE  [Lifecycle!Next]_Lifecycle!lifecycle
  <1> USE DEF Lifecycle!Move
  <1>1. Executor \in Drain <=> Commits
    BY ExecutorIs, SchedulerAssumption
  <1>2. ASSUME NEW d \in Drain, Starts(d) PROVE Lifecycle!Next
    <2>1. Current(d)' /\ Executor' = d
      BY <1>2, ExecutorIsNext DEF Starts, Current
    <2> QED BY <1>2, <2>1 DEF Starts, Lifecycle!Next, Lifecycle!Start
  <1>3. CASE Quiet /\ run' = run
    <2>1. \A d \in Drain : Live(d)' /\ Current(d)' => Live(d) /\ Current(d)
      BY <1>3 DEF Quiet, QuietExec, Current
    <2>2. Executor' = Executor \/ (Commits /\ Executor' = Nobody)
      BY <2>1, ExecutorIs, ExecutorIsNext DEF Commits
    <2> QED BY <1>1, <1>3, <2>2
            DEF Lifecycle!Next, Lifecycle!LetGo, Lifecycle!Held, Lifecycle!lifecycle
  <1>4. CASE Quiet /\ run' # run
    <2>1. run'.status # "running" /\ Executor' = Nobody
      BY <1>4, ExecutorIsNext DEF Quiet, QuietRun
    <2>2. run.status # "running" => Executor = Nobody
      BY ExecutorIs DEF Commits, Current
    <2>3. run'.version = run.version + 1
      BY <1>4 DEF Quiet, QuietRun
    <2>4. CASE run.status = "running" /\ run'.status \in {"completed", "waiting"}
      BY <1>1, <1>4, <2>1, <2>3, <2>4
         DEF RowStep, Edge, Lifecycle!Next, Lifecycle!EndTurn, Lifecycle!Held
    <2>5. CASE run.status = "running" /\ run'.status = "failed"
      BY <1>1, <1>4, <2>1, <2>3, <2>5
         DEF RowStep, Edge, Lifecycle!Next, Lifecycle!Fail, Lifecycle!Held
    <2>6. CASE run.status = "running" /\ run'.status = "pending"
      BY <1>4, <2>1, <2>3, <2>6 DEF RowStep, Edge, Lifecycle!Next, Lifecycle!Recover
    <2>7. CASE run.status = "pending" /\ run'.status = "pending"
      BY <1>4, <2>1, <2>2, <2>3, <2>7 DEF RowStep, Edge, Lifecycle!Next, Lifecycle!Configure
    <2>8. CASE run'.status \in {"cancelling", "cancelled"}
      BY <1>4, <2>1, <2>3, <2>8 DEF RowStep, Edge, Lifecycle!Next, Lifecycle!Cancel
    <2> QED BY <1>4, <2>1, <2>4, <2>5, <2>6, <2>7, <2>8 DEF RowStep, Edge
  <1> QED BY <1>2, <1>3, <1>4

\* The scheduler, with all its drains, leases and crashes, is the fenced register
\* of RunLifecycle.
THEOREM Implements == Spec => ImplementsLifecycle
  <1>1. ASSUME Init PROVE Lifecycle!Init
    <2>1. Executor = Nobody
      BY <1>1 DEF Init, Executor, Live, Idle
    <2> QED BY <1>1, <2>1 DEF Init, Lifecycle!Init
  <1>2. TypeOK /\ TypeOK' /\ Fenced /\ Fenced' /\ [Next]_vars =>
           [Lifecycle!Next]_Lifecycle!lifecycle
    BY NextRow, NextShape, LifecycleStep
  <1> QED BY <1>1, <1>2, TypeCorrect, FencedInvariant, PTL
          DEF Spec, ImplementsLifecycle, Lifecycle!Spec

----------------------------------------------------------------------------
(* The lease.  Until the event loop stalls, an execution in flight is alone, *)
(* registered and owns the claim of its worker, and its heartbeat is due     *)
(* before the claim expires.  The code beats every third of the lease, but   *)
(* not more often than every 25 ms: the heartbeat comes before the expiry    *)
(* only of leases that are longer than that.                                 *)

BeatsInTime == BeatEvery < LeaseTtl

Undisturbed(d) ==
    /\ active = d
    /\ Current(d) \/ run.status = "cancelling"
    /\ claim.worker = proc.worker /\ claim.by = d
    /\ claim.left = LeaseTtl - BeatEvery + exec[d].beatIn

InFlight ==
    /\ proc.phase = "down" => \A d \in Drain : ~Live(d)
    /\ NoStall => \A d \in Drain : Live(d) => Undisturbed(d)

LEMMA InFlightAlone ==
  ASSUME InFlight, NoStall, NEW d \in Drain, NEW e \in Drain, Live(d), Live(e)
  PROVE  d = e
  BY DEF InFlight, Undisturbed

\* No drain has anything to decide while the execution goes on.
LEMMA DecideWhenFree ==
  ASSUME TypeOK, BeatsInTime, InFlight, NoStall, NEW e \in Drain, Decide(e)
  PROVE  \A d \in Drain : ~Live(d)
  <1> SUFFICES ASSUME NEW d \in Drain, Live(d) PROVE FALSE
    OBVIOUS
  <1>1. Undisturbed(d) /\ run.status \in {"running", "cancelling"}
    BY DEF InFlight, Undisturbed, Current
  <1>2. exec[d].beatIn \in 0..BeatEvery
    BY DEF TypeOK
  <1>3. ~ClaimExpired
    BY <1>1, <1>2, SchedulerAssumption DEF Undisturbed, ClaimExpired, BeatsInTime
  <1> QED BY <1>1, <1>3 DEF Decide, ExecutePendingRun, ResumeWaitingRun, RequeueWaitingJob,
          RequeueStaleRun, FailStaleRun, PendingRunDue, WaitingRunDue, WaitingJobDue, StaleRunDue

\* A continuation either finishes its execution or writes nothing but its own
\* program counter.
GoesOn(d) ==
    /\ UNCHANGED <<run, claim, active>>
    /\ Live(d)' /\ exec'[d].version = exec[d].version /\ exec'[d].beatIn = exec[d].beatIn
    /\ \A e \in Drain \ {d} : exec'[e] = exec[e]

LEMMA PcGoesOn ==
  ASSUME TypeOK, NEW d \in Drain, NEW pc \in Pc \ {"idle"},
         exec' = [exec EXCEPT ![d].pc = pc], UNCHANGED <<run, claim, active>>
  PROVE  GoesOn(d)
  BY DEF TypeOK, GoesOn, Live

LEMMA ConflictEnds ==
  ASSUME TypeOK, NEW d \in Drain, Conflict(d) \/ FinalizeCancelled(d)
  PROVE  Finish(d) \/ GoesOn(d)
  <1>1. "converging" \in Pc \ {"idle"}
    BY DEF Pc
  <1>2. CASE Converge(d) /\ UNCHANGED run
    BY <1>1, <1>2, PcGoesOn DEF Converge
  <1> QED BY <1>2 DEF Conflict, FinalizeCancelled

LEMMA StepEnds ==
  ASSUME TypeOK, NEW d \in Drain, Step(d)
  PROVE  /\ Live(d) /\ UNCHANGED proc /\ budget'.stall = budget.stall
         /\ Finish(d) \/ GoesOn(d)
  <1>1. Live(d)
    BY DEF Step, LoadContext, StreamFails, StreamCompletes, StreamCallsTools, ToolsAnswer,
           ToolsWait, StopConverging, Live
  <1>2. {"streaming", "tools", "context"} \subseteq Pc \ {"idle"}
    BY DEF Pc
  <1>3. CASE LoadContext(d)
    BY <1>1, <1>2, <1>3, PcGoesOn DEF LoadContext
  <1>4. CASE StreamFails(d)
    BY <1>1, <1>4, ConflictEnds DEF StreamFails, Fail
  <1>5. CASE StreamCompletes(d)
    BY <1>1, <1>5, ConflictEnds DEF StreamCompletes
  <1>6. CASE StreamCallsTools(d)
    BY <1>1, <1>2, <1>6, PcGoesOn, ConflictEnds DEF StreamCallsTools
  <1>7. CASE ToolsAnswer(d)
    <2>1. CASE exec' = [exec EXCEPT ![d].pc = "context", ![d].turn = @ + 1]
               /\ UNCHANGED <<run, claim, active>>
      BY <2>1 DEF TypeOK, GoesOn, Live
    <2> QED BY <1>1, <1>7, <2>1, ConflictEnds DEF ToolsAnswer, Fail
  <1>8. CASE ToolsWait(d)
    <2>1. CASE Current(d)
      <3>1. budget' = [budget EXCEPT !.wait = @ - 1] /\ budget \in BudgetType
        BY <1>8, <2>1, TypedTypeOK DEF ToolsWait, Bounded
      <3>2. budget'.stall = budget.stall
        BY <3>1 DEF BudgetType
      <3> QED BY <1>1, <1>8, <2>1, <3>2 DEF ToolsWait
    <2> QED BY <1>1, <1>8, <2>1, ConflictEnds DEF ToolsWait
  <1>9. CASE StopConverging(d)
    BY <1>1, <1>9 DEF StopConverging
  <1> QED BY <1>3, <1>4, <1>5, <1>6, <1>7, <1>8, <1>9 DEF Step

LEMMA FinishIdles ==
  ASSUME TypeOK, NEW d \in Drain, Finish(d)
  PROVE  ~Live(d)' /\ \A e \in Drain \ {d} : exec'[e] = exec[e]
  BY DEF Finish, TypeOK, Live, Idle

LEMMA InFlightStart ==
  ASSUME TypeOK, NEW d \in Drain, StartRun(d), MayDecide(d), \A e \in Drain : ~Live(e)
  PROVE  InFlight'
  <1>1. run'.version = run.version + 1 /\ run'.status = "running"
    BY SetRunType DEF StartRun, RunStatus
  <1>2. exec'[d] = [pc |-> "context", version |-> run.version + 1, turn |-> 1,
                    aborted |-> FALSE, beatIn |-> BeatEvery]
    BY DEF StartRun, TypeOK
  <1>3. \A e \in Drain \ {d} : ~Live(e)'
    BY DEF StartRun, TypeOK, Live
  <1>4. Undisturbed(d)'
    BY <1>1, <1>2, SchedulerAssumption DEF StartRun, TakeClaim, Undisturbed, Current
  <1>5. proc'.phase # "down"
    BY DEF MayDecide, StartRun
  <1> QED BY <1>3, <1>4, <1>5 DEF InFlight

LEMMA InFlightDecide ==
  ASSUME TypeOK, BeatsInTime, InFlight, NEW d \in Drain, Decide(d)
  PROVE  InFlight'
  <1>1. proc.phase # "down" /\ UNCHANGED <<proc, budget>>
    BY DEF Decide, ExecutePendingRun, ResumeWaitingRun, RequeueWaitingJob, RequeueStaleRun,
       FailStaleRun, MayDecide, StartRun
  <1>2. CASE ~NoStall
    BY <1>1, <1>2 DEF InFlight, NoStall
  <1>3. CASE NoStall
    <2>1. \A e \in Drain : ~Live(e)
      BY <1>3, DecideWhenFree
    <2>2. CASE StartRun(d) /\ MayDecide(d)
      BY <2>1, <2>2, InFlightStart
    <2>3. CASE UNCHANGED exec
      BY <2>1, <2>3 DEF InFlight, Live
    <2> QED BY <2>2, <2>3 DEF Decide, ExecutePendingRun, ResumeWaitingRun, RequeueWaitingJob,
            RequeueStaleRun, FailStaleRun
  <1> QED BY <1>2, <1>3

LEMMA InFlightStep ==
  ASSUME TypeOK, InFlight, NEW d \in Drain, Step(d)
  PROVE  InFlight'
  <1>1. /\ Live(d) /\ UNCHANGED proc /\ budget'.stall = budget.stall
        /\ Finish(d) \/ GoesOn(d)
    BY StepEnds
  <1>2. proc'.phase # "down"
    BY <1>1 DEF InFlight
  <1>3. ASSUME NoStall PROVE \A e \in Drain : Live(e)' => Undisturbed(e)'
    <2>1. \A e \in Drain \ {d} : ~Live(e)
      BY <1>1, <1>3, InFlightAlone
    <2>2. CASE Finish(d)
      BY <2>1, <2>2, FinishIdles DEF Live
    <2>3. CASE GoesOn(d)
      <3>1. \A e \in Drain \ {d} : ~Live(e)'
        BY <2>1, <2>3 DEF GoesOn, Live
      <3>2. Undisturbed(d)'
        BY <1>1, <1>3, <2>3 DEF GoesOn, InFlight, Undisturbed, Current
      <3> QED BY <3>1, <3>2
    <2> QED BY <1>1, <2>2, <2>3
  <1> QED BY <1>1, <1>2, <1>3 DEF InFlight, NoStall

LEMMA InFlightBeat ==
  ASSUME TypeOK, InFlight, NEW d \in Drain, Heartbeat(d)
  PROVE  InFlight'
  <1>1. /\ Live(d) /\ UNCHANGED <<run, proc, active, budget>>
        /\ exec' = [exec EXCEPT ![d].beatIn = BeatEvery]
    BY DEF Heartbeat
  <1>2. proc'.phase # "down"
    BY <1>1 DEF InFlight
  <1>3. ASSUME NoStall PROVE \A e \in Drain : Live(e)' => Undisturbed(e)'
    <2>1. \A e \in Drain \ {d} : ~Live(e)'
      BY <1>1, <1>3, InFlightAlone DEF TypeOK, Live
    <2>2. Undisturbed(d)
      BY <1>1, <1>3 DEF InFlight
    <2>3. exec[d].beatIn = 0 /\ claim.left >= 0
      BY <2>2, SchedulerAssumption DEF Heartbeat, Undisturbed
    <2>4. claim' = [claim EXCEPT !.left = LeaseTtl] /\ claim \in ClaimType
      BY <2>2, <2>3, TypedTypeOK DEF Heartbeat, Undisturbed, Typed
    <2>5. claim'.left = LeaseTtl /\ claim'.worker = claim.worker /\ claim'.by = claim.by
      BY <2>4 DEF ClaimType, NoClaim
    <2>6. exec'[d].beatIn = BeatEvery /\ exec'[d].version = exec[d].version
      BY <1>1 DEF TypeOK
    <2>7. Undisturbed(d)'
      BY <1>1, <2>2, <2>5, <2>6, SchedulerAssumption DEF Undisturbed, Current
    <2> QED BY <2>1, <2>7
  <1> QED BY <1>1, <1>2, <1>3 DEF InFlight, NoStall

LEMMA InFlightTick ==
  ASSUME TypeOK, BeatsInTime, InFlight, Tick
  PROVE  InFlight'
  <1>1. /\ Advance(1) /\ UNCHANGED <<run, proc, active, budget>>
        /\ \A d \in Drain : Live(d) => exec[d].beatIn > 0
    BY DEF Tick, Advance
  <1>2. \A d \in Drain : exec[d] \in ExecType
    BY TypedTypeOK DEF Typed
  <1>3. \A d \in Drain : exec'[d] = [exec[d] EXCEPT !.beatIn = AtLeast(@ - 1, 0)]
    BY <1>1 DEF Advance
  <1>4. \A d \in Drain : (Live(d)' <=> Live(d)) /\ exec'[d].version = exec[d].version
    BY <1>2, <1>3 DEF ExecType, Live
  <1>5. ASSUME NoStall, NEW d \in Drain, Live(d) PROVE Undisturbed(d)'
    <2>1. Undisturbed(d)
      BY <1>5 DEF InFlight
    <2>2. exec'[d].beatIn = exec[d].beatIn - 1 /\ exec[d].beatIn \in 1..BeatEvery
      <3>1. exec[d].beatIn \in 1..BeatEvery
        BY <1>1, <1>2, <1>5, SchedulerAssumption DEF ExecType
      <3>2. exec'[d] = [exec[d] EXCEPT !.beatIn = exec[d].beatIn - 1]
        BY <1>3, <3>1, SchedulerAssumption DEF AtLeast
      <3> QED BY <1>2, <3>1, <3>2 DEF ExecType
    <2>3. claim.left - 1 >= 0 /\ claim.left \in Int
      BY <2>1, <2>2, SchedulerAssumption DEF Undisturbed
    <2>4. claim' = [claim EXCEPT !.left = claim.left - 1] /\ claim \in ClaimType
      BY <1>1, <2>3, TypedTypeOK DEF Advance, AtLeast, Typed
    <2>5. claim'.left = claim.left - 1 /\ claim'.worker = claim.worker /\ claim'.by = claim.by
      BY <2>4 DEF ClaimType, NoClaim
    <2> QED BY <1>1, <1>4, <2>1, <2>2, <2>5, SchedulerAssumption DEF Undisturbed, Current
  <1> QED BY <1>1, <1>4, <1>5 DEF InFlight, NoStall

LEMMA InFlightCommand ==
  ASSUME TypeOK, InFlight, ExecuteRun \/ CancelRun
  PROVE  InFlight'
  <1>1. UNCHANGED <<claim, proc, active>> /\ proc.phase = "up"
    BY DEF ExecuteRun, CancelRun, Command
  <1>2. budget'.stall = budget.stall
    <2>1. budget' = [budget EXCEPT !.command = @ - 1] /\ budget \in BudgetType
      BY TypedTypeOK DEF ExecuteRun, CancelRun, Command, Bounded
    <2> QED BY <2>1 DEF BudgetType
  <1>3. \A d \in Drain : /\ Live(d)' <=> Live(d)
                         /\ exec'[d].version = exec[d].version
                         /\ exec'[d].beatIn = exec[d].beatIn
    BY DEF ExecuteRun, CancelRun, Abort, TypeOK, Live
  <1>4. ASSUME NoStall, NEW d \in Drain, Live(d) PROVE Undisturbed(d)'
    <2>1. Undisturbed(d)
      BY <1>4 DEF InFlight
    <2>2. run'.status = "cancelling"
      <3>1. run.status \in {"running", "cancelling"} /\ active # Nobody
        BY <2>1, SchedulerAssumption DEF Undisturbed, Current
      <3>2. SetRun("cancelling")
        BY <3>1 DEF ExecuteRun, CancelRun
      <3> QED BY <3>2, SetRunType DEF RunStatus
    <2> QED BY <1>1, <1>3, <2>1, <2>2 DEF Undisturbed
  <1> QED BY <1>1, <1>2, <1>3, <1>4 DEF InFlight, NoStall

LEMMA InFlightNext ==
  ASSUME TypeOK, BeatsInTime, InFlight, [Next]_vars
  PROVE  InFlight'
  <1>1. ASSUME NEW d \in Drain, Decide(d) \/ Step(d) \/ Heartbeat(d) PROVE InFlight'
    BY <1>1, InFlightDecide, InFlightStep, InFlightBeat
  <1>2. CASE Stall
    <2>1. budget.stall \in 0..MaxStalls /\ budget' = [budget EXCEPT !.stall = @ - 1]
      BY <1>2, TypedTypeOK DEF Bounded, BudgetType, Stall
    <2>2. ~NoStall' /\ proc'.phase # "down"
      BY <1>2, <2>1, TypedTypeOK, SchedulerAssumption DEF NoStall, Stall, Advance, Bounded, BudgetType
    <2> QED BY <2>2 DEF InFlight
  <1>3. CASE Crash \/ CrashAfterClaim
    <2>1. \A d \in Drain : ~Live(d)'
      BY <1>3 DEF Crash, CrashAfterClaim, Die, Live, Idle
    <2> QED BY <2>1 DEF InFlight
  <1>4. CASE Restart
    <2>1. \A d \in Drain : ~Live(d)'
      BY <1>4 DEF Restart, InFlight, Live
    <2> QED BY <2>1 DEF InFlight
  <1>5. CASE ResolveWaits
    <2>1. proc'.phase # "down" /\ UNCHANGED <<run, claim, proc, exec, active, budget>>
      BY <1>5 DEF ResolveWaits
    <2> QED BY <2>1 DEF InFlight, NoStall, Undisturbed, Current, Live
  <1>6. CASE EndStartup
    <2>1. proc'.phase # "down" /\ proc'.worker = proc.worker
          /\ UNCHANGED <<run, claim, exec, active, budget>>
      BY <1>6 DEF EndStartup
    <2> QED BY <2>1 DEF InFlight, NoStall, Undisturbed, Current, Live
  <1>7. CASE UNCHANGED vars
    BY <1>7 DEF vars, InFlight, NoStall, Undisturbed, Current, Live
  <1> QED BY <1>1, <1>2, <1>3, <1>4, <1>5, <1>6, <1>7, InFlightTick, InFlightCommand DEF Next

LEMMA InFlightInvariant == ASSUME BeatsInTime PROVE Spec => []InFlight
  <1>1. Init => InFlight
    BY DEF Init, InFlight, Live, Idle
  <1>2. TypeOK /\ InFlight /\ [Next]_vars => InFlight'
    BY InFlightNext
  <1> QED BY <1>1, <1>2, TypeCorrect, PTL DEF Spec

\* The two promises, of one step.
KeptStep ==
    \A d \in Drain : NoStall /\ Live(d) /\ Current(d) /\ run' # run =>
        run'.status = "cancelling" \/ ~Live(d)'

OwnedStep ==
    \A d \in Drain :
        NoStall /\ Live(d) /\ claim.by = d /\ claim.left > 0 /\ claim' = NoClaim => ~Live(d)'

LEMMA StepKeeps ==
  ASSUME TypeOK, BeatsInTime, InFlight, [Next]_vars
  PROVE  KeptStep
  <1> SUFFICES ASSUME NEW d \in Drain, NoStall, Live(d), Current(d), run' # run,
                      run'.status # "cancelling"
               PROVE  ~Live(d)'
    BY DEF KeptStep
  <1>1. run.status = "running"
    BY DEF Current
  <1>2. ~ExecuteRun /\ ~CancelRun
    <2>1. CASE CancelRun
      <3>1. SetRun("cancelling")
        BY <1>1, <2>1 DEF CancelRun
      <3> QED BY <3>1, SetRunType DEF RunStatus
    <2> QED BY <1>1, <2>1 DEF ExecuteRun
  <1>3. \A e \in Drain : ~Decide(e)
    BY DecideWhenFree
  <1>4. ASSUME NEW e \in Drain, Step(e) PROVE ~Live(d)'
    <2>1. e = d /\ (Finish(d) \/ GoesOn(d))
      BY <1>4, StepEnds, InFlightAlone
    <2> QED BY <2>1, FinishIdles DEF GoesOn
  <1>5. CASE Crash \/ CrashAfterClaim
    BY <1>5 DEF Crash, CrashAfterClaim
  <1> QED BY <1>2, <1>3, <1>4, <1>5 DEF Next, Heartbeat, Tick, Stall, Advance, Restart, EndStartup,
          ResolveWaits, vars

LEMMA StepOwns ==
  ASSUME TypeOK, BeatsInTime, InFlight, [Next]_vars
  PROVE  OwnedStep
  <1> SUFFICES ASSUME NEW d \in Drain, NoStall, Live(d), claim.by = d, claim.left > 0,
                      claim' = NoClaim
               PROVE  ~Live(d)'
    BY DEF OwnedStep
  <1>1. claim # NoClaim /\ claim.worker # NoWorker
    BY TypedTypeOK DEF Typed, ClaimType, NoClaim, NoWorker
  <1>2. \A e \in Drain : ~Decide(e)
    BY DecideWhenFree
  <1>3. ASSUME NEW e \in Drain, Step(e) PROVE ~Live(d)'
    <2>1. e = d /\ (Finish(d) \/ GoesOn(d))
      BY <1>3, StepEnds, InFlightAlone
    <2> QED BY <1>1, <2>1, FinishIdles DEF GoesOn
  <1>4. ASSUME NEW left, claim' = [claim EXCEPT !.left = left] PROVE FALSE
    <2>1. claim'.worker = claim.worker
      BY <1>4, TypedTypeOK DEF Typed, ClaimType, NoClaim
    <2> QED BY <1>1, <2>1 DEF NoClaim
  <1>5. ASSUME NEW e \in Drain, Heartbeat(e) PROVE FALSE
    BY <1>1, <1>4, <1>5 DEF Heartbeat
  <1>6. CASE Tick \/ Stall
    BY <1>4, <1>6 DEF Tick, Stall, Advance
  <1>7. CASE Crash \/ CrashAfterClaim
    BY <1>7 DEF Crash, CrashAfterClaim, Die, Live, Idle
  <1> QED BY <1>1, <1>2, <1>3, <1>5, <1>6, <1>7 DEF Next, ExecuteRun, CancelRun, ResolveWaits,
          Restart, EndStartup, vars

\* While the event loop keeps up, no drain recovers, fails or requeues the run
\* under an execution in flight, however many drains poll and however long its
\* turns take.
THEOREM HeartbeatsKeepTheRun == ASSUME BeatsInTime PROVE Spec => InFlightKept
  <1>1. TypeOK /\ InFlight /\ [Next]_vars => [KeptStep]_vars
    BY StepKeeps
  <1>2. Spec => [][KeptStep]_vars
    BY <1>1, TypeCorrect, InFlightInvariant, PTL DEF Spec
  <1> QED BY <1>2, PTL DEF InFlightKept, KeptStep

\* "run claims preserve ownership until expiry": the worker-wide release of a
\* finishing execution never takes the claim of another one.
THEOREM ClaimsPreserveOwnership == ASSUME BeatsInTime PROVE Spec => OwnershipUntilExpiry
  <1>1. TypeOK /\ InFlight /\ [Next]_vars => [OwnedStep]_vars
    BY StepOwns
  <1>2. Spec => [][OwnedStep]_vars
    BY <1>1, TypeCorrect, InFlightInvariant, PTL DEF Spec
  <1> QED BY <1>2, PTL DEF OwnershipUntilExpiry, OwnedStep
=============================================================================
