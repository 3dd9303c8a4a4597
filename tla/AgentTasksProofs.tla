-------------------------- MODULE AgentTasksProofs --------------------------
(***************************************************************************)
(* Proofs about AgentTasks, for every set of schedules, every recovery     *)
(* delay and every number of crashes and commands.                         *)
(*                                                                         *)
(* A firing owns its row: InFlight says that the row of a firing that has  *)
(* claimed is the last one and undecided, which is what a crash may leave  *)
(* behind and what no command can touch.                                   *)
(***************************************************************************)
EXTENDS AgentTasks, SequenceTheorems, TLAPS

InFlight ==
    /\ ~Quiet => fire.row \in 1..Len(rows)
    /\ fire.pc = "claimed" => fire.row = Len(rows) /\ rows[fire.row].status = "claimed"

IInv ==
    /\ TypeOK /\ InFlight
    /\ ActiveIsScheduled /\ OccurrenceOnce /\ NeighboursTakeTurns

----------------------------------------------------------------------------
(* The schedule *)

\* An instant after another one is a real instant.
LEMMA FirstAfterTyped ==
    ASSUME TasksAssumption, NEW c \in Cron, NEW t \in 0..MaxTime, NEW x \in FirstAfter(c, t)
    PROVE  x \in 0..Beyond /\ x # Never
<1>1. c \subseteq 1..MaxTime /\ MaxTime \in Nat
  BY DEF TasksAssumption
<1> QED
  BY <1>1 DEF FirstAfter, Beyond, Never

\* Moving on keeps a schedule: an active task does not lose its next instant.
LEMMA AdvanceTyped ==
    ASSUME TasksAssumption, TypeOK, NEW trigger, Advance(trigger)
    PROVE  next' \in 0..Beyond /\ (next # Never => next' # Never)
  BY FirstAfterTyped DEF Advance, TypeOK

----------------------------------------------------------------------------
(* The rows *)

\* A step that leaves row i with status s and run r, and the others alone.
Becomes(i, s, r) ==
    /\ rows' \in Seq(Row) /\ Len(rows') = Len(rows)
    /\ rows'[i].trigger = rows[i].trigger /\ rows'[i].for = rows[i].for
    /\ rows'[i].status = s /\ rows'[i].run = r
    /\ \A j \in 1..Len(rows) : j # i => rows'[j] = rows[j]

\* The status and the run of a row.
LEMMA RowFields ==
    ASSUME TypeOK, NEW i \in 1..Len(rows)
    PROVE  /\ rows[i].run \in {"none", "active", "ended"}
           /\ rows[i].status \in {"claimed", "queued", "failed", "skipped"}
<1>1. rows[i] \in Row
  BY ElementOfSeq DEF TypeOK
<1> QED
  BY <1>1 DEF Row

\* Deciding a row, or starting or ending its run.
LEMMA RowUpdated ==
    ASSUME TypeOK, NEW i \in 1..Len(rows),
           NEW s \in {"claimed", "queued", "failed", "skipped"},
           NEW r \in {"none", "active", "ended"},
           \/ rows' = [rows EXCEPT ![i].status = s, ![i].run = r]
           \/ rows' = [rows EXCEPT ![i].status = s] /\ r = rows[i].run
           \/ rows' = [rows EXCEPT ![i].run = r] /\ s = rows[i].status
    PROVE  Becomes(i, s, r)
<1>1. rows \in [1..Len(rows) -> Row] /\ Len(rows) \in Nat
  BY DEF TypeOK
<1>2. /\ rows' \in [1..Len(rows) -> Row]
      /\ rows'[i].trigger = rows[i].trigger /\ rows'[i].for = rows[i].for
      /\ rows'[i].status = s /\ rows'[i].run = r
      /\ \A j \in 1..Len(rows) : j # i => rows'[j] = rows[j]
  BY <1>1 DEF Row
<1>3. rows' \in Seq(Row)
  BY <1>1, <1>2, SeqDef
<1>4. Len(rows') = Len(rows)
  BY <1>1, <1>2, <1>3, LenProperties
<1> QED
  BY <1>2, <1>3, <1>4 DEF Becomes

\* What OutcomesStand says of a step.
Stands == \A i \in DOMAIN rows : Settled(i) => rows'[i].status = rows[i].status

\* A step that leaves the rows alone, and at most ends the firing.
LEMMA RowsKept ==
    ASSUME IInv, UNCHANGED rows, fire' \in {fire, Idle}
    PROVE  InFlight' /\ OccurrenceOnce' /\ NeighboursTakeTurns' /\ Stands
<1>1. UNCHANGED <<OccurrenceOnce, NeighboursTakeTurns>>
  BY DEF OccurrenceOnce, NeighboursTakeTurns
<1>2. InFlight'
  BY DEF IInv, InFlight, Quiet, Idle
<1> QED
  BY <1>1, <1>2 DEF IInv, Stands

\* Claiming adds a row for an occurrence that has none.
LEMMA RowClaimed ==
    ASSUME TasksAssumption, IInv, NEW trigger \in {"scheduled", "manual"},
           NEW t \in 0..MaxTime, trigger = "scheduled" => Held(t) = {},
           Claim(trigger, t), budget' \in
               [crash : 0..MaxCrashes, manual : 0..MaxManual, edit : 0..MaxEdits]
    PROVE  IInv' /\ Stands
<1> DEFINE new == [trigger |-> trigger, for |-> t, claimed |-> now,
                   status |-> "claimed", run |-> "none"]
<1>1. rows \in Seq(Row) /\ new \in Row /\ rows' = Append(rows, new)
  BY DEF IInv, TypeOK, Claim, Row
<1>2. /\ rows' \in Seq(Row) /\ Len(rows') = Len(rows) + 1
      /\ \A i \in 1..Len(rows) : rows'[i] = rows[i]
      /\ rows'[Len(rows) + 1] = new
  BY <1>1, AppendProperties
<1>3. DOMAIN rows = 1..Len(rows) /\ DOMAIN rows' = 1..Len(rows) + 1 /\ Len(rows) \in Nat
  BY <1>1, <1>2
<1>4. TypeOK'
  BY <1>1, <1>2, <1>3 DEF IInv, TypeOK, Claim
<1>5. InFlight'
  BY <1>2, <1>3 DEF InFlight, Claim, Quiet
<1>6. OccurrenceOnce'
  <2>1. \A i \in DOMAIN rows : trigger = "scheduled" /\ rows[i].trigger = "scheduled"
                                 => rows[i].for # t
    BY DEF Held
  <2> QED
    BY <1>2, <1>3, <2>1 DEF IInv, OccurrenceOnce
<1>7. NeighboursTakeTurns'
  BY <1>2, <1>3 DEF IInv, NeighboursTakeTurns
<1>8. ActiveIsScheduled'
  BY DEF IInv, ActiveIsScheduled, Claim
<1>9. Stands
  BY <1>2, <1>3 DEF Stands
<1> QED
  BY <1>4, <1>5, <1>6, <1>7, <1>8, <1>9 DEF IInv

\* The row before one that is not the first.
LEMMA Before ==
    ASSUME NEW n \in Nat, NEW j \in 1..n, j > 1
    PROVE  j - 1 \in 1..n /\ j - 1 # j /\ j - 1 # n
  OBVIOUS

\* Deciding an undecided row, or ending a run.  A run starts where no neighbour's
\* is active.
LEMMA RowDecided ==
    ASSUME IInv, NEW i \in 1..Len(rows),
           NEW s \in {"claimed", "queued", "failed", "skipped"},
           NEW r \in {"none", "active", "ended"},
           Becomes(i, s, r),
           Settled(i) => s = rows[i].status,
           \/ r \in {"ended", rows[i].run}
           \/ i = Len(rows) /\ (i > 1 => rows[i - 1].run # "active")
    PROVE  /\ rows' \in Seq(Row) /\ Len(rows') = Len(rows)
           /\ OccurrenceOnce' /\ NeighboursTakeTurns' /\ Stands
<1>1. /\ rows' \in Seq(Row) /\ Len(rows') = Len(rows)
      /\ rows'[i].trigger = rows[i].trigger /\ rows'[i].for = rows[i].for
      /\ rows'[i].status = s /\ rows'[i].run = r
      /\ \A j \in 1..Len(rows) : j # i => rows'[j] = rows[j]
  BY DEF Becomes
<1>2. DOMAIN rows = 1..Len(rows) /\ DOMAIN rows' = 1..Len(rows) /\ Len(rows) \in Nat
  BY <1>1 DEF IInv, TypeOK
<1>3. \A j \in 1..Len(rows) : rows'[j].trigger = rows[j].trigger /\ rows'[j].for = rows[j].for
  BY SMTT(30), <1>1
<1>4. OccurrenceOnce'
  BY ZenonT(60), <1>2, <1>3 DEF IInv, OccurrenceOnce
<1>5. NeighboursTakeTurns'
  <2> SUFFICES ASSUME NEW j \in 1..Len(rows), j > 1, rows'[j].run = "active"
               PROVE  rows'[j - 1].run # "active"
    BY <1>2 DEF NeighboursTakeTurns
  <2>1. j - 1 \in 1..Len(rows) /\ j - 1 # j /\ j - 1 # Len(rows)
    BY <1>2, Before
  <2>2. rows[j].run = "active" => rows[j - 1].run # "active"
    BY <1>2 DEF IInv, NeighboursTakeTurns
  <2>3. CASE j = i
    BY <1>1, <2>1, <2>2, <2>3
  <2>4. CASE j - 1 = i
    BY <1>1, <2>1, <2>2, <2>4
  <2>5. CASE j # i /\ j - 1 # i
    BY <1>1, <2>1, <2>2, <2>5
  <2> QED
    BY <2>3, <2>4, <2>5
<1>6. Stands
  BY <1>1, <1>2 DEF Stands
<1> QED
  BY <1>1, <1>4, <1>5, <1>6

----------------------------------------------------------------------------
(* Every step *)

LEMMA Initially == TasksAssumption /\ Init => IInv
<1> SUFFICES ASSUME TasksAssumption, Init PROVE IInv
  OBVIOUS
<1>1. MaxTime \in Nat /\ 0 \in 0..MaxTime /\ Never \in 0..Beyond
  BY DEF TasksAssumption, Never, Beyond
<1>2. next \in 0..Beyond /\ ActiveIsScheduled
  BY <1>1, FirstAfterTyped DEF Init, ActiveIsScheduled
<1>3. rows \in Seq(Row) /\ Len(rows) = 0 /\ DOMAIN rows = {}
  BY DEF Init
<1>4. TypeOK
  BY <1>1, <1>2, <1>3 DEF Init, TypeOK, Idle, TasksAssumption
<1>5. InFlight /\ OccurrenceOnce /\ NeighboursTakeTurns
  BY <1>3 DEF Init, InFlight, Quiet, Idle, OccurrenceOnce, NeighboursTakeTurns
<1> QED
  BY <1>2, <1>4, <1>5 DEF IInv

\* The steps that only move the schedule, the status, the clock or a bound.
LEMMA Elsewhere ==
    ASSUME TasksAssumption, IInv, UNCHANGED rows, fire' \in {fire, Idle},
           now' \in 0..MaxTime, cron' \in Cron,
           status' \in {"active", "paused", "archived", "deleted"},
           next' \in 0..Beyond, status' = "active" => next' # Never,
           budget' \in [crash : 0..MaxCrashes, manual : 0..MaxManual, edit : 0..MaxEdits]
    PROVE  IInv' /\ Stands
<1>1. InFlight' /\ OccurrenceOnce' /\ NeighboursTakeTurns' /\ Stands
  BY RowsKept
<1>2. TypeOK'
  BY DEF IInv, TypeOK, Idle
<1> QED
  BY <1>1, <1>2 DEF IInv, ActiveIsScheduled

\* A firing that is rejected pauses the task or moves its schedule on.
LEMMA Rejected ==
    ASSUME TasksAssumption, IInv, NEW trigger, Reject(trigger),
           budget' \in [crash : 0..MaxCrashes, manual : 0..MaxManual, edit : 0..MaxEdits]
    PROVE  IInv' /\ Stands
<1>1. next' \in 0..Beyond /\ (status' = "active" => next' # Never)
  BY AdvanceTyped DEF Reject, IInv, TypeOK, ActiveIsScheduled
<1> QED
  BY <1>1, Elsewhere DEF Reject, IInv, TypeOK

LEMMA FiringKeeps == ASSUME TasksAssumption, IInv, Fire PROVE IInv' /\ Stands
<1> USE DEF IInv
<1>1. CASE FireScheduled
  <2>1. next \in 0..MaxTime
    BY <1>1 DEF FireScheduled, Due, TypeOK, TasksAssumption, Beyond
  <2> QED
    BY <1>1, <2>1, RowClaimed DEF FireScheduled, TypeOK
<1>2. CASE RecoverAbandoned
  <2>1. PICK i \in Held(next) : /\ Abandoned(i)
                                /\ rows' = [rows EXCEPT ![i].status = "failed"]
                                /\ fire' = [pc |-> "advance", row |-> i]
    BY <1>2 DEF RecoverAbandoned
  <2>2. i \in 1..Len(rows) /\ rows[i].status = "claimed"
    BY <2>1 DEF Held, Abandoned, TypeOK
  <2>3. Becomes(i, "failed", rows[i].run)
    BY <2>1, <2>2, RowUpdated, RowFields
  <2>4. /\ rows' \in Seq(Row) /\ Len(rows') = Len(rows)
        /\ OccurrenceOnce' /\ NeighboursTakeTurns' /\ Stands
    BY <2>2, <2>3, RowDecided, RowFields DEF Settled
  <2>5. TypeOK' /\ InFlight' /\ ActiveIsScheduled'
    BY <1>2, <2>1, <2>2, <2>4
       DEF RecoverAbandoned, TypeOK, InFlight, Quiet, ActiveIsScheduled
  <2> QED
    BY <2>4, <2>5
<1>3. CASE MoveOn
  BY <1>3, AdvanceTyped, Elsewhere DEF MoveOn, TypeOK, ActiveIsScheduled
<1>4. CASE Skip
  <2>1. fire.row \in 1..Len(rows) /\ rows[fire.row].status = "claimed"
    BY <1>4 DEF Skip, InFlight, Quiet
  <2>2. Becomes(fire.row, "skipped", rows[fire.row].run)
    BY <1>4, <2>1, RowUpdated, RowFields DEF Skip
  <2>3. /\ rows' \in Seq(Row) /\ Len(rows') = Len(rows)
        /\ OccurrenceOnce' /\ NeighboursTakeTurns' /\ Stands
    BY <2>1, <2>2, RowDecided, RowFields DEF Settled
  <2>4. TypeOK' /\ InFlight' /\ ActiveIsScheduled'
    BY <1>4, <2>1, <2>3 DEF Skip, TypeOK, InFlight, Quiet, ActiveIsScheduled
  <2> QED
    BY <2>3, <2>4
<1>5. CASE Queue
  <2>1. /\ fire.row \in 1..Len(rows) /\ rows[fire.row].status = "claimed"
        /\ fire.row = Len(rows) /\ (fire.row > 1 => rows[fire.row - 1].run # "active")
    BY <1>5 DEF Queue, InFlight, Quiet, Overlaps
  <2>2. Becomes(fire.row, "queued", "active")
    BY <1>5, <2>1, RowUpdated DEF Queue
  <2>3. /\ rows' \in Seq(Row) /\ Len(rows') = Len(rows)
        /\ OccurrenceOnce' /\ NeighboursTakeTurns' /\ Stands
    BY <2>1, <2>2, RowDecided DEF Settled
  <2>4. next' \in 0..Beyond /\ (next # Never => next' # Never)
    BY <1>5, AdvanceTyped DEF Queue
  <2>5. TypeOK' /\ InFlight' /\ ActiveIsScheduled'
    BY <1>5, <2>3, <2>4 DEF Queue, TypeOK, InFlight, Quiet, Idle, ActiveIsScheduled
  <2> QED
    BY <2>3, <2>5
<1>6. CASE BootstrapFails
  <2>1. fire.row \in 1..Len(rows) /\ rows[fire.row].status = "claimed"
    BY <1>6 DEF BootstrapFails, InFlight, Quiet
  <2>2. Becomes(fire.row, "failed", rows[fire.row].run)
    BY <1>6, <2>1, RowUpdated, RowFields DEF BootstrapFails
  <2>3. /\ rows' \in Seq(Row) /\ Len(rows') = Len(rows)
        /\ OccurrenceOnce' /\ NeighboursTakeTurns' /\ Stands
    BY <2>1, <2>2, RowDecided, RowFields DEF Settled
  <2>4. TypeOK' /\ InFlight' /\ ActiveIsScheduled'
    BY <1>6, <2>1, <2>3 DEF BootstrapFails, TypeOK, InFlight, Quiet, ActiveIsScheduled
  <2> QED
    BY <2>3, <2>4
<1>7. CASE Conclude
  BY <1>7, AdvanceTyped, Elsewhere DEF Conclude, TypeOK, ActiveIsScheduled
<1> QED
  BY <1>1, <1>2, <1>3, <1>4, <1>5, <1>6, <1>7 DEF Fire

LEMMA CommandsKeep == ASSUME TasksAssumption, IInv, Command PROVE IInv' /\ Stands
<1> USE DEF IInv
<1>1. CASE RunTaskNow
  <2>1. /\ now \in 0..MaxTime
        /\ budget' \in [crash : 0..MaxCrashes, manual : 0..MaxManual, edit : 0..MaxEdits]
    <3>1. /\ now \in 0..MaxTime
          /\ budget \in [crash : 0..MaxCrashes, manual : 0..MaxManual, edit : 0..MaxEdits]
      BY DEF TypeOK
    <3>2. budget' = [budget EXCEPT !.manual = @ - 1] /\ budget.manual > 0
      BY <1>1 DEF RunTaskNow
    <3>3. budget.manual - 1 \in 0..MaxManual
      BY <3>1, <3>2 DEF TasksAssumption
    <3> QED
      BY <3>1, <3>2, <3>3
  <2> QED
    BY <1>1, <2>1, Rejected, RowClaimed DEF RunTaskNow
<1>2. ASSUME Edit
      PROVE  budget' \in [crash : 0..MaxCrashes, manual : 0..MaxManual, edit : 0..MaxEdits]
  BY <1>2 DEF Edit, TypeOK, TasksAssumption
<1>3. Never \in 0..Beyond
  BY DEF Never, Beyond, TasksAssumption
<1>4. CASE Pause
  BY <1>2, <1>3, <1>4, Elsewhere DEF Pause, TypeOK
<1>5. CASE Resume
  BY <1>2, <1>5, FirstAfterTyped, Elsewhere DEF Resume, TypeOK
<1>6. CASE Delete
  BY <1>2, <1>3, <1>6, Elsewhere DEF Delete, TypeOK
<1>7. CASE Update
  <2>1. next' \in 0..Beyond /\ (status' = "active" => next' # Never)
    BY <1>3, <1>7, FirstAfterTyped DEF Update, NextUpdated, TypeOK, ActiveIsScheduled
  <2> QED
    BY <1>2, <1>7, <2>1, Elsewhere DEF Update, TypeOK
<1> QED
  BY <1>1, <1>4, <1>5, <1>6, <1>7 DEF Command

LEMMA Stepwise == TasksAssumption /\ IInv /\ [Next]_vars => IInv' /\ Stands
<1> SUFFICES ASSUME TasksAssumption, IInv, [Next]_vars PROVE IInv' /\ Stands
  OBVIOUS
<1> USE DEF IInv
<1>1. CASE RejectScheduled
  BY <1>1, Rejected DEF RejectScheduled, TypeOK
<1>2. CASE RunEnds
  <2>1. PICK i \in DOMAIN rows :
            rows[i].run = "active" /\ rows' = [rows EXCEPT ![i].run = "ended"]
    BY <1>2 DEF RunEnds
  <2>2. i \in 1..Len(rows)
    BY DEF TypeOK
  <2>3. Becomes(i, rows[i].status, "ended")
    BY <2>1, <2>2, RowUpdated, RowFields
  <2>4. /\ rows' \in Seq(Row) /\ Len(rows') = Len(rows)
        /\ OccurrenceOnce' /\ NeighboursTakeTurns' /\ Stands
    BY <2>2, <2>3, RowDecided, RowFields
  <2>5. TypeOK' /\ InFlight' /\ ActiveIsScheduled'
    BY <1>2, <2>4 DEF RunEnds, TypeOK, InFlight, Quiet, ActiveIsScheduled
  <2> QED
    BY <2>4, <2>5
<1>3. CASE Tick
  BY <1>3, Elsewhere DEF Tick, TypeOK, ActiveIsScheduled, TasksAssumption
<1>4. CASE Crash
  <2>1. budget' \in [crash : 0..MaxCrashes, manual : 0..MaxManual, edit : 0..MaxEdits]
    <3>1. /\ budget \in [crash : 0..MaxCrashes, manual : 0..MaxManual, edit : 0..MaxEdits]
          /\ budget.crash > 0 /\ budget' = [budget EXCEPT !.crash = @ - 1]
      BY <1>4 DEF Crash, TypeOK
    <3> QED
      BY <3>1 DEF TasksAssumption
  <2> QED
    BY <1>4, <2>1, Elsewhere DEF Crash, TypeOK, ActiveIsScheduled
<1>5. CASE UNCHANGED vars
  BY <1>5, Elsewhere DEF vars, TypeOK, ActiveIsScheduled
<1> QED
  BY <1>1, <1>2, <1>3, <1>4, <1>5, FiringKeeps, CommandsKeep DEF Next

LEMMA Invariance == Spec => []IInv
  BY TasksAssumption, Initially, Stepwise, PTL DEF Spec

----------------------------------------------------------------------------
(* What the scheduler promises *)

\* The task, its occurrences and the firing in progress keep their types
\* (application/agent-tasks).
THEOREM TasksTypeCorrect == Spec => []TypeOK
  BY Invariance, PTL DEF IInv

\* Whatever sequence of edits, pauses, rejections, firings and crashes led there,
\* an active task has a next instant (agent-task-service.ts, fire-agent-task.ts).
THEOREM ActiveTasksRun == Spec => []ActiveIsScheduled
  BY Invariance, PTL DEF IInv

\* An instant is claimed once, however often it is scanned again after a crash
\* (the idempotency key of agent-scheduled-task-run-repository.ts).
THEOREM OneRowPerOccurrence == Spec => []OccurrenceOnce
  BY Invariance, PTL DEF IInv

\* The overlap policy keeps the runs of neighbouring occurrences apart
\* (fire-agent-task.ts).
THEOREM PolicyHolds == Spec => []NeighboursTakeTurns
  BY Invariance, PTL DEF IInv

\* A recovery touches no occurrence that has been decided (fire-agent-task.ts).
THEOREM OutcomesAreFinal == Spec => OutcomesStand
<1>1. IInv /\ [Next]_vars =>
        [\A i \in DOMAIN rows : Settled(i) => rows'[i].status = rows[i].status]_vars
  BY TasksAssumption, Stepwise DEF Stands
<1> QED
  BY <1>1, Invariance, PTL DEF Spec, OutcomesStand
=============================================================================
