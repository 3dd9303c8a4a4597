----------------------------- MODULE AgentTasks -----------------------------
(***************************************************************************)
(* A scheduled task of an agent and its occurrences                        *)
(* (apps/server/src/application/agent-tasks).                              *)
(*                                                                         *)
(* Firing a task is synchronous: nothing of the process runs between its   *)
(* steps.  But each step commits by itself, so a crash may fall between    *)
(* any two of them, and the clock moves meanwhile.                         *)
(***************************************************************************)
EXTENDS Integers, Sequences

CONSTANTS
    Cron,          \* the schedules a task may have, each a set of instants
    MaxTime,       \* bound: the clock
    StaleClaim,    \* STALE_CLAIM_RECOVERY_MS
    MaxCrashes,    \* bound: crashes
    MaxManual,     \* bound: runs started by hand
    MaxEdits       \* bound: commands that change the task

ASSUME TasksAssumption ==
    /\ MaxTime \in Nat /\ StaleClaim \in Nat \ {0}
    /\ Cron # {} /\ \A c \in Cron : c \subseteq 1..MaxTime
    /\ MaxCrashes \in Nat /\ MaxManual \in Nat /\ MaxEdits \in Nat

VARIABLES
    now,     \* the clock
    cron,    \* cronExpression and timezone
    status,  \* agent_scheduled_tasks.status
    next,    \* nextRunAt
    rows,    \* agent_scheduled_task_runs in the order they are created
    fire,    \* the firing in progress: where it is, and its row
    budget   \* what is left of each bound

vars == <<now, cron, status, next, rows, fire, budget>>

Never == 0
Beyond == MaxTime + 1   \* an instant the bounded clock does not reach

Row == [trigger : {"scheduled", "manual"}, for : 0..MaxTime, claimed : 0..MaxTime,
        status : {"claimed", "queued", "failed", "skipped"},
        run : {"none", "active", "ended"}]

TypeOK ==
    /\ now \in 0..MaxTime
    /\ cron \in Cron
    /\ status \in {"active", "paused", "archived", "deleted"}
    /\ next \in 0..Beyond
    /\ rows \in Seq(Row)
    /\ fire \in [pc : {"idle", "claimed", "advance", "judge"}, row : 0..Len(rows)]
    /\ budget \in [crash : 0..MaxCrashes, manual : 0..MaxManual, edit : 0..MaxEdits]

Idle == [pc |-> "idle", row |-> 0]

\* computeNextRunAt: the first instant of a schedule after t, as the set of it.
FirstAfter(c, t) == {x \in c \cup {Beyond} : x > t /\ \A y \in c : y > t => x <= y}

Init ==
    /\ now = 0
    /\ cron \in Cron
    /\ \/ status = "active" /\ next \in FirstAfter(cron, 0)
       \/ status = "paused" /\ next = Never
    /\ rows = <<>>
    /\ fire = Idle
    /\ budget = [crash |-> MaxCrashes, manual |-> MaxManual, edit |-> MaxEdits]

----------------------------------------------------------------------------
(* Firing *)

Quiet == fire.pc = "idle"

\* A plausible bug: the scan does not look at the clock.
DueEarly == status = "active" /\ next # Never
Due == status = "active" /\ next # Never /\ next <= now

Advance(trigger) ==
    next' \in IF trigger = "scheduled" THEN FirstAfter(cron, now) ELSE {next}

\* The row an occurrence is recorded in: the idempotency key of a scheduled one
\* is its instant, that of a manual one is new.  A plausible bug: a failed
\* attempt does not hold its key.
HeldUnlessFailed(t) ==
    {i \in DOMAIN rows : /\ rows[i].trigger = "scheduled" /\ rows[i].for = t
                         /\ rows[i].status # "failed"}
Held(t) == {i \in DOMAIN rows : rows[i].trigger = "scheduled" /\ rows[i].for = t}

\* A plausible bug: every old attempt is taken for an abandoned one.
AbandonedByAge(i) == now - rows[i].claimed >= StaleClaim
Abandoned(i) == rows[i].status = "claimed" /\ now - rows[i].claimed >= StaleClaim

\* A plausible bug: only started occurrences let the schedule move on.
SettledIfQueued(i) == rows[i].status = "queued"
Settled(i) == rows[i].status \in {"queued", "failed", "skipped"}

\* The owner is no member any more, or the agent cannot be resolved: the task is
\* paused.  A check that fails for another reason moves the schedule on.
Reject(trigger) ==
    /\ \/ status' = "paused" /\ UNCHANGED next
       \/ Advance(trigger) /\ UNCHANGED status
    /\ UNCHANGED <<now, cron, rows, fire>>

Claim(trigger, t) ==
    /\ rows' = Append(rows, [trigger |-> trigger, for |-> t, claimed |-> now,
                             status |-> "claimed", run |-> "none"])
    /\ fire' = [pc |-> "claimed", row |-> Len(rows) + 1]
    /\ UNCHANGED <<now, cron, status, next>>

FireScheduled ==
    /\ Quiet /\ Due
    /\ Held(next) = {} /\ Claim("scheduled", next)
    /\ UNCHANGED budget

RejectScheduled ==
    /\ Quiet /\ Due
    /\ Reject("scheduled")
    /\ UNCHANGED budget

RunTaskNow ==
    /\ Quiet /\ status \in {"active", "paused"}
    /\ budget.manual > 0
    /\ budget' = [budget EXCEPT !.manual = @ - 1]
    /\ Reject("manual") \/ Claim("manual", now)

\* An earlier attempt holds the occurrence and was abandoned, or went as far as
\* deciding it.  A fresh one is left alone.
RecoverAbandoned ==
    /\ Quiet /\ Due
    /\ \E i \in Held(next) :
          /\ Abandoned(i)
          /\ rows' = [rows EXCEPT ![i].status = "failed"]
          /\ fire' = [pc |-> "advance", row |-> i]
    /\ UNCHANGED <<now, cron, status, next, budget>>

MoveOn ==
    /\ Quiet /\ Due
    /\ \E i \in Held(next) : ~Abandoned(i) /\ Settled(i)
    /\ Advance("scheduled")
    /\ UNCHANGED <<now, cron, status, rows, fire, budget>>

\* The occurrence before this one is in progress.  A plausible bug: the latest
\* row is looked up without leaving out this one.
OverlapsItself(i) == rows[i].run = "active"
Overlaps(i) == i > 1 /\ (rows[i - 1].status = "claimed" \/ rows[i - 1].run = "active")

Skip ==
    /\ fire.pc = "claimed" /\ Overlaps(fire.row)
    /\ rows' = [rows EXCEPT ![fire.row].status = "skipped"]
    /\ fire' = [fire EXCEPT !.pc = "advance"]
    /\ UNCHANGED <<now, cron, status, next, budget>>

\* One transaction: session, thread, message, run and job, the row, the pointer.
Queue ==
    /\ fire.pc = "claimed" /\ ~Overlaps(fire.row)
    /\ rows' = [rows EXCEPT ![fire.row].status = "queued", ![fire.row].run = "active"]
    /\ Advance(rows[fire.row].trigger)
    /\ fire' = Idle
    /\ UNCHANGED <<now, cron, status, budget>>

\* The transaction is rolled back and the attempt marked failed.
BootstrapFails ==
    /\ fire.pc = "claimed" /\ ~Overlaps(fire.row)
    /\ rows' = [rows EXCEPT ![fire.row].status = "failed"]
    /\ fire' = [fire EXCEPT !.pc = "judge"]
    /\ UNCHANGED <<now, cron, status, next, budget>>

\* The last step: the schedule moves on, or a permanent error pauses the task.
Conclude ==
    /\ fire.pc \in {"advance", "judge"}
    /\ \/ Advance(rows[fire.row].trigger) /\ UNCHANGED status
       \/ fire.pc = "judge" /\ status' = "paused" /\ UNCHANGED next
    /\ fire' = Idle
    /\ UNCHANGED <<now, cron, rows, budget>>

----------------------------------------------------------------------------
(* The owner's commands, runs, time and crashes *)

Edit == Quiet /\ budget.edit > 0 /\ budget' = [budget EXCEPT !.edit = @ - 1]

Pause ==
    /\ Edit /\ status = "active"
    /\ status' = "paused" /\ next' = Never
    /\ UNCHANGED <<now, cron, rows, fire>>

Resume ==
    /\ Edit /\ status \in {"paused", "archived"}
    /\ status' = "active" /\ next' \in FirstAfter(cron, now)
    /\ UNCHANGED <<now, cron, rows, fire>>

Delete ==
    /\ Edit /\ status # "deleted"
    /\ status' = "deleted" /\ next' = Never
    /\ UNCHANGED <<now, cron, rows, fire>>

\* A plausible bug: the schedule is only looked at when it has changed.
NextIfChanged ==
    IF status' # "active" THEN {Never}
    ELSE IF cron' # cron THEN FirstAfter(cron', now) ELSE {next}
NextUpdated ==
    IF status' # "active" THEN {Never}
    ELSE IF cron' # cron \/ status # "active" THEN FirstAfter(cron', now) ELSE {next}

Update ==
    /\ Edit /\ status # "deleted"
    /\ cron' \in Cron
    /\ status' \in {status, "active", "paused", "archived"}
    /\ next' \in NextUpdated
    /\ UNCHANGED <<now, rows, fire>>

RunEnds ==
    /\ Quiet
    /\ \E i \in DOMAIN rows :
          rows[i].run = "active" /\ rows' = [rows EXCEPT ![i].run = "ended"]
    /\ UNCHANGED <<now, cron, status, next, fire, budget>>

Tick ==
    /\ now < MaxTime /\ now' = now + 1
    /\ UNCHANGED <<cron, status, next, rows, fire, budget>>

\* The bounded clock leaves room for the recovery of what the crash leaves behind.
Crash ==
    /\ ~Quiet /\ now + StaleClaim <= MaxTime
    /\ budget.crash > 0 /\ budget' = [budget EXCEPT !.crash = @ - 1]
    /\ fire' = Idle
    /\ UNCHANGED <<now, cron, status, next, rows>>

----------------------------------------------------------------------------
Fire == FireScheduled \/ RecoverAbandoned \/ MoveOn \/ Skip \/ Queue \/ BootstrapFails
            \/ Conclude
Command == RunTaskNow \/ Pause \/ Resume \/ Delete \/ Update

Next == Fire \/ RejectScheduled \/ Command \/ RunEnds \/ Tick \/ Crash

Spec == Init /\ [][Next]_vars

\* The worker polls and time passes.  Nothing is assumed of the runs, which may
\* wait for ever, and nothing of rejections.
FairSpec == Spec /\ WF_vars(Fire) /\ WF_vars(Tick)

----------------------------------------------------------------------------
(* What the scheduler promises *)

\* An instant is attempted once, whatever crashes: a row per occurrence.
OccurrenceOnce ==
    \A i, j \in DOMAIN rows :
        /\ rows[i].trigger = "scheduled" /\ rows[j].trigger = "scheduled"
        /\ rows[i].for = rows[j].for
        => i = j

\* A task that is active has a next instant: whatever sequence of edits, pauses,
\* rejections and crashes led there, the owner is not shown a task that never runs.
ActiveIsScheduled == status = "active" => next # Never

\* "Skip when the previous occurrence is still bootstrapping or its linked root
\* run is in a non-terminal runtime state": two neighbouring occurrences never
\* run at the same time.
NeighboursTakeTurns ==
    \A i \in DOMAIN rows : i > 1 /\ rows[i].run = "active" => rows[i - 1].run # "active"

\* What that policy is for: one run of the task at a time.
NoOverlap ==
    \A i, j \in DOMAIN rows : rows[i].run = "active" /\ rows[j].run = "active" => i = j

\* The outcome of an occurrence stands: no recovery turns a skipped or started
\* one into a failure.
OutcomesStand ==
    [][\A i \in DOMAIN rows : Settled(i) => rows'[i].status = rows[i].status]_vars

\* No crash makes an active task sit on an occurrence for ever: the instant is
\* started, skipped, or given up when the claim is stale.
ScheduleMovesOn ==
    \A t \in 1..MaxTime : (Due /\ next = t) ~> ~(Due /\ next = t)
=============================================================================
