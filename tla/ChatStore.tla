------------------------------ MODULE ChatStore ------------------------------
(* One conversation in the client (apps/client/src/lib/chat and              *)
(* stores/chat-store.svelte.ts): the run it shows is moved by the events of  *)
(* the thread's stream, by polls of the run, by the answers of submissions   *)
(* and cancellations, and by reopening the conversation.  Each of them is    *)
(* awaited and applied to whatever the client shows by then, guarded by the  *)
(* leases taken when it began.  The backend is reduced to the status of each *)
(* run and the log of its events.                                            *)
EXTENDS Integers, Sequences, FiniteSets

CONSTANTS
    MaxRuns,      \* bound: submissions; run r is the one submission r starts
    MaxEvents,    \* bound: events before runs may only end
    MaxPolls,     \* bound: polls in flight when the timer fires
    MaxIncidents  \* bound: later submissions, reopenings, cancellations, failed
                  \* requests and broken streams, taken together

ASSUME ChatAssumption ==
    /\ {MaxRuns, MaxEvents, MaxPolls} \subseteq Nat \ {0}
    /\ MaxIncidents \in Nat

VARIABLES
    status,   \* [Runs -> backend status]
    log,      \* events of the thread: [run, type]
    post,     \* [Runs -> state of the request that starts the run]
    ui,       \* state of the store: see TypeOK
    submit,   \* the newest submission: [pc, run, lease, broken]
    mending,  \* failed submissions, with their views, that read the messages and then reset the run
    cancel,   \* the cancellation in progress: [pc, lease, snap]
    load,     \* the reopening in progress: [pc, run, lease, at]
    left      \* incidents that may still happen

vars == <<status, log, post, ui, submit, mending, cancel, load, left>>

Runs     == 1 .. MaxRuns
None     == 0
NoLease  == [view |-> 0, epoch |-> 0, run |-> None]
Unread   == [status |-> "none", at |-> 0]
Ends     == {"completed", "failed", "cancelled"}
Active   == {"pending", "running", "cancelling", "waiting"}
Statuses == {"none"} \cup Active \cup Ends

TypeOK ==
    LET Lease == [view : 0 .. MaxIncidents + 1, epoch : Nat, run : Runs \cup {None}]
        Snap  == [status : Statuses, at : 0 .. Len(log)]
    IN  /\ status \in [Runs -> Statuses]
        /\ log \in Seq([run : Runs,
                        type : {"created", "started", "cancelling", "waiting"} \cup Ends])
        /\ post \in [Runs -> {"none", "sent", "accepted", "refused", "done"}]
        /\ ui \in [view : 1 .. MaxIncidents + 1, epoch : Nat, run : Runs \cup {None},
                   last : Runs \cup {None}, status : Statuses, streaming : BOOLEAN,
                   waiting : BOOLEAN, asked : BOOLEAN, loading : BOOLEAN, error : BOOLEAN,
                   cursor : 0 .. Len(log), stream : BOOLEAN, timer : Lease,
                   polls : SUBSET [lease : Lease, snap : Snap, kind : {"timer", "failed", "rescue"}],
                   guard : [run : Runs \cup {None}, floor : 0 .. Len(log)],
                   drawn : SUBSET Runs, durable : SUBSET Runs, shut : SUBSET Runs]
        /\ submit \in [pc : {"idle", "posted", "following", "rescuing", "closing"},
                       run : Runs \cup {None}, lease : Lease, broken : BOOLEAN]
        /\ mending \subseteq [run : Runs \cup {None}, view : 0 .. MaxIncidents + 1]
        /\ cancel \in [pc : {"idle", "asked", "answered", "read"}, lease : Lease, snap : Snap]
        /\ load \in [pc : {"idle", "listing", "replaying"},
                     run : Runs \cup {None}, lease : Lease, at : 0 .. Len(log)]
        /\ left \in 0 .. MaxIncidents

Quiet == [pc |-> "idle", run |-> None, lease |-> NoLease, broken |-> FALSE]
Closing == [Quiet EXCEPT !.pc = "closing", !.run = submit.run]
NoCancel == [pc |-> "idle", lease |-> NoLease, snap |-> Unread]
NoLoad == [pc |-> "idle", run |-> None, lease |-> NoLease, at |-> 0]
NoGuard == [run |-> None, floor |-> 0]

Init ==
    /\ status = [r \in Runs |-> "none"]
    /\ log = <<>>
    /\ post = [r \in Runs |-> "none"]
    /\ ui = [view |-> 1, epoch |-> 0, run |-> None, last |-> None, status |-> "none",
             streaming |-> FALSE, waiting |-> FALSE, asked |-> FALSE, loading |-> FALSE,
             error |-> FALSE, cursor |-> 0, stream |-> FALSE, timer |-> NoLease, polls |-> {},
             guard |-> NoGuard, drawn |-> {}, durable |-> {}, shut |-> {}]
    /\ submit = Quiet /\ mending = {} /\ cancel = NoCancel /\ load = NoLoad
    /\ left = MaxIncidents

-----------------------------------------------------------------------------
(* The backend.                                                              *)

(* Runs whose answer is a message.  One that fails or is cancelled before it  *)
(* has said anything leaves none.                                            *)
Saved == {r \in Runs : status[r] = "completed"}

(* What GET /runs/:id answers: the status and, of a waiting run, the event    *)
(* of its last update.                                                       *)
Snapshot(r) ==
    [status |-> status[r],
     at |-> IF status[r] # "waiting" THEN 0
            ELSE CHOOSE i \in 1 .. Len(log) :
                    /\ log[i] = [run |-> r, type |-> "waiting"]
                    /\ \A j \in i + 1 .. Len(log) : log[j].run # r]

Emit(r, type) == log' = Append(log, [run |-> r, type |-> type])
Move(r, s, type) == status' = [status EXCEPT ![r] = s] /\ Emit(r, type)

RunEnds(r) ==
    \/ status[r] = "running" /\ Move(r, "completed", "completed")
    \/ status[r] = "running" /\ Move(r, "failed", "failed")
    \/ status[r] = "cancelling" /\ Move(r, "cancelled", "cancelled")

RunGoesOn(r) ==
    \/ status[r] \in {"pending", "waiting"} /\ Move(r, "running", "started")
    \/ Len(log) < MaxEvents /\ status[r] = "running" /\ Move(r, "waiting", "waiting")

Backend ==
    /\ \E r \in Runs : RunEnds(r) \/ RunGoesOn(r)
    /\ UNCHANGED <<post, ui, submit, mending, cancel, load, left>>

-----------------------------------------------------------------------------
(* The store.  c is its state.                                               *)

Lease(c, r) == [view |-> c.view, epoch |-> c.epoch, run |-> r]

LeaseCurrent(c, l) ==
    /\ l.view = c.view /\ l.epoch = c.epoch
    /\ l.run = c.run \/ (c.run = None /\ c.last = l.run)

(* Epochs only tell leases apart: the next one is one that no lease has. *)
NextEpoch(c) ==
    CHOOSE e \in (1 .. Cardinality(c.polls) + 6) \
                 ({c.epoch, c.timer.epoch, submit.lease.epoch, cancel.lease.epoch, load.lease.epoch}
                    \cup {p.lease.epoch : p \in c.polls}) : TRUE

\* A plausible bug: letting go of the run keeps the leases of its requests alive.
SetWithoutEpoch(c, r) ==
    IF c.run = r THEN c
    ELSE [c EXCEPT !.run = r, !.last = IF r = None THEN @ ELSE None,
                   !.epoch = IF r = None THEN @ ELSE NextEpoch(c)]

SetActiveRun(c, r) ==
    IF c.run = r THEN c
    ELSE [c EXCEPT !.run = r, !.epoch = NextEpoch(c), !.last = IF r = None THEN @ ELSE None]

\* A plausible bug: a timer that is set already is left alone, whatever its lease.
ScheduleOnce(c) == IF c.timer = NoLease THEN [c EXCEPT !.timer = Lease(c, c.run)] ELSE c

ScheduleReconciliation(c) == [c EXCEPT !.timer = Lease(c, c.run)]

ClearGuard(c, r) == IF c.guard.run = r THEN [c EXCEPT !.guard = NoGuard] ELSE c

ResetRunState(c) ==
    LET d == SetActiveRun(c, None)
    IN  [d EXCEPT !.timer = NoLease, !.streaming = FALSE, !.waiting = FALSE, !.last = None,
                  !.guard = NoGuard, !.status = "none", !.asked = FALSE]

(* The run is shown as ended or as waiting; an end is also let go of. *)
FinalizeRun(c, s, r) ==
    LET d == [c EXCEPT !.status = s, !.streaming = FALSE, !.waiting = (s = "waiting"),
                       !.asked = @ /\ s = "waiting"]
    IN  IF c.run \notin {None, r} THEN c
        ELSE IF s \in Ends
             THEN SetActiveRun([ClearGuard(d, r) EXCEPT !.timer = NoLease, !.last = r,
                                                        !.shut = @ \cup {r}], None)
             ELSE IF c.run = r THEN ScheduleReconciliation(d) ELSE d

(* A snapshot of the run is applied under a current lease; with an end the    *)
(* messages are read again.                                                  *)
SyncRunState(c, l, snap) ==
    LET s == snap.status
        b == [SetActiveRun(c, l.run)
                EXCEPT !.error = FALSE, !.status = s, !.waiting = (s = "waiting"),
                       !.asked = (s = "waiting"), !.streaming = s \in {"pending", "running"}]
        g == IF s = "waiting" /\ l.run \notin c.drawn
             THEN [b EXCEPT !.guard = [run |-> l.run, floor |-> snap.at]] ELSE b
    IN  IF s \in Ends
        THEN [FinalizeRun(ClearGuard(g, l.run), s, l.run) EXCEPT !.durable = Saved]
        ELSE [g EXCEPT !.timer = l, !.drawn = IF s = "waiting" THEN @ \cup {l.run} ELSE @]

(* A poll reads the run when it is asked; its answer may come much later. *)
Poll(c, l, kind) ==
    [c EXCEPT !.polls = @ \cup {[lease |-> l, snap |-> Snapshot(l.run), kind |-> kind]}]

(* An event behind the snapshot of a run adds nothing. *)
ReplayGuarded(c, i) == c.guard.run = log[i].run /\ i < c.guard.floor

(* Without a run the first event of one that goes on names it, while streaming. *)
CanBootstrap(c, e) ==
    c.run = None /\ c.streaming /\ e.type \notin Ends \cup {"waiting"}

ApplyEvent(c, e) ==
    LET go  == ScheduleReconciliation([c EXCEPT !.status = "running", !.streaming = TRUE, !.waiting = FALSE])
        end == [FinalizeRun(c, e.type, e.run) EXCEPT !.stream = FALSE]
    IN  CASE e.type = "started" -> [go EXCEPT !.asked = FALSE]
          [] e.type = "waiting" ->
               FinalizeRun([c EXCEPT !.asked = TRUE, !.drawn = @ \cup {e.run}], "waiting", e.run)
          [] e.type \in {"completed", "cancelled"} -> end
          [] e.type = "failed" -> Poll([end EXCEPT !.error = TRUE], Lease(end, e.run), "failed")
          [] OTHER -> c

IngestEvent(c, i) ==
    LET e == log[i]
    IN  CASE ReplayGuarded(c, i) -> c
          [] ~ReplayGuarded(c, i) /\ e.type = "created" ->
               IF c.run \notin {None, e.run} THEN c
               ELSE ScheduleReconciliation([SetActiveRun(c, e.run) EXCEPT !.status = "pending"])
          [] OTHER ->
               IF c.run = e.run \/ (CanBootstrap(c, e) /\ e.run \notin c.durable)
               THEN ApplyEvent(SetActiveRun(c, e.run), e) ELSE c

-----------------------------------------------------------------------------
(* The stream, the timer and the polls.                                      *)

Deliver ==
    /\ ui.stream /\ ui.cursor < Len(log)
    /\ ui' = IngestEvent([ui EXCEPT !.cursor = @ + 1], ui.cursor + 1)
    /\ UNCHANGED <<status, log, post, submit, mending, cancel, load, left>>

Incident == left > 0 /\ left' = left - 1

(* The consumer gives up: who awaits the stream hears of it. *)
StreamBreaks ==
    /\ ui.stream /\ Incident
    /\ IF submit.pc \in {"posted", "following"}
       THEN submit' = [submit EXCEPT !.broken = TRUE] /\ ui' = [ui EXCEPT !.stream = FALSE]
       ELSE ui' = [ui EXCEPT !.stream = FALSE, !.error = TRUE] /\ UNCHANGED submit
    /\ UNCHANGED <<status, log, post, mending, cancel, load>>

\* A plausible bug: only a run that is streaming is polled again.
ReconcilableStreaming(c, l) == LeaseCurrent(c, l) /\ c.streaming

Reconcilable(c, l) == LeaseCurrent(c, l) /\ c.status \notin Ends

TimerFires ==
    /\ ui.timer # NoLease /\ Cardinality(ui.polls) < MaxPolls
    /\ LET c == [ui EXCEPT !.timer = NoLease]
       IN  ui' = IF Reconcilable(ui, ui.timer) THEN Poll(c, ui.timer, "timer") ELSE c
    /\ UNCHANGED <<status, log, post, submit, mending, cancel, load, left>>

(* Who awaits the poll: the submission that made it, if it still does. *)
Rescues(p) == p.kind = "rescue" /\ submit.pc = "rescuing" /\ submit.run = p.lease.run

PollAnswered ==
    /\ \E p \in ui.polls :
         /\ LET c == [ui EXCEPT !.polls = @ \ {p}]
            IN  ui' = IF LeaseCurrent(ui, p.lease) THEN SyncRunState(c, p.lease, p.snap) ELSE c
         /\ submit' = IF Rescues(p) THEN Closing ELSE submit
    /\ UNCHANGED <<status, log, post, mending, cancel, load, left>>

(* The submission threw: the error is shown, the stream stopped and the       *)
(* submission over; the rest of the recovery, which is not awaited, is still  *)
(* to come, and by then the user may have submitted again.                    *)
Throw(c) ==
    /\ ui' = [c EXCEPT !.error = TRUE, !.stream = FALSE, !.streaming = @ /\ c.waiting]
    /\ submit' = Quiet
    /\ mending' = mending \cup {[run |-> submit.run, view |-> ui.view]}

PollFails ==
    /\ Incident
    /\ \E p \in ui.polls :
         LET c == [ui EXCEPT !.polls = @ \ {p}]
         IN  CASE p.kind = "timer" ->
                    /\ ui' = IF Reconcilable(ui, p.lease) THEN [c EXCEPT !.timer = p.lease] ELSE c
                    /\ UNCHANGED <<submit, mending>>
               [] p.kind = "failed" -> ui' = [c EXCEPT !.error = TRUE] /\ UNCHANGED <<submit, mending>>
               [] p.kind = "rescue" -> IF Rescues(p) THEN Throw(c)
                                       ELSE ui' = c /\ UNCHANGED <<submit, mending>>
    /\ UNCHANGED <<status, log, post, cancel, load>>

-----------------------------------------------------------------------------
(* Submissions.  The newest one is remembered; an older one that is still    *)
(* awaited does nothing when it is answered.                                 *)

Used == {r \in Runs : post[r] # "none"}

MaySubmit == ~ui.loading /\ ~ui.streaming /\ ~ui.waiting

Submit ==
    /\ MaySubmit /\ Used # Runs
    /\ IF Used = {} THEN UNCHANGED left ELSE Incident
    /\ LET r == Cardinality(Used) + 1
           c == IF ui.status \in Ends THEN ResetRunState(ui) ELSE ui
       IN  /\ ui' = [c EXCEPT !.streaming = TRUE, !.waiting = FALSE, !.error = FALSE, !.stream = TRUE]
           /\ submit' = [pc |-> "posted", run |-> r, lease |-> NoLease, broken |-> FALSE]
           /\ post' = [post EXCEPT ![r] = "sent"]
    /\ UNCHANGED <<status, log, mending, cancel, load>>

(* The backend starts the run, unless one of the thread is going on. *)
StartThreadInteraction(r) ==
    /\ post[r] = "sent"
    /\ IF \E s \in Runs : status[s] \in Active
       THEN post' = [post EXCEPT ![r] = "refused"] /\ UNCHANGED <<status, log>>
       ELSE post' = [post EXCEPT ![r] = "accepted"] /\ Move(r, "pending", "created")
    /\ UNCHANGED <<ui, submit, mending, cancel, load, left>>

(* The request, or its answer, is lost on the way. *)
PostFails(r) ==
    /\ post[r] \in {"sent", "accepted"} /\ Incident
    /\ post' = [post EXCEPT ![r] = "refused"]
    /\ UNCHANGED <<status, log, ui, submit, mending, cancel, load>>

(* The accepted run is shown, unless the store has seen a run end meanwhile. *)
ApplyStart(c, r) ==
    CASE c.status \in Ends /\ c.run = None -> c
      [] c.run = r /\ c.status \notin {"none", "pending"} -> c
      [] OTHER -> ScheduleReconciliation(
                    [SetActiveRun(c, r) EXCEPT !.status = "pending", !.streaming = TRUE, !.waiting = FALSE])

PostAnswered(r) ==
    /\ post[r] \in {"accepted", "refused"}
    /\ post' = [post EXCEPT ![r] = "done"]
    /\ IF submit.pc # "posted" \/ submit.run # r
       THEN UNCHANGED <<ui, submit, mending>>
       ELSE IF post[r] = "refused" THEN Throw(ui)
            ELSE LET c == ApplyStart(ui, r)
                 IN  /\ ui' = c
                     /\ submit' = [submit EXCEPT !.pc = "following", !.lease = Lease(c, r)]
                     /\ UNCHANGED mending
    /\ UNCHANGED <<status, log, cancel, load, left>>

(* The submission follows its stream to the end; when it broke, the run is polled once. *)
StreamEnded ==
    /\ submit.pc = "following" /\ ~ui.stream
    /\ CASE ~submit.broken ->
              submit' = Closing /\ UNCHANGED <<ui, mending>>
         [] submit.broken /\ LeaseCurrent(ui, submit.lease) ->
              /\ ui' = Poll(ui, submit.lease, "rescue")
              /\ submit' = [submit EXCEPT !.pc = "rescuing"]
              /\ UNCHANGED mending
         [] OTHER -> Throw(ui)
    /\ UNCHANGED <<status, log, post, cancel, load, left>>

CloseSubmit ==
    /\ submit.pc = "closing"
    /\ ui' = [ui EXCEPT !.durable = Saved, !.streaming = @ /\ ui.waiting]
    /\ submit' = Quiet
    /\ UNCHANGED <<status, log, post, mending, cancel, load, left>>

CloseFails ==
    /\ submit.pc = "closing" /\ Incident /\ Throw(ui)
    /\ UNCHANGED <<status, log, post, cancel, load>>

(* Whatever is shown by now, be it the run of a later submission, is reset. *)
RecoverFailure ==
    /\ \E m \in mending :
         /\ mending' = mending \ {m}
         /\ ui' = [ResetRunState(ui) EXCEPT !.durable = IF m.view = ui.view THEN Saved ELSE @]
    /\ UNCHANGED <<status, log, post, submit, cancel, load, left>>

-----------------------------------------------------------------------------
(* Cancellation of the shown run.                                            *)

CancelActiveRun ==
    /\ cancel.pc = "idle" /\ Incident
    /\ ui.run # None /\ ui.status \in {"pending", "running", "waiting"}
    /\ cancel' = [pc |-> "asked", lease |-> Lease(ui, ui.run), snap |-> Unread]
    /\ ui' = [ui EXCEPT !.error = FALSE]
    /\ UNCHANGED <<status, log, post, submit, mending, load>>

(* A turn is asked to stop; a run without one is cancelled at once. *)
CancelRun ==
    /\ cancel.pc = "asked"
    /\ cancel' = [cancel EXCEPT !.pc = "answered"]
    /\ LET r == cancel.lease.run
       IN  CASE status[r] = "running" -> Move(r, "cancelling", "cancelling")
             [] status[r] \in {"pending", "waiting"} -> Move(r, "cancelled", "cancelled")
             [] OTHER -> UNCHANGED <<status, log>>
    /\ UNCHANGED <<post, ui, submit, mending, load, left>>

InView == cancel.lease.view = ui.view

CancelFails ==
    /\ cancel.pc = "asked" /\ Incident
    /\ cancel' = NoCancel
    /\ ui' = CASE ~InView -> ui
               [] InView /\ ui.run # None -> Poll(ui, Lease(ui, ui.run), "failed")
               [] OTHER -> [ui EXCEPT !.error = TRUE]
    /\ UNCHANGED <<status, log, post, submit, mending, load>>

(* The messages are read again, then the run; reading the run may fail. *)
CancelReads ==
    /\ cancel.pc = "answered"
    /\ IF InView
       THEN /\ \/ cancel' = [cancel EXCEPT !.pc = "read", !.snap = Snapshot(cancel.lease.run)] /\ UNCHANGED left
               \/ cancel' = [cancel EXCEPT !.pc = "read"] /\ Incident
            /\ ui' = [ui EXCEPT !.durable = Saved]
       ELSE cancel' = NoCancel /\ UNCHANGED <<ui, left>>
    /\ UNCHANGED <<status, log, post, submit, mending, load>>

(* The snapshot is applied and, if the run still goes on, it is shown as cancelled. *)
CancelEnds ==
    /\ cancel.pc = "read"
    /\ cancel' = NoCancel
    /\ LET c == IF cancel.snap # Unread /\ LeaseCurrent(ui, cancel.lease)
                THEN SyncRunState(ui, cancel.lease, cancel.snap) ELSE ui
           d == IF c.status \in Ends \cup {"none"} THEN c ELSE FinalizeRun(c, "cancelled", cancel.lease.run)
       IN  ui' = IF InView THEN [d EXCEPT !.stream = FALSE] ELSE ui
    /\ UNCHANGED <<status, log, post, submit, mending, load, left>>

-----------------------------------------------------------------------------
(* The conversation is left for another one and opened again.                *)

SwitchToThread ==
    /\ Incident
    /\ ui' = [ResetRunState(ui) EXCEPT !.view = @ + 1, !.stream = FALSE, !.loading = TRUE,
                 !.error = FALSE, !.drawn = {}, !.durable = {}, !.shut = {}]
    /\ submit' = Quiet
    /\ \E r \in {s \in Runs : status[s] # "none"} \cup {None} :
          /\ r = None => \A s \in Runs : status[s] = "none"
          /\ load' = [NoLoad EXCEPT !.pc = "listing", !.run = r]
    /\ UNCHANGED <<status, log, post, mending, cancel>>

Loaded(c) == load' = NoLoad /\ ui' = [c EXCEPT !.loading = FALSE]

(* The messages are loaded, the run is bound and shown as it is, and one at  *)
(* work is to be drawn from its events.                                      *)
LoadThread ==
    /\ load.pc = "listing"
    /\ LET r == load.run
           b == SetActiveRun([ui EXCEPT !.durable = Saved], r)
           c == SyncRunState(b, Lease(b, r), Snapshot(r))
       IN  CASE r = None -> Loaded([ui EXCEPT !.durable = Saved])
             [] r # None /\ status[r] \in Ends -> Loaded(c)
             [] r # None /\ status[r] \in {"pending", "running"} ->
                  /\ ui' = [ClearGuard(c, r) EXCEPT !.asked = FALSE, !.cursor = 0, !.drawn = @ \ {r}]
                  /\ load' = [pc |-> "replaying", run |-> r, lease |-> Lease(c, r), at |-> 0]
             [] OTHER -> Loaded([c EXCEPT !.stream = TRUE])
    /\ UNCHANGED <<status, log, post, submit, mending, cancel, left>>

(* The events of the run that are still to be replayed. *)
Unreplayed == {i \in load.at + 1 .. Len(log) : log[i].run = load.run}

ReplayEvent ==
    /\ load.pc = "replaying" /\ LeaseCurrent(ui, load.lease)
    /\ \E i \in Unreplayed :
          /\ \A j \in Unreplayed : i <= j
          /\ ui' = IngestEvent(ui, i)
          /\ load' = [load EXCEPT !.at = i]
    /\ UNCHANGED <<status, log, post, submit, mending, cancel, left>>

(* The cursor is that of the replay only if its lease still counts.  A run   *)
(* that has ended meanwhile is not followed.                                 *)
ReplayEnds ==
    /\ load.pc = "replaying"
    /\ ~LeaseCurrent(ui, load.lease) \/ Unreplayed = {}
    /\ LET c == IF LeaseCurrent(ui, load.lease) THEN [ui EXCEPT !.cursor = load.at] ELSE ui
       IN  Loaded(IF c.status \in Ends THEN [c EXCEPT !.durable = Saved] ELSE [c EXCEPT !.stream = TRUE])
    /\ UNCHANGED <<status, log, post, submit, mending, cancel, left>>

LoadFails ==
    /\ load.pc # "idle" /\ Incident
    /\ Loaded([ui EXCEPT !.error = TRUE])
    /\ UNCHANGED <<status, log, post, submit, mending, cancel>>

-----------------------------------------------------------------------------
Stream  == Deliver \/ StreamBreaks
Polling == TimerFires \/ PollAnswered \/ PollFails
Submission ==
    \/ Submit \/ StreamEnded \/ CloseSubmit \/ CloseFails \/ RecoverFailure
    \/ \E r \in Runs : StartThreadInteraction(r) \/ PostFails(r) \/ PostAnswered(r)
Cancellation == CancelActiveRun \/ CancelRun \/ CancelFails \/ CancelReads \/ CancelEnds
Opening == SwitchToThread \/ LoadThread \/ ReplayEvent \/ ReplayEnds \/ LoadFails

Next == Backend \/ Stream \/ Polling \/ Submission \/ Cancellation \/ Opening

Spec == Init /\ [][Next]_vars

(* Timers fire and requests are answered; of submissions and loads there are *)
(* finitely many, and one condition serves them all.  Nothing is assumed of  *)
(* the stream, which may stay silent for ever, of runs and of users.         *)
Requests ==
    \/ \E r \in Runs : StartThreadInteraction(r) \/ PostAnswered(r)
    \/ LoadThread \/ ReplayEvent \/ ReplayEnds

Fairness == WF_vars(TimerFires) /\ WF_vars(PollAnswered) /\ WF_vars(Requests)

FairSpec == Spec /\ Fairness

-----------------------------------------------------------------------------
(* What the store promises.                                                  *)

(* A run is never shown as going on with nothing under way that would bring  *)
(* the news of it: a timer or a poll whose lease still counts, a load, or a  *)
(* submission that is not answered.  Runs that were shown to end before are  *)
(* another matter: a snapshot taken under the lease of an ended run binds it *)
(* again and leaves it a timer that does not count.                          *)
Watched ==
    ui.run \notin {None} \cup ui.shut /\ ~ui.error =>
        \/ ui.timer # NoLease /\ LeaseCurrent(ui, ui.timer)
        \/ \E p \in ui.polls : LeaseCurrent(ui, p.lease)
        \/ submit.pc = "posted" \/ load.pc # "idle"

(* What is shown is behind: the run has ended, or waits for an answer that   *)
(* is not asked for.                                                         *)
Behind ==
    /\ ui.run \notin {None} \cup ui.shut /\ ~ui.error
    /\ status[ui.run] \in Ends \/ (status[ui.run] = "waiting" /\ ~ui.asked)

(* It does not stay so: polls bring the news to the conversation, whatever   *)
(* was lost or answered late, even if the stream is silent for ever.         *)
NewsArrives == Behind ~> ~Behind

(* A run the conversation has shown to end is not shown as going on again by *)
(* the late answer of a poll, a cancellation or a load, whatever the backend *)
(* said when it was asked; only a late event and the submission that started *)
(* the run may do that.                                                      *)
EndedStaysEnded ==
    [][ui'.run \in ui.shut /\ ui'.run # ui.run =>
          \/ ui'.cursor = ui.cursor + 1
          \/ submit.run = ui'.run /\ submit' # submit]_vars

(* "late terminal events from the previous run do not tear down the next     *)
(* live assistant lane": while a submission is posted, no event of an earlier *)
(* run ends its stream or its streaming.                                     *)
LateEventsHarmless ==
    [][submit.pc = "posted" /\ ui.stream /\ ui.streaming
       /\ ui'.cursor = ui.cursor + 1 /\ log[ui'.cursor].run # submit.run
       => ui'.stream /\ ui'.streaming]_vars
=============================================================================
