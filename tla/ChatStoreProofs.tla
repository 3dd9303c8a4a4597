-------------------------- MODULE ChatStoreProofs --------------------------
(* Theorems about ChatStore: the types, that a run shown as going on is      *)
(* watched, and that late answers never show an ended run as going on again. *)
EXTENDS ChatStore, FiniteSetTheorems, TLAPS

-----------------------------------------------------------------------------
(* The inductive invariant, in its parts.                                    *)

(* The records of the store, without the bounds that depend on other variables. *)
Leases == [view : Nat, epoch : Nat, run : Runs \cup {None}]
Snaps  == [status : Statuses, at : Nat]
Polls  == [lease : Leases, snap : Snaps, kind : {"timer", "failed", "rescue"}]
Stores ==
    [view : Nat \ {0}, epoch : Nat, run : Runs \cup {None},
     last : Runs \cup {None}, status : Statuses, streaming : BOOLEAN,
     waiting : BOOLEAN, asked : BOOLEAN, loading : BOOLEAN, error : BOOLEAN,
     cursor : Nat, stream : BOOLEAN, timer : Leases, polls : SUBSET Polls,
     guard : [run : Runs \cup {None}, floor : Nat],
     drawn : SUBSET Runs, durable : SUBSET Runs, shut : SUBSET Runs]

Failures == [run : Runs \cup {None}, view : Nat]
Types    == {"created", "started", "cancelling", "waiting"} \cup Ends
Events   == [run : Runs, type : Types]

Shapes ==
    /\ status \in [Runs -> Statuses]
    /\ log \in Seq(Events)
    /\ post \in [Runs -> {"none", "sent", "accepted", "refused", "done"}]
    /\ ui \in Stores /\ IsFiniteSet(ui.polls)
    /\ submit \in [pc : {"idle", "posted", "following", "rescuing", "closing"},
                   run : Runs \cup {None}, lease : Leases, broken : BOOLEAN]
    /\ mending \subseteq Failures
    /\ cancel \in [pc : {"idle", "asked", "answered", "read"}, lease : Leases, snap : Snaps]
    /\ load \in [pc : {"idle", "listing", "replaying"},
                 run : Runs \cup {None}, lease : Leases, at : Nat]
    /\ left \in Nat

(* Nothing points behind the end of the log, and nothing belongs to a view    *)
(* that was not opened yet.                                                  *)
Bounds ==
    /\ ui.view + left <= MaxIncidents + 1 /\ \A m \in mending : m.view <= ui.view
    /\ ui.cursor <= Len(log) /\ ui.guard.floor <= Len(log) /\ load.at <= Len(log)
    /\ cancel.snap.at <= Len(log)
    /\ \A p \in ui.polls : p.snap.at <= Len(log) /\ p.lease.view <= ui.view
    /\ ui.timer.view <= ui.view /\ submit.lease.view <= ui.view
    /\ cancel.lease.view <= ui.view /\ load.lease.view <= ui.view

(* The backend: the log of a run agrees with its status. *)
LogAgrees ==
    /\ \A i \in 1 .. Len(log) : log[i].type \in Ends => status[log[i].run] = log[i].type
    /\ \A r \in Runs : status[r] = "waiting" =>
          \E i \in 1 .. Len(log) : /\ log[i] = [run |-> r, type |-> "waiting"]
                                   /\ \A j \in i + 1 .. Len(log) : log[j].run # r
    /\ \A r \in Runs : post[r] \in {"none", "sent"} => status[r] = "none"

(* What the fields of the store say of each other. *)
StoreAgrees ==
    /\ ui.run = None => ui.status \in Ends \cup {"none"}
    /\ ui.run # None => ui.status \notin Ends
    /\ ui.last # None => ui.run = None /\ ui.status \in Ends /\ ui.last \in ui.shut
    /\ ui.loading <=> load.pc # "idle"
    /\ submit.pc # "idle" => load.pc = "idle"
    /\ ui.run = None /\ ui.streaming =>
          /\ ui.status = "none"
          /\ \/ submit.pc = "posted"
             \/ submit.pc = "idle" /\ ~ui.stream /\ load.pc = "idle"

(* The runs of the leases. *)
LeasesAgree ==
    /\ ui.timer # NoLease => ui.timer.run # None
    /\ \A p \in ui.polls : p.lease.run # None
    /\ cancel.pc # "idle" => cancel.lease.run # None
    /\ submit.pc \in {"posted", "following", "rescuing"} =>
          submit.run # None /\ post[submit.run] # "none"
    /\ submit.pc \in {"following", "rescuing"} => submit.lease.run = submit.run
    /\ load.pc = "replaying" => load.run # None /\ load.lease.run = load.run

(* A conversation that is being listed shows nothing yet, and no lease of an  *)
(* earlier view counts in it.                                                *)
Listing ==
    load.pc = "listing" =>
        /\ ui.run = None /\ ui.last = None /\ ui.status = "none" /\ ui.shut = {}
        /\ ~ui.stream /\ ui.timer = NoLease
        /\ cancel.lease.view # ui.view
        /\ \A p \in ui.polls : p.lease.view # ui.view

(* The news will come by the timer, or by a poll it has made; or the run was  *)
(* named by a first event that shows nothing, of a submission that is posted  *)
(* or has thrown; the next one takes over a run named by one that has thrown. *)
ByTimer ==
    \/ LeaseCurrent(ui, ui.timer)
    \/ \E p \in ui.polls : p.kind = "timer" /\ LeaseCurrent(ui, p.lease)

JustNamed ==
    /\ ui.status = "none"
    /\ \/ ui.streaming /\ submit.pc = "posted"
       \/ ui.error /\ submit.pc = "idle"

Attended == ui.run \notin {None} \cup ui.shut => ByTimer \/ JustNamed

(* A lease of the shown view and epoch is one of the shown run. *)
Bound(l) == l.view = ui.view /\ l.epoch = ui.epoch => ui.run = l.run

(* A poll that may count with no run shown is one of a run that has ended, or *)
(* the one the submission of the run awaits.                                 *)
PollBound(p) ==
    /\ p.kind = "timer"  => Bound(p.lease)
    /\ p.kind = "failed" => Bound(p.lease) \/ p.snap.status \in Ends
    /\ p.kind = "rescue" /\ LeaseCurrent(ui, p.lease) /\ ui.run = None =>
           \/ p.snap.status \in Ends
           \/ submit.pc = "rescuing" /\ submit.run = p.lease.run

LeasesBound ==
    /\ Bound(ui.timer) /\ Bound(cancel.lease)
    /\ load.pc = "replaying" => Bound(load.lease)
    /\ \A p \in ui.polls : PollBound(p)

(* Runs are started in order, and each has one rescue at most. *)
Rescued ==
    /\ \E k \in 0 .. MaxRuns : Used = 1 .. k
    /\ \A p \in ui.polls : p.kind = "rescue" =>
          /\ post[p.lease.run] # "none"
          /\ submit.pc \in {"posted", "following"} => p.lease.run # submit.run
          /\ \A q \in ui.polls : q.kind = "rescue" /\ q.lease.run = p.lease.run => p = q

IInv ==
    /\ Shapes /\ Bounds /\ LogAgrees /\ StoreAgrees /\ LeasesAgree
    /\ Listing /\ Attended /\ LeasesBound /\ Rescued

-----------------------------------------------------------------------------
(* Epochs: there is always one that no lease has.                            *)

LEMMA FreshNumber ==
    ASSUME NEW S, IsFiniteSet(S), NEW n \in Nat, Cardinality(S) < n
    PROVE  \E e \in 1 .. n : e \notin S
<1>1. SUFFICES ASSUME 1 .. n \subseteq S PROVE FALSE
  OBVIOUS
<1>2. IsFiniteSet(1 .. n) /\ Cardinality(1 .. n) = n
  BY FS_Interval
<1>3. Cardinality(1 .. n) <= Cardinality(S)
  BY <1>1, FS_Subset
<1>4. Cardinality(S) \in Nat
  BY FS_CardinalityType
<1> QED
  BY <1>2, <1>3, <1>4

(* The epochs of the leases that may still count, but for the timer's. *)
Held(polls) ==
    {submit.lease.epoch, cancel.lease.epoch, load.lease.epoch} \cup {p.lease.epoch : p \in polls}

LEMMA FreshEpoch ==
    ASSUME NEW c, IsFiniteSet(c.polls)
    PROVE  /\ NextEpoch(c) \in Nat
           /\ NextEpoch(c) \notin Held(c.polls) \cup {c.epoch, c.timer.epoch}
<1> DEFINE P == {p.lease.epoch : p \in c.polls}
           f == [p \in c.polls |-> p.lease.epoch]
           n == Cardinality(c.polls) + 6
           F == {c.epoch, c.timer.epoch, submit.lease.epoch, cancel.lease.epoch, load.lease.epoch}
           G1 == {c.epoch}
           G2 == G1 \cup {c.timer.epoch}
           G3 == G2 \cup {submit.lease.epoch}
           G4 == G3 \cup {cancel.lease.epoch}
           G5 == G4 \cup {load.lease.epoch}
<1>0. Cardinality(c.polls) \in Nat
  BY FS_CardinalityType
<1>1. f \in Surjection(c.polls, P)
  BY DEF Surjection
<1>2. IsFiniteSet(P) /\ Cardinality(P) <= Cardinality(c.polls)
  <2> HIDE DEF P, f
  <2> QED
    BY <1>1, FS_Surjection
<1>3. IsFiniteSet(G1) /\ Cardinality(G1) = 1
  BY FS_Singleton
<1>4. IsFiniteSet(G2) /\ Cardinality(G2) \in 1 .. 2
  <2> HIDE DEF G1
  <2> QED
    BY <1>3, FS_AddElement
<1>5. IsFiniteSet(G3) /\ Cardinality(G3) \in 1 .. 3
  <2> HIDE DEF G2
  <2> QED
    BY <1>4, FS_AddElement
<1>6. IsFiniteSet(G4) /\ Cardinality(G4) \in 1 .. 4
  <2> DEFINE x == cancel.lease.epoch
  <2>1. G4 = G3 \cup {x}
    OBVIOUS
  <2> HIDE DEF G3, G4, x
  <2>2. /\ IsFiniteSet(G3 \cup {x})
        /\ Cardinality(G3 \cup {x}) = IF x \in G3 THEN Cardinality(G3) ELSE Cardinality(G3) + 1
    BY <1>5, FS_AddElement
  <2> QED
    BY <2>1, <2>2, <1>5
<1>7. IsFiniteSet(G5) /\ Cardinality(G5) \in 1 .. 5
  <2> HIDE DEF G4
  <2> QED
    BY <1>6, FS_AddElement
<1>8. F = G5
  OBVIOUS
<1>9. IsFiniteSet(F \cup P) /\ Cardinality(F \cup P) < n
  <2> HIDE DEF P, G5, F
  <2>1. IsFiniteSet(F \cup P)
        /\ Cardinality(F \cup P) = Cardinality(F) + Cardinality(P) - Cardinality(F \cap P)
    BY <1>2, <1>7, <1>8, FS_Union
  <2>2. IsFiniteSet(F \cap P) /\ Cardinality(F \cap P) \in Nat /\ Cardinality(P) \in Nat
    BY <1>2, <1>7, <1>8, FS_Intersection, FS_CardinalityType
  <2> QED
    BY <2>1, <2>2, <1>0, <1>2, <1>7, <1>8
<1>10. \E e \in 1 .. n : e \notin F \cup P
  <2> HIDE DEF P, F
  <2> QED
    BY <1>9, <1>0, FreshNumber
<1>11. NextEpoch(c) \in (1 .. n) \ (F \cup P)
  BY <1>10 DEF NextEpoch
<1> QED
  BY <1>11, <1>0 DEF Held

-----------------------------------------------------------------------------
(* What the operators of the store do to it.                                 *)

LEMMA NoneApart == None \notin Runs /\ Runs \subseteq Nat
BY DEF None, Runs

(* Where the conversation is: no operator that moves a run changes it. *)
SamePlace(c, d) ==
    /\ d.view = c.view /\ d.loading = c.loading /\ d.cursor = c.cursor /\ d.polls = c.polls

SameRun(c, d) == d.run = c.run /\ d.epoch = c.epoch /\ d.last = c.last

LEMMA BindsRun ==
    ASSUME NEW c \in Stores, IsFiniteSet(c.polls), NEW r \in Runs \cup {None},
           NEW d, d = SetActiveRun(c, r)
    PROVE  /\ d \in Stores /\ SamePlace(c, d) /\ d.run = r
           /\ d.status = c.status /\ d.streaming = c.streaming /\ d.error = c.error
           /\ d.stream = c.stream /\ d.timer = c.timer /\ d.shut = c.shut /\ d.guard = c.guard
           /\ d.waiting = c.waiting /\ d.asked = c.asked /\ d.drawn = c.drawn
           /\ d.durable = c.durable
           /\ c.run = r => d = c
           /\ c.run # r => /\ d.last = (IF r = None THEN c.last ELSE None)
                           /\ d.epoch \notin Held(c.polls) \cup {c.epoch, c.timer.epoch}
<1>1. CASE c.run = r
  BY <1>1 DEF SetActiveRun, SamePlace
<1>2. CASE c.run # r
  <2>1. NextEpoch(c) \in Nat
        /\ NextEpoch(c) \notin Held(c.polls) \cup {c.epoch, c.timer.epoch}
    BY FreshEpoch
  <2>2. d = [c EXCEPT !.run = r, !.epoch = NextEpoch(c), !.last = IF r = None THEN @ ELSE None]
    BY <1>2 DEF SetActiveRun
  <2> QED
    BY ZenonT(60), <2>1, <2>2, <1>2 DEF Stores, SamePlace
<1> QED
  BY <1>1, <1>2

LEMMA Schedules ==
    ASSUME NEW c \in Stores, NEW d, d = ScheduleReconciliation(c)
    PROVE  /\ d \in Stores /\ SamePlace(c, d) /\ SameRun(c, d)
           /\ d.status = c.status /\ d.streaming = c.streaming /\ d.error = c.error
           /\ d.stream = c.stream /\ d.shut = c.shut /\ d.guard = c.guard
           /\ d.timer = Lease(c, c.run) /\ d.timer = Lease(d, d.run)
<1>1. Lease(c, c.run) \in Leases
  BY DEF Lease, Leases, Stores
<1> QED
  BY <1>1 DEF ScheduleReconciliation, Stores, SamePlace, SameRun, Lease

LEMMA ClearsGuard ==
    ASSUME NEW c \in Stores, NEW r, NEW d, d = ClearGuard(c, r)
    PROVE  /\ d \in Stores /\ SamePlace(c, d) /\ SameRun(c, d)
           /\ d.status = c.status /\ d.streaming = c.streaming /\ d.error = c.error
           /\ d.stream = c.stream /\ d.timer = c.timer /\ d.shut = c.shut
           /\ d.guard \in {c.guard, NoGuard}
BY DEF ClearGuard, Stores, SamePlace, SameRun, NoGuard

LEMMA ResetsRun ==
    ASSUME NEW c \in Stores, IsFiniteSet(c.polls), NEW d, d = ResetRunState(c)
    PROVE  /\ d \in Stores /\ SamePlace(c, d)
           /\ d.run = None /\ d.last = None /\ d.status = "none" /\ ~d.streaming
           /\ d.timer = NoLease /\ d.guard = NoGuard
           /\ d.error = c.error /\ d.stream = c.stream /\ d.shut = c.shut
           /\ d.epoch = c.epoch \/ d.epoch \notin Held(c.polls)
           /\ c.run = None \/ d.epoch \notin Held(c.polls)
<1> DEFINE b == SetActiveRun(c, None)
<1>1. /\ b \in Stores /\ SamePlace(c, b) /\ b.run = None
      /\ b.error = c.error /\ b.stream = c.stream /\ b.shut = c.shut
      /\ c.run = None => b = c
      /\ c.run # None => b.epoch \notin Held(c.polls) \cup {c.epoch, c.timer.epoch}
  BY BindsRun
<1>2. d = [b EXCEPT !.timer = NoLease, !.streaming = FALSE, !.waiting = FALSE, !.last = None,
                    !.guard = NoGuard, !.status = "none", !.asked = FALSE]
  BY DEF ResetRunState
<1> HIDE DEF b
<1>3. NoLease \in Leases /\ NoGuard \in [run : Runs \cup {None}, floor : Nat] /\ "none" \in Statuses
  BY DEF NoLease, Leases, NoGuard, Statuses, None
<1>4. d \in Stores
  <2>1. ASSUME NEW x \in Stores, NEW l \in Leases, NEW y,
               y = [x EXCEPT !.timer = l, !.streaming = FALSE, !.waiting = FALSE]
        PROVE  y \in Stores
    BY <2>1 DEF Stores
  <2>2. ASSUME NEW x \in Stores, NEW g \in [run : Runs \cup {None}, floor : Nat], NEW y,
               y = [x EXCEPT !.last = None, !.guard = g, !.status = "none", !.asked = FALSE]
        PROVE  y \in Stores
    <3>1. "none" \in Statuses
      BY DEF Statuses
    <3> QED
      BY <2>2, <3>1 DEF Stores
  <2> DEFINE e == [b EXCEPT !.timer = NoLease, !.streaming = FALSE, !.waiting = FALSE]
  <2>3. e \in Stores
    BY <1>1, <1>3, <2>1, Zenon
  <2>4. d = [e EXCEPT !.last = None, !.guard = NoGuard, !.status = "none", !.asked = FALSE]
    BY <1>1, <1>2 DEF Stores
  <2> HIDE DEF e
  <2> QED
    BY <2>2, <2>3, <2>4, <1>3, Zenon
<1>5. /\ SamePlace(b, d) /\ d.run = b.run /\ d.epoch = b.epoch
      /\ d.last = None /\ d.status = "none" /\ ~d.streaming
      /\ d.timer = NoLease /\ d.guard = NoGuard
      /\ d.error = b.error /\ d.stream = b.stream /\ d.shut = b.shut
  BY <1>1, <1>2 DEF Stores, SamePlace
<1> QED
  BY <1>1, <1>4, <1>5 DEF SamePlace

(* An end is shown, remembered and let go of. *)
LEMMA FinalizesEnd ==
    ASSUME NEW c \in Stores, IsFiniteSet(c.polls), NEW r \in Runs, c.run \in {None, r},
           NEW s \in Ends, NEW d, d = FinalizeRun(c, s, r)
    PROVE  /\ d \in Stores /\ SamePlace(c, d)
           /\ d.run = None /\ d.last = r /\ d.status = s /\ ~d.streaming
           /\ d.shut = c.shut \cup {r} /\ d.timer = NoLease
           /\ d.error = c.error /\ d.stream = c.stream
           /\ d.guard \in {c.guard, NoGuard}
           /\ c.run = r => d.epoch \notin Held(c.polls) \cup {c.epoch}
           /\ c.run = None => d.epoch = c.epoch
<1> DEFINE a == [c EXCEPT !.status = s, !.streaming = FALSE, !.waiting = (s = "waiting"),
                          !.asked = @ /\ s = "waiting"]
           b == ClearGuard(a, r)
           e == [b EXCEPT !.timer = NoLease, !.last = r, !.shut = @ \cup {r}]
<1>0. s \in Statuses /\ NoLease \in Leases /\ r # None
  BY NoneApart DEF Statuses, NoLease, Leases, None
<1>1. /\ a \in Stores /\ SamePlace(c, a) /\ SameRun(c, a) /\ a.status = s /\ ~a.streaming
      /\ a.shut = c.shut /\ a.error = c.error /\ a.stream = c.stream /\ a.guard = c.guard
  BY <1>0 DEF Stores, SamePlace, SameRun
<1>2. d = SetActiveRun(e, None)
  BY DEF FinalizeRun
<1> HIDE DEF a
<1>3. /\ b \in Stores /\ SamePlace(c, b) /\ SameRun(c, b) /\ b.status = s /\ ~b.streaming
      /\ b.shut = c.shut /\ b.error = c.error /\ b.stream = c.stream
      /\ b.guard \in {c.guard, NoGuard}
  BY <1>1, ClearsGuard DEF SamePlace, SameRun
<1> HIDE DEF b
<1>4. /\ e \in Stores /\ SamePlace(c, e) /\ e.run = c.run /\ e.epoch = c.epoch /\ e.last = r
      /\ e.status = s /\ ~e.streaming /\ e.shut = c.shut \cup {r} /\ e.timer = NoLease
      /\ e.error = c.error /\ e.stream = c.stream
      /\ e.guard \in {c.guard, NoGuard}
  BY <1>3, <1>0 DEF Stores, SamePlace, SameRun
<1> HIDE DEF e
<1>5. IsFiniteSet(e.polls) /\ Held(e.polls) = Held(c.polls)
  BY <1>4 DEF SamePlace
<1> QED
  BY <1>0, <1>2, <1>4, <1>5, BindsRun DEF SamePlace

LEMMA FinalizesWaiting ==
    ASSUME NEW c \in Stores, NEW r \in Runs, c.run = r, NEW d, d = FinalizeRun(c, "waiting", r)
    PROVE  /\ d \in Stores /\ SamePlace(c, d) /\ SameRun(c, d)
           /\ d.status = "waiting" /\ ~d.streaming
           /\ d.shut = c.shut /\ d.timer = Lease(d, d.run)
           /\ d.error = c.error /\ d.stream = c.stream /\ d.guard = c.guard
<1> DEFINE a == [c EXCEPT !.status = "waiting", !.streaming = FALSE,
                          !.waiting = ("waiting" = "waiting"), !.asked = @ /\ "waiting" = "waiting"]
<1>1. /\ a \in Stores /\ SamePlace(c, a) /\ SameRun(c, a) /\ a.status = "waiting" /\ ~a.streaming
      /\ a.shut = c.shut /\ a.error = c.error /\ a.stream = c.stream /\ a.guard = c.guard
  BY DEF Stores, SamePlace, SameRun, Statuses, Active
<1>2. d = ScheduleReconciliation(a)
  BY DEF FinalizeRun, Ends
<1> HIDE DEF a
<1> QED
  BY <1>1, <1>2, Schedules DEF SamePlace, SameRun

LEMMA FinalizesNothing ==
    ASSUME NEW c, NEW r, c.run \notin {None, r}, NEW s
    PROVE  FinalizeRun(c, s, r) = c
BY DEF FinalizeRun

(* A snapshot that shows an end binds the run and lets it go. *)
LEMMA SyncsEnd ==
    ASSUME NEW c \in Stores, IsFiniteSet(c.polls), NEW l \in Leases, l.run # None,
           c.run \in {None, l.run}, NEW snap \in Snaps, snap.status \in Ends,
           NEW d, d = SyncRunState(c, l, snap)
    PROVE  /\ d \in Stores /\ SamePlace(c, d)
           /\ d.run = None /\ d.last = l.run /\ d.status = snap.status /\ ~d.streaming
           /\ d.shut = c.shut \cup {l.run} /\ d.timer = NoLease /\ d.stream = c.stream
           /\ d.guard \in {c.guard, NoGuard}
           /\ d.epoch \notin Held(c.polls)
<1> DEFINE s == snap.status
           a == SetActiveRun(c, l.run)
           w == s = "waiting"
           t == s \in {"pending", "running"}
           b == [a EXCEPT !.error = FALSE, !.status = s, !.waiting = w, !.asked = w, !.streaming = t]
           e == ClearGuard(b, l.run)
           f == FinalizeRun(e, s, l.run)
<1>0. l.run \in Runs /\ s \in Statuses /\ s # "waiting" /\ w \in BOOLEAN /\ t \in BOOLEAN
  BY DEF Leases, Snaps, Ends
<1>1. d = [f EXCEPT !.durable = Saved]
  BY <1>0 DEF SyncRunState
<1>2. /\ a \in Stores /\ SamePlace(c, a) /\ a.run = l.run /\ a.stream = c.stream
      /\ a.shut = c.shut /\ a.guard = c.guard
  BY <1>0, BindsRun
<1> HIDE DEF a, w, t
<1>3. /\ b \in Stores /\ SamePlace(c, b) /\ b.run = l.run /\ b.stream = c.stream
      /\ b.shut = c.shut /\ b.guard = c.guard
  <2>1. b \in Stores
    BY <1>0, <1>2 DEF Stores
  <2> QED
    BY <2>1, <1>2 DEF Stores, SamePlace
<1> HIDE DEF b
<1>4. /\ e \in Stores /\ SamePlace(c, e) /\ e.run = l.run /\ e.stream = c.stream
      /\ e.shut = c.shut /\ e.guard \in {c.guard, NoGuard}
  BY <1>3, ClearsGuard DEF SamePlace, SameRun
<1> HIDE DEF e
<1>5. e.polls = c.polls /\ IsFiniteSet(e.polls)
  BY <1>4 DEF SamePlace
<1>6. /\ f \in Stores /\ SamePlace(e, f) /\ f.run = None /\ f.last = l.run /\ f.status = s
      /\ ~f.streaming /\ f.shut = e.shut \cup {l.run} /\ f.timer = NoLease
      /\ f.stream = e.stream /\ f.guard \in {e.guard, NoGuard}
      /\ f.epoch \notin Held(e.polls)
  BY <1>0, <1>4, <1>5, FinalizesEnd
<1> HIDE DEF f
<1>7. Saved \subseteq Runs
  BY DEF Saved
<1>8. d \in Stores
  BY <1>1, <1>6, <1>7 DEF Stores
<1>9. /\ SamePlace(f, d) /\ d.run = f.run /\ d.last = f.last /\ d.status = f.status
      /\ d.streaming = f.streaming /\ d.shut = f.shut /\ d.timer = f.timer
      /\ d.stream = f.stream /\ d.guard = f.guard /\ d.epoch = f.epoch
  BY <1>1, <1>6 DEF Stores, SamePlace
<1> QED
  BY <1>4, <1>5, <1>6, <1>8, <1>9 DEF SamePlace

(* Any other snapshot binds the run and sets the timer to its lease. *)
LEMMA SyncsOther ==
    ASSUME NEW c \in Stores, IsFiniteSet(c.polls), NEW l \in Leases, l.run # None,
           c.run \in {None, l.run}, NEW snap \in Snaps, snap.status \notin Ends,
           NEW d, d = SyncRunState(c, l, snap)
    PROVE  /\ d \in Stores /\ SamePlace(c, d)
           /\ d.run = l.run /\ d.status = snap.status /\ d.shut = c.shut /\ d.timer = l
           /\ d.stream = c.stream
           /\ d.guard \in {c.guard, [run |-> l.run, floor |-> snap.at]}
           /\ c.run = l.run => SameRun(c, d)
           /\ c.run = None => /\ d.last = None
                              /\ d.epoch \notin Held(c.polls) \cup {c.epoch}
<1> DEFINE s == snap.status
           a == SetActiveRun(c, l.run)
           w == s = "waiting"
           t == s \in {"pending", "running"}
           b == [a EXCEPT !.error = FALSE, !.status = s, !.waiting = w, !.asked = w, !.streaming = t]
           G == [run |-> l.run, floor |-> snap.at]
           g == IF s = "waiting" /\ l.run \notin c.drawn THEN [b EXCEPT !.guard = G] ELSE b
           D == IF s = "waiting" THEN g.drawn \cup {l.run} ELSE g.drawn
<1>0. /\ l.run \in Runs /\ s \in Statuses /\ w \in BOOLEAN /\ t \in BOOLEAN
      /\ G \in [run : Runs \cup {None}, floor : Nat]
  BY DEF Leases, Snaps, Ends
<1>1. d = [g EXCEPT !.timer = l, !.drawn = D]
  BY <1>0 DEF SyncRunState
<1>2. /\ a \in Stores /\ SamePlace(c, a) /\ a.run = l.run /\ a.stream = c.stream
      /\ a.shut = c.shut /\ a.guard = c.guard
      /\ c.run = l.run => SameRun(c, a)
      /\ c.run = None => /\ a.last = None
                         /\ a.epoch \notin Held(c.polls) \cup {c.epoch}
  <2>1. CASE c.run = l.run
    <3>1. a = c
      BY <2>1 DEF SetActiveRun
    <3> HIDE DEF a
    <3> QED
      BY <2>1, <3>1, <1>0 DEF SameRun, SamePlace
  <2>2. CASE c.run = None
    BY <2>2, <1>0, BindsRun
  <2> QED
    BY <2>1, <2>2
<1> HIDE DEF a, G, w, t
<1>3. /\ b \in Stores /\ SamePlace(a, b) /\ SameRun(a, b) /\ b.status = s
      /\ b.stream = a.stream /\ b.shut = a.shut /\ b.guard = a.guard
  <2>1. b \in Stores
    BY <1>0, <1>2 DEF Stores
  <2> QED
    BY <2>1, <1>2 DEF Stores, SamePlace, SameRun
<1> HIDE DEF b
<1>4. /\ g \in Stores /\ SamePlace(b, g) /\ SameRun(b, g) /\ g.status = s
      /\ g.stream = b.stream /\ g.shut = b.shut /\ g.guard \in {b.guard, G}
  <2>1. CASE s = "waiting" /\ l.run \notin c.drawn
    BY <2>1, <1>3, <1>0 DEF Stores, SamePlace, SameRun
  <2>2. CASE ~(s = "waiting" /\ l.run \notin c.drawn)
    BY <2>2, <1>3 DEF SamePlace, SameRun
  <2> QED
    BY <2>1, <2>2
<1> HIDE DEF g
<1>5. D \subseteq Runs
  BY <1>0, <1>4 DEF Stores
<1> HIDE DEF D
<1>6. /\ d \in Stores /\ SamePlace(g, d) /\ SameRun(g, d) /\ d.status = s /\ d.timer = l
      /\ d.stream = g.stream /\ d.shut = g.shut /\ d.guard = g.guard
  BY ZenonT(60), <1>1, <1>4, <1>5 DEF Stores, SamePlace, SameRun
<1> QED
  BY <1>2, <1>3, <1>4, <1>6 DEF SamePlace, SameRun, G

(* An event of a run does one of four things to the store: nothing; it names  *)
(* the run and shows nothing; it shows the run as going on; it shows its end. *)
ShowsNothing(c, d) == d = c

NamesRun(c, d, r) == c.run = None /\ c.streaming /\ d = SetActiveRun(c, r)

ShowsProgress(c, d, r) ==
    /\ c.run = r \/ c.run = None
    /\ d \in Stores /\ SamePlace(c, d) /\ d.run = r
    /\ d.status \in {"pending", "running", "waiting"}
    /\ d.shut = c.shut /\ d.timer = Lease(d, r) /\ d.stream = c.stream /\ d.guard = c.guard
    /\ c.run = r => SameRun(c, d)
    /\ c.run = None => d.last = None /\ d.epoch \notin Held(c.polls) \cup {c.epoch}

ShowsEnd(c, d, r) ==
    /\ c.run = r
    /\ d \in Stores
    /\ d.view = c.view /\ d.loading = c.loading /\ d.cursor = c.cursor
    /\ d.run = None /\ d.last = r /\ d.status \in Ends /\ ~d.streaming /\ ~d.stream
    /\ d.shut = c.shut \cup {r} /\ d.timer = NoLease /\ d.guard \in {c.guard, NoGuard}
    /\ d.epoch \notin Held(c.polls)
    /\ \/ d.polls = c.polls
       \/ /\ status[r] = "failed"
          /\ d.polls = c.polls \cup {[lease |-> Lease(d, r), snap |-> Snapshot(r), kind |-> "failed"]}

LEMMA AppliesEvent ==
    ASSUME NEW c \in Stores, IsFiniteSet(c.polls), NEW e \in Events, c.run = e.run,
           e.type = "failed" => status[e.run] = "failed", Snapshot(e.run) \in Snaps,
           NEW d, d = ApplyEvent(c, e)
    PROVE  \/ ShowsNothing(c, d)
           \/ ShowsProgress(c, d, e.run)
           \/ e.type \in Ends /\ ShowsEnd(c, d, e.run)
<1> DEFINE r == e.run
<1>0. r \in Runs /\ r # None /\ c.run # None /\ e.type \in Types
  BY NoneApart DEF Events
<1>1. CASE e.type = "started"
  <2> DEFINE a == [c EXCEPT !.status = "running", !.streaming = TRUE, !.waiting = FALSE]
             b == ScheduleReconciliation(a)
  <2>1. d = [b EXCEPT !.asked = FALSE]
    BY <1>1 DEF ApplyEvent
  <2>2. /\ a \in Stores /\ SamePlace(c, a) /\ SameRun(c, a) /\ a.status = "running"
        /\ a.shut = c.shut /\ a.stream = c.stream /\ a.guard = c.guard
    BY DEF Stores, SamePlace, SameRun, Statuses, Active
  <2> HIDE DEF a
  <2>3. /\ b \in Stores /\ SamePlace(a, b) /\ SameRun(a, b) /\ b.status = a.status
        /\ b.shut = a.shut /\ b.stream = a.stream /\ b.guard = a.guard /\ b.timer = Lease(b, b.run)
    BY <2>2, Schedules
  <2> HIDE DEF b
  <2>4. /\ d \in Stores /\ SamePlace(b, d) /\ SameRun(b, d) /\ d.status = b.status
        /\ d.shut = b.shut /\ d.stream = b.stream /\ d.guard = b.guard /\ d.timer = b.timer
    BY <2>1, <2>3 DEF Stores, SamePlace, SameRun
  <2> QED
    BY <1>0, <2>2, <2>3, <2>4 DEF ShowsProgress, SamePlace, SameRun, Lease
<1>2. CASE e.type = "waiting"
  <2> DEFINE D == c.drawn \cup {r}
             a == [c EXCEPT !.asked = TRUE, !.drawn = D]
  <2>1. d = FinalizeRun(a, "waiting", r)
    BY <1>2 DEF ApplyEvent
  <2>2. D \subseteq Runs
    BY <1>0 DEF Stores
  <2> HIDE DEF D
  <2>3. /\ a \in Stores /\ SamePlace(c, a) /\ SameRun(c, a) /\ a.run = r
        /\ a.shut = c.shut /\ a.stream = c.stream /\ a.guard = c.guard
    BY <2>2 DEF Stores, SamePlace, SameRun
  <2> HIDE DEF a
  <2>4. /\ d \in Stores /\ SamePlace(a, d) /\ SameRun(a, d)
        /\ d.status = "waiting" /\ d.shut = a.shut /\ d.timer = Lease(d, d.run)
        /\ d.stream = a.stream /\ d.guard = a.guard
    BY <1>0, <2>1, <2>3, FinalizesWaiting
  <2> QED
    BY <1>0, <2>3, <2>4 DEF ShowsProgress, SamePlace, SameRun
<1>3. CASE e.type \in Ends
  <2> DEFINE f == FinalizeRun(c, e.type, r)
             g == [f EXCEPT !.stream = FALSE]
             h == [g EXCEPT !.error = TRUE]
             P == [lease |-> Lease(g, r), snap |-> Snapshot(r), kind |-> "failed"]
  <2>1. /\ f \in Stores /\ SamePlace(c, f) /\ f.run = None /\ f.last = r /\ f.status = e.type
        /\ ~f.streaming /\ f.shut = c.shut \cup {r} /\ f.timer = NoLease
        /\ f.guard \in {c.guard, NoGuard} /\ f.epoch \notin Held(c.polls)
    BY <1>0, <1>3, FinalizesEnd
  <2>2. d = g \/ (e.type = "failed" /\ d = [h EXCEPT !.polls = @ \cup {P}])
    BY <1>3 DEF ApplyEvent, Ends, Poll, Lease
  <2> HIDE DEF f
  <2>3. /\ g \in Stores /\ SamePlace(f, g) /\ SameRun(f, g) /\ g.status = f.status
        /\ g.streaming = f.streaming /\ ~g.stream /\ g.shut = f.shut /\ g.timer = f.timer
        /\ g.guard = f.guard
    BY <2>1 DEF Stores, SamePlace, SameRun
  <2>4. CASE d = g
    <3> HIDE DEF g
    <3> QED
      BY <1>3, <2>1, <2>3, <2>4 DEF ShowsEnd, SamePlace, SameRun
  <2>5. CASE e.type = "failed" /\ d = [h EXCEPT !.polls = @ \cup {P}]
    <3> HIDE DEF g
    <3>1. /\ h \in Stores /\ SamePlace(g, h) /\ SameRun(g, h) /\ h.status = g.status
          /\ h.streaming = g.streaming /\ ~h.stream /\ h.shut = g.shut /\ h.timer = g.timer
          /\ h.guard = g.guard
      BY <2>3 DEF Stores, SamePlace, SameRun
    <3>2. Lease(g, r) \in Leases
      BY <2>3, <1>0 DEF Lease, Leases, Stores
    <3>3. P \in Polls
      BY <3>2 DEF Polls
    <3>4. P = [lease |-> Lease(h, r), snap |-> Snapshot(r), kind |-> "failed"]
      BY <3>1 DEF SamePlace, SameRun, Lease
    <3> HIDE DEF h, P
    <3>5. h.polls \cup {P} \subseteq Polls
      BY <3>1, <3>3 DEF Stores
    <3>6. d \in Stores
      BY <3>1, <3>5, <2>5 DEF Stores
    <3>7. /\ d.polls = h.polls \cup {P} /\ d.view = h.view /\ d.loading = h.loading
          /\ d.cursor = h.cursor /\ SameRun(h, d) /\ d.status = h.status
          /\ d.streaming = h.streaming /\ ~d.stream /\ d.shut = h.shut /\ d.timer = h.timer
          /\ d.guard = h.guard
      BY <3>1, <2>5 DEF Stores, SameRun
    <3>8. P = [lease |-> Lease(d, r), snap |-> Snapshot(r), kind |-> "failed"]
      BY <3>4, <3>7 DEF SameRun, Lease
    <3>9. /\ status[r] = "failed"
          /\ d.polls = c.polls \cup {[lease |-> Lease(d, r), snap |-> Snapshot(r), kind |-> "failed"]}
      BY <2>1, <2>3, <2>5, <3>1, <3>7, <3>8 DEF SamePlace
    <3>10. /\ d.view = c.view /\ d.loading = c.loading /\ d.cursor = c.cursor
           /\ d.run = None /\ d.last = r /\ d.status \in Ends /\ ~d.streaming /\ ~d.stream
           /\ d.shut = c.shut \cup {r} /\ d.timer = NoLease /\ d.guard \in {c.guard, NoGuard}
           /\ d.epoch \notin Held(c.polls)
      BY <1>3, <2>1, <2>3, <3>1, <3>7 DEF SamePlace, SameRun
    <3> QED
      BY <1>3, <3>6, <3>9, <3>10 DEF ShowsEnd
  <2> QED
    BY <2>2, <2>4, <2>5
<1>4. CASE e.type \notin {"started", "waiting"} \cup Ends
  BY <1>4 DEF ApplyEvent, ShowsNothing, Ends
<1> QED
  BY <1>1, <1>2, <1>3, <1>4

LEMMA IngestsEvent ==
    ASSUME NEW c \in Stores, IsFiniteSet(c.polls), NEW i \in 1 .. Len(log), log[i] \in Events,
           log[i].type = "failed" => status[log[i].run] = "failed",
           Snapshot(log[i].run) \in Snaps,
           NEW d, d = IngestEvent(c, i)
    PROVE  \/ ShowsNothing(c, d)
           \/ NamesRun(c, d, log[i].run)
           \/ ShowsProgress(c, d, log[i].run)
           \/ ShowsEnd(c, d, log[i].run)
<1> DEFINE e == log[i]
           r == e.run
           b == SetActiveRun(c, r)
<1>0. r \in Runs /\ r # None
  BY NoneApart DEF Events
<1>1. /\ b \in Stores /\ SamePlace(c, b) /\ b.run = r
      /\ b.stream = c.stream /\ b.shut = c.shut /\ b.guard = c.guard
      /\ c.run = r => b = c
      /\ c.run = None => b.last = None /\ b.epoch \notin Held(c.polls) \cup {c.epoch}
  BY <1>0, BindsRun
<1>2. CASE d = c
  BY <1>2 DEF ShowsNothing
<1>3. CASE /\ e.type = "created" /\ c.run \in {None, r}
           /\ d = ScheduleReconciliation([b EXCEPT !.status = "pending"])
  <2> DEFINE a == [b EXCEPT !.status = "pending"]
  <2>1. /\ a \in Stores /\ SamePlace(b, a) /\ SameRun(b, a) /\ a.status = "pending"
        /\ a.stream = b.stream /\ a.shut = b.shut /\ a.guard = b.guard
    <3> HIDE DEF b
    <3> QED
      BY <1>1 DEF Stores, SamePlace, SameRun, Statuses, Active
  <2>2. d = ScheduleReconciliation(a)
    BY <1>3
  <2> HIDE DEF a
  <2>3. /\ d \in Stores /\ SamePlace(a, d) /\ SameRun(a, d) /\ d.status = a.status
        /\ d.stream = a.stream /\ d.shut = a.shut /\ d.guard = a.guard /\ d.timer = Lease(d, d.run)
    BY <2>1, <2>2, Schedules
  <2> HIDE DEF b
  <2> QED
    BY <1>1, <1>3, <2>1, <2>3 DEF ShowsProgress, SamePlace, SameRun
<1>4. CASE c.run = r /\ d = ApplyEvent(b, e)
  <2>1. d = ApplyEvent(c, e)
    BY <1>1, <1>4
  <2> QED
    BY <1>4, <2>1, AppliesEvent
<1>5. CASE c.run # r /\ CanBootstrap(c, e) /\ d = ApplyEvent(b, e)
  <2>1. c.run = None /\ c.streaming /\ e.type \notin Ends
    BY <1>5 DEF CanBootstrap
  <2>2. IsFiniteSet(b.polls)
    BY <1>1 DEF SamePlace
  <2>3. ShowsNothing(b, d) \/ ShowsProgress(b, d, r)
    <3> HIDE DEF b
    <3> QED
      BY <1>1, <1>5, <2>1, <2>2, AppliesEvent
  <2>4. CASE ShowsNothing(b, d)
    BY <2>1, <2>4 DEF ShowsNothing, NamesRun
  <2>5. CASE ShowsProgress(b, d, r)
    <3> HIDE DEF b
    <3> QED
      BY <1>1, <2>1, <2>5 DEF ShowsProgress, SamePlace, SameRun
  <2> QED
    BY <2>3, <2>4, <2>5
<1>6. \/ d = c
      \/ /\ e.type = "created" /\ c.run \in {None, r}
         /\ d = ScheduleReconciliation([b EXCEPT !.status = "pending"])
      \/ c.run = r /\ d = ApplyEvent(b, e)
      \/ c.run # r /\ CanBootstrap(c, e) /\ d = ApplyEvent(b, e)
  BY DEF IngestEvent
<1> QED
  BY <1>2, <1>3, <1>4, <1>5, <1>6

(* The accepted run is bound and watched, or an end was shown meanwhile. *)
LEMMA AppliesStart ==
    ASSUME NEW c \in Stores, IsFiniteSet(c.polls), NEW r \in Runs, NEW d, d = ApplyStart(c, r)
    PROVE  \/ d = c /\ c.run = None /\ c.status \in Ends
           \/ d = c /\ c.run = r /\ c.status # "none"
           \/ /\ d \in Stores /\ SamePlace(c, d) /\ d.run = r /\ d.status = "pending"
              /\ d.shut = c.shut /\ d.timer = Lease(d, r) /\ d.stream = c.stream /\ d.guard = c.guard
              /\ c.run = r => SameRun(c, d)
              /\ c.run # r => d.last = None /\ d.epoch \notin Held(c.polls) \cup {c.epoch}
<1> DEFINE b == SetActiveRun(c, r)
           a == [b EXCEPT !.status = "pending", !.streaming = TRUE, !.waiting = FALSE]
<1>1. CASE d = ScheduleReconciliation(a)
  <2>1. /\ b \in Stores /\ SamePlace(c, b) /\ b.run = r
        /\ b.stream = c.stream /\ b.shut = c.shut /\ b.guard = c.guard
        /\ c.run = r => b = c
        /\ c.run # r => b.last = None /\ b.epoch \notin Held(c.polls) \cup {c.epoch}
    BY BindsRun, NoneApart
  <2> HIDE DEF b
  <2>2. /\ a \in Stores /\ SamePlace(b, a) /\ SameRun(b, a) /\ a.status = "pending"
        /\ a.stream = b.stream /\ a.shut = b.shut /\ a.guard = b.guard
    BY <2>1 DEF Stores, SamePlace, SameRun, Statuses, Active
  <2> HIDE DEF a
  <2>3. /\ d \in Stores /\ SamePlace(a, d) /\ SameRun(a, d) /\ d.status = a.status
        /\ d.stream = a.stream /\ d.shut = a.shut /\ d.guard = a.guard /\ d.timer = Lease(d, d.run)
    BY <1>1, <2>2, Schedules
  <2> QED
    BY <2>1, <2>2, <2>3 DEF SamePlace, SameRun
<1>2. \/ d = c /\ c.run = None /\ c.status \in Ends
      \/ d = c /\ c.run = r /\ c.status # "none"
      \/ d = ScheduleReconciliation(a)
  BY DEF ApplyStart
<1> QED
  BY <1>1, <1>2

-----------------------------------------------------------------------------
(* The backend.                                                              *)

LEMMA SnapshotReads ==
    ASSUME Shapes, LogAgrees, NEW r \in Runs
    PROVE  /\ Snapshot(r) \in Snaps /\ Snapshot(r).status = status[r]
           /\ Snapshot(r).at <= Len(log)
<1> DEFINE W(i) == /\ log[i] = [run |-> r, type |-> "waiting"]
                   /\ \A j \in i + 1 .. Len(log) : log[j].run # r
<1>1. status[r] \in Statuses /\ Len(log) \in Nat
  BY DEF Shapes
<1>2. CASE status[r] # "waiting"
  BY <1>1, <1>2 DEF Snapshot, Snaps
<1>3. CASE status[r] = "waiting"
  <2>1. \E i \in 1 .. Len(log) : W(i)
    BY <1>3 DEF LogAgrees
  <2>2. (CHOOSE i \in 1 .. Len(log) : W(i)) \in 1 .. Len(log)
    BY <2>1
  <2> DEFINE at == CHOOSE i \in 1 .. Len(log) : W(i)
  <2>3. Snapshot(r) = [status |-> status[r], at |-> at]
    BY <1>3 DEF Snapshot
  <2> HIDE DEF W, at
  <2>4. at \in 1 .. Len(log)
    BY <2>2 DEF at
  <2> QED
    BY <1>1, <2>3, <2>4 DEF Snaps
<1> QED
  BY <1>2, <1>3

(* What the backend does keeps its log in agreement with the runs. *)
BackendAgrees ==
    /\ status \in [Runs -> Statuses] /\ log \in Seq(Events)
    /\ \A i \in 1 .. Len(log) : log[i].type \in Ends => status[log[i].run] = log[i].type
    /\ \A r \in Runs : status[r] = "waiting" =>
          \E i \in 1 .. Len(log) : /\ log[i] = [run |-> r, type |-> "waiting"]
                                   /\ \A j \in i + 1 .. Len(log) : log[j].run # r

LEMMA Moves ==
    ASSUME BackendAgrees, NEW r \in Runs, NEW s \in Statuses, NEW type \in Types,
           status[r] \notin Ends, type \in Ends => s = type, s = "waiting" => type = "waiting",
           Move(r, s, type)
    PROVE  BackendAgrees' /\ Len(log') = Len(log) + 1 /\ status' = [status EXCEPT ![r] = s]
<1> DEFINE e == [run |-> r, type |-> type]
           n == Len(log) + 1
<1>1. status' = [status EXCEPT ![r] = s] /\ log' = Append(log, e)
  BY DEF Move, Emit
<1>2. log \in Seq(Events) /\ e \in Events /\ Len(log) \in Nat /\ status \in [Runs -> Statuses]
  BY DEF BackendAgrees, Events
<1>3. /\ status' \in [Runs -> Statuses] /\ log' \in Seq(Events) /\ Len(log') = n
      /\ \A i \in 1 .. Len(log) : log'[i] = log[i] /\ log[i] \in Events
      /\ log'[n] = e
  BY <1>1, <1>2
<1>4. ASSUME NEW i \in 1 .. n, log'[i].type \in Ends
      PROVE  status'[log'[i].run] = log'[i].type
  <2>1. CASE i = n
    BY <1>1, <1>2, <1>3, <1>4, <2>1
  <2>2. CASE i # n
    <3>1. i \in 1 .. Len(log) /\ log'[i] = log[i] /\ log[i].run \in Runs
      BY <1>2, <1>3, <2>2 DEF Events
    <3>2. status[log[i].run] = log[i].type /\ log[i].run # r
      BY <1>4, <3>1 DEF BackendAgrees
    <3> QED
      BY <1>1, <1>2, <3>1, <3>2
  <2> QED
    BY <2>1, <2>2
<1>5. ASSUME NEW q \in Runs, status'[q] = "waiting"
      PROVE  \E i \in 1 .. n : /\ log'[i] = [run |-> q, type |-> "waiting"]
                               /\ \A j \in i + 1 .. n : log'[j].run # q
  <2>1. CASE q = r
    <3>1. s = "waiting" /\ log'[n] = [run |-> q, type |-> "waiting"]
      BY <1>1, <1>2, <1>3, <1>5, <2>1
    <3> QED
      BY <1>2, <3>1
  <2>2. CASE q # r
    <3>1. status[q] = "waiting"
      BY <1>1, <1>2, <1>5, <2>2
    <3>2. PICK i \in 1 .. Len(log) : /\ log[i] = [run |-> q, type |-> "waiting"]
                                     /\ \A j \in i + 1 .. Len(log) : log[j].run # q
      BY <3>1 DEF BackendAgrees
    <3>3. log'[i] = [run |-> q, type |-> "waiting"] /\ i \in 1 .. n
      BY <1>2, <1>3, <3>2
    <3>4. ASSUME NEW j \in i + 1 .. n PROVE log'[j].run # q
      <4>1. CASE j = n
        BY <1>3, <2>2, <4>1
      <4>2. CASE j # n
        <5>1. j \in i + 1 .. Len(log) /\ log'[j] = log[j]
          BY <1>2, <1>3, <3>2, <4>2
        <5> QED
          BY <3>2, <5>1
      <4> QED
        BY <4>1, <4>2
    <3> QED
      BY <3>3, <3>4
  <2> QED
    BY <2>1, <2>2
<1> QED
  BY <1>1, <1>3, <1>4, <1>5 DEF BackendAgrees

(* A step of the backend leaves the store with what it shows, and with the    *)
(* requests it awaits.                                                       *)
BackendOnly ==
    /\ UNCHANGED <<ui, submit, mending, load>>
    /\ \/ UNCHANGED cancel
       \/ cancel.pc = "asked" /\ cancel' = [cancel EXCEPT !.pc = "answered"]
    /\ left' \in Nat /\ left' <= left
    /\ post' \in [Runs -> {"none", "sent", "accepted", "refused", "done"}]
    /\ \A r \in Runs : post'[r] = "none" <=> post[r] = "none"
    /\ BackendAgrees' /\ Len(log') >= Len(log)
    /\ \A r \in Runs : post'[r] \in {"none", "sent"} => status'[r] = "none"

LEMMA BackendKeeps == ASSUME IInv, BackendOnly PROVE IInv'
<1> USE DEF IInv, BackendOnly
<1>1. /\ cancel'.lease = cancel.lease /\ cancel'.snap = cancel.snap
      /\ cancel'.pc # "idle" => cancel.pc # "idle"
      /\ cancel' \in [pc : {"idle", "asked", "answered", "read"}, lease : Leases, snap : Snaps]
  BY DEF Shapes
<1>2. Shapes'
  BY <1>1 DEF Shapes, BackendAgrees
<1>3. Bounds'
  <2>1. Len(log) \in Nat /\ Len(log') \in Nat
    BY <1>2 DEF Shapes
  <2>2. /\ ui.view \in Nat /\ left \in Nat /\ ui.cursor \in Nat /\ ui.guard.floor \in Nat
        /\ load.at \in Nat /\ cancel.snap.at \in Nat
        /\ \A p \in ui.polls : p.snap.at \in Nat
    BY DEF Shapes, Stores, Polls, Snaps
  <2>3. ui.view + left' <= MaxIncidents + 1
    BY <2>2, ChatAssumption DEF Bounds
  <2>4. \A p \in ui.polls : p.snap.at <= Len(log') /\ p.lease.view <= ui.view
    BY <2>1, <2>2 DEF Bounds
  <2>5. /\ ui.cursor <= Len(log') /\ ui.guard.floor <= Len(log') /\ load.at <= Len(log')
        /\ cancel.snap.at <= Len(log')
    BY <2>1, <2>2 DEF Bounds
  <2> QED
    BY <1>1, <2>3, <2>4, <2>5 DEF Bounds
<1>4. LogAgrees'
  BY DEF LogAgrees, BackendAgrees
<1>5. StoreAgrees'
  BY DEF StoreAgrees
<1>6. LeasesAgree'
  <2>1. submit.run \in Runs \cup {None}
    BY DEF Shapes
  <2> QED
    BY <1>1, <2>1 DEF LeasesAgree
<1>7. Listing'
  BY <1>1 DEF Listing
<1>8. Attended'
  BY DEF Attended, ByTimer, JustNamed
<1>9. LeasesBound'
  BY <1>1 DEF LeasesBound, Bound, PollBound
<1>10. Rescued'
  <2>1. Used' = Used
    BY DEF Used
  <2>2. \A p \in ui.polls : p.lease.run \in Runs
    BY ZenonT(60) DEF Shapes, Stores, Polls, Leases, LeasesAgree
  <2> QED
    BY <2>1, <2>2 DEF Rescued
<1> QED
  BY <1>2, <1>3, <1>4, <1>5, <1>6, <1>7, <1>8, <1>9, <1>10

LEMMA BackendParts == IInv => BackendAgrees /\ \A r \in Runs : status[r] \in Statuses
BY DEF IInv, Shapes, LogAgrees, BackendAgrees

LEMMA BackendSteps == ASSUME IInv, Backend PROVE IInv'
<1>1. BackendAgrees /\ LogAgrees /\ Shapes
  BY BackendParts DEF IInv
<1>2. PICK r \in Runs : RunEnds(r) \/ RunGoesOn(r)
  BY DEF Backend
<1>3. PICK s \in Statuses, type \in Types :
         /\ Move(r, s, type)
         /\ status[r] \notin Ends \cup {"none"}
         /\ type \in Ends => s = type
         /\ s = "waiting" => type = "waiting"
  BY <1>2 DEF RunEnds, RunGoesOn, Statuses, Types, Ends, Active
<1>4. BackendAgrees' /\ Len(log') = Len(log) + 1 /\ status' = [status EXCEPT ![r] = s]
  BY <1>1, <1>3, Moves
<1>5. Len(log) \in Nat
  BY <1>1 DEF Shapes
<1>6. \A q \in Runs : post[q] \in {"none", "sent"} => status'[q] = "none"
  BY <1>1, <1>3, <1>4 DEF LogAgrees, Shapes
<1>7. BackendOnly
  BY <1>1, <1>4, <1>5, <1>6 DEF Backend, BackendOnly, Shapes
<1> QED
  BY <1>7, BackendKeeps

LEMMA StartSteps ==
    ASSUME IInv, NEW r \in Runs, StartThreadInteraction(r) PROVE IInv'
<1>1. BackendAgrees /\ LogAgrees /\ Shapes
  BY BackendParts DEF IInv
<1>2. status[r] = "none"
  BY <1>1 DEF StartThreadInteraction, LogAgrees
<1>3. /\ BackendAgrees' /\ Len(log') >= Len(log)
      /\ \A q \in Runs : q # r => status'[q] = status[q]
  <2>1. Len(log) \in Nat
    BY <1>1 DEF Shapes
  <2>2. CASE Move(r, "pending", "created")
    <3>1. BackendAgrees' /\ Len(log') = Len(log) + 1 /\ status' = [status EXCEPT ![r] = "pending"]
      BY <1>1, <1>2, <2>2, Moves DEF Statuses, Active, Types, Ends
    <3> QED
      BY <1>1, <2>1, <3>1 DEF Shapes
  <2>3. CASE UNCHANGED <<status, log>>
    BY <1>1, <2>1, <2>3 DEF BackendAgrees
  <2> QED
    BY <2>2, <2>3 DEF StartThreadInteraction
<1>4. /\ post[r] = "sent"
      /\ post' \in [Runs -> {"none", "sent", "accepted", "refused", "done"}]
      /\ \A q \in Runs : q # r => post'[q] = post[q]
      /\ post'[r] \in {"refused", "accepted"}
  BY <1>1 DEF StartThreadInteraction, Shapes
<1>5. BackendOnly
  BY <1>1, <1>3, <1>4 DEF StartThreadInteraction, BackendOnly, Shapes, LogAgrees
<1> QED
  BY <1>5, BackendKeeps

LEMMA PostFailsSteps == ASSUME IInv, NEW r \in Runs, PostFails(r) PROVE IInv'
<1>1. BackendAgrees /\ LogAgrees /\ Shapes
  BY BackendParts DEF IInv
<1>2. /\ post[r] \in {"sent", "accepted"}
      /\ post' \in [Runs -> {"none", "sent", "accepted", "refused", "done"}]
      /\ \A q \in Runs : q # r => post'[q] = post[q]
      /\ post'[r] = "refused"
  BY <1>1 DEF PostFails, Shapes
<1>3. left' \in Nat /\ left' <= left /\ Len(log) \in Nat
  BY <1>1 DEF PostFails, Incident, Shapes
<1>4. BackendAgrees'
  BY <1>1 DEF BackendAgrees, PostFails
<1>5. BackendOnly
  BY <1>1, <1>2, <1>3, <1>4 DEF PostFails, BackendOnly, LogAgrees
<1> QED
  BY <1>5, BackendKeeps

LEMMA CancelRunSteps == ASSUME IInv, CancelRun PROVE IInv'
<1>1. BackendAgrees /\ LogAgrees /\ Shapes /\ LeasesAgree
  BY BackendParts DEF IInv
<1> DEFINE r == cancel.lease.run
<1>2. r \in Runs
  BY <1>1 DEF CancelRun, LeasesAgree, Shapes, Leases
<1>3. Len(log) \in Nat
  BY <1>1 DEF Shapes
<1>4. /\ BackendAgrees' /\ Len(log') >= Len(log)
      /\ \A q \in Runs : status[q] = "none" => status'[q] = "none"
  <2>1. CASE UNCHANGED <<status, log>>
    BY <1>1, <1>3, <2>1 DEF BackendAgrees
  <2>2. ASSUME NEW s \in {"cancelling", "cancelled"}, Move(r, s, s),
               status[r] \in {"running", "pending", "waiting"}
        PROVE  /\ BackendAgrees' /\ Len(log') = Len(log) + 1
               /\ status' = [status EXCEPT ![r] = s]
    BY <1>1, <1>2, <2>2, Moves DEF Statuses, Active, Types, Ends
  <2>3. ASSUME NEW s \in {"cancelling", "cancelled"}, Move(r, s, s),
               status[r] \in {"running", "pending", "waiting"}
        PROVE  /\ BackendAgrees' /\ Len(log') >= Len(log)
               /\ \A q \in Runs : status[q] = "none" => status'[q] = "none"
    BY <1>1, <1>2, <1>3, <2>2, <2>3 DEF Shapes
  <2> QED
    BY <2>1, <2>3 DEF CancelRun
<1>5. BackendOnly
  BY <1>1, <1>3, <1>4 DEF CancelRun, BackendOnly, Shapes, LogAgrees
<1> QED
  BY <1>5, BackendKeeps

-----------------------------------------------------------------------------
(* What the parts of the invariant need of a step of the store.              *)

LEMMA LogStays == ASSUME LogAgrees, UNCHANGED <<status, log, post>> PROVE LogAgrees'
BY DEF LogAgrees

(* The shown run stays, or its epoch is one that no lease has which stays. *)
Rebinds ==
    \/ ui'.run = ui.run /\ ui'.epoch = ui.epoch /\ ui'.last \in {ui.last, None}
    \/ ui'.epoch \notin Held(ui.polls \cap ui'.polls)

LEMMA BoundKeeps ==
    ASSUME LeasesBound, LeasesAgree, Rebinds, ui'.view = ui.view,
           Bound(ui.timer)',
           cancel'.lease = cancel.lease \/ Bound(cancel.lease)',
           load'.pc = "replaying" =>
              (load.pc = "replaying" /\ load'.lease = load.lease) \/ Bound(load.lease)',
           \A p \in ui'.polls : p \in ui.polls \/ PollBound(p)',
           \A p \in ui.polls : p \in ui'.polls /\ p.kind = "rescue"
                               /\ submit.pc = "rescuing" /\ submit.run = p.lease.run =>
              \/ submit'.pc = "rescuing" /\ submit'.run = submit.run
              \/ ui'.run # None
              \/ ui'.last # p.lease.run
    PROVE  LeasesBound'
<1>1. Bound(cancel.lease)'
  BY DEF LeasesBound, Bound, Rebinds, Held
<1>2. load'.pc = "replaying" => Bound(load.lease)'
  BY DEF LeasesBound, Bound, Rebinds, Held
<1>3. ASSUME NEW p \in ui'.polls PROVE PollBound(p)'
  <2>1. SUFFICES ASSUME p \in ui.polls PROVE PollBound(p)'
    OBVIOUS
  <2>2. PollBound(p) /\ p.lease.run # None
    BY <2>1 DEF LeasesBound, LeasesAgree
  <2>3. CASE p.lease.epoch # ui'.epoch
    BY <2>3 DEF PollBound, Bound, LeaseCurrent
  <2>4. CASE ui'.run = ui.run /\ ui'.epoch = ui.epoch /\ ui'.last \in {ui.last, None}
    BY <2>1, <2>2, <2>4, <1>3 DEF PollBound, Bound, LeaseCurrent
  <2>5. p.lease.epoch \in Held(ui.polls \cap ui'.polls)
    BY <1>3, <2>1 DEF Held
  <2> QED
    BY <2>3, <2>4, <2>5 DEF Rebinds
<1> QED
  BY <1>1, <1>2, <1>3 DEF LeasesBound

LEMMA RescuedKeeps ==
    ASSUME Rescued, Shapes, LeasesAgree,
           \A r \in Runs : post'[r] = "none" <=> post[r] = "none",
           \A p \in ui'.polls : p.kind = "rescue" => p \in ui.polls,
           submit'.pc \in {"posted", "following"} =>
              submit.pc \in {"posted", "following"} /\ submit'.run = submit.run
    PROVE  Rescued'
<1>1. Used' = Used
  BY DEF Used
<1>2. \A p \in ui.polls : p.lease.run \in Runs
  BY SMTT(30) DEF Shapes, Stores, Polls, Leases, LeasesAgree
<1> QED
  BY <1>1, <1>2 DEF Rescued

(* A store that is like another but for what no part of the invariant is about. *)
Alike(c, d) ==
    /\ d.view = c.view /\ d.epoch = c.epoch /\ d.run = c.run /\ d.last = c.last
    /\ d.status = c.status /\ d.streaming = c.streaming /\ d.loading = c.loading
    /\ d.error = c.error /\ d.stream = c.stream /\ d.timer = c.timer /\ d.polls = c.polls
    /\ d.guard = c.guard /\ d.shut = c.shut

LEMMA Ingests ==
    ASSUME IInv, NEW c \in Stores, Alike(ui, c), c.cursor <= Len(log),
           NEW i \in 1 .. Len(log), ui' = IngestEvent(c, i),
           load.pc # "listing", ui.run = None /\ ui.streaming => submit.pc = "posted",
           UNCHANGED <<status, log, post, submit, mending, cancel, left>>,
           load' \in [pc : {"idle", "listing", "replaying"},
                      run : Runs \cup {None}, lease : Leases, at : Nat],
           load'.pc = load.pc, load'.lease = load.lease, load'.run = load.run,
           load'.at <= Len(log)
    PROVE  IInv'
<1> DEFINE r == log[i].run
           d == ui'
           P == [lease |-> Lease(d, r), snap |-> Snapshot(r), kind |-> "failed"]
<1>0. /\ Shapes /\ Bounds /\ LogAgrees /\ StoreAgrees /\ LeasesAgree
      /\ Listing /\ Attended /\ LeasesBound /\ Rescued
  BY DEF IInv
<1>1. log[i] \in Events /\ r \in Runs /\ r # None /\ log \in Seq(Events) /\ Len(log) \in Nat
  <2>1. log \in Seq(Events)
    BY <1>0 DEF Shapes
  <2>2. log[i] \in Events
    BY <2>1
  <2> QED
    BY <2>1, <2>2, NoneApart DEF Events
<1>2. Snapshot(r) \in Snaps /\ Snapshot(r).status = status[r] /\ Snapshot(r).at <= Len(log)
  BY <1>0, <1>1, SnapshotReads
<1>3. IsFiniteSet(c.polls) /\ (log[i].type = "failed" => status[r] = "failed")
  BY <1>0, <1>1 DEF Shapes, Alike, LogAgrees, Ends
<1>4. ShowsNothing(c, d) \/ NamesRun(c, d, r) \/ ShowsProgress(c, d, r) \/ ShowsEnd(c, d, r)
  BY <1>1, <1>2, <1>3, IngestsEvent
<1>5. /\ d \in Stores /\ d.view = ui.view /\ d.loading = ui.loading /\ d.cursor = c.cursor
      /\ d.guard \in {ui.guard, NoGuard}
      /\ \/ /\ d.polls = ui.polls
            /\ \/ SameRun(ui, d) /\ d.status = ui.status /\ d.streaming = ui.streaming
                  /\ d.error = ui.error /\ d.stream = ui.stream /\ d.timer = ui.timer
                  /\ d.shut = ui.shut
               \/ /\ ui.run = None /\ ui.streaming /\ d.run = r /\ d.last = None
                  /\ d.epoch \notin Held(ui.polls) \cup {ui.timer.epoch} /\ d.status = ui.status
                  /\ d.streaming = ui.streaming /\ d.timer = ui.timer /\ d.shut = ui.shut
               \/ ui.run = r /\ SameRun(ui, d) /\ d.status \in Active /\ d.timer = Lease(d, r)
               \/ /\ ui.run = None /\ d.run = r /\ d.last = None /\ d.status \in Active
                  /\ d.epoch \notin Held(ui.polls) /\ d.timer = Lease(d, r)
         \/ /\ ui.run = r /\ d.run = None /\ d.last = r /\ d.status \in Ends
            /\ ~d.streaming /\ d.timer = NoLease /\ d.epoch \notin Held(ui.polls)
            /\ d.shut = ui.shut \cup {r}
            /\ \/ d.polls = ui.polls
               \/ status[r] = "failed" /\ d.polls = ui.polls \cup {P}
  <2>1. CASE ShowsNothing(c, d)
    BY <2>1 DEF ShowsNothing, Alike, SameRun
  <2>2. CASE NamesRun(c, d, r)
    <3>1. c.run # r /\ d = SetActiveRun(c, r)
      BY <1>1, <2>2 DEF NamesRun
    <3>2. /\ d \in Stores /\ SamePlace(c, d) /\ d.run = r
          /\ d.status = c.status /\ d.streaming = c.streaming
          /\ d.timer = c.timer /\ d.shut = c.shut /\ d.guard = c.guard
          /\ d.last = None /\ d.epoch \notin Held(c.polls) \cup {c.epoch, c.timer.epoch}
      BY <1>1, <1>3, <3>1, BindsRun
    <3> QED
      BY <2>2, <3>2 DEF NamesRun, Alike, SamePlace
  <2>3. CASE ShowsProgress(c, d, r)
    BY <2>3 DEF ShowsProgress, Alike, SamePlace, SameRun, Active
  <2>4. CASE ShowsEnd(c, d, r)
    BY <2>4 DEF ShowsEnd, Alike
  <2> QED
    BY <1>4, <2>1, <2>2, <2>3, <2>4
<1>6. /\ Shapes' /\ Bounds'
  <2>1. IsFiniteSet(d.polls)
    <3>1. IsFiniteSet(ui.polls)
      BY <1>0 DEF Shapes
    <3> HIDE DEF P
    <3>2. IsFiniteSet(ui.polls \cup {P})
      BY <3>1, FS_AddElement
    <3> QED
      BY <1>5, <3>1, <3>2
  <2>2. Shapes'
    BY <1>0, <1>5, <2>1 DEF Shapes
  <2>3. d.guard.floor <= Len(log) /\ ui.view \in Nat
    BY SMTT(30), <1>0, <1>1, <1>5 DEF Bounds, NoGuard, Shapes, Stores
  <2>4. d.timer.view <= ui.view
    BY <1>0, <1>5, <2>3 DEF Bounds, SameRun, Lease, NoLease
  <2>5. \A p \in d.polls : p.snap.at <= Len(log) /\ p.lease.view <= ui.view
    <3>1. P.snap.at <= Len(log) /\ P.lease.view <= ui.view
      BY <1>2, <1>5, <2>3 DEF Lease
    <3> HIDE DEF P
    <3> QED
      BY <1>0, <1>5, <3>1 DEF Bounds
  <2> QED
    BY <1>0, <1>5, <2>2, <2>3, <2>4, <2>5 DEF Bounds
<1>7. LogAgrees'
  BY <1>0, LogStays
<1>8. StoreAgrees'
  BY <1>0, <1>1, <1>5 DEF StoreAgrees, SameRun, Active, Ends
<1>9. LeasesAgree'
  <2>1. d.timer # NoLease => d.timer.run # None
    BY <1>0, <1>1, <1>5 DEF LeasesAgree, SameRun, Lease
  <2>2. \A p \in d.polls : p.lease.run # None
    BY <1>0, <1>1, <1>5 DEF LeasesAgree, Lease
  <2> QED
    BY <1>0, <2>1, <2>2 DEF LeasesAgree
<1>10. Listing'
  BY <1>0 DEF Listing
<1>11. Attended'
  <2>1. CASE d.timer = Lease(d, r) /\ d.run = r
    BY <2>1 DEF Attended, ByTimer, LeaseCurrent, Lease
  <2>2. CASE d.run = None
    BY <2>2 DEF Attended
  <2>3. CASE d.run # None /\ SameRun(ui, d) /\ d.status = ui.status /\ d.streaming = ui.streaming
             /\ d.error = ui.error /\ d.timer = ui.timer /\ d.shut = ui.shut /\ d.polls = ui.polls
    BY <1>0, <1>5, <2>3 DEF Attended, ByTimer, JustNamed, LeaseCurrent, SameRun
  <2>4. CASE ui.run = None /\ ui.streaming /\ d.status = ui.status /\ d.streaming = ui.streaming
    BY <1>0, <2>4 DEF Attended, JustNamed, StoreAgrees
  <2> QED
    BY <1>5, <2>1, <2>2, <2>3, <2>4 DEF SameRun
<1>12. LeasesBound'
  <2>1. Rebinds
    BY <1>0, <1>5 DEF Rebinds, SameRun, Held
  <2>2. Bound(ui.timer)'
    BY SMTT(30), <1>0, <1>5 DEF LeasesBound, Bound, SameRun, Lease, NoLease, Shapes, Stores
  <2>3. \A p \in d.polls : p \in ui.polls \/ PollBound(p)'
    BY <1>2, <1>5 DEF PollBound, Ends
  <2> QED
    BY <1>0, <1>5, <2>1, <2>2, <2>3, BoundKeeps
<1>13. Rescued'
  BY <1>0, <1>5, RescuedKeeps
<1> QED
  BY <1>6, <1>7, <1>8, <1>9, <1>10, <1>11, <1>12, <1>13 DEF IInv

(* A step that leaves the shown run, its status and what will bring its news: *)
(* a timer or a poll is dropped only when its lease does not count, or when   *)
(* it is not the timer that made the poll.                                   *)
PostGoesOn ==
    /\ post' \in [Runs -> {"none", "sent", "accepted", "refused", "done"}]
    /\ \A r \in Runs : /\ post'[r] = "none" <=> post[r] = "none"
                       /\ post'[r] = "sent" => post[r] = "sent"

(* The timer is set again to the lease of its poll. *)
Retimed ==
    \E p \in ui.polls : p.kind = "timer" /\ LeaseCurrent(ui, p.lease) /\ ui'.timer = p.lease

StoreStill ==
    /\ ui' \in Stores
    /\ ui'.view = ui.view /\ ui'.epoch = ui.epoch /\ ui'.run = ui.run /\ ui'.last = ui.last
    /\ \/ ui'.timer = ui.timer
       \/ ui'.timer = NoLease /\ (ui.run = None \/ ~LeaseCurrent(ui, ui.timer))
       \/ Retimed
    /\ ui'.polls \subseteq ui.polls
    /\ \A p \in ui.polls \ ui'.polls :
          p.kind # "timer" \/ ui.run = None \/ ~LeaseCurrent(ui, p.lease) \/ Retimed
    /\ ui'.status = ui.status /\ ui'.guard = ui.guard
    /\ ui'.shut = ui.shut /\ ui'.cursor <= Len(log)
    /\ ui'.loading <=> load'.pc # "idle"
    /\ ui'.streaming => ui.streaming
    /\ ui.run = None /\ ui'.streaming =>
          \/ submit'.pc = "posted"
          \/ submit'.pc = "idle" /\ ~ui'.stream /\ load'.pc = "idle"
    /\ ui.run # None /\ JustNamed =>
          \/ ui'.streaming /\ submit'.pc = "posted"
          \/ ui'.error /\ submit'.pc = "idle"

SubmitStill ==
    /\ submit' \in [pc : {"idle", "posted", "following", "rescuing", "closing"},
                    run : Runs \cup {None}, lease : Leases, broken : BOOLEAN]
    /\ submit'.lease.view <= ui.view
    /\ submit'.pc \in {"posted", "following"} => submit.pc \in {"posted", "following"}
    /\ submit'.pc = "rescuing" => submit.pc = "rescuing"
    /\ submit'.pc \in {"posted", "following", "rescuing"} => submit'.run = submit.run
    /\ submit'.pc \in {"following", "rescuing"} => submit'.lease.run = submit'.run
    /\ submit.pc = "rescuing" =>
          submit'.pc = "rescuing" \/ \E p \in ui.polls \ ui'.polls : Rescues(p)
    /\ submit'.pc # "idle" => load'.pc = "idle"
    /\ mending' \subseteq Failures /\ \A m \in mending' : m.view <= ui.view
    /\ left' \in Nat /\ left' <= left

CancelStill ==
    /\ cancel' \in [pc : {"idle", "asked", "answered", "read"}, lease : Leases, snap : Snaps]
    /\ cancel'.pc # "idle" => cancel'.lease.run # None
    /\ \/ cancel'.lease = cancel.lease \/ cancel'.lease = NoLease
       \/ cancel'.lease = Lease(ui, ui.run) /\ ui.run # None
    /\ cancel'.snap.at <= Len(log)

LoadStill ==
    /\ load' \in [pc : {"idle", "listing", "replaying"},
                  run : Runs \cup {None}, lease : Leases, at : Nat]
    /\ load'.lease \in {load.lease, NoLease} /\ load'.at <= Len(log)
    /\ load'.pc = "replaying" =>
          load.pc = "replaying" /\ load'.run = load.run /\ load'.lease = load.lease
    /\ load'.pc = "listing" => load.pc = "listing" /\ ~ui'.stream

Still ==
    /\ UNCHANGED <<status, log>> /\ PostGoesOn
    /\ StoreStill /\ SubmitStill /\ CancelStill /\ LoadStill

LEMMA LogGoesOn == ASSUME LogAgrees, UNCHANGED <<status, log>>, PostGoesOn PROVE LogAgrees'
<1>1. \A r \in Runs : post'[r] \in {"none", "sent"} => post[r] \in {"none", "sent"}
  BY DEF PostGoesOn
<1> QED
  BY <1>1 DEF LogAgrees

LEMMA StillKeeps == ASSUME IInv, Still PROVE IInv'
<1>0. /\ Shapes /\ Bounds /\ LogAgrees /\ StoreAgrees /\ LeasesAgree
      /\ Listing /\ Attended /\ LeasesBound /\ Rescued
  BY DEF IInv
<1>1. /\ UNCHANGED <<status, log>> /\ PostGoesOn
      /\ StoreStill /\ SubmitStill /\ CancelStill /\ LoadStill
  BY DEF Still
<1>2. ui.view \in Nat \ {0} /\ left \in Nat /\ left' \in Nat
  BY <1>0, <1>1 DEF Shapes, Stores, SubmitStill
<1>3. Shapes'
  <2>1. IsFiniteSet(ui'.polls)
    BY <1>0, <1>1, FS_Subset DEF Shapes, StoreStill
  <2> QED
    BY <1>0, <1>1, <2>1 DEF Shapes, StoreStill, SubmitStill, CancelStill, LoadStill, PostGoesOn
<1>4. Bounds'
  <2>1. ui.view + left' <= MaxIncidents + 1
    BY <1>0, <1>1, <1>2, ChatAssumption DEF Bounds, SubmitStill
  <2>2. /\ submit'.lease.view <= ui.view /\ cancel'.lease.view <= ui.view
        /\ load'.lease.view <= ui.view
    BY <1>0, <1>1, <1>2 DEF Bounds, SubmitStill, CancelStill, LoadStill, NoLease, Lease
  <2>3. ui'.timer.view <= ui.view
    BY <1>0, <1>1, <1>2 DEF Bounds, StoreStill, Retimed, NoLease
  <2> QED
    BY <1>0, <1>1, <2>1, <2>2, <2>3 DEF Bounds, StoreStill, SubmitStill, CancelStill, LoadStill
<1>5. LogAgrees'
  BY <1>0, <1>1, LogGoesOn
<1>6. StoreAgrees'
  BY <1>0, <1>1 DEF StoreAgrees, StoreStill, SubmitStill
<1>7. LeasesAgree'
  <2>1. submit.run \in Runs \cup {None}
    BY <1>0 DEF Shapes
  <2>2. ui'.timer # NoLease => ui'.timer.run # None
    BY <1>0, <1>1 DEF LeasesAgree, StoreStill, Retimed
  <2> QED
    BY <1>0, <1>1, <2>1, <2>2
    DEF LeasesAgree, StoreStill, SubmitStill, CancelStill, LoadStill, PostGoesOn
<1>8. Listing'
  <2>1. load.pc = "listing" => ~Retimed
    BY <1>0 DEF Listing, Retimed, LeaseCurrent
  <2>2. load.pc = "listing" =>
           /\ ui'.timer = NoLease /\ cancel'.lease.view # ui.view
           /\ \A p \in ui'.polls : p.lease.view # ui.view
    BY <1>0, <1>1, <1>2, <2>1 DEF Listing, StoreStill, CancelStill, NoLease
  <2> QED
    BY <1>0, <1>1, <2>2 DEF Listing, StoreStill, LoadStill
<1>9. Attended'
  <2>1. SUFFICES ASSUME ui.run \notin {None} \cup ui.shut PROVE (ByTimer \/ JustNamed)'
    BY <1>1 DEF Attended, StoreStill
  <2>2. CASE JustNamed
    BY <1>1, <2>1, <2>2 DEF JustNamed, StoreStill
  <2>3. CASE Retimed
    BY <1>1, <2>3 DEF ByTimer, LeaseCurrent, StoreStill, Retimed
  <2>4. CASE LeaseCurrent(ui, ui.timer) /\ ~Retimed
    BY <1>1, <2>1, <2>4 DEF ByTimer, LeaseCurrent, StoreStill
  <2>5. CASE (\E p \in ui.polls : p.kind = "timer" /\ LeaseCurrent(ui, p.lease)) /\ ~Retimed
    <3>1. PICK p \in ui.polls : p.kind = "timer" /\ LeaseCurrent(ui, p.lease)
      BY <2>5
    <3>2. p \in ui'.polls
      BY <1>1, <2>1, <2>5, <3>1 DEF StoreStill
    <3> QED
      BY <1>1, <3>1, <3>2 DEF ByTimer, LeaseCurrent, StoreStill
  <2> QED
    BY <1>0, <2>1, <2>2, <2>3, <2>4, <2>5 DEF Attended, ByTimer
<1>10. LeasesBound'
  <2>1. Rebinds /\ Bound(ui.timer)'
    BY <1>0, <1>1, <1>2 DEF Rebinds, LeasesBound, Bound, PollBound, StoreStill, Retimed, NoLease
  <2>2. cancel'.lease = cancel.lease \/ Bound(cancel.lease)'
    BY <1>1, <1>2 DEF CancelStill, Bound, NoLease, Lease, StoreStill
  <2>3. \A p \in ui.polls : p \in ui'.polls /\ p.kind = "rescue"
                              /\ submit.pc = "rescuing" /\ submit.run = p.lease.run =>
           submit'.pc = "rescuing" /\ submit'.run = submit.run
    <3>1. SUFFICES ASSUME NEW p \in ui.polls, p \in ui'.polls, p.kind = "rescue",
                          submit.run = p.lease.run,
                          NEW q \in ui.polls \ ui'.polls, Rescues(q)
                   PROVE  FALSE
      BY <1>1 DEF SubmitStill
    <3> QED
      BY <1>0, <3>1 DEF Rescued, Rescues
  <2> QED
    BY <1>0, <1>1, <2>1, <2>2, <2>3, BoundKeeps DEF StoreStill, SubmitStill, LoadStill
<1>11. Rescued'
  BY <1>0, <1>1, RescuedKeeps DEF StoreStill, SubmitStill, PostGoesOn
<1> QED
  BY <1>3, <1>4, <1>5, <1>6, <1>7, <1>8, <1>9, <1>10, <1>11 DEF IInv

-----------------------------------------------------------------------------
(* The steps that leave the shown run.                                       *)

LEMMA Parts ==
    IInv => /\ Shapes /\ Bounds /\ LogAgrees /\ StoreAgrees /\ LeasesAgree
            /\ Listing /\ Attended /\ LeasesBound /\ Rescued
BY DEF IInv

(* The shapes and bounds of the records that most steps leave alone. *)
LEMMA Shaped ==
    ASSUME IInv
    PROVE  /\ ui \in Stores /\ ui.view \in Nat \ {0} /\ ui.cursor <= Len(log)
           /\ submit \in [pc : {"idle", "posted", "following", "rescuing", "closing"},
                          run : Runs \cup {None}, lease : Leases, broken : BOOLEAN]
           /\ cancel \in [pc : {"idle", "asked", "answered", "read"}, lease : Leases, snap : Snaps]
           /\ load \in [pc : {"idle", "listing", "replaying"},
                        run : Runs \cup {None}, lease : Leases, at : Nat]
           /\ mending \subseteq Failures /\ (\A m \in mending : m.view <= ui.view) /\ left \in Nat
           /\ Len(log) \in Nat /\ load.at <= Len(log) /\ cancel.snap.at <= Len(log)
           /\ Saved \subseteq Runs /\ NoLease \in Leases
           /\ IsFiniteSet(ui.polls)
           /\ post \in [Runs -> {"none", "sent", "accepted", "refused", "done"}]
BY SMTT(30) DEF IInv, Shapes, Bounds, Stores, Saved, NoLease, Leases

LEMMA SubmitsQuiet ==
    /\ Quiet \in [pc : {"idle", "posted", "following", "rescuing", "closing"},
                  run : Runs \cup {None}, lease : Leases, broken : BOOLEAN]
    /\ Quiet.pc = "idle" /\ Quiet.lease = NoLease
BY DEF Quiet, NoLease, Leases

LEMMA SubmitCloses ==
    ASSUME IInv
    PROVE  /\ Closing \in [pc : {"idle", "posted", "following", "rescuing", "closing"},
                           run : Runs \cup {None}, lease : Leases, broken : BOOLEAN]
           /\ Closing.pc = "closing" /\ Closing.lease = NoLease
BY Shaped DEF Quiet, Closing, NoLease, Leases

(* A submission that throws is one more failure to recover from. *)
LEMMA FailuresGrow ==
    ASSUME IInv, mending' = mending \cup {[run |-> submit.run, view |-> ui.view]}
    PROVE  mending' \subseteq Failures /\ \A m \in mending' : m.view <= ui.view
BY Shaped DEF Failures

LEMMA LoadsNothing ==
    /\ NoLoad \in [pc : {"idle", "listing", "replaying"},
                   run : Runs \cup {None}, lease : Leases, at : Nat]
    /\ NoLoad.pc = "idle" /\ NoLoad.lease = NoLease /\ NoLoad.at = 0
BY DEF NoLoad, NoLease, Leases

LEMMA CancelsNothing ==
    /\ NoCancel \in [pc : {"idle", "asked", "answered", "read"}, lease : Leases, snap : Snaps]
    /\ NoCancel.pc = "idle" /\ NoCancel.lease = NoLease /\ NoCancel.snap.at = 0
BY DEF NoCancel, NoLease, Leases, Unread, Snaps, Statuses

LEMMA CancelStays == ASSUME IInv, UNCHANGED cancel PROVE CancelStill
BY Shaped DEF CancelStill, IInv, LeasesAgree

LEMMA LoadStays ==
    ASSUME IInv, UNCHANGED load, load.pc = "listing" => ~ui'.stream PROVE LoadStill
BY Shaped DEF LoadStill

LEMMA SubmitStays ==
    ASSUME IInv, UNCHANGED <<submit, mending>>, load'.pc \in {load.pc, "idle"},
           left' \in Nat, left' <= left
    PROVE  SubmitStill
BY Shaped DEF SubmitStill, IInv, StoreAgrees, LeasesAgree, Bounds

LEMMA PostStays == ASSUME IInv, UNCHANGED post PROVE PostGoesOn
BY Shaped DEF PostGoesOn

LEMMA Incidents == ASSUME IInv, Incident \/ UNCHANGED left PROVE left' \in Nat /\ left' <= left
BY Shaped DEF Incident

LEMMA DeliverSteps == ASSUME IInv, Deliver PROVE IInv'
<1> DEFINE c == [ui EXCEPT !.cursor = ui.cursor + 1]
           i == ui.cursor + 1
<1>1. /\ ui.stream /\ ui.cursor < Len(log) /\ ui' = IngestEvent(c, i)
      /\ UNCHANGED <<status, log, post, submit, mending, cancel, load, left>>
  BY DEF Deliver
<1>2. ui \in Stores /\ ui.cursor \in Nat /\ Len(log) \in Nat
  BY Shaped DEF Stores
<1>3. c \in Stores /\ Alike(ui, c) /\ c.cursor = i
  BY <1>2 DEF Stores, Alike
<1>4. i \in 1 .. Len(log) /\ i <= Len(log)
  BY <1>1, <1>2
<1>5. load.pc # "listing" /\ (ui.run = None /\ ui.streaming => submit.pc = "posted")
  BY <1>1 DEF IInv, Listing, StoreAgrees
<1> HIDE DEF c, i
<1> QED
  BY <1>1, <1>3, <1>4, <1>5, Ingests, Shaped

LEMMA ReplayEventSteps == ASSUME IInv, ReplayEvent PROVE IInv'
<1>1. PICK i \in Unreplayed : ui' = IngestEvent(ui, i) /\ load' = [load EXCEPT !.at = i]
  BY DEF ReplayEvent
<1>2. /\ load.pc = "replaying" /\ LeaseCurrent(ui, load.lease)
      /\ UNCHANGED <<status, log, post, submit, mending, cancel, left>>
  BY DEF ReplayEvent
<1>3. i \in 1 .. Len(log) /\ i <= Len(log) /\ i \in Nat
  BY Shaped DEF Unreplayed
<1>4. ui.run # None
  BY <1>2 DEF IInv, LeasesBound, LeasesAgree, Bound, LeaseCurrent
<1>5. ui \in Stores /\ Alike(ui, ui) /\ ui.cursor <= Len(log)
  BY Shaped DEF Alike
<1>6. /\ load' \in [pc : {"idle", "listing", "replaying"},
                    run : Runs \cup {None}, lease : Leases, at : Nat]
      /\ load'.pc = load.pc /\ load'.lease = load.lease /\ load'.run = load.run
      /\ load'.at <= Len(log)
  BY <1>1, <1>3, Shaped
<1> QED
  BY <1>1, <1>2, <1>3, <1>4, <1>5, <1>6, Ingests

LEMMA StreamBreaksSteps == ASSUME IInv, StreamBreaks PROVE IInv'
<1>1. /\ ui.stream /\ UNCHANGED <<status, log, post, mending, cancel, load>>
      /\ left' \in Nat /\ left' <= left
  BY Incidents DEF StreamBreaks
<1>2. /\ PostGoesOn /\ CancelStill /\ load.pc # "listing"
  BY <1>1, PostStays, CancelStays DEF IInv, Listing
<1>3. LoadStill
  BY <1>1, <1>2, LoadStays
<1>4. CASE /\ submit.pc \in {"posted", "following"}
           /\ submit' = [submit EXCEPT !.broken = TRUE] /\ ui' = [ui EXCEPT !.stream = FALSE]
  <2>1. SubmitStill
    BY <1>1, <1>4, Shaped DEF SubmitStill, IInv, StoreAgrees, LeasesAgree, Bounds
  <2>2. StoreStill
    BY <1>1, <1>4, Shaped DEF StoreStill, Stores, IInv, StoreAgrees, JustNamed
  <2> QED
    BY <1>1, <1>2, <1>3, <2>1, <2>2, StillKeeps DEF Still
<1>5. CASE /\ UNCHANGED submit
           /\ ui' = [ui EXCEPT !.stream = FALSE, !.error = TRUE]
  <2>1. SubmitStill
    BY <1>1, <1>5, SubmitStays
  <2>2. StoreStill
    BY <1>1, <1>5, Shaped DEF StoreStill, Stores, IInv, StoreAgrees, JustNamed
  <2> QED
    BY <1>1, <1>2, <1>3, <2>1, <2>2, StillKeeps DEF Still
<1> QED
  BY <1>4, <1>5 DEF StreamBreaks

LEMMA CloseSubmitSteps == ASSUME IInv, CloseSubmit PROVE IInv'
<1> DEFINE t == ui.streaming /\ ui.waiting
<1>1. /\ submit.pc = "closing" /\ submit' = Quiet
      /\ ui' = [ui EXCEPT !.durable = Saved, !.streaming = t]
      /\ UNCHANGED <<status, log, post, mending, cancel, load, left>>
  BY DEF CloseSubmit
<1>2. /\ PostGoesOn /\ CancelStill /\ load.pc = "idle"
  BY <1>1, PostStays, CancelStays DEF IInv, StoreAgrees
<1>3. LoadStill /\ SubmitStill
  BY <1>1, <1>2, LoadStays, SubmitsQuiet, Shaped DEF SubmitStill, NoLease
<1>4. t \in BOOLEAN /\ (t => ui.streaming)
  BY Shaped DEF Stores
<1> HIDE DEF t
<1>5. StoreStill
  BY <1>1, <1>2, <1>4, Shaped, SubmitsQuiet DEF StoreStill, Stores, IInv, StoreAgrees, JustNamed
<1> QED
  BY <1>1, <1>2, <1>3, <1>5, StillKeeps DEF Still

(* A submission that awaited no poll of its own throws. *)
LEMMA ThrowSteps ==
    ASSUME IInv, submit.pc \in {"posted", "following", "closing"}, Throw(ui), PostGoesOn,
           left' \in Nat, left' <= left, UNCHANGED <<status, log, cancel, load>>
    PROVE  IInv'
<1> DEFINE t == ui.streaming /\ ui.waiting
<1>1. /\ ui' = [ui EXCEPT !.error = TRUE, !.stream = FALSE, !.streaming = t]
      /\ submit' = Quiet
      /\ mending' = mending \cup {[run |-> submit.run, view |-> ui.view]}
  BY DEF Throw
<1>5. /\ t \in BOOLEAN /\ (t => ui.streaming)
      /\ mending' \subseteq Failures /\ \A m \in mending' : m.view <= ui.view
  BY <1>1, FailuresGrow, Shaped DEF Stores
<1> HIDE DEF t
<1>2. /\ CancelStill /\ load.pc = "idle"
  BY <1>1, CancelStays DEF IInv, StoreAgrees
<1>3. LoadStill /\ SubmitStill
  BY <1>1, <1>2, <1>5, LoadStays, SubmitsQuiet, Shaped DEF SubmitStill, NoLease
<1>4. StoreStill
  BY <1>1, <1>2, <1>5, Shaped, SubmitsQuiet DEF StoreStill, Stores, IInv, StoreAgrees, JustNamed
<1> QED
  BY <1>1, <1>2, <1>3, <1>4, StillKeeps DEF Still

LEMMA CloseFailsSteps == ASSUME IInv, CloseFails PROVE IInv'
<1>1. PostGoesOn /\ left' \in Nat /\ left' <= left
  BY PostStays, Incidents DEF CloseFails
<1> QED
  BY <1>1, ThrowSteps DEF CloseFails

LEMMA CancelActiveRunSteps == ASSUME IInv, CancelActiveRun PROVE IInv'
<1>1. /\ ui.run # None /\ ui.status # "none" /\ ui' = [ui EXCEPT !.error = FALSE]
      /\ cancel' = [pc |-> "asked", lease |-> Lease(ui, ui.run), snap |-> Unread]
      /\ UNCHANGED <<status, log, post, submit, mending, load>>
      /\ left' \in Nat /\ left' <= left
  BY Incidents DEF CancelActiveRun
<1>2. Lease(ui, ui.run) \in Leases /\ Lease(ui, ui.run).run = ui.run
  BY Shaped DEF Lease, Leases, Stores
<1>3. CancelStill
  BY <1>1, <1>2, Shaped DEF CancelStill, Unread, Snaps, Statuses
<1>4. load.pc # "listing" /\ PostGoesOn
  BY <1>1, PostStays DEF IInv, Listing
<1>5. LoadStill /\ SubmitStill
  BY <1>1, <1>4, LoadStays, SubmitStays
<1>6. StoreStill
  BY <1>1, Shaped DEF StoreStill, Stores, IInv, StoreAgrees, JustNamed
<1> QED
  BY <1>1, <1>3, <1>4, <1>5, <1>6, StillKeeps DEF Still

LEMMA CancelReadsSteps == ASSUME IInv, CancelReads PROVE IInv'
<1> DEFINE S == Snapshot(cancel.lease.run)
<1>1. /\ cancel.pc = "answered"
      /\ \/ cancel' = [cancel EXCEPT !.pc = "read", !.snap = S]
         \/ cancel' = [cancel EXCEPT !.pc = "read"]
         \/ cancel' = NoCancel
      /\ \/ ui' = [ui EXCEPT !.durable = Saved]
         \/ ui' = ui
      /\ UNCHANGED <<status, log, post, submit, mending, load>>
      /\ left' \in Nat /\ left' <= left
  BY Incidents DEF CancelReads
<1>2. cancel.lease.run \in Runs
  BY <1>1 DEF IInv, LeasesAgree, Shapes, Leases
<1>3. S \in Snaps /\ S.at <= Len(log)
  BY <1>2, SnapshotReads DEF IInv
<1> HIDE DEF S
<1>4. CancelStill
  <2>1. cancel.lease.run # None
    BY <1>2, NoneApart
  <2>2. CASE cancel' = NoCancel
    BY <2>2, Shaped, CancelsNothing DEF CancelStill
  <2>3. CASE cancel' = [cancel EXCEPT !.pc = "read"]
    BY <2>1, <2>3, Shaped DEF CancelStill
  <2>4. CASE cancel' = [cancel EXCEPT !.pc = "read", !.snap = S]
    <3>1. /\ cancel' \in [pc : {"idle", "asked", "answered", "read"}, lease : Leases, snap : Snaps]
          /\ cancel'.lease = cancel.lease /\ cancel'.snap = S
      BY <1>3, <2>4, Shaped
    <3> QED
      BY <1>3, <2>1, <3>1 DEF CancelStill
  <2> QED
    BY <1>1, <2>2, <2>3, <2>4
<1>5. PostGoesOn
  BY <1>1, PostStays
<1>6. StoreStill
  <2>1. CASE ui' = ui
    BY <1>1, <2>1, Shaped DEF StoreStill, IInv, StoreAgrees, JustNamed
  <2>2. CASE ui' = [ui EXCEPT !.durable = Saved]
    BY <1>1, <2>2, Shaped DEF StoreStill, Stores, IInv, StoreAgrees, JustNamed
  <2> QED
    BY <1>1, <2>1, <2>2
<1>7. load.pc = "listing" => ~ui'.stream
  BY <1>1, Shaped DEF IInv, Listing, Stores
<1>8. LoadStill /\ SubmitStill
  BY <1>1, <1>7, LoadStays, SubmitStays
<1> QED
  BY <1>1, <1>4, <1>5, <1>6, <1>8, StillKeeps DEF Still

LEMMA LoadFailsSteps == ASSUME IInv, LoadFails PROVE IInv'
<1>1. /\ load.pc # "idle" /\ load' = NoLoad
      /\ ui' = [[ui EXCEPT !.error = TRUE] EXCEPT !.loading = FALSE]
      /\ UNCHANGED <<status, log, post, submit, mending, cancel>>
      /\ left' \in Nat /\ left' <= left
  BY Incidents DEF LoadFails, Loaded
<1>2. submit.pc = "idle"
  BY <1>1 DEF IInv, StoreAgrees
<1>3. PostGoesOn /\ CancelStill
  BY <1>1, PostStays, CancelStays
<1>4. LoadStill /\ SubmitStill
  BY <1>1, <1>2, LoadsNothing, SubmitStays, Shaped DEF LoadStill
<1>5. StoreStill
  BY <1>1, <1>2, Shaped, LoadsNothing DEF StoreStill, Stores, IInv, StoreAgrees, JustNamed
<1> QED
  BY <1>1, <1>3, <1>4, <1>5, StillKeeps DEF Still

LEMMA ReplayEndsSteps == ASSUME IInv, ReplayEnds PROVE IInv'
<1> DEFINE c == IF LeaseCurrent(ui, load.lease) THEN [ui EXCEPT !.cursor = load.at] ELSE ui
           d == IF c.status \in Ends THEN [c EXCEPT !.durable = Saved] ELSE [c EXCEPT !.stream = TRUE]
<1>1. /\ load.pc = "replaying" /\ load' = NoLoad /\ ui' = [d EXCEPT !.loading = FALSE]
      /\ UNCHANGED <<status, log, post, submit, mending, cancel, left>>
  BY DEF ReplayEnds, Loaded
<1>2. submit.pc = "idle" /\ left \in Nat /\ left' <= left
  BY <1>1, Shaped DEF IInv, StoreAgrees
<1>3. PostGoesOn /\ CancelStill
  BY <1>1, PostStays, CancelStays
<1>4. LoadStill /\ SubmitStill
  BY <1>1, <1>2, LoadsNothing, SubmitStays, Shaped DEF LoadStill
<1>5. c \in Stores /\ Alike(ui, c) /\ c.cursor <= Len(log)
  BY Shaped DEF Stores, Alike
<1> HIDE DEF c
<1>6. /\ d \in Stores /\ d.cursor <= Len(log) /\ d.view = c.view /\ d.epoch = c.epoch
      /\ d.run = c.run /\ d.last = c.last /\ d.status = c.status /\ d.timer = c.timer
      /\ d.polls = c.polls /\ d.guard = c.guard /\ d.shut = c.shut
      /\ d.streaming = c.streaming /\ d.error = c.error
  <2>1. CASE c.status \in Ends
    BY <1>5, <2>1, Shaped DEF Stores
  <2>2. CASE c.status \notin Ends
    BY <1>5, <2>2, Shaped DEF Stores
  <2> QED
    BY <2>1, <2>2
<1> HIDE DEF d
<1>7. /\ ui' \in Stores /\ ui'.cursor = d.cursor
  BY <1>1, <1>6 DEF Stores
<1>8. /\ ui'.view = d.view /\ ui'.epoch = d.epoch /\ ~ui'.loading
      /\ ui'.run = d.run /\ ui'.last = d.last /\ ui'.status = d.status /\ ui'.timer = d.timer
      /\ ui'.polls = d.polls /\ ui'.guard = d.guard /\ ui'.shut = d.shut
      /\ ui'.streaming = d.streaming /\ ui'.error = d.error
  BY <1>1, <1>6 DEF Stores
<1>9. StoreStill
  BY <1>1, <1>2, <1>5, <1>6, <1>7, <1>8, LoadsNothing
  DEF StoreStill, Alike, IInv, StoreAgrees, JustNamed
<1> QED
  BY <1>1, <1>2, <1>3, <1>4, <1>9, StillKeeps DEF Still

-----------------------------------------------------------------------------
(* The steps that ask for the run once more.                                 *)

LEMMA PollsAgain ==
    ASSUME IInv, NEW c \in Stores, Alike([ui EXCEPT !.timer = c.timer], c), c.cursor = ui.cursor,
           NEW l \in Leases, l.run # None, l.view <= ui.view,
           NEW kind \in {"timer", "failed", "rescue"}, ui' = Poll(c, l, kind),
           c.timer = ui.timer \/ (c.timer = NoLease /\ kind = "timer" /\ l = ui.timer),
           UNCHANGED <<status, log, post, mending, load>>, CancelStill,
           left' \in Nat, left' <= left,
           kind # "rescue" => submit' = submit /\ Bound(l),
           kind = "rescue" => /\ submit.pc = "following" /\ submit.run = l.run
                              /\ submit' = [submit EXCEPT !.pc = "rescuing"],
           load.pc # "listing"
    PROVE  IInv'
<1> DEFINE P == [lease |-> l, snap |-> Snapshot(l.run), kind |-> kind]
<1>0. ui \in Stores
  BY Shaped
<1>1. /\ c.view = ui.view /\ c.epoch = ui.epoch /\ c.run = ui.run /\ c.last = ui.last
      /\ c.status = ui.status /\ c.streaming = ui.streaming /\ c.loading = ui.loading
      /\ c.error = ui.error /\ c.stream = ui.stream /\ c.polls = ui.polls
      /\ c.guard = ui.guard /\ c.shut = ui.shut
  BY <1>0 DEF Alike, Stores
<1>2. /\ Snapshot(l.run) \in Snaps /\ Snapshot(l.run).at <= Len(log)
  BY SnapshotReads DEF IInv, Leases
<1>3. P \in Polls /\ P.lease = l /\ P.snap.at <= Len(log) /\ P.kind = kind
  BY <1>2 DEF Polls
<1>4. ui' = [c EXCEPT !.polls = @ \cup {P}]
  BY DEF Poll
<1> HIDE DEF P
<1>5. c.polls \cup {P} \subseteq Polls /\ IsFiniteSet(ui.polls \cup {P})
  BY ZenonT(60), <1>1, <1>3, Shaped, FS_AddElement DEF Stores
<1>6. /\ ui' \in Stores /\ ui'.cursor = c.cursor /\ ui'.polls = ui.polls \cup {P}
      /\ ui'.view = ui.view /\ ui'.epoch = ui.epoch /\ ui'.run = ui.run /\ ui'.last = ui.last
      /\ ui'.status = ui.status /\ ui'.streaming = ui.streaming /\ ui'.loading = ui.loading
      /\ ui'.error = ui.error /\ ui'.stream = ui.stream /\ ui'.timer = c.timer
      /\ ui'.guard = ui.guard /\ ui'.shut = ui.shut
  BY <1>1, <1>4, <1>5 DEF Stores
<1>7. /\ Shapes /\ Bounds /\ LogAgrees /\ StoreAgrees /\ LeasesAgree
      /\ Attended /\ LeasesBound /\ Rescued
  BY Parts
<1>8. /\ submit' \in [pc : {"idle", "posted", "following", "rescuing", "closing"},
                      run : Runs \cup {None}, lease : Leases, broken : BOOLEAN]
      /\ submit'.lease = submit.lease /\ submit'.run = submit.run
      /\ \/ submit'.pc = submit.pc /\ kind # "rescue"
         \/ submit'.pc = "rescuing" /\ submit.pc = "following" /\ kind = "rescue"
  BY Shaped
<1>9. Shapes'
  BY <1>5, <1>6, <1>7, <1>8 DEF Shapes, CancelStill
<1>10. Bounds'
  <2>1. ui.view \in Nat \ {0} /\ left \in Nat /\ ui.view + left' <= MaxIncidents + 1
    BY <1>7, Shaped, ChatAssumption DEF Bounds
  <2>2. /\ ui'.timer.view <= ui.view /\ cancel'.lease.view <= ui.view
    BY <1>6, <1>7, <2>1 DEF Bounds, CancelStill, NoLease, Lease
  <2>3. \A p \in ui'.polls : p.snap.at <= Len(log) /\ p.lease.view <= ui.view
    BY <1>3, <1>6, <1>7 DEF Bounds
  <2> QED
    BY <1>6, <1>7, <1>8, <2>1, <2>2, <2>3 DEF Bounds, CancelStill
<1>11. LogAgrees'
  BY <1>7, LogStays
<1>12. StoreAgrees'
  BY <1>6, <1>7, <1>8 DEF StoreAgrees
<1>13. LeasesAgree'
  BY <1>3, <1>6, <1>7, <1>8 DEF LeasesAgree, CancelStill
<1>14. Listing'
  BY DEF Listing
<1>15. Attended'
  <2>1. SUFFICES ASSUME ui.run \notin {None} \cup ui.shut PROVE (ByTimer \/ JustNamed)'
    BY <1>6 DEF Attended
  <2>2. CASE JustNamed
    BY <1>6, <1>8, <2>2 DEF JustNamed
  <2>3. CASE LeaseCurrent(ui, ui.timer)
    BY <1>3, <1>6, <2>3 DEF ByTimer, LeaseCurrent
  <2>4. CASE \E p \in ui.polls : p.kind = "timer" /\ LeaseCurrent(ui, p.lease)
    BY <1>6, <2>4 DEF ByTimer, LeaseCurrent
  <2> QED
    BY <1>7, <2>1, <2>2, <2>3, <2>4 DEF Attended, ByTimer
<1>16. LeasesBound'
  <2>1. Rebinds
    BY <1>6 DEF Rebinds
  <2>2. Bound(ui.timer)' /\ (cancel'.lease = cancel.lease \/ Bound(cancel.lease)')
    BY <1>6, <1>7, Shaped DEF LeasesBound, Bound, CancelStill, NoLease, Lease
  <2>3. ASSUME NEW p \in ui'.polls PROVE p \in ui.polls \/ PollBound(p)'
    <3>1. p \in ui.polls \/ p = P
      BY <1>6
    <3>2. CASE p = P /\ kind = "rescue"
      BY <1>3, <1>8, <3>2 DEF PollBound
    <3>3. CASE p = P /\ kind # "rescue"
      <4>1. Bound(p.lease)'
        BY <1>3, <1>6, <3>3 DEF Bound
      <4> QED
        BY <1>3, <3>3, <4>1 DEF PollBound
    <3> QED
      BY <3>1, <3>2, <3>3
  <2> QED
    BY <1>6, <1>7, <1>8, <2>1, <2>2, <2>3, BoundKeeps
<1>17. Rescued'
  <2>1. Used' = Used
    BY DEF Used
  <2>2. kind = "rescue" => /\ post[P.lease.run] # "none"
                           /\ \A q \in ui.polls : q.kind = "rescue" => q.lease.run # P.lease.run
    BY <1>3, <1>7 DEF Rescued, LeasesAgree
  <2> QED
    BY <1>3, <1>6, <1>7, <1>8, <2>1, <2>2 DEF Rescued
<1> QED
  BY <1>9, <1>10, <1>11, <1>12, <1>13, <1>14, <1>15, <1>16, <1>17 DEF IInv

LEMMA LeaseOf ==
    ASSUME IInv, ui.run # None
    PROVE  /\ Lease(ui, ui.run) \in Leases /\ Lease(ui, ui.run).run # None
           /\ Lease(ui, ui.run).view <= ui.view /\ Bound(Lease(ui, ui.run))
BY Shaped DEF Lease, Leases, Stores, Bound

LEMMA TimerFiresSteps == ASSUME IInv, TimerFires PROVE IInv'
<1> DEFINE c == [ui EXCEPT !.timer = NoLease]
<1>1. /\ ui.timer # NoLease
      /\ UNCHANGED <<status, log, post, submit, mending, cancel, load, left>>
      /\ \/ Reconcilable(ui, ui.timer) /\ ui' = Poll(c, ui.timer, "timer")
         \/ ~Reconcilable(ui, ui.timer) /\ ui' = c
  BY DEF TimerFires
<1>2. /\ load.pc # "listing" /\ CancelStill /\ PostGoesOn /\ left \in Nat /\ left' <= left
  BY <1>1, Shaped, CancelStays, PostStays DEF IInv, Listing
<1>3. /\ c \in Stores /\ c.timer = NoLease /\ c.cursor = ui.cursor
      /\ Alike([ui EXCEPT !.timer = c.timer], c)
  BY Shaped DEF Stores, Alike
<1>4. CASE Reconcilable(ui, ui.timer) /\ ui' = Poll(c, ui.timer, "timer")
  <2>1. /\ ui.timer \in Leases /\ ui.timer.run # None /\ ui.timer.view <= ui.view
        /\ Bound(ui.timer)
    BY <1>1, Shaped DEF IInv, LeasesAgree, Bounds, LeasesBound, Stores
  <2> HIDE DEF c
  <2> QED
    BY <1>1, <1>2, <1>3, <1>4, <2>1, PollsAgain
<1>5. CASE ~Reconcilable(ui, ui.timer) /\ ui' = c
  <2>1. LoadStill /\ SubmitStill
    BY <1>1, <1>2, LoadStays, SubmitStays
  <2>2. ui.run = None \/ ~LeaseCurrent(ui, ui.timer)
    BY <1>5 DEF Reconcilable, IInv, StoreAgrees
  <2>3. StoreStill
    BY <1>1, <1>5, <2>2, Shaped DEF StoreStill, Stores, IInv, StoreAgrees, JustNamed
  <2> QED
    BY <1>1, <1>2, <2>1, <2>3, StillKeeps DEF Still
<1> QED
  BY <1>1, <1>4, <1>5

LEMMA StreamEndedSteps == ASSUME IInv, StreamEnded PROVE IInv'
<1>1. /\ submit.pc = "following" /\ left \in Nat /\ left' <= left /\ load.pc = "idle"
      /\ UNCHANGED <<status, log, post, cancel, load, left>>
  BY Shaped DEF StreamEnded, IInv, StoreAgrees
<1>2. CancelStill /\ PostGoesOn
  BY <1>1, CancelStays, PostStays
<1>3. CASE submit' = Closing /\ UNCHANGED <<ui, mending>>
  <2>1. LoadStill /\ SubmitStill
    BY <1>1, <1>3, LoadStays, SubmitCloses, Shaped DEF SubmitStill, NoLease
  <2>2. StoreStill
    BY <1>1, <1>3, SubmitCloses, Shaped DEF StoreStill, IInv, StoreAgrees, JustNamed
  <2> QED
    BY <1>1, <1>2, <2>1, <2>2, StillKeeps DEF Still
<1>4. CASE /\ ui' = Poll(ui, submit.lease, "rescue")
           /\ submit' = [submit EXCEPT !.pc = "rescuing"] /\ UNCHANGED mending
  <2>1. /\ submit.lease \in Leases /\ submit.lease.run = submit.run /\ submit.run # None
        /\ submit.lease.view <= ui.view
    BY <1>1, Shaped DEF IInv, LeasesAgree, Bounds
  <2>2. ui \in Stores /\ Alike([ui EXCEPT !.timer = ui.timer], ui)
    BY Shaped DEF Alike, Stores
  <2> QED
    BY <1>1, <1>2, <1>4, <2>1, <2>2, PollsAgain
<1>5. CASE Throw(ui)
  BY <1>1, <1>2, <1>5, ThrowSteps
<1> QED
  BY <1>3, <1>4, <1>5 DEF StreamEnded

LEMMA CancelFailsSteps == ASSUME IInv, CancelFails PROVE IInv'
<1>1. /\ cancel' = NoCancel /\ UNCHANGED <<status, log, post, submit, mending, load>>
      /\ left' \in Nat /\ left' <= left
      /\ \/ ~InView /\ ui' = ui
         \/ InView /\ ui.run # None /\ ui' = Poll(ui, Lease(ui, ui.run), "failed")
         \/ InView /\ ui' = [ui EXCEPT !.error = TRUE]
  BY Incidents DEF CancelFails
<1>2. CancelStill /\ PostGoesOn /\ SubmitStill
  BY <1>1, CancelsNothing, PostStays, SubmitStays, Shaped DEF CancelStill
<1>3. InView => load.pc # "listing"
  BY DEF InView, IInv, Listing
<1>4. CASE InView /\ ui.run # None /\ ui' = Poll(ui, Lease(ui, ui.run), "failed")
  <2>1. ui \in Stores /\ Alike([ui EXCEPT !.timer = ui.timer], ui)
    BY Shaped DEF Alike, Stores
  <2> QED
    BY <1>1, <1>2, <1>3, <1>4, <2>1, LeaseOf, PollsAgain
<1>5. CASE ui' = ui \/ (InView /\ ui' = [ui EXCEPT !.error = TRUE])
  <2>1. LoadStill
    BY <1>1, <1>3, <1>5, LoadStays DEF IInv, Listing
  <2>2. CASE ui' = ui
    <3>1. StoreStill
      BY <1>1, <2>2, Shaped DEF StoreStill, IInv, StoreAgrees, JustNamed
    <3> QED
      BY <1>1, <1>2, <2>1, <3>1, StillKeeps DEF Still
  <2>3. CASE ui' = [ui EXCEPT !.error = TRUE]
    <3>1. StoreStill
      BY <1>1, <2>3, Shaped DEF StoreStill, Stores, IInv, StoreAgrees, JustNamed
    <3> QED
      BY <1>1, <1>2, <2>1, <3>1, StillKeeps DEF Still
  <2> QED
    BY <1>5, <2>2, <2>3
<1> QED
  BY <1>1, <1>4, <1>5

(* A poll whose lease does not count is dropped, and its submission goes on. *)
LEMMA DropsPoll ==
    ASSUME IInv, NEW p \in ui.polls, p.kind # "timer" \/ ~LeaseCurrent(ui, p.lease),
           NEW d \in Stores, Alike([ui EXCEPT !.polls = @ \ {p}, !.error = d.error, !.stream = d.stream,
                                             !.streaming = d.streaming], d),
           ui' = d, d.cursor = ui.cursor, d.stream => ui.stream, ui.error => d.error,
           d.streaming => ui.streaming, submit' = submit => d.streaming = ui.streaming,
           ~Rescues(p) => submit' = submit, submit' \in {submit, Closing, Quiet},
           mending' \in {mending, mending \cup {[run |-> submit.run, view |-> ui.view]}},
           left' \in Nat, left' <= left,
           UNCHANGED <<status, log, post, cancel, load>>
    PROVE  IInv'
<1>0. ui \in Stores
  BY Shaped
<1>1. /\ d.view = ui.view /\ d.epoch = ui.epoch /\ d.run = ui.run /\ d.last = ui.last
      /\ d.status = ui.status /\ d.loading = ui.loading
      /\ d.polls = ui.polls \ {p} /\ d.timer = ui.timer /\ d.guard = ui.guard /\ d.shut = ui.shut
  BY <1>0 DEF Alike, Stores
<1>2. CancelStill /\ PostGoesOn
  BY CancelStays, PostStays
<1>3. load.pc = "listing" => ~d.stream
  BY DEF IInv, Listing
<1>4. LoadStill
  BY <1>3, LoadStays
<1>5. submit' # submit => submit.pc = "rescuing" /\ Rescues(p) /\ load.pc = "idle"
  BY DEF Rescues, IInv, StoreAgrees
<1>6. SubmitStill
  <2>1. mending' \subseteq Failures /\ \A m \in mending' : m.view <= ui.view
    BY FailuresGrow, Shaped
  <2>2. CASE submit' = submit
    BY <2>1, <2>2, Shaped DEF SubmitStill, IInv, StoreAgrees, LeasesAgree, Bounds
  <2>3. CASE submit' # submit
    BY <1>1, <1>5, <2>1, <2>3, SubmitsQuiet, SubmitCloses, Shaped DEF SubmitStill, NoLease
  <2> QED
    BY <2>2, <2>3
<1>7. StoreStill
  <2>1. CASE submit' = submit
    BY <1>1, <2>1, Shaped DEF StoreStill, IInv, StoreAgrees, JustNamed
  <2>2. CASE submit' # submit
    BY <1>1, <1>5, <2>2, Shaped DEF StoreStill, IInv, StoreAgrees, JustNamed
  <2> QED
    BY <2>1, <2>2
<1> QED
  BY <1>2, <1>4, <1>6, <1>7, StillKeeps DEF Still

LEMMA PollFailsSteps == ASSUME IInv, PollFails PROVE IInv'
<1>1. /\ UNCHANGED <<status, log, post, cancel, load>> /\ left' \in Nat /\ left' <= left
  BY SMTT(30), Incidents DEF PollFails
<1>2. PICK p \in ui.polls :
        LET c == [ui EXCEPT !.polls = @ \ {p}]
        IN  CASE p.kind = "timer" ->
                   /\ ui' = IF Reconcilable(ui, p.lease) THEN [c EXCEPT !.timer = p.lease] ELSE c
                   /\ UNCHANGED <<submit, mending>>
              [] p.kind = "failed" -> ui' = [c EXCEPT !.error = TRUE] /\ UNCHANGED <<submit, mending>>
              [] p.kind = "rescue" -> IF Rescues(p) THEN Throw(c)
                                      ELSE ui' = c /\ UNCHANGED <<submit, mending>>
  BY DEF PollFails
<1> DEFINE c == [ui EXCEPT !.polls = @ \ {p}]
<1>3. /\ c \in Stores /\ c.polls = ui.polls \ {p} /\ c.cursor = ui.cursor
      /\ c.view = ui.view /\ c.epoch = ui.epoch /\ c.run = ui.run /\ c.last = ui.last
      /\ c.status = ui.status /\ c.streaming = ui.streaming /\ c.loading = ui.loading
      /\ c.error = ui.error /\ c.stream = ui.stream /\ c.timer = ui.timer
      /\ c.guard = ui.guard /\ c.shut = ui.shut
  BY Shaped DEF Stores
<1>4. p \in Polls /\ p.lease \in Leases
  BY Shaped DEF Stores, Polls
<1>5. CASE p.kind = "timer" /\ Reconcilable(ui, p.lease)
  <2>1. ui' = [c EXCEPT !.timer = p.lease] /\ UNCHANGED <<submit, mending>>
    BY <1>2, <1>5
  <2>2. /\ CancelStill /\ PostGoesOn /\ SubmitStill
    BY <1>1, <2>1, CancelStays, PostStays, SubmitStays
  <2> HIDE DEF c
  <2>3. /\ ui' \in Stores /\ ui'.polls = c.polls /\ ui'.cursor = c.cursor
        /\ ui'.view = c.view /\ ui'.epoch = c.epoch /\ ui'.run = c.run /\ ui'.last = c.last
        /\ ui'.status = c.status /\ ui'.streaming = c.streaming /\ ui'.loading = c.loading
        /\ ui'.error = c.error /\ ui'.stream = c.stream /\ ui'.timer = p.lease
        /\ ui'.guard = c.guard /\ ui'.shut = c.shut
    BY <1>3, <1>4, <2>1 DEF Stores
  <2>4. Retimed
    BY <1>5, <2>3 DEF Retimed, Reconcilable
  <2>5. StoreStill
    BY <1>1, <1>3, <2>1, <2>3, <2>4, Shaped DEF StoreStill, IInv, StoreAgrees, JustNamed
  <2>6. LoadStill
    BY <1>1, <1>3, <2>3, LoadStays DEF IInv, Listing
  <2> QED
    BY <1>1, <2>2, <2>5, <2>6, StillKeeps DEF Still
<1>6. CASE p.kind = "timer" /\ ~Reconcilable(ui, p.lease)
  <2>1. ui' = c /\ UNCHANGED <<submit, mending>>
    BY <1>2, <1>6
  <2>2. CASE ~LeaseCurrent(ui, p.lease)
    BY ZenonT(60), <1>1, <1>3, <2>1, <2>2, DropsPoll DEF Alike
  <2>3. CASE LeaseCurrent(ui, p.lease)
    <3>1. ui.run = None
      BY <1>6, <2>3 DEF Reconcilable, IInv, StoreAgrees
    <3>2. /\ CancelStill /\ PostGoesOn /\ SubmitStill
      BY <1>1, <2>1, CancelStays, PostStays, SubmitStays
    <3>3. LoadStill
      BY <1>1, <1>3, <2>1, LoadStays DEF IInv, Listing
    <3>4. StoreStill
      BY <1>1, <1>3, <2>1, <3>1, Shaped DEF StoreStill, IInv, StoreAgrees, JustNamed
    <3> QED
      BY <1>1, <3>2, <3>3, <3>4, StillKeeps DEF Still
  <2> QED
    BY <2>2, <2>3
<1>7. CASE p.kind = "failed"
  <2> DEFINE d == [c EXCEPT !.error = TRUE]
  <2>1. ui' = d /\ UNCHANGED <<submit, mending>>
    BY <1>2, <1>7
  <2>2. /\ d \in Stores /\ Alike([ui EXCEPT !.polls = @ \ {p}, !.error = d.error, !.stream = d.stream,
                                !.streaming = d.streaming], d)
        /\ d.cursor = ui.cursor /\ d.stream = ui.stream /\ d.error /\ d.streaming = ui.streaming
    BY Shaped DEF Stores, Alike
  <2> HIDE DEF d
  <2> QED
    BY <1>1, <1>7, <2>1, <2>2, DropsPoll
<1>8. CASE p.kind = "rescue" /\ Rescues(p)
  <2>3. submit' # submit
    BY <1>2, <1>8, SubmitsQuiet DEF Throw, Rescues
  <2> DEFINE t == c.streaming /\ c.waiting
             d == [c EXCEPT !.error = TRUE, !.stream = FALSE, !.streaming = t]
  <2>1. /\ ui' = d /\ submit' = Quiet
        /\ mending' = mending \cup {[run |-> submit.run, view |-> ui.view]}
    BY <1>2, <1>8 DEF Throw
  <2>4. t \in BOOLEAN /\ (t => ui.streaming)
    BY <1>3 DEF Stores
  <2> HIDE DEF t
  <2>2. /\ d \in Stores /\ Alike([ui EXCEPT !.polls = @ \ {p}, !.error = d.error, !.stream = d.stream,
                                !.streaming = d.streaming], d)
        /\ d.cursor = ui.cursor /\ ~d.stream /\ d.error /\ (d.streaming => ui.streaming)
    BY <2>4, Shaped DEF Stores, Alike
  <2> HIDE DEF d
  <2> QED
    BY <1>1, <1>8, <2>1, <2>2, <2>3, DropsPoll
<1>9. CASE p.kind = "rescue" /\ ~Rescues(p)
  <2>1. ui' = c /\ UNCHANGED <<submit, mending>>
    BY <1>2, <1>9
  <2>2. Alike([ui EXCEPT !.polls = @ \ {p}, !.error = c.error, !.stream = c.stream,
                                !.streaming = c.streaming], c)
    BY Shaped DEF Stores, Alike
  <2> HIDE DEF c
  <2> QED
    BY <1>1, <1>3, <1>9, <2>1, <2>2, DropsPoll
<1> QED
  BY <1>4, <1>5, <1>6, <1>7, <1>8, <1>9 DEF Polls

-----------------------------------------------------------------------------
(* The steps that show a run as going on, or its end.                        *)

(* The load goes on, if it still does, under a lease of the run it has shown. *)
LoadBinds ==
    /\ load' \in [pc : {"idle", "listing", "replaying"},
                  run : Runs \cup {None}, lease : Leases, at : Nat]
    /\ load'.pc = "replaying" /\ load'.run = ui'.run /\ load'.lease = Lease(ui', ui'.run)
    /\ ui'.run \in Runs /\ load'.at <= Len(log)

(* What the two have in common. *)
Moving ==
    /\ UNCHANGED <<status, log>> /\ PostGoesOn /\ SubmitStill /\ CancelStill
    /\ LoadStill \/ LoadBinds
    /\ cancel'.lease \in {cancel.lease, NoLease}
    /\ ui' \in Stores /\ ui'.polls \subseteq ui.polls
    /\ ui'.view = ui.view /\ (ui'.loading <=> load'.pc # "idle")
    /\ ui'.cursor <= Len(log) /\ ui'.guard.floor <= Len(log)
    /\ load'.pc # "listing"

ShowsEnded ==
    /\ Moving
    /\ ui'.run = None /\ ui'.status \in Ends /\ ~ui'.streaming /\ ui'.timer = NoLease
    /\ ui'.last \in ui'.shut /\ ui'.epoch \notin Held(ui'.polls)

ShowsGoingOn ==
    /\ Moving
    /\ ui'.run \in Runs /\ ui'.status \notin Ends /\ ui'.last = None
    /\ ui'.timer.run # None /\ ui'.timer.view <= ui.view /\ Bound(ui.timer)'
    /\ ui'.run \in ui'.shut \/ LeaseCurrent(ui, ui.timer)'
    /\ (ui'.run = ui.run /\ ui'.epoch = ui.epoch) \/ ui'.epoch \notin Held(ui'.polls)

LEMMA MovingKeeps ==
    ASSUME IInv, Moving, ui'.timer.view <= ui.view,
           ui'.timer # NoLease => ui'.timer.run # None, Bound(ui.timer)', Rebinds,
           ui'.run # None \/ ui'.epoch \notin Held(ui'.polls)
    PROVE  /\ Shapes' /\ Bounds' /\ LogAgrees' /\ LeasesAgree' /\ Listing' /\ LeasesBound'
           /\ Rescued'
<1>0. /\ Shapes /\ Bounds /\ LogAgrees /\ LeasesAgree /\ LeasesBound /\ Rescued
  BY DEF IInv
<1>1. /\ UNCHANGED <<status, log>> /\ PostGoesOn /\ SubmitStill /\ CancelStill
      /\ LoadStill \/ LoadBinds
      /\ cancel'.lease \in {cancel.lease, NoLease}
      /\ ui' \in Stores /\ ui'.polls \subseteq ui.polls
      /\ ui'.view = ui.view /\ (ui'.loading <=> load'.pc # "idle")
      /\ ui'.cursor <= Len(log) /\ ui'.guard.floor <= Len(log)
      /\ load'.pc # "listing"
  BY DEF Moving
<1>2. ui.view \in Nat \ {0} /\ left \in Nat /\ left' \in Nat
  BY <1>0, <1>1 DEF Shapes, Stores, SubmitStill
<1>3. Shapes'
  <2>1. IsFiniteSet(ui'.polls)
    BY <1>0, <1>1, FS_Subset DEF Shapes
  <2> QED
    BY <1>0, <1>1, <2>1 DEF Shapes, SubmitStill, CancelStill, LoadStill, LoadBinds, PostGoesOn
<1>4. Bounds'
  <2>1. ui.view + left' <= MaxIncidents + 1
    BY <1>0, <1>1, <1>2, ChatAssumption DEF Bounds, SubmitStill
  <2>2. /\ cancel'.lease.view <= ui.view /\ load'.lease.view <= ui.view
    BY <1>0, <1>1, <1>2 DEF Bounds, LoadStill, LoadBinds, Lease, NoLease
  <2> QED
    BY <1>0, <1>1, <2>1, <2>2 DEF Bounds, SubmitStill, CancelStill, LoadStill, LoadBinds
<1>5. LogAgrees'
  BY <1>0, <1>1, LogGoesOn
<1>6. LeasesAgree'
  <2>1. submit.run \in Runs \cup {None}
    BY <1>0 DEF Shapes
  <2> QED
    BY <1>0, <1>1, <2>1, NoneApart
    DEF LeasesAgree, SubmitStill, CancelStill, LoadStill, LoadBinds, Lease, PostGoesOn
<1>7. Listing'
  BY <1>1 DEF Listing
<1>8. LeasesBound'
  <2>1. cancel'.lease = cancel.lease \/ Bound(cancel.lease)'
    BY <1>1, <1>2 DEF Bound, NoLease
  <2>2. ASSUME NEW p \in ui.polls, p \in ui'.polls, p.kind = "rescue",
               submit.pc = "rescuing", submit.run = p.lease.run
        PROVE  submit'.pc = "rescuing" /\ submit'.run = submit.run
    <3>1. SUFFICES ASSUME NEW q \in ui.polls \ ui'.polls, Rescues(q) PROVE FALSE
      BY <1>1, <2>2 DEF SubmitStill
    <3> QED
      BY <1>0, <2>2, <3>1 DEF Rescued, Rescues
  <2>3. load'.pc = "replaying" =>
           (load.pc = "replaying" /\ load'.lease = load.lease) \/ Bound(load.lease)'
    BY <1>1 DEF LoadStill, LoadBinds, Bound, Lease
  <2> QED
    BY <1>0, <1>1, <2>1, <2>2, <2>3, BoundKeeps
<1>9. Rescued'
  BY <1>0, <1>1, RescuedKeeps DEF SubmitStill, PostGoesOn
<1> QED
  BY <1>3, <1>4, <1>5, <1>6, <1>7, <1>8, <1>9

LEMMA EndedKeeps == ASSUME IInv, ShowsEnded PROVE IInv'
<1>1. Moving /\ ui'.timer = NoLease /\ ui.polls \cap ui'.polls = ui'.polls
  BY DEF ShowsEnded, Moving
<1>2. ui'.timer.view <= ui.view /\ Bound(ui.timer)'
  BY <1>1, Shaped DEF NoLease, Bound, Moving
<1>3. Rebinds
  BY <1>1 DEF ShowsEnded, Rebinds
<1>4. StoreAgrees'
  BY <1>1 DEF ShowsEnded, Moving, SubmitStill, IInv, StoreAgrees
<1>5. Attended'
  BY DEF ShowsEnded, Attended
<1>6. ui'.epoch \notin Held(ui'.polls)
  BY DEF ShowsEnded
<1> QED
  BY <1>1, <1>2, <1>3, <1>4, <1>5, <1>6, MovingKeeps DEF IInv

LEMMA GoingOnKeeps == ASSUME IInv, ShowsGoingOn PROVE IInv'
<1>1. Moving /\ ui'.run # None /\ ui.polls \cap ui'.polls = ui'.polls
  BY NoneApart DEF ShowsGoingOn, Moving
<1>2. Rebinds
  BY <1>1 DEF ShowsGoingOn, Rebinds
<1>3. StoreAgrees'
  BY <1>1 DEF ShowsGoingOn, Moving, SubmitStill, IInv, StoreAgrees
<1>4. Attended'
  BY DEF ShowsGoingOn, Attended, ByTimer
<1> QED
  BY <1>1, <1>2, <1>3, <1>4, MovingKeeps DEF IInv, ShowsGoingOn

LEMMA PollAnsweredSteps == ASSUME IInv, PollAnswered PROVE IInv'
<1>1. PICK p \in ui.polls :
        /\ LET c == [ui EXCEPT !.polls = @ \ {p}]
           IN  ui' = IF LeaseCurrent(ui, p.lease) THEN SyncRunState(c, p.lease, p.snap) ELSE c
        /\ submit' = IF Rescues(p) THEN Closing ELSE submit
  BY DEF PollAnswered
<1> DEFINE c == [ui EXCEPT !.polls = @ \ {p}]
           l == p.lease
<1>2. /\ UNCHANGED <<status, log, post, mending, cancel, load, left>>
      /\ left' \in Nat /\ left' <= left
  BY Shaped DEF PollAnswered
<1>3. /\ c \in Stores /\ c.polls = ui.polls \ {p} /\ c.cursor = ui.cursor
      /\ c.view = ui.view /\ c.epoch = ui.epoch /\ c.run = ui.run /\ c.last = ui.last
      /\ c.status = ui.status /\ c.streaming = ui.streaming /\ c.loading = ui.loading
      /\ c.error = ui.error /\ c.stream = ui.stream /\ c.timer = ui.timer
      /\ c.guard = ui.guard /\ c.shut = ui.shut
  BY Shaped DEF Stores
<1>4. /\ p \in Polls /\ l \in Leases /\ p.snap \in Snaps /\ l.run # None /\ l.run \in Runs
      /\ p.snap.at <= Len(log) /\ l.view <= ui.view
  BY Shaped DEF Stores, Polls, IInv, LeasesAgree, Bounds, Leases
<1>5. CASE ~LeaseCurrent(ui, l)
  <2>1. ui' = c
    BY <1>1, <1>5
  <2>2. Alike([ui EXCEPT !.polls = @ \ {p}, !.error = c.error, !.stream = c.stream,
                                !.streaming = c.streaming], c)
    BY Shaped DEF Stores, Alike
  <2>3. submit' = IF Rescues(p) THEN Closing ELSE submit
    BY <1>1
  <2> HIDE DEF c
  <2> QED
    BY <1>2, <1>3, <1>5, <2>1, <2>2, <2>3, DropsPoll
<1>6. CASE LeaseCurrent(ui, l)
  <2>1. ui' = SyncRunState(c, l, p.snap)
    BY <1>1, <1>6
  <2>2. /\ l.view = ui.view /\ l.epoch = ui.epoch
        /\ \/ ui.run = l.run /\ ui.last = None
           \/ ui.run = None /\ ui.last = l.run /\ l.run \in ui.shut
    BY <1>4, <1>6 DEF LeaseCurrent, IInv, StoreAgrees
  <2>3. load.pc # "listing" /\ IsFiniteSet(c.polls)
    BY <1>3, <2>2, Shaped, FS_RemoveElement DEF IInv, Listing
  <2>4. CancelStill /\ PostGoesOn /\ LoadStill
    BY <1>2, <2>3, CancelStays, PostStays, LoadStays
  <2> HIDE DEF c
  <2>5. c.run \in {None, l.run}
    BY <1>3, <2>2
  <2> DEFINE snap == p.snap
  <2>6. SubmitStill \/ p \notin ui.polls \ ui'.polls
    <3>1. CASE ~Rescues(p)
      BY <1>1, <1>2, <3>1, SubmitStays
    <3>2. CASE Rescues(p)
      <4>1. submit' = Closing /\ submit.pc = "rescuing" /\ load.pc = "idle"
        BY <1>1, <3>2 DEF Rescues, IInv, StoreAgrees
      <4> QED
        BY <1>2, <3>2, <4>1, SubmitCloses, Shaped DEF SubmitStill, NoLease
    <3> QED
      BY <3>1, <3>2
  <2>7. ASSUME ui' \in Stores, SamePlace(c, ui'),
               ui'.guard \in {ui.guard, NoGuard, [run |-> l.run, floor |-> snap.at]}
        PROVE  Moving /\ ui'.polls = c.polls
    <3>1. ui'.guard.floor <= Len(log)
      <4>1. NoGuard.floor <= Len(log) /\ ui.guard.floor <= Len(log)
        BY Shaped DEF NoGuard, IInv, Bounds
      <4> QED
        BY <1>4, <2>7, <4>1
    <3>2. SubmitStill
      BY <1>3, <2>6, <2>7 DEF SamePlace
    <3> QED
      BY <1>2, <1>3, <2>3, <2>4, <2>7, <3>1, <3>2, Shaped DEF Moving, SamePlace, IInv, StoreAgrees
  <2>8. CASE snap.status \in Ends
    <3>1. /\ c \in Stores /\ IsFiniteSet(c.polls) /\ l \in Leases /\ l.run # None
          /\ c.run \in {None, l.run} /\ snap \in Snaps /\ snap.status \in Ends
          /\ ui' = SyncRunState(c, l, snap)
      BY <1>3, <1>4, <2>1, <2>3, <2>5, <2>8
    <3>2. /\ ui' \in Stores /\ SamePlace(c, ui')
          /\ ui'.run = None /\ ui'.last = l.run /\ ui'.status = snap.status /\ ~ui'.streaming
          /\ ui'.shut = c.shut \cup {l.run} /\ ui'.timer = NoLease
          /\ ui'.guard \in {c.guard, NoGuard}
          /\ ui'.epoch \notin Held(c.polls)
      <4> HIDE DEF l, snap
      <4> QED
        BY <3>1, SyncsEnd
    <3>3. Moving /\ ui'.polls = c.polls
      BY <1>3, <2>7, <3>2
    <3>4. ShowsEnded
      BY <2>8, <3>2, <3>3 DEF ShowsEnded
    <3> QED
      BY <3>4, EndedKeeps
  <2>9. CASE snap.status \notin Ends
    <3>1. /\ c \in Stores /\ IsFiniteSet(c.polls) /\ l \in Leases /\ l.run # None
          /\ c.run \in {None, l.run} /\ snap \in Snaps /\ snap.status \notin Ends
          /\ ui' = SyncRunState(c, l, snap)
      BY <1>3, <1>4, <2>1, <2>3, <2>5, <2>9
    <3>2. /\ ui' \in Stores /\ SamePlace(c, ui')
          /\ ui'.run = l.run /\ ui'.status = snap.status /\ ui'.shut = c.shut /\ ui'.timer = l
          /\ ui'.guard \in {c.guard, [run |-> l.run, floor |-> snap.at]}
          /\ c.run = l.run => SameRun(c, ui')
          /\ c.run = None => /\ ui'.last = None
                             /\ ui'.epoch \notin Held(c.polls) \cup {c.epoch}
      <4> HIDE DEF l, snap
      <4> QED
        BY <3>1, SyncsOther
    <3>3. Moving /\ ui'.polls = c.polls /\ ui'.view = ui.view
      BY <1>3, <2>7, <3>2 DEF Moving
    <3>4. \/ /\ ui.run = l.run /\ ui'.run = ui.run /\ ui'.epoch = ui.epoch /\ ui'.last = None
             /\ LeaseCurrent(ui, ui.timer)'
          \/ /\ ui'.last = None /\ ui'.epoch \notin Held(ui'.polls) /\ ui'.epoch # ui'.timer.epoch
             /\ ui'.run \in ui'.shut
      BY <1>3, <2>2, <3>2, <3>3 DEF SameRun, LeaseCurrent
    <3>5. Bound(ui.timer)'
      BY <3>2, <3>4 DEF Bound
    <3>6. ShowsGoingOn
      BY <1>4, <2>9, <3>2, <3>3, <3>4, <3>5 DEF ShowsGoingOn
    <3> QED
      BY <3>6, GoingOnKeeps
  <2> QED
    BY <2>8, <2>9
<1> QED
  BY <1>5, <1>6

LEMMA CancelEndsSteps == ASSUME IInv, CancelEnds PROVE IInv'
<1> DEFINE l == cancel.lease
           snap == cancel.snap
           r == l.run
           c == IF snap # Unread /\ LeaseCurrent(ui, l) THEN SyncRunState(ui, l, snap) ELSE ui
           d == IF c.status \in Ends \cup {"none"} THEN c ELSE FinalizeRun(c, "cancelled", r)
<1>1. /\ cancel.pc = "read" /\ cancel' = NoCancel
      /\ ui' = IF InView THEN [d EXCEPT !.stream = FALSE] ELSE ui
      /\ UNCHANGED <<status, log, post, submit, mending, load, left>>
  BY DEF CancelEnds
<1>2. /\ PostGoesOn /\ SubmitStill /\ CancelStill /\ cancel'.lease = NoLease
  BY <1>1, PostStays, SubmitStays, CancelsNothing, Shaped DEF CancelStill
<1>3. InView => load.pc # "listing" /\ LoadStill
  BY <1>1, LoadStays DEF InView, IInv, Listing
<1>4. /\ l \in Leases /\ l.run # None /\ r \in Runs /\ snap \in Snaps /\ snap.at <= Len(log)
      /\ l.view <= ui.view /\ IsFiniteSet(ui.polls) /\ ui \in Stores
      /\ LeaseCurrent(ui, l) => ui.run = l.run /\ ui.last = None
  BY <1>1, Shaped
  DEF IInv, LeasesAgree, Bounds, LeasesBound, Bound, LeaseCurrent, StoreAgrees, Leases
<1>5. CASE ~InView
  <2>1. ui' = ui /\ LoadStill
    BY <1>1, <1>5, LoadStays DEF IInv, Listing
  <2>2. StoreStill
    BY <1>1, <2>1, Shaped DEF StoreStill, IInv, StoreAgrees, JustNamed
  <2> QED
    BY <1>1, <1>2, <2>1, <2>2, StillKeeps DEF Still
<1>6. CASE InView /\ d = ui
  <2> DEFINE b == [ui EXCEPT !.stream = FALSE]
  <2>1. ui' = b
    BY <1>1, <1>6
  <2>2. StoreStill
    BY <1>1, <2>1, Shaped DEF StoreStill, Stores, IInv, StoreAgrees, JustNamed
  <2> QED
    BY <1>1, <1>2, <1>3, <1>6, <2>2, StillKeeps DEF Still
<1>7. ASSUME InView, NEW b \in Stores, SamePlace(ui, b), ui' = [b EXCEPT !.stream = FALSE],
             b.guard \in {ui.guard, NoGuard, [run |-> r, floor |-> snap.at]}
      PROVE  /\ Moving /\ ui'.polls = ui.polls
             /\ SameRun(b, ui') /\ ui'.status = b.status /\ ui'.streaming = b.streaming
             /\ ui'.timer = b.timer /\ ui'.shut = b.shut
  <2>1. /\ ui' \in Stores /\ SamePlace(b, ui') /\ ui'.guard = b.guard
        /\ SameRun(b, ui') /\ ui'.status = b.status /\ ui'.streaming = b.streaming
        /\ ui'.timer = b.timer /\ ui'.shut = b.shut
    BY <1>7 DEF Stores, SamePlace, SameRun
  <2>2. b.guard.floor <= Len(log)
    <3>1. NoGuard.floor <= Len(log) /\ ui.guard.floor <= Len(log)
      BY Shaped DEF NoGuard, IInv, Bounds
    <3> QED
      BY <1>4, <1>7, <3>1
  <2> QED
    BY <1>1, <1>2, <1>3, <1>7, <2>1, <2>2, Shaped DEF Moving, SamePlace, IInv, StoreAgrees
<1>8. ASSUME InView, NEW b \in Stores, SamePlace(ui, b), b.run = r,
             b.guard \in {ui.guard, NoGuard, [run |-> r, floor |-> snap.at]},
             d = FinalizeRun(b, "cancelled", r)
      PROVE  IInv'
  <2>1. /\ b \in Stores /\ IsFiniteSet(b.polls) /\ r \in Runs /\ b.run \in {None, r}
        /\ "cancelled" \in Ends /\ d = FinalizeRun(b, "cancelled", r)
    BY <1>4, <1>8 DEF SamePlace, Ends
  <2> HIDE DEF r, d
  <2>2. /\ d \in Stores /\ SamePlace(b, d)
        /\ d.run = None /\ d.last = r /\ d.status = "cancelled" /\ ~d.streaming
        /\ d.shut = b.shut \cup {r} /\ d.timer = NoLease
        /\ d.guard \in {b.guard, NoGuard}
        /\ b.run = r => d.epoch \notin Held(b.polls) \cup {b.epoch}
    BY <2>1, FinalizesEnd
  <2>3. /\ SamePlace(ui, d) /\ ui' = [d EXCEPT !.stream = FALSE]
        /\ d.guard \in {ui.guard, NoGuard, [run |-> r, floor |-> snap.at]}
    BY <1>1, <1>8, <2>2 DEF SamePlace
  <2>4. /\ Moving /\ ui'.polls = ui.polls
        /\ SameRun(d, ui') /\ ui'.status = d.status /\ ui'.streaming = d.streaming
        /\ ui'.timer = d.timer /\ ui'.shut = d.shut
    BY <1>7, <1>8, <2>2, <2>3
  <2>5. ShowsEnded
    BY <1>8, <2>1, <2>2, <2>4 DEF ShowsEnded, SameRun, SamePlace
  <2> QED
    BY <2>5, EndedKeeps
<1>9. CASE InView /\ snap # Unread /\ LeaseCurrent(ui, l)
  <2>1. /\ ui \in Stores /\ IsFiniteSet(ui.polls) /\ l \in Leases /\ l.run # None
        /\ ui.run \in {None, l.run} /\ snap \in Snaps /\ c = SyncRunState(ui, l, snap)
    BY <1>4, <1>9
  <2>2. CASE snap.status \in Ends
    <3>1. /\ c \in Stores /\ SamePlace(ui, c)
          /\ c.run = None /\ c.last = l.run /\ c.status = snap.status /\ ~c.streaming
          /\ c.shut = ui.shut \cup {l.run} /\ c.timer = NoLease
          /\ c.guard \in {ui.guard, NoGuard}
          /\ c.epoch \notin Held(ui.polls)
      <4> HIDE DEF l, snap, c
      <4> QED
        BY <2>1, <2>2, SyncsEnd
    <3>2. ui' = [c EXCEPT !.stream = FALSE]
      BY <1>1, <1>9, <2>2, <3>1
    <3> HIDE DEF c, d
    <3>3. /\ Moving /\ ui'.polls = ui.polls
          /\ SameRun(c, ui') /\ ui'.status = c.status /\ ui'.streaming = c.streaming
          /\ ui'.timer = c.timer /\ ui'.shut = c.shut
      BY <1>7, <1>9, <3>1, <3>2
    <3>4. ShowsEnded
      BY <2>2, <3>1, <3>3 DEF ShowsEnded, SameRun
    <3> QED
      BY <3>4, EndedKeeps
  <2>3. CASE snap.status \notin Ends
    <3>1. /\ c \in Stores /\ SamePlace(ui, c)
          /\ c.run = l.run /\ c.status = snap.status /\ c.shut = ui.shut /\ c.timer = l
          /\ c.guard \in {ui.guard, [run |-> l.run, floor |-> snap.at]}
          /\ ui.run = l.run => SameRun(ui, c)
      <4> HIDE DEF l, snap, c
      <4> QED
        BY <2>1, <2>3, SyncsOther
    <3>2. CASE snap.status = "none"
      <4>1. ui' = [c EXCEPT !.stream = FALSE]
        BY <1>1, <1>9, <3>1, <3>2
      <4> HIDE DEF c, d
      <4>2. /\ Moving /\ ui'.polls = ui.polls
            /\ SameRun(c, ui') /\ ui'.status = c.status /\ ui'.streaming = c.streaming
            /\ ui'.timer = c.timer /\ ui'.shut = c.shut
        BY <1>7, <1>9, <3>1, <4>1
      <4>3. LeaseCurrent(ui, ui.timer)' /\ Bound(ui.timer)'
        BY <1>4, <1>9, <3>1, <4>2 DEF LeaseCurrent, Bound, SameRun, Moving
      <4>4. ShowsGoingOn
        BY <1>4, <1>9, <2>3, <3>1, <4>2, <4>3 DEF ShowsGoingOn, SameRun
      <4> QED
        BY <4>4, GoingOnKeeps
    <3>3. CASE snap.status # "none"
      <4>1. d = FinalizeRun(c, "cancelled", r)
        BY <2>3, <3>1, <3>3
      <4> HIDE DEF c, d
      <4> QED
        BY <1>8, <1>9, <3>1, <4>1
    <3> QED
      BY <3>2, <3>3
  <2> QED
    BY <2>2, <2>3
<1>10. CASE InView /\ c = ui
  <2>1. CASE ui.status \in Ends \cup {"none"}
    BY <1>6, <1>10, <2>1
  <2>2. CASE ui.status \notin Ends \cup {"none"}
    <3>1. d = FinalizeRun(ui, "cancelled", r) /\ ui.run # None
      BY <1>10, <2>2 DEF IInv, StoreAgrees
    <3>2. CASE ui.run = r
      BY <1>4, <1>8, <1>10, <3>1, <3>2 DEF SamePlace
    <3>3. CASE ui.run # r
      BY <1>6, <1>10, <3>1, <3>3, FinalizesNothing
    <3> QED
      BY <3>2, <3>3
  <2> QED
    BY <2>1, <2>2
<1> QED
  BY <1>5, <1>9, <1>10

LEMMA PostAnsweredSteps == ASSUME IInv, NEW r \in Runs, PostAnswered(r) PROVE IInv'
<1>1. /\ post[r] \in {"accepted", "refused"} /\ post' = [post EXCEPT ![r] = "done"]
      /\ UNCHANGED <<status, log, cancel, load, left>>
  BY DEF PostAnswered
<1>2. PostGoesOn /\ CancelStill /\ left' \in Nat /\ left' <= left
  BY <1>1, CancelStays, Shaped DEF PostGoesOn
<1>3. CASE UNCHANGED <<ui, submit, mending>>
  <2>1. LoadStill /\ SubmitStill
    BY <1>1, <1>2, <1>3, LoadStays, SubmitStays DEF IInv, Listing
  <2>2. StoreStill
    BY <1>1, <1>3, Shaped DEF StoreStill, IInv, StoreAgrees, JustNamed
  <2> QED
    BY <1>1, <1>2, <2>1, <2>2, StillKeeps DEF Still
<1>4. CASE submit.pc = "posted" /\ Throw(ui)
  BY <1>1, <1>2, <1>4, ThrowSteps
<1>5. CASE /\ submit.pc = "posted" /\ submit.run = r
           /\ ui' = ApplyStart(ui, r)
           /\ submit' = [submit EXCEPT !.pc = "following", !.lease = Lease(ApplyStart(ui, r), r)]
           /\ UNCHANGED mending
  <2>1. load.pc = "idle" /\ ui \in Stores /\ IsFiniteSet(ui.polls) /\ r # None
    BY <1>5, Shaped, NoneApart DEF IInv, StoreAgrees
  <2>2. \/ ui' = ui /\ ui.run = None /\ ui.status \in Ends
        \/ ui' = ui /\ ui.run = r /\ ui.status # "none"
        \/ /\ ui' \in Stores /\ SamePlace(ui, ui') /\ ui'.run = r /\ ui'.status = "pending"
           /\ ui'.shut = ui.shut /\ ui'.timer = Lease(ui', r) /\ ui'.stream = ui.stream
           /\ ui'.guard = ui.guard
           /\ ui.run = r => SameRun(ui, ui')
           /\ ui.run # r => ui'.last = None /\ ui'.epoch \notin Held(ui.polls) \cup {ui.epoch}
    BY <1>5, <2>1, AppliesStart
  <2>3. ui' \in Stores /\ ui'.view = ui.view
    BY <2>1, <2>2 DEF SamePlace
  <2>4. submit' = [submit EXCEPT !.pc = "following", !.lease = Lease(ui', r)]
        /\ Lease(ui', r) \in Leases /\ Lease(ui', r).run = r /\ Lease(ui', r).view = ui.view
    BY <1>5, <2>3 DEF Lease, Leases, Stores
  <2>5. LoadStill /\ SubmitStill
    <3>1. LoadStill
      BY <1>1, <2>1, LoadStays
    <3>2. /\ submit' \in [pc : {"idle", "posted", "following", "rescuing", "closing"},
                          run : Runs \cup {None}, lease : Leases, broken : BOOLEAN]
          /\ submit'.pc = "following" /\ submit'.run = r /\ submit'.lease = Lease(ui', r)
      BY <1>5, <2>4, Shaped
    <3> QED
      BY <1>1, <1>2, <1>5, <2>1, <2>4, <3>1, <3>2, Shaped DEF SubmitStill
  <2>6. CASE ui' = ui
    <3>1. StoreStill
      BY <1>1, <2>1, <2>2, <2>6, Shaped
      DEF StoreStill, IInv, StoreAgrees, JustNamed, SamePlace, Statuses, Active, Ends
    <3> QED
      BY <1>1, <1>2, <2>5, <3>1, StillKeeps DEF Still
  <2>7. CASE ui' # ui
    <3>1. /\ SamePlace(ui, ui') /\ ui'.run = r /\ ui'.status = "pending"
          /\ ui'.shut = ui.shut /\ ui'.timer = Lease(ui', r) /\ ui'.guard = ui.guard
          /\ ui.run = r => SameRun(ui, ui')
          /\ ui.run # r => ui'.last = None /\ ui'.epoch \notin Held(ui.polls) \cup {ui.epoch}
      BY <2>2, <2>7
    <3>2. Moving
      BY <1>1, <1>2, <2>1, <2>3, <2>5, <3>1, Shaped
      DEF Moving, SamePlace, IInv, StoreAgrees, Bounds
    <3>3. LeaseCurrent(ui, ui.timer)' /\ Bound(ui.timer)'
      BY <3>1 DEF LeaseCurrent, Bound, Lease
    <3>4. ui'.last = None
      BY <2>1, <3>1 DEF SameRun, IInv, StoreAgrees
    <3>5. ui'.timer.run # None /\ ui'.timer.view <= ui.view
      BY <2>1, <2>4, <3>1, Shaped
    <3>6. ShowsGoingOn
      BY <3>1, <3>2, <3>3, <3>4, <3>5 DEF ShowsGoingOn, SameRun, SamePlace, Ends
    <3> QED
      BY <3>6, GoingOnKeeps
  <2> QED
    BY <2>6, <2>7
<1> QED
  BY <1>1, <1>3, <1>4, <1>5 DEF PostAnswered

LEMMA RecoverFailureSteps == ASSUME IInv, RecoverFailure PROVE IInv'
<1>0. PICK m \in mending :
        /\ mending' = mending \ {m}
        /\ ui' = [ResetRunState(ui) EXCEPT !.durable = IF m.view = ui.view THEN Saved ELSE @]
  BY DEF RecoverFailure
<1> DEFINE c == ResetRunState(ui)
           D == IF m.view = ui.view THEN Saved ELSE c.durable
<1>1. /\ mending' = mending \ {m} /\ ui' = [c EXCEPT !.durable = D]
      /\ UNCHANGED <<status, log, post, submit, cancel, load, left>>
  BY <1>0 DEF RecoverFailure
<1>2. /\ c \in Stores /\ SamePlace(ui, c)
      /\ c.run = None /\ c.last = None /\ c.status = "none" /\ ~c.streaming
      /\ c.timer = NoLease /\ c.guard = NoGuard
      /\ c.stream = ui.stream /\ c.shut = ui.shut
      /\ c.epoch = ui.epoch \/ c.epoch \notin Held(ui.polls)
      /\ ui.run = None \/ c.epoch \notin Held(ui.polls)
  BY ResetsRun, Shaped
<1>3. D \subseteq Runs
  BY <1>2, Shaped DEF Stores
<1> HIDE DEF c, D
<1>4. /\ ui' \in Stores /\ SamePlace(ui, ui')
      /\ ui'.run = None /\ ui'.last = None /\ ui'.status = "none" /\ ~ui'.streaming
      /\ ui'.timer = NoLease /\ ui'.guard = NoGuard
      /\ ui'.stream = ui.stream /\ ui'.shut = ui.shut
      /\ ui'.epoch = ui.epoch \/ ui'.epoch \notin Held(ui.polls)
      /\ ui.run = None \/ ui'.epoch \notin Held(ui.polls)
  BY <1>1, <1>2, <1>3 DEF Stores, SamePlace
<1>5. /\ Shapes /\ Bounds /\ LogAgrees /\ StoreAgrees /\ LeasesAgree
      /\ Listing /\ LeasesBound /\ Rescued
  BY Parts
<1>6. Shapes'
  BY <1>1, <1>4, <1>5 DEF Shapes, SamePlace
<1>7. Bounds'
  BY <1>1, <1>4, <1>5, Shaped DEF Bounds, SamePlace, NoLease, NoGuard
<1>8. LogAgrees'
  BY <1>1, <1>5, LogStays
<1>9. StoreAgrees'
  BY <1>1, <1>4, <1>5 DEF StoreAgrees, SamePlace
<1>10. LeasesAgree'
  BY <1>1, <1>4, <1>5 DEF LeasesAgree, SamePlace
<1>11. Listing'
  BY <1>1, <1>4, <1>5 DEF Listing, SamePlace
<1>12. Attended'
  BY <1>4 DEF Attended
<1>13. LeasesBound'
  <2>1. Rebinds /\ ui'.view = ui.view /\ ui'.polls = ui.polls /\ UNCHANGED <<cancel, load, submit>>
    BY <1>1, <1>4 DEF Rebinds, SamePlace
  <2>2. Bound(ui.timer)'
    BY <1>4, <2>1, Shaped DEF Bound, NoLease
  <2> QED
    BY <1>5, <2>1, <2>2, BoundKeeps
<1>14. Rescued'
  BY <1>1, <1>4, <1>5, RescuedKeeps DEF SamePlace
<1> QED
  BY <1>6, <1>7, <1>8, <1>9, <1>10, <1>11, <1>12, <1>13, <1>14 DEF IInv

LEMMA SubmitSteps == ASSUME IInv, Submit PROVE IInv'
<1> DEFINE r == Cardinality(Used) + 1
           c == IF ui.status \in Ends THEN ResetRunState(ui) ELSE ui
<1>1. /\ ~ui.loading /\ ~ui.streaming /\ Used # Runs
      /\ ui' = [c EXCEPT !.streaming = TRUE, !.waiting = FALSE, !.error = FALSE, !.stream = TRUE]
      /\ submit' = [pc |-> "posted", run |-> r, lease |-> NoLease, broken |-> FALSE]
      /\ post' = [post EXCEPT ![r] = "sent"]
      /\ UNCHANGED <<status, log, mending, cancel, load>>
      /\ left' \in Nat /\ left' <= left
  BY Incidents DEF Submit, MaySubmit
<1>2. /\ Shapes /\ Bounds /\ LogAgrees /\ StoreAgrees /\ LeasesAgree
      /\ Attended /\ LeasesBound /\ Rescued
  BY Parts
<1>3. PICK k \in 0 .. MaxRuns : Used = 1 .. k
  BY <1>2 DEF Rescued
<1>4. /\ r = k + 1 /\ k + 1 \in 1 .. MaxRuns /\ r \in Runs /\ r # None /\ post[r] = "none"
  <2>1. k \in Nat /\ MaxRuns \in Nat /\ Cardinality(1 .. k) = k
    BY <1>3, FS_Interval, ChatAssumption
  <2>2. k # MaxRuns
    BY <1>1, <1>3 DEF Runs
  <2>3. r = k + 1 /\ k + 1 \in 1 .. MaxRuns /\ k + 1 \notin Used
    BY <1>3, <2>1, <2>2
  <2> QED
    BY <2>3 DEF Runs, Used, None
<1>5. /\ c \in Stores /\ SamePlace(ui, c)
      /\ c.shut = ui.shut /\ c.guard \in {ui.guard, NoGuard} /\ c.timer \in {ui.timer, NoLease}
      /\ c.run = None => c.status = "none" /\ c.last = None
      /\ c.run # None => c = ui /\ ui.status \notin Ends
      /\ c = ui \/ c.timer = NoLease
      /\ c.last = None
      /\ \/ c.run = ui.run /\ c.epoch = ui.epoch
         \/ c.epoch \notin Held(ui.polls)
  <2>1. CASE ui.status \in Ends
    <3>1. c = ResetRunState(ui) /\ ui.run = None
      BY <1>2, <2>1 DEF StoreAgrees
    <3> HIDE DEF c
    <3> QED
      BY <3>1, ResetsRun, Shaped
  <2>2. CASE ui.status \notin Ends
    BY <1>2, <2>2, Shaped DEF StoreAgrees, SamePlace
  <2> QED
    BY <2>1, <2>2
<1> HIDE DEF c, r
<1>6. /\ ui' \in Stores /\ SamePlace(c, ui') /\ SameRun(c, ui') /\ ui'.status = c.status
      /\ ui'.timer = c.timer /\ ui'.shut = c.shut /\ ui'.guard = c.guard
  BY ZenonT(60), <1>1, <1>5 DEF Stores, SamePlace, SameRun
<1>7. /\ submit' \in [pc : {"idle", "posted", "following", "rescuing", "closing"},
                      run : Runs \cup {None}, lease : Leases, broken : BOOLEAN]
      /\ submit'.pc = "posted" /\ submit'.run = r /\ submit'.lease = NoLease
  BY <1>1, <1>4, Shaped
<1>8. /\ post' \in [Runs -> {"none", "sent", "accepted", "refused", "done"}]
      /\ post'[r] = "sent" /\ \A q \in Runs : q # r => post'[q] = post[q]
  BY <1>1, <1>4, Shaped
<1>9. load.pc = "idle"
  BY <1>1, <1>2 DEF StoreAgrees
<1>10. Shapes'
  BY <1>1, <1>2, <1>5, <1>6, <1>7, <1>8 DEF Shapes, SamePlace
<1>11. Bounds'
  <2>1. ui.view \in Nat \ {0} /\ left \in Nat /\ ui.view + left' <= MaxIncidents + 1
    BY <1>1, <1>2, Shaped, ChatAssumption DEF Bounds
  <2>2. /\ ui'.timer.view <= ui.view /\ submit'.lease.view <= ui.view
        /\ ui'.guard.floor <= Len(log)
    BY <1>2, <1>5, <1>6, <1>7, <2>1, Shaped DEF Bounds, NoLease, NoGuard
  <2> QED
    BY <1>1, <1>2, <1>5, <1>6, <2>1, <2>2 DEF Bounds, SamePlace
<1>12. LogAgrees'
  BY <1>1, <1>2, <1>4, <1>8 DEF LogAgrees
<1>13. StoreAgrees'
  BY <1>1, <1>2, <1>5, <1>6, <1>7, <1>9 DEF StoreAgrees, SamePlace, SameRun
<1>14. LeasesAgree'
  BY <1>1, <1>2, <1>4, <1>5, <1>6, <1>7, <1>8 DEF LeasesAgree, SamePlace
<1>15. Listing'
  BY <1>1, <1>9 DEF Listing
<1>16. Attended'
  <2>1. CASE c.run = None
    BY <1>6, <2>1 DEF Attended, SameRun
  <2>2. CASE c.run # None
    <3>1. c = ui
      BY <1>5, <2>2
    <3> QED
      BY <1>1, <1>2, <1>6, <3>1
      DEF Attended, ByTimer, JustNamed, LeaseCurrent, SamePlace, SameRun
  <2> QED
    BY <2>1, <2>2
<1>17. LeasesBound'
  <2>1. ui'.view = ui.view /\ ui'.polls = ui.polls /\ ui'.last = None /\ UNCHANGED <<cancel, load>>
    BY <1>1, <1>5, <1>6 DEF SamePlace, SameRun
  <2>2. Rebinds
    BY <1>5, <1>6, <2>1 DEF Rebinds, SameRun
  <2>3. Bound(ui.timer)'
    <3>1. CASE c.timer = NoLease
      BY <1>6, <2>1, <3>1, Shaped DEF Bound, NoLease
    <3>2. CASE c = ui
      BY <1>2, <1>6, <2>1, <3>2 DEF LeasesBound, Bound, SameRun
    <3> QED
      BY <1>5, <3>1, <3>2
  <2> QED
    BY <1>2, <2>1, <2>2, <2>3, BoundKeeps DEF LeasesAgree
<1>18. Rescued'
  <2>1. Used' = 1 .. k + 1 /\ k + 1 \in 0 .. MaxRuns
    <3>1. k \in Nat /\ MaxRuns \in Nat
      BY <1>3, ChatAssumption
    <3>2. \A q \in Runs : q \in Used' <=> q \in Used \cup {r}
      BY <1>8 DEF Used
    <3>3. \A q \in Runs : q \in Used <=> q \in 1 .. k
      BY <1>3
    <3>4. Used' \subseteq Runs
      BY DEF Used
    <3>5. 1 .. k + 1 \subseteq Runs /\ k + 1 \in 0 .. MaxRuns
      BY <1>4, <3>1 DEF Runs
    <3>6. \A q \in Runs : q \in Used' <=> q \in 1 .. k + 1
      BY <1>4, <3>1, <3>2, <3>3 DEF Runs
    <3> QED
      BY <3>4, <3>5, <3>6
  <2>2. ui'.polls = ui.polls
    BY <1>5, <1>6 DEF SamePlace
  <2>3. ASSUME NEW p \in ui.polls, p.kind = "rescue"
        PROVE  post'[p.lease.run] # "none" /\ p.lease.run # submit'.run
    <3>1. p.lease.run \in Runs /\ post[p.lease.run] # "none"
      BY <1>2, <2>3 DEF Shapes, Stores, Polls, Leases, LeasesAgree, Rescued
    <3> QED
      BY <1>4, <1>7, <1>8, <3>1
  <2>4. \A p, q \in ui.polls : p.kind = "rescue" /\ q.kind = "rescue"
                                /\ q.lease.run = p.lease.run => p = q
    BY <1>2 DEF Rescued
  <2>5. \E n \in 0 .. MaxRuns : Used' = 1 .. n
    BY <2>1
  <2>6. \A p \in ui'.polls : p.kind = "rescue" =>
           /\ post'[p.lease.run] # "none" /\ p.lease.run # submit'.run
           /\ \A q \in ui'.polls : q.kind = "rescue" /\ q.lease.run = p.lease.run => p = q
    BY <2>2, <2>3, <2>4
  <2> QED
    BY <2>5, <2>6 DEF Rescued
<1> QED
  BY <1>10, <1>11, <1>12, <1>13, <1>14, <1>15, <1>16, <1>17, <1>18 DEF IInv

LEMMA SwitchToThreadSteps == ASSUME IInv, SwitchToThread PROVE IInv'
<1> DEFINE c == ResetRunState(ui)
<1>1. /\ left > 0 /\ left' = left - 1 /\ submit' = Quiet
      /\ ui' = [c EXCEPT !.view = @ + 1, !.stream = FALSE, !.loading = TRUE,
                         !.error = FALSE, !.drawn = {}, !.durable = {}, !.shut = {}]
      /\ UNCHANGED <<status, log, post, mending, cancel>>
      /\ load'.pc = "listing"
      /\ load' \in [pc : {"idle", "listing", "replaying"},
                    run : Runs \cup {None}, lease : Leases, at : Nat]
      /\ load'.lease = NoLease /\ load'.at = 0
  <2>1. PICK r \in Runs \cup {None} : load' = [NoLoad EXCEPT !.pc = "listing", !.run = r]
    BY DEF SwitchToThread
  <2>2. /\ load'.pc = "listing" /\ load'.lease = NoLease /\ load'.at = 0
        /\ load' \in [pc : {"idle", "listing", "replaying"},
                      run : Runs \cup {None}, lease : Leases, at : Nat]
    BY <2>1, LoadsNothing
  <2> QED
    BY <2>2 DEF SwitchToThread, Incident
<1>2. /\ c \in Stores /\ SamePlace(ui, c)
      /\ c.run = None /\ c.last = None /\ c.status = "none" /\ ~c.streaming
      /\ c.timer = NoLease /\ c.guard = NoGuard
  BY ResetsRun, Shaped
<1> HIDE DEF c
<1>3. /\ ui' \in Stores /\ ui'.view = ui.view + 1 /\ ui'.polls = ui.polls
      /\ ui'.run = None /\ ui'.last = None /\ ui'.status = "none" /\ ~ui'.streaming
      /\ ui'.timer = NoLease /\ ui'.guard = NoGuard /\ ui'.cursor = ui.cursor
      /\ ui'.loading /\ ~ui'.stream /\ ui'.shut = {}
  <2> DEFINE v == c.view + 1
  <2>1. v \in Nat \ {0} /\ {} \in SUBSET Runs
    BY <1>2 DEF Stores
  <2>2. ui' = [c EXCEPT !.view = v, !.stream = FALSE, !.loading = TRUE,
                        !.error = FALSE, !.drawn = {}, !.durable = {}, !.shut = {}]
    BY <1>1
  <2> HIDE DEF v
  <2>3. ui' \in Stores
    BY <1>2, <2>1, <2>2 DEF Stores
  <2>4. ui'.view = v /\ v = ui.view + 1
    BY <1>2, <2>2 DEF v, Stores, SamePlace
  <2> QED
    BY <1>2, <2>2, <2>3, <2>4 DEF Stores, SamePlace
<1>4. /\ Shapes /\ Bounds /\ LogAgrees /\ LeasesAgree /\ LeasesBound /\ Rescued
  BY Parts
<1>5. /\ ui.view \in Nat \ {0} /\ mending \subseteq Failures /\ left' \in Nat
      /\ ui.timer.view \in Nat /\ cancel.lease.view \in Nat
      /\ \A p \in ui.polls : p.lease.view \in Nat
  <2>1. left' \in Nat
    BY <1>1, Shaped
  <2>2. /\ ui.timer \in Leases /\ cancel.lease \in Leases
        /\ \A p \in ui.polls : p.lease \in Leases
    BY Shaped DEF Stores, Polls
  <2> QED
    BY <2>1, <2>2, Shaped DEF Leases
<1>6. Shapes'
  BY <1>1, <1>3, <1>4, <1>5, SubmitsQuiet DEF Shapes
<1>7. Bounds'
  <2>1. /\ ui'.view + left' <= MaxIncidents + 1
        /\ \A m \in mending : m.view <= ui'.view
    BY SMTT(30), <1>1, <1>3, <1>4, <1>5, Shaped, ChatAssumption DEF Bounds, Failures
  <2>2. /\ ui'.timer.view <= ui'.view /\ submit'.lease.view <= ui'.view
        /\ cancel.lease.view <= ui'.view /\ load'.lease.view <= ui'.view
        /\ ui'.guard.floor <= Len(log)
    BY <1>1, <1>3, <1>4, <1>5, SubmitsQuiet, Shaped DEF Bounds, NoLease, NoGuard
  <2>3. \A p \in ui'.polls : p.snap.at <= Len(log) /\ p.lease.view <= ui'.view
    BY <1>3, <1>4, <1>5 DEF Bounds
  <2> QED
    BY <1>1, <1>3, <1>4, <2>1, <2>2, <2>3, Shaped DEF Bounds
<1>8. LogAgrees'
  BY <1>1, <1>4, LogStays
<1>9. StoreAgrees'
  BY <1>1, <1>3, SubmitsQuiet DEF StoreAgrees
<1>10. LeasesAgree'
  BY <1>1, <1>3, <1>4, SubmitsQuiet DEF LeasesAgree
<1>11. Listing'
  BY <1>1, <1>3, <1>4, <1>5 DEF Listing, Bounds
<1>12. Attended'
  BY <1>3 DEF Attended
<1>13. LeasesBound'
  <2>1. /\ Bound(ui.timer)' /\ Bound(cancel.lease)' /\ load'.pc # "replaying"
    BY <1>1, <1>3, <1>4, <1>5 DEF Bound, NoLease, Bounds
  <2>2. \A p \in ui'.polls : p.lease.view # ui'.view
    BY <1>3, <1>4, <1>5 DEF Bounds
  <2>3. \A p \in ui'.polls : PollBound(p)'
    BY <2>2 DEF PollBound, Bound, LeaseCurrent
  <2> QED
    BY <2>1, <2>3 DEF LeasesBound
<1>14. Rescued'
  <2>1. submit'.pc \notin {"posted", "following"}
    BY <1>1, SubmitsQuiet
  <2> QED
    BY <1>1, <1>3, <1>4, <2>1, RescuedKeeps
<1> QED
  BY <1>6, <1>7, <1>8, <1>9, <1>10, <1>11, <1>12, <1>13, <1>14 DEF IInv

(* The conversation is drawn as the run is: it has ended, is at work, or goes *)
(* on in another way.                                                        *)
LEMMA LoadThreadSteps == ASSUME IInv, LoadThread PROVE IInv'
<1> DEFINE r == load.run
           u == [ui EXCEPT !.durable = Saved]
           b == SetActiveRun(u, r)
           l == Lease(b, r)
           snap == Snapshot(r)
           c == SyncRunState(b, l, snap)
           e == ClearGuard(c, r)
<1>1. /\ load.pc = "listing"
      /\ UNCHANGED <<status, log, post, submit, mending, cancel, left>>
  BY DEF LoadThread
<1>2. /\ ui.run = None /\ ui.last = None /\ ui.status = "none" /\ ~ui.stream /\ ui.loading
      /\ ui.timer = NoLease /\ submit.pc = "idle" /\ ui.shut = {}
  BY <1>1 DEF IInv, Listing, StoreAgrees
<1>3. /\ PostGoesOn /\ CancelStill /\ left' \in Nat /\ left' <= left
  BY <1>1, PostStays, CancelStays, Shaped
<1>4. SubmitStill
  BY <1>1, <1>2, <1>3, Shaped DEF SubmitStill, IInv, Bounds
<1>5. /\ u \in Stores /\ Alike(ui, u) /\ u.cursor = ui.cursor
  BY Shaped DEF Stores, Alike
<1>6. CASE r = None
  <2>1. ui' = [u EXCEPT !.loading = FALSE] /\ load' = NoLoad
    BY <1>6 DEF LoadThread, Loaded
  <2>2. /\ ui' \in Stores /\ Alike([u EXCEPT !.loading = FALSE], ui') /\ ui'.cursor = ui.cursor
        /\ ~ui'.loading
    BY <1>5, <2>1 DEF Stores, Alike
  <2>3. LoadStill
    BY <2>1, LoadsNothing, Shaped DEF LoadStill
  <2>4. StoreStill
    BY <1>2, <1>5, <2>1, <2>2, LoadsNothing, Shaped
    DEF StoreStill, Stores, Alike, IInv, StoreAgrees, JustNamed
  <2> QED
    BY <1>1, <1>3, <1>4, <2>3, <2>4, StillKeeps DEF Still
<1>7. /\ r # None /\ status[r] \in Ends => Loaded(c)
      /\ r # None /\ status[r] \notin Ends /\ status[r] \in {"pending", "running"} =>
            /\ ui' = [e EXCEPT !.asked = FALSE, !.cursor = 0, !.drawn = @ \ {r}]
            /\ load' = [pc |-> "replaying", run |-> r, lease |-> Lease(c, r), at |-> 0]
      /\ r # None /\ status[r] \notin Ends /\ status[r] \notin {"pending", "running"} =>
            Loaded([c EXCEPT !.stream = TRUE])
  <2> HIDE DEF c, e
  <2>1. CASE r = None
    BY <2>1
  <2>2. CASE r # None /\ status[r] \in Ends
    BY <2>2 DEF LoadThread, c, Ends
  <2>3. CASE r # None /\ status[r] \notin Ends /\ status[r] \in {"pending", "running"}
    BY <2>3 DEF LoadThread, c, e
  <2>4. CASE r # None /\ status[r] \notin Ends /\ status[r] \notin {"pending", "running"}
    BY <2>4 DEF LoadThread, c
  <2> QED
    BY <2>1, <2>2, <2>3, <2>4
<1>8. CASE r # None
  <2>1. /\ r \in Runs /\ status[r] \in Statuses /\ snap \in Snaps /\ snap.status = status[r]
        /\ snap.at <= Len(log)
    BY <1>8, Shaped, Parts, SnapshotReads DEF Shapes
  <2>2. u \in Stores /\ IsFiniteSet(u.polls) /\ r \in Runs \cup {None}
    BY <1>5, <2>1, Shaped DEF Alike
  <2> HIDE DEF u, b
  <2>3. /\ b \in Stores /\ SamePlace(u, b) /\ b.run = r /\ b.stream = u.stream
        /\ b.shut = u.shut /\ b.guard = u.guard /\ b.last = None
        /\ b.epoch \notin Held(u.polls)
    <3>1. b = SetActiveRun(u, r) /\ u.run # r
      BY <1>2, <1>5, <1>8 DEF b, Alike
    <3> QED
      BY <1>8, <2>2, <3>1, BindsRun
  <2>4. /\ SamePlace(ui, b) /\ ~b.stream /\ b.shut = {} /\ b.guard = ui.guard
        /\ b.epoch \notin Held(ui.polls) /\ IsFiniteSet(b.polls)
    BY <1>2, <1>5, <2>3, Shaped DEF Alike, SamePlace
  <2>5. l \in Leases /\ l.run = r /\ l.view = ui.view /\ l.epoch = b.epoch
    BY <2>1, <2>3, <2>4 DEF Lease, Leases, Stores, SamePlace
  <2>6. /\ b \in Stores /\ IsFiniteSet(b.polls) /\ l \in Leases /\ l.run # None
        /\ b.run \in {None, l.run} /\ snap \in Snaps /\ c = SyncRunState(b, l, snap)
    BY <1>8, <2>1, <2>3, <2>4, <2>5
  <2>7. CASE snap.status \in Ends
    <3>1. /\ c \in Stores /\ SamePlace(b, c)
          /\ c.run = None /\ c.last = l.run /\ c.status = snap.status /\ ~c.streaming
          /\ c.shut = b.shut \cup {l.run} /\ c.timer = NoLease /\ c.stream = b.stream
          /\ c.guard \in {b.guard, NoGuard}
          /\ c.epoch \notin Held(b.polls)
      <4> HIDE DEF l, snap, c
      <4> QED
        BY <2>6, <2>7, SyncsEnd
    <3>2. ui' = [c EXCEPT !.loading = FALSE] /\ load' = NoLoad
      <4>1. status[r] \in Ends
        BY <2>1, <2>7
      <4> QED
        BY <1>7, <1>8, <4>1 DEF Loaded
    <3> HIDE DEF c
    <3>3. /\ ui' \in Stores /\ ~ui'.loading /\ ui'.view = ui.view /\ ui'.polls = ui.polls
          /\ ui'.cursor = ui.cursor /\ ui'.guard \in {ui.guard, NoGuard}
          /\ ui'.run = None /\ ui'.last = r /\ ui'.status = snap.status /\ ~ui'.streaming
          /\ ui'.shut = {r} /\ ui'.timer = NoLease /\ ui'.epoch \notin Held(ui.polls)
      <4>1. c.polls = ui.polls /\ c.view = ui.view /\ c.cursor = ui.cursor
        BY <2>4, <3>1 DEF SamePlace
      <4> QED
        BY <2>4, <2>5, <3>1, <3>2, <4>1 DEF Stores, SamePlace
    <3>4. Moving
      BY <1>1, <1>3, <1>4, <3>2, <3>3, LoadsNothing, CancelsNothing, Shaped
      DEF Moving, LoadStill, IInv, Bounds, NoGuard
    <3>5. ShowsEnded
      BY <2>7, <3>3, <3>4 DEF ShowsEnded
    <3> QED
      BY <3>5, EndedKeeps
  <2>8. CASE snap.status \notin Ends
    <3>1. /\ c \in Stores /\ SamePlace(b, c)
          /\ c.run = l.run /\ c.status = snap.status /\ c.shut = b.shut /\ c.timer = l
          /\ c.stream = b.stream
          /\ c.guard \in {b.guard, [run |-> l.run, floor |-> snap.at]}
          /\ b.run = l.run => SameRun(b, c)
      <4> HIDE DEF l, snap, c
      <4> QED
        BY <2>6, <2>8, SyncsOther
    <3>2. /\ c.polls = ui.polls /\ c.view = ui.view /\ c.cursor = ui.cursor
          /\ c.run = r /\ c.last = None /\ c.epoch = b.epoch /\ c.shut = {}
          /\ c.guard.floor <= Len(log)
      <4>1. ui.guard.floor <= Len(log)
        BY Parts DEF Bounds
      <4> QED
        BY <2>1, <2>3, <2>4, <2>5, <3>1, <4>1 DEF SamePlace, SameRun
    <3>3. status[r] \notin Ends
      BY <2>1, <2>8
    <3>4. LeaseCurrent(c, l) /\ l.epoch = c.epoch
      BY <2>5, <3>2 DEF LeaseCurrent
    <3> DEFINE Shows ==
                 /\ ui' \in Stores /\ ui'.view = ui.view /\ ui'.polls = ui.polls
                 /\ ui'.guard \in {c.guard, NoGuard} /\ ui'.epoch = b.epoch
                 /\ ui'.run = r /\ ui'.last = None /\ ui'.status = snap.status
                 /\ ui'.shut = {} /\ ui'.timer = l /\ ui'.cursor \in {ui.cursor, 0}
    <3>5. ASSUME Shows, Moving PROVE ShowsGoingOn
      <4>1. LeaseCurrent(ui, ui.timer)' /\ Bound(ui.timer)' /\ ui'.run \in Runs
        BY <1>8, <2>1, <2>5, <3>5 DEF LeaseCurrent, Bound
      <4>2. ui'.timer.run # None /\ ui'.timer.view <= ui.view
        BY <2>5, <2>6, <3>5, Shaped
      <4>3. ui'.epoch \notin Held(ui'.polls)
        BY <2>4, <3>5
      <4> QED
        BY <2>8, <3>5, <4>1, <4>2, <4>3 DEF ShowsGoingOn
    <3> HIDE DEF c
    <3>6. CASE status[r] \in {"pending", "running"}
      <4>1. /\ ui' = [e EXCEPT !.asked = FALSE, !.cursor = 0, !.drawn = @ \ {r}]
            /\ load' = [pc |-> "replaying", run |-> r, lease |-> Lease(c, r), at |-> 0]
        BY <1>7, <1>8, <3>3, <3>6
      <4>2. /\ e \in Stores /\ SamePlace(c, e) /\ SameRun(c, e) /\ e.status = c.status
            /\ e.timer = c.timer /\ e.shut = c.shut /\ e.guard \in {c.guard, NoGuard}
        BY <3>1, ClearsGuard
      <4> HIDE DEF e
      <4>3. /\ ui' \in Stores /\ ui'.cursor = 0 /\ SameRun(e, ui') /\ ui'.view = e.view
            /\ ui'.polls = e.polls /\ ui'.loading = e.loading /\ ui'.status = e.status
            /\ ui'.timer = e.timer /\ ui'.shut = e.shut /\ ui'.guard = e.guard
        <5>1. 0 \in Nat /\ e.drawn \ {r} \in SUBSET Runs
          BY <4>2 DEF Stores
        <5> QED
          BY <4>1, <4>2, <5>1 DEF Stores, SameRun
      <4>4. Shows /\ ui'.loading
        BY <1>2, <2>4, <3>1, <3>2, <4>2, <4>3 DEF SamePlace, SameRun
      <4>5. /\ load'.pc = "replaying" /\ load'.run = r /\ load'.lease = Lease(ui', r)
            /\ load'.at = 0
            /\ load' \in [pc : {"idle", "listing", "replaying"},
                          run : Runs \cup {None}, lease : Leases, at : Nat]
        <5>1. Lease(c, r) = l /\ Lease(ui', r) = l
          BY <2>4, <3>2, <4>4 DEF Lease, SamePlace, l
        <5> QED
          BY <2>1, <2>5, <4>1, <5>1
      <4>6. LoadBinds
        BY <2>1, <4>4, <4>5, Shaped DEF LoadBinds
      <4>7. Moving
        BY <1>1, <1>3, <1>4, <3>2, <4>4, <4>5, <4>6, Shaped DEF Moving, NoGuard
      <4> QED
        BY <3>5, <4>4, <4>7, GoingOnKeeps
    <3>7. CASE status[r] \notin {"pending", "running"}
      <4>1. ui' = [c EXCEPT !.stream = TRUE, !.loading = FALSE] /\ load' = NoLoad
        BY <1>7, <1>8, <3>3, <3>7 DEF Loaded
      <4>2. Shows /\ ~ui'.loading
        BY <2>4, <3>1, <3>2, <4>1 DEF Stores, SamePlace
      <4>3. Moving
        BY <1>1, <1>3, <1>4, <3>2, <4>1, <4>2, LoadsNothing, Shaped
        DEF Moving, LoadStill, NoGuard
      <4> QED
        BY <3>5, <4>2, <4>3, GoingOnKeeps
    <3> QED
      BY <3>6, <3>7
  <2> QED
    BY <2>7, <2>8
<1> QED
  BY <1>6, <1>8

-----------------------------------------------------------------------------
(* The invariant is inductive.                                               *)

LEMMA InitSteps == Init => IInv
<1> SUFFICES ASSUME Init PROVE IInv
  OBVIOUS
<1>1. /\ NoLease \in Leases /\ NoGuard \in [run : Runs \cup {None}, floor : Nat]
      /\ {} \in SUBSET Polls /\ {} \in SUBSET Runs /\ "none" \in Statuses
      /\ IsFiniteSet({}) /\ MaxIncidents \in Nat /\ MaxRuns \in Nat
  BY FS_EmptySet, ChatAssumption DEF NoLease, Leases, NoGuard, Statuses
<1>2. /\ log = <<>> /\ log \in Seq(Events) /\ Len(log) = 0
  BY DEF Init
<1>3. /\ ui \in Stores /\ ui.view = 1 /\ ui.run = None /\ ui.last = None /\ ui.status = "none"
      /\ ~ui.streaming /\ ~ui.loading /\ ui.cursor = 0 /\ ui.timer = NoLease /\ ui.polls = {}
      /\ ui.guard = NoGuard
  BY <1>1 DEF Init, Stores
<1>4. /\ submit = Quiet /\ mending = {} /\ cancel = NoCancel /\ load = NoLoad
      /\ left = MaxIncidents
      /\ status = [r \in Runs |-> "none"] /\ post = [r \in Runs |-> "none"]
  BY DEF Init
<1>5. Shapes
  BY <1>1, <1>2, <1>3, <1>4, SubmitsQuiet, CancelsNothing, LoadsNothing DEF Shapes
<1>6. Bounds
  BY <1>1, <1>2, <1>3, <1>4, SubmitsQuiet, CancelsNothing, LoadsNothing
  DEF Bounds, NoLease, NoGuard
<1>7. LogAgrees
  BY <1>2, <1>4 DEF LogAgrees
<1>8. StoreAgrees
  BY <1>3, <1>4, SubmitsQuiet, LoadsNothing DEF StoreAgrees
<1>9. LeasesAgree
  BY <1>3, <1>4, SubmitsQuiet, CancelsNothing, LoadsNothing DEF LeasesAgree
<1>10. Listing /\ Attended
  BY <1>3, <1>4, LoadsNothing DEF Listing, Attended
<1>11. LeasesBound
  BY <1>3, <1>4, CancelsNothing, LoadsNothing DEF LeasesBound, Bound, NoLease
<1>12. Rescued
  <2>1. Used = 1 .. 0 /\ 0 \in 0 .. MaxRuns
    BY <1>1, <1>4 DEF Used
  <2> QED
    BY <1>3, <2>1 DEF Rescued
<1> QED
  BY <1>5, <1>6, <1>7, <1>8, <1>9, <1>10, <1>11, <1>12 DEF IInv

(* Nothing but the variables matters. *)
LEMMA StutterSteps == ASSUME IInv, UNCHANGED vars PROVE IInv'
<1>1. /\ UNCHANGED <<ui, submit, mending, load, cancel, left, post, status, log>>
      /\ left' \in Nat /\ left' <= left /\ Len(log') >= Len(log)
      /\ post' \in [Runs -> {"none", "sent", "accepted", "refused", "done"}]
  BY Shaped DEF vars
<1>2. BackendAgrees'
  BY <1>1, BackendParts DEF BackendAgrees
<1>3. \A r \in Runs : post'[r] \in {"none", "sent"} => status'[r] = "none"
  BY <1>1, Parts DEF LogAgrees
<1> QED
  BY <1>1, <1>2, <1>3, BackendKeeps DEF BackendOnly

LEMMA NextSteps == ASSUME IInv, Next PROVE IInv'
<1>1. CASE Backend
  BY <1>1, BackendSteps
<1>2. CASE Stream
  BY <1>2, DeliverSteps, StreamBreaksSteps DEF Stream
<1>3. CASE Polling
  BY <1>3, TimerFiresSteps, PollAnsweredSteps, PollFailsSteps DEF Polling
<1>4. CASE Submission
  BY <1>4, SubmitSteps, StreamEndedSteps, CloseSubmitSteps, CloseFailsSteps,
     RecoverFailureSteps, StartSteps, PostFailsSteps, PostAnsweredSteps DEF Submission
<1>5. CASE Cancellation
  BY <1>5, CancelActiveRunSteps, CancelRunSteps, CancelFailsSteps, CancelReadsSteps,
     CancelEndsSteps DEF Cancellation
<1>6. CASE Opening
  BY <1>6, SwitchToThreadSteps, LoadThreadSteps, ReplayEventSteps, ReplayEndsSteps,
     LoadFailsSteps DEF Opening
<1> QED
  BY <1>1, <1>2, <1>3, <1>4, <1>5, <1>6 DEF Next

LEMMA Inductive == Spec => []IInv
<1>1. IInv /\ [Next]_vars => IInv'
  BY NextSteps, StutterSteps
<1> QED
  BY InitSteps, <1>1, PTL DEF Spec

(* The records keep their types, no index is behind the end of the log, and   *)
(* no request belongs to a view that was not opened.                         *)
THEOREM ChatTypeCorrect == Spec => []TypeOK
<1> DEFINE V == 0 .. MaxIncidents + 1
           N == 0 .. Len(log)
           L == [view : V, epoch : Nat, run : Runs \cup {None}]
           S == [status : Statuses, at : N]
           P == [lease : L, snap : S, kind : {"timer", "failed", "rescue"}]
<1>1. ASSUME IInv PROVE TypeOK
  <2>1. Shapes /\ Bounds /\ MaxIncidents \in Nat /\ Len(log) \in Nat
    BY <1>1, Parts, Shaped, ChatAssumption
  <2>2. ui.view \in 1 .. MaxIncidents + 1 /\ left \in 0 .. MaxIncidents
    BY <1>1, <2>1, Shaped DEF Bounds
  <2>3. ASSUME NEW l \in Leases, l.view <= ui.view PROVE l \in L
    BY <2>1, <2>2, <2>3 DEF Leases
  <2>4. ASSUME NEW s \in Snaps, s.at <= Len(log) PROVE s \in S
    BY <2>1, <2>4 DEF Snaps
  <2>11. mending \subseteq [run : Runs \cup {None}, view : V]
    BY <1>1, <2>1, <2>2, Shaped DEF Failures
  <2> HIDE DEF L, S, N, V
  <2>5. ui.polls \subseteq P
    <3>1. ASSUME NEW p \in ui.polls PROVE p \in P
      <4>1. p \in Polls /\ p.snap.at <= Len(log) /\ p.lease.view <= ui.view
        BY <2>1, <3>1 DEF Shapes, Stores, Bounds
      <4>2. p.lease \in L /\ p.snap \in S
        BY <2>3, <2>4, <4>1 DEF Polls
      <4> QED
        BY <4>1, <4>2 DEF Polls
    <3> QED
      BY <3>1
  <2>6. ui.timer \in L /\ submit.lease \in L /\ cancel.lease \in L /\ load.lease \in L
    BY <2>1, <2>3, <1>1, Shaped DEF Stores, Bounds
  <2>7. cancel.snap \in S /\ ui.cursor \in N /\ load.at \in N
        /\ ui.guard \in [run : Runs \cup {None}, floor : N]
    BY <2>1, <2>4, <1>1, Shaped DEF Stores, Bounds, N
  <2> DEFINE U == [view : 1 .. MaxIncidents + 1, epoch : Nat, run : Runs \cup {None},
                   last : Runs \cup {None}, status : Statuses, streaming : BOOLEAN,
                   waiting : BOOLEAN, asked : BOOLEAN, loading : BOOLEAN, error : BOOLEAN,
                   cursor : N, stream : BOOLEAN, timer : L, polls : SUBSET P,
                   guard : [run : Runs \cup {None}, floor : N],
                   drawn : SUBSET Runs, durable : SUBSET Runs, shut : SUBSET Runs]
  <2>8. ui \in U
    <3> HIDE DEF P
    <3> QED
      BY <2>2, <2>5, <2>6, <2>7, <1>1, Shaped DEF Stores
  <2>9. /\ submit \in [pc : {"idle", "posted", "following", "rescuing", "closing"},
                       run : Runs \cup {None}, lease : L, broken : BOOLEAN]
        /\ cancel \in [pc : {"idle", "asked", "answered", "read"}, lease : L, snap : S]
        /\ load \in [pc : {"idle", "listing", "replaying"},
                     run : Runs \cup {None}, lease : L, at : N]
    BY <2>6, <2>7, <1>1, Shaped
  <2>10. status \in [Runs -> Statuses] /\ log \in Seq(Events)
         /\ post \in [Runs -> {"none", "sent", "accepted", "refused", "done"}]
    BY <2>1 DEF Shapes
  <2> QED
    BY <2>2, <2>8, <2>9, <2>10, <2>11 DEF TypeOK, Events, Types, L, S, N, V
<1> QED
  BY Inductive, <1>1, PTL

(* A run that is shown as going on has a timer or a poll that counts, or a    *)
(* load or an unanswered submission: the leases taken out for it are those    *)
(* of its epoch, and the timer is let go of only for a poll or an end.       *)
THEOREM RunsAreWatched == Spec => []Watched
<1>1. ASSUME IInv, ui.run \notin {None} \cup ui.shut, ~ui.error
      PROVE  \/ ui.timer # NoLease /\ LeaseCurrent(ui, ui.timer)
             \/ \E p \in ui.polls : LeaseCurrent(ui, p.lease)
             \/ submit.pc = "posted" \/ load.pc # "idle"
  <2>1. ByTimer \/ JustNamed
    BY <1>1 DEF IInv, Attended
  <2>2. LeaseCurrent(ui, ui.timer) => ui.timer # NoLease
    BY <1>1, Shaped DEF LeaseCurrent, NoLease
  <2> QED
    BY <1>1, <2>1, <2>2 DEF ByTimer, JustNamed
<1>2. IInv => Watched
  BY <1>1 DEF Watched
<1> QED
  BY Inductive, <1>2, PTL

-----------------------------------------------------------------------------
(* What was shown to end stays ended.                                        *)

(* The shown run is let go of or stays, but for the events of the stream and  *)
(* the submission that started the run it becomes.                           *)
StaysEnded ==
    ui'.run \in ui.shut /\ ui'.run # ui.run =>
        \/ ui'.cursor = ui.cursor + 1
        \/ submit.run = ui'.run /\ submit' # submit

LEMMA LetGo ==
    ASSUME IInv, ui'.run = ui.run \/ ui'.run = None PROVE StaysEnded
BY Shaped, NoneApart DEF StaysEnded, Stores

(* An event of the shown run leaves it shown or shows its end. *)
LEMMA IngestMoves ==
    ASSUME IInv, NEW c \in Stores, c.polls = ui.polls, NEW i \in 1 .. Len(log),
           NEW d, d = IngestEvent(c, i)
    PROVE  d.cursor = c.cursor /\ (c.run # None => d.run \in {c.run, None})
<1> DEFINE r == log[i].run
<1>1. log[i] \in Events /\ r \in Runs /\ Shapes /\ LogAgrees
  <2>1. Shapes /\ LogAgrees /\ log \in Seq(Events)
    BY Parts DEF Shapes
  <2>2. log[i] \in Events
    BY <2>1
  <2> QED
    BY <2>1, <2>2 DEF Events
<1>2. Snapshot(r) \in Snaps
  BY <1>1, SnapshotReads
<1>3. IsFiniteSet(c.polls) /\ (log[i].type = "failed" => status[r] = "failed")
  BY <1>1, Shaped DEF LogAgrees, Ends
<1>4. ShowsNothing(c, d) \/ NamesRun(c, d, r) \/ ShowsProgress(c, d, r) \/ ShowsEnd(c, d, r)
  BY <1>1, <1>2, <1>3, IngestsEvent
<1>5. CASE NamesRun(c, d, r)
  BY <1>1, <1>3, <1>5, BindsRun DEF NamesRun, SamePlace
<1>6. CASE ShowsNothing(c, d) \/ ShowsProgress(c, d, r) \/ ShowsEnd(c, d, r)
  BY <1>6 DEF ShowsNothing, ShowsProgress, ShowsEnd, SamePlace
<1> QED
  BY <1>4, <1>5, <1>6

LEMMA DeliverKeepsEnds == ASSUME IInv, Deliver PROVE StaysEnded
<1> DEFINE c == [ui EXCEPT !.cursor = ui.cursor + 1]
           i == ui.cursor + 1
<1>1. ui' = IngestEvent(c, i) /\ i \in 1 .. Len(log)
  BY Shaped DEF Deliver, Stores
<1>2. c \in Stores /\ c.polls = ui.polls /\ c.cursor = ui.cursor + 1
  BY SMTT(30), Shaped DEF Stores
<1> HIDE DEF c, i
<1>3. ui'.cursor = c.cursor
  BY <1>1, <1>2, IngestMoves
<1> QED
  BY <1>2, <1>3 DEF StaysEnded

(* A replay is of the run it has bound: its lease counts for no other. *)
LEMMA ReplayKeepsEnds == ASSUME IInv, ReplayEvent PROVE StaysEnded
<1>1. PICK i \in Unreplayed : ui' = IngestEvent(ui, i)
  BY DEF ReplayEvent
<1>2. i \in 1 .. Len(log) /\ ui \in Stores
  BY <1>1, Shaped DEF Unreplayed
<1>3. ui.run # None
  BY DEF ReplayEvent, IInv, LeasesBound, Bound, LeaseCurrent, LeasesAgree
<1> QED
  BY <1>1, <1>2, <1>3, IngestMoves, LetGo

(* A poll that counts with no run shown shows an end, or is the one that the  *)
(* submission awaits, which is over with it.                                 *)
LEMMA PollKeepsEnds == ASSUME IInv, PollAnswered PROVE StaysEnded
<1>1. PICK p \in ui.polls :
         /\ ui' = IF LeaseCurrent(ui, p.lease)
                  THEN SyncRunState([ui EXCEPT !.polls = @ \ {p}], p.lease, p.snap)
                  ELSE [ui EXCEPT !.polls = @ \ {p}]
         /\ submit' = IF Rescues(p) THEN Closing ELSE submit
  BY DEF PollAnswered
<1> DEFINE c == [ui EXCEPT !.polls = @ \ {p}]
           l == p.lease
           snap == p.snap
<1>2. /\ c \in Stores /\ c.run = ui.run /\ c.polls = ui.polls \ {p}
  BY Shaped DEF Stores
<1>3. /\ p.kind \in {"timer", "failed", "rescue"} /\ l \in Leases /\ snap \in Snaps
      /\ l.run # None /\ IsFiniteSet(c.polls)
  BY <1>2, Shaped, FS_RemoveElement DEF Stores, Polls, IInv, LeasesAgree
<1>4. CASE ~LeaseCurrent(ui, l)
  BY <1>1, <1>2, <1>4, LetGo
<1>5. CASE LeaseCurrent(ui, l)
  <2>1. /\ c \in Stores /\ IsFiniteSet(c.polls) /\ l \in Leases /\ l.run # None
        /\ c.run \in {None, l.run} /\ snap \in Snaps /\ ui' = SyncRunState(c, l, snap)
    BY <1>1, <1>2, <1>3, <1>5 DEF LeaseCurrent
  <2>2. PollBound(p)
    BY Parts DEF LeasesBound
  <2> HIDE DEF c
  <2>3. CASE snap.status \in Ends
    <3>1. ui'.run = None
      <4> HIDE DEF l, snap
      <4> QED
        BY <2>1, <2>3, SyncsEnd
    <3> QED
      BY <3>1, LetGo
  <2>4. CASE snap.status \notin Ends
    <3>1. ui'.run = l.run
      <4> HIDE DEF l, snap
      <4> QED
        BY <2>1, <2>4, SyncsOther
    <3>2. CASE ui.run = None
      <4>1. p.kind = "rescue" /\ Rescues(p)
        BY <1>3, <1>5, <2>2, <2>4, <3>2 DEF PollBound, Bound, LeaseCurrent, Rescues
      <4>2. submit' = Closing /\ submit.pc = "rescuing" /\ submit.run = l.run
        BY <1>1, <4>1 DEF Rescues
      <4> QED
        BY <3>1, <4>2, SubmitCloses DEF StaysEnded
    <3>3. CASE ui.run # None
      BY <1>2, <2>1, <3>1, <3>3, LetGo
    <3> QED
      BY <3>2, <3>3
  <2> QED
    BY <2>3, <2>4
<1> QED
  BY <1>4, <1>5

(* A cancellation applies its snapshot to the run it is of, and lets go of it. *)
LEMMA CancelKeepsEnds == ASSUME IInv, CancelEnds PROVE StaysEnded
<1> DEFINE l == cancel.lease
           snap == cancel.snap
           r == l.run
           c == IF snap # Unread /\ LeaseCurrent(ui, l) THEN SyncRunState(ui, l, snap) ELSE ui
           d == IF c.status \in Ends \cup {"none"} THEN c ELSE FinalizeRun(c, "cancelled", r)
<1>1. /\ cancel.pc = "read"
      /\ ui' = IF InView THEN [d EXCEPT !.stream = FALSE] ELSE ui
  BY DEF CancelEnds
<1>2. /\ l \in Leases /\ l.run # None /\ r \in Runs /\ snap \in Snaps
      /\ IsFiniteSet(ui.polls) /\ ui \in Stores
      /\ LeaseCurrent(ui, l) => ui.run = l.run
  BY <1>1, Shaped DEF IInv, LeasesAgree, LeasesBound, Bound, LeaseCurrent, Leases
<1>3. c \in Stores /\ IsFiniteSet(c.polls) /\ c.run \in {ui.run, None}
  <2>1. CASE LeaseCurrent(ui, l) /\ c = SyncRunState(ui, l, snap)
    <3>1. /\ ui \in Stores /\ IsFiniteSet(ui.polls) /\ l \in Leases /\ l.run # None
          /\ ui.run = l.run /\ snap \in Snaps /\ c = SyncRunState(ui, l, snap)
      BY <1>2, <2>1
    <3> HIDE DEF l, snap, c
    <3>2. c \in Stores /\ SamePlace(ui, c) /\ c.run \in {l.run, None}
      BY <3>1, SyncsEnd, SyncsOther
    <3> QED
      BY <3>1, <3>2 DEF SamePlace
  <2>2. CASE c = ui
    BY <1>2, <2>2
  <2> QED
    BY <2>1, <2>2
<1> HIDE DEF c
<1>4. d \in Stores /\ d.run \in {c.run, None}
  <2>1. CASE d = c
    BY <1>3, <2>1
  <2>2. CASE d = FinalizeRun(c, "cancelled", r) /\ c.run \in {None, r}
    <3>1. /\ c \in Stores /\ IsFiniteSet(c.polls) /\ r \in Runs /\ c.run \in {None, r}
          /\ "cancelled" \in Ends /\ d = FinalizeRun(c, "cancelled", r)
      BY <1>2, <1>3, <2>2 DEF Ends
    <3> HIDE DEF r, d
    <3> QED
      BY <3>1, FinalizesEnd
  <2>3. CASE d = FinalizeRun(c, "cancelled", r) /\ c.run \notin {None, r}
    BY <2>1, <2>3, FinalizesNothing
  <2> QED
    BY <2>1, <2>2, <2>3
<1> HIDE DEF d
<1>5. ui'.run = ui.run \/ ui'.run = None
  BY <1>1, <1>3, <1>4 DEF Stores
<1> QED
  BY <1>5, LetGo

(* Only the answer that starts the run of the submission binds one. *)
LEMMA PostKeepsEnds == ASSUME IInv, NEW r \in Runs, PostAnswered(r) PROVE StaysEnded
<1>1. CASE ui' = ui
  BY <1>1, LetGo
<1>2. CASE Throw(ui)
  <2>1. ui'.run = ui.run
    BY <1>2, Shaped DEF Throw, Stores
  <2> QED
    BY <2>1, LetGo
<1>3. CASE /\ submit.pc = "posted" /\ submit.run = r /\ ui' = ApplyStart(ui, r)
           /\ submit' = [submit EXCEPT !.pc = "following", !.lease = Lease(ApplyStart(ui, r), r)]
  <2>1. ui'.run \in {ui.run, r}
    BY <1>3, Shaped, AppliesStart
  <2>2. submit'.pc = "following"
    BY <1>3, Shaped
  <2> QED
    BY <1>3, <2>1, <2>2, LetGo DEF StaysEnded
<1> QED
  BY <1>1, <1>2, <1>3 DEF PostAnswered

(* The resets let go of the run, and a conversation that is listed has shown  *)
(* no end.                                                                   *)
LEMMA ResetsKeepEnds ==
    ASSUME IInv, Submit \/ RecoverFailure \/ SwitchToThread \/ LoadThread PROVE StaysEnded
<1> DEFINE c == ResetRunState(ui)
<1>1. c \in Stores /\ c.run = None
  BY ResetsRun, Shaped
<1>2. CASE LoadThread
  BY <1>2 DEF LoadThread, IInv, Listing, StaysEnded
<1> HIDE DEF c
<1>3. CASE RecoverFailure
  <2>1. PICK D : ui' = [c EXCEPT !.durable = D]
    BY <1>3 DEF RecoverFailure, c
  <2> QED
    BY <1>1, <2>1, LetGo DEF Stores
<1>4. CASE SwitchToThread
  <2>1. ui' = [c EXCEPT !.view = @ + 1, !.stream = FALSE, !.loading = TRUE,
                        !.error = FALSE, !.drawn = {}, !.durable = {}, !.shut = {}]
    BY <1>4 DEF SwitchToThread, c
  <2> QED
    BY <1>1, <2>1, LetGo DEF Stores
<1>5. CASE Submit
  <2>1. PICK d \in {c, ui} : ui' = [d EXCEPT !.streaming = TRUE, !.waiting = FALSE,
                                             !.error = FALSE, !.stream = TRUE]
    BY <1>5 DEF Submit, c
  <2>2. ui'.run = d.run
    BY <1>1, <2>1, Shaped DEF Stores
  <2> QED
    BY <1>1, <2>1, <2>2, LetGo
<1> QED
  BY <1>2, <1>3, <1>4, <1>5

(* The others leave the run alone. *)
LEMMA OthersKeepRun ==
    ASSUME IInv,
           \/ Backend \/ StreamBreaks \/ TimerFires \/ PollFails
           \/ StreamEnded \/ CloseSubmit \/ CloseFails
           \/ \E r \in Runs : StartThreadInteraction(r) \/ PostFails(r)
           \/ CancelActiveRun \/ CancelRun \/ CancelFails \/ CancelReads
           \/ ReplayEnds \/ LoadFails \/ UNCHANGED vars
    PROVE  StaysEnded
<1>0. ui \in Stores
  BY Shaped
<1>1. CASE Backend \/ (\E r \in Runs : StartThreadInteraction(r) \/ PostFails(r)) \/ CancelRun
           \/ UNCHANGED vars
  BY <1>1, LetGo DEF Backend, StartThreadInteraction, PostFails, CancelRun, vars
<1>2. CASE StreamBreaks \/ CloseSubmit \/ CloseFails \/ CancelActiveRun
  BY <1>0, <1>2, LetGo DEF Stores, StreamBreaks, CloseSubmit, CloseFails, Throw, CancelActiveRun
<1>3. CASE TimerFires \/ StreamEnded \/ CancelFails \/ CancelReads
  BY <1>0, <1>3, LetGo DEF Stores, TimerFires, StreamEnded, Throw, Poll, CancelFails, CancelReads
<1>4. CASE ReplayEnds \/ LoadFails
  BY <1>0, <1>4, LetGo DEF Stores, ReplayEnds, LoadFails, Loaded
<1>5. CASE PollFails
  <2>1. PICK p \in ui.polls :
           LET c == [ui EXCEPT !.polls = @ \ {p}]
           IN  CASE p.kind = "timer" ->
                      /\ ui' = IF Reconcilable(ui, p.lease) THEN [c EXCEPT !.timer = p.lease] ELSE c
                      /\ UNCHANGED <<submit, mending>>
                 [] p.kind = "failed" -> ui' = [c EXCEPT !.error = TRUE] /\ UNCHANGED <<submit, mending>>
                 [] p.kind = "rescue" -> IF Rescues(p) THEN Throw(c)
                                         ELSE ui' = c /\ UNCHANGED <<submit, mending>>
    BY <1>5 DEF PollFails
  <2>2. p.kind \in {"timer", "failed", "rescue"}
    BY <1>0 DEF Stores, Polls
  <2> DEFINE c == [ui EXCEPT !.polls = @ \ {p}]
  <2>3. \/ ui' \in {c, [c EXCEPT !.timer = p.lease], [c EXCEPT !.error = TRUE]}
        \/ ui' = [c EXCEPT !.error = TRUE, !.stream = FALSE, !.streaming = @ /\ c.waiting]
    BY <2>1, <2>2 DEF Throw
  <2> QED
    BY <1>0, <2>3, LetGo DEF Stores
<1> QED
  BY <1>1, <1>2, <1>3, <1>4, <1>5

(* A run that was shown to end is not shown as going on again by a poll, a    *)
(* cancellation or a load that was asked for before: with no run shown the    *)
(* lease of none of them counts, but for those whose answer is an end.       *)
THEOREM EndsStay == Spec => EndedStaysEnded
<1>1. ASSUME IInv, [Next]_vars PROVE StaysEnded
  <2>1. CASE Stream \/ Polling
    BY <1>1, <2>1, DeliverKeepsEnds, PollKeepsEnds, OthersKeepRun DEF Stream, Polling
  <2>2. CASE Submission
    BY <1>1, <2>2, ResetsKeepEnds, PostKeepsEnds, OthersKeepRun DEF Submission
  <2>3. CASE Cancellation
    BY <1>1, <2>3, CancelKeepsEnds, OthersKeepRun DEF Cancellation
  <2>4. CASE Opening
    BY <1>1, <2>4, ResetsKeepEnds, ReplayKeepsEnds, OthersKeepRun DEF Opening
  <2>5. CASE Backend \/ UNCHANGED vars
    BY <1>1, <2>5, OthersKeepRun
  <2> QED
    BY <1>1, <2>1, <2>2, <2>3, <2>4, <2>5 DEF Next
<1>2. IInv /\ [Next]_vars =>
         [ui'.run \in ui.shut /\ ui'.run # ui.run =>
             \/ ui'.cursor = ui.cursor + 1
             \/ submit.run = ui'.run /\ submit' # submit]_vars
  BY <1>1 DEF StaysEnded
<1> QED
  BY Inductive, <1>2, PTL DEF Spec, EndedStaysEnded

=============================================================================
