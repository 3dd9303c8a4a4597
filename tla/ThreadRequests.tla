--------------------------- MODULE ThreadRequests ---------------------------
(* Requests that start runs, made idempotent by a key                        *)
(* (adapters/http/idempotency.ts): a row per key remembers that a request is *)
(* in progress, what it has done, and its answer, and clients repeat a       *)
(* request until it is answered.  A key is for an interaction with the       *)
(* thread First, answered once its run is queued, or for a new session whose *)
(* run the request executes, answered with the outcome of the run.  Other    *)
(* commands, the runs and crashes of the server go on meanwhile.             *)
EXTENDS ThreadCommands

CONSTANTS
    Keys,         \* idempotency keys
    Requests,     \* requests the server can have at hand
    KeyOf,        \* the key each of them carries
    MaxRows,      \* bound: rows written under a key
    MaxCommands,  \* bound: commands of other requests
    MaxCrashes    \* bound: crashes of the server

ASSUME RequestAssumption ==
    /\ KeyOf \in [Requests -> Keys]
    /\ MaxRows \in Nat
    /\ MaxCommands \in Nat
    /\ MaxCrashes \in Nat

VARIABLES
    kind,      \* [Keys -> {"interaction", "bootstrap"}]: what the client used the key for
    row,       \* [Keys -> [id, status, expired, run]]: run is the recorded progress or answer
    req,       \* [Requests -> [pc, id, run, late]]
    made,      \* [Keys -> SUBSET Runs]: runs made under the key (history)
    answered,  \* [Keys -> SUBSET Runs]: runs named by successful answers (history)
    lapsed,    \* [Keys -> BOOLEAN]: the key's memory of its run may be lost (history)
    commands,  \* commands of other requests so far
    crashes

vars == <<threadVars, kind, row, req, made, answered, lapsed, commands, crashes>>

Idle == [pc |-> "idle", id |-> 0, run |-> None, late |-> FALSE]

TypeOK ==
    /\ ThreadTypeOK
    /\ kind \in [Keys -> {"interaction", "bootstrap"}]
    /\ row \in [Keys -> [id : 0 .. MaxRows, status : {"none", "in_progress", "completed"},
                         expired : BOOLEAN, run : Runs \cup {None}]]
    /\ req \in [Requests ->
                  [pc : {"idle", "begun", "committed", "executing", "recovering"},
                   id : 0 .. MaxRows, run : Runs \cup {None}, late : BOOLEAN]]
    /\ made \in [Keys -> SUBSET Runs]
    /\ answered \in [Keys -> SUBSET Runs]
    /\ lapsed \in [Keys -> BOOLEAN]
    /\ commands \in 0 .. MaxCommands
    /\ crashes \in 0 .. MaxCrashes

Init ==
    /\ ThreadInit
    /\ kind \in [Keys -> {"interaction", "bootstrap"}]
    /\ row = [k \in Keys |-> [id |-> 0, status |-> "none", expired |-> FALSE, run |-> None]]
    /\ req = [q \in Requests |-> Idle]
    /\ made = [k \in Keys |-> {}]
    /\ answered = [k \in Keys |-> {}]
    /\ lapsed = [k \in Keys |-> FALSE]
    /\ commands = 0
    /\ crashes = 0

-----------------------------------------------------------------------------
(* The row of a key.                                                         *)

Bootstrap(k) == kind[k] = "bootstrap"
Row(q) == row[KeyOf[q]]
InProgress(k) == row[k].status = "in_progress"

(* Progress, completion and abandonment name the row by its identity. *)
Holds(q) == InProgress(KeyOf[q]) /\ Row(q).id = req[q].id

\* A plausible bug: a repeated request takes over a row before its time is up.
MayBeginEarly(q, late) ==
    \/ Row(q).status = "none" /\ Row(q).id < MaxRows
    \/ InProgress(KeyOf[q])

\* A plausible bug: an interrupted request keeps its row for good.
MayBeginNew(q, late) == Row(q).status = "none" /\ Row(q).id < MaxRows

(* A new row is begun when there is none; one in progress is taken over once *)
(* its time is up by the clock the request read when it arrived.             *)
MayBegin(q, late) ==
    \/ Row(q).status = "none" /\ Row(q).id < MaxRows
    \/ InProgress(KeyOf[q]) /\ Row(q).expired /\ late

(* A row that is taken over keeps its identity and loses what was recorded.  *)
Begin(q) ==
    LET id == IF InProgress(KeyOf[q]) THEN Row(q).id ELSE Row(q).id + 1
    IN  /\ row' = [row EXCEPT ![KeyOf[q]] =
                     [id |-> id, status |-> "in_progress", expired |-> FALSE, run |-> None]]
        /\ req' = [req EXCEPT ![q] = [Idle EXCEPT !.pc = "begun", !.id = id]]

(* A failed request deletes its row, if the row is still its own. *)
Abandon(q) ==
    IF Holds(q) THEN [row EXCEPT ![KeyOf[q]] = [@ EXCEPT !.status = "none", !.run = None]]
    ELSE row

\* A plausible bug: a request answers with its own run even when the row has another.
AnswerOwn(q, r) ==
    /\ row' = IF Holds(q)
              THEN [row EXCEPT ![KeyOf[q]] = [@ EXCEPT !.status = "completed", !.run = r]]
              ELSE row
    /\ answered' = [answered EXCEPT ![KeyOf[q]] = @ \cup {r}]

(* The row is completed; if it is not the request's own any more, an answer  *)
(* another request left there is replayed, and there may be none.            *)
CompleteOrReplay(q, r) ==
    LET k == KeyOf[q]
    IN  \/ /\ Holds(q)
           /\ row' = [row EXCEPT ![k] = [@ EXCEPT !.status = "completed", !.run = r]]
           /\ answered' = [answered EXCEPT ![k] = @ \cup {r}]
        \/ /\ ~Holds(q)
           /\ answered' = IF Row(q).status = "completed"
                          THEN [answered EXCEPT ![k] = @ \cup {Row(q).run}]
                          ELSE answered
           /\ UNCHANGED row

-----------------------------------------------------------------------------
(* Requests.                                                                 *)

(* The lookup finds no row, or one in progress with nothing recorded. *)
BeginRequest(q) ==
    /\ req[q].pc = "idle"
    /\ InProgress(KeyOf[q]) => Row(q).run = None
    /\ MayBegin(q, Row(q).expired)
    /\ Begin(q)
    /\ UNCHANGED <<threadVars, kind, made, answered, lapsed, commands, crashes>>

Replay(q) ==
    /\ req[q].pc = "idle"
    /\ Row(q).status = "completed"
    /\ answered' = [answered EXCEPT ![KeyOf[q]] = @ \cup {Row(q).run}]
    /\ UNCHANGED <<threadVars, kind, row, req, made, lapsed, commands, crashes>>

(* The recorded progress of an interaction is its answer; that of a new      *)
(* session names a run to wait for.                                          *)
RecoverInProgress(q) ==
    /\ req[q].pc = "idle"
    /\ InProgress(KeyOf[q])
    /\ Row(q).run # None
    /\ req' = [req EXCEPT ![q] = [pc |-> "recovering", id |-> Row(q).id,
                                  run |-> Row(q).run, late |-> Row(q).expired]]
    /\ UNCHANGED <<threadVars, kind, row, made, answered, lapsed, commands, crashes>>

(* The command commits in a transaction of its own. *)
Commit(q) ==
    \E r \in Runs :
        /\ req[q].pc = "begun"
        /\ \/ Bootstrap(KeyOf[q]) /\ \E t \in Threads : BootstrapSession(t, r)
           \/ ~Bootstrap(KeyOf[q]) /\ StartThreadInteraction(First, r)
        /\ req' = [req EXCEPT ![q].pc = "committed", ![q].run = r]
        /\ made' = [made EXCEPT ![KeyOf[q]] = @ \cup {r}]
        /\ UNCHANGED <<kind, row, answered, lapsed, commands, crashes>>

(* The command is refused, because of the thread or at a bound. *)
Refuse(q) ==
    /\ req[q].pc = "begun"
    /\ \/ \A r \in Runs : ~NextRun(r)
       \/ IF Bootstrap(KeyOf[q])
          THEN \A t \in Threads : ~NextThread(t)
          ELSE ~MayInteract(First) \/ Len(transcript[First]) + 1 >= MaxMessages
    /\ row' = Abandon(q)
    /\ req' = [req EXCEPT ![q] = Idle]
    /\ UNCHANGED <<threadVars, kind, made, answered, lapsed, commands, crashes>>

RecordProgress(q) ==
    /\ req[q].pc = "committed"
    /\ Holds(q)
    /\ row' = [row EXCEPT ![KeyOf[q]].run = req[q].run]
    /\ req' = [req EXCEPT ![q].pc = "executing"]
    /\ UNCHANGED <<threadVars, kind, made, answered, lapsed, commands, crashes>>

(* The outcome of the run of a new session can be told; an interaction's     *)
(* answer does not depend on it.                                             *)
Settled(q) ==
    \/ ~Bootstrap(KeyOf[q])
    \/ run[req[q].run].status \in {"waiting", "completed"}

Answer(q) ==
    /\ req[q].pc \in {"executing", "recovering"}
    /\ Settled(q)
    /\ CompleteOrReplay(q, req[q].run)
    /\ req' = [req EXCEPT ![q] = Idle]
    /\ UNCHANGED <<threadVars, kind, made, lapsed, commands, crashes>>

(* The run fails, is deleted, or goes on for longer than the request waits:  *)
(* the request fails, and with it goes the row.                              *)
GiveUp(q) ==
    /\ req[q].pc = "executing"
    /\ ~Settled(q)
    /\ row' = Abandon(q)
    /\ req' = [req EXCEPT ![q] = Idle]
    /\ lapsed' = [lapsed EXCEPT ![KeyOf[q]] = TRUE]
    /\ UNCHANGED <<threadVars, kind, made, answered, commands, crashes>>

(* A repeated request finds the run of its predecessor still at work after   *)
(* the time of the row is up: it starts over.                                *)
TakesOver(q) ==
    run[req[q].run].status \in Active /\ req[q].late /\ MayBegin(q, TRUE)

TakeOver(q) ==
    /\ req[q].pc = "recovering"
    /\ ~Settled(q)
    /\ TakesOver(q)
    /\ Begin(q)
    /\ UNCHANGED <<threadVars, kind, made, answered, lapsed, commands, crashes>>

(* Otherwise the error of a failed run is its answer, an answer that has     *)
(* arrived meanwhile is replayed, and all else is a conflict.  The row stays.*)
LeaveRecovery(q) ==
    /\ req[q].pc = "recovering"
    /\ ~Settled(q)
    /\ ~TakesOver(q)
    /\ req' = [req EXCEPT ![q] = Idle]
    /\ answered' = IF req[q].late /\ Row(q).status = "completed"
                      /\ run[req[q].run].status \in Active
                   THEN [answered EXCEPT ![KeyOf[q]] = @ \cup {Row(q).run}]
                   ELSE answered
    /\ UNCHANGED <<threadVars, kind, row, made, lapsed, commands, crashes>>

RequestStep(q) ==
    \/ Commit(q) \/ Refuse(q) \/ RecordProgress(q) \/ Answer(q) \/ GiveUp(q)
    \/ TakeOver(q) \/ LeaveRecovery(q)

Arrive(q) == BeginRequest(q) \/ Replay(q) \/ RecoverInProgress(q)

-----------------------------------------------------------------------------

(* Five minutes pass since the row was begun.  A request that need not wait  *)
(* for a run is done long before.                                            *)
Expire(k) ==
    /\ InProgress(k)
    /\ ~row[k].expired
    /\ \A q \in Requests : KeyOf[q] = k /\ ~Bootstrap(k) =>
         req[q].pc \in {"idle", "recovering"}
    /\ row' = [row EXCEPT ![k].expired = TRUE]
    /\ lapsed' = [lapsed EXCEPT ![k] = @ \/ (Bootstrap(k) /\ row[k].run # None)]
    /\ UNCHANGED <<threadVars, kind, req, made, answered, commands, crashes>>

(* The requests at hand are lost.  A run whose identity was not yet recorded *)
(* cannot be found again by its key.                                         *)
Crash ==
    /\ crashes < MaxCrashes
    /\ crashes' = crashes + 1
    /\ req' = [q \in Requests |-> Idle]
    /\ lapsed' = [k \in Keys |->
                    lapsed[k] \/ \E q \in Requests : KeyOf[q] = k /\ req[q].pc = "committed"]
    /\ UNCHANGED <<threadVars, kind, row, made, answered, commands>>

(* From the start of a command to its next await nothing else runs; the      *)
(* command for a new session records its progress without awaiting.          *)
Occupies(q) ==
    req[q].pc = "begun" \/ (req[q].pc = "committed" /\ Bootstrap(KeyOf[q]))

Turn(q) == \A p \in Requests \ {q} : ~Occupies(p)

(* Requests without a key, and the runs. *)
Other ==
    /\ \/ Converse /\ commands < MaxCommands /\ commands' = commands + 1
       \/ RunStep /\ UNCHANGED commands
    /\ UNCHANGED <<kind, row, req, made, answered, lapsed, crashes>>

Next ==
    \/ \E q \in Requests : Turn(q) /\ (RequestStep(q) \/ Arrive(q))
    \/ /\ \A q \in Requests : ~Occupies(q)
       /\ (\E k \in Keys : Expire(k)) \/ Other
    \/ Crash

Spec == Init /\ [][Next]_vars

(* Clients repeat requests until they are answered, requests do not wait for *)
(* ever, time passes, and runs come to an end or to a wait (RunScheduler).   *)
FairSpec ==
    /\ Spec
    /\ \A q \in Requests :
         /\ WF_vars(Turn(q) /\ RequestStep(q))
         /\ WF_vars(Turn(q) /\ Arrive(q))
    /\ \A k \in Keys : WF_vars((\A q \in Requests : ~Occupies(q)) /\ Expire(k))

-----------------------------------------------------------------------------

(* Two requests with one key make two runs only if a crash fell between the  *)
(* command and its record, or a new session's run failed or outlasted the    *)
(* request that waits for it: repeating a request is safe otherwise.         *)
OneRunPerKey == \A k \in Keys : lapsed[k] \/ Cardinality(made[k]) <= 1

(* However often a key's row was taken over, deleted or written late by a    *)
(* request that had lost it, all successful answers name one run, and it was *)
(* made under the key.                                                       *)
AnswersAgree ==
    \A k \in Keys :
        /\ answered[k] \subseteq made[k]
        /\ \A r, s \in answered[k] : r = s

Promise == INSTANCE KeyedRuns

(* Whatever requests repeat, take over, give up or lose: a key makes another *)
(* run only before its first answer and only if it may have forgotten the    *)
(* one it made, no run is made under two keys, and the first answer is       *)
(* repeated for good (idempotency.ts implements what KeyedRuns promises).    *)
ImplementsKeys == Promise!Spec

(* No crash leaves a key in progress for good: a repeated request completes  *)
(* or clears it, or is told that the recorded run failed or was deleted.     *)
KeysSettle ==
    \A k \in Keys :
        InProgress(k) ~> \/ ~InProgress(k)
                         \/ row[k].run # None /\ run[row[k].run].status \in {"failed", "deleted"}
=============================================================================
