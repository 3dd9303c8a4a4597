--------------------------- MODULE ThreadCommands ---------------------------
(* The rows behind a conversation and the commands that write them: threads, *)
(* their messages, the root runs started for messages, and the root job of   *)
(* each thread (application/commands/*thread*.ts, bootstrap-session.ts).     *)
(* Each command is one transaction, so each is one action.  What becomes of  *)
(* a run once it is queued is RunScheduler's subject: here a run starts,     *)
(* waits and ends at any moment and its job is written with it.  A run that  *)
(* is being cancelled counts as running, a cancelled one as failed; blocked, *)
(* cancelled and completed jobs, which the commands treat alike, are ended.  *)
(* Runs of delegated children are not in the thread and are left out.        *)
EXTENDS Naturals, Sequences, FiniteSets

CONSTANTS
    Threads,      \* identities of threads, given out in order
    First,        \* the thread that exists from the start, without messages
    Runs,         \* identities of runs, given out in order
    None,         \* no run, no parent
    MaxMessages   \* bound: messages of a thread

ASSUME ThreadAssumption ==
    /\ Threads \subseteq Nat
    /\ First \in Threads
    /\ \A t \in Threads : First <= t
    /\ Runs \subseteq Nat
    /\ None \notin Threads \cup Runs
    /\ MaxMessages \in Nat

VARIABLES
    thread,       \* [Threads -> [state, parent]]
    transcript,   \* [Threads -> Seq([author, run])]: messages by sequence number
    run,          \* [Runs -> [status, thread]]
    job           \* [Threads -> [status, run]]: the latest root job of the thread

threadVars == <<thread, transcript, run, job>>

Active == {"pending", "running", "waiting"}

JobStatus == [pending |-> "queued", running |-> "running", waiting |-> "waiting"]

Message == [author : {"user", "assistant"}, run : Runs \cup {None}]

ThreadTypeOK ==
    /\ thread \in [Threads -> [state : {"unused", "live", "gone"},
                               parent : Threads \cup {None}]]
    /\ transcript \in [Threads -> Seq(Message)]
    /\ run \in [Runs -> [status : Active \cup {"unused", "completed", "failed", "deleted"},
                         thread : Threads \cup {None}]]
    /\ job \in [Threads -> [status : {"none", "queued", "running", "waiting", "ended"},
                            run : Runs \cup {None}]]

NoRun == [status |-> "unused", thread |-> None]
Deleted == [status |-> "deleted", thread |-> None]
Gone == [state |-> "gone", parent |-> None]
NoJob == [status |-> "none", run |-> None]
Posted(author, r) == [author |-> author, run |-> r]

ThreadInit ==
    /\ thread = [t \in Threads |->
                   [state |-> IF t = First THEN "live" ELSE "unused", parent |-> None]]
    /\ transcript = [t \in Threads |-> <<>>]
    /\ run = [r \in Runs |-> NoRun]
    /\ job = [t \in Threads |-> NoJob]

Live(t) == thread[t].state = "live"
RunsIn(t) == {r \in Runs : run[r].thread = t}
ActiveIn(t) == {r \in RunsIn(t) : run[r].status \in Active}

NextThread(t) ==
    /\ thread[t].state = "unused"
    /\ \A u \in Threads : u < t => thread[u].state # "unused"

NextRun(r) == run[r].status = "unused" /\ \A s \in Runs : s < r => run[s].status # "unused"

(* A user message that no run was started for may become the input of one. *)
Unbound(t) == {i \in DOMAIN transcript[t] : transcript[t][i] = Posted("user", None)}

-----------------------------------------------------------------------------
(* The commands.                                                             *)

(* The first message of a new session: session, thread, job, run, message. *)
BootstrapSession(t, r) ==
    /\ NextThread(t)
    /\ NextRun(r)
    /\ MaxMessages > 1
    /\ thread' = [thread EXCEPT ![t].state = "live"]
    /\ transcript' = [transcript EXCEPT ![t] = <<Posted("user", r)>>]
    /\ run' = [run EXCEPT ![r] = [status |-> "pending", thread |-> t]]
    /\ job' = [job EXCEPT ![t] = [status |-> "queued", run |-> r]]

MayInteract(t) == Live(t) /\ ActiveIn(t) = {}

(* A new message, or an unbound one given by its identity, starts a run; the *)
(* latest root job is reopened for it, or a first one created.               *)
StartThreadInteraction(t, r) ==
    /\ MayInteract(t)
    /\ NextRun(r)
    /\ \/ /\ Len(transcript[t]) + 1 < MaxMessages
          /\ transcript' = [transcript EXCEPT ![t] = Append(@, Posted("user", r))]
       \/ /\ Len(transcript[t]) < MaxMessages
          /\ \E i \in Unbound(t) : transcript' = [transcript EXCEPT ![t][i].run = r]
    /\ run' = [run EXCEPT ![r] = [status |-> "pending", thread |-> t]]
    /\ job' = [job EXCEPT ![t] = [status |-> "queued", run |-> r]]
    /\ UNCHANGED thread

\* A plausible bug: posting reopens the job even when it is at work.
ReopenAnyJob(t) ==
    IF job[t].status # "none" THEN [job EXCEPT ![t].status = "queued"] ELSE job

(* A new message reopens an ended job but leaves its current run in place. *)
ReopenJob(t) ==
    IF job[t].status = "ended" THEN [job EXCEPT ![t].status = "queued"] ELSE job

PostThreadMessage(t) ==
    /\ Live(t)
    /\ Len(transcript[t]) + 1 < MaxMessages
    /\ transcript' = [transcript EXCEPT ![t] = Append(@, Posted("user", None))]
    /\ job' = ReopenJob(t)
    /\ UNCHANGED <<thread, run>>

(* What an edit deletes: the runs of the edited message and of later ones. *)
Doomed(t, i) == {transcript[t][j].run : j \in i .. Len(transcript[t])} \ {None}

\* A plausible bug: the rows that still refer to a deleted run do not stop it.
NothingRefers(t, i) == TRUE

(* A message that stays and refers to a deleted run breaks a foreign key,    *)
(* and the whole edit is refused.                                            *)
Unreferred(t, i) ==
    \A u \in Threads : \A j \in DOMAIN transcript[u] :
        transcript[u][j].run \in Doomed(t, i) => u = t /\ j >= i

EditThreadMessage(t, i) ==
    /\ MayInteract(t)
    /\ i \in DOMAIN transcript[t]
    /\ transcript[t][i].author = "user"
    /\ Unreferred(t, i)
    /\ transcript' = [transcript EXCEPT
                        ![t] = Append(SubSeq(@, 1, i - 1), Posted("user", None))]
    /\ run' = [r \in Runs |->
                 IF r \in Doomed(t, i) THEN Deleted ELSE run[r]]
    /\ job' = IF job[t] = NoJob THEN job
              ELSE [job EXCEPT ![t] = [status |-> "queued", run |-> None]]
    /\ UNCHANGED thread

(* A branch copies the messages up to an answer; the copies belong to no run. *)
BranchThread(t, i, u) ==
    /\ Live(t)
    /\ job[t].status \notin {"queued", "running", "waiting"}
    /\ i \in DOMAIN transcript[t]
    /\ transcript[t][i].author = "assistant"
    /\ NextThread(u)
    /\ thread' = [thread EXCEPT ![u] = [state |-> "live", parent |-> t]]
    /\ transcript' = [transcript EXCEPT
                        ![u] = [j \in 1 .. i |-> Posted(transcript[t][j].author, None)]]
    /\ UNCHANGED <<run, job>>

(* A thread and its branches, and theirs. *)
Subtree(t) ==
    LET Within[n \in Nat] ==
          IF n = 0 THEN {t}
          ELSE LET W == Within[n - 1]
               IN  W \cup {u \in Threads : thread[u].parent \in W}
    IN  Within[Cardinality(Threads)]

(* Pending runs do not stop a deletion: they go with the thread. *)
DeleteThread(t) ==
    LET gone == Subtree(t)
    IN  /\ Live(t)
        /\ \A u \in gone, r \in Runs :
             r \in ActiveIn(u) => run[r].status = "pending"
        /\ thread' = [u \in Threads |->
                        IF u \in gone THEN Gone ELSE thread[u]]
        /\ transcript' = [u \in Threads |-> IF u \in gone THEN <<>> ELSE transcript[u]]
        /\ run' = [r \in Runs |->
                     IF run[r].thread \in gone THEN Deleted ELSE run[r]]
        /\ job' = [u \in Threads |-> IF u \in gone THEN NoJob ELSE job[u]]

-----------------------------------------------------------------------------
(* The runs.                                                                 *)

MoveRun(r, status) ==
    /\ run' = [run EXCEPT ![r].status = status]
    /\ job' = [job EXCEPT ![run[r].thread] =
                 [status |-> IF status \in Active THEN JobStatus[status] ELSE "ended",
                  run |-> r]]

StartRun(r) ==
    /\ run[r].status \in {"pending", "waiting"}
    /\ MoveRun(r, "running")
    /\ UNCHANGED <<thread, transcript>>

SuspendRun(r) ==
    /\ run[r].status = "running"
    /\ MoveRun(r, "waiting")
    /\ UNCHANGED <<thread, transcript>>

CompleteRun(r) ==
    /\ run[r].status = "running"
    /\ MoveRun(r, "completed")
    /\ transcript' = [transcript EXCEPT ![run[r].thread] = Append(@, Posted("assistant", r))]
    /\ UNCHANGED thread

(* A run fails or is cancelled; what it had streamed may become a message. *)
FailRun(r) ==
    /\ run[r].status \in Active
    /\ MoveRun(r, "failed")
    /\ \/ UNCHANGED transcript
       \/ /\ run[r].status # "pending"
          /\ transcript' = [transcript EXCEPT
                              ![run[r].thread] = Append(@, Posted("assistant", r))]
    /\ UNCHANGED thread

-----------------------------------------------------------------------------

(* A person acts on a thread. *)
Converse ==
    \E t \in Threads :
        \/ \E r \in Runs : StartThreadInteraction(t, r)
        \/ PostThreadMessage(t)
        \/ \E i \in 1 .. MaxMessages : EditThreadMessage(t, i)
        \/ \E i \in 1 .. MaxMessages, u \in Threads : BranchThread(t, i, u)
        \/ DeleteThread(t)

RunStep == \E r \in Runs : StartRun(r) \/ SuspendRun(r) \/ CompleteRun(r) \/ FailRun(r)

-----------------------------------------------------------------------------

(* Whatever is posted, edited, reused, branched or deleted: an active run is *)
(* the current run of its thread's job, which is at the same stage, so that  *)
(* the scheduler, which goes by jobs, never misses it and a thread never has *)
(* two (start-thread-interaction.ts, job-sync.ts).                           *)
JobFollowsRun ==
    \A r \in Runs : run[r].status \in Active =>
        job[run[r].thread] = [status |-> JobStatus[run[r].status], run |-> r]

(* The runs of a thread each have a user message they were started for, and  *)
(* its messages and its job name runs of the thread, a user message one that *)
(* no other was the input of.                                                *)
Bound(t) ==
    /\ \A r \in RunsIn(t) :
         \E i \in DOMAIN transcript[t] : transcript[t][i] = Posted("user", r)
    /\ \A i \in DOMAIN transcript[t] :
         LET m == transcript[t][i]
         IN  m.run # None =>
               /\ run[m.run].thread = t
               /\ m.author = "user" => \A j \in DOMAIN transcript[t] :
                                         transcript[t][j] = m => j = i
    /\ job[t].run # None => run[job[t].run].thread = t

(* Every run that was not deleted has the one user message it was started    *)
(* for, in its own thread, and no message or job refers to a run that is     *)
(* gone or belongs to another thread.                                        *)
MessagesBound == \A t \in Threads : Bound(t)
=============================================================================
