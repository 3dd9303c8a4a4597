------------------------- MODULE SandboxExecutions -------------------------
(***************************************************************************)
(* Sandbox executions and their write-backs (application/sandbox).         *)
(*                                                                         *)
(* A tool call queues an execution with its job and the file operations    *)
(* ("write-backs") it asks for, and its run waits.  One worker claims the  *)
(* queued executions, stages files, runs the code, records the result and  *)
(* answers the call.  Afterwards the write-backs that need no review, or   *)
(* that a person approved, are carried out on the vault by commits, which  *)
(* the tool, an answered confirmation and an HTTP route start              *)
(* independently of each other.                                            *)
(*                                                                         *)
(* An action is one synchronous stretch between awaits.  What the code     *)
(* does not serialise is left to interleave: reviews and commits during a  *)
(* commit, commits before outputs are promoted, a result before its wait.  *)
(* Packages, output and the paths of files are data no property looks at;  *)
(* a file operation is only: not performed, performed, or performed again. *)
(***************************************************************************)
EXTENDS Naturals, FiniteSets

CONSTANTS
    Execs,          \* sandbox executions
    Ops,            \* write-back operations
    Owner,          \* the execution an operation belongs to
    Reviewed,       \* the operations with requiresApproval
    Committers,     \* concurrent calls of commitApprovedWritebacks
    MaxCrashes,     \* bound: how often the process dies
    None

ASSUME SandboxAssumption ==
    /\ Owner \in [Ops -> Execs]
    /\ Reviewed \subseteq Ops
    /\ MaxCrashes \in Nat
    /\ None \notin Execs \cup Ops

VARIABLES
    exec,       \* sandbox_executions.status, "none" before it is queued
    job,        \* jobs.status of the execution's job
    call,       \* the tool call that queued it and the wait of its run
    worker,     \* the worker: at which await, on which execution
    wb,         \* sandbox_writeback_operations.status
    asked,      \* operations the pending confirmation of an execution is about
    commit,     \* a committer: on which execution, what is left, what it does
    performed,  \* what happened to the files
    allowed,    \* history: operations a person's last word allows
    excused,    \* history: operations whose row may be wrong about the files
    early,      \* history: executions whose result found no waiting run
    orphaned,   \* history: executions the worker held when the process died
    crashes

execVars == <<exec, job, call, worker, early, orphaned>>
diskVars == <<wb, asked, commit, performed, allowed, excused>>
vars == <<exec, job, call, worker, wb, asked, commit, performed, allowed,
          excused, early, orphaned, crashes>>

Ended == {"completed", "failed"}
OpsOf(e) == {o \in Ops : Owner[o] = e}
Idle == [at |-> "idle", on |-> None]
Resting == [on |-> None, todo |-> {}, op |-> None, did |-> "nothing", answers |-> FALSE]

\* o is in the hands of a commit that has read it as approved.
Held(o) == \E c \in Committers : o \in commit[c].todo \/ commit[c].op = o

Init ==
    /\ exec = [e \in Execs |-> "none"]
    /\ job = [e \in Execs |-> "none"]
    /\ call = [e \in Execs |-> "none"]
    /\ worker = Idle
    /\ wb = [o \in Ops |-> IF o \in Reviewed THEN "pending" ELSE "approved"]
    /\ asked = [e \in Execs |-> {}]
    /\ commit = [c \in Committers |-> Resting]
    /\ performed = [o \in Ops |-> "never"]
    /\ allowed = Ops \ Reviewed
    /\ excused = {}
    /\ early = {}
    /\ orphaned = {}
    /\ crashes = 0

-----------------------------------------------------------------------------
(* The tool call and its wait.                                             *)

\* One transaction creates the job, the execution and its operations, which
\* before that are in nobody's reach.
QueueExecution(e) ==
    /\ exec[e] = "none"
    /\ exec' = [exec EXCEPT ![e] = "queued"]
    /\ job' = [job EXCEPT ![e] = "queued"]
    /\ call' = [call EXCEPT ![e] = "made"]
    /\ UNCHANGED <<worker, early, orphaned, diskVars, crashes>>

\* The turn records the wait of the call and suspends its run.
Suspend(e) ==
    /\ call[e] = "made"
    /\ call' = [call EXCEPT ![e] = "waiting"]
    /\ UNCHANGED <<exec, job, worker, early, orphaned, diskVars, crashes>>

\* The run is cancelled or fails, which closes the wait.
CloseCall(e) ==
    /\ call[e] \in {"made", "waiting"}
    /\ call' = [call EXCEPT ![e] = "closed"]
    /\ UNCHANGED <<exec, job, worker, early, orphaned, diskVars, crashes>>

-----------------------------------------------------------------------------
(* The worker.                                                             *)

On(e, at) == worker = [at |-> at, on |-> e]

\* The execution is claimed only while it is queued, and its job follows.
Claim(e) ==
    /\ worker = Idle
    /\ exec[e] = "queued"
    /\ exec' = [exec EXCEPT ![e] = "running"]
    /\ job' = [job EXCEPT ![e] = "running"]
    /\ worker' = [at |-> "staging", on |-> e]
    /\ UNCHANGED <<call, early, orphaned, diskVars, crashes>>

Staged(e) ==
    /\ On(e, "staging")
    /\ worker' = [at |-> "running", on |-> e]
    /\ UNCHANGED <<exec, job, call, early, orphaned, diskVars, crashes>>

\* A plausible bug: the wait is looked up by another reference and not found.
ResolveNobody(e) ==
    /\ call' = call
    /\ early' = IF call[e] = "made" THEN early \cup {e} ELSE early

\* The answer reaches a run that waits for it.  Where the wait is not yet
\* recorded, or its run not yet suspended, the result is dropped.
ResolveExecutionWait(e) ==
    /\ call' = IF call[e] = "waiting" THEN [call EXCEPT ![e] = "answered"] ELSE call
    /\ early' = IF call[e] = "made" THEN early \cup {e} ELSE early

\* A plausible bug: every ended job is completed.
JobAlwaysCompleted(status) == "completed"

JobStatus(status) == IF status = "completed" THEN "completed" ELSE "blocked"

\* The end of processExecution for a recorded result: job, then answer.
Finish(e, status) ==
    /\ job' = [job EXCEPT ![e] = JobStatus(status)]
    /\ ResolveExecutionWait(e)
    /\ worker' = Idle
    /\ UNCHANGED <<orphaned, diskVars, crashes>>

\* The code fails the execution whatever was recorded of it before.
MarkExecutionFailed(e) ==
    /\ exec' = [exec EXCEPT ![e] = "failed"]
    /\ Finish(e, "failed")

\* Staging, the look-up of the run or the runner returns an error or throws.
ProcessFails(e) ==
    /\ On(e, "staging") \/ On(e, "running")
    /\ MarkExecutionFailed(e)

\* A plausible bug: the call is answered before the outputs are promoted.
RunnerEndsEarly(e, status) ==
    /\ On(e, "running")
    /\ exec' = [exec EXCEPT ![e] = status]
    /\ worker' = [at |-> "promoting", on |-> e]
    /\ ResolveExecutionWait(e)
    /\ UNCHANGED <<job, orphaned, diskVars, crashes>>

\* A plausible bug: the result of the runner is not recorded.
RunnerEndsUnrecorded(e, status) ==
    /\ On(e, "running")
    /\ worker' = Idle
    /\ UNCHANGED <<exec, job, call, early, orphaned, diskVars, crashes>>

\* The runner ends.  Only a completed execution has outputs to promote.
RunnerEnds(e, status) ==
    /\ On(e, "running")
    /\ exec' = [exec EXCEPT ![e] = status]
    /\ IF status = "completed"
       THEN /\ worker' = [at |-> "promoting", on |-> e]
            /\ UNCHANGED <<job, call, early, orphaned, diskVars, crashes>>
       ELSE Finish(e, status)

Promoted(e) ==
    /\ On(e, "promoting")
    /\ Finish(e, "completed")
    /\ UNCHANGED exec

\* Outputs cannot be stored: an execution already recorded as completed, whose
\* write-backs may be under way, becomes failed.
PromotionFails(e) ==
    /\ On(e, "promoting")
    /\ MarkExecutionFailed(e)

WorkerStep(e) ==
    \/ Claim(e)
    \/ Staged(e)
    \/ ProcessFails(e)
    \/ \E status \in Ended : RunnerEnds(e, status)
    \/ Promoted(e)
    \/ PromotionFails(e)

-----------------------------------------------------------------------------
(* Reviews and confirmations.                                              *)

Decide(S, verdict) ==
    /\ wb' = [o \in Ops |-> IF o \in S THEN verdict ELSE wb[o]]
    /\ allowed' = IF verdict = "approved" THEN allowed \cup S
                  ELSE allowed \ {o \in S : ~Held(o)}

\* A plausible bug: the route does not skip operations that were applied.
ReviewableAlways(o) == o \in Reviewed

\* The review route.  It may reverse any verdict and revive a failed
\* operation, but leaves alone what needs no approval or is applied.
Reviewable(o) == o \in Reviewed /\ wb[o] # "applied"

Review(e, verdict) ==
    /\ exec[e] # "none"
    /\ \E S \in SUBSET OpsOf(e) :
         /\ \E o \in S : Reviewable(o)
         /\ Decide({o \in S : Reviewable(o)}, verdict)
    /\ UNCHANGED <<execVars, asked, commit, performed, excused, crashes>>

Undecided(S) == {o \in S : o \in Reviewed /\ wb[o] = "pending"}

\* The commit tool, asked for operations some of which are undecided, has its
\* run wait for a person.
AskConfirmation(e) ==
    /\ exec[e] # "none"
    /\ asked[e] = {}
    /\ \E S \in SUBSET OpsOf(e) :
         /\ Undecided(S) # {}
         /\ asked' = [asked EXCEPT ![e] = S]
    /\ UNCHANGED <<execVars, wb, commit, performed, allowed, excused, crashes>>

\* A closed confirmation is nobody's to answer any more.
Closed(cs, e) ==
    [c \in Committers |-> IF cs[c].on = e THEN [cs[c] EXCEPT !.answers = FALSE] ELSE cs[c]]

RejectConfirmation(e) ==
    /\ asked[e] # {}
    /\ Decide(Undecided(asked[e]), "rejected")
    /\ asked' = [asked EXCEPT ![e] = {}]
    /\ commit' = Closed(commit, e)
    /\ UNCHANGED <<execVars, performed, excused, crashes>>

-----------------------------------------------------------------------------
(* Commits.                                                                *)

\* A plausible bug: a commit performs whatever is not rejected.
NotRejected(now, S) == {o \in S : now[o] \in {"pending", "approved"}}

Approved(now, S) == {o \in S : now[o] = "approved"}

\* A commit reads every operation once and will perform those it saw approved.
\* Those another commit holds too may be performed twice.
BeginCommit(c, e, S, now, answers) ==
    LET todo == Approved(now, S) IN
    /\ commit[c] = Resting
    /\ exec[e] = "completed"
    /\ todo # {}
    /\ commit' = [commit EXCEPT ![c] = [on |-> e, todo |-> todo, op |-> None,
                                        did |-> "nothing", answers |-> answers]]
    /\ excused' = excused \cup {o \in todo : Held(o)}

\* The route, and the tool when nothing it was asked for is undecided.
CommitWritebacks(c, e) ==
    /\ \E S \in SUBSET OpsOf(e) : BeginCommit(c, e, S, wb, FALSE)
    /\ UNCHANGED <<execVars, wb, asked, performed, allowed, crashes>>

\* An approved confirmation approves what is undecided and commits.  A commit
\* refused because the execution has not completed leaves the wait open.
ApproveConfirmation(c, e) ==
    /\ asked[e] # {}
    /\ Decide(Undecided(asked[e]), "approved")
    /\ \/ BeginCommit(c, e, asked[e], wb', TRUE) /\ UNCHANGED asked
       \/ /\ exec[e] # "completed" \/ Approved(wb', asked[e]) = {}
          /\ asked' = IF exec[e] = "completed" THEN [asked EXCEPT ![e] = {}] ELSE asked
          /\ commit' = IF exec[e] = "completed" THEN Closed(commit, e) ELSE commit
          /\ UNCHANGED excused
    /\ UNCHANGED <<execVars, performed, crashes>>

More(p) == IF p = "never" THEN "once" ELSE "again"

\* The file operation, which an error may stop before or after it had its
\* effect: a source that is gone, a copy that is made and not removed.
Perform(c) ==
    /\ commit[c].op = None
    /\ \E o \in commit[c].todo, did \in {"done", "half", "failed"} :
         /\ commit' = [commit EXCEPT ![c].todo = @ \ {o}, ![c].op = o, ![c].did = did]
         /\ performed' = IF did = "failed" THEN performed
                         ELSE [performed EXCEPT ![o] = More(@)]
         /\ excused' = IF did = "half" THEN excused \cup {o} ELSE excused
    /\ UNCHANGED <<execVars, wb, asked, allowed, crashes>>

\* A plausible bug: the row is given the outcome of the file operation.
RowOfOutcome(did) == did

RowOf(did) == IF did = "done" THEN "applied" ELSE "failed"

\* The row is written without another look at it; after the last operation the
\* commit returns, and the confirmation that started it is closed.
Mark(c) ==
    LET o == commit[c].op
        e == commit[c].on
        last == commit[c].todo = {}
        closes == last /\ commit[c].answers
    IN
    /\ o # None
    /\ wb' = [wb EXCEPT ![o] = RowOf(commit[c].did)]
    /\ asked' = IF closes THEN [asked EXCEPT ![e] = {}] ELSE asked
    /\ LET after == [commit EXCEPT ![c] = IF last THEN Resting
                                          ELSE [@ EXCEPT !.op = None, !.did = "nothing"]]
       IN commit' = IF closes THEN Closed(after, e) ELSE after
    /\ UNCHANGED <<execVars, performed, allowed, excused, crashes>>

-----------------------------------------------------------------------------
(* The process dies: the worker and the commits are gone, rows and files   *)
(* stay.  Nothing takes up an execution that is running.  A turn that had  *)
(* not recorded its wait is repeated with a call of its own.               *)

Crash ==
    /\ crashes < MaxCrashes
    /\ crashes' = crashes + 1
    /\ worker' = Idle
    /\ orphaned' = IF worker.on = None THEN orphaned ELSE orphaned \cup {worker.on}
    /\ call' = [e \in Execs |-> IF call[e] = "made" THEN "closed" ELSE call[e]]
    /\ commit' = [c \in Committers |-> Resting]
    /\ excused' = excused \cup {o \in Ops : \E c \in Committers :
                      commit[c].op = o /\ commit[c].did # "failed"}
    /\ UNCHANGED <<exec, job, early, wb, asked, performed, allowed>>

Next ==
    \/ \E e \in Execs :
         \/ QueueExecution(e)
         \/ Suspend(e)
         \/ CloseCall(e)
         \/ WorkerStep(e)
         \/ \E verdict \in {"approved", "rejected"} : Review(e, verdict)
         \/ AskConfirmation(e)
         \/ RejectConfirmation(e)
         \/ \E c \in Committers : CommitWritebacks(c, e) \/ ApproveConfirmation(c, e)
    \/ \E c \in Committers : Perform(c) \/ Mark(c)
    \/ Crash

Spec == Init /\ [][Next]_vars

\* The polling worker goes on, and the runner stops every execution at the
\* duration its policy allows.
FairSpec == Spec /\ WF_vars(\E e \in Execs : WorkerStep(e))

-----------------------------------------------------------------------------
(* Properties.                                                             *)

TypeOK ==
    /\ exec \in [Execs -> Ended \cup {"none", "queued", "running"}]
    /\ job \in [Execs -> {"none", "queued", "running", "completed", "blocked"}]
    /\ call \in [Execs -> {"none", "made", "waiting", "answered", "closed"}]
    /\ worker \in [at : {"idle", "staging", "running", "promoting"}, on : Execs \cup {None}]
    /\ wb \in [Ops -> {"pending", "approved", "rejected", "applied", "failed"}]
    /\ asked \in [Execs -> SUBSET Ops]
    /\ commit \in [Committers -> [on : Execs \cup {None}, todo : SUBSET Ops,
                                  op : Ops \cup {None}, answers : BOOLEAN,
                                  did : {"nothing", "done", "half", "failed"}]]
    /\ performed \in [Ops -> {"never", "once", "again"}]
    /\ allowed \subseteq Ops
    /\ excused \subseteq Ops
    /\ early \subseteq Execs
    /\ orphaned \subseteq Execs
    /\ crashes \in 0..MaxCrashes

\* Nothing that needs review touches the vault without a person's word: an
\* operation is performed only if its last review approved it, or rejected it
\* while a commit that had read the approval was already under way.
Consent ==
    [][\A o \in Ops : performed'[o] # performed[o] => o \in allowed]_vars

\* The rows tell the truth about the files.  Unless two commits held an
\* operation at once, an error struck half-way, or the process died between the
\* file operation and its row, "applied" means performed exactly once and
\* everything else means not performed.
DiskAgrees ==
    \A o \in Ops :
        \/ o \in excused
        \/ \E c \in Committers : commit[c].op = o
        \/ performed[o] = IF wb[o] = "applied" THEN "once" ELSE "never"

MirrorOf(status) ==
    CASE status = "completed" -> "completed"
      [] status = "failed" -> "blocked"
      [] OTHER -> status

\* An execution and its job, two rows written apart, agree whenever the worker
\* is not between them; only a crash can leave them apart.
JobMirrorsExecution ==
    \A e \in Execs : worker.on # e => e \in orphaned \/ job[e] = MirrorOf(exec[e])

\* A run that waits for an execution waits for something: the execution is
\* still to be claimed or in the worker's hands, unless the result came before
\* the run was suspended or the process died with it.
ResultHeard ==
    \A e \in Execs :
        call[e] = "waiting" =>
            exec[e] = "queued" \/ worker.on = e \/ e \in early \cup orphaned

\* What the model was told of an execution stays true: nothing is recorded of
\* it or of its job after its call was answered.
AnsweredIsFinal ==
    [][\A e \in Execs : call[e] = "answered" =>
           exec'[e] = exec[e] /\ job'[e] = job[e] /\ call'[e] = "answered"]_vars

\* A queued execution ends, though one worker serves all of them and processes
\* die; only the one the worker held at a crash may stay running for ever.
ExecutionsEnd ==
    \A e \in Execs : exec[e] = "queued" ~> exec[e] \in Ended \/ e \in orphaned

=============================================================================
