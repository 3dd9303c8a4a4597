---------------------- MODULE SandboxExecutionsProofs ----------------------
(***************************************************************************)
(* Proofs about SandboxExecutions, for every number of executions,         *)
(* operations, committers and crashes.                                     *)
(*                                                                         *)
(* Two independent inductive invariants.  WorkerInv is about an execution, *)
(* its job, its call and the worker; VaultInv about an operation, the      *)
(* commits that hold it, its row and its files.                            *)
(***************************************************************************)
EXTENDS SandboxExecutions, TLAPS

Commits == [on : Execs \cup {None}, todo : SUBSET Ops, op : Ops \cup {None},
            answers : BOOLEAN, did : {"nothing", "done", "half", "failed"}]

Holds(c, o) == o \in commit[c].todo \/ commit[c].op = o

-----------------------------------------------------------------------------
(* The worker's side.                                                      *)

WorkerTypeOK ==
    /\ exec \in [Execs -> Ended \cup {"none", "queued", "running"}]
    /\ job \in [Execs -> {"none", "queued", "running", "completed", "blocked"}]
    /\ call \in [Execs -> {"none", "made", "waiting", "answered", "closed"}]
    /\ worker \in [at : {"idle", "staging", "running", "promoting"}, on : Execs \cup {None}]
    /\ early \subseteq Execs
    /\ orphaned \subseteq Execs

\* The worker is on an execution that is in the state of that await.
WorkerHolds ==
    \/ worker = Idle
    \/ /\ worker.on \in Execs
       /\ \/ worker.at \in {"staging", "running"} /\ exec[worker.on] = "running"
          \/ worker.at = "promoting" /\ exec[worker.on] = "completed"

\* What ResultHeard says, of a call whose run is yet to be suspended too.
CallHeard(e) ==
    call[e] \in {"made", "waiting"} =>
        exec[e] = "queued" \/ worker.on = e \/ e \in early \cup orphaned

\* An execution that was not queued has no call, an answered one has ended.
CallOfExec(e) ==
    /\ exec[e] = "none" => call[e] = "none"
    /\ call[e] = "answered" => exec[e] \in Ended /\ worker.on # e

Mirrors(e) == worker.on # e => e \in orphaned \/ job[e] = MirrorOf(exec[e])

WorkerInv ==
    /\ WorkerTypeOK
    /\ WorkerHolds
    /\ \A e \in Execs : CallHeard(e) /\ CallOfExec(e) /\ Mirrors(e)

LEMMA WorkerInit == SandboxAssumption /\ Init => WorkerInv
<1> QED
  BY DEF SandboxAssumption, Init, WorkerInv, WorkerTypeOK, WorkerHolds, CallHeard, CallOfExec,
         Mirrors, MirrorOf, Ended, Idle

LEMMA WorkerStutters == WorkerInv /\ UNCHANGED execVars => WorkerInv'
<1> QED
  BY DEF WorkerInv, WorkerTypeOK, WorkerHolds, CallHeard, CallOfExec, Mirrors, MirrorOf,
         Ended, Idle, execVars

\* The queueing, the suspension and the end of a call.
LEMMA CallSteps ==
    ASSUME SandboxAssumption, WorkerInv, NEW e \in Execs,
           QueueExecution(e) \/ Suspend(e) \/ CloseCall(e)
    PROVE  WorkerInv'
<1> USE DEF WorkerInv, WorkerTypeOK, Ended
<1>1. UNCHANGED <<worker, early, orphaned>> /\ WorkerTypeOK'
  BY DEF QueueExecution, Suspend, CloseCall
<1>2. exec[e] = "none" => worker.on # e
  BY DEF WorkerHolds, Idle, SandboxAssumption
<1>3. WorkerHolds'
  BY <1>1, <1>2 DEF WorkerHolds, Idle, QueueExecution, Suspend, CloseCall
<1>4. ASSUME NEW x \in Execs PROVE (CallHeard(x) /\ CallOfExec(x) /\ Mirrors(x))'
  BY <1>1 DEF CallHeard, CallOfExec, Mirrors, MirrorOf, QueueExecution, Suspend, CloseCall
<1> QED
  BY <1>1, <1>3, <1>4

\* What the end of an execution does to job, call and worker.
LEMMA FinishSteps ==
    ASSUME SandboxAssumption, WorkerInv, NEW e \in Execs, NEW status \in Ended,
           worker.on = e, exec' = [exec EXCEPT ![e] = status], Finish(e, status)
    PROVE  WorkerInv'
<1> USE DEF WorkerInv, WorkerTypeOK, Ended, Finish, ResolveExecutionWait, JobStatus
<1>1. WorkerTypeOK' /\ WorkerHolds'
  BY DEF WorkerHolds, Idle
<1>2. ASSUME NEW x \in Execs PROVE (CallHeard(x) /\ CallOfExec(x) /\ Mirrors(x))'
  <2>1. CASE x = e
    <3>1. exec'[x] = status /\ job'[x] = JobStatus(status) /\ worker'.on # e
      BY <2>1 DEF Idle, SandboxAssumption
    <3>2. (CallHeard(x) /\ CallOfExec(x))'
      BY <2>1, <3>1 DEF CallHeard, CallOfExec
    <3> QED
      BY <2>1, <3>1, <3>2 DEF Mirrors, MirrorOf
  <2>2. CASE x # e
    <3>1. exec'[x] = exec[x] /\ job'[x] = job[x] /\ call'[x] = call[x] /\ worker.on # x
          /\ (x \in early' <=> x \in early) /\ orphaned' = orphaned /\ worker'.on # x
      BY <2>2 DEF Idle, SandboxAssumption
    <3> QED
      BY <3>1 DEF CallHeard, CallOfExec, Mirrors, MirrorOf
  <2> QED
    BY <2>1, <2>2
<1> QED
  BY <1>1, <1>2

LEMMA WorkerSteps ==
    ASSUME SandboxAssumption, WorkerInv, NEW e \in Execs, WorkerStep(e)
    PROVE  WorkerInv'
<1> USE DEF WorkerInv, WorkerTypeOK, Ended
<1>1. CASE Claim(e)
  <2>1. WorkerTypeOK' /\ WorkerHolds'
    BY <1>1 DEF Claim, WorkerHolds
  <2>2. ASSUME NEW x \in Execs PROVE (CallHeard(x) /\ CallOfExec(x) /\ Mirrors(x))'
    <3>1. worker.on # x
      BY <1>1 DEF Claim, Idle, SandboxAssumption
    <3> QED
      BY <1>1, <3>1 DEF Claim, CallHeard, CallOfExec, Mirrors, MirrorOf
  <2> QED
    BY <2>1, <2>2
<1>2. CASE Staged(e)
  BY <1>2 DEF Staged, On, WorkerHolds, Idle, CallHeard, CallOfExec, Mirrors, MirrorOf
<1>3. CASE ProcessFails(e) \/ PromotionFails(e)
  BY <1>3, FinishSteps DEF ProcessFails, PromotionFails, MarkExecutionFailed, On
<1>4. ASSUME NEW status \in Ended, RunnerEnds(e, status) PROVE WorkerInv'
  <2>1. CASE status = "completed"
    <3>1. WorkerTypeOK' /\ WorkerHolds' /\ worker.on = e /\ worker'.on = e
      BY <1>4, <2>1 DEF RunnerEnds, On, WorkerHolds
    <3>2. ASSUME NEW x \in Execs PROVE (CallHeard(x) /\ CallOfExec(x) /\ Mirrors(x))'
      BY <1>4, <2>1, <3>1 DEF RunnerEnds, CallHeard, CallOfExec, Mirrors, MirrorOf
    <3> QED
      BY <3>1, <3>2
  <2>2. CASE status # "completed"
    <3>1. worker.on = e /\ exec' = [exec EXCEPT ![e] = status] /\ Finish(e, status)
      BY <1>4, <2>2 DEF RunnerEnds, On
    <3> QED
      BY ZenonT(60), <3>1, <1>4, FinishSteps
  <2> QED
    BY <2>1, <2>2
<1>5. CASE Promoted(e)
  <2>1. worker.on = e /\ exec[e] = "completed" /\ UNCHANGED exec
    BY <1>5 DEF Promoted, On, WorkerHolds, Idle
  <2>2. exec' = [exec EXCEPT ![e] = "completed"]
    BY <2>1
  <2> QED
    BY <1>5, <2>1, <2>2, FinishSteps DEF Promoted
<1> QED
  BY <1>1, <1>2, <1>3, <1>4, <1>5 DEF WorkerStep

LEMMA WorkerCrash == SandboxAssumption /\ WorkerInv /\ Crash => WorkerInv'
<1> SUFFICES ASSUME SandboxAssumption, WorkerInv, Crash PROVE WorkerInv'
  OBVIOUS
<1> USE DEF WorkerInv, WorkerTypeOK, Ended, Crash
<1>1. WorkerTypeOK' /\ WorkerHolds'
  BY DEF WorkerHolds, Idle
<1>2. ASSUME NEW x \in Execs PROVE (CallHeard(x) /\ CallOfExec(x) /\ Mirrors(x))'
  <2>1. worker.on = x => x \in orphaned'
    BY DEF SandboxAssumption
  <2>2. worker'.on # x
    BY DEF Idle, SandboxAssumption
  <2> QED
    BY <2>1, <2>2 DEF CallHeard, CallOfExec, Mirrors, MirrorOf
<1> QED
  BY <1>1, <1>2

\* The steps of reviews and commits are no business of the worker's.
LEMMA VaultStepsOnly ==
    ASSUME NEW e \in Execs,
           \/ \E verdict \in {"approved", "rejected"} : Review(e, verdict)
           \/ AskConfirmation(e) \/ RejectConfirmation(e)
           \/ \E c \in Committers : \/ CommitWritebacks(c, e) \/ ApproveConfirmation(c, e)
                                    \/ Perform(c) \/ Mark(c)
    PROVE  UNCHANGED execVars
<1> QED
  BY ZenonT(60) DEF Review, AskConfirmation, RejectConfirmation, CommitWritebacks, ApproveConfirmation,
         Perform, Mark

LEMMA WorkerInductive == SandboxAssumption /\ WorkerInv /\ [Next]_vars => WorkerInv'
<1> SUFFICES ASSUME SandboxAssumption, WorkerInv, [Next]_vars PROVE WorkerInv'
  OBVIOUS
<1>1. CASE UNCHANGED vars
  BY <1>1, WorkerStutters DEF vars, execVars
<1>2. ASSUME NEW c \in Committers, Perform(c) \/ Mark(c) PROVE WorkerInv'
  BY <1>2, WorkerStutters DEF Perform, Mark
<1> QED
  BY <1>1, <1>2, CallSteps, WorkerSteps, WorkerCrash, VaultStepsOnly, WorkerStutters DEF Next

LEMMA WorkerInvariant == Spec => []WorkerInv
<1> QED
  BY SandboxAssumption, WorkerInit, WorkerInductive, PTL DEF Spec

\* An execution and its job agree whenever the worker is not between them.
THEOREM JobsMirror == Spec => []JobMirrorsExecution
<1>1. WorkerInv => JobMirrorsExecution
  BY DEF WorkerInv, Mirrors, JobMirrorsExecution
<1> QED
  BY <1>1, WorkerInvariant, PTL

\* A run waits for a result that is still to come, or was early, or orphaned.
THEOREM ResultsHeard == Spec => []ResultHeard
<1>1. WorkerInv => ResultHeard
  BY DEF WorkerInv, CallHeard, ResultHeard
<1> QED
  BY <1>1, WorkerInvariant, PTL

\* What a call was answered stays true of its execution and its job.
THEOREM AnswersAreFinal == Spec => AnsweredIsFinal
<1>1. WorkerInv /\ [Next]_vars =>
        [\A e \in Execs : call[e] = "answered" =>
            exec'[e] = exec[e] /\ job'[e] = job[e] /\ call'[e] = "answered"]_vars
  <2> SUFFICES ASSUME WorkerInv, Next, NEW a \in Execs, call[a] = "answered"
               PROVE exec'[a] = exec[a] /\ job'[a] = job[a] /\ call'[a] = "answered"
    OBVIOUS
  <2>1. exec[a] \in Ended /\ worker.on # a /\ call \in [Execs -> {"none", "made", "waiting", "answered", "closed"}]
        /\ exec \in [Execs -> Ended \cup {"none", "queued", "running"}]
        /\ job \in [Execs -> {"none", "queued", "running", "completed", "blocked"}]
    BY DEF WorkerInv, WorkerTypeOK, CallOfExec
  <2>2. ASSUME NEW e \in Execs, QueueExecution(e) \/ Suspend(e) \/ CloseCall(e)
        PROVE  exec'[a] = exec[a] /\ job'[a] = job[a] /\ call'[a] = "answered"
    BY <2>1, <2>2 DEF QueueExecution, Suspend, CloseCall, Ended
  <2>3. ASSUME NEW e \in Execs, WorkerStep(e)
        PROVE  exec'[a] = exec[a] /\ job'[a] = job[a] /\ call'[a] = "answered"
    <3>1. CASE Claim(e)
      BY <2>1, <3>1 DEF Claim, Ended
    <3>2. CASE ~Claim(e)
      <4>1. worker.on = e /\ e # a
        BY <2>1, <2>3, <3>2 DEF WorkerStep, Staged, ProcessFails, RunnerEnds, Promoted, PromotionFails, On
      <4> QED
        BY <2>1, <2>3, <3>2, <4>1 DEF WorkerStep, Staged, ProcessFails, RunnerEnds, Promoted,
           PromotionFails, MarkExecutionFailed, Finish, ResolveExecutionWait
    <3> QED
      BY <3>1, <3>2
  <2>4. CASE Crash
    BY <2>1, <2>4 DEF Crash
  <2>5. CASE UNCHANGED execVars
    BY SMTT(30), <2>5 DEF execVars
  <2>6. ASSUME NEW c \in Committers, Perform(c) \/ Mark(c) PROVE UNCHANGED execVars
    BY <2>6 DEF Perform, Mark
  <2> QED
    BY <2>2, <2>3, <2>4, <2>5, <2>6, VaultStepsOnly DEF Next
<1> QED
  BY <1>1, WorkerInvariant, PTL DEF Spec, AnsweredIsFinal

-----------------------------------------------------------------------------
(* The vault's side.                                                       *)

VaultTypeOK ==
    /\ wb \in [Ops -> {"pending", "approved", "rejected", "applied", "failed"}]
    /\ asked \in [Execs -> SUBSET Ops]
    /\ commit \in [Committers -> Commits]
    /\ performed \in [Ops -> {"never", "once", "again"}]
    /\ allowed \subseteq Ops
    /\ excused \subseteq Ops

\* What may be performed, now or by a commit still to begin, is allowed.
HeldAllowed(o) == Held(o) \/ wb[o] = "approved" => o \in allowed

\* Of an operation whose row is not excused: one commit holds it at a time, it
\* is not applied while held, and the row will tell what the commit did.
RowTrue(o) ==
    \/ o \in excused
    \/ /\ \A c, d \in Committers : Holds(c, o) /\ Holds(d, o) => c = d
       /\ Held(o) => wb[o] # "applied"
       /\ \A c \in Committers : commit[c].op = o =>
            /\ o \notin commit[c].todo
            /\ commit[c].did \in {"done", "failed"}
            /\ performed[o] = IF commit[c].did = "done" THEN "once" ELSE "never"
       /\ (\A c \in Committers : commit[c].op # o) =>
            performed[o] = IF wb[o] = "applied" THEN "once" ELSE "never"

VaultInv ==
    /\ VaultTypeOK
    /\ \A o \in Ops : HeldAllowed(o) /\ RowTrue(o)

LEMMA VaultInit == SandboxAssumption /\ Init => VaultInv
<1> QED
  BY DEF SandboxAssumption, Init, VaultInv, VaultTypeOK, HeldAllowed, RowTrue, Holds, Held,
         Commits, Resting

LEMMA VaultStutters == VaultInv /\ UNCHANGED diskVars => VaultInv'
<1> QED
  BY DEF VaultInv, VaultTypeOK, HeldAllowed, RowTrue, Holds, Held, Commits, diskVars

\* Closing a confirmation touches nothing a commit holds.
LEMMA ClosedSame ==
    ASSUME NEW cs \in [Committers -> Commits], NEW e
    PROVE  /\ Closed(cs, e) \in [Committers -> Commits]
           /\ \A c \in Committers : /\ Closed(cs, e)[c].todo = cs[c].todo
                                    /\ Closed(cs, e)[c].op = cs[c].op
                                    /\ Closed(cs, e)[c].did = cs[c].did
<1>1. ASSUME NEW c \in Committers
      PROVE  /\ Closed(cs, e)[c] \in Commits
             /\ Closed(cs, e)[c].todo = cs[c].todo
             /\ Closed(cs, e)[c].op = cs[c].op
             /\ Closed(cs, e)[c].did = cs[c].did
  <2>1. cs[c] \in Commits /\ Closed(cs, e)[c] = IF cs[c].on = e THEN [cs[c] EXCEPT !.answers = FALSE] ELSE cs[c]
    BY DEF Closed
  <2> QED
    BY ZenonT(60), <2>1 DEF Commits
<1> QED
  BY <1>1 DEF Closed

\* A decision about operations that are not applied, with the commits as they
\* are but for the confirmations they answer.
LEMMA DecideSteps ==
    ASSUME SandboxAssumption, VaultInv, VaultTypeOK', NEW S \in SUBSET Ops,
           NEW verdict \in {"approved", "rejected"}, Decide(S, verdict),
           \A o \in S : wb[o] # "applied",
           \A c \in Committers : commit'[c].todo = commit[c].todo /\ commit'[c].op = commit[c].op
                                 /\ commit'[c].did = commit[c].did,
           UNCHANGED <<performed, excused>>
    PROVE  VaultInv'
<1> USE DEF VaultInv, VaultTypeOK
<1>1. \A o \in Ops : wb'[o] = IF o \in S THEN verdict ELSE wb[o]
  BY DEF Decide
<1>2. ASSUME NEW o \in Ops PROVE Held(o)' = Held(o) /\ \A c \in Committers : Holds(c, o)' = Holds(c, o)
  BY DEF Held, Holds
<1>3. ASSUME NEW o \in Ops PROVE HeldAllowed(o)'
  BY <1>1, <1>2 DEF HeldAllowed, Decide
<1>4. ASSUME NEW o \in Ops PROVE RowTrue(o)'
  <2>1. wb'[o] = "applied" <=> wb[o] = "applied"
    BY <1>1
  <2> QED
    BY <1>2, <2>1 DEF RowTrue
<1> QED
  BY <1>3, <1>4

\* The beginning of a commit, the rows being as a decision just left them.
LEMMA BeginSteps ==
    ASSUME SandboxAssumption, VaultInv, NEW c \in Committers, NEW e \in Execs,
           NEW S \in SUBSET Ops, NEW D \in SUBSET Ops, NEW answers \in BOOLEAN,
           \A o \in D : wb[o] # "applied",
           wb' = [o \in Ops |-> IF o \in D THEN "approved" ELSE wb[o]],
           allowed' = allowed \cup D,
           BeginCommit(c, e, S, wb', answers), UNCHANGED <<asked, performed>>
    PROVE  VaultInv'
<1> USE DEF VaultInv, VaultTypeOK
<1> DEFINE todo == Approved(wb', S)
<1>1. todo \subseteq Ops /\ \A o \in todo : wb'[o] = "approved"
  BY DEF Approved
<1>2. /\ commit[c] = Resting
      /\ commit' = [commit EXCEPT ![c] = [on |-> e, todo |-> todo, op |-> None,
                                          did |-> "nothing", answers |-> answers]]
      /\ excused' = excused \cup {o \in todo : Held(o)}
  BY DEF BeginCommit
<1> HIDE DEF todo
<1>3. VaultTypeOK'
  BY <1>1, <1>2 DEF Commits
<1>4. ASSUME NEW d \in Committers, d # c PROVE commit'[d] = commit[d]
  <2>1. commit \in [Committers -> Commits]
    OBVIOUS
  <2> QED
    BY ONLY <1>2, <2>1, d \in Committers, d # c
<1>5. commit'[c].todo = todo /\ commit'[c].op = None /\ commit[c].todo = {} /\ commit[c].op = None
  BY <1>2 DEF Resting
<1>6. ASSUME NEW o \in Ops PROVE o # None
  BY DEF SandboxAssumption
<1>7. ASSUME NEW o \in Ops
      PROVE  /\ Held(o)' <=> o \in todo \/ Held(o)
             /\ \A d \in Committers : Holds(d, o)' <=> (d = c /\ o \in todo) \/ Holds(d, o)
  BY <1>4, <1>5, <1>6 DEF Held, Holds
<1>8. ASSUME NEW o \in Ops PROVE HeldAllowed(o)'
  BY <1>1, <1>7 DEF HeldAllowed
<1>9. ASSUME NEW o \in Ops PROVE RowTrue(o)'
  <2>1. SUFFICES ASSUME o \notin excused' PROVE RowTrue(o)'
    BY DEF RowTrue
  <2>2. o \notin excused /\ (o \in todo => ~Held(o))
    BY <1>2, <2>1
  <2>3. wb'[o] = "applied" <=> wb[o] = "applied"
    OBVIOUS
  <2>4. \A d \in Committers : (commit'[d].op = o <=> commit[d].op = o)
    BY <1>4, <1>5, <1>6
  <2>5. \A d, f \in Committers : Holds(d, o)' /\ Holds(f, o)' => d = f
    BY <1>7, <2>2 DEF RowTrue, Held, Holds
  <2>6. \A d \in Committers : commit'[d].op = o => commit'[d] = commit[d]
    BY <1>4, <1>5, <1>6
  <2>7. Held(o)' => wb'[o] # "applied"
    BY <1>1, <1>7, <2>2, <2>3 DEF RowTrue
  <2> QED
    BY <2>2, <2>3, <2>4, <2>5, <2>6, <2>7 DEF RowTrue
<1> QED
  BY <1>3, <1>8, <1>9

\* A commit carries out its next operation.
LEMMA PerformSteps ==
    ASSUME SandboxAssumption, VaultInv, NEW c \in Committers, Perform(c)
    PROVE  VaultInv' /\ \A o \in Ops : performed'[o] # performed[o] => o \in allowed
<1> USE DEF VaultInv, VaultTypeOK
<1>1. PICK o \in commit[c].todo, did \in {"done", "half", "failed"} :
        /\ commit' = [commit EXCEPT ![c].todo = @ \ {o}, ![c].op = o, ![c].did = did]
        /\ performed' = IF did = "failed" THEN performed
                        ELSE [performed EXCEPT ![o] = More(@)]
        /\ excused' = IF did = "half" THEN excused \cup {o} ELSE excused
  BY DEF Perform
<1>2. commit[c].op = None /\ UNCHANGED <<wb, asked, allowed>> /\ commit[c] \in Commits
  BY DEF Perform
<1>3. o \in Ops /\ Held(o) /\ Holds(c, o)
  BY <1>2 DEF Commits, Held, Holds
<1>4. VaultTypeOK'
  BY <1>1, <1>2, <1>3 DEF Commits, More
<1>5. /\ commit'[c].todo = commit[c].todo \ {o} /\ commit'[c].op = o /\ commit'[c].did = did
      /\ \A d \in Committers : d # c => commit'[d] = commit[d]
  BY <1>1, <1>2 DEF Commits
<1>6. ASSUME NEW x \in Ops PROVE x # None
  BY DEF SandboxAssumption
<1>7. ASSUME NEW x \in Ops
      PROVE  (Held(x)' <=> Held(x)) /\ \A d \in Committers : Holds(d, x)' <=> Holds(d, x)
  BY <1>2, <1>5, <1>6 DEF Held, Holds
<1>8. ASSUME NEW x \in Ops PROVE HeldAllowed(x)'
  BY <1>2, <1>7 DEF HeldAllowed
<1>9. RowTrue(o)'
  <2>1. SUFFICES ASSUME o \notin excused' PROVE RowTrue(o)'
    BY DEF RowTrue
  <2>2. o \notin excused /\ did # "half"
    BY <1>1, <2>1
  <2>3. \A d \in Committers : commit[d].op # o
    BY <1>2, <1>3, <1>6, <2>2 DEF RowTrue, Holds
  <2>4. wb[o] # "applied" /\ performed[o] = "never"
    BY <1>3, <2>2, <2>3 DEF RowTrue
  <2>5. performed'[o] = IF did = "done" THEN "once" ELSE "never"
    BY <1>1, <1>3, <2>2, <2>4 DEF More
  <2>6. \A d, f \in Committers : Holds(d, o)' /\ Holds(f, o)' => d = f
    BY <1>3, <1>7, <2>2 DEF RowTrue
  <2>7. \A d \in Committers : commit'[d].op = o => d = c
    BY <1>5, <2>3
  <2> QED
    BY <1>2, <1>5, <2>2, <2>4, <2>5, <2>6, <2>7 DEF RowTrue
<1>10. ASSUME NEW x \in Ops, x # o PROVE RowTrue(x)'
  <2>1. SUFFICES ASSUME x \notin excused PROVE RowTrue(x)'
    BY <1>1 DEF RowTrue
  <2>2. performed'[x] = performed[x] /\ (x \in excused' <=> x \in excused)
    BY <1>1, <1>10
  <2>3. \A d \in Committers : /\ commit'[d].op = x <=> commit[d].op = x
                              /\ commit'[d].op = x => commit'[d] = commit[d]
    BY <1>2, <1>5, <1>6, <1>10
  <2> QED
    BY <1>2, <1>7, <2>1, <2>2, <2>3 DEF RowTrue
<1>11. \A x \in Ops : performed'[x] # performed[x] => x \in allowed
  BY <1>1, <1>3 DEF HeldAllowed
<1> QED
  BY <1>4, <1>8, <1>9, <1>10, <1>11

\* A commit records the outcome of its operation.
LEMMA MarkSteps ==
    ASSUME SandboxAssumption, VaultInv, NEW c \in Committers, Mark(c)
    PROVE  VaultInv'
<1> USE DEF VaultInv, VaultTypeOK
<1> DEFINE last == commit[c].todo = {}
           after == [commit EXCEPT ![c] = IF last THEN Resting
                                          ELSE [@ EXCEPT !.op = None, !.did = "nothing"]]
<1>0. PICK o \in Ops : o = commit[c].op
  BY DEF Mark, Commits
<1>1. /\ o # None /\ commit[c] \in Commits
      /\ wb' = [wb EXCEPT ![o] = RowOf(commit[c].did)]
      /\ UNCHANGED <<performed, allowed, excused>>
      /\ commit' = after \/ commit' = Closed(after, commit[c].on)
      /\ asked' = asked \/ asked' = [asked EXCEPT ![commit[c].on] = {}]
  BY <1>0 DEF Mark
<1>2. /\ after \in [Committers -> Commits]
      /\ after[c].todo = commit[c].todo /\ after[c].op = None
      /\ \A d \in Committers : d # c => after[d] = commit[d]
  BY <1>1 DEF Commits, Resting
<1> HIDE DEF after, last
<1>3. \A d \in Committers : /\ commit'[d].todo = after[d].todo
                            /\ commit'[d].op = after[d].op /\ commit'[d].did = after[d].did
  BY <1>1, <1>2, ClosedSame
<1>4. VaultTypeOK'
  <2>1. commit' \in [Committers -> Commits]
    BY <1>1, <1>2, ClosedSame
  <2> QED
    BY <1>1, <2>1 DEF RowOf
<1>5. /\ commit'[c].todo = commit[c].todo /\ commit'[c].op = None
      /\ \A d \in Committers : d # c => /\ commit'[d].todo = commit[d].todo
                                        /\ commit'[d].op = commit[d].op
                                        /\ commit'[d].did = commit[d].did
  BY <1>2, <1>3
<1>6. ASSUME NEW x \in Ops PROVE x # None
  BY DEF SandboxAssumption
<1>7. ASSUME NEW x \in Ops
      PROVE  \A d \in Committers : Holds(d, x)' => Holds(d, x)
  BY <1>5, <1>6 DEF Holds
<1>8. ASSUME NEW x \in Ops PROVE Held(x)' => Held(x)
  BY <1>5, <1>6 DEF Held
<1>9. ASSUME NEW x \in Ops PROVE HeldAllowed(x)'
  BY <1>1, <1>8 DEF HeldAllowed, RowOf
<1>10. RowTrue(o)'
  <2>1. SUFFICES ASSUME o \notin excused PROVE RowTrue(o)'
    BY <1>1 DEF RowTrue
  <2>2. /\ commit[c].did \in {"done", "failed"} /\ o \notin commit[c].todo
        /\ performed[o] = IF commit[c].did = "done" THEN "once" ELSE "never"
    BY <1>0, <1>1, <2>1 DEF RowTrue
  <2>3. ~Held(o)' /\ \A d \in Committers : ~Holds(d, o)'
    BY <1>0, <1>1, <1>5, <1>6, <2>1, <2>2 DEF RowTrue, Held, Holds
  <2>4. performed'[o] = IF wb'[o] = "applied" THEN "once" ELSE "never"
    BY <1>1, <2>2 DEF RowOf
  <2>5. \A d \in Committers : commit'[d].op # o
    BY <2>3 DEF Holds
  <2> QED
    BY <2>3, <2>4, <2>5 DEF RowTrue
<1>11. ASSUME NEW x \in Ops, x # o PROVE RowTrue(x)'
  <2>1. SUFFICES ASSUME x \notin excused PROVE RowTrue(x)'
    BY <1>1 DEF RowTrue
  <2>2. wb'[x] = wb[x] /\ performed'[x] = performed[x]
    BY <1>1, <1>11
  <2>3. \A d \in Committers : /\ commit'[d].op = x <=> commit[d].op = x
                              /\ commit'[d].op = x => /\ commit'[d].todo = commit[d].todo
                                                      /\ commit'[d].did = commit[d].did
    BY <1>0, <1>5, <1>6, <1>11
  <2> QED
    BY <1>7, <1>8, <2>1, <2>2, <2>3 DEF RowTrue
<1> QED
  BY <1>4, <1>9, <1>10, <1>11

LEMMA VaultCrash == SandboxAssumption /\ VaultInv /\ Crash => VaultInv'
<1> SUFFICES ASSUME SandboxAssumption, VaultInv, Crash PROVE VaultInv'
  OBVIOUS
<1> USE DEF VaultInv, VaultTypeOK
<1>1. VaultTypeOK'
  BY DEF Crash, Commits, Resting
<1>2. ASSUME NEW o \in Ops PROVE ~Held(o)' /\ \A c \in Committers : ~Holds(c, o)' /\ commit'[c].op # o
  BY DEF Crash, Held, Holds, Resting, SandboxAssumption
<1>3. ASSUME NEW o \in Ops PROVE HeldAllowed(o)'
  BY <1>2 DEF HeldAllowed, Crash
<1>4. ASSUME NEW o \in Ops PROVE RowTrue(o)'
  <2>1. SUFFICES ASSUME o \notin excused' PROVE RowTrue(o)'
    BY DEF RowTrue
  <2>2. /\ o \notin excused /\ UNCHANGED <<wb, performed>>
        /\ \A c \in Committers : commit[c].op = o => commit[c].did = "failed"
    BY <2>1 DEF Crash
  <2>3. performed[o] = IF wb[o] = "applied" THEN "once" ELSE "never"
    BY <2>2 DEF RowTrue, Held
  <2> QED
    BY <1>2, <2>2, <2>3 DEF RowTrue
<1> QED
  BY <1>1, <1>3, <1>4

\* The steps an execution's operations take in reviews and confirmations.
LEMMA ReviewSteps ==
    ASSUME SandboxAssumption, VaultInv, NEW e \in Execs,
           \/ \E verdict \in {"approved", "rejected"} : Review(e, verdict)
           \/ AskConfirmation(e) \/ RejectConfirmation(e)
    PROVE  VaultInv' /\ UNCHANGED performed
<1> USE DEF VaultInv, VaultTypeOK
<1>1. ASSUME NEW verdict \in {"approved", "rejected"}, Review(e, verdict) PROVE VaultInv'
  <2>1. PICK S \in SUBSET OpsOf(e) : Decide({o \in S : Reviewable(o)}, verdict)
    BY <1>1 DEF Review
  <2> DEFINE D == {o \in S : Reviewable(o)}
  <2>2. D \in SUBSET Ops /\ Decide(D, verdict) /\ \A o \in D : wb[o] # "applied"
    BY <2>1 DEF OpsOf, Reviewable
  <2> HIDE DEF D
  <2>3. UNCHANGED <<asked, commit, performed, excused>> /\ VaultTypeOK'
    BY <1>1, <2>2 DEF Review, Decide
  <2> QED
    BY <2>2, <2>3, DecideSteps
<1>2. CASE AskConfirmation(e)
  <2>1. asked' \in [Execs -> SUBSET Ops] /\ UNCHANGED <<wb, commit, performed, allowed, excused>>
    BY <1>2 DEF AskConfirmation, OpsOf
  <2> QED
    BY <2>1 DEF HeldAllowed, RowTrue, Held, Holds
<1>3. CASE RejectConfirmation(e)
  <2> DEFINE D == Undecided(asked[e])
  <2>1. D \in SUBSET Ops /\ Decide(D, "rejected") /\ \A o \in D : wb[o] # "applied"
    BY <1>3 DEF RejectConfirmation, Undecided
  <2> HIDE DEF D
  <2>2. /\ UNCHANGED <<performed, excused>> /\ asked' = [asked EXCEPT ![e] = {}]
        /\ commit' = Closed(commit, e)
    BY <1>3 DEF RejectConfirmation
  <2>3. \A c \in Committers : commit'[c].todo = commit[c].todo /\ commit'[c].op = commit[c].op
                                 /\ commit'[c].did = commit[c].did
    BY <2>2, ClosedSame
  <2>4. VaultTypeOK'
    <3>1. commit' \in [Committers -> Commits]
      BY <2>2, ClosedSame
    <3> QED
      BY <2>1, <2>2, <3>1 DEF Decide
  <2> QED
    BY <2>1, <2>2, <2>3, <2>4, DecideSteps
<1> QED
  BY <1>1, <1>2, <1>3 DEF Review, AskConfirmation, RejectConfirmation

LEMMA CommitSteps ==
    ASSUME SandboxAssumption, VaultInv, NEW e \in Execs, NEW c \in Committers,
           CommitWritebacks(c, e) \/ ApproveConfirmation(c, e)
    PROVE  VaultInv' /\ UNCHANGED performed
<1> USE DEF VaultInv, VaultTypeOK
<1>1. CASE CommitWritebacks(c, e)
  <2>1. PICK S \in SUBSET OpsOf(e) : BeginCommit(c, e, S, wb, FALSE)
    BY <1>1 DEF CommitWritebacks
  <2>2. S \in SUBSET Ops /\ UNCHANGED <<wb, asked, performed, allowed>>
    BY <1>1 DEF CommitWritebacks, OpsOf
  <2>3. BeginCommit(c, e, S, wb', FALSE)
    BY <2>1, <2>2 DEF BeginCommit, Approved
  <2>4. wb' = [o \in Ops |-> IF o \in {} THEN "approved" ELSE wb[o]] /\ allowed' = allowed \cup {}
    BY <2>2
  <2> QED
    BY <2>2, <2>3, <2>4, BeginSteps, {} \in SUBSET Ops, FALSE \in BOOLEAN
<1>2. CASE ApproveConfirmation(c, e)
  <2> DEFINE D == Undecided(asked[e])
             S == asked[e]
  <2>1. D \in SUBSET Ops /\ S \in SUBSET Ops /\ \A o \in D : wb[o] # "applied"
    BY DEF Undecided
  <2>2. Decide(D, "approved") /\ UNCHANGED performed
    BY <1>2 DEF ApproveConfirmation
  <2>3. /\ wb' = [o \in Ops |-> IF o \in D THEN "approved" ELSE wb[o]]
        /\ allowed' = allowed \cup D
    BY <2>2 DEF Decide
  <2>4. CASE BeginCommit(c, e, S, wb', TRUE) /\ UNCHANGED asked
    <3> HIDE DEF D, S
    <3> QED
      BY <2>1, <2>2, <2>3, <2>4, BeginSteps
  <2>5. CASE /\ asked' = IF exec[e] = "completed" THEN [asked EXCEPT ![e] = {}] ELSE asked
             /\ commit' = IF exec[e] = "completed" THEN Closed(commit, e) ELSE commit
             /\ UNCHANGED excused
    <3> HIDE DEF D, S
    <3>1. \A d \in Committers : commit'[d].todo = commit[d].todo /\ commit'[d].op = commit[d].op
                                 /\ commit'[d].did = commit[d].did
      BY <2>5, ClosedSame
    <3>2. VaultTypeOK'
      <4>1. commit' \in [Committers -> Commits]
        BY <2>5, ClosedSame
      <4> QED
        BY <2>1, <2>2, <2>3, <2>5, <4>1
    <3> QED
      BY <2>1, <2>2, <2>5, <3>1, <3>2, DecideSteps
  <2> QED
    BY <1>2, <2>2, <2>4, <2>5 DEF ApproveConfirmation
<1> QED
  BY <1>1, <1>2

LEMMA VaultInductive ==
    SandboxAssumption /\ VaultInv /\ [Next]_vars =>
        VaultInv' /\ \A o \in Ops : performed'[o] # performed[o] => o \in allowed
<1> SUFFICES ASSUME SandboxAssumption, VaultInv, [Next]_vars
             PROVE  VaultInv' /\ \A o \in Ops : performed'[o] # performed[o] => o \in allowed
  OBVIOUS
<1>1. CASE UNCHANGED diskVars
  BY <1>1, VaultStutters DEF diskVars
<1>2. ASSUME NEW e \in Execs, QueueExecution(e) \/ Suspend(e) \/ CloseCall(e) \/ WorkerStep(e)
      PROVE  UNCHANGED diskVars
  BY <1>2 DEF QueueExecution, Suspend, CloseCall, WorkerStep, Claim, Staged, ProcessFails,
     RunnerEnds, Promoted, PromotionFails, MarkExecutionFailed, Finish
<1>3. CASE Crash
  BY <1>3, VaultCrash DEF Crash
<1>4. CASE UNCHANGED vars
  BY <1>1, <1>4 DEF vars, diskVars
<1>5. ASSUME NEW e \in Execs,
             \/ \E verdict \in {"approved", "rejected"} : Review(e, verdict)
             \/ AskConfirmation(e) \/ RejectConfirmation(e)
             \/ \E c \in Committers : CommitWritebacks(c, e) \/ ApproveConfirmation(c, e)
      PROVE  VaultInv' /\ UNCHANGED performed
  BY <1>5, ReviewSteps, CommitSteps
<1>6. ASSUME NEW c \in Committers, Mark(c)
      PROVE  VaultInv' /\ UNCHANGED performed
  BY <1>6, MarkSteps DEF Mark
<1> HIDE DEF VaultInv
<1> QED
  BY <1>1, <1>2, <1>3, <1>4, <1>5, <1>6, PerformSteps DEF Next, diskVars

LEMMA VaultInvariant == Spec => []VaultInv
<1> QED
  BY SandboxAssumption, VaultInit, VaultInductive, PTL DEF Spec

\* The rows of the operations tell the truth about the files, except where
\* commits overlapped, an error struck half-way, or the process died.
THEOREM RowsTellTheTruth == Spec => []DiskAgrees
<1>1. VaultInv => DiskAgrees
  BY DEF VaultInv, RowTrue, DiskAgrees
<1> QED
  BY <1>1, VaultInvariant, PTL

\* Nothing that needs review is performed without a person's word.
THEOREM ConsentBeforeEffect == Spec => Consent
<1>1. VaultInv /\ [Next]_vars =>
        [\A o \in Ops : performed'[o] # performed[o] => o \in allowed]_vars
  BY SandboxAssumption, VaultInductive
<1> QED
  BY <1>1, VaultInvariant, PTL DEF Spec, Consent

CrashesOK == crashes \in 0..MaxCrashes

LEMMA CrashesBounded == Spec => []CrashesOK
<1> USE DEF CrashesOK
<1>1. SandboxAssumption /\ Init => CrashesOK
  BY DEF SandboxAssumption, Init
<1>2. SandboxAssumption /\ CrashesOK /\ [Next]_vars => CrashesOK'
  <2>1. Crash => crashes < MaxCrashes /\ crashes' = crashes + 1
    BY SMTT(30) DEF Crash
  <2>2. Next => Crash \/ UNCHANGED crashes
    BY DEF Next, QueueExecution, Suspend, CloseCall, WorkerStep, Claim, Staged, ProcessFails,
       RunnerEnds, Promoted, PromotionFails, MarkExecutionFailed, Finish, Review, AskConfirmation,
       RejectConfirmation, CommitWritebacks, ApproveConfirmation, Perform, Mark
  <2> QED
    BY <2>1, <2>2 DEF SandboxAssumption, vars
<1> HIDE DEF CrashesOK
<1> QED
  BY <1>1, <1>2, SandboxAssumption, PTL DEF Spec

\* Rows, commits, calls and histories keep their types.
THEOREM SandboxTypeCorrect == Spec => []TypeOK
<1>1. WorkerInv /\ VaultInv /\ CrashesOK => TypeOK
  BY DEF CrashesOK, WorkerInv, WorkerTypeOK, VaultInv, VaultTypeOK, Commits, TypeOK
<1> QED
  BY <1>1, WorkerInvariant, VaultInvariant, CrashesBounded, PTL
=============================================================================
