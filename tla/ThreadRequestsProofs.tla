------------------------ MODULE ThreadRequestsProofs ------------------------
(* What is proved of ThreadRequests: that runs, jobs and messages go on      *)
(* referring to each other through every command, and that a key makes one   *)
(* run and gives one answer, for any number of threads, runs, keys and       *)
(* requests.                                                                 *)
EXTENDS ThreadRequests, FiniteSetTheorems, SequenceTheorems, TLAPS

(* A run that is there belongs to a thread that is there. *)
Placed ==
    \A r \in Runs :
        IF run[r].status \in {"unused", "deleted"} THEN run[r].thread = None
        ELSE run[r].thread \in Threads /\ Live(run[r].thread)

ThreadInv == ThreadTypeOK /\ Placed /\ JobFollowsRun /\ MessagesBound

-----------------------------------------------------------------------------
(* The commands, one by one.                                                 *)

LEMMA Messages ==
    ASSUME ThreadTypeOK, NEW t \in Threads
    PROVE  /\ transcript[t] \in Seq(Message)
           /\ Len(transcript[t]) \in Nat
           /\ DOMAIN transcript[t] = 1 .. Len(transcript[t])
           /\ \A i \in DOMAIN transcript[t] :
                 /\ transcript[t][i] \in Message
                 /\ transcript[t][i].run \in Runs \cup {None}
<1>1. transcript[t] \in Seq(Message)
  BY DEF ThreadTypeOK
<1>2. \A i \in DOMAIN transcript[t] : transcript[t][i] \in Message
  BY <1>1
<1> QED
  BY <1>1, <1>2 DEF Message

LEMMA PostedMessage ==
    ASSUME NEW a \in {"user", "assistant"}, NEW r \in Runs \cup {None}
    PROVE  /\ Posted(a, r) \in Message
           /\ Posted(a, r).author = a
           /\ Posted(a, r).run = r
  BY DEF Posted, Message

(* A run that was never started is named by no message and no job. *)
LEMMA FreshRun ==
    ASSUME ThreadInv, NEW r \in Runs, run[r].status = "unused"
    PROVE  \A t \in Threads : /\ \A i \in DOMAIN transcript[t] : transcript[t][i].run # r
                              /\ job[t].run # r
  BY ThreadAssumption DEF ThreadInv, Placed, MessagesBound, Bound

(* A command that leaves a thread's messages and runs alone leaves it bound. *)
LEMMA Untouched ==
    ASSUME ThreadInv, NEW u \in Threads,
           transcript'[u] = transcript[u],
           job'[u].run \in {None, job[u].run},
           \A s \in Runs : run'[s].thread = u <=> run[s].thread = u
    PROVE  Bound(u)'
<1>1. \A i \in DOMAIN transcript[u] : transcript[u][i].run \in Runs \cup {None}
  BY Messages DEF ThreadInv
<1>2. job[u].run \in Runs \cup {None}
  BY DEF ThreadInv, ThreadTypeOK
<1> QED
  BY <1>1, <1>2 DEF ThreadInv, MessagesBound, Bound, RunsIn, Posted

LEMMA BootstrapSafe ==
    ASSUME ThreadInv, NEW t \in Threads, NEW r \in Runs, BootstrapSession(t, r)
    PROVE  ThreadInv'
<1>1. thread[t].state = "unused" /\ run[r].status = "unused"
  BY DEF BootstrapSession, NextThread, NextRun
<1>2. \A s \in Runs : run[s].thread # t
  BY <1>1, ThreadAssumption DEF ThreadInv, Placed, Live, ThreadTypeOK
<1>3. ThreadTypeOK'
  <2>1. <<Posted("user", r)>> \in Seq(Message)
    BY PostedMessage
  <2> QED
    BY ZenonT(60), <1>1, <2>1 DEF ThreadInv, ThreadTypeOK, BootstrapSession, Active
<1>4. Placed'
  BY <1>1 DEF ThreadInv, ThreadTypeOK, Placed, BootstrapSession, Live, Active
<1>5. JobFollowsRun'
  BY <1>1, <1>2, ThreadAssumption
     DEF ThreadInv, ThreadTypeOK, Placed, JobFollowsRun, BootstrapSession, Active, JobStatus
<1>6. MessagesBound'
  <2> SUFFICES ASSUME NEW u \in Threads PROVE Bound(u)'
    BY DEF MessagesBound
  <2>1. CASE u = t
    BY <2>1, <1>1, <1>2 DEF ThreadInv, ThreadTypeOK, BootstrapSession, Bound, RunsIn, Posted
  <2>2. CASE u # t
    <3>1. transcript'[u] = transcript[u] /\ job'[u] = job[u]
      BY <2>2 DEF ThreadInv, ThreadTypeOK, BootstrapSession
    <3>2. \A s \in Runs : run'[s].thread = u <=> run[s].thread = u
      BY <1>1, <2>2, ThreadAssumption DEF ThreadInv, ThreadTypeOK, BootstrapSession, Placed
    <3> QED
      BY <3>1, <3>2, Untouched
  <2> QED
    BY <2>1, <2>2
<1> QED
  BY <1>3, <1>4, <1>5, <1>6 DEF ThreadInv

LEMMA InteractionSafe ==
    ASSUME ThreadInv, NEW t \in Threads, NEW r \in Runs, StartThreadInteraction(t, r)
    PROVE  ThreadInv'
<1>1. Live(t) /\ ActiveIn(t) = {} /\ run[r].status = "unused" /\ run[r].thread = None
  BY DEF StartThreadInteraction, MayInteract, NextRun, ThreadInv, Placed
<1>2. /\ run' = [run EXCEPT ![r] = [status |-> "pending", thread |-> t]]
      /\ job' = [job EXCEPT ![t] = [status |-> "queued", run |-> r]]
      /\ thread' = thread
  BY DEF StartThreadInteraction
<1>3. \/ transcript' = [transcript EXCEPT ![t] = Append(@, Posted("user", r))]
      \/ \E i \in Unbound(t) : transcript' = [transcript EXCEPT ![t][i].run = r]
  BY DEF StartThreadInteraction
<1>4. PICK n \in Nat :
        /\ transcript' = [transcript EXCEPT ![t] = transcript'[t]]
        /\ transcript'[t] \in Seq(Message)
        /\ DOMAIN transcript'[t] = 1 .. Len(transcript'[t])
        /\ n \in DOMAIN transcript'[t]
        /\ transcript'[t][n] = Posted("user", r)
        /\ \A j \in DOMAIN transcript'[t] \ {n} :
              j \in DOMAIN transcript[t] /\ transcript'[t][j] = transcript[t][j]
        /\ \A j \in DOMAIN transcript[t] \ {n} :
              j \in DOMAIN transcript'[t] /\ transcript'[t][j] = transcript[t][j]
        /\ n \in DOMAIN transcript[t] => transcript[t][n].run = None
  <2>1. /\ transcript[t] \in Seq(Message) /\ Len(transcript[t]) \in Nat
        /\ DOMAIN transcript[t] = 1 .. Len(transcript[t])
        /\ t \in DOMAIN transcript
        /\ Posted("user", r) \in Message
    BY Messages, PostedMessage DEF ThreadInv, ThreadTypeOK
  <2>2. CASE transcript' = [transcript EXCEPT ![t] = Append(@, Posted("user", r))]
    BY <2>1, <2>2
  <2>3. CASE \E i \in Unbound(t) : transcript' = [transcript EXCEPT ![t][i].run = r]
    <3>1. PICK i \in Unbound(t) : transcript' = [transcript EXCEPT ![t][i].run = r]
      BY <2>3
    <3>2. i \in DOMAIN transcript[t] /\ transcript[t][i] = Posted("user", None)
      BY DEF Unbound
    <3>3. transcript'[t] = [transcript[t] EXCEPT ![i] = Posted("user", r)]
      <4>1. transcript'[t] = [transcript[t] EXCEPT ![i] = [transcript[t][i] EXCEPT !.run = r]]
        BY <3>1, <2>1
      <4>2. [transcript[t][i] EXCEPT !.run = r] = Posted("user", r)
        BY <3>2 DEF Posted
      <4> QED
        BY <4>1, <4>2
    <3>4. transcript'[t] \in Seq(Message) /\ Len(transcript'[t]) = Len(transcript[t])
      BY <3>2, <3>3, <2>1, ExceptSeq
    <3> QED
      BY <3>1, <3>2, <3>3, <3>4, <2>1 DEF Posted
  <2> QED
    BY <1>3, <2>2, <2>3
<1>5. ThreadTypeOK'
  BY <1>2, <1>4 DEF ThreadInv, ThreadTypeOK, Active
<1>6. Placed'
  BY <1>1, <1>2 DEF ThreadInv, ThreadTypeOK, Placed, Live, Active
<1>7. JobFollowsRun'
  BY <1>1, <1>2, ThreadAssumption
     DEF ThreadInv, ThreadTypeOK, Placed, JobFollowsRun, ActiveIn, RunsIn, Active, JobStatus
<1>8. MessagesBound'
  <2> SUFFICES ASSUME NEW u \in Threads PROVE Bound(u)'
    BY DEF MessagesBound
  <2>1. CASE u = t
    <3>1. \A j \in DOMAIN transcript[t] : transcript[t][j].run \in (Runs \cup {None}) \ {r}
      BY FreshRun, Messages, <1>1 DEF ThreadInv
    <3>2. Bound(t)
      BY DEF ThreadInv, MessagesBound
    <3>3. /\ run'[r].thread = t
          /\ \A s \in Runs \ {r} : run'[s] = run[s]
          /\ job'[t].run = r
      BY <1>2 DEF ThreadInv, ThreadTypeOK
    <3>4. \A s \in RunsIn(t)' : \E i \in DOMAIN transcript'[t] :
             transcript'[t][i] = Posted("user", s)
      <4> SUFFICES ASSUME NEW s \in Runs, run'[s].thread = t
                   PROVE  \E i \in DOMAIN transcript'[t] : transcript'[t][i] = Posted("user", s)
        BY DEF RunsIn
      <4>1. CASE s = r
        BY <4>1, <1>4
      <4>2. CASE s # r
        <5>1. s \in RunsIn(t)
          BY <4>2, <3>3 DEF RunsIn
        <5>2. PICK i \in DOMAIN transcript[t] : transcript[t][i] = Posted("user", s)
          BY <5>1, <3>2 DEF Bound
        <5>3. i # n
          <6>1. transcript[t][i].run = s /\ s # None
            BY <5>2, ThreadAssumption DEF Posted
          <6> QED
            BY <6>1, <1>4
        <5> QED
          BY <5>2, <5>3, <1>4
      <4> QED
        BY <4>1, <4>2
    <3>5. ASSUME NEW i \in DOMAIN transcript'[t], transcript'[t][i].run # None
          PROVE  /\ run'[transcript'[t][i].run].thread = t
                 /\ transcript'[t][i].author = "user" =>
                      \A j \in DOMAIN transcript'[t] :
                          transcript'[t][j] = transcript'[t][i] => j = i
      BY <3>1, <3>2, <3>3, <3>5, <1>4 DEF Bound, Posted
    <3> QED
      BY <2>1, <3>3, <3>4, <3>5 DEF Bound
  <2>2. CASE u # t
    <3>1. transcript'[u] = transcript[u] /\ job'[u] = job[u]
      BY <2>2, <1>2, <1>4 DEF ThreadInv, ThreadTypeOK
    <3>2. \A s \in Runs : run'[s].thread = u <=> run[s].thread = u
      BY <1>1, <1>2, <2>2, ThreadAssumption DEF ThreadInv, ThreadTypeOK
    <3> QED
      BY <3>1, <3>2, Untouched
  <2> QED
    BY <2>1, <2>2
<1> QED
  BY <1>5, <1>6, <1>7, <1>8 DEF ThreadInv

LEMMA PostSafe ==
    ASSUME ThreadInv, NEW t \in Threads, PostThreadMessage(t)
    PROVE  ThreadInv'
<1>1. /\ transcript' = [transcript EXCEPT ![t] = Append(@, Posted("user", None))]
      /\ job' = ReopenJob(t) /\ thread' = thread /\ run' = run
  BY DEF PostThreadMessage
<1>2. /\ transcript[t] \in Seq(Message) /\ Len(transcript[t]) \in Nat
      /\ DOMAIN transcript[t] = 1 .. Len(transcript[t])
      /\ Posted("user", None) \in Message
  BY Messages, PostedMessage DEF ThreadInv
<1>3. \A u \in Threads : /\ job'[u].run = job[u].run
                         /\ job[u].status # "ended" => job'[u] = job[u]
  BY <1>1 DEF ReopenJob, ThreadInv, ThreadTypeOK
<1>4. ThreadTypeOK'
  <2>1. transcript' \in [Threads -> Seq(Message)]
    <3>1. Append(transcript[t], Posted("user", None)) \in Seq(Message)
      BY <1>2
    <3> QED
      BY <1>1, <3>1 DEF ThreadInv, ThreadTypeOK
  <2>2. job' \in [Threads -> [status : {"none", "queued", "running", "waiting", "ended"},
                              run : Runs \cup {None}]]
    BY <1>1 DEF ThreadInv, ThreadTypeOK, ReopenJob
  <2> QED
    BY <1>1, <2>1, <2>2 DEF ThreadInv, ThreadTypeOK
<1>5. Placed'
  BY <1>1 DEF ThreadInv, Placed, Live
<1>6. JobFollowsRun'
  <2> SUFFICES ASSUME NEW r \in Runs, run[r].status \in Active
               PROVE  job'[run[r].thread] = [status |-> JobStatus[run[r].status], run |-> r]
    BY <1>1 DEF JobFollowsRun
  <2>1. run[r].thread \in Threads
    BY DEF ThreadInv, Placed, Active
  <2>2. job[run[r].thread] = [status |-> JobStatus[run[r].status], run |-> r]
    BY DEF ThreadInv, JobFollowsRun
  <2>3. JobStatus[run[r].status] # "ended"
    BY DEF JobStatus, Active
  <2> QED
    BY <2>1, <2>2, <2>3, <1>3
<1>7. MessagesBound'
  <2> SUFFICES ASSUME NEW u \in Threads PROVE Bound(u)'
    BY DEF MessagesBound
  <2>1. CASE u = t
    <3>1. Bound(t)
      BY DEF ThreadInv, MessagesBound
    <3>2. /\ DOMAIN transcript'[t] = 1 .. Len(transcript[t]) + 1
          /\ transcript'[t][Len(transcript[t]) + 1] = Posted("user", None)
          /\ \A j \in DOMAIN transcript[t] : transcript'[t][j] = transcript[t][j]
      BY <1>1, <1>2 DEF ThreadInv, ThreadTypeOK
    <3> QED
      BY <2>1, <3>1, <3>2, <1>1, <1>2, <1>3 DEF Bound, RunsIn, Posted
  <2>2. CASE u # t
    <3>1. transcript'[u] = transcript[u]
      BY <2>2, <1>1 DEF ThreadInv, ThreadTypeOK
    <3> QED
      BY <3>1, <1>1, <1>3, Untouched
  <2> QED
    BY <2>1, <2>2
<1> QED
  BY <1>4, <1>5, <1>6, <1>7 DEF ThreadInv

LEMMA EditSafe ==
    ASSUME ThreadInv, NEW t \in Threads, NEW i \in 1 .. MaxMessages, EditThreadMessage(t, i)
    PROVE  ThreadInv'
<1> DEFINE doomed == Doomed(t, i)
<1>1. /\ Live(t) /\ ActiveIn(t) = {}
      /\ i \in DOMAIN transcript[t]
      /\ Unreferred(t, i)
      /\ transcript' = [transcript EXCEPT
                          ![t] = Append(SubSeq(@, 1, i - 1), Posted("user", None))]
      /\ run' = [r \in Runs |-> IF r \in doomed THEN Deleted ELSE run[r]]
      /\ thread' = thread
  BY DEF EditThreadMessage, MayInteract
<1>2. \A u \in Threads : IF u = t THEN \/ job'[t].run = None
                                       \/ job'[t] = job[t] /\ job[t] = NoJob
                                  ELSE job'[u] = job[u]
  BY DEF EditThreadMessage, ThreadInv, ThreadTypeOK
<1>3. /\ transcript[t] \in Seq(Message) /\ Len(transcript[t]) \in Nat
      /\ DOMAIN transcript[t] = 1 .. Len(transcript[t])
      /\ Posted("user", None) \in Message
      /\ i \in Nat /\ i >= 1 /\ i <= Len(transcript[t])
  <2>1. /\ transcript[t] \in Seq(Message) /\ Len(transcript[t]) \in Nat
        /\ DOMAIN transcript[t] = 1 .. Len(transcript[t])
    BY Messages DEF ThreadInv
  <2>2. Posted("user", None) \in Message
    BY PostedMessage
  <2> QED
    BY <2>1, <2>2, <1>1
<1>4. /\ transcript'[t] = Append(SubSeq(transcript[t], 1, i - 1), Posted("user", None))
      /\ SubSeq(transcript[t], 1, i - 1) \in Seq(Message)
      /\ Len(SubSeq(transcript[t], 1, i - 1)) = i - 1
      /\ \A j \in 1 .. i - 1 : SubSeq(transcript[t], 1, i - 1)[j] = transcript[t][j]
  BY <1>1, <1>3 DEF ThreadInv, ThreadTypeOK
<1>5. /\ transcript'[t] \in Seq(Message)
      /\ DOMAIN transcript'[t] = 1 .. i
      /\ transcript'[t][i] = Posted("user", None)
      /\ \A j \in 1 .. i - 1 : transcript'[t][j] = transcript[t][j]
  BY <1>3, <1>4
<1>6. \A r \in doomed : r \in Runs /\ run[r].thread = t
  <2> SUFFICES ASSUME NEW r \in doomed PROVE r \in Runs /\ run[r].thread = t
    OBVIOUS
  <2>1. PICK j \in i .. Len(transcript[t]) : r = transcript[t][j].run /\ r # None
    BY DEF Doomed
  <2>2. j \in DOMAIN transcript[t]
    BY <2>1, <1>3
  <2> QED
    BY <2>1, <2>2, Messages DEF ThreadInv, MessagesBound, Bound
<1>7. ThreadTypeOK'
  <2>1. job' \in [Threads -> [status : {"none", "queued", "running", "waiting", "ended"},
                              run : Runs \cup {None}]]
    BY DEF EditThreadMessage, ThreadInv, ThreadTypeOK
  <2> QED
    BY <1>1, <1>5, <2>1 DEF ThreadInv, ThreadTypeOK, Deleted
<1>8. Placed'
  BY <1>1 DEF ThreadInv, Placed, Live, Deleted
<1>9. JobFollowsRun'
  BY <1>1, <1>2 DEF ThreadInv, ThreadTypeOK, Placed, JobFollowsRun, ActiveIn, RunsIn, Active,
                    JobStatus, Deleted
<1>10. MessagesBound'
  <2> SUFFICES ASSUME NEW u \in Threads PROVE Bound(u)'
    BY DEF MessagesBound
  <2>1. CASE u = t
    <3>1. Bound(t)
      BY DEF ThreadInv, MessagesBound
    <3>2. \A j \in 1 .. i - 1 : /\ j \in DOMAIN transcript[t]
                               /\ transcript[t][j].run \notin doomed
                               /\ transcript[t][j].run \in Runs \cup {None}
      BY <1>1, <1>3, Messages DEF Unreferred, ThreadInv
    <3>3. \A s \in RunsIn(t)' : s \in RunsIn(t) \ doomed
      BY <1>1, ThreadAssumption DEF RunsIn, Deleted
    <3>4. \A s \in RunsIn(t)' : \E j \in DOMAIN transcript'[t] :
             transcript'[t][j] = Posted("user", s)
      <4> SUFFICES ASSUME NEW s \in RunsIn(t)'
                   PROVE  \E j \in 1 .. i : transcript'[t][j] = Posted("user", s)
        BY <1>5
      <4>1. s \in RunsIn(t) /\ s \notin doomed /\ s # None
        BY <3>3, ThreadAssumption DEF RunsIn
      <4>2. PICK j \in DOMAIN transcript[t] : transcript[t][j] = Posted("user", s)
        BY <4>1, <3>1 DEF Bound
      <4>3. j \in i .. Len(transcript[t]) => s \in doomed
        BY <4>1, <4>2 DEF Doomed, Posted
      <4>4. j \in 1 .. i - 1
        BY <4>1, <4>3, <1>3
      <4> QED
        BY SMTT(30), <4>2, <4>4, <1>5, <1>3
    <3>5. ASSUME NEW j \in DOMAIN transcript'[t], transcript'[t][j].run # None
          PROVE  /\ run'[transcript'[t][j].run].thread = t
                 /\ transcript'[t][j].author = "user" =>
                      \A l \in DOMAIN transcript'[t] :
                          transcript'[t][l] = transcript'[t][j] => l = j
      <4>1. j \in 1 .. i - 1
        BY <3>5, <1>5, <1>3 DEF Posted
      <4>2. \A l \in 1 .. i : transcript'[t][l] = transcript'[t][j] => l \in 1 .. i - 1
        BY <3>5, <1>5, <1>3 DEF Posted
      <4> QED
        BY <4>1, <4>2, <3>1, <3>2, <3>5, <1>1, <1>5 DEF Bound
    <3>6. job'[t].run = None
      BY <1>2 DEF NoJob
    <3> QED
      BY <2>1, <3>4, <3>5, <3>6 DEF Bound
  <2>2. CASE u # t
    <3>1. transcript'[u] = transcript[u] /\ job'[u].run = job[u].run
      BY <2>2, <1>1, <1>2 DEF ThreadInv, ThreadTypeOK
    <3>2. \A s \in Runs : run'[s].thread = u <=> run[s].thread = u
      BY <1>1, <1>6, <2>2, ThreadAssumption DEF Deleted
    <3> QED
      BY <3>1, <3>2, Untouched
  <2> QED
    BY <2>1, <2>2
<1> QED
  BY <1>7, <1>8, <1>9, <1>10 DEF ThreadInv

LEMMA BranchSafe ==
    ASSUME ThreadInv, NEW t \in Threads, NEW i \in 1 .. MaxMessages, NEW u \in Threads,
           BranchThread(t, i, u)
    PROVE  ThreadInv'
<1>1. /\ i \in DOMAIN transcript[t]
      /\ thread[u].state = "unused"
      /\ thread' = [thread EXCEPT ![u] = [state |-> "live", parent |-> t]]
      /\ transcript' = [transcript EXCEPT
                          ![u] = [j \in 1 .. i |-> Posted(transcript[t][j].author, None)]]
      /\ run' = run /\ job' = job
  BY DEF BranchThread, NextThread
<1>2. /\ i \in Nat
      /\ \A j \in 1 .. i : transcript[t][j].author \in {"user", "assistant"}
  BY <1>1, Messages, ThreadAssumption DEF ThreadInv, Message
<1>3. [j \in 1 .. i |-> Posted(transcript[t][j].author, None)] \in Seq(Message)
  <2>1. \A j \in 1 .. i : Posted(transcript[t][j].author, None) \in Message
    BY <1>2, PostedMessage
  <2> QED
    BY <1>2, <2>1
<1>4. ThreadTypeOK'
  BY <1>1, <1>3 DEF ThreadInv, ThreadTypeOK
<1>5. \A s \in Runs : run[s].thread # u
  BY <1>1, ThreadAssumption DEF ThreadInv, Placed, Live
<1>6. Placed'
  BY <1>1, <1>5 DEF ThreadInv, ThreadTypeOK, Placed, Live
<1>7. JobFollowsRun'
  BY <1>1 DEF ThreadInv, JobFollowsRun
<1>8. MessagesBound'
  <2> SUFFICES ASSUME NEW v \in Threads PROVE Bound(v)'
    BY DEF MessagesBound
  <2>1. CASE v = u
    <3>1. /\ transcript'[u] = [j \in 1 .. i |-> Posted(transcript[t][j].author, None)]
          /\ job'[u] = job[u] /\ run' = run
      BY <1>1 DEF ThreadInv, ThreadTypeOK
    <3>2. \A j \in DOMAIN transcript'[u] : transcript'[u][j].run = None
      BY <3>1 DEF Posted
    <3> QED
      BY <2>1, <3>1, <3>2, <1>5 DEF ThreadInv, MessagesBound, Bound, RunsIn
  <2>2. CASE v # u
    <3>1. transcript'[v] = transcript[v]
      BY <2>2, <1>1 DEF ThreadInv, ThreadTypeOK
    <3> QED
      BY <3>1, <1>1, Untouched
  <2> QED
    BY <2>1, <2>2
<1> QED
  BY <1>4, <1>6, <1>7, <1>8 DEF ThreadInv

LEMMA DeleteSafe ==
    ASSUME ThreadInv, NEW t \in Threads, DeleteThread(t)
    PROVE  ThreadInv'
<1>1. PICK gone :
        /\ thread' = [u \in Threads |-> IF u \in gone THEN Gone ELSE thread[u]]
        /\ transcript' = [u \in Threads |-> IF u \in gone THEN <<>> ELSE transcript[u]]
        /\ run' = [r \in Runs |-> IF run[r].thread \in gone THEN Deleted ELSE run[r]]
        /\ job' = [u \in Threads |-> IF u \in gone THEN NoJob ELSE job[u]]
  BY DEF DeleteThread
<1>2. ThreadTypeOK'
  BY <1>1 DEF ThreadInv, ThreadTypeOK, Gone, Deleted, NoJob
<1>3. Placed'
  BY <1>1 DEF ThreadInv, Placed, Live, Deleted
<1>4. JobFollowsRun'
  BY <1>1 DEF ThreadInv, Placed, JobFollowsRun, Deleted, Active
<1>5. MessagesBound'
  <2> SUFFICES ASSUME NEW u \in Threads PROVE Bound(u)'
    BY DEF MessagesBound
  <2>1. CASE u \in gone
    BY <2>1, <1>1, ThreadAssumption DEF ThreadInv, Placed, Bound, RunsIn, NoJob, Deleted
  <2>2. CASE u \notin gone
    <3>1. transcript'[u] = transcript[u] /\ job'[u] = job[u]
      BY <2>2, <1>1
    <3>2. \A s \in Runs : run'[s].thread = u <=> run[s].thread = u
      BY <2>2, <1>1, ThreadAssumption DEF Deleted
    <3> QED
      BY <3>1, <3>2, Untouched
  <2> QED
    BY <2>1, <2>2
<1> QED
  BY <1>2, <1>3, <1>4, <1>5 DEF ThreadInv

(* A run that moves on takes its job with it, and may leave an answer. *)
LEMMA RunSafe ==
    ASSUME ThreadInv, NEW r \in Runs, run[r].status \in Active,
           NEW status \in Active \cup {"completed", "failed"}, MoveRun(r, status),
           thread' = thread,
           \/ transcript' = transcript
           \/ transcript' = [transcript EXCEPT
                               ![run[r].thread] = Append(@, Posted("assistant", r))]
    PROVE  ThreadInv'
<1> DEFINE t == run[r].thread
<1>1. t \in Threads /\ Live(t)
  BY DEF ThreadInv, Placed, Active
<1>2. /\ run' = [run EXCEPT ![r].status = status]
      /\ job' = [job EXCEPT ![t] =
                  [status |-> IF status \in Active THEN JobStatus[status] ELSE "ended",
                   run |-> r]]
  BY DEF MoveRun
<1>3. /\ \A s \in Runs : run'[s].thread = run[s].thread
      /\ run'[r].status = status
      /\ \A s \in Runs \ {r} : run'[s] = run[s]
  BY <1>2 DEF ThreadInv, ThreadTypeOK
<1>4. /\ transcript[t] \in Seq(Message) /\ Len(transcript[t]) \in Nat
      /\ DOMAIN transcript[t] = 1 .. Len(transcript[t])
      /\ Posted("assistant", r) \in Message
  <2>1. Posted("assistant", r) \in Message
    BY PostedMessage
  <2> QED
    BY <1>1, <2>1, Messages DEF ThreadInv
<1>5. ThreadTypeOK'
  <2>1. transcript' \in [Threads -> Seq(Message)]
    <3>1. Append(transcript[t], Posted("assistant", r)) \in Seq(Message)
      BY <1>4
    <3> QED
      BY <3>1 DEF ThreadInv, ThreadTypeOK
  <2>2. job' \in [Threads -> [status : {"none", "queued", "running", "waiting", "ended"},
                              run : Runs \cup {None}]]
    BY <1>1, <1>2 DEF ThreadInv, ThreadTypeOK, JobStatus, Active
  <2>3. run' \in [Runs -> [status : Active \cup {"unused", "completed", "failed", "deleted"},
                           thread : Threads \cup {None}]]
    BY <1>2 DEF ThreadInv, ThreadTypeOK
  <2> QED
    BY <2>1, <2>2, <2>3 DEF ThreadInv, ThreadTypeOK
<1>6. Placed'
  BY <1>1, <1>3 DEF ThreadInv, Placed, Live, Active
<1>7. JobFollowsRun'
  <2> SUFFICES ASSUME NEW s \in Runs, run'[s].status \in Active
               PROVE  job'[run'[s].thread] = [status |-> JobStatus[run'[s].status], run |-> s]
    BY DEF JobFollowsRun
  <2>1. CASE s = r
    BY <2>1, <1>1, <1>2, <1>3 DEF ThreadInv, ThreadTypeOK
  <2>2. CASE s # r
    <3>1. /\ job[run[s].thread] = [status |-> JobStatus[run[s].status], run |-> s]
          /\ job[t] = [status |-> JobStatus[run[r].status], run |-> r]
      BY <2>2, <1>3 DEF ThreadInv, JobFollowsRun
    <3>2. run[s].thread # t
      BY <2>2, <3>1
    <3> QED
      BY <2>2, <3>1, <3>2, <1>2, <1>3 DEF ThreadInv, ThreadTypeOK
  <2> QED
    BY <2>1, <2>2
<1>8. MessagesBound'
  <2> SUFFICES ASSUME NEW u \in Threads PROVE Bound(u)'
    BY DEF MessagesBound
  <2>1. Bound(u) /\ job'[u].run \in {job[u].run, r} /\ (u # t => job'[u] = job[u])
    BY <1>1, <1>2 DEF ThreadInv, ThreadTypeOK, MessagesBound
  <2>2. CASE transcript'[u] = transcript[u] /\ u # t
    BY <2>1, <2>2, <1>3, Untouched
  <2>3. CASE u = t /\ transcript'[t] = transcript[t]
    <3>1. \A i \in DOMAIN transcript[t] : transcript[t][i].run \in Runs \cup {None}
      BY <1>1, Messages DEF ThreadInv
    <3>2. /\ transcript'[u] = transcript[u] /\ RunsIn(u)' = RunsIn(u)
          /\ \A s \in Runs : run'[s].thread = run[s].thread
      BY <2>3, <1>3 DEF RunsIn
    <3>3. job'[u].run # None => run'[job'[u].run].thread = u
      <4>1. job'[u].run = r
        BY <2>3, <1>1, <1>2 DEF ThreadInv, ThreadTypeOK
      <4> QED
        BY <2>3, <3>2, <4>1
    <3>4. \A s \in RunsIn(u)' : \E i \in DOMAIN transcript'[u] : transcript'[u][i] = Posted("user", s)
      BY <2>1, <3>2 DEF Bound
    <3>5. ASSUME NEW i \in DOMAIN transcript'[u], transcript'[u][i].run # None
          PROVE  /\ run'[transcript'[u][i].run].thread = u
                 /\ transcript'[u][i].author = "user" =>
                      \A j \in DOMAIN transcript'[u] :
                          transcript'[u][j] = transcript'[u][i] => j = i
      <4>1. transcript[u][i].run \in Runs
        BY SMTT(30), <2>3, <3>1, <3>2, <3>5
      <4> QED
        BY <2>1, <3>2, <3>5, <4>1 DEF Bound
    <3> QED
      BY <3>3, <3>4, <3>5 DEF Bound
  <2>4. CASE u = t /\ transcript'[t] = Append(transcript[t], Posted("assistant", r))
    <3>1. \A i \in DOMAIN transcript[t] : transcript[t][i].run \in Runs \cup {None}
      BY <1>1, Messages DEF ThreadInv
    <3>2. /\ DOMAIN transcript'[t] = 1 .. Len(transcript[t]) + 1
          /\ transcript'[t][Len(transcript[t]) + 1] = Posted("assistant", r)
          /\ \A i \in DOMAIN transcript[t] :
                i \in DOMAIN transcript'[t] /\ transcript'[t][i] = transcript[t][i]
      BY <2>4, <1>4
    <3>3. Posted("assistant", r).run = r /\ Posted("assistant", r).author = "assistant"
      BY DEF Posted
    <3>4. \A i \in DOMAIN transcript'[t] :
             i \in DOMAIN transcript[t] \/ transcript'[t][i] = Posted("assistant", r)
      BY <3>2, <1>4
    <3>5. job'[t].run = r
      BY SMTT(30), <1>1, <1>2 DEF ThreadInv, ThreadTypeOK
    <3>6. \A s \in RunsIn(t)' : \E i \in DOMAIN transcript'[t] :
             transcript'[t][i] = Posted("user", s)
      BY <2>1, <2>4, <3>2, <1>3 DEF Bound, RunsIn
    <3>7. ASSUME NEW i \in DOMAIN transcript'[t], transcript'[t][i].run # None
          PROVE  /\ run'[transcript'[t][i].run].thread = t
                 /\ transcript'[t][i].author = "user" =>
                      \A j \in DOMAIN transcript'[t] :
                          transcript'[t][j] = transcript'[t][i] => j = i
      <4>1. CASE i \in DOMAIN transcript[t]
        <5>1. transcript'[t][i] = transcript[t][i] /\ transcript[t][i].run \in Runs
          BY SMTT(30), <4>1, <3>7, <3>1, <3>2
        <5>2. run[transcript[t][i].run].thread = t
          BY <4>1, <5>1, <3>7, <2>1, <2>4 DEF Bound
        <5>3. ASSUME transcript'[t][i].author = "user", NEW j \in DOMAIN transcript'[t],
                     transcript'[t][j] = transcript'[t][i]
              PROVE  j = i
          <6>1. j \in DOMAIN transcript[t] /\ transcript[t][j] = transcript[t][i]
            BY <5>1, <5>3, <3>2, <3>3, <3>4
          <6>2. transcript[t][i].author = "user" /\ transcript[t][i].run # None
            BY SMTT(30), <5>1, <5>3, <3>7
          <6>3. \A l \in DOMAIN transcript[t] : transcript[t][l] = transcript[t][i] => l = i
            BY <4>1, <6>2, <2>1, <2>4 DEF Bound
          <6> QED
            BY <6>1, <6>3
        <5> QED
          BY <5>1, <5>2, <5>3, <1>3
      <4>2. CASE transcript'[t][i] = Posted("assistant", r)
        BY <4>2, <3>3, <1>3
      <4> QED
        BY <4>1, <4>2, <3>4
    <3> QED
      BY <2>4, <3>5, <3>6, <3>7, <1>3 DEF Bound
  <2> QED
    <3>1. t \in DOMAIN transcript
      BY <1>1 DEF ThreadInv, ThreadTypeOK
    <3>2. u # t => transcript'[u] = transcript[u]
      BY DEF ThreadInv, ThreadTypeOK
    <3>3. transcript'[t] \in {transcript[t], Append(transcript[t], Posted("assistant", r))}
      BY <3>1
    <3> QED
      BY <2>2, <2>3, <2>4, <3>2, <3>3
<1> QED
  BY <1>5, <1>6, <1>7, <1>8 DEF ThreadInv

LEMMA RunStepSafe == ASSUME ThreadInv, RunStep PROVE ThreadInv'
<1>1. PICK r \in Runs : StartRun(r) \/ SuspendRun(r) \/ CompleteRun(r) \/ FailRun(r)
  BY DEF RunStep
<1>2. CASE StartRun(r)
  <2>1. run[r].status \in Active /\ "running" \in Active
    BY <1>2 DEF StartRun, Active
  <2> QED
    BY <1>2, <2>1, RunSafe DEF StartRun
<1>3. CASE SuspendRun(r)
  <2>1. run[r].status \in Active /\ "waiting" \in Active
    BY <1>3 DEF SuspendRun, Active
  <2> QED
    BY <1>3, <2>1, RunSafe DEF SuspendRun
<1>4. CASE CompleteRun(r)
  <2>1. run[r].status \in Active
    BY <1>4 DEF CompleteRun, Active
  <2> QED
    BY <1>4, <2>1, RunSafe DEF CompleteRun
<1>5. CASE FailRun(r)
  BY <1>5, RunSafe DEF FailRun
<1> QED
  BY <1>1, <1>2, <1>3, <1>4, <1>5

LEMMA ConverseSafe == ASSUME ThreadInv, Converse PROVE ThreadInv'
  BY InteractionSafe, PostSafe, EditSafe, BranchSafe, DeleteSafe DEF Converse

LEMMA StutterSafe == ASSUME ThreadInv, UNCHANGED threadVars PROVE ThreadInv'
<1> USE DEF threadVars
<1>1. ThreadTypeOK'
  BY DEF ThreadInv, ThreadTypeOK
<1>2. Placed'
  BY DEF ThreadInv, Placed, Live
<1>3. JobFollowsRun'
  BY DEF ThreadInv, JobFollowsRun
<1>4. MessagesBound'
  BY DEF ThreadInv, MessagesBound, Bound, RunsIn
<1> QED
  BY <1>1, <1>2, <1>3, <1>4 DEF ThreadInv

LEMMA InitThreads == ASSUME ThreadInit PROVE ThreadInv
<1>1. ThreadTypeOK
  <2>1. <<>> \in Seq(Message)
    OBVIOUS
  <2> QED
    BY <2>1, ThreadAssumption DEF ThreadInit, ThreadTypeOK, NoRun, NoJob
<1>2. Placed /\ JobFollowsRun
  BY DEF ThreadInit, Placed, JobFollowsRun, NoRun, Active
<1>3. MessagesBound
  BY ThreadAssumption DEF ThreadInit, MessagesBound, Bound, RunsIn, NoRun, NoJob
<1> QED
  BY <1>1, <1>2, <1>3 DEF ThreadInv

-----------------------------------------------------------------------------
(* The rows of the keys.                                                     *)

RowType == [id : 0 .. MaxRows, status : {"none", "in_progress", "completed"},
            expired : BOOLEAN, run : Runs \cup {None}]

RequestType == [pc : {"idle", "begun", "committed", "executing", "recovering"},
                id : 0 .. MaxRows, run : Runs \cup {None}, late : BOOLEAN]

RequestTypeOK ==
    /\ kind \in [Keys -> {"interaction", "bootstrap"}]
    /\ row \in [Keys -> RowType]
    /\ req \in [Requests -> RequestType]
    /\ made \in [Keys -> SUBSET Runs]
    /\ answered \in [Keys -> SUBSET Runs]
    /\ lapsed \in [Keys -> BOOLEAN]
    /\ commands \in 0 .. MaxCommands
    /\ crashes \in 0 .. MaxCrashes

HasRun(q) == req[q].pc \in {"committed", "executing", "recovering"}

(* What a row says of the runs made under its key, as long as its memory of  *)
(* them is not lost.                                                         *)
RowRemembers(k) ==
    /\ row[k].status = "none" => made[k] = {}
    /\ row[k].run # None => made[k] = {row[k].run}
    /\ made[k] # {} /\ row[k].run = None =>
          \E q \in Requests : KeyOf[q] = k /\ req[q].pc = "committed"
    /\ ~(Bootstrap(k) /\ InProgress(k) /\ row[k].expired /\ row[k].run # None)

(* What a request may rely on between its steps. *)
RequestKnows(q) ==
    /\ req[q].pc = "begun" =>
          made[KeyOf[q]] = {} /\ Holds(q) /\ Row(q).run = None /\ ~Row(q).expired
    /\ req[q].pc = "committed" =>
          /\ made[KeyOf[q]] = {req[q].run} /\ Holds(q) /\ Row(q).run = None /\ ~Row(q).expired
          /\ \A p \in Requests :
                KeyOf[p] = KeyOf[q] /\ req[p].pc = "committed" => p = q
    /\ req[q].pc \in {"executing", "recovering"} =>
          Row(q).run = req[q].run /\ Row(q).status # "none"

(* The answers given under a key are the one its completed row holds, and    *)
(* runs named by rows and requests were made under the key.                  *)
AnswerKept(k) ==
    /\ answered[k] \subseteq (IF row[k].status = "completed" THEN {row[k].run} ELSE {})
    /\ row[k].run # None => row[k].run \in made[k]
    /\ row[k].status = "completed" => row[k].run # None

Keeping ==
    /\ \A k \in Keys : AnswerKept(k)
    /\ \A q \in Requests : HasRun(q) => req[q].run \in made[KeyOf[q]]

Remembering ==
    /\ \A k \in Keys : ~lapsed[k] => RowRemembers(k)
    /\ \A q \in Requests : ~lapsed[KeyOf[q]] => RequestKnows(q)

(* Only one request is between the start of its command and its next await.  *)
OneTurn == \A p, q \in Requests : Occupies(p) /\ Occupies(q) => p = q

IInv == ThreadInv /\ RequestTypeOK /\ Keeping /\ OneTurn /\ Remembering

-----------------------------------------------------------------------------

LEMMA NextThreads ==
    ASSUME Next
    PROVE  \/ \E t \in Threads, r \in Runs : BootstrapSession(t, r)
           \/ \E t \in Threads, r \in Runs : StartThreadInteraction(t, r)
           \/ Converse
           \/ RunStep
           \/ UNCHANGED threadVars
  BY ThreadAssumption DEF Next, RequestStep, Arrive, Commit, Refuse, RecordProgress, Answer, GiveUp,
     TakeOver, LeaveRecovery, BeginRequest, Replay, RecoverInProgress, Expire, Crash, Other

LEMMA ThreadsSafe == ASSUME ThreadInv, [Next]_vars PROVE ThreadInv'
<1>1. CASE Next
  BY <1>1, NextThreads, BootstrapSafe, InteractionSafe, ConverseSafe, RunStepSafe, StutterSafe
<1>2. CASE UNCHANGED vars
  <2>1. UNCHANGED threadVars
    BY <1>2 DEF vars
  <2> QED
    BY <2>1, StutterSafe
<1> QED
  BY <1>1, <1>2

LEMMA RowUpdates ==
    ASSUME NEW w \in RowType, NEW r \in Runs \cup {None}
    PROVE  /\ [w EXCEPT !.status = "none", !.run = None] \in RowType
           /\ [w EXCEPT !.status = "completed", !.run = r] \in RowType
           /\ [w EXCEPT !.run = r] \in RowType
           /\ [w EXCEPT !.expired = TRUE] \in RowType
           /\ w.run \in Runs \cup {None}
           /\ w.id \in 0 .. MaxRows
  BY DEF RowType

LEMMA RequestUpdates ==
    ASSUME NEW w \in RequestType, NEW r \in Runs \cup {None}
    PROVE  /\ [w EXCEPT !.pc = "committed", !.run = r] \in RequestType
           /\ [w EXCEPT !.pc = "executing"] \in RequestType
           /\ w.run \in Runs \cup {None}
           /\ Idle \in RequestType
           /\ \A n \in 0 .. MaxRows : [Idle EXCEPT !.pc = "begun", !.id = n] \in RequestType
           /\ \A n \in 0 .. MaxRows, b \in BOOLEAN :
                 [pc |-> "recovering", id |-> n, run |-> r, late |-> b] \in RequestType
<1>1. /\ [w EXCEPT !.pc = "committed", !.run = r] \in RequestType
      /\ [w EXCEPT !.pc = "executing"] \in RequestType
      /\ w.run \in Runs \cup {None}
  BY DEF RequestType
<1>2. Idle \in RequestType
  BY RequestAssumption DEF RequestType, Idle
<1>3. \A n \in 0 .. MaxRows : [Idle EXCEPT !.pc = "begun", !.id = n] \in RequestType
  BY DEF RequestType, Idle
<1>4. \A n \in 0 .. MaxRows, b \in BOOLEAN :
         [pc |-> "recovering", id |-> n, run |-> r, late |-> b] \in RequestType
  BY DEF RequestType
<1> QED
  BY <1>1, <1>2, <1>3, <1>4

LEMMA RequestTypes == ASSUME RequestTypeOK, Keeping, [Next]_vars PROVE RequestTypeOK'
<1> USE RequestAssumption DEF RequestTypeOK
<1>1. ASSUME NEW q \in Requests, RequestStep(q) \/ Arrive(q) PROVE RequestTypeOK'
  <2> DEFINE k == KeyOf[q]
  <2>1. /\ k \in Keys
        /\ row[k] \in RowType /\ Row(q) = row[k]
        /\ req[q] \in RequestType
        /\ row[k].run \in Runs \cup {None} /\ req[q].run \in Runs \cup {None}
        /\ row[k].id \in 0 .. MaxRows
        /\ Idle \in RequestType
    <3>1. k \in Keys /\ row[k] \in RowType /\ Row(q) = row[k] /\ req[q] \in RequestType
      BY DEF Row
    <3> QED
      BY <3>1, RowUpdates, RequestUpdates
  <2>2. HasRun(q) => req[q].run \in Runs
    BY <2>1 DEF Keeping
  <2>3. row[k].status = "completed" => row[k].run \in Runs
    BY <2>1 DEF Keeping, AnswerKept
  <2> HIDE DEF k
  <2>4. Abandon(q) \in [Keys -> RowType]
    <3>1. [row[k] EXCEPT !.status = "none", !.run = None] \in RowType
      BY <2>1, RowUpdates
    <3> QED
      BY <2>1, <3>1 DEF Abandon, k
  <2>5. CASE Commit(q)
    <3>1. PICK r \in Runs : /\ req' = [req EXCEPT ![q].pc = "committed", ![q].run = r]
                           /\ made' = [made EXCEPT ![k] = @ \cup {r}]
                           /\ UNCHANGED <<kind, row, answered, lapsed, commands, crashes>>
      BY <2>5 DEF Commit, k
    <3>2. req' = [req EXCEPT ![q] = [req[q] EXCEPT !.pc = "committed", !.run = r]]
      BY <3>1
    <3>3. [req[q] EXCEPT !.pc = "committed", !.run = r] \in RequestType
      BY <2>1, RequestUpdates
    <3> QED
      BY <2>1, <3>1, <3>2, <3>3
  <2>6. CASE Refuse(q)
    BY <2>1, <2>4, <2>6 DEF Refuse
  <2>7. CASE RecordProgress(q)
    <3>1. /\ row' = [row EXCEPT ![k] = [row[k] EXCEPT !.run = req[q].run]]
          /\ req' = [req EXCEPT ![q] = [req[q] EXCEPT !.pc = "executing"]]
      BY <2>7 DEF RecordProgress, k
    <3>2. /\ [row[k] EXCEPT !.run = req[q].run] \in RowType
          /\ [req[q] EXCEPT !.pc = "executing"] \in RequestType
      BY <2>1, RowUpdates, RequestUpdates
    <3> QED
      BY <2>1, <2>7, <3>1, <3>2 DEF RecordProgress
  <2>8. CASE Answer(q)
    <3>1. HasRun(q)
      BY <2>8 DEF Answer, HasRun
    <3>2. [row[k] EXCEPT !.status = "completed", !.run = req[q].run] \in RowType
      BY <2>1, RowUpdates
    <3>3. row' \in [Keys -> RowType]
      BY <2>1, <2>8, <3>2 DEF Answer, CompleteOrReplay, k
    <3>4. answered' \in [Keys -> SUBSET Runs]
      BY <2>1, <2>2, <2>3, <2>8, <3>1 DEF Answer, CompleteOrReplay, k
    <3> QED
      BY <2>1, <2>8, <3>3, <3>4 DEF Answer
  <2>9. CASE GiveUp(q)
    BY <2>1, <2>4, <2>9 DEF GiveUp
  <2>10. ASSUME NEW late, MayBegin(q, late), Begin(q),
                UNCHANGED <<kind, made, answered, lapsed, commands, crashes>>
         PROVE  RequestTypeOK'
    <3> DEFINE id == IF InProgress(k) THEN row[k].id ELSE row[k].id + 1
    <3>1. id \in 0 .. MaxRows
      BY <2>1, <2>10 DEF MayBegin, k
    <3> HIDE DEF id
    <3>2. /\ row' = [row EXCEPT ![k] = [id |-> id, status |-> "in_progress",
                                       expired |-> FALSE, run |-> None]]
          /\ req' = [req EXCEPT ![q] = [Idle EXCEPT !.pc = "begun", !.id = id]]
      BY <2>1, <2>10 DEF Begin, k, id
    <3>3. /\ [id |-> id, status |-> "in_progress", expired |-> FALSE, run |-> None] \in RowType
          /\ [Idle EXCEPT !.pc = "begun", !.id = id] \in RequestType
      BY <2>1, <3>1, RequestUpdates DEF RowType
    <3> QED
      BY <2>1, <2>10, <3>2, <3>3
  <2>11. CASE TakeOver(q)
    BY <2>10, <2>11 DEF TakeOver, TakesOver
  <2>12. CASE LeaveRecovery(q)
    BY <2>1, <2>3, <2>12 DEF LeaveRecovery, k
  <2>13. CASE BeginRequest(q)
    BY <2>10, <2>13 DEF BeginRequest
  <2>14. CASE Replay(q)
    BY <2>1, <2>3, <2>14 DEF Replay, k
  <2>15. CASE RecoverInProgress(q)
    <3>1. row[k].expired \in BOOLEAN
      BY <2>1 DEF RowType
    <3>2. [pc |-> "recovering", id |-> row[k].id, run |-> row[k].run, late |-> row[k].expired]
            \in RequestType
      BY <2>1, <3>1, RequestUpdates
    <3> QED
      BY <2>1, <2>15, <3>2 DEF RecoverInProgress
  <2> QED
    BY <1>1, <2>5, <2>6, <2>7, <2>8, <2>9, <2>11, <2>12, <2>13, <2>14, <2>15 DEF RequestStep, Arrive
<1>2. ASSUME NEW k \in Keys, Expire(k) PROVE RequestTypeOK'
  <2>1. /\ row[k] \in RowType
        /\ row' = [row EXCEPT ![k] = [row[k] EXCEPT !.expired = TRUE]]
    BY <1>2 DEF Expire
  <2>2. [row[k] EXCEPT !.expired = TRUE] \in RowType
    BY <2>1, RowUpdates
  <2>3. lapsed' \in [Keys -> BOOLEAN]
    BY <1>2 DEF Expire, Bootstrap
  <2> QED
    BY <1>2, <2>1, <2>2, <2>3 DEF Expire
<1>3. CASE Crash
  <2>1. Idle \in RequestType
    BY RequestAssumption DEF Idle, RequestType
  <2>2. lapsed' \in [Keys -> BOOLEAN]
    BY <1>3 DEF Crash
  <2> QED
    BY <1>3, <2>1, <2>2 DEF Crash
<1>4. CASE Other
  BY <1>4 DEF Other
<1>5. CASE UNCHANGED vars
  BY <1>5 DEF vars
<1> QED
  BY <1>1, <1>2, <1>3, <1>4, <1>5 DEF Next

(* What each step of a request changes: its own state, and the row and the   *)
(* histories of its key.                                                     *)
LEMMA StepFrame ==
    ASSUME RequestTypeOK, NEW q \in Requests, RequestStep(q) \/ Arrive(q)
    PROVE  /\ kind' = kind
           /\ \A p \in Requests \ {q} : req'[p] = req[p]
           /\ \A l \in Keys \ {KeyOf[q]} :
                 row'[l] = row[l] /\ made'[l] = made[l] /\ answered'[l] = answered[l]
                 /\ lapsed'[l] = lapsed[l]
           /\ \A l \in Keys : lapsed[l] => lapsed'[l]
<1> USE RequestAssumption DEF RequestTypeOK
<1>1. CASE Commit(q)
  BY <1>1 DEF Commit
<1>2. CASE Refuse(q)
  BY <1>2 DEF Refuse, Abandon
<1>3. CASE RecordProgress(q)
  BY <1>3 DEF RecordProgress
<1>4. CASE Answer(q)
  BY <1>4 DEF Answer, CompleteOrReplay
<1>5. CASE GiveUp(q)
  BY <1>5 DEF GiveUp, Abandon
<1>6. CASE TakeOver(q)
  BY <1>6 DEF TakeOver, Begin
<1>7. CASE LeaveRecovery(q)
  BY <1>7 DEF LeaveRecovery
<1>8. CASE BeginRequest(q)
  BY <1>8 DEF BeginRequest, Begin
<1>9. CASE Replay(q)
  BY <1>9 DEF Replay
<1>10. CASE RecoverInProgress(q)
  BY <1>10 DEF RecoverInProgress
<1> QED
  BY <1>1, <1>2, <1>3, <1>4, <1>5, <1>6, <1>7, <1>8, <1>9, <1>10 DEF RequestStep, Arrive

LEMMA KeepingSafe == ASSUME RequestTypeOK, Keeping, [Next]_vars PROVE Keeping'
<1>1. ASSUME NEW q \in Requests, RequestStep(q) \/ Arrive(q) PROVE Keeping'
  <2> DEFINE k == KeyOf[q]
  <2>1. /\ k \in Keys /\ Row(q) = row[k]
        /\ row \in [Keys -> RowType] /\ req \in [Requests -> RequestType]
        /\ made \in [Keys -> SUBSET Runs] /\ answered \in [Keys -> SUBSET Runs]
        /\ None \notin Runs
    BY RequestAssumption, ThreadAssumption DEF RequestTypeOK, Row
  <2>2. AnswerKept(k) /\ (HasRun(q) => req[q].run \in made[k])
    BY <2>1 DEF Keeping
  <2>3. SUFFICES /\ AnswerKept(k)'
                 /\ HasRun(q)' => req'[q].run \in made'[k]
                 /\ made[k] \subseteq made'[k]
    <3>1. \A l \in Keys \ {k} : AnswerKept(l)'
      BY <1>1, StepFrame DEF Keeping, AnswerKept
    <3>2. \A p \in Requests \ {q} : HasRun(p)' => req'[p].run \in made'[KeyOf[p]]
      BY <1>1, <2>3, StepFrame, RequestAssumption DEF Keeping, HasRun
    <3> QED
      BY <2>3, <3>1, <3>2 DEF Keeping
  <2>4. /\ Holds(q) =>
             /\ row[k].status = "in_progress"
             /\ Abandon(q) = [row EXCEPT ![k] = [row[k] EXCEPT !.status = "none", !.run = None]]
        /\ ~Holds(q) => Abandon(q) = row
    BY DEF Abandon, Holds, InProgress, Row
  <2> HIDE DEF k
  <2>5. CASE Commit(q)
    <3>1. PICK r \in Runs : /\ req' = [req EXCEPT ![q].pc = "committed", ![q].run = r]
                           /\ made' = [made EXCEPT ![k] = @ \cup {r}]
                           /\ row' = row /\ answered' = answered
      BY <2>5 DEF Commit, k
    <3>2. req'[q].run = r /\ made'[k] = made[k] \cup {r}
      BY <2>1, <3>1 DEF RequestType
    <3> QED
      BY <2>2, <3>1, <3>2 DEF AnswerKept, HasRun
  <2>6. CASE Refuse(q) \/ GiveUp(q)
    <3>1. req'[q] = Idle /\ row' = Abandon(q) /\ made' = made /\ answered' = answered
      BY <2>1, <2>6 DEF Refuse, GiveUp
    <3>2. \/ row'[k] = row[k]
          \/ /\ row[k].status = "in_progress"
             /\ row'[k].status = "none" /\ row'[k].run = None
      <4>1. CASE Holds(q)
        <5>1. row'[k] = [row[k] EXCEPT !.status = "none", !.run = None]
          BY <2>1, <2>4, <3>1, <4>1
        <5> QED
          BY <2>1, <2>4, <4>1, <5>1 DEF RowType
      <4>2. CASE ~Holds(q)
        BY <2>4, <3>1, <4>2
      <4> QED
        BY <4>1, <4>2
    <3> QED
      BY <2>2, <3>1, <3>2 DEF AnswerKept, HasRun, Idle
  <2>7. CASE RecordProgress(q)
    <3>1. /\ req'[q] = [req[q] EXCEPT !.pc = "executing"]
          /\ row'[k] = [row[k] EXCEPT !.run = req[q].run]
          /\ row[k].status = "in_progress" /\ req[q].pc = "committed"
          /\ made' = made /\ answered' = answered
      BY <2>1, <2>7 DEF RecordProgress, Holds, InProgress, k
    <3>2. /\ req'[q].run = req[q].run
          /\ row'[k].run = req[q].run /\ row'[k].status = "in_progress"
      BY <2>1, <3>1 DEF RequestType, RowType
    <3> QED
      BY <2>2, <3>1, <3>2 DEF AnswerKept, HasRun
  <2>8. CASE Answer(q)
    <3>1. req'[q] = Idle /\ made' = made /\ HasRun(q) /\ req[q].run \in made[k]
      BY <2>1, <2>2, <2>8 DEF Answer, HasRun
    <3>2. \/ /\ row[k].status = "in_progress"
             /\ row'[k] = [row[k] EXCEPT !.status = "completed", !.run = req[q].run]
             /\ answered'[k] = answered[k] \cup {req[q].run}
          \/ /\ row'[k] = row[k]
             /\ answered'[k] \in {answered[k]} \cup
                    (IF row[k].status = "completed" THEN {answered[k] \cup {row[k].run}} ELSE {})
      BY <2>1, <2>8 DEF Answer, CompleteOrReplay, Holds, InProgress, k
    <3>3. req[q].run # None
      BY <2>1, <3>1
    <3>4. /\ ~HasRun(q)'
          /\ made'[k] = made[k]
      BY <3>1 DEF HasRun, Idle
    <3>5. CASE /\ row[k].status = "in_progress"
               /\ row'[k] = [row[k] EXCEPT !.status = "completed", !.run = req[q].run]
               /\ answered'[k] = answered[k] \cup {req[q].run}
      <4>1. row'[k].status = "completed" /\ row'[k].run = req[q].run
        BY <2>1, <3>5 DEF RowType
      <4>2. answered[k] = {}
        BY <2>2, <3>5 DEF AnswerKept
      <4>3. AnswerKept(k)'
        BY <3>1, <3>3, <3>4, <3>5, <4>1, <4>2 DEF AnswerKept
      <4> QED
        BY <3>4, <4>3
    <3>6. CASE /\ row'[k] = row[k]
               /\ answered'[k] \in {answered[k]} \cup
                      (IF row[k].status = "completed" THEN {answered[k] \cup {row[k].run}} ELSE {})
      <4>1. AnswerKept(k)'
        BY <2>2, <3>4, <3>6 DEF AnswerKept
      <4> QED
        BY <3>4, <4>1
    <3> QED
      BY <3>2, <3>5, <3>6
  <2>9. CASE TakeOver(q) \/ BeginRequest(q)
    <3>1. row[k].status # "completed" /\ Begin(q) /\ made' = made /\ answered' = answered
      BY <2>1, <2>9 DEF TakeOver, TakesOver, BeginRequest, MayBegin, InProgress, k
    <3>2. req'[q].pc = "begun" /\ row'[k].run = None /\ row'[k].status = "in_progress"
      BY <2>1, <3>1 DEF Begin, Idle, k
    <3> QED
      BY <2>2, <3>1, <3>2 DEF AnswerKept, HasRun
  <2>10. CASE LeaveRecovery(q) \/ Replay(q)
    <3>1. /\ row' = row /\ made' = made
          /\ req'[q] \in {Idle, req[q]}
          /\ answered'[k] \in {answered[k]} \cup
                 (IF row[k].status = "completed" THEN {answered[k] \cup {row[k].run}} ELSE {})
      BY <2>1, <2>10 DEF LeaveRecovery, Replay, k
    <3> QED
      BY <2>2, <3>1 DEF AnswerKept, HasRun, Idle
  <2>11. CASE RecoverInProgress(q)
    <3>1. req'[q].run = row[k].run /\ row[k].run # None
          /\ row' = row /\ made' = made /\ answered' = answered
      BY <2>1, <2>11 DEF RecoverInProgress
    <3> QED
      BY <2>2, <3>1 DEF AnswerKept
  <2> QED
    BY <1>1, <2>5, <2>6, <2>7, <2>8, <2>9, <2>10, <2>11 DEF RequestStep, Arrive
<1>2. ASSUME NEW k \in Keys, Expire(k) PROVE Keeping'
  <2>1. \A l \in Keys : row'[l].status = row[l].status /\ row'[l].run = row[l].run
    BY <1>2 DEF Expire, RequestTypeOK, RowType
  <2> QED
    BY <1>2, <2>1 DEF Expire, Keeping, AnswerKept, HasRun
<1>3. CASE Crash
  BY <1>3 DEF Crash, Keeping, AnswerKept, HasRun, Idle
<1>4. CASE Other
  BY <1>4 DEF Other, Keeping, AnswerKept, HasRun
<1>5. CASE UNCHANGED vars
  BY <1>5 DEF vars, Keeping, AnswerKept, HasRun
<1> QED
  BY <1>1, <1>2, <1>3, <1>4, <1>5 DEF Next

LEMMA OneTurnSafe == ASSUME RequestTypeOK, OneTurn, [Next]_vars PROVE OneTurn'
<1>1. ASSUME NEW q \in Requests, Turn(q), RequestStep(q) \/ Arrive(q) PROVE OneTurn'
  <2>1. \A p \in Requests \ {q} : ~Occupies(p)'
    BY <1>1, StepFrame DEF Turn, Occupies, Bootstrap
  <2> QED
    BY <2>1 DEF OneTurn
<1>2. CASE \E k \in Keys : Expire(k)
  BY <1>2 DEF Expire, OneTurn, Occupies, Bootstrap
<1>3. CASE Crash
  BY <1>3 DEF Crash, OneTurn, Occupies, Idle
<1>4. CASE Other
  BY <1>4 DEF Other, OneTurn, Occupies, Bootstrap
<1>5. CASE UNCHANGED vars
  BY <1>5 DEF vars, OneTurn, Occupies, Bootstrap
<1> QED
  BY <1>1, <1>2, <1>3, <1>4, <1>5 DEF Next

(* A request that has begun is the only one at work under its key. *)
LEMMA Alone ==
    ASSUME IInv, NEW q \in Requests, req[q].pc = "begun", ~lapsed[KeyOf[q]]
    PROVE  /\ made[KeyOf[q]] = {}
           /\ \A p \in Requests : KeyOf[p] = KeyOf[q] /\ p # q => req[p].pc = "idle"
<1>1. made[KeyOf[q]] = {}
  BY DEF IInv, Remembering, RequestKnows
<1>2. ASSUME NEW p \in Requests, KeyOf[p] = KeyOf[q], p # q PROVE req[p].pc = "idle"
  <2>1. ~HasRun(p)
    BY <1>1, <1>2 DEF IInv, Keeping
  <2>2. req[p].pc # "begun"
    BY <1>2 DEF IInv, OneTurn, Occupies
  <2> QED
    BY <2>1, <2>2 DEF IInv, RequestTypeOK, RequestType, HasRun
<1> QED
  BY <1>1, <1>2

(* A step of a request matters to the row and the requests of its key only. *)
LEMMA RememberFrame ==
    ASSUME IInv, NEW q \in Requests, RequestStep(q) \/ Arrive(q),
           ~lapsed'[KeyOf[q]] =>
             /\ RowRemembers(KeyOf[q])'
             /\ \A p \in Requests : KeyOf[p] = KeyOf[q] => RequestKnows(p)'
    PROVE  Remembering'
<1>1. /\ kind' = kind
      /\ \A p \in Requests \ {q} : req'[p] = req[p]
      /\ \A l \in Keys \ {KeyOf[q]} :
            row'[l] = row[l] /\ made'[l] = made[l] /\ lapsed'[l] = lapsed[l]
  BY StepFrame DEF IInv
<1>2. ASSUME NEW l \in Keys, l # KeyOf[q], ~lapsed'[l] PROVE RowRemembers(l)'
  <2>1. RowRemembers(l)
    BY <1>1, <1>2 DEF IInv, Remembering
  <2>2. row'[l] = row[l] /\ made'[l] = made[l] /\ kind' = kind
    BY <1>1, <1>2
  <2>3. \A p \in Requests : KeyOf[p] = l => req'[p] = req[p]
    BY <1>1, <1>2
  <2> QED
    BY <2>1, <2>2, <2>3 DEF RowRemembers, Bootstrap, InProgress
<1>3. ASSUME NEW p \in Requests, KeyOf[p] # KeyOf[q], ~lapsed'[KeyOf[p]] PROVE RequestKnows(p)'
  <2> DEFINE l == KeyOf[p]
  <2>1. l \in Keys
    BY RequestAssumption
  <2>2. RequestKnows(p)
    BY <1>1, <1>3, <2>1 DEF IInv, Remembering
  <2>3. row'[l] = row[l] /\ made'[l] = made[l]
    BY <1>1, <1>3, <2>1
  <2>4. \A o \in Requests : KeyOf[o] = l => req'[o] = req[o]
    BY <1>1, <1>3
  <2> QED
    BY <2>2, <2>3, <2>4 DEF RequestKnows, Holds, InProgress, Row
<1> QED
  BY <1>2, <1>3 DEF Remembering

LEMMA RequestRemembers ==
    ASSUME IInv, NEW q \in Requests, Turn(q), RequestStep(q) \/ Arrive(q)
    PROVE  Remembering'
<1> DEFINE k == KeyOf[q]
<1>1. /\ k \in Keys /\ Row(q) = row[k] /\ Row(q)' = row'[k]
      /\ row \in [Keys -> RowType] /\ req \in [Requests -> RequestType]
      /\ made \in [Keys -> SUBSET Runs] /\ lapsed \in [Keys -> BOOLEAN]
      /\ None \notin Runs
  BY RequestAssumption, ThreadAssumption DEF IInv, RequestTypeOK, Row
<1>2. \A p \in Requests : KeyOf[p] = k /\ HasRun(p) => req[p].run \in made[k] /\ req[p].run # None
  BY <1>1 DEF IInv, Keeping
<1>3. \A p \in Requests \ {q} : req'[p] = req[p]
  BY StepFrame DEF IInv
<1>4. SUFFICES ASSUME ~lapsed'[k]
               PROVE  /\ RowRemembers(k)'
                      /\ \A p \in Requests : KeyOf[p] = k => RequestKnows(p)'
  BY RememberFrame
<1>5. ~lapsed[k] /\ RowRemembers(k) /\ \A p \in Requests : KeyOf[p] = k => RequestKnows(p)
  <2>1. ~lapsed[k]
    BY <1>1, <1>4, StepFrame DEF IInv
  <2> QED
    BY <1>1, <2>1 DEF IInv, Remembering
<1>6. kind' = kind
  BY StepFrame DEF IInv
<1> HIDE DEF k
<1>7. req[q].pc = "begun" =>
        made[k] = {} /\ \A p \in Requests : KeyOf[p] = k /\ p # q => req[p].pc = "idle"
  BY <1>5, Alone DEF k
<1>8. CASE Commit(q)
  <2>1. PICK r \in Runs : /\ req' = [req EXCEPT ![q].pc = "committed", ![q].run = r]
                         /\ made' = [made EXCEPT ![k] = @ \cup {r}]
                         /\ row' = row
    BY <1>8 DEF Commit, k
  <2>2. req[q].pc = "begun" /\ KeyOf[q] = k
    BY <1>8 DEF Commit, k
  <2>3. /\ req'[q].pc = "committed" /\ req'[q].run = r /\ req'[q].id = req[q].id
        /\ made'[k] = {r}
    BY <1>1, <1>7, <2>1, <2>2 DEF RequestType
  <2>4. /\ InProgress(k) /\ row[k].id = req[q].id /\ row[k].run = None /\ ~row[k].expired
    BY <1>1, <1>5, <2>2 DEF RequestKnows, Holds
  <2>5. \A p \in Requests : KeyOf[p] = k /\ p # q => req'[p].pc = "idle"
    BY <1>3, <1>7, <2>2
  <2>6. RowRemembers(k)'
    BY <2>1, <2>2, <2>3, <2>4 DEF RowRemembers, InProgress
  <2>7. RequestKnows(q)'
    BY <1>1, <2>1, <2>2, <2>3, <2>4, <2>5 DEF RequestKnows, Holds, InProgress, Row
  <2>8. \A p \in Requests : KeyOf[p] = k /\ p # q => RequestKnows(p)'
    BY <2>5 DEF RequestKnows
  <2> QED
    BY <2>6, <2>7, <2>8
<1>9. CASE Refuse(q)
  <2>1. req[q].pc = "begun" /\ KeyOf[q] = k /\ made' = made /\ req'[q] = Idle /\ row' = Abandon(q)
    BY <1>1, <1>9 DEF Refuse, k
  <2>2. Holds(q)
    BY <1>5, <2>1 DEF RequestKnows
  <2>3. row'[k].status = "none" /\ row'[k].run = None
    BY <1>1, <2>1, <2>2 DEF Abandon, RowType
  <2>4. RowRemembers(k)'
    BY <1>7, <2>1, <2>3 DEF RowRemembers
  <2>5. \A p \in Requests : KeyOf[p] = k => req'[p].pc = "idle"
    BY <1>3, <1>7, <2>1 DEF Idle
  <2> QED
    BY <2>4, <2>5 DEF RequestKnows
<1>10. CASE RecordProgress(q)
  <2>1. /\ req'[q] = [req[q] EXCEPT !.pc = "executing"] /\ req[q].pc = "committed"
        /\ row'[k] = [row[k] EXCEPT !.run = req[q].run]
        /\ KeyOf[q] = k /\ InProgress(k) /\ made' = made
    BY <1>1, <1>10 DEF RecordProgress, Holds, k
  <2>2. made[k] = {req[q].run} /\ row[k].run = None /\ ~row[k].expired /\ req[q].run # None
    BY <1>1, <1>2, <1>5, <2>1 DEF RequestKnows, HasRun
  <2>3. /\ row'[k].run = req[q].run /\ row'[k].status = "in_progress" /\ ~row'[k].expired
        /\ req'[q].pc = "executing" /\ req'[q].run = req[q].run
    BY <1>1, <2>1, <2>2 DEF RowType, RequestType, InProgress
  <2>4. ASSUME NEW p \in Requests, KeyOf[p] = k, p # q PROVE req'[p].pc = "idle"
    <3>1. req[p].pc # "begun"
      <4>1. SUFFICES ASSUME req[p].pc = "begun" PROVE FALSE
        OBVIOUS
      <4> QED
        BY <1>5, <2>1, <2>4, <4>1, Alone
    <3>2. req[p].pc # "committed"
      BY <1>5, <2>1, <2>4 DEF RequestKnows
    <3>3. req[p].pc \notin {"executing", "recovering"}
      BY <1>1, <1>2, <1>5, <2>2, <2>4 DEF RequestKnows, HasRun, Row
    <3> QED
      BY <1>1, <1>3, <2>4, <3>1, <3>2, <3>3 DEF RequestType
  <2>5. RowRemembers(k)'
    BY <2>1, <2>2, <2>3 DEF RowRemembers
  <2>6. RequestKnows(q)'
    BY <1>1, <2>1, <2>3 DEF RequestKnows, Row
  <2>7. \A p \in Requests : KeyOf[p] = k /\ p # q => RequestKnows(p)'
    BY <2>4 DEF RequestKnows
  <2> QED
    BY <2>5, <2>6, <2>7
<1>11. CASE Answer(q)
  <2>1. /\ req[q].pc \in {"executing", "recovering"} /\ KeyOf[q] = k /\ req'[q] = Idle
        /\ made' = made
    BY <1>1, <1>11 DEF Answer, k
  <2>2. row[k].run = req[q].run /\ row[k].run # None /\ row[k].status # "none"
    BY <1>1, <1>2, <1>5, <2>1 DEF RequestKnows, HasRun
  <2>3. /\ row'[k].run = row[k].run
        /\ row'[k].status = "completed" \/ row'[k] = row[k]
    BY <1>1, <1>11, <2>2 DEF Answer, CompleteOrReplay, RowType, k
  <2>4. \A p \in Requests : KeyOf[p] = k => req[p].pc \notin {"begun", "committed"}
    BY <1>1, <1>5, <2>2 DEF RequestKnows, Row
  <2>5. RowRemembers(k)'
    BY <1>5, <1>6, <2>1, <2>2, <2>3 DEF RowRemembers, InProgress, Bootstrap
  <2>6. ASSUME NEW p \in Requests, KeyOf[p] = k, p # q PROVE RequestKnows(p)'
    BY <1>1, <1>3, <1>5, <2>2, <2>3, <2>4, <2>6 DEF RequestKnows, Row
  <2> QED
    BY <2>1, <2>5, <2>6 DEF RequestKnows, Idle
<1>12. CASE GiveUp(q)
  BY <1>1, <1>4, <1>12 DEF GiveUp, k
<1>13. CASE TakeOver(q)
  <2>1. req[q].pc = "recovering" /\ KeyOf[q] = k /\ Bootstrap(k)
    BY <1>13 DEF TakeOver, Settled, k
  <2>2. row[k].run # None /\ row[k].status # "none"
    BY <1>1, <1>2, <1>5, <2>1 DEF RequestKnows, HasRun
  <2>3. InProgress(k) /\ row[k].expired
    BY <1>1, <1>13, <2>2 DEF TakeOver, TakesOver, MayBegin, k
  <2> QED
    BY <1>5, <2>1, <2>2, <2>3 DEF RowRemembers
<1>14. CASE BeginRequest(q)
  <2>1. KeyOf[q] = k /\ Begin(q) /\ made' = made
    BY <1>14 DEF BeginRequest, k
  <2>2. \/ row[k].status = "none"
        \/ InProgress(k) /\ row[k].expired /\ row[k].run = None
    BY <1>1, <1>14 DEF BeginRequest, MayBegin, k
  <2>3. made[k] = {}
    <3>1. CASE row[k].status = "none"
      BY <1>5, <3>1 DEF RowRemembers
    <3>2. CASE row[k].expired /\ row[k].run = None
      <4>1. \A p \in Requests : KeyOf[p] = k => Row(p) = row[k]
        BY DEF Row
      <4>2. ~\E p \in Requests : KeyOf[p] = k /\ req[p].pc = "committed"
        BY <1>5, <3>2, <4>1 DEF RequestKnows
      <4> QED
        BY <1>5, <3>2, <4>2 DEF RowRemembers
    <3> QED
      BY <2>2, <3>1, <3>2
  <2>4. /\ req'[q].pc = "begun" /\ row'[k].status = "in_progress" /\ row'[k].run = None
        /\ ~row'[k].expired /\ row'[k].id = req'[q].id
    BY <1>1, <2>1 DEF Begin, Idle, k
  <2>5. ASSUME NEW p \in Requests, KeyOf[p] = k, p # q PROVE req'[p].pc = "idle"
    <3>1. ~HasRun(p)
      BY <1>2, <2>3, <2>5
    <3>2. req[p].pc # "begun"
      BY <2>5 DEF Turn, Occupies
    <3> QED
      BY <1>1, <1>3, <2>5, <3>1, <3>2 DEF RequestType, HasRun
  <2>6. RowRemembers(k)'
    BY <2>1, <2>3, <2>4 DEF RowRemembers
  <2>7. RequestKnows(q)'
    BY <1>1, <2>1, <2>3, <2>4 DEF RequestKnows, Holds, InProgress, Row
  <2> QED
    BY <2>5, <2>6, <2>7 DEF RequestKnows
<1>15. CASE Replay(q) \/ LeaveRecovery(q) \/ RecoverInProgress(q)
  <2>1. row' = row /\ made' = made /\ KeyOf[q] = k
    BY <1>15 DEF Replay, LeaveRecovery, RecoverInProgress, k
  <2>2. req[q].pc # "committed"
    BY <1>15 DEF Replay, LeaveRecovery, RecoverInProgress
  <2>3. \/ req'[q].pc = "idle"
        \/ req'[q].pc = "recovering" /\ req'[q].run = row[k].run /\ InProgress(k)
    BY <1>1, <1>15 DEF Replay, LeaveRecovery, RecoverInProgress, Idle, k
  <2>4. RowRemembers(k)'
    BY <1>3, <1>5, <1>6, <2>1, <2>2 DEF RowRemembers, InProgress, Bootstrap
  <2>5. RequestKnows(q)'
    BY <1>1, <2>1, <2>3 DEF RequestKnows, InProgress, Row
  <2>6. ASSUME NEW p \in Requests, KeyOf[p] = k, p # q PROVE RequestKnows(p)'
    <3>1. RequestKnows(p) /\ req'[p] = req[p]
      BY <1>3, <1>5, <2>6
    <3>2. \A o \in Requests : KeyOf[o] = k /\ req'[o].pc = "committed" => req[o].pc = "committed"
      BY <1>3, <2>3
    <3> QED
      BY <2>1, <2>6, <3>1, <3>2 DEF RequestKnows, Holds, InProgress, Row
  <2> QED
    BY <2>4, <2>5, <2>6
<1> QED
  BY <1>8, <1>9, <1>10, <1>11, <1>12, <1>13, <1>14, <1>15 DEF RequestStep, Arrive

LEMMA RememberingSafe == ASSUME IInv, [Next]_vars PROVE Remembering'
<1>1. ASSUME NEW q \in Requests, Turn(q), RequestStep(q) \/ Arrive(q) PROVE Remembering'
  BY <1>1, RequestRemembers
<1>2. ASSUME NEW k \in Keys, Expire(k), \A q \in Requests : ~Occupies(q) PROVE Remembering'
  <2>1. /\ row \in [Keys -> RowType] /\ lapsed \in [Keys -> BOOLEAN]
        /\ row' = [row EXCEPT ![k].expired = TRUE]
        /\ lapsed' = [lapsed EXCEPT ![k] = @ \/ (Bootstrap(k) /\ row[k].run # None)]
        /\ kind' = kind /\ req' = req /\ made' = made
    BY <1>2 DEF Expire, IInv, RequestTypeOK
  <2>2. /\ \A l \in Keys : row'[l].status = row[l].status /\ row'[l].run = row[l].run
                           /\ row'[l].id = row[l].id
        /\ \A l \in Keys \ {k} : row'[l] = row[l]
        /\ \A l \in Keys : ~lapsed'[l] => ~lapsed[l]
        /\ ~lapsed'[k] => ~(Bootstrap(k) /\ row[k].run # None)
    BY <2>1 DEF RowType
  <2>3. ASSUME NEW l \in Keys, ~lapsed'[l] PROVE RowRemembers(l)'
    <3>1. RowRemembers(l) /\ (l = k => ~(Bootstrap(k) /\ row[k].run # None))
      BY <2>2, <2>3 DEF IInv, Remembering
    <3> QED
      BY <2>1, <2>2, <3>1 DEF RowRemembers, Bootstrap, InProgress
  <2>4. ASSUME NEW q \in Requests, ~lapsed'[KeyOf[q]] PROVE RequestKnows(q)'
    <3>1. RequestKnows(q) /\ KeyOf[q] \in Keys
      BY <2>2, <2>4, RequestAssumption DEF IInv, Remembering
    <3>2. KeyOf[q] = k => req[q].pc \notin {"begun", "committed"}
      BY <1>2 DEF Expire, Occupies
    <3> QED
      BY <2>1, <2>2, <3>1, <3>2 DEF RequestKnows, Holds, InProgress, Row
  <2> QED
    BY <2>3, <2>4 DEF Remembering
<1>3. CASE Crash
  <2>1. /\ \A q \in Requests : req'[q].pc = "idle"
        /\ \A k \in Keys : ~lapsed'[k] =>
              ~lapsed[k] /\ ~\E q \in Requests : KeyOf[q] = k /\ req[q].pc = "committed"
        /\ row' = row /\ kind' = kind /\ made' = made
    BY <1>3 DEF Crash, Idle
  <2>2. \A k \in Keys : ~lapsed'[k] => RowRemembers(k)'
    BY <2>1 DEF IInv, Remembering, RowRemembers, Bootstrap, InProgress
  <2> QED
    BY <2>1, <2>2 DEF Remembering, RequestKnows
<1>4. CASE Other \/ UNCHANGED vars
  <2>1. UNCHANGED <<kind, row, req, made, lapsed>>
    BY <1>4 DEF Other, vars
  <2> QED
    BY <2>1 DEF IInv, Remembering, RowRemembers, RequestKnows, Bootstrap, InProgress, Holds, Row
<1> QED
  BY <1>1, <1>2, <1>3, <1>4 DEF Next

-----------------------------------------------------------------------------

LEMMA InitIInv == ASSUME Init PROVE IInv
<1>1. ThreadInv
  BY InitThreads DEF Init
<1>2. RequestTypeOK
  BY RequestAssumption DEF Init, RequestTypeOK, RowType, RequestType, Idle
<1>3. Keeping /\ OneTurn /\ Remembering
  BY RequestAssumption DEF Init, Keeping, AnswerKept, HasRun, OneTurn, Occupies, Remembering,
     RowRemembers, RequestKnows, InProgress, Idle
<1> QED
  BY <1>1, <1>2, <1>3 DEF IInv

LEMMA NextIInv == ASSUME IInv, [Next]_vars PROVE IInv'
<1>1. ThreadInv'
  BY ThreadsSafe DEF IInv
<1>2. RequestTypeOK'
  BY RequestTypes DEF IInv
<1>3. Keeping' /\ OneTurn'
  BY KeepingSafe, OneTurnSafe DEF IInv
<1>4. Remembering'
  BY RememberingSafe
<1> QED
  BY <1>1, <1>2, <1>3, <1>4 DEF IInv

(* The strengthened invariant holds of every state the rows and requests of  *)
(* idempotency.ts can be in: what rows remember, what requests rely on.      *)
THEOREM Inductive == Spec => []IInv
<1>1. Init => IInv
  BY InitIInv
<1>2. IInv /\ [Next]_vars => IInv'
  BY NextIInv
<1> QED
  BY <1>1, <1>2, PTL DEF Spec

(* Threads, messages, runs, jobs, rows and requests keep their types through *)
(* every command, request and crash.                                         *)
THEOREM Types == Spec => []TypeOK
<1>1. IInv => TypeOK
  BY DEF IInv, ThreadInv, RequestTypeOK, RowType, RequestType, TypeOK
<1> QED
  BY <1>1, Inductive, PTL

(* An active run is the current run of its thread's job, at the same stage,  *)
(* whatever is posted, edited, reused, branched or deleted: the job writes   *)
(* of start-thread-interaction.ts, edit-thread-message.ts and job-sync.ts.   *)
THEOREM JobsFollow == Spec => []JobFollowsRun
<1>1. IInv => JobFollowsRun
  BY DEF IInv, ThreadInv
<1> QED
  BY <1>1, Inductive, PTL

(* Every run that was not deleted has the one user message it was started    *)
(* for, in its own thread, and nothing refers to a run that is gone or of    *)
(* another thread (edit-thread-message.ts deletes runs and messages apart).  *)
THEOREM MessagesAreBound == Spec => []MessagesBound
<1>1. IInv => MessagesBound
  BY DEF IInv, ThreadInv
<1> QED
  BY <1>1, Inductive, PTL

(* A key makes two runs only if its row's memory of the first may be lost:   *)
(* the takeover, recording and recovery of http/idempotency.ts are safe      *)
(* under any number of requests.                                             *)
THEOREM KeyMakesOneRun == Spec => []OneRunPerKey
<1>1. ASSUME IInv, NEW k \in Keys PROVE lapsed[k] \/ Cardinality(made[k]) <= 1
  <2>1. SUFFICES ASSUME ~lapsed[k] PROVE Cardinality(made[k]) <= 1
    OBVIOUS
  <2>2. RowRemembers(k)
    BY <1>1, <2>1 DEF IInv, Remembering
  <2>3. made[k] = {} \/ \E r : made[k] = {r}
    <3>1. CASE row[k].run # None
      BY <2>2, <3>1 DEF RowRemembers
    <3>2. CASE row[k].run = None /\ made[k] # {}
      <4>1. PICK q \in Requests : KeyOf[q] = k /\ req[q].pc = "committed"
        BY <2>2, <3>2 DEF RowRemembers
      <4>2. RequestKnows(q)
        BY <1>1, <2>1, <4>1 DEF IInv, Remembering
      <4> QED
        BY <4>1, <4>2 DEF RequestKnows
    <3> QED
      BY <3>1, <3>2
  <2>4. CASE made[k] = {}
    BY <2>4, FS_EmptySet
  <2>5. CASE \E r : made[k] = {r}
    <3>1. PICK r : made[k] = {r}
      BY <2>5
    <3>2. Cardinality({r}) = 1
      BY FS_Singleton
    <3> QED
      BY <3>1, <3>2
  <2> QED
    BY <2>3, <2>4, <2>5
<1>2. IInv => OneRunPerKey
  BY <1>1 DEF OneRunPerKey
<1> QED
  BY <1>2, Inductive, PTL

(* All successful answers under a key name one run, which was made under it, *)
(* even after crashes, takeovers and late writes: completion goes by the     *)
(* identity of the row (http/idempotency.ts, CompleteOrReplay).              *)
THEOREM AnswersNameOneRun == Spec => []AnswersAgree
<1>1. ASSUME IInv, NEW k \in Keys
      PROVE  answered[k] \subseteq made[k] /\ \A r, s \in answered[k] : r = s
  BY <1>1 DEF IInv, Keeping, AnswerKept
<1>2. IInv => AnswersAgree
  BY <1>1 DEF AnswersAgree
<1> QED
  BY <1>2, Inductive, PTL

-----------------------------------------------------------------------------
(* ThreadRequests implements KeyedRuns.                                      *)

(* No command and no run forgets that a run was once used. *)
LEMMA UsedForGood ==
    ASSUME ThreadTypeOK, [Next]_vars, NEW r \in Runs, run[r].status # "unused"
    PROVE  run'[r].status # "unused"
<1> USE DEF ThreadTypeOK
<1>1. ASSUME NEW t \in Threads, NEW s \in Runs,
             BootstrapSession(t, s) \/ StartThreadInteraction(t, s)
      PROVE  run'[r].status # "unused"
  <2>1. run' = [run EXCEPT ![s] = [status |-> "pending", thread |-> t]]
    BY <1>1 DEF BootstrapSession, StartThreadInteraction
  <2> QED
    BY <2>1
<1>2. CASE Converse
  <2>1. ASSUME NEW t \in Threads, NEW i \in 1 .. MaxMessages, EditThreadMessage(t, i)
        PROVE  run'[r].status # "unused"
    BY <2>1 DEF EditThreadMessage, Deleted
  <2>2. ASSUME NEW t \in Threads, DeleteThread(t) PROVE run'[r].status # "unused"
    BY <2>2 DEF DeleteThread, Deleted
  <2>3. ASSUME NEW t \in Threads,
               \/ PostThreadMessage(t)
               \/ \E i \in 1 .. MaxMessages, u \in Threads : BranchThread(t, i, u)
        PROVE  run'[r].status # "unused"
    BY <2>3 DEF PostThreadMessage, BranchThread
  <2> QED
    BY <1>1, <1>2, <2>1, <2>2, <2>3 DEF Converse
<1>3. CASE RunStep
  <2>1. PICK s \in Runs : StartRun(s) \/ SuspendRun(s) \/ CompleteRun(s) \/ FailRun(s)
    BY <1>3 DEF RunStep
  <2>2. \E status \in {"running", "waiting", "completed", "failed"} :
            run' = [run EXCEPT ![s].status = status]
    BY <2>1 DEF StartRun, SuspendRun, CompleteRun, FailRun, MoveRun
  <2> QED
    BY <2>2
<1>4. CASE UNCHANGED threadVars
  BY <1>4 DEF threadVars
<1>5. UNCHANGED vars => UNCHANGED threadVars
  BY DEF vars
<1> QED
  BY <1>1, <1>2, <1>3, <1>4, <1>5, NextThreads

(* Runs made under a key were given out, and a request at its command has    *)
(* its row in progress, even if the key has forgotten a run.                 *)
KeyInv ==
    /\ \A k \in Keys : \A r \in made[k] : run[r].status # "unused"
    /\ \A q \in Requests : req[q].pc = "begun" => InProgress(KeyOf[q])

LEMMA KeyInvSafe == ASSUME IInv, KeyInv, [Next]_vars PROVE KeyInv'
<1>1. ASSUME NEW k \in Keys, NEW r \in made'[k] PROVE run'[r].status # "unused"
  <2>1. made \in [Keys -> SUBSET Runs] /\ ThreadTypeOK
    BY DEF IInv, RequestTypeOK, ThreadInv
  <2>2. CASE r \in made[k]
    BY <2>1, <2>2, UsedForGood DEF KeyInv
  <2>3. CASE r \notin made[k]
    <3>1. PICK q \in Requests : Commit(q)
      BY <1>1, <2>3 DEF Next, vars, RequestStep, Arrive, Refuse, RecordProgress, Answer, GiveUp,
         TakeOver, LeaveRecovery, BeginRequest, Replay, RecoverInProgress, Expire, Crash, Other
    <3>2. PICK s \in Runs :
             /\ \/ \E t \in Threads : BootstrapSession(t, s)
                \/ StartThreadInteraction(First, s)
             /\ made' = [made EXCEPT ![KeyOf[q]] = @ \cup {s}]
      BY <3>1 DEF Commit
    <3>3. r = s
      BY <1>1, <2>1, <2>3, <3>2
    <3>4. run'[s].status = "pending"
      BY <2>1, <3>2 DEF BootstrapSession, StartThreadInteraction, ThreadTypeOK
    <3> QED
      BY <3>3, <3>4
  <2> QED
    BY <2>2, <2>3
<1>2. ASSUME NEW p \in Requests, req'[p].pc = "begun" PROVE InProgress(KeyOf[p])'
  <2>1. /\ row \in [Keys -> RowType] /\ req \in [Requests -> RequestType]
        /\ KeyOf[p] \in Keys
    BY RequestAssumption DEF IInv, RequestTypeOK
  <2>2. ASSUME NEW q \in Requests, Turn(q), RequestStep(q) \/ Arrive(q)
        PROVE  InProgress(KeyOf[p])'
    <3>1. CASE p = q
      <4>1. Begin(q)
        BY <1>2, <2>1, <2>2, <3>1
           DEF RequestStep, Arrive, Commit, Refuse, RecordProgress, Answer, GiveUp, TakeOver,
               LeaveRecovery, BeginRequest, Replay, RecoverInProgress, Idle, RequestType
      <4> QED
        BY <2>1, <3>1, <4>1 DEF Begin, InProgress
    <3>2. CASE p # q
      <4>1. req'[p] = req[p]
        BY <2>2, <3>2, StepFrame DEF IInv
      <4> QED
        BY <1>2, <2>2, <3>2, <4>1 DEF Turn, Occupies
    <3> QED
      BY <3>1, <3>2
  <2>3. CASE \E k \in Keys : Expire(k)
    <3>1. req' = req /\ row'[KeyOf[p]].status = row[KeyOf[p]].status
      BY <2>1, <2>3 DEF Expire, RowType
    <3> QED
      BY <1>2, <3>1 DEF KeyInv, InProgress
  <2>4. CASE Crash
    BY <1>2, <2>4 DEF Crash, Idle
  <2>5. CASE Other \/ UNCHANGED vars
    BY <1>2, <2>5 DEF Other, vars, KeyInv, InProgress
  <2> QED
    BY <2>2, <2>3, <2>4, <2>5 DEF Next
<1> QED
  BY <1>1, <1>2 DEF KeyInv

-----------------------------------------------------------------------------
(* What each step is to the promise.                                         *)

(* A command makes a run for a key that has none it remembers. *)
LEMMA CommitMakes ==
    ASSUME IInv, KeyInv, NEW q \in Requests, Commit(q)
    PROVE  Promise!Make(KeyOf[q])
<1> DEFINE k == KeyOf[q]
<1>1. /\ k \in Keys /\ row[k] \in RowType /\ req[q].pc = "begun"
      /\ answered' = answered /\ lapsed' = lapsed
  BY RequestAssumption DEF IInv, RequestTypeOK, Commit
<1>2. answered[k] = {}
  <2>1. row[k].status = "in_progress"
    BY <1>1 DEF KeyInv, InProgress
  <2> QED
    BY <1>1, <2>1 DEF IInv, Keeping, AnswerKept
<1>3. made[k] = {} \/ lapsed[k]
  BY <1>1, Alone
<1>4. PICK r \in Runs : /\ run[r].status = "unused"
                       /\ made' = [made EXCEPT ![k] = @ \cup {r}]
  BY DEF Commit, BootstrapSession, StartThreadInteraction, NextRun
<1>5. \A l \in Keys : r \notin made[l]
  BY <1>4 DEF KeyInv
<1> QED
  BY <1>1, <1>2, <1>3, <1>4, <1>5 DEF Promise!Make

(* An answer is the first, or the one that was given before. *)
LEMMA GivesAnswer ==
    ASSUME IInv, NEW k \in Keys, NEW r \in Runs,
           answered' = [answered EXCEPT ![k] = @ \cup {r}],
           made' = made, lapsed' = lapsed, r \in made[k],
           answered[k] \subseteq {r}
    PROVE  Promise!Answer(k) \/ UNCHANGED Promise!promise
<1>1. answered \in [Keys -> SUBSET Runs]
  BY DEF IInv, RequestTypeOK
<1>2. CASE answered[k] = {}
  <2>1. answered' = [answered EXCEPT ![k] = {r}]
    BY <1>1, <1>2
  <2> QED
    BY <1>2, <2>1 DEF Promise!Answer
<1>3. CASE answered[k] = {r}
  <2>1. answered[k] \cup {r} = answered[k]
    BY <1>3
  <2>2. answered' = answered
    BY <1>1, <2>1
  <2> QED
    BY <2>2 DEF Promise!promise
<1> QED
  BY <1>2, <1>3

(* The run of a completed row was made under its key and is its answer. *)
LEMMA CompletedRow ==
    ASSUME IInv, NEW k \in Keys, row[k].status = "completed"
    PROVE  /\ row[k].run \in Runs /\ row[k].run \in made[k]
           /\ answered[k] \subseteq {row[k].run}
  BY DEF IInv, RequestTypeOK, Keeping, AnswerKept

LEMMA AnswerAnswers ==
    ASSUME IInv, NEW q \in Requests, Answer(q) \/ Replay(q) \/ LeaveRecovery(q)
    PROVE  Promise!Answer(KeyOf[q]) \/ UNCHANGED Promise!promise
<1> DEFINE k == KeyOf[q]
<1>1. k \in Keys /\ Row(q) = row[k] /\ made' = made /\ lapsed' = lapsed
  BY RequestAssumption DEF Row, Answer, Replay, LeaveRecovery
<1>2. \/ answered' = answered
      \/ /\ row[k].status = "completed"
         /\ answered' = [answered EXCEPT ![k] = @ \cup {row[k].run}]
      \/ /\ row[k].status = "in_progress" /\ HasRun(q)
         /\ answered' = [answered EXCEPT ![k] = @ \cup {req[q].run}]
  BY <1>1 DEF Answer, Replay, LeaveRecovery, CompleteOrReplay, Holds, InProgress, HasRun
<1> HIDE DEF k
<1>3. CASE answered' = answered
  BY <1>1, <1>3 DEF Promise!promise
<1>4. CASE /\ row[k].status = "completed"
           /\ answered' = [answered EXCEPT ![k] = @ \cup {row[k].run}]
  <2>1. /\ row[k].run \in Runs /\ row[k].run \in made[k]
        /\ answered[k] \subseteq {row[k].run}
    BY <1>1, <1>4, CompletedRow
  <2>2. Promise!Answer(k) \/ UNCHANGED Promise!promise
    BY <1>1, <1>4, <2>1, GivesAnswer
  <2> QED
    BY <2>2 DEF k
<1>5. CASE /\ row[k].status = "in_progress" /\ HasRun(q)
           /\ answered' = [answered EXCEPT ![k] = @ \cup {req[q].run}]
  <2>1. req[q].run \in made[k] /\ answered[k] \subseteq {req[q].run}
    BY <1>1, <1>5 DEF IInv, Keeping, AnswerKept, k
  <2>2. req[q].run \in Runs
    BY <1>1, <2>1 DEF IInv, RequestTypeOK
  <2>3. Promise!Answer(k) \/ UNCHANGED Promise!promise
    BY <1>1, <1>5, <2>1, <2>2, GivesAnswer
  <2> QED
    BY <2>3 DEF k
<1> QED
  BY <1>2, <1>3, <1>4, <1>5

(* A key forgets only a run that it made. *)
LEMMA Forgets ==
    ASSUME IInv, NEW K \in SUBSET Keys, \A k \in K : made[k] # {},
           lapsed' = [k \in Keys |-> lapsed[k] \/ k \in K],
           made' = made, answered' = answered
    PROVE  Promise!Lapse
<1>1. K \in SUBSET {k \in Keys : made[k] # {}}
  OBVIOUS
<1> QED
  BY <1>1 DEF Promise!Lapse

LEMMA GiveUpForgets ==
    ASSUME IInv, NEW q \in Requests, GiveUp(q)
    PROVE  Promise!Lapse
<1> DEFINE k == KeyOf[q]
<1>1. /\ k \in Keys /\ lapsed \in [Keys -> BOOLEAN]
      /\ lapsed' = [lapsed EXCEPT ![k] = TRUE]
      /\ made' = made /\ answered' = answered /\ HasRun(q)
  BY RequestAssumption DEF IInv, RequestTypeOK, GiveUp, HasRun
<1>2. made[k] # {}
  BY <1>1 DEF IInv, Keeping
<1>3. lapsed' = [l \in Keys |-> lapsed[l] \/ l \in {k}]
  <2>1. \A l \in Keys : lapsed'[l] = (lapsed[l] \/ l \in {k})
    BY <1>1
  <2> QED
    BY <1>1, <2>1
<1> HIDE DEF k
<1>4. {k} \in SUBSET Keys /\ \A l \in {k} : made[l] # {}
  BY <1>1, <1>2
<1> QED
  BY <1>1, <1>3, <1>4, Forgets

LEMMA ExpireForgets ==
    ASSUME IInv, NEW k \in Keys, Expire(k)
    PROVE  Promise!Lapse
<1> DEFINE K == IF Bootstrap(k) /\ row[k].run # None THEN {k} ELSE {}
<1>1. /\ lapsed \in [Keys -> BOOLEAN]
      /\ lapsed' = [lapsed EXCEPT ![k] = @ \/ (Bootstrap(k) /\ row[k].run # None)]
      /\ made' = made /\ answered' = answered
  BY DEF IInv, RequestTypeOK, Expire
<1>2. K \in SUBSET Keys /\ \A l \in K : made[l] # {}
  BY DEF IInv, Keeping, AnswerKept
<1>3. lapsed' = [l \in Keys |-> lapsed[l] \/ l \in K]
  <2>1. (Bootstrap(k) /\ row[k].run # None) <=> k \in K
    OBVIOUS
  <2>2. \A l \in Keys \ {k} : l \notin K
    OBVIOUS
  <2> HIDE DEF K
  <2>3. \A l \in Keys : lapsed'[l] = (lapsed[l] \/ l \in K)
    BY <1>1, <2>1, <2>2
  <2> QED
    BY <1>1, <2>3
<1> HIDE DEF K
<1> QED
  BY <1>1, <1>2, <1>3, Forgets

LEMMA CrashForgets == ASSUME IInv, Crash PROVE Promise!Lapse
<1> DEFINE K == {k \in Keys : \E q \in Requests : KeyOf[q] = k /\ req[q].pc = "committed"}
<1>1. /\ lapsed' = [k \in Keys |->
                     lapsed[k] \/ \E q \in Requests : KeyOf[q] = k /\ req[q].pc = "committed"]
      /\ made' = made /\ answered' = answered
  BY DEF Crash
<1>2. K \in SUBSET Keys /\ \A k \in K : made[k] # {}
  BY DEF IInv, Keeping, HasRun
<1>3. lapsed' = [k \in Keys |-> lapsed[k] \/ k \in K]
  BY <1>1
<1> HIDE DEF K
<1> QED
  BY <1>1, <1>2, <1>3, Forgets

LEMMA PromiseStep ==
    ASSUME IInv, KeyInv, [Next]_vars
    PROVE  [Promise!Next]_Promise!promise
<1>1. ASSUME NEW q \in Requests, RequestStep(q) \/ Arrive(q)
      PROVE  [Promise!Next]_Promise!promise
  <2>1. KeyOf[q] \in Keys
    BY RequestAssumption
  <2>2. CASE Commit(q)
    BY <2>1, <2>2, CommitMakes DEF Promise!Next
  <2>3. CASE Answer(q) \/ Replay(q) \/ LeaveRecovery(q)
    BY <2>1, <2>3, AnswerAnswers DEF Promise!Next
  <2>4. CASE GiveUp(q)
    BY <2>4, GiveUpForgets DEF Promise!Next
  <2>5. CASE \/ Refuse(q) \/ RecordProgress(q) \/ TakeOver(q)
             \/ BeginRequest(q) \/ RecoverInProgress(q)
    BY <2>5 DEF Refuse, RecordProgress, TakeOver, BeginRequest, RecoverInProgress, Promise!promise
  <2> QED
    BY <1>1, <2>2, <2>3, <2>4, <2>5 DEF RequestStep, Arrive
<1>2. CASE \E k \in Keys : Expire(k)
  BY <1>2, ExpireForgets DEF Promise!Next
<1>3. CASE Crash
  BY <1>3, CrashForgets DEF Promise!Next
<1>4. CASE Other \/ UNCHANGED vars
  BY <1>4 DEF Other, vars, Promise!promise
<1> QED
  BY <1>1, <1>2, <1>3, <1>4 DEF Next

(* Requests that repeat, take over, give up, are lost in a crash or outlast  *)
(* their rows (http/idempotency.ts) make and answer runs only as KeyedRuns   *)
(* allows: no run after an answer, no second run a key could have known of,  *)
(* no run under two keys.                                                    *)
THEOREM KeysAreKept == Spec => ImplementsKeys
<1>1. Init => Promise!Init
  BY DEF Init, Promise!Init
<1>2. Init => KeyInv
  BY RequestAssumption DEF Init, KeyInv, Idle
<1>3. IInv /\ KeyInv /\ [Next]_vars => KeyInv'
  BY KeyInvSafe
<1>4. IInv /\ KeyInv /\ [Next]_vars => [Promise!Next]_Promise!promise
  BY PromiseStep
<1> QED
  BY <1>1, <1>2, <1>3, <1>4, Inductive, PTL DEF Spec, ImplementsKeys, Promise!Spec

=============================================================================
