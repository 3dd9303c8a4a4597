--------------------------- MODULE RunWaitsProofs ---------------------------
(***************************************************************************)
(* Proofs about RunWaits, for every set of runs and calls and every bound: *)
(* type correctness, that a cancellation leaves no child of a cancelled    *)
(* run behind, and that a call is answered once.                           *)
(***************************************************************************)
EXTENDS RunWaits, TLAPS

CallType == [run : Run \cup {Nobody}, kind : Kinds, target : Child \cup {Nobody},
             open : BOOLEAN, wait : Wait]
ExecType == [pc : {"none", "turn", "tools"}, calls : SUBSET Call]

----------------------------------------------------------------------------
(* What the writing operators do to the types *)

LEMMA CloseTyped ==
    ASSUME NEW cs, NEW how \in Wait, call \in [Call -> CallType], Close(cs, how)
    PROVE  call' \in [Call -> CallType]
  BY DEF Close, Shut, CallType

LEMMA CloseCallsOfTyped ==
    ASSUME NEW rs, call \in [Call -> CallType], CloseCallsOf(rs)
    PROVE  call' \in [Call -> CallType]
<1>1. "cancelled" \in Wait
  BY DEF Wait
<1> QED
  BY <1>1 DEF CloseCallsOf, Shut, CallType

LEMMA OutcomesTyped ==
    ASSUME NEW r, call \in [Call -> CallType], RecordOutcomes(r)
    PROVE  call' \in [Call -> CallType]
<1>1. "pending" \in Wait
  BY DEF Wait
<1> QED
  BY <1>1 DEF RecordOutcomes, CallType

LEMMA RequestsTyped ==
    ASSUME WaitsAssumption, NEW r, NEW q \in Requests(r)
    PROVE  /\ q.kind \in Kinds
           /\ q.target \in Child \cup {Nobody}
           /\ \A c \in q.answers : c \in Call /\ call[c].wait = "pending"
           /\ q.kind = "delegate" => q.target \in Child /\ status[q.target] = "none"
<1>1. CASE \E k \in Kind \ AgentKinds : q = Ask(k, Nobody, {})
  BY <1>1 DEF Ask, AgentKinds, WaitsAssumption
<1>2. CASE \E x \in {y \in Child : "delegate" \in Kind /\ status[y] = "none"} :
              q = Ask("delegate", x, {})
  BY <1>2 DEF Ask, Kinds
<1>3. CASE \E c \in {d \in Resumable(r) : "resume" \in Kind} :
              q = Ask("resume", call[c].run, {c} \cap PendingOf(call[c].run))
  <2>1. PICK c \in Resumable(r) :
              q = Ask("resume", call[c].run, {c} \cap PendingOf(call[c].run))
    BY <1>3
  <2>2. call[c].run \in Child
    BY DEF Resumable, ChildrenOf
  <2>3. \A d \in {c} \cap PendingOf(call[c].run) : d \in Call /\ call[d].wait = "pending"
    BY DEF PendingOf, CallsOf
  <2> QED
    BY <2>1, <2>2, <2>3 DEF Ask, Kinds
<1> QED
  BY <1>1, <1>2, <1>3 DEF Requests

LEMMA CreateTyped ==
    ASSUME NEW r \in Run, NEW xs \in SUBSET Child, Create(xs, r),
           status \in [Run -> Status], parent \in [Child -> Run \cup {Nobody}]
    PROVE  /\ status' \in [Run -> Status]
           /\ parent' \in [Child -> Run \cup {Nobody}]
  BY DEF Create, Status

\* A call of the turn asks for the new child.
AskedFor(x, r) ==
    \E c \in exec'[r].calls : call'[c].target = x /\ call'[c].kind = "delegate"

LEMMA NewCallOf ==
    ASSUME NEW r, NEW q
    PROVE  NewCall(r, q).kind = q.kind /\ NewCall(r, q).target = q.target
  BY DEF NewCall

\* The new calls, the answered waits of the children and the created children.
LEMMA CallToolsShape ==
    ASSUME WaitsAssumption, TypeOK, NEW r \in Run, CallTools(r)
    PROVE  /\ At(r, "turn")
           /\ call' \in [Call -> CallType]
           /\ \E xs \in SUBSET Child :
                 /\ Create(xs, r)
                 /\ \A x \in xs : status[x] = "none" /\ AskedFor(x, r)
           /\ \E cs \in SUBSET Call :
                 /\ exec' = [exec EXCEPT ![r] = [pc |-> "tools", calls |-> cs]]
                 /\ \A c \in cs : /\ call[c] = NoCall
                                  /\ call'[c].run = r /\ call'[c].open
                                  /\ call'[c].wait = "none"
                 /\ \A c \in Call \ cs :
                       \/ call'[c] = call[c]
                       \/ call[c].wait = "pending" /\ call'[c] = Shut(call[c], "resolved")
           /\ sandbox' \subseteq Call
           /\ UNCHANGED <<requeued, approving, budget>>
<1>1. PICK cs \in SUBSET Unused :
         /\ \E req \in [cs -> Requests(r)] :
               /\ call' = [c \in Call |->
                      IF c \in cs THEN NewCall(r, req[c])
                      ELSE IF c \in UNION {req[d].answers : d \in cs}
                             THEN Shut(call[c], "resolved")
                             ELSE call[c]]
               /\ Create({req[c].target : c \in {d \in cs : req[d].kind = "delegate"}}, r)
               /\ sandbox' = sandbox \cup {c \in cs : req[c].kind = "external"}
         /\ exec' = [exec EXCEPT ![r] = [pc |-> "tools", calls |-> cs]]
  BY Zenon DEF CallTools
<1>2. PICK req \in [cs -> Requests(r)] :
         /\ call' = [c \in Call |->
                      IF c \in cs THEN NewCall(r, req[c])
                      ELSE IF c \in UNION {req[d].answers : d \in cs}
                             THEN Shut(call[c], "resolved")
                             ELSE call[c]]
         /\ Create({req[c].target : c \in {d \in cs : req[d].kind = "delegate"}}, r)
         /\ sandbox' = sandbox \cup {c \in cs : req[c].kind = "external"}
  BY <1>1
<1> DEFINE answered == UNION {req[d].answers : d \in cs}
           created == {req[c].target : c \in {d \in cs : req[d].kind = "delegate"}}
<1>3. \A c \in cs : c \in Call /\ call[c] = NoCall /\ req[c] \in Requests(r)
  BY DEF Unused
<1>4. \A c \in cs : /\ req[c].kind \in Kinds
                    /\ req[c].target \in Child \cup {Nobody}
                    /\ \A d \in req[c].answers : d \in Call /\ call[d].wait = "pending"
                    /\ req[c].kind = "delegate" =>
                          req[c].target \in Child /\ status[req[c].target] = "none"
  BY <1>3, RequestsTyped
<1>5. \A d \in answered : d \in Call /\ call[d].wait = "pending"
  BY <1>4
<1>6. created \in SUBSET Child /\ \A x \in created : status[x] = "none"
  BY <1>4
<1>7. call' = [c \in Call |-> IF c \in cs THEN NewCall(r, req[c])
                              ELSE IF c \in answered THEN Shut(call[c], "resolved")
                                   ELSE call[c]]
  BY <1>2
<1>8. Create(created, r)
  BY <1>2
<1> HIDE DEF answered, created
<1>9. \A c \in cs : NewCall(r, req[c]) \in CallType
  <2>1. "none" \in Wait
    BY DEF Wait
  <2> QED
    BY <1>4, <2>1 DEF NewCall, CallType
<1>10. \A c \in Call : call[c] \in CallType /\ Shut(call[c], "resolved") \in CallType
  <2>1. "resolved" \in Wait
    BY DEF Wait
  <2>2. call \in [Call -> CallType]
    BY DEF TypeOK, CallType
  <2> QED
    BY <2>1, <2>2 DEF CallType, Shut
<1>11. call' \in [Call -> CallType]
  BY <1>7, <1>9, <1>10
<1>12. \A c \in cs : call'[c].run = r /\ call'[c].open /\ call'[c].wait = "none"
  BY <1>3, <1>7 DEF NewCall
<1>13. \A c \in Call \ cs :
          \/ call'[c] = call[c]
          \/ call[c].wait = "pending" /\ call'[c] = Shut(call[c], "resolved")
  BY <1>5, <1>7
<1>14. At(r, "turn") /\ UNCHANGED <<requeued, approving, budget>> /\ cs \in SUBSET Call
  BY <1>3 DEF CallTools
<1>15. sandbox' \subseteq Call
  BY <1>2, <1>14 DEF TypeOK
<1>16. \A x \in created : AskedFor(x, r)
  <2>1. exec'[r].calls = cs
    BY <1>1 DEF TypeOK
  <2>2. \A c \in cs : call'[c] = NewCall(r, req[c])
    BY <1>3, <1>7
  <2>3. \A x \in created : \E c \in cs : req[c].kind = "delegate" /\ req[c].target = x
    BY DEF created
  <2>4. \A c \in cs : call'[c].kind = req[c].kind /\ call'[c].target = req[c].target
    BY <2>2, NewCallOf
  <2> QED
    BY <2>1, <2>3, <2>4 DEF AskedFor
<1> QED
  BY ZenonT(60), <1>15, <1>16, <1>1, <1>3, <1>6, <1>8, <1>11, <1>12, <1>13, <1>14

----------------------------------------------------------------------------
(* The steps, by what they do to the calls and to the runs *)

\* The types of the parts, so that a step need not open TypeOK.
LEMMA Parts ==
    TypeOK <=> /\ status \in [Run -> Status]
               /\ requeued \subseteq {r \in Run : status[r] = "waiting"}
               /\ parent \in [Child -> Run \cup {Nobody}]
               /\ exec \in [Run -> ExecType]
               /\ call \in [Call -> CallType]
               /\ approving \subseteq Call /\ sandbox \subseteq Call
               /\ budget \in [loss : 0..MaxLosses, cancel : 0..MaxCancels]
  BY DEF TypeOK, ExecType, CallType

LEMMA PartsNext ==
    TypeOK' <=> /\ status' \in [Run -> Status]
                /\ requeued' \subseteq {r \in Run : status'[r] = "waiting"}
                /\ parent' \in [Child -> Run \cup {Nobody}]
                /\ exec' \in [Run -> ExecType]
                /\ call' \in [Call -> CallType]
                /\ approving' \subseteq Call /\ sandbox' \subseteq Call
                /\ budget' \in [loss : 0..MaxLosses, cancel : 0..MaxCancels]
  BY DEF TypeOK, ExecType, CallType

LEMMA ExecSteps ==
    ASSUME exec \in [Run -> ExecType], NEW r \in Run
    PROVE  /\ Stop(r) => exec' \in [Run -> ExecType]
           /\ Go(r) => exec' \in [Run -> ExecType]
           /\ \A cs \in SUBSET Call :
                 exec' = [exec EXCEPT ![r] = [pc |-> "tools", calls |-> cs]]
                    => exec' \in [Run -> ExecType]
           /\ exec' = [s \in Run |-> NoExec] => exec' \in [Run -> ExecType]
  BY DEF Stop, Go, ExecType, NoExec

LEMMA Budgets ==
    ASSUME WaitsAssumption, budget \in [loss : 0..MaxLosses, cancel : 0..MaxCancels]
    PROVE  /\ Lose => budget' \in [loss : 0..MaxLosses, cancel : 0..MaxCancels]
           /\ budget.cancel > 0 /\ budget' = [budget EXCEPT !.cancel = @ - 1]
                => budget' \in [loss : 0..MaxLosses, cancel : 0..MaxCancels]
  BY DEF Lose, WaitsAssumption

----------------------------------------------------------------------------
LEMMA TypeInit ==
    ASSUME WaitsAssumption, Init
    PROVE  TypeOK
<1>1. NoCall \in CallType
  BY DEF NoCall, CallType, Kinds, Wait
<1>2. NoExec \in ExecType
  BY DEF NoExec, ExecType
<1>3. status \in [Run -> Status] /\ parent \in [Child -> Run \cup {Nobody}]
  BY DEF Init, Run, Status
<1>4. budget \in [loss : 0..MaxLosses, cancel : 0..MaxCancels]
  BY DEF Init, WaitsAssumption
<1> QED
  BY <1>1, <1>2, <1>3, <1>4, Parts DEF Init

LEMMA TypeTurn ==
    ASSUME WaitsAssumption, TypeOK, NEW r \in Run, Turn(r)
    PROVE  TypeOK'
<1> USE Parts
<1>1. CASE CallTools(r)
  <2>1. PICK xs \in SUBSET Child : Create(xs, r) /\ \A x \in xs : status[x] = "none"
    BY <1>1, CallToolsShape
  <2>2. status' \in [Run -> Status] /\ parent' \in [Child -> Run \cup {Nobody}]
    BY <2>1, CreateTyped
  <2>3. requeued' \subseteq {s \in Run : status'[s] = "waiting"}
    <3>1. requeued' = requeued
      BY <1>1 DEF CallTools
    <3>2. \A s \in Run : status[s] = "waiting" => status'[s] = "waiting"
      BY <2>1 DEF Create
    <3> QED
      BY <3>1, <3>2
  <2>4. exec' \in [Run -> ExecType] /\ call' \in [Call -> CallType]
        /\ sandbox' \subseteq Call /\ UNCHANGED <<approving, budget>>
    BY <1>1, CallToolsShape, ExecSteps
  <2> QED
    BY <2>2, <2>3, <2>4, PartsNext
<1>2. CASE ToolsAnswer(r)
  BY <1>2, OutcomesTyped, ExecSteps, PartsNext DEF ToolsAnswer
<1>3. CASE ToolsWait(r)
  BY <1>3, OutcomesTyped, ExecSteps, PartsNext DEF ToolsWait, At, Status
<1>4. CASE EndRun(r)
  BY <1>4, ExecSteps, PartsNext DEF EndRun, At, Status, Terminal
<1>5. CASE WindDown(r)
  <2>1. call' \in [Call -> CallType] /\ status' \in [Run -> Status]
    BY <1>5, CloseCallsOfTyped DEF WindDown, Status, Terminal
  <2>2. requeued' \subseteq {s \in Run : status'[s] = "waiting"}
    BY <1>5 DEF WindDown
  <2> QED
    BY <1>5, <2>1, <2>2, ExecSteps, PartsNext DEF WindDown
<1> QED
  BY <1>1, <1>2, <1>3, <1>4, <1>5 DEF Turn

LEMMA TypeScheduler ==
    ASSUME WaitsAssumption, TypeOK, NEW r \in Run, Scheduler(r)
    PROVE  TypeOK'
<1> USE Parts
<1>1. CASE Start(r)
  BY <1>1, ExecSteps, PartsNext DEF Start, Status
<1>2. CASE Requeue(r)
  BY <1>2, PartsNext DEF Requeue
<1>3. CASE Resume(r)
  BY <1>3, ExecSteps, PartsNext DEF Resume, Status
<1>4. CASE Recover(r)
  BY <1>4, PartsNext DEF Recover, Status, Terminal
<1> QED
  BY <1>1, <1>2, <1>3, <1>4 DEF Scheduler

\* Only the calls and the confirmations in flight change.
LEMMA TypeWaits ==
    ASSUME WaitsAssumption, TypeOK,
           \/ \E x \in Child : DeliverChild(x)
           \/ \E c \in Call : Runtime(c) \/ Environment(c)
    PROVE  TypeOK'
<1> USE Parts
<1>1. "resolved" \in Wait /\ "timed_out" \in Wait
  BY DEF Wait
<1>2. CASE \E x \in Child : DeliverChild(x)
  BY <1>1, <1>2, CloseTyped, PartsNext DEF DeliverChild
<1>3. ASSUME NEW c \in Call, Runtime(c) PROVE TypeOK'
  BY <1>1, <1>3, CloseTyped, PartsNext DEF Runtime, TimeOut, SandboxEnds, ApprovedToolEnds,
     ApprovedAnswer
<1>4. ASSUME NEW c \in Call, Environment(c) PROVE TypeOK'
  BY <1>1, <1>4, CloseTyped, PartsNext DEF Environment, Answer, Approve
<1> QED
  BY <1>2, <1>3, <1>4

LEMMA TypeCancel ==
    ASSUME WaitsAssumption, TypeOK, NEW r \in Run, CancelRun(r)
    PROVE  TypeOK'
<1> USE Parts
<1>1. status' \in [Run -> Status]
  BY DEF CancelRun, AskedToStop, Status, Terminal
<1>2. requeued' \subseteq {s \in Run : status'[s] = "waiting"}
  BY DEF CancelRun, DropQueued, AskedToStop
<1>3. call' \in [Call -> CallType]
  BY CloseCallsOfTyped DEF CancelRun
<1>4. budget' \in [loss : 0..MaxLosses, cancel : 0..MaxCancels]
  BY Budgets DEF CancelRun
<1>5. UNCHANGED <<parent, exec, approving, sandbox>>
  BY DEF CancelRun
<1> QED
  BY <1>1, <1>2, <1>3, <1>4, <1>5, PartsNext

LEMMA TypeLosses ==
    ASSUME WaitsAssumption, TypeOK,
           Crash \/ \E r \in Run : CrashBeforeWaiting(r) \/ LeaveRunning(r)
    PROVE  TypeOK'
<1> USE Parts
<1>1. budget' \in [loss : 0..MaxLosses, cancel : 0..MaxCancels]
  BY Budgets DEF Crash, CrashBeforeWaiting, LeaveRunning
<1>2. LoseProcess => /\ exec' \in [Run -> ExecType]
                     /\ approving' \subseteq Call /\ sandbox' \subseteq Call
  BY DEF LoseProcess, NoExec, ExecType
<1>3. CASE Crash
  BY <1>1, <1>2, <1>3, PartsNext DEF Crash
<1>4. ASSUME NEW r \in Run, CrashBeforeWaiting(r) PROVE TypeOK'
  BY <1>1, <1>2, <1>4, OutcomesTyped, PartsNext DEF CrashBeforeWaiting
<1>5. ASSUME NEW r \in Run, LeaveRunning(r) PROVE TypeOK'
  BY <1>1, <1>5, ExecSteps, PartsNext DEF LeaveRunning
<1> QED
  BY <1>3, <1>4, <1>5

LEMMA TypeStep ==
    ASSUME WaitsAssumption, TypeOK, [Next]_vars
    PROVE  TypeOK'
<1>1. CASE UNCHANGED vars
  BY <1>1, Parts, PartsNext DEF vars
<1>2. CASE Next
  BY <1>2, TypeTurn, TypeScheduler, TypeWaits, TypeCancel, TypeLosses DEF Next
<1> QED
  BY <1>1, <1>2

\* Every run, job, wait and tool execution keeps its type, and only a waiting
\* run has its job queued again.
THEOREM WaitsTypeCorrect == Spec => []TypeOK
  BY TypeInit, TypeStep, WaitsAssumption, PTL DEF Spec

----------------------------------------------------------------------------
(* Cancellation *)

\* The least set is closed, so it holds every live child of a run in it.
LEMMA CancelledClosed ==
    ASSUME TypeOK, NEW r \in Run
    PROVE  r \in Cancelled(r) /\ Closed(Cancelled(r))
<1>1. r \in Cancelled(r)
  BY DEF Cancelled
<1>2. ASSUME NEW x \in Child, Live(x), parent[x] \in Cancelled(r)
      PROVE  x \in Cancelled(r)
  <2>1. x \in Run
    BY DEF Run
  <2>2. ASSUME NEW rs \in SUBSET Run, r \in rs, Closed(rs) PROVE x \in rs
    <3>1. parent[x] \in rs
      BY <1>2, <2>2 DEF Cancelled
    <3> QED
      BY <1>2, <2>2, <3>1 DEF Closed
  <2> QED
    BY <2>1, <2>2 DEF Cancelled
<1> QED
  BY <1>1, <1>2 DEF Closed

Ended(r) == status[r] \in {"cancelling", "cancelled"}
Over(x) == Live(x) => status[x] = "cancelling"

\* A step that moves one run, whose own parent is not cancelled or which is over
\* already, to a status that is not a cancellation or was one.
LEMMA CascadesOneRun ==
    ASSUME TypeOK, CancelCascades, NEW r \in Run, NEW to,
           status' = [status EXCEPT ![r] = to], UNCHANGED parent,
           to \in {"cancelling", "cancelled"} => Ended(r),
           Over(r) => to \in Terminal \cup {"none", "cancelling"}
    PROVE  CancelCascades'
<1> SUFFICES ASSUME NEW x \in Child, parent[x] # Nobody,
                    status'[parent[x]] \in {"cancelling", "cancelled"}
             PROVE  status'[x] \in Terminal \cup {"none", "cancelling"}
  BY DEF CancelCascades, Live
<1>1. x \in Run /\ parent[x] \in Run /\ status \in [Run -> Status]
  BY DEF TypeOK, Run
<1>2. Ended(parent[x])
  BY <1>1 DEF Ended
<1>3. Over(x)
  BY <1>2 DEF CancelCascades, Over, Ended
<1> QED
  BY <1>1, <1>3 DEF Over, Live

LEMMA CascadesStep ==
    ASSUME WaitsAssumption, TypeOK, CancelCascades, [Next]_vars
    PROVE  CancelCascades'
<1> USE DEF At
<1>1. ASSUME NEW r \in Run, CallTools(r) PROVE CancelCascades'
  <2>1. PICK xs \in SUBSET Child : Create(xs, r) /\ \A x \in xs : status[x] = "none"
    BY <1>1, CallToolsShape
  <2>2. status[r] = "running"
    BY <1>1, CallToolsShape
  <2> SUFFICES ASSUME NEW x \in Child, parent'[x] # Nobody,
                      status'[parent'[x]] \in {"cancelling", "cancelled"}
               PROVE  status'[x] \in Terminal \cup {"none", "cancelling"}
    BY DEF CancelCascades, Live
  <2>3. x \in Run /\ parent[x] \in Run \cup {Nobody}
    BY DEF TypeOK, Run
  <2>4. CASE x \in xs
    BY <2>1, <2>2, <2>4 DEF Create
  <2>5. CASE x \notin xs
    <3>1. parent[x] # Nobody /\ status[parent[x]] \in {"cancelling", "cancelled"}
      BY <2>1, <2>3, <2>5 DEF Create
    <3>2. status[x] \in Terminal \cup {"none", "cancelling"}
      BY <3>1 DEF CancelCascades, Live
    <3> QED
      BY <2>1, <2>3, <2>5, <3>2 DEF Create
  <2> QED
    BY <2>4, <2>5
<1>2. ASSUME NEW r \in Run, CancelRun(r) PROVE CancelCascades'
  <2>1. CASE Live(r) /\ status[r] # "cancelling"
    <3>1. status' = [x \in Run |-> IF x \in Cancelled(r) THEN AskedToStop(x)
                                                         ELSE status[x]]
      BY <1>2, <2>1 DEF CancelRun
    <3> SUFFICES ASSUME NEW x \in Child, parent[x] # Nobody,
                        status'[parent[x]] \in {"cancelling", "cancelled"}
                 PROVE  status'[x] \in Terminal \cup {"none", "cancelling"}
      BY <1>2 DEF CancelCascades, CancelRun, Live
    <3>2. x \in Run /\ parent[x] \in Run
      BY DEF TypeOK, Run
    <3>5. ASSUME NEW y \in Run, y \notin Cancelled(r) PROVE status'[y] = status[y]
      BY <3>1, <3>5
    <3>3. CASE x \in Cancelled(r)
      BY <3>1, <3>2, <3>3 DEF AskedToStop, Terminal
    <3>4. CASE x \notin Cancelled(r)
      <4>1. CASE parent[x] \in Cancelled(r)
        <5>1. ~Live(x)
          BY <3>4, <4>1, CancelledClosed DEF Closed
        <5> QED
          BY <3>1, <3>2, <3>4, <5>1 DEF Live
      <4>2. CASE parent[x] \notin Cancelled(r)
        <5>1. status'[x] = status[x] /\ status'[parent[x]] = status[parent[x]]
          BY <3>2, <3>4, <3>5, <4>2
        <5> QED
          BY <5>1 DEF CancelCascades, Live
      <4> QED
        BY <4>1, <4>2
    <3> QED
      BY <3>3, <3>4
  <2>2. CASE ~(Live(r) /\ status[r] # "cancelling")
    BY <1>2, <2>2, CascadesOneRun DEF CancelRun, Ended, Over, Live, Terminal
  <2> QED
    BY <2>1, <2>2
<1>3. ASSUME NEW r \in Run, Turn(r), ~CallTools(r) PROVE CancelCascades'
  <2>1. CASE ToolsAnswer(r)
    BY <2>1 DEF ToolsAnswer, CancelCascades, Live
  <2>2. CASE ToolsWait(r)
    BY <2>2, CascadesOneRun DEF ToolsWait, Over, Live, Terminal
  <2>3. CASE EndRun(r)
    BY <2>3, CascadesOneRun DEF EndRun, Over, Live, Terminal
  <2>4. CASE WindDown(r)
    <3>1. CASE status[r] = "cancelling"
      BY <2>4, <3>1, CascadesOneRun DEF WindDown, Ended, Over, Live, Terminal
    <3>2. CASE status[r] # "cancelling"
      BY <2>4, <3>2 DEF WindDown, CancelCascades, Live
    <3> QED
      BY <3>1, <3>2
  <2> QED
    BY <1>3, <2>1, <2>2, <2>3, <2>4 DEF Turn
<1>4. ASSUME NEW r \in Run, Scheduler(r) PROVE CancelCascades'
  <2>1. CASE Start(r)
    BY <2>1, CascadesOneRun DEF Start, Over, Live, Terminal
  <2>2. CASE Requeue(r)
    BY <2>2 DEF Requeue, CancelCascades, Live
  <2>3. CASE Resume(r)
    BY <2>3, CascadesOneRun DEF Resume, Over, Live, Terminal
  <2>4. CASE Recover(r)
    BY <2>4, CascadesOneRun DEF Recover, Over, Live, Terminal
  <2> QED
    BY <1>4, <2>1, <2>2, <2>3, <2>4 DEF Scheduler
<1>5. CASE UNCHANGED <<status, parent>>
  BY <1>5 DEF CancelCascades, Live
<1>6. ASSUME NEW c \in Call, Runtime(c) \/ Environment(c) PROVE UNCHANGED <<status, parent>>
  BY <1>6 DEF Runtime, TimeOut, SandboxEnds, ApprovedToolEnds, Environment, Answer, Approve
<1>7. ASSUME NEW x \in Child, DeliverChild(x) PROVE UNCHANGED <<status, parent>>
  BY <1>7 DEF DeliverChild
<1>8. CASE Crash \/ \E r \in Run : CrashBeforeWaiting(r) \/ LeaveRunning(r)
  BY <1>5, <1>8 DEF Crash, CrashBeforeWaiting, LeaveRunning
<1>9. CASE UNCHANGED vars
  BY <1>5, <1>9 DEF vars
<1> QED
  BY <1>1, <1>2, <1>3, <1>4, <1>5, <1>6, <1>7, <1>8, <1>9 DEF Next

\* "The backend cascades to joined child runs": whatever crashes and recoveries
\* happen, no run delegated by a cancelled run works or waits.
THEOREM CancellationCascades == Spec => []CancelCascades
<1>1. Init => CancelCascades
  BY DEF Init, CancelCascades
<1>2. TypeOK /\ CancelCascades /\ [Next]_vars => CancelCascades'
  BY CascadesStep, WaitsAssumption
<1> QED
  BY <1>1, <1>2, WaitsTypeCorrect, PTL DEF Spec
----------------------------------------------------------------------------
(* Answers *)

AnswersKept == \A c \in Call : call[c].run # Nobody /\ ~call[c].open => call'[c] = call[c]

\* The calls of a running execution.
InTurn(r) == status[r] = "running" =>
    \A c \in exec[r].calls : call[c].open /\ call[c].run = r /\ call[c].wait = "none"

LEMMA OpenParts ==
    /\ CallsOpen <=> /\ \A c \in Call : /\ call[c].wait = "pending" => call[c].open
                                        /\ call[c].open => call[c].run # Nobody
                     /\ \A r \in Run : InTurn(r)
    /\ CallsOpen' <=> /\ \A c \in Call : /\ call'[c].wait = "pending" => call'[c].open
                                         /\ call'[c].open => call'[c].run # Nobody
                      /\ \A r \in Run : InTurn(r)'
  BY DEF CallsOpen, InTurn

\* The calls of executions are calls.
LEMMA InTurnCalls ==
    ASSUME TypeOK, NEW r \in Run
    PROVE  exec[r].calls \subseteq Call
  BY Parts DEF ExecType

\* Closing pending waits touches neither an answer nor the calls of a turn.
LEMMA OpenClose ==
    ASSUME TypeOK, CallsOpen, NEW cs, NEW how \in Wait \ {"pending"},
           \A c \in cs : c \in Call /\ call[c].wait = "pending",
           Close(cs, how), UNCHANGED <<status, exec>>
    PROVE  CallsOpen' /\ AnswersKept
<1> USE Parts
<1>1. \A c \in Call : call'[c] = IF c \in cs THEN Shut(call[c], how) ELSE call[c]
  BY DEF Close
<1>2. \A c \in cs : call[c] \in CallType /\ call[c].open /\ call[c].wait = "pending"
  BY DEF CallsOpen
<1>3. \A c \in cs : ~call'[c].open /\ call'[c].wait # "pending"
  BY <1>1, <1>2 DEF Shut, CallType
<1>4. ASSUME NEW r \in Run PROVE InTurn(r)'
  <2>1. status[r] = "running" => \A c \in exec[r].calls : c \in Call /\ c \notin cs
    BY <1>2, InTurnCalls DEF CallsOpen
  <2> QED
    BY <1>1, <2>1, OpenParts DEF InTurn
<1>5. \A c \in Call : /\ call'[c].wait = "pending" => call'[c].open
                      /\ call'[c].open => call'[c].run # Nobody
  BY <1>1, <1>3, OpenParts
<1>6. AnswersKept
  BY <1>1, <1>2 DEF AnswersKept
<1> QED
  BY <1>4, <1>5, <1>6, OpenParts

\* The outcomes of a turn are recorded on calls that are open, and the turn is over.
LEMMA OpenOutcomes ==
    ASSUME WaitsAssumption, TypeOK, CallsOpen, NEW r \in Run, At(r, "tools"),
           RecordOutcomes(r), exec'[r].calls = {},
           \A s \in Run : s # r /\ status'[s] = "running" =>
               status[s] = "running" /\ exec'[s].calls \subseteq exec[s].calls
    PROVE  CallsOpen' /\ AnswersKept
<1> USE Parts
<1>1. \A c \in exec[r].calls :
         c \in Call /\ call[c].open /\ call[c].run = r /\ call[c].wait = "none"
  BY InTurnCalls DEF CallsOpen, At
<1>2. \A c \in Call : c \notin exec[r].calls => call'[c] = call[c]
  BY DEF RecordOutcomes
<1>3. \A c \in exec[r].calls :
         IF call[c].kind = "plain" THEN call'[c] = [call[c] EXCEPT !.open = FALSE]
                                   ELSE call'[c] = [call[c] EXCEPT !.wait = "pending"]
  BY <1>1 DEF RecordOutcomes
<1>4. r # Nobody
  BY DEF WaitsAssumption
<1>5. \A c \in exec[r].calls : /\ call'[c].wait = "pending" => call'[c].open
                               /\ call'[c].run = r
  <2> SUFFICES ASSUME NEW c \in exec[r].calls
               PROVE  (call'[c].wait = "pending" => call'[c].open) /\ call'[c].run = r
    OBVIOUS
  <2>1. call[c] \in CallType
    BY <1>1
  <2>2. CASE call[c].kind = "plain"
    <3>1. call'[c] = [call[c] EXCEPT !.open = FALSE]
      BY <1>3, <2>2
    <3>2. call'[c].wait = "none" /\ call'[c].run = r
      BY <1>1, <2>1, <3>1 DEF CallType
    <3> QED
      BY <3>2
  <2>3. CASE call[c].kind # "plain"
    <3>1. call'[c] = [call[c] EXCEPT !.wait = "pending"]
      BY <1>3, <2>3
    <3>2. call'[c].open /\ call'[c].run = r
      BY <1>1, <2>1, <3>1 DEF CallType
    <3> QED
      BY <3>2
  <2> QED
    BY <2>2, <2>3
<1>6. ASSUME NEW s \in Run PROVE InTurn(s)'
  <2>1. CASE s = r
    BY <2>1 DEF InTurn
  <2>2. CASE s # r /\ status'[s] = "running"
    <3>1. status[s] = "running" /\ exec'[s].calls \subseteq exec[s].calls
      BY <2>2
    <3>2. \A c \in exec[s].calls :
             c \in Call /\ call[c].open /\ call[c].run = s /\ call[c].wait = "none"
      BY <3>1, InTurnCalls DEF CallsOpen
    <3>3. \A c \in exec[s].calls : call'[c] = call[c]
      BY <1>1, <1>2, <2>2, <3>2
    <3> QED
      BY <3>1, <3>2, <3>3 DEF InTurn
  <2>3. CASE status'[s] # "running"
    BY <2>3 DEF InTurn
  <2> QED
    BY <2>1, <2>2, <2>3
<1>7. \A c \in Call : /\ call'[c].wait = "pending" => call'[c].open
                      /\ call'[c].open => call'[c].run # Nobody
  BY <1>2, <1>4, <1>5, OpenParts
<1>8. AnswersKept
  BY <1>1, <1>2 DEF AnswersKept
<1> QED
  BY <1>6, <1>7, <1>8, OpenParts

\* Closing what cancelled runs left open: none of them works on.
LEMMA OpenCancelled ==
    ASSUME TypeOK, CallsOpen, NEW rs, CloseCallsOf(rs),
           \A s \in Run : status'[s] = "running" =>
               /\ s \notin rs /\ status[s] = "running"
               /\ exec'[s].calls \subseteq exec[s].calls
    PROVE  CallsOpen' /\ AnswersKept
<1> USE Parts
<1> DEFINE how(c) == IF call[c].wait = "pending" THEN "cancelled" ELSE call[c].wait
<1>1. \A c \in Call : call'[c] = IF call[c].run \in rs /\ call[c].open
                                   THEN Shut(call[c], how(c)) ELSE call[c]
  BY DEF CloseCallsOf
<1>2. \A c \in Call : call[c] \in CallType /\ how(c) # "pending"
  OBVIOUS
<1> HIDE DEF how
<1>3. \A c \in Call : /\ call'[c].wait = "pending" => call'[c].open
                      /\ call'[c].open => call'[c].run # Nobody
  <2> SUFFICES ASSUME NEW c \in Call
               PROVE  /\ call'[c].wait = "pending" => call'[c].open
                      /\ call'[c].open => call'[c].run # Nobody
    OBVIOUS
  <2>1. CASE call[c].run \in rs /\ call[c].open
    BY <1>1, <1>2, <2>1 DEF Shut, CallType
  <2>2. CASE ~(call[c].run \in rs /\ call[c].open)
    BY <1>1, <2>2, OpenParts
  <2> QED
    BY <2>1, <2>2
<1>4. ASSUME NEW s \in Run, status'[s] = "running" PROVE InTurn(s)'
  <2>1. \A c \in exec[s].calls :
           c \in Call /\ call[c].open /\ call[c].run = s /\ call[c].wait = "none"
    BY <1>4, InTurnCalls DEF CallsOpen
  <2>2. \A c \in exec[s].calls : call'[c] = call[c]
    BY <1>1, <1>4, <2>1
  <2> QED
    BY <1>4, <2>1, <2>2 DEF InTurn
<1>5. AnswersKept
  BY <1>1 DEF AnswersKept
<1>6. \A s \in Run : InTurn(s)'
  BY <1>4 DEF InTurn
<1> QED
  BY <1>3, <1>5, <1>6, OpenParts

\* No call changes, and no execution has other calls than before.
LEMMA OpenUnchanged ==
    ASSUME CallsOpen, UNCHANGED call,
           \A s \in Run : status'[s] = "running" =>
               \/ exec'[s].calls = {}
               \/ status[s] = "running" /\ exec'[s].calls \subseteq exec[s].calls
    PROVE  CallsOpen' /\ AnswersKept
  BY OpenParts DEF InTurn, AnswersKept

LEMMA OpenTurn ==
    ASSUME WaitsAssumption, TypeOK, CallsOpen, NEW r \in Run, Turn(r)
    PROVE  CallsOpen' /\ AnswersKept
<1> USE Parts
<1>1. exec[r] \in ExecType /\ r # Nobody
  BY DEF WaitsAssumption
<1>2. CASE CallTools(r)
  <2>1. PICK cs \in SUBSET Call :
           /\ exec' = [exec EXCEPT ![r] = [pc |-> "tools", calls |-> cs]]
           /\ \A c \in cs : /\ call[c] = NoCall
                            /\ call'[c].run = r /\ call'[c].open /\ call'[c].wait = "none"
           /\ \A c \in Call \ cs :
                 \/ call'[c] = call[c]
                 \/ call[c].wait = "pending" /\ call'[c] = Shut(call[c], "resolved")
    BY <1>2, CallToolsShape
  <2>2. \A s \in Run : s # r /\ status'[s] = "running" => status[s] = "running"
    <3>1. PICK xs \in SUBSET Child : Create(xs, r)
      BY <1>2, CallToolsShape
    <3> QED
      BY <3>1 DEF Create
  <2>3. \A c \in Call \ cs : call[c].wait = "pending" =>
           call[c].open /\ call[c].run # Nobody /\ call[c] \in CallType
    BY OpenParts
  <2>4. \A c \in Call : /\ call'[c].wait = "pending" => call'[c].open
                        /\ call'[c].open => call'[c].run # Nobody
    <3> SUFFICES ASSUME NEW c \in Call
                 PROVE  /\ call'[c].wait = "pending" => call'[c].open
                        /\ call'[c].open => call'[c].run # Nobody
      OBVIOUS
    <3>1. CASE c \in cs
      BY <1>1, <2>1, <3>1
    <3>2. CASE c \notin cs /\ call'[c] = call[c]
      BY <3>2, OpenParts
    <3>3. CASE c \notin cs /\ call'[c] # call[c]
      <4>1. call'[c] = Shut(call[c], "resolved") /\ call[c] \in CallType
        BY <2>1, <2>3, <3>3
      <4>2. call'[c].wait = "resolved" /\ call'[c].open = FALSE
        BY <4>1 DEF Shut, CallType
      <4> QED
        BY <4>2
    <3> QED
      BY <3>1, <3>2, <3>3
  <2>5. ASSUME NEW s \in Run, status'[s] = "running" PROVE InTurn(s)'
    <3>1. CASE s = r
      BY <2>1, <3>1 DEF InTurn
    <3>2. CASE s # r
      <4>1. status[s] = "running" /\ exec'[s] = exec[s]
        BY <2>1, <2>2, <2>5, <3>2
      <4>2. \A c \in exec[s].calls :
               c \in Call /\ call[c].open /\ call[c].run = s /\ call[c].wait = "none"
        BY <4>1, InTurnCalls DEF CallsOpen
      <4>3. \A c \in exec[s].calls : c \notin cs
        BY <2>1, <4>2 DEF NoCall
      <4>4. \A c \in exec[s].calls : call'[c] = call[c]
        BY <2>1, <4>2, <4>3
      <4> QED
        BY <4>1, <4>2, <4>4 DEF InTurn
    <3> QED
      BY <3>1, <3>2
  <2>6. AnswersKept
    <3> SUFFICES ASSUME NEW c \in Call, call[c].run # Nobody, ~call[c].open
                 PROVE  call'[c] = call[c]
      BY DEF AnswersKept
    <3>1. c \notin cs
      BY <2>1 DEF NoCall
    <3> QED
      BY <2>1, <2>3, <3>1
  <2>7. \A s \in Run : InTurn(s)'
    BY <2>5 DEF InTurn
  <2> QED
    BY <2>4, <2>6, <2>7, OpenParts
<1>3. ASSUME Go(r) \/ Stop(r)
      PROVE  exec'[r].calls = {} /\ \A s \in Run : s # r => exec'[s] = exec[s]
  BY <1>3 DEF Go, Stop, NoExec
<1>4. CASE ToolsAnswer(r)
  BY <1>3, <1>4, OpenOutcomes DEF ToolsAnswer
<1>5. CASE ToolsWait(r)
  BY <1>3, <1>5, OpenOutcomes DEF ToolsWait
<1>6. CASE EndRun(r)
  BY <1>3, <1>6, OpenUnchanged DEF EndRun
<1>7. CASE WindDown(r)
  <2>1. CASE status[r] = "cancelling"
    BY <1>3, <1>7, <2>1, OpenCancelled DEF WindDown
  <2>2. CASE status[r] # "cancelling"
    BY <1>3, <1>7, <2>2, OpenUnchanged DEF WindDown
  <2> QED
    BY <2>1, <2>2
<1> QED
  BY <1>2, <1>4, <1>5, <1>6, <1>7 DEF Turn

LEMMA OpenScheduler ==
    ASSUME TypeOK, CallsOpen, NEW r \in Run, Scheduler(r)
    PROVE  CallsOpen' /\ AnswersKept
<1> USE Parts
<1>1. Go(r) => exec'[r].calls = {} /\ \A s \in Run : s # r => exec'[s] = exec[s]
  BY DEF Go
<1>2. CASE Start(r)
  BY <1>1, <1>2, OpenUnchanged DEF Start
<1>3. CASE Requeue(r)
  BY <1>3, OpenUnchanged DEF Requeue
<1>4. CASE Resume(r)
  BY <1>1, <1>4, OpenUnchanged DEF Resume
<1>5. CASE Recover(r)
  BY <1>5, OpenUnchanged DEF Recover
<1> QED
  BY <1>2, <1>3, <1>4, <1>5 DEF Scheduler

LEMMA OpenWaits ==
    ASSUME TypeOK, CallsOpen,
           \/ \E x \in Child : DeliverChild(x)
           \/ \E c \in Call : Runtime(c) \/ Environment(c)
    PROVE  CallsOpen' /\ AnswersKept
<1>1. "resolved" \in Wait \ {"pending"} /\ "timed_out" \in Wait \ {"pending"}
  BY DEF Wait
<1>2. ASSUME NEW x \in Child, DeliverChild(x) PROVE CallsOpen' /\ AnswersKept
  BY <1>1, <1>2, OpenClose DEF DeliverChild
<1>3. ASSUME NEW c \in Call, TimeOut(c) PROVE CallsOpen' /\ AnswersKept
  BY <1>1, <1>3, OpenClose DEF TimeOut
<1>4. ASSUME NEW c \in Call, Answer(c) PROVE CallsOpen' /\ AnswersKept
  BY <1>1, <1>4, OpenClose DEF Answer
<1>7. ASSUME NEW c \in Call, SandboxEnds(c) PROVE CallsOpen' /\ AnswersKept
  <2>1. CASE call[c].wait = "pending" /\ status[call[c].run] = "waiting"
    BY <1>1, <1>7, <2>1, OpenClose DEF SandboxEnds
  <2>2. CASE ~(call[c].wait = "pending" /\ status[call[c].run] = "waiting")
    BY <1>7, <2>2, OpenUnchanged DEF SandboxEnds
  <2> QED
    BY <2>1, <2>2
<1>5. ASSUME NEW c \in Call, ApprovedToolEnds(c) PROVE CallsOpen' /\ AnswersKept
  <2>1. CASE call[c].wait = "pending"
    BY <1>1, <1>5, <2>1, OpenClose DEF ApprovedToolEnds, ApprovedAnswer
  <2>2. CASE call[c].wait # "pending"
    BY <1>5, <2>2, OpenUnchanged DEF ApprovedToolEnds, ApprovedAnswer
  <2> QED
    BY <2>1, <2>2
<1>6. ASSUME NEW c \in Call, Approve(c) PROVE CallsOpen' /\ AnswersKept
  BY <1>6, OpenUnchanged DEF Approve
<1> QED
  BY <1>2, <1>3, <1>4, <1>5, <1>6, <1>7 DEF Runtime, Environment

LEMMA OpenCancel ==
    ASSUME TypeOK, CallsOpen, NEW r \in Run, CancelRun(r)
    PROVE  CallsOpen' /\ AnswersKept
<1> USE Parts
<1>1. CASE Live(r) /\ status[r] # "cancelling"
  <2>1. \A s \in Run : status'[s] = "running" =>
           s \notin Cancelled(r) /\ status[s] = "running"
    BY <1>1 DEF CancelRun, AskedToStop
  <2> QED
    BY <1>1, <2>1, OpenCancelled DEF CancelRun
<1>2. CASE ~(Live(r) /\ status[r] # "cancelling")
  <2>1. \A s \in Run : status'[s] = "running" => s \notin {r} /\ status[s] = "running"
    BY <1>2 DEF CancelRun
  <2> QED
    BY <1>2, <2>1, OpenCancelled DEF CancelRun
<1> QED
  BY <1>1, <1>2

LEMMA OpenLosses ==
    ASSUME WaitsAssumption, TypeOK, CallsOpen,
           Crash \/ \E r \in Run : CrashBeforeWaiting(r) \/ LeaveRunning(r)
    PROVE  CallsOpen' /\ AnswersKept
<1> USE Parts
<1>1. CASE Crash
  BY <1>1, OpenUnchanged DEF Crash, LoseProcess, NoExec
<1>2. ASSUME NEW r \in Run, CrashBeforeWaiting(r) PROVE CallsOpen' /\ AnswersKept
  <2>1. \A s \in Run : exec'[s].calls = {} /\ status'[s] = status[s]
    BY <1>2 DEF CrashBeforeWaiting, LoseProcess, NoExec
  <2> QED
    BY <1>2, <2>1, OpenOutcomes DEF CrashBeforeWaiting
<1>3. ASSUME NEW r \in Run, LeaveRunning(r) PROVE CallsOpen' /\ AnswersKept
  BY <1>3, OpenUnchanged DEF LeaveRunning, Stop, NoExec
<1> QED
  BY <1>1, <1>2, <1>3

LEMMA OpenStep ==
    ASSUME WaitsAssumption, TypeOK, CallsOpen, [Next]_vars
    PROVE  CallsOpen' /\ AnswersKept
<1>1. CASE UNCHANGED vars
  BY <1>1, OpenUnchanged DEF vars
<1>2. CASE Next
  BY <1>2, OpenTurn, OpenScheduler, OpenWaits, OpenCancel, OpenLosses DEF Next
<1> QED
  BY <1>1, <1>2

\* A pending wait belongs to an open call and the calls of a running execution
\* are open and not waited for, through crashes, recoveries and cancellations.
THEOREM PendingAreOpen == Spec => []CallsOpen
<1>1. Init => CallsOpen
  BY DEF Init, CallsOpen, NoCall, NoExec
<1>2. TypeOK /\ CallsOpen /\ [Next]_vars => CallsOpen'
  BY OpenStep, WaitsAssumption
<1> QED
  BY <1>1, <1>2, WaitsTypeCorrect, PTL DEF Spec

\* Whichever of a delivery, a deadline, a person, a late confirmed tool and a
\* cancellation closes a call, none of the others changes the answer.
THEOREM AnswersStay == Spec => AnsweredOnce
<1>1. TypeOK /\ CallsOpen /\ [Next]_vars => [AnswersKept]_vars
  BY OpenStep, WaitsAssumption
<1>2. Spec => [][AnswersKept]_vars
  BY <1>1, WaitsTypeCorrect, PendingAreOpen, PTL DEF Spec
<1> QED
  BY <1>2, PTL DEF AnsweredOnce, AnswersKept

----------------------------------------------------------------------------
(* What is promised while no execution is lost.  A run that has not started  *)
(* has no open call, one at work has none but those of its turn, and a child *)
(* that has not started is waited for or named by a call of its parent's     *)
(* turn, which keeps it from starting.                                       *)

Settled(r) ==
    /\ status[r] \in {"none", "pending"} \/ At(r, "turn") => OpenOf(r) = {}
    /\ At(r, "tools") => OpenOf(r) \subseteq exec[r].calls
    /\ status[r] = "running" => exec[r].pc # "none"

HasCaller(x) == \E c \in Call : call[c].target = x /\ call[c].wait # "none"

Promised(x) ==
    \E p \in Run : /\ parent[x] = p /\ At(p, "tools")
                   /\ \E c \in exec[p].calls : call[c].target = x /\ call[c].kind # "plain"

Called(x) ==
    /\ status[x] \notin {"none", "pending", "cancelled"} \/ exec[x] # NoExec => HasCaller(x)
    /\ status[x] = "pending" => HasCaller(x) \/ Promised(x)

NothingForgotten == (\A r \in Run : Settled(r)) /\ (\A x \in Child : Called(x))

\* What closing and recording a call leave of it.
Stays(c) ==
    /\ call'[c].run = call[c].run /\ call'[c].kind = call[c].kind
    /\ call'[c].target = call[c].target
    /\ call'[c].open => call[c].open
    /\ call[c].wait # "none" => call'[c].wait # "none"

CallsStay == \A c \in Call : Stays(c)

LEMMA ShutStays ==
    ASSUME NEW k \in CallType, NEW how \in Wait \ {"none"}
    PROVE  /\ Shut(k, how).run = k.run /\ Shut(k, how).kind = k.kind
           /\ Shut(k, how).target = k.target /\ ~Shut(k, how).open
           /\ Shut(k, how).wait # "none"
  BY DEF Shut, CallType

LEMMA CloseStays ==
    ASSUME TypeOK, NEW cs, NEW how \in Wait \ {"none"}, Close(cs, how)
    PROVE  CallsStay
<1> SUFFICES ASSUME NEW c \in Call PROVE Stays(c)
  BY DEF CallsStay
<1>1. call[c] \in CallType
  BY Parts
<1>2. call'[c] = IF c \in cs THEN Shut(call[c], how) ELSE call[c]
  BY DEF Close
<1> QED
  BY <1>1, <1>2, ShutStays DEF Stays

LEMMA CloseCallsOfStays ==
    ASSUME TypeOK, NEW rs, CloseCallsOf(rs)
    PROVE  CallsStay
<1> SUFFICES ASSUME NEW c \in Call PROVE Stays(c)
  BY DEF CallsStay
<1>1. call[c] \in CallType
  BY Parts
<1> DEFINE how == IF call[c].wait = "pending" THEN "cancelled" ELSE call[c].wait
<1>2. call'[c] = IF call[c].run \in rs /\ call[c].open THEN Shut(call[c], how) ELSE call[c]
  BY DEF CloseCallsOf
<1>3. how = call[c].wait \/ how = "cancelled"
  OBVIOUS
<1> HIDE DEF how
<1>4. CASE call[c].run \in rs /\ call[c].open
  BY <1>1, <1>2, <1>3, <1>4 DEF Stays, Shut, CallType
<1>5. CASE ~(call[c].run \in rs /\ call[c].open)
  BY <1>2, <1>5 DEF Stays
<1> QED
  BY <1>4, <1>5

\* The outcomes: plain calls are closed, the others waited for.
LEMMA OutcomesStay ==
    ASSUME TypeOK, NEW r \in Run, RecordOutcomes(r)
    PROVE  /\ CallsStay
           /\ \A c \in exec[r].calls :
                 /\ call[c].kind = "plain" => ~call'[c].open
                 /\ call[c].kind # "plain" => call'[c].wait = "pending"
<1>1. \A c \in Call : call[c] \in CallType
  BY Parts
<1>2. \A c \in Call :
         /\ c \in exec[r].calls /\ call[c].kind = "plain" =>
               call'[c] = [call[c] EXCEPT !.open = FALSE]
         /\ c \in exec[r].calls /\ call[c].kind # "plain" =>
               call'[c] = [call[c] EXCEPT !.wait = "pending"]
         /\ c \notin exec[r].calls => call'[c] = call[c]
  BY DEF RecordOutcomes
<1>3. ASSUME NEW c \in Call PROVE Stays(c)
  <2>1. CASE c \in exec[r].calls /\ call[c].kind = "plain"
    BY ZenonT(60), <1>1, <1>2, <2>1 DEF Stays, CallType
  <2>2. CASE c \in exec[r].calls /\ call[c].kind # "plain"
    BY ZenonT(60), <1>1, <1>2, <2>2 DEF Stays, CallType
  <2>3. CASE c \notin exec[r].calls
    BY <1>2, <2>3 DEF Stays
  <2> QED
    BY <2>1, <2>2, <2>3
<1>4. ASSUME NEW c \in exec[r].calls
      PROVE  /\ call[c].kind = "plain" => ~call'[c].open
             /\ call[c].kind # "plain" => call'[c].wait = "pending"
  <2>1. c \in Call
    BY InTurnCalls
  <2> QED
    BY <1>1, <1>2, <2>1 DEF CallType
<1> QED
  BY <1>3, <1>4 DEF CallsStay

LEMMA CallerStays ==
    ASSUME CallsStay, NEW x, HasCaller(x)
    PROVE  HasCaller(x)'
  BY DEF CallsStay, Stays, HasCaller

LEMMA PromiseStays ==
    ASSUME TypeOK, CallsStay, NEW x \in Child, Promised(x), parent' = parent,
           \A p \in Run : parent[x] = p => status'[p] = status[p] /\ exec'[p] = exec[p]
    PROVE  Promised(x)'
<1>1. PICK p \in Run : /\ parent[x] = p /\ At(p, "tools")
                       /\ \E c \in exec[p].calls : call[c].target = x /\ call[c].kind # "plain"
  BY DEF Promised
<1>2. \A c \in exec[p].calls : Stays(c)
  BY InTurnCalls DEF CallsStay
<1>3. \E c \in exec'[p].calls : call'[c].target = x /\ call'[c].kind # "plain"
  BY <1>1, <1>2 DEF Stays
<1> QED
  BY <1>1, <1>3 DEF Promised, At

\* A run that does not move, or moves to a status of which nothing is asked.
LEMMA SettledStays ==
    ASSUME TypeOK, CallsStay, NEW r \in Run, Settled(r),
           \/ status'[r] = status[r] /\ exec'[r] = exec[r]
           \/ status'[r] \notin {"none", "pending", "running"}
    PROVE  Settled(r)'
<1>1. OpenOf(r)' \subseteq OpenOf(r)
  BY DEF CallsStay, Stays, OpenOf, CallsOf
<1> QED
  BY <1>1 DEF Settled, At

LEMMA CalledStays ==
    ASSUME TypeOK, CallsStay, NEW x \in Child, Called(x),
           exec'[x] # NoExec => exec[x] # NoExec \/ HasCaller(x),
           status'[x] \in {"none", "pending", "cancelled", status[x]} \/ HasCaller(x),
           status'[x] = "pending" =>
              status[x] = "pending" /\ (Promised(x) => Promised(x)' \/ HasCaller(x)')
    PROVE  Called(x)'
  BY CallerStays DEF Called

\* A step that moves only run r.
LEMMA OthersStay ==
    ASSUME TypeOK, CallsStay, NothingForgotten, NEW r \in Run, UNCHANGED parent,
           \A s \in Run \ {r} : status'[s] = status[s] /\ exec'[s] = exec[s],
           Settled(r)',
           r \in Child => Called(r)',
           \A x \in Child : parent[x] = r /\ Promised(x) => HasCaller(x)'
    PROVE  NothingForgotten'
<1>1. ASSUME NEW s \in Run PROVE Settled(s)'
  BY <1>1, SettledStays DEF NothingForgotten
<1>2. ASSUME NEW x \in Child, x # r PROVE Called(x)'
  <2>1. x \in Run
    BY DEF Run
  <2>2. Promised(x) => Promised(x)' \/ HasCaller(x)'
    BY PromiseStays DEF Promised
  <2> QED
    BY <1>2, <2>1, <2>2, CalledStays DEF NothingForgotten
<1> QED
  BY <1>1, <1>2 DEF NothingForgotten

LEMMA ForgetCallTools ==
    ASSUME WaitsAssumption, TypeOK, CallsOpen, NothingForgotten, NEW r \in Run, CallTools(r)
    PROVE  NothingForgotten'
<1> USE Parts
<1>1. PICK xs \in SUBSET Child :
         /\ Create(xs, r)
         /\ \A x \in xs : status[x] = "none" /\ AskedFor(x, r)
  BY CallToolsShape
<1>2. PICK cs \in SUBSET Call :
         /\ exec' = [exec EXCEPT ![r] = [pc |-> "tools", calls |-> cs]]
         /\ \A c \in cs : /\ call[c] = NoCall
                          /\ call'[c].run = r /\ call'[c].open /\ call'[c].wait = "none"
         /\ \A c \in Call \ cs :
               \/ call'[c] = call[c]
               \/ call[c].wait = "pending" /\ call'[c] = Shut(call[c], "resolved")
  BY CallToolsShape
<1>3. At(r, "turn")
  BY CallToolsShape
<1>4. ASSUME NEW c \in Call \ cs PROVE Stays(c)
  <2>1. "resolved" \in Wait \ {"none"} /\ call[c] \in CallType
    BY DEF Wait
  <2>2. CASE call'[c] = call[c]
    BY <2>2 DEF Stays
  <2>3. CASE call'[c] = Shut(call[c], "resolved")
    BY <2>1, <2>3, ShutStays DEF Stays
  <2> QED
    BY <1>2, <2>2, <2>3
<1>5. exec'[r] = [pc |-> "tools", calls |-> cs] /\ \A s \in Run \ {r} : exec'[s] = exec[s]
  BY <1>2
<1>6. \A s \in Run : status'[s] = IF s \in xs THEN "pending" ELSE status[s]
  BY <1>1 DEF Create
<1>7. r \notin xs /\ status[r] = "running"
  BY <1>1, <1>3 DEF At
<1>8. ASSUME NEW s \in Run PROVE Settled(s)'
  <2>1. OpenOf(s)' \subseteq IF s = r THEN OpenOf(r) \cup cs ELSE OpenOf(s)
    BY <1>2, <1>4 DEF OpenOf, CallsOf, Stays
  <2>2. Settled(s)
    BY DEF NothingForgotten
  <2>3. CASE s = r
    BY <1>3, <1>5, <1>6, <1>7, <2>1, <2>2, <2>3 DEF Settled, At
  <2>4. CASE s # r /\ s \in xs
    BY <1>1, <1>6, <2>1, <2>2, <2>4 DEF Settled, At
  <2>5. CASE s # r /\ s \notin xs
    BY <1>5, <1>6, <2>1, <2>2, <2>5 DEF Settled, At
  <2> QED
    BY <2>3, <2>4, <2>5
<1>9. ASSUME NEW x \in Child, HasCaller(x) PROVE HasCaller(x)'
  <2>1. PICK c \in Call : call[c].target = x /\ call[c].wait # "none"
    BY <1>9 DEF HasCaller
  <2>2. c \notin cs
    BY <1>2, <2>1 DEF NoCall
  <2> QED
    BY <1>4, <2>1, <2>2 DEF Stays, HasCaller
<1>10. ASSUME NEW x \in Child PROVE Called(x)'
  <2>1. Called(x) /\ x \in Run
    BY DEF NothingForgotten, Run
  <2>2. exec'[x] # NoExec => exec[x] # NoExec
    <3>1. exec[r] # NoExec
      BY <1>3 DEF At, NoExec
    <3>2. x # r => exec'[x] = exec[x]
      BY <1>5, <2>1
    <3> QED
      BY <3>1, <3>2
  <2>3. CASE x \in xs
    <3>1. Promised(x)'
      <4>1. parent'[x] = r /\ At(r, "tools")'
        BY <1>1, <1>5, <1>6, <1>7, <2>3 DEF Create, At
      <4>2. PICK c \in exec'[r].calls : call'[c].target = x /\ call'[c].kind # "plain"
        BY <1>1, <2>3 DEF AskedFor
      <4> QED
        BY <4>1, <4>2 DEF Promised
    <3>2. status'[x] = "pending"
      BY <1>6, <2>1, <2>3
    <3> QED
      BY <1>9, <2>1, <2>2, <3>1, <3>2 DEF Called
  <2>4. CASE x \notin xs
    <3>1. ASSUME Promised(x) PROVE Promised(x)'
      <4>1. PICK p \in Run :
               /\ parent[x] = p /\ At(p, "tools")
               /\ \E c \in exec[p].calls : call[c].target = x /\ call[c].kind # "plain"
        BY <3>1 DEF Promised
      <4>2. p # r /\ p \notin xs
        BY <1>1, <1>3, <4>1 DEF At
      <4>3. \A c \in exec[p].calls : c \in Call /\ call[c].run = p
        BY <4>1, InTurnCalls DEF CallsOpen, At
      <4>4. \A c \in exec[p].calls : Stays(c)
        BY <1>2, <1>4, <4>3 DEF NoCall, WaitsAssumption
      <4>5. exec'[p] = exec[p] /\ status'[p] = status[p] /\ parent'[x] = parent[x]
        BY <1>1, <1>5, <1>6, <2>4, <4>2 DEF Create
      <4>6. \E c \in exec'[p].calls : call'[c].target = x /\ call'[c].kind # "plain"
        BY <4>1, <4>4, <4>5 DEF Stays
      <4> QED
        BY <4>1, <4>5, <4>6 DEF Promised, At
    <3>2. status'[x] = status[x]
      BY <1>6, <2>1, <2>4
    <3> QED
      BY <1>9, <2>1, <2>2, <3>1, <3>2 DEF Called
  <2> QED
    BY <2>3, <2>4
<1> QED
  BY <1>8, <1>10 DEF NothingForgotten

LEMMA ForgetTurn ==
    ASSUME WaitsAssumption, TypeOK, CallsOpen, NothingForgotten, NEW r \in Run, Turn(r)
    PROVE  NothingForgotten'
<1> USE Parts
<1>1. ASSUME Go(r) \/ Stop(r)
      PROVE  \A s \in Run : s # r => exec'[s] = exec[s]
  BY <1>1 DEF Go, Stop
<1>2. Go(r) => exec'[r] = [pc |-> "turn", calls |-> {}]
  BY DEF Go
<1>3. Stop(r) => exec'[r] = NoExec
  BY DEF Stop
<1>4. Settled(r) /\ (r \in Child => Called(r))
  BY DEF NothingForgotten
<1>5. CASE CallTools(r)
  BY <1>5, ForgetCallTools
<1>6. CASE ToolsAnswer(r)
  <2>1. /\ Go(r) /\ RecordOutcomes(r) /\ At(r, "tools") /\ UNCHANGED <<status, parent>>
        /\ \A c \in exec[r].calls : call[c].kind = "plain"
    BY <1>6 DEF ToolsAnswer, Suspends
  <2>2. CallsStay /\ \A c \in exec[r].calls : ~call'[c].open
    BY <2>1, OutcomesStay
  <2>3. OpenOf(r)' = {}
    BY <1>4, <2>1, <2>2 DEF OpenOf, CallsOf, Settled, CallsStay, Stays
  <2>4. Settled(r)'
    BY <1>2, <2>1, <2>3 DEF Settled, At
  <2>5. r \in Child => Called(r)'
    BY <1>4, <2>1, <2>2, CallerStays DEF Called, At
  <2>6. \A x \in Child : parent[x] = r /\ Promised(x) => HasCaller(x)'
    BY <2>1 DEF Promised
  <2> QED
    BY <1>1, <2>1, <2>2, <2>4, <2>5, <2>6, OthersStay
<1>7. CASE ToolsWait(r)
  <2>1. /\ Stop(r) /\ RecordOutcomes(r) /\ At(r, "tools") /\ UNCHANGED parent
        /\ status' = [status EXCEPT ![r] = "waiting"]
    BY <1>7 DEF ToolsWait
  <2>2. /\ CallsStay
        /\ \A c \in exec[r].calls : call[c].kind # "plain" => call'[c].wait = "pending"
    BY <2>1, OutcomesStay
  <2>3. status'[r] = "waiting"
    BY <2>1
  <2>4. Settled(r)'
    BY <1>4, <2>2, <2>3, SettledStays
  <2>5. r \in Child => Called(r)'
    BY <1>4, <2>1, <2>2, <2>3, CallerStays DEF Called, At
  <2>6. ASSUME NEW x \in Child, parent[x] = r, Promised(x) PROVE HasCaller(x)'
    <3>1. PICK c \in exec[r].calls : call[c].target = x /\ call[c].kind # "plain"
      BY <2>6 DEF Promised
    <3>2. c \in Call
      BY InTurnCalls
    <3> QED
      BY <2>2, <3>1, <3>2 DEF HasCaller, CallsStay, Stays
  <2> QED
    BY <1>1, <2>1, <2>2, <2>4, <2>5, <2>6, OthersStay
<1>8. CASE EndRun(r)
  <2>1. /\ Stop(r) /\ At(r, "turn") /\ UNCHANGED <<parent, call>>
        /\ \A s \in Run \ {r} : status'[s] = status[s]
        /\ status'[r] \in {"completed", "failed"}
    BY <1>8 DEF EndRun
  <2>2. CallsStay
    BY <2>1 DEF CallsStay, Stays
  <2>3. Settled(r)'
    BY <1>4, <2>1, <2>2, SettledStays
  <2>4. r \in Child => Called(r)'
    BY <1>4, <2>1, <2>2, CallerStays DEF Called, At
  <2>5. \A x \in Child : parent[x] = r => ~Promised(x)
    BY <2>1 DEF Promised, At
  <2> QED
    BY <1>1, <2>1, <2>2, <2>3, <2>4, <2>5, OthersStay
<1>9. CASE WindDown(r)
  <2>1. /\ Stop(r) /\ exec[r] # NoExec /\ status[r] # "running" /\ UNCHANGED parent
        /\ \A s \in Run \ {r} : status'[s] = status[s]
        /\ \/ status'[r] = "cancelled" /\ CloseCallsOf({r})
           \/ status'[r] = status[r] /\ UNCHANGED call
    BY <1>9 DEF WindDown
  <2>2. CallsStay
    BY <2>1, CloseCallsOfStays DEF CallsStay, Stays
  <2>3. OpenOf(r)' \subseteq OpenOf(r)
    BY <2>2 DEF CallsStay, Stays, OpenOf, CallsOf
  <2>4. Settled(r)'
    BY <1>4, <2>1, <2>3 DEF Settled, At
  <2>5. r \in Child => Called(r)'
    BY <1>4, <2>1, <2>2, CallerStays DEF Called
  <2>6. \A x \in Child : parent[x] = r => ~Promised(x)
    BY <2>1 DEF Promised, At
  <2> QED
    BY <1>1, <2>1, <2>2, <2>4, <2>5, <2>6, OthersStay
<1> QED
  BY <1>5, <1>6, <1>7, <1>8, <1>9 DEF Turn

LEMMA ForgetScheduler ==
    ASSUME WaitsAssumption, TypeOK, CallsOpen, NothingForgotten, NEW r \in Run, Scheduler(r)
    PROVE  NothingForgotten'
<1> USE Parts
<1>1. CallsStay /\ UNCHANGED <<call, parent>>
  BY DEF Scheduler, Start, Requeue, Resume, Recover, CallsStay, Stays
<1>2. Settled(r) /\ (r \in Child => Called(r))
  BY DEF NothingForgotten
<1>3. Go(r) => /\ exec'[r] = [pc |-> "turn", calls |-> {}]
               /\ \A s \in Run : s # r => exec'[s] = exec[s]
  BY DEF Go
<1>4. OpenOf(r)' = OpenOf(r)
  BY <1>1 DEF OpenOf, CallsOf
<1>5. CASE Start(r)
  <2>1. /\ status[r] = "pending" /\ MayStart(r) /\ Go(r)
        /\ status' = [status EXCEPT ![r] = "running"]
    BY <1>5 DEF Start
  <2>2. Settled(r)'
    BY <1>2, <1>3, <1>4, <2>1 DEF Settled, At
  <2>3. ASSUME r \in Child PROVE Called(r)'
    <3>1. ~Promised(r)
      BY <2>1, <2>3 DEF Promised, MayStart, At
    <3> QED
      BY <1>1, <1>2, <2>1, <2>3, <3>1, CallerStays DEF Called
  <2>4. \A x \in Child : parent[x] = r => ~Promised(x)
    BY <2>1 DEF Promised, At
  <2> QED
    BY <1>1, <1>3, <2>1, <2>2, <2>3, <2>4, OthersStay
<1>6. CASE Requeue(r)
  BY <1>6 DEF Requeue, NothingForgotten, Settled, Called, At, OpenOf, CallsOf, HasCaller, Promised
<1>7. CASE Resume(r)
  <2>1. /\ status[r] = "waiting" /\ Answered(r) /\ Go(r)
        /\ status' = [status EXCEPT ![r] = "running"]
    BY <1>7 DEF Resume
  <2>2. Settled(r)'
    BY <1>3, <1>4, <2>1 DEF Settled, At, Answered
  <2>3. r \in Child => Called(r)'
    BY <1>1, <1>2, <2>1, CallerStays DEF Called
  <2>4. \A x \in Child : parent[x] = r => ~Promised(x)
    BY <2>1 DEF Promised, At
  <2> QED
    BY <1>1, <1>3, <2>1, <2>2, <2>3, <2>4, OthersStay
<1>8. ~Recover(r)
  BY <1>2 DEF Recover, Settled, NoExec
<1> QED
  BY <1>5, <1>6, <1>7, <1>8 DEF Scheduler

LEMMA ForgetCallsOnly ==
    ASSUME TypeOK, NothingForgotten, CallsStay, UNCHANGED <<status, parent, exec>>
    PROVE  NothingForgotten'
<1>1. \A r \in Run : Settled(r)'
  BY SettledStays DEF NothingForgotten
<1>2. \A x \in Child : Called(x)'
  BY CalledStays, PromiseStays DEF NothingForgotten
<1> QED
  BY <1>1, <1>2 DEF NothingForgotten

LEMMA ForgetWaits ==
    ASSUME TypeOK, NothingForgotten,
           \/ \E x \in Child : DeliverChild(x)
           \/ \E c \in Call : Runtime(c) \/ Environment(c)
    PROVE  NothingForgotten'
<1>1. "resolved" \in Wait \ {"none"} /\ "timed_out" \in Wait \ {"none"}
  BY DEF Wait
<1>2. UNCHANGED call => CallsStay
  BY DEF CallsStay, Stays
<1>3. CASE \E x \in Child : DeliverChild(x)
  BY <1>1, <1>3, CloseStays, ForgetCallsOnly DEF DeliverChild
<1>4. ASSUME NEW c \in Call, Runtime(c) PROVE NothingForgotten'
  BY <1>1, <1>2, <1>4, CloseStays, ForgetCallsOnly
     DEF Runtime, TimeOut, SandboxEnds, ApprovedToolEnds, ApprovedAnswer
<1>5. ASSUME NEW c \in Call, Environment(c) PROVE NothingForgotten'
  BY <1>1, <1>2, <1>5, CloseStays, ForgetCallsOnly DEF Environment, Answer, Approve
<1> QED
  BY <1>3, <1>4, <1>5

\* A cancelled parent takes the children it promised to wait for along.
LEMMA ForgetCancel ==
    ASSUME TypeOK, NothingForgotten, NEW r \in Run, CancelRun(r)
    PROVE  NothingForgotten'
<1> USE Parts
<1>1. CallsStay /\ UNCHANGED <<parent, exec>>
  BY CloseCallsOfStays DEF CancelRun
<1>2. CASE Live(r) /\ status[r] # "cancelling"
  <2>1. \A s \in Run : status'[s] = IF s \in Cancelled(r) THEN AskedToStop(s) ELSE status[s]
    BY <1>2 DEF CancelRun
  <2>2. \A s \in Run : /\ status'[s] \in {status[s], "cancelling", "cancelled"}
                       /\ status'[s] = "cancelling" /\ status[s] # "cancelling" =>
                             status[s] = "running"
    BY <2>1 DEF AskedToStop
  <2>3. \A s \in Run : Settled(s)'
    BY <1>1, <2>2, SettledStays DEF NothingForgotten
  <2>4. ASSUME NEW x \in Child PROVE Called(x)'
    <3>1. Called(x) /\ x \in Run
      BY DEF NothingForgotten, Run
    <3>2. ASSUME status'[x] = "pending", Promised(x) PROVE Promised(x)'
      <4>1. status[x] = "pending" /\ x \notin Cancelled(r)
        BY <2>1, <2>2, <3>1, <3>2 DEF AskedToStop
      <4>2. parent[x] \notin Cancelled(r)
        BY <4>1, CancelledClosed DEF Closed, Live, Terminal
      <4>3. \A p \in Run : parent[x] = p => status'[p] = status[p] /\ exec'[p] = exec[p]
        BY <1>1, <2>1, <4>2
      <4> QED
        BY <1>1, <3>2, <4>3, PromiseStays
    <3> QED
      BY <1>1, <2>2, <3>1, <3>2, CalledStays DEF Called
  <2> QED
    BY <2>3, <2>4 DEF NothingForgotten
<1>3. CASE ~(Live(r) /\ status[r] # "cancelling")
  <2>1. status[r] = "cancelling" /\ status' = [status EXCEPT ![r] = "cancelled"]
    BY <1>3 DEF CancelRun
  <2>2. Settled(r)'
    BY <1>1, <2>1, SettledStays DEF NothingForgotten
  <2>3. r \in Child => Called(r)'
    BY <1>1, <2>1, CallerStays DEF NothingForgotten, Called
  <2>4. \A x \in Child : parent[x] = r => ~Promised(x)
    BY <2>1 DEF Promised, At
  <2> QED
    BY <1>1, <2>1, <2>2, <2>3, <2>4, OthersStay
<1> QED
  BY <1>2, <1>3

\* Only a lost execution spends the bound on losses.
LEMMA LossesCounted ==
    ASSUME WaitsAssumption, TypeOK, [Next]_vars
    PROVE  /\ NothingLost' => NothingLost
           /\ Crash \/ (\E r \in Run : CrashBeforeWaiting(r) \/ LeaveRunning(r)) => ~NothingLost'
<1>1. budget.loss \in 0..MaxLosses /\ budget \in [loss : 0..MaxLosses, cancel : 0..MaxCancels]
  BY Parts
<1>2. Lose => budget'.loss = budget.loss - 1 /\ budget.loss > 0
  BY <1>1 DEF Lose
<1>3. Lose => ~NothingLost'
  BY <1>1, <1>2, WaitsAssumption DEF NothingLost
<1>4. ASSUME NEW r \in Run, CancelRun(r) PROVE NothingLost' => NothingLost
  BY <1>1, <1>4 DEF CancelRun, NothingLost
<1>5. ASSUME NEW r \in Run, Turn(r) PROVE UNCHANGED budget
  BY <1>5 DEF Turn, CallTools, ToolsAnswer, ToolsWait, EndRun, WindDown
<1>6. ASSUME NEW r \in Run, Scheduler(r) PROVE UNCHANGED budget
  BY <1>6 DEF Scheduler, Start, Requeue, Resume, Recover
<1>7. ASSUME NEW c \in Call, Runtime(c) \/ Environment(c) PROVE UNCHANGED budget
  BY <1>7 DEF Runtime, TimeOut, SandboxEnds, ApprovedToolEnds, Environment, Answer, Approve
<1>8. Crash \/ (\E r \in Run : CrashBeforeWaiting(r) \/ LeaveRunning(r)) => Lose
  BY DEF Crash, CrashBeforeWaiting, LeaveRunning
<1>9. (\E x \in Child : DeliverChild(x)) => UNCHANGED budget
  BY DEF DeliverChild
<1> QED
  BY <1>3, <1>4, <1>5, <1>6, <1>7, <1>8, <1>9 DEF Next, vars, NothingLost

LEMMA ForgetStep ==
    ASSUME WaitsAssumption, TypeOK, CallsOpen, NothingLost => NothingForgotten, [Next]_vars
    PROVE  (NothingLost => NothingForgotten)'
<1> SUFFICES ASSUME NothingLost' PROVE NothingForgotten'
  OBVIOUS
<1>1. NothingForgotten /\ ~Crash /\ ~\E r \in Run : CrashBeforeWaiting(r) \/ LeaveRunning(r)
  BY LossesCounted
<1>2. CASE UNCHANGED vars
  BY <1>1, <1>2 DEF vars, NothingForgotten, Settled, Called, At, OpenOf, CallsOf, HasCaller, Promised
<1>3. CASE Next
  BY <1>1, <1>3, ForgetTurn, ForgetScheduler, ForgetWaits, ForgetCancel DEF Next
<1> QED
  BY <1>2, <1>3

LEMMA Forgotten == Spec => [](NothingLost => NothingForgotten)
<1>1. ASSUME Init PROVE NothingForgotten
  <2>1. \A r \in Run : status[r] \in {"none", "pending"} /\ exec[r] = NoExec /\ OpenOf(r) = {}
    BY <1>1 DEF Init, OpenOf, CallsOf, NoCall
  <2>2. \A x \in Child : status[x] = "none"
    BY <1>1, WaitsAssumption DEF Init, Run
  <2> QED
    BY <2>1, <2>2 DEF NothingForgotten, Settled, Called, At, Run
<1>2. TypeOK /\ CallsOpen /\ (NothingLost => NothingForgotten) /\ [Next]_vars
         => (NothingLost => NothingForgotten)'
  BY ForgetStep, WaitsAssumption
<1> QED
  BY <1>1, <1>2, WaitsTypeCorrect, PendingAreOpen, PTL DEF Spec

\* The model is never called with an unanswered call of its run, however the
\* waits of a turn are answered, as long as no execution is lost.
THEOREM TurnsAreAnswered == Spec => []AnsweredBeforeTurn
<1>1. CallsOpen /\ (NothingLost => NothingForgotten) => AnsweredBeforeTurn
  BY DEF CallsOpen, NothingForgotten, AnsweredBeforeTurn, Settled, OpenOf, PendingOf, CallsOf
<1> QED
  BY <1>1, PendingAreOpen, Forgotten, PTL

\* No child works for a parent that has not recorded that it waits for it: the
\* edge between the jobs holds it back between the two transactions.
THEOREM ChildrenAreCalled == Spec => []ChildHasCaller
<1>1. (NothingLost => NothingForgotten) => ChildHasCaller
  BY DEF NothingForgotten, ChildHasCaller, Called, HasCaller
<1> QED
  BY <1>1, Forgotten, PTL
=============================================================================
