------------------------------ MODULE RunWaits ------------------------------
(***************************************************************************)
(* A tree of runs that suspend on the results of tool calls: delegated     *)
(* child runs, answers of people, confirmations, sandbox executions        *)
(* (apps/server/src/application/runtime/waits, application/agents, and the *)
(* wait side of runtime/scheduling/readiness).                             *)
(*                                                                         *)
(* Leases, versions and superseded executions are the matter of module     *)
(* RunScheduler, which shows that one execution of a run can commit; here  *)
(* a run has at most one execution, and losing it, by a crash or by an     *)
(* error that leaves the run running, is a step of its own.                *)
(***************************************************************************)
EXTENDS Integers, FiniteSets

CONSTANTS
    Root,       \* the root run
    Child,      \* the delegated runs that may be created
    MaxCalls,   \* bound: tool calls, in all runs together
    Nobody,     \* no run
    Kind,       \* the kinds of tool calls the models of the runs make
    Parallel,   \* bound: tool calls of one turn
    MaxLosses,  \* bound: lost executions
    MaxCancels  \* bound: cancel commands

Run == {Root} \cup Child

\* Tool calls are named in the order they are made.
Call == 1..MaxCalls

(***************************************************************************)
(* plain: answered in the turn.  delegate, resume: wait on a child run.    *)
(* human: suspend_run without a timeout.  timed: suspend_run with one.     *)
(* outside: suspend_run with an external target, with a timeout or without *)
(* one, which neither a parent nor the runtime answers.                    *)
(* approval: an MCP call or sandbox write-back a person must confirm.      *)
(* external: a sandbox execution, answered by the sandbox worker.          *)
(***************************************************************************)
Kinds == {"plain", "delegate", "resume", "human", "timed", "outside", "approval",
          "external"}

ASSUME WaitsAssumption ==
    /\ Root \notin Child /\ Nobody \notin Run
    /\ Kind \subseteq Kinds
    /\ MaxCalls \in Nat /\ Parallel \in Nat \ {0}
    /\ MaxLosses \in Nat /\ MaxCancels \in Nat

VARIABLES
    status,     \* runs.status, "none" before the run exists
    requeued,   \* the waiting runs whose job is queued again
    parent,     \* runs.parentRunId; also the depends_on edge between the jobs
    exec,       \* the execution of each run: where it is, the calls of its turn
    call,       \* tool_executions and the run_dependencies row of each call
    approving,  \* confirmed calls whose remote tool is running
    sandbox,    \* sandbox_executions that are queued or running
    budget      \* what is left of each bound

vars == <<status, requeued, parent, exec, call, approving, sandbox, budget>>

Terminal == {"completed", "failed", "cancelled"}
Status   == Terminal \cup {"none", "pending", "running", "waiting", "cancelling"}
Wait     == {"none", "pending", "resolved", "timed_out", "cancelled"}

NoExec == [pc |-> "none", calls |-> {}]
NoCall == [run |-> Nobody, kind |-> "plain", target |-> Nobody,
           open |-> FALSE, wait |-> "none"]

TypeOK ==
    /\ status \in [Run -> Status]
    /\ requeued \subseteq {r \in Run : status[r] = "waiting"}
    /\ parent \in [Child -> Run \cup {Nobody}]
    /\ exec \in [Run -> [pc : {"none", "turn", "tools"}, calls : SUBSET Call]]
    /\ call \in [Call -> [run : Run \cup {Nobody}, kind : Kinds,
                          target : Child \cup {Nobody}, open : BOOLEAN, wait : Wait]]
    /\ approving \subseteq Call /\ sandbox \subseteq Call
    /\ budget \in [loss : 0..MaxLosses, cancel : 0..MaxCancels]

Init ==
    /\ status = [r \in Run |-> IF r = Root THEN "pending" ELSE "none"]
    /\ requeued = {}
    /\ parent = [x \in Child |-> Nobody]
    /\ exec = [r \in Run |-> NoExec]
    /\ call = [c \in Call |-> NoCall]
    /\ approving = {} /\ sandbox = {}
    /\ budget = [loss |-> MaxLosses, cancel |-> MaxCancels]

----------------------------------------------------------------------------
(* Reading the state *)

Live(r) == status[r] \notin Terminal \cup {"none"}
ChildrenOf(r) == {x \in Child : parent[x] = r}

CallsOf(r)   == {c \in Call : call[c].run = r}
PendingOf(r) == {c \in CallsOf(r) : call[c].wait = "pending"}
OpenOf(r)    == {c \in CallsOf(r) : call[c].open}

AgentKinds == {"delegate", "resume"}

\* Waits of type tool with an external target: the sandbox tool's, and those of
\* suspend_run on something outside.
ExternalKinds == {"external", "outside"}

\* The waits of a child its parent is told of: not those on runs of its own and
\* not the external ones, which the code takes to resolve themselves.
DeliverableOf(r) ==
    {c \in PendingOf(r) : call[c].kind \notin AgentKinds \cup ExternalKinds}

Suspended(x) == status[x] = "waiting" /\ DeliverableOf(x) # {}

\* What there is to tell a parent: an end, or a suspension a person need not
\* confirm directly.
HasResult(x) ==
    \/ status[x] \in Terminal
    \/ /\ Suspended(x)
       /\ \E c \in DeliverableOf(x) : call[c].kind # "approval"

\* A plausible bug: the first answer wakes the run.
AnsweredInPart(r) == OpenOf(r) # CallsOf(r)
Answered(r) == PendingOf(r) = {} /\ OpenOf(r) = {}

\* The job of a run depends on the jobs of its children: they have ended or
\* are suspended.  A plausible bug: a suspended child does not count.
DependencyEnded(x) == status[x] \in Terminal
DependencySatisfied(x) == status[x] \in Terminal \/ Suspended(x)

\* A plausible bug: a child may start as soon as it is committed.
MayStartAlways(r) == TRUE
MayStart(r) == r \in Child => status[parent[r]] \notin {"pending", "running"}

----------------------------------------------------------------------------
(* Writing the state *)

Shut(k, how) == [k EXCEPT !.open = FALSE, !.wait = how]

\* The tool execution and its wait are closed in one transaction.  A plausible
\* bug: the wait is left pending.
CloseExecutions(cs, how) ==
    call' = [c \in Call |-> IF c \in cs THEN [call[c] EXCEPT !.open = FALSE] ELSE call[c]]
Close(cs, how) ==
    call' = [c \in Call |-> IF c \in cs THEN Shut(call[c], how) ELSE call[c]]

\* A cancelled run leaves no pending wait and no open tool execution.
CloseCallsOf(rs) ==
    call' = [c \in Call |->
        IF call[c].run \in rs /\ call[c].open
          THEN Shut(call[c], IF call[c].wait = "pending" THEN "cancelled"
                                                         ELSE call[c].wait)
          ELSE call[c]]

\* The jobs of cancelled runs are not queued any more.  A plausible bug: they are.
KeepQueued(rs) == UNCHANGED requeued
DropQueued(rs) == requeued' = requeued \ rs

Stop(r) == exec' = [exec EXCEPT ![r] = NoExec]
Go(r) == exec' = [exec EXCEPT ![r] = [pc |-> "turn", calls |-> {}]]

At(r, pc) == exec[r].pc = pc /\ status[r] = "running"

----------------------------------------------------------------------------
(* The turns of a run *)

Start(r) ==
    /\ status[r] = "pending" /\ exec[r] = NoExec /\ MayStart(r)
    /\ status' = [status EXCEPT ![r] = "running"]
    /\ Go(r)
    /\ UNCHANGED <<requeued, parent, call, approving, sandbox, budget>>

\* The waits of its children that run r may answer, or find answered.
Resumable(r) ==
    {c \in Call :
        /\ call[c].run \in ChildrenOf(r)
        /\ \/ call[c].wait = "resolved"
           \/ /\ status[call[c].run] = "waiting"
              /\ c \in DeliverableOf(call[c].run) /\ call[c].kind # "approval"}

\* What the model of run r may ask for in one call: which tool, the child it
\* waits on, and the waits of that child it answers on the spot.
Ask(kind, target, answers) == [kind |-> kind, target |-> target, answers |-> answers]

NewCall(r, q) == [run |-> r, kind |-> q.kind, target |-> q.target,
                  open |-> TRUE, wait |-> "none"]

Requests(r) ==
    {Ask(k, Nobody, {}) : k \in Kind \ AgentKinds}
    \cup {Ask("delegate", x, {}) :
             x \in {y \in Child : "delegate" \in Kind /\ status[y] = "none"}}
    \cup {Ask("resume", call[c].run, {c} \cap PendingOf(call[c].run)) :
             c \in {d \in Resumable(r) : "resume" \in Kind}}

Unused == {c \in Call : call[c] = NoCall}

Create(xs, r) ==
    /\ status' = [x \in Run |-> IF x \in xs THEN "pending" ELSE status[x]]
    /\ parent' = [x \in Child |-> IF x \in xs THEN r ELSE parent[x]]

\* The model asks for tools.  The tool executions are recorded and the tools
\* started in one stretch of the event loop: a delegation commits its child
\* and the edge between the jobs, resume_delegated_run answers a wait the child
\* is suspended on, or finds it answered, and the sandbox tool queues an
\* execution for the sandbox worker.
CallTools(r) ==
    /\ At(r, "turn")
    /\ \E cs \in SUBSET Unused :
          /\ cs # {} /\ Cardinality(cs) <= Parallel
          /\ \A c \in cs, d \in Unused \ cs : c < d
          /\ exec' = [exec EXCEPT ![r] = [pc |-> "tools", calls |-> cs]]
          /\ \E req \in [cs -> Requests(r)] :
                /\ \A c, d \in cs :
                      req[c].kind = "delegate" /\ req[d] = req[c] => c = d
                /\ call' = [c \in Call |->
                      IF c \in cs THEN NewCall(r, req[c])
                      ELSE IF c \in UNION {req[d].answers : d \in cs}
                             THEN Shut(call[c], "resolved")
                             ELSE call[c]]
                /\ Create({req[c].target : c \in {d \in cs : req[d].kind = "delegate"}}, r)
                /\ sandbox' = sandbox \cup {c \in cs : req[c].kind = "external"}
    /\ UNCHANGED <<requeued, approving, budget>>

\* The tools have started or answered: plain calls are complete, the others
\* leave a pending wait.
RecordOutcomes(r) ==
    call' = [c \in Call |->
        CASE c \in exec[r].calls /\ call[c].kind = "plain" -> [call[c] EXCEPT !.open = FALSE]
          [] c \in exec[r].calls /\ call[c].kind # "plain" -> [call[c] EXCEPT !.wait = "pending"]
          [] OTHER -> call[c]]

Suspends(r) == \E c \in exec[r].calls : call[c].kind # "plain"

ToolsAnswer(r) ==
    /\ At(r, "tools") /\ ~Suspends(r)
    /\ RecordOutcomes(r)
    /\ Go(r)
    /\ UNCHANGED <<status, requeued, parent, approving, sandbox, budget>>

ToolsWait(r) ==
    /\ At(r, "tools") /\ Suspends(r)
    /\ RecordOutcomes(r)
    /\ status' = [status EXCEPT ![r] = "waiting"]
    /\ Stop(r)
    /\ UNCHANGED <<requeued, parent, approving, sandbox, budget>>

\* The model answers without tools, or its turn fails.  The children of the run
\* are left as they are.
EndRun(r) ==
    /\ At(r, "turn")
    /\ \E end \in {"completed", "failed"} : status' = [status EXCEPT ![r] = end]
    /\ Stop(r)
    /\ UNCHANGED <<requeued, parent, call, approving, sandbox, budget>>

\* The execution of a run that is being cancelled, or is already cancelled with
\* its parent, winds down.
WindDown(r) ==
    /\ exec[r] # NoExec /\ status[r] # "running"
    /\ IF status[r] = "cancelling"
         THEN status' = [status EXCEPT ![r] = "cancelled"] /\ CloseCallsOf({r})
         ELSE UNCHANGED <<status, call>>
    /\ Stop(r)
    /\ UNCHANGED <<requeued, parent, approving, sandbox, budget>>

Turn(r) == CallTools(r) \/ ToolsAnswer(r) \/ ToolsWait(r) \/ EndRun(r) \/ WindDown(r)

----------------------------------------------------------------------------
(* The scheduler: decisions about waits, waiting runs and lost executions *)

\* Every parent that waits on the child and is suspended is told.
DeliverChild(x) ==
    /\ HasResult(x)
    /\ LET told == {c \in Call : /\ call[c].wait = "pending" /\ call[c].target = x
                                 /\ status[call[c].run] = "waiting"}
       IN told # {} /\ Close(told, "resolved")
    /\ UNCHANGED <<status, requeued, parent, exec, approving, sandbox, budget>>

TimeOut(c) ==
    /\ call[c].wait = "pending" /\ call[c].kind \in {"timed", "outside"}
    /\ status[call[c].run] = "waiting"
    /\ Close({c}, "timed_out")
    /\ UNCHANGED <<status, requeued, parent, exec, approving, sandbox, budget>>

Requeue(r) ==
    /\ status[r] = "waiting" /\ r \notin requeued
    /\ Answered(r)
    /\ \A x \in ChildrenOf(r) : DependencySatisfied(x)
    /\ requeued' = requeued \cup {r}
    /\ UNCHANGED <<status, parent, exec, call, approving, sandbox, budget>>

Resume(r) ==
    /\ status[r] = "waiting" /\ r \in requeued /\ exec[r] = NoExec
    /\ Answered(r)
    /\ status' = [status EXCEPT ![r] = "running"]
    /\ requeued' = requeued \ {r}
    /\ Go(r)
    /\ UNCHANGED <<parent, call, approving, sandbox, budget>>

\* A running run without an execution is queued again, or failed when it has
\* had its recoveries.
Recover(r) ==
    /\ status[r] = "running" /\ exec[r] = NoExec
    /\ \E to \in {"pending", "failed"} : status' = [status EXCEPT ![r] = to]
    /\ UNCHANGED <<requeued, parent, exec, call, approving, sandbox, budget>>

----------------------------------------------------------------------------
(* Clients and the sandbox worker *)

\* POST /runs/:id/resume answers a wait that needs no confirmation, or rejects
\* one that does.
Answer(c) ==
    /\ call[c].wait = "pending"
    /\ status[call[c].run] = "waiting"
    /\ Close({c}, "resolved")
    /\ UNCHANGED <<status, requeued, parent, exec, approving, sandbox, budget>>

\* A sandbox execution ends.  The worker looks for the pending wait once: it
\* finds none while other tools of the turn keep the call from being recorded.
SandboxEnds(c) ==
    /\ c \in sandbox
    /\ exec[call[c].run].calls # {c}
    /\ IF call[c].wait = "pending" /\ status[call[c].run] = "waiting"
         THEN Close({c}, "resolved")
         ELSE UNCHANGED call
    /\ sandbox' = sandbox \ {c}
    /\ UNCHANGED <<status, requeued, parent, exec, approving, budget>>

\* A confirmation starts the remote tool; the wait is resolved when it answers.
Approve(c) ==
    /\ call[c].wait = "pending" /\ call[c].kind = "approval"
    /\ status[call[c].run] = "waiting"
    /\ approving' = approving \cup {c}
    /\ UNCHANGED <<status, requeued, parent, exec, call, sandbox, budget>>

\* A plausible bug: the late answer is written over whatever happened since.
LateAnswer(c) == Close({c}, "resolved")

\* The answer is dropped when the wait has been closed in between.
ApprovedAnswer(c) ==
    IF call[c].wait = "pending" THEN Close({c}, "resolved") ELSE UNCHANGED call

ApprovedToolEnds(c) ==
    /\ c \in approving
    /\ ApprovedAnswer(c)
    /\ approving' = approving \ {c}
    /\ UNCHANGED <<status, requeued, parent, exec, sandbox, budget>>

\* A plausible bug: the children of the run are not looked at.
CancelledAlone(r) == {r}

\* What a cancellation of r reaches: the least set with r in it and, for each run
\* in it, the live runs it delegated.
Closed(rs) == \A x \in Child : Live(x) /\ parent[x] \in rs => x \in rs
Cancelled(r) == {x \in Run : \A rs \in SUBSET Run : r \in rs /\ Closed(rs) => x \in rs}

\* A running run is asked to stop; its execution commits the cancellation.
AskedToStop(x) == IF status[x] = "running" THEN "cancelling" ELSE "cancelled"

CancelRun(r) ==
    /\ budget.cancel > 0
    /\ budget' = [budget EXCEPT !.cancel = @ - 1]
    /\ \/ /\ Live(r) /\ status[r] # "cancelling"
          /\ status' = [x \in Run |-> IF x \in Cancelled(r) THEN AskedToStop(x)
                                                            ELSE status[x]]
          /\ CloseCallsOf(Cancelled(r))
          /\ DropQueued(Cancelled(r))
       \/ /\ status[r] = "cancelling" /\ exec[r] = NoExec
          /\ status' = [status EXCEPT ![r] = "cancelled"]
          /\ CloseCallsOf({r})
          /\ UNCHANGED requeued
    /\ UNCHANGED <<parent, exec, approving, sandbox>>

----------------------------------------------------------------------------
(* Lost executions *)

Lose == budget.loss > 0 /\ budget' = [budget EXCEPT !.loss = @ - 1]

\* With the process go the executions, the confirmed tools and the sandbox
\* execution that is running, if there is one: only queued ones are taken up.
LoseProcess ==
    /\ exec' = [r \in Run |-> NoExec]
    /\ approving' = {}
    /\ \/ UNCHANGED sandbox
       \/ \E c \in sandbox : sandbox' = sandbox \ {c}

\* The process dies.
Crash ==
    /\ Lose
    /\ LoseProcess
    /\ UNCHANGED <<status, requeued, parent, call>>

\* It dies between the transaction that records the outcomes of a turn and the
\* one that suspends the run.
CrashBeforeWaiting(r) ==
    /\ Lose
    /\ At(r, "tools") /\ Suspends(r)
    /\ RecordOutcomes(r)
    /\ LoseProcess
    /\ UNCHANGED <<status, requeued, parent>>

\* A context that cannot be loaded ends the execution and leaves the run
\* running, until its lease is over.
LeaveRunning(r) ==
    /\ Lose
    /\ At(r, "turn")
    /\ Stop(r)
    /\ UNCHANGED <<status, requeued, parent, call, approving, sandbox>>

----------------------------------------------------------------------------
Scheduler(r) == Start(r) \/ Requeue(r) \/ Resume(r) \/ Recover(r)
Environment(c) == Answer(c) \/ Approve(c)
Runtime(c) == TimeOut(c) \/ SandboxEnds(c) \/ ApprovedToolEnds(c)

Next ==
    \/ \E r \in Run : Turn(r) \/ Scheduler(r) \/ CancelRun(r)
    \/ \E x \in Child : DeliverChild(x)
    \/ \E c \in Call : Runtime(c) \/ Environment(c)
    \/ Crash
    \/ \E r \in Run : CrashBeforeWaiting(r) \/ LeaveRunning(r)

Spec == Init /\ [][Next]_vars

(***************************************************************************)
(* Fairness.  The worker polls, so every decision that stays due is taken; *)
(* models and tools answer or time out; sandbox executions and deadlines   *)
(* end.  Nothing is assumed of people and of the world outside: they may   *)
(* never answer a wait, and one for something outside need not time out.   *)
(* A run has a turn or a decision due, never both; waits are closed once   *)
(* each, so that one condition serves all that close them.                 *)
(***************************************************************************)
WaitCloses ==
    \/ \E x \in Child : DeliverChild(x)
    \/ \E c \in Call : call[c].kind # "outside" /\ Runtime(c)

Fairness ==
    /\ \A r \in Run : WF_vars(Turn(r) \/ Scheduler(r))
    /\ WF_vars(WaitCloses)

FairSpec == Spec /\ Fairness

----------------------------------------------------------------------------
(* What the waits promise *)

NothingLost == budget.loss = MaxLosses

\* The model is not called while an earlier call of its run is unanswered, for
\* all the ways and orders in which several waits of a turn are resolved, timed
\* out, confirmed and delivered: the provider would be sent a tool call without
\* its output.  (An execution that is lost with its calls is another matter.)
AnsweredBeforeTurn ==
    NothingLost => \A r \in Run : At(r, "turn") => PendingOf(r) \cup OpenOf(r) = {}

\* A delegated run works only for a parent that has recorded, in a transaction
\* of its own after the one that created the child, that it waits for it.
ChildHasCaller ==
    NothingLost => \A x \in Child : exec[x] # NoExec =>
        \E c \in Call : call[c].target = x /\ call[c].wait # "none"

\* "The backend cascades to joined child runs": once a run is cancelled, or is
\* being cancelled, no run it delegated is left working or waiting.
CancelCascades ==
    \A x \in Child :
        /\ parent[x] # Nobody /\ status[parent[x]] \in {"cancelling", "cancelled"}
        /\ Live(x)
        => status[x] = "cancelling"

\* Why it holds: a call whose wait is pending is open, and the calls of a running
\* execution are its own, open, and not waited for yet.
CallsOpen ==
    /\ \A c \in Call : call[c].wait = "pending" => call[c].open
    /\ \A c \in Call : call[c].open => call[c].run # Nobody
    /\ \A r \in Run : status[r] = "running" =>
          \A c \in exec[r].calls : call[c].open /\ call[c].run = r /\ call[c].wait = "none"

\* A call is answered once: deliveries, deadlines, confirmations, people and
\* cancellations race for a wait, and whoever closed it first is not overwritten
\* (the model has seen, or will see, that answer).
AnsweredOnce ==
    [][\A c \in Call : call[c].run # Nobody /\ ~call[c].open => call'[c] = call[c]]_vars

\* A wait on a sandbox execution that has ended: the worker looks for the wait
\* once, at the end, and a slower tool of the turn may delay the wait's record.
Unheard(c) == call[c].kind = "external" /\ call[c].wait = "pending" /\ c \notin sandbox

Below(x, r) ==
    x \in Child /\ (parent[x] = r \/ (parent[x] \in Child /\ parent[parent[x]] = r))

\* A person has to answer run r, has to confirm something in it or below it, or
\* has to bring what it or a run below it waits for outside: the runtime does not,
\* and a parent is not told that its child waits for it.
NeedsAnswer(r) ==
    \E c \in Call :
        /\ call[c].wait = "pending"
        /\ \/ call[c].run = r /\ call[c].kind \in {"human", "outside", "approval"}
           \/ Below(call[c].run, r) /\ call[c].kind \in {"outside", "approval"}

\* The end of a sandbox execution of r, or of a run below it, went unheard.
NeedsSandbox(r) ==
    \E c \in Call : (call[c].run = r \/ Below(call[c].run, r)) /\ Unheard(c)

\* What a lost execution leaves to no one: a tool execution that is open, is not
\* waited for and is not in a turn of its run, and a cancellation in progress.
NeedsLost(r) ==
    \/ \E c \in Call :
          /\ call[c].run = r \/ Below(call[c].run, r)
          /\ call[c].open /\ call[c].wait = "none" /\ c \notin exec[call[c].run].calls
    \/ \E x \in Child : Below(x, r) /\ status[x] = "cancelling" /\ exec[x] = NoExec

\* A run does not wait for ever unless a person, the world outside, an unheard
\* sandbox execution or what a lost execution left keeps it: a child suspended on
\* anything else is reported to its parent, and no run is suspended for ever on
\* runs and tools that have ended, or in a circle of runs and jobs.
WaitsEndUnlessLost ==
    \A r \in Run :
        []<>(status[r] # "waiting" \/ NeedsAnswer(r) \/ NeedsSandbox(r) \/ NeedsLost(r))

\* "runtime startup reconciliation resumes waiting runs whose last wait was
\* already resolved": nor does a lost execution keep a run waiting.
WaitsEnd ==
    \A r \in Run : []<>(status[r] # "waiting" \/ NeedsAnswer(r) \/ NeedsSandbox(r))
=============================================================================
