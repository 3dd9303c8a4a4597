# Specifications of the wonderlands runtime

This directory holds TLA+ specifications of the wonderlands server and its client:
how a run is scheduled, leased, executed, suspended, recovered and cancelled; how
scheduled tasks fire; how a sandbox execution runs and writes back; how requests
that start runs are made idempotent; how a committed event reaches the lanes that
consume it and the reader of a thread; and how the client's store keeps up with
all of it. TLC checks them on small instances, and TLAPS proves the main safety
properties of the server's part for every value of the constants.

Source paths below are relative to `apps/server/src/` unless they start with
`apps/client/`. `PROJECT.json` has, for every definition, the lines it models.

To check a model: `tlc -config MCRunScheduler.cfg MCRunScheduler.tla`.
To check the proofs: `tlapm RunSchedulerProofs.tla`.

## The system

The server is one Node process on one SQLite database with a synchronous driver.
What a handler does between two awaits is therefore atomic, and so is a
`withTransaction` callback. Everything hard comes from what happens *at* the
awaits (model calls, tools, HTTP), from timers, from the process dying, and from
state that is spread over several rows or several transactions.

| Component | State | Operations | Talks to |
|---|---|---|---|
| Run scheduling and execution (`application/runtime/scheduling`, `execution`) | `runs`, `jobs`, `run_claims`; in memory: the drains, the active-run registry, heartbeat timers | decide (execute, resume, requeue, recover, fail), turn loop, heartbeat, execute and cancel commands, startup pass | waits (a run suspends and resumes), events, the client |
| Waits, delegation, cancellation (`application/runtime/waits`, `application/agents`) | `run_dependencies`, `tool_executions`, `job_dependencies`, the run tree | tool outcomes, suspension, delivery to the parent, timeouts, answers, confirmations, cancellation of a subtree | the scheduler, the sandbox worker, MCP |
| Scheduled agent tasks (`application/agent-tasks`) | `agent_scheduled_tasks`, `agent_scheduled_task_runs` | scan, claim, queue, skip, fail, recover; create, pause, resume, update, delete, run now | the scheduler (each occurrence starts a root run) |
| Event stream (`application/events`, `adapters/http/routes/v1/event-routes.ts`, `apps/client/src/lib/services/sse.ts`) | `domain_events`, realtime rows of `event_outbox`, relay subscriptions, the reader's `lastEventId` | append, publish, replay, follow, reconnect, renew | every component that commits an event; the chat store |
| Event outbox (`application/events/outbox-worker.ts`, `application/polling-worker.ts`) | `event_outbox` rows with attempts and delays, the worker's timer and wake flag | claim, dispatch, complete, retry, quarantine, replay, recover | the projections, naming, trace export |
| HTTP idempotency (`adapters/http/idempotency.ts`), recovery by command (`application/runtime/persistence/run-command-recovery.ts`) | `http_idempotency_keys` | begin, take over, record progress, complete, replay, recover, abandon | the thread commands, the runs |
| Sandbox executions (`application/sandbox`) | `sandbox_executions`, their jobs, `sandbox_writeback_operations`, files of the vault | queue, claim, stage, run, promote, review, confirm, commit | waits (the call is answered) |
| Thread commands (`application/commands`) | sessions, threads, messages, root runs and root jobs | start, post, reuse, edit, branch, delete | the scheduler, HTTP idempotency |
| Client chat store (`apps/client/src/lib/stores`, `lib/chat`) | the shown run with its epoch, timer, polls, replay guard, submission, cancellation and load in progress | apply events, poll, submit, cancel, reopen | the event stream, the commands |
| Naming, projections, Garden builds, MCP gateway, Kernel browser, AI providers, context and memory, files, agents and access | rows of their own, or none | see `PROJECT.json` | mostly called by the turn loop |

### What is hard, and what makes each part correct

**Scheduling.** An execution awaits a model and its tools between the read of its
run and every write of it. Meanwhile the lease may run out (the event loop
stalls, the machine sleeps), another drain may recover and restart the run, a
client may cancel it, the process may die. Several executions of one run can be
alive at once. Correct means: at most one of them can still commit; the run and
its job, two rows written by two repositories, always form a pair that readiness
has a decision for; a cancel reaches the execution it is meant for; nothing
disturbs a finished run; a run that is due is not forgotten.

**Waits.** A turn may wait on several answers at once, given by different actors:
a child run that ends, a child that is itself suspended, a deadline, a person, a
sandbox execution, a cancellation. They arrive in any order, and some race for
the same wait. The outcomes of a turn and the suspension of its run are separate
transactions. Correct means: the model is called again only when every call is
answered; an answer is not overwritten; a cancelled parent leaves no child
behind; no run waits for something that has already happened.

**Tasks.** A firing consists of commits that a crash can separate. Correct means:
one attempt per instant; the schedule moves on from every instant; a decided
occurrence keeps its outcome; an active task has a next instant; the overlap
policy holds.

**Stream.** The handler subscribes to the relay, replays the log with an await per
event, and then follows the subscription. The relay drops whatever is at or below
its cursor. Correct means: each matching event once, in order, none left out,
across lost connections, renewals and crashes.

**Outbox.** A wake may arrive at any point of a run of the worker. A dispatcher may
throw and a final write may fail. Correct means: no entry waits for the poll when
it was announced; an entry is stranded only by such a fault, and until the next
start; attempts are bounded; every other entry is exported or quarantined.

**Sandbox.** The worker, reviews, confirmations and commits of write-backs all await
file operations and interleave; a result may come before its wait. Correct means:
no reviewed operation touches the vault without a person's word; rows tell the
truth about files; execution and job agree; a waiting run's execution is on its way.

**Requests that start runs.** A key's row, the command and the answer are separate
commits; a request may outlast the five minutes of its row, be repeated, be taken
over, or die. The commands rewrite messages, runs and one root job per thread.
Correct means: a key makes one run and gives one answer; no key is stuck; an active
run is always the current run of its thread's job; nothing refers to a deleted run.

**Client store.** Events, polls, answers of submissions and cancellations, and loads
are each awaited and applied to whatever is on screen by then. Correct means: a run
shown as going on is being watched; late answers do not revive what was shown to
end; news arrives even if the stream is silent; events of one run do not disturb
the submission of the next.

## The modules

    RunLifecycle          what the scheduler promises of one run
      ^ implemented by
    RunScheduler          one run, its job, its lease, the drains that execute it
      MCRunScheduler      constants for TLC; RunSchedulerProofs
    RunWaits              a tree of runs, their tool calls and waits
      MCRunWaits          constants for TLC; RunWaitsProofs
    AgentTasks            a scheduled task and its occurrences
      MCAgentTasks        constants for TLC; AgentTasksProofs
    EventLog              what the stream promises its reader
      ^ implemented by
    EventStream           outbox lane, relay, handler, connection, consumer
      EventStreamProofs
    EventOutbox           the observability lane and its polling worker
      EventOutboxProofs
    SandboxExecutions     the sandbox worker, write-backs, reviews and commits
      MCSandboxExecutions constants for TLC; SandboxExecutionsProofs
    ThreadCommands        threads, messages, runs and root jobs, and their commands
      ^ extended by
    ThreadRequests        idempotency keys, the requests that carry them, crashes
      MCThreadRequests    constants for TLC; ThreadRequestsProofs
      | implements
      v
    KeyedRuns             what a key promises the clients that use it
    ChatStore             one conversation of the client, over a reduced backend
      ChatStoreProofs

The modules meet at narrow points, and each models the other side as the choice
it looks like from its own:

- `RunScheduler` suspends a run and sees a Boolean, `waiting`, turn false;
  `RunWaits` says what waits there are and how the last one is resolved.
- `RunWaits` gives a run at most one execution and lets it be lost; `RunScheduler`
  shows that at most one execution can commit, which is what justifies that.
- An occurrence in `AgentTasks` starts a run that is active and ends sometime.
- `SandboxExecutions` sees of a run whether it waits for the call yet; `RunWaits` sees of
  an execution that it ends sometime, also before its wait is recorded.
- `ThreadCommands` lets a queued run start, wait and end at any moment and writes its
  job with it, as `JobAgrees` of `RunScheduler` says; it has many runs and jobs, where
  `RunScheduler` has one.
- `ThreadRequests` composes the commands with the requests: the two share the rows of
  threads, messages, runs and jobs, and a request's `Commit` is a command.
- `ChatStore` has of the backend the status of each run, the log of its events and the
  one-active-run rule. That the log is received in order without gaps is what
  `EventStream` shows.
- `EventStream` and `EventOutbox` take one lane of the outbox each. The first
  needs the order of claims and no delays (the realtime lane never fails a
  dispatch); the second needs attempts, delays and the timer.

Operators whose comment begins "A plausible bug" are not used by any action. Each is
a wrong version of the definition below it, with which some property has been
seen to fail.

### RunScheduler and RunLifecycle

One run with its rows and its executions.

| Variable | In the code |
|---|---|
| `run` | `runs.status`, `runs.version`, `staleRecoveryCount` |
| `job` | `jobs.status`, time to `nextSchedulerCheckAt`, time since `lastHeartbeatAt` |
| `claim` | the `run_claims` row: worker id, time to `expiresAt`, and the acquisition (`acquiredAt`), named by the drain that made it |
| `waiting` | the run has pending `run_dependencies` rows |
| `proc` | the process and the worker id of this incarnation (`workerId` is random per start) |
| `exec` | each drain: idle, or where its turn loop is, the version it loaded, its abort signal, its heartbeat timer |
| `active` | the drain registered in `active-run-registry.ts` |

A *drain* is a loop that picks a due decision and processes it: the polling
worker, or an HTTP request that waits for a run. A drain that starts a run is
busy with it until the turn loop returns, so a drain is also an execution.
`Decide` has one disjunct per scheduler action; `Step` has one per continuation of
the turn loop; `Heartbeat` is the interval of `claimRunAndExecute`. The order of
decisions (`evaluateJobRunReadiness`) does not matter for one run, whose conditions
exclude each other.

Time is relative: a stored timestamp is its distance to the clock, clamped where
the code no longer tells the values apart, so there is no bound on the clock.
`Tick` passes a unit only when no heartbeat is overdue; `Stall` passes up to a
lease and more at once, without regard to heartbeats.

`Conflict`, `Converge` and `FinalizeCancelled` are the way a write that lost its
race winds down: it polls for a durable state, or commits the cancellation that a
command asked for, and then deletes the worker's claim whoever acquired it.

`RunLifecycle` is the same run without leases, time or jobs: a register written
under a version guard, held by at most one execution. `ImplementsLifecycle` maps
the holder to the current execution.

### RunWaits

The run tree has a root and delegated runs; tool calls are numbered in the order
they are made. `call` is at once the `tool_executions` row and the
`run_dependencies` row of a call; `sandbox` and `approving` are work under way for
a call outside the run. One action per transaction: `CallTools` records the calls
and starts the tools (a delegation commits its child there); `ToolsAnswer` and
`ToolsWait` record outcomes; `DeliverChild`, `TimeOut`, `Answer`, `SandboxEnds`,
`Approve`/`ApprovedToolEnds` close waits; `Requeue` and `Resume` are readiness for
a waiting run; `CancelRun` cancels a subtree. `CrashBeforeWaiting` is the crash
between the two transactions of `ToolsWait`. `Cancelled` is the recursion of
`cancelRunSubtree` written as a least set, which is also what its proof uses.

`suspend_run` accepts four targets. An answer of a person, an upload and an MCP operation
are waits of one kind to the code, told to the parent when a child is suspended on them:
`human`, or `timed` with a timeout. A wait on an `external` target is not told
(`waits/delegated-child-waits.ts:13`, which means the sandbox tool's waits, and those have a
worker that resolves them); nothing in the runtime answers one of `suspend_run` but its
timeout, if it has one. This is the kind `outside`. A run may therefore wait for ever on
something external, and its parent with it.

### AgentTasks

One task, its schedule as a set of instants (cron expressions are a conversion
that the model replaces by its result), the rows of its occurrences in order of
creation, and the firing in progress. Firing is synchronous, so no command
interleaves (`Quiet`), but each commit is a step and `Crash` may come between any
two. The clock moves in between as well.

### EventStream and EventLog

`log` and `row` are the committed events and their realtime rows; `lane` is the
entry published and not yet completed; `sub` is the relay's subscription; `handler`
is the stream request with its cursor and page; `wire` is what has been written
and not received; `client` is the reconnecting consumer. The handler subscribes
and reads its first page before it first awaits, so `Connect` is one action, and
each written event is an action, as each write is awaited. Pages have any size.
`EventLog` shows each matching event once, in order; `ImplementsLog` maps what it
has shown to the consumer's `lastEventId`.

### EventOutbox

`row` has status, attempts and the time until an entry is available; `lane` is the
polling worker: timer, wake flag, and the run in progress. `Claim`, the three ends
of a dispatch, `NothingLeft` and `EndRun` are the steps of a run, separated by the
awaits of `processOnce` and of the polling loop. A write at the end of a dispatch
may fail (`Leave`), and a dispatcher may throw (`DispatchThrows`, which leaves the
loop's catch to schedule the next run). Replays are those of an operator,
`enqueueReplay` and `replayQuarantined`.

### SandboxExecutions

`exec`, `job`, `call` and `wb` are the rows of an execution, its job, the tool call
that queued it and its file operations. `worker` is the polling worker with the
await it is at; the committers are concurrent calls of
`commitApprovedWritebacks`, started by an answered confirmation or the HTTP route.
`Perform` and `Mark` are the file operation and its row, with the await between
them. Files are reduced to whether an operation was never performed, performed
once, or again. `excused`, `early` and `orphaned` are histories that name the
exceptions the properties make: overlapping commits, an error half-way or a crash
for `DiskAgrees`; a result before its wait; an execution held at a crash.

### ThreadCommands and ThreadRequests

`thread`, `transcript`, `run` and `job` are the tables the commands of
`application/commands` write, each command one transaction and one action. A run's
own steps (`StartRun` to `FailRun`) stand for the scheduler. `EditThreadMessage` is
refused when a message that stays refers to a run that would be deleted (a foreign
key), which is `Unreferred`.

`ThreadRequests` adds the row of each key and the requests at hand. A key is for an
interaction with an existing thread, answered at once, or for a new session whose
run the request executes and waits for. `Begin` starts a row or takes one over;
`RecordProgress`, `CompleteOrReplay` and `Abandon` address it by identity (`Holds`).
`Occupies` marks the stretch between a command's start and its next await, during
which nothing else runs. `late` is the request's clock, read when it arrived. `made`,
`answered` and `lapsed` are histories.

`KeyedRuns` has only these histories: a key makes a run while it is unanswered, and a
further one only if it may have forgotten the one it made; a run is made under one key;
the first answer names a run of the key and is repeated for good. `ImplementsKeys` maps
the histories to themselves, so what it adds to `OneRunPerKey` is the order of things:
no run is made after an answer, however late a request arrives or wakes up.

### ChatStore

`ui` is the store: the shown run and its epoch, what was let go of last, the
streaming and waiting flags, the cursor, the reconciliation timer with its lease, the
polls in flight with the snapshot they will bring, and the replay guard. `submit`,
`cancel` and `load` are the operations in progress, and `mending` holds the recoveries of
failed submissions. A submission that throws is over at once: `submit` returns its recovery
without awaiting it, so its `finally` ends the streaming state first (`Throw`). The
recovery then reads the messages and resets the run (`RecoverFailure`); the user may have
submitted again, and that run may have been accepted, before it does. A poll reads the run when it is
sent, and its answer may come at any later time. The operators on `c` (`SetActiveRun`,
`FinalizeRun`, `SyncRunState`, `IngestEvent`) are the functions of the runtime; actions
apply them. `left` bounds all incidents together: later submissions, cancellations,
reopenings, failed requests, broken streams. Epochs only tell leases apart, so the next
one (`NextEpoch`) is any number that no lease in flight has, taken from as many as there
can be of them, and the counter of the code needs no bound. An answer to a poll that a
submission awaits goes on with that submission only (`Rescues`): a submission closed
meanwhile, or a later one, does not hear of it.

## The runs

States are distinct states found. Runs named *violation* have one property, taken
from a document, comment or test, that the code does not keep.

| Run | Question | States | Bounds |
|---|---|---|---|
| `scheduler` | Can two executions commit, run and job disagree, a cancel miss? Is it `RunLifecycle`? Until a stall: is a live execution left alone, and its claim its own? Does every due run settle and every answered wait resume? | 346,746 | 2 drains, lease 3, 2 turns, 2 recoveries; 1 crash, 1 stall, 2 commands, 1 suspension; root run |
| `cancel_crash` | *violation*: does the cancellation of a streaming run converge? | 1,722 | 1 crash, 1 command |
| `waits` | Answers, calls, children and cancellations in a tree; does a waiting run go on unless a person or the world outside must act, or something was lost? | 793,850 | a root, 2 children, all kinds of calls, 3 of them, 2 in one turn; 1 lost execution, 1 cancel |
| `orphan_calls` | *violation*: does a run with an open call of a crashed turn resume? | 1,095 | 1 child, 3 calls, 1 lost execution |
| `tasks_schedule` | One attempt per instant, policy, outcomes, progress | 326,251 | 6 instants, 2 schedules, 2 crashes, 1 manual run, 1 edit |
| `task_overlap` | *violation*: does at most one run of a task run? | 1,470 | 8 instants, 1 schedule, no crash |
| `event_stream` | Does the reader see the log, in order, all of it? | 143,594 | 3 events, 2 drops, 1 crash, consumer gives up after 2 failures |
| `event_outbox` | Are wakes kept, entries settled, attempts bounded? | 179,797 | 3 entries, batch of 2, 2 attempts, delay 2; 1 replay, 2 faults, 1 crash |
| `sandbox` | Consent, truth of the rows, mirrors, results heard, executions end | 392,242 | 2 executions, 1 reviewed operation, 2 commits, 1 crash |
| `thread_requests` | One run and one answer per key, no key stuck, runs, messages and jobs bound to each other | 268,020 | 3 threads, 2 runs, 3 messages; 1 key, 2 requests, 2 rows, 2 other commands, 1 crash |
| `chat_store` | Is a shown run watched, does an ended one stay ended, does news arrive? | 816,225 | 2 submissions, 3 events before runs may only end, 1 timer poll in flight, 2 incidents |
| `late_events` | *violation*: do late events of a run leave the next submission alone? | 8,334 | as `chat_store` |

The numbers of states of the *violation* runs are those found before the counterexample,
which in `late_events` differs a little from one run of TLC to the next.

**Why the bounds are enough.** Two drains are what it takes to have an old and a
new execution, and a third only repeats the part of the old one; the lease of
three beats of one unit lets one beat be missed and the next keep the claim. One stall
and one crash already make a superseded execution and a lost one. Two children
give a grandchild as well as two siblings, and two calls in a turn give two waits
of a run. Two crashes reach a crash during the recovery from a crash. Three events
give one before, one during and one after the moment a handler turns from replay
to following. A batch of two with three entries makes a run end at its limit. Two
sandbox executions make one wait for the worker; one operation under two commits is
performed twice, and a reviewed one has all the verdicts. Two requests of one key
are what it takes to take a row over from a live request, two rows to delete a row
and begin another, two runs to make one too many, and three threads to have a branch
beside a new session. In the client one late poll, one other incident and a second
submission make all the overlaps that the leases are for; the counterexample of
`late_events` needs two runs and eleven steps.

All safety properties of the runs are proved for every value of the bounds (`InFlightKept`
and `OwnershipUntilExpiry` for every lease longer than a heartbeat). So the bounds matter
for liveness and for the violations only.

**Symmetry.** No run uses it: all passing runs check liveness, for which it is unsound.

**Deadlock.** `scheduler`, `cancel_crash` and `event_outbox` check it: time always passes. It is
not checked where the system may stop by right: a tree of runs ends, a bounded
clock runs out, a log of three events has been read, requests and executions are done.

### Fairness

- `RunScheduler`: the polling loop polls (`Decide(WorkerLoop)`), timers and
  continuations of the event loop run (`Step`, `Heartbeat`, `Tick`), provider and tool
  calls end because they carry timeouts, and a supervisor restarts the process
  (`Restart`, `EndStartup`). No client has to do anything, no wait has to be resolved,
  and no request drain has to decide.
- `RunWaits`: each run goes on, by its turn or by a decision that is due; waits that the
  runtime closes (a child's result, a deadline, the end of a sandbox execution, the answer
  of a confirmed tool) are closed, one after the other. People and the world outside never
  have to act, and a wait on something external need not have a timeout: `WaitsEnd` and
  `WaitsEndUnlessLost` therefore except runs that need them, or that wait on a child that
  does and cannot be told (`NeedsAnswer`). Both say that each run is again and again not
  waiting or excepted, which is what it means that no wait without an excuse lasts for ever.
- `AgentTasks`: the worker polls and the clock moves. Runs may last for ever.
- `EventStream`: the lane, the handler, the connection and the consumer go on. No
  event has to be appended, no deadline reached.
- `EventOutbox`: the worker runs, dispatches end (the exporter has a timeout), time
  passes.
- `SandboxExecutions`: the worker polls, and what it runs ends (the runner has a timeout).
  No person has to review, no commit to go on.
- `ThreadRequests`: clients repeat a request until it is answered, a request's next step
  is taken, time passes. Of runs nothing is assumed: a request gives up on one by
  itself.
- `ChatStore`: timers fire and requests are answered or fail. Nothing is assumed of the
  stream, of runs or of people, so `NewsArrives` holds by polls alone.

All of it is weak fairness: each action, once due, stays due until it is taken or
has lost its purpose.

## What is proved

All theorems hold for every value of the constants that the assumptions allow:
naturals, with a few that must be positive, and any sets of drains, runs, calls,
schedules, executions, operations, threads, keys and requests. `DelayAssumption` says
that a power of two times a natural is a natural; the prover has no theory of
exponents, and TLC evaluates it in each run.

**RunSchedulerProofs.** `TypeCorrect`; `AtMostOneCommits`, `CancelReaches`,
`SupersededStays`, `JobFollowsRun`, `TerminalStays`, `Implements`; `HeartbeatsKeepTheRun`,
`ClaimsPreserveOwnership`. `OneCurrentExecution` is not inductive: two executions might
carry versions ahead of the row. The invariant is `Fenced`: no live execution is ahead of
the row, no two carry the same version, the current one is registered, and the execution a
cancelling run was taken from has its abort signal. Its proof needs the *shape* of a step
only: a step either starts one execution with a new version, or is quiet, in that no
execution appears or changes its version and the row's version does not fall. The same
shapes give `SupersededStays`, with `Behind`: an execution carries the version of the row
only while the run is running, so one that has lost the run never gets it back. `RowStep`
plays the same part for `JobAgrees` and `TerminalIsFinal`: each step moves run and job along
an edge of one graph. The refinement uses the fence for the uniqueness of the holder.

The two theorems on the lease assume `BeatsInTime`, that a heartbeat comes before the lease
expires. The code beats every third of the lease but not more often than every 25 ms
(`action-support.ts:103`), and `MULTIAGENT_LEASE_TTL_MS`, 30 s by default, is not checked
against that: with a lease of 25 ms or less the claim expires before it is first renewed,
and both properties fail. The invariant is `InFlight`, which holds until the first stall:
an execution in flight is alone, registered, still current or cancelled, and owns the claim
of its worker, which has exactly `LeaseTtl - BeatEvery + beatIn` to go. It is this equation,
and not `left > 0`, that a tick keeps and a heartbeat restores; with it nothing is due
for any other drain (`DecideWhenFree`).

**RunWaitsProofs.** `WaitsTypeCorrect`; `CancellationCascades`: the set `Cancelled`
is closed under "live child of", being the intersection of all closed sets, and
no action revives or creates a child of a cancelled run; `PendingAreOpen`: `CallsOpen`
is inductive once it includes the calls of running turns; `AnswersStay` follows
from it, as every action closes calls that are open, or pending and therefore open.
`TurnsAreAnswered` and `ChildrenAreCalled` hold only while no execution has been lost, and
so does their invariant `NothingForgotten`. `Settled`: a run that is about to start or in a
turn has no open call, one at its tools has none but those of the turn, and a running run has
an execution. `Called`: a child that has started is waited for by a call that names it, and
one that is still pending is so too, or its parent is at the tools with such a call in hand.

**AgentTasksProofs.** `TasksTypeCorrect`, `ActiveTasksRun`, `OneRowPerOccurrence`,
`PolicyHolds`, `OutcomesAreFinal`. The strengthening is `InFlight`: the row of a
firing that has claimed is the last one and still undecided.

**EventStreamProofs.** `StreamTypeCorrect`, `NothingIsSkipped`, `WireInOrder`,
`StreamImplementsLog`. The invariant has two halves that meet where the handler
turns from replay to following. `PageIsNext`: a page is the beginning of what the
log holds after the cursor. `QueueInOrder` and `NothingSkipped`: what waits in the
subscription is ordered and below its cursor, and what is neither written nor
waiting will still be published and taken. `LaneHolds` ties the lane to its row.
`WireContinues` follows, and with it each event received is the next of the log.

**EventOutboxProofs.** `OutboxTypeCorrect`, `WakesAreKept`, `TriesAreBounded`,
`FaultsStrand`. A pending entry is available and was never tried
(`PendingAvailable`), an entry that may be claimed again has attempts left
(`TriesLeft`), and the row in the lane's hand is in processing (`InHand`). `WakeDue`
extends the wake to a run that is about to end: if an entry is pending there, the
run ends with the flag set or after progress. `StrandedByFaults` counts: each step
strands at most one row, and then has used up a fault.

**SandboxExecutionsProofs.** `SandboxTypeCorrect`, `ConsentBeforeEffect`, `RowsTellTheTruth`,
`JobsMirror`, `ResultsHeard`, `AnswersAreFinal`. There are two independent invariants.
`WorkerInv` ties the worker's place to the execution it is on, and states what
`ResultHeard` says for calls whose run is yet to be suspended too. `VaultInv` ties each
operation to the commits that hold it: what is held or approved is allowed, and,
unless excused, it is in one commit's hands at a time and its row and its files agree
but for the stretch between the file operation and its row.

**ThreadRequestsProofs.** `Types`, `JobsFollow`, `MessagesAreBound`, `KeyMakesOneRun`,
`AnswersNameOneRun`. For the commands the invariant is `ThreadInv`: `JobFollowsRun` and
`MessagesBound` need each other (an edit deletes the runs of the messages it removes,
so a job may only name runs of its own thread), and `Placed`: a run that is there
belongs to a thread that is there. Each command has a lemma; a deletion uses only
that a thread goes as a whole, so nothing about the recursion in `Subtree`. For the
keys the invariant has two parts. `Keeping` holds always: the answers given are the
one a completed row holds, and whatever rows and requests name was made under the key.
`Remembering` holds until a key's memory lapses: an empty row means nothing was made,
a recorded run is the only one made, and a run not yet recorded is in the hands of the
one request that committed it. `OneTurn` says that a command's stretch is not
interrupted, which excludes a second request from beginning beside it. `KeysAreKept`, the
refinement of `KeyedRuns`, adds `KeyInv`: a run made under a key is never unused again, so
no other key can make it, and a request at its command has its row in progress even when
the key has forgotten a run, so the key is unanswered. Each action then is a `Make`, an
`Answer`, a `Lapse` or nothing.

**ChatStoreProofs.** `ChatTypeCorrect`, `RunsAreWatched`, `EndsStay`. Neither `Watched` nor
`EndedStaysEnded` says what a late answer can do, and that is what the invariant is about.
`LeasesBound`: a lease with the view and the epoch on the screen is a lease of the run on the
screen, so an answer that counts is about what is shown; the exceptions are polls of a run
that was shown to end, and the one its submission awaits. `FreshEpoch` supplies that a new
epoch is one that no lease has. `Attended` is narrower than `Watched`: only the timer and its
own polls count, or the run was just named by a first event that shows nothing, while its
submission is posted or has thrown. `Listing`: what is being opened shows nothing,
and no earlier lease counts in it. `Rescued`: runs are started in order and each has one
rescue at most, so a poll cannot go on with a submission that is not its own. The rest ties
the log, the store and the operations in progress together (`LogAgrees`, `StoreAgrees`,
`LeasesAgree`). There is a lemma for each operator on the store, which says what it changes,
and one for each action and part of the invariant it can disturb.

This proof is where two places of the model were found to be wrong: epochs were taken from
too few numbers when there are many polls, and an answered rescue went on with whatever
submission was there. Both are as the code has them now, and neither changed a result of TLC.

**Model-checked only.** Liveness, with the fairness it stands on, is out of the prover's
reach: `RunSettles`, `WaitsResume`, `WaitsEndUnlessLost`, `ScheduleMovesOn`, `EventsSeen`,
`EntriesSettle`, `ExecutionsEnd`, `KeysSettle`, `NewsArrives`. All other properties of the
passing runs are proved. Conversely, `TerminalIsFinal`, `LostForGood`, `CallsOpen`,
`WireContinues`, `AnsweredIsFinal`, `AnswersAgree` and the types of most modules are proved and
not part of a run.

## What was found

Four statements of the repository's documents, comments and tests are refuted by
the code; the lines are in `PROJECT.json` under `findings`.

1. **A cancellation may not converge** (`cancel_crash`). Readiness has no decision for
   a cancelling run. A run is cancelled while it streams, and its execution gets the
   abort signal; if the process dies before that execution finalises the cancellation,
   the run stays cancelling, over restarts and polls, until somebody cancels it again.
   The trace of TLC is this: start, cancel, streaming with the signal, crash, restart, end
   of the startup pass, and time that passes for ever. The test that says "converges" does
   so of a process that lives on. (A run that is cancelled after its process died, or whose
   execution returns on a context error, is left in the same way; the property speaks
   of streaming runs only, as the test does.)
2. **Late events end the stream of the next submission** (`late_events`). A poll may
   show a run to have failed before the stream has brought its events. When they
   arrive, the next submission is posted and no run is bound, so the old run is bound
   again, and its failure ends the stream the new run was to be followed on.
3. **An orphaned call blocks a run for good** (`orphan_calls`). A crash among the tools
   of a turn leaves their executions open; the recovered run makes new calls,
   suspends, is answered, and is never resumed because the old ones are still
   incomplete.
4. **The overlap policy forgets a skipped occurrence's reason** (`task_overlap`). It
   looks at the latest row only; after a skip that row has no run, and the next
   occurrence starts beside the one that is still running.

Not stated anywhere as a promise, and therefore part of the models and not
findings:

- `releaseClaim` and `renewClaim` look at run and worker id. After a stall, a
  superseded execution that winds down releases the unexpired claim of its
  successor in the same process. `OwnershipUntilExpiry` is checked without stalls for
  this reason; `OneCurrentExecution` shows that no write is lost by it.
- A lease of 25 ms or less would expire before its first heartbeat, as the interval has a
  floor of 25 ms and the configured lease has none.
- A sandbox execution that ends before a slower tool of the same turn has answered
  finds no wait to resolve, and nobody looks again. `WaitsEnd` excepts such runs
  (`NeedsSandbox`).
- A running sandbox execution is not taken up after a restart.
- A process that restarts within its lease must wait for its own old claim, because
  its worker id is new.
- `executeRun` queues the job at once, past a recovery backoff.
- The recursion of a cancellation stops at a terminal run, and a run may complete while
  a run it delegated is suspended: that grandchild of the cancelled run goes on.
  `CancelCascades` speaks of direct children.
- A request for a new session gives up on a run that fails or takes longer than it
  waits, and deletes its row. The repeated request makes a second session: `lapsed`.
- An edit is refused for good when an earlier message refers to a run it would delete: a
  message posted during a run, whose answer then comes after it, cannot be edited.
- A post reopens the root job of an idle thread, which then cannot be branched until
  the next interaction has ended.
- `recoverFailure` resets the run of the store unconditionally, also when another
  conversation has been opened, or another message submitted, while it read the messages.
  If the run of that message was accepted meanwhile, the client lets go of it: it goes on
  in the backend and its events are not shown until the conversation is opened again. No
  property of `ChatStore` speaks of it, as they are about runs that are shown.
- A child that `suspend_run` suspends on an external target is not reported to its
  parent and has no worker: unless it has a timeout, both wait until somebody answers
  the child's wait or cancels.
- A snapshot read under the lease of a run that was shown to end binds it again, with a
  timer whose lease does not count; such a run may be shown as cancelling for ever.
  `Watched` and `NewsArrives` except the runs in `shut` for this reason.
- An outbox row that a fault leaves in processing is not touched by a replay and
  waits for the next start. The durable lane, unlike the observability lane, never
  gives up, and one entry that always fails keeps the later ones waiting.

## What is not modelled

`PROJECT.json` lists every component with its reason. In the modelled ones:

- *Scheduling*: event payloads, context assembly (its failure is there), the reopening
  of a thread's root job by a new message, several runs competing for the batch of a
  poll.
- *Waits*: the content of answers, remembered approvals (they skip the wait), the two
  sandbox confirmations (the same transaction as an MCP one), graphs deeper than the
  children given.
- *Tasks*: several tasks in one scan, the scan's limit, deletion of the agent, time
  zones and cron parsing.
- *Stream*: the predicates of scopes and categories (an event is of the reader's or is
  not), parsing of frames, streams that do not follow, a request with `limit=0`, the
  growth of a subscription whose reader is slow.
- *Outbox*: the durable lane, and stopping a worker in a run, which happens at shutdown
  only.
- *Sandbox*: an execution whose scope cannot be resolved, which the worker skips at each
  poll for as long as the lookup fails (`application/sandbox/sandbox-worker.ts:549`), so
  that `ExecutionsEnd` is about executions whose scope is found; packages, output, paths and the promotion of single files, executions that
  are queued outside a run.
- *Threads and requests*: renaming and naming, empty sessions and threads created later
  on, attached files, runs of delegated children, the routes that repeat a command on
  an existing run (they record no progress), keys reused with another body. That the
  branches of a deleted thread go with it is in the model and in no property.
- *Client*: restoring a stored session at start, answers to waits, edits, conversations
  other than the one shown, child runs, the settling delay of synchronous answers, events
  that only draw. A poll's answer is what the backend said when it was asked. `LoadThread`
  reads the messages and the run of the opened conversation and applies them in one step,
  where the code awaits them one after the other. The
  messages are refreshed when a submission closes, a load ends, a cancellation reads
  them, an end is polled or a failure is recovered, not at each posted message. A
  failed or cancelled run is taken to leave no message. One cancellation is in progress
  at a time, and an epoch that no lease has may be used again.
- *Errors of the database* are left out except for the final write of an outbox entry:
  `withTransaction` commits when its callback returns an error result, so a failing
  second write would keep the first. No reachable state with such a write is known.

## Plan

What would follow, most important first.

1. The durable lane as a parameter of `EventOutbox` (no quarantine, delays that do not
   count attempts), with the naming service behind it: a title is read before and
   written after a model call, and a person may rename the thread meanwhile.
2. `SandboxExecutions` composed with `RunWaits` in place of its set `sandbox`, so that an
   early result is followed to the run it keeps waiting.
3. `TaskScan`: several tasks and the limit of a scan; does a task with a held claim crowd
   others out?
4. Garden's auto-build worker: debounce, a change during a build, publication of the
   latest successful build only.
5. The stored session of the client and the answers to waits in `ChatStore`.

Theorems to add: with item 2, that a sandbox execution implements what `RunWaits` has in its
place; an abstract specification of the outbox (an entry is dispatched at least once or
stranded by a fault) and of a task (an instant is attempted once, skipped or passed), each
with its refinement; the safety properties of items 1 and 3.
