----------------------------- MODULE EventStream ----------------------------
(***************************************************************************)
(* The way of a committed event to one reader: the outbox row written with *)
(* it, the realtime lane of the outbox worker, the in-memory relay with    *)
(* the reader's subscription, the handler of GET /events/stream that       *)
(* replays the log and then follows the subscription, the connection, and  *)
(* the reconnecting consumer of the client (application/events,            *)
(* adapters/http/routes/v1/event-routes.ts, client lib/services/sse.ts).   *)
(*                                                                         *)
(* Events are their numbers.  A page is read in the order of the numbers   *)
(* and is a set of them; what waits in the subscription and on the         *)
(* connection is a sequence.                                               *)
(***************************************************************************)
EXTENDS Integers, Sequences

CONSTANTS
    MaxEvents,             \* bound: committed events
    MaxReconnectAttempts,  \* failures in a row before the consumer gives up
    MaxDrops,              \* bound: connections lost or refused
    MaxCrashes             \* bound: crashes of the server

ASSUME StreamAssumption ==
    MaxEvents \in Nat /\ MaxReconnectAttempts \in Nat /\ MaxDrops \in Nat /\ MaxCrashes \in Nat

VARIABLES
    log,      \* number of events in domain_events
    mine,     \* those that match the reader's scope and category
    row,      \* status of the realtime row of each event in event_outbox
    lane,     \* the entry the lane has published and not completed, 0 if none
    sub,      \* the relay's subscription: afterCursor and pending
    handler,  \* the stream handler: where it is, its cursor, the rest of its page
    wire,     \* written and not yet received
    client,   \* the consumer: connection, lastEventId, reconnectAttempt
    budget    \* what is left of each bound

vars == <<log, mine, row, lane, sub, handler, wire, client, budget>>

Event == 1..MaxEvents
Status == {"none", "pending", "processing", "failed", "done"}

NoSub     == [after |-> 0, queue |-> <<>>]
NoHandler == [pc |-> "none", cursor |-> 0, page |-> {}]

TypeOK ==
    /\ log \in 0..MaxEvents
    /\ mine \subseteq 1..log
    /\ row \in [Event -> Status] /\ \A e \in Event : row[e] = "none" <=> e > log
    /\ lane \in 0..log
    /\ sub \in [after : 0..log, queue : Seq(mine)]
    /\ handler \in [pc : {"none", "replay", "follow", "ended"},
                    cursor : 0..log, page : SUBSET mine]
    /\ wire \in Seq(mine)
    /\ client \in [conn : {"down", "open", "stopped"}, lastId : 0..log,
                   attempts : 0..MaxReconnectAttempts + 1]
    /\ budget \in [drop : 0..MaxDrops, crash : 0..MaxCrashes]

Init ==
    /\ log = 0 /\ mine = {}
    /\ row = [e \in Event |-> "none"] /\ lane = 0
    /\ sub = NoSub /\ handler = NoHandler /\ wire = <<>>
    /\ client = [conn |-> "down", lastId |-> 0, attempts |-> 0]
    /\ budget = [drop |-> MaxDrops, crash |-> MaxCrashes]

----------------------------------------------------------------------------
(* The outbox and the relay *)

\* An event and its outbox row are one transaction; the number is the next.
AppendEvent ==
    /\ log < MaxEvents
    /\ log' = log + 1
    /\ mine' \in {mine, mine \cup {log + 1}}
    /\ row' = [row EXCEPT ![log + 1] = "pending"]
    /\ UNCHANGED <<lane, sub, handler, wire, client, budget>>

Ready == {e \in Event : row[e] \in {"pending", "failed"}}

\* A plausible bug: rows in the order the table returns them.
ClaimAny(e) == e \in Ready

\* The lane claims the ready row of the lowest event.
ClaimNext(e) == e \in Ready /\ \A x \in Ready : e <= x

Subscribed == handler.pc \in {"replay", "follow"}

\* A plausible bug: the subscription has room for one event.
RelayedIfEmpty(e) ==
    IF Subscribed /\ e \in mine /\ e > sub.after /\ sub.queue = <<>>
    THEN [after |-> e, queue |-> <<e>>]
    ELSE sub

\* What publish does to the reader's subscription.
Relayed(e) ==
    IF Subscribed /\ e \in mine /\ e > sub.after
    THEN [after |-> e, queue |-> Append(sub.queue, e)]
    ELSE sub

\* Claimed and published before the lane first awaits.
Publish ==
    /\ lane = 0
    /\ \E e \in Event :
        /\ ClaimNext(e)
        /\ row' = [row EXCEPT ![e] = "processing"]
        /\ lane' = e
        /\ sub' = Relayed(e)
    /\ UNCHANGED <<log, mine, handler, wire, client, budget>>

\* The row is deleted; an error is only logged, and the row stays processing.
Complete ==
    /\ lane # 0
    /\ lane' = 0
    /\ row' \in {row, [row EXCEPT ![lane] = "done"]}
    /\ UNCHANGED <<log, mine, sub, handler, wire, client, budget>>

----------------------------------------------------------------------------
(* The stream handler *)

After(c) == {e \in mine : e > c}

\* One page of the log after cursor c: the first events there are, as many as
\* the limit of the request, which is any positive number, allows.
Pages(c) ==
    {p \in SUBSET After(c) :
        /\ After(c) # {} => p # {}
        /\ \A x \in p, y \in After(c) : y < x => y \in p}

\* An empty page ends the replay; the next query, in the same turn of the event
\* loop, finds nothing either.
Reading(c, p) ==
    [pc |-> IF p = {} THEN "follow" ELSE "replay", cursor |-> c, page |-> p]

\* The request carries the consumer's lastEventId; the handler subscribes with it
\* and reads the first page before it first awaits.
Connect ==
    /\ client.conn = "down"
    /\ client' = [client EXCEPT !.conn = "open"]
    /\ sub' = [after |-> client.lastId, queue |-> <<>>]
    /\ \E p \in Pages(client.lastId) : handler' = Reading(client.lastId, p)
    /\ wire' = <<>>
    /\ UNCHANGED <<log, mine, row, lane, budget>>

Write(e) ==
    /\ wire' = Append(wire, e)
    /\ handler' = [handler EXCEPT !.cursor = e, !.page = @ \ {e}]

WritePage ==
    /\ handler.pc = "replay"
    /\ \E e \in handler.page :
        /\ \A x \in handler.page : e <= x
        /\ Write(e)
    /\ UNCHANGED <<log, mine, row, lane, sub, client, budget>>

NextPage ==
    /\ handler.pc = "replay" /\ handler.page = {}
    /\ \E p \in Pages(handler.cursor) : handler' = Reading(handler.cursor, p)
    /\ UNCHANGED <<log, mine, row, lane, sub, wire, client, budget>>

\* A plausible bug: the subscription is taken to hold news only.
AlwaysUnwritten(e) == TRUE

\* It also holds what the replay has read.
Unwritten(e) == e > handler.cursor

Follow ==
    /\ handler.pc = "follow" /\ sub.queue # <<>>
    /\ sub' = [sub EXCEPT !.queue = Tail(@)]
    /\ IF Unwritten(Head(sub.queue))
       THEN Write(Head(sub.queue))
       ELSE UNCHANGED <<wire, handler>>
    /\ UNCHANGED <<log, mine, row, lane, client, budget>>

\* eventStreamMaxFollowMs has passed: the response ends and the subscription is
\* closed, with whatever it still holds.
EndFollow ==
    /\ handler.pc = "follow"
    /\ handler' = [handler EXCEPT !.pc = "ended"]
    /\ sub' = NoSub
    /\ UNCHANGED <<log, mine, row, lane, wire, client, budget>>

----------------------------------------------------------------------------
(* The consumer *)

\* lastEventId follows the event that has been handled.
Receive ==
    /\ client.conn = "open" /\ wire # <<>>
    /\ client' = [client EXCEPT !.lastId = Head(wire)]
    /\ wire' = Tail(wire)
    /\ UNCHANGED <<log, mine, row, lane, sub, handler, budget>>

EndOfStream ==
    /\ client.conn = "open" /\ handler.pc = "ended" /\ wire = <<>>
    /\ client' = [client EXCEPT !.conn = "down", !.attempts = 0]
    /\ handler' = NoHandler
    /\ UNCHANGED <<log, mine, row, lane, sub, wire, budget>>

\* A plausible bug: the limit is compared for equality, one too late.
GivesUpLate(n) == n = MaxReconnectAttempts + 2

GivesUp(n) == n > MaxReconnectAttempts

Failed ==
    [client EXCEPT !.attempts = @ + 1,
                   !.conn = IF GivesUp(client.attempts + 1) THEN "stopped" ELSE "down"]

Disconnected == sub' = NoSub /\ handler' = NoHandler /\ wire' = <<>>

\* The connection is lost with all that is on it, or a request fails.
Drop ==
    /\ client.conn # "stopped"
    /\ budget.drop > 0
    /\ budget' = [budget EXCEPT !.drop = @ - 1]
    /\ client' = Failed
    /\ Disconnected
    /\ UNCHANGED <<log, mine, row, lane>>

\* The request is answered with an error that no retry can mend.
Refuse ==
    /\ client.conn = "down"
    /\ budget.drop > 0
    /\ budget' = [budget EXCEPT !.drop = @ - 1]
    /\ client' = [client EXCEPT !.conn = "stopped"]
    /\ UNCHANGED <<log, mine, row, lane, sub, handler, wire>>

\* The application opens the stream of the thread again, from its own cursor.
Reopen ==
    /\ client.conn = "stopped"
    /\ client' = [client EXCEPT !.conn = "down", !.attempts = 0]
    /\ UNCHANGED <<log, mine, row, lane, sub, handler, wire, budget>>

\* The process dies and starts again; startup takes up the rows in processing.
Crash ==
    /\ budget.crash > 0
    /\ budget' = [budget EXCEPT !.crash = @ - 1]
    /\ row' = [e \in Event |-> IF row[e] = "processing" THEN "failed" ELSE row[e]]
    /\ lane' = 0
    /\ client' = IF client.conn = "open" THEN Failed ELSE client
    /\ Disconnected
    /\ UNCHANGED <<log, mine>>

----------------------------------------------------------------------------

Serve == WritePage \/ NextPage \/ Follow

Next ==
    \/ AppendEvent \/ Publish \/ Complete
    \/ Connect \/ WritePage \/ NextPage \/ Follow \/ EndFollow
    \/ Receive \/ EndOfStream \/ Drop \/ Refuse \/ Reopen \/ Crash

Spec == Init /\ [][Next]_vars

(***************************************************************************)
(* The lane polls, and the handler, the connection and the consumer go on  *)
(* as long as nothing fails.  Nothing has to be appended, to fail, to      *)
(* reach its deadline, or to be opened again.                              *)
(***************************************************************************)
Fairness ==
    /\ WF_vars(Publish) /\ WF_vars(Complete)
    /\ WF_vars(Connect) /\ WF_vars(Serve)
    /\ WF_vars(Receive) /\ WF_vars(EndOfStream)

FairSpec == Spec /\ Fairness

----------------------------------------------------------------------------
(* What the stream promises *)

\* What is on the connection continues what the reader has seen: one matching
\* event after the other, none left out and none twice, up to the handler's
\* cursor, whether replayed or relayed.
Before(i) == IF i = 1 THEN client.lastId ELSE wire[i - 1]

WireContinues ==
    client.conn = "open" =>
        /\ \A i \in 1..Len(wire) :
            /\ wire[i] > Before(i)
            /\ \A x \in mine : x > Before(i) => wire[i] <= x
        /\ handler.cursor = IF wire = <<>> THEN client.lastId ELSE wire[Len(wire)]

\* Replay and subscription meet without a gap: once the handler follows, every
\* matching event it has not written waits in the subscription, or will be
\* published and is one the subscription still takes.
Waiting(e) == \E i \in 1..Len(sub.queue) : sub.queue[i] = e

NothingSkipped ==
    handler.pc = "follow" =>
        \A e \in After(handler.cursor) : Waiting(e) \/ (e \in Ready /\ e > sub.after)

\* Why they hold: what waits in the subscription is in order, below its cursor,
\* a page is the beginning of what the log holds after the cursor, and there is a
\* handler for every connection.
QueueInOrder ==
    \A i \in 1..Len(sub.queue) :
        /\ sub.queue[i] <= sub.after
        /\ \A j \in 1..Len(sub.queue) : i < j => sub.queue[i] < sub.queue[j]

PageIsNext ==
    handler.pc = "replay" =>
        /\ handler.page \subseteq After(handler.cursor)
        /\ \A x \in handler.page, y \in After(handler.cursor) : y < x => y \in handler.page

Connected == client.conn = "open" <=> handler.pc # "none"

\* The whole path, with its crashes, lost connections and renewed streams,
\* shows the reader the log.
Log == INSTANCE EventLog WITH seen <- client.lastId

ImplementsLog == Log!Spec

\* Every matching event is shown, unless the consumer has given up by then.
EventsSeen ==
    \A e \in Event : e \in mine ~> client.lastId >= e \/ client.conn = "stopped"
=============================================================================
