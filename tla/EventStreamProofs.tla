-------------------------- MODULE EventStreamProofs --------------------------
(***************************************************************************)
(* Proofs about EventStream, for every number of events, failures and      *)
(* crashes, and every limit of a page.                                     *)
(*                                                                         *)
(* The invariant has two halves that meet when the handler turns from the  *)
(* log to the subscription: PageIsNext says that the replay leaves nothing *)
(* out, QueueInOrder and NothingSkipped that the subscription will not.    *)
(* WireContinues follows, and with it every event shown is the next one.   *)
(***************************************************************************)
EXTENDS EventStream, SequenceTheorems, TLAPS

\* A consumer that goes on has attempts left.
Trying == client.conn # "stopped" => client.attempts <= MaxReconnectAttempts

\* The row the lane has in hand is not ready.
LaneHolds == lane # 0 => row[lane] = "processing"

IInv ==
    /\ TypeOK /\ Trying /\ Connected /\ LaneHolds
    /\ QueueInOrder /\ PageIsNext
    /\ NothingSkipped /\ WireContinues

----------------------------------------------------------------------------
(* Types *)

\* The log only grows, so what was read from it stays readable.
LEMMA SeqGrows ==
    ASSUME NEW S, NEW T, S \subseteq T, NEW s \in Seq(S)
    PROVE  s \in Seq(T)
<1> QED
  OBVIOUS

LEMMA AppendTyped ==
    ASSUME StreamAssumption, TypeOK, AppendEvent
    PROVE  TypeOK'
<1> USE DEF StreamAssumption, TypeOK, AppendEvent, Event, Status
<1>1. log' \in 0..MaxEvents /\ mine' \subseteq 1..log' /\ mine \subseteq mine'
  BY SMTT(30)
<1>2. row' \in [Event -> Status] /\ \A e \in Event : row'[e] = "none" <=> e > log'
  BY SMTT(30)
<1>3. sub.queue \in Seq(mine') /\ wire \in Seq(mine')
  BY <1>1, SeqGrows
<1>4. sub' \in [after : 0..log', queue : Seq(mine')]
  BY <1>1, <1>3
<1>5. handler' \in [pc : {"none", "replay", "follow", "ended"}, cursor : 0..log', page : SUBSET mine']
  BY SMTT(30), <1>1
<1>6. client' \in [conn : {"down", "open", "stopped"}, lastId : 0..log', attempts : 0..MaxReconnectAttempts + 1]
  BY <1>1
<1> QED
  BY SMTT(30), <1>1, <1>2, <1>3, <1>4, <1>5, <1>6

\* The parts of the records.
LEMMA Parts ==
    ASSUME TypeOK
    PROVE  /\ log \in Nat /\ mine \subseteq 1..log /\ mine \subseteq Nat
           /\ handler.pc \in {"none", "replay", "follow", "ended"}
           /\ handler.cursor \in 0..log /\ handler.page \subseteq mine
           /\ handler = [pc |-> handler.pc, cursor |-> handler.cursor, page |-> handler.page]
           /\ sub.after \in 0..log /\ sub.queue \in Seq(mine)
           /\ sub = [after |-> sub.after, queue |-> sub.queue]
           /\ client.lastId \in 0..log
           /\ client.conn \in {"down", "open", "stopped"}
           /\ client.attempts \in 0..MaxReconnectAttempts + 1
           /\ client = [conn |-> client.conn, lastId |-> client.lastId, attempts |-> client.attempts]
           /\ wire \in Seq(mine) /\ row \in [Event -> Status]
<1>1. log \in Nat /\ mine \subseteq 1..log /\ mine \subseteq Nat
  BY DEF TypeOK
<1>2. /\ handler.pc \in {"none", "replay", "follow", "ended"}
      /\ handler.cursor \in 0..log /\ handler.page \subseteq mine
      /\ handler = [pc |-> handler.pc, cursor |-> handler.cursor, page |-> handler.page]
  BY DEF TypeOK
<1>3. /\ sub.after \in 0..log /\ sub.queue \in Seq(mine)
      /\ sub = [after |-> sub.after, queue |-> sub.queue]
  BY DEF TypeOK
<1>4. /\ client.lastId \in 0..log
      /\ client.conn \in {"down", "open", "stopped"}
      /\ client.attempts \in 0..MaxReconnectAttempts + 1
      /\ client = [conn |-> client.conn, lastId |-> client.lastId, attempts |-> client.attempts]
  BY DEF TypeOK
<1>5. wire \in Seq(mine) /\ row \in [Event -> Status]
  BY DEF TypeOK
<1> QED
  BY <1>1, <1>2, <1>3, <1>4, <1>5

LEMMA WriteTyped ==
    ASSUME TypeOK, NEW e \in mine, Write(e)
    PROVE  /\ wire' \in Seq(mine)
           /\ handler' = [pc |-> handler.pc, cursor |-> e, page |-> handler.page \ {e}]
           /\ handler' \in [pc : {"none", "replay", "follow", "ended"},
                            cursor : 0..log, page : SUBSET mine]
<1>1. handler' = [pc |-> handler.pc, cursor |-> e, page |-> handler.page \ {e}]
  BY Parts DEF Write
<1>2. e \in 0..log
  BY DEF TypeOK
<1>3. wire' \in Seq(mine)
  BY Parts, AppendProperties DEF Write
<1> QED
  BY <1>1, <1>2, <1>3, Parts

\* A failure counts at most one attempt more than the consumer allows itself.
LEMMA FailedTyped ==
    ASSUME StreamAssumption, TypeOK, Trying, client.conn # "stopped", client' = Failed
    PROVE  /\ client' \in [conn : {"down", "open", "stopped"}, lastId : 0..log,
                           attempts : 0..MaxReconnectAttempts + 1]
           /\ client'.lastId = client.lastId /\ client'.conn # "open" /\ Trying'
<1>1. client' = [conn     |-> IF GivesUp(client.attempts + 1) THEN "stopped" ELSE "down",
                 lastId   |-> client.lastId,
                 attempts |-> client.attempts + 1]
  BY Parts DEF Failed
<1>2. client.attempts + 1 \in 0..MaxReconnectAttempts + 1
  BY Parts DEF Trying, StreamAssumption
<1> QED
  BY <1>1, <1>2, Parts DEF Trying, GivesUp, StreamAssumption

LEMMA Spent ==
    ASSUME StreamAssumption, TypeOK
    PROVE  /\ budget.drop > 0 =>
                [budget EXCEPT !.drop = @ - 1] \in [drop : 0..MaxDrops, crash : 0..MaxCrashes]
           /\ budget.crash > 0 =>
                [budget EXCEPT !.crash = @ - 1] \in [drop : 0..MaxDrops, crash : 0..MaxCrashes]
<1>1. budget \in [drop : 0..MaxDrops, crash : 0..MaxCrashes]
  BY DEF TypeOK
<1> QED
  BY <1>1 DEF StreamAssumption

LEMMA ReadingTyped ==
    ASSUME TypeOK, NEW c \in 0..log, NEW p \in Pages(c), handler' = Reading(c, p)
    PROVE  /\ handler' \in [pc : {"none", "replay", "follow", "ended"},
                            cursor : 0..log, page : SUBSET mine]
           /\ handler'.pc \in {"replay", "follow"} /\ handler'.cursor = c /\ handler'.page = p
           /\ handler'.pc = "follow" <=> p = {}
           /\ handler'.pc = "follow" => After(c) = {}
<1>1. p \subseteq mine
  BY DEF Pages, After
<1>2. handler'.pc \in {"replay", "follow"} /\ handler'.cursor = c /\ handler'.page = p
  BY DEF Reading
<1>3. (handler'.pc = "follow" <=> p = {}) /\ (p = {} => After(c) = {})
  BY DEF Reading, Pages
<1> QED
  BY <1>1, <1>2, <1>3 DEF Reading

\* Every step keeps the types, and a handler and a connection go together.
LEMMA StepTyped ==
    ASSUME StreamAssumption, TypeOK, Trying, Connected, [Next]_vars
    PROVE  TypeOK' /\ Trying' /\ Connected'
<1> USE Parts
<1>1. CASE AppendEvent
  BY <1>1, AppendTyped DEF AppendEvent, Trying, Connected
<1>2. CASE Publish
  <2>1. PICK e \in Event : /\ ClaimNext(e) /\ row' = [row EXCEPT ![e] = "processing"]
                           /\ lane' = e /\ sub' = Relayed(e)
    BY <1>2 DEF Publish
  <2>2. row[e] # "none" /\ e \in 0..log
    BY <2>1 DEF ClaimNext, Ready, TypeOK, Event
  <2>3. row' \in [Event -> Status] /\ \A x \in Event : row'[x] = "none" <=> x > log
    BY <2>1, <2>2 DEF TypeOK, Status
  <2>4. sub' \in [after : 0..log, queue : Seq(mine)]
    <3>1. CASE Subscribed /\ e \in mine /\ e > sub.after
      <4>1. Append(sub.queue, e) \in Seq(mine)
        BY <3>1, AppendProperties
      <4> QED
        BY <2>1, <2>2, <3>1, <4>1 DEF Relayed
    <3>2. CASE ~(Subscribed /\ e \in mine /\ e > sub.after)
      BY <2>1, <3>2 DEF Relayed, TypeOK
    <3> QED
      BY <3>1, <3>2
  <2> QED
    BY <1>2, <2>1, <2>2, <2>3, <2>4 DEF Publish, TypeOK, Trying, Connected
<1>3. CASE Complete
  <2>1. row' \in [Event -> Status] /\ \A x \in Event : row'[x] = "none" <=> x > log
    <3>1. lane \in Event /\ ~(lane > log)
      BY <1>3 DEF Complete, TypeOK, Event, StreamAssumption
    <3> QED
      BY <1>3, <3>1 DEF Complete, TypeOK, Status
  <2> QED
    BY <1>3, <2>1 DEF Complete, TypeOK, Trying, Connected
<1>4. CASE Connect
  <2>1. PICK p \in Pages(client.lastId) : handler' = Reading(client.lastId, p)
    BY <1>4 DEF Connect
  <2>2. /\ handler' \in [pc : {"none", "replay", "follow", "ended"},
                          cursor : 0..log, page : SUBSET mine]
        /\ handler'.pc # "none"
    BY <1>4, <2>1, ReadingTyped DEF Connect
  <2>3. client' = [conn |-> "open", lastId |-> client.lastId, attempts |-> client.attempts]
    BY <1>4 DEF Connect
  <2>4. /\ sub' \in [after : 0..log, queue : Seq(mine)] /\ wire' \in Seq(mine)
    BY <1>4, EmptySeq DEF Connect
  <2> QED
    BY <1>4, <2>2, <2>3, <2>4 DEF Connect, TypeOK, Trying, Connected
<1>5. CASE WritePage
  <2>1. PICK e \in handler.page : Write(e)
    BY <1>5 DEF WritePage
  <2>2. e \in mine
    BY <2>1
  <2> QED
    BY SMTT(30), <1>5, <2>1, <2>2, WriteTyped DEF WritePage, TypeOK, Trying, Connected
<1>6. CASE NextPage
  <2>1. PICK p \in Pages(handler.cursor) : handler' = Reading(handler.cursor, p)
    BY <1>6 DEF NextPage
  <2> QED
    BY SMTT(30), <1>6, <2>1, ReadingTyped DEF NextPage, TypeOK, Trying, Connected
<1>7. CASE Follow
  <2>1. /\ Head(sub.queue) \in mine
        /\ Tail(sub.queue) \in Seq(mine)
    BY <1>7, HeadTailProperties DEF Follow
  <2>2. sub' = [after |-> sub.after, queue |-> Tail(sub.queue)]
    BY <1>7 DEF Follow
  <2>3. sub' \in [after : 0..log, queue : Seq(mine)]
    BY <2>1, <2>2
  <2>4. CASE Unwritten(Head(sub.queue))
    <3>1. Write(Head(sub.queue))
      BY <1>7, <2>4 DEF Follow
    <3>2. /\ wire' \in Seq(mine) /\ handler'.pc = handler.pc
          /\ handler' \in [pc : {"none", "replay", "follow", "ended"},
                           cursor : 0..log, page : SUBSET mine]
      BY SMTT(30), <2>1, <3>1, WriteTyped
    <3> QED
      BY <1>7, <2>3, <3>2 DEF Follow, TypeOK, Trying, Connected
  <2>5. CASE ~Unwritten(Head(sub.queue))
    BY <1>7, <2>3, <2>5 DEF Follow, TypeOK, Trying, Connected
  <2> QED
    BY <2>4, <2>5
<1>8. CASE EndFollow
  <2>1. handler' = [pc |-> "ended", cursor |-> handler.cursor, page |-> handler.page]
    BY <1>8 DEF EndFollow
  <2>2. sub' \in [after : 0..log, queue : Seq(mine)]
    BY <1>8, EmptySeq DEF EndFollow, NoSub
  <2> QED
    BY <1>8, <2>1, <2>2 DEF EndFollow, TypeOK, Trying, Connected
<1>9. CASE Receive
  <2>1. Head(wire) \in mine /\ Tail(wire) \in Seq(mine)
    BY <1>9, HeadTailProperties DEF Receive
  <2>2. client' = [conn |-> client.conn, lastId |-> Head(wire), attempts |-> client.attempts]
    BY <1>9 DEF Receive
  <2>3. Head(wire) \in 0..log
    BY <2>1
  <2> QED
    BY <1>9, <2>1, <2>2, <2>3 DEF Receive, TypeOK, Trying, Connected
<1>10. CASE EndOfStream
  <2>1. client' = [conn |-> "down", lastId |-> client.lastId, attempts |-> 0]
    BY <1>10 DEF EndOfStream
  <2> QED
    BY SMTT(30), <1>10, <2>1 DEF EndOfStream, NoHandler, TypeOK, Trying, Connected, StreamAssumption
<1>11. ASSUME Disconnected
       PROVE  /\ sub' \in [after : 0..log, queue : Seq(mine)] /\ wire' \in Seq(mine)
              /\ handler' \in [pc : {"none", "replay", "follow", "ended"},
                               cursor : 0..log, page : SUBSET mine]
              /\ handler'.pc = "none"
  BY <1>11, EmptySeq DEF Disconnected, NoSub, NoHandler
<1>12. CASE Drop
  <2>1. budget' \in [drop : 0..MaxDrops, crash : 0..MaxCrashes]
    BY <1>12, Spent DEF Drop
  <2>2. client' \in [conn : {"down", "open", "stopped"}, lastId : 0..log,
                     attempts : 0..MaxReconnectAttempts + 1] /\ client'.conn # "open" /\ Trying'
    BY <1>12, FailedTyped DEF Drop
  <2> QED
    BY <1>11, <1>12, <2>1, <2>2 DEF Drop, TypeOK, Connected
<1>13. CASE Refuse
  <2>1. client' = [conn |-> "stopped", lastId |-> client.lastId, attempts |-> client.attempts]
    BY <1>13 DEF Refuse
  <2>2. budget' \in [drop : 0..MaxDrops, crash : 0..MaxCrashes]
    BY <1>13, Spent DEF Refuse
  <2> QED
    BY <1>13, <2>1, <2>2 DEF Refuse, TypeOK, Trying, Connected
<1>14. CASE Reopen
  <2>1. client' = [conn |-> "down", lastId |-> client.lastId, attempts |-> 0]
    BY <1>14 DEF Reopen
  <2> QED
    BY SMTT(30), <1>14, <2>1 DEF Reopen, TypeOK, Trying, Connected, StreamAssumption
<1>15. CASE Crash
  <2>1. row' \in [Event -> Status] /\ \A x \in Event : row'[x] = "none" <=> x > log
    BY <1>15 DEF Crash, TypeOK, Status
  <2>2. client' \in [conn : {"down", "open", "stopped"}, lastId : 0..log,
                     attempts : 0..MaxReconnectAttempts + 1] /\ client'.conn # "open" /\ Trying'
    <3>1. CASE client.conn = "open"
      BY <1>15, <3>1, FailedTyped DEF Crash
    <3>2. CASE client.conn # "open"
      BY <1>15, <3>2 DEF Crash, TypeOK, Trying
    <3> QED
      BY <3>1, <3>2
  <2>3. budget' \in [drop : 0..MaxDrops, crash : 0..MaxCrashes]
    BY <1>15, Spent DEF Crash
  <2>4. lane' = 0 /\ log' = log /\ mine' = mine /\ Disconnected
    BY <1>15 DEF Crash
  <2>5. /\ sub' \in [after : 0..log, queue : Seq(mine)] /\ wire' \in Seq(mine)
        /\ handler' \in [pc : {"none", "replay", "follow", "ended"},
                         cursor : 0..log, page : SUBSET mine]
        /\ handler'.pc = "none"
    BY <1>11, <2>4
  <2>6. log' \in 0..MaxEvents /\ mine' \subseteq 1..log' /\ lane' \in 0..log'
    BY <2>4 DEF TypeOK
  <2>7. TypeOK'
    BY ONLY <2>1, <2>2, <2>3, <2>4, <2>5, <2>6 DEF TypeOK
  <2> QED
    BY <2>2, <2>5, <2>7 DEF Connected
<1>16. CASE UNCHANGED vars
  BY <1>16 DEF vars, TypeOK, Trying, Connected
<1> QED
  BY <1>1, <1>2, <1>3, <1>4, <1>5, <1>6, <1>7, <1>8, <1>9, <1>10, <1>12, <1>13, <1>14, <1>15, <1>16
     DEF Next

----------------------------------------------------------------------------
(* The subscription and the page *)

LEMMA StepQueue ==
    ASSUME TypeOK, QueueInOrder, [Next]_vars
    PROVE  QueueInOrder'
<1> USE Parts
<1>1. ASSUME sub' = sub
      PROVE  QueueInOrder'
  BY <1>1 DEF QueueInOrder
<1>2. ASSUME sub'.queue = <<>>
      PROVE  QueueInOrder'
  BY <1>2 DEF QueueInOrder
<1>3. CASE Publish
  <2>1. PICK e \in Event : sub' = Relayed(e)
    BY <1>3 DEF Publish
  <2>2. CASE Subscribed /\ e \in mine /\ e > sub.after
    <3>1. sub'.after = e /\ sub'.queue = Append(sub.queue, e)
      BY <2>1, <2>2 DEF Relayed
    <3>2. /\ Len(sub'.queue) = Len(sub.queue) + 1
          /\ \A i \in 1..Len(sub.queue) : sub'.queue[i] = sub.queue[i] /\ sub.queue[i] \in Nat
          /\ sub'.queue[Len(sub.queue) + 1] = e
      BY <2>2, <3>1, AppendProperties, ElementOfSeq
    <3>3. \A i \in 1..Len(sub.queue) : sub.queue[i] < e
      BY SMTT(30), <2>2, <3>2 DEF QueueInOrder
    <3> QED
      BY SMTT(30), <2>2, <3>1, <3>2, <3>3 DEF QueueInOrder
  <2>3. CASE ~(Subscribed /\ e \in mine /\ e > sub.after)
    BY <1>1, <2>1, <2>3 DEF Relayed
  <2> QED
    BY <2>2, <2>3
<1>4. CASE Follow
  <2>1. sub'.after = sub.after /\ sub'.queue = Tail(sub.queue)
    BY <1>4 DEF Follow
  <2>2. /\ Len(sub'.queue) = Len(sub.queue) - 1
        /\ \A i \in 1..Len(sub'.queue) : sub'.queue[i] = sub.queue[i + 1]
    BY <1>4, <2>1, HeadTailProperties DEF Follow
  <2>3. \A i \in 1..Len(sub'.queue) : i \in Int /\ i + 1 \in 1..Len(sub.queue)
    BY SMTT(30), <2>2, LenProperties
  <2>4. \A i \in 1..Len(sub'.queue) : sub'.queue[i] <= sub'.after
    BY <2>1, <2>2, <2>3 DEF QueueInOrder
  <2>5. ASSUME NEW i \in 1..Len(sub'.queue), NEW j \in 1..Len(sub'.queue), i < j
        PROVE  sub'.queue[i] < sub'.queue[j]
    <3>1. i + 1 < j + 1
      BY <2>3, <2>5
    <3> QED
      BY <2>2, <2>3, <3>1 DEF QueueInOrder
  <2> QED
    BY <2>4, <2>5 DEF QueueInOrder
<1>5. CASE Connect \/ EndFollow \/ Drop \/ Crash
  BY <1>2, <1>5 DEF Connect, EndFollow, Drop, Crash, Disconnected, NoSub
<1>6. CASE ~(Publish \/ Follow \/ Connect \/ EndFollow \/ Drop \/ Crash)
  BY <1>1, <1>6 DEF Next, vars, AppendEvent, Complete, WritePage, NextPage, Receive,
                    EndOfStream, Refuse, Reopen
<1> QED
  BY <1>3, <1>4, <1>5, <1>6

LEMMA StepPage ==
    ASSUME TypeOK, PageIsNext, [Next]_vars
    PROVE  PageIsNext'
<1> USE Parts
<1>1. ASSUME NEW c \in 0..log, NEW p \in Pages(c), handler' = Reading(c, p), mine' = mine
      PROVE  PageIsNext'
  <2>1. handler'.cursor = c /\ handler'.page = p
    BY <1>1, ReadingTyped
  <2>2. /\ p \subseteq {e \in mine' : e > c}
        /\ \A x \in p, y \in {e \in mine' : e > c} : y < x => y \in p
    BY <1>1 DEF Pages, After
  <2> QED
    BY <2>1, <2>2 DEF PageIsNext, After
<1>2. CASE AppendEvent
  BY <1>2 DEF AppendEvent, PageIsNext, After
<1>3. CASE Connect
  BY <1>1, <1>3 DEF Connect
<1>4. CASE NextPage
  BY <1>1, <1>4 DEF NextPage
<1>5. CASE WritePage
  <2>1. PICK e \in handler.page : (\A x \in handler.page : e <= x) /\ Write(e)
    BY <1>5 DEF WritePage
  <2>2. handler' = [pc |-> handler.pc, cursor |-> e, page |-> handler.page \ {e}] /\ mine' = mine
    BY <1>5, <2>1, WriteTyped DEF WritePage
  <2> QED
    BY <1>5, <2>1, <2>2 DEF WritePage, PageIsNext, After
<1>6. CASE Follow
  <2>1. handler'.pc = "follow"
    BY <1>6 DEF Follow, Write
  <2> QED
    BY <2>1 DEF PageIsNext
<1>7. CASE EndFollow \/ EndOfStream \/ Drop \/ Crash
  BY <1>7 DEF EndFollow, EndOfStream, Drop, Crash, Disconnected, NoHandler, PageIsNext
<1>8. CASE Publish \/ Complete \/ Receive \/ Refuse \/ Reopen \/ UNCHANGED vars
  BY <1>8 DEF Publish, Complete, Receive, Refuse, Reopen, vars, PageIsNext, After
<1> QED
  BY <1>2, <1>3, <1>4, <1>5, <1>6, <1>7, <1>8 DEF Next

LEMMA StepLane ==
    ASSUME TypeOK, LaneHolds, [Next]_vars
    PROVE  LaneHolds'
<1>1. CASE AppendEvent
  BY <1>1 DEF AppendEvent, LaneHolds, TypeOK
<1>2. CASE Publish
  BY <1>2 DEF Publish, LaneHolds, TypeOK
<1>3. CASE Complete \/ Crash
  BY <1>3 DEF Complete, Crash, LaneHolds
<1>4. CASE ~(AppendEvent \/ Publish \/ Complete \/ Crash)
  BY <1>4 DEF Next, vars, Connect, WritePage, NextPage, Follow, EndFollow, Receive,
              EndOfStream, Drop, Refuse, Reopen, LaneHolds
<1> QED
  BY <1>1, <1>2, <1>3, <1>4

----------------------------------------------------------------------------
(* Replay and subscription *)

\* The head of the subscription, taken off, no longer waits; all others do.
LEMMA TailWaits ==
    ASSUME TypeOK, sub.queue # <<>>, sub'.queue = Tail(sub.queue),
           NEW x, Waiting(x), x # Head(sub.queue)
    PROVE  Waiting(x)'
<1>1. PICK i \in 1..Len(sub.queue) : sub.queue[i] = x
  BY DEF Waiting
<1>2. /\ sub.queue \in Seq(mine) /\ Len(sub.queue) \in Nat
      /\ Head(sub.queue) = sub.queue[1]
      /\ Len(sub'.queue) = Len(sub.queue) - 1
      /\ \A j \in 1..Len(sub'.queue) : sub'.queue[j] = sub.queue[j + 1]
  BY Parts, HeadTailProperties, LenProperties
<1>3. i - 1 \in 1..Len(sub'.queue) /\ sub'.queue[i - 1] = x
  BY <1>1, <1>2
<1> QED
  BY <1>3 DEF Waiting

LEMMA StepSkipped ==
    ASSUME StreamAssumption, TypeOK, LaneHolds, NothingSkipped, [Next]_vars
    PROVE  NothingSkipped'
<1> USE Parts
<1>1. CASE AppendEvent
  <2> SUFFICES ASSUME handler'.pc = "follow", NEW x \in mine', x > handler'.cursor
               PROVE  Waiting(x)' \/ (x \in Ready' /\ x > sub'.after)
    BY DEF NothingSkipped, After
  <2>1. sub' = sub /\ handler' = handler
    BY <1>1 DEF AppendEvent
  <2>2. CASE x = log + 1
    BY <1>1, <2>1, <2>2 DEF AppendEvent, Ready, TypeOK, Event, StreamAssumption
  <2>3. CASE x # log + 1
    <3>1. x \in mine
      BY <1>1, <2>3 DEF AppendEvent
    <3>2. Waiting(x) \/ (x \in Ready /\ x > sub.after)
      BY <2>1, <3>1 DEF NothingSkipped, After
    <3>3. Waiting(x) => Waiting(x)'
      BY <2>1 DEF Waiting
    <3>4. x \in Ready => x \in Ready'
      BY <1>1, <2>3 DEF AppendEvent, Ready, TypeOK
    <3> QED
      BY <2>1, <3>2, <3>3, <3>4
  <2> QED
    BY <2>2, <2>3
<1>2. CASE Publish
  <2> SUFFICES ASSUME handler.pc = "follow", NEW x \in mine, x > handler.cursor
               PROVE  Waiting(x)' \/ (x \in Ready' /\ x > sub'.after)
    BY <1>2 DEF Publish, NothingSkipped, After
  <2>1. PICK e \in Event : /\ ClaimNext(e) /\ row' = [row EXCEPT ![e] = "processing"]
                           /\ sub' = Relayed(e)
    BY <1>2 DEF Publish
  <2>2. CASE Subscribed /\ e \in mine /\ e > sub.after
    <3>1. sub'.after = e /\ sub'.queue = Append(sub.queue, e)
      BY <2>1, <2>2 DEF Relayed
    <3>2. /\ Len(sub.queue) \in Nat /\ Len(sub'.queue) = Len(sub.queue) + 1
          /\ \A i \in 1..Len(sub.queue) : sub'.queue[i] = sub.queue[i]
          /\ sub'.queue[Len(sub.queue) + 1] = e
      BY <2>2, <3>1, AppendProperties, LenProperties
    <3>3. CASE Waiting(x)
      <4>1. PICK i \in 1..Len(sub.queue) : sub.queue[i] = x
        BY <3>3 DEF Waiting
      <4>2. i \in 1..Len(sub'.queue) /\ sub'.queue[i] = x
        BY ONLY <3>2, <4>1
      <4> QED
        BY <4>2 DEF Waiting
    <3>4. CASE x = e
      <4>1. Len(sub.queue) + 1 \in 1..Len(sub'.queue) /\ sub'.queue[Len(sub.queue) + 1] = x
        BY <3>2, <3>4
      <4> QED
        BY <4>1 DEF Waiting
    <3>5. CASE ~Waiting(x) /\ x # e
      <4>1. x \in Ready /\ x > sub.after
        BY <3>5 DEF NothingSkipped, After
      <4>2. e < x
        BY <2>1, <2>2, <3>5, <4>1 DEF ClaimNext
      <4>3. x \in Ready'
        BY <2>1, <3>5, <4>1 DEF Ready, TypeOK
      <4> QED
        BY <3>1, <4>2, <4>3
    <3> QED
      BY <3>3, <3>4, <3>5
  <2>3. CASE ~(Subscribed /\ e \in mine /\ e > sub.after)
    <3>1. sub' = sub
      BY <2>1, <2>3 DEF Relayed
    <3>2. CASE Waiting(x)
      BY <3>1, <3>2 DEF Waiting
    <3>3. CASE ~Waiting(x)
      <4>1. x \in Ready /\ x > sub.after
        BY <3>3 DEF NothingSkipped, After
      <4>2. x # e
        BY <2>3, <4>1 DEF Subscribed
      <4> QED
        BY <2>1, <3>1, <4>1, <4>2 DEF Ready, TypeOK
    <3> QED
      BY <3>2, <3>3
  <2> QED
    BY <2>2, <2>3
<1>3. CASE Complete
  <2>1. Ready' = Ready
    BY <1>3 DEF Complete, Ready, LaneHolds, TypeOK
  <2> QED
    BY <1>3, <2>1 DEF Complete, NothingSkipped, After, Waiting
<1>4. ASSUME NEW c \in 0..log, NEW p \in Pages(c), handler' = Reading(c, p), mine' = mine
      PROVE  NothingSkipped'
  <2>1. handler'.cursor = c /\ (handler'.pc = "follow" => After(c) = {})
    BY <1>4, ReadingTyped
  <2> QED
    BY <1>4, <2>1 DEF NothingSkipped, After
<1>5. CASE Connect
  BY <1>4, <1>5 DEF Connect
<1>6. CASE NextPage
  BY <1>4, <1>6 DEF NextPage
<1>7. CASE WritePage
  <2>1. handler'.pc = "replay"
    BY <1>7 DEF WritePage, Write
  <2> QED
    BY <2>1 DEF NothingSkipped
<1>8. CASE Follow
  <2> DEFINE h == Head(sub.queue)
  <2>1. h \in mine /\ sub'.queue = Tail(sub.queue) /\ sub'.after = sub.after
    BY <1>8, HeadTailProperties DEF Follow
  <2>2. handler'.cursor >= handler.cursor /\ handler'.cursor >= h /\ handler'.cursor \in Nat
    <3>1. CASE Unwritten(h)
      <4>1. handler'.cursor = h
        BY <1>8, <2>1, <3>1, WriteTyped DEF Follow
      <4> QED
        BY SMTT(30), <2>1, <3>1, <4>1 DEF Unwritten
    <3>2. CASE ~Unwritten(h)
      BY SMTT(30), <1>8, <2>1, <3>2 DEF Follow, Unwritten
    <3> QED
      BY <3>1, <3>2
  <2>3. row' = row /\ mine' = mine /\ handler.pc = "follow"
    BY <1>8 DEF Follow
  <2> SUFFICES ASSUME NEW x \in mine, x > handler'.cursor
               PROVE  Waiting(x)' \/ (x \in Ready' /\ x > sub'.after)
    BY <2>3 DEF NothingSkipped, After
  <2>4. x > handler.cursor /\ x # h
    <3>1. x \in Nat /\ h \in Nat /\ handler.cursor \in Nat
      BY <2>1
    <3>2. \A c \in Nat : c >= handler.cursor /\ c >= h /\ x > c => x > handler.cursor /\ x # h
      BY ONLY <3>1
    <3> QED
      BY <2>2, <3>2
  <2>5. Waiting(x) \/ (x \in Ready /\ x > sub.after)
    BY <2>3, <2>4 DEF NothingSkipped, After
  <2>6. Waiting(x) => Waiting(x)'
    BY <1>8, <2>1, <2>4, TailWaits DEF Follow
  <2> QED
    BY <2>1, <2>3, <2>5, <2>6 DEF Ready
<1>9. CASE EndFollow \/ EndOfStream \/ Drop \/ Crash
  BY <1>9 DEF EndFollow, EndOfStream, Drop, Crash, Disconnected, NoHandler, NothingSkipped
<1>10. CASE Receive \/ Refuse \/ Reopen \/ UNCHANGED vars
  BY <1>10 DEF Receive, Refuse, Reopen, vars, NothingSkipped, After, Ready, Waiting
<1> QED
  BY <1>1, <1>2, <1>3, <1>5, <1>6, <1>7, <1>8, <1>9, <1>10 DEF Next

----------------------------------------------------------------------------
(* The connection *)

\* What the handler writes next, from its page or from the subscription, is the
\* first matching event after its cursor.
LEMMA NextOfPage ==
    ASSUME TypeOK, PageIsNext, handler.pc = "replay",
           NEW e \in handler.page, \A x \in handler.page : e <= x
    PROVE  e > handler.cursor /\ \A x \in mine : x > handler.cursor => e <= x
<1>1. /\ handler.page \subseteq mine /\ mine \subseteq Nat /\ e > handler.cursor
      /\ \A x \in mine : x > handler.cursor /\ x < e => x \in handler.page
  BY Parts DEF PageIsNext, After
<1>2. ASSUME NEW x \in mine, x > handler.cursor
      PROVE  e <= x
  <2>1. x \in Nat /\ e \in Nat /\ (x < e => e <= x)
    BY <1>1, <1>2
  <2> QED
    BY ONLY <2>1
<1> QED
  BY <1>1, <1>2

LEMMA NextOfQueue ==
    ASSUME TypeOK, QueueInOrder, NothingSkipped, handler.pc = "follow",
           sub.queue # <<>>, Unwritten(Head(sub.queue))
    PROVE  /\ Head(sub.queue) > handler.cursor
           /\ \A x \in mine : x > handler.cursor => Head(sub.queue) <= x
<1>1. /\ sub.queue \in Seq(mine) /\ mine \subseteq Nat /\ sub.after \in Nat
      /\ Len(sub.queue) \in Nat /\ 1 \in 1..Len(sub.queue)
      /\ Head(sub.queue) = sub.queue[1] /\ Head(sub.queue) \in mine
  BY Parts, HeadTailProperties, LenProperties, EmptySeq
<1>2. ASSUME NEW x \in mine, x > handler.cursor
      PROVE  Head(sub.queue) <= x
  <2>1. Waiting(x) \/ x > sub.after
    BY <1>2 DEF NothingSkipped, After
  <2>2. CASE Waiting(x)
    <3>1. PICK i \in 1..Len(sub.queue) : sub.queue[i] = x
      BY <2>2 DEF Waiting
    <3>2. i = 1 \/ sub.queue[1] < sub.queue[i]
      BY <1>1, <3>1 DEF QueueInOrder
    <3>3. x \in Nat /\ Head(sub.queue) \in Nat /\ (Head(sub.queue) = x \/ Head(sub.queue) < x)
      BY <1>1, <3>1, <3>2
    <3> QED
      BY ONLY <3>3
  <2>3. CASE x > sub.after
    <3>1. sub.queue[1] <= sub.after
      BY <1>1 DEF QueueInOrder
    <3>2. /\ x \in Nat /\ Head(sub.queue) \in Nat /\ sub.after \in Nat
          /\ Head(sub.queue) <= sub.after /\ x > sub.after
      BY <1>1, <2>3, <3>1
    <3> QED
      BY ONLY <3>2
  <2> QED
    BY <2>1, <2>2, <2>3
<1> QED
  BY <1>2 DEF Unwritten

LEMMA WriteWire ==
    ASSUME TypeOK, WireContinues, client.conn = "open", client' = client, mine' = mine,
           NEW e \in mine, Write(e),
           e > handler.cursor, \A x \in mine : x > handler.cursor => e <= x
    PROVE  WireContinues'
<1>1. /\ handler'.cursor = e /\ wire' = Append(wire, e) /\ wire \in Seq(mine)
      /\ Len(wire) \in Nat /\ Len(wire') = Len(wire) + 1
      /\ \A i \in 1..Len(wire) : wire'[i] = wire[i]
      /\ wire'[Len(wire) + 1] = e
  <2>1. handler'.cursor = e /\ wire' = Append(wire, e) /\ wire \in Seq(mine)
    BY Parts, WriteTyped DEF Write
  <2>2. Len(wire) \in Nat
    BY <2>1, LenProperties
  <2>3. /\ Len(Append(wire, e)) = Len(wire) + 1
        /\ \A i \in 1..Len(wire) : Append(wire, e)[i] = wire[i]
        /\ Append(wire, e)[Len(wire) + 1] = e
    BY <2>1, AppendProperties
  <2> QED
    BY ONLY <2>1, <2>2, <2>3
<1>2. wire' # <<>>
  BY <1>1, EmptySeq
<1>3. \A i \in 1..Len(wire) : Before(i)' = Before(i)
  BY <1>1 DEF Before
<1>4. ASSUME NEW k, k = Len(wire) + 1
      PROVE  Before(k)' = handler.cursor
  <2>1. CASE wire = <<>>
    <3>1. k = 1 /\ handler.cursor = client.lastId
      BY <1>1, <1>4, <2>1 DEF WireContinues
    <3> QED
      BY <3>1 DEF Before
  <2>2. CASE wire # <<>>
    <3>1. Len(wire) \in 1..Len(wire) /\ k # 1 /\ k - 1 = Len(wire)
      BY <1>1, <1>4, <2>2, EmptySeq
    <3>2. handler.cursor = wire[Len(wire)]
      BY <2>2 DEF WireContinues
    <3> QED
      BY <1>1, <3>1, <3>2 DEF Before
  <2> QED
    BY <2>1, <2>2
<1>5. ASSUME NEW i \in 1..Len(wire')
      PROVE  wire'[i] > Before(i)' /\ \A x \in mine : x > Before(i)' => wire'[i] <= x
  <2>1. CASE i \in 1..Len(wire)
    BY <1>1, <1>3, <2>1 DEF WireContinues
  <2>2. CASE i = Len(wire) + 1
    BY <1>1, <1>4, <2>2
  <2> QED
    BY <1>1, <2>1, <2>2
<1> QED
  BY <1>1, <1>2, <1>5 DEF WireContinues

\* The event received is the first the reader has not seen.
LEMMA ReceiveNext ==
    ASSUME TypeOK, WireContinues, Receive
    PROVE  /\ Head(wire) \in mine /\ Head(wire) > client.lastId
           /\ \A x \in mine : x > client.lastId => Head(wire) <= x
           /\ client'.lastId = Head(wire)
<1>1. wire \in Seq(mine) /\ Len(wire) \in Nat /\ 1 \in 1..Len(wire) /\ Head(wire) = wire[1]
  BY Parts, LenProperties, EmptySeq, HeadTailProperties DEF Receive
<1>2. Head(wire) \in mine
  BY <1>1, HeadTailProperties DEF Receive
<1>3. client'.lastId = Head(wire)
  BY Parts DEF Receive
<1> QED
  BY <1>1, <1>2, <1>3 DEF Receive, WireContinues, Before

LEMMA StepWire ==
    ASSUME StreamAssumption, TypeOK, Trying, Connected, QueueInOrder, PageIsNext,
           NothingSkipped, WireContinues, [Next]_vars
    PROVE  WireContinues'
<1>1. CASE AppendEvent
  <2>1. /\ log \in Nat /\ wire \in Seq(mine) /\ mine \subseteq 1..log
        /\ \A i \in 1..Len(wire) : wire[i] \in mine
    BY Parts, ElementOfSeq
  <2>2. /\ wire' = wire /\ client' = client /\ handler' = handler
        /\ \A x \in mine' : x \in mine \/ x = log + 1
    BY <1>1 DEF AppendEvent
  <2>3. \A i \in 1..Len(wire) : Before(i)' = Before(i)
    BY <2>2 DEF Before
  <2>4. \A i \in 1..Len(wire) : wire[i] <= log + 1
    <3>1. \A e \in mine : e <= log + 1
      BY ONLY <2>1
    <3> QED
      BY <2>1, <3>1
  <2> QED
    BY <2>2, <2>3, <2>4 DEF WireContinues
<1>2. ASSUME wire' = wire, mine' = mine, client' = client, handler'.cursor = handler.cursor
      PROVE  WireContinues'
  <2>1. \A i \in 1..Len(wire) : Before(i)' = Before(i)
    BY <1>2 DEF Before
  <2> QED
    BY <1>2, <2>1 DEF WireContinues
<1>3. CASE Publish \/ Complete \/ EndFollow \/ UNCHANGED vars
  <2>1. handler'.cursor = handler.cursor
    BY <1>3, Parts DEF Publish, Complete, EndFollow, vars
  <2> QED
    BY <1>2, <1>3, <2>1 DEF Publish, Complete, EndFollow, vars
<1>4. CASE NextPage
  <2>1. handler'.cursor = handler.cursor
    BY <1>4 DEF NextPage, Reading
  <2> QED
    BY <1>2, <1>4, <2>1 DEF NextPage
<1>5. CASE Connect
  <2>1. wire' = <<>> /\ Len(wire') = 0 /\ client'.lastId = client.lastId
    BY <1>5, Parts DEF Connect
  <2>2. handler'.cursor = client.lastId
    BY <1>5 DEF Connect, Reading
  <2> QED
    BY <2>1, <2>2 DEF WireContinues
<1>6. CASE WritePage
  <2>1. PICK e \in handler.page : (\A x \in handler.page : e <= x) /\ Write(e)
    BY <1>6 DEF WritePage
  <2>2. e \in mine /\ client.conn = "open" /\ client' = client /\ mine' = mine
    BY <1>6, <2>1, Parts DEF WritePage, Connected
  <2>3. e > handler.cursor /\ \A x \in mine : x > handler.cursor => e <= x
    BY <1>6, <2>1, NextOfPage DEF WritePage
  <2> QED
    BY <2>1, <2>2, <2>3, WriteWire
<1>7. CASE Follow
  <2>1. /\ client.conn = "open" /\ client' = client /\ mine' = mine
        /\ handler.pc = "follow" /\ sub.queue # <<>>
    BY <1>7 DEF Follow, Connected
  <2>2. CASE Unwritten(Head(sub.queue))
    <3>1. Head(sub.queue) \in mine /\ Write(Head(sub.queue))
      BY <1>7, <2>1, <2>2, Parts, HeadTailProperties DEF Follow
    <3> QED
      BY <2>1, <2>2, <3>1, NextOfQueue, WriteWire
  <2>3. CASE ~Unwritten(Head(sub.queue))
    BY <1>2, <1>7, <2>1, <2>3 DEF Follow
  <2> QED
    BY <2>2, <2>3
<1>8. CASE Receive
  <2>1. /\ wire \in Seq(mine) /\ wire # <<>> /\ wire' = Tail(wire)
        /\ client'.lastId = Head(wire) /\ client'.conn = client.conn /\ client.conn = "open"
        /\ mine' = mine /\ handler' = handler
    BY <1>8, Parts DEF Receive
  <2>2. /\ Len(wire) \in Nat /\ Len(wire) >= 1 /\ Len(wire') = Len(wire) - 1
        /\ Head(wire) = wire[1]
        /\ \A i \in 1..Len(wire') : wire'[i] = wire[i + 1]
    BY <2>1, LenProperties, EmptySeq, HeadTailProperties
  <2>3. ASSUME NEW i \in 1..Len(wire')
        PROVE  /\ i + 1 \in 1..Len(wire) /\ wire'[i] = wire[i + 1]
               /\ Before(i)' = Before(i + 1)
    <3>1. i + 1 \in 1..Len(wire) /\ i + 1 - 1 = i /\ i + 1 # 1 /\ wire'[i] = wire[i + 1]
      BY <2>2
    <3>2. CASE i = 1
      BY <2>1, <2>2, <3>1, <3>2 DEF Before
    <3>3. CASE i # 1
      <4>1. i - 1 \in 1..Len(wire') /\ i - 1 + 1 = i
        BY <2>2, <3>3
      <4>2. wire'[i - 1] = wire[i]
        BY <2>2, <4>1
      <4> QED
        BY <3>1, <3>3, <4>2 DEF Before
    <3> QED
      BY <3>1, <3>2, <3>3
  <2>4. handler'.cursor = IF wire' = <<>> THEN client'.lastId ELSE wire'[Len(wire')]
    <3>1. handler.cursor = wire[Len(wire)]
      BY <2>1 DEF WireContinues
    <3>2. CASE Len(wire) = 1
      BY <2>1, <2>2, <3>1, <3>2, EmptySeq
    <3>3. CASE Len(wire) # 1
      <4>1. Len(wire') \in 1..Len(wire') /\ Len(wire') + 1 = Len(wire) /\ wire' # <<>>
        BY <2>2, <3>3
      <4> QED
        BY <2>1, <2>2, <3>1, <4>1
    <3> QED
      BY <3>2, <3>3
  <2>5. \A i \in 1..Len(wire') :
           /\ wire'[i] > Before(i)'
           /\ \A x \in mine' : x > Before(i)' => wire'[i] <= x
    BY <2>1, <2>3 DEF WireContinues
  <2> QED
    BY <2>4, <2>5 DEF WireContinues
<1>9. CASE EndOfStream \/ Drop \/ Refuse \/ Reopen \/ Crash
  <2>1. client'.conn # "open"
    BY <1>9, Parts DEF EndOfStream, Drop, Refuse, Reopen, Crash, Failed
  <2> QED
    BY <2>1 DEF WireContinues
<1> QED
  BY <1>1, <1>3, <1>4, <1>5, <1>6, <1>7, <1>8, <1>9 DEF Next

----------------------------------------------------------------------------
(* The theorems *)

LEMMA InitHolds ==
    ASSUME StreamAssumption, Init
    PROVE  IInv
<1>1. TypeOK
  BY EmptySeq DEF StreamAssumption, Init, TypeOK, NoSub, NoHandler, Event, Status
<1>2. Trying /\ Connected /\ LaneHolds /\ PageIsNext /\ NothingSkipped /\ WireContinues
  BY DEF StreamAssumption, Init, NoHandler, Trying, Connected, LaneHolds, PageIsNext,
         NothingSkipped, WireContinues
<1>3. QueueInOrder
  BY DEF Init, NoSub, QueueInOrder
<1> QED
  BY <1>1, <1>2, <1>3 DEF IInv

LEMMA Invariant == Spec => []IInv
<1>1. Init => IInv
  BY StreamAssumption, InitHolds
<1>2. IInv /\ [Next]_vars => IInv'
  BY StreamAssumption, StepTyped, StepLane, StepQueue, StepPage, StepSkipped, StepWire
     DEF IInv
<1> QED
  BY <1>1, <1>2, PTL DEF Spec

\* Events, rows, cursors and attempts keep their ranges.  In particular the
\* consumer never counts more failures than the one that stops it.
THEOREM StreamTypeCorrect == Spec => []TypeOK
<1>1. IInv => TypeOK
  BY DEF IInv
<1> QED
  BY <1>1, Invariant, PTL

\* Between the replay of the log and the subscription no event is lost, whatever
\* the sizes of the pages and wherever the outbox lane is when the handler
\* subscribes (event-routes.ts, realtime-relay.ts).
THEOREM NothingIsSkipped == Spec => []NothingSkipped
<1>1. IInv => NothingSkipped
  BY DEF IInv
<1> QED
  BY <1>1, Invariant, PTL

\* What is on a connection is the log from where the reader stands, without gap
\* or repetition, although the subscription may hold what was replayed.
THEOREM WireInOrder == Spec => []WireContinues
<1>1. IInv => WireContinues
  BY DEF IInv
<1> QED
  BY <1>1, Invariant, PTL

\* The reader is shown the log: each matching event once, in order, none left
\* out, through lost connections, renewed streams and crashes of the server.
THEOREM StreamImplementsLog == Spec => ImplementsLog
<1>1. Init => Log!Init
  BY DEF Init, Log!Init
<1>2. IInv /\ [Next]_vars => [Log!Commit \/ Log!Show]_<<mine, client.lastId>>
  <2> SUFFICES ASSUME IInv, [Next]_vars
               PROVE  [Log!Commit \/ Log!Show]_<<mine, client.lastId>>
    OBVIOUS
  <2>1. TypeOK /\ WireContinues
    BY DEF IInv
  <2>2. CASE AppendEvent
    <3>1. CASE mine' = mine
      BY <2>2, <3>1 DEF AppendEvent
    <3>2. CASE mine' = mine \cup {log + 1}
      <4>1. log + 1 \in Event /\ \A x \in mine : x < log + 1
        BY <2>1, <2>2, StreamAssumption, Parts DEF AppendEvent, TypeOK, Event, StreamAssumption
      <4> QED
        BY <2>2, <3>2, <4>1 DEF AppendEvent, Log!Commit
    <3> QED
      BY <2>2, <3>1, <3>2 DEF AppendEvent
  <2>3. CASE Receive
    <3>1. mine' = mine
      BY <2>3 DEF Receive
    <3> QED
      BY <2>1, <2>3, <3>1, ReceiveNext DEF Log!Show
  <2>4. CASE ~(AppendEvent \/ Receive)
    <3>1. mine' = mine
      BY <2>4 DEF Next, vars, Publish, Complete, Connect, WritePage, NextPage, Follow,
                  EndFollow, EndOfStream, Drop, Refuse, Reopen, Crash
    <3>2. client'.lastId = client.lastId
      BY <2>1, <2>4, Parts
         DEF Next, vars, Publish, Complete, Connect, WritePage, NextPage, Follow,
             EndFollow, EndOfStream, Drop, Refuse, Reopen, Crash, Failed
    <3> QED
      BY <3>1, <3>2
  <2> QED
    BY <2>2, <2>3, <2>4
<1> QED
  BY <1>1, <1>2, Invariant, PTL DEF Spec, ImplementsLog, Log!Spec
=============================================================================
