-------------------------- MODULE EventOutboxProofs -------------------------
(***************************************************************************)
(* Proofs about EventOutbox, for every limit and delay and any number of   *)
(* events, replays, faults and crashes.                                    *)
(*                                                                         *)
(* A pending entry is always available and was never tried, and the row in *)
(* the lane's hand is the one it dispatches: from these follow the wake,   *)
(* the bound on the attempts and the bound on the stranded rows.           *)
(***************************************************************************)
EXTENDS EventOutbox, FiniteSetTheorems, TLAPS

Pending == {e \in Event : row[e].status = "pending"}
StrandedRows == {e \in Event : Stranded(e)}

InHand ==
    /\ lane.entry # 0 <=> lane.pc = "dispatch"
    /\ lane.pc = "dispatch" => row[lane.entry].status = "processing" /\ lane.turn < BatchLimit

\* A row that may be claimed has an attempt left.
TriesLeft ==
    \A e \in Event : row[e].status \in {"none", "pending", "failed"} =>
        row[e].attempts < MaxRetryAttempts + (MaxCrashes - budget.crash)

PendingAvailable == \A e \in Pending : row[e].wait = 0

\* At the end of a run there is a reason to run again if an entry is pending.
WakeDue ==
    budget.fault = MaxFaults /\ lane.pc = "drained" /\ Pending # {} => RunsAgain

\* Types, the lane and its row, the pending rows and the attempts.
Shape == TypeOK /\ InHand /\ PendingAvailable /\ TriesLeft /\ TriesBounded

IInv == Shape /\ WakeDue /\ WakeKept /\ StrandedByFaults

----------------------------------------------------------------------------
(* Rows and lane *)

Rows == [status : {"none", "pending", "processing", "failed", "quarantined", "done"},
         attempts : 0..MaxRetryAttempts + MaxCrashes, wait : 0..RetryDelay]
Lanes == [pc : {"idle", "drain", "dispatch", "drained"}, timer : 0..PollInterval,
          woken : BOOLEAN, entry : 0..log, elapsed : 0..RetryDelay,
          turn : 0..BatchLimit]
Budgets == [replay : 0..MaxReplays, fault : 0..MaxFaults, crash : 0..MaxCrashes]

\* The constants and the records, part by part.
LEMMA Parts ==
    ASSUME OutboxAssumption, TypeOK
    PROVE  /\ MaxEvents \in Nat /\ RetryDelay \in Nat /\ PollInterval \in Nat
           /\ MaxReplays \in Nat /\ MaxFaults \in Nat /\ MaxCrashes \in Nat
           /\ MaxRetryAttempts \in Nat /\ MaxRetryAttempts > 0
           /\ BatchLimit \in Nat /\ BatchLimit > 0
           /\ log \in 0..MaxEvents /\ row \in [Event -> Rows] /\ lane \in Lanes /\ budget \in Budgets
           /\ \A e \in Event : row[e].status = "none" <=> e > log
<1> QED
  BY DEF OutboxAssumption, TypeOK, Rows, Lanes, Budgets

LEMMA WakeTyped ==
    ASSUME OutboxAssumption, TypeOK
    PROVE  /\ Wake \in Lanes /\ Wake.woken
           /\ Wake.pc = lane.pc /\ Wake.turn = lane.turn /\ Wake.entry = lane.entry
           /\ lane.pc = "idle" => Wake.timer = 0
<1> DEFINE t == IF lane.pc = "idle" THEN 0 ELSE lane.timer
<1>1. lane \in Lanes /\ t \in 0..PollInterval
  BY Parts DEF Lanes
<1>2. Wake = [lane EXCEPT !.woken = TRUE, !.timer = t]
  BY DEF Wake
<1>3. lane.pc = "idle" => t = 0
  OBVIOUS
<1> HIDE DEF t
<1> QED
  BY <1>1, <1>2, <1>3 DEF Lanes

LEMMA RequestedTyped ==
    ASSUME OutboxAssumption
    PROVE  Requested \in Rows
<1> QED
  BY DEF OutboxAssumption, Requested, Rows

LEMMA ScheduledTyped ==
    ASSUME OutboxAssumption, TypeOK, NEW again \in BOOLEAN
    PROVE  /\ Scheduled(again) \in Lanes /\ Scheduled(again).pc = "idle"
           /\ Scheduled(again).entry = 0 /\ (again => Scheduled(again).timer = 0)
<1> DEFINE t == IF again THEN 0 ELSE PollInterval
<1>1. t \in 0..PollInterval /\ RetryDelay \in Nat /\ BatchLimit \in Nat /\ log \in Nat
  BY Parts
<1>2. Scheduled(again) = [Started EXCEPT !.timer = t]
  BY DEF Scheduled
<1>3. again => t = 0
  OBVIOUS
<1> HIDE DEF t
<1>4. Started \in Lanes /\ Started.pc = "idle" /\ Started.entry = 0
  BY <1>1, Parts DEF Started, Lanes
<1> HIDE DEF Started
<1> QED
  BY <1>1, <1>2, <1>3, <1>4 DEF Lanes

\* What a step leaves, from the parts.
LEMMA Whole ==
    ASSUME log' \in 0..MaxEvents, row' \in [Event -> Rows], lane' \in Lanes', budget' \in Budgets,
           \A e \in Event : row'[e].status = "none" <=> e > log'
    PROVE  TypeOK'
<1> QED
  BY DEF TypeOK, Rows, Lanes, Budgets

LEMMA BudgetTyped ==
    ASSUME OutboxAssumption, TypeOK
    PROVE  /\ budget.replay > 0 => [budget EXCEPT !.replay = @ - 1] \in Budgets
           /\ budget.fault > 0 => [budget EXCEPT !.fault = @ - 1] \in Budgets
           /\ budget.crash > 0 => [budget EXCEPT !.crash = @ - 1] \in Budgets
<1>1. budget \in Budgets /\ MaxReplays \in Nat /\ MaxFaults \in Nat /\ MaxCrashes \in Nat
  BY Parts
<1> QED
  BY <1>1 DEF Budgets

\* What the two kinds of replay, and an event, do to the rows.
LEMMA RequestTyped ==
    ASSUME OutboxAssumption, TypeOK, NEW e \in Event, row' = [row EXCEPT ![e] = Requested]
    PROVE  /\ row' \in [Event -> Rows]
           /\ row'[e].status = "pending" /\ row'[e].attempts = 0 /\ row'[e].wait = 0
           /\ \A x \in Event \ {e} : row'[x] = row[x]
<1> QED
  BY Parts, RequestedTyped DEF Requested

\* The row a dispatch leaves, and the lane.
LEMMA LeaveTyped ==
    ASSUME OutboxAssumption, TypeOK, InHand, lane.pc = "dispatch",
           NEW r \in Rows, r.status # "none", Leave(r)
    PROVE  /\ TypeOK' /\ lane'.pc = "drain" /\ lane'.entry = 0
           /\ lane.entry \in Event /\ log' = log /\ budget'.crash = budget.crash
           /\ \A x \in Event \ {lane.entry} : row'[x] = row[x]
           /\ \/ row'[lane.entry] = r /\ budget' = budget
              \/ row' = row /\ budget.fault > 0 /\ budget'.fault = budget.fault - 1
<1>1. /\ lane \in Lanes /\ lane.entry \in Event /\ lane.turn + 1 \in 0..BatchLimit
      /\ row \in [Event -> Rows] /\ row[lane.entry].status # "none"
      /\ budget \in Budgets /\ BatchLimit \in Nat /\ RetryDelay \in Nat
  BY SMTT(30), Parts DEF InHand, Lanes, Event
<1>2. lane' \in Lanes /\ lane'.pc = "drain" /\ lane'.entry = 0
  <2>1. 0 \in 0..log /\ 0 \in 0..RetryDelay
    BY Parts
  <2> QED
    BY <1>1, <2>1 DEF Leave, Lanes
<1>3. log' = log /\ Lanes' = Lanes
  BY DEF Leave, Lanes
<1>4. CASE row' = [row EXCEPT ![lane.entry] = r] /\ UNCHANGED budget
  <2>1. /\ row' \in [Event -> Rows] /\ row'[lane.entry] = r
        /\ \A x \in Event \ {lane.entry} : row'[x] = row[x]
    BY <1>1, <1>4
  <2>2. \A e \in Event : row'[e].status = "none" <=> e > log'
    BY <1>1, <1>3, <2>1, Parts
  <2> QED
    BY <1>1, <1>2, <1>3, <1>4, <2>1, <2>2, Whole, Parts
<1>5. CASE budget.fault > 0 /\ budget' = [budget EXCEPT !.fault = @ - 1] /\ UNCHANGED row
  <2>1. budget' \in Budgets /\ budget'.fault = budget.fault - 1 /\ budget'.crash = budget.crash
    BY <1>1, <1>5, BudgetTyped DEF Budgets
  <2>2. TypeOK'
    BY <1>1, <1>2, <1>3, <1>5, <2>1, Whole, Parts
  <2> QED
    BY <1>1, <1>2, <1>3, <1>5, <2>1, <2>2
<1> QED
  BY <1>4, <1>5 DEF Leave

\* What a dispatch that ends makes of its row.
LEMMA DispatchLeaves ==
    ASSUME OutboxAssumption, TypeOK, InHand, DispatchSucceeds \/ DispatchFails
    PROVE  /\ lane.pc = "dispatch"
           /\ \E r \in Rows :
                /\ Leave(r) /\ r.attempts = row[lane.entry].attempts
                /\ r.status \in {"done", "quarantined", "failed"}
                /\ r.status = "failed" => r.attempts < MaxRetryAttempts
<1>1. lane.pc = "dispatch"
  BY DEF DispatchSucceeds, DispatchFails
<1>2. /\ Entry \in Rows /\ lane.elapsed \in 0..RetryDelay /\ RetryDelay \in Nat
  BY <1>1, Parts DEF InHand, Lanes, Entry, Event
<1>3. ASSUME NEW s \in {"done", "quarantined"}, Leave([Entry EXCEPT !.status = s])
      PROVE  \E r \in Rows :
                /\ Leave(r) /\ r.attempts = row[lane.entry].attempts
                /\ r.status \in {"done", "quarantined", "failed"}
                /\ r.status = "failed" => r.attempts < MaxRetryAttempts
  <2> DEFINE r == [Entry EXCEPT !.status = s]
  <2>1. r \in Rows /\ r.attempts = Entry.attempts /\ r.status = s
    BY <1>2 DEF Rows
  <2> HIDE DEF r
  <2>2. Leave(r)
    BY <1>3 DEF r
  <2> QED
    BY <2>1, <2>2 DEF Entry
<1>4. CASE Retry /\ ~Spent(Entry)
  <2> DEFINE r == [Entry EXCEPT !.status = "failed", !.wait = RetryDelay - lane.elapsed]
  <2>1. r \in Rows /\ r.attempts = Entry.attempts /\ r.status = "failed"
    <3>1. RetryDelay - lane.elapsed \in 0..RetryDelay
      BY <1>2
    <3> QED
      BY <1>2, <3>1 DEF Rows
  <2>2. Entry.attempts < MaxRetryAttempts
    BY <1>2, <1>4, Parts DEF Spent, Rows
  <2> HIDE DEF r
  <2>3. Leave(r)
    BY <1>4 DEF Retry, r
  <2>4. r.attempts = row[lane.entry].attempts /\ r.attempts < MaxRetryAttempts
    BY <2>1, <2>2 DEF Entry
  <2> QED
    BY <1>1, <2>1, <2>3, <2>4
<1>5. CASE Quarantine
  <2>1. Leave([Entry EXCEPT !.status = "quarantined"])
    BY <1>5 DEF Quarantine
  <2> QED
    BY <1>1, <1>3, <2>1
<1>6. CASE DispatchSucceeds
  BY <1>1, <1>3, <1>6 DEF DispatchSucceeds
<1> QED
  BY <1>1, <1>4, <1>5, <1>6 DEF DispatchFails

----------------------------------------------------------------------------
(* The steps *)

LEMMA StepShape ==
    ASSUME OutboxAssumption, Shape, [Next]_vars
    PROVE  Shape'
<1> USE DEF Shape, PendingAvailable, Pending, TriesLeft, TriesBounded
<1>0. /\ row \in [Event -> Rows] /\ lane \in Lanes /\ budget \in Budgets /\ log \in 0..MaxEvents
      /\ MaxEvents \in Nat /\ MaxRetryAttempts \in Nat /\ MaxRetryAttempts > 0
      /\ MaxCrashes \in Nat /\ budget.crash \in 0..MaxCrashes /\ BatchLimit \in Nat /\ BatchLimit > 0
      /\ PollInterval \in Nat /\ RetryDelay \in Nat
      /\ \A e \in Event : row[e].attempts \in Nat
  BY Parts DEF Budgets, Rows
<1>1. ASSUME NEW e \in Event, row' = [row EXCEPT ![e] = Requested], row[e].status # "processing",
             lane' = Wake, log' \in 0..MaxEvents, log \in 0..log', e <= log',
             \A x \in Event \ {e} : x > log <=> x > log',
             budget' \in Budgets, budget'.crash = budget.crash
      PROVE  Shape'
  <2>1. /\ row' \in [Event -> Rows]
        /\ row'[e].status = "pending" /\ row'[e].attempts = 0 /\ row'[e].wait = 0
        /\ \A x \in Event \ {e} : row'[x] = row[x]
    BY <1>1, RequestTyped
  <2>2. lane' \in Lanes'
    BY <1>0, <1>1, WakeTyped DEF Lanes
  <2>3. \A x \in Event : row'[x].status = "none" <=> x > log'
    <3>1. ASSUME NEW x \in Event, x # e
          PROVE  row'[x].status = "none" <=> x > log'
      <4>1. row'[x] = row[x] /\ (x > log <=> x > log') /\ (row[x].status = "none" <=> x > log)
        BY <1>1, <2>1, <3>1, Parts
      <4> QED
        BY <4>1
    <3>2. row'[e].status # "none" /\ ~(e > log')
      <4>1. e \in Nat /\ log' \in Nat /\ e <= log'
        BY <1>0, <1>1 DEF Event
      <4> QED
        BY <2>1, <4>1
    <3> QED
      BY <3>1, <3>2
  <2>4. TypeOK'
    BY <1>1, <2>1, <2>2, <2>3, Whole
  <2>5. InHand'
    <3>1. lane'.pc = lane.pc /\ lane'.entry = lane.entry /\ lane'.turn = lane.turn
      BY <1>1, WakeTyped
    <3>2. CASE lane.pc = "dispatch"
      <4>1. lane.entry \in Event \ {e}
        <5>1. lane.entry \in 0..log /\ lane.entry # 0
          BY <1>0, <3>2 DEF InHand, Lanes
        <5>2. lane.entry \in Event
          BY <1>0, <5>1 DEF Event
        <5> QED
          BY <1>1, <3>2, <5>2 DEF InHand
      <4> QED
        BY <2>1, <3>1, <3>2, <4>1 DEF InHand
    <3>3. CASE lane.pc # "dispatch"
      BY <3>1, <3>3 DEF InHand
    <3> QED
      BY <3>2, <3>3
  <2>6. PendingAvailable'
    BY <2>1
  <2>7. TriesLeft' /\ TriesBounded'
    BY <1>0, <1>1, <2>1
  <2> QED
    BY <2>4, <2>5, <2>6, <2>7
<1>2. ASSUME row' = row, log' = log, lane' \in Lanes, budget' \in Budgets,
             budget'.crash = budget.crash, InHand'
      PROVE  Shape'
  <2>1. TypeOK'
    BY <1>0, <1>2, Whole, Parts DEF Lanes
  <2> QED
    BY <1>2, <2>1
<1>3. CASE AppendEvent
  <2>1. /\ log + 1 \in Event /\ row[log + 1].status = "none" /\ log' = log + 1
        /\ log' \in 0..MaxEvents /\ budget' = budget
    BY <1>0, <1>3, Parts DEF AppendEvent, Event
  <2>2. \A x \in Event \ {log + 1} : x > log <=> x > log'
    BY <1>0, <2>1 DEF Event
  <2>3. log \in 0..log' /\ log + 1 <= log' /\ row[log + 1].status # "processing"
    BY <1>0, <2>1
  <2>4. /\ row' = [row EXCEPT ![log + 1] = Requested] /\ lane' = Wake
        /\ budget' \in Budgets /\ budget'.crash = budget.crash
    BY <1>0, <1>3, <2>1 DEF AppendEvent
  <2> QED
    BY <1>1, <2>1, <2>2, <2>3, <2>4
<1>4. ASSUME lane' = Wake
      PROVE  lane' \in Lanes /\ (row' = row => InHand')
  BY <1>4, WakeTyped DEF InHand
<1>5. CASE AppendOther
  BY <1>0, <1>2, <1>4, <1>5 DEF AppendOther
<1>6. CASE EnqueueReplay \/ ReplayQuarantined
  <2>1. budget' \in Budgets /\ budget'.crash = budget.crash /\ lane' = Wake /\ log' = log
    BY <1>0, <1>6, BudgetTyped DEF EnqueueReplay, ReplayQuarantined, Budgets
  <2>2. CASE row' = row
    BY <1>2, <1>4, <2>1, <2>2
  <2>3. CASE row' # row
    <3>1. PICK e \in 1..log : /\ row[e].status # "processing"
                              /\ row' = [row EXCEPT ![e] = Requested]
      BY <1>6, <2>3 DEF EnqueueReplay, ReplayQuarantined
    <3>2. e \in Event /\ e <= log' /\ log' \in 0..MaxEvents /\ log \in 0..log'
      BY <1>0, <2>1, <3>1 DEF Event
    <3>3. \A x \in Event \ {e} : x > log <=> x > log'
      BY <2>1
    <3> QED
      BY <1>1, <2>1, <3>1, <3>2, <3>3
  <2> QED
    BY <2>2, <2>3
<1>7. CASE TimerFires
  <2>1. lane' \in Lanes /\ lane'.pc = "drain" /\ lane'.entry = lane.entry
    <3>1. 0 \in 0..BatchLimit
      BY <1>0
    <3> QED
      BY <1>0, <1>7, <3>1 DEF TimerFires, Lanes
  <2>2. InHand'
    BY <1>7, <2>1 DEF TimerFires, InHand
  <2> QED
    BY <1>0, <1>2, <1>7, <2>1, <2>2 DEF TimerFires
<1>8. CASE Claim
  <2>1. PICK e \in Claimable : /\ row' = [row EXCEPT ![e].status = "processing", ![e].attempts = @ + 1]
                               /\ lane' = [lane EXCEPT !.pc = "dispatch", !.entry = e, !.elapsed = 0]
    BY <1>8 DEF Claim
  <2>2. e \in Event /\ row[e].status \in {"pending", "failed"} /\ e <= log
    BY SMTT(30), <1>0, <2>1, Parts DEF Claimable, Event
  <2>3. row[e].attempts + 1 \in 0..MaxRetryAttempts + MaxCrashes
    BY <1>0, <2>2
  <2>4. /\ row' \in [Event -> Rows]
        /\ row'[e].status = "processing" /\ row'[e].attempts = row[e].attempts + 1
        /\ \A x \in Event \ {e} : row'[x] = row[x]
    BY <1>0, <2>1, <2>2, <2>3 DEF Rows
  <2>5. /\ lane' \in Lanes /\ lane'.pc = "dispatch" /\ lane'.entry = e /\ lane'.turn = lane.turn
        /\ e # 0
    <3>1. e \in 0..log /\ e # 0 /\ 0 \in 0..RetryDelay
      BY <1>0, <2>2 DEF Event
    <3> QED
      BY <1>0, <2>1, <3>1 DEF Lanes
  <2>6. log' = log /\ budget' = budget /\ lane.turn < BatchLimit /\ Lanes' = Lanes
    BY <1>8 DEF Claim, Lanes
  <2>7. \A x \in Event : row'[x].status = "none" <=> x > log'
    BY <1>0, <2>2, <2>4, <2>6, Parts DEF Event
  <2>8. TypeOK'
    BY <1>0, <2>4, <2>5, <2>6, <2>7, Whole
  <2>9. InHand'
    BY <2>4, <2>5, <2>6 DEF InHand
  <2>10. PendingAvailable' /\ TriesLeft' /\ TriesBounded'
    BY <1>0, <2>2, <2>4, <2>6
  <2> QED
    BY <2>8, <2>9, <2>10
<1>9. CASE DispatchSucceeds \/ DispatchFails
  <2>1. PICK r \in Rows : /\ Leave(r) /\ r.attempts = row[lane.entry].attempts
                          /\ r.status \in {"done", "quarantined", "failed"}
                          /\ r.status = "failed" => r.attempts < MaxRetryAttempts
    BY <1>9, DispatchLeaves
  <2>2. lane.pc = "dispatch"
    BY <1>9, DispatchLeaves
  <2>3. /\ TypeOK' /\ lane'.pc = "drain" /\ lane'.entry = 0
        /\ lane.entry \in Event /\ budget'.crash = budget.crash
        /\ \A x \in Event \ {lane.entry} : row'[x] = row[x]
        /\ row'[lane.entry] = r \/ row' = row
    BY <2>1, <2>2, LeaveTyped
  <2>4. InHand'
    BY <2>3 DEF InHand
  <2>5. CASE row' = row
    BY <2>3, <2>4, <2>5
  <2>6. CASE row'[lane.entry] = r
    BY <1>0, <2>1, <2>3, <2>4, <2>6
  <2> QED
    BY <2>3, <2>5, <2>6
<1>10. CASE DispatchThrows
  <2>1. budget' \in Budgets /\ budget'.crash = budget.crash
    BY <1>0, <1>10, BudgetTyped DEF DispatchThrows, Budgets
  <2>2. lane' \in Lanes /\ lane'.pc = "idle" /\ lane'.entry = 0
    <3>1. lane.woken \in BOOLEAN
      BY <1>0 DEF Lanes
    <3> QED
      BY <1>10, <3>1, ScheduledTyped DEF DispatchThrows
  <2>3. InHand'
    BY <2>2 DEF InHand
  <2> QED
    BY <1>2, <1>10, <2>1, <2>2, <2>3 DEF DispatchThrows
<1>11. CASE NothingLeft
  <2>1. lane' \in Lanes /\ InHand'
    BY <1>0, <1>11 DEF NothingLeft, Lanes, InHand
  <2> QED
    BY <1>0, <1>2, <1>11, <2>1 DEF NothingLeft
<1>12. CASE EndRun
  <2>1. RunsAgain \in BOOLEAN
    BY <1>0 DEF RunsAgain, Lanes
  <2>2. lane' \in Lanes /\ lane'.pc = "idle" /\ lane'.entry = 0
    BY <1>12, <2>1, ScheduledTyped DEF EndRun
  <2>3. InHand'
    BY <2>2 DEF InHand
  <2> QED
    BY <1>0, <1>2, <1>12, <2>2, <2>3 DEF EndRun
<1> DEFINE Same(r, s) == r \in Rows /\ r.status = s.status /\ r.attempts = s.attempts
<1>13. CASE Tick
  <2>1. \A e \in Event : Same(row'[e], row[e]) /\ row'[e].wait = Down(row[e].wait)
    <3> SUFFICES ASSUME NEW e \in Event
                 PROVE  Same(row'[e], row[e]) /\ row'[e].wait = Down(row[e].wait)
      OBVIOUS
    <3>1. row'[e] = [row[e] EXCEPT !.wait = Down(row[e].wait)]
      BY <1>13 DEF Tick
    <3>2. row[e] \in Rows /\ Down(row[e].wait) \in 0..RetryDelay
      BY <1>0 DEF Rows, Down
    <3> QED
      BY <3>1, <3>2 DEF Rows
  <2>2. row' \in [Event -> Rows]
    BY <1>13, <2>1 DEF Tick
  <2>3. /\ lane' \in Lanes /\ lane'.pc = lane.pc /\ lane'.entry = lane.entry
        /\ lane'.turn = lane.turn
    <3> DEFINE t == Down(lane.timer)
               l == IF lane.pc = "dispatch" /\ lane.elapsed < RetryDelay
                    THEN lane.elapsed + 1 ELSE lane.elapsed
    <3>1. t \in 0..PollInterval /\ l \in 0..RetryDelay
      BY <1>0 DEF Lanes, Down
    <3>2. lane' = [lane EXCEPT !.timer = t, !.elapsed = l]
      BY <1>13 DEF Tick
    <3> HIDE DEF t, l
    <3> QED
      BY <1>0, <3>1, <3>2 DEF Lanes
  <2>4. log' = log /\ budget' = budget /\ Lanes' = Lanes
    BY <1>13 DEF Tick, Lanes
  <2>5. TypeOK'
    BY <1>0, <2>1, <2>2, <2>3, <2>4, Whole, Parts
  <2>6. InHand'
    <3>1. lane.pc = "dispatch" => lane.entry \in Event
      BY SMTT(30), <1>0 DEF InHand, Lanes, Event
    <3> QED
      BY <2>1, <2>3, <3>1 DEF InHand
  <2>7. PendingAvailable' /\ TriesLeft' /\ TriesBounded'
    BY <2>1, <2>4 DEF Down
  <2> QED
    BY <2>5, <2>6, <2>7
<1>14. CASE Crash
  <2>1. \A e \in Event :
           /\ row'[e] \in Rows /\ row'[e].attempts = row[e].attempts
           /\ row[e].status # "processing" => row'[e] = row[e]
           /\ row[e].status = "processing" => row'[e].status = "failed"
    <3> SUFFICES ASSUME NEW e \in Event
                 PROVE  /\ row'[e] \in Rows /\ row'[e].attempts = row[e].attempts
                        /\ row[e].status # "processing" => row'[e] = row[e]
                        /\ row[e].status = "processing" => row'[e].status = "failed"
      OBVIOUS
    <3>1. row'[e] = Recovered(row[e]) /\ row[e] \in Rows /\ 0 \in 0..RetryDelay
      BY <1>0, <1>14 DEF Crash
    <3>2. CASE row[e].status = "processing"
      <4>1. row'[e] = [row[e] EXCEPT !.status = "failed", !.wait = 0]
        BY <3>1, <3>2 DEF Recovered
      <4> QED
        BY <3>1, <3>2, <4>1 DEF Rows
    <3>3. CASE row[e].status # "processing"
      BY <3>1, <3>3 DEF Recovered
    <3> QED
      BY <3>2, <3>3
  <2>2. row' \in [Event -> Rows]
    BY <1>14, <2>1 DEF Crash
  <2>3. budget' \in Budgets /\ budget'.crash = budget.crash - 1 /\ budget.crash > 0
    BY <1>0, <1>14, BudgetTyped DEF Crash, Budgets
  <2>4. lane' \in Lanes /\ lane'.pc = "idle" /\ lane'.entry = 0
    BY <1>0, <1>14 DEF Crash, Started, Lanes
  <2>5. log' = log /\ Lanes' = Lanes
    BY <1>14 DEF Crash, Lanes
  <2>6. TypeOK'
    BY <1>0, <2>1, <2>2, <2>3, <2>4, <2>5, Whole, Parts
  <2>7. InHand'
    BY <2>4 DEF InHand
  <2>8. PendingAvailable' /\ TriesLeft' /\ TriesBounded'
    BY <1>0, <2>1, <2>3
  <2> QED
    BY <2>6, <2>7, <2>8
<1>15. CASE UNCHANGED vars
  <2>1. InHand'
    BY <1>15 DEF vars, InHand
  <2> QED
    BY <1>0, <1>2, <1>15, <2>1 DEF vars
<1> QED
  BY <1>3, <1>5, <1>6, <1>7, <1>8, <1>9, <1>10, <1>11, <1>12, <1>13, <1>14, <1>15 DEF Next

LEMMA StepWake ==
    ASSUME OutboxAssumption, Shape, WakeDue, WakeKept, [Next]_vars
    PROVE  WakeDue' /\ WakeKept'
<1> USE DEF Shape
<1>0. /\ row \in [Event -> Rows] /\ lane \in Lanes /\ budget \in Budgets
      /\ MaxFaults \in Nat /\ budget.fault \in 0..MaxFaults /\ BatchLimit \in Nat /\ BatchLimit > 0
  BY Parts DEF Budgets
<1>1. ASSUME lane'.pc \notin {"idle", "drained"}
      PROVE  WakeDue' /\ WakeKept'
  BY <1>1 DEF WakeDue, WakeKept
<1>2. ASSUME lane' = Wake
      PROVE  WakeDue' /\ WakeKept'
  <2>1. /\ lane'.pc = "idle" => lane'.timer = 0
        /\ lane'.woken
    BY <1>2, WakeTyped
  <2> QED
    BY <2>1 DEF WakeDue, WakeKept, RunsAgain
<1>3. CASE AppendEvent \/ AppendOther \/ EnqueueReplay \/ ReplayQuarantined
  BY <1>2, <1>3 DEF AppendEvent, AppendOther, EnqueueReplay, ReplayQuarantined
<1>4. CASE TimerFires \/ Claim
  <2>1. lane'.pc \in {"drain", "dispatch"}
    BY <1>0, <1>4 DEF TimerFires, Claim, Lanes
  <2> QED
    BY <1>1, <2>1
<1>5. CASE DispatchSucceeds \/ DispatchFails
  <2>1. lane'.pc = "drain"
    BY <1>5, DispatchLeaves, LeaveTyped
  <2> QED
    BY <1>1, <2>1
<1>6. CASE DispatchThrows
  <2>1. budget'.fault # MaxFaults
    BY <1>0, <1>6 DEF DispatchThrows, Budgets
  <2> QED
    BY <2>1 DEF WakeDue, WakeKept
<1>7. CASE NothingLeft
  <2>1. lane'.pc = "drained" /\ lane'.turn = lane.turn /\ row' = row
    BY <1>0, <1>7 DEF NothingLeft, Lanes
  <2>2. Pending # {} => Claimable # {}
    BY DEF PendingAvailable, Pending, Claimable
  <2>3. Pending' # {} => RunsAgain'
    BY <1>0, <1>7, <2>1, <2>2 DEF NothingLeft, RunsAgain, Pending
  <2> QED
    BY <2>1, <2>3 DEF WakeDue, WakeKept
<1>8. CASE EndRun
  <2>1. RunsAgain \in BOOLEAN
    BY <1>0 DEF RunsAgain, Lanes
  <2>2. lane'.pc = "idle" /\ (RunsAgain => lane'.timer = 0)
    BY <1>8, <2>1, ScheduledTyped DEF EndRun
  <2>3. lane.pc = "drained" /\ row' = row /\ budget' = budget
    BY <1>8 DEF EndRun
  <2> QED
    BY <2>2, <2>3 DEF WakeDue, WakeKept, Pending
<1>9. CASE Tick
  <2>1. /\ lane'.pc = lane.pc /\ lane'.timer = Down(lane.timer) /\ lane'.woken = lane.woken
        /\ lane'.turn = lane.turn /\ budget' = budget
    <3> DEFINE l == IF lane.pc = "dispatch" /\ lane.elapsed < RetryDelay
                    THEN lane.elapsed + 1 ELSE lane.elapsed
               t == Down(lane.timer)
    <3>1. lane' = [lane EXCEPT !.timer = t, !.elapsed = l] /\ budget' = budget
      BY <1>9 DEF Tick
    <3> HIDE DEF l, t
    <3>2. /\ lane'.pc = lane.pc /\ lane'.timer = t /\ lane'.woken = lane.woken
          /\ lane'.turn = lane.turn
      BY <1>0, <3>1 DEF Lanes
    <3> QED
      BY <3>1, <3>2 DEF t
  <2>2. \A e \in Event : row'[e].status = row[e].status
    <3> SUFFICES ASSUME NEW e \in Event
                 PROVE  row'[e].status = row[e].status
      OBVIOUS
    <3>1. row'[e] = [row[e] EXCEPT !.wait = Down(row[e].wait)] /\ row[e] \in Rows
      BY <1>0, <1>9 DEF Tick
    <3> QED
      BY <3>1 DEF Rows
  <2>3. Pending' = Pending /\ RunsAgain' = RunsAgain
    BY <2>1, <2>2 DEF Pending, RunsAgain
  <2>4. WakeDue'
    BY <2>1, <2>3 DEF WakeDue
  <2>5. WakeKept'
    BY <2>1, <2>2 DEF WakeKept, Down
  <2> QED
    BY <2>4, <2>5
<1>10. CASE Crash
  <2>1. lane'.pc = "idle" /\ lane'.timer = 0
    BY <1>10 DEF Crash, Started
  <2> QED
    BY <2>1 DEF WakeDue, WakeKept
<1>11. CASE UNCHANGED vars
  BY <1>11 DEF vars, WakeDue, WakeKept, Pending, RunsAgain
<1> QED
  BY <1>3, <1>4, <1>5, <1>6, <1>7, <1>8, <1>9, <1>10, <1>11 DEF Next, Dispatched

----------------------------------------------------------------------------
(* Stranded rows *)

LEMMA StrandedFinite ==
    ASSUME OutboxAssumption
    PROVE  IsFiniteSet(Event)
<1> QED
  BY FS_Interval DEF Event, OutboxAssumption

\* Only a fault adds a stranded row, and only the one in hand.
LEMMA StrandedStep ==
    ASSUME OutboxAssumption, Shape, [Next]_vars
    PROVE  \/ StrandedRows' \subseteq StrandedRows /\ budget'.fault = budget.fault
           \/ /\ StrandedRows' \subseteq StrandedRows \cup {lane.entry}
              /\ budget'.fault = budget.fault - 1
<1> USE DEF Shape
<1>0. /\ row \in [Event -> Rows] /\ lane \in Lanes /\ budget \in Budgets
      /\ log \in 0..MaxEvents /\ MaxEvents \in Nat
  BY Parts
<1>1. ASSUME lane'.entry = lane.entry \/ lane.pc # "dispatch",
             \A e \in Event : row'[e].status = "processing" =>
                                row[e].status = "processing" \/ lane'.entry = e
      PROVE  StrandedRows' \subseteq StrandedRows
  BY <1>0, <1>1 DEF StrandedRows, Stranded, InHand, Event
<1>2. CASE AppendEvent \/ AppendOther \/ EnqueueReplay \/ ReplayQuarantined
  <2>1. lane'.entry = lane.entry
    BY <1>2, WakeTyped DEF AppendEvent, AppendOther, EnqueueReplay, ReplayQuarantined
  <2>2. row' = row \/ \E e \in Event : row' = [row EXCEPT ![e] = Requested]
    BY <1>0, <1>2 DEF AppendEvent, AppendOther, EnqueueReplay, ReplayQuarantined, Event
  <2>3. \A e \in Event : row'[e].status = "processing" => row[e].status = "processing"
    BY <1>0, <2>2, RequestTyped DEF Requested
  <2>4. budget'.fault = budget.fault
    BY <1>0, <1>2 DEF AppendEvent, AppendOther, EnqueueReplay, ReplayQuarantined, Budgets
  <2> QED
    BY <1>1, <2>1, <2>3, <2>4
<1>3. CASE TimerFires \/ NothingLeft
  <2>1. lane'.entry = lane.entry /\ row' = row /\ budget' = budget
    BY <1>0, <1>3 DEF TimerFires, NothingLeft, Lanes
  <2> QED
    BY <1>1, <2>1
<1>4. CASE Claim
  <2>1. PICK e \in Claimable : /\ row' = [row EXCEPT ![e].status = "processing", ![e].attempts = @ + 1]
                               /\ lane' = [lane EXCEPT !.pc = "dispatch", !.entry = e, !.elapsed = 0]
    BY <1>4 DEF Claim
  <2>2. lane'.entry = e /\ lane.pc = "drain" /\ budget' = budget
    BY <1>0, <1>4, <2>1 DEF Claim, Lanes
  <2>3. \A x \in Event : x # e => row'[x] = row[x]
    BY <1>0, <2>1
  <2> QED
    BY <1>1, <2>2, <2>3
<1>5. CASE DispatchSucceeds \/ DispatchFails
  <2>1. PICK r \in Rows : Leave(r) /\ r.status \in {"done", "quarantined", "failed"}
    BY <1>5, DispatchLeaves
  <2>2. lane.pc = "dispatch"
    BY <1>5, DispatchLeaves
  <2>3. /\ lane'.entry = 0 /\ lane.entry \in Event
        /\ \A x \in Event \ {lane.entry} : row'[x] = row[x]
        /\ \/ row'[lane.entry] = r /\ budget' = budget
           \/ row' = row /\ budget'.fault = budget.fault - 1
    BY <2>1, <2>2, LeaveTyped
  <2>4. CASE row'[lane.entry] = r /\ budget' = budget
    BY <2>1, <2>3, <2>4 DEF StrandedRows, Stranded
  <2>5. CASE row' = row /\ budget'.fault = budget.fault - 1
    BY <2>3, <2>5 DEF StrandedRows, Stranded
  <2> QED
    BY <2>3, <2>4, <2>5
<1>6. CASE DispatchThrows
  <2>1. row' = row /\ budget'.fault = budget.fault - 1
    BY <1>0, <1>6 DEF DispatchThrows, Budgets
  <2> QED
    BY <2>1 DEF StrandedRows, Stranded
<1>7. CASE EndRun
  <2>1. lane.pc = "drained" /\ row' = row /\ budget' = budget
    BY <1>7 DEF EndRun
  <2> QED
    BY <1>1, <2>1
<1>8. CASE Tick
  <2>1. lane'.entry = lane.entry /\ budget' = budget
    <3> DEFINE l == IF lane.pc = "dispatch" /\ lane.elapsed < RetryDelay
                    THEN lane.elapsed + 1 ELSE lane.elapsed
               t == Down(lane.timer)
    <3>1. lane' = [lane EXCEPT !.timer = t, !.elapsed = l] /\ budget' = budget
      BY <1>8 DEF Tick
    <3> HIDE DEF l, t
    <3> QED
      BY <1>0, <3>1 DEF Lanes
  <2>2. \A e \in Event : row'[e].status = row[e].status
    <3> SUFFICES ASSUME NEW e \in Event
                 PROVE  row'[e].status = row[e].status
      OBVIOUS
    <3>1. row'[e] = [row[e] EXCEPT !.wait = Down(row[e].wait)] /\ row[e] \in Rows
      BY <1>0, <1>8 DEF Tick
    <3> QED
      BY <3>1 DEF Rows
  <2> QED
    BY <1>1, <2>1, <2>2
<1>9. CASE Crash
  <2>1. \A e \in Event : row'[e].status # "processing"
    <3> SUFFICES ASSUME NEW e \in Event
                 PROVE  row'[e].status # "processing"
      OBVIOUS
    <3>1. row'[e] = Recovered(row[e]) /\ row[e] \in Rows
      BY <1>0, <1>9 DEF Crash
    <3> QED
      BY <3>1 DEF Recovered, Rows
  <2>2. budget'.fault = budget.fault
    BY <1>0, <1>9 DEF Crash, Budgets
  <2> QED
    BY <2>1, <2>2 DEF StrandedRows, Stranded
<1>10. CASE UNCHANGED vars
  BY <1>10 DEF vars, StrandedRows, Stranded
<1> QED
  BY <1>2, <1>3, <1>4, <1>5, <1>6, <1>7, <1>8, <1>9, <1>10 DEF Next

LEMMA StepStranded ==
    ASSUME OutboxAssumption, Shape, StrandedByFaults, [Next]_vars
    PROVE  StrandedByFaults'
<1>1. IsFiniteSet(StrandedRows) /\ Cardinality(StrandedRows) \in Nat
  BY StrandedFinite, FS_Subset, FS_CardinalityType DEF StrandedRows
<1>2. /\ MaxFaults \in Nat /\ budget.fault \in 0..MaxFaults
      /\ Cardinality(StrandedRows) <= MaxFaults - budget.fault
  BY Parts DEF Shape, Budgets, StrandedByFaults, StrandedRows
<1>3. CASE StrandedRows' \subseteq StrandedRows /\ budget'.fault = budget.fault
  <2>1. Cardinality(StrandedRows') <= Cardinality(StrandedRows) /\ Cardinality(StrandedRows') \in Nat
    BY <1>1, <1>3, FS_Subset, FS_CardinalityType
  <2> QED
    BY <1>1, <1>2, <1>3, <2>1 DEF StrandedByFaults, StrandedRows
<1>4. CASE /\ StrandedRows' \subseteq StrandedRows \cup {lane.entry}
           /\ budget'.fault = budget.fault - 1
  <2> DEFINE S == StrandedRows \cup {lane.entry}
  <2>1. IsFiniteSet(S) /\ Cardinality(S) <= Cardinality(StrandedRows) + 1 /\ Cardinality(S) \in Nat
    <3>1. IsFiniteSet(S) /\ (Cardinality(S) = Cardinality(StrandedRows)
                              \/ Cardinality(S) = Cardinality(StrandedRows) + 1)
      BY <1>1, FS_AddElement
    <3> QED
      BY <1>1, <3>1
  <2>2. Cardinality(StrandedRows') <= Cardinality(S) /\ Cardinality(StrandedRows') \in Nat
    BY <1>4, <2>1, FS_Subset, FS_CardinalityType
  <2>3. Cardinality(StrandedRows') <= MaxFaults - budget'.fault
    BY <1>1, <1>2, <1>4, <2>1, <2>2
  <2> QED
    BY <2>3 DEF StrandedByFaults, StrandedRows
<1> QED
  BY <1>3, <1>4, StrandedStep

----------------------------------------------------------------------------
(* The theorems *)

LEMMA InitHolds ==
    ASSUME OutboxAssumption, Init
    PROVE  IInv
<1> USE DEF OutboxAssumption, Init, Started, NoRow, Event
<1>1. TypeOK
  BY DEF TypeOK
<1>2. InHand /\ PendingAvailable /\ TriesLeft /\ TriesBounded
  BY DEF InHand, PendingAvailable, Pending, TriesLeft, TriesBounded
<1>3. WakeDue /\ WakeKept
  BY DEF WakeDue, WakeKept
<1>4. StrandedByFaults
  <2>1. {e \in Event : Stranded(e)} = {}
    BY DEF Stranded
  <2>2. Cardinality({e \in Event : Stranded(e)}) = 0
    BY <2>1, FS_EmptySet
  <2>3. MaxFaults - budget.fault = 0
    OBVIOUS
  <2> QED
    BY ONLY <2>2, <2>3 DEF StrandedByFaults
<1> QED
  BY <1>1, <1>2, <1>3, <1>4 DEF IInv, Shape

LEMMA Invariant == Spec => []IInv
<1>1. Init => IInv
  BY OutboxAssumption, InitHolds
<1>2. IInv /\ [Next]_vars => IInv'
  BY OutboxAssumption, StepShape, StepWake, StepStranded DEF IInv
<1> QED
  BY <1>1, <1>2, PTL DEF Spec

\* Rows and lane keep their types; no delay is negative and no batch too long.
THEOREM OutboxTypeCorrect == Spec => []TypeOK
<1>1. IInv => TypeOK
  BY DEF IInv, Shape
<1> QED
  BY <1>1, Invariant, PTL

\* No wake is lost: not during a run, and not between its last claim and the
\* moment the worker sleeps (polling-worker.ts).
THEOREM WakesAreKept == Spec => []WakeKept
<1>1. IInv => WakeKept
  BY DEF IInv
<1> QED
  BY <1>1, Invariant, PTL

\* An entry is tried no more often than the limit and the crashes allow, however
\* it is replayed, recovered and retried.
THEOREM TriesAreBounded == Spec => []TriesBounded
<1>1. IInv => TriesBounded
  BY DEF IInv, Shape
<1> QED
  BY <1>1, Invariant, PTL

\* There are no more rows in processing without a dispatch than faults.
THEOREM FaultsStrand == Spec => []StrandedByFaults
<1>1. IInv => StrandedByFaults
  BY DEF IInv
<1> QED
  BY <1>1, Invariant, PTL
=============================================================================
