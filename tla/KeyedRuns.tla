------------------------------ MODULE KeyedRuns ------------------------------
(***************************************************************************)
(* What idempotency keys promise the clients that use them, without rows,  *)
(* requests, threads or time: a key makes one run, unless its memory of    *)
(* that run has lapsed, every run is made under one key at most, and once  *)
(* an answer is given it is the answer for good and no run is made after   *)
(* it.  ThreadRequests implements this module.                             *)
(***************************************************************************)
CONSTANTS
    Keys,   \* idempotency keys
    Runs    \* identities of runs

VARIABLES
    made,      \* [Keys -> SUBSET Runs]: runs made under the key
    answered,  \* [Keys -> SUBSET Runs]: runs named by its successful answers
    lapsed     \* [Keys -> BOOLEAN]: the key may have forgotten a run

promise == <<made, answered, lapsed>>

Init ==
    /\ made = [k \in Keys |-> {}]
    /\ answered = [k \in Keys |-> {}]
    /\ lapsed = [k \in Keys |-> FALSE]

(* Only an unanswered key makes a run, the first or one that replaces a run  *)
(* it may have forgotten.                                                    *)
Make(k) ==
    /\ answered[k] = {}
    /\ made[k] = {} \/ lapsed[k]
    /\ \E r \in Runs : /\ \A l \in Keys : r \notin made[l]
                       /\ made' = [made EXCEPT ![k] = @ \cup {r}]
    /\ UNCHANGED <<answered, lapsed>>

(* The first answer names a run made under the key; later ones repeat it. *)
Answer(k) ==
    /\ answered[k] = {}
    /\ \E r \in made[k] : answered' = [answered EXCEPT ![k] = {r}]
    /\ UNCHANGED <<made, lapsed>>

(* A request gives up on a run or outlasts its row, or the server dies with  *)
(* a run made and not recorded.                                              *)
Lapse ==
    \E K \in SUBSET {k \in Keys : made[k] # {}} :
        /\ lapsed' = [k \in Keys |-> lapsed[k] \/ k \in K]
        /\ UNCHANGED <<made, answered>>

Next == Lapse \/ \E k \in Keys : Make(k) \/ Answer(k)

Spec == Init /\ [][Next]_promise
=============================================================================
