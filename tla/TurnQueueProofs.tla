-------------------------- MODULE TurnQueueProofs --------------------------
(***************************************************************************)
(* Proofs about TurnQueue, for any sets of prompts, clients, dispatchers   *)
(* and orders: no prompt is delivered twice, none after it was removed;    *)
(* and for one client that asks for permutations: none is lost.            *)
(***************************************************************************)
EXTENDS TurnQueue, FiniteSetTheorems, WellFoundedInduction, TLAPS

(* A set of naturals that is not empty has a least element.                *)
LEMMA Least ==
    ASSUME NEW T \in SUBSET Nat, T # {}
    PROVE  \E x \in T : \A y \in T : x <= y
PROOF
  <1> DEFINE R == OpToRel(<, Nat)
  <1>1. IsWellFoundedOn(R, Nat)
    BY NatLessThanWellFounded
  <1> HIDE DEF R
  <1>2. PICK x \in T : \A y \in T : ~(<<y, x>> \in R)
    BY <1>1, WFMin
  <1>3. \A a, b \in Nat : a < b => <<a, b>> \in R
    BY DEF R, OpToRel
  <1>4. ASSUME NEW y \in T PROVE x <= y
    <2>1. x \in Nat /\ y \in Nat
      OBVIOUS
    <2>2. ~(y < x)
      BY <1>2, <1>3, <2>1
    <2> QED
      BY <2>1, <2>2
  <1> QED
    BY <1>4

(* Nth finds an index for every n up to the size of the set: counting      *)
(* along 1..len passes every number by steps of at most one.               *)
LEMMA NthExists ==
    ASSUME NEW len \in Nat, NEW K \in SUBSET (1..len)
    PROVE  /\ Cardinality(K) \in Nat
           /\ \A n \in 1..Cardinality(K) :
                 Nth(K, n) \in K /\ Cardinality({j \in K : j <= Nth(K, n)}) = n
PROOF
  <1> DEFINE Below(i) == {j \in K : j <= i}
             c(i) == Cardinality(Below(i))
  <1>0. \A k \in K : k \in Nat /\ 1 <= k /\ k <= len
    OBVIOUS
  <1>1. IsFiniteSet(K) /\ Cardinality(K) \in Nat
    <2>1. IsFiniteSet(1..len)
      BY FS_Interval
    <2>2. IsFiniteSet(K)
      BY <2>1, FS_Subset
    <2> QED
      BY <2>2, FS_CardinalityType
  <1>2. ASSUME NEW i \in Nat PROVE IsFiniteSet(Below(i)) /\ c(i) \in Nat
    BY <1>1, FS_Subset, FS_CardinalityType
  <1>3. c(0) = 0
    <2>1. Below(0) = {}
      <3>1. ASSUME NEW k \in K PROVE ~(k <= 0)
        BY <1>0
      <3> QED
        BY <3>1
    <2> QED
      BY <2>1, FS_EmptySet
  <1>4. c(len) = Cardinality(K)
    <2>1. Below(len) = K
      BY <1>0
    <2> QED
      BY <2>1
  <1>5. ASSUME NEW i \in Nat
        PROVE  c(i + 1) = IF i + 1 \in K THEN c(i) + 1 ELSE c(i)
    <2>0. /\ \A k \in K : k <= i + 1 <=> k <= i \/ k = i + 1
          /\ ~(i + 1 <= i)
      BY <1>0
    <2>1. CASE i + 1 \in K
      <3>1. Below(i + 1) = Below(i) \cup {i + 1} /\ i + 1 \notin Below(i)
        BY <2>0, <2>1, Zenon
      <3>2. c(i + 1) = c(i) + 1
        BY <3>1, <1>2, FS_AddElement
      <3> QED
        BY <2>1, <3>2
    <2>2. CASE i + 1 \notin K
      <3>1. Below(i + 1) = Below(i)
        BY <2>0, <2>2, Zenon
      <3> QED
        BY <2>2, <3>1
    <2> QED
      BY <2>1, <2>2
  <1>6. ASSUME NEW n \in 1..Cardinality(K) PROVE \E i \in K : c(i) = n
    <2> DEFINE T == {i \in Nat : c(i) >= n}
    <2>1. T \in SUBSET Nat /\ len \in T
      BY <1>1, <1>4
    <2>2. PICK m \in T : \A y \in T : m <= y
      <3> HIDE DEF T
      <3> QED
        BY <2>1, Least
    <2>3. m \in Nat /\ c(m) >= n
      OBVIOUS
    <2> HIDE DEF c
    <2>4. m # 0
      BY <2>3, <1>1, <1>3
    <2>5. m - 1 \in Nat /\ m - 1 \notin T
      BY <2>2, <2>3, <2>4
    <2>6. c(m - 1) < n
      <3>1. c(m - 1) \in Nat
        BY <1>2, <2>5
      <3>2. n \in Nat
        BY <1>1
      <3>3. ~(c(m - 1) >= n)
        BY <2>5
      <3> QED
        BY <3>1, <3>2, <3>3
    <2>7. c(m) = IF m \in K THEN c(m - 1) + 1 ELSE c(m - 1)
      <3>1. (m - 1) + 1 = m
        BY <2>3
      <3> QED
        BY <1>5, <2>5, <3>1
    <2>8. c(m - 1) \in Nat /\ c(m) \in Nat
      BY <1>2, <2>3, <2>5
    <2>9. m \in K /\ c(m) = n
      BY <2>3, <2>6, <2>7, <2>8, <1>1
    <2> QED
      BY <2>9
  <1>7. ASSUME NEW n \in 1..Cardinality(K)
        PROVE  Nth(K, n) \in K /\ Cardinality({j \in K : j <= Nth(K, n)}) = n
    BY <1>6 DEF Nth
  <1> QED
    BY <1>1, <1>7

(* And it finds every index: no two have as many entries up to them.       *)
LEMMA NthInverse ==
    ASSUME NEW len \in Nat, NEW K \in SUBSET (1..len), NEW i \in K
    PROVE  \E n \in 1..Cardinality(K) : Nth(K, n) = i
PROOF
  <1> DEFINE Below(k) == {j \in K : j <= k}
  <1>0. \A k \in K : k \in Nat /\ 1 <= k /\ k <= len
    OBVIOUS
  <1>1. IsFiniteSet(K) /\ Cardinality(K) \in Nat
    <2>1. IsFiniteSet(1..len)
      BY FS_Interval
    <2>2. IsFiniteSet(K)
      BY <2>1, FS_Subset
    <2> QED
      BY <2>2, FS_CardinalityType
  <1>2. ASSUME NEW k \in K
        PROVE  /\ IsFiniteSet(Below(k)) /\ Cardinality(Below(k)) \in Nat
               /\ Cardinality(Below(k)) <= Cardinality(K) /\ k \in Below(k)
    <2>1. Below(k) \subseteq K /\ k \in Below(k)
      BY <1>0
    <2> HIDE DEF Below
    <2> QED
      BY <1>1, <2>1, FS_Subset, FS_CardinalityType
  <1>3. ASSUME NEW a \in K, NEW b \in K, a < b
        PROVE  Cardinality(Below(a)) # Cardinality(Below(b))
    <2>1. /\ \A k \in K : k <= a => k <= b
          /\ b <= b /\ ~(b <= a)
      BY <1>0, <1>3
    <2>2. Below(a) \subseteq Below(b) /\ b \in Below(b) /\ b \notin Below(a)
      BY <2>1
    <2>3. IsFiniteSet(Below(b))
      BY <1>2
    <2> HIDE DEF Below
    <2> QED
      BY <2>2, <2>3, FS_Subset
  <1>4. PICK n \in Nat : n = Cardinality(Below(i))
    BY <1>2
  <1>5. n \in 1..Cardinality(K)
    <2>1. n # 0
      <3>1. Below(i) # {} /\ IsFiniteSet(Below(i))
        BY <1>2
      <3> HIDE DEF Below
      <3> QED
        BY <1>4, <3>1, FS_EmptySet
    <2> QED
      BY <1>1, <1>2, <1>4, <2>1
  <1>6. PICK m \in K : m = Nth(K, n) /\ Cardinality(Below(m)) = n
    BY <1>5, NthExists
  <1> HIDE DEF Below
  <1>7. m = i
    <2>1. ~(m < i)
      BY <1>3, <1>4, <1>6
    <2>2. ~(i < m)
      BY <1>3, <1>4, <1>6
    <2>3. m \in Nat /\ i \in Nat
      BY <1>0
    <2> QED
      BY <2>1, <2>2, <2>3
  <1> QED
    BY <1>5, <1>6, <1>7

(* Keep leaves what was there before and is in the set asked for, and no   *)
(* entry twice.                                                            *)
LEMMA KeepElements ==
    ASSUME NEW P, NEW q \in Seq(P), NEW S
    PROVE  /\ Keep(q, S) \in Seq(P)
           /\ Elements(Keep(q, S)) = Elements(q) \cap S
           /\ NoRepeats(q) => NoRepeats(Keep(q, S))
PROOF
  <1> DEFINE K == Kept(q, S)
             N == Cardinality(K)
  <1>1. K \in SUBSET (1..Len(q)) /\ Len(q) \in Nat
    BY DEF Kept
  <1>2. /\ N \in Nat /\ \A n \in 1..N : Nth(K, n) \in K
        /\ \A n, m \in 1..N : Nth(K, n) = Nth(K, m) => n = m
    <2>1. /\ N \in Nat
          /\ \A n \in 1..N : Nth(K, n) \in K /\ Cardinality({j \in K : j <= Nth(K, n)}) = n
      BY <1>1, NthExists
    <2> HIDE DEF K
    <2> QED
      BY <2>1
  <1>3. \A i \in K : i \in DOMAIN q /\ q[i] \in S /\ q[i] \in P
    BY DEF Kept
  <1> HIDE DEF K
  <1>4. Keep(q, S) = [n \in 1..N |-> q[Nth(K, n)]]
    BY DEF Keep, K
  <1>5. \A n \in 1..N : q[Nth(K, n)] \in P
    BY <1>2, <1>3
  <1>6. Keep(q, S) \in Seq(P)
    BY <1>2, <1>4, <1>5
  <1>7. Elements(Keep(q, S)) \subseteq Elements(q) \cap S
    BY <1>2, <1>3, <1>4 DEF Elements
  <1>8. Elements(q) \cap S \subseteq Elements(Keep(q, S))
    <2>1. ASSUME NEW i \in DOMAIN q, q[i] \in S PROVE \E n \in 1..N : q[Nth(K, n)] = q[i]
      <3>1. i \in K
        BY <2>1 DEF K, Kept
      <3> QED
        BY <1>1, <3>1, NthInverse
    <2> QED
      BY <1>4, <2>1 DEF Elements
  <1>9. NoRepeats(q) => NoRepeats(Keep(q, S))
    BY <1>2, <1>3, <1>4 DEF NoRepeats
  <1> QED
    BY <1>6, <1>7, <1>8, <1>9
-----------------------------------------------------------------------------
(* The inductive invariant. *)

ClientPlaces == {"idle", "queueTurn", "remove", "reorder"}
DispatcherPlaces == {"idle", "head", "start", "bind", "mark", "send"}

(* Each kind of task stays in its own code.                                *)
Roles ==
    /\ \A c \in Clients : pc[c] \in ClientPlaces
    /\ \A d \in Dispatchers : pc[d] \in DispatcherPlaces

(* A dispatch that is under way holds the transition, so there is one.     *)
OneDispatch == \A d \in Dispatchers : pc[d] # "idle" => transition = d

(* A prompt about to be queued is new, and only one client queues it.      *)
FreshPrompts ==
    \A c \in Clients : pc[c] = "queueTurn" =>
        /\ arg[c] \notin enqueued
        /\ \A t \in Clients : pc[t] = "queueTurn" /\ arg[t] = arg[c] => t = c

(* Nothing dispatched is in the queue, whatever order was appended.        *)
QueueIsPending ==
    /\ dispatched \subseteq enqueued
    /\ Elements(queue) \subseteq enqueued
    /\ Elements(queue) \cap dispatched = {}

(* The mark comes before the delivery.                                     *)
MarkedFirst ==
    \A p \in Prompts : delivered[p] <= 1 /\ (delivered[p] # 0 => p \in dispatched)

(* A dispatch works on a prompt nobody has delivered.                      *)
HandIsPending ==
    \A d \in Dispatchers :
        /\ pc[d] \in {"start", "bind", "mark"} => arg[d] \in enqueued /\ arg[d] \notin dispatched
        /\ pc[d] = "send" => arg[d] \in dispatched /\ delivered[arg[d]] = 0

(* What was removed from the queue is out of everybody's reach.            *)
RemovedIsOut ==
    \A p \in removedIdle :
        /\ p \in enqueued
        /\ p \notin Elements(queue)
        /\ delivered[p] = 0
        /\ \A d \in Dispatchers : arg[d] # p

IInv ==
    /\ TypeOK
    /\ Roles
    /\ OneDispatch
    /\ FreshPrompts
    /\ QueueIsPending
    /\ MarkedFirst
    /\ HandIsPending
    /\ RemovedIsOut

(* An empty queue and idle tasks satisfy the invariant.                    *)
LEMMA InitInv == Init => IInv
PROOF
  <1> SUFFICES ASSUME Init PROVE IInv
    OBVIOUS
  <1>1. TypeOK
    BY QueueConstants DEF Init, TypeOK, Tasks
  <1>2. Elements(queue) = {}
    BY DEF Init, Elements
  <1>3. Roles /\ OneDispatch /\ FreshPrompts /\ QueueIsPending /\ MarkedFirst /\ HandIsPending
        /\ RemovedIsOut
    BY <1>2 DEF Init, Tasks, Roles, OneDispatch, FreshPrompts, QueueIsPending, MarkedFirst,
                HandIsPending, RemovedIsOut, ClientPlaces, DispatcherPlaces
  <1> QED
    BY <1>1, <1>3 DEF IInv

(* One step of a client.                                                   *)
LEMMA ClientInv ==
    ASSUME IInv, NEW c \in Clients,
           \/ \E p \in Prompts : QueueTurnRead(c, p) \/ RemoveRead(c, p)
           \/ \E order \in Orders : ReorderRead(c, order)
           \/ QueueTurnAppend(c) \/ RemoveAppend(c) \/ ReorderAppend(c)
           \/ ClientFails(c)
    PROVE  IInv'
PROOF
  <1>0. /\ TypeOK /\ Roles /\ OneDispatch /\ FreshPrompts /\ QueueIsPending
        /\ MarkedFirst /\ HandIsPending /\ RemovedIsOut
        /\ c \in Tasks /\ c \notin Dispatchers /\ Orders \subseteq Seq(Prompts)
        /\ None \notin Prompts
    BY QueueConstants DEF IInv, Tasks
  <1> USE <1>0
  <1>2. ASSUME NEW p \in Prompts, QueueTurnRead(c, p) PROVE IInv'
    <2>1. TypeOK'
      BY <1>2 DEF QueueTurnRead, Goto, log, hist, Tasks, TypeOK
    <2>2. Roles'
      BY <1>2 DEF QueueTurnRead, Goto, log, hist, Tasks, Roles, ClientPlaces, DispatcherPlaces
    <2>3. OneDispatch'
      BY <1>2 DEF QueueTurnRead, Goto, log, hist, Tasks, OneDispatch
    <2>4. FreshPrompts'
      BY <1>2 DEF QueueTurnRead, Goto, log, hist, Tasks, FreshPrompts, TypeOK
    <2>5. QueueIsPending'
      BY <1>2 DEF QueueTurnRead, Goto, log, hist, Tasks, QueueIsPending
    <2>6. MarkedFirst'
      BY <1>2 DEF QueueTurnRead, Goto, log, hist, Tasks, MarkedFirst
    <2>7. HandIsPending'
      BY <1>2 DEF QueueTurnRead, Goto, log, hist, Tasks, HandIsPending
    <2>8. RemovedIsOut'
      BY <1>2 DEF QueueTurnRead, Goto, log, hist, Tasks, RemovedIsOut
    <2> QED
      BY <2>1, <2>2, <2>3, <2>4, <2>5, <2>6, <2>7, <2>8 DEF IInv
  <1>3. ASSUME NEW p \in Prompts, RemoveRead(c, p) PROVE IInv'
    <2>1. TypeOK'
      BY <1>3 DEF RemoveRead, Goto, log, hist, Tasks, TypeOK
    <2>2. Roles'
      BY <1>3 DEF RemoveRead, Goto, log, hist, Tasks, Roles, ClientPlaces, DispatcherPlaces
    <2>3. OneDispatch'
      BY <1>3 DEF RemoveRead, Goto, log, hist, Tasks, OneDispatch
    <2>4. FreshPrompts'
      BY <1>3 DEF RemoveRead, Goto, log, hist, Tasks, FreshPrompts, TypeOK
    <2>5. QueueIsPending'
      BY <1>3 DEF RemoveRead, Goto, log, hist, Tasks, QueueIsPending
    <2>6. MarkedFirst'
      BY <1>3 DEF RemoveRead, Goto, log, hist, Tasks, MarkedFirst
    <2>7. HandIsPending'
      BY <1>3 DEF RemoveRead, Goto, log, hist, Tasks, HandIsPending
    <2>8. RemovedIsOut'
      BY <1>3 DEF RemoveRead, Goto, log, hist, Tasks, RemovedIsOut
    <2> QED
      BY <2>1, <2>2, <2>3, <2>4, <2>5, <2>6, <2>7, <2>8 DEF IInv
  <1>4. ASSUME NEW order \in Orders, ReorderRead(c, order) PROVE IInv'
    <2>1. TypeOK'
      BY <1>4 DEF ReorderRead, Goto, log, hist, Tasks, TypeOK
    <2>2. Roles'
      BY <1>4 DEF ReorderRead, Goto, log, hist, Tasks, Roles, ClientPlaces, DispatcherPlaces
    <2>3. OneDispatch'
      BY <1>4 DEF ReorderRead, Goto, log, hist, Tasks, OneDispatch
    <2>4. FreshPrompts'
      BY <1>4 DEF ReorderRead, Goto, log, hist, Tasks, FreshPrompts, TypeOK
    <2>5. QueueIsPending'
      BY <1>4 DEF ReorderRead, Goto, log, hist, Tasks, QueueIsPending
    <2>6. MarkedFirst'
      BY <1>4 DEF ReorderRead, Goto, log, hist, Tasks, MarkedFirst
    <2>7. HandIsPending'
      BY <1>4 DEF ReorderRead, Goto, log, hist, Tasks, HandIsPending
    <2>8. RemovedIsOut'
      BY <1>4 DEF ReorderRead, Goto, log, hist, Tasks, RemovedIsOut
    <2> QED
      BY <2>1, <2>2, <2>3, <2>4, <2>5, <2>6, <2>7, <2>8 DEF IInv
  <1>5. CASE QueueTurnAppend(c)
    <2>a. pc[c] = "queueTurn" /\ arg[c] \in Prompts /\ queue \in Seq(Prompts)
      BY <1>5 DEF QueueTurnAppend, TypeOK
    <2>b. queue' = Append(queue, arg[c])
      BY <1>5 DEF QueueTurnAppend, ApplyQueued
    <2>c. queue' \in Seq(Prompts) /\ Elements(queue') \subseteq Elements(queue) \cup {arg[c]}
      BY <2>a, <2>b DEF Elements
    <2>d. arg[c] \notin enqueued
      BY <2>a DEF FreshPrompts
    <2>0. /\ arg[c] \in Prompts /\ arg[c] \notin enqueued /\ queue' \in Seq(Prompts)
          /\ Elements(queue') \subseteq Elements(queue) \cup {arg[c]}
      BY <2>a, <2>c, <2>d
    <2>1. TypeOK'
      BY <1>5, <2>0 DEF QueueTurnAppend, Goto, log, hist, Tasks, TypeOK
    <2>2. Roles'
      BY <1>5, <2>0 DEF QueueTurnAppend, Goto, log, hist, Tasks, Roles, ClientPlaces, DispatcherPlaces
    <2>3. OneDispatch'
      BY <1>5, <2>0 DEF QueueTurnAppend, Goto, log, hist, Tasks, OneDispatch
    <2>4. FreshPrompts'
      BY <1>5, <2>0 DEF QueueTurnAppend, Goto, log, hist, Tasks, FreshPrompts, TypeOK
    <2>5. QueueIsPending'
      BY <1>5, <2>0 DEF QueueTurnAppend, Goto, log, hist, Tasks, QueueIsPending
    <2>6. MarkedFirst'
      BY <1>5, <2>0 DEF QueueTurnAppend, Goto, log, hist, Tasks, MarkedFirst
    <2>7. HandIsPending'
      BY <1>5, <2>0 DEF QueueTurnAppend, Goto, log, hist, Tasks, HandIsPending
    <2>8. RemovedIsOut'
      BY <1>5, <2>0 DEF QueueTurnAppend, Goto, log, hist, Tasks, RemovedIsOut
    <2> QED
      BY <2>1, <2>2, <2>3, <2>4, <2>5, <2>6, <2>7, <2>8 DEF IInv
  <1>6. CASE RemoveAppend(c)
    <2>a. pc[c] = "remove" /\ arg[c] \in Prompts /\ queue \in Seq(Prompts)
      BY <1>6 DEF RemoveAppend, TypeOK
    <2>b. queue' = Keep(queue, Prompts \ {arg[c]})
      BY <1>6 DEF RemoveAppend, ApplyRemoved
    <2>0. /\ arg[c] \in Prompts
          /\ queue' \in Seq(Prompts)
          /\ Elements(queue') \subseteq Elements(queue)
          /\ arg[c] \notin Elements(queue')
      BY <2>a, <2>b, KeepElements
    <2>1. TypeOK'
      BY <1>6, <2>0 DEF RemoveAppend, InHand, Goto, log, hist, Tasks, TypeOK
    <2>2. Roles'
      BY <1>6, <2>0 DEF RemoveAppend, InHand, Goto, log, hist, Tasks, Roles, ClientPlaces, DispatcherPlaces
    <2>3. OneDispatch'
      BY <1>6, <2>0 DEF RemoveAppend, InHand, Goto, log, hist, Tasks, OneDispatch
    <2>4. FreshPrompts'
      BY <1>6, <2>0 DEF RemoveAppend, InHand, Goto, log, hist, Tasks, FreshPrompts, TypeOK
    <2>5. QueueIsPending'
      BY <1>6, <2>0 DEF RemoveAppend, InHand, Goto, log, hist, Tasks, QueueIsPending
    <2>6. MarkedFirst'
      BY <1>6, <2>0 DEF RemoveAppend, InHand, Goto, log, hist, Tasks, MarkedFirst
    <2>7. HandIsPending'
      BY <1>6, <2>0 DEF RemoveAppend, InHand, Goto, log, hist, Tasks, HandIsPending
    <2>8. RemovedIsOut'
      BY <1>6, <2>0 DEF QueueIsPending, MarkedFirst, RemoveAppend, InHand, Goto, log, hist, Tasks, RemovedIsOut
    <2> QED
      BY <2>1, <2>2, <2>3, <2>4, <2>5, <2>6, <2>7, <2>8 DEF IInv
  <1>7. CASE ReorderAppend(c)
    <2>a. arg[c] \in Seq(Prompts)
      BY <1>7 DEF ReorderAppend, TypeOK
    <2>b. queue' = Keep(arg[c], Elements(queue))
      BY <1>7 DEF ReorderAppend, ApplyReordered
    <2>0. /\ queue' \in Seq(Prompts)
          /\ Elements(queue') \subseteq Elements(queue)
      BY <2>a, <2>b, KeepElements
    <2>1. TypeOK'
      BY <1>7, <2>0 DEF ReorderAppend, Goto, log, hist, Tasks, TypeOK
    <2>2. Roles'
      BY <1>7, <2>0 DEF ReorderAppend, Goto, log, hist, Tasks, Roles, ClientPlaces, DispatcherPlaces
    <2>3. OneDispatch'
      BY <1>7, <2>0 DEF ReorderAppend, Goto, log, hist, Tasks, OneDispatch
    <2>4. FreshPrompts'
      BY <1>7, <2>0 DEF ReorderAppend, Goto, log, hist, Tasks, FreshPrompts, TypeOK
    <2>5. QueueIsPending'
      BY <1>7, <2>0 DEF ReorderAppend, Goto, log, hist, Tasks, QueueIsPending
    <2>6. MarkedFirst'
      BY <1>7, <2>0 DEF ReorderAppend, Goto, log, hist, Tasks, MarkedFirst
    <2>7. HandIsPending'
      BY <1>7, <2>0 DEF ReorderAppend, Goto, log, hist, Tasks, HandIsPending
    <2>8. RemovedIsOut'
      BY <1>7, <2>0 DEF ReorderAppend, Goto, log, hist, Tasks, RemovedIsOut
    <2> QED
      BY <2>1, <2>2, <2>3, <2>4, <2>5, <2>6, <2>7, <2>8 DEF IInv
  <1>8. CASE ClientFails(c)
    <2>1. TypeOK'
      BY <1>8 DEF ClientFails, Goto, log, hist, Tasks, TypeOK
    <2>2. Roles'
      BY <1>8 DEF ClientFails, Goto, log, hist, Tasks, Roles, ClientPlaces, DispatcherPlaces
    <2>3. OneDispatch'
      BY <1>8 DEF ClientFails, Goto, log, hist, Tasks, OneDispatch
    <2>4. FreshPrompts'
      BY <1>8 DEF ClientFails, Goto, log, hist, Tasks, FreshPrompts, TypeOK
    <2>5. QueueIsPending'
      BY <1>8 DEF ClientFails, Goto, log, hist, Tasks, QueueIsPending
    <2>6. MarkedFirst'
      BY <1>8 DEF ClientFails, Goto, log, hist, Tasks, MarkedFirst
    <2>7. HandIsPending'
      BY <1>8 DEF ClientFails, Goto, log, hist, Tasks, HandIsPending
    <2>8. RemovedIsOut'
      BY <1>8 DEF ClientFails, Goto, log, hist, Tasks, RemovedIsOut
    <2> QED
      BY <2>1, <2>2, <2>3, <2>4, <2>5, <2>6, <2>7, <2>8 DEF IInv
  <1> QED
    BY <1>2, <1>3, <1>4, <1>5, <1>6, <1>7, <1>8

(* One step of a dispatcher.  The others are idle: they would hold the     *)
(* transition.                                                             *)
LEMMA DispatcherInv ==
    ASSUME IInv, NEW d \in Dispatchers,
           \/ AcquireTransition(d) \/ ReadHead(d) \/ StartQueuedTurn(d)
           \/ BindTurn(d) \/ MarkDispatched(d) \/ SendInput(d) \/ DispatchFails(d)
    PROVE  IInv'
PROOF
  <1>0. /\ TypeOK /\ Roles /\ OneDispatch /\ FreshPrompts /\ QueueIsPending
        /\ MarkedFirst /\ HandIsPending /\ RemovedIsOut
        /\ d \in Tasks /\ d \notin Clients
        /\ None \notin Prompts /\ None \notin Dispatchers /\ MaxAttempts \in Nat
    BY QueueConstants DEF IInv, Tasks
  <1>1. /\ pc[d] # "idle" => \A e \in Dispatchers \ {d} : pc[e] = "idle" /\ arg[e] = None
        /\ transition = None => \A e \in Dispatchers : pc[e] = "idle" /\ arg[e] = None
    BY <1>0 DEF OneDispatch, TypeOK, Tasks
  <1> USE <1>0, <1>1
  <1>2. CASE AcquireTransition(d)
    <2>1. TypeOK'
      BY <1>2 DEF AcquireTransition, Goto, log, hist, Tasks, TypeOK
    <2>2. Roles'
      BY <1>2 DEF AcquireTransition, Goto, log, hist, Tasks, TypeOK, Roles, ClientPlaces, DispatcherPlaces
    <2>3. OneDispatch'
      BY <1>2 DEF AcquireTransition, Goto, log, hist, Tasks, TypeOK, OneDispatch
    <2>4. FreshPrompts'
      BY <1>2 DEF AcquireTransition, Goto, log, hist, Tasks, TypeOK, FreshPrompts
    <2>5. QueueIsPending'
      BY <1>2 DEF AcquireTransition, Goto, log, hist, Tasks, TypeOK, QueueIsPending
    <2>6. MarkedFirst'
      BY <1>2 DEF AcquireTransition, Goto, log, hist, Tasks, TypeOK, MarkedFirst
    <2>7. HandIsPending'
      BY <1>2 DEF AcquireTransition, Goto, log, hist, Tasks, TypeOK, HandIsPending
    <2>8. RemovedIsOut'
      BY <1>2 DEF AcquireTransition, Goto, log, hist, Tasks, TypeOK, RemovedIsOut
    <2> QED
      BY <2>1, <2>2, <2>3, <2>4, <2>5, <2>6, <2>7, <2>8 DEF IInv
  <1>3. ASSUME pc[d] # "idle", Leave(d), activeTurn' \in {activeTurn, None}, UNCHANGED <<log, hist>>
        PROVE  IInv'
    <2>1. TypeOK'
      BY <1>3 DEF Leave, Goto, log, hist, Tasks, TypeOK
    <2>2. Roles'
      BY <1>3 DEF Leave, Goto, log, hist, Tasks, TypeOK, Roles, ClientPlaces, DispatcherPlaces
    <2>3. OneDispatch'
      BY <1>3 DEF Leave, Goto, log, hist, Tasks, TypeOK, OneDispatch
    <2>4. FreshPrompts'
      BY <1>3 DEF Leave, Goto, log, hist, Tasks, TypeOK, FreshPrompts
    <2>5. QueueIsPending'
      BY <1>3 DEF Leave, Goto, log, hist, Tasks, TypeOK, QueueIsPending
    <2>6. MarkedFirst'
      BY <1>3 DEF Leave, Goto, log, hist, Tasks, TypeOK, MarkedFirst
    <2>7. HandIsPending'
      BY <1>3 DEF Leave, Goto, log, hist, Tasks, TypeOK, HandIsPending
    <2>8. RemovedIsOut'
      BY <1>3 DEF Leave, Goto, log, hist, Tasks, TypeOK, RemovedIsOut
    <2> QED
      BY <2>1, <2>2, <2>3, <2>4, <2>5, <2>6, <2>7, <2>8 DEF IInv
  <1>4. ASSUME pc[d] = "head", queue # <<>>, Goto(d, "start", Head(queue)),
               UNCHANGED <<log, activeTurn, transition, hist>>
        PROVE  IInv'
    <2>a. Head(queue) \in Elements(queue) /\ Head(queue) \in Prompts
      BY <1>4 DEF TypeOK, Elements
    <2>0. /\ Head(queue) \in Elements(queue) /\ Head(queue) \in Prompts
          /\ Head(queue) \in enqueued /\ Head(queue) \notin dispatched
      BY <2>a DEF QueueIsPending
    <2>1. TypeOK'
      BY <1>4, <2>0 DEF Goto, log, hist, Tasks, TypeOK
    <2>2. Roles'
      BY <1>4, <2>0 DEF Goto, log, hist, Tasks, TypeOK, Roles, ClientPlaces, DispatcherPlaces
    <2>3. OneDispatch'
      BY <1>4, <2>0 DEF Goto, log, hist, Tasks, TypeOK, OneDispatch
    <2>4. FreshPrompts'
      BY <1>4, <2>0 DEF Goto, log, hist, Tasks, TypeOK, FreshPrompts
    <2>5. QueueIsPending'
      BY <1>4, <2>0 DEF Goto, log, hist, Tasks, TypeOK, QueueIsPending
    <2>6. MarkedFirst'
      BY <1>4, <2>0 DEF Goto, log, hist, Tasks, TypeOK, MarkedFirst
    <2>7. HandIsPending'
      BY <1>4, <2>0 DEF Goto, log, hist, Tasks, TypeOK, HandIsPending
    <2>8. RemovedIsOut'
      BY <1>4, <2>0 DEF Goto, log, hist, Tasks, TypeOK, RemovedIsOut
    <2> QED
      BY <2>1, <2>2, <2>3, <2>4, <2>5, <2>6, <2>7, <2>8 DEF IInv
  <1>5. ASSUME pc[d] = "start", Goto(d, "bind", arg[d]), activeTurn' = arg[d],
               attempts < MaxAttempts, attempts' = attempts + 1,
               UNCHANGED <<log, transition, delivered, removedIdle>>
        PROVE  IInv'
    <2>1. TypeOK'
      BY <1>5 DEF Goto, log, hist, Tasks, TypeOK
    <2>2. Roles'
      BY <1>5 DEF Goto, log, hist, Tasks, TypeOK, Roles, ClientPlaces, DispatcherPlaces
    <2>3. OneDispatch'
      BY <1>5 DEF Goto, log, hist, Tasks, TypeOK, OneDispatch
    <2>4. FreshPrompts'
      BY <1>5 DEF Goto, log, hist, Tasks, TypeOK, FreshPrompts
    <2>5. QueueIsPending'
      BY <1>5 DEF Goto, log, hist, Tasks, TypeOK, QueueIsPending
    <2>6. MarkedFirst'
      BY <1>5 DEF Goto, log, hist, Tasks, TypeOK, MarkedFirst
    <2>7. HandIsPending'
      BY <1>5 DEF Goto, log, hist, Tasks, TypeOK, HandIsPending
    <2>8. RemovedIsOut'
      BY <1>5 DEF Goto, log, hist, Tasks, TypeOK, RemovedIsOut
    <2> QED
      BY <2>1, <2>2, <2>3, <2>4, <2>5, <2>6, <2>7, <2>8 DEF IInv
  <1>6. CASE BindTurn(d)
    <2>1. TypeOK'
      BY <1>6 DEF BindTurn, Goto, log, hist, Tasks, TypeOK
    <2>2. Roles'
      BY <1>6 DEF BindTurn, Goto, log, hist, Tasks, TypeOK, Roles, ClientPlaces, DispatcherPlaces
    <2>3. OneDispatch'
      BY <1>6 DEF BindTurn, Goto, log, hist, Tasks, TypeOK, OneDispatch
    <2>4. FreshPrompts'
      BY <1>6 DEF BindTurn, Goto, log, hist, Tasks, TypeOK, FreshPrompts
    <2>5. QueueIsPending'
      BY <1>6 DEF BindTurn, Goto, log, hist, Tasks, TypeOK, QueueIsPending
    <2>6. MarkedFirst'
      BY <1>6 DEF BindTurn, Goto, log, hist, Tasks, TypeOK, MarkedFirst
    <2>7. HandIsPending'
      BY <1>6 DEF BindTurn, Goto, log, hist, Tasks, TypeOK, HandIsPending
    <2>8. RemovedIsOut'
      BY <1>6 DEF BindTurn, Goto, log, hist, Tasks, TypeOK, RemovedIsOut
    <2> QED
      BY <2>1, <2>2, <2>3, <2>4, <2>5, <2>6, <2>7, <2>8 DEF IInv
  <1>7. CASE MarkDispatched(d)
    <2>a. pc[d] = "mark" /\ arg[d] \in Prompts /\ queue \in Seq(Prompts)
      BY <1>7 DEF MarkDispatched, TypeOK
    <2>b. queue' = Keep(queue, Prompts \ {arg[d]})
      BY <1>7 DEF MarkDispatched, ApplyDispatched
    <2>0. /\ arg[d] \in Prompts
          /\ arg[d] \in enqueued /\ arg[d] \notin dispatched /\ delivered[arg[d]] = 0
          /\ queue' \in Seq(Prompts)
          /\ Elements(queue') \subseteq Elements(queue)
          /\ arg[d] \notin Elements(queue')
      BY <2>a, <2>b, KeepElements DEF HandIsPending, MarkedFirst
    <2>1. TypeOK'
      BY <1>7, <2>0 DEF MarkDispatched, Goto, log, hist, Tasks, TypeOK
    <2>2. Roles'
      BY <1>7, <2>0 DEF MarkDispatched, Goto, log, hist, Tasks, TypeOK, Roles, ClientPlaces, DispatcherPlaces
    <2>3. OneDispatch'
      BY <1>7, <2>0 DEF MarkDispatched, Goto, log, hist, Tasks, TypeOK, OneDispatch
    <2>4. FreshPrompts'
      BY <1>7, <2>0 DEF MarkDispatched, Goto, log, hist, Tasks, TypeOK, FreshPrompts
    <2>5. QueueIsPending'
      BY <1>7, <2>0 DEF MarkDispatched, Goto, log, hist, Tasks, TypeOK, QueueIsPending
    <2>6. MarkedFirst'
      BY <1>7, <2>0 DEF MarkDispatched, Goto, log, hist, Tasks, TypeOK, MarkedFirst
    <2>7. HandIsPending'
      BY <1>7, <2>0 DEF MarkDispatched, Goto, log, hist, Tasks, TypeOK, HandIsPending
    <2>8. RemovedIsOut'
      BY <1>7, <2>0 DEF MarkDispatched, Goto, log, hist, Tasks, TypeOK, RemovedIsOut
    <2> QED
      BY <2>1, <2>2, <2>3, <2>4, <2>5, <2>6, <2>7, <2>8 DEF IInv
  <1>8. CASE SendInput(d)
    <2>a. pc[d] = "send" /\ arg[d] \in Prompts
      BY <1>8 DEF SendInput, TypeOK
    <2>b. arg[d] \in dispatched /\ delivered[arg[d]] = 0
      BY <2>a DEF HandIsPending
    <2>c. delivered' = [delivered EXCEPT ![arg[d]] = 1]
      BY <1>8, <2>b DEF SendInput
    <2>0. /\ pc[d] = "send" /\ arg[d] \in Prompts
          /\ arg[d] \in dispatched /\ delivered[arg[d]] = 0
          /\ delivered' = [delivered EXCEPT ![arg[d]] = 1]
      BY <2>a, <2>b, <2>c
    <2>1. TypeOK'
      BY <1>8, <2>0 DEF SendInput, Leave, Goto, log, hist, Tasks, TypeOK
    <2>2. Roles'
      BY <1>8, <2>0 DEF SendInput, Leave, Goto, log, hist, Tasks, TypeOK, Roles, ClientPlaces, DispatcherPlaces
    <2>3. OneDispatch'
      BY <1>8, <2>0 DEF SendInput, Leave, Goto, log, hist, Tasks, TypeOK, OneDispatch
    <2>4. FreshPrompts'
      BY <1>8, <2>0 DEF SendInput, Leave, Goto, log, hist, Tasks, TypeOK, FreshPrompts
    <2>5. QueueIsPending'
      BY <1>8, <2>0 DEF SendInput, Leave, Goto, log, hist, Tasks, TypeOK, QueueIsPending
    <2>6. MarkedFirst'
      BY <1>8, <2>0 DEF SendInput, Leave, Goto, log, hist, Tasks, TypeOK, MarkedFirst
    <2>7. HandIsPending'
      BY <1>8, <2>0 DEF SendInput, Leave, Goto, log, hist, Tasks, TypeOK, HandIsPending
    <2>8. RemovedIsOut'
      BY <1>8, <2>0 DEF SendInput, Leave, Goto, log, hist, Tasks, TypeOK, RemovedIsOut
    <2> QED
      BY <2>1, <2>2, <2>3, <2>4, <2>5, <2>6, <2>7, <2>8 DEF IInv
  <1>9. CASE ReadHead(d)
    <2>1. CASE queue = <<>>
      BY <1>3, <1>9, <2>1 DEF ReadHead
    <2>2. CASE queue # <<>>
      BY <1>4, <1>9, <2>2 DEF ReadHead
    <2> QED
      BY <2>1, <2>2
  <1>10. CASE StartQueuedTurn(d)
    <2>1. CASE activeTurn # None
      BY <1>3, <1>10, <2>1 DEF StartQueuedTurn, hist
    <2>2. CASE activeTurn = None
      BY <1>5, <1>10, <2>2 DEF StartQueuedTurn
    <2> QED
      BY <2>1, <2>2
  <1>11. CASE DispatchFails(d)
    BY <1>3, <1>11 DEF DispatchFails
  <1> QED
    BY <1>2, <1>6, <1>7, <1>8, <1>9, <1>10, <1>11

(* Turns that start and end outside the queue, and a restart.              *)
LEMMA WorldInv ==
    ASSUME IInv, DirectTurn \/ TurnEnds \/ Restart \/ UNCHANGED vars
    PROVE  IInv'
PROOF
  <1>1. CASE DirectTurn \/ TurnEnds \/ UNCHANGED vars
    BY <1>1 DEF IInv, TypeOK, Roles, OneDispatch, FreshPrompts, QueueIsPending, MarkedFirst,
                HandIsPending, RemovedIsOut, DirectTurn, TurnEnds, vars, log, hist, Elements
  <1>2. CASE Restart
    BY <1>2, QueueConstants
       DEF IInv, TypeOK, Tasks, Roles, OneDispatch, FreshPrompts, QueueIsPending, MarkedFirst,
           HandIsPending, RemovedIsOut, Restart, log, hist, Elements, ClientPlaces, DispatcherPlaces
  <1> QED
    BY <1>1, <1>2

(* Every step of turn_queue.rs and of the dispatch preserves it.           *)
LEMMA StepInv == IInv /\ [Next]_vars => IInv'
  BY ClientInv, DispatcherInv, WorldInv DEF Next

(* The invariant holds in every reachable state.                           *)
THEOREM Invariance == Spec => []IInv
  BY InitInv, StepInv, PTL DEF Spec

-----------------------------------------------------------------------------
(* TypeOK, for all constants: commands of turn_queue.rs and the dispatch   *)
(* keep the projected queue and their own state well formed.               *)
THEOREM QueueTypeCorrect == Spec => []TypeOK
PROOF
  <1>1. IInv => TypeOK
    BY DEF IInv
  <1> QED
    BY <1>1, Invariance, PTL

(* dispatch_next_queued_turn hands a follow-up to the provider at most     *)
(* once, for any number of dispatchers, failed dispatches, restarts and    *)
(* orders a client may ask for.                                            *)
THEOREM AtMostOneDelivery == Spec => []DeliveredAtMostOnce
PROOF
  <1>1. IInv => DeliveredAtMostOnce
    BY DEF IInv, MarkedFirst, DeliveredAtMostOnce
  <1> QED
    BY <1>1, Invariance, PTL

(* A follow-up that remove_queued_turn took out of the queue before any    *)
(* dispatch held it never reaches the provider.                            *)
THEOREM RemovedIsNeverSent == Spec => []RemovalSticks
PROOF
  <1>1. IInv => RemovalSticks
    BY DEF IInv, RemovedIsOut, RemovalSticks
  <1> QED
    BY <1>1, Invariance, PTL

-----------------------------------------------------------------------------
(* The queue of one client that asks for permutations.                     *)
OneClient == \A c, e \in Clients : c = e
DistinctOrders == \A s \in Orders : NoRepeats(s)

(* The projected queue is what is pending, once each; what a command read  *)
(* is still enough for it when its event is appended.                      *)
Pending == enqueued \ (removed \cup dispatched)
OnceInv ==
    /\ NoRepeats(queue) /\ Elements(queue) = Pending /\ removed \subseteq enqueued
    /\ \A c \in Clients :
          /\ pc[c] = "remove" => arg[c] \in enqueued
          /\ pc[c] = "reorder" => Elements(queue) \subseteq Elements(arg[c])

(* An empty queue holds what is pending: nothing.                          *)
LEMMA OnceInit == Init => OnceInv
PROOF
  <1> SUFFICES ASSUME Init PROVE OnceInv
    OBVIOUS
  <1>1. queue = <<>> /\ Elements(queue) = {} /\ NoRepeats(queue)
    BY DEF Init, Elements, NoRepeats
  <1> QED
    BY <1>1 DEF Init, OnceInv, Pending, Tasks

(* What may become of a queue: nothing, one prompt less, one new prompt,   *)
(* or the order of its prompts.                                            *)
LEMMA OnceStep ==
    ASSUME OneClient, DistinctOrders, IInv, OnceInv, [Next]_vars
    PROVE  OnceInv'
PROOF
  <1>0. /\ queue \in Seq(Prompts) /\ Orders \subseteq Seq(Prompts) /\ Elements(queue) \subseteq Prompts
        /\ \A c \in Clients : c \in Tasks /\ c \notin Dispatchers
        /\ \A d \in Dispatchers : d \in Tasks /\ d \notin Clients
    BY QueueConstants DEF IInv, TypeOK, Tasks, Elements
  <1>1. ASSUME UNCHANGED log,
               \A c \in Clients :
                  \/ pc'[c] = pc[c] /\ arg'[c] = arg[c]
                  \/ pc'[c] \in {"idle", "queueTurn"}
                  \/ pc'[c] = "remove" /\ arg'[c] \in Elements(queue)
                  \/ pc'[c] = "reorder" /\ Elements(arg'[c]) = Elements(queue)
        PROVE  OnceInv'
    BY <1>1 DEF OnceInv, Pending, log
  <1>2. ASSUME NEW c \in Clients,
               \/ \E p \in Prompts : QueueTurnRead(c, p) \/ RemoveRead(c, p)
               \/ \E order \in Orders : ReorderRead(c, order)
               \/ ClientFails(c)
        PROVE  OnceInv'
    <2>1. UNCHANGED log
      BY <1>2 DEF QueueTurnRead, RemoveRead, ReorderRead, ClientFails
    <2>2. ASSUME NEW e \in Clients
          PROVE  \/ pc'[e] = pc[e] /\ arg'[e] = arg[e]
                 \/ pc'[e] \in {"idle", "queueTurn"}
                 \/ pc'[e] = "remove" /\ arg'[e] \in Elements(queue)
                 \/ pc'[e] = "reorder" /\ Elements(arg'[e]) = Elements(queue)
      BY <1>0, <1>2 DEF QueueTurnRead, RemoveRead, ReorderRead, OrderAccepted, ClientFails, Goto,
                        IInv, TypeOK
    <2> QED
      BY <1>1, <2>1, <2>2
  <1>3. ASSUME NEW c \in Clients, QueueTurnAppend(c) PROVE OnceInv'
    <2>1. arg[c] \in Prompts /\ arg[c] \notin enqueued
      BY <1>0, <1>3 DEF QueueTurnAppend, IInv, TypeOK, FreshPrompts
    <2>2. arg[c] \notin Elements(queue) /\ dispatched \subseteq enqueued
      BY <2>1 DEF OnceInv, Pending, IInv, QueueIsPending
    <2>3. queue' = Append(queue, arg[c])
      BY <1>3 DEF QueueTurnAppend, ApplyQueued
    <2>4. NoRepeats(queue') /\ Elements(queue') = Elements(queue) \cup {arg[c]}
      <3>1. /\ DOMAIN queue' = DOMAIN queue \cup {Len(queue) + 1} /\ queue'[Len(queue) + 1] = arg[c]
            /\ \A i \in DOMAIN queue : queue'[i] = queue[i]
        BY <1>0, <2>1, <2>3
      <3> QED
        BY <2>2, <3>1 DEF NoRepeats, Elements, OnceInv
    <2>5. \A e \in Clients : pc'[e] = "idle"
      BY <1>0, <1>3 DEF OneClient, QueueTurnAppend, Goto, IInv, TypeOK
    <2>6. enqueued' = enqueued \cup {arg[c]} /\ removed' = removed /\ dispatched' = dispatched
      BY <1>3 DEF QueueTurnAppend
    <2> QED
      BY <2>1, <2>2, <2>4, <2>5, <2>6 DEF OnceInv, Pending
  <1>4. ASSUME NEW c \in Clients, RemoveAppend(c) PROVE OnceInv'
    <2>1. arg[c] \in Prompts /\ arg[c] \in enqueued
      BY <1>0, <1>4 DEF RemoveAppend, IInv, TypeOK, OnceInv
    <2>2. queue' = Keep(queue, Prompts \ {arg[c]})
      BY <1>4 DEF RemoveAppend, ApplyRemoved
    <2>3. NoRepeats(queue') /\ Elements(queue') = Elements(queue) \cap (Prompts \ {arg[c]})
      BY <1>0, <2>2, KeepElements DEF OnceInv
    <2>4. \A e \in Clients : pc'[e] = "idle"
      BY <1>0, <1>4 DEF OneClient, RemoveAppend, Goto, IInv, TypeOK
    <2>5. enqueued' = enqueued /\ removed' = removed \cup {arg[c]} /\ dispatched' = dispatched
      BY <1>4 DEF RemoveAppend
    <2> QED
      BY <1>0, <2>1, <2>3, <2>4, <2>5 DEF OnceInv, Pending
  <1>5. ASSUME NEW c \in Clients, ReorderAppend(c) PROVE OnceInv'
    <2>1. arg[c] \in Orders /\ NoRepeats(arg[c]) /\ Elements(queue) \subseteq Elements(arg[c])
      BY <1>0, <1>5 DEF ReorderAppend, IInv, TypeOK, OnceInv, DistinctOrders
    <2>2. queue' = Keep(arg[c], Elements(queue))
      BY <1>5 DEF ReorderAppend, ApplyReordered
    <2>3. arg[c] \in Seq(Prompts)
      BY <1>0, <2>1
    <2>4. /\ NoRepeats(Keep(arg[c], Elements(queue)))
          /\ Elements(Keep(arg[c], Elements(queue))) = Elements(arg[c]) \cap Elements(queue)
      <3> DEFINE q == arg[c]
                 S == Elements(queue)
      <3>1. q \in Seq(Prompts) /\ NoRepeats(q)
        BY <2>1, <2>3
      <3> HIDE DEF q, S
      <3>2. NoRepeats(Keep(q, S)) /\ Elements(Keep(q, S)) = Elements(q) \cap S
        BY <3>1, KeepElements
      <3> QED
        BY <3>2 DEF q, S
    <2>5. \A e \in Clients : pc'[e] = "idle"
      BY <1>0, <1>5 DEF OneClient, ReorderAppend, Goto, IInv, TypeOK
    <2>6. UNCHANGED <<enqueued, removed, dispatched>>
      BY <1>5 DEF ReorderAppend
    <2>7. NoRepeats(queue') /\ Elements(queue') = Elements(queue)
      BY <2>1, <2>2, <2>4
    <2> QED
      BY <2>5, <2>6, <2>7 DEF OnceInv, Pending
  <1>6. ASSUME NEW d \in Dispatchers, MarkDispatched(d) PROVE OnceInv'
    <2>1. arg[d] \in Prompts /\ queue' = Keep(queue, Prompts \ {arg[d]})
      BY <1>0, <1>6 DEF MarkDispatched, ApplyDispatched, IInv, TypeOK
    <2>2. NoRepeats(queue') /\ Elements(queue') = Elements(queue) \cap (Prompts \ {arg[d]})
      BY <1>0, <2>1, KeepElements DEF OnceInv
    <2>3. \A e \in Clients : pc'[e] = pc[e] /\ arg'[e] = arg[e]
      BY <1>0, <1>6 DEF MarkDispatched, Goto, IInv, TypeOK
    <2>4. enqueued' = enqueued /\ removed' = removed /\ dispatched' = dispatched \cup {arg[d]}
      BY <1>6 DEF MarkDispatched
    <2> QED
      BY <1>0, <2>2, <2>3, <2>4 DEF OnceInv, Pending
  <1>7. ASSUME NEW d \in Dispatchers,
               \/ AcquireTransition(d) \/ ReadHead(d) \/ StartQueuedTurn(d)
               \/ BindTurn(d) \/ SendInput(d) \/ DispatchFails(d)
        PROVE  OnceInv'
    <2>1. UNCHANGED log
      BY <1>7 DEF AcquireTransition, ReadHead, StartQueuedTurn, BindTurn, SendInput, DispatchFails
    <2>2. \A e \in Clients : pc'[e] = pc[e] /\ arg'[e] = arg[e]
      BY <1>0, <1>7 DEF AcquireTransition, ReadHead, StartQueuedTurn, BindTurn, SendInput,
                        DispatchFails, Leave, Goto, IInv, TypeOK
    <2> QED
      BY <1>1, <2>1, <2>2
  <1>8. CASE DirectTurn \/ TurnEnds \/ UNCHANGED vars
    BY <1>1, <1>8 DEF DirectTurn, TurnEnds, vars, log
  <1>9. CASE Restart
    BY <1>0, <1>1, <1>9 DEF Restart
  <1> QED
    BY <1>2, <1>3, <1>4, <1>5, <1>6, <1>7, <1>8, <1>9 DEF Next

(* "queue order must contain every queued turn exactly once"               *)
(* (reorder_turn_queue): it does as long as one client at a time works on  *)
(* the queue and asks for permutations, whatever dispatchers, failures and *)
(* restarts come between its read and its append.                          *)
THEOREM PendingExactlyOnce ==
    ASSUME OneClient, DistinctOrders
    PROVE  Spec => []EveryTurnExactlyOnce
PROOF
  <1>1. Init => OnceInv
    BY OnceInit
  <1>2. IInv /\ OnceInv /\ [Next]_vars => OnceInv'
    BY OnceStep
  <1>3. OnceInv => EveryTurnExactlyOnce
    <2> SUFFICES ASSUME OnceInv, NEW p \in Prompts
                 PROVE  Cardinality({i \in DOMAIN queue : queue[i] = p}) =
                           IF p \in enqueued \ (removed \cup dispatched) THEN 1 ELSE 0
      BY DEF EveryTurnExactlyOnce
    <2>1. CASE p \in Elements(queue)
      <3>1. PICK i \in DOMAIN queue : queue[i] = p
        BY <2>1 DEF Elements
      <3>2. {j \in DOMAIN queue : queue[j] = p} = {i}
        BY <3>1 DEF OnceInv, NoRepeats
      <3> QED
        BY <2>1, <3>2, FS_Singleton DEF OnceInv, Pending
    <2>2. CASE p \notin Elements(queue)
      <3>1. {j \in DOMAIN queue : queue[j] = p} = {}
        BY <2>2 DEF Elements
      <3> QED
        BY <2>2, <3>1, FS_EmptySet DEF OnceInv, Pending
    <2> QED
      BY <2>1, <2>2
  <1> QED
    BY <1>1, <1>2, <1>3, Invariance, PTL DEF Spec
=============================================================================
