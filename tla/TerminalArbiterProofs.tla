------------------------ MODULE TerminalArbiterProofs ------------------------
(***************************************************************************)
(* Proofs about TerminalArbiter for any set of turns, any set of callers   *)
(* and any limits.                                                         *)
(***************************************************************************)
EXTENDS TerminalArbiter, FiniteSetTheorems, SequenceTheorems, TLAPS

-----------------------------------------------------------------------------
(* The inductive invariant, in named parts. *)

Labels == {"idle", "claim", "recheck", "waiting", "done"} \cup Leading

\* The parts of TypeOK that no sequence is involved in.
TypesOK ==
    /\ active \in [Keys -> Entry \cup {None}]
    /\ committed \in [Keys -> Record \cup {None}]
    /\ nextOwner \in 1..MaxOwner
    /\ durable \in [Keys -> TerminalKinds \cup {None}]
    /\ inserted \in [Keys -> Nat]
    /\ pc \in [Callers -> Labels]
    /\ key \in [Callers -> Keys \cup {None}]
    /\ intent \in [Callers -> Intents \cup {None}]
    /\ owner \in [Callers -> 1..MaxOwner \cup {None}]
    /\ waited \in [Callers -> Nat]
    /\ answer \in [Callers -> Intents \cup Errors \cup {None}]

\* What a caller's locals hold at each place of its code.
LocalsOK ==
    \A c \in Callers :
        /\ pc[c] = "idle" => answer[c] = None
        /\ pc[c] # "idle" => key[c] \in Keys /\ intent[c] \in Intents
        /\ pc[c] \in {"recheck", "waiting"} \cup Leading => owner[c] \in 1..MaxOwner
        /\ pc[c] \in {"finalize", "commit"} => answer[c] \in Intents
        /\ pc[c] = "release" => answer[c] \in Errors
        /\ pc[c] = "done" => answer[c] # None

\* A turn has an entry or a tombstone, never both.
EntryXorTombstone == \A k \in Keys : active[k] # None => committed[k] = None

\* Only a decided turn has had its row inserted.
InsertedMeansDecided == \A k \in Keys : durable[k] = None => inserted[k] = 0

CoreInv ==
    /\ TypesOK
    /\ LocalsOK
    /\ LeaderHoldsClaim
    /\ EntryXorTombstone
    /\ TombstonesMatchDurable
    /\ AnswersMatchDurable
    /\ InsertedOnce
    /\ InsertedMeansDecided

\* The FIFO lists every tombstone exactly once and there are no more
\* tombstones than allowed.
OrderInv ==
    /\ committedOrder \in Seq(Keys \X (1..MaxOwner))
    /\ IsFiniteSet(Occupied(committed))
    /\ Len(committedOrder) = Cardinality(Occupied(committed))
    /\ Len(committedOrder) <= MaxTombstones
    /\ \A i \in 1..Len(committedOrder) :
          /\ committed[committedOrder[i][1]] # None
          /\ committed[committedOrder[i][1]].generation = committedOrder[i][2]
    /\ \A i, j \in 1..Len(committedOrder) :
          committedOrder[i][1] = committedOrder[j][1] => i = j
    /\ \A k \in Keys : committed[k] # None =>
          \E i \in 1..Len(committedOrder) : committedOrder[i] = <<k, committed[k].generation>>

IInv == CoreInv /\ OrderInv

-----------------------------------------------------------------------------
(* What a commit does to the tombstones. *)

\* A leader's turn has an entry and therefore no tombstone.
LEMMA LeaderHasEntry ==
    ASSUME CoreInv, NEW c \in Callers, pc[c] \in Leading
    PROVE  active[key[c]] # None /\ committed[key[c]] = None
PROOF
  <1>1. /\ key[c] \in Keys
        /\ active[key[c]] = [owner |-> owner[c], intent |-> intent[c]]
    BY DEF CoreInv, LeaderHoldsClaim
  <1>2. [owner |-> owner[c], intent |-> intent[c]] \in [owner : Nat, intent : Intents]
    BY DEF CoreInv, LocalsOK, Leading
  <1>3. active[key[c]] # None
    BY <1>1, <1>2, ConstantsAssumption
  <1> QED BY <1>1, <1>3 DEF CoreInv, EntryXorTombstone

\* The tombstones and references right after the insertion, before eviction.
Inserted(c) ==
    [committed EXCEPT ![key[c]] = [outcome |-> answer[c], generation |-> owner[c]]]
Queued(c) == Append(committedOrder, <<key[c], owner[c]>>)

\* The loop of commit_after_persistence pops nothing while there is room and
\* exactly one reference otherwise, whatever it could have done in general.
LEMMA CommitPops ==
    ASSUME IInv, NEW c \in Callers, pc[c] = "commit"
    PROVE  /\ Queued(c) \in Seq(Keys \X (1..MaxOwner))
           /\ Len(Queued(c)) = Len(committedOrder) + 1
           /\ \A i \in 1..Len(committedOrder) : Queued(c)[i] = committedOrder[i]
           /\ Queued(c)[Len(committedOrder) + 1] = <<key[c], owner[c]>>
           /\ IsFiniteSet(Occupied(Inserted(c)))
           /\ Cardinality(Occupied(Inserted(c))) = Len(committedOrder) + 1
           /\ Popped(Inserted(c), Queued(c), 0) = Inserted(c)
           /\ Len(committedOrder) < MaxTombstones => Pops(Inserted(c), Queued(c)) = 0
           /\ Len(committedOrder) = MaxTombstones =>
                /\ Pops(Inserted(c), Queued(c)) = 1
                /\ committedOrder[1][1] \in Keys \ {key[c]}
                /\ Popped(Inserted(c), Queued(c), 1) =
                      [Inserted(c) EXCEPT ![committedOrder[1][1]] = None]
                /\ IsFiniteSet(Occupied(Popped(Inserted(c), Queued(c), 1)))
                /\ Cardinality(Occupied(Popped(Inserted(c), Queued(c), 1))) = Len(committedOrder)
PROOF
  <1> DEFINE com == Inserted(c)
             ord == Queued(c)
             k   == key[c]
             L   == Len(committedOrder)
  <1>1. /\ k \in Keys /\ owner[c] \in 1..MaxOwner
        /\ answer[c] \in Intents
        /\ committed[k] = None
        /\ committed \in [Keys -> Record \cup {None}]
        /\ L \in Nat /\ L <= MaxTombstones /\ MaxTombstones \in Nat \ {0}
    <2>1. /\ k \in Keys /\ owner[c] \in 1..MaxOwner
          /\ intent[c] \in Intents /\ answer[c] \in Intents
      BY DEF IInv, CoreInv, LocalsOK, Leading
    <2>3. committed[k] = None
      BY LeaderHasEntry DEF IInv, Leading
    <2>4. committedOrder \in Seq(Keys \X (1..MaxOwner))
      BY DEF IInv, OrderInv
    <2> QED BY <2>1, <2>3, <2>4, ConstantsAssumption DEF IInv, CoreInv, TypesOK, OrderInv
  <1>2. /\ ord \in Seq(Keys \X (1..MaxOwner))
        /\ Len(ord) = L + 1
        /\ \A i \in 1..L : ord[i] = committedOrder[i]
        /\ ord[L + 1] = <<k, owner[c]>>
    BY <1>1, AppendProperties DEF IInv, OrderInv, Queued
  <1>3. com = [committed EXCEPT ![k] = [outcome |-> answer[c], generation |-> owner[c]]]
    BY DEF Inserted
  <1>4. [outcome |-> answer[c], generation |-> owner[c]] # None
    BY <1>1, ConstantsAssumption
  <1>5. Occupied(com) = Occupied(committed) \cup {k}
    BY <1>1, <1>3, <1>4 DEF Occupied
  <1>6. k \notin Occupied(committed)
    BY <1>1 DEF Occupied
  <1>7. IsFiniteSet(Occupied(com)) /\ Cardinality(Occupied(com)) = L + 1
    BY <1>5, <1>6, FS_AddElement DEF IInv, OrderInv
  <1>8. Popped(com, ord, 0) = com
    <2>1. com \in [Keys -> Record \cup {None}]
      BY <1>1, <1>3 DEF Record
    <2>2. \A x \in Keys : ~ \E i \in 1..0 : ord[i] = <<x, com[x].generation>>
      OBVIOUS
    <2> QED BY <2>1, <2>2 DEF Popped
  <1>9. ASSUME L < MaxTombstones PROVE Pops(com, ord) = 0
    <2>1. Fits(com, ord, 0)
      BY <1>1, <1>7, <1>8, <1>9 DEF Fits
    <2> DEFINE P(n) == Fits(com, ord, n) /\ \A m \in 0..(n - 1) : ~Fits(com, ord, m)
    <2>2. 0 \in 0..Len(ord) /\ P(0)
      BY <1>1, <1>2, <2>1
    <2>3. \A n \in 0..Len(ord) : P(n) => n = 0
      BY <1>1, <1>2, <2>1
    <2>4. Pops(com, ord) = CHOOSE n \in 0..Len(ord) : P(n)
      BY DEF Pops
    <2> HIDE DEF P
    <2> QED BY <2>2, <2>3, <2>4
  <1>10. ASSUME L = MaxTombstones
         PROVE  /\ Pops(com, ord) = 1
                /\ committedOrder[1][1] \in Keys \ {k}
                /\ Popped(com, ord, 1) = [com EXCEPT ![committedOrder[1][1]] = None]
                /\ IsFiniteSet(Occupied(Popped(com, ord, 1)))
                /\ Cardinality(Occupied(Popped(com, ord, 1))) = L
    <2> DEFINE first == committedOrder[1][1]
    <2>1. 1 \in 1..L /\ first \in Keys /\ committedOrder[1] = <<first, committedOrder[1][2]>>
      <3>1. 1 \in 1..L
        BY <1>1, <1>10
      <3>2. committedOrder[1] \in Keys \X (1..MaxOwner)
        BY <3>1, ElementOfSeq DEF IInv, OrderInv
      <3> QED BY <3>1, <3>2
    <2>2. committed[first] # None /\ committed[first].generation = committedOrder[1][2]
      BY <2>1 DEF IInv, OrderInv
    <2>3. first # k /\ com[first] = committed[first]
      BY <1>1, <1>3, <2>1, <2>2
    <2>4. Popped(com, ord, 1) = [com EXCEPT ![first] = None]
      <3>1. ord[1] = <<first, com[first].generation>>
        BY <1>2, <2>1, <2>2, <2>3
      <3>2. com \in [Keys -> Record \cup {None}]
        BY <1>1, <1>3 DEF Record
      <3>3. \A x \in Keys : (\E i \in 1..1 : ord[i] = <<x, com[x].generation>>) <=> x = first
        BY <3>1, <2>1
      <3> QED BY <3>2, <3>3, <2>2, <2>3, <2>1 DEF Popped
    <2>5. /\ IsFiniteSet(Occupied(Popped(com, ord, 1)))
          /\ Cardinality(Occupied(Popped(com, ord, 1))) = L
      <3>1. first \in Occupied(com)
        BY <2>1, <2>2, <2>3 DEF Occupied
      <3>2. Occupied(Popped(com, ord, 1)) = Occupied(com) \ {first}
        BY <2>4, <2>1, <1>3, <1>1 DEF Occupied
      <3>3. /\ IsFiniteSet(Occupied(com) \ {first})
            /\ Cardinality(Occupied(com) \ {first}) = Cardinality(Occupied(com)) - 1
        BY <1>7, <3>1, FS_RemoveElement
      <3>4. /\ IsFiniteSet(Occupied(Popped(com, ord, 1)))
            /\ Cardinality(Occupied(Popped(com, ord, 1))) = Cardinality(Occupied(com)) - 1
        BY <3>2, <3>3, Zenon
      <3> QED BY <3>4, <1>1, <1>7
    <2>6. Fits(com, ord, 1)
      BY <2>5, <1>1, <1>10 DEF Fits
    <2>7. ~Fits(com, ord, 0)
      BY <1>1, <1>7, <1>8, <1>10 DEF Fits
    <2> DEFINE P(n) == Fits(com, ord, n) /\ \A m \in 0..(n - 1) : ~Fits(com, ord, m)
    <2>8. 1 \in 0..Len(ord) /\ P(1)
      BY <1>1, <1>2, <2>6, <2>7
    <2>9. \A n \in 0..Len(ord) : P(n) => n = 1
      BY <1>1, <1>2, <2>6, <2>7
    <2>10. Pops(com, ord) = CHOOSE n \in 0..Len(ord) : P(n)
      BY DEF Pops
    <2>11. Pops(com, ord) = 1
      <3> HIDE DEF P
      <3> QED BY <2>8, <2>9, <2>10
    <2> QED BY <2>1, <2>3, <2>4, <2>5, <2>11
  <1> QED BY <1>2, <1>7, <1>8, <1>9, <1>10

\* A commit keeps the FIFO and the tombstones in step, and the only tombstone
\* it can add is its own.
LEMMA CommitOrder ==
    ASSUME IInv, NEW c \in Callers, Commit(c)
    PROVE  /\ OrderInv'
           /\ committed' \in [Keys -> Record \cup {None}]
           /\ \A k \in Keys : committed'[k] \in {Inserted(c)[k], None}
PROOF
  <1> DEFINE com == Inserted(c)
             ord == Queued(c)
             L   == Len(committedOrder)
             n   == Pops(com, ord)
  <1>1. /\ pc[c] = "commit"
        /\ committed' = Popped(com, ord, n)
        /\ committedOrder' = SubSeq(ord, n + 1, Len(ord))
    BY DEF Commit, Inserted, Queued
  <1>2. /\ L \in Nat /\ L <= MaxTombstones /\ MaxTombstones \in Nat
        /\ committedOrder \in Seq(Keys \X (1..MaxOwner))
        /\ \A i \in 1..L : /\ committed[committedOrder[i][1]] # None
                           /\ committed[committedOrder[i][1]].generation = committedOrder[i][2]
        /\ \A i, j \in 1..L : committedOrder[i][1] = committedOrder[j][1] => i = j
        /\ \A k \in Keys : committed[k] # None =>
              \E i \in 1..L : committedOrder[i] = <<k, committed[k].generation>>
    BY ConstantsAssumption DEF IInv, OrderInv
  <1>3. /\ key[c] \in Keys /\ owner[c] \in 1..MaxOwner /\ answer[c] \in Intents
        /\ intent[c] \in Intents
    BY <1>1 DEF IInv, CoreInv, LocalsOK, Leading
  <1>4. committed[key[c]] = None
    BY <1>1, LeaderHasEntry DEF IInv, Leading
  <1>5. /\ com \in [Keys -> Record \cup {None}]
        /\ com[key[c]] = [outcome |-> answer[c], generation |-> owner[c]]
        /\ com[key[c]].generation = owner[c]
        /\ com[key[c]] # None
        /\ \A k \in Keys \ {key[c]} : com[k] = committed[k]
    <2>1. committed \in [Keys -> Record \cup {None}]
      BY DEF IInv, CoreInv, TypesOK
    <2>2. [outcome |-> answer[c], generation |-> owner[c]] \in
             Record \cap [outcome : Intents, generation : Nat]
      BY <1>3 DEF Record
    <2> QED BY <2>1, <2>2, <1>3, ConstantsAssumption DEF Inserted
  <1>6. /\ ord \in Seq(Keys \X (1..MaxOwner))
        /\ Len(ord) = L + 1
        /\ \A i \in 1..L : ord[i] = committedOrder[i]
        /\ ord[L + 1] = <<key[c], owner[c]>>
        /\ IsFiniteSet(Occupied(com))
        /\ Cardinality(Occupied(com)) = L + 1
        /\ Popped(com, ord, 0) = com
    BY <1>1, CommitPops
  <1>7. \A i \in 1..(L + 1) : ord[i] \in Keys \X (1..MaxOwner)
    BY <1>6, ElementOfSeq
  <1>8. \A i \in 1..(L + 1) : /\ com[ord[i][1]] # None
                              /\ com[ord[i][1]].generation = ord[i][2]
    <2> TAKE i \in 1..(L + 1)
    <2>1. CASE i = L + 1
      BY <2>1, <1>5, <1>6
    <2>2. CASE i \in 1..L
      <3>1. ord[i] = committedOrder[i] /\ ord[i][1] \in Keys
        BY <2>2, <1>6, <1>7
      <3>2. ord[i][1] # key[c]
        BY <3>1, <2>2, <1>2, <1>4
      <3> QED BY <3>1, <3>2, <2>2, <1>2, <1>5
    <2> QED BY <2>1, <2>2, <1>2
  <1>9. \A i, j \in 1..(L + 1) : ord[i][1] = ord[j][1] => i = j
    <2>1. \A i \in 1..L : ord[i][1] # key[c]
      BY <1>2, <1>4, <1>6
    <2>2. ord[L + 1][1] = key[c]
      BY <1>6
    <2> TAKE i, j \in 1..(L + 1)
    <2>3. CASE i \in 1..L /\ j \in 1..L
      BY <2>3, <1>2, <1>6
    <2>4. CASE i = L + 1 \/ j = L + 1
      BY <2>4, <2>1, <2>2, <1>2
    <2> QED BY <2>3, <2>4, <1>2
  <1>10. \A k \in Keys : com[k] # None =>
            \E i \in 1..(L + 1) : ord[i] = <<k, com[k].generation>>
    <2> TAKE k \in Keys
    <2>1. CASE k = key[c]
      <3>1. L + 1 \in 1..(L + 1)
        BY <1>2
      <3>2. ord[L + 1] = <<k, com[k].generation>>
        BY <2>1, <1>5, <1>6
      <3> QED BY <3>1, <3>2
    <2>2. CASE k # key[c] /\ com[k] # None
      <3>1. com[k] = committed[k]
        BY <2>2, <1>5
      <3>2. PICK i \in 1..L : committedOrder[i] = <<k, committed[k].generation>>
        BY <3>1, <2>2, <1>2
      <3>3. i \in 1..(L + 1)
        BY <3>2, <1>2
      <3>4. ord[i] = committedOrder[i]
        BY <3>2, <1>6
      <3>5. ord[i] = <<k, com[k].generation>>
        BY <3>1, <3>2, <3>4, Zenon
      <3> QED BY <3>3, <3>5
    <2> QED BY <2>1, <2>2
  <1>11. CASE L < MaxTombstones
    <2>1. n = 0
      BY <1>1, <1>11, CommitPops
    <2>2. committed' = com /\ committedOrder' = ord
      BY <1>1, <1>6, <2>1, SubSeqFull
    <2>3. OrderInv'
      BY <2>2, <1>2, <1>6, <1>8, <1>9, <1>10, <1>11 DEF OrderInv, Occupied
    <2> QED BY <2>2, <2>3, <1>5
  <1>12. CASE L = MaxTombstones
    <2> DEFINE first == committedOrder[1][1]
    <2>1. /\ n = 1
          /\ first \in Keys \ {key[c]}
          /\ Popped(com, ord, 1) = [com EXCEPT ![first] = None]
          /\ IsFiniteSet(Occupied(Popped(com, ord, 1)))
          /\ Cardinality(Occupied(Popped(com, ord, 1))) = L
      BY <1>1, <1>12, CommitPops
    <2>2. committed' = [com EXCEPT ![first] = None] /\ committedOrder' = SubSeq(ord, 2, Len(ord))
      BY <1>1, <2>1
    <2>3. 1 \in 1..L /\ ord[1][1] = first
      BY <1>2, <1>6, <1>12, ConstantsAssumption
    <2>4. /\ committedOrder' \in Seq(Keys \X (1..MaxOwner))
          /\ Len(committedOrder') = L
          /\ \A i \in 1..L : committedOrder'[i] = ord[i + 1]
      <3>1. \A i \in 2..Len(ord) : ord[i] \in Keys \X (1..MaxOwner)
        BY <1>6, <1>7, <1>2
      <3>2. 2 \in Int /\ Len(ord) \in Int
        BY <1>2, <1>6
      <3>3. /\ SubSeq(ord, 2, Len(ord)) \in Seq(Keys \X (1..MaxOwner))
            /\ Len(SubSeq(ord, 2, Len(ord))) = IF 2 <= Len(ord) THEN Len(ord) - 2 + 1 ELSE 0
            /\ \A i \in 1..(Len(ord) - 2 + 1) : SubSeq(ord, 2, Len(ord))[i] = ord[2 + i - 1]
        BY <3>1, <3>2, SubSeqProperties
      <3>4. \A i \in 1..L : i \in 1..(Len(ord) - 2 + 1) /\ 2 + i - 1 = i + 1
        BY <1>2, <1>6
      <3> QED BY <3>3, <3>4, <2>2, <2>3, <1>2, <1>6
    <2>5. /\ IsFiniteSet(Occupied(committed'))
          /\ Cardinality(Occupied(committed')) = L
      BY <2>1, <2>2
    <2>6. \A i \in 1..L : /\ committed'[committedOrder'[i][1]] # None
                          /\ committed'[committedOrder'[i][1]].generation = committedOrder'[i][2]
      <3> TAKE i \in 1..L
      <3>1. i + 1 \in 1..(L + 1) /\ i + 1 # 1 /\ 1 \in 1..(L + 1)
        BY <1>2
      <3>2. ord[i + 1][1] \in Keys /\ ord[i + 1][1] # first
        BY <3>1, <2>3, <1>7, <1>9
      <3> QED BY <3>1, <3>2, <2>2, <2>4, <1>5, <1>8
    <2>7. \A i, j \in 1..L : committedOrder'[i][1] = committedOrder'[j][1] => i = j
      <3> TAKE i, j \in 1..L
      <3>1. i + 1 \in 1..(L + 1) /\ j + 1 \in 1..(L + 1)
        BY <1>2
      <3>2. committedOrder'[i] = ord[i + 1] /\ committedOrder'[j] = ord[j + 1]
        BY <2>4
      <3>3. ord[i + 1][1] = ord[j + 1][1] => i + 1 = j + 1
        BY <3>1, <1>9
      <3>4. i + 1 = j + 1 => i = j
        BY <1>2
      <3> QED BY <3>2, <3>3, <3>4
    <2>8. \A k \in Keys : committed'[k] # None =>
             \E i \in 1..L : committedOrder'[i] = <<k, committed'[k].generation>>
      <3> SUFFICES ASSUME NEW k \in Keys, committed'[k] # None
                   PROVE  \E i \in 1..L : committedOrder'[i] = <<k, committed'[k].generation>>
        OBVIOUS
      <3>1. k # first /\ committed'[k] = com[k] /\ com[k] # None
        BY <2>1, <2>2, <1>5
      <3>2. PICK i \in 1..(L + 1) : ord[i] = <<k, com[k].generation>>
        BY <3>1, <1>10
      <3>3. i # 1
        BY <3>1, <3>2, <2>3
      <3>4. i - 1 \in 1..L /\ (i - 1) + 1 = i
        BY <3>2, <3>3, <1>2
      <3>5. committedOrder'[i - 1] = <<k, committed'[k].generation>>
        BY <3>1, <3>2, <3>4, <2>4
      <3> QED BY <3>4, <3>5
    <2>9. OrderInv'
      <3>1. Occupied(committed)' = Occupied(committed')
        BY DEF Occupied
      <3> QED BY <3>1, <2>4, <2>5, <2>6, <2>7, <2>8, <1>2 DEF OrderInv
    <2> QED BY <2>2, <2>9, <1>5, <2>1
  <1> QED BY <1>2, <1>11, <1>12

\* Initially nothing is claimed, decided or remembered.
LEMMA InitInv == Init => IInv
PROOF
  <1> SUFFICES ASSUME Init PROVE IInv
    OBVIOUS
  <1>1. CoreInv
    BY ConstantsAssumption DEF Init, CoreInv, TypesOK, LocalsOK, LeaderHoldsClaim, EntryXorTombstone,
       TombstonesMatchDurable, AnswersMatchDurable, InsertedOnce, InsertedMeansDecided, Labels, Leading
  <1>2. OrderInv
    <2>1. Occupied(committed) = {}
      BY DEF Init, Occupied
    <2>2. IsFiniteSet(Occupied(committed)) /\ Cardinality(Occupied(committed)) = 0
      BY <2>1, FS_EmptySet, Zenon
    <2>3. /\ committedOrder = <<>>
          /\ committedOrder \in Seq(Keys \X (1..MaxOwner))
          /\ Len(committedOrder) = 0
      BY EmptySeq DEF Init
    <2>4. \A k \in Keys : committed[k] = None
      BY DEF Init
    <2> QED BY <2>2, <2>3, <2>4, ConstantsAssumption DEF OrderInv
  <1> QED BY <1>1, <1>2 DEF IInv

\* Every step but a commit keeps the core of the invariant.
LEMMA CoreStep ==
    ASSUME CoreInv, Next, \A c \in Callers : ~Commit(c)
    PROVE  CoreInv'
PROOF
  <1> USE ConstantsAssumption DEF Goto, Return, registry, store, Labels, Leading, Awaiting,
          Entry, Record, Intents, TerminalKinds, Errors
  <1>1. ASSUME NEW c \in Callers, NEW k \in Keys, NEW i \in Intents, Request(c, k, i) PROVE CoreInv'
    <2>1. TypesOK'
      BY <1>1 DEF CoreInv, TypesOK, LocalsOK, Request
    <2>2. LocalsOK'
      BY <1>1 DEF CoreInv, TypesOK, LocalsOK, Request
    <2>3. LeaderHoldsClaim'
      BY <1>1 DEF CoreInv, TypesOK, LocalsOK, LeaderHoldsClaim, Request
    <2>4. AnswersMatchDurable'
      BY <1>1 DEF CoreInv, TypesOK, LocalsOK, TombstonesMatchDurable, AnswersMatchDurable, Request
    <2>5. (EntryXorTombstone /\ TombstonesMatchDurable /\ InsertedOnce /\ InsertedMeansDecided)'
      BY <1>1 DEF CoreInv, TypesOK, LocalsOK, EntryXorTombstone, TombstonesMatchDurable, InsertedOnce, InsertedMeansDecided, Request
    <2> QED BY <2>1, <2>2, <2>3, <2>4, <2>5 DEF CoreInv
  <1>2. ASSUME NEW c \in Callers, ClaimCommitted(c) PROVE CoreInv'
    <2>1. TypesOK'
      BY <1>2 DEF CoreInv, TypesOK, LocalsOK, ClaimCommitted
    <2>2. LocalsOK'
      BY <1>2 DEF CoreInv, TypesOK, LocalsOK, ClaimCommitted
    <2>3. LeaderHoldsClaim'
      BY <1>2 DEF CoreInv, TypesOK, LocalsOK, LeaderHoldsClaim, ClaimCommitted
    <2>4. AnswersMatchDurable'
      BY <1>2 DEF CoreInv, TypesOK, LocalsOK, TombstonesMatchDurable, AnswersMatchDurable, ClaimCommitted
    <2>5. (EntryXorTombstone /\ TombstonesMatchDurable /\ InsertedOnce /\ InsertedMeansDecided)'
      BY <1>2 DEF CoreInv, TypesOK, LocalsOK, EntryXorTombstone, TombstonesMatchDurable, InsertedOnce, InsertedMeansDecided, ClaimCommitted
    <2> QED BY <2>1, <2>2, <2>3, <2>4, <2>5 DEF CoreInv
  <1>3. ASSUME NEW c \in Callers, ClaimFollow(c) PROVE CoreInv'
    <2>1. TypesOK'
      BY <1>3 DEF CoreInv, TypesOK, LocalsOK, ClaimFollow
    <2>2. LocalsOK'
      BY <1>3 DEF CoreInv, TypesOK, LocalsOK, ClaimFollow
    <2>3. LeaderHoldsClaim'
      BY <1>3 DEF CoreInv, TypesOK, LocalsOK, LeaderHoldsClaim, ClaimFollow
    <2>4. (EntryXorTombstone /\ TombstonesMatchDurable /\ AnswersMatchDurable /\ InsertedOnce /\ InsertedMeansDecided)'
      BY <1>3 DEF CoreInv, TypesOK, LocalsOK, EntryXorTombstone, TombstonesMatchDurable, AnswersMatchDurable, InsertedOnce, InsertedMeansDecided, ClaimFollow
    <2> QED BY <2>1, <2>2, <2>3, <2>4 DEF CoreInv
  <1>4. ASSUME NEW c \in Callers, ClaimLead(c) PROVE CoreInv'
    <2>1. TypesOK'
      BY <1>4 DEF CoreInv, TypesOK, LocalsOK, ClaimLead, CanLead
    <2>2. LocalsOK'
      BY <1>4 DEF CoreInv, TypesOK, LocalsOK, ClaimLead, CanLead
    <2>3. LeaderHoldsClaim'
      <3>1. \A d \in Callers : pc[d] \in Leading => active[key[d]] # None
        BY LeaderHasEntry
      <3>2. \A d \in Callers : pc[d] \in Leading => key[d] # key[c]
        BY <3>1, <1>4 DEF ClaimLead, CanLead
      <3>3. active'[key[c]] = [owner |-> owner'[c], intent |-> intent'[c]]
        BY <1>4 DEF ClaimLead, CoreInv, TypesOK, LocalsOK
      <3>4. \A d \in Callers \ {c} : /\ pc'[d] = pc[d] /\ key'[d] = key[d]
                                     /\ owner'[d] = owner[d] /\ intent'[d] = intent[d]
        BY <1>4 DEF ClaimLead, CoreInv, TypesOK
      <3>5. \A d \in Callers \ {c} : pc[d] \in Leading => active'[key[d]] = active[key[d]]
        BY <3>2, <1>4 DEF ClaimLead, CoreInv, TypesOK
      <3> QED BY <3>2, <3>3, <3>4, <3>5, <1>4 DEF ClaimLead, CoreInv, LocalsOK, LeaderHoldsClaim
    <2>4. EntryXorTombstone'
      BY <1>4 DEF CoreInv, TypesOK, LocalsOK, LeaderHoldsClaim, EntryXorTombstone, ClaimLead, CanLead
    <2>5. (TombstonesMatchDurable /\ AnswersMatchDurable /\ InsertedOnce /\ InsertedMeansDecided)'
      BY <1>4 DEF CoreInv, TypesOK, LocalsOK, TombstonesMatchDurable, AnswersMatchDurable, InsertedOnce, InsertedMeansDecided, ClaimLead
    <2> QED BY <2>1, <2>2, <2>3, <2>4, <2>5 DEF CoreInv
  <1>5. ASSUME NEW c \in Callers, ClaimExhausted(c) PROVE CoreInv'
    <2>1. TypesOK'
      BY <1>5 DEF CoreInv, TypesOK, LocalsOK, ClaimExhausted
    <2>2. LocalsOK'
      BY <1>5 DEF CoreInv, TypesOK, LocalsOK, ClaimExhausted
    <2>3. LeaderHoldsClaim'
      BY <1>5 DEF CoreInv, TypesOK, LocalsOK, LeaderHoldsClaim, ClaimExhausted
    <2>4. AnswersMatchDurable'
      BY <1>5 DEF CoreInv, TypesOK, LocalsOK, TombstonesMatchDurable, AnswersMatchDurable, ClaimExhausted
    <2>5. (EntryXorTombstone /\ TombstonesMatchDurable /\ InsertedOnce /\ InsertedMeansDecided)'
      BY <1>5 DEF CoreInv, TypesOK, LocalsOK, EntryXorTombstone, TombstonesMatchDurable, InsertedOnce, InsertedMeansDecided, ClaimExhausted
    <2> QED BY <2>1, <2>2, <2>3, <2>4, <2>5 DEF CoreInv
  <1>6. ASSUME NEW c \in Callers, Recheck(c) PROVE CoreInv'
    <2>1. TypesOK'
      BY <1>6 DEF CoreInv, TypesOK, LocalsOK, Recheck, IsCurrent
    <2>2. LocalsOK'
      BY <1>6 DEF CoreInv, TypesOK, LocalsOK, Recheck, IsCurrent
    <2>3. LeaderHoldsClaim'
      BY <1>6 DEF CoreInv, TypesOK, LocalsOK, LeaderHoldsClaim, Recheck, IsCurrent
    <2>4. AnswersMatchDurable'
      BY <1>6 DEF CoreInv, TypesOK, LocalsOK, TombstonesMatchDurable, AnswersMatchDurable, Recheck, IsCurrent
    <2>5. (EntryXorTombstone /\ TombstonesMatchDurable /\ InsertedOnce /\ InsertedMeansDecided)'
      BY <1>6 DEF CoreInv, TypesOK, LocalsOK, EntryXorTombstone, TombstonesMatchDurable, InsertedOnce, InsertedMeansDecided, Recheck
    <2> QED BY <2>1, <2>2, <2>3, <2>4, <2>5 DEF CoreInv
  <1>7. ASSUME NEW c \in Callers, Notified(c) PROVE CoreInv'
    <2>1. TypesOK'
      BY <1>7 DEF CoreInv, TypesOK, LocalsOK, Notified
    <2>2. LocalsOK'
      BY <1>7 DEF CoreInv, TypesOK, LocalsOK, Notified
    <2>3. LeaderHoldsClaim'
      BY <1>7 DEF CoreInv, TypesOK, LocalsOK, LeaderHoldsClaim, Notified
    <2>4. (EntryXorTombstone /\ TombstonesMatchDurable /\ AnswersMatchDurable /\ InsertedOnce /\ InsertedMeansDecided)'
      BY <1>7 DEF CoreInv, TypesOK, LocalsOK, EntryXorTombstone, TombstonesMatchDurable, AnswersMatchDurable, InsertedOnce, InsertedMeansDecided, Notified
    <2> QED BY <2>1, <2>2, <2>3, <2>4 DEF CoreInv
  <1>8. ASSUME NEW c \in Callers, SliceElapsed(c) PROVE CoreInv'
    <2>1. TypesOK'
      BY <1>8 DEF CoreInv, TypesOK, LocalsOK, SliceElapsed
    <2>2. LocalsOK'
      BY <1>8 DEF CoreInv, TypesOK, LocalsOK, SliceElapsed
    <2>3. LeaderHoldsClaim'
      BY <1>8 DEF CoreInv, TypesOK, LocalsOK, LeaderHoldsClaim, SliceElapsed
    <2>4. AnswersMatchDurable'
      BY <1>8 DEF CoreInv, TypesOK, LocalsOK, TombstonesMatchDurable, AnswersMatchDurable, SliceElapsed
    <2>5. (EntryXorTombstone /\ TombstonesMatchDurable /\ InsertedOnce /\ InsertedMeansDecided)'
      BY <1>8 DEF CoreInv, TypesOK, LocalsOK, EntryXorTombstone, TombstonesMatchDurable, InsertedOnce, InsertedMeansDecided, SliceElapsed
    <2> QED BY <2>1, <2>2, <2>3, <2>4, <2>5 DEF CoreInv
  <1>9. ASSUME NEW c \in Callers, Lookup(c) PROVE CoreInv'
    <2>1. TypesOK'
      BY <1>9 DEF CoreInv, TypesOK, LocalsOK, Lookup, TerminalOutcome
    <2>2. LocalsOK'
      BY <1>9 DEF CoreInv, TypesOK, LocalsOK, Lookup, TerminalOutcome
    <2>3. LeaderHoldsClaim'
      BY <1>9 DEF CoreInv, TypesOK, LocalsOK, LeaderHoldsClaim, Lookup, TerminalOutcome
    <2>4. AnswersMatchDurable'
      BY <1>9 DEF CoreInv, TypesOK, LocalsOK, TombstonesMatchDurable, AnswersMatchDurable, Lookup, TerminalOutcome
    <2>5. (EntryXorTombstone /\ TombstonesMatchDurable /\ InsertedOnce /\ InsertedMeansDecided)'
      BY <1>9 DEF CoreInv, TypesOK, LocalsOK, EntryXorTombstone, TombstonesMatchDurable, InsertedOnce, InsertedMeansDecided, Lookup
    <2> QED BY <2>1, <2>2, <2>3, <2>4, <2>5 DEF CoreInv
  <1>10. ASSUME NEW c \in Callers, CollectEvidence(c) PROVE CoreInv'
    <2>1. TypesOK'
      BY <1>10 DEF CoreInv, TypesOK, LocalsOK, CollectEvidence
    <2>2. LocalsOK'
      BY <1>10 DEF CoreInv, TypesOK, LocalsOK, CollectEvidence
    <2>3. LeaderHoldsClaim'
      BY <1>10 DEF CoreInv, TypesOK, LocalsOK, LeaderHoldsClaim, CollectEvidence
    <2>4. (EntryXorTombstone /\ TombstonesMatchDurable /\ AnswersMatchDurable /\ InsertedOnce /\ InsertedMeansDecided)'
      BY <1>10 DEF CoreInv, TypesOK, LocalsOK, EntryXorTombstone, TombstonesMatchDurable, AnswersMatchDurable, InsertedOnce, InsertedMeansDecided, CollectEvidence
    <2> QED BY <2>1, <2>2, <2>3, <2>4 DEF CoreInv
  <1>11. ASSUME NEW c \in Callers, AppendEvent(c) PROVE CoreInv'
    <2>1. TypesOK'
      BY <1>11 DEF CoreInv, TypesOK, LocalsOK, AppendEvent, TerminalOutcome, KindOf
    <2>2. LocalsOK'
      BY <1>11 DEF CoreInv, TypesOK, LocalsOK, AppendEvent, TerminalOutcome, KindOf
    <2>3. LeaderHoldsClaim'
      BY <1>11 DEF CoreInv, TypesOK, LocalsOK, LeaderHoldsClaim, AppendEvent, TerminalOutcome, KindOf
    <2>4. TombstonesMatchDurable'
      BY <1>11 DEF CoreInv, TypesOK, LocalsOK, TombstonesMatchDurable, AnswersMatchDurable, AppendEvent, TerminalOutcome, KindOf
    <2>5. AnswersMatchDurable'
      BY <1>11 DEF CoreInv, TypesOK, LocalsOK, TombstonesMatchDurable, AnswersMatchDurable, AppendEvent, TerminalOutcome, KindOf
    <2>6. InsertedOnce'
      BY <1>11 DEF CoreInv, TypesOK, LocalsOK, InsertedOnce, InsertedMeansDecided, AppendEvent, TerminalOutcome, KindOf
    <2>7. InsertedMeansDecided'
      BY <1>11 DEF CoreInv, TypesOK, LocalsOK, InsertedMeansDecided, AppendEvent, TerminalOutcome, KindOf
    <2>8. EntryXorTombstone'
      BY <1>11 DEF CoreInv, TypesOK, LocalsOK, EntryXorTombstone, AppendEvent
    <2> QED BY <2>1, <2>2, <2>3, <2>4, <2>5, <2>6, <2>7, <2>8 DEF CoreInv
  <1>12. ASSUME NEW c \in Callers, PersistFails(c) PROVE CoreInv'
    <2>1. TypesOK'
      BY <1>12 DEF CoreInv, TypesOK, LocalsOK, PersistFails
    <2>2. LocalsOK'
      BY <1>12 DEF CoreInv, TypesOK, LocalsOK, PersistFails
    <2>3. LeaderHoldsClaim'
      BY <1>12 DEF CoreInv, TypesOK, LocalsOK, LeaderHoldsClaim, PersistFails
    <2>4. AnswersMatchDurable'
      BY <1>12 DEF CoreInv, TypesOK, LocalsOK, TombstonesMatchDurable, AnswersMatchDurable, PersistFails
    <2>5. (EntryXorTombstone /\ TombstonesMatchDurable /\ InsertedOnce /\ InsertedMeansDecided)'
      BY <1>12 DEF CoreInv, TypesOK, LocalsOK, EntryXorTombstone, TombstonesMatchDurable, InsertedOnce, InsertedMeansDecided, PersistFails
    <2> QED BY <2>1, <2>2, <2>3, <2>4, <2>5 DEF CoreInv
  <1>13. ASSUME NEW c \in Callers, Finalize(c) PROVE CoreInv'
    <2>1. TypesOK'
      BY <1>13 DEF CoreInv, TypesOK, LocalsOK, Finalize
    <2>2. LocalsOK'
      BY <1>13 DEF CoreInv, TypesOK, LocalsOK, Finalize
    <2>3. LeaderHoldsClaim'
      BY <1>13 DEF CoreInv, TypesOK, LocalsOK, LeaderHoldsClaim, Finalize
    <2>4. (EntryXorTombstone /\ TombstonesMatchDurable /\ AnswersMatchDurable /\ InsertedOnce /\ InsertedMeansDecided)'
      BY <1>13 DEF CoreInv, TypesOK, LocalsOK, EntryXorTombstone, TombstonesMatchDurable, AnswersMatchDurable, InsertedOnce, InsertedMeansDecided, Finalize
    <2> QED BY <2>1, <2>2, <2>3, <2>4 DEF CoreInv
  <1>14. ASSUME NEW c \in Callers, Release(c) PROVE CoreInv'
    <2>1. TypesOK'
      BY <1>14 DEF CoreInv, TypesOK, LocalsOK, Release, IsCurrent
    <2>2. LocalsOK'
      BY <1>14 DEF CoreInv, TypesOK, LocalsOK, Release, IsCurrent
    <2>3. LeaderHoldsClaim'
      BY <1>14 DEF CoreInv, TypesOK, LocalsOK, LeaderHoldsClaim, Release, IsCurrent
    <2>4. EntryXorTombstone'
      BY <1>14 DEF CoreInv, TypesOK, LocalsOK, LeaderHoldsClaim, EntryXorTombstone, Release, IsCurrent
    <2>5. (TombstonesMatchDurable /\ AnswersMatchDurable /\ InsertedOnce /\ InsertedMeansDecided)'
      BY <1>14 DEF CoreInv, TypesOK, LocalsOK, TombstonesMatchDurable, AnswersMatchDurable, InsertedOnce, InsertedMeansDecided, Release
    <2> QED BY <2>1, <2>2, <2>3, <2>4, <2>5 DEF CoreInv
  <1>15. ASSUME NEW c \in Callers, Cancel(c) PROVE CoreInv'
    <2>1. TypesOK'
      BY <1>15 DEF CoreInv, TypesOK, LocalsOK, Cancel
    <2>2. LocalsOK'
      BY <1>15 DEF CoreInv, TypesOK, LocalsOK, Cancel
    <2>3. LeaderHoldsClaim'
      BY <1>15 DEF CoreInv, TypesOK, LocalsOK, LeaderHoldsClaim, Cancel
    <2>4. AnswersMatchDurable'
      BY <1>15 DEF CoreInv, TypesOK, LocalsOK, TombstonesMatchDurable, AnswersMatchDurable, Cancel
    <2>5. (EntryXorTombstone /\ TombstonesMatchDurable /\ InsertedOnce /\ InsertedMeansDecided)'
      BY <1>15 DEF CoreInv, TypesOK, LocalsOK, EntryXorTombstone, TombstonesMatchDurable, InsertedOnce, InsertedMeansDecided, Cancel
    <2> QED BY <2>1, <2>2, <2>3, <2>4, <2>5 DEF CoreInv
  <1>16. ASSUME NEW c \in Callers, Reply(c) PROVE CoreInv'
    <2>1. TypesOK'
      BY <1>16 DEF CoreInv, TypesOK, LocalsOK, Reply
    <2>2. LocalsOK'
      BY <1>16 DEF CoreInv, TypesOK, LocalsOK, Reply
    <2>3. LeaderHoldsClaim'
      BY <1>16 DEF CoreInv, TypesOK, LocalsOK, LeaderHoldsClaim, Reply
    <2>4. AnswersMatchDurable'
      BY <1>16 DEF CoreInv, TypesOK, LocalsOK, TombstonesMatchDurable, AnswersMatchDurable, Reply
    <2>5. (EntryXorTombstone /\ TombstonesMatchDurable /\ InsertedOnce /\ InsertedMeansDecided)'
      BY <1>16 DEF CoreInv, TypesOK, LocalsOK, EntryXorTombstone, TombstonesMatchDurable, InsertedOnce, InsertedMeansDecided, Reply
    <2> QED BY <2>1, <2>2, <2>3, <2>4, <2>5 DEF CoreInv
  <1>17. ASSUME NEW k \in Keys, AbortRunAppend(k) PROVE CoreInv'
    <2>1. TypesOK'
      BY <1>17 DEF CoreInv, TypesOK, LocalsOK, AbortRunAppend, TerminalOutcome
    <2>2. TombstonesMatchDurable'
      BY <1>17 DEF CoreInv, TypesOK, LocalsOK, TombstonesMatchDurable, AnswersMatchDurable, AbortRunAppend, TerminalOutcome
    <2>3. AnswersMatchDurable'
      BY <1>17 DEF CoreInv, TypesOK, LocalsOK, TombstonesMatchDurable, AnswersMatchDurable, AbortRunAppend, TerminalOutcome
    <2>4. InsertedOnce'
      BY <1>17 DEF CoreInv, TypesOK, LocalsOK, InsertedOnce, InsertedMeansDecided, AbortRunAppend, TerminalOutcome
    <2>5. InsertedMeansDecided'
      BY <1>17 DEF CoreInv, TypesOK, LocalsOK, InsertedMeansDecided, AbortRunAppend, TerminalOutcome
    <2>6. (LocalsOK /\ LeaderHoldsClaim /\ EntryXorTombstone)'
      BY <1>17 DEF CoreInv, TypesOK, LocalsOK, LeaderHoldsClaim, EntryXorTombstone, AbortRunAppend
    <2> QED BY <2>1, <2>2, <2>3, <2>4, <2>5, <2>6 DEF CoreInv
  <1>18. ASSUME Restart PROVE CoreInv'
    <2>1. TypesOK'
      BY <1>18 DEF CoreInv, TypesOK, LocalsOK, Restart, Recovered, TerminalOutcome
    <2>2. LocalsOK'
      BY <1>18 DEF CoreInv, TypesOK, LocalsOK, Restart, Recovered, TerminalOutcome
    <2>3. LeaderHoldsClaim'
      BY <1>18 DEF CoreInv, TypesOK, LocalsOK, LeaderHoldsClaim, Restart, Recovered, TerminalOutcome
    <2>4. EntryXorTombstone'
      BY <1>18 DEF CoreInv, TypesOK, LocalsOK, LeaderHoldsClaim, EntryXorTombstone, Restart, Recovered, TerminalOutcome
    <2>5. TombstonesMatchDurable'
      BY <1>18 DEF CoreInv, TypesOK, LocalsOK, TombstonesMatchDurable, AnswersMatchDurable, Restart, Recovered, TerminalOutcome
    <2>6. AnswersMatchDurable'
      BY <1>18 DEF CoreInv, TypesOK, LocalsOK, TombstonesMatchDurable, AnswersMatchDurable, Restart, Recovered, TerminalOutcome
    <2>7. InsertedOnce'
      BY <1>18 DEF CoreInv, TypesOK, LocalsOK, InsertedOnce, InsertedMeansDecided, Restart, Recovered, TerminalOutcome
    <2>8. InsertedMeansDecided'
      BY <1>18 DEF CoreInv, TypesOK, LocalsOK, InsertedMeansDecided, Restart, Recovered, TerminalOutcome
    <2> QED BY <2>1, <2>2, <2>3, <2>4, <2>5, <2>6, <2>7, <2>8 DEF CoreInv
  <1> QED BY <1>1, <1>2, <1>3, <1>4, <1>5, <1>6, <1>7, <1>8, <1>9, <1>10, <1>11, <1>12, <1>13, <1>14, <1>15, <1>16, <1>17, <1>18 DEF Next, Progress
\* So does a commit: its tombstone repeats the outcome found durable.
LEMMA CommitCore ==
    ASSUME IInv, NEW c \in Callers, Commit(c)
    PROVE  CoreInv'
PROOF
  <1> USE DEF Goto, store, Labels, Leading
  <1>1. /\ CoreInv
        /\ pc[c] = "commit" /\ pc' = [pc EXCEPT ![c] = "done"]
        /\ active' = [active EXCEPT ![key[c]] = None]
        /\ UNCHANGED <<nextOwner, durable, inserted, key, intent, owner, waited, answer>>
    BY DEF IInv, Commit
  <1>2. /\ key[c] \in Keys /\ answer[c] \in Intents
        /\ \A d \in Callers \ {c} : pc[d] \in Leading => key[d] # key[c]
    BY <1>1 DEF CoreInv, LocalsOK, LeaderHoldsClaim
  <1>3. /\ committed' \in [Keys -> Record \cup {None}]
        /\ \A k \in Keys : committed'[k] \in {Inserted(c)[k], None}
    BY CommitOrder
  <1>4. /\ Inserted(c)[key[c]] = [outcome |-> answer[c], generation |-> owner[c]]
        /\ \A k \in Keys \ {key[c]} : Inserted(c)[k] = committed[k]
    BY <1>1, <1>2 DEF Inserted, CoreInv, TypesOK
  <1>5. TypesOK'
    BY <1>1, <1>3 DEF CoreInv, TypesOK
  <1>6. LocalsOK'
    BY <1>1, <1>2, ConstantsAssumption DEF CoreInv, TypesOK, LocalsOK
  <1>7. LeaderHoldsClaim'
    BY <1>1, <1>2 DEF CoreInv, TypesOK, LeaderHoldsClaim
  <1>8. EntryXorTombstone'
    BY <1>1, <1>2, <1>3, <1>4 DEF CoreInv, TypesOK, EntryXorTombstone
  <1>9. TombstonesMatchDurable'
    <2> SUFFICES ASSUME NEW k \in Keys, committed'[k] # None
                 PROVE  /\ durable[k] # None
                        /\ committed'[k].outcome = TerminalOutcome(durable[k])
      BY <1>1 DEF TombstonesMatchDurable
    <2>1. committed'[k] = Inserted(c)[k]
      BY <1>3
    <2>2. CASE k = key[c]
      BY <2>1, <2>2, <1>1, <1>2, <1>4 DEF CoreInv, AnswersMatchDurable
    <2>3. CASE k # key[c]
      BY <2>1, <2>3, <1>1, <1>4 DEF CoreInv, TombstonesMatchDurable
    <2> QED BY <2>2, <2>3
  <1>10. AnswersMatchDurable' /\ InsertedOnce' /\ InsertedMeansDecided'
    BY <1>1 DEF CoreInv, AnswersMatchDurable, InsertedOnce, InsertedMeansDecided
  <1> QED BY <1>5, <1>6, <1>7, <1>8, <1>9, <1>10 DEF CoreInv

\* Only Commit and Restart touch the tombstones or their FIFO.
LEMMA OrderStep ==
    ASSUME OrderInv, Next, \A c \in Callers : ~Commit(c)
    PROVE  OrderInv'
PROOF
  <1>1. CASE Restart
    <2>1. Occupied(committed)' = {}
      BY <1>1 DEF Restart, Occupied
    <2>2. (IsFiniteSet(Occupied(committed)) /\ Cardinality(Occupied(committed)) = 0)'
      BY <2>1, FS_EmptySet, Zenon
    <2>3. /\ committedOrder' = <<>>
          /\ committedOrder' \in Seq(Keys \X (1..MaxOwner))
          /\ Len(committedOrder') = 0
      BY <1>1, EmptySeq DEF Restart
    <2>4. \A k \in Keys : committed'[k] = None
      BY <1>1 DEF Restart
    <2> QED BY <2>2, <2>3, <2>4, ConstantsAssumption DEF OrderInv
  <1>2. CASE ~Restart
    <2>1. UNCHANGED <<committed, committedOrder>>
      BY <1>2 DEF Next, Progress, Request, ClaimCommitted, ClaimFollow, ClaimLead, ClaimExhausted,
         Recheck, Notified, SliceElapsed, Lookup, CollectEvidence, AppendEvent, PersistFails,
         Finalize, Release, Cancel, Reply, AbortRunAppend, registry
    <2> QED BY <2>1 DEF OrderInv, Occupied
  <1> QED BY <1>1, <1>2

LEMMA StepInv == IInv /\ [Next]_vars => IInv'
PROOF
  <1> SUFFICES ASSUME IInv, [Next]_vars PROVE IInv'
    OBVIOUS
  <1>1. CASE \E c \in Callers : Commit(c)
    BY <1>1, CommitCore, CommitOrder DEF IInv
  <1>2. CASE Next /\ ~\E c \in Callers : Commit(c)
    BY <1>2, CoreStep, OrderStep DEF IInv
  <1>3. CASE UNCHANGED vars
    <2>1. CoreInv'
      BY <1>3 DEF IInv, CoreInv, TypesOK, LocalsOK, LeaderHoldsClaim, EntryXorTombstone,
         TombstonesMatchDurable, AnswersMatchDurable, InsertedOnce, InsertedMeansDecided,
         vars, registry, store
    <2>2. OrderInv'
      BY <1>3 DEF IInv, OrderInv, Occupied, vars, registry
    <2> QED BY <2>1, <2>2 DEF IInv
  <1> QED BY <1>1, <1>2, <1>3

\* The inductive invariant holds in every reachable state.
THEOREM Invariance == Spec => []IInv
  BY InitInv, StepInv, PTL DEF Spec

-----------------------------------------------------------------------------
(* What the invariant gives. *)

\* Every variable of the registry, the store and the callers keeps its type,
\* and the owner counter never passes the largest u64.
THEOREM TypeCorrect == Spec => []TypeOK
PROOF
  <1>1. IInv => TypeOK
    BY DEF IInv, CoreInv, OrderInv, TypesOK, TypeOK, Labels
  <1> QED BY <1>1, Invariance, PTL

\* A turn has one leader at a time and its claim is current, so
\* commit_after_persistence never returns StaleClaim.
THEOREM OneLeader == Spec => []LeaderHoldsClaim
PROOF
  <1>1. IInv => LeaderHoldsClaim
    BY DEF IInv, CoreInv
  <1> QED BY <1>1, Invariance, PTL

\* No leader works on a turn that has a tombstone.
THEOREM CommitEndsWork == Spec => []NoWorkAfterCommit
PROOF
  <1>1. IInv => NoWorkAfterCommit
    BY LeaderHasEntry DEF IInv, NoWorkAfterCommit
  <1> QED BY <1>1, Invariance, PTL

\* Tombstones and answers agree with the durable row of the turn.
THEOREM AnswersAreCanonical == Spec => [](TombstonesMatchDurable /\ AnswersMatchDurable)
PROOF
  <1>1. IInv => TombstonesMatchDurable /\ AnswersMatchDurable
    BY DEF IInv, CoreInv
  <1> QED BY <1>1, Invariance, PTL

\* A tombstone in memory never contradicts the terminal row it stands for.
THEOREM TombstonesAreDurable == Spec => []TombstonesMatchDurable
PROOF
  <1>1. IInv => TombstonesMatchDurable
    BY DEF IInv, CoreInv
  <1> QED BY <1>1, Invariance, PTL

\* At most one caller is ever told that it inserted the terminal row of a turn.
THEOREM PublishedOnce == Spec => []InsertedOnce
PROOF
  <1>1. IInv => InsertedOnce
    BY DEF IInv, CoreInv
  <1> QED BY <1>1, Invariance, PTL

\* The FIFO mirrors the tombstones, so the eviction loop never runs dry.
THEOREM EvictionIsExact == Spec => []OrderMatchesTombstones
PROOF
  <1>1. IInv => OrderMatchesTombstones
    BY DEF IInv, OrderInv, OrderMatchesTombstones
  <1> QED BY <1>1, Invariance, PTL
-----------------------------------------------------------------------------
(* The capacity limits. *)

\* There are finitely many entries and no more than MaxActive.
ActiveInv ==
    /\ IsFiniteSet(Occupied(active))
    /\ Cardinality(Occupied(active)) <= MaxActive

LEMMA ActiveStep ==
    ASSUME IInv, ActiveInv, [Next]_vars
    PROVE  ActiveInv'
PROOF
  <1>1. active \in [Keys -> Entry \cup {None}] /\ MaxActive \in Nat
    BY ConstantsAssumption DEF IInv, CoreInv, TypesOK
  <1>2. ASSUME NEW c \in Callers, ClaimLead(c) PROVE ActiveInv'
    <2>1. key[c] \in Keys /\ Cardinality(Occupied(active)) < MaxActive
      BY <1>2 DEF ClaimLead, CanLead, IInv, CoreInv, LocalsOK
    <2>2. active' = [active EXCEPT ![key[c]] = [owner |-> nextOwner, intent |-> intent[c]]]
      BY <1>2 DEF ClaimLead
    <2>3. Occupied(active') \subseteq Occupied(active) \cup {key[c]}
      BY <1>1, <2>2 DEF Occupied
    <2>4. /\ IsFiniteSet(Occupied(active) \cup {key[c]})
          /\ Cardinality(Occupied(active) \cup {key[c]}) <= Cardinality(Occupied(active)) + 1
          /\ Cardinality(Occupied(active)) \in Nat
      <3>1. IsFiniteSet(Occupied(active)) /\ Cardinality(Occupied(active)) \in Nat
        BY FS_CardinalityType DEF ActiveInv
      <3>2. /\ IsFiniteSet(Occupied(active) \cup {key[c]})
            /\ Cardinality(Occupied(active) \cup {key[c]}) =
                  IF key[c] \in Occupied(active) THEN Cardinality(Occupied(active))
                  ELSE Cardinality(Occupied(active)) + 1
        BY <3>1, FS_AddElement
      <3> QED BY <3>1, <3>2
    <2>5. /\ IsFiniteSet(Occupied(active'))
          /\ Cardinality(Occupied(active')) <= Cardinality(Occupied(active) \cup {key[c]})
          /\ Cardinality(Occupied(active')) \in Nat
          /\ Cardinality(Occupied(active) \cup {key[c]}) \in Nat
      BY <2>3, <2>4, FS_Subset, FS_CardinalityType
    <2>6. Cardinality(Occupied(active')) <= MaxActive
      BY <2>1, <2>4, <2>5, <1>1
    <2>7. Occupied(active)' = Occupied(active')
      BY DEF Occupied
    <2> QED BY <2>5, <2>6, <2>7 DEF ActiveInv
  <1>3. ASSUME Occupied(active)' \subseteq Occupied(active) PROVE ActiveInv'
    <2>1. /\ IsFiniteSet(Occupied(active)')
          /\ Cardinality(Occupied(active)') <= Cardinality(Occupied(active))
          /\ Cardinality(Occupied(active)') \in Nat
          /\ Cardinality(Occupied(active)) \in Nat
      BY <1>3, FS_Subset, FS_CardinalityType DEF ActiveInv
    <2> QED BY <2>1, <1>1 DEF ActiveInv
  <1>4. ASSUME NEW c \in Callers, Commit(c) \/ Release(c) PROVE Occupied(active)' \subseteq Occupied(active)
    <2>1. active' = active \/ active' = [active EXCEPT ![key[c]] = None]
      BY <1>4 DEF Commit, Release
    <2> QED BY <2>1, <1>1 DEF Occupied
  <1>5. CASE Restart
    <2>1. Occupied(active)' \subseteq Occupied(active)
      BY <1>5 DEF Restart, Occupied
    <2> QED BY <2>1, <1>3
  <1>6. CASE UNCHANGED active
    <2>1. Occupied(active)' \subseteq Occupied(active)
      BY <1>6 DEF Occupied
    <2> QED BY <2>1, <1>3
  <1>7. \/ UNCHANGED active
        \/ Restart
        \/ \E c \in Callers : ClaimLead(c) \/ Commit(c) \/ Release(c)
    BY DEF Next, Progress, Request, ClaimCommitted, ClaimFollow, ClaimExhausted,
       Recheck, Notified, SliceElapsed, Lookup, CollectEvidence, AppendEvent, PersistFails,
       Finalize, Cancel, Reply, AbortRunAppend, registry, vars
  <1> QED BY <1>2, <1>3, <1>4, <1>5, <1>6, <1>7

\* Neither MAX_ACTIVE_CLAIMS nor MAX_COMMITTED_TOMBSTONES is ever exceeded.
THEOREM CapacityHolds == Spec => []RegistryIsBounded
PROOF
  <1>1. Init => ActiveInv
    <2> SUFFICES ASSUME Init PROVE ActiveInv
      OBVIOUS
    <2>1. Occupied(active) = {}
      BY DEF Init, Occupied
    <2>2. IsFiniteSet(Occupied(active)) /\ Cardinality(Occupied(active)) = 0
      BY <2>1, FS_EmptySet, Zenon
    <2> QED BY <2>2, ConstantsAssumption DEF ActiveInv
  <1>2. IInv /\ ActiveInv /\ [Next]_vars => ActiveInv'
    BY ActiveStep
  <1>3. IInv /\ ActiveInv => RegistryIsBounded
    BY DEF IInv, OrderInv, ActiveInv, RegistryIsBounded
  <1> QED BY <1>1, <1>2, <1>3, Invariance, PTL DEF Spec

-----------------------------------------------------------------------------
(* Terminal rows are final, and the arbiter implements TurnOutcome. *)

\* No step rewrites or deletes the terminal row of a turn.
THEOREM RowsAreFinal == Spec => DurableIsFinal
PROOF
  <1>1. ASSUME IInv, [Next]_vars
        PROVE  [\A k \in Keys : durable[k] # None => durable'[k] = durable[k]]_vars
    <2>1. ASSUME NEW c \in Callers, AppendEvent(c)
          PROVE  \A k \in Keys : durable[k] # None => durable'[k] = durable[k]
      BY <1>1, <2>1 DEF AppendEvent, store, IInv, CoreInv, TypesOK
    <2>2. ASSUME NEW k \in Keys, AbortRunAppend(k)
          PROVE  \A j \in Keys : durable[j] # None => durable'[j] = durable[j]
      BY <1>1, <2>2 DEF AbortRunAppend, IInv, CoreInv, TypesOK
    <2>3. CASE Restart
      BY <2>3 DEF Restart, Recovered
    <2>4. \/ UNCHANGED durable
          \/ Restart
          \/ \E c \in Callers : AppendEvent(c)
          \/ \E k \in Keys : AbortRunAppend(k)
      BY <1>1 DEF Next, Progress, Request, ClaimCommitted, ClaimFollow, ClaimLead, ClaimExhausted,
         Recheck, Notified, SliceElapsed, Lookup, CollectEvidence, PersistFails, Commit, Release,
         Finalize, Cancel, Reply, store, vars
    <2> QED BY <2>1, <2>2, <2>3, <2>4
  <1> QED BY <1>1, Invariance, PTL DEF Spec, DurableIsFinal

\* What the abstract variables become.
MappedOutcome == [k \in Keys |-> OutcomeOf(k)]
MappedTold == [c \in Callers |-> ToldTo(c)]

\* A step that leaves the rows alone and changes at most c's visible answer.
LEMMA AnswerStep ==
    ASSUME NEW c \in Callers, pc \in [Callers -> Labels], UNCHANGED durable,
           \E l \in Labels : pc' = [pc EXCEPT ![c] = l],
           \A d \in Callers \ {c} : key'[d] = key[d] /\ answer'[d] = answer[d]
    PROVE  /\ UNCHANGED MappedOutcome
           /\ MappedTold' = [MappedTold EXCEPT ![c] = ToldTo(c)']
PROOF
  <1>1. \A d \in Callers \ {c} : pc'[d] = pc[d]
    OBVIOUS
  <1>2. \A d \in Callers \ {c} : ToldTo(d)' = ToldTo(d)
    BY <1>1 DEF ToldTo
  <1>3. UNCHANGED MappedOutcome
    BY DEF MappedOutcome, OutcomeOf
  <1> QED BY <1>2, <1>3 DEF MappedTold
\* A row written for one turn decides that turn's outcome and nothing else.
LEMMA DecideStep ==
    ASSUME NEW k \in Keys, NEW kind \in TerminalKinds, durable \in [Keys -> TerminalKinds \cup {None}],
           durable[k] = None, durable' = [durable EXCEPT ![k] = kind]
    PROVE  /\ MappedOutcome[k] = None
           /\ MappedOutcome' = [MappedOutcome EXCEPT ![k] = TerminalOutcome(kind)]
PROOF
  <1>1. kind # None
    BY ConstantsAssumption
  <1>2. OutcomeOf(k)' = TerminalOutcome(kind)
    BY <1>1 DEF OutcomeOf
  <1>3. \A j \in Keys \ {k} : OutcomeOf(j)' = OutcomeOf(j)
    BY DEF OutcomeOf
  <1> QED BY <1>2, <1>3 DEF MappedOutcome, OutcomeOf

\* Every step of the arbiter is a step of TurnOutcome or changes nothing it sees.
LEMMA PromiseStep ==
    ASSUME IInv, [Next]_vars
    PROVE  [Promise!ONext]_(Promise!ovars)
PROOF
  <1> USE DEF Goto, Return, registry, store, Labels, Leading, Awaiting
  <1> DEFINE AbsTell(c) == /\ key[c] \in Keys /\ MappedOutcome[key[c]] # None
                           /\ MappedTold' = [MappedTold EXCEPT ![c] = <<key[c], MappedOutcome[key[c]]>>]
                           /\ UNCHANGED MappedOutcome
             AbsFail(c) == /\ key[c] \in Keys
                           /\ \E f \in Errors :
                                 MappedTold' = [MappedTold EXCEPT ![c] = <<key[c], f>>]
                           /\ UNCHANGED MappedOutcome
             AbsForget(c) == /\ MappedTold' = [MappedTold EXCEPT ![c] = None]
                             /\ UNCHANGED MappedOutcome
             AbsDecide == /\ \E k \in Keys, o \in Intents :
                               /\ MappedOutcome[k] = None
                               /\ MappedOutcome' = [MappedOutcome EXCEPT ![k] = o]
                          /\ UNCHANGED MappedTold
             AbsReboot == /\ MappedTold' = [c \in Callers |-> None]
                          /\ \/ UNCHANGED MappedOutcome
                             \/ MappedOutcome' = [k \in Keys |->
                                   IF MappedOutcome[k] = None THEN "Aborted" ELSE MappedOutcome[k]]
             Stutter == UNCHANGED <<MappedOutcome, MappedTold>>
  <1>1. /\ pc \in [Callers -> Labels] /\ durable \in [Keys -> TerminalKinds \cup {None}]
        /\ key \in [Callers -> Keys \cup {None}]
        /\ answer \in [Callers -> Intents \cup Errors \cup {None}]
        /\ \A c \in Callers : pc[c] # "idle" => key[c] \in Keys /\ intent[c] \in Intents
    BY DEF IInv, CoreInv, TypesOK, LocalsOK
  <1>2. \A k \in Keys : MappedOutcome[k] = OutcomeOf(k)
    BY DEF MappedOutcome
  <1>3. \A c \in Callers : MappedTold[c] = ToldTo(c)
    BY DEF MappedTold
  <1>4. \A k \in Keys : committed[k] # None =>
            MappedOutcome[k] # None /\ committed[k].outcome = MappedOutcome[k]
    <2> SUFFICES ASSUME NEW k \in Keys, committed[k] # None
                 PROVE  MappedOutcome[k] # None /\ committed[k].outcome = MappedOutcome[k]
      OBVIOUS
    <2>1. durable[k] # None /\ committed[k].outcome = TerminalOutcome(durable[k])
      BY DEF IInv, CoreInv, TombstonesMatchDurable
    <2>2. TerminalOutcome(durable[k]) # None
      BY ConstantsAssumption DEF TerminalOutcome, Intents
    <2> QED BY <2>1, <2>2, <1>2 DEF OutcomeOf
  <1>5. ASSUME NEW c \in Callers, ClaimCommitted(c) PROVE AbsTell(c)
    <2>1. /\ UNCHANGED MappedOutcome
          /\ MappedTold' = [MappedTold EXCEPT ![c] = ToldTo(c)']
      BY <1>1, <1>5, AnswerStep DEF ClaimCommitted
    <2>2. ToldTo(c)' = <<key[c], committed[key[c]].outcome>>
      BY <1>1, <1>5 DEF ClaimCommitted, ToldTo
    <2> QED BY <2>1, <2>2, <1>1, <1>4, <1>5 DEF ClaimCommitted
  <1>6. ASSUME NEW c \in Callers, ClaimExhausted(c) PROVE AbsFail(c)
    <2>1. /\ UNCHANGED MappedOutcome
          /\ MappedTold' = [MappedTold EXCEPT ![c] = ToldTo(c)']
      BY <1>1, <1>6, AnswerStep DEF ClaimExhausted
    <2>2. ToldTo(c)' = <<key[c], "ClaimCapacityExhausted">>
      BY <1>1, <1>6 DEF ClaimExhausted, ToldTo
    <2> QED BY <2>1, <2>2, <1>1, <1>6 DEF ClaimExhausted, Errors
  <1>7. ASSUME NEW c \in Callers, UNCHANGED durable, pc[c] # "done",
               \E l \in Labels \ {"done"} : pc' = [pc EXCEPT ![c] = l],
               \A d \in Callers \ {c} : key'[d] = key[d] /\ answer'[d] = answer[d]
        PROVE  Stutter
    <2>1. /\ UNCHANGED MappedOutcome
          /\ MappedTold' = [MappedTold EXCEPT ![c] = ToldTo(c)']
      BY <1>1, <1>7, AnswerStep
    <2>2. ToldTo(c)' = None /\ ToldTo(c) = None
      BY <1>1, <1>7 DEF ToldTo
    <2>3. [MappedTold EXCEPT ![c] = None] = MappedTold
      BY <2>2, <1>3 DEF MappedTold
    <2> QED BY <2>1, <2>2, <2>3
  <1>8. ASSUME NEW c \in Callers,
               \/ \E k \in Keys, i \in Intents : Request(c, k, i)
               \/ ClaimFollow(c) \/ ClaimLead(c) \/ Notified(c) \/ Lookup(c)
               \/ CollectEvidence(c) \/ PersistFails(c) \/ Finalize(c)
        PROVE  Stutter
    <2>1. /\ UNCHANGED durable
          /\ pc[c] # "done"
          /\ \E l \in Labels \ {"done"} : pc' = [pc EXCEPT ![c] = l]
          /\ \A d \in Callers \ {c} : key'[d] = key[d] /\ answer'[d] = answer[d]
      BY <1>1, <1>8 DEF Request, ClaimFollow, ClaimLead, Notified, Lookup, CollectEvidence,
         PersistFails, Finalize
    <2> QED BY <2>1, <1>7
  <1>9. ASSUME NEW c \in Callers, Recheck(c) PROVE AbsTell(c) \/ Stutter
    <2>1. CASE committed[key[c]] # None
      <3>1. /\ UNCHANGED MappedOutcome
            /\ MappedTold' = [MappedTold EXCEPT ![c] = ToldTo(c)']
        BY <1>1, <1>9, <2>1, AnswerStep DEF Recheck
      <3>2. ToldTo(c)' = <<key[c], committed[key[c]].outcome>>
        BY <1>1, <1>9, <2>1 DEF Recheck, ToldTo
      <3> QED BY <3>1, <3>2, <1>1, <1>4, <1>9, <2>1 DEF Recheck
    <2>2. CASE committed[key[c]] = None
      <3>1. /\ UNCHANGED durable
            /\ pc[c] # "done"
            /\ \E l \in Labels \ {"done"} : pc' = [pc EXCEPT ![c] = l]
            /\ \A d \in Callers \ {c} : key'[d] = key[d] /\ answer'[d] = answer[d]
        BY <1>1, <1>9, <2>2 DEF Recheck
      <3> QED BY <3>1, <1>7
    <2> QED BY <2>1, <2>2
  <1>10. ASSUME NEW c \in Callers, SliceElapsed(c) PROVE AbsFail(c) \/ Stutter
    <2>1. CASE ~(waited[c] + 1 < MaxSlices)
      <3>1. /\ UNCHANGED MappedOutcome
            /\ MappedTold' = [MappedTold EXCEPT ![c] = ToldTo(c)']
        BY <1>1, <1>10, <2>1, AnswerStep DEF SliceElapsed
      <3>2. ToldTo(c)' = <<key[c], "TimedOut">>
        BY <1>1, <1>10, <2>1 DEF SliceElapsed, ToldTo
      <3> QED BY <3>1, <3>2, <1>1, <1>10 DEF SliceElapsed, Errors
    <2>2. CASE waited[c] + 1 < MaxSlices
      <3>1. /\ UNCHANGED durable
            /\ pc[c] # "done"
            /\ \E l \in Labels \ {"done"} : pc' = [pc EXCEPT ![c] = l]
            /\ \A d \in Callers \ {c} : key'[d] = key[d] /\ answer'[d] = answer[d]
        BY <1>1, <1>10, <2>2 DEF SliceElapsed
      <3> QED BY <3>1, <1>7
    <2> QED BY <2>1, <2>2
  <1>11. ASSUME NEW c \in Callers, Cancel(c) PROVE AbsFail(c) \/ Stutter
    <2>1. CASE pc[c] \notin Leading
      <3>1. /\ UNCHANGED MappedOutcome
            /\ MappedTold' = [MappedTold EXCEPT ![c] = ToldTo(c)']
        BY <1>1, <1>11, <2>1, AnswerStep DEF Cancel
      <3>2. ToldTo(c)' = <<key[c], "Cancelled">>
        BY <1>1, <1>11, <2>1 DEF Cancel, ToldTo
      <3> QED BY <3>1, <3>2, <1>1, <1>11 DEF Cancel, Errors
    <2>2. CASE pc[c] \in Leading
      <3>1. /\ UNCHANGED durable
            /\ pc[c] # "done"
            /\ \E l \in Labels \ {"done"} : pc' = [pc EXCEPT ![c] = l]
            /\ \A d \in Callers \ {c} : key'[d] = key[d] /\ answer'[d] = answer[d]
        BY <1>1, <1>11, <2>2 DEF Cancel
      <3> QED BY <3>1, <1>7
    <2> QED BY <2>1, <2>2
  <1>12. ASSUME NEW c \in Callers, Commit(c) PROVE AbsTell(c)
    <2>1. /\ UNCHANGED MappedOutcome
          /\ MappedTold' = [MappedTold EXCEPT ![c] = ToldTo(c)']
      BY <1>1, <1>12, AnswerStep DEF Commit
    <2>2. ToldTo(c)' = <<key[c], answer[c]>>
      BY <1>1, <1>12 DEF Commit, ToldTo
    <2>3. /\ key[c] \in Keys /\ durable[key[c]] # None
          /\ answer[c] = TerminalOutcome(durable[key[c]])
      BY <1>1, <1>12 DEF Commit, IInv, CoreInv, LocalsOK, AnswersMatchDurable
    <2>4. TerminalOutcome(durable[key[c]]) # None
      BY ConstantsAssumption DEF TerminalOutcome, Intents
    <2> QED BY <2>1, <2>2, <2>3, <2>4, <1>2 DEF OutcomeOf
  <1>13. ASSUME NEW c \in Callers, Release(c) PROVE AbsFail(c)
    <2>1. /\ UNCHANGED MappedOutcome
          /\ MappedTold' = [MappedTold EXCEPT ![c] = ToldTo(c)']
      BY <1>1, <1>13, AnswerStep DEF Release
    <2>2. ToldTo(c)' = <<key[c], answer[c]>>
      BY <1>1, <1>13 DEF Release, ToldTo
    <2>3. key[c] \in Keys /\ answer[c] \in Errors
      BY <1>13 DEF Release, IInv, CoreInv, LocalsOK
    <2> QED BY <2>1, <2>2, <2>3
  <1>14. ASSUME NEW c \in Callers, Reply(c) PROVE AbsForget(c)
    <2>1. /\ UNCHANGED MappedOutcome
          /\ MappedTold' = [MappedTold EXCEPT ![c] = ToldTo(c)']
      BY <1>1, <1>14, AnswerStep DEF Reply
    <2>2. ToldTo(c)' = None
      BY <1>1, <1>14 DEF Reply, ToldTo
    <2> QED BY <2>1, <2>2
  <1>15. ASSUME NEW c \in Callers, AppendEvent(c) PROVE AbsDecide \/ Stutter
    <2>1. UNCHANGED MappedTold
      <3>1. \A d \in Callers : ToldTo(d)' = ToldTo(d)
        BY <1>1, <1>15 DEF AppendEvent, ToldTo
      <3> QED BY <3>1 DEF MappedTold
    <2>2. CASE durable[key[c]] = None
      <3>1. /\ key[c] \in Keys /\ KindOf(intent[c]) \in TerminalKinds
            /\ durable' = [durable EXCEPT ![key[c]] = KindOf(intent[c])]
        BY <1>1, <1>15, <2>2 DEF AppendEvent, KindOf, TerminalKinds
      <3>2. TerminalOutcome(KindOf(intent[c])) \in Intents
        BY DEF TerminalOutcome, Intents
      <3> QED BY <3>1, <3>2, <2>1, <2>2, <1>1, DecideStep
    <2>3. CASE durable[key[c]] # None
      BY <2>1, <2>3, <1>15 DEF AppendEvent, MappedOutcome, OutcomeOf
    <2> QED BY <2>2, <2>3
  <1>16. ASSUME NEW k \in Keys, AbortRunAppend(k) PROVE AbsDecide
    <2>1. UNCHANGED MappedTold
      BY <1>16 DEF AbortRunAppend, MappedTold, ToldTo
    <2>2. TerminalOutcome("TurnAborted") \in Intents /\ "TurnAborted" \in TerminalKinds
      BY DEF TerminalOutcome, Intents, TerminalKinds
    <2> QED BY <2>1, <2>2, <1>1, <1>16, DecideStep DEF AbortRunAppend
  <1>17. ASSUME Restart PROVE AbsReboot
    <2>1. MappedTold' = [c \in Callers |-> None]
      BY <1>17 DEF Restart, MappedTold, ToldTo
    <2>2. CASE durable' = durable
      BY <2>1, <2>2 DEF MappedOutcome, OutcomeOf
    <2>3. CASE durable' = Recovered
      <3>1. \A k \in Keys : OutcomeOf(k)' = IF OutcomeOf(k) = None THEN "Aborted" ELSE OutcomeOf(k)
        BY <2>3, <1>1, ConstantsAssumption DEF Recovered, OutcomeOf, TerminalOutcome, Intents, TerminalKinds
      <3> QED BY <2>1, <3>1 DEF MappedOutcome
    <2> QED BY <1>17, <2>2, <2>3 DEF Restart
  <1>18. ASSUME UNCHANGED vars PROVE Stutter
    BY <1>18 DEF vars, MappedOutcome, MappedTold, OutcomeOf, ToldTo
  <1>19. \/ Stutter \/ AbsDecide \/ AbsReboot
         \/ \E c \in Callers : AbsTell(c) \/ AbsFail(c) \/ AbsForget(c)
    <2> HIDE DEF Stutter, AbsDecide, AbsReboot, AbsTell, AbsFail, AbsForget
    <2> QED BY <1>5, <1>6, <1>8, <1>9, <1>10, <1>11, <1>12, <1>13, <1>14, <1>15, <1>16, <1>17, <1>18
            DEF Next, Progress
  <1> QED BY <1>19 DEF Promise!ONext, Promise!ovars, Promise!Decide, Promise!Tell, Promise!Fail,
             Promise!Forget, Promise!Reboot, MappedOutcome, MappedTold

\* The arbiter with its retries, evictions and restarts implements TurnOutcome.
THEOREM ArbiterKeepsPromise == Spec => KeepsPromise
PROOF
  <1>1. Init => Promise!OInit
    BY DEF Init, Promise!OInit, OutcomeOf, ToldTo
  <1>2. IInv /\ [Next]_vars => [Promise!ONext]_(Promise!ovars)
    BY PromiseStep
  <1> QED BY <1>1, <1>2, Invariance, PTL DEF Spec, KeepsPromise, Promise!OSpec
=============================================================================
