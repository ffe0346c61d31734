------------------------- MODULE RolloutBatchProofs -------------------------
(***************************************************************************)
(* Proofs about RolloutBatch.                                              *)
(*                                                                         *)
(* The turns of all rollouts, request by request, form one sequence        *)
(* (TurnSeq).  What the workers return, what the manager concatenates and  *)
(* the prompts that sample_level_repeat produces all follow this sequence, *)
(* so after the expansion every turn has one row with the right prompt,    *)
(* reward and score (Fits).  Marked copies, a new order and the advantages *)
(* keep that (PadFits, BalanceFits, AdvantageFits): it is the inductive    *)
(* part of IInv.                                                           *)
(*                                                                         *)
(* The advantages follow from Fits alone.  The genuine rows are the turns  *)
(* in some order; a sum over them does not depend on the order, so what    *)
(* the rewards are centred by is what the definition centres them by, and  *)
(* the rows of one request sorted by turn are its rollout again.           *)
(***************************************************************************)
EXTENDS RolloutBatch, SeqlenBalancingProofs

-----------------------------------------------------------------------------
(* Padding and filtering.                                                  *)

(* Quotient and remainder.                                                 *)
LEMMA QuotientAndRest ==
  ASSUME NEW n \in Nat, NEW d \in Nat \ {0}
  PROVE  n \div d \in Nat /\ n % d \in 0 .. d - 1 /\ n = d * (n \div d) + (n % d)
<1>1. n \div d \in Int /\ n % d \in 0 .. d - 1 /\ n = d * (n \div d) + (n % d)
  OBVIOUS
<1> DEFINE q == n \div d
           r == n % d
<1>2. q \in Int /\ r \in 0 .. d - 1 /\ n = d * q + r
  BY <1>1
<1> HIDE DEF q, r
<1>3. q \in Nat
  BY <1>2
<1> QED BY <1>1, <1>3 DEF q

(* The padding is shorter than the divisor and fills up to a multiple.     *)
LEMMA PadSizeFits ==
  ASSUME NEW n \in Nat, NEW divisor \in Nat \ {0}
  PROVE  /\ PadSize(n, divisor) \in Nat
         /\ (n + PadSize(n, divisor)) % divisor = 0
<1> DEFINE q == n \div divisor
           r == n % divisor
<1>1. /\ q \in Int /\ r \in 0 .. divisor - 1
      /\ n = divisor * q + r
  BY QuotientAndRest
<1>2. PadSize(n, divisor) = IF r = 0 THEN 0 ELSE divisor - r
  BY DEF PadSize
<1> HIDE DEF q, r
<1>3. CASE r = 0
  <2>1. PadSize(n, divisor) = 0
    BY <1>2, <1>3
  <2>2. n % divisor = 0
    BY <1>3 DEF r
  <2> QED BY <2>1, <2>2
<1>4. CASE r # 0
  <2> DEFINE m == n + (divisor - r)
  <2>1. m = divisor * (q + 1) /\ m \in Int
    BY <1>1
  <2>2. (divisor * (q + 1)) % divisor = 0
    BY <1>1
  <2> QED BY <1>1, <1>2, <1>4, <2>1, <2>2
<1> QED BY <1>3, <1>4

(* Padding repeats members of the sequence behind it.                      *)
LEMMA PaddedType ==
  ASSUME NEW X, NEW s \in Seq(X), s # << >>, NEW divisor \in Nat \ {0}
  PROVE  /\ Padded(s, divisor) \in Seq(X)
         /\ Len(Padded(s, divisor)) = Len(s) + PadSize(Len(s), divisor)
         /\ \A i \in 1 .. Len(s) : Padded(s, divisor)[i] = s[i]
         /\ Members(Padded(s, divisor)) = Members(s)
<1> DEFINE n == Len(s)
           m == n + PadSize(n, divisor)
           t == Padded(s, divisor)
           at(i) == ((i - 1) % n) + 1
<1>1. n \in Nat \ {0} /\ \A i \in 1 .. n : s[i] \in X
  BY LenProperties, EmptySeq, ElementOfSeq
<1>2. m \in Nat /\ n <= m
  <2> HIDE DEF n
  <2>1. PadSize(n, divisor) \in Nat
    BY <1>1, PadSizeFits
  <2> QED BY <1>1, <2>1
<1>3. t = [i \in 1 .. m |-> s[at(i)]]
  BY DEF Padded
<1> HIDE DEF n, m, t
<1>4. \A i \in 1 .. m : at(i) \in 1 .. n
  BY <1>1, <1>2
<1>5. \A i \in 1 .. n : at(i) = i
  BY <1>1
<1> HIDE DEF at
<1>6. t \in [1 .. m -> X]
  BY <1>1, <1>3, <1>4
<1>7. t \in Seq(X) /\ Len(t) = m
  BY <1>2, <1>6, FunctionIsSeq
<1>8. \A i \in 1 .. n : t[i] = s[i]
  BY <1>1, <1>2, <1>3, <1>5
<1>9. Members(t) = Members(s)
  <2>1. \A i \in 1 .. m : t[i] \in Members(s)
    BY <1>3, <1>4 DEF Members, n
  <2>2. \A i \in 1 .. n : s[i] \in Members(t)
    BY <1>1, <1>2, <1>7, <1>8 DEF Members
  <2> QED BY <1>7, <2>1, <2>2 DEF Members, n
<1> QED BY <1>7, <1>8, <1>9 DEF n, m, t

(* The members of s at the positions B, in their order.                    *)
KeptAt(s, B) == FlattenSeq([i \in 1 .. Len(s) |-> IF i \in B THEN << s[i] >> ELSE << >>])

(* Filtering picks positions, each once.                                   *)
LEMMA KeptPositions ==
  ASSUME NEW X, NEW s \in Seq(X), NEW B \in SUBSET (1 .. Len(s))
  PROVE  \E pos \in Seq(B) : /\ Distinct(pos) /\ Members(pos) = B
                             /\ KeptAt(s, B) = Through(pos, s)
<1> DEFINE n == Len(s)
           parts == [i \in 1 .. n |-> IF i \in B THEN << i >> ELSE << >>]
           f == [i \in B |-> s[i]]
           pos == FlattenSeq(parts)
<1>1. n \in Nat /\ s \in [1 .. n -> X]
  BY LenProperties
<1>2. parts \in Seq(Seq(B)) /\ Len(parts) = n
  <2>1. parts \in [1 .. n -> Seq(B)]
    <3> SUFFICES ASSUME NEW i \in 1 .. n
                 PROVE  (IF i \in B THEN << i >> ELSE << >>) \in Seq(B)
      OBVIOUS
    <3>1. << >> \in Seq(B)
      BY EmptySeq
    <3>2. i \in B => << i >> \in Seq(B)
      OBVIOUS
    <3> QED BY <3>1, <3>2
  <2> HIDE DEF n, parts
  <2> QED BY <1>1, <2>1, FunctionIsSeq
<1>3. \A i \in 1 .. n : parts[i] = IF i \in B THEN << i >> ELSE << >>
  OBVIOUS
<1> HIDE DEF parts
<1>4. \A i \in 1 .. n : Members(parts[i]) = (IF i \in B THEN {i} ELSE {}) /\ Distinct(parts[i])
  <2> SUFFICES ASSUME NEW i \in 1 .. n
               PROVE  Members(parts[i]) = (IF i \in B THEN {i} ELSE {}) /\ Distinct(parts[i])
    OBVIOUS
  <2>1. CASE i \in B
    <3>1. parts[i] = << i >>
      BY <1>3, <2>1
    <3> QED BY <2>1, <3>1 DEF Members, Distinct
  <2>2. CASE i \notin B
    <3>1. parts[i] = << >>
      BY <1>3, <2>2
    <3> QED BY <2>2, <3>1 DEF Members, Distinct
  <2> QED BY <2>1, <2>2
<1>5. ExactParts(parts, B)
  <2>1. \A x \in B : x \in 1 .. n /\ x \in Members(parts[x])
    BY <1>4
  <2>2. \A i, j \in 1 .. n : i # j => Members(parts[i]) \cap Members(parts[j]) = {}
    BY <1>4
  <2> HIDE DEF n
  <2>3. \A x \in B : \E i \in 1 .. Len(parts) : x \in Members(parts[i])
    BY <1>2, <2>1
  <2> QED BY <1>2, <1>4, <2>2, <2>3 DEF ExactParts
<1>6. pos \in Seq(B) /\ Distinct(pos) /\ Members(pos) = B
  BY <1>5, FlattenExact
<1>7. f \in [B -> X]
  BY <1>1
<1>8. EachThrough(parts, f) = [i \in 1 .. n |-> IF i \in B THEN << s[i] >> ELSE << >>]
  <2>1. ASSUME NEW i \in 1 .. n
        PROVE  Through(parts[i], f) = IF i \in B THEN << s[i] >> ELSE << >>
    <3>1. CASE i \in B
      <4>1. parts[i] = << i >>
        BY <1>3, <3>1
      <4> QED BY <3>1, <4>1 DEF Through
    <3>2. CASE i \notin B
      <4>1. parts[i] = << >>
        BY <1>3, <3>2
      <4> QED BY <3>2, <4>1 DEF Through
    <3> QED BY <3>1, <3>2
  <2>2. EachThrough(parts, f) = [i \in 1 .. n |-> Through(parts[i], f)]
    BY <1>2 DEF EachThrough
  <2> HIDE DEF n, f
  <2> QED BY <2>1, <2>2
<1>9. FlattenSeq(EachThrough(parts, f)) = Through(pos, f)
  <2>1. parts \in Seq(Seq(B)) /\ f \in [B -> X]
    BY <1>2, <1>7
  <2> HIDE DEF f, n
  <2>2. FlattenSeq(EachThrough(parts, f)) = Through(FlattenSeq(parts), f)
    BY <2>1, FlattenThrough
  <2> QED BY <2>2
<1>10. Through(pos, f) = Through(pos, s)
  <2>1. \A i \in 1 .. Len(pos) : pos[i] \in B
    BY <1>6, ElementOfSeq
  <2> HIDE DEF pos
  <2> QED BY <2>1 DEF Through
<1>11. KeptAt(s, B) = Through(pos, s)
  BY <1>8, <1>9, <1>10 DEF KeptAt
<1> QED BY <1>6, <1>11

-----------------------------------------------------------------------------
(* The turns of the rollouts.                                              *)

(* A turn is a request and a number, and they come request by request.     *)
TurnsOf(res) == {t \in (1 .. Len(res)) \X Nat : t[2] \in 1 .. Len(res[t[1]])}
TurnLists(res) == [i \in 1 .. Len(res) |-> [k \in 1 .. Len(res[i]) |-> << i, k >>]]
TurnSeq(res) == FlattenSeq(TurnLists(res))

(* The lists of turns, one for each request, hold every turn once.         *)
LEMMA TurnListsExact ==
  ASSUME NEW X, NEW res \in Seq(Seq(X))
  PROVE  /\ Len(TurnLists(res)) = Len(res)
         /\ \A i \in 1 .. Len(res) : TurnLists(res)[i] = [k \in 1 .. Len(res[i]) |-> << i, k >>]
         /\ ExactParts(TurnLists(res), TurnsOf(res))
<1> DEFINE n == Len(res)
           T == TurnsOf(res)
           parts == TurnLists(res)
           len == [i \in 1 .. n |-> Len(res[i])]
<1>1. n \in Nat /\ \A i \in 1 .. n : len[i] \in Nat
  <2>1. \A i \in 1 .. n : res[i] \in Seq(X)
    BY ElementOfSeq
  <2> QED BY <2>1, LenProperties
<1>2. parts = [i \in 1 .. n |-> [k \in 1 .. len[i] |-> << i, k >>]]
  BY DEF TurnLists
<1>3. /\ \A i \in 1 .. n, k \in Nat : << i, k >> \in T <=> k \in 1 .. len[i]
      /\ \A t \in T : t = << t[1], t[2] >> /\ t[1] \in 1 .. n /\ t[2] \in Nat
  BY DEF TurnsOf
<1>4. \A i \in 1 .. n : parts[i] = [k \in 1 .. Len(res[i]) |-> << i, k >>]
  BY <1>2
<1> HIDE DEF n, T, parts, len
<1>5. \A i \in 1 .. n : /\ parts[i] = [k \in 1 .. len[i] |-> << i, k >>]
                        /\ parts[i] \in Seq(T) /\ Len(parts[i]) = len[i]
  <2> SUFFICES ASSUME NEW i \in 1 .. n
               PROVE  /\ parts[i] = [k \in 1 .. len[i] |-> << i, k >>]
                      /\ parts[i] \in Seq(T) /\ Len(parts[i]) = len[i]
    OBVIOUS
  <2> DEFINE m == len[i]
             p == parts[i]
  <2>1. m \in Nat
    BY <1>1
  <2>2. p = [k \in 1 .. m |-> << i, k >>]
    BY <1>2
  <2>3. \A k \in 1 .. m : << i, k >> \in T
    <3>1. \A k \in 1 .. m : k \in Nat
      BY <2>1
    <3> QED BY <1>3, <3>1
  <2> HIDE DEF m, p
  <2>4. p \in [1 .. m -> T]
    BY <2>2, <2>3
  <2>5. p \in Seq(T) /\ Len(p) = m
    BY <2>1, <2>4, FunctionIsSeq
  <2> QED BY <2>2, <2>5 DEF m, p
<1>50. \A i \in 1 .. n : \A k \in 1 .. len[i] : parts[i][k] = << i, k >>
  <2> SUFFICES ASSUME NEW i \in 1 .. n, NEW k \in 1 .. len[i] PROVE parts[i][k] = << i, k >>
    OBVIOUS
  <2>1. parts[i] = [j \in 1 .. len[i] |-> << i, j >>]
    BY <1>5
  <2> QED BY <2>1
<1>6. parts \in Seq(Seq(T)) /\ Len(parts) = n
  <2> DEFINE Y == Seq(T)
  <2>1. parts = [i \in 1 .. n |-> parts[i]] /\ \A i \in 1 .. n : parts[i] \in Y
    BY <1>2, <1>5
  <2> HIDE DEF Y
  <2>2. parts \in [1 .. n -> Y]
    BY <2>1
  <2>3. parts \in Seq(Y) /\ Len(parts) = n
    BY <1>1, <2>2, FunctionIsSeq
  <2> QED BY <2>3 DEF Y
<1>7. \A i \in 1 .. n : Distinct(parts[i])
  <2> SUFFICES ASSUME NEW i \in 1 .. n, NEW j \in 1 .. len[i], NEW k \in 1 .. len[i],
                      parts[i][j] = parts[i][k]
               PROVE  j = k
    BY <1>5 DEF Distinct
  <2>1. << i, j >> = << i, k >>
    BY <1>50
  <2> QED BY <2>1
<1>8. \A i, j \in 1 .. n : i # j => Members(parts[i]) \cap Members(parts[j]) = {}
  <2>1. \A i \in 1 .. n : \A x \in Members(parts[i]) : x[1] = i
    <3> SUFFICES ASSUME NEW i \in 1 .. n, NEW x \in Members(parts[i]) PROVE x[1] = i
      OBVIOUS
    <3>1. PICK k \in 1 .. len[i] : x = parts[i][k]
      BY <1>5 DEF Members
    <3>2. x = << i, k >>
      BY <1>50, <3>1
    <3> QED BY <3>2
  <2> QED BY <2>1
<1>9. \A x \in T : \E i \in 1 .. n : x \in Members(parts[i])
  <2> SUFFICES ASSUME NEW x \in T PROVE \E i \in 1 .. n : x \in Members(parts[i])
    OBVIOUS
  <2> DEFINE i == x[1]
             k == x[2]
  <2>1. x = << i, k >> /\ i \in 1 .. n /\ k \in 1 .. len[i]
    BY <1>3
  <2> HIDE DEF i, k
  <2>2. parts[i][k] = x /\ k \in 1 .. Len(parts[i])
    BY <1>5, <1>50, <2>1
  <2>3. x \in Members(parts[i])
    BY <2>2 DEF Members
  <2> QED BY <2>1, <2>3
<1>10. ExactParts(parts, T)
  BY <1>6, <1>7, <1>8, <1>9 DEF ExactParts
<1> QED BY <1>4, <1>6, <1>10 DEF n, T, parts

(* They hold every turn once.                                              *)
LEMMA TurnSeqExact ==
  ASSUME NEW X, NEW res \in Seq(Seq(X))
  PROVE  /\ TurnSeq(res) \in Seq(TurnsOf(res))
         /\ Distinct(TurnSeq(res))
         /\ Members(TurnSeq(res)) = TurnsOf(res)
BY TurnListsExact, FlattenExact, Zenon DEF TurnSeq

(* What is made of each turn, in this order.                               *)
ListsOf(lists, f, res) ==
  lists = [i \in 1 .. Len(res) |-> [k \in 1 .. Len(res[i]) |-> f[<< i, k >>]]]

(* Lists of what each turn has, put together, follow the turns.            *)
LEMMA OfEachTurn ==
  ASSUME NEW X, NEW res \in Seq(Seq(X)), NEW B, NEW f \in [TurnsOf(res) -> B],
         NEW lists, ListsOf(lists, f, res)
  PROVE  /\ lists \in Seq(Seq(B)) /\ Len(lists) = Len(res)
         /\ FlattenSeq(lists) = Through(TurnSeq(res), f)
<1> DEFINE T == TurnsOf(res)
           parts == TurnLists(res)
           n == Len(res)
<1>1. /\ Len(parts) = n
      /\ \A i \in 1 .. n : parts[i] = [k \in 1 .. Len(res[i]) |-> << i, k >>]
      /\ parts \in Seq(Seq(T))
  <2>1. ExactParts(parts, T)
    BY TurnListsExact
  <2> HIDE DEF T
  <2>2. parts \in Seq(Seq(T))
    BY <2>1 DEF ExactParts
  <2> QED BY <2>2, TurnListsExact
<1>2. \A i \in 1 .. n : Len(res[i]) \in Nat
  <2>1. \A i \in 1 .. n : res[i] \in Seq(X)
    BY ElementOfSeq
  <2> QED BY <2>1, LenProperties
<1>3. lists = [i \in 1 .. n |-> [k \in 1 .. Len(res[i]) |-> f[<< i, k >>]]]
  BY DEF ListsOf
<1> HIDE DEF T, parts, n
<1>4. \A i \in 1 .. n : Through(parts[i], f) = [k \in 1 .. Len(res[i]) |-> f[<< i, k >>]]
  <2> SUFFICES ASSUME NEW i \in 1 .. n
               PROVE  Through(parts[i], f) = [k \in 1 .. Len(res[i]) |-> f[<< i, k >>]]
    OBVIOUS
  <2> DEFINE m == Len(res[i])
             p == parts[i]
  <2>1. m \in Nat /\ p = [k \in 1 .. m |-> << i, k >>]
    BY <1>1, <1>2
  <2> HIDE DEF m, p
  <2>2. Len(p) = m
    BY <2>1
  <2>3. Through(p, f) = [k \in 1 .. m |-> f[<< i, k >>]]
    BY <2>1, <2>2 DEF Through
  <2> QED BY <2>3 DEF m, p
<1>5. EachThrough(parts, f) = lists
  BY <1>1, <1>3, <1>4 DEF EachThrough
<1>6. /\ EachThrough(parts, f) \in Seq(Seq(B))
      /\ Len(EachThrough(parts, f)) = Len(parts)
      /\ FlattenSeq(EachThrough(parts, f)) = Through(FlattenSeq(parts), f)
  BY <1>1, FlattenThrough DEF T
<1> QED BY <1>1, <1>5, <1>6 DEF TurnSeq, parts, n

RowsWith(Advs) ==
  [request : Nat, turn_idx : Nat, reward : Int, score : Int, uid : Int, padding : BOOLEAN,
   adv : Advs]
RowOfTurn == [t \in TurnsOf(results) |-> Row(t[1], t[2])]

(* The sum of the rewards from some turn on.                               *)
LEMMA RestSums ==
  ASSUME NEW s \in Seq(Int), NEW k \in 1 .. Len(s)
  PROVE  SubSeq(s, k, Len(s)) \in Seq(Int) /\ SumSeq(SubSeq(s, k, Len(s))) \in Int
<1> DEFINE n == Len(s)
           i == k - 1
<1>1. n \in Nat /\ i \in 0 .. n /\ n \in i .. n /\ i + 1 = k
  BY LenProperties
<1> HIDE DEF i
<1>2. SubSeq(s, i + 1, n) \in Seq(Int)
  BY <1>1, PartOfSeq
<1> HIDE DEF n
<1>3. SubSeq(s, k, n) \in Seq(Int)
  BY <1>1, <1>2
<1>4. 0 \in Int
  OBVIOUS
<1>5. SumSeq(SubSeq(s, k, n)) \in Int
  BY <1>3, <1>4, SumAppend
<1> QED BY <1>3, <1>5 DEF n

(* A row holds the reward of its turn and what follows.                    *)
LEMMA RowFits ==
  ASSUME results \in Seq(Seq(Int)), NEW i \in 1 .. Len(results), NEW k \in 1 .. Len(results[i])
  PROVE  Row(i, k) \in RowsWith({0})
<1>1. Len(results) \in Nat /\ results[i] \in Seq(Int)
  BY LenProperties, ElementOfSeq
<1>2. Len(results[i]) \in Nat /\ results[i][k] \in Int
  BY <1>1, LenProperties, ElementOfSeq
<1>3. SumSeq(SubSeq(results[i], k, Len(results[i]))) \in Int
  BY <1>1, RestSums
<1>4. i \in Nat /\ k - 1 \in Nat
  BY <1>1, <1>2
<1> QED BY <1>2, <1>3, <1>4 DEF Row, RowsWith

(* The row of each turn has the type of a row without advantage.           *)
LEMMA RowOfTurnType ==
  ASSUME results \in Seq(Seq(Int))
  PROVE  RowOfTurn \in [TurnsOf(results) -> RowsWith({0})]
<1>1. ASSUME NEW t \in TurnsOf(results) PROVE Row(t[1], t[2]) \in RowsWith({0})
  <2>1. t[1] \in 1 .. Len(results) /\ t[2] \in 1 .. Len(results[t[1]])
    BY DEF TurnsOf
  <2> QED BY <2>1, RowFits
<1> QED BY <1>1 DEF RowOfTurn

(* Each worker returns the rows of its share of the requests: together     *)
(* they are the rows of all requests in the order of the requests.         *)
LEMMA CollectedInOrder ==
  ASSUME results \in Seq(Seq(Int)), Len(results) % Workers = 0
  PROVE  Collected = Through(TurnSeq(results), RowOfTurn)
<1> DEFINE R == RowsWith({0})
           lists == [i \in 1 .. Len(results) |-> RowsOf(i)]
           n == Len(results)
           m == PerWorker
           cut == [w \in 0 .. Workers |-> w * m]
<1>1. ListsOf(lists, RowOfTurn, results)
  <2>1. ASSUME NEW i \in 1 .. Len(results), NEW k \in 1 .. Len(results[i])
        PROVE  Row(i, k) = RowOfTurn[<< i, k >>]
    <3>1. results[i] \in Seq(Int)
      BY ElementOfSeq
    <3>2. k \in Nat
      BY <3>1, LenProperties
    <3>3. << i, k >> \in TurnsOf(results)
      BY <3>2 DEF TurnsOf
    <3> QED BY <3>3 DEF RowOfTurn
  <2> QED BY <2>1 DEF RowsOf, ListsOf
<1>2. RowOfTurn \in [TurnsOf(results) -> R]
  BY RowOfTurnType
<1> HIDE DEF R, lists, n
<1>3. /\ lists \in Seq(Seq(R)) /\ Len(lists) = n
      /\ FlattenSeq(lists) = Through(TurnSeq(results), RowOfTurn)
  <2>1. /\ lists \in Seq(Seq(R)) /\ Len(lists) = Len(results)
        /\ FlattenSeq(lists) = Through(TurnSeq(results), RowOfTurn)
    BY <1>1, <1>2, OfEachTurn
  <2> QED BY <2>1 DEF n
<1>4. \A i \in 1 .. n : lists[i] = RowsOf(i)
  BY DEF lists, n
<1>5. Workers \in Nat \ {0} /\ n \in Nat
  BY BatchAssumption, LenProperties DEF n
<1>6. m \in Nat /\ n = Workers * m
  <2>1. n = Workers * (n \div Workers) + (n % Workers) /\ n \div Workers \in Nat
    BY <1>5, QuotientAndRest
  <2> QED BY <1>5, <2>1 DEF PerWorker, n
<1> HIDE DEF m
<1>7. Cuts(cut, Workers, n)
  <2>1. \A w \in 0 .. Workers : w * m \in 0 .. n
    <3> SUFFICES ASSUME NEW w \in 0 .. Workers PROVE w * m \in 0 .. n
      OBVIOUS
    <3>1. w * m \in Nat /\ (Workers - w) * m \in Nat
      BY <1>5, <1>6
    <3>2. (Workers - w) * m = Workers * m - w * m
      BY <1>5, <1>6
    <3> QED BY <1>5, <1>6, <3>1, <3>2
  <2>2. cut[0] = 0 /\ cut[Workers] = n
    BY <1>5, <1>6
  <2>3. \A w \in 1 .. Workers : cut[w - 1] <= cut[w]
    <3> SUFFICES ASSUME NEW w \in 1 .. Workers PROVE cut[w - 1] <= cut[w]
      OBVIOUS
    <3>1. cut[w] = w * m /\ cut[w - 1] = (w - 1) * m /\ w * m \in Int /\ (w - 1) * m \in Int
      BY <1>5, <1>6
    <3>2. (w - 1) * m = w * m - m
      BY <1>5, <1>6
    <3> QED BY <1>6, <3>1, <3>2
  <2> QED BY <2>1, <2>2, <2>3 DEF Cuts
<1> DEFINE parts == CutAt(lists, Workers, cut)
           Y == Seq(R)
<1>8. lists \in Seq(Y)
  BY <1>3
<1> HIDE DEF Y
<1>9. /\ parts \in Seq(Seq(Y)) /\ Len(parts) = Workers
      /\ \A w \in 1 .. Workers : /\ parts[w] \in Seq(Y)
                                 /\ Len(parts[w]) = cut[w] - cut[w - 1]
      /\ FlattenSeq(parts) = lists
  <2> HIDE DEF cut
  <2>1. Cuts(cut, Workers, Len(lists))
    BY <1>3, <1>7
  <2>2. Workers \in Nat
    BY <1>5
  <2>3. /\ CutAt(lists, Workers, cut) \in Seq(Seq(Y)) /\ Len(CutAt(lists, Workers, cut)) = Workers
        /\ \A k \in 1 .. Workers : /\ CutAt(lists, Workers, cut)[k] \in Seq(Y)
                                   /\ Len(CutAt(lists, Workers, cut)[k]) = cut[k] - cut[k - 1]
    BY <1>8, <2>1, <2>2, CutType
  <2>4. FlattenSeq(CutAt(lists, Workers, cut)) = lists
    BY <1>8, <2>1, <2>2, FlattenCuts
  <2> QED BY <2>3, <2>4
<1>10. \A w \in 1 .. Workers : FlattenSeq(parts[w]) = WorkerRows(w)
  <2> SUFFICES ASSUME NEW w \in 1 .. Workers PROVE FlattenSeq(parts[w]) = WorkerRows(w)
    OBVIOUS
  <2> DEFINE a == (w - 1) * m
             b == w * m
  <2>1. /\ cut[w - 1] = a /\ cut[w] = b
        /\ cut[w - 1] \in 0 .. n /\ cut[w] \in 0 .. n
    BY <1>5, <1>7 DEF Cuts
  <2>2. b = a + m /\ a \in Int /\ b \in Int
    BY <1>5, <1>6
  <2>3. parts[w] = SubSeq(lists, a + 1, b)
    BY <2>1 DEF CutAt
  <2> HIDE DEF a, b, parts, cut
  <2>4. a \in 0 .. n /\ b \in a .. n /\ b - a = m
    BY <1>5, <1>6, <2>1, <2>2
  <2>5. /\ parts[w] \in Seq(Y) /\ Len(parts[w]) = m
        /\ \A j \in 1 .. m : parts[w][j] = lists[a + j]
    <3>1. /\ SubSeq(lists, a + 1, b) \in Seq(Y)
          /\ Len(SubSeq(lists, a + 1, b)) = b - a
          /\ \A j \in 1 .. b - a : SubSeq(lists, a + 1, b)[j] = lists[a + j]
      <4>1. a \in 0 .. Len(lists) /\ b \in a .. Len(lists)
        BY <1>3, <2>4
      <4> QED BY <1>8, <4>1, PartOfSeq
    <3> QED BY <2>3, <2>4, <3>1
  <2>6. \A j \in 1 .. m : lists[a + j] = RowsOf(a + j)
    BY <1>4, <1>5, <1>6, <2>4
  <2>7. parts[w] = [j \in 1 .. m |-> parts[w][j]]
    BY <2>5, LenProperties
  <2>8. parts[w] = [j \in 1 .. m |-> RowsOf(a + j)]
    BY <2>5, <2>6, <2>7
  <2> QED BY <2>8 DEF WorkerRows, a, m
<1> HIDE DEF parts, cut
<1> DEFINE flat == [w \in 1 .. Len(parts) |-> FlattenSeq(parts[w])]
<1>11. FlattenSeq(flat) = FlattenSeq(FlattenSeq(parts))
  <2>1. parts \in Seq(Seq(Seq(R)))
    BY <1>9 DEF Y
  <2> QED BY <2>1, FlattenFlatten
<1>12. flat = [w \in 1 .. Workers |-> WorkerRows(w)]
  BY <1>9, <1>10
<1>13. Collected = FlattenSeq(flat)
  BY <1>12 DEF Collected
<1> QED BY <1>3, <1>9, <1>11, <1>13

(* A request has as many places among the turns as turns.                  *)
LEMMA PlacesOfRequest ==
  ASSUME NEW X, NEW res \in Seq(Seq(X)), NEW i \in 1 .. Len(res)
  PROVE  Cardinality({r \in 1 .. Len(TurnSeq(res)) : TurnSeq(res)[r][1] = i}) = Len(res[i])
<1> DEFINE s == TurnSeq(res)
           T == TurnsOf(res)
           n == Len(s)
           m == Len(res[i])
           S == {r \in 1 .. n : s[r][1] = i}
           g == [r \in S |-> s[r][2]]
<1>1. s \in Seq(T) /\ Distinct(s) /\ Members(s) = T
  BY TurnSeqExact
<1>2. m \in Nat
  <2>1. res[i] \in Seq(X)
    BY ElementOfSeq
  <2> QED BY <2>1, LenProperties
<1>3. /\ \A k \in Nat : << i, k >> \in T <=> k \in 1 .. m
      /\ \A t \in T : t = << t[1], t[2] >> /\ t[2] \in Nat
  BY DEF TurnsOf
<1> HIDE DEF s, T, m
<1>4. n \in Nat /\ (\A r \in 1 .. n : s[r] \in T)
      /\ (\A q, r \in 1 .. n : s[q] = s[r] => q = r)
      /\ (\A t \in T : \E r \in 1 .. n : s[r] = t)
  BY <1>1, LenProperties, ElementOfSeq DEF Distinct, Members
<1> HIDE DEF n
<1>5. \A r \in S : r \in 1 .. n /\ s[r] = << i, s[r][2] >> /\ s[r][2] \in 1 .. m
  <2> SUFFICES ASSUME NEW r \in S
               PROVE  r \in 1 .. n /\ s[r] = << i, s[r][2] >> /\ s[r][2] \in 1 .. m
    OBVIOUS
  <2>1. r \in 1 .. n /\ s[r][1] = i /\ s[r] \in T
    BY <1>4
  <2>2. s[r] = << i, s[r][2] >> /\ s[r][2] \in Nat
    BY <1>3, <2>1
  <2>3. << i, s[r][2] >> \in T
    BY <2>1, <2>2
  <2> QED BY <1>3, <2>1, <2>2, <2>3
<1>6. \A k \in 1 .. m : \E r \in S : s[r][2] = k
  <2> SUFFICES ASSUME NEW k \in 1 .. m PROVE \E r \in S : s[r][2] = k
    OBVIOUS
  <2>1. << i, k >> \in T
    BY <1>2, <1>3
  <2>2. PICK r \in 1 .. n : s[r] = << i, k >>
    BY <1>4, <2>1
  <2>3. s[r][1] = i /\ s[r][2] = k
    BY <2>2
  <2>4. r \in S
    BY <2>3
  <2> QED BY <2>3, <2>4
<1>7. \A q, r \in S : s[q][2] = s[r][2] => q = r
  <2> SUFFICES ASSUME NEW q \in S, NEW r \in S, s[q][2] = s[r][2] PROVE q = r
    OBVIOUS
  <2>1. s[q] = s[r] /\ q \in 1 .. n /\ r \in 1 .. n
    BY <1>5
  <2> QED BY <1>4, <2>1
<1>8. S \in SUBSET (1 .. n)
  OBVIOUS
<1> HIDE DEF S
<1>9. g \in Bijection(S, 1 .. m)
  <2>1. g \in [S -> 1 .. m]
    BY <1>5
  <2>2. \A q, r \in S : g[q] = g[r] => q = r
    BY <1>7
  <2>3. \A k \in 1 .. m : \E r \in S : g[r] = k
    BY <1>6
  <2> HIDE DEF g
  <2> QED BY <2>1, <2>2, <2>3, Fun_IsBij, Fun_IsSurj
<1> HIDE DEF g
<1>10. IsFiniteSet(1 .. n) /\ IsFiniteSet(1 .. m) /\ Cardinality(1 .. m) = m
  BY <1>2, <1>4, FirstNumbers
<1>11. IsFiniteSet(S)
  BY <1>8, <1>10, FS_Subset
<1>12. ExistsBijection(S, 1 .. m)
  BY <1>9, Zenon DEF ExistsBijection
<1>13. Cardinality(1 .. m) = Cardinality(S)
  BY <1>11, <1>12, FS_Bijection
<1> QED BY <1>10, <1>13 DEF S, n, m, s

(* The number of rows of a request is the number of its turns.             *)
LEMMA RowsPerRequest ==
  ASSUME results \in Seq(Seq(Int)), rows = Through(TurnSeq(results), RowOfTurn)
  PROVE  RepeatTimes = [i \in 1 .. Len(results) |-> Len(results[i])]
<1> DEFINE s == TurnSeq(results)
           T == TurnsOf(results)
           n == Len(s)
<1>1. s \in Seq(T) /\ n \in Nat
  BY TurnSeqExact, LenProperties
<1>2. \A t \in T : RowOfTurn[t].request = t[1]
  BY DEF RowOfTurn, Row
<1> HIDE DEF s, T
<1>3. \A r \in 1 .. n : s[r] \in T
  BY <1>1, ElementOfSeq
<1>4. rows = [r \in 1 .. n |-> RowOfTurn[s[r]]]
  BY DEF Through, s
<1> HIDE DEF n
<1>5. Len(rows) = n
  BY <1>1, <1>4
<1>6. \A r \in 1 .. n : rows[r].request = s[r][1]
  BY <1>2, <1>3, <1>4
<1>7. ASSUME NEW i \in 1 .. Len(results)
      PROVE  Cardinality({r \in 1 .. Len(rows) : rows[r].request = i}) = Len(results[i])
  <2>1. {r \in 1 .. Len(rows) : rows[r].request = i} = {r \in 1 .. n : s[r][1] = i}
    BY <1>5, <1>6
  <2>2. Cardinality({r \in 1 .. n : s[r][1] = i}) = Len(results[i])
    BY PlacesOfRequest DEF s, n
  <2> QED BY <2>1, <2>2
<1> QED BY <1>7 DEF RepeatTimes

(* The prompts, each repeated for the rows of its request, come in the     *)
(* order of the rows.                                                      *)
PromptOfTurn == [t \in TurnsOf(results) |-> Repeated[t[1]]]

(* sample_level_repeat gives each turn the prompt of its request.          *)
LEMMA ExpandedInOrder ==
  ASSUME results \in Seq(Seq(Int)), rows = Through(TurnSeq(results), RowOfTurn),
         Len(results) = Prompts * Repeats
  PROVE  /\ PromptOfTurn \in [TurnsOf(results) -> Int]
         /\ Expanded = Through(TurnSeq(results), PromptOfTurn)
<1>1. Prompts * Repeats \in Nat /\ Repeats \in Nat \ {0}
  BY BatchAssumption
<1> DEFINE n == Prompts * Repeats
<1>2. Len(Repeated) = n /\ \A i \in 1 .. n : Repeated[i] \in Int
  <2> HIDE DEF n
  <2>1. Repeated = [i \in 1 .. n |-> ((i - 1) \div Repeats) + 1]
    BY DEF Repeated, n
  <2>2. \A i \in 1 .. n : ((i - 1) \div Repeats) + 1 \in Int
    BY <1>1
  <2> QED BY <1>1, <2>1, <2>2 DEF n
<1>3. PromptOfTurn \in [TurnsOf(results) -> Int]
  <2>1. ASSUME NEW t \in TurnsOf(results) PROVE Repeated[t[1]] \in Int
    BY <1>2 DEF TurnsOf
  <2> QED BY <2>1 DEF PromptOfTurn
<1> DEFINE lists == [i \in 1 .. Len(Repeated) |-> [k \in 1 .. RepeatTimes[i] |-> Repeated[i]]]
<1>4. ListsOf(lists, PromptOfTurn, results)
  <2>1. ASSUME NEW i \in 1 .. Len(results), NEW k \in 1 .. Len(results[i])
        PROVE  PromptOfTurn[<< i, k >>] = Repeated[i]
    <3>1. results[i] \in Seq(Int)
      BY ElementOfSeq
    <3>2. k \in Nat
      BY <3>1, LenProperties
    <3>3. << i, k >> \in TurnsOf(results)
      BY <3>2 DEF TurnsOf
    <3> QED BY <3>3 DEF PromptOfTurn
  <2>2. \A i \in 1 .. Len(results) : RepeatTimes[i] = Len(results[i])
    BY RowsPerRequest
  <2> QED BY <1>2, <2>1, <2>2 DEF ListsOf
<1> HIDE DEF lists
<1>5. FlattenSeq(lists) = Through(TurnSeq(results), PromptOfTurn)
  BY <1>3, <1>4, OfEachTurn
<1> QED BY <1>3, <1>5 DEF Expanded, lists

-----------------------------------------------------------------------------
(* Rows and turns.                                                         *)

(* What a row says of its turn is right.                                   *)
Turn(row) == << row.request, row.turn_idx + 1 >>
OfTurn(row) ==
  /\ Turn(row) \in TurnsOf(results)
  /\ row.reward = results[row.request][row.turn_idx + 1]
  /\ row.score = SumSeq(SubSeq(results[row.request], row.turn_idx + 1, Len(results[row.request])))
  /\ row.uid = Requests[row.request]

(* Every turn has one row that is no copy.                                 *)
Typed(batch) == batch \in Seq(RowsWith({batch[r].adv : r \in 1 .. Len(batch)}))
Fits(batch) ==
  /\ Typed(batch) /\ batch # << >>
  /\ \A r \in 1 .. Len(batch) : OfTurn(batch[r])
  /\ \A t \in TurnsOf(results) :
       \E r \in 1 .. Len(batch) : ~ batch[r].padding /\ Turn(batch[r]) = t
  /\ \A r, q \in 1 .. Len(batch) :
       ~ batch[r].padding /\ ~ batch[q].padding /\ Turn(batch[r]) = Turn(batch[q]) => r = q
NoCopies(batch) == \A r \in 1 .. Len(batch) : ~ batch[r].padding

ResultsFit ==
  /\ results \in Seq(Seq(Int))
  /\ Len(results) = Len(Requests)
  /\ \A i \in 1 .. Len(results) : Len(results[i]) <= MaxTurns

(* If the rows expand at all, no request was added for the workers.        *)
LEMMA NothingPadded ==
  ASSUME mode \in {"train", "validate"}, Len(Requests) = Prompts * Repeats
  PROVE  /\ \A i \in 1 .. Len(Requests) : Requests[i] = Repeated[i]
         /\ mode = "validate" => PadSize(Prompts * Repeats, Workers) = 0
<1> DEFINE n == Prompts * Repeats
<1>1. n \in Nat \ {0} /\ Workers \in Nat \ {0}
  BY BatchAssumption
<1>2. Repeated \in Seq(Int) /\ Len(Repeated) = n
  <2>1. \A i \in 1 .. n : ((i - 1) \div Repeats) + 1 \in Int
    BY BatchAssumption, <1>1
  <2>2. Repeated \in [1 .. n -> Int]
    BY <2>1 DEF Repeated
  <2> HIDE DEF n
  <2> QED BY <1>1, <2>2, FunctionIsSeq
<1>3. Requests = IF mode = "validate" THEN Padded(Repeated, Workers) ELSE Repeated
  BY DEF Requests, Repeated
<1>4. CASE mode = "validate"
  <2>1. Repeated # << >>
    BY <1>1, <1>2
  <2>2. /\ Len(Requests) = n + PadSize(n, Workers)
        /\ \A i \in 1 .. n : Requests[i] = Repeated[i]
    BY <1>2, <1>3, <1>4, <2>1, <1>1, PaddedType
  <2>3. PadSize(n, Workers) \in Nat
    BY <1>1, PadSizeFits
  <2> QED BY <1>1, <2>2, <2>3
<1>5. CASE mode # "validate"
  BY <1>3, <1>5
<1> QED BY <1>4, <1>5

(* Removing a padding that is not there.                                   *)
LEMMA UnpaddedIsAll ==
  ASSUME NEW X, NEW s \in Seq(X), mode = "validate" => PadSize(Prompts * Repeats, Workers) = 0
  PROVE  Unpadded(s) = s
<1> DEFINE n == Len(s)
<1>1. n \in Nat /\ 0 \in 0 .. n /\ n \in 0 .. n
  BY LenProperties
<1> HIDE DEF n
<1>2. /\ SubSeq(s, 0 + 1, n) \in Seq(X) /\ Len(SubSeq(s, 0 + 1, n)) = n - 0
      /\ \A x \in 1 .. n - 0 : SubSeq(s, 0 + 1, n)[x] = s[0 + x]
  BY <1>1, PartOfSeq DEF n
<1> DEFINE t == SubSeq(s, 1, n)
<1>3. /\ t \in Seq(X) /\ Len(t) = n /\ \A x \in 1 .. n : t[x] = s[x]
  BY <1>1, <1>2
<1> HIDE DEF t
<1>4. t = s
  <2>1. t = [x \in 1 .. n |-> t[x]] /\ s = [x \in 1 .. n |-> s[x]]
    BY <1>3, LenProperties DEF n
  <2> QED BY <1>3, <2>1
<1>5. mode = "validate" => Unpadded(s) = SubSeq(s, 1, n)
  BY <1>1 DEF Unpadded, n
<1>6. mode # "validate" => Unpadded(s) = s
  BY DEF Unpadded
<1> QED BY <1>4, <1>5, <1>6 DEF t

(* The advantages of a batch are those its rows have.                      *)
LEMMA OwnAdvantages ==
  ASSUME NEW A, NEW batch \in Seq(RowsWith(A))
  PROVE  Typed(batch)
<1> DEFINE B == {batch[r].adv : r \in 1 .. Len(batch)}
<1>1. ASSUME NEW r \in 1 .. Len(batch) PROVE batch[r] \in RowsWith(B)
  <2>1. batch[r] \in RowsWith(A) /\ batch[r].adv \in B
    BY ElementOfSeq
  <2> HIDE DEF B
  <2> QED BY <2>1 DEF RowsWith
<1> HIDE DEF B
<1>2. batch \in Seq(RowsWith(B))
  BY <1>1, SeqOfMembers
<1> QED BY <1>2 DEF B, Typed

(* A batch of one row for each turn.                                       *)
LEMMA EachTurnFits ==
  ASSUME NEW A, NEW batch \in Seq(RowsWith(A)), batch # << >>,
         NEW s, Len(batch) = Len(s), Distinct(s), Members(s) = TurnsOf(results),
         \A r \in 1 .. Len(s) : OfTurn(batch[r]) /\ ~ batch[r].padding /\ Turn(batch[r]) = s[r]
  PROVE  Fits(batch) /\ NoCopies(batch)
<1>1. Typed(batch)
  BY OwnAdvantages
<1>2. \A t \in TurnsOf(results) :
         \E r \in 1 .. Len(batch) : ~ batch[r].padding /\ Turn(batch[r]) = t
  <2>1. \A t \in TurnsOf(results) : \E r \in 1 .. Len(s) : t = s[r]
    BY DEF Members
  <2> QED BY <2>1
<1>3. \A r, q \in 1 .. Len(batch) : Turn(batch[r]) = Turn(batch[q]) => r = q
  BY DEF Distinct
<1> QED BY <1>1, <1>2, <1>3 DEF Fits, NoCopies

(* The rows with their prompts hold every turn once.                       *)
LEMMA ExpandFits ==
  ASSUME mode \in {"train", "validate"}, ResultsFit, Len(results) % Workers = 0,
         \A i \in 1 .. Len(results) : results[i] # << >>,
         rows = Unpadded(Collected), Len(RepeatTimes) = Len(Repeated),
         NEW batch, batch = [r \in 1 .. Len(rows) |-> [rows[r] EXCEPT !.uid = Expanded[r]]]
  PROVE  Fits(batch) /\ NoCopies(batch)
<1> DEFINE s == TurnSeq(results)
           T == TurnsOf(results)
           n == Len(s)
<1>1. results \in Seq(Seq(Int)) /\ Len(results) \in Nat /\ Len(Requests) = Len(results)
  BY LenProperties DEF ResultsFit
<1>2. Prompts * Repeats \in Nat \ {0}
  BY BatchAssumption
<1>3. Len(results) = Prompts * Repeats
  <2>1. Len(RepeatTimes) = Len(results)
    BY <1>1 DEF RepeatTimes
  <2>2. Len(Repeated) = Prompts * Repeats
    BY <1>2 DEF Repeated
  <2> QED BY <2>1, <2>2
<1>4. /\ \A i \in 1 .. Len(results) : Requests[i] = Repeated[i]
      /\ mode = "validate" => PadSize(Prompts * Repeats, Workers) = 0
  BY <1>1, <1>3, NothingPadded
<1>5. s \in Seq(T) /\ Distinct(s) /\ Members(s) = T /\ n \in Nat
  BY <1>1, TurnSeqExact, LenProperties
<1>6. RowOfTurn \in [T -> RowsWith({0})]
  BY <1>1, RowOfTurnType
<1>7. Through(s, RowOfTurn) \in Seq(RowsWith({0}))
  <2> HIDE DEF s, T
  <2> QED BY <1>5, <1>6, ThroughType DEF LooksUp
<1>8. rows = Through(s, RowOfTurn)
  BY <1>1, <1>4, <1>7, CollectedInOrder, UnpaddedIsAll
<1>9. /\ PromptOfTurn \in [T -> Int]
      /\ Expanded = Through(s, PromptOfTurn)
  BY <1>1, <1>3, <1>8, ExpandedInOrder
<1>10. \A t \in T : /\ t = << t[1], t[2] >> /\ t[1] \in 1 .. Len(results) /\ t[2] \in Nat
                    /\ t[2] \in 1 .. Len(results[t[1]])
  BY DEF TurnsOf
<1>11. \A t \in T : RowOfTurn[t] = Row(t[1], t[2]) /\ PromptOfTurn[t] = Requests[t[1]]
  BY <1>4, <1>10 DEF RowOfTurn, PromptOfTurn
<1> HIDE DEF s, T
<1>12. \A r \in 1 .. n : s[r] \in T
  BY <1>5, ElementOfSeq
<1>13. /\ Len(rows) = n
       /\ \A r \in 1 .. n : rows[r] = RowOfTurn[s[r]] /\ Expanded[r] = PromptOfTurn[s[r]]
  BY <1>5, <1>8, <1>9 DEF Through
<1> HIDE DEF n
<1> DEFINE one(t) == [Row(t[1], t[2]) EXCEPT !.uid = Requests[t[1]]]
<1>14. batch = [r \in 1 .. n |-> batch[r]] /\ \A r \in 1 .. n : batch[r] = one(s[r])
  BY <1>11, <1>12, <1>13
<1>15. \A t \in T : one(t) \in RowsWith({0}) /\ OfTurn(one(t)) /\ Turn(one(t)) = t /\ ~ one(t).padding
  <2> SUFFICES ASSUME NEW t \in T
               PROVE  one(t) \in RowsWith({0}) /\ OfTurn(one(t)) /\ Turn(one(t)) = t /\ ~ one(t).padding
    OBVIOUS
  <2>1. RowOfTurn[t] \in RowsWith({0}) /\ Requests[t[1]] \in Int
    BY <1>6, <1>9, <1>11
  <2>2. Row(t[1], t[2]) \in RowsWith({0})
    BY <1>11, <2>1
  <2>3. one(t) \in RowsWith({0})
    BY <2>1, <2>2 DEF RowsWith
  <2>4. /\ one(t).request = t[1] /\ one(t).turn_idx = t[2] - 1
        /\ one(t).reward = results[t[1]][t[2]]
        /\ one(t).score = SumSeq(SubSeq(results[t[1]], t[2], Len(results[t[1]])))
        /\ one(t).uid = Requests[t[1]] /\ one(t).padding = FALSE
    BY DEF Row
  <2>5. (t[2] - 1) + 1 = t[2]
    BY <1>10
  <2>6. Turn(one(t)) = t
    BY <1>10, <2>4, <2>5 DEF Turn
  <2> HIDE DEF one
  <2>7. OfTurn(one(t))
    BY <2>4, <2>5, <2>6 DEF OfTurn, T
  <2> QED BY <2>3, <2>4, <2>6, <2>7
<1> HIDE DEF one
<1>150. \A r \in 1 .. n : /\ batch[r] \in RowsWith({0}) /\ OfTurn(batch[r])
                          /\ ~ batch[r].padding /\ Turn(batch[r]) = s[r]
  <2> SUFFICES ASSUME NEW r \in 1 .. n
               PROVE  /\ batch[r] \in RowsWith({0}) /\ OfTurn(batch[r])
                      /\ ~ batch[r].padding /\ Turn(batch[r]) = s[r]
    OBVIOUS
  <2> DEFINE t == s[r]
             b == batch[r]
  <2>1. t \in T
    BY <1>12
  <2>2. b = one(t)
    BY <1>14
  <2> HIDE DEF t, b
  <2>3. b \in RowsWith({0}) /\ OfTurn(b) /\ ~ b.padding /\ Turn(b) = t
    BY <1>15, <2>1, <2>2
  <2> QED BY <2>3 DEF t, b
<1>16. batch \in Seq(RowsWith({0})) /\ Len(batch) = n
  <2>1. batch \in [1 .. n -> RowsWith({0})]
    BY <1>14, <1>150
  <2> QED BY <1>5, <2>1, FunctionIsSeq DEF n
<1>17. n # 0
  <2>1. << 1, 1 >> \in T
    <3>0. 1 \in 1 .. Len(results)
      BY <1>2, <1>3
    <3>1. 1 \in 1 .. Len(results) /\ results[1] \in Seq(Int) /\ results[1] # << >>
      BY <1>1, <3>0, ElementOfSeq
    <3>2. 1 \in 1 .. Len(results[1])
      BY <3>1, EmptySeq, LenProperties
    <3> QED BY <3>1, <3>2 DEF T, TurnsOf
  <2>2. PICK r \in 1 .. Len(s) : s[r] = << 1, 1 >>
    BY <1>5, <2>1 DEF Members
  <2> QED BY <2>2 DEF n
<1>18. batch # << >>
  BY <1>16, <1>17
<1> QED BY <1>5, <1>16, <1>18, <1>150, EachTurnFits DEF T, n

(* A row is one of the same turn whether it is marked or what advantage it *)
(* has.                                                                    *)
LEMMA SameTurn ==
  ASSUME NEW row, OfTurn(row), NEW x,
         x.request = row.request, x.turn_idx = row.turn_idx, x.reward = row.reward,
         x.score = row.score, x.uid = row.uid
  PROVE  OfTurn(x) /\ Turn(x) = Turn(row)
BY DEF OfTurn, Turn

(* Copies that are marked take no turn's place.                            *)
LEMMA PadFits ==
  ASSUME Fits(rows), NoCopies(rows),
         NEW batch,
         batch = [r \in 1 .. Len(Padded(rows, Workers)) |->
                    [Padded(rows, Workers)[r] EXCEPT !.padding = r > Len(rows)]]
  PROVE  Fits(batch)
<1> DEFINE A == {rows[r].adv : r \in 1 .. Len(rows)}
           padded == Padded(rows, Workers)
           n == Len(rows)
           m == Len(padded)
<1>1. /\ rows \in Seq(RowsWith(A)) /\ rows # << >> /\ n \in Nat
      /\ \A r \in 1 .. n : OfTurn(rows[r]) /\ ~ rows[r].padding
      /\ \A r, q \in 1 .. n : Turn(rows[r]) = Turn(rows[q]) => r = q
      /\ \A t \in TurnsOf(results) : \E r \in 1 .. n : Turn(rows[r]) = t
  BY LenProperties DEF Fits, NoCopies, Typed
<1> HIDE DEF A
<1>2. /\ padded \in Seq(RowsWith(A))
      /\ m = n + PadSize(n, Workers)
      /\ \A i \in 1 .. n : padded[i] = rows[i]
      /\ Members(padded) = Members(rows)
  BY <1>1, BatchAssumption, PaddedType
<1>3. m \in Nat /\ n <= m
  <2>1. PadSize(n, Workers) \in Nat
    BY <1>1, BatchAssumption, PadSizeFits
  <2> HIDE DEF n, m
  <2> QED BY <1>1, <1>2, <2>1
<1>4. batch = [r \in 1 .. m |-> [padded[r] EXCEPT !.padding = r > n]]
  OBVIOUS
<1>5. \A r \in 1 .. m : padded[r] \in RowsWith(A) /\ OfTurn(padded[r])
  <2> SUFFICES ASSUME NEW r \in 1 .. m PROVE padded[r] \in RowsWith(A) /\ OfTurn(padded[r])
    OBVIOUS
  <2> HIDE DEF padded
  <2>1. padded[r] \in Members(rows)
    BY <1>2 DEF Members
  <2>2. PICK q \in 1 .. n : padded[r] = rows[q]
    BY <2>1 DEF Members
  <2> QED BY <1>1, <1>2, <2>2, ElementOfSeq
<1> HIDE DEF padded, n, m
<1>6. \A r \in 1 .. m : /\ batch[r] \in RowsWith(A) /\ OfTurn(batch[r])
                        /\ Turn(batch[r]) = Turn(padded[r])
                        /\ batch[r].padding = (r > n)
  <2> SUFFICES ASSUME NEW r \in 1 .. m
               PROVE  /\ batch[r] \in RowsWith(A) /\ OfTurn(batch[r])
                      /\ Turn(batch[r]) = Turn(padded[r])
                      /\ batch[r].padding = (r > n)
    OBVIOUS
  <2> DEFINE row == padded[r]
             b == (r > n)
  <2>1. row \in RowsWith(A) /\ OfTurn(row) /\ b \in BOOLEAN
    BY <1>5
  <2>2. batch[r] = [row EXCEPT !.padding = b]
    BY <1>4
  <2> DEFINE x == batch[r]
  <2>3. x = [row EXCEPT !.padding = b]
    BY <2>2
  <2> HIDE DEF row, b, x
  <2>4. /\ x \in RowsWith(A) /\ x.padding = b
        /\ x.request = row.request /\ x.turn_idx = row.turn_idx /\ x.reward = row.reward
        /\ x.score = row.score /\ x.uid = row.uid
    BY <2>1, <2>3 DEF RowsWith
  <2>5. OfTurn(x) /\ Turn(x) = Turn(row)
    BY <2>1, <2>4, SameTurn, Zenon
  <2> QED BY <2>4, <2>5 DEF row, b, x
<1>7. batch \in Seq(RowsWith(A)) /\ Len(batch) = m
  <2>1. batch \in [1 .. m -> RowsWith(A)]
    BY <1>4, <1>6
  <2> QED BY <1>3, <2>1, FunctionIsSeq
<1>8. Typed(batch) /\ batch # << >>
  <2>1. n # 0
    BY <1>1, EmptySeq DEF n
  <2>2. m # 0
    BY <1>1, <1>3, <2>1
  <2> QED BY <1>7, <2>2, OwnAdvantages
<1>9. \A r \in 1 .. Len(batch) : OfTurn(batch[r])
  BY <1>6, <1>7
<1>10. \A r \in 1 .. m : ~ batch[r].padding <=> r \in 1 .. n
  <2>1. \A r \in 1 .. m : ~ (r > n) <=> r \in 1 .. n
    BY <1>1, <1>3
  <2>2. \A r \in 1 .. m : batch[r].padding = (r > n)
    BY <1>6, Zenon
  <2> QED BY <2>1, <2>2, Zenon
<1>11. \A r \in 1 .. n : Turn(batch[r]) = Turn(rows[r]) /\ r \in 1 .. m
  <2>1. \A r \in 1 .. n : r \in 1 .. m
    BY <1>1, <1>3
  <2> QED BY <1>2, <1>6, <2>1, Zenon
<1>12. \A t \in TurnsOf(results) :
         \E r \in 1 .. Len(batch) : ~ batch[r].padding /\ Turn(batch[r]) = t
  <2> SUFFICES ASSUME NEW t \in TurnsOf(results)
               PROVE  \E r \in 1 .. m : ~ batch[r].padding /\ Turn(batch[r]) = t
    BY <1>7, Zenon
  <2>1. PICK r \in 1 .. n : Turn(rows[r]) = t
    BY <1>1, Zenon
  <2>2. r \in 1 .. m /\ ~ batch[r].padding /\ Turn(batch[r]) = t
    BY <1>10, <1>11, <2>1, Zenon
  <2> QED BY <2>2, Zenon
<1>13. \A r, q \in 1 .. Len(batch) :
         ~ batch[r].padding /\ ~ batch[q].padding /\ Turn(batch[r]) = Turn(batch[q]) => r = q
  BY <1>1, <1>7, <1>10, <1>11
<1> QED BY <1>8, <1>9, <1>12, <1>13 DEF Fits

(* A new order of all rows is one both ways.                               *)
LEMMA OrderOnto ==
  ASSUME NEW n \in Nat, NEW order \in Orders(n)
  PROVE  /\ order \in [1 .. n -> 1 .. n]
         /\ \A i, j \in 1 .. n : order[i] = order[j] => i = j
         /\ \A j \in 1 .. n : \E i \in 1 .. n : order[i] = j
<1>1. /\ order \in [1 .. n -> 1 .. n]
      /\ \A i, j \in 1 .. n : order[i] = order[j] => i = j
  BY DEF Orders
<1>2. order \in Injection(1 .. n, 1 .. n)
  BY <1>1, Fun_IsInj
<1>3. IsFiniteSet(1 .. n)
  BY FirstNumbers
<1>4. order \in Surjection(1 .. n, 1 .. n)
  BY <1>2, <1>3, FS_Injection
<1>5. \A j \in 1 .. n : \E i \in 1 .. n : order[i] = j
  BY <1>4 DEF Surjection
<1> QED BY <1>1, <1>5

(* A new order loses and repeats no row.                                   *)
LEMMA BalanceFits ==
  ASSUME Fits(rows), NEW order \in Orders(Len(rows)),
         NEW batch, batch = [r \in 1 .. Len(rows) |-> rows[order[r]]]
  PROVE  Fits(batch)
<1> DEFINE A == {rows[r].adv : r \in 1 .. Len(rows)}
           n == Len(rows)
<1>1. /\ rows \in Seq(RowsWith(A)) /\ rows # << >> /\ n \in Nat /\ n # 0
      /\ \A r \in 1 .. n : OfTurn(rows[r])
      /\ \A t \in TurnsOf(results) :
           \E r \in 1 .. n : ~ rows[r].padding /\ Turn(rows[r]) = t
      /\ \A r, q \in 1 .. n :
           ~ rows[r].padding /\ ~ rows[q].padding /\ Turn(rows[r]) = Turn(rows[q]) => r = q
  BY EmptySeq, LenProperties DEF Fits, Typed
<1> HIDE DEF A
<1>2. /\ order \in [1 .. n -> 1 .. n]
      /\ \A i, j \in 1 .. n : order[i] = order[j] => i = j
      /\ \A j \in 1 .. n : \E i \in 1 .. n : order[i] = j
  BY <1>1, OrderOnto
<1>3. batch = [r \in 1 .. n |-> rows[order[r]]]
  OBVIOUS
<1>4. \A r \in 1 .. n : rows[r] \in RowsWith(A)
  BY <1>1, ElementOfSeq
<1> HIDE DEF n
<1>5. \A r \in 1 .. n : batch[r] = rows[order[r]] /\ order[r] \in 1 .. n
  BY <1>2, <1>3
<1>6. batch \in Seq(RowsWith(A)) /\ Len(batch) = n
  <2>1. batch \in [1 .. n -> RowsWith(A)]
    BY <1>3, <1>4, <1>5
  <2> QED BY <1>1, <2>1, FunctionIsSeq
<1>7. Typed(batch) /\ batch # << >>
  BY <1>1, <1>6, OwnAdvantages
<1>8. \A r \in 1 .. Len(batch) : OfTurn(batch[r])
  BY <1>1, <1>5, <1>6
<1>9. \A t \in TurnsOf(results) :
        \E r \in 1 .. Len(batch) : ~ batch[r].padding /\ Turn(batch[r]) = t
  <2> SUFFICES ASSUME NEW t \in TurnsOf(results)
               PROVE  \E r \in 1 .. n : ~ batch[r].padding /\ Turn(batch[r]) = t
    BY <1>6
  <2>1. PICK q \in 1 .. n : ~ rows[q].padding /\ Turn(rows[q]) = t
    BY <1>1
  <2>2. PICK r \in 1 .. n : order[r] = q
    BY <1>2
  <2> QED BY <1>5, <2>1, <2>2
<1>10. \A r, q \in 1 .. Len(batch) :
         ~ batch[r].padding /\ ~ batch[q].padding /\ Turn(batch[r]) = Turn(batch[q]) => r = q
  <2> SUFFICES ASSUME NEW r \in 1 .. n, NEW q \in 1 .. n, ~ batch[r].padding,
                      ~ batch[q].padding, Turn(batch[r]) = Turn(batch[q])
               PROVE  r = q
    BY <1>6, Zenon
  <2> DEFINE i == order[r]
             j == order[q]
  <2>1. i \in 1 .. n /\ j \in 1 .. n /\ batch[r] = rows[i] /\ batch[q] = rows[j]
    BY <1>5, Zenon
  <2> HIDE DEF i, j
  <2>2. ~ rows[i].padding /\ ~ rows[j].padding /\ Turn(rows[i]) = Turn(rows[j])
    BY <2>1, Zenon
  <2>3. i = j
    BY <1>1, <2>1, <2>2, Zenon
  <2> QED BY <1>2, <2>3, Zenon DEF i, j
<1> QED BY <1>7, <1>8, <1>9, <1>10 DEF Fits

(* Advantages leave the rows what they are.                                *)
LEMMA AdvantageFits ==
  ASSUME Fits(rows), NEW h, NEW batch,
         batch = [r \in 1 .. Len(rows) |-> [rows[r] EXCEPT !.adv = h[r]]]
  PROVE  /\ Fits(batch) /\ Len(batch) = Len(rows)
         /\ \A r \in 1 .. Len(rows) : batch[r].adv = h[r]
<1> DEFINE A == {rows[r].adv : r \in 1 .. Len(rows)}
           n == Len(rows)
           B == {h[r] : r \in 1 .. n}
<1>1. /\ rows \in Seq(RowsWith(A)) /\ rows # << >> /\ n \in Nat /\ n # 0
      /\ \A r \in 1 .. n : OfTurn(rows[r])
      /\ \A t \in TurnsOf(results) :
           \E r \in 1 .. n : ~ rows[r].padding /\ Turn(rows[r]) = t
      /\ \A r, q \in 1 .. n :
           ~ rows[r].padding /\ ~ rows[q].padding /\ Turn(rows[r]) = Turn(rows[q]) => r = q
  BY EmptySeq, LenProperties DEF Fits, Typed
<1> HIDE DEF A
<1>2. \A r \in 1 .. n : rows[r] \in RowsWith(A)
  BY <1>1, ElementOfSeq
<1>3. batch = [r \in 1 .. n |-> [rows[r] EXCEPT !.adv = h[r]]]
  OBVIOUS
<1>4. \A r \in 1 .. n : h[r] \in B
  OBVIOUS
<1> HIDE DEF n, B
<1>5. \A r \in 1 .. n : /\ batch[r] \in RowsWith(B) /\ OfTurn(batch[r])
                        /\ Turn(batch[r]) = Turn(rows[r])
                        /\ batch[r].padding = rows[r].padding /\ batch[r].adv = h[r]
  <2> SUFFICES ASSUME NEW r \in 1 .. n
               PROVE  /\ batch[r] \in RowsWith(B) /\ OfTurn(batch[r])
                      /\ Turn(batch[r]) = Turn(rows[r])
                      /\ batch[r].padding = rows[r].padding /\ batch[r].adv = h[r]
    OBVIOUS
  <2> DEFINE row == rows[r]
             a == h[r]
             b == batch[r]
  <2>1. row \in RowsWith(A) /\ OfTurn(row) /\ b = [row EXCEPT !.adv = a] /\ a \in B
    BY <1>1, <1>2, <1>3, <1>4
  <2> HIDE DEF row, a, b
  <2>2. /\ b \in RowsWith(B) /\ b.padding = row.padding /\ b.adv = a
        /\ b.request = row.request /\ b.turn_idx = row.turn_idx /\ b.reward = row.reward
        /\ b.score = row.score /\ b.uid = row.uid
    BY <2>1 DEF RowsWith
  <2>3. OfTurn(b) /\ Turn(b) = Turn(row)
    BY <2>1, <2>2, SameTurn, Zenon
  <2> QED BY <2>2, <2>3 DEF row, a, b
<1>6. batch \in Seq(RowsWith(B)) /\ Len(batch) = n
  <2>1. batch \in [1 .. n -> RowsWith(B)]
    BY <1>3, <1>5
  <2> QED BY <1>1, <2>1, FunctionIsSeq
<1>7. Typed(batch) /\ batch # << >>
  BY <1>1, <1>6, OwnAdvantages
<1>8. \A r \in 1 .. Len(batch) : OfTurn(batch[r])
  BY <1>5, <1>6
<1>9. \A t \in TurnsOf(results) :
        \E r \in 1 .. Len(batch) : ~ batch[r].padding /\ Turn(batch[r]) = t
  <2> SUFFICES ASSUME NEW t \in TurnsOf(results)
               PROVE  \E r \in 1 .. n : ~ batch[r].padding /\ Turn(batch[r]) = t
    BY <1>6, Zenon
  <2>1. PICK r \in 1 .. n : ~ rows[r].padding /\ Turn(rows[r]) = t
    BY <1>1, Zenon
  <2>2. batch[r].padding = rows[r].padding /\ Turn(batch[r]) = Turn(rows[r])
    BY <1>5, Zenon
  <2> QED BY <2>1, <2>2, Zenon
<1>10. \A r, q \in 1 .. Len(batch) :
         ~ batch[r].padding /\ ~ batch[q].padding /\ Turn(batch[r]) = Turn(batch[q]) => r = q
  <2> SUFFICES ASSUME NEW r \in 1 .. n, NEW q \in 1 .. n, ~ batch[r].padding,
                      ~ batch[q].padding, Turn(batch[r]) = Turn(batch[q])
               PROVE  r = q
    BY <1>6, Zenon
  <2>1. /\ batch[r].padding = rows[r].padding /\ Turn(batch[r]) = Turn(rows[r])
        /\ batch[q].padding = rows[q].padding /\ Turn(batch[q]) = Turn(rows[q])
    BY <1>5, Zenon
  <2>2. ~ rows[r].padding /\ ~ rows[q].padding /\ Turn(rows[r]) = Turn(rows[q])
    BY <2>1, Zenon
  <2> QED BY <1>1, <2>2, Zenon
<1>11. Fits(batch)
  BY <1>7, <1>8, <1>9, <1>10 DEF Fits
<1> QED BY <1>5, <1>6, <1>11 DEF n

-----------------------------------------------------------------------------
(* A trajectory in the order of its turns.                                 *)

(* A set of positions that holds all before any of its members.            *)
LEMMA InitialPositions ==
  ASSUME NEW n \in Nat, NEW B \in SUBSET (1 .. n),
         \A i, j \in 1 .. n : j \in B /\ i < j => i \in B
  PROVE  B = 1 .. Cardinality(B)
<1>1. IsFiniteSet(1 .. n)
  BY FirstNumbers
<1>2. IsFiniteSet(B)
  BY <1>1, FS_Subset
<1>3. CASE B = {}
  <2>1. Cardinality(B) = 0
    BY <1>3, FS_EmptySet
  <2> QED BY <1>3, <2>1
<1>4. CASE B # {}
  <2> DEFINE m == Max(B)
  <2>1. B \in SUBSET Int
    OBVIOUS
  <2>2. m \in B /\ \A j \in B : j <= m
    BY <1>2, <1>4, <2>1, MaxOfSet
  <2> HIDE DEF m
  <2>3. m \in Nat /\ m \in 1 .. n
    BY <2>2
  <2>4. B = 1 .. m
    <3>1. \A j \in B : j \in 1 .. m
      BY <2>2
    <3>2. \A i \in 1 .. m : i \in B
      BY <2>2, <2>3
    <3> QED BY <3>1, <3>2
  <2>5. Cardinality(1 .. m) = m
    BY <2>3, FirstNumbers
  <2> QED BY <2>4, <2>5
<1> QED BY <1>3, <1>4

InTurnOrder(s) == \A i, j \in 1 .. Len(s) : i < j => s[i].turn_idx <= s[j].turn_idx
NotBehind(s, x) == {i \in DOMAIN s : ~ TurnOrder(x, s[i])}

(* A row inserted behind those of its turn or an earlier one.              *)
LEMMA InsertInOrder ==
  ASSUME NEW A, NEW s \in Seq(RowsWith(A)), InTurnOrder(s), NEW x \in RowsWith(A)
  PROVE  /\ Cardinality(NotBehind(s, x)) + 1 \in 1 .. Len(s) + 1
         /\ InTurnOrder(InsertAt(s, Cardinality(NotBehind(s, x)) + 1, x))
<1> DEFINE n == Len(s)
           B == NotBehind(s, x)
           c == Cardinality(B)
           pos == c + 1
           u == InsertAt(s, pos, x)
           time(y) == y.turn_idx
<1>1. /\ n \in Nat /\ DOMAIN s = 1 .. n /\ x.turn_idx \in Nat
      /\ \A i \in 1 .. n : s[i].turn_idx \in Nat
  <2>1. \A i \in 1 .. n : s[i] \in RowsWith(A)
    BY ElementOfSeq
  <2> QED BY <2>1, LenProperties DEF RowsWith
<1>2. B \in SUBSET (1 .. n) /\ \A i \in 1 .. n : i \in B <=> s[i].turn_idx <= x.turn_idx
  BY <1>1 DEF NotBehind, TurnOrder
<1>3. pos \in 1 .. n + 1
  BY <1>1, <1>2, PlaceAmong
<1> HIDE DEF B
<1>4. B = 1 .. c
  <2>1. \A i, j \in 1 .. n : j \in B /\ i < j => i \in B
    <3> SUFFICES ASSUME NEW i \in 1 .. n, NEW j \in 1 .. n, j \in B, i < j PROVE i \in B
      OBVIOUS
    <3>1. s[i].turn_idx <= s[j].turn_idx
      BY DEF InTurnOrder
    <3>2. s[j].turn_idx <= x.turn_idx
      BY <1>2
    <3> QED BY <1>1, <1>2, <3>1, <3>2
  <2> HIDE DEF n
  <2> QED BY <1>1, <1>2, <2>1, InitialPositions
<1>5. /\ Len(u) = n + 1
      /\ \A i \in 1 .. n + 1 :
           u[i] = IF i < pos THEN s[i] ELSE IF i = pos THEN x ELSE s[i - 1]
  BY <1>3, InsertProperties
<1> HIDE DEF u, n
<1>6. c \in 0 .. n
  <2>1. c + 1 \in 1 .. n + 1
    BY <1>3
  <2>2. IsFiniteSet(1 .. n)
    BY <1>1, FirstNumbers
  <2>3. IsFiniteSet(B)
    BY <1>2, <2>2, FS_Subset
  <2>4. c \in Nat
    BY <2>3, FS_CardinalityType
  <2> HIDE DEF c
  <2> QED BY <1>1, <2>1, <2>4
<1> HIDE DEF c
<1>7. /\ \A i \in 1 .. n : i <= c => s[i].turn_idx <= x.turn_idx
      /\ \A i \in 1 .. n : i > c => x.turn_idx <= s[i].turn_idx
  BY <1>1, <1>2, <1>4, <1>6
<1>8. \A i, j \in 1 .. n : i < j => s[i].turn_idx <= s[j].turn_idx
  BY DEF InTurnOrder, n
<1>9. ASSUME NEW i \in 1 .. n + 1, NEW j \in 1 .. n + 1, i < j
      PROVE  u[i].turn_idx <= u[j].turn_idx
  <2>1. CASE j <= c
    <3>1. u[i] = s[i] /\ u[j] = s[j] /\ i \in 1 .. n /\ j \in 1 .. n
      BY <1>1, <1>5, <1>6, <1>9, <2>1
    <3> QED BY <1>8, <1>9, <3>1
  <2>2. CASE j = c + 1
    <3>1. u[i] = s[i] /\ u[j] = x /\ i \in 1 .. n /\ i <= c
      BY <1>1, <1>5, <1>6, <1>9, <2>2
    <3> QED BY <1>7, <3>1
  <2>3. CASE j > c + 1 /\ i <= c
    <3>1. i \in 1 .. n /\ j - 1 \in 1 .. n /\ i < j - 1
      BY <1>1, <1>6, <1>9, <2>3
    <3>2. u[i] = s[i]
      BY <1>5, <1>6, <2>3
    <3>3. u[j] = s[j - 1]
      BY <1>5, <1>6, <2>3
    <3> QED BY <1>8, <3>1, <3>2, <3>3
  <2>4. CASE j > c + 1 /\ i = c + 1
    <3>1. j - 1 \in 1 .. n /\ j - 1 > c
      BY <1>1, <1>6, <1>9, <2>4
    <3>2. u[i] = x
      BY <1>5, <1>6, <2>4
    <3>3. u[j] = s[j - 1]
      BY <1>5, <1>6, <2>4
    <3> QED BY <1>7, <3>1, <3>2, <3>3
  <2>5. CASE i > c + 1
    <3>1. i - 1 \in 1 .. n /\ j - 1 \in 1 .. n /\ i - 1 < j - 1
      BY <1>1, <1>6, <1>9, <2>5
    <3>2. u[i] = s[i - 1]
      BY <1>5, <1>6, <2>5
    <3>3. u[j] = s[j - 1]
      BY <1>5, <1>6, <1>9, <2>5
    <3> QED BY <1>8, <3>1, <3>2, <3>3
  <2> QED BY <1>1, <1>6, <1>9, <2>1, <2>2, <2>3, <2>4, <2>5
<1>10. InTurnOrder(u)
  BY <1>5, <1>9 DEF InTurnOrder
<1> QED BY <1>3, <1>10 DEF u, pos, c, B, n

(* Sorting by turn.                                                        *)
ByTurn(s) == Sorted(s, TurnOrder)
LEMMA SortedByTurn ==
  ASSUME NEW A, NEW s \in Seq(RowsWith(A))
  PROVE  /\ ByTurn(s) \in Seq(RowsWith(A)) /\ Rearranges(ByTurn(s), s, Len(s))
         /\ InTurnOrder(ByTurn(s))
<1> DEFINE n == Len(s)
           X == RowsWith(A)
           Place(x, k) == Cardinality(NotBehind(x, s[k])) + 1
           step(h) == [k \in 0 .. n |->
             IF k = 0 THEN << >> ELSE InsertAt(h[k - 1], Place(h[k - 1], k), s[k])]
           c == CHOOSE h : h = step(h)
           place == [k \in 1 .. n |-> [x \in Seq(X) |-> Place(x, k)]]
<1>1. n \in Nat /\ \A k \in 1 .. n : s[k] \in X
  BY LenProperties, ElementOfSeq
<1>2. ByTurn(s) = c[n]
  BY DEF ByTurn, Sorted, Inserted, NotBehind
<1>3. ASSUME NEW x \in Seq(X), NEW k \in 1 .. n
      PROVE  Place(x, k) \in 1 .. Len(x) + 1
  <2>1. NotBehind(x, s[k]) \in SUBSET DOMAIN x
    BY DEF NotBehind
  <2> QED BY <2>1, PlaceAmong
<1>4. ASSUME NEW x \in Seq(X), NEW k \in 1 .. n, InTurnOrder(x)
      PROVE  InTurnOrder(InsertAt(x, Place(x, k), s[k]))
  BY <1>1, <1>4, InsertInOrder
<1> HIDE DEF Place, n, X
<1>5. Places(place, X, n)
  BY <1>3 DEF Places
<1>6. PICK g : InsertedOneByOne(g, X, s, n, place)
  BY <1>5, InsertionsExist DEF n, X
<1>7. /\ g \in [0 .. n -> Seq(X)] /\ g[0] = << >>
      /\ \A k \in 1 .. n : g[k] = InsertAt(g[k - 1], Place(g[k - 1], k), s[k])
  <2>1. /\ g \in [0 .. n -> Seq(X)] /\ g[0] = << >>
        /\ \A k \in 1 .. n : g[k] = InsertAt(g[k - 1], place[k][g[k - 1]], s[k])
    BY <1>6 DEF InsertedOneByOne
  <2>2. \A k \in 1 .. n : place[k][g[k - 1]] = Place(g[k - 1], k)
    BY <1>1, <2>1
  <2> HIDE DEF place
  <2> QED BY <2>1, <2>2
<1>8. g = step(g)
  <2>1. \A k \in 0 .. n : k = 0 \/ k \in 1 .. n
    BY <1>1
  <2> QED BY <1>7, <2>1
<1>9. c = step(c)
  BY <1>8, Zenon
<1> HIDE DEF c
<1>10. /\ c[0] = << >>
       /\ \A k \in 1 .. n : c[k] = InsertAt(c[k - 1], Place(c[k - 1], k), s[k])
  BY <1>1, <1>9
<1>11. Insertions(c, X, s, n)
  BY <1>3, <1>10 DEF Insertions
<1>12. c[n] \in Seq(X) /\ Rearranges(c[n], s, n)
  BY <1>11, InsertionsRearrange DEF n, X
<1> DEFINE S == {k \in 0 .. n : c[k] \in Seq(X) /\ InTurnOrder(c[k])}
<1>13. 0 \in S
  <2>1. c[0] \in Seq(X) /\ Len(c[0]) = 0
    BY <1>10, EmptySeq
  <2>2. InTurnOrder(c[0])
    BY <2>1 DEF InTurnOrder
  <2> QED BY <1>1, <2>1, <2>2
<1>14. ASSUME NEW k \in 0 .. n - 1, k \in S PROVE k + 1 \in S
  <2>1. k + 1 \in 1 .. n /\ (k + 1) - 1 = k /\ k + 1 \in 0 .. n
    BY <1>1
  <2> DEFINE x == c[k]
             p == Place(x, k + 1)
  <2>2. x \in Seq(X) /\ InTurnOrder(x)
    BY <1>14
  <2>3. c[k + 1] = InsertAt(x, p, s[k + 1])
    BY <1>10, <2>1
  <2>4. p \in 1 .. Len(x) + 1
    BY <1>3, <2>1, <2>2
  <2>5. InTurnOrder(InsertAt(x, p, s[k + 1]))
    BY <1>4, <2>1, <2>2
  <2> HIDE DEF x, p
  <2>6. InsertAt(x, p, s[k + 1]) \in Seq(X)
    BY <1>1, <2>1, <2>2, <2>4, InsertProperties
  <2> QED BY <2>1, <2>3, <2>5, <2>6
<1> HIDE DEF S
<1>15. n \in S
  BY <1>1, <1>13, <1>14, Induction
<1> QED BY <1>2, <1>12, <1>15 DEF S, n, X

-----------------------------------------------------------------------------
(* Advantages.                                                             *)

(* The rows of a batch, and the turns they are of.                         *)
OfTurns(batch, key, A) ==
  /\ batch \in Seq(RowsWith(A)) /\ key \in Seq(TurnsOf(results))
  /\ Len(batch) = Len(key)
  /\ \A i \in 1 .. Len(key) : OfTurn(batch[i]) /\ Turn(batch[i]) = key[i]

(* What a row says, by its turn.                                           *)
LEMMA RowSays ==
  ASSUME NEW A, NEW row \in RowsWith(A), OfTurn(row), NEW t, t = Turn(row)
  PROVE  /\ row.request = t[1] /\ row.turn_idx = t[2] - 1 /\ row.turn_idx + 1 = t[2]
         /\ t \in TurnsOf(results)
         /\ t[1] \in 1 .. Len(results) /\ t[2] \in 1 .. Len(results[t[1]])
         /\ row.reward = results[t[1]][t[2]]
         /\ row.score = SumSeq(SubSeq(results[t[1]], t[2], Len(results[t[1]])))
<1>1. row.turn_idx \in Nat
  BY DEF RowsWith
<1>2. t[1] = row.request /\ t[2] = row.turn_idx + 1 /\ t \in TurnsOf(results)
  BY DEF Turn, OfTurn
<1>3. t[1] \in 1 .. Len(results) /\ t[2] \in 1 .. Len(results[t[1]])
  BY <1>2 DEF TurnsOf
<1>4. row.turn_idx = t[2] - 1
  BY <1>1, <1>2
<1> QED BY <1>2, <1>3, <1>4 DEF OfTurn

(* Rows that are filtered are of the turns of their positions.             *)
KeyedOnce(key, B) == \A i, j \in B : key[i] = key[j] => i = j
KeysAt(key, B) == {key[i] : i \in B}
OnceEach(batch, A, turns) ==
  \E sub : OfTurns(batch, sub, A) /\ Distinct(sub) /\ Members(sub) = turns
LEMMA KeptTurns ==
  ASSUME NEW A, NEW batch, NEW key, OfTurns(batch, key, A),
         NEW B \in SUBSET (1 .. Len(batch)), KeyedOnce(key, B)
  PROVE  OnceEach(KeptAt(batch, B), A, KeysAt(key, B))
<1> DEFINE T == TurnsOf(results)
           R == RowsWith(A)
           n == Len(batch)
<1>1. /\ batch \in Seq(R) /\ key \in Seq(T) /\ n \in Nat /\ Len(key) = n
      /\ \A i \in 1 .. n : OfTurn(batch[i]) /\ Turn(batch[i]) = key[i]
  BY LenProperties DEF OfTurns
<1> HIDE DEF R, T
<1>2. PICK pos \in Seq(B) : /\ Distinct(pos) /\ Members(pos) = B
                            /\ KeptAt(batch, B) = Through(pos, batch)
  BY <1>1, KeptPositions
<1> DEFINE sub == Through(pos, key)
           kept == Through(pos, batch)
           m == Len(pos)
<1>3. m \in Nat /\ \A i \in 1 .. m : pos[i] \in B /\ pos[i] \in 1 .. n
  BY <1>2, LenProperties, ElementOfSeq
<1>4. sub = [i \in 1 .. m |-> key[pos[i]]] /\ kept = [i \in 1 .. m |-> batch[pos[i]]]
  BY DEF Through
<1>5. \A i \in 1 .. n : batch[i] \in R /\ key[i] \in T
  BY <1>1, ElementOfSeq
<1> HIDE DEF sub, kept, m
<1>6. sub \in Seq(T) /\ Len(sub) = m /\ kept \in Seq(R) /\ Len(kept) = m
  <2>1. sub \in [1 .. m -> T] /\ kept \in [1 .. m -> R]
    BY <1>3, <1>4, <1>5
  <2> QED BY <1>3, <2>1, FunctionIsSeq
<1>7. OfTurns(kept, sub, A)
  <2>1. \A i \in 1 .. m : OfTurn(kept[i]) /\ Turn(kept[i]) = sub[i]
    BY <1>1, <1>3, <1>4
  <2> QED BY <1>6, <2>1 DEF OfTurns, R, T
<1>8. Distinct(sub)
  <2> SUFFICES ASSUME NEW i \in 1 .. m, NEW j \in 1 .. m, sub[i] = sub[j] PROVE i = j
    BY <1>6 DEF Distinct
  <2>1. key[pos[i]] = key[pos[j]] /\ pos[i] \in B /\ pos[j] \in B
    BY <1>3, <1>4
  <2>2. pos[i] = pos[j]
    BY <2>1 DEF KeyedOnce
  <2> QED BY <1>2, <2>2 DEF Distinct, m
<1>9. Members(sub) = KeysAt(key, B)
  <2>1. \A i \in B : \E j \in 1 .. m : pos[j] = i
    BY <1>2 DEF Members, m
  <2>2. Members(sub) = {key[pos[j]] : j \in 1 .. m}
    BY <1>4, <1>6 DEF Members
  <2> QED BY <1>3, <2>1, <2>2 DEF KeysAt
<1> QED BY <1>2, <1>7, <1>8, <1>9 DEF kept, OnceEach

(* A value for each turn sums up to the same whatever order the rows have. *)
ValuesOf(u, s, f, X) ==
  s \in Seq(X) /\ Distinct(s) /\ f \in [X -> Int] /\ LooksUp(u, s, f, Int)
LEMMA SumOverTurns ==
  ASSUME NEW X, NEW f, NEW s, NEW t, Members(s) = Members(t),
         NEW u, NEW v, ValuesOf(u, s, f, X), ValuesOf(v, t, f, X)
  PROVE  Len(u) = Len(v) /\ SumSeq(u) = SumSeq(v)
<1> USE DEF ValuesOf
<1>1. Len(s) = Len(t)
  BY DistinctRearranges
<1>2. SumSeq(Through(t, f)) = SumSeq(Through(s, f))
  BY SumOfMembers
<1>3. u = Through(s, f)
  <2>1. u = [i \in 1 .. Len(s) |-> u[i]]
    BY LenProperties DEF LooksUp
  <2> QED BY <2>1 DEF LooksUp, Through
<1>4. v = Through(t, f)
  <2>1. v = [i \in 1 .. Len(t) |-> v[i]]
    BY LenProperties DEF LooksUp
  <2> QED BY <2>1 DEF LooksUp, Through
<1> QED BY <1>1, <1>2, <1>3, <1>4 DEF LooksUp

(* The rewards of the genuine rows are those of the rollouts.              *)
RewardOfTurn == [t \in TurnsOf(results) |-> results[t[1]][t[2]]]

(* The rewards the estimators are defined by follow the turns.             *)
LEMMA AllTurnsInOrder ==
  ASSUME results \in Seq(Seq(Int))
  PROVE  /\ RewardOfTurn \in [TurnsOf(results) -> Int]
         /\ LooksUp(AllTurns, TurnSeq(results), RewardOfTurn, Int)
<1>1. \A i \in 1 .. Len(results) : results[i] \in Seq(Int) /\ Len(results[i]) \in Nat
  BY ElementOfSeq, LenProperties
<1>2. RewardOfTurn \in [TurnsOf(results) -> Int]
  <2>1. ASSUME NEW t \in TurnsOf(results) PROVE results[t[1]][t[2]] \in Int
    <3>1. t[1] \in 1 .. Len(results) /\ t[2] \in 1 .. Len(results[t[1]])
      BY DEF TurnsOf
    <3> QED BY <1>1, <3>1, ElementOfSeq
  <2> QED BY <2>1 DEF RewardOfTurn
<1>3. ListsOf(results, RewardOfTurn, results)
  <2>1. \A i \in 1 .. Len(results) :
          results[i] = [k \in 1 .. Len(results[i]) |-> RewardOfTurn[<< i, k >>]]
    <3> SUFFICES ASSUME NEW i \in 1 .. Len(results)
                 PROVE  results[i] = [k \in 1 .. Len(results[i]) |-> RewardOfTurn[<< i, k >>]]
      OBVIOUS
    <3> DEFINE n == Len(results[i])
               s == results[i]
    <3>1. s = [k \in 1 .. n |-> s[k]] /\ n \in Nat
      BY <1>1, LenProperties
    <3>2. \A k \in 1 .. n : RewardOfTurn[<< i, k >>] = s[k]
      <4> SUFFICES ASSUME NEW k \in 1 .. n PROVE RewardOfTurn[<< i, k >>] = s[k]
        OBVIOUS
      <4>1. k \in Nat
        BY <3>1
      <4>2. << i, k >> \in TurnsOf(results)
        BY <4>1 DEF TurnsOf
      <4> QED BY <4>2 DEF RewardOfTurn
    <3> HIDE DEF n, s
    <3>3. s = [k \in 1 .. n |-> RewardOfTurn[<< i, k >>]]
      BY <3>1, <3>2
    <3> QED BY <3>3 DEF n, s
  <2>2. results = [i \in 1 .. Len(results) |-> results[i]]
    BY LenProperties
  <2> QED BY <2>1, <2>2 DEF ListsOf
<1>4. AllTurns = Through(TurnSeq(results), RewardOfTurn)
  BY <1>2, <1>3, OfEachTurn DEF AllTurns
<1>5. TurnSeq(results) \in Seq(TurnsOf(results))
  BY TurnSeqExact
<1> QED BY <1>2, <1>4, <1>5, ThroughType

(* The genuine rows have as many rewards as the rollouts, and with the     *)
(* same sum.                                                               *)
LEMMA SumOfRewards ==
  ASSUME results \in Seq(Seq(Int)),
         NEW A, NEW batch, NEW key, OfTurns(batch, key, A), Distinct(key),
         Members(key) = TurnsOf(results),
         NEW rewards, rewards = [r \in DOMAIN batch |-> batch[r].reward]
  PROVE  /\ Len(rewards) = Len(AllTurns) /\ SumSeq(rewards) = SumSeq(AllTurns)
         /\ rewards \in Seq(Int)
<1> DEFINE T == TurnsOf(results)
           n == Len(batch)
<1>1. /\ batch \in Seq(RowsWith(A)) /\ n \in Nat /\ DOMAIN batch = 1 .. n
      /\ key \in Seq(T) /\ Len(key) = n
      /\ \A i \in 1 .. n : OfTurn(batch[i]) /\ Turn(batch[i]) = key[i]
  BY LenProperties DEF OfTurns
<1>2. \A i \in 1 .. n : batch[i] \in RowsWith(A)
  BY <1>1, ElementOfSeq
<1> HIDE DEF n
<1>3. \A i \in 1 .. n : rewards[i] = RewardOfTurn[key[i]] /\ rewards[i] \in Int
  <2> SUFFICES ASSUME NEW i \in 1 .. n
               PROVE  rewards[i] = RewardOfTurn[key[i]] /\ rewards[i] \in Int
    OBVIOUS
  <2> DEFINE t == key[i]
             row == batch[i]
  <2>1. row \in RowsWith(A) /\ OfTurn(row) /\ t = Turn(row) /\ rewards[i] = row.reward
    BY <1>1, <1>2
  <2> HIDE DEF t, row
  <2>2. t \in T /\ row.reward = results[t[1]][t[2]]
    BY <2>1, RowSays
  <2>3. row.reward \in Int
    BY <2>1 DEF RowsWith
  <2> QED BY <2>1, <2>2, <2>3 DEF RewardOfTurn, t
<1>4. rewards \in Seq(Int) /\ Len(rewards) = n
  <2>1. rewards \in [1 .. n -> Int]
    BY <1>1, <1>3
  <2> QED BY <1>1, <2>1, FunctionIsSeq
<1>5. LooksUp(rewards, key, RewardOfTurn, Int)
  BY <1>1, <1>3, <1>4 DEF LooksUp
<1>6. RewardOfTurn \in [T -> Int] /\ LooksUp(AllTurns, TurnSeq(results), RewardOfTurn, Int)
  BY AllTurnsInOrder
<1>7. TurnSeq(results) \in Seq(T) /\ Distinct(TurnSeq(results)) /\ Members(TurnSeq(results)) = T
  BY TurnSeqExact
<1> HIDE DEF T
<1>8. Members(key) = T
  BY DEF T
<1>9. /\ ValuesOf(rewards, key, RewardOfTurn, T)
      /\ ValuesOf(AllTurns, TurnSeq(results), RewardOfTurn, T)
  BY <1>1, <1>5, <1>6, <1>7 DEF ValuesOf
<1>10. Len(rewards) = Len(AllTurns) /\ SumSeq(rewards) = SumSeq(AllTurns)
  BY <1>7, <1>8, <1>9, SumOverTurns
<1> QED BY <1>4, <1>10

(* The scores of the first turns are those of the rollouts.                *)
ScoreOfFirst == [t \in TurnsOf(results) |-> SumSeq(results[t[1]])]

(* All of a sequence.                                                      *)
LEMMA WholeSum ==
  ASSUME NEW s \in Seq(Int)
  PROVE  SubSeq(s, 1, Len(s)) = s /\ SumSeq(s) \in Int
<1> DEFINE n == Len(s)
           t == SubSeq(s, 1, n)
<1>1. n \in Nat /\ 0 \in 0 .. n /\ n \in 0 .. n /\ s = [i \in 1 .. n |-> s[i]]
  BY LenProperties
<1> HIDE DEF n
<1>2. /\ SubSeq(s, 0 + 1, n) \in Seq(Int) /\ Len(SubSeq(s, 0 + 1, n)) = n - 0
      /\ \A x \in 1 .. n - 0 : SubSeq(s, 0 + 1, n)[x] = s[0 + x]
  BY <1>1, PartOfSeq DEF n
<1>3. t \in Seq(Int) /\ Len(t) = n /\ \A i \in 1 .. n : t[i] = s[i]
  BY <1>1, <1>2
<1> HIDE DEF t
<1>4. t = [i \in 1 .. n |-> t[i]]
  BY <1>3, LenProperties
<1>5. t = s
  BY <1>1, <1>3, <1>4
<1>6. 0 \in Int
  OBVIOUS
<1>7. SumSeq(s) \in Int
  BY <1>6, SumAppend
<1> QED BY <1>5, <1>7 DEF t, n

(* The first rows of all trajectories have the scores of the rollouts.     *)
LEMMA SumOfScores ==
  ASSUME results \in Seq(Seq(Int)), \A i \in 1 .. Len(results) : results[i] # << >>,
         NEW A, NEW batch, NEW key, OfTurns(batch, key, A), Distinct(key),
         Members(key) = {t \in TurnsOf(results) : t[2] = 1},
         NEW scores, scores = [a \in DOMAIN batch |-> batch[a].score]
  PROVE  /\ Len(scores) = Len(FirstScores) /\ SumSeq(scores) = SumSeq(FirstScores)
         /\ scores \in Seq(Int) /\ FirstScores \in Seq(Int)
         /\ \A a \in 1 .. Len(batch) : batch[a].score = FirstScores[batch[a].request]
<1> DEFINE T == TurnsOf(results)
           n == Len(batch)
           m == Len(results)
           firsts == [i \in 1 .. m |-> << i, 1 >>]
<1>1. /\ batch \in Seq(RowsWith(A)) /\ n \in Nat /\ DOMAIN batch = 1 .. n
      /\ key \in Seq(T) /\ Len(key) = n
      /\ \A i \in 1 .. n : OfTurn(batch[i]) /\ Turn(batch[i]) = key[i]
  BY LenProperties DEF OfTurns
<1>2. \A i \in 1 .. n : batch[i] \in RowsWith(A) /\ key[i][2] = 1
  <2>1. \A i \in 1 .. n : key[i] \in Members(key)
    BY <1>1 DEF Members
  <2> QED BY <1>1, <2>1, ElementOfSeq
<1>3. m \in Nat /\ \A i \in 1 .. m : results[i] \in Seq(Int) /\ Len(results[i]) \in Nat \ {0}
  BY LenProperties, ElementOfSeq, EmptySeq
<1>4. \A i \in 1 .. m : SumSeq(results[i]) \in Int /\ SubSeq(results[i], 1, Len(results[i])) = results[i]
  BY <1>3, WholeSum
<1>5. ScoreOfFirst \in [T -> Int]
  <2>1. \A t \in T : t[1] \in 1 .. m
    BY DEF TurnsOf
  <2> QED BY <1>4, <2>1 DEF ScoreOfFirst
<1>6. \A i \in 1 .. m : << i, 1 >> \in T
  BY <1>3 DEF TurnsOf
<1>7. FirstScores = [i \in 1 .. m |-> SumSeq(results[i])]
  BY DEF FirstScores
<1> HIDE DEF n, m
<1>8. FirstScores \in Seq(Int) /\ Len(FirstScores) = m
  <2>1. FirstScores \in [1 .. m -> Int]
    BY <1>4, <1>7
  <2> QED BY <1>3, <2>1, FunctionIsSeq
<1>9. firsts \in Seq(T) /\ Len(firsts) = m
  <2>1. firsts \in [1 .. m -> T]
    BY <1>6
  <2> HIDE DEF T, firsts
  <2> QED BY <1>3, <2>1, FunctionIsSeq
<1>10. Distinct(firsts)
  BY <1>9 DEF Distinct
<1>11. Members(firsts) = Members(key)
  <2>1. \A t \in T : t = << t[1], t[2] >> /\ t[1] \in 1 .. m
    BY DEF TurnsOf, m
  <2>2. \A t \in T : t[2] = 1 <=> \E i \in 1 .. m : t = firsts[i]
    <3> SUFFICES ASSUME NEW t \in T PROVE t[2] = 1 <=> \E i \in 1 .. m : t = firsts[i]
      OBVIOUS
    <3>1. \A i \in 1 .. m : firsts[i] = << i, 1 >>
      OBVIOUS
    <3> HIDE DEF firsts, T
    <3>2. t[2] = 1 => t = firsts[t[1]] /\ t[1] \in 1 .. m
      BY <2>1, <3>1
    <3>3. \A i \in 1 .. m : t = firsts[i] => t[2] = 1
      BY <3>1
    <3> QED BY <3>2, <3>3
  <2>3. \A i \in 1 .. m : firsts[i] \in T
    BY <1>6
  <2>4. Members(firsts) = {firsts[i] : i \in 1 .. m}
    BY <1>9 DEF Members
  <2>5. Members(key) = {t \in T : t[2] = 1}
    OBVIOUS
  <2> HIDE DEF firsts, T
  <2> QED BY <2>2, <2>3, <2>4, <2>5
<1>12. LooksUp(FirstScores, firsts, ScoreOfFirst, Int)
  <2>1. \A i \in 1 .. m : FirstScores[i] = ScoreOfFirst[firsts[i]]
    BY <1>6, <1>7 DEF ScoreOfFirst
  <2> QED BY <1>8, <1>9, <2>1 DEF LooksUp
<1>13. \A i \in 1 .. n : /\ scores[i] = ScoreOfFirst[key[i]] /\ scores[i] \in Int
                         /\ batch[i].score = FirstScores[batch[i].request]
  <2> SUFFICES ASSUME NEW i \in 1 .. n
               PROVE  /\ scores[i] = ScoreOfFirst[key[i]] /\ scores[i] \in Int
                      /\ batch[i].score = FirstScores[batch[i].request]
    OBVIOUS
  <2> DEFINE t == key[i]
             row == batch[i]
  <2>1. /\ row \in RowsWith(A) /\ OfTurn(row) /\ t = Turn(row) /\ scores[i] = row.score
        /\ t[2] = 1
    BY <1>1, <1>2
  <2> HIDE DEF t, row
  <2>2. /\ t \in T /\ row.request = t[1] /\ t[1] \in 1 .. m
        /\ row.score = SumSeq(SubSeq(results[t[1]], t[2], Len(results[t[1]])))
    BY <2>1, RowSays DEF m
  <2>3. row.score = SumSeq(results[t[1]])
    BY <1>4, <2>1, <2>2
  <2>4. row.score \in Int
    BY <2>1 DEF RowsWith
  <2>5. ScoreOfFirst[t] = SumSeq(results[t[1]]) /\ FirstScores[t[1]] = SumSeq(results[t[1]])
    BY <1>7, <2>2 DEF ScoreOfFirst
  <2>6. scores[i] = ScoreOfFirst[t] /\ row.score = FirstScores[row.request]
    BY <2>1, <2>2, <2>3, <2>5
  <2> QED BY <2>1, <2>4, <2>6 DEF t, row
<1>14. scores \in Seq(Int) /\ Len(scores) = n
  <2>1. scores \in [1 .. n -> Int]
    BY <1>1, <1>13
  <2> QED BY <1>1, <2>1, FunctionIsSeq
<1>15. LooksUp(scores, key, ScoreOfFirst, Int)
  BY <1>1, <1>13, <1>14 DEF LooksUp
<1> HIDE DEF T, firsts
<1>16. Len(scores) = Len(FirstScores) /\ SumSeq(scores) = SumSeq(FirstScores)
  <2>1. ValuesOf(scores, key, ScoreOfFirst, T) /\ ValuesOf(FirstScores, firsts, ScoreOfFirst, T)
    BY <1>1, <1>5, <1>9, <1>10, <1>12, <1>15 DEF ValuesOf
  <2>2. Members(key) = Members(firsts)
    BY <1>11, Zenon
  <2> DEFINE all == FirstScores
             f == ScoreOfFirst
  <2>3. ValuesOf(scores, key, f, T) /\ ValuesOf(all, firsts, f, T)
    BY <2>1
  <2> HIDE DEF all, f
  <2>4. Len(scores) = Len(all) /\ SumSeq(scores) = SumSeq(all)
    BY <2>2, <2>3, SumOverTurns
  <2> QED BY <2>4 DEF all
<1> QED BY <1>8, <1>13, <1>14, <1>16 DEF n

(* The rows that are no copies are of all turns.                           *)
GenuineAt == {r \in 1 .. Len(rows) : ~ rows[r].padding}

(* What compute_advantage looks at holds every turn once.                  *)
LEMMA CanonicalTurns ==
  ASSUME Fits(rows)
  PROVE  \E A : OnceEach(Canonical, A, TurnsOf(results))
<1> DEFINE A == {rows[r].adv : r \in 1 .. Len(rows)}
           T == TurnsOf(results)
           n == Len(rows)
           turn == [r \in 1 .. n |-> Turn(rows[r])]
<1>1. /\ rows \in Seq(RowsWith(A)) /\ n \in Nat /\ DOMAIN rows = 1 .. n
      /\ \A r \in 1 .. n : OfTurn(rows[r])
      /\ \A t \in T : \E r \in 1 .. n : ~ rows[r].padding /\ Turn(rows[r]) = t
      /\ \A r, q \in 1 .. n :
           ~ rows[r].padding /\ ~ rows[q].padding /\ Turn(rows[r]) = Turn(rows[q]) => r = q
  BY LenProperties DEF Fits, Typed
<1> HIDE DEF A
<1>2. Canonical = KeptAt(rows, GenuineAt)
  <2>1. [i \in DOMAIN rows |-> IF ~ rows[i].padding THEN << rows[i] >> ELSE << >>]
          = [i \in 1 .. n |-> IF i \in GenuineAt THEN << rows[i] >> ELSE << >>]
    BY <1>1 DEF GenuineAt
  <2>2. Canonical = FlattenSeq([i \in DOMAIN rows |->
                                 IF ~ rows[i].padding THEN << rows[i] >> ELSE << >>])
    BY DEF Canonical, Kept
  <2> QED BY <2>1, <2>2 DEF KeptAt
<1>3. \A r \in 1 .. n : Turn(rows[r]) \in T
  BY <1>1 DEF OfTurn
<1> HIDE DEF T
<1>4. turn \in Seq(T) /\ Len(turn) = n
  <2>1. turn \in [1 .. n -> T]
    BY <1>3
  <2> HIDE DEF turn, n
  <2> QED BY <1>1, <2>1, FunctionIsSeq
<1>5. OfTurns(rows, turn, A)
  <2>1. \A r \in 1 .. n : turn[r] = Turn(rows[r])
    OBVIOUS
  <2> HIDE DEF turn
  <2> QED BY <1>1, <1>4, <2>1 DEF OfTurns, T
<1>6. GenuineAt \in SUBSET (1 .. n) /\ KeyedOnce(turn, GenuineAt)
  BY <1>1 DEF GenuineAt, KeyedOnce
<1>7. KeysAt(turn, GenuineAt) = T
  <2>1. \A t \in T : \E r \in GenuineAt : turn[r] = t
    <3> SUFFICES ASSUME NEW t \in T PROVE \E r \in GenuineAt : turn[r] = t
      OBVIOUS
    <3>1. PICK r \in 1 .. n : ~ rows[r].padding /\ Turn(rows[r]) = t
      BY <1>1
    <3>2. r \in GenuineAt /\ turn[r] = t
      BY <3>1 DEF GenuineAt
    <3> QED BY <3>2
  <2>2. \A r \in GenuineAt : turn[r] \in T
    BY <1>3 DEF GenuineAt
  <2> HIDE DEF turn
  <2> QED BY <2>1, <2>2 DEF KeysAt
<1> HIDE DEF turn, n
<1>8. OnceEach(KeptAt(rows, GenuineAt), A, KeysAt(turn, GenuineAt))
  <2>1. GenuineAt \in SUBSET (1 .. Len(rows))
    BY DEF GenuineAt
  <2> DEFINE at == GenuineAt
             all == rows
  <2>2. OfTurns(all, turn, A) /\ at \in SUBSET (1 .. Len(all)) /\ KeyedOnce(turn, at)
    BY <1>5, <1>6, <2>1
  <2> HIDE DEF at, all
  <2>3. OnceEach(KeptAt(all, at), A, KeysAt(turn, at))
    BY <2>2, KeptTurns
  <2> QED BY <2>3 DEF at, all
<1> QED BY <1>2, <1>7, <1>8 DEF T

(* What is centred depends only on how many numbers there are and on their *)
(* sum.                                                                    *)
LEMMA CentredSame ==
  ASSUME NEW x, NEW xs, NEW ys, Len(xs) = Len(ys), SumSeq(xs) = SumSeq(ys)
  PROVE  Centred(x, xs) = Centred(x, ys)
BY DEF Centred

(* As many numbers as there are, one larger than the other.                *)
LEMMA StrictlyAscending ==
  ASSUME NEW n \in Nat, NEW f \in [1 .. n -> 0 .. n - 1],
         \A i, j \in 1 .. n : i < j => f[i] < f[j]
  PROVE  \A j \in 1 .. n : f[j] = j - 1
<1> SUFFICES ASSUME NEW j \in 1 .. n PROVE f[j] = j - 1
  OBVIOUS
<1>1. j <= f[j] + 1
  <2> DEFINE S == {k \in Nat : k + 1 \in 1 .. n => k <= f[k + 1]}
  <2>1. 0 \in S
    OBVIOUS
  <2>2. ASSUME NEW k \in 0 .. (j - 1) - 1, k \in S PROVE k + 1 \in S
    <3>1. k + 1 \in 1 .. n /\ k \in Nat /\ k + 1 \in Nat
      OBVIOUS
    <3>2. k <= f[k + 1]
      BY <2>2, <3>1
    <3>3. ASSUME (k + 1) + 1 \in 1 .. n PROVE k + 1 <= f[(k + 1) + 1]
      <4>1. f[k + 1] < f[(k + 1) + 1] /\ f[k + 1] \in Int /\ f[(k + 1) + 1] \in Int
        BY <3>1, <3>3
      <4> QED BY <3>1, <3>2, <4>1
    <3> QED BY <3>1, <3>3
  <2> HIDE DEF S
  <2>3. j - 1 \in S
    <3> DEFINE m == j - 1
    <3>1. m \in Nat /\ \A k \in 0 .. m - 1 : k \in S => k + 1 \in S
      BY <2>2
    <3> HIDE DEF m
    <3>2. m \in S
      BY <2>1, <3>1, Induction
    <3> QED BY <3>2 DEF m
  <2>4. (j - 1) + 1 = j /\ f[j] \in Int
    OBVIOUS
  <2> QED BY <2>3, <2>4 DEF S
<1>2. f[j] <= j - 1
  <2> DEFINE S == {k \in Nat : n - k \in 1 .. n => f[n - k] <= (n - k) - 1}
  <2>1. 0 \in S
    <3>1. ASSUME n \in 1 .. n PROVE f[n] <= n - 1
      BY <3>1
    <3>2. n - 0 = n
      OBVIOUS
    <3> QED BY <3>1, <3>2
  <2>2. ASSUME NEW k \in 0 .. (n - j) - 1, k \in S PROVE k + 1 \in S
    <3>1. n - k \in 1 .. n /\ k \in Nat /\ k + 1 \in Nat
      OBVIOUS
    <3>2. f[n - k] <= (n - k) - 1
      BY <2>2, <3>1
    <3>3. n - (k + 1) \in 1 .. n /\ n - (k + 1) < n - k
      OBVIOUS
    <3>4. f[n - (k + 1)] < f[n - k] /\ f[n - (k + 1)] \in Int /\ f[n - k] \in Int
      BY <3>1, <3>3
    <3>5. f[n - (k + 1)] <= (n - (k + 1)) - 1
      BY <3>1, <3>2, <3>4
    <3> QED BY <3>1, <3>5
  <2> HIDE DEF S
  <2>3. n - j \in S
    <3> DEFINE m == n - j
    <3>1. m \in Nat /\ \A k \in 0 .. m - 1 : k \in S => k + 1 \in S
      BY <2>2
    <3> HIDE DEF m
    <3>2. m \in S
      BY <2>1, <3>1, Induction
    <3> QED BY <3>2 DEF m
  <2>4. n - (n - j) = j
    OBVIOUS
  <2> QED BY <2>3, <2>4 DEF S
<1>3. f[j] \in Int
  OBVIOUS
<1> QED BY <1>1, <1>2, <1>3

(* The rows of a request, sorted, are its turns in their order.            *)
PositionsOf(batch, i) == {c \in 1 .. Len(batch) : batch[c].request = i}
HoldsTurns(traj, s) ==
  /\ Len(traj) = Len(s)
  /\ \A j \in 1 .. Len(s) : traj[j].turn_idx = j - 1 /\ traj[j].reward = s[j]
LEMMA TrajectoryTurns ==
  ASSUME results \in Seq(Seq(Int)),
         NEW A, NEW canonical, NEW key, OfTurns(canonical, key, A),
         Distinct(key), Members(key) = TurnsOf(results),
         NEW i \in 1 .. Len(results)
  PROVE  HoldsTurns(ByTurn(KeptAt(canonical, PositionsOf(canonical, i))), results[i])
<1> DEFINE n == Len(results[i])
           T == TurnsOf(results)
           own == {c \in 1 .. Len(canonical) : canonical[c].request = i}
           kept == KeptAt(canonical, own)
           traj == ByTurn(kept)
           turns == [k \in 1 .. n |-> << i, k >>]
<1>1. n \in Nat
  BY ElementOfSeq, LenProperties
<1>2. /\ \A t \in T : t = << t[1], t[2] >> /\ t[2] \in Nat
      /\ \A k \in Nat : << i, k >> \in T <=> k \in 1 .. n
  BY DEF TurnsOf
<1>3. /\ canonical \in Seq(RowsWith(A)) /\ key \in Seq(T) /\ Len(canonical) = Len(key)
      /\ \A c \in 1 .. Len(key) : OfTurn(canonical[c]) /\ Turn(canonical[c]) = key[c]
  BY DEF OfTurns
<1>4. \A c \in 1 .. Len(key) : canonical[c].request = key[c][1] /\ key[c] \in T
  BY <1>3, ElementOfSeq DEF Turn
<1>5. own \in SUBSET (1 .. Len(canonical)) /\ \A c \in 1 .. Len(key) : c \in own <=> key[c][1] = i
  BY <1>3, <1>4
<1> HIDE DEF own, n, T
<1>6. KeyedOnce(key, own)
  BY <1>3, <1>5 DEF Distinct, KeyedOnce
<1>7. PICK sub : /\ OfTurns(kept, sub, A)
                 /\ Distinct(sub) /\ Members(sub) = KeysAt(key, own)
  <2>1. OnceEach(KeptAt(canonical, own), A, KeysAt(key, own))
    BY <1>5, <1>6, KeptTurns
  <2> QED BY <2>1 DEF OnceEach
<1>8. turns \in Seq(T) /\ Len(turns) = n
  <2>1. turns \in [1 .. n -> T]
    <3>1. \A k \in 1 .. n : << i, k >> \in T
      BY <1>1, <1>2
    <3> QED BY <3>1
  <2> HIDE DEF turns
  <2> QED BY <1>1, <2>1, FunctionIsSeq
<1>9. \A k \in 1 .. n : turns[k] = << i, k >>
  OBVIOUS
<1> HIDE DEF turns
<1>10. Distinct(turns)
  BY <1>8, <1>9 DEF Distinct
<1>11. Members(sub) = Members(turns)
  <2>1. ASSUME NEW c \in own PROVE key[c] \in Members(turns)
    <3> DEFINE t == key[c]
    <3>1. t \in T /\ t[1] = i
      BY <1>3, <1>4, <1>5
    <3> HIDE DEF t
    <3>2. t = << i, t[2] >> /\ t[2] \in 1 .. n
      <4>1. t = << i, t[2] >> /\ t[2] \in Nat
        BY <1>2, <3>1
      <4>2. << i, t[2] >> \in T
        BY <3>1, <4>1
      <4> QED BY <1>2, <4>1, <4>2
    <3>3. t = turns[t[2]]
      BY <1>9, <3>2
    <3>4. t \in Members(turns)
      BY <1>8, <3>2, <3>3 DEF Members
    <3> QED BY <3>4 DEF t
  <2>2. ASSUME NEW k \in 1 .. n PROVE \E c \in own : key[c] = turns[k]
    <3>1. << i, k >> \in Members(key)
      BY <1>1, <1>2 DEF T
    <3>2. PICK c \in 1 .. Len(key) : key[c] = << i, k >>
      BY <3>1 DEF Members
    <3>3. key[c][1] = i
      BY <3>2
    <3> QED BY <1>5, <1>9, <3>2, <3>3
  <2>3. Members(turns) = {turns[k] : k \in 1 .. n}
    BY <1>8 DEF Members
  <2> QED BY <1>7, <2>1, <2>2, <2>3 DEF KeysAt
<1>12. /\ kept \in Seq(RowsWith(A)) /\ sub \in Seq(T) /\ Len(kept) = Len(sub)
       /\ \A c \in 1 .. Len(sub) : OfTurn(kept[c]) /\ Turn(kept[c]) = sub[c]
  BY <1>7 DEF OfTurns, T
<1>13. Len(sub) = n
  BY <1>7, <1>8, <1>10, <1>11, <1>12, DistinctRearranges
<1> HIDE DEF kept
<1>14. /\ traj \in Seq(RowsWith(A)) /\ Rearranges(traj, kept, n) /\ InTurnOrder(traj)
  BY <1>12, <1>13, SortedByTurn
<1> HIDE DEF traj
<1>15. PICK p, q : Permutes(p, q, n) /\ Len(traj) = n /\ \A j \in 1 .. n : traj[j] = kept[p[j]]
  BY <1>14 DEF Rearranges
<1>16. /\ \A j \in 1 .. n : p[j] \in 1 .. n
       /\ \A j, k \in 1 .. n : p[j] = p[k] => j = k
  BY <1>15 DEF Permutes
<1>17. \A c \in 1 .. n : \E k \in 1 .. n : sub[c] = << i, k >>
  <2> SUFFICES ASSUME NEW c \in 1 .. n PROVE \E k \in 1 .. n : sub[c] = << i, k >>
    OBVIOUS
  <2>1. sub[c] \in Members(turns)
    BY <1>11, <1>13 DEF Members
  <2> QED BY <1>8, <1>9, <2>1 DEF Members
<1>18. ASSUME NEW j \in 1 .. n
       PROVE  /\ traj[j].turn_idx \in 0 .. n - 1 /\ sub[p[j]] = << i, traj[j].turn_idx + 1 >>
              /\ traj[j].reward = results[i][traj[j].turn_idx + 1]
  <2> DEFINE row == traj[j]
             t == sub[p[j]]
  <2>1. row \in RowsWith(A) /\ OfTurn(row) /\ t = Turn(row)
    BY <1>12, <1>13, <1>14, <1>15, <1>16, ElementOfSeq
  <2>2. PICK k \in 1 .. n : t = << i, k >>
    BY <1>16, <1>17
  <2> HIDE DEF row, t
  <2>3. /\ row.turn_idx = t[2] - 1 /\ row.turn_idx + 1 = t[2]
        /\ row.reward = results[t[1]][t[2]]
    BY <2>1, RowSays
  <2>4. t[1] = i /\ t[2] = k
    BY <2>2
  <2>5. row.turn_idx \in 0 .. n - 1 /\ t = << i, row.turn_idx + 1 >>
        /\ row.reward = results[i][row.turn_idx + 1]
    BY <1>1, <2>2, <2>3, <2>4
  <2> QED BY <2>5 DEF row, t
<1> DEFINE f == [j \in 1 .. n |-> traj[j].turn_idx]
<1>19. f \in [1 .. n -> 0 .. n - 1]
  BY <1>18
<1>20. \A j, k \in 1 .. n : j < k => f[j] < f[k]
  <2> SUFFICES ASSUME NEW j \in 1 .. n, NEW k \in 1 .. n, j < k PROVE f[j] < f[k]
    OBVIOUS
  <2>1. traj[j].turn_idx <= traj[k].turn_idx
    BY <1>14, <1>15 DEF InTurnOrder
  <2>2. traj[j].turn_idx # traj[k].turn_idx
    <3> SUFFICES ASSUME traj[j].turn_idx = traj[k].turn_idx PROVE FALSE
      OBVIOUS
    <3>1. sub[p[j]] = sub[p[k]]
      BY <1>18
    <3>2. p[j] = p[k]
      BY <1>7, <1>13, <1>16, <3>1 DEF Distinct
    <3>3. j = k
      BY <1>16, <3>2
    <3> QED BY <1>1, <3>3
  <2>3. traj[j].turn_idx \in Int /\ traj[k].turn_idx \in Int
    BY <1>18
  <2> QED BY <2>1, <2>2, <2>3
<1>21. \A j \in 1 .. n : f[j] = j - 1
  <2> HIDE DEF f
  <2> QED BY <1>1, <1>19, <1>20, StrictlyAscending
<1>22. \A j \in 1 .. n : traj[j].turn_idx = j - 1 /\ traj[j].reward = results[i][j]
  <2> SUFFICES ASSUME NEW j \in 1 .. n
               PROVE  traj[j].turn_idx = j - 1 /\ traj[j].reward = results[i][j]
    OBVIOUS
  <2>1. traj[j].turn_idx = j - 1
    BY <1>21
  <2>2. traj[j].turn_idx + 1 = j
    BY <1>1, <2>1
  <2>3. traj[j].reward = results[i][traj[j].turn_idx + 1]
    BY <1>18
  <2> QED BY <2>1, <2>2, <2>3
<1> QED BY <1>15, <1>22 DEF HoldsTurns, PositionsOf, traj, kept, own, n

(* The last member that passes a test.                                     *)
LEMMA LastOfPositions ==
  ASSUME NEW n \in Nat, NEW P \in SUBSET (1 .. n), P # {}
  PROVE  Max(P) \in P
<1>1. IsFiniteSet(1 .. n)
  BY FirstNumbers
<1>2. IsFiniteSet(P)
  BY <1>1, FS_Subset
<1>3. P \in SUBSET Int
  OBVIOUS
<1> QED BY <1>2, <1>3, MaxOfSet

(* grpo_process: the reward to go of a row is that of its rollout.         *)
LEMMA ProcessRight ==
  ASSUME results \in Seq(Seq(Int)),
         NEW A, NEW canonical, OnceEach(canonical, A, TurnsOf(results)),
         NEW B, NEW row \in RowsWith(B), OfTurn(row),
         NEW res, res = results[row.request]
  PROVE  ProcessAdvantage(row, canonical) =
           SumSeq([j \in 1 .. (Len(res) - row.turn_idx) |->
                    Centred(res[row.turn_idx + j], AllTurns)])
<1> DEFINE i == row.request
           k == row.turn_idx
           own == {c \in 1 .. Len(canonical) : canonical[c].request = i}
           traj == ByTurn(KeptAt(canonical, own))
           n == Len(res)
           rewards == [r \in DOMAIN canonical |-> canonical[r].reward]
           at == SelectLastInSeq(traj, LAMBDA x : x.turn_idx = row.turn_idx)
<1>1. PICK key : /\ OfTurns(canonical, key, A) /\ Distinct(key)
                 /\ Members(key) = TurnsOf(results)
  BY DEF OnceEach
<1>2. i \in 1 .. Len(results) /\ k \in Nat /\ k + 1 \in 1 .. n
  <2> DEFINE t == Turn(row)
  <2>1. /\ row.request = t[1] /\ row.turn_idx + 1 = t[2]
        /\ t[1] \in 1 .. Len(results) /\ t[2] \in 1 .. Len(results[t[1]])
    BY RowSays
  <2> QED BY <2>1 DEF RowsWith
<1>3. n \in Nat
  BY <1>2, ElementOfSeq, LenProperties
<1>4. /\ Len(traj) = n
      /\ \A j \in 1 .. n : traj[j].turn_idx = j - 1 /\ traj[j].reward = res[j]
  <2> DEFINE req == row.request
  <2> HIDE DEF req
  <2>1. req \in 1 .. Len(results)
    BY <1>2 DEF req
  <2>2. HoldsTurns(ByTurn(KeptAt(canonical, PositionsOf(canonical, req))), results[req])
    BY <1>1, <2>1, TrajectoryTurns
  <2> QED BY <2>2 DEF HoldsTurns, PositionsOf, req
<1>5. Len(rewards) = Len(AllTurns) /\ SumSeq(rewards) = SumSeq(AllTurns)
  BY <1>1, SumOfRewards
<1>6. DOMAIN canonical = 1 .. Len(canonical)
  BY <1>1, LenProperties DEF OfTurns
<1>7. Kept(canonical, LAMBDA x : x.request = row.request) = KeptAt(canonical, own)
  <2>1. [c \in DOMAIN canonical |->
          IF canonical[c].request = row.request THEN << canonical[c] >> ELSE << >>]
        = [c \in 1 .. Len(canonical) |-> IF c \in own THEN << canonical[c] >> ELSE << >>]
    BY <1>6
  <2> QED BY <2>1 DEF Kept, KeptAt
<1>8. ProcessAdvantage(row, canonical) =
        SumSeq([j \in 1 .. (Len(traj) - at + 1) |-> Centred(traj[at + j - 1].reward, rewards)])
  BY <1>7 DEF ProcessAdvantage, ByTurn
<1>9. at = k + 1
  <2> DEFINE P == {p \in 1 .. Len(traj) : traj[p].turn_idx = k}
  <2>1. P = {k + 1} /\ P \in SUBSET (1 .. n)
    <3> HIDE DEF traj
    <3>1. \A p \in 1 .. n : p - 1 = k <=> p = k + 1
      BY <1>2, <1>3
    <3> QED BY <1>2, <1>4, <3>1
  <2>2. at = Max(P)
    BY <2>1 DEF SelectLastInSeq
  <2> HIDE DEF P
  <2>3. Max(P) \in P
    BY <1>3, <2>1, LastOfPositions
  <2> QED BY <2>1, <2>2, <2>3
<1> HIDE DEF traj, at, rewards
<1>10. Len(traj) - at + 1 = n - k
  <2> HIDE DEF k, n
  <2> QED BY <1>2, <1>3, <1>4, <1>9
<1>11. \A j \in 1 .. (n - k) :
         Centred(traj[at + j - 1].reward, rewards) = Centred(res[k + j], AllTurns)
  <2> SUFFICES ASSUME NEW j \in 1 .. (n - k)
               PROVE  Centred(traj[at + j - 1].reward, rewards) = Centred(res[k + j], AllTurns)
    OBVIOUS
  <2> HIDE DEF k, n
  <2>1. at + j - 1 = k + j /\ k + j \in 1 .. n
    BY <1>2, <1>3, <1>9
  <2>2. traj[at + j - 1].reward = res[k + j]
    BY <1>4, <2>1
  <2> QED BY <1>5, <2>2, CentredSame
<1> HIDE DEF k, n
<1>12. [j \in 1 .. (Len(traj) - at + 1) |-> Centred(traj[at + j - 1].reward, rewards)]
         = [j \in 1 .. (n - k) |-> Centred(res[k + j], AllTurns)]
  BY <1>10, <1>11
<1> QED BY <1>8, <1>12 DEF k, n

(* grpo_traj_outcome: the score of a row's first turn is its rollout's.    *)
LEMMA OutcomeRight ==
  ASSUME results \in Seq(Seq(Int)), \A i \in 1 .. Len(results) : results[i] # << >>,
         NEW A, NEW canonical, OnceEach(canonical, A, TurnsOf(results)),
         NEW B, NEW row \in RowsWith(B), OfTurn(row)
  PROVE  OutcomeAdvantage(row, canonical) = Centred(FirstScores[row.request], FirstScores)
<1> DEFINE i == row.request
           T == TurnsOf(results)
           first == {c \in 1 .. Len(canonical) : canonical[c].turn_idx = 0}
           anchors == KeptAt(canonical, first)
           scores == [a \in DOMAIN anchors |-> anchors[a].score]
           own == SelectLastInSeq(anchors, LAMBDA x : x.request = row.request)
<1>1. PICK key : /\ OfTurns(canonical, key, A) /\ Distinct(key) /\ Members(key) = T
  BY DEF OnceEach
<1>2. /\ canonical \in Seq(RowsWith(A)) /\ key \in Seq(T) /\ Len(canonical) = Len(key)
      /\ \A c \in 1 .. Len(key) : OfTurn(canonical[c]) /\ Turn(canonical[c]) = key[c]
  BY <1>1 DEF OfTurns
<1>3. \A c \in 1 .. Len(key) : key[c] \in T /\ (canonical[c].turn_idx = 0 <=> key[c][2] = 1)
  <2> SUFFICES ASSUME NEW c \in 1 .. Len(key)
               PROVE  key[c] \in T /\ (canonical[c].turn_idx = 0 <=> key[c][2] = 1)
    OBVIOUS
  <2> DEFINE x == canonical[c]
             t == key[c]
  <2>1. x \in RowsWith(A) /\ OfTurn(x) /\ t = Turn(x)
    BY <1>2, ElementOfSeq
  <2> HIDE DEF x, t
  <2>2. t \in T /\ x.turn_idx + 1 = t[2]
    BY <2>1, RowSays
  <2>3. x.turn_idx \in Nat
    BY <2>1 DEF RowsWith
  <2>4. x.turn_idx = 0 <=> t[2] = 1
    BY <2>2, <2>3
  <2> QED BY <2>2, <2>4 DEF x, t
<1>4. first \in SUBSET (1 .. Len(canonical)) /\ KeyedOnce(key, first)
  BY <1>1, <1>2 DEF Distinct, KeyedOnce
<1>5. KeysAt(key, first) = {t \in T : t[2] = 1}
  <2> HIDE DEF T
  <2>1. \A t \in T : \E c \in 1 .. Len(key) : key[c] = t
    BY <1>1 DEF Members
  <2>2. \A c \in 1 .. Len(key) : c \in first <=> key[c][2] = 1
    BY <1>2, <1>3
  <2>3. \A c \in first : c \in 1 .. Len(key)
    BY <1>2
  <2> HIDE DEF first
  <2>4. \A c \in first : key[c] \in T /\ key[c][2] = 1
    BY <1>3, <2>2, <2>3
  <2>5. ASSUME NEW t \in T, t[2] = 1 PROVE \E c \in first : key[c] = t
    <3>1. PICK c \in 1 .. Len(key) : key[c] = t
      BY <2>1
    <3>2. c \in first
      BY <2>2, <2>5, <3>1
    <3> QED BY <3>1, <3>2
  <2> QED BY <2>4, <2>5 DEF KeysAt
<1>6. PICK sub : OfTurns(anchors, sub, A) /\ Distinct(sub) /\ Members(sub) = {t \in T : t[2] = 1}
  <2> HIDE DEF first
  <2>1. OnceEach(KeptAt(canonical, first), A, KeysAt(key, first))
    BY <1>1, <1>4, KeptTurns
  <2> QED BY <1>5, <2>1 DEF OnceEach
<1>7. DOMAIN canonical = 1 .. Len(canonical)
  BY <1>2, LenProperties
<1>8. Kept(canonical, LAMBDA x : x.turn_idx = 0) = anchors
  <2>1. [c \in DOMAIN canonical |->
          IF canonical[c].turn_idx = 0 THEN << canonical[c] >> ELSE << >>]
        = [c \in 1 .. Len(canonical) |-> IF c \in first THEN << canonical[c] >> ELSE << >>]
    BY <1>7
  <2> QED BY <2>1 DEF Kept, KeptAt
<1> HIDE DEF first, anchors
<1>9. OutcomeAdvantage(row, canonical) = Centred(anchors[own].score, scores)
  BY <1>8 DEF OutcomeAdvantage
<1>10. /\ Len(scores) = Len(FirstScores) /\ SumSeq(scores) = SumSeq(FirstScores)
       /\ \A a \in 1 .. Len(anchors) : anchors[a].score = FirstScores[anchors[a].request]
  BY <1>6, SumOfScores
<1>11. own \in 1 .. Len(anchors) /\ anchors[own].request = i
  <2> DEFINE P == {p \in 1 .. Len(anchors) : anchors[p].request = i}
  <2>1. << i, 1 >> \in Members(sub)
    <3>1. i \in 1 .. Len(results)
      <4> DEFINE t == Turn(row)
      <4>1. row.request = t[1] /\ t[1] \in 1 .. Len(results)
        BY RowSays
      <4> QED BY <4>1
    <3>2. 1 \in 1 .. Len(results[i])
      BY <3>1, ElementOfSeq, EmptySeq, LenProperties
    <3>3. << i, 1 >> \in T
      BY <3>1, <3>2 DEF TurnsOf
    <3> HIDE DEF T
    <3> QED BY <1>6, <3>3
  <2>2. PICK p \in 1 .. Len(sub) : sub[p] = << i, 1 >>
    BY <2>1 DEF Members
  <2>3. Len(anchors) = Len(sub) /\ Len(anchors) \in Nat /\ Turn(anchors[p]) = sub[p]
    BY <1>6, LenProperties DEF OfTurns
  <2>4. anchors[p].request = i
    BY <2>2, <2>3 DEF Turn
  <2>5. p \in P /\ P \in SUBSET (1 .. Len(anchors))
    BY <2>3, <2>4
  <2>6. P # {} => own = Max(P)
    BY DEF SelectLastInSeq
  <2> HIDE DEF P
  <2>7. Max(P) \in P
    BY <2>3, <2>5, LastOfPositions
  <2>8. own \in P
    BY <2>5, <2>6, <2>7
  <2> QED BY <2>8 DEF P
<1>12. anchors[own].score = FirstScores[row.request]
  BY <1>10, <1>11
<1> HIDE DEF scores
<1>13. Centred(anchors[own].score, scores) = Centred(anchors[own].score, FirstScores)
  BY <1>10, CentredSame
<1> QED BY <1>9, <1>12, <1>13

(* Every advantage is the one its estimator defines.                       *)
LEMMA AdvantagesRight ==
  ASSUME results \in Seq(Seq(Int)), \A i \in 1 .. Len(results) : results[i] # << >>,
         Fits(rows), NEW r \in 1 .. Len(rows)
  PROVE  Advantage(rows[r], Canonical) = ReferenceAdvantage(rows[r], AllTurns, FirstScores)
<1> DEFINE B == {rows[q].adv : q \in 1 .. Len(rows)}
           row == rows[r]
           canonical == Canonical
<1>1. row \in RowsWith(B) /\ OfTurn(row)
  BY ElementOfSeq DEF Fits, Typed
<1> HIDE DEF B, row, canonical
<1>2. PICK A : OnceEach(canonical, A, TurnsOf(results))
  BY CanonicalTurns DEF canonical
<1> DEFINE res == results[row.request]
<1>3. ProcessAdvantage(row, canonical) =
        SumSeq([j \in 1 .. (Len(res) - row.turn_idx) |->
                 Centred(res[row.turn_idx + j], AllTurns)])
  BY <1>1, <1>2, ProcessRight
<1>4. OutcomeAdvantage(row, canonical) = Centred(FirstScores[row.request], FirstScores)
  BY <1>1, <1>2, OutcomeRight
<1>5. Advantage(row, canonical) = ReferenceAdvantage(row, AllTurns, FirstScores)
  BY <1>3, <1>4 DEF Advantage, ReferenceAdvantage
<1> QED BY <1>5 DEF row, canonical

(* The estimator looks at the turn of a row and at its score.              *)
LEMMA ReferenceOfTurn ==
  ASSUME NEW x, NEW y, x.request = y.request, x.turn_idx = y.turn_idx, x.score = y.score,
         NEW turns, NEW scores
  PROVE  ReferenceAdvantage(x, turns, scores) = ReferenceAdvantage(y, turns, scores)
BY DEF ReferenceAdvantage, PositiveAdvantage

-----------------------------------------------------------------------------
(* The rows the actor learns from.                                         *)

UsefulAt == {q \in 1 .. Len(rows) : estimator # "reinforce_plus_plus_pos" \/ rows[q].adv > 0}
Clamped ==
  estimator = "reinforce_plus_plus_pos" =>
    \A r \in 1 .. Len(rows) : rows[r].adv = PositiveAdvantage(rows[r])

(* filter_zero_advantage_trajectories keeps the rows with a positive       *)
(* advantage.                                                              *)
LEMMA UsefulRows ==
  ASSUME Fits(rows), Clamped
  PROVE  \E X : /\ Useful \in Seq(X)
                /\ Members(Useful) = {rows[q] : q \in UsefulAt}
<1> DEFINE A == {rows[q].adv : q \in 1 .. Len(rows)}
           X == RowsWith(A)
           n == Len(rows)
<1>1. rows \in Seq(X) /\ n \in Nat /\ DOMAIN rows = 1 .. n /\ \A r \in 1 .. n : rows[r] \in X
  BY LenProperties, ElementOfSeq DEF Fits, Typed
<1> HIDE DEF A
<1>2. CASE estimator # "reinforce_plus_plus_pos"
  <2>1. Useful = rows
    BY <1>2 DEF Useful
  <2>2. UsefulAt = 1 .. n
    BY <1>2 DEF UsefulAt
  <2>3. Members(rows) = {rows[q] : q \in UsefulAt}
    BY <2>2 DEF Members
  <2> QED BY <1>1, <2>1, <2>3
<1>3. CASE estimator = "reinforce_plus_plus_pos"
  <2>1. \A r \in 1 .. n : rows[r].adv # 0 <=> rows[r].adv > 0
    <3> SUFFICES ASSUME NEW r \in 1 .. n PROVE rows[r].adv # 0 <=> rows[r].adv > 0
      OBVIOUS
    <3> DEFINE s == rows[r].score
               a == rows[r].adv
    <3>1. s \in Int /\ CriticValue \in Int
      BY <1>1, BatchAssumption DEF RowsWith
    <3>2. a = IF s > CriticValue THEN s - CriticValue ELSE 0
      BY <1>3 DEF Clamped, PositiveAdvantage
    <3> HIDE DEF s, a
    <3>3. a # 0 <=> a > 0
      BY <3>1, <3>2
    <3> QED BY <3>3 DEF a
  <2>2. [i \in DOMAIN rows |-> IF rows[i].adv # 0 THEN << rows[i] >> ELSE << >>]
          = [i \in 1 .. n |-> IF i \in UsefulAt THEN << rows[i] >> ELSE << >>]
    BY <1>1, <1>3, <2>1 DEF UsefulAt
  <2>3. Useful = FlattenSeq([i \in DOMAIN rows |->
                              IF rows[i].adv # 0 THEN << rows[i] >> ELSE << >>])
    BY <1>3 DEF Useful, Kept
  <2>4. Useful = KeptAt(rows, UsefulAt)
    BY <2>2, <2>3 DEF KeptAt
  <2>5. UsefulAt \in SUBSET (1 .. n)
    BY DEF UsefulAt
  <2> HIDE DEF X
  <2> DEFINE all == rows
             at == UsefulAt
  <2>6. all \in Seq(X) /\ at \in SUBSET (1 .. Len(all))
    BY <1>1, <2>5
  <2> HIDE DEF all, at
  <2>7. PICK pos \in Seq(at) : Members(pos) = at /\ KeptAt(all, at) = Through(pos, all)
    BY <2>6, KeptPositions
  <2>8. Len(pos) \in Nat /\ \A i \in 1 .. Len(pos) : pos[i] \in at
    BY <2>7, LenProperties, ElementOfSeq
  <2>9. \A i \in 1 .. Len(pos) : all[pos[i]] \in X
    BY <1>1, <2>6, <2>8 DEF all
  <2> DEFINE kept == Through(pos, all)
  <2>10. kept \in Seq(X) /\ Len(kept) = Len(pos) /\ \A i \in 1 .. Len(pos) : kept[i] = all[pos[i]]
    <3> DEFINE m == Len(pos)
    <3>1. kept = [i \in 1 .. m |-> all[pos[i]]]
      BY DEF Through
    <3>2. kept \in [1 .. m -> X]
      BY <2>9, <3>1
    <3> HIDE DEF kept, m
    <3>3. kept \in Seq(X) /\ Len(kept) = m
      BY <2>8, <3>2, FunctionIsSeq DEF m
    <3> QED BY <3>1, <3>3 DEF m
  <2>11. Members(kept) = {all[q] : q \in at}
    <3>1. \A q \in at : \E i \in 1 .. Len(pos) : pos[i] = q
      BY <2>7 DEF Members
    <3>2. Members(kept) = {kept[i] : i \in 1 .. Len(pos)}
      BY <2>10 DEF Members
    <3> HIDE DEF kept
    <3> QED BY <2>8, <2>10, <3>1, <3>2
  <2>12. Useful = kept
    BY <2>4, <2>7 DEF all, at
  <2> QED BY <2>10, <2>11, <2>12 DEF all, at
<1> QED BY <1>2, <1>3

TurnNames(S) == {<< x.request, x.turn_idx >> : x \in S}

(* The turns of the padded batch are those of the useful rows.             *)
UsefulTurns(batch) ==
  /\ Len(batch) % WorldSize = 0
  /\ {<< batch[r].request, batch[r].turn_idx >> : r \in 1 .. Len(batch)} =
       {<< i, k - 1 >> : i \in 1 .. Len(results), k \in 1 .. MaxTurns} \cap
       {<< rows[r].request, rows[r].turn_idx >> : r \in UsefulAt}

LEMMA TrainedFits ==
  ASSUME Fits(rows), Clamped, ResultsFit,
         NEW batch, batch = IF Useful = << >> THEN << >> ELSE Padded(Useful, WorldSize)
  PROVE  UsefulTurns(batch)
<1>1. PICK X : Useful \in Seq(X) /\ Members(Useful) = {rows[q] : q \in UsefulAt}
  BY UsefulRows
<1> DEFINE u == Useful
<1>2. WorldSize \in Nat \ {0} /\ MaxTurns \in Nat
  BY BatchAssumption
<1> HIDE DEF u
<1>3. Len(batch) % WorldSize = 0 /\ Members(batch) = Members(u)
  <2>1. CASE u = << >>
    <3>1. batch = << >> /\ Len(batch) = 0
      BY <2>1 DEF u
    <3>2. 0 % WorldSize = 0
      BY <1>2
    <3> QED BY <2>1, <3>1, <3>2
  <2>2. CASE u # << >>
    <3>1. batch = Padded(u, WorldSize) /\ u \in Seq(X)
      BY <1>1, <2>2 DEF u
    <3>2. /\ Len(Padded(u, WorldSize)) = Len(u) + PadSize(Len(u), WorldSize)
          /\ Members(Padded(u, WorldSize)) = Members(u)
      BY <1>2, <2>2, <3>1, PaddedType
    <3>3. Len(u) \in Nat
      BY <3>1, LenProperties
    <3>4. (Len(u) + PadSize(Len(u), WorldSize)) % WorldSize = 0
      BY <1>2, <3>3, PadSizeFits
    <3> QED BY <3>1, <3>2, <3>4
  <2> QED BY <2>1, <2>2
<1>4. {<< batch[r].request, batch[r].turn_idx >> : r \in 1 .. Len(batch)} = TurnNames(Members(batch))
  BY DEF TurnNames, Members
<1>5. {<< rows[r].request, rows[r].turn_idx >> : r \in UsefulAt} = TurnNames(Members(u))
  <2>1. TurnNames(Members(u)) = TurnNames({rows[q] : q \in UsefulAt})
    BY <1>1 DEF u
  <2>2. TurnNames({rows[q] : q \in UsefulAt}) =
          {<< rows[r].request, rows[r].turn_idx >> : r \in UsefulAt}
    BY DEF TurnNames
  <2> QED BY <2>1, <2>2
<1>6. ASSUME NEW r \in UsefulAt
      PROVE  \E i \in 1 .. Len(results), k \in 1 .. MaxTurns :
               << rows[r].request, rows[r].turn_idx >> = << i, k - 1 >>
  <2> DEFINE row == rows[r]
             A == {rows[q].adv : q \in 1 .. Len(rows)}
             t == Turn(row)
  <2>1. row \in RowsWith(A) /\ OfTurn(row)
    BY ElementOfSeq DEF Fits, Typed, UsefulAt
  <2> HIDE DEF row, A
  <2>2. /\ row.request = t[1] /\ row.turn_idx = t[2] - 1
        /\ t[1] \in 1 .. Len(results) /\ t[2] \in 1 .. Len(results[t[1]])
    BY <2>1, RowSays
  <2> HIDE DEF t
  <2>3. Len(results[t[1]]) \in Nat /\ Len(results[t[1]]) <= MaxTurns
    BY <2>2, ElementOfSeq, LenProperties DEF ResultsFit
  <2>4. t[2] \in 1 .. MaxTurns
    BY <1>2, <2>2, <2>3
  <2>5. << row.request, row.turn_idx >> = << t[1], t[2] - 1 >>
    BY <2>2
  <2> QED BY <2>2, <2>4, <2>5 DEF row
<1>7. {<< rows[r].request, rows[r].turn_idx >> : r \in UsefulAt} \subseteq
        {<< i, k - 1 >> : i \in 1 .. Len(results), k \in 1 .. MaxTurns}
  BY <1>6
<1> QED BY <1>3, <1>4, <1>5, <1>7 DEF UsefulTurns

-----------------------------------------------------------------------------
(* The invariant.                                                          *)

(* From the expansion on, the rows are those of the turns: this is what    *)
(* every property rests on, and each step hands it on.                     *)
IInv ==
  /\ mode \in {"train", "validate"}
  /\ pc # "start" => ResultsFit
  /\ pc \notin {"start", "raised"} => Len(results) % Workers = 0
  /\ pc \notin {"start", "rollout", "raised"} =>
       \A i \in 1 .. Len(results) : results[i] # << >>
  /\ pc = "collected" => rows = Unpadded(Collected)
  /\ pc \in Labelled => Fits(rows)
  /\ pc \in {"expanded", "validated"} => NoCopies(rows)
  /\ AdvantageOfRollout
  /\ ActorBatchIsUseful

(* What a batch is fit for depends on the results and on the mode.         *)
LEMMA FitsStays ==
  ASSUME UNCHANGED << mode, results >>, NEW batch, Fits(batch), rows' = batch
  PROVE  Fits(rows)'
<1>1. results' = results /\ Requests' = Requests
  BY DEF Requests
<1>2. Typed(rows)'
  BY DEF Fits, Typed
<1>3. (\A r \in 1 .. Len(rows) : OfTurn(rows[r]))'
  <2>1. \A r \in 1 .. Len(batch) : OfTurn(batch[r])
    BY DEF Fits
  <2> QED BY <1>1, <2>1 DEF OfTurn
<1>4. (\A t \in TurnsOf(results) :
         \E r \in 1 .. Len(rows) : ~ rows[r].padding /\ Turn(rows[r]) = t)'
  BY <1>1 DEF Fits
<1>5. (\A r, q \in 1 .. Len(rows) :
         ~ rows[r].padding /\ ~ rows[q].padding /\ Turn(rows[r]) = Turn(rows[q]) => r = q)'
  BY DEF Fits
<1>6. (rows # << >>)'
  BY DEF Fits
<1> QED BY <1>2, <1>3, <1>4, <1>5, <1>6 DEF Fits

(* Every request has a prompt.                                             *)
LEMMA RequestsType == Requests \in Seq(Int)
<1> DEFINE n == Prompts * Repeats
<1>1. n \in Nat \ {0} /\ Workers \in Nat \ {0}
  BY BatchAssumption
<1>2. Repeated \in Seq(Int) /\ Len(Repeated) = n
  <2>1. \A i \in 1 .. n : ((i - 1) \div Repeats) + 1 \in Int
    BY BatchAssumption, <1>1
  <2>2. Repeated \in [1 .. n -> Int]
    BY <2>1 DEF Repeated
  <2> HIDE DEF n
  <2> QED BY <1>1, <2>2, FunctionIsSeq
<1>3. Repeated # << >>
  BY <1>1, <1>2
<1>4. Padded(Repeated, Workers) \in Seq(Int)
  BY <1>1, <1>2, <1>3, PaddedType
<1>5. Requests = IF mode = "validate" THEN Padded(Repeated, Workers) ELSE Repeated
  BY DEF Requests, Repeated
<1> QED BY <1>2, <1>4, <1>5

(* Initially nothing is known of rows.                                     *)
LEMMA InitIInv == Init => IInv
<1> SUFFICES ASSUME Init PROVE IInv
  OBVIOUS
<1>1. mode \in {"train", "validate"} /\ pc = "start"
  BY BatchAssumption DEF Init
<1> QED BY <1>1 DEF IInv, Labelled, AdvantageOfRollout, ActorBatchIsUseful

(* The requests get their places.                                          *)
LEMMA DispatchKeeps == IInv /\ Dispatch => IInv'
<1> SUFFICES ASSUME IInv, Dispatch PROVE IInv'
  OBVIOUS
<1> DEFINE n == Len(Requests)
<1>1. n \in Nat
  BY RequestsType, LenProperties
<1>2. Requests' = Requests /\ mode' = mode /\ mode \in {"train", "validate"}
  BY DEF Dispatch, Requests, IInv
<1>3. results' = [i \in 1 .. n |-> << >>]
  BY DEF Dispatch
<1>4. pc' \in {"rollout", "raised"} /\ (pc' = "rollout" => n % Workers = 0)
  BY DEF Dispatch
<1> HIDE DEF n
<1>5. results' \in Seq(Seq(Int)) /\ Len(results') = n
  <2> DEFINE Y == Seq(Int)
  <2>1. << >> \in Y
    BY EmptySeq
  <2> HIDE DEF Y
  <2>2. results' \in [1 .. n -> Y]
    BY <1>3, <2>1
  <2>3. results' \in Seq(Y) /\ Len(results') = n
    BY <1>1, <2>2, FunctionIsSeq
  <2> QED BY <2>3 DEF Y
<1>6. \A i \in 1 .. n : Len(results'[i]) <= MaxTurns
  <2>1. Len(<< >>) = 0 /\ MaxTurns \in Nat
    BY BatchAssumption
  <2> QED BY <1>3, <2>1
<1>7. ResultsFit'
  BY <1>2, <1>5, <1>6 DEF ResultsFit, n
<1>8. (Len(results) % Workers = 0)' \/ pc' = "raised"
  BY <1>4, <1>5
<1> QED BY <1>2, <1>4, <1>7, <1>8 DEF IInv, Labelled, AdvantageOfRollout, ActorBatchIsUseful

(* A rollout that ends has at most MaxTurns rewards.                       *)
LEMMA FinishRolloutKeeps ==
  ASSUME IInv, NEW i \in 1 .. Len(results), NEW n \in 1 .. MaxTurns,
         NEW rewards \in [1 .. n -> Rewards], FinishRollout(i, rewards)
  PROVE  IInv'
<1>1. /\ mode \in {"train", "validate"} /\ mode' = mode /\ pc = "rollout" /\ pc' = "rollout"
      /\ ResultsFit /\ Len(results) % Workers = 0 /\ Requests' = Requests
  BY DEF FinishRollout, IInv, Requests
<1>2. results' = [results EXCEPT ![i] = rewards]
  BY DEF FinishRollout
<1>3. n \in Nat /\ n <= MaxTurns
  BY BatchAssumption
<1>4. rewards \in Seq(Int) /\ Len(rewards) = n
  <2>1. rewards \in [1 .. n -> Int]
    BY BatchAssumption
  <2> QED BY <1>3, <2>1, FunctionIsSeq
<1>5. results \in Seq(Seq(Int)) /\ Len(results) \in Nat
  BY <1>1, LenProperties DEF ResultsFit
<1>6. results' \in Seq(Seq(Int)) /\ Len(results') = Len(results)
  <2> DEFINE Y == Seq(Int)
             m == Len(results)
  <2>1. rewards \in Y /\ m \in Nat /\ results \in [1 .. m -> Y] /\ i \in 1 .. m
    BY <1>4, <1>5, LenProperties
  <2> HIDE DEF Y, m
  <2>2. results' \in [1 .. m -> Y]
    BY <1>2, <2>1
  <2>3. results' \in Seq(Y) /\ Len(results') = m
    BY <2>1, <2>2, FunctionIsSeq
  <2> QED BY <2>3 DEF Y, m
<1>7. \A j \in 1 .. Len(results) : Len(results'[j]) <= MaxTurns
  <2> SUFFICES ASSUME NEW j \in 1 .. Len(results) PROVE Len(results'[j]) <= MaxTurns
    OBVIOUS
  <2>1. CASE j = i
    BY <1>2, <1>3, <1>4, <1>5, <2>1, LenProperties
  <2>2. CASE j # i
    BY <1>1, <1>2, <1>5, <2>2, LenProperties DEF ResultsFit
  <2> QED BY <2>1, <2>2
<1>8. ResultsFit'
  BY <1>1, <1>6, <1>7 DEF ResultsFit
<1>9. (Len(results) % Workers = 0)'
  BY <1>1, <1>6
<1> QED BY <1>1, <1>8, <1>9 DEF IInv, Labelled, AdvantageOfRollout, ActorBatchIsUseful

(* All rollouts have ended.                                                *)
LEMMA CollectKeeps == IInv /\ Collect => IInv'
<1> SUFFICES ASSUME IInv, Collect PROVE IInv'
  OBVIOUS
<1>1. /\ mode \in {"train", "validate"} /\ mode' = mode /\ pc = "rollout" /\ pc' = "collected"
      /\ ResultsFit /\ Len(results) % Workers = 0 /\ results' = results
      /\ \A i \in 1 .. Len(results) : results[i] # << >>
  BY DEF Collect, IInv
<1>2. ResultsFit'
  BY <1>1 DEF ResultsFit, Requests
<1>3. (rows = Unpadded(Collected))'
  <2>1. rows' = Unpadded(Collected)
    BY DEF Collect
  <2>2. Collected' = Collected
    BY <1>1 DEF Collected, WorkerRows, RowsOf, Row, PerWorker
  <2> QED BY <1>1, <2>1, <2>2 DEF Unpadded
<1> QED BY <1>1, <1>2, <1>3 DEF IInv, Labelled, AdvantageOfRollout, ActorBatchIsUseful

(* From here on the rows are those of the turns.                           *)
LEMMA ExpandKeeps == IInv /\ Expand => IInv'
<1> SUFFICES ASSUME IInv, Expand PROVE IInv'
  OBVIOUS
<1>1. /\ mode \in {"train", "validate"} /\ mode' = mode /\ pc = "collected"
      /\ ResultsFit /\ Len(results) % Workers = 0 /\ results' = results
      /\ \A i \in 1 .. Len(results) : results[i] # << >>
      /\ rows = Unpadded(Collected)
  BY DEF Expand, IInv
<1>2. ResultsFit'
  BY <1>1 DEF ResultsFit, Requests
<1>3. CASE Len(RepeatTimes) = Len(Repeated) /\ Len(Expanded) = Len(rows)
  <2> DEFINE batch == [r \in 1 .. Len(rows) |-> [rows[r] EXCEPT !.uid = Expanded[r]]]
  <2>1. rows' = batch /\ pc' \in {"validated", "expanded"}
    BY <1>3 DEF Expand
  <2>2. Fits(batch) /\ NoCopies(batch)
    BY <1>1, <1>3, ExpandFits
  <2> HIDE DEF batch
  <2>3. Fits(rows)'
    BY <1>1, <2>1, <2>2, FitsStays
  <2>4. NoCopies(rows)'
    BY <2>1, <2>2 DEF NoCopies
  <2> QED BY <1>1, <1>2, <2>1, <2>3, <2>4 DEF IInv, AdvantageOfRollout, ActorBatchIsUseful
<1>4. CASE ~ (Len(RepeatTimes) = Len(Repeated) /\ Len(Expanded) = Len(rows))
  <2>1. pc' = "raised"
    BY <1>4 DEF Expand
  <2> QED BY <1>1, <1>2, <2>1 DEF IInv, Labelled, AdvantageOfRollout, ActorBatchIsUseful
<1> QED BY <1>3, <1>4

(* The copies are marked.                                                  *)
LEMMA PadKeeps == IInv /\ Pad => IInv'
<1> SUFFICES ASSUME IInv, Pad PROVE IInv'
  OBVIOUS
<1>1. /\ mode \in {"train", "validate"} /\ mode' = mode /\ pc = "expanded" /\ pc' = "padded"
      /\ ResultsFit /\ Len(results) % Workers = 0 /\ results' = results
      /\ \A i \in 1 .. Len(results) : results[i] # << >>
      /\ Fits(rows) /\ NoCopies(rows)
  BY DEF Pad, IInv, Labelled
<1>2. ResultsFit'
  BY <1>1 DEF ResultsFit, Requests
<1> DEFINE batch == [r \in 1 .. Len(Padded(rows, Workers)) |->
                      [Padded(rows, Workers)[r] EXCEPT !.padding = r > Len(rows)]]
<1>3. rows' = batch
  BY DEF Pad
<1>4. Fits(batch)
  BY <1>1, PadFits
<1> HIDE DEF batch
<1>5. Fits(rows)'
  BY <1>1, <1>3, <1>4, FitsStays
<1> QED BY <1>1, <1>2, <1>5 DEF IInv, AdvantageOfRollout, ActorBatchIsUseful

(* The order changes, or the parts would not be equal.                     *)
LEMMA BalanceKeeps ==
  ASSUME IInv, NEW order \in Orders(Len(rows)), Balance(order)
  PROVE  IInv'
<1>1. /\ mode \in {"train", "validate"} /\ mode' = mode /\ pc = "padded"
      /\ ResultsFit /\ Len(results) % Workers = 0 /\ results' = results
      /\ \A i \in 1 .. Len(results) : results[i] # << >>
      /\ Fits(rows)
  BY DEF Balance, IInv, Labelled
<1>2. ResultsFit'
  BY <1>1 DEF ResultsFit, Requests
<1>3. CASE Len(rows) % WorldSize = 0
  <2> DEFINE batch == [r \in 1 .. Len(rows) |-> rows[order[r]]]
  <2>1. rows' = batch /\ pc' = "balanced"
    BY <1>3 DEF Balance
  <2>2. Fits(batch)
    BY <1>1, BalanceFits
  <2> HIDE DEF batch
  <2>3. Fits(rows)'
    BY <1>1, <2>1, <2>2, FitsStays
  <2> QED BY <1>1, <1>2, <2>1, <2>3 DEF IInv, AdvantageOfRollout, ActorBatchIsUseful
<1>4. CASE Len(rows) % WorldSize # 0
  <2>1. pc' = "raised"
    BY <1>4 DEF Balance
  <2> QED BY <1>1, <1>2, <2>1 DEF IInv, Labelled, AdvantageOfRollout, ActorBatchIsUseful
<1> QED BY <1>3, <1>4

(* Each row gets its advantage.                                            *)
LEMMA ComputeAdvantageKeeps == IInv /\ ComputeAdvantage => IInv'
<1> SUFFICES ASSUME IInv, ComputeAdvantage PROVE IInv'
  OBVIOUS
<1>1. /\ mode \in {"train", "validate"} /\ mode' = mode /\ pc = "balanced" /\ pc' = "advantage"
      /\ ResultsFit /\ Len(results) % Workers = 0 /\ results' = results
      /\ estimator' = estimator
      /\ \A i \in 1 .. Len(results) : results[i] # << >>
      /\ Fits(rows)
  BY DEF ComputeAdvantage, IInv, Labelled
<1>2. ResultsFit'
  BY <1>1 DEF ResultsFit, Requests
<1> DEFINE n == Len(rows)
           h == [r \in 1 .. n |-> Advantage(rows[r], Canonical)]
           batch == [r \in 1 .. n |-> [rows[r] EXCEPT !.adv = h[r]]]
           turns == AllTurns
           scores == FirstScores
           A == {rows[q].adv : q \in 1 .. n}
<1>3. rows' = batch
  BY DEF ComputeAdvantage
<1>4. \A r \in 1 .. n : h[r] = ReferenceAdvantage(rows[r], turns, scores)
  BY <1>1, AdvantagesRight DEF ResultsFit
<1>5. \A r \in 1 .. n : rows[r] \in RowsWith(A)
  BY <1>1, ElementOfSeq DEF Fits, Typed
<1> HIDE DEF h, A
<1>6. Fits(batch) /\ Len(batch) = n /\ \A r \in 1 .. n : batch[r].adv = h[r]
  BY <1>1, AdvantageFits
<1>7. \A r \in 1 .. n : ReferenceAdvantage(batch[r], turns, scores) = h[r]
  <2> HIDE DEF turns, scores
  <2> SUFFICES ASSUME NEW r \in 1 .. n
               PROVE  ReferenceAdvantage(batch[r], turns, scores) = h[r]
    OBVIOUS
  <2> DEFINE x == batch[r]
             y == rows[r]
             a == h[r]
  <2>1. y \in RowsWith(A) /\ x = [y EXCEPT !.adv = a]
    BY <1>5
  <2> HIDE DEF x, y, a
  <2>2. x.request = y.request /\ x.turn_idx = y.turn_idx /\ x.score = y.score
    BY <2>1 DEF RowsWith
  <2>3. ReferenceAdvantage(x, turns, scores) = ReferenceAdvantage(y, turns, scores)
    BY <2>2, ReferenceOfTurn
  <2>4. a = ReferenceAdvantage(y, turns, scores)
    BY <1>4 DEF a, y
  <2> QED BY <2>3, <2>4 DEF x, a
<1> HIDE DEF batch, n
<1>8. Fits(rows)'
  BY <1>1, <1>3, <1>6, FitsStays
<1>9. turns = AllTurns' /\ scores = FirstScores'
  BY <1>1 DEF AllTurns, FirstScores
<1> HIDE DEF turns, scores
<1>10. \A r \in 1 .. n : rows'[r].adv = ReferenceAdvantage(rows'[r], turns, scores)
  BY <1>3, <1>6, <1>7
<1>11. AdvantageOfRollout'
  <2>1. Len(rows') = n
    BY <1>3, <1>6
  <2>2. \A r \in 1 .. Len(rows') :
          rows'[r].adv = ReferenceAdvantage(rows'[r], AllTurns', FirstScores')
    BY <1>9, <1>10, <2>1
  <2>3. ASSUME NEW r \in 1 .. Len(rows')
        PROVE  (rows[r].adv)' = ReferenceAdvantage(rows[r], AllTurns, FirstScores)'
    <3>1. rows'[r].adv = ReferenceAdvantage(rows'[r], AllTurns', FirstScores')
      BY <2>2
    <3> QED BY <1>1, <3>1 DEF ReferenceAdvantage
  <2> QED BY <2>3 DEF AdvantageOfRollout
<1> QED BY <1>1, <1>2, <1>8, <1>11 DEF IInv, ActorBatchIsUseful

(* Advantages stay right as long as the rows do not change.                *)
LEMMA AdvantageStays ==
  ASSUME UNCHANGED << estimator, results, rows >>, AdvantageOfRollout,
         pc' \in {"advantage", "updated"} => pc \in {"advantage", "updated"}
  PROVE  AdvantageOfRollout'
<1> SUFFICES ASSUME pc' \in {"advantage", "updated"} PROVE AdvantageOfRollout'
  BY DEF AdvantageOfRollout
<1>1. AllTurns' = AllTurns /\ FirstScores' = FirstScores
  BY DEF AllTurns, FirstScores
<1> DEFINE turns == AllTurns
           scores == FirstScores
<1>2. \A r \in 1 .. Len(rows) : rows[r].adv = ReferenceAdvantage(rows[r], turns, scores)
  BY DEF AdvantageOfRollout
<1>3. turns = AllTurns' /\ scores = FirstScores'
  BY <1>1
<1> HIDE DEF turns, scores
<1>4. ASSUME NEW r \in 1 .. Len(rows')
      PROVE  (rows[r].adv)' = ReferenceAdvantage(rows[r], AllTurns, FirstScores)'
  <2>1. rows[r].adv = ReferenceAdvantage(rows[r], turns, scores)
    BY <1>2
  <2> QED BY <1>3, <2>1 DEF ReferenceAdvantage, PositiveAdvantage
<1> QED BY <1>4 DEF AdvantageOfRollout

(* The actor gets the useful rows.                                         *)
LEMMA UpdateActorKeeps == IInv /\ UpdateActor => IInv'
<1> SUFFICES ASSUME IInv, UpdateActor PROVE IInv'
  OBVIOUS
<1>1. /\ mode \in {"train", "validate"} /\ mode' = mode /\ pc = "advantage" /\ pc' = "updated"
      /\ ResultsFit /\ Len(results) % Workers = 0 /\ results' = results
      /\ estimator' = estimator /\ rows' = rows
      /\ \A i \in 1 .. Len(results) : results[i] # << >>
      /\ Fits(rows) /\ AdvantageOfRollout
  BY DEF UpdateActor, IInv, Labelled
<1>2. ResultsFit'
  BY <1>1 DEF ResultsFit, Requests
<1>3. Fits(rows)'
  BY <1>1, FitsStays
<1>4. AdvantageOfRollout'
  BY <1>1, AdvantageStays
<1>5. Clamped
  BY <1>1 DEF Clamped, AdvantageOfRollout, ReferenceAdvantage
<1> DEFINE batch == IF Useful = << >> THEN << >> ELSE Padded(Useful, WorldSize)
<1>6. trained' = batch
  BY DEF UpdateActor
<1>7. UsefulTurns(batch)
  BY <1>1, <1>5, TrainedFits
<1> HIDE DEF batch
<1>8. ActorBatchIsUseful'
  <2>1. UsefulAt = {q \in 1 .. Len(rows') : estimator' # "reinforce_plus_plus_pos"
                                            \/ rows'[q].adv > 0}
    BY <1>1 DEF UsefulAt
  <2> QED BY <1>1, <1>6, <1>7, <2>1 DEF ActorBatchIsUseful, UsefulTurns
<1> QED BY <1>1, <1>2, <1>3, <1>4, <1>8 DEF IInv

(* Nothing changes.                                                        *)
LEMMA StutterKeeps == IInv /\ UNCHANGED vars => IInv'
<1> SUFFICES ASSUME IInv, UNCHANGED vars PROVE IInv'
  OBVIOUS
<1>1. /\ mode' = mode /\ estimator' = estimator /\ pc' = pc /\ results' = results
      /\ rows' = rows /\ trained' = trained
  BY DEF vars
<1>2. ResultsFit => ResultsFit'
  BY <1>1 DEF ResultsFit, Requests
<1>3. (rows = Unpadded(Collected)) => (rows = Unpadded(Collected))'
  <2>1. Collected' = Collected
    BY <1>1 DEF Collected, WorkerRows, RowsOf, Row, PerWorker
  <2> QED BY <1>1, <2>1 DEF Unpadded
<1>4. Fits(rows) => Fits(rows)'
  BY <1>1, FitsStays
<1>5. NoCopies(rows) => NoCopies(rows)'
  BY <1>1 DEF NoCopies
<1>6. AdvantageOfRollout'
  BY <1>1, AdvantageStays DEF IInv
<1>7. ActorBatchIsUseful'
  <2> SUFFICES ASSUME pc' = "updated" PROVE ActorBatchIsUseful'
    BY DEF ActorBatchIsUseful
  <2> DEFINE got == {<< trained[r].request, trained[r].turn_idx >> : r \in 1 .. Len(trained)}
             turns == {<< i, k - 1 >> : i \in 1 .. Len(results), k \in 1 .. MaxTurns}
             useful == {<< rows[r].request, rows[r].turn_idx >> :
                          r \in {q \in 1 .. Len(rows) : estimator # "reinforce_plus_plus_pos"
                                                          \/ rows[q].adv > 0}}
  <2>1. Len(trained) % WorldSize = 0 /\ got = turns \cap useful
    <3>1. ActorBatchIsUseful
      BY DEF IInv
    <3>2. pc = "updated"
      BY <1>1
    <3> QED BY <3>1, <3>2 DEF ActorBatchIsUseful
  <2>2. got' = got
    BY <1>1
  <2>3. turns' = turns
    BY <1>1
  <2>4. useful' = useful
    BY <1>1
  <2>5. (Len(trained) % WorldSize = 0)'
    BY <1>1, <2>1
  <2> HIDE DEF got, turns, useful
  <2>6. got' = turns' \cap useful'
    BY <2>1, <2>2, <2>3, <2>4
  <2> QED BY <2>5, <2>6 DEF ActorBatchIsUseful, got, turns, useful
<1> QED BY <1>1, <1>2, <1>3, <1>4, <1>5, <1>6, <1>7 DEF IInv, Labelled

(* Every step keeps the invariant.                                         *)
LEMMA NextKeeps == IInv /\ [Next]_vars => IInv'
<1> SUFFICES ASSUME IInv, [Next]_vars PROVE IInv'
  OBVIOUS
<1>1. CASE Dispatch
  BY <1>1, DispatchKeeps
<1>2. CASE pc = "rollout" /\ \E i \in 1 .. Len(results) :
             \E n \in 1 .. MaxTurns : \E rewards \in [1 .. n -> Rewards] : FinishRollout(i, rewards)
  BY <1>2, FinishRolloutKeeps
<1>3. CASE Collect
  BY <1>3, CollectKeeps
<1>4. CASE Expand
  BY <1>4, ExpandKeeps
<1>5. CASE Pad
  BY <1>5, PadKeeps
<1>6. CASE pc = "padded" /\ \E order \in Orders(Len(rows)) : Balance(order)
  BY <1>6, BalanceKeeps
<1>7. CASE ComputeAdvantage
  BY <1>7, ComputeAdvantageKeeps
<1>8. CASE UpdateActor
  BY <1>8, UpdateActorKeeps
<1>9. CASE UNCHANGED vars
  BY <1>9, StutterKeeps
<1> QED BY <1>1, <1>2, <1>3, <1>4, <1>5, <1>6, <1>7, <1>8, <1>9 DEF Next, Done

(* So it always holds.                                                     *)
LEMMA Invariance == Spec => []IInv
BY InitIInv, NextKeeps, PTL DEF Spec

(* Rows carry the prompt and the reward of the rollout they came from,     *)
(* although sample_level_repeat only has counts to tie them to it.         *)
THEOREM PromptsKept == Spec => []RowsKeepTheirPrompt
<1>1. IInv => RowsKeepTheirPrompt
  BY DEF IInv, RowsKeepTheirPrompt, Fits, OfTurn
<1> QED BY <1>1, Invariance, PTL

(* Padding and balancing keep one genuine row of every turn.               *)
THEOREM TurnsKept == Spec => []EveryTurnOnce
<1>1. IInv => EveryTurnOnce
  <2> SUFFICES ASSUME Fits(rows), ResultsFit,
                      NEW i \in 1 .. Len(results), NEW k \in 1 .. Len(results[i])
               PROVE  Cardinality({r \in 1 .. Len(rows) : /\ rows[r].request = i
                                                          /\ rows[r].turn_idx = k - 1
                                                          /\ ~ rows[r].padding}) = 1
    BY DEF IInv, EveryTurnOnce, Labelled
  <2> DEFINE A == {rows[q].adv : q \in 1 .. Len(rows)}
  <2>1. k \in Nat
    BY ElementOfSeq, LenProperties DEF ResultsFit
  <2>2. << i, k >> \in TurnsOf(results)
    BY <2>1 DEF TurnsOf
  <2>3. PICK r \in 1 .. Len(rows) : ~ rows[r].padding /\ Turn(rows[r]) = << i, k >>
    BY <2>2 DEF Fits
  <2>4. \A q \in 1 .. Len(rows) : rows[q].turn_idx \in Nat
    <3>1. \A q \in 1 .. Len(rows) : rows[q] \in RowsWith(A)
      BY ElementOfSeq DEF Fits, Typed
    <3> QED BY <3>1 DEF RowsWith
  <2>5. \A q \in 1 .. Len(rows) :
          (rows[q].request = i /\ rows[q].turn_idx = k - 1) <=> Turn(rows[q]) = << i, k >>
    BY <2>1, <2>4 DEF Turn
  <2>6. \A q \in 1 .. Len(rows) :
          ~ rows[q].padding /\ Turn(rows[q]) = << i, k >> <=> q = r
    BY <2>3 DEF Fits
  <2>7. {q \in 1 .. Len(rows) : /\ rows[q].request = i
                                /\ rows[q].turn_idx = k - 1
                                /\ ~ rows[q].padding} = {r}
    BY <2>5, <2>6
  <2> QED BY <2>7, FS_Singleton
<1> QED BY <1>1, Invariance, PTL

(* Every estimator gives each row the advantage its definition computes    *)
(* from the rollouts, whatever the order of the rows and their copies.     *)
THEOREM AdvantagesKept == Spec => []AdvantageOfRollout
BY Invariance, PTL DEF IInv

(* The actor learns from the turns whose advantage is not clamped away, in *)
(* equal shares.                                                           *)
THEOREM ActorGetsUseful == Spec => []ActorBatchIsUseful
BY Invariance, PTL DEF IInv

=============================================================================
