------------------------ MODULE BatchAlgorithmsProofs ------------------------
(***************************************************************************)
(* What is proved of BatchAlgorithms: that rows stay whole, levels keep    *)
(* their chance, parts are exact, estimates match what they define, and a  *)
(* log-probability is that of the next token, for any batches, meshes,     *)
(* levels, lengths, rewards, micro-batches, ranks and heads.               *)
(*                                                                         *)
(* The first part says what sums and products over finite sets are, which  *)
(* the community modules define by a fold that CHOOSE starts anywhere:     *)
(* any member may come first.  The second follows the rows of a batch: a   *)
(* batch is cut into chunks, the chunks are answered by the ranks, and the *)
(* answers of the ranks that are collected make up the batch again.  The   *)
(* third bounds the weight of a level from below and from above, the       *)
(* fourth draws on SeqlenBalancingProofs for the parts.  The fifth follows *)
(* the backward recursions of the estimators from token to token, and what *)
(* cancels in a group.  The last follows a token through the forward pass: *)
(* joined, padded, cut among the ranks, exchanged for heads and back, and  *)
(* put at its place again.                                                 *)
(***************************************************************************)
EXTENDS BatchAlgorithms, SeqlenBalancingProofs

-----------------------------------------------------------------------------
(* Sums and products over finite sets.                                     *)

Plus  == [a \in Int |-> [b \in Int |-> a + b]]
Times == [a \in Int |-> [b \in Int |-> a * b]]
Commutes(op) ==
  /\ op \in [Int -> [Int -> Int]]
  /\ \A a, b, c \in Int : op[a][op[b][c]] = op[b][op[a][c]]
(* h folds f over every subset of S, whichever member comes first.         *)
Folds(h, op, base, f, S) ==
  /\ h \in [SUBSET S -> Int]
  /\ h[{}] = base
  /\ \A s \in SUBSET S : \A x \in s : h[s] = op[f[x]][h[s \ {x}]]

LEMMA PlusCommutes == Commutes(Plus) /\ \A a, b \in Int : Plus[a][b] = a + b
BY DEF Plus, Commutes

LEMMA TimesCommutes == Commutes(Times) /\ \A a, b \in Int : Times[a][b] = a * b
<1>1. \A a, b \in Int : a * b \in Int /\ Times[a][b] = a * b
  BY DEF Times
<1>2. \A a, b, c \in Int : a * (b * c) = b * (a * c)
  OBVIOUS
<1>3. Times \in [Int -> [Int -> Int]]
  BY DEF Times
<1>4. \A a, b, c \in Int : Times[a][Times[b][c]] = Times[b][Times[a][c]]
  <2> SUFFICES ASSUME NEW a \in Int, NEW b \in Int, NEW c \in Int
               PROVE  Times[a][Times[b][c]] = Times[b][Times[a][c]]
    OBVIOUS
  <2>1. Times[b][c] = b * c /\ Times[a][c] = a * c /\ b * c \in Int /\ a * c \in Int
    BY <1>1
  <2>2. Times[a][b * c] = a * (b * c) /\ Times[b][a * c] = b * (a * c)
    BY <1>1, <2>1
  <2> QED BY <1>2, <2>1, <2>2
<1> QED BY <1>1, <1>3, <1>4, Zenon DEF Commutes

(* Sets without one of their members.                                      *)
LEMMA OneLess ==
  ASSUME NEW S, IsFiniteSet(S), NEW s \in SUBSET S
  PROVE  /\ Cardinality(s) \in 0 .. Cardinality(S)
         /\ Cardinality(s) = 0 <=> s = {}
         /\ \A x \in s : s \ {x} \in SUBSET S /\ Cardinality(s \ {x}) = Cardinality(s) - 1
<1>1. IsFiniteSet(s) /\ Cardinality(s) <= Cardinality(S) /\ Cardinality(S) \in Nat
      /\ Cardinality(s) \in Nat
  BY FS_Subset, FS_CardinalityType
<1>2. \A x \in s : Cardinality(s \ {x}) = Cardinality(s) - 1
  BY <1>1, FS_RemoveElement
<1>3. Cardinality(s) = 0 <=> s = {}
  BY <1>1, FS_EmptySet
<1> QED BY <1>1, <1>2, <1>3

FirstOne(s) == CHOOSE x \in s : TRUE

(* There is such a function, because the order of the members does not     *)
(* matter.                                                                 *)
LEMMA FoldsExist ==
  ASSUME NEW S, IsFiniteSet(S), NEW f, \A x \in S : f[x] \in Int,
         NEW op, Commutes(op), NEW base \in Int
  PROVE  \E h : Folds(h, op, base, f, S)
<1> DEFINE n == Cardinality(S)
           T == [SUBSET S -> Int]
           Next1(h) == [s \in SUBSET S |->
                         IF s = {} THEN base
                         ELSE op[f[FirstOne(s)]][h[s \ {FirstOne(s)}]]]
           G == [k \in 1 .. n |-> [h \in T |-> Next1(h)]]
           start == [s \in SUBSET S |-> base]
<1>1. n \in Nat
  BY FS_CardinalityType
<1>2. \A s \in SUBSET S : s # {} => FirstOne(s) \in s
  BY Zenon DEF FirstOne
<1>3. ASSUME NEW h \in T PROVE Next1(h) \in T
  <2>1. ASSUME NEW s \in SUBSET S, s # {}
        PROVE  op[f[FirstOne(s)]][h[s \ {FirstOne(s)}]] \in Int
    <3> DEFINE x == FirstOne(s)
    <3>1. f[x] \in Int /\ s \ {x} \in SUBSET S
      BY <1>2, <2>1
    <3>2. h[s \ {x}] \in Int
      BY <1>3, <3>1
    <3>3. \A a, b \in Int : op[a][b] \in Int
      BY DEF Commutes
    <3> QED BY <3>1, <3>2, <3>3, Zenon
  <2> QED BY <2>1
<1>4. Steps(T, n, G) /\ start \in T
  BY <1>1, <1>3 DEF Steps
<1>5. \A k \in 1 .. n, h \in T : G[k][h] = Next1(h)
  OBVIOUS
<1> HIDE DEF G, T
<1>6. PICK c : Follows(c, start, T, n, G)
  BY <1>4, Recursion, Zenon
<1>7. /\ c \in [0 .. n -> T] /\ c[0] = start
      /\ \A k \in 1 .. n : c[k] = Next1(c[k - 1])
  <2>1. c \in [0 .. n -> T] /\ c[0] = start /\ \A k \in 1 .. n : c[k] = G[k][c[k - 1]]
    BY <1>6 DEF Follows
  <2>2. \A k \in 1 .. n : c[k - 1] \in T
    BY <1>1, <2>1
  <2> HIDE DEF Next1, start
  <2> QED BY <1>5, <2>1, <2>2
<1> USE DEF T
<1> DEFINE h == [s \in SUBSET S |-> c[Cardinality(s)][s]]
<1>8. h \in T
  <2>1. ASSUME NEW s \in SUBSET S PROVE c[Cardinality(s)][s] \in Int
    BY <1>7, OneLess
  <2> QED BY <2>1
<1>9. h[{}] = base
  BY <1>7, FS_EmptySet
<1>10. ASSUME NEW s \in SUBSET S, s # {}
       PROVE  h[s] = op[f[FirstOne(s)]][h[s \ {FirstOne(s)}]]
  <2> DEFINE x == FirstOne(s)
             k == Cardinality(s)
  <2>1. x \in s /\ s \ {x} \in SUBSET S /\ Cardinality(s \ {x}) = k - 1 /\ k \in 1 .. n
    BY <1>1, <1>2, <1>10, OneLess
  <2>2. h[s] = Next1(c[k - 1])[s]
    BY <1>7, <2>1
  <2>3. h[s \ {x}] = c[k - 1][s \ {x}]
    BY <2>1
  <2> QED BY <1>10, <2>2, <2>3
<1> HIDE DEF h
<1> DEFINE AnyFirst(s) == \A x \in s : h[s] = op[f[x]][h[s \ {x}]]
           I == {k \in 0 .. n : \A s \in SUBSET S : Cardinality(s) = k => AnyFirst(s)}
<1>11. 0 \in I
  <2>1. \A s \in SUBSET S : Cardinality(s) = 0 => AnyFirst(s)
    BY OneLess
  <2> QED BY <1>1, <2>1
<1>12. ASSUME NEW k \in 0 .. n - 1, k \in I PROVE k + 1 \in I
  <2>1. ASSUME NEW s \in SUBSET S, Cardinality(s) = k + 1, NEW x \in s
        PROVE  h[s] = op[f[x]][h[s \ {x}]]
    <3> DEFINE y == FirstOne(s)
    <3>1. y \in s /\ h[s] = op[f[y]][h[s \ {y}]]
      BY <1>2, <1>10, <2>1
    <3>2. CASE x = y
      BY <3>1, <3>2
    <3>3. CASE x # y
      <4>1. /\ s \ {y} \in SUBSET S /\ Cardinality(s \ {y}) = k
            /\ s \ {x} \in SUBSET S /\ Cardinality(s \ {x}) = k
        BY <1>1, <2>1, <3>1, OneLess
      <4>2. AnyFirst(s \ {y}) /\ AnyFirst(s \ {x})
        BY <1>12, <4>1
      <4> DEFINE r == (s \ {y}) \ {x}
      <4>3. (s \ {x}) \ {y} = r /\ r \in SUBSET S
        OBVIOUS
      <4>4. h[s \ {y}] = op[f[x]][h[r]] /\ h[s \ {x}] = op[f[y]][h[r]]
        BY <3>1, <3>3, <4>2, <4>3
      <4>5. f[x] \in Int /\ f[y] \in Int /\ h[r] \in Int
        BY <1>8, <3>1, <4>3
      <4>6. op[f[y]][op[f[x]][h[r]]] = op[f[x]][op[f[y]][h[r]]]
        BY <4>5 DEF Commutes
      <4> QED BY <3>1, <4>4, <4>6
    <3> QED BY <3>2, <3>3
  <2>2. k + 1 \in 0 .. n
    BY <1>1
  <2> QED BY <2>1, <2>2
<1> HIDE DEF I
<1>14. \A s \in SUBSET S : AnyFirst(s)
  <2>1. \A s \in SUBSET S : Cardinality(s) \in 0 .. n
    BY OneLess
  <2>2. ASSUME NEW m \in 0 .. n PROVE m \in I
    <3>1. m \in Nat /\ \A k \in 0 .. m - 1 : k \in 0 .. n - 1
      BY <1>1
    <3> QED BY <1>11, <1>12, <3>1, Induction
  <2> QED BY <2>1, <2>2 DEF I
<1>15. Folds(h, op, base, f, S)
  BY <1>8, <1>9, <1>14 DEF Folds
<1> QED BY <1>15, Zenon

(* It is the only one, also when fewer members can be folded.              *)
LEMMA FoldsAgree ==
  ASSUME NEW S, IsFiniteSet(S), NEW R \in SUBSET S, NEW f, NEW op, NEW base,
         NEW h, Folds(h, op, base, f, S), NEW g, Folds(g, op, base, f, R)
  PROVE  \A s \in SUBSET R : g[s] = h[s]
<1> DEFINE n == Cardinality(R)
           I == {k \in 0 .. n : \A s \in SUBSET R : Cardinality(s) = k => g[s] = h[s]}
<1>1. IsFiniteSet(R) /\ n \in Nat
  BY FS_Subset, FS_CardinalityType
<1>2. 0 \in I
  <2>1. \A s \in SUBSET R : Cardinality(s) = 0 => s = {}
    BY <1>1, OneLess
  <2>2. g[{}] = base /\ h[{}] = base
    BY DEF Folds
  <2> QED BY <1>1, <2>1, <2>2
<1>3. ASSUME NEW k \in 0 .. n - 1, k \in I PROVE k + 1 \in I
  <2>1. ASSUME NEW s \in SUBSET R, Cardinality(s) = k + 1 PROVE g[s] = h[s]
    <3>1. PICK x \in s : TRUE
      <4>1. s # {}
        BY <1>1, <2>1, OneLess
      <4> QED BY <4>1
    <3>2. s \ {x} \in SUBSET R /\ Cardinality(s \ {x}) = k
      <4>1. Cardinality(s \ {x}) = Cardinality(s) - 1
        BY <1>1, <3>1, OneLess
      <4> QED BY <2>1, <4>1
    <3>3. g[s \ {x}] = h[s \ {x}]
      BY <1>3, <3>2
    <3>4. g[s] = op[f[x]][g[s \ {x}]] /\ h[s] = op[f[x]][h[s \ {x}]]
      BY <3>1 DEF Folds
    <3> QED BY <3>3, <3>4
  <2>2. k + 1 \in 0 .. n
    BY <1>1
  <2> QED BY <2>1, <2>2
<1> HIDE DEF I
<1>4. ASSUME NEW m \in 0 .. n PROVE m \in I
  <2>1. m \in Nat /\ \A k \in 0 .. m - 1 : k \in 0 .. n - 1
    BY <1>1
  <2> QED BY <1>2, <1>3, <2>1, Induction
<1>5. \A s \in SUBSET R : Cardinality(s) \in 0 .. n
  BY <1>1, OneLess
<1> QED BY <1>4, <1>5 DEF I

(* In particular the member that CHOOSE picks may come first.              *)
FirstThenRest(h, op, base, f, S) ==
  /\ h \in [SUBSET S -> Int]
  /\ h[{}] = base
  /\ \A s \in SUBSET S : s # {} =>
       /\ FirstOne(s) \in s
       /\ h[s] = op[f[FirstOne(s)]][h[s \ {FirstOne(s)}]]

LEMMA FoldsByFirst ==
  ASSUME NEW S, NEW f, NEW op, NEW base, NEW h, Folds(h, op, base, f, S)
  PROVE  FirstThenRest(h, op, base, f, S)
<1>1. ASSUME NEW s \in SUBSET S, s # {} PROVE FirstOne(s) \in s
  BY <1>1, Zenon DEF FirstOne
<1> QED BY <1>1 DEF Folds, FirstThenRest

(* Two functions of the subsets of S are the same if they go on in the     *)
(* same way.                                                               *)
LEMMA SameByFirst ==
  ASSUME NEW S, IsFiniteSet(S), NEW c, DOMAIN c = SUBSET S, NEW h, DOMAIN h = SUBSET S,
         c[{}] = h[{}],
         \A s \in SUBSET S : s # {} /\ c[s \ {FirstOne(s)}] = h[s \ {FirstOne(s)}]
                               => c[s] = h[s]
  PROVE  c[S] = h[S]
<1> DEFINE n == Cardinality(S)
           I == {k \in 0 .. n : \A s \in SUBSET S : Cardinality(s) = k => c[s] = h[s]}
<1>1. n \in Nat
  BY FS_CardinalityType
<1>2. 0 \in I
  <2>1. \A s \in SUBSET S : Cardinality(s) = 0 => s = {}
    BY OneLess
  <2>2. \A s \in SUBSET S : Cardinality(s) = 0 => c[s] = h[s]
    BY <2>1
  <2> QED BY <1>1, <2>2
<1>3. ASSUME NEW k \in 0 .. n - 1, k \in I PROVE k + 1 \in I
  <2>1. ASSUME NEW s \in SUBSET S, Cardinality(s) = k + 1 PROVE c[s] = h[s]
    <3> DEFINE x == FirstOne(s)
    <3>1. s # {}
      BY <1>1, <2>1, OneLess
    <3>2. x \in s
      BY <3>1, Zenon DEF FirstOne
    <3>3. s \ {x} \in SUBSET S /\ Cardinality(s \ {x}) = k
      BY <1>1, <2>1, <3>2, OneLess
    <3>4. c[s \ {x}] = h[s \ {x}]
      BY <1>3, <3>3
    <3> QED BY <3>1, <3>4
  <2>2. k + 1 \in 0 .. n
    BY <1>1
  <2> QED BY <2>1, <2>2
<1> HIDE DEF I
<1>4. n \in I
  BY <1>1, <1>2, <1>3, Induction
<1> QED BY <1>4 DEF I

(* What the fold of the community modules returns for a sum.               *)
LEMMA SumFolds ==
  ASSUME NEW S, IsFiniteSet(S), NEW f, \A x \in S : f[x] \in Int
  PROVE  \E h : Folds(h, Plus, 0, f, S) /\ SumFunctionOnSet(f, S) = h[S]
<1> DEFINE r(h, s) == IF s = {} THEN 0 ELSE f[FirstOne(s)] + h[s \ {FirstOne(s)}]
           eq(h) == [s \in SUBSET S |-> r(h, s)]
           c == CHOOSE h : h = eq(h)
<1>1. PICK h : Folds(h, Plus, 0, f, S)
  <2>1. Commutes(Plus) /\ 0 \in Int
    BY PlusCommutes
  <2> QED BY <2>1, FoldsExist, Zenon
<1>2. /\ h \in [SUBSET S -> Int] /\ h[{}] = 0
      /\ \A s \in SUBSET S : s # {} =>
           /\ FirstOne(s) \in s
           /\ h[s] = Plus[f[FirstOne(s)]][h[s \ {FirstOne(s)}]]
  <2>1. FirstThenRest(h, Plus, 0, f, S)
    BY <1>1, FoldsByFirst, Zenon
  <2> QED BY <2>1, Zenon DEF FirstThenRest
<1>3. ASSUME NEW s \in SUBSET S PROVE h[s] = r(h, s)
  <2>1. CASE s = {}
    BY <1>2, <2>1
  <2>2. CASE s # {}
    <3>1. f[FirstOne(s)] \in Int /\ h[s \ {FirstOne(s)}] \in Int
      BY <1>2, <2>2
    <3> QED BY <1>2, <2>2, <3>1, PlusCommutes
  <2> QED BY <2>1, <2>2
<1>4. h = eq(h)
  <2>1. DOMAIN h = SUBSET S /\ h = [s \in DOMAIN h |-> h[s]]
    BY <1>2, Zenon
  <2> HIDE DEF r
  <2> QED BY <1>3, <2>1
<1>5. c = eq(c)
  BY <1>4, Zenon
<1>6. SumFunctionOnSet(f, S) = c[S]
  BY Zenon DEF SumFunctionOnSet, FoldFunctionOnSet, MapThenFoldSet, FirstOne
<1> HIDE DEF c
<1>7. \A s \in SUBSET S : c[s] = r(c, s)
  BY <1>5
<1>8. c[S] = h[S]
  <2>1. DOMAIN c = SUBSET S /\ DOMAIN h = SUBSET S
    BY <1>2, <1>5
  <2>2. c[{}] = h[{}]
    BY <1>2, <1>7
  <2>3. \A s \in SUBSET S : s # {} /\ c[s \ {FirstOne(s)}] = h[s \ {FirstOne(s)}]
                               => c[s] = h[s]
    BY <1>3, <1>7
  <2> HIDE DEF eq, r
  <2> QED BY <2>1, <2>2, <2>3, SameByFirst
<1> QED BY <1>1, <1>6, <1>8

(* And for a product.                                                      *)
LEMMA ProductFolds ==
  ASSUME NEW S, IsFiniteSet(S), NEW f, \A x \in S : f[x] \in Int
  PROVE  \E h : Folds(h, Times, 1, f, S) /\ FoldFunctionOnSet(LAMBDA x, y : x * y, 1, f, S) = h[S]
<1> DEFINE r(h, s) == IF s = {} THEN 1 ELSE f[FirstOne(s)] * h[s \ {FirstOne(s)}]
           eq(h) == [s \in SUBSET S |-> r(h, s)]
           c == CHOOSE h : h = eq(h)
<1>1. PICK h : Folds(h, Times, 1, f, S)
  <2>1. Commutes(Times) /\ 1 \in Int
    BY TimesCommutes
  <2> QED BY <2>1, FoldsExist, Zenon
<1>2. /\ h \in [SUBSET S -> Int] /\ h[{}] = 1
      /\ \A s \in SUBSET S : s # {} =>
           /\ FirstOne(s) \in s
           /\ h[s] = Times[f[FirstOne(s)]][h[s \ {FirstOne(s)}]]
  <2>1. FirstThenRest(h, Times, 1, f, S)
    BY <1>1, FoldsByFirst, Zenon
  <2> QED BY <2>1, Zenon DEF FirstThenRest
<1>3. ASSUME NEW s \in SUBSET S PROVE h[s] = r(h, s)
  <2>1. CASE s = {}
    BY <1>2, <2>1
  <2>2. CASE s # {}
    <3>1. f[FirstOne(s)] \in Int /\ h[s \ {FirstOne(s)}] \in Int
      BY <1>2, <2>2
    <3> QED BY <1>2, <2>2, <3>1, TimesCommutes
  <2> QED BY <2>1, <2>2
<1>4. h = eq(h)
  <2>1. DOMAIN h = SUBSET S /\ h = [s \in DOMAIN h |-> h[s]]
    BY <1>2, Zenon
  <2> HIDE DEF r
  <2> QED BY <1>3, <2>1
<1>5. c = eq(c)
  BY <1>4, Zenon
<1>6. FoldFunctionOnSet(LAMBDA x, y : x * y, 1, f, S) = c[S]
  BY Zenon DEF FoldFunctionOnSet, MapThenFoldSet, FirstOne
<1> HIDE DEF c
<1>7. \A s \in SUBSET S : c[s] = r(c, s)
  BY <1>5
<1>8. c[S] = h[S]
  <2>1. DOMAIN c = SUBSET S /\ DOMAIN h = SUBSET S
    BY <1>2, <1>5
  <2>2. c[{}] = h[{}]
    BY <1>2, <1>7
  <2>3. \A s \in SUBSET S : s # {} /\ c[s \ {FirstOne(s)}] = h[s \ {FirstOne(s)}]
                               => c[s] = h[s]
    BY <1>3, <1>7
  <2> HIDE DEF eq, r
  <2> QED BY <2>1, <2>2, <2>3, SameByFirst
<1> QED BY <1>1, <1>6, <1>8

(* A sum takes up any member first.                                        *)
LEMMA SumTake ==
  ASSUME NEW S, IsFiniteSet(S), NEW f, \A x \in S : f[x] \in Int
  PROVE  /\ SumFunctionOnSet(f, S) \in Int
         /\ S = {} => SumFunctionOnSet(f, S) = 0
         /\ \A x \in S : SumFunctionOnSet(f, S) = f[x] + SumFunctionOnSet(f, S \ {x})
<1>1. PICK h : Folds(h, Plus, 0, f, S) /\ SumFunctionOnSet(f, S) = h[S]
  BY SumFolds
<1>2. h \in [SUBSET S -> Int] /\ h[{}] = 0
      /\ \A x \in S : h[S] = Plus[f[x]][h[S \ {x}]]
  BY <1>1 DEF Folds
<1>3. ASSUME NEW x \in S PROVE SumFunctionOnSet(f, S) = f[x] + SumFunctionOnSet(f, S \ {x})
  <2>1. IsFiniteSet(S \ {x}) /\ \A y \in S \ {x} : f[y] \in Int
    BY FS_RemoveElement
  <2>2. PICK g : Folds(g, Plus, 0, f, S \ {x}) /\ SumFunctionOnSet(f, S \ {x}) = g[S \ {x}]
    BY <2>1, SumFolds
  <2>3. g[S \ {x}] = h[S \ {x}]
    BY <1>1, <2>2, FoldsAgree, S \ {x} \in SUBSET S
  <2>4. f[x] \in Int /\ h[S \ {x}] \in Int
    BY <1>2
  <2>5. Plus[f[x]][h[S \ {x}]] = f[x] + h[S \ {x}]
    BY <2>4, PlusCommutes, Zenon
  <2> QED BY <1>1, <1>2, <2>2, <2>3, <2>5, Zenon
<1> QED BY <1>1, <1>2, <1>3

(* So does a product.                                                      *)
ProductOf(f, S) == FoldFunctionOnSet(LAMBDA x, y : x * y, 1, f, S)

LEMMA ProductTake ==
  ASSUME NEW S, IsFiniteSet(S), NEW f, \A x \in S : f[x] \in Int
  PROVE  /\ ProductOf(f, S) \in Int
         /\ S = {} => ProductOf(f, S) = 1
         /\ \A x \in S : ProductOf(f, S) = f[x] * ProductOf(f, S \ {x})
<1>1. PICK h : Folds(h, Times, 1, f, S) /\ ProductOf(f, S) = h[S]
  BY ProductFolds DEF ProductOf
<1>2. h \in [SUBSET S -> Int] /\ h[{}] = 1
      /\ \A x \in S : h[S] = Times[f[x]][h[S \ {x}]]
  BY <1>1 DEF Folds
<1>3. ASSUME NEW x \in S PROVE ProductOf(f, S) = f[x] * ProductOf(f, S \ {x})
  <2>1. IsFiniteSet(S \ {x}) /\ \A y \in S \ {x} : f[y] \in Int
    BY FS_RemoveElement
  <2>2. PICK g : Folds(g, Times, 1, f, S \ {x}) /\ ProductOf(f, S \ {x}) = g[S \ {x}]
    BY <2>1, ProductFolds DEF ProductOf
  <2>3. g[S \ {x}] = h[S \ {x}]
    BY <1>1, <2>2, FoldsAgree, S \ {x} \in SUBSET S
  <2>4. f[x] \in Int /\ h[S \ {x}] \in Int
    BY <1>2
  <2>5. Times[f[x]][h[S \ {x}]] = f[x] * h[S \ {x}]
    BY <2>4, TimesCommutes, Zenon
  <2> QED BY <1>1, <1>2, <2>2, <2>3, <2>5, Zenon
<1> QED BY <1>1, <1>2, <1>3

(* Induction over the subsets of a finite set, about a set of them: what   *)
(* the empty one has and one with a further member takes over, all have.   *)
LEMMA SubsetInduction ==
  ASSUME NEW S, IsFiniteSet(S), NEW P, {} \in P,
         \A s \in SUBSET S : \A x \in S \ s : s \in P => s \cup {x} \in P
  PROVE  S \in P
<1> DEFINE n == Cardinality(S)
           I == {k \in 0 .. n : \A s \in SUBSET S : Cardinality(s) = k => s \in P}
<1>1. n \in Nat
  BY FS_CardinalityType
<1>2. 0 \in I
  <2>1. \A s \in SUBSET S : Cardinality(s) = 0 => s \in P
    BY OneLess
  <2> QED BY <1>1, <2>1
<1>3. ASSUME NEW k \in 0 .. n - 1, k \in I PROVE k + 1 \in I
  <2>1. ASSUME NEW s \in SUBSET S, Cardinality(s) = k + 1 PROVE s \in P
    <3>1. s # {}
      BY <1>1, <2>1, OneLess
    <3>2. PICK x \in s : TRUE
      BY <3>1
    <3>3. s \ {x} \in SUBSET S /\ Cardinality(s \ {x}) = k
      BY <1>1, <2>1, <3>2, OneLess
    <3>4. s \ {x} \in P
      BY <1>3, <3>3
    <3>5. (s \ {x}) \cup {x} = s /\ x \in S \ (s \ {x})
      BY <3>2
    <3>6. (s \ {x}) \cup {x} \in P
      BY <3>3, <3>4, <3>5
    <3> QED BY <3>5, <3>6
  <2>2. k + 1 \in 0 .. n
    BY <1>1
  <2> QED BY <2>1, <2>2
<1> HIDE DEF I
<1>4. n \in I
  BY <1>1, <1>2, <1>3, Induction
<1> QED BY <1>4 DEF I

(* The sum with a further member.                                          *)
LEMMA SumMore ==
  ASSUME NEW s, IsFiniteSet(s), NEW x, x \notin s, NEW f, \A y \in s \cup {x} : f[y] \in Int
  PROVE  /\ IsFiniteSet(s \cup {x})
         /\ SumFunctionOnSet(f, s) \in Int
         /\ SumFunctionOnSet(f, s \cup {x}) = f[x] + SumFunctionOnSet(f, s)
<1>1. IsFiniteSet(s \cup {x}) /\ x \in s \cup {x} /\ (s \cup {x}) \ {x} = s
  BY FS_AddElement
<1>2. SumFunctionOnSet(f, s \cup {x}) = f[x] + SumFunctionOnSet(f, (s \cup {x}) \ {x})
  BY <1>1, SumTake
<1>3. SumFunctionOnSet(f, s) \in Int
  BY SumTake
<1> QED BY <1>1, <1>2, <1>3

(* Sums of numbers that are no larger, or the same, are no larger, or the  *)
(* same.                                                                   *)
LEMMA SumCompare ==
  ASSUME NEW S, IsFiniteSet(S), NEW f, NEW g,
         \A x \in S : f[x] \in Int /\ g[x] \in Int /\ f[x] <= g[x]
  PROVE  SumFunctionOnSet(f, S) <= SumFunctionOnSet(g, S)
<1> DEFINE P == {s \in SUBSET S : SumFunctionOnSet(f, s) <= SumFunctionOnSet(g, s)}
<1>1. {} \in P
  <2>1. SumFunctionOnSet(f, {}) = 0 /\ SumFunctionOnSet(g, {}) = 0
    BY SumTake, FS_EmptySet
  <2> QED BY <2>1
<1>2. ASSUME NEW s \in SUBSET S, NEW x \in S \ s, s \in P PROVE s \cup {x} \in P
  <2>1. IsFiniteSet(s) /\ \A y \in s \cup {x} : f[y] \in Int /\ g[y] \in Int
    BY FS_Subset
  <2>2. /\ SumFunctionOnSet(f, s \cup {x}) = f[x] + SumFunctionOnSet(f, s)
        /\ SumFunctionOnSet(f, s) \in Int
    BY <2>1, SumMore
  <2>3. /\ SumFunctionOnSet(g, s \cup {x}) = g[x] + SumFunctionOnSet(g, s)
        /\ SumFunctionOnSet(g, s) \in Int
    BY <2>1, SumMore
  <2> QED BY <1>2, <2>1, <2>2, <2>3
<1> HIDE DEF P
<1>3. S \in P
  BY <1>1, <1>2, SubsetInduction
<1> QED BY <1>3 DEF P

LEMMA SumSame ==
  ASSUME NEW S, IsFiniteSet(S), NEW f, NEW g,
         \A x \in S : f[x] \in Int /\ g[x] = f[x]
  PROVE  SumFunctionOnSet(g, S) = SumFunctionOnSet(f, S)
<1>1. SumFunctionOnSet(f, S) <= SumFunctionOnSet(g, S)
  BY SumCompare
<1>2. SumFunctionOnSet(g, S) <= SumFunctionOnSet(f, S)
  BY SumCompare
<1>3. SumFunctionOnSet(f, S) \in Int /\ SumFunctionOnSet(g, S) \in Int
  BY SumTake
<1> QED BY <1>1, <1>2, <1>3

(* A factor comes out of a sum.                                            *)
LEMMA SumScaled ==
  ASSUME NEW S, IsFiniteSet(S), NEW f, NEW g, NEW k \in Int,
         \A x \in S : f[x] \in Int /\ g[x] = k * f[x]
  PROVE  SumFunctionOnSet(g, S) = k * SumFunctionOnSet(f, S)
<1> DEFINE P == {s \in SUBSET S : SumFunctionOnSet(g, s) = k * SumFunctionOnSet(f, s)}
<1>1. {} \in P
  <2>1. SumFunctionOnSet(f, {}) = 0 /\ SumFunctionOnSet(g, {}) = 0
    BY SumTake, FS_EmptySet
  <2> QED BY <2>1
<1>2. ASSUME NEW s \in SUBSET S, NEW x \in S \ s, s \in P PROVE s \cup {x} \in P
  <2>1. IsFiniteSet(s) /\ \A y \in s \cup {x} : f[y] \in Int /\ g[y] \in Int
    BY FS_Subset
  <2>2. /\ SumFunctionOnSet(f, s \cup {x}) = f[x] + SumFunctionOnSet(f, s)
        /\ SumFunctionOnSet(f, s) \in Int
    BY <2>1, SumMore
  <2>3. SumFunctionOnSet(g, s \cup {x}) = g[x] + SumFunctionOnSet(g, s)
    BY <2>1, SumMore
  <2>4. \A a, b \in Int : k * a + k * b = k * (a + b)
    OBVIOUS
  <2>5. f[x] \in Int /\ g[x] = k * f[x]
    OBVIOUS
  <2> QED BY <1>2, <2>2, <2>3, <2>4, <2>5
<1> HIDE DEF P
<1>3. S \in P
  BY <1>1, <1>2, SubsetInduction
<1> QED BY <1>3 DEF P

(* The sum of sums.                                                        *)
LEMMA SumAdded ==
  ASSUME NEW S, IsFiniteSet(S), NEW f, NEW g, NEW h,
         \A x \in S : f[x] \in Int /\ g[x] \in Int /\ h[x] = f[x] + g[x]
  PROVE  SumFunctionOnSet(h, S) = SumFunctionOnSet(f, S) + SumFunctionOnSet(g, S)
<1> DEFINE P == {s \in SUBSET S : SumFunctionOnSet(h, s)
                                    = SumFunctionOnSet(f, s) + SumFunctionOnSet(g, s)}
<1>1. {} \in P
  <2>1. SumFunctionOnSet(f, {}) = 0 /\ SumFunctionOnSet(g, {}) = 0
        /\ SumFunctionOnSet(h, {}) = 0
    BY SumTake, FS_EmptySet
  <2> QED BY <2>1
<1>2. ASSUME NEW s \in SUBSET S, NEW x \in S \ s, s \in P PROVE s \cup {x} \in P
  <2>1. IsFiniteSet(s) /\ \A y \in s \cup {x} : f[y] \in Int /\ g[y] \in Int /\ h[y] \in Int
    BY FS_Subset
  <2>2. /\ SumFunctionOnSet(f, s \cup {x}) = f[x] + SumFunctionOnSet(f, s)
        /\ SumFunctionOnSet(f, s) \in Int
    BY <2>1, SumMore
  <2>3. /\ SumFunctionOnSet(g, s \cup {x}) = g[x] + SumFunctionOnSet(g, s)
        /\ SumFunctionOnSet(g, s) \in Int
    BY <2>1, SumMore
  <2>4. SumFunctionOnSet(h, s \cup {x}) = h[x] + SumFunctionOnSet(h, s)
    BY <2>1, SumMore
  <2>5. f[x] \in Int /\ g[x] \in Int /\ h[x] = f[x] + g[x]
    OBVIOUS
  <2> QED BY <1>2, <2>2, <2>3, <2>4, <2>5
<1> HIDE DEF P
<1>3. S \in P
  BY <1>1, <1>2, SubsetInduction
<1> QED BY <1>3 DEF P

(* The sum of a constant.                                                  *)
LEMMA SumConstant ==
  ASSUME NEW S, IsFiniteSet(S), NEW f, NEW k \in Int, \A x \in S : f[x] = k
  PROVE  SumFunctionOnSet(f, S) = k * Cardinality(S)
<1> DEFINE P == {s \in SUBSET S : SumFunctionOnSet(f, s) = k * Cardinality(s)}
<1>1. {} \in P
  <2>1. SumFunctionOnSet(f, {}) = 0
    BY SumTake, FS_EmptySet
  <2> QED BY <2>1, FS_EmptySet
<1>2. ASSUME NEW s \in SUBSET S, NEW x \in S \ s, s \in P PROVE s \cup {x} \in P
  <2>1. IsFiniteSet(s) /\ \A y \in s \cup {x} : f[y] \in Int
    BY FS_Subset
  <2>2. SumFunctionOnSet(f, s \cup {x}) = k + SumFunctionOnSet(f, s)
    BY <2>1, SumMore
  <2>3. Cardinality(s \cup {x}) = Cardinality(s) + 1 /\ Cardinality(s) \in Nat
    BY <2>1, FS_AddElement, FS_CardinalityType
  <2>4. \A c \in Nat : k + k * c = k * (c + 1)
    OBVIOUS
  <2> QED BY <1>2, <2>2, <2>3, <2>4
<1> HIDE DEF P
<1>3. S \in P
  BY <1>1, <1>2, SubsetInduction
<1> QED BY <1>3 DEF P

(* Where in their concatenation the members of each sequence are.          *)
Offsets(off, parts) ==
  /\ off \in [0 .. Len(parts) -> Nat] /\ off[0] = 0
  /\ \A k \in 1 .. Len(parts) : off[k] = off[k - 1] + Len(parts[k])
Joined(s, off, parts, m) ==
  /\ Len(s) = off[m]
  /\ \A k \in 1 .. m : \A i \in 1 .. Len(parts[k]) :
       off[k - 1] + i \in 1 .. Len(s) /\ s[off[k - 1] + i] = parts[k][i]
  /\ \A j \in 1 .. Len(s) : \E k \in 1 .. m : \E i \in 1 .. Len(parts[k]) : j = off[k - 1] + i
LEMMA JoinedNext ==
  ASSUME NEW X, NEW parts \in Seq(Seq(X)), NEW off, Offsets(off, parts),
         NEW m \in 0 .. Len(parts) - 1, NEW s \in Seq(X), Joined(s, off, parts, m)
  PROVE  /\ s \o parts[m + 1] \in Seq(X)
         /\ Joined(s \o parts[m + 1], off, parts, m + 1)
<1> DEFINE p == parts[m + 1]
           t == s \o p
<1>1. /\ Len(parts) \in Nat /\ m \in Nat /\ m + 1 \in 1 .. Len(parts) /\ m \in 0 .. Len(parts)
      /\ (m + 1) - 1 = m
  BY LenProperties
<1>2. p \in Seq(X) /\ Len(p) \in Nat /\ Len(s) \in Nat
  BY <1>1, ElementOfSeq, LenProperties
<1>3. /\ t \in Seq(X) /\ Len(t) = Len(s) + Len(p)
      /\ \A i \in 1 .. Len(s) + Len(p) : t[i] = IF i <= Len(s) THEN s[i] ELSE p[i - Len(s)]
  BY <1>2, ConcatProperties
<1>4. off[m] = Len(s) /\ off[m + 1] = Len(t)
  <2>1. off[m + 1] = off[m] + Len(p)
    BY <1>1 DEF Offsets
  <2> QED BY <1>3, <2>1 DEF Joined
<1> HIDE DEF t, p
<1>5. ASSUME NEW k \in 1 .. m + 1, NEW i \in 1 .. Len(parts[k])
      PROVE  off[k - 1] + i \in 1 .. Len(t) /\ t[off[k - 1] + i] = parts[k][i]
  <2>1. CASE k = m + 1
    <3>1. off[k - 1] = Len(s) /\ parts[k] = p
      BY <1>1, <1>4, <2>1 DEF p
    <3>2. i \in 1 .. Len(p) /\ Len(s) + i \in 1 .. Len(s) + Len(p)
          /\ ~ (Len(s) + i <= Len(s)) /\ (Len(s) + i) - Len(s) = i
      BY <1>2, <3>1
    <3> QED BY <1>3, <3>1, <3>2
  <2>2. CASE k # m + 1
    <3>1. k \in 1 .. m
      BY <1>1, <2>2
    <3>2. off[k - 1] + i \in 1 .. Len(s) /\ s[off[k - 1] + i] = parts[k][i]
      BY <3>1 DEF Joined
    <3> DEFINE x == off[k - 1] + i
    <3>3. x \in 1 .. Len(s)
      BY <3>2
    <3> HIDE DEF x
    <3>4. x \in 1 .. Len(s) + Len(p) /\ x <= Len(s)
      BY <1>2, <3>3
    <3> QED BY <1>3, <3>2, <3>4 DEF x
  <2> QED BY <2>1, <2>2
<1>6. ASSUME NEW j \in 1 .. Len(t)
      PROVE  \E k \in 1 .. m + 1 : \E i \in 1 .. Len(parts[k]) : j = off[k - 1] + i
  <2>1. CASE j <= Len(s)
    <3>1. j \in 1 .. Len(s)
      BY <1>2, <1>3, <2>1
    <3>2. PICK k \in 1 .. m : \E i \in 1 .. Len(parts[k]) : j = off[k - 1] + i
      BY <3>1 DEF Joined
    <3>3. k \in 1 .. m + 1
      BY <1>1
    <3> QED BY <3>2, <3>3
  <2>2. CASE ~ (j <= Len(s))
    <3> DEFINE i == j - Len(s)
    <3>1. i \in 1 .. Len(p) /\ j = Len(s) + i
      BY <1>2, <1>3, <2>2
    <3> HIDE DEF i
    <3>2. m + 1 \in 1 .. m + 1 /\ off[(m + 1) - 1] = Len(s) /\ parts[m + 1] = p
      BY <1>1, <1>4 DEF p
    <3>3. i \in 1 .. Len(parts[m + 1]) /\ j = off[(m + 1) - 1] + i
      BY <3>1, <3>2
    <3> QED BY <3>2, <3>3
  <2> QED BY <2>1, <2>2
<1>7. Joined(t, off, parts, m + 1)
  BY <1>4, <1>5, <1>6 DEF Joined
<1> QED BY <1>3, <1>7 DEF t, p

LEMMA FlattenBlocks ==
  ASSUME NEW X, NEW parts \in Seq(Seq(X))
  PROVE  /\ FlattenSeq(parts) \in Seq(X)
         /\ \E off : Offsets(off, parts) /\ Joined(FlattenSeq(parts), off, parts, Len(parts))
<1> DEFINE n == Len(parts)
<1>1. PICK f : Concatenations(f, X, n, parts) /\ FlattenSeq(parts) = f[n]
  BY FlattenByPrefixes
<1> DEFINE off == [k \in 0 .. n |-> Len(f[k])]
           I == {k \in 0 .. n : f[k] \in Seq(X) /\ Joined(f[k], off, parts, k)}
<1>2. n \in Nat
  BY LenProperties
<1>3. /\ \A k \in 0 .. n : f[k] \in Seq(X) /\ Len(f[k]) \in Nat
      /\ f[0] = << >>
      /\ \A k \in 1 .. n : f[k] = f[k - 1] \o parts[k]
  BY <1>1, LenProperties DEF Concatenations
<1>4. Offsets(off, parts)
  <2>1. off \in [0 .. n -> Nat] /\ off[0] = 0
    BY <1>2, <1>3, EmptySeq
  <2>2. ASSUME NEW k \in 1 .. n PROVE off[k] = off[k - 1] + Len(parts[k])
    <3>1. k - 1 \in 0 .. n /\ k \in 0 .. n
      BY <1>2
    <3>2. f[k - 1] \in Seq(X) /\ parts[k] \in Seq(X) /\ f[k] = f[k - 1] \o parts[k]
      BY <1>3, <3>1, ElementOfSeq
    <3>3. Len(f[k]) = Len(f[k - 1]) + Len(parts[k])
      BY <3>2, ConcatProperties
    <3> QED BY <3>1, <3>3
  <2> QED BY <2>1, <2>2 DEF Offsets
<1>5. 0 \in I
  <2>1. Len(f[0]) = 0 /\ off[0] = 0
    BY <1>2, <1>3, EmptySeq
  <2>2. Joined(f[0], off, parts, 0)
    <3> HIDE DEF off
    <3> QED BY <2>1 DEF Joined
  <2> QED BY <1>2, <1>3, <2>2
<1>6. ASSUME NEW m \in 0 .. n - 1, m \in I PROVE m + 1 \in I
  <2>1. m \in 0 .. Len(parts) - 1 /\ m + 1 \in 1 .. n /\ m + 1 \in 0 .. n /\ (m + 1) - 1 = m
    BY <1>2
  <2>2. f[m + 1] = f[m] \o parts[m + 1]
    BY <1>3, <2>1
  <2>3. f[m] \in Seq(X) /\ Joined(f[m], off, parts, m)
    BY <1>6
  <2> HIDE DEF off
  <2>4. f[m] \o parts[m + 1] \in Seq(X) /\ Joined(f[m] \o parts[m + 1], off, parts, m + 1)
    BY <1>4, <2>1, <2>3, JoinedNext
  <2> QED BY <2>1, <2>2, <2>4
<1> HIDE DEF I, off
<1>7. n \in I
  BY <1>2, <1>5, <1>6, Induction
<1> USE DEF I
<1>8. f[n] \in Seq(X) /\ Joined(f[n], off, parts, n)
  BY <1>7
<1> QED BY <1>1, <1>4, <1>8

(* Of sequences of equal length: the ith place of the kth of them.         *)
Place(k, size, i) == (k - 1) * size + i
EqualBlocks(all, parts, X, n, size) ==
  /\ all \in Seq(X) /\ Len(all) = n * size
  /\ \A k \in 1 .. n : \A i \in 1 .. size : all[Place(k, size, i)] = parts[k][i]
LEMMA FlattenEqualBlocks ==
  ASSUME NEW X, NEW parts \in Seq(Seq(X)), NEW n, Len(parts) = n, NEW size \in Nat,
         \A k \in 1 .. n : Len(parts[k]) = size
  PROVE  EqualBlocks(FlattenSeq(parts), parts, X, n, size)
<1>1. PICK off : Offsets(off, parts) /\ Joined(FlattenSeq(parts), off, parts, Len(parts))
  BY FlattenBlocks
<1>2. n \in Nat
  BY LenProperties
<1> DEFINE I == {k \in 0 .. n : off[k] = k * size}
<1>3. 0 \in I
  BY <1>1, <1>2 DEF Offsets
<1>4. ASSUME NEW m \in 0 .. n - 1, m \in I PROVE m + 1 \in I
  <2>1. m + 1 \in 1 .. n /\ m + 1 \in 0 .. n /\ (m + 1) - 1 = m /\ m \in Nat
    BY <1>2
  <2>2. off[m + 1] = off[m] + size /\ off[m] = m * size
    BY <1>1, <1>4, <2>1 DEF Offsets
  <2>3. (m + 1) * size = m * size + size
    BY <2>1
  <2> QED BY <2>1, <2>2, <2>3
<1>5. ASSUME NEW m \in 0 .. n PROVE off[m] = m * size
  <2>1. m \in Nat /\ \A k \in 0 .. m - 1 : k \in 0 .. n - 1
    BY <1>2
  <2> HIDE DEF I
  <2>2. m \in I
    BY <1>3, <1>4, <2>1, Induction
  <2> QED BY <2>2 DEF I
<1>6. Len(FlattenSeq(parts)) = n * size
  BY <1>1, <1>2, <1>5 DEF Joined
<1>7. ASSUME NEW k \in 1 .. n, NEW i \in 1 .. size
      PROVE  FlattenSeq(parts)[Place(k, size, i)] = parts[k][i]
  <2>1. k - 1 \in 0 .. n
    BY <1>2
  <2>2. off[k - 1] = (k - 1) * size
    BY <1>5, <2>1
  <2> QED BY <1>1, <2>2 DEF Joined, Place
<1> QED BY <1>6, <1>7, FlattenBlocks DEF EqualBlocks

LEMMA PlaceInside ==
  ASSUME NEW n \in Nat, NEW size \in Nat, NEW k \in 1 .. n, NEW i \in 1 .. size
  PROVE  Place(k, size, i) \in 1 .. n * size
<1>1. \A x, y, z \in Nat : x <= y => x * z <= y * z /\ x * z \in Nat
  OBVIOUS
<1>2. k \in Nat /\ k - 1 \in Nat /\ k <= n
  OBVIOUS
<1>3. k * size <= n * size /\ (k - 1) * size \in Nat /\ n * size \in Nat
  BY <1>1, <1>2
<1>4. k * size = (k - 1) * size + size
  BY <1>2
<1> QED BY <1>3, <1>4 DEF Place

(* Every number up to n times size is in one of n blocks.                  *)
LEMMA InBlock ==
  ASSUME NEW n \in Nat, NEW size \in Nat \ {0}, NEW j \in 1 .. n * size
  PROVE  LET k == ((j - 1) \div size) + 1
             i == ((j - 1) % size) + 1
         IN  k \in 1 .. n /\ i \in 1 .. size /\ j = Place(k, size, i)
<1> DEFINE d == (j - 1) \div size
           e == (j - 1) % size
<1>1. n * size \in Nat /\ j \in Nat /\ j >= 1 /\ j <= n * size
  OBVIOUS
<1>2. d \in Nat /\ e \in 0 .. size - 1 /\ j - 1 = d * size + e
  <2>1. \A a \in Nat, b \in Nat \ {0} :
          /\ a \div b \in Nat /\ a % b \in 0 .. b - 1 /\ a = b * (a \div b) + (a % b)
    OBVIOUS
  <2>2. j - 1 \in Nat
    BY <1>1
  <2>3. d \in Nat /\ e \in 0 .. size - 1 /\ j - 1 = size * d + e
    BY <2>1, <2>2
  <2> HIDE DEF d, e
  <2> QED BY <2>3
<1> HIDE DEF d, e
<1>3. d < n
  <2> SUFFICES ASSUME d >= n PROVE FALSE
    BY <1>2
  <2>1. \A a, b \in Nat, c \in Nat : a >= b => a * c >= b * c
    OBVIOUS
  <2>2. d * size >= n * size
    BY <1>2, <2>1
  <2>3. d * size \in Nat
    BY <1>2
  <2> QED BY <1>1, <1>2, <2>2, <2>3
<1>4. d + 1 \in 1 .. n /\ e + 1 \in 1 .. size /\ j = ((d + 1) - 1) * size + (e + 1)
  <2>1. (d + 1) - 1 = d /\ d * size \in Nat
    BY <1>2
  <2> QED BY <1>1, <1>2, <1>3, <2>1
<1> QED BY <1>4 DEF d, e, Place

(* So such a number is the place of a member.                              *)
LEMMA HasPlace ==
  ASSUME NEW n \in Nat, NEW size \in Nat, NEW j \in 1 .. n * size
  PROVE  \E k \in 1 .. n : \E i \in 1 .. size : j = Place(k, size, i)
<1>1. size \in Nat \ {0}
  <2> SUFFICES ASSUME size = 0 PROVE FALSE
    OBVIOUS
  <2>1. n * size = 0
    OBVIOUS
  <2> QED BY <2>1
<1> DEFINE k == ((j - 1) \div size) + 1
           i == ((j - 1) % size) + 1
<1>2. k \in 1 .. n /\ i \in 1 .. size /\ j = Place(k, size, i)
  BY <1>1, InBlock
<1> HIDE DEF k, i
<1> QED BY <1>2

(* A concatenation of sequences of one size, member by member.             *)
LEMMA BlocksAre ==
  ASSUME NEW X, NEW parts \in Seq(Seq(X)), NEW size \in Nat \ {0},
         \A k \in 1 .. Len(parts) : Len(parts[k]) = size
  PROVE  FlattenSeq(parts) = [j \in 1 .. Len(parts) * size |->
                                parts[((j - 1) \div size) + 1][((j - 1) % size) + 1]]
<1> DEFINE n == Len(parts)
           all == FlattenSeq(parts)
<1>1. n \in Nat
  BY LenProperties
<1>2. EqualBlocks(all, parts, X, n, size)
  BY FlattenEqualBlocks
<1>3. all = [j \in 1 .. n * size |-> all[j]]
  BY <1>2, LenProperties DEF EqualBlocks
<1>4. ASSUME NEW j \in 1 .. n * size
      PROVE  all[j] = parts[((j - 1) \div size) + 1][((j - 1) % size) + 1]
  <2> DEFINE k == ((j - 1) \div size) + 1
             i == ((j - 1) % size) + 1
  <2>1. k \in 1 .. n /\ i \in 1 .. size /\ j = Place(k, size, i)
    BY <1>1, InBlock
  <2> HIDE DEF k, i, all, n
  <2>2. all[Place(k, size, i)] = parts[k][i]
    BY <1>2, <2>1 DEF EqualBlocks
  <2> QED BY <2>1, <2>2 DEF k, i
<1> HIDE DEF all
<1>5. all = [j \in 1 .. n * size |-> parts[((j - 1) \div size) + 1][((j - 1) % size) + 1]]
  BY <1>3, <1>4
<1> QED BY <1>5 DEF all, n

-----------------------------------------------------------------------------
(* Rows of a batch.                                                        *)

BatchOf(s) == Proto!DataProto(s, s)

(* The community modules' operators are the same in every instance.        *)
LEMMA SameOperators ==
  /\ \A s : Proto!FlattenSeq(s) = FlattenSeq(s)
  /\ \A S : Proto!Min(S) = Min(S)
  /\ \A f, S : Proto!SumFunctionOnSet(f, S) = SumFunctionOnSet(f, S)
<1>1. ASSUME NEW s PROVE Proto!FlattenSeq(s) = FlattenSeq(s)
  BY Zenon DEF Proto!FlattenSeq, FlattenSeq
<1>2. ASSUME NEW S PROVE Proto!Min(S) = Min(S)
  BY Zenon DEF Proto!Min, Min
<1>3. ASSUME NEW f, NEW S PROVE Proto!SumFunctionOnSet(f, S) = SumFunctionOnSet(f, S)
  BY Zenon DEF Proto!SumFunctionOnSet, SumFunctionOnSet, Proto!FoldFunctionOnSet, FoldFunctionOnSet,
               Proto!MapThenFoldSet, MapThenFoldSet
<1> QED BY <1>1, <1>2, <1>3

(* What the parts of a batch of whole rows are.                            *)
LEMMA BatchParts ==
  ASSUME NEW s
  PROVE  /\ BatchOf(s).batch = s /\ BatchOf(s).non_tensor = s
         /\ Proto!Length(BatchOf(s)) = Len(s)
BY DEF BatchOf, Proto!DataProto, Proto!Length

(* The ranks answer each row they were sent.                               *)
LEMMA RowsAnswered ==
  ASSUME NEW X, NEW s \in Seq(X)
  PROVE  Proto!Answer(BatchOf(s)) = BatchOf(s)
<1>1. BatchOf(s).batch = s /\ BatchOf(s).non_tensor = s
  BY BatchParts
<1>2. s = [i \in DOMAIN s |-> s[i]]
  OBVIOUS
<1> QED BY <1>1, <1>2, Zenon DEF Proto!Answer, BatchOf

(* A batch is not the answer of a call that failed.                        *)
LEMMA NotRaised ==
  ASSUME NEW s
  PROVE  BatchOf(s) # Proto!Raised
BY DEF BatchOf, Proto!DataProto, Proto!Raised

(* Rows are selected with all that belongs to them.                        *)
LEMMA SelectRows ==
  ASSUME NEW s, NEW idxs
  PROVE  Proto!SelectIdxs(BatchOf(s), idxs) = BatchOf([i \in DOMAIN idxs |-> s[idxs[i]]])
BY DEF BatchOf, Proto!SelectIdxs, Proto!Take, Proto!DataProto

LEMMA ConcatRows ==
  ASSUME NEW n \in Nat, NEW parts, DOMAIN parts = 1 .. n, NEW batches,
         DOMAIN batches = 1 .. n, \A p \in 1 .. n : batches[p] = BatchOf(parts[p]),
         parts = [p \in 1 .. n |-> parts[p]]
  PROVE  Proto!Concat(batches) = BatchOf(FlattenSeq(parts))
<1>1. \A p \in 1 .. n : batches[p].batch = parts[p] /\ batches[p].non_tensor = parts[p]
  BY BatchParts
<1>2. [p \in DOMAIN batches |-> batches[p].batch] = parts
  BY <1>1
<1>3. [p \in DOMAIN batches |-> batches[p].non_tensor] = parts
  BY <1>1
<1>4. Proto!Concat(batches) = Proto!DataProto(FlattenSeq([p \in DOMAIN batches |-> batches[p].batch]),
                                FlattenSeq([p \in DOMAIN batches |-> batches[p].non_tensor]))
  BY SameOperators, Zenon DEF Proto!Concat
<1> QED BY <1>2, <1>3, <1>4, Zenon DEF BatchOf

(* Whole batches of at least one row.                                      *)
Rows == Seq(Nat) \ {<< >>}

(* As many numbers of rows as there are, each row once.                    *)
LEMMA SelectPrefix ==
  ASSUME NEW s \in Seq(Nat), NEW n \in 0 .. Len(s)
  PROVE  /\ Proto!SelectIdxs(BatchOf(s), [i \in 1 .. n |-> i]) = BatchOf(SubSeq(s, 1, n))
         /\ SubSeq(s, 1, n) \in Seq(Nat) /\ Len(SubSeq(s, 1, n)) = n
<1>1. /\ SubSeq(s, 0 + 1, n) \in Seq(Nat) /\ Len(SubSeq(s, 0 + 1, n)) = n - 0
      /\ \A x \in 1 .. n - 0 : SubSeq(s, 0 + 1, n)[x] = s[0 + x]
  <2>1. 0 \in 0 .. Len(s)
    OBVIOUS
  <2> QED BY <2>1, PartOfSeq
<1>2. /\ SubSeq(s, 1, n) \in Seq(Nat) /\ Len(SubSeq(s, 1, n)) = n
      /\ \A x \in 1 .. n : SubSeq(s, 1, n)[x] = s[x]
  BY <1>1
<1> DEFINE idxs == [i \in 1 .. n |-> i]
<1>3. [i \in DOMAIN idxs |-> s[idxs[i]]] = SubSeq(s, 1, n)
  BY <1>2
<1>4. Proto!SelectIdxs(BatchOf(s), idxs) = BatchOf([i \in DOMAIN idxs |-> s[idxs[i]]])
  BY SelectRows
<1> QED BY <1>2, <1>3, <1>4

-----------------------------------------------------------------------------
(* Chunks.                                                                 *)

SizeOf(n, chunks) == CeilDiv(n, chunks)
ManyPieces(n, chunks) == CeilDiv(n, SizeOf(n, chunks))

(* The pieces of torch.chunk are of one size, the last of what is left.    *)
LEMMA PiecesType ==
  ASSUME NEW n \in Nat \ {0}, NEW chunks \in Nat \ {0}
  PROVE  LET size == SizeOf(n, chunks)
             many == ManyPieces(n, chunks)
             pieces == Proto!TorchPieces(n, chunks)
         IN  /\ size \in Nat \ {0} /\ many \in Nat \ {0}
             /\ (many - 1) * size < n /\ n <= many * size
             /\ pieces \in Seq(Int) /\ Len(pieces) = many
             /\ \A p \in 1 .. many :
                  /\ pieces[p] = IF p < many THEN size ELSE n - (p - 1) * size
                  /\ (p - 1) * size + pieces[p] = Min({p * size, n})
<1> DEFINE size == SizeOf(n, chunks)
           many == ManyPieces(n, chunks)
           pieces == Proto!TorchPieces(n, chunks)
<1>1. size \in Nat \ {0}
  BY CeilDivPositive DEF SizeOf
<1>2. many \in Nat \ {0} /\ (many - 1) * size < n /\ n <= many * size
  BY <1>1, CeilDivPositive DEF ManyPieces
<1>3. pieces = [p \in 1 .. many |-> Min({size, n - (p - 1) * size})]
  BY SameOperators, Zenon DEF Proto!TorchPieces, Proto!CeilDiv, CeilDiv, SizeOf, ManyPieces
<1> HIDE DEF size, many, pieces
<1>4. ASSUME NEW p \in 1 .. many
      PROVE  /\ pieces[p] \in Int
             /\ pieces[p] = IF p < many THEN size ELSE n - (p - 1) * size
             /\ (p - 1) * size + pieces[p] = Min({p * size, n})
  <2>1. p \in Int /\ p * size \in Int /\ (p - 1) * size = p * size - size
    BY <1>1, <1>2
  <2>2. pieces[p] = IF size <= n - (p - 1) * size THEN size ELSE n - (p - 1) * size
    BY <1>1, <1>3, <2>1, MinOfTwo
  <2>3. Min({p * size, n}) = IF p * size <= n THEN p * size ELSE n
    BY <2>1, MinOfTwo
  <2>4. CASE p < many
    <3>1. p <= many - 1 /\ many - 1 \in Int
      BY <1>2, <2>4
    <3>2. p * size <= (many - 1) * size
      <4>1. \A a, b \in Int, c \in Nat : a <= b => a * c <= b * c
        OBVIOUS
      <4> QED BY <1>1, <2>1, <3>1, <4>1
    <3>3. p * size <= n /\ (many - 1) * size \in Int
      BY <1>1, <1>2, <2>1, <3>1, <3>2
    <3> QED BY <1>1, <2>1, <2>2, <2>3, <2>4, <3>3
  <2>5. CASE p = many
    <3>1. n <= p * size
      BY <1>2, <2>5
    <3> QED BY <1>1, <2>1, <2>2, <2>3, <2>5, <3>1
  <2> QED BY <1>2, <2>4, <2>5
<1>5. pieces \in Seq(Int) /\ Len(pieces) = many
  <2>1. pieces \in [1 .. many -> Int]
    BY <1>3, <1>4
  <2> QED BY <1>2, <2>1, FunctionIsSeq
<1> QED BY <1>1, <1>2, <1>4, <1>5 DEF size, many, pieces

(* So each piece begins where as many of that size have ended.             *)
LEMMA PiecesBefore ==
  ASSUME NEW n \in Nat \ {0}, NEW chunks \in Nat \ {0}, NEW p \in 1 .. ManyPieces(n, chunks)
  PROVE  SumFunctionOnSet(Proto!TorchPieces(n, chunks), 1 .. p - 1) = (p - 1) * SizeOf(n, chunks)
<1> DEFINE size == SizeOf(n, chunks)
           many == ManyPieces(n, chunks)
           pieces == Proto!TorchPieces(n, chunks)
           I == {k \in 0 .. many - 1 : SumFunctionOnSet(pieces, 1 .. k) = k * size}
<1>1. /\ size \in Nat \ {0} /\ many \in Nat \ {0}
      /\ \A i \in 1 .. many : pieces[i] \in Int /\ (i < many => pieces[i] = size)
  <2>1. /\ size \in Nat \ {0} /\ many \in Nat \ {0} /\ pieces \in Seq(Int) /\ Len(pieces) = many
        /\ \A i \in 1 .. many :
             /\ pieces[i] = IF i < many THEN size ELSE n - (i - 1) * size
             /\ (i - 1) * size + pieces[i] = Min({i * size, n})
    BY PiecesType, Zenon
  <2>2. \A i \in 1 .. many : pieces[i] = IF i < many THEN size ELSE n - (i - 1) * size
    BY <2>1
  <2> HIDE DEF size, many, pieces
  <2>3. \A i \in 1 .. many : pieces[i] \in Int
    BY <2>1
  <2> QED BY <2>1, <2>2, <2>3
<1> HIDE DEF size, many, pieces
<1>2. 0 \in I
  <2>1. 1 .. 0 = {} /\ IsFiniteSet({})
    BY FS_EmptySet
  <2>2. SumFunctionOnSet(pieces, 1 .. 0) = 0
    BY <2>1, SumTake
  <2> QED BY <1>1, <2>2
<1>3. ASSUME NEW k \in 0 .. p - 1 - 1, k \in I PROVE k + 1 \in I
  <2>1. k \in Nat /\ k + 1 \in 1 .. many - 1 /\ p \in 1 .. many
    BY <1>1, <1>3 DEF many
  <2>2. 1 .. k + 1 = (1 .. k) \cup {k + 1} /\ k + 1 \notin 1 .. k
    BY <2>1
  <2>3. IsFiniteSet(1 .. k) /\ \A y \in (1 .. k) \cup {k + 1} : pieces[y] \in Int
    BY <1>1, <2>1, FirstNumbers
  <2>4. SumFunctionOnSet(pieces, (1 .. k) \cup {k + 1}) = pieces[k + 1] + SumFunctionOnSet(pieces, 1 .. k)
    BY <2>2, <2>3, SumMore
  <2>5. pieces[k + 1] = size
    BY <1>1, <2>1
  <2>6. size + k * size = (k + 1) * size
    BY <1>1, <2>1
  <2>7. k + 1 \in 0 .. many - 1
    BY <1>1, <2>1
  <2> QED BY <1>3, <2>2, <2>4, <2>5, <2>6, <2>7
<1> HIDE DEF I
<1>4. p - 1 \in Nat
  BY <1>1 DEF many
<1>5. p - 1 \in I
  BY <1>2, <1>3, <1>4, Induction
<1> QED BY <1>5 DEF I, size, pieces

(* chunk cuts a batch as split does.                                       *)
LEMMA ChunksAreSplits ==
  ASSUME NEW s \in Rows, NEW chunks \in Nat \ {0}
  PROVE  Proto!CutAt(s, Proto!TorchPieces(Len(s), chunks)) = SplitBy(s, SizeOf(Len(s), chunks))
<1> DEFINE n == Len(s)
           size == SizeOf(n, chunks)
           many == ManyPieces(n, chunks)
           pieces == Proto!TorchPieces(n, chunks)
<1>1. n \in Nat \ {0}
  BY DEF Rows
<1>2. /\ size \in Nat \ {0} /\ many \in Nat \ {0} /\ pieces \in Seq(Int) /\ Len(pieces) = many
      /\ \A p \in 1 .. many : (p - 1) * size + pieces[p] = Min({p * size, n})
  BY <1>1, PiecesType
<1>3. \A p \in 1 .. many : SumFunctionOnSet(pieces, 1 .. p - 1) = (p - 1) * size
  BY <1>1, PiecesBefore
<1>4. Proto!CutAt(s, pieces) =
        [p \in DOMAIN pieces |-> SubSeq(s, SumFunctionOnSet(pieces, 1 .. p - 1) + 1,
                                           SumFunctionOnSet(pieces, 1 .. p - 1) + pieces[p])]
  BY SameOperators, Zenon DEF Proto!CutAt
<1>5. SplitBy(s, size) = [p \in 1 .. many |-> SubSeq(s, (p - 1) * size + 1, Min({p * size, n}))]
  BY Zenon DEF SplitBy, ManyPieces
<1> HIDE DEF size, many, pieces, n
<1>6. DOMAIN pieces = 1 .. many
  BY <1>2
<1>7. \A p \in 1 .. many : SubSeq(s, SumFunctionOnSet(pieces, 1 .. p - 1) + 1,
                                     SumFunctionOnSet(pieces, 1 .. p - 1) + pieces[p])
                           = SubSeq(s, (p - 1) * size + 1, Min({p * size, n}))
  BY <1>2, <1>3
<1>8. Proto!CutAt(s, pieces) = SplitBy(s, size)
  BY <1>4, <1>5, <1>6, <1>7
<1> QED BY <1>8 DEF size, pieces, n

(* np.array_split at the running totals of the pieces cuts out the pieces. *)
LEMMA SplitsAreChunks ==
  ASSUME NEW s \in Rows, NEW chunks \in Nat \ {0}
  PROVE  LET pieces == Proto!TorchPieces(Len(s), chunks)
         IN  Proto!ArraySplit(s, Proto!ChunkIndices(pieces)) = SplitBy(s, SizeOf(Len(s), chunks))
<1> DEFINE n == Len(s)
           size == SizeOf(n, chunks)
           many == ManyPieces(n, chunks)
           pieces == Proto!TorchPieces(n, chunks)
           places == Proto!ChunkIndices(pieces)
<1>1. n \in Nat \ {0}
  BY DEF Rows
<1>2. /\ size \in Nat \ {0} /\ many \in Nat \ {0} /\ Len(pieces) = many
      /\ (many - 1) * size < n /\ n <= many * size
  BY <1>1, PiecesType
<1>3. \A p \in 1 .. many : SumFunctionOnSet(pieces, 1 .. p - 1) = (p - 1) * size
  BY <1>1, PiecesBefore
<1>4. places = [p \in 1 .. Len(pieces) - 1 |-> SumFunctionOnSet(pieces, 1 .. p)]
  BY SameOperators, Zenon DEF Proto!ChunkIndices
<1>5. SplitBy(s, size) = [p \in 1 .. many |-> SubSeq(s, (p - 1) * size + 1, Min({p * size, n}))]
  BY Zenon DEF SplitBy, ManyPieces
<1>6. Proto!ArraySplit(s, places) =
        [p \in 1 .. Len(places) + 1 |->
           SubSeq(s, IF p = 1 THEN 1 ELSE places[p - 1] + 1,
                     IF p = Len(places) + 1 THEN Len(s) ELSE places[p])]
  BY Zenon DEF Proto!ArraySplit
<1> HIDE DEF size, many, pieces, n, places
<1>7. many - 1 \in Nat /\ Len(places) = many - 1 /\ Len(places) + 1 = many
  BY <1>2, <1>4
<1>8. ASSUME NEW p \in 1 .. many - 1 PROVE places[p] = p * size
  <2>1. p + 1 \in 1 .. many /\ (p + 1) - 1 = p
    BY <1>2
  <2>2. SumFunctionOnSet(pieces, 1 .. p) = p * size
    BY <1>3, <2>1
  <2> QED BY <1>2, <1>4, <2>2
<1>9. ASSUME NEW p \in 1 .. many
      PROVE  /\ (IF p = 1 THEN 1 ELSE places[p - 1] + 1) = (p - 1) * size + 1
             /\ (IF p = many THEN n ELSE places[p]) = Min({p * size, n})
  <2>1. p * size \in Int /\ Min({p * size, n}) = IF p * size <= n THEN p * size ELSE n
    BY <1>1, <1>2, MinOfTwo
  <2>2. p \in Int /\ (p # 1 => p - 1 \in 1 .. many - 1) /\ (p # many => p \in 1 .. many - 1)
    BY <1>2
  <2>3. (IF p = 1 THEN 1 ELSE places[p - 1] + 1) = (p - 1) * size + 1
    <3>1. CASE p = 1
      <4>1. (p - 1) * size = 0
        BY <1>2, <3>1
      <4> QED BY <3>1, <4>1
    <3>2. CASE p # 1
      <4>1. places[p - 1] = (p - 1) * size
        BY <1>8, <2>2, <3>2
      <4> QED BY <3>2, <4>1
    <3> QED BY <3>1, <3>2
  <2>4. (IF p = many THEN n ELSE places[p]) = Min({p * size, n})
    <3>1. CASE p = many
      <4>1. n <= p * size
        BY <1>2, <3>1
      <4>2. Min({p * size, n}) = n
        BY <1>1, <2>1, <4>1
      <4> QED BY <3>1, <4>2
    <3>2. CASE p # many
      <4>1. \A a, b \in Int, c \in Nat : a <= b => a * c <= b * c
        OBVIOUS
      <4>2. p * size <= (many - 1) * size /\ (many - 1) * size \in Int
        BY <1>2, <2>2, <3>2, <4>1
      <4>3. p * size <= n
        BY <1>1, <1>2, <2>1, <4>2
      <4>4. places[p] = p * size
        BY <1>8, <2>2, <3>2
      <4> QED BY <2>1, <3>2, <4>3, <4>4
    <3> QED BY <3>1, <3>2
  <2> QED BY <2>3, <2>4
<1>10. Len(s) = n
  BY DEF n
<1>11. Proto!ArraySplit(s, places) = SplitBy(s, size)
  BY <1>5, <1>6, <1>7, <1>9, <1>10
<1> QED BY <1>11 DEF size, pieces, n, places

(* Rows that divide are cut into as many chunks as asked for.              *)
LEMMA EvenPieces ==
  ASSUME NEW n \in Nat \ {0}, NEW chunks \in Nat \ {0}, n % chunks = 0
  PROVE  ManyPieces(n, chunks) = chunks
<1> DEFINE q == n \div chunks
           size == SizeOf(n, chunks)
           many == ManyPieces(n, chunks)
<1>1. q \in Int /\ n = q * chunks
  OBVIOUS
<1>2. size \in Nat \ {0} /\ (size - 1) * chunks < n /\ n <= size * chunks
  BY CeilDivPositive DEF SizeOf
<1>3. many \in Nat \ {0} /\ (many - 1) * size < n /\ n <= many * size
  BY <1>2, CeilDivPositive DEF ManyPieces
<1> HIDE DEF q, size, many
<1>4. \A a, b \in Int, c \in Nat \ {0} : a * c < b * c => a < b
  OBVIOUS
<1>5. \A a, b \in Int, c \in Nat \ {0} : a * c <= b * c => a <= b
  OBVIOUS
<1>6. size - 1 < q /\ q <= size
  <2>1. (size - 1) * chunks < q * chunks /\ q * chunks <= size * chunks
    BY <1>1, <1>2
  <2> QED BY <1>1, <1>2, <1>4, <1>5, <2>1
<1>7. q = size
  BY <1>1, <1>2, <1>6
<1>8. n = chunks * size
  BY <1>1, <1>7
<1>9. many - 1 < chunks /\ chunks <= many
  BY <1>2, <1>3, <1>4, <1>5, <1>8
<1>10. many = chunks
  BY <1>3, <1>9
<1> QED BY <1>10 DEF many

-----------------------------------------------------------------------------
(* Calls.                                                                  *)

(* A chunk of whole rows is one, unless the rows cannot be divided.        *)
LEMMA ChunkRows ==
  ASSUME NEW s \in Rows, NEW chunks \in Nat \ {0}, NEW padding_enabled \in BOOLEAN
  PROVE  /\ Proto!ChunkRaises(BatchOf(s), chunks, padding_enabled) => Len(s) % chunks # 0
         /\ ~ Proto!ChunkRaises(BatchOf(s), chunks, padding_enabled) =>
              \E parts :
                /\ parts \in Seq(Seq(Nat)) /\ Len(parts) = chunks
                /\ FlattenSeq(parts) = s
                /\ Proto!Chunk(BatchOf(s), chunks) = [p \in 1 .. chunks |-> BatchOf(parts[p])]
<1> DEFINE n == Len(s)
           size == SizeOf(n, chunks)
           pieces == Proto!TorchPieces(n, chunks)
           parts == SplitBy(s, size)
<1>1. n \in Nat \ {0} /\ s \in Seq(Nat) /\ s # << >>
  BY DEF Rows
<1>2. size \in Nat \ {0} /\ Len(pieces) = ManyPieces(n, chunks)
  BY <1>1, PiecesType
<1>3. /\ parts \in Seq(Seq(Nat)) /\ Len(parts) = ManyPieces(n, chunks)
      /\ FlattenSeq(parts) = s
  <2>1. /\ SplitBy(s, size) \in Seq(Seq(Nat) \ {<< >>})
        /\ Len(SplitBy(s, size)) = CeilDiv(Len(s), size)
        /\ FlattenSeq(SplitBy(s, size)) = s
    BY <1>1, <1>2, SplitType
  <2> QED BY <2>1 DEF ManyPieces
<1>4. Proto!CutAt(s, pieces) = parts
  BY ChunksAreSplits
<1>5. Proto!Length(BatchOf(s)) = n /\ BatchOf(s).batch = s /\ BatchOf(s).non_tensor = s
  BY BatchParts
<1>6. Proto!ChunkRaises(BatchOf(s), chunks, padding_enabled) <=>
        (~ padding_enabled /\ n % chunks # 0) \/ Len(pieces) # chunks
  BY <1>5, Zenon DEF Proto!ChunkRaises
<1>7. Proto!ChunkRaises(BatchOf(s), chunks, padding_enabled) => n % chunks # 0
  BY <1>1, <1>2, <1>6, EvenPieces
<1>8. Proto!Chunk(BatchOf(s), chunks) = [p \in 1 .. chunks |-> BatchOf(parts[p])]
  <2>1. Proto!Chunk(BatchOf(s), chunks) =
          LET sizes   == Proto!TorchPieces(Proto!Length(BatchOf(s)), chunks)
              tensors == Proto!CutAt(BatchOf(s).batch, sizes)
              objects == Proto!ArraySplit(BatchOf(s).non_tensor, Proto!ChunkIndices(sizes))
          IN  [p \in 1 .. chunks |-> Proto!DataProto(tensors[p], objects[p])]
    BY Zenon DEF Proto!Chunk
  <2>2. Proto!ArraySplit(s, Proto!ChunkIndices(pieces)) = parts
    BY SplitsAreChunks
  <2> QED BY <1>4, <1>5, <2>1, <2>2, Zenon DEF BatchOf
<1> HIDE DEF n, pieces, parts
<1> QED BY <1>2, <1>3, <1>6, <1>7, <1>8 DEF n

(* Places that are picked, in increasing order and none left out.          *)
Picks(K, rank, m, k) ==
  /\ m \in Nat /\ k \in Nat
  /\ rank \in [1 .. m -> 1 .. k] /\ K \subseteq 1 .. m
  /\ \A d \in 1 .. k : \E q \in K : rank[q] = d
  /\ \A q, r \in K : q < r => rank[q] < rank[r]
PicksFrom(one, all, K, rank, m) ==
  /\ Len(one) = m
  /\ \A r \in 1 .. m : one[r] = IF r \in K THEN << all[rank[r]] >> ELSE << >>

(* f[r] is as much of all as has been picked until r.                      *)
Upto(f, all, K, rank, r, d) ==
  /\ Len(f[r]) = d /\ \A i \in 1 .. d : f[r][i] = all[i]
  /\ \A q \in K : q <= r <=> rank[q] <= d

(* The next place picked is that of the next member.                       *)
LEMMA NextPicked ==
  ASSUME NEW K, NEW rank, NEW m, NEW k, Picks(K, rank, m, k),
         NEW r \in 0 .. m - 1, NEW d \in 0 .. k, \A q \in K : q <= r <=> rank[q] <= d
  PROVE  /\ r + 1 \notin K => \A q \in K : q <= r + 1 <=> rank[q] <= d
         /\ r + 1 \in K => /\ rank[r + 1] = d + 1 /\ d + 1 \in 1 .. k
                           /\ \A q \in K : q <= r + 1 <=> rank[q] <= d + 1
<1>1. /\ m \in Nat /\ k \in Nat /\ \A q \in K : q \in 1 .. m /\ rank[q] \in 1 .. k
      /\ \A x \in 1 .. k : \E q \in K : rank[q] = x
      /\ \A q, x \in K : q < x => rank[q] < rank[x]
  BY DEF Picks
<1>2. r + 1 \in 1 .. m /\ r \in Int /\ d \in Int
  BY <1>1
<1>3. ASSUME r + 1 \notin K, NEW q \in K PROVE q <= r + 1 <=> rank[q] <= d
  <2>1. q \in Int /\ q # r + 1
    BY <1>1, <1>3
  <2>2. q <= r + 1 <=> q <= r
    BY <1>2, <2>1
  <2> QED BY <2>2
<1>4. ASSUME r + 1 \in K
      PROVE  /\ rank[r + 1] = d + 1 /\ d + 1 \in 1 .. k
             /\ \A q \in K : q <= r + 1 <=> rank[q] <= d + 1
  <2>1. rank[r + 1] \in 1 .. k /\ ~ (rank[r + 1] <= d)
    <3>1. ~ (r + 1 <= r)
      BY <1>2
    <3> QED BY <1>1, <1>4, <3>1
  <2>2. d + 1 \in 1 .. k
    BY <1>1, <1>2, <2>1
  <2>3. PICK q \in K : rank[q] = d + 1
    BY <1>1, <2>2
  <2>4. q \in 1 .. m /\ ~ (q <= r)
    BY <1>1, <1>2, <2>3
  <2>5. ~ (r + 1 < q)
    <3>1. r + 1 < q => rank[r + 1] < rank[q]
      BY <1>1, <1>4
    <3> QED BY <1>1, <1>2, <2>1, <2>3, <3>1
  <2>6. q = r + 1
    BY <1>2, <2>4, <2>5
  <2>7. rank[r + 1] = d + 1
    BY <2>3, <2>6
  <2>8. ASSUME NEW x \in K PROVE x <= r + 1 <=> rank[x] <= d + 1
    <3>1. x \in Int /\ rank[x] \in Int
      BY <1>1
    <3>2. r + 1 < x => d + 1 < rank[x]
      BY <1>1, <1>4, <2>7
    <3>3. x < r + 1 => rank[x] < d + 1
      BY <1>1, <1>4, <2>7
    <3>4. x = r + 1 => rank[x] = d + 1
      BY <2>7
    <3> QED BY <1>2, <3>1, <3>2, <3>3, <3>4
  <2> QED BY <2>2, <2>7, <2>8
<1> QED BY <1>3, <1>4

(* One member more.                                                        *)
LEMMA OneMore ==
  ASSUME NEW X, NEW s \in Seq(X), NEW all \in Seq(X), NEW d \in Nat, d + 1 <= Len(all),
         Len(s) = d, \A i \in 1 .. d : s[i] = all[i]
  PROVE  LET t == s \o << all[d + 1] >>
         IN  Len(t) = d + 1 /\ \A i \in 1 .. d + 1 : t[i] = all[i]
OBVIOUS

(* Then all members are picked in their order.                             *)
LEMMA PickedInOrder ==
  ASSUME NEW X, NEW all \in Seq(X), NEW m, NEW rank, NEW K, Picks(K, rank, m, Len(all)),
         NEW one \in Seq(Seq(X)), PicksFrom(one, all, K, rank, m)
  PROVE  FlattenSeq(one) = all
<1> DEFINE k == Len(all)
<1>1. m \in Nat /\ k \in Nat /\ Len(one) = m
  BY DEF Picks, PicksFrom
<1>2. PICK f : Concatenations(f, X, m, one) /\ FlattenSeq(one) = f[m]
  BY <1>1, FlattenByPrefixes
<1>3. /\ f \in [0 .. m -> Seq(X)] /\ f[0] = << >>
      /\ \A r \in 1 .. m : f[r] = f[r - 1] \o one[r]
  BY <1>2 DEF Concatenations
<1> DEFINE I == {r \in 0 .. m : \E d \in 0 .. k : Upto(f, all, K, rank, r, d)}
<1>4. 0 \in I
  <2>1. ASSUME NEW q \in K PROVE q <= 0 <=> rank[q] <= 0
    <3>1. q \in 1 .. m /\ rank[q] \in 1 .. k
      BY DEF Picks
    <3> QED BY <1>1, <3>1
  <2>2. Upto(f, all, K, rank, 0, 0)
    BY <1>3, <2>1 DEF Upto
  <2> QED BY <1>1, <2>2
<1>5. ASSUME NEW r \in 0 .. m - 1, r \in I PROVE r + 1 \in I
  <2>1. PICK d \in 0 .. k : Upto(f, all, K, rank, r, d)
    BY <1>5
  <2>2. r + 1 \in 1 .. m /\ r + 1 \in 0 .. m /\ r \in 0 .. m /\ r + 1 - 1 = r
    BY <1>1
  <2>3. f[r] \in Seq(X) /\ f[r + 1] = f[r] \o one[r + 1]
    <3>1. \A x \in 1 .. m : f[x] = f[x - 1] \o one[x]
      BY <1>3, Zenon
    <3> DEFINE y == r + 1
    <3>3. y \in 1 .. m /\ y - 1 = r
      BY <2>2
    <3> HIDE DEF y
    <3>4. f[y] = f[y - 1] \o one[y]
      BY <3>1, <3>3, Zenon
    <3>2. f[r] \in Seq(X)
      BY <1>3, <2>2, Zenon
    <3> QED BY <3>2, <3>3, <3>4 DEF y
  <2>4. /\ Len(f[r]) = d /\ \A i \in 1 .. d : f[r][i] = all[i]
        /\ \A q \in K : q <= r <=> rank[q] <= d
    BY <2>1 DEF Upto
  <2>5. /\ r + 1 \notin K => \A q \in K : q <= r + 1 <=> rank[q] <= d
        /\ r + 1 \in K => /\ rank[r + 1] = d + 1 /\ d + 1 \in 1 .. k
                          /\ \A q \in K : q <= r + 1 <=> rank[q] <= d + 1
    BY <2>1, <2>4, NextPicked
  <2> HIDE DEF I, k
  <2>6. \E e \in 0 .. k : Upto(f, all, K, rank, r + 1, e)
    <3>1. CASE r + 1 \notin K
      <4>1. one[r + 1] = << >>
        BY <2>2, <3>1 DEF PicksFrom
      <4>2. f[r + 1] = f[r]
        BY <2>3, <4>1
      <4>3. Upto(f, all, K, rank, r + 1, d)
        BY <2>4, <2>5, <3>1, <4>2 DEF Upto
      <4> QED BY <2>1, <4>3
    <3>2. CASE r + 1 \in K
      <4>1. one[r + 1] = << all[d + 1] >>
        BY <2>2, <2>5, <3>2 DEF PicksFrom
      <4>2. d \in Nat /\ d + 1 <= Len(all) /\ d + 1 \in 0 .. k
        BY <1>1, <2>1, <2>5, <3>2 DEF k
      <4>3. Len(f[r + 1]) = d + 1 /\ \A i \in 1 .. d + 1 : f[r + 1][i] = all[i]
        BY <2>3, <2>4, <4>1, <4>2, OneMore
      <4>4. Upto(f, all, K, rank, r + 1, d + 1)
        BY <2>5, <3>2, <4>3 DEF Upto
      <4> QED BY <4>2, <4>4
    <3> QED BY <3>1, <3>2
  <2> QED BY <2>2, <2>6 DEF I
<1>6. m \in I
  <2> HIDE DEF I
  <2> QED BY <1>1, <1>4, <1>5, Induction
<1>7. PICK d \in 0 .. k : Upto(f, all, K, rank, m, d)
  BY <1>6
<1>8. d = k
  <2>1. CASE k = 0
    BY <1>7, <2>1
  <2>2. CASE k > 0
    <3>1. k \in 1 .. k
      BY <1>1, <2>2
    <3>2. PICK q \in K : rank[q] = k
      BY <3>1 DEF Picks
    <3>3. q \in 1 .. m /\ (q <= m <=> rank[q] <= d)
      BY <1>7 DEF Picks, Upto
    <3> QED BY <1>1, <1>7, <3>2, <3>3
  <2> QED BY <1>1, <2>1, <2>2
<1>9. f[m] \in Seq(X) /\ Len(f[m]) = Len(all) /\ \A i \in 1 .. Len(all) : f[m][i] = all[i]
  <2>1. f[m] \in Seq(X)
    BY <1>1, <1>3
  <2> QED BY <1>7, <1>8, <2>1 DEF Upto
<1>10. f[m] = all
  <2> HIDE DEF I
  <2>1. \A t \in Seq(X) : Len(t) = Len(all) /\ (\A i \in 1 .. Len(all) : t[i] = all[i]) => t = all
    OBVIOUS
  <2> QED BY <1>9, <2>1
<1> QED BY <1>2, <1>10

(* The ranks that are collected, in their order, are those of all the data *)
(* parallel ranks in theirs.                                               *)
LEMMA CollectedInOrder ==
  ASSUME NEW X, NEW all \in Seq(X), NEW mesh \in Meshes, Len(all) = mesh.dp_size,
         NEW outputs, outputs = [r \in DOMAIN mesh.dp_rank |-> all[mesh.dp_rank[r]]]
  PROVE  FlattenSeq([r \in DOMAIN outputs |->
                       IF mesh.collect[r] THEN << outputs[r] >> ELSE << >>]) = all
<1> DEFINE rank == mesh.dp_rank
           m == Len(rank)
           k == mesh.dp_size
           one == [r \in DOMAIN outputs |-> IF mesh.collect[r] THEN << outputs[r] >> ELSE << >>]
           K == {q \in 1 .. m : mesh.collect[q]}
<1>1. /\ k \in Nat /\ rank \in Seq(1 .. k)
      /\ \A d \in 1 .. k : \E r \in DOMAIN rank : mesh.collect[r] /\ rank[r] = d
      /\ \A q, r \in DOMAIN rank : mesh.collect[q] /\ mesh.collect[r] /\ q < r => rank[q] < rank[r]
  BY MeshAssumption
<1>2. m \in Nat /\ DOMAIN rank = 1 .. m /\ rank \in [1 .. m -> 1 .. k]
  BY <1>1
<1> HIDE DEF k, m, rank
<1>3. DOMAIN outputs = 1 .. m /\ \A r \in 1 .. m : outputs[r] = all[rank[r]] /\ outputs[r] \in X
  <2>1. outputs = [r \in 1 .. m |-> all[rank[r]]]
    BY <1>2 DEF rank
  <2>2. \A r \in 1 .. m : rank[r] \in 1 .. k
    BY <1>2
  <2>3. \A d \in 1 .. k : all[d] \in X
    BY ElementOfSeq DEF k
  <2> QED BY <2>1, <2>2, <2>3
<1>4. one \in Seq(Seq(X)) /\ Len(one) = m
      /\ \A r \in 1 .. m : one[r] = IF r \in K THEN << all[rank[r]] >> ELSE << >>
  <2>1. ASSUME NEW r \in 1 .. m
        PROVE  << outputs[r] >> \in Seq(X) /\ << >> \in Seq(X)
    <3>1. outputs[r] \in X
      BY <1>3
    <3> HIDE DEF one
    <3> QED BY <3>1
  <2>2. one = [r \in 1 .. m |-> IF mesh.collect[r] THEN << outputs[r] >> ELSE << >>]
    BY <1>3
  <2>3. one \in [1 .. m -> Seq(X)]
    BY <2>1, <2>2
  <2>4. \A r \in 1 .. m : one[r] = IF r \in K THEN << all[rank[r]] >> ELSE << >>
    BY <1>3, <2>2
  <2> HIDE DEF one
  <2> QED BY <1>2, <2>3, <2>4, FunctionIsSeq
<1>5. Picks(K, rank, m, k)
  BY <1>1, <1>2 DEF Picks
<1>6. Len(all) = k
  BY DEF k
<1> HIDE DEF one, K
<1>7. PicksFrom(one, all, K, rank, m)
  BY <1>4 DEF PicksFrom
<1>8. FlattenSeq(one) = all
  BY <1>4, <1>5, <1>6, <1>7, PickedInOrder
<1> QED BY <1>8 DEF one

(* What a worker group with a mesh makes of its shares.                    *)
LEMMA CollectRows ==
  ASSUME NEW s \in Rows, NEW mesh \in Meshes,
         NEW parts \in Seq(Seq(Nat)), Len(parts) = mesh.dp_size, FlattenSeq(parts) = s,
         NEW outputs,
         outputs = [r \in DOMAIN mesh.dp_rank |-> BatchOf(parts[mesh.dp_rank[r]])]
  PROVE  Proto!CollectNd(mesh, outputs) = BatchOf(s)
<1> DEFINE k == mesh.dp_size
           all == [p \in 1 .. k |-> BatchOf(parts[p])]
           X == {all[p] : p \in 1 .. k}
           kept == [r \in DOMAIN outputs |->
                      IF mesh.collect[r] THEN << outputs[r] >> ELSE << >>]
<1>1. k \in Nat \ {0} /\ mesh.dp_rank \in Seq(1 .. k)
  BY MeshAssumption, Zenon
<1>2. all \in Seq(X) /\ Len(all) = k
  <2>1. all \in [1 .. k -> X]
    OBVIOUS
  <2> HIDE DEF all, X
  <2> QED BY <1>1, <2>1, FunctionIsSeq
<1>3. outputs = [r \in DOMAIN mesh.dp_rank |-> all[mesh.dp_rank[r]]]
  BY <1>1
<1>4. FlattenSeq(kept) = all
  <2>1. Len(all) = mesh.dp_size
    BY <1>2
  <2> HIDE DEF all, X
  <2> QED BY <1>2, <1>3, <2>1, CollectedInOrder, Zenon
<1>5. Proto!CollectNd(mesh, outputs) = Proto!Concat(FlattenSeq(kept))
  BY SameOperators, Zenon DEF Proto!CollectNd
<1>6. DOMAIN parts = 1 .. k /\ parts = [p \in 1 .. k |-> parts[p]]
  BY <1>1
<1>7. DOMAIN all = 1 .. k /\ \A p \in 1 .. k : all[p] = BatchOf(parts[p])
  OBVIOUS
<1>8. Proto!Concat(all) = BatchOf(FlattenSeq(parts))
  <2> HIDE DEF all, k
  <2> QED BY <1>1, <1>6, <1>7, ConcatRows
<1> QED BY <1>4, <1>5, <1>8

(* A call of a worker group with a mesh answers the batch it was made      *)
(* with, or its rows do not divide.                                        *)
LEMMA CallNdRows ==
  ASSUME NEW s \in Rows, NEW mesh \in Meshes, NEW padding_enabled \in BOOLEAN
  PROVE  \/ Proto!CallNd(mesh, BatchOf(s), padding_enabled) = BatchOf(s)
         \/ /\ Proto!CallNd(mesh, BatchOf(s), padding_enabled) = Proto!Raised
            /\ Len(s) % mesh.dp_size # 0
<1> DEFINE k == mesh.dp_size
           chunks == Proto!Chunk(BatchOf(s), k)
           shares == Proto!DispatchNd(mesh, chunks)
           outputs == [r \in DOMAIN shares |-> Proto!Answer(shares[r])]
<1>1. k \in Nat \ {0} /\ mesh.dp_rank \in Seq(1 .. k)
  BY MeshAssumption
<1>2. CASE Proto!ChunkRaises(BatchOf(s), k, padding_enabled)
  <2>1. Proto!CallNd(mesh, BatchOf(s), padding_enabled) = Proto!Raised
    BY <1>2, Zenon DEF Proto!CallNd
  <2>2. Len(s) % k # 0
    BY <1>1, <1>2, ChunkRows
  <2> QED BY <2>1, <2>2
<1>3. CASE ~ Proto!ChunkRaises(BatchOf(s), k, padding_enabled)
  <2>1. PICK parts : /\ parts \in Seq(Seq(Nat)) /\ Len(parts) = k
                     /\ FlattenSeq(parts) = s
                     /\ chunks = [p \in 1 .. k |-> BatchOf(parts[p])]
    BY <1>1, <1>3, ChunkRows
  <2>2. Proto!CallNd(mesh, BatchOf(s), padding_enabled) = Proto!CollectNd(mesh, outputs)
    BY <1>3, Zenon DEF Proto!CallNd
  <2>3. shares = [r \in DOMAIN mesh.dp_rank |-> chunks[mesh.dp_rank[r]]]
    BY Zenon DEF Proto!DispatchNd
  <2>4. DOMAIN shares = DOMAIN mesh.dp_rank
    BY <2>3
  <2>5. ASSUME NEW r \in DOMAIN mesh.dp_rank
        PROVE  Proto!Answer(shares[r]) = BatchOf(parts[mesh.dp_rank[r]])
    <3>1. mesh.dp_rank[r] \in 1 .. k /\ parts[mesh.dp_rank[r]] \in Seq(Nat)
      BY <1>1, <2>1
    <3>2. shares[r] = BatchOf(parts[mesh.dp_rank[r]])
      BY <2>1, <2>3, <3>1
    <3> QED BY <3>1, <3>2, RowsAnswered
  <2> HIDE DEF shares
  <2>6. outputs = [r \in DOMAIN mesh.dp_rank |-> BatchOf(parts[mesh.dp_rank[r]])]
    BY <2>4, <2>5
  <2> HIDE DEF outputs
  <2>7. Proto!CollectNd(mesh, outputs) = BatchOf(s)
    BY <2>1, <2>6, CollectRows
  <2> QED BY <2>2, <2>7
<1> QED BY <1>2, <1>3

(* What split cuts, concat joins.                                          *)
LEMMA SplitRows ==
  ASSUME NEW s \in Rows, NEW size \in Nat \ {0}
  PROVE  Proto!Concat(Proto!Split(BatchOf(s), size)) = BatchOf(s)
<1> DEFINE n == Len(s)
           many == CeilDiv(n, size)
           parts == SplitBy(s, size)
           part(p) == [i \in 1 .. Min({size, n - (p - 1) * size}) |-> s[(p - 1) * size + i]]
<1>1. n \in Nat \ {0} /\ s \in Seq(Nat) /\ s # << >>
  BY DEF Rows
<1>2. /\ parts \in Seq(Seq(Nat)) /\ Len(parts) = many /\ FlattenSeq(parts) = s
  <2>1. /\ SplitBy(s, size) \in Seq(Seq(Nat) \ {<< >>})
        /\ Len(SplitBy(s, size)) = CeilDiv(Len(s), size)
        /\ FlattenSeq(SplitBy(s, size)) = s
    BY <1>1, SplitType
  <2> QED BY <2>1
<1>3. many \in Nat \ {0} /\ (many - 1) * size < n
  BY <1>1, CeilDivPositive
<1>4. Proto!Split(BatchOf(s), size) = [p \in 1 .. many |-> BatchOf(part(p))]
  <2>1. Proto!Length(BatchOf(s)) = n /\ Proto!CeilDiv(n, size) = many
    BY BatchParts, Zenon DEF Proto!CeilDiv, CeilDiv
  <2>2. Proto!Split(BatchOf(s), size) =
          [p \in 1 .. many |->
             Proto!SelectIdxs(BatchOf(s), [i \in 1 .. Min({size, n - (p - 1) * size}) |-> (p - 1) * size + i])]
    BY <2>1, SameOperators, Zenon DEF Proto!Split
  <2>3. ASSUME NEW p
        PROVE  Proto!SelectIdxs(BatchOf(s), [i \in 1 .. Min({size, n - (p - 1) * size}) |-> (p - 1) * size + i])
                 = BatchOf(part(p))
    <3> DEFINE idxs == [i \in 1 .. Min({size, n - (p - 1) * size}) |-> (p - 1) * size + i]
    <3>1. Proto!SelectIdxs(BatchOf(s), idxs) = BatchOf([i \in DOMAIN idxs |-> s[idxs[i]]])
      BY SelectRows
    <3>2. [i \in DOMAIN idxs |-> s[idxs[i]]] = part(p)
      OBVIOUS
    <3> QED BY <3>1, <3>2
  <2> HIDE DEF part
  <2> QED BY <2>2, <2>3
<1>5. ASSUME NEW p \in 1 .. many PROVE part(p) = parts[p]
  <2> DEFINE a == (p - 1) * size
             b == Min({p * size, n})
             w == Min({size, n - a})
  <2>1. p \in Int /\ p - 1 \in Nat /\ a \in Nat /\ p * size \in Int /\ p * size = a + size /\ a < n
    <3>1. p \in Int /\ p - 1 \in Nat /\ p - 1 <= many - 1 /\ many - 1 \in Int
      BY <1>3
    <3>2. (p - 1) * size <= (many - 1) * size
      BY <3>1
    <3>3. (many - 1) * size \in Int /\ a \in Nat
      BY <3>1
    <3>4. p * size \in Int /\ p * size = a + size
      BY <3>1
    <3> HIDE DEF a
    <3> QED BY <1>1, <1>3, <3>1, <3>2, <3>3, <3>4 DEF a
  <2> HIDE DEF a
  <2>2. b \in a .. n /\ w = b - a
    <3>0. p * size \in Int /\ n \in Int /\ size \in Int /\ n - a \in Int
      BY <1>1, <2>1
    <3>1. b = IF p * size <= n THEN p * size ELSE n
      BY <3>0, MinOfTwo, Zenon
    <3>2. w = IF size <= n - a THEN size ELSE n - a
      BY <3>0, MinOfTwo, Zenon
    <3> HIDE DEF b, w, n
    <3> QED BY <1>1, <2>1, <3>1, <3>2
  <2>3. parts[p] = SubSeq(s, a + 1, b)
    BY <1>3 DEF SplitBy, a
  <2> HIDE DEF b, w, parts
  <2>4. /\ SubSeq(s, a + 1, b) \in Seq(Nat) /\ Len(SubSeq(s, a + 1, b)) = b - a
        /\ \A x \in 1 .. b - a : SubSeq(s, a + 1, b)[x] = s[a + x]
    BY <1>1, <2>1, <2>2, PartOfSeq, a \in 0 .. Len(s)
  <2>5. part(p) = [i \in 1 .. w |-> s[a + i]]
    BY DEF a, w
  <2>6. \A i \in 1 .. w : part(p)[i] = parts[p][i]
    <3> HIDE DEF part
    <3> QED BY <2>2, <2>3, <2>4, <2>5
  <2>7. part(p) = [i \in 1 .. w |-> part(p)[i]] /\ w \in Nat
    <3>1. w \in Nat
      BY <2>1, <2>2, <1>1
    <3> QED BY <2>5, <3>1
  <2>8. parts[p] \in Seq(Nat) /\ Len(parts[p]) = w
    BY <2>2, <2>3, <2>4
  <2>9. parts[p] = [i \in 1 .. w |-> parts[p][i]]
    BY <2>8
  <2> HIDE DEF part
  <2> QED BY <2>6, <2>7, <2>9
<1>6. Proto!Split(BatchOf(s), size) = [p \in 1 .. many |-> BatchOf(parts[p])]
  <2> HIDE DEF part, parts
  <2> QED BY <1>4, <1>5
<1> HIDE DEF parts, many
<1>7. DOMAIN parts = 1 .. many /\ parts = [p \in 1 .. many |-> parts[p]]
  BY <1>2
<1> DEFINE batches == [p \in 1 .. many |-> BatchOf(parts[p])]
<1>8. DOMAIN batches = 1 .. many /\ \A p \in 1 .. many : batches[p] = BatchOf(parts[p])
  OBVIOUS
<1> HIDE DEF batches
<1>9. Proto!Concat(batches) = BatchOf(FlattenSeq(parts))
  BY <1>3, <1>7, <1>8, ConcatRows
<1> QED BY <1>2, <1>6, <1>9 DEF batches

(* The shares fetched by the ranks are those of the call with them.        *)
LEMMA FutureIsCall ==
  ASSUME NEW mesh \in Meshes, NEW outputs
  PROVE  Proto!CallFuture(mesh, outputs) = Proto!CallNd(mesh, Proto!Concat(outputs), FALSE)
<1> DEFINE all == Proto!Concat(outputs)
           shares == Proto!DispatchNd(mesh, Proto!Chunk(all, mesh.dp_size))
           fetched == [r \in DOMAIN mesh.dp_rank |->
                         Proto!Answer(Proto!Chunk(all, mesh.dp_size)[mesh.dp_rank[r]])]
<1>1. [r \in DOMAIN shares |-> Proto!Answer(shares[r])] = fetched
  <2>1. shares = [r \in DOMAIN mesh.dp_rank |-> Proto!Chunk(all, mesh.dp_size)[mesh.dp_rank[r]]]
    BY Zenon DEF Proto!DispatchNd
  <2> HIDE DEF shares
  <2> QED BY <2>1
<1>2. Proto!CallFuture(mesh, outputs) =
        IF Proto!ChunkRaises(all, mesh.dp_size, FALSE) THEN Proto!Raised
        ELSE Proto!CollectNd(mesh, fetched)
  BY Zenon DEF Proto!CallFuture
<1>3. Proto!CallNd(mesh, all, FALSE) =
        IF Proto!ChunkRaises(all, mesh.dp_size, FALSE) THEN Proto!Raised
        ELSE Proto!CollectNd(mesh, [r \in DOMAIN shares |-> Proto!Answer(shares[r])])
  BY Zenon DEF Proto!CallNd
<1> HIDE DEF all, shares, fetched
<1>4. Proto!CallFuture(mesh, outputs) = Proto!CallNd(mesh, all, FALSE)
  BY <1>1, <1>2, <1>3, Zenon
<1> QED BY <1>4 DEF all

-----------------------------------------------------------------------------
(* Padding.                                                                *)

(* Sequences of the same members are the same.                             *)
LEMMA SameMembers ==
  ASSUME NEW X, NEW s \in Seq(X), NEW t \in Seq(X), Len(t) = Len(s),
         \A i \in 1 .. Len(s) : t[i] = s[i]
  PROVE  t = s
OBVIOUS

(* Rows are put behind others.                                             *)
LEMMA AppendRows ==
  ASSUME NEW s \in Seq(Nat), NEW t \in Seq(Nat)
  PROVE  Proto!Concat(<< BatchOf(s), BatchOf(t) >>) = BatchOf(s \o t)
<1>1. Proto!Concat(<< BatchOf(s), BatchOf(t) >>) = BatchOf(FlattenSeq(<< s, t >>))
  <2> DEFINE parts == << s, t >>
             batches == << BatchOf(s), BatchOf(t) >>
  <2>1. DOMAIN parts = 1 .. 2 /\ DOMAIN batches = 1 .. 2 /\ parts = [p \in 1 .. 2 |-> parts[p]]
        /\ \A p \in 1 .. 2 : batches[p] = BatchOf(parts[p])
    OBVIOUS
  <2> HIDE DEF parts, batches
  <2>2. Proto!Concat(batches) = BatchOf(FlattenSeq(parts))
    BY <2>1, ConcatRows, 2 \in Nat
  <2> QED BY <2>2 DEF parts, batches
<1>2. FlattenSeq(<< s, t >>) = s \o t
  <2> DEFINE u == << s, t >>
  <2>1. u \in Seq(Seq(Nat)) /\ Len(u) = 2 /\ u[1] = s /\ u[2] = t
    OBVIOUS
  <2> HIDE DEF u
  <2>2. PICK f : Concatenations(f, Nat, Len(u), u) /\ FlattenSeq(u) = f[Len(u)]
    BY <2>1, FlattenByPrefixes
  <2>3. /\ f[0] = << >> /\ FlattenSeq(u) = f[2]
        /\ \A k \in 1 .. 2 : f[k] = f[k - 1] \o u[k]
    BY <2>1, <2>2 DEF Concatenations
  <2>4. f[1] = f[0] \o s /\ f[2] = f[1] \o t
    <3>1. 1 \in 1 .. 2 /\ 2 \in 1 .. 2 /\ 1 - 1 = 0 /\ 2 - 1 = 1
      OBVIOUS
    <3> QED BY <2>1, <2>3, <3>1
  <2>5. << >> \o s = s
    OBVIOUS
  <2> QED BY <2>3, <2>4, <2>5 DEF u
<1> QED BY <1>1, <1>2

(* A number of rows and their padding divide.                              *)
LEMMA PaddedDivides ==
  ASSUME NEW n \in Nat, NEW divisor \in Nat \ {0}
  PROVE  /\ Proto!PadSizeTo(n, divisor) \in Nat
         /\ (n + Proto!PadSizeTo(n, divisor)) % divisor = 0
<1> DEFINE q == n \div divisor
           r == n % divisor
<1>1. q \in Int /\ r \in 0 .. divisor - 1 /\ n = q * divisor + r /\ q * divisor \in Int
  OBVIOUS
<1>2. \A a \in Int : (a * divisor) % divisor = 0
  OBVIOUS
<1>3. (q + 1) * divisor = q * divisor + divisor
  BY <1>1
<1>4. Proto!PadSizeTo(n, divisor) = IF r = 0 THEN 0 ELSE divisor - r
  BY DEF Proto!PadSizeTo
<1> HIDE DEF q, r
<1>5. CASE r = 0
  BY <1>1, <1>2, <1>4, <1>5
<1>6. CASE r # 0
  <2>1. n + (divisor - r) = (q + 1) * divisor
    BY <1>1, <1>3
  <2> QED BY <1>1, <1>2, <1>4, <1>6, <2>1
<1> QED BY <1>5, <1>6

(* Padding goes behind the rows, which stay as they are.                   *)
IsPadded(t, s, size) ==
  /\ t \in Rows /\ Len(t) = Len(s) + size
  /\ SubSeq(t, 1, Len(s)) = s

LEMMA PaddedRows ==
  ASSUME NEW s \in Rows, NEW size \in Nat, NEW idxs \in [1 .. size -> 1 .. Len(s)]
  PROVE  \E t : /\ IsPadded(t, s, size)
                /\ Proto!Concat(<< BatchOf(s), Proto!SelectIdxs(BatchOf(s), idxs) >>) = BatchOf(t)
                /\ size = 0 => t = s
<1> DEFINE pad == [i \in 1 .. size |-> s[idxs[i]]]
           t == s \o pad
<1>1. s \in Seq(Nat) /\ s # << >> /\ Len(s) \in Nat
  BY DEF Rows
<1>2. pad \in Seq(Nat) /\ Len(pad) = size
  <2>1. pad \in [1 .. size -> Nat]
    BY <1>1
  <2> HIDE DEF pad
  <2> QED BY <2>1, FunctionIsSeq
<1>3. Proto!SelectIdxs(BatchOf(s), idxs) = BatchOf(pad)
  <2>1. [i \in DOMAIN idxs |-> s[idxs[i]]] = pad
    OBVIOUS
  <2> QED BY <2>1, SelectRows
<1> HIDE DEF pad
<1>4. t \in Seq(Nat) /\ t # << >> /\ Len(t) = Len(s) + size /\ \A i \in 1 .. Len(s) : t[i] = s[i]
  <2>1. /\ t \in Seq(Nat) /\ Len(t) = Len(s) + Len(pad)
        /\ \A i \in 1 .. Len(s) + Len(pad) : t[i] = IF i <= Len(s) THEN s[i] ELSE pad[i - Len(s)]
    BY <1>1, <1>2, ConcatProperties
  <2>2. Len(s) > 0
    BY <1>1
  <2> HIDE DEF t
  <2> QED BY <1>1, <1>2, <2>1, <2>2
<1>5. SubSeq(t, 1, Len(s)) = s
  <2> HIDE DEF t
  <2>1. /\ SubSeq(t, 0 + 1, Len(s)) \in Seq(Nat) /\ Len(SubSeq(t, 0 + 1, Len(s))) = Len(s) - 0
        /\ \A x \in 1 .. Len(s) - 0 : SubSeq(t, 0 + 1, Len(s))[x] = t[0 + x]
    <3>1. 0 \in 0 .. Len(t) /\ Len(s) \in 0 .. Len(t)
      BY <1>1, <1>4
    <3> QED BY <1>4, <3>1, PartOfSeq
  <2>2. /\ SubSeq(t, 1, Len(s)) \in Seq(Nat) /\ Len(SubSeq(t, 1, Len(s))) = Len(s)
        /\ \A i \in 1 .. Len(s) : SubSeq(t, 1, Len(s))[i] = s[i]
    BY <1>1, <1>4, <2>1
  <2> QED BY <1>1, <2>2, SameMembers
<1>6. IsPadded(t, s, size)
  BY <1>4, <1>5 DEF IsPadded, Rows
<1>7. size = 0 => t = s
  BY <1>1, <1>2
<1>8. Proto!Concat(<< BatchOf(s), Proto!SelectIdxs(BatchOf(s), idxs) >>) = BatchOf(t)
  BY <1>1, <1>2, <1>3, AppendRows
<1> HIDE DEF t
<1> QED BY <1>6, <1>7, <1>8, Zenon

(* The two ways of padding.                                                *)
LEMMA PadWithLastRows ==
  ASSUME NEW s \in Rows, NEW size \in Nat
  PROVE  \E t : /\ IsPadded(t, s, size) /\ Proto!PadWithLast(BatchOf(s), size) = BatchOf(t)
                /\ size = 0 => t = s
<1> DEFINE idxs == [i \in 1 .. size |-> Len(s)]
<1>1. Len(s) \in 1 .. Len(s)
  BY DEF Rows
<1>2. idxs \in [1 .. size -> 1 .. Len(s)]
  BY <1>1
<1>3. Proto!PadWithLast(BatchOf(s), size)
        = Proto!Concat(<< BatchOf(s), Proto!SelectIdxs(BatchOf(s), idxs) >>)
  BY BatchParts, Zenon DEF Proto!PadWithLast
<1> HIDE DEF idxs
<1> QED BY <1>2, <1>3, PaddedRows

LEMMA PadToDivisorRows ==
  ASSUME NEW s \in Rows, NEW divisor \in Nat \ {0}
  PROVE  \E t : /\ IsPadded(t, s, Proto!PadSizeTo(Len(s), divisor))
                /\ Proto!PadToDivisor(BatchOf(s), divisor) = BatchOf(t)
<1> DEFINE n == Len(s)
           size == Proto!PadSizeTo(n, divisor)
           idxs == [i \in 1 .. size |-> ((i - 1) % n) + 1]
<1>1. n \in Nat \ {0}
  BY DEF Rows
<1>2. size \in Nat
  BY <1>1, PaddedDivides
<1>3. Proto!PadToDivisor(BatchOf(s), divisor)
        = Proto!Concat(<< BatchOf(s), Proto!SelectIdxs(BatchOf(s), idxs) >>)
  <2> DEFINE long == Proto!Length(BatchOf(s))
  <2>1. Proto!PadToDivisor(BatchOf(s), divisor)
          = Proto!Concat(<< BatchOf(s), Proto!SelectIdxs(BatchOf(s),
              [i \in 1 .. Proto!PadSizeTo(long, divisor) |-> ((i - 1) % long) + 1]) >>)
    BY DEF Proto!PadToDivisor
  <2>2. long = n
    BY BatchParts
  <2> HIDE DEF long, n
  <2> QED BY <2>1, <2>2
<1> HIDE DEF n, size
<1>4. idxs \in [1 .. size -> 1 .. n]
  BY <1>1, <1>2
<1> HIDE DEF idxs
<1>5. PICK t : /\ IsPadded(t, s, size)
               /\ Proto!Concat(<< BatchOf(s), Proto!SelectIdxs(BatchOf(s), idxs) >>) = BatchOf(t)
  BY <1>2, <1>4, PaddedRows DEF n
<1> QED BY <1>3, <1>5 DEF size, n

(* Padding comes off again.                                                *)
LEMMA UnpaddedRows ==
  ASSUME NEW s \in Rows, NEW size \in Nat, NEW t, IsPadded(t, s, size)
  PROVE  Proto!Unpad(BatchOf(t), size) = BatchOf(s)
<1>1. /\ t \in Seq(Nat) /\ Len(t) = Len(s) + size /\ SubSeq(t, 1, Len(s)) = s
      /\ Len(s) \in 0 .. Len(t) /\ Len(t) - size = Len(s)
  BY DEF IsPadded, Rows
<1>2. Proto!Unpad(BatchOf(t), size) = Proto!SelectIdxs(BatchOf(t), [i \in 1 .. Len(s) |-> i])
  BY <1>1, BatchParts, Zenon DEF Proto!Unpad
<1> QED BY <1>1, <1>2, SelectPrefix

(* A call of a worker group without a mesh: enabled padding does not show  *)
(* in its answer, and without it only rows that do not divide fail.        *)
LEMMA CallDpRows ==
  ASSUME NEW s \in Rows, NEW world \in Nat \ {0}, NEW padding_enabled \in BOOLEAN
  PROVE  \/ Proto!CallDp(BatchOf(s), world, padding_enabled) = BatchOf(s)
         \/ /\ Proto!CallDp(BatchOf(s), world, padding_enabled) = Proto!Raised
            /\ Len(s) % world # 0
<1> DEFINE size == Proto!DpPadding(BatchOf(s), world, padding_enabled)
           padded == Proto!PadWithLast(BatchOf(s), size)
           answers == [r \in 1 .. world |-> Proto!Answer(Proto!Chunk(padded, world)[r])]
<1>1. Len(s) \in Nat
  BY DEF Rows
<1>2. /\ padding_enabled => (Len(s) + size) % world = 0
      /\ ~ padding_enabled => size = 0
  <2>1. Proto!DpPadding(BatchOf(s), world, padding_enabled)
          = IF padding_enabled THEN Proto!PadSizeTo(Len(s), world) ELSE 0
    BY BatchParts, Zenon DEF Proto!DpPadding
  <2> QED BY <1>1, <2>1, PaddedDivides
<1>3. size \in Nat
  <2>1. Proto!DpPadding(BatchOf(s), world, padding_enabled)
          = IF padding_enabled THEN Proto!PadSizeTo(Len(s), world) ELSE 0
    BY BatchParts, Zenon DEF Proto!DpPadding
  <2> QED BY <1>1, <2>1, PaddedDivides
<1>4. Proto!CallDp(BatchOf(s), world, padding_enabled) =
        IF Proto!ChunkRaises(padded, world, padding_enabled) THEN Proto!Raised
        ELSE Proto!Unpad(Proto!Concat(answers), size)
  BY Zenon DEF Proto!CallDp
<1> HIDE DEF size
<1>5. PICK t : IsPadded(t, s, size) /\ padded = BatchOf(t) /\ (size = 0 => t = s)
  BY <1>3, PadWithLastRows
<1>6. t \in Rows /\ Len(t) = Len(s) + size
  BY <1>5 DEF IsPadded
<1>7. CASE Proto!ChunkRaises(padded, world, padding_enabled)
  <2>1. Len(t) % world # 0
    BY <1>5, <1>6, <1>7, ChunkRows
  <2>2. ~ padding_enabled
    BY <1>2, <1>6, <2>1
  <2>3. t = s
    BY <1>2, <1>5, <2>2
  <2> QED BY <1>4, <1>7, <2>1, <2>3
<1>8. CASE ~ Proto!ChunkRaises(padded, world, padding_enabled)
  <2>1. PICK parts : /\ parts \in Seq(Seq(Nat)) /\ Len(parts) = world
                     /\ FlattenSeq(parts) = t
                     /\ Proto!Chunk(padded, world) = [p \in 1 .. world |-> BatchOf(parts[p])]
    BY <1>5, <1>6, <1>8, ChunkRows
  <2>2. \A r \in 1 .. world : Proto!Answer(Proto!Chunk(padded, world)[r]) = BatchOf(parts[r])
    BY <2>1, RowsAnswered
  <2>3. DOMAIN answers = 1 .. world /\ \A r \in 1 .. world : answers[r] = BatchOf(parts[r])
    BY <2>2
  <2>4. DOMAIN parts = 1 .. world /\ parts = [p \in 1 .. world |-> parts[p]]
    BY <2>1
  <2> HIDE DEF answers
  <2>5. Proto!Concat(answers) = BatchOf(t)
    BY <2>1, <2>3, <2>4, ConcatRows, world \in Nat
  <2>6. Proto!Unpad(Proto!Concat(answers), size) = BatchOf(s)
    BY <1>3, <1>5, <2>5, UnpaddedRows
  <2> QED BY <1>4, <1>8, <2>6
<1> QED BY <1>7, <1>8

-----------------------------------------------------------------------------
(* The rows of a batch over all operations.                                *)

Tables == {BatchOf(s) : s \in Rows}
NoRows == Proto!DataProto(<< >>, << >>)

(* The invariant: between operations the caller's batch, the batch before  *)
(* padding and the one the last call was made with are whole.              *)
RowsInv ==
  /\ pad_size \in Nat
  /\ task = "rows" => data \in Tables /\ held \in Tables /\ asked \in Tables
  /\ task # "rows" => data = NoRows /\ held = NoRows /\ asked = NoRows /\ answer = NoRows
  /\ RowsStayWhole

LEMMA WholeTable ==
  ASSUME NEW s \in Seq(Nat)
  PROVE  SubSeq(s, 1, Len(s)) = s
<1>1. /\ SubSeq(s, 1, Len(s)) \in Seq(Nat) /\ Len(SubSeq(s, 1, Len(s))) = Len(s)
      /\ \A i \in 1 .. Len(s) : SubSeq(s, 1, Len(s))[i] = s[i]
  OBVIOUS
<1> QED BY <1>1, SameMembers

(* Operations on rows happen to whole batches only.                        *)
LEMMA StepOnTables ==
  ASSUME RowsInv, Step
  PROVE  /\ task = "rows" /\ task' = "rows"
         /\ \E s \in Rows : data = BatchOf(s)
         /\ \E s \in Rows : held = BatchOf(s)
         /\ \E s \in Rows : asked = BatchOf(s)
BY DEF RowsInv, Step, Tables

(* A batch that an operation has answered with is whole if its rows are    *)
(* selected together.                                                      *)
LEMMA BecomeWhole ==
  ASSUME RowsInv, Step, pad_size = 0, NEW s \in Rows, Become(BatchOf(s))
  PROVE  RowsInv'
<1>1. task' = "rows" /\ pad_size' = 0
  BY StepOnTables DEF Become
<1>2. data' = BatchOf(s) /\ held' = BatchOf(s) /\ asked' = BatchOf(s) /\ answer' = BatchOf(s)
  BY Zenon DEF Become
<1>3. BatchOf(s) \in Tables
  BY DEF Tables
<1>4. s \in Seq(Nat) /\ Len(s) = Len(s) + 0 /\ SubSeq(s, 1, Len(s)) = s
  BY WholeTable DEF Rows
<1>5. BatchOf(s).batch = s /\ BatchOf(s).non_tensor = s /\ Proto!Length(BatchOf(s)) = Len(s)
  BY BatchParts
<1>6. BatchOf(s) # Proto!Raised
  BY NotRaised
<1>7. RowsStayWhole'
  BY <1>1, <1>2, <1>4, <1>5, <1>6 DEF RowsStayWhole, Proto!Length, Proto!Raised
<1> QED BY <1>1, <1>2, <1>3, <1>7 DEF RowsInv

(* A call changes what was asked and what came back.                       *)
LEMMA CallWhole ==
  ASSUME RowsInv, Step, UNCHANGED << data, pad_size, held >>, NEW s \in Rows,
         asked' = BatchOf(s),
         \/ answer' = BatchOf(s)
         \/ /\ answer' = Proto!Raised
            /\ \E size \in {mesh.dp_size : mesh \in Meshes} \cup {World} : Len(s) % size # 0
  PROVE  RowsInv'
<1>1. task = "rows" /\ task' = "rows"
  BY StepOnTables
<1>2. BatchOf(s) \in Tables
  BY DEF Tables
<1>3. BatchOf(s) # Proto!Raised
  BY NotRaised
<1>4. Proto!Length(BatchOf(s)) = Len(s)
  BY BatchParts
<1>5. /\ answer' # Proto!Raised => answer' = asked'
      /\ answer' = Proto!Raised =>
           \E size \in {mesh.dp_size : mesh \in Meshes} \cup {World} :
             Proto!Length(asked') % size # 0
  BY <1>3, <1>4
<1>6. /\ data' = data /\ held' = held /\ pad_size' = pad_size
  OBVIOUS
<1>7. RowsStayWhole'
  BY <1>5, <1>6 DEF RowsInv, RowsStayWhole, Proto!Length, Proto!Raised
<1> QED BY <1>1, <1>2, <1>6, <1>7 DEF RowsInv

(* repeat and sample_level_repeat: each row at least once.                 *)
LEMMA RepeatedRows ==
  ASSUME NEW s \in Rows, NEW times, \A i \in 1 .. Len(s) : times[i] \in Nat \ {0}
  PROVE  Proto!RepeatEach(s, times) \in Rows
<1> DEFINE parts == [i \in DOMAIN s |-> [k \in 1 .. times[i] |-> s[i]]]
<1>1. s \in Seq(Nat) /\ s # << >> /\ DOMAIN s = 1 .. Len(s) /\ Len(s) \in Nat \ {0}
  BY DEF Rows
<1>2. ASSUME NEW i \in 1 .. Len(s) PROVE parts[i] \in Seq(Nat) /\ Len(parts[i]) = times[i]
  <2>1. times[i] \in Nat /\ s[i] \in Nat
    BY <1>1
  <2>2. parts[i] = [k \in 1 .. times[i] |-> s[i]]
    BY <1>1
  <2>3. parts[i] \in [1 .. times[i] -> Nat]
    BY <2>1, <2>2
  <2> HIDE DEF parts
  <2> QED BY <2>1, <2>3, FunctionIsSeq
<1>3. parts \in [1 .. Len(s) -> Seq(Nat)]
  <2>1. DOMAIN parts = 1 .. Len(s) /\ parts = [i \in DOMAIN s |-> parts[i]]
    BY <1>1
  <2> HIDE DEF parts
  <2> QED BY <1>1, <1>2, <2>1
<1>4. Proto!RepeatEach(s, times) = FlattenSeq(parts)
  BY SameOperators, Zenon DEF Proto!RepeatEach
<1> HIDE DEF parts
<1>5. parts \in Seq(Seq(Nat)) /\ Len(parts) = Len(s)
  BY <1>1, <1>3, FunctionIsSeq
<1>6. parts # << >> /\ parts[1] # << >>
  <2>1. 1 \in 1 .. Len(s) /\ times[1] # 0
    BY <1>1
  <2> QED BY <1>1, <1>2, <1>5, <2>1
<1>7. FlattenSeq(parts) \in Seq(Nat) /\ FlattenSeq(parts) # << >>
  BY <1>5, <1>6, FlattenType, FlattenNonempty
<1> QED BY <1>4, <1>7 DEF Rows

(* The whole batch several times.                                          *)
LEMMA RepeatedWhole ==
  ASSUME NEW s \in Rows, NEW n \in Nat \ {0}
  PROVE  FlattenSeq([k \in 1 .. n |-> s]) \in Rows
<1> DEFINE parts == [k \in 1 .. n |-> s]
<1>1. s \in Seq(Nat) /\ s # << >>
  BY DEF Rows
<1>2. parts \in [1 .. n -> Seq(Nat)] /\ parts[1] = s
  BY <1>1
<1> HIDE DEF parts
<1>3. parts \in Seq(Seq(Nat)) /\ Len(parts) = n
  BY <1>2, FunctionIsSeq
<1>4. parts # << >> /\ parts[1] # << >>
  BY <1>1, <1>2, <1>3
<1>5. FlattenSeq(parts) \in Seq(Nat) /\ FlattenSeq(parts) # << >>
  BY <1>3, <1>4, FlattenType, FlattenNonempty
<1> QED BY <1>5 DEF Rows, parts

(* torch repeats a batch as numpy does, either way.                        *)
LEMMA RepeatedAlike ==
  ASSUME NEW s \in Rows, NEW n \in Nat \ {0}
  PROVE  /\ Proto!RepeatEach(s, [i \in DOMAIN s |-> n]) = Proto!Interleaved(s, n)
         /\ Proto!Tile(s, n) = Proto!Expanded(s, n)
<1> DEFINE m == Len(s)
           each == [i \in 1 .. m |-> [k \in 1 .. n |-> s[i]]]
           whole == [k \in 1 .. n |-> s]
<1>1. s \in Seq(Nat) /\ m \in Nat \ {0} /\ DOMAIN s = 1 .. m /\ \A i \in 1 .. m : s[i] \in Nat
  BY DEF Rows
<1>2. ASSUME NEW i \in 1 .. m PROVE each[i] \in Seq(Nat) /\ Len(each[i]) = n
  <2>1. [k \in 1 .. n |-> s[i]] \in [1 .. n -> Nat]
    BY <1>1
  <2> QED BY <2>1, FunctionIsSeq
<1>3. each \in Seq(Seq(Nat)) /\ Len(each) = m
  <2>1. each \in [1 .. m -> Seq(Nat)]
    BY <1>2
  <2> HIDE DEF each
  <2> QED BY <1>1, <2>1, FunctionIsSeq
<1>4. whole \in Seq(Seq(Nat)) /\ Len(whole) = n
  <2>1. whole \in [1 .. n -> Seq(Nat)]
    BY <1>1
  <2> HIDE DEF whole
  <2> QED BY <2>1, FunctionIsSeq
<1>5. FlattenSeq(each) = [j \in 1 .. m * n |-> each[((j - 1) \div n) + 1][((j - 1) % n) + 1]]
  <2>1. \A k \in 1 .. m : Len(each[k]) = n
    BY <1>2
  <2> HIDE DEF each, m
  <2>2. \A k \in 1 .. Len(each) : Len(each[k]) = n
    BY <1>3, <2>1, Zenon
  <2>3. FlattenSeq(each) = [j \in 1 .. Len(each) * n |->
                              each[((j - 1) \div n) + 1][((j - 1) % n) + 1]]
    BY <1>3, <2>2, BlocksAre, Zenon
  <2> QED BY <1>3, <2>3, Zenon
<1>6. ASSUME NEW j \in 1 .. m * n
      PROVE  each[((j - 1) \div n) + 1][((j - 1) % n) + 1] = s[((j - 1) \div n) + 1]
  <2> DEFINE i == ((j - 1) \div n) + 1
             k == ((j - 1) % n) + 1
  <2>1. i \in 1 .. m /\ k \in 1 .. n
    BY <1>1, InBlock
  <2> HIDE DEF i, k
  <2>2. each[i][k] = s[i]
    BY <2>1
  <2> QED BY <2>2 DEF i, k
<1>7. FlattenSeq(whole) = [j \in 1 .. n * m |-> whole[((j - 1) \div m) + 1][((j - 1) % m) + 1]]
  <2>1. \A k \in 1 .. n : Len(whole[k]) = m
    OBVIOUS
  <2> HIDE DEF whole, m
  <2>2. \A k \in 1 .. Len(whole) : Len(whole[k]) = m
    BY <1>4, <2>1, Zenon
  <2>3. FlattenSeq(whole) = [j \in 1 .. Len(whole) * m |->
                               whole[((j - 1) \div m) + 1][((j - 1) % m) + 1]]
    BY <1>1, <1>4, <2>2, BlocksAre, Zenon
  <2> QED BY <1>4, <2>3, Zenon
<1>8. ASSUME NEW j \in 1 .. n * m
      PROVE  whole[((j - 1) \div m) + 1][((j - 1) % m) + 1] = s[((j - 1) % m) + 1]
  <2> DEFINE k == ((j - 1) \div m) + 1
  <2> HIDE DEF m
  <2>1. k \in 1 .. n
    BY <1>1, InBlock
  <2> HIDE DEF k
  <2>2. whole[k] = s
    BY <2>1
  <2> QED BY <2>2 DEF k
<1>9. FlattenSeq(each) = Proto!Interleaved(s, n)
  <2>1. Proto!Interleaved(s, n) = [j \in 1 .. m * n |-> s[((j - 1) \div n) + 1]]
    BY Zenon DEF Proto!Interleaved
  <2> HIDE DEF each, m
  <2> QED BY <1>5, <1>6, <2>1
<1>10. FlattenSeq(whole) = Proto!Expanded(s, n)
  <2>1. Proto!Expanded(s, n) = [j \in 1 .. n * m |-> s[((j - 1) % m) + 1]]
    BY Zenon DEF Proto!Expanded
  <2> HIDE DEF whole, m
  <2> QED BY <1>7, <1>8, <2>1
<1>11. Proto!RepeatEach(s, [i \in DOMAIN s |-> n]) = FlattenSeq(each)
  <2> DEFINE times == [i \in DOMAIN s |-> n]
  <2>1. [i \in DOMAIN s |-> [k \in 1 .. times[i] |-> s[i]]] = each
    BY <1>1
  <2>2. Proto!RepeatEach(s, times) = FlattenSeq([i \in DOMAIN s |-> [k \in 1 .. times[i] |-> s[i]]])
    <3> HIDE DEF times
    <3> QED BY SameOperators, Zenon DEF Proto!RepeatEach
  <2> QED BY <2>1, <2>2, Zenon
<1>12. Proto!Tile(s, n) = FlattenSeq(whole)
  BY SameOperators, Zenon DEF Proto!Tile
<1> QED BY <1>9, <1>10, <1>11, <1>12, Zenon

(* Rows that are selected by their numbers.                                *)
LEMMA SelectedRows ==
  ASSUME NEW s \in Rows, NEW n \in Nat \ {0}, NEW idxs \in [1 .. n -> 1 .. Len(s)]
  PROVE  \E t \in Rows : Proto!SelectIdxs(BatchOf(s), idxs) = BatchOf(t)
<1> DEFINE t == [i \in 1 .. n |-> s[idxs[i]]]
<1>1. Proto!SelectIdxs(BatchOf(s), idxs) = BatchOf(t)
  <2>1. [i \in DOMAIN idxs |-> s[idxs[i]]] = t
    OBVIOUS
  <2> QED BY <2>1, SelectRows
<1>2. t \in [1 .. n -> Nat]
  BY DEF Rows
<1> HIDE DEF t
<1>3. t \in Seq(Nat) /\ Len(t) = n
  BY <1>2, FunctionIsSeq
<1>4. t \in Rows
  BY <1>3 DEF Rows
<1> QED BY <1>1, <1>4

(* Every operation keeps the rows whole.                                   *)
LEMMA RepeatRowsWhole ==
  ASSUME RowsInv, NEW n \in 2 .. 3, NEW interleave \in BOOLEAN, RepeatRows(n, interleave)
  PROVE  RowsInv'
<1>1. PICK s \in Rows : data = BatchOf(s)
  BY StepOnTables DEF RepeatRows
<1> DEFINE each == Proto!RepeatEach(s, [i \in DOMAIN s |-> n])
           whole == FlattenSeq([k \in 1 .. n |-> s])
           t == IF interleave THEN each ELSE whole
<1>2. each \in Rows /\ whole \in Rows
  <2>1. n \in Nat \ {0}
    OBVIOUS
  <2>2. DOMAIN s = 1 .. Len(s)
    BY DEF Rows
  <2> DEFINE times == [i \in DOMAIN s |-> n]
  <2>3. \A i \in 1 .. Len(s) : times[i] \in Nat \ {0}
    BY <2>1, <2>2
  <2> HIDE DEF times
  <2>4. Proto!RepeatEach(s, times) \in Rows
    BY <2>3, RepeatedRows
  <2> QED BY <2>1, <2>4, RepeatedWhole DEF times
<1>3. Proto!Repeat(data, n, interleave) = BatchOf(t)
  <2>1. data.batch = s /\ data.non_tensor = s
    BY <1>1, BatchParts
  <2>2. Proto!Tile(s, n) = whole
    BY SameOperators, Zenon DEF Proto!Tile
  <2>3. Proto!Interleaved(s, n) = each /\ Proto!Expanded(s, n) = whole
    <3>1. n \in Nat \ {0}
      OBVIOUS
    <3> QED BY <2>2, <3>1, RepeatedAlike, Zenon
  <2>4. Proto!Repeat(data, n, interleave) =
          Proto!DataProto(
            IF interleave THEN Proto!Interleaved(data.batch, n) ELSE Proto!Expanded(data.batch, n),
            IF interleave
            THEN Proto!RepeatEach(data.non_tensor, [i \in DOMAIN data.non_tensor |-> n])
            ELSE Proto!Tile(data.non_tensor, n))
    BY Zenon DEF Proto!Repeat
  <2> QED BY <2>1, <2>2, <2>3, <2>4, Zenon DEF BatchOf
<1> HIDE DEF each, whole
<1>4. t \in Rows
  BY <1>2
<1>5. Step /\ pad_size = 0 /\ Become(BatchOf(t))
  BY <1>3 DEF RepeatRows
<1> QED BY <1>4, <1>5, BecomeWhole

LEMMA RepeatByCountWhole ==
  ASSUME RowsInv, NEW times \in [1 .. 3 -> 1 .. 2], RepeatByCount(times)
  PROVE  RowsInv'
<1>1. PICK s \in Rows : data = BatchOf(s)
  BY StepOnTables DEF RepeatByCount
<1>2. Proto!Length(data) = Len(s) /\ Len(times) = 3
  BY <1>1, BatchParts
<1>3. \A i \in 1 .. Len(s) : times[i] \in Nat \ {0}
  <2>1. Len(s) = 3
    BY <1>2 DEF RepeatByCount
  <2> QED BY <2>1
<1>4. Proto!RepeatEach(s, times) \in Rows
  BY <1>3, RepeatedRows
<1>5. Proto!SampleLevelRepeat(data, times) = BatchOf(Proto!RepeatEach(s, times))
  <2>1. data.batch = s /\ data.non_tensor = s
    BY <1>1, BatchParts
  <2> QED BY <2>1, Zenon DEF Proto!SampleLevelRepeat, BatchOf
<1>6. Step /\ pad_size = 0 /\ Become(BatchOf(Proto!RepeatEach(s, times)))
  BY <1>5 DEF RepeatByCount
<1> QED BY <1>4, <1>6, BecomeWhole

LEMMA ReverseRowsWhole ==
  ASSUME RowsInv, ReverseRows
  PROVE  RowsInv'
<1>1. PICK s \in Rows : data = BatchOf(s)
  BY StepOnTables DEF ReverseRows
<1> DEFINE n == Len(s)
           idxs == [i \in 1 .. n |-> n + 1 - i]
<1>2. n \in Nat \ {0} /\ Proto!Length(data) = n
  BY <1>1, BatchParts DEF Rows
<1> HIDE DEF n
<1>3. idxs \in [1 .. n -> 1 .. n]
  BY <1>2
<1>4. Step /\ pad_size = 0 /\ Become(Proto!SelectIdxs(BatchOf(s), idxs))
  BY <1>1, <1>2 DEF ReverseRows
<1> HIDE DEF idxs
<1>5. PICK t \in Rows : Proto!SelectIdxs(BatchOf(s), idxs) = BatchOf(t)
  BY <1>2, <1>3, SelectedRows DEF n
<1> QED BY <1>4, <1>5, BecomeWhole

LEMMA DropRowWhole ==
  ASSUME RowsInv, NEW i \in 1 .. Small, DropRow(i)
  PROVE  RowsInv'
<1>1. PICK s \in Rows : data = BatchOf(s)
  BY StepOnTables DEF DropRow
<1> DEFINE n == Len(s)
           idxs == [j \in 1 .. n - 1 |-> IF j < i THEN j ELSE j + 1]
<1>2. n \in Nat \ {0} /\ Proto!Length(data) = n
  BY <1>1, BatchParts DEF Rows
<1> HIDE DEF n
<1>3. n - 1 \in Nat \ {0} /\ i \in 1 .. n
  BY <1>2 DEF DropRow
<1>4. idxs \in [1 .. n - 1 -> 1 .. n]
  BY <1>2, <1>3
<1>5. Step /\ pad_size = 0 /\ Become(Proto!SelectIdxs(BatchOf(s), idxs))
  BY <1>1, <1>2 DEF DropRow
<1> HIDE DEF idxs
<1>6. PICK t \in Rows : Proto!SelectIdxs(BatchOf(s), idxs) = BatchOf(t)
  BY <1>3, <1>4, SelectedRows DEF n
<1> QED BY <1>5, <1>6, BecomeWhole

LEMMA SplitAndConcatWhole ==
  ASSUME RowsInv, NEW size \in 1 .. 3, SplitAndConcat(size)
  PROVE  RowsInv'
<1>1. PICK s \in Rows : data = BatchOf(s)
  BY StepOnTables DEF SplitAndConcat
<1>2. Proto!Concat(Proto!Split(data, size)) = data
  BY <1>1, SplitRows, size \in Nat \ {0}
<1>3. Step /\ pad_size = 0 /\ Become(BatchOf(s))
  BY <1>1, <1>2 DEF SplitAndConcat
<1> QED BY <1>3, BecomeWhole

LEMMA PadRowsWhole ==
  ASSUME RowsInv, NEW divisor \in 2 .. World, PadRows(divisor)
  PROVE  RowsInv'
<1>1. task = "rows" /\ task' = "rows"
  BY StepOnTables DEF PadRows
<1>2. PICK s \in Rows : data = BatchOf(s)
  BY StepOnTables DEF PadRows
<1> DEFINE size == Proto!PadSizeTo(Len(s), divisor)
<1>3. divisor \in Nat \ {0} /\ Len(s) \in Nat
  BY RowsAssumption DEF Rows
<1>4. PICK t : IsPadded(t, s, size) /\ Proto!PadToDivisor(data, divisor) = BatchOf(t)
  BY <1>2, <1>3, PadToDivisorRows
<1>5. size \in Nat
  BY <1>3, PaddedDivides
<1>6. /\ data' = BatchOf(t) /\ held' = BatchOf(s) /\ pad_size' = size
      /\ asked' = BatchOf(t) /\ answer' = BatchOf(t)
  BY <1>2, <1>4, BatchParts DEF PadRows
<1> HIDE DEF size
<1>7. t \in Rows /\ Len(t) = Len(s) + size /\ SubSeq(t, 1, Len(s)) = s
  BY <1>4 DEF IsPadded
<1>8. BatchOf(t) \in Tables /\ BatchOf(s) \in Tables
  BY <1>7 DEF Tables
<1>9. /\ BatchOf(t).batch = t /\ BatchOf(t).non_tensor = t /\ Proto!Length(BatchOf(t)) = Len(t)
      /\ BatchOf(s).batch = s /\ Proto!Length(BatchOf(s)) = Len(s)
  BY BatchParts
<1>10. BatchOf(t) # Proto!Raised
  BY NotRaised
<1>11. RowsStayWhole'
  BY <1>6, <1>7, <1>9, <1>10 DEF RowsStayWhole, Proto!Length, Proto!Raised
<1> QED BY <1>1, <1>5, <1>6, <1>8, <1>11 DEF RowsInv

LEMMA UnpadRowsWhole ==
  ASSUME RowsInv, UnpadRows
  PROVE  RowsInv'
<1>1. task = "rows" /\ task' = "rows"
  BY StepOnTables DEF UnpadRows
<1>2. PICK t \in Rows : data = BatchOf(t)
  BY StepOnTables DEF UnpadRows
<1>3. PICK s \in Rows : held = BatchOf(s)
  BY StepOnTables DEF UnpadRows
<1>4. IsPadded(t, s, pad_size) /\ pad_size \in Nat
  <2>1. /\ SubSeq(data.batch, 1, Proto!Length(held)) = held.batch
        /\ Proto!Length(data) = Proto!Length(held) + pad_size
        /\ pad_size \in Nat
    BY DEF RowsInv, RowsStayWhole
  <2> QED BY <1>2, <1>3, <2>1, BatchParts DEF IsPadded
<1>5. Proto!Unpad(data, pad_size) = BatchOf(s)
  BY <1>2, <1>4, UnpaddedRows
<1>6. /\ data' = BatchOf(s) /\ held' = BatchOf(s) /\ pad_size' = 0
      /\ asked' = BatchOf(s) /\ answer' = BatchOf(s)
  BY <1>3, <1>5 DEF UnpadRows
<1>7. s \in Seq(Nat) /\ Len(s) = Len(s) + 0 /\ SubSeq(s, 1, Len(s)) = s
  BY WholeTable DEF Rows
<1>8. /\ BatchOf(s).batch = s /\ BatchOf(s).non_tensor = s /\ Proto!Length(BatchOf(s)) = Len(s)
  BY BatchParts
<1>9. BatchOf(s) # Proto!Raised /\ BatchOf(s) \in Tables
  BY NotRaised DEF Tables
<1>10. RowsStayWhole'
  BY <1>6, <1>7, <1>8, <1>9 DEF RowsStayWhole, Proto!Length, Proto!Raised
<1> QED BY <1>1, <1>6, <1>9, <1>10 DEF RowsInv

LEMMA CallMeshWhole ==
  ASSUME RowsInv, NEW mesh \in Meshes, NEW padding_enabled \in BOOLEAN,
         CallMesh(mesh, padding_enabled)
  PROVE  RowsInv'
<1>1. PICK s \in Rows : data = BatchOf(s)
  BY StepOnTables DEF CallMesh
<1>2. \/ answer' = BatchOf(s)
      \/ answer' = Proto!Raised /\ Len(s) % mesh.dp_size # 0
  <2>1. answer' = Proto!CallNd(mesh, BatchOf(s), padding_enabled)
    BY <1>1 DEF CallMesh
  <2> QED BY <2>1, CallNdRows
<1>3. Step /\ asked' = BatchOf(s) /\ UNCHANGED << data, pad_size, held >>
  BY <1>1 DEF CallMesh
<1> QED BY <1>2, <1>3, CallWhole

LEMMA CallOnAnswerWhole ==
  ASSUME RowsInv, NEW mesh \in Meshes, CallOnAnswer(mesh)
  PROVE  RowsInv'
<1>1. PICK s \in Rows : asked = BatchOf(s)
  BY StepOnTables DEF CallOnAnswer
<1>2. answer = BatchOf(s)
  BY <1>1 DEF CallOnAnswer, RowsInv, RowsStayWhole, Proto!Raised
<1>3. \/ answer' = BatchOf(s)
      \/ answer' = Proto!Raised /\ Len(s) % mesh.dp_size # 0
  <2>1. answer' = Proto!CallFuture(mesh, Proto!Split(BatchOf(s), 2))
    BY <1>2 DEF CallOnAnswer
  <2>2. Proto!Concat(Proto!Split(BatchOf(s), 2)) = BatchOf(s)
    BY SplitRows, 2 \in Nat \ {0}
  <2>3. answer' = Proto!CallNd(mesh, BatchOf(s), FALSE)
    BY <2>1, <2>2, FutureIsCall
  <2> QED BY <2>3, CallNdRows, FALSE \in BOOLEAN
<1>4. Step /\ asked' = BatchOf(s) /\ UNCHANGED << data, pad_size, held >>
  BY <1>2 DEF CallOnAnswer
<1> QED BY <1>3, <1>4, CallWhole

LEMMA CallPaddedWhole ==
  ASSUME RowsInv, NEW padding_enabled \in BOOLEAN, CallPadded(padding_enabled)
  PROVE  RowsInv'
<1> DEFINE size == Proto!DpPadding(data, World, padding_enabled)
<1>1. task = "rows" /\ task' = "rows"
  BY StepOnTables DEF CallPadded
<1>2. PICK s \in Rows : data = BatchOf(s)
  BY StepOnTables DEF CallPadded
<1>3. Len(s) \in Nat /\ World \in Nat \ {0} /\ Proto!Length(data) = Len(s)
  BY <1>2, RowsAssumption, BatchParts DEF Rows
<1>4. size \in Nat
  <2>1. size = IF padding_enabled THEN Proto!PadSizeTo(Len(s), World) ELSE 0
    BY <1>3, Zenon DEF Proto!DpPadding
  <2> HIDE DEF size
  <2> QED BY <1>3, <2>1, PaddedDivides
<1>5. \/ answer' = BatchOf(s)
      \/ answer' = Proto!Raised /\ Len(s) % World # 0
  <2>1. answer' = Proto!CallDp(BatchOf(s), World, padding_enabled)
    BY <1>2 DEF CallPadded
  <2> QED BY <1>3, <2>1, CallDpRows
<1>6. /\ Step /\ asked' = BatchOf(s)
      /\ data' = Proto!PadWithLast(data, size)
      /\ held' = IF size = 0 THEN held ELSE data'
      /\ pad_size' = IF size = 0 THEN pad_size ELSE 0
  BY <1>2 DEF CallPadded
<1> HIDE DEF size
<1>7. PICK t : IsPadded(t, s, size) /\ data' = BatchOf(t) /\ (size = 0 => t = s)
  BY <1>2, <1>4, <1>6, PadWithLastRows
<1>8. CASE size = 0
  <2>1. UNCHANGED << data, pad_size, held >>
    BY <1>2, <1>6, <1>7, <1>8
  <2> QED BY <1>5, <1>6, <2>1, CallWhole
<1>9. CASE size # 0
  <2>1. data' = BatchOf(t) /\ held' = BatchOf(t) /\ pad_size' = 0 /\ asked' = BatchOf(s)
    BY <1>6, <1>7, <1>9
  <2>2. t \in Rows /\ t \in Seq(Nat) /\ SubSeq(t, 1, Len(t)) = t /\ Len(t) = Len(t) + 0
    BY <1>7, WholeTable DEF IsPadded, Rows
  <2>3. BatchOf(t) \in Tables /\ BatchOf(s) \in Tables
    BY <2>2 DEF Tables
  <2>4. /\ BatchOf(t).batch = t /\ BatchOf(t).non_tensor = t /\ Proto!Length(BatchOf(t)) = Len(t)
        /\ Proto!Length(BatchOf(s)) = Len(s)
    BY BatchParts
  <2>5. BatchOf(s) # Proto!Raised
    BY NotRaised
  <2>6. /\ answer' # Proto!Raised => answer' = asked'
        /\ answer' = Proto!Raised =>
             \E w \in {mesh.dp_size : mesh \in Meshes} \cup {World} :
               Proto!Length(asked') % w # 0
    BY <1>5, <2>1, <2>4, <2>5
  <2>7. RowsStayWhole'
    BY <2>1, <2>2, <2>4, <2>6 DEF RowsStayWhole, Proto!Length, Proto!Raised
  <2> QED BY <1>1, <2>1, <2>3, <2>7 DEF RowsInv
<1> QED BY <1>8, <1>9

LEMMA RowsInit == Init => RowsInv
<1> SUFFICES ASSUME Init PROVE RowsInv
  OBVIOUS
<1>1. pad_size = 0 /\ held = data /\ asked = data /\ answer = data
  BY DEF Init
<1>2. \E s \in Seq(Nat) : /\ data = BatchOf(s)
                          /\ task = "rows" => s # << >>
                          /\ task # "rows" => s = << >>
  <2>1. \A n \in Nat : [i \in 1 .. n |-> i] \in Seq(Nat) /\ Len([i \in 1 .. n |-> i]) = n
    <3> SUFFICES ASSUME NEW n \in Nat
                 PROVE  [i \in 1 .. n |-> i] \in Seq(Nat) /\ Len([i \in 1 .. n |-> i]) = n
      OBVIOUS
    <3>1. [i \in 1 .. n |-> i] \in [1 .. n -> Nat]
      OBVIOUS
    <3> QED BY <3>1, FunctionIsSeq
  <2>2. \A n : NewBatch(n) = BatchOf([i \in 1 .. n |-> i])
    BY DEF NewBatch, BatchOf
  <2>3. CASE task = "rows"
    <3>1. PICK n \in Batches : data = NewBatch(n)
      BY <2>3 DEF Init
    <3>2. n \in Nat \ {0}
      BY RowsAssumption
    <3> QED BY <2>1, <2>2, <2>3, <3>1, <3>2
  <2>4. CASE task # "rows"
    <3>1. data = NewBatch(0)
      BY <2>4 DEF Init
    <3> DEFINE none == [i \in 1 .. 0 |-> i]
    <3>2. none \in Seq(Nat) /\ Len(none) = 0
      BY <2>1
    <3>3. NewBatch(0) = BatchOf(none)
      BY <2>2
    <3> HIDE DEF none
    <3>4. none = << >>
      BY <3>2
    <3> QED BY <2>4, <3>1, <3>2, <3>3, <3>4
  <2> QED BY <2>3, <2>4
<1>3. PICK s \in Seq(Nat) : /\ data = BatchOf(s)
                            /\ task = "rows" => s # << >>
                            /\ task # "rows" => s = << >>
  BY <1>2
<1>4. /\ BatchOf(s).batch = s /\ BatchOf(s).non_tensor = s /\ Proto!Length(BatchOf(s)) = Len(s)
  BY BatchParts
<1>5. BatchOf(s) # Proto!Raised /\ SubSeq(s, 1, Len(s)) = s /\ Len(s) = Len(s) + 0
  BY NotRaised, WholeTable
<1>6. RowsStayWhole
  BY <1>1, <1>3, <1>4, <1>5 DEF RowsStayWhole
<1>7. task = "rows" => data \in Tables
  BY <1>3 DEF Tables, Rows
<1>8. task # "rows" => data = NoRows
  BY <1>3 DEF NoRows, BatchOf
<1> QED BY <1>1, <1>6, <1>7, <1>8 DEF RowsInv

(* The other computations leave the rows alone.                            *)
LEMMA RowsUnchanged ==
  ASSUME RowsInv, UNCHANGED << task, rowVars >>
  PROVE  RowsInv'
BY DEF RowsInv, rowVars, RowsStayWhole, Proto!Length, Proto!Raised, NoRows, Proto!DataProto

LEMMA RowsStep ==
  ASSUME RowsInv, [Next]_vars
  PROVE  RowsInv'
<1>1. CASE Balance \/ Rearrange \/ ForwardPass \/ EstimateAll
  BY <1>1, RowsUnchanged DEF Balance, Rearrange, ForwardPass, EstimateAll, Compute
<1>2. CASE RowsNext
  BY <1>2, RepeatRowsWhole, RepeatByCountWhole, ReverseRowsWhole, DropRowWhole,
     SplitAndConcatWhole, PadRowsWhole, UnpadRowsWhole, CallMeshWhole, CallOnAnswerWhole,
     CallPaddedWhole DEF RowsNext
<1>3. ASSUME NEW batch, LearnWeights(batch) PROVE RowsInv'
  BY <1>3, RowsUnchanged DEF LearnWeights
<1>4. CASE Finished \/ UNCHANGED vars
  BY <1>4, RowsUnchanged DEF Finished, vars
<1> QED BY <1>1, <1>2, <1>3, <1>4 DEF Next

(* DataProto and the dispatch of worker groups: for every mesh, every      *)
(* number of ranks and every number of rows, after any series of           *)
(* operations a row's tensors and objects are those of the same row,       *)
(* padding comes off again, and a call answers each row in its place or    *)
(* has been made with a number of rows that does not divide.               *)
THEOREM RowsAreWhole == Spec => []RowsStayWhole
<1>1. Init => RowsInv
  BY RowsInit
<1>2. RowsInv /\ [Next]_vars => RowsInv'
  BY RowsStep
<1>3. RowsInv => RowsStayWhole
  BY DEF RowsInv
<1> QED BY <1>1, <1>2, <1>3, PTL DEF Spec

-----------------------------------------------------------------------------
(* Level weights.                                                          *)

LEMMA SameOperatorsOfLevels ==
  /\ \A f, S : Sampling!SumFunctionOnSet(f, S) = SumFunctionOnSet(f, S)
  /\ \A f, S : Sampling!FoldFunctionOnSet(LAMBDA x, y : x * y, 1, f, S) = ProductOf(f, S)
  /\ \A S : Sampling!Cardinality(S) = Cardinality(S)
<1>1. ASSUME NEW f, NEW S PROVE Sampling!SumFunctionOnSet(f, S) = SumFunctionOnSet(f, S)
  BY Zenon DEF Sampling!SumFunctionOnSet, SumFunctionOnSet, Sampling!FoldFunctionOnSet,
               FoldFunctionOnSet, Sampling!MapThenFoldSet, MapThenFoldSet
<1>2. ASSUME NEW f, NEW S
      PROVE  Sampling!FoldFunctionOnSet(LAMBDA x, y : x * y, 1, f, S) = ProductOf(f, S)
  BY Zenon DEF Sampling!FoldFunctionOnSet, FoldFunctionOnSet, Sampling!MapThenFoldSet,
               MapThenFoldSet, ProductOf
<1>3. ASSUME NEW S PROVE Sampling!Cardinality(S) = Cardinality(S)
  BY Zenon DEF Sampling!Cardinality, Cardinality
<1> QED BY <1>1, <1>2, <1>3

(* A weight is a number of rollouts over their rows, of which each rollout *)
(* has one at least and MaxRows at most.                                   *)
IsWeight(w) ==
  /\ w.num \in Nat /\ w.den \in Nat \ {0}
  /\ w.num <= w.den /\ w.den <= MaxRows * w.num
RolloutBatches == [1 .. Rollouts -> [level : Levels \cup {"none"}, rows : 1 .. MaxRows]]

LEMMA TrajectoriesFinite ==
  ASSUME NEW batch \in RolloutBatches, NEW level
  PROVE  /\ Sampling!Trajectories(batch, level) \subseteq 1 .. Rollouts
         /\ IsFiniteSet(Sampling!Trajectories(batch, level))
         /\ \A i \in Sampling!Trajectories(batch, level) : batch[i].rows \in 1 .. MaxRows
<1>1. Sampling!Trajectories(batch, level) \subseteq 1 .. Rollouts
  BY DEF Sampling!Trajectories, RolloutBatches
<1>2. IsFiniteSet(1 .. Rollouts)
  BY LevelsAssumption, FirstNumbers
<1> QED BY <1>1, <1>2, FS_Subset DEF RolloutBatches

(* A level that was played has a weight.                                   *)
LEMMA InverseAverageIsWeight ==
  ASSUME NEW batch \in RolloutBatches, NEW level \in Sampling!LevelsOf(batch)
  PROVE  IsWeight(Sampling!InverseAverage(batch, level))
<1> DEFINE runs == Sampling!Trajectories(batch, level)
           rows == [i \in DOMAIN batch |-> batch[i].rows]
           ones == [i \in DOMAIN batch |-> 1]
           most == [i \in DOMAIN batch |-> MaxRows]
           n == Cardinality(runs)
           total == SumFunctionOnSet(rows, runs)
<1>1. /\ runs \subseteq 1 .. Rollouts /\ IsFiniteSet(runs)
      /\ \A i \in runs : batch[i].rows \in 1 .. MaxRows
  BY TrajectoriesFinite
<1>2. DOMAIN batch = 1 .. Rollouts /\ MaxRows \in Nat \ {0}
  BY LevelsAssumption DEF RolloutBatches
<1>3. n \in Nat \ {0}
  <2>1. runs # {}
    BY DEF Sampling!LevelsOf, Sampling!Trajectories
  <2> HIDE DEF runs
  <2> QED BY <1>1, <2>1, FS_EmptySet, FS_CardinalityType
<1>4. /\ Sampling!InverseAverage(batch, level).num = n
      /\ Sampling!InverseAverage(batch, level).den = total
  <2>1. Sampling!Outputs(batch, level) = total
    BY SameOperatorsOfLevels, Zenon DEF Sampling!Outputs
  <2> HIDE DEF total
  <2>2. Sampling!InverseAverage(batch, level) = [num |-> n, den |-> total]
    BY <2>1, SameOperatorsOfLevels, Zenon DEF Sampling!InverseAverage
  <2> HIDE DEF n
  <2> QED BY <2>2
<1> HIDE DEF runs, n
<1>5. ASSUME NEW i \in runs
      PROVE  /\ rows[i] \in Int /\ ones[i] = 1 /\ most[i] = MaxRows
             /\ ones[i] \in Int /\ most[i] \in Int
             /\ ones[i] <= rows[i] /\ rows[i] <= most[i]
  <2>1. i \in DOMAIN batch /\ batch[i].rows \in 1 .. MaxRows
    BY <1>1, <1>2
  <2>2. rows[i] = batch[i].rows /\ ones[i] = 1 /\ most[i] = MaxRows
    BY <2>1
  <2> HIDE DEF rows, ones, most
  <2> QED BY <1>2, <2>1, <2>2
<1> HIDE DEF rows, ones, most
<1>6. SumFunctionOnSet(ones, runs) = 1 * n
  BY <1>1, <1>5, SumConstant, 1 \in Int, Zenon DEF n
<1>7. SumFunctionOnSet(most, runs) = MaxRows * n
  BY <1>1, <1>2, <1>5, SumConstant, MaxRows \in Int, Zenon DEF n
<1>8. SumFunctionOnSet(ones, runs) <= total
  BY <1>1, <1>5, SumCompare
<1>9. total <= SumFunctionOnSet(most, runs)
  BY <1>1, <1>5, SumCompare
<1>10. total \in Int
  BY <1>1, <1>5, SumTake
<1> HIDE DEF total
<1> QED BY <1>3, <1>4, <1>6, <1>7, <1>8, <1>9, <1>10 DEF IsWeight

(* So has a level that was not, the mean of those of the others.           *)
LEMMA DefaultIsWeight ==
  ASSUME NEW weights1, IsFiniteSet(DOMAIN weights1), DOMAIN weights1 # {},
         \A l \in DOMAIN weights1 : IsWeight(weights1[l])
  PROVE  IsWeight(Sampling!DefaultWeight(weights1))
<1> DEFINE known == DOMAIN weights1
           dens == [l \in known |-> weights1[l].den]
           common == ProductOf(dens, known)
           terms == [l \in known |-> weights1[l].num * (common \div weights1[l].den)]
           total == SumFunctionOnSet(terms, known)
           n == Cardinality(known)
           same == [l \in known |-> common]
           scaled == [l \in known |-> MaxRows * terms[l]]
<1>1. /\ Sampling!DefaultWeight(weights1).num = total
      /\ Sampling!DefaultWeight(weights1).den = common * n
  <2>1. Sampling!FoldFunctionOnSet(LAMBDA x, y : x * y, 1, dens, known) = common
    BY SameOperatorsOfLevels, Zenon
  <2>2. Sampling!SumFunctionOnSet(terms, known) = total
    BY SameOperatorsOfLevels, Zenon
  <2>3. Sampling!DefaultWeight(weights1) = [num |-> total, den |-> common * n]
    BY <2>1, <2>2, SameOperatorsOfLevels, Zenon DEF Sampling!DefaultWeight
  <2> HIDE DEF total, common, n
  <2> QED BY <2>3
<1>2. n \in Nat \ {0} /\ IsFiniteSet(known)
  BY FS_EmptySet, FS_CardinalityType
<1>3. \A l \in known : /\ weights1[l].num \in Nat /\ weights1[l].den \in Nat \ {0}
                       /\ weights1[l].num <= weights1[l].den
                       /\ weights1[l].den <= MaxRows * weights1[l].num
  BY DEF IsWeight
<1>4. \A l \in known : dens[l] \in Nat \ {0} /\ dens[l] = weights1[l].den
  BY <1>3
<1> HIDE DEF dens, n
<1>5. common \in Nat \ {0}
  <2> DEFINE P == {S \in SUBSET known : ProductOf(dens, S) \in Nat \ {0}}
  <2>1. {} \in P
    <3>1. ProductOf(dens, {}) = 1
      BY ProductTake, FS_EmptySet
    <3> QED BY <3>1
  <2>2. ASSUME NEW S \in SUBSET known, NEW l \in known \ S, S \in P PROVE S \cup {l} \in P
    <3>1. IsFiniteSet(S \cup {l}) /\ \A x \in S \cup {l} : dens[x] \in Int
      BY <1>2, <1>4, FS_Subset, FS_AddElement
    <3>2. ProductOf(dens, S \cup {l}) = dens[l] * ProductOf(dens, (S \cup {l}) \ {l})
      BY <3>1, ProductTake
    <3>3. (S \cup {l}) \ {l} = S
      BY <2>2
    <3>4. \A a, b \in Nat \ {0} : a * b \in Nat \ {0}
      OBVIOUS
    <3>5. dens[l] * ProductOf(dens, S) \in Nat \ {0}
      BY <1>4, <2>2, <3>4
    <3> QED BY <2>2, <3>2, <3>3, <3>5
  <2> HIDE DEF P
  <2>3. known \in P
    BY <1>2, <2>1, <2>2, SubsetInduction
  <2> QED BY <2>3 DEF P
<1>6. ASSUME NEW l \in known
      PROVE  \E m \in Nat : common = weights1[l].den * m /\ common \div weights1[l].den = m
  <2> DEFINE m == ProductOf(dens, known \ {l})
             d == weights1[l].den
  <2>1. common = d * m
    BY <1>2, <1>4, ProductTake
  <2>2. m \in Int
    <3>1. IsFiniteSet(known \ {l}) /\ \A x \in known \ {l} : dens[x] \in Int
      BY <1>2, <1>4, FS_RemoveElement
    <3> HIDE DEF known
    <3> QED BY <3>1, ProductTake
  <2>3. d \in Nat \ {0}
    BY <1>3
  <2> HIDE DEF m, d, common
  <2>4. (d * m) \div d = m
    BY <2>2, <2>3
  <2>5. m \in Nat
    <3>1. \A a \in Nat \ {0}, b \in Int : a * b > 0 => b > 0
      OBVIOUS
    <3> QED BY <1>5, <2>1, <2>2, <2>3, <3>1
  <2> QED BY <2>1, <2>4, <2>5 DEF d
<1> HIDE DEF common
<1>7. ASSUME NEW l \in known
      PROVE  /\ terms[l] \in Nat /\ terms[l] <= common /\ common <= MaxRows * terms[l]
             /\ MaxRows * terms[l] \in Int
  <2> DEFINE a == weights1[l].num
             d == weights1[l].den
  <2>1. PICK m \in Nat : common = d * m /\ common \div d = m
    BY <1>6
  <2>2. terms[l] = a * m
    BY <2>1
  <2>3. a \in Nat /\ d \in Nat \ {0} /\ a <= d /\ d <= MaxRows * a /\ MaxRows \in Nat
    BY <1>3, LevelsAssumption
  <2> HIDE DEF a, d, terms
  <2>4. a * m \in Nat /\ a * m <= d * m
    BY <2>3
  <2>5. d * m <= (MaxRows * a) * m
    <3>1. \A x, y \in Int, z \in Nat : x <= y => x * z <= y * z
      OBVIOUS
    <3>2. MaxRows * a \in Int /\ d \in Int
      BY <2>3
    <3> QED BY <2>3, <3>1, <3>2
  <2>6. (MaxRows * a) * m = MaxRows * (a * m) /\ MaxRows * (a * m) \in Int
    BY <2>3
  <2> QED BY <2>1, <2>2, <2>4, <2>5, <2>6
<1>8. /\ \A l \in known : same[l] = common /\ same[l] \in Int
      /\ \A l \in known : scaled[l] = MaxRows * terms[l] /\ scaled[l] \in Int /\ terms[l] \in Int
      /\ \A l \in known : terms[l] <= same[l] /\ same[l] <= scaled[l]
  <2>1. \A l \in known : same[l] = common /\ same[l] \in Int
    BY <1>5
  <2> HIDE DEF terms, same
  <2>2. \A l \in known : scaled[l] = MaxRows * terms[l]
    OBVIOUS
  <2> HIDE DEF scaled
  <2> QED BY <1>7, <2>1, <2>2
<1> HIDE DEF terms, same, scaled
<1>9. SumFunctionOnSet(same, known) = common * n
  BY <1>2, <1>5, <1>8, SumConstant DEF n
<1>10. SumFunctionOnSet(scaled, known) = MaxRows * total
  BY <1>2, <1>8, SumScaled, LevelsAssumption, MaxRows \in Int
<1>11. total <= SumFunctionOnSet(same, known)
  BY <1>2, <1>8, SumCompare
<1>12. SumFunctionOnSet(same, known) <= SumFunctionOnSet(scaled, known)
  BY <1>2, <1>8, SumCompare
<1>13. total \in Nat
  <2> DEFINE zeros == [l \in known |-> 0]
  <2>1. \A l \in known : zeros[l] = 0 /\ zeros[l] \in Int /\ zeros[l] <= terms[l] /\ terms[l] \in Int
    BY <1>7
  <2> HIDE DEF zeros
  <2>2. SumFunctionOnSet(zeros, known) = 0 * n
    BY <1>2, <2>1, SumConstant DEF n
  <2>3. SumFunctionOnSet(zeros, known) <= total
    BY <1>2, <2>1, SumCompare
  <2>4. total \in Int
    BY <1>2, <2>1, SumTake
  <2> HIDE DEF total
  <2> QED BY <1>2, <2>2, <2>3, <2>4
<1>14. common * n \in Nat \ {0}
  BY <1>2, <1>5
<1> HIDE DEF total
<1> QED BY <1>1, <1>9, <1>10, <1>11, <1>12, <1>13, <1>14 DEF IsWeight

-----------------------------------------------------------------------------
(* What is known of the weights: those of the last batch in which levels   *)
(* were played.                                                            *)
LevelsInv ==
  task = "levels" =>
    /\ DOMAIN weights \subseteq Levels
    /\ \A l \in DOMAIN weights : IsWeight(weights[l])
    /\ result # None =>
         /\ input \in RolloutBatches
         /\ result = Sampling!Chances(Levels, weights)
         /\ Sampling!LevelsOf(input) # {} =>
              weights = [l \in Sampling!LevelsOf(input) |-> Sampling!InverseAverage(input, l)]

LEMMA LevelsInit == Init => LevelsInv
<1> SUFFICES ASSUME Init PROVE LevelsInv
  OBVIOUS
<1>1. weights = << >> /\ result = None
  BY DEF Init, None
<1>2. DOMAIN weights = {}
  BY <1>1
<1> QED BY <1>1, <1>2 DEF LevelsInv

LEMMA LevelsPlayed ==
  ASSUME NEW batch \in RolloutBatches
  PROVE  Sampling!LevelsOf(batch) \subseteq Levels
<1>1. \A i \in DOMAIN batch : batch[i].level \in Levels \cup {"none"}
  BY DEF RolloutBatches
<1> QED BY <1>1 DEF Sampling!LevelsOf

LEMMA LevelsStep == LevelsInv /\ [Next]_vars => LevelsInv'
<1> SUFFICES ASSUME LevelsInv, [Next]_vars, task' = "levels"
             PROVE  LevelsInv'
  BY DEF LevelsInv
<1>1. CASE \E batch \in RolloutBatches : LearnWeights(batch)
  <2>1. PICK batch \in RolloutBatches : LearnWeights(batch)
    BY <1>1
  <2> DEFINE played == Sampling!LevelsOf(batch)
             new == [l \in played |-> Sampling!InverseAverage(batch, l)]
  <2>2. /\ task = "levels" /\ input' = batch
        /\ weights' = IF played = {} THEN weights ELSE new
        /\ result' = Sampling!Chances(Levels, weights')
    BY <2>1 DEF LearnWeights, Sampling!UpdatedWeights
  <2>3. DOMAIN weights \subseteq Levels /\ \A l \in DOMAIN weights : IsWeight(weights[l])
    BY <2>2 DEF LevelsInv
  <2>4. DOMAIN new = played /\ \A l \in played : IsWeight(new[l])
    BY InverseAverageIsWeight
  <2>5. played \subseteq Levels
    BY LevelsPlayed
  <2>6. DOMAIN weights' \subseteq Levels /\ \A l \in DOMAIN weights' : IsWeight(weights'[l])
    <3> HIDE DEF new, played
    <3> QED BY <2>2, <2>3, <2>4, <2>5
  <2>7. played # {} => weights' = new
    BY <2>2
  <2> QED BY <2>2, <2>6, <2>7, Zenon DEF LevelsInv, IsWeight
<1>2. CASE ~ (\E batch \in RolloutBatches : LearnWeights(batch))
  <2>1. \/ Balance \/ Rearrange \/ ForwardPass \/ EstimateAll
        \/ RowsNext
        \/ UNCHANGED vars
    BY <1>2 DEF Next, Finished, RolloutBatches
  <2>2. CASE Balance \/ Rearrange \/ ForwardPass \/ EstimateAll
    BY <2>2, Zenon DEF Balance, Rearrange, ForwardPass, EstimateAll, Compute
  <2>3. CASE RowsNext
    <3>1. Step
      BY <2>3 DEF RowsNext, RepeatRows, RepeatByCount, ReverseRows, DropRow, SplitAndConcat,
                  PadRows, UnpadRows, CallMesh, CallOnAnswer, CallPadded
    <3> QED BY <3>1 DEF Step
  <2>4. CASE UNCHANGED vars
    <3>1. task' = task /\ input' = input /\ result' = result /\ weights' = weights
      BY <2>4 DEF vars
    <3> QED BY <3>1, Zenon DEF LevelsInv, IsWeight
  <2> QED BY <2>1, <2>2, <2>3, <2>4
<1> QED BY <1>1, <1>2

(* The chances are weights too.                                            *)
LEMMA ChancesAreWeights ==
  ASSUME NEW weights1, DOMAIN weights1 \subseteq Levels,
         \A l \in DOMAIN weights1 : IsWeight(weights1[l])
  PROVE  \A l \in Levels : IsWeight(Sampling!Chances(Levels, weights1)[l])
<1>1. CASE DOMAIN weights1 = {}
  <2>1. \A l \in Levels : Sampling!Chances(Levels, weights1)[l] = [num |-> 1, den |-> 1]
    BY <1>1 DEF Sampling!Chances
  <2>2. IsWeight([num |-> 1, den |-> 1])
    BY LevelsAssumption DEF IsWeight
  <2> QED BY <2>1, <2>2
<1>2. CASE DOMAIN weights1 # {}
  <2>1. IsFiniteSet(DOMAIN weights1)
    BY LevelsAssumption, FS_Subset
  <2>2. IsWeight(Sampling!DefaultWeight(weights1))
    BY <1>2, <2>1, DefaultIsWeight, Zenon
  <2>3. \A l \in Levels : Sampling!Chances(Levels, weights1)[l]
          = IF l \in DOMAIN weights1 THEN weights1[l] ELSE Sampling!DefaultWeight(weights1)
    BY <1>2 DEF Sampling!Chances
  <2> QED BY <2>2, <2>3, Zenon
<1> QED BY <1>1, <1>2

(* Two weights differ by a factor of MaxRows at most.                      *)
LEMMA WeightsAreClose ==
  ASSUME NEW v, IsWeight(v), NEW w, IsWeight(w)
  PROVE  MaxRows * v.num * w.den >= w.num * v.den
<1> DEFINE a == v.num  b == v.den  c == w.num  d == w.den
<1>1. /\ a \in Nat /\ b \in Nat /\ c \in Nat /\ d \in Nat /\ MaxRows \in Nat
      /\ b <= MaxRows * a /\ c <= d
  BY LevelsAssumption DEF IsWeight
<1> HIDE DEF a, b, c, d
<1>2. \A x, y \in Int, z \in Nat : x <= y => x * z <= y * z
  OBVIOUS
<1>3. c * b <= d * b
  BY <1>1, <1>2
<1>4. b * d <= (MaxRows * a) * d
  <2>1. MaxRows * a \in Int
    BY <1>1
  <2> QED BY <1>1, <1>2, <2>1
<1>5. b * d = d * b /\ c * b \in Int /\ d * b \in Int /\ (MaxRows * a) * d \in Int
  BY <1>1
<1>6. (MaxRows * a) * d >= c * b
  <2> DEFINE p == c * b  q == d * b  r == b * d  s == (MaxRows * a) * d
  <2>1. p <= q /\ r <= s /\ r = q /\ p \in Int /\ q \in Int /\ s \in Int
    BY <1>3, <1>4, <1>5
  <2> HIDE DEF p, q, r, s
  <2>2. s >= p
    BY <2>1
  <2> QED BY <2>2 DEF p, s
<1> QED BY <1>6 DEF a, b, c, d

LEMMA LevelsSafe == LevelsInv => NoLevelStarves
<1> SUFFICES ASSUME LevelsInv, task = "levels", result # None
             PROVE  /\ \A a, b \in Levels :
                         MaxRows * result[a].num * result[b].den >= result[b].num * result[a].den
                    /\ \A a, b \in Levels \cap Sampling!LevelsOf(input) :
                         Sampling!Outputs(input, a) * Cardinality(Sampling!Trajectories(input, b))
                           < Sampling!Outputs(input, b) * Cardinality(Sampling!Trajectories(input, a))
                         => result[a].num * result[b].den > result[b].num * result[a].den
  BY Zenon DEF NoLevelStarves
<1>1. /\ DOMAIN weights \subseteq Levels
      /\ \A l \in DOMAIN weights : IsWeight(weights[l])
      /\ input \in RolloutBatches
      /\ result = Sampling!Chances(Levels, weights)
      /\ Sampling!LevelsOf(input) # {} =>
           weights = [l \in Sampling!LevelsOf(input) |-> Sampling!InverseAverage(input, l)]
  BY Zenon DEF LevelsInv
<1>2. \A l \in Levels : IsWeight(result[l])
  BY <1>1, ChancesAreWeights, Zenon
<1>3. ASSUME NEW a \in Levels, NEW b \in Levels
      PROVE  MaxRows * result[a].num * result[b].den >= result[b].num * result[a].den
  BY <1>2, WeightsAreClose
<1>4. ASSUME NEW a \in Levels \cap Sampling!LevelsOf(input),
             NEW b \in Levels \cap Sampling!LevelsOf(input),
             Sampling!Outputs(input, a) * Cardinality(Sampling!Trajectories(input, b))
               < Sampling!Outputs(input, b) * Cardinality(Sampling!Trajectories(input, a))
      PROVE  result[a].num * result[b].den > result[b].num * result[a].den
  <2>1. weights = [l \in Sampling!LevelsOf(input) |-> Sampling!InverseAverage(input, l)]
    BY <1>1, <1>4
  <2>2. \A l \in Levels \cap Sampling!LevelsOf(input) :
          result[l] = Sampling!InverseAverage(input, l)
    <3>1. DOMAIN weights = Sampling!LevelsOf(input) /\ DOMAIN weights # {}
      BY <1>4, <2>1
    <3>2. \A l \in Levels : l \in DOMAIN weights => result[l] = weights[l]
      BY <1>1, <3>1 DEF Sampling!Chances
    <3> QED BY <2>1, <3>1, <3>2
  <2>3. \A l : /\ Sampling!InverseAverage(input, l).num = Cardinality(Sampling!Trajectories(input, l))
               /\ Sampling!InverseAverage(input, l).den = Sampling!Outputs(input, l)
    <3>1. \A l : Sampling!InverseAverage(input, l)
                   = [num |-> Cardinality(Sampling!Trajectories(input, l)),
                      den |-> Sampling!Outputs(input, l)]
      BY SameOperatorsOfLevels, Zenon DEF Sampling!InverseAverage
    <3> QED BY <3>1
  <2>4. IsWeight(result[a]) /\ IsWeight(result[b])
    BY <1>2
  <2> DEFINE na == result[a].num  da == result[a].den  nb == result[b].num  db == result[b].den
  <2>5. na \in Nat /\ da \in Nat /\ nb \in Nat /\ db \in Nat
    BY <2>4 DEF IsWeight
  <2>6. da * nb < db * na
    BY <1>4, <2>2, <2>3
  <2> HIDE DEF na, da, nb, db
  <2>7. na * db > nb * da
    BY <2>5, <2>6
  <2> QED BY <2>7 DEF na, da, nb, db
<1> QED BY <1>3, <1>4

(* A level keeps its chance of being played, for every set of levels, any  *)
(* number of rollouts of any length, and any series of batches.            *)
THEOREM LevelsNeverStarve == Spec => []NoLevelStarves
<1>1. Spec => []LevelsInv
  BY LevelsInit, LevelsStep, PTL DEF Spec
<1> QED BY <1>1, LevelsSafe, PTL

-----------------------------------------------------------------------------
(* Parts and micro-batches.                                                *)

LEMMA ExactIs ==
  ASSUME NEW n \in Nat, NEW parts, ExactParts(parts, 1 .. n),
         \A p \in 1 .. Len(parts) : parts[p] # << >>
  PROVE  Exact(parts, n) /\ DOMAIN parts = 1 .. Len(parts)
<1>1. /\ DOMAIN parts = 1 .. Len(parts) /\ SumSeq(Lens(parts)) = n
      /\ ToSet(FlattenSeq(parts)) = 1 .. n
  BY PartsLength
<1>2. [p \in DOMAIN parts |-> Len(parts[p])] = Lens(parts)
  BY <1>1 DEF Lens
<1> QED BY <1>1, <1>2 DEF Exact

(* A sequence has finitely many members.                                   *)
LEMMA MembersFinite ==
  ASSUME NEW X, NEW s \in Seq(X)
  PROVE  IsFiniteSet(Members(s))
<1> DEFINE n == Len(s)
           C == Members(s)
<1>1. n \in Nat /\ s \in [1 .. n -> C] /\ \A x \in C : \E i \in 1 .. n : s[i] = x
  BY LenProperties DEF Members
<1> HIDE DEF n, C
<1>2. s \in Surjection(1 .. n, C)
  BY <1>1, Fun_IsSurj
<1>3. IsFiniteSet(1 .. n)
  BY <1>1, FirstNumbers
<1>4. IsFiniteSet(C)
  BY <1>2, <1>3, FS_Surjection
<1> QED BY <1>4 DEF C

(* The greatest work of a row.                                             *)
LEMMA GreatestWork ==
  ASSUME NEW work, Works(work), work # << >>
  PROVE  /\ Max(ToSet(work)) \in Nat
         /\ \A i \in 1 .. Len(work) : work[i] <= Max(ToSet(work))
<1> DEFINE n == Len(work)
           S == ToSet(work)
<1>1. n \in Nat /\ n > 0 /\ DOMAIN work = 1 .. n /\ \A i \in 1 .. n : work[i] \in Nat
  BY LenProperties, ElementOfSeq, EmptySeq DEF Works
<1>2. S = {work[i] : i \in 1 .. n}
  BY <1>1 DEF ToSet
<1>3. IsFiniteSet(S)
  <2>1. work \in Seq(Nat \ {0}) /\ S = Members(work)
    BY <1>2 DEF Works, Members
  <2> QED BY <2>1, MembersFinite
<1>4. S \subseteq Nat /\ S # {} /\ work[1] \in S /\ \A i \in 1 .. n : work[i] \in S
  BY <1>1, <1>2
<1> HIDE DEF S
<1>5. Max(S) \in S /\ \A y \in S : y <= Max(S)
  BY <1>3, <1>4, MaxOfSet
<1> QED BY <1>4, <1>5 DEF S

(* Fair parts of rows, no fewer than parts, are what _balance_batch asks   *)
(* for.                                                                    *)
LEMMA FairIsExact ==
  ASSUME NEW lens \in Seq(Nat \ {0}), NEW k \in Nat, k > 0, k <= Len(lens),
         NEW equal_size \in BOOLEAN, NEW w, NEW parts,
         FairParts(parts, k, Workloads(lens), w, equal_size)
  PROVE  /\ DOMAIN parts = 1 .. k
         /\ Exact(parts, Len(lens))
         /\ equal_size => \A p \in DOMAIN parts : Len(parts[p]) * k = Len(lens)
         /\ w = Max(ToSet(Workloads(lens))) => NearlyEqual(parts, Workloads(lens))
<1> DEFINE work == Workloads(lens)
           n == Len(lens)
<1>1. Works(work) /\ Len(work) = n /\ work \in Seq(Int)
  BY WorkloadsPositive, WorkloadsType, SeqOfMembers, ElementOfSeq
<1>2. n \in Nat
  BY LenProperties
<1> HIDE DEF work, n
<1>3. /\ \A p \in 1 .. k : parts[p] # << >>
      /\ equal_size => \A p \in 1 .. k : Len(parts[p]) * k = Len(work)
  <2>1. FairParts(parts, k, work, w, equal_size) /\ k <= Len(work)
    BY <1>1 DEF work, n
  <2>2. NotEmpty(parts, k) /\ (equal_size => OfSize(parts, k, Len(work)))
    BY <1>1, <2>1, FairNotEmpty
  <2> QED BY <2>2, Zenon DEF NotEmpty, OfSize
<1>4. /\ Len(parts) = k /\ ExactParts(parts, 1 .. n)
      /\ \A p, q \in 1 .. k : PartWork(work, parts[p]) - PartWork(work, parts[q]) <= w
  BY <1>1, Zenon DEF FairParts, work
<1>5. Exact(parts, n) /\ DOMAIN parts = 1 .. k
  BY <1>2, <1>3, <1>4, ExactIs
<1>6. equal_size => \A p \in DOMAIN parts : Len(parts[p]) * k = n
  BY <1>1, <1>3, <1>5
<1>7. w = Max(ToSet(work)) => NearlyEqual(parts, work)
  BY <1>4, <1>5 DEF NearlyEqual, PartWork
<1> QED BY <1>5, <1>6, <1>7 DEF work, n

(* What _balance_batch computes.                                           *)
LEMMA BalanceExact ==
  ASSUME NEW lens \in Seq(Nat \ {0}), NEW k \in Nat, k > 0, k <= Len(lens),
         NEW equal_size \in BOOLEAN, equal_size => Len(lens) % k = 0
  PROVE  LET work   == Workloads(lens)
             parts  == BalancedPartitions(work, k, equal_size)
             greedy == GreedyPartition(work, k, equal_size)
             order  == BalancedOrder(work, parts)
         IN  /\ \A x \in {parts, greedy} :
                  /\ Exact(x, Len(lens))
                  /\ equal_size => \A p \in DOMAIN x : Len(x[p]) * k = Len(lens)
             /\ Exact(<< order >>, Len(lens))
             /\ equal_size => \A p \in DOMAIN parts :
                  LET size == Len(lens) \div k
                  IN  ToSet(SubSeq(order, (p - 1) * size + 1, p * size)) = ToSet(parts[p])
             /\ NearlyEqual(parts, work)
             /\ ~ equal_size => NearlyEqual(greedy, work)
<1> DEFINE work   == Workloads(lens)
           parts  == BalancedPartitions(work, k, equal_size)
           greedy == GreedyPartition(work, k, equal_size)
           order  == BalancedOrder(work, parts)
           n == Len(lens)
           w == Max(ToSet(work))
           g == IF equal_size THEN SumSeq(work) ELSE w
<1>1. Works(work) /\ Len(work) = n /\ n \in Nat
  BY WorkloadsPositive, LenProperties
<1> HIDE DEF work, n
<1>2. n > 0 /\ work # << >>
  <2>1. k <= n
    BY DEF n
  <2> QED BY <1>1, <2>1, EmptySeq
<1>3. w \in Nat /\ \A i \in 1 .. Len(work) : work[i] <= w
  BY <1>1, <1>2, GreatestWork
<1>4. equal_size => Len(work) % k = 0
  BY <1>1 DEF n
<1> HIDE DEF w
<1>5. FairParts(parts, k, work, w, equal_size)
  BY <1>1, <1>2, <1>3, <1>4, BalancedFair
<1>6. FairParts(greedy, k, work, g, equal_size)
  BY <1>1, <1>3, <1>4, GreedyFair
<1> HIDE DEF parts, greedy, g
<1>7. /\ DOMAIN parts = 1 .. k /\ Exact(parts, n)
      /\ equal_size => \A p \in DOMAIN parts : Len(parts[p]) * k = n
      /\ NearlyEqual(parts, work)
  BY <1>5, FairIsExact DEF work, n, w
<1>8. /\ Exact(greedy, n)
      /\ equal_size => \A p \in DOMAIN greedy : Len(greedy[p]) * k = n
      /\ g = w => NearlyEqual(greedy, work)
  BY <1>6, FairIsExact DEF work, n, w
<1>9. ~ equal_size => g = w
  BY DEF g
<1>10. Len(parts) = k /\ ExactParts(parts, 1 .. n)
  BY <1>1, <1>5 DEF FairParts
<1>11. /\ order \in Seq(1 .. n) /\ Distinct(order) /\ Members(order) = 1 .. n
       /\ Slices(order, parts)
  BY <1>1, <1>10, BalancedOrderExact
<1> HIDE DEF order
<1>12. Exact(<< order >>, n)
  <2>1. << order >> \in Seq(Seq(1 .. n)) /\ Len(<< order >>) = 1 /\ << order >>[1] = order
    BY <1>11
  <2>2. order # << >>
    <3>1. 1 \in Members(order)
      BY <1>1, <1>2, <1>11
    <3> QED BY <3>1 DEF Members
  <2>3. ExactParts(<< order >>, 1 .. n)
    <3>0. 1 \in 1 .. Len(<< order >>)
      BY <2>1
    <3>1. \A x \in 1 .. n : \E p \in 1 .. Len(<< order >>) : x \in Members(<< order >>[p])
      BY <1>11, <2>1, <3>0, Zenon
    <3>2. \A p, q \in 1 .. Len(<< order >>) : p = q /\ << order >>[p] = order
      BY <2>1
    <3> DEFINE t == << order >>
    <3> HIDE DEF t
    <3> QED BY <1>11, <2>1, <3>1, <3>2, Zenon DEF ExactParts, t
  <2>4. \A p \in 1 .. Len(<< order >>) : << order >>[p] # << >>
    BY <2>1, <2>2
  <2> QED BY <1>1, <2>3, <2>4, ExactIs
<1>13. ASSUME equal_size, NEW p \in DOMAIN parts
       PROVE  ToSet(SubSeq(order, (p - 1) * (n \div k) + 1, p * (n \div k))) = ToSet(parts[p])
  <2> DEFINE size == n \div k
  <2>1. size \in Nat
    <3>1. \A a \in Nat, b \in Nat \ {0} : a \div b \in Nat
      OBVIOUS
    <3>2. k \in Nat \ {0}
      OBVIOUS
    <3> QED BY <1>1, <3>1, <3>2
  <2>2. ASSUME NEW q \in 1 .. k PROVE Len(parts[q]) = size
    <3> DEFINE l == Len(parts[q])
    <3>1. l * k = n
      BY <1>7, <1>13
    <3>2. l \in Nat
      BY <1>1, <1>10, PartsLength
    <3> HIDE DEF l
    <3>3. (l * k) \div k = l
      BY <3>2
    <3> QED BY <3>1, <3>3 DEF l
  <2> HIDE DEF size
  <2>3. ToSet(SubSeq(order, (p - 1) * size + 1, p * size)) = ToSet(parts[p])
    <3>1. p \in 1 .. Len(parts) /\ \A q \in 1 .. Len(parts) : Len(parts[q]) = size
      BY <1>7, <1>10, <2>2
    <3> QED BY <1>11, <2>1, <3>1, Zenon DEF Slices
  <2> QED BY <2>3 DEF size
<1>14. /\ \A x \in {parts, greedy} :
            /\ Exact(x, n)
            /\ equal_size => \A p \in DOMAIN x : Len(x[p]) * k = n
       /\ Exact(<< order >>, n)
       /\ equal_size => \A p \in DOMAIN parts :
            ToSet(SubSeq(order, (p - 1) * (n \div k) + 1, p * (n \div k))) = ToSet(parts[p])
       /\ NearlyEqual(parts, work)
       /\ ~ equal_size => NearlyEqual(greedy, work)
  BY <1>7, <1>8, <1>9, <1>12, <1>13
<1> QED BY <1>14 DEF work, parts, greedy, order, n

(* What rearrange_micro_batches and restore_dynamic_batch compute.         *)
LEMMA RearrangeExact ==
  ASSUME NEW lens \in Seq(Nat \ {0}), lens # << >>, NEW max_token_len \in Nat \ {0}
  PROVE  LET num   == MicroBatchesWanted(lens, max_token_len)
             plan  == MicroBatches(lens, num)
             order == FlattenSeq(plan)
             restored == RestoreDynamicBatch(order, order)
         IN  /\ Len(plan) = num
             /\ Exact(plan, Len(lens))
             /\ \A i \in DOMAIN restored : restored[i] = i
<1> DEFINE num   == MicroBatchesWanted(lens, max_token_len)
           plan  == MicroBatches(lens, num)
           order == FlattenSeq(plan)
           restored == RestoreDynamicBatch(order, order)
           work == Workloads(lens)
           n == Len(lens)
           P == BalancedPartitions(work, num, FALSE)
           Q == HeavyFirst(work, P)
           w == Max(ToSet(work))
<1>1. num \in 1 .. n /\ n \in Nat
  BY WantedPositive, LenProperties
<1> HIDE DEF num
<1>2. num \in Nat /\ num > 0 /\ num <= n
  BY <1>1
<1>3. Works(work) /\ Len(work) = n
  BY WorkloadsPositive
<1>4. Len(plan) = num /\ ExactParts(plan, 1 .. n)
  <2>1. lens \in Seq(Nat)
    BY SeqOfMembers, ElementOfSeq
  <2> QED BY <1>2, <2>1, MicroBatchesExact
<1>5. plan = SmallAtEnds(Q)
  BY DEF MicroBatches
<1> HIDE DEF work, plan, n
<1>6. work # << >> /\ work \in Seq(Int)
  BY <1>2, <1>3, EmptySeq, SeqOfMembers, ElementOfSeq DEF Works
<1>7. w \in Nat /\ \A i \in 1 .. Len(work) : work[i] <= w
  BY <1>3, <1>6, GreatestWork
<1> HIDE DEF w
<1>8. FairParts(P, num, work, w, FALSE)
  BY <1>2, <1>3, <1>6, <1>7, BalancedFair
<1> HIDE DEF P
<1>9. NotEmpty(P, num)
  <2>1. FALSE \in BOOLEAN /\ num <= Len(work)
    BY <1>2, <1>3
  <2> QED BY <1>2, <1>6, <1>8, <2>1, FairNotEmpty
<1>10. Len(P) = num /\ ExactParts(P, 1 .. n)
  BY <1>3, <1>8 DEF FairParts
<1>11. NotEmpty(plan, num)
  <2> DEFINE Z == Seq(1 .. n)
  <2>1. P \in Seq(Z)
    BY <1>10 DEF ExactParts
  <2> HIDE DEF Z
  <2>2. Q \in Seq(Z) /\ Rearranges(Q, P, Len(P))
    BY <2>1, SortedHeavyFirst
  <2> HIDE DEF Q
  <2>3. SmallAtEnds(Q) \in Seq(Z) /\ Rearranges(SmallAtEnds(Q), Q, Len(Q))
    BY <2>2, SmallAtEndsRearranges
  <2>4. Members(SmallAtEnds(Q)) = Members(P)
    BY <2>1, <2>2, <2>3, RearrangedMembers
  <2>5. << >> \notin Members(P)
    BY <1>9, <1>10 DEF Members, NotEmpty
  <2> QED BY <1>4, <1>5, <2>4, <2>5 DEF Members, NotEmpty
<1>12. Exact(plan, n)
  BY <1>1, <1>4, <1>11, ExactIs DEF NotEmpty
<1>13. order \in Seq(1 .. n) /\ Distinct(order) /\ Members(order) = 1 .. n
  BY <1>4, FlattenExact
<1> HIDE DEF order
<1>14. \A i \in DOMAIN restored : restored[i] = i
  BY <1>1, <1>13, RestoredInPlace
<1> HIDE DEF restored
<1> QED BY <1>4, <1>12, <1>14 DEF num, plan, order, restored, n

-----------------------------------------------------------------------------
(* The answer of one computation, to an input that can be computed.        *)
PartsInv ==
  /\ task = "balance" => input \in Partitionings
  /\ task = "micro_batches" => input \in Rearrangements
  /\ PartsAreExact

LEMMA PartsInit == Init => PartsInv
<1> SUFFICES ASSUME Init PROVE PartsInv
  OBVIOUS
<1>1. result = None
  BY DEF Init
<1>2. task = "balance" => input \in Partitionings
  BY DEF Init
<1>3. task = "micro_batches" => input \in Rearrangements
  BY DEF Init
<1> QED BY <1>1, <1>2, <1>3 DEF PartsInv, PartsAreExact

LEMMA PartsBalanced ==
  ASSUME PartsInv, Balance
  PROVE  PartsInv'
<1> DEFINE lens == input[1]
           k == input[2]
           equal_size == input[3]
           work   == Workloads(lens)
           parts  == BalancedPartitions(work, k, equal_size)
           greedy == GreedyPartition(work, k, equal_size)
           order  == BalancedOrder(work, parts)
           answer1 == [karmarkar_karp |-> parts, greedy |-> greedy, order |-> order]
<1>1. /\ task = "balance" /\ task' = "balance" /\ input' = input
      /\ result' = answer1
  BY DEF Balance, Compute
<1>2. input \in Partitionings
  BY <1>1 DEF PartsInv
<1>3. /\ lens \in Seq(Nat \ {0}) /\ k \in Nat /\ k > 0 /\ k <= Len(lens)
      /\ equal_size \in BOOLEAN
      /\ equal_size => Len(lens) % k = 0
  <2>1. /\ lens \in Lengths /\ k \in Parts /\ equal_size \in BOOLEAN
        /\ Len(lens) >= k /\ (equal_size => Len(lens) % k = 0)
    BY <1>2 DEF Partitionings
  <2>2. lens \in Seq(Nat \ {0}) /\ k \in Nat \ {0}
    BY <2>1, LengthsAssumption
  <2>3. Len(lens) \in Nat
    BY <2>2, LenProperties
  <2> QED BY <2>1, <2>2, <2>3
<1> HIDE DEF lens, k, equal_size
<1>4. /\ \A x \in {parts, greedy} :
           /\ Exact(x, Len(lens))
           /\ equal_size => \A p \in DOMAIN x : Len(x[p]) * k = Len(lens)
      /\ Exact(<< order >>, Len(lens))
      /\ equal_size => \A p \in DOMAIN parts :
           LET size == Len(lens) \div k
           IN  ToSet(SubSeq(order, (p - 1) * size + 1, p * size)) = ToSet(parts[p])
      /\ NearlyEqual(parts, work)
      /\ ~ equal_size => NearlyEqual(greedy, work)
  BY <1>3, BalanceExact, Zenon
<1> HIDE DEF parts, greedy, order
<1>5. /\ result'.karmarkar_karp = parts /\ result'.greedy = greedy /\ result'.order = order
  BY <1>1
<1>6. lens' = lens /\ k' = k /\ equal_size' = equal_size
  BY <1>1 DEF lens, k, equal_size
<1> QED BY <1>1, <1>2, <1>4, <1>5, <1>6 DEF PartsInv, PartsAreExact, lens, k, equal_size

LEMMA PartsRearranged ==
  ASSUME PartsInv, Rearrange
  PROVE  PartsInv'
<1> DEFINE lens == input[1]
           num   == MicroBatchesWanted(lens, input[2])
           plan  == MicroBatches(lens, num)
           order == FlattenSeq(plan)
           restored == RestoreDynamicBatch(order, order)
<1>1. /\ task = "micro_batches" /\ task' = "micro_batches" /\ input' = input
      /\ result' = [plan |-> plan, wanted |-> num, restored |-> restored]
  BY DEF Rearrange, Compute
<1>2. input \in Rearrangements
  BY <1>1 DEF PartsInv
<1>3. lens \in Seq(Nat \ {0}) /\ lens # << >> /\ input[2] \in Nat \ {0}
  BY <1>2, LengthsAssumption DEF Rearrangements
<1> HIDE DEF lens
<1>4. /\ Len(plan) = num
      /\ Exact(plan, Len(lens))
      /\ \A i \in DOMAIN restored : restored[i] = i
  BY <1>3, RearrangeExact, Zenon
<1> HIDE DEF plan, restored, num
<1>5. /\ result'.plan = plan /\ result'.wanted = num /\ result'.restored = restored
  BY <1>1
<1> QED BY <1>1, <1>2, <1>4, <1>5, Zenon DEF PartsInv, PartsAreExact, lens

LEMMA PartsUnchanged ==
  ASSUME PartsInv, UNCHANGED << task, input, result >>
  PROVE  PartsInv'
BY DEF PartsInv, PartsAreExact

(* The other computations are not about parts.                             *)
LEMMA PartsElsewhere ==
  ASSUME task' # "balance", task' # "micro_batches"
  PROVE  PartsInv'
BY DEF PartsInv, PartsAreExact

LEMMA PartsStep ==
  ASSUME PartsInv, [Next]_vars
  PROVE  PartsInv'
<1>1. CASE Balance
  BY <1>1, PartsBalanced
<1>2. CASE Rearrange
  BY <1>2, PartsRearranged
<1>3. CASE ForwardPass \/ EstimateAll
  <2>1. task' # "balance" /\ task' # "micro_batches"
    BY <1>3, Zenon DEF ForwardPass, EstimateAll, Compute
  <2> QED BY <2>1, PartsElsewhere
<1>4. CASE RowsNext
  <2>1. Step
    BY <1>4 DEF RowsNext, RepeatRows, RepeatByCount, ReverseRows, DropRow, SplitAndConcat,
                PadRows, UnpadRows, CallMesh, CallOnAnswer, CallPadded
  <2> QED BY <2>1, PartsElsewhere DEF Step
<1>5. ASSUME NEW batch, LearnWeights(batch) PROVE PartsInv'
  BY <1>5, PartsElsewhere DEF LearnWeights
<1>6. CASE Finished \/ UNCHANGED vars
  BY <1>6, PartsUnchanged DEF Finished, vars
<1> QED BY <1>1, <1>2, <1>3, <1>4, <1>5, <1>6 DEF Next

(* seqlen_balancing: however many rows of whatever lengths are divided,    *)
(* by either way of making parts and with or without equal sizes, every    *)
(* row is in one part, no part is empty, the heaviest exceeds the lightest *)
(* by one row's work at most, each rank is sent its own part, and the      *)
(* answers of micro-batches come back in the order of the rows.            *)
THEOREM PartsAlwaysExact == Spec => []PartsAreExact
<1>1. Init => PartsInv
  BY PartsInit
<1>2. PartsInv /\ [Next]_vars => PartsInv'
  BY PartsStep
<1>3. PartsInv => PartsAreExact
  BY DEF PartsInv
<1> QED BY <1>1, <1>2, <1>3, PTL DEF Spec

-----------------------------------------------------------------------------
(* Advantages over the tokens of a row.                                    *)

(* A row: per token a reward, whether it was generated, and a value.       *)
IsRow(row, n) ==
  /\ n \in Nat
  /\ row.rewards \in [1 .. n -> Int] /\ Len(row.rewards) = n
  /\ row.mask \in [1 .. n -> BOOLEAN] /\ Len(row.mask) = n
  /\ row.values \in [1 .. n -> Int] /\ row.value \in Int

(* A function that stays in a set from one number to the next.             *)
LEMMA StaysIn ==
  ASSUME NEW T, NEW n \in Nat, NEW c, c = [k \in 0 .. n |-> c[k]], c[0] \in T,
         \A k \in 1 .. n : c[k - 1] \in T => c[k] \in T
  PROVE  c \in [0 .. n -> T]
<1> DEFINE S == {k \in 0 .. n : c[k] \in T}
<1>1. ASSUME NEW m \in 0 .. n PROVE m \in S
  <2>1. 0 \in S
    OBVIOUS
  <2>2. ASSUME NEW k \in 0 .. m - 1, k \in S PROVE k + 1 \in S
    <3>1. k + 1 \in 1 .. n /\ (k + 1) - 1 = k /\ k + 1 \in 0 .. n
      OBVIOUS
    <3> QED BY <2>2, <3>1
  <2>3. m \in Nat
    OBVIOUS
  <2> HIDE DEF S
  <2> QED BY <2>1, <2>2, <2>3, Induction
<1> QED BY <1>1

(* The generated tokens from one on, counted from the end.                 *)
LEMMA GeneratedStep ==
  ASSUME NEW row, NEW n, IsRow(row, n)
  PROVE  /\ GeneratedFrom(row, n + 1) = {}
         /\ \A t \in 1 .. n + 1 : IsFiniteSet(GeneratedFrom(row, t))
                                  /\ GeneratedFrom(row, t) \subseteq t .. n
         /\ \A t \in 1 .. n :
              /\ t \notin GeneratedFrom(row, t + 1)
              /\ row.mask[t] => GeneratedFrom(row, t) = GeneratedFrom(row, t + 1) \cup {t}
              /\ ~ row.mask[t] => GeneratedFrom(row, t) = GeneratedFrom(row, t + 1)
<1>1. n \in Nat /\ Len(row.mask) = n
  BY DEF IsRow
<1>2. ASSUME NEW t \in 1 .. n + 1
      PROVE  IsFiniteSet(GeneratedFrom(row, t)) /\ GeneratedFrom(row, t) \subseteq t .. n
  <2>1. GeneratedFrom(row, t) \subseteq t .. n /\ t .. n \subseteq 1 .. n
    BY <1>1 DEF GeneratedFrom
  <2>2. IsFiniteSet(1 .. n)
    BY <1>1, FirstNumbers
  <2> QED BY <2>1, <2>2, FS_Subset
<1>3. ASSUME NEW t \in 1 .. n
      PROVE  /\ t \notin GeneratedFrom(row, t + 1)
             /\ row.mask[t] => GeneratedFrom(row, t) = GeneratedFrom(row, t + 1) \cup {t}
             /\ ~ row.mask[t] => GeneratedFrom(row, t) = GeneratedFrom(row, t + 1)
  <2>1. t .. n = (t + 1 .. n) \cup {t} /\ t \notin t + 1 .. n
    BY <1>1
  <2>2. /\ GeneratedFrom(row, t) = {u \in t .. n : row.mask[u]}
        /\ GeneratedFrom(row, t + 1) = {u \in t + 1 .. n : row.mask[u]}
    BY <1>1 DEF GeneratedFrom
  <2> QED BY <2>1, <2>2
<1>4. GeneratedFrom(row, n + 1) = {}
  BY <1>1 DEF GeneratedFrom
<1> QED BY <1>2, <1>3, <1>4

(* What compute_gae_advantage_return keeps from token to token.            *)
GaeStates == [next : Int, adv : Int]
GaeRun(c, row, n, lam) ==
  /\ c \in [0 .. n -> GaeStates]
  /\ c[0] = [next |-> 0, adv |-> 0]
  /\ \A k \in 1 .. n : c[k] = Estimate!GaeStep(row, 1, lam, c[k - 1], n - k + 1)

GaeStepped(g, row, lam, s, t) ==
  /\ g \in GaeStates
  /\ row.mask[t] => /\ g.next = row.values[t]
                    /\ g.adv = row.rewards[t] + s.next - row.values[t] + lam * s.adv
  /\ ~ row.mask[t] => g = s

LEMMA GaeStepType ==
  ASSUME NEW row, NEW n, IsRow(row, n), NEW lam \in Int, NEW s \in GaeStates, NEW t \in 1 .. n
  PROVE  GaeStepped(Estimate!GaeStep(row, 1, lam, s, t), row, lam, s, t)
<1>1. row.rewards[t] \in Int /\ row.values[t] \in Int /\ s.next \in Int /\ s.adv \in Int
  BY DEF IsRow, GaeStates
<1>2. lam * s.adv \in Int /\ 1 * lam * s.adv = lam * s.adv /\ 1 * s.next = s.next
  BY <1>1
<1>3. CASE row.mask[t]
  <2>1. Estimate!GaeStep(row, 1, lam, s, t)
          = [next |-> row.values[t],
             adv |-> row.rewards[t] + s.next - row.values[t] + lam * s.adv]
    BY <1>2, <1>3 DEF Estimate!GaeStep
  <2> QED BY <1>1, <1>2, <1>3, <2>1 DEF GaeStates, GaeStepped
<1>4. CASE ~ row.mask[t]
  BY <1>4 DEF Estimate!GaeStep, GaeStepped
<1> QED BY <1>3, <1>4

LEMMA GaeRuns ==
  ASSUME NEW row, NEW n, IsRow(row, n), NEW lam \in Int
  PROVE  \E c : /\ GaeRun(c, row, n, lam)
                /\ \A t \in 1 .. n : Estimate!GaeAdvantages(row, 1, lam)[t] = c[n - t + 1].adv
<1> DEFINE T == GaeStates
           start == [next |-> 0, adv |-> 0]
           G(s, t) == Estimate!GaeStep(row, 1, lam, s, t)
           step(h) == [k \in 0 .. n |-> IF k = 0 THEN start ELSE G(h[k - 1], n - k + 1)]
           c == CHOOSE h : h = step(h)
           F == [k \in 1 .. n |-> [s \in T |-> G(s, n - k + 1)]]
<1>1. n \in Nat /\ Len(row.rewards) = n
  BY DEF IsRow
<1>2. \A k \in 1 .. n : n - k + 1 \in 1 .. n /\ k - 1 \in 0 .. n
  BY <1>1
<1>3. \A s \in T, t \in 1 .. n : G(s, t) \in T
  BY GaeStepType DEF GaeStepped
<1>4. \A t \in 1 .. n : Estimate!GaeAdvantages(row, 1, lam)[t] = c[n - t + 1].adv
  BY <1>1 DEF Estimate!GaeAdvantages, Estimate!Backwards
<1> HIDE DEF G, T
<1>5. Steps(T, n, F)
  BY <1>1, <1>2, <1>3 DEF Steps
<1>6. start \in T
  BY DEF T, GaeStates
<1> HIDE DEF start
<1>7. PICK g : Follows(g, start, T, n, F)
  BY <1>5, <1>6, Recursion
<1>8. /\ g \in [0 .. n -> T] /\ g[0] = start
      /\ \A k \in 1 .. n : g[k] = G(g[k - 1], n - k + 1)
  <2>1. \A k \in 1 .. n, s \in T : F[k][s] = G(s, n - k + 1)
    BY Zenon
  <2> HIDE DEF F
  <2> QED BY <1>2, <1>7, <2>1 DEF Follows
<1>9. g = step(g)
  BY <1>1, <1>8
<1>10. c = step(c)
  BY <1>9, Zenon
<1> HIDE DEF c
<1>11. /\ c[0] = start /\ DOMAIN c = 0 .. n /\ c = [k \in 0 .. n |-> c[k]]
       /\ \A k \in 1 .. n : c[k] = G(c[k - 1], n - k + 1)
  <2>1. DOMAIN c = 0 .. n /\ c = [k \in 0 .. n |-> c[k]] /\ 0 \in 0 .. n
    BY <1>1, <1>10
  <2>2. \A k \in 0 .. n : c[k] = IF k = 0 THEN start ELSE G(c[k - 1], n - k + 1)
    BY <1>10
  <2>3. \A k \in 1 .. n : k \in 0 .. n /\ k # 0
    BY <1>1
  <2> QED BY <2>1, <2>2, <2>3
<1>12. \A k \in 1 .. n : c[k - 1] \in T => c[k] \in T
  BY <1>2, <1>3, <1>11
<1>13. c \in [0 .. n -> T]
  <2>1. c[0] \in T /\ c = [k \in 0 .. n |-> c[k]]
    BY <1>6, <1>11
  <2> QED BY <1>1, <1>12, <2>1, StaysIn
<1>14. GaeRun(c, row, n, lam)
  BY <1>11, <1>13 DEF GaeRun, G, T, start
<1> QED BY <1>4, <1>14

(* Two and two make the sum of the rewards from a token on.                *)
LEMMA GaeSums ==
  ASSUME NEW row, NEW n, IsRow(row, n), NEW c, GaeRun(c, row, n, 1)
  PROVE  \A k \in 0 .. n : c[k].adv + c[k].next = SumTo(row, GeneratedFrom(row, n - k + 1))
<1> DEFINE X(t) == GeneratedFrom(row, t)
           Sum(t) == SumTo(row, X(t))
           I == {k \in 0 .. n : c[k].adv + c[k].next = Sum(n - k + 1)}
<1>1. n \in Nat /\ \A t \in 1 .. n : row.rewards[t] \in Int /\ row.values[t] \in Int
  BY DEF IsRow
<1>2. /\ X(n + 1) = {}
      /\ \A t \in 1 .. n + 1 : IsFiniteSet(X(t)) /\ X(t) \subseteq t .. n
      /\ \A t \in 1 .. n :
           /\ t \notin X(t + 1)
           /\ row.mask[t] => X(t) = X(t + 1) \cup {t}
           /\ ~ row.mask[t] => X(t) = X(t + 1)
  BY GeneratedStep
<1>3. /\ \A k \in 0 .. n : c[k] \in GaeStates
      /\ c[0] = [next |-> 0, adv |-> 0]
      /\ \A k \in 1 .. n : c[k] = Estimate!GaeStep(row, 1, 1, c[k - 1], n - k + 1)
  BY DEF GaeRun
<1> HIDE DEF X
<1>4. 0 \in I
  <2>1. Sum(n + 1) = 0
    BY <1>2, FS_EmptySet, SumTake DEF SumTo
  <2>2. n - 0 + 1 = n + 1 /\ 0 \in 0 .. n
    BY <1>1
  <2> QED BY <1>3, <2>1, <2>2
<1>5. ASSUME NEW k \in 0 .. n - 1, k \in I PROVE k + 1 \in I
  <2> DEFINE t == n - k
             s == c[k]
  <2>1. /\ t \in 1 .. n /\ t + 1 \in 1 .. n + 1 /\ n - (k + 1) + 1 = t /\ n - k + 1 = t + 1
        /\ k + 1 \in 1 .. n /\ (k + 1) - 1 = k /\ k + 1 \in 0 .. n /\ k \in 0 .. n
    BY <1>1
  <2>2. c[k + 1] = Estimate!GaeStep(row, 1, 1, s, t) /\ s \in GaeStates
    BY <1>3, <2>1
  <2>3. s.adv + s.next = Sum(t + 1)
    BY <1>5, <2>1
  <2>4. s.adv \in Int /\ s.next \in Int
    BY <2>2 DEF GaeStates
  <2> HIDE DEF s, t
  <2>5. /\ row.mask[t] => c[k + 1].next = row.values[t]
                          /\ c[k + 1].adv = row.rewards[t] + s.next - row.values[t] + 1 * s.adv
        /\ ~ row.mask[t] => c[k + 1] = s
    <3>1. GaeStepped(c[k + 1], row, 1, s, t)
      BY <2>1, <2>2, GaeStepType
    <3> QED BY <3>1 DEF GaeStepped
  <2>6. row.rewards[t] \in Int /\ row.values[t] \in Int
    BY <1>1, <2>1
  <2>7. c[k + 1].adv + c[k + 1].next = Sum(t)
    <3>1. CASE row.mask[t]
      <4>1. Sum(t) = row.rewards[t] + Sum(t + 1)
        <5>1. /\ IsFiniteSet(X(t + 1)) /\ t \notin X(t + 1) /\ X(t) = X(t + 1) \cup {t}
              /\ X(t) \subseteq 1 .. n
          BY <1>1, <1>2, <2>1, <3>1
        <5>2. \A y \in X(t + 1) \cup {t} : row.rewards[y] \in Int
          BY <1>1, <5>1
        <5> QED BY <5>1, <5>2, SumMore DEF SumTo
      <4> HIDE DEF Sum
      <4> QED BY <2>3, <2>4, <2>5, <2>6, <3>1, <4>1
    <3>2. CASE ~ row.mask[t]
      <4>1. X(t) = X(t + 1)
        BY <1>2, <2>1, <3>2
      <4> QED BY <2>3, <2>5, <3>2, <4>1
    <3> QED BY <3>1, <3>2
  <2> QED BY <2>1, <2>7 DEF t
<1>6. ASSUME NEW m \in 0 .. n PROVE m \in I
  <2> HIDE DEF I
  <2> QED BY <1>1, <1>4, <1>5, Induction
<1> QED BY <1>6 DEF X

(* The value kept is that of the token generated next.                     *)
LEMMA GaeNext ==
  ASSUME NEW row, NEW n, IsRow(row, n), NEW lam \in Int, NEW c, GaeRun(c, row, n, lam)
  PROVE  \A k \in 0 .. n : c[k].next = NextValue(row, n - k)
<1> DEFINE X(t) == GeneratedFrom(row, t)
           I == {k \in 0 .. n : c[k].next = NextValue(row, n - k)}
<1>1. n \in Nat /\ \A t \in 1 .. n : row.rewards[t] \in Int /\ row.values[t] \in Int
  BY DEF IsRow
<1>2. /\ X(n + 1) = {}
      /\ \A t \in 1 .. n + 1 : IsFiniteSet(X(t)) /\ X(t) \subseteq t .. n
      /\ \A t \in 1 .. n :
           /\ t \notin X(t + 1)
           /\ row.mask[t] => X(t) = X(t + 1) \cup {t}
           /\ ~ row.mask[t] => X(t) = X(t + 1)
  BY GeneratedStep
<1>3. /\ \A k \in 0 .. n : c[k] \in GaeStates
      /\ c[0] = [next |-> 0, adv |-> 0]
      /\ \A k \in 1 .. n : c[k] = Estimate!GaeStep(row, 1, lam, c[k - 1], n - k + 1)
  BY DEF GaeRun
<1>4. \A t \in 0 .. n : NextValue(row, t) = IF X(t + 1) = {} THEN 0 ELSE row.values[Min(X(t + 1))]
  BY DEF NextValue
<1> HIDE DEF X
<1>5. 0 \in I
  <2>1. n - 0 = n /\ 0 \in 0 .. n /\ n \in 0 .. n
    BY <1>1
  <2> QED BY <1>2, <1>3, <1>4, <2>1
<1>6. ASSUME NEW k \in 0 .. n - 1, k \in I PROVE k + 1 \in I
  <2> DEFINE t == n - k
             s == c[k]
  <2>1. /\ t \in 1 .. n /\ t \in 0 .. n /\ t - 1 \in 0 .. n /\ (t - 1) + 1 = t
        /\ n - (k + 1) + 1 = t /\ n - (k + 1) = t - 1
        /\ k + 1 \in 1 .. n /\ (k + 1) - 1 = k /\ k + 1 \in 0 .. n /\ k \in 0 .. n
        /\ t + 1 \in 1 .. n + 1
    BY <1>1
  <2>2. c[k + 1] = Estimate!GaeStep(row, 1, lam, s, t) /\ s \in GaeStates
    BY <1>3, <2>1
  <2>3. s.next = NextValue(row, t)
    BY <1>6
  <2> HIDE DEF s, t
  <2>4. /\ row.mask[t] => c[k + 1].next = row.values[t]
        /\ ~ row.mask[t] => c[k + 1] = s
    <3>1. GaeStepped(c[k + 1], row, lam, s, t)
      BY <2>1, <2>2, GaeStepType
    <3> QED BY <3>1 DEF GaeStepped
  <2>5. c[k + 1].next = NextValue(row, t - 1)
    <3>0. NextValue(row, t - 1) = IF X(t) = {} THEN 0 ELSE row.values[Min(X(t))]
      BY <1>4, <2>1
    <3>1. CASE row.mask[t]
      <4>1. X(t) = X(t + 1) \cup {t} /\ X(t + 1) \subseteq t + 1 .. n
        BY <1>2, <2>1, <3>1
      <4>2. t \in X(t) /\ \A y \in X(t) : t <= y
        BY <1>1, <2>1, <4>1
      <4>3. \A x \in X(t) : (\A y \in X(t) : x <= y) => x = t
        BY <1>1, <2>1, <4>1, <4>2
      <4>4. Min(X(t)) = t
        BY <4>2, <4>3 DEF Min
      <4> QED BY <2>4, <3>0, <3>1, <4>2, <4>4
    <3>2. CASE ~ row.mask[t]
      <4>1. X(t) = X(t + 1)
        BY <1>2, <2>1, <3>2
      <4>2. NextValue(row, t) = IF X(t + 1) = {} THEN 0 ELSE row.values[Min(X(t + 1))]
        BY <1>4, <2>1
      <4> QED BY <2>3, <2>4, <3>0, <3>2, <4>1, <4>2
    <3> QED BY <3>1, <3>2
  <2> QED BY <2>1, <2>5 DEF t
<1>7. ASSUME NEW m \in 0 .. n PROVE m \in I
  <2> HIDE DEF I
  <2> QED BY <1>1, <1>5, <1>6, Induction
<1> QED BY <1>7

(* compute_gae_advantage_return on responses with observations.            *)
LEMMA GaeCounts ==
  ASSUME NEW row, NEW n, IsRow(row, n), NEW t \in GeneratedFrom(row, 1)
  PROVE  /\ Estimate!GaeAdvantages(row, 1, 1)[t] + row.values[t]
              = SumTo(row, GeneratedFrom(row, t))
         /\ Estimate!GaeAdvantages(row, 1, 0)[t]
              = row.rewards[t] + NextValue(row, t) - row.values[t]
<1>1. n \in Nat /\ t \in 1 .. n /\ row.mask[t]
  BY DEF IsRow, GeneratedFrom
<1> DEFINE k == n - t + 1
<1>2. /\ k \in 1 .. n /\ k \in 0 .. n /\ k - 1 \in 0 .. n /\ n - k + 1 = t /\ n - (k - 1) = t
  BY <1>1
<1> HIDE DEF k
<1>3. row.rewards[t] \in Int /\ row.values[t] \in Int
  BY <1>1 DEF IsRow
<1>4. 1 \in Int /\ 0 \in Int
  OBVIOUS
<1>5. Estimate!GaeAdvantages(row, 1, 1)[t] + row.values[t] = SumTo(row, GeneratedFrom(row, t))
  <2>1. PICK c : /\ GaeRun(c, row, n, 1)
                 /\ \A u \in 1 .. n : Estimate!GaeAdvantages(row, 1, 1)[u] = c[n - u + 1].adv
    BY <1>4, GaeRuns
  <2>2. c[k].adv + c[k].next = SumTo(row, GeneratedFrom(row, t))
    BY <1>2, <2>1, GaeSums
  <2>3. c[k - 1] \in GaeStates /\ c[k] = Estimate!GaeStep(row, 1, 1, c[k - 1], t)
    BY <1>2, <2>1 DEF GaeRun
  <2>4. c[k].next = row.values[t]
    <3>1. GaeStepped(c[k], row, 1, c[k - 1], t)
      BY <1>1, <1>4, <2>3, GaeStepType
    <3> QED BY <1>1, <3>1 DEF GaeStepped
  <2> QED BY <1>1, <2>1, <2>2, <2>4 DEF k
<1>6. Estimate!GaeAdvantages(row, 1, 0)[t] = row.rewards[t] + NextValue(row, t) - row.values[t]
  <2>1. PICK c : /\ GaeRun(c, row, n, 0)
                 /\ \A u \in 1 .. n : Estimate!GaeAdvantages(row, 1, 0)[u] = c[n - u + 1].adv
    BY <1>4, GaeRuns
  <2>2. c[k - 1].next = NextValue(row, t)
    BY <1>2, <1>4, <2>1, GaeNext
  <2>3. c[k - 1] \in GaeStates /\ c[k] = Estimate!GaeStep(row, 1, 0, c[k - 1], t)
    BY <1>2, <2>1 DEF GaeRun
  <2>4. c[k].adv = row.rewards[t] + c[k - 1].next - row.values[t] + 0 * c[k - 1].adv
    <3>1. GaeStepped(c[k], row, 0, c[k - 1], t)
      BY <1>1, <1>4, <2>3, GaeStepType
    <3> QED BY <1>1, <3>1 DEF GaeStepped
  <2>5. c[k - 1].next \in Int /\ c[k - 1].adv \in Int
    BY <2>3 DEF GaeStates
  <2>6. c[k].adv = row.rewards[t] + c[k - 1].next - row.values[t]
    BY <1>3, <2>4, <2>5
  <2> QED BY <1>1, <2>1, <2>2, <2>6 DEF k
<1> QED BY <1>5, <1>6

(* The running return and what is carried on, from the last token.         *)
ReturnStates == [return : Int, carried : Int]
ReturnStep(row, s, t) ==
  LET run == row.rewards[t] + 1 * s.carried
  IN  [return |-> run, carried |-> run * Estimate!RowMask(row, t)]
ReturnRun(c, row, n) ==
  /\ c \in [0 .. n -> ReturnStates]
  /\ c[0] = [return |-> 0, carried |-> 0]
  /\ \A k \in 1 .. n : c[k] = ReturnStep(row, c[k - 1], n - k + 1)

ReturnStepped(g, row, s, t) ==
  /\ g \in ReturnStates
  /\ g.return = row.rewards[t] + s.carried
  /\ row.mask[t] => g.carried = g.return
  /\ ~ row.mask[t] => g.carried = 0

LEMMA ReturnStepType ==
  ASSUME NEW row, NEW n, IsRow(row, n), NEW s \in ReturnStates, NEW t \in 1 .. n
  PROVE  ReturnStepped(ReturnStep(row, s, t), row, s, t)
<1> DEFINE r == row.rewards[t] + s.carried
<1>1. row.rewards[t] \in Int /\ s.carried \in Int /\ r \in Int
  BY DEF IsRow, ReturnStates
<1>2. ReturnStep(row, s, t) = [return |-> r, carried |-> r * Estimate!RowMask(row, t)]
  BY <1>1 DEF ReturnStep
<1> HIDE DEF r
<1>3. /\ row.mask[t] => r * Estimate!RowMask(row, t) = r
      /\ ~ row.mask[t] => r * Estimate!RowMask(row, t) = 0
  BY <1>1 DEF Estimate!RowMask
<1> QED BY <1>1, <1>2, <1>3 DEF ReturnStepped, ReturnStates, r

LEMMA ReturnRuns ==
  ASSUME NEW row, NEW n, IsRow(row, n)
  PROVE  \E c : /\ ReturnRun(c, row, n)
                /\ \A t \in 1 .. n : Estimate!ReinforceReturns(row, 1)[t] = c[n - t + 1].return
<1> DEFINE T == ReturnStates
           start == [return |-> 0, carried |-> 0]
           G(s, t) == ReturnStep(row, s, t)
           step(h) == [k \in 0 .. n |-> IF k = 0 THEN start ELSE G(h[k - 1], n - k + 1)]
           c == CHOOSE h : h = step(h)
           F == [k \in 1 .. n |-> [s \in T |-> G(s, n - k + 1)]]
<1>1. n \in Nat /\ Len(row.rewards) = n
  BY DEF IsRow
<1>2. \A k \in 1 .. n : n - k + 1 \in 1 .. n /\ k - 1 \in 0 .. n
  BY <1>1
<1>3. \A s \in T, t \in 1 .. n : G(s, t) \in T
  BY ReturnStepType DEF ReturnStepped
<1>4. \A t \in 1 .. n : Estimate!ReinforceReturns(row, 1)[t] = c[n - t + 1].return
  BY <1>1 DEF Estimate!ReinforceReturns, Estimate!Backwards, ReturnStep
<1> HIDE DEF G, T
<1>5. Steps(T, n, F)
  BY <1>1, <1>2, <1>3 DEF Steps
<1>6. start \in T
  BY DEF T, ReturnStates
<1> HIDE DEF start
<1>7. PICK g : Follows(g, start, T, n, F)
  BY <1>5, <1>6, Recursion
<1>8. /\ g \in [0 .. n -> T] /\ g[0] = start
      /\ \A k \in 1 .. n : g[k] = G(g[k - 1], n - k + 1)
  <2>1. \A k \in 1 .. n, s \in T : F[k][s] = G(s, n - k + 1)
    BY Zenon
  <2> HIDE DEF F
  <2> QED BY <1>2, <1>7, <2>1 DEF Follows
<1>9. g = step(g)
  BY <1>1, <1>8
<1>10. c = step(c)
  BY <1>9, Zenon
<1> HIDE DEF c
<1>11. /\ c[0] = start /\ c = [k \in 0 .. n |-> c[k]]
       /\ \A k \in 1 .. n : c[k] = G(c[k - 1], n - k + 1)
  <2>1. DOMAIN c = 0 .. n /\ c = [k \in 0 .. n |-> c[k]] /\ 0 \in 0 .. n
    BY <1>1, <1>10
  <2>2. \A k \in 0 .. n : c[k] = IF k = 0 THEN start ELSE G(c[k - 1], n - k + 1)
    BY <1>10
  <2>3. \A k \in 1 .. n : k \in 0 .. n /\ k # 0
    BY <1>1
  <2> QED BY <2>1, <2>2, <2>3
<1>12. \A k \in 1 .. n : c[k - 1] \in T => c[k] \in T
  BY <1>2, <1>3, <1>11
<1>13. c \in [0 .. n -> T]
  <2>1. c[0] \in T /\ c = [k \in 0 .. n |-> c[k]]
    BY <1>6, <1>11
  <2> QED BY <1>1, <1>12, <2>1, StaysIn
<1>14. ReturnRun(c, row, n)
  BY <1>11, <1>13 DEF ReturnRun, G, T, start
<1> QED BY <1>4, <1>14

(* The tokens up to the next observation, counted from the end.            *)
LEMMA SegmentStep ==
  ASSUME NEW row, NEW n, IsRow(row, n), NEW t \in 1 .. n
  PROVE  /\ IsFiniteSet(Segment(row, t)) /\ Segment(row, t) \subseteq t .. n
         /\ t = n => Segment(row, t) = {t}
         /\ t < n /\ row.mask[t + 1] => Segment(row, t) = Segment(row, t + 1) \cup {t}
         /\ t < n /\ ~ row.mask[t + 1] => Segment(row, t) = {t}
<1>1. n \in Nat /\ Len(row.mask) = n
  BY DEF IsRow
<1>2. Segment(row, t) = {u \in t .. n : \A j \in t + 1 .. u : row.mask[j]}
  BY <1>1 DEF Segment
<1>3. IsFiniteSet(Segment(row, t)) /\ Segment(row, t) \subseteq t .. n
  <2>1. Segment(row, t) \subseteq 1 .. n
    BY <1>1, <1>2
  <2>2. IsFiniteSet(1 .. n)
    BY <1>1, FirstNumbers
  <2> QED BY <1>2, <2>1, <2>2, FS_Subset
<1>4. t \in Segment(row, t)
  BY <1>1, <1>2
<1>5. ASSUME t = n PROVE Segment(row, t) = {t}
  BY <1>1, <1>3, <1>4, <1>5
<1>6. ASSUME t < n, ~ row.mask[t + 1] PROVE Segment(row, t) = {t}
  <2>1. \A u \in t .. n : u = t \/ t + 1 \in t + 1 .. u
    BY <1>1, <1>6
  <2> QED BY <1>2, <1>4, <1>6, <2>1
<1>7. ASSUME t < n, row.mask[t + 1] PROVE Segment(row, t) = Segment(row, t + 1) \cup {t}
  <2>1. Segment(row, t + 1) = {u \in t + 1 .. n : \A j \in t + 2 .. u : row.mask[j]}
    <3>1. (t + 1) + 1 = t + 2
      BY <1>1
    <3> QED BY <1>1, <3>1 DEF Segment
  <2>2. ASSUME NEW u \in Segment(row, t), u # t PROVE u \in Segment(row, t + 1)
    <3>1. u \in t + 1 .. n /\ \A j \in t + 2 .. u : j \in t + 1 .. u
      BY <1>1, <1>2, <2>2
    <3> QED BY <1>2, <2>1, <3>1
  <2>3. ASSUME NEW u \in Segment(row, t + 1) PROVE u \in Segment(row, t)
    <3>1. u \in t .. n /\ \A j \in t + 1 .. u : j = t + 1 \/ j \in t + 2 .. u
      BY <1>1, <2>1
    <3> QED BY <1>2, <1>7, <2>1, <3>1
  <2> QED BY <1>4, <2>2, <2>3
<1> QED BY <1>3, <1>5, <1>6, <1>7

(* compute_reinforce_plus_plus_outcome_advantage: the rewards up to the    *)
(* next observation.                                                       *)
LEMMA ReinforceCounts ==
  ASSUME NEW row, NEW n, IsRow(row, n)
  PROVE  \A t \in 1 .. n :
           /\ Estimate!ReinforceReturns(row, 1)[t] = SumTo(row, Segment(row, t))
           /\ Estimate!ReinforceReturns(row, 1)[t] \in Int
<1>1. PICK c : /\ ReturnRun(c, row, n)
               /\ \A t \in 1 .. n : Estimate!ReinforceReturns(row, 1)[t] = c[n - t + 1].return
  BY ReturnRuns
<1>2. n \in Nat /\ \A t \in 1 .. n : row.rewards[t] \in Int
  BY DEF IsRow
<1>3. /\ \A k \in 0 .. n : c[k] \in ReturnStates
      /\ c[0] = [return |-> 0, carried |-> 0]
      /\ \A k \in 1 .. n : c[k] = ReturnStep(row, c[k - 1], n - k + 1)
  BY <1>1 DEF ReturnRun
<1> DEFINE Sum(t) == SumTo(row, Segment(row, t))
           Good(k) == k > 0 => c[k].return = Sum(n - k + 1)
           I == {k \in 0 .. n : Good(k)}
<1>4. ASSUME NEW k \in 1 .. n
      PROVE  ReturnStepped(c[k], row, c[k - 1], n - k + 1)
  <2>1. k - 1 \in 0 .. n /\ n - k + 1 \in 1 .. n
    BY <1>2
  <2>2. c[k - 1] \in ReturnStates /\ c[k] = ReturnStep(row, c[k - 1], n - k + 1)
    BY <1>3, <2>1
  <2> QED BY <2>1, <2>2, ReturnStepType
<1>5. \A t \in 1 .. n : \A S \in SUBSET (1 .. n) : \A y \in S : row.rewards[y] \in Int
  BY <1>2
<1>6. 0 \in I
  BY <1>2
<1>7. ASSUME NEW k \in 0 .. n - 1, k \in I PROVE k + 1 \in I
  <2> DEFINE t == n - k
  <2>1. /\ t \in 1 .. n /\ k + 1 \in 1 .. n /\ (k + 1) - 1 = k /\ n - (k + 1) + 1 = t
        /\ k + 1 \in 0 .. n /\ k \in 0 .. n /\ (k = 0 <=> t = n) /\ (k > 0 <=> t < n)
        /\ n - k + 1 = t + 1 /\ (k > 0 => k \in 1 .. n)
    BY <1>2
  <2> HIDE DEF t
  <2>2. c[k + 1].return = row.rewards[t] + c[k].carried
    <3>1. ReturnStepped(c[k + 1], row, c[k], t)
      BY <1>4, <2>1
    <3> QED BY <3>1 DEF ReturnStepped
  <2>3. row.rewards[t] \in Int
    BY <1>2, <2>1
  <2>4. Sum(t) = row.rewards[t] + c[k].carried
    <3>1. CASE k = 0
      <4>1. Segment(row, t) = {} \cup {t} /\ c[k].carried = 0
        BY <1>3, <2>1, <3>1, SegmentStep
      <4>2. SumFunctionOnSet(row.rewards, {} \cup {t})
              = row.rewards[t] + SumFunctionOnSet(row.rewards, {})
        BY <2>3, FS_EmptySet, SumMore
      <4>3. SumFunctionOnSet(row.rewards, {}) = 0
        BY FS_EmptySet, SumTake
      <4> QED BY <4>1, <4>2, <4>3 DEF SumTo
    <3>2. CASE k > 0
      <4>1. ReturnStepped(c[k], row, c[k - 1], t + 1) /\ c[k].return = Sum(t + 1)
        <5>1. k \in 1 .. n
          BY <2>1, <3>2
        <5>2. Good(k)
          BY <1>7
        <5> QED BY <1>4, <2>1, <3>2, <5>1, <5>2
      <4>2. CASE row.mask[t + 1]
        <5>1. c[k].carried = Sum(t + 1)
          BY <4>1, <4>2 DEF ReturnStepped
        <5>2. /\ Segment(row, t) = Segment(row, t + 1) \cup {t}
              /\ IsFiniteSet(Segment(row, t + 1)) /\ Segment(row, t + 1) \subseteq t + 1 .. n
          <6>1. t < n /\ t + 1 \in 1 .. n
            BY <1>2, <2>1, <3>2
          <6> QED BY <2>1, <4>2, <6>1, SegmentStep
        <5>3. t \notin Segment(row, t + 1)
              /\ \A y \in Segment(row, t + 1) \cup {t} : row.rewards[y] \in Int
          BY <1>2, <2>1, <5>2
        <5>4. SumFunctionOnSet(row.rewards, Segment(row, t + 1) \cup {t})
                = row.rewards[t] + SumFunctionOnSet(row.rewards, Segment(row, t + 1))
          BY <5>2, <5>3, SumMore
        <5> QED BY <5>1, <5>2, <5>4 DEF SumTo
      <4>3. CASE ~ row.mask[t + 1]
        <5>1. c[k].carried = 0
          BY <4>1, <4>3 DEF ReturnStepped
        <5>2. Segment(row, t) = {} \cup {t}
          <6>1. t < n
            BY <2>1, <3>2
          <6> QED BY <2>1, <4>3, <6>1, SegmentStep
        <5>3. SumFunctionOnSet(row.rewards, {} \cup {t})
                = row.rewards[t] + SumFunctionOnSet(row.rewards, {})
          BY <2>3, FS_EmptySet, SumMore
        <5>4. SumFunctionOnSet(row.rewards, {}) = 0
          BY FS_EmptySet, SumTake
        <5> QED BY <5>1, <5>2, <5>3, <5>4 DEF SumTo
      <4> QED BY <4>2, <4>3
    <3> QED BY <2>1, <3>1, <3>2
  <2>5. Good(k + 1)
    BY <2>1, <2>2, <2>4
  <2> HIDE DEF Good
  <2> QED BY <2>1, <2>5
<1>8. ASSUME NEW m \in 0 .. n PROVE m \in I
  <2> HIDE DEF I
  <2> QED BY <1>2, <1>6, <1>7, Induction
<1>9. ASSUME NEW t \in 1 .. n
      PROVE  /\ Estimate!ReinforceReturns(row, 1)[t] = Sum(t)
             /\ Estimate!ReinforceReturns(row, 1)[t] \in Int
  <2> DEFINE k == n - t + 1
  <2>1. k \in 1 .. n /\ k \in 0 .. n /\ k > 0 /\ n - k + 1 = t
    BY <1>2
  <2> HIDE DEF k
  <2>2. Good(k)
    BY <1>8, <2>1
  <2>3. c[k].return = Sum(t) /\ c[k].return \in Int
    BY <1>3, <2>1, <2>2 DEF ReturnStates
  <2> QED BY <1>1, <2>3 DEF k
<1> QED BY <1>9

(* compute_remax_outcome_advantage: the masked rewards from a token on.    *)
RemaxRun(c, row, n) ==
  /\ c \in [0 .. n -> Int]
  /\ c[0] = 0
  /\ \A k \in 1 .. n :
       c[k] = c[k - 1] + row.rewards[n - k + 1] * Estimate!RowMask(row, n - k + 1)

LEMMA RemaxRuns ==
  ASSUME NEW row, NEW n, IsRow(row, n)
  PROVE  \E c : /\ RemaxRun(c, row, n)
                /\ \A t \in 1 .. n : Estimate!RemaxReturns(row)[t] = c[n - t + 1]
<1> DEFINE G(s, t) == s + row.rewards[t] * Estimate!RowMask(row, t)
           step(h) == [k \in 0 .. n |-> IF k = 0 THEN 0 ELSE G(h[k - 1], n - k + 1)]
           c == CHOOSE h : h = step(h)
           F == [k \in 1 .. n |-> [s \in Int |-> G(s, n - k + 1)]]
<1>1. n \in Nat /\ Len(row.rewards) = n
  BY DEF IsRow
<1>2. \A k \in 1 .. n : n - k + 1 \in 1 .. n /\ k - 1 \in 0 .. n
  BY <1>1
<1>3. ASSUME NEW s \in Int, NEW t \in 1 .. n PROVE G(s, t) \in Int
  <2>1. row.rewards[t] \in Int /\ Estimate!RowMask(row, t) \in Int
    BY DEF IsRow, Estimate!RowMask
  <2> QED BY <2>1
<1>4. \A t \in 1 .. n : Estimate!RemaxReturns(row)[t] = c[n - t + 1]
  BY <1>1 DEF Estimate!RemaxReturns, Estimate!Backwards
<1> HIDE DEF G
<1>5. Steps(Int, n, F) /\ 0 \in Int
  BY <1>1, <1>2, <1>3 DEF Steps
<1>7. PICK g : Follows(g, 0, Int, n, F)
  BY <1>5, Recursion
<1>8. /\ g \in [0 .. n -> Int] /\ g[0] = 0
      /\ \A k \in 1 .. n : g[k] = G(g[k - 1], n - k + 1)
  <2>1. \A k \in 1 .. n, s \in Int : F[k][s] = G(s, n - k + 1)
    BY Zenon
  <2> HIDE DEF F
  <2> QED BY <1>2, <1>7, <2>1 DEF Follows
<1>9. g = step(g)
  BY <1>1, <1>8
<1>10. c = step(c)
  BY <1>9, Zenon
<1> HIDE DEF c
<1>11. /\ c[0] = 0 /\ c = [k \in 0 .. n |-> c[k]]
       /\ \A k \in 1 .. n : c[k] = G(c[k - 1], n - k + 1)
  <2>1. DOMAIN c = 0 .. n /\ c = [k \in 0 .. n |-> c[k]] /\ 0 \in 0 .. n
    BY <1>1, <1>10
  <2>2. \A k \in 0 .. n : c[k] = IF k = 0 THEN 0 ELSE G(c[k - 1], n - k + 1)
    BY <1>10
  <2>3. \A k \in 1 .. n : k \in 0 .. n /\ k # 0
    BY <1>1
  <2> QED BY <2>1, <2>2, <2>3
<1>12. \A k \in 1 .. n : c[k - 1] \in Int => c[k] \in Int
  BY <1>2, <1>3, <1>11
<1>13. c \in [0 .. n -> Int]
  <2>1. c[0] \in Int /\ c = [k \in 0 .. n |-> c[k]]
    BY <1>5, <1>11
  <2> QED BY <1>1, <1>12, <2>1, StaysIn
<1>14. RemaxRun(c, row, n)
  BY <1>11, <1>13 DEF RemaxRun, G
<1> QED BY <1>4, <1>14

LEMMA RemaxCounts ==
  ASSUME NEW row, NEW n, IsRow(row, n)
  PROVE  \A t \in 1 .. n : Estimate!RemaxReturns(row)[t] = SumTo(row, GeneratedFrom(row, t))
<1>1. PICK c : /\ RemaxRun(c, row, n)
               /\ \A t \in 1 .. n : Estimate!RemaxReturns(row)[t] = c[n - t + 1]
  BY RemaxRuns
<1> DEFINE X(t) == GeneratedFrom(row, t)
           Sum(t) == SumTo(row, X(t))
           I == {k \in 0 .. n : c[k] = Sum(n - k + 1)}
<1>2. n \in Nat /\ \A t \in 1 .. n : row.rewards[t] \in Int
  BY DEF IsRow
<1>3. /\ X(n + 1) = {}
      /\ \A t \in 1 .. n + 1 : IsFiniteSet(X(t)) /\ X(t) \subseteq t .. n
      /\ \A t \in 1 .. n :
           /\ t \notin X(t + 1)
           /\ row.mask[t] => X(t) = X(t + 1) \cup {t}
           /\ ~ row.mask[t] => X(t) = X(t + 1)
  BY GeneratedStep
<1>4. /\ \A k \in 0 .. n : c[k] \in Int
      /\ c[0] = 0
      /\ \A k \in 1 .. n :
           c[k] = c[k - 1] + row.rewards[n - k + 1] * Estimate!RowMask(row, n - k + 1)
  BY <1>1 DEF RemaxRun
<1> HIDE DEF X
<1>5. 0 \in I
  <2>1. Sum(n + 1) = 0
    BY <1>3, FS_EmptySet, SumTake DEF SumTo
  <2>2. n - 0 + 1 = n + 1 /\ 0 \in 0 .. n
    BY <1>2
  <2> QED BY <1>4, <2>1, <2>2
<1>6. ASSUME NEW k \in 0 .. n - 1, k \in I PROVE k + 1 \in I
  <2> DEFINE t == n - k
  <2>1. /\ t \in 1 .. n /\ t + 1 \in 1 .. n + 1 /\ n - (k + 1) + 1 = t /\ n - k + 1 = t + 1
        /\ k + 1 \in 1 .. n /\ (k + 1) - 1 = k /\ k + 1 \in 0 .. n /\ k \in 0 .. n
    BY <1>2
  <2> HIDE DEF t
  <2>2. c[k + 1] = c[k] + row.rewards[t] * Estimate!RowMask(row, t) /\ c[k] \in Int
    BY <1>4, <2>1
  <2>3. c[k] = Sum(t + 1)
    BY <1>6, <2>1
  <2>4. row.rewards[t] \in Int
    BY <1>2, <2>1
  <2>5. c[k + 1] = Sum(t)
    <3>1. CASE row.mask[t]
      <4>1. Sum(t) = row.rewards[t] + Sum(t + 1)
        <5>1. /\ IsFiniteSet(X(t + 1)) /\ t \notin X(t + 1) /\ X(t) = X(t + 1) \cup {t}
              /\ X(t) \subseteq 1 .. n
          BY <1>2, <1>3, <2>1, <3>1
        <5>2. \A y \in X(t + 1) \cup {t} : row.rewards[y] \in Int
          BY <1>2, <5>1
        <5> QED BY <5>1, <5>2, SumMore DEF SumTo
      <4>2. row.rewards[t] * Estimate!RowMask(row, t) = row.rewards[t]
        BY <2>4, <3>1 DEF Estimate!RowMask
      <4> HIDE DEF Sum
      <4> QED BY <2>2, <2>3, <2>4, <4>1, <4>2
    <3>2. CASE ~ row.mask[t]
      <4>1. X(t) = X(t + 1)
        BY <1>3, <2>1, <3>2
      <4>2. row.rewards[t] * Estimate!RowMask(row, t) = 0
        BY <2>4, <3>2 DEF Estimate!RowMask
      <4> QED BY <2>2, <2>3, <4>1, <4>2
    <3> QED BY <3>1, <3>2
  <2> QED BY <2>1, <2>5 DEF t
<1>7. ASSUME NEW m \in 0 .. n PROVE m \in I
  <2> HIDE DEF I
  <2> QED BY <1>2, <1>5, <1>6, Induction
<1>8. ASSUME NEW t \in 1 .. n PROVE Estimate!RemaxReturns(row)[t] = Sum(t)
  <2> DEFINE k == n - t + 1
  <2>1. k \in 0 .. n /\ n - k + 1 = t
    BY <1>2
  <2> HIDE DEF k
  <2>2. c[k] = Sum(t)
    BY <1>7, <2>1
  <2> QED BY <1>1, <2>2 DEF k
<1> QED BY <1>8 DEF X

-----------------------------------------------------------------------------
(* The tokens that are kept.                                               *)

(* Of finitely many members one has a least, and one a greatest, value.    *)
LEMMA LeastAndGreatest ==
  ASSUME NEW V, IsFiniteSet(V), V # {}, NEW a, \A x \in V : a[x] \in Int
  PROVE  /\ \E x \in V : \A y \in V : a[x] <= a[y]
         /\ \E x \in V : \A y \in V : a[y] <= a[x]
<1> DEFINE Less == {z \in V \X V : a[z[1]] < a[z[2]]}
           More == {z \in V \X V : a[z[1]] > a[z[2]]}
<1>1. \A x, y \in V : /\ << x, y >> \in Less <=> a[x] < a[y]
                      /\ << x, y >> \in More <=> a[x] > a[y]
  OBVIOUS
<1> HIDE DEF Less, More
<1>2. StrictlyOrders(Less, V)
  <2>1. \A x \in V : << x, x >> \notin Less
    BY <1>1
  <2>2. ASSUME NEW x \in V, NEW y \in V, NEW z \in V, << x, y >> \in Less, << y, z >> \in Less
        PROVE  << x, z >> \in Less
    BY <1>1, <2>2
  <2> QED BY <2>1, <2>2 DEF StrictlyOrders
<1>3. StrictlyOrders(More, V)
  <2>1. \A x \in V : << x, x >> \notin More
    BY <1>1
  <2>2. ASSUME NEW x \in V, NEW y \in V, NEW z \in V, << x, y >> \in More, << y, z >> \in More
        PROVE  << x, z >> \in More
    BY <1>1, <2>2
  <2> QED BY <2>1, <2>2 DEF StrictlyOrders
<1>4. PICK x \in V : \A y \in V : << y, x >> \notin Less
  BY <1>2, FirstMember
<1>5. PICK z \in V : \A y \in V : << y, z >> \notin More
  BY <1>3, FirstMember
<1>6. ASSUME NEW y \in V PROVE a[x] <= a[y]
  <2>1. ~ (a[y] < a[x]) /\ a[x] \in Int /\ a[y] \in Int
    BY <1>1, <1>4
  <2> QED BY <2>1
<1>7. ASSUME NEW y \in V PROVE a[y] <= a[z]
  <2>1. ~ (a[y] > a[z]) /\ a[z] \in Int /\ a[y] \in Int
    BY <1>1, <1>5
  <2> QED BY <2>1
<1> QED BY <1>6, <1>7

(* torch.kthvalue has a value to return: the kth smallest.                 *)
Below(V, a, v) == {x \in V : a[x] < v}
UpTo(V, a, v) == {x \in V : a[x] <= v}
IsKth(V, a, kth, v) ==
  /\ v \in {a[x] : x \in V}
  /\ Cardinality(Below(V, a, v)) < kth /\ Cardinality(UpTo(V, a, v)) >= kth
LEMMA KthExists ==
  ASSUME NEW V, IsFiniteSet(V), V # {}, NEW a, \A x \in V : a[x] \in Int,
         NEW kth \in 1 .. Cardinality(V)
  PROVE  \E v : IsKth(V, a, kth, v)
<1> DEFINE C == {x \in V : Cardinality(UpTo(V, a, a[x])) >= kth}
<1>1. Cardinality(V) \in Nat /\ kth \in Nat /\ kth >= 1 /\ kth <= Cardinality(V)
  BY FS_CardinalityType
<1>2. IsFiniteSet(C) /\ C \subseteq V
  <2>1. C \in SUBSET V
    OBVIOUS
  <2> HIDE DEF C
  <2> QED BY <2>1, FS_Subset
<1>3. C # {}
  <2>1. PICK z \in V : \A y \in V : a[y] <= a[z]
    BY LeastAndGreatest
  <2>2. UpTo(V, a, a[z]) = V
    BY <2>1 DEF UpTo
  <2>3. z \in C
    BY <1>1, <2>2
  <2> QED BY <2>3
<1>4. PICK x \in C : \A y \in C : a[x] <= a[y]
  <2>1. \A y \in C : a[y] \in Int
    BY <1>2
  <2> HIDE DEF C
  <2> QED BY <1>2, <1>3, <2>1, LeastAndGreatest
<1>5. x \in V /\ a[x] \in Int /\ Cardinality(UpTo(V, a, a[x])) >= kth
  BY <1>4
<1> DEFINE B == Below(V, a, a[x])
<1>6. IsFiniteSet(B) /\ B \subseteq V /\ Cardinality(B) \in Nat
  <2>1. B \in SUBSET V
    BY DEF Below
  <2> HIDE DEF B
  <2> QED BY <2>1, FS_Subset, FS_CardinalityType
<1>7. Cardinality(B) < kth
  <2>1. CASE B = {}
    BY <1>1, <2>1, FS_EmptySet
  <2>2. CASE B # {}
    <3>1. PICK u \in B : \A y \in B : a[y] <= a[u]
      <4>1. \A y \in B : a[y] \in Int
        BY <1>6
      <4> HIDE DEF B
      <4> QED BY <1>6, <2>2, <4>1, LeastAndGreatest
    <3>2. u \in V /\ a[u] \in Int /\ a[u] < a[x]
      BY <1>5, <1>6 DEF Below
    <3>3. UpTo(V, a, a[u]) = B
      BY <1>5, <3>1, <3>2 DEF UpTo, Below
    <3>4. u \notin C
      BY <1>4, <1>5, <3>2
    <3> QED BY <1>1, <1>6, <3>2, <3>3, <3>4
  <2> QED BY <2>1, <2>2
<1> QED BY <1>5, <1>7 DEF IsKth

(* The members that reach the kth value from above: at least as many as    *)
(* were to be kept, and fewer of them are better than the worst kept.      *)
KeepsBest(V, a, kept, keep) ==
  /\ kept \subseteq V
  /\ Cardinality(kept) \in Nat /\ Cardinality(kept) >= keep
  /\ \A x \in kept, y \in V \ kept : a[x] > a[y]
  /\ Cardinality({x \in kept : \E y \in kept : a[y] < a[x]}) \in Nat
  /\ Cardinality({x \in kept : \E y \in kept : a[y] < a[x]}) < keep
LEMMA AllKept ==
  ASSUME NEW V, IsFiniteSet(V), V # {}, NEW a, \A x \in V : a[x] \in Int
  PROVE  KeepsBest(V, a, V, Cardinality(V))
<1> DEFINE best == {x \in V : \E y \in V : a[y] < a[x]}
<1>1. PICK m \in V : \A y \in V : a[m] <= a[y]
  BY LeastAndGreatest
<1>2. best \in SUBSET (V \ {m})
  BY <1>1
<1>3. /\ IsFiniteSet(V \ {m}) /\ Cardinality(V \ {m}) = Cardinality(V) - 1
      /\ Cardinality(V) \in Nat
  BY <1>1, FS_RemoveElement, FS_CardinalityType
<1> HIDE DEF best
<1>4. Cardinality(best) \in Nat /\ Cardinality(best) <= Cardinality(V) - 1
  BY <1>2, <1>3, FS_Subset, FS_CardinalityType
<1>5. Cardinality(best) < Cardinality(V)
  BY <1>3, <1>4
<1> QED BY <1>3, <1>4, <1>5 DEF KeepsBest, best
LEMMA KthKeeps ==
  ASSUME NEW V, IsFiniteSet(V), V # {}, NEW a, \A x \in V : a[x] \in Int,
         NEW keep \in 1 .. Cardinality(V), NEW v, IsKth(V, a, Cardinality(V) - keep + 1, v)
  PROVE  KeepsBest(V, a, {x \in V : a[x] >= v}, keep)
<1> DEFINE n == Cardinality(V)
           kept == {x \in V : a[x] >= v}
           best == {x \in kept : \E y \in kept : a[y] < a[x]}
           b == Cardinality(Below(V, a, v))
           u == Cardinality(UpTo(V, a, v))
<1>1. n \in Nat /\ keep \in Nat /\ v \in Int
  BY FS_CardinalityType DEF IsKth
<1>2. Below(V, a, v) \in SUBSET V /\ UpTo(V, a, v) \in SUBSET V
  BY DEF Below, UpTo
<1>3. /\ IsFiniteSet(Below(V, a, v)) /\ IsFiniteSet(UpTo(V, a, v)) /\ b \in Nat /\ u \in Nat
  BY <1>2, FS_Subset, FS_CardinalityType
<1>4. kept = V \ Below(V, a, v)
  BY <1>1 DEF Below
<1>5. best \in SUBSET (V \ UpTo(V, a, v))
  <2>1. ASSUME NEW x \in best PROVE x \in V \ UpTo(V, a, v)
    <3>1. PICK y \in kept : a[y] < a[x]
      OBVIOUS
    <3>2. x \in V /\ a[x] \in Int /\ a[y] \in Int /\ a[y] >= v
      OBVIOUS
    <3>3. ~ (a[x] <= v)
      BY <1>1, <3>1, <3>2
    <3> QED BY <3>2, <3>3 DEF UpTo
  <2> HIDE DEF best
  <2> QED BY <2>1
<1>6. \A x \in kept, y \in V \ kept : a[x] > a[y]
  BY <1>1
<1>7. /\ IsFiniteSet(V \ Below(V, a, v)) /\ IsFiniteSet(V \ UpTo(V, a, v))
      /\ Cardinality(V \ Below(V, a, v)) = n - Cardinality(V \cap Below(V, a, v))
      /\ Cardinality(V \ UpTo(V, a, v)) = n - Cardinality(V \cap UpTo(V, a, v))
  BY <1>3, FS_Difference
<1>8. V \cap Below(V, a, v) = Below(V, a, v) /\ V \cap UpTo(V, a, v) = UpTo(V, a, v)
  BY <1>2
<1>9. /\ Cardinality(kept) \in Nat /\ Cardinality(kept) = n - b
      /\ Cardinality(best) \in Nat /\ Cardinality(best) <= n - u
  <2> HIDE DEF kept, best
  <2>1. Cardinality(kept) = n - b /\ Cardinality(kept) \in Nat
    BY <1>4, <1>7, <1>8, FS_CardinalityType
  <2>2. /\ IsFiniteSet(best) /\ Cardinality(best) <= Cardinality(V \ UpTo(V, a, v))
        /\ Cardinality(best) \in Nat
    BY <1>5, <1>7, FS_Subset, FS_CardinalityType
  <2> QED BY <1>7, <1>8, <2>1, <2>2
<1>10. b < n - keep + 1 /\ u >= n - keep + 1
  BY DEF IsKth
<1> DEFINE ck == Cardinality(kept)
           cb == Cardinality(best)
<1>11. ck >= keep /\ cb < keep
  <2>1. ck \in Nat /\ ck = n - b /\ cb \in Nat /\ cb <= n - u
    BY <1>9
  <2> HIDE DEF ck, cb, n, b, u
  <2> QED BY <1>1, <1>3, <1>10, <2>1
<1>12. kept \subseteq V
  OBVIOUS
<1>13. KeepsBest(V, a, kept, keep)
  <2> HIDE DEF kept
  <2> QED BY <1>6, <1>9, <1>11, <1>12 DEF KeepsBest
<1> QED BY <1>13

(* The estimators' own instances of the operators on sets.                 *)
LEMMA SameOperatorsOfEstimates ==
  /\ \A f, S : Estimate!SumFunctionOnSet(f, S) = SumFunctionOnSet(f, S)
  /\ \A f : Estimate!SumFunction(f) = SumFunctionOnSet(f, DOMAIN f)
  /\ \A S : Estimate!Cardinality(S) = Cardinality(S)
  /\ \A S : Estimate!Max(S) = Max(S)
  /\ \A S : Estimate!Min(S) = Min(S)
<1>1. ASSUME NEW f, NEW S PROVE Estimate!SumFunctionOnSet(f, S) = SumFunctionOnSet(f, S)
  BY Zenon DEF Estimate!SumFunctionOnSet, SumFunctionOnSet, Estimate!FoldFunctionOnSet,
               FoldFunctionOnSet, Estimate!MapThenFoldSet, MapThenFoldSet
<1>2. ASSUME NEW f PROVE Estimate!SumFunction(f) = SumFunctionOnSet(f, DOMAIN f)
  BY <1>1, Zenon DEF Estimate!SumFunction
<1>3. ASSUME NEW S PROVE Estimate!Cardinality(S) = Cardinality(S)
  BY Zenon DEF Estimate!Cardinality, Cardinality
<1>4. ASSUME NEW S PROVE Estimate!Max(S) = Max(S)
  BY Zenon DEF Estimate!Max, Max
<1>5. ASSUME NEW S PROVE Estimate!Min(S) = Min(S)
  BY Zenon DEF Estimate!Min, Min
<1> QED BY <1>1, <1>2, <1>3, <1>4, <1>5

LEMMA MaxOfTwo ==
  ASSUME NEW m \in Int, NEW n \in Int
  PROVE  Max({m, n}) = IF m >= n THEN m ELSE n
<1> DEFINE l == IF m >= n THEN m ELSE n
<1>1. l \in {m, n} /\ \A y \in {m, n} : l >= y
  OBVIOUS
<1>2. \A x \in {m, n} : (\A y \in {m, n} : x >= y) => x = l
  OBVIOUS
<1> HIDE DEF l
<1>3. Max({m, n}) = l
  BY <1>1, <1>2 DEF Max
<1> QED BY <1>3 DEF l

(* A batch: finitely many rows of the same width.                          *)
IsBatch(rows, n) == IsFiniteSet(DOMAIN rows) /\ \A r \in DOMAIN rows : IsRow(rows[r], n)
IsShare(p, q) == p \in Nat /\ q \in Nat \ {0} /\ p <= q

(* The share of n tokens: at least one of them, rounded up.                *)
LEMMA ShareIsKept ==
  ASSUME NEW n \in Nat \ {0}, NEW p, NEW q, IsShare(p, q), p # 0
  PROVE  LET keep == Estimate!KeepCount(n, p, q)
         IN  keep \in 1 .. n /\ keep * q >= n * p /\ (keep - 1) * q < n * p
<1> DEFINE m == p * n
           c == CeilDiv(m, q)
<1>1. /\ p \in Nat \ {0} /\ q \in Nat \ {0} /\ p <= q
  BY DEF IsShare
<1>2. m \in Nat \ {0} /\ m <= q * n /\ m = n * p
  <2>1. \A a, b, d \in Nat \ {0} : a <= d => a * b \in Nat \ {0} /\ a * b <= d * b /\ a * b = b * a
    OBVIOUS
  <2> QED BY <1>1, <2>1
<1> HIDE DEF m
<1>3. c \in Nat \ {0} /\ (c - 1) * q < m /\ m <= c * q
  BY <1>1, <1>2, CeilDivPositive
<1>4. c = (m + q - 1) \div q
  BY DEF CeilDiv
<1> HIDE DEF c
<1>5. c <= n
  <2> SUFFICES ASSUME c > n PROVE FALSE
    BY <1>3
  <2>1. c - 1 >= n /\ c - 1 \in Nat
    BY <1>3
  <2>2. (c - 1) * q >= n * q
    <3>1. \A a, b \in Nat, d \in Nat \ {0} : a >= b => a * d >= b * d
      OBVIOUS
    <3> QED BY <1>1, <2>1, <3>1
  <2>3. n * q = q * n /\ n * q \in Int /\ (c - 1) * q \in Int
    BY <1>1, <2>1
  <2> QED BY <1>2, <1>3, <2>2, <2>3
<1>6. Max({c, 1}) = c
  BY <1>3, MaxOfTwo
<1>7. Min({c, n}) = c
  BY <1>3, <1>5, MinOfTwo
<1>8. Estimate!KeepCount(n, p, q) = c
  <2>1. Estimate!KeepCount(n, p, q) = Min({Max({c, 1}), n})
    BY <1>4, SameOperatorsOfEstimates DEF Estimate!KeepCount, m
  <2> QED BY <1>6, <1>7, <2>1
<1>9. c \in 1 .. n
  BY <1>3, <1>5
<1>10. c * q >= n * p /\ (c - 1) * q < n * p
  BY <1>1, <1>2, <1>3
<1> QED BY <1>8, <1>9, <1>10

LEMMA GeneratedFinite ==
  ASSUME NEW rows, NEW n, IsBatch(rows, n)
  PROVE  /\ IsFiniteSet(Estimate!Generated(rows))
         /\ \A x \in Estimate!Generated(rows) : x[1] \in DOMAIN rows /\ x[2] \in 1 .. n
<1> DEFINE V == Estimate!Generated(rows)
<1>1. \A r \in DOMAIN rows : IsRow(rows[r], n) /\ DOMAIN rows[r].mask = 1 .. n
  BY DEF IsBatch, IsRow
<1>2. V \in SUBSET ((DOMAIN rows) \X (1 .. n))
  <2>1. ASSUME NEW x \in V PROVE x \in (DOMAIN rows) \X (1 .. n)
    <3>1. PICK r \in DOMAIN rows :
            x \in {<< r, t >> : t \in {u \in DOMAIN rows[r].mask : rows[r].mask[u]}}
      BY DEF Estimate!Generated
    <3>2. PICK t \in DOMAIN rows[r].mask : x = << r, t >>
      BY <3>1
    <3> QED BY <1>1, <3>2
  <2> HIDE DEF V
  <2> QED BY <2>1
<1>3. IsFiniteSet((DOMAIN rows) \X (1 .. n))
  <2>1. CASE DOMAIN rows = {}
    <3>1. (DOMAIN rows) \X (1 .. n) = {}
      BY <2>1
    <3> QED BY <3>1, FS_EmptySet
  <2>2. CASE DOMAIN rows # {}
    <3>1. n \in Nat
      BY <1>1, <2>2 DEF IsRow
    <3>2. IsFiniteSet(DOMAIN rows) /\ IsFiniteSet(1 .. n)
      BY <3>1, FirstNumbers DEF IsBatch
    <3> QED BY <3>2, FS_Product
  <2> QED BY <2>1, <2>2
<1> HIDE DEF V
<1>4. IsFiniteSet(V)
  BY <1>2, <1>3, FS_Subset
<1>5. \A x \in V : x[1] \in DOMAIN rows /\ x[2] \in 1 .. n
  BY <1>2
<1> QED BY <1>4, <1>5 DEF V

LEMMA PositiveType ==
  ASSUME NEW row, NEW n, IsRow(row, n), NEW t \in 1 .. n
  PROVE  Estimate!PositiveAdvantages(row, 1)[t] \in Int
<1> DEFINE x == Estimate!ReinforceReturns(row, 1)[t]
           y == (x - row.value) * Estimate!RowMask(row, t)
<1>1. x \in Int
  BY ReinforceCounts
<1> HIDE DEF x
<1>2. row.value \in Int /\ Estimate!RowMask(row, t) \in Int /\ DOMAIN row.rewards = 1 .. n
  BY DEF IsRow, Estimate!RowMask
<1>3. y \in Int
  BY <1>1, <1>2
<1>4. Estimate!ReinforceAdvantages(row, 1)[t] = y
  BY <1>2 DEF Estimate!ReinforceAdvantages, x
<1> HIDE DEF y
<1>5. Max({y, 0}) \in Int
  BY <1>3, MaxOfTwo
<1>6. Estimate!PositiveAdvantages(row, 1)[t] = Max({y, 0})
  BY <1>2, <1>4, SameOperatorsOfEstimates DEF Estimate!PositiveAdvantages
<1> QED BY <1>5, <1>6

(* reinforce_plus_plus_topp keeps the best tokens of a batch.              *)
LEMMA KeptAreBest ==
  ASSUME NEW rows, NEW n, IsBatch(rows, n), NEW p, NEW q, IsShare(p, q), p # 0,
         Estimate!Generated(rows) # {}
  PROVE  LET V    == Estimate!Generated(rows)
             a    == [x \in V |-> Estimate!PositiveAdvantages(rows[x[1]], 1)[x[2]]]
             keep == Estimate!KeepCount(Cardinality(V), p, q)
         IN  /\ KeepsBest(V, a, Estimate!KeptTokens(rows, p, q), keep)
             /\ Cardinality(V) \in Nat /\ keep \in Nat
             /\ keep * q >= Cardinality(V) * p /\ (keep - 1) * q < Cardinality(V) * p
<1> DEFINE V == Estimate!Generated(rows)
           Adv(x) == Estimate!PositiveAdvantages(rows[x[1]], 1)[x[2]]
           a == [x \in V |-> Adv(x)]
           m == Cardinality(V)
           keep == Estimate!KeepCount(m, p, q)
           kth == m - keep + 1
           v == CHOOSE w : IsKth(V, a, kth, w)
<1>1. IsFiniteSet(V) /\ V # {} /\ m \in Nat \ {0}
  BY GeneratedFinite, FS_CardinalityType, FS_EmptySet
<1>2. \A x \in V : a[x] \in Int /\ a[x] = Adv(x)
  <2>1. ASSUME NEW x \in V PROVE a[x] \in Int
    <3>1. x[1] \in DOMAIN rows /\ x[2] \in 1 .. n
      BY GeneratedFinite
    <3>2. IsRow(rows[x[1]], n)
      BY <3>1 DEF IsBatch
    <3>3. Adv(x) \in Int
      BY <3>1, <3>2, PositiveType
    <3> QED BY <3>3
  <2> QED BY <2>1
<1>3. keep \in 1 .. m /\ keep * q >= m * p /\ (keep - 1) * q < m * p
  BY <1>1, ShareIsKept
<1>4. kth \in 1 .. m /\ keep \in Nat
  <2> HIDE DEF m, keep
  <2> QED BY <1>1, <1>3
<1>5. IsKth(V, a, kth, v)
  <2>1. \E w : IsKth(V, a, kth, w)
    <3> HIDE DEF V, a, kth, m
    <3> USE DEF m
    <3> QED BY <1>1, <1>2, <1>4, KthExists
  <2> HIDE DEF V, a, kth
  <2> QED BY <2>1 DEF v
<1>6. Estimate!KeptTokens(rows, p, q)
        = IF keep = m THEN V
          ELSE {x \in V : Adv(x) >=
                 CHOOSE w \in {Adv(x1) : x1 \in V} :
                   /\ Cardinality({x1 \in V : Adv(x1) < w}) < kth
                   /\ Cardinality({x1 \in V : Adv(x1) <= w}) >= kth}
  <2>1. m # 0 /\ p # 0
    BY <1>1
  <2>2. \A S : Estimate!Cardinality(S) = Cardinality(S)
    BY SameOperatorsOfEstimates
  <2> QED BY <2>1, <2>2, Zenon DEF Estimate!KeptTokens
<1>7. v = CHOOSE w \in {Adv(x1) : x1 \in V} :
                   /\ Cardinality({x1 \in V : Adv(x1) < w}) < kth
                   /\ Cardinality({x1 \in V : Adv(x1) <= w}) >= kth
  <2>1. \A w : /\ Below(V, a, w) = {x1 \in V : Adv(x1) < w}
               /\ UpTo(V, a, w) = {x1 \in V : Adv(x1) <= w}
    BY DEF Below, UpTo
  <2>2. {a[x1] : x1 \in V} = {Adv(x1) : x1 \in V}
    OBVIOUS
  <2>3. \A w : IsKth(V, a, kth, w) <=>
                 /\ w \in {Adv(x1) : x1 \in V}
                 /\ Cardinality({x1 \in V : Adv(x1) < w}) < kth
                 /\ Cardinality({x1 \in V : Adv(x1) <= w}) >= kth
    <3> HIDE DEF V, a, kth, Adv
    <3> QED BY <2>1, <2>2 DEF IsKth
  <2> HIDE DEF V, a, kth, Adv
  <2> QED BY <2>3, Zenon DEF v
<1>8. Estimate!KeptTokens(rows, p, q) = IF keep = m THEN V ELSE {x \in V : a[x] >= v}
  <2>1. Estimate!KeptTokens(rows, p, q) = IF keep = m THEN V ELSE {x \in V : Adv(x) >= v}
    <3> HIDE DEF V, a, kth, Adv, v, keep, m
    <3> QED BY <1>6, <1>7, Zenon
  <2> QED BY <2>1
<1> HIDE DEF V, a, kth, Adv, v, keep
<1>9. KeepsBest(V, a, Estimate!KeptTokens(rows, p, q), keep)
  <2>1. CASE keep = m
    BY <1>1, <1>2, <1>8, <2>1, AllKept
  <2>2. CASE keep # m
    <3>1. KeepsBest(V, a, {x \in V : a[x] >= v}, keep)
      <4>1. IsKth(V, a, Cardinality(V) - keep + 1, v)
        BY <1>5 DEF kth
      <4> QED BY <1>1, <1>2, <1>3, <4>1, KthKeeps
    <3> QED BY <1>8, <2>2, <3>1
  <2> QED BY <2>1, <2>2
<1> QED BY <1>1, <1>3, <1>4, <1>9 DEF V, a, Adv, keep

(* What TopTokens says of an estimate that keeps these tokens.             *)
LEMMA TokensAreTop ==
  ASSUME NEW rows, NEW n, IsBatch(rows, n), NEW p, NEW q, IsShare(p, q),
         result.kept = Estimate!KeptTokens(rows, p, q)
  PROVE  TopTokens(rows, p, q)
<1> SUFFICES ASSUME p # 0, Estimate!Generated(rows) # {} PROVE TopTokens(rows, p, q)
  BY DEF TopTokens
<1> DEFINE V == Estimate!Generated(rows)
           Adv(x) == Estimate!PositiveAdvantages(rows[x[1]], 1)[x[2]]
           a == [x \in V |-> Adv(x)]
           m == Cardinality(V)
           keep == Estimate!KeepCount(m, p, q)
           kept == result.kept
           best == {x \in kept : \E y \in kept : a[y] < a[x]}
           ck == Cardinality(kept)
           cb == Cardinality(best)
<1>1. /\ KeepsBest(V, a, kept, keep)
      /\ m \in Nat /\ keep \in Nat
      /\ keep * q >= m * p /\ (keep - 1) * q < m * p
  BY KeptAreBest
<1>2. q \in Nat \ {0} /\ p \in Nat
  BY DEF IsShare
<1>3. /\ kept \subseteq V /\ ck \in Nat /\ ck >= keep
      /\ \A x \in kept, y \in V \ kept : a[x] > a[y]
      /\ cb \in Nat /\ cb < keep
  <2> HIDE DEF V, a, keep
  <2> QED BY <1>1 DEF KeepsBest
<1>4. best = {x \in kept : \E y \in kept : Adv(y) < Adv(x)}
  BY <1>3
<1>5. \A x \in kept, y \in V \ kept : Adv(x) > Adv(y)
  BY <1>3
<1>6. ck * q >= m * p /\ cb * q < m * p
  <2> HIDE DEF ck, cb, m, keep
  <2>1. \A x, y \in Nat, z \in Nat : x >= y => x * z >= y * z
    OBVIOUS
  <2>2. ck * q >= keep * q
    BY <1>1, <1>2, <1>3, <2>1
  <2>3. \A x, y \in Nat, z \in Nat : x <= y => x * z <= y * z
    OBVIOUS
  <2>4. keep - 1 \in Nat /\ cb <= keep - 1
    BY <1>1, <1>3
  <2>5. cb * q <= (keep - 1) * q
    BY <1>2, <1>3, <2>3, <2>4
  <2>6. ck * q \in Int /\ keep * q \in Int /\ m * p \in Int /\ cb * q \in Int /\ (keep - 1) * q \in Int
    BY <1>1, <1>2, <1>3
  <2> QED BY <1>1, <2>2, <2>5, <2>6
<1> HIDE DEF best, kept
<1>7. Cardinality(best) * q < Cardinality(V) * p /\ Cardinality(kept) * q >= Cardinality(V) * p
  BY <1>6 DEF kept
<1> HIDE DEF V
<1> QED BY <1>4, <1>5, <1>7 DEF TopTokens, V, kept

-----------------------------------------------------------------------------
(* Advantages over the rows of a group.                                    *)

(* A row's group is that of each of its members; the rest of it is smaller *)
(* by one.                                                                 *)
IsGroup(group, rows, r) ==
  /\ group = Estimate!Group(rows, r) /\ group \subseteq DOMAIN rows /\ r \in group
  /\ \A i \in group : Estimate!Group(rows, i) = group
  /\ IsFiniteSet(group) /\ Cardinality(group) \in Nat \ {0}
  /\ IsFiniteSet(group \ {r}) /\ Cardinality(group \ {r}) = Cardinality(group) - 1
  /\ group \ {r} # {} => Cardinality(group) > 1
LEMMA GroupFacts ==
  ASSUME NEW rows, NEW n, IsBatch(rows, n), NEW r \in DOMAIN rows
  PROVE  IsGroup(Estimate!Group(rows, r), rows, r)
<1> DEFINE group == Estimate!Group(rows, r)
<1>1. group \in SUBSET (DOMAIN rows) /\ r \in group
  BY DEF Estimate!Group
<1>2. \A i \in group : Estimate!Group(rows, i) = group
  BY DEF Estimate!Group
<1>3. IsFiniteSet(DOMAIN rows)
  BY DEF IsBatch
<1> HIDE DEF group
<1>4. IsFiniteSet(group) /\ Cardinality(group) \in Nat \ {0}
  BY <1>1, <1>3, FS_Subset, FS_CardinalityType, FS_EmptySet
<1>5. IsFiniteSet(group \ {r}) /\ Cardinality(group \ {r}) = Cardinality(group) - 1
  BY <1>1, <1>4, FS_RemoveElement
<1>6. group \ {r} # {} => Cardinality(group) > 1
  <2>1. group \ {r} # {} => Cardinality(group \ {r}) # 0
    BY <1>5, FS_EmptySet
  <2>2. Cardinality(group \ {r}) \in Nat
    BY <1>5, FS_CardinalityType
  <2> QED BY <1>4, <1>5, <2>1, <2>2
<1> QED BY <1>1, <1>2, <1>4, <1>5, <1>6 DEF IsGroup, group

ScoresOf(rows) == [i \in DOMAIN rows |-> Estimate!Score(rows[i])]
TokensOf(rows) == [i \in DOMAIN rows |-> Estimate!ResponseTokens(rows[i])]
WeightedOf(rows) == [i \in DOMAIN rows |-> TokensOf(rows)[i] * ScoresOf(rows)[i]]
LEMMA ScoresType ==
  ASSUME NEW rows, NEW n, IsBatch(rows, n), NEW i \in DOMAIN rows
  PROVE  /\ ScoresOf(rows)[i] \in Int /\ ScoresOf(rows)[i] = Estimate!Score(rows[i])
         /\ TokensOf(rows)[i] \in Nat
         /\ TokensOf(rows)[i] = Estimate!ResponseTokens(rows[i])
         /\ WeightedOf(rows)[i] \in Int
         /\ WeightedOf(rows)[i] = TokensOf(rows)[i] * ScoresOf(rows)[i]
<1> DEFINE row == rows[i]
           S == {t \in DOMAIN row.mask : row.mask[t]}
<1>1. IsRow(row, n)
  BY DEF IsBatch
<1>2. /\ n \in Nat /\ DOMAIN row.rewards = 1 .. n /\ DOMAIN row.mask = 1 .. n
      /\ \A t \in 1 .. n : row.rewards[t] \in Int
  BY <1>1 DEF IsRow
<1>3. Estimate!Score(row) = SumFunctionOnSet(row.rewards, 1 .. n)
  BY <1>2, SameOperatorsOfEstimates DEF Estimate!Score
<1>4. SumFunctionOnSet(row.rewards, 1 .. n) \in Int
  BY <1>2, FirstNumbers, SumTake
<1>5. Estimate!ResponseTokens(row) = Cardinality(S)
  BY SameOperatorsOfEstimates DEF Estimate!ResponseTokens
<1>6. S \in SUBSET (1 .. n)
  BY <1>2
<1> HIDE DEF S
<1>7. Cardinality(S) \in Nat
  BY <1>2, <1>6, FirstNumbers, FS_Subset, FS_CardinalityType
<1>8. ScoresOf(rows)[i] \in Int /\ ScoresOf(rows)[i] = Estimate!Score(rows[i])
  BY <1>3, <1>4 DEF ScoresOf
<1>9. TokensOf(rows)[i] \in Nat /\ TokensOf(rows)[i] = Estimate!ResponseTokens(rows[i])
  BY <1>5, <1>7 DEF TokensOf
<1>10. WeightedOf(rows)[i] = TokensOf(rows)[i] * ScoresOf(rows)[i]
  BY DEF WeightedOf
<1> QED BY <1>8, <1>9, <1>10

(* A sum of multiples less a constant multiple of others.                  *)
LEMMA SumOfDifferences ==
  ASSUME NEW S, IsFiniteSet(S), NEW f, NEW g, NEW h, NEW k \in Int, NEW l \in Int,
         \A x \in S : f[x] \in Int /\ g[x] \in Int /\ h[x] = k * f[x] - l * g[x]
  PROVE  SumFunctionOnSet(h, S) = k * SumFunctionOnSet(f, S) - l * SumFunctionOnSet(g, S)
<1> DEFINE kf == [x \in S |-> k * f[x]]
           lg == [x \in S |-> (-l) * g[x]]
           F == SumFunctionOnSet(f, S)
           G == SumFunctionOnSet(g, S)
<1>1. SumFunctionOnSet(kf, S) = k * F
  <2>1. \A x \in S : f[x] \in Int /\ kf[x] = k * f[x]
    OBVIOUS
  <2> HIDE DEF kf
  <2> QED BY <2>1, SumScaled
<1>2. SumFunctionOnSet(lg, S) = (-l) * G
  <2>1. \A x \in S : g[x] \in Int /\ lg[x] = (-l) * g[x]
    OBVIOUS
  <2>2. -l \in Int
    OBVIOUS
  <2> HIDE DEF lg
  <2> QED BY <2>1, <2>2, SumScaled
<1>3. \A x \in S : kf[x] \in Int /\ lg[x] \in Int /\ h[x] = kf[x] + lg[x]
  OBVIOUS
<1>4. F \in Int /\ G \in Int
  BY SumTake
<1> HIDE DEF kf, lg
<1>5. SumFunctionOnSet(h, S) = SumFunctionOnSet(kf, S) + SumFunctionOnSet(lg, S)
  BY <1>3, SumAdded
<1> HIDE DEF F, G
<1>6. (-l) * G = -(l * G) /\ k * F \in Int /\ l * G \in Int
  BY <1>4
<1>7. k * F + (-l) * G = k * F - l * G
  BY <1>6
<1> QED BY <1>1, <1>2, <1>5, <1>7 DEF F, G

(* GRPO: the scores of a group less its mean.                              *)
LEMMA GrpoCancels ==
  ASSUME NEW rows, NEW n, IsBatch(rows, n), NEW r \in DOMAIN rows,
         NEW group, group = Estimate!Group(rows, r), group \ {r} # {}, NEW nums,
         \A i \in group : nums[i] = Estimate!GrpoAdvantage(rows, i).num
  PROVE  SumFunctionOnSet(nums, group) = 0
<1> DEFINE f == ScoresOf(rows)
           S == SumFunctionOnSet(f, group)
           g == Cardinality(group)
           one == [i \in group |-> 1]
<1>1. IsGroup(group, rows, r)
  BY GroupFacts
<1>2. /\ IsFiniteSet(group) /\ g \in Nat /\ g # 1 /\ group \subseteq DOMAIN rows
      /\ \A i \in group : Estimate!Group(rows, i) = group
  BY <1>1 DEF IsGroup
<1>3. \A i \in group : f[i] \in Int /\ f[i] = Estimate!Score(rows[i])
  BY <1>2, ScoresType
<1>4. S \in Int
  <2> HIDE DEF f
  <2> QED BY <1>2, <1>3, SumTake
<1>5. \A i \in group : nums[i] = g * f[i] - S
  <2>1. ASSUME NEW i \in group PROVE nums[i] = g * f[i] - S
    <3>1. Estimate!GroupSize(rows, i) = g
      BY <1>2, SameOperatorsOfEstimates DEF Estimate!GroupSize
    <3>2. Estimate!GroupScore(rows, i) = S
      BY <1>2, SameOperatorsOfEstimates DEF Estimate!GroupScore, ScoresOf
    <3> HIDE DEF f, S, g
    <3>3. Estimate!GrpoAdvantage(rows, i).num = g * Estimate!Score(rows[i]) - S
      BY <1>2, <3>1, <3>2 DEF Estimate!GrpoAdvantage
    <3> QED BY <1>3, <3>3
  <2> QED BY <2>1
<1>6. SumFunctionOnSet(one, group) = 1 * g
  <2>1. 1 \in Int /\ \A i \in group : one[i] = 1
    OBVIOUS
  <2> HIDE DEF one
  <2> QED BY <1>2, <2>1, SumConstant
<1>7. SumFunctionOnSet(nums, group) = g * S - S * SumFunctionOnSet(one, group)
  <2>1. \A i \in group : f[i] \in Int /\ one[i] \in Int /\ nums[i] = g * f[i] - S * one[i]
    BY <1>3, <1>4, <1>5
  <2>2. g \in Int
    BY <1>2
  <2> HIDE DEF f, one, g
  <2> QED BY <1>2, <1>4, <2>1, <2>2, SumOfDifferences
<1> HIDE DEF S, g, one
<1>8. 1 * g = g /\ g * S - S * g = 0
  BY <1>2, <1>4
<1> QED BY <1>6, <1>7, <1>8

(* OPO: weighted by the tokens the scores are averaged over.               *)
LEMMA OpoCancels ==
  ASSUME NEW rows, NEW n, IsBatch(rows, n), NEW r \in DOMAIN rows,
         NEW group, group = Estimate!Group(rows, r), group \ {r} # {}, NEW nums,
         \A i \in group : nums[i] = Estimate!ResponseTokens(rows[i])
                                      * Estimate!OpoAdvantage(rows, i).num
  PROVE  SumFunctionOnSet(nums, group) = 0
<1> DEFINE f == ScoresOf(rows)
           w == WeightedOf(rows)
           t == TokensOf(rows)
           W == SumFunctionOnSet(w, group)
           T == SumFunctionOnSet(t, group)
<1>1. IsGroup(group, rows, r)
  BY GroupFacts
<1>2. /\ IsFiniteSet(group) /\ Cardinality(group) # 1 /\ group \subseteq DOMAIN rows
      /\ \A i \in group : Estimate!Group(rows, i) = group
  BY <1>1 DEF IsGroup
<1>3. \A i \in group : /\ f[i] \in Int /\ f[i] = Estimate!Score(rows[i])
                       /\ t[i] \in Int /\ t[i] = Estimate!ResponseTokens(rows[i])
                       /\ w[i] \in Int /\ w[i] = t[i] * f[i]
  BY <1>2, ScoresType
<1>4. W \in Int /\ T \in Int
  <2> HIDE DEF w, t
  <2> QED BY <1>2, <1>3, SumTake
<1>5. \A i \in group : nums[i] = T * w[i] - W * t[i]
  <2>1. ASSUME NEW i \in group PROVE nums[i] = T * w[i] - W * t[i]
    <3>1. Estimate!GroupSize(rows, i) # 1
      BY <1>2, SameOperatorsOfEstimates DEF Estimate!GroupSize
    <3>2. t = [j \in DOMAIN rows |-> Estimate!ResponseTokens(rows[j])]
      BY DEF TokensOf
    <3>3. w = [j \in DOMAIN rows |-> t[j] * Estimate!Score(rows[j])]
      BY DEF WeightedOf, ScoresOf
    <3> HIDE DEF f, w, t
    <3>4. Estimate!OpoAdvantage(rows, i).num = T * Estimate!Score(rows[i]) - W
      BY <1>2, <3>1, <3>2, <3>3, SameOperatorsOfEstimates DEF Estimate!OpoAdvantage
    <3>5. nums[i] = t[i] * (T * f[i] - W)
      BY <1>3, <3>4
    <3> HIDE DEF T, W
    <3>6. \A a, b, x, y \in Int : a * (x * b - y) = x * (a * b) - y * a
      OBVIOUS
    <3>7. t[i] * (T * f[i] - W) = T * (t[i] * f[i]) - W * t[i]
      BY <1>3, <1>4, <3>6
    <3> QED BY <1>3, <3>5, <3>7
  <2> QED BY <2>1
<1>6. SumFunctionOnSet(nums, group) = T * W - W * T
  <2>1. \A i \in group : w[i] \in Int /\ t[i] \in Int /\ nums[i] = T * w[i] - W * t[i]
    BY <1>3, <1>5
  <2> HIDE DEF f, w, t, T, W
  <2>2. SumFunctionOnSet(nums, group)
          = T * SumFunctionOnSet(w, group) - W * SumFunctionOnSet(t, group)
    BY <1>2, <1>4, <2>1, SumOfDifferences
  <2> QED BY <2>2 DEF T, W
<1> HIDE DEF T, W
<1>7. T * W - W * T = 0
  BY <1>4
<1> QED BY <1>6, <1>7

(* RLOO: a row against the mean of the others, vectorised or not.          *)
LEMMA RlooComparesWithOthers ==
  ASSUME NEW rows, NEW n, IsBatch(rows, n), NEW r \in DOMAIN rows,
         NEW group, group = Estimate!Group(rows, r), NEW others, others = group \ {r},
         others # {}
  PROVE  /\ SameFraction(Estimate!RlooAdvantage(rows, r),
              [num |-> Cardinality(others) * ScoresOf(rows)[r]
                         - SumFunctionOnSet(ScoresOf(rows), others),
               den |-> Cardinality(others)])
         /\ SameFraction(Estimate!RlooAdvantage(rows, r), Estimate!RlooVectorizedAdvantage(rows, r))
<1> DEFINE f == ScoresOf(rows)
           S == SumFunctionOnSet(f, group)
           O == SumFunctionOnSet(f, others)
           g == Cardinality(group)
<1>1. IsGroup(group, rows, r)
  BY GroupFacts
<1>2. /\ IsFiniteSet(group) /\ r \in group /\ g \in Nat /\ g > 1 /\ group \subseteq DOMAIN rows
      /\ Cardinality(others) = g - 1 /\ IsFiniteSet(others)
  BY <1>1 DEF IsGroup
<1>3. \A i \in group : f[i] \in Int /\ f[i] = Estimate!Score(rows[i])
  BY <1>2, ScoresType
<1>4. S = f[r] + O /\ O \in Int /\ f[r] \in Int
  <2> HIDE DEF f
  <2> QED BY <1>2, <1>3, SumTake
<1>5. Estimate!GroupSize(rows, r) = g /\ Estimate!GroupScore(rows, r) = S
  BY SameOperatorsOfEstimates DEF Estimate!GroupSize, Estimate!GroupScore, ScoresOf
<1>6. Estimate!RlooAdvantage(rows, r) = [num |-> g * f[r] - S, den |-> g - 1]
  BY <1>2, <1>3, <1>5 DEF Estimate!RlooAdvantage
<1>7. Estimate!RlooVectorizedAdvantage(rows, r) = [num |-> g * f[r] - S, den |-> g - 1]
  <2>1. Max({g - 1, 1}) = g - 1
    BY <1>2, MaxOfTwo
  <2> QED BY <1>2, <1>3, <1>5, <2>1, SameOperatorsOfEstimates DEF Estimate!RlooVectorizedAdvantage
<1>8. g * f[r] - S = (g - 1) * f[r] - O
  <2> HIDE DEF f, g, S, O
  <2>1. (g - 1) * f[r] = g * f[r] - f[r] /\ g * f[r] \in Int
    BY <1>2, <1>4
  <2> QED BY <1>2, <1>4, <2>1
<1> QED BY <1>2, <1>6, <1>7, <1>8 DEF SameFraction

(* Pass@k: only the best row of a group may lead.                          *)
LEMMA OneLeads ==
  ASSUME NEW rows, NEW n, IsBatch(rows, n), NEW r \in DOMAIN rows,
         NEW group, group = Estimate!Group(rows, r), group \ {r} # {}
  PROVE  Cardinality({i \in group : Estimate!PasskAdvantage(rows, i).num # 0}) <= 1
<1> DEFINE lead == {i \in group : Estimate!PasskAdvantage(rows, i).num # 0}
           f == ScoresOf(rows)
<1>1. IsGroup(group, rows, r)
  BY GroupFacts
<1>2. /\ IsFiniteSet(group) /\ group \subseteq DOMAIN rows
      /\ \A i \in group : Estimate!Group(rows, i) = group
  BY <1>1 DEF IsGroup
<1>3. \A i \in group : f[i] \in Int /\ f[i] = Estimate!Score(rows[i])
  BY <1>2, ScoresType
<1>4. ASSUME NEW i \in lead, NEW j \in group, j # i PROVE f[i] > f[j]
  <2> DEFINE V == group \ {i}
             A == {Estimate!Score(rows[k]) : k \in V}
  <2>1. IsFiniteSet(V) /\ V # {} /\ j \in V /\ V \subseteq group
    BY <1>2, <1>4, FS_RemoveElement
  <2>2. PICK z \in V : \A y \in V : f[y] <= f[z]
    <3>1. \A y \in V : f[y] \in Int
      BY <1>3
    <3> HIDE DEF V, f
    <3> QED BY <2>1, <3>1, LeastAndGreatest
  <2>3. f[z] \in A /\ \A y \in A : f[z] >= y
    BY <1>3, <2>1, <2>2
  <2>4. Max(A) \in A /\ \A y \in A : Max(A) >= y
    <3> HIDE DEF A, f
    <3> QED BY <2>3 DEF Max
  <2>5. f[j] \in A
    BY <1>3, <2>1
  <2>6. Max(A) >= f[j] /\ Max(A) \in Int
    <3>1. A \subseteq Int
      BY <1>3
    <3> HIDE DEF A, f
    <3> QED BY <2>4, <2>5, <3>1
  <2>7. Estimate!PasskAdvantage(rows, i).num
          = IF Estimate!Score(rows[i]) > Max(A) THEN Estimate!Score(rows[i]) - Max(A) ELSE 0
    BY <1>2, <1>4, SameOperatorsOfEstimates DEF Estimate!PasskAdvantage, Estimate!Whole
  <2>8. f[i] > Max(A) /\ f[i] \in Int /\ f[j] \in Int
    <3> HIDE DEF A
    <3> QED BY <1>3, <1>4, <2>7
  <2> HIDE DEF f, A
  <2> QED BY <2>6, <2>8
<1>5. \A i, j \in lead : i = j
  <2>1. ASSUME NEW i \in lead, NEW j \in lead, i # j PROVE FALSE
    <3>1. f[i] > f[j] /\ f[j] > f[i] /\ f[i] \in Int /\ f[j] \in Int
      BY <1>3, <1>4, <2>1
    <3> HIDE DEF f
    <3> QED BY <3>1
  <2> QED BY <2>1
<1> HIDE DEF lead
<1>6. CASE lead = {}
  BY <1>6, FS_EmptySet DEF lead
<1>7. CASE lead # {}
  <2>1. PICK i \in lead : TRUE
    BY <1>7
  <2>2. lead = {i}
    BY <1>5, <2>1
  <2>3. Cardinality({i}) = 1
    BY FS_Singleton
  <2>4. Cardinality(lead) <= 1
    BY <2>2, <2>3
  <2> QED BY <2>4 DEF lead
<1> QED BY <1>6, <1>7

-----------------------------------------------------------------------------
(* The result is what the estimators compute of the batch.                 *)
Estimated(rows, share) ==
  LET Each(f(_)) == [r \in DOMAIN rows |-> f(r)]
  IN  [gae |-> Each(LAMBDA r : Estimate!GaeAdvantages(rows[r], 1, 1)),
       gae0 |-> Each(LAMBDA r : Estimate!GaeAdvantages(rows[r], 1, 0)),
       reinforce |-> Each(LAMBDA r : Estimate!ReinforceReturns(rows[r], 1)),
       remax |-> Each(LAMBDA r : Estimate!RemaxReturns(rows[r])),
       kept |-> Estimate!KeptTokens(rows, share.p, share.q),
       grpo |-> Each(LAMBDA r : Estimate!GrpoAdvantage(rows, r)),
       grpo_mask |-> Each(LAMBDA r : Estimate!GrpoMaskAdvantage(rows, r)),
       rloo |-> Each(LAMBDA r : Estimate!RlooAdvantage(rows, r)),
       rloo_vectorized |-> Each(LAMBDA r : Estimate!RlooVectorizedAdvantage(rows, r)),
       opo |-> Each(LAMBDA r : Estimate!OpoAdvantage(rows, r)),
       passk |-> IF Estimate!PasskRaises(rows) THEN None
                 ELSE Each(LAMBDA r : Estimate!PasskAdvantage(rows, r))]

EstimatesInv ==
  task = "estimate" =>
    /\ input \in Groups \X TopP
    /\ result # None => result = Estimated(input[1], input[2])

LEMMA EstimatesInit == Init => EstimatesInv
BY DEF Init, EstimatesInv

LEMMA EstimatesStep ==
  ASSUME EstimatesInv, [Next]_vars
  PROVE  EstimatesInv'
<1>1. CASE EstimateAll
  <2>1. task = "estimate" /\ task' = task /\ input' = input
    BY <1>1, Zenon DEF EstimateAll, Compute
  <2>2. result' = Estimated(input[1], input[2])
    BY <1>1, Zenon DEF EstimateAll, Compute, Estimated
  <2> QED BY <2>1, <2>2, Zenon DEF EstimatesInv
<1>2. CASE Balance \/ Rearrange \/ ForwardPass
  <2>1. task' # "estimate"
    <3>1. task' \in {"balance", "micro_batches", "forward"}
      BY <1>2, Zenon DEF Balance, Rearrange, ForwardPass, Compute
    <3> QED BY <3>1
  <2> QED BY <2>1 DEF EstimatesInv
<1>3. CASE RowsNext
  <2>1. Step
    BY <1>3 DEF RowsNext, RepeatRows, RepeatByCount, ReverseRows, DropRow, SplitAndConcat,
                PadRows, UnpadRows, CallMesh, CallOnAnswer, CallPadded
  <2> QED BY <2>1 DEF Step, EstimatesInv
<1>4. ASSUME NEW batch, LearnWeights(batch) PROVE EstimatesInv'
  BY <1>4 DEF LearnWeights, EstimatesInv
<1>5. CASE Finished \/ UNCHANGED vars
  BY <1>5 DEF Finished, vars, EstimatesInv
<1> QED BY <1>1, <1>2, <1>3, <1>4, <1>5 DEF Next

LEMMA BatchOfRows ==
  ASSUME NEW rows \in Groups
  PROVE  \E n : IsBatch(rows, n)
<1>1. CASE DOMAIN rows = {}
  BY <1>1, GroupsAssumption DEF IsBatch
<1>2. CASE DOMAIN rows # {}
  <2>1. PICK q \in DOMAIN rows : TRUE
    BY <1>2
  <2> DEFINE n == Len(rows[q].rewards)
  <2>2. ASSUME NEW r \in DOMAIN rows PROVE IsRow(rows[r], n)
    <3> DEFINE row == rows[r]
    <3>1. /\ row.rewards \in Seq(Int) /\ row.values \in Seq(Int) /\ row.mask \in Seq(BOOLEAN)
          /\ row.value \in Int
          /\ Len(row.rewards) = n /\ Len(row.values) = n /\ Len(row.mask) = n
      BY GroupsAssumption
    <3> HIDE DEF row, n
    <3>2. n \in Nat
      BY <3>1, LenProperties
    <3>3. /\ row.rewards \in [1 .. n -> Int] /\ row.values \in [1 .. n -> Int]
          /\ row.mask \in [1 .. n -> BOOLEAN]
      BY <3>1, LenProperties
    <3> QED BY <3>1, <3>2, <3>3 DEF IsRow, row
  <2>3. IsBatch(rows, n)
    BY <2>2, GroupsAssumption DEF IsBatch
  <2> QED BY <2>3
<1> QED BY <1>1, <1>2

LEMMA TokensEstimated ==
  ASSUME NEW rows, NEW n, IsBatch(rows, n), NEW share, result = Estimated(rows, share)
  PROVE  TokenEstimates(rows)
<1>1. \A r \in DOMAIN rows :
        /\ result.gae[r] = Estimate!GaeAdvantages(rows[r], 1, 1)
        /\ result.gae0[r] = Estimate!GaeAdvantages(rows[r], 1, 0)
        /\ result.reinforce[r] = Estimate!ReinforceReturns(rows[r], 1)
        /\ result.remax[r] = Estimate!RemaxReturns(rows[r])
  BY DEF Estimated
<1>2. ASSUME NEW r \in DOMAIN rows
      PROVE  LET row == rows[r] IN
             /\ \A t \in GeneratedFrom(row, 1) :
                  /\ result.gae[r][t] + row.values[t] = SumTo(row, GeneratedFrom(row, t))
                  /\ result.gae0[r][t] = row.rewards[t] + NextValue(row, t) - row.values[t]
                  /\ result.remax[r][t] = SumTo(row, GeneratedFrom(row, t))
             /\ \A t \in DOMAIN row.mask : result.reinforce[r][t] = SumTo(row, Segment(row, t))
  <2> DEFINE row == rows[r]
  <2>1. IsRow(row, n)
    BY DEF IsBatch
  <2> HIDE DEF row
  <2>2. DOMAIN row.mask = 1 .. n /\ GeneratedFrom(row, 1) \subseteq 1 .. n
    BY <2>1 DEF IsRow, GeneratedFrom
  <2>3. ASSUME NEW t \in GeneratedFrom(row, 1)
        PROVE  /\ Estimate!GaeAdvantages(row, 1, 1)[t] + row.values[t]
                    = SumTo(row, GeneratedFrom(row, t))
               /\ Estimate!GaeAdvantages(row, 1, 0)[t]
                    = row.rewards[t] + NextValue(row, t) - row.values[t]
               /\ Estimate!RemaxReturns(row)[t] = SumTo(row, GeneratedFrom(row, t))
    BY <2>1, <2>2, GaeCounts, RemaxCounts
  <2>4. \A t \in DOMAIN row.mask :
          Estimate!ReinforceReturns(row, 1)[t] = SumTo(row, Segment(row, t))
    BY <2>1, <2>2, ReinforceCounts
  <2> QED BY <1>1, <2>3, <2>4 DEF row
<1> QED BY <1>2, Zenon DEF TokenEstimates

LEMMA GroupsEstimated ==
  ASSUME NEW rows, NEW n, IsBatch(rows, n), NEW share, result = Estimated(rows, share)
  PROVE  GroupEstimates(rows)
<1>1. /\ \A r \in DOMAIN rows :
           /\ result.grpo[r] = Estimate!GrpoAdvantage(rows, r)
           /\ result.rloo[r] = Estimate!RlooAdvantage(rows, r)
           /\ result.rloo_vectorized[r] = Estimate!RlooVectorizedAdvantage(rows, r)
           /\ result.opo[r] = Estimate!OpoAdvantage(rows, r)
      /\ result.passk # None =>
           \A r \in DOMAIN rows : result.passk[r] = Estimate!PasskAdvantage(rows, r)
      /\ result.passk # None => ~ Estimate!PasskRaises(rows)
  BY DEF Estimated
<1>2. ASSUME NEW r \in DOMAIN rows, NEW group, group = Estimate!Group(rows, r),
             NEW others, others = group \ {r}, others # {}
      PROVE  /\ SumFunctionOnSet([i \in group |-> result.grpo[i].num], group) = 0
             /\ SumFunctionOnSet([i \in group |-> Estimate!ResponseTokens(rows[i])
                  * [j \in group |-> result.opo[j].num][i]], group) = 0
             /\ SameFraction(result.rloo[r],
                  [num |-> Cardinality(others) * ScoresOf(rows)[r]
                             - SumFunctionOnSet(ScoresOf(rows), others),
                   den |-> Cardinality(others)])
             /\ SameFraction(result.rloo[r], result.rloo_vectorized[r])
             /\ result.passk # None =>
                  Cardinality({i \in group : result.passk[i].num # 0}) <= 1
  <2>1. group \subseteq DOMAIN rows /\ group \ {r} # {}
    BY <1>2 DEF Estimate!Group
  <2>2. SumFunctionOnSet([i \in group |-> result.grpo[i].num], group) = 0
    <3> DEFINE nums == [i \in group |-> result.grpo[i].num]
    <3>1. \A i \in group : nums[i] = Estimate!GrpoAdvantage(rows, i).num
      BY <1>1, <2>1
    <3> HIDE DEF nums
    <3>2. SumFunctionOnSet(nums, group) = 0
      BY <1>2, <2>1, <3>1, GrpoCancels
    <3> QED BY <3>2 DEF nums
  <2>3. SumFunctionOnSet([i \in group |-> Estimate!ResponseTokens(rows[i])
          * [j \in group |-> result.opo[j].num][i]], group) = 0
    <3> DEFINE nums == [i \in group |-> Estimate!ResponseTokens(rows[i])
                          * [j \in group |-> result.opo[j].num][i]]
    <3>1. \A i \in group : nums[i] = Estimate!ResponseTokens(rows[i])
                                       * Estimate!OpoAdvantage(rows, i).num
      BY <1>1, <2>1
    <3> HIDE DEF nums
    <3>2. SumFunctionOnSet(nums, group) = 0
      BY <1>2, <2>1, <3>1, OpoCancels
    <3> QED BY <3>2 DEF nums
  <2>4. /\ SameFraction(result.rloo[r],
             [num |-> Cardinality(others) * ScoresOf(rows)[r]
                        - SumFunctionOnSet(ScoresOf(rows), others),
              den |-> Cardinality(others)])
        /\ SameFraction(result.rloo[r], result.rloo_vectorized[r])
    BY <1>1, <1>2, RlooComparesWithOthers
  <2>5. ASSUME result.passk # None
        PROVE  Cardinality({i \in group : result.passk[i].num # 0}) <= 1
    <3>1. {i \in group : result.passk[i].num # 0}
            = {i \in group : Estimate!PasskAdvantage(rows, i).num # 0}
      BY <1>1, <2>1, <2>5
    <3> QED BY <1>2, <2>1, <3>1, OneLeads
  <2> QED BY <2>2, <2>3, <2>4, <2>5
<1>3. ASSUME NEW r \in DOMAIN rows, Estimate!Group(rows, r) \ {r} = {}
      PROVE  /\ \A advantages \in {result.grpo, result.rloo, result.opo} :
                  SameFraction(advantages[r], Estimate!Whole(ScoresOf(rows)[r]))
             /\ result.passk = None
  <2> DEFINE group == Estimate!Group(rows, r)
             score == Estimate!Score(rows[r])
  <2>1. r \in group
    BY DEF Estimate!Group
  <2>2. group = {r}
    BY <1>3, <2>1
  <2> HIDE DEF group
  <2>3. Estimate!GroupSize(rows, r) = 1
    <3>1. Cardinality({r}) = 1
      BY FS_Singleton
    <3>2. Estimate!GroupSize(rows, r) = Cardinality(Estimate!Group(rows, r))
      BY SameOperatorsOfEstimates DEF Estimate!GroupSize
    <3> QED BY <2>2, <3>1, <3>2 DEF group
  <2>4. result.passk = None
    BY <1>1, <2>3, Zenon DEF Estimate!PasskRaises
  <2>5. ASSUME NEW advantages \in {result.grpo, result.rloo, result.opo}
        PROVE  advantages[r] = Estimate!Whole(score)
    BY <1>1, <2>3, Zenon DEF Estimate!GrpoAdvantage, Estimate!RlooAdvantage, Estimate!OpoAdvantage
  <2>6. ScoresOf(rows)[r] = score
    BY Zenon DEF ScoresOf
  <2>7. SameFraction(Estimate!Whole(score), Estimate!Whole(score))
    BY DEF SameFraction
  <2> QED BY <2>4, <2>5, <2>6, <2>7, Zenon
<1> QED BY <1>2, <1>3, Zenon DEF GroupEstimates, ScoresOf

(* core_algos: in batches of any shape, the advantages of tokens count the *)
(* rewards they should, the best tokens are kept, and the advantages of a  *)
(* group cancel out.                                                       *)
THEOREM EstimatesAlwaysMatch == Spec => []EstimatesMatch
<1>1. Init => EstimatesInv
  BY EstimatesInit
<1>2. EstimatesInv /\ [Next]_vars => EstimatesInv'
  BY EstimatesStep
<1>3. EstimatesInv => EstimatesMatch
  <2> SUFFICES ASSUME EstimatesInv, task = "estimate", result # None
               PROVE  /\ TokenEstimates(input[1])
                      /\ TopTokens(input[1], input[2].p, input[2].q)
                      /\ GroupEstimates(input[1])
    BY Zenon DEF EstimatesMatch
  <2> DEFINE rows == input[1]
             share == input[2]
  <2>1. rows \in Groups /\ share \in TopP /\ result = Estimated(rows, share)
    BY DEF EstimatesInv
  <2>2. IsShare(share.p, share.q)
    BY <2>1, GroupsAssumption DEF IsShare
  <2> HIDE DEF rows, share
  <2>3. PICK n : IsBatch(rows, n)
    BY <2>1, BatchOfRows
  <2>4. result.kept = Estimate!KeptTokens(rows, share.p, share.q)
    BY <2>1 DEF Estimated
  <2>5. /\ TokenEstimates(rows) /\ GroupEstimates(rows)
        /\ TopTokens(rows, share.p, share.q)
    BY <2>1, <2>2, <2>3, <2>4, TokensEstimated, GroupsEstimated, TokensAreTop
  <2> QED BY <2>5 DEF rows, share
<1> QED BY <1>1, <1>2, <1>3, PTL DEF Spec

-----------------------------------------------------------------------------
(* A forward pass in sequence parallel.                                    *)

LEMMA SameOperatorsOfForward ==
  /\ \A s : Forward!FlattenSeq(s) = FlattenSeq(s)
  /\ \A S : Forward!Max(S) = Max(S)
<1>1. ASSUME NEW s PROVE Forward!FlattenSeq(s) = FlattenSeq(s)
  BY Zenon DEF Forward!FlattenSeq, FlattenSeq
<1>2. ASSUME NEW S PROVE Forward!Max(S) = Max(S)
  BY Zenon DEF Forward!Max, Max
<1> QED BY <1>1, <1>2


(* slice_input_tensor: each rank has a block of the tensor.                *)
IsSliced(t, s, X, sp, size) ==
  /\ t \in Seq(Seq(X)) /\ Len(t) = sp
  /\ \A rank \in 1 .. sp :
       /\ t[rank] \in Seq(X) /\ Len(t[rank]) = size
       /\ \A i \in 1 .. size : t[rank][i] = s[Place(rank, size, i)]
LEMMA SlicedBlocks ==
  ASSUME NEW X, NEW s \in Seq(X), NEW sp \in Nat \ {0}, NEW size \in Nat, Len(s) = sp * size
  PROVE  IsSliced(Forward!Sliced(s, sp), s, X, sp, size)
<1> DEFINE n == Len(s)
           t == Forward!Sliced(s, sp)
<1>1. n \div sp = size
  <2>1. \A a \in Nat \ {0}, b \in Nat : (a * b) \div a = b
    OBVIOUS
  <2> QED BY <2>1
<1>2. t = [rank \in 1 .. sp |-> SubSeq(s, (rank - 1) * size + 1, rank * size)]
  BY <1>1 DEF Forward!Sliced
<1>3. ASSUME NEW rank \in 1 .. sp
      PROVE  /\ t[rank] \in Seq(X) /\ Len(t[rank]) = size
             /\ \A i \in 1 .. size : t[rank][i] = s[Place(rank, size, i)]
  <2> DEFINE a == (rank - 1) * size
             b == rank * size
  <2>1. a \in Nat /\ b \in Nat /\ b = a + size /\ b <= n
    <3>1. \A x, y, z \in Nat : x <= y => x * z <= y * z /\ x * z \in Nat
      OBVIOUS
    <3>2. rank \in Nat /\ rank - 1 \in Nat /\ rank <= sp /\ rank = (rank - 1) + 1
      OBVIOUS
    <3>3. rank * size <= sp * size /\ a \in Nat /\ b \in Nat
      BY <3>1, <3>2
    <3>4. b = a + size
      BY <3>2
    <3> QED BY <3>3, <3>4
  <2>2. t[rank] = SubSeq(s, a + 1, b)
    BY <1>2
  <2> HIDE DEF a, b, t
  <2>3. a \in 0 .. Len(s) /\ b \in a .. Len(s) /\ b - a = size
    <3>1. n \in Nat
      BY LenProperties
    <3> HIDE DEF n
    <3>2. a \in 0 .. n /\ b \in a .. n /\ b - a = size
      BY <2>1, <3>1
    <3> QED BY <3>2 DEF n
  <2>4. /\ SubSeq(s, a + 1, b) \in Seq(X) /\ Len(SubSeq(s, a + 1, b)) = size
        /\ \A x \in 1 .. size : SubSeq(s, a + 1, b)[x] = s[a + x]
    BY <2>3, PartOfSeq
  <2> QED BY <2>2, <2>4 DEF a, Place
<1> HIDE DEF t
<1>4. t \in [1 .. sp -> Seq(X)]
  BY <1>2, <1>3
<1>5. t \in Seq(Seq(X)) /\ Len(t) = sp
  BY <1>4, FunctionIsSeq, Zenon
<1>6. IsSliced(t, s, X, sp, size)
  BY <1>3, <1>5 DEF IsSliced
<1> QED BY <1>6 DEF t

(* Hidden states on the ranks: of size tokens, width heads each.           *)
AreShards(parts, Y, sp, size, width) ==
  /\ parts \in Seq(Seq(Seq(Y))) /\ Len(parts) = sp
  /\ \A k \in 1 .. sp :
       /\ parts[k] \in Seq(Seq(Y)) /\ Len(parts[k]) = size
       /\ \A i \in 1 .. size : parts[k][i] \in Seq(Y) /\ Len(parts[k][i]) = width
LEMMA ShardsAre ==
  ASSUME NEW Y, NEW sp \in Nat \ {0}, NEW size \in Nat, NEW width \in Nat, NEW parts,
         parts = [k \in 1 .. sp |-> parts[k]],
         \A k \in 1 .. sp :
           /\ parts[k] = [i \in 1 .. size |-> parts[k][i]]
           /\ \A i \in 1 .. size : parts[k][i] \in Seq(Y) /\ Len(parts[k][i]) = width
  PROVE  AreShards(parts, Y, sp, size, width)
<1>1. ASSUME NEW k \in 1 .. sp PROVE parts[k] \in Seq(Seq(Y)) /\ Len(parts[k]) = size
  <2>1. parts[k] \in [1 .. size -> Seq(Y)]
    OBVIOUS
  <2> QED BY <2>1, FunctionIsSeq, Zenon
<1>2. parts \in [1 .. sp -> Seq(Seq(Y))]
  BY <1>1
<1>3. parts \in Seq(Seq(Seq(Y))) /\ Len(parts) = sp
  BY <1>2, FunctionIsSeq, Zenon
<1> QED BY <1>1, <1>3 DEF AreShards

(* gather_seq_scatter_heads: a rank has all the tokens, and its share of   *)
(* the heads.                                                              *)
HeadsScattered(parts, all, sp, size, w) ==
  \A rank \in 1 .. sp : \A from \in 1 .. sp : \A i \in 1 .. size : \A h \in 1 .. w :
    all[rank][Place(from, size, i)][h] = parts[from][i][Place(rank, w, h)]
LEMMA GatheredSeq ==
  ASSUME NEW Y, NEW sp \in Nat \ {0}, NEW size \in Nat \ {0}, NEW w \in Nat, NEW parts,
         AreShards(parts, Y, sp, size, sp * w)
  PROVE  /\ AreShards(Forward!GatherSeqScatterHeads(parts), Y, sp, sp * size, w)
         /\ HeadsScattered(parts, Forward!GatherSeqScatterHeads(parts), sp, size, w)
<1> DEFINE G == Forward!GatherSeqScatterHeads(parts)
           S(from, i) == Forward!Sliced(parts[from][i], sp)
           P(rank) == [from \in 1 .. sp |-> [i \in 1 .. size |-> S(from, i)[rank]]]
<1>1. /\ Len(parts) = sp
      /\ \A from \in 1 .. sp : DOMAIN parts[from] = 1 .. size
  BY LenProperties DEF AreShards
<1>2. G = [rank \in 1 .. sp |-> FlattenSeq(P(rank))]
  <2>1. G = [rank \in 1 .. sp |->
               Forward!FlattenSeq([from \in 1 .. sp |->
                 [i \in DOMAIN parts[from] |-> S(from, i)[rank]]])]
    BY <1>1, Zenon DEF Forward!GatherSeqScatterHeads
  <2>2. ASSUME NEW rank
        PROVE  [from \in 1 .. sp |-> [i \in DOMAIN parts[from] |-> S(from, i)[rank]]] = P(rank)
    <3> HIDE DEF S
    <3> QED BY <1>1
  <2> HIDE DEF S
  <2>3. ASSUME NEW rank \in 1 .. sp
        PROVE  Forward!FlattenSeq([from \in 1 .. sp |->
                 [i \in DOMAIN parts[from] |-> S(from, i)[rank]]]) = FlattenSeq(P(rank))
    BY <2>2, SameOperatorsOfForward, Zenon
  <2> HIDE DEF P, G
  <2> QED BY <2>1, <2>3
<1>3. ASSUME NEW from \in 1 .. sp, NEW i \in 1 .. size
      PROVE  IsSliced(S(from, i), parts[from][i], Y, sp, w)
  <2>1. parts[from][i] \in Seq(Y) /\ Len(parts[from][i]) = sp * w
    BY DEF AreShards
  <2> QED BY <2>1, SlicedBlocks
<1> HIDE DEF S, G
<1>4. ASSUME NEW rank \in 1 .. sp
      PROVE  /\ FlattenSeq(P(rank)) \in Seq(Seq(Y)) /\ Len(FlattenSeq(P(rank))) = sp * size
             /\ \A from \in 1 .. sp : \A i \in 1 .. size :
                  /\ FlattenSeq(P(rank))[Place(from, size, i)] = S(from, i)[rank]
                  /\ S(from, i)[rank] \in Seq(Y) /\ Len(S(from, i)[rank]) = w
                  /\ \A h \in 1 .. w : S(from, i)[rank][h] = parts[from][i][Place(rank, w, h)]
  <2> DEFINE p == P(rank)
  <2>1. ASSUME NEW from \in 1 .. sp, NEW i \in 1 .. size
        PROVE  /\ S(from, i)[rank] \in Seq(Y) /\ Len(S(from, i)[rank]) = w
               /\ \A h \in 1 .. w : S(from, i)[rank][h] = parts[from][i][Place(rank, w, h)]
    BY <1>3 DEF IsSliced
  <2>2. ASSUME NEW from \in 1 .. sp
        PROVE  /\ p[from] \in Seq(Seq(Y)) /\ Len(p[from]) = size
               /\ \A i \in 1 .. size : p[from][i] = S(from, i)[rank]
    <3>1. p[from] \in [1 .. size -> Seq(Y)]
      BY <2>1
    <3>2. p[from] \in Seq(Seq(Y)) /\ Len(p[from]) = size
      BY <3>1, FunctionIsSeq, Zenon
    <3> QED BY <3>2
  <2>3. p \in [1 .. sp -> Seq(Seq(Y))]
    BY <2>2
  <2> HIDE DEF p
  <2>4. p \in Seq(Seq(Seq(Y))) /\ Len(p) = sp
    BY <2>3, FunctionIsSeq, Zenon
  <2> DEFINE X == Seq(Y)
  <2>5. p \in Seq(Seq(X)) /\ \A k \in 1 .. sp : Len(p[k]) = size
    BY <2>2, <2>4
  <2> HIDE DEF X
  <2>6. EqualBlocks(FlattenSeq(p), p, X, sp, size)
    BY <2>4, <2>5, FlattenEqualBlocks
  <2>7. FlattenSeq(p) \in Seq(X) /\ Len(FlattenSeq(p)) = sp * size
    BY <2>6 DEF EqualBlocks
  <2>8. ASSUME NEW from \in 1 .. sp, NEW i \in 1 .. size
        PROVE  FlattenSeq(p)[Place(from, size, i)] = S(from, i)[rank]
    BY <2>2, <2>6 DEF EqualBlocks
  <2> QED BY <2>1, <2>7, <2>8 DEF p, X
<1> HIDE DEF P
<1>5. \A rank \in 1 .. sp : G[rank] = FlattenSeq(P(rank))
  BY <1>2
<1>6. HeadsScattered(parts, G, sp, size, w)
  <2>1. ASSUME NEW rank \in 1 .. sp, NEW from \in 1 .. sp, NEW i \in 1 .. size, NEW h \in 1 .. w
        PROVE  G[rank][Place(from, size, i)][h] = parts[from][i][Place(rank, w, h)]
    <3>1. FlattenSeq(P(rank))[Place(from, size, i)] = S(from, i)[rank]
      BY <1>4
    <3>2. S(from, i)[rank][h] = parts[from][i][Place(rank, w, h)]
      BY <1>4
    <3> QED BY <1>5, <3>1, <3>2
  <2> QED BY <2>1 DEF HeadsScattered
<1>7. AreShards(G, Y, sp, sp * size, w)
  <2>1. sp * size \in Nat
    OBVIOUS
  <2>2. G = [rank \in 1 .. sp |-> G[rank]]
    BY <1>2
  <2>3. ASSUME NEW k \in 1 .. sp
        PROVE  /\ G[k] = [j \in 1 .. sp * size |-> G[k][j]]
               /\ \A j \in 1 .. sp * size : G[k][j] \in Seq(Y) /\ Len(G[k][j]) = w
    <3>1. G[k] \in Seq(Seq(Y)) /\ Len(G[k]) = sp * size
      BY <1>4, <1>5
    <3>2. G[k] = [j \in 1 .. sp * size |-> G[k][j]]
      BY <3>1, LenProperties
    <3>3. ASSUME NEW j \in 1 .. sp * size PROVE G[k][j] \in Seq(Y) /\ Len(G[k][j]) = w
      <4>1. PICK from \in 1 .. sp : \E i \in 1 .. size : j = Place(from, size, i)
        BY HasPlace
      <4>3. PICK i \in 1 .. size : j = Place(from, size, i)
        BY <4>1
      <4>2. G[k][j] = S(from, i)[k]
        <5>1. FlattenSeq(P(k))[Place(from, size, i)] = S(from, i)[k]
          BY <1>4
        <5> QED BY <1>5, <4>3, <5>1
      <4>4. S(from, i)[k] \in Seq(Y) /\ Len(S(from, i)[k]) = w
        BY <1>4, Zenon
      <4> QED BY <4>2, <4>4, Zenon
    <3> QED BY <3>2, <3>3
  <2> QED BY <2>1, <2>2, <2>3, ShardsAre
<1> QED BY <1>6, <1>7 DEF G

(* gather_heads_scatter_seq: a rank has its share of the tokens, and all   *)
(* the heads.                                                              *)
SeqScattered(parts, own, sp, size, w) ==
  \A rank \in 1 .. sp : \A i \in 1 .. size : \A from \in 1 .. sp : \A h \in 1 .. w :
    own[rank][i][Place(from, w, h)] = parts[from][Place(rank, size, i)][h]
LEMMA GatheredHeads ==
  ASSUME NEW Y, NEW sp \in Nat \ {0}, NEW size \in Nat, NEW w \in Nat, NEW parts,
         AreShards(parts, Y, sp, sp * size, w)
  PROVE  /\ AreShards(Forward!GatherHeadsScatterSeq(parts), Y, sp, size, sp * w)
         /\ SeqScattered(parts, Forward!GatherHeadsScatterSeq(parts), sp, size, w)
<1> DEFINE R == Forward!GatherHeadsScatterSeq(parts)
           S(from) == Forward!Sliced(parts[from], sp)
           P(rank, i) == [from \in 1 .. sp |-> S(from)[rank][i]]
<1>1. Len(parts) = sp
  BY DEF AreShards
<1>2. ASSUME NEW from \in 1 .. sp PROVE IsSliced(S(from), parts[from], Seq(Y), sp, size)
  <2>1. parts[from] \in Seq(Seq(Y)) /\ Len(parts[from]) = sp * size
    BY DEF AreShards
  <2> QED BY <2>1, SlicedBlocks
<1>3. ASSUME NEW from \in 1 .. sp, NEW rank \in 1 .. sp
      PROVE  /\ DOMAIN S(from)[rank] = 1 .. size
             /\ \A i \in 1 .. size :
                  /\ S(from)[rank][i] = parts[from][Place(rank, size, i)]
                  /\ S(from)[rank][i] \in Seq(Y) /\ Len(S(from)[rank][i]) = w
  <2> HIDE DEF S
  <2>1. /\ S(from)[rank] \in Seq(Seq(Y)) /\ Len(S(from)[rank]) = size
        /\ \A i \in 1 .. size : S(from)[rank][i] = parts[from][Place(rank, size, i)]
    BY <1>2 DEF IsSliced
  <2>2. DOMAIN S(from)[rank] = 1 .. size
    BY <2>1, LenProperties
  <2>3. ASSUME NEW i \in 1 .. size
        PROVE  S(from)[rank][i] \in Seq(Y) /\ Len(S(from)[rank][i]) = w
    <3>1. Place(rank, size, i) \in 1 .. sp * size
      BY PlaceInside
    <3>2. S(from)[rank][i] = parts[from][Place(rank, size, i)]
      BY <2>1
    <3> DEFINE j == Place(rank, size, i)
    <3> HIDE DEF j
    <3>3. j \in 1 .. sp * size
      BY <3>1 DEF j
    <3>4. parts[from][j] \in Seq(Y) /\ Len(parts[from][j]) = w
      BY <3>3 DEF AreShards
    <3> QED BY <3>2, <3>4 DEF j
  <2> QED BY <2>1, <2>2, <2>3
<1>4. R = [rank \in 1 .. sp |-> [i \in 1 .. size |-> FlattenSeq(P(rank, i))]]
  <2>1. R = [rank \in 1 .. sp |->
               [i \in DOMAIN S(rank)[rank] |->
                  Forward!FlattenSeq([from \in 1 .. sp |-> S(from)[rank][i]])]]
    BY <1>1, Zenon DEF Forward!GatherHeadsScatterSeq
  <2> HIDE DEF S
  <2>2. \A rank \in 1 .. sp : DOMAIN S(rank)[rank] = 1 .. size
    BY <1>3
  <2>3. \A rank, i : Forward!FlattenSeq([from \in 1 .. sp |-> S(from)[rank][i]])
                       = FlattenSeq(P(rank, i))
    BY SameOperatorsOfForward, Zenon
  <2> HIDE DEF P, R
  <2> QED BY <2>1, <2>2, <2>3
<1> HIDE DEF S, R
<1>5. ASSUME NEW rank \in 1 .. sp, NEW i \in 1 .. size
      PROVE  /\ FlattenSeq(P(rank, i)) \in Seq(Y) /\ Len(FlattenSeq(P(rank, i))) = sp * w
             /\ \A from \in 1 .. sp : \A h \in 1 .. w :
                  FlattenSeq(P(rank, i))[Place(from, w, h)]
                    = parts[from][Place(rank, size, i)][h]
  <2> DEFINE p == P(rank, i)
  <2>1. \A from \in 1 .. sp :
          /\ p[from] = parts[from][Place(rank, size, i)]
          /\ p[from] \in Seq(Y) /\ Len(p[from]) = w
    BY <1>3
  <2>2. p \in [1 .. sp -> Seq(Y)]
    BY <2>1
  <2> HIDE DEF p
  <2>3. p \in Seq(Seq(Y)) /\ Len(p) = sp
    BY <2>2, FunctionIsSeq, Zenon
  <2>4. EqualBlocks(FlattenSeq(p), p, Y, sp, w)
    <3>1. \A k \in 1 .. sp : Len(p[k]) = w
      BY <2>1
    <3> QED BY <2>3, <3>1, FlattenEqualBlocks
  <2>5. FlattenSeq(p) \in Seq(Y) /\ Len(FlattenSeq(p)) = sp * w
    BY <2>4 DEF EqualBlocks
  <2>6. ASSUME NEW from \in 1 .. sp, NEW h \in 1 .. w
        PROVE  FlattenSeq(p)[Place(from, w, h)] = parts[from][Place(rank, size, i)][h]
    <3>1. FlattenSeq(p)[Place(from, w, h)] = p[from][h]
      BY <2>4 DEF EqualBlocks
    <3> QED BY <2>1, <3>1
  <2> QED BY <2>5, <2>6 DEF p
<1> HIDE DEF P
<1>6. \A rank \in 1 .. sp : \A i \in 1 .. size : R[rank][i] = FlattenSeq(P(rank, i))
  BY <1>4
<1>7. SeqScattered(parts, R, sp, size, w)
  BY <1>5, <1>6 DEF SeqScattered
<1>8. AreShards(R, Y, sp, size, sp * w)
  <2>1. sp * w \in Nat
    OBVIOUS
  <2>2. /\ R = [rank \in 1 .. sp |-> R[rank]]
        /\ \A k \in 1 .. sp : R[k] = [i \in 1 .. size |-> R[k][i]]
    BY <1>4
  <2>3. ASSUME NEW k \in 1 .. sp, NEW i \in 1 .. size
        PROVE  R[k][i] \in Seq(Y) /\ Len(R[k][i]) = sp * w
    <3>1. FlattenSeq(P(k, i)) \in Seq(Y) /\ Len(FlattenSeq(P(k, i))) = sp * w
      BY <1>5
    <3> QED BY <1>6, <3>1
  <2> QED BY <2>1, <2>2, <2>3, ShardsAre
<1> QED BY <1>7, <1>8 DEF R


(* The heads: each rank has wq of the queries and wk of the keys, which    *)
(* are repeated so often that it has one at least, and g queries look at   *)
(* one key.                                                                *)
HeadsFit(sp, q, k) ==
  /\ sp \in Nat \ {0} /\ q \in Nat \ {0} /\ k \in Nat \ {0}
  /\ q % sp = 0 /\ q % k = 0 /\ (k % sp = 0 \/ sp % k = 0)
HeadsShared(sp, q, k, times, wq, wk, g) ==
  /\ times \in Nat \ {0} /\ wq \in Nat \ {0} /\ wk \in Nat \ {0} /\ g \in Nat \ {0}
  /\ times = Max({sp \div k, 1})
  /\ q = sp * wq /\ k * times = sp * wk /\ wq = wk * g /\ wq \div wk = g
  /\ q \div k = g * times
LEMMA Divides2 ==
  ASSUME NEW a \in Nat \ {0}, NEW b \in Nat \ {0}, a % b = 0
  PROVE  a \div b \in Nat \ {0} /\ a = b * (a \div b)
<1> DEFINE d == a \div b
<1>1. d \in Nat /\ a = b * d
  <2>1. \A x \in Nat, y \in Nat \ {0} : x \div y \in Nat /\ x = y * (x \div y) + (x % y)
    OBVIOUS
  <2>2. d \in Nat /\ a = b * d + (a % b)
    BY <2>1
  <2> HIDE DEF d
  <2> QED BY <2>2
<1> HIDE DEF d
<1>2. d # 0
  <2> SUFFICES ASSUME d = 0 PROVE FALSE
    OBVIOUS
  <2>1. b * d = 0
    OBVIOUS
  <2> QED BY <1>1, <2>1
<1> QED BY <1>1, <1>2 DEF d
LEMMA DivExact ==
  ASSUME NEW a \in Nat, NEW b \in Nat \ {0}
  PROVE  (b * a) \div b = a
OBVIOUS
LEMMA HeadsAreShared ==
  ASSUME NEW sp, NEW q, NEW k, HeadsFit(sp, q, k)
  PROVE  \E times, wq, wk, g : HeadsShared(sp, q, k, times, wq, wk, g)
<1> DEFINE wq == q \div sp
           b == q \div k
<1>1. sp \in Nat \ {0} /\ q \in Nat \ {0} /\ k \in Nat \ {0}
  BY DEF HeadsFit
<1>2. wq \in Nat \ {0} /\ q = sp * wq /\ b \in Nat \ {0} /\ q = k * b
  BY <1>1, Divides2 DEF HeadsFit
<1> HIDE DEF wq
<1>3. CASE sp % k = 0
  <2> DEFINE m == sp \div k
  <2>1. m \in Nat \ {0} /\ sp = k * m
    BY <1>1, <1>3, Divides2
  <2> HIDE DEF m
  <2>2. Max({m, 1}) = m
    BY <2>1, MaxOfTwo
  <2>3. k * m = sp * 1 /\ wq = 1 * wq /\ wq \div 1 = wq
    BY <1>1, <1>2, <2>1
  <2>4. b = wq * m
    <3> HIDE DEF b
    <3>1. \A x, y, z \in Nat : (x * y) * z = x * (z * y)
      OBVIOUS
    <3>2. k * b = k * (wq * m)
      BY <1>1, <1>2, <2>1, <3>1
    <3>3. wq * m \in Nat
      BY <1>2, <2>1
    <3>4. \A x \in Nat \ {0}, y, z \in Nat : x * y = x * z => y = z
      OBVIOUS
    <3> QED BY <1>1, <1>2, <3>2, <3>3, <3>4
  <2>5. HeadsShared(sp, q, k, m, wq, 1, wq)
    BY <1>1, <1>2, <2>1, <2>2, <2>3, <2>4 DEF HeadsShared, m
  <2> QED BY <2>5
<1>4. CASE k % sp = 0
  <2> DEFINE m == k \div sp
  <2>1. m \in Nat \ {0} /\ k = sp * m
    BY <1>1, <1>4, Divides2
  <2> HIDE DEF m
  <2>2. Max({sp \div k, 1}) = 1
    <3>1. sp <= k
      <4>1. \A x, y \in Nat \ {0} : x <= x * y
        OBVIOUS
      <4> QED BY <1>1, <2>1, <4>1
    <3>2. \A x, y \in Nat \ {0} : x <= y => x \div y \in 0 .. 1
      OBVIOUS
    <3>3. sp \div k \in Int /\ sp \div k <= 1
      BY <1>1, <3>1, <3>2
    <3> QED BY <3>3, MaxOfTwo
  <2>3. k * 1 = sp * m /\ b * 1 = b
    BY <1>1, <1>2, <2>1
  <2>4. wq = m * b
    <3> HIDE DEF b
    <3>1. \A x, y, z \in Nat : (x * y) * z = x * (y * z)
      OBVIOUS
    <3>2. sp * wq = sp * (m * b)
      BY <1>1, <1>2, <2>1, <3>1
    <3>3. m * b \in Nat
      BY <1>2, <2>1
    <3>4. \A x \in Nat \ {0}, y, z \in Nat : x * y = x * z => y = z
      OBVIOUS
    <3> QED BY <1>1, <1>2, <3>2, <3>3, <3>4
  <2>5. wq \div m = b
    <3> HIDE DEF b
    <3> QED BY <1>2, <2>1, <2>4, DivExact
  <2>6. 1 \in Nat \ {0}
    OBVIOUS
  <2>7. HeadsShared(sp, q, k, 1, wq, m, b)
    BY <1>1, <1>2, <2>1, <2>2, <2>3, <2>4, <2>5, <2>6 DEF HeadsShared
  <2> QED BY <2>7
<1> QED BY <1>3, <1>4 DEF HeadsFit

(* The key head that a query head of a rank looks at is, of all repeated   *)
(* heads, one of the key head of its group.                                *)
LEMMA KeyOfQuery ==
  ASSUME NEW sp, NEW q, NEW k, NEW times, NEW wq, NEW wk, NEW g,
         HeadsShared(sp, q, k, times, wq, wk, g), NEW rank \in Nat \ {0}, NEW h \in 1 .. wq
  PROVE  LET v == ((h - 1) \div g) + 1
         IN  /\ v \in 1 .. wk
             /\ ((Place(rank, wk, v) - 1) \div times) + 1
                  = ((Place(rank, wq, h) - 1) \div (q \div k)) + 1
<1> DEFINE d == (h - 1) \div g
           e == (h - 1) % g
           c == rank - 1
<1>1. /\ times \in Nat \ {0} /\ wq \in Nat /\ wk \in Nat /\ g \in Nat \ {0}
      /\ wq = wk * g /\ q \div k = g * times /\ c \in Nat
  BY DEF HeadsShared
<1>2. h \in 1 .. wk * g
  BY <1>1
<1>3. d + 1 \in 1 .. wk /\ e + 1 \in 1 .. g /\ h = Place(d + 1, g, e + 1)
  BY <1>1, <1>2, InBlock
<1>9. d \in Int /\ e \in Int
  BY <1>1
<1> HIDE DEF d, e
<1>4. d \in Nat /\ e \in 0 .. g - 1 /\ h = d * g + e + 1
  <2>1. (d + 1) - 1 = d /\ d \in Nat /\ e \in 0 .. g - 1
    BY <1>1, <1>3, <1>9
  <2>2. d * g \in Nat
    BY <1>1, <2>1
  <2> QED BY <1>3, <2>1, <2>2 DEF Place
<1> HIDE DEF c
<1> DEFINE x == c * wk + d
<1>5. x \in Nat /\ Place(rank, wk, d + 1) - 1 = x
  <2>1. c * wk \in Nat
    BY <1>1
  <2> QED BY <1>4, <2>1 DEF Place, c
<1>6. Place(rank, wq, h) - 1 = x * g + e
  <2>1. \A r, s, t, u \in Nat : r * (s * t) + u * t = (r * s + u) * t
    OBVIOUS
  <2>2. c * (wk * g) + d * g = x * g
    BY <1>1, <1>4, <2>1
  <2>3. c * wq \in Nat /\ d * g \in Nat
    BY <1>1, <1>4
  <2>4. Place(rank, wq, h) = c * wq + (d * g + e + 1)
    BY <1>4 DEF Place, c
  <2> HIDE DEF x
  <2> QED BY <1>1, <1>4, <1>5, <2>2, <2>3, <2>4
<1> HIDE DEF x
<1>7. (x * g + e) \div g = x
  <2>1. \A r \in Nat, s \in Nat \ {0}, t \in Nat : t < s => (r * s + t) \div s = r
    OBVIOUS
  <2> QED BY <1>1, <1>4, <1>5, <2>1
<1>8. x \div times = (x * g + e) \div (g * times)
  <2>1. \A r \in Nat, s, t \in Nat \ {0} : (r \div s) \div t = r \div (s * t)
    <3>1. ASSUME NEW r \in Nat, NEW s \in Nat \ {0}, NEW t \in Nat \ {0}
          PROVE  (r \div s) \div t = r \div (s * t)
      <4> DEFINE a == r \div s
                 b == a \div t
      <4>1. a \in Nat /\ r - s * a \in 0 .. s - 1
        <5>1. a \in Nat /\ r = s * a + (r % s) /\ r % s \in 0 .. s - 1
          OBVIOUS
        <5> HIDE DEF a
        <5>2. s * a \in Nat
          BY <5>1
        <5> QED BY <5>1, <5>2
      <4> HIDE DEF a
      <4>2. b \in Nat /\ a - t * b \in 0 .. t - 1
        <5>1. b \in Nat /\ a = t * b + (a % t) /\ a % t \in 0 .. t - 1
          BY <4>1
        <5> HIDE DEF b
        <5>2. t * b \in Nat
          BY <5>1
        <5> QED BY <5>1, <5>2, <4>1
      <4> HIDE DEF b
      <4> DEFINE z == a - t * b
                 y == r - s * a
                 w == s * z + y
      <4>3. z \in 0 .. t - 1 /\ y \in 0 .. s - 1
        BY <4>1, <4>2
      <4>4. a = t * b + z /\ r = s * a + y
        <5>1. t * b \in Nat /\ s * a \in Nat
          BY <4>1, <4>2
        <5> QED BY <4>1, <5>1
      <4> HIDE DEF z, y
      <4>5. r = b * (s * t) + w
        <5>1. s * (t * b + z) = b * (s * t) + s * z
          BY <4>2, <4>3
        <5>2. b * (s * t) \in Nat /\ s * z \in Nat
          BY <4>2, <4>3
        <5> QED BY <4>3, <4>4, <5>1, <5>2
      <4>6. w \in Nat /\ w < s * t
        <5>1. s * z <= s * (t - 1) /\ s * (t - 1) = s * t - s /\ s * z \in Nat /\ s * t \in Nat
          BY <4>3
        <5> QED BY <4>3, <5>1
      <4> HIDE DEF w
      <4>7. s * t \in Nat \ {0}
        OBVIOUS
      <4>8. \A i \in Nat, m \in Nat \ {0}, n \in Nat : n < m => (i * m + n) \div m = i
        OBVIOUS
      <4>9. r \div (s * t) = b
        <5> DEFINE m == s * t
        <5>1. m \in Nat \ {0} /\ w < m /\ r = b * m + w
          BY <4>5, <4>6, <4>7
        <5> HIDE DEF m
        <5>2. r \div m = b
          BY <4>2, <4>6, <4>8, <5>1
        <5> QED BY <5>2 DEF m
      <4> QED BY <4>9 DEF a, b
    <3> QED BY <3>1
  <2> DEFINE r == x * g + e
  <2>2. r \in Nat
    <3>1. x * g \in Nat
      BY <1>1, <1>5
    <3> QED BY <1>1, <1>4, <3>1
  <2> HIDE DEF r
  <2>3. (r \div g) \div times = r \div (g * times)
    BY <1>1, <2>1, <2>2
  <2> QED BY <1>7, <2>3 DEF r
<1> QED BY <1>1, <1>3, <1>5, <1>6, <1>8 DEF d


(* Attention over the whole sequence: what each head of the jth token is   *)
(* computed from, as if there were one rank.                               *)
PositionsOf(P) == [i \in DOMAIN P |-> P[i].position]
HiddenOf(P, q, k, j) ==
  [h \in 1 .. q |->
     [of |-> [tok |-> P[j].tok, head |-> h],
      to |-> {[tok |-> P[x].tok, head |-> ((h - 1) \div (q \div k)) + 1] :
               x \in Forward!Begins(PositionsOf(P), j) .. j}]]

(* A sequence starts before, or at, each of its tokens.                    *)
LEMMA BeginsBefore ==
  ASSUME NEW n \in Nat, NEW positions, positions[1] = 0, NEW j \in 1 .. n
  PROVE  LET b == Forward!Begins(positions, j)
         IN  /\ b \in 1 .. j /\ b .. j \subseteq 1 .. n /\ positions[b] = 0
             /\ \A i \in 1 .. j : positions[i] = 0 => i <= b
<1> DEFINE S == {i \in 1 .. j : positions[i] = 0}
<1>1. Forward!Begins(positions, j) = Max(S)
  BY SameOperatorsOfForward DEF Forward!Begins
<1>2. S \in SUBSET (1 .. j) /\ S # {} /\ S \in SUBSET Int
  <2>1. 1 \in S
    OBVIOUS
  <2> QED BY <2>1
<1>3. IsFiniteSet(S)
  <2>1. IsFiniteSet(1 .. j)
    BY FirstNumbers
  <2> HIDE DEF S
  <2> QED BY <1>2, <2>1, FS_Subset
<1> DEFINE b == Max(S)
<1>4. b \in S /\ \A y \in S : y <= b
  <2> HIDE DEF S
  <2> QED BY <1>2, <1>3, MaxOfSet
<1> HIDE DEF b
<1> QED BY <1>1, <1>4 DEF b

(* The heads of the tokens of each rank, before they are exchanged.        *)
HeadsOfTokens(parts, P, sp, size, width, times) ==
  \A from \in 1 .. sp : \A i \in 1 .. size : \A h \in 1 .. width :
    parts[from][i][h] = [tok |-> P[Place(from, size, i)].tok, head |-> ((h - 1) \div times) + 1]
(* And when each rank has its share of them.                               *)
HeadsOfRanks(all, P, sp, n, width, times) ==
  \A rank \in 1 .. sp : \A j \in 1 .. n : \A h \in 1 .. width :
    all[rank][j][h] = [tok |-> P[j].tok,
                       head |-> ((Place(rank, width, h) - 1) \div times) + 1]
LEMMA HeadsExchanged ==
  ASSUME NEW Y, NEW sp \in Nat \ {0}, NEW size \in Nat \ {0}, NEW w \in Nat \ {0}, NEW times,
         NEW parts, NEW P, AreShards(parts, Y, sp, size, sp * w),
         HeadsOfTokens(parts, P, sp, size, sp * w, times)
  PROVE  /\ AreShards(Forward!GatherSeqScatterHeads(parts), Y, sp, sp * size, w)
         /\ HeadsOfRanks(Forward!GatherSeqScatterHeads(parts), P, sp, sp * size, w, times)
<1> DEFINE G == Forward!GatherSeqScatterHeads(parts)
<1>1. AreShards(G, Y, sp, sp * size, w) /\ HeadsScattered(parts, G, sp, size, w)
  BY GatheredSeq
<1> HIDE DEF G
<1>2. ASSUME NEW rank \in 1 .. sp, NEW j \in 1 .. sp * size, NEW h \in 1 .. w
      PROVE  G[rank][j][h] = [tok |-> P[j].tok,
                              head |-> ((Place(rank, w, h) - 1) \div times) + 1]
  <2>1. PICK from \in 1 .. sp : \E i \in 1 .. size : j = Place(from, size, i)
    BY HasPlace
  <2>2. PICK i \in 1 .. size : j = Place(from, size, i)
    BY <2>1
  <2>3. G[rank][j][h] = parts[from][i][Place(rank, w, h)]
    BY <1>1, <2>2 DEF HeadsScattered
  <2> DEFINE H == Place(rank, w, h)
  <2>4. H \in 1 .. sp * w
    BY PlaceInside
  <2> HIDE DEF H
  <2>5. parts[from][i][H] = [tok |-> P[j].tok, head |-> ((H - 1) \div times) + 1]
    BY <2>2, <2>4 DEF HeadsOfTokens
  <2> QED BY <2>3, <2>5 DEF H
<1>3. HeadsOfRanks(G, P, sp, sp * size, w, times)
  BY <1>2 DEF HeadsOfRanks
<1> QED BY <1>1, <1>3 DEF G


HeadsOf(part, n) ==
  [i \in DOMAIN part |-> [h \in 1 .. n |-> [tok |-> part[i].tok, head |-> h]]]
QueriesOf(parts, sp, q) == [r \in 1 .. sp |-> HeadsOf(parts[r], q)]
KeysOf(parts, sp, k) ==
  [r \in 1 .. sp |->
     [i \in DOMAIN HeadsOf(parts[r], k) |-> Forward!RepeatedKv(HeadsOf(parts[r], k)[i], sp)]]
HeadSet(P) == [tok : {P[j].tok : j \in 1 .. Len(P)}, head : Nat]

(* Where a rank's tokens are among all of them.                            *)
HoldsTokens(part, P, r, size) ==
  /\ DOMAIN part = 1 .. size
  /\ \A i \in 1 .. size :
       /\ part[i] = P[Place(r, size, i)]
       /\ P[Place(r, size, i)].tok \in {P[j].tok : j \in 1 .. Len(P)}
LEMMA TokensOfRank ==
  ASSUME NEW X, NEW P \in Seq(X), NEW sp \in Nat \ {0}, NEW size \in Nat, Len(P) = sp * size,
         NEW parts, IsSliced(parts, P, X, sp, size), NEW r \in 1 .. sp
  PROVE  HoldsTokens(parts[r], P, r, size)
<1>1. parts[r] \in Seq(X) /\ Len(parts[r]) = size
  BY DEF IsSliced
<1>2. DOMAIN parts[r] = 1 .. size
  BY <1>1, LenProperties
<1>3. ASSUME NEW i \in 1 .. size
      PROVE  /\ parts[r][i] = P[Place(r, size, i)]
             /\ P[Place(r, size, i)].tok \in {P[j].tok : j \in 1 .. Len(P)}
  <2> DEFINE j == Place(r, size, i)
  <2>1. j \in 1 .. sp * size
    BY PlaceInside
  <2>2. parts[r][i] = P[j]
    BY DEF IsSliced
  <2> HIDE DEF j
  <2>3. P[j].tok \in {P[y].tok : y \in 1 .. Len(P)}
    BY <2>1
  <2> QED BY <2>2, <2>3 DEF j
<1> QED BY <1>2, <1>3 DEF HoldsTokens

LEMMA QueryShards ==
  ASSUME NEW X, NEW P \in Seq(X), NEW sp \in Nat \ {0}, NEW size \in Nat, Len(P) = sp * size,
         NEW parts, IsSliced(parts, P, X, sp, size), NEW q \in Nat
  PROVE  /\ AreShards(QueriesOf(parts, sp, q), HeadSet(P), sp, size, q)
         /\ HeadsOfTokens(QueriesOf(parts, sp, q), P, sp, size, q, 1)
<1> DEFINE G == QueriesOf(parts, sp, q)
           Y == HeadSet(P)
<1>0. \A r \in 1 .. sp : HoldsTokens(parts[r], P, r, size)
  BY TokensOfRank
<1>1. ASSUME NEW r \in 1 .. sp
      PROVE  /\ G[r] = [i \in 1 .. size |->
                          [h \in 1 .. q |-> [tok |-> P[Place(r, size, i)].tok, head |-> h]]]
             /\ G[r] = [i \in 1 .. size |-> G[r][i]]
  <2>1. G[r] = HeadsOf(parts[r], q)
    BY DEF QueriesOf
  <2>2. /\ DOMAIN parts[r] = 1 .. size
        /\ \A i \in 1 .. size : parts[r][i] = P[Place(r, size, i)]
    BY <1>0 DEF HoldsTokens
  <2>3. HeadsOf(parts[r], q)
          = [i \in 1 .. size |->
               [h \in 1 .. q |-> [tok |-> P[Place(r, size, i)].tok, head |-> h]]]
    BY <2>2 DEF HeadsOf
  <2> HIDE DEF G
  <2> QED BY <2>1, <2>3
<1>2. G = [r \in 1 .. sp |-> G[r]]
  BY DEF QueriesOf
<1> HIDE DEF G
<1>3. ASSUME NEW r \in 1 .. sp, NEW i \in 1 .. size
      PROVE  /\ G[r][i] \in Seq(Y) /\ Len(G[r][i]) = q
             /\ \A h \in 1 .. q :
                  G[r][i][h] = [tok |-> P[Place(r, size, i)].tok, head |-> ((h - 1) \div 1) + 1]
  <2> DEFINE t == P[Place(r, size, i)].tok
  <2>1. t \in {P[j].tok : j \in 1 .. Len(P)}
    BY <1>0 DEF HoldsTokens
  <2>2. G[r][i] = [h \in 1 .. q |-> [tok |-> t, head |-> h]]
    BY <1>1
  <2> HIDE DEF t
  <2>3. G[r][i] \in [1 .. q -> Y]
    BY <2>1, <2>2 DEF HeadSet
  <2>4. G[r][i] \in Seq(Y) /\ Len(G[r][i]) = q
    BY <2>3, FunctionIsSeq, Zenon
  <2>5. \A h \in 1 .. q : ((h - 1) \div 1) + 1 = h
    OBVIOUS
  <2> QED BY <2>2, <2>4, <2>5 DEF t
<1> HIDE DEF Y
<1>4. AreShards(G, Y, sp, size, q)
  BY <1>1, <1>2, <1>3, ShardsAre
<1>5. HeadsOfTokens(G, P, sp, size, q, 1)
  BY <1>3 DEF HeadsOfTokens
<1> QED BY <1>4, <1>5 DEF G, Y

LEMMA KeyShards ==
  ASSUME NEW X, NEW P \in Seq(X), NEW sp \in Nat \ {0}, NEW size \in Nat, Len(P) = sp * size,
         NEW parts, IsSliced(parts, P, X, sp, size), NEW k \in Nat \ {0},
         NEW times \in Nat \ {0}, times = Max({sp \div k, 1})
  PROVE  /\ AreShards(KeysOf(parts, sp, k), HeadSet(P), sp, size, k * times)
         /\ HeadsOfTokens(KeysOf(parts, sp, k), P, sp, size, k * times, times)
<1> DEFINE G == KeysOf(parts, sp, k)
           Y == HeadSet(P)
           n == k * times
<1>0. n \in Nat
  OBVIOUS
<1>10. \A r \in 1 .. sp : HoldsTokens(parts[r], P, r, size)
  BY TokensOfRank
<1>1. ASSUME NEW r \in 1 .. sp
      PROVE  G[r] = [i \in 1 .. size |-> Forward!RepeatedKv(HeadsOf(parts[r], k)[i], sp)]
  <2>1. DOMAIN parts[r] = 1 .. size
    BY <1>10 DEF HoldsTokens
  <2>2. DOMAIN HeadsOf(parts[r], k) = 1 .. size
    BY <2>1 DEF HeadsOf
  <2> QED BY <2>2 DEF KeysOf
<1>2. /\ G = [r \in 1 .. sp |-> G[r]]
      /\ \A r \in 1 .. sp : G[r] = [i \in 1 .. size |-> G[r][i]]
  <2>1. G = [r \in 1 .. sp |-> G[r]]
    BY DEF KeysOf
  <2> HIDE DEF G
  <2> QED BY <1>1, <2>1
<1> HIDE DEF G
<1>3. ASSUME NEW r \in 1 .. sp, NEW i \in 1 .. size
      PROVE  /\ G[r][i] \in Seq(Y) /\ Len(G[r][i]) = n
             /\ \A h \in 1 .. n :
                  G[r][i][h] = [tok |-> P[Place(r, size, i)].tok,
                                head |-> ((h - 1) \div times) + 1]
  <2> DEFINE t == P[Place(r, size, i)].tok
             s == [h \in 1 .. k |-> [tok |-> t, head |-> h]]
  <2>1. t \in {P[j].tok : j \in 1 .. Len(P)}
    BY <1>10 DEF HoldsTokens
  <2>2. HeadsOf(parts[r], k)[i] = s
    <3>1. DOMAIN parts[r] = 1 .. size /\ parts[r][i] = P[Place(r, size, i)]
      BY <1>10 DEF HoldsTokens
    <3> QED BY <3>1 DEF HeadsOf
  <2>3. G[r][i] = Forward!RepeatedKv(s, sp)
    <3> HIDE DEF s
    <3> QED BY <1>1, <2>2
  <2> HIDE DEF t
  <2>4. Len(s) = k
    <3>1. s \in [1 .. k -> Y]
      BY <2>1 DEF HeadSet
    <3> HIDE DEF s
    <3> QED BY <3>1, FunctionIsSeq
  <2>5. G[r][i] = [h \in 1 .. n |-> s[((h - 1) \div times) + 1]]
    <3> HIDE DEF s
    <3> QED BY <2>3, <2>4, SameOperatorsOfForward DEF Forward!RepeatedKv
  <2>6. \A h \in 1 .. n : ((h - 1) \div times) + 1 \in 1 .. k
    BY InBlock
  <2>7. \A h \in 1 .. n : G[r][i][h] = [tok |-> t, head |-> ((h - 1) \div times) + 1]
    BY <2>5, <2>6
  <2>8. G[r][i] \in [1 .. n -> Y]
    <3> DEFINE K(h) == ((h - 1) \div times) + 1
    <3>1. ASSUME NEW h \in 1 .. n PROVE G[r][i][h] \in Y
      <4>1. K(h) \in 1 .. k
        BY <2>6
      <4>2. G[r][i][h] = [tok |-> t, head |-> K(h)]
        BY <2>7
      <4> HIDE DEF K
      <4>3. K(h) \in Nat
        BY <4>1
      <4> QED BY <2>1, <4>2, <4>3 DEF HeadSet
    <3>2. G[r][i] = [h \in 1 .. n |-> G[r][i][h]]
      BY <2>5
    <3> HIDE DEF n, Y
    <3> QED BY <3>1, <3>2
  <2>9. G[r][i] \in Seq(Y) /\ Len(G[r][i]) = n
    <3> HIDE DEF n, Y
    <3> QED BY <1>0, <2>8, FunctionIsSeq, Zenon
  <2> QED BY <2>7, <2>9 DEF t
<1> HIDE DEF Y, n
<1>4. AreShards(G, Y, sp, size, n)
  BY <1>0, <1>2, <1>3, ShardsAre
<1>5. HeadsOfTokens(G, P, sp, size, n, times)
  BY <1>3 DEF HeadsOfTokens
<1> QED BY <1>4, <1>5 DEF G, Y, n


(* What a rank computes, for its share of the heads.                       *)
HeadAttended(queries, keys, positions, g, i, h) ==
  [of |-> queries[i][h],
   to |-> {keys[j][((h - 1) \div g) + 1] : j \in Forward!Begins(positions, i) .. i}]
AttendedOf(queries, keys, positions, m, wq, g) ==
  [i \in 1 .. m |-> [h \in 1 .. wq |-> HeadAttended(queries, keys, positions, g, i, h)]]
LEMMA AttentionOfRank ==
  ASSUME NEW Y, NEW m \in Nat, NEW wq \in Nat, NEW wk \in Nat,
         NEW queries \in Seq(Seq(Y)), NEW keys, NEW positions, Len(queries) = m,
         \A i \in 1 .. m : queries[i] \in Seq(Y) /\ Len(queries[i]) = wq,
         \A i \in 1 .. m : Len(keys[i]) = wk
  PROVE  Forward!Attention(queries, keys, positions)
           = AttendedOf(queries, keys, positions, m, wq, wq \div wk)
<1>1. DOMAIN queries = 1 .. m
  BY LenProperties
<1>2. \A i \in 1 .. m : DOMAIN queries[i] = 1 .. wq
  BY LenProperties
<1>3. Forward!Attention(queries, keys, positions)
        = [i \in 1 .. m |-> [h \in DOMAIN queries[i] |->
             [of |-> queries[i][h],
              to |-> {keys[j][((h - 1) \div (Len(queries[i]) \div Len(keys[i]))) + 1] :
                        j \in Forward!Begins(positions, i) .. i}]]]
  BY <1>1, Zenon DEF Forward!Attention
<1>4. ASSUME NEW i \in 1 .. m
      PROVE  [h \in DOMAIN queries[i] |->
                [of |-> queries[i][h],
                 to |-> {keys[j][((h - 1) \div (Len(queries[i]) \div Len(keys[i]))) + 1] :
                           j \in Forward!Begins(positions, i) .. i}]]
             = [h \in 1 .. wq |->
                [of |-> queries[i][h],
                 to |-> {keys[j][((h - 1) \div (wq \div wk)) + 1] :
                           j \in Forward!Begins(positions, i) .. i}]]
  <2>1. DOMAIN queries[i] = 1 .. wq /\ Len(queries[i]) \div Len(keys[i]) = wq \div wk
    BY <1>2
  <2> QED BY <2>1, Zenon
<1> QED BY <1>3, <1>4, Zenon DEF AttendedOf, HeadAttended

(* With the tokens and heads that the rank has, it is that of one rank.    *)
LEMMA AttentionOfTokens ==
  ASSUME NEW sp \in Nat \ {0}, NEW q, NEW k, NEW times, NEW wq, NEW wk, NEW g,
         NEW rank \in 1 .. sp, NEW P, NEW m \in Nat, NEW queries, NEW keys,
         NEW j \in 1 .. m, NEW h \in 1 .. wq,
         HeadsShared(sp, q, k, times, wq, wk, g), PositionsOf(P)[1] = 0,
         HeadsOfRanks(queries, P, sp, m, wq, 1), HeadsOfRanks(keys, P, sp, m, wk, times)
  PROVE  HeadAttended(queries[rank], keys[rank], PositionsOf(P), g, j, h)
           = HiddenOf(P, q, k, j)[Place(rank, wq, h)]
<1> DEFINE H == Place(rank, wq, h)
           v == ((h - 1) \div g) + 1
           K == ((H - 1) \div (q \div k)) + 1
           b == Forward!Begins(PositionsOf(P), j)
<1>0. /\ sp \in Nat \ {0} /\ wq \in Nat \ {0} /\ wk \in Nat \ {0} /\ q = sp * wq
      /\ rank \in Nat \ {0}
  <2>1. wq \in Nat \ {0} /\ wk \in Nat \ {0} /\ q = sp * wq
    BY DEF HeadsShared
  <2> QED BY <2>1
<1>1. H \in 1 .. q
  BY <1>0, PlaceInside
<1>2. v \in 1 .. wk /\ ((Place(rank, wk, v) - 1) \div times) + 1 = K
  BY <1>0, KeyOfQuery
<1>3. queries[rank][j][h] = [tok |-> P[j].tok, head |-> H]
  <2>1. queries[rank][j][h] = [tok |-> P[j].tok, head |-> ((H - 1) \div 1) + 1]
    BY DEF HeadsOfRanks
  <2>2. ((H - 1) \div 1) + 1 = H
    <3> HIDE DEF H
    <3> QED BY <1>0, <1>1
  <2> QED BY <2>1, <2>2
<1>4. b .. j \subseteq 1 .. m
  BY BeginsBefore
<1> HIDE DEF H, v, b
<1>5. \A x \in b .. j : keys[rank][x][v] = [tok |-> P[x].tok, head |-> K]
  BY <1>2, <1>4 DEF HeadsOfRanks
<1> HIDE DEF K
<1>6. {keys[rank][x][v] : x \in b .. j} = {[tok |-> P[x].tok, head |-> K] : x \in b .. j}
  BY <1>5
<1>7. HiddenOf(P, q, k, j)[H]
        = [of |-> [tok |-> P[j].tok, head |-> H],
           to |-> {[tok |-> P[x].tok, head |-> K] : x \in b .. j}]
  BY <1>1 DEF HiddenOf, K, b
<1>8. HeadAttended(queries[rank], keys[rank], PositionsOf(P), g, j, h)
        = [of |-> queries[rank][j][h], to |-> {keys[rank][x][v] : x \in b .. j}]
  BY Zenon DEF HeadAttended, v, b
<1> QED BY <1>3, <1>6, <1>7, <1>8 DEF H


OnRanks(A, queries, keys, P, sp) ==
  /\ A = [r \in 1 .. sp |-> A[r]]
  /\ \A r \in 1 .. sp : A[r] = Forward!Attention(queries[r], keys[r], PositionsOf(P))
HeadsAttend(A, P, sp, q, k, m, wq) ==
  \A r \in 1 .. sp : \A j \in 1 .. m : \A h \in 1 .. wq :
    A[r][j][h] = HiddenOf(P, q, k, j)[Place(r, wq, h)]
LEMMA AttentionShards ==
  ASSUME NEW sp \in Nat \ {0}, NEW q, NEW k, NEW times, NEW wq, NEW wk, NEW g,
         NEW Y, NEW P, NEW m \in Nat, NEW queries, NEW keys, NEW A,
         HeadsShared(sp, q, k, times, wq, wk, g), PositionsOf(P)[1] = 0,
         AreShards(queries, Y, sp, m, wq), AreShards(keys, Y, sp, m, wk),
         HeadsOfRanks(queries, P, sp, m, wq, 1), HeadsOfRanks(keys, P, sp, m, wk, times),
         OnRanks(A, queries, keys, P, sp)
  PROVE  /\ \E Z : AreShards(A, Z, sp, m, wq)
         /\ HeadsAttend(A, P, sp, q, k, m, wq)
<1>1. wq \in Nat \ {0} /\ wk \in Nat \ {0} /\ wq \div wk = g
  BY DEF HeadsShared
<1>2. ASSUME NEW r \in 1 .. sp
      PROVE  /\ A[r] = AttendedOf(queries[r], keys[r], PositionsOf(P), m, wq, g)
             /\ A[r] = [j \in 1 .. m |-> A[r][j]]
             /\ \A j \in 1 .. m : A[r][j] = [h \in 1 .. wq |-> A[r][j][h]]
  <2>1. /\ queries[r] \in Seq(Seq(Y)) /\ Len(queries[r]) = m
        /\ \A i \in 1 .. m : queries[r][i] \in Seq(Y) /\ Len(queries[r][i]) = wq
        /\ \A i \in 1 .. m : Len(keys[r][i]) = wk
    BY DEF AreShards
  <2>2. A[r] = Forward!Attention(queries[r], keys[r], PositionsOf(P))
    BY Zenon DEF OnRanks
  <2>3. A[r] = AttendedOf(queries[r], keys[r], PositionsOf(P), m, wq, g)
    <3> DEFINE Q == queries[r]
               K == keys[r]
               positions == PositionsOf(P)
    <3>1. Forward!Attention(Q, K, positions) = AttendedOf(Q, K, positions, m, wq, wq \div wk)
      <4> HIDE DEF Q, K, positions
      <4>1. /\ wq \in Nat /\ wk \in Nat
            /\ Q \in Seq(Seq(Y)) /\ Len(Q) = m
            /\ \A i \in 1 .. m : Q[i] \in Seq(Y) /\ Len(Q[i]) = wq
            /\ \A i \in 1 .. m : Len(K[i]) = wk
        BY <1>1, <2>1 DEF Q, K
      <4> QED BY <4>1, AttentionOfRank
    <3> QED BY <1>1, <2>2, <3>1
  <2> QED BY <2>3 DEF AttendedOf
<1>3. ASSUME NEW r \in 1 .. sp, NEW j \in 1 .. m, NEW h \in 1 .. wq
      PROVE  A[r][j][h] = HiddenOf(P, q, k, j)[Place(r, wq, h)]
  <2>1. A[r][j][h] = HeadAttended(queries[r], keys[r], PositionsOf(P), g, j, h)
    <3>1. A[r] = AttendedOf(queries[r], keys[r], PositionsOf(P), m, wq, g)
      BY <1>2
    <3> DEFINE Q == queries[r]
               K == keys[r]
               positions == PositionsOf(P)
               T == A[r]
    <3>2. T = [i \in 1 .. m |-> [x \in 1 .. wq |-> HeadAttended(Q, K, positions, g, i, x)]]
      BY <3>1 DEF AttendedOf
    <3> HIDE DEF Q, K, positions, T
    <3>3. T[j][h] = HeadAttended(Q, K, positions, g, j, h)
      BY <3>2
    <3> QED BY <3>3 DEF Q, K, positions, T
  <2> QED BY <2>1, AttentionOfTokens
<1> DEFINE Z == {A[r][j][h] : r \in 1 .. sp, j \in 1 .. m, h \in 1 .. wq}
<1>4. AreShards(A, Z, sp, m, wq)
  <2>1. ASSUME NEW r \in 1 .. sp, NEW j \in 1 .. m
        PROVE  A[r][j] \in Seq(Z) /\ Len(A[r][j]) = wq
    <3>1. \A h \in 1 .. wq : A[r][j][h] \in Z
      OBVIOUS
    <3> HIDE DEF Z
    <3>2. A[r][j] = [h \in 1 .. wq |-> A[r][j][h]]
      BY <1>2
    <3>3. A[r][j] \in [1 .. wq -> Z]
      BY <3>1, <3>2
    <3> QED BY <1>1, <3>3, FunctionIsSeq
  <2>2. A = [r \in 1 .. sp |-> A[r]]
    BY Zenon DEF OnRanks
  <2> HIDE DEF Z
  <2> QED BY <1>1, <1>2, <2>1, <2>2, ShardsAre
<1> HIDE DEF Z
<1> QED BY <1>3, <1>4, Zenon DEF HeadsAttend

(* Together, the ranks compute attention as one rank would have.           *)
LEMMA UlyssesIsAttention ==
  ASSUME NEW X, NEW P \in Seq(X), NEW sp, NEW q, NEW k, HeadsFit(sp, q, k),
         NEW size \in Nat \ {0}, Len(P) = sp * size, P[1].position = 0
  PROVE  LET hidden == Forward!UlyssesAttention(Forward!Sliced(P, sp), q, k)
         IN  \A rank \in 1 .. sp : \A i \in 1 .. size :
               hidden[rank][i] = HiddenOf(P, q, k, Place(rank, size, i))
<1> DEFINE parts == Forward!Sliced(P, sp)
           Qs == Forward!GatherSeqScatterHeads(QueriesOf(parts, sp, q))
           Ks == Forward!GatherSeqScatterHeads(KeysOf(parts, sp, k))
           A == [r \in 1 .. sp |-> Forward!Attention(Qs[r], Ks[r], PositionsOf(P))]
           hidden == Forward!UlyssesAttention(parts, q, k)
           m == sp * size
           Y == HeadSet(P)
<1>1. sp \in Nat \ {0} /\ q \in Nat \ {0} /\ k \in Nat \ {0}
  BY DEF HeadsFit
<1>2. PICK times, wq, wk, g : HeadsShared(sp, q, k, times, wq, wk, g)
  BY HeadsAreShared
<1>3. /\ times \in Nat \ {0} /\ wq \in Nat \ {0} /\ wk \in Nat \ {0}
      /\ times = Max({sp \div k, 1}) /\ q = sp * wq /\ k * times = sp * wk
  BY <1>2 DEF HeadsShared
<1>4. IsSliced(parts, P, X, sp, size)
  BY <1>1, SlicedBlocks
<1>5. FlattenSeq(parts) = P
  <2>1. /\ parts \in Seq(Seq(X)) /\ Len(parts) = sp
        /\ \A r \in 1 .. sp : Len(parts[r]) = size
    BY <1>4 DEF IsSliced
  <2> DEFINE all == FlattenSeq(parts)
  <2>2. EqualBlocks(all, parts, X, sp, size)
    BY <1>1, <2>1, FlattenEqualBlocks
  <2> HIDE DEF parts, all
  <2>3. all \in Seq(X) /\ Len(all) = m
    BY <2>2 DEF EqualBlocks
  <2>4. ASSUME NEW j \in 1 .. m PROVE all[j] = P[j]
    <3>1. PICK r \in 1 .. sp : \E i \in 1 .. size : j = Place(r, size, i)
      <4>1. j \in 1 .. sp * size /\ size \in Nat /\ sp \in Nat
        BY <1>1
      <4> HIDE DEF m
      <4> QED BY <4>1, HasPlace
    <3>2. PICK i \in 1 .. size : j = Place(r, size, i)
      BY <3>1
    <3> QED BY <1>4, <2>2, <3>2 DEF IsSliced, EqualBlocks
  <2>5. all = P
    <3> HIDE DEF m
    <3>1. Len(all) = m /\ Len(P) = m
      BY <2>3 DEF m
    <3> QED BY <2>3, <2>4, <3>1, SeqEqual
  <2> QED BY <2>5 DEF all
<1>6. PositionsOf(P)[1] = 0
  <2>1. 1 \in DOMAIN P
    <3>1. m >= 1
      BY <1>1
    <3> QED BY <3>1, LenProperties
  <2> QED BY <2>1 DEF PositionsOf
<1>7. hidden = Forward!GatherHeadsScatterSeq(A)
  <2>1. Len(parts) = sp /\ Forward!FlattenSeq(parts) = P
    BY <1>4, <1>5, SameOperatorsOfForward DEF IsSliced
  <2> HIDE DEF parts
  <2>2. hidden = Forward!GatherHeadsScatterSeq([r \in 1 .. sp |->
                   Forward!Attention(Qs[r], Ks[r], PositionsOf(P))])
    BY <2>1, Zenon DEF Forward!UlyssesAttention, QueriesOf, KeysOf, HeadsOf, PositionsOf
  <2> QED BY <2>2
<1> HIDE DEF parts
<1>8. /\ AreShards(Qs, Y, sp, m, wq) /\ HeadsOfRanks(Qs, P, sp, m, wq, 1)
      /\ AreShards(Ks, Y, sp, m, wk) /\ HeadsOfRanks(Ks, P, sp, m, wk, times)
  <2>1. /\ AreShards(QueriesOf(parts, sp, q), Y, sp, size, sp * wq)
        /\ HeadsOfTokens(QueriesOf(parts, sp, q), P, sp, size, sp * wq, 1)
    BY <1>1, <1>3, <1>4, QueryShards
  <2>2. /\ AreShards(KeysOf(parts, sp, k), Y, sp, size, k * times)
        /\ HeadsOfTokens(KeysOf(parts, sp, k), P, sp, size, k * times, times)
    BY <1>1, <1>3, <1>4, KeyShards
  <2>3. /\ AreShards(KeysOf(parts, sp, k), Y, sp, size, sp * wk)
        /\ HeadsOfTokens(KeysOf(parts, sp, k), P, sp, size, sp * wk, times)
    BY <1>3, <2>2, Zenon
  <2>4. AreShards(Qs, Y, sp, m, wq) /\ HeadsOfRanks(Qs, P, sp, m, wq, 1)
    BY <1>1, <1>3, <2>1, HeadsExchanged
  <2>5. AreShards(Ks, Y, sp, m, wk) /\ HeadsOfRanks(Ks, P, sp, m, wk, times)
    BY <1>1, <1>3, <2>3, HeadsExchanged
  <2> QED BY <2>4, <2>5
<1> HIDE DEF Qs, Ks, Y
<1>9. m \in Nat
  BY <1>1
<1>10. OnRanks(A, Qs, Ks, P, sp)
  BY Zenon DEF OnRanks
<1> HIDE DEF A, m
<1>11. /\ \E Z : AreShards(A, Z, sp, m, wq)
       /\ HeadsAttend(A, P, sp, q, k, m, wq)
  BY <1>1, <1>2, <1>6, <1>8, <1>9, <1>10, AttentionShards
<1>12. PICK Z : AreShards(A, Z, sp, sp * size, wq)
  BY <1>11 DEF m
<1>13. /\ AreShards(hidden, Z, sp, size, sp * wq)
       /\ SeqScattered(A, hidden, sp, size, wq)
  BY <1>1, <1>3, <1>7, <1>12, GatheredHeads
<1> HIDE DEF hidden
<1>14. ASSUME NEW rank \in 1 .. sp, NEW i \in 1 .. size
       PROVE  hidden[rank][i] = HiddenOf(P, q, k, Place(rank, size, i))
  <2> DEFINE j == Place(rank, size, i)
  <2>1. j \in 1 .. m
    BY <1>1, PlaceInside DEF m
  <2> HIDE DEF j
  <2>2. ASSUME NEW H \in 1 .. q PROVE hidden[rank][i][H] = HiddenOf(P, q, k, j)[H]
    <3>1. PICK from \in 1 .. sp : \E h \in 1 .. wq : H = Place(from, wq, h)
      <4>1. wq \in Nat /\ sp \in Nat /\ H \in 1 .. sp * wq
        BY <1>1, <1>3
      <4> QED BY <4>1, HasPlace
    <3>2. PICK h \in 1 .. wq : H = Place(from, wq, h)
      BY <3>1
    <3>3. hidden[rank][i][H] = A[from][j][h]
      BY <1>13, <3>2 DEF SeqScattered, j
    <3> QED BY <1>11, <2>1, <3>2, <3>3 DEF HeadsAttend
  <2>3. hidden[rank][i] \in Seq(Z) /\ Len(hidden[rank][i]) = q
    BY <1>3, <1>13 DEF AreShards
  <2>4. hidden[rank][i] = [H \in 1 .. q |-> hidden[rank][i][H]]
    BY <2>3, LenProperties
  <2>5. HiddenOf(P, q, k, j) = [H \in 1 .. q |-> HiddenOf(P, q, k, j)[H]]
    BY Zenon DEF HiddenOf
  <2>6. hidden[rank][i] = HiddenOf(P, q, k, j)
    BY <2>2, <2>4, <2>5, Zenon
  <2> QED BY <2>6 DEF j
<1> QED BY <1>14 DEF hidden, parts


(* Micro-batches with rows, each with a prompt.                            *)
IsMicroBatch(mb) ==
  /\ mb \in Seq([prompt : Nat \ {0}, response : Nat]) /\ Len(mb) \in Nat \ {0}
RowLength(mb, r) == mb[r].prompt + mb[r].response

LEMMA FiniteValues ==
  ASSUME NEW n \in Nat, NEW S, NEW f \in [1 .. n -> S], \A y \in S : \E r \in 1 .. n : y = f[r]
  PROVE  IsFiniteSet(S)
<1>1. f \in Surjection(1 .. n, S)
  BY DEF Surjection
<1> QED BY <1>1, FirstNumbers, FS_Surjection

LEMMA Widths ==
  ASSUME NEW mb, IsMicroBatch(mb)
  PROVE  /\ Forward!PromptLength(mb) \in Nat /\ Forward!ResponseWidth(mb) \in Nat
         /\ DOMAIN mb = 1 .. Len(mb)
         /\ \A r \in 1 .. Len(mb) :
              /\ mb[r].prompt \in Nat \ {0} /\ mb[r].response \in Nat
              /\ mb[r].prompt <= Forward!PromptLength(mb)
              /\ mb[r].response <= Forward!ResponseWidth(mb)
<1> DEFINE n == Len(mb)
<1>1. n \in Nat \ {0} /\ DOMAIN mb = 1 .. n
  BY LenProperties DEF IsMicroBatch
<1>2. \A r \in 1 .. n : mb[r].prompt \in Nat \ {0} /\ mb[r].response \in Nat
  <2>1. \A r \in 1 .. n : mb[r] \in [prompt : Nat \ {0}, response : Nat]
    BY ElementOfSeq, LenProperties DEF IsMicroBatch
  <2> QED BY <2>1
<1> HIDE DEF n
<1>3. IsFiniteSet(1 .. n)
  BY <1>1, FirstNumbers
<1>4. /\ Forward!PromptLength(mb) \in Nat
      /\ \A r \in 1 .. n : mb[r].prompt <= Forward!PromptLength(mb)
  <2> DEFINE S == {mb[r].prompt : r \in 1 .. n}
  <2>1. S \in SUBSET Int /\ S \subseteq Nat /\ S # {}
    <3>1. mb[1].prompt \in S
      BY <1>1
    <3> QED BY <1>2, <3>1
  <2>2. IsFiniteSet(S)
    <3> DEFINE f == [r \in 1 .. n |-> mb[r].prompt]
    <3>1. f \in [1 .. n -> S] /\ \A y \in S : \E r \in 1 .. n : y = f[r]
      OBVIOUS
    <3> HIDE DEF f, S
    <3> QED BY <1>1, <3>1, FiniteValues
  <2>3. Forward!PromptLength(mb) = Max(S)
    BY <1>1, SameOperatorsOfForward DEF Forward!PromptLength
  <2>4. \A r \in 1 .. n : mb[r].prompt \in S
    OBVIOUS
  <2> HIDE DEF S
  <2> QED BY <2>1, <2>2, <2>3, <2>4, MaxOfSet
<1>5. /\ Forward!ResponseWidth(mb) \in Nat
      /\ \A r \in 1 .. n : mb[r].response <= Forward!ResponseWidth(mb)
  <2> DEFINE S == {mb[r].response : r \in 1 .. n}
  <2>1. S \in SUBSET Int /\ S \subseteq Nat /\ S # {}
    <3>1. mb[1].response \in S
      BY <1>1
    <3> QED BY <1>2, <3>1
  <2>2. IsFiniteSet(S)
    <3> DEFINE f == [r \in 1 .. n |-> mb[r].response]
    <3>1. f \in [1 .. n -> S] /\ \A y \in S : \E r \in 1 .. n : y = f[r]
      OBVIOUS
    <3> HIDE DEF f, S
    <3> QED BY <1>1, <3>1, FiniteValues
  <2>3. Forward!ResponseWidth(mb) = Max(S)
    BY <1>1, SameOperatorsOfForward DEF Forward!ResponseWidth
  <2>4. \A r \in 1 .. n : mb[r].response \in S
    OBVIOUS
  <2> HIDE DEF S
  <2> QED BY <2>1, <2>2, <2>3, <2>4, MaxOfSet
<1> QED BY <1>1, <1>2, <1>4, <1>5 DEF n

(* unpad_input: each row has a block of the tokens, in the order of the    *)
(* rows, and in it the tokens in their order.                              *)
TokenSet == [tok : [row : Int, place : Int], position : Int]
RowsJoined(mb, tokens, off) ==
  /\ tokens \in Seq(TokenSet) /\ Len(tokens) \in Nat \ {0}
  /\ off \in [0 .. Len(mb) -> Nat] /\ off[0] = 0
  /\ \A r \in 1 .. Len(mb) : \A i \in 1 .. RowLength(mb, r) :
       /\ off[r - 1] + i \in 1 .. Len(tokens)
       /\ tokens[off[r - 1] + i]
            = [tok |-> Forward!Tok(r, Forward!FirstPlace(mb, r) + i - 1), position |-> i - 1]
  /\ \A j \in 1 .. Len(tokens) : \E r \in 1 .. Len(mb) : \E i \in 1 .. RowLength(mb, r) :
       j = off[r - 1] + i
LEMMA RowsOfTokens ==
  ASSUME NEW mb, IsMicroBatch(mb)
  PROVE  \E off : RowsJoined(mb, Forward!UnpadInput(mb), off)
<1> DEFINE n == Len(mb)
           piece(r) == [i \in 1 .. mb[r].prompt + mb[r].response |->
                          [tok |-> Forward!Tok(r, Forward!FirstPlace(mb, r) + i - 1),
                           position |-> i - 1]]
           pieces == [r \in 1 .. n |-> piece(r)]
           tokens == Forward!UnpadInput(mb)
<1>1. /\ n \in Nat \ {0} /\ DOMAIN mb = 1 .. n
      /\ \A r \in 1 .. n : mb[r].prompt \in Nat \ {0} /\ mb[r].response \in Nat
      /\ Forward!PromptLength(mb) \in Nat
  BY Widths DEF IsMicroBatch
<1>2. tokens = FlattenSeq(pieces)
  <2>1. tokens = Forward!FlattenSeq(pieces)
    BY <1>1, Zenon DEF Forward!UnpadInput
  <2> HIDE DEF pieces, tokens
  <2> QED BY <2>1, SameOperatorsOfForward
<1> HIDE DEF tokens, n
<1>3. ASSUME NEW r \in 1 .. n
      PROVE  /\ pieces[r] = piece(r) /\ pieces[r] \in Seq(TokenSet)
             /\ Len(pieces[r]) = RowLength(mb, r) /\ RowLength(mb, r) \in Nat \ {0}
  <2>1. pieces[r] = piece(r)
    OBVIOUS
  <2>2. RowLength(mb, r) \in Nat \ {0} /\ RowLength(mb, r) = mb[r].prompt + mb[r].response
    BY <1>1 DEF RowLength
  <2>3. \A i \in 1 .. RowLength(mb, r) :
          Forward!Tok(r, Forward!FirstPlace(mb, r) + i - 1) \in [row : Int, place : Int]
    <3>1. Forward!FirstPlace(mb, r) \in Int
      BY <1>1 DEF Forward!FirstPlace
    <3> QED BY <2>2, <3>1 DEF Forward!Tok
  <2>4. piece(r) \in [1 .. RowLength(mb, r) -> TokenSet]
    BY <2>2, <2>3 DEF TokenSet
  <2> HIDE DEF piece
  <2> QED BY <2>1, <2>2, <2>4, FunctionIsSeq
<1>4. pieces \in Seq(Seq(TokenSet)) /\ Len(pieces) = n
  <2>1. pieces = [r \in 1 .. n |-> pieces[r]]
    OBVIOUS
  <2> HIDE DEF pieces
  <2>2. pieces \in [1 .. n -> Seq(TokenSet)]
    BY <1>3, <2>1
  <2> QED BY <1>1, <2>2, FunctionIsSeq
<1>5. PICK off : Offsets(off, pieces) /\ Joined(tokens, off, pieces, n)
  <2> HIDE DEF pieces
  <2> QED BY <1>2, <1>4, FlattenBlocks
<1>6. tokens \in Seq(TokenSet)
  <2> HIDE DEF pieces
  <2> QED BY <1>2, <1>4, FlattenBlocks
<1>7. \A r \in 1 .. n : \A i \in 1 .. RowLength(mb, r) :
        pieces[r][i] = [tok |-> Forward!Tok(r, Forward!FirstPlace(mb, r) + i - 1),
                        position |-> i - 1]
  BY <1>3 DEF RowLength
<1> HIDE DEF pieces
<1>8. off \in [0 .. n -> Nat] /\ off[0] = 0
  BY <1>4, <1>5 DEF Offsets
<1>9. /\ \A r \in 1 .. n : \A i \in 1 .. RowLength(mb, r) :
           off[r - 1] + i \in 1 .. Len(tokens) /\ tokens[off[r - 1] + i] = pieces[r][i]
      /\ \A j \in 1 .. Len(tokens) : \E r \in 1 .. n : \E i \in 1 .. RowLength(mb, r) :
           j = off[r - 1] + i
  <2>1. \A r \in 1 .. n : Len(pieces[r]) = RowLength(mb, r)
    BY <1>3
  <2>2. /\ \A r \in 1 .. n : \A i \in 1 .. Len(pieces[r]) :
             off[r - 1] + i \in 1 .. Len(tokens) /\ tokens[off[r - 1] + i] = pieces[r][i]
        /\ \A j \in 1 .. Len(tokens) : \E r \in 1 .. n : \E i \in 1 .. Len(pieces[r]) :
             j = off[r - 1] + i
    BY <1>5, Zenon DEF Joined
  <2> QED BY <2>1, <2>2
<1>10. Len(tokens) \in Nat \ {0}
  <2>1. off[1 - 1] + 1 \in 1 .. Len(tokens)
    <3>1. 1 \in 1 .. n /\ 1 \in 1 .. RowLength(mb, 1)
      <4>1. 1 \in 1 .. n
        BY <1>1
      <4>2. RowLength(mb, 1) \in Nat \ {0}
        BY <1>3, <4>1
      <4> QED BY <4>1, <4>2
    <3> QED BY <1>9, <3>1
  <2>2. Len(tokens) \in Nat
    BY <1>6, LenProperties
  <2> QED BY <2>1, <2>2
<1>11. \A r \in 1 .. n : \A i \in 1 .. RowLength(mb, r) :
         /\ off[r - 1] + i \in 1 .. Len(tokens)
         /\ tokens[off[r - 1] + i]
              = [tok |-> Forward!Tok(r, Forward!FirstPlace(mb, r) + i - 1), position |-> i - 1]
  <2> TAKE r \in 1 .. n
  <2> TAKE i \in 1 .. RowLength(mb, r)
  <2>1. off[r - 1] + i \in 1 .. Len(tokens) /\ tokens[off[r - 1] + i] = pieces[r][i]
    BY <1>9, Zenon
  <2>2. pieces[r][i] = [tok |-> Forward!Tok(r, Forward!FirstPlace(mb, r) + i - 1),
                        position |-> i - 1]
    BY <1>7, Zenon
  <2> QED BY <2>1, <2>2, Zenon
<1>12. RowsJoined(mb, tokens, off)
  BY <1>6, <1>8, <1>9, <1>10, <1>11, Zenon DEF RowsJoined, n
<1> QED BY <1>12, Zenon DEF tokens


(* ulysses_pad: the tokens stay where they are, and their number becomes a *)
(* multiple of the ranks.                                                  *)
LEMMA RanksShareEqually ==
  ASSUME NEW n \in Nat \ {0}, NEW sp \in Nat \ {0}
  PROVE  /\ Forward!UlyssesPadSize(n, sp) \in Nat
         /\ \E size \in Nat \ {0} : n + Forward!UlyssesPadSize(n, sp) = sp * size
<1> DEFINE a == n \div sp
           r == n % sp
           pad == Forward!UlyssesPadSize(n, sp)
<1>1. a \in Nat /\ r \in 0 .. sp - 1 /\ n = sp * a + r
  OBVIOUS
<1>2. pad = (sp - r) % sp
  BY DEF Forward!UlyssesPadSize
<1> HIDE DEF a, r, pad
<1>3. CASE r = 0
  <2>1. pad = 0
    <3>1. \A s \in Nat \ {0} : s % s = 0
      <4>1. \A s \in Nat \ {0} : s = s * 1 + 0
        OBVIOUS
      <4> QED BY <4>1
    <3> QED BY <1>2, <1>3, <3>1
  <2>2. n + pad = sp * a /\ n = sp * a
    <3>1. sp * a \in Nat
      BY <1>1
    <3> QED BY <1>1, <1>3, <2>1, <3>1
  <2>3. a \in Nat \ {0} /\ pad \in Nat /\ n + pad = sp * a
    BY <1>1, <2>1, <2>2
  <2> QED BY <2>3 DEF pad
<1>4. CASE r # 0
  <2>1. pad = sp - r
    <3>1. \A s \in Nat \ {0} : \A x \in 0 .. s - 1 : x % s = x
      OBVIOUS
    <3>2. sp - r \in 0 .. sp - 1
      BY <1>1, <1>4
    <3> QED BY <1>2, <3>1, <3>2
  <2>2. sp * (a + 1) = sp * a + sp /\ sp * a \in Nat
    BY <1>1
  <2>3. n + pad = sp * (a + 1) /\ a + 1 \in Nat \ {0} /\ pad \in Nat
    BY <1>1, <2>1, <2>2
  <2> QED BY <2>3 DEF pad
<1> QED BY <1>3, <1>4

LEMMA PaddedTokens ==
  ASSUME NEW sp \in Nat \ {0}, NEW s \in Seq(TokenSet), Len(s) \in Nat \ {0}
  PROVE  /\ Forward!UlyssesPad(s, sp) \in Seq(TokenSet)
         /\ Len(Forward!UlyssesPad(s, sp)) = Len(s) + Forward!UlyssesPadSize(Len(s), sp)
         /\ \A j \in 1 .. Len(s) : Forward!UlyssesPad(s, sp)[j] = s[j]
<1> DEFINE pad == Forward!UlyssesPadSize(Len(s), sp)
           t == [i \in 1 .. pad |-> [tok |-> Forward!NoTok, position |-> i - 1]]
<1>1. pad \in Nat
  BY RanksShareEqually
<1>2. Forward!UlyssesPad(s, sp) = s \o t
  BY DEF Forward!UlyssesPad
<1> HIDE DEF pad
<1>3. t \in [1 .. pad -> TokenSet]
  <2>1. Forward!NoTok \in [row : Int, place : Int]
    BY DEF Forward!NoTok, Forward!Tok
  <2> QED BY <1>1, <2>1 DEF TokenSet
<1> HIDE DEF t
<1>4. t \in Seq(TokenSet) /\ Len(t) = pad
  BY <1>1, <1>3, FunctionIsSeq
<1>5. /\ s \o t \in Seq(TokenSet) /\ Len(s \o t) = Len(s) + Len(t)
      /\ \A j \in 1 .. Len(s) : (s \o t)[j] = s[j]
  <2>1. /\ s \o t \in Seq(TokenSet) /\ Len(s \o t) = Len(s) + Len(t)
        /\ \A j \in 1 .. Len(s) + Len(t) :
             (s \o t)[j] = IF j <= Len(s) THEN s[j] ELSE t[j - Len(s)]
    BY <1>4, ConcatProperties
  <2>2. \A j \in 1 .. Len(s) : j \in 1 .. Len(s) + Len(t) /\ j <= Len(s)
    BY <1>1, <1>4
  <2> QED BY <2>1, <2>2
<1> QED BY <1>2, <1>4, <1>5 DEF pad

(* torch.roll: the label of a token is the next one.                       *)
LEMMA LabelIsNext ==
  ASSUME NEW s \in Seq(TokenSet), Len(s) \in Nat \ {0}
  PROVE  /\ Forward!Labels(s) \in Seq(TokenSet) /\ Len(Forward!Labels(s)) = Len(s)
         /\ \A j \in 1 .. Len(s) - 1 : Forward!Labels(s)[j] = s[j + 1]
<1> DEFINE t == Tail(s)
           x == Head(s)
<1>1. s # << >>
  BY EmptySeq
<1>2. /\ x \in TokenSet /\ t \in Seq(TokenSet) /\ Len(t) = Len(s) - 1
      /\ \A j \in 1 .. Len(t) : t[j] = s[j + 1]
  BY <1>1, HeadTailProperties
<1>3. Forward!Labels(s) = Append(t, x)
  BY DEF Forward!Labels, Forward!Rolled
<1> HIDE DEF t, x
<1>4. /\ Append(t, x) \in Seq(TokenSet) /\ Len(Append(t, x)) = Len(t) + 1
      /\ \A j \in 1 .. Len(t) : Append(t, x)[j] = t[j]
  BY <1>2, AppendProperties
<1> QED BY <1>2, <1>3, <1>4

(* The log-probabilities, gathered from the ranks and without those of the *)
(* padding.                                                                *)
LogProbsOn(labels, hidden, sp) ==
  [r \in 1 .. sp |-> [i \in DOMAIN labels[r] |->
     [from |-> hidden[r][i], label |-> labels[r][i].tok]]]
AreLogProbs(values, P, L, q, k, n) ==
  /\ DOMAIN values = 1 .. n
  /\ \A j \in 1 .. n : values[j] = [from |-> HiddenOf(P, q, k, j), label |-> L[j].tok]
LEMMA GatheredLogProbs ==
  ASSUME NEW L \in Seq(TokenSet), NEW P, NEW q, NEW k, NEW hidden, NEW n \in Nat, NEW pad \in Nat,
         NEW sp \in Nat \ {0}, NEW size \in Nat \ {0}, Len(L) = sp * size, n + pad = sp * size,
         \A rank \in 1 .. sp : \A i \in 1 .. size :
           hidden[rank][i] = HiddenOf(P, q, k, Place(rank, size, i))
  PROVE  AreLogProbs(Forward!GatherOutputsAndUnpad(
                       LogProbsOn(Forward!Sliced(L, sp), hidden, sp), pad), P, L, q, k, n)
<1> DEFINE labels == Forward!Sliced(L, sp)
           parts == LogProbsOn(labels, hidden, sp)
           X == {parts[r][i] : r \in 1 .. sp, i \in 1 .. size}
           all == FlattenSeq(parts)
<1>1. IsSliced(labels, L, TokenSet, sp, size)
  BY SlicedBlocks
<1> HIDE DEF labels
<1>2. ASSUME NEW r \in 1 .. sp
      PROVE  parts[r] = [i \in 1 .. size |-> [from |-> hidden[r][i], label |-> labels[r][i].tok]]
  <2>1. DOMAIN labels[r] = 1 .. size
    BY <1>1, LenProperties DEF IsSliced
  <2> QED BY <2>1 DEF LogProbsOn
<1>3. parts = [r \in 1 .. sp |-> parts[r]]
  BY DEF LogProbsOn
<1> HIDE DEF parts
<1>4. ASSUME NEW r \in 1 .. sp, NEW i \in 1 .. size
      PROVE  parts[r][i] = [from |-> HiddenOf(P, q, k, Place(r, size, i)),
                            label |-> L[Place(r, size, i)].tok]
  <2>1. labels[r][i] = L[Place(r, size, i)]
    BY <1>1 DEF IsSliced
  <2>2. parts[r][i] = [from |-> hidden[r][i], label |-> labels[r][i].tok]
    <3>1. parts[r]
            = [x \in 1 .. size |-> [from |-> hidden[r][x], label |-> labels[r][x].tok]]
      BY <1>2
    <3> QED BY <3>1, Zenon
  <2>3. hidden[r][i] = HiddenOf(P, q, k, Place(r, size, i))
    OBVIOUS
  <2> QED BY <2>1, <2>2, <2>3, Zenon
<1>5. ASSUME NEW r \in 1 .. sp PROVE parts[r] \in Seq(X) /\ Len(parts[r]) = size
  <2>1. \A i \in 1 .. size : parts[r][i] \in X
    OBVIOUS
  <2>2. parts[r] = [i \in 1 .. size |-> parts[r][i]]
    BY <1>2
  <2> HIDE DEF X
  <2>3. parts[r] \in [1 .. size -> X]
    BY <2>1, <2>2
  <2> QED BY <2>3, FunctionIsSeq
<1> HIDE DEF X
<1>6. parts \in Seq(Seq(X)) /\ Len(parts) = sp
  <2>1. parts \in [1 .. sp -> Seq(X)]
    BY <1>3, <1>5
  <2> QED BY <2>1, FunctionIsSeq
<1>7. EqualBlocks(all, parts, X, sp, size)
  BY <1>5, <1>6, FlattenEqualBlocks
<1> HIDE DEF all
<1>8. all \in Seq(X) /\ Len(all) = n + pad
  BY <1>7 DEF EqualBlocks
<1> DEFINE values == Forward!GatherOutputsAndUnpad(parts, pad)
<1>9. values = SubSeq(all, 1, n)
  <2>1. Len(all) - pad = n
    BY <1>8
  <2>2. Forward!FlattenSeq(parts) = all
    BY SameOperatorsOfForward DEF all
  <2> QED BY <2>1, <2>2, Zenon DEF Forward!GatherOutputsAndUnpad
<1> HIDE DEF values
<1>10. /\ values \in Seq(X) /\ Len(values) = n
       /\ \A j \in 1 .. n : values[j] = all[j]
  <2>1. 0 \in 0 .. Len(all) /\ n \in 0 .. Len(all) /\ n - 0 = n /\ 0 + 1 = 1
    BY <1>8
  <2>2. /\ SubSeq(all, 0 + 1, n) \in Seq(X) /\ Len(SubSeq(all, 0 + 1, n)) = n - 0
        /\ \A j \in 1 .. n - 0 : SubSeq(all, 0 + 1, n)[j] = all[0 + j]
    BY <1>8, <2>1, PartOfSeq
  <2> QED BY <1>9, <2>1, <2>2
<1>11. ASSUME NEW j \in 1 .. n
       PROVE  all[j] = [from |-> HiddenOf(P, q, k, j), label |-> L[j].tok]
  <2>0. j \in 1 .. sp * size
    <3> DEFINE m == sp * size
    <3>1. m = n + pad
      OBVIOUS
    <3> HIDE DEF m
    <3>2. j \in 1 .. m
      BY <3>1
    <3> QED BY <3>2 DEF m
  <2>1. PICK r \in 1 .. sp : \E i \in 1 .. size : j = Place(r, size, i)
    BY <2>0, HasPlace
  <2>2. PICK i \in 1 .. size : j = Place(r, size, i)
    BY <2>1
  <2>3. all[j] = parts[r][i]
    BY <1>7, <2>2 DEF EqualBlocks
  <2> QED BY <1>4, <2>2, <2>3
<1>12. DOMAIN values = 1 .. n
  BY <1>10, LenProperties
<1>13. AreLogProbs(values, P, L, q, k, n)
  BY <1>10, <1>11, <1>12 DEF AreLogProbs
<1> QED BY <1>13 DEF values, parts, labels


LEMMA RowSizes ==
  ASSUME NEW mb, IsMicroBatch(mb)
  PROVE  /\ DOMAIN mb = 1 .. Len(mb) /\ Len(mb) \in Nat \ {0}
         /\ \A x \in 1 .. Len(mb) :
              Forward!FirstPlace(mb, x) \in Int /\ RowLength(mb, x) \in Nat \ {0}
<1>1. /\ Forward!PromptLength(mb) \in Nat /\ DOMAIN mb = 1 .. Len(mb)
      /\ \A r \in 1 .. Len(mb) : mb[r].prompt \in Nat \ {0} /\ mb[r].response \in Nat
  BY Widths
<1>2. \A x \in 1 .. Len(mb) :
        Forward!FirstPlace(mb, x) \in Int /\ RowLength(mb, x) \in Nat \ {0}
  BY <1>1 DEF RowLength, Forward!FirstPlace
<1> QED BY <1>1, <1>2 DEF IsMicroBatch

(* Where each token of the joined rows stands, and that there are no more. *)
TokensStand(mb, tokens, off) ==
  /\ Len(tokens) \in Nat \ {0}
  /\ \A x \in 1 .. Len(mb) : off[x - 1] \in Nat
  /\ \A x \in 1 .. Len(mb) : \A y \in 1 .. RowLength(mb, x) :
       /\ off[x - 1] + y \in 1 .. Len(tokens)
       /\ tokens[off[x - 1] + y].tok = Forward!Tok(x, Forward!FirstPlace(mb, x) + y - 1)
       /\ tokens[off[x - 1] + y].position = y - 1
  /\ \A j \in 1 .. Len(tokens) :
       \E x \in 1 .. Len(mb) : \E y \in 1 .. RowLength(mb, x) : j = off[x - 1] + y

LEMMA TokenOfRow ==
  ASSUME NEW mb, NEW tokens, NEW off, IsMicroBatch(mb), RowsJoined(mb, tokens, off)
  PROVE  TokensStand(mb, tokens, off)
<1>1. \A x \in 1 .. Len(mb) : off[x - 1] \in Nat
  <2>1. off \in [0 .. Len(mb) -> Nat] /\ Len(mb) \in Nat
    BY DEF RowsJoined, IsMicroBatch
  <2> QED BY <2>1
<1>2. ASSUME NEW x \in 1 .. Len(mb), NEW y \in 1 .. RowLength(mb, x)
      PROVE  /\ off[x - 1] + y \in 1 .. Len(tokens)
             /\ tokens[off[x - 1] + y].tok = Forward!Tok(x, Forward!FirstPlace(mb, x) + y - 1)
             /\ tokens[off[x - 1] + y].position = y - 1
  <2>1. /\ off[x - 1] + y \in 1 .. Len(tokens)
        /\ tokens[off[x - 1] + y]
             = [tok |-> Forward!Tok(x, Forward!FirstPlace(mb, x) + y - 1), position |-> y - 1]
    BY Zenon DEF RowsJoined
  <2> QED BY <2>1
<1> QED BY <1>1, <1>2, Zenon DEF RowsJoined, TokensStand

LEMMA FirstToken ==
  ASSUME NEW mb, NEW tokens, NEW off, IsMicroBatch(mb), RowsJoined(mb, tokens, off)
  PROVE  tokens[1].position = 0
<1>1. TokensStand(mb, tokens, off)
  BY TokenOfRow
<1>2. 1 \in 1 .. Len(tokens)
  BY <1>1 DEF TokensStand
<1>3. PICK x \in 1 .. Len(mb) : \E y \in 1 .. RowLength(mb, x) : 1 = off[x - 1] + y
  BY <1>1, <1>2, Zenon DEF TokensStand
<1>4. PICK y \in 1 .. RowLength(mb, x) : 1 = off[x - 1] + y
  BY <1>3
<1>5. off[x - 1] \in Nat /\ RowLength(mb, x) \in Nat
  BY <1>1, RowSizes DEF TokensStand
<1>6. y = 1
  BY <1>4, <1>5
<1>7. tokens[off[x - 1] + y].position = y - 1
  BY <1>1, Zenon DEF TokensStand
<1> QED BY <1>4, <1>6, <1>7

(* pad_input: each token's value is put back at its place in its row.      *)
IsPutBack(mb, values, off, r, i) ==
  Forward!PadInput(mb, values)[r][Forward!FirstPlace(mb, r) + i - 1] = << values[off[r - 1] + i] >>
LEMMA PutBack ==
  ASSUME NEW mb, NEW off, NEW values, NEW r \in 1 .. Len(mb), NEW i \in 1 .. RowLength(mb, r),
         IsMicroBatch(mb), RowsJoined(mb, Forward!UnpadInput(mb), off),
         DOMAIN values = 1 .. Len(Forward!UnpadInput(mb)),
         Forward!FirstPlace(mb, r) + i - 1 \in 1 .. Forward!SeqLength(mb)
  PROVE  IsPutBack(mb, values, off, r, i)
<1> DEFINE tokens == Forward!UnpadInput(mb)
           first(x) == Forward!FirstPlace(mb, x)
           p == first(r) + i - 1
           at == {j \in DOMAIN values : tokens[j].tok = Forward!Tok(r, p)}
<1>1. /\ DOMAIN mb = 1 .. Len(mb) /\ Len(mb) \in Nat
      /\ \A x \in 1 .. Len(mb) : first(x) \in Int /\ RowLength(mb, x) \in Nat
  BY RowSizes
<1>2. Forward!PadInput(mb, values)[r][p]
        = IF at = {} THEN << >> ELSE << values[CHOOSE j \in at : TRUE] >>
  BY <1>1, Zenon DEF Forward!PadInput
<1>3. \A x \in 1 .. Len(mb) : \A y \in 1 .. RowLength(mb, x) :
        /\ off[x - 1] + y \in 1 .. Len(tokens)
        /\ tokens[off[x - 1] + y].tok = [row |-> x, place |-> first(x) + y - 1]
  BY TokenOfRow DEF TokensStand, Forward!Tok
<1>4. \A j \in 1 .. Len(tokens) : \E x \in 1 .. Len(mb) : \E y \in 1 .. RowLength(mb, x) :
        j = off[x - 1] + y
  BY Zenon DEF RowsJoined
<1> HIDE DEF tokens, first
<1>5. at = {off[r - 1] + i}
  <2>1. off[r - 1] + i \in at
    BY <1>3 DEF Forward!Tok, tokens
  <2>2. ASSUME NEW j \in at PROVE j = off[r - 1] + i
    <3>1. PICK x \in 1 .. Len(mb) : \E y \in 1 .. RowLength(mb, x) : j = off[x - 1] + y
      BY <1>4 DEF tokens
    <3>2. PICK y \in 1 .. RowLength(mb, x) : j = off[x - 1] + y
      BY <3>1
    <3>3. [row |-> x, place |-> first(x) + y - 1] = [row |-> r, place |-> p]
      BY <1>3, <3>2 DEF Forward!Tok
    <3>4. x = r /\ first(x) + y - 1 = first(r) + i - 1
      BY <3>3
    <3>5. y = i
      BY <1>1, <3>4
    <3> QED BY <3>2, <3>4, <3>5
  <2> HIDE DEF at
  <2> QED BY <2>1, <2>2
<1> HIDE DEF at
<1>6. (CHOOSE j \in at : TRUE) = off[r - 1] + i /\ at # {}
  BY <1>5
<1> QED BY <1>2, <1>6 DEF p, first, IsPutBack

(* A row's tokens are attended to from its own first one on.               *)
LEMMA RowBegins ==
  ASSUME NEW mb, NEW tokens, NEW off, NEW P, NEW r \in 1 .. Len(mb),
         NEW i \in 1 .. RowLength(mb, r),
         IsMicroBatch(mb), RowsJoined(mb, tokens, off), P \in Seq(TokenSet),
         Len(P) >= Len(tokens), \A j \in 1 .. Len(tokens) : P[j] = tokens[j]
  PROVE  /\ Forward!Begins(PositionsOf(P), off[r - 1] + i) = off[r - 1] + 1
         /\ off[r - 1] \in Nat
         /\ \A y \in 1 .. RowLength(mb, r) :
              /\ off[r - 1] + y \in 1 .. Len(tokens)
              /\ P[off[r - 1] + y].tok = Forward!Tok(r, Forward!FirstPlace(mb, r) + y - 1)
<1> DEFINE a == off[r - 1]
           j == a + i
           n == Len(tokens)
           positions == PositionsOf(P)
           b == Forward!Begins(positions, j)
<1>1. RowLength(mb, r) \in Nat /\ Len(mb) \in Nat
  BY RowSizes
<1>2. a \in Nat /\ n \in Nat \ {0}
  BY TokenOfRow DEF TokensStand
<1>3. \A y \in 1 .. RowLength(mb, r) :
        /\ a + y \in 1 .. n
        /\ tokens[a + y].tok = Forward!Tok(r, Forward!FirstPlace(mb, r) + y - 1)
        /\ tokens[a + y].position = y - 1
  <2>1. TokensStand(mb, tokens, off)
    BY TokenOfRow
  <2> QED BY <2>1, Zenon DEF TokensStand
<1> HIDE DEF a, n
<1>4. Len(P) \in Nat /\ DOMAIN P = 1 .. Len(P) /\ Len(P) >= n
  BY LenProperties DEF n
<1>5. ASSUME NEW y \in 1 .. RowLength(mb, r)
      PROVE  /\ P[a + y].tok = Forward!Tok(r, Forward!FirstPlace(mb, r) + y - 1)
             /\ positions[a + y] = y - 1
  <2>1. a + y \in 1 .. n
    BY <1>3
  <2>2. P[a + y] = tokens[a + y]
    BY <2>1 DEF n
  <2>3. a + y \in DOMAIN P
    BY <1>2, <1>4, <2>1
  <2>4. P[a + y].tok = Forward!Tok(r, Forward!FirstPlace(mb, r) + y - 1)
        /\ P[a + y].position = y - 1
    BY <1>3, <2>2
  <2> QED BY <2>3, <2>4 DEF PositionsOf
<1>6. positions[1] = 0
  <2>1. tokens[1].position = 0
    BY FirstToken
  <2>2. P[1] = tokens[1] /\ 1 \in DOMAIN P
    BY <1>2, <1>4 DEF n
  <2> QED BY <2>1, <2>2 DEF PositionsOf
<1>7. j \in 1 .. n /\ n \in Nat
  BY <1>2, <1>3
<1>8. /\ b \in 1 .. j /\ positions[b] = 0
      /\ \A x \in 1 .. j : positions[x] = 0 => x <= b
  <2> HIDE DEF j, positions
  <2> QED BY <1>6, <1>7, BeginsBefore
<1> HIDE DEF positions, b
<1>9. b >= a + 1
  <2>1. positions[a + 1] = 0 /\ a + 1 \in 1 .. j
    BY <1>1, <1>2, <1>5
  <2> QED BY <1>8, <2>1
<1>10. ASSUME b > a + 1 PROVE FALSE
  <2> DEFINE y == b - a
  <2>1. y \in 2 .. i /\ y \in 1 .. RowLength(mb, r) /\ a + y = b
    BY <1>1, <1>2, <1>8, <1>10
  <2> HIDE DEF y
  <2>2. positions[b] = y - 1
    BY <1>5, <2>1
  <2> QED BY <1>8, <2>1, <2>2
<1>11. b = a + 1
  BY <1>2, <1>8, <1>9, <1>10
<1> QED BY <1>2, <1>3, <1>5, <1>11 DEF b, positions, a, n

(* So what a token's hidden state is computed from is named by places.     *)
HiddenInRow(mb, q, k, r, i) ==
  [h \in 1 .. q |->
     [of |-> [tok |-> Forward!Tok(r, Forward!FirstPlace(mb, r) + i - 1), head |-> h],
      to |-> {[tok |-> Forward!Tok(r, p), head |-> ((h - 1) \div (q \div k)) + 1] :
                p \in Forward!FirstPlace(mb, r) .. Forward!FirstPlace(mb, r) + i - 1}]]
LEMMA HiddenOfRow ==
  ASSUME NEW mb, NEW tokens, NEW off, NEW P, NEW q, NEW k, NEW r \in 1 .. Len(mb),
         NEW i \in 1 .. RowLength(mb, r),
         IsMicroBatch(mb), RowsJoined(mb, tokens, off), P \in Seq(TokenSet),
         Len(P) >= Len(tokens), \A j \in 1 .. Len(tokens) : P[j] = tokens[j]
  PROVE  HiddenOf(P, q, k, off[r - 1] + i) = HiddenInRow(mb, q, k, r, i)
<1> DEFINE first == Forward!FirstPlace(mb, r)
           a == off[r - 1]
<1>1. /\ Forward!Begins(PositionsOf(P), a + i) = a + 1 /\ a \in Nat
      /\ \A y \in 1 .. RowLength(mb, r) : P[a + y].tok = Forward!Tok(r, first + y - 1)
  BY RowBegins
<1>2. first \in Int /\ RowLength(mb, r) \in Nat
  BY RowSizes
<1> HIDE DEF first, a
<1>3. ASSUME NEW h \in 1 .. q
      PROVE  {[tok |-> P[x].tok, head |-> ((h - 1) \div (q \div k)) + 1] : x \in a + 1 .. a + i}
             = {[tok |-> Forward!Tok(r, p), head |-> ((h - 1) \div (q \div k)) + 1] :
                  p \in first .. first + i - 1}
  <2> DEFINE K == ((h - 1) \div (q \div k)) + 1
  <2> HIDE DEF K
  <2>1. ASSUME NEW x \in a + 1 .. a + i
        PROVE  \E p \in first .. first + i - 1 :
                 [tok |-> P[x].tok, head |-> K] = [tok |-> Forward!Tok(r, p), head |-> K]
    <3> DEFINE y == x - a
               p == first + y - 1
    <3>1. y \in 1 .. i /\ y \in 1 .. RowLength(mb, r) /\ a + y = x
      BY <1>1, <1>2
    <3> HIDE DEF y
    <3>2. p \in first .. first + i - 1
      BY <1>2, <3>1
    <3>3. P[x].tok = Forward!Tok(r, p)
      BY <1>1, <3>1
    <3> HIDE DEF p
    <3> QED BY <3>2, <3>3
  <2>2. ASSUME NEW p \in first .. first + i - 1
        PROVE  \E x \in a + 1 .. a + i :
                 [tok |-> Forward!Tok(r, p), head |-> K] = [tok |-> P[x].tok, head |-> K]
    <3> DEFINE y == p - first + 1
               x == a + y
    <3>1. y \in 1 .. i /\ y \in 1 .. RowLength(mb, r) /\ first + y - 1 = p
      BY <1>2
    <3> HIDE DEF y
    <3>2. x \in a + 1 .. a + i
      BY <1>1, <3>1
    <3>3. P[x].tok = Forward!Tok(r, p)
      BY <1>1, <3>1
    <3> HIDE DEF x
    <3> QED BY <3>2, <3>3
  <2>3. {[tok |-> P[x].tok, head |-> K] : x \in a + 1 .. a + i}
          = {[tok |-> Forward!Tok(r, p), head |-> K] : p \in first .. first + i - 1}
    <3> DEFINE of(x) == [tok |-> P[x].tok, head |-> K]
               to(p) == [tok |-> Forward!Tok(r, p), head |-> K]
    <3>1. \A x \in a + 1 .. a + i : \E p \in first .. first + i - 1 : of(x) = to(p)
      BY <2>1, Zenon
    <3>2. \A p \in first .. first + i - 1 : \E x \in a + 1 .. a + i : to(p) = of(x)
      BY <2>2, Zenon
    <3> HIDE DEF of, to
    <3>3. {of(x) : x \in a + 1 .. a + i} = {to(p) : p \in first .. first + i - 1}
      BY <3>1, <3>2
    <3> QED BY <3>3, Zenon DEF of, to
  <2> QED BY <2>3 DEF K
<1>4. P[a + i].tok = Forward!Tok(r, first + i - 1)
  BY <1>1
<1>5. HiddenOf(P, q, k, a + i)
        = [h \in 1 .. q |->
             [of |-> [tok |-> Forward!Tok(r, first + i - 1), head |-> h],
              to |-> {[tok |-> P[x].tok, head |-> ((h - 1) \div (q \div k)) + 1] :
                        x \in a + 1 .. a + i}]]
  BY <1>1, <1>4, Zenon DEF HiddenOf
<1>6. HiddenOf(P, q, k, a + i)
        = [h \in 1 .. q |->
             [of |-> [tok |-> Forward!Tok(r, first + i - 1), head |-> h],
              to |-> {[tok |-> Forward!Tok(r, p), head |-> ((h - 1) \div (q \div k)) + 1] :
                        p \in first .. first + i - 1}]]
  BY <1>3, <1>5, Zenon
<1> QED BY <1>6, Zenon DEF first, a, HiddenInRow


(* The values that are gathered, one for each token.                       *)
LEMMA ValuesOfTokens ==
  ASSUME NEW mb, NEW off, NEW sp, NEW q, NEW k, IsMicroBatch(mb), HeadsFit(sp, q, k),
         RowsJoined(mb, Forward!UnpadInput(mb), off)
  PROVE  LET tokens == Forward!UnpadInput(mb)
             P == Forward!UlyssesPad(tokens, sp)
             L == Forward!UlyssesPad(Forward!Labels(tokens), sp)
             hidden == Forward!UlyssesAttention(Forward!Sliced(P, sp), q, k)
         IN  AreLogProbs(
               Forward!GatherOutputsAndUnpad(
                 LogProbsOn(Forward!Sliced(L, sp), hidden, sp),
                 Forward!UlyssesPadSize(Len(tokens), sp)),
               P, L, q, k, Len(tokens))
<1> DEFINE tokens == Forward!UnpadInput(mb)
           n == Len(tokens)
           pad == Forward!UlyssesPadSize(n, sp)
           P == Forward!UlyssesPad(tokens, sp)
           labels == Forward!Labels(tokens)
           L == Forward!UlyssesPad(labels, sp)
           hidden == Forward!UlyssesAttention(Forward!Sliced(P, sp), q, k)
<1>1. tokens \in Seq(TokenSet) /\ n \in Nat \ {0} /\ tokens[1].position = 0
  <2>1. tokens \in Seq(TokenSet) /\ n \in Nat \ {0}
    BY Zenon DEF RowsJoined
  <2> HIDE DEF tokens
  <2>2. tokens[1].position = 0
    BY FirstToken DEF tokens
  <2> QED BY <2>1, <2>2
<1>2. sp \in Nat \ {0}
  BY DEF HeadsFit
<1> HIDE DEF tokens
<1>3. PICK size \in Nat \ {0} : n + pad = sp * size
  BY <1>1, <1>2, RanksShareEqually
<1>4. pad \in Nat
  BY <1>1, <1>2, RanksShareEqually
<1>5. /\ P \in Seq(TokenSet) /\ Len(P) = n + pad
      /\ \A j \in 1 .. n : P[j] = tokens[j]
  BY <1>1, <1>2, PaddedTokens
<1>6. labels \in Seq(TokenSet) /\ Len(labels) = n
  BY <1>1, LabelIsNext
<1>7. L \in Seq(TokenSet) /\ Len(L) = n + pad
  <2> HIDE DEF labels
  <2> QED BY <1>1, <1>2, <1>6, PaddedTokens
<1> HIDE DEF P, L, n, pad
<1>8. P[1].position = 0
  <2>1. 1 \in 1 .. n
    BY <1>1
  <2> QED BY <1>1, <1>5, <2>1
<1>9. \A rank \in 1 .. sp : \A i \in 1 .. size :
        hidden[rank][i] = HiddenOf(P, q, k, Place(rank, size, i))
  <2>1. Len(P) = sp * size
    BY <1>3, <1>5
  <2> QED BY <1>5, <1>8, <2>1, UlyssesIsAttention
<1> HIDE DEF hidden
<1>10. Len(L) = sp * size
  BY <1>3, <1>7
<1>11. AreLogProbs(Forward!GatherOutputsAndUnpad(
                     LogProbsOn(Forward!Sliced(L, sp), hidden, sp), pad), P, L, q, k, n)
  BY <1>1, <1>2, <1>3, <1>4, <1>7, <1>9, <1>10, GatheredLogProbs
<1> QED BY <1>11, Zenon DEF P, L, labels, n, pad, hidden, tokens

NextToken(mb, q, k, r, x) ==
  << [label |-> Forward!Tok(r, Forward!PromptLength(mb) + x),
      from |-> [h \in 1 .. q |->
        [of |-> [tok |-> Forward!Tok(r, Forward!PromptLength(mb) + x - 1), head |-> h],
         to |-> {[tok |-> Forward!Tok(r, p), head |-> ((h - 1) \div (q \div k)) + 1] :
                   p \in Forward!FirstPlace(mb, r) .. Forward!PromptLength(mb) + x - 1}]]] >>
LEMMA ForwardIsOfNextTokens ==
  ASSUME NEW mb, NEW sp, NEW q, NEW k, IsMicroBatch(mb), HeadsFit(sp, q, k),
         NEW r \in 1 .. Len(mb), NEW x \in 1 .. mb[r].response
  PROVE  Forward!ForwardMicroBatch(mb, sp, q, k)[r][x] = NextToken(mb, q, k, r, x)
<1> DEFINE tokens == Forward!UnpadInput(mb)
           n == Len(tokens)
           pad == Forward!UlyssesPadSize(n, sp)
           P == Forward!UlyssesPad(tokens, sp)
           labels == Forward!Labels(tokens)
           L == Forward!UlyssesPad(labels, sp)
           hidden == Forward!UlyssesAttention(Forward!Sliced(P, sp), q, k)
           values == Forward!GatherOutputsAndUnpad(
                       LogProbsOn(Forward!Sliced(L, sp), hidden, sp), pad)
           full == Forward!PadInput(mb, values)
           before == Forward!PromptLength(mb)
           all == Forward!SeqLength(mb)
           first == Forward!FirstPlace(mb, r)
           i == mb[r].prompt + x - 1
<1>1. /\ before \in Nat /\ Forward!ResponseWidth(mb) \in Nat /\ DOMAIN mb = 1 .. Len(mb)
      /\ mb[r].prompt \in Nat \ {0} /\ mb[r].response \in Nat
      /\ mb[r].prompt <= before /\ mb[r].response <= Forward!ResponseWidth(mb)
  BY Widths
<1>2. /\ first + i - 1 = before + x - 1
      /\ i \in 1 .. RowLength(mb, r) /\ i + 1 \in 1 .. RowLength(mb, r)
      /\ first + (i + 1) - 1 = before + x
      /\ all \in Nat /\ before + x - 1 \in 1 .. all
      /\ x \in 1 .. all - before /\ before \in Nat \ {0}
  <2> DEFINE a == mb[r].prompt
             c == mb[r].response
             w == Forward!ResponseWidth(mb)
  <2>1. /\ first = before - a + 1 /\ all = before + w /\ i = a + x - 1
        /\ RowLength(mb, r) = a + c
    BY DEF RowLength, Forward!FirstPlace, Forward!SeqLength
  <2>2. /\ before \in Nat /\ w \in Nat /\ a \in Nat \ {0} /\ c \in Nat
        /\ a <= before /\ c <= w /\ x \in 1 .. c
    BY <1>1
  <2> HIDE DEF a, c, w, first, before, all, i
  <2> QED BY <2>1, <2>2
<1>3. Forward!ForwardMicroBatch(mb, sp, q, k)[r][x] = full[r][before + x - 1]
  <2>1. Forward!ForwardMicroBatch(mb, sp, q, k)[r] = SubSeq(full[r], before, all - 1)
    BY <1>1, Zenon DEF Forward!ForwardMicroBatch, LogProbsOn
  <2> HIDE DEF full, all, before
  <2>2. SubSeq(full[r], before, all - 1)[x] = full[r][before + x - 1]
    <3> DEFINE s == full[r]
               S == {s[y] : y \in before .. all - 1}
    <3>1. \A y \in before .. all - 1 : s[y] \in S
      OBVIOUS
    <3> HIDE DEF s, S
    <3>2. before \in Int /\ all - 1 \in Int /\ x \in 1 .. (all - 1) - before + 1
      BY <1>2
    <3>3. SubSeq(s, before, all - 1)[x] = s[before + x - 1]
      BY <3>1, <3>2, SubSeqProperties
    <3> QED BY <3>3 DEF s
  <2> QED BY <2>1, <2>2
<1>4. PICK off : RowsJoined(mb, tokens, off)
  BY RowsOfTokens
<1>5. AreLogProbs(values, P, L, q, k, n)
  BY <1>4, ValuesOfTokens
<1>6. DOMAIN values = 1 .. n
  <2> HIDE DEF values, P, L
  <2> QED BY <1>5 DEF AreLogProbs
<1> DEFINE j == off[r - 1] + i
<1>7. full[r][before + x - 1] = << values[j] >>
  <2> HIDE DEF values, first, i
  <2>1. Forward!PadInput(mb, values)[r][first + i - 1] = << values[off[r - 1] + i] >>
    <3>1. first + i - 1 \in 1 .. all
      BY <1>2
    <3>2. IsPutBack(mb, values, off, r, i)
      BY <1>2, <1>4, <1>6, <3>1, PutBack DEF first
    <3> QED BY <3>2 DEF first, IsPutBack
  <2> QED BY <1>2, <2>1
<1> HIDE DEF values, full, all
<1>8. /\ tokens \in Seq(TokenSet) /\ n \in Nat \ {0}
      /\ j \in 1 .. n /\ j \in 1 .. n - 1
      /\ tokens[j + 1].tok = Forward!Tok(r, before + x)
  <2> HIDE DEF i, first, tokens, before
  <2>1. tokens \in Seq(TokenSet)
    BY <1>4 DEF RowsJoined
  <2>2. /\ n \in Nat \ {0} /\ off[r - 1] \in Nat
        /\ off[r - 1] + i \in 1 .. n /\ off[r - 1] + (i + 1) \in 1 .. n
        /\ tokens[off[r - 1] + (i + 1)].tok
             = Forward!Tok(r, Forward!FirstPlace(mb, r) + (i + 1) - 1)
    <3>1. /\ Len(tokens) \in Nat \ {0} /\ off[r - 1] \in Nat
          /\ \A y \in 1 .. RowLength(mb, r) :
               /\ off[r - 1] + y \in 1 .. Len(tokens)
               /\ tokens[off[r - 1] + y].tok
                    = Forward!Tok(r, Forward!FirstPlace(mb, r) + y - 1)
      <4>1. TokensStand(mb, tokens, off)
        BY <1>4, TokenOfRow
      <4> QED BY <4>1, Zenon DEF TokensStand
    <3> DEFINE y2 == i + 1
    <3>2. y2 \in 1 .. RowLength(mb, r)
      BY <1>2
    <3> HIDE DEF y2
    <3>3. /\ off[r - 1] + y2 \in 1 .. n
          /\ tokens[off[r - 1] + y2].tok
               = Forward!Tok(r, Forward!FirstPlace(mb, r) + y2 - 1)
      BY <3>1, <3>2, Zenon
    <3> QED BY <1>2, <3>1, <3>3 DEF y2
  <2>3. i \in Int /\ off[r - 1] + (i + 1) = j + 1
    <3>1. RowLength(mb, r) \in Nat
      BY RowSizes
    <3>2. i \in Int
      BY <1>2, <3>1
    <3> QED BY <2>2, <3>2
  <2>4. j \in 1 .. n /\ j + 1 \in 1 .. n /\ j \in Int
    BY <2>2, <2>3
  <2>5. tokens[j + 1].tok = Forward!Tok(r, before + x)
    BY <1>2, <2>2, <2>3, Zenon DEF first
  <2> HIDE DEF j, n
  <2> QED BY <2>1, <2>2, <2>4, <2>5
<1> HIDE DEF tokens
<1>9. sp \in Nat \ {0}
  BY DEF HeadsFit
<1>10. /\ P \in Seq(TokenSet) /\ Len(P) >= n
       /\ \A y \in 1 .. n : P[y] = tokens[y]
  <2>1. /\ P \in Seq(TokenSet) /\ Len(P) = n + pad
        /\ \A y \in 1 .. n : P[y] = tokens[y]
    BY <1>8, <1>9, PaddedTokens
  <2>2. pad \in Nat
    BY <1>8, <1>9, RanksShareEqually
  <2> QED BY <1>8, <2>1, <2>2
<1>11. L[j].tok = Forward!Tok(r, before + x)
  <2> HIDE DEF j
  <2>1. /\ labels \in Seq(TokenSet) /\ Len(labels) = n /\ labels[j] = tokens[j + 1]
    BY <1>8, LabelIsNext
  <2> HIDE DEF labels
  <2>2. \A y \in 1 .. n : L[y] = labels[y]
    <3>1. \A y \in 1 .. Len(labels) : L[y] = labels[y]
      BY <1>8, <1>9, <2>1, PaddedTokens
    <3> QED BY <2>1, <3>1
  <2> QED BY <1>8, <2>1, <2>2
<1> HIDE DEF P, L, n
<1>12. values[j] = [from |-> HiddenOf(P, q, k, j), label |-> L[j].tok]
  BY <1>5, <1>8 DEF AreLogProbs
<1>13. HiddenOf(P, q, k, j)
         = [h \in 1 .. q |->
             [of |-> [tok |-> Forward!Tok(r, first + i - 1), head |-> h],
              to |-> {[tok |-> Forward!Tok(r, p), head |-> ((h - 1) \div (q \div k)) + 1] :
                        p \in first .. first + i - 1}]]
  <2> HIDE DEF i
  <2>1. \A y \in 1 .. Len(tokens) : P[y] = tokens[y]
    BY <1>10 DEF n
  <2>2. Len(P) >= Len(tokens)
    BY <1>10 DEF n
  <2>3. HiddenOf(P, q, k, j) = HiddenInRow(mb, q, k, r, i)
    BY <1>2, <1>4, <1>10, <2>1, <2>2, HiddenOfRow
  <2> QED BY <2>3, Zenon DEF HiddenInRow
<1>14. HiddenOf(P, q, k, j)
         = [h \in 1 .. q |->
             [of |-> [tok |-> Forward!Tok(r, before + x - 1), head |-> h],
              to |-> {[tok |-> Forward!Tok(r, p), head |-> ((h - 1) \div (q \div k)) + 1] :
                        p \in first .. before + x - 1}]]
  <2>1. first + i - 1 = before + x - 1
    BY <1>2
  <2> HIDE DEF i, first, before
  <2> QED BY <1>13, <2>1, Zenon
<1> DEFINE hid == HiddenOf(P, q, k, j)
<1> HIDE DEF j, hid
<1>15. values[j] = [label |-> Forward!Tok(r, before + x), from |-> hid]
  BY <1>11, <1>12 DEF hid
<1>16. Forward!ForwardMicroBatch(mb, sp, q, k)[r][x]
         = << [label |-> Forward!Tok(r, before + x), from |-> hid] >>
  BY <1>3, <1>7, <1>15, Zenon
<1> QED BY <1>14, <1>16, Zenon DEF hid, before, first, NextToken


-----------------------------------------------------------------------------
(* The result is what the forward pass computes of the micro-batch.        *)
ForwardInv ==
  task = "forward" =>
    /\ input \in MicroBatchRows \X SpSizes \X HeadCounts
    /\ result # None =>
         result = Forward!ForwardMicroBatch(input[1], input[2], input[3].q, input[3].k)

LEMMA ForwardInit == Init => ForwardInv
BY DEF Init, ForwardInv

LEMMA ForwardStep ==
  ASSUME ForwardInv, [Next]_vars
  PROVE  ForwardInv'
<1>1. CASE ForwardPass
  <2>1. task = "forward" /\ task' = task /\ input' = input
    BY <1>1, Zenon DEF ForwardPass, Compute
  <2>2. result' = Forward!ForwardMicroBatch(input[1], input[2], input[3].q, input[3].k)
    BY <1>1, Zenon DEF ForwardPass, Compute
  <2> QED BY <2>1, <2>2, Zenon DEF ForwardInv
<1>2. CASE Balance \/ Rearrange \/ EstimateAll
  <2>1. task' # "forward"
    <3>1. task' \in {"balance", "micro_batches", "estimate"}
      BY <1>2, Zenon DEF Balance, Rearrange, EstimateAll, Compute
    <3> QED BY <3>1
  <2> QED BY <2>1 DEF ForwardInv
<1>3. CASE RowsNext
  <2>1. Step
    BY <1>3 DEF RowsNext, RepeatRows, RepeatByCount, ReverseRows, DropRow, SplitAndConcat,
                PadRows, UnpadRows, CallMesh, CallOnAnswer, CallPadded
  <2> QED BY <2>1 DEF Step, ForwardInv
<1>4. ASSUME NEW batch, LearnWeights(batch) PROVE ForwardInv'
  BY <1>4 DEF LearnWeights, ForwardInv
<1>5. CASE Finished \/ UNCHANGED vars
  BY <1>5 DEF Finished, vars, ForwardInv
<1> QED BY <1>1, <1>2, <1>3, <1>4, <1>5 DEF Next

(* dp_actor._forward_micro_batch: for micro-batches of any rows, any       *)
(* number of ranks and any heads that they can share, a log-probability is *)
(* that of the token at its own place of its own row, computed by every    *)
(* head from exactly the tokens of that row before it.                     *)
THEOREM LogProbsAlwaysOfNextTokens == Spec => []LogProbsOfNextTokens
<1>1. Init => ForwardInv
  BY ForwardInit
<1>2. ForwardInv /\ [Next]_vars => ForwardInv'
  BY ForwardStep
<1>3. ForwardInv => LogProbsOfNextTokens
  <2> SUFFICES ASSUME ForwardInv, task = "forward", result # None,
                      NEW r \in DOMAIN input[1], NEW x \in 1 .. input[1][r].response
               PROVE  result[r][x] =
                 << [label |-> Forward!Tok(r, Forward!PromptLength(input[1]) + x),
                     from |-> [h \in 1 .. input[3].q |->
                       [of |-> [tok |-> Forward!Tok(r, Forward!PromptLength(input[1]) + x - 1),
                                head |-> h],
                        to |-> {[tok |-> Forward!Tok(r, p),
                                 head |-> ((h - 1) \div (input[3].q \div input[3].k)) + 1] :
                                  p \in Forward!FirstPlace(input[1], r)
                                          .. Forward!PromptLength(input[1]) + x - 1}]]] >>
    BY Zenon DEF LogProbsOfNextTokens
  <2> DEFINE mb == input[1]
             sp == input[2]
             q == input[3].q
             k == input[3].k
  <2>1. /\ mb \in MicroBatchRows /\ sp \in SpSizes /\ input[3] \in HeadCounts
        /\ result = Forward!ForwardMicroBatch(mb, sp, q, k)
    BY DEF ForwardInv
  <2>2. HeadsFit(sp, q, k)
    BY <2>1, ForwardAssumption DEF HeadsFit
  <2>3. mb \in Seq([prompt : Nat \ {0}, response : Nat])
    BY <2>1, ForwardAssumption
  <2>4. r \in DOMAIN mb /\ x \in 1 .. mb[r].response
    OBVIOUS
  <2>5. result[r][x] =
          << [label |-> Forward!Tok(r, Forward!PromptLength(mb) + x),
              from |-> [h \in 1 .. q |->
                [of |-> [tok |-> Forward!Tok(r, Forward!PromptLength(mb) + x - 1), head |-> h],
                 to |-> {[tok |-> Forward!Tok(r, p), head |-> ((h - 1) \div (q \div k)) + 1] :
                           p \in Forward!FirstPlace(mb, r)
                                   .. Forward!PromptLength(mb) + x - 1}]]] >>
    <3> HIDE DEF mb, sp, q, k
    <3>1. IsMicroBatch(mb) /\ r \in 1 .. Len(mb)
      <4>1. Len(mb) \in Nat /\ DOMAIN mb = 1 .. Len(mb)
        BY <2>3, LenProperties
      <4> QED BY <2>3, <2>4, <4>1 DEF IsMicroBatch
    <3>2. Forward!ForwardMicroBatch(mb, sp, q, k)[r][x] = NextToken(mb, q, k, r, x)
      BY <2>2, <2>4, <3>1, ForwardIsOfNextTokens
    <3> QED BY <2>1, <3>2, Zenon DEF NextToken
  <2> QED BY <2>5, Zenon
<1> QED BY <1>1, <1>2, <1>3, PTL DEF Spec


=============================================================================
