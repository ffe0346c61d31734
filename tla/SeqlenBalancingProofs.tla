------------------------ MODULE SeqlenBalancingProofs ------------------------
(***************************************************************************)
(* Proofs about SeqlenBalancing: whichever way rows are divided, every row *)
(* is in exactly one part, no part is empty, parts are of one size where   *)
(* that is asked for, and the heaviest part exceeds the lightest by one    *)
(* row at most; putting results back in order undoes the split.            *)
(*                                                                         *)
(* The argument follows the pool of states: merging two of them pairs the  *)
(* sets of one with the sets of the other, so the union over the pool      *)
(* never loses or repeats a row, and with one state left it is the result. *)
(* Fair is what a merger keeps: it pairs the heaviest set of one state     *)
(* with the lightest of the other, so the spread does not grow.  The       *)
(* greedy way keeps GreedySoFar after every row: with equal sizes the bias *)
(* outweighs all rows, so the part that a row joins is one of the shortest.*)
(*                                                                         *)
(* The first part holds general facts about sequences, which the proofs    *)
(* about the loops, the batch and the actor's update cite, too: induction  *)
(* over the length of a sequence as a fact about sets of numbers,          *)
(* recursive functions by their equation, and what inserting, flattening,  *)
(* cutting and mapping a sequence does to its members, number and sum.     *)
(***************************************************************************)
EXTENDS SeqlenBalancing, SequenceTheorems, FiniteSetTheorems, FunctionTheorems,
        WellFoundedInduction, TLAPS

-----------------------------------------------------------------------------
(* Sequences.                                                              *)

(* A set of natural numbers that is not empty has a least member.          *)
LEMMA LeastElement ==
  ASSUME NEW S \in SUBSET Nat, S # {}
  PROVE  \E x \in S : \A y \in S : x <= y
<1> DEFINE R == {ss \in Nat \X Nat : ss[1] < ss[2]}
<1>1. IsWellFoundedOn(R, Nat)
  <2>1. R = OpToRel(<, Nat)
    BY Zenon DEF OpToRel
  <2> QED
    BY <2>1, NatLessThanWellFounded, Zenon
<1>2. \A x, y \in Nat : <<y, x>> \in R <=> y < x
  OBVIOUS
<1> HIDE DEF R
<1>3. PICK x \in S : \A y \in S : ~ (<<y, x>> \in R)
  BY <1>1, WFMin, Zenon
<1>4. ASSUME NEW y \in S PROVE x <= y
  <2>1. ~ (y < x)
    BY <1>2, <1>3, Zenon
  <2> QED
    BY <2>1
<1> QED
  BY <1>4

(* Induction up to n, about a set of numbers: what 0 has and every         *)
(* successor takes over, n has.                                            *)
LEMMA Induction ==
  ASSUME NEW n \in Nat, NEW S, 0 \in S,
         \A k \in 0 .. n - 1 : k \in S => k + 1 \in S
  PROVE  n \in S
<1> SUFFICES ASSUME n \notin S PROVE FALSE
  OBVIOUS
<1> DEFINE T == {k \in 0 .. n : k \notin S}
<1>0. T \in SUBSET Nat /\ T # {}
  OBVIOUS
<1> HIDE DEF T
<1>1. PICK k \in T : \A l \in T : k <= l
  BY <1>0, LeastElement
<1> USE DEF T
<1>2. k - 1 \in 0 .. n - 1 /\ k - 1 \in S
  BY <1>1
<1> QED
  BY <1>1, <1>2

(* f starts with a and goes on with the steps F.                           *)
Steps(T, n, F) == n \in Nat /\ F \in [1 .. n -> [T -> T]]
Follows(f, a, T, n, F) ==
  /\ f \in [0 .. n -> T]
  /\ f[0] = a
  /\ \A k \in 1 .. n : f[k] = F[k][f[k - 1]]

(* A function on 0 .. n that is defined step by step exists. Every         *)
(* recursive function of the model is of this form, so what it computes    *)
(* can be unfolded.                                                        *)
LEMMA Recursion ==
  ASSUME NEW T, NEW a \in T, NEW n, NEW F, Steps(T, n, F)
  PROVE  \E f : Follows(f, a, T, n, F)
<1> DEFINE S == {m \in 0 .. n : \E f : Follows(f, a, T, m, F)}
<1>1. n \in Nat
  BY DEF Steps
<1>2. 0 \in S
  <2>1. Follows([k \in 0 .. 0 |-> a], a, T, 0, F)
    BY DEF Follows
  <2> QED BY <1>1, <2>1
<1>3. ASSUME NEW m \in 0 .. n - 1, m \in S PROVE m + 1 \in S
  <2>1. PICK f : Follows(f, a, T, m, F)
    BY <1>3
  <2> DEFINE g == [k \in 0 .. m + 1 |-> IF k = m + 1 THEN F[k][f[m]] ELSE f[k]]
  <2>2. F[m + 1] \in [T -> T] /\ f[m] \in T
    BY <1>1, <2>1 DEF Steps, Follows
  <2>3. g \in [0 .. m + 1 -> T]
    BY <1>1, <2>1, <2>2 DEF Follows
  <2>4. \A k \in 1 .. m + 1 : g[k] = F[k][g[k - 1]]
    BY <1>1, <2>1 DEF Follows
  <2>5. Follows(g, a, T, m + 1, F)
    BY <1>1, <2>1, <2>3, <2>4 DEF Follows
  <2> HIDE DEF g
  <2> QED BY <1>1, <2>5
<1> HIDE DEF S
<1>4. n \in S
  BY <1>1, <1>2, <1>3, Induction
<1> QED BY <1>4 DEF S

(* The concatenations of the first k sequences of s.                       *)
Concatenations(f, X, n, s) ==
  /\ f \in [0 .. n -> Seq(X)]
  /\ f[0] = << >>
  /\ \A k \in 1 .. n : f[k] = f[k - 1] \o s[k]

(* There is a function that concatenates one sequence after the other.     *)
LEMMA ConcatenationsExist ==
  ASSUME NEW X, NEW n \in Nat, NEW s \in [1 .. n -> Seq(X)]
  PROVE  \E f : Concatenations(f, X, n, s)
<1> DEFINE U == Seq(X)
           G == [k \in 1 .. n |-> [x \in U |-> x \o s[k]]]
           e == << >>
<1>1. Steps(U, n, G) /\ e \in U
  BY DEF Steps
<1>2. \A k \in 1 .. n, x \in U : G[k][x] = x \o s[k]
  OBVIOUS
<1> HIDE DEF G, U, e
<1>3. PICK f : Follows(f, e, U, n, G)
  BY <1>1, Recursion, Zenon
<1>4. /\ f \in [0 .. n -> U] /\ f[0] = e
      /\ \A k \in 1 .. n : f[k] = G[k][f[k - 1]]
  BY <1>3 DEF Follows
<1>5. ASSUME NEW k \in 1 .. n PROVE f[k] = f[k - 1] \o s[k]
  <2>1. f[k - 1] \in U
    BY <1>4, k - 1 \in 0 .. n
  <2> QED BY <1>2, <1>4, <2>1
<1> QED BY <1>4, <1>5 DEF U, e, Concatenations

(* FlattenSeq returns the last of the concatenations.                      *)
LEMMA FlattenByPrefixes ==
  ASSUME NEW X, NEW s \in Seq(Seq(X))
  PROVE  \E f : Concatenations(f, X, Len(s), s) /\ FlattenSeq(s) = f[Len(s)]
<1> DEFINE n == Len(s)
           step(h) == [i \in 1 .. n |-> IF i = 1 THEN s[i] ELSE h[i - 1] \o s[i]]
<1>1. n \in Nat /\ s \in [1 .. n -> Seq(X)] /\ (n = 0 => s = << >>)
  <2>1. n \in Nat /\ s \in [1 .. n -> Seq(X)]
    BY LenProperties
  <2>2. s # << >> => n \in Nat \ {0}
    BY EmptySeq, Zenon
  <2> QED BY <2>1, <2>2
<1> HIDE DEF n
<1>2. PICK f : Concatenations(f, X, n, s)
  BY <1>1, ConcatenationsExist
<1>20. /\ f \in [0 .. n -> Seq(X)] /\ f[0] = << >>
       /\ \A k \in 1 .. n : f[k] = f[k - 1] \o s[k]
  BY <1>2 DEF Concatenations
<1>3. CASE n = 0
  BY <1>1, <1>2, <1>20, <1>3 DEF FlattenSeq, n
<1>4. CASE n # 0
  <2> DEFINE g == [i \in 1 .. n |-> f[i]]
             c == CHOOSE h : h = step(h)
  <2>1. ASSUME NEW i \in 1 .. n
        PROVE  g[i] = IF i = 1 THEN s[i] ELSE g[i - 1] \o s[i]
    <3>1. CASE i = 1
      <4>1. g[1] = << >> \o s[1] /\ s[1] \in Seq(X)
        BY <1>1, <1>20, <3>1, 1 - 1 = 0
      <4> QED BY <3>1, <4>1, ConcatEmptySeq
    <3>2. CASE i # 1
      <4>1. i - 1 \in 1 .. n
        BY <1>1, <3>2
      <4> QED BY <1>20, <3>2, <4>1
    <3> QED BY <3>1, <3>2
  <2>2. g = step(g)
    <3>1. DOMAIN g = 1 .. n /\ g = [i \in DOMAIN g |-> g[i]]
      BY Zenon
    <3> HIDE DEF g
    <3> QED BY <2>1, <3>1
  <2>3. c = step(c)
    BY <2>2, Zenon
  <2>4. FlattenSeq(s) = c[n]
    BY <1>4, Zenon DEF FlattenSeq, n
  <2> HIDE DEF c
  <2>5. \A i \in 1 .. n : c[i] = IF i = 1 THEN s[i] ELSE c[i - 1] \o s[i]
    BY <2>3
  <2> HIDE DEF g, step
  <2> DEFINE S == {m \in 0 .. n : m # 0 => c[m] = g[m]}
  <2>6. 0 \in S
    BY <1>1
  <2>7. ASSUME NEW m \in 0 .. n - 1, m \in S PROVE m + 1 \in S
    <3>1. m + 1 \in 1 .. n /\ (m + 1) - 1 = m /\ m + 1 \in 0 .. n
          /\ (m = 0 <=> m + 1 = 1)
      BY <1>1
    <3>2. c[m + 1] = IF m + 1 = 1 THEN s[m + 1] ELSE c[m] \o s[m + 1]
      BY <2>5, <3>1
    <3>3. g[m + 1] = IF m + 1 = 1 THEN s[m + 1] ELSE g[m] \o s[m + 1]
      BY <2>1, <3>1
    <3>4. m # 0 => c[m] = g[m]
      BY <2>7
    <3>5. c[m + 1] = g[m + 1]
      BY <3>1, <3>2, <3>3, <3>4
    <3> QED BY <3>1, <3>5
  <2> HIDE DEF S
  <2>8. n \in S
    BY <1>1, <2>6, <2>7, Induction
  <2>9. c[n] = f[n]
    BY <1>1, <1>4, <2>8 DEF S, g
  <2> QED BY <1>2, <2>4, <1>20, <2>9 DEF n
<1> QED BY <1>3, <1>4

(* Nothing concatenated is nothing.                                        *)
LEMMA FlattenEmpty == FlattenSeq(<< >>) = << >>
BY DEF FlattenSeq

(* Sequences over a set concatenate to a sequence over it.                 *)
LEMMA FlattenType ==
  ASSUME NEW X, NEW s \in Seq(Seq(X))
  PROVE  FlattenSeq(s) \in Seq(X)
<1>1. PICK f : Concatenations(f, X, Len(s), s) /\ FlattenSeq(s) = f[Len(s)]
  BY FlattenByPrefixes
<1>2. Len(s) \in Nat
  BY LenProperties
<1> QED BY <1>1, <1>2 DEF Concatenations

(* A last sequence comes last.                                             *)
LEMMA FlattenAppend ==
  ASSUME NEW X, NEW s \in Seq(Seq(X)), NEW t \in Seq(X)
  PROVE  FlattenSeq(Append(s, t)) = FlattenSeq(s) \o t
<1> DEFINE n == Len(s)
           u == Append(s, t)
<1>1. n \in Nat /\ u \in Seq(Seq(X)) /\ Len(u) = n + 1
      /\ u[n + 1] = t /\ \A k \in 1 .. n : u[k] = s[k]
  BY AppendProperties, LenProperties
<1> HIDE DEF u, n
<1>2. PICK f : Concatenations(f, X, n, s) /\ FlattenSeq(s) = f[n]
  BY FlattenByPrefixes DEF n
<1>3. PICK g : Concatenations(g, X, n + 1, u) /\ FlattenSeq(u) = g[n + 1]
  BY <1>1, FlattenByPrefixes
<1> DEFINE S == {m \in 0 .. n : f[m] = g[m]}
<1>4. 0 \in S
  BY <1>1, <1>2, <1>3 DEF Concatenations
<1>5. ASSUME NEW m \in 0 .. n - 1, m \in S PROVE m + 1 \in S
  <2>1. m + 1 \in 1 .. n /\ m + 1 \in 1 .. n + 1 /\ (m + 1) - 1 = m
        /\ m + 1 \in 0 .. n
    BY <1>1
  <2>2. f[m + 1] = f[m] \o s[m + 1] /\ g[m + 1] = g[m] \o u[m + 1]
    BY <1>2, <1>3, <2>1 DEF Concatenations
  <2>3. f[m] = g[m] /\ u[m + 1] = s[m + 1]
    BY <1>1, <1>5, <2>1
  <2> QED BY <2>1, <2>2, <2>3
<1> HIDE DEF S
<1>6. n \in S
  BY <1>1, <1>4, <1>5, Induction
<1>7. n + 1 \in 1 .. n + 1 /\ (n + 1) - 1 = n
  BY <1>1
<1>8. g[n + 1] = g[n] \o u[n + 1]
  BY <1>3, <1>7 DEF Concatenations
<1>9. FlattenSeq(u) = FlattenSeq(s) \o t
  BY <1>1, <1>2, <1>3, <1>6, <1>8 DEF S
<1> QED BY <1>9 DEF u

-----------------------------------------------------------------------------
(* Maximal members.                                                        *)

StrictlyOrders(R, C) ==
  /\ \A x \in C : << x, x >> \notin R
  /\ \A x, y, z \in C : << x, y >> \in R /\ << y, z >> \in R => << x, z >> \in R

(* A finite set with a strict order has a member that no other precedes.   *)
LEMMA FirstMember ==
  ASSUME NEW C, IsFiniteSet(C), C # {}, NEW R, StrictlyOrders(R, C)
  PROVE  \E x \in C : \A y \in C : << y, x >> \notin R
<1> DEFINE Before(x) == {y \in C : << y, x >> \in R}
           Ranks == {Cardinality(Before(x)) : x \in C}
<1>1. ASSUME NEW x \in C
      PROVE  IsFiniteSet(Before(x)) /\ Cardinality(Before(x)) \in Nat
  <2>1. Before(x) \subseteq C
    OBVIOUS
  <2> HIDE DEF Before
  <2>2. IsFiniteSet(Before(x))
    BY <2>1, FS_Subset
  <2> QED BY <2>2, FS_CardinalityType
<1>2. Ranks \in SUBSET Nat /\ Ranks # {}
  BY <1>1
<1>3. PICK least \in Ranks : \A m \in Ranks : least <= m
  BY <1>2, LeastElement
<1>4. PICK x \in C : least = Cardinality(Before(x))
  OBVIOUS
<1>5. ASSUME NEW y \in C, << y, x >> \in R PROVE FALSE
  <2>1. Before(y) \subseteq Before(x) /\ y \in Before(x) /\ y \notin Before(y)
    BY <1>5 DEF StrictlyOrders
  <2>2. IsFiniteSet(Before(x)) /\ Cardinality(Before(x)) \in Nat
        /\ Cardinality(Before(y)) \in Nat
    BY <1>1
  <2>3. Cardinality(Before(x)) <= Cardinality(Before(y))
    BY <1>3, <1>4
  <2> HIDE DEF Before
  <2>4. /\ Cardinality(Before(y)) <= Cardinality(Before(x))
        /\ Cardinality(Before(x)) = Cardinality(Before(y)) => Before(x) = Before(y)
    BY <2>1, <2>2, FS_Subset
  <2>5. Before(x) = Before(y)
    BY <2>2, <2>3, <2>4
  <2> QED BY <2>1, <2>5
<1> QED BY <1>5

-----------------------------------------------------------------------------
(* Sequences without repetitions.                                          *)

Distinct(s) == \A i, j \in 1 .. Len(s) : s[i] = s[j] => i = j
Members(s) == {s[i] : i \in 1 .. Len(s)}

(* A sequence without repetitions is as long as it has members.            *)
LEMMA DistinctLength ==
  ASSUME NEW X, NEW s \in Seq(X), Distinct(s)
  PROVE  IsFiniteSet(Members(s)) /\ Len(s) = Cardinality(Members(s))
<1> DEFINE n == Len(s)
           C == Members(s)
<1>1. n \in Nat /\ s \in [1 .. n -> C]
  BY LenProperties DEF Members
<1>2. \A i, j \in 1 .. n : s[i] = s[j] => i = j
  BY DEF Distinct
<1>20. \A x \in C : \E i \in 1 .. n : s[i] = x
  BY DEF Members
<1> HIDE DEF n, C
<1>3. s \in Bijection(1 .. n, C)
  BY <1>1, <1>2, <1>20, Fun_IsBij, Fun_IsSurj
<1>4. IsFiniteSet(1 .. n) /\ Cardinality(1 .. n) = n
  BY <1>1, FS_Interval
<1>5. ExistsBijection(1 .. n, C)
  BY <1>3, Zenon DEF ExistsBijection
<1>6. IsFiniteSet(C) /\ Cardinality(C) = n
  BY <1>4, <1>5, FS_Bijection
<1> QED BY <1>6 DEF n, C

(* The members of a concatenation are those of both sequences; it has no   *)
(* repetitions if they have none and share no member.                      *)
LEMMA ConcatDistinct ==
  ASSUME NEW X, NEW s \in Seq(X), NEW t \in Seq(X)
  PROVE  /\ Members(s \o t) = Members(s) \cup Members(t)
         /\ Distinct(s) /\ Distinct(t) /\ Members(s) \cap Members(t) = {} => Distinct(s \o t)
<1> DEFINE m == Len(s)
           n == Len(t)
           u == s \o t
<1>1. /\ m \in Nat /\ n \in Nat /\ Len(u) = m + n
      /\ \A i \in 1 .. m + n : u[i] = IF i <= m THEN s[i] ELSE t[i - m]
  BY LenProperties, ConcatProperties
<1> HIDE DEF m, n, u
<1>2. \A i \in 1 .. m : i \in 1 .. m + n /\ u[i] = s[i]
  BY <1>1
<1>3. ASSUME NEW i \in 1 .. n PROVE m + i \in 1 .. m + n /\ u[m + i] = t[i]
  <2>1. m + i \in 1 .. m + n /\ (m + i) - m = i /\ ~ (m + i <= m)
    BY <1>1
  <2> QED BY <1>1, <2>1
<1>4. \A i \in 1 .. m + n : i \in 1 .. m \/ \E j \in 1 .. n : i = m + j
  <2> SUFFICES ASSUME NEW i \in 1 .. m + n, i \notin 1 .. m
               PROVE  \E j \in 1 .. n : i = m + j
    OBVIOUS
  <2>1. i - m \in 1 .. n /\ i = m + (i - m)
    BY <1>1
  <2> QED BY <2>1
<1>5. {u[i] : i \in 1 .. m + n} = {s[i] : i \in 1 .. m} \cup {t[i] : i \in 1 .. n}
  <2>1. ASSUME NEW i \in 1 .. m + n
        PROVE  u[i] \in {s[j] : j \in 1 .. m} \cup {t[j] : j \in 1 .. n}
    <3>1. CASE i \in 1 .. m
      BY <1>2, <3>1
    <3>2. CASE \E j \in 1 .. n : i = m + j
      BY <1>3, <3>2
    <3> QED BY <1>4, <3>1, <3>2
  <2>2. \A i \in 1 .. m : s[i] \in {u[j] : j \in 1 .. m + n}
    BY <1>2
  <2>3. ASSUME NEW i \in 1 .. n PROVE t[i] \in {u[j] : j \in 1 .. m + n}
    BY <1>3
  <2> QED BY <2>1, <2>2, <2>3
<1>6. ASSUME Distinct(s), Distinct(t), Members(s) \cap Members(t) = {}
      PROVE  Distinct(u)
  <2>1. \A i, j \in 1 .. m : s[i] = s[j] => i = j
    BY <1>6 DEF Distinct, m
  <2>2. \A i, j \in 1 .. n : t[i] = t[j] => i = j
    BY <1>6 DEF Distinct, n
  <2>3. \A i \in 1 .. m, j \in 1 .. n : s[i] # t[j]
    BY <1>6 DEF Members, m, n
  <2>4. ASSUME NEW i \in 1 .. m + n, NEW j \in 1 .. m + n, u[i] = u[j]
        PROVE  i = j
    <3>1. CASE i \in 1 .. m /\ j \in 1 .. m
      BY <1>2, <2>1, <2>4, <3>1
    <3>2. CASE i \in 1 .. m /\ j \notin 1 .. m
      <4>1. PICK k \in 1 .. n : j = m + k
        BY <1>4, <3>2
      <4> QED BY <1>2, <1>3, <2>3, <2>4, <3>2, <4>1
    <3>3. CASE i \notin 1 .. m /\ j \in 1 .. m
      <4>1. PICK k \in 1 .. n : i = m + k
        BY <1>4, <3>3
      <4> QED BY <1>2, <1>3, <2>3, <2>4, <3>3, <4>1
    <3>4. CASE i \notin 1 .. m /\ j \notin 1 .. m
      <4>1. PICK k \in 1 .. n, l \in 1 .. n : i = m + k /\ j = m + l
        BY <1>4, <3>4
      <4>2. t[k] = t[l]
        BY <1>3, <2>4, <4>1
      <4> QED BY <2>2, <4>1, <4>2
    <3> QED BY <3>1, <3>2, <3>3, <3>4
  <2> QED BY <1>1, <2>4 DEF Distinct
<1>7. Members(u) = Members(s) \cup Members(t)
  BY <1>1, <1>5 DEF Members, m, n
<1> QED BY <1>6, <1>7 DEF u

(* The parts hold each member of C once.                                   *)
ExactParts(parts, C) ==
  /\ parts \in Seq(Seq(C))
  /\ \A p \in 1 .. Len(parts) : Distinct(parts[p])
  /\ \A p, q \in 1 .. Len(parts) : p # q => Members(parts[p]) \cap Members(parts[q]) = {}
  /\ \A x \in C : \E p \in 1 .. Len(parts) : x \in Members(parts[p])

(* Exact parts concatenate to a sequence of all members, each once.        *)
LEMMA FlattenExact ==
  ASSUME NEW C, NEW parts, ExactParts(parts, C)
  PROVE  /\ FlattenSeq(parts) \in Seq(C)
         /\ Distinct(FlattenSeq(parts))
         /\ Members(FlattenSeq(parts)) = C
<1> DEFINE n == Len(parts)
           Before(k) == UNION {Members(parts[p]) : p \in 1 .. k}
<1>1. /\ n \in Nat /\ \A p \in 1 .. n : parts[p] \in Seq(C) /\ Distinct(parts[p])
      /\ \A p, q \in 1 .. n : p # q => Members(parts[p]) \cap Members(parts[q]) = {}
      /\ \A x \in C : \E p \in 1 .. n : x \in Members(parts[p])
  <2>1. parts \in Seq(Seq(C))
    BY DEF ExactParts
  <2>2. n \in Nat /\ parts \in [1 .. n -> Seq(C)]
    BY <2>1, LenProperties, Zenon
  <2> QED BY <2>2 DEF ExactParts
<1>2. PICK f : Concatenations(f, C, n, parts) /\ FlattenSeq(parts) = f[n]
  BY FlattenByPrefixes DEF ExactParts
<1> HIDE DEF n
<1>20. /\ f \in [0 .. n -> Seq(C)] /\ f[0] = << >>
       /\ \A k \in 1 .. n : f[k] = f[k - 1] \o parts[k]
  BY <1>2 DEF Concatenations
<1> DEFINE S == {k \in 0 .. n : Distinct(f[k]) /\ Members(f[k]) = Before(k)}
<1>3. 0 \in S
  <2>1. Distinct(<< >>) /\ Members(<< >>) = {}
    BY EmptySeq DEF Distinct, Members
  <2> QED BY <1>1, <1>20, <2>1
<1>4. ASSUME NEW k \in 0 .. n - 1, k \in S PROVE k + 1 \in S
  <2>1. /\ k + 1 \in 1 .. n /\ (k + 1) - 1 = k /\ k \in 0 .. n /\ k + 1 \in 0 .. n
        /\ \A p \in 1 .. k : p \in 1 .. n /\ p # k + 1
        /\ 1 .. k + 1 = (1 .. k) \cup {k + 1}
    BY <1>1
  <2>2. f[k] \in Seq(C) /\ parts[k + 1] \in Seq(C) /\ f[k + 1] = f[k] \o parts[k + 1]
        /\ Distinct(parts[k + 1])
    BY <1>1, <1>20, <2>1
  <2>3. Distinct(f[k]) /\ Members(f[k]) = Before(k)
    BY <1>4
  <2>4. Before(k) \cap Members(parts[k + 1]) = {}
    <3>1. \A p \in 1 .. k : Members(parts[p]) \cap Members(parts[k + 1]) = {}
      BY <1>1, <2>1, Zenon
    <3> QED BY <3>1
  <2>5. Before(k + 1) = Before(k) \cup Members(parts[k + 1])
    BY <2>1
  <2> HIDE DEF Before
  <2>6. Distinct(f[k + 1]) /\ Members(f[k + 1]) = Before(k + 1)
    <3>1. /\ Members(f[k] \o parts[k + 1]) = Members(f[k]) \cup Members(parts[k + 1])
          /\ Distinct(f[k]) /\ Distinct(parts[k + 1])
             /\ Members(f[k]) \cap Members(parts[k + 1]) = {}
               => Distinct(f[k] \o parts[k + 1])
      BY <2>2, ConcatDistinct, Zenon
    <3> QED BY <2>2, <2>3, <2>4, <2>5, <3>1, Zenon
  <2> QED BY <2>1, <2>6
<1> HIDE DEF S
<1>5. n \in S
  BY <1>1, <1>3, <1>4, Induction
<1>6. Distinct(f[n]) /\ Members(f[n]) = Before(n)
  BY <1>5 DEF S
<1>7. \A p \in 1 .. n : Members(parts[p]) \subseteq C
  <2>1. ASSUME NEW p \in 1 .. n PROVE Members(parts[p]) \subseteq C
    BY <1>1, ElementOfSeq DEF Members
  <2> QED BY <2>1
<1>8. Before(n) = C
  BY <1>1, <1>7
<1>9. f[n] \in Seq(C)
  BY <1>1, <1>20
<1> QED BY <1>2, <1>6, <1>8, <1>9

(* The first n members of t are those of s, elsewhere.                     *)
Permutes(p, q, n) ==
  /\ p \in [1 .. n -> 1 .. n] /\ q \in [1 .. n -> 1 .. n]
  /\ \A i \in 1 .. n : q[p[i]] = i /\ p[q[i]] = i
Rearranges(t, s, n) ==
  /\ Len(t) = n
  /\ \E p, q : Permutes(p, q, n) /\ \A i \in 1 .. n : t[i] = s[p[i]]

(* What InsertAt returns, member by member.                                *)
LEMMA InsertProperties ==
  ASSUME NEW X, NEW t \in Seq(X), NEW x \in X, NEW pos \in 1 .. Len(t) + 1
  PROVE  LET u == InsertAt(t, pos, x) IN
         /\ u \in Seq(X) /\ Len(u) = Len(t) + 1
         /\ \A i \in 1 .. Len(t) + 1 :
              u[i] = IF i < pos THEN t[i] ELSE IF i = pos THEN x ELSE t[i - 1]
<1> DEFINE n == Len(t)
           a == SubSeq(t, 1, pos - 1)
           b == SubSeq(t, pos, n)
           o == << x >>
<1>1. n \in Nat /\ t \in [1 .. n -> X] /\ pos \in Int /\ pos - 1 \in Int
  BY LenProperties
<1>2. /\ a \in Seq(X) /\ Len(a) = pos - 1
      /\ \A i \in 1 .. pos - 1 : a[i] = t[i]
  <2>1. \A i \in 1 .. pos - 1 : t[i] \in X
    BY <1>1
  <2>2. /\ a \in Seq(X) /\ Len(a) = IF 1 <= pos - 1 THEN (pos - 1) - 1 + 1 ELSE 0
        /\ \A i \in 1 .. (pos - 1) - 1 + 1 : a[i] = t[1 + i - 1]
    BY <1>1, <2>1, SubSeqProperties
  <2> QED BY <1>1, <2>2
<1>3. /\ b \in Seq(X) /\ Len(b) = n - pos + 1
      /\ \A i \in 1 .. n - pos + 1 : b[i] = t[pos + i - 1]
  <2>1. \A i \in pos .. n : t[i] \in X
    BY <1>1
  <2>2. /\ b \in Seq(X) /\ Len(b) = IF pos <= n THEN n - pos + 1 ELSE 0
        /\ \A i \in 1 .. n - pos + 1 : b[i] = t[pos + i - 1]
    BY <1>1, <2>1, SubSeqProperties
  <2> QED BY <1>1, <2>2
<1>4. o \in Seq(X) /\ Len(o) = 1 /\ o[1] = x
  OBVIOUS
<1> HIDE DEF n, a, b, o
<1>5. /\ a \o o \in Seq(X) /\ Len(a \o o) = pos
      /\ \A i \in 1 .. pos : (a \o o)[i] = IF i < pos THEN t[i] ELSE x
  <2>1. /\ a \o o \in Seq(X) /\ Len(a \o o) = (pos - 1) + 1
        /\ \A i \in 1 .. (pos - 1) + 1 :
             (a \o o)[i] = IF i <= pos - 1 THEN a[i] ELSE o[i - (pos - 1)]
    <3>1. /\ a \o o \in Seq(X) /\ Len(a \o o) = Len(a) + Len(o)
          /\ \A i \in 1 .. Len(a) + Len(o) :
               (a \o o)[i] = IF i <= Len(a) THEN a[i] ELSE o[i - Len(a)]
      BY <1>2, <1>4, ConcatProperties, Zenon
    <3> QED BY <1>2, <1>4, <3>1, Zenon
  <2>2. ASSUME NEW i \in 1 .. pos PROVE (a \o o)[i] = IF i < pos THEN t[i] ELSE x
    <3>1. i \in 1 .. (pos - 1) + 1
      BY <1>1
    <3>2. CASE i < pos
      <4>1. i <= pos - 1 /\ i \in 1 .. pos - 1
        BY <1>1, <3>2
      <4> QED BY <1>2, <2>1, <3>1, <3>2, <4>1
    <3>3. CASE i = pos
      <4>1. ~ (i <= pos - 1) /\ i - (pos - 1) = 1
        BY <1>1, <3>3
      <4> QED BY <1>4, <2>1, <3>1, <3>3, <4>1
    <3>4. i < pos \/ i = pos
      BY <1>1
    <3>5. i = pos => ~ (i < pos)
      BY <1>1
    <3> QED BY <3>2, <3>3, <3>4, <3>5, Zenon
  <2> QED BY <1>1, <2>1, <2>2
<1> DEFINE c == a \o o
           u == c \o b
<1> HIDE DEF c
<1>6. /\ u \in Seq(X) /\ Len(u) = n + 1
      /\ \A i \in 1 .. n + 1 : u[i] = IF i <= pos THEN c[i] ELSE b[i - pos]
  <2>1. c \in Seq(X) /\ Len(c) = pos
    BY <1>5 DEF c
  <2>2. /\ u \in Seq(X) /\ Len(u) = pos + (n - pos + 1)
        /\ \A i \in 1 .. pos + (n - pos + 1) : u[i] = IF i <= pos THEN c[i] ELSE b[i - pos]
    <3>1. /\ u \in Seq(X) /\ Len(u) = Len(c) + Len(b)
          /\ \A i \in 1 .. Len(c) + Len(b) :
               u[i] = IF i <= Len(c) THEN c[i] ELSE b[i - Len(c)]
      BY <1>3, <2>1, ConcatProperties, Zenon
    <3> QED BY <1>3, <2>1, <3>1, Zenon
  <2>3. pos + (n - pos + 1) = n + 1
    BY <1>1
  <2> QED BY <2>2, <2>3
<1> HIDE DEF u
<1>7. ASSUME NEW i \in 1 .. n + 1
      PROVE  u[i] = IF i < pos THEN t[i] ELSE IF i = pos THEN x ELSE t[i - 1]
  <2>1. CASE i <= pos
    <3>1. i \in 1 .. pos
      BY <1>1, <2>1
    <3>2. u[i] = IF i < pos THEN t[i] ELSE x
      BY <1>5, <1>6, <2>1, <3>1 DEF c
    <3> QED BY <1>1, <2>1, <3>2
  <2>2. CASE ~ (i <= pos)
    <3>1. i - pos \in 1 .. n - pos + 1 /\ pos + (i - pos) - 1 = i - 1 /\ ~ (i < pos) /\ i # pos
      BY <1>1, <2>2
    <3> QED BY <1>3, <1>6, <2>2, <3>1
  <2> QED BY <2>1, <2>2
<1>8. u = InsertAt(t, pos, x)
  BY DEF u, c, a, b, o, n, InsertAt
<1> QED BY <1>6, <1>7, <1>8 DEF n

(* Inserting the next member of s into a rearrangement of those before it  *)
(* rearranges one member more.                                             *)
LEMMA InsertRearranges ==
  ASSUME NEW X, NEW n \in Nat, NEW s, NEW t \in Seq(X), Rearranges(t, s, n),
         s[n + 1] \in X, NEW pos \in 1 .. Len(t) + 1
  PROVE  LET u == InsertAt(t, pos, s[n + 1])
         IN  u \in Seq(X) /\ Rearranges(u, s, n + 1)
<1> DEFINE x == s[n + 1]
           u == InsertAt(t, pos, x)
<1>1. Len(t) = n /\ pos \in 1 .. n + 1
  BY DEF Rearranges
<1>2. PICK p, q : Permutes(p, q, n) /\ \A i \in 1 .. n : t[i] = s[p[i]]
  BY DEF Rearranges
<1>3. /\ p \in [1 .. n -> 1 .. n] /\ q \in [1 .. n -> 1 .. n]
      /\ \A i \in 1 .. n : q[p[i]] = i /\ p[q[i]] = i
  BY <1>2 DEF Permutes
<1>4. /\ u \in Seq(X) /\ Len(u) = n + 1
      /\ \A i \in 1 .. n + 1 :
           u[i] = IF i < pos THEN t[i] ELSE IF i = pos THEN x ELSE t[i - 1]
  <2>1. x \in X
    OBVIOUS
  <2> HIDE DEF x
  <2>2. /\ u \in Seq(X) /\ Len(u) = Len(t) + 1
        /\ \A i \in 1 .. Len(t) + 1 :
             u[i] = IF i < pos THEN t[i] ELSE IF i = pos THEN x ELSE t[i - 1]
    BY <2>1, InsertProperties
  <2> HIDE DEF u
  <2> QED BY <1>1, <2>2, Zenon
<1> HIDE DEF u, x
<1> DEFINE pp == [i \in 1 .. n + 1 |->
                    IF i < pos THEN p[i] ELSE IF i = pos THEN n + 1 ELSE p[i - 1]]
           qq == [j \in 1 .. n + 1 |->
                    IF j = n + 1 THEN pos ELSE IF q[j] < pos THEN q[j] ELSE q[j] + 1]
<1>5. ASSUME NEW i \in 1 .. n + 1
      PROVE  /\ pp[i] \in 1 .. n + 1 /\ qq[i] \in 1 .. n + 1
             /\ qq[pp[i]] = i /\ pp[qq[i]] = i /\ u[i] = s[pp[i]]
  <2>1. pp[i] \in 1 .. n + 1 /\ qq[pp[i]] = i /\ u[i] = s[pp[i]]
    <3>1. CASE i < pos
      <4>1. i \in 1 .. n
        BY <1>1, <3>1
      <4>2. p[i] \in 1 .. n /\ q[p[i]] = i /\ t[i] = s[p[i]]
        BY <1>2, <1>3, <4>1
      <4>3. pp[i] = p[i] /\ p[i] \in 1 .. n + 1 /\ p[i] # n + 1
        BY <3>1, <4>2
      <4>4. qq[p[i]] = i
        BY <3>1, <4>2, <4>3
      <4> QED BY <1>4, <3>1, <4>2, <4>3, <4>4
    <3>2. CASE i = pos
      <4>1. pp[i] = n + 1 /\ qq[n + 1] = pos /\ u[i] = x /\ n + 1 \in 1 .. n + 1
        BY <1>1, <1>4, <3>2
      <4> QED BY <3>2, <4>1 DEF x
    <3>3. CASE i > pos
      <4>1. i - 1 \in 1 .. n /\ ~ (i < pos) /\ i # pos /\ (i - 1) + 1 = i /\ ~ (i - 1 < pos)
        BY <1>1, <3>3
      <4>2. p[i - 1] \in 1 .. n /\ q[p[i - 1]] = i - 1 /\ t[i - 1] = s[p[i - 1]]
        BY <1>2, <1>3, <4>1
      <4>3. pp[i] = p[i - 1] /\ p[i - 1] \in 1 .. n + 1 /\ p[i - 1] # n + 1
        BY <4>1, <4>2
      <4>4. qq[p[i - 1]] = i
        BY <4>1, <4>2, <4>3
      <4> QED BY <1>4, <4>1, <4>2, <4>3, <4>4
    <3> QED BY <1>1, <3>1, <3>2, <3>3
  <2>2. qq[i] \in 1 .. n + 1 /\ pp[qq[i]] = i
    <3>1. CASE i = n + 1
      <4>1. qq[i] = pos /\ pp[pos] = n + 1
        BY <1>1, <3>1
      <4> QED BY <1>1, <3>1, <4>1
    <3>2. CASE i # n + 1
      <4>1. i \in 1 .. n
        BY <3>2
      <4>2. q[i] \in 1 .. n /\ p[q[i]] = i
        BY <1>3, <4>1
      <4>3. CASE q[i] < pos
        <5>1. qq[i] = q[i] /\ q[i] \in 1 .. n + 1
          BY <3>2, <4>2, <4>3
        <5>2. pp[q[i]] = p[q[i]]
          BY <4>3, <5>1
        <5> QED BY <4>2, <5>1, <5>2
      <4>4. CASE ~ (q[i] < pos)
        <5>1. qq[i] = q[i] + 1 /\ q[i] + 1 \in 1 .. n + 1
              /\ ~ (q[i] + 1 < pos) /\ q[i] + 1 # pos /\ (q[i] + 1) - 1 = q[i]
          BY <1>1, <3>2, <4>2, <4>4
        <5>2. pp[q[i] + 1] = p[q[i]]
          BY <5>1
        <5> QED BY <4>2, <5>1, <5>2
      <4> QED BY <4>3, <4>4
    <3> QED BY <3>1, <3>2
  <2> QED BY <2>1, <2>2
<1>6. Permutes(pp, qq, n + 1) /\ \A i \in 1 .. n + 1 : u[i] = s[pp[i]]
  <2>1. pp \in [1 .. n + 1 -> 1 .. n + 1] /\ qq \in [1 .. n + 1 -> 1 .. n + 1]
    <3>1. pp = [i \in 1 .. n + 1 |-> pp[i]] /\ qq = [i \in 1 .. n + 1 |-> qq[i]]
      OBVIOUS
    <3> HIDE DEF pp, qq
    <3> QED BY <1>5, <3>1
  <2> HIDE DEF pp, qq
  <2> QED BY <1>5, <2>1 DEF Permutes
<1> HIDE DEF pp, qq
<1>7. Rearranges(u, s, n + 1)
  BY <1>4, <1>6 DEF Rearranges
<1> QED BY <1>4, <1>7 DEF u, x

(* Insertion, one member after the other, rearranges.                      *)
Insertions(f, X, s, n) ==
  /\ f[0] = << >>
  /\ \A k \in 1 .. n : f[k - 1] \in Seq(X) =>
       \E pos \in 1 .. Len(f[k - 1]) + 1 : f[k] = InsertAt(f[k - 1], pos, s[k])

(* Insertion of all members, wherever each one goes, rearranges the        *)
(* sequence.                                                               *)
LEMMA InsertionsRearrange ==
  ASSUME NEW X, NEW s \in Seq(X), NEW f, Insertions(f, X, s, Len(s))
  PROVE  f[Len(s)] \in Seq(X) /\ Rearranges(f[Len(s)], s, Len(s))
<1> DEFINE n == Len(s)
           S == {k \in 0 .. n : f[k] \in Seq(X) /\ Rearranges(f[k], s, k)}
<1>1. n \in Nat /\ \A k \in 1 .. n : s[k] \in X
  BY LenProperties, ElementOfSeq
<1>2. /\ f[0] = << >>
      /\ \A k \in 1 .. n : f[k - 1] \in Seq(X) =>
           \E pos \in 1 .. Len(f[k - 1]) + 1 : f[k] = InsertAt(f[k - 1], pos, s[k])
  BY DEF Insertions
<1> HIDE DEF n
<1>3. 0 \in S
  <2>1. Rearranges(<< >>, s, 0)
    <3>1. Permutes(<< >>, << >>, 0) /\ Len(<< >>) = 0
      BY EmptySeq DEF Permutes
    <3> QED BY <3>1 DEF Rearranges
  <2>2. f[0] \in Seq(X) /\ Rearranges(f[0], s, 0) /\ 0 \in 0 .. n
    BY <1>1, <1>2, <2>1, EmptySeq
  <2> QED BY <2>2
<1>4. ASSUME NEW k \in 0 .. n - 1, k \in S PROVE k + 1 \in S
  <2>1. k + 1 \in 1 .. n /\ (k + 1) - 1 = k /\ k \in Nat /\ k + 1 \in 0 .. n
    BY <1>1
  <2>2. f[k] \in Seq(X) /\ Rearranges(f[k], s, k) /\ s[k + 1] \in X
    BY <1>1, <1>4, <2>1
  <2>3. PICK pos \in 1 .. Len(f[k]) + 1 : f[k + 1] = InsertAt(f[k], pos, s[k + 1])
    BY <1>2, <2>1, <2>2
  <2>4. f[k + 1] \in Seq(X) /\ Rearranges(f[k + 1], s, k + 1)
    BY <2>1, <2>2, <2>3, InsertRearranges
  <2> QED BY <2>1, <2>4
<1> HIDE DEF S
<1>5. n \in S
  BY <1>1, <1>3, <1>4, Induction
<1> QED BY <1>5 DEF S, n

(* There are n numbers from 1 to n.                                        *)
LEMMA FirstNumbers ==
  ASSUME NEW n \in Nat
  PROVE  IsFiniteSet(1 .. n) /\ Cardinality(1 .. n) = n
BY FS_Interval

(* As many places as there are members before, plus one, is a place to     *)
(* insert at.                                                              *)
LEMMA PlaceAmong ==
  ASSUME NEW X, NEW s \in Seq(X), NEW B \in SUBSET DOMAIN s
  PROVE  Cardinality(B) + 1 \in 1 .. Len(s) + 1
<1> DEFINE n == Len(s)
<1>1. n \in Nat /\ B \subseteq 1 .. n
  BY LenProperties
<1> HIDE DEF n
<1>2. IsFiniteSet(1 .. n) /\ Cardinality(1 .. n) = n
  BY <1>1, FirstNumbers
<1>3. IsFiniteSet(B) /\ Cardinality(B) <= n
  BY <1>1, <1>2, FS_Subset
<1>4. Cardinality(B) \in Nat
  BY <1>3, FS_CardinalityType
<1>5. Cardinality(B) + 1 \in 1 .. n + 1
  BY <1>1, <1>3, <1>4
<1> QED BY <1>5 DEF n

(* Where a member goes, for each sequence it may go into.                  *)
Places(place, X, n) ==
  /\ place \in [1 .. n -> [Seq(X) -> Int]]
  /\ \A k \in 1 .. n, x \in Seq(X) : place[k][x] \in 1 .. Len(x) + 1
InsertedOneByOne(f, X, s, n, place) ==
  /\ f \in [0 .. n -> Seq(X)]
  /\ f[0] = << >>
  /\ \A k \in 1 .. n : f[k] = InsertAt(f[k - 1], place[k][f[k - 1]], s[k])

(* There is a function that inserts one member after the other, each at    *)
(* its place.                                                              *)
LEMMA InsertionsExist ==
  ASSUME NEW X, NEW s \in Seq(X), NEW place, Places(place, X, Len(s))
  PROVE  \E f : InsertedOneByOne(f, X, s, Len(s), place)
<1> DEFINE n == Len(s)
           U == Seq(X)
           G == [k \in 1 .. n |-> [x \in U |-> InsertAt(x, place[k][x], s[k])]]
           e == << >>
<1>1. n \in Nat /\ \A k \in 1 .. n : s[k] \in X
  BY LenProperties, ElementOfSeq
<1>2. \A k \in 1 .. n, x \in Seq(X) : place[k][x] \in 1 .. Len(x) + 1
  BY DEF Places
<1>3. ASSUME NEW k \in 1 .. n, NEW x \in Seq(X)
      PROVE  InsertAt(x, place[k][x], s[k]) \in Seq(X)
  BY <1>1, <1>2, InsertProperties
<1>4. e \in U
  OBVIOUS
<1> HIDE DEF n, U, e
<1>5. Steps(U, n, G)
  BY <1>1, <1>3 DEF Steps, U
<1>6. \A k \in 1 .. n, x \in U : G[k][x] = InsertAt(x, place[k][x], s[k])
  BY Zenon
<1> HIDE DEF G
<1>7. PICK f : Follows(f, e, U, n, G)
  BY <1>4, <1>5, Recursion, Zenon
<1>8. /\ f \in [0 .. n -> U] /\ f[0] = e
      /\ \A k \in 1 .. n : f[k] = G[k][f[k - 1]]
  BY <1>7 DEF Follows
<1>9. ASSUME NEW k \in 1 .. n
      PROVE  f[k] = InsertAt(f[k - 1], place[k][f[k - 1]], s[k])
  <2>1. k - 1 \in 0 .. n
    BY <1>1
  <2>2. f[k - 1] \in U
    BY <1>8, <2>1
  <2> QED BY <1>6, <1>8, <2>2
<1> QED BY <1>8, <1>9 DEF InsertedOneByOne, n, U, e

(* A rearrangement has the same members, and repeats none that was not     *)
(* repeated.                                                               *)
LEMMA RearrangedMembers ==
  ASSUME NEW X, NEW s \in Seq(X), NEW t \in Seq(X), Rearranges(t, s, Len(s))
  PROVE  Members(t) = Members(s) /\ (Distinct(s) => Distinct(t))
<1> DEFINE n == Len(s)
<1>1. PICK p, q : Permutes(p, q, n) /\ \A i \in 1 .. n : t[i] = s[p[i]]
  BY DEF Rearranges
<1>2. Len(t) = n
  BY DEF Rearranges
<1> HIDE DEF n
<1>3. /\ \A i \in 1 .. n : p[i] \in 1 .. n /\ q[i] \in 1 .. n
      /\ \A i \in 1 .. n : q[p[i]] = i /\ p[q[i]] = i
  BY <1>1 DEF Permutes
<1>4. {t[i] : i \in 1 .. n} = {s[i] : i \in 1 .. n}
  <2>1. \A i \in 1 .. n : s[i] = t[q[i]] /\ t[i] = s[p[i]]
    BY <1>1, <1>3
  <2> QED BY <1>3, <2>1
<1>5. ASSUME \A i, j \in 1 .. n : s[i] = s[j] => i = j,
             NEW i \in 1 .. n, NEW j \in 1 .. n, t[i] = t[j]
      PROVE  i = j
  <2>1. p[i] = p[j]
    BY <1>1, <1>3, <1>5
  <2> QED BY <1>3, <2>1
<1>6. Members(t) = Members(s)
  BY <1>2, <1>4 DEF Members, n
<1>7. ASSUME Distinct(s) PROVE Distinct(t)
  <2>1. \A i, j \in 1 .. n : s[i] = s[j] => i = j
    BY <1>7 DEF Distinct, n
  <2> QED BY <1>2, <1>5, <2>1 DEF Distinct
<1> QED BY <1>6, <1>7

(* A function on 1 .. n is a sequence of length n.                         *)
LEMMA FunctionIsSeq ==
  ASSUME NEW X, NEW n \in Nat, NEW s \in [1 .. n -> X]
  PROVE  s \in Seq(X) /\ Len(s) = n
OBVIOUS

(* A sequence is one over any set that holds its members.                  *)
LEMMA SeqOfMembers ==
  ASSUME NEW X, NEW Y, NEW s \in Seq(X), \A i \in 1 .. Len(s) : s[i] \in Y
  PROVE  s \in Seq(Y)
<1> DEFINE n == Len(s)
<1>1. n \in Nat /\ s \in [1 .. n -> X]
  BY LenProperties
<1>2. s \in [1 .. n -> Y]
  BY <1>1
<1> HIDE DEF n
<1> QED BY <1>1, <1>2

(* Parts in another order, and each part in another order of its members.  *)
LEMMA ExactRearranged ==
  ASSUME NEW C, NEW X, NEW s, ExactParts(s, C), NEW t \in Seq(X), Rearranges(t, s, Len(s))
  PROVE  ExactParts(t, C)
<1> DEFINE n == Len(s)
<1>1. PICK p, q : Permutes(p, q, n) /\ \A i \in 1 .. n : t[i] = s[p[i]]
  BY DEF Rearranges
<1>2. Len(t) = n
  BY DEF Rearranges
<1>4. /\ \A i \in 1 .. n : Distinct(s[i])
      /\ \A i, j \in 1 .. n : i # j => Members(s[i]) \cap Members(s[j]) = {}
      /\ \A x \in C : \E i \in 1 .. n : x \in Members(s[i])
  BY DEF ExactParts
<1> HIDE DEF n
<1>3. /\ \A i \in 1 .. n : p[i] \in 1 .. n /\ q[i] \in 1 .. n
      /\ \A i \in 1 .. n : q[p[i]] = i /\ p[q[i]] = i
  BY <1>1 DEF Permutes
<1>5. \A i \in 1 .. n : Distinct(t[i])
  BY <1>1, <1>3, <1>4
<1>6. ASSUME NEW i \in 1 .. n, NEW j \in 1 .. n, i # j
      PROVE  Members(t[i]) \cap Members(t[j]) = {}
  <2>1. p[i] # p[j]
    BY <1>3, <1>6
  <2>2. Members(s[p[i]]) \cap Members(s[p[j]]) = {}
    BY <1>3, <1>4, <2>1, Zenon
  <2> QED BY <1>1, <2>2, Zenon
<1>7. ASSUME NEW x \in C PROVE \E i \in 1 .. n : x \in Members(t[i])
  <2>1. PICK i \in 1 .. n : x \in Members(s[i])
    BY <1>4
  <2>2. t[q[i]] = s[i] /\ q[i] \in 1 .. n
    BY <1>1, <1>3
  <2> QED BY <2>1, <2>2
<1>8. t \in Seq(Seq(C))
  <2>1. s \in Seq(Seq(C))
    BY DEF ExactParts
  <2>2. \A i \in 1 .. n : s[i] \in Seq(C)
    BY <2>1, ElementOfSeq, Zenon DEF n
  <2>3. \A i \in 1 .. Len(t) : t[i] \in Seq(C)
    BY <1>1, <1>2, <1>3, <2>2, Zenon
  <2> QED BY <2>3, SeqOfMembers, Zenon
<1> QED BY <1>2, <1>5, <1>6, <1>7, <1>8 DEF ExactParts

(* Parts stay exact when their members change places inside them.          *)
LEMMA ExactInside ==
  ASSUME NEW C, NEW X, NEW s, ExactParts(s, C), NEW t \in Seq(Seq(X)), Len(t) = Len(s),
         \A i \in 1 .. Len(s) : Distinct(t[i]) /\ Members(t[i]) = Members(s[i])
  PROVE  ExactParts(t, C)
<1>1. \A i \in 1 .. Len(t) : t[i] \in Seq(X)
  BY ElementOfSeq, Zenon
<1>2. s \in Seq(Seq(C))
  BY DEF ExactParts
<1>3. \A i \in 1 .. Len(s) : s[i] \in Seq(C)
  BY <1>2, ElementOfSeq, Zenon
<1>4. ASSUME NEW i \in 1 .. Len(t) PROVE t[i] \in Seq(C)
  <2>1. s[i] \in Seq(C) /\ t[i] \in Seq(X) /\ Members(t[i]) = Members(s[i])
    BY <1>1, <1>3
  <2>2. \A j \in 1 .. Len(s[i]) : s[i][j] \in C
    BY <2>1, ElementOfSeq, Zenon
  <2>3. \A j \in 1 .. Len(t[i]) : t[i][j] \in C
    BY <2>1, <2>2 DEF Members
  <2> QED BY <2>1, <2>3, SeqOfMembers, Zenon
<1>5. t \in Seq(Seq(C))
  BY <1>4, SeqOfMembers, Zenon
<1> QED BY <1>5, Zenon DEF ExactParts

(* Only one function concatenates: its last value is what FlattenSeq       *)
(* returns.                                                                *)
LEMMA FlattenIs ==
  ASSUME NEW X, NEW s \in Seq(Seq(X)), NEW g, Concatenations(g, X, Len(s), s)
  PROVE  FlattenSeq(s) = g[Len(s)]
<1> DEFINE n == Len(s)
<1>1. n \in Nat
  BY LenProperties
<1>2. PICK f : Concatenations(f, X, n, s) /\ FlattenSeq(s) = f[n]
  BY FlattenByPrefixes
<1>3. Concatenations(g, X, n, s)
  OBVIOUS
<1> HIDE DEF n
<1> DEFINE S == {m \in 0 .. n : f[m] = g[m]}
<1>4. 0 \in S
  BY <1>1, <1>2, <1>3 DEF Concatenations
<1>5. ASSUME NEW m \in 0 .. n - 1, m \in S PROVE m + 1 \in S
  <2>1. m + 1 \in 1 .. n /\ (m + 1) - 1 = m /\ m + 1 \in 0 .. n
    BY <1>1
  <2>2. f[m + 1] = f[m] \o s[m + 1] /\ g[m + 1] = g[m] \o s[m + 1]
    BY <1>2, <1>3, <2>1 DEF Concatenations
  <2> QED BY <1>5, <2>1, <2>2
<1> HIDE DEF S
<1>6. n \in S
  BY <1>1, <1>4, <1>5, Induction
<1> QED BY <1>2, <1>6 DEF S, n


Regroups(x, y, z) == x \o (y \o z) = (x \o y) \o z
(* Concatenation is associative.                                           *)
LEMMA ConcatRegroups ==
  ASSUME NEW X, NEW x \in Seq(X), NEW y \in Seq(X), NEW z \in Seq(X)
  PROVE  Regroups(x, y, z)
<1>1. (x \o y) \o z = x \o (y \o z)
  BY ConcatAssociative, SMTT(40)
<1> QED BY <1>1 DEF Regroups

(* The first part comes first.                                             *)
LEMMA FlattenHead ==
  ASSUME NEW X, NEW s \in Seq(Seq(X)), s # << >>
  PROVE  /\ s[1] \in Seq(X) /\ Tail(s) \in Seq(Seq(X))
         /\ Len(s) \in Nat \ {0} /\ Len(Tail(s)) = Len(s) - 1
         /\ FlattenSeq(s) = s[1] \o FlattenSeq(Tail(s))
<1> DEFINE Y == Seq(X)
           n == Len(s) - 1
           t == Tail(s)
<1>1. /\ Len(s) \in Nat \ {0} /\ t \in Seq(Y) /\ Len(t) = n
      /\ \A i \in 1 .. Len(t) : t[i] = s[i + 1]
  <2>1. s \in Seq(Y)
    OBVIOUS
  <2> HIDE DEF Y
  <2>2. t \in Seq(Y) /\ Len(t) = Len(s) - 1 /\ Len(s) \in Nat \ {0}
        /\ \A i \in 1 .. Len(t) : t[i] = s[i + 1]
    BY <2>1, HeadTailProperties, LenProperties, EmptySeq
  <2> QED BY <2>2
<1>2. s[1] \in Y
  <2>1. s \in Seq(Y) /\ 1 \in 1 .. Len(s)
    BY <1>1
  <2> HIDE DEF Y
  <2> QED BY <2>1, ElementOfSeq
<1>3. n \in Nat /\ Len(s) = n + 1
  BY <1>1
<1> HIDE DEF n, t
<1>4. PICK h : Concatenations(h, X, n, t) /\ FlattenSeq(t) = h[n]
  BY <1>1, FlattenByPrefixes
<1>40. h \in [0 .. n -> Y] /\ h[0] = << >> /\ \A k \in 1 .. n : h[k] = h[k - 1] \o t[k]
  BY <1>4 DEF Concatenations
<1> DEFINE a == s[1]
           g == [k \in 0 .. n + 1 |-> IF k = 0 THEN << >> ELSE a \o h[k - 1]]
<1>41. a \in Y /\ a = s[1]
  BY <1>2
<1> HIDE DEF a
<1>42. \A k \in 1 .. n + 1 : g[k] = a \o h[k - 1]
  <2>1. \A k \in 1 .. n + 1 : k \in 0 .. n + 1 /\ k # 0
    BY <1>3
  <2> QED BY <2>1, Zenon
<1>5. \A k \in 0 .. n : a \o h[k] \in Y
  <2>1. a \in Seq(X) /\ \A k \in 0 .. n : h[k] \in Seq(X)
    BY <1>40, <1>41
  <2> QED BY <2>1, ConcatProperties, Zenon
<1>6. g \in [0 .. n + 1 -> Y]
  <2>1. \A k \in 0 .. n + 1 : k # 0 => k - 1 \in 0 .. n
    BY <1>3
  <2>2. << >> \in Y
    OBVIOUS
  <2> HIDE DEF Y
  <2> QED BY <1>5, <2>1, <2>2
<1>7. ASSUME NEW k \in 1 .. n + 1 PROVE g[k] = g[k - 1] \o s[k]
  <2>1. CASE k = 1
    <3>1. g[k] = a \o h[0] /\ g[k - 1] = << >>
      BY <1>3, <1>42, <2>1
    <3>2. a \o << >> = a /\ << >> \o a = a
      BY <1>41, ConcatEmptySeq
    <3> QED BY <1>40, <1>41, <2>1, <3>1, <3>2
  <2>2. CASE k # 1
    <3>1. k - 1 \in 1 .. n /\ k - 1 # 0 /\ k # 0 /\ (k - 1) + 1 = k /\ k - 1 \in 0 .. n + 1
          /\ k - 2 \in 0 .. n /\ (k - 1) - 1 = k - 2
      BY <1>3, <2>2
    <3>2. g[k] = a \o h[k - 1] /\ g[k - 1] = a \o h[k - 2]
      <4> HIDE DEF g
      <4>1. k - 1 \in 1 .. n + 1
        BY <1>3, <3>1
      <4> QED BY <1>42, <3>1, <4>1
    <3>3. h[k - 1] = h[k - 2] \o s[k]
      BY <1>1, <1>40, <3>1
    <3>4. s[k] \in Y /\ h[k - 2] \in Y
      <4>1. s \in Seq(Y) /\ k \in 1 .. Len(s)
        BY <1>3
      <4> HIDE DEF Y
      <4>2. s[k] \in Y
        BY <4>1, ElementOfSeq
      <4> QED BY <1>40, <3>1, <4>2
    <3>5. a \o (h[k - 2] \o s[k]) = (a \o h[k - 2]) \o s[k]
      <4>1. a \in Seq(X) /\ h[k - 2] \in Seq(X) /\ s[k] \in Seq(X)
        BY <1>41, <3>4
      <4>2. Regroups(a, h[k - 2], s[k])
        BY <4>1, ConcatRegroups, Zenon
      <4> QED BY <4>2 DEF Regroups
    <3> QED BY <3>2, <3>3, <3>5
  <2> QED BY <2>1, <2>2
<1>8. Concatenations(g, X, n + 1, s)
  <2>1. g[0] = << >>
    BY <1>3
  <2> HIDE DEF g
  <2> QED BY <1>6, <1>7, <2>1 DEF Concatenations
<1>9. FlattenSeq(s) = g[n + 1]
  <2> HIDE DEF g
  <2> QED BY <1>3, <1>8, FlattenIs
<1>10. g[n + 1] = s[1] \o h[n]
  <2>1. n + 1 \in 1 .. n + 1 /\ (n + 1) - 1 = n
    BY <1>3
  <2> HIDE DEF g
  <2> QED BY <1>41, <1>42, <2>1
<1>11. FlattenSeq(s) = s[1] \o FlattenSeq(t)
  BY <1>4, <1>9, <1>10
<1>12. t = Tail(s) /\ n = Len(s) - 1
  BY DEF t, n
<1> QED BY <1>1, <1>2, <1>11, <1>12

(* A part of a sequence, and the places where it is cut.                   *)
LEMMA PartOfSeq ==
  ASSUME NEW X, NEW s \in Seq(X), NEW i \in 0 .. Len(s), NEW j \in i .. Len(s)
  PROVE  /\ SubSeq(s, i + 1, j) \in Seq(X)
         /\ Len(SubSeq(s, i + 1, j)) = j - i
         /\ \A x \in 1 .. j - i : SubSeq(s, i + 1, j)[x] = s[i + x]
<1>1. Len(s) \in Nat /\ s \in [1 .. Len(s) -> X]
  BY LenProperties
<1>2. \A x \in i + 1 .. j : s[x] \in X
  BY <1>1
<1>3. /\ SubSeq(s, i + 1, j) \in Seq(X)
      /\ Len(SubSeq(s, i + 1, j)) = IF i + 1 <= j THEN j - (i + 1) + 1 ELSE 0
      /\ \A x \in 1 .. j - (i + 1) + 1 : SubSeq(s, i + 1, j)[x] = s[i + 1 + x - 1]
  BY <1>1, <1>2, SubSeqProperties
<1> DEFINE t == SubSeq(s, i + 1, j)
<1> HIDE DEF t
<1>4. i \in Nat /\ j \in Nat /\ i <= j
  BY <1>1
<1>5. Len(t) = j - i
  BY <1>3, <1>4 DEF t
<1>6. \A x \in 1 .. j - i : t[x] = s[i + x]
  <2>1. \A x \in 1 .. j - i : x \in 1 .. j - (i + 1) + 1 /\ i + 1 + x - 1 = i + x
    BY <1>4
  <2>2. \A x \in 1 .. j - (i + 1) + 1 : t[x] = s[i + 1 + x - 1]
    BY <1>3 DEF t
  <2> QED BY <2>1, <2>2
<1> QED BY <1>3, <1>5, <1>6 DEF t

Cuts(cut, n, len) ==
  /\ cut \in [0 .. n -> 0 .. len]
  /\ cut[0] = 0 /\ cut[n] = len
  /\ \A k \in 1 .. n : cut[k - 1] <= cut[k]
CutAt(s, n, cut) == [k \in 1 .. n |-> SubSeq(s, cut[k - 1] + 1, cut[k])]

(* The pieces between the cuts, and how long they are.                     *)
LEMMA CutType ==
  ASSUME NEW X, NEW s \in Seq(X), NEW n \in Nat, NEW cut, Cuts(cut, n, Len(s))
  PROVE  /\ CutAt(s, n, cut) \in Seq(Seq(X)) /\ Len(CutAt(s, n, cut)) = n
         /\ \A k \in 1 .. n : /\ CutAt(s, n, cut)[k] \in Seq(X)
                              /\ Len(CutAt(s, n, cut)[k]) = cut[k] - cut[k - 1]
<1> DEFINE t == CutAt(s, n, cut)
           Y == Seq(X)
<1>1. /\ Len(s) \in Nat
      /\ cut \in [0 .. n -> 0 .. Len(s)]
      /\ \A k \in 1 .. n : cut[k - 1] <= cut[k]
  BY LenProperties DEF Cuts
<1>2. ASSUME NEW k \in 1 .. n
      PROVE  cut[k - 1] \in 0 .. Len(s) /\ cut[k] \in cut[k - 1] .. Len(s)
  <2>1. k - 1 \in 0 .. n /\ k \in 0 .. n
    OBVIOUS
  <2>2. cut[k - 1] \in 0 .. Len(s) /\ cut[k] \in 0 .. Len(s)
    BY <1>1, <2>1
  <2> QED BY <1>1, <2>2
<1>3. ASSUME NEW k \in 1 .. n
      PROVE  t[k] \in Y /\ Len(t[k]) = cut[k] - cut[k - 1]
  <2> DEFINE a == cut[k - 1]
             b == cut[k]
  <2>1. t[k] = SubSeq(s, a + 1, b)
    BY DEF CutAt
  <2>2. a \in 0 .. Len(s) /\ b \in a .. Len(s)
    BY <1>2
  <2> HIDE DEF t, a, b
  <2>3. SubSeq(s, a + 1, b) \in Seq(X) /\ Len(SubSeq(s, a + 1, b)) = b - a
    BY <2>2, PartOfSeq
  <2> QED BY <2>1, <2>3 DEF a, b
<1>4. t \in [1 .. n -> Y]
  <2>1. t = [k \in 1 .. n |-> t[k]]
    BY DEF CutAt
  <2> HIDE DEF t, Y
  <2> QED BY <1>3, <2>1
<1> HIDE DEF t, Y
<1>5. t \in Seq(Y) /\ Len(t) = n
  BY <1>4, FunctionIsSeq
<1> QED BY <1>3, <1>5 DEF t, Y

(* The pieces between the cuts make up the sequence.                       *)
LEMMA FlattenCuts ==
  ASSUME NEW X, NEW s \in Seq(X), NEW n \in Nat, NEW cut, Cuts(cut, n, Len(s))
  PROVE  FlattenSeq(CutAt(s, n, cut)) = s
<1> DEFINE t == CutAt(s, n, cut)
           g == [k \in 0 .. n |-> SubSeq(s, 1, cut[k])]
           Y == Seq(X)
<1>1. /\ Len(s) \in Nat /\ cut[0] = 0 /\ cut[n] = Len(s)
      /\ cut \in [0 .. n -> 0 .. Len(s)]
      /\ \A k \in 1 .. n : cut[k - 1] <= cut[k]
  BY LenProperties DEF Cuts
<1>2. t \in Seq(Seq(X)) /\ Len(t) = n
  BY CutType
<1>3. \A k \in 1 .. n : t[k] = SubSeq(s, cut[k - 1] + 1, cut[k])
  BY DEF CutAt
<1> HIDE DEF t
<1>4. ASSUME NEW k \in 0 .. n PROVE g[k] \in Y
  <2>1. cut[k] \in 0 .. Len(s) /\ 0 \in 0 .. Len(s) /\ cut[k] \in 0 .. Len(s)
    BY <1>1
  <2>2. SubSeq(s, 0 + 1, cut[k]) \in Y
    BY <2>1, PartOfSeq
  <2> QED BY <2>2
<1>5. g \in [0 .. n -> Y]
  <2>1. g = [k \in 0 .. n |-> g[k]]
    OBVIOUS
  <2> HIDE DEF g, Y
  <2> QED BY <1>4, <2>1
<1>6. ASSUME NEW k \in 1 .. n PROVE g[k] = g[k - 1] \o t[k]
  <2>1. k - 1 \in 0 .. n /\ k \in 0 .. n
    OBVIOUS
  <2>2. /\ 1 \in 1 .. Len(s) + 1 /\ cut[k - 1] \in 1 - 1 .. Len(s)
        /\ cut[k] \in cut[k - 1] .. Len(s)
    <3>1. cut[k - 1] \in 0 .. Len(s) /\ cut[k] \in 0 .. Len(s)
      BY <1>1, <2>1
    <3> QED BY <1>1, <3>1
  <2>3. SubSeq(s, 1, cut[k - 1]) \o SubSeq(s, cut[k - 1] + 1, cut[k]) = SubSeq(s, 1, cut[k])
    BY <2>2, ConcatAdjacentSubSeq
  <2> QED BY <1>3, <2>1, <2>3
<1>7. g[0] = << >> /\ g[n] = s
  BY <1>1, SubSeqFull, SubSeqEmpty
<1> HIDE DEF g
<1>8. Concatenations(g, X, n, t)
  BY <1>5, <1>6, <1>7 DEF Concatenations
<1>9. FlattenSeq(t) = g[n]
  BY <1>2, <1>8, FlattenIs
<1> QED BY <1>7, <1>9 DEF t

(* The members of s are looked up in f.                                    *)
Through(s, f) == [i \in 1 .. Len(s) |-> f[s[i]]]
EachThrough(parts, f) == [p \in 1 .. Len(parts) |-> Through(parts[p], f)]

LooksUp(t, s, f, B) ==
  /\ t \in Seq(B) /\ Len(t) = Len(s)
  /\ \A i \in 1 .. Len(s) : t[i] = f[s[i]]

(* What looking up the members of a sequence returns.                      *)
LEMMA ThroughType ==
  ASSUME NEW A, NEW B, NEW f \in [A -> B], NEW s \in Seq(A)
  PROVE  LooksUp(Through(s, f), s, f, B)
<1> DEFINE n == Len(s)
           t == [i \in 1 .. n |-> f[s[i]]]
<1>1. n \in Nat /\ \A i \in 1 .. n : s[i] \in A
  BY LenProperties, ElementOfSeq
<1> HIDE DEF n
<1>2. t \in [1 .. n -> B]
  BY <1>1
<1>3. \A i \in 1 .. n : t[i] = f[s[i]]
  OBVIOUS
<1> HIDE DEF t
<1>4. t \in Seq(B) /\ Len(t) = n
  BY <1>1, <1>2, FunctionIsSeq
<1> QED BY <1>3, <1>4 DEF t, n, Through, LooksUp

(* Looking up members and concatenating commute.                           *)
LEMMA ThroughConcat ==
  ASSUME NEW A, NEW B, NEW f \in [A -> B], NEW s \in Seq(A), NEW t \in Seq(A)
  PROVE  Through(s \o t, f) = Through(s, f) \o Through(t, f)
<1> DEFINE m == Len(s)
           n == Len(t)
           u == s \o t
           fs == Through(s, f)
           ft == Through(t, f)
           fu == Through(u, f)
           v == fs \o ft
<1>1. /\ m \in Nat /\ n \in Nat /\ u \in Seq(A) /\ Len(u) = m + n
      /\ \A i \in 1 .. m + n : u[i] = IF i <= m THEN s[i] ELSE t[i - m]
  BY LenProperties, ConcatProperties
<1>2. /\ fs \in Seq(B) /\ Len(fs) = m /\ \A i \in 1 .. m : fs[i] = f[s[i]]
      /\ ft \in Seq(B) /\ Len(ft) = n /\ \A i \in 1 .. n : ft[i] = f[t[i]]
  <2>1. LooksUp(fs, s, f, B) /\ LooksUp(ft, t, f, B)
    BY ThroughType
  <2> QED BY <2>1 DEF LooksUp
<1> HIDE DEF u, fs, ft
<1>3. fu \in Seq(B) /\ Len(fu) = m + n /\ \A i \in 1 .. m + n : fu[i] = f[u[i]]
  <2>1. LooksUp(fu, u, f, B)
    BY <1>1, ThroughType
  <2> QED BY <1>1, <2>1 DEF LooksUp
<1>4. /\ v \in Seq(B) /\ Len(v) = m + n
      /\ \A i \in 1 .. m + n : v[i] = IF i <= m THEN fs[i] ELSE ft[i - m]
  <2>1. /\ v \in Seq(B) /\ Len(v) = Len(fs) + Len(ft)
        /\ \A i \in 1 .. Len(fs) + Len(ft) :
             v[i] = IF i <= Len(fs) THEN fs[i] ELSE ft[i - Len(fs)]
    <3>1. fs \in Seq(B) /\ ft \in Seq(B)
      BY <1>2
    <3> QED BY <3>1, ConcatProperties
  <2>2. Len(fs) = m /\ Len(ft) = n
    BY <1>2
  <2> HIDE DEF m, n, v
  <2> QED BY <2>1, <2>2
<1> HIDE DEF m, n, fu, v
<1>5. ASSUME NEW i \in 1 .. m + n PROVE fu[i] = v[i]
  <2>1. CASE i <= m
    <3>1. i \in 1 .. m
      BY <1>1, <2>1
    <3>2. u[i] = s[i] /\ fu[i] = f[u[i]] /\ v[i] = fs[i]
      BY <1>1, <1>3, <1>4, <2>1, Zenon
    <3> QED BY <1>2, <3>1, <3>2
  <2>2. CASE ~ (i <= m)
    <3>1. i - m \in 1 .. n
      BY <1>1, <2>2
    <3>2. u[i] = t[i - m] /\ fu[i] = f[u[i]] /\ v[i] = ft[i - m]
      BY <1>1, <1>3, <1>4, <2>2, Zenon
    <3> QED BY <1>2, <3>1, <3>2
  <2> QED BY <2>1, <2>2
<1>6. fu = v
  <2>1. Len(fu) = Len(v) /\ \A i \in 1 .. Len(fu) : fu[i] = v[i]
    BY <1>3, <1>4, <1>5
  <2> QED BY <1>3, <1>4, <2>1, SeqEqual
<1> QED BY <1>6 DEF fu, v, fs, ft, u

(* So do looking up the members of all parts and concatenating them.       *)
LEMMA FlattenThrough ==
  ASSUME NEW A, NEW B, NEW f \in [A -> B], NEW parts \in Seq(Seq(A))
  PROVE  /\ EachThrough(parts, f) \in Seq(Seq(B))
         /\ Len(EachThrough(parts, f)) = Len(parts)
         /\ FlattenSeq(EachThrough(parts, f)) = Through(FlattenSeq(parts), f)
<1> DEFINE n == Len(parts)
           Y == Seq(B)
           t == [p \in 1 .. n |-> Through(parts[p], f)]
<1>1. n \in Nat /\ \A p \in 1 .. n : parts[p] \in Seq(A)
  <2> DEFINE Z == Seq(A)
  <2>1. parts \in Seq(Z)
    OBVIOUS
  <2> HIDE DEF Z
  <2>2. n \in Nat /\ \A p \in 1 .. n : parts[p] \in Z
    BY <2>1, LenProperties, ElementOfSeq
  <2> QED BY <2>2 DEF Z
<1>2. PICK h : Concatenations(h, A, n, parts) /\ FlattenSeq(parts) = h[n]
  BY FlattenByPrefixes
<1>3. /\ h \in [0 .. n -> Seq(A)] /\ h[0] = << >>
      /\ \A k \in 1 .. n : h[k] = h[k - 1] \o parts[k]
  BY <1>2 DEF Concatenations
<1> HIDE DEF n
<1>4. \A p \in 1 .. n : t[p] = Through(parts[p], f) /\ t[p] \in Y
  BY <1>1, ThroughType, Zenon DEF LooksUp
<1>5. t \in Seq(Y) /\ Len(t) = n
  <2>1. t \in [1 .. n -> Y]
    BY <1>4, Zenon
  <2> HIDE DEF t, Y
  <2> QED BY <1>1, <2>1, FunctionIsSeq
<1> DEFINE g == [k \in 0 .. n |-> Through(h[k], f)]
<1>6. g \in [0 .. n -> Seq(B)]
  <2>1. \A k \in 0 .. n : h[k] \in Seq(A)
    BY <1>3
  <2>2. \A k \in 0 .. n : Through(h[k], f) \in Seq(B)
    BY <2>1, ThroughType, Zenon DEF LooksUp
  <2> QED BY <2>2, Zenon
<1>7. ASSUME NEW k \in 1 .. n PROVE g[k] = g[k - 1] \o t[k]
  <2>1. k \in 0 .. n /\ k - 1 \in 0 .. n
    BY <1>1
  <2>2. h[k - 1] \in Seq(A) /\ parts[k] \in Seq(A)
    BY <1>1, <1>3, <2>1
  <2>3. Through(h[k - 1] \o parts[k], f) = Through(h[k - 1], f) \o Through(parts[k], f)
    BY <2>2, ThroughConcat, Zenon
  <2>4. g[k] = Through(h[k - 1] \o parts[k], f)
    BY <1>3, <2>1, Zenon
  <2>5. g[k - 1] = Through(h[k - 1], f)
    BY <2>1, Zenon
  <2> QED BY <1>4, <2>3, <2>4, <2>5, Zenon
<1>8. g[0] = << >> /\ g[n] = Through(h[n], f)
  <2>1. Through(<< >>, f) = << >>
    BY DEF Through
  <2>2. 0 \in 0 .. n /\ n \in 0 .. n
    BY <1>1
  <2> QED BY <1>3, <2>1, <2>2, Zenon
<1> HIDE DEF g, t
<1>9. Concatenations(g, B, n, t)
  BY <1>6, <1>7, <1>8 DEF Concatenations
<1>10. FlattenSeq(t) = g[n]
  BY <1>5, <1>9, FlattenIs, Zenon DEF Y
<1>11. t = EachThrough(parts, f)
  BY DEF t, n, EachThrough
<1> QED BY <1>2, <1>5, <1>8, <1>10, <1>11, Zenon DEF n, Y

(* Sequences of sequences of the same lengths.                             *)
Alike(s, t) ==
  /\ Len(s) = Len(t)
  /\ \A i \in 1 .. Len(s) : Len(s[i]) = Len(t[i])

(* Sequences of the same lengths concatenate to such sequences.            *)
LEMMA ConcatAlike ==
  ASSUME NEW X, NEW s1 \in Seq(X), NEW s2 \in Seq(X), NEW t1 \in Seq(X), NEW t2 \in Seq(X),
         Alike(s1, t1), Alike(s2, t2)
  PROVE  Alike(s1 \o s2, t1 \o t2)
<1> DEFINE m == Len(s1)
           n == Len(s2)
           s == s1 \o s2
           t == t1 \o t2
<1>1. /\ m \in Nat /\ n \in Nat /\ Len(s) = m + n
      /\ \A i \in 1 .. m + n : s[i] = IF i <= m THEN s1[i] ELSE s2[i - m]
  BY LenProperties, ConcatProperties
<1>2. /\ Len(t) = Len(t1) + Len(t2)
      /\ \A i \in 1 .. Len(t1) + Len(t2) :
           t[i] = IF i <= Len(t1) THEN t1[i] ELSE t2[i - Len(t1)]
  BY ConcatProperties
<1>3. /\ Len(t1) = m /\ Len(t2) = n
      /\ \A i \in 1 .. m : Len(s1[i]) = Len(t1[i])
      /\ \A i \in 1 .. n : Len(s2[i]) = Len(t2[i])
  BY DEF Alike
<1> HIDE DEF m, n, s, t
<1>4. ASSUME NEW i \in 1 .. m + n PROVE Len(s[i]) = Len(t[i])
  <2>1. CASE i <= m
    <3>1. i \in 1 .. m
      BY <1>1, <2>1
    <3> QED BY <1>1, <1>2, <1>3, <2>1, <3>1
  <2>2. CASE ~ (i <= m)
    <3>1. i - m \in 1 .. n
      BY <1>1, <2>2
    <3> QED BY <1>1, <1>2, <1>3, <2>2, <3>1
  <2> QED BY <2>1, <2>2
<1>5. Alike(s, t)
  BY <1>1, <1>2, <1>3, <1>4 DEF Alike
<1> QED BY <1>5 DEF s, t

(* And so do sequences of them.                                            *)
LEMMA FlattenAlike ==
  ASSUME NEW X, NEW s \in Seq(Seq(X)), NEW t \in Seq(Seq(X)), Len(s) = Len(t),
         \A k \in 1 .. Len(s) : Alike(s[k], t[k])
  PROVE  Alike(FlattenSeq(s), FlattenSeq(t))
<1> DEFINE n == Len(s)
           Y == Seq(X)
<1>1. n \in Nat /\ \A k \in 1 .. n : s[k] \in Y /\ t[k] \in Y /\ Alike(s[k], t[k])
  <2>1. s \in Seq(Y) /\ t \in Seq(Y)
    OBVIOUS
  <2> HIDE DEF Y
  <2> QED BY <2>1, LenProperties, ElementOfSeq
<1>2. PICK f : Concatenations(f, X, n, s) /\ FlattenSeq(s) = f[n]
  BY FlattenByPrefixes
<1>3. PICK g : Concatenations(g, X, n, t) /\ FlattenSeq(t) = g[n]
  BY FlattenByPrefixes
<1> HIDE DEF n
<1>4. /\ f \in [0 .. n -> Y] /\ g \in [0 .. n -> Y] /\ f[0] = << >> /\ g[0] = << >>
      /\ \A k \in 1 .. n : f[k] = f[k - 1] \o s[k] /\ g[k] = g[k - 1] \o t[k]
  BY <1>2, <1>3 DEF Concatenations
<1> HIDE DEF Y
<1> DEFINE S == {k \in 0 .. n : Alike(f[k], g[k])}
<1>5. 0 \in S
  <2>1. Alike(<< >>, << >>)
    BY DEF Alike
  <2> QED BY <1>1, <1>4, <2>1
<1>6. ASSUME NEW k \in 0 .. n - 1, k \in S PROVE k + 1 \in S
  <2>1. k + 1 \in 1 .. n /\ (k + 1) - 1 = k /\ k \in 0 .. n /\ k + 1 \in 0 .. n
    BY <1>1
  <2>2. f[k] \in Y /\ g[k] \in Y /\ s[k + 1] \in Y /\ t[k + 1] \in Y
        /\ Alike(f[k], g[k]) /\ Alike(s[k + 1], t[k + 1])
    BY <1>1, <1>4, <1>6, <2>1
  <2>3. Alike(f[k] \o s[k + 1], g[k] \o t[k + 1])
    BY <2>2, ConcatAlike, Zenon DEF Y
  <2>4. f[k + 1] = f[k] \o s[k + 1] /\ g[k + 1] = g[k] \o t[k + 1]
    BY <1>4, <2>1
  <2> QED BY <2>1, <2>3, <2>4
<1> HIDE DEF S
<1>7. n \in S
  BY <1>1, <1>5, <1>6, Induction
<1> QED BY <1>2, <1>3, <1>7 DEF S

(* With a first part that is not empty, the concatenation is not empty.    *)
LEMMA FlattenNonempty ==
  ASSUME NEW X, NEW s \in Seq(Seq(X)), s # << >>, s[1] # << >>
  PROVE  FlattenSeq(s) # << >>
<1>1. /\ s[1] \in Seq(X) /\ Tail(s) \in Seq(Seq(X))
      /\ FlattenSeq(s) = s[1] \o FlattenSeq(Tail(s))
  BY FlattenHead
<1>2. FlattenSeq(Tail(s)) \in Seq(X)
  BY <1>1, FlattenType
<1> DEFINE u == s[1]
           v == FlattenSeq(Tail(s))
<1>3. u \in Seq(X) /\ v \in Seq(X) /\ u # << >>
  BY <1>1, <1>2
<1> HIDE DEF u, v
<1>4. u \o v # << >>
  <2>1. Len(u \o v) = Len(u) + Len(v) /\ Len(u) \in Nat \ {0} /\ Len(v) \in Nat
    BY <1>3, ConcatProperties, LenProperties, EmptySeq
  <2>2. Len(u \o v) # 0
    BY <2>1
  <2> QED BY <2>2, EmptySeq
<1> QED BY <1>1, <1>4 DEF u, v

(* The parts of two sequences of parts.                                    *)
LEMMA FlattenConcat ==
  ASSUME NEW X, NEW x \in Seq(Seq(X)), NEW y \in Seq(Seq(X))
  PROVE  FlattenSeq(x \o y) = FlattenSeq(x) \o FlattenSeq(y)
<1> DEFINE Y == Seq(X)
           m == Len(x)
           n == Len(y)
           z == x \o y
<1>1. /\ m \in Nat /\ n \in Nat /\ z \in Seq(Y) /\ Len(z) = m + n
      /\ \A k \in 1 .. m : x[k] \in Y /\ z[k] = x[k]
      /\ \A k \in 1 .. n : y[k] \in Y /\ z[m + k] = y[k]
  <2>1. x \in Seq(Y) /\ y \in Seq(Y)
    OBVIOUS
  <2> HIDE DEF Y
  <2>2. m \in Nat /\ n \in Nat
    BY <2>1, LenProperties
  <2>3. z \in Seq(Y) /\ Len(z) = m + n
        /\ \A k \in 1 .. m + n : z[k] = IF k <= m THEN x[k] ELSE y[k - m]
    BY <2>1, ConcatProperties
  <2>4. /\ \A k \in 1 .. m : x[k] \in Y
        /\ \A k \in 1 .. n : y[k] \in Y
    BY <2>1, ElementOfSeq
  <2> HIDE DEF m, n, z
  <2>5. \A k \in 1 .. m : z[k] = x[k]
    BY <2>2, <2>3
  <2>6. ASSUME NEW k \in 1 .. n PROVE z[m + k] = y[k]
    <3>1. m + k \in 1 .. m + n /\ ~ (m + k <= m) /\ (m + k) - m = k
      BY <2>2
    <3> QED BY <2>3, <3>1
  <2> QED BY <2>2, <2>3, <2>4, <2>5, <2>6
<1>2. PICK f : Concatenations(f, X, m + n, z) /\ FlattenSeq(z) = f[m + n]
  BY <1>1, FlattenByPrefixes
<1>3. PICK h : Concatenations(h, X, n, y) /\ FlattenSeq(y) = h[n]
  BY FlattenByPrefixes
<1>4. FlattenSeq(x) = f[m]
  <2> DEFINE g == [k \in 0 .. m |-> f[k]]
  <2> HIDE DEF m, n, z, Y
  <2>1. /\ \A k \in 0 .. m : f[k] \in Seq(X)
        /\ f[0] = << >> /\ \A k \in 1 .. m : f[k] = f[k - 1] \o x[k]
    <3>1. \A k \in 0 .. m : k \in 0 .. m + n
      BY <1>1
    <3>2. \A k \in 1 .. m : k \in 1 .. m + n
      BY <1>1
    <3> QED BY <1>1, <1>2, <3>1, <3>2 DEF Concatenations
  <2>2. \A k \in 1 .. m : k \in 0 .. m /\ k - 1 \in 0 .. m
    BY <1>1
  <2>3. /\ g \in [0 .. m -> Seq(X)]
        /\ \A k \in 0 .. m : g[k] = f[k]
        /\ 0 \in 0 .. m /\ m \in 0 .. m
    BY <1>1, <2>1
  <2> HIDE DEF g
  <2>4. g[0] = << >> /\ g[m] = f[m] /\ \A k \in 1 .. m : g[k] = g[k - 1] \o x[k]
    BY <2>1, <2>2, <2>3, Zenon
  <2>6. Concatenations(g, X, m, x)
    BY <2>3, <2>4 DEF Concatenations
  <2>5. FlattenSeq(x) = g[m]
    BY <2>6, FlattenIs DEF m
  <2> QED BY <2>4, <2>5
<1> DEFINE S == {k \in 0 .. n : f[m + k] = f[m] \o h[k]}
<1> HIDE DEF m, n, z, Y
<1>5. /\ f \in [0 .. m + n -> Y] /\ h \in [0 .. n -> Y] /\ h[0] = << >>
      /\ \A k \in 1 .. m + n : f[k] = f[k - 1] \o z[k]
      /\ \A k \in 1 .. n : h[k] = h[k - 1] \o y[k]
  BY <1>2, <1>3 DEF Concatenations, Y
<1>6. f[m] \in Y
  BY <1>1, <1>5
<1>7. 0 \in S
  <2>1. f[m] \o << >> = f[m]
    BY <1>6, ConcatEmptySeq DEF Y
  <2>2. 0 \in 0 .. n /\ m + 0 = m
    BY <1>1
  <2>3. f[m + 0] = f[m] \o h[0]
    BY <1>5, <2>1, <2>2
  <2> QED BY <2>2, <2>3
<1>8. ASSUME NEW k \in 0 .. n - 1, k \in S PROVE k + 1 \in S
  <2>1. /\ k + 1 \in 1 .. n /\ (k + 1) - 1 = k /\ k \in 0 .. n /\ k + 1 \in 0 .. n
        /\ m + (k + 1) \in 1 .. m + n /\ (m + (k + 1)) - 1 = m + k
    BY <1>1
  <2>2. f[m + (k + 1)] = f[m + k] \o y[k + 1] /\ h[k + 1] = h[k] \o y[k + 1]
    BY <1>1, <1>5, <2>1
  <2>3. f[m + k] = f[m] \o h[k]
    BY <1>8
  <2>4. h[k] \in Y /\ y[k + 1] \in Y
    BY <1>1, <1>5, <2>1
  <2> DEFINE u == f[m]
             v == h[k]
             w == y[k + 1]
  <2>5. u \in Seq(X) /\ v \in Seq(X) /\ w \in Seq(X)
    BY <1>6, <2>4 DEF Y
  <2> HIDE DEF u, v, w
  <2>6. Regroups(u, v, w)
    BY <2>5, ConcatRegroups, Zenon
  <2>7. u \o (v \o w) = (u \o v) \o w
    BY <2>6 DEF Regroups
  <2>8. f[m + (k + 1)] = f[m] \o h[k + 1]
    BY <2>2, <2>3, <2>7, Zenon DEF u, v, w
  <2> QED BY <2>1, <2>8
<1> HIDE DEF S
<1>9. n \in S
  BY <1>1, <1>7, <1>8, Induction
<1>10. f[m + n] = f[m] \o h[n]
  BY <1>9 DEF S
<1> QED BY <1>2, <1>3, <1>4, <1>10 DEF z

(* Parts of parts may be joined in either order.                           *)
LEMMA FlattenFlatten ==
  ASSUME NEW X, NEW s \in Seq(Seq(Seq(X)))
  PROVE  LET t == [i \in 1 .. Len(s) |-> FlattenSeq(s[i])]
         IN  t \in Seq(Seq(X)) /\ FlattenSeq(t) = FlattenSeq(FlattenSeq(s))
<1> DEFINE Y == Seq(X)
           Z == Seq(Y)
           n == Len(s)
           t == [i \in 1 .. n |-> FlattenSeq(s[i])]
<1>1. n \in Nat /\ \A i \in 1 .. n : s[i] \in Z
  <2>1. s \in Seq(Z)
    OBVIOUS
  <2> HIDE DEF Z, Y
  <2> QED BY <2>1, LenProperties, ElementOfSeq
<1>2. \A i \in 1 .. n : t[i] = FlattenSeq(s[i]) /\ t[i] \in Y
  BY <1>1, FlattenType
<1>3. t \in Seq(Y) /\ Len(t) = n
  <2>1. t = [i \in 1 .. n |-> t[i]]
    OBVIOUS
  <2> HIDE DEF t, n, Y
  <2>2. t \in [1 .. n -> Y]
    BY <1>2, <2>1
  <2> QED BY <1>1, <2>2, FunctionIsSeq
<1>4. PICK f : Concatenations(f, Y, n, s) /\ FlattenSeq(s) = f[n]
  BY FlattenByPrefixes
<1> DEFINE g == [k \in 0 .. n |-> FlattenSeq(f[k])]
<1> HIDE DEF n, t
<1>5. /\ \A k \in 0 .. n : f[k] \in Z
      /\ f[0] = << >> /\ \A k \in 1 .. n : f[k] = f[k - 1] \o s[k]
  BY <1>4 DEF Concatenations
<1>6. \A k \in 0 .. n : g[k] = FlattenSeq(f[k]) /\ g[k] \in Y
  BY <1>5, FlattenType
<1>7. g[0] = << >>
  <2>1. 0 \in 0 .. n
    BY <1>1
  <2> QED BY <1>5, <1>6, <2>1, FlattenEmpty
<1>8. ASSUME NEW k \in 1 .. n PROVE g[k] = g[k - 1] \o t[k]
  <2>1. k \in 0 .. n /\ k - 1 \in 0 .. n
    BY <1>1
  <2> DEFINE a == f[k - 1]
             b == s[k]
  <2>2. a \in Seq(Seq(X)) /\ b \in Seq(Seq(X)) /\ f[k] = a \o b
    BY <1>1, <1>5, <2>1
  <2>3. g[k] = FlattenSeq(f[k]) /\ g[k - 1] = FlattenSeq(a) /\ t[k] = FlattenSeq(b)
    BY <1>2, <1>6, <2>1
  <2> HIDE DEF a, b, g
  <2>4. FlattenSeq(a \o b) = FlattenSeq(a) \o FlattenSeq(b)
    BY <2>2, FlattenConcat
  <2> QED BY <2>2, <2>3, <2>4
<1>9. Concatenations(g, X, n, t)
  <2>1. g = [k \in 0 .. n |-> g[k]]
    OBVIOUS
  <2> HIDE DEF g
  <2>2. g \in [0 .. n -> Y]
    BY <1>6, <2>1
  <2> QED BY <1>7, <1>8, <2>2 DEF Concatenations
<1>10. g[n] = FlattenSeq(f[n])
  BY <1>1
<1> HIDE DEF g
<1>11. FlattenSeq(t) = g[n]
  BY <1>3, <1>9, FlattenIs
<1> QED BY <1>3, <1>4, <1>10, <1>11 DEF t, n

(* Parts without members.                                                  *)
LEMMA FlattenNothing ==
  ASSUME NEW X, NEW s \in Seq(Seq(X)), \A i \in 1 .. Len(s) : s[i] = << >>
  PROVE  FlattenSeq(s) = << >>
<1> DEFINE n == Len(s)
           g == [k \in 0 .. n |-> << >>]
<1>1. n \in Nat
  BY LenProperties
<1>2. << >> \in Seq(X) /\ << >> \o << >> = << >>
  BY ConcatEmptySeq
<1>3. \A k \in 0 .. n : g[k] = << >>
  OBVIOUS
<1>4. g \in [0 .. n -> Seq(X)]
  BY <1>2
<1> HIDE DEF g
<1>5. Concatenations(g, X, n, s)
  <2>1. 0 \in 0 .. n /\ \A k \in 1 .. n : k \in 0 .. n /\ k - 1 \in 0 .. n
    BY <1>1
  <2>2. \A k \in 1 .. n : g[k] = << >> /\ g[k - 1] = << >> /\ s[k] = << >>
    BY <1>3, <2>1
  <2>3. \A k \in 1 .. n : g[k] = g[k - 1] \o s[k]
    BY <1>2, <2>2
  <2>4. g[0] = << >>
    BY <1>3, <2>1
  <2> QED BY <1>4, <2>3, <2>4 DEF Concatenations
<1>6. FlattenSeq(s) = g[n]
  BY <1>5, FlattenIs
<1> QED BY <1>1, <1>3, <1>6

(* The members of the parts are the members of the whole.                  *)
LEMMA FlattenMembers ==
  ASSUME NEW X, NEW s \in Seq(Seq(X))
  PROVE  Members(FlattenSeq(s)) = UNION {Members(s[i]) : i \in 1 .. Len(s)}
<1> DEFINE Y == Seq(X)
           n == Len(s)
<1>1. n \in Nat /\ \A k \in 1 .. n : s[k] \in Y
  <2>1. s \in Seq(Y)
    OBVIOUS
  <2> HIDE DEF Y
  <2> QED BY <2>1, LenProperties, ElementOfSeq
<1>2. PICK f : Concatenations(f, X, n, s) /\ FlattenSeq(s) = f[n]
  BY FlattenByPrefixes
<1> HIDE DEF n
<1>3. /\ f \in [0 .. n -> Y] /\ f[0] = << >> /\ \A k \in 1 .. n : f[k] = f[k - 1] \o s[k]
  BY <1>2 DEF Concatenations
<1> DEFINE S == {k \in 0 .. n : Members(f[k]) = UNION {Members(s[i]) : i \in 1 .. k}}
<1>4. 0 \in S
  <2>1. Members(<< >>) = {} /\ 1 .. 0 = {}
    BY DEF Members
  <2>2. UNION {Members(s[i]) : i \in 1 .. 0} = {}
    BY <2>1
  <2> QED BY <1>1, <1>3, <2>1, <2>2
<1>5. ASSUME NEW k \in 0 .. n - 1, k \in S PROVE k + 1 \in S
  <2>1. /\ k + 1 \in 1 .. n /\ (k + 1) - 1 = k /\ k \in 0 .. n /\ k + 1 \in 0 .. n
        /\ 1 .. k + 1 = (1 .. k) \cup {k + 1}
    BY <1>1
  <2>2. f[k] \in Seq(X) /\ s[k + 1] \in Seq(X) /\ f[k + 1] = f[k] \o s[k + 1]
    BY <1>1, <1>3, <2>1
  <2>3. Members(f[k] \o s[k + 1]) = Members(f[k]) \cup Members(s[k + 1])
    BY <2>2, ConcatDistinct
  <2>4. Members(f[k]) = UNION {Members(s[i]) : i \in 1 .. k}
    BY <1>5
  <2>5. UNION {Members(s[i]) : i \in 1 .. k + 1}
          = (UNION {Members(s[i]) : i \in 1 .. k}) \cup Members(s[k + 1])
    BY <2>1, Zenon
  <2>6. Members(f[k + 1]) = UNION {Members(s[i]) : i \in 1 .. k + 1}
    BY <2>2, <2>3, <2>4, <2>5
  <2> QED BY <2>1, <2>6
<1> HIDE DEF S
<1>6. n \in S
  BY <1>1, <1>4, <1>5, Induction
<1> QED BY <1>2, <1>6 DEF S, n

-----------------------------------------------------------------------------
(* Sums.                                                                   *)

(* A sum goes through the sums of the first members.                       *)
Sums(c, s) ==
  /\ c \in [0 .. Len(s) -> Int]
  /\ c[0] = 0
  /\ \A k \in 1 .. Len(s) : c[k] = c[k - 1] + s[k]

(* The recursive function that SumSeq chooses exists, so it sums up.       *)
LEMMA SumBySums ==
  ASSUME NEW s \in Seq(Int)
  PROVE  \E c : Sums(c, s) /\ SumSeq(s) = c[Len(s)]
<1> DEFINE n == Len(s)
           step(h) == [k \in 0 .. n |-> IF k = 0 THEN 0 ELSE h[k - 1] + s[k]]
           c == CHOOSE h : h = step(h)
           F == [k \in 1 .. n |-> [x \in Int |-> x + s[k]]]
<1>1. n \in Nat /\ \A k \in 1 .. n : s[k] \in Int
  BY LenProperties, ElementOfSeq
<1>2. SumSeq(s) = c[n]
  BY DEF SumSeq
<1> HIDE DEF n
<1>3. Steps(Int, n, F)
  BY <1>1 DEF Steps
<1>4. PICK g : Follows(g, 0, Int, n, F)
  <2>1. 0 \in Int
    OBVIOUS
  <2> QED BY <1>3, <2>1, Recursion
<1>5. /\ g \in [0 .. n -> Int] /\ g[0] = 0
      /\ \A k \in 1 .. n : g[k] = g[k - 1] + s[k]
  <2>1. \A k \in 1 .. n, x \in Int : F[k][x] = x + s[k]
    BY Zenon
  <2>2. \A k \in 1 .. n : k - 1 \in 0 .. n
    BY <1>1
  <2> HIDE DEF F
  <2> QED BY <1>4, <2>1, <2>2 DEF Follows
<1>6. g = step(g)
  BY <1>1, <1>5
<1>7. c = step(c)
  BY <1>6, Zenon
<1> HIDE DEF c
<1>8. c[0] = 0 /\ (\A k \in 1 .. n : c[k] = c[k - 1] + s[k]) /\ DOMAIN c = 0 .. n
  BY <1>1, <1>7
<1> DEFINE S == {k \in 0 .. n : c[k] \in Int}
<1>9. \A m \in 0 .. n : m \in S
  <2> SUFFICES ASSUME NEW m \in 0 .. n PROVE m \in S
    OBVIOUS
  <2>1. 0 \in S
    BY <1>1, <1>8
  <2>2. ASSUME NEW k \in 0 .. m - 1, k \in S PROVE k + 1 \in S
    <3>1. k + 1 \in 1 .. n /\ (k + 1) - 1 = k /\ k + 1 \in 0 .. n
      BY <1>1
    <3>2. c[k + 1] = c[k] + s[k + 1] /\ c[k] \in Int /\ s[k + 1] \in Int
      BY <1>1, <1>8, <2>2, <3>1
    <3> QED BY <3>1, <3>2
  <2> HIDE DEF S
  <2> QED BY <1>1, <2>1, <2>2, Induction
<1>10. c \in [0 .. n -> Int]
  <2>1. c = [k \in 0 .. n |-> c[k]]
    BY <1>7, <1>8
  <2> QED BY <1>9, <2>1
<1>11. Sums(c, s)
  BY <1>8, <1>10 DEF Sums, n
<1> QED BY <1>2, <1>11 DEF n

(* Inserting a member, wherever, adds it to the sum.                       *)
IsInserted(u, s, pos, x) ==
  /\ pos \in 1 .. Len(s) + 1 /\ Len(u) = Len(s) + 1
  /\ \A i \in 1 .. Len(s) + 1 :
       u[i] = IF i < pos THEN s[i] ELSE IF i = pos THEN x ELSE s[i - 1]

LEMMA SumInserted ==
  ASSUME NEW s \in Seq(Int), NEW u \in Seq(Int), NEW x \in Int, NEW pos, IsInserted(u, s, pos, x)
  PROVE  SumSeq(s) \in Int /\ SumSeq(u) = SumSeq(s) + x
<1> DEFINE n == Len(s)
<1>1. /\ n \in Nat /\ pos \in 1 .. n + 1
      /\ Len(u) = n + 1
      /\ \A i \in 1 .. n + 1 : u[i] = IF i < pos THEN s[i] ELSE IF i = pos THEN x ELSE s[i - 1]
      /\ \A i \in 1 .. n : s[i] \in Int
  BY LenProperties, ElementOfSeq DEF IsInserted
<1> HIDE DEF n
<1>2. PICK c : Sums(c, s) /\ SumSeq(s) = c[n]
  BY SumBySums DEF n
<1>3. PICK d : Sums(d, u) /\ SumSeq(u) = d[n + 1]
  BY <1>1, SumBySums
<1>4. /\ c \in [0 .. n -> Int] /\ c[0] = 0
      /\ \A k \in 1 .. n : c[k] = c[k - 1] + s[k]
  BY <1>2 DEF Sums, n
<1>5. /\ d \in [0 .. n + 1 -> Int] /\ d[0] = 0
      /\ \A k \in 1 .. n + 1 : d[k] = d[k - 1] + u[k]
  BY <1>1, <1>3 DEF Sums
<1> DEFINE S == {k \in 0 .. n + 1 : d[k] = IF k < pos THEN c[k] ELSE c[k - 1] + x}
<1>6. 0 \in S
  BY <1>1, <1>4, <1>5
<1>7. ASSUME NEW k \in 0 .. n + 1 - 1, k \in S PROVE k + 1 \in S
  <2>1. k + 1 \in 1 .. n + 1 /\ (k + 1) - 1 = k /\ k + 1 \in 0 .. n + 1
    BY <1>1
  <2>2. d[k + 1] = d[k] + u[k + 1]
    BY <1>5, <2>1
  <2>3. CASE k + 1 < pos
    <3>1. k + 1 \in 1 .. n /\ k < pos
      BY <1>1, <2>3
    <3>2. u[k + 1] = s[k + 1] /\ d[k] = c[k] /\ c[k + 1] = c[k] + s[k + 1]
      BY <1>1, <1>4, <1>7, <2>1, <2>3, <3>1
    <3> QED BY <2>1, <2>2, <2>3, <3>2
  <2>4. CASE k + 1 = pos
    <3>1. k < pos /\ ~ (k + 1 < pos) /\ k \in 0 .. n
      BY <1>1, <2>4
    <3>2. u[k + 1] = x /\ d[k] = c[k]
      BY <1>1, <1>7, <2>1, <2>4, <3>1
    <3> QED BY <2>1, <2>2, <3>1, <3>2
  <2>5. CASE k + 1 > pos
    <3>1. ~ (k < pos) /\ ~ (k + 1 < pos) /\ k + 1 # pos /\ k \in 1 .. n
      BY <1>1, <2>5
    <3>2. u[k + 1] = s[k] /\ d[k] = c[k - 1] + x /\ c[k] = c[k - 1] + s[k]
      <4>1. u[k + 1] = s[k + 1 - 1] /\ k + 1 - 1 = k
        BY <1>1, <2>1, <3>1
      <4>2. d[k] = c[k - 1] + x
        BY <1>7, <3>1
      <4> QED BY <1>4, <3>1, <4>1, <4>2
    <3>3. c[k - 1] \in Int /\ s[k] \in Int
      BY <1>1, <1>4, <3>1
    <3> QED BY <2>1, <2>2, <3>1, <3>2, <3>3
  <2> QED BY <1>1, <2>3, <2>4, <2>5
<1> HIDE DEF S
<1>8. n + 1 \in S
  <2> DEFINE m == n + 1
  <2>1. m \in Nat /\ \A k \in 0 .. m - 1 : k \in S => k + 1 \in S
    BY <1>1, <1>7
  <2> HIDE DEF m
  <2>2. m \in S
    BY <1>6, <2>1, Induction
  <2> QED BY <2>2 DEF m
<1>9. d[n + 1] = c[n] + x /\ c[n] \in Int
  <2>1. ~ (n + 1 < pos) /\ (n + 1) - 1 = n /\ n \in 0 .. n
    BY <1>1
  <2> QED BY <1>4, <1>8, <2>1 DEF S
<1> QED BY <1>2, <1>3, <1>9

(* Nothing sums to nothing.                                                *)
LEMMA SumNothing == SumSeq(<< >>) = 0
<1>1. << >> \in Seq(Int) /\ Len(<< >>) = 0
  BY EmptySeq
<1>2. PICK c : Sums(c, << >>) /\ SumSeq(<< >>) = c[0]
  BY <1>1, SumBySums
<1> QED BY <1>2 DEF Sums

(* The sum of numbers is a number; a further one adds to it.               *)
LEMMA SumAppend ==
  ASSUME NEW s \in Seq(Int), NEW x \in Int
  PROVE  SumSeq(s) \in Int /\ SumSeq(Append(s, x)) = SumSeq(s) + x
<1> DEFINE t == Append(s, x)
           n == Len(s)
<1>1. n \in Nat /\ t \in Seq(Int) /\ Len(t) = n + 1 /\ t[n + 1] = x
      /\ \A k \in 1 .. n : t[k] = s[k]
  BY LenProperties, AppendProperties
<1> HIDE DEF t, n
<1>2. \A i \in 1 .. n + 1 : t[i] = IF i < n + 1 THEN s[i] ELSE IF i = n + 1 THEN x ELSE s[i - 1]
  BY <1>1
<1>3. IsInserted(t, s, n + 1, x)
  <2>1. n + 1 \in 1 .. n + 1
    BY <1>1
  <2> QED BY <1>1, <1>2, <2>1 DEF IsInserted, n
<1> QED BY <1>1, <1>3, SumInserted DEF t

(* Without the last member, and without it where it came from, a           *)
(* rearrangement is one of a shorter sequence.                             *)
LEMMA LastTakenAway ==
  ASSUME NEW n \in Nat, NEW s \in Seq(Int), NEW t \in Seq(Int), Len(s) = n + 1,
         Rearranges(t, s, n + 1)
  PROVE  \E s1, t1 \in Seq(Int), pos \in Int :
            /\ Len(s1) = n /\ Rearranges(t1, s1, n)
            /\ IsInserted(s, s1, pos, t[n + 1])
            /\ IsInserted(t, t1, n + 1, t[n + 1])
<1>1. /\ Len(t) = n + 1
      /\ \A i \in 1 .. n + 1 : s[i] \in Int /\ t[i] \in Int
  BY ElementOfSeq DEF Rearranges
<1>2. PICK p, q : Permutes(p, q, n + 1) /\ \A i \in 1 .. n + 1 : t[i] = s[p[i]]
  BY DEF Rearranges
<1>3. /\ p \in [1 .. n + 1 -> 1 .. n + 1] /\ q \in [1 .. n + 1 -> 1 .. n + 1]
      /\ \A i \in 1 .. n + 1 : q[p[i]] = i /\ p[q[i]] = i
  BY <1>2 DEF Permutes
<1> DEFINE pos == p[n + 1]
           s1 == [i \in 1 .. n |-> IF i < pos THEN s[i] ELSE s[i + 1]]
           t1 == [i \in 1 .. n |-> t[i]]
           p1 == [i \in 1 .. n |-> IF p[i] < pos THEN p[i] ELSE p[i] - 1]
           q1 == [i \in 1 .. n |-> IF i < pos THEN q[i] ELSE q[i + 1]]
<1>4. /\ n + 1 \in 1 .. n + 1 /\ pos \in 1 .. n + 1
      /\ \A i \in 1 .. n : i \in 1 .. n + 1 /\ i + 1 \in 1 .. n + 1 /\ i # n + 1
  BY <1>3
<1>5. /\ s1 \in Seq(Int) /\ Len(s1) = n
      /\ t1 \in Seq(Int) /\ Len(t1) = n
  <2>1. s1 \in [1 .. n -> Int] /\ t1 \in [1 .. n -> Int]
    BY <1>1, <1>4
  <2> HIDE DEF s1, t1
  <2> QED BY <2>1, FunctionIsSeq
<1>6. \A i \in 1 .. n : p[i] # pos /\ p[i] \in 1 .. n + 1
  <2> SUFFICES ASSUME NEW i \in 1 .. n PROVE p[i] # pos /\ p[i] \in 1 .. n + 1
    OBVIOUS
  <2>1. q[p[i]] = i /\ q[pos] = n + 1 /\ i # n + 1
    BY <1>3, <1>4
  <2> QED BY <1>3, <1>4, <2>1
<1>7. \A i \in 1 .. n + 1 : i # pos => q[i] \in 1 .. n
  <2> SUFFICES ASSUME NEW i \in 1 .. n + 1, i # pos PROVE q[i] \in 1 .. n
    OBVIOUS
  <2>1. p[q[i]] = i /\ q[i] \in 1 .. n + 1
    BY <1>3
  <2>2. q[i] # n + 1
    BY <2>1
  <2> QED BY <2>1, <2>2
<1>8. p1 \in [1 .. n -> 1 .. n] /\ q1 \in [1 .. n -> 1 .. n]
  <2>1. ASSUME NEW i \in 1 .. n
        PROVE  (IF p[i] < pos THEN p[i] ELSE p[i] - 1) \in 1 .. n
    <3> DEFINE k == p[i]
    <3>1. k \in 1 .. n + 1 /\ k # pos
      BY <1>6
    <3> HIDE DEF k
    <3>2. (IF k < pos THEN k ELSE k - 1) \in 1 .. n
      BY <1>1, <1>4, <3>1
    <3> QED BY <3>2 DEF k
  <2>2. ASSUME NEW i \in 1 .. n
        PROVE  (IF i < pos THEN q[i] ELSE q[i + 1]) \in 1 .. n
    <3>1. CASE i < pos
      BY <1>4, <1>7, <3>1
    <3>2. CASE ~ (i < pos)
      <4>1. i + 1 # pos /\ i + 1 \in 1 .. n + 1
        BY <1>4, <3>2
      <4> QED BY <1>7, <3>2, <4>1
    <3> QED BY <3>1, <3>2
  <2> QED BY <2>1, <2>2
<1>9. \A i \in 1 .. n : q1[p1[i]] = i
  <2> SUFFICES ASSUME NEW i \in 1 .. n PROVE q1[p1[i]] = i
    OBVIOUS
  <2>1. p1[i] \in 1 .. n
    BY <1>8
  <2>2. q[p[i]] = i
    BY <1>3, <1>4
  <2>3. CASE p[i] < pos
    <3>1. p1[i] = p[i]
      BY <2>3
    <3>2. q1[p1[i]] = q[p[i]]
      BY <2>1, <2>3, <3>1
    <3> QED BY <2>2, <3>2
  <2>4. CASE ~ (p[i] < pos)
    <3>1. p1[i] = p[i] - 1 /\ p1[i] + 1 = p[i] /\ ~ (p1[i] < pos)
      BY <1>4, <1>6, <2>4
    <3>2. q1[p1[i]] = q[p1[i] + 1]
      BY <2>1, <3>1
    <3> QED BY <2>2, <3>1, <3>2
  <2> QED BY <2>3, <2>4
<1>10. \A i \in 1 .. n : p1[q1[i]] = i
  <2> SUFFICES ASSUME NEW i \in 1 .. n PROVE p1[q1[i]] = i
    OBVIOUS
  <2>1. q1[i] \in 1 .. n
    BY <1>8
  <2>2. CASE i < pos
    <3>1. q1[i] = q[i] /\ p[q[i]] = i
      BY <1>3, <1>4, <2>2
    <3>2. p1[q1[i]] = p[q[i]]
      BY <2>1, <2>2, <3>1
    <3> QED BY <3>1, <3>2
  <2>3. CASE ~ (i < pos)
    <3>0. i + 1 \in 1 .. n + 1 /\ ~ (i + 1 < pos) /\ q1[i] = q[i + 1]
      BY <1>4, <2>3
    <3>1. q1[i] = q[i + 1] /\ p[q[i + 1]] = i + 1 /\ ~ (i + 1 < pos)
      BY <1>3, <3>0
    <3>2. p1[q1[i]] = p[q1[i]] - 1
      BY <2>1, <3>1
    <3>3. p[q1[i]] = i + 1
      BY <3>1
    <3> QED BY <3>2, <3>3
  <2> QED BY <2>2, <2>3
<1>11. \A i \in 1 .. n : t1[i] = s1[p1[i]]
  <2> SUFFICES ASSUME NEW i \in 1 .. n PROVE t1[i] = s1[p1[i]]
    OBVIOUS
  <2>1. p1[i] \in 1 .. n /\ t1[i] = s[p[i]]
    BY <1>2, <1>4, <1>8
  <2>2. CASE p[i] < pos
    <3>1. p1[i] = p[i]
      BY <2>2
    <3> QED BY <2>1, <2>2, <3>1
  <2>3. CASE ~ (p[i] < pos)
    <3>1. p1[i] + 1 = p[i] /\ ~ (p1[i] < pos)
      BY <1>4, <1>6, <2>3
    <3> QED BY <2>1, <3>1
  <2> QED BY <2>2, <2>3
<1>12. Rearranges(t1, s1, n)
  <2> HIDE DEF s1, t1, p1, q1
  <2>1. Permutes(p1, q1, n)
    BY <1>8, <1>9, <1>10 DEF Permutes
  <2> QED BY <1>5, <1>11, <2>1 DEF Rearranges
<1>13. IsInserted(s, s1, pos, t[n + 1])
  <2>1. ASSUME NEW i \in 1 .. n + 1
        PROVE  s[i] = IF i < pos THEN s1[i] ELSE IF i = pos THEN t[n + 1] ELSE s1[i - 1]
    <3>1. CASE i < pos
      <4>1. i \in 1 .. n
        BY <1>4, <3>1
      <4> QED BY <3>1, <4>1
    <3>2. CASE i = pos
      BY <1>2, <1>4, <3>2
    <3>3. CASE i > pos
      <4>1. i - 1 \in 1 .. n /\ ~ (i - 1 < pos) /\ ~ (i < pos) /\ i # pos /\ (i - 1) + 1 = i
        BY <1>4, <3>3
      <4>2. s1[i - 1] = s[(i - 1) + 1]
        BY <4>1
      <4> HIDE DEF s1
      <4> QED BY <4>1, <4>2
    <3> QED BY <1>4, <3>1, <3>2, <3>3
  <2> HIDE DEF s1, pos
  <2> QED BY <1>4, <1>5, <2>1 DEF IsInserted
<1>14. IsInserted(t, t1, n + 1, t[n + 1])
  <2>1. ASSUME NEW i \in 1 .. n + 1
        PROVE  t[i] = IF i < n + 1 THEN t1[i] ELSE IF i = n + 1 THEN t[n + 1] ELSE t1[i - 1]
    BY <1>4
  <2> HIDE DEF t1
  <2> QED BY <1>1, <1>4, <1>5, <2>1 DEF IsInserted
<1>15. pos \in Int
  BY <1>4
<1> HIDE DEF s1, t1, pos
<1> QED BY <1>5, <1>12, <1>13, <1>14, <1>15

(* A rearrangement has the same sum.                                       *)
LEMMA SumRearranged ==
  ASSUME NEW s \in Seq(Int), NEW t \in Seq(Int), Rearranges(t, s, Len(s))
  PROVE  SumSeq(t) = SumSeq(s) /\ SumSeq(s) \in Int
<1> DEFINE S == {m \in Nat : \A x, y \in Seq(Int) :
                               Len(x) = m /\ Rearranges(y, x, m) => SumSeq(y) = SumSeq(x)}
<1>1. 0 \in S
  <2> SUFFICES ASSUME NEW x \in Seq(Int), NEW y \in Seq(Int), Len(x) = 0, Rearranges(y, x, 0)
               PROVE  SumSeq(y) = SumSeq(x)
    OBVIOUS
  <2>1. x = << >> /\ y = << >>
    BY EmptySeq DEF Rearranges
  <2> QED BY <2>1
<1>2. ASSUME NEW n \in Nat, n \in S PROVE n + 1 \in S
  <2> SUFFICES ASSUME NEW x \in Seq(Int), NEW y \in Seq(Int), Len(x) = n + 1,
                      Rearranges(y, x, n + 1)
               PROVE  SumSeq(y) = SumSeq(x)
    OBVIOUS
  <2>1. PICK x1 \in Seq(Int), y1 \in Seq(Int), pos \in Int :
           /\ Len(x1) = n /\ Rearranges(y1, x1, n)
           /\ IsInserted(x, x1, pos, y[n + 1]) /\ IsInserted(y, y1, n + 1, y[n + 1])
    BY LastTakenAway
  <2>2. y[n + 1] \in Int
    BY ElementOfSeq DEF Rearranges
  <2>3. SumSeq(x) = SumSeq(x1) + y[n + 1]
    BY <2>1, <2>2, SumInserted
  <2>4. SumSeq(y) = SumSeq(y1) + y[n + 1]
    BY <2>1, <2>2, SumInserted
  <2>5. SumSeq(y1) = SumSeq(x1)
    BY <1>2, <2>1
  <2> QED BY <2>3, <2>4, <2>5
<1>3. Len(s) \in Nat
  BY LenProperties
<1> HIDE DEF S
<1>4. Len(s) \in S
  BY <1>1, <1>2, <1>3, Induction
<1>5. 0 \in Int
  OBVIOUS
<1>6. SumSeq(s) \in Int
  BY <1>5, SumAppend
<1> QED BY <1>4, <1>6 DEF S

(* Two sequences of the same members, each once, differ in their order.    *)
LEMMA DistinctRearranges ==
  ASSUME NEW X, NEW s \in Seq(X), NEW t \in Seq(X), Distinct(s), Distinct(t),
         Members(s) = Members(t)
  PROVE  Len(s) = Len(t) /\ Rearranges(t, s, Len(s))
<1> DEFINE n == Len(s)
           p == [i \in 1 .. n |-> CHOOSE j \in 1 .. n : s[j] = t[i]]
           q == [j \in 1 .. n |-> CHOOSE i \in 1 .. n : t[i] = s[j]]
<1>1. n \in Nat /\ Len(t) = n
  BY LenProperties, DistinctLength
<1> HIDE DEF n
<1>2. /\ \A i \in 1 .. n : \E j \in 1 .. n : s[j] = t[i]
      /\ \A j \in 1 .. n : \E i \in 1 .. n : t[i] = s[j]
  BY <1>1 DEF Members, n
<1>3. /\ \A i \in 1 .. n : p[i] \in 1 .. n /\ s[p[i]] = t[i]
      /\ \A j \in 1 .. n : q[j] \in 1 .. n /\ t[q[j]] = s[j]
  BY <1>2
<1>4. p \in [1 .. n -> 1 .. n] /\ q \in [1 .. n -> 1 .. n]
  BY <1>3
<1> HIDE DEF p, q
<1>5. /\ \A i, j \in 1 .. n : s[i] = s[j] => i = j
      /\ \A i, j \in 1 .. n : t[i] = t[j] => i = j
  BY <1>1 DEF Distinct, n
<1>6. \A i \in 1 .. n : q[p[i]] = i /\ p[q[i]] = i
  <2> SUFFICES ASSUME NEW i \in 1 .. n PROVE q[p[i]] = i /\ p[q[i]] = i
    OBVIOUS
  <2>1. t[q[p[i]]] = t[i] /\ q[p[i]] \in 1 .. n
    BY <1>3
  <2>2. s[p[q[i]]] = s[i] /\ p[q[i]] \in 1 .. n
    BY <1>3
  <2> QED BY <1>5, <2>1, <2>2
<1>7. Permutes(p, q, n) /\ \A i \in 1 .. n : t[i] = s[p[i]]
  BY <1>3, <1>4, <1>6 DEF Permutes
<1> QED BY <1>1, <1>7 DEF Rearranges, n

(* What is looked up in them has the same sum.                             *)
LEMMA SumOfMembers ==
  ASSUME NEW X, NEW s \in Seq(X), NEW t \in Seq(X), Distinct(s), Distinct(t),
         Members(s) = Members(t), NEW f \in [X -> Int]
  PROVE  SumSeq(Through(t, f)) = SumSeq(Through(s, f))
<1> DEFINE n == Len(s)
           u == Through(s, f)
           v == Through(t, f)
<1>1. n \in Nat /\ Len(t) = n /\ Rearranges(t, s, n)
  BY LenProperties, DistinctRearranges
<1>2. LooksUp(u, s, f, Int) /\ LooksUp(v, t, f, Int)
  BY ThroughType
<1> HIDE DEF n, u, v
<1>3. /\ u \in Seq(Int) /\ Len(u) = n /\ \A i \in 1 .. n : u[i] = f[s[i]]
      /\ v \in Seq(Int) /\ Len(v) = n /\ \A i \in 1 .. n : v[i] = f[t[i]]
  BY <1>1, <1>2 DEF LooksUp, n
<1>4. PICK p, q : Permutes(p, q, n) /\ \A i \in 1 .. n : t[i] = s[p[i]]
  BY <1>1 DEF Rearranges
<1>5. \A i \in 1 .. n : v[i] = u[p[i]]
  <2> SUFFICES ASSUME NEW i \in 1 .. n PROVE v[i] = u[p[i]]
    OBVIOUS
  <2>1. p[i] \in 1 .. n
    BY <1>4 DEF Permutes
  <2>2. v[i] = f[t[i]] /\ t[i] = s[p[i]]
    BY <1>3, <1>4
  <2>3. u[p[i]] = f[s[p[i]]]
    BY <1>3, <2>1
  <2> QED BY <2>2, <2>3
<1>6. Rearranges(v, u, n)
  BY <1>3, <1>4, <1>5 DEF Rearranges
<1>7. SumSeq(v) = SumSeq(u)
  BY <1>3, <1>6, SumRearranged
<1> QED BY <1>7 DEF u, v

-----------------------------------------------------------------------------
(* Balancing.                                                              *)

(* A set of rows with their work, and what a state holds.                  *)
Sets == [sum : Int, items : Seq(Nat)]
PartsOf(s) == [i \in 1 .. Len(s) |-> s[i].items]
Divides(s, k, C) ==
  /\ s \in Seq(Sets) /\ Len(s) = k
  /\ C \subseteq Nat
  /\ ExactParts(PartsOf(s), C)

(* The rows of the sets of a state are sequences of numbers.               *)
LEMMA PartsOfType ==
  ASSUME NEW s \in Seq(Sets)
  PROVE  /\ Len(s) \in Nat
         /\ PartsOf(s) \in Seq(Seq(Nat)) /\ Len(PartsOf(s)) = Len(s)
         /\ \A i \in 1 .. Len(s) : s[i] \in Sets /\ PartsOf(s)[i] = s[i].items
<1> DEFINE n == Len(s)
<1>1. n \in Nat /\ \A i \in 1 .. n : s[i] \in Sets
  BY LenProperties, ElementOfSeq
<1> HIDE DEF n
<1>2. \A i \in 1 .. n : s[i].items \in Seq(Nat)
  BY <1>1 DEF Sets
<1> DEFINE X == Seq(Nat)
<1>3. \A i \in 1 .. n : s[i].items \in X
  BY <1>2
<1> HIDE DEF X
<1> DEFINE p == [i \in 1 .. n |-> s[i].items]
<1>4. p \in Seq(X) /\ Len(p) = n /\ \A i \in 1 .. n : p[i] = s[i].items
  BY <1>1, <1>3
<1> QED BY <1>1, <1>4 DEF X, p, n, PartsOf

(* Sorting the sets of a state rearranges them.                            *)
LEMMA SortedSets ==
  ASSUME NEW s \in Seq(Sets)
  PROVE  Decreasing(s) \in Seq(Sets) /\ Rearranges(Decreasing(s), s, Len(s))
<1> DEFINE n == Len(s)
           X == Sets
           Place(x, k) == Cardinality({i \in DOMAIN x : ~ SetLess(x[i], s[k])}) + 1
           step(h) == [k \in 0 .. n |->
             IF k = 0 THEN << >> ELSE InsertAt(h[k - 1], Place(h[k - 1], k), s[k])]
           c == CHOOSE h : h = step(h)
           place == [k \in 1 .. n |-> [x \in Seq(X) |-> Place(x, k)]]
<1>1. n \in Nat
  BY LenProperties
<1>2. Decreasing(s) = c[n]
  BY DEF Decreasing, Sorted, Inserted
<1>3. ASSUME NEW x \in Seq(X), NEW k \in 1 .. n
      PROVE  Place(x, k) \in 1 .. Len(x) + 1
  BY PlaceAmong
<1> HIDE DEF Place, n, X
<1>4. Places(place, X, n)
  BY <1>3 DEF Places
<1>5. PICK g : InsertedOneByOne(g, X, s, n, place)
  BY <1>4, InsertionsExist DEF n, X
<1>6. g = step(g)
  <2>1. /\ g \in [0 .. n -> Seq(X)] /\ g[0] = << >>
        /\ \A k \in 1 .. n : g[k] = InsertAt(g[k - 1], place[k][g[k - 1]], s[k])
    BY <1>5 DEF InsertedOneByOne
  <2>2. \A k \in 1 .. n : place[k][g[k - 1]] = Place(g[k - 1], k)
    BY <1>1, <2>1
  <2>3. \A k \in 0 .. n : k = 0 \/ k \in 1 .. n
    BY <1>1
  <2> HIDE DEF place
  <2> QED BY <2>1, <2>2, <2>3
<1>7. c = step(c)
  BY <1>6, Zenon
<1> HIDE DEF c
<1>8. /\ c[0] = << >>
      /\ \A k \in 1 .. n : c[k] = InsertAt(c[k - 1], Place(c[k - 1], k), s[k])
  BY <1>1, <1>7
<1>9. Insertions(c, X, s, n)
  BY <1>3, <1>8 DEF Insertions
<1> QED BY <1>2, <1>9, InsertionsRearrange DEF n, X

(* A state whose sets are sorted holds the same rows (State.__init__).     *)
LEMMA DecreasingDivides ==
  ASSUME NEW s, NEW k, NEW C, Divides(s, k, C)
  PROVE  Divides(Decreasing(s), k, C)
<1> DEFINE t == Decreasing(s)
<1>1. s \in Seq(Sets) /\ Len(s) = k /\ C \subseteq Nat /\ ExactParts(PartsOf(s), C)
  BY DEF Divides
<1>2. t \in Seq(Sets) /\ Rearranges(t, s, k)
  BY <1>1, SortedSets
<1> HIDE DEF t
<1>3. Len(t) = k
  BY <1>2 DEF Rearranges
<1>4. /\ PartsOf(t) \in Seq(Seq(Nat)) /\ Len(PartsOf(t)) = k
      /\ \A i \in 1 .. k : PartsOf(t)[i] = t[i].items
  BY <1>2, <1>3, PartsOfType, Zenon
<1>5. Len(PartsOf(s)) = k /\ \A i \in 1 .. k : PartsOf(s)[i] = s[i].items
  BY <1>1, PartsOfType, Zenon
<1>6. Rearranges(PartsOf(t), PartsOf(s), k)
  <2>1. PICK p, q : Permutes(p, q, k) /\ \A i \in 1 .. k : t[i] = s[p[i]]
    BY <1>2 DEF Rearranges
  <2>2. \A i \in 1 .. k : p[i] \in 1 .. k
    BY <2>1 DEF Permutes
  <2>3. \A i \in 1 .. k : PartsOf(t)[i] = PartsOf(s)[p[i]]
    <3>1. ASSUME NEW i \in 1 .. k PROVE PartsOf(t)[i] = PartsOf(s)[p[i]]
      <4>1. PartsOf(t)[i] = t[i].items /\ t[i] = s[p[i]] /\ p[i] \in 1 .. k
        BY <1>4, <2>1, <2>2
      <4>2. PartsOf(s)[p[i]] = s[p[i]].items
        BY <1>5, <4>1
      <4> QED BY <4>1, <4>2
    <3> QED BY <3>1
  <2> QED BY <1>4, <2>1, <2>3 DEF Rearranges
<1>7. ExactParts(PartsOf(t), C)
  BY <1>1, <1>4, <1>5, <1>6, ExactRearranged, Zenon
<1> QED BY <1>1, <1>2, <1>3, <1>7 DEF Divides, t

(* The state of a row holds this row.                                      *)
LEMMA StateDivides ==
  ASSUME NEW work \in Seq(Int), NEW i \in 1 .. Len(work), NEW k \in Nat, k > 0
  PROVE  Divides(StateOf(work, << i >>, k), k, {i})
<1> DEFINE r == << i >>
           s == [j \in 1 .. k |->
                   IF j <= Len(r) THEN [sum |-> work[r[j]], items |-> << r[j] >>]
                   ELSE EmptySet]
<1>1. i \in Nat /\ work[i] \in Int
  BY ElementOfSeq
<1>2. \A j \in 1 .. k : s[j] = IF j = 1 THEN [sum |-> work[i], items |-> << i >>] ELSE EmptySet
  BY DEF EmptySet
<1>3. \A j \in 1 .. k : s[j] \in Sets
  <2>1. << i >> \in Seq(Nat) /\ << >> \in Seq(Nat)
    BY <1>1
  <2> DEFINE N == Seq(Nat)
             o == << i >>
             e == << >>
  <2>2. o \in N /\ e \in N
    BY <2>1
  <2>3. \A j \in 1 .. k : s[j] = IF j = 1 THEN [sum |-> work[i], items |-> o] ELSE [sum |-> 0, items |-> e]
    BY <1>2 DEF EmptySet
  <2> HIDE DEF N, o, e, s
  <2>4. [sum |-> work[i], items |-> o] \in [sum : Int, items : N]
        /\ [sum |-> 0, items |-> e] \in [sum : Int, items : N]
    BY <1>1, <2>2
  <2> QED BY <2>3, <2>4 DEF Sets, N
<1>4. s \in Seq(Sets) /\ Len(s) = k
  <2>1. s \in [1 .. k -> Sets]
    BY <1>3, Zenon
  <2> HIDE DEF s
  <2> QED BY <2>1, FunctionIsSeq, Zenon
<1> HIDE DEF s
<1>5. /\ PartsOf(s) \in Seq(Seq(Nat)) /\ Len(PartsOf(s)) = k
      /\ \A j \in 1 .. k : PartsOf(s)[j] = s[j].items
  BY <1>4, PartsOfType, Zenon
<1>6. \A j \in 1 .. k : PartsOf(s)[j] = IF j = 1 THEN << i >> ELSE << >>
  <2> DEFINE o == << i >>
             e == << >>
             w == work[i]
  <2>1. \A j \in 1 .. k :
          s[j] = IF j = 1 THEN [sum |-> w, items |-> o] ELSE [sum |-> 0, items |-> e]
    BY <1>2 DEF EmptySet
  <2> HIDE DEF o, e, w
  <2>2. \A j \in 1 .. k : s[j].items = IF j = 1 THEN o ELSE e
    BY <2>1
  <2> QED BY <1>5, <2>2, Zenon DEF o, e
<1>7. ExactParts(PartsOf(s), {i})
  <2>1. Members(<< >>) = {} /\ Members(<< i >>) = {i} /\ Distinct(<< i >>) /\ Distinct(<< >>)
    BY DEF Members, Distinct
  <2>2. << >> \in Seq({i}) /\ << i >> \in Seq({i})
    OBVIOUS
  <2>3. \A j \in 1 .. k : PartsOf(s)[j] \in Seq({i})
    BY <1>6, <2>2, Zenon
  <2>4. PartsOf(s) \in Seq(Seq({i}))
    BY <1>5, <2>3, SeqOfMembers, Zenon
  <2>5. \A j \in 1 .. k : Distinct(PartsOf(s)[j])
                          /\ Members(PartsOf(s)[j]) = IF j = 1 THEN {i} ELSE {}
    BY <1>6, <2>1, Zenon
  <2>6. 1 \in 1 .. k
    OBVIOUS
  <2> QED BY <1>5, <2>4, <2>5, <2>6 DEF ExactParts
<1>8. Divides(s, k, {i})
  BY <1>1, <1>4, <1>7 DEF Divides
<1>9. StateOf(work, r, k) = Decreasing(s)
  BY DEF StateOf, s
<1> QED BY <1>8, <1>9, DecreasingDivides

(* Two states that share no row merge to one that holds the rows of both,  *)
(* each once (State.merge).                                                *)
LEMMA MergeDivides ==
  ASSUME NEW k \in Nat, NEW s, NEW A, Divides(s, k, A), NEW t, NEW B, Divides(t, k, B),
         A \cap B = {}
  PROVE  Divides(Merge(s, t), k, A \cup B)
<1> DEFINE C == A \cup B
           o(i) == k + 1 - i
           u == [i \in 1 .. k |-> [sum |-> s[i].sum + t[o(i)].sum,
                                   items |-> s[i].items \o t[o(i)].items]]
<1>1. /\ s \in Seq(Sets) /\ Len(s) = k /\ A \subseteq Nat /\ ExactParts(PartsOf(s), A)
      /\ t \in Seq(Sets) /\ Len(t) = k /\ B \subseteq Nat /\ ExactParts(PartsOf(t), B)
  BY DEF Divides
<1>2. \A i \in 1 .. k : o(i) \in 1 .. k /\ o(o(i)) = i
  OBVIOUS
<1>20. \A i, j \in 1 .. k : o(i) = o(j) => i = j
  OBVIOUS
<1>3. /\ Len(PartsOf(s)) = k /\ \A i \in 1 .. k : s[i] \in Sets /\ PartsOf(s)[i] = s[i].items
      /\ Len(PartsOf(t)) = k /\ \A i \in 1 .. k : t[i] \in Sets /\ PartsOf(t)[i] = t[i].items
  BY <1>1, PartsOfType, Zenon
<1>4. Merge(s, t) = Decreasing(u)
  <2>1. DOMAIN s = 1 .. k
    BY <1>1, LenProperties
  <2> QED BY <1>1, <2>1 DEF Merge
<1>5. \A i \in 1 .. k : u[i].items = s[i].items \o t[o(i)].items
  OBVIOUS
<1>6. ASSUME NEW i \in 1 .. k PROVE u[i] \in Sets
  <2> DEFINE a == s[i] b == t[o(i)]
             x == a.sum + b.sum y == a.items \o b.items
  <2>1. a \in Sets /\ b \in Sets
    BY <1>2, <1>3
  <2>2. u[i] = [sum |-> x, items |-> y]
    OBVIOUS
  <2> HIDE DEF a, b, u
  <2>3. x \in Int /\ a.items \in Seq(Nat) /\ b.items \in Seq(Nat)
    BY <2>1 DEF Sets
  <2>4. y \in Seq(Nat)
    BY <2>3, ConcatProperties, Zenon
  <2> HIDE DEF x, y
  <2> DEFINE N == Seq(Nat)
  <2>5. y \in N
    BY <2>4
  <2> HIDE DEF N
  <2>6. [sum |-> x, items |-> y] \in [sum : Int, items : N]
    BY <2>3, <2>5
  <2> QED BY <2>2, <2>6 DEF Sets, N
<1>7. u \in [1 .. k -> Sets]
  BY <1>6, Zenon
<1> HIDE DEF u, o, C
<1>8. u \in Seq(Sets) /\ Len(u) = k
  BY <1>7, FunctionIsSeq, Zenon
<1>9. /\ PartsOf(u) \in Seq(Seq(Nat)) /\ Len(PartsOf(u)) = k
      /\ \A i \in 1 .. k : PartsOf(u)[i] = u[i].items
  BY <1>8, PartsOfType, Zenon
<1> DEFINE P == PartsOf(s) Q == PartsOf(t) R == PartsOf(u)
<1>10. \A i \in 1 .. k : R[i] = P[i] \o Q[o(i)]
  BY <1>2, <1>3, <1>5, <1>9, Zenon
<1>11. /\ P \in Seq(Seq(A)) /\ Q \in Seq(Seq(B))
       /\ \A i \in 1 .. k : Distinct(P[i]) /\ Distinct(Q[i])
       /\ \A i, j \in 1 .. k : i # j => Members(P[i]) \cap Members(P[j]) = {}
       /\ \A i, j \in 1 .. k : i # j => Members(Q[i]) \cap Members(Q[j]) = {}
       /\ \A x \in A : \E i \in 1 .. k : x \in Members(P[i])
       /\ \A x \in B : \E i \in 1 .. k : x \in Members(Q[i])
  BY <1>1, <1>3, Zenon DEF ExactParts
<1> HIDE DEF P, Q, R
<1>12. ASSUME NEW i \in 1 .. k PROVE P[i] \in Seq(A) /\ Q[i] \in Seq(B)
  BY <1>11, <1>3, ElementOfSeq, Zenon DEF P, Q
<1>13. ASSUME NEW i \in 1 .. k PROVE Members(P[i]) \subseteq A /\ Members(Q[i]) \subseteq B
  <2>1. P[i] \in Seq(A) /\ Q[i] \in Seq(B)
    BY <1>12
  <2>2. \A j \in 1 .. Len(P[i]) : P[i][j] \in A
    BY <2>1, ElementOfSeq, Zenon
  <2>3. \A j \in 1 .. Len(Q[i]) : Q[i][j] \in B
    BY <2>1, ElementOfSeq, Zenon
  <2> QED BY <2>2, <2>3 DEF Members
<1>14. ASSUME NEW i \in 1 .. k
       PROVE  /\ R[i] \in Seq(C) /\ Distinct(R[i])
              /\ Members(R[i]) = Members(P[i]) \cup Members(Q[o(i)])
  <2>1. P[i] \in Seq(C) /\ Q[o(i)] \in Seq(C)
    BY <1>2, <1>12, SeqMonotonic DEF C
  <2>2. Distinct(P[i]) /\ Distinct(Q[o(i)])
        /\ Members(P[i]) \cap Members(Q[o(i)]) = {}
    BY <1>2, <1>11, <1>13
  <2>3. R[i] = P[i] \o Q[o(i)]
    BY <1>10
  <2>4. P[i] \o Q[o(i)] \in Seq(C)
    BY <2>1, ConcatProperties, Zenon
  <2>5. Distinct(P[i] \o Q[o(i)])
        /\ Members(P[i] \o Q[o(i)]) = Members(P[i]) \cup Members(Q[o(i)])
    BY <2>1, <2>2, ConcatDistinct
  <2> QED BY <2>3, <2>4, <2>5, Zenon
<1>15. R \in Seq(Seq(C))
  <2>1. \A i \in 1 .. Len(R) : R[i] \in Seq(C)
    BY <1>9, <1>14, Zenon DEF R
  <2> QED BY <1>9, <2>1, SeqOfMembers, Zenon DEF R
<1>16. ASSUME NEW i \in 1 .. k, NEW j \in 1 .. k, i # j
       PROVE  Members(R[i]) \cap Members(R[j]) = {}
  <2>1. o(i) # o(j) /\ o(i) \in 1 .. k /\ o(j) \in 1 .. k
    BY <1>2, <1>20, <1>16
  <2>2. Members(P[i]) \cap Members(P[j]) = {} /\ Members(Q[o(i)]) \cap Members(Q[o(j)]) = {}
    BY <1>11, <1>16, <2>1, Zenon
  <2>3. Members(P[i]) \subseteq A /\ Members(P[j]) \subseteq A
        /\ Members(Q[o(i)]) \subseteq B /\ Members(Q[o(j)]) \subseteq B
    BY <1>13, <2>1
  <2>4. Members(R[i]) = Members(P[i]) \cup Members(Q[o(i)])
        /\ Members(R[j]) = Members(P[j]) \cup Members(Q[o(j)])
    BY <1>14
  <2> QED BY <2>2, <2>3, <2>4
<1>17. ASSUME NEW x \in C PROVE \E i \in 1 .. k : x \in Members(R[i])
  <2>1. CASE x \in A
    BY <1>11, <1>14, <2>1
  <2>2. CASE x \in B
    <3>1. PICK i \in 1 .. k : x \in Members(Q[i])
      BY <1>11, <2>2
    <3>2. o(i) \in 1 .. k /\ o(o(i)) = i
      BY <1>2
    <3>3. x \in Members(R[o(i)])
      BY <1>14, <3>1, <3>2
    <3> QED BY <3>2, <3>3
  <2> QED BY <2>1, <2>2 DEF C
<1>18. Len(R) = k
  BY <1>9 DEF R
<1>19. ExactParts(R, C)
  BY <1>14, <1>15, <1>16, <1>17, <1>18, Zenon DEF ExactParts
<1>21. Divides(u, k, C)
  BY <1>1, <1>8, <1>19 DEF Divides, R, C
<1> QED BY <1>4, <1>21, DecreasingDivides DEF C

(* A state holds one set of rows.                                          *)
LEMMA DividesOnce ==
  ASSUME NEW k, NEW s, NEW A, Divides(s, k, A), NEW B, Divides(s, k, B)
  PROVE  A = B
<1> DEFINE P == PartsOf(s)
           n == Len(P)
<1>1. /\ P \in Seq(Seq(A)) /\ P \in Seq(Seq(B))
      /\ \A x \in A : \E p \in 1 .. n : x \in Members(P[p])
      /\ \A x \in B : \E p \in 1 .. n : x \in Members(P[p])
  BY Zenon DEF Divides, ExactParts
<1> HIDE DEF P
<1>2. ASSUME NEW p \in 1 .. n PROVE Members(P[p]) \subseteq A /\ Members(P[p]) \subseteq B
  <2>1. P[p] \in Seq(A) /\ P[p] \in Seq(B)
    BY <1>1, ElementOfSeq, Zenon
  <2>2. \A j \in 1 .. Len(P[p]) : P[p][j] \in A
    BY <2>1, ElementOfSeq, Zenon
  <2>3. \A j \in 1 .. Len(P[p]) : P[p][j] \in B
    BY <2>1, ElementOfSeq, Zenon
  <2> QED BY <2>2, <2>3 DEF Members
<1> HIDE DEF n
<1> QED BY <1>1, <1>2

(* Comparisons of sets and states.                                         *)
LEMMA SetLessOrders ==
  /\ \A a \in Sets : ~ SetLess(a, a)
  /\ \A a, b, c \in Sets : SetLess(a, b) /\ SetLess(b, c) => SetLess(a, c)
<1>1. ASSUME NEW a \in Sets
      PROVE  /\ a.sum \in Int /\ Len(a.items) \in Nat
             /\ a.items # << >> => a.items[1] \in Nat /\ Len(a.items) # 0
             /\ a.items = << >> => Len(a.items) = 0
  <2>1. a.sum \in Int /\ a.items \in Seq(Nat)
    BY DEF Sets
  <2>2. Len(a.items) \in Nat
    BY <2>1, LenProperties
  <2>3. a.items = << >> => Len(a.items) = 0
    BY EmptySeq
  <2>4. a.items # << >> => Len(a.items) \in Nat \ {0}
    BY <2>1, EmptySeq
  <2>5. a.items # << >> => a.items[1] \in Nat
    <3>1. a.items # << >> => 1 \in 1 .. Len(a.items)
      BY <2>4
    <3> QED BY <2>1, <3>1, ElementOfSeq
  <2> QED BY <2>1, <2>2, <2>3, <2>4, <2>5
<1>2. \A a \in Sets : ~ SetLess(a, a)
  BY <1>1 DEF SetLess
<1>3. ASSUME NEW a \in Sets, NEW b \in Sets, NEW c \in Sets, SetLess(a, b), SetLess(b, c)
      PROVE  SetLess(a, c)
  <2>1. /\ a.sum \in Int /\ Len(a.items) \in Nat /\ (a.items = << >> <=> Len(a.items) = 0)
        /\ (a.items # << >> => a.items[1] \in Nat)
    BY <1>1
  <2>2. /\ b.sum \in Int /\ Len(b.items) \in Nat /\ (b.items = << >> <=> Len(b.items) = 0)
        /\ (b.items # << >> => b.items[1] \in Nat)
    BY <1>1
  <2>3. /\ c.sum \in Int /\ Len(c.items) \in Nat /\ (c.items = << >> <=> Len(c.items) = 0)
        /\ (c.items # << >> => c.items[1] \in Nat)
    BY <1>1
  <2> QED BY <1>3, <2>1, <2>2, <2>3 DEF SetLess
<1> QED BY <1>2, <1>3

States(k) == {s \in Seq(Sets) : Len(s) = k}

(* heappop returns a state of the heap, as the order of the states is      *)
(* strict.                                                                 *)
LEMMA PopIsMember ==
  ASSUME NEW k \in Nat, k > 0, NEW S \in SUBSET States(k), IsFiniteSet(S), S # {}
  PROVE  Pop(S) \in S
<1> DEFINE R == {pair \in S \X S : PopsBefore(pair[1], pair[2])}
<1>1. ASSUME NEW s \in S PROVE s[1] \in Sets /\ Spread(s) \in Int
  <2>1. s \in Seq(Sets) /\ Len(s) = k /\ 1 \in 1 .. k /\ k \in 1 .. k
    BY DEF States
  <2>2. s[1] \in Sets /\ s[k] \in Sets
    BY <2>1, ElementOfSeq
  <2>3. s[1].sum \in Int /\ s[k].sum \in Int
    BY <2>2 DEF Sets
  <2> QED BY <2>1, <2>2, <2>3 DEF Spread
<1>2. ASSUME NEW s \in S PROVE ~ PopsBefore(s, s)
  BY <1>1, SetLessOrders DEF PopsBefore
<1>3. ASSUME NEW s \in S, NEW t \in S, NEW u \in S, PopsBefore(s, t), PopsBefore(t, u)
      PROVE  PopsBefore(s, u)
  <2>1. s[1] \in Sets /\ t[1] \in Sets /\ u[1] \in Sets
        /\ Spread(s) \in Int /\ Spread(t) \in Int /\ Spread(u) \in Int
    BY <1>1
  <2>2. SetLess(u[1], t[1]) /\ SetLess(t[1], s[1]) => SetLess(u[1], s[1])
    BY <2>1, SetLessOrders, Zenon
  <2> QED BY <1>3, <2>1, <2>2 DEF PopsBefore
<1>4. \A s, t \in S : << s, t >> \in R <=> PopsBefore(s, t)
  OBVIOUS
<1> HIDE DEF R
<1>5. StrictlyOrders(R, S)
  BY <1>2, <1>3, <1>4, Zenon DEF StrictlyOrders
<1>6. PICK s \in S : \A t \in S : << t, s >> \notin R
  BY <1>5, FirstMember, Zenon
<1>7. \A t \in S : ~ PopsBefore(t, s)
  BY <1>4, <1>6, Zenon
<1> QED BY <1>7, Zenon DEF Pop

(* The states between them hold each row of C once, and none is empty.     *)
Holds(h, S, k, C) ==
  /\ h \in [S -> (SUBSET C) \ {{}}]
  /\ \A s \in S : Divides(s, k, h[s])
  /\ \A s, t \in S : s # t => h[s] \cap h[t] = {}
  /\ \A x \in C : \E s \in S : x \in h[s]
Collection(S, k, C) ==
  /\ S \in SUBSET States(k)
  /\ IsFiniteSet(S)
  /\ \E h : Holds(h, S, k, C)

(* Replacing the two states popped by their merger loses no row and        *)
(* repeats none, and leaves one state less.                                *)
LEMMA MergeTwoCollects ==
  ASSUME NEW k \in Nat, k > 0, NEW C, NEW S, Collection(S, k, C), Cardinality(S) > 1
  PROVE  Collection(MergeTwo(S), k, C) /\ Cardinality(MergeTwo(S)) = Cardinality(S) - 1
<1> DEFINE s0 == Pop(S)
           s1 == Pop(S \ {s0})
           m == Merge(s0, s1)
           rest == S \ {s0, s1}
           T == rest \cup {m}
<1>1. S \in SUBSET States(k) /\ IsFiniteSet(S) /\ Cardinality(S) \in Nat
  BY FS_CardinalityType DEF Collection
<1>2. PICK h : Holds(h, S, k, C)
  BY DEF Collection
<1>3. /\ \A s \in S : h[s] \subseteq C /\ h[s] # {} /\ Divides(s, k, h[s])
      /\ \A s, t \in S : s # t => h[s] \cap h[t] = {}
      /\ \A x \in C : \E s \in S : x \in h[s]
  BY <1>2 DEF Holds
<1>4. s0 \in S
  <2>1. S # {}
    BY <1>1, FS_EmptySet
  <2> QED BY <1>1, <2>1, PopIsMember
<1> HIDE DEF s0
<1>5. s1 \in S /\ s1 # s0
  <2>1. /\ IsFiniteSet(S \ {s0}) /\ Cardinality(S \ {s0}) = Cardinality(S) - 1
    BY <1>1, <1>4, FS_RemoveElement
  <2>2. S \ {s0} # {}
    BY <1>1, <2>1, FS_EmptySet
  <2>3. S \ {s0} \in SUBSET States(k)
    BY <1>1
  <2> DEFINE U == S \ {s0}
  <2> HIDE DEF U
  <2>4. Pop(U) \in U
    BY <2>1, <2>2, <2>3, PopIsMember DEF U
  <2> QED BY <2>4 DEF U
<1> HIDE DEF s1
<1>6. Divides(m, k, h[s0] \cup h[s1])
  <2>1. Divides(s0, k, h[s0]) /\ Divides(s1, k, h[s1]) /\ h[s0] \cap h[s1] = {}
    BY <1>3, <1>4, <1>5
  <2> QED BY <2>1, MergeDivides
<1> HIDE DEF m
<1>7. m \notin rest
  <2> SUFFICES ASSUME m \in rest PROVE FALSE
    OBVIOUS
  <2>1. Divides(m, k, h[m]) /\ h[m] \cap h[s0] = {} /\ h[s0] # {}
    BY <1>3, <1>4, <1>5
  <2>2. h[m] = h[s0] \cup h[s1]
    BY <1>6, <2>1, DividesOnce
  <2> QED BY <2>1, <2>2
<1>8. IsFiniteSet(T) /\ Cardinality(T) = Cardinality(S) - 1
  <2>1. IsFiniteSet(S \ {s0}) /\ Cardinality(S \ {s0}) = Cardinality(S) - 1
    BY <1>1, <1>4, FS_RemoveElement
  <2>2. rest = (S \ {s0}) \ {s1} /\ s1 \in S \ {s0}
    BY <1>5
  <2>3. IsFiniteSet(rest) /\ Cardinality(rest) = Cardinality(S) - 1 - 1
    BY <2>1, <2>2, FS_RemoveElement
  <2>4. IsFiniteSet(T) /\ Cardinality(T) = Cardinality(rest) + 1
    BY <1>7, <2>3, FS_AddElement
  <2> QED BY <1>1, <2>3, <2>4
<1>9. T \in SUBSET States(k)
  BY <1>1, <1>6 DEF Divides, States
<1> DEFINE g == [s \in T |-> IF s = m THEN h[s0] \cup h[s1] ELSE h[s]]
<1>10. Holds(g, T, k, C)
  <2>1. \A s \in rest : s \in S /\ s # m /\ s # s0 /\ s # s1 /\ g[s] = h[s]
    BY <1>7
  <2>2. g[m] = h[s0] \cup h[s1] /\ m \in T
    OBVIOUS
  <2>3. \A s \in T : s \in rest \/ s = m
    OBVIOUS
  <2>40. \A s \in T : (IF s = m THEN h[s0] \cup h[s1] ELSE h[s]) \in (SUBSET C) \ {{}}
    <3>1. h[s0] \cup h[s1] \in (SUBSET C) \ {{}}
      BY <1>3, <1>4, <1>5
    <3>2. \A s \in rest : h[s] \in (SUBSET C) \ {{}}
      BY <1>3
    <3> QED BY <3>1, <3>2
  <2>4. g \in [T -> (SUBSET C) \ {{}}]
    BY <2>40
  <2> HIDE DEF g
  <2>5. \A s \in T : Divides(s, k, g[s])
    BY <1>3, <1>6, <2>1, <2>2, <2>3
  <2>6. ASSUME NEW s \in T, NEW t \in T, s # t PROVE g[s] \cap g[t] = {}
    <3>1. CASE s \in rest /\ t \in rest
      BY <1>3, <2>1, <2>6, <3>1
    <3>2. CASE s \in rest /\ t = m
      <4>1. h[s] \cap h[s0] = {} /\ h[s] \cap h[s1] = {}
        BY <1>3, <1>4, <1>5, <2>1, <3>2
      <4> QED BY <2>1, <2>2, <3>2, <4>1
    <3>3. CASE s = m /\ t \in rest
      <4>1. h[t] \cap h[s0] = {} /\ h[t] \cap h[s1] = {}
        BY <1>3, <1>4, <1>5, <2>1, <3>3
      <4> QED BY <2>1, <2>2, <3>3, <4>1
    <3> QED BY <2>3, <2>6, <3>1, <3>2, <3>3
  <2>7. ASSUME NEW x \in C PROVE \E s \in T : x \in g[s]
    <3>1. PICK s \in S : x \in h[s]
      BY <1>3
    <3>2. CASE s \in {s0, s1}
      BY <2>2, <3>1, <3>2
    <3>3. CASE s \notin {s0, s1}
      BY <2>1, <3>1, <3>3
    <3> QED BY <3>2, <3>3
  <2> QED BY <2>4, <2>5, <2>6, <2>7 DEF Holds
<1>11. MergeTwo(S) = T
  BY DEF MergeTwo, T, rest, m, s0, s1
<1> HIDE DEF T, g
<1>12. Collection(T, k, C)
  BY <1>8, <1>9, <1>10 DEF Collection
<1> QED BY <1>8, <1>11, <1>12

(* Merging until one state is left.                                        *)
Merging(f, first, n) ==
  f = [i \in 0 .. n - 1 |-> IF i = 0 THEN first ELSE MergeTwo(f[i - 1])]

(* The heap after so many mergers is defined.                              *)
LEMMA MergingExists ==
  ASSUME NEW k \in Nat, k > 0, NEW C, NEW first, Collection(first, k, C),
         Cardinality(first) > 0
  PROVE  \E f : Merging(f, first, Cardinality(first))
<1> DEFINE n == Cardinality(first)
           W == {S \in SUBSET States(k) : Collection(S, k, C)}
           F == [i \in 1 .. n - 1 |->
                   [S \in W |-> IF Cardinality(S) > 1 THEN MergeTwo(S) ELSE S]]
<1>1. n \in Nat /\ n - 1 \in Nat /\ first \in W
  BY FS_CardinalityType DEF Collection
<1>2. \A S : Collection(S, k, C) => S \in W
  BY DEF Collection
<1>3. \A S \in W : Collection(S, k, C)
  OBVIOUS
<1> HIDE DEF W
<1>4. ASSUME NEW S \in W
      PROVE  (IF Cardinality(S) > 1 THEN MergeTwo(S) ELSE S) \in W
  BY <1>2, <1>3, MergeTwoCollects
<1>5. Steps(W, n - 1, F)
  BY <1>1, <1>4 DEF Steps
<1>6. \A i \in 1 .. n - 1, S \in W :
        F[i][S] = IF Cardinality(S) > 1 THEN MergeTwo(S) ELSE S
  BY Zenon
<1> HIDE DEF n, F
<1>7. PICK f : Follows(f, first, W, n - 1, F)
  BY <1>1, <1>5, Recursion, Zenon
<1>8. /\ f \in [0 .. n - 1 -> W] /\ f[0] = first
      /\ \A i \in 1 .. n - 1 : f[i] = F[i][f[i - 1]]
  BY <1>7 DEF Follows
<1> DEFINE M == {i \in 0 .. n - 1 : Cardinality(f[i]) = n - i}
<1>9. 0 \in M
  BY <1>1, <1>8 DEF n
<1>10. ASSUME NEW i \in 0 .. (n - 1) - 1, i \in M PROVE i + 1 \in M /\ f[i + 1] = MergeTwo(f[i])
  <2>1. i \in 0 .. n - 1 /\ i + 1 \in 1 .. n - 1 /\ (i + 1) - 1 = i /\ n - i > 1
        /\ (n - i) - 1 = n - (i + 1) /\ i + 1 \in 0 .. n - 1
    BY <1>1
  <2>2. Cardinality(f[i]) = n - i /\ f[i] \in W
    BY <1>8, <1>10, <2>1
  <2>3. f[i + 1] = MergeTwo(f[i])
    BY <1>6, <1>8, <2>1, <2>2
  <2>4. Cardinality(MergeTwo(f[i])) = Cardinality(f[i]) - 1
    BY <1>3, <2>1, <2>2, MergeTwoCollects
  <2> QED BY <2>1, <2>2, <2>3, <2>4
<1> DEFINE N == n - 1
<1>11. ASSUME NEW i \in 0 .. n - 1 PROVE i \in M
  <2> HIDE DEF M
  <2>1. i \in Nat /\ \A j \in 0 .. i - 1 : j \in 0 .. (n - 1) - 1
    BY <1>1
  <2> QED BY <1>9, <1>10, <2>1, Induction
<1>12. ASSUME NEW i \in 0 .. n - 1
       PROVE  f[i] = IF i = 0 THEN first ELSE MergeTwo(f[i - 1])
  <2>1. CASE i = 0
    BY <1>8, <2>1
  <2>2. CASE i # 0
    <3>1. i - 1 \in 0 .. (n - 1) - 1 /\ i - 1 \in 0 .. n - 1 /\ (i - 1) + 1 = i
      BY <1>1, <2>2
    <3>2. f[(i - 1) + 1] = MergeTwo(f[i - 1])
      BY <1>10, <1>11, <3>1
    <3> QED BY <2>2, <3>1, <3>2
  <2> QED BY <2>1, <2>2
<1>13. Merging(f, first, n)
  BY <1>8, <1>12 DEF Merging
<1> QED BY <1>13 DEF n

(* In the end one state holds all rows.                                    *)
LEMMA MergingCollects ==
  ASSUME NEW k \in Nat, k > 0, NEW C, NEW first, Collection(first, k, C),
         Cardinality(first) > 0, NEW f, Merging(f, first, Cardinality(first))
  PROVE  \E s : f[Cardinality(first) - 1] = {s} /\ Divides(s, k, C)
<1> DEFINE n == Cardinality(first)
           M == {i \in 0 .. n - 1 : Collection(f[i], k, C) /\ Cardinality(f[i]) = n - i}
<1>1. n \in Nat /\ n > 0 /\ n - 1 \in Nat
  BY FS_CardinalityType DEF Collection
<1>2. \A i \in 0 .. n - 1 : f[i] = IF i = 0 THEN first ELSE MergeTwo(f[i - 1])
  BY DEF Merging
<1>3. n = Cardinality(first)
  OBVIOUS
<1> HIDE DEF n
<1>4. 0 \in M
  BY <1>1, <1>2, <1>3
<1>5. ASSUME NEW i \in 0 .. (n - 1) - 1, i \in M PROVE i + 1 \in M
  <2>1. i \in 0 .. n - 1 /\ i + 1 # 0 /\ (i + 1) - 1 = i /\ n - i > 1
        /\ (n - i) - 1 = n - (i + 1) /\ i + 1 \in 0 .. n - 1
    BY <1>1
  <2>2. f[i + 1] = MergeTwo(f[i])
    BY <1>2, <2>1
  <2>3. Collection(f[i], k, C) /\ Cardinality(f[i]) = n - i
    BY <1>5
  <2>4. Collection(f[i + 1], k, C) /\ Cardinality(f[i + 1]) = Cardinality(f[i]) - 1
    BY <2>1, <2>2, <2>3, MergeTwoCollects
  <2> QED BY <2>1, <2>3, <2>4
<1>6. n - 1 \in M
  <2> HIDE DEF M
  <2> QED BY <1>1, <1>4, <1>5, Induction
<1> DEFINE L == f[n - 1]
<1>7. Collection(L, k, C) /\ Cardinality(L) = 1
  <2>1. n - (n - 1) = 1
    BY <1>1
  <2> QED BY <1>6, <2>1
<1> HIDE DEF L, M
<1>8. PICK s : L = {s}
  BY <1>7, FS_Singleton DEF Collection
<1>9. PICK h : Holds(h, L, k, C)
  BY <1>7 DEF Collection
<1>10. Divides(s, k, h[s]) /\ h[s] = C
  BY <1>8, <1>9 DEF Holds
<1> QED BY <1>8, <1>10 DEF L, n

(* karmarkar_karp: whatever the work of the rows, if the first states hold *)
(* each row once, so do the k parts it returns.                            *)
THEOREM KarmarkarKarpExact ==
  ASSUME NEW k \in Nat, k > 0, NEW C, NEW work, NEW equal_size,
         Collection(FirstStates(work, k, equal_size), k, C),
         Cardinality(FirstStates(work, k, equal_size)) > 0
  PROVE  LET parts == KarmarkarKarp(work, k, equal_size)
         IN  Len(parts) = k /\ ExactParts(parts, C)
<1> DEFINE first == FirstStates(work, k, equal_size)
           n == Cardinality(first)
           merged == CHOOSE f :
             f = [i \in 0 .. n - 1 |-> IF i = 0 THEN first ELSE MergeTwo(f[i - 1])]
           final == CHOOSE s \in merged[n - 1] : TRUE
           parts == [p \in 1 .. k |-> final[p].items]
<1>1. KarmarkarKarp(work, k, equal_size) = parts
  BY Zenon DEF KarmarkarKarp
<1>2. Collection(first, k, C) /\ n > 0
  OBVIOUS
<1> HIDE DEF first
<1>3. PICK f : Merging(f, first, n)
  BY <1>2, MergingExists
<1>4. Merging(merged, first, n)
  BY <1>3, Zenon DEF Merging
<1> HIDE DEF merged
<1>5. PICK s : merged[n - 1] = {s} /\ Divides(s, k, C)
  BY <1>2, <1>4, MergingCollects
<1>6. final = s
  BY <1>5
<1> HIDE DEF final
<1>7. s \in Seq(Sets) /\ Len(s) = k /\ ExactParts(PartsOf(s), C)
  BY <1>5 DEF Divides
<1>8. parts = PartsOf(s) /\ Len(PartsOf(s)) = k
  BY <1>6, <1>7, PartsOfType DEF PartsOf
<1> QED BY <1>1, <1>7, <1>8

(* Without equal_size there is one first state per row.                    *)
LEMMA OneStateEach ==
  ASSUME NEW k \in Nat, k > 0, NEW work \in Seq(Int), work # << >>
  PROVE  /\ Collection(FirstStates(work, k, FALSE), k, 1 .. Len(work))
         /\ Cardinality(FirstStates(work, k, FALSE)) > 0
<1> DEFINE n == Len(work)
           State(i) == StateOf(work, << i >>, k)
           S == {State(i) : i \in 1 .. n}
           h == [s \in S |-> {i \in 1 .. n : s = State(i)}]
<1>1. n \in Nat /\ n > 0 /\ DOMAIN work = 1 .. n
  BY LenProperties, EmptySeq
<1>2. FirstStates(work, k, FALSE) = S
  BY <1>1 DEF FirstStates
<1>3. \A i \in 1 .. n : Divides(State(i), k, {i})
  BY StateDivides
<1> HIDE DEF State
<1>4. ASSUME NEW i \in 1 .. n, NEW j \in 1 .. n, State(i) = State(j) PROVE i = j
  <2>1. Divides(State(i), k, {i}) /\ Divides(State(i), k, {j})
    BY <1>3, <1>4
  <2>2. {i} = {j}
    BY <2>1, DividesOnce
  <2> QED BY <2>2
<1> HIDE DEF n
<1> DEFINE F == [i \in 1 .. n |-> State(i)]
<1>5. IsFiniteSet(S) /\ Cardinality(S) = n
  <2>1. IsFiniteSet(1 .. n) /\ Cardinality(1 .. n) = n
    BY <1>1, FirstNumbers
  <2>2. F \in [1 .. n -> S] /\ (\A i, j \in 1 .. n : F[i] = F[j] => i = j)
        /\ (\A s \in S : \E i \in 1 .. n : F[i] = s)
    BY <1>4
  <2> HIDE DEF F, S
  <2>3. F \in Bijection(1 .. n, S)
    BY <2>2, Fun_IsBij, Fun_IsSurj
  <2>4. ExistsBijection(1 .. n, S)
    BY <2>3, Zenon DEF ExistsBijection
  <2> QED BY <2>1, <2>4, FS_Bijection
<1>6. \A i \in 1 .. n : State(i) \in S /\ h[State(i)] = {i}
  BY <1>4
<1>7. \A s \in S : \E i \in 1 .. n : s = State(i)
  OBVIOUS
<1>8. S \in SUBSET States(k)
  BY <1>3, <1>7 DEF Divides, States
<1>9. Holds(h, S, k, 1 .. n)
  <2>1. h \in [S -> (SUBSET (1 .. n)) \ {{}}]
    BY <1>7
  <2> HIDE DEF h, S
  <2>2. \A s \in S : Divides(s, k, h[s])
    BY <1>3, <1>6, <1>7
  <2>3. ASSUME NEW s \in S, NEW t \in S, s # t PROVE h[s] \cap h[t] = {}
    BY <1>6, <1>7, <2>3
  <2>4. \A x \in 1 .. n : \E s \in S : x \in h[s]
    BY <1>6
  <2> QED BY <2>1, <2>2, <2>3, <2>4 DEF Holds
<1> HIDE DEF S, h
<1>10. Collection(S, k, 1 .. n)
  BY <1>5, <1>8, <1>9 DEF Collection
<1> QED BY <1>1, <1>2, <1>5, <1>10 DEF n

(* Sorting changes the order only.                                         *)
LEMMA SortedAscending ==
  ASSUME NEW Z, NEW s \in Seq(Z)
  PROVE  Ascending(s) \in Seq(Z) /\ Rearranges(Ascending(s), s, Len(s))
<1> DEFINE n == Len(s)
           X == Z
           Place(x, k) == Cardinality({i \in DOMAIN x : ~ (s[k] < x[i])}) + 1
           step(h) == [k \in 0 .. n |->
             IF k = 0 THEN << >> ELSE InsertAt(h[k - 1], Place(h[k - 1], k), s[k])]
           c == CHOOSE h : h = step(h)
           place == [k \in 1 .. n |-> [x \in Seq(X) |-> Place(x, k)]]
<1>1. n \in Nat
  BY LenProperties
<1>2. Ascending(s) = c[n]
  BY DEF Ascending, Sorted, Inserted
<1>3. ASSUME NEW x \in Seq(X), NEW k \in 1 .. n
      PROVE  Place(x, k) \in 1 .. Len(x) + 1
  BY PlaceAmong
<1> HIDE DEF Place, n, X
<1>4. Places(place, X, n)
  BY <1>3 DEF Places
<1>5. PICK g : InsertedOneByOne(g, X, s, n, place)
  BY <1>4, InsertionsExist DEF n, X
<1>6. g = step(g)
  <2>1. /\ g \in [0 .. n -> Seq(X)] /\ g[0] = << >>
        /\ \A k \in 1 .. n : g[k] = InsertAt(g[k - 1], place[k][g[k - 1]], s[k])
    BY <1>5 DEF InsertedOneByOne
  <2>2. \A k \in 1 .. n : place[k][g[k - 1]] = Place(g[k - 1], k)
    BY <1>1, <2>1
  <2>3. \A k \in 0 .. n : k = 0 \/ k \in 1 .. n
    BY <1>1
  <2> HIDE DEF place
  <2> QED BY <2>1, <2>2, <2>3
<1>7. c = step(c)
  BY <1>6, Zenon
<1> HIDE DEF c
<1>8. /\ c[0] = << >>
      /\ \A k \in 1 .. n : c[k] = InsertAt(c[k - 1], Place(c[k - 1], k), s[k])
  BY <1>1, <1>7
<1>9. Insertions(c, X, s, n)
  BY <1>3, <1>8 DEF Insertions
<1> QED BY <1>2, <1>9, InsertionsRearrange DEF n, X

(* Sorting by work rearranges.                                             *)
LEMMA SortedLightFirst ==
  ASSUME NEW Z, NEW s \in Seq(Z), NEW work
  PROVE  LightFirst(work, s) \in Seq(Z) /\ Rearranges(LightFirst(work, s), s, Len(s))
<1> DEFINE n == Len(s)
           X == Z
           Place(x, k) == Cardinality({i \in DOMAIN x : ~ (work[s[k]] < work[x[i]])}) + 1
           step(h) == [k \in 0 .. n |->
             IF k = 0 THEN << >> ELSE InsertAt(h[k - 1], Place(h[k - 1], k), s[k])]
           c == CHOOSE h : h = step(h)
           place == [k \in 1 .. n |-> [x \in Seq(X) |-> Place(x, k)]]
<1>1. n \in Nat
  BY LenProperties
<1>2. LightFirst(work, s) = c[n]
  BY DEF LightFirst, Sorted, Inserted
<1>3. ASSUME NEW x \in Seq(X), NEW k \in 1 .. n
      PROVE  Place(x, k) \in 1 .. Len(x) + 1
  BY PlaceAmong
<1> HIDE DEF Place, n, X
<1>4. Places(place, X, n)
  BY <1>3 DEF Places
<1>5. PICK g : InsertedOneByOne(g, X, s, n, place)
  BY <1>4, InsertionsExist DEF n, X
<1>6. g = step(g)
  <2>1. /\ g \in [0 .. n -> Seq(X)] /\ g[0] = << >>
        /\ \A k \in 1 .. n : g[k] = InsertAt(g[k - 1], place[k][g[k - 1]], s[k])
    BY <1>5 DEF InsertedOneByOne
  <2>2. \A k \in 1 .. n : place[k][g[k - 1]] = Place(g[k - 1], k)
    BY <1>1, <2>1
  <2>3. \A k \in 0 .. n : k = 0 \/ k \in 1 .. n
    BY <1>1
  <2> HIDE DEF place
  <2> QED BY <2>1, <2>2, <2>3
<1>7. c = step(c)
  BY <1>6, Zenon
<1> HIDE DEF c
<1>8. /\ c[0] = << >>
      /\ \A k \in 1 .. n : c[k] = InsertAt(c[k - 1], Place(c[k - 1], k), s[k])
  BY <1>1, <1>7
<1>9. Insertions(c, X, s, n)
  BY <1>3, <1>8 DEF Insertions
<1> QED BY <1>2, <1>9, InsertionsRearrange DEF n, X

(* So does sorting parts by their work.                                    *)
LEMMA SortedHeavyFirst ==
  ASSUME NEW Z, NEW s \in Seq(Z), NEW work
  PROVE  HeavyFirst(work, s) \in Seq(Z) /\ Rearranges(HeavyFirst(work, s), s, Len(s))
<1> DEFINE n == Len(s)
           X == Z
           Ahead(p, q) == \/ PartWork(work, p) > PartWork(work, q)
                          \/ /\ PartWork(work, p) = PartWork(work, q)
                             /\ FirstOf(p) > FirstOf(q)
           Place(x, k) == Cardinality({i \in DOMAIN x : ~ Ahead(s[k], x[i])}) + 1
           step(h) == [k \in 0 .. n |->
             IF k = 0 THEN << >> ELSE InsertAt(h[k - 1], Place(h[k - 1], k), s[k])]
           c == CHOOSE h : h = step(h)
           place == [k \in 1 .. n |-> [x \in Seq(X) |-> Place(x, k)]]
<1>1. n \in Nat
  BY LenProperties
<1>2. HeavyFirst(work, s) = c[n]
  BY DEF HeavyFirst, Sorted, Inserted
<1>3. ASSUME NEW x \in Seq(X), NEW k \in 1 .. n
      PROVE  Place(x, k) \in 1 .. Len(x) + 1
  BY PlaceAmong
<1> HIDE DEF Place, n, X
<1>4. Places(place, X, n)
  BY <1>3 DEF Places
<1>5. PICK g : InsertedOneByOne(g, X, s, n, place)
  BY <1>4, InsertionsExist DEF n, X
<1>6. g = step(g)
  <2>1. /\ g \in [0 .. n -> Seq(X)] /\ g[0] = << >>
        /\ \A k \in 1 .. n : g[k] = InsertAt(g[k - 1], place[k][g[k - 1]], s[k])
    BY <1>5 DEF InsertedOneByOne
  <2>2. \A k \in 1 .. n : place[k][g[k - 1]] = Place(g[k - 1], k)
    BY <1>1, <2>1
  <2>3. \A k \in 0 .. n : k = 0 \/ k \in 1 .. n
    BY <1>1
  <2> HIDE DEF place
  <2> QED BY <2>1, <2>2, <2>3
<1>7. c = step(c)
  BY <1>6, Zenon
<1> HIDE DEF c
<1>8. /\ c[0] = << >>
      /\ \A k \in 1 .. n : c[k] = InsertAt(c[k - 1], Place(c[k - 1], k), s[k])
  BY <1>1, <1>7
<1>9. Insertions(c, X, s, n)
  BY <1>3, <1>8 DEF Insertions
<1> QED BY <1>2, <1>9, InsertionsRearrange DEF n, X

(* get_seqlen_balanced_partitions: the parts in ascending order hold the   *)
(* same rows.                                                              *)
LEMMA BalancedExact ==
  ASSUME NEW k \in Nat, k > 0, NEW C, NEW work, NEW equal_size,
         Collection(FirstStates(work, k, equal_size), k, C),
         Cardinality(FirstStates(work, k, equal_size)) > 0
  PROVE  LET parts == BalancedPartitions(work, k, equal_size)
         IN  Len(parts) = k /\ ExactParts(parts, C)
<1> DEFINE P == KarmarkarKarp(work, k, equal_size)
           Q == [p \in 1 .. k |-> Ascending(P[p])]
<1>1. Len(P) = k /\ ExactParts(P, C)
  BY KarmarkarKarpExact
<1>2. BalancedPartitions(work, k, equal_size) = Q
  BY DEF BalancedPartitions
<1> HIDE DEF P
<1>3. /\ P \in Seq(Seq(C))
      /\ \A p \in 1 .. k : Distinct(P[p])
  BY <1>1 DEF ExactParts
<1>4. \A p \in 1 .. k : P[p] \in Seq(C)
  BY <1>1, <1>3, ElementOfSeq, Zenon
<1>5. ASSUME NEW p \in 1 .. k
      PROVE  /\ Q[p] \in Seq(C) /\ Distinct(Q[p])
             /\ Members(Q[p]) = Members(P[p])
  <2>1. /\ Ascending(P[p]) \in Seq(C)
        /\ Rearranges(Ascending(P[p]), P[p], Len(P[p]))
    BY <1>4, SortedAscending
  <2>2. /\ Members(Ascending(P[p])) = Members(P[p])
        /\ Distinct(P[p]) => Distinct(Ascending(P[p]))
    BY <1>4, <2>1, RearrangedMembers
  <2> QED BY <1>3, <2>1, <2>2
<1> DEFINE X == Seq(C)
<1>6. Q \in [1 .. k -> X]
  BY <1>5, Zenon
<1> HIDE DEF Q, X
<1>7. Q \in Seq(X) /\ Len(Q) = k
  BY <1>6, FunctionIsSeq, Zenon
<1>8. ExactParts(Q, C)
  BY <1>1, <1>5, <1>7, ExactInside, Zenon DEF X
<1> QED BY <1>2, <1>7, <1>8

(* rearrange_micro_batches puts the parts in another order and drops none. *)
LEMMA SmallAtEndsRearranges ==
  ASSUME NEW X, NEW s \in Seq(X)
  PROVE  SmallAtEnds(s) \in Seq(X) /\ Rearranges(SmallAtEnds(s), s, Len(s))
<1> DEFINE n == Len(s)
           half == (n + 1) \div 2
           a == [i \in 1 .. half |-> s[2 * (half + 1 - i) - 1]]
           b == [i \in 1 .. n - half |-> s[2 * i]]
           t == a \o b
           p == [i \in 1 .. n |-> IF i <= half THEN 2 * (half + 1 - i) - 1 ELSE 2 * (i - half)]
           q == [j \in 1 .. n |-> IF j % 2 = 1 THEN half + 1 - ((j + 1) \div 2)
                                  ELSE half + (j \div 2)]
<1>1. n \in Nat /\ s \in [1 .. n -> X]
  BY LenProperties
<1>2. SmallAtEnds(s) = t
  <2>1. half = CeilDiv(n, 2)
    BY <1>1 DEF CeilDiv
  <2> HIDE DEF half
  <2> QED BY <2>1 DEF SmallAtEnds
<1> HIDE DEF n
<1>3. half \in 0 .. n /\ n - half \in Nat /\ (n = 2 * half \/ n = 2 * half - 1)
  BY <1>1
<1> HIDE DEF half
<1>4. /\ a \in [1 .. half -> X]
      /\ b \in [1 .. n - half -> X]
  <2>1. \A i \in 1 .. half : 2 * (half + 1 - i) - 1 \in 1 .. n
    BY <1>1, <1>3
  <2>2. \A i \in 1 .. n - half : 2 * i \in 1 .. n
    BY <1>1, <1>3
  <2> QED BY <1>1, <2>1, <2>2
<1>5. /\ a \in Seq(X) /\ Len(a) = half
      /\ b \in Seq(X) /\ Len(b) = n - half
  <2> HIDE DEF a, b
  <2>1. half \in Nat /\ n - half \in Nat
    BY <1>1, <1>3
  <2> QED BY <1>4, <2>1, FunctionIsSeq, Zenon
<1>6. /\ t \in Seq(X) /\ Len(t) = n
      /\ \A i \in 1 .. n : t[i] = IF i <= half THEN a[i] ELSE b[i - half]
  <2> HIDE DEF a, b
  <2>1. /\ t \in Seq(X) /\ Len(t) = Len(a) + Len(b)
        /\ \A i \in 1 .. Len(a) + Len(b) :
             t[i] = IF i <= Len(a) THEN a[i] ELSE b[i - Len(a)]
    BY <1>5, ConcatProperties, Zenon
  <2>2. Len(a) + Len(b) = n
    BY <1>1, <1>3, <1>5
  <2> QED BY <1>5, <2>1, <2>2, Zenon
<1>7. ASSUME NEW i \in 1 .. n PROVE t[i] = s[p[i]]
  <2>1. CASE i <= half
    <3>1. i \in 1 .. half
      BY <1>1, <1>3, <2>1
    <3> QED BY <1>6, <2>1, <3>1
  <2>2. CASE ~ (i <= half)
    <3>1. i - half \in 1 .. n - half
      BY <1>1, <1>3, <2>2
    <3> QED BY <1>6, <2>2, <3>1
  <2> QED BY <2>1, <2>2
<1>8. ASSUME NEW i \in 1 .. n PROVE p[i] \in 1 .. n /\ q[p[i]] = i
  <2>1. CASE i <= half
    <3> DEFINE m == half + 1 - i
    <3>1. m \in 1 .. half /\ half + 1 - m = i
      BY <1>1, <1>3, <2>1
    <3>2. p[i] = 2 * m - 1
      BY <2>1
    <3> HIDE DEF m, p
    <3>3. 2 * m - 1 \in 1 .. n /\ (2 * m - 1) % 2 = 1 /\ ((2 * m - 1) + 1) \div 2 = m
      BY <1>1, <1>3, <3>1
    <3> QED BY <3>1, <3>2, <3>3
  <2>2. CASE ~ (i <= half)
    <3> DEFINE m == i - half
    <3>1. m \in 1 .. n - half /\ half + m = i
      BY <1>1, <1>3, <2>2
    <3>2. p[i] = 2 * m
      BY <2>2
    <3> HIDE DEF m, p
    <3>3. 2 * m \in 1 .. n /\ (2 * m) % 2 = 0 /\ (2 * m) \div 2 = m
      BY <1>1, <1>3, <3>1
    <3> QED BY <3>1, <3>2, <3>3
  <2> QED BY <2>1, <2>2
<1>9. ASSUME NEW j \in 1 .. n PROVE q[j] \in 1 .. n /\ p[q[j]] = j
  <2>1. CASE j % 2 = 1
    <3> DEFINE m == (j + 1) \div 2
    <3>1. m \in 1 .. half /\ j = 2 * m - 1
      BY <1>1, <1>3, <2>1
    <3>2. q[j] = half + 1 - m
      BY <2>1
    <3> HIDE DEF m, q
    <3>3. half + 1 - m \in 1 .. n /\ half + 1 - m <= half /\ half + 1 - (half + 1 - m) = m
      BY <1>1, <1>3, <3>1
    <3> QED BY <3>1, <3>2, <3>3
  <2>2. CASE j % 2 # 1
    <3> DEFINE m == j \div 2
    <3>1. m \in 1 .. n - half /\ j = 2 * m
      BY <1>1, <1>3, <2>2
    <3>2. q[j] = half + m
      BY <2>2
    <3> HIDE DEF m, q
    <3>3. half + m \in 1 .. n /\ ~ (half + m <= half) /\ (half + m) - half = m
      BY <1>1, <1>3, <3>1
    <3> QED BY <3>1, <3>2, <3>3
  <2> QED BY <2>1, <2>2
<1>10. Permutes(p, q, n)
  <2>1. p \in [1 .. n -> 1 .. n] /\ q \in [1 .. n -> 1 .. n]
    <3>1. p = [i \in 1 .. n |-> p[i]] /\ q = [i \in 1 .. n |-> q[i]]
      OBVIOUS
    <3> HIDE DEF p, q
    <3> QED BY <1>8, <1>9, <3>1
  <2> HIDE DEF p, q
  <2> QED BY <1>8, <1>9, <2>1 DEF Permutes
<1> HIDE DEF t, p, q
<1>11. Rearranges(t, s, n)
  BY <1>6, <1>7, <1>10 DEF Rearranges
<1> QED BY <1>2, <1>6, <1>11 DEF n

(* calculate_workload gives each row its work.                             *)
LEMMA WorkloadsType ==
  ASSUME NEW lens \in Seq(Nat)
  PROVE  Workloads(lens) \in Seq(Int) /\ Len(Workloads(lens)) = Len(lens)
<1> DEFINE n == Len(lens)
           w == [i \in 1 .. n |-> Workload(lens[i])]
<1>1. n \in Nat /\ DOMAIN lens = 1 .. n /\ \A i \in 1 .. n : lens[i] \in Nat
  BY LenProperties, ElementOfSeq
<1>2. \A i \in 1 .. n : Workload(lens[i]) \in Int
  BY <1>1 DEF Workload
<1>3. w \in [1 .. n -> Int]
  BY <1>2
<1>4. Workloads(lens) = w
  BY <1>1 DEF Workloads
<1> HIDE DEF w, n
<1> QED BY <1>1, <1>3, <1>4, FunctionIsSeq DEF n

(* rearrange_micro_batches: for every list of lengths and every number of  *)
(* micro-batches, there are as many micro-batches and each row is in       *)
(* exactly one of them.                                                    *)
THEOREM MicroBatchesExact ==
  ASSUME NEW lens \in Seq(Nat), lens # << >>, NEW num \in Nat, num > 0
  PROVE  LET parts == MicroBatches(lens, num)
         IN  Len(parts) = num /\ ExactParts(parts, 1 .. Len(lens))
<1> DEFINE work == Workloads(lens)
           P == BalancedPartitions(work, num, FALSE)
           Q == HeavyFirst(work, P)
           C == 1 .. Len(lens)
<1>1. work \in Seq(Int) /\ Len(work) = Len(lens) /\ work # << >>
  BY WorkloadsType, EmptySeq
<1>2. MicroBatches(lens, num) = SmallAtEnds(Q)
  BY DEF MicroBatches
<1> HIDE DEF work
<1>3. Len(P) = num /\ ExactParts(P, C)
  BY <1>1, OneStateEach, BalancedExact
<1> HIDE DEF P, C
<1>4. P \in Seq(Seq(C))
  BY <1>3 DEF ExactParts
<1>5. Q \in Seq(Seq(C)) /\ Rearranges(Q, P, Len(P))
  BY <1>4, SortedHeavyFirst, Zenon
<1> HIDE DEF Q
<1>6. Len(Q) = num /\ ExactParts(Q, C)
  BY <1>3, <1>5, ExactRearranged, Zenon DEF Rearranges
<1>7. SmallAtEnds(Q) \in Seq(Seq(C)) /\ Rearranges(SmallAtEnds(Q), Q, Len(Q))
  BY <1>5, SmallAtEndsRearranges, Zenon
<1>8. Len(SmallAtEnds(Q)) = num /\ ExactParts(SmallAtEnds(Q), C)
  BY <1>6, <1>7, ExactRearranged, Zenon DEF Rearranges
<1> QED BY <1>2, <1>8 DEF C

(* The smaller of two numbers.                                             *)
LEMMA MinOfTwo ==
  ASSUME NEW m \in Int, NEW n \in Int
  PROVE  Min({m, n}) = IF m <= n THEN m ELSE n
<1> DEFINE l == IF m <= n THEN m ELSE n
<1>1. l \in {m, n} /\ \A y \in {m, n} : l <= y
  OBVIOUS
<1>2. \A x \in {m, n} : (\A y \in {m, n} : x <= y) => x = l
  OBVIOUS
<1> HIDE DEF l
<1>3. Min({m, n}) = l
  BY <1>1, <1>2 DEF Min
<1> QED BY <1>3 DEF l

(* The largest of a finite set of numbers is one of them.                  *)
LEMMA MaxOfSet ==
  ASSUME NEW S \in SUBSET Int, IsFiniteSet(S), S # {}
  PROVE  Max(S) \in S /\ \A y \in S : y <= Max(S)
<1> DEFINE R == {xy \in S \X S : xy[1] > xy[2]}
<1>1. \A x, y \in S : << x, y >> \in R <=> x > y
  OBVIOUS
<1> HIDE DEF R
<1>2. StrictlyOrders(R, S)
  BY <1>1 DEF StrictlyOrders
<1>3. PICK x \in S : \A y \in S : << y, x >> \notin R
  BY <1>2, FirstMember
<1>4. \A y \in S : x >= y
  <2> SUFFICES ASSUME NEW y \in S PROVE x >= y
    OBVIOUS
  <2>1. ~ (y > x)
    BY <1>1, <1>3
  <2>2. x \in Int /\ y \in Int
    OBVIOUS
  <2> QED BY <2>1, <2>2
<1>5. Max(S) \in S /\ \A y \in S : Max(S) >= y
  BY <1>4 DEF Max
<1> QED BY <1>5

(* The sum of numbers is a number, of positive ones a positive one.        *)
LEMMA SumPositive ==
  ASSUME NEW s \in Seq(Nat \ {0}), s # << >>
  PROVE  SumSeq(s) \in Nat \ {0}
<1> DEFINE n == Len(s)
<1>1. n \in Nat \ {0} /\ \A k \in 1 .. n : s[k] \in Nat \ {0}
  BY EmptySeq, ElementOfSeq
<1>2. s \in Seq(Int)
  <2>1. \A k \in 1 .. Len(s) : s[k] \in Int
    BY <1>1
  <2> QED BY <2>1, SeqOfMembers
<1>3. PICK c : Sums(c, s) /\ SumSeq(s) = c[n]
  BY <1>2, SumBySums
<1>4. c[0] = 0 /\ \A k \in 1 .. n : c[k] = c[k - 1] + s[k]
  BY <1>3 DEF Sums
<1> HIDE DEF n
<1> DEFINE S == {k \in 0 .. n : c[k] \in Nat /\ (k > 0 => c[k] > 0)}
<1>5. 0 \in S
  BY <1>1, <1>4
<1>6. ASSUME NEW k \in 0 .. n - 1, k \in S PROVE k + 1 \in S
  <2>1. k + 1 \in 1 .. n /\ (k + 1) - 1 = k /\ k + 1 \in 0 .. n
    BY <1>1
  <2>2. c[k + 1] = c[k] + s[k + 1] /\ c[k] \in Nat /\ s[k + 1] \in Nat \ {0}
    BY <1>1, <1>4, <1>6, <2>1
  <2> QED BY <2>1, <2>2
<1> HIDE DEF S
<1>7. n \in S
  BY <1>1, <1>5, <1>6, Induction
<1> QED BY <1>1, <1>3, <1>7 DEF S

(* A rank asks for at least one micro-batch.                               *)
LEMMA CeilDivPositive ==
  ASSUME NEW m \in Nat \ {0}, NEW n \in Nat \ {0}
  PROVE  /\ CeilDiv(m, n) \in Nat \ {0}
         /\ (CeilDiv(m, n) - 1) * n < m /\ m <= CeilDiv(m, n) * n
<1> DEFINE q == (m + n - 1) \div n
<1>1. /\ q \in Int /\ q * n <= m + n - 1 /\ m + n - 1 < (q + 1) * n
  OBVIOUS
<1> HIDE DEF q
<1>2. q > 0
  <2> SUFFICES ASSUME q <= 0 PROVE FALSE
    BY <1>1
  <2>1. q + 1 <= 1
    BY <1>1
  <2>2. (q + 1) * n <= 1 * n
    BY <1>1, <2>1
  <2> QED BY <1>1, <2>2
<1>3. (q - 1) * n = q * n - n /\ (q + 1) * n = q * n + n
  BY <1>1
<1>4. (q - 1) * n < m /\ m <= q * n
  BY <1>1, <1>3
<1> QED BY <1>1, <1>2, <1>4 DEF q, CeilDiv

(* A rank asks for at least one micro-batch, and for no more than it has   *)
(* rows.                                                                   *)
LEMMA WantedPositive ==
  ASSUME NEW lens \in Seq(Nat \ {0}), lens # << >>, NEW max_token_len \in Nat \ {0}
  PROVE  MicroBatchesWanted(lens, max_token_len) \in 1 .. Len(lens)
<1>1. Len(lens) \in Nat \ {0}
  BY EmptySeq
<1>2. SumSeq(lens) \in Nat \ {0}
  BY SumPositive
<1>3. CeilDiv(SumSeq(lens), max_token_len) \in Nat \ {0}
  BY <1>2, CeilDivPositive
<1>4. MicroBatchesWanted(lens, max_token_len)
        = IF Len(lens) <= CeilDiv(SumSeq(lens), max_token_len) THEN Len(lens)
          ELSE CeilDiv(SumSeq(lens), max_token_len)
  BY <1>1, <1>3, MinOfTwo DEF MicroBatchesWanted
<1> QED BY <1>1, <1>3, <1>4

(* split cuts the sequence into parts that are not empty.                  *)
SplitAt(s, size) == [k \in 0 .. CeilDiv(Len(s), size) |-> Min({k * size, Len(s)})]

(* The parts of split lie between the multiples of the size, and none is   *)
(* empty.                                                                  *)
LEMMA SplitCuts ==
  ASSUME NEW X, NEW s \in Seq(X), s # << >>, NEW size \in Nat \ {0}
  PROVE  LET n == CeilDiv(Len(s), size)
             cut == SplitAt(s, size)
         IN  /\ n \in Nat \ {0}
             /\ Cuts(cut, n, Len(s))
             /\ \A k \in 1 .. n : cut[k - 1] < cut[k]
             /\ SplitBy(s, size) = CutAt(s, n, cut)
<1> DEFINE n == CeilDiv(Len(s), size)
           len == Len(s)
           cut == SplitAt(s, size)
<1>1. len \in Nat \ {0}
  BY EmptySeq
<1>2. n \in Nat \ {0} /\ (n - 1) * size < len /\ len <= n * size
  BY <1>1, CeilDivPositive
<1>3. \A k \in 0 .. n : cut[k] = Min({k * size, len})
  BY DEF SplitAt
<1>4. cut = [k \in 0 .. n |-> cut[k]]
  BY DEF SplitAt
<1> HIDE DEF n, len, cut
<1>5. ASSUME NEW k \in 0 .. n
      PROVE  k * size \in Nat /\ cut[k] = IF k * size <= len THEN k * size ELSE len
  <2>1. k * size \in Nat /\ k * size \in Int /\ len \in Int
    BY <1>1, <1>2
  <2>2. Min({k * size, len}) = IF k * size <= len THEN k * size ELSE len
    BY <2>1, MinOfTwo, Zenon
  <2> QED BY <1>3, <2>1, <2>2, Zenon
<1>6. cut[0] = 0 /\ cut[n] = len
  <2>1. 0 * size = 0 /\ 0 \in 0 .. n /\ n \in 0 .. n
    BY <1>2
  <2>2. n * size \in Nat
    BY <1>2
  <2> QED BY <1>1, <1>2, <1>5, <2>1, <2>2
<1>7. ASSUME NEW k \in 1 .. n
      PROVE  cut[k - 1] = (k - 1) * size /\ cut[k - 1] < cut[k]
  <2>1. k - 1 \in 0 .. n /\ k \in 0 .. n /\ k - 1 <= n - 1
    BY <1>2
  <2>2. (k - 1) * size <= (n - 1) * size
    BY <1>2, <2>1
  <2>3. (k - 1) * size \in Nat /\ (n - 1) * size \in Nat /\ k * size = (k - 1) * size + size
    BY <1>2, <2>1
  <2>4. (k - 1) * size < len
    BY <1>1, <1>2, <2>2, <2>3
  <2>5. cut[k - 1] = (k - 1) * size
    BY <1>1, <1>5, <2>1, <2>3, <2>4
  <2>6. cut[k] = IF k * size <= len THEN k * size ELSE len
    BY <1>5, <2>1
  <2>7. (k - 1) * size < k * size
    BY <2>3
  <2> QED BY <2>4, <2>5, <2>6, <2>7
<1>8. cut \in [0 .. n -> 0 .. len]
  <2>1. \A k \in 0 .. n : cut[k] \in 0 .. len
    BY <1>1, <1>5
  <2> QED BY <1>4, <2>1
<1>9. \A k \in 1 .. n : cut[k - 1] <= cut[k]
  <2>1. ASSUME NEW k \in 1 .. n PROVE cut[k - 1] <= cut[k]
    <3>1. k - 1 \in 0 .. n /\ k \in 0 .. n
      BY <1>2
    <3>2. cut[k - 1] \in 0 .. len /\ cut[k] \in 0 .. len
      BY <1>8, <3>1
    <3> QED BY <1>1, <1>7, <3>2
  <2> QED BY <2>1
<1>10. Cuts(cut, n, len)
  BY <1>6, <1>8, <1>9 DEF Cuts
<1>11. SplitBy(s, size) = CutAt(s, n, cut)
  <2>1. \A p \in 1 .. n : cut[p - 1] = (p - 1) * size /\ cut[p] = Min({p * size, len})
    <3>1. \A p \in 1 .. n : p \in 0 .. n
      OBVIOUS
    <3> QED BY <1>3, <1>7, <3>1
  <2>2. SplitBy(s, size) = [p \in 1 .. n |-> SubSeq(s, (p - 1) * size + 1, Min({p * size, len}))]
    BY DEF SplitBy, n, len
  <2>3. CutAt(s, n, cut) = [p \in 1 .. n |-> SubSeq(s, cut[p - 1] + 1, cut[p])]
    BY DEF CutAt
  <2> QED BY <2>1, <2>2, <2>3, Zenon
<1> QED BY <1>2, <1>7, <1>10, <1>11 DEF n, len, cut

(* split: the parts are not empty, they are as many as needed, and in      *)
(* their order they hold the rows of the sequence in its order.            *)
THEOREM SplitType ==
  ASSUME NEW X, NEW s \in Seq(X), s # << >>, NEW size \in Nat \ {0}
  PROVE  /\ SplitBy(s, size) \in Seq(Seq(X) \ {<< >>})
         /\ SplitBy(s, size) # << >>
         /\ Len(SplitBy(s, size)) = CeilDiv(Len(s), size)
         /\ FlattenSeq(SplitBy(s, size)) = s
<1> DEFINE n == CeilDiv(Len(s), size)
           cut == SplitAt(s, size)
           t == CutAt(s, n, cut)
           Y == Seq(X)
           Z == Seq(X) \ {<< >>}
<1>1. /\ n \in Nat \ {0} /\ Cuts(cut, n, Len(s))
      /\ \A k \in 1 .. n : cut[k - 1] < cut[k]
      /\ SplitBy(s, size) = t
  BY SplitCuts
<1>2. Len(s) \in Nat /\ \A k \in 0 .. n : cut[k] \in 0 .. Len(s)
  BY <1>1, LenProperties DEF Cuts
<1> HIDE DEF n, cut
<1>3. /\ t \in Seq(Y) /\ Len(t) = n
      /\ \A k \in 1 .. n : t[k] \in Y /\ Len(t[k]) = cut[k] - cut[k - 1]
  BY <1>1, CutType
<1>4. FlattenSeq(t) = s
  BY <1>1, FlattenCuts
<1> HIDE DEF t
<1>5. \A k \in 1 .. n : t[k] \in Z
  <2> SUFFICES ASSUME NEW k \in 1 .. n PROVE t[k] \in Y /\ t[k] # << >>
    OBVIOUS
  <2>1. k \in 0 .. n /\ k - 1 \in 0 .. n
    BY <1>1
  <2>2. cut[k - 1] < cut[k] /\ cut[k] \in Int /\ cut[k - 1] \in Int
    BY <1>1, <1>2, <2>1
  <2>3. Len(t[k]) # 0
    BY <1>3, <2>2
  <2> QED BY <1>3, <2>3, EmptySeq
<1> HIDE DEF Y, Z
<1>6. t \in Seq(Z)
  BY <1>3, <1>5, SeqOfMembers, Zenon
<1>7. t # << >>
  BY <1>1, <1>3, EmptySeq
<1> QED BY <1>1, <1>3, <1>4, <1>6, <1>7 DEF n, Z

(* Sequences of the same length are split into parts of the same lengths.  *)
LEMMA SplitAlike ==
  ASSUME NEW X, NEW s \in Seq(X), NEW t \in Seq(X), s # << >>, t # << >>,
         Len(s) = Len(t), NEW size \in Nat \ {0}
  PROVE  Alike(SplitBy(s, size), SplitBy(t, size))
<1> DEFINE n == CeilDiv(Len(s), size)
           cut == SplitAt(s, size)
<1>1. n = CeilDiv(Len(t), size) /\ cut = SplitAt(t, size)
  BY DEF SplitAt
<1>2. /\ n \in Nat \ {0} /\ Cuts(cut, n, Len(s))
      /\ SplitBy(s, size) = CutAt(s, n, cut)
  BY SplitCuts
<1>3. SplitBy(t, size) = CutAt(t, CeilDiv(Len(t), size), SplitAt(t, size))
  BY SplitCuts
<1>4. Cuts(cut, n, Len(t))
  BY <1>2
<1> HIDE DEF n, cut
<1>5. /\ Len(CutAt(s, n, cut)) = n
      /\ \A k \in 1 .. n : Len(CutAt(s, n, cut)[k]) = cut[k] - cut[k - 1]
  BY <1>2, CutType
<1>6. /\ Len(CutAt(t, n, cut)) = n
      /\ \A k \in 1 .. n : Len(CutAt(t, n, cut)[k]) = cut[k] - cut[k - 1]
  BY <1>2, <1>4, CutType
<1> QED BY <1>1, <1>2, <1>3, <1>5, <1>6 DEF Alike

(* Rows in another order, none of them twice if none was.                  *)
Shuffled(s, t) ==
  /\ Len(s) = Len(t) /\ Members(s) = Members(t)
  /\ Distinct(t) => Distinct(s)

(* Micro-batches hold the rows of the mini-batch in another order.         *)
LEMMA MicroBatchesShuffle ==
  ASSUME NEW X, NEW mini \in Seq(X), NEW parts, ExactParts(parts, 1 .. Len(mini))
  PROVE  /\ EachThrough(parts, mini) \in Seq(Seq(X))
         /\ Len(EachThrough(parts, mini)) = Len(parts)
         /\ Shuffled(FlattenSeq(EachThrough(parts, mini)), mini)
<1> DEFINE n == Len(mini)
           C == 1 .. n
           flat == FlattenSeq(parts)
           t == Through(flat, mini)
<1>1. n \in Nat /\ mini \in [C -> X]
  BY LenProperties
<1>2. parts \in Seq(Seq(C))
  BY DEF ExactParts
<1>3. /\ flat \in Seq(C) /\ Distinct(flat) /\ Members(flat) = C
  BY FlattenExact
<1> HIDE DEF flat
<1>4. Len(flat) = n
  <2>1. Len(flat) = Cardinality(C)
    BY <1>3, DistinctLength
  <2> QED BY <1>1, <2>1, FirstNumbers
<1>5. /\ EachThrough(parts, mini) \in Seq(Seq(X))
      /\ Len(EachThrough(parts, mini)) = Len(parts)
      /\ FlattenSeq(EachThrough(parts, mini)) = t
  BY <1>1, <1>2, FlattenThrough DEF flat
<1>6. Len(t) = n /\ \A i \in 1 .. n : t[i] = mini[flat[i]]
  <2>1. LooksUp(t, flat, mini, X)
    BY <1>1, <1>3, ThroughType
  <2> QED BY <1>4, <2>1 DEF LooksUp
<1>7. /\ \A i \in 1 .. n : flat[i] \in 1 .. n
      /\ \A i \in 1 .. n : \E j \in 1 .. n : flat[j] = i
      /\ \A i, j \in 1 .. n : flat[i] = flat[j] => i = j
  BY <1>3, <1>4 DEF Members, Distinct
<1> HIDE DEF n, t
<1>60. \A i \in 1 .. n : t[i] = mini[flat[i]]
  BY <1>6
<1>8. {t[i] : i \in 1 .. n} = {mini[i] : i \in 1 .. n}
  <2>1. \A i \in 1 .. n : t[i] \in {mini[j] : j \in 1 .. n}
    BY <1>60, <1>7, Zenon
  <2>2. ASSUME NEW i \in 1 .. n PROVE mini[i] \in {t[j] : j \in 1 .. n}
    <3>1. PICK j \in 1 .. n : flat[j] = i
      BY <1>7
    <3>2. t[j] = mini[i]
      BY <1>60, <3>1
    <3> QED BY <3>2
  <2> QED BY <2>1, <2>2, Zenon
<1>9. Members(t) = Members(mini)
  BY <1>6, <1>8 DEF Members, n
<1>10. ASSUME Distinct(mini) PROVE Distinct(t)
  <2>1. \A i, j \in 1 .. n : mini[i] = mini[j] => i = j
    BY <1>10 DEF Distinct, n
  <2>2. ASSUME NEW i \in 1 .. n, NEW j \in 1 .. n, t[i] = t[j] PROVE i = j
    <3>1. mini[flat[i]] = mini[flat[j]]
      BY <1>60, <2>2
    <3>2. flat[i] = flat[j]
      BY <1>7, <2>1, <3>1
    <3> QED BY <1>7, <3>2
  <2> QED BY <1>6, <2>2 DEF Distinct
<1>11. Shuffled(t, mini)
  BY <1>6, <1>9, <1>10 DEF Shuffled, n
<1> QED BY <1>5, <1>11

(* The results of rows that were run in another order go back to where     *)
(* the rows were.                                                          *)
THEOREM RestoreUndoes ==
  ASSUME NEW X, NEW mini \in Seq(X), Distinct(mini),
         NEW order \in Seq(X), Shuffled(order, mini),
         NEW idx, idx = [i \in 1 .. Len(mini) |-> CHOOSE j \in 1 .. Len(mini) : mini[j] = order[i]]
  PROVE  RestoreDynamicBatch(order, idx) = mini
<1> DEFINE n == Len(mini)
           reverse == [i \in 1 .. n |-> CHOOSE j \in 1 .. n : idx[j] = i]
<1>1. /\ n \in Nat /\ DOMAIN mini = 1 .. n /\ mini \in [1 .. n -> X]
      /\ Len(order) = n /\ DOMAIN order = 1 .. n
      /\ Members(order) = Members(mini)
      /\ \A i, j \in 1 .. n : mini[i] = mini[j] => i = j
  BY LenProperties DEF Shuffled, Distinct
<1>2. /\ idx = [i \in 1 .. n |-> CHOOSE j \in 1 .. n : mini[j] = order[i]]
      /\ DOMAIN idx = 1 .. n
  OBVIOUS
<1>3. RestoreDynamicBatch(order, idx) = [i \in 1 .. n |-> order[reverse[i]]]
  BY <1>1, <1>2 DEF RestoreDynamicBatch
<1>4. /\ \A i \in 1 .. n : \E j \in 1 .. n : order[i] = mini[j]
      /\ \A i \in 1 .. n : \E j \in 1 .. n : mini[i] = order[j]
  BY <1>1 DEF Members, n
<1> HIDE DEF n
<1>5. ASSUME NEW i \in 1 .. n PROVE idx[i] \in 1 .. n /\ mini[idx[i]] = order[i]
  BY <1>2, <1>4
<1>6. ASSUME NEW i \in 1 .. n PROVE reverse[i] \in 1 .. n /\ idx[reverse[i]] = i
  <2>1. PICK j \in 1 .. n : mini[i] = order[j]
    BY <1>4
  <2>2. idx[j] = i
    BY <1>1, <1>5, <2>1
  <2> QED BY <2>2
<1> HIDE DEF reverse
<1>7. \A i \in 1 .. n : order[reverse[i]] = mini[i]
  <2>1. ASSUME NEW i \in 1 .. n PROVE order[reverse[i]] = mini[i]
    BY <1>5, <1>6
  <2> QED BY <2>1
<1>8. mini = [i \in 1 .. n |-> mini[i]]
  BY <1>1
<1> QED BY <1>3, <1>7, <1>8

-----------------------------------------------------------------------------
(* Dividing rows into parts.                                               *)

(* The keys of the members of s do not increase.                           *)
Falls(s, key) == \A i, j \in 1 .. Len(s) : i < j => key[s[i]] >= key[s[j]]

(* Going behind those it does not precede, a member leaves the others in   *)
(* order.                                                                  *)
LEMMA InsertFalls ==
  ASSUME NEW X, NEW key \in [X -> Int], NEW t \in Seq(X), Falls(t, key), NEW x \in X,
         NEW B \in SUBSET (1 .. Len(t)),
         \A i \in 1 .. Len(t) : /\ key[t[i]] > key[x] => i \in B
                                /\ key[t[i]] < key[x] => i \notin B
  PROVE  Falls(InsertAt(t, Cardinality(B) + 1, x), key)
<1> DEFINE n == Len(t)
           c == Cardinality(B)
           u == InsertAt(t, c + 1, x)
           v(i) == key[t[i]]
           y == key[x]
<1>1. n \in Nat /\ (\A i \in 1 .. n : v(i) \in Int) /\ y \in Int
      /\ (\A i, j \in 1 .. n : i < j => v(i) >= v(j))
  BY LenProperties, ElementOfSeq DEF Falls
<1>2. c + 1 \in 1 .. n + 1 /\ IsFiniteSet(B) /\ c \in Nat
  <2>1. B \in SUBSET DOMAIN t
    BY LenProperties
  <2>2. IsFiniteSet(1 .. n)
    BY <1>1, FirstNumbers
  <2>3. IsFiniteSet(B)
    BY <2>2, FS_Subset
  <2> QED BY <2>1, <2>3, PlaceAmong, FS_CardinalityType
<1>3. /\ Len(u) = n + 1
      /\ \A i \in 1 .. n + 1 :
           u[i] = IF i < c + 1 THEN t[i] ELSE IF i = c + 1 THEN x ELSE t[i - 1]
  <2> DEFINE pos == c + 1
  <2>1. pos \in 1 .. Len(t) + 1
    BY <1>2
  <2> HIDE DEF pos, c
  <2>2. /\ Len(InsertAt(t, pos, x)) = n + 1
        /\ \A i \in 1 .. n + 1 :
             InsertAt(t, pos, x)[i] = IF i < pos THEN t[i] ELSE IF i = pos THEN x ELSE t[i - 1]
    BY <2>1, InsertProperties
  <2> QED BY <2>2 DEF pos
<1>4. \A i \in 1 .. n : /\ v(i) > y => i \in B
                        /\ v(i) < y => i \notin B
  OBVIOUS
<1> HIDE DEF n, c, u, v, y
<1>5. ASSUME NEW i \in 1 .. n, i <= c PROVE v(i) >= y
  <2> SUFFICES ASSUME v(i) < y PROVE FALSE
    BY <1>1
  <2>1. B \subseteq 1 .. i - 1
    <3> SUFFICES ASSUME NEW j \in B, ~ (j < i) PROVE FALSE
      BY <1>1 DEF n
    <3>1. j \in 1 .. n
      BY DEF n
    <3>2. v(j) <= v(i)
      BY <1>1, <3>1
    <3>3. v(j) < y
      BY <1>1, <3>1, <3>2
    <3> QED BY <1>4, <3>1, <3>3
  <2>2. i - 1 \in Nat
    BY <1>1
  <2>3. IsFiniteSet(1 .. i - 1) /\ Cardinality(1 .. i - 1) = i - 1
    BY <2>2, FirstNumbers
  <2>4. c <= i - 1
    BY <2>1, <2>3, FS_Subset DEF c
  <2> QED BY <1>2, <1>5, <2>2, <2>4
<1>6. ASSUME NEW i \in 1 .. n, i > c PROVE v(i) <= y
  <2> SUFFICES ASSUME v(i) > y PROVE FALSE
    BY <1>1
  <2>1. 1 .. i \subseteq B
    <3> SUFFICES ASSUME NEW j \in 1 .. i PROVE j \in B
      OBVIOUS
    <3>1. j \in 1 .. n
      BY <1>1
    <3>2. v(j) >= v(i)
      BY <1>1, <3>1
    <3>3. v(j) > y
      BY <1>1, <3>1, <3>2
    <3> QED BY <1>4, <3>1, <3>3
  <2>2. i \in Nat
    BY <1>1
  <2>3. Cardinality(1 .. i) = i
    BY <2>2, FirstNumbers
  <2>4. i <= c
    BY <1>2, <2>1, <2>3, FS_Subset DEF c
  <2> QED BY <1>2, <1>6, <2>2, <2>4
<1> DEFINE w(i) == key[u[i]]
<1>7. ASSUME NEW i \in 1 .. n + 1
      PROVE  w(i) = IF i < c + 1 THEN v(i) ELSE IF i = c + 1 THEN y ELSE v(i - 1)
  BY <1>3 DEF v, y
<1> HIDE DEF w
<1>8. ASSUME NEW i \in 1 .. n + 1, NEW j \in 1 .. n + 1, i < j PROVE w(i) >= w(j)
  <2>1. CASE j < c + 1
    <3>1. w(i) = v(i) /\ w(j) = v(j) /\ i \in 1 .. n /\ j \in 1 .. n
      BY <1>1, <1>2, <1>7, <1>8, <2>1
    <3> QED BY <1>1, <1>8, <3>1
  <2>2. CASE j = c + 1
    <3>1. w(i) = v(i) /\ w(j) = y /\ i \in 1 .. n /\ i <= c
      BY <1>1, <1>2, <1>7, <1>8, <2>2
    <3> QED BY <1>5, <3>1
  <2>3. CASE j > c + 1
    <3>1. w(j) = v(j - 1) /\ j - 1 \in 1 .. n /\ j - 1 > c
      BY <1>1, <1>2, <1>7, <2>3
    <3>2. CASE i = c + 1
      <4>1. w(i) = y
        BY <1>7, <3>2
      <4>2. v(j - 1) <= y
        BY <1>6, <3>1
      <4> QED BY <1>1, <3>1, <4>1, <4>2
    <3>3. CASE i < c + 1
      <4>1. w(i) = v(i) /\ i \in 1 .. n /\ i < j - 1
        BY <1>1, <1>2, <1>7, <2>3, <3>3
      <4> QED BY <1>1, <3>1, <4>1
    <3>4. CASE i > c + 1
      <4>1. w(i) = v(i - 1) /\ i - 1 \in 1 .. n /\ i - 1 < j - 1
        BY <1>1, <1>2, <1>7, <1>8, <3>4
      <4> QED BY <1>1, <3>1, <4>1
    <3> QED BY <1>2, <3>2, <3>3, <3>4
  <2> QED BY <1>2, <2>1, <2>2, <2>3
<1> QED BY <1>3, <1>8 DEF Falls, u, w, c, n

(* The sets of a state are in decreasing order of their sums.              *)
SumOf == [a \in Sets |-> a.sum]

LEMMA DecreasingFalls ==
  ASSUME NEW s \in Seq(Sets)
  PROVE  Falls(Decreasing(s), SumOf)
<1> DEFINE n == Len(s)
           X == Sets
           Before(x, k) == {i \in DOMAIN x : ~ SetLess(x[i], s[k])}
           Place(x, k) == Cardinality(Before(x, k)) + 1
           step(h) == [k \in 0 .. n |->
             IF k = 0 THEN << >> ELSE InsertAt(h[k - 1], Place(h[k - 1], k), s[k])]
           c == CHOOSE h : h = step(h)
           place == [k \in 1 .. n |-> [x \in Seq(X) |-> Place(x, k)]]
<1>1. n \in Nat /\ \A k \in 1 .. n : s[k] \in Sets
  BY LenProperties, ElementOfSeq
<1>2. Decreasing(s) = c[n]
  BY DEF Decreasing, Sorted, Inserted
<1>3. ASSUME NEW x \in Seq(X), NEW k \in 1 .. n
      PROVE  Place(x, k) \in 1 .. Len(x) + 1
  BY PlaceAmong
<1>30. ASSUME NEW x \in Seq(Sets), NEW k \in 1 .. n, Falls(x, SumOf)
       PROVE  Falls(InsertAt(x, Place(x, k), s[k]), SumOf)
  <2> DEFINE B == Before(x, k)
  <2>1. DOMAIN x = 1 .. Len(x) /\ \A i \in 1 .. Len(x) : x[i] \in Sets
    BY LenProperties, ElementOfSeq
  <2>2. SumOf \in [Sets -> Int] /\ \A a \in Sets : SumOf[a] = a.sum /\ a.sum \in Int
    BY DEF SumOf, Sets
  <2>3. ASSUME NEW i \in 1 .. Len(x)
        PROVE  /\ SumOf[x[i]] > SumOf[s[k]] => i \in B
               /\ SumOf[x[i]] < SumOf[s[k]] => i \notin B
    <3> DEFINE a == x[i]  b == s[k]
    <3>1. SumOf[a] = a.sum /\ SumOf[b] = b.sum /\ a.sum \in Int /\ b.sum \in Int
      BY <1>1, <2>1, <2>2
    <3>2. i \in B <=> ~ SetLess(a, b)
      BY <2>1
    <3> HIDE DEF a, b, B
    <3>3. /\ a.sum > b.sum => ~ SetLess(a, b)
          /\ a.sum < b.sum => SetLess(a, b)
      BY <3>1 DEF SetLess
    <3> QED BY <3>1, <3>2, <3>3 DEF a, b
  <2>4. B \in SUBSET (1 .. Len(x)) /\ s[k] \in Sets
    BY <1>1, <2>1
  <2> HIDE DEF B
  <2>5. Falls(InsertAt(x, Cardinality(B) + 1, s[k]), SumOf)
    BY <1>30, <2>2, <2>3, <2>4, InsertFalls
  <2> QED BY <2>5 DEF B
<1> HIDE DEF Place, n, X
<1>4. Places(place, X, n)
  BY <1>3 DEF Places
<1>5. PICK g : InsertedOneByOne(g, X, s, n, place)
  BY <1>4, InsertionsExist DEF n, X
<1>6. /\ g \in [0 .. n -> Seq(X)] /\ g[0] = << >>
      /\ \A k \in 1 .. n : g[k] = InsertAt(g[k - 1], Place(g[k - 1], k), s[k])
  <2>1. /\ g \in [0 .. n -> Seq(X)] /\ g[0] = << >>
        /\ \A k \in 1 .. n : g[k] = InsertAt(g[k - 1], place[k][g[k - 1]], s[k])
    BY <1>5 DEF InsertedOneByOne
  <2>2. \A k \in 1 .. n : place[k][g[k - 1]] = Place(g[k - 1], k)
    BY <1>1, <2>1
  <2> HIDE DEF place
  <2> QED BY <2>1, <2>2
<1>7. c = step(c)
  <2>1. g = step(g)
    <3>1. \A k \in 0 .. n : k = 0 \/ k \in 1 .. n
      BY <1>1
    <3> QED BY <1>6, <3>1
  <2> QED BY <2>1, Zenon
<1> HIDE DEF c
<1>8. /\ c[0] = << >>
      /\ \A k \in 1 .. n : c[k] = InsertAt(c[k - 1], Place(c[k - 1], k), s[k])
  BY <1>1, <1>7
<1> DEFINE I == {k \in 0 .. n : c[k] = g[k] /\ Falls(c[k], SumOf)}
<1>9. 0 \in I
  <2>1. Falls(<< >>, SumOf)
    BY DEF Falls
  <2> QED BY <1>1, <1>6, <1>8, <2>1
<1>10. ASSUME NEW k \in 0 .. n - 1, k \in I PROVE k + 1 \in I
  <2>1. k + 1 \in 1 .. n /\ (k + 1) - 1 = k /\ k + 1 \in 0 .. n /\ k \in 0 .. n
    BY <1>1
  <2>2. c[k] = g[k] /\ Falls(c[k], SumOf) /\ c[k] \in Seq(Sets)
    BY <1>6, <1>10, <2>1 DEF X
  <2>3. /\ c[k + 1] = InsertAt(c[k], Place(c[k], k + 1), s[k + 1])
        /\ g[k + 1] = InsertAt(c[k], Place(c[k], k + 1), s[k + 1])
    BY <1>6, <1>8, <2>1, <2>2
  <2>4. Falls(c[k + 1], SumOf)
    BY <1>30, <2>1, <2>2, <2>3
  <2> QED BY <2>1, <2>3, <2>4
<1> HIDE DEF I
<1>11. n \in I
  BY <1>1, <1>9, <1>10, Induction
<1> QED BY <1>2, <1>11 DEF I

(* Work of parts.                                                          *)
LEMMA PartWorkIs ==
  ASSUME NEW work, NEW X, NEW part \in Seq(X)
  PROVE  PartWork(work, part) = SumSeq(Through(part, work))
<1>1. DOMAIN part = 1 .. Len(part)
  BY LenProperties
<1> QED BY <1>1, Zenon DEF PartWork, Through

LEMMA SumConcat ==
  ASSUME NEW s \in Seq(Int), NEW t \in Seq(Int)
  PROVE  SumSeq(s \o t) = SumSeq(s) + SumSeq(t) /\ SumSeq(s) \in Int /\ SumSeq(t) \in Int
<1> DEFINE m == Len(s)
           n == Len(t)
           u == s \o t
<1>1. m \in Nat /\ n \in Nat
  BY LenProperties
<1>2. /\ u \in Seq(Int) /\ Len(u) = m + n
      /\ \A i \in 1 .. m + n : u[i] = IF i <= m THEN s[i] ELSE t[i - m]
  BY ConcatProperties
<1>3. PICK c : Sums(c, s) /\ SumSeq(s) = c[m]
  BY SumBySums
<1>4. PICK d : Sums(d, t) /\ SumSeq(t) = d[n]
  BY SumBySums
<1>5. PICK e : Sums(e, u) /\ SumSeq(u) = e[m + n]
  BY <1>2, SumBySums
<1>6. /\ c \in [0 .. m -> Int] /\ c[0] = 0 /\ \A k \in 1 .. m : c[k] = c[k - 1] + s[k]
      /\ d \in [0 .. n -> Int] /\ d[0] = 0 /\ \A k \in 1 .. n : d[k] = d[k - 1] + t[k]
      /\ e \in [0 .. m + n -> Int] /\ e[0] = 0
      /\ \A k \in 1 .. m + n : e[k] = e[k - 1] + u[k]
  BY <1>2, <1>3, <1>4, <1>5 DEF Sums
<1>7. /\ \A k \in 1 .. m : s[k] \in Int
      /\ \A k \in 1 .. n : t[k] \in Int
  BY ElementOfSeq
<1> HIDE DEF m, n, u
<1> DEFINE I == {k \in 0 .. m : e[k] = c[k]}
           J == {k \in 0 .. n : e[m + k] = c[m] + d[k]}
<1>8. m \in I
  <2>1. 0 \in I
    BY <1>1, <1>6
  <2>2. ASSUME NEW k \in 0 .. m - 1, k \in I PROVE k + 1 \in I
    <3>1. k + 1 \in 1 .. m /\ k + 1 \in 1 .. m + n /\ (k + 1) - 1 = k /\ k + 1 <= m
          /\ k + 1 \in 0 .. m
      BY <1>1
    <3>2. c[k + 1] = c[k] + s[k + 1] /\ e[k + 1] = e[k] + s[k + 1]
      BY <1>2, <1>6, <3>1
    <3> QED BY <2>2, <3>1, <3>2
  <2> HIDE DEF I
  <2> QED BY <1>1, <2>1, <2>2, Induction
<1>9. n \in J
  <2>1. 0 \in J
    BY <1>1, <1>6, <1>8
  <2>2. ASSUME NEW k \in 0 .. n - 1, k \in J PROVE k + 1 \in J
    <3> DEFINE y == k + 1
               x == m + y
    <3>1. y \in 1 .. n /\ x \in 1 .. m + n /\ y - 1 = k /\ x - 1 = m + k /\ ~ (x <= m)
          /\ x - m = y /\ y \in 0 .. n /\ k \in 0 .. n /\ m \in 0 .. m
      BY <1>1
    <3> HIDE DEF y, x
    <3>2. d[y] = d[k] + t[y] /\ e[x] = e[m + k] + t[y]
      BY <1>2, <1>6, <3>1
    <3>3. e[m + k] = c[m] + d[k] /\ d[k] \in Int /\ c[m] \in Int /\ t[y] \in Int
      BY <1>6, <1>7, <2>2, <3>1
    <3>4. e[x] = c[m] + d[y]
      BY <3>2, <3>3
    <3> QED BY <3>1, <3>4 DEF x, y
  <2> HIDE DEF J
  <2> QED BY <1>1, <2>1, <2>2, Induction
<1>10. e[m + n] = c[m] + d[n]
  BY <1>9
<1>11. c[m] \in Int /\ d[n] \in Int
  BY <1>1, <1>6
<1> QED BY <1>3, <1>4, <1>5, <1>10, <1>11 DEF u

(* Every row of the work is some.                                          *)
Works(work) == work \in Seq(Nat \ {0})

LEMMA WorkOfParts ==
  ASSUME NEW work, Works(work), NEW part \in Seq(1 .. Len(work))
  PROVE  /\ Through(part, work) \in Seq(Nat \ {0}) /\ Len(Through(part, work)) = Len(part)
         /\ Through(part, work) \in Seq(Int)
         /\ PartWork(work, part) \in Nat
         /\ part = << >> => PartWork(work, part) = 0
         /\ part # << >> => PartWork(work, part) > 0
<1>1. work \in [1 .. Len(work) -> Nat \ {0}]
  BY LenProperties DEF Works
<1>2. Through(part, work) \in Seq(Nat \ {0}) /\ Len(Through(part, work)) = Len(part)
  <2>1. LooksUp(Through(part, work), part, work, Nat \ {0})
    BY <1>1, ThroughType, Zenon
  <2> QED BY <2>1 DEF LooksUp
<1>3. Through(part, work) \in Seq(Int)
  BY <1>2, ElementOfSeq, SeqOfMembers
<1>4. PartWork(work, part) = SumSeq(Through(part, work))
  BY PartWorkIs
<1>5. CASE part = << >>
  <2>1. Through(part, work) = << >>
    BY <1>2, <1>5, EmptySeq
  <2> QED BY <1>2, <1>3, <1>4, <1>5, <2>1, SumNothing
<1>6. CASE part # << >>
  <2>1. Through(part, work) # << >>
    BY <1>2, <1>6, EmptySeq
  <2>2. SumSeq(Through(part, work)) \in Nat \ {0}
    BY <1>2, <2>1, SumPositive
  <2> QED BY <1>2, <1>3, <1>4, <1>6, <2>2
<1> QED BY <1>5, <1>6

LEMMA WorkOfBoth ==
  ASSUME NEW work, Works(work), NEW p \in Seq(1 .. Len(work)), NEW q \in Seq(1 .. Len(work))
  PROVE  PartWork(work, p \o q) = PartWork(work, p) + PartWork(work, q)
<1>1. work \in [1 .. Len(work) -> Nat \ {0}]
  BY LenProperties DEF Works
<1>2. Through(p \o q, work) = Through(p, work) \o Through(q, work)
  BY <1>1, ThroughConcat
<1>3. Through(p, work) \in Seq(Int) /\ Through(q, work) \in Seq(Int)
  BY WorkOfParts
<1>4. SumSeq(Through(p \o q, work)) = SumSeq(Through(p, work)) + SumSeq(Through(q, work))
  BY <1>2, <1>3, SumConcat
<1>5. p \o q \in Seq(1 .. Len(work))
  BY ConcatProperties
<1> QED BY <1>4, <1>5, PartWorkIs

(* The sets of a state have the work of their rows, none has more than the *)
(* others by more than w, and none has two rows while one has none.        *)
Fair(s, k, work, w, equal_size) ==
  /\ \A i \in 1 .. k : s[i].sum = PartWork(work, s[i].items)
  /\ \A i, j \in 1 .. k : s[i].sum - s[j].sum <= w
  /\ \A i, j \in 1 .. k : s[i].items = << >> => Len(s[j].items) <= 1
  /\ equal_size => \A i, j \in 1 .. k : Len(s[i].items) = Len(s[j].items)
FairState(s, k, work, w, equal_size) ==
  Fair(s, k, work, w, equal_size) /\ Falls(s, SumOf)

LEMMA SortedIsFair ==
  ASSUME NEW k \in Nat, NEW s \in Seq(Sets), Len(s) = k,
         NEW work, NEW w, NEW equal_size, Fair(s, k, work, w, equal_size)
  PROVE  FairState(Decreasing(s), k, work, w, equal_size)
<1> DEFINE t == Decreasing(s)
<1>1. PICK p, q : Permutes(p, q, k) /\ \A i \in 1 .. k : t[i] = s[p[i]]
  <2>1. Rearranges(t, s, k)
    BY SortedSets
  <2> HIDE DEF t
  <2> QED BY <2>1, Zenon DEF Rearranges
<1>2. \A i \in 1 .. k : p[i] \in 1 .. k
  BY <1>1 DEF Permutes
<1>3. Falls(t, SumOf)
  BY DecreasingFalls
<1> HIDE DEF t
<1>4. Fair(t, k, work, w, equal_size)
  <2>1. ASSUME NEW i \in 1 .. k PROVE t[i].sum = PartWork(work, t[i].items)
    BY <1>1, <1>2 DEF Fair
  <2>2. ASSUME NEW i \in 1 .. k, NEW j \in 1 .. k
        PROVE  /\ t[i].sum - t[j].sum <= w
               /\ t[i].items = << >> => Len(t[j].items) <= 1
               /\ equal_size => Len(t[i].items) = Len(t[j].items)
    <3>1. t[i] = s[p[i]] /\ t[j] = s[p[j]] /\ p[i] \in 1 .. k /\ p[j] \in 1 .. k
      BY <1>1, <1>2
    <3> QED BY <3>1, Zenon DEF Fair
  <2> QED BY <2>1, <2>2, Zenon DEF Fair
<1> QED BY <1>3, <1>4 DEF FairState, t

(* What Divides says of the rows of each set.                              *)
LEMMA RowsOfSets ==
  ASSUME NEW s, NEW k, NEW C, Divides(s, k, C)
  PROVE  /\ k \in Nat /\ s \in Seq(Sets) /\ Len(s) = k /\ DOMAIN s = 1 .. k
         /\ \A i \in 1 .. k : s[i] \in Sets /\ s[i].sum \in Int /\ s[i].items \in Seq(C)
<1>1. s \in Seq(Sets) /\ Len(s) = k /\ ExactParts(PartsOf(s), C)
  BY DEF Divides
<1>2. /\ Len(PartsOf(s)) = k /\ k \in Nat /\ \A i \in 1 .. k : s[i] \in Sets /\ PartsOf(s)[i] = s[i].items
  BY <1>1, PartsOfType, Zenon
<1>3. PartsOf(s) \in Seq(Seq(C))
  BY <1>1 DEF ExactParts
<1>4. \A i \in 1 .. k : PartsOf(s)[i] \in Seq(C)
  BY <1>2, <1>3, ElementOfSeq, Zenon
<1>5. \A i \in 1 .. k : s[i].sum \in Int
  BY <1>2 DEF Sets
<1> QED BY <1>1, <1>2, <1>4, <1>5, LenProperties

(* Merging fair states, the heaviest set of one with the lightest of the   *)
(* other, makes a fair state.                                              *)
LEMMA MergeIsFair ==
  ASSUME NEW k \in Nat, NEW work, Works(work), NEW w \in Int, NEW equal_size \in BOOLEAN,
         NEW A \in SUBSET (1 .. Len(work)), NEW B \in SUBSET (1 .. Len(work)), A \cap B = {},
         NEW s, Divides(s, k, A), FairState(s, k, work, w, equal_size),
         NEW t, Divides(t, k, B), FairState(t, k, work, w, equal_size)
  PROVE  FairState(Merge(s, t), k, work, w, equal_size)
<1> DEFINE N == 1 .. Len(work)
           o(i) == k + 1 - i
           u == [i \in 1 .. k |-> [sum |-> s[i].sum + t[o(i)].sum,
                                   items |-> s[i].items \o t[o(i)].items]]
<1>1. \A i \in 1 .. k : o(i) \in 1 .. k
  OBVIOUS
<1>2. /\ Len(s) = k /\ DOMAIN s = 1 .. k /\ Len(t) = k
      /\ \A i \in 1 .. k : s[i] \in Sets /\ s[i].sum \in Int /\ s[i].items \in Seq(A)
      /\ \A i \in 1 .. k : t[i] \in Sets /\ t[i].sum \in Int /\ t[i].items \in Seq(B)
  BY RowsOfSets
<1>3. \A i \in 1 .. k : s[i].items \in Seq(N) /\ t[i].items \in Seq(N)
  <2>1. ASSUME NEW z \in Seq(A) PROVE z \in Seq(N)
    <3>1. \A i \in 1 .. Len(z) : z[i] \in N
      BY ElementOfSeq
    <3> QED BY <3>1, SeqOfMembers, Zenon
  <2>2. ASSUME NEW z \in Seq(B) PROVE z \in Seq(N)
    <3>1. \A i \in 1 .. Len(z) : z[i] \in N
      BY ElementOfSeq
    <3> QED BY <3>1, SeqOfMembers, Zenon
  <2> QED BY <1>2, <2>1, <2>2, Zenon
<1>4. Merge(s, t) = Decreasing(u)
  BY <1>2 DEF Merge
<1>5. \A i \in 1 .. k : /\ u[i].sum = s[i].sum + t[o(i)].sum
                        /\ u[i].items = s[i].items \o t[o(i)].items
  OBVIOUS
<1>6. u \in Seq(Sets) /\ Len(u) = k
  <2>1. ASSUME NEW i \in 1 .. k PROVE u[i] \in Sets
    <3> DEFINE x == s[i].sum + t[o(i)].sum
               y == s[i].items \o t[o(i)].items
               M == Seq(Nat)
    <3>1. s[i].items \in Seq(Nat) /\ t[o(i)].items \in Seq(Nat)
      BY <1>1, <1>2 DEF Sets
    <3>2. y \in M /\ x \in Int
      BY <1>1, <1>2, <3>1, ConcatProperties
    <3>3. u[i] = [sum |-> x, items |-> y]
      OBVIOUS
    <3> HIDE DEF x, y, M, u
    <3>4. u[i] \in [sum : Int, items : M]
      BY <3>2, <3>3
    <3> QED BY <3>4 DEF M, Sets
  <2>2. u \in [1 .. k -> Sets]
    BY <2>1, Zenon
  <2> HIDE DEF u
  <2> QED BY <2>2, FunctionIsSeq, Zenon
<1> HIDE DEF u
<1>7. /\ \A i \in 1 .. k : s[i].sum = PartWork(work, s[i].items)
      /\ \A i \in 1 .. k : t[i].sum = PartWork(work, t[i].items)
      /\ \A i, j \in 1 .. k : s[i].sum - s[j].sum <= w /\ t[i].sum - t[j].sum <= w
      /\ \A i, j \in 1 .. k : s[i].items = << >> => Len(s[j].items) <= 1
      /\ \A i, j \in 1 .. k : t[i].items = << >> => Len(t[j].items) <= 1
      /\ equal_size => \A i, j \in 1 .. k : /\ Len(s[i].items) = Len(s[j].items)
                                            /\ Len(t[i].items) = Len(t[j].items)
  BY Zenon DEF FairState, Fair
<1>8. /\ \A i, j \in 1 .. k : i < j => s[i].sum >= s[j].sum
      /\ \A i, j \in 1 .. k : i < j => t[i].sum >= t[j].sum
  <2>1. \A a \in Sets : SumOf[a] = a.sum
    BY DEF SumOf
  <2> QED BY <1>2, <2>1 DEF FairState, Falls
<1>9. ASSUME NEW i \in 1 .. k PROVE u[i].sum = PartWork(work, u[i].items)
  <2> DEFINE p == s[i].items  q == t[o(i)].items
  <2>1. p \in Seq(1 .. Len(work)) /\ q \in Seq(1 .. Len(work))
    BY <1>1, <1>3
  <2>2. PartWork(work, p \o q) = PartWork(work, p) + PartWork(work, q)
    BY <2>1, WorkOfBoth, Zenon
  <2>3. s[i].sum = PartWork(work, p) /\ t[o(i)].sum = PartWork(work, q)
    BY <1>1, <1>7
  <2> QED BY <1>5, <2>2, <2>3
<1>10. ASSUME NEW i \in 1 .. k, NEW j \in 1 .. k PROVE u[i].sum - u[j].sum <= w
  <2> DEFINE a == s[i].sum  b == s[j].sum  c == t[o(i)].sum  d == t[o(j)].sum
  <2>1. a \in Int /\ b \in Int /\ c \in Int /\ d \in Int
    BY <1>1, <1>2
  <2>2. a - b <= w /\ c - d <= w
    BY <1>1, <1>7
  <2>3. i < j => a >= b /\ d >= c
    <3>1. i < j => o(j) < o(i)
      OBVIOUS
    <3> QED BY <1>1, <1>8, <3>1
  <2>4. j < i => b >= a /\ c >= d
    <3>1. j < i => o(i) < o(j)
      OBVIOUS
    <3> QED BY <1>1, <1>8, <3>1
  <2>5. i = j => a = b /\ c = d
    OBVIOUS
  <2>6. u[i].sum = a + c /\ u[j].sum = b + d
    BY <1>5
  <2> HIDE DEF a, b, c, d
  <2>7. (a + c) - (b + d) <= w
    BY <2>1, <2>2, <2>3, <2>4, <2>5
  <2> QED BY <2>6, <2>7
<1>11. ASSUME NEW i \in 1 .. k PROVE Len(u[i].items) = Len(s[i].items) + Len(t[o(i)].items)
  <2> DEFINE p == s[i].items  q == t[o(i)].items
  <2>1. p \in Seq(N) /\ q \in Seq(N)
    BY <1>1, <1>3
  <2>2. Len(p \o q) = Len(p) + Len(q)
    BY <2>1, ConcatProperties, Zenon
  <2> QED BY <1>5, <2>2
<1>12. ASSUME NEW i \in 1 .. k
       PROVE  /\ Len(s[i].items) \in Nat /\ Len(t[i].items) \in Nat
              /\ s[i].items = << >> <=> Len(s[i].items) = 0
              /\ t[i].items = << >> <=> Len(t[i].items) = 0
              /\ s[i].items = << >> => s[i].sum = 0
              /\ t[i].items = << >> => t[i].sum = 0
              /\ s[i].items # << >> => s[i].sum > 0
              /\ t[i].items # << >> => t[i].sum > 0
  <2>1. ASSUME NEW p \in Seq(N)
        PROVE  /\ Len(p) \in Nat /\ (p = << >> <=> Len(p) = 0)
               /\ p = << >> => PartWork(work, p) = 0
               /\ p # << >> => PartWork(work, p) > 0
    BY WorkOfParts, EmptySeq, LenProperties
  <2>2. s[i].items \in Seq(N) /\ t[i].items \in Seq(N)
    BY <1>3
  <2>3. s[i].sum = PartWork(work, s[i].items) /\ t[i].sum = PartWork(work, t[i].items)
    BY <1>7
  <2> HIDE DEF N
  <2> QED BY <2>1, <2>2, <2>3
<1>13. ASSUME NEW i \in 1 .. k, NEW j \in 1 .. k, u[i].items = << >>
       PROVE  Len(u[j].items) <= 1
  <2>1. Len(s[i].items) = 0 /\ Len(t[o(i)].items) = 0
    <3>1. Len(u[i].items) = 0
      BY <1>13, EmptySeq
    <3>2. Len(u[i].items) = Len(s[i].items) + Len(t[o(i)].items)
      BY <1>11
    <3>3. Len(s[i].items) \in Nat /\ Len(t[o(i)].items) \in Nat
      BY <1>1, <1>12
    <3> DEFINE a == Len(s[i].items)  b == Len(t[o(i)].items)
    <3>4. a \in Nat /\ b \in Nat /\ a + b = 0
      BY <3>1, <3>2, <3>3
    <3> HIDE DEF a, b
    <3>5. a = 0 /\ b = 0
      BY <3>4
    <3> QED BY <3>5 DEF a, b
  <2>2. s[i].items = << >> /\ t[o(i)].items = << >>
    BY <1>1, <1>12, <2>1
  <2>3. Len(s[j].items) <= 1 /\ Len(t[o(j)].items) <= 1
    BY <1>1, <1>7, <2>2
  <2>4. Len(s[j].items) = 0 \/ Len(t[o(j)].items) = 0
    <3> SUFFICES ASSUME s[j].items # << >>, t[o(j)].items # << >> PROVE FALSE
      BY <1>1, <1>12
    <3>1. s[j].sum > 0 /\ s[i].sum = 0 /\ t[o(j)].sum > 0 /\ t[o(i)].sum = 0
      BY <1>1, <1>12, <2>2
    <3>2. i # j
      BY <3>1
    <3>3. ~ (i < j)
      BY <1>2, <1>8, <3>1
    <3>4. ~ (o(i) < o(j))
      BY <1>1, <1>2, <1>8, <3>1
    <3> QED BY <3>2, <3>3, <3>4
  <2>5. Len(u[j].items) = Len(s[j].items) + Len(t[o(j)].items)
    BY <1>11
  <2>6. Len(s[j].items) \in Nat /\ Len(t[o(j)].items) \in Nat
    BY <1>1, <1>12
  <2> DEFINE a == Len(s[j].items)  b == Len(t[o(j)].items)
  <2>7. a \in Nat /\ b \in Nat /\ a <= 1 /\ b <= 1 /\ (a = 0 \/ b = 0)
    BY <2>3, <2>4, <2>6
  <2>8. Len(u[j].items) = a + b
    BY <2>5
  <2> HIDE DEF a, b
  <2> QED BY <2>7, <2>8
<1>14. ASSUME equal_size, NEW i \in 1 .. k, NEW j \in 1 .. k
       PROVE  Len(u[i].items) = Len(u[j].items)
  BY <1>1, <1>7, <1>11, <1>14
<1>15. Fair(u, k, work, w, equal_size)
  <2>1. equal_size => \A i, j \in 1 .. k : Len(u[i].items) = Len(u[j].items)
    BY <1>14
  <2> QED BY <1>9, <1>10, <1>13, <2>1, Zenon DEF Fair
<1> QED BY <1>4, <1>6, <1>15, SortedIsFair

(* The work of a part of one row, or of none.                              *)
LEMMA WorkOfOne ==
  ASSUME NEW work, Works(work), NEW r \in 1 .. Len(work)
  PROVE  /\ work[r] \in Nat \ {0}
         /\ PartWork(work, << r >>) = work[r] /\ PartWork(work, << >>) = 0
<1>1. work[r] \in Nat \ {0}
  BY ElementOfSeq DEF Works
<1>2. << r >> \in Seq(1 .. Len(work)) /\ << >> \in Seq(1 .. Len(work))
  OBVIOUS
<1>3. Through(<< r >>, work) = << work[r] >>
  BY DEF Through
<1>4. SumSeq(<< work[r] >>) = work[r]
  <2> DEFINE x == work[r]
  <2>1. SumSeq(Append(<< >>, x)) = SumSeq(<< >>) + x
    <3>1. x \in Int /\ << >> \in Seq(Int)
      BY <1>1
    <3> HIDE DEF x
    <3> QED BY <3>1, SumAppend
  <2>2. Append(<< >>, x) = << x >>
    OBVIOUS
  <2> HIDE DEF x
  <2>3. SumSeq(<< x >>) = 0 + x
    BY <2>1, <2>2, SumNothing
  <2> QED BY <1>1, <2>3 DEF x
<1> QED BY <1>1, <1>2, <1>3, <1>4, PartWorkIs, WorkOfParts

(* The state of some rows, at most as many as sets, holds these rows and   *)
(* is fair.                                                                *)
LEMMA StateIsFair ==
  ASSUME NEW k \in Nat, NEW work, Works(work), NEW rows \in Seq(1 .. Len(work)), Distinct(rows),
         Len(rows) \in 1 .. k, NEW w \in Nat, \A i \in 1 .. Len(work) : work[i] <= w,
         NEW equal_size \in BOOLEAN, equal_size => Len(rows) = k
  PROVE  /\ Divides(StateOf(work, rows, k), k, Members(rows))
         /\ FairState(StateOf(work, rows, k), k, work, w, equal_size)
<1> DEFINE n == Len(rows)
           C == Members(rows)
           s == [j \in 1 .. k |->
                   IF j <= n THEN [sum |-> work[rows[j]], items |-> << rows[j] >>] ELSE EmptySet]
<1>1. n \in 1 .. k /\ \A j \in 1 .. n : rows[j] \in 1 .. Len(work) /\ rows[j] \in C
  BY ElementOfSeq DEF Members
<1>2. StateOf(work, rows, k) = Decreasing(s)
  BY DEF StateOf
<1> HIDE DEF n, C
<1>3. \A j \in 1 .. k : /\ j \in 1 .. n => s[j].sum = work[rows[j]] /\ s[j].items = << rows[j] >>
                        /\ ~ (j \in 1 .. n) => s[j].sum = 0 /\ s[j].items = << >>
  BY <1>1 DEF EmptySet
<1>4. \A j \in 1 .. k : s[j] \in Sets
  <2> DEFINE M == Seq(Nat)
  <2>1. << >> \in M /\ \A j \in 1 .. n : << rows[j] >> \in M /\ work[rows[j]] \in Int
    <3>1. ASSUME NEW j \in 1 .. n PROVE rows[j] \in Nat /\ work[rows[j]] \in Int
      <4>1. rows[j] \in 1 .. Len(work)
        BY <1>1
      <4>2. work[rows[j]] \in Nat \ {0}
        BY <4>1, WorkOfOne
      <4> QED BY <4>1, <4>2
    <3> QED BY <3>1
  <2> HIDE DEF M
  <2>2. ASSUME NEW j \in 1 .. k PROVE s[j] \in [sum : Int, items : M]
    <3>1. CASE j \in 1 .. n
      <4> DEFINE x == work[rows[j]]  y == << rows[j] >>
      <4>1. x \in Int /\ y \in M
        BY <2>1, <3>1
      <4>2. s[j] = [sum |-> x, items |-> y]
        BY <1>1, <3>1
      <4> HIDE DEF x, y, s
      <4> QED BY <4>1, <4>2
    <3>2. CASE ~ (j \in 1 .. n)
      <4>1. s[j] = [sum |-> 0, items |-> << >>]
        BY <1>1, <3>2 DEF EmptySet
      <4> QED BY <2>1, <4>1
    <3> QED BY <3>1, <3>2
  <2> QED BY <2>2 DEF Sets, M
<1>5. s \in Seq(Sets) /\ Len(s) = k
  <2>1. s \in [1 .. k -> Sets]
    BY <1>4, Zenon
  <2> HIDE DEF s
  <2> QED BY <2>1, FunctionIsSeq, Zenon
<1> HIDE DEF s
<1>6. Divides(s, k, C)
  <2>1. /\ PartsOf(s) \in Seq(Seq(Nat)) /\ Len(PartsOf(s)) = k
        /\ \A j \in 1 .. k : PartsOf(s)[j] = s[j].items
    BY <1>5, PartsOfType, Zenon
  <2> DEFINE p == PartsOf(s)
  <2>2. /\ Len(p) = k
        /\ \A j \in 1 .. k : /\ j \in 1 .. n => p[j] = << rows[j] >>
                             /\ ~ (j \in 1 .. n) => p[j] = << >>
    BY <1>3, <2>1, Zenon
  <2> HIDE DEF p
  <2>3. \A j \in 1 .. n : << rows[j] >> \in Seq(C)
    BY <1>1
  <2>4. \A j \in 1 .. k : p[j] \in Seq(C)
    <3>1. << >> \in Seq(C)
      OBVIOUS
    <3> QED BY <2>2, <2>3, <3>1, Zenon
  <2>5. \A j \in 1 .. k : /\ j \in 1 .. n => Members(p[j]) = {rows[j]}
                          /\ ~ (j \in 1 .. n) => Members(p[j]) = {}
                          /\ Distinct(p[j])
    <3>1. \A x : Members(<< x >>) = {x} /\ Distinct(<< x >>)
      BY DEF Members, Distinct
    <3>2. Members(<< >>) = {} /\ Distinct(<< >>)
      BY DEF Members, Distinct
    <3> QED BY <2>2, <3>1, <3>2, Zenon
  <2>6. p \in Seq(Seq(C))
    BY <2>1, <2>2, <2>4, SeqOfMembers, Zenon DEF p
  <2>7. ASSUME NEW a \in 1 .. k, NEW b \in 1 .. k, a # b
        PROVE  Members(p[a]) \cap Members(p[b]) = {}
    <3>1. \A i, j \in 1 .. n : rows[i] = rows[j] => i = j
      BY DEF Distinct, n
    <3> QED BY <2>5, <2>7, <3>1
  <2>8. \A x \in C : \E a \in 1 .. k : x \in Members(p[a])
    <3>1. \A x \in C : \E j \in 1 .. n : x = rows[j]
      BY DEF C, Members, n
    <3>2. \A j \in 1 .. n : j \in 1 .. k
      BY <1>1
    <3> QED BY <2>5, <3>1, <3>2
  <2>9. ExactParts(p, C)
    BY <2>2, <2>5, <2>6, <2>7, <2>8 DEF ExactParts
  <2>10. C \subseteq Nat
    BY <1>1 DEF C, Members, n
  <2> QED BY <1>5, <2>9, <2>10 DEF Divides, p
<1>7. Fair(s, k, work, w, equal_size)
  <2>1. ASSUME NEW j \in 1 .. k
        PROVE  /\ s[j].sum = PartWork(work, s[j].items)
               /\ s[j].sum \in 0 .. w
               /\ Len(s[j].items) <= 1
               /\ equal_size => Len(s[j].items) = 1
    <3>1. CASE j \in 1 .. n
      <4>1. s[j].sum = work[rows[j]] /\ s[j].items = << rows[j] >>
        BY <1>3, <3>1
      <4>2. /\ work[rows[j]] \in Nat /\ work[rows[j]] <= w
            /\ PartWork(work, << rows[j] >>) = work[rows[j]]
        BY <1>1, <3>1, WorkOfOne
      <4>3. Len(<< rows[j] >>) = 1
        OBVIOUS
      <4> QED BY <4>1, <4>2, <4>3
    <3>2. CASE ~ (j \in 1 .. n)
      <4>1. s[j].sum = 0 /\ s[j].items = << >>
        BY <1>3, <3>2
      <4>2. PartWork(work, << >>) = 0
        <5>1. 1 \in 1 .. n
          BY <1>1
        <5>2. rows[1] \in 1 .. Len(work)
          BY <1>1, <5>1
        <5> QED BY <5>2, WorkOfOne
      <4>3. ~ equal_size
        BY <1>1, <3>2 DEF n
      <4> QED BY <4>1, <4>2, <4>3
    <3> QED BY <3>1, <3>2
  <2>2. ASSUME NEW i \in 1 .. k, NEW j \in 1 .. k PROVE s[i].sum - s[j].sum <= w
    <3>1. s[i].sum \in 0 .. w /\ s[j].sum \in 0 .. w
      BY <2>1
    <3>2. \A a, b \in 0 .. w : a - b <= w
      OBVIOUS
    <3> QED BY <3>1, <3>2
  <2>3. \A i, j \in 1 .. k : s[i].items = << >> => Len(s[j].items) <= 1
    BY <2>1
  <2>4. equal_size => \A i, j \in 1 .. k : Len(s[i].items) = Len(s[j].items)
    BY <2>1, Zenon
  <2> QED BY <2>1, <2>2, <2>3, <2>4, Zenon DEF Fair
<1> QED BY <1>2, <1>5, <1>6, <1>7, SortedIsFair, DecreasingDivides DEF C

(* States of rows that are theirs alone.                                   *)
FairStates(S, k, work, w, equal_size) == \A s \in S : FairState(s, k, work, w, equal_size)

(* S has n states, the m-th of the rows rows[m].                           *)
Collects(S, state, rows, n, k, C) ==
  /\ \A m \in 1 .. n : Divides(state[m], k, rows[m]) /\ rows[m] # {} /\ rows[m] \subseteq C
  /\ \A i, j \in 1 .. n : i # j => rows[i] \cap rows[j] = {}
  /\ \A x \in C : \E m \in 1 .. n : x \in rows[m]
  /\ S = {state[m] : m \in 1 .. n}

LEMMA ManyStates ==
  ASSUME NEW k \in Nat, NEW C \in SUBSET Nat, NEW n \in Nat, n > 0, NEW state, NEW rows,
         NEW S, Collects(S, state, rows, n, k, C)
  PROVE  Collection(S, k, C) /\ Cardinality(S) > 0
<1>0. /\ \A m \in 1 .. n : Divides(state[m], k, rows[m]) /\ rows[m] # {} /\ rows[m] \subseteq C
      /\ \A i, j \in 1 .. n : i # j => rows[i] \cap rows[j] = {}
      /\ \A x \in C : \E m \in 1 .. n : x \in rows[m]
      /\ S = {state[m] : m \in 1 .. n}
  BY DEF Collects
<1>1. ASSUME NEW i \in 1 .. n, NEW j \in 1 .. n, state[i] = state[j] PROVE i = j
  <2>1. rows[i] = rows[j]
    BY <1>0, <1>1, DividesOnce
  <2> QED BY <1>0, <2>1
<1> DEFINE h == [s \in S |-> rows[CHOOSE m \in 1 .. n : s = state[m]]]
<1>2. \A m \in 1 .. n : state[m] \in S /\ h[state[m]] = rows[m]
  BY <1>0, <1>1
<1>3. \A s \in S : \E m \in 1 .. n : s = state[m]
  BY <1>0
<1> DEFINE F == [m \in 1 .. n |-> state[m]]
<1>4. IsFiniteSet(S) /\ Cardinality(S) = n
  <2>1. IsFiniteSet(1 .. n) /\ Cardinality(1 .. n) = n
    BY FirstNumbers
  <2>2. F \in [1 .. n -> S] /\ (\A i, j \in 1 .. n : F[i] = F[j] => i = j)
        /\ (\A s \in S : \E i \in 1 .. n : F[i] = s)
    <3>1. \A m \in 1 .. n : F[m] = state[m]
      OBVIOUS
    <3>2. F \in [1 .. n -> S]
      BY <1>2
    <3> HIDE DEF F
    <3> QED BY <1>1, <1>3, <3>1, <3>2
  <2> HIDE DEF F
  <2>3. F \in Bijection(1 .. n, S)
    BY <2>2, Fun_IsBij, Fun_IsSurj
  <2>4. ExistsBijection(1 .. n, S)
    BY <2>3, Zenon DEF ExistsBijection
  <2> QED BY <2>1, <2>4, FS_Bijection
<1>5. S \in SUBSET States(k)
  BY <1>0, <1>3 DEF Divides, States
<1>6. Holds(h, S, k, C)
  <2>1. h \in [S -> (SUBSET C) \ {{}}]
    <3>1. h = [s \in S |-> h[s]]
      OBVIOUS
    <3>2. \A s \in S : h[s] \in (SUBSET C) \ {{}}
      BY <1>0, <1>2, <1>3
    <3> HIDE DEF h
    <3> QED BY <3>1, <3>2
  <2> HIDE DEF h
  <2>2. \A s \in S : Divides(s, k, h[s])
    BY <1>0, <1>2, <1>3
  <2>3. ASSUME NEW s \in S, NEW t \in S, s # t PROVE h[s] \cap h[t] = {}
    <3>1. PICK i \in 1 .. n : s = state[i]
      BY <1>3
    <3>2. PICK j \in 1 .. n : t = state[j]
      BY <1>3
    <3>3. i # j /\ h[s] = rows[i] /\ h[t] = rows[j]
      BY <1>2, <2>3, <3>1, <3>2
    <3> QED BY <1>0, <3>3
  <2>4. \A x \in C : \E s \in S : x \in h[s]
    BY <1>0, <1>2
  <2> QED BY <2>1, <2>2, <2>3, <2>4 DEF Holds
<1> QED BY <1>4, <1>5, <1>6 DEF Collection

(* Merging two states of a fair collection leaves a fair collection.       *)
LEMMA MergeTwoIsFair ==
  ASSUME NEW k \in Nat, k > 0, NEW work, Works(work), NEW w \in Int, NEW equal_size \in BOOLEAN,
         NEW S, Collection(S, k, 1 .. Len(work)), Cardinality(S) > 1,
         FairStates(S, k, work, w, equal_size)
  PROVE  FairStates(MergeTwo(S), k, work, w, equal_size)
<1> DEFINE N == 1 .. Len(work)
           s0 == Pop(S)
           s1 == Pop(S \ {s0})
           m == Merge(s0, s1)
<1>1. S \in SUBSET States(k) /\ IsFiniteSet(S) /\ Cardinality(S) \in Nat
  BY FS_CardinalityType DEF Collection
<1>2. PICK h : Holds(h, S, k, N)
  BY DEF Collection
<1>3. /\ \A s \in S : h[s] \subseteq N /\ Divides(s, k, h[s])
      /\ \A s, t \in S : s # t => h[s] \cap h[t] = {}
  BY <1>2 DEF Holds
<1>4. s0 \in S
  <2>1. S # {}
    BY <1>1, FS_EmptySet
  <2> QED BY <1>1, <2>1, PopIsMember
<1>5. MergeTwo(S) = (S \ {s0, s1}) \cup {m}
  BY DEF MergeTwo
<1> HIDE DEF s0
<1>6. s1 \in S /\ s1 # s0
  <2>1. IsFiniteSet(S \ {s0}) /\ Cardinality(S \ {s0}) = Cardinality(S) - 1
    BY <1>1, <1>4, FS_RemoveElement
  <2>2. S \ {s0} # {}
    <3>1. Cardinality(S \ {s0}) # 0
      BY <1>1, <2>1
    <3> QED BY <3>1, FS_EmptySet
  <2>3. S \ {s0} \in SUBSET States(k)
    BY <1>1
  <2>4. s1 \in S \ {s0}
    BY <2>1, <2>2, <2>3, PopIsMember
  <2> QED BY <2>4
<1> HIDE DEF s1
<1>7. FairState(m, k, work, w, equal_size)
  <2>1. Divides(s0, k, h[s0]) /\ Divides(s1, k, h[s1])
        /\ h[s0] \in SUBSET N /\ h[s1] \in SUBSET N /\ h[s0] \cap h[s1] = {}
    BY <1>3, <1>4, <1>6
  <2>2. FairState(s0, k, work, w, equal_size) /\ FairState(s1, k, work, w, equal_size)
    BY <1>4, <1>6 DEF FairStates
  <2> HIDE DEF m
  <2> QED BY <2>1, <2>2, MergeIsFair DEF m
<1> QED BY <1>5, <1>7, Zenon DEF FairStates

(* So the last state is fair.                                              *)
LEMMA MergingIsFair ==
  ASSUME NEW k \in Nat, k > 0, NEW work, Works(work), NEW w \in Int, NEW equal_size \in BOOLEAN,
         NEW first, Collection(first, k, 1 .. Len(work)), Cardinality(first) > 0,
         FairStates(first, k, work, w, equal_size),
         NEW f, Merging(f, first, Cardinality(first))
  PROVE  \E s : /\ f[Cardinality(first) - 1] = {s} /\ Divides(s, k, 1 .. Len(work))
                /\ FairState(s, k, work, w, equal_size)
<1> DEFINE n == Cardinality(first)
           N == 1 .. Len(work)
           Good(x) == Collection(x, k, N) /\ FairStates(x, k, work, w, equal_size)
           M == {i \in 0 .. n - 1 : Good(f[i]) /\ Cardinality(f[i]) = n - i}
<1>1. n \in Nat /\ n > 0 /\ n - 1 \in Nat
  BY FS_CardinalityType DEF Collection
<1>2. \A i \in 0 .. n - 1 : f[i] = IF i = 0 THEN first ELSE MergeTwo(f[i - 1])
  BY DEF Merging
<1>3. n = Cardinality(first) /\ Good(first)
  OBVIOUS
<1>30. ASSUME NEW x, Good(x), Cardinality(x) > 1
       PROVE  Good(MergeTwo(x)) /\ Cardinality(MergeTwo(x)) = Cardinality(x) - 1
  <2>1. Collection(x, k, N) /\ FairStates(x, k, work, w, equal_size)
    BY <1>30
  <2>2. Collection(MergeTwo(x), k, N) /\ Cardinality(MergeTwo(x)) = Cardinality(x) - 1
    BY <1>30, <2>1, MergeTwoCollects
  <2>3. FairStates(MergeTwo(x), k, work, w, equal_size)
    BY <1>30, <2>1, MergeTwoIsFair
  <2> QED BY <2>2, <2>3
<1> HIDE DEF n, Good
<1>4. 0 \in M
  BY <1>1, <1>2, <1>3
<1>5. ASSUME NEW i \in 0 .. (n - 1) - 1, i \in M PROVE i + 1 \in M
  <2>1. i \in 0 .. n - 1 /\ i + 1 # 0 /\ (i + 1) - 1 = i /\ n - i > 1
        /\ (n - i) - 1 = n - (i + 1) /\ i + 1 \in 0 .. n - 1
    BY <1>1
  <2>2. f[i + 1] = MergeTwo(f[i])
    BY <1>2, <2>1
  <2>3. Good(f[i]) /\ Cardinality(f[i]) = n - i
    BY <1>5
  <2>4. Good(f[i + 1]) /\ Cardinality(f[i + 1]) = Cardinality(f[i]) - 1
    BY <1>30, <2>1, <2>2, <2>3
  <2> QED BY <2>1, <2>3, <2>4
<1>6. n - 1 \in M
  <2> HIDE DEF M
  <2> QED BY <1>1, <1>4, <1>5, Induction
<1>7. FairStates(f[n - 1], k, work, w, equal_size)
  BY <1>6 DEF Good
<1>8. PICK s : f[n - 1] = {s} /\ Divides(s, k, N)
  BY MergingCollects DEF n
<1>9. FairState(s, k, work, w, equal_size)
  BY <1>7, <1>8 DEF FairStates
<1> QED BY <1>8, <1>9 DEF n

(* The parts differ by w at most, hold one row each at least if there are  *)
(* as many, and are of one size if asked to be.                            *)
FairParts(parts, k, work, w, equal_size) ==
  /\ Len(parts) = k /\ ExactParts(parts, 1 .. Len(work))
  /\ \A p, q \in 1 .. k : PartWork(work, parts[p]) - PartWork(work, parts[q]) <= w
  /\ \A p, q \in 1 .. k : parts[p] = << >> => Len(parts[q]) <= 1
  /\ equal_size => \A p, q \in 1 .. k : Len(parts[p]) = Len(parts[q])

LEMMA KarmarkarKarpFair ==
  ASSUME NEW k \in Nat, k > 0, NEW work, Works(work), NEW w \in Int, NEW equal_size \in BOOLEAN,
         Collection(FirstStates(work, k, equal_size), k, 1 .. Len(work)),
         Cardinality(FirstStates(work, k, equal_size)) > 0,
         FairStates(FirstStates(work, k, equal_size), k, work, w, equal_size)
  PROVE  FairParts(KarmarkarKarp(work, k, equal_size), k, work, w, equal_size)
<1> DEFINE first == FirstStates(work, k, equal_size)
           n == Cardinality(first)
           merged == CHOOSE f :
             f = [i \in 0 .. n - 1 |-> IF i = 0 THEN first ELSE MergeTwo(f[i - 1])]
           final == CHOOSE s \in merged[n - 1] : TRUE
           parts == [p \in 1 .. k |-> final[p].items]
<1>1. KarmarkarKarp(work, k, equal_size) = parts
  BY Zenon DEF KarmarkarKarp
<1>2. Collection(first, k, 1 .. Len(work)) /\ n > 0 /\ FairStates(first, k, work, w, equal_size)
  OBVIOUS
<1> HIDE DEF first
<1>3. PICK f : Merging(f, first, n)
  BY <1>2, MergingExists
<1>4. Merging(merged, first, n)
  BY <1>3, Zenon DEF Merging
<1> HIDE DEF merged
<1>5. PICK s : /\ merged[n - 1] = {s} /\ Divides(s, k, 1 .. Len(work))
               /\ FairState(s, k, work, w, equal_size)
  BY <1>2, <1>4, MergingIsFair
<1>6. final = s
  BY <1>5
<1> HIDE DEF final
<1>7. s \in Seq(Sets) /\ Len(s) = k /\ ExactParts(PartsOf(s), 1 .. Len(work))
  BY <1>5 DEF Divides
<1>8. parts = PartsOf(s) /\ Len(PartsOf(s)) = k
  BY <1>6, <1>7, PartsOfType DEF PartsOf
<1>9. /\ Len(parts) = k /\ ExactParts(parts, 1 .. Len(work))
      /\ \A p \in 1 .. k : parts[p] = s[p].items
  BY <1>6, <1>7, <1>8
<1> HIDE DEF parts
<1>10. /\ \A i \in 1 .. k : s[i].sum = PartWork(work, s[i].items)
       /\ \A i, j \in 1 .. k : s[i].sum - s[j].sum <= w
       /\ \A i, j \in 1 .. k : s[i].items = << >> => Len(s[j].items) <= 1
       /\ equal_size => \A i, j \in 1 .. k : Len(s[i].items) = Len(s[j].items)
  BY <1>5, Zenon DEF FairState, Fair
<1>11. FairParts(parts, k, work, w, equal_size)
  <2>1. \A p, q \in 1 .. k : PartWork(work, parts[p]) - PartWork(work, parts[q]) <= w
    BY <1>9, <1>10
  <2>2. ASSUME NEW p \in 1 .. k, NEW q \in 1 .. k
        PROVE  /\ parts[p] = << >> => Len(parts[q]) <= 1
               /\ equal_size => Len(parts[p]) = Len(parts[q])
    <3>1. parts[p] = s[p].items /\ parts[q] = s[q].items
      BY <1>9
    <3>2. /\ s[p].items = << >> => Len(s[q].items) <= 1
          /\ equal_size => Len(s[p].items) = Len(s[q].items)
      BY <1>10
    <3> QED BY <3>1, <3>2
  <2> QED BY <1>9, <2>1, <2>2 DEF FairParts
<1> QED BY <1>1, <1>11

(* Pieces of k rows next to each other hold each row once.                 *)
Piece(s, k, m) == SubSeq(s, m * k + 1, m * k + k)

LEMMA PiecesDivide ==
  ASSUME NEW X, NEW s \in Seq(X), Distinct(s), NEW k \in Nat \ {0}, NEW c \in Nat,
         Len(s) = c * k
  PROVE  /\ \A m \in 0 .. c - 1 : /\ Piece(s, k, m) \in Seq(X)
                                  /\ Len(Piece(s, k, m)) = k
                                  /\ Distinct(Piece(s, k, m))
         /\ \A i, j \in 0 .. c - 1 :
              i # j => Members(Piece(s, k, i)) \cap Members(Piece(s, k, j)) = {}
         /\ \A x \in Members(s) : \E m \in 0 .. c - 1 : x \in Members(Piece(s, k, m))
<1>1. \A m \in 0 .. c - 1, x \in 1 .. k : m * k + x \in 1 .. c * k /\ m * k \in Nat
  <2> SUFFICES ASSUME NEW m \in 0 .. c - 1, NEW x \in 1 .. k
               PROVE  m * k + x \in 1 .. c * k /\ m * k \in Nat
    OBVIOUS
  <2>1. (m + 1) * k <= c * k
    <3>1. \A a, b, d \in Nat : a <= b => a * d <= b * d
      OBVIOUS
    <3>2. m + 1 \in Nat /\ c \in Nat /\ k \in Nat /\ m + 1 <= c
      OBVIOUS
    <3> QED BY <3>1, <3>2
  <2>2. (m + 1) * k = m * k + k /\ m * k \in Nat /\ c * k \in Nat
    OBVIOUS
  <2> QED BY <2>1, <2>2
<1>2. ASSUME NEW m \in 0 .. c - 1
      PROVE  /\ Piece(s, k, m) \in Seq(X) /\ Len(Piece(s, k, m)) = k
             /\ \A x \in 1 .. k : Piece(s, k, m)[x] = s[m * k + x]
  <2> DEFINE i == m * k  j == m * k + k
  <2>1. k \in 1 .. k /\ 1 \in 1 .. k
    OBVIOUS
  <2>2. i \in Nat /\ m * k + k \in 1 .. c * k
    BY <1>1, <2>1
  <2>3. i \in 0 .. Len(s) /\ j \in i .. Len(s) /\ j - i = k
    BY <2>2
  <2>4. Piece(s, k, m) = SubSeq(s, i + 1, j)
    BY DEF Piece
  <2> HIDE DEF i, j
  <2>5. /\ SubSeq(s, i + 1, j) \in Seq(X) /\ Len(SubSeq(s, i + 1, j)) = j - i
        /\ \A x \in 1 .. j - i : SubSeq(s, i + 1, j)[x] = s[i + x]
    BY <2>3, PartOfSeq
  <2> QED BY <2>3, <2>4, <2>5 DEF i
<1>3. \A i, j \in 1 .. c * k : s[i] = s[j] => i = j
  BY DEF Distinct
<1>4. ASSUME NEW i \in 0 .. c - 1, NEW j \in 0 .. c - 1, NEW x \in 1 .. k, NEW y \in 1 .. k,
             Piece(s, k, i)[x] = Piece(s, k, j)[y]
      PROVE  i = j /\ x = y
  <2>1. s[i * k + x] = s[j * k + y]
    BY <1>2, <1>4
  <2>2. i * k + x = j * k + y
    BY <1>1, <1>3, <2>1
  <2>3. i = j
    <3>1. ASSUME NEW a \in Nat, NEW b \in Nat, a < b PROVE (a + 1) * k <= b * k
      BY <3>1
    <3>2. ASSUME NEW a \in Nat, NEW b \in Nat, NEW p \in 1 .. k, NEW q \in 1 .. k, a < b
          PROVE  a * k + p # b * k + q
      <4>1. (a + 1) * k = a * k + k /\ a * k \in Nat /\ b * k \in Nat
        OBVIOUS
      <4> QED BY <3>1, <3>2, <4>1
    <3> QED BY <2>2, <3>2
  <2> QED BY <2>2, <2>3
<1>5. ASSUME NEW m \in 0 .. c - 1 PROVE Distinct(Piece(s, k, m))
  BY <1>2, <1>4 DEF Distinct
<1>6. ASSUME NEW i \in 0 .. c - 1, NEW j \in 0 .. c - 1, i # j
      PROVE  Members(Piece(s, k, i)) \cap Members(Piece(s, k, j)) = {}
  <2> SUFFICES ASSUME NEW z \in Members(Piece(s, k, i)), z \in Members(Piece(s, k, j))
               PROVE  FALSE
    OBVIOUS
  <2>1. PICK x \in 1 .. k : z = Piece(s, k, i)[x]
    BY <1>2 DEF Members
  <2>2. PICK y \in 1 .. k : z = Piece(s, k, j)[y]
    BY <1>2 DEF Members
  <2> QED BY <1>4, <1>6, <2>1, <2>2
<1>7. ASSUME NEW z \in Members(s) PROVE \E m \in 0 .. c - 1 : z \in Members(Piece(s, k, m))
  <2>1. PICK j \in 1 .. c * k : z = s[j]
    BY DEF Members
  <2> DEFINE m == (j - 1) \div k
             x == j - m * k
  <2>2. m \in Int /\ m * k <= j - 1 /\ j - 1 < (m + 1) * k
    OBVIOUS
  <2> HIDE DEF m
  <2>3. (m + 1) * k = m * k + k /\ m * k \in Int /\ c * k \in Int
    BY <2>2
  <2>4. x \in 1 .. k /\ m * k + x = j
    BY <2>2, <2>3
  <2>5. m >= 0
    <3> SUFFICES ASSUME m + 1 <= 0 PROVE FALSE
      BY <2>2
    <3>1. (m + 1) * k <= 0
      BY <2>2
    <3> QED BY <2>2, <2>3, <3>1
  <2>6. m < c
    <3> SUFFICES ASSUME c <= m PROVE FALSE
      BY <2>2
    <3>1. c * k <= m * k
      BY <2>2
    <3> QED BY <2>2, <2>3, <3>1
  <2>7. m \in 0 .. c - 1
    BY <2>2, <2>5, <2>6
  <2> HIDE DEF x
  <2>8. Piece(s, k, m)[x] = z
    BY <1>2, <2>1, <2>4, <2>7
  <2> QED BY <1>2, <2>4, <2>7, <2>8 DEF Members
<1> QED BY <1>2, <1>5, <1>6, <1>7

(* The positions of the rows, in the order of their work.                  *)
RowPositions(n) == [i \in 1 .. n |-> i]

LEMMA RowPositionsExact ==
  ASSUME NEW n \in Nat
  PROVE  /\ RowPositions(n) \in Seq(1 .. n) /\ Len(RowPositions(n)) = n
         /\ Distinct(RowPositions(n)) /\ Members(RowPositions(n)) = 1 .. n
<1>1. RowPositions(n) \in [1 .. n -> 1 .. n] /\ \A i \in 1 .. n : RowPositions(n)[i] = i
  BY DEF RowPositions
<1>2. RowPositions(n) \in Seq(1 .. n) /\ Len(RowPositions(n)) = n
  BY <1>1, FunctionIsSeq, Zenon
<1> QED BY <1>1, <1>2 DEF Distinct, Members

(* The first states hold each row once and are fair.                       *)
LEMMA FirstStatesFair ==
  ASSUME NEW k \in Nat, k > 0, NEW work, Works(work), work # << >>,
         NEW w \in Nat, \A i \in 1 .. Len(work) : work[i] <= w,
         NEW equal_size \in BOOLEAN, equal_size => Len(work) % k = 0
  PROVE  /\ Collection(FirstStates(work, k, equal_size), k, 1 .. Len(work))
         /\ Cardinality(FirstStates(work, k, equal_size)) > 0
         /\ FairStates(FirstStates(work, k, equal_size), k, work, w, equal_size)
<1> DEFINE N == Len(work)
<1>1. N \in Nat /\ N > 0 /\ DOMAIN work = 1 .. N
  BY LenProperties, EmptySeq DEF Works
<1>2. CASE ~ equal_size
  <2> DEFINE state == [m \in 1 .. N |-> StateOf(work, << m >>, k)]
             rows == [m \in 1 .. N |-> {m}]
             S == {state[m] : m \in 1 .. N}
  <2>1. FirstStates(work, k, equal_size) = S
    BY <1>1, <1>2 DEF FirstStates
  <2>2. ASSUME NEW m \in 1 .. N
        PROVE  Divides(state[m], k, rows[m]) /\ FairState(state[m], k, work, w, equal_size)
    <3> DEFINE r == << m >>
    <3>1. r \in Seq(1 .. Len(work)) /\ Distinct(r) /\ Len(r) \in 1 .. k /\ Members(r) = {m}
      BY DEF Distinct, Members
    <3>2. state[m] = StateOf(work, r, k) /\ rows[m] = {m}
      OBVIOUS
    <3> HIDE DEF r, state, rows
    <3>3. /\ Divides(StateOf(work, r, k), k, Members(r))
          /\ FairState(StateOf(work, r, k), k, work, w, equal_size)
      BY <1>2, <3>1, StateIsFair
    <3> QED BY <3>1, <3>2, <3>3
  <2>3. \A m \in 1 .. N : rows[m] # {} /\ rows[m] \subseteq 1 .. N
    OBVIOUS
  <2>4. \A i, j \in 1 .. N : i # j => rows[i] \cap rows[j] = {}
    OBVIOUS
  <2>5. \A x \in 1 .. N : \E m \in 1 .. N : x \in rows[m]
    OBVIOUS
  <2>6. 1 .. N \in SUBSET Nat
    OBVIOUS
  <2>60. S = {state[m] : m \in 1 .. N}
    OBVIOUS
  <2> HIDE DEF state, rows, N, S
  <2>61. \A m \in 1 .. N : Divides(state[m], k, rows[m]) /\ rows[m] # {} /\ rows[m] \subseteq 1 .. N
    BY <2>2, <2>3
  <2>7. Collection(S, k, 1 .. N) /\ Cardinality(S) > 0
    <3>1. Collects(S, state, rows, N, k, 1 .. N)
      BY <2>4, <2>5, <2>60, <2>61, Zenon DEF Collects
    <3> QED BY <1>1, <2>6, <3>1, ManyStates
  <2>8. FairStates(S, k, work, w, equal_size)
    BY <2>2, <2>60 DEF FairStates
  <2> QED BY <2>1, <2>7, <2>8 DEF N
<1>3. CASE equal_size
  <2> DEFINE c == N \div k
             order == LightFirst(work, RowPositions(N))
             state == [m \in 1 .. c |-> StateOf(work, Piece(order, k, m - 1), k)]
             rows == [m \in 1 .. c |-> Members(Piece(order, k, m - 1))]
             S == {state[m] : m \in 1 .. c}
  <2>1. c \in Nat /\ N = c * k /\ c > 0
    <3>1. N % k = 0
      BY <1>3
    <3>2. c \in Int /\ N = k * c + (N % k) /\ k * c = c * k
      <4>1. \A a \in Nat : /\ a \div k \in Int
                           /\ a = k * (a \div k) + (a % k)
                           /\ k * (a \div k) = (a \div k) * k
        OBVIOUS
      <4> HIDE DEF N
      <4> QED BY <1>1, <4>1
    <3> HIDE DEF c, N
    <3>3. N = c * k
      BY <1>1, <3>1, <3>2
    <3>4. c > 0
      <4> SUFFICES ASSUME c <= 0 PROVE FALSE
        BY <3>2
      <4>1. c * k <= 0
        BY <3>2
      <4> QED BY <1>1, <3>3, <4>1
    <3> QED BY <3>2, <3>3, <3>4
  <2>2. FirstStates(work, k, equal_size) = S
    <3>1. order = Sorted([i \in DOMAIN work |-> i], LAMBDA i, j : work[i] < work[j])
      BY <1>1 DEF LightFirst, RowPositions
    <3>2. FirstStates(work, k, equal_size)
            = {StateOf(work, Piece(order, k, n), k) : n \in 0 .. c - 1}
      BY <1>3, <3>1, Zenon DEF FirstStates, Piece
    <3> HIDE DEF order, c
    <3>3. \A n \in 0 .. c - 1 : n + 1 \in 1 .. c /\ (n + 1) - 1 = n
      BY <2>1
    <3>4. \A m \in 1 .. c : m - 1 \in 0 .. c - 1
      BY <2>1
    <3> DEFINE Of(n) == StateOf(work, Piece(order, k, n), k)
    <3>5. \A m \in 1 .. c : state[m] = Of(m - 1)
      OBVIOUS
    <3> HIDE DEF Of, state
    <3>6. {Of(n) : n \in 0 .. c - 1} = {state[m] : m \in 1 .. c}
      <4>1. \A n \in 0 .. c - 1 : Of(n) = state[n + 1]
        BY <3>3, <3>5
      <4> QED BY <3>3, <3>4, <3>5, <4>1
    <3> QED BY <3>2, <3>6 DEF Of
  <2>3. order \in Seq(1 .. N) /\ Distinct(order) /\ Members(order) = 1 .. N /\ Len(order) = N
    <3>1. /\ RowPositions(N) \in Seq(1 .. N) /\ Len(RowPositions(N)) = N
          /\ Distinct(RowPositions(N)) /\ Members(RowPositions(N)) = 1 .. N
      BY <1>1, RowPositionsExact
    <3>2. order \in Seq(1 .. N) /\ Rearranges(order, RowPositions(N), Len(RowPositions(N)))
      BY <3>1, SortedLightFirst
    <3> HIDE DEF order
    <3>3. Members(order) = Members(RowPositions(N)) /\ Distinct(order)
      BY <3>1, <3>2, RearrangedMembers
    <3> QED BY <3>1, <3>2, <3>3 DEF Rearranges
  <2> HIDE DEF order, c
  <2>4. /\ \A m \in 0 .. c - 1 : /\ Piece(order, k, m) \in Seq(1 .. N)
                                 /\ Len(Piece(order, k, m)) = k
                                 /\ Distinct(Piece(order, k, m))
        /\ \A i, j \in 0 .. c - 1 :
             i # j => Members(Piece(order, k, i)) \cap Members(Piece(order, k, j)) = {}
        /\ \A x \in 1 .. N : \E m \in 0 .. c - 1 : x \in Members(Piece(order, k, m))
    <3>1. k \in Nat \ {0} /\ Len(order) = c * k
      BY <2>1, <2>3
    <3>2. c \in Nat /\ order \in Seq(1 .. N) /\ Distinct(order)
      BY <2>1, <2>3
    <3> HIDE DEF N
    <3>3. /\ \A m \in 0 .. c - 1 : /\ Piece(order, k, m) \in Seq(1 .. N)
                                   /\ Len(Piece(order, k, m)) = k
                                   /\ Distinct(Piece(order, k, m))
          /\ \A i, j \in 0 .. c - 1 :
               i # j => Members(Piece(order, k, i)) \cap Members(Piece(order, k, j)) = {}
          /\ \A x \in Members(order) : \E m \in 0 .. c - 1 : x \in Members(Piece(order, k, m))
      BY <3>1, <3>2, PiecesDivide, Zenon
    <3> QED BY <2>3, <3>3
  <2>5. ASSUME NEW m \in 1 .. c
        PROVE  /\ Divides(state[m], k, rows[m]) /\ FairState(state[m], k, work, w, equal_size)
               /\ rows[m] # {} /\ rows[m] \subseteq 1 .. N
    <3> DEFINE r == Piece(order, k, m - 1)
    <3>1. m - 1 \in 0 .. c - 1
      BY <2>1
    <3>2. r \in Seq(1 .. N) /\ Distinct(r) /\ Len(r) = k
      BY <2>4, <3>1
    <3>3. state[m] = StateOf(work, r, k) /\ rows[m] = Members(r)
      OBVIOUS
    <3> HIDE DEF r, state, rows
    <3>4. Len(r) \in 1 .. k
      BY <3>2
    <3>5. /\ Divides(StateOf(work, r, k), k, Members(r))
          /\ FairState(StateOf(work, r, k), k, work, w, equal_size)
      BY <3>2, <3>4, StateIsFair
    <3>6. Members(r) # {} /\ Members(r) \subseteq 1 .. N
      <4>1. 1 \in 1 .. Len(r) /\ \A i \in 1 .. Len(r) : r[i] \in 1 .. N
        BY <3>2, <3>4, ElementOfSeq
      <4> QED BY <4>1 DEF Members
    <3> QED BY <3>3, <3>5, <3>6
  <2>6. \A m \in 1 .. c : rows[m] = Members(Piece(order, k, m - 1)) /\ m - 1 \in 0 .. c - 1
    BY <2>1
  <2>7. \A i, j \in 1 .. c : i # j => rows[i] \cap rows[j] = {}
    <3> SUFFICES ASSUME NEW i \in 1 .. c, NEW j \in 1 .. c, i # j PROVE rows[i] \cap rows[j] = {}
      OBVIOUS
    <3>1. i - 1 # j - 1
      OBVIOUS
    <3> QED BY <2>4, <2>6, <3>1
  <2>8. \A x \in 1 .. N : \E m \in 1 .. c : x \in rows[m]
    <3> SUFFICES ASSUME NEW x \in 1 .. N PROVE \E m \in 1 .. c : x \in rows[m]
      OBVIOUS
    <3>1. PICK n \in 0 .. c - 1 : x \in Members(Piece(order, k, n))
      BY <2>4
    <3>2. n + 1 \in 1 .. c /\ (n + 1) - 1 = n
      BY <2>1
    <3> QED BY <2>6, <3>1, <3>2
  <2>9. 1 .. N \in SUBSET Nat
    OBVIOUS
  <2>90. S = {state[m] : m \in 1 .. c}
    OBVIOUS
  <2> HIDE DEF state, rows, N, S
  <2>91. \A m \in 1 .. c : Divides(state[m], k, rows[m]) /\ rows[m] # {} /\ rows[m] \subseteq 1 .. N
    BY <2>5
  <2>10. Collection(S, k, 1 .. N) /\ Cardinality(S) > 0
    <3>1. Collects(S, state, rows, c, k, 1 .. N)
      BY <2>7, <2>8, <2>90, <2>91, Zenon DEF Collects
    <3> QED BY <2>1, <2>9, <3>1, ManyStates
  <2>11. FairStates(S, k, work, w, equal_size)
    BY <2>5, <2>90 DEF FairStates
  <2> QED BY <2>2, <2>10, <2>11 DEF N
<1> QED BY <1>2, <1>3

(* get_seqlen_balanced_partitions: sorting each part changes nothing of    *)
(* that.                                                                   *)
LEMMA WorkRearranged ==
  ASSUME NEW work, Works(work), NEW p \in Seq(1 .. Len(work)), NEW q \in Seq(1 .. Len(work)),
         Distinct(p), Distinct(q), Members(p) = Members(q)
  PROVE  PartWork(work, p) = PartWork(work, q) /\ Len(p) = Len(q)
<1>1. work \in [1 .. Len(work) -> Int]
  BY LenProperties DEF Works
<1>2. SumSeq(Through(p, work)) = SumSeq(Through(q, work))
  BY <1>1, SumOfMembers
<1>3. Len(p) = Len(q)
  BY DistinctLength
<1> QED BY <1>2, <1>3, PartWorkIs

LEMMA BalancedFair ==
  ASSUME NEW k \in Nat, k > 0, NEW work, Works(work), work # << >>,
         NEW w \in Nat, \A i \in 1 .. Len(work) : work[i] <= w,
         NEW equal_size \in BOOLEAN, equal_size => Len(work) % k = 0
  PROVE  FairParts(BalancedPartitions(work, k, equal_size), k, work, w, equal_size)
<1> DEFINE N == Len(work)
           P == KarmarkarKarp(work, k, equal_size)
           Q == [p \in 1 .. k |-> Ascending(P[p])]
<1>1. /\ Collection(FirstStates(work, k, equal_size), k, 1 .. N)
      /\ Cardinality(FirstStates(work, k, equal_size)) > 0
      /\ FairStates(FirstStates(work, k, equal_size), k, work, w, equal_size)
  BY FirstStatesFair
<1>2. FairParts(P, k, work, w, equal_size)
  BY <1>1, KarmarkarKarpFair
<1>3. BalancedPartitions(work, k, equal_size) = Q
  BY DEF BalancedPartitions
<1>4. Len(Q) = k /\ ExactParts(Q, 1 .. N)
  BY <1>1, <1>3, BalancedExact
<1> HIDE DEF P
<1>5. Len(P) = k /\ ExactParts(P, 1 .. N)
  BY <1>2 DEF FairParts
<1>6. ASSUME NEW p \in 1 .. k
      PROVE  PartWork(work, Q[p]) = PartWork(work, P[p]) /\ Len(Q[p]) = Len(P[p])
             /\ (Q[p] = << >> <=> P[p] = << >>)
  <2>1. P[p] \in Seq(1 .. N) /\ Distinct(P[p])
    <3>1. P \in Seq(Seq(1 .. N)) /\ \A i \in 1 .. k : Distinct(P[i])
      BY <1>5 DEF ExactParts
    <3> DEFINE X == Seq(1 .. N)
    <3> HIDE DEF X
    <3>2. P \in Seq(X) => P[p] \in X
      BY <1>5, ElementOfSeq
    <3> QED BY <3>1, <3>2 DEF X
  <2>2. /\ Ascending(P[p]) \in Seq(1 .. N)
        /\ Rearranges(Ascending(P[p]), P[p], Len(P[p]))
    BY <2>1, SortedAscending
  <2>3. Members(Ascending(P[p])) = Members(P[p]) /\ Distinct(Ascending(P[p]))
    BY <2>1, <2>2, RearrangedMembers
  <2>4. Q[p] = Ascending(P[p])
    OBVIOUS
  <2> HIDE DEF Q, N
  <2>5. PartWork(work, Q[p]) = PartWork(work, P[p]) /\ Len(Q[p]) = Len(P[p])
    BY <2>1, <2>2, <2>3, <2>4, WorkRearranged DEF N
  <2> QED BY <2>1, <2>2, <2>4, <2>5, EmptySeq
<1> HIDE DEF Q
<1>7. ASSUME NEW p \in 1 .. k, NEW q \in 1 .. k
      PROVE  /\ PartWork(work, Q[p]) - PartWork(work, Q[q]) <= w
             /\ Q[p] = << >> => Len(Q[q]) <= 1
             /\ equal_size => Len(Q[p]) = Len(Q[q])
  <2>1. /\ PartWork(work, P[p]) - PartWork(work, P[q]) <= w
        /\ P[p] = << >> => Len(P[q]) <= 1
        /\ equal_size => Len(P[p]) = Len(P[q])
    BY <1>2, Zenon DEF FairParts
  <2> QED BY <1>6, <2>1
<1>8. FairParts(Q, k, work, w, equal_size)
  BY <1>4, <1>7 DEF FairParts, N
<1> QED BY <1>3, <1>8

(* A sum of numbers none of which is more than h.                          *)
LEMMA SumBelow ==
  ASSUME NEW s \in Seq(Int), NEW h \in Int, \A i \in 1 .. Len(s) : s[i] <= h
  PROVE  /\ SumSeq(s) \in Int /\ SumSeq(s) <= Len(s) * h
         /\ (\E i \in 1 .. Len(s) : s[i] < h) => SumSeq(s) < Len(s) * h
<1> DEFINE n == Len(s)
<1>1. n \in Nat /\ \A i \in 1 .. n : s[i] \in Int /\ s[i] <= h
  BY LenProperties, ElementOfSeq
<1>2. PICK c : Sums(c, s) /\ SumSeq(s) = c[n]
  BY SumBySums
<1>3. c \in [0 .. n -> Int] /\ c[0] = 0 /\ \A m \in 1 .. n : c[m] = c[m - 1] + s[m]
  BY <1>2 DEF Sums
<1> HIDE DEF n
<1> DEFINE I == {m \in 0 .. n : /\ c[m] <= m * h
                                /\ (\E i \in 1 .. m : s[i] < h) => c[m] < m * h}
<1>4. 0 \in I
  <2>1. 0 * h = 0 /\ 0 \in 0 .. n
    BY <1>1
  <2> QED BY <1>3, <2>1
<1>5. ASSUME NEW m \in 0 .. n - 1, m \in I PROVE m + 1 \in I
  <2>1. m + 1 \in 1 .. n /\ (m + 1) - 1 = m /\ m \in 0 .. n /\ m + 1 \in 0 .. n
    BY <1>1
  <2>2. c[m + 1] = c[m] + s[m + 1] /\ c[m] \in Int /\ s[m + 1] \in Int /\ s[m + 1] <= h
    BY <1>1, <1>3, <2>1
  <2>3. (m + 1) * h = m * h + h /\ m * h \in Int
    <3>1. \A a \in Int : (a + 1) * h = a * h + h /\ a * h \in Int
      OBVIOUS
    <3> QED BY <3>1
  <2>4. c[m] <= m * h /\ ((\E i \in 1 .. m : s[i] < h) => c[m] < m * h)
    BY <1>5
  <2> DEFINE x == m * h
  <2> HIDE DEF x, I
  <2>5. c[m + 1] <= x + h
    BY <2>2, <2>3, <2>4 DEF x
  <2>6. ASSUME \E i \in 1 .. m + 1 : s[i] < h PROVE c[m + 1] < x + h
    <3>1. PICK i \in 1 .. m + 1 : s[i] < h
      BY <2>6
    <3>2. CASE i = m + 1
      BY <2>2, <2>3, <2>4, <3>1, <3>2 DEF x
    <3>3. CASE i # m + 1
      <4>1. i \in 1 .. m
        BY <2>1, <3>3
      <4>2. c[m] < x
        BY <2>4, <3>1, <4>1 DEF x
      <4> QED BY <2>2, <2>3, <4>2 DEF x
    <3> QED BY <3>2, <3>3
  <2> QED BY <2>1, <2>3, <2>5, <2>6 DEF I, x
<1>6. n \in I
  <2> HIDE DEF I
  <2> QED BY <1>1, <1>4, <1>5, Induction
<1>7. c[n] \in Int
  BY <1>1, <1>3
<1> QED BY <1>2, <1>6, <1>7 DEF n

(* A sum of numbers none of which is less than l.                          *)
LEMMA SumAbove ==
  ASSUME NEW s \in Seq(Int), NEW l \in Int, \A i \in 1 .. Len(s) : s[i] >= l
  PROVE  /\ SumSeq(s) >= Len(s) * l
         /\ (\E i \in 1 .. Len(s) : s[i] > l) => SumSeq(s) > Len(s) * l
<1> DEFINE n == Len(s)
<1>1. n \in Nat /\ \A i \in 1 .. n : s[i] \in Int /\ s[i] >= l
  BY LenProperties, ElementOfSeq
<1>2. PICK c : Sums(c, s) /\ SumSeq(s) = c[n]
  BY SumBySums
<1>3. c \in [0 .. n -> Int] /\ c[0] = 0 /\ \A m \in 1 .. n : c[m] = c[m - 1] + s[m]
  BY <1>2 DEF Sums
<1> HIDE DEF n
<1> DEFINE I == {m \in 0 .. n : /\ c[m] >= m * l
                                /\ (\E i \in 1 .. m : s[i] > l) => c[m] > m * l}
<1>4. 0 \in I
  <2>1. 0 * l = 0 /\ 0 \in 0 .. n
    BY <1>1
  <2> QED BY <1>3, <2>1
<1>5. ASSUME NEW m \in 0 .. n - 1, m \in I PROVE m + 1 \in I
  <2>1. m + 1 \in 1 .. n /\ (m + 1) - 1 = m /\ m \in 0 .. n /\ m + 1 \in 0 .. n
    BY <1>1
  <2>2. c[m + 1] = c[m] + s[m + 1] /\ c[m] \in Int /\ s[m + 1] \in Int /\ s[m + 1] >= l
    BY <1>1, <1>3, <2>1
  <2>3. (m + 1) * l = m * l + l /\ m * l \in Int
    <3>1. \A a \in Int : (a + 1) * l = a * l + l /\ a * l \in Int
      OBVIOUS
    <3> QED BY <3>1
  <2>4. c[m] >= m * l /\ ((\E i \in 1 .. m : s[i] > l) => c[m] > m * l)
    BY <1>5
  <2> DEFINE x == m * l
  <2> HIDE DEF x, I
  <2>5. c[m + 1] >= x + l
    BY <2>2, <2>3, <2>4 DEF x
  <2>6. ASSUME \E i \in 1 .. m + 1 : s[i] > l PROVE c[m + 1] > x + l
    <3>1. PICK i \in 1 .. m + 1 : s[i] > l
      BY <2>6
    <3>2. CASE i = m + 1
      BY <2>2, <2>3, <2>4, <3>1, <3>2 DEF x
    <3>3. CASE i # m + 1
      <4>1. i \in 1 .. m
        BY <2>1, <3>3
      <4>2. c[m] > x
        BY <2>4, <3>1, <4>1 DEF x
      <4> QED BY <2>2, <2>3, <4>2 DEF x
    <3> QED BY <3>2, <3>3
  <2> QED BY <2>1, <2>3, <2>5, <2>6 DEF I, x
<1>6. n \in I
  <2> HIDE DEF I
  <2> QED BY <1>1, <1>4, <1>5, Induction
<1> QED BY <1>2, <1>6 DEF n

(* A concatenation is as long as its sequences are together.               *)
Lens(s) == [i \in 1 .. Len(s) |-> Len(s[i])]

LEMMA FlattenLength ==
  ASSUME NEW X, NEW s \in Seq(Seq(X))
  PROVE  /\ Lens(s) \in Seq(Nat) /\ Lens(s) \in Seq(Int) /\ Len(Lens(s)) = Len(s)
         /\ \A i \in 1 .. Len(s) : Lens(s)[i] = Len(s[i]) /\ s[i] \in Seq(X)
         /\ SumSeq(Lens(s)) = Len(FlattenSeq(s))
<1> DEFINE n == Len(s)
           t == Lens(s)
           Y == Seq(X)
<1>1. n \in Nat /\ \A i \in 1 .. n : s[i] \in Y
  <2> HIDE DEF Y
  <2>1. s \in Seq(Y)
    BY DEF Y
  <2> QED BY <2>1, LenProperties, ElementOfSeq
<1>2. \A i \in 1 .. n : Len(s[i]) \in Nat
  BY <1>1, LenProperties
<1>3. t \in [1 .. n -> Nat] /\ t \in [1 .. n -> Int] /\ \A i \in 1 .. n : t[i] = Len(s[i])
  BY <1>2 DEF Lens
<1> HIDE DEF n, t
<1>4. t \in Seq(Nat) /\ t \in Seq(Int) /\ Len(t) = n
  BY <1>1, <1>3, FunctionIsSeq
<1>5. PICK f : Concatenations(f, X, n, s) /\ FlattenSeq(s) = f[n]
  BY FlattenByPrefixes DEF n
<1>6. PICK c : Sums(c, t) /\ SumSeq(t) = c[n]
  BY <1>4, SumBySums
<1>7. c \in [0 .. n -> Int] /\ c[0] = 0 /\ \A m \in 1 .. n : c[m] = c[m - 1] + t[m]
  BY <1>4, <1>6 DEF Sums
<1>8. /\ f \in [0 .. n -> Y] /\ f[0] = << >>
      /\ \A m \in 1 .. n : f[m] = f[m - 1] \o s[m]
  BY <1>5 DEF Concatenations
<1> DEFINE I == {m \in 0 .. n : Len(f[m]) = c[m]}
<1>9. 0 \in I
  <2>1. Len(<< >>) = 0
    OBVIOUS
  <2> QED BY <1>1, <1>7, <1>8, <2>1
<1>10. ASSUME NEW m \in 0 .. n - 1, m \in I PROVE m + 1 \in I
  <2>1. m + 1 \in 1 .. n /\ (m + 1) - 1 = m /\ m \in 0 .. n /\ m + 1 \in 0 .. n
    BY <1>1
  <2>2. f[m + 1] = f[m] \o s[m + 1] /\ f[m] \in Seq(X) /\ s[m + 1] \in Seq(X)
    BY <1>1, <1>8, <2>1
  <2>3. Len(f[m] \o s[m + 1]) = Len(f[m]) + Len(s[m + 1])
    BY <2>2, ConcatProperties
  <2>4. c[m + 1] = c[m] + Len(s[m + 1])
    BY <1>3, <1>7, <2>1
  <2>5. Len(f[m]) = c[m]
    BY <1>10
  <2> QED BY <2>1, <2>2, <2>3, <2>4, <2>5
<1>11. n \in I
  <2> HIDE DEF I
  <2> QED BY <1>1, <1>9, <1>10, Induction
<1> QED BY <1>1, <1>3, <1>4, <1>5, <1>6, <1>11 DEF n, t

(* Parts that hold each of n rows once have n rows between them.           *)
LEMMA PartsLength ==
  ASSUME NEW n \in Nat, NEW parts, ExactParts(parts, 1 .. n)
  PROVE  /\ parts \in Seq(Seq(1 .. n)) /\ DOMAIN parts = 1 .. Len(parts) /\ Len(parts) \in Nat
         /\ Lens(parts) \in Seq(Int) /\ Len(Lens(parts)) = Len(parts)
         /\ \A p \in 1 .. Len(parts) :
              /\ Lens(parts)[p] = Len(parts[p]) /\ parts[p] \in Seq(1 .. n)
              /\ Len(parts[p]) \in Nat /\ (parts[p] = << >> <=> Len(parts[p]) = 0)
         /\ SumSeq(Lens(parts)) = n
         /\ ToSet(FlattenSeq(parts)) = 1 .. n
<1> DEFINE flat == FlattenSeq(parts)
<1>1. parts \in Seq(Seq(1 .. n)) /\ DOMAIN parts = 1 .. Len(parts) /\ Len(parts) \in Nat
  <2> DEFINE Y == Seq(1 .. n)
  <2>1. parts \in Seq(Y)
    BY DEF ExactParts
  <2> HIDE DEF Y
  <2>2. DOMAIN parts = 1 .. Len(parts) /\ Len(parts) \in Nat
    BY <2>1, LenProperties
  <2> QED BY <2>1, <2>2 DEF Y
<1>2. /\ Lens(parts) \in Seq(Int) /\ Len(Lens(parts)) = Len(parts)
      /\ \A i \in 1 .. Len(parts) : Lens(parts)[i] = Len(parts[i]) /\ parts[i] \in Seq(1 .. n)
      /\ SumSeq(Lens(parts)) = Len(flat)
  BY <1>1, FlattenLength
<1>3. flat \in Seq(1 .. n) /\ Distinct(flat) /\ Members(flat) = 1 .. n
  BY FlattenExact
<1> HIDE DEF flat
<1>4. Len(flat) = n
  <2>1. Len(flat) = Cardinality(1 .. n)
    BY <1>3, DistinctLength
  <2> QED BY <2>1, FirstNumbers
<1>5. ToSet(flat) = 1 .. n
  <2>1. DOMAIN flat = 1 .. Len(flat)
    BY <1>3, LenProperties
  <2>2. ToSet(flat) = Members(flat)
    BY <2>1 DEF ToSet, Members
  <2> QED BY <1>3, <2>2
<1>6. \A p \in 1 .. Len(parts) : Len(parts[p]) \in Nat /\ (parts[p] = << >> <=> Len(parts[p]) = 0)
  BY <1>2, LenProperties, EmptySeq
<1> QED BY <1>1, <1>2, <1>4, <1>5, <1>6 DEF flat

(* If there are as many rows as parts no part is empty, and parts of one   *)
(* size have the size that is left.                                        *)
NotEmpty(parts, k) == \A p \in 1 .. k : parts[p] # << >>
OfSize(parts, k, n) == \A p \in 1 .. k : Len(parts[p]) * k = n
LEMMA FairNotEmpty ==
  ASSUME NEW k \in Nat, k > 0, NEW work, NEW w, NEW equal_size \in BOOLEAN, NEW parts,
         work \in Seq(Int), FairParts(parts, k, work, w, equal_size), k <= Len(work)
  PROVE  NotEmpty(parts, k) /\ (equal_size => OfSize(parts, k, Len(work)))
<1> DEFINE n == Len(work)
           t == Lens(parts)
<1>1. n \in Nat
  BY LenProperties
<1>2. /\ Len(parts) = k /\ ExactParts(parts, 1 .. n)
      /\ \A p, q \in 1 .. k : parts[p] = << >> => Len(parts[q]) <= 1
      /\ equal_size => \A p, q \in 1 .. k : Len(parts[p]) = Len(parts[q])
  BY DEF FairParts
<1> HIDE DEF n
<1>3. /\ t \in Seq(Int) /\ Len(t) = k /\ SumSeq(t) = n
      /\ \A p \in 1 .. k : /\ t[p] = Len(parts[p]) /\ Len(parts[p]) \in Nat
                           /\ (parts[p] = << >> <=> Len(parts[p]) = 0)
  <2>1. /\ Lens(parts) \in Seq(Int) /\ Len(Lens(parts)) = Len(parts)
        /\ \A p \in 1 .. Len(parts) :
             /\ Lens(parts)[p] = Len(parts[p]) /\ parts[p] \in Seq(1 .. n)
             /\ Len(parts[p]) \in Nat /\ (parts[p] = << >> <=> Len(parts[p]) = 0)
        /\ SumSeq(Lens(parts)) = n
    BY <1>1, <1>2, PartsLength, Zenon
  <2>2. Len(parts) = k
    BY <1>2
  <2> QED BY <2>1, <2>2
<1> HIDE DEF t
<1>4. ASSUME NEW p \in 1 .. k PROVE parts[p] # << >>
  <2> SUFFICES ASSUME parts[p] = << >> PROVE FALSE
    OBVIOUS
  <2>1. \A q \in 1 .. Len(t) : t[q] <= 1
    BY <1>2, <1>3
  <2>2. t[p] < 1 /\ p \in 1 .. Len(t)
    BY <1>3
  <2>3. SumSeq(t) < Len(t) * 1
    <3>1. 1 \in Int /\ \E q \in 1 .. Len(t) : t[q] < 1
      BY <2>2
    <3> QED BY <1>3, <2>1, <3>1, SumBelow
  <2> QED BY <1>1, <1>3, <2>3 DEF n
<1>5. ASSUME equal_size, NEW p \in 1 .. k PROVE Len(parts[p]) * k = n
  <2> DEFINE c == Len(parts[p])
  <2>1. c \in Int /\ \A q \in 1 .. Len(t) : t[q] = c
    BY <1>2, <1>3, <1>5
  <2> HIDE DEF c
  <2>2. \A q \in 1 .. Len(t) : t[q] <= c /\ t[q] >= c
    BY <2>1
  <2>3. SumSeq(t) <= Len(t) * c
    BY <1>3, <2>1, <2>2, SumBelow
  <2>4. SumSeq(t) >= Len(t) * c
    BY <1>3, <2>1, <2>2, SumAbove
  <2>5. n <= k * c /\ n >= k * c /\ k * c = c * k /\ k * c \in Int
    <3>1. k * c = c * k /\ k * c \in Int
      BY <2>1
    <3> QED BY <1>3, <2>3, <2>4, <3>1
  <2> QED BY <1>1, <2>5 DEF c
<1> QED BY <1>4, <1>5 DEF n, NotEmpty, OfSize

(* greedy_partition.                                                       *)

(* Adding b to each number adds it as often as there are numbers.          *)
LEMMA SumShifted ==
  ASSUME NEW s \in Seq(Int), NEW b \in Int, NEW t, t = [i \in 1 .. Len(s) |-> s[i] + b]
  PROVE  SumSeq(t) = SumSeq(s) + Len(s) * b
<1> DEFINE n == Len(s)
<1>1. n \in Nat /\ \A i \in 1 .. n : s[i] \in Int
  BY LenProperties, ElementOfSeq
<1>2. t \in Seq(Int) /\ Len(t) = n /\ \A i \in 1 .. n : t[i] = s[i] + b
  <2>1. t \in [1 .. n -> Int] /\ \A i \in 1 .. n : t[i] = s[i] + b
    BY <1>1
  <2> QED BY <1>1, <2>1, FunctionIsSeq
<1>3. PICK c : Sums(c, s) /\ SumSeq(s) = c[n]
  BY SumBySums
<1>4. PICK d : Sums(d, t) /\ SumSeq(t) = d[n]
  BY <1>2, SumBySums
<1>5. /\ c \in [0 .. n -> Int] /\ c[0] = 0 /\ \A m \in 1 .. n : c[m] = c[m - 1] + s[m]
      /\ d \in [0 .. n -> Int] /\ d[0] = 0 /\ \A m \in 1 .. n : d[m] = d[m - 1] + t[m]
  BY <1>2, <1>3, <1>4 DEF Sums
<1> HIDE DEF n
<1> DEFINE I == {m \in 0 .. n : d[m] = c[m] + m * b}
<1>6. 0 \in I
  <2>1. 0 * b = 0 /\ 0 \in 0 .. n
    BY <1>1
  <2> QED BY <1>5, <2>1
<1>7. ASSUME NEW m \in 0 .. n - 1, m \in I PROVE m + 1 \in I
  <2>1. m + 1 \in 1 .. n /\ (m + 1) - 1 = m /\ m \in 0 .. n /\ m + 1 \in 0 .. n
    BY <1>1
  <2>2. c[m + 1] = c[m] + s[m + 1] /\ d[m + 1] = d[m] + (s[m + 1] + b)
        /\ c[m] \in Int /\ s[m + 1] \in Int
    BY <1>1, <1>2, <1>5, <2>1
  <2>3. (m + 1) * b = m * b + b /\ m * b \in Int
    <3>1. \A a \in Int : (a + 1) * b = a * b + b /\ a * b \in Int
      OBVIOUS
    <3> QED BY <3>1
  <2>4. d[m] = c[m] + m * b
    BY <1>7
  <2> DEFINE x == m * b
  <2> HIDE DEF x
  <2>5. d[m + 1] = c[m + 1] + (x + b)
    BY <2>2, <2>3, <2>4 DEF x
  <2> QED BY <2>1, <2>3, <2>5 DEF x
<1>8. n \in I
  <2> HIDE DEF I
  <2> QED BY <1>1, <1>6, <1>7, Induction
<1> QED BY <1>3, <1>4, <1>8 DEF n

LEMMA WorkAppend ==
  ASSUME NEW work, Works(work), NEW p \in Seq(1 .. Len(work)), NEW r \in 1 .. Len(work)
  PROVE  PartWork(work, Append(p, r)) = PartWork(work, p) + work[r]
<1>1. << r >> \in Seq(1 .. Len(work)) /\ Append(p, r) = p \o << r >>
  OBVIOUS
<1> QED BY <1>1, WorkOfBoth, WorkOfOne

(* Sums of positive numbers do not decrease.                               *)
LEMMA SumsRise ==
  ASSUME NEW work, Works(work), NEW c, Sums(c, work)
  PROVE  \A i \in 0 .. Len(work) : c[i] \in Nat /\ c[i] <= c[Len(work)]
<1> DEFINE n == Len(work)
<1>1. n \in Nat /\ \A i \in 1 .. n : work[i] \in Nat \ {0}
  BY LenProperties, ElementOfSeq DEF Works
<1>2. c \in [0 .. n -> Int] /\ c[0] = 0 /\ \A m \in 1 .. n : c[m] = c[m - 1] + work[m]
  BY DEF Sums
<1> HIDE DEF n
<1> DEFINE I == {m \in 0 .. n : \A i \in 0 .. m : c[i] \in Nat /\ c[i] <= c[m]}
<1>3. 0 \in I
  <2>1. 0 \in 0 .. n /\ \A i \in 0 .. 0 : i = 0
    BY <1>1
  <2> QED BY <1>2, <2>1
<1>4. ASSUME NEW m \in 0 .. n - 1, m \in I PROVE m + 1 \in I
  <2>1. m + 1 \in 1 .. n /\ (m + 1) - 1 = m /\ m \in 0 .. m /\ m + 1 \in 0 .. n
    BY <1>1
  <2>2. c[m + 1] = c[m] + work[m + 1] /\ work[m + 1] \in Nat
    BY <1>1, <1>2, <2>1
  <2>3. \A i \in 0 .. m : c[i] \in Nat /\ c[i] <= c[m]
    BY <1>4
  <2>4. \A i \in 0 .. m + 1 : i = m + 1 \/ i \in 0 .. m
    BY <2>1
  <2>5. c[m] \in Nat
    BY <2>1, <2>3
  <2>6. c[m + 1] \in Nat /\ c[m] <= c[m + 1]
    BY <2>2, <2>5
  <2>7. ASSUME NEW i \in 0 .. m + 1 PROVE c[i] \in Nat /\ c[i] <= c[m + 1]
    BY <2>3, <2>4, <2>5, <2>6
  <2> QED BY <2>1, <2>7
<1>5. n \in I
  <2> HIDE DEF I
  <2> QED BY <1>1, <1>3, <1>4, Induction
<1> QED BY <1>5 DEF n

(* A further row joins one of the parts.                                   *)
Joins(new, now, p, r) == new = [now EXCEPT ![p] = Append(@, r)]
HasJoined(new, now, p, i, k) ==
  /\ Len(new) = k /\ ExactParts(new, 1 .. i + 1)
  /\ new[p] = Append(now[p], i + 1) /\ Len(new[p]) = Len(now[p]) + 1
  /\ \A q \in 1 .. k : q # p => new[q] = now[q]

LEMMA ExactAppend ==
  ASSUME NEW k \in Nat, NEW i \in Nat, NEW now, Len(now) = k, ExactParts(now, 1 .. i),
         NEW p \in 1 .. k, NEW new, Joins(new, now, p, i + 1)
  PROVE  HasJoined(new, now, p, i, k)
<1> DEFINE Y == Seq(1 .. i)
           Z == Seq(1 .. i + 1)
<1>1. /\ now \in Seq(Y)
      /\ \A q \in 1 .. k : Distinct(now[q])
      /\ \A q, r \in 1 .. k : q # r => Members(now[q]) \cap Members(now[r]) = {}
      /\ \A x \in 1 .. i : \E q \in 1 .. k : x \in Members(now[q])
  BY DEF ExactParts
<1>2. now \in [1 .. k -> Y] /\ \A q \in 1 .. k : now[q] \in Y
  <2> HIDE DEF Y
  <2> QED BY <1>1, LenProperties, ElementOfSeq
<1>3. \A s \in Y : /\ s \in Z /\ Append(s, i + 1) \in Z /\ Members(s) \subseteq 1 .. i
                   /\ Len(Append(s, i + 1)) = Len(s) + 1
                   /\ Members(Append(s, i + 1)) = Members(s) \cup {i + 1}
                   /\ Distinct(s) => Distinct(Append(s, i + 1))
  <2> SUFFICES ASSUME NEW s \in Y
               PROVE  /\ s \in Z /\ Append(s, i + 1) \in Z /\ Members(s) \subseteq 1 .. i
                      /\ Len(Append(s, i + 1)) = Len(s) + 1
                      /\ Members(Append(s, i + 1)) = Members(s) \cup {i + 1}
                      /\ Distinct(s) => Distinct(Append(s, i + 1))
    OBVIOUS
  <2>1. \A j \in 1 .. Len(s) : s[j] \in 1 .. i /\ s[j] \in 1 .. i + 1
    BY ElementOfSeq
  <2>2. s \in Z
    BY <2>1, SeqOfMembers
  <2>3. i + 1 \in 1 .. i + 1 /\ i + 1 \notin 1 .. i
    OBVIOUS
  <2> DEFINE u == << i + 1 >>
  <2>4. u \in Z /\ Append(s, i + 1) = s \o u /\ Members(u) = {i + 1} /\ Distinct(u) /\ Len(u) = 1
    BY <2>2, <2>3 DEF Members, Distinct
  <2> HIDE DEF u, Z
  <2>5. Members(s) \subseteq 1 .. i
    BY <2>1 DEF Members
  <2>6. /\ Members(s \o u) = Members(s) \cup Members(u)
        /\ Distinct(s) /\ Distinct(u) /\ Members(s) \cap Members(u) = {} => Distinct(s \o u)
    BY <2>2, <2>4, ConcatDistinct DEF Z
  <2>7. s \o u \in Z /\ Len(s \o u) = Len(s) + Len(u)
    BY <2>2, <2>4, ConcatProperties DEF Z
  <2>8. Members(s) \cap Members(u) = {}
    BY <2>3, <2>4, <2>5
  <2> QED BY <2>2, <2>4, <2>5, <2>6, <2>7, <2>8
<1>4. /\ new \in [1 .. k -> Z] /\ new[p] = Append(now[p], i + 1)
      /\ \A q \in 1 .. k : q # p => new[q] = now[q]
  <2> HIDE DEF Y, Z
  <2>1. new = [q \in 1 .. k |-> IF q = p THEN Append(now[p], i + 1) ELSE now[q]]
    BY <1>2 DEF Joins
  <2> QED BY <1>2, <1>3, <2>1
<1>5. new \in Seq(Z) /\ Len(new) = k
  <2> HIDE DEF Z
  <2>1. new \in [1 .. k -> Z]
    BY <1>4
  <2> QED BY <2>1, FunctionIsSeq, Zenon
<1>6. ASSUME NEW q \in 1 .. k
      PROVE  /\ Distinct(new[q]) /\ Members(now[q]) \subseteq 1 .. i
             /\ q = p => Members(new[q]) = Members(now[p]) \cup {i + 1}
             /\ q # p => Members(new[q]) = Members(now[q])
  <2> HIDE DEF Y, Z
  <2>1. now[q] \in Y /\ Distinct(now[q])
    BY <1>1, <1>2
  <2>2. CASE q = p
    BY <1>3, <1>4, <2>1, <2>2
  <2>3. CASE q # p
    BY <1>3, <1>4, <2>1, <2>3
  <2> QED BY <2>2, <2>3
<1>7. i + 1 \notin 1 .. i /\ \A x \in 1 .. i + 1 : x = i + 1 \/ x \in 1 .. i
  OBVIOUS
<1>8. ASSUME NEW q \in 1 .. k, NEW r \in 1 .. k, q # r
      PROVE  Members(new[q]) \cap Members(new[r]) = {}
  <2>1. Members(now[q]) \cap Members(now[r]) = {}
    BY <1>1, <1>8
  <2>2. i + 1 \notin Members(now[q]) /\ i + 1 \notin Members(now[r])
    BY <1>6, <1>7
  <2>3. CASE q = p
    <3>1. Members(new[q]) = Members(now[q]) \cup {i + 1} /\ Members(new[r]) = Members(now[r])
      BY <1>6, <1>8, <2>3
    <3> QED BY <2>1, <2>2, <3>1
  <2>4. CASE r = p
    <3>1. Members(new[r]) = Members(now[r]) \cup {i + 1} /\ Members(new[q]) = Members(now[q])
      BY <1>6, <1>8, <2>4
    <3> QED BY <2>1, <2>2, <3>1
  <2>5. CASE q # p /\ r # p
    <3>1. Members(new[r]) = Members(now[r]) /\ Members(new[q]) = Members(now[q])
      BY <1>6, <2>5
    <3> QED BY <2>1, <3>1
  <2> QED BY <2>3, <2>4, <2>5
<1>9. ASSUME NEW x \in 1 .. i + 1 PROVE \E q \in 1 .. k : x \in Members(new[q])
  <2>1. CASE x = i + 1
    BY <1>6, <2>1
  <2>2. CASE x \in 1 .. i
    <3>1. PICK q \in 1 .. k : x \in Members(now[q])
      BY <1>1, <2>2
    <3> QED BY <1>6, <3>1
  <2> QED BY <1>7, <2>1, <2>2
<1>10. ExactParts(new, 1 .. i + 1)
  BY <1>5, <1>6, <1>8, <1>9 DEF ExactParts
<1>11. Len(new[p]) = Len(now[p]) + 1
  BY <1>2, <1>3, <1>4
<1> QED BY <1>4, <1>5, <1>10, <1>11 DEF HasJoined

(* The first of the smallest parts exists.                                 *)
LEMMA SmallestExists ==
  ASSUME NEW k \in Nat, k > 0, NEW load, \A p \in 1 .. k : load[p] \in Nat
  PROVE  \E p \in 1 .. k : \A q \in 1 .. k :
           load[p] < load[q] \/ (load[p] = load[q] /\ p <= q)
<1> DEFINE S == {load[p] : p \in 1 .. k}
<1>1. S \in SUBSET Nat /\ S # {}
  <2>1. 1 \in 1 .. k
    OBVIOUS
  <2> QED BY <2>1
<1>2. PICK x \in S : \A y \in S : x <= y
  BY <1>1, LeastElement
<1> DEFINE J == {p \in 1 .. k : load[p] = x}
<1>3. J \in SUBSET Nat /\ J # {}
  OBVIOUS
<1>4. PICK p \in J : \A q \in J : p <= q
  BY <1>3, LeastElement
<1>5. ASSUME NEW q \in 1 .. k PROVE load[p] < load[q] \/ (load[p] = load[q] /\ p <= q)
  <2>1. load[p] = x /\ x <= load[q] /\ x \in Nat /\ load[q] \in Nat
    BY <1>1, <1>2
  <2>2. CASE load[q] = x
    <3>1. q \in J
      BY <2>2
    <3> QED BY <1>4, <2>1, <2>2, <3>1
  <2>3. CASE load[q] # x
    BY <2>1, <2>3
  <2> QED BY <2>2, <2>3
<1> QED BY <1>5

(* A load is the work of the part and the bias for each of its rows.       *)
LEMMA LoadIs ==
  ASSUME NEW work, Works(work), NEW part \in Seq(1 .. Len(work)), NEW b \in Nat
  PROVE  SumSeq([i \in DOMAIN part |-> work[part[i]] + b]) = PartWork(work, part) + Len(part) * b
<1> DEFINE s == Through(part, work)
           t == [i \in 1 .. Len(s) |-> s[i] + b]
<1>1. s \in Seq(Int) /\ Len(s) = Len(part)
  BY WorkOfParts
<1>2. DOMAIN part = 1 .. Len(part)
  BY LenProperties
<1>3. \A i \in 1 .. Len(part) : s[i] = work[part[i]]
  BY DEF Through
<1>4. [i \in DOMAIN part |-> work[part[i]] + b] = t
  <2> HIDE DEF s
  <2> QED BY <1>1, <1>2, <1>3
<1>5. SumSeq(t) = SumSeq(s) + Len(s) * b
  <2> HIDE DEF s
  <2>1. b \in Int
    OBVIOUS
  <2> QED BY <1>1, <2>1, SumShifted
<1>6. PartWork(work, part) = SumSeq(s)
  BY PartWorkIs
<1> QED BY <1>1, <1>4, <1>5, <1>6

(* With a bias above its work, a longer part is heavier.                   *)
LEMMA LongerIsHeavier ==
  ASSUME NEW y \in Nat, NEW z \in Nat, NEW m \in Nat, NEW n \in Nat, NEW d \in Nat,
         z < d, y + m * d <= z + n * d
  PROVE  m <= n
<1> SUFFICES ASSUME n + 1 <= m PROVE FALSE
  OBVIOUS
<1> DEFINE f == m * d
           e == n * d
<1>1. (n + 1) * d <= m * d
  <2>1. \A a, b, x \in Nat : a <= b => a * x <= b * x
    OBVIOUS
  <2>2. n + 1 \in Nat
    OBVIOUS
  <2> QED BY <2>1, <2>2
<1>2. (n + 1) * d = n * d + d /\ n * d \in Nat /\ m * d \in Nat
  OBVIOUS
<1>3. e \in Nat /\ f \in Nat /\ e + d <= f /\ y + f <= z + e
  BY <1>1, <1>2
<1> HIDE DEF e, f
<1> QED BY <1>3

(* What holds after the first i rows: they are divided; without a bias no  *)
(* part has more work than another by more than w; the bias, more than the *)
(* work of all rows, keeps their lengths equal up to one.                  *)
GreedySoFar(now, i, k, work, w, c, equal_size) ==
  /\ Len(now) = k /\ ExactParts(now, 1 .. i)
  /\ ~ equal_size =>
       \A p, q \in 1 .. k : /\ PartWork(work, now[p]) - PartWork(work, now[q]) <= w
                            /\ now[p] = << >> => Len(now[q]) <= 1
  /\ equal_size =>
       \A p, q \in 1 .. k : /\ PartWork(work, now[p]) <= c[i]
                            /\ Len(now[p]) <= Len(now[q]) + 1

LEMMA GreedyStep ==
  ASSUME NEW k \in Nat, k > 0, NEW work, Works(work),
         NEW w \in Nat, \A i \in 1 .. Len(work) : work[i] <= w,
         NEW c, Sums(c, work), NEW equal_size \in BOOLEAN,
         NEW b, b = (IF equal_size THEN c[Len(work)] + 1 ELSE 0),
         NEW i \in 0 .. Len(work) - 1, NEW now, GreedySoFar(now, i, k, work, w, c, equal_size),
         NEW p \in 1 .. k,
         \A q \in 1 .. k : PartWork(work, now[p]) + Len(now[p]) * b
                             <= PartWork(work, now[q]) + Len(now[q]) * b,
         NEW new, Joins(new, now, p, i + 1)
  PROVE  GreedySoFar(new, i + 1, k, work, w, c, equal_size)
<1> DEFINE N == Len(work)
           x(q) == PartWork(work, now[q])
           l(q) == Len(now[q])
           r == work[i + 1]
<1>1. N \in Nat /\ i \in Nat /\ i + 1 \in 1 .. N /\ i \in 0 .. N /\ i + 1 \in 0 .. N /\ N \in 0 .. N
  <2>1. N \in Nat
    BY LenProperties DEF Works
  <2> QED BY <2>1
<1>2. Len(now) = k /\ ExactParts(now, 1 .. i)
  BY DEF GreedySoFar
<1>3. /\ Len(new) = k /\ ExactParts(new, 1 .. i + 1)
      /\ new[p] = Append(now[p], i + 1) /\ Len(new[p]) = Len(now[p]) + 1
      /\ \A q \in 1 .. k : q # p => new[q] = now[q]
  <2>1. HasJoined(new, now, p, i, k)
    BY <1>1, <1>2, ExactAppend
  <2> QED BY <2>1 DEF HasJoined
<1>4. ASSUME NEW q \in 1 .. k
      PROVE  /\ now[q] \in Seq(1 .. N) /\ x(q) \in Nat /\ l(q) \in Nat
             /\ (l(q) = 0 <=> now[q] = << >>)
             /\ (l(q) = 0 <=> x(q) = 0)
  <2>1. now[q] \in Seq(1 .. i)
    BY <1>1, <1>2, PartsLength
  <2>2. \A j \in 1 .. Len(now[q]) : now[q][j] \in 1 .. N
    <3>1. \A j \in 1 .. Len(now[q]) : now[q][j] \in 1 .. i
      BY <2>1, ElementOfSeq
    <3> QED BY <1>1, <3>1
  <2>3. now[q] \in Seq(1 .. N)
    BY <2>1, <2>2, SeqOfMembers
  <2>4. l(q) \in Nat /\ (l(q) = 0 <=> now[q] = << >>)
    BY <2>1, LenProperties, EmptySeq
  <2> QED BY <2>3, <2>4, WorkOfParts
<1>5. r \in Nat \ {0} /\ r <= w
  BY <1>1, ElementOfSeq DEF Works
<1>6. PartWork(work, new[p]) = x(p) + r
  <2>1. now[p] \in Seq(1 .. N) /\ i + 1 \in 1 .. N
    BY <1>1, <1>4
  <2>2. PartWork(work, Append(now[p], i + 1)) = PartWork(work, now[p]) + work[i + 1]
    BY <2>1, WorkAppend
  <2> QED BY <1>3, <2>2
<1>7. \A q \in 1 .. k : q # p => PartWork(work, new[q]) = x(q) /\ Len(new[q]) = l(q)
                                 /\ new[q] = now[q]
  BY <1>3
<1>8. Len(new[p]) = l(p) + 1 /\ new[p] # << >>
  <2>1. Len(new[p]) = l(p) + 1
    BY <1>3
  <2>2. l(p) + 1 # 0
    BY <1>4
  <2>3. new[p] = << >> => Len(new[p]) = 0
    OBVIOUS
  <2> QED BY <2>1, <2>2, <2>3
<1> DEFINE nx(q) == PartWork(work, new[q])
           nl(q) == Len(new[q])
<1>9. ASSUME NEW q \in 1 .. k
      PROVE  /\ x(q) \in Nat /\ l(q) \in Nat /\ (l(q) = 0 <=> x(q) = 0)
             /\ nx(q) = (IF q = p THEN x(p) + r ELSE x(q))
             /\ nl(q) = (IF q = p THEN l(p) + 1 ELSE l(q))
             /\ (new[q] = << >> => q # p /\ now[q] = << >> /\ l(q) = 0)
  <2>1. x(q) \in Nat /\ l(q) \in Nat /\ (l(q) = 0 <=> x(q) = 0)
    BY <1>4
  <2>2. CASE q = p
    BY <1>6, <1>8, <2>1, <2>2
  <2>3. CASE q # p
    BY <1>4, <1>7, <2>1, <2>3
  <2> QED BY <2>1, <2>2, <2>3
<1> HIDE DEF x, l, r, nx, nl
<1>10. ASSUME ~ equal_size, NEW q1 \in 1 .. k, NEW q2 \in 1 .. k
       PROVE  /\ nx(q1) - nx(q2) <= w
              /\ new[q1] = << >> => nl(q2) <= 1
  <2>1. \A q \in 1 .. k : x(p) <= x(q)
    <3>1. ASSUME NEW q \in 1 .. k PROVE x(p) <= x(q)
      <4>1. x(p) + l(p) * 0 <= x(q) + l(q) * 0
        BY <1>10 DEF x, l
      <4>2. \A a \in Nat : a * 0 = 0
        OBVIOUS
      <4> QED BY <1>9, <4>1, <4>2
    <3> QED BY <3>1
  <2>2. /\ x(q1) - x(q2) <= w
        /\ now[q1] = << >> => l(q2) <= 1
    BY <1>10, Zenon DEF GreedySoFar, x, l
  <2>3. nx(q1) - nx(q2) <= w
    <3>1. /\ x(q1) \in Nat /\ x(q2) \in Nat /\ x(p) \in Nat /\ x(p) <= x(q1) /\ x(p) <= x(q2)
          /\ nx(q1) = IF q1 = p THEN x(p) + r ELSE x(q1)
          /\ nx(q2) = IF q2 = p THEN x(p) + r ELSE x(q2)
      BY <1>9, <2>1
    <3>2. r \in Nat /\ r <= w /\ w \in Nat /\ x(q1) - x(q2) <= w
      BY <1>5, <2>2
    <3> QED BY <3>1, <3>2
  <2>4. ASSUME new[q1] = << >> PROVE nl(q2) <= 1
    <3>1. q1 # p /\ now[q1] = << >> /\ l(q1) = 0
      BY <1>9, <2>4
    <3>2. l(p) = 0
      <4>1. x(q1) = 0 /\ x(p) \in Nat /\ x(p) <= x(q1)
        BY <1>9, <2>1, <3>1
      <4>2. x(p) = 0
        BY <4>1
      <4> QED BY <1>9, <4>2
    <3>3. nl(q2) = IF q2 = p THEN l(p) + 1 ELSE l(q2)
      BY <1>9
    <3>4. l(q2) <= 1
      BY <2>2, <3>1
    <3> QED BY <3>2, <3>3, <3>4
  <2> QED BY <2>3, <2>4
<1>11. ASSUME equal_size, NEW q1 \in 1 .. k, NEW q2 \in 1 .. k
       PROVE  nx(q1) <= c[i + 1] /\ nl(q1) <= nl(q2) + 1
  <2>1. \A q \in 1 .. k : x(q) <= c[i] /\ \A s \in 1 .. k : l(q) <= l(s) + 1
    BY <1>11, Zenon DEF GreedySoFar, x, l
  <2>2. c[i + 1] = c[i] + r /\ c[i] \in Nat /\ c[i] <= c[N] /\ c[N] \in Nat
    <3>1. c[i + 1] = c[(i + 1) - 1] + r
      BY <1>1, Zenon DEF Sums, r
    <3>2. (i + 1) - 1 = i
      BY <1>1
    <3>3. \A j \in 0 .. N : c[j] \in Nat /\ c[j] <= c[N]
      BY SumsRise
    <3> QED BY <1>1, <3>1, <3>2, <3>3
  <2>3. b = c[N] + 1
    BY <1>11
  <2>4. ASSUME NEW q \in 1 .. k PROVE l(p) <= l(q)
    <3>1. x(p) + l(p) * b <= x(q) + l(q) * b
      BY DEF x, l
    <3>2. x(q) \in Nat /\ x(p) \in Nat /\ l(p) \in Nat /\ l(q) \in Nat
      BY <1>9
    <3>3. x(q) < b /\ b \in Nat
      <4>1. x(q) <= c[i]
        BY <2>1
      <4>2. \A y, z, m \in Nat : y <= z /\ z <= m => y < m + 1 /\ m + 1 \in Nat
        OBVIOUS
      <4> HIDE DEF N
      <4> QED BY <2>2, <2>3, <3>2, <4>1, <4>2
    <3> HIDE DEF N
    <3> QED BY <3>1, <3>2, <3>3, LongerIsHeavier
  <2>5. /\ \A q \in 1 .. k : x(q) \in Nat /\ l(q) \in Nat /\ l(p) <= l(q)
        /\ \A q \in 1 .. k : nx(q) = IF q = p THEN x(p) + r ELSE x(q)
        /\ \A q \in 1 .. k : nl(q) = IF q = p THEN l(p) + 1 ELSE l(q)
    BY <1>9, <2>4
  <2>6. nx(q1) <= c[i + 1]
    <3>1. x(q1) \in Nat /\ x(q1) <= c[i] /\ x(p) \in Nat /\ x(p) <= c[i]
          /\ nx(q1) = IF q1 = p THEN x(p) + r ELSE x(q1)
      BY <2>1, <2>5
    <3> QED BY <1>5, <2>2, <3>1
  <2>7. nl(q1) <= nl(q2) + 1
    <3>1. /\ l(q1) <= l(q2) + 1 /\ l(q1) <= l(p) + 1 /\ l(p) <= l(q2) /\ l(p) <= l(q1)
          /\ l(q1) \in Nat /\ l(q2) \in Nat /\ l(p) \in Nat
          /\ nl(q1) = IF q1 = p THEN l(p) + 1 ELSE l(q1)
          /\ nl(q2) = IF q2 = p THEN l(p) + 1 ELSE l(q2)
      BY <2>1, <2>5
    <3> QED BY <3>1
  <2> QED BY <2>6, <2>7
<1>12. /\ ~ equal_size =>
            \A q1, q2 \in 1 .. k : /\ PartWork(work, new[q1]) - PartWork(work, new[q2]) <= w
                                   /\ new[q1] = << >> => Len(new[q2]) <= 1
       /\ equal_size =>
            \A q1, q2 \in 1 .. k : /\ PartWork(work, new[q1]) <= c[i + 1]
                                   /\ Len(new[q1]) <= Len(new[q2]) + 1
  BY <1>10, <1>11, Zenon DEF nx, nl
<1> QED BY <1>3, <1>12, Zenon DEF GreedySoFar

(* Numbers that differ by one at most are equal if k divides their sum.    *)
LEMMA OneSize ==
  ASSUME NEW k \in Nat \ {0}, NEW t \in Seq(Int), Len(t) = k, SumSeq(t) % k = 0,
         \A p, q \in 1 .. k : t[p] <= t[q] + 1
  PROVE  \A p, q \in 1 .. k : t[p] = t[q]
<1>1. \A p \in 1 .. k : t[p] \in Int
  BY ElementOfSeq
<1>2. ASSUME NEW p \in 1 .. k, NEW q \in 1 .. k PROVE t[p] <= t[q]
  <2> SUFFICES ASSUME t[q] < t[p] PROVE FALSE
    BY <1>1
  <2> DEFINE a == t[q]
             s == SumSeq(t)
  <2>1. a \in Int /\ a + 1 \in Int /\ t[p] = a + 1 /\ a < a + 1
    BY <1>1
  <2>2. \A r \in 1 .. Len(t) : t[r] >= a /\ t[r] <= a + 1
    <3>1. \A r \in 1 .. k : t[p] <= t[r] + 1 /\ t[r] <= t[q] + 1 /\ t[r] \in Int
      BY <1>1
    <3> QED BY <2>1, <3>1
  <2>3. (\E r \in 1 .. Len(t) : t[r] > a) /\ (\E r \in 1 .. Len(t) : t[r] < a + 1)
    <3>1. p \in 1 .. Len(t) /\ q \in 1 .. Len(t) /\ t[p] > a /\ t[q] < a + 1
      BY <2>1
    <3> QED BY <3>1
  <2> HIDE DEF a
  <2>4. s > Len(t) * a
    BY <2>1, <2>2, <2>3, SumAbove
  <2>5. s < Len(t) * (a + 1) /\ s \in Int
    BY <2>1, <2>2, <2>3, SumBelow
  <2> HIDE DEF s
  <2> DEFINE c == s \div k
  <2>6. c \in Int /\ s = k * c
    <3>1. \A x \in Int : (x \div k) \in Int /\ x = k * (x \div k) + (x % k)
      OBVIOUS
    <3>2. s % k = 0
      BY DEF s
    <3>3. c \in Int /\ s = k * c + (s % k)
      BY <2>5, <3>1
    <3>4. k * c \in Int
      BY <3>3
    <3> QED BY <3>2, <3>3, <3>4
  <2> HIDE DEF c
  <2>7. k * a < k * c /\ k * c < k * (a + 1)
    BY <2>4, <2>5, <2>6
  <2>8. \A x, y \in Int : k * x < k * y => x < y
    <3>1. \A x, y \in Int : y <= x => k * y <= k * x
      OBVIOUS
    <3> QED BY <3>1
  <2>9. a < c /\ c < a + 1
    BY <2>1, <2>6, <2>7, <2>8
  <2> QED BY <2>1, <2>6, <2>9
<1>3. ASSUME NEW p \in 1 .. k, NEW q \in 1 .. k PROVE t[p] = t[q]
  <2>1. t[p] <= t[q] /\ t[q] <= t[p] /\ t[p] \in Int /\ t[q] \in Int
    BY <1>1, <1>2
  <2> QED BY <2>1
<1> QED BY <1>3

(* Nothing has been divided yet.                                           *)
LEMMA GreedyStart ==
  ASSUME NEW k \in Nat, k > 0, NEW work, Works(work), NEW w \in Nat,
         NEW c, Sums(c, work), NEW equal_size \in BOOLEAN, NEW e, e = [p \in 1 .. k |-> << >>]
  PROVE  GreedySoFar(e, 0, k, work, w, c, equal_size)
<1>1. Len(work) \in Nat /\ c[0] = 0
  BY LenProperties DEF Works, Sums
<1> DEFINE Y == Seq({})
<1>2. << >> \in Y /\ Len(<< >>) = 0 /\ << >> \in Seq(1 .. Len(work))
  OBVIOUS
<1>3. PartWork(work, << >>) = 0
  BY <1>2, WorkOfParts, Zenon
<1>4. e \in [1 .. k -> Y] /\ \A p \in 1 .. k : e[p] = << >>
  <2> HIDE DEF Y
  <2> QED BY <1>2
<1>5. e \in Seq(Y) /\ Len(e) = k
  <2> HIDE DEF Y
  <2>1. e \in [1 .. k -> Y]
    BY <1>4
  <2> QED BY <2>1, FunctionIsSeq, Zenon
<1>6. Members(<< >>) = {} /\ Distinct(<< >>) /\ 1 .. 0 = {}
  BY DEF Members, Distinct
<1>7. ExactParts(e, {})
  BY <1>4, <1>5, <1>6 DEF ExactParts
<1>8. \A p, q \in 1 .. k : /\ PartWork(work, e[p]) - PartWork(work, e[q]) <= w
                           /\ PartWork(work, e[p]) <= c[0]
                           /\ Len(e[p]) <= Len(e[q]) + 1 /\ Len(e[p]) <= 1
  <2> SUFFICES ASSUME NEW p \in 1 .. k, NEW q \in 1 .. k
               PROVE  /\ PartWork(work, e[p]) - PartWork(work, e[q]) <= w
                      /\ PartWork(work, e[p]) <= c[0]
                      /\ Len(e[p]) <= Len(e[q]) + 1 /\ Len(e[p]) <= 1
    OBVIOUS
  <2>1. PartWork(work, e[p]) = 0 /\ PartWork(work, e[q]) = 0 /\ Len(e[p]) = 0 /\ Len(e[q]) = 0
    BY <1>2, <1>3, <1>4
  <2> QED BY <1>1, <2>1
<1> QED BY <1>5, <1>6, <1>7, <1>8 DEF GreedySoFar

(* greedy_partition divides the rows, one after the other.                 *)
LEMMA GreedyFinal ==
  ASSUME NEW k \in Nat, k > 0, NEW work, Works(work),
         NEW w \in Nat, \A i \in 1 .. Len(work) : work[i] <= w,
         NEW c, Sums(c, work), SumSeq(work) = c[Len(work)], NEW equal_size \in BOOLEAN
  PROVE  GreedySoFar(GreedyPartition(work, k, equal_size), Len(work), k, work, w, c, equal_size)
<1> DEFINE N == Len(work)
           bias == IF equal_size THEN SumSeq(work) + 1 ELSE 0
           Load(part) == SumSeq([i \in DOMAIN part |-> work[part[i]] + bias])
           Smallest(now) ==
             CHOOSE p \in 1 .. k : \A q \in 1 .. k :
               \/ Load(now[p]) < Load(now[q])
               \/ Load(now[p]) = Load(now[q]) /\ p <= q
           empty == [p \in 1 .. k |-> << >>]
           After(now, i) == [now EXCEPT ![Smallest(now)] = Append(@, i)]
           step(h) == [i \in 0 .. N |-> IF i = 0 THEN empty ELSE After(h[i - 1], i)]
           parts == CHOOSE h : h = step(h)
           Y == Seq(1 .. N)
           T == [1 .. k -> Y]
           F == [i \in 1 .. N |-> [now \in T |-> After(now, i)]]
           Good(now, i) == GreedySoFar(now, i, k, work, w, c, equal_size)
<1>1. N \in Nat /\ \A i \in 0 .. N : c[i] \in Nat /\ c[i] <= c[N]
  BY SumsRise, LenProperties DEF Works
<1>2. GreedyPartition(work, k, equal_size) = parts[N]
  BY Zenon DEF GreedyPartition
<1>3. bias \in Nat /\ bias = (IF equal_size THEN c[N] + 1 ELSE 0)
  BY <1>1
<1> HIDE DEF bias
<1>4. ASSUME NEW part \in Seq(1 .. N)
      PROVE  Load(part) = PartWork(work, part) + Len(part) * bias /\ Load(part) \in Nat
  <2>1. Load(part) = PartWork(work, part) + Len(part) * bias
    BY <1>3, LoadIs
  <2>2. PartWork(work, part) \in Nat /\ Len(part) \in Nat
    BY WorkOfParts, LenProperties
  <2>3. \A a, b \in Nat : a * b \in Nat
    OBVIOUS
  <2>4. Len(part) * bias \in Nat
    BY <1>3, <2>2, <2>3
  <2> HIDE DEF Load
  <2> QED BY <2>1, <2>2, <2>4
<1> HIDE DEF Load
<1>5. ASSUME NEW now, \A p \in 1 .. k : now[p] \in Y
      PROVE  /\ Smallest(now) \in 1 .. k
             /\ \A q \in 1 .. k : Load(now[Smallest(now)]) <= Load(now[q])
  <2> DEFINE load == [p \in 1 .. k |-> Load(now[p])]
  <2>1. \A p \in 1 .. k : load[p] \in Nat /\ load[p] = Load(now[p])
    BY <1>4, <1>5
  <2> HIDE DEF load
  <2>2. PICK p \in 1 .. k : \A q \in 1 .. k :
          load[p] < load[q] \/ (load[p] = load[q] /\ p <= q)
    BY <2>1, SmallestExists
  <2>3. \A q \in 1 .. k : \/ Load(now[p]) < Load(now[q])
                          \/ Load(now[p]) = Load(now[q]) /\ p <= q
    BY <2>1, <2>2
  <2>4. /\ Smallest(now) \in 1 .. k
        /\ \A q \in 1 .. k : \/ Load(now[Smallest(now)]) < Load(now[q])
                             \/ Load(now[Smallest(now)]) = Load(now[q]) /\ Smallest(now) <= q
    BY <2>3, Zenon
  <2> DEFINE m == Smallest(now)
  <2> HIDE DEF Smallest
  <2>5. ASSUME NEW q \in 1 .. k PROVE Load(now[m]) <= Load(now[q])
    <3>1. Load(now[m]) \in Nat /\ Load(now[q]) \in Nat
      BY <2>1, <2>4
    <3> QED BY <2>4, <3>1
  <2> QED BY <2>4, <2>5
<1> HIDE DEF Smallest, empty
<1>6. empty \in T /\ empty = [p \in 1 .. k |-> << >>]
  BY DEF empty
<1>7. ASSUME NEW now \in T, NEW i \in 1 .. N PROVE After(now, i) \in T
  <2>1. Smallest(now) \in 1 .. k
    BY <1>5
  <2> DEFINE m == Smallest(now)
  <2>2. now[m] \in Seq(1 .. N)
    BY <2>1
  <2>3. Append(now[m], i) \in Y
    BY <2>2
  <2> HIDE DEF m, Y
  <2>4. [now EXCEPT ![m] = Append(@, i)] \in T
    BY <2>1, <2>3 DEF m
  <2> QED BY <2>4 DEF m
<1> HIDE DEF After
<1>8. Steps(T, N, F)
  <2> HIDE DEF T, N
  <2>1. ASSUME NEW i \in 1 .. N PROVE [now \in T |-> After(now, i)] \in [T -> T]
    BY <1>7
  <2> QED BY <1>1, <2>1 DEF Steps
<1>9. \A i \in 1 .. N, now \in T : F[i][now] = After(now, i)
  BY Zenon
<1> HIDE DEF F, T
<1>10. PICK g : Follows(g, empty, T, N, F)
  BY <1>6, <1>8, Recursion
<1>11. /\ g \in [0 .. N -> T] /\ g[0] = empty
       /\ \A i \in 1 .. N : g[i] = After(g[i - 1], i)
  <2>1. \A i \in 1 .. N : i - 1 \in 0 .. N
    BY <1>1
  <2>2. /\ g \in [0 .. N -> T] /\ g[0] = empty
        /\ \A i \in 1 .. N : g[i] = F[i][g[i - 1]]
    BY <1>10 DEF Follows
  <2> HIDE DEF N
  <2>3. ASSUME NEW i \in 1 .. N PROVE g[i] = After(g[i - 1], i)
    <3>1. g[i - 1] \in T
      BY <2>1, <2>2
    <3> QED BY <1>9, <2>2, <3>1
  <2> QED BY <2>2, <2>3
<1> HIDE DEF N
<1>12. g = step(g)
  BY <1>1, <1>11
<1>13. parts = step(parts)
  BY <1>12, Zenon
<1> HIDE DEF parts
<1>14. parts[0] = empty /\ \A i \in 1 .. N : parts[i] = After(parts[i - 1], i)
  BY <1>1, <1>13
<1> DEFINE I == {i \in 0 .. N : Good(parts[i], i)}
<1>15. 0 \in I
  <2>1. Good(empty, 0)
    BY <1>6, GreedyStart
  <2> HIDE DEF Good
  <2> QED BY <1>1, <1>14, <2>1
<1>16. ASSUME NEW i \in 0 .. N - 1, i \in I PROVE i + 1 \in I
  <2> DEFINE now == parts[i]
             new == parts[i + 1]
             m == Smallest(now)
  <2>1. i + 1 \in 1 .. N /\ (i + 1) - 1 = i /\ i + 1 \in 0 .. N /\ i \in Nat /\ i <= N
    BY <1>1
  <2>2. new = After(now, i + 1)
    BY <1>14, <2>1
  <2>3. Good(now, i)
    BY <1>16
  <2> HIDE DEF now, new
  <2>4. ASSUME NEW q \in 1 .. k PROVE now[q] \in Y
    <3>1. Len(now) = k /\ ExactParts(now, 1 .. i)
      BY <2>3 DEF GreedySoFar
    <3>2. now[q] \in Seq(1 .. i)
      BY <2>1, <3>1, PartsLength
    <3>3. \A j \in 1 .. Len(now[q]) : now[q][j] \in 1 .. N
      <4>1. \A j \in 1 .. Len(now[q]) : now[q][j] \in 1 .. i
        BY <3>2, ElementOfSeq
      <4> QED BY <1>1, <2>1, <4>1
    <3> QED BY <3>2, <3>3, SeqOfMembers
  <2>5. m \in 1 .. k /\ \A q \in 1 .. k : Load(now[m]) <= Load(now[q])
    BY <1>5, <2>4
  <2> HIDE DEF m
  <2>6. \A q \in 1 .. k : PartWork(work, now[m]) + Len(now[m]) * bias
                            <= PartWork(work, now[q]) + Len(now[q]) * bias
    <3>1. \A q \in 1 .. k : Load(now[q]) = PartWork(work, now[q]) + Len(now[q]) * bias
      BY <1>4, <2>4
    <3> QED BY <2>5, <3>1
  <2>7. Joins(new, now, m, i + 1)
    BY <2>2 DEF Joins, After, m
  <2>8. bias = (IF equal_size THEN c[Len(work)] + 1 ELSE 0) /\ i \in 0 .. Len(work) - 1
    BY <1>3 DEF N
  <2>9. Good(new, i + 1)
    BY <2>3, <2>5, <2>6, <2>7, <2>8, GreedyStep
  <2> HIDE DEF Good
  <2> QED BY <2>1, <2>9 DEF new
<1>17. N \in I
  <2> HIDE DEF I
  <2> QED BY <1>1, <1>15, <1>16, Induction
<1> QED BY <1>2, <1>17 DEF N

(* The parts are fair: without equal_size up to one row's work, with it of *)
(* one size.                                                               *)
LEMMA GreedyFair ==
  ASSUME NEW k \in Nat, k > 0, NEW work, Works(work),
         NEW w \in Nat, \A i \in 1 .. Len(work) : work[i] <= w,
         NEW equal_size \in BOOLEAN, equal_size => Len(work) % k = 0
  PROVE  FairParts(GreedyPartition(work, k, equal_size), k, work,
                   IF equal_size THEN SumSeq(work) ELSE w, equal_size)
<1> DEFINE N == Len(work)
           parts == GreedyPartition(work, k, equal_size)
           l(p) == Len(parts[p])
           x(p) == PartWork(work, parts[p])
<1>1. work \in Seq(Int) /\ N \in Nat
  BY LenProperties, ElementOfSeq, SeqOfMembers DEF Works
<1>2. PICK c : Sums(c, work) /\ SumSeq(work) = c[N]
  BY <1>1, SumBySums
<1>3. c[N] \in Nat
  BY <1>1, <1>2, SumsRise
<1>4. GreedySoFar(parts, N, k, work, w, c, equal_size)
  BY <1>2, GreedyFinal
<1> HIDE DEF parts
<1>5. /\ Len(parts) = k /\ ExactParts(parts, 1 .. N)
      /\ ~ equal_size =>
           \A p, q \in 1 .. k : /\ PartWork(work, parts[p]) - PartWork(work, parts[q]) <= w
                                /\ parts[p] = << >> => Len(parts[q]) <= 1
      /\ equal_size =>
           \A p, q \in 1 .. k : /\ PartWork(work, parts[p]) <= c[N]
                                /\ Len(parts[p]) <= Len(parts[q]) + 1
  BY <1>4, Zenon DEF GreedySoFar
<1>6. ASSUME ~ equal_size PROVE FairParts(parts, k, work, w, equal_size)
  <2>1. equal_size = FALSE
    BY <1>6
  <2>2. /\ \A p, q \in 1 .. k : PartWork(work, parts[p]) - PartWork(work, parts[q]) <= w
        /\ \A p, q \in 1 .. k : parts[p] = << >> => Len(parts[q]) <= 1
    <3> HIDE DEF N
    <3> QED BY <1>5, <1>6, Zenon
  <2> QED BY <1>5, <2>1, <2>2, Zenon DEF FairParts, N
<1>7. ASSUME equal_size PROVE FairParts(parts, k, work, c[N], equal_size)
  <2>1. /\ Lens(parts) \in Seq(Int) /\ Len(Lens(parts)) = Len(parts)
        /\ \A p \in 1 .. Len(parts) :
             /\ Lens(parts)[p] = Len(parts[p]) /\ parts[p] \in Seq(1 .. N)
             /\ Len(parts[p]) \in Nat /\ (parts[p] = << >> <=> Len(parts[p]) = 0)
        /\ SumSeq(Lens(parts)) = N
    <3>1. N \in Nat /\ ExactParts(parts, 1 .. N)
      BY <1>1, <1>5
    <3> HIDE DEF N, l, x
    <3>2. /\ parts \in Seq(Seq(1 .. N)) /\ DOMAIN parts = 1 .. Len(parts) /\ Len(parts) \in Nat
          /\ Lens(parts) \in Seq(Int) /\ Len(Lens(parts)) = Len(parts)
          /\ \A p \in 1 .. Len(parts) :
               /\ Lens(parts)[p] = Len(parts[p]) /\ parts[p] \in Seq(1 .. N)
               /\ Len(parts[p]) \in Nat /\ (parts[p] = << >> <=> Len(parts[p]) = 0)
          /\ SumSeq(Lens(parts)) = N
          /\ ToSet(FlattenSeq(parts)) = 1 .. N
      BY <3>1, PartsLength
    <3> HIDE DEF N
    <3> QED BY <3>2
  <2> DEFINE t == Lens(parts)
  <2>2. /\ t \in Seq(Int) /\ Len(t) = k /\ SumSeq(t) = N /\ N % k = 0
        /\ \A p \in 1 .. k : t[p] = l(p)
    BY <1>5, <1>7, <2>1
  <2> HIDE DEF t
  <2>3. \A p, q \in 1 .. k : t[p] <= t[q] + 1
    BY <1>5, <1>7, <2>2
  <2>4. \A p, q \in 1 .. k : t[p] = t[q]
    <3>1. k \in Nat \ {0} /\ SumSeq(t) % k = 0
      BY <2>2
    <3> HIDE DEF N
    <3> QED BY <2>2, <2>3, <3>1, OneSize
  <2>5. \A p, q \in 1 .. k : l(p) = l(q)
    BY <2>2, <2>4
  <2>6. ASSUME NEW p \in 1 .. k
        PROVE  x(p) \in Nat /\ x(p) <= c[N] /\ l(p) \in Nat /\ (parts[p] = << >> <=> l(p) = 0)
    <3>1. parts[p] \in Seq(1 .. N) /\ l(p) \in Nat /\ (parts[p] = << >> <=> l(p) = 0)
      BY <1>5, <2>1
    <3>2. x(p) \in Nat
      BY <3>1, WorkOfParts
    <3> QED BY <1>5, <1>7, <3>1, <3>2
  <2>7. ASSUME NEW p \in 1 .. k, NEW q \in 1 .. k
        PROVE  /\ PartWork(work, parts[p]) - PartWork(work, parts[q]) <= c[N]
               /\ parts[p] = << >> => Len(parts[q]) <= 1
               /\ Len(parts[p]) = Len(parts[q])
    <3>1. /\ x(p) \in Nat /\ x(q) \in Nat /\ x(p) <= c[N]
          /\ l(p) = l(q) /\ (parts[p] = << >> <=> l(p) = 0)
      BY <2>5, <2>6
    <3> HIDE DEF x, l
    <3>2. x(p) - x(q) <= c[N] /\ l(p) = l(q) /\ (parts[p] = << >> => l(q) <= 1)
      BY <1>3, <3>1
    <3> QED BY <3>2 DEF x, l
  <2>8. /\ \A p, q \in 1 .. k : PartWork(work, parts[p]) - PartWork(work, parts[q]) <= c[N]
        /\ \A p, q \in 1 .. k : parts[p] = << >> => Len(parts[q]) <= 1
        /\ \A p, q \in 1 .. k : Len(parts[p]) = Len(parts[q])
    <3> HIDE DEF N
    <3> QED BY <2>7, Zenon
  <2>9. Len(parts) = k /\ ExactParts(parts, 1 .. N)
    BY <1>5
  <2> QED BY <2>8, <2>9, Zenon DEF FairParts, N
<1>8. CASE equal_size
  <2>1. (IF equal_size THEN SumSeq(work) ELSE w) = c[N]
    BY <1>2, <1>8
  <2> HIDE DEF N
  <2> QED BY <1>7, <1>8, <2>1 DEF parts
<1>9. CASE ~ equal_size
  <2>1. (IF equal_size THEN SumSeq(work) ELSE w) = w
    BY <1>9
  <2> QED BY <1>6, <1>9, <2>1 DEF parts
<1> QED BY <1>8, <1>9

-----------------------------------------------------------------------------
(* The order of all rows.                                                  *)

(* _balance_batch puts the light rows of a part at both ends.              *)
LEMMA LightAtEndsRearranges ==
  ASSUME NEW X, NEW s \in Seq(X)
  PROVE  LightAtEnds(s) \in Seq(X) /\ Rearranges(LightAtEnds(s), s, Len(s))
<1> DEFINE n == Len(s)
           half == (n + 1) \div 2
           rest == n \div 2
           a == [i \in 1 .. half |-> s[2 * i - 1]]
           b == [i \in 1 .. rest |-> s[2 * (rest + 1 - i)]]
           t == a \o b
           p == [i \in 1 .. n |-> IF i <= half THEN 2 * i - 1 ELSE 2 * (n + 1 - i)]
           q == [j \in 1 .. n |-> IF j % 2 = 1 THEN (j + 1) \div 2 ELSE n + 1 - (j \div 2)]
<1>1. n \in Nat /\ s \in [1 .. n -> X]
  BY LenProperties
<1>2. LightAtEnds(s) = t
  <2>1. half = CeilDiv(n, 2)
    BY <1>1 DEF CeilDiv
  <2> HIDE DEF half
  <2> QED BY <2>1 DEF LightAtEnds
<1> HIDE DEF n
<1>3. half \in 0 .. n /\ rest = n - half /\ rest \in Nat /\ (n = 2 * half \/ n = 2 * half - 1)
  BY <1>1
<1> HIDE DEF half, rest
<1>4. /\ a \in [1 .. half -> X]
      /\ b \in [1 .. rest -> X]
  <2>1. \A i \in 1 .. half : 2 * i - 1 \in 1 .. n
    BY <1>1, <1>3
  <2>2. \A i \in 1 .. rest : 2 * (rest + 1 - i) \in 1 .. n
    BY <1>1, <1>3
  <2> QED BY <1>1, <2>1, <2>2
<1>5. /\ a \in Seq(X) /\ Len(a) = half
      /\ b \in Seq(X) /\ Len(b) = rest
  <2> HIDE DEF a, b
  <2>1. half \in Nat /\ rest \in Nat
    BY <1>1, <1>3
  <2> QED BY <1>4, <2>1, FunctionIsSeq, Zenon
<1>6. /\ t \in Seq(X) /\ Len(t) = n
      /\ \A i \in 1 .. n : t[i] = IF i <= half THEN a[i] ELSE b[i - half]
  <2> HIDE DEF a, b
  <2>1. /\ t \in Seq(X) /\ Len(t) = Len(a) + Len(b)
        /\ \A i \in 1 .. Len(a) + Len(b) :
             t[i] = IF i <= Len(a) THEN a[i] ELSE b[i - Len(a)]
    BY <1>5, ConcatProperties, Zenon
  <2>2. Len(a) + Len(b) = n
    BY <1>1, <1>3, <1>5
  <2> QED BY <1>5, <2>1, <2>2, Zenon
<1>7. ASSUME NEW i \in 1 .. n PROVE t[i] = s[p[i]]
  <2>1. CASE i <= half
    <3>1. i \in 1 .. half
      BY <1>1, <1>3, <2>1
    <3> QED BY <1>6, <2>1, <3>1
  <2>2. CASE ~ (i <= half)
    <3>1. i - half \in 1 .. rest /\ rest + 1 - (i - half) = n + 1 - i
      BY <1>1, <1>3, <2>2
    <3> QED BY <1>6, <2>2, <3>1
  <2> QED BY <2>1, <2>2
<1>8. ASSUME NEW i \in 1 .. n PROVE p[i] \in 1 .. n /\ q[p[i]] = i
  <2>1. CASE i <= half
    <3>1. p[i] = 2 * i - 1
      BY <2>1
    <3> HIDE DEF p
    <3>2. 2 * i - 1 \in 1 .. n /\ (2 * i - 1) % 2 = 1 /\ ((2 * i - 1) + 1) \div 2 = i
      BY <1>1, <1>3, <2>1
    <3> QED BY <3>1, <3>2
  <2>2. CASE ~ (i <= half)
    <3> DEFINE m == n + 1 - i
    <3>1. m \in 1 .. rest /\ n + 1 - m = i
      BY <1>1, <1>3, <2>2
    <3>2. p[i] = 2 * m
      BY <2>2
    <3> HIDE DEF m, p
    <3>3. 2 * m \in 1 .. n /\ (2 * m) % 2 = 0 /\ (2 * m) \div 2 = m
      BY <1>1, <1>3, <3>1
    <3> QED BY <3>1, <3>2, <3>3
  <2> QED BY <2>1, <2>2
<1>9. ASSUME NEW j \in 1 .. n PROVE q[j] \in 1 .. n /\ p[q[j]] = j
  <2>1. CASE j % 2 = 1
    <3> DEFINE m == (j + 1) \div 2
    <3>1. m \in 1 .. half /\ j = 2 * m - 1
      BY <1>1, <1>3, <2>1
    <3>2. q[j] = m
      BY <2>1
    <3> HIDE DEF m, q
    <3>3. m \in 1 .. n /\ m <= half
      BY <1>1, <1>3, <3>1
    <3> QED BY <3>1, <3>2, <3>3
  <2>2. CASE j % 2 # 1
    <3> DEFINE m == j \div 2
    <3>1. m \in 1 .. rest /\ j = 2 * m
      BY <1>1, <1>3, <2>2
    <3>2. q[j] = n + 1 - m
      BY <2>2
    <3> HIDE DEF m, q
    <3>3. n + 1 - m \in 1 .. n /\ ~ (n + 1 - m <= half) /\ n + 1 - (n + 1 - m) = m
      BY <1>1, <1>3, <3>1
    <3> QED BY <3>1, <3>2, <3>3
  <2> QED BY <2>1, <2>2
<1>10. Permutes(p, q, n)
  <2>1. p \in [1 .. n -> 1 .. n] /\ q \in [1 .. n -> 1 .. n]
    <3>1. p = [i \in 1 .. n |-> p[i]] /\ q = [i \in 1 .. n |-> q[i]]
      OBVIOUS
    <3> HIDE DEF p, q
    <3> QED BY <1>8, <1>9, <3>1
  <2> HIDE DEF p, q
  <2> QED BY <1>8, <1>9, <2>1 DEF Permutes
<1> HIDE DEF t, p, q
<1>11. Rearranges(t, s, n)
  BY <1>6, <1>7, <1>10 DEF Rearranges
<1> QED BY <1>2, <1>6, <1>11 DEF n

(* Sequences of one size lie one behind the other in their concatenation.  *)
LEMMA FlattenSlices ==
  ASSUME NEW X, NEW s \in Seq(Seq(X)), NEW size \in Nat, \A p \in 1 .. Len(s) : Len(s[p]) = size
  PROVE  \A p \in 1 .. Len(s) :
           /\ SubSeq(FlattenSeq(s), (p - 1) * size + 1, p * size) \in Seq(X)
           /\ Members(SubSeq(FlattenSeq(s), (p - 1) * size + 1, p * size)) = Members(s[p])
<1> DEFINE n == Len(s)
           Y == Seq(X)
           flat == FlattenSeq(s)
<1>1. n \in Nat /\ \A p \in 1 .. n : s[p] \in Y /\ Len(s[p]) = size
  <2> HIDE DEF Y
  <2>1. s \in Seq(Y)
    BY DEF Y
  <2> QED BY <2>1, LenProperties, ElementOfSeq
<1>2. PICK f : Concatenations(f, X, n, s) /\ flat = f[n]
  BY FlattenByPrefixes
<1>3. /\ f \in [0 .. n -> Y] /\ f[0] = << >>
      /\ \A m \in 1 .. n : f[m] = f[m - 1] \o s[m]
  BY <1>2 DEF Concatenations
<1> HIDE DEF n, flat
<1> DEFINE Has(m) == /\ Len(f[m]) = m * size
                     /\ \A p \in 1 .. m, x \in 1 .. size : f[m][(p - 1) * size + x] = s[p][x]
           I == {m \in 0 .. n : Has(m)}
<1>4. 0 \in I
  <2>1. 0 * size = 0 /\ Len(<< >>) = 0 /\ 1 .. 0 = {}
    OBVIOUS
  <2> QED BY <1>1, <1>3, <2>1
<1>5. ASSUME NEW m \in 0 .. n - 1, m \in I PROVE m + 1 \in I
  <2>1. m + 1 \in 1 .. n /\ (m + 1) - 1 = m /\ m + 1 \in 0 .. n /\ m \in 0 .. n /\ m \in Nat
    BY <1>1
  <2> DEFINE a == f[m]  b == s[m + 1]
  <2>2. f[m + 1] = a \o b /\ a \in Seq(X) /\ b \in Seq(X) /\ Len(b) = size
    BY <1>1, <1>3, <2>1
  <2>3. Len(a) = m * size /\ \A p \in 1 .. m, x \in 1 .. size : a[(p - 1) * size + x] = s[p][x]
    BY <1>5
  <2> HIDE DEF a
  <2>4. /\ Len(a \o b) = Len(a) + Len(b)
        /\ \A i \in 1 .. Len(a) + Len(b) : (a \o b)[i] = IF i <= Len(a) THEN a[i] ELSE b[i - Len(a)]
    BY <2>2, ConcatProperties
  <2>5. m * size \in Nat /\ (m + 1) * size = m * size + size
    BY <2>1
  <2>6. ASSUME NEW p \in 1 .. m + 1, NEW x \in 1 .. size
        PROVE  (a \o b)[(p - 1) * size + x] = s[p][x]
    <3> DEFINE i == (p - 1) * size + x
               len == m * size
    <3>1. CASE p = m + 1
      <4>1. i = len + x
        BY <2>1, <3>1
      <4>0. len \in Nat
        BY <2>5
      <4> HIDE DEF i, len
      <4>2. i \in 1 .. len + size /\ ~ (i <= len) /\ i - len = x
        BY <4>0, <4>1
      <4>3. (a \o b)[i] = b[i - len]
        BY <2>2, <2>3, <2>4, <4>2 DEF len
      <4> QED BY <3>1, <4>2, <4>3 DEF i
    <3>2. CASE p # m + 1
      <4>1. p \in 1 .. m
        BY <2>1, <3>2
      <4>2. p * size <= len /\ p * size = (p - 1) * size + size /\ (p - 1) * size \in Nat
        <5>1. \A c, d, e \in Nat : c <= d => c * e <= d * e
          OBVIOUS
        <5>2. p \in Nat /\ p <= m /\ m \in Nat /\ p - 1 \in Nat
          BY <2>1, <4>1
        <5>3. \A c \in Nat : c * size \in Nat
          OBVIOUS
        <5>4. \A c \in Int : c * size = (c - 1) * size + size
          OBVIOUS
        <5> QED BY <5>1, <5>2, <5>3, <5>4
      <4>3. i \in 1 .. len /\ len \in Nat
        <5> DEFINE y == (p - 1) * size
        <5>1. y \in Nat /\ y + size <= len /\ i = y + x /\ len \in Nat
          BY <2>5, <4>2
        <5> HIDE DEF y, i, len
        <5> QED BY <5>1
      <4> HIDE DEF i, len
      <4>4. i \in 1 .. len + size /\ i <= len
        BY <4>3
      <4>5. (a \o b)[i] = a[i]
        BY <2>2, <2>3, <2>4, <4>4 DEF len
      <4> QED BY <2>3, <4>1, <4>5 DEF i
    <3> QED BY <3>1, <3>2
  <2>7. Has(m + 1)
    <3>1. Len(f[m + 1]) = (m + 1) * size
      <4> DEFINE y == m * size
      <4>1. Len(a) = y /\ Len(b) = size /\ (m + 1) * size = y + size
        BY <2>2, <2>3, <2>5
      <4>2. Len(f[m + 1]) = Len(a) + Len(b)
        BY <2>2, <2>4
      <4> HIDE DEF y
      <4> QED BY <4>1, <4>2
    <3>2. \A p \in 1 .. m + 1, x \in 1 .. size : f[m + 1][(p - 1) * size + x] = s[p][x]
      <4>1. f[m + 1] = a \o b
        BY <2>2
      <4> HIDE DEF b
      <4> QED BY <2>6, <4>1
    <3> QED BY <3>1, <3>2
  <2> HIDE DEF Has
  <2> QED BY <2>1, <2>7
<1>6. Has(n)
  <2>1. n \in I
    <3> HIDE DEF I
    <3> QED BY <1>1, <1>4, <1>5, Induction
  <2> HIDE DEF Has
  <2> QED BY <2>1
<1>7. flat \in Seq(X) /\ Len(flat) = n * size
      /\ \A p \in 1 .. n, x \in 1 .. size : flat[(p - 1) * size + x] = s[p][x]
  <2>1. flat = f[n] /\ n \in 0 .. n
    BY <1>1, <1>2 DEF n, flat
  <2>2. f[n] \in Seq(X)
    BY <1>3, <2>1
  <2>3. /\ Len(f[n]) = n * size
        /\ \A p \in 1 .. n, x \in 1 .. size : f[n][(p - 1) * size + x] = s[p][x]
    BY <1>6
  <2> QED BY <2>1, <2>2, <2>3
<1> HIDE DEF Has
<1>8. ASSUME NEW p \in 1 .. n
      PROVE  /\ SubSeq(flat, (p - 1) * size + 1, p * size) \in Seq(X)
             /\ Members(SubSeq(flat, (p - 1) * size + 1, p * size)) = Members(s[p])
  <2> DEFINE i == (p - 1) * size
             j == p * size
             u == SubSeq(flat, i + 1, j)
  <2>1. i \in Nat /\ j = i + size /\ j <= n * size /\ n * size \in Nat
    <3>1. \A c, d, e \in Nat : c <= d => c * e <= d * e
      OBVIOUS
    <3>2. p \in Nat /\ p <= n /\ n \in Nat /\ p - 1 \in Nat
      BY <1>1
    <3>3. \A c \in Nat : c * size \in Nat
      OBVIOUS
    <3>4. \A c \in Int : c * size = (c - 1) * size + size
      OBVIOUS
    <3> QED BY <3>1, <3>2, <3>3, <3>4
  <2>2. i \in 0 .. Len(flat) /\ j \in i .. Len(flat) /\ j - i = size
    <3> HIDE DEF i, j
    <3> DEFINE z == n * size
    <3>1. Len(flat) = z /\ z \in Nat /\ j <= z
      BY <1>7, <2>1
    <3> HIDE DEF z
    <3> QED BY <2>1, <3>1
  <2>3. /\ u \in Seq(X) /\ Len(u) = size
        /\ \A x \in 1 .. size : u[x] = flat[i + x]
    <3> HIDE DEF i, j
    <3>1. /\ SubSeq(flat, i + 1, j) \in Seq(X) /\ Len(SubSeq(flat, i + 1, j)) = j - i
          /\ \A x \in 1 .. j - i : SubSeq(flat, i + 1, j)[x] = flat[i + x]
      BY <1>7, <2>2, PartOfSeq
    <3> QED BY <2>2, <3>1
  <2>4. \A x \in 1 .. size : u[x] = s[p][x]
    BY <1>7, <2>3
  <2>5. Len(s[p]) = size
    BY <1>1
  <2> HIDE DEF u
  <2>6. Members(u) = Members(s[p])
    BY <2>3, <2>4, <2>5 DEF Members
  <2> QED BY <2>3, <2>6 DEF u
<1> QED BY <1>8 DEF n, flat

(* What every part has in the order of all rows, one part behind the       *)
(* other: dispatching pieces of the parts' size sends each rank its part.  *)
Slices(order, parts) ==
  \A size \in Nat :
    (\A p \in 1 .. Len(parts) : Len(parts[p]) = size) =>
      \A p \in 1 .. Len(parts) :
        ToSet(SubSeq(order, (p - 1) * size + 1, p * size)) = ToSet(parts[p])
LEMMA BalancedOrderExact ==
  ASSUME NEW n \in Nat, NEW parts, ExactParts(parts, 1 .. n), NEW work
  PROVE  /\ BalancedOrder(work, parts) \in Seq(1 .. n)
         /\ Distinct(BalancedOrder(work, parts))
         /\ Members(BalancedOrder(work, parts)) = 1 .. n
         /\ Slices(BalancedOrder(work, parts), parts)
<1> DEFINE N == 1 .. n
           Y == Seq(N)
           k == Len(parts)
           L(p) == LightFirst(work, parts[p])
           t == [p \in 1 .. k |-> LightAtEnds(L(p))]
<1>1. k \in Nat /\ DOMAIN parts = 1 .. k /\ parts \in Seq(Y)
  <2>1. parts \in Seq(Y)
    BY DEF ExactParts
  <2> HIDE DEF Y
  <2> QED BY <2>1, LenProperties
<1>2. \A p \in 1 .. k : parts[p] \in Y /\ Distinct(parts[p])
  <2>1. \A p \in 1 .. k : Distinct(parts[p])
    BY DEF ExactParts
  <2> HIDE DEF Y
  <2> QED BY <1>1, <2>1, ElementOfSeq
<1>3. BalancedOrder(work, parts) = FlattenSeq(t)
  BY <1>1 DEF BalancedOrder
<1>4. ASSUME NEW p \in 1 .. k
      PROVE  /\ t[p] \in Y /\ Distinct(t[p]) /\ Members(t[p]) = Members(parts[p])
             /\ Len(t[p]) = Len(parts[p])
  <2> DEFINE s == parts[p]
  <2>1. s \in Seq(N) /\ Distinct(s)
    BY <1>2
  <2>2. t[p] = LightAtEnds(L(p))
    OBVIOUS
  <2> HIDE DEF s, N
  <2>3. L(p) \in Seq(N) /\ Rearranges(L(p), s, Len(s))
    BY <2>1, SortedLightFirst DEF s
  <2>4. Members(L(p)) = Members(s) /\ Distinct(L(p))
    BY <2>1, <2>3, RearrangedMembers
  <2> HIDE DEF L, t
  <2>5. LightAtEnds(L(p)) \in Seq(N) /\ Rearranges(LightAtEnds(L(p)), L(p), Len(L(p)))
    BY <2>3, LightAtEndsRearranges
  <2>6. Members(LightAtEnds(L(p))) = Members(L(p)) /\ Distinct(LightAtEnds(L(p)))
    BY <2>3, <2>4, <2>5, RearrangedMembers
  <2>7. Len(LightAtEnds(L(p))) = Len(L(p)) /\ Len(L(p)) = Len(s)
    BY <2>3, <2>5 DEF Rearranges
  <2> QED BY <2>2, <2>4, <2>5, <2>6, <2>7 DEF s
<1>5. t \in Seq(Y) /\ Len(t) = k
  <2>1. t \in [1 .. k -> Y]
    <3>1. t = [p \in 1 .. k |-> t[p]]
      OBVIOUS
    <3> HIDE DEF t, Y
    <3> QED BY <1>4, <3>1
  <2> HIDE DEF t, Y, k
  <2> QED BY <1>1, <2>1, FunctionIsSeq, Zenon
<1>6. ExactParts(t, N)
  <2>1. t \in Seq(Seq(N)) /\ Len(t) = Len(parts)
    BY <1>5
  <2>2. \A i \in 1 .. Len(parts) : Distinct(t[i]) /\ Members(t[i]) = Members(parts[i])
    BY <1>4
  <2> HIDE DEF t
  <2> QED BY <2>1, <2>2, ExactInside
<1> HIDE DEF t
<1>7. /\ FlattenSeq(t) \in Seq(N) /\ Distinct(FlattenSeq(t)) /\ Members(FlattenSeq(t)) = N
  <2> HIDE DEF N
  <2> QED BY <1>6, FlattenExact
<1>8. ASSUME NEW size \in Nat, \A p \in 1 .. k : Len(parts[p]) = size, NEW p \in 1 .. k
      PROVE  ToSet(SubSeq(FlattenSeq(t), (p - 1) * size + 1, p * size)) = ToSet(parts[p])
  <2>1. \A i \in 1 .. Len(t) : Len(t[i]) = size
    BY <1>4, <1>5, <1>8
  <2> DEFINE u == SubSeq(FlattenSeq(t), (p - 1) * size + 1, p * size)
  <2>2. u \in Seq(N) /\ Members(u) = Members(t[p])
    <3>1. t \in Seq(Seq(N)) /\ p \in 1 .. Len(t)
      BY <1>5
    <3> HIDE DEF N
    <3> QED BY <2>1, <3>1, FlattenSlices
  <2> HIDE DEF u
  <2>3. \A v \in Y : ToSet(v) = Members(v)
    BY DEF ToSet, Members
  <2> QED BY <1>2, <1>4, <2>2, <2>3 DEF u
<1>9. Slices(FlattenSeq(t), parts)
  BY <1>8, Zenon DEF Slices
<1> QED BY <1>3, <1>7, <1>9

(* restore_dynamic_batch puts every row back in its own place.             *)
LEMMA RestoredInPlace ==
  ASSUME NEW n \in Nat, NEW order \in Seq(1 .. n), Distinct(order), Members(order) = 1 .. n
  PROVE  /\ DOMAIN RestoreDynamicBatch(order, order) = 1 .. n
         /\ \A i \in 1 .. n : RestoreDynamicBatch(order, order)[i] = i
<1>1. Len(order) = n /\ DOMAIN order = 1 .. n
  BY DistinctLength, FirstNumbers
<1> DEFINE back(i) == CHOOSE j \in DOMAIN order : order[j] = i
           reverse == [i \in DOMAIN order |-> back(i)]
<1>2. RestoreDynamicBatch(order, order) = [i \in 1 .. n |-> order[reverse[i]]]
  BY <1>1 DEF RestoreDynamicBatch
<1>3. ASSUME NEW i \in 1 .. n PROVE order[reverse[i]] = i
  <2>1. \E j \in DOMAIN order : order[j] = i
    BY <1>1 DEF Members
  <2>2. order[back(i)] = i
    BY <2>1
  <2>3. reverse[i] = back(i)
    BY <1>1
  <2> QED BY <2>2, <2>3
<1> HIDE DEF reverse
<1> QED BY <1>2, <1>3

(* Workloads are positive, as lengths are.                                 *)
LEMMA WorkloadsPositive ==
  ASSUME NEW lens \in Seq(Nat \ {0})
  PROVE  Works(Workloads(lens)) /\ Len(Workloads(lens)) = Len(lens)
<1> DEFINE n == Len(lens)
           w == [i \in 1 .. n |-> Workload(lens[i])]
<1>1. n \in Nat /\ DOMAIN lens = 1 .. n /\ \A i \in 1 .. n : lens[i] \in Nat \ {0}
  BY LenProperties, ElementOfSeq
<1>2. \A m \in Nat \ {0} : Workload(m) \in Nat \ {0}
  <2>1. \A m \in Nat \ {0} : m * m \in Nat
    OBVIOUS
  <2> QED BY <2>1 DEF Workload
<1>3. w \in [1 .. n -> Nat \ {0}]
  BY <1>1, <1>2
<1>4. Workloads(lens) = w
  BY <1>1 DEF Workloads
<1> HIDE DEF n, w
<1>5. w \in Seq(Nat \ {0}) /\ Len(w) = n
  BY <1>1, <1>3, FunctionIsSeq, Zenon
<1> QED BY <1>4, <1>5 DEF n, Works

==============================================================================
