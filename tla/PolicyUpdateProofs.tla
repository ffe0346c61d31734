-------------------------- MODULE PolicyUpdateProofs --------------------------
(***************************************************************************)
(* Proofs about PolicyUpdate, for every number of ranks, every batch and   *)
(* every series of failures and relaunches:                                *)
(*   - the ranks of the actor enter the same collectives (LockstepInv),    *)
(*   - their shards of the model take the same steps (ShardInv),           *)
(*   - gradients and log-probabilities are of the rows they are meant to   *)
(*     be of (RowsInv),                                                    *)
(*   - the critic that predicts the baseline of a row has not learned from *)
(*     its batch (CriticInv).                                              *)
(***************************************************************************)
EXTENDS PolicyUpdate, SeqlenBalancingProofs

(* There are ranks, and each belongs to a group.                           *)
LEMMA Sizes ==
  /\ World \in Nat \ {0}
  /\ {DpSize, SpSize, MiniBatch, Epochs, CriticEpochs, MicroBatch, MaxTokens}
       \subseteq Nat \ {0}
  /\ MaxTokens * SpSize \in Nat \ {0}
  /\ World = DpSize * SpSize
  /\ IsFiniteSet(Ranks) /\ 0 \in Ranks
  /\ \A r \in Ranks : r \in Int /\ DpRank(r) \in 0 .. DpSize - 1
<1>1. /\ {DpSize, SpSize, MiniBatch, Epochs, CriticEpochs, MicroBatch, MaxTokens}
           \subseteq Nat \ {0}
  BY UpdateAssumption
<1>2. World \in Nat \ {0} /\ MaxTokens * SpSize \in Nat \ {0} /\ World = DpSize * SpSize
  <2>1. DpSize * SpSize \in Nat \ {0}
    BY <1>1
  <2>2. MaxTokens * SpSize \in Nat \ {0}
    BY <1>1
  <2> QED BY <2>1, <2>2 DEF World
<1>3. IsFiniteSet(Ranks) /\ 0 \in Ranks
  <2> DEFINE w == World - 1
  <2>1. w \in Nat /\ Ranks = 0 .. w
    BY <1>2 DEF Ranks
  <2> HIDE DEF w
  <2>2. IsFiniteSet(0 .. w)
    BY <2>1, FS_Interval
  <2> QED BY <2>1, <2>2
<1>4. ASSUME NEW r \in Ranks PROVE r \in Int /\ DpRank(r) \in 0 .. DpSize - 1
  <2> DEFINE d == r \div SpSize
  <2>1. r \in 0 .. World - 1
    BY DEF Ranks
  <2>2. d \in Int /\ d * SpSize <= r /\ r < (d + 1) * SpSize
    BY <1>1, <1>2, <2>1
  <2> HIDE DEF d
  <2>3. d >= 0
    <3> SUFFICES ASSUME d + 1 <= 0 PROVE FALSE
      BY <2>2
    <3>1. (d + 1) * SpSize <= 0
      <4>1. SpSize \in Nat /\ d + 1 \in Int
        BY <1>1, <2>2
      <4> DEFINE x == d + 1
      <4>2. x \in Int /\ x <= 0
        BY <2>2
      <4> HIDE DEF x
      <4>3. x * SpSize <= 0
        BY <4>1, <4>2
      <4> QED BY <4>3 DEF x
    <3> QED BY <1>1, <2>1, <2>2, <3>1
  <2>4. d < DpSize
    <3> SUFFICES ASSUME d >= DpSize PROVE FALSE
      BY <1>1, <2>2
    <3>1. d * SpSize >= DpSize * SpSize
      BY <1>1, <2>2
    <3>2. d * SpSize >= World
      BY <1>2, <3>1
    <3>3. d * SpSize \in Int
      BY <1>1, <2>2
    <3>4. r \in Int /\ r < World
      BY <1>2, <2>1
    <3>5. d * SpSize <= r
      BY <2>2
    <3> DEFINE p == d * SpSize
    <3> HIDE DEF p
    <3> SUFFICES ASSUME p \in Int, p >= World, p <= r PROVE FALSE
      BY <3>2, <3>3, <3>5 DEF p
    <3> QED BY <1>2, <3>4
  <2> QED BY <1>1, <2>1, <2>2, <2>3, <2>4 DEF DpRank, d
<1> QED BY <1>1, <1>2, <1>3, <1>4

(* Rows that all ranks get as many of.                                     *)
Even(rows, D) == rows \in Seq(D) /\ rows # << >> /\ Len(rows) % World = 0

(* Every rank is sent as many rows, at least one (chunk of the dispatched  *)
(* batch).                                                                 *)
LEMMA ShareShape ==
  ASSUME NEW D, NEW rows, Even(rows, D), NEW r \in Ranks
  PROVE  LET size == Len(rows) \div DpSize
         IN  /\ size \in Nat \ {0} /\ Len(rows) = size * DpSize
             /\ Share(rows, r) \in Seq(D) /\ Share(rows, r) # << >>
             /\ Len(Share(rows, r)) = size
<1> DEFINE size == Len(rows) \div DpSize
           n == Len(rows)
           d == DpRank(r)
           share == Share(rows, r)
<1>1. rows \in Seq(D) /\ n \in Nat \ {0} /\ n % World = 0
  BY EmptySeq DEF Even
<1>2. d \in 0 .. DpSize - 1 /\ DpSize \in Nat \ {0} /\ SpSize \in Nat \ {0}
      /\ World \in Nat \ {0} /\ World = DpSize * SpSize
  BY Sizes
<1>3. share = SubSeq(rows, d * size + 1, (d + 1) * size)
  BY DEF Share
<1>4. size = n \div DpSize
  OBVIOUS
<1> HIDE DEF size, n, d, share
<1>5. size \in Nat \ {0} /\ n = size * DpSize
  <2>1. \E q \in Nat : n = q * World
    <3> DEFINE W == World
               q == n \div W
    <3>1. W \in Nat \ {0} /\ n % W = 0
      BY <1>1, <1>2
    <3> HIDE DEF W
    <3>2. q \in Nat /\ n = q * W
      BY <1>1, <3>1
    <3> QED BY <3>2 DEF W
  <2>10. PICK q \in Nat : n = q * World
    BY <2>1
  <2>2. q * World = (q * SpSize) * DpSize
    BY <1>2
  <2> DEFINE m == q * SpSize
  <2>3. m \in Nat /\ n = m * DpSize
    BY <1>2, <2>10, <2>2
  <2> HIDE DEF m
  <2>4. n \div DpSize = m
    BY <1>2, <2>3
  <2>5. m # 0
    BY <1>1, <1>2, <2>3
  <2> QED BY <1>4, <2>3, <2>4, <2>5
<1>6. d * size \in 0 .. n /\ (d + 1) * size \in d * size .. n
      /\ (d + 1) * size - d * size = size
  <2>1. d * size \in Nat /\ (d + 1) * size = d * size + size /\ d + 1 <= DpSize
    BY <1>2, <1>5
  <2>2. (d + 1) * size <= DpSize * size
    BY <1>2, <1>5, <2>1
  <2> DEFINE a == d * size
             b == (d + 1) * size
  <2>20. n = DpSize * size
    BY <1>2, <1>5
  <2>3. a \in Nat /\ b = a + size /\ b <= n
    BY <2>1, <2>2, <2>20
  <2> HIDE DEF a, b
  <2>4. a \in 0 .. n /\ b \in a .. n /\ b - a = size
    BY <1>1, <1>5, <2>3
  <2> QED BY <2>4 DEF a, b
<1>7. /\ SubSeq(rows, d * size + 1, (d + 1) * size) \in Seq(D)
      /\ Len(SubSeq(rows, d * size + 1, (d + 1) * size)) = (d + 1) * size - d * size
  BY <1>1, <1>6, PartOfSeq DEF n
<1>8. share \in Seq(D) /\ Len(share) = size
  BY <1>3, <1>6, <1>7
<1>9. share # << >>
  BY <1>5, <1>8, EmptySeq
<1> QED BY <1>5, <1>8, <1>9 DEF size, n, share

(* The mini-batches of every rank.                                         *)
MinisOf(rows, whole, r) ==
  IF whole THEN << Share(rows, r) >>
  ELSE FlattenSeq([e \in 1 .. Epochs |-> SplitBy(Share(rows, r), MiniBatch)])

(* Mini-batches are not empty.                                             *)
LEMMA MinisType ==
  ASSUME NEW D, NEW rows, Even(rows, D), NEW r \in Ranks, NEW whole
  PROVE  /\ MinisOf(rows, whole, r) \in Seq(Seq(D) \ {<< >>})
         /\ MinisOf(rows, whole, r) # << >>
<1> DEFINE share == Share(rows, r)
           Y == Seq(D) \ {<< >>}
           t == SplitBy(share, MiniBatch)
           z == [e \in 1 .. Epochs |-> t]
<1>1. share \in Seq(D) /\ share # << >>
  BY ShareShape
<1>2. Epochs \in Nat \ {0} /\ MiniBatch \in Nat \ {0}
  BY Sizes
<1> HIDE DEF share
<1>3. CASE whole
  <2>1. << share >> \in Seq(Y) /\ << share >> # << >>
    <3>1. share \in Y
      BY <1>1
    <3> HIDE DEF Y
    <3> QED BY <3>1
  <2> QED BY <1>3, <2>1 DEF MinisOf, share
<1>4. CASE ~ whole
  <2>1. t \in Seq(Seq(D) \ {<< >>}) /\ t # << >>
    BY <1>1, <1>2, SplitType
  <2>2. t \in Seq(Y) /\ t # << >>
    BY <2>1
  <2> HIDE DEF Y, t
  <2>3. z \in Seq(Seq(Y)) /\ z # << >> /\ z[1] # << >>
    <3> DEFINE Z == Seq(Y)
    <3>1. z \in [1 .. Epochs -> Z] /\ z[1] = t
      BY <1>2, <2>2
    <3> HIDE DEF z, Z
    <3>2. z \in Seq(Z) /\ Len(z) = Epochs
      BY <1>2, <3>1, FunctionIsSeq
    <3>3. z # << >>
      BY <1>2, <3>2, EmptySeq
    <3> QED BY <2>2, <3>1, <3>2, <3>3 DEF Z
  <2> HIDE DEF z
  <2>4. FlattenSeq(z) \in Seq(Y) /\ FlattenSeq(z) # << >>
    BY <2>3, FlattenType, FlattenNonempty
  <2>5. MinisOf(rows, whole, r) = FlattenSeq(z)
    BY <1>4 DEF MinisOf, z, t, share
  <2> QED BY <2>4, <2>5 DEF Y
<1> QED BY <1>3, <1>4

(* All ranks have as many mini-batches, and as many rows in each of them.  *)
LEMMA MinisAlike ==
  ASSUME NEW D, NEW rows, Even(rows, D), NEW r \in Ranks, NEW v \in Ranks, NEW whole
  PROVE  Alike(MinisOf(rows, whole, r), MinisOf(rows, whole, v))
<1> DEFINE s == Share(rows, r)
           t == Share(rows, v)
           X == Seq(D) \ {<< >>}
           ss == SplitBy(s, MiniBatch)
           tt == SplitBy(t, MiniBatch)
           zs == [e \in 1 .. Epochs |-> ss]
           zt == [e \in 1 .. Epochs |-> tt]
<1>1. s \in Seq(D) /\ s # << >> /\ t \in Seq(D) /\ t # << >> /\ Len(s) = Len(t)
  BY ShareShape
<1>2. Epochs \in Nat \ {0} /\ MiniBatch \in Nat \ {0}
  BY Sizes
<1> HIDE DEF s, t
<1>3. CASE whole
  <2>1. Alike(<< s >>, << t >>)
    BY <1>1 DEF Alike
  <2> QED BY <1>3, <2>1 DEF MinisOf, s, t
<1>4. CASE ~ whole
  <2>1. ss \in Seq(Seq(D) \ {<< >>}) /\ tt \in Seq(Seq(D) \ {<< >>}) /\ Alike(ss, tt)
    BY <1>1, <1>2, SplitType, SplitAlike
  <2>2. ss \in Seq(X) /\ tt \in Seq(X)
    BY <2>1
  <2> HIDE DEF X, ss, tt
  <2>3. zs \in Seq(Seq(X)) /\ zt \in Seq(Seq(X)) /\ Len(zs) = Epochs /\ Len(zt) = Epochs
    <3> DEFINE Z == Seq(X)
    <3>1. zs \in [1 .. Epochs -> Z] /\ zt \in [1 .. Epochs -> Z]
      BY <2>2
    <3> HIDE DEF zs, zt, Z
    <3>2. zs \in Seq(Z) /\ Len(zs) = Epochs /\ zt \in Seq(Z) /\ Len(zt) = Epochs
      BY <1>2, <3>1, FunctionIsSeq
    <3> QED BY <3>2 DEF Z
  <2>4. \A e \in 1 .. Len(zs) : Alike(zs[e], zt[e])
    <3>1. \A e \in 1 .. Epochs : Alike(zs[e], zt[e])
      BY <2>1
    <3> QED BY <2>3, <3>1
  <2> HIDE DEF zs, zt
  <2>5. Alike(FlattenSeq(zs), FlattenSeq(zt))
    BY <2>3, <2>4, FlattenAlike
  <2>6. MinisOf(rows, whole, r) = FlattenSeq(zs) /\ MinisOf(rows, whole, v) = FlattenSeq(zt)
    BY <1>4 DEF MinisOf, zs, zt, ss, tt, s, t
  <2> QED BY <2>5, <2>6
<1> QED BY <1>3, <1>4

(* The ranks of the actor.                                                 *)

Kinds == {"count", "forward", "backward", "clip"}
Calling == pc \in {"log_prob", "update_actor"}
Rows == Seq(Nat)

(* The mini-batch with which l are left, how many micro-batches a rank     *)
(* asks for then, and how many all of them make.                           *)
Mini(r, l) == MiniBatches(r)[Len(MiniBatches(r)) + 1 - l]
Want(r, l) == MicroBatchesWanted(LenOf(Mini(r, l)), MaxTokens * SpSize)
Num(l) ==
  IF use_dynamic_bsz THEN Max({Want(v, l) : v \in Ranks})
  ELSE CeilDiv(Len(Mini(0, l)), MicroBatch)

(* The last collective a rank has entered: the mini-batches and the        *)
(* micro-batches it then had left, and its kind.  A call begins as if a    *)
(* mini-batch had just been clipped.                                       *)
Place(r) ==
  IF at[r] = "called" THEN << Len(MiniBatches(r)) + 1, 0, "clip" >>
  ELSE IF at[r] = "mini_batch" THEN << Len(left[r]) + 1, 0, "clip" >>
  ELSE IF at[r] = "returned"
       THEN IF pc = "log_prob" THEN << 1, 1, "forward" >> ELSE << 1, 0, "clip" >>
  ELSE IF at[r] = "raised" THEN << Len(left[r]), Len(plan[r]), calls[r][Len(calls[r])] >>
  ELSE << Len(left[r]), Len(plan[r]), at[r] >>

(* What decides about the course of a call, and the collective that        *)
(* follows another one.                                                    *)
Course ==
  [dynamic  |-> use_dynamic_bsz,
   training |-> pc = "update_actor",
   num      |-> [l \in 1 .. Len(MiniBatches(0)) |-> Num(l)]]
Following(course, place) ==
  LET l == place[1] p == place[2] kind == place[3] IN
  IF kind = "clip"
  THEN IF l > 1
       THEN IF course.dynamic THEN << l - 1, 0, "count" >>
            ELSE << l - 1, course.num[l - 1], "forward" >>
       ELSE << 0, 0, "none" >>
  ELSE IF kind = "count" THEN << l, course.num[l], "forward" >>
  ELSE IF kind = "forward" /\ course.training THEN << l, p, "backward" >>
  ELSE IF p > 1 THEN << l, p - 1, "forward" >>
  ELSE IF kind = "backward" THEN << l, 0, "clip" >>
  ELSE << 0, 0, "none" >>

(* Ranks that have entered as many collectives are at the same one, one    *)
(* that has entered one more is at the next, and none is further ahead.    *)
Paced(course, mine, place, others, other) ==
  /\ Len(mine) <= Len(others) + 1
  /\ Len(mine) = Len(others) => place = other /\ mine = others
  /\ Len(mine) = Len(others) + 1 =>
       place = Following(course, other) /\ mine = Append(others, place[3])
InStep(r, v) == Paced(Course, calls[r], Place(r), calls[v], Place(v))

TypeOK ==
  /\ use_dynamic_bsz \in BOOLEAN
  /\ pc \in {"rollout", "log_prob", "values", "update_critic", "update_actor", "save"}
  /\ at \in [Ranks -> Kinds \cup {"idle", "called", "mini_batch", "returned", "raised"}]
  /\ calls \in [Ranks -> Seq(Kinds)]
  /\ left \in [Ranks -> Seq(Rows)]
  /\ plan \in [Ranks -> Seq(Rows)]
  /\ wanted \in [Ranks -> Int]

(* What is sent: rows of the batch, evenly for all ranks.                  *)
SentOK ==
  /\ pc # "rollout" => lens \in Batches
  /\ Calling => Even(sent, DOMAIN lens)
  /\ pc = "log_prob" => sent = [i \in DOMAIN lens |-> i]

(* A rank in a call: the mini-batches it has left are the last ones, it    *)
(* has micro-batches while it makes passes, it knows what it asked for,    *)
(* and it gets past its collectives once the others have entered them.     *)
LeftOK(r) ==
  at[r] # "called" =>
    /\ Len(left[r]) <= Len(MiniBatches(r))
    /\ \A l \in 1 .. Len(left[r]) : left[r][Len(left[r]) + 1 - l] = Mini(r, l)
RankOK(r) ==
  /\ at[r] # "idle"
  /\ at[r] = "called" => calls[r] = << >>
  /\ at[r] \in Kinds \cup {"mini_batch", "raised"} => Len(left[r]) > 0
  /\ at[r] = "returned" => Len(left[r]) = IF pc = "log_prob" THEN 1 ELSE 0
  /\ at[r] \in {"forward", "backward"} => plan[r] # << >>
  /\ at[r] \in {"called", "mini_batch", "count", "clip", "returned"} => plan[r] = << >>
  /\ at[r] \in Kinds => calls[r] # << >> /\ calls[r][Len(calls[r])] = at[r]
  /\ at[r] = "raised" => calls[r] # << >> /\ calls[r][Len(calls[r])] # "clip"
  /\ at[r] \in {"mini_batch", "returned"} => Met(r)
  /\ at[r] \in {"backward", "clip"} => pc = "update_actor"
  /\ at[r] = "count" => use_dynamic_bsz
  /\ (/\ use_dynamic_bsz
      /\ \/ at[r] \in Kinds \cup {"raised"}
         \/ at[r] = "returned" /\ pc = "log_prob")
       => wanted[r] = Want(r, Len(left[r]))

(* Between the calls all ranks have entered the same.                      *)
AtRest ==
  \A r, v \in Ranks :
    at[r] \in {"idle", "returned"} /\ plan[r] = << >> /\ calls[r] = calls[v]

LockstepInv ==
  /\ TypeOK
  /\ SentOK
  /\ Calling => \A r \in Ranks : LeftOK(r) /\ RankOK(r)
  /\ Calling => \A r, v \in Ranks : InStep(r, v)
  /\ ~ Calling => AtRest

-----------------------------------------------------------------------------

(* So it is in a call.                                                     *)
LEMMA MinisShape ==
  ASSUME SentOK, Calling, NEW r \in Ranks
  PROVE  /\ MiniBatches(r) \in Seq(Seq(DOMAIN lens) \ {<< >>})
         /\ MiniBatches(r) # << >> /\ Len(MiniBatches(r)) \in Nat \ {0}
         /\ MiniBatches(r) \in Seq(Rows)
         /\ \A v \in Ranks : Alike(MiniBatches(r), MiniBatches(v))
         /\ pc = "log_prob" => MiniBatches(r) = << Share(sent, r) >>
<1>1. Even(sent, DOMAIN lens)
  BY DEF SentOK
<1>2. \A v \in Ranks : MiniBatches(v) = MinisOf(sent, pc = "log_prob", v)
  BY DEF MiniBatches, MinisOf
<1> DEFINE D == DOMAIN lens
           Y == Seq(D) \ {<< >>}
           m == MiniBatches(r)
<1> DEFINE whole == pc = "log_prob"
<1>20. \A v \in Ranks : MiniBatches(v) = MinisOf(sent, whole, v)
  BY <1>2
<1> HIDE DEF whole
<1>21. /\ MinisOf(sent, whole, r) \in Seq(Seq(DOMAIN lens) \ {<< >>})
       /\ MinisOf(sent, whole, r) # << >>
  BY <1>1, MinisType, Zenon
<1>3. m \in Seq(Y) /\ m # << >>
  BY <1>20, <1>21
<1>4. \A v \in Ranks : Alike(MiniBatches(r), MiniBatches(v))
  <2>1. \A v \in Ranks : Alike(MinisOf(sent, whole, r), MinisOf(sent, whole, v))
    BY <1>1, MinisAlike, Zenon
  <2> QED BY <1>20, <2>1
<1>5. \A x \in Y : x \in Rows
  <2>1. lens \in Batches
    BY DEF SentOK, Calling
  <2>2. lens \in Seq(Nat \ {0})
    BY <2>1, UpdateAssumption
  <2>3. D = 1 .. Len(lens)
    BY <2>2, LenProperties
  <2>4. D \subseteq Nat
    BY <2>2, <2>3, LenProperties
  <2> HIDE DEF D
  <2> QED BY <2>4, SeqMonotonic DEF Rows
<1> HIDE DEF D, m
<1>6. m \in Seq(Rows) /\ Len(m) \in Nat \ {0}
  <2> HIDE DEF Y
  <2>1. \A i \in 1 .. Len(m) : m[i] \in Rows
    BY <1>3, <1>5, ElementOfSeq
  <2>2. Len(m) \in Nat \ {0}
    BY <1>3, EmptySeq
  <2> QED BY <1>3, <2>1, <2>2, SeqOfMembers
<1>7. pc = "log_prob" => m = << Share(sent, r) >>
  BY DEF MiniBatches, m
<1> QED BY <1>3, <1>4, <1>6, <1>7 DEF D, m

(* The mini-batches of a call hold rows of the batch, the same number for  *)
(* every rank, and a rank asks for at least one micro-batch.               *)
LEMMA MiniShape ==
  ASSUME SentOK, Calling, NEW r \in Ranks, NEW l \in 1 .. Len(MiniBatches(r))
  PROVE  /\ Mini(r, l) \in Seq(DOMAIN lens) /\ Mini(r, l) \in Rows /\ Mini(r, l) # << >>
         /\ Len(Mini(r, l)) \in Nat \ {0}
         /\ \A v \in Ranks : /\ Len(MiniBatches(v)) = Len(MiniBatches(r))
                             /\ Len(Mini(v, l)) = Len(Mini(r, l))
         /\ LenOf(Mini(r, l)) \in Seq(Nat \ {0})
         /\ Len(LenOf(Mini(r, l))) = Len(Mini(r, l))
         /\ Want(r, l) \in 1 .. Len(Mini(r, l))
<1> DEFINE D == DOMAIN lens
           Y == Seq(D) \ {<< >>}
           m == MiniBatches(r)
           n == Len(m)
           mini == Mini(r, l)
<1>1. /\ m \in Seq(Y) /\ m \in Seq(Rows) /\ n \in Nat \ {0}
      /\ \A v \in Ranks : Alike(m, MiniBatches(v))
  BY MinisShape
<1>2. mini = m[n + 1 - l]
  BY DEF Mini
<1>20. \A v \in Ranks : Len(MiniBatches(v)) = n => Mini(v, l) = MiniBatches(v)[n + 1 - l]
  BY DEF Mini
<1>21. l \in 1 .. n
  OBVIOUS
<1> HIDE DEF m, mini, n
<1>3. n + 1 - l \in 1 .. n
  BY <1>1, <1>21
<1>4. mini \in Y /\ mini \in Rows
  <2> HIDE DEF Y
  <2>1. n + 1 - l \in 1 .. Len(m)
    BY <1>3 DEF n
  <2> QED BY <1>1, <1>2, <2>1, ElementOfSeq
<1>5. \A v \in Ranks : Len(MiniBatches(v)) = n /\ Len(Mini(v, l)) = Len(mini)
  BY <1>1, <1>2, <1>20, <1>3 DEF Alike, n
<1>6. lens \in Seq(Nat \ {0}) /\ D = 1 .. Len(lens)
  <2>1. lens \in Batches
    BY DEF SentOK, Calling
  <2>2. lens \in Seq(Nat \ {0})
    BY <2>1, UpdateAssumption
  <2> QED BY <2>2, LenProperties
<1>7. \A x \in D : lens[x] \in Nat \ {0}
  BY <1>6, ElementOfSeq
<1> HIDE DEF D
<1>8. mini \in Seq(D) /\ mini # << >> /\ Len(mini) \in Nat \ {0}
      /\ DOMAIN mini = 1 .. Len(mini) /\ \A i \in 1 .. Len(mini) : mini[i] \in D
  BY <1>4, EmptySeq, LenProperties, ElementOfSeq
<1> DEFINE k == Len(mini)
           w == [i \in 1 .. k |-> lens[mini[i]]]
<1>9. LenOf(mini) = w
  BY <1>8 DEF LenOf
<1>10. w \in Seq(Nat \ {0}) /\ Len(w) = k /\ w # << >>
  <2>1. w \in [1 .. k -> Nat \ {0}]
    BY <1>7, <1>8
  <2>2. k \in Nat \ {0}
    BY <1>8
  <2> HIDE DEF w, k
  <2>3. w \in Seq(Nat \ {0}) /\ Len(w) = k
    BY <2>1, <2>2, FunctionIsSeq
  <2> QED BY <2>2, <2>3, EmptySeq
<1> HIDE DEF w
<1>11. MicroBatchesWanted(w, MaxTokens * SpSize) \in 1 .. k
  BY <1>10, WantedPositive, Sizes
<1>12. Want(r, l) \in 1 .. k
  BY <1>9, <1>11 DEF Want, mini
<1> QED BY <1>4, <1>5, <1>8, <1>9, <1>10, <1>12 DEF mini, D, m, n

(* The ranks agree on how many micro-batches they make.                    *)
LEMMA NumShape ==
  ASSUME SentOK, Calling, use_dynamic_bsz \in BOOLEAN,
         NEW l \in 1 .. Len(MiniBatches(0))
  PROVE  /\ Num(l) \in Nat \ {0}
         /\ ~ use_dynamic_bsz =>
              \A r \in Ranks : Num(l) = CeilDiv(Len(Mini(r, l)), MicroBatch)
<1>1. 0 \in Ranks /\ MicroBatch \in Nat \ {0} /\ IsFiniteSet(Ranks)
  BY Sizes
<1>2. \A r \in Ranks : l \in 1 .. Len(MiniBatches(r))
  BY <1>1, MiniShape
<1>3. \A r \in Ranks : Len(Mini(r, l)) = Len(Mini(0, l)) /\ Len(Mini(r, l)) \in Nat \ {0}
  BY <1>1, <1>2, MiniShape
<1>4. \A r \in Ranks : Want(r, l) \in Nat \ {0}
  BY <1>2, MiniShape
<1>5. CASE use_dynamic_bsz
  <2> DEFINE S == {Want(v, l) : v \in Ranks}
  <2>1. S \subseteq Nat \ {0} /\ S # {}
    BY <1>1, <1>4
  <2>2. IsFiniteSet(S)
    <3> DEFINE f == [v \in Ranks |-> Want(v, l)]
    <3>1. f \in [Ranks -> S] /\ \A x \in S : \E v \in Ranks : f[v] = x
      OBVIOUS
    <3> HIDE DEF f, S
    <3>2. f \in Surjection(Ranks, S)
      BY <3>1, Fun_IsSurj
    <3> QED BY <1>1, <3>2, FS_Surjection
  <2>3. Num(l) = Max(S)
    BY <1>5 DEF Num
  <2> HIDE DEF S
  <2>4. Max(S) \in S
    BY <2>1, <2>2, MaxOfSet
  <2> QED BY <1>5, <2>1, <2>3, <2>4
<1>6. CASE ~ use_dynamic_bsz
  <2>1. Num(l) = CeilDiv(Len(Mini(0, l)), MicroBatch)
    BY <1>6 DEF Num
  <2> QED BY <1>1, <1>3, <1>6, <2>1, CeilDivPositive
<1> QED BY <1>5, <1>6

(* What the ranks of a call work on is fixed when they are called.         *)
LEMMA Unmoved ==
  ASSUME UNCHANGED << use_dynamic_bsz, pc, lens, sent >>
  PROVE  /\ Calling' = Calling
         /\ \A v : MiniBatches(v)' = MiniBatches(v)
         /\ \A v, l : Mini(v, l)' = Mini(v, l) /\ Want(v, l)' = Want(v, l)
         /\ \A l : Num(l)' = Num(l)
         /\ Course' = Course
<1>1. ASSUME NEW v PROVE MiniBatches(v)' = MiniBatches(v)
  BY DEF MiniBatches, Share
<1>2. ASSUME NEW v, NEW l PROVE Mini(v, l)' = Mini(v, l)
  BY <1>1 DEF Mini
<1>3. ASSUME NEW v, NEW l PROVE Want(v, l)' = Want(v, l)
  BY <1>2 DEF Want, LenOf
<1>4. ASSUME NEW l PROVE Num(l)' = Num(l)
  BY <1>2, <1>3 DEF Num
<1>5. Course' = Course
  BY <1>1, <1>4 DEF Course
<1>6. Calling' = Calling
  BY DEF Calling
<1> QED BY <1>1, <1>2, <1>3, <1>4, <1>5, <1>6

(* A step of a rank that enters no collective, and one that enters the     *)
(* next one.                                                               *)
Stays(r) == calls' = calls /\ Place(r)' = Place(r)
Advances(r) ==
  /\ Met(r)
  /\ Place(r)' = Following(Course, Place(r))
  /\ calls' = [calls EXCEPT ![r] = Append(@, Place(r)'[3])]
OthersWait(r) ==
  \A v \in Ranks : v # r =>
    /\ at'[v] = at[v] /\ calls'[v] = calls[v] /\ left'[v] = left[v]
    /\ plan'[v] = plan[v] /\ wanted'[v] = wanted[v]
StepOK(r) ==
  /\ UNCHANGED << use_dynamic_bsz, pc, lens, sent >>
  /\ TypeOK' /\ LeftOK(r)' /\ RankOK(r)' /\ OthersWait(r)
  /\ Stays(r) \/ Advances(r)

(* A rank that steps leaves the others where they are.                     *)
LEMMA CallsGrow ==
  ASSUME LockstepInv, Calling, NEW r \in Ranks, StepOK(r)
  PROVE  \A v \in Ranks :
           /\ calls[v] \in Seq(Kinds) /\ Len(calls[v]) \in Nat /\ Len(calls'[v]) \in Nat
           /\ Len(calls'[v]) >= Len(calls[v])
           /\ v # r => Place(v)' = Place(v) /\ calls'[v] = calls[v]
<1>1. \A v \in Ranks : calls[v] \in Seq(Kinds) /\ calls'[v] \in Seq(Kinds)
  BY DEF LockstepInv, TypeOK, StepOK
<1>2. \A v \in Ranks : Len(calls[v]) \in Nat /\ Len(calls'[v]) \in Nat
  BY <1>1, LenProperties
<1>3. ASSUME NEW v \in Ranks, v # r PROVE Place(v)' = Place(v) /\ calls'[v] = calls[v]
  <2>1. /\ at'[v] = at[v] /\ calls'[v] = calls[v] /\ left'[v] = left[v]
        /\ plan'[v] = plan[v] /\ pc' = pc
    BY <1>3 DEF StepOK, OthersWait
  <2>2. MiniBatches(v)' = MiniBatches(v)
    BY Unmoved DEF StepOK
  <2> QED BY <2>1, <2>2 DEF Place
<1>4. Len(calls'[r]) >= Len(calls[r])
  <2>1. CASE Stays(r)
    BY <1>2, <2>1 DEF Stays
  <2>2. CASE Advances(r)
    <3>1. calls'[r] = Append(calls[r], Place(r)'[3])
      BY <2>2 DEF Advances, LockstepInv, TypeOK
    <3>2. Len(calls'[r]) = Len(calls[r]) + 1
      BY <1>1, <3>1
    <3> QED BY <1>2, <3>2
  <2> QED BY <2>1, <2>2 DEF StepOK
<1> QED BY <1>1, <1>2, <1>3, <1>4

(* A rank that enters the next collective after meeting the others is at   *)
(* most one ahead of them.                                                 *)
LEMMA StepInStep ==
  ASSUME LockstepInv, Calling, NEW r \in Ranks, StepOK(r),
         NEW u \in Ranks, NEW v \in Ranks
  PROVE  InStep(u, v)'
<1>1. \A w \in Ranks :
        /\ calls[w] \in Seq(Kinds) /\ Len(calls[w]) \in Nat
        /\ w # r => Place(w)' = Place(w) /\ calls'[w] = calls[w]
  BY CallsGrow
<1>2. \A x, y \in Ranks : Paced(Course, calls[x], Place(x), calls[y], Place(y))
  BY DEF LockstepInv, InStep
<1>3. Course' = Course
  BY Unmoved DEF StepOK
<1> SUFFICES Paced(Course, calls'[u], Place(u)', calls'[v], Place(v)')
  BY <1>3 DEF InStep
<1>4. CASE Stays(r)
  <2>1. \A w \in Ranks : Place(w)' = Place(w) /\ calls'[w] = calls[w]
    BY <1>1, <1>4 DEF Stays
  <2> QED BY <1>2, <2>1
<1>5. CASE Advances(r)
  <2>1. /\ \A w \in Ranks : Len(calls[w]) >= Len(calls[r])
        /\ Place(r)' = Following(Course, Place(r))
        /\ calls'[r] = Append(calls[r], Place(r)'[3])
    BY <1>5 DEF Advances, Met, LockstepInv, TypeOK
  <2>2. Len(calls'[r]) = Len(calls[r]) + 1
    BY <1>1, <2>1
  <2>3. CASE u = r /\ v = r
    <3>1. Len(calls'[r]) \in Nat
      BY <1>1, <2>2
    <3> QED BY <2>3, <3>1 DEF Paced
  <2>4. CASE u # r /\ v # r
    BY <1>1, <1>2, <2>4
  <2>5. CASE u = r /\ v # r
    <3>1. Paced(Course, calls[v], Place(v), calls[r], Place(r))
          /\ Paced(Course, calls[r], Place(r), calls[v], Place(v))
      BY <1>2
    <3>2. Paced(Course, calls'[r], Place(r)', calls[v], Place(v))
      BY <1>1, <2>1, <2>2, <3>1 DEF Paced
    <3> QED BY <1>1, <2>5, <3>2
  <2>6. CASE u # r /\ v = r
    <3>1. Paced(Course, calls[u], Place(u), calls[r], Place(r))
      BY <1>2
    <3>2. Paced(Course, calls[u], Place(u), calls'[r], Place(r)')
      BY <1>1, <2>1, <2>2, <3>1 DEF Paced
    <3> QED BY <1>1, <2>6, <3>2
  <2> QED BY <2>3, <2>4, <2>5, <2>6
<1> QED BY <1>4, <1>5 DEF StepOK

(* A step of a rank leaves the others as they were.                        *)
LEMMA StepLockstep ==
  ASSUME LockstepInv, Calling, NEW r \in Ranks, StepOK(r)
  PROVE  LockstepInv'
<1>1. /\ Calling' = Calling
      /\ \A v : MiniBatches(v)' = MiniBatches(v)
      /\ \A v, l : Mini(v, l)' = Mini(v, l) /\ Want(v, l)' = Want(v, l)
  BY Unmoved DEF StepOK
<1>2. TypeOK' /\ UNCHANGED << use_dynamic_bsz, pc, lens, sent >>
  BY DEF StepOK
<1>3. SentOK'
  <2>1. SentOK
    BY DEF LockstepInv
  <2> QED BY <1>1, <1>2, <2>1 DEF SentOK, Even
<1>4. ASSUME NEW v \in Ranks PROVE LeftOK(v)' /\ RankOK(v)'
  <2>1. CASE v = r
    BY <2>1 DEF StepOK
  <2>2. CASE v # r
    <3>1. /\ at'[v] = at[v] /\ calls'[v] = calls[v] /\ left'[v] = left[v]
          /\ plan'[v] = plan[v] /\ wanted'[v] = wanted[v]
      BY <2>2 DEF StepOK, OthersWait
    <3>2. LeftOK(v) /\ RankOK(v)
      BY DEF LockstepInv
    <3>3. LeftOK(v)'
      BY <1>1, <3>1, <3>2 DEF LeftOK
    <3>4. Met(v) => Met(v)'
      <4>1. \A w \in Ranks : Len(calls'[w]) >= Len(calls[w])
                             /\ Len(calls'[w]) \in Nat /\ Len(calls[w]) \in Nat
        BY CallsGrow
      <4> QED BY <3>1, <4>1 DEF Met
    <3>5. RankOK(v)'
      BY <1>1, <1>2, <3>1, <3>2, <3>4 DEF RankOK
    <3> QED BY <3>3, <3>5
  <2> QED BY <2>1, <2>2
<1>5. \A u, v \in Ranks : InStep(u, v)'
  BY StepInStep
<1> QED BY <1>1, <1>2, <1>3, <1>4, <1>5 DEF LockstepInv

(* A rank that is called splits its share into mini-batches.               *)
LEMMA BeginStep ==
  ASSUME LockstepInv, Calling, NEW r \in Ranks, Begin(r), UNCHANGED use_dynamic_bsz
  PROVE  StepOK(r)
<1>1. /\ at[r] = "called" /\ at' = [at EXCEPT ![r] = "mini_batch"]
      /\ left' = [left EXCEPT ![r] = MiniBatches(r)]
      /\ UNCHANGED << use_dynamic_bsz, pc, lens, sent, calls, wanted, plan >>
  BY DEF Begin, batchVars
<1>2. /\ TypeOK /\ RankOK(r) /\ SentOK
  BY DEF LockstepInv
<1>3. MiniBatches(r) \in Seq(Rows) /\ Len(MiniBatches(r)) \in Nat \ {0}
  BY <1>2, MinisShape
<1>4. /\ \A v : MiniBatches(v)' = MiniBatches(v)
      /\ \A v, l : Mini(v, l)' = Mini(v, l) /\ Want(v, l)' = Want(v, l)
  BY <1>1, Unmoved
<1>5. /\ at'[r] = "mini_batch" /\ left'[r] = MiniBatches(r)
      /\ calls[r] = << >> /\ plan[r] = << >>
  BY <1>1, <1>2 DEF TypeOK, RankOK
<1>6. TypeOK'
  BY <1>1, <1>2, <1>3 DEF TypeOK
<1>7. LeftOK(r)'
  BY <1>3, <1>4, <1>5 DEF LeftOK, Mini
<1>8. RankOK(r)'
  <2>1. Met(r)'
    <3>1. \A v \in Ranks : Len(calls[v]) \in Nat
      BY <1>2, LenProperties DEF TypeOK
    <3> QED BY <1>1, <1>5, <3>1 DEF Met
  <2> QED BY <1>1, <1>3, <1>5, <2>1 DEF RankOK, Kinds
<1>9. OthersWait(r)
  BY <1>1, <1>2 DEF OthersWait, TypeOK
<1>10. Stays(r)
  BY <1>1, <1>4, <1>5 DEF Stays, Place
<1> QED BY <1>1, <1>6, <1>7, <1>8, <1>9, <1>10 DEF StepOK

(* The mini-batch a rank works on is the same for all that have as many    *)
(* left.                                                                   *)
LEMMA CurrentMini ==
  ASSUME LockstepInv, Calling, NEW r \in Ranks,
         at[r] \in Kinds \cup {"mini_batch", "raised"}
  PROVE  LET n == Len(left[r])
         IN  /\ left[r] \in Seq(Rows) /\ left[r] # << >>
             /\ n \in Nat \ {0} /\ n \in 1 .. Len(MiniBatches(r))
             /\ n \in 1 .. Len(MiniBatches(0))
             /\ left[r][1] = Mini(r, n)
             /\ left[r][1] \in Rows /\ left[r][1] # << >>
<1> DEFINE n == Len(left[r])
<1>1. TypeOK /\ SentOK /\ LeftOK(r) /\ RankOK(r)
  BY DEF LockstepInv
<1>2. left[r] \in Seq(Rows) /\ n \in Nat
  BY <1>1, LenProperties DEF TypeOK
<1>3. n > 0 /\ n <= Len(MiniBatches(r))
      /\ \A l \in 1 .. n : left[r][n + 1 - l] = Mini(r, l)
  BY <1>1 DEF RankOK, LeftOK, Kinds
<1> HIDE DEF n
<1>4. n \in 1 .. n /\ n + 1 - n = 1
  BY <1>2, <1>3
<1>5. left[r][1] = Mini(r, n)
  BY <1>3, <1>4
<1>6. Len(MiniBatches(r)) \in Nat
  BY <1>1, MinisShape
<1>7. n \in 1 .. Len(MiniBatches(r))
  BY <1>2, <1>3, <1>6
<1>8. Mini(r, n) \in Rows /\ Mini(r, n) # << >>
  BY <1>1, <1>7, MiniShape
<1>9. Len(MiniBatches(0)) = Len(MiniBatches(r))
  BY <1>1, <1>7, MiniShape, Sizes
<1>10. left[r] # << >>
  BY <1>2, <1>3, EmptySeq DEF n
<1> QED BY <1>2, <1>3, <1>5, <1>7, <1>8, <1>9, <1>10 DEF n

(* The ranks start a mini-batch with the same collective: all count, or    *)
(* all make their first pass.                                              *)
LEMMA StartStep ==
  ASSUME LockstepInv, Calling, NEW r \in Ranks, StartMiniBatch(r), UNCHANGED use_dynamic_bsz
  PROVE  StepOK(r)
<1> DEFINE n == Len(left[r])
<1>1. /\ at[r] = "mini_batch"
      /\ UNCHANGED << use_dynamic_bsz, pc, lens, sent, left >>
  BY DEF StartMiniBatch, batchVars
<1>2. /\ TypeOK /\ LeftOK(r) /\ RankOK(r) /\ SentOK
  BY DEF LockstepInv
<1>3. /\ n \in Nat \ {0} /\ n \in 1 .. Len(MiniBatches(r))
      /\ n \in 1 .. Len(MiniBatches(0))
      /\ left[r][1] = Mini(r, n) /\ left[r][1] \in Rows /\ left[r][1] # << >>
  BY <1>1, CurrentMini
<1>4. /\ \A v : MiniBatches(v)' = MiniBatches(v)
      /\ \A v, l : Mini(v, l)' = Mini(v, l) /\ Want(v, l)' = Want(v, l)
  BY <1>1, Unmoved
<1>5. Met(r) /\ plan[r] = << >> /\ calls[r] \in Seq(Kinds)
  BY <1>1, <1>2 DEF RankOK, TypeOK
<1>6. Place(r) = << n + 1, 0, "clip" >>
  BY <1>1 DEF Place
<1>7. (n + 1) - 1 = n /\ n + 1 > 1
  BY <1>3
<1>8. LeftOK(r)'
  <2>1. LeftOK(r) /\ at[r] # "called" /\ left' = left
    BY <1>1, <1>2
  <2> QED BY <1>4, <2>1 DEF LeftOK
<1>9. CASE use_dynamic_bsz
  <2>1. /\ wanted' = [wanted EXCEPT ![r] = MicroBatchesWanted(LenOf(left[r][1]), MaxTokens * SpSize)]
        /\ at' = [at EXCEPT ![r] = "count"]
        /\ calls' = [calls EXCEPT ![r] = Append(@, "count")]
        /\ UNCHANGED plan
    BY <1>9 DEF StartMiniBatch, Enter
  <2>2. wanted'[r] = Want(r, n) /\ Want(r, n) \in Int
    <3>1. wanted'[r] = Want(r, n)
      BY <1>2, <1>3, <2>1 DEF Want, TypeOK
    <3>2. Want(r, n) \in 1 .. Len(Mini(r, n)) /\ Len(Mini(r, n)) \in Nat
      BY <1>2, <1>3, MiniShape
    <3> QED BY <3>1, <3>2
  <2>3. at'[r] = "count" /\ calls'[r] = Append(calls[r], "count")
    BY <1>2, <2>1 DEF TypeOK
  <2>4. TypeOK'
    <3>1. wanted' \in [Ranks -> Int]
      BY <1>2, <2>1, <2>2 DEF TypeOK
    <3>2. calls' \in [Ranks -> Seq(Kinds)]
      BY <1>2, <1>5, <2>1 DEF TypeOK, Kinds
    <3>3. at' \in [Ranks -> Kinds \cup {"idle", "called", "mini_batch", "returned", "raised"}]
      BY <1>2, <2>1 DEF TypeOK, Kinds
    <3> QED BY <1>1, <1>2, <2>1, <3>1, <3>2, <3>3 DEF TypeOK
  <2>5. calls'[r] # << >> /\ calls'[r][Len(calls'[r])] = "count"
    <3>1. "count" \in Kinds
      BY DEF Kinds
    <3> QED BY <1>5, <2>3, <3>1, AppendProperties
  <2>6. RankOK(r)'
    BY <1>1, <1>3, <1>4, <1>5, <1>9, <2>1, <2>2, <2>3, <2>5 DEF RankOK, Kinds
  <2>7. OthersWait(r)
    BY <1>1, <1>2, <2>1 DEF OthersWait, TypeOK
  <2>8. Place(r)' = << n, 0, "count" >>
    BY <1>1, <1>5, <2>1, <2>3 DEF Place
  <2>9. Following(Course, Place(r)) = << n, 0, "count" >>
    BY <1>6, <1>7, <1>9 DEF Following, Course
  <2>10. Advances(r)
    BY <1>5, <2>1, <2>8, <2>9 DEF Advances
  <2> QED BY <1>1, <1>8, <2>4, <2>6, <2>7, <2>10 DEF StepOK
<1>10. CASE ~ use_dynamic_bsz
  <2> DEFINE parts == SplitBy(left[r][1], MicroBatch)
  <2>1. /\ plan' = [plan EXCEPT ![r] = parts]
        /\ at' = [at EXCEPT ![r] = "forward"]
        /\ calls' = [calls EXCEPT ![r] = Append(@, "forward")]
        /\ UNCHANGED wanted
    BY <1>10 DEF StartMiniBatch, Enter
  <2>2. parts \in Seq(Rows) /\ parts # << >> /\ Len(parts) = Num(n)
    <3>1. left[r][1] \in Seq(Nat) /\ left[r][1] # << >> /\ MicroBatch \in Nat \ {0}
      BY <1>3, Sizes DEF Rows
    <3>2. /\ parts \in Seq(Seq(Nat) \ {<< >>}) /\ parts # << >>
          /\ Len(parts) = CeilDiv(Len(left[r][1]), MicroBatch)
      BY <3>1, SplitType
    <3>3. Num(n) = CeilDiv(Len(Mini(r, n)), MicroBatch)
      BY <1>2, <1>3, <1>10, NumShape DEF TypeOK
    <3>4. parts \in Seq(Rows)
      <4> DEFINE Y == Seq(Nat) \ {<< >>}
      <4>1. parts \in Seq(Y) /\ Y \subseteq Rows
        BY <3>2 DEF Rows
      <4> HIDE DEF Y, parts
      <4> QED BY <4>1, SeqMonotonic
    <3> QED BY <1>3, <3>2, <3>3, <3>4
  <2> HIDE DEF parts
  <2>3. at'[r] = "forward" /\ calls'[r] = Append(calls[r], "forward") /\ plan'[r] = parts
    BY <1>2, <2>1 DEF TypeOK
  <2>4. TypeOK'
    <3>1. plan' \in [Ranks -> Seq(Rows)]
      BY <1>2, <2>1, <2>2 DEF TypeOK
    <3>2. calls' \in [Ranks -> Seq(Kinds)]
      BY <1>2, <1>5, <2>1 DEF TypeOK, Kinds
    <3>3. at' \in [Ranks -> Kinds \cup {"idle", "called", "mini_batch", "returned", "raised"}]
      BY <1>2, <2>1 DEF TypeOK, Kinds
    <3> QED BY <1>1, <1>2, <2>1, <3>1, <3>2, <3>3 DEF TypeOK
  <2>5. calls'[r] # << >> /\ calls'[r][Len(calls'[r])] = "forward"
    <3>1. "forward" \in Kinds
      BY DEF Kinds
    <3> QED BY <1>5, <2>3, <3>1, AppendProperties
  <2>6. RankOK(r)'
    BY <1>1, <1>3, <1>5, <1>10, <2>1, <2>2, <2>3, <2>5 DEF RankOK, Kinds
  <2>7. OthersWait(r)
    BY <1>1, <1>2, <2>1 DEF OthersWait, TypeOK
  <2>8. Place(r)' = << n, Num(n), "forward" >>
    BY <1>1, <2>2, <2>3 DEF Place
  <2>9. Following(Course, Place(r)) = << n, Num(n), "forward" >>
    BY <1>3, <1>6, <1>7, <1>10 DEF Following, Course
  <2>10. Advances(r)
    BY <1>5, <2>1, <2>8, <2>9 DEF Advances
  <2> QED BY <1>1, <1>8, <2>4, <2>6, <2>7, <2>10 DEF StepOK
<1> QED BY <1>2, <1>9, <1>10 DEF TypeOK

(* A rank enters a collective.                                             *)
LEMMA EnterType ==
  ASSUME TypeOK, NEW r \in Ranks, NEW kind \in Kinds, Enter(r, kind)
  PROVE  /\ at' \in [Ranks -> Kinds \cup {"idle", "called", "mini_batch", "returned", "raised"}]
         /\ calls' \in [Ranks -> Seq(Kinds)]
         /\ at'[r] = kind /\ calls'[r] = Append(calls[r], kind)
         /\ calls' = [calls EXCEPT ![r] = Append(@, kind)]
         /\ calls'[r] # << >> /\ calls'[r][Len(calls'[r])] = kind
         /\ \A v \in Ranks : v # r => at'[v] = at[v] /\ calls'[v] = calls[v]
<1>1. /\ at' = [at EXCEPT ![r] = kind]
      /\ calls' = [calls EXCEPT ![r] = Append(@, kind)]
  BY DEF Enter
<1>2. calls[r] \in Seq(Kinds)
  BY DEF TypeOK
<1>3. /\ Append(calls[r], kind) \in Seq(Kinds) /\ Append(calls[r], kind) # << >>
      /\ Append(calls[r], kind)[Len(Append(calls[r], kind))] = kind
  BY <1>2, AppendProperties
<1> QED BY <1>1, <1>3 DEF TypeOK

(* A rank that has counted knows that all others have asked.               *)
LEMMA AllAsked ==
  ASSUME LockstepInv, Calling, NEW r \in Ranks, at[r] = "count", Met(r), NEW v \in Ranks
  PROVE  wanted[v] = Want(v, Len(left[r]))
<1> DEFINE n == Len(left[r])
<1>1. /\ TypeOK /\ RankOK(r) /\ RankOK(v)
      /\ Paced(Course, calls[v], Place(v), calls[r], Place(r))
  BY DEF LockstepInv, InStep
<1>2. Len(calls[v]) >= Len(calls[r]) /\ Len(calls[v]) \in Nat /\ Len(calls[r]) \in Nat
  BY <1>1, LenProperties DEF Met, TypeOK
<1>3. plan[r] = << >> /\ use_dynamic_bsz
  BY <1>1 DEF RankOK
<1>4. Place(r) = << n, 0, "count" >>
  BY <1>3 DEF Place
<1>5. Following(Course, Place(r)) = << n, Course.num[n], "forward" >>
  BY <1>4 DEF Following
<1>6. /\ \/ at[v] \in Kinds \cup {"raised"}
         \/ (at[v] = "returned" /\ pc = "log_prob")
      /\ Len(left[v]) = n
  <2>1. /\ Place(v)[1] = n /\ Place(v)[3] \in {"count", "forward"}
    BY <1>1, <1>2, <1>4, <1>5 DEF Paced
  <2>2. /\ at[v] # "idle"
        /\ at[v] = "returned" => Len(left[v]) = IF pc = "log_prob" THEN 1 ELSE 0
    BY <1>1 DEF RankOK
  <2>3. at[v] \in Kinds \cup {"called", "mini_batch", "returned", "raised"}
    BY <1>1, <2>2 DEF TypeOK
  <2> QED BY <2>1, <2>2, <2>3 DEF Place, Kinds
<1> QED BY <1>1, <1>3, <1>6 DEF RankOK

(* The micro-batches of a mini-batch.                                      *)
LEMMA RearrangedShape ==
  ASSUME LockstepInv, Calling, NEW r \in Ranks,
         at[r] \in Kinds \cup {"mini_batch", "raised"}, NEW num \in Nat \ {0}
  PROVE  /\ Rearranged(r, num) \in Seq(Rows) /\ Len(Rearranged(r, num)) = num
         /\ Rearranged(r, num) # << >>
         /\ Shuffled(FlattenSeq(Rearranged(r, num)), left[r][1])
<1> DEFINE n == Len(left[r])
           mini == left[r][1]
           w == LenOf(mini)
           parts == MicroBatches(w, num)
           t == EachThrough(parts, mini)
<1>1. /\ n \in 1 .. Len(MiniBatches(r)) /\ mini = Mini(r, n) /\ mini \in Rows
  BY CurrentMini
<1>2. /\ LenOf(Mini(r, n)) \in Seq(Nat \ {0}) /\ Len(LenOf(Mini(r, n))) = Len(Mini(r, n))
      /\ Len(Mini(r, n)) \in Nat \ {0}
  BY <1>1, MiniShape DEF LockstepInv
<1>3. w \in Seq(Nat \ {0}) /\ Len(w) = Len(mini) /\ Len(mini) \in Nat \ {0}
  BY <1>1, <1>2
<1>4. Rearranged(r, num) = [p \in DOMAIN parts |-> [i \in DOMAIN parts[p] |-> mini[parts[p][i]]]]
  BY DEF Rearranged
<1> HIDE DEF n, mini, w
<1>5. w \in Seq(Nat) /\ w # << >>
  <2>1. Nat \ {0} \subseteq Nat
    OBVIOUS
  <2> QED BY <1>3, <2>1, SeqMonotonic, EmptySeq
<1>6. Len(parts) = num /\ ExactParts(parts, 1 .. Len(mini))
  BY <1>3, <1>5, MicroBatchesExact
<1> HIDE DEF parts
<1>7. mini \in Seq(Nat)
  BY <1>1 DEF Rows
<1>8. t \in Seq(Rows) /\ Len(t) = num /\ Shuffled(FlattenSeq(t), mini)
  BY <1>6, <1>7, MicroBatchesShuffle DEF Rows
<1>9. Rearranged(r, num) = t
  <2> DEFINE C == 1 .. Len(mini)
             Y == Seq(C)
  <2>1. parts \in Seq(Y)
    BY <1>6 DEF ExactParts
  <2> HIDE DEF C
  <2>2. DOMAIN parts = 1 .. Len(parts) /\ \A p \in 1 .. Len(parts) : parts[p] \in Y
    <3> HIDE DEF Y
    <3> QED BY <2>1, LenProperties, ElementOfSeq
  <2>3. \A p \in 1 .. Len(parts) : DOMAIN parts[p] = 1 .. Len(parts[p])
    BY <2>2, LenProperties
  <2> HIDE DEF Y
  <2>4. \A p \in DOMAIN parts :
          [i \in DOMAIN parts[p] |-> mini[parts[p][i]]] = Through(parts[p], mini)
    BY <2>2, <2>3 DEF Through
  <2>5. t = [p \in DOMAIN parts |-> Through(parts[p], mini)]
    BY <2>2 DEF EachThrough
  <2> QED BY <1>4, <2>4, <2>5
<1>10. t # << >>
  BY <1>8, EmptySeq
<1> QED BY <1>8, <1>9, <1>10 DEF mini

(* All agree on the number of micro-batches and plan as many passes, or    *)
(* all find it larger than their mini-batch.                               *)
LEMMA CountStep ==
  ASSUME LockstepInv, Calling, NEW r \in Ranks, Count(r), UNCHANGED use_dynamic_bsz
  PROVE  StepOK(r)
<1> DEFINE n == Len(left[r])
<1>1. /\ at[r] = "count" /\ Met(r)
      /\ UNCHANGED << use_dynamic_bsz, pc, lens, sent, left, wanted >>
  BY DEF Count, batchVars
<1>2. /\ TypeOK /\ LeftOK(r) /\ RankOK(r) /\ SentOK
  BY DEF LockstepInv
<1>3. /\ n \in Nat \ {0} /\ n \in 1 .. Len(MiniBatches(r))
      /\ n \in 1 .. Len(MiniBatches(0))
  BY <1>1, CurrentMini DEF Kinds
<1>4. /\ \A v : MiniBatches(v)' = MiniBatches(v)
      /\ \A v, l : Mini(v, l)' = Mini(v, l) /\ Want(v, l)' = Want(v, l)
  BY <1>1, Unmoved
<1>5. /\ plan[r] = << >> /\ calls[r] \in Seq(Kinds) /\ use_dynamic_bsz
      /\ calls[r] # << >> /\ calls[r][Len(calls[r])] = "count"
  BY <1>1, <1>2 DEF RankOK, TypeOK, Kinds
<1>6. Place(r) = << n, 0, "count" >>
  BY <1>1, <1>5 DEF Place
<1>7. LeftOK(r)'
  <2>1. LeftOK(r) /\ at[r] # "called" /\ left' = left
    BY <1>1, <1>2
  <2> QED BY <1>4, <2>1 DEF LeftOK
<1>8. wanted[r] = Want(r, n)
  BY <1>1, AllAsked
<1>9. Agreed(r) = Num(n) /\ Num(n) \in Nat \ {0}
  <2>1. {wanted[v] : v \in Ranks} = {Want(v, n) : v \in Ranks}
    <3>1. \A v \in Ranks : wanted[v] = Want(v, n)
      BY <1>1, AllAsked
    <3> QED BY <3>1
  <2>2. Agreed(r) = Num(n)
    BY <1>5, <2>1 DEF Agreed, Num
  <2>3. use_dynamic_bsz \in BOOLEAN
    BY <1>2 DEF TypeOK
  <2> QED BY <1>2, <1>3, <2>2, <2>3, NumShape
<1>10. CASE Agreed(r) > Len(left[r][1])
  <2>1. at' = [at EXCEPT ![r] = "raised"] /\ UNCHANGED << calls, plan >>
    BY <1>10 DEF Count
  <2>2. at'[r] = "raised"
    BY <1>2, <2>1 DEF TypeOK
  <2>3. TypeOK'
    <3>1. at' \in [Ranks -> Kinds \cup {"idle", "called", "mini_batch", "returned", "raised"}]
      BY <1>2, <2>1 DEF TypeOK
    <3> QED BY <1>1, <1>2, <2>1, <3>1 DEF TypeOK
  <2>4. RankOK(r)'
    BY <1>1, <1>3, <1>4, <1>5, <1>8, <2>1, <2>2 DEF RankOK, Kinds
  <2>5. OthersWait(r)
    BY <1>1, <1>2, <2>1 DEF OthersWait, TypeOK
  <2>6. Place(r)' = << n, 0, "count" >>
    BY <1>1, <1>5, <2>1, <2>2 DEF Place
  <2>7. Stays(r)
    BY <1>6, <2>1, <2>6 DEF Stays
  <2> QED BY <1>1, <1>7, <2>3, <2>4, <2>5, <2>7 DEF StepOK
<1>11. CASE ~ (Agreed(r) > Len(left[r][1]))
  <2> DEFINE parts == Rearranged(r, Agreed(r))
  <2>1. plan' = [plan EXCEPT ![r] = parts] /\ Enter(r, "forward")
    BY <1>11 DEF Count
  <2>2. parts \in Seq(Rows) /\ Len(parts) = Num(n) /\ parts # << >>
    BY <1>1, <1>9, RearrangedShape DEF Kinds
  <2> HIDE DEF parts
  <2>3. /\ at' \in [Ranks -> Kinds \cup {"idle", "called", "mini_batch", "returned", "raised"}]
        /\ calls' \in [Ranks -> Seq(Kinds)]
        /\ at'[r] = "forward"
        /\ calls' = [calls EXCEPT ![r] = Append(@, "forward")]
        /\ calls'[r] # << >> /\ calls'[r][Len(calls'[r])] = "forward"
        /\ \A v \in Ranks : v # r => at'[v] = at[v] /\ calls'[v] = calls[v]
    BY <1>2, <2>1, EnterType DEF Kinds
  <2>4. plan' \in [Ranks -> Seq(Rows)] /\ plan'[r] = parts
        /\ \A v \in Ranks : v # r => plan'[v] = plan[v]
    BY <1>2, <2>1, <2>2 DEF TypeOK
  <2>5. TypeOK'
    BY <1>1, <1>2, <2>3, <2>4 DEF TypeOK
  <2>6. RankOK(r)'
    BY <1>1, <1>3, <1>4, <1>5, <1>8, <2>2, <2>3, <2>4 DEF RankOK, Kinds
  <2>7. OthersWait(r)
    BY <1>1, <2>3, <2>4 DEF OthersWait
  <2>8. Place(r)' = << n, Num(n), "forward" >>
    BY <1>1, <2>2, <2>3, <2>4 DEF Place
  <2>9. Following(Course, Place(r)) = << n, Num(n), "forward" >>
    BY <1>3, <1>6 DEF Following, Course
  <2>10. Advances(r)
    BY <1>1, <2>3, <2>8, <2>9 DEF Advances
  <2> QED BY <1>1, <1>7, <2>5, <2>6, <2>7, <2>10 DEF StepOK
<1> QED BY <1>10, <1>11

(* The facts about a rank in a pass.                                       *)
LEMMA PassFacts ==
  ASSUME LockstepInv, Calling, NEW r \in Ranks, at[r] \in Kinds
  PROVE  /\ TypeOK /\ SentOK /\ LeftOK(r) /\ RankOK(r)
         /\ Len(left[r]) \in Nat \ {0} /\ left[r] \in Seq(Rows)
         /\ plan[r] \in Seq(Rows) /\ Len(plan[r]) \in Nat
         /\ (plan[r] # << >> =>
               /\ Len(plan[r]) > 0
               /\ Tail(plan[r]) \in Seq(Rows) /\ Len(Tail(plan[r])) = Len(plan[r]) - 1
               /\ (Tail(plan[r]) = << >> <=> Len(plan[r]) = 1))
         /\ (plan[r] = << >> => Len(plan[r]) = 0)
         /\ Place(r) = << Len(left[r]), Len(plan[r]), at[r] >>
<1>1. /\ TypeOK /\ SentOK /\ LeftOK(r) /\ RankOK(r)
  BY DEF LockstepInv
<1>2. Len(left[r]) \in Nat \ {0} /\ left[r] \in Seq(Rows)
  BY CurrentMini
<1>3. plan[r] \in Seq(Rows) /\ Len(plan[r]) \in Nat
  BY <1>1, LenProperties DEF TypeOK
<1>4. plan[r] # << >> =>
        /\ Len(plan[r]) > 0
        /\ Tail(plan[r]) \in Seq(Rows) /\ Len(Tail(plan[r])) = Len(plan[r]) - 1
        /\ (Tail(plan[r]) = << >> <=> Len(plan[r]) = 1)
  <2> DEFINE s == plan[r]
  <2> HIDE DEF s
  <2> SUFFICES ASSUME s # << >>
               PROVE  /\ Len(s) > 0
                      /\ Tail(s) \in Seq(Rows) /\ Len(Tail(s)) = Len(s) - 1
                      /\ (Tail(s) = << >> <=> Len(s) = 1)
    BY DEF s
  <2>1. s \in Seq(Rows) /\ Len(s) \in Nat
    BY <1>3 DEF s
  <2>2. Len(s) # 0
    BY <2>1, EmptySeq
  <2>3. Tail(s) \in Seq(Rows) /\ Len(Tail(s)) = Len(s) - 1
    BY <2>1, HeadTailProperties
  <2>4. Tail(s) = << >> <=> Len(Tail(s)) = 0
    BY <2>3, EmptySeq
  <2> QED BY <2>1, <2>2, <2>3, <2>4
<1>5. plan[r] = << >> => Len(plan[r]) = 0
  BY EmptySeq
<1>6. Place(r) = << Len(left[r]), Len(plan[r]), at[r] >>
  BY DEF Place, Kinds
<1> QED BY <1>1, <1>2, <1>3, <1>4, <1>5, <1>6

(* After a forward pass comes the backward pass in training, the next      *)
(* forward pass or the end of the call otherwise.                          *)
LEMMA ForwardStep ==
  ASSUME LockstepInv, Calling, NEW r \in Ranks, Forward(r), UNCHANGED use_dynamic_bsz
  PROVE  StepOK(r)
<1> DEFINE n == Len(left[r])
           p == Len(plan[r])
<1>1. /\ at[r] = "forward" /\ Met(r)
      /\ UNCHANGED << use_dynamic_bsz, pc, lens, sent, left, wanted >>
  BY DEF Forward, batchVars
<1>2. at[r] \in Kinds /\ {"forward", "backward"} \subseteq Kinds
  BY <1>1 DEF Kinds
<1>3. /\ TypeOK /\ SentOK /\ LeftOK(r) /\ RankOK(r)
      /\ n \in Nat \ {0} /\ plan[r] \in Seq(Rows) /\ p \in Nat \ {0}
      /\ plan[r] # << >>
      /\ Tail(plan[r]) \in Seq(Rows) /\ Len(Tail(plan[r])) = p - 1
      /\ (Tail(plan[r]) = << >> <=> p = 1)
      /\ Place(r) = << n, p, "forward" >>
  <2>1. plan[r] # << >>
    BY <1>1 DEF LockstepInv, RankOK
  <2> QED BY <1>1, <1>2, <2>1, PassFacts
<1>4. /\ \A v : MiniBatches(v)' = MiniBatches(v)
      /\ \A v, l : Mini(v, l)' = Mini(v, l) /\ Want(v, l)' = Want(v, l)
  BY <1>1, Unmoved
<1>5. calls[r] # << >> /\ calls[r][Len(calls[r])] = "forward" /\ calls[r] \in Seq(Kinds)
      /\ (use_dynamic_bsz => wanted[r] = Want(r, n))
  BY <1>1, <1>2, <1>3 DEF RankOK, TypeOK
<1>6. LeftOK(r)'
  <2>1. LeftOK(r) /\ at[r] # "called" /\ left' = left
    BY <1>1, <1>3
  <2> QED BY <1>4, <2>1 DEF LeftOK
<1>7. CASE pc = "update_actor" /\ Enter(r, "backward") /\ UNCHANGED << plan, outputs >>
  <2>1. /\ at' \in [Ranks -> Kinds \cup {"idle", "called", "mini_batch", "returned", "raised"}]
        /\ calls' \in [Ranks -> Seq(Kinds)]
        /\ at'[r] = "backward"
        /\ calls' = [calls EXCEPT ![r] = Append(@, "backward")]
        /\ calls'[r] # << >> /\ calls'[r][Len(calls'[r])] = "backward"
        /\ \A v \in Ranks : v # r => at'[v] = at[v] /\ calls'[v] = calls[v]
    BY <1>2, <1>3, <1>7, EnterType
  <2>2. TypeOK'
    BY <1>1, <1>3, <1>7, <2>1 DEF TypeOK
  <2>3. RankOK(r)'
    BY <1>1, <1>3, <1>4, <1>5, <1>7, <2>1 DEF RankOK, Kinds
  <2>4. OthersWait(r)
    BY <1>1, <1>7, <2>1 DEF OthersWait
  <2>5. Place(r)' = << n, p, "backward" >>
    BY <1>1, <1>7, <2>1 DEF Place
  <2>6. Following(Course, Place(r)) = << n, p, "backward" >>
    <3>1. Course.training
      BY <1>7 DEF Course
    <3> QED BY <1>3, <3>1 DEF Following
  <2>7. Advances(r)
    BY <1>1, <2>1, <2>5, <2>6 DEF Advances
  <2> QED BY <1>1, <1>6, <2>2, <2>3, <2>4, <2>7 DEF StepOK
<1>8. CASE /\ pc = "log_prob"
           /\ plan' = [plan EXCEPT ![r] = Tail(@)]
           /\ p > 1 /\ Enter(r, "forward")
  <2>1. /\ at' \in [Ranks -> Kinds \cup {"idle", "called", "mini_batch", "returned", "raised"}]
        /\ calls' \in [Ranks -> Seq(Kinds)]
        /\ at'[r] = "forward"
        /\ calls' = [calls EXCEPT ![r] = Append(@, "forward")]
        /\ calls'[r] # << >> /\ calls'[r][Len(calls'[r])] = "forward"
        /\ \A v \in Ranks : v # r => at'[v] = at[v] /\ calls'[v] = calls[v]
    BY <1>2, <1>3, <1>8, EnterType
  <2>10. plan' \in [Ranks -> Seq(Rows)] /\ plan'[r] = Tail(plan[r])
         /\ \A v \in Ranks : v # r => plan'[v] = plan[v]
    BY <1>3, <1>8 DEF TypeOK
  <2>2. TypeOK'
    BY <1>1, <1>3, <2>1, <2>10 DEF TypeOK
  <2>3. RankOK(r)'
    BY <1>1, <1>3, <1>4, <1>5, <1>8, <2>1, <2>10 DEF RankOK, Kinds
  <2>4. OthersWait(r)
    BY <1>1, <2>1, <2>10 DEF OthersWait
  <2>5. Place(r)' = << n, p - 1, "forward" >>
    BY <1>1, <1>3, <2>1, <2>10 DEF Place
  <2>6. Following(Course, Place(r)) = << n, p - 1, "forward" >>
    <3>1. ~ Course.training
      BY <1>8 DEF Course
    <3> QED BY <1>3, <1>8, <3>1 DEF Following
  <2>7. Advances(r)
    BY <1>1, <2>1, <2>5, <2>6 DEF Advances
  <2> QED BY <1>1, <1>6, <2>2, <2>3, <2>4, <2>7 DEF StepOK
<1>9. CASE /\ pc = "log_prob"
           /\ plan' = [plan EXCEPT ![r] = Tail(@)]
           /\ p = 1 /\ at' = [at EXCEPT ![r] = "returned"]
           /\ UNCHANGED calls
  <2>1. /\ at' \in [Ranks -> Kinds \cup {"idle", "called", "mini_batch", "returned", "raised"}]
        /\ at'[r] = "returned"
        /\ \A v \in Ranks : v # r => at'[v] = at[v]
    BY <1>3, <1>9 DEF TypeOK
  <2>10. plan' \in [Ranks -> Seq(Rows)] /\ plan'[r] = << >>
         /\ \A v \in Ranks : v # r => plan'[v] = plan[v]
    BY <1>3, <1>9 DEF TypeOK
  <2>2. TypeOK'
    BY <1>1, <1>3, <1>9, <2>1, <2>10 DEF TypeOK
  <2>20. n = 1
    <3>1. Len(MiniBatches(r)) = 1
      <4>1. MiniBatches(r) = << Share(sent, r) >>
        BY <1>9 DEF MiniBatches
      <4> QED BY <4>1
    <3>2. n <= Len(MiniBatches(r))
      BY <1>1, <1>3 DEF LeftOK
    <3>3. n <= 1 /\ n \in Nat /\ n # 0
      BY <1>3, <3>1, <3>2
    <3> HIDE DEF n
    <3> QED BY <3>3
  <2>21. Met(r)'
    BY <1>1, <1>9 DEF Met
  <2>3. RankOK(r)'
    BY <1>1, <1>3, <1>4, <1>5, <1>9, <2>1, <2>10, <2>20, <2>21 DEF RankOK, Kinds
  <2>4. OthersWait(r)
    BY <1>1, <1>9, <2>1, <2>10 DEF OthersWait
  <2>5. Place(r)' = << 1, 1, "forward" >>
    BY <1>1, <1>9, <2>1 DEF Place
  <2>7. Stays(r)
    BY <1>3, <1>9, <2>5, <2>20 DEF Stays
  <2> QED BY <1>1, <1>6, <2>2, <2>3, <2>4, <2>7 DEF StepOK
<1> QED BY <1>7, <1>8, <1>9 DEF Forward

(* After a backward pass comes the next micro-batch or the norm of the     *)
(* gradient.                                                               *)
LEMMA BackwardStep ==
  ASSUME LockstepInv, Calling, NEW r \in Ranks, NEW fine, Backward(r, fine),
         UNCHANGED use_dynamic_bsz
  PROVE  StepOK(r)
<1> DEFINE n == Len(left[r])
           p == Len(plan[r])
<1>1. /\ at[r] = "backward" /\ Met(r)
      /\ plan' = [plan EXCEPT ![r] = Tail(@)]
      /\ UNCHANGED << use_dynamic_bsz, pc, lens, sent, left, wanted >>
  BY DEF Backward, batchVars
<1>2. at[r] \in Kinds /\ {"forward", "clip"} \subseteq Kinds
  BY <1>1 DEF Kinds
<1>3. /\ TypeOK /\ SentOK /\ LeftOK(r) /\ RankOK(r)
      /\ n \in Nat \ {0} /\ plan[r] \in Seq(Rows) /\ p \in Nat \ {0}
      /\ plan[r] # << >>
      /\ Tail(plan[r]) \in Seq(Rows) /\ Len(Tail(plan[r])) = p - 1
      /\ (Tail(plan[r]) = << >> <=> p = 1)
      /\ Place(r) = << n, p, "backward" >>
  <2>1. plan[r] # << >>
    BY <1>1 DEF LockstepInv, RankOK
  <2> QED BY <1>1, <1>2, <2>1, PassFacts
<1>4. /\ \A v : MiniBatches(v)' = MiniBatches(v)
      /\ \A v, l : Mini(v, l)' = Mini(v, l) /\ Want(v, l)' = Want(v, l)
  BY <1>1, Unmoved
<1>5. /\ pc = "update_actor"
      /\ (use_dynamic_bsz => wanted[r] = Want(r, n))
  BY <1>1, <1>2, <1>3 DEF RankOK, TypeOK
<1>6. LeftOK(r)'
  <2>1. LeftOK(r) /\ at[r] # "called" /\ left' = left
    BY <1>1, <1>3
  <2> QED BY <1>4, <2>1 DEF LeftOK
<1>10. plan' \in [Ranks -> Seq(Rows)] /\ plan'[r] = Tail(plan[r])
       /\ \A v \in Ranks : v # r => plan'[v] = plan[v]
  BY <1>1, <1>3 DEF TypeOK
<1>7. PICK kind \in {"forward", "clip"} :
        /\ Enter(r, kind)
        /\ kind = "forward" => p > 1
        /\ kind = "clip" => p = 1
  BY DEF Backward
<1>8. /\ at' \in [Ranks -> Kinds \cup {"idle", "called", "mini_batch", "returned", "raised"}]
      /\ calls' \in [Ranks -> Seq(Kinds)]
      /\ at'[r] = kind
      /\ calls' = [calls EXCEPT ![r] = Append(@, kind)]
      /\ calls'[r] # << >> /\ calls'[r][Len(calls'[r])] = kind
      /\ \A v \in Ranks : v # r => at'[v] = at[v] /\ calls'[v] = calls[v]
  BY <1>2, <1>3, <1>7, EnterType
<1>9. TypeOK'
  BY <1>1, <1>3, <1>8, <1>10 DEF TypeOK
<1>11. RankOK(r)'
  <2>1. CASE kind = "forward"
    BY <1>1, <1>3, <1>4, <1>5, <1>7, <1>8, <1>10, <2>1 DEF RankOK, Kinds
  <2>2. CASE kind = "clip"
    <3>1. at'[r] = "clip" /\ calls'[r] # << >> /\ calls'[r][Len(calls'[r])] = at'[r]
      BY <1>8, <2>2
    <3>2. plan'[r] = << >>
      BY <1>3, <1>7, <1>10, <2>2
    <3>3. pc' = "update_actor" /\ Len(left'[r]) > 0
      BY <1>1, <1>3, <1>5
    <3>4. use_dynamic_bsz' => wanted'[r] = Want(r, Len(left[r]))'
      BY <1>1, <1>4, <1>5
    <3> QED BY <3>1, <3>2, <3>3, <3>4 DEF RankOK, Kinds
  <2> QED BY <2>1, <2>2
<1>12. OthersWait(r)
  BY <1>1, <1>8, <1>10 DEF OthersWait
<1>13. Place(r)' = << n, p - 1, kind >>
  BY <1>1, <1>3, <1>7, <1>8, <1>10 DEF Place
<1>14. Following(Course, Place(r)) = << n, p - 1, kind >>
  <2>1. CASE kind = "forward"
    BY <1>3, <1>7, <2>1 DEF Following
  <2>2. CASE kind = "clip"
    <3>1. p - 1 = 0 /\ ~ (p > 1)
      <4>1. p = 1
        BY <1>7, <2>2
      <4> HIDE DEF p
      <4> QED BY <4>1
    <3> HIDE DEF n, p
    <3>2. Following(Course, Place(r)) = << n, 0, "clip" >>
      BY <1>3, <3>1 DEF Following
    <3> QED BY <2>2, <3>1, <3>2
  <2> QED BY <2>1, <2>2
<1>15. Advances(r)
  BY <1>1, <1>8, <1>13, <1>14 DEF Advances
<1> QED BY <1>1, <1>6, <1>9, <1>11, <1>12, <1>15 DEF StepOK

(* After the norm comes the next mini-batch or the end of the call.        *)
LEMMA ClipStep ==
  ASSUME LockstepInv, Calling, NEW r \in Ranks, Clip(r), UNCHANGED use_dynamic_bsz
  PROVE  StepOK(r)
<1> DEFINE n == Len(left[r])
           kind == IF n > 1 THEN "mini_batch" ELSE "returned"
<1>1. /\ at[r] = "clip" /\ Met(r)
      /\ left' = [left EXCEPT ![r] = Tail(@)]
      /\ at' = [at EXCEPT ![r] = kind]
      /\ UNCHANGED << use_dynamic_bsz, pc, lens, sent, calls, plan, wanted >>
  BY DEF Clip, batchVars
<1>2. at[r] \in Kinds
  BY <1>1 DEF Kinds
<1>3. /\ TypeOK /\ SentOK /\ LeftOK(r) /\ RankOK(r)
      /\ n \in Nat \ {0} /\ left[r] \in Seq(Rows)
      /\ Place(r) = << n, Len(plan[r]), "clip" >>
  BY <1>1, <1>2, PassFacts
<1>4. /\ \A v : MiniBatches(v)' = MiniBatches(v)
      /\ \A v, l : Mini(v, l)' = Mini(v, l) /\ Want(v, l)' = Want(v, l)
  BY <1>1, Unmoved
<1>5. pc = "update_actor" /\ plan[r] = << >> /\ Len(plan[r]) = 0
  BY <1>1, <1>3, EmptySeq DEF RankOK
<1>6. /\ Tail(left[r]) \in Seq(Rows) /\ Len(Tail(left[r])) = n - 1
      /\ \A i \in 1 .. n - 1 : Tail(left[r])[i] = left[r][i + 1]
  BY <1>3, EmptySeq, HeadTailProperties
<1>7. /\ left' \in [Ranks -> Seq(Rows)] /\ left'[r] = Tail(left[r])
      /\ at' \in [Ranks -> Kinds \cup {"idle", "called", "mini_batch", "returned", "raised"}]
      /\ at'[r] = kind
      /\ \A v \in Ranks : v # r => at'[v] = at[v] /\ left'[v] = left[v]
  BY <1>1, <1>3, <1>6 DEF TypeOK
<1>8. TypeOK'
  BY <1>1, <1>3, <1>7 DEF TypeOK
<1>9. LeftOK(r)'
  <2>1. /\ n <= Len(MiniBatches(r)) /\ Len(MiniBatches(r)) \in Nat
        /\ \A l \in 1 .. n : left[r][n + 1 - l] = Mini(r, l)
    <3>1. Len(MiniBatches(r)) \in Nat
      BY <1>3, MinisShape
    <3> QED BY <1>1, <1>3, <3>1 DEF LeftOK
  <2>2. Len(left'[r]) = n - 1 /\ n - 1 <= Len(MiniBatches(r)')
    BY <1>3, <1>4, <1>6, <1>7, <2>1
  <2>3. ASSUME NEW l \in 1 .. n - 1
        PROVE  left'[r][(n - 1) + 1 - l] = Mini(r, l)
    <3>1. (n - 1) + 1 - l \in 1 .. n - 1 /\ ((n - 1) + 1 - l) + 1 = n + 1 - l /\ l \in 1 .. n
      BY <1>3
    <3> QED BY <1>6, <1>7, <2>1, <3>1
  <2>4. \A l \in 1 .. Len(left'[r]) : left'[r][Len(left'[r]) + 1 - l] = Mini(r, l)'
    BY <1>4, <2>2, <2>3
  <2> QED BY <2>2, <2>4 DEF LeftOK
<1>10. Met(r)'
  BY <1>1 DEF Met
<1>11. RankOK(r)'
  BY <1>1, <1>3, <1>5, <1>6, <1>7, <1>10 DEF RankOK, Kinds
<1>12. OthersWait(r)
  BY <1>1, <1>7 DEF OthersWait
<1>13. Place(r)' = << n, 0, "clip" >>
  BY <1>1, <1>3, <1>5, <1>6, <1>7 DEF Place
<1>14. Stays(r)
  BY <1>1, <1>3, <1>5, <1>13 DEF Stays
<1> QED BY <1>1, <1>8, <1>9, <1>11, <1>12, <1>14 DEF StepOK

(* A rank that fails stays where it was.                                   *)
LEMMA FailStep ==
  ASSUME LockstepInv, Calling, NEW r \in Ranks, Fail(r), UNCHANGED use_dynamic_bsz
  PROVE  StepOK(r)
<1>1. /\ at[r] \in {"forward", "backward"}
      /\ at' = [at EXCEPT ![r] = "raised"]
      /\ UNCHANGED << use_dynamic_bsz, pc, lens, sent, calls, left, plan, wanted >>
  BY DEF Fail, batchVars
<1>2. at[r] \in Kinds
  BY <1>1 DEF Kinds
<1>3. /\ TypeOK /\ SentOK /\ LeftOK(r) /\ RankOK(r)
      /\ Len(left[r]) \in Nat \ {0}
      /\ Place(r) = << Len(left[r]), Len(plan[r]), at[r] >>
  BY <1>1, <1>2, PassFacts
<1>4. /\ \A v : MiniBatches(v)' = MiniBatches(v)
      /\ \A v, l : Mini(v, l)' = Mini(v, l) /\ Want(v, l)' = Want(v, l)
  BY <1>1, Unmoved
<1>5. /\ at' \in [Ranks -> Kinds \cup {"idle", "called", "mini_batch", "returned", "raised"}]
      /\ at'[r] = "raised"
      /\ \A v \in Ranks : v # r => at'[v] = at[v]
  BY <1>1, <1>3 DEF TypeOK
<1>6. LeftOK(r)'
  <2>1. LeftOK(r) /\ at[r] # "called" /\ left' = left
    BY <1>1, <1>3
  <2> QED BY <1>4, <2>1 DEF LeftOK
<1>7. calls[r] # << >> /\ calls[r][Len(calls[r])] = at[r]
      /\ (use_dynamic_bsz => wanted[r] = Want(r, Len(left[r])))
  BY <1>2, <1>3 DEF RankOK
<1>8. TypeOK'
  BY <1>1, <1>3, <1>5 DEF TypeOK
<1>9. RankOK(r)'
  BY <1>1, <1>3, <1>4, <1>5, <1>7 DEF RankOK, Kinds
<1>10. OthersWait(r)
  BY <1>1, <1>5 DEF OthersWait
<1>11. Stays(r)
  BY <1>1, <1>3, <1>5, <1>7 DEF Stays, Place
<1> QED BY <1>1, <1>6, <1>8, <1>9, <1>10, <1>11 DEF StepOK

-----------------------------------------------------------------------------
(* fit calls the ranks and waits for them.                                 *)

(* A finite set can be listed.                                             *)
LEMMA ListOfSet ==
  ASSUME NEW S, IsFiniteSet(S), S # {}
  PROVE  SetToSeq(S) \in Seq(S) /\ SetToSeq(S) # << >>
<1> DEFINE n == Cardinality(S)
           D == 1 .. n
<1>1. n \in Nat \ {0}
  BY FS_CardinalityType, FS_EmptySet
<1>2. ExistsBijection(D, S)
  <2>1. IsFiniteSet(D) /\ Cardinality(D) = n
    BY <1>1, FirstNumbers
  <2> HIDE DEF D
  <2> QED BY <2>1, FS_SameCardinalityBij
<1>3. \E f \in [D -> S] : IsInjective(f)
  <2>1. PICK f : f \in Bijection(D, S)
    BY <1>2 DEF ExistsBijection
  <2> HIDE DEF D
  <2>2. f \in [D -> S] /\ \A a, b \in D : f[a] = f[b] => a = b
    BY <2>1, Fun_BijectionProperties, Zenon
  <2> QED BY <2>2 DEF IsInjective
<1>4. SetToSeq(S) \in [1 .. n -> S]
  BY <1>3 DEF SetToSeq
<1> HIDE DEF n
<1>5. SetToSeq(S) \in Seq(S) /\ Len(SetToSeq(S)) = n
  BY <1>1, <1>4, FunctionIsSeq
<1> QED BY <1>1, <1>5, EmptySeq

(* Every rank gets as many of the rows that are padded.                    *)
LEMMA PaddedEven ==
  ASSUME NEW D, NEW rows \in Seq(D), rows # << >>
  PROVE  Even(Padded(rows, World), D)
<1> DEFINE n == Len(rows)
           w == World
           c == CeilDiv(n, w)
           m == c * w
           t == [i \in 1 .. m |-> rows[((i - 1) % n) + 1]]
<1>1. n \in Nat \ {0} /\ w \in Nat \ {0}
  BY EmptySeq, Sizes
<1>2. Padded(rows, World) = t
  BY DEF Padded
<1>3. \A i \in 1 .. n : rows[i] \in D
  BY ElementOfSeq
<1> HIDE DEF n, w
<1>4. c \in Nat \ {0}
  BY <1>1, CeilDivPositive
<1> HIDE DEF c
<1>5. m \in Nat \ {0} /\ m % w = 0
  <2>1. m \in Nat \ {0}
    BY <1>1, <1>4
  <2>2. (c * w) % w = 0
    BY <1>1, <1>4
  <2> QED BY <2>1, <2>2
<1> HIDE DEF m
<1>6. t \in [1 .. m -> D]
  <2>1. ASSUME NEW i \in 1 .. m PROVE ((i - 1) % n) + 1 \in 1 .. n
    BY <1>1, <1>5
  <2> QED BY <1>3, <2>1
<1> HIDE DEF t
<1>7. t \in Seq(D) /\ Len(t) = m
  BY <1>5, <1>6, FunctionIsSeq
<1>8. t # << >>
  BY <1>5, <1>7, EmptySeq
<1> QED BY <1>2, <1>5, <1>7, <1>8 DEF Even, w

(* The rows of a batch are as many for every rank.                         *)
LEMMA BatchEven ==
  ASSUME NEW batch \in Batches
  PROVE  /\ batch \in Seq(Nat \ {0}) /\ batch # << >>
         /\ DOMAIN batch = 1 .. Len(batch) /\ Len(batch) \in Nat \ {0}
         /\ Even([i \in DOMAIN batch |-> i], DOMAIN batch)
<1> DEFINE n == Len(batch)
           D == 1 .. n
           s == [i \in D |-> i]
<1>1. batch \in Seq(Nat \ {0}) /\ batch # << >> /\ n % World = 0
  BY UpdateAssumption DEF World
<1>2. DOMAIN batch = D /\ n \in Nat \ {0}
  BY <1>1, EmptySeq, LenProperties
<1>3. s \in [1 .. n -> D]
  OBVIOUS
<1> HIDE DEF n, s, D
<1>4. s \in Seq(D) /\ Len(s) = n
  BY <1>2, <1>3, FunctionIsSeq
<1>5. Even(s, D)
  BY <1>1, <1>2, <1>4, EmptySeq DEF Even, n
<1> QED BY <1>1, <1>2, <1>5 DEF n, D, s

(* The call of the ranks: all are at the start of the same course.         *)
LEMMA CallStep ==
  ASSUME LockstepInv, ~ Calling,
         pc' \in {"log_prob", "update_actor"},
         lens' \in Batches,
         Even(sent', DOMAIN lens'),
         pc' = "log_prob" => sent' = [i \in DOMAIN lens' |-> i],
         at' = Everywhere("called"), calls' = Everywhere(<< >>),
         UNCHANGED << use_dynamic_bsz, left, plan, wanted >>
  PROVE  LockstepInv'
<1>1. TypeOK /\ AtRest
  BY DEF LockstepInv
<1>2. \A r \in Ranks : at'[r] = "called" /\ calls'[r] = << >> /\ plan'[r] = << >>
  BY <1>1 DEF AtRest, Everywhere
<1>3. Calling'
  BY DEF Calling
<1>4. TypeOK'
  <2>1. << >> \in Seq(Kinds)
    OBVIOUS
  <2> QED BY <1>1, <2>1 DEF TypeOK, Everywhere
<1>5. SentOK'
  BY DEF SentOK, Even
<1>6. \A r \in Ranks : LeftOK(r)' /\ RankOK(r)'
  BY <1>2 DEF LeftOK, RankOK, Kinds
<1>7. ASSUME NEW r \in Ranks, NEW v \in Ranks PROVE InStep(r, v)'
  <2> DEFINE whole == pc' = "log_prob"
  <2>1. /\ MiniBatches(r)' = MinisOf(sent', whole, r)
        /\ MiniBatches(v)' = MinisOf(sent', whole, v)
    BY DEF MiniBatches, MinisOf, Share
  <2> HIDE DEF whole
  <2>2. Alike(MinisOf(sent', whole, r), MinisOf(sent', whole, v))
    BY MinisAlike
  <2>3. Len(MiniBatches(r)') = Len(MiniBatches(v)')
    BY <2>1, <2>2 DEF Alike
  <2>4. Place(r)' = Place(v)'
    BY <1>2, <2>3 DEF Place
  <2>5. Len(calls'[r]) = 0 /\ Len(calls'[v]) = 0 /\ calls'[r] = calls'[v]
    BY <1>2
  <2>6. Paced(Course', calls'[r], Place(r)', calls'[v], Place(v)')
    BY <2>4, <2>5 DEF Paced
  <2> QED BY <2>6 DEF InStep
<1> QED BY <1>3, <1>4, <1>5, <1>6, <1>7 DEF LockstepInv

(* All have returned: all have entered the same.                           *)
LEMMA AllReturned ==
  ASSUME LockstepInv, Calling, Returned
  PROVE  AtRest
<1>1. ASSUME NEW r \in Ranks, NEW v \in Ranks
      PROVE  at[r] = "returned" /\ plan[r] = << >> /\ calls[r] = calls[v]
  <2>1. RankOK(r) /\ RankOK(v) /\ TypeOK
        /\ Paced(Course, calls[r], Place(r), calls[v], Place(v))
    BY DEF LockstepInv, InStep
  <2>2. at[r] = "returned" /\ at[v] = "returned" /\ plan[r] = << >> /\ Met(r) /\ Met(v)
    BY <2>1 DEF Returned, RankOK
  <2>3. Len(calls[r]) \in Nat /\ Len(calls[v]) \in Nat
    BY <2>1, LenProperties DEF TypeOK
  <2>4. Len(calls[r]) = Len(calls[v])
    BY <2>2, <2>3 DEF Met
  <2> QED BY <2>1, <2>2, <2>4 DEF Paced
<1> QED BY <1>1 DEF AtRest

(* Between the calls the ranks do nothing.                                 *)
LEMMA RestStep ==
  ASSUME LockstepInv, AtRest, ~ Calling',
         pc' \in {"rollout", "values", "update_critic", "save"},
         pc' # "rollout" => lens' \in Batches,
         UNCHANGED << use_dynamic_bsz, at, calls, left, plan, wanted >>
  PROVE  LockstepInv'
<1>1. TypeOK'
  BY DEF LockstepInv, TypeOK
<1>2. SentOK'
  BY DEF SentOK, Calling
<1>3. AtRest'
  BY DEF AtRest
<1> QED BY <1>1, <1>2, <1>3 DEF LockstepInv

(* Nothing has been called: the job has just been started.                 *)
LEMMA StartLockstep ==
  ASSUME pc' = "rollout", use_dynamic_bsz' \in BOOLEAN, at' = Everywhere("idle"),
         calls' = Everywhere(<< >>), left' = Everywhere(<< >>),
         wanted' = Everywhere(0), plan' = Everywhere(<< >>)
  PROVE  LockstepInv'
<1>1. << >> \in Seq(Kinds) /\ << >> \in Seq(Rows)
  OBVIOUS
<1>2. ~ Calling'
  BY DEF Calling
<1>3. TypeOK'
  BY <1>1 DEF TypeOK, Everywhere
<1>4. SentOK'
  BY <1>2 DEF SentOK
<1>5. AtRest'
  BY DEF AtRest, Everywhere
<1> QED BY <1>2, <1>3, <1>4, <1>5 DEF LockstepInv

(* At the start no rank has been called.                                   *)
LEMMA InitLockstep ==
  ASSUME Init
  PROVE  LockstepInv
<1>1. << >> \in Seq(Kinds) /\ << >> \in Seq(Rows)
  OBVIOUS
<1>2. ~ Calling
  BY DEF Calling, Init
<1>3. TypeOK
  BY <1>1, UpdateAssumption DEF TypeOK, Everywhere, Init
<1>4. SentOK
  BY <1>2 DEF SentOK, Init
<1>5. AtRest
  BY DEF AtRest, Everywhere, Init
<1> QED BY <1>2, <1>3, <1>4, <1>5 DEF LockstepInv

(* What fit does keeps the ranks in step.                                  *)
LEMMA DriverLockstep ==
  ASSUME LockstepInv, Driver, UNCHANGED use_dynamic_bsz
  PROVE  LockstepInv'
<1>1. TypeOK /\ SentOK /\ (~ Calling => AtRest)
  BY DEF LockstepInv
<1>2. CASE \E batch \in Batches : Rollout(batch)
  <2>1. PICK batch \in Batches : Rollout(batch)
    BY <1>2
  <2>2. /\ pc = "rollout" /\ pc' = "log_prob" /\ lens' = batch
        /\ sent' = [i \in DOMAIN batch |-> i]
        /\ at' = Everywhere("called") /\ calls' = Everywhere(<< >>)
        /\ UNCHANGED << use_dynamic_bsz, left, plan, wanted >>
    BY <2>1 DEF Rollout, Call
  <2>3. Even(sent', DOMAIN lens')
    BY <2>2, BatchEven
  <2>4. ~ Calling
    BY <2>2 DEF Calling
  <2> QED BY <2>2, <2>3, <2>4, CallStep
<1>3. CASE CollectLogProbs
  <2>1. /\ pc = "log_prob" /\ Returned /\ pc' = "values"
        /\ UNCHANGED << lens, at, calls, left, plan, wanted >>
    BY <1>3 DEF CollectLogProbs, rankVars
  <2>2. AtRest /\ lens \in Batches
    BY <1>1, <2>1, AllReturned DEF Calling, SentOK
  <2>3. ~ Calling'
    BY <2>1 DEF Calling
  <2> QED BY <2>1, <2>2, <2>3, RestStep
<1>4. CASE ComputeValues
  <2>1. /\ pc = "values" /\ pc' = "update_critic"
        /\ UNCHANGED << lens, at, calls, left, plan, wanted >>
    BY <1>4 DEF ComputeValues, rankVars
  <2>2. AtRest /\ lens \in Batches
    BY <1>1, <2>1 DEF Calling, SentOK
  <2>3. ~ Calling'
    BY <2>1 DEF Calling
  <2> QED BY <2>1, <2>2, <2>3, RestStep
<1>5. CASE \E r \in Ranks, steps \in 0 .. CriticEpochs : UpdateCritic(r, steps)
  <2>1. /\ pc = "update_critic" /\ pc' = "update_critic"
        /\ UNCHANGED << lens, at, calls, left, plan, wanted >>
    BY <1>5 DEF UpdateCritic, rankVars, batchVars
  <2>2. AtRest /\ lens \in Batches
    BY <1>1, <2>1 DEF Calling, SentOK
  <2>3. ~ Calling'
    BY <2>1 DEF Calling
  <2> QED BY <2>1, <2>2, <2>3, RestStep
<1>6. CASE \E useful \in SUBSET DOMAIN lens : UpdateActor(useful)
  <2>1. PICK useful \in SUBSET DOMAIN lens : UpdateActor(useful)
    BY <1>6
  <2> DEFINE rows == Ascending(SetToSeq(useful))
  <2>2. pc = "update_critic" /\ UNCHANGED << lens, left, wanted, plan >>
    BY <2>1 DEF UpdateActor
  <2>3. AtRest /\ lens \in Batches /\ ~ Calling
    BY <1>1, <2>2 DEF Calling, SentOK
  <2>4. CASE useful # {} /\ pc' = "update_actor" /\ Call(Padded(rows, World))
    <3>1. IsFiniteSet(useful)
      <4>1. DOMAIN lens = 1 .. Len(lens) /\ Len(lens) \in Nat
        BY <2>3, BatchEven
      <4>2. IsFiniteSet(1 .. Len(lens))
        BY <4>1, FirstNumbers
      <4> QED BY <4>1, <4>2, FS_Subset
    <3>2. SetToSeq(useful) \in Seq(useful) /\ SetToSeq(useful) # << >>
      BY <2>4, <3>1, ListOfSet
    <3>3. rows \in Seq(useful) /\ Len(rows) = Len(SetToSeq(useful))
      BY <3>2, SortedAscending DEF Rearranges
    <3>4. rows \in Seq(DOMAIN lens) /\ rows # << >>
      <4> HIDE DEF rows
      <4>1. rows \in Seq(DOMAIN lens)
        BY <3>3, SeqMonotonic
      <4>2. Len(rows) # 0
        BY <3>2, <3>3, EmptySeq
      <4> QED BY <4>1, <4>2, EmptySeq
    <3> HIDE DEF rows
    <3>5. Even(Padded(rows, World), DOMAIN lens)
      BY <3>4, PaddedEven
    <3>6. /\ sent' = Padded(rows, World) /\ at' = Everywhere("called")
          /\ calls' = Everywhere(<< >>)
      BY <2>4 DEF Call
    <3> QED BY <2>2, <2>3, <2>4, <3>5, <3>6, CallStep
  <2>5. CASE pc' = "save" /\ UNCHANGED << at, calls >>
    <3>1. ~ Calling'
      BY <2>5 DEF Calling
    <3> QED BY <2>2, <2>3, <2>5, <3>1, RestStep
  <2> QED BY <2>1, <2>4, <2>5 DEF UpdateActor
<1>7. CASE ActorUpdated
  <2>1. /\ pc = "update_actor" /\ Returned /\ pc' = "save"
        /\ UNCHANGED << lens, at, calls, left, plan, wanted >>
    BY <1>7 DEF ActorUpdated, rankVars
  <2>2. AtRest /\ lens \in Batches
    BY <1>1, <2>1, AllReturned DEF Calling, SentOK
  <2>3. ~ Calling'
    BY <2>1 DEF Calling
  <2> QED BY <2>1, <2>2, <2>3, RestStep
<1>8. CASE \E save \in BOOLEAN : NextStep(save)
  <2>1. /\ pc = "save" /\ pc' = "rollout"
        /\ UNCHANGED << lens, at, calls, left, plan, wanted >>
    BY <1>8 DEF NextStep, rankVars
  <2>2. AtRest
    BY <1>1, <2>1 DEF Calling
  <2>3. ~ Calling'
    BY <2>1 DEF Calling
  <2> QED BY <2>1, <2>2, <2>3, RestStep
<1>9. CASE Relaunch
  BY <1>1, <1>9, StartLockstep DEF Relaunch, TypeOK
<1> QED BY <1>2, <1>3, <1>4, <1>5, <1>6, <1>7, <1>8, <1>9 DEF Driver

(* A rank moves in a call only, and then in step.                          *)
LEMMA RankSteps ==
  ASSUME LockstepInv, NEW r \in Ranks, Rank(r) \/ Fail(r), UNCHANGED use_dynamic_bsz
  PROVE  Calling /\ StepOK(r)
<1>1. Calling
  <2>1. at[r] \notin {"idle", "returned"}
    BY DEF Rank, Begin, StartMiniBatch, Count, Forward, Backward, Clip, Fail
  <2> QED BY <2>1 DEF LockstepInv, AtRest
<1> QED BY <1>1, BeginStep, StartStep, CountStep, ForwardStep, BackwardStep, ClipStep,
           FailStep DEF Rank

(* LockstepInv is inductive.                                               *)
LEMMA NextLockstep ==
  ASSUME LockstepInv, [Next]_vars
  PROVE  LockstepInv'
<1>1. CASE UNCHANGED vars
  <2>1. UNCHANGED << use_dynamic_bsz, batchVars, rankVars >>
    BY <1>1 DEF vars
  <2>2. UNCHANGED << use_dynamic_bsz, pc, lens, sent, at, calls, left, plan, wanted >>
    BY <2>1 DEF batchVars, rankVars
  <2>3. /\ \A v : MiniBatches(v)' = MiniBatches(v)
        /\ \A v, l : Mini(v, l)' = Mini(v, l) /\ Want(v, l)' = Want(v, l)
        /\ Course' = Course /\ Calling' = Calling
    BY <2>2, Unmoved
  <2>4. \A r : Place(r)' = Place(r) /\ Met(r)' = Met(r)
    BY <2>2, <2>3 DEF Place, Met
  <2>5. \A r : LeftOK(r)' = LeftOK(r) /\ RankOK(r)' = RankOK(r)
    BY <2>2, <2>3, <2>4 DEF LeftOK, RankOK
  <2>6. \A r, v : InStep(r, v)' = InStep(r, v)
    BY <2>2, <2>3, <2>4 DEF InStep
  <2> QED BY <2>2, <2>3, <2>5, <2>6 DEF LockstepInv, TypeOK, SentOK, AtRest, Even
<1>2. CASE Next
  <2>1. UNCHANGED use_dynamic_bsz
    BY <1>2 DEF Next
  <2>2. CASE Driver
    BY <2>1, <2>2, DriverLockstep
  <2>3. CASE \E r \in Ranks : Rank(r) \/ Fail(r)
    BY <2>1, <2>3, RankSteps, StepLockstep
  <2>4. CASE Done
    BY <1>1, <2>4 DEF Done
  <2> QED BY <1>2, <2>2, <2>3, <2>4 DEF Next
<1> QED BY <1>1, <1>2

(* Ranks in step have entered the same collectives, and one that has       *)
(* returned does not keep another waiting: nothing follows its last        *)
(* collective.                                                             *)
LEMMA LockstepMatches ==
  ASSUME LockstepInv
  PROVE  CollectivesMatch
<1> SUFFICES ASSUME NEW r \in Ranks, NEW v \in Ranks
             PROVE  /\ \A n \in 1 .. Min({Len(calls[r]), Len(calls[v])}) :
                         calls[r][n] = calls[v][n]
                    /\ at[r] = "returned" => Len(calls[v]) <= Len(calls[r])
  BY DEF CollectivesMatch
<1> DEFINE a == Len(calls[r])
           b == Len(calls[v])
<1>1. calls[r] \in Seq(Kinds) /\ calls[v] \in Seq(Kinds) /\ a \in Nat /\ b \in Nat
  BY LenProperties DEF LockstepInv, TypeOK
<1>2. CASE ~ Calling
  <2>1. calls[r] = calls[v]
    BY <1>2 DEF LockstepInv, AtRest
  <2>2. Min({a, b}) \in {a, b} /\ a = b
    BY <1>1, <2>1, MinOfTwo
  <2> QED BY <1>1, <2>1, <2>2
<1>3. CASE Calling
  <2>1. /\ Paced(Course, calls[r], Place(r), calls[v], Place(v))
        /\ Paced(Course, calls[v], Place(v), calls[r], Place(r))
        /\ pc \in {"log_prob", "update_actor"}
    BY <1>3 DEF LockstepInv, InStep, Calling
  <2>2. \/ a = b /\ calls[r] = calls[v]
        \/ a = b + 1 /\ calls[r] = Append(calls[v], Place(r)[3])
        \/ b = a + 1 /\ calls[v] = Append(calls[r], Place(v)[3])
                     /\ Place(v) = Following(Course, Place(r))
    BY <1>1, <2>1 DEF Paced
  <2>3. \A n \in 1 .. Min({a, b}) : n \in 1 .. a /\ n \in 1 .. b
    BY <1>1, MinOfTwo
  <2>4. \A n \in 1 .. Min({a, b}) : calls[r][n] = calls[v][n]
    <3>1. CASE a = b /\ calls[r] = calls[v]
      BY <3>1
    <3>2. CASE calls[r] = Append(calls[v], Place(r)[3])
      <4>1. \A n \in 1 .. b : calls[r][n] = calls[v][n]
        BY <1>1, <3>2, AppendProperties
      <4> QED BY <2>3, <4>1
    <3>3. CASE calls[v] = Append(calls[r], Place(v)[3])
      <4>1. \A n \in 1 .. a : calls[v][n] = calls[r][n]
        BY <1>1, <3>3, AppendProperties
      <4> QED BY <2>3, <4>1
    <3> QED BY <2>2, <3>1, <3>2, <3>3
  <2>5. ASSUME at[r] = "returned", b = a + 1 PROVE FALSE
    <3>1. Place(r) \in {<< 1, 1, "forward" >>, << 1, 0, "clip" >>}
          /\ (Place(r)[3] = "forward" => pc = "log_prob")
      BY <2>1, <2>5 DEF Place
    <3>2. Course.training => pc = "update_actor"
      BY DEF Course
    <3>3. Following(Course, Place(r)) = << 0, 0, "none" >>
      BY <3>1, <3>2 DEF Following
    <3>4. Place(v) = Following(Course, Place(r)) /\ calls[v] = Append(calls[r], Place(v)[3])
      BY <1>1, <2>2, <2>5
    <3>5. calls[v] = Append(calls[r], "none")
      BY <3>3, <3>4
    <3>6. calls[v][b] = "none"
      <4>1. calls[v][Len(calls[r]) + 1] = "none"
        BY <1>1, <3>5
      <4> QED BY <2>5, <4>1
    <3>7. calls[v][b] \in Kinds
      BY <1>1, <2>5, ElementOfSeq
    <3> QED BY <3>6, <3>7 DEF Kinds
  <2>6. b <= a + 1
    <3>1. a = b \/ a = b + 1 \/ b = a + 1
      BY <2>2
    <3> HIDE DEF a, b
    <3> QED BY <1>1, <3>1
  <2>7. at[r] = "returned" => b <= a
    <3> HIDE DEF a, b
    <3> QED BY <1>1, <2>5, <2>6
  <2> QED BY <2>4, <2>7
<1> QED BY <1>2, <1>3

(* CollectivesMatch: for every number of ranks, whatever lengths of rows   *)
(* they hold, the ranks of the actor enter the same collectives in the     *)
(* same order, and none returns while another waits for it (update_policy  *)
(* and compute_log_prob of DataParallelPPOActor, with the agreement on     *)
(* micro-batches in rearrange_micro_batches).                              *)
THEOREM CollectivesMatchAlways == Spec => []CollectivesMatch
<1>1. Init => LockstepInv
  BY InitLockstep
<1>2. LockstepInv /\ [Next]_vars => LockstepInv'
  BY NextLockstep
<1>3. LockstepInv => CollectivesMatch
  BY LockstepMatches
<1> QED BY <1>1, <1>2, <1>3, PTL DEF Spec

-----------------------------------------------------------------------------
(* The shards of the model.                                                *)

(* A rank that is past the norm of a gradient has taken the step that the  *)
(* ranks still there will take.                                            *)
Past(v, r) ==
  \/ Len(calls[v]) > Len(calls[r])
  \/ Len(calls[v]) = Len(calls[r]) /\ at[v] # "clip"
Behind(r, v) == at[r] = "clip" /\ Past(v, r)
After(r) ==
  IF \A v \in Ranks : finite[v] THEN Append(shard[r], << global_steps, Len(left[r]) >>)
  ELSE shard[r]
ShardInv ==
  /\ DOMAIN shard = Ranks
  /\ \A r, v \in Ranks :
       /\ Behind(r, v) => shard[v] = After(r)
       /\ ~ Behind(r, v) /\ ~ Behind(v, r) => shard[r] = shard[v]

(* Collectives are counted.                                                *)
LEMMA Counts ==
  ASSUME LockstepInv, NEW r \in Ranks
  PROVE  Len(calls[r]) \in Nat /\ (Len(calls[r]) # 0 <=> calls[r] # << >>)
<1>1. calls[r] \in Seq(Kinds)
  BY DEF LockstepInv, TypeOK
<1> QED BY <1>1, EmptySeq, LenProperties

(* A rank leaves the norm of a gradient once all have come to it.          *)
LEMMA PastNorm ==
  ASSUME LockstepInv, Calling, NEW u \in Ranks,
         Place(u)[3] = "clip", at[u] # "clip", calls[u] # << >>
  PROVE  Met(u)
<1>1. TypeOK /\ RankOK(u)
  BY DEF LockstepInv
<1>2. at[u] \in Kinds \cup {"idle", "called", "mini_batch", "returned", "raised"}
  BY <1>1 DEF TypeOK
<1>3. at[u] \notin Kinds \cup {"idle", "called", "raised"}
  BY <1>1 DEF RankOK, Place, Kinds
<1> QED BY <1>1, <1>2, <1>3 DEF RankOK

(* What follows the norm of a gradient is no backward pass.                *)
LEMMA ClipPlace ==
  ASSUME LockstepInv, Calling, NEW v \in Ranks, at[v] = "clip"
  PROVE  /\ Place(v) = << Len(left[v]), 0, "clip" >>
         /\ Following(Course, Place(v))[3] \in {"count", "forward", "none"}
         /\ calls[v] # << >> /\ Len(calls[v]) > 0
<1>1. Place(v) = << Len(left[v]), Len(plan[v]), "clip" >> /\ plan[v] = << >>
      /\ calls[v] # << >>
  BY DEF LockstepInv, RankOK, Place, Kinds
<1>2. Len(calls[v]) > 0
  BY <1>1, Counts
<1>3. Len(plan[v]) = 0
  BY <1>1
<1> QED BY <1>1, <1>2, <1>3 DEF Following

(* When a rank is past a norm at which another still is, all ranks have    *)
(* come to it, and none is in a backward pass: what the gradients are is   *)
(* settled.                                                                *)
LEMMA AllCameToNorm ==
  ASSUME LockstepInv, Calling, NEW v \in Ranks, NEW u \in Ranks, Behind(v, u),
         NEW w \in Ranks
  PROVE  Len(calls[w]) >= Len(calls[v]) /\ at[w] # "backward"
<1>1. \A x, y \in Ranks : Paced(Course, calls[x], Place(x), calls[y], Place(y))
  BY DEF LockstepInv, InStep
<1>2. \A x \in Ranks : Len(calls[x]) \in Nat
  BY Counts
<1>3. at[v] = "clip" /\ Past(u, v)
  BY DEF Behind
<1>4. /\ Place(v)[3] = "clip" /\ calls[v] # << >> /\ Len(calls[v]) > 0
      /\ Following(Course, Place(v))[3] \in {"count", "forward", "none"}
  BY <1>3, ClipPlace
<1>5. Len(calls[w]) >= Len(calls[v])
  <2>1. CASE Len(calls[u]) > Len(calls[v])
    <3>1. Len(calls[u]) <= Len(calls[w]) + 1
      BY <1>1 DEF Paced
    <3> QED BY <1>2, <2>1, <3>1
  <2>2. CASE Len(calls[u]) = Len(calls[v]) /\ at[u] # "clip"
    <3>1. Place(u) = Place(v)
      BY <1>1, <2>2 DEF Paced
    <3>2. calls[u] # << >>
      BY <1>4, <2>2, Counts
    <3>3. Met(u)
      BY <1>4, <2>2, <3>1, <3>2, PastNorm
    <3> QED BY <2>2, <3>3 DEF Met
  <2> QED BY <1>3, <2>1, <2>2 DEF Past
<1>6. at[w] # "backward"
  <2>1. at[w] = "backward" => Place(w)[3] = "backward"
    BY DEF Place
  <2>2. Len(calls[w]) <= Len(calls[v]) + 1
    BY <1>1 DEF Paced
  <2>3. Len(calls[w]) = Len(calls[v]) \/ Len(calls[w]) = Len(calls[v]) + 1
    BY <1>2, <1>5, <2>2
  <2>4. Place(w) = Place(v) \/ Place(w) = Following(Course, Place(v))
    BY <1>1, <2>3 DEF Paced
  <2> QED BY <1>4, <2>1, <2>4
<1> QED BY <1>5, <1>6

(* A collective that is entered is not the one others wait in for a norm.  *)
LEMMA EnteredElsewhere ==
  ASSUME LockstepInv, Calling, NEW r \in Ranks, StepOK(r),
         at[r] # "clip",
         calls' = calls \/ at'[r] \in {"count", "forward", "backward"},
         at'[r] # "clip", NEW v \in Ranks, v # r, at[v] = "clip"
  PROVE  Past(r, v)' <=> Past(r, v)
<1>1. Paced(Course, calls[v], Place(v), calls[r], Place(r))
  BY DEF LockstepInv, InStep
<1>2. Len(calls[r]) \in Nat /\ Len(calls[v]) \in Nat /\ calls'[v] = calls[v]
      /\ at'[v] = at[v] /\ calls[r] \in Seq(Kinds)
  BY CallsGrow DEF StepOK, OthersWait
<1>3. CASE Stays(r)
  BY <1>2, <1>3 DEF Stays, Past
<1>4. CASE Advances(r)
  <2>1. /\ Place(r)' = Following(Course, Place(r))
        /\ calls'[r] = Append(calls[r], Place(r)'[3])
    BY <1>4 DEF Advances, LockstepInv, TypeOK
  <2>2. Len(calls'[r]) = Len(calls[r]) + 1
    BY <1>2, <2>1
  <2>3. at'[r] \in {"count", "forward", "backward"}
    BY <1>2, <2>2
  <2>4. Place(r)'[3] # "clip"
    BY <2>3 DEF Place
  <2>5. Place(v)[3] = "clip"
    BY DEF Place
  <2>6. Len(calls[v]) # Len(calls[r]) + 1
    BY <1>1, <2>1, <2>4, <2>5 DEF Paced
  <2> QED BY <1>2, <2>2, <2>6 DEF Past
<1> QED BY <1>3, <1>4 DEF StepOK

(* Neither passes nor counting touch the shards or the gradients of a step *)
(* that is being taken.                                                    *)
LEMMA OtherStepShards ==
  ASSUME LockstepInv, Calling, ShardInv, NEW r \in Ranks, StepOK(r),
         at[r] # "clip", at'[r] # "clip",
         calls' = calls \/ at'[r] \in {"count", "forward", "backward"},
         UNCHANGED << global_steps, shard, finite >>
  PROVE  ShardInv'
<1>1. \A v \in Ranks : v # r => at'[v] = at[v] /\ calls'[v] = calls[v] /\ left'[v] = left[v]
  BY DEF StepOK, OthersWait
<1>2. \A v \in Ranks : at'[v] = "clip" => v # r /\ at[v] = "clip" /\ After(v)' = After(v)
  BY <1>1 DEF After
<1>3. \A u, v \in Ranks : Behind(v, u)' <=> Behind(v, u)
  <2> SUFFICES ASSUME NEW u \in Ranks, NEW v \in Ranks PROVE Behind(v, u)' <=> Behind(v, u)
    OBVIOUS
  <2>1. CASE at[v] # "clip"
    BY <1>1, <2>1 DEF Behind
  <2>2. CASE at[v] = "clip" /\ u = r
    <3>1. Past(r, v)' <=> Past(r, v)
      BY <2>2, EnteredElsewhere
    <3>2. at'[v] = at[v]
      BY <1>1, <2>2
    <3> QED BY <2>2, <3>1, <3>2 DEF Behind
  <2>3. CASE at[v] = "clip" /\ u # r
    BY <1>1, <2>3 DEF Behind, Past
  <2> QED BY <2>1, <2>2, <2>3
<1>4. \A u, v \in Ranks : Behind(v, u) => After(v)' = After(v)
  BY <1>2, <1>3 DEF Behind
<1> QED BY <1>3, <1>4 DEF ShardInv

(* A backward pass changes a gradient when no rank has taken the step yet. *)
LEMMA BackwardShards ==
  ASSUME LockstepInv, Calling, ShardInv, NEW r \in Ranks, NEW fine, Backward(r, fine),
         UNCHANGED use_dynamic_bsz
  PROVE  ShardInv'
<1>1. at[r] = "backward" /\ shard' = shard
  BY DEF Backward
<1>2. StepOK(r)
  BY BackwardStep
<1>3. /\ \A v \in Ranks : v # r => at'[v] = at[v] /\ calls'[v] = calls[v]
      /\ at'[r] \in {"forward", "clip"}
      /\ \A v \in Ranks : Len(calls[v]) \in Nat
      /\ Len(calls'[r]) = Len(calls[r]) + 1 /\ Place(r)' = Following(Course, Place(r))
  <2>1. \A v \in Ranks : v # r => at'[v] = at[v] /\ calls'[v] = calls[v]
    BY <1>2 DEF StepOK, OthersWait
  <2>2. PICK kind \in {"forward", "clip"} : Enter(r, kind)
    BY DEF Backward
  <2>3. at'[r] = kind /\ calls'[r] = Append(calls[r], kind) /\ calls[r] \in Seq(Kinds)
    BY <2>2 DEF Enter, LockstepInv, TypeOK
  <2>4. \A v \in Ranks : Len(calls[v]) \in Nat
    BY Counts
  <2>5. Len(calls'[r]) = Len(calls[r]) + 1
    BY <2>3
  <2>6. ~ Stays(r)
    BY <2>4, <2>5 DEF Stays
  <2> QED BY <1>2, <2>1, <2>3, <2>4, <2>5, <2>6 DEF StepOK, Advances
<1>4. \A x, y \in Ranks : Paced(Course, calls[x], Place(x), calls[y], Place(y))
  BY DEF LockstepInv, InStep
<1>5. \A u, v \in Ranks : ~ Behind(v, u)
  BY <1>1, AllCameToNorm
<1>6. ASSUME NEW u \in Ranks, NEW v \in Ranks, Behind(v, u)' PROVE FALSE
  <2>1. at'[v] = "clip" /\ Past(u, v)'
    BY <1>6 DEF Behind
  <2>2. CASE v # r /\ u # r
    BY <1>3, <1>5, <2>1, <2>2 DEF Behind, Past
  <2>3. CASE v # r /\ u = r
    <3>1. at[v] = "clip" /\ ~ Past(r, v)
      BY <1>3, <1>5, <2>1, <2>3 DEF Behind
    <3>2. Len(calls[r]) < Len(calls[v])
      BY <1>1, <1>3, <3>1 DEF Past
    <3>3. Len(calls[v]) = Len(calls[r]) + 1 /\ at'[r] # "clip"
      BY <1>3, <2>1, <2>3, <3>2 DEF Past
    <3>4. Place(v) = Place(r)'
      BY <1>3, <1>4, <3>3 DEF Paced
    <3>5. Place(v)[3] = "clip" /\ Place(r)'[3] = "forward"
      BY <1>3, <3>1, <3>3 DEF Place
    <3> QED BY <3>4, <3>5
  <2>4. CASE v = r
    <3>1. at'[r] = "clip"
      BY <2>1, <2>4
    <3>2. u # r
      BY <1>3, <2>1, <2>4, <3>1 DEF Past
    <3>3. Len(calls[u]) <= Len(calls[r]) + 1
      BY <1>4 DEF Paced
    <3>4. Len(calls[u]) = Len(calls[r]) + 1 /\ at[u] # "clip"
      BY <1>3, <2>1, <2>4, <3>2, <3>3 DEF Past
    <3>5. Place(u) = Place(r)'
      BY <1>3, <1>4, <3>4 DEF Paced
    <3>6. Place(u)[3] = "clip"
      BY <3>1, <3>5 DEF Place
    <3>7. calls[u] # << >>
      BY <1>3, <3>4, Counts
    <3>8. Met(u)
      BY <3>4, <3>6, <3>7, PastNorm
    <3> QED BY <1>3, <3>4, <3>8 DEF Met
  <2> QED BY <2>2, <2>3, <2>4
<1> QED BY <1>1, <1>5, <1>6 DEF ShardInv

(* A rank that leaves the norm takes the step that the others have taken   *)
(* or will take (_optimizer_step).                                         *)
LEMMA ClipShards ==
  ASSUME LockstepInv, Calling, ShardInv, NEW r \in Ranks, Clip(r), UNCHANGED use_dynamic_bsz
  PROVE  ShardInv'
<1>1. /\ at[r] = "clip" /\ Met(r)
      /\ shard' = IF NormIsFinite(r)
                  THEN [shard EXCEPT ![r] = Append(@, << global_steps, Len(left[r]) >>)]
                  ELSE shard
      /\ at'[r] \in {"mini_batch", "returned"}
      /\ UNCHANGED << global_steps, calls, finite >>
  BY DEF Clip, batchVars, LockstepInv, TypeOK
<1>2. StepOK(r)
  BY ClipStep
<1>3. /\ \A v \in Ranks : v # r => at'[v] = at[v] /\ left'[v] = left[v] /\ shard'[v] = shard[v]
      /\ shard'[r] = After(r) /\ DOMAIN shard' = Ranks
  <2>1. \A v \in Ranks : v # r => at'[v] = at[v] /\ left'[v] = left[v]
    BY <1>2 DEF StepOK, OthersWait
  <2>2. DOMAIN shard = Ranks
    BY DEF ShardInv
  <2> QED BY <1>1, <2>1, <2>2 DEF After, NormIsFinite
<1>4. \A v \in Ranks : v # r => After(v)' = After(v)
  BY <1>1, <1>3 DEF After
<1>5. \A v \in Ranks : Len(calls[v]) \in Nat
  BY Counts
<1>6. \A v \in Ranks : Len(calls[v]) >= Len(calls[r])
  BY <1>1 DEF Met
<1>7. ASSUME NEW v \in Ranks, v # r, at[v] = "clip"
      PROVE  Behind(v, r)' /\ shard'[r] = After(v)'
  <2>1. Paced(Course, calls[v], Place(v), calls[r], Place(r))
    BY DEF LockstepInv, InStep
  <2>2. /\ Place(r) = << Len(left[r]), 0, "clip" >> /\ Place(v) = << Len(left[v]), 0, "clip" >>
        /\ Following(Course, Place(r))[3] \in {"count", "forward", "none"}
    BY <1>1, <1>7, ClipPlace
  <2>3. Len(calls[v]) = Len(calls[r])
    BY <1>5, <1>6, <2>1, <2>2 DEF Paced
  <2>4. Len(left[v]) = Len(left[r])
    BY <2>1, <2>2, <2>3 DEF Paced
  <2>5. ~ Behind(r, v) /\ ~ Behind(v, r)
    BY <1>1, <1>5, <1>7, <2>3 DEF Behind, Past
  <2>6. shard[r] = shard[v]
    BY <2>5 DEF ShardInv
  <2>7. After(v) = After(r)
    BY <2>4, <2>6 DEF After
  <2>8. Behind(v, r)'
    BY <1>1, <1>3, <1>7, <2>3 DEF Behind, Past
  <2> QED BY <1>3, <1>4, <1>7, <2>7, <2>8
<1>8. ASSUME NEW v \in Ranks, v # r, at[v] # "clip"
      PROVE  shard'[r] = shard'[v] /\ ~ Behind(v, r)'
  <2>1. Behind(r, v)
    BY <1>1, <1>5, <1>6, <1>8 DEF Behind, Past
  <2>2. shard[v] = After(r)
    BY <2>1 DEF ShardInv
  <2> QED BY <1>3, <1>8, <2>2 DEF Behind
<1>9. \A v \in Ranks : ~ Behind(r, v)'
  BY <1>1 DEF Behind
<1>10. \A u, v \in Ranks : u # r /\ v # r => (Behind(v, u)' <=> Behind(v, u))
  BY <1>1, <1>3 DEF Behind, Past
<1>11. ASSUME NEW u \in Ranks, NEW v \in Ranks
       PROVE  /\ Behind(u, v)' => shard'[v] = After(u)'
              /\ ~ Behind(u, v)' /\ ~ Behind(v, u)' => shard'[u] = shard'[v]
  <2>1. CASE u # r /\ v # r
    BY <1>3, <1>4, <1>10, <2>1 DEF ShardInv
  <2>2. CASE u = r /\ v # r
    BY <1>7, <1>8, <1>9, <2>2
  <2>3. CASE u # r /\ v = r
    BY <1>7, <1>8, <1>9, <2>3
  <2>4. CASE u = r /\ v = r
    BY <1>9, <2>4
  <2> QED BY <2>1, <2>2, <2>3, <2>4
<1> QED BY <1>3, <1>11 DEF ShardInv

(* ShardInv, for every step of a rank.                                     *)
LEMMA RankShards ==
  ASSUME LockstepInv, ShardInv, NEW r \in Ranks, Rank(r) \/ Fail(r), UNCHANGED use_dynamic_bsz
  PROVE  ShardInv'
<1>1. Calling /\ StepOK(r)
  BY RankSteps
<1>2. TypeOK
  BY DEF LockstepInv
<1>3. CASE Begin(r) \/ StartMiniBatch(r) \/ Count(r) \/ Forward(r) \/ Fail(r)
  <2>1. at[r] # "clip" /\ UNCHANGED << global_steps, shard, finite >>
    BY <1>3 DEF Begin, StartMiniBatch, Count, Forward, Fail, batchVars
  <2>2. /\ at'[r] # "clip"
        /\ calls' = calls \/ at'[r] \in {"count", "forward", "backward"}
    BY <1>2, <1>3 DEF Begin, StartMiniBatch, Count, Forward, Fail, Enter, TypeOK
  <2> QED BY <1>1, <2>1, <2>2, OtherStepShards
<1>4. CASE \E fine \in BOOLEAN : Backward(r, fine)
  BY <1>1, <1>4, BackwardShards
<1>5. CASE Clip(r)
  BY <1>1, <1>5, ClipShards
<1> QED BY <1>3, <1>4, <1>5 DEF Rank

(* Between the calls all shards are the same.                              *)
LEMMA RestShards ==
  ASSUME ShardInv, \A r \in Ranks : at[r] # "clip" /\ at'[r] # "clip", UNCHANGED shard
  PROVE  ShardInv'
BY DEF ShardInv, Behind

(* ShardInv, for every step of fit, relaunches included: all ranks load    *)
(* their shards from one checkpoint.                                       *)
LEMMA DriverShards ==
  ASSUME LockstepInv, ShardInv, Driver
  PROVE  ShardInv'
<1>1. CASE Relaunch
  <2>1. /\ shard' = [r \in Ranks |-> saved.shard]
        /\ \A r \in Ranks : at'[r] = "idle"
    BY <1>1 DEF Relaunch, Everywhere
  <2>2. \A r, v \in Ranks : ~ Behind(r, v)'
    BY <2>1 DEF Behind
  <2> QED BY <2>1, <2>2 DEF ShardInv
<1>2. CASE ~ Relaunch
  <2>1. shard' = shard
    BY <1>2 DEF Driver, Rollout, CollectLogProbs, ComputeValues, UpdateCritic, UpdateActor,
                ActorUpdated, NextStep
  <2>2. \A r \in Ranks : at[r] # "clip"
    <3>1. CASE Returned
      BY <3>1 DEF Returned
    <3>2. CASE ~ Calling
      BY <3>2 DEF LockstepInv, AtRest
    <3>3. Returned \/ ~ Calling
      BY <1>2 DEF Driver, Rollout, CollectLogProbs, ComputeValues, UpdateCritic, UpdateActor,
                  ActorUpdated, NextStep, Calling
    <3> QED BY <3>1, <3>2, <3>3
  <2>3. at' = at \/ at' = Everywhere("called")
    BY <1>2 DEF Driver, Rollout, CollectLogProbs, ComputeValues, UpdateCritic, UpdateActor,
                ActorUpdated, NextStep, Call, rankVars
  <2> QED BY <2>1, <2>2, <2>3, RestShards DEF Everywhere
<1> QED BY <1>1, <1>2

(* ShardsInStep: between the calls all shards of the model have taken the  *)
(* same optimizer steps, although ranks leave the norm of a gradient at    *)
(* different times and a gradient may not be finite on one rank only       *)
(* (clip_grad_norm_ and the test of the norm in _optimizer_step).          *)
THEOREM ShardsStayInStep == Spec => []ShardsInStep
<1> DEFINE Inv == LockstepInv /\ ShardInv
<1>1. Init => Inv
  <2> SUFFICES ASSUME Init PROVE ShardInv
    BY InitLockstep
  <2>1. shard = [r \in Ranks |-> << >>] /\ \A r \in Ranks : at[r] = "idle"
    BY DEF Init, Everywhere
  <2> QED BY <2>1 DEF ShardInv, Behind
<1>2. Inv /\ [Next]_vars => Inv'
  <2> SUFFICES ASSUME Inv, [Next]_vars PROVE ShardInv'
    BY NextLockstep
  <2>1. CASE UNCHANGED vars
    <3>1. UNCHANGED << global_steps, shard, finite, left, calls, at >>
      BY <2>1 DEF vars, rankVars, batchVars
    <3>2. /\ \A r : After(r)' = After(r)
          /\ \A r, v : Behind(r, v)' = Behind(r, v)
      BY <3>1 DEF After, Behind, Past
    <3> QED BY <3>1, <3>2 DEF ShardInv
  <2>2. CASE Driver
    BY <2>2, DriverShards
  <2>3. CASE \E r \in Ranks : (Rank(r) \/ Fail(r)) /\ UNCHANGED use_dynamic_bsz
    BY <2>3, RankShards
  <2> QED BY <2>1, <2>2, <2>3 DEF Next, Done
<1>3. Inv => ShardsInStep
  BY DEF ShardInv, Behind, ShardsInStep
<1> QED BY <1>1, <1>2, <1>3, PTL DEF Spec

-----------------------------------------------------------------------------
(* The rows a rank works on.                                               *)

RowsType ==
  /\ outputs \in [Ranks -> Rows]
  /\ order \in [Ranks -> Rows]
  /\ summed \in [Ranks -> Rows]

(* What a rank has computed and what it has planned are the rows of its    *)
(* mini-batch, in their order unless their number varies.                  *)
RowsOK(r) ==
  /\ at[r] \in {"forward", "backward", "clip"} =>
       /\ Shuffled(order[r], left[r][1])
       /\ ~ use_dynamic_bsz => order[r] = left[r][1]
  /\ at[r] = "count" => summed[r] = << >>
  /\ pc = "update_actor" /\ at[r] \in {"forward", "backward", "clip"} =>
       summed[r] \o FlattenSeq(plan[r]) = order[r]
  /\ pc = "log_prob" =>
       /\ at[r] \in {"called", "mini_batch", "count"} => outputs[r] = << >>
       /\ at[r] = "forward" => outputs[r] \o FlattenSeq(plan[r]) = order[r]
       /\ at[r] = "returned" => outputs[r] = Share(sent, r)
RowsInv ==
  /\ RowsType
  /\ \A r \in Ranks : RowsOK(r)
  /\ old_log_probs \in {<< >>, [i \in DOMAIN lens |-> i]}

(* The shares of the groups make up what was sent.                         *)
LEMMA SharesJoin ==
  ASSUME NEW D, NEW rows, Even(rows, D)
  PROVE  FlattenSeq([g \in 1 .. DpSize |-> Share(rows, (g - 1) * SpSize)]) = rows
<1> DEFINE size == Len(rows) \div DpSize
           cut == [k \in 0 .. DpSize |-> k * size]
           t == [g \in 1 .. DpSize |-> Share(rows, (g - 1) * SpSize)]
<1>1. /\ DpSize \in Nat \ {0} /\ SpSize \in Nat \ {0} /\ 0 \in Ranks
  BY Sizes
<1>2. size \in Nat \ {0} /\ Len(rows) = size * DpSize /\ rows \in Seq(D)
  BY <1>1, ShareShape DEF Even
<1>3. t = [g \in 1 .. DpSize |-> SubSeq(rows, (g - 1) * size + 1, g * size)]
  <2> SUFFICES ASSUME NEW g \in 1 .. DpSize
               PROVE  Share(rows, (g - 1) * SpSize) = SubSeq(rows, (g - 1) * size + 1, g * size)
    OBVIOUS
  <2>1. DpRank((g - 1) * SpSize) = g - 1
    <3> DEFINE d == g - 1
    <3>1. d \in Nat
      BY <1>1
    <3> HIDE DEF d
    <3>2. (d * SpSize) \div SpSize = d
      BY <1>1, <3>1
    <3>3. DpRank(d * SpSize) = d
      BY <3>2 DEF DpRank
    <3> QED BY <3>3 DEF d
  <2>2. (g - 1) + 1 = g
    BY <1>1
  <2> QED BY <2>1, <2>2 DEF Share
<1> HIDE DEF size
<1>4. Cuts(cut, DpSize, Len(rows))
  <2>1. ASSUME NEW k \in 0 .. DpSize PROVE cut[k] = k * size /\ k * size \in 0 .. Len(rows)
    BY <1>1, <1>2
  <2>2. cut \in [0 .. DpSize -> 0 .. Len(rows)]
    BY <2>1
  <2>3. cut[0] = 0 /\ cut[DpSize] = Len(rows)
    BY <1>1, <1>2, <2>1
  <2>4. ASSUME NEW k \in 1 .. DpSize PROVE cut[k - 1] <= cut[k]
    <3>1. cut[k - 1] = (k - 1) * size /\ cut[k] = k * size /\ k * size = (k - 1) * size + size
      BY <1>1, <1>2
    <3>2. (k - 1) * size \in Int
      BY <1>1, <1>2
    <3> QED BY <1>2, <3>1, <3>2
  <2> HIDE DEF cut
  <2> QED BY <2>2, <2>3, <2>4 DEF Cuts
<1>5. t = CutAt(rows, DpSize, cut)
  <2>1. \A g \in 1 .. DpSize : cut[g - 1] = (g - 1) * size /\ cut[g] = g * size
    BY <1>1
  <2> HIDE DEF cut
  <2> QED BY <1>3, <2>1 DEF CutAt
<1> HIDE DEF t, cut
<1>6. DpSize \in Nat
  BY <1>1
<1>7. FlattenSeq(CutAt(rows, DpSize, cut)) = rows
  BY <1>2, <1>4, <1>6, FlattenCuts
<1> QED BY <1>5, <1>7 DEF t

(* compute_log_prob works on the whole share, in which no row is twice.    *)
LEMMA WholeShare ==
  ASSUME LockstepInv, pc = "log_prob", NEW r \in Ranks, at[r] \in Kinds
  PROVE  /\ left[r][1] = Share(sent, r) /\ left[r][1] \in Rows
         /\ Distinct(Share(sent, r))
<1> DEFINE n == Len(left[r])
           share == Share(sent, r)
           D == DOMAIN lens
<1>1. Calling /\ SentOK
  BY DEF LockstepInv, Calling
<1>2. /\ n \in 1 .. Len(MiniBatches(r)) /\ left[r][1] = Mini(r, n)
      /\ left[r][1] \in Rows
  BY <1>1, CurrentMini
<1>3. MiniBatches(r) = << share >>
  BY DEF MiniBatches
<1>4. left[r][1] = share
  <2>1. Len(MiniBatches(r)) = 1 /\ MiniBatches(r)[1] = share
    BY <1>3
  <2>2. n = 1
    BY <1>2, <2>1
  <2>3. Mini(r, 1) = MiniBatches(r)[Len(MiniBatches(r)) + 1 - 1]
    BY DEF Mini
  <2> HIDE DEF n, share
  <2> QED BY <1>2, <2>1, <2>2, <2>3
<1>5. Distinct(share)
  <2> DEFINE size == Len(sent) \div DpSize
             a == DpRank(r) * size
             b == (DpRank(r) + 1) * size
  <2>1. sent = [i \in D |-> i] /\ Even(sent, D) /\ lens \in Batches
    BY <1>1 DEF SentOK, Calling
  <2>2. /\ size \in Nat \ {0} /\ Len(sent) = size * DpSize /\ Len(share) = size
        /\ share \in Seq(D)
    BY <2>1, ShareShape
  <2>3. D = 1 .. Len(lens) /\ Len(lens) \in Nat /\ sent \in Seq(D) /\ Len(sent) = Len(lens)
    <3>1. D = 1 .. Len(lens) /\ Len(lens) \in Nat /\ sent \in Seq(D)
      BY <2>1, BatchEven DEF Even
    <3> QED BY <2>1, <3>1
  <2>4. share = SubSeq(sent, a + 1, b)
    BY DEF Share
  <2>5. DpRank(r) \in 0 .. DpSize - 1 /\ DpSize \in Nat \ {0}
    BY Sizes
  <2> HIDE DEF size
  <2>6. a \in 0 .. Len(sent) /\ b \in a .. Len(sent) /\ b - a = size
    <3> DEFINE d == DpRank(r)
    <3>1. d \in Nat /\ d + 1 <= DpSize
      BY <2>5
    <3> HIDE DEF d
    <3>2. d * size \in Nat /\ (d + 1) * size = d * size + size
          /\ (d + 1) * size <= DpSize * size /\ DpSize * size = size * DpSize
      BY <2>2, <2>5, <3>1
    <3>3. a = d * size /\ b = (d + 1) * size
      BY DEF d
    <3> DEFINE m == d * size
               q == DpSize * size
    <3>4. m \in Nat /\ a = m /\ b = m + size /\ m + size <= q /\ Len(sent) = q
      BY <2>2, <3>2, <3>3
    <3> HIDE DEF m, q, a, b
    <3> QED BY <2>2, <2>3, <3>4
  <2> HIDE DEF a, b, share, D
  <2>7. \A x \in 1 .. b - a : SubSeq(sent, a + 1, b)[x] = sent[a + x]
    BY <2>3, <2>6, PartOfSeq
  <2>8. \A x \in 1 .. size : share[x] = a + x
    <3> SUFFICES ASSUME NEW x \in 1 .. size PROVE share[x] = a + x
      OBVIOUS
    <3>1. share[x] = sent[a + x]
      BY <2>4, <2>6, <2>7
    <3>2. a + x \in 1 .. Len(lens)
      BY <2>2, <2>3, <2>6
    <3> QED BY <2>1, <2>3, <3>1, <3>2
  <2>9. a \in Int
    BY <2>6
  <2> QED BY <2>2, <2>8, <2>9 DEF Distinct
<1> QED BY <1>2, <1>4, <1>5

(* A step of a rank that leaves the rows of the others alone.              *)
OwnRows(r) ==
  /\ RowsType'
  /\ \A v \in Ranks : v # r =>
       outputs'[v] = outputs[v] /\ order'[v] = order[v] /\ summed'[v] = summed[v]
  /\ UNCHANGED old_log_probs
  /\ RowsOK(r)'

(* A rank touches its own rows only.                                       *)
LEMMA OwnRowsKeep ==
  ASSUME LockstepInv, RowsInv, NEW r \in Ranks, StepOK(r), OwnRows(r)
  PROVE  RowsInv'
<1>1. UNCHANGED << use_dynamic_bsz, pc, lens, sent >>
  BY DEF StepOK
<1>2. ASSUME NEW v \in Ranks PROVE RowsOK(v)'
  <2>1. CASE v = r
    BY <2>1 DEF OwnRows
  <2>2. CASE v # r
    <3>1. /\ at'[v] = at[v] /\ left'[v] = left[v] /\ plan'[v] = plan[v]
          /\ outputs'[v] = outputs[v] /\ order'[v] = order[v] /\ summed'[v] = summed[v]
      BY <2>2 DEF StepOK, OthersWait, OwnRows
    <3>2. RowsOK(v)
      BY DEF RowsInv
    <3>3. Share(sent, v)' = Share(sent, v)
      BY <1>1 DEF Share
    <3> QED BY <1>1, <3>1, <3>2, <3>3 DEF RowsOK
  <2> QED BY <2>1, <2>2
<1>3. RowsType' /\ UNCHANGED << old_log_probs, lens >>
  BY <1>1 DEF OwnRows
<1> QED BY <1>2, <1>3 DEF RowsInv

(* A rank that is called has computed nothing.                             *)
LEMMA BeginRows ==
  ASSUME LockstepInv, RowsInv, NEW r \in Ranks, Begin(r), StepOK(r)
  PROVE  OwnRows(r)
<1>1. /\ at[r] = "called" /\ at'[r] = "mini_batch"
      /\ UNCHANGED << pc, outputs, order, summed, old_log_probs >>
  BY DEF Begin, batchVars, LockstepInv, TypeOK
<1>2. RowsType /\ RowsOK(r)
  BY DEF RowsInv
<1>3. RowsOK(r)'
  BY <1>1, <1>2 DEF RowsOK
<1> QED BY <1>1, <1>2, <1>3 DEF OwnRows, RowsType

(* zero_grad: the gradient of a mini-batch starts as a sum of no rows.     *)
LEMMA StartRows ==
  ASSUME LockstepInv, Calling, RowsInv, NEW r \in Ranks, StartMiniBatch(r), StepOK(r),
         UNCHANGED use_dynamic_bsz
  PROVE  OwnRows(r)
<1>1. /\ at[r] = "mini_batch" /\ summed' = [summed EXCEPT ![r] = << >>]
      /\ UNCHANGED << pc, left, outputs, old_log_probs >>
  BY DEF StartMiniBatch, batchVars
<1>2. RowsType /\ RowsOK(r) /\ TypeOK
  BY DEF RowsInv, LockstepInv
<1>3. << >> \in Rows
  BY DEF Rows
<1>4. /\ summed' \in [Ranks -> Rows] /\ summed'[r] = << >>
      /\ \A v \in Ranks : v # r => summed'[v] = summed[v]
  BY <1>1, <1>2, <1>3 DEF RowsType
<1>5. left[r][1] \in Rows /\ left[r][1] # << >>
  BY <1>1, CurrentMini
<1>6. CASE use_dynamic_bsz
  <2>1. at'[r] = "count" /\ UNCHANGED order
    BY <1>2, <1>6 DEF StartMiniBatch, Enter, TypeOK
  <2>2. RowsOK(r)'
    BY <1>1, <1>2, <1>4, <2>1 DEF RowsOK
  <2> QED BY <1>1, <1>2, <1>4, <2>1, <2>2 DEF OwnRows, RowsType
<1>7. CASE ~ use_dynamic_bsz
  <2> DEFINE mini == left[r][1]
  <2>1. /\ at'[r] = "forward" /\ plan'[r] = SplitBy(mini, MicroBatch)
        /\ order' = [order EXCEPT ![r] = mini]
    BY <1>2, <1>7 DEF StartMiniBatch, Enter, TypeOK
  <2>2. /\ order' \in [Ranks -> Rows] /\ order'[r] = mini
        /\ \A v \in Ranks : v # r => order'[v] = order[v]
    BY <1>2, <1>5, <2>1 DEF RowsType
  <2> HIDE DEF mini
  <2>3. FlattenSeq(plan'[r]) = mini
    <3>1. mini \in Seq(Nat) /\ mini # << >> /\ MicroBatch \in Nat \ {0}
      BY <1>5, Sizes DEF Rows, mini
    <3> QED BY <2>1, <3>1, SplitType
  <2>4. << >> \o mini = mini
    BY <1>5, ConcatEmptySeq DEF Rows, mini
  <2>5. Shuffled(mini, mini)
    BY DEF Shuffled
  <2>6. pc = "log_prob" => outputs'[r] = << >>
    BY <1>1, <1>2 DEF RowsOK
  <2>7. left'[r][1] = mini
    BY <1>1 DEF mini
  <2>8. RowsOK(r)'
    BY <1>1, <1>4, <2>1, <2>2, <2>3, <2>4, <2>5, <2>6, <2>7 DEF RowsOK
  <2> QED BY <1>1, <1>2, <1>4, <2>2, <2>8 DEF OwnRows, RowsType
<1> QED BY <1>6, <1>7

(* The micro-batches planned hold the rows of the mini-batch, each once.   *)
LEMMA CountRows ==
  ASSUME LockstepInv, Calling, RowsInv, NEW r \in Ranks, Count(r), StepOK(r),
         UNCHANGED use_dynamic_bsz
  PROVE  OwnRows(r)
<1>1. /\ at[r] = "count" /\ Met(r)
      /\ UNCHANGED << pc, left, outputs, summed, old_log_probs >>
  BY DEF Count, batchVars
<1>2. RowsType /\ RowsOK(r) /\ TypeOK /\ RankOK(r) /\ SentOK
  BY DEF RowsInv, LockstepInv
<1>3. use_dynamic_bsz
  BY <1>1, <1>2 DEF RankOK
<1>4. CASE Agreed(r) > Len(left[r][1])
  <2>1. at'[r] = "raised" /\ UNCHANGED order
    BY <1>2, <1>4 DEF Count, TypeOK
  <2>2. RowsOK(r)'
    BY <2>1 DEF RowsOK
  <2> QED BY <1>1, <1>2, <2>1, <2>2 DEF OwnRows, RowsType
<1>5. CASE ~ (Agreed(r) > Len(left[r][1]))
  <2> DEFINE mini == left[r][1]
             parts == Rearranged(r, Agreed(r))
  <2>1. /\ at'[r] = "forward" /\ plan'[r] = parts
        /\ order' = [order EXCEPT ![r] = FlattenSeq(parts)]
    BY <1>2, <1>5 DEF Count, Enter, TypeOK
  <2>2. parts \in Seq(Rows) /\ Shuffled(FlattenSeq(parts), mini)
    <3> DEFINE n == Len(left[r])
    <3>1. n \in 1 .. Len(MiniBatches(0))
      BY <1>1, CurrentMini DEF Kinds
    <3>2. {wanted[v] : v \in Ranks} = {Want(v, n) : v \in Ranks}
      <4>1. \A v \in Ranks : wanted[v] = Want(v, n)
        BY <1>1, AllAsked
      <4> QED BY <4>1
    <3>3. Agreed(r) = Num(n)
      BY <1>3, <3>2 DEF Agreed, Num
    <3>4. Num(n) \in Nat \ {0}
      BY <1>2, <3>1, NumShape DEF TypeOK
    <3> QED BY <1>1, <3>3, <3>4, RearrangedShape DEF Kinds
  <2> HIDE DEF parts, mini
  <2>3. FlattenSeq(parts) \in Rows
    BY <2>2, FlattenType DEF Rows
  <2>4. /\ order' \in [Ranks -> Rows] /\ order'[r] = FlattenSeq(parts)
        /\ \A v \in Ranks : v # r => order'[v] = order[v]
    BY <1>2, <2>1, <2>3 DEF RowsType
  <2>5. << >> \o FlattenSeq(parts) = FlattenSeq(parts)
    BY <2>3, ConcatEmptySeq DEF Rows
  <2>6. summed'[r] = << >> /\ (pc = "log_prob" => outputs'[r] = << >>)
    BY <1>1, <1>2 DEF RowsOK
  <2>7. left'[r][1] = mini
    BY <1>1 DEF mini
  <2>8. RowsOK(r)'
    BY <1>1, <1>3, <2>1, <2>2, <2>4, <2>5, <2>6, <2>7 DEF RowsOK
  <2> QED BY <1>1, <1>2, <2>4, <2>8 DEF OwnRows, RowsType
<1> QED BY <1>4, <1>5

(* What is done grows by the micro-batch that is no longer planned.        *)
LEMMA DoneAndPlanned ==
  ASSUME NEW done \in Rows, NEW parts \in Seq(Rows), parts # << >>
  PROVE  /\ parts[1] \in Rows /\ done \o parts[1] \in Rows
         /\ (done \o parts[1]) \o FlattenSeq(Tail(parts)) = done \o FlattenSeq(parts)
         /\ Len(parts) = 1 => done \o parts[1] = done \o FlattenSeq(parts)
<1>1. /\ parts[1] \in Seq(Nat) /\ Tail(parts) \in Seq(Seq(Nat))
      /\ Len(parts) \in Nat \ {0} /\ Len(Tail(parts)) = Len(parts) - 1
      /\ FlattenSeq(parts) = parts[1] \o FlattenSeq(Tail(parts))
  <2>1. parts \in Seq(Seq(Nat))
    BY DEF Rows
  <2> QED BY <2>1, FlattenHead
<1> DEFINE x == parts[1]
           t == Tail(parts)
           y == FlattenSeq(t)
<1>2. done \in Seq(Nat) /\ x \in Seq(Nat) /\ y \in Seq(Nat)
  BY <1>1, FlattenType DEF Rows
<1>3. FlattenSeq(parts) = x \o y
  BY <1>1
<1>4. Len(parts) = 1 => t = << >>
  <2> DEFINE Y == Seq(Nat)
  <2>1. t \in Seq(Y) /\ Len(t) = Len(parts) - 1
    BY <1>1
  <2> HIDE DEF t, Y
  <2>2. t # << >> => Len(t) \in Nat \ {0}
    BY <2>1, EmptySeq
  <2> QED BY <2>1, <2>2
<1>5. t = << >> => y = << >>
  BY FlattenEmpty
<1> HIDE DEF x, t, y
<1>6. done \o x \in Seq(Nat) /\ (done \o x) \o y = done \o (x \o y) /\ x \o << >> = x
  <2>1. done \o x \in Seq(Nat)
    BY <1>2, ConcatProperties
  <2>2. (done \o x) \o y = done \o (x \o y)
    <3>1. Regroups(done, x, y)
      BY <1>2, ConcatRegroups, Zenon
    <3> QED BY <3>1 DEF Regroups
  <2>3. x \o << >> = x
    BY <1>2, ConcatEmptySeq
  <2> QED BY <2>1, <2>2, <2>3
<1>7. Len(parts) = 1 => x \o y = x
  BY <1>4, <1>5, <1>6
<1>8. /\ (done \o x) \o y = done \o FlattenSeq(parts)
      /\ Len(parts) = 1 => done \o x = done \o FlattenSeq(parts)
  BY <1>3, <1>6, <1>7
<1> QED BY <1>2, <1>6, <1>8 DEF x, y, t, Rows

(* A forward pass adds the log-probabilities of its rows; the last one     *)
(* puts them back in the order of the rows.                                *)
LEMMA ForwardRows ==
  ASSUME LockstepInv, Calling, RowsInv, NEW r \in Ranks, Forward(r), StepOK(r),
         UNCHANGED use_dynamic_bsz
  PROVE  OwnRows(r)
<1> DEFINE computed == outputs[r] \o plan[r][1]
<1>1. /\ at[r] = "forward" /\ Met(r)
      /\ UNCHANGED << pc, sent, left, order, summed, old_log_probs >>
  BY DEF Forward, batchVars
<1>2. RowsType /\ RowsOK(r) /\ TypeOK /\ RankOK(r) /\ SentOK
  BY DEF RowsInv, LockstepInv
<1>3. plan[r] \in Seq(Rows) /\ plan[r] # << >> /\ outputs[r] \in Rows
  BY <1>1, <1>2 DEF RankOK, TypeOK, RowsType
<1>4. /\ computed \in Rows
      /\ computed \o FlattenSeq(Tail(plan[r])) = outputs[r] \o FlattenSeq(plan[r])
      /\ Len(plan[r]) = 1 => computed = outputs[r] \o FlattenSeq(plan[r])
  BY <1>3, DoneAndPlanned
<1>5. /\ Shuffled(order[r], left[r][1]) /\ (~ use_dynamic_bsz => order[r] = left[r][1])
      /\ (pc = "update_actor" => summed[r] \o FlattenSeq(plan[r]) = order[r])
      /\ (pc = "log_prob" => outputs[r] \o FlattenSeq(plan[r]) = order[r])
  BY <1>1, <1>2 DEF RowsOK
<1> HIDE DEF computed
<1>6. CASE pc = "update_actor"
  <2>1. at'[r] = "backward" /\ UNCHANGED << plan, outputs >>
    BY <1>2, <1>6 DEF Forward, Enter, TypeOK
  <2>2. RowsOK(r)'
    BY <1>1, <1>5, <1>6, <2>1 DEF RowsOK
  <2> QED BY <1>1, <1>2, <2>1, <2>2 DEF OwnRows, RowsType
<1>7. CASE pc = "log_prob" /\ Len(plan[r]) > 1
  <2>1. /\ at'[r] = "forward" /\ plan'[r] = Tail(plan[r])
        /\ outputs' = [outputs EXCEPT ![r] = computed]
    <3>1. /\ at' = [at EXCEPT ![r] = "forward"]
          /\ plan' = [plan EXCEPT ![r] = Tail(plan[r])]
          /\ outputs' = [outputs EXCEPT ![r] = computed]
      <4>1. Len(plan[r]) # 1 /\ pc # "update_actor"
        <5>1. Len(plan[r]) \in Nat
          BY <1>3, LenProperties
        <5> DEFINE p == Len(plan[r])
        <5>2. p > 1 /\ p \in Nat
          BY <1>7, <5>1
        <5> HIDE DEF p
        <5>3. p # 1
          BY <5>2
        <5>4. pc # "update_actor"
          BY <1>7
        <5> QED BY <5>3, <5>4 DEF p
      <4> QED BY <4>1, <1>7, Zenon DEF Forward, Enter, computed
    <3> QED BY <1>2, <3>1 DEF TypeOK
  <2>2. /\ outputs' \in [Ranks -> Rows] /\ outputs'[r] = computed
        /\ \A v \in Ranks : v # r => outputs'[v] = outputs[v]
    BY <1>2, <1>4, <2>1 DEF RowsType
  <2>3. RowsOK(r)'
    BY <1>1, <1>4, <1>5, <1>7, <2>1, <2>2 DEF RowsOK
  <2> QED BY <1>1, <1>2, <2>2, <2>3 DEF OwnRows, RowsType
<1>8. CASE pc = "log_prob" /\ Len(plan[r]) = 1
  <2> DEFINE restored == IF use_dynamic_bsz
                         THEN RestoreDynamicBatch(computed, Positions(order[r], left[r][1]))
                         ELSE computed
             share == Share(sent, r)
  <2>1. at'[r] = "returned" /\ outputs' = [outputs EXCEPT ![r] = restored]
    BY <1>2, <1>8 DEF Forward, Enter, TypeOK, computed
  <2>2. computed = order[r]
    BY <1>4, <1>5, <1>8
  <2>3. left[r][1] = share /\ share \in Rows /\ Distinct(share)
    BY <1>1, <1>8, WholeShare DEF Kinds
  <2>4. restored = share
    <3>1. CASE use_dynamic_bsz
      <4> DEFINE idx == Positions(order[r], share)
      <4>1. order[r] \in Seq(Nat) /\ share \in Seq(Nat) /\ Shuffled(order[r], share)
        BY <1>2, <1>5, <2>3 DEF RowsType, Rows
      <4>2. DOMAIN order[r] = 1 .. Len(share) /\ DOMAIN share = 1 .. Len(share)
        BY <4>1, LenProperties DEF Shuffled
      <4> HIDE DEF share
      <4>3. idx = [i \in 1 .. Len(share) |-> CHOOSE j \in 1 .. Len(share) : share[j] = order[r][i]]
        BY <4>2 DEF Positions
      <4> HIDE DEF idx
      <4>4. RestoreDynamicBatch(order[r], idx) = share
        <5> DEFINE s == order[r]
        <5>1. /\ s \in Seq(Nat) /\ share \in Seq(Nat) /\ Shuffled(s, share)
              /\ Distinct(share)
              /\ idx = [i \in 1 .. Len(share) |->
                          CHOOSE j \in 1 .. Len(share) : share[j] = s[i]]
          BY <2>3, <4>1, <4>3
        <5> HIDE DEF s
        <5>2. RestoreDynamicBatch(s, idx) = share
          BY <5>1, RestoreUndoes
        <5> QED BY <5>2 DEF s
      <4> QED BY <2>2, <2>3, <3>1, <4>4 DEF idx
    <3>2. CASE ~ use_dynamic_bsz
      BY <1>5, <2>2, <2>3, <3>2
    <3> QED BY <3>1, <3>2
  <2> HIDE DEF restored
  <2>5. /\ outputs' \in [Ranks -> Rows] /\ outputs'[r] = share
        /\ \A v \in Ranks : v # r => outputs'[v] = outputs[v]
    BY <1>2, <2>1, <2>3, <2>4 DEF RowsType
  <2>6. Share(sent, r)' = share
    BY <1>1 DEF Share
  <2> HIDE DEF share
  <2>7. RowsOK(r)'
    BY <1>1, <2>1, <2>5, <2>6 DEF RowsOK
  <2> QED BY <1>1, <1>2, <2>5, <2>7 DEF OwnRows, RowsType
<1> QED BY <1>6, <1>7, <1>8 DEF Forward

(* A backward pass adds the rows of its micro-batch to the gradient.       *)
LEMMA BackwardRows ==
  ASSUME LockstepInv, Calling, RowsInv, NEW r \in Ranks, NEW fine, Backward(r, fine), StepOK(r),
         UNCHANGED use_dynamic_bsz
  PROVE  OwnRows(r)
<1> DEFINE sum == summed[r] \o plan[r][1]
<1>1. /\ at[r] = "backward" /\ at'[r] \in {"forward", "clip"}
      /\ summed' = [summed EXCEPT ![r] = sum]
      /\ plan'[r] = Tail(plan[r])
      /\ UNCHANGED << pc, left, outputs, order, old_log_probs >>
  BY DEF Backward, batchVars, Enter, LockstepInv, TypeOK
<1>2. RowsType /\ RowsOK(r) /\ TypeOK /\ RankOK(r)
  BY DEF RowsInv, LockstepInv
<1>3. /\ plan[r] \in Seq(Rows) /\ plan[r] # << >> /\ summed[r] \in Rows
      /\ pc = "update_actor"
  BY <1>1, <1>2 DEF RankOK, TypeOK, RowsType
<1>4. /\ sum \in Rows
      /\ sum \o FlattenSeq(Tail(plan[r])) = summed[r] \o FlattenSeq(plan[r])
  BY <1>3, DoneAndPlanned
<1>5. /\ Shuffled(order[r], left[r][1]) /\ (~ use_dynamic_bsz => order[r] = left[r][1])
      /\ summed[r] \o FlattenSeq(plan[r]) = order[r]
  BY <1>1, <1>2, <1>3 DEF RowsOK
<1> HIDE DEF sum
<1>6. /\ summed' \in [Ranks -> Rows] /\ summed'[r] = sum
      /\ \A v \in Ranks : v # r => summed'[v] = summed[v]
  BY <1>1, <1>2, <1>4 DEF RowsType
<1>7. RowsOK(r)'
  BY <1>1, <1>3, <1>4, <1>5, <1>6 DEF RowsOK
<1> QED BY <1>1, <1>2, <1>6, <1>7 DEF OwnRows, RowsType

(* RowsInv, for every step of a rank.                                      *)
LEMMA RankRows ==
  ASSUME LockstepInv, RowsInv, NEW r \in Ranks, Rank(r) \/ Fail(r), UNCHANGED use_dynamic_bsz
  PROVE  RowsInv'
<1>1. Calling /\ StepOK(r)
  BY RankSteps
<1>2. RowsType /\ RowsOK(r) /\ TypeOK /\ RankOK(r)
  BY <1>1 DEF RowsInv, LockstepInv
<1>3. CASE Clip(r)
  <2>1. /\ at[r] = "clip" /\ at'[r] \in {"mini_batch", "returned"}
        /\ UNCHANGED << pc, outputs, order, summed, old_log_probs >>
    BY <1>2, <1>3 DEF Clip, batchVars, TypeOK
  <2>2. pc # "log_prob"
    BY <1>2, <2>1 DEF RankOK
  <2>3. RowsOK(r)'
    BY <2>1, <2>2 DEF RowsOK
  <2>4. OwnRows(r)
    BY <1>2, <2>1, <2>3 DEF OwnRows, RowsType
  <2> QED BY <1>1, <2>4, OwnRowsKeep
<1>4. CASE Fail(r)
  <2>1. /\ at'[r] = "raised" /\ UNCHANGED << pc, outputs, order, summed, old_log_probs >>
    BY <1>2, <1>4 DEF Fail, batchVars, TypeOK
  <2>2. RowsOK(r)'
    BY <2>1 DEF RowsOK
  <2>3. OwnRows(r)
    BY <1>2, <2>1, <2>2 DEF OwnRows, RowsType
  <2> QED BY <1>1, <2>3, OwnRowsKeep
<1>5. CASE Begin(r)
  BY <1>1, <1>5, BeginRows, OwnRowsKeep
<1>6. CASE StartMiniBatch(r)
  BY <1>1, <1>6, StartRows, OwnRowsKeep
<1>7. CASE Count(r)
  BY <1>1, <1>7, CountRows, OwnRowsKeep
<1>8. CASE Forward(r)
  BY <1>1, <1>8, ForwardRows, OwnRowsKeep
<1>9. CASE \E fine \in BOOLEAN : Backward(r, fine)
  BY <1>1, <1>9, BackwardRows, OwnRowsKeep
<1> QED BY <1>3, <1>4, <1>5, <1>6, <1>7, <1>8, <1>9 DEF Rank

(* All have returned, or none has been called yet: no rank works on rows.  *)
LEMMA RestRows ==
  ASSUME RowsInv,
         \A r \in Ranks : \/ at'[r] = "idle"
                          \/ at'[r] = "returned" /\ pc' # "log_prob"
                          \/ at'[r] = "called" /\ outputs'[r] = << >>,
         RowsType',
         old_log_probs' \in {<< >>, [i \in DOMAIN lens' |-> i]}
  PROVE  RowsInv'
<1>1. \A r \in Ranks : RowsOK(r)'
  BY DEF RowsOK
<1> QED BY <1>1 DEF RowsInv

(* The log-probabilities collected from one rank of each group are those   *)
(* of the rows of the batch, in their order.                               *)
LEMMA Collected ==
  ASSUME LockstepInv, RowsInv, CollectLogProbs
  PROVE  old_log_probs' = [i \in DOMAIN lens |-> i]
<1>1. /\ pc = "log_prob" /\ Returned
      /\ old_log_probs' = FlattenSeq([g \in 1 .. DpSize |-> outputs[(g - 1) * SpSize]])
  BY DEF CollectLogProbs
<1>2. Even(sent, DOMAIN lens) /\ sent = [i \in DOMAIN lens |-> i]
  BY <1>1 DEF LockstepInv, SentOK, Calling
<1>3. ASSUME NEW g \in 1 .. DpSize
      PROVE  outputs[(g - 1) * SpSize] = Share(sent, (g - 1) * SpSize)
  <2> DEFINE v == (g - 1) * SpSize
  <2>1. v \in Ranks
    <3>1. /\ DpSize \in Nat \ {0} /\ SpSize \in Nat \ {0} /\ World = DpSize * SpSize
      BY Sizes
    <3> DEFINE d == g - 1
               w == World
    <3>2. d \in Nat /\ d + 1 <= DpSize
      BY <3>1
    <3> HIDE DEF d, w
    <3>3. d * SpSize \in Nat /\ d * SpSize + SpSize = (d + 1) * SpSize
          /\ (d + 1) * SpSize <= DpSize * SpSize
      BY <3>1, <3>2
    <3> DEFINE m == d * SpSize
               q == (d + 1) * SpSize
               z == DpSize * SpSize
    <3>4. m \in Nat /\ m + SpSize = q /\ q <= z /\ w = z /\ z \in Nat
      BY <3>1, <3>3 DEF w
    <3> HIDE DEF m, q, z
    <3>5. m \in 0 .. w - 1
      BY <3>1, <3>4
    <3> QED BY <3>5 DEF m, d, w, Ranks
  <2> HIDE DEF v
  <2>2. at[v] = "returned" /\ RowsOK(v)
    BY <1>1, <2>1 DEF Returned, RowsInv
  <2>3. outputs[v] = Share(sent, v)
    BY <1>1, <2>2 DEF RowsOK
  <2> QED BY <2>3 DEF v
<1>4. [g \in 1 .. DpSize |-> outputs[(g - 1) * SpSize]]
        = [g \in 1 .. DpSize |-> Share(sent, (g - 1) * SpSize)]
  BY <1>3
<1>5. FlattenSeq([g \in 1 .. DpSize |-> Share(sent, (g - 1) * SpSize)]) = sent
  BY <1>2, SharesJoin
<1> QED BY <1>1, <1>2, <1>4, <1>5

(* RowsInv, for every step of fit.                                         *)
LEMMA DriverRows ==
  ASSUME LockstepInv, RowsInv, Driver
  PROVE  RowsInv'
<1>1. RowsType /\ old_log_probs \in {<< >>, [i \in DOMAIN lens |-> i]}
  BY DEF RowsInv
<1>2. << >> \in Rows
  BY DEF Rows
<1>3. CASE Relaunch
  <2>1. /\ at' = Everywhere("idle") /\ outputs' = Everywhere(<< >>)
        /\ order' = Everywhere(<< >>) /\ summed' = Everywhere(<< >>)
        /\ old_log_probs' = << >>
    BY <1>3 DEF Relaunch
  <2>2. RowsType'
    BY <1>2, <2>1 DEF RowsType, Everywhere
  <2> QED BY <2>1, <2>2, RestRows DEF Everywhere
<1>4. CASE ~ Relaunch
  <2>1. CASE \E batch \in Batches : Rollout(batch)
    <3>1. /\ at' = Everywhere("called") /\ outputs' = Everywhere(<< >>)
          /\ UNCHANGED << order, summed >> /\ old_log_probs' = << >>
      BY <2>1 DEF Rollout, Call
    <3>2. RowsType'
      BY <1>1, <1>2, <3>1 DEF RowsType, Everywhere
    <3> QED BY <3>1, <3>2, RestRows DEF Everywhere
  <2>2. CASE CollectLogProbs
    <3>1. pc' = "values" /\ Returned /\ UNCHANGED << lens, at, outputs, order, summed >>
      BY <2>2 DEF CollectLogProbs, rankVars
    <3>2. RowsType'
      BY <1>1, <3>1 DEF RowsType
    <3>3. old_log_probs' = [i \in DOMAIN lens' |-> i]
      BY <2>2, <3>1, Collected
    <3> QED BY <3>1, <3>2, <3>3, RestRows DEF Returned
  <2>3. CASE \E useful \in SUBSET DOMAIN lens : UpdateActor(useful)
    <3>1. UNCHANGED << lens, old_log_probs, order, summed >> /\ pc = "update_critic"
      BY <2>3 DEF UpdateActor
    <3>2. CASE at' = Everywhere("called") /\ outputs' = Everywhere(<< >>)
      <4>1. RowsType'
        BY <1>1, <1>2, <3>1, <3>2 DEF RowsType, Everywhere
      <4> QED BY <1>1, <3>1, <3>2, <4>1, RestRows DEF Everywhere
    <3>3. CASE UNCHANGED << at, outputs >> /\ pc' = "save"
      <4>1. RowsType'
        BY <1>1, <3>1, <3>3 DEF RowsType
      <4>2. \A r \in Ranks : at[r] \in {"idle", "returned"}
        BY <3>1 DEF LockstepInv, AtRest, Calling
      <4> QED BY <1>1, <3>1, <3>3, <4>1, <4>2, RestRows
    <3> QED BY <2>3, <3>2, <3>3 DEF UpdateActor, Call
  <2>4. CASE \/ ComputeValues \/ ActorUpdated
             \/ \E r \in Ranks, steps \in 0 .. CriticEpochs : UpdateCritic(r, steps)
             \/ \E save \in BOOLEAN : NextStep(save)
    <3>1. /\ UNCHANGED << lens, old_log_probs, rankVars >>
          /\ pc' # "log_prob" /\ (~ Calling \/ Returned)
      BY <2>4 DEF ComputeValues, ActorUpdated, UpdateCritic, NextStep, batchVars, Calling
    <3>2. UNCHANGED << at, outputs, order, summed >>
      BY <3>1 DEF rankVars
    <3>3. RowsType'
      BY <1>1, <3>2 DEF RowsType
    <3>4. \A r \in Ranks : at[r] \in {"idle", "returned"}
      BY <3>1 DEF LockstepInv, AtRest, Returned
    <3> QED BY <1>1, <3>1, <3>2, <3>3, <3>4, RestRows
  <2> QED BY <1>4, <2>1, <2>2, <2>3, <2>4 DEF Driver
<1> QED BY <1>3, <1>4

RowsAndLockstep == LockstepInv /\ RowsInv

(* RowsInv with the lockstep it rests on is inductive.                     *)
LEMMA RowsAlways == Spec => []RowsAndLockstep
<1>1. Init => RowsAndLockstep
  <2> SUFFICES ASSUME Init PROVE RowsInv
    BY InitLockstep DEF RowsAndLockstep
  <2>1. << >> \in Rows
    BY DEF Rows
  <2> QED BY <2>1 DEF RowsInv, RowsType, RowsOK, Init, Everywhere
<1>2. RowsAndLockstep /\ [Next]_vars => RowsAndLockstep'
  <2> SUFFICES ASSUME LockstepInv, RowsInv, [Next]_vars PROVE RowsInv'
    BY NextLockstep DEF RowsAndLockstep
  <2>1. CASE UNCHANGED vars
    <3>1. UNCHANGED << pc, use_dynamic_bsz, lens, sent, at, left, plan, outputs, order,
                       summed, old_log_probs >>
      BY <2>1 DEF vars, rankVars, batchVars
    <3>2. \A r : RowsOK(r)' = RowsOK(r)
      BY <3>1 DEF RowsOK, Share
    <3> QED BY <3>1, <3>2 DEF RowsInv, RowsType
  <2>2. CASE Driver
    BY <2>2, DriverRows
  <2>3. CASE \E r \in Ranks : (Rank(r) \/ Fail(r)) /\ UNCHANGED use_dynamic_bsz
    BY <2>3, RankRows
  <2> QED BY <2>1, <2>2, <2>3 DEF Next, Done
<1> QED BY <1>1, <1>2, PTL DEF Spec

(* GradientOfMiniBatch: at every optimizer step the gradient of a rank is  *)
(* the sum over the rows of its mini-batch, each once, for every packing   *)
(* into micro-batches (update_policy: zero_grad, the loop over micro-      *)
(* batches, rearrange_micro_batches).                                      *)
THEOREM GradientsAreOfMiniBatches == Spec => []GradientOfMiniBatch
<1>1. RowsAndLockstep => GradientOfMiniBatch
  <2> SUFFICES ASSUME RowsAndLockstep, NEW r \in Ranks, at[r] = "clip"
               PROVE  /\ Len(summed[r]) = Len(left[r][1])
                      /\ ToSet(summed[r]) = ToSet(left[r][1])
    BY DEF GradientOfMiniBatch
  <2>1. LockstepInv /\ RowsType /\ RowsOK(r)
    BY DEF RowsAndLockstep, RowsInv
  <2>2. Calling
    BY <2>1 DEF LockstepInv, AtRest
  <2>3. pc = "update_actor" /\ plan[r] = << >>
    BY <2>1, <2>2 DEF LockstepInv, RankOK
  <2>4. left[r][1] \in Rows
    BY <2>1, <2>2, CurrentMini DEF Kinds
  <2>5. summed[r] = order[r]
    <3>1. summed[r] \o << >> = order[r]
      BY <2>1, <2>3, FlattenEmpty DEF RowsOK
    <3>2. summed[r] \in Seq(Nat)
      BY <2>1 DEF RowsType, Rows
    <3> QED BY <3>1, <3>2, ConcatEmptySeq
  <2>6. Shuffled(summed[r], left[r][1])
    BY <2>1, <2>5 DEF RowsOK
  <2>7. ToSet(summed[r]) = Members(summed[r]) /\ ToSet(left[r][1]) = Members(left[r][1])
    <3>1. DOMAIN summed[r] = 1 .. Len(summed[r])
      BY <2>1, LenProperties DEF RowsType, Rows
    <3>2. DOMAIN left[r][1] = 1 .. Len(left[r][1])
      BY <2>4, LenProperties DEF Rows
    <3> QED BY <3>1, <3>2 DEF ToSet, Members
  <2> QED BY <2>6, <2>7 DEF Shuffled
<1> QED BY <1>1, RowsAlways, PTL

(* LogProbsOfRows: the old log-probabilities stand beside their own rows,  *)
(* after packing into micro-batches, restoring and collecting from the     *)
(* groups (compute_log_prob with restore_dynamic_batch, the dispatch of    *)
(* ActorRolloutRefWorker).                                                 *)
THEOREM LogProbsStayWithRows == Spec => []LogProbsOfRows
<1>1. RowsAndLockstep => LogProbsOfRows
  BY DEF RowsAndLockstep, RowsInv, LogProbsOfRows
<1> QED BY <1>1, RowsAlways, PTL

-----------------------------------------------------------------------------
(* The critic.                                                             *)

(* A copy of the critic whose steps were all taken before training step n. *)
Before(steps, n) ==
  /\ steps \in Seq(Int \X Int \X Int)
  /\ \A k \in 1..Len(steps) : steps[k][1] < n

(* The copies have learned from earlier batches until they are trained, a  *)
(* checkpoint holds what was learned up to its step.                       *)
CriticInv ==
  /\ global_steps \in Nat
  /\ lens \in Batches \cup {<< >>}
  /\ \A r \in Ranks :
       Before(critic[r], IF pc \in {"rollout", "log_prob", "values"}
                         THEN global_steps ELSE global_steps + 1)
  /\ critic \in [Ranks -> Seq(Int \X Int \X Int)]
  /\ pc # "rollout" => \A i \in DOMAIN values : Before(values[i], global_steps)
  /\ saved.step \in Nat
  /\ Before(saved.critic, saved.step + 1)

-----------------------------------------------------------------------------

(* The ranks share the rows of a batch evenly: each row falls to one rank. *)
LEMMA RowHasRank ==
  ASSUME NEW batch \in Batches, NEW i \in DOMAIN batch
  PROVE  (i - 1) \div (Len(batch) \div World) \in Ranks
<1> DEFINE L == Len(batch)
           W == World
           q == L \div W
           d == (i - 1) \div q
<1>1. L \in Nat /\ i \in 1..L
  BY UpdateAssumption, LenProperties
<1>2. L % W = 0
  BY UpdateAssumption DEF World
<1>3. W \in Nat /\ W > 0
  BY Sizes
<1> HIDE DEF L, W
<1>4. q \in Nat /\ L = q * W
  BY <1>1, <1>2, <1>3
<1>5. q > 0
  BY <1>1, <1>3, <1>4
<1> HIDE DEF q
<1>6. d \in Nat /\ d * q <= i - 1
  BY <1>1, <1>4, <1>5
<1> HIDE DEF d
<1>7. d < W
  <2> SUFFICES ASSUME d >= W PROVE FALSE
    BY <1>3, <1>6
  <2>1. d * q >= W * q
    BY <1>3, <1>4, <1>6
  <2>2. W * q = L
    BY <1>3, <1>4
  <2> QED BY <1>1, <1>3, <1>4, <1>6, <2>1, <2>2
<1>8. d \in Ranks
  BY <1>3, <1>6, <1>7 DEF Ranks, W
<1> QED BY <1>8 DEF d, q, L, W

(* What was learned before n was learned before any later step.            *)
LEMMA BeforeLater ==
  ASSUME NEW s, NEW n \in Nat, Before(s, n)
  PROVE  Before(s, n + 1)
<1>1. \A k \in 1..Len(s) : s[k] \in Int \X Int \X Int
  BY ElementOfSeq DEF Before
<1> QED BY <1>1 DEF Before

(* The steps of an update carry the number of the training step.           *)
LEMMA BeforeUpdated ==
  ASSUME NEW s, NEW n \in Nat, Before(s, n + 1), NEW r \in Int,
         NEW steps \in Nat
  PROVE  Before(s \o [e \in 1..steps |-> << n, r, e >>], n + 1)
<1> DEFINE t == [e \in 1..steps |-> << n, r, e >>]
<1>1. t \in Seq(Int \X Int \X Int) /\ Len(t) = steps
  <2>1. \A e \in 1..steps : << n, r, e >> \in Int \X Int \X Int
    OBVIOUS
  <2> QED BY <2>1, IsASeq
<1>2. \A e \in 1..Len(t) : t[e][1] = n
  BY <1>1
<1> HIDE DEF t
<1>3. s \in Seq(Int \X Int \X Int)
  BY DEF Before
<1>4. /\ s \o t \in Seq(Int \X Int \X Int) /\ Len(s \o t) = Len(s) + Len(t)
      /\ Len(s) \in Nat /\ Len(t) \in Nat
  BY <1>1, <1>3, ConcatProperties, LenProperties
<1>5. ASSUME NEW k \in 1..Len(s \o t) PROVE (s \o t)[k][1] < n + 1
  <2>1. CASE k <= Len(s)
    <3>1. (s \o t)[k] = s[k] /\ k \in 1..Len(s)
      BY <1>1, <1>3, <1>4, <2>1, ConcatProperties
    <3> QED BY <3>1 DEF Before
  <2>2. CASE k > Len(s)
    <3>1. (s \o t)[k] = t[k - Len(s)] /\ k - Len(s) \in 1..Len(t)
      BY <1>1, <1>3, <1>4, <2>2, ConcatProperties
    <3>2. (s \o t)[k][1] = n
      BY <1>2, <3>1
    <3> QED BY <3>2
  <2> QED BY <1>4, <2>1, <2>2
<1>6. Before(s \o t, n + 1)
  BY <1>4, <1>5 DEF Before
<1> QED BY <1>6 DEF t

-----------------------------------------------------------------------------

(* Before the first step nothing has been learned.                         *)
LEMMA InitCritic == Init => CriticInv
<1> SUFFICES ASSUME Init PROVE CriticInv
  OBVIOUS
<1>1. \A n : Before(<< >>, n)
  BY EmptySeq DEF Before
<1>2. \A r \in Ranks : critic[r] = << >>
  BY DEF Init, Everywhere
<1>3. critic \in [Ranks -> Seq(Int \X Int \X Int)]
  BY EmptySeq DEF Init, Everywhere
<1> QED BY <1>1, <1>2, <1>3 DEF Init, CriticInv

(* A batch is drawn, its log-probabilities are collected: the copies still *)
(* have learned from earlier batches alone.                                *)
LEMMA RolloutCritic ==
  ASSUME CriticInv, NEW batch \in Batches, Rollout(batch)
  PROVE  CriticInv'
<1>1. /\ pc = "rollout" /\ pc' = "log_prob" /\ lens' = batch /\ values' = << >>
      /\ UNCHANGED << global_steps, critic, saved >>
  BY DEF Rollout
<1>2. DOMAIN values' = {}
  BY <1>1, EmptySeq
<1> QED BY <1>1, <1>2 DEF CriticInv

(* Each value is predicted by the copy of the rank its row is sent to.     *)
LEMMA ValuesCritic ==
  ASSUME CriticInv, ComputeValues
  PROVE  CriticInv'
<1>1. /\ pc = "values" /\ pc' = "update_critic"
      /\ UNCHANGED << global_steps, lens, critic, saved >>
  BY DEF ComputeValues
<1>2. \A r \in Ranks : Before(critic[r], global_steps)
  BY <1>1 DEF CriticInv
<1>3. ASSUME NEW i \in DOMAIN values' PROVE Before(values'[i], global_steps)
  <2>1. i \in DOMAIN lens
        /\ values'[i] = critic[(i - 1) \div (Len(lens) \div World)]
    BY <1>3 DEF ComputeValues
  <2>2. lens # << >>
    BY <2>1, EmptySeq
  <2>3. (i - 1) \div (Len(lens) \div World) \in Ranks
    BY <2>1, <2>2, RowHasRank DEF CriticInv
  <2> QED BY <1>2, <2>1, <2>3
<1>4. \A r \in Ranks : Before(critic[r], global_steps + 1)
  BY <1>2, BeforeLater DEF CriticInv
<1> QED BY <1>1, <1>3, <1>4 DEF CriticInv

(* A copy learns from the batch after its values have been predicted.      *)
LEMMA UpdateCriticCritic ==
  ASSUME CriticInv, NEW r \in Ranks, NEW steps \in 0..CriticEpochs,
         UpdateCritic(r, steps)
  PROVE  CriticInv'
<1> DEFINE new == critic[r] \o [e \in 1..steps |-> << global_steps, r, e >>]
<1>1. /\ pc = "update_critic" /\ critic' = [critic EXCEPT ![r] = new]
      /\ UNCHANGED << pc, global_steps, lens, values, saved >>
  BY DEF UpdateCritic, batchVars
<1>2. r \in Int /\ steps \in Nat /\ global_steps \in Nat
  BY Sizes, UpdateAssumption DEF CriticInv
<1>3. Before(critic[r], global_steps + 1)
  BY <1>1 DEF CriticInv
<1>4. Before(new, global_steps + 1)
  BY <1>2, <1>3, BeforeUpdated
<1>5. new \in Seq(Int \X Int \X Int)
  BY <1>4 DEF Before
<1> HIDE DEF new
<1>6. /\ critic' \in [Ranks -> Seq(Int \X Int \X Int)]
      /\ \A v \in Ranks : critic'[v] = IF v = r THEN new ELSE critic[v]
  BY <1>1, <1>5 DEF CriticInv
<1>7. \A v \in Ranks : Before(critic'[v], global_steps + 1)
  BY <1>1, <1>4, <1>6 DEF CriticInv
<1> QED BY <1>1, <1>6, <1>7 DEF CriticInv

(* A checkpoint saves rank 0's copy under the step it has just taken.      *)
LEMMA NextStepCritic ==
  ASSUME CriticInv, NEW save \in BOOLEAN, NextStep(save)
  PROVE  CriticInv'
<1>1. /\ pc = "save" /\ pc' = "rollout" /\ global_steps' = global_steps + 1
      /\ UNCHANGED << lens, critic, values >>
  BY DEF NextStep, criticVars
<1>2. \A r \in Ranks : Before(critic[r], global_steps + 1)
  BY <1>1 DEF CriticInv
<1>3. saved'.step \in Nat /\ Before(saved'.critic, saved'.step + 1)
  <2>1. CASE save
    <3>1. saved'.step = global_steps /\ saved'.critic = critic[0]
      BY <2>1 DEF NextStep
    <3>2. 0 \in Ranks
      BY Sizes
    <3> QED BY <1>2, <3>1, <3>2 DEF CriticInv
  <2>2. CASE ~ save
    BY <2>2 DEF NextStep, CriticInv
  <2> QED BY <2>1, <2>2
<1> QED BY <1>1, <1>2, <1>3 DEF CriticInv

(* A relaunch continues after the step of the checkpoint, and every rank   *)
(* loads the copy it holds.                                                *)
LEMMA RelaunchCritic ==
  ASSUME CriticInv, Relaunch
  PROVE  CriticInv'
<1>1. /\ pc' = "rollout" /\ global_steps' = saved.step + 1
      /\ critic' = [r \in Ranks |-> saved.critic]
      /\ lens' = << >> /\ saved' = saved
  BY DEF Relaunch, Everywhere
<1>2. saved.critic \in Seq(Int \X Int \X Int)
  BY DEF CriticInv, Before
<1>3. critic' \in [Ranks -> Seq(Int \X Int \X Int)]
  BY <1>1, <1>2
<1> QED BY <1>1, <1>3 DEF CriticInv

(* Nothing else touches the critic, its values or the checkpoint, and what *)
(* follows the update of the critic stays behind it.                       *)
LEMMA OthersCritic ==
  ASSUME CriticInv, UNCHANGED << global_steps, lens, criticVars, saved >>,
         \/ pc' = pc
         \/ pc = "log_prob" /\ pc' = "values"
         \/ /\ pc \notin {"rollout", "log_prob", "values"}
            /\ pc' \in {"update_actor", "save"}
  PROVE  CriticInv'
BY DEF CriticInv, criticVars

(* Every step keeps the critic behind the values it predicts.              *)
LEMMA NextCritic == CriticInv /\ [Next]_vars => CriticInv'
<1> SUFFICES ASSUME CriticInv, [Next]_vars PROVE CriticInv'
  OBVIOUS
<1>1. ASSUME NEW batch \in Batches, Rollout(batch) PROVE CriticInv'
  BY <1>1, RolloutCritic
<1>2. CASE CollectLogProbs
  BY <1>2, OthersCritic DEF CollectLogProbs
<1>3. CASE ComputeValues
  BY <1>3, ValuesCritic
<1>4. ASSUME NEW r \in Ranks, NEW steps \in 0..CriticEpochs,
             UpdateCritic(r, steps)
      PROVE  CriticInv'
  BY <1>4, UpdateCriticCritic
<1>5. ASSUME NEW useful \in SUBSET DOMAIN lens, UpdateActor(useful)
      PROVE  CriticInv'
  <2>1. /\ pc = "update_critic" /\ pc' \in {"update_actor", "save"}
        /\ UNCHANGED << global_steps, lens, criticVars, saved >>
    BY <1>5 DEF UpdateActor
  <2> QED BY <2>1, OthersCritic
<1>6. CASE ActorUpdated
  BY <1>6, OthersCritic DEF ActorUpdated
<1>7. ASSUME NEW save \in BOOLEAN, NextStep(save) PROVE CriticInv'
  BY <1>7, NextStepCritic
<1>8. CASE Relaunch
  BY <1>8, RelaunchCritic
<1>9. ASSUME NEW r \in Ranks, Rank(r) \/ Fail(r) PROVE CriticInv'
  <2>1. UNCHANGED << batchVars, criticVars, saved >>
    BY <1>9 DEF Rank, Fail, Begin, StartMiniBatch, Count, Forward, Clip, Backward
  <2> QED BY <2>1, OthersCritic DEF batchVars
<1>10. CASE UNCHANGED vars
  BY <1>10, OthersCritic DEF vars, batchVars
<1> QED BY <1>1, <1>2, <1>3, <1>4, <1>5, <1>6, <1>7, <1>8, <1>9, <1>10
        DEF Next, Driver, Done

-----------------------------------------------------------------------------

(* ValuesBeforeTraining: whatever the number of ranks, the batches and the *)
(* relaunches, no row's baseline comes from a copy of the critic that has  *)
(* trained on that row's batch (compute_values, update_critic in fit).     *)
THEOREM BaselinesPrecedeTraining == Spec => []ValuesBeforeTraining
<1>1. CriticInv => ValuesBeforeTraining
  <2> SUFFICES ASSUME CriticInv, NEW i \in DOMAIN values, pc # "rollout",
                      NEW n \in DOMAIN values[i]
               PROVE  values[i][n][1] # global_steps
    BY DEF ValuesBeforeTraining
  <2>1. Before(values[i], global_steps) /\ global_steps \in Nat
    BY DEF CriticInv
  <2>2. n \in 1..Len(values[i])
    BY <2>1, LenProperties DEF Before
  <2>3. values[i][n] \in Int \X Int \X Int
    BY <2>1, <2>2, ElementOfSeq DEF Before
  <2> QED BY <2>1, <2>2, <2>3 DEF Before
<1> QED BY <1>1, InitCritic, NextCritic, PTL DEF Spec

=============================================================================
