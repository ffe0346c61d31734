--------------------------- MODULE BatchAlgorithms ---------------------------
(***************************************************************************)
(* The algorithms on batches side by side: one of them is chosen at the    *)
(* start.  A batch goes through a series of DataProto operations and calls *)
(* of worker groups, the level weights through a series of batches; the    *)
(* others are one computation on an input of their own.                    *)
(***************************************************************************)
EXTENDS SeqlenBalancing

CONSTANTS
  Lengths,       (* sequences of lengths to balance, and to put in batches *)
  Parts,         (* numbers of parts                                       *)
  MaxTokenLen,   (* max_token_len of a micro-batch                         *)
  MicroBatchRows,(* micro-batches of rows [prompt, response]               *)
  SpSizes,       (* ulysses_sequence_parallel_size                         *)
  HeadCounts,    (* [q, k]: heads of queries and of keys                   *)
  Groups,        (* batches of rows [rewards, mask, values, value, group]  *)
  TopP,          (* [p, q]: the share of tokens kept                       *)
  Batches,       (* lengths of the batches that operations are done on     *)
  Meshes,        (* [dp_size, dp_rank, collect] of the worker groups       *)
  World,         (* ranks of the worker group without a mesh               *)
  Levels,        (* world_level_choices                                    *)
  Rollouts,      (* bound: rollouts of a batch                             *)
  MaxRows,       (* bound: rows of a rollout                               *)
  MaxSteps       (* bound: operations, or batches, one after the other     *)

(* The first rank of each group of sequence parallel ranks is collected,   *)
(* and the ranks of a mesh are in the order of their data.                 *)
ASSUME MeshAssumption ==
  \A mesh \in Meshes :
    /\ mesh.dp_size \in Nat \ {0}
    /\ mesh.dp_rank \in Seq(1 .. mesh.dp_size)
    /\ mesh.collect \in [DOMAIN mesh.dp_rank -> BOOLEAN]
    /\ \A d \in 1 .. mesh.dp_size : \E r \in DOMAIN mesh.dp_rank :
         mesh.collect[r] /\ mesh.dp_rank[r] = d
    /\ \A q, r \in DOMAIN mesh.dp_rank :
         mesh.collect[q] /\ mesh.collect[r] /\ q < r => mesh.dp_rank[q] < mesh.dp_rank[r]
ASSUME LengthsAssumption ==
  /\ Lengths \subseteq Seq(Nat \ {0}) \ {<< >>}
  /\ Parts \subseteq Nat \ {0} /\ MaxTokenLen \subseteq Nat \ {0}
(* A batch is a tensor per field, all of one width; core_algos clamps the  *)
(* share of kept tokens to one.                                            *)
ASSUME GroupsAssumption ==
  /\ \A rows \in Groups :
       /\ IsFiniteSet(DOMAIN rows)
       /\ \A r \in DOMAIN rows :
            /\ rows[r].rewards \in Seq(Int) /\ rows[r].values \in Seq(Int)
            /\ rows[r].mask \in Seq(BOOLEAN) /\ rows[r].value \in Int
            /\ Len(rows[r].values) = Len(rows[r].rewards)
            /\ Len(rows[r].mask) = Len(rows[r].rewards)
       /\ \A q, r \in DOMAIN rows : Len(rows[q].rewards) = Len(rows[r].rewards)
  /\ \A share \in TopP : share.p \in Nat /\ share.q \in Nat \ {0} /\ share.p <= share.q
(* A prompt has a token at least; apply_monkey_patch asserts that the ranks *)
(* share the heads equally, and grouped heads that the queries share keys. *)
ASSUME ForwardAssumption ==
  /\ MicroBatchRows \subseteq Seq([prompt : Nat \ {0}, response : Nat])
  /\ \A sp \in SpSizes : \A heads \in HeadCounts :
       /\ sp \in Nat \ {0} /\ heads.q \in Nat \ {0} /\ heads.k \in Nat \ {0}
       /\ heads.q % sp = 0 /\ heads.q % heads.k = 0
       /\ heads.k % sp = 0 \/ sp % heads.k = 0
ASSUME RowsAssumption == Batches \subseteq Nat \ {0} /\ World \in Nat \ {0}
ASSUME LevelsAssumption ==
  IsFiniteSet(Levels) /\ "none" \notin Levels /\ Rollouts \in Nat /\ MaxRows \in Nat \ {0}

Forward   == INSTANCE SequenceParallel
Estimate  == INSTANCE AdvantageEstimators
Proto     == INSTANCE BatchProtocol
Sampling  == INSTANCE LevelSampling

VARIABLES
  task, input, result,  (* what is computed, of what, and what came out    *)
  data,       (* the caller's DataProto                                    *)
  pad_size,   (* what pad_dataproto_to_divisor has returned                *)
  held,       (* history: the batch before it was padded                   *)
  asked,      (* history: the batch the last call was made with            *)
  answer,     (* the answer to it                                          *)
  weights,    (* _world_level_sampling_weights                             *)
  steps

rowVars == << data, pad_size, held, asked, answer >>
vars == << task, input, result, rowVars, weights, steps >>

None == << >>
NewBatch(n) == Proto!DataProto([i \in 1 .. n |-> i], [i \in 1 .. n |-> i])

(* Rows are at least as many as parts, and equal sizes must be possible.   *)
Partitionings ==
  {x \in Lengths \X Parts \X BOOLEAN :
     Len(x[1]) >= x[2] /\ (x[3] => Len(x[1]) % x[2] = 0)}
Rearrangements == {x \in Lengths \X MaxTokenLen : LongestFits(x[1], x[2])}

Init ==
  /\ task \in {"balance", "micro_batches", "forward", "estimate", "rows", "levels"}
  /\ input \in CASE task = "balance" -> Partitionings
                 [] task = "micro_batches" -> Rearrangements
                 [] task = "forward" -> MicroBatchRows \X SpSizes \X HeadCounts
                 [] task = "estimate" -> Groups \X TopP
                 [] OTHER -> {None}
  /\ result = None
  /\ data \in IF task = "rows" THEN {NewBatch(n) : n \in Batches} ELSE {NewBatch(0)}
  /\ pad_size = 0
  /\ held = data
  /\ asked = data
  /\ answer = data
  /\ weights = None
  /\ steps = 0

-----------------------------------------------------------------------------
(* One computation.                                                        *)

Compute(name, value) ==
  /\ task = name
  /\ result = None
  /\ result' = value
  /\ UNCHANGED << task, input, rowVars, weights, steps >>

(* _balance_batch, by either of the two ways to make partitions, and the   *)
(* order the rows get, which dispatching cuts into equal chunks.           *)
Balance ==
  LET lens == input[1] k == input[2] equal_size == input[3]
      work == Workloads(lens)
      parts == BalancedPartitions(work, k, equal_size)
  IN  Compute("balance",
        [karmarkar_karp |-> parts,
         greedy |-> GreedyPartition(work, k, equal_size),
         order |-> BalancedOrder(work, parts)])

(* Rows rearranged into micro-batches, answered and restored.              *)
Rearrange ==
  LET lens == input[1]
      num == MicroBatchesWanted(lens, input[2])
      plan == MicroBatches(lens, num)
      order == FlattenSeq(plan)
  IN  Compute("micro_batches",
        [plan |-> plan, wanted |-> num,
         restored |-> RestoreDynamicBatch(order, order)])

ForwardPass ==
  Compute("forward", Forward!ForwardMicroBatch(input[1], input[2], input[3].q, input[3].k))

EstimateAll ==
  LET rows == input[1]
      Each(f(_)) == [r \in DOMAIN rows |-> f(r)]
  IN  Compute("estimate",
        [gae |-> Each(LAMBDA r : Estimate!GaeAdvantages(rows[r], 1, 1)),
         gae0 |-> Each(LAMBDA r : Estimate!GaeAdvantages(rows[r], 1, 0)),
         reinforce |-> Each(LAMBDA r : Estimate!ReinforceReturns(rows[r], 1)),
         remax |-> Each(LAMBDA r : Estimate!RemaxReturns(rows[r])),
         kept |-> Estimate!KeptTokens(rows, input[2].p, input[2].q),
         grpo |-> Each(LAMBDA r : Estimate!GrpoAdvantage(rows, r)),
         grpo_mask |-> Each(LAMBDA r : Estimate!GrpoMaskAdvantage(rows, r)),
         rloo |-> Each(LAMBDA r : Estimate!RlooAdvantage(rows, r)),
         rloo_vectorized |-> Each(LAMBDA r : Estimate!RlooVectorizedAdvantage(rows, r)),
         opo |-> Each(LAMBDA r : Estimate!OpoAdvantage(rows, r)),
         passk |-> IF Estimate!PasskRaises(rows) THEN None
                   ELSE Each(LAMBDA r : Estimate!PasskAdvantage(rows, r))])

-----------------------------------------------------------------------------
(* Operations on a batch.                                                  *)

(* The operation has answered with a batch of its own, and no call has     *)
(* been made with it yet.                                                  *)
Become(new) ==
  /\ data' = new /\ held' = new /\ asked' = new /\ answer' = new
  /\ UNCHANGED pad_size

Step ==
  /\ task = "rows"
  /\ steps < MaxSteps
  /\ steps' = steps + 1
  /\ UNCHANGED << task, input, result, weights >>

Small == 8  (* bound: rows of a batch                                      *)

RepeatRows(n, interleave) ==
  /\ Step /\ pad_size = 0 /\ n * Proto!Length(data) <= Small
  /\ Become(Proto!Repeat(data, n, interleave))
RepeatByCount(times) ==
  /\ Step /\ pad_size = 0 /\ Proto!Length(data) = Len(times)
  /\ Become(Proto!SampleLevelRepeat(data, times))
ReverseRows ==
  /\ Step /\ pad_size = 0
  /\ Become(Proto!SelectIdxs(data, [i \in 1 .. Proto!Length(data) |-> Proto!Length(data) + 1 - i]))
DropRow(i) ==
  /\ Step /\ pad_size = 0 /\ i \in 1 .. Proto!Length(data) /\ Proto!Length(data) > 1
  /\ Become(Proto!SelectIdxs(data,
              [j \in 1 .. Proto!Length(data) - 1 |-> IF j < i THEN j ELSE j + 1]))
SplitAndConcat(size) ==
  /\ Step /\ pad_size = 0
  /\ Become(Proto!Concat(Proto!Split(data, size)))
  /\ Proto!Length(data) > size

(* A batch is padded, calls are made with it, and the padding comes off.   *)
PadRows(divisor) ==
  /\ Step /\ pad_size = 0
  /\ data' = Proto!PadToDivisor(data, divisor)
  /\ pad_size' = Proto!PadSizeTo(Proto!Length(data), divisor)
  /\ held' = data
  /\ asked' = data' /\ answer' = data'
UnpadRows ==
  /\ Step /\ pad_size > 0
  /\ data' = Proto!Unpad(data, pad_size)
  /\ pad_size' = 0
  /\ asked' = data' /\ answer' = data'
  /\ UNCHANGED held

CallMesh(mesh, padding_enabled) ==
  /\ Step
  /\ asked' = data
  /\ answer' = Proto!CallNd(mesh, data, padding_enabled)
  /\ UNCHANGED << data, pad_size, held >>
(* The driver passes on the answer without fetching it.                    *)
CallOnAnswer(mesh) ==
  /\ Step /\ answer # Proto!Raised
  /\ asked' = answer
  /\ answer' = Proto!CallFuture(mesh, Proto!Split(answer, 2))
  /\ UNCHANGED << data, pad_size, held >>
(* Enabled padding stays on the batch of the caller.                       *)
CallPadded(padding_enabled) ==
  LET size == Proto!DpPadding(data, World, padding_enabled)
  IN  /\ Step
      /\ asked' = data
      /\ answer' = Proto!CallDp(data, World, padding_enabled)
      /\ data' = Proto!PadWithLast(data, size)
      /\ held' = IF size = 0 THEN held ELSE data'
      /\ pad_size' = IF size = 0 THEN pad_size ELSE 0

(* Level weights.                                                          *)
LearnWeights(batch) ==
  /\ task = "levels"
  /\ steps < MaxSteps
  /\ steps' = steps + 1
  /\ weights' = Sampling!UpdatedWeights(weights, batch)
  /\ input' = batch
  /\ result' = Sampling!Chances(Levels, weights')
  /\ UNCHANGED << task, rowVars >>

Finished == (result # None \/ steps > 0) /\ UNCHANGED vars

RowsNext ==
  \/ \E n \in 2 .. 3, interleave \in BOOLEAN : RepeatRows(n, interleave)
  \/ \E times \in [1 .. 3 -> 1 .. 2] : RepeatByCount(times)
  \/ ReverseRows
  \/ \E i \in 1 .. Small : DropRow(i)
  \/ \E size \in 1 .. 3 : SplitAndConcat(size)
  \/ \E divisor \in 2 .. World : PadRows(divisor)
  \/ UnpadRows
  \/ \E mesh \in Meshes, padding_enabled \in BOOLEAN : CallMesh(mesh, padding_enabled)
  \/ \E mesh \in Meshes : CallOnAnswer(mesh)
  \/ \E padding_enabled \in BOOLEAN : CallPadded(padding_enabled)

Next ==
  \/ Balance \/ Rearrange \/ ForwardPass \/ EstimateAll
  \/ RowsNext
  \/ \E batch \in [1 .. Rollouts -> [level : Levels \cup {"none"}, rows : 1 .. MaxRows]] :
       LearnWeights(batch)
  \/ Finished

Spec == Init /\ [][Next]_vars

-----------------------------------------------------------------------------
(* Properties.                                                             *)

(* The parts hold every row exactly once, and none is empty.               *)
Exact(parts, n) ==
  /\ \A p \in DOMAIN parts : parts[p] # << >>
  /\ SumSeq([p \in DOMAIN parts |-> Len(parts[p])]) = n
  /\ ToSet(FlattenSeq(parts)) = 1 .. n

(* The heaviest part exceeds the lightest by one row's work at most.       *)
NearlyEqual(parts, work) ==
  LET Sum(p) == SumSeq([i \in DOMAIN parts[p] |-> work[parts[p][i]]])
  IN  \A p, q \in DOMAIN parts : Sum(p) - Sum(q) <= Max(ToSet(work))

(* However the rows are divided among ranks or micro-batches, no row is    *)
(* lost, computed twice or put back in another's place, no rank gets an    *)
(* empty part, each rank is sent the very rows of its part, and the        *)
(* heaviest part exceeds the lightest by one row at most.                  *)
PartsAreExact ==
  /\ task = "balance" /\ result # None =>
       LET lens == input[1]
           work == Workloads(lens)
       IN  /\ \A parts \in {result.karmarkar_karp, result.greedy} :
                /\ Exact(parts, Len(lens))
                /\ input[3] => \A p \in DOMAIN parts : Len(parts[p]) * input[2] = Len(lens)
           /\ Exact(<< result.order >>, Len(lens))
           /\ input[3] => \A p \in DOMAIN result.karmarkar_karp :
                LET size == Len(lens) \div input[2]
                IN  ToSet(SubSeq(result.order, (p - 1) * size + 1, p * size))
                      = ToSet(result.karmarkar_karp[p])
           /\ NearlyEqual(result.karmarkar_karp, work)
           /\ ~ input[3] => NearlyEqual(result.greedy, work)
  /\ task = "micro_batches" /\ result # None =>
       /\ Len(result.plan) = result.wanted
       /\ Exact(result.plan, Len(input[1]))
       /\ \A i \in DOMAIN result.restored : result.restored[i] = i

(* A log-probability is that of the token at its own place of its own row, *)
(* computed by every head from exactly the tokens of that row before it    *)
(* and their own group of key heads, although padding was removed, rows    *)
(* were joined and cut among the ranks, and the heads exchanged.           *)
LogProbsOfNextTokens ==
  task = "forward" /\ result # None =>
    LET mb == input[1]
        before == Forward!PromptLength(mb)
    IN  \A r \in DOMAIN mb : \A k \in 1 .. mb[r].response :
          result[r][k] =
            << [label |-> Forward!Tok(r, before + k),
                from |-> [h \in 1 .. input[3].q |->
                  [of |-> [tok |-> Forward!Tok(r, before + k - 1), head |-> h],
                   to |-> {[tok |-> Forward!Tok(r, p),
                            head |-> ((h - 1) \div (input[3].q \div input[3].k)) + 1] :
                             p \in Forward!FirstPlace(mb, r) .. before + k - 1}]]] >>

SumTo(row, S) == SumFunctionOnSet(row.rewards, S)
SameFraction(x, y) == x.num * y.den = y.num * x.den
GeneratedFrom(row, t) == {u \in t .. Len(row.mask) : row.mask[u]}
(* The value of the token generated next, nothing after the last.          *)
NextValue(row, t) ==
  IF GeneratedFrom(row, t + 1) = {} THEN 0 ELSE row.values[Min(GeneratedFrom(row, t + 1))]
(* The places from t on up to the next one the model did not generate.     *)
Segment(row, t) == {u \in t .. Len(row.mask) : \A j \in t + 1 .. u : row.mask[j]}

(* On responses with observations between the replies, advantages of a     *)
(* generated token count the rewards of all later generated tokens (GAE,   *)
(* ReMax) and the next generated token's value, those of REINFORCE++ only  *)
(* the rewards up to the next observation.                                 *)
TokenEstimates(rows) ==
  \A r \in DOMAIN rows :
    LET row == rows[r] IN
    /\ \A t \in GeneratedFrom(row, 1) :
         /\ result.gae[r][t] + row.values[t] = SumTo(row, GeneratedFrom(row, t))
         /\ result.gae0[r][t] = row.rewards[t] + NextValue(row, t) - row.values[t]
         /\ result.remax[r][t] = SumTo(row, GeneratedFrom(row, t))
    /\ \A t \in DOMAIN row.mask : result.reinforce[r][t] = SumTo(row, Segment(row, t))

(* The best tokens are kept, at least the share asked for, and of equal    *)
(* ones all or none.                                                       *)
TopTokens(rows, p, q) ==
  LET valid == Estimate!Generated(rows)
      Adv(x) == Estimate!PositiveAdvantages(rows[x[1]], 1)[x[2]]
  IN  p # 0 /\ valid # {} =>
        /\ Cardinality(result.kept) * q >= Cardinality(valid) * p
        /\ \A x \in result.kept, y \in valid \ result.kept : Adv(x) > Adv(y)
        /\ LET best == {x \in result.kept : \E y \in result.kept : Adv(y) < Adv(x)}
           IN  Cardinality(best) * q < Cardinality(valid) * p

(* Advantages in a group of rows cancel out, weighted by their lengths     *)
(* for OPO; RLOO compares a row with the mean of the others; vectorised    *)
(* forms agree with the plain ones wherever there is a group.  A row alone *)
(* is compared with nothing and keeps its score, and pass@k, which needs a *)
(* second best, raises.                                                    *)
GroupEstimates(rows) ==
  \A r \in DOMAIN rows :
    LET group  == Estimate!Group(rows, r)
        others == group \ {r}
        Nums(advantages) == [i \in group |-> advantages[i].num]
        Weighted(nums) == [i \in group |-> Estimate!ResponseTokens(rows[i]) * nums[i]]
        Scores == [i \in DOMAIN rows |-> Estimate!Score(rows[i])]
    IN  /\ others = {} =>
          /\ \A advantages \in {result.grpo, result.rloo, result.opo} :
               SameFraction(advantages[r], Estimate!Whole(Scores[r]))
          /\ result.passk = None
        /\ others # {} =>
          /\ SumFunctionOnSet(Nums(result.grpo), group) = 0
          /\ SumFunctionOnSet(Weighted(Nums(result.opo)), group) = 0
          /\ SameFraction(result.rloo[r],
               [num |-> Cardinality(others) * Scores[r] - SumFunctionOnSet(Scores, others),
                den |-> Cardinality(others)])
          /\ SameFraction(result.rloo[r], result.rloo_vectorized[r])
          /\ result.passk # None =>
               Cardinality({i \in group : result.passk[i].num # 0}) <= 1

EstimatesMatch ==
  task = "estimate" /\ result # None =>
    /\ TokenEstimates(input[1])
    /\ TopTokens(input[1], input[2].p, input[2].q)
    /\ GroupEstimates(input[1])

(* After any series of operations a row's tensors and its objects are      *)
(* those of the same row; padding for a worker group comes off again, and  *)
(* a call answers every row it was made with in that row's place, once,    *)
(* however the rows were shared out.  It fails only for a number of rows   *)
(* that does not divide.                                                   *)
RowsStayWhole ==
  /\ data.batch = data.non_tensor
  /\ answer # Proto!Raised => answer = asked
  /\ answer = Proto!Raised =>
       \E size \in {mesh.dp_size : mesh \in Meshes} \cup {World} :
         Proto!Length(asked) % size # 0
  /\ SubSeq(data.batch, 1, Proto!Length(held)) = held.batch
  /\ Proto!Length(data) = Proto!Length(held) + pad_size

(* No level is forgotten: after any batches each keeps a chance that is    *)
(* smaller than another's by no more than the longest rollout's number of  *)
(* rows, also when nobody played it; and of two levels played, the one     *)
(* with fewer rows per rollout has the better chance ("Levels with lower   *)
(* average outputs per trajectory get higher weight").                     *)
NoLevelStarves ==
  task = "levels" /\ result # None =>
    /\ \A a, b \in Levels :
         MaxRows * result[a].num * result[b].den >= result[b].num * result[a].den
    /\ \A a, b \in Levels \cap Sampling!LevelsOf(input) :
         LET Rows(l) == Sampling!Outputs(input, l)
             Runs(l) == Cardinality(Sampling!Trajectories(input, l))
         IN  Rows(a) * Runs(b) < Rows(b) * Runs(a) =>
               result[a].num * result[b].den > result[b].num * result[a].den

=============================================================================
