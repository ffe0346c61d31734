------------------------- MODULE AdvantageEstimators -------------------------
(***************************************************************************)
(* The advantage estimators of verl/trainer/ppo/core_algos.py that work on *)
(* the tokens of a row or on the rows of a group, without the division by  *)
(* a standard deviation.  (Those over turns are in RolloutBatch.)          *)
(*                                                                         *)
(* A row is [rewards, mask, values, value, group]: per token a reward,     *)
(* whether the model generated it and what a critic of tokens expects, and *)
(* what the critic of screens expects of the row.  An advantage that the   *)
(* code divides by a number of rows or tokens comes as [num, den].         *)
(***************************************************************************)
EXTENDS Integers, Sequences, SequencesExt, Functions, FiniteSets, FiniteSetsExt

Score(row) == SumFunction(row.rewards)
RowMask(row, t) == IF row.mask[t] THEN 1 ELSE 0

-----------------------------------------------------------------------------
(* Over the tokens of a row, from the last to the first.                   *)

Backwards(row, Step(_, _), start) ==
  LET n == Len(row.rewards)
      state[k \in 0 .. n] == IF k = 0 THEN start ELSE Step(state[k - 1], n - k + 1)
  IN  [t \in 1 .. n |-> state[n - t + 1]]

(* Slip: values of observations are next values too.                       *)
Slip_GaeStep(row, gamma, lam, s, t) ==
  LET delta == row.rewards[t] + gamma * s.next - row.values[t]
  IN  IF row.mask[t] THEN [next |-> row.values[t], adv |-> delta + gamma * lam * s.adv]
                     ELSE [next |-> row.values[t], adv |-> s.adv]
(* compute_gae_advantage_return skips what the model did not generate.     *)
GaeStep(row, gamma, lam, s, t) ==
  LET delta == row.rewards[t] + gamma * s.next - row.values[t]
  IN  IF row.mask[t] THEN [next |-> row.values[t], adv |-> delta + gamma * lam * s.adv]
                     ELSE s
GaeAdvantages(row, gamma, lam) ==
  LET states == Backwards(row, LAMBDA s, t : GaeStep(row, gamma, lam, s, t),
                          [next |-> 0, adv |-> 0])
  IN  [t \in DOMAIN states |-> states[t].adv]

(* compute_reinforce_plus_plus_outcome_advantage and its kin: the running  *)
(* return is recorded, then reset where the mask is zero.  The value that  *)
(* is subtracted from it is the row's (values.unsqueeze(-1)).              *)
ReinforceReturns(row, gamma) ==
  LET states == Backwards(row,
        LAMBDA s, t : LET run == row.rewards[t] + gamma * s.carried
                      IN  [return |-> run, carried |-> run * RowMask(row, t)],
        [return |-> 0, carried |-> 0])
  IN  [t \in DOMAIN states |-> states[t].return]
ReinforceAdvantages(row, gamma) ==
  [t \in DOMAIN row.rewards |->
     (ReinforceReturns(row, gamma)[t] - row.value) * RowMask(row, t)]
PositiveAdvantages(row, gamma) ==
  [t \in DOMAIN row.rewards |-> Max({ReinforceAdvantages(row, gamma)[t], 0})]

(* compute_remax_outcome_advantage: masked rewards summed from the end.    *)
RemaxReturns(row) ==
  Backwards(row, LAMBDA s, t : s + row.rewards[t] * RowMask(row, t), 0)

-----------------------------------------------------------------------------
(* reinforce_plus_plus_topp over the generated tokens of a batch.          *)

Generated(rows) ==
  UNION {{<< r, t >> : t \in {u \in DOMAIN rows[r].mask : rows[r].mask[u]}} : r \in DOMAIN rows}
(* The share p / q of n tokens, rounded up.                                *)
KeepCount(n, p, q) == Min({Max({(p * n + q - 1) \div q, 1}), n})
KeptTokens(rows, p, q) ==
  LET Adv(x) == PositiveAdvantages(rows[x[1]], 1)[x[2]]
      valid == Generated(rows)
      n == Cardinality(valid)
      keep == KeepCount(n, p, q)
      kth == n - keep + 1
      (* torch.kthvalue: the kth smallest, counted with ties.              *)
      threshold == CHOOSE v \in {Adv(x) : x \in valid} :
                     /\ Cardinality({x \in valid : Adv(x) < v}) < kth
                     /\ Cardinality({x \in valid : Adv(x) <= v}) >= kth
  IN  IF n = 0 \/ p = 0 THEN {}
      ELSE IF keep = n THEN valid
      ELSE {x \in valid : Adv(x) >= threshold}

-----------------------------------------------------------------------------
(* Over the rows of a group.                                               *)

Group(rows, r) == {i \in DOMAIN rows : rows[i].group = rows[r].group}
GroupSize(rows, r) == Cardinality(Group(rows, r))
GroupScore(rows, r) ==
  SumFunctionOnSet([i \in DOMAIN rows |-> Score(rows[i])], Group(rows, r))
Whole(x) == [num |-> x, den |-> 1]

(* compute_grpo_outcome_advantage, and group_mean_std of its vectorised    *)
(* form: a row alone keeps its score.  reinforce_plus_plus_baseline and    *)
(* gpg scale the same difference.                                          *)
GrpoAdvantage(rows, r) ==
  IF GroupSize(rows, r) = 1 THEN Whole(Score(rows[r]))
  ELSE [num |-> GroupSize(rows, r) * Score(rows[r]) - GroupScore(rows, r),
        den |-> GroupSize(rows, r)]
GrpoMaskAdvantage(rows, r) ==
  [GrpoAdvantage(rows, r) EXCEPT !.num = Max({@, 0})]

(* compute_rloo_outcome_advantage: n s / (n - 1) - n mean / (n - 1).       *)
RlooAdvantage(rows, r) ==
  IF GroupSize(rows, r) = 1 THEN Whole(Score(rows[r]))
  ELSE [num |-> GroupSize(rows, r) * Score(rows[r]) - GroupScore(rows, r),
        den |-> GroupSize(rows, r) - 1]
(* Its vectorised form: nothing for a row alone.                           *)
RlooVectorizedAdvantage(rows, r) ==
  IF GroupSize(rows, r) = 1 THEN Whole(0)
  ELSE [num |-> GroupSize(rows, r) * Score(rows[r]) - GroupScore(rows, r),
        den |-> Max({GroupSize(rows, r) - 1, 1})]

(* compute_opo_outcome_advantage: the mean score of a generated token.     *)
ResponseTokens(row) == Cardinality({t \in DOMAIN row.mask : row.mask[t]})
OpoAdvantage(rows, r) ==
  LET tokens == [i \in DOMAIN rows |-> ResponseTokens(rows[i])]
      scores == [i \in DOMAIN rows |-> tokens[i] * Score(rows[i])]
      total  == SumFunctionOnSet(tokens, Group(rows, r))
  IN  IF GroupSize(rows, r) = 1 THEN Whole(Score(rows[r]))
      ELSE [num |-> total * Score(rows[r]) - SumFunctionOnSet(scores, Group(rows, r)),
            den |-> total]

(* compute_grpo_passk_outcome_advantage: the best row of a group gets its  *)
(* lead over the second, and which of several best does not matter.  A     *)
(* group of one raises.                                                    *)
PasskRaises(rows) == \E r \in DOMAIN rows : GroupSize(rows, r) = 1
PasskAdvantage(rows, r) ==
  LET others == {Score(rows[i]) : i \in Group(rows, r) \ {r}}
  IN  Whole(IF Score(rows[r]) > Max(others) THEN Score(rows[r]) - Max(others) ELSE 0)

=============================================================================
