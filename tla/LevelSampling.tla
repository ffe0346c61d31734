---------------------------- MODULE LevelSampling ----------------------------
(***************************************************************************)
(* Which level a rollout plays: RayPPOTrainer                              *)
(* ._update_world_level_sampling_weights and the choice in GameAgentLoop's *)
(* initialisation.  Weights are fractions [num, den]; the small eps of the *)
(* code is left out.                                                       *)
(***************************************************************************)
EXTENDS Integers, Sequences, FiniteSets, FiniteSetsExt, Functions

(* The rollouts of a batch: the level each has played, or none, and its    *)
(* rows.  Its request_id is its index.                                     *)
LevelsOf(batch) == {batch[i].level : i \in DOMAIN batch} \ {"none"}
Trajectories(batch, level) == {i \in DOMAIN batch : batch[i].level = level}
Outputs(batch, level) ==
  SumFunctionOnSet([i \in DOMAIN batch |-> batch[i].rows], Trajectories(batch, level))

InverseAverage(batch, level) ==
  [num |-> Cardinality(Trajectories(batch, level)), den |-> Outputs(batch, level)]

(* The weights of a batch replace all that were known.                     *)
UpdatedWeights(weights, batch) ==
  IF LevelsOf(batch) = {} THEN weights
  ELSE [level \in LevelsOf(batch) |-> InverseAverage(batch, level)]

(* Slip: a level without a weight has none.                                *)
Slip_DefaultWeight(weights) == [num |-> 0, den |-> 1]
(* A level without a weight has the mean of the others'.                   *)
DefaultWeight(weights) ==
  LET known == DOMAIN weights
      common == FoldFunctionOnSet(LAMBDA x, y : x * y, 1, [l \in known |-> weights[l].den], known)
  IN  [num |-> SumFunctionOnSet([l \in known |-> weights[l].num * (common \div weights[l].den)],
                                known),
       den |-> common * Cardinality(known)]

(* random.choices over the configured levels, or an even choice before the *)
(* first weights: the chance of each, up to a common factor.               *)
Chances(levels, weights) ==
  IF DOMAIN weights = {} THEN [level \in levels |-> [num |-> 1, den |-> 1]]
  ELSE [level \in levels |->
          IF level \in DOMAIN weights THEN weights[level] ELSE DefaultWeight(weights)]

=============================================================================
