--------------------------- MODULE MCRolloutBatch ---------------------------
(* Small instances of RolloutBatch for TLC.                                *)
EXTENDS RolloutBatch

MC_Rewards == {0, 1}
MC_Estimators == {"grpo_process", "grpo_traj_outcome", "reinforce_plus_plus_pos"}
MC_TrainOrValidate == {"train", "validate"}
MC_Validate == {"validate"}

=============================================================================
