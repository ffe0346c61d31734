----------------------- MODULE MCCheckpointedTrainer -----------------------
(* Small instances of CheckpointedTrainer for TLC.  Ranks are              *)
(* interchangeable: each only writes and reads its own shard.              *)
EXTENDS CheckpointedTrainer, TLC

MC_Ranks == {"rank0", "rank1"}

=============================================================================
