-------------------------- MODULE MCGameAgentLoop --------------------------
(* Small instances of GameAgentLoop for TLC.                               *)
EXTENDS GameAgentLoop

MC_ReplyLengths == {1, 3}
MC_StepRewards == {1}
MC_Penalty == -2

=============================================================================
