-------------------------- MODULE MCBatchAlgorithms --------------------------
(* Small instances of BatchAlgorithms for TLC.                             *)
EXTENDS BatchAlgorithms

MC_Lengths == UNION {[1 .. n -> 1 .. 3] : n \in 2 .. 4} \cup {<< 9, 1, 1, 1, 2, 3 >>, << 5, 4, 3, 3, 3 >>}
MC_MicroBatchRows ==
  UNION {[1 .. n -> [prompt : 1 .. 2, response : 1 .. 2]] : n \in 1 .. 2}
MC_HeadCounts == {[q |-> 4, k |-> 2], [q |-> 4, k |-> 4]}
(* Responses with an observation, with padding, and of another group.      *)
MC_Rows(rewards) ==
  {[rewards |-> << a, b, 1 >>, mask |-> m, values |-> << 1, 2, 0 >>,
    value |-> v, group |-> g] :
     a \in rewards, b \in rewards, v \in 0 .. 1, g \in 1 .. 2,
     m \in {<< TRUE, FALSE, TRUE >>, << TRUE, TRUE, FALSE >>, << TRUE, TRUE, TRUE >>}}
MC_Groups == UNION {[1 .. n -> MC_Rows({0, 2})] : n \in 1 .. 2}
               \cup [1 .. 3 -> {row \in MC_Rows({0, 2}) : row.mask[3] /\ row.group = 1
                                                          /\ row.rewards[2] = 0}]
MC_TopP == {[p |-> 1, q |-> 2], [p |-> 1, q |-> 10]}
(* Two ranks of data parallelism, and three with two ranks of sequence     *)
(* parallelism each, of which the first of each pair is collected.         *)
MC_Meshes ==
  {[dp_size |-> 2, dp_rank |-> << 1, 2 >>, collect |-> << TRUE, TRUE >>],
   [dp_size |-> 3, dp_rank |-> << 1, 1, 2, 2, 3, 3 >>,
    collect |-> << TRUE, FALSE, TRUE, FALSE, TRUE, FALSE >>]}
MC_Levels == {"1-1", "1-2", "2-1"}

=============================================================================
