---------------------------- MODULE MCPolicyUpdate ----------------------------
(* Small instances of PolicyUpdate.                                        *)
EXTENDS PolicyUpdate

(* Lengths that make the ranks ask for different numbers of micro-batches, *)
(* and shares of one and of two mini-batches.                              *)
MCBatches == {<< 3, 1, 2, 3 >>, << 1, 1, 1, 3, 2, 3 >>}

=============================================================================
