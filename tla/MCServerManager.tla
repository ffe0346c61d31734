-------------------------- MODULE MCServerManager --------------------------
(* Small instances of ServerManager for TLC.  Request ids are              *)
(* interchangeable: they are drawn at random and only ever compared.  So   *)
(* are servers: they are told apart by their hashes, which are any.        *)
EXTENDS ServerManager, TLC

Symmetry == Permutations(Requests) \cup Permutations(Servers)

=============================================================================
