--------------------------- MODULE MCHybridEngine ---------------------------
(* Small instances of HybridEngine for TLC: two replicas, the first on two *)
(* nodes, the second one server with two ranks.                            *)
EXTENDS HybridEngine

MC_Replicas == {"replica0", "replica1"}
MC_Servers  == {"server00", "server01", "server10"}
MC_Ranks    == {0, 1, 2, 3}
MC_ReplicaOf ==
  [s \in MC_Servers |-> IF s = "server10" THEN "replica1" ELSE "replica0"]
MC_ServerOf ==
  [r \in MC_Ranks |-> CASE r = 0 -> "server00"
                        [] r = 1 -> "server01"
                        [] OTHER -> "server10"]
MC_HeadServers == {"server00", "server10"}

=============================================================================
