\* The generators through the first hand-overs.
SPECIFICATION Spec
CONSTANTS
  Replicas <- MC_Replicas
  Servers <- MC_Servers
  Ranks <- MC_Ranks
  ReplicaOf <- MC_ReplicaOf
  ServerOf <- MC_ServerOf
  HeadServers <- MC_HeadServers
  FreeCache = TRUE
  OffloadParam = TRUE
  MaxVersion = 2
  MaxRequests = 2
  Unsynced = Unsynced
INVARIANTS
  GenerationIsSeeded
CHECK_DEADLOCK FALSE
