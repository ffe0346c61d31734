\* The engines are never put to sleep.
SPECIFICATION Spec
CONSTANTS
  Replicas <- MC_Replicas
  Servers <- MC_Servers
  Ranks <- MC_Ranks
  ReplicaOf <- MC_ReplicaOf
  ServerOf <- MC_ServerOf
  HeadServers <- MC_HeadServers
  FreeCache = FALSE
  OffloadParam = TRUE
  MaxVersion = 2
  MaxRequests = 2
  Unsynced = Unsynced
INVARIANTS
  TrainsOnPolicy
CHECK_DEADLOCK FALSE
