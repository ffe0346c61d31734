\* Two replicas, four ranks, two updates; the engines sleep between rollouts.
SPECIFICATION FairSpec
CONSTANTS
  Replicas <- MC_Replicas
  Servers <- MC_Servers
  Ranks <- MC_Ranks
  ReplicaOf <- MC_ReplicaOf
  ServerOf <- MC_ServerOf
  HeadServers <- MC_HeadServers
  FreeCache = TRUE
  OffloadParam = TRUE
  MaxVersion = 2
  MaxRequests = 2
  Unsynced = Unsynced
INVARIANTS
  RequestsFindEngine
  GpuMemoryFits
  RandomStreamsApart
PROPERTIES
  ImplementsOnPolicy
  HandoverCompletes
CHECK_DEADLOCK FALSE
