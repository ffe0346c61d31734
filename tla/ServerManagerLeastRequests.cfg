\* The routing against the class docstring.
SPECIFICATION Spec
CONSTANTS
  Managers = {m1}
  Servers = {s1, s2}
  Requests = {r1, r2, r3, r4}
  MaxCacheSize = 3
  BatchSize = 4
  MaxGenerates = 2
  NoServer = NoServer
  NoManager = NoManager
PROPERTIES
  LeastRequests
CHECK_DEADLOCK FALSE
