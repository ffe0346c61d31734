\* Four servers, so that the heap has depth; a batch of three can fill the cache
\* of three, so that later batches find it full of earlier ids.
SPECIFICATION Spec
CONSTANTS
  Managers = {m1}
  Servers = {s1, s2, s3, s4}
  Requests = {r1, r2, r3, r4, r5}
  MaxCacheSize = 3
  BatchSize = 3
  MaxGenerates = 2
  NoServer = NoServer
  NoManager = NoManager
SYMMETRY Symmetry
INVARIANTS
  CountsBalanced
  StickyWithinBatch
CHECK_DEADLOCK FALSE
