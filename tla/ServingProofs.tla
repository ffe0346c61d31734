---------------------------- MODULE ServingProofs ----------------------------
(***************************************************************************)
(* Proofs about how rollouts are served.                                   *)
(*                                                                         *)
(* ServerManager: balanced counts for every number of managers, servers,   *)
(* requests and cache size, because the entries stay a heap (CountsIInv),  *)
(* and sticky sessions for every batch that fits into the cache (IInv).    *)
(*                                                                         *)
(* ToolServing and its two parts, for every number of workers and calls    *)
(* and every limit on tokens, turns and tools:                             *)
(*   - the answers of a call to the executor are its own and no rank runs  *)
(*     ahead, with workers that raise at any point (ExecInv);              *)
(*   - the response of the tool loop matches its mask, the answers of a    *)
(*     turn keep their order and a tool instance is open only until its    *)
(*     own release (LoopInv), and the lists of images sent along are those *)
(*     of the answers the tokens hold a place for (ImagesFit);             *)
(*   - a rollout that is decoded token by token by a failing engine is     *)
(*     still a rollout of ToolAgentLoop, and the executor under it one of  *)
(*     VllmExecutor, so that what is proved of each holds of the two       *)
(*     together.                                                           *)
(***************************************************************************)
EXTENDS ServerManager, ToolServing, SeqlenBalancingProofs

(***************************************************************************)
(* ServerManager.                                                          *)
(***************************************************************************)

(* The rollouts of the running batch that have made a call.                *)
Used(m) == {r \in batch[m] : routes[r] # {}}

(* A running id belongs to its worker; unknown ids have left no trace.     *)
OwnedIInv ==
  /\ \A m \in Managers : \A r \in batch[m] : owner[r] = m
  /\ \A r \in Requests : owner[r] = NoManager => routes[r] = {}
  /\ \A m \in Managers : Cardinality(batch[m]) <= BatchSize

(* The used ids of a running batch are the latest entries of the cache.    *)
RecentIInv ==
  \A m \in Managers : \A r \in Used(m) :
    /\ age[r] < Cardinality(Used(m))
    /\ home[r] \in Servers
    /\ routes[r] = {home[r]}

(* An id in the order of the cache has a server.                           *)
CachedIInv == \A r \in Requests : Cached(r) => home[r] \in Servers

(* The entries of every manager are a heap.                                *)
HeapFits == \A m \in Managers : IsHeap(heap[m], counts[m], hash[m])

(* The part of the invariant that needs no assumption on the batch.         *)
CountsIInv ==
  /\ counts \in [Managers -> [Servers -> Nat]]
  /\ heap \in [Managers -> Arrangements]
  /\ HeapFits /\ CountsBalanced

IInv == TypeOK /\ HeapFits /\ CountsBalanced /\ OwnedIInv /\ RecentIInv /\ CachedIInv

-----------------------------------------------------------------------------

(* The managers' counts, hashes and cache start empty.                     *)
LEMMA InitIInv == Init => IInv
<1> SUFFICES ASSUME Init PROVE IInv
  OBVIOUS
<1> USE ManagerAssumption
<1>1. TypeOK
  <2>1. hash \in [Managers -> [Servers -> Int]]
    <3>1. \A f \in [Servers -> 1..Cardinality(Servers)] : f \in [Servers -> Int]
      BY FS_CardinalityType
    <3> QED BY <3>1 DEF Init
  <2>2. heap \in [Managers -> Arrangements]
    BY DEF Init
  <2> QED BY <2>1, <2>2 DEF Init, TypeOK
<1>2. HeapFits /\ CountsBalanced
  BY DEF Init, HeapFits, CountsBalanced
<1>3. OwnedIInv
  BY FS_EmptySet DEF Init, OwnedIInv
<1>4. RecentIInv
  BY DEF Init, RecentIInv, Used
<1>5. CachedIInv
  BY DEF Init, CachedIInv, Cached
<1> QED BY <1>1, <1>2, <1>3, <1>4, <1>5 DEF IInv

(* A batch is a finite set, and so is its used part.                       *)
LEMMA FiniteBatch ==
  ASSUME TypeOK, NEW m \in Managers
  PROVE  /\ IsFiniteSet(batch[m]) /\ IsFiniteSet(Used(m))
         /\ Cardinality(batch[m]) \in Nat /\ Cardinality(Used(m)) \in Nat
         /\ Cardinality(Used(m)) <= Cardinality(batch[m])
<1>1. batch[m] \subseteq Requests /\ Used(m) \subseteq batch[m]
  BY DEF TypeOK, Used
<1>2. IsFiniteSet(batch[m])
  BY <1>1, FS_Subset, ManagerAssumption
<1>3. IsFiniteSet(Used(m)) /\ Cardinality(Used(m)) <= Cardinality(batch[m])
  BY <1>1, <1>2, FS_Subset
<1> QED BY <1>2, <1>3, FS_CardinalityType

(* Touch keeps ages in range and gives r the server s.                     *)
LEMMA TouchType ==
  ASSUME TypeOK, NEW m \in Managers, NEW r \in Requests, NEW s \in Servers,
         Touch(m, r, s)
  PROVE  /\ age' \in [Requests -> 0..MaxCacheSize]
         /\ home' \in [Requests -> Servers \cup {NoServer}]
         /\ age'[r] = 0 /\ home'[r] = s
<1> USE ManagerAssumption
<1>1. \A x \in Requests : age[x] \in 0..MaxCacheSize
  BY DEF TypeOK
<1>2. \A x \in Requests : age'[x] \in 0..MaxCacheSize
  BY <1>1 DEF Touch
<1>3. home' \in [Requests -> Servers \cup {NoServer}]
  BY DEF Touch, TypeOK
<1>4. age'[r] = 0 /\ home'[r] = s
  BY DEF Touch
<1>5. age' = [x \in Requests |-> age'[x]]
  BY DEF Touch
<1> QED BY <1>2, <1>3, <1>4, <1>5

(* After Touch(m, r, s) an entry x with a bound on its age below the cache *)
(* size keeps its server, and grows by at most one or not beyond r's age.  *)
LEMMA TouchKeeps ==
  ASSUME TypeOK, NEW m \in Managers, NEW r \in Requests, NEW s \in Servers,
         Touch(m, r, s), NEW x \in Requests, x # r
  PROVE  /\ age'[x] = age[x] \/ (age'[x] = age[x] + 1 /\ age[x] < age[r])
         /\ age'[x] < MaxCacheSize => home'[x] = home[x]
         /\ owner[x] # m => home'[x] = home[x] /\ age'[x] = age[x]
<1> USE ManagerAssumption
<1>1. age[x] \in 0..MaxCacheSize /\ age[r] \in 0..MaxCacheSize
  BY DEF TypeOK
<1> QED BY <1>1 DEF Touch

(* What is still cached after Touch has kept its server.                   *)
LEMMA TouchCached ==
  ASSUME TypeOK, CachedIInv, NEW m \in Managers, NEW r \in Requests,
         NEW s \in Servers, Touch(m, r, s)
  PROVE  CachedIInv'
<1> USE ManagerAssumption
<1> SUFFICES ASSUME NEW x \in Requests, age'[x] < MaxCacheSize
             PROVE  home'[x] \in Servers
  BY DEF CachedIInv, Cached
<1>1. CASE x = r
  BY <1>1, TouchType
<1>2. CASE x # r
  <2>1. age[x] \in 0..MaxCacheSize
    BY DEF TypeOK
  <2>2. age[x] < MaxCacheSize /\ home'[x] = home[x]
    BY <1>2, <2>1, TouchKeeps
  <2> QED BY <2>2 DEF CachedIInv, Cached
<1> QED BY <1>1, <1>2

(* The effect of one call on the used ids of the running batches, for a    *)
(* call of r that was sent to s.                                           *)
Called(m, r, s) ==
  /\ MayCall(m, r)
  /\ Touch(m, r, s)
  /\ Send(r, s)
  /\ UNCHANGED << owner, batch >>
  /\ r \in Used(m) => s = home[r]

(* A call keeps the used ids of every running batch in the cache, at the   *)
(* server they were first sent to.                                         *)
LEMMA CalledRecent ==
  ASSUME IInv, BatchSize <= MaxCacheSize,
         NEW m \in Managers, NEW r \in Requests, NEW s \in Servers,
         Called(m, r, s)
  PROVE  OwnedIInv' /\ RecentIInv'
<1> USE ManagerAssumption
<1>1. TypeOK /\ OwnedIInv /\ RecentIInv
  BY DEF IInv
<1>2. r \in batch[m] /\ owner[r] = m
  BY <1>1 DEF Called, MayCall, OwnedIInv
<1>3. batch' = batch /\ owner' = owner
  BY DEF Called
<1>4. routes' = [routes EXCEPT ![r] = @ \cup {s}] /\ Touch(m, r, s)
  BY DEF Called, Send
<1>5. OwnedIInv'
  <2>1. \A x \in Requests : x # r => routes'[x] = routes[x]
    BY <1>1, <1>4 DEF TypeOK
  <2> QED BY <1>1, <1>2, <1>3, <2>1 DEF OwnedIInv
<1>6. RecentIInv'
  <2> SUFFICES ASSUME NEW k \in Managers, NEW x \in Used(k)'
               PROVE  /\ age'[x] < Cardinality(Used(k)')
                      /\ home'[x] \in Servers
                      /\ routes'[x] = {home'[x]}
    BY DEF RecentIInv
  <2>1. x \in batch[k] /\ x \in Requests /\ owner[x] = k
    BY <1>1, <1>3 DEF Used, TypeOK, OwnedIInv
  <2>2. Cardinality(Used(k)) \in Nat /\ IsFiniteSet(Used(k))
        /\ Cardinality(Used(k)) <= BatchSize
        /\ Cardinality(batch[k]) \in Nat /\ IsFiniteSet(batch[k])
    BY <1>1, FiniteBatch DEF OwnedIInv
  <2>3. age[x] \in 0..MaxCacheSize /\ age[r] \in 0..MaxCacheSize
        /\ age'[x] \in 0..MaxCacheSize
    BY <1>1, <1>4, <2>1, TouchType DEF TypeOK
  <2>4. Used(m)' = Used(m) \cup {r}
    <3>1. batch[m] \subseteq Requests /\ batch'[m] = batch[m]
      BY <1>1, <1>3 DEF TypeOK
    <3>2. routes'[r] # {} /\ \A y \in Requests : y # r => routes'[y] = routes[y]
      BY <1>1, <1>4 DEF TypeOK
    <3>3. Used(m)' = {y \in batch[m] : routes'[y] # {}}
      BY <3>1 DEF Used
    <3>4. \A y \in batch[m] :
            routes'[y] # {} <=> (routes[y] # {} \/ y = r)
      BY <3>1, <3>2
    <3>5. \A y : y \in Used(m)' <=> y \in Used(m) \cup {r}
      BY <1>2, <3>3, <3>4 DEF Used
    <3> QED BY <3>5
  <2>5. k # m => Used(k)' = Used(k) /\ x # r
    BY <1>1, <1>2, <1>3, <1>4, <2>1 DEF Used, TypeOK, OwnedIInv
  <2>6. CASE k # m
    <3>1. x \in Used(k) /\ Used(k)' = Used(k) /\ x # r
      BY <2>5, <2>6
    <3>2. home'[x] = home[x] /\ age'[x] = age[x]
      BY <1>1, <1>4, <2>1, <2>6, <3>1, TouchKeeps
    <3>3. routes'[x] = routes[x]
      BY <1>1, <1>4, <2>1, <3>1 DEF TypeOK
    <3> QED BY <1>1, <3>1, <3>2, <3>3 DEF RecentIInv
  <2>7. CASE k = m /\ x = r
    <3>1. age'[x] = 0 /\ home'[x] = s
      BY <1>1, <1>4, <2>7, TouchType
    <3>2. routes'[x] = {s}
      <4>1. CASE r \in Used(m)
        <5>1. s = home[r] /\ routes[r] = {home[r]}
          BY <1>1, <4>1 DEF Called, RecentIInv
        <5> QED BY <1>1, <1>4, <2>7, <5>1 DEF TypeOK
      <4>2. CASE r \notin Used(m)
        <5>1. routes[r] = {}
          BY <1>2, <4>2 DEF Used
        <5> QED BY <1>1, <1>4, <2>7, <5>1 DEF TypeOK
      <4> QED BY <4>1, <4>2
    <3>3. IsFiniteSet(Used(m) \cup {r})
      BY <2>2, <2>7, FS_AddElement
    <3>4. /\ Cardinality(Used(m) \cup {r}) \in Nat
          /\ Cardinality(Used(m) \cup {r}) # 0
      BY <3>3, FS_EmptySet, FS_CardinalityType
    <3>5. 0 < Cardinality(Used(m) \cup {r})
      BY <3>4
    <3> QED BY <2>4, <2>7, <3>1, <3>2, <3>5
  <2>8. CASE k = m /\ x # r
    <3>1. x \in Used(m) /\ routes'[x] = routes[x]
      BY <1>1, <1>4, <2>1, <2>4, <2>8 DEF TypeOK
    <3>2. /\ age[x] < Cardinality(Used(m))
          /\ home[x] \in Servers /\ routes[x] = {home[x]}
      BY <1>1, <3>1 DEF RecentIInv
    <3>3. age'[x] < Cardinality(Used(m)') /\ age'[x] < MaxCacheSize
      <4>1. CASE r \in Used(m)
        <5>1. Used(m)' = Used(m)
          BY <2>4, <4>1
        <5>2. age[r] < Cardinality(Used(m))
          BY <1>1, <4>1 DEF RecentIInv
        <5>3. age'[x] = age[x] \/ (age'[x] = age[x] + 1 /\ age[x] < age[r])
          BY <1>1, <1>4, <2>1, <2>8, TouchKeeps
        <5> QED BY <2>2, <2>3, <2>8, <3>2, <5>1, <5>2, <5>3
      <4>2. CASE r \notin Used(m)
        <5>0. Cardinality(Used(m) \cup {r}) = Cardinality(Used(m)) + 1
          BY <2>2, <2>8, <4>2, FS_AddElement
        <5>1. Cardinality(Used(m)') = Cardinality(Used(m)) + 1
          BY <2>4, <5>0
        <5>2. Cardinality(Used(m)') <= BatchSize
          <6>1. Used(m)' \subseteq batch[m]
            BY <1>2, <2>4 DEF Used
          <6>2. Cardinality(Used(m)') <= Cardinality(batch[m])
            BY <2>2, <2>8, <6>1, FS_Subset
          <6>3. Cardinality(batch[m]) <= BatchSize
            BY <1>1 DEF OwnedIInv
          <6> QED BY <2>2, <2>8, <5>1, <6>2, <6>3
        <5>3. age'[x] = age[x] \/ age'[x] = age[x] + 1
          BY <1>1, <1>4, <2>1, <2>8, TouchKeeps
        <5> QED BY <2>2, <2>3, <2>8, <3>2, <5>1, <5>2, <5>3
      <4> QED BY <4>1, <4>2
    <3>4. home'[x] = home[x]
      BY <1>1, <1>4, <2>1, <2>8, <3>3, TouchKeeps
    <3> QED BY <2>8, <3>1, <3>2, <3>3, <3>4
  <2> QED BY <2>6, <2>7, <2>8
<1> QED BY <1>5, <1>6

-----------------------------------------------------------------------------
(* One lemma for each action.                                              *)

(* A new batch has used no id yet.                                         *)
LEMMA NewBatchIInv ==
  ASSUME IInv, NEW m \in Managers, NEW rs \in SUBSET Requests,
         NewBatch(m, rs)
  PROVE  IInv'
<1> USE ManagerAssumption
<1>1. TypeOK'
  BY DEF IInv, TypeOK, NewBatch
<1>2. HeapFits' /\ CountsBalanced'
  BY DEF IInv, HeapFits, CountsBalanced, NewBatch
<1>3. OwnedIInv'
  <2>1. \A k \in Managers : batch'[k] = IF k = m THEN rs ELSE batch[k]
    BY DEF IInv, TypeOK, NewBatch
  <2>2. \A r \in Requests : owner'[r] = IF r \in rs THEN m ELSE owner[r]
    BY DEF NewBatch
  <2>3. ASSUME NEW k \in Managers, NEW r \in batch'[k] PROVE owner'[r] = k
    <3>1. r \in Requests
      BY <2>1 DEF IInv, TypeOK
    <3>2. CASE k = m
      BY <2>1, <2>2, <3>1, <3>2
    <3>3. CASE k # m
      BY <2>1, <2>2, <3>1, <3>3 DEF IInv, OwnedIInv, NewBatch
    <3> QED BY <3>2, <3>3
  <2>4. \A r \in Requests : owner'[r] = NoManager => routes'[r] = {}
    BY <2>2 DEF IInv, OwnedIInv, NewBatch
  <2>5. \A k \in Managers : Cardinality(batch'[k]) <= BatchSize
    BY <2>1 DEF IInv, OwnedIInv, NewBatch
  <2> QED BY <2>3, <2>4, <2>5 DEF OwnedIInv
<1>4. RecentIInv'
  <2>1. \A k \in Managers \ {m} : Used(k)' = Used(k)
    BY DEF IInv, TypeOK, NewBatch, Used
  <2>2. Used(m)' = {}
    <3>1. batch'[m] = rs /\ routes' = routes
      BY DEF IInv, TypeOK, NewBatch
    <3>2. \A r \in rs : routes[r] = {}
      BY DEF IInv, OwnedIInv, NewBatch
    <3> QED BY <3>1, <3>2 DEF Used
  <2> QED BY <2>1, <2>2 DEF IInv, RecentIInv, NewBatch
<1>5. CachedIInv'
  BY DEF IInv, CachedIInv, Cached, NewBatch
<1> QED BY <1>1, <1>2, <1>3, <1>4, <1>5 DEF IInv

(* A call of a remembered id goes where the cache says.                    *)
LEMMA CallKnownIInv ==
  ASSUME IInv, BatchSize <= MaxCacheSize,
         NEW m \in Managers, NEW r \in Requests, CallKnown(m, r)
  PROVE  IInv'
<1> USE ManagerAssumption
<1> DEFINE s == home[r]
<1>0. s \in Servers
  BY DEF CallKnown, IInv, CachedIInv
<1>1. Called(m, r, s)
  BY DEF Called, CallKnown, IInv, TypeOK
<1>2. OwnedIInv' /\ RecentIInv'
  BY <1>0, <1>1, CalledRecent
<1>3. TypeOK'
  <2>1. /\ age' \in [Requests -> 0..MaxCacheSize]
        /\ home' \in [Requests -> Servers \cup {NoServer}]
    BY <1>0, TouchType DEF CallKnown, IInv
  <2>2. inflight' \in [Requests -> Servers \cup {NoServer}]
    BY <1>0 DEF CallKnown, Send, IInv, TypeOK
  <2>3. calls' \in [Requests -> Nat]
    BY <1>0 DEF CallKnown, Send, IInv, TypeOK
  <2>4. routes' \in [Requests -> SUBSET Servers]
    BY <1>0 DEF CallKnown, Send, IInv, TypeOK
  <2> QED BY <2>1, <2>2, <2>3, <2>4 DEF CallKnown, IInv, TypeOK
<1>4. HeapFits' /\ CountsBalanced'
  BY DEF CallKnown, IInv, HeapFits, CountsBalanced
<1>5. CachedIInv'
  BY <1>0, TouchCached DEF CallKnown, IInv
<1> QED BY <1>2, <1>3, <1>4, <1>5 DEF IInv

(* No entry of a heap has a smaller count than its root: going from parent *)
(* to parent leads to the root.                                            *)
LEMMA RootIsLeast ==
  ASSUME NEW count \in [Servers -> Nat], NEW h, NEW list \in Arrangements,
         IsHeap(list, count, h), NEW t \in Servers
  PROVE  list[1] \in Servers /\ count[list[1]] <= count[t]
<1> DEFINE N == Cardinality(Servers)
<1>1. N \in Nat
  BY ManagerAssumption, FS_CardinalityType
<1>2. list \in [1 .. N -> Servers] /\ \E i \in 1 .. N : list[i] = t
  BY DEF Arrangements, Bijection, Injection, Surjection
<1>3. \A i \in 2 .. N : ~ Precedes(count, h, list[i], list[i \div 2])
  BY DEF IsHeap
<1>4. PICK i \in 1 .. N : list[i] = t
  BY <1>2
<1> HIDE DEF N
<1>5. 1 \in 1 .. N /\ list[1] \in Servers
  BY <1>1, <1>2, <1>4
<1> DEFINE S == {k \in Nat : \A j \in 1 .. N : j <= k => count[list[1]] <= count[list[j]]}
<1>6. 0 \in S
  OBVIOUS
<1>7. ASSUME NEW k \in 0 .. N - 1, k \in S PROVE k + 1 \in S
  <2> SUFFICES ASSUME NEW j \in 1 .. N, j <= k + 1
               PROVE  count[list[1]] <= count[list[j]]
    BY <1>1
  <2>1. /\ \A l \in 1 .. N : count[list[l]] \in Nat
        /\ \A l \in 1 .. N : l <= k => count[list[1]] <= count[list[l]]
    BY <1>2, <1>7
  <2>2. CASE j = 1
    BY <1>5, <2>1, <2>2
  <2>3. CASE j # 1
    <3>1. j \div 2 \in 1 .. N /\ j \div 2 <= k /\ j \in 2 .. N
      BY <1>1, <2>3
    <3>2. count[list[1]] <= count[list[j \div 2]]
      BY <2>1, <3>1
    <3>3. ~ (count[list[j]] < count[list[j \div 2]])
      BY <1>3, <3>1 DEF Precedes
    <3> QED BY <1>5, <2>1, <3>1, <3>2, <3>3
  <2> QED BY <2>2, <2>3
<1>8. N \in S
  <2> HIDE DEF S
  <2> QED BY <1>1, <1>6, <1>7, Induction
<1> QED BY <1>1, <1>4, <1>5, <1>8

(* Counting a least counted server keeps the counts balanced.              *)
LEMMA RootBalanced ==
  ASSUME CountsIInv, NEW m \in Managers, NEW s \in Servers, s = heap[m][1],
         counts' = [counts EXCEPT ![m][s] = @ + 1]
  PROVE  CountsBalanced' /\ counts' \in [Managers -> [Servers -> Nat]]
<1>1. \A k \in Managers, t \in Servers : counts[k][t] \in Nat
  BY DEF CountsIInv
<1>2. \A k \in Managers, t \in Servers :
        counts'[k][t] = IF k = m /\ t = s THEN counts[k][t] + 1
                        ELSE counts[k][t]
  BY DEF CountsIInv
<1>3. \A t \in Servers : counts[m][s] <= counts[m][t]
  <2>1. /\ counts[m] \in [Servers -> Nat] /\ heap[m] \in Arrangements
        /\ IsHeap(heap[m], counts[m], hash[m])
    BY DEF CountsIInv, HeapFits
  <2> QED BY <2>1, RootIsLeast
<1>4. \A k \in Managers, t, u \in Servers : counts[k][t] <= counts[k][u] + 1
  BY DEF CountsIInv, CountsBalanced
<1>5. \A k \in Managers, t, u \in Servers : counts'[k][t] <= counts'[k][u] + 1
  BY <1>1, <1>2, <1>3, <1>4
<1>6. counts' \in [Managers -> [Servers -> Nat]]
  BY DEF CountsIInv
<1> QED BY <1>5, <1>6 DEF CountsBalanced

(* Sifting the counted root makes the entries a heap again.                *)
LEMMA CountedHeap ==
  ASSUME CountsIInv, NEW m \in Managers, NEW s \in Servers, hash' = hash,
         counts' = [counts EXCEPT ![m][s] = @ + 1], Heapreplace(m)
  PROVE  HeapFits' /\ heap' \in [Managers -> Arrangements]
<1>1. PICK list \in Arrangements :
        IsHeap(list, counts'[m], hash[m]) /\ heap' = [heap EXCEPT ![m] = list]
  BY DEF Heapreplace
<1>2. /\ heap' \in [Managers -> Arrangements] /\ heap'[m] = list
      /\ \A k \in Managers \ {m} : heap'[k] = heap[k] /\ counts'[k] = counts[k]
  BY <1>1 DEF CountsIInv
<1>3. \A k \in Managers : IsHeap(heap'[k], counts'[k], hash'[k])
  BY <1>1, <1>2 DEF CountsIInv, HeapFits
<1> QED BY <1>2, <1>3 DEF HeapFits

(* A used id of the running batch is never unknown, so an unknown id is    *)
(* new.                                                                    *)
LEMMA CallNewIInv ==
  ASSUME IInv, BatchSize <= MaxCacheSize,
         NEW m \in Managers, NEW r \in Requests, NEW s \in Servers,
         CallNew(m, r, s)
  PROVE  IInv'
<1> USE ManagerAssumption
<1>1. r \notin Used(m)
  <2> SUFFICES ASSUME r \in Used(m) PROVE FALSE
    OBVIOUS
  <2>1. age[r] < Cardinality(Used(m))
    BY DEF IInv, RecentIInv
  <2>2. /\ Cardinality(Used(m)) <= Cardinality(batch[m])
        /\ Cardinality(Used(m)) \in Nat /\ Cardinality(batch[m]) \in Nat
    BY FiniteBatch DEF IInv
  <2>3. Cardinality(batch[m]) <= BatchSize /\ age[r] \in 0..MaxCacheSize
    BY DEF IInv, OwnedIInv, TypeOK
  <2> QED BY <2>1, <2>2, <2>3 DEF CallNew, Cached
<1>2. Called(m, r, s)
  BY <1>1 DEF Called, CallNew, IInv, TypeOK
<1>3. OwnedIInv' /\ RecentIInv'
  BY <1>2, CalledRecent
<1>4. /\ CountsBalanced' /\ counts' \in [Managers -> [Servers -> Nat]]
      /\ HeapFits' /\ heap' \in [Managers -> Arrangements]
  BY RootBalanced, CountedHeap DEF CallNew, IInv, TypeOK, CountsIInv
<1>5. TypeOK'
  <2>1. /\ age' \in [Requests -> 0..MaxCacheSize]
        /\ home' \in [Requests -> Servers \cup {NoServer}]
    BY TouchType DEF CallNew, IInv
  <2>2. inflight' \in [Requests -> Servers \cup {NoServer}]
    BY DEF CallNew, Send, IInv, TypeOK
  <2>3. calls' \in [Requests -> Nat]
    BY DEF CallNew, Send, IInv, TypeOK
  <2>4. routes' \in [Requests -> SUBSET Servers]
    BY DEF CallNew, Send, IInv, TypeOK
  <2> QED BY <1>4, <2>1, <2>2, <2>3, <2>4 DEF CallNew, IInv, TypeOK
<1>6. CachedIInv'
  BY TouchCached DEF CallNew, IInv
<1> QED BY <1>3, <1>4, <1>5, <1>6 DEF IInv

(* An answer changes nothing the invariant speaks of.                      *)
LEMMA AnswerIInv ==
  ASSUME IInv, NEW r \in Requests, ServerAnswers(r)
  PROVE  IInv'
<1>1. TypeOK'
  BY DEF ServerAnswers, IInv, TypeOK
<1>2. HeapFits' /\ CountsBalanced'
  BY DEF ServerAnswers, IInv, HeapFits, CountsBalanced
<1>3. OwnedIInv'
  BY DEF ServerAnswers, IInv, OwnedIInv
<1>4. RecentIInv'
  BY DEF ServerAnswers, IInv, RecentIInv, Used
<1>5. CachedIInv'
  BY DEF ServerAnswers, IInv, CachedIInv, Cached
<1> QED BY <1>1, <1>2, <1>3, <1>4, <1>5 DEF IInv

(* Neither does a stuttering step.                                         *)
LEMMA StutterIInv == IInv /\ UNCHANGED vars => IInv'
<1> SUFFICES ASSUME IInv, UNCHANGED vars PROVE IInv'
  OBVIOUS
<1>1. TypeOK'
  BY DEF IInv, TypeOK, vars
<1>2. HeapFits' /\ CountsBalanced'
  BY DEF IInv, HeapFits, CountsBalanced, vars
<1>3. OwnedIInv'
  BY DEF IInv, OwnedIInv, vars
<1>4. RecentIInv'
  BY DEF IInv, RecentIInv, Used, vars
<1>5. CachedIInv'
  BY DEF IInv, CachedIInv, Cached, vars
<1> QED BY <1>1, <1>2, <1>3, <1>4, <1>5 DEF IInv

(* Every step preserves the invariant when a batch fits into the cache.    *)
LEMMA NextIInv ==
  ASSUME BatchSize <= MaxCacheSize
  PROVE  IInv /\ [Next]_vars => IInv'
<1> SUFFICES ASSUME IInv, [Next]_vars PROVE IInv'
  OBVIOUS
<1>1. ASSUME NEW m \in Managers, NEW rs \in SUBSET Requests, NewBatch(m, rs)
      PROVE IInv'
  BY <1>1, NewBatchIInv
<1>2. ASSUME NEW m \in Managers, NEW r \in Requests, CallKnown(m, r)
      PROVE IInv'
  BY <1>2, CallKnownIInv
<1>3. ASSUME NEW m \in Managers, NEW r \in Requests, NEW s \in Servers,
             CallNew(m, r, s)
      PROVE IInv'
  BY <1>3, CallNewIInv
<1>4. ASSUME NEW r \in Requests, ServerAnswers(r) PROVE IInv'
  BY <1>4, AnswerIInv
<1>5. CASE UNCHANGED vars
  BY <1>5, StutterIInv
<1> QED BY <1>1, <1>2, <1>3, <1>4, <1>5 DEF Next

(* Used ids have one server: the sticky session itself.                    *)
LEMMA IInvSticky == IInv => StickyWithinBatch
<1> SUFFICES ASSUME IInv, NEW m \in Managers, NEW r \in batch[m],
                    NEW s \in routes[r], NEW t \in routes[r]
             PROVE  s = t
  BY DEF StickyWithinBatch
<1>1. r \in Used(m)
  BY DEF Used
<1>2. routes[r] = {home[r]}
  BY <1>1 DEF IInv, RecentIInv
<1> QED BY <1>2

-----------------------------------------------------------------------------
(* Types, for every size of a batch.                                       *)
KnownIInv == TypeOK /\ CachedIInv

(* Both kinds of call.                                                     *)
LEMMA CallTypes ==
  ASSUME KnownIInv, NEW m \in Managers, NEW r \in Requests, NEW s \in Servers,
         Touch(m, r, s), Send(r, s),
         counts' \in [Managers -> [Servers -> Nat]],
         heap' \in [Managers -> Arrangements],
         UNCHANGED << hash, owner, batch >>
  PROVE  KnownIInv'
<1>1. /\ age' \in [Requests -> 0..MaxCacheSize]
      /\ home' \in [Requests -> Servers \cup {NoServer}]
  BY TouchType DEF KnownIInv
<1>2. inflight' \in [Requests -> Servers \cup {NoServer}]
  BY DEF Send, KnownIInv, TypeOK
<1>3. calls' \in [Requests -> Nat]
  BY DEF Send, KnownIInv, TypeOK
<1>4. routes' \in [Requests -> SUBSET Servers]
  BY DEF Send, KnownIInv, TypeOK
<1>5. TypeOK'
  BY <1>1, <1>2, <1>3, <1>4 DEF KnownIInv, TypeOK
<1>6. CachedIInv'
  BY TouchCached DEF KnownIInv
<1> QED BY <1>5, <1>6 DEF KnownIInv

LEMMA NextTypes == KnownIInv /\ [Next]_vars => KnownIInv'
<1> SUFFICES ASSUME KnownIInv, [Next]_vars PROVE KnownIInv'
  OBVIOUS
<1> USE ManagerAssumption
<1>1. ASSUME NEW m \in Managers, NEW rs \in SUBSET Requests, NewBatch(m, rs)
      PROVE  KnownIInv'
  <2>1. TypeOK'
    BY <1>1 DEF NewBatch, KnownIInv, TypeOK
  <2>2. CachedIInv'
    BY <1>1 DEF NewBatch, KnownIInv, CachedIInv, Cached
  <2> QED BY <2>1, <2>2 DEF KnownIInv
<1>2. ASSUME NEW m \in Managers, NEW r \in Requests, CallKnown(m, r)
      PROVE  KnownIInv'
  <2>1. home[r] \in Servers
    BY <1>2 DEF CallKnown, KnownIInv, CachedIInv
  <2> QED BY <1>2, <2>1, CallTypes DEF CallKnown, KnownIInv, TypeOK
<1>3. ASSUME NEW m \in Managers, NEW r \in Requests, NEW s \in Servers,
             CallNew(m, r, s)
      PROVE  KnownIInv'
  <2>1. counts' \in [Managers -> [Servers -> Nat]]
    BY <1>3 DEF CallNew, KnownIInv, TypeOK
  <2>2. heap' \in [Managers -> Arrangements]
    BY <1>3 DEF CallNew, Heapreplace, KnownIInv, TypeOK
  <2> QED BY <1>3, <2>1, <2>2, CallTypes DEF CallNew
<1>4. ASSUME NEW r \in Requests, ServerAnswers(r) PROVE KnownIInv'
  <2>1. TypeOK'
    BY <1>4 DEF ServerAnswers, KnownIInv, TypeOK
  <2>2. CachedIInv'
    BY <1>4 DEF ServerAnswers, KnownIInv, CachedIInv, Cached
  <2> QED BY <2>1, <2>2 DEF KnownIInv
<1>5. CASE UNCHANGED vars
  <2>1. TypeOK'
    BY <1>5 DEF vars, KnownIInv, TypeOK
  <2>2. CachedIInv'
    BY <1>5 DEF vars, KnownIInv, CachedIInv, Cached
  <2> QED BY <2>1, <2>2 DEF KnownIInv
<1> QED BY <1>1, <1>2, <1>3, <1>4, <1>5 DEF Next

-----------------------------------------------------------------------------

(* CountsBalanced: whatever batches, cache sizes and evictions, and        *)
(* whichever heap the sifting makes, a manager never counts a server two   *)
(* assignments ahead (_choose_server).                                     *)
THEOREM BalancedCounts == Spec => []CountsBalanced
<1>1. Init => CountsIInv
  BY DEF Init, CountsIInv, HeapFits, CountsBalanced
<1>2. CountsIInv /\ [Next]_vars => CountsIInv'
  <2> SUFFICES ASSUME CountsIInv, [Next]_vars PROVE CountsIInv'
    OBVIOUS
  <2>1. CASE UNCHANGED << counts, heap, hash >>
    BY <2>1 DEF CountsIInv, HeapFits, CountsBalanced
  <2>2. ASSUME NEW m \in Managers, NEW r \in Requests, NEW s \in Servers,
               CallNew(m, r, s)
        PROVE  CountsIInv'
    BY <2>2, RootBalanced, CountedHeap DEF CallNew, CountsIInv
  <2>3. ASSUME NEW m \in Managers, NEW rs \in SUBSET Requests, NewBatch(m, rs)
        PROVE  UNCHANGED << counts, heap, hash >>
    BY <2>3 DEF NewBatch
  <2>4. ASSUME NEW m \in Managers, NEW r \in Requests, CallKnown(m, r)
        PROVE  UNCHANGED << counts, heap, hash >>
    BY <2>4 DEF CallKnown
  <2>5. ASSUME NEW r \in Requests, ServerAnswers(r)
        PROVE  UNCHANGED << counts, heap, hash >>
    BY <2>5 DEF ServerAnswers
  <2>6. CASE UNCHANGED vars
    BY <2>1, <2>6 DEF vars
  <2> QED BY <2>1, <2>2, <2>3, <2>4, <2>5, <2>6 DEF Next
<1>3. CountsIInv => CountsBalanced
  BY DEF CountsIInv
<1> QED BY <1>1, <1>2, <1>3, PTL DEF Spec

(* StickyWithinBatch: when a batch fits into the cache, every call of a    *)
(* live rollout reaches the server of its first call (_choose_server).     *)
THEOREM StickySession ==
  ASSUME BatchSize <= MaxCacheSize
  PROVE  Spec => []StickyWithinBatch
<1>1. Init => IInv
  BY InitIInv
<1>2. IInv /\ [Next]_vars => IInv'
  BY NextIInv
<1>3. IInv => StickyWithinBatch
  BY IInvSticky
<1> QED BY <1>1, <1>2, <1>3, PTL DEF Spec

(* TypeOK: the manager's data keep their types, for every size of a batch  *)
(* (AsyncLLMServerManager.__init__, _choose_server).                       *)
THEOREM ManagerTypeCorrect == Spec => []TypeOK
<1>1. Init => KnownIInv
  BY InitIInv DEF IInv, KnownIInv
<1>2. KnownIInv => TypeOK
  BY DEF KnownIInv
<1> QED BY <1>1, <1>2, NextTypes, PTL DEF Spec

(***************************************************************************)
(* VllmExecutor.  The invariant places the one answer each rank owes: it   *)
(* is in the request on its way, with the worker, in the answer on its     *)
(* way, or has been read.                                                  *)
(***************************************************************************)

(* While a call runs it waits for the ranks it has not read.               *)
WaitingFits ==
  /\ asked = IF calling THEN {w \in Workers : w > Len(outputs)} ELSE {}
  /\ calling => rpc # 0
  /\ outcome # "refused"

OutputsFit ==
  /\ Len(outputs) <= TP
  /\ \A i \in 1 .. Len(outputs) : outputs[i].id = rpc /\ outputs[i].by = i

InboxFits ==
  \A w \in Workers : inbox[w] # 0 =>
    /\ inbox[w] = rpc
    /\ w \in asked
    /\ outbox[w] = << >>
    /\ worker[w] \in {"serving", "stopped"}

WorkersFit ==
  \A w \in Workers : worker[w] \in {"executing", "in_collective", "reduced"} =>
    /\ current[w] = rpc
    /\ w \in asked
    /\ inbox[w] = 0
    /\ outbox[w] = << >>

OutboxFits ==
  \A w \in Workers : outbox[w] # << >> =>
    /\ w \in asked
    /\ inbox[w] = 0
    /\ Len(outbox[w]) = 1
    /\ outbox[w][1].id = rpc /\ outbox[w][1].by = w

(* A rank has answered all calls but the one it still owes an answer to.   *)
AnsweredFits ==
  \A w \in Workers :
    /\ answered[w] \subseteq 1 .. rpc
    /\ \A id \in 1 .. rpc :
         id \in answered[w] \/ (id = rpc /\ w \in asked /\ outbox[w] = << >>)

ExecInv ==
  /\ ExecTypeOK /\ WaitingFits /\ OutputsFit /\ InboxFits /\ WorkersFit
  /\ OutboxFits /\ AnsweredFits

-----------------------------------------------------------------------------
(* Every action keeps the invariant.                                       *)

(* Between calls every socket takes a request.                             *)
LEMMA CollectiveRpcIInv ==
  ASSUME ExecInv, NEW m \in Building \cup Forbidden \cup {"execute_model", "list_loras"},
         CollectiveRpc(m)
  PROVE  ExecInv'
<1>1. asked = {} /\ Reached = Workers
  BY DEF ExecInv, WaitingFits, CollectiveRpc, Reached
<1>2. /\ asked' = Workers /\ calling' /\ outputs' = << >> /\ outcome' = "none"
      /\ inbox' = [w \in Workers |-> rpc + 1]
      /\ rpc' = rpc + 1 /\ method' = m
      /\ UNCHANGED << engine, outbox, worker, current, entered, answered >>
  BY <1>1 DEF CollectiveRpc, workerVars
<1>3. ExecTypeOK'
  <2>1. rpc' \in Nat /\ asked' \subseteq Workers /\ calling' \in BOOLEAN
        /\ outputs' \in Seq(Answers) /\ inbox' \in [Workers -> Nat]
    BY <1>2 DEF ExecInv, ExecTypeOK
  <2> QED BY <1>2, <2>1 DEF ExecInv, ExecTypeOK
<1>4. \A w \in Workers : outbox[w] = << >>
                         /\ worker[w] \notin {"executing", "in_collective", "reduced"}
  BY <1>1 DEF ExecInv, OutboxFits, WorkersFit
<1>5. WaitingFits'
  BY <1>2 DEF ExecInv, ExecTypeOK, WaitingFits, Workers
<1>6. OutputsFit'
  BY <1>2, ExecutorAssumption DEF OutputsFit
<1>7. InboxFits' /\ WorkersFit' /\ OutboxFits'
  BY <1>2, <1>4 DEF ExecInv, ExecTypeOK, InboxFits, WorkersFit, OutboxFits
<1>8. AnsweredFits'
  BY <1>1, <1>2, <1>4 DEF ExecInv, ExecTypeOK, AnsweredFits
<1> QED BY <1>3, <1>5, <1>6, <1>7, <1>8 DEF ExecInv

(* The next answer is the one of its rank to this call.                   *)
LEMMA ReadAnswerIInv ==
  ASSUME ExecInv, ReadAnswer
  PROVE  ExecInv'
<1>1. ExecTypeOK'
  <2> DEFINE w == Len(outputs) + 1
  <2>1. w \in Workers /\ outbox[w] \in Seq(Answers) /\ outbox[w] # << >>
    BY DEF ExecInv, ExecTypeOK, ReadAnswer
  <2>2. Head(outbox[w]) \in Answers /\ Tail(outbox[w]) \in Seq(Answers)
    BY <2>1
  <2> HIDE DEF w
  <2>3. outputs' \in Seq(Answers) /\ outbox' \in [Workers -> Seq(Answers)]
    BY <2>2 DEF ExecInv, ExecTypeOK, ReadAnswer, w
  <2> QED
    BY <2>3 DEF ExecInv, ExecTypeOK, ReadAnswer, workerVars
<1>2. WaitingFits'
  <2>1. Len(outputs') = Len(outputs) + 1 /\ Len(outputs) \in Nat
    BY DEF ExecInv, ExecTypeOK, ReadAnswer
  <2> QED
    BY <2>1 DEF ExecInv, WaitingFits, ReadAnswer, Workers
<1>3. OutputsFit'
  <2> DEFINE w == Len(outputs) + 1
  <2>1. w \in Workers /\ outbox[w] \in Seq(Answers) /\ outbox[w] # << >>
    BY DEF ExecInv, ExecTypeOK, ReadAnswer
  <2>2. Head(outbox[w]) = outbox[w][1]
    BY <2>1
  <2>3. outbox[w][1].id = rpc /\ outbox[w][1].by = w
    BY <2>1 DEF ExecInv, OutboxFits
  <2>4. outputs' = Append(outputs, outbox[w][1]) /\ rpc' = rpc /\ outputs \in
      Seq(Answers)
    BY <2>2 DEF ExecInv, ExecTypeOK, ReadAnswer
  <2>5. Len(outputs') = w /\ outputs'[w] = outbox[w][1]
        /\ \A i \in 1 .. Len(outputs) : outputs'[i] = outputs[i]
    BY <2>4
  <2>6. w <= TP /\ Len(outputs) \in Nat
    BY <2>1, <2>4, ExecutorAssumption DEF Workers
  <2> HIDE DEF w
  <2>7. \A i \in 1 .. w : i = w \/ i \in 1 .. Len(outputs)
    BY <2>6 DEF w
  <2> QED
    BY <2>3, <2>4, <2>5, <2>6, <2>7 DEF ExecInv, OutputsFit
<1>4. InboxFits'
  BY DEF ExecInv, ExecTypeOK, InboxFits, WaitingFits, WorkersFit, ReadAnswer,
      coreVars, workerVars
<1>5. WorkersFit'
  BY DEF ExecInv, ExecTypeOK, WorkersFit, WaitingFits, InboxFits, ReadAnswer,
      coreVars, workerVars
<1>6. OutboxFits'
  <2> DEFINE r == Len(outputs) + 1
  <2>1. r \in Workers /\ outbox[r] \in Seq(Answers) /\ outbox[r] # << >>
    BY DEF ExecInv, ExecTypeOK, ReadAnswer
  <2>2. Len(outbox[r]) = 1
    BY <2>1 DEF ExecInv, OutboxFits
  <2>3. Tail(outbox[r]) \in Seq(Answers) /\ Len(Tail(outbox[r])) = 0
    BY <2>1, <2>2
  <2>4. Tail(outbox[r]) = << >>
    BY <2>3, EmptySeq
  <2>5. outbox' = [outbox EXCEPT ![r] = Tail(outbox[r])]
    BY <2>1 DEF ReadAnswer
  <2>6. asked' = asked \ {r} /\ UNCHANGED << rpc, inbox >>
    BY DEF ReadAnswer
  <2> HIDE DEF r
  <2>7. outbox'[r] = << >> /\ \A w \in Workers : w # r => outbox'[w] = outbox[w]
    BY <2>1, <2>4, <2>5 DEF ExecInv, ExecTypeOK
  <2> QED
    BY <2>1, <2>6, <2>7 DEF ExecInv, OutboxFits
<1>7. AnsweredFits'
  BY DEF ExecInv, ExecTypeOK, AnsweredFits, WaitingFits, OutboxFits,
      WorkersFit, ReadAnswer, coreVars, workerVars
<1> QED BY <1>1, <1>2, <1>3, <1>4, <1>5, <1>6, <1>7 DEF ExecInv

(* All answers have been read when the call returns.                      *)
LEMMA ReturnIInv ==
  ASSUME ExecInv, Return
  PROVE  ExecInv'
<1>1. ExecTypeOK'
  BY DEF ExecInv, ExecTypeOK, Building, Return, AfterCall, coreVars, workerVars
<1>2. WaitingFits'
  <2>1. asked = {}
    BY ExecutorAssumption DEF ExecInv, WaitingFits, Return, AllRead, Workers
  <2> QED
    BY <2>1 DEF WaitingFits, Return
<1>3. OutputsFit' /\ InboxFits' /\ WorkersFit' /\ OutboxFits' /\ AnsweredFits'
  BY DEF ExecInv, OutputsFit, InboxFits, WorkersFit, OutboxFits, AnsweredFits,
      Return, AfterCall, coreVars, workerVars
<1> QED BY <1>1, <1>2, <1>3 DEF ExecInv

(* A worker takes the request of this call.                               *)
LEMMA ReceiveIInv ==
  ASSUME ExecInv, NEW w \in Workers, Receive(w)
  PROVE  ExecInv'
<1>1. ExecTypeOK'
  BY DEF ExecInv, ExecTypeOK, Building, Receive, coreVars, workerVars
<1>2. InboxFits'
  BY DEF ExecInv, ExecTypeOK, InboxFits, WaitingFits, WorkersFit, Receive,
      coreVars, workerVars
<1>3. WorkersFit'
  BY DEF ExecInv, ExecTypeOK, WorkersFit, WaitingFits, InboxFits, Receive,
      coreVars, workerVars
<1>4. OutboxFits'
  BY DEF ExecInv, ExecTypeOK, OutboxFits, WaitingFits, WorkersFit, InboxFits,
      Receive, coreVars, workerVars
<1>5. WaitingFits' /\ OutputsFit' /\ AnsweredFits'
  BY DEF ExecInv, WaitingFits, OutputsFit, AnsweredFits, Receive, coreVars,
      workerVars
<1> QED BY <1>1, <1>2, <1>3, <1>4, <1>5 DEF ExecInv

(* It enters the collective.                                              *)
LEMMA EnterIInv ==
  ASSUME ExecInv, NEW w \in Workers, Enter(w)
  PROVE  ExecInv'
<1>1. ExecTypeOK'
  BY DEF ExecInv, ExecTypeOK, Building, Enter, coreVars, workerVars
<1>2. InboxFits'
  BY DEF ExecInv, ExecTypeOK, InboxFits, WaitingFits, WorkersFit, Enter,
      coreVars, workerVars
<1>3. WorkersFit'
  BY DEF ExecInv, ExecTypeOK, WorkersFit, WaitingFits, InboxFits, Enter,
      coreVars, workerVars
<1>4. WaitingFits' /\ OutputsFit' /\ OutboxFits' /\ AnsweredFits'
  BY DEF ExecInv, WaitingFits, OutputsFit, OutboxFits, AnsweredFits, Enter,
      coreVars, workerVars
<1> QED BY <1>1, <1>2, <1>3, <1>4 DEF ExecInv

(* All ranks have entered it.                                             *)
LEMMA LeaveIInv ==
  ASSUME ExecInv, NEW w \in Workers, Leave(w)
  PROVE  ExecInv'
<1>1. ExecTypeOK'
  BY DEF ExecInv, ExecTypeOK, Building, Leave, coreVars, workerVars
<1>2. InboxFits'
  BY DEF ExecInv, ExecTypeOK, InboxFits, WaitingFits, WorkersFit, Leave,
      coreVars, workerVars
<1>3. WorkersFit'
  BY DEF ExecInv, ExecTypeOK, WorkersFit, WaitingFits, InboxFits, Leave,
      coreVars, workerVars
<1>4. WaitingFits' /\ OutputsFit' /\ OutboxFits' /\ AnsweredFits'
  BY DEF ExecInv, WaitingFits, OutputsFit, OutboxFits, AnsweredFits, Leave,
      coreVars, workerVars
<1> QED BY <1>1, <1>2, <1>3, <1>4 DEF ExecInv

(* It answers the call it works on.                                       *)
LEMMA FinishIInv ==
  ASSUME ExecInv, NEW w \in Workers, Finish(w)
  PROVE  ExecInv'
<1>1. ExecTypeOK'
  <2> DEFINE given == [id |-> current[w], by |-> w, result |-> "ok"]
  <2>1. given \in Answers
    BY DEF ExecInv, ExecTypeOK, Answers
  <2>2. outbox' = [outbox EXCEPT ![w] = Append(outbox[w], given)]
    BY DEF Finish, Answer
  <2> HIDE DEF given
  <2>3. outbox' \in [Workers -> Seq(Answers)]
    BY <2>1, <2>2 DEF ExecInv, ExecTypeOK
  <2>4. answered' \in [Workers -> SUBSET Nat]
    BY DEF ExecInv, ExecTypeOK, Finish
  <2> QED
    BY <2>3, <2>4 DEF ExecInv, ExecTypeOK, Finish, coreVars
<1>2. InboxFits'
  BY DEF ExecInv, ExecTypeOK, InboxFits, WaitingFits, WorkersFit, Finish,
      Answer, coreVars, workerVars
<1>3. WorkersFit'
  BY DEF ExecInv, ExecTypeOK, WorkersFit, WaitingFits, InboxFits, Finish,
      Answer, coreVars, workerVars
<1>4. OutboxFits'
  BY DEF ExecInv, ExecTypeOK, OutboxFits, WaitingFits, WorkersFit, InboxFits,
      Finish, Answer, coreVars, workerVars
<1>5. AnsweredFits'
  <2>1. current[w] = rpc /\ w \in asked /\ outbox[w] = << >>
    BY DEF ExecInv, WorkersFit, Finish
  <2>2. /\ answered' = [answered EXCEPT ![w] = answered[w] \cup {rpc}]
        /\ UNCHANGED << rpc, asked >>
        /\ \A v \in Workers : v # w => outbox'[v] = outbox[v]
    BY <2>1 DEF ExecInv, ExecTypeOK, Finish, Answer, coreVars
  <2>3. rpc \in Nat \ {0}
    BY <2>1 DEF ExecInv, ExecTypeOK, WaitingFits
  <2> QED
    BY <2>1, <2>2, <2>3 DEF ExecInv, ExecTypeOK, AnsweredFits
<1>6. WaitingFits' /\ OutputsFit'
  BY DEF ExecInv, WaitingFits, OutputsFit, Finish, Answer, coreVars, workerVars
<1> QED BY <1>1, <1>2, <1>3, <1>4, <1>5, <1>6 DEF ExecInv

(* So does one whose method raises.                                       *)
LEMMA RaiseIInv ==
  ASSUME ExecInv, NEW w \in Workers, Raise(w)
  PROVE  ExecInv'
<1>1. ExecTypeOK'
  <2> DEFINE given == [id |-> current[w], by |-> w, result |-> "exception"]
  <2>1. given \in Answers
    BY DEF ExecInv, ExecTypeOK, Answers
  <2>2. outbox' = [outbox EXCEPT ![w] = Append(outbox[w], given)]
    BY DEF Raise, Answer
  <2> HIDE DEF given
  <2>3. outbox' \in [Workers -> Seq(Answers)]
    BY <2>1, <2>2 DEF ExecInv, ExecTypeOK
  <2>4. answered' \in [Workers -> SUBSET Nat]
    BY DEF ExecInv, ExecTypeOK, Raise
  <2> QED
    BY <2>3, <2>4 DEF ExecInv, ExecTypeOK, Raise, coreVars
<1>2. InboxFits'
  BY DEF ExecInv, ExecTypeOK, InboxFits, WaitingFits, WorkersFit, Raise,
      Answer, coreVars, workerVars
<1>3. WorkersFit'
  BY DEF ExecInv, ExecTypeOK, WorkersFit, WaitingFits, InboxFits, Raise,
      Answer, coreVars, workerVars
<1>4. OutboxFits'
  BY DEF ExecInv, ExecTypeOK, OutboxFits, WaitingFits, WorkersFit, InboxFits,
      Raise, Answer, coreVars, workerVars
<1>5. AnsweredFits'
  <2>1. current[w] = rpc /\ w \in asked /\ outbox[w] = << >>
    BY DEF ExecInv, WorkersFit, Raise
  <2>2. /\ answered' = [answered EXCEPT ![w] = answered[w] \cup {rpc}]
        /\ UNCHANGED << rpc, asked >>
        /\ \A v \in Workers : v # w => outbox'[v] = outbox[v]
    BY <2>1 DEF ExecInv, ExecTypeOK, Raise, Answer, coreVars
  <2>3. rpc \in Nat \ {0}
    BY <2>1 DEF ExecInv, ExecTypeOK, WaitingFits
  <2> QED
    BY <2>1, <2>2, <2>3 DEF ExecInv, ExecTypeOK, AnsweredFits
<1>6. WaitingFits' /\ OutputsFit'
  BY DEF ExecInv, WaitingFits, OutputsFit, Raise, Answer, coreVars, workerVars
<1> QED BY <1>1, <1>2, <1>3, <1>4, <1>5, <1>6 DEF ExecInv

(* The invariant is inductive.                                             *)
LEMMA ExecInitIInv == ExecInit => ExecInv
<1> SUFFICES ASSUME ExecInit PROVE ExecInv
  OBVIOUS
<1>1. ExecTypeOK
  <2>1. outputs \in Seq(Answers) /\ outbox \in [Workers -> Seq(Answers)]
    BY DEF ExecInit
  <2> QED BY <2>1 DEF ExecInit, ExecTypeOK, Building
<1>2. WaitingFits /\ OutputsFit /\ InboxFits /\ WorkersFit /\ OutboxFits /\ AnsweredFits
  BY ExecutorAssumption
  DEF ExecInit, WaitingFits, OutputsFit, InboxFits, WorkersFit, OutboxFits, AnsweredFits
<1> QED BY <1>1, <1>2 DEF ExecInv

LEMMA ExecNextIInv == ExecInv /\ [ExecNext]_execVars => ExecInv'
<1> SUFFICES ASSUME ExecInv, [ExecNext]_execVars PROVE ExecInv'
  OBVIOUS
<1>1. CASE Build \/ Step \/ ListLoras \/ SwitchEngine
  BY <1>1, CollectiveRpcIInv
  DEF Build, Step, ListLoras, SwitchEngine
<1>2. CASE ReadAnswer \/ Return
  BY <1>2, ReadAnswerIInv, ReturnIInv
<1>3. CASE \E w \in Workers : Progress(w)
  BY <1>3, ReceiveIInv, EnterIInv, LeaveIInv, FinishIInv, RaiseIInv DEF Progress
<1>4. CASE UNCHANGED execVars
  <2>1. ExecTypeOK'
    BY <1>4 DEF ExecInv, ExecTypeOK, execVars, coreVars, workerVars
  <2>2. WaitingFits' /\ OutputsFit' /\ InboxFits'
    BY <1>4 DEF ExecInv, WaitingFits, OutputsFit, InboxFits, execVars, coreVars, workerVars
  <2>3. WorkersFit' /\ OutboxFits' /\ AnsweredFits'
    BY <1>4 DEF ExecInv, WorkersFit, OutboxFits, AnsweredFits, execVars, coreVars, workerVars
  <2> QED BY <2>1, <2>2, <2>3 DEF ExecInv
<1> QED BY <1>1, <1>2, <1>3, <1>4 DEF ExecNext, ExecLocal

LEMMA ExecInvariantHolds == ExecSpec => []ExecInv
<1> QED BY ExecInitIInv, ExecNextIInv, PTL DEF ExecSpec

-----------------------------------------------------------------------------
(* The theorems.                                                           *)

(* Calls, sockets and workers stay in the states collective_rpc and        *)
(* _loop_forever know.                                                     *)
THEOREM ExecTypeCorrect == ExecSpec => []ExecTypeOK
<1>1. ExecInv => ExecTypeOK
  BY DEF ExecInv
<1> QED BY <1>1, ExecInvariantHolds, PTL

LEMMA IInvAnswers == ExecInv => AnswersOfTheCall
<1> SUFFICES ASSUME ExecInv PROVE AnswersOfTheCall
  OBVIOUS
<1>1. ~ calling => asked = {} /\ \A w \in Workers : outbox[w] = << >>
  BY DEF ExecInv, WaitingFits, OutboxFits
<1> QED BY <1>1 DEF ExecInv, WaitingFits, OutputsFit, AnswersOfTheCall

LEMMA IInvInStep == ExecInv => RanksInStep
<1> SUFFICES ASSUME ExecInv, NEW v \in Workers, NEW w \in Workers,
                    NEW id \in answered[v], NEW older \in 1 .. (id - 1)
             PROVE  older \in answered[w]
  BY DEF RanksInStep
<1>1. rpc \in Nat /\ id \in 1 .. rpc
  BY DEF ExecInv, ExecTypeOK, AnsweredFits
<1>2. older \in 1 .. rpc /\ older # rpc
  BY <1>1
<1> QED BY <1>2 DEF ExecInv, AnsweredFits

(* Whatever call a worker raises in, no answer of it is left unread for    *)
(* collective_rpc to take for an answer of the next.                       *)
THEOREM CallsReadTheirAnswers == ExecSpec => []AnswersOfTheCall
<1> QED BY ExecInvariantHolds, IInvAnswers, PTL

(* No tensor parallel rank answers a call before all others have answered  *)
(* the calls before it.                                                    *)
THEOREM RanksStayInStep == ExecSpec => []RanksInStep
<1> QED BY ExecInvariantHolds, IInvInStep, PTL

-----------------------------------------------------------------------------
(***************************************************************************)
(* ToolAgentLoop.  The invariant speaks about the growing prompt_ids: its  *)
(* first token is the prompt and each later one is described by the mask   *)
(* one place earlier, so that cutting the response off its end needs no    *)
(* history.                                                                *)
(***************************************************************************)

Token == {"prompt", "reply", "tool", "image", "system", "user"} \X Nat \X Nat

TypesFit ==
  /\ prompt_ids \in Seq(Token)
  /\ response_mask \in Seq({0, 1})
  /\ response_logprobs \in Seq(Nat)
  /\ assistant_turns \in Nat
  /\ tool_calls \in Nat

(* What stands at a place of mask and log-probabilities for a token.       *)
Describes(token, mark, value) ==
  /\ mark = 1 <=> token[1] = "reply"
  /\ value = IF token[1] = "reply" THEN token[2] ELSE 0

Matches(tokens, mask, values) ==
  /\ Len(tokens) = Len(mask) + 1
  /\ Len(values) = Len(mask)
  /\ tokens[1] = <<"prompt", 0, 0>>
  /\ \A i \in 1 .. Len(mask) : Describes(tokens[i + 1], mask[i], values[i])

TextFits ==
  IF state = "pending" THEN response_mask = << >> /\ response_logprobs = << >>
  ELSE state # "raised" => Matches(prompt_ids, response_mask, response_logprobs)

(* An answer follows the answer before it or what precedes all answers.    *)
AnswerFollows(token, before) ==
  token[1] \in {"tool", "image"} =>
    /\ before[2] = token[2]
    /\ IF token[3] = 1 THEN before[1] = IF HasProcessor THEN "system" ELSE "reply"
       ELSE before[1] \in {"tool", "image"} /\ before[3] = token[3] - 1

Ordered(tokens) == \A i \in 1 .. Len(tokens) : AnswerFollows(tokens[i], tokens[i - 1])

OrderFits ==
  /\ Ordered(prompt_ids)
  /\ IF state = "pending" THEN prompt_ids = << >>
     ELSE Len(prompt_ids) > 0 /\ prompt_ids[1] = <<"prompt", 0, 0>>
  /\ state = "processing_tools" =>
       prompt_ids[Len(prompt_ids)] = <<"reply", assistant_turns, 0>>

(* The open instances are those of the calls that are between creation and *)
(* release, or whose release raised.  Calls only act while the tools of    *)
(* the turn run, or run has raised; else they are all done.                *)
Held == {"created", "executed", "kept"}
InstancesFit ==
  IF state = "terminated" THEN open = {}
  ELSE /\ DOMAIN task = Running /\ DOMAIN answer = Running
       /\ open = {Instance(i) : i \in {j \in Running : task[j] \in Held}}
       /\ ~ TasksRun => \A i \in Running : task[i] = "done"

LoopInv == TypesFit /\ TextFits /\ OrderFits /\ InstancesFit

-----------------------------------------------------------------------------
(* Sequences.                                                              *)

LEMMA RepeatType ==
  ASSUME NEW S, NEW x \in S, NEW n \in Nat
  PROVE  /\ Repeat(x, n) \in Seq(S)
         /\ Len(Repeat(x, n)) = n
         /\ \A i \in 1 .. n : Repeat(x, n)[i] = x
<1>1. Repeat(x, n) \in [1 .. n -> S]
  BY DEF Repeat
<1>2. Repeat(x, n) \in Seq(S)
  BY <1>1, IsASeq DEF Repeat
<1>3. Len(Repeat(x, n)) = n
  BY <1>2 DEF Repeat
<1> QED BY <1>2, <1>3 DEF Repeat

(* Where the elements of the second sequence are.                          *)
LEMMA ConcatElement ==
  ASSUME NEW X, NEW s \in Seq(X), NEW t \in Seq(X), NEW j \in 1 .. Len(t)
  PROVE  (s \o t)[Len(s) + j] = t[j]
<1>1. \A i \in 1 .. Len(s) + Len(t) :
        (s \o t)[i] = IF i <= Len(s) THEN s[i] ELSE t[i - Len(s)]
  BY ConcatProperties
<1>2. Len(s) \in Nat /\ Len(t) \in Nat
  BY LenProperties
<1>3. /\ Len(s) + j \in 1 .. Len(s) + Len(t)
      /\ ~ (Len(s) + j <= Len(s)) /\ (Len(s) + j) - Len(s) = j
  BY <1>2
<1> QED BY <1>1, <1>3

(* Tokens that come with their own marks and values keep the match.        *)
LEMMA ExtendedMatches ==
  ASSUME NEW p \in Seq(Token), NEW m \in Seq({0, 1}), NEW l \in Seq(Nat),
         NEW tokens \in Seq(Token), NEW marks \in Seq({0, 1}), NEW values \in Seq(Nat),
         Matches(p, m, l),
         Len(marks) = Len(tokens), Len(values) = Len(tokens),
         \A i \in 1 .. Len(tokens) : Describes(tokens[i], marks[i], values[i])
  PROVE  Matches(p \o tokens, m \o marks, l \o values)
<1>1. /\ Len(p) = Len(m) + 1 /\ Len(l) = Len(m)
      /\ Len(m) \in Nat /\ Len(tokens) \in Nat
  BY DEF Matches
<1>2. /\ Len(p \o tokens) = Len(m) + 1 + Len(tokens)
      /\ Len(m \o marks) = Len(m) + Len(tokens)
      /\ Len(l \o values) = Len(m) + Len(tokens)
  <2>1. /\ Len(p \o tokens) = Len(p) + Len(tokens)
        /\ Len(m \o marks) = Len(m) + Len(marks)
        /\ Len(l \o values) = Len(l) + Len(values)
    BY ConcatProperties
  <2> QED BY <1>1, <2>1
<1>3. (p \o tokens)[1] = p[1]
  BY <1>1
<1>4. ASSUME NEW i \in 1 .. Len(m) + Len(tokens)
      PROVE  Describes((p \o tokens)[i + 1], (m \o marks)[i], (l \o values)[i])
  <2>1. CASE i <= Len(m)
    <3>1. (p \o tokens)[i + 1] = p[i + 1] /\ (m \o marks)[i] = m[i]
          /\ (l \o values)[i] = l[i]
      BY <1>1, <2>1
    <3> QED BY <1>1, <2>1, <3>1 DEF Matches
  <2>2. CASE i > Len(m)
    <3>1. PICK j \in 1 .. Len(tokens) : i = Len(m) + j
      <4>1. i - Len(m) \in 1 .. Len(tokens) /\ i = Len(m) + (i - Len(m))
        BY <1>1, <2>2
      <4> QED BY <4>1
    <3>2. (p \o tokens)[Len(p) + j] = tokens[j]
      BY ConcatElement
    <3>3. (m \o marks)[Len(m) + j] = marks[j]
      BY ConcatElement
    <3>4. (l \o values)[Len(l) + j] = values[j]
      BY ConcatElement
    <3> DEFINE P == p \o tokens
               M == m \o marks
               L == l \o values
    <3>5. P[Len(p) + j] = tokens[j] /\ M[Len(m) + j] = marks[j] /\ L[Len(l) + j] = values[j]
      BY <3>2, <3>3, <3>4
    <3> HIDE DEF P, M, L
    <3>6. i + 1 = Len(p) + j /\ i = Len(m) + j /\ i = Len(l) + j
      BY <1>1, <3>1
    <3>7. Describes(P[i + 1], M[i], L[i])
      BY <3>5, <3>6
    <3> QED BY <3>7 DEF P, M, L
  <2>3. i <= Len(m) \/ i > Len(m)
    BY <1>1
  <2> QED BY <2>1, <2>2, <2>3
<1>5. Len(l \o values) = Len(m \o marks) /\ Len(p \o tokens) = Len(m \o marks) + 1
  BY <1>1, <1>2
<1>6. \A i \in 1 .. Len(m \o marks) :
        Describes((p \o tokens)[i + 1], (m \o marks)[i], (l \o values)[i])
  BY <1>2, <1>4
<1>7. (p \o tokens)[1] = <<"prompt", 0, 0>>
  BY <1>3 DEF Matches
<1> QED BY <1>5, <1>6, <1>7 DEF Matches

(* So does the order of answers when each token follows its predecessor.   *)
LEMMA ExtendedOrdered ==
  ASSUME NEW p \in Seq(Token), NEW tokens \in Seq(Token),
         Len(p) > 0, p[1] = <<"prompt", 0, 0>>, Ordered(p),
         \A i \in 1 .. Len(tokens) :
           AnswerFollows(tokens[i], IF i = 1 THEN p[Len(p)] ELSE tokens[i - 1])
  PROVE  Ordered(p \o tokens)
<1>1. Len(p) \in Nat /\ Len(tokens) \in Nat
      /\ Len(p \o tokens) = Len(p) + Len(tokens)
  OBVIOUS
<1>2. ASSUME NEW i \in 1 .. Len(p) + Len(tokens)
      PROVE  AnswerFollows((p \o tokens)[i], (p \o tokens)[i - 1])
  <2>1. CASE i = 1
    <3>1. (p \o tokens)[1] = <<"prompt", 0, 0>>
      BY <1>1
    <3> QED BY <2>1, <3>1 DEF AnswerFollows
  <2>2. CASE i # 1 /\ i <= Len(p)
    <3>1. (p \o tokens)[i] = p[i] /\ (p \o tokens)[i - 1] = p[i - 1]
      BY <1>1, <2>2
    <3> QED BY <1>1, <2>2, <3>1 DEF Ordered
  <2>3. CASE i > Len(p)
    <3> DEFINE j == i - Len(p)
    <3>1. j \in 1 .. Len(tokens)
      BY <1>1, <2>3
    <3>2. (p \o tokens)[i] = tokens[j]
      BY <1>1, <2>3
    <3>3. (p \o tokens)[i - 1] = IF j = 1 THEN p[Len(p)] ELSE tokens[j - 1]
      <4>1. CASE j = 1
        BY <1>1, <4>1
      <4>2. CASE j # 1
        BY <1>1, <3>1, <4>2
      <4> QED BY <4>1, <4>2
    <3> HIDE DEF j
    <3> QED BY <3>1, <3>2, <3>3
  <2>4. i = 1 \/ (i # 1 /\ i <= Len(p)) \/ i > Len(p)
    BY <1>1
  <2> QED BY <2>1, <2>2, <2>3, <2>4
<1> QED BY <1>1, <1>2 DEF Ordered

LEMMA RunningType ==
  ASSUME TypesFit
  PROVE  \E c \in Nat : Running = 1 .. c
<1>1. tool_calls \in Nat /\ MaxParallelCalls \in Nat
  BY ToolLoopAssumption DEF TypesFit
<1>2. Min({tool_calls, MaxParallelCalls}) \in Nat
  BY <1>1, MinOfTwo
<1> QED BY <1>2 DEF Running

(* Whatever the tools answered, their tokens are no reply and stand in     *)
(* order.                                                                  *)
LEMMA ToolTokensFit ==
  ASSUME TypesFit
  PROVE  /\ ToolTokens \in Seq(Token)
         /\ \A i \in 1 .. Len(ToolTokens) : Describes(ToolTokens[i], 0, 0)
         /\ \A i \in 1 .. Len(ToolTokens) :
              AnswerFollows(ToolTokens[i], IF i = 1 THEN <<"reply", assistant_turns, 0>>
                                     ELSE ToolTokens[i - 1])
<1>1. PICK c \in Nat : Running = 1 .. c
  BY RunningType
<1>2. assistant_turns \in Nat
  BY DEF TypesFit
<1>3. /\ ToolMessages \in Seq(Token)
      /\ Len(ToolMessages) = c
      /\ \A i \in 1 .. c : /\ ToolMessages[i][1] \in {"tool", "image"}
                           /\ ToolMessages[i][2] = assistant_turns
                           /\ ToolMessages[i][3] = i
  <2>1. \A i \in 1 .. c : TokenOf(i) \in Token
    BY <1>2 DEF TokenOf, Token
  <2>2. ToolMessages \in [1 .. c -> Token]
    BY <1>1, <2>1 DEF ToolMessages
  <2>3. ToolMessages \in Seq(Token)
    BY <2>2, IsASeq
  <2>4. Len(ToolMessages) = c
    BY <2>2, <2>3
  <2>5. \A i \in 1 .. c : ToolMessages[i] = TokenOf(i)
    BY <1>1 DEF ToolMessages
  <2> QED BY <2>3, <2>4, <2>5 DEF TokenOf
<1> DEFINE S == <<"system", assistant_turns, 0>>
<1>4. CASE HasProcessor
  <2>1. ToolTokens = << S >> \o ToolMessages
    BY <1>4 DEF ToolTokens
  <2>2. S \in Token /\ << S >> \in Seq(Token) /\ Len(<< S >>) = 1
    BY <1>2 DEF Token
  <2>3. ToolTokens \in Seq(Token) /\ Len(ToolTokens) = 1 + c /\ ToolTokens[1] = S
    BY <1>3, <2>1, <2>2
  <2>4. \A i \in 1 .. c : ToolTokens[i + 1] = ToolMessages[i]
    BY <1>3, <2>1, <2>2
  <2>5. ASSUME NEW i \in 1 .. 1 + c
        PROVE  Describes(ToolTokens[i], 0, 0)
               /\ AnswerFollows(ToolTokens[i], IF i = 1 THEN <<"reply", assistant_turns, 0>>
                                         ELSE ToolTokens[i - 1])
    <3>1. CASE i = 1
      BY <2>3, <3>1 DEF Describes, AnswerFollows
    <3>2. CASE i = 2
      <4>1. ToolTokens[i] = ToolMessages[1] /\ ToolTokens[i - 1] = S /\ 1 \in 1 .. c
        BY <2>3, <2>4, <3>2
      <4> QED BY <1>3, <1>4, <3>2, <4>1 DEF Describes, AnswerFollows
    <3>3. CASE i > 2
      <4>1. /\ i - 1 \in 1 .. c /\ i - 2 \in 1 .. c
            /\ i = (i - 1) + 1 /\ i - 1 = (i - 2) + 1
        BY <3>3
      <4>2. ToolTokens[i] = ToolMessages[i - 1] /\ ToolTokens[i - 1] = ToolMessages[i - 2]
        BY <2>4, <4>1
      <4> QED BY <1>3, <3>3, <4>1, <4>2 DEF Describes, AnswerFollows
    <3> QED BY <3>1, <3>2, <3>3
  <2> QED BY <2>3, <2>5
<1>5. CASE ~ HasProcessor
  <2>1. ToolTokens = ToolMessages
    BY <1>3, <1>5, ConcatEmptySeq DEF ToolTokens
  <2>2. ASSUME NEW i \in 1 .. c
        PROVE  Describes(ToolTokens[i], 0, 0)
               /\ AnswerFollows(ToolTokens[i], IF i = 1 THEN <<"reply", assistant_turns, 0>>
                                         ELSE ToolTokens[i - 1])
    <3>1. CASE i = 1
      BY <1>3, <1>5, <2>1, <3>1 DEF Describes, AnswerFollows
    <3>2. CASE i > 1
      <4>1. i - 1 \in 1 .. c
        BY <3>2
      <4> QED BY <1>3, <2>1, <3>2, <4>1 DEF Describes, AnswerFollows
    <3> QED BY <3>1, <3>2
  <2> QED BY <1>3, <2>1, <2>2
<1> QED BY <1>4, <1>5

(* Extend puts such tokens behind a text that fits.                        *)
LEMMA ExtendFits ==
  ASSUME TypesFit, OrderFits, state # "pending",
         Matches(prompt_ids, response_mask, response_logprobs),
         NEW tokens \in Seq(Token), Extend(tokens),
         \A i \in 1 .. Len(tokens) : Describes(tokens[i], 0, 0),
         \A i \in 1 .. Len(tokens) :
           AnswerFollows(tokens[i], IF i = 1 THEN prompt_ids[Len(prompt_ids)] ELSE tokens[i - 1])
  PROVE  /\ prompt_ids' \in Seq(Token)
         /\ response_mask' \in Seq({0, 1})
         /\ response_logprobs' \in Seq(Nat)
         /\ Matches(prompt_ids', response_mask', response_logprobs')
         /\ Ordered(prompt_ids')
<1>1. /\ prompt_ids \in Seq(Token) /\ response_mask \in Seq({0, 1})
      /\ response_logprobs \in Seq(Nat) /\ Len(tokens) \in Nat
  BY DEF TypesFit
<1> DEFINE zeros == Repeat(0, Len(tokens))
<1>2. /\ zeros \in Seq({0, 1}) /\ zeros \in Seq(Nat) /\ Len(zeros) = Len(tokens)
      /\ \A i \in 1 .. Len(tokens) : zeros[i] = 0
  BY <1>1, RepeatType
<1>3. /\ prompt_ids' = prompt_ids \o tokens
      /\ response_mask' = response_mask \o zeros
      /\ response_logprobs' = response_logprobs \o zeros
  BY DEF Extend
<1> HIDE DEF zeros
<1>4. \A i \in 1 .. Len(tokens) : Describes(tokens[i], zeros[i], zeros[i])
  BY <1>2
<1>5. Matches(prompt_ids', response_mask', response_logprobs')
  BY <1>1, <1>2, <1>3, <1>4, ExtendedMatches
<1>6. Ordered(prompt_ids')
  BY <1>1, <1>3, ExtendedOrdered DEF OrderFits
<1>7. /\ prompt_ids' \in Seq(Token) /\ response_mask' \in Seq({0, 1})
      /\ response_logprobs' \in Seq(Nat)
  BY <1>1, <1>2, <1>3, ConcatProperties
<1> QED BY <1>5, <1>6, <1>7

-----------------------------------------------------------------------------
(* Every action keeps the invariant.                                       *)

(* The rollout begins with the prompt.                                     *)
LEMMA PendingIInv ==
  ASSUME LoopInv, Pending
  PROVE  LoopInv'
<1> DEFINE P == <<"prompt", 0, 0>>
<1>1. P \in Token /\ << P >> \in Seq(Token) /\ Len(<< P >>) = 1 /\ << P >>[1] = P
  BY DEF Token
<1>2. prompt_ids' = << P >> /\ state' = "generating"
      /\ response_mask' = << >> /\ response_logprobs' = << >>
      /\ UNCHANGED << assistant_turns, tool_calls, open >>
  BY DEF LoopInv, TextFits, Pending, turnVars, taskVars
<1> HIDE DEF P
<1>3. TypesFit'
  BY <1>1, <1>2 DEF LoopInv, TypesFit
<1>4. TextFits'
  BY <1>1, <1>2 DEF TextFits, Matches, P
<1>5. OrderFits'
  BY <1>1, <1>2 DEF OrderFits, Ordered, AnswerFollows, P
<1>6. InstancesFit'
  <2>1. Running' = Running /\ UNCHANGED << assistant_turns, task, answer, open >>
    BY DEF Pending, turnVars, taskVars, Running
  <2>2. \A i \in Running : Instance(i)' = Instance(i)
    BY <2>1 DEF Instance
  <2> QED BY <1>2, <2>1, <2>2 DEF LoopInv, InstancesFit, Pending, TasksRun
<1> QED BY <1>3, <1>4, <1>5, <1>6 DEF LoopInv

(* While no tools run, and when all of them are done, none is open.        *)
LEMMA NoneHeld ==
  ASSUME LoopInv, state # "raised",
         state = "processing_tools" => \A i \in Running : task[i] = "done"
  PROVE  open = {}
<1> QED BY DEF LoopInv, InstancesFit, TasksRun, Held

(* A reply brings marks and log-probabilities of its own.                  *)
LEMMA GeneratedIInv ==
  ASSUME LoopInv, NEW n \in Nat \ {0}, NEW k \in Nat, Generated(n, k)
  PROVE  LoopInv'
<1> DEFINE turn == assistant_turns + 1
           R == <<"reply", turn, 0>>
           tokens == Repeat(R, n)
           marks == Repeat(1, n)
           values == Repeat(turn, n)
<1>1. /\ prompt_ids \in Seq(Token) /\ response_mask \in Seq({0, 1})
      /\ response_logprobs \in Seq(Nat) /\ turn \in Nat /\ R \in Token
  BY DEF LoopInv, TypesFit, Token
<1>2. /\ tokens \in Seq(Token) /\ Len(tokens) = n
      /\ \A i \in 1 .. n : tokens[i] = R
  BY <1>1, RepeatType
<1>3. /\ marks \in Seq({0, 1}) /\ Len(marks) = n
      /\ \A i \in 1 .. n : marks[i] = 1
  BY RepeatType
<1>4. /\ values \in Seq(Nat) /\ Len(values) = n
      /\ \A i \in 1 .. n : values[i] = turn
  BY <1>1, RepeatType
<1>5. /\ state = "generating"
      /\ prompt_ids' = prompt_ids \o tokens
      /\ response_mask' = response_mask \o marks
      /\ response_logprobs' = response_logprobs \o values
      /\ assistant_turns' = turn
      /\ open' = open
      /\ state' \in {"terminated", "processing_tools", "interacting"}
  BY DEF Generated
<1>6. /\ tool_calls' \in {tool_calls, k}
      /\ state' # "terminated" => tool_calls' = k
      /\ state' = "interacting" => k = 0
  BY DEF Generated
<1>7. /\ task' = IF state' = "processing_tools"
                 THEN Repeat("new", Min({k, MaxParallelCalls})) ELSE << >>
      /\ answer' = Repeat(NoAnswer, Len(task'))
  BY DEF Generated
<1>8. R[1] = "reply" /\ R[2] = turn
  OBVIOUS
<1> HIDE DEF tokens, marks, values, R, turn
<1>9. TypesFit'
  <2>1. /\ prompt_ids' \in Seq(Token) /\ response_mask' \in Seq({0, 1})
        /\ response_logprobs' \in Seq(Nat)
    BY <1>1, <1>2, <1>3, <1>4, <1>5, ConcatProperties
  <2> QED BY <1>1, <1>5, <1>6, <2>1 DEF LoopInv, TypesFit
<1>10. TextFits'
  <2>1. \A i \in 1 .. Len(tokens) : Describes(tokens[i], marks[i], values[i])
    BY <1>2, <1>3, <1>4, <1>8 DEF Describes
  <2>2. Matches(prompt_ids, response_mask, response_logprobs)
    BY <1>5 DEF LoopInv, TextFits
  <2>3. Matches(prompt_ids', response_mask', response_logprobs')
    BY <1>1, <1>2, <1>3, <1>4, <1>5, <2>1, <2>2, ExtendedMatches
  <2> QED BY <1>5, <2>3 DEF TextFits
<1>11. OrderFits'
  <2>1. Len(prompt_ids) > 0 /\ prompt_ids[1] = <<"prompt", 0, 0>> /\ Ordered(prompt_ids)
    BY <1>5 DEF LoopInv, OrderFits
  <2>2. \A i \in 1 .. Len(tokens) :
          AnswerFollows(tokens[i], IF i = 1 THEN prompt_ids[Len(prompt_ids)] ELSE tokens[i - 1])
    BY <1>2, <1>8 DEF AnswerFollows
  <2>3. Ordered(prompt_ids')
    BY <1>1, <1>2, <1>5, <2>1, <2>2, ExtendedOrdered
  <2>4. Len(prompt_ids') = Len(prompt_ids) + n
    BY <1>1, <1>2, <1>5, ConcatProperties
  <2>5. prompt_ids'[1] = <<"prompt", 0, 0>>
    BY <1>1, <1>2, <1>5, <2>1
  <2>6. prompt_ids'[Len(prompt_ids) + n] = R
    BY <1>1, <1>2, <1>5
  <2>7. Len(prompt_ids') > 0
    BY <1>1, <2>4
  <2> QED BY <1>5, <2>3, <2>4, <2>5, <2>6, <2>7 DEF OrderFits, R
<1>12. InstancesFit'
  <2>1. open' = {}
    BY <1>5, NoneHeld
  <2>2. CASE state' = "processing_tools"
    <3> DEFINE c == Min({k, MaxParallelCalls})
    <3>1. c \in Nat
      BY ToolLoopAssumption, MinOfTwo
    <3>2. Running' = 1 .. c
      BY <1>6, <2>2 DEF Running
    <3>3. task' = Repeat("new", c) /\ Len(task') = c /\ \A i \in 1 .. c : task'[i] = "new"
      BY <1>7, <2>2, <3>1, RepeatType
    <3> HIDE DEF c
    <3>4. DOMAIN task' = 1 .. c /\ DOMAIN answer' = 1 .. c
      BY <1>7, <3>3 DEF Repeat
    <3>5. {j \in Running' : task'[j] \in Held} = {}
      BY <3>2, <3>3 DEF Held
    <3> QED BY <2>1, <2>2, <3>2, <3>4, <3>5 DEF InstancesFit, TasksRun
  <2>3. CASE state' = "interacting"
    <3>1. Running' = {}
      <4>1. tool_calls' = 0 /\ 0 \in Int /\ MaxParallelCalls \in Nat \ {0}
        BY <1>6, <2>3, ToolLoopAssumption
      <4>2. Min({0, MaxParallelCalls}) = 0
        BY <4>1, MinOfTwo
      <4> QED BY <4>1, <4>2 DEF Running
    <3>2. DOMAIN task' = {} /\ DOMAIN answer' = {}
      BY <1>7, <2>3 DEF Repeat
    <3> QED BY <2>1, <2>3, <3>1, <3>2 DEF InstancesFit
  <2> QED BY <1>5, <2>1, <2>2, <2>3 DEF InstancesFit
<1> QED BY <1>9, <1>10, <1>11, <1>12 DEF LoopInv

(* A failing server ends the rollout, whose tools are all released.        *)
LEMMA GenerateRaisesIInv ==
  ASSUME LoopInv, GenerateRaises
  PROVE  LoopInv'
<1>1. TypesFit'
  BY DEF LoopInv, TypesFit, GenerateRaises, textVars, turnVars
<1>2. TextFits' /\ OrderFits'
  BY DEF LoopInv, TextFits, OrderFits, GenerateRaises, textVars, turnVars
<1>3. InstancesFit'
  <2>1. Running' = Running /\ UNCHANGED << assistant_turns, task, answer, open >>
    BY DEF GenerateRaises, turnVars, taskVars, Running
  <2>2. \A i \in Running : Instance(i)' = Instance(i)
    BY <2>1 DEF Instance
  <2> QED BY <2>1, <2>2 DEF LoopInv, InstancesFit, GenerateRaises, TasksRun
<1> QED BY <1>1, <1>2, <1>3 DEF LoopInv

(* So does the exception of a call, while its siblings go on.              *)
LEMMA CallRaisesIInv ==
  ASSUME LoopInv, CallRaises
  PROVE  LoopInv'
<1>1. TypesFit'
  BY DEF LoopInv, TypesFit, CallRaises, textVars, turnVars
<1>2. TextFits' /\ OrderFits'
  BY DEF LoopInv, TextFits, OrderFits, CallRaises, textVars, turnVars
<1>3. InstancesFit'
  <2>1. Running' = Running /\ UNCHANGED << assistant_turns, task, answer, open >>
    BY DEF CallRaises, turnVars, taskVars, Running
  <2>2. \A i \in Running : Instance(i)' = Instance(i)
    BY <2>1 DEF Instance
  <2> QED BY <2>1, <2>2 DEF LoopInv, InstancesFit, CallRaises, TasksRun
<1> QED BY <1>1, <1>2, <1>3 DEF LoopInv

(* The tasks of a turn open and close their own instance.                  *)
LEMMA LoopTaskIInv ==
  ASSUME LoopInv, NEW i \in Running, LoopTask(i)
  PROVE  LoopInv'
<1>1. TasksRun /\ UNCHANGED << state, textVars, turnVars >>
  BY DEF LoopTask, CallFails, Create, Release, ReleaseRaises, Execute
<1>2. TypesFit'
  BY <1>1 DEF LoopInv, TypesFit, textVars, turnVars
<1>3. TextFits' /\ OrderFits'
  BY <1>1 DEF LoopInv, TextFits, OrderFits, textVars, turnVars
<1>4. Running' = Running /\ assistant_turns' = assistant_turns /\ state' = state
  BY <1>1 DEF Running, turnVars
<1>5. /\ DOMAIN task = Running /\ DOMAIN answer = Running
      /\ open = {Instance(j) : j \in {j \in Running : task[j] \in Held}}
  BY <1>1 DEF LoopInv, InstancesFit, TasksRun
<1>6. \A j \in Running : Instance(j)' = Instance(j)
  BY <1>4 DEF Instance
<1>7. \A a, b \in Running : Instance(a) = Instance(b) => a = b
  BY DEF Instance
<1>8. DOMAIN task' = Running /\ DOMAIN answer' = Running
  BY <1>5 DEF LoopTask, CallFails, Create, Release, ReleaseRaises, Execute
<1>9. open' = {Instance(j) : j \in {j \in Running : task'[j] \in Held}}
  <2>1. CASE CallFails(i)
    BY <1>5, <2>1 DEF CallFails, Held
  <2>2. CASE Create(i)
    BY <1>5, <2>2 DEF Create, Held
  <2>3. CASE Release(i)
    <3>1. PICK end \in {"done", "failed"} : task' = [task EXCEPT ![i] = end]
      BY <2>3 DEF Release, WaysToEnd
    <3>2. open' = open \ {Instance(i)}
      BY <2>3 DEF Release
    <3> QED BY <1>5, <1>7, <3>1, <3>2 DEF Held
  <2>4. CASE ReleaseRaises(i)
    BY <1>5, <2>4 DEF ReleaseRaises, Held
  <2>5. ASSUME NEW result, Execute(i, result)
        PROVE  open' = {Instance(j) : j \in {j \in Running : task'[j] \in Held}}
    BY <1>5, <2>5 DEF Execute, Held
  <2> QED BY <2>1, <2>2, <2>3, <2>4, <2>5 DEF LoopTask
<1>10. InstancesFit'
  BY <1>1, <1>4, <1>6, <1>8, <1>9 DEF InstancesFit, TasksRun
<1> QED BY <1>2, <1>3, <1>10 DEF LoopInv

(* When all tasks are done no instance is open.                            *)
LEMMA NoneOpen ==
  ASSUME LoopInv, AllAnswered
  PROVE  open = {}
<1> QED BY NoneHeld DEF AllAnswered

(* A video, or an image without a processor, ends the rollout.             *)
LEMMA ToolsRaiseIInv ==
  ASSUME LoopInv, ToolsRaise
  PROVE  LoopInv'
<1>1. open = {}
  BY NoneOpen DEF ToolsRaise
<1>2. TypesFit'
  BY DEF LoopInv, TypesFit, ToolsRaise, textVars, turnVars
<1>3. TextFits' /\ OrderFits'
  BY DEF LoopInv, TextFits, OrderFits, ToolsRaise, AllAnswered, textVars, turnVars
<1>4. InstancesFit'
  <2>1. Running' = Running /\ UNCHANGED << assistant_turns, task, answer, open >>
    BY DEF ToolsRaise, turnVars, taskVars, Running
  <2>2. \A i \in Running : Instance(i)' = Instance(i)
    BY <2>1 DEF Instance
  <2> QED BY <2>1, <2>2 DEF LoopInv, InstancesFit, ToolsRaise, AllAnswered, TasksRun
<1> QED BY <1>2, <1>3, <1>4 DEF LoopInv

(* The answers join the text, or end the rollout.                          *)
LEMMA ToolsDoneIInv ==
  ASSUME LoopInv, ToolsDone
  PROVE  LoopInv'
<1>1. /\ state = "processing_tools" /\ open = {} /\ open' = open
      /\ state' \in {"terminated", "generating"}
      /\ UNCHANGED << assistant_turns, tool_calls >>
  BY NoneOpen DEF ToolsDone, AllAnswered, taskVars
<1>2. InstancesFit'
  <2>1. /\ Running' = Running /\ UNCHANGED << task, answer >>
        /\ \A i \in Running : task[i] = "done"
    BY <1>1 DEF ToolsDone, AllAnswered, taskVars, Running
  <2> QED BY <1>1, <2>1 DEF LoopInv, InstancesFit, Held
<1>3. TypesFit /\ OrderFits /\ Matches(prompt_ids, response_mask, response_logprobs)
      /\ Len(prompt_ids) > 0 /\ prompt_ids[1] = <<"prompt", 0, 0>>
  BY <1>1 DEF LoopInv, TextFits, OrderFits
<1>4. CASE UNCHANGED << prompt_ids, response_mask, response_logprobs >>
  <2>1. TypesFit'
    BY <1>1, <1>3, <1>4 DEF TypesFit
  <2>2. TextFits' /\ OrderFits'
    BY <1>1, <1>3, <1>4 DEF TextFits, OrderFits
  <2> QED BY <1>2, <2>1, <2>2 DEF LoopInv
<1>5. CASE Extend(ToolTokens)
  <2>1. /\ ToolTokens \in Seq(Token)
        /\ \A i \in 1 .. Len(ToolTokens) : Describes(ToolTokens[i], 0, 0)
        /\ \A i \in 1 .. Len(ToolTokens) :
             AnswerFollows(ToolTokens[i], IF i = 1 THEN prompt_ids[Len(prompt_ids)]
                                    ELSE ToolTokens[i - 1])
    BY <1>1, <1>3, ToolTokensFit DEF OrderFits
  <2>2. /\ prompt_ids' \in Seq(Token)
        /\ response_mask' \in Seq({0, 1})
        /\ response_logprobs' \in Seq(Nat)
        /\ Matches(prompt_ids', response_mask', response_logprobs')
        /\ Ordered(prompt_ids')
    BY <1>1, <1>3, <1>5, <2>1, ExtendFits
  <2>3. Len(prompt_ids') > 0 /\ prompt_ids'[1] = <<"prompt", 0, 0>>
    <3>1. prompt_ids' = prompt_ids \o ToolTokens /\ prompt_ids \in Seq(Token)
      BY <1>3, <1>5 DEF Extend, TypesFit
    <3> QED BY <1>3, <2>1, <3>1
  <2>4. TypesFit' /\ TextFits' /\ OrderFits'
    BY <1>1, <1>3, <2>2, <2>3 DEF TypesFit, TextFits, OrderFits
  <2> QED BY <1>2, <2>4 DEF LoopInv
<1> QED BY <1>4, <1>5 DEF ToolsDone

(* What an interaction says joins the text.                                *)
LEMMA InteractedIInv ==
  ASSUME LoopInv, NEW stop \in BOOLEAN, Interacted(stop)
  PROVE  LoopInv'
<1> DEFINE U == <<"user", assistant_turns, 0>>
<1>1. /\ state = "interacting" /\ Extend(<< U >>)
      /\ state' \in {"terminated", "generating"}
      /\ UNCHANGED << assistant_turns, tool_calls, task, answer, open >>
  BY DEF Interacted, taskVars
<1>2. InstancesFit'
  <2>1. Running' = Running /\ open = {}
    BY <1>1, NoneHeld DEF Running
  <2> QED BY <1>1, <2>1 DEF LoopInv, InstancesFit, TasksRun, Held
<1>3. TypesFit /\ OrderFits /\ Matches(prompt_ids, response_mask, response_logprobs)
      /\ Len(prompt_ids) > 0 /\ prompt_ids[1] = <<"prompt", 0, 0>>
  BY <1>1 DEF LoopInv, TextFits, OrderFits
<1>4. /\ U \in Token /\ << U >> \in Seq(Token) /\ Len(<< U >>) = 1 /\ << U >>[1] = U
      /\ U[1] = "user"
  BY <1>3 DEF Token, TypesFit
<1> HIDE DEF U
<1>5. \A i \in 1 .. Len(<< U >>) :
        Describes(<< U >>[i], 0, 0)
        /\ AnswerFollows(<< U >>[i], IF i = 1 THEN prompt_ids[Len(prompt_ids)] ELSE << U >>[i - 1])
  BY <1>4 DEF Describes, AnswerFollows
<1>6. /\ prompt_ids' \in Seq(Token)
      /\ response_mask' \in Seq({0, 1})
      /\ response_logprobs' \in Seq(Nat)
      /\ Matches(prompt_ids', response_mask', response_logprobs')
      /\ Ordered(prompt_ids')
  BY <1>1, <1>3, <1>4, <1>5, ExtendFits
<1>7. Len(prompt_ids') > 0 /\ prompt_ids'[1] = <<"prompt", 0, 0>>
  <2>1. prompt_ids' = prompt_ids \o << U >> /\ prompt_ids \in Seq(Token)
    BY <1>1, <1>3 DEF Extend, TypesFit
  <2> QED BY <1>3, <1>4, <2>1
<1>8. TypesFit' /\ TextFits' /\ OrderFits'
  BY <1>1, <1>3, <1>6, <1>7 DEF TypesFit, TextFits, OrderFits
<1> QED BY <1>2, <1>8 DEF LoopInv

-----------------------------------------------------------------------------
(* The invariant is inductive.                                             *)
LEMMA LoopInitIInv == LoopInit => LoopInv
<1> SUFFICES ASSUME LoopInit PROVE LoopInv
  OBVIOUS
<1>1. TypesFit
  BY DEF LoopInit, TypesFit
<1>2. TextFits /\ OrderFits
  BY DEF LoopInit, TextFits, OrderFits, Ordered
<1>3. InstancesFit
  <2>1. tool_calls = 0 /\ 0 \in Int /\ MaxParallelCalls \in Nat \ {0}
    BY ToolLoopAssumption DEF LoopInit
  <2>2. Min({0, MaxParallelCalls}) = 0
    BY <2>1, MinOfTwo
  <2>3. Running = {}
    BY <2>1, <2>2 DEF Running
  <2> QED BY <2>3 DEF LoopInit, InstancesFit
<1> QED BY <1>1, <1>2, <1>3 DEF LoopInv

LEMMA LoopNextIInv == LoopInv /\ [LoopNext]_loopVars => LoopInv'
<1> SUFFICES ASSUME LoopInv, [LoopNext]_loopVars PROVE LoopInv'
  OBVIOUS
<1>1. CASE LoopLocal
  BY <1>1, PendingIInv, LoopTaskIInv, CallRaisesIInv, ToolsRaiseIInv, ToolsDoneIInv,
     InteractedIInv
  DEF LoopLocal
<1>2. CASE LoopGenerate
  <2>1. PICK n \in 1 .. MaxReply, k \in 0 .. MaxCalls : Generated(n, k)
    BY <1>2 DEF LoopGenerate
  <2>2. n \in Nat \ {0} /\ k \in Nat
    BY ToolLoopAssumption
  <2> QED BY <2>1, <2>2, GeneratedIInv
<1>3. CASE GenerateRaises
  BY <1>3, GenerateRaisesIInv
<1>4. CASE UNCHANGED loopVars
  <2>1. TypesFit' /\ TextFits' /\ OrderFits'
    BY <1>4 DEF LoopInv, TypesFit, TextFits, OrderFits, loopVars, textVars, turnVars
  <2>2. Running' = Running /\ assistant_turns' = assistant_turns
    BY <1>4 DEF Running, loopVars, turnVars
  <2>3. \A i \in Running : Instance(i)' = Instance(i)
    BY <2>2 DEF Instance
  <2>4. InstancesFit'
    BY <1>4, <2>2, <2>3 DEF LoopInv, InstancesFit, TasksRun, loopVars, taskVars
  <2> QED BY <2>1, <2>4 DEF LoopInv
<1> QED BY <1>1, <1>2, <1>3, <1>4 DEF LoopNext

LEMMA LoopInvariantHolds == LoopSpec => []LoopInv
<1> QED BY LoopInitIInv, LoopNextIInv, PTL DEF LoopSpec

-----------------------------------------------------------------------------
(* The invariant gives the properties.                                     *)

(* The cut at the response length keeps what it keeps in place.            *)
LEMMA CutFits ==
  ASSUME NEW X, NEW s \in Seq(X)
  PROVE  /\ Len(Cut(s)) = Min({Len(s), ResponseLength})
         /\ \A i \in 1 .. Len(Cut(s)) : i \in 1 .. Len(s) /\ Cut(s)[i] = s[i]
<1> DEFINE c == Min({Len(s), ResponseLength})
<1>1. Len(s) \in Nat /\ ResponseLength \in Nat
  BY LenProperties, ToolLoopAssumption
<1>2. c \in Nat /\ c <= Len(s)
  BY <1>1, MinOfTwo
<1>3. Cut(s) = SubSeq(s, 1, c)
  BY DEF Cut
<1> HIDE DEF c
<1>4. Len(Cut(s)) = c /\ \A i \in 1 .. c : Cut(s)[i] = s[i]
  BY <1>1, <1>2, <1>3
<1>5. \A i \in 1 .. c : i \in 1 .. Len(s)
  BY <1>1, <1>2
<1>6. \A i \in 1 .. Len(Cut(s)) : i \in 1 .. Len(s) /\ Cut(s)[i] = s[i]
  BY <1>4, <1>5
<1> QED BY <1>4, <1>6 DEF c

LEMMA IInvMask == LoopInv => ResponseMatchesMask
<1> SUFFICES ASSUME LoopInv, state \notin {"pending", "raised"}
             PROVE  /\ OutputPrompt = << <<"prompt", 0, 0>> >>
                    /\ Len(OutputMask) = Len(OutputResponse)
                    /\ Len(OutputLogprobs) = Len(OutputResponse)
                    /\ \A i \in 1 .. Len(OutputResponse) :
                         Describes(OutputResponse[i], OutputMask[i], OutputLogprobs[i])
  BY DEF ResponseMatchesMask, Describes
<1>1. /\ prompt_ids \in Seq(Token) /\ response_mask \in Seq({0, 1})
      /\ response_logprobs \in Seq(Nat)
      /\ Matches(prompt_ids, response_mask, response_logprobs)
  BY DEF LoopInv, TypesFit, TextFits
<1>2. Len(response_mask) \in Nat /\ Len(prompt_ids) = Len(response_mask) + 1
      /\ prompt_ids[1] = <<"prompt", 0, 0>> /\ Len(response_logprobs) = Len(response_mask)
  BY <1>1 DEF Matches
<1>3. Len(prompt_ids) - Len(response_mask) = 1
  BY <1>2
<1>4. OutputPrompt = << prompt_ids[1] >>
  <2>1. OutputPrompt = SubSeq(prompt_ids, 1, 1)
    BY <1>3 DEF OutputPrompt
  <2>2. OutputPrompt \in Seq(Token) /\ Len(OutputPrompt) = 1
        /\ OutputPrompt[1] = prompt_ids[1]
    <3>1. prompt_ids \in Seq(Token) /\ Len(prompt_ids) \in Nat \ {0}
      BY <1>1, <1>2
    <3> QED BY <2>1, <3>1
  <2>3. << prompt_ids[1] >> \in Seq(Token)
    <3>1. prompt_ids[1] \in Token
      BY <1>2 DEF Token
    <3> QED BY <3>1
  <2> QED BY <2>2, <2>3, SeqEqual
<1> DEFINE tokens == SubSeq(prompt_ids, 2, Len(prompt_ids))
<1>5. /\ tokens \in Seq(Token) /\ Len(tokens) = Len(response_mask)
      /\ \A i \in 1 .. Len(response_mask) : tokens[i] = prompt_ids[i + 1]
  BY <1>1, <1>2
<1>6. OutputResponse = Cut(tokens)
  BY <1>2, <1>3 DEF OutputResponse
<1> HIDE DEF tokens
<1>7. /\ Len(OutputResponse) = Min({Len(tokens), ResponseLength})
      /\ \A i \in 1 .. Len(OutputResponse) :
           i \in 1 .. Len(tokens) /\ OutputResponse[i] = tokens[i]
  BY <1>5, <1>6, CutFits
<1>8. /\ Len(OutputMask) = Min({Len(response_mask), ResponseLength})
      /\ \A i \in 1 .. Len(OutputMask) : OutputMask[i] = response_mask[i]
  BY <1>1, CutFits DEF OutputMask
<1>9. /\ Len(OutputLogprobs) = Min({Len(response_logprobs), ResponseLength})
      /\ \A i \in 1 .. Len(OutputLogprobs) : OutputLogprobs[i] = response_logprobs[i]
  BY <1>1, CutFits DEF OutputLogprobs
<1>10. Len(OutputMask) = Len(OutputResponse) /\ Len(OutputLogprobs) = Len(OutputResponse)
  BY <1>2, <1>5, <1>7, <1>8, <1>9
<1>11. ASSUME NEW i \in 1 .. Len(OutputResponse)
       PROVE  Describes(OutputResponse[i], OutputMask[i], OutputLogprobs[i])
  <2>1. /\ i \in 1 .. Len(response_mask) /\ OutputResponse[i] = prompt_ids[i + 1]
        /\ OutputMask[i] = response_mask[i] /\ OutputLogprobs[i] = response_logprobs[i]
    BY <1>5, <1>7, <1>8, <1>9, <1>10
  <2>2. Describes(prompt_ids[i + 1], response_mask[i], response_logprobs[i])
    BY <1>1, <2>1 DEF Matches
  <2> QED BY <2>1, <2>2
<1> QED BY <1>2, <1>4, <1>10, <1>11

LEMMA IInvOrder == LoopInv => AnswersInCallOrder
<1> QED BY DEF LoopInv, OrderFits, Ordered, AnswerFollows, AnswersInCallOrder

LEMMA IInvReleased == LoopInv => InstancesReleased
<1> SUFFICES ASSUME LoopInv PROVE InstancesReleased
  OBVIOUS
<1>1. CASE TasksRun
  BY <1>1 DEF LoopInv, InstancesFit, Instance, InstancesReleased, TasksRun, Held
<1>2. CASE ~ TasksRun
  <2>1. open = {}
    BY <1>2, NoneHeld DEF TasksRun
  <2> QED BY <1>2, <2>1 DEF InstancesReleased
<1> QED BY <1>1, <1>2

-----------------------------------------------------------------------------
(* Types.  What the invariant does not speak of: messages, images, tasks   *)
(* and their answers.                                                      *)
Shown == {"prompt", "reply", "tool", "image", "user"} \X Nat \X Nat
TaskStates == {"new", "created", "executed", "done", "failed", "kept"}
TaskAnswers == {"none", "error", "text", "image", "video"}
RecordsFit ==
  /\ image_data \in Seq(Nat \X Nat \X Nat) /\ messages \in Seq(Shown)
  /\ user_turns \in Nat /\ task \in Seq(TaskStates)
  /\ answer \in Seq(TaskAnswers \X Nat) /\ open \subseteq Nat \X Nat
  /\ state \in {"pending", "generating", "processing_tools", "interacting",
                "terminated", "raised"}

(* The answers of a turn as messages, and all that is shown of them.       *)
LEMMA ShownType ==
  ASSUME TypesFit
  PROVE  ShownMessages \in Seq(Shown)
<1>1. PICK c \in Nat : Running = 1 .. c
  BY RunningType
<1>2. /\ \A i \in 1 .. c : TokenOf(i) \in Shown /\ TokenOf(i) \in Token
  BY DEF TypesFit, TokenOf, Shown, Token
<1> DEFINE m == ToolMessages
<1>3. m \in [1 .. c -> Shown] /\ m \in [1 .. c -> Token]
  BY <1>1, <1>2 DEF ToolMessages
<1>4. m \in Seq(Shown) /\ m \in Seq(Token) /\ Len(m) = c
  BY <1>3, FunctionIsSeq
<1> DEFINE parts == [i \in 1 .. c |-> SubSeq(m, 1, i)]
<1>5. ShownMessages = FlattenSeq(parts)
  BY <1>1 DEF ShownMessages
<1> HIDE DEF m
<1>6. \A i \in 1 .. c : SubSeq(m, 1, i) \in Seq(Shown)
  <2> TAKE i \in 1 .. c
  <2>1. \A j \in 1 .. i : m[j] \in Shown
    BY <1>4, ElementOfSeq
  <2> QED BY <2>1, <1>4, SubSeqProperties
<1>7. parts \in Seq(Seq(Shown))
  <2>1. parts \in [1 .. c -> Seq(Shown)]
    BY <1>6
  <2> HIDE DEF parts
  <2> QED BY <2>1, FunctionIsSeq
<1> HIDE DEF parts
<1>8. FlattenSeq(parts) \in Seq(Shown)
  BY <1>7, FlattenType
<1> QED BY <1>5, <1>8

-----------------------------------------------------------------------------
(* Images.                                                                 *)

(* While a rollout goes on, the recorded images are those of the answers   *)
(* the tokens hold a place for.                                            *)
ImagesFit == ~ Ended => ImagePlaces(image_data) = PlacesOf(prompt_ids)

Image(token) == IF token[1] = "image" THEN << <<token[2], token[3]>> >> ELSE << >>
Images(tokens) == [i \in 1 .. Len(tokens) |-> Image(tokens[i])]

(* The places of tokens, one sequence for each token.                      *)
LEMMA ImagesType ==
  ASSUME NEW s \in Seq(Token)
  PROVE  /\ Images(s) \in Seq(Seq(Nat \X Nat)) /\ Len(Images(s)) = Len(s)
         /\ PlacesOf(s) = FlattenSeq(Images(s))
<1> DEFINE Y == Seq(Nat \X Nat)
           n == Len(s)
<1>1. n \in Nat /\ DOMAIN s = 1 .. n /\ \A i \in 1 .. n : s[i] \in Token
  BY LenProperties, ElementOfSeq
<1>2. PlacesOf(s) = FlattenSeq(Images(s))
  BY <1>1 DEF PlacesOf, Images, Image
<1> HIDE DEF n
<1>3. ASSUME NEW i \in 1 .. n PROVE Image(s[i]) \in Y
  <2>1. s[i][2] \in Nat /\ s[i][3] \in Nat
    BY <1>1 DEF Token
  <2> DEFINE x == <<s[i][2], s[i][3]>>
  <2>2. x \in Nat \X Nat
    BY <2>1
  <2> HIDE DEF x
  <2>3. << x >> \in Y /\ << >> \in Y
    BY <2>2
  <2> HIDE DEF Y
  <2> QED BY <2>3 DEF Image, x
<1> HIDE DEF Y
<1>4. Images(s) \in [1 .. n -> Y]
  BY <1>3 DEF Images, n
<1>5. Images(s) \in Seq(Y) /\ Len(Images(s)) = n
  BY <1>1, <1>4, FunctionIsSeq
<1> QED BY <1>2, <1>5 DEF Y, n

(* Tokens without images.                                                  *)
LEMMA NoImages ==
  ASSUME NEW s \in Seq(Token), \A i \in 1 .. Len(s) : s[i][1] # "image"
  PROVE  PlacesOf(s) = << >>
<1>1. Images(s) \in Seq(Seq(Nat \X Nat)) /\ Len(Images(s)) = Len(s)
      /\ PlacesOf(s) = FlattenSeq(Images(s))
  BY ImagesType
<1>2. \A i \in 1 .. Len(Images(s)) : Images(s)[i] = << >>
  BY <1>1 DEF Images, Image
<1>3. FlattenSeq(Images(s)) = << >>
  BY <1>1, <1>2, FlattenNothing
<1> QED BY <1>1, <1>3

(* Tokens that follow others bring their images behind those.              *)
LEMMA MoreImages ==
  ASSUME NEW s \in Seq(Token), NEW t \in Seq(Token)
  PROVE  PlacesOf(s \o t) = PlacesOf(s) \o PlacesOf(t)
<1> DEFINE u == s \o t
           m == Len(s)
           n == Len(t)
           x == Images(s)
           y == Images(t)
           z == Images(u)
           D == Nat \X Nat
           Y == Seq(D)
<1>1. /\ m \in Nat /\ n \in Nat /\ u \in Seq(Token) /\ Len(u) = m + n
      /\ \A i \in 1 .. m + n : u[i] = IF i <= m THEN s[i] ELSE t[i - m]
  BY LenProperties, ConcatProperties
<1>2. /\ x \in Seq(Y) /\ Len(x) = m /\ \A i \in 1 .. m : x[i] = Image(s[i])
      /\ y \in Seq(Y) /\ Len(y) = n /\ \A i \in 1 .. n : y[i] = Image(t[i])
  BY ImagesType DEF Images
<1>3. z \in Seq(Y) /\ Len(z) = m + n /\ \A i \in 1 .. m + n : z[i] = Image(u[i])
  <2>1. z \in Seq(Y) /\ Len(z) = Len(u)
    BY <1>1, ImagesType
  <2> QED BY <1>1, <2>1 DEF Images
<1>4. PlacesOf(s) = FlattenSeq(x) /\ PlacesOf(t) = FlattenSeq(y)
  BY ImagesType
<1>5. PlacesOf(u) = FlattenSeq(z)
  BY <1>1, ImagesType
<1> DEFINE v == x \o y
<1> HIDE DEF m, n, u, x, y, z, Y, D
<1>6. /\ v \in Seq(Y) /\ Len(v) = m + n
      /\ \A i \in 1 .. m + n : v[i] = IF i <= m THEN x[i] ELSE y[i - m]
  <2>1. /\ v \in Seq(Y) /\ Len(v) = Len(x) + Len(y)
        /\ \A i \in 1 .. Len(x) + Len(y) : v[i] = IF i <= Len(x) THEN x[i] ELSE y[i - Len(x)]
    BY <1>2, ConcatProperties
  <2> HIDE DEF v
  <2> QED BY <1>2, <2>1
<1> HIDE DEF v
<1>7. ASSUME NEW i \in 1 .. m + n PROVE z[i] = v[i]
  <2>1. CASE i <= m
    <3>1. i \in 1 .. m
      BY <1>1, <2>1
    <3>2. u[i] = s[i] /\ v[i] = x[i]
      BY <1>1, <1>6, <2>1, Zenon
    <3> QED BY <1>2, <1>3, <3>1, <3>2
  <2>2. CASE ~ (i <= m)
    <3>1. i - m \in 1 .. n
      BY <1>1, <2>2
    <3>2. u[i] = t[i - m] /\ v[i] = y[i - m]
      BY <1>1, <1>6, <2>2, Zenon
    <3> QED BY <1>2, <1>3, <3>1, <3>2
  <2> QED BY <2>1, <2>2
<1>8. z = v
  <2>1. Len(z) = Len(v) /\ \A i \in 1 .. Len(z) : z[i] = v[i]
    BY <1>3, <1>6, <1>7
  <2> QED BY <1>3, <1>6, <2>1, SeqEqual
<1>9. FlattenSeq(x \o y) = FlattenSeq(x) \o FlattenSeq(y)
  BY <1>2, FlattenConcat DEF Y
<1> QED BY <1>4, <1>5, <1>8, <1>9 DEF u, v

(* The system prompt before the answers is no image.                       *)
LEMMA AnswerImages ==
  ASSUME TypesFit
  PROVE  /\ ToolTokens \in Seq(Token)
         /\ PlacesOf(ToolTokens) = PlacesOf(ToolMessages)
<1>1. assistant_turns \in Nat
  BY DEF TypesFit
<1>2. PICK c \in Nat : Running = 1 .. c
  BY RunningType
<1>3. ToolMessages \in Seq(Token)
  <2>1. \A i \in 1 .. c : TokenOf(i) \in Token
    BY <1>1 DEF TokenOf, Token
  <2>2. ToolMessages \in [1 .. c -> Token]
    BY <1>2, <2>1 DEF ToolMessages
  <2> QED BY <2>2, FunctionIsSeq
<1> DEFINE S == << <<"system", assistant_turns, 0>> >>
           M == ToolMessages
<1>4. S \in Seq(Token) /\ Len(S) = 1 /\ S[1][1] = "system"
  BY <1>1 DEF Token
<1>5. PlacesOf(S) = << >> /\ PlacesOf(M) \in Seq(Nat \X Nat)
  <2>1. PlacesOf(S) = << >>
    <3> HIDE DEF S
    <3>1. \A i \in 1 .. Len(S) : S[i][1] # "image"
      BY <1>4
    <3> QED BY <1>4, <3>1, NoImages
  <2>2. PlacesOf(M) \in Seq(Nat \X Nat)
    BY <1>3, ImagesType, FlattenType
  <2> QED BY <2>1, <2>2
<1>6. ToolTokens = (IF HasProcessor THEN S ELSE << >>) \o M
  BY DEF ToolTokens
<1> HIDE DEF S, M
<1>7. CASE HasProcessor
  <2>1. ToolTokens = S \o M /\ M \in Seq(Token)
    BY <1>3, <1>6, <1>7 DEF M
  <2>2. PlacesOf(S \o M) = PlacesOf(S) \o PlacesOf(M)
    BY <1>4, <2>1, MoreImages
  <2>3. << >> \o PlacesOf(M) = PlacesOf(M)
    BY <1>5, ConcatEmptySeq
  <2>4. S \o M \in Seq(Token)
    BY <1>4, <2>1, ConcatProperties
  <2> QED BY <1>5, <2>1, <2>2, <2>3, <2>4 DEF M
<1>8. CASE ~ HasProcessor
  <2>1. ToolTokens = << >> \o M /\ M \in Seq(Token)
    BY <1>3, <1>6, <1>8 DEF M
  <2>2. << >> \o M = M
    BY <2>1, ConcatEmptySeq
  <2> QED BY <2>1, <2>2 DEF M
<1> QED BY <1>7, <1>8

(* The places of recorded images, and of more of them.                     *)
Recorded == Nat \X Nat \X Nat
LEMMA MorePlaces ==
  ASSUME NEW s \in Seq(Recorded), NEW t \in Seq(Recorded)
  PROVE  /\ ImagePlaces(s) \in Seq(Nat \X Nat)
         /\ ImagePlaces(s \o t) = ImagePlaces(s) \o ImagePlaces(t)
<1> DEFINE m == Len(s)
           n == Len(t)
           place(x) == << x[1], x[2] >>
           u == s \o t
<1>1. /\ m \in Nat /\ n \in Nat /\ u \in Seq(Recorded) /\ Len(u) = m + n
      /\ \A i \in 1 .. m + n : u[i] = IF i <= m THEN s[i] ELSE t[i - m]
  BY LenProperties, ConcatProperties
<1>2. \A x \in Recorded : place(x) \in Nat \X Nat
  BY DEF Recorded
<1> HIDE DEF place, u
<1>3. ASSUME NEW v \in Seq(Recorded)
      PROVE  /\ ImagePlaces(v) \in Seq(Nat \X Nat) /\ Len(ImagePlaces(v)) = Len(v)
             /\ \A i \in 1 .. Len(v) : ImagePlaces(v)[i] = place(v[i])
  <2> DEFINE k == Len(v)
  <2>1. k \in Nat /\ DOMAIN v = 1 .. k /\ \A i \in 1 .. k : v[i] \in Recorded
    BY LenProperties, ElementOfSeq
  <2>2. ImagePlaces(v) = [i \in 1 .. k |-> place(v[i])]
    BY <2>1 DEF ImagePlaces, place
  <2> HIDE DEF k
  <2>3. ImagePlaces(v) \in [1 .. k -> Nat \X Nat]
    BY <1>2, <2>1, <2>2
  <2>4. ImagePlaces(v) \in Seq(Nat \X Nat) /\ Len(ImagePlaces(v)) = k
    BY <2>1, <2>3, FunctionIsSeq
  <2> QED BY <2>2, <2>4 DEF k
<1> DEFINE a == ImagePlaces(s)
           b == ImagePlaces(t)
           w == ImagePlaces(u)
           P == Nat \X Nat
<1>4. /\ a \in Seq(P) /\ Len(a) = m /\ \A i \in 1 .. m : a[i] = place(s[i])
      /\ b \in Seq(P) /\ Len(b) = n /\ \A i \in 1 .. n : b[i] = place(t[i])
  BY <1>3
<1>5. w \in Seq(P) /\ Len(w) = m + n /\ \A i \in 1 .. m + n : w[i] = place(u[i])
  BY <1>1, <1>3
<1> HIDE DEF a, b, w, m, n, P
<1>6. /\ a \o b \in Seq(P) /\ Len(a \o b) = m + n
      /\ \A i \in 1 .. m + n : (a \o b)[i] = IF i <= m THEN a[i] ELSE b[i - m]
  BY <1>4, ConcatProperties
<1>7. ASSUME NEW i \in 1 .. m + n PROVE w[i] = (a \o b)[i]
  <2>1. CASE i <= m
    <3>1. i \in 1 .. m
      BY <1>1, <2>1
    <3>2. u[i] = s[i] /\ (a \o b)[i] = a[i]
      BY <1>1, <1>6, <2>1, Zenon
    <3> QED BY <1>4, <1>5, <3>1, <3>2
  <2>2. CASE ~ (i <= m)
    <3>1. i - m \in 1 .. n
      BY <1>1, <2>2
    <3>2. u[i] = t[i - m] /\ (a \o b)[i] = b[i - m]
      BY <1>1, <1>6, <2>2, Zenon
    <3> QED BY <1>4, <1>5, <3>1, <3>2
  <2> QED BY <2>1, <2>2
<1>8. w = a \o b
  BY <1>5, <1>6, <1>7, SeqEqual
<1> QED BY <1>4, <1>8 DEF a, b, w, u, P

(* Every answer with images is recorded once, where its token has a place. *)
ImagesOfAnswer(i) ==
  IF answer[i][1] = "image" THEN << <<assistant_turns, i, answer[i][2]>> >> ELSE << >>

LEMMA AnswersType ==
  ASSUME TypesFit, DOMAIN answer = Running, answer \in Seq(TaskAnswers \X Nat)
  PROVE  /\ [i \in Running |-> ImagesOfAnswer(i)] \in Seq(Seq(Recorded))
         /\ ImagesOfAnswers \in Seq(Recorded)
<1>1. PICK c \in Nat : Running = 1 .. c
  BY RunningType
<1> DEFINE A == [i \in Running |-> ImagesOfAnswer(i)]
           Y == Seq(Recorded)
<1>2. ASSUME NEW i \in 1 .. c PROVE ImagesOfAnswer(i) \in Y
  <2> DEFINE x == <<assistant_turns, i, answer[i][2]>>
  <2>1. answer[i] \in TaskAnswers \X Nat
    <3>1. i \in DOMAIN answer
      BY <1>1
    <3>2. answer \in [1 .. Len(answer) -> TaskAnswers \X Nat]
      BY LenProperties, ElementOfSeq
    <3> QED BY <3>1, <3>2
  <2>2. x \in Recorded
    <3>1. answer[i][2] \in Nat /\ assistant_turns \in Nat /\ i \in Nat
      BY <2>1 DEF TypesFit
    <3> QED BY <3>1 DEF Recorded
  <2>3. ImagesOfAnswer(i) = << x >> \/ ImagesOfAnswer(i) = << >>
    BY DEF ImagesOfAnswer
  <2> HIDE DEF x, Y
  <2>4. << x >> \in Y /\ << >> \in Y
    BY <2>2 DEF Y
  <2> QED BY <2>3, <2>4
<1>3. A \in [1 .. c -> Y]
  BY <1>1, <1>2
<1> HIDE DEF A, Y
<1>4. A \in Seq(Y)
  BY <1>3, FunctionIsSeq
<1>5. ImagesOfAnswers = FlattenSeq(A)
  BY DEF ImagesOfAnswers, ImagesOfAnswer, A
<1>6. FlattenSeq(A) \in Seq(Recorded)
  BY <1>4, FlattenType DEF Y
<1> QED BY <1>4, <1>5, <1>6 DEF A, Y

LEMMA AnswersHavePlaces ==
  ASSUME TypesFit, DOMAIN answer = Running, answer \in Seq(TaskAnswers \X Nat)
  PROVE  ImagePlaces(ImagesOfAnswers) = PlacesOf(ToolMessages)
<1>1. PICK c \in Nat : Running = 1 .. c
  BY RunningType
<1> DEFINE A == [i \in Running |-> ImagesOfAnswer(i)]
           B == Images(ToolMessages)
           D == Nat \X Nat
<1>2. A \in Seq(Seq(Recorded)) /\ Len(A) = c
  <2>1. A \in Seq(Seq(Recorded)) /\ DOMAIN A = 1 .. c
    BY <1>1, AnswersType
  <2> HIDE DEF A
  <2> QED BY <2>1
<1>3. ToolMessages \in Seq(Token) /\ Len(ToolMessages) = c
  <2>1. \A i \in 1 .. c : TokenOf(i) \in Token
    BY DEF TokenOf, Token, TypesFit
  <2>2. ToolMessages \in [1 .. c -> Token]
    BY <1>1, <2>1 DEF ToolMessages
  <2> QED BY <2>2, FunctionIsSeq
<1>4. B \in Seq(Seq(D)) /\ Len(B) = c /\ PlacesOf(ToolMessages) = FlattenSeq(B)
  BY <1>3, ImagesType
<1>5. ASSUME NEW i \in 1 .. c
      PROVE  B[i] = ImagePlaces(A[i]) /\ A[i] \in Seq(Recorded)
  <2>1. B[i] = Image(TokenOf(i)) /\ A[i] = ImagesOfAnswer(i)
    BY <1>1, <1>3 DEF Images, ToolMessages
  <2>2. A[i] \in Seq(Recorded)
    BY <1>2, ElementOfSeq
  <2>3. CASE answer[i][1] = "image"
    <3>1. B[i] = << <<assistant_turns, i>> >>
      BY <2>1, <2>3 DEF Image, TokenOf
    <3>2. A[i] = << <<assistant_turns, i, answer[i][2]>> >>
      BY <2>1, <2>3 DEF ImagesOfAnswer
    <3> DEFINE x == <<assistant_turns, i, answer[i][2]>>
               p == <<assistant_turns, i>>
    <3>3. x[1] = assistant_turns /\ x[2] = i
      OBVIOUS
    <3>4. << x[1], x[2] >> = p
      BY <3>3
    <3>5. A[i] = << x >> /\ B[i] = << p >>
      BY <3>1, <3>2
    <3> HIDE DEF x, p
    <3>6. DOMAIN << x >> = 1 .. 1 /\ << x >>[1] = x
      OBVIOUS
    <3>7. ImagePlaces(<< x >>) = [k \in 1 .. 1 |-> p]
      BY <3>4, <3>6 DEF ImagePlaces
    <3>8. << p >> = [k \in 1 .. 1 |-> p]
      OBVIOUS
    <3> QED BY <2>2, <3>5, <3>7, <3>8
  <2>4. CASE answer[i][1] # "image"
    <3>1. B[i] = << >> /\ A[i] = << >>
      BY <2>1, <2>4 DEF Image, TokenOf, ImagesOfAnswer
    <3>2. ImagePlaces(<< >>) = << >>
      BY DEF ImagePlaces
    <3> QED BY <2>2, <3>1, <3>2
  <2> QED BY <2>3, <2>4
<1> HIDE DEF A, B, D
<1>6. PICK f : Concatenations(f, Recorded, c, A) /\ FlattenSeq(A) = f[c]
  BY <1>2, FlattenByPrefixes
<1> DEFINE g == [k \in 0 .. c |-> ImagePlaces(f[k])]
<1>7. /\ f \in [0 .. c -> Seq(Recorded)] /\ f[0] = << >>
      /\ \A k \in 1 .. c : f[k] = f[k - 1] \o A[k]
  BY <1>6 DEF Concatenations
<1>8. Concatenations(g, D, c, B)
  <2>1. g \in [0 .. c -> Seq(D)]
    <3>1. \A k \in 0 .. c : ImagePlaces(f[k]) \in Seq(D)
      BY <1>7, MorePlaces DEF D
    <3> QED BY <3>1
  <2>2. g[0] = << >>
    <3>1. ImagePlaces(<< >>) = << >>
      BY DEF ImagePlaces
    <3> QED BY <1>1, <1>7, <3>1
  <2>3. ASSUME NEW k \in 1 .. c PROVE g[k] = g[k - 1] \o B[k]
    <3>1. k - 1 \in 0 .. c /\ k \in 0 .. c
      BY <1>1
    <3>2. f[k - 1] \in Seq(Recorded) /\ A[k] \in Seq(Recorded) /\ f[k] = f[k - 1] \o A[k]
      BY <1>5, <1>7, <3>1
    <3>3. ImagePlaces(f[k]) = ImagePlaces(f[k - 1]) \o ImagePlaces(A[k])
      BY <3>2, MorePlaces
    <3> QED BY <1>5, <3>1, <3>3
  <2> HIDE DEF g
  <2> QED BY <2>1, <2>2, <2>3 DEF Concatenations
<1>9. FlattenSeq(B) = g[c]
  <2> HIDE DEF g
  <2> QED BY <1>4, <1>8, FlattenIs
<1>10. ImagesOfAnswers = FlattenSeq(A)
  BY DEF ImagesOfAnswers, ImagesOfAnswer, A
<1> QED BY <1>1, <1>4, <1>6, <1>9, <1>10

-----------------------------------------------------------------------------
(* A step keeps the records, and the images where they belong.             *)

(* A place of a sequence, or none of its places, takes another member.     *)
LEMMA ExceptType ==
  ASSUME NEW S, NEW s \in Seq(S), NEW i, NEW x \in S
  PROVE  [s EXCEPT ![i] = x] \in Seq(S)
<1>1. s \in [1 .. Len(s) -> S] /\ Len(s) \in Nat
  BY LenProperties, ElementOfSeq
<1>2. [s EXCEPT ![i] = x] \in [1 .. Len(s) -> S]
  BY <1>1
<1> QED BY <1>1, <1>2, FunctionIsSeq

(* Handlers and tasks keep what is recorded well-formed.                   *)
LEMMA RecordsStep ==
  ASSUME LoopInv, RecordsFit, [LoopNext]_loopVars
  PROVE  RecordsFit'
<1> TypesFit
  BY DEF LoopInv
<1>1. CASE Pending
  BY <1>1 DEF Pending, RecordsFit, turnVars, taskVars
<1>2. ASSUME NEW n \in 1 .. MaxReply, NEW k \in 0 .. MaxCalls, Generated(n, k)
      PROVE  RecordsFit'
  <2>1. /\ UNCHANGED << image_data, user_turns, open >>
        /\ state' \in {"terminated", "processing_tools", "interacting"}
    BY <1>2 DEF Generated
  <2>2. messages' \in Seq(Shown)
    <3> DEFINE R == <<"reply", assistant_turns + 1, 0>>
    <3>1. R \in Shown
      BY DEF TypesFit, Shown
    <3>2. messages' \in {messages, Append(messages, R)}
      BY <1>2 DEF Generated
    <3> HIDE DEF R
    <3>3. messages \in Seq(Shown)
      BY DEF RecordsFit
    <3>4. Append(messages, R) \in Seq(Shown)
      BY <3>1, <3>3, AppendProperties
    <3> QED BY <3>2, <3>3, <3>4
  <2>3. task' \in Seq(TaskStates)
    <3> DEFINE c == Min({k, MaxParallelCalls})
    <3>1. c \in Nat
      BY ToolLoopAssumption, MinOfTwo
    <3>2. task' = Repeat("new", c) \/ task' = << >>
      BY <1>2 DEF Generated
    <3> HIDE DEF c
    <3>3. Repeat("new", c) \in Seq(TaskStates)
      BY <3>1, RepeatType DEF TaskStates
    <3>4. << >> \in Seq(TaskStates)
      BY EmptySeq
    <3> QED BY <3>2, <3>3, <3>4
  <2>4. answer' \in Seq(TaskAnswers \X Nat)
    <3>1. answer' = Repeat(NoAnswer, Len(task')) /\ Len(task') \in Nat
      BY <1>2, <2>3, LenProperties DEF Generated
    <3>2. NoAnswer \in TaskAnswers \X Nat
      BY DEF NoAnswer, TaskAnswers
    <3> QED BY <3>1, <3>2, RepeatType
  <2> QED BY <2>1, <2>2, <2>3, <2>4 DEF RecordsFit
<1>3. ASSUME NEW i \in Running, LoopTask(i) PROVE RecordsFit'
  <2>1. /\ UNCHANGED << state, textVars, turnVars >>
        /\ \E t \in TaskStates : task' = [task EXCEPT ![i] = t]
        /\ \/ answer' = answer
           \/ \E a \in TaskAnswers \X Nat : answer' = [answer EXCEPT ![i] = a]
        /\ open' \subseteq open \cup {Instance(i)}
    <3>1. CASE CallFails(i)
      <4>1. << "error", 0 >> \in TaskAnswers \X Nat /\ "done" \in TaskStates
        BY DEF TaskAnswers, TaskStates
      <4> QED BY <3>1, <4>1 DEF CallFails
    <3>2. CASE Create(i)
      BY <3>2 DEF Create, TaskStates
    <3>3. CASE Release(i)
      <4>1. WaysToEnd(i) \subseteq TaskStates
        BY DEF WaysToEnd, TaskStates
      <4> QED BY <3>3, <4>1 DEF Release
    <3>4. CASE ReleaseRaises(i)
      BY <3>4 DEF ReleaseRaises, TaskStates
    <3>5. ASSUME NEW result \in Results, Execute(i, result)
          PROVE  /\ UNCHANGED << state, textVars, turnVars, open >>
                 /\ task' = [task EXCEPT ![i] = "executed"]
                 /\ answer' = [answer EXCEPT ![i] = result]
                 /\ result \in TaskAnswers \X Nat
      BY <3>5, ToolLoopAssumption DEF Execute, Results, TaskAnswers
    <3>6. "executed" \in TaskStates
      BY DEF TaskStates
    <3> QED BY <1>3, <3>1, <3>2, <3>3, <3>4, <3>5, <3>6 DEF LoopTask
  <2>2. Instance(i) \in Nat \X Nat
    BY RunningType DEF TypesFit, Instance
  <2>3. task' \in Seq(TaskStates)
    <3>1. PICK t \in TaskStates : task' = [task EXCEPT ![i] = t]
      BY <2>1
    <3>2. task \in Seq(TaskStates)
      BY DEF RecordsFit
    <3>3. [task EXCEPT ![i] = t] \in Seq(TaskStates)
      BY <3>2, ExceptType
    <3> QED BY <3>1, <3>3
  <2>4. answer' \in Seq(TaskAnswers \X Nat)
    <3> DEFINE S == TaskAnswers \X Nat
    <3>1. answer \in Seq(S)
      BY DEF RecordsFit
    <3>2. answer' = answer \/ \E a \in S : answer' = [answer EXCEPT ![i] = a]
      BY <2>1
    <3> HIDE DEF S
    <3>3. \A a \in S : [answer EXCEPT ![i] = a] \in Seq(S)
      BY <3>1, ExceptType
    <3>4. answer' \in Seq(S)
      BY <3>1, <3>2, <3>3
    <3> QED BY <3>4 DEF S
  <2>5. open' \subseteq Nat \X Nat
    BY <2>1, <2>2 DEF RecordsFit
  <2> QED BY <2>1, <2>3, <2>4, <2>5 DEF RecordsFit, textVars, turnVars
<1>4. CASE ToolsDone
  <2>1. /\ messages' = messages \o ShownMessages
        /\ image_data' = image_data \o ImagesOfAnswers
        /\ user_turns' \in {user_turns, user_turns + 1}
        /\ state' \in {"terminated", "generating"}
        /\ UNCHANGED taskVars
    BY <1>4 DEF ToolsDone, RecordAnswers
  <2>2. messages' \in Seq(Shown)
    BY <2>1, ShownType, ConcatProperties DEF RecordsFit
  <2>4. image_data' \in Seq(Recorded)
    <3>1. DOMAIN answer = Running
      BY <1>4 DEF ToolsDone, AllAnswered, LoopInv, InstancesFit
    <3>2. image_data \in Seq(Recorded) /\ ImagesOfAnswers \in Seq(Recorded)
      BY <3>1, AnswersType DEF RecordsFit, Recorded
    <3> QED BY <2>1, <3>2, ConcatProperties
  <2>3. user_turns' \in Nat
    BY <2>1 DEF RecordsFit
  <2> QED BY <2>1, <2>2, <2>3, <2>4 DEF RecordsFit, Recorded, taskVars
<1>5. ASSUME NEW stop \in BOOLEAN, Interacted(stop) PROVE RecordsFit'
  <2> DEFINE U == <<"user", assistant_turns, 0>>
  <2>1. U \in Shown
    BY DEF TypesFit, Shown
  <2>2. messages' = Append(messages, U) /\ messages \in Seq(Shown)
    BY <1>5 DEF Interacted, RecordsFit
  <2> HIDE DEF U
  <2>3. messages' \in Seq(Shown)
    BY <2>1, <2>2, AppendProperties
  <2>4. /\ user_turns' = user_turns + 1 /\ state' \in {"terminated", "generating"}
        /\ UNCHANGED << image_data, taskVars >>
    BY <1>5 DEF Interacted
  <2> QED BY <2>3, <2>4 DEF RecordsFit, taskVars
<1>6. CASE CallRaises \/ ToolsRaise \/ GenerateRaises
  BY <1>6 DEF CallRaises, ToolsRaise, GenerateRaises, RecordsFit, textVars, turnVars, taskVars
<1>7. CASE UNCHANGED loopVars
  BY <1>7 DEF loopVars, RecordsFit, textVars, turnVars, taskVars
<1> QED BY <1>1, <1>2, <1>3, <1>4, <1>5, <1>6, <1>7 DEF LoopNext, LoopLocal, LoopGenerate

(* A step that adds tokens without images.                                 *)
LEMMA SameImages ==
  ASSUME TypesFit, ImagePlaces(image_data) = PlacesOf(prompt_ids), image_data' = image_data,
         NEW tokens \in Seq(Token), prompt_ids' = prompt_ids \o tokens,
         \A i \in 1 .. Len(tokens) : tokens[i][1] # "image"
  PROVE  ImagePlaces(image_data)' = PlacesOf(prompt_ids)'
<1>1. prompt_ids \in Seq(Token)
  BY DEF TypesFit
<1> DEFINE s == prompt_ids
<1>2. s \in Seq(Token) /\ prompt_ids' = s \o tokens /\ ImagePlaces(image_data)' = PlacesOf(s)
  BY <1>1 DEF ImagePlaces
<1> HIDE DEF s
<1>3. PlacesOf(tokens) = << >>
  BY NoImages
<1>4. PlacesOf(s \o tokens) = PlacesOf(s) \o << >>
  BY <1>2, <1>3, MoreImages
<1>5. PlacesOf(s) \in Seq(Nat \X Nat)
  BY <1>2, ImagesType, FlattenType
<1>6. PlacesOf(s \o tokens) = PlacesOf(s)
  BY <1>4, <1>5, ConcatEmptySeq
<1>7. PlacesOf(prompt_ids)' = PlacesOf(s \o tokens)
  BY <1>2 DEF PlacesOf
<1> QED BY <1>2, <1>6, <1>7

(* Replies, answers and what a user says keep the images in step.          *)
LEMMA ImagesStep ==
  LoopInv /\ RecordsFit /\ ImagesFit /\ [LoopNext]_loopVars => ImagesFit'
<1> SUFFICES ASSUME LoopInv, RecordsFit, ImagesFit, [LoopNext]_loopVars,
                    state' \notin {"terminated", "raised"}
             PROVE  ImagePlaces(image_data)' = PlacesOf(prompt_ids)'
  BY DEF ImagesFit, Ended
<1>1. TypesFit
  BY DEF LoopInv
<1>2. CASE UNCHANGED << state, prompt_ids, image_data >>
  <2>1. PlacesOf(prompt_ids)' = PlacesOf(prompt_ids) /\ ImagePlaces(image_data)' = ImagePlaces(image_data)
    BY <1>2 DEF PlacesOf, ImagePlaces
  <2> QED BY <1>2, <2>1 DEF ImagesFit, Ended
<1>3. CASE Pending
  <2> DEFINE P == << <<"prompt", 0, 0>> >>
  <2>1. P \in Seq(Token) /\ Len(P) = 1 /\ P[1][1] = "prompt"
    BY DEF Token
  <2>2. prompt_ids = << >> /\ prompt_ids' = P /\ image_data' = image_data
        /\ ImagePlaces(image_data) = PlacesOf(prompt_ids)
    BY <1>3 DEF Pending, LoopInv, OrderFits, ImagesFit, Ended
  <2> HIDE DEF P
  <2>3. << >> \o P = P
    BY <2>1, ConcatEmptySeq
  <2>4. \A i \in 1 .. Len(P) : P[i][1] # "image"
    BY <2>1
  <2>5. prompt_ids' = prompt_ids \o P
    BY <2>2, <2>3
  <2> QED BY <1>1, <2>1, <2>2, <2>4, <2>5, SameImages
<1>4. ASSUME NEW n \in 1 .. MaxReply, NEW k \in 0 .. MaxCalls, Generated(n, k)
      PROVE  ImagePlaces(image_data)' = PlacesOf(prompt_ids)'
  <2> DEFINE R == <<"reply", assistant_turns + 1, 0>>
             tokens == Repeat(R, n)
  <2>1. R \in Token /\ R[1] = "reply" /\ n \in Nat
    BY <1>1 DEF TypesFit, Token
  <2>2. prompt_ids' = prompt_ids \o tokens /\ image_data' = image_data
        /\ ImagePlaces(image_data) = PlacesOf(prompt_ids)
    BY <1>4 DEF Generated, ImagesFit, Ended
  <2> HIDE DEF R
  <2>3. tokens \in Seq(Token) /\ Len(tokens) = n /\ \A i \in 1 .. n : tokens[i] = R
    BY <2>1, RepeatType
  <2> HIDE DEF tokens
  <2>4. \A i \in 1 .. Len(tokens) : tokens[i][1] # "image"
    BY <2>1, <2>3
  <2> QED BY <1>1, <2>2, <2>3, <2>4, SameImages
<1>5. CASE ToolsDone
  <2>1. /\ prompt_ids' = prompt_ids \o ToolTokens
        /\ image_data' = image_data \o ImagesOfAnswers
        /\ ImagePlaces(image_data) = PlacesOf(prompt_ids)
        /\ DOMAIN answer = Running
    BY <1>5 DEF ToolsDone, AllAnswered, RecordAnswers, Extend, ImagesFit, Ended, LoopInv,
                InstancesFit
  <2>2. ToolTokens \in Seq(Token) /\ PlacesOf(ToolTokens) = PlacesOf(ToolMessages)
    BY <1>1, AnswerImages
  <2>3. /\ image_data \in Seq(Recorded) /\ ImagesOfAnswers \in Seq(Recorded)
        /\ ImagePlaces(ImagesOfAnswers) = PlacesOf(ToolMessages)
    BY <1>1, <2>1, AnswersType, AnswersHavePlaces DEF RecordsFit, Recorded
  <2> DEFINE s == prompt_ids
             t == ToolTokens
             a == image_data
             b == ImagesOfAnswers
  <2>4. s \in Seq(Token) /\ t \in Seq(Token)
    BY <1>1, <2>2 DEF TypesFit
  <2>5. prompt_ids' = s \o t /\ image_data' = a \o b
    BY <2>1
  <2>6. ImagePlaces(a) = PlacesOf(s) /\ ImagePlaces(b) = PlacesOf(t)
    BY <2>1, <2>2, <2>3
  <2>7. ImagePlaces(a \o b) = ImagePlaces(a) \o ImagePlaces(b)
    BY <2>3, MorePlaces
  <2> HIDE DEF s, t, a, b
  <2>8. PlacesOf(s \o t) = PlacesOf(s) \o PlacesOf(t)
    BY <2>4, MoreImages
  <2>9. PlacesOf(prompt_ids)' = PlacesOf(s \o t) /\ ImagePlaces(image_data)' = ImagePlaces(a \o b)
    BY <2>5 DEF PlacesOf, ImagePlaces
  <2> QED BY <2>6, <2>7, <2>8, <2>9
<1>6. ASSUME NEW stop, Interacted(stop)
      PROVE  ImagePlaces(image_data)' = PlacesOf(prompt_ids)'
  <2> DEFINE U == << <<"user", assistant_turns, 0>> >>
  <2>1. U \in Seq(Token) /\ Len(U) = 1 /\ U[1][1] = "user"
    BY <1>1 DEF TypesFit, Token
  <2>2. prompt_ids' = prompt_ids \o U /\ image_data' = image_data
        /\ ImagePlaces(image_data) = PlacesOf(prompt_ids)
    BY <1>6 DEF Interacted, Extend, ImagesFit, Ended
  <2> HIDE DEF U
  <2>3. \A i \in 1 .. Len(U) : U[i][1] # "image"
    BY <2>1
  <2> QED BY <1>1, <2>1, <2>2, <2>3, SameImages
<1>7. CASE \E i \in Running : LoopTask(i)
  <2>1. UNCHANGED << state, prompt_ids, image_data >>
    BY <1>7 DEF LoopTask, CallFails, Create, Execute, Release, ReleaseRaises, textVars
  <2> QED BY <1>2, <2>1
<1>8. CASE CallRaises \/ ToolsRaise \/ GenerateRaises
  BY <1>8 DEF CallRaises, ToolsRaise, GenerateRaises
<1>9. CASE UNCHANGED loopVars
  <2>1. UNCHANGED << state, prompt_ids, image_data >>
    BY <1>9 DEF loopVars, textVars
  <2> QED BY <1>2, <2>1
<1> QED BY <1>3, <1>4, <1>5, <1>6, <1>7, <1>8, <1>9 DEF LoopNext, LoopLocal, LoopGenerate

-----------------------------------------------------------------------------
(* The theorems.                                                           *)

(* What is recorded stays well-formed.                                     *)
LEMMA RecordsHold == LoopSpec => []RecordsFit
<1>1. LoopInit => RecordsFit
  <2> SUFFICES ASSUME LoopInit PROVE RecordsFit
    OBVIOUS
  <2> DEFINE P == <<"prompt", 0, 0>>
  <2>1. P \in Shown
    BY DEF Shown
  <2>2. messages = << P >>
    BY DEF LoopInit
  <2> HIDE DEF P
  <2>3. messages \in Seq(Shown)
    BY <2>1, <2>2
  <2> QED BY <2>3 DEF LoopInit, RecordsFit
<1> QED BY <1>1, RecordsStep, LoopInvariantHolds, PTL DEF LoopSpec

(* run: all along a rollout its variables have their types.                *)
THEOREM LoopTypeCorrect == LoopSpec => []LoopTypeOK
<1>1. LoopInv /\ RecordsFit => LoopTypeOK
  BY DEF LoopInv, TypesFit, RecordsFit, LoopTypeOK, Token, Shown, TaskStates, TaskAnswers
<1> QED BY <1>1, RecordsHold, LoopInvariantHolds, PTL

(* Whatever replies, tools and interactions a rollout went through, its    *)
(* response, mask and log-probabilities describe the same tokens.          *)
THEOREM MaskIsOfTheResponse == LoopSpec => []ResponseMatchesMask
<1> QED BY LoopInvariantHolds, IInvMask, PTL

(* The answers of concurrent tools follow their reply in call order.       *)
THEOREM AnswersFollowCalls == LoopSpec => []AnswersInCallOrder
<1> QED BY LoopInvariantHolds, IInvOrder, PTL

(* An open tool instance is of a call that has not come to its release, or *)
(* whose release raised, whichever call of a turn leaves run by whichever  *)
(* exception; and a rollout that goes on has left none behind.             *)
THEOREM ToolsAreReleased == LoopSpec => []InstancesReleased
<1> QED BY LoopInvariantHolds, IInvReleased, PTL

(* The lists of images a server is sent are those of the answers the       *)
(* tokens hold a place for, in the same order, although they are recorded  *)
(* before it is known whether the tokens fit: then no server is asked      *)
(* again.  How many images a list holds is not counted by its one place.   *)
THEOREM ImagesStayWithTokens == LoopSpec => []ImagesHavePlaces
<1>1. LoopInit => ImagesFit
  <2> SUFFICES ASSUME LoopInit PROVE ImagesFit
    OBVIOUS
  <2>1. prompt_ids = << >> /\ image_data = << >>
    BY DEF LoopInit
  <2> DEFINE e == << >>
  <2>2. e \in Seq(Token) /\ \A i \in 1 .. Len(e) : e[i][1] # "image"
    OBVIOUS
  <2> HIDE DEF e
  <2>3. PlacesOf(e) = << >>
    BY <2>2, NoImages
  <2>4. PlacesOf(<< >>) = << >> /\ ImagePlaces(<< >>) = << >>
    BY <2>3 DEF e, ImagePlaces
  <2> QED BY <2>1, <2>4 DEF ImagesFit
<1>2. ImagesFit => ImagesHavePlaces
  BY DEF ImagesFit, ImagesHavePlaces, Ended
<1> QED BY <1>1, <1>2, ImagesStep, RecordsHold, LoopInvariantHolds, PTL DEF LoopSpec

-----------------------------------------------------------------------------
(***************************************************************************)
(* ToolServing.                                                            *)
(***************************************************************************)

(* A reply that is being decoded is not complete yet.                      *)
DecodedFits == decoded \in 0 .. (MaxReply - 1)

LEMMA DecodedStays == DecodedFits /\ [ServingNext]_servingVars => DecodedFits'
<1> SUFFICES ASSUME DecodedFits, [ServingNext]_servingVars PROVE DecodedFits'
  OBVIOUS
<1>1. CASE UNCHANGED decoded
  BY <1>1 DEF DecodedFits
<1>2. CASE decoded' = 0
  BY <1>2, ToolLoopAssumption DEF DecodedFits
<1>3. CASE DecodeMore
  BY <1>3, ToolLoopAssumption DEF DecodedFits, DecodeMore
<1> QED
  BY <1>1, <1>2, <1>3
  DEF ServingNext, servingVars, Switch, Begin, LoopStep, LookUpLora, AddRequest,
      Reply, ReplyRaises

(* A step of the composition is a step of the rollout or leaves it alone.  *)
LEMMA StepOfTheLoop == DecodedFits /\ [ServingNext]_servingVars => [LoopNext]_loopVars
<1> SUFFICES ASSUME DecodedFits, [ServingNext]_servingVars PROVE [LoopNext]_loopVars
  OBVIOUS
<1>1. CASE ExecLocal /\ UNCHANGED << loopVars, request, decoded >>
  BY <1>1
<1>2. CASE Switch \/ LookUpLora \/ AddRequest \/ DecodeMore
  BY <1>2 DEF Switch, LookUpLora, AddRequest, DecodeMore
<1>3. CASE Begin
  BY <1>3 DEF Begin, LoopNext, LoopLocal
<1>4. CASE LoopStep
  BY <1>4 DEF LoopStep, LoopNext
<1>5. CASE ReplyRaises
  BY <1>5 DEF ReplyRaises, LoopNext
<1>6. CASE Reply
  <2>1. decoded + 1 \in 1 .. MaxReply
    BY ToolLoopAssumption DEF DecodedFits
  <2>2. LoopGenerate
    BY <1>6, <2>1 DEF Reply, LoopGenerate
  <2> QED BY <2>2 DEF LoopNext
<1>7. CASE UNCHANGED servingVars
  BY <1>7 DEF servingVars
<1> QED BY <1>1, <1>2, <1>3, <1>4, <1>5, <1>6, <1>7 DEF ServingNext

(* And so it is one of the executor.                                       *)
LEMMA StepOfTheExecutor == [ServingNext]_servingVars => [ExecNext]_execVars
<1> SUFFICES ASSUME [ServingNext]_servingVars PROVE [ExecNext]_execVars
  OBVIOUS
<1>1. CASE ExecLocal /\ UNCHANGED << loopVars, request, decoded >>
  BY <1>1 DEF ExecNext
<1>2. CASE Switch
  BY <1>2 DEF Switch, ExecNext
<1>3. CASE LookUpLora
  BY <1>3 DEF LookUpLora, ExecNext
<1>4. CASE AddRequest \/ DecodeMore
  BY <1>4 DEF AddRequest, DecodeMore, ExecNext
<1>5. CASE Begin \/ LoopStep \/ Reply \/ ReplyRaises
  BY <1>5 DEF Begin, LoopStep, Reply, ReplyRaises
<1>6. CASE UNCHANGED servingVars
  BY <1>6 DEF servingVars
<1> QED BY <1>1, <1>2, <1>3, <1>4, <1>5, <1>6 DEF ServingNext

ServingInv == DecodedFits /\ LoopInv /\ ExecInv

LEMMA ServingInvariants == ServingSpec => []ServingInv
<1>1. ServingInit => ServingInv
  BY LoopInitIInv, ExecInitIInv, ToolLoopAssumption
  DEF ServingInit, ServingInv, DecodedFits
<1>2. ServingInv /\ [ServingNext]_servingVars => ServingInv'
  BY DecodedStays, LoopNextIInv, ExecNextIInv, StepOfTheLoop, StepOfTheExecutor
  DEF ServingInv
<1> QED BY <1>1, <1>2, PTL DEF ServingSpec

-----------------------------------------------------------------------------
(* The theorems.                                                           *)

(* A rollout whose replies are decoded by a server that may fail is a      *)
(* rollout of ToolAgentLoop: a reply either comes whole or raises.         *)
THEOREM ServingImplementsLoop == ServingSpec => LoopSpec
<1>1. ServingInit => LoopInit
  BY DEF ServingInit
<1>2. ServingInv => DecodedFits
  BY DEF ServingInv
<1> QED BY <1>1, <1>2, StepOfTheLoop, ServingInvariants, PTL DEF ServingSpec, LoopSpec

(* The requests of rollouts drive the executor as its engine may.          *)
THEOREM ServingImplementsExecutor == ServingSpec => ExecSpec
<1>1. ServingInit => ExecInit
  BY DEF ServingInit
<1> QED BY <1>1, StepOfTheExecutor, PTL DEF ServingSpec, ExecSpec

(* With a real engine below it, a rollout's response matches its mask.     *)
THEOREM ServedMaskIsOfTheResponse == ServingSpec => []ResponseMatchesMask
<1>1. ServingInv => LoopInv
  BY DEF ServingInv
<1> QED BY <1>1, ServingInvariants, IInvMask, PTL

(* An engine is sent the lists of images its tokens hold places for.       *)
THEOREM ServedImagesStayWithTokens == ServingSpec => []ImagesHavePlaces
BY ServingImplementsLoop, ImagesStayWithTokens

(* With a real engine below it, answers of tools follow their calls.       *)
THEOREM ServedAnswersFollowCalls == ServingSpec => []AnswersInCallOrder
<1>1. ServingInv => LoopInv
  BY DEF ServingInv
<1> QED BY <1>1, ServingInvariants, IInvOrder, PTL

(* Whether the engine or a call of a tool raises, an open instance is of a *)
(* call before its release or whose release raised.                        *)
THEOREM ServedToolsAreReleased == ServingSpec => []InstancesReleased
<1>1. ServingInv => LoopInv
  BY DEF ServingInv
<1> QED BY <1>1, ServingInvariants, IInvReleased, PTL

(* The calls of rollouts read their own answers.                           *)
THEOREM ServedCallsReadTheirAnswers == ServingSpec => []AnswersOfTheCall
<1>1. ServingInv => ExecInv
  BY DEF ServingInv
<1> QED BY <1>1, ServingInvariants, IInvAnswers, PTL

(* The tensor parallel ranks under rollouts stay in step.                  *)
THEOREM ServedRanksStayInStep == ServingSpec => []RanksInStep
<1>1. ServingInv => ExecInv
  BY DEF ServingInv
<1> QED BY <1>1, ServingInvariants, IInvInStep, PTL

================================================================================
