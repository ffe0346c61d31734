--------------------------- MODULE ServerManager ---------------------------
(***************************************************************************)
(* Routing of generation calls: AsyncLLMServerManager of                   *)
(* verl/experimental/agent_loop/agent_loop.py.                             *)
(*                                                                         *)
(* Every agent loop worker owns a manager.  A worker runs a batch of       *)
(* rollouts concurrently; each rollout calls generate once per turn under  *)
(* its own request id.  The manager sends the first call of an id to the   *)
(* server at the root of a heap of [count, (hash, server)] and remembers   *)
(* the choice in an LRU cache, so that later turns find the server that    *)
(* holds their prefix.                                                     *)
(***************************************************************************)
EXTENDS Integers, FiniteSets, Functions

CONSTANTS
  Managers,      (* one per agent loop worker                              *)
  Servers,       (* the server handles, the same for every manager         *)
  Requests,      (* request ids (uuid4): never used twice                  *)
  MaxCacheSize,  (* max_cache_size of the LRU cache                        *)
  BatchSize,     (* most rollouts in one batch of a worker                 *)
  MaxGenerates,  (* bound: generate calls of one rollout                   *)
  NoServer,
  NoManager

ASSUME ManagerAssumption ==
  /\ IsFiniteSet(Requests)
  /\ IsFiniteSet(Servers)
  /\ MaxCacheSize \in Nat \ {0}
  /\ BatchSize \in Nat \ {0}
  /\ MaxGenerates \in Nat
  /\ NoServer \notin Servers
  /\ NoManager \notin Managers

VARIABLES
  counts,    (* weighted_serveres: count of each server, per manager       *)
  heap,      (* weighted_serveres: the order of its entries                *)
  hash,      (* hash(server) as each manager's process computes it         *)
  owner,     (* the manager a request id was used with                     *)
  batch,     (* the ids of the rollouts each worker is running             *)
  home,      (* request_id_to_server                                       *)
  age,       (* LRU position: 0 is the latest used, MaxCacheSize is absent *)
  inflight,  (* the server working on a request, if any                    *)
  calls,     (* generate calls made under an id                            *)
  routes     (* history: every server an id was ever sent to               *)

vars == << counts, heap, hash, owner, batch, home, age, inflight, calls, routes >>

-----------------------------------------------------------------------------

(* Entries are [count, (hash, server)]: the count decides, then the hash.  *)
Injective(f) == \A s, t \in DOMAIN f : f[s] = f[t] => s = t
Precedes(count, h, s, t) ==
  \/ count[s] < count[t]
  \/ count[s] = count[t] /\ h[s] < h[t]

(* heapq keeps the entries in a list where none precedes its parent.  That *)
(* is all that is assumed of it: many such lists hold the same entries.    *)
Arrangements == Bijection(1..Cardinality(Servers), Servers)
IsHeap(list, count, h) ==
  \A i \in 2..Cardinality(Servers) : ~ Precedes(count, h, list[i], list[i \div 2])

Init ==
  /\ counts = [m \in Managers |-> [s \in Servers |-> 0]]
  /\ hash \in [Managers -> {f \in [Servers -> 1..Cardinality(Servers)] :
                              Injective(f)}]
  /\ heap \in [Managers -> Arrangements]
  /\ \A m \in Managers : IsHeap(heap[m], counts[m], hash[m])
  /\ owner = [r \in Requests |-> NoManager]
  /\ batch = [m \in Managers |-> {}]
  /\ home = [r \in Requests |-> NoServer]
  /\ age = [r \in Requests |-> MaxCacheSize]
  /\ inflight = [r \in Requests |-> NoServer]
  /\ calls = [r \in Requests |-> 0]
  /\ routes = [r \in Requests |-> {}]

(* The worker receives its next chunk: the rollouts of the last one have   *)
(* all returned (asyncio.gather) and every rollout draws a fresh id.       *)
NewBatch(m, rs) ==
  /\ \A r \in batch[m] : inflight[r] = NoServer
  /\ \A r \in rs : owner[r] = NoManager
  /\ Cardinality(rs) <= BatchSize
  /\ batch' = [batch EXCEPT ![m] = rs]
  /\ owner' = [r \in Requests |-> IF r \in rs THEN m ELSE owner[r]]
  /\ UNCHANGED << counts, heap, hash, home, age, inflight, calls, routes >>

(* A rollout of the batch calls generate while it awaits nothing else.     *)
MayCall(m, r) ==
  /\ r \in batch[m]
  /\ inflight[r] = NoServer
  /\ calls[r] < MaxGenerates

Send(r, s) ==
  /\ inflight' = [inflight EXCEPT ![r] = s]
  /\ calls' = [calls EXCEPT ![r] = @ + 1]
  /\ routes' = [routes EXCEPT ![r] = @ \cup {s}]

Cached(r) == age[r] < MaxCacheSize

(* Using id r makes it the latest of its manager's cache; the entries that *)
(* were used after it grow older by one, and the entry whose age reaches   *)
(* the cache size is evicted.                                              *)
(* Slip: the size is off by one.                                           *)
Slip_Touch(m, r, s) ==
  LET older(x) == x # r /\ owner[x] = m /\ age[x] < age[r]
      evicted(x) == older(x) /\ age[x] + 2 >= MaxCacheSize
  IN
  /\ age' = [x \in Requests |->
               IF x = r THEN 0
               ELSE IF evicted(x) THEN MaxCacheSize
               ELSE IF older(x) THEN age[x] + 1 ELSE age[x]]
  /\ home' = [x \in Requests |->
               IF x = r THEN s
               ELSE IF evicted(x) THEN NoServer ELSE home[x]]
Touch(m, r, s) ==
  LET older(x) == x # r /\ owner[x] = m /\ age[x] < age[r]
      evicted(x) == older(x) /\ age[x] + 1 = MaxCacheSize
  IN
  /\ age' = [x \in Requests |->
               IF x = r THEN 0
               ELSE IF older(x) THEN age[x] + 1 ELSE age[x]]
  /\ home' = [x \in Requests |->
               IF x = r THEN s
               ELSE IF evicted(x) THEN NoServer ELSE home[x]]

(* _choose_server of a remembered id: the lookup refreshes the LRU entry.  *)
CallKnown(m, r) ==
  /\ MayCall(m, r)
  /\ Cached(r)
  /\ Touch(m, r, home[r])
  /\ Send(r, home[r])
  /\ UNCHANGED << counts, heap, hash, owner, batch >>

(* heapreplace of the root by itself, after it was counted: it sinks to    *)
(* where it belongs now.                                                   *)
(* Slip: the heap is restored before the root is counted.                  *)
Slip_Heapreplace(m) ==
  \E list \in Arrangements :
    /\ IsHeap(list, counts[m], hash[m])
    /\ heap' = [heap EXCEPT ![m] = list]
Heapreplace(m) ==
  \E list \in Arrangements :
    /\ IsHeap(list, counts'[m], hash[m])
    /\ heap' = [heap EXCEPT ![m] = list]

(* _choose_server of an unknown (or evicted) id: the root of the heap is   *)
(* counted, sifted back into the heap, and remembered.                     *)
CallNew(m, r, s) ==
  /\ MayCall(m, r)
  /\ ~ Cached(r)
  /\ s = heap[m][1]
  /\ counts' = [counts EXCEPT ![m][s] = @ + 1]
  /\ Heapreplace(m)
  /\ Touch(m, r, s)
  /\ Send(r, s)
  /\ UNCHANGED << hash, owner, batch >>

(* The awaited server.generate returns or raises: nothing is uncounted.    *)
ServerAnswers(r) ==
  /\ inflight[r] # NoServer
  /\ inflight' = [inflight EXCEPT ![r] = NoServer]
  /\ UNCHANGED << counts, heap, hash, owner, batch, home, age, calls, routes >>

Next ==
  \/ \E m \in Managers, rs \in SUBSET Requests : NewBatch(m, rs)
  \/ \E m \in Managers, r \in Requests : CallKnown(m, r)
  \/ \E m \in Managers, r \in Requests, s \in Servers : CallNew(m, r, s)
  \/ \E r \in Requests : ServerAnswers(r)

Spec == Init /\ [][Next]_vars

-----------------------------------------------------------------------------

TypeOK ==
  /\ counts \in [Managers -> [Servers -> Nat]]
  /\ heap \in [Managers -> Arrangements]
  /\ hash \in [Managers -> [Servers -> Int]]
  /\ owner \in [Requests -> Managers \cup {NoManager}]
  /\ batch \in [Managers -> SUBSET Requests]
  /\ home \in [Requests -> Servers \cup {NoServer}]
  /\ age \in [Requests -> 0..MaxCacheSize]
  /\ inflight \in [Requests -> Servers \cup {NoServer}]
  /\ calls \in [Requests -> Nat]
  /\ routes \in [Requests -> SUBSET Servers]

(* A manager never counts one server more than once ahead of another:      *)
(* counting the entry at the root and sifting it back in place             *)
(* (_choose_server) leaves the root a least counted server, evictions and  *)
(* repeated assignments included.                                          *)
CountsBalanced ==
  \A m \in Managers, s, t \in Servers : counts[m][s] <= counts[m][t] + 1

(* Sticky session: while a rollout lives, all of its calls go to one       *)
(* server, although the cache is shared with every earlier batch and is    *)
(* bounded.  Holds when a batch fits into the cache.                       *)
StickyWithinBatch ==
  \A m \in Managers : \A r \in batch[m] : \A s, t \in routes[r] : s = t

(* "Least requests load balancing": the first call of a rollout goes to a  *)
(* server with the fewest requests it is working on.                       *)
Unanswered(s) == Cardinality({r \in Requests : inflight[r] = s})
LeastRequests ==
  [][\A m \in Managers, r \in Requests, s \in Servers :
       (CallNew(m, r, s) /\ calls[r] = 0) =>
         \A t \in Servers : Unanswered(s) <= Unanswered(t)]_vars

=============================================================================
