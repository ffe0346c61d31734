---------------------------- MODULE HybridEngine ----------------------------
(***************************************************************************)
(* The hybrid engine: FSDP trainer and vLLM rollout engine in the same     *)
(* processes, taking turns on the same GPUs.                               *)
(*                                                                         *)
(*   fit -> AgentLoopManager.generate_sequences -> replicas' wake_up       *)
(*       -> servers' wake_up -> every rank's rollout_mode                  *)
(*   ... answers are generated ...                                         *)
(*       -> replicas' sleep -> servers' sleep -> every rank's trainer_mode *)
(*   fit -> update_actor                                                   *)
(*                                                                         *)
(* The weights travel to the engine by all-gathers over all ranks          *)
(* (full_tensor), so a rank gets through rollout_mode only with all others.*)
(***************************************************************************)
EXTENDS Integers, FiniteSets

CONSTANTS
  Replicas,      (* rollout replicas                                       *)
  Servers,       (* one server of a replica per node                       *)
  Ranks,         (* FSDP ranks, each of them one worker of one server      *)
  ReplicaOf,     (* the replica of a server                                *)
  ServerOf,      (* the server of a rank                                   *)
  HeadServers,   (* the servers with node_rank 0                           *)
  FreeCache,     (* rollout.free_cache_engine                              *)
  OffloadParam,  (* actor.fsdp_config.param_offload                        *)
  MaxVersion,    (* bound: updates                                         *)
  MaxRequests,   (* bound: requests of one batch                           *)
  Unsynced       (* the weights of an engine that never received any       *)

ASSUME EngineAssumption ==
  /\ IsFiniteSet(Ranks)
  /\ ReplicaOf \in [Servers -> Replicas]
  /\ ServerOf \in [Ranks -> Servers]
  /\ HeadServers \subseteq Servers
  /\ \A p \in Replicas : \E s \in HeadServers : ReplicaOf[s] = p
  /\ FreeCache \in BOOLEAN
  /\ OffloadParam \in BOOLEAN
  /\ MaxVersion \in Nat
  /\ MaxRequests \in Nat
  /\ Unsynced \notin Nat

VARIABLES
  driver,     (* what the training process is doing                        *)
  task,       (* what fit does next: "validate", "generate" or "update"    *)
  version,    (* number of updates in the actor's weights                  *)
  samples,    (* versions that contributed to the answers of the batch     *)
  unsent,     (* requests of the batch that are still to be sent           *)
  running,    (* requests in each replica's engine                         *)
  replica,    (* what each replica's sleep is doing                        *)
  server,     (* what each server is doing                                 *)
  rank,       (* where each rank is between trainer and rollout mode       *)
  weights,    (* version of the engine's weights on each rank              *)
  resident,   (* engine memory on each rank's GPU                          *)
  actorOnGpu, (* of the actor on each rank's GPU: the module's parameters  *)
              (* and the shards collected for the engine                   *)
  prefix,     (* versions the blocks of a replica's prefix cache are from  *)
  rng,        (* stream of the device's random generator                   *)
  trainRng,   (* torch_random_states                                       *)
  genRng      (* gen_random_states                                         *)

fitVars    == << driver, task, version, samples >>
engineVars == << unsent, running, prefix >>
rankVars   == << rank, weights, resident, actorOnGpu, rng, trainRng, genRng >>
vars == << fitVars, engineVars, replica, server, rankVars >>

RanksOf(p) == {r \in Ranks : ReplicaOf[ServerOf[r]] = p}
ServersOf(p) == {s \in Servers : ReplicaOf[s] = p}
RanksAt(s) == {r \in Ranks : ServerOf[r] = s}

(* What stays of the actor on a GPU that nobody trains on.                 *)
Parked == IF OffloadParam THEN {} ELSE {"module"}

(* _build_rollout and launch_servers are done, and the manager is about to *)
(* put the engines to sleep for the first time.  Building the engine left  *)
(* each device's generator where it happened to be ("built", a state of    *)
(* that rank's own); the state seeded for generation, equal on the ranks   *)
(* of a replica ("seeded"), is only remembered.                            *)
Init ==
  /\ driver = IF FreeCache THEN "sleeping" ELSE "trainer"
  /\ task = "validate"
  /\ version = 0
  /\ samples = {}
  /\ unsent = 0
  /\ running = [p \in Replicas |-> 0]
  /\ replica = [p \in Replicas |-> IF FreeCache THEN "drain" ELSE "idle"]
  /\ server = [s \in Servers |-> "idle"]
  /\ rank = [r \in Ranks |-> "rollout"]
  /\ \E w \in {0, Unsynced} : weights = [r \in Ranks |-> w]
  /\ resident = [r \in Ranks |-> {"weights", "kv_cache"}]
  /\ actorOnGpu = [r \in Ranks |-> Parked]
  /\ prefix = [p \in Replicas |-> {}]
  /\ rng = [r \in Ranks |-> "built"]
  /\ trainRng = [r \in Ranks |-> "train"]
  /\ genRng = [r \in Ranks |-> "seeded"]

-----------------------------------------------------------------------------
(* fit and AgentLoopManager.generate_sequences.                            *)

(* A batch of rollouts begins, for validation or for training.             *)
BeginGenerate ==
  /\ driver = "trainer"
  /\ task \in {"validate", "generate"}
  /\ version < MaxVersion
  /\ driver' = IF FreeCache THEN "waking" ELSE "rollout"
  /\ server' = [s \in Servers |-> IF FreeCache THEN "wake" ELSE "idle"]
  /\ samples' = {}
  /\ unsent' = MaxRequests
  /\ UNCHANGED << task, version, running, replica, prefix, rankVars >>

(* No validation is due before the next training step.                     *)
SkipValidation ==
  /\ driver = "trainer"
  /\ task = "validate"
  /\ task' = "generate"
  /\ UNCHANGED << driver, version, samples, engineVars, replica, server, rankVars >>

(* wake_up of every server has returned: the chunks are dispatched.        *)
Woken ==
  /\ driver = "waking"
  /\ \A s \in Servers : server[s] = "idle"
  /\ driver' = "rollout"
  /\ UNCHANGED << task, version, samples, engineVars, replica, server, rankVars >>

AfterRollouts == IF task = "validate" THEN "generate" ELSE "update"

(* Every agent loop worker has returned.                                   *)
RolloutsDone ==
  /\ driver = "rollout"
  /\ unsent = 0
  /\ \A p \in Replicas : running[p] = 0
  /\ driver' = IF FreeCache THEN "sleeping" ELSE "trainer"
  /\ replica' = [p \in Replicas |-> IF FreeCache THEN "drain" ELSE "idle"]
  /\ task' = AfterRollouts
  /\ UNCHANGED << version, samples, engineVars, server, rankVars >>

(* A worker raises: ray.get raises in fit, and nobody calls sleep.         *)
RolloutsFail ==
  /\ driver = "rollout"
  /\ driver' = "failed"
  /\ UNCHANGED << task, version, samples, engineVars, replica, server, rankVars >>

(* sleep of every replica has returned.                                    *)
Asleep ==
  /\ driver = "sleeping"
  /\ \A p \in Replicas : replica[p] = "idle"
  /\ driver' = "trainer"
  /\ UNCHANGED << task, version, samples, engineVars, replica, server, rankVars >>

(* update_actor loads the parameters, trains, and offloads them again.     *)
BeginUpdate ==
  /\ driver = "trainer"
  /\ task = "update"
  /\ driver' = "updating"
  /\ actorOnGpu' = [r \in Ranks |-> {"module"}]
  /\ UNCHANGED << task, version, samples, engineVars, replica, server,
                  rank, weights, resident, rng, trainRng, genRng >>

EndUpdate ==
  /\ driver = "updating"
  /\ driver' = "trainer"
  /\ task' = "validate"
  /\ version' = version + 1
  /\ samples' = {}
  /\ actorOnGpu' = [r \in Ranks |-> Parked]
  /\ UNCHANGED << engineVars, replica, server,
                  rank, weights, resident, rng, trainRng, genRng >>

(* The critic is still warming up, or no row has an advantage.             *)
SkipUpdate ==
  /\ driver = "trainer"
  /\ task = "update"
  /\ task' = "validate"
  /\ UNCHANGED << driver, version, samples, engineVars, replica, server, rankVars >>

-----------------------------------------------------------------------------
(* Requests in the engines.                                                *)

MoreToSend == unsent > 0

StartRequest(p) ==
  /\ driver = "rollout"
  /\ MoreToSend
  /\ unsent' = unsent - 1
  /\ running' = [running EXCEPT ![p] = @ + 1]
  /\ UNCHANGED << fitVars, prefix, replica, server, rankVars >>

(* An answer is computed by all ranks of the replica from their weights    *)
(* and from whatever blocks the prefix cache holds, and leaves new ones.   *)
FinishRequest(p) ==
  LET used == {weights[r] : r \in RanksOf(p)} \cup prefix[p] IN
  /\ driver = "rollout"
  /\ running[p] > 0
  /\ running' = [running EXCEPT ![p] = @ - 1]
  /\ samples' = samples \cup used
  /\ prefix' = [prefix EXCEPT ![p] = used]
  /\ UNCHANGED << driver, task, version, unsent, replica, server, rankVars >>

-----------------------------------------------------------------------------
(* Waking up: vLLMHttpServerBase.wake_up and rollout_mode of each rank.    *)

(* Slip: the servers wake up one after the other, each awaited.            *)
Slip_IssueWake(s) ==
  /\ server[s] = "wake"
  /\ \A t \in Servers : server[t] # "waking"
  /\ server' = [server EXCEPT ![s] = "waking"]
  /\ rank' = [r \in Ranks |-> IF ServerOf[r] = s THEN "wake" ELSE rank[r]]
  /\ UNCHANGED << fitVars, engineVars, replica, weights, resident, actorOnGpu,
                  rng, trainRng, genRng >>
(* A server calls wake_up of all of its workers before it awaits any.      *)
IssueWake(s) ==
  /\ server[s] = "wake"
  /\ server' = [server EXCEPT ![s] = "waking"]
  /\ rank' = [r \in Ranks |-> IF ServerOf[r] = s THEN "wake" ELSE rank[r]]
  /\ UNCHANGED << fitVars, engineVars, replica, weights, resident, actorOnGpu,
                  rng, trainRng, genRng >>

ServerWoken(s) ==
  /\ server[s] = "waking"
  /\ \A r \in RanksAt(s) : rank[r] = "rollout"
  /\ server' = [server EXCEPT ![s] = "idle"]
  /\ UNCHANGED << fitVars, engineVars, replica, rankVars >>

(* The parameters are loaded, and params keeps the shards of state_dict.   *)
CollectParams(r) ==
  /\ rank[r] = "wake"
  /\ rank' = [rank EXCEPT ![r] = "collected"]
  /\ actorOnGpu' = [actorOnGpu EXCEPT ![r] = {"module", "collected"}]
  /\ UNCHANGED << fitVars, engineVars, replica, server, weights, resident,
                  rng, trainRng, genRng >>

(* Slip: the module stays on the GPU.                                      *)
Slip_ResumeWeights(r) ==
  /\ rank[r] = "collected"
  /\ rank' = [rank EXCEPT ![r] = "gathering"]
  /\ resident' = [resident EXCEPT ![r] = @ \cup {"weights"}]
  /\ UNCHANGED << fitVars, engineVars, replica, server, weights, actorOnGpu,
                  rng, trainRng, genRng >>
(* The module is offloaded before the engine's weights are resumed; the    *)
(* collected shards are still referenced, and stay.                        *)
ResumeWeights(r) ==
  /\ rank[r] = "collected"
  /\ rank' = [rank EXCEPT ![r] = "gathering"]
  /\ actorOnGpu' = [actorOnGpu EXCEPT ![r] = Parked \cup {"collected"}]
  /\ resident' = [resident EXCEPT ![r] = @ \cup {"weights"}]
  /\ UNCHANGED << fitVars, engineVars, replica, server, weights,
                  rng, trainRng, genRng >>

(* All ranks take part in the all-gather of every parameter.               *)
AllGather == \A q \in Ranks : rank[q] \in {"gathering", "updated", "rollout"}

(* Slip: an engine that has weights keeps them (base_sync_done).           *)
Slip_UpdateWeights(r) ==
  /\ rank[r] = "gathering"
  /\ AllGather
  /\ rank' = [rank EXCEPT ![r] = "updated"]
  /\ weights' = [weights EXCEPT ![r] = IF @ = Unsynced THEN version ELSE @]
  /\ actorOnGpu' = [actorOnGpu EXCEPT ![r] = @ \ {"collected"}]
  /\ UNCHANGED << fitVars, engineVars, replica, server, resident, rng,
                  trainRng, genRng >>
(* The engine has the weights, and params is deleted.                      *)
UpdateWeights(r) ==
  /\ rank[r] = "gathering"
  /\ AllGather
  /\ rank' = [rank EXCEPT ![r] = "updated"]
  /\ weights' = [weights EXCEPT ![r] = version]
  /\ actorOnGpu' = [actorOnGpu EXCEPT ![r] = @ \ {"collected"}]
  /\ UNCHANGED << fitVars, engineVars, replica, server, resident, rng,
                  trainRng, genRng >>

(* The KV cache is resumed and the generators are exchanged.               *)
EnterRollout(r) ==
  /\ rank[r] = "updated"
  /\ rank' = [rank EXCEPT ![r] = "rollout"]
  /\ resident' = [resident EXCEPT ![r] = @ \cup {"kv_cache"}]
  /\ trainRng' = [trainRng EXCEPT ![r] = rng[r]]
  /\ rng' = [rng EXCEPT ![r] = genRng[r]]
  /\ UNCHANGED << fitVars, engineVars, replica, server, weights, actorOnGpu, genRng >>

-----------------------------------------------------------------------------
(* Going to sleep: vLLMReplica.sleep, vLLMHttpServerBase.sleep and         *)
(* trainer_mode of each rank.                                              *)

Drained(p) ==
  /\ replica[p] = "drain"
  /\ running[p] = 0
  /\ replica' = [replica EXCEPT ![p] = "sleeping"]
  /\ server' = [s \in Servers |-> IF ReplicaOf[s] = p THEN "sleep" ELSE server[s]]
  /\ UNCHANGED << fitVars, engineVars, rankVars >>

(* Slip: the prefix cache survives.                                        *)
Slip_IssueSleep(s) ==
  /\ server[s] = "sleep"
  /\ server' = [server EXCEPT ![s] = "releasing"]
  /\ rank' = [r \in Ranks |-> IF ServerOf[r] = s THEN "release" ELSE rank[r]]
  /\ UNCHANGED << fitVars, engineVars, replica, weights, resident,
                  actorOnGpu, rng, trainRng, genRng >>
(* The head server resets the prefix cache; then the workers are called.   *)
IssueSleep(s) ==
  /\ server[s] = "sleep"
  /\ server' = [server EXCEPT ![s] = "releasing"]
  /\ prefix' = [p \in Replicas |-> IF s \in HeadServers /\ ReplicaOf[s] = p
                                   THEN {} ELSE prefix[p]]
  /\ rank' = [r \in Ranks |-> IF ServerOf[r] = s THEN "release" ELSE rank[r]]
  /\ UNCHANGED << fitVars, unsent, running, replica, weights, resident,
                  actorOnGpu, rng, trainRng, genRng >>

(* Slip: the trainer's generator is not put back.                          *)
Slip_EnterTrainer(r) ==
  /\ rank[r] = "release"
  /\ rank' = [rank EXCEPT ![r] = "trainer"]
  /\ resident' = [resident EXCEPT ![r] = {}]
  /\ genRng' = [genRng EXCEPT ![r] = rng[r]]
  /\ UNCHANGED << fitVars, engineVars, replica, server, weights, actorOnGpu,
                  rng, trainRng >>
(* The engine's memory is released and the generators exchanged.           *)
EnterTrainer(r) ==
  /\ rank[r] = "release"
  /\ rank' = [rank EXCEPT ![r] = "trainer"]
  /\ resident' = [resident EXCEPT ![r] = {}]
  /\ genRng' = [genRng EXCEPT ![r] = rng[r]]
  /\ rng' = [rng EXCEPT ![r] = trainRng[r]]
  /\ UNCHANGED << fitVars, engineVars, replica, server, weights, actorOnGpu,
                  trainRng >>

ServerAsleep(s) ==
  /\ server[s] = "releasing"
  /\ \A r \in RanksAt(s) : rank[r] = "trainer"
  /\ server' = [server EXCEPT ![s] = "idle"]
  /\ UNCHANGED << fitVars, engineVars, replica, rankVars >>

ReplicaAsleep(p) ==
  /\ replica[p] = "sleeping"
  /\ \A s \in ServersOf(p) : server[s] = "idle"
  /\ replica' = [replica EXCEPT ![p] = "idle"]
  /\ UNCHANGED << fitVars, engineVars, server, rankVars >>

-----------------------------------------------------------------------------

Fit ==
  \/ BeginGenerate \/ SkipValidation \/ Woken \/ RolloutsDone \/ Asleep
  \/ BeginUpdate \/ EndUpdate \/ SkipUpdate
Engine == \E p \in Replicas : StartRequest(p) \/ FinishRequest(p)
WakeUp ==
  \/ \E s \in Servers : IssueWake(s) \/ ServerWoken(s)
  \/ \E r \in Ranks : CollectParams(r) \/ ResumeWeights(r) \/ UpdateWeights(r)
                      \/ EnterRollout(r)
Sleep ==
  \/ \E p \in Replicas : Drained(p) \/ ReplicaAsleep(p)
  \/ \E s \in Servers : IssueSleep(s) \/ ServerAsleep(s)
  \/ \E r \in Ranks : EnterTrainer(r)

Work == Fit \/ Engine \/ WakeUp \/ Sleep
Next == Work \/ RolloutsFail

Spec == Init /\ [][Next]_vars

(* Every process goes on as long as it can: the remote calls are executed, *)
(* the ranks run, and requests end because their length is bounded.        *)
FairSpec == Spec /\ WF_vars(Work)

-----------------------------------------------------------------------------
(* Types.                                                                  *)

Versions == Nat \cup {Unsynced}

TypeOK ==
  /\ driver \in {"trainer", "waking", "rollout", "sleeping", "updating", "failed"}
  /\ task \in {"validate", "generate", "update"}
  /\ version \in Nat
  /\ samples \subseteq Versions
  /\ unsent \in Nat
  /\ running \in [Replicas -> Nat]
  /\ replica \in [Replicas -> {"idle", "drain", "sleeping"}]
  /\ server \in [Servers -> {"idle", "wake", "waking", "sleep", "releasing"}]
  /\ rank \in [Ranks -> {"trainer", "wake", "collected", "gathering", "updated",
                         "rollout", "release"}]
  /\ weights \in [Ranks -> Versions]
  /\ resident \in [Ranks -> SUBSET {"weights", "kv_cache"}]
  /\ actorOnGpu \in [Ranks -> SUBSET {"module", "collected"}]
  /\ prefix \in [Replicas -> SUBSET Versions]
  /\ rng \in [Ranks -> {"train", "built", "seeded"}]
  /\ trainRng \in [Ranks -> {"train", "built", "seeded"}]
  /\ genRng \in [Ranks -> {"train", "built", "seeded"}]

-----------------------------------------------------------------------------
(* Properties.                                                             *)

(* The hybrid engine implements the promise of OnPolicyRollout: although   *)
(* weights travel rank by rank and cached prefixes are shared, every       *)
(* update learns from answers of the very weights it updates.              *)
Phase ==
  CASE driver \in {"waking", "rollout"} -> "serving"
    [] driver = "failed"               -> "failed"
    [] OTHER                           -> "training"
Policy == INSTANCE OnPolicyRollout WITH phase <- Phase
ImplementsOnPolicy == Policy!Spec

(* The same for the batch an update is about to learn from ("switch        *)
(* context with weight synchronization ... on-policy training").           *)
TrainsOnPolicy == driver = "updating" => samples \subseteq {version}

(* A request that runs finds its whole replica in rollout mode: weights    *)
(* and KV cache in memory, one version of the weights on all ranks, and no *)
(* cached prefix from older ones.                                          *)
RequestsFindEngine ==
  \A p \in Replicas : (running[p] > 0 /\ driver # "failed") =>
    /\ \A r \in RanksOf(p) :
         /\ rank[r] = "rollout"
         /\ resident[r] = {"weights", "kv_cache"}
         /\ prefix[p] \subseteq {weights[r]}
    /\ \A r, q \in RanksOf(p) : weights[r] = weights[q]

(* With offloading, no GPU ever has to hold all the claimants: the engine's *)
(* weights never meet the actor's module, its KV cache meets nothing of    *)
(* the actor, and the actor is updated with the engine's memory free.  The *)
(* shards collected for the engine do share the GPU with its weights while *)
(* the weights are handed over.                                            *)
GpuMemoryFits ==
  (OffloadParam /\ FreeCache) =>
    \A r \in Ranks :
      /\ "weights" \in resident[r] => "module" \notin actorOnGpu[r]
      /\ "kv_cache" \in resident[r] => actorOnGpu[r] = {}
      /\ driver = "updating" => resident[r] = {}

(* Generation never consumes the trainer's random stream and training only *)
(* that one, through every exchange of the generators on every rank.       *)
RandomStreamsApart ==
  FreeCache =>
    \A r \in Ranks :
      /\ driver = "updating" => rng[r] = "train"
      /\ driver = "rollout" => rng[r] # "train"

(* The claim of _build_rollout ("make sure all tp ranks have the same      *)
(* random states"): rollouts sample from the streams seeded there, which   *)
(* are equal on the ranks of a replica.                                    *)
GenerationIsSeeded ==
  driver = "rollout" => \A r \in Ranks : rng[r] = "seeded"

(* Handing the GPUs over never blocks, although every rank waits for all   *)
(* others in the all-gathers.                                              *)
HandoverCompletes ==
  /\ driver = "waking" ~> driver = "rollout"
  /\ driver = "sleeping" ~> driver = "trainer"

=============================================================================
