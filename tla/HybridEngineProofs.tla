------------------------- MODULE HybridEngineProofs -------------------------
(***************************************************************************)
(* Proofs about HybridEngine when the engines sleep between rollouts: the  *)
(* hand-over implements OnPolicyRollout, and requests, memory and random   *)
(* generators are kept apart, for every number of replicas, servers,       *)
(* ranks, requests and updates.                                            *)
(*                                                                         *)
(* The inductive invariant says where every server and rank can be while   *)
(* the training process is at a given point, and derives weights, caches,  *)
(* memory and generators from where the rank is.                           *)
(***************************************************************************)
EXTENDS HybridEngine, TLAPS

(* Replicas fall asleep only while the training process waits for it.      *)
ReplicaFits == driver # "sleeping" => \A p \in Replicas : replica[p] = "idle"

(* What a server may be doing.                                             *)
ServerFits ==
  \A s \in Servers :
    /\ driver = "waking" => server[s] \in {"wake", "waking", "idle"}
    /\ driver \in {"trainer", "updating", "rollout", "failed"} => server[s] = "idle"
    /\ driver = "sleeping" =>
         /\ replica[ReplicaOf[s]] \in {"drain", "idle"} => server[s] = "idle"
         /\ replica[ReplicaOf[s]] = "sleeping" =>
              server[s] \in {"sleep", "releasing", "idle"}

(* An idle server's ranks are in rollout mode up to the replica's sleep.   *)
Awake(s) ==
  \/ driver \in {"waking", "rollout", "failed"}
  \/ driver = "sleeping" /\ replica[ReplicaOf[s]] = "drain"

(* Where a rank may be, given its server.                                  *)
RankFits ==
  \A r \in Ranks :
    /\ server[ServerOf[r]] = "wake" => rank[r] = "trainer"
    /\ server[ServerOf[r]] = "waking" =>
         rank[r] \in {"wake", "collected", "gathering", "updated", "rollout"}
    /\ server[ServerOf[r]] = "sleep" => rank[r] = "rollout"
    /\ server[ServerOf[r]] = "releasing" => rank[r] \in {"release", "trainer"}
    /\ server[ServerOf[r]] = "idle" =>
         rank[r] = IF Awake(ServerOf[r]) THEN "rollout" ELSE "trainer"

(* A rank that is through update_weights has the actor's weights.          *)
WeightsFit ==
  \A r \in Ranks :
    /\ (driver = "waking" /\ rank[r] \in {"updated", "rollout"}) => weights[r] = version
    /\ driver = "rollout" => weights[r] = version

(* The cache is empty from the replica's reset to the next request.        *)
PrefixFits ==
  \A p \in Replicas :
    /\ driver \in {"trainer", "updating", "waking"} => prefix[p] = {}
    /\ driver = "rollout" => prefix[p] \subseteq {version}
    /\ (driver = "sleeping" /\ replica[p] = "idle") => prefix[p] = {}
    /\ (driver = "sleeping" /\ replica[p] = "sleeping") =>
         \A s \in HeadServers :
           (ReplicaOf[s] = p /\ server[s] # "sleep") => prefix[p] = {}

SamplesFit == samples \subseteq {version}

(* Requests run only while rollouts do.                                    *)
RunningFits ==
  driver \notin {"rollout", "failed"} => \A p \in Replicas : running[p] = 0

(* The engine's memory on a rank's GPU.                                    *)
ResidentFits ==
  \A r \in Ranks :
    /\ rank[r] \in {"trainer", "wake", "collected"} => resident[r] = {}
    /\ rank[r] \in {"gathering", "updated"} => resident[r] = {"weights"}
    /\ rank[r] \in {"rollout", "release"} => resident[r] = {"weights", "kv_cache"}

(* An offloaded actor is on the GPU while it is collected or updated, what *)
(* was collected of it until the engine has the weights.                   *)
ActorFits ==
  \A r \in Ranks :
    /\ "module" \in actorOnGpu[r] =>
         ~ OffloadParam \/ rank[r] = "collected" \/ driver = "updating"
    /\ "collected" \in actorOnGpu[r] => rank[r] \in {"collected", "gathering"}

(* The state a rank's generator was built with is the one it samples from. *)
StreamsFit ==
  \A r \in Ranks :
    /\ rank[r] \in {"rollout", "release"} => rng[r] = "built" /\ trainRng[r] = "train"
    /\ rank[r] \notin {"rollout", "release"} => rng[r] = "train" /\ genRng[r] = "built"

IInv ==
  /\ TypeOK /\ ReplicaFits /\ ServerFits /\ RankFits /\ WeightsFit
  /\ PrefixFits /\ SamplesFit /\ RunningFits /\ ResidentFits /\ ActorFits
  /\ StreamsFit

-----------------------------------------------------------------------------
(* Every action keeps the invariant.                                       *)

(* Waking begins with every rank in trainer mode.                          *)
LEMMA BeginGenerateIInv ==
  ASSUME IInv, FreeCache, BeginGenerate
  PROVE  IInv'
<1>1. TypeOK'
  BY EngineAssumption DEF IInv, TypeOK, BeginGenerate, rankVars
<1>2. ReplicaFits'
  BY DEF IInv, ReplicaFits, BeginGenerate
<1>3. ServerFits'
  BY DEF ServerFits, BeginGenerate
<1>4. RankFits'
  BY EngineAssumption DEF IInv, RankFits, ServerFits, Awake, BeginGenerate,
      rankVars
<1>5. WeightsFit'
  BY EngineAssumption DEF IInv, WeightsFit, RankFits, ServerFits, Awake,
      BeginGenerate, rankVars
<1>6. PrefixFits'
  BY DEF IInv, PrefixFits, BeginGenerate
<1>7. SamplesFit'
  BY DEF SamplesFit, BeginGenerate
<1>8. RunningFits'
  BY DEF IInv, RunningFits, BeginGenerate
<1>9. ActorFits'
  BY DEF IInv, ActorFits, BeginGenerate, rankVars
<1>10. ResidentFits' /\ StreamsFit'
  BY DEF IInv, ResidentFits, StreamsFit, BeginGenerate, rankVars
<1> QED BY <1>1, <1>2, <1>3, <1>4, <1>5, <1>6, <1>7, <1>8, <1>9, <1>10 DEF IInv

(* Skipping a validation moves nothing.                                    *)
LEMMA SkipValidationIInv ==
  ASSUME IInv, FreeCache, SkipValidation
  PROVE  IInv'
<1>1. TypeOK'
  BY DEF IInv, TypeOK, SkipValidation, engineVars, rankVars
<1>2. ReplicaFits' /\ ServerFits' /\ RankFits' /\ WeightsFit' /\ PrefixFits' /\
    SamplesFit' /\ RunningFits' /\ ResidentFits' /\ ActorFits' /\ StreamsFit'
  BY DEF IInv, ReplicaFits, ServerFits, RankFits, WeightsFit, PrefixFits,
      SamplesFit, RunningFits, ResidentFits, ActorFits, StreamsFit, Awake,
      SkipValidation, engineVars, rankVars
<1> QED BY <1>1, <1>2 DEF IInv

(* All servers are idle: every rank has its weights.                       *)
LEMMA WokenIInv ==
  ASSUME IInv, FreeCache, Woken
  PROVE  IInv'
<1>1. TypeOK'
  BY DEF IInv, TypeOK, Woken, engineVars, rankVars
<1>2. ReplicaFits'
  BY DEF IInv, ReplicaFits, Woken
<1>3. ServerFits'
  BY DEF ServerFits, Woken
<1>4. RankFits'
  BY DEF IInv, RankFits, Awake, Woken, rankVars
<1>5. WeightsFit'
  BY EngineAssumption DEF IInv, WeightsFit, RankFits, Awake, Woken, rankVars
<1>6. PrefixFits'
  BY DEF IInv, PrefixFits, Woken, engineVars
<1>7. RunningFits'
  BY DEF RunningFits, Woken
<1>8. ActorFits'
  BY DEF IInv, ActorFits, Woken, rankVars
<1>9. SamplesFit' /\ ResidentFits' /\ StreamsFit'
  BY DEF IInv, SamplesFit, ResidentFits, StreamsFit, Woken, rankVars
<1> QED BY <1>1, <1>2, <1>3, <1>4, <1>5, <1>6, <1>7, <1>8, <1>9 DEF IInv

(* The engines are idle when they are told to sleep.                       *)
LEMMA RolloutsDoneIInv ==
  ASSUME IInv, FreeCache, RolloutsDone
  PROVE  IInv'
<1>1. TypeOK'
  BY DEF IInv, TypeOK, RolloutsDone, AfterRollouts, engineVars, rankVars
<1>2. ReplicaFits'
  BY DEF ReplicaFits, RolloutsDone
<1>3. ServerFits'
  BY DEF IInv, ServerFits, RolloutsDone
<1>4. RankFits'
  BY EngineAssumption DEF IInv, RankFits, Awake, RolloutsDone, rankVars
<1>5. WeightsFit'
  BY DEF WeightsFit, RolloutsDone
<1>6. PrefixFits'
  BY DEF PrefixFits, RolloutsDone
<1>7. RunningFits'
  BY DEF RunningFits, RolloutsDone, engineVars
<1>8. ActorFits'
  BY DEF IInv, ActorFits, RolloutsDone, rankVars
<1>9. SamplesFit' /\ ResidentFits' /\ StreamsFit'
  BY DEF IInv, SamplesFit, ResidentFits, StreamsFit, RolloutsDone, rankVars
<1> QED BY <1>1, <1>2, <1>3, <1>4, <1>5, <1>6, <1>7, <1>8, <1>9 DEF IInv

(* A failed batch leaves the engines as they are.                          *)
LEMMA RolloutsFailIInv ==
  ASSUME IInv, FreeCache, RolloutsFail
  PROVE  IInv'
<1>1. TypeOK'
  BY DEF IInv, TypeOK, RolloutsFail, engineVars, rankVars
<1>2. ReplicaFits'
  BY DEF IInv, ReplicaFits, RolloutsFail
<1>3. ServerFits'
  BY DEF IInv, ServerFits, RolloutsFail
<1>4. RankFits'
  BY DEF IInv, RankFits, Awake, RolloutsFail, rankVars
<1>5. WeightsFit'
  BY DEF WeightsFit, RolloutsFail
<1>6. PrefixFits'
  BY DEF PrefixFits, RolloutsFail
<1>7. RunningFits'
  BY DEF RunningFits, RolloutsFail
<1>8. ActorFits'
  BY DEF IInv, ActorFits, RolloutsFail, rankVars
<1>9. SamplesFit' /\ ResidentFits' /\ StreamsFit'
  BY DEF IInv, SamplesFit, ResidentFits, StreamsFit, RolloutsFail, rankVars
<1> QED BY <1>1, <1>2, <1>3, <1>4, <1>5, <1>6, <1>7, <1>8, <1>9 DEF IInv

(* All replicas are idle: every rank is in trainer mode.                   *)
LEMMA AsleepIInv ==
  ASSUME IInv, FreeCache, Asleep
  PROVE  IInv'
<1>1. TypeOK'
  BY DEF IInv, TypeOK, Asleep, engineVars, rankVars
<1>2. ReplicaFits'
  BY DEF ReplicaFits, Asleep
<1>3. ServerFits'
  BY EngineAssumption DEF IInv, ServerFits, Asleep
<1>4. RankFits'
  BY EngineAssumption DEF IInv, RankFits, Awake, Asleep, rankVars
<1>5. WeightsFit'
  BY DEF WeightsFit, Asleep
<1>6. PrefixFits'
  BY DEF IInv, PrefixFits, Asleep, engineVars
<1>7. RunningFits'
  BY DEF IInv, RunningFits, Asleep, engineVars
<1>8. ActorFits'
  BY DEF IInv, ActorFits, Asleep, rankVars
<1>9. SamplesFit' /\ ResidentFits' /\ StreamsFit'
  BY DEF IInv, SamplesFit, ResidentFits, StreamsFit, Asleep, rankVars
<1> QED BY <1>1, <1>2, <1>3, <1>4, <1>5, <1>6, <1>7, <1>8, <1>9 DEF IInv

(* Updating begins with the engines asleep.                                *)
LEMMA BeginUpdateIInv ==
  ASSUME IInv, FreeCache, BeginUpdate
  PROVE  IInv'
<1>1. TypeOK'
  BY DEF IInv, TypeOK, BeginUpdate, engineVars
<1>2. ReplicaFits'
  BY DEF IInv, ReplicaFits, BeginUpdate
<1>3. ServerFits'
  BY DEF IInv, ServerFits, BeginUpdate
<1>4. RankFits'
  BY DEF IInv, RankFits, Awake, BeginUpdate
<1>5. WeightsFit'
  BY DEF WeightsFit, BeginUpdate
<1>6. PrefixFits'
  BY DEF IInv, PrefixFits, BeginUpdate, engineVars
<1>7. RunningFits'
  BY DEF IInv, RunningFits, BeginUpdate, engineVars
<1>8. ActorFits'
  BY DEF ActorFits, BeginUpdate
<1>9. SamplesFit' /\ ResidentFits' /\ StreamsFit'
  BY DEF IInv, SamplesFit, ResidentFits, StreamsFit, BeginUpdate
<1> QED BY <1>1, <1>2, <1>3, <1>4, <1>5, <1>6, <1>7, <1>8, <1>9 DEF IInv

(* A new version: no engine is awake to hold the old one.                  *)
LEMMA EndUpdateIInv ==
  ASSUME IInv, FreeCache, EndUpdate
  PROVE  IInv'
<1>1. TypeOK'
  BY DEF IInv, TypeOK, Parked, EndUpdate, engineVars
<1>2. ReplicaFits'
  BY DEF IInv, ReplicaFits, EndUpdate
<1>3. ServerFits'
  BY DEF IInv, ServerFits, EndUpdate
<1>4. RankFits'
  BY DEF IInv, RankFits, Awake, EndUpdate
<1>5. WeightsFit'
  BY DEF WeightsFit, EndUpdate
<1>6. PrefixFits'
  BY DEF IInv, PrefixFits, EndUpdate, engineVars
<1>7. SamplesFit'
  BY DEF SamplesFit, EndUpdate
<1>8. RunningFits'
  BY DEF IInv, RunningFits, EndUpdate, engineVars
<1>9. ActorFits'
  BY DEF ActorFits, Parked, EndUpdate
<1>10. ResidentFits' /\ StreamsFit'
  BY DEF IInv, ResidentFits, StreamsFit, EndUpdate
<1> QED BY <1>1, <1>2, <1>3, <1>4, <1>5, <1>6, <1>7, <1>8, <1>9, <1>10 DEF IInv

(* Skipping an update moves nothing.                                       *)
LEMMA SkipUpdateIInv ==
  ASSUME IInv, FreeCache, SkipUpdate
  PROVE  IInv'
<1>1. TypeOK'
  BY DEF IInv, TypeOK, SkipUpdate, engineVars, rankVars
<1>2. ReplicaFits' /\ ServerFits' /\ RankFits' /\ WeightsFit' /\ PrefixFits' /\
    SamplesFit' /\ RunningFits' /\ ResidentFits' /\ ActorFits' /\ StreamsFit'
  BY DEF IInv, ReplicaFits, ServerFits, RankFits, WeightsFit, PrefixFits,
      SamplesFit, RunningFits, ResidentFits, ActorFits, StreamsFit, Awake,
      SkipUpdate, engineVars, rankVars
<1> QED BY <1>1, <1>2 DEF IInv

(* A request joins a replica that is awake.                                *)
LEMMA StartRequestIInv ==
  ASSUME IInv, FreeCache, NEW p \in Replicas, StartRequest(p)
  PROVE  IInv'
<1>1. TypeOK'
  BY DEF IInv, TypeOK, StartRequest, MoreToSend, fitVars, rankVars
<1>2. RunningFits'
  BY DEF RunningFits, StartRequest, fitVars
<1>3. ReplicaFits' /\ ServerFits' /\ RankFits' /\ WeightsFit' /\ PrefixFits' /\
    SamplesFit' /\ ResidentFits' /\ ActorFits' /\ StreamsFit'
  BY DEF IInv, ReplicaFits, ServerFits, RankFits, WeightsFit, PrefixFits,
      SamplesFit, ResidentFits, ActorFits, StreamsFit, Awake, StartRequest,
      fitVars, rankVars
<1> QED BY <1>1, <1>2, <1>3 DEF IInv

(* Weights and cached prefixes are of the current version.                 *)
LEMMA FinishRequestIInv ==
  ASSUME IInv, FreeCache, NEW p \in Replicas, FinishRequest(p)
  PROVE  IInv'
<1>1. TypeOK'
  <2>1. {weights[r] : r \in RanksOf(p)} \cup prefix[p] \subseteq Versions
    BY DEF IInv, TypeOK, RanksOf
  <2>2. running' \in [Replicas -> Nat]
    BY DEF IInv, TypeOK, FinishRequest
  <2>3. samples' \subseteq Versions /\ prefix' \in [Replicas -> SUBSET
      Versions]
    BY <2>1 DEF IInv, TypeOK, FinishRequest
  <2> QED
    BY <2>3 DEF IInv, TypeOK, FinishRequest, rankVars
<1>2. PrefixFits'
  BY DEF IInv, PrefixFits, WeightsFit, RanksOf, FinishRequest
<1>3. SamplesFit'
  <2>1. {weights[r] : r \in RanksOf(p)} \subseteq {version}
    BY DEF IInv, WeightsFit, RanksOf, FinishRequest
  <2>2. prefix[p] \subseteq {version}
    BY DEF IInv, PrefixFits, FinishRequest
  <2> QED
    BY <2>1, <2>2 DEF IInv, SamplesFit, FinishRequest
<1>4. RunningFits'
  BY DEF RunningFits, FinishRequest
<1>5. ReplicaFits' /\ ServerFits' /\ RankFits' /\ WeightsFit' /\ ResidentFits'
    /\ ActorFits' /\ StreamsFit'
  BY DEF IInv, ReplicaFits, ServerFits, RankFits, WeightsFit, ResidentFits,
      ActorFits, StreamsFit, Awake, FinishRequest, rankVars
<1> QED BY <1>1, <1>2, <1>3, <1>4, <1>5 DEF IInv

(* A server calls its ranks.                                               *)
LEMMA IssueWakeIInv ==
  ASSUME IInv, FreeCache, NEW s \in Servers, IssueWake(s)
  PROVE  IInv'
<1>1. TypeOK'
  BY DEF IInv, TypeOK, IssueWake, fitVars, engineVars
<1>2. ServerFits'
  BY DEF IInv, ServerFits, IssueWake, fitVars
<1>3. RankFits'
  BY DEF IInv, TypeOK, RankFits, Awake, IssueWake, fitVars
<1>4. WeightsFit'
  BY DEF IInv, WeightsFit, IssueWake, fitVars
<1>5. PrefixFits'
  BY DEF IInv, PrefixFits, IssueWake, fitVars, engineVars
<1>6. ResidentFits'
  BY DEF IInv, ResidentFits, RankFits, IssueWake
<1>7. ActorFits'
  BY DEF IInv, ActorFits, RankFits, IssueWake, fitVars
<1>8. StreamsFit'
  BY DEF IInv, StreamsFit, RankFits, IssueWake
<1>9. ReplicaFits' /\ SamplesFit' /\ RunningFits'
  BY DEF IInv, ReplicaFits, SamplesFit, RunningFits, IssueWake, fitVars,
      engineVars
<1> QED BY <1>1, <1>2, <1>3, <1>4, <1>5, <1>6, <1>7, <1>8, <1>9 DEF IInv

(* A server has woken its ranks.                                           *)
LEMMA ServerWokenIInv ==
  ASSUME IInv, FreeCache, NEW s \in Servers, ServerWoken(s)
  PROVE  IInv'
<1>1. TypeOK'
  BY DEF IInv, TypeOK, ServerWoken, fitVars, engineVars, rankVars
<1>2. ServerFits'
  BY DEF IInv, ServerFits, ServerWoken, fitVars
<1>3. RankFits'
  <2>1. driver # "sleeping"
    <3>1. ReplicaOf[s] \in Replicas
      BY EngineAssumption
    <3>2. replica[ReplicaOf[s]] \in {"idle", "drain", "sleeping"}
      BY <3>1 DEF IInv, TypeOK
    <3> QED BY <3>2 DEF IInv, ServerFits, ServerWoken
  <2>2. driver = "waking"
    BY <2>1 DEF IInv, TypeOK, ServerFits, ServerWoken
  <2>3. ASSUME NEW r \in Ranks, ServerOf[r] = s
        PROVE  rank[r] = "rollout"
    BY <2>3 DEF ServerWoken, RanksAt
  <2> QED
    BY <2>2, <2>3 DEF IInv, RankFits, Awake, ServerWoken, fitVars, rankVars
<1>4. PrefixFits'
  BY DEF IInv, PrefixFits, ServerWoken, fitVars, engineVars
<1>5. ReplicaFits' /\ WeightsFit' /\ SamplesFit' /\ RunningFits' /\
    ResidentFits' /\ ActorFits' /\ StreamsFit'
  BY DEF IInv, ReplicaFits, WeightsFit, SamplesFit, RunningFits, ResidentFits,
      ActorFits, StreamsFit, ServerWoken, fitVars, engineVars, rankVars
<1> QED BY <1>1, <1>2, <1>3, <1>4, <1>5 DEF IInv

(* A rank collects the actor.                                              *)
LEMMA CollectParamsIInv ==
  ASSUME IInv, FreeCache, NEW r \in Ranks, CollectParams(r)
  PROVE  IInv'
<1>1. TypeOK'
  BY DEF IInv, TypeOK, CollectParams, fitVars, engineVars
<1>2. RankFits'
  BY DEF IInv, RankFits, Awake, CollectParams, fitVars
<1>3. WeightsFit'
  BY DEF IInv, WeightsFit, CollectParams, fitVars
<1>4. ResidentFits'
  BY DEF IInv, ResidentFits, CollectParams
<1>5. ActorFits'
  BY DEF IInv, TypeOK, ActorFits, CollectParams, fitVars
<1>6. StreamsFit'
  BY DEF IInv, StreamsFit, CollectParams
<1>7. ReplicaFits' /\ ServerFits' /\ PrefixFits' /\ SamplesFit' /\ RunningFits'
  BY DEF IInv, ReplicaFits, ServerFits, PrefixFits, SamplesFit, RunningFits,
      CollectParams, fitVars, engineVars
<1> QED BY <1>1, <1>2, <1>3, <1>4, <1>5, <1>6, <1>7 DEF IInv

(* A rank resumes the memory of its weights.                               *)
LEMMA ResumeWeightsIInv ==
  ASSUME IInv, FreeCache, NEW r \in Ranks, ResumeWeights(r)
  PROVE  IInv'
<1>1. TypeOK'
  BY DEF IInv, TypeOK, Parked, ResumeWeights, fitVars, engineVars
<1>2. RankFits'
  BY DEF IInv, RankFits, Awake, ResumeWeights, fitVars
<1>3. WeightsFit'
  BY DEF IInv, WeightsFit, ResumeWeights, fitVars
<1>4. ResidentFits'
  BY DEF IInv, TypeOK, ResidentFits, ResumeWeights
<1>5. ActorFits'
  BY DEF IInv, TypeOK, ActorFits, Parked, ResumeWeights, fitVars
<1>6. StreamsFit'
  BY DEF IInv, StreamsFit, ResumeWeights
<1>7. ReplicaFits' /\ ServerFits' /\ PrefixFits' /\ SamplesFit' /\ RunningFits'
  BY DEF IInv, ReplicaFits, ServerFits, PrefixFits, SamplesFit, RunningFits,
      ResumeWeights, fitVars, engineVars
<1> QED BY <1>1, <1>2, <1>3, <1>4, <1>5, <1>6, <1>7 DEF IInv

(* A rank receives the weights.                                            *)
LEMMA UpdateWeightsIInv ==
  ASSUME IInv, FreeCache, NEW r \in Ranks, UpdateWeights(r)
  PROVE  IInv'
<1>1. TypeOK'
  BY DEF IInv, TypeOK, Versions, UpdateWeights, fitVars, engineVars
<1>2. RankFits'
  BY DEF IInv, RankFits, Awake, UpdateWeights, fitVars
<1>3. WeightsFit'
  BY DEF IInv, TypeOK, WeightsFit, UpdateWeights, fitVars
<1>4. ResidentFits'
  BY DEF IInv, ResidentFits, UpdateWeights
<1>5. ActorFits'
  BY DEF IInv, TypeOK, ActorFits, UpdateWeights, fitVars
<1>6. StreamsFit'
  BY DEF IInv, StreamsFit, UpdateWeights
<1>7. ReplicaFits' /\ ServerFits' /\ PrefixFits' /\ SamplesFit' /\ RunningFits'
  BY DEF IInv, ReplicaFits, ServerFits, PrefixFits, SamplesFit, RunningFits,
      UpdateWeights, fitVars, engineVars
<1> QED BY <1>1, <1>2, <1>3, <1>4, <1>5, <1>6, <1>7 DEF IInv

(* A rank resumes its cache and its random stream.                         *)
LEMMA EnterRolloutIInv ==
  ASSUME IInv, FreeCache, NEW r \in Ranks, EnterRollout(r)
  PROVE  IInv'
<1>1. TypeOK'
  BY DEF IInv, TypeOK, EnterRollout, fitVars, engineVars
<1>2. RankFits'
  BY DEF IInv, RankFits, Awake, EnterRollout, fitVars
<1>3. WeightsFit'
  BY DEF IInv, WeightsFit, EnterRollout, fitVars
<1>4. ResidentFits'
  BY DEF IInv, TypeOK, ResidentFits, EnterRollout
<1>5. ActorFits'
  BY DEF IInv, ActorFits, EnterRollout, fitVars
<1>6. StreamsFit'
  BY DEF IInv, TypeOK, StreamsFit, EnterRollout
<1>7. ReplicaFits' /\ ServerFits' /\ PrefixFits' /\ SamplesFit' /\ RunningFits'
  BY DEF IInv, ReplicaFits, ServerFits, PrefixFits, SamplesFit, RunningFits,
      EnterRollout, fitVars, engineVars
<1> QED BY <1>1, <1>2, <1>3, <1>4, <1>5, <1>6, <1>7 DEF IInv

(* A replica has no request left.                                          *)
LEMMA DrainedIInv ==
  ASSUME IInv, FreeCache, NEW p \in Replicas, Drained(p)
  PROVE  IInv'
<1>1. TypeOK'
  BY DEF IInv, TypeOK, Drained, fitVars, engineVars, rankVars
<1>2. ReplicaFits'
  BY DEF IInv, ReplicaFits, Drained, fitVars
<1>3. ServerFits'
  BY DEF IInv, TypeOK, ServerFits, ReplicaFits, Drained, fitVars
<1>4. RankFits'
  BY EngineAssumption DEF IInv, RankFits, ServerFits, ReplicaFits, Awake,
      Drained, fitVars, rankVars
<1>5. PrefixFits'
  BY EngineAssumption DEF IInv, PrefixFits, Drained, fitVars, engineVars
<1>6. WeightsFit' /\ SamplesFit' /\ RunningFits' /\ ResidentFits' /\ ActorFits'
    /\ StreamsFit'
  BY DEF IInv, WeightsFit, SamplesFit, RunningFits, ResidentFits, ActorFits,
      StreamsFit, Drained, fitVars, engineVars, rankVars
<1> QED BY <1>1, <1>2, <1>3, <1>4, <1>5, <1>6 DEF IInv

(* A server resets the cache and calls its ranks.                          *)
LEMMA IssueSleepIInv ==
  ASSUME IInv, FreeCache, NEW s \in Servers, IssueSleep(s)
  PROVE  IInv'
<1>1. TypeOK'
  BY DEF IInv, TypeOK, IssueSleep, fitVars
<1>2. ServerFits'
  BY DEF IInv, ServerFits, IssueSleep, fitVars
<1>3. RankFits'
  BY DEF IInv, TypeOK, RankFits, Awake, IssueSleep, fitVars
<1>4. WeightsFit'
  BY DEF IInv, WeightsFit, IssueSleep, fitVars
<1>5. PrefixFits'
  BY DEF IInv, PrefixFits, IssueSleep, fitVars
<1>6. ResidentFits'
  BY DEF IInv, ResidentFits, RankFits, IssueSleep
<1>7. ActorFits'
  BY DEF IInv, ActorFits, RankFits, IssueSleep, fitVars
<1>8. StreamsFit'
  BY DEF IInv, StreamsFit, RankFits, IssueSleep
<1>9. ReplicaFits' /\ SamplesFit' /\ RunningFits'
  BY DEF IInv, ReplicaFits, SamplesFit, RunningFits, IssueSleep, fitVars
<1> QED BY <1>1, <1>2, <1>3, <1>4, <1>5, <1>6, <1>7, <1>8, <1>9 DEF IInv

(* A rank releases its memory and its random stream.                       *)
LEMMA EnterTrainerIInv ==
  ASSUME IInv, FreeCache, NEW r \in Ranks, EnterTrainer(r)
  PROVE  IInv'
<1>1. TypeOK'
  BY DEF IInv, TypeOK, EnterTrainer, fitVars, engineVars
<1>2. RankFits'
  BY DEF IInv, RankFits, Awake, EnterTrainer, fitVars
<1>3. WeightsFit'
  BY DEF IInv, WeightsFit, EnterTrainer, fitVars
<1>4. ResidentFits'
  BY DEF IInv, TypeOK, ResidentFits, EnterTrainer
<1>5. ActorFits'
  BY DEF IInv, ActorFits, EnterTrainer, fitVars
<1>6. StreamsFit'
  BY DEF IInv, TypeOK, StreamsFit, EnterTrainer
<1>7. ReplicaFits' /\ ServerFits' /\ PrefixFits' /\ SamplesFit' /\ RunningFits'
  BY DEF IInv, ReplicaFits, ServerFits, PrefixFits, SamplesFit, RunningFits,
      EnterTrainer, fitVars, engineVars
<1> QED BY <1>1, <1>2, <1>3, <1>4, <1>5, <1>6, <1>7 DEF IInv

(* A server has put its ranks to sleep.                                    *)
LEMMA ServerAsleepIInv ==
  ASSUME IInv, FreeCache, NEW s \in Servers, ServerAsleep(s)
  PROVE  IInv'
<1>1. TypeOK'
  BY DEF IInv, TypeOK, ServerAsleep, fitVars, engineVars, rankVars
<1>2. ServerFits'
  BY DEF IInv, ServerFits, ServerAsleep, fitVars
<1>3. RankFits'
  BY DEF IInv, RankFits, ServerFits, Awake, ServerAsleep, RanksAt, fitVars,
      rankVars
<1>4. PrefixFits'
  BY DEF IInv, PrefixFits, ServerAsleep, fitVars, engineVars
<1>5. ReplicaFits' /\ WeightsFit' /\ SamplesFit' /\ RunningFits' /\
    ResidentFits' /\ ActorFits' /\ StreamsFit'
  BY DEF IInv, ReplicaFits, WeightsFit, SamplesFit, RunningFits, ResidentFits,
      ActorFits, StreamsFit, ServerAsleep, fitVars, engineVars, rankVars
<1> QED BY <1>1, <1>2, <1>3, <1>4, <1>5 DEF IInv

(* A replica has put its servers to sleep.                                 *)
LEMMA ReplicaAsleepIInv ==
  ASSUME IInv, FreeCache, NEW p \in Replicas, ReplicaAsleep(p)
  PROVE  IInv'
<1>1. TypeOK'
  BY DEF IInv, TypeOK, ReplicaAsleep, fitVars, engineVars, rankVars
<1>2. ReplicaFits'
  BY DEF IInv, ReplicaFits, ReplicaAsleep, fitVars
<1>3. ServerFits'
  BY DEF IInv, ServerFits, ReplicaAsleep, ServersOf, fitVars
<1>4. RankFits'
  BY DEF IInv, RankFits, Awake, ReplicaAsleep, fitVars, rankVars
<1>5. PrefixFits'
  BY EngineAssumption DEF IInv, PrefixFits, ServersOf, ReplicaAsleep, fitVars,
      engineVars
<1>6. WeightsFit' /\ SamplesFit' /\ RunningFits' /\ ResidentFits' /\ ActorFits'
    /\ StreamsFit'
  BY DEF IInv, WeightsFit, SamplesFit, RunningFits, ResidentFits, ActorFits,
      StreamsFit, ReplicaAsleep, fitVars, engineVars, rankVars
<1> QED BY <1>1, <1>2, <1>3, <1>4, <1>5, <1>6 DEF IInv

-----------------------------------------------------------------------------
(* The invariant, and the properties that follow from it.                  *)

(* The engines start awake, about to be put to sleep.                      *)
LEMMA InitIInv ==
  ASSUME Init, FreeCache
  PROVE  IInv
<1>1. TypeOK
  BY EngineAssumption DEF Init, TypeOK, Parked, Versions
<1>2. ReplicaFits /\ ServerFits /\ RankFits
  BY EngineAssumption DEF Init, ReplicaFits, ServerFits, RankFits, Awake
<1>3. WeightsFit /\ PrefixFits /\ SamplesFit /\ RunningFits
  BY DEF Init, WeightsFit, PrefixFits, SamplesFit, RunningFits
<1>4. ResidentFits /\ ActorFits /\ StreamsFit
  BY DEF Init, ResidentFits, ActorFits, Parked, StreamsFit
<1> QED BY <1>1, <1>2, <1>3, <1>4 DEF IInv

(* A step that changes nothing keeps the invariant.                        *)
LEMMA StutterIInv ==
  ASSUME IInv, UNCHANGED vars
  PROVE  IInv'
<1>1. TypeOK'
  BY DEF IInv, TypeOK, vars, fitVars, engineVars, rankVars
<1>2. ReplicaFits' /\ ServerFits' /\ RankFits' /\ WeightsFit'
  BY DEF IInv, ReplicaFits, ServerFits, RankFits, WeightsFit, Awake, vars,
      fitVars, rankVars
<1>3. PrefixFits' /\ SamplesFit' /\ RunningFits' /\ ResidentFits'
  BY DEF IInv, PrefixFits, SamplesFit, RunningFits, ResidentFits, vars,
      fitVars, engineVars, rankVars
<1>4. ActorFits' /\ StreamsFit'
  BY DEF IInv, ActorFits, StreamsFit, vars, fitVars, rankVars
<1> QED BY <1>1, <1>2, <1>3, <1>4 DEF IInv

(* Every step of the system keeps the invariant.                           *)
LEMMA NextIInv ==
  ASSUME IInv, FreeCache, [Next]_vars
  PROVE  IInv'
<1>1. CASE Fit
  BY <1>1, BeginGenerateIInv, SkipValidationIInv, WokenIInv, RolloutsDoneIInv,
     AsleepIInv, BeginUpdateIInv, EndUpdateIInv, SkipUpdateIInv DEF Fit
<1>2. CASE Engine
  BY <1>2, StartRequestIInv, FinishRequestIInv DEF Engine
<1>3. CASE WakeUp
  BY <1>3, IssueWakeIInv, ServerWokenIInv, CollectParamsIInv,
     ResumeWeightsIInv, UpdateWeightsIInv, EnterRolloutIInv DEF WakeUp
<1>4. CASE Sleep
  BY <1>4, DrainedIInv, ReplicaAsleepIInv, IssueSleepIInv, ServerAsleepIInv,
     EnterTrainerIInv DEF Sleep
<1>5. CASE RolloutsFail
  BY <1>5, RolloutsFailIInv
<1>6. CASE UNCHANGED vars
  BY <1>6, StutterIInv
<1> QED BY <1>1, <1>2, <1>3, <1>4, <1>5, <1>6 DEF Next, Work

(* With sleeping engines, the hand-over stays where the invariant says.    *)
THEOREM HandoverInvariant ==
  ASSUME FreeCache
  PROVE  Spec => []IInv
<1>1. Init => IInv
  BY InitIInv
<1>2. IInv /\ [Next]_vars => IInv'
  BY NextIInv
<1> QED BY <1>1, <1>2, PTL DEF Spec

(* Every variable of the hand-over keeps its type.                         *)
THEOREM HandoverTypeOK ==
  ASSUME FreeCache
  PROVE  Spec => []TypeOK
<1>1. IInv => TypeOK
  BY DEF IInv
<1> QED BY <1>1, HandoverInvariant, PTL

(* A request never runs in an engine that is asleep, half awake, or of     *)
(* mixed versions, however the ranks of all replicas interleave.           *)
THEOREM HandoverRequestsFindEngine ==
  ASSUME FreeCache
  PROVE  Spec => []RequestsFindEngine
<1>1. IInv => RequestsFindEngine
  <2> SUFFICES ASSUME IInv, NEW p \in Replicas, running[p] > 0, driver # "failed"
               PROVE  /\ \A r \in RanksOf(p) :
                           /\ rank[r] = "rollout"
                           /\ resident[r] = {"weights", "kv_cache"}
                           /\ prefix[p] \subseteq {weights[r]}
                      /\ \A r, q \in RanksOf(p) : weights[r] = weights[q]
    BY DEF RequestsFindEngine
  <2>1. driver = "rollout"
    BY DEF IInv, RunningFits
  <2>2. \A r \in Ranks : rank[r] = "rollout" /\ weights[r] = version
    BY <2>1, EngineAssumption DEF IInv, ServerFits, RankFits, Awake, WeightsFit
  <2>3. \A r \in Ranks : resident[r] = {"weights", "kv_cache"}
    BY <2>2 DEF IInv, ResidentFits
  <2>4. prefix[p] \subseteq {version}
    BY <2>1 DEF IInv, PrefixFits
  <2> QED BY <2>2, <2>3, <2>4 DEF RanksOf
<1> QED BY <1>1, HandoverInvariant, PTL

(* With offloading, no GPU ever holds the actor's module and the engine,   *)
(* nor anything of the actor and the engine's KV cache, however the        *)
(* hand-overs of the ranks interleave.                                     *)
THEOREM HandoverGpuMemoryFits ==
  ASSUME FreeCache
  PROVE  Spec => []GpuMemoryFits
<1>1. IInv => GpuMemoryFits
  <2> SUFFICES ASSUME IInv, OffloadParam, NEW r \in Ranks
               PROVE  /\ "weights" \in resident[r] => "module" \notin actorOnGpu[r]
                      /\ "kv_cache" \in resident[r] => actorOnGpu[r] = {}
                      /\ driver = "updating" => resident[r] = {}
    BY DEF GpuMemoryFits
  <2>1. driver = "updating" => resident[r] = {}
    BY EngineAssumption DEF IInv, ServerFits, RankFits, Awake, ResidentFits
  <2>2. "weights" \in resident[r] =>
          rank[r] \in {"gathering", "updated", "rollout", "release"}
    BY DEF IInv, TypeOK, ResidentFits
  <2>3. "weights" \in resident[r] => "module" \notin actorOnGpu[r]
    BY <2>1, <2>2 DEF IInv, ActorFits
  <2>4. "kv_cache" \in resident[r] => actorOnGpu[r] = {}
    <3>1. "kv_cache" \in resident[r] => rank[r] \in {"rollout", "release"}
      BY DEF IInv, TypeOK, ResidentFits
    <3>2. "kv_cache" \in resident[r] => "weights" \in resident[r]
      BY <3>1 DEF IInv, ResidentFits
    <3>3. actorOnGpu[r] \subseteq {"module", "collected"}
      BY DEF IInv, TypeOK
    <3> QED BY <2>3, <3>1, <3>2, <3>3 DEF IInv, ActorFits
  <2> QED BY <2>1, <2>3, <2>4
<1> QED BY <1>1, HandoverInvariant, PTL

(* Rollouts and training draw from different random streams.               *)
THEOREM HandoverRandomStreamsApart ==
  ASSUME FreeCache
  PROVE  Spec => []RandomStreamsApart
<1>1. IInv => RandomStreamsApart
  <2> SUFFICES ASSUME IInv
               PROVE  \A r \in Ranks :
                        /\ driver = "updating" => rng[r] = "train"
                        /\ driver = "rollout" => rng[r] = "built"
    BY DEF RandomStreamsApart
  <2>1. driver = "updating" => \A r \in Ranks : rank[r] = "trainer"
    BY EngineAssumption DEF IInv, ServerFits, RankFits, Awake
  <2>2. driver = "rollout" => \A r \in Ranks : rank[r] = "rollout"
    BY EngineAssumption DEF IInv, ServerFits, RankFits, Awake
  <2> QED BY <2>1, <2>2 DEF IInv, StreamsFit
<1> QED BY <1>1, HandoverInvariant, PTL

-----------------------------------------------------------------------------
(* Refinement.                                                             *)

(* An answer of weights and cached prefixes of one version is an Answer.   *)
LEMMA FinishRequestAnswers ==
  ASSUME IInv, NEW p \in Replicas, FinishRequest(p)
  PROVE  Policy!Answer \/ UNCHANGED Policy!vars
<1>1. {weights[r] : r \in RanksOf(p)} \subseteq {version}
  BY DEF IInv, WeightsFit, RanksOf, FinishRequest
<1>2. prefix[p] \subseteq {version} /\ samples \subseteq {version}
  BY DEF IInv, PrefixFits, SamplesFit, FinishRequest
<1>3. samples' = samples \/ samples' = {version}
  BY <1>1, <1>2 DEF FinishRequest
<1>4. Phase = "serving" /\ Phase' = Phase /\ version' = version
  BY DEF FinishRequest, Phase
<1> QED BY <1>3, <1>4 DEF Policy!Answer, Policy!vars

(* What the training process does is a step of the promise.                *)
LEMMA FitSteps ==
  ASSUME IInv, FreeCache, Fit
  PROVE  Policy!Next \/ UNCHANGED Policy!vars
<1>1. CASE BeginGenerate
  BY <1>1 DEF BeginGenerate, Phase, Policy!Open, Policy!Next
<1>2. CASE RolloutsDone
  BY <1>2 DEF RolloutsDone, Phase, Policy!Close, Policy!Next
<1>3. CASE EndUpdate
  BY <1>3 DEF IInv, SamplesFit, EndUpdate, Phase, Policy!Update, Policy!Next
<1>4. CASE SkipValidation \/ Woken \/ Asleep \/ BeginUpdate \/ SkipUpdate
  BY <1>4 DEF SkipValidation, Woken, Asleep, BeginUpdate, SkipUpdate, Phase,
              Policy!vars
<1> QED BY <1>1, <1>2, <1>3, <1>4 DEF Fit

(* What servers and ranks do while they wake up or fall asleep is hidden.  *)
LEMMA HandoverStutters ==
  ASSUME WakeUp \/ Sleep
  PROVE  UNCHANGED Policy!vars
<1>1. UNCHANGED fitVars
  BY DEF WakeUp, Sleep, IssueWake, ServerWoken, CollectParams, ResumeWeights,
         UpdateWeights, EnterRollout, Drained, ReplicaAsleep, IssueSleep,
         ServerAsleep, EnterTrainer
<1> QED BY <1>1 DEF fitVars, Phase, Policy!vars

(* The hybrid engine implements OnPolicyRollout: for any number of ranks   *)
(* and any interleaving of theirs, an update learns only from answers of   *)
(* the weights it starts from.                                             *)
THEOREM HandoverImplementsOnPolicy ==
  ASSUME FreeCache
  PROVE  Spec => ImplementsOnPolicy
<1>1. Init => Policy!Init
  BY DEF Init, Phase, Policy!Init
<1>2. IInv /\ [Next]_vars => [Policy!Next]_(Policy!vars)
  <2> SUFFICES ASSUME IInv, [Next]_vars
               PROVE  Policy!Next \/ UNCHANGED Policy!vars
    OBVIOUS
  <2>1. CASE Fit
    BY <2>1, FitSteps
  <2>2. CASE Engine
    <3>1. PICK p \in Replicas : StartRequest(p) \/ FinishRequest(p)
      BY <2>2 DEF Engine
    <3>2. CASE StartRequest(p)
      BY <3>2 DEF StartRequest, fitVars, Phase, Policy!vars
    <3>3. CASE FinishRequest(p)
      BY <3>3, FinishRequestAnswers DEF Policy!Next
    <3> QED BY <3>1, <3>2, <3>3
  <2>3. CASE WakeUp \/ Sleep
    BY <2>3, HandoverStutters
  <2>4. CASE RolloutsFail
    BY <2>4 DEF RolloutsFail, Phase, Policy!Fail, Policy!Next
  <2>5. CASE UNCHANGED vars
    BY <2>5 DEF vars, fitVars, Phase, Policy!vars
  <2> QED BY <2>1, <2>2, <2>3, <2>4, <2>5 DEF Next, Work
<1> QED BY <1>1, <1>2, HandoverInvariant, PTL DEF Spec, ImplementsOnPolicy, Policy!Spec

=============================================================================
