----------------------------- MODULE ToolServing -----------------------------
(***************************************************************************)
(* A rollout of ToolAgentLoop served by one vLLM server: every reply takes *)
(* one call of the server's executor per token, and the tools of a reply   *)
(* run while the engine is idle.  A worker of the server may fail at any   *)
(* call.                                                                   *)
(***************************************************************************)
EXTENDS ToolAgentLoop, VllmExecutor

VARIABLES
  request,   (* what vLLMHttpServerBase.generate is doing                  *)
  decoded    (* tokens of the reply so far                                 *)

servingVars == << loopVars, execVars, request, decoded >>

ServingInit ==
  /\ LoopInit
  /\ ExecInit
  /\ request = "none"
  /\ decoded = 0

(* The call the server waits for is over, and how.                         *)
Returned(m) == ~ calling /\ method = m /\ outcome = "returned"
Raised(m) == ~ calling /\ method = m /\ outcome = "raised"

(* A manager puts the engine to sleep when it is made and wakes it up      *)
(* before the rollouts, if free_cache_engine is set.                       *)
Switch ==
  /\ state = "pending"
  /\ outcome = "returned"
  /\ SwitchEngine
  /\ UNCHANGED << loopVars, request, decoded >>

(* The server runs, and no call made before the rollouts raised.           *)
Begin ==
  /\ engine = "ready"
  /\ outcome = "returned"
  /\ Pending
  /\ UNCHANGED << execVars, request, decoded >>

LoopStep ==
  /\ state # "pending"
  /\ LoopLocal
  /\ UNCHANGED << execVars, request, decoded >>

(* generate: the LoRA is looked up, then the engine takes a step for each  *)
(* token until the reply is complete.                                      *)
LookUpLora ==
  /\ state = "generating"
  /\ request = "none"
  /\ ListLoras
  /\ request' = "listing"
  /\ UNCHANGED << loopVars, decoded >>

AddRequest ==
  /\ state = "generating"
  /\ \/ request = "none" /\ ~ LoadLora
     \/ request = "listing" /\ Returned("list_loras")
  /\ Step
  /\ request' = "decoding"
  /\ UNCHANGED << loopVars, decoded >>

DecodeMore ==
  /\ request = "decoding"
  /\ Returned("execute_model")
  /\ decoded + 1 < MaxReply
  /\ Step
  /\ decoded' = decoded + 1
  /\ UNCHANGED << loopVars, request >>

Reply ==
  /\ request = "decoding"
  /\ Returned("execute_model")
  /\ \E k \in 0 .. MaxCalls : Generated(decoded + 1, k)
  /\ request' = "none"
  /\ decoded' = 0
  /\ UNCHANGED execVars

ReplyRaises ==
  /\ \/ request = "listing" /\ Raised("list_loras")
     \/ request = "decoding" /\ Raised("execute_model")
  /\ GenerateRaises
  /\ request' = "none"
  /\ decoded' = 0
  /\ UNCHANGED execVars

ServingNext ==
  \/ ExecLocal /\ UNCHANGED << loopVars, request, decoded >>
  \/ Switch
  \/ Begin
  \/ LoopStep
  \/ LookUpLora
  \/ AddRequest
  \/ DecodeMore
  \/ Reply
  \/ ReplyRaises

(* The rollout, its tools and the processes of the server go on as long as *)
(* they can.                                                               *)
ServingSpec == ServingInit /\ [][ServingNext]_servingVars /\ WF_servingVars(ServingNext)

-----------------------------------------------------------------------------
(* Properties of the composition.                                          *)

(* Without any limit on turns a rollout ends, because every round makes    *)
(* its response longer; it only stays open when a worker of its server has *)
(* ended its loop.                                                         *)
ToolRolloutEnds == <>(Ended \/ \E w \in Workers : worker[w] = "stopped")

=============================================================================
