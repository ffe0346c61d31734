-------------------------- MODULE OnPolicyRollout --------------------------
(***************************************************************************)
(* What the hybrid engine promises the training loop, whatever its ranks,  *)
(* servers and memory do: rollouts and updates alternate, and every answer *)
(* an update learns from was sampled from the weights it starts from.      *)
(***************************************************************************)
EXTENDS Naturals

VARIABLES
  phase,    (* "training", "serving" or "failed"                           *)
  version,  (* number of updates of the actor's weights                    *)
  samples   (* versions the answers of the current batch were sampled from *)

vars == << phase, version, samples >>

Init ==
  /\ phase = "training"
  /\ version = 0
  /\ samples = {}

Open ==
  /\ phase = "training"
  /\ phase' = "serving"
  /\ samples' = {}
  /\ UNCHANGED version

Answer ==
  /\ phase = "serving"
  /\ samples' = {version}
  /\ UNCHANGED << phase, version >>

Close ==
  /\ phase = "serving"
  /\ phase' = "training"
  /\ UNCHANGED << version, samples >>

Update ==
  /\ phase = "training"
  /\ samples \subseteq {version}
  /\ version' = version + 1
  /\ samples' = {}
  /\ UNCHANGED phase

Fail ==
  /\ phase = "serving"
  /\ phase' = "failed"
  /\ UNCHANGED << version, samples >>

Next == Open \/ Answer \/ Close \/ Update \/ Fail

Spec == Init /\ [][Next]_vars

=============================================================================
