----------------------------- MODULE MarioRollout -----------------------------
(***************************************************************************)
(* A rollout of GameAgentLoop in the game of MarioEnv: replies that can be *)
(* parsed are played, and the rewards are those of the emulator.           *)
(***************************************************************************)
EXTENDS GameAgentLoop, MarioEnv

VARIABLES
  unpaid,   (* history: the way Mario came in actions that cost or brought *)
            (* a life                                                      *)
  rejected  (* history: the number of replies that could not be played     *)

rolloutVars == << vars, envVars, unpaid, rejected >>

RolloutInit == Init /\ EnvInit /\ unpaid = 0 /\ rejected = 0

Play ==
  \E buttons \in BOOLEAN, g \in Uneventful(game) \cup Happening(game) :
    /\ PlayReply(EnvReward(g), EnvDone(g, step_count + IF buttons THEN 1 ELSE 0))
    /\ EnvStep(g, buttons)
    /\ unpaid' = IF g.dying \/ g.lives # game.lives
                 THEN unpaid + g.progress - game.progress ELSE unpaid
    /\ UNCHANGED rejected

(* A reply that cannot be played leaves the emulator alone.                *)
Reject ==
  /\ RejectReply
  /\ rejected' = rejected + 1
  /\ UNCHANGED << envVars, unpaid >>

(* The rest of the loop does, too.                                         *)
OffGame ==
  \/ Encode
  \/ \E n \in ReplyLengths : Generate(n)
  \/ FirstObservation
  \/ Finalize

RolloutAdvance ==
  \/ Play
  \/ Reject
  \/ OffGame /\ UNCHANGED << envVars, unpaid, rejected >>

RolloutNext ==
  \/ RolloutAdvance
  \/ (Fail \/ Finished) /\ UNCHANGED << envVars, unpaid, rejected >>

RolloutSpec == RolloutInit /\ [][RolloutNext]_rolloutVars /\ WF_rolloutVars(RolloutAdvance)

-----------------------------------------------------------------------------
(* Properties.                                                             *)

Total(values) == LET sum[k \in 0 .. Len(values)] ==
                       IF k = 0 THEN 0 ELSE sum[k - 1] + values[k]
                 IN  sum[Len(values)]

(* What an episode has earned is ten times where Mario stands, less what   *)
(* he came while a life was lost or won, and the penalty of each reply     *)
(* that could not be played: no way is paid twice and none is forgotten.   *)
(* (So a level that is finished, where he stands at zero again, has paid   *)
(* nothing.)                                                               *)
EarnedIsProgress ==
  Total(RewardValues) = 10 * (game.progress - unpaid) + rejected * FormatPenalty

(* The model is asked for a reply only while there is a game to go on      *)
(* with: not while Mario dies or after the last life, not beyond the       *)
(* emulator's steps, and, in an episode that began with two lives, not     *)
(* with fewer.  (One that began with another number plays on with the next *)
(* life if the animation fell between two observations.)                   *)
PlaysOnlyAlive ==
  pc \in Running \ {"terminated"} =>
    /\ ~ game.dying /\ ~ game.over
    /\ step_count < MaxStep
    /\ init_lives = 2 => game.lives >= 2

=============================================================================
