------------------------------- MODULE MarioEnv -------------------------------
(***************************************************************************)
(* PyBoySuperMarioLandEnv: the emulator between two calls, and what reset  *)
(* and step make of it.  What the game itself may do between two frames is *)
(* external: Mario moves, begins to die, loses or gains a life, enters the *)
(* next level, or the game is over.                                        *)
(***************************************************************************)
EXTENDS Integers

CONSTANTS
  StartLives,  (* lives a game or a saved state may begin with             *)
  Moves,       (* how far Mario may get in one action                      *)
  MaxStep,     (* MAX_STEP, 100000                                         *)
  MaxEvents    (* bound: deaths, lives and levels in an episode            *)

ASSUME EnvAssumption ==
  /\ StartLives \subseteq Nat \ {0}
  /\ Moves \subseteq Int
  /\ MaxStep \in Nat \ {0}
  /\ MaxEvents \in Nat

VARIABLES
  game,        (* lives, level_progress, the death animation, game_over    *)
  prev,        (* prev_lives_left and prev_level_progress                  *)
  init_lives,  (* init_lives_left                                          *)
  step_count,
  events       (* events of the episode, bounded                           *)

envVars == << game, prev, init_lives, step_count, events >>

(* __init__ and reset: the game or the saved state begins again.           *)
EnvReset(g) ==
  /\ game = g
  /\ prev = [lives |-> g.lives, progress |-> g.progress]
  /\ init_lives = g.lives
  /\ step_count = 0
  /\ events = 0

FreshGame(lives) == [lives |-> lives, progress |-> 0, dying |-> FALSE, over |-> FALSE]

EnvInit == \E lives \in StartLives : EnvReset(FreshGame(lives))

(* The game after an action of 6 or 16 frames: Mario begins to die, has    *)
(* lost a life and starts again, has gained one, or is in the next level.  *)
Happening(g) ==
  {[g EXCEPT !.dying = TRUE, !.progress = @ + d] : d \in Moves}
    \cup {[g EXCEPT !.lives = @ - 1, !.progress = 0, !.over = g.lives = 1]}
    \cup {[g EXCEPT !.lives = @ + 1, !.progress = @ + d] : d \in Moves}
    \cup {[g EXCEPT !.progress = 0]}
Uneventful(g) == {[g EXCEPT !.progress = @ + d] : d \in Moves}

(* Slip: a life gained does not keep the way from being paid.              *)
Slip_EnvReward(g) ==
  IF ~ g.dying /\ g.lives >= prev.lives THEN 10 * (g.progress - prev.progress) ELSE 0
(* compute_reward: nothing while Mario dies or when lives have changed.    *)
EnvReward(g) ==
  IF ~ g.dying /\ g.lives = prev.lives THEN 10 * (g.progress - prev.progress) ELSE 0

(* Slip: with two lives to begin with, the last one is played, too.        *)
Slip_EnvDone(g, count) ==
  \/ count >= MaxStep
  \/ g.over
  \/ g.dying
  \/ init_lives = 2 /\ g.lives < 1
(* step: a death ends the episode where the animation shows it, and a life *)
(* lost otherwise does if the episode began with two of them.              *)
EnvDone(g, count) ==
  \/ count >= MaxStep
  \/ g.over
  \/ g.dying
  \/ init_lives = 2 /\ g.lives < 2

(* step: only actions with a known button count; the game runs anyway.     *)
EnvStep(g, buttons) ==
  /\ \/ g \in Uneventful(game) /\ UNCHANGED events
     \/ g \in Happening(game) /\ events < MaxEvents /\ events' = events + 1
  /\ game' = g
  /\ step_count' = IF buttons THEN step_count + 1 ELSE step_count
  /\ prev' = [lives |-> g.lives, progress |-> g.progress]
  /\ UNCHANGED init_lives

=============================================================================
