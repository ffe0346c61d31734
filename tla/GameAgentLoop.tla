--------------------------- MODULE GameAgentLoop ---------------------------
(***************************************************************************)
(* One game rollout: GameAgentLoop.run of                                  *)
(* verl/experimental/agent_loop/game_agent_loop.py.                        *)
(*                                                                         *)
(* A rollout alternates between the game environment and the language      *)
(* model.  It keeps a sliding window of the last ContextTurns observations *)
(* and replies, deep-copies its state after every reply (a "snapshot"),    *)
(* records the reward the reply earned, and on termination turns the       *)
(* snapshots into training rows, dropping the last TrailingTurns of them.  *)
(*                                                                         *)
(* Turns are numbered from 1.  Observation t is what reply t answers, and  *)
(* reward t is what the environment pays for reply t.  Texts, images and   *)
(* tokens are abstracted to the turn they belong to and to their number.   *)
(***************************************************************************)
EXTENDS Integers, Sequences

CONSTANTS
  MaxAssistantTurns,  (* multi_turn.max_assistant_turns, 0 when unset      *)
  MaxUserTurns,       (* multi_turn.max_user_turns, 0 when unset           *)
  ContextTurns,       (* multi_turn.markov_context_turns                   *)
  ResponseLength,     (* rollout.response_length                           *)
  MessageTokens,      (* tokens the chat template spends on one message    *)
  ReplyLengths,       (* token counts the inference server may return      *)
  StepRewards,        (* rewards game_env.step may return                  *)
  FormatPenalty,      (* reward of a reply that cannot be parsed or played *)
  Discount,           (* markov_discount_factor                            *)
  NormInAgentLoop     (* multi_turn.norm_in_agent_loop                     *)

(* __init__ refuses a context of zero turns; the server is asked for       *)
(* max_tokens = response_length >= 1 and always emits at least one token.  *)
ASSUME LoopAssumption ==
  /\ MaxAssistantTurns \in Nat
  /\ MaxUserTurns \in Nat
  /\ ContextTurns \in Nat \ {0}
  /\ ResponseLength \in Nat \ {0}
  /\ MessageTokens \in Nat \ {0}
  /\ ReplyLengths \subseteq Nat \ {0}
  /\ StepRewards \subseteq Int
  /\ FormatPenalty \in Int
  /\ Discount \in Int
  /\ NormInAgentLoop \in BOOLEAN

(* The number of final turns that never become training rows.              *)
TrailingTurns == 5

VARIABLES
  pc,              (* GameState, or how the coroutine ended                *)
  messages,        (* agent_data.messages                                  *)
  images,          (* agent_data.image_data, as observation numbers        *)
  prompt,          (* agent_data.prompt_ids: context tokens, reply tokens  *)
  reply,           (* agent_data.response_ids: turn and number of tokens   *)
  mask,            (* len(agent_data.response_mask), an all-ones list      *)
  user_turns,      (* agent_data.user_turns                                *)
  assistant_turns, (* agent_data.assistant_turns                           *)
  snapshots,       (* agent_data_list                                      *)
  rewards,         (* reward_list, with the turn whose reply was played    *)
  outputs,         (* the list of AgentLoopOutput returned                 *)
  env_open         (* game_env.close() has not been called yet             *)

vars == << pc, messages, images, prompt, reply, mask, user_turns,
           assistant_turns, snapshots, rewards, outputs, env_open >>

-----------------------------------------------------------------------------

User(t)      == [role |-> "user", turn |-> t]
Assistant(t) == [role |-> "assistant", turn |-> t]
Message      == [role : {"user", "assistant"}, turn : Nat]

NoReply == [turn |-> 0, len |-> 0]

Running == {"stepping_env", "pending", "generating", "terminated"}
Ended   == {"returned", "raised", "assertion_failed"}

Init ==
  /\ pc = "stepping_env"
  /\ messages = << >>
  /\ images = << >>
  /\ prompt = [ctx |-> 0, own |-> 0]
  /\ reply = NoReply
  /\ mask = 0
  /\ user_turns = 0
  /\ assistant_turns = 0
  /\ snapshots = << >>
  /\ rewards = << >>
  /\ outputs = << >>
  /\ env_open = TRUE

-----------------------------------------------------------------------------
(* The handlers of the state machine.                                      *)

(* Slip: the handler returns its own state.                                *)
Slip_Encode ==
  /\ pc = "pending"
  /\ prompt' = [ctx |-> Len(messages) * MessageTokens, own |-> 0]
  /\ UNCHANGED << pc, messages, images, reply, mask, user_turns,
                  assistant_turns, snapshots, rewards, outputs, env_open >>

(* _handle_pending_state: encode the message window as the prompt.         *)
Encode ==
  /\ pc = "pending"
  /\ prompt' = [ctx |-> Len(messages) * MessageTokens, own |-> 0]
  /\ pc' = "generating"
  /\ UNCHANGED << messages, images, reply, mask, user_turns, assistant_turns,
                  snapshots, rewards, outputs, env_open >>

TurnLimitReached ==
  \/ MaxAssistantTurns # 0 /\ assistant_turns >= MaxAssistantTurns
  \/ MaxUserTurns # 0 /\ user_turns >= MaxUserTurns

Truncated(n) == IF n > ResponseLength THEN ResponseLength ELSE n

(* agent_data as _run_impl deep-copies it after a reply.                   *)
SnapshotOf(t, ms, p, r, m) ==
  [turn |-> t, messages |-> ms, images |-> images,
   prompt |-> p, reply |-> r, mask |-> m]

(* _handle_generating_state together with the bookkeeping of the loop      *)
(* after it: the reply extends prompt and mask even when the turn limit    *)
(* then discards it; only a reply that will be played is snapshotted.      *)
Generate(n) ==
  LET t == assistant_turns + 1
      reply_new  == [turn |-> t, len |-> Truncated(n)]
      prompt_new == [ctx |-> prompt.ctx, own |-> prompt.own + Truncated(n)]
      mask_new   == mask + Truncated(n)
      messages_new == Append(messages, Assistant(t))
  IN
  /\ pc = "generating"
  /\ reply' = reply_new
  /\ prompt' = prompt_new
  /\ mask' = mask_new
  /\ assistant_turns' = t
  /\ \/ /\ TurnLimitReached
        /\ pc' = "terminated"
        /\ UNCHANGED << messages, snapshots >>
     \/ /\ ~ TurnLimitReached
        /\ pc' = "stepping_env"
        /\ messages' = messages_new
        /\ snapshots' = Append(snapshots,
             SnapshotOf(t, messages_new, prompt_new, reply_new, mask_new))
  /\ UNCHANGED << images, user_turns, rewards, outputs, env_open >>

(* Slip: the oldest turns survive instead of the newest.                   *)
Slip_KeepLast(s, n) == IF Len(s) <= n THEN s ELSE SubSeq(s, 1, n)
KeepLast(s, n) == IF Len(s) <= n THEN s ELSE SubSeq(s, Len(s) - n + 1, Len(s))

(* The context window of _handle_environment_step: beyond the last         *)
(* ContextTurns turns messages and images are forgotten and the token      *)
(* buffers restart.                                                        *)
(* Slip: the mask is not reset with the ids it belongs to.                 *)
Slip_ResetTokens ==
  /\ prompt' = [ctx |-> 0, own |-> 0]
  /\ reply' = NoReply
  /\ mask' = mask
ResetTokens ==
  /\ prompt' = [ctx |-> 0, own |-> 0]
  /\ reply' = NoReply
  /\ mask' = 0

WindowLength == 2 * ContextTurns - 1
OverWindow(ms) == Len(ms) > WindowLength

(* The loop's reward_list: nothing is recorded before the first reply.     *)
(* Slip: the initial observation is recorded too.                          *)
RewardEntry(reward) == [reward |-> reward, turn |-> reply.turn]
Slip_RecordAlways(reward) == rewards' = Append(rewards, RewardEntry(reward))
RecordReward(reward) ==
  rewards' = IF snapshots = << >> THEN rewards
             ELSE Append(rewards, RewardEntry(reward))

(* _handle_environment_step after the environment has answered, and the    *)
(* caller's recording of the reward.  Observation user_turns + 1 is added. *)
Observe(reward, done) ==
  LET obs == user_turns + 1
      messages_new == Append(messages, User(obs))
      images_new   == Append(images, obs)
  IN
  /\ RecordReward(reward)
  /\ \/ /\ done
        /\ messages' = messages_new
        /\ pc' = "terminated"
        /\ UNCHANGED << images, prompt, reply, mask, user_turns, env_open >>
     \/ /\ ~ done
        /\ ~ OverWindow(messages_new)
        /\ messages' = messages_new
        /\ images' = images_new
        /\ user_turns' = obs
        /\ pc' = "pending"
        /\ UNCHANGED << prompt, reply, mask, env_open >>
     \/ /\ ~ done
        /\ OverWindow(messages_new)
        /\ Len(messages_new) = 2 * Len(images_new) - 1
        /\ messages' = KeepLast(messages_new, WindowLength)
        /\ images' = KeepLast(images_new, ContextTurns)
        /\ ResetTokens
        /\ user_turns' = obs
        /\ pc' = "pending"
        /\ UNCHANGED env_open
     \/ /\ ~ done
        /\ OverWindow(messages_new)
        /\ Len(messages_new) # 2 * Len(images_new) - 1
        /\ pc' = "assertion_failed"
        /\ env_open' = FALSE
        /\ UNCHANGED << messages, images, prompt, reply, mask, user_turns >>
  /\ UNCHANGED << assistant_turns, snapshots, outputs >>

(* The first step only looks at the freshly reset environment.             *)
FirstObservation ==
  /\ pc = "stepping_env"
  /\ snapshots = << >>
  /\ Observe(0, FALSE)

(* The reply is parsed and played; the environment pays for it and may     *)
(* declare the episode done.                                               *)
PlayReply(reward, done) ==
  /\ pc = "stepping_env"
  /\ snapshots # << >>
  /\ Observe(reward, done)

(* The reply has no well-formed answer, names more than two buttons, or    *)
(* game_env.step raises: the penalty replaces the reward and the episode   *)
(* goes on.                                                                *)
RejectReply ==
  /\ pc = "stepping_env"
  /\ snapshots # << >>
  /\ Observe(FormatPenalty, FALSE)

-----------------------------------------------------------------------------
(* The end of a rollout.                                                   *)

(* compute_return_to_go: running returns accumulated from the last turn.   *)
ReturnToGo(rs) ==
  LET n == Len(rs)
      running[k \in 0..n] ==
        IF k = 0 THEN 0 ELSE rs[n - k + 1] + Discount * running[k - 1]
  IN [i \in 1..n |-> running[n - i + 1]]

Kept(n) == IF n > TrailingTurns THEN n - TrailingTurns ELSE n

RewardValues == [i \in 1..Len(rewards) |-> rewards[i].reward]

(* The response of a row is the tail of prompt_ids as long as the mask;    *)
(* "from" counts the prompt_ids tokens before that tail.                   *)
Row(k, returns) ==
  LET snap  == snapshots[k]
      total == snap.prompt.ctx + snap.prompt.own
  IN [turn_idx |-> k - 1,
      turn |-> snap.turn,
      from |-> IF snap.mask > total THEN 0 ELSE total - snap.mask,
      len |-> Truncated(IF snap.mask > total THEN total ELSE snap.mask),
      mask |-> Truncated(snap.mask),
      turn_scores |-> returns[k],
      step_reward |-> rewards[k].reward]

(* Slip: the tail is dropped before the returns are computed.              *)
Slip_EpisodeReturns ==
  ReturnToGo(SubSeq(RewardValues, 1, Kept(Len(rewards))))
EpisodeReturns ==
  IF NormInAgentLoop THEN RewardValues ELSE ReturnToGo(RewardValues)

(* The code after the loop.  The environment is closed by run's finally.   *)
Finalize ==
  /\ pc = "terminated"
  /\ env_open' = FALSE
  /\ \/ /\ Len(snapshots) = Len(rewards)
        /\ outputs' = [k \in 1..Kept(Len(rewards)) |-> Row(k, EpisodeReturns)]
        /\ pc' = "returned"
     \/ /\ Len(snapshots) # Len(rewards)
        /\ pc' = "assertion_failed"
        /\ UNCHANGED outputs
  /\ UNCHANGED << messages, images, prompt, reply, mask, user_turns,
                  assistant_turns, snapshots, rewards >>

(* An exception of the tokenizer, the inference server or the emulator     *)
(* that no handler catches, or of the code after the loop, which also      *)
(* writes the images of a validation to disk: run's finally still closes   *)
(* the environment.                                                        *)
Fail ==
  /\ pc \in Running
  /\ pc' = "raised"
  /\ env_open' = FALSE
  /\ UNCHANGED << messages, images, prompt, reply, mask, user_turns,
                  assistant_turns, snapshots, rewards, outputs >>

Finished ==
  /\ pc \in Ended
  /\ UNCHANGED vars

Advance ==
  \/ Encode
  \/ \E n \in ReplyLengths : Generate(n)
  \/ FirstObservation
  \/ \E r \in StepRewards, done \in BOOLEAN : PlayReply(r, done)
  \/ RejectReply
  \/ Finalize

Next == Advance \/ Fail \/ Finished

Spec == Init /\ [][Next]_vars

(* Every await of the coroutine is answered: the event loop resumes it,    *)
(* the server replies or raises, and the emulator returns.                 *)
FairSpec == Spec /\ WF_vars(Advance)

-----------------------------------------------------------------------------
(* Types.                                                                  *)

Snapshot ==
  [turn : Nat, messages : Seq(Message), images : Seq(Nat),
   prompt : [ctx : Nat, own : Nat], reply : [turn : Nat, len : Nat],
   mask : Nat]

TypeOK ==
  /\ pc \in Running \cup Ended
  /\ messages \in Seq(Message)
  /\ images \in Seq(Nat)
  /\ prompt \in [ctx : Nat, own : Nat]
  /\ reply \in [turn : Nat, len : Nat]
  /\ mask \in Nat
  /\ user_turns \in Nat
  /\ assistant_turns \in Nat
  /\ snapshots \in Seq(Snapshot)
  /\ rewards \in Seq([reward : Int, turn : Nat])
  /\ env_open \in BOOLEAN

-----------------------------------------------------------------------------
(* Safety.                                                                 *)

(* The number of turns in the context while turn t is being answered.      *)
WindowTurns(t) == IF t < ContextTurns THEN t ELSE ContextTurns

(* ms and is are exactly the last WindowTurns(t) observations, ending with *)
(* observation t, with the replies between them, oldest first.             *)
ExactWindow(ms, is, t) ==
  LET w == WindowTurns(t) IN
  /\ Len(is) = w
  /\ Len(ms) = 2 * w - 1
  /\ \A i \in 1..w : is[i] = t - w + i
  /\ \A i \in 1..w : ms[2 * i - 1] = User(t - w + i)
  /\ \A i \in 1..(w - 1) : ms[2 * i] = Assistant(t - w + i)

(* What the model is shown: whenever a prompt is about to be encoded or    *)
(* answered, messages and images hold exactly the last turns of the        *)
(* episode, none missing, none twice, each image beside its own message    *)
(* (the truncation at the end of _handle_environment_step).                *)
PromptIsLastTurns ==
  pc \in {"pending", "generating"} =>
    ExactWindow(messages, images, user_turns)

(* A snapshot taken after reply t shows observation t as its newest image  *)
(* and reply t as its newest message: the deep copy is taken before the    *)
(* next observation can leak into it.                                      *)
SnapshotsAligned ==
  \A k \in 1..Len(snapshots) :
    LET s == snapshots[k] IN
    /\ s.turn = k
    /\ s.reply.turn = k
    /\ Len(s.images) > 0 /\ s.images[Len(s.images)] = k
    /\ Len(s.messages) = 2 * Len(s.images)
    /\ s.messages[Len(s.messages)] = Assistant(k)

(* Reward k is what reply k earned, even though it is recorded two         *)
(* handlers later from agent_data: no reward is lost, shifted or recorded  *)
(* for the initial observation, and the lists are equally long whenever    *)
(* no reply is waiting to be played ("align the reward list").             *)
RewardsAligned ==
  /\ \A k \in 1..Len(rewards) : rewards[k].turn = k
  /\ pc \notin Ended =>
       Len(snapshots) = Len(rewards) +
         (IF pc = "stepping_env" /\ snapshots # << >> THEN 1 ELSE 0)

(* Neither assertion of the rollout (message/image parity before the       *)
(* truncation, snapshot/reward parity after the loop) can fail.            *)
AssertionsHold == pc # "assertion_failed"

(* The discounted sum of every reward from turn k on, written out.         *)
Power(b, e) == LET p[i \in 0 .. e] == IF i = 0 THEN 1 ELSE b * p[i - 1] IN p[e]
DiscountedTail(rs, k) ==
  LET part[j \in k..(Len(rs) + 1)] ==
        IF j = Len(rs) + 1 THEN 0
        ELSE rs[j] * Power(Discount, j - k) + part[j + 1]
  IN part[k]

(* Training rows are the first turns of the episode in order; the trimmed  *)
(* tail still counts: each row's return sums every later reward of the     *)
(* episode, and an episode that earned rewards yields at least one row.    *)
ReturnsIncludeTrimmedTail ==
  pc = "returned" =>
    /\ Len(outputs) = Kept(Len(rewards))
    /\ rewards # << >> => outputs # << >>
    /\ \A k \in 1..Len(outputs) :
         /\ outputs[k].turn = k
         /\ outputs[k].turn_idx = k - 1
         /\ outputs[k].step_reward = rewards[k].reward
         /\ outputs[k].turn_scores = DiscountedTail(RewardValues, k)

(* The response part of a training row is exactly the tokens generated in  *)
(* that row's turn: the tail of prompt_ids starts right after the encoded  *)
(* context and the mask covers the reply and nothing else.                 *)
ResponseIsOwnReply ==
  pc = "returned" =>
    \A k \in 1..Len(outputs) :
      LET s == snapshots[k] IN
      /\ outputs[k].from = s.prompt.ctx
      /\ outputs[k].len = s.reply.len
      /\ outputs[k].mask = s.reply.len

(* A response token whose mask is 1 was generated by the model in the      *)
(* row's own turn: the response never reaches back into the encoded        *)
(* context ("Response mask, 1 for LLM generated token").                   *)
MaskedTokensAreGenerated ==
  pc = "returned" =>
    \A k \in 1..Len(outputs) : outputs[k].from >= snapshots[k].prompt.ctx

(* The number of played turns under the two limits: with a user limit U an *)
(* episode plays at most U - 1 turns, because the first observation is     *)
(* already a user turn; with an assistant limit A at most A.               *)
TurnBudget ==
  /\ MaxUserTurns # 0 => Len(snapshots) < MaxUserTurns
  /\ MaxAssistantTurns # 0 => Len(snapshots) <= MaxAssistantTurns

(* The emulator is released exactly when the coroutine has ended, on every *)
(* way out, and is open for every step that may still use it.              *)
EnvOpenIffRunning == env_open <=> pc \notin Ended

-----------------------------------------------------------------------------
(* Liveness.                                                               *)

(* With a turn limit every rollout ends, whatever the model replies and    *)
(* the environment answers, and ends with the emulator closed.             *)
RolloutEnds == <>(pc \in Ended /\ ~ env_open)

=============================================================================
