---------------------------- MODULE PolicyUpdate ----------------------------
(***************************************************************************)
(* Learning from one batch: fit has the ranks of the actor recompute the   *)
(* log-probabilities, the ranks of the critic predict values and train,    *)
(* and the ranks of the actor train (DataParallelPPOActor and the handlers *)
(* of ActorRolloutRefWorker around it).                                    *)
(*                                                                         *)
(* The ranks of the actor hold shards of one model: every forward and      *)
(* backward pass, the agreement on the number of micro-batches and the     *)
(* norm of the gradient are collectives that a rank cannot leave before    *)
(* all have entered as many.  The ranks of the critic hold a copy of the   *)
(* model each and never meet.                                              *)
(***************************************************************************)
EXTENDS SeqlenBalancing

CONSTANTS
  DpSize,        (* data parallel groups                                   *)
  SpSize,        (* ranks of a group, which share their rows               *)
  MiniBatch,     (* ppo_mini_batch_size of a rank                          *)
  Epochs,        (* ppo_epochs of the actor                                *)
  CriticEpochs,  (* ppo_epochs of the critic                               *)
  DynamicBsz,    (* values of use_dynamic_bsz, one is chosen               *)
  MicroBatch,    (* ppo_micro_batch_size_per_gpu without it                *)
  MaxTokens,     (* max_token_len_per_gpu with it                          *)
  CriticWarmup,  (* trainer.critic_warmup                                  *)
  Filters,       (* the estimator drops rows without advantage             *)
  Batches,       (* the lengths of the rows of a batch, one is chosen      *)
  MaxSteps,      (* bound: training steps                                  *)
  MaxRelaunches  (* bound: failures                                        *)

(* With dynamic batches rearrange_micro_batches asserts that the width of  *)
(* the batch, the same on all ranks, fits a micro-batch.                   *)
ASSUME UpdateAssumption ==
  /\ {DpSize, SpSize, MiniBatch, Epochs, CriticEpochs, MicroBatch, MaxTokens}
       \subseteq Nat \ {0}
  /\ DynamicBsz \subseteq BOOLEAN /\ Filters \in BOOLEAN
  /\ {CriticWarmup, MaxSteps, MaxRelaunches} \subseteq Nat
  /\ Batches \subseteq Seq(Nat \ {0}) \ {<< >>}
  /\ \A batch \in Batches :
       /\ Len(batch) % (DpSize * SpSize) = 0
       /\ TRUE \in DynamicBsz => LongestFits(batch, MaxTokens * SpSize)

World == DpSize * SpSize
Ranks == 0 .. World - 1
DpRank(r) == r \div SpSize

VARIABLES
  use_dynamic_bsz,
  pc,           (* what fit is doing                                       *)
  global_steps,
  lens,         (* lengths of the rows of the batch                        *)
  sent,         (* the rows sent to the ranks of the actor                 *)
  at,           (* the collective a rank of the actor is in, or what else  *)
  calls,        (* the collectives it has entered since it was called      *)
  left,         (* mini-batches it has yet to see                          *)
  wanted,       (* micro-batches it asked for                              *)
  plan,         (* micro-batches of the current mini-batch still to run    *)
  outputs,      (* rows it has computed log-probabilities of, in order     *)
  order,        (* rows in the order of its micro-batches                  *)
  summed,       (* rows its gradient is the sum of                         *)
  finite,       (* whether that gradient is finite                         *)
  shard,        (* the rows of each step its shard has taken               *)
  old_log_probs,(* for each row of the batch the row its value is of       *)
  critic,       (* the steps each copy of the critic has taken             *)
  values,       (* for each row the copy that predicted its value          *)
  trainees,     (* ranks of the critic that have yet to train              *)
  saved,        (* the last checkpoint                                     *)
  relaunches

batchVars  == << pc, global_steps, lens, sent >>
rankVars   == << at, calls, left, wanted, plan, outputs, order, summed, finite >>
criticVars == << critic, values, trainees >>
vars == << use_dynamic_bsz, batchVars, rankVars, shard, old_log_probs, criticVars, saved, relaunches >>

Everywhere(x) == [r \in Ranks |-> x]

(* Copies of the critic start equal: each process draws their weights from *)
(* the default seed.                                                       *)
Init ==
  /\ use_dynamic_bsz \in DynamicBsz
  /\ pc = "rollout"
  /\ global_steps = 1
  /\ lens = << >>
  /\ sent = << >>
  /\ at = Everywhere("idle")
  /\ calls = Everywhere(<< >>)
  /\ left = Everywhere(<< >>)
  /\ wanted = Everywhere(0)
  /\ plan = Everywhere(<< >>)
  /\ outputs = Everywhere(<< >>)
  /\ order = Everywhere(<< >>)
  /\ summed = Everywhere(<< >>)
  /\ finite = Everywhere(TRUE)
  /\ shard = Everywhere(<< >>)
  /\ old_log_probs = << >>
  /\ critic = Everywhere(<< >>)
  /\ values = << >>
  /\ trainees = {}
  /\ saved = [step |-> 0, shard |-> << >>, critic |-> << >>]
  /\ relaunches = 0

-----------------------------------------------------------------------------
(* fit.                                                                    *)

(* Dispatching chunks the rows and gives each group one chunk.             *)
Share(rows, r) ==
  LET size == Len(rows) \div DpSize
  IN  SubSeq(rows, DpRank(r) * size + 1, (DpRank(r) + 1) * size)

(* Every rank is called with its share.                                    *)
Call(rows) ==
  /\ sent' = rows
  /\ at' = Everywhere("called")
  /\ calls' = Everywhere(<< >>)
  /\ outputs' = Everywhere(<< >>)

Rollout(batch) ==
  /\ pc = "rollout"
  /\ global_steps <= MaxSteps
  /\ lens' = batch
  /\ pc' = "log_prob"
  /\ Call([i \in DOMAIN batch |-> i])
  /\ old_log_probs' = << >>
  /\ values' = << >>
  /\ UNCHANGED << global_steps, left, wanted, plan, order, summed, finite,
                  shard, critic, trainees, saved, relaunches >>

Returned == \A r \in Ranks : at[r] = "returned"

(* The results of one rank of each group are concatenated.                 *)
CollectLogProbs ==
  /\ pc = "log_prob"
  /\ Returned
  /\ old_log_probs' = FlattenSeq([g \in 1 .. DpSize |-> outputs[(g - 1) * SpSize]])
  /\ pc' = "values"
  /\ UNCHANGED << global_steps, lens, sent, rankVars, shard, criticVars, saved,
                  relaunches >>

(* compute_values: each rank predicts its share of the batch.              *)
ComputeValues ==
  /\ pc = "values"
  /\ values' = [i \in DOMAIN lens |-> critic[(i - 1) \div (Len(lens) \div World)]]
  /\ trainees' = Ranks
  /\ pc' = "update_critic"
  /\ UNCHANGED << global_steps, lens, sent, rankVars, shard, old_log_probs, critic,
                  saved, relaunches >>

(* update_critic: a step on the whole share in each epoch, unless its own  *)
(* gradient is not finite.                                                 *)
UpdateCritic(r, steps) ==
  /\ pc = "update_critic"
  /\ r \in trainees
  /\ critic' = [critic EXCEPT ![r] = @ \o [e \in 1 .. steps |-> << global_steps, r, e >>]]
  /\ trainees' = trainees \ {r}
  /\ UNCHANGED << batchVars, rankVars, shard, old_log_probs, values, saved, relaunches >>

(* pad_dataproto_to_divisor.                                               *)
Padded(s, divisor) ==
  [i \in 1 .. CeilDiv(Len(s), divisor) * divisor |-> s[((i - 1) % Len(s)) + 1]]

(* The rows with an advantage, padded, go to the actor, if there are any   *)
(* and the critic has warmed up.                                           *)
UpdateActor(useful) ==
  LET rows == Ascending(SetToSeq(useful)) IN
  /\ pc = "update_critic"
  /\ trainees = {}
  /\ useful # DOMAIN lens => Filters
  /\ \/ /\ CriticWarmup <= global_steps /\ useful # {}
        /\ pc' = "update_actor"
        /\ Call(Padded(rows, World))
     \/ /\ CriticWarmup > global_steps \/ useful = {}
        /\ pc' = "save"
        /\ UNCHANGED << sent, at, calls, outputs >>
  /\ UNCHANGED << global_steps, lens, left, wanted, plan, order, summed, finite,
                  shard, old_log_probs, criticVars, saved, relaunches >>

ActorUpdated ==
  /\ pc = "update_actor"
  /\ Returned
  /\ pc' = "save"
  /\ UNCHANGED << global_steps, lens, sent, rankVars, shard, old_log_probs,
                  criticVars, saved, relaunches >>

(* Every rank saves its shard, rank 0 its copy of the critic.              *)
NextStep(save) ==
  /\ pc = "save"
  /\ saved' = IF save THEN [step |-> global_steps, shard |-> shard[0], critic |-> critic[0]]
              ELSE saved
  /\ global_steps' = global_steps + 1
  /\ pc' = "rollout"
  /\ UNCHANGED << lens, sent, rankVars, shard, old_log_probs, criticVars, relaunches >>

(* A rank that raises ends the job; the next one resumes from the          *)
(* checkpoint, every copy of the critic from the same file.                *)
Relaunch ==
  /\ \E r \in Ranks : at[r] = "raised"
  /\ pc' = "rollout"
  /\ global_steps' = saved.step + 1
  /\ shard' = Everywhere(saved.shard)
  /\ critic' = Everywhere(saved.critic)
  /\ lens' = << >>
  /\ sent' = << >>
  /\ at' = Everywhere("idle")
  /\ calls' = Everywhere(<< >>)
  /\ left' = Everywhere(<< >>)
  /\ wanted' = Everywhere(0)
  /\ plan' = Everywhere(<< >>)
  /\ outputs' = Everywhere(<< >>)
  /\ order' = Everywhere(<< >>)
  /\ summed' = Everywhere(<< >>)
  /\ finite' = Everywhere(TRUE)
  /\ old_log_probs' = << >>
  /\ values' = << >>
  /\ trainees' = {}
  /\ UNCHANGED << saved, relaunches >>

-----------------------------------------------------------------------------
(* A rank of the actor.                                                    *)

Enter(r, kind) ==
  /\ at' = [at EXCEPT ![r] = kind]
  /\ calls' = [calls EXCEPT ![r] = Append(@, kind)]

(* All ranks have entered as many collectives.                             *)
Met(r) == \A v \in Ranks : Len(calls[v]) >= Len(calls[r])

LenOf(rows) == [i \in DOMAIN rows |-> lens[rows[i]]]

(* compute_log_prob takes its share as a whole, update_policy splits it    *)
(* and goes over the parts in every epoch.                                 *)
MiniBatches(r) ==
  LET share == Share(sent, r) IN
  IF pc = "log_prob" THEN << share >>
  ELSE FlattenSeq([e \in 1 .. Epochs |-> SplitBy(share, MiniBatch)])

(* A fixed number of rows makes a micro-batch, or a number of tokens does. *)
Rearranged(r, num) ==
  LET parts == MicroBatches(LenOf(left[r][1]), num)
  IN  [p \in DOMAIN parts |-> [i \in DOMAIN parts[p] |-> left[r][1][parts[p][i]]]]

Begin(r) ==
  /\ at[r] = "called"
  /\ at' = [at EXCEPT ![r] = "mini_batch"]
  /\ left' = [left EXCEPT ![r] = MiniBatches(r)]
  /\ UNCHANGED << batchVars, calls, wanted, plan, outputs, order, summed, finite,
                  shard, old_log_probs, criticVars, saved, relaunches >>

(* zero_grad, and the first thing the mini-batch needs of the others.      *)
(* Slip: zero_grad is left to the end of update_policy.                    *)
Slip_StartMiniBatch(r) ==
  /\ at[r] = "mini_batch"
  /\ IF use_dynamic_bsz
     THEN /\ wanted' = [wanted EXCEPT ![r] =
                          MicroBatchesWanted(LenOf(left[r][1]), MaxTokens * SpSize)]
          /\ Enter(r, "count")
          /\ UNCHANGED << plan, order >>
     ELSE /\ plan' = [plan EXCEPT ![r] = SplitBy(left[r][1], MicroBatch)]
          /\ order' = [order EXCEPT ![r] = left[r][1]]
          /\ Enter(r, "forward")
          /\ UNCHANGED wanted
  /\ UNCHANGED << batchVars, left, outputs, summed, finite, shard, old_log_probs,
                  criticVars, saved, relaunches >>
StartMiniBatch(r) ==
  /\ at[r] = "mini_batch"
  /\ summed' = [summed EXCEPT ![r] = << >>]
  /\ IF use_dynamic_bsz
     THEN /\ wanted' = [wanted EXCEPT ![r] =
                          MicroBatchesWanted(LenOf(left[r][1]), MaxTokens * SpSize)]
          /\ Enter(r, "count")
          /\ UNCHANGED << plan, order >>
     ELSE /\ plan' = [plan EXCEPT ![r] = SplitBy(left[r][1], MicroBatch)]
          /\ order' = [order EXCEPT ![r] = left[r][1]]
          /\ Enter(r, "forward")
          /\ UNCHANGED wanted
  /\ UNCHANGED << batchVars, left, outputs, finite, shard, old_log_probs,
                  criticVars, saved, relaunches >>

(* Slip: no all_reduce, each rank makes as many as it needs.               *)
Slip_Agreed(r) == wanted[r]
(* all_reduce with MAX over the ranks.                                     *)
Agreed(r) == Max({wanted[v] : v \in Ranks})

(* With more micro-batches than rows an assertion fails.                   *)
Count(r) ==
  /\ at[r] = "count"
  /\ Met(r)
  /\ IF Agreed(r) > Len(left[r][1])
     THEN /\ at' = [at EXCEPT ![r] = "raised"]
          /\ UNCHANGED << calls, plan, order >>
     ELSE /\ plan' = [plan EXCEPT ![r] = Rearranged(r, Agreed(r))]
          /\ order' = [order EXCEPT ![r] = FlattenSeq(Rearranged(r, Agreed(r)))]
          /\ Enter(r, "forward")
  /\ UNCHANGED << batchVars, left, wanted, outputs, summed, finite, shard,
                  old_log_probs, criticVars, saved, relaunches >>

(* Positions in the mini-batch of the rows in the order they were run.     *)
Positions(rows, mini) == [i \in DOMAIN rows |-> CHOOSE j \in DOMAIN mini : mini[j] = rows[i]]

(* A forward pass is followed by the backward pass in training; the last   *)
(* one of compute_log_prob by putting the results in the order of rows.    *)
Forward(r) ==
  LET computed == outputs[r] \o plan[r][1] IN
  /\ at[r] = "forward"
  /\ Met(r)
  /\ \/ /\ pc = "update_actor"
        /\ Enter(r, "backward")
        /\ UNCHANGED << plan, outputs >>
     \/ /\ pc = "log_prob"
        /\ plan' = [plan EXCEPT ![r] = Tail(@)]
        /\ \/ /\ Len(plan[r]) > 1
              /\ outputs' = [outputs EXCEPT ![r] = computed]
              /\ Enter(r, "forward")
           \/ /\ Len(plan[r]) = 1
              /\ outputs' = [outputs EXCEPT ![r] =
                   IF use_dynamic_bsz
                   THEN RestoreDynamicBatch(computed, Positions(order[r], left[r][1]))
                   ELSE computed]
              /\ at' = [at EXCEPT ![r] = "returned"]
              /\ UNCHANGED calls
  /\ UNCHANGED << batchVars, left, wanted, order, summed, finite, shard,
                  old_log_probs, criticVars, saved, relaunches >>

(* The gradient of a micro-batch joins the sum, which may overflow.        *)
Backward(r, fine) ==
  /\ at[r] = "backward"
  /\ Met(r)
  /\ summed' = [summed EXCEPT ![r] = @ \o plan[r][1]]
  /\ plan' = [plan EXCEPT ![r] = Tail(@)]
  /\ finite' = [finite EXCEPT ![r] = fine]
  /\ \/ Len(plan[r]) > 1 /\ fine /\ Enter(r, "forward")
     \/ Len(plan[r]) = 1 /\ Enter(r, "clip")
  /\ UNCHANGED << batchVars, left, wanted, outputs, order, shard, old_log_probs,
                  criticVars, saved, relaunches >>

(* Slip: each rank looks at the gradient of its own rows.                  *)
Slip_NormIsFinite(r) == finite[r]
(* clip_grad_norm_ returns the norm of the whole gradient.                 *)
NormIsFinite(r) == \A v \in Ranks : finite[v]

(* _optimizer_step, unless the norm is not finite.                         *)
Clip(r) ==
  /\ at[r] = "clip"
  /\ Met(r)
  /\ shard' = IF NormIsFinite(r)
              THEN [shard EXCEPT ![r] =
                      Append(@, << global_steps, Len(left[r]) >>)]
              ELSE shard
  /\ left' = [left EXCEPT ![r] = Tail(@)]
  /\ at' = [at EXCEPT ![r] = IF Len(left[r]) > 1 THEN "mini_batch" ELSE "returned"]
  /\ UNCHANGED << batchVars, calls, wanted, plan, outputs, order, summed, finite,
                  old_log_probs, criticVars, saved, relaunches >>

(* A rank runs out of memory in a pass.                                    *)
Fail(r) ==
  /\ at[r] \in {"forward", "backward"}
  /\ relaunches < MaxRelaunches
  /\ at' = [at EXCEPT ![r] = "raised"]
  /\ relaunches' = relaunches + 1
  /\ UNCHANGED << batchVars, calls, left, wanted, plan, outputs, order, summed,
                  finite, shard, old_log_probs, criticVars, saved >>

Rank(r) ==
  \/ Begin(r) \/ StartMiniBatch(r) \/ Count(r) \/ Forward(r) \/ Clip(r)
  \/ \E fine \in BOOLEAN : Backward(r, fine)

Driver ==
  \/ \E batch \in Batches : Rollout(batch)
  \/ CollectLogProbs
  \/ ComputeValues
  \/ \E r \in Ranks, steps \in 0 .. CriticEpochs : UpdateCritic(r, steps)
  \/ \E useful \in SUBSET DOMAIN lens : UpdateActor(useful)
  \/ ActorUpdated
  \/ \E save \in BOOLEAN : NextStep(save)
  \/ Relaunch

(* The last step has been taken.                                           *)
Done == pc = "rollout" /\ global_steps > MaxSteps /\ UNCHANGED vars

Next ==
  /\ UNCHANGED use_dynamic_bsz
  /\ Driver \/ (\E r \in Ranks : Rank(r) \/ Fail(r)) \/ Done

Spec == Init /\ [][Next]_vars

-----------------------------------------------------------------------------
(* Properties.                                                             *)

(* All ranks enter the same collectives in the same order, and none        *)
(* returns while another still waits for it, although they hold rows of    *)
(* different lengths and ask for different numbers of micro-batches.       *)
CollectivesMatch ==
  \A r, v \in Ranks :
    /\ \A n \in 1 .. Min({Len(calls[r]), Len(calls[v])}) : calls[r][n] = calls[v][n]
    /\ at[r] = "returned" => Len(calls[v]) <= Len(calls[r])

(* The shards of the model take the same steps: gradients that overflow on *)
(* one rank only make all of them skip a step.                             *)
ShardsInStep ==
  \A r, v \in Ranks :
    at[r] \in {"idle", "returned"} /\ at[v] \in {"idle", "returned"} => shard[r] = shard[v]

(* At every step the gradient is the sum over the rows of its mini-batch,  *)
(* each once, however they were packed.                                    *)
GradientOfMiniBatch ==
  \A r \in Ranks : at[r] = "clip" =>
    /\ Len(summed[r]) = Len(left[r][1])
    /\ ToSet(summed[r]) = ToSet(left[r][1])

(* The old log-probabilities are put back beside their own rows.           *)
LogProbsOfRows ==
  old_log_probs # << >> => old_log_probs = [i \in DOMAIN lens |-> i]

(* The baseline of a row is what a critic predicted that had not trained   *)
(* on the returns of this batch.                                           *)
ValuesBeforeTraining ==
  \A i \in DOMAIN values :
    pc # "rollout" =>
      \A n \in DOMAIN values[i] : values[i][n][1] # global_steps

(* "Data Parallel CNN Critic for PPO training.": the ranks hold copies of  *)
(* one model.                                                              *)
ReplicasAgree == trainees = {} => \A r, v \in Ranks : critic[r] = critic[v]

=============================================================================
