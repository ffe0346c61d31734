---------------------------- MODULE RolloutBatch ----------------------------
(***************************************************************************)
(* The rows of one batch on their way from the prompts to the actor.       *)
(*                                                                         *)
(* Every prompt is repeated, every repetition is a request that an agent   *)
(* loop worker answers with one row per turn, and nobody knows in advance  *)
(* how many.  fit (and _validate) then repeat the prompts to match, pad    *)
(* and reorder the rows, compute advantages per trajectory and send the    *)
(* useful rows to the actor.  A request is named by its position in the    *)
(* batch, which stands for its request_id.                                 *)
(***************************************************************************)
EXTENDS SeqlenBalancing

CONSTANTS
  Modes,        (* subset of {"train", "validate"}: what the batch is for  *)
  Estimators,   (* algorithm.adv_estimator, one is chosen at the start     *)
  Prompts,      (* rows the dataloader yields                              *)
  Repeats,      (* rollout.n, or val_kwargs.n                              *)
  Workers,      (* rollout.agent.num_workers                               *)
  WorldSize,    (* ranks of the actor's worker group                       *)
  Rewards,      (* rewards of one turn                                     *)
  CriticValue,  (* what the critic predicts for a row                      *)
  MaxTurns,     (* bound: turns of a rollout, at most the five that the    *)
                (* agent loop would drop                                   *)
  MaxRows       (* bound: rows of a batch before padding                   *)

ASSUME BatchAssumption ==
  /\ Modes \subseteq {"train", "validate"}
  /\ Estimators \subseteq {"grpo_process", "grpo_traj_outcome",
                           "reinforce_plus_plus_pos"}
  /\ {Prompts, Repeats, Workers, WorldSize, MaxTurns} \subseteq Nat \ {0}
  /\ Rewards \subseteq Int
  /\ CriticValue \in Int

VARIABLES
  mode, estimator,
  pc,        (* how far the batch has come                                 *)
  results,   (* rewards of the turns each request's rollout has returned   *)
  rows,      (* the batch                                                  *)
  trained    (* the batch update_actor has received                        *)

vars == << mode, estimator, pc, results, rows, trained >>

(* The members of a sequence that are kept, in their order.                *)
Kept(s, Keep(_)) ==
  FlattenSeq([i \in DOMAIN s |-> IF Keep(s[i]) THEN << s[i] >> ELSE << >>])

-----------------------------------------------------------------------------
(* Rows and requests before generation.                                    *)

(* Slip: the repetitions are stacked, not interleaved.                     *)
Slip_Repeated == [i \in 1..(Prompts * Repeats) |-> ((i - 1) % Prompts) + 1]
(* repeat(interleave = True): the prompt of each row.                      *)
Repeated == [i \in 1..(Prompts * Repeats) |-> ((i - 1) \div Repeats) + 1]

(* pad_dataproto_to_divisor: rows from the front again, as often as needed.*)
PadSize(n, divisor) == IF n % divisor = 0 THEN 0 ELSE divisor - (n % divisor)
Padded(s, divisor) ==
  [i \in 1..(Len(s) + PadSize(Len(s), divisor)) |-> s[((i - 1) % Len(s)) + 1]]

(* The gen batch, repeated by itself: the prompt of each request.          *)
Requests ==
  LET gen == [i \in 1..(Prompts * Repeats) |-> ((i - 1) \div Repeats) + 1]
  IN IF mode = "validate" THEN Padded(gen, Workers) ELSE gen

Init ==
  /\ mode \in Modes
  /\ estimator \in Estimators
  /\ pc = "start"
  /\ results = << >>
  /\ rows = << >>
  /\ trained = << >>

(* chunk asserts that all workers get the same number of requests.         *)
Dispatch ==
  /\ pc = "start"
  /\ pc' = IF Len(Requests) % Workers = 0 THEN "rollout" ELSE "raised"
  /\ results' = [i \in 1..Len(Requests) |-> << >>]
  /\ UNCHANGED << mode, estimator, rows, trained >>

(* Rollouts end in any order; each has played at least one turn.           *)
FinishRollout(i, rewards) ==
  /\ pc = "rollout"
  /\ results[i] = << >>
  /\ results' = [results EXCEPT ![i] = rewards]
  /\ SumSeq([j \in 1..Len(results) |->
              IF j = i THEN Len(rewards)
              ELSE IF results[j] = << >> THEN 1 ELSE Len(results[j])]) <= MaxRows
  /\ UNCHANGED << mode, estimator, pc, rows, trained >>

-----------------------------------------------------------------------------
(* Collecting the rows and giving each its prompt.                         *)

Row(i, k) ==
  [request |-> i, turn_idx |-> k - 1,
   reward |-> results[i][k],
   score |-> SumSeq(SubSeq(results[i], k, Len(results[i]))),
   uid |-> 0, padding |-> FALSE, adv |-> 0]

RowsOf(i) == [k \in 1..Len(results[i]) |-> Row(i, k)]

(* A worker flattens the rows of its requests in the order of the requests *)
(* and the manager concatenates the workers' in the order of the workers.  *)
PerWorker == Len(results) \div Workers
WorkerRows(w) ==
  FlattenSeq([j \in 1..PerWorker |-> RowsOf((w - 1) * PerWorker + j)])
Collected == FlattenSeq([w \in 1..Workers |-> WorkerRows(w)])

(* Validation removes the padding by its number of requests.               *)
Unpadded(s) ==
  IF mode = "validate" THEN SubSeq(s, 1, Len(s) - PadSize(Prompts * Repeats, Workers))
  ELSE s

Collect ==
  /\ pc = "rollout"
  /\ \A i \in 1..Len(results) : results[i] # << >>
  /\ rows' = Unpadded(Collected)
  /\ pc' = "collected"
  /\ UNCHANGED << mode, estimator, results, trained >>

(* How many rows each request has.                                         *)
RepeatTimes ==
  [i \in 1..Len(results) |-> Cardinality({r \in 1..Len(rows) : rows[r].request = i})]

(* sample_level_repeat of the repeated prompts, and union with the rows:   *)
(* torch refuses a list of another length than the batch, union refuses    *)
(* batches of different lengths.                                           *)
Expanded ==
  FlattenSeq([i \in 1..Len(Repeated) |-> [k \in 1..RepeatTimes[i] |-> Repeated[i]]])

Expand ==
  /\ pc = "collected"
  /\ IF Len(RepeatTimes) = Len(Repeated) /\ Len(Expanded) = Len(rows)
     THEN /\ pc' = IF mode = "validate" THEN "validated" ELSE "expanded"
          /\ rows' = [r \in 1..Len(rows) |-> [rows[r] EXCEPT !.uid = Expanded[r]]]
     ELSE /\ pc' = "raised"
          /\ UNCHANGED rows
  /\ UNCHANGED << mode, estimator, results, trained >>

-----------------------------------------------------------------------------
(* Padding, balancing, advantages and the update.                          *)

(* Slip: the copies are not marked.                                        *)
Slip_Pad ==
  /\ pc = "expanded"
  /\ rows' = Padded(rows, Workers)
  /\ pc' = "padded"
  /\ UNCHANGED << mode, estimator, results, trained >>
Pad ==
  /\ pc = "expanded"
  /\ rows' = [r \in 1..Len(Padded(rows, Workers)) |->
                [Padded(rows, Workers)[r] EXCEPT !.padding = r > Len(rows)]]
  /\ pc' = "padded"
  /\ UNCHANGED << mode, estimator, results, trained >>

Orders(n) == {o \in [1..n -> 1..n] : \A i, j \in 1..n : i # j => o[i] # o[j]}

(* _balance_batch, or trainer.balance_batch = False and the order is kept: *)
(* sequence lengths decide the order and the parts must be equal.          *)
Balance(order) ==
  /\ pc = "padded"
  /\ \/ /\ Len(rows) % WorldSize = 0
        /\ rows' = [r \in 1..Len(rows) |-> rows[order[r]]]
        /\ pc' = "balanced"
     \/ /\ Len(rows) % WorldSize # 0
        /\ pc' = "raised"
        /\ UNCHANGED rows
  /\ UNCHANGED << mode, estimator, results, trained >>

Canonical == Kept(rows, LAMBDA row : ~ row.padding)

(* x less the mean of xs, times the positive Len(xs); the division by the  *)
(* standard deviation is another positive factor.                          *)
Centred(x, xs) == IF Len(xs) = 1 THEN x ELSE Len(xs) * x - SumSeq(xs)

(* Slip: sorted by the rewards.                                            *)
Slip_TurnOrder(a, b) == a.reward < b.reward
(* grpo_process: reward-to-go of the centred rewards over the trajectory,  *)
(* sorted by turn, looked up by request and turn.                          *)
TurnOrder(a, b) == a.turn_idx < b.turn_idx
ProcessAdvantage(row, canonical) ==
  LET rewards == [r \in DOMAIN canonical |-> canonical[r].reward]
      traj    == Sorted(Kept(canonical, LAMBDA x : x.request = row.request), TurnOrder)
      at      == SelectLastInSeq(traj, LAMBDA x : x.turn_idx = row.turn_idx)
  IN SumSeq([j \in 1..(Len(traj) - at + 1) |-> Centred(traj[at + j - 1].reward, rewards)])

(* grpo_traj_outcome: the centred score of the trajectory's first turn.    *)
OutcomeAdvantage(row, canonical) ==
  LET anchors == Kept(canonical, LAMBDA x : x.turn_idx = 0)
      own     == SelectLastInSeq(anchors, LAMBDA x : x.request = row.request)
  IN Centred(anchors[own].score, [a \in DOMAIN anchors |-> anchors[a].score])

(* reinforce_plus_plus_pos: what the critic did not expect, if positive.   *)
PositiveAdvantage(row) ==
  IF row.score > CriticValue THEN row.score - CriticValue ELSE 0

Advantage(row, canonical) ==
  CASE estimator = "grpo_process"      -> ProcessAdvantage(row, canonical)
    [] estimator = "grpo_traj_outcome" -> OutcomeAdvantage(row, canonical)
    [] OTHER                           -> PositiveAdvantage(row)

(* compute_advantage: the copies are left out of what is centred, sorted   *)
(* and looked up.                                                          *)
ComputeAdvantage ==
  /\ pc = "balanced"
  /\ LET canonical == Canonical
     IN  rows' = [r \in 1..Len(rows) |-> [rows[r] EXCEPT !.adv = Advantage(rows[r], canonical)]]
  /\ pc' = "advantage"
  /\ UNCHANGED << mode, estimator, results, trained >>

(* Slip: for every estimator.                                              *)
Slip_Useful == Kept(rows, LAMBDA row : row.adv # 0)
(* filter_zero_advantage_trajectories, for the estimators that clamp.      *)
Useful ==
  IF estimator = "reinforce_plus_plus_pos"
  THEN Kept(rows, LAMBDA row : row.adv # 0)
  ELSE rows

(* The useful rows are padded for the ranks; with none the update is       *)
(* skipped.                                                                *)
UpdateActor ==
  /\ pc = "advantage"
  /\ trained' = IF Useful = << >> THEN << >> ELSE Padded(Useful, WorldSize)
  /\ pc' = "updated"
  /\ UNCHANGED << mode, estimator, results, rows >>

Done == pc \in {"updated", "validated"} /\ UNCHANGED vars

Next ==
  \/ Dispatch
  \/ pc = "rollout" /\ \E i \in 1..Len(results) :
       \E n \in 1..MaxTurns : \E rewards \in [1..n -> Rewards] : FinishRollout(i, rewards)
  \/ Collect \/ Expand \/ Pad
  \/ pc = "padded" /\ \E order \in Orders(Len(rows)) : Balance(order)
  \/ ComputeAdvantage \/ UpdateActor \/ Done

Spec == Init /\ [][Next]_vars

-----------------------------------------------------------------------------
(* Properties.                                                             *)

TypeOK ==
  /\ mode \in {"train", "validate"}
  /\ pc \in {"start", "rollout", "collected", "expanded", "validated", "padded",
             "balanced", "advantage", "updated", "raised"}
  /\ \A i \in 1..Len(results) : results[i] \in UNION {[1..n -> Rewards] : n \in 0..MaxTurns}
  /\ \A s \in {rows, trained} : \A r \in 1..Len(s) :
       /\ s[r].request \in 1..Len(results)
       /\ s[r].turn_idx \in 0..(MaxTurns - 1)
       /\ s[r].uid \in 0..Prompts
       /\ s[r].padding \in BOOLEAN

Labelled == {"expanded", "validated", "padded", "balanced", "advantage", "updated"}

(* A row carries the prompt and the reward of the rollout it came from,    *)
(* although prompts are repeated twice and only counts tie them to rows    *)
(* ("so we can expand the original batch to match gen outputs").           *)
RowsKeepTheirPrompt ==
  pc \in Labelled =>
    \A r \in 1..Len(rows) :
      LET row == rows[r] IN
      /\ row.uid = Requests[row.request]
      /\ row.reward = results[row.request][row.turn_idx + 1]

(* Padding and reordering lose no turn of any rollout and count none of    *)
(* them twice as a genuine row.                                            *)
EveryTurnOnce ==
  pc \in Labelled =>
    \A i \in 1..Len(results) : \A k \in 1..Len(results[i]) :
      Cardinality({r \in 1..Len(rows) : /\ rows[r].request = i
                                        /\ rows[r].turn_idx = k - 1
                                        /\ ~ rows[r].padding}) = 1

(* What the estimators define, computed from the rollouts themselves.      *)
AllTurns == FlattenSeq(results)
FirstScores == [i \in 1..Len(results) |-> SumSeq(results[i])]
ReferenceAdvantage(row, turns, scores) ==
  LET own == results[row.request] IN
  CASE estimator = "grpo_process" ->
         SumSeq([j \in 1..(Len(own) - row.turn_idx) |-> Centred(own[row.turn_idx + j], turns)])
    [] estimator = "grpo_traj_outcome" ->
         Centred(scores[row.request], scores)
    [] OTHER -> PositiveAdvantage(row)

(* Advantages depend neither on the order of the rows nor on the copies    *)
(* that pad the batch ("so the result is invariant to batch row order").   *)
AdvantageOfRollout ==
  pc \in {"advantage", "updated"} =>
    LET turns == AllTurns
        scores == FirstScores
    IN  \A r \in 1..Len(rows) : rows[r].adv = ReferenceAdvantage(rows[r], turns, scores)

(* Every rank gets the same number of rows, and the actor learns from      *)
(* every turn whose advantage is not clamped away and from no other.       *)
ActorBatchIsUseful ==
  pc = "updated" =>
    /\ Len(trained) % WorldSize = 0
    /\ {<< trained[r].request, trained[r].turn_idx >> : r \in 1..Len(trained)} =
       {<< i, k - 1 >> : i \in 1..Len(results), k \in 1..MaxTurns} \cap
       {<< rows[r].request, rows[r].turn_idx >> :
          r \in {q \in 1..Len(rows) : estimator # "reinforce_plus_plus_pos"
                                      \/ rows[q].adv > 0}}

(* Validation expands its batch by the rows of each request, whatever its  *)
(* size: it was padded to be divisible by the workers.                     *)
ValidationExpands == mode = "validate" => pc # "raised"

=============================================================================
