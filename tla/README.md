# Formal models of Odysseus

Odysseus trains a vision-language model to play Super Mario Land with
reinforcement learning. It is a fork of VERL: `verl/` is the training system,
`verl/jobs/` the presets and launchers. This directory holds TLA+
specifications of the parts of it whose correctness depends on order,
interleaving, failure or book-keeping, configurations with which TLC checks
them, and proofs that TLAPS checks. Paths below are relative to `src/verl/verl`
unless they begin with `src/`.

1. [The system](#1-the-system) 2. [Modules and the
code](#2-modules-and-the-code) 3. [What TLC checks](#3-what-tlc-checks) 4. [What
is proved](#4-what-is-proved) 5. [Where code and documentation
disagree](#5-where-code-and-documentation-disagree) 6. [What is not
modelled](#6-what-is-not-modelled)

## 1. The system

A training process (`RayPPOTrainer.fit`) loops over batches of prompts. For each
batch it has rollouts generated, recomputes log-probabilities and values,
computes advantages, updates critic and actor, and now and then validates and
saves a checkpoint. Everything else is a Ray actor it calls.

    fit ── generate_sequences ──> AgentLoopManager ── wake_up / sleep ──> vLLM servers
     |                                 | one chunk each                      | collective_rpc
     |                                 v                                     v
     |                          AgentLoopWorker ── generate ──> servers   hybrid workers
     |                            GameAgentLoop or ToolAgentLoop           (FSDP rank +
     |                                 | step (via server manager)          engine worker)
     |                                 v                                     ^
     |                          Super Mario Land, tools                      |
     └── compute_log_prob, update_critic, update_actor, save, load ──────────┘

| Component | State it keeps | Operations | What is hard about it |
| --- | --- | --- | --- |
| Game rollout loop, `experimental/agent_loop/game_agent_loop.py` | message window, images, token counts, snapshots, rewards, turn counters, the emulator | pending, generate, environment step, terminate, finalise | lists filled by different handlers must stay aligned; a window that is truncated while snapshots refer to it; turn limits; clean-up on every way out |
| Mario environment, `utils/game_envs/super_mario_land` | previous progress and lives, step count | reset, step | rewards that compare two steps across deaths, new lives and new levels |
| Tool rollout loop, `experimental/agent_loop/tool_agent_loop.py` | prompt ids, mask, log-probabilities, images, messages, instances of tools | pending, generate, call tools, interact, terminate | concurrent tools that fail at any point, before and after their release, while others go on; prompt and response told apart by a length; images told from their places by order alone |
| Server routing, `AsyncLLMServerManager` in `experimental/agent_loop/agent_loop.py` | a heap of counted servers and an LRU cache per worker | choose server, generate | evictions while a rollout is running, a heap changed in place |
| Executor, `workers/rollout/vllm_rollout/` | a request socket per worker, a loop per worker | collective_rpc, `_loop_forever` | a loop that ends at its first exception, answers left unread, calls without a timeout, collectives inside calls |
| Hybrid engine, `workers/fsdp_workers.py`, `workers/rollout/*` | mode, weights, memory and random state of every rank; prefix cache of every replica | wake_up, rollout_mode, sleep, trainer_mode, update_actor | collectives inside remote calls, memory shared by two programs, stale weights and caches |
| Training loop and checkpoints, `trainer/ppo/ray_trainer.py`, `utils/checkpoint/*` | step and epoch counters, data loader position, saved paths; files on disk | train step, rotate, save, load | crashes between and inside file writes, relaunches, rotation |
| Rows of a batch, `trainer/ppo/ray_trainer.py`, `protocol.py` | the batch: rows, prompts, request ids, rewards | repeat, chunk, collect, expand, pad, balance, advantage, filter | a rollout returns an unknown number of rows; copies and reordering must not change advantages |
| Batch protocol and dispatch, `protocol.py`, `single_controller/` | rows twice, as tensors and as arrays of objects | select, repeat, pad, split, join, chunk, dispatch, collect | two libraries that cut differently; padding that stays on the caller's batch; calls on answers not fetched yet |
| Advantage estimators, `trainer/ppo/core_algos.py` | none | about fifteen functions | observations between replies, groups of one, running sums |
| Length balancing, `utils/seqlen_balancing.py` | none | partitions, micro-batches and the way back | indices that are permuted twice |
| Sequence parallelism, `utils/ulysses.py`, `models/transformers/monkey_patch.py` | none | pad, slice, exchange tokens for heads, join | offsets of one at every border |
| Actor update, `workers/actor/dp_actor.py` | a shard of the model and of the gradient per rank | compute_log_prob, update_policy | collectives every rank must enter equally often although its rows differ; overflow on one rank |
| CNN critic, `workers/cnn_critic_worker.py`, `workers/critic/cnn_critic.py` | one network and optimizer per rank | compute values, update, save, load | copies that nobody synchronises |
| Level sampling, `ray_trainer.py`, `game_agent_loop.py` | a weight for each level | update from a batch, choose | weights that are replaced wholesale |

What makes each of them correct:

- *Rollout loops*: the model is shown the last turns and nothing else; row k of
  the training data pairs the prompt and reply of turn k with the reward turn k
  earned; a mask marks exactly what the model generated; every rollout ends and
  closes its emulator, its tools are released and their answers keep the order
  of the calls.
- *Environment*: what an episode earns is where Mario stands, and it ends when
  the game does.
- *Routing*: all calls of a rollout go to one server, which has its prefix
  cached, and rollouts are spread evenly.
- *Executor*: an answer is never taken for that of another call; ranks stay in
  step; a call hangs only when a worker has ended its loop.
- *Hybrid engine*: an update learns only from answers of the weights it starts
  from; requests find a complete engine; a GPU never has to hold the actor's
  module beside the engine, nor anything of the actor beside its KV cache; two
  random streams stay apart; the hand-over never blocks.
- *Checkpoints*: whatever instant the job dies, the tracker names a checkpoint
  that can be loaded and is a cut through one moment of training; resuming
  repeats and skips no batch.
- *Rows, protocol, balancing*: every row keeps its prompt and its objects, no
  turn is lost, computed twice or answered in another's place, advantages depend
  on the rollouts and not on padding or order.
- *Update*: all ranks enter the same collectives, their shards take the same
  steps, a gradient is that of its mini-batch, and a baseline does not know the
  batch it is a baseline for.
- *Level sampling*: every level keeps a chance near that of the others.

## 2. Modules and the code

| Module | Models | Used by |
| --- | --- | --- |
| `GameAgentLoop` | one rollout, `GameAgentLoop.run` and its handlers | `MarioRollout`, `MCGameAgentLoop`, `GameAgentLoopProofs` |
| `MarioEnv` | `PyBoySuperMarioLandEnv` over an arbitrary game | `MarioRollout` |
| `MarioRollout` | a rollout in the game: the two above composed | `MCMarioRollout`, `GameAgentLoopProofs` |
| `ToolAgentLoop` | `ToolAgentLoop.run`, its handlers and `_call_tool` | `ToolServing` |
| `VllmExecutor` | `collective_rpc` and the loops of the workers | `ToolServing` |
| `ToolServing` | a tool rollout decoded token by token by an executor | its own run, `ServingProofs` |
| `ServerManager` | `AsyncLLMServerManager` of every worker, batch after batch | `MCServerManager`, `ServingProofs` |
| `CheckpointedTrainer` | control of `fit`, checkpoints, crashes and launches | `MCCheckpointedTrainer`, `CheckpointedTrainerProofs` |
| `OnPolicyRollout` | the promise of the hybrid engine, without ranks or servers | `HybridEngine` (refinement) |
| `HybridEngine` | the hand-over between training and rollouts | `MCHybridEngine`, `HybridEngineProofs` |
| `RolloutBatch` | the rows of one batch from prompts to actor | `MCRolloutBatch`, `RolloutBatchProofs` |
| `SeqlenBalancing` | partitions, micro-batches, restoring the order | `PolicyUpdate`, `BatchAlgorithms`, `SeqlenBalancingProofs` |
| `PolicyUpdate` | learning from a batch on all ranks of actor and critic | `MCPolicyUpdate`, `PolicyUpdateProofs` |
| `SequenceParallel` | one forward pass with the tokens spread over ranks | `BatchAlgorithms` |
| `AdvantageEstimators` | the estimators over tokens and over groups | `BatchAlgorithms` |
| `BatchProtocol` | operations of `DataProto` and calls of worker groups | `BatchAlgorithms` |
| `LevelSampling` | weights of levels from a batch, chances from weights | `BatchAlgorithms` |
| `BatchAlgorithms` | the five above, each on inputs of its own | `MCBatchAlgorithms`, `BatchAlgorithmsProofs` |

Definitions whose names begin with `Slip_` are plausible mistakes in the
definition they precede. No specification uses them; substituting one for the
definition after it must break a property, which shows that the property
depends on that piece of code. PROJECT.json pairs each property with one.

**GameAgentLoop.** `pc` is the `GameState` of the loop. `Encode` is
`_handle_pending_state` and `Generate` `_handle_generating_state`;
`FirstObservation`, `PlayReply` and `RejectReply` are `_handle_environment_step`
for the freshly reset game, for a played action, and for a reply that cannot be
parsed or played. `Finalize` is the code after the loop: the parity of snapshots
and rewards, returns-to-go, trimming of the five last turns, and the rows.
`Fail` is any exception no handler catches, in the code after the loop too.
Messages and images are numbered by their turn, tokens are counted (context and
own tokens), rewards are integers. The discount is an integer too: the
recurrence is the code's, and its arithmetic is exact.

**MarioRollout.** `Play` replaces the arbitrary environment of `PlayReply`: the
reward is `EnvReward` and the end `EnvDone` of what the game did. The game
itself is external: between two calls Mario moves, begins to die, loses or gains
a life, or is in the next level. `unpaid` and `rejected` are history variables:
the way Mario came in actions that are not paid for, and the number of replies
that could not be played (`Reject`). `EarnedIsProgress` leaves open when an
episode ends, `PlaysOnlyAlive` says when it has to.

**ToolAgentLoop.** `state` is `AgentState`. The calls of a reply are tasks of
their own (`CallFails`, `Create`, `Execute`, `Release` or `ReleaseRaises` for
each), which end in any order. What goes wrong before the release becomes an
answer; the release in the `finally` and the work on the answer after it may
raise, and `gather` then raises at once (`CallRaises`) while the other tasks go
on (`TasksRun`). `ToolsDone` and `ToolsRaise` are what follows `asyncio.gather`
in `_handle_processing_tools_state`. Tokens are triples of who wrote them, in
which turn and for which call. An answer holds a list of images, of any length
in `ImageCounts`: the tokens get one place for the answer (`PlacesOf`), the
server gets the whole list (`ImagesOfAnswers`).

**VllmExecutor.** `CollectiveRpc` sends a request to every rank, `ReadAnswer`
takes one answer in rank order, `Return` is the end of the call. A worker
receives, may enter and leave a collective that needs all ranks, and answers,
or raises at any point and ends its loop. `Reached` is what a REQ socket does:
it refuses a request before the answer to the last one has been read.

**ToolServing.** Every reply takes an optional look-up of the LoRA adapter and
one step of the engine for each token. The rollout of this module is one of
`ToolAgentLoop` and its calls are those of `VllmExecutor`; both are proved.

**ServerManager.** One manager per agent loop worker. The heap is a list of the
servers of which `heapq` guarantees only that none precedes its parent
(`IsHeap`); `Heapreplace` chooses any such list for the counts after the root
was counted, and the root is what it is. That it is a least counted server is
not assumed but follows. The cachetools LRU is represented by ages (`Touch`),
and nothing is claimed of it for its own sake. `CallNew` and `CallKnown` are the
two branches of `_choose_server` followed by the dispatch of `generate`;
`Answer` is its return. A batch is replaced when all of its calls have returned,
as `asyncio.gather` has it.

**CheckpointedTrainer.** `TrainStep`, `NextEpoch`, `OutOfEpochs` and `NextStep`
are the two nested loops of `fit`; `Rotate`, `StartWrite`, `FinishWrite`,
`EndStage`, `TruncateTracker` and `WriteTracker` are `_save_checkpoint` and what
it calls, one action per file system effect, so that `Crash` can fall between
any two of them and inside any write; `LoadNothing`, `Resume` and `LoadFails`
are `_load_checkpoint`. Weights are the sequence of batches (with the launch)
they were trained on, which is what makes "no batch twice, none skipped" a
statement about the weights and not about a counter.

**HybridEngine.** The training process (`driver`), replicas, servers and ranks
each have a program counter. Remote calls are issued and awaited in separate
actions in the code's order: a server calls all of its workers and then awaits
them, the manager all of its replicas. A rank's `rollout_mode` is four actions
(collect parameters, resume weights, update weights, enter), because the
all-gather in the third needs every rank of the job. `actorOnGpu` has the module
and the parameters collected from it apart: the module leaves the GPU before the
engine's weights come back, the collected parameters stay referenced until the
weights are loaded (`del params`). `prefix` records which weights the blocks of
a prefix cache were computed with; `rng`, `trainRng` and `genRng` name random
streams: `seeded` is the state `_build_rollout` prepares for rollouts, `built`
the one a rank's generator has after building. `OnPolicyRollout` is the abstract
specification; `Phase` maps the driver's state to it.

**RolloutBatch.** A request's position stands for its `request_id`, a rollout is
the sequence of rewards of its turns. `Dispatch`, `FinishRollout`, `Collect`,
`Expand`, `Pad`, `Balance`, `ComputeAdvantage` and `UpdateActor` follow `fit`
line by line; `_validate` shares the first four. Sorting and sums are those of
`SeqlenBalancing`. Balancing is any reordering the
partition algorithm could produce. `Centred` multiplies deviations by the number
of elements, so that means stay integers; the common factor and the division by
the standard deviation scale all advantages alike.

**PolicyUpdate.** `Rollout`, `CollectLogProbs`, `ComputeValues`, `UpdateCritic`,
`UpdateActor`, `NextStep` and `Relaunch` are `fit`. A rank of the actor goes
through `Begin`, `StartMiniBatch`, `Count`, `Forward`, `Backward` and `Clip`;
`Enter` marks a collective, and `Met` lets a rank leave it when all others have
entered as many. A gradient is the list of rows it sums up, the weights of a
shard are the list of its steps, a copy of the critic the list of its steps with
the rank whose rows they were computed from.

**BatchAlgorithms.** Pure functions, each with a definition to be compared with.
Hidden states are sequences over tokens of sequences over heads, so that the
exchange of tokens for heads is the code's; attention is replaced by what it
reads. Advantages that the code divides by a count are fractions. A batch
goes through several operations and calls one after the other, with its padding
still on it; level weights go through several batches. In `BatchProtocol` the
tensors and the objects of a batch are repeated and cut by operators of their
own, as torch and numpy do it: `Interleaved` and `Expanded` by the arithmetic of
indices beside `RepeatEach` and `Tile`, `CutAt` at the sizes of the pieces
beside `ArraySplit` at their running totals. Micro-batches by tokens are only
asked for where the longest row fits (`LongestFits`), as the code asserts. The
estimators that use a value per row have one per row (`value`).

## 3. What TLC checks

| Run | Instance | States | Shows |
| --- | --- | --- | --- |
| `game_loop_markov` | one turn of context, equal turn limits of eight, two reply lengths: the presets in small | 240,296 | rows are the first turns in order, returns include the trimmed tail, the response of a row is exactly its own reply, rollouts end with the emulator closed |
| `game_loop_window` | three turns of context over six turns, two or three lives, two deaths, gained lives or finished levels | 151,014 | the prompt is exactly the last turns, a reward is that of its own reply, what an episode earns is where Mario stands, and the model plays on only while there is a game |
| `server_manager_sticky` | two batches of three rollouts, three servers, a cache of three | 14,298 | sticky sessions and even counts, with evictions during a batch and every heap that holds the counts |
| `trainer_restarts` | two ranks, five steps in epochs of two, three launches, forced saves, two checkpoints kept | 83,448 | the tracked checkpoint is whole and of one moment; every batch once; the last step is saved |
| `hybrid_handover` | two replicas, one of them on two nodes, four ranks, two updates, two requests per batch, failures | 3,676 | refinement of `OnPolicyRollout`, complete engines, memory that fits, random streams, completion |
| `rollout_batch_rows` | two prompts, two rollouts each, one or two turns, rewards 0 and 1, all orders of up to six rows | 838,140 | rows keep their prompt, every turn once, advantages of the rollouts alone, a useful and divisible actor batch, and (no deadlock) no assertion fails |
| `tool_serving` | replies of up to two tokens and three calls, two of them run, a response of seven tokens, lists of one or two images, calls that may fail at every step, two tensor parallel workers that may raise anywhere | 113,790 | mask, order, instances and images; answers of the call; ranks in step; liveness of rollout, releases and calls |
| `update_phase` | two data parallel ranks, batches of four and six rows of unequal lengths, both kinds of micro-batches, overflow, one failure | 725,086 | matching collectives, equal shards, exact gradients, log-probabilities beside their rows |
| `batch_algorithms` | up to six rows, two or three parts, up to four ranks and heads, four operations or batches in a row | 18,932 | each algorithm against its definition |
| `game_loop_masked_context` | two turns of context | | *violated*: masked tokens are generated |
| `trainer_torn_tracker` | no limit on checkpoints | | *violated*: automatic resuming succeeds |
| `update_replicas` | no failures | | *violated*: the copies of the critic agree |

Six more configurations are kept to be run by hand; each shows a further
disagreement or the need of a premise (section 5):
`tlc -config ServerManagerLeastRequests.cfg MCServerManager`,
`tlc -config TrainerKeepOne.cfg MCCheckpointedTrainer`,
`tlc -config HybridEngineAlwaysAwake.cfg MCHybridEngine`,
`tlc -config RolloutBatchValidation.cfg MCRolloutBatch`,
`tlc -config ToolServingImages.cfg ToolServing`,
`tlc -config HybridEngineSeeded.cfg MCHybridEngine`. All six are violated.

**Bounds.** Each is the least that lets the interesting case happen. Rollouts of
up to seven turns trim five and keep two rows; with six turns a window of three
slides three times. A cache of three and two batches of three rollouts mean that
the second batch begins with a full cache and evicts on every new call. Five
steps in epochs of two, saved every second step and the last, give a save at an
epoch's end, one in the middle and a forced one; three launches allow a crash of
a resumed run and a relaunch of a completed one, and rotation first removes a
directory at the third save. Two replicas, one with two servers, are needed for
a server to wait for another one's ranks; two updates for weights to become
stale. Two prompts with two repetitions distinguish interleaved from stacked
repetition; five rows make one copy for padding. Three calls with two executed
drop one, and let a call raise while another holds an instance; seven tokens let
a rollout have three rounds of tools and overflow in the third; two workers are
the least that can leave each other in a collective. The lengths of
`update_phase` make two ranks want different numbers of micro-batches, and six
rows on two ranks give a full and a short mini-batch; the second step is the
first with an actor update (`CriticWarmup`). The values of `MaxTokenLen` leave
one part or several, and meet rows they refuse. Two ranks of sequence
parallelism with two key heads, and four with fewer key heads than ranks, cover
both branches of the head exchange. `MaxCalls` and `MaxReply`, `MaxRpc`,
`MaxStep`, `MaxEvents`, `MaxLaunches`, `MaxRelaunches`, `MaxSteps`,
`MaxVersion`, `MaxRequests`, `MaxRows`, `MaxTurns`, `Rollouts` and `Small` are
bounds of the models, not of the code; `MaxTurns` of `RolloutBatch` stays below
the five turns the loop trims, because rows are counted after trimming.

**Symmetry** is used for request ids in `server_manager_sticky`, which are drawn
at random and only compared. **Deadlock** is not checked where the system
stops: a worker whose requests are used up, a trainer that is out of launches, a
failed hand-over, a rollout that has ended or whose engine hangs. It is checked
in `update_phase`: ranks that wait for each other are a deadlock, and a
failed rank is followed by a relaunch.

**Fairness.** `GameAgentLoop` is weakly fair in `Advance`: the loop is one
coroutine that the event loop resumes, `generate` is bounded by `max_tokens`,
and an environment step by a fixed number of frames. `HybridEngine` is weakly
fair in `Work` only, everything but the failure of a batch: remote calls are
executed, ranks run, and requests end because their length is bounded.
`ToolServing` is weakly fair in the disjunction of its actions: the rollout's
event loop, the server and the workers are processes that go on while they can.
Nothing is assumed of a worker that has ended its loop or that waits in a
collective, which is why `ToolRolloutEnds` and `HangsOnlyOnStopped` make an
exception for it. `OnlyRefusedStayOpen` needs no exception: the tasks of calls
go on whatever `run` and the engine do, and `execute` and `release` are assumed
to come back. Weak fairness of the disjunction suffices: in whatever order steps
are taken, a hand-over or a reply has only finitely many. No liveness is claimed
for `CheckpointedTrainer` (crashes may go on forever) or `ServerManager` (which
never waits).

## 4. What is proved

All theorems hold for every value of the constants that satisfies the named
assumption of the module, and the premises given here.

| Module | Theorem | Premises | Property |
| --- | --- | --- | --- |
| `GameAgentLoopProofs` | `TypeCorrect` | | `TypeOK` |
| | `PromptIsLastTurnsHolds` | | the prompt is the last turns |
| | `SnapshotsAlignedHolds`, `RewardsAlignedHolds` | | snapshot k and reward k belong to turn k |
| | `AssertionsNeverFail` | | the two assertions of the loop |
| | `TurnBudgetHolds`, `EmulatorReleased` | | turn limits, the emulator's life |
| | `MarkovResponseIsOwnReply` | one turn of context | a row's response is its reply |
| | `ReturnsIncludeTheTail` | returns are not normalised in the loop | the rows are the first turns, their returns those of the whole episode |
| | `PlayedPromptIsLastTurns`, `PlayedRewardsAligned` | | the two properties above, in the game of `MarioRollout` |
| | `EarnedFollowsProgress` | | what an episode earns is where Mario stands, less what is not paid, and the penalties |
| `CheckpointedTrainerProofs` | `TrainerTypeCorrect`, `TrackedCheckpointIsWhole` | runs resume, the limit on checkpoints is not one | the tracked checkpoint is whole |
| | `TrackedCheckpointIsOneMoment` | the same | its parts are of one moment |
| | `HistoryHasEachBatchOnce` | the same | every batch once, in order |
| | `LastStepIsAlwaysSaved` | the same | the last step is on disk |
| | `OneStepBeyondPerLaunch` | the same | one step beyond the budget per launch |
| | `CheckpointsAreBounded` | the same | n launches leave n times the limit |
| `HybridEngineProofs` | `HandoverTypeOK` | engines sleep (`FreeCache`) | `TypeOK` |
| | `HandoverRequestsFindEngine` | the same | requests find a complete engine |
| | `HandoverGpuMemoryFits` | the same | module and engine exclude each other, the KV cache and anything of the actor too |
| | `HandoverRandomStreamsApart` | the same | random streams stay apart |
| | `HandoverImplementsOnPolicy` | the same | refinement of `OnPolicyRollout` |
| `ServingProofs` | `ManagerTypeCorrect` | | `TypeOK` |
| | `BalancedCounts` | | counts differ by at most one |
| | `StickySession` | a batch fits into the cache | one server per rollout |
| | `ExecTypeCorrect` | | `ExecTypeOK` |
| | `CallsReadTheirAnswers` | | no answer is taken for another call's |
| | `RanksStayInStep` | | workers are at most one call apart |
| | `LoopTypeCorrect` | | `LoopTypeOK` |
| | `MaskIsOfTheResponse` | | mask, response and log-probabilities fit |
| | `AnswersFollowCalls` | | answers in the order of the calls |
| | `ToolsAreReleased` | | an instance is open only before its own call's release or when that raised; a rollout that goes on or ends normally has none |
| | `ServingImplementsLoop`, `ServingImplementsExecutor` | | the composition refines both of its parts |
| | `ImagesStayWithTokens` | | the lists of images sent along are those of the answers with places among the tokens, in order |
| | `Served...` | | the six properties above, of the composition |
| `RolloutBatchProofs` | `PromptsKept` | | a row has the prompt and the reward of its rollout |
| | `TurnsKept` | | padding and balancing lose and repeat no turn |
| | `AdvantagesKept` | | advantages are those of the rollouts, whatever the order and the copies |
| | `ActorGetsUseful` | | the actor gets the useful rows in equal shares |
| `SeqlenBalancingProofs` | `KarmarkarKarpExact` | the first states hold every row once | merging states loses and repeats no row |
| | `MicroBatchesExact` | a row and a part at least | the micro-batches of a rank hold every row once, as many as asked for |
| | `SplitType` | rows, and a positive size | the pieces of `split` are not empty, and joined they are the batch |
| | `RestoreUndoes` | distinct rows | `restore_dynamic_batch` undoes every rearrangement |
| `PolicyUpdateProofs` | `CollectivesMatchAlways` | | all ranks enter the same collectives |
| | `ShardsStayInStep` | | the shards take the same steps |
| | `GradientsAreOfMiniBatches` | | a gradient sums its mini-batch, each row once |
| | `LogProbsStayWithRows` | | log-probabilities stand beside their rows |
| | `BaselinesPrecedeTraining` | | a baseline does not know its batch |
| `BatchAlgorithmsProofs` | `RowsAreWhole` | `MeshAssumption`, `RowsAssumption` | a row stays one row, a call answers each in its place |
| | `LevelsNeverStarve` | `LevelsAssumption` | every level keeps its chance |
| | `PartsAlwaysExact` | `LengthsAssumption` | parts are exact and nearly equal, the order comes back |
| | `EstimatesAlwaysMatch` | `GroupsAssumption` | estimators count what they define |
| | `LogProbsAlwaysOfNextTokens` | `ForwardAssumption` | a log-probability is that of the next token of its row |

The first two parts of `SeqlenBalancingProofs` hold the general facts about
sequences and sums that the proofs about loops, batches and updates rest on.

**Game loop.** `PromptIsLastTurns` is not inductive: the window is truncated
after an observation is appended, one handler after the reply was. The
invariant says for each value of `pc` how long the window and the lists are and
which turn each position holds (`StateShape`), what every earlier snapshot and
reward says (`History`), and that the rows are those of the first turns with
the returns of `EpisodeReturns` (`OutputsAreRows`). `KeepLast`, the truncation,
is characterised by a lemma on sequences. The proof goes action by action; the
environment step is split by whether the window is full. `EpisodeReturns` runs
from the last turn to the first with a running return, the property sums each
row's later rewards times a power of the discount: `TailIsReturn` shows by
induction that they agree, for every discount. With `norm_in_agent_loop` the
returns are replaced by others, hence the premise. `RolloutInv` adds `GameFits`
to the invariant for the game: the emulator remembers where Mario stood after
the last action, and `EarnedIsProgress` itself, which is inductive with that. It
counts replies that could not be played, because a penalty can be a multiple of
the reward of a step and could not be told from one in the list of rewards.

**Server manager.** Counts are balanced because the root of the heap is a least
counted server: along the parents of any place, none is preceded by what stands
below it, so by induction on places none precedes the root. Stickiness needs the
claim that the ids a running batch has used are the youngest entries of the
cache: their ages lie below the number of used ids, which the batch size and
hence the cache size bounds, so none of them can be the entry that is evicted.
The step in which an entry ages uses that some used id must be older than it.

**Checkpoints.** The tracked checkpoint stays whole because everything that is
removed or rewritten belongs to another step. `PathsIInv` says that
`previous_saved_paths` increases and ends with the tracked step, so rotation
spares it whenever it keeps one besides the new one; `BehindIInv`, that the step
being saved lies after the tracked one; `WritingIInv`, which files of the new
directory already hold what is in memory, stage by stage, which is what is
needed when the tracker moves. Without resuming, a relaunch would overwrite the
tracked directory; with a limit of one, rotation removes it: both premises are
needed. `HInv` adds that memory is of one moment: critic and data loader have
seen exactly the batches the step counter says, and the actor those from the end
of the warm-up on. `LaunchesFit` counts the launches of a history for the step
budget, and `KInv` the directories that belong to the running process and to
those before it for the bound on the disk.

**Hybrid engine.** The invariant says which states a server can be in at each
state of the driver and of its replica (`ServerFits`), where a rank can be given
its server (`RankFits`), and derives weights, caches, memory and random streams
from where the rank is. The refinement maps a request's end to `Answer` (or to
nothing, when it changes no sample), the driver's steps to `Open`, `Close`,
`Update` and `Fail`, and hides all steps of servers and ranks.

**Executor.** While a call is made, a rank's request is in its inbox, or it is
working on it, or its answer is in the outbox, or has been read, and exactly one
of these (`InboxFits`, `WorkersFit`, `OutboxFits`, `OutputsFit`); between calls
nothing is under way (`WaitingFits`). So a new request finds all sockets free.
`AnsweredFits` relates the calls a rank has answered to the number of the
current one, from which `RanksInStep` follows.

**Tool loop.** `TextFits` says that prompt ids are the prompt followed by as
many tokens as the mask has, and what each of them is; `OrderFits`, what stands
before a token of a tool, and that the reply stands last while tools run;
`InstancesFit`, which task has an instance: it is inductive only because it
speaks of each task and not of the handler, which may be gone. `ImagesFit`
compares the answers of the recorded images with the places among the tokens
until the rollout ends; tokens that are appended bring their images behind those
before (`MoreImages`), and where images are recorded whose tokens did not fit,
the rollout has ended. The refinement proofs of `ToolServing` are step
simulations without a mapping: the composition has the variables of both parts.

**Sequences.** The library's induction theorems take the claim as an operator,
which the provers cannot instantiate. `SeqlenBalancingProofs` therefore states
induction about *sets* of numbers (`Induction`: a set that has 0 and, with each
number below n, the next one, has n), which is proved from the well-foundedness
of the naturals, and gets recursive functions from their equation (`Recursion`).
A claim about all prefixes of a sequence is then a claim about the set of
lengths it holds for. On this rest the facts about `FlattenSeq`, `InsertAt` and
sorting by insertion, cutting a sequence at given places, and maps that are
one-to-one. `SumSeq` is characterised by its partial sums (`SumBySums`); two
sequences of which one is the other in a new order have the same sum
(`SumRearranged`), which is shown by taking away the last number of one from its
place in the other.

**Rows of a batch.** What makes the pipeline hard to reason about is that a row
is found by counting: `sample_level_repeat` relies on the rows of request i
standing behind those of the requests before it, as many as it has turns. The
proof writes this order down once, as the sequence of all turns (`TurnSeq`), and
shows that the rows the workers return and the manager joins, cut at the
workers' shares (`CollectedInOrder`), and the repeated prompts
(`ExpandedInOrder`) both are images of it; the number of rows of a request is
counted by a bijection (`PlacesOfRequest`). If the rows expand at all,
validation has added no request for the workers (`NothingPadded`), so removing
the padding removes nothing. From then on `Fits` holds: each row says of its
turn what the rollout says, and every turn has exactly one row that is no copy.
That is inductive: copies are marked (`PadFits`), a reordering is onto because
it is one-to-one on a finite set (`OrderOnto`), and advantages touch neither.
`AdvantagesKept` needs nothing more. The rows that are no copies are the turns
in some order, so the number and the sum of their rewards, which is all that
`Centred` uses, are those of the rollouts (`SumOfRewards`, `SumOfScores`). The
rows of one request, sorted by insertion, have increasing turn numbers below
their number, so the j-th has turn j - 1 (`StrictlyAscending`,
`TrajectoryTurns`): the reward to go that is looked up by request and turn is
the rollout's.

**Balancing.** A state *divides* a set of rows among k sets when its sets have no
row twice and none that is not in the set (`Divides`). `Collection` says that
the states of the heap divide disjoint sets of rows whose union are all of them.
Merging two states keeps this with one state less, so the last state divides all
rows. Sorting parts, or rows in a part, permutes. How even the parts are is a
claim about each state (`Fair`): its sets differ in work by no more than the
heaviest row, are equally large if they have to be, and none is empty while
another has two rows. Merging joins the heaviest set of one state with the
lightest of the other, and so on inwards, so the spread of the result is at most
the larger of the two (`KarmarkarKarpFair`). The greedy partition has the same
invariant row by row (`GreedySoFar`); with equal sizes its bias outweighs all
work together, so a part is never chosen that has a row more than another. The
order a rank's rows are sent in is the parts one after the other, cut again at
equal sizes, hence each rank's part. `PartsInv` adds to the property that the
input is one of those to choose from.

**Update.** The hard question is whether ranks with rows of different lengths
could enter different collectives. `LockstepInv` answers it by the *place* of a
rank: how many mini-batches and micro-batches it has left and which collective
it is at (`Place`). `Following` maps the place of one collective to that of the
next, and depends only on data all ranks share (`Course`): the number of
mini-batches, and of micro-batches, on which the ranks have agreed by a maximum
if it varies. `Paced` relates any two ranks: with equally many collectives
entered they have entered the same ones and are at the same place, with one more
the first is at the place following. That no rank gets further ahead is what a
collective does. Shares of equal size give every rank equally many mini-batches
(`SplitType`), and micro-batches of the agreed number exist (`MicroBatchesExact`).
`ShardInv` adds to it: while some ranks are past the norm of a gradient and
others are about to leave it, the shards of those behind will become what the
others' are (`After`), because all of them see the same overflow. `RowsInv` says
that what a rank has computed, followed by what is planned, is its mini-batch
in the order of its micro-batches; `RestoreUndoes` turns the order back.
The assumptions are those of the module: batches have rows, and each divides
evenly among the ranks, as the driver's padding makes them. `CriticInv` says
which steps a copy of the critic can have taken in each phase, and that a
checkpoint holds none after its own, through relaunches that give every rank
rank 0's copy.

**Operations and calls on batches.** `RowsInv` says of the batch, of the batch
before padding and of the last one asked for that each is a table: lists of
tensors and of objects with equal row numbers. A call cuts a table into chunks
as `torch.chunk` does, its ranks answer chunk by chunk, and the answers of the
ranks of a mesh that are collected are joined. Tensors and objects are related
operation by operation: interleaving by division of indices is repeating each
row, reading by remainders is tiling (`RepeatedAlike`), because a block of equal
sizes is found by dividing (`BlocksAre`), and splitting at running totals is
cutting by sizes (`SplitsAreChunks`). `PickedInOrder` shows that these
are the answers to the chunks, each once, in the order of the chunks. It needs
that every data rank has one collected rank and that they are in order
(`MeshAssumption`), which is how the mesh of `fsdp_workers` is made: the first
of each group of sequence parallel ranks is collected.

**Levels.** The community modules define sums and products over a set by a fold
that takes members in an order CHOOSE decides. `FoldsAgree` shows that any
member may come first when the operation commutes, and from it come the laws of
sums (`SumTake`, `SumAdded`, `SumScaled`, `SumCompare`). A weight is an inverse
of an average of rows, so it lies between one over the most rows and one;
`LevelsInv` says so of every weight that is kept, and that the last answer is
made of the current weights.

**Estimators.** `EstimatesInv` says that the result is what the estimators make
of the chosen batch. Each recursion runs backward over the tokens; a claim about
its state after n tokens is proved by induction and says that it holds the sum
of the rewards it should (`GaeSums`, `SegmentStep`, `RemaxRuns`). For the best
tokens, a k-th value exists (`KthExists`), and the threshold at it keeps at
least as many as wanted, only better ones than those left out, and more than
wanted only where the last ones are equal (`KthKeeps`, `KeptAreBest`). That
needs a share of at most one, to which `trainer/ppo/core_algos.py:1058-1062`
clamps it. A row alone in its group keeps its score where the code says so. The
advantages of GRPO cancel in a group, and those of OPO weighted by lengths,
because the sum of differences is the difference of the sums
(`SumOfDifferences`); RLOO compares with the mean of the others in both its
forms, and pass@k has one row at most that gains. That all rows of a batch have
one width is how tensors are.

**Forward pass.** `ForwardInv` says that the result is the code's function of
the input; the rest is about that function. Rows are joined without padding, so
a token's place is found by counting the tokens of the rows before
(`RowsOfTokens`). A block of equal size is found by dividing (`HasPlace`,
`ShardsAre`), and that is how tokens are padded, cut among ranks, exchanged for
heads and exchanged back (`GatheredSeq`, `GatheredHeads`). When there are fewer
heads of keys than ranks, they are repeated; `KeyOfQuery` is the arithmetic by
which the key a rank holds for a query is the one the query would use on one
rank. It uses the two assertions of
`models/transformers/monkey_patch.py:273-278`, and that queries share heads of
keys evenly, as grouped heads do. From these follows `UlyssesIsAttention`: the
ranks together compute, head by head, what one rank would. Attention begins
where positions begin again, which is the first token of the row (`RowBegins`),
the label of a token is the next one of the joined rows (`LabelIsNext`), and
`PutBack` puts the values where the mask says. The last token of a row has the
first of the next as its label, and is the one that the slice of the response
leaves out.

**Only model-checked.** Liveness (`RolloutEnds`, `HandoverCompletes`,
`ToolRolloutEnds`, `OnlyRefusedStayOpen`, `HangsOnlyOnStopped`), because the
prover has no rules for fairness and ENABLED, and `PlaysOnlyAlive`. Every other
invariant and action property of the passing runs is the statement of a theorem.
`ValuesBeforeTraining` and the bounds on turns, steps and checkpoints are only
proved: they hold of every instance, and no run repeats them.

## 5. Where code and documentation disagree

Shown by a run that PROJECT.json lists with the lines it quotes:

- `game_loop_masked_context`: with more than one turn of context the response
  mask accumulates until the first truncation, while the prompt is encoded anew,
  so prompt tokens are marked as generated. The presets use one turn, where
  `MarkovResponseIsOwnReply` is proved.
- `trainer_torn_tracker`: the tracker is truncated before it is written; a crash
  in between makes every later launch raise, although older checkpoints are
  whole.
- `update_replicas`: the ranks of the "data parallel" critic never reduce their
  gradients, so its copies differ after the first update; only rank 0's is saved.

Shown by a configuration that is run by hand:

- `ServerManagerLeastRequests.cfg`: the manager balances assignments; nothing is
  uncounted when a request returns, so "least requests" is not what it does.
- `TrainerKeepOne.cfg`: with `max_actor_ckpt_to_keep = 1` the only checkpoint is
  removed before the next is written.
- `HybridEngineAlwaysAwake.cfg`: with `free_cache_engine` off the engines never
  receive new weights.
- `RolloutBatchValidation.cfg`: a validation batch that is not a multiple of the
  workers makes `_validate` raise.
- `ToolServingImages.cfg`: an answer of a tool gets one placeholder among the
  tokens (`tool_agent_loop.py:289-290`), but all images of its list are sent along
  (`tool_agent_loop.py:311-316`), although `tools/schemas.py:108` gives a list of
  several as an example. From then on images and places are shifted; the proved
  `ImagesHavePlaces` speaks of whole lists.
- `HybridEngineSeeded.cfg`: `_build_rollout` seeds the generator state of
  rollouts by data parallel rank (`fsdp_workers.py:610-614`), but the engines are put to
  sleep before the first rollout, and `trainer_mode` saves over it
  (`fsdp_workers.py:747`). What `RandomStreamsApart` shows is that the two streams
  stay two; that the tensor parallel ranks share one is up to how alike the
  ranks' generators are after building.

Behaviours met on the way, not stated as properties:

- With equal limits of N an episode plays N - 1 turns, because the first
  observation is already a user turn (`game_agent_loop.py:419`); the presets call
  the limit "maximum turns". `TurnBudget` states what the code does.
- A level that is finished has earned nothing in the end: the step into the next
  level is paid with the way back to zero (`pyboy_super_mario_land_env.py:79`).
- `previous_saved_paths` is not restored, so checkpoints of earlier launches are
  never rotated (`KeepsAtMost` is per launch); the critic ignores
  `max_ckpt_to_keep`. A completed run that is launched again trains one step more.
- Level weights are no part of a checkpoint: the first batch after a relaunch is
  drawn evenly.
- A tool whose release raises, or whose answer cannot be worked on, ends the
  rollout although a tool that fails to execute does not
  (`tool_agent_loop.py:452-476`); the other calls of the turn go on without it.
- When an agent loop worker raises, nobody puts the engines to sleep
  (`agent_loop.py:891`); `fit` ends with it.
- `collective_rpc` takes a timeout and ignores it (`vllm_async_server.py:95`). A
  worker that raises before a collective leaves the others in it, and its
  executor waits forever. `sleep` and `wake_up` sent through an engine's executor
  raise in `_execute_method` and end the workers' loops.
- The tool loop repeats earlier answers in `messages` when a turn has several,
  and records images of answers whose tokens did not fit. With a processor the
  system prompt stands before every turn of answers. The interaction handler does
  not test the length of the response before generating again.
- With micro-batches by tokens, a short last mini-batch weighs less, and a
  micro-batch may hold more than `max_token_len`, which bounds each row and the
  mean only.
- RLOO keeps the score of a row that is alone in its group, its vectorised form
  gives it zero.
- A batch with padding enabled and 5 rows for 4 ranks makes `torch.chunk` return
  fewer pieces than asked for, and an assertion fails. Automatic padding stays on
  the caller's batch (`decorator.py:106`).

## 6. What is not modelled

PROJECT.json lists every component with its status and reason.

- *Numerical code*: tensors, networks, losses, optimizers, KL penalties,
  importance weights, whitening and other divisions by a standard deviation,
  kernels. Their correctness is a matter of real arithmetic, of which TLC has
  none. What is discrete about them (which rows, which tokens, in which order,
  how often) is modelled.
- *Text*: templates, tokenization, parsing of replies, the grids of images.
- *Alternatives no preset selects*: the Megatron workers and checkpoint manager,
  SGLang, COLOCATED and STANDALONE replicas of the hybrid engine (the executor
  has what they call), reward models and the reward loop, LoRA weight
  synchronisation, `resume_path`, HDFS, REMAX baselines.
- *Straight-line or offline code*: entry points, configuration objects, model
  merger, data sets, model registries and patches for single architectures,
  logging and metrics.
- *External*: Ray (a call reaches every worker once and returns when all have),
  the inference engine, the emulator and the game, file system semantics beyond
  torn files, vendored code.

Most of the repository's lines are of the first three kinds, which is why the
modelled share of all lines is small although the control of the presets' path
through the system is covered from the launcher's loop to the collectives of a
rank. A model of, say, the SGLang back end would add lines and repeat the
properties of the vLLM one; a model of kernels would have nothing to say.

Within the modelled parts, the learning rate schedule, tensor layout and the
padding of token tensors, the tools' own work, and backward passes of
sequence parallelism are left out. The tool loop is modelled
with `calculate_log_probs` on; without it the list of log-probabilities stays
empty and nothing else changes. The critic's relaunch is modelled, but
no property of the runs is about it: its copies differ before.
