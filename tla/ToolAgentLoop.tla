---------------------------- MODULE ToolAgentLoop ----------------------------
(***************************************************************************)
(* ToolAgentLoop.run: one rollout of a model that may call tools and talk  *)
(* to an interaction.                                                      *)
(*                                                                         *)
(*   pending -> generating -> processing_tools -> generating ...           *)
(*                         -> interacting      -> generating ...           *)
(*                         -> terminated                                   *)
(*                                                                         *)
(* Only prompt_ids grows; the response is cut off its end at the very last *)
(* by the length of response_mask.  The tools of a reply run concurrently. *)
(* A token is <<what, turn, call>>: who wrote it, in which assistant turn, *)
(* and for which call of that turn.                                        *)
(* The server is asked for log-probabilities (calculate_log_probs).        *)
(***************************************************************************)
EXTENDS Integers, Sequences, SequencesExt, FiniteSetsExt

CONSTANTS
  ResponseLength,     (* rollout.response_length                           *)
  MaxAssistantTurns,  (* multi_turn.max_assistant_turns, 0 for none        *)
  MaxUserTurns,       (* multi_turn.max_user_turns, 0 for none             *)
  MaxParallelCalls,   (* multi_turn.max_parallel_calls                     *)
  Interacts,          (* an interaction_config_path is given               *)
  HasProcessor,       (* the model has a processor for images              *)
  ImageCounts,        (* how many images an answer's list may hold         *)
  MaxReply,           (* bound: tokens of one reply                        *)
  MaxCalls            (* bound: tool calls parsed from one reply           *)

ASSUME ToolLoopAssumption ==
  /\ ResponseLength \in Nat \ {0}
  /\ MaxAssistantTurns \in Nat
  /\ MaxUserTurns \in Nat
  /\ MaxParallelCalls \in Nat \ {0}
  /\ Interacts \in BOOLEAN
  /\ HasProcessor \in BOOLEAN
  /\ ImageCounts \subseteq Nat
  /\ MaxReply \in Nat \ {0}
  /\ MaxCalls \in Nat

VARIABLES
  state,            (* AgentState, or "raised" when run raises             *)
  prompt_ids,       (* all tokens so far                                   *)
  response_mask,    (* 1 for a generated token, 0 for any other            *)
  response_logprobs,(* the turn of the reply a value is from, 0 for a 0.0  *)
  image_data,       (* images, an answer's list as one <<turn, call, n>>   *)
  messages,         (* what an interaction is shown, <<who, turn, call>>   *)
  assistant_turns,
  user_turns,
  tool_calls,       (* number of calls parsed from the last reply          *)
  task,             (* where the task of each running call is              *)
  answer,           (* what each call answered, and its number of images   *)
  open              (* tool instances created and not yet released         *)

textVars == << prompt_ids, response_mask, response_logprobs, image_data, messages >>
turnVars == << assistant_turns, user_turns, tool_calls >>
taskVars == << task, answer, open >>
loopVars == << state, textVars, turnVars, taskVars >>

(* The calls of the last reply that are executed.                          *)
Running == 1 .. Min({tool_calls, MaxParallelCalls})

LoopInit ==
  /\ state = "pending"
  /\ prompt_ids = << >>
  /\ response_mask = << >>
  /\ response_logprobs = << >>
  /\ image_data = << >>
  /\ messages = << <<"prompt", 0, 0>> >>
  /\ assistant_turns = 0
  /\ user_turns = 0
  /\ tool_calls = 0
  /\ task = << >>
  /\ answer = << >>
  /\ open = {}

Repeat(x, n) == [i \in 1 .. n |-> x]
NoAnswer == << "none", 0 >>

(* _handle_pending_state: the chat template is applied to the messages.    *)
Pending ==
  /\ state = "pending"
  /\ prompt_ids' = << <<"prompt", 0, 0>> >>
  /\ state' = "generating"
  /\ UNCHANGED << response_mask, response_logprobs, image_data, messages,
                  turnVars, taskVars >>

-----------------------------------------------------------------------------
(* _handle_generating_state.                                               *)

(* Slip: the length of the response does not end a rollout.                *)
Slip_LimitReached(mask, assistant, user) ==
  \/ MaxAssistantTurns > 0 /\ assistant >= MaxAssistantTurns
  \/ MaxUserTurns > 0 /\ user >= MaxUserTurns
LimitReached(mask, assistant, user) ==
  \/ Len(mask) >= ResponseLength
  \/ MaxAssistantTurns > 0 /\ assistant >= MaxAssistantTurns
  \/ MaxUserTurns > 0 /\ user >= MaxUserTurns

(* A reply of n tokens comes back and k calls are parsed from it, unless a *)
(* limit ends the rollout first.                                           *)
Generated(n, k) ==
  LET turn == assistant_turns + 1
      ended == LimitReached(response_mask', turn, user_turns)
  IN
  /\ state = "generating"
  /\ assistant_turns' = turn
  /\ prompt_ids' = prompt_ids \o Repeat(<<"reply", turn, 0>>, n)
  /\ response_mask' = response_mask \o Repeat(1, n)
  /\ response_logprobs' = response_logprobs \o Repeat(turn, n)
  /\ tool_calls' = IF ended THEN tool_calls ELSE k
  /\ messages' = IF Interacts /\ ~ ended
                 THEN Append(messages, <<"reply", turn, 0>>) ELSE messages
  /\ state' = CASE ended     -> "terminated"
                [] ~ ended /\ k > 0 -> "processing_tools"
                [] ~ ended /\ k = 0 /\ Interacts -> "interacting"
                [] OTHER     -> "terminated"
  /\ task' = IF state' = "processing_tools"
             THEN Repeat("new", Min({k, MaxParallelCalls})) ELSE << >>
  /\ answer' = Repeat(NoAnswer, Len(task'))
  /\ UNCHANGED << image_data, user_turns, open >>

(* server_manager.generate raises, and run with it.                        *)
GenerateRaises ==
  /\ state = "generating"
  /\ state' = "raised"
  /\ UNCHANGED << textVars, turnVars, taskVars >>

-----------------------------------------------------------------------------
(* _call_tool: each call is a task of its own.  An exception before the    *)
(* release becomes an answer; one of the release, or of the work on the    *)
(* answer after it, leaves the task, and run with it.  gather cancels      *)
(* nothing: the other tasks go on although run has raised.                 *)

Instance(i) == << assistant_turns, i >>

(* Slip: the tasks end with run.                                           *)
Slip_TasksRun == state = "processing_tools"
TasksRun == state \in {"processing_tools", "raised"}

(* The arguments are no JSON, the tool is unknown, or create raises.       *)
CallFails(i) ==
  /\ TasksRun
  /\ task[i] = "new"
  /\ task' = [task EXCEPT ![i] = "done"]
  /\ answer' = [answer EXCEPT ![i] = << "error", 0 >>]
  /\ UNCHANGED << state, textVars, turnVars, open >>

Create(i) ==
  /\ TasksRun
  /\ task[i] = "new"
  /\ task' = [task EXCEPT ![i] = "created"]
  /\ open' = open \cup {Instance(i)}
  /\ UNCHANGED << state, textVars, turnVars, answer >>

(* The tool answers with a text, a video or a list of images, of which     *)
(* those that are None do not count, or raises.                            *)
Results == {<< "text", 0 >>, << "video", 0 >>, << "error", 0 >>}
             \cup {<< "image", n >> : n \in ImageCounts}
Execute(i, result) ==
  /\ TasksRun
  /\ task[i] = "created"
  /\ task' = [task EXCEPT ![i] = "executed"]
  /\ answer' = [answer EXCEPT ![i] = result]
  /\ UNCHANGED << state, textVars, turnVars, open >>

(* The answer of an execution that did not raise is worked on after the    *)
(* release: "failed" is an answer that is no ToolResponse or makes none.   *)
WaysToEnd(i) == IF answer[i][1] = "error" THEN {"done"} ELSE {"done", "failed"}

(* Slip: released only after a successful execution.                       *)
Slip_Release(i) ==
  /\ TasksRun
  /\ task[i] = "executed"
  /\ \E end \in WaysToEnd(i) : task' = [task EXCEPT ![i] = end]
  /\ open' = IF answer[i][1] = "error" THEN open ELSE open \ {Instance(i)}
  /\ UNCHANGED << state, textVars, turnVars, answer >>
Release(i) ==
  /\ TasksRun
  /\ task[i] = "executed"
  /\ \E end \in WaysToEnd(i) : task' = [task EXCEPT ![i] = end]
  /\ open' = open \ {Instance(i)}
  /\ UNCHANGED << state, textVars, turnVars, answer >>

(* release raises: the tool keeps what it holds for the instance.          *)
ReleaseRaises(i) ==
  /\ TasksRun
  /\ task[i] = "executed"
  /\ task' = [task EXCEPT ![i] = "kept"]
  /\ UNCHANGED << state, textVars, turnVars, answer, open >>

(* gather passes on the first exception of a task, and nothing handles it. *)
CallRaises ==
  /\ state = "processing_tools"
  /\ \E i \in Running : task[i] \in {"failed", "kept"}
  /\ state' = "raised"
  /\ UNCHANGED << textVars, turnVars, taskVars >>

-----------------------------------------------------------------------------
(* _handle_processing_tools_state, once asyncio.gather has every answer.   *)

TokenOf(i) == << IF answer[i][1] = "image" THEN "image" ELSE "tool",
                 assistant_turns, i >>

(* Slip: the answers are taken as the tasks end.                           *)
Slip_ToolMessages ==
  LET failed == SelectSeq([i \in Running |-> i], LAMBDA i : answer[i][1] = "error")
      others == SelectSeq([i \in Running |-> i], LAMBDA i : answer[i][1] # "error")
  IN  [j \in Running |-> TokenOf((failed \o others)[j])]
(* add_messages: the answers in the order of the calls.                    *)
ToolMessages == [i \in Running |-> TokenOf(i)]

(* The template puts the system prompt before them, which only a tokenizer *)
(* without a processor removes again.                                      *)
ToolTokens ==
  (IF HasProcessor THEN << <<"system", assistant_turns, 0>> >> ELSE << >>)
    \o ToolMessages

(* The loop extends the messages by all of add_messages at every answer.   *)
ShownMessages == FlattenSeq([i \in Running |-> SubSeq(ToolMessages, 1, i)])

(* The places for images among tokens, one for each answer with images.    *)
PlacesOf(tokens) ==
  FlattenSeq([i \in DOMAIN tokens |->
                IF tokens[i][1] = "image" THEN << <<tokens[i][2], tokens[i][3]>> >>
                ELSE << >>])

(* All images of an answer are recorded, however many its list holds.      *)
ImagesOfAnswers ==
  FlattenSeq([i \in Running |-> IF answer[i][1] = "image"
                                THEN << << assistant_turns, i, answer[i][2] >> >>
                                ELSE << >>])

Unsupported(i) ==
  answer[i][1] = "video" \/ (answer[i][1] = "image" /\ ~ HasProcessor)

(* Slip: tokens of tools are marked as generated.                          *)
Slip_Extend(tokens) ==
  /\ prompt_ids' = prompt_ids \o tokens
  /\ response_mask' = response_mask \o Repeat(1, Len(tokens))
  /\ response_logprobs' = response_logprobs \o Repeat(0, Len(tokens))
(* Tokens nobody generated join the response.                              *)
Extend(tokens) ==
  /\ prompt_ids' = prompt_ids \o tokens
  /\ response_mask' = response_mask \o Repeat(0, Len(tokens))
  /\ response_logprobs' = response_logprobs \o Repeat(0, Len(tokens))

AllAnswered ==
  /\ state = "processing_tools"
  /\ \A i \in Running : task[i] = "done"

ToolsRaise ==
  /\ AllAnswered
  /\ \E i \in Running : Unsupported(i)
  /\ state' = "raised"
  /\ UNCHANGED << textVars, turnVars, taskVars >>

(* Messages and images are recorded before the length is known; tokens     *)
(* that do not fit are left out and end the rollout.                       *)
(* Slip: the images of a turn replace those of earlier turns.              *)
Slip_RecordAnswers ==
  /\ messages' = messages \o ShownMessages
  /\ image_data' = ImagesOfAnswers
RecordAnswers ==
  /\ messages' = messages \o ShownMessages
  /\ image_data' = image_data \o ImagesOfAnswers

ToolsDone ==
  /\ AllAnswered
  /\ ~ \E i \in Running : Unsupported(i)
  /\ RecordAnswers
  /\ \/ /\ Len(response_mask) + Len(ToolTokens) >= ResponseLength
        /\ state' = "terminated"
        /\ UNCHANGED << prompt_ids, response_mask, response_logprobs, user_turns >>
     \/ /\ Len(response_mask) + Len(ToolTokens) < ResponseLength
        /\ state' = "generating"
        /\ Extend(ToolTokens)
        /\ user_turns' = user_turns + 1
  /\ UNCHANGED << assistant_turns, tool_calls, taskVars >>

-----------------------------------------------------------------------------
(* _handle_interacting_state: the length is not tested before generating.  *)
Interacted(should_terminate) ==
  /\ state = "interacting"
  /\ user_turns' = user_turns + 1
  /\ messages' = Append(messages, <<"user", assistant_turns, 0>>)
  /\ Extend(<< <<"user", assistant_turns, 0>> >>)
  /\ state' = IF should_terminate THEN "terminated" ELSE "generating"
  /\ UNCHANGED << image_data, assistant_turns, tool_calls, taskVars >>

LoopTask(i) ==
  \/ CallFails(i) \/ Create(i) \/ Release(i) \/ ReleaseRaises(i)
  \/ \E result \in Results : Execute(i, result)

(* Everything a rollout does without its server.                           *)
LoopLocal ==
  \/ Pending
  \/ \E i \in Running : LoopTask(i)
  \/ CallRaises
  \/ ToolsRaise
  \/ ToolsDone
  \/ \E stop \in BOOLEAN : Interacted(stop)

LoopGenerate == \E n \in 1 .. MaxReply, k \in 0 .. MaxCalls : Generated(n, k)

LoopNext == LoopLocal \/ LoopGenerate \/ GenerateRaises

LoopSpec == LoopInit /\ [][LoopNext]_loopVars

-----------------------------------------------------------------------------
(* The output: prompt and response part where the mask begins, and an      *)
(* interaction may have made the response too long.                        *)
OutputPrompt == SubSeq(prompt_ids, 1, Len(prompt_ids) - Len(response_mask))
Cut(s) == SubSeq(s, 1, Min({Len(s), ResponseLength}))
OutputResponse ==
  Cut(SubSeq(prompt_ids, Len(prompt_ids) - Len(response_mask) + 1, Len(prompt_ids)))
OutputMask == Cut(response_mask)
OutputLogprobs == Cut(response_logprobs)

Ended == state \in {"terminated", "raised"}

LoopTypeOK ==
  /\ state \in {"pending", "generating", "processing_tools", "interacting",
                "terminated", "raised"}
  /\ prompt_ids \in Seq({"prompt", "reply", "tool", "image", "system", "user"}
                          \X Nat \X Nat)
  /\ response_mask \in Seq({0, 1})
  /\ response_logprobs \in Seq(Nat)
  /\ image_data \in Seq(Nat \X Nat \X Nat)
  /\ messages \in Seq({"prompt", "reply", "tool", "image", "user"} \X Nat \X Nat)
  /\ assistant_turns \in Nat
  /\ user_turns \in Nat
  /\ tool_calls \in Nat
  /\ task \in Seq({"new", "created", "executed", "done", "failed", "kept"})
  /\ answer \in Seq({"none", "error", "text", "image", "video"} \X Nat)
  /\ open \subseteq Nat \X Nat

-----------------------------------------------------------------------------
(* Properties.                                                             *)

(* Whatever mix of replies, tools and interactions a rollout went through, *)
(* cutting the response off by the length of the mask leaves exactly the   *)
(* prompt, every position marked 1 holds a generated token with its own    *)
(* log-probability, and every other one a token nobody generated.          *)
ResponseMatchesMask ==
  state \notin {"pending", "raised"} =>
    /\ OutputPrompt = << <<"prompt", 0, 0>> >>
    /\ Len(OutputMask) = Len(OutputResponse)
    /\ Len(OutputLogprobs) = Len(OutputResponse)
    /\ \A i \in 1 .. Len(OutputResponse) :
         LET token == OutputResponse[i] IN
         /\ OutputMask[i] = 1 <=> token[1] = "reply"
         /\ OutputLogprobs[i] = IF token[1] = "reply" THEN token[2] ELSE 0

(* The answers of a turn follow its reply in the order of the calls, each  *)
(* once, whichever tool was quicker and whichever failed.                  *)
AnswersInCallOrder ==
  \A i \in 1 .. Len(prompt_ids) :
    prompt_ids[i][1] \in {"tool", "image"} =>
      LET turn == prompt_ids[i][2]
          call == prompt_ids[i][3]
          before == prompt_ids[i - 1]
      IN
      /\ before[2] = turn
      /\ IF call = 1 THEN before[1] = IF HasProcessor THEN "system" ELSE "reply"
         ELSE before[1] \in {"tool", "image"} /\ before[3] = call - 1

(* A tool instance is open only while its own task has not come to its     *)
(* release, or when the release itself raised: whichever step of which     *)
(* call fails, before or after the release, and although run may have      *)
(* raised while the other calls go on.  A rollout that goes on, or ends    *)
(* without raising, has left none behind.                                  *)
InstancesReleased ==
  /\ \A x \in open :
       x[1] = assistant_turns /\ task[x[2]] \in {"created", "executed", "kept"}
  /\ ~ TasksRun => open = {}

(* In the end nothing is left open but what a tool refused to release,     *)
(* also by the calls that were under way when another one raised.          *)
OnlyRefusedStayOpen == <>[](\A x \in open : task[x[2]] = "kept")

(* Whenever a server is asked, the lists of images sent along are those of *)
(* the answers the tokens hold a place for, in the same order: none is     *)
(* lost, shifted by an image whose tokens did not fit, or sent twice.      *)
ImagePlaces(images) == [k \in DOMAIN images |-> << images[k][1], images[k][2] >>]
ImagesHavePlaces == state = "generating" => ImagePlaces(image_data) = PlacesOf(prompt_ids)

(* An answer may hold several images ("Example: {'image': [img1]} or       *)
(* {'image': [img1, img2, ...]}"): whenever a server is asked, the tokens  *)
(* hold one place for each image that is sent along.                       *)
EveryImageHasAPlace ==
  state = "generating" => \A k \in DOMAIN image_data : image_data[k][3] = 1

=============================================================================
