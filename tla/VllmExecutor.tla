----------------------------- MODULE VllmExecutor -----------------------------
(***************************************************************************)
(* How a vLLM server reaches its workers: ExternalZeroMQDistributedExecutor*)
(* sends every call to all tensor parallel ranks over REQ sockets and then *)
(* reads their answers in rank order; on each rank vLLMAsyncRollout runs   *)
(* _loop_forever on the REP side, which answers an exception and ends.     *)
(*                                                                         *)
(* A REQ socket refuses a second request before it has read its answer.    *)
(* Ranks of one call meet in collectives: a rank that enters one waits for *)
(* all others.                                                             *)
(***************************************************************************)
EXTENDS Integers, Sequences

CONSTANTS
  TP,          (* tensor_model_parallel_size                               *)
  LoadLora,    (* model.lora_rank > 0: generate lists the LoRAs first      *)
  Colocated,   (* rollout_mode is COLOCATED, else HYBRID                   *)
  MaxRpc       (* bound: calls of collective_rpc                           *)

ASSUME ExecutorAssumption ==
  /\ TP \in Nat \ {0}
  /\ LoadLora \in BOOLEAN
  /\ Colocated \in BOOLEAN
  /\ MaxRpc \in Nat

Workers == 1 .. TP

VARIABLES
  engine,    (* what the engine does next while it is built, then "ready"  *)
  rpc,       (* number of calls so far, the id of the last one             *)
  method,    (* its method                                                 *)
  calling,   (* collective_rpc has not returned                            *)
  outputs,   (* the answers read so far                                    *)
  outcome,   (* how the last call ended                                    *)
  asked,     (* sockets whose answer has not been read                     *)
  inbox,     (* id of the request on its way to each worker, or 0          *)
  outbox,    (* answers on their way back                                  *)
  worker,    (* where the loop of each worker is                           *)
  current,   (* id of the request it works on                              *)
  entered,   (* id of the last call whose collective it entered            *)
  answered   (* ids of the calls it has answered                           *)

coreVars   == << engine, rpc, method, calling, outputs, outcome, asked >>
workerVars == << worker, current, entered, answered >>
execVars   == << coreVars, inbox, outbox, workerVars >>

Building == {"init_worker", "init_device", "load_model"}

ExecInit ==
  /\ engine = "init_worker"
  /\ rpc = 0
  /\ method = "none"
  /\ calling = FALSE
  /\ outputs = << >>
  /\ outcome = "none"
  /\ asked = {}
  /\ inbox = [w \in Workers |-> 0]
  /\ outbox = [w \in Workers |-> << >>]
  /\ worker = [w \in Workers |-> "serving"]
  /\ current = [w \in Workers |-> 0]
  /\ entered = [w \in Workers |-> 0]
  /\ answered = [w \in Workers |-> {}]

-----------------------------------------------------------------------------
(* ExternalZeroMQDistributedExecutor.collective_rpc.                       *)

(* The ranks a request reaches: all, or those before the first socket that *)
(* refuses it.                                                             *)
Reached == {w \in Workers : \A v \in 1 .. w : v \notin asked}

CollectiveRpc(m) ==
  /\ ~ calling
  /\ rpc < MaxRpc
  /\ rpc' = rpc + 1
  /\ method' = m
  /\ outputs' = << >>
  /\ inbox' = [w \in Workers |-> IF w \in Reached THEN rpc + 1 ELSE inbox[w]]
  /\ asked' = asked \cup Reached
  /\ calling' = (Reached = Workers)
  /\ outcome' = IF Reached = Workers THEN "none" ELSE "refused"
  /\ UNCHANGED << engine, outbox, workerVars >>

(* recv blocks until the next rank has answered; the timeout is not used.  *)
ReadAnswer ==
  LET w == Len(outputs) + 1 IN
  /\ calling
  /\ w \in Workers
  /\ outbox[w] # << >>
  /\ outputs' = Append(outputs, Head(outbox[w]))
  /\ outbox' = [outbox EXCEPT ![w] = Tail(@)]
  /\ asked' = asked \ {w}
  /\ UNCHANGED << engine, rpc, method, calling, outcome, inbox, workerVars >>

Failed(answers) == \E i \in 1 .. Len(answers) : answers[i].result = "exception"

(* Slip: the first exception is raised before the other ranks are read.    *)
Slip_AllRead == Len(outputs) = TP \/ Failed(outputs)
(* Slip: only the answer of the first rank is waited for.                  *)
Slip_FirstRead == Len(outputs) >= 1
AllRead == Len(outputs) = TP

(* The engine is built by three calls; one that raises ends its            *)
(* construction.  Later an engine whose step raises is dead, while a       *)
(* utility call only raises in its caller.                                 *)
AfterCall(failed) ==
  CASE failed /\ (engine \in Building \/ method = "execute_model") -> "dead"
    [] ~ failed /\ engine = "init_worker" -> "init_device"
    [] ~ failed /\ engine = "init_device" -> "load_model"
    [] ~ failed /\ engine = "load_model"  -> "ready"
    [] OTHER -> engine

Return ==
  /\ calling
  /\ AllRead
  /\ calling' = FALSE
  /\ outcome' = IF Failed(outputs) THEN "raised" ELSE "returned"
  /\ engine' = AfterCall(Failed(outputs))
  /\ UNCHANGED << rpc, method, outputs, asked, inbox, outbox, workerVars >>

-----------------------------------------------------------------------------
(* vLLMAsyncRollout._loop_forever and _execute_method.                     *)

(* _execute_method refuses wake_up and sleep; load_model and a step of the *)
(* model synchronise the ranks.                                            *)
Forbidden  == {"wake_up", "sleep"}
Collective == {"init_device", "load_model", "execute_model"}

Receive(w) ==
  /\ worker[w] = "serving"
  /\ inbox[w] # 0
  /\ worker' = [worker EXCEPT ![w] = "executing"]
  /\ current' = [current EXCEPT ![w] = inbox[w]]
  /\ inbox' = [inbox EXCEPT ![w] = 0]
  /\ UNCHANGED << coreVars, outbox, entered, answered >>

Enter(w) ==
  /\ worker[w] = "executing"
  /\ method \in Collective
  /\ worker' = [worker EXCEPT ![w] = "in_collective"]
  /\ entered' = [entered EXCEPT ![w] = current[w]]
  /\ UNCHANGED << coreVars, inbox, outbox, current, answered >>

Leave(w) ==
  /\ worker[w] = "in_collective"
  /\ \A v \in Workers : entered[v] >= entered[w]
  /\ worker' = [worker EXCEPT ![w] = "reduced"]
  /\ UNCHANGED << coreVars, inbox, outbox, current, entered, answered >>

Answer(w, result) ==
  outbox' = [outbox EXCEPT ![w] = Append(@, [id |-> current[w], by |-> w, result |-> result])]

Finish(w) ==
  /\ \/ worker[w] = "reduced"
     \/ worker[w] = "executing" /\ method \notin Collective \cup Forbidden
  /\ Answer(w, "ok")
  /\ answered' = [answered EXCEPT ![w] = @ \cup {current[w]}]
  /\ worker' = [worker EXCEPT ![w] = "serving"]
  /\ UNCHANGED << coreVars, inbox, current, entered >>

(* Slip: the exception is only logged.                                     *)
Slip_Raise(w) ==
  /\ worker[w] \in {"executing", "reduced"}
  /\ worker' = [worker EXCEPT ![w] = "stopped"]
  /\ UNCHANGED << coreVars, inbox, outbox, current, entered, answered >>
(* An exception, before or after the collective, is answered and ends the  *)
(* loop.                                                                   *)
Raise(w) ==
  /\ worker[w] \in {"executing", "reduced"}
  /\ Answer(w, "exception")
  /\ answered' = [answered EXCEPT ![w] = @ \cup {current[w]}]
  /\ worker' = [worker EXCEPT ![w] = "stopped"]
  /\ UNCHANGED << coreVars, inbox, current, entered >>

-----------------------------------------------------------------------------
(* The callers: the engine's construction, its steps, and the server.      *)

Build == engine \in Building /\ CollectiveRpc(engine)
Step == engine = "ready" /\ CollectiveRpc("execute_model")
ListLoras == engine = "ready" /\ LoadLora /\ CollectiveRpc("list_loras")

(* Without HYBRID the server goes through the engine, whose executor calls *)
(* the workers by name.                                                    *)
SwitchEngine == engine = "ready" /\ Colocated
                /\ \E m \in Forbidden : CollectiveRpc(m)

Progress(w) == Receive(w) \/ Enter(w) \/ Leave(w) \/ Finish(w) \/ Raise(w)
ExecLocal == ReadAnswer \/ Return \/ Build \/ \E w \in Workers : Progress(w)

ExecNext == ExecLocal \/ Step \/ ListLoras \/ SwitchEngine

ExecSpec == ExecInit /\ [][ExecNext]_execVars

-----------------------------------------------------------------------------

Answers == [id : Nat, by : Workers, result : {"ok", "exception"}]

ExecTypeOK ==
  /\ engine \in Building \cup {"ready", "dead"}
  /\ rpc \in Nat
  /\ method \in Building \cup Forbidden \cup {"none", "execute_model", "list_loras"}
  /\ calling \in BOOLEAN
  /\ outputs \in Seq(Answers)
  /\ outcome \in {"none", "returned", "raised", "refused"}
  /\ asked \subseteq Workers
  /\ inbox \in [Workers -> Nat]
  /\ outbox \in [Workers -> Seq(Answers)]
  /\ worker \in [Workers -> {"serving", "executing", "in_collective", "reduced",
                             "stopped"}]
  /\ current \in [Workers -> Nat]
  /\ entered \in [Workers -> Nat]
  /\ answered \in [Workers -> SUBSET Nat]

-----------------------------------------------------------------------------
(* Properties.                                                             *)

(* No call is answered by a left-over of an earlier one, although workers  *)
(* fail at any point: between calls nothing is unread, no call finds a     *)
(* socket that refuses it, and the answers of a call are its own, one from *)
(* each rank in rank order.                                                *)
AnswersOfTheCall ==
  /\ outcome # "refused"
  /\ ~ calling => asked = {} /\ \A w \in Workers : outbox[w] = << >>
  /\ \A i \in 1 .. Len(outputs) : outputs[i].id = rpc /\ outputs[i].by = i

(* No rank runs ahead: it answers a call only when every other rank has    *)
(* answered all calls before it.                                           *)
RanksInStep ==
  \A v, w \in Workers : \A id \in answered[v] :
    \A older \in 1 .. (id - 1) : older \in answered[w]

(* A call returns, if only to raise; one that never does was sent to a     *)
(* worker that had already ended its loop, or a worker ended its loop      *)
(* while another waits for it in a collective.                             *)
HangsOnlyOnStopped ==
  \/ []<>(~ calling)
  \/ <>[](\E w \in Workers :
            /\ worker[w] = "stopped"
            /\ inbox[w] # 0 \/ \E v \in Workers : worker[v] = "in_collective")

=============================================================================
