------------------------ MODULE CheckpointedTrainer ------------------------
(***************************************************************************)
(* The training loop as a sequence of steps, checkpoints, crashes and      *)
(* restarts: RayPPOTrainer.fit, _save_checkpoint and _load_checkpoint of   *)
(* verl/trainer/ppo/ray_trainer.py, FSDPCheckpointManager of               *)
(* verl/utils/checkpoint/fsdp_checkpoint_manager.py, find_latest_ckpt_path *)
(* of verl/utils/checkpoint/checkpoint_manager.py, and the checkpoint of   *)
(* the CNN critic (verl/workers/cnn_critic_worker.py).                     *)
(*                                                                         *)
(* A training step is one action: all of its data lives in memory.  A      *)
(* checkpoint is written file by file, and the job may die between any two *)
(* writes and in the middle of one; what is on the disk survives.          *)
(***************************************************************************)
EXTENDS Integers, Sequences, FiniteSets

CONSTANTS
  Ranks,          (* ranks of the actor worker group                       *)
  EpochLength,    (* len(train_dataloader)                                 *)
  Epochs,         (* trainer.total_epochs                                  *)
  TotalSteps,     (* trainer.total_training_steps, or their product        *)
  SaveFreq,       (* trainer.save_freq                                     *)
  CriticWarmup,   (* trainer.critic_warmup                                 *)
  MaxToKeep,      (* trainer.max_actor_ckpt_to_keep, 0 for null            *)
  ResumeMode,     (* trainer.resume_mode: "auto" or "disable"              *)
  UseCritic,      (* a CNN critic is trained                               *)
  EsiPossible,    (* an ESI expiration time is set in the environment      *)
  MaxStep,        (* bound: steps whose directories can exist              *)
  MaxLaunches,    (* bound: how often the job is started                   *)
  Missing,        (* content of a file that does not exist                 *)
  Torn            (* content of a file whose write did not finish          *)

(* The dataloader's position: how many passes were completed, and how many *)
(* batches of the current pass were drawn; and one use of a batch by an    *)
(* update, stamped with the launch that made it.                           *)
LoaderState == [pass : Nat, pos : 0..EpochLength]
Use == [batch : LoaderState, launch : Nat]

ASSUME TrainerAssumption ==
  /\ Ranks # {}
  /\ EpochLength \in Nat \ {0}
  /\ Epochs \in Nat \ {0}
  /\ TotalSteps \in Nat \ {0}
  /\ SaveFreq \in Int
  /\ CriticWarmup \in Nat
  /\ MaxToKeep \in Nat
  /\ ResumeMode \in {"auto", "disable"}
  /\ UseCritic \in BOOLEAN
  /\ EsiPossible \in BOOLEAN
  /\ MaxStep \in Nat
  /\ MaxLaunches \in Nat
  /\ Missing # Torn
  /\ \A x \in {Missing, Torn} :
       x \notin Nat /\ x \notin LoaderState /\ x \notin Seq(Use)
  /\ Ranks \cap {"critic", "data"} = {}

(* Directories global_step_N, and the files in one of them: a shard of     *)
(* each rank under actor/, the file "critic", and data.pt.                 *)
Steps == 1..MaxStep
ActorParts  == Ranks
CriticParts == IF UseCritic THEN {"critic"} ELSE {}
Parts       == ActorParts \cup CriticParts \cup {"data"}

VARIABLES
  pc,            (* where fit is; "down" when no process runs              *)
  launches,      (* how often the job was started                          *)
  global_steps,
  epoch,         (* the loop variable of fit                               *)
  loader,        (* the stateful dataloader: [pass, pos]                   *)
  actor,         (* the batches in the actor's weights, oldest first       *)
  critic,        (* the batches in the critic's weights                    *)
  saved_paths,   (* previous_saved_paths, as steps                         *)
  pending,       (* files of the current stage that are still to be written*)
  disk,          (* content of every file of every checkpoint directory    *)
  dirs,          (* the global_step_N directories that exist               *)
  tracker        (* latest_checkpointed_iteration.txt: a step, Missing,    *)
                 (* or Torn: truncated and not yet written                 *)

memory == << global_steps, epoch, loader, actor, critic, saved_paths, pending >>
storage == << disk, dirs, tracker >>
vars == << pc, launches, memory, storage >>

-----------------------------------------------------------------------------

FreshLoader == [pass |-> 0, pos |-> 0]

(* A process that has built its trainer and workers but loaded nothing.    *)
(* previous_saved_paths starts empty in every process.                     *)
FreshMemory ==
  /\ global_steps' = 0
  /\ epoch' = 0
  /\ loader' = FreshLoader
  /\ actor' = << >>
  /\ critic' = << >>
  /\ saved_paths' = << >>
  /\ pending' = {}

Init ==
  /\ pc = "down"
  /\ launches = 0
  /\ global_steps = 0
  /\ epoch = 0
  /\ loader = FreshLoader
  /\ actor = << >>
  /\ critic = << >>
  /\ saved_paths = << >>
  /\ pending = {}
  /\ disk = [s \in Steps |-> [p \in Parts |-> Missing]]
  /\ dirs = {}
  /\ tracker = Missing

Running == {"loading", "ready", "rotate", "actor", "critic", "data",
            "tracker", "marking", "next"}

(* The job is started, for the first time, after a crash, or again after   *)
(* it has finished.                                                        *)
Launch ==
  /\ pc \in {"down", "done"}
  /\ launches < MaxLaunches
  /\ launches' = launches + 1
  /\ pc' = "loading"
  /\ FreshMemory
  /\ UNCHANGED storage

(* The job dies; only the disk survives.                                   *)
Crash ==
  /\ pc \in Running
  /\ pc' = "down"
  /\ FreshMemory
  /\ UNCHANGED << launches, storage >>

-----------------------------------------------------------------------------
(* _load_checkpoint, and the increment "we start from step 1" after it.    *)

(* resume_mode disable, or no tracker, or no directory for its step.       *)
LoadNothing ==
  /\ pc = "loading"
  /\ \/ ResumeMode = "disable"
     \/ tracker = Missing
     \/ tracker \in Nat /\ tracker \notin dirs
  /\ global_steps' = 1
  /\ pc' = "ready"
  /\ UNCHANGED << launches, epoch, loader, actor, critic, saved_paths,
                  pending, storage >>

Readable(s, parts) == \A p \in parts : disk[s][p] \notin {Missing, Torn}

Resuming(s) ==
  /\ pc = "loading"
  /\ ResumeMode # "disable"
  /\ tracker = s
  /\ s \in dirs

(* Slip: the position of the dataloader is not restored.                   *)
Slip_Resume(s) ==
  /\ Resuming(s)
  /\ Readable(s, ActorParts \cup CriticParts)
  /\ disk[s]["data"] # Torn
  /\ global_steps' = s + 1
  /\ actor' = disk[s][CHOOSE r \in Ranks : TRUE]
  /\ critic' = IF UseCritic THEN disk[s]["critic"] ELSE << >>
  /\ loader' = FreshLoader
  /\ pc' = "ready"
  /\ UNCHANGED << launches, epoch, saved_paths, pending, storage >>
(* Every rank loads its own shard, then the critic and the dataloader      *)
(* state are loaded; a missing data.pt only makes it start from scratch.   *)
Resume(s) ==
  /\ Resuming(s)
  /\ Readable(s, ActorParts \cup CriticParts)
  /\ disk[s]["data"] # Torn
  /\ global_steps' = s + 1
  /\ actor' = disk[s][CHOOSE r \in Ranks : TRUE]
  /\ critic' = IF UseCritic THEN disk[s]["critic"] ELSE << >>
  /\ loader' = IF disk[s]["data"] = Missing THEN FreshLoader
               ELSE disk[s]["data"]
  /\ pc' = "ready"
  /\ UNCHANGED << launches, epoch, saved_paths, pending, storage >>

(* int("") of a truncated tracker raises, and so does torch.load of a file *)
(* that is missing or torn.                                                *)
LoadFails ==
  /\ \/ pc = "loading" /\ ResumeMode # "disable" /\ tracker = Torn
     \/ \E s \in Steps :
          /\ Resuming(s)
          /\ \/ ~ Readable(s, ActorParts \cup CriticParts)
             \/ disk[s]["data"] = Torn
  /\ pc' = "failed"
  /\ UNCHANGED << launches, memory, storage >>

-----------------------------------------------------------------------------
(* One iteration of the loop over batches.                                 *)

IsLastStep == global_steps >= TotalSteps

(* Slip: the last step is saved only when its turn comes.                  *)
Slip_MustSave(esi) ==
  /\ SaveFreq > 0
  /\ \/ global_steps % SaveFreq = 0
     \/ esi
MustSave(esi) ==
  /\ SaveFreq > 0
  /\ \/ IsLastStep
     \/ global_steps % SaveFreq = 0
     \/ esi

MoreBatches == loader.pos < EpochLength

(* The dataloader yields its next batch; rollouts, rewards and advantages  *)
(* are computed from it, the critic is updated, the actor too once the     *)
(* critic is warm, and the step decides whether it ends with a checkpoint. *)
TrainStep(esi) ==
  LET drawn == [pass |-> loader.pass, pos |-> loader.pos + 1]
      use   == [batch |-> drawn, launch |-> launches]
  IN
  /\ pc = "ready"
  /\ epoch < Epochs
  /\ MoreBatches
  /\ global_steps \in Steps
  /\ loader' = drawn
  /\ critic' = IF UseCritic THEN Append(critic, use) ELSE critic
  /\ actor' = IF CriticWarmup <= global_steps THEN Append(actor, use) ELSE actor
  /\ pc' = IF MustSave(esi) THEN "rotate" ELSE "next"
  /\ UNCHANGED << launches, global_steps, epoch, saved_paths, pending, storage >>

(* The dataloader is exhausted: the next epoch draws a new pass.           *)
NextEpoch ==
  /\ pc = "ready"
  /\ epoch < Epochs
  /\ ~ MoreBatches
  /\ loader' = [pass |-> loader.pass + 1, pos |-> 0]
  /\ epoch' = epoch + 1
  /\ UNCHANGED << pc, launches, global_steps, actor, critic, saved_paths,
                  pending, storage >>

(* The loop over epochs ends without a last step.                          *)
OutOfEpochs ==
  /\ pc = "ready"
  /\ epoch = Epochs
  /\ pc' = "done"
  /\ UNCHANGED << launches, memory, storage >>

(* The end of an iteration: fit returns after the last step.               *)
NextStep ==
  /\ pc = "next"
  /\ global_steps' = global_steps + 1
  /\ pc' = IF IsLastStep THEN "done" ELSE "ready"
  /\ UNCHANGED << launches, epoch, loader, actor, critic, saved_paths,
                  pending, storage >>

-----------------------------------------------------------------------------
(* _save_checkpoint.                                                       *)

(* Slip: one checkpoint more than needed is removed.                       *)
Slip_Surplus ==
  IF MaxToKeep > 0 /\ Len(saved_paths) >= MaxToKeep
  THEN Len(saved_paths) - MaxToKeep + 2 ELSE 0
(* keep_start: how many of the oldest saved paths make room.               *)
Surplus ==
  IF MaxToKeep > 0 /\ Len(saved_paths) >= MaxToKeep
  THEN Len(saved_paths) - MaxToKeep + 1 ELSE 0

Erased(s, parts) == [p \in Parts |-> IF p \in parts THEN Missing ELSE disk[s][p]]

(* Rank 0 removes the oldest actor/ directories this process has written   *)
(* before anyone writes the new one; the other parts of global_step_N stay.*)
Rotate ==
  LET gone == {saved_paths[i] : i \in 1..Surplus} IN
  /\ pc = "rotate"
  /\ disk' = [s \in Steps |-> IF s \in gone THEN Erased(s, ActorParts)
                              ELSE disk[s]]
  /\ saved_paths' = SubSeq(saved_paths, Surplus + 1, Len(saved_paths))
  /\ dirs' = dirs \cup {global_steps}
  /\ pending' = ActorParts
  /\ pc' = "actor"
  /\ UNCHANGED << launches, global_steps, epoch, loader, actor, critic, tracker >>

Writing == pc \in {"actor", "critic", "data"}

(* torch.save opens, and thereby empties, a file of the current stage.     *)
StartWrite(p) ==
  /\ Writing
  /\ p \in pending
  /\ disk[global_steps][p] # Torn
  /\ disk' = [disk EXCEPT ![global_steps][p] = Torn]
  /\ UNCHANGED << pc, launches, memory, dirs, tracker >>

(* Slip: the dataloader counts the batch it has prefetched as drawn.       *)
Slip_Content(p) ==
  IF p = "data" THEN [pass |-> loader.pass, pos |-> loader.pos + 1]
  ELSE IF p = "critic" THEN critic ELSE actor
(* What the call that writes a file writes into it.                        *)
Content(p) ==
  IF p = "data" THEN loader ELSE IF p = "critic" THEN critic ELSE actor

FinishWrite(p) ==
  /\ Writing
  /\ p \in pending
  /\ disk[global_steps][p] = Torn
  /\ disk' = [disk EXCEPT ![global_steps][p] = Content(p)]
  /\ pending' = pending \ {p}
  /\ UNCHANGED << pc, launches, global_steps, epoch, loader, actor, critic,
                  saved_paths, dirs, tracker >>

(* The next stage of _save_checkpoint.                                     *)
AfterStage(stage) ==
  CASE stage = "actor"  -> IF UseCritic THEN "critic" ELSE "data"
    [] stage = "critic" -> "data"
    [] stage = "data"   -> "tracker"

StageParts(stage) ==
  CASE stage = "critic" -> {"critic"}
    [] stage = "data"   -> {"data"}
    [] OTHER            -> {}

(* The barrier at the end of the actor's stage, where every rank remembers *)
(* the path it has saved, and the return of the other calls.               *)
EndStage ==
  /\ Writing
  /\ pending = {}
  /\ saved_paths' = IF pc = "actor" THEN Append(saved_paths, global_steps)
                    ELSE saved_paths
  /\ pc' = AfterStage(pc)
  /\ pending' = StageParts(AfterStage(pc))
  /\ UNCHANGED << launches, global_steps, epoch, loader, actor, critic, storage >>

(* open(..., "w") truncates the tracker before the step is written to it.  *)
TruncateTracker ==
  /\ pc = "tracker"
  /\ tracker' = Torn
  /\ pc' = "marking"
  /\ UNCHANGED << launches, memory, disk, dirs >>

WriteTracker ==
  /\ pc = "marking"
  /\ tracker' = global_steps
  /\ pc' = "next"
  /\ UNCHANGED << launches, memory, disk, dirs >>

Load == LoadNothing \/ (\E s \in Steps : Resume(s)) \/ LoadFails
Save == \/ Rotate
        \/ \E p \in Parts : StartWrite(p) \/ FinishWrite(p)
        \/ EndStage
        \/ TruncateTracker
        \/ WriteTracker
Step == \/ \E esi \in (IF EsiPossible THEN BOOLEAN ELSE {FALSE}) : TrainStep(esi)
        \/ NextEpoch
        \/ OutOfEpochs
        \/ NextStep

Work == Load \/ Step \/ Save
Next == Launch \/ Crash \/ Work

Spec == Init /\ [][Next]_vars

-----------------------------------------------------------------------------
(* Types.                                                                  *)

Written(p, x) == IF p = "data" THEN x \in LoaderState ELSE x \in Seq(Use)

TypeOK ==
  /\ pc \in Running \cup {"down", "done", "failed"}
  /\ launches \in Nat
  /\ global_steps \in Nat
  /\ epoch \in 0..Epochs
  /\ loader \in LoaderState
  /\ actor \in Seq(Use)
  /\ critic \in Seq(Use)
  /\ saved_paths \in Seq(Steps)
  /\ pending \subseteq Parts
  /\ DOMAIN disk = Steps
  /\ \A s \in Steps :
       /\ DOMAIN disk[s] = Parts
       /\ \A p \in Parts : disk[s][p] \in {Missing, Torn} \/ Written(p, disk[s][p])
  /\ dirs \subseteq Steps
  /\ tracker \in {Missing, Torn} \/ tracker \in Steps

-----------------------------------------------------------------------------
(* Safety.                                                                 *)

(* A checkpoint from which every rank can load: no file is missing or torn *)
(* and the shards are those of one set of weights.                         *)
Whole(s) ==
  /\ s \in dirs
  /\ Readable(s, Parts)
  /\ \A r, q \in Ranks : disk[s][r] = disk[s][q]

(* Whenever the job dies, the checkpoint the tracker names can be loaded,  *)
(* completely: it was never rotated away, nor is it being overwritten      *)
(* (_save_checkpoint writes the tracker last, Rotate spares it).  Holds    *)
(* when a limit on the checkpoints is at least two.                        *)
TrackedIsWhole == tracker \in Steps => Whole(tracker)

(* The batches of a history are those of the dataloader, one per step.     *)
Number(l) == l.pass * EpochLength + l.pos
InOrder(history) == \A i \in 1..Len(history) : Number(history[i].batch) = i

(* The parts of the tracked checkpoint are a cut through one moment of     *)
(* one history, although they are written one after the other: the weights *)
(* of the actor and of the critic and the position of the dataloader have  *)
(* seen the same batches.                                                  *)
TrackedIsOneMoment ==
  tracker \in Steps =>
    LET saved == disk[tracker] IN
    /\ Number(saved["data"]) = tracker
    /\ UseCritic =>
         /\ Len(saved["critic"]) = tracker
         /\ InOrder(saved["critic"])
         /\ \A r \in Ranks :
              saved[r] = SubSeq(saved["critic"],
                                IF CriticWarmup < 1 THEN 1 ELSE CriticWarmup,
                                tracker)

(* Across crashes and restarts the training history contains every batch   *)
(* of the dataloader exactly once and in order, one per global step: a     *)
(* resumed run repeats no batch that is in its weights and skips none.     *)
EachBatchOnce ==
  (UseCritic /\ pc \in Running \ {"loading"}) =>
    /\ InOrder(critic)
    /\ Len(critic) = IF pc = "ready" THEN global_steps - 1 ELSE global_steps

(* A run that returns after its last step has saved that step, whatever    *)
(* the save frequency.                                                     *)
LastStepIsSaved ==
  (pc = "done" /\ epoch < Epochs /\ SaveFreq > 0) =>
    tracker = global_steps - 1

(* Rotation keeps at most MaxToKeep of the actor checkpoints a process has *)
(* written.  Earlier launches are not counted, because                     *)
(* previous_saved_paths is not restored: each of them leaves its own.      *)
ActorCheckpoints == {s \in Steps : \E r \in Ranks : disk[s][r] # Missing}
KeepsAtMost ==
  MaxToKeep > 0 => Cardinality(ActorCheckpoints) <= MaxToKeep * launches

(* A step beyond total_training_steps is always the first of its launch:   *)
(* the last step is recognised only while it is trained, so each launch of *)
(* a run that was already complete trains one more, and only one.          *)
BeyondBudgetOnlyOnRelaunch ==
  \A i \in (TotalSteps + 1)..Len(critic) :
    critic[i].launch # critic[i - 1].launch

(* "auto": resume from last checkpoint if available.                       *)
AutoResumeSucceeds == pc # "failed"

=============================================================================
