--------------------- MODULE CheckpointedTrainerProofs ---------------------
(***************************************************************************)
(* Proofs about CheckpointedTrainer: for every number of ranks, launches   *)
(* and steps, and at every point at which the job may die, the checkpoint  *)
(* named by the tracker is whole, provided that runs resume (auto) and     *)
(* that the limit on checkpoints is not one.                               *)
(***************************************************************************)
EXTENDS CheckpointedTrainer, SequenceTheorems, FiniteSetTheorems, TLAPS

(* The stages of a step in which a checkpoint is being written.            *)
Stages == {"actor", "critic", "data", "tracker", "marking"}

(* The files of the current checkpoint that do not yet hold what is in     *)
(* memory.                                                                 *)
Due(stage) ==
  CASE stage = "actor"  -> pending \cup CriticParts \cup {"data"}
    [] stage = "critic" -> pending \cup {"data"}
    [] stage = "data"   -> pending
    [] OTHER            -> {}

WritingIInv ==
  pc \in Stages =>
    /\ global_steps \in dirs
    /\ pc = "critic" => UseCritic
    /\ pc = "actor" => pending \subseteq ActorParts
    /\ pc = "critic" => pending \subseteq CriticParts
    /\ \A p \in Parts \ Due(pc) : disk[global_steps][p] = Content(p)

(* The tracker is behind the step being trained.                           *)
BehindIInv ==
  (tracker \in Steps /\ pc \in Running \ {"loading"}) =>
    IF pc = "next" THEN tracker <= global_steps ELSE tracker < global_steps

(* previous_saved_paths is in order and ends with the tracked step, or     *)
(* with the step whose actor has just been saved.                          *)
Increasing(s) == \A i, j \in 1..Len(s) : i < j => s[i] < s[j]
PathsIInv ==
  /\ Increasing(saved_paths)
  /\ pc \in {"down", "loading"} => saved_paths = << >>
  /\ (pc \in {"ready", "rotate", "next"} /\ saved_paths # << >>) =>
       tracker = saved_paths[Len(saved_paths)]
  /\ pc = "actor" =>
       \A i \in 1..Len(saved_paths) : saved_paths[i] < global_steps
  /\ pc \in Stages \ {"actor"} =>
       saved_paths # << >> /\ saved_paths[Len(saved_paths)] = global_steps

(* The step that is saved has a directory in range.                        *)
StepIInv == pc \in {"rotate"} \cup Stages => global_steps \in Steps

IInv ==
  TypeOK /\ TrackedIsWhole /\ WritingIInv /\ BehindIInv /\ PathsIInv /\ StepIInv

-----------------------------------------------------------------------------

(* Nothing has been started or saved.                                      *)
LEMMA InitIInv == Init => IInv
<1> SUFFICES ASSUME Init PROVE IInv
  OBVIOUS
<1> USE TrainerAssumption
<1>1. TypeOK
  BY DEF Init, TypeOK, FreshLoader, LoaderState, Running
<1>2. tracker \notin Steps
  BY DEF Init, Steps
<1>3. TrackedIsWhole /\ WritingIInv /\ BehindIInv /\ PathsIInv /\ StepIInv
  BY <1>2 DEF Init, TrackedIsWhole, WritingIInv, BehindIInv, PathsIInv,
              StepIInv, Stages, Increasing
<1> QED BY <1>1, <1>3 DEF IInv

(* A new or dead process has an empty memory.                              *)
LEMMA FreshIInv ==
  ASSUME IInv, FreshMemory, UNCHANGED storage, launches' \in Nat,
         pc' \in {"down", "loading"}
  PROVE  IInv'
<1> USE TrainerAssumption
<1>1. TypeOK'
  <2>1. loader' \in LoaderState /\ epoch' \in 0..Epochs /\ global_steps' \in Nat
    BY DEF FreshMemory, FreshLoader, LoaderState
  <2>2. /\ actor' \in Seq(Use) /\ critic' \in Seq(Use)
        /\ saved_paths' \in Seq(Steps) /\ pending' \subseteq Parts
    BY DEF FreshMemory
  <2>3. pc' \in Running \cup {"down", "done", "failed"}
    BY DEF Running
  <2> QED BY <2>1, <2>2, <2>3 DEF IInv, TypeOK, storage, Written
<1>2. TrackedIsWhole'
  BY DEF IInv, TrackedIsWhole, Whole, Readable, storage
<1>3. WritingIInv' /\ BehindIInv'
  BY DEF WritingIInv, BehindIInv, Stages, Running, FreshMemory, storage, IInv, TypeOK
<1>4. PathsIInv' /\ StepIInv'
  BY DEF PathsIInv, StepIInv, Stages, FreshMemory, Increasing
<1> QED BY <1>1, <1>2, <1>3, <1>4 DEF IInv

-----------------------------------------------------------------------------
(* Loading.                                                                *)

(* Nothing is loaded only when there is nothing to load.                   *)
LEMMA LoadNothingIInv ==
  ASSUME IInv, LoadNothing, ResumeMode = "auto" PROVE IInv'
<1> USE TrainerAssumption
<1>1. TypeOK'
  BY DEF IInv, TypeOK, LoadNothing, storage, Running, Written
<1>2. tracker \notin Steps /\ tracker' = tracker
  BY DEF IInv, TrackedIsWhole, Whole, LoadNothing, storage, Steps
<1>3. TrackedIsWhole' /\ BehindIInv'
  BY <1>2 DEF TrackedIsWhole, BehindIInv, Steps
<1>4. WritingIInv' /\ StepIInv'
  BY DEF WritingIInv, StepIInv, Stages, LoadNothing
<1>5. PathsIInv'
  BY DEF IInv, PathsIInv, Stages, LoadNothing, Increasing
<1> QED BY <1>1, <1>3, <1>4, <1>5 DEF IInv

(* What is readable is what was written.                                   *)
LEMMA ReadableTyped ==
  ASSUME TypeOK, NEW s \in Steps, NEW parts \in SUBSET Parts,
         Readable(s, parts), NEW p \in parts
  PROVE  Written(p, disk[s][p])
BY DEF TypeOK, Readable

(* A resumed process is one step ahead of the tracker.                     *)
LEMMA ResumeIInv ==
  ASSUME IInv, NEW s \in Steps, Resume(s) PROVE IInv'
<1> USE TrainerAssumption
<1>1. actor' \in Seq(Use)
  <2> DEFINE r == CHOOSE q \in Ranks : TRUE
  <2>1. r \in Ranks /\ r # "data" /\ actor' = disk[s][r]
    BY DEF Resume
  <2> HIDE DEF r
  <2>2. ActorParts \cup CriticParts \in SUBSET Parts /\ r \in ActorParts \cup CriticParts
    BY <2>1 DEF Parts, ActorParts
  <2>3. Written(r, disk[s][r])
    BY <2>2, ReadableTyped DEF IInv, Resume
  <2> QED BY <2>1, <2>3 DEF Written
<1>2. critic' \in Seq(Use)
  <2>1. CASE UseCritic
    <3>1. ActorParts \cup CriticParts \in SUBSET Parts /\ "critic" \in ActorParts \cup CriticParts
      BY <2>1 DEF Parts, CriticParts
    <3>2. Written("critic", disk[s]["critic"])
      BY <3>1, ReadableTyped DEF IInv, Resume
    <3> QED BY <2>1, <3>2 DEF Written, Resume
  <2>2. CASE ~ UseCritic
    BY <2>2 DEF Resume
  <2> QED BY <2>1, <2>2
<1>3. loader' \in LoaderState
  <2>1. CASE disk[s]["data"] = Missing
    BY <2>1 DEF Resume, FreshLoader, LoaderState
  <2>2. CASE disk[s]["data"] # Missing
    <3>1. "data" \in Parts
      BY DEF Parts
    <3>2. Written("data", disk[s]["data"])
      BY <2>2, <3>1 DEF IInv, TypeOK, Resume
    <3> QED BY <2>2, <3>2 DEF Written, Resume
  <2> QED BY <2>1, <2>2
<1>4. TypeOK'
  <2>1. global_steps' \in Nat
    BY DEF Resume, Steps
  <2>2. pc' \in Running
    BY DEF Resume, Running
  <2>3. storage' = storage /\ launches' = launches /\ epoch' = epoch
        /\ saved_paths' = saved_paths /\ pending' = pending
    BY DEF Resume
  <2> QED BY <1>1, <1>2, <1>3, <2>1, <2>2, <2>3
          DEF IInv, TypeOK, storage, Written
<1>5. TrackedIsWhole'
  BY DEF IInv, TrackedIsWhole, Whole, Readable, Resume, storage
<1>6. BehindIInv'
  BY DEF BehindIInv, Resume, Resuming, storage, Steps
<1>7. WritingIInv' /\ StepIInv'
  BY DEF WritingIInv, StepIInv, Stages, Resume
<1>8. PathsIInv'
  BY DEF IInv, PathsIInv, Stages, Resume, Resuming, Increasing
<1> QED BY <1>4, <1>5, <1>6, <1>7, <1>8 DEF IInv

(* A failed load changes neither memory nor disk.                          *)
LEMMA LoadFailsIInv ==
  ASSUME IInv, LoadFails PROVE IInv'
<1>1. TypeOK'
  BY DEF IInv, TypeOK, LoadFails, memory, storage, Written
<1>2. TrackedIsWhole'
  BY DEF IInv, TrackedIsWhole, Whole, Readable, LoadFails, storage
<1>3. BehindIInv' /\ WritingIInv' /\ StepIInv'
  BY DEF BehindIInv, WritingIInv, StepIInv, LoadFails, Running, Stages
<1>4. PathsIInv'
  BY DEF IInv, PathsIInv, LoadFails, memory, Increasing, Stages
<1> QED BY <1>1, <1>2, <1>3, <1>4 DEF IInv

-----------------------------------------------------------------------------
(* The steps of the loop.                                                  *)

(* The steps that leave the disk, the saved paths and the pending files    *)
(* alone keep the tracked checkpoint.                                      *)
LEMMA DiskAlone ==
  ASSUME IInv, UNCHANGED storage PROVE TrackedIsWhole'
BY DEF IInv, TrackedIsWhole, Whole, Readable, storage

(* A step is trained in memory.                                            *)
LEMMA TrainStepIInv ==
  ASSUME IInv, NEW esi \in BOOLEAN, TrainStep(esi) PROVE IInv'
<1> USE TrainerAssumption
<1> DEFINE drawn == [pass |-> loader.pass, pos |-> loader.pos + 1]
           use   == [batch |-> drawn, launch |-> launches]
<1>1. drawn \in LoaderState
  <2>1. loader.pass \in Nat /\ loader.pos \in 0..EpochLength
    BY DEF IInv, TypeOK, LoaderState
  <2>2. loader.pos + 1 \in 0..EpochLength
    BY <2>1 DEF TrainStep, MoreBatches
  <2> QED BY <2>1, <2>2 DEF LoaderState
<1>2. use \in Use
  BY <1>1 DEF Use, IInv, TypeOK
<1> HIDE DEF drawn
<1>3. loader' = drawn
  BY DEF TrainStep, drawn
<1>4. critic' \in Seq(Use)
  <2>1. critic' = IF UseCritic THEN Append(critic, use) ELSE critic
    BY DEF TrainStep, drawn
  <2> HIDE DEF use
  <2> QED BY <1>2, <2>1 DEF IInv, TypeOK
<1>5. actor' \in Seq(Use)
  <2>1. actor' = IF CriticWarmup <= global_steps THEN Append(actor, use) ELSE actor
    BY DEF TrainStep, drawn
  <2> HIDE DEF use
  <2> QED BY <1>2, <2>1 DEF IInv, TypeOK
<1>6. pc' \in {"rotate", "next"} /\ pc = "ready"
      /\ UNCHANGED << launches, global_steps, epoch, saved_paths, pending, storage >>
  BY DEF TrainStep
<1>7. TypeOK'
  BY <1>1, <1>3, <1>4, <1>5, <1>6 DEF IInv, TypeOK, storage, Running, Written
<1>8. TrackedIsWhole'
  BY <1>6, DiskAlone
<1>9. BehindIInv' /\ WritingIInv' /\ StepIInv'
  BY <1>6 DEF IInv, TypeOK, BehindIInv, WritingIInv, StepIInv, Running, Stages,
              Steps, storage, TrainStep
<1>10. PathsIInv'
  BY <1>6 DEF IInv, PathsIInv, Increasing, Stages, storage
<1> QED BY <1>7, <1>8, <1>9, <1>10 DEF IInv

(* A new pass over the data.                                               *)
LEMMA NextEpochIInv == ASSUME IInv, NextEpoch PROVE IInv'
<1> USE TrainerAssumption
<1>1. loader' \in LoaderState
  <2>1. loader.pass \in Nat
    BY DEF IInv, TypeOK, LoaderState
  <2> QED BY <2>1 DEF NextEpoch, LoaderState
<1>2. epoch' \in 0..Epochs
  BY DEF NextEpoch, IInv, TypeOK
<1>3. TypeOK'
  BY <1>1, <1>2 DEF IInv, TypeOK, NextEpoch, storage, Written
<1>4. TrackedIsWhole'
  BY DiskAlone DEF NextEpoch
<1>5. BehindIInv' /\ WritingIInv' /\ StepIInv'
  BY DEF IInv, BehindIInv, WritingIInv, StepIInv, Stages, storage, NextEpoch
<1>6. PathsIInv'
  BY DEF IInv, PathsIInv, Increasing, Stages, storage, NextEpoch
<1> QED BY <1>3, <1>4, <1>5, <1>6 DEF IInv

(* fit returns without another step.                                       *)
LEMMA OutOfEpochsIInv == ASSUME IInv, OutOfEpochs PROVE IInv'
<1>1. TypeOK'
  BY DEF IInv, TypeOK, OutOfEpochs, memory, storage, Written
<1>2. TrackedIsWhole'
  BY DiskAlone DEF IInv, OutOfEpochs
<1>3. BehindIInv' /\ WritingIInv' /\ StepIInv'
  BY DEF BehindIInv, WritingIInv, StepIInv, Running, Stages, OutOfEpochs
<1>4. PathsIInv'
  BY DEF IInv, PathsIInv, Increasing, Stages, OutOfEpochs, memory
<1> QED BY <1>1, <1>2, <1>3, <1>4 DEF IInv

(* The step counter moves past the tracker.                                *)
LEMMA NextStepIInv == ASSUME IInv, NextStep PROVE IInv'
<1>1. TypeOK'
  <2>1. global_steps' \in Nat /\ pc' \in Running \cup {"down", "done", "failed"}
    BY DEF IInv, TypeOK, NextStep, Running
  <2> QED BY <2>1 DEF IInv, TypeOK, NextStep, storage, Written
<1>2. TrackedIsWhole'
  BY DiskAlone DEF IInv, NextStep
<1>3. BehindIInv'
  BY DEF IInv, TypeOK, BehindIInv, Running, Steps, storage, NextStep
<1>4. WritingIInv' /\ StepIInv'
  BY DEF WritingIInv, StepIInv, Stages, NextStep
<1>5. PathsIInv'
  BY DEF IInv, PathsIInv, Increasing, Stages, storage, NextStep
<1> QED BY <1>1, <1>2, <1>3, <1>4, <1>5 DEF IInv

-----------------------------------------------------------------------------
(* Saving.                                                                 *)

(* With a limit other than one, rotation spares the newest saved path.     *)
LEMMA SurplusSparesLast ==
  ASSUME TypeOK, MaxToKeep # 1
  PROVE  /\ Surplus \in 0..Len(saved_paths)
         /\ saved_paths # << >> => Surplus < Len(saved_paths)
<1>1. Len(saved_paths) \in Nat /\ (saved_paths # << >> => Len(saved_paths) > 0)
  BY DEF TypeOK
<1> QED BY <1>1, TrainerAssumption DEF Surplus

(* What rotation leaves of the saved paths is in order and older than the  *)
(* step being saved.                                                       *)
LEMMA RotatedPaths ==
  ASSUME IInv, MaxToKeep # 1, pc = "rotate",
         saved_paths' = SubSeq(saved_paths, Surplus + 1, Len(saved_paths))
  PROVE  /\ saved_paths' \in Seq(Steps)
         /\ Increasing(saved_paths')
         /\ \A i \in 1..Len(saved_paths') : saved_paths'[i] < global_steps
<1> DEFINE n == Len(saved_paths)
           k == Surplus
<1>1. saved_paths \in Seq(Steps) /\ n \in Nat /\ k \in 0..n /\ global_steps \in Nat
  BY SurplusSparesLast DEF IInv, TypeOK
<1> HIDE DEF k
<1>2. /\ saved_paths' \in Seq(Steps)
      /\ Len(saved_paths') = n - k
      /\ \A i \in 1..(n - k) : saved_paths'[i] = saved_paths[k + i]
  <2> DEFINE rest == SubSeq(saved_paths, k + 1, n)
  <2>1. saved_paths' = rest
    BY DEF k
  <2>2. k + 1 \in Int /\ n \in Int
        /\ \A i \in (k + 1)..n : saved_paths[i] \in Steps
    BY <1>1
  <2>3. n - (k + 1) + 1 = n - k /\ (k + 1 <= n <=> k # n)
    BY <1>1
  <2> HIDE DEF n
  <2>4. /\ rest \in Seq(Steps)
        /\ Len(rest) = IF k + 1 <= n THEN n - (k + 1) + 1 ELSE 0
        /\ \A i \in 1..(n - (k + 1) + 1) :
             rest[i] = saved_paths[(k + 1) + i - 1]
    BY <2>2, SubSeqProperties
  <2> HIDE DEF rest
  <2>6. Len(rest) = n - k
    BY <1>1, <2>3, <2>4
  <2>5. \A i \in 1..(n - k) : (k + 1) + i - 1 = k + i
    BY <1>1
  <2> QED BY <2>1, <2>3, <2>4, <2>5, <2>6
<1>3. \A i \in 1..n : saved_paths[i] \in Steps
  BY <1>1
<1>4. \A i, j \in 1..n : i < j => saved_paths[i] < saved_paths[j]
  BY DEF IInv, PathsIInv, Increasing
<1>5. \A i \in 1..n : saved_paths[i] < global_steps
  <2> SUFFICES ASSUME NEW i \in 1..n PROVE saved_paths[i] < global_steps
    OBVIOUS
  <2>1. saved_paths # << >> /\ n \in 1..n
    BY <1>1
  <2>2. tracker = saved_paths[n]
    BY <2>1 DEF IInv, PathsIInv
  <2>3. tracker \in Steps
    BY <1>3, <2>1, <2>2
  <2>4. tracker < global_steps
    BY <2>3 DEF IInv, BehindIInv, Running
  <2>5. saved_paths[i] <= saved_paths[n]
    BY <1>1, <1>3, <1>4, <2>1 DEF Steps
  <2> QED BY <1>1, <1>3, <2>1, <2>2, <2>4, <2>5 DEF Steps
<1>6. Increasing(saved_paths')
  <2> SUFFICES ASSUME NEW i \in 1..(n - k), NEW j \in 1..(n - k), i < j
               PROVE  saved_paths'[i] < saved_paths'[j]
    BY <1>2 DEF Increasing
  <2>1. k + i \in 1..n /\ k + j \in 1..n /\ k + i < k + j
    BY <1>1
  <2> QED BY <1>2, <1>4, <2>1
<1>7. ASSUME NEW i \in 1..(n - k) PROVE saved_paths'[i] < global_steps
  <2>1. k + i \in 1..n
    BY <1>1
  <2> QED BY <1>2, <1>5, <2>1
<1> QED BY <1>2, <1>6, <1>7

(* The tracked checkpoint is not among those rotated away.                 *)
LEMMA RotateSparesTracked ==
  ASSUME IInv, MaxToKeep # 1, pc = "rotate", tracker \in Steps,
         NEW i \in 1..Surplus
  PROVE  saved_paths[i] # tracker
<1> DEFINE n == Len(saved_paths)
<1>1. n \in Nat /\ Surplus \in 0..n /\ saved_paths \in Seq(Steps)
  BY SurplusSparesLast DEF IInv, TypeOK
<1>2. saved_paths # << >>
  BY <1>1
<1>3. Surplus < n /\ i < n /\ i \in 1..n /\ n \in 1..n
  BY <1>1, <1>2, SurplusSparesLast DEF IInv
<1>4. tracker = saved_paths[n]
  BY <1>2 DEF IInv, PathsIInv
<1>5. saved_paths[i] < saved_paths[n]
  BY <1>3 DEF IInv, PathsIInv, Increasing
<1>6. saved_paths[i] \in Nat /\ saved_paths[n] \in Nat
  <2>1. saved_paths[i] \in Steps /\ saved_paths[n] \in Steps
    BY <1>1, <1>3, ElementOfSeq
  <2> QED BY <2>1 DEF Steps
<1> QED BY <1>4, <1>5, <1>6

(* Rotation makes room and opens the new directory.                        *)
LEMMA RotateIInv ==
  ASSUME IInv, Rotate, MaxToKeep # 1 PROVE IInv'
<1> USE TrainerAssumption
<1>1. pc = "rotate" /\ pc' = "actor" /\ pending' = ActorParts
      /\ dirs' = dirs \cup {global_steps}
      /\ UNCHANGED << launches, global_steps, epoch, loader, actor, critic, tracker >>
  BY DEF Rotate
<1>2. /\ saved_paths' \in Seq(Steps)
      /\ Increasing(saved_paths')
      /\ \A i \in 1..Len(saved_paths') : saved_paths'[i] < global_steps
  BY <1>1, RotatedPaths DEF Rotate
<1>3. \A s \in Steps : disk'[s] = disk[s] \/ disk'[s] = Erased(s, ActorParts)
  BY DEF Rotate
<1>4. global_steps \in Steps
  BY <1>1 DEF IInv, StepIInv
<1>5. TypeOK'
  <2>1. DOMAIN disk' = Steps
    BY DEF Rotate
  <2>2. ASSUME NEW s \in Steps
        PROVE  /\ DOMAIN disk'[s] = Parts
               /\ \A p \in Parts : disk'[s][p] \in {Missing, Torn}
                                   \/ Written(p, disk'[s][p])
    <3>1. CASE disk'[s] = disk[s]
      BY <3>1 DEF IInv, TypeOK
    <3>2. CASE disk'[s] = Erased(s, ActorParts)
      BY <3>2 DEF IInv, TypeOK, Erased
    <3> QED BY <1>3, <3>1, <3>2
  <2>3. dirs' \subseteq Steps /\ pending' \subseteq Parts
    BY <1>1, <1>4 DEF IInv, TypeOK, Parts
  <2> QED BY <1>1, <1>2, <2>1, <2>2, <2>3 DEF IInv, TypeOK, Running, Written
<1>6. TrackedIsWhole'
  <2> SUFFICES ASSUME tracker \in Steps PROVE Whole(tracker)'
    BY <1>1 DEF TrackedIsWhole
  <2>1. \A i \in 1..Surplus : saved_paths[i] # tracker
    BY <1>1, RotateSparesTracked
  <2>2. disk'[tracker] = disk[tracker]
    BY <2>1 DEF Rotate
  <2>3. Whole(tracker)
    BY DEF IInv, TrackedIsWhole
  <2> QED BY <1>1, <2>2, <2>3 DEF Whole, Readable
<1>7. BehindIInv'
  BY <1>1 DEF IInv, BehindIInv, Running
<1>8. WritingIInv'
  <2>1. Parts \ Due(pc)' = {}
    BY <1>1 DEF Due, Parts
  <2> QED BY <1>1, <2>1 DEF WritingIInv
<1>9. PathsIInv'
  BY <1>1, <1>2 DEF PathsIInv, Stages
<1>10. StepIInv'
  BY <1>1, <1>4 DEF StepIInv
<1> QED BY <1>5, <1>6, <1>7, <1>8, <1>9, <1>10 DEF IInv

(* Writing into the current directory leaves every other directory alone,  *)
(* the tracked one included.                                               *)
LEMMA WriteCurrent ==
  ASSUME IInv, NEW p \in Parts, NEW x, Writing,
         x = Torn \/ Written(p, x),
         disk' = [disk EXCEPT ![global_steps][p] = x],
         UNCHANGED << pc, global_steps, tracker, dirs >>
  PROVE  /\ TrackedIsWhole'
         /\ global_steps \in Steps
         /\ disk'[global_steps] = [disk[global_steps] EXCEPT ![p] = x]
         /\ DOMAIN disk' = Steps
         /\ \A s \in Steps :
              /\ DOMAIN disk'[s] = Parts
              /\ \A q \in Parts : disk'[s][q] \in {Missing, Torn}
                                  \/ Written(q, disk'[s][q])
<1>1. global_steps \in Steps /\ DOMAIN disk = Steps
  BY DEF IInv, StepIInv, TypeOK, Writing, Stages
<1>2. disk'[global_steps] = [disk[global_steps] EXCEPT ![p] = x]
      /\ DOMAIN disk' = Steps
  BY <1>1
<1>3. \A s \in Steps \ {global_steps} : disk'[s] = disk[s]
  BY <1>1
<1>4. TrackedIsWhole'
  <2> SUFFICES ASSUME tracker \in Steps PROVE Whole(tracker)'
    BY DEF TrackedIsWhole
  <2>1. tracker < global_steps
    BY DEF IInv, BehindIInv, Running, Writing
  <2>2. tracker # global_steps
    BY <1>1, <2>1 DEF Steps
  <2>3. disk'[tracker] = disk[tracker]
    BY <1>3, <2>2
  <2>4. Whole(tracker)
    BY DEF IInv, TrackedIsWhole
  <2> QED BY <2>3, <2>4 DEF Whole, Readable
<1>5. ASSUME NEW s \in Steps
      PROVE  /\ DOMAIN disk'[s] = Parts
             /\ \A q \in Parts : disk'[s][q] \in {Missing, Torn}
                                 \/ Written(q, disk'[s][q])
  <2>1. CASE s = global_steps
    BY <1>2, <2>1 DEF IInv, TypeOK
  <2>2. CASE s # global_steps
    BY <1>3, <2>2 DEF IInv, TypeOK
  <2> QED BY <2>1, <2>2
<1> QED BY <1>1, <1>2, <1>4, <1>5

(* Opening a file of the current stage.                                    *)
LEMMA StartWriteIInv ==
  ASSUME IInv, NEW p \in Parts, StartWrite(p) PROVE IInv'
<1>1. UNCHANGED << pc, launches, global_steps, epoch, loader, actor, critic,
                   saved_paths, pending, dirs, tracker >>
      /\ Writing /\ p \in pending
      /\ disk' = [disk EXCEPT ![global_steps][p] = Torn]
  BY DEF StartWrite, memory
<1>2. /\ TrackedIsWhole'
      /\ global_steps \in Steps
      /\ disk'[global_steps] = [disk[global_steps] EXCEPT ![p] = Torn]
      /\ DOMAIN disk' = Steps
      /\ \A s \in Steps :
           /\ DOMAIN disk'[s] = Parts
           /\ \A q \in Parts : disk'[s][q] \in {Missing, Torn}
                               \/ Written(q, disk'[s][q])
  BY <1>1, WriteCurrent
<1>3. TypeOK'
  BY <1>1, <1>2 DEF IInv, TypeOK, Written
<1>4. WritingIInv'
  <2>1. Due(pc)' = Due(pc)
    BY <1>1 DEF Due
  <2>2. p \in Due(pc)
    BY <1>1 DEF Due, Writing
  <2>3. pc \in Stages
    BY <1>1 DEF Writing, Stages
  <2>4. \A q \in Parts \ Due(pc) : disk'[global_steps][q] = disk[global_steps][q]
    BY <1>2, <2>2 DEF IInv, TypeOK
  <2>5. \A q \in Parts \ Due(pc) : disk[global_steps][q] = Content(q)
    BY <2>3 DEF IInv, WritingIInv
  <2>6. \A q \in Parts : Content(q)' = Content(q)
    BY <1>1 DEF Content
  <2> QED BY <1>1, <2>1, <2>3, <2>4, <2>5, <2>6 DEF IInv, WritingIInv
<1>5. BehindIInv' /\ PathsIInv' /\ StepIInv'
  BY <1>1 DEF IInv, BehindIInv, PathsIInv, StepIInv, Increasing
<1> QED BY <1>2, <1>3, <1>4, <1>5 DEF IInv

(* A file of the current stage receives what is in memory.                 *)
LEMMA FinishWriteIInv ==
  ASSUME IInv, NEW p \in Parts, FinishWrite(p) PROVE IInv'
<1> USE TrainerAssumption
<1>1. UNCHANGED << pc, launches, global_steps, epoch, loader, actor, critic,
                   saved_paths, dirs, tracker >>
      /\ Writing /\ p \in pending /\ pending' = pending \ {p}
      /\ disk' = [disk EXCEPT ![global_steps][p] = Content(p)]
  BY DEF FinishWrite
<1>2. Written(p, Content(p))
  BY DEF IInv, TypeOK, Written, Content
<1>3. /\ TrackedIsWhole'
      /\ global_steps \in Steps
      /\ disk'[global_steps] = [disk[global_steps] EXCEPT ![p] = Content(p)]
      /\ DOMAIN disk' = Steps
      /\ \A s \in Steps :
           /\ DOMAIN disk'[s] = Parts
           /\ \A q \in Parts : disk'[s][q] \in {Missing, Torn}
                               \/ Written(q, disk'[s][q])
  BY <1>1, <1>2, WriteCurrent
<1>4. TypeOK'
  BY <1>1, <1>3 DEF IInv, TypeOK, Written
<1>5. WritingIInv'
  <2>1. Due(pc) \subseteq Due(pc)' \cup {p}
    BY <1>1 DEF Due, Writing
  <2>2. pc \in Stages
    BY <1>1 DEF Writing, Stages
  <2>3. ASSUME NEW q \in Parts \ Due(pc)'
        PROVE  disk'[global_steps][q] = Content(q)
    <3>1. CASE q = p
      BY <1>3, <3>1 DEF IInv, TypeOK
    <3>2. CASE q # p
      <4>1. q \notin Due(pc)
        BY <2>1, <3>2
      <4>2. disk[global_steps][q] = Content(q)
        BY <2>2, <4>1 DEF IInv, WritingIInv
      <4> QED BY <1>3, <3>2, <4>2 DEF IInv, TypeOK
    <3> QED BY <3>1, <3>2
  <2>4. \A q \in Parts : Content(q)' = Content(q)
    BY <1>1 DEF Content
  <2> QED BY <1>1, <2>2, <2>3, <2>4 DEF IInv, WritingIInv
<1>6. BehindIInv' /\ PathsIInv' /\ StepIInv'
  BY <1>1 DEF IInv, BehindIInv, PathsIInv, StepIInv, Increasing
<1> QED BY <1>3, <1>4, <1>5, <1>6 DEF IInv

(* The next stage owes what this one leaves.                               *)
LEMMA EndStageIInv ==
  ASSUME IInv, EndStage PROVE IInv'
<1> USE TrainerAssumption
<1>1. /\ UNCHANGED << launches, global_steps, epoch, loader, actor, critic,
                      disk, dirs, tracker >>
      /\ pc \in {"actor", "critic", "data"} /\ pending = {}
      /\ pc' = AfterStage(pc) /\ pending' = StageParts(AfterStage(pc))
      /\ saved_paths' = IF pc = "actor" THEN Append(saved_paths, global_steps)
                        ELSE saved_paths
  BY DEF EndStage, Writing, storage
<1>2. /\ pc' \in {"critic", "data", "tracker"}
      /\ pc' = "critic" => UseCritic
      /\ pc' = "data" => pc = "critic" \/ ~ UseCritic
      /\ pc' = "tracker" => pc = "data"
  BY <1>1 DEF AfterStage
<1>3. /\ pc' = "critic" => pending' = {"critic"}
      /\ pc' = "data" => pending' = {"data"}
      /\ pc' = "tracker" => pending' = {}
  BY <1>1, <1>2 DEF StageParts
<1>4. global_steps \in Steps
  BY <1>1 DEF IInv, StepIInv, Stages
<1>5. saved_paths' \in Seq(Steps)
  BY <1>1, <1>4 DEF IInv, TypeOK
<1>6. TypeOK'
  <2>1. pending' \subseteq Parts
    BY <1>2, <1>3 DEF Parts, CriticParts
  <2>2. pc' \in Running
    BY <1>2 DEF Running
  <2> QED BY <1>1, <1>5, <2>1, <2>2 DEF IInv, TypeOK, Written
<1>7. TrackedIsWhole'
  BY <1>1, DiskAlone DEF storage
<1>8. WritingIInv'
  <2>1. Parts \cap Due(pc) \subseteq Due(pc)'
    BY <1>1, <1>2, <1>3 DEF Due, CriticParts
  <2>2. \A p \in Parts \ Due(pc) : disk[global_steps][p] = Content(p)
    BY <1>1 DEF IInv, WritingIInv, Stages
  <2>3. \A p \in Parts : Content(p)' = Content(p)
    BY <1>1 DEF Content
  <2>4. \A p \in Parts \ Due(pc)' : (disk[global_steps][p])' = Content(p)'
    BY <1>1, <2>1, <2>2, <2>3
  <2>5. global_steps' \in dirs'
    BY <1>1 DEF IInv, WritingIInv, Stages
  <2>6. pc' = "critic" => UseCritic /\ pending' \subseteq CriticParts
    BY <1>2, <1>3 DEF CriticParts
  <2> QED BY <1>2, <2>4, <2>5, <2>6 DEF WritingIInv
<1>9. BehindIInv'
  BY <1>1, <1>2 DEF IInv, BehindIInv, Running
<1>10. PathsIInv'
  <2>1. CASE pc = "actor"
    <3>1. \A i \in 1..Len(saved_paths) : saved_paths[i] < global_steps
      BY <2>1 DEF IInv, PathsIInv
    <3>2. saved_paths \in Seq(Steps) /\ Len(saved_paths) \in Nat
      BY DEF IInv, TypeOK
    <3>3. /\ Len(saved_paths') = Len(saved_paths) + 1
          /\ saved_paths'[Len(saved_paths) + 1] = global_steps
          /\ \A i \in 1..Len(saved_paths) : saved_paths'[i] = saved_paths[i]
      BY <1>1, <1>4, <2>1, <3>2
    <3>4. \A i, j \in 1..Len(saved_paths) : i < j => saved_paths[i] < saved_paths[j]
      BY DEF IInv, PathsIInv, Increasing
    <3>5. Increasing(saved_paths')
      BY <3>1, <3>2, <3>3, <3>4 DEF Increasing
    <3>6. saved_paths' # << >>
      BY <1>5, <3>2, <3>3
    <3> QED BY <1>1, <1>2, <3>2, <3>3, <3>5, <3>6 DEF PathsIInv
  <2>2. CASE pc # "actor"
    BY <1>1, <1>2, <2>2 DEF IInv, PathsIInv, Increasing, Stages
  <2> QED BY <2>1, <2>2
<1>11. StepIInv'
  BY <1>1, <1>4 DEF StepIInv
<1> QED BY <1>6, <1>7, <1>8, <1>9, <1>10, <1>11 DEF IInv

(* A truncated tracker names no checkpoint.                                *)
LEMMA TruncateTrackerIInv ==
  ASSUME IInv, TruncateTracker PROVE IInv'
<1> USE TrainerAssumption
<1>1. /\ UNCHANGED << launches, global_steps, epoch, loader, actor, critic,
                      saved_paths, pending, disk, dirs >>
      /\ pc = "tracker" /\ pc' = "marking" /\ tracker' = Torn
  BY DEF TruncateTracker, memory
<1>2. tracker' \notin Steps
  BY <1>1 DEF Steps
<1>3. TypeOK'
  BY <1>1 DEF IInv, TypeOK, Running, Written
<1>4. TrackedIsWhole' /\ BehindIInv'
  BY <1>2 DEF TrackedIsWhole, BehindIInv, Steps
<1>5. WritingIInv'
  <2>1. Due(pc)' = {} /\ Due(pc) = {}
    BY <1>1 DEF Due
  <2>2. \A p \in Parts : Content(p)' = Content(p)
    BY <1>1 DEF Content
  <2> QED BY <1>1, <2>1, <2>2 DEF IInv, WritingIInv, Stages
<1>6. PathsIInv' /\ StepIInv'
  BY <1>1 DEF IInv, PathsIInv, StepIInv, Increasing, Stages
<1> QED BY <1>3, <1>4, <1>5, <1>6 DEF IInv

(* The tracker is moved to a checkpoint all of whose files hold what is in *)
(* memory.                                                                 *)
LEMMA WriteTrackerIInv ==
  ASSUME IInv, WriteTracker PROVE IInv'
<1> USE TrainerAssumption
<1>1. /\ UNCHANGED << launches, global_steps, epoch, loader, actor, critic,
                      saved_paths, pending, disk, dirs >>
      /\ pc = "marking" /\ pc' = "next" /\ tracker' = global_steps
  BY DEF WriteTracker, memory
<1>2. global_steps \in Steps /\ global_steps \in dirs
  BY <1>1 DEF IInv, StepIInv, WritingIInv, Stages
<1>3. \A p \in Parts : disk[global_steps][p] = Content(p)
  BY <1>1 DEF IInv, WritingIInv, Stages, Due
<1>4. \A p \in Parts : Content(p) \notin {Missing, Torn}
  <2> SUFFICES ASSUME NEW p \in Parts PROVE Content(p) \notin {Missing, Torn}
    OBVIOUS
  <2>1. Content(p) \in LoaderState \/ Content(p) \in Seq(Use)
    BY DEF IInv, TypeOK, Content
  <2> QED BY <2>1
<1>5. Whole(global_steps)
  <2>1. Readable(global_steps, Parts)
    BY <1>3, <1>4 DEF Readable
  <2>2. \A r \in Ranks : disk[global_steps][r] = actor
    BY <1>3 DEF Parts, ActorParts, Content
  <2> QED BY <1>2, <2>1, <2>2 DEF Whole
<1>6. TypeOK'
  BY <1>1, <1>2 DEF IInv, TypeOK, Running, Written
<1>7. TrackedIsWhole'
  BY <1>1, <1>5 DEF TrackedIsWhole, Whole, Readable
<1>8. BehindIInv'
  BY <1>1, <1>2 DEF BehindIInv, Steps
<1>9. WritingIInv' /\ StepIInv'
  BY <1>1 DEF WritingIInv, StepIInv, Stages
<1>10. PathsIInv'
  BY <1>1 DEF IInv, PathsIInv, Increasing, Stages
<1> QED BY <1>6, <1>7, <1>8, <1>9, <1>10 DEF IInv

-----------------------------------------------------------------------------
(* The theorems.                                                           *)

(* Every step of the job, its death and its restart included, preserves    *)
(* the inductive invariant.                                                *)
LEMMA NextIInv ==
  ASSUME IInv, Next, ResumeMode = "auto", MaxToKeep # 1 PROVE IInv'
<1> USE TrainerAssumption
<1>1. CASE Launch
  <2>1. launches' \in Nat
    BY <1>1 DEF Launch, IInv, TypeOK
  <2> QED BY <1>1, <2>1, FreshIInv DEF Launch
<1>2. CASE Crash
  <2>1. launches' \in Nat /\ UNCHANGED storage
    BY <1>2 DEF Crash, IInv, TypeOK
  <2> QED BY <1>2, <2>1, FreshIInv DEF Crash
<1>3. CASE Load
  BY <1>3, LoadNothingIInv, ResumeIInv, LoadFailsIInv DEF Load
<1>4. CASE Step
  BY <1>4, TrainStepIInv, NextEpochIInv, OutOfEpochsIInv, NextStepIInv DEF Step
<1>5. CASE Save
  BY <1>5, RotateIInv, StartWriteIInv, FinishWriteIInv, EndStageIInv,
     TruncateTrackerIInv, WriteTrackerIInv DEF Save
<1> QED BY <1>1, <1>2, <1>3, <1>4, <1>5 DEF Next, Work

(* A stuttering step preserves it.                                         *)
LEMMA StutterIInv ==
  ASSUME IInv, UNCHANGED vars PROVE IInv'
<1>1. UNCHANGED << pc, launches, global_steps, epoch, loader, actor, critic,
                   saved_paths, pending, disk, dirs, tracker >>
  BY DEF vars, memory, storage
<1>2. TypeOK'
  BY <1>1 DEF IInv, TypeOK, Written
<1>3. TrackedIsWhole'
  BY <1>1, DiskAlone DEF storage
<1>4. WritingIInv'
  <2>1. Due(pc)' = Due(pc) /\ \A p \in Parts : Content(p)' = Content(p)
    BY <1>1 DEF Due, Content
  <2> QED BY <1>1, <2>1 DEF IInv, WritingIInv
<1>5. BehindIInv' /\ PathsIInv' /\ StepIInv'
  BY <1>1 DEF IInv, BehindIInv, PathsIInv, StepIInv, Increasing
<1> QED BY <1>2, <1>3, <1>4, <1>5 DEF IInv

(* The inductive invariant holds of every run that resumes and whose limit *)
(* on the actor's checkpoints (max_actor_ckpt_to_keep) is not one.         *)
THEOREM TrainerInvariant ==
  ASSUME ResumeMode = "auto", MaxToKeep # 1
  PROVE  Spec => []IInv
<1>1. IInv /\ [Next]_vars => IInv'
  BY NextIInv, StutterIInv
<1> QED BY <1>1, InitIInv, PTL DEF Spec

(* Whenever the job dies, wherever it was, the checkpoint the tracker      *)
(* names has every file, none of them torn, and the ranks' shards are      *)
(* those of one set of weights: for every number of ranks, of steps, of    *)
(* crashes and of restarts.                                                *)
THEOREM TrackedCheckpointIsWhole ==
  ASSUME ResumeMode = "auto", MaxToKeep # 1
  PROVE  Spec => []TrackedIsWhole
<1>1. IInv => TrackedIsWhole
  BY DEF IInv
<1> QED BY <1>1, TrainerInvariant, PTL

(* The trainer's state and every file of every checkpoint stay within      *)
(* their types.                                                            *)
THEOREM TrainerTypeCorrect ==
  ASSUME ResumeMode = "auto", MaxToKeep # 1
  PROVE  Spec => []TypeOK
<1>1. IInv => TypeOK
  BY DEF IInv
<1> QED BY <1>1, TrainerInvariant, PTL

-----------------------------------------------------------------------------
(* One history: memory and the tracked checkpoint have each seen every     *)
(* batch up to their step.                                                 *)

FirstActorStep == IF CriticWarmup < 1 THEN 1 ELSE CriticWarmup

Moment(n, l, c, a) ==
  /\ Number(l) = n
  /\ UseCritic => /\ Len(c) = n
                  /\ InOrder(c)
                  /\ a = SubSeq(c, FirstActorStep, n)

MemoryMoment ==
  /\ pc = "loading" => loader = FreshLoader /\ critic = << >> /\ actor = << >>
  /\ pc \in Running \ {"loading"} =>
       Moment(IF pc = "ready" THEN global_steps - 1 ELSE global_steps,
              loader, critic, actor)

(* The last step is known to be saved before the loop ends.                *)
LastMoment ==
  /\ (pc = "next" /\ SaveFreq > 0 /\ IsLastStep) => tracker = global_steps
  /\ LastStepIsSaved

HInv == IInv /\ MemoryMoment /\ TrackedIsOneMoment /\ LastMoment

(* No step but WriteTracker changes the checkpoint the tracker names.      *)
LEMMA TrackedUntouched ==
  ASSUME IInv, Next, MaxToKeep # 1, ~ WriteTracker, tracker' \in Steps
  PROVE  tracker' = tracker /\ disk'[tracker] = disk[tracker]
<1> USE TrainerAssumption
<1>1. CASE UNCHANGED storage
  BY <1>1 DEF storage
<1>2. CASE Rotate
  <2>1. tracker' = tracker /\ pc = "rotate"
    BY <1>2 DEF Rotate
  <2>2. \A i \in 1..Surplus : saved_paths[i] # tracker
    BY <2>1, RotateSparesTracked
  <2> QED BY <1>2, <2>1, <2>2 DEF Rotate
<1>3. ASSUME NEW p \in Parts, StartWrite(p) \/ FinishWrite(p)
      PROVE  tracker' = tracker /\ disk'[tracker] = disk[tracker]
  <2>1. Writing /\ tracker' = tracker
        /\ \E x : disk' = [disk EXCEPT ![global_steps][p] = x]
    BY <1>3 DEF StartWrite, FinishWrite
  <2>2. tracker < global_steps
    BY <2>1 DEF IInv, BehindIInv, Running, Writing
  <2>3. tracker # global_steps
    BY <2>1, <2>2 DEF Steps
  <2> QED BY <2>1, <2>3 DEF IInv, TypeOK
<1>4. CASE TruncateTracker
  BY <1>4 DEF TruncateTracker, Steps
<1> QED
  BY <1>1, <1>2, <1>3, <1>4
  DEF Next, Launch, Crash, Work, Load, Save, Step, LoadNothing, Resume, LoadFails,
      TrainStep, NextEpoch, OutOfEpochs, NextStep, EndStage

(* So the tracked checkpoint stays one moment.                             *)
LEMMA TrackedMomentStays ==
  ASSUME HInv, Next, MaxToKeep # 1, ~ WriteTracker
  PROVE  TrackedIsOneMoment'
<1> SUFFICES ASSUME tracker' \in Steps PROVE TrackedIsOneMoment'
  BY DEF TrackedIsOneMoment
<1>1. tracker' = tracker /\ disk'[tracker] = disk[tracker]
  BY TrackedUntouched DEF HInv
<1> QED BY <1>1 DEF HInv, TrackedIsOneMoment

(* A new tracker names what is in memory.                                  *)
LEMMA WriteTrackerMoment ==
  ASSUME HInv, WriteTracker
  PROVE  TrackedIsOneMoment' /\ MemoryMoment' /\ LastMoment'
<1> USE TrainerAssumption
<1>1. /\ UNCHANGED << global_steps, loader, actor, critic, disk >>
      /\ pc = "marking" /\ pc' = "next" /\ tracker' = global_steps
  BY DEF WriteTracker, memory
<1>2. Moment(global_steps, loader, critic, actor)
  BY <1>1 DEF HInv, MemoryMoment, Running
<1>3. \A p \in Parts : disk[global_steps][p] = Content(p)
  BY <1>1 DEF HInv, IInv, WritingIInv, Stages, Due
<1>4. disk[global_steps]["data"] = loader
  BY <1>3 DEF Content, Parts
<1>5. UseCritic => disk[global_steps]["critic"] = critic
  BY <1>3 DEF Content, Parts, CriticParts
<1>6. \A r \in Ranks : disk[global_steps][r] = actor
  BY <1>3 DEF Content, Parts, ActorParts
<1>7. TrackedIsOneMoment'
  BY <1>1, <1>2, <1>4, <1>5, <1>6 DEF TrackedIsOneMoment, Moment, FirstActorStep
<1>8. MemoryMoment' /\ LastMoment'
  BY <1>1, <1>2 DEF MemoryMoment, LastMoment, LastStepIsSaved, Moment
<1> QED BY <1>7, <1>8

(* A trained batch is the next one of its history.                         *)
LEMMA TrainStepMoment ==
  ASSUME HInv, NEW esi \in BOOLEAN, TrainStep(esi)
  PROVE  MemoryMoment' /\ LastMoment'
<1> USE TrainerAssumption
<1> DEFINE drawn == [pass |-> loader.pass, pos |-> loader.pos + 1]
           use   == [batch |-> drawn, launch |-> launches]
           n     == global_steps
<1>1. /\ pc = "ready" /\ pc' = IF MustSave(esi) THEN "rotate" ELSE "next"
      /\ global_steps' = n /\ loader' = drawn /\ n \in Nat \ {0}
      /\ UNCHANGED << epoch, tracker >>
  BY DEF TrainStep, Steps, storage
<1>2. critic' = IF UseCritic THEN Append(critic, use) ELSE critic
  BY DEF TrainStep
<1>3. actor' = IF CriticWarmup <= n THEN Append(actor, use) ELSE actor
  BY DEF TrainStep
<1>4. loader.pass \in Nat /\ loader.pos \in Nat /\ drawn.pass = loader.pass
      /\ drawn.pos = loader.pos + 1 /\ use.batch = drawn
  BY DEF HInv, IInv, TypeOK, LoaderState
<1>5. Moment(n - 1, loader, critic, actor)
  BY <1>1 DEF HInv, MemoryMoment, Running
<1>6. Number(drawn) = n
  <2>1. loader.pass * EpochLength \in Nat
    BY <1>4
  <2>2. Number(loader) = loader.pass * EpochLength + loader.pos
        /\ Number(drawn) = loader.pass * EpochLength + (loader.pos + 1)
    BY <1>4 DEF Number
  <2> QED BY <1>1, <1>4, <1>5, <2>1, <2>2 DEF Moment
<1> HIDE DEF drawn
<1>7. ASSUME UseCritic
      PROVE  /\ Len(critic') = n
             /\ InOrder(critic')
             /\ actor' = SubSeq(critic', FirstActorStep, n)
  <2>1. critic \in Seq(Use) /\ actor \in Seq(Use) /\ use \in Use
    <3>1. drawn \in LoaderState
      <4>1. loader.pos + 1 \in 0..EpochLength
        BY <1>4 DEF TrainStep, MoreBatches
      <4> QED BY <1>4, <4>1 DEF LoaderState, drawn
    <3> QED BY <3>1 DEF HInv, IInv, TypeOK, Use
  <2>2. Len(critic) = n - 1 /\ InOrder(critic) /\ actor = SubSeq(critic, FirstActorStep, n - 1)
    BY <1>5, <1>7 DEF Moment
  <2> HIDE DEF use, n
  <2>3. critic' = Append(critic, use)
    BY <1>2, <1>7
  <2>4. /\ Len(critic') = n /\ critic' \in Seq(Use) /\ critic'[n] = use
        /\ \A i \in 1 .. (n - 1) : critic'[i] = critic[i]
    BY <1>1, <2>1, <2>2, <2>3, AppendProperties
  <2>5. InOrder(critic')
    <3> SUFFICES ASSUME NEW i \in 1 .. n PROVE Number(critic'[i].batch) = i
      BY <2>4 DEF InOrder
    <3>1. CASE i = n
      BY <1>4, <1>6, <2>4, <3>1
    <3>2. CASE i # n
      <4>1. i \in 1 .. (n - 1)
        BY <1>1, <3>2
      <4> QED BY <2>2, <2>4, <4>1 DEF InOrder
    <3> QED BY <3>1, <3>2
  <2>6. actor' = SubSeq(critic', FirstActorStep, n)
    <3> DEFINE w == FirstActorStep
    <3>1. w \in Nat \ {0} /\ (w <= n <=> CriticWarmup <= n)
      BY <1>1 DEF FirstActorStep
    <3> HIDE DEF w
    <3>2. CASE w <= n
      <4>1. w \in 1 .. n /\ n \in 1 .. Len(critic')
        BY <1>1, <2>4, <3>1, <3>2
      <4>2. SubSeq(critic', w, n) = Append(SubSeq(critic', w, n - 1), critic'[n])
        BY <2>4, <3>1, <3>2, <4>1, SubSeqRecursiveSecond
      <4>3. SubSeq(critic', w, n - 1) = SubSeq(critic, w, n - 1)
        <5>1. CASE w = n
          BY <1>1, <5>1, SubSeqEmpty
        <5>2. CASE w < n
          <6>1. w \in 1 .. Len(critic) /\ n - 1 \in 1 .. Len(critic)
            BY <1>1, <2>2, <3>1, <5>2
          <6>2. critic' = critic \o << use >> /\ << use >> \in Seq(Use)
            BY <2>1, <2>3, AppendIsConcat
          <6> QED BY <2>1, <6>1, <6>2, SubSeqOfConcat1
        <5> QED BY <1>1, <3>1, <3>2, <5>1, <5>2
      <4> QED BY <1>3, <2>2, <2>4, <3>1, <3>2, <4>2, <4>3 DEF w
    <3>3. CASE n < w
      <4>1. actor' = actor
        BY <1>1, <1>3, <3>1, <3>3
      <4>2. SubSeq(critic, w, n - 1) = << >> /\ SubSeq(critic', w, n) = << >>
        BY <1>1, <2>1, <2>4, <3>1, <3>3, SubSeqEmpty
      <4> QED BY <2>2, <4>1, <4>2 DEF w
    <3> QED BY <1>1, <3>1, <3>2, <3>3
  <2> QED BY <2>4, <2>5, <2>6
<1>8. MemoryMoment'
  BY <1>1, <1>6, <1>7 DEF MemoryMoment, Moment
<1>9. LastMoment'
  BY <1>1 DEF LastMoment, LastStepIsSaved, IsLastStep, MustSave
<1> QED BY <1>8, <1>9

(* A resumed process has the history of the checkpoint it loads, an empty  *)
(* one no history.                                                         *)
LEMMA LoadMoment ==
  ASSUME HInv, Load, ResumeMode = "auto"
  PROVE  MemoryMoment' /\ LastMoment'
<1> USE TrainerAssumption
<1>1. CASE LoadNothing
  <2>1. /\ pc = "loading" /\ pc' = "ready" /\ global_steps' = 1
        /\ loader' = FreshLoader /\ critic' = << >> /\ actor' = << >>
    BY <1>1 DEF LoadNothing, HInv, MemoryMoment
  <2>2. Number(FreshLoader) = 0
    BY DEF Number, FreshLoader
  <2>3. FirstActorStep \in Nat \ {0}
    BY DEF FirstActorStep
  <2>4. SubSeq(<< >>, FirstActorStep, 0) = << >>
    BY <2>3, SubSeqEmpty
  <2>5. InOrder(<< >>)
    BY DEF InOrder
  <2>6. Moment(0, FreshLoader, << >>, << >>)
    BY <2>2, <2>4, <2>5 DEF Moment
  <2> QED BY <2>1, <2>6 DEF MemoryMoment, LastMoment, LastStepIsSaved
<1>2. ASSUME NEW s \in Steps, Resume(s)
      PROVE  MemoryMoment' /\ LastMoment'
  <2>1. /\ tracker = s /\ pc' = "ready" /\ global_steps' = s + 1
        /\ actor' = disk[s][CHOOSE r \in Ranks : TRUE]
        /\ critic' = IF UseCritic THEN disk[s]["critic"] ELSE << >>
        /\ loader' = IF disk[s]["data"] = Missing THEN FreshLoader ELSE disk[s]["data"]
    BY <1>2 DEF Resume, Resuming
  <2>2. disk[s]["data"] # Missing
    BY <2>1 DEF HInv, IInv, TrackedIsWhole, Whole, Readable, Parts
  <2>3. (CHOOSE r \in Ranks : TRUE) \in Ranks
    OBVIOUS
  <2>4. Moment(s, loader', critic', actor')
    BY <2>1, <2>2, <2>3 DEF HInv, TrackedIsOneMoment, Moment, FirstActorStep
  <2>5. (s + 1) - 1 = s
    BY DEF Steps
  <2> QED BY <2>1, <2>4, <2>5 DEF MemoryMoment, LastMoment, LastStepIsSaved
<1>3. CASE LoadFails
  BY <1>3 DEF LoadFails, MemoryMoment, Running, LastMoment, LastStepIsSaved
<1> QED BY <1>1, <1>2, <1>3 DEF Load

(* The other steps of the loop.                                            *)
LEMMA StepMoment ==
  ASSUME HInv, Step
  PROVE  MemoryMoment' /\ LastMoment'
<1> USE TrainerAssumption
<1>1. CASE \E esi \in (IF EsiPossible THEN BOOLEAN ELSE {FALSE}) : TrainStep(esi)
  BY <1>1, TrainStepMoment
<1>2. CASE NextEpoch
  <2>1. /\ pc = "ready" /\ pc' = "ready" /\ loader.pos >= EpochLength
        /\ loader' = [pass |-> loader.pass + 1, pos |-> 0]
        /\ UNCHANGED << global_steps, actor, critic >>
    BY <1>2 DEF NextEpoch, MoreBatches, HInv, IInv, TypeOK, LoaderState
  <2>2. loader.pass \in Nat /\ loader.pos = EpochLength
    BY <2>1 DEF HInv, IInv, TypeOK, LoaderState
  <2>3. (loader.pass + 1) * EpochLength + 0 = loader.pass * EpochLength + EpochLength
    BY <2>2
  <2>4. Number(loader') = Number(loader)
    BY <2>1, <2>2, <2>3 DEF Number
  <2> QED BY <2>1, <2>4 DEF HInv, MemoryMoment, Moment, LastMoment, LastStepIsSaved,
                            Running
<1>3. CASE OutOfEpochs
  BY <1>3 DEF OutOfEpochs, MemoryMoment, LastMoment, LastStepIsSaved, Running, memory,
              HInv, IInv, TypeOK
<1>4. CASE NextStep
  <2>1. /\ pc = "next" /\ pc' = (IF IsLastStep THEN "done" ELSE "ready")
        /\ global_steps' = global_steps + 1 /\ global_steps \in Nat
        /\ UNCHANGED << epoch, loader, actor, critic, tracker >>
    BY <1>4 DEF NextStep, storage, HInv, IInv, TypeOK
  <2>2. global_steps' - 1 = global_steps
    BY <2>1
  <2>3. MemoryMoment'
    BY <2>1, <2>2 DEF HInv, MemoryMoment, Moment, Running
  <2>4. LastMoment'
    BY <2>1, <2>2 DEF HInv, LastMoment, LastStepIsSaved
  <2> QED BY <2>3, <2>4
<1> QED BY <1>1, <1>2, <1>3, <1>4 DEF Step

(* Saving but for the tracker leaves the memory alone.                     *)
LEMMA SaveMoment ==
  ASSUME HInv, Save, ~ WriteTracker
  PROVE  MemoryMoment' /\ LastMoment'
<1>1. /\ pc \in Running \ {"loading", "ready", "next"}
      /\ pc' \in Running \ {"loading", "ready", "next"}
      /\ UNCHANGED << global_steps, loader, actor, critic >>
  <2>1. CASE Rotate
    BY <2>1 DEF Rotate, Running
  <2>2. ASSUME NEW p \in Parts, StartWrite(p) \/ FinishWrite(p)
        PROVE  /\ pc \in Running \ {"loading", "ready", "next"}
               /\ pc' \in Running \ {"loading", "ready", "next"}
               /\ UNCHANGED << global_steps, loader, actor, critic >>
    BY <2>2 DEF StartWrite, FinishWrite, Writing, Running, memory
  <2>3. CASE EndStage
    BY <2>3 DEF EndStage, Writing, AfterStage, Running
  <2>4. CASE TruncateTracker
    BY <2>4 DEF TruncateTracker, Running, memory
  <2> QED BY <2>1, <2>2, <2>3, <2>4 DEF Save
<1>2. MemoryMoment'
  BY <1>1 DEF HInv, MemoryMoment, Moment
<1>3. LastMoment'
  BY <1>1 DEF LastMoment, LastStepIsSaved, Running
<1> QED BY <1>2, <1>3

LEMMA NextHInv ==
  ASSUME HInv, Next, ResumeMode = "auto", MaxToKeep # 1
  PROVE  HInv'
<1>1. IInv'
  BY NextIInv DEF HInv
<1>2. CASE WriteTracker
  BY <1>1, <1>2, WriteTrackerMoment DEF HInv
<1>3. CASE ~ WriteTracker
  <2>1. TrackedIsOneMoment'
    BY <1>3, TrackedMomentStays
  <2>2. CASE Launch \/ Crash
    BY <1>1, <2>1, <2>2 DEF HInv, Launch, Crash, MemoryMoment, LastMoment,
                            LastStepIsSaved, Running, FreshMemory
  <2>3. CASE Load
    BY <1>1, <2>1, <2>3, LoadMoment DEF HInv
  <2>4. CASE Step
    BY <1>1, <2>1, <2>4, StepMoment DEF HInv
  <2>5. CASE Save
    BY <1>1, <1>3, <2>1, <2>5, SaveMoment DEF HInv
  <2> QED BY <2>2, <2>3, <2>4, <2>5 DEF Next, Work
<1> QED BY <1>2, <1>3

LEMMA HistoryInvariant ==
  ASSUME ResumeMode = "auto", MaxToKeep # 1
  PROVE  Spec => []HInv
<1>1. Init => HInv
  <2> SUFFICES ASSUME Init PROVE HInv
    OBVIOUS
  <2>1. tracker \notin Steps
    BY TrainerAssumption DEF Init, Steps
  <2> QED BY <2>1, InitIInv DEF HInv, Init, MemoryMoment, TrackedIsOneMoment, LastMoment,
                                LastStepIsSaved, Running
<1>2. HInv /\ [Next]_vars => HInv'
  <2> SUFFICES ASSUME HInv, [Next]_vars PROVE HInv'
    OBVIOUS
  <2>1. CASE UNCHANGED vars
    <3>1. IInv'
      BY <2>1, StutterIInv DEF HInv
    <3>2. UNCHANGED << pc, launches, global_steps, epoch, loader, actor, critic,
                       saved_paths, pending, disk, dirs, tracker >>
      BY <2>1 DEF vars, memory, storage
    <3>3. MemoryMoment' /\ TrackedIsOneMoment' /\ LastMoment'
      BY <3>2 DEF HInv, MemoryMoment, TrackedIsOneMoment, LastMoment,
                  LastStepIsSaved, IsLastStep, Moment
    <3> QED BY <3>1, <3>3 DEF HInv
  <2> QED BY <2>1, NextHInv
<1> QED BY <1>1, <1>2, PTL DEF Spec

(* Wherever a save is cut short, the parts of the tracked checkpoint have  *)
(* all seen the same batches, for every length of an epoch and any warm-up.*)
THEOREM TrackedCheckpointIsOneMoment ==
  ASSUME ResumeMode = "auto", MaxToKeep # 1
  PROVE  Spec => []TrackedIsOneMoment
<1>1. HInv => TrackedIsOneMoment
  BY DEF HInv
<1> QED BY <1>1, HistoryInvariant, PTL

(* Crashes and restarts neither repeat a batch that is in the weights nor  *)
(* skip one.                                                               *)
THEOREM HistoryHasEachBatchOnce ==
  ASSUME ResumeMode = "auto", MaxToKeep # 1
  PROVE  Spec => []EachBatchOnce
<1>1. HInv => EachBatchOnce
  BY DEF HInv, MemoryMoment, Moment, EachBatchOnce
<1> QED BY <1>1, HistoryInvariant, PTL

(* A run that ends with its last step has saved it, for every save_freq.   *)
THEOREM LastStepIsAlwaysSaved ==
  ASSUME ResumeMode = "auto", MaxToKeep # 1
  PROVE  Spec => []LastStepIsSaved
<1>1. HInv => LastStepIsSaved
  BY DEF HInv, LastMoment
<1> QED BY <1>1, HistoryInvariant, PTL

-----------------------------------------------------------------------------
(* Steps beyond the budget, by the launches that made them.                *)

OneEach(history) ==
  \A i \in (TotalSteps + 1)..Len(history) : history[i].launch # history[i - 1].launch
UpTo(history, launch) == \A i \in 1..Len(history) : history[i].launch <= launch

(* What is in memory or tracked was made by this launch or earlier ones,   *)
(* and only by earlier ones at a step beyond the budget.                   *)
LaunchesFit ==
  /\ ~ UseCritic => critic = << >>
  /\ OneEach(critic) /\ UpTo(critic, launches)
  /\ (UseCritic /\ tracker \in Steps) =>
       /\ OneEach(disk[tracker]["critic"])
       /\ UpTo(disk[tracker]["critic"],
               IF pc = "loading" THEN launches - 1 ELSE launches)
  /\ (pc = "ready" /\ global_steps > TotalSteps) => UpTo(critic, launches - 1)

BInv == HInv /\ LaunchesFit

(* Histories hold uses, whose launches are numbers.                        *)
LEMMA SavedHistory ==
  ASSUME IInv, UseCritic, tracker \in Steps
  PROVE  disk[tracker]["critic"] \in Seq(Use)
<1>1. "critic" \in Parts /\ "critic" # "data"
  BY DEF Parts, CriticParts
<1>2. disk[tracker]["critic"] \notin {Missing, Torn}
  BY <1>1 DEF IInv, TrackedIsWhole, Whole, Readable
<1> QED BY <1>1, <1>2 DEF IInv, TypeOK, Written

LEMMA LaterLaunch ==
  ASSUME NEW history \in Seq(Use), NEW a \in Int, NEW b \in Int, a <= b, UpTo(history, a)
  PROVE  UpTo(history, b)
<1> SUFFICES ASSUME NEW i \in 1..Len(history) PROVE history[i].launch <= b
  BY DEF UpTo
<1>1. history[i] \in Use
  BY ElementOfSeq
<1>2. history[i].launch \in Nat
  BY <1>1 DEF Use
<1>3. history[i].launch <= a
  BY DEF UpTo
<1> QED BY <1>2, <1>3

(* The batch trained beyond the budget is the first of its launch.         *)
LEMMA TrainStepLaunch ==
  ASSUME BInv, NEW esi \in BOOLEAN, TrainStep(esi)
  PROVE  LaunchesFit'
<1> USE TrainerAssumption
<1> DEFINE drawn == [pass |-> loader.pass, pos |-> loader.pos + 1]
           use == [batch |-> drawn, launch |-> launches]
<1>1. /\ pc = "ready" /\ pc' \in {"rotate", "next"}
      /\ critic' = IF UseCritic THEN Append(critic, use) ELSE critic
      /\ UNCHANGED << launches, global_steps, disk, tracker >>
  BY DEF TrainStep, storage
<1>2. use.launch = launches /\ launches \in Nat /\ global_steps \in Nat
  BY DEF BInv, HInv, IInv, TypeOK
<1>3. critic \in Seq(Use) /\ OneEach(critic) /\ UpTo(critic, launches)
  BY DEF BInv, HInv, IInv, TypeOK, LaunchesFit
<1>4. drawn \in LoaderState
  <2>1. loader.pass \in Nat /\ loader.pos \in 0..EpochLength
    BY DEF BInv, HInv, IInv, TypeOK, LoaderState
  <2>2. loader.pos + 1 \in 0..EpochLength
    BY <2>1 DEF TrainStep, MoreBatches
  <2> QED BY <2>1, <2>2 DEF LoaderState
<1>5. use \in Use
  BY <1>2, <1>4 DEF Use
<1> HIDE DEF use
<1>6. CASE UseCritic
  <2>1. Len(critic) = global_steps - 1
    BY <1>1, <1>6 DEF BInv, HInv, MemoryMoment, Moment, Running
  <2>2. /\ Len(critic') = Len(critic) + 1
        /\ critic'[Len(critic) + 1] = use
        /\ \A i \in 1..Len(critic) : critic'[i] = critic[i]
    BY <1>1, <1>3, <1>5, <1>6, AppendProperties
  <2>3. UpTo(critic', launches)
    <3> SUFFICES ASSUME NEW i \in 1..(Len(critic) + 1) PROVE critic'[i].launch <= launches
      BY <2>2 DEF UpTo
    <3>1. CASE i = Len(critic) + 1
      BY <1>2, <2>2, <3>1
    <3>2. CASE i \in 1..Len(critic)
      BY <1>3, <2>2, <3>2 DEF UpTo
    <3> QED BY <1>3, <3>1, <3>2
  <2>4. OneEach(critic')
    <3> SUFFICES ASSUME NEW i \in (TotalSteps + 1)..(Len(critic) + 1)
                 PROVE  critic'[i].launch # critic'[i - 1].launch
      BY <2>2 DEF OneEach
    <3>1. CASE i = Len(critic) + 1
      <4>1. global_steps > TotalSteps /\ Len(critic) \in 1..Len(critic)
            /\ i - 1 = Len(critic)
        BY <1>2, <1>3, <2>1, <3>1
      <4>2. critic[Len(critic)].launch <= launches - 1
        BY <1>1, <4>1 DEF BInv, LaunchesFit, UpTo
      <4>3. critic[Len(critic)].launch \in Nat
        <5>1. critic[Len(critic)] \in Use
          BY <1>3, <4>1, ElementOfSeq
        <5> QED BY <5>1 DEF Use
      <4> QED BY <1>2, <2>2, <3>1, <4>1, <4>2, <4>3
    <3>2. CASE i \in (TotalSteps + 1)..Len(critic)
      <4>1. i \in 1..Len(critic) /\ i - 1 \in 1..Len(critic)
        BY <1>3, <3>2
      <4> QED BY <1>3, <2>2, <3>2, <4>1 DEF OneEach
    <3> QED BY <1>3, <3>1, <3>2
  <2> QED BY <1>1, <1>6, <2>3, <2>4 DEF BInv, LaunchesFit
<1>7. CASE ~ UseCritic
  BY <1>1, <1>3, <1>7 DEF BInv, LaunchesFit
<1> QED BY <1>6, <1>7

(* A step that leaves the histories of memory and tracker alone keeps      *)
(* their launches.                                                         *)
LEMMA SameHistories ==
  ASSUME BInv, UNCHANGED << critic, launches >>, MaxToKeep # 1, Next, ~ WriteTracker,
         pc' # "loading",
         (pc' = "ready" /\ global_steps' > TotalSteps) => UpTo(critic, launches - 1)
  PROVE  LaunchesFit'
<1>1. launches \in Nat
  BY DEF BInv, HInv, IInv, TypeOK
<1>2. ASSUME UseCritic, tracker' \in Steps
      PROVE  OneEach(disk'[tracker']["critic"]) /\ UpTo(disk'[tracker']["critic"], launches)
  <2>1. tracker' = tracker /\ disk'[tracker] = disk[tracker]
    BY <1>2, TrackedUntouched DEF BInv, HInv
  <2>2. disk[tracker]["critic"] \in Seq(Use)
    BY <1>2, <2>1, SavedHistory DEF BInv, HInv
  <2>3. UpTo(disk[tracker]["critic"], launches)
    BY <1>1, <1>2, <2>1, <2>2, LaterLaunch DEF BInv, LaunchesFit
  <2> QED BY <1>2, <2>1, <2>3 DEF BInv, LaunchesFit
<1> QED BY <1>2 DEF BInv, LaunchesFit

LEMMA NextLaunch ==
  ASSUME BInv, Next, ResumeMode = "auto", MaxToKeep # 1
  PROVE  LaunchesFit'
<1> USE TrainerAssumption
<1>1. launches \in Nat /\ global_steps \in Nat
  BY DEF BInv, HInv, IInv, TypeOK
<1>2. CASE Launch \/ Crash
  <2>1. /\ critic' = << >> /\ UNCHANGED << disk, tracker >>
        /\ \/ pc # "loading" /\ pc' = "loading" /\ launches' = launches + 1
           \/ pc' = "down" /\ launches' = launches
    BY <1>2 DEF Launch, Crash, FreshMemory, storage
  <2>2. ASSUME UseCritic, tracker \in Steps
        PROVE  /\ OneEach(disk[tracker]["critic"])
               /\ UpTo(disk[tracker]["critic"],
                       IF pc' = "loading" THEN launches' - 1 ELSE launches')
    <3>1. disk[tracker]["critic"] \in Seq(Use)
      BY <2>2, SavedHistory DEF BInv, HInv
    <3>2. UpTo(disk[tracker]["critic"], launches)
      BY <1>1, <2>2, <3>1, LaterLaunch DEF BInv, LaunchesFit
    <3>3. (IF pc' = "loading" THEN launches' - 1 ELSE launches') = launches
      BY <1>1, <2>1
    <3> QED BY <2>2, <3>2, <3>3 DEF BInv, LaunchesFit
  <2>3. OneEach(<< >>) /\ \A n \in Int : UpTo(<< >>, n)
    BY DEF OneEach, UpTo
  <2> QED BY <1>1, <2>1, <2>2, <2>3 DEF LaunchesFit
<1>3. CASE LoadNothing
  <2>1. pc' = "ready" /\ global_steps' = 1 /\ UNCHANGED << critic, launches >> /\ ~ WriteTracker
    BY <1>3 DEF LoadNothing, WriteTracker
  <2> QED BY <2>1, SameHistories
<1>4. ASSUME NEW s \in Steps, Resume(s)
      PROVE  LaunchesFit'
  <2>1. /\ pc = "loading" /\ tracker = s /\ pc' = "ready"
        /\ critic' = IF UseCritic THEN disk[s]["critic"] ELSE << >>
        /\ UNCHANGED << launches, disk, tracker >>
    BY <1>4 DEF Resume, Resuming, storage
  <2>2. CASE UseCritic
    <3>1. disk[s]["critic"] \in Seq(Use)
      BY <2>1, <2>2, SavedHistory DEF BInv, HInv
    <3>2. OneEach(disk[s]["critic"]) /\ UpTo(disk[s]["critic"], launches - 1)
      BY <2>1, <2>2 DEF BInv, LaunchesFit
    <3>3. UpTo(disk[s]["critic"], launches)
      BY <1>1, <3>1, <3>2, LaterLaunch
    <3> QED BY <2>1, <2>2, <3>2, <3>3 DEF LaunchesFit
  <2>3. CASE ~ UseCritic
    BY <2>1, <2>3 DEF LaunchesFit, OneEach, UpTo
  <2> QED BY <2>2, <2>3
<1>5. CASE LoadFails
  <2>1. pc' = "failed" /\ UNCHANGED << critic, launches >> /\ ~ WriteTracker
    BY <1>5 DEF LoadFails, memory, WriteTracker, Resuming
  <2> QED BY <2>1, SameHistories
<1>6. ASSUME NEW esi \in BOOLEAN, TrainStep(esi)
      PROVE  LaunchesFit'
  BY <1>6, TrainStepLaunch
<1>7. CASE NextEpoch \/ OutOfEpochs \/ NextStep
  <2>1. /\ pc' # "loading" /\ UNCHANGED << critic, launches >> /\ ~ WriteTracker
        /\ (pc' = "ready" /\ global_steps' > TotalSteps) =>
             pc = "ready" /\ global_steps > TotalSteps
    BY <1>1, <1>7 DEF NextEpoch, OutOfEpochs, NextStep, memory, WriteTracker, IsLastStep
  <2> QED BY <2>1, SameHistories DEF BInv, LaunchesFit
<1>8. CASE Save /\ ~ WriteTracker
  <2>1. pc' \notin {"loading", "ready"} /\ UNCHANGED << critic, launches >>
    BY <1>8 DEF Save, Rotate, StartWrite, FinishWrite, Writing, EndStage, AfterStage,
                TruncateTracker, memory
  <2> QED BY <1>8, <2>1, SameHistories
<1>9. CASE WriteTracker
  <2>1. /\ pc = "marking" /\ pc' = "next" /\ tracker' = global_steps
        /\ UNCHANGED << critic, launches, disk, global_steps >>
    BY <1>9 DEF WriteTracker, memory
  <2>2. UseCritic => disk[global_steps]["critic"] = critic
    BY <2>1 DEF BInv, HInv, IInv, WritingIInv, Stages, Due, Content, Parts, CriticParts
  <2> QED BY <2>1, <2>2 DEF BInv, LaunchesFit
<1> QED
  BY <1>2, <1>3, <1>4, <1>5, <1>6, <1>7, <1>8, <1>9 DEF Next, Work, Load, Step

(* However often a run that was complete is started again, each launch     *)
(* adds one step beyond total_training_steps and no launch two.            *)
THEOREM OneStepBeyondPerLaunch ==
  ASSUME ResumeMode = "auto", MaxToKeep # 1
  PROVE  Spec => []BeyondBudgetOnlyOnRelaunch
<1>1. Init => LaunchesFit
  BY TrainerAssumption DEF Init, LaunchesFit, OneEach, UpTo, Steps
<1>2. HInv /\ LaunchesFit /\ [Next]_vars => LaunchesFit'
  <2>1. ASSUME LaunchesFit, UNCHANGED vars PROVE LaunchesFit'
    BY <2>1 DEF LaunchesFit, OneEach, UpTo, vars, memory, storage
  <2> QED BY <2>1, NextLaunch DEF BInv
<1>3. LaunchesFit => BeyondBudgetOnlyOnRelaunch
  BY DEF LaunchesFit, OneEach, BeyondBudgetOnlyOnRelaunch
<1> QED BY <1>1, <1>2, <1>3, HistoryInvariant, PTL DEF Spec

-----------------------------------------------------------------------------
(* How many checkpoints of the actor there are.                            *)

NotRunning == {"down", "done", "failed"}

(* The paths this process remembers, and the one it is writing.            *)
Remembered == {saved_paths[i] : i \in 1..Len(saved_paths)}
Mine ==
  IF pc \in NotRunning THEN {}
  ELSE Remembered \cup (IF pc = "actor" THEN {global_steps} ELSE {})

(* All others were left behind by earlier launches.                        *)
RoomFits ==
  /\ pc \notin NotRunning =>
       Len(saved_paths) <= IF pc = "actor" THEN MaxToKeep - 1 ELSE MaxToKeep
  /\ \E old \in SUBSET Steps :
       /\ Cardinality(old) <=
            MaxToKeep * (IF pc \in NotRunning THEN launches ELSE launches - 1)
       /\ ActorCheckpoints \subseteq old \cup Mine

KInv == RoomFits /\ (pc \notin NotRunning => launches > 0)

LEMMA FiniteSteps ==
  ASSUME NEW S \in SUBSET Steps
  PROVE  IsFiniteSet(S) /\ Cardinality(S) \in Nat
<1>1. IsFiniteSet(Steps)
  BY TrainerAssumption, FS_Interval DEF Steps
<1> QED BY <1>1, FS_Subset, FS_CardinalityType

(* A process remembers no more paths than it may keep.                     *)
LEMMA MineIsBounded ==
  ASSUME IInv, KInv, pc \notin NotRunning, MaxToKeep > 0
  PROVE  Mine \in SUBSET Steps /\ Cardinality(Mine) <= MaxToKeep
<1> USE TrainerAssumption
<1> DEFINE n == Len(saved_paths)
<1>1. saved_paths \in Seq(Steps) /\ n \in Nat
      /\ n <= IF pc = "actor" THEN MaxToKeep - 1 ELSE MaxToKeep
  BY DEF IInv, TypeOK, KInv, RoomFits
<1> HIDE DEF n
<1>2. Remembered \in SUBSET Steps
  BY <1>1 DEF Remembered, n
<1>3. saved_paths \in Surjection(1..n, Remembered)
  BY <1>1 DEF Surjection, Remembered, n
<1>4. IsFiniteSet(1..n) /\ Cardinality(1..n) = n
  BY <1>1, FS_Interval
<1>5. IsFiniteSet(Remembered) /\ Cardinality(Remembered) <= n
  BY <1>3, <1>4, FS_Surjection
<1>6. Cardinality(Remembered) \in Nat
  BY <1>2, FiniteSteps
<1>7. CASE pc = "actor"
  <2>1. global_steps \in Steps
    BY <1>7 DEF IInv, StepIInv, Stages
  <2>2. Mine = Remembered \cup {global_steps}
    BY <1>7 DEF Mine, NotRunning
  <2>3. Cardinality(Mine) <= Cardinality(Remembered) + 1
    <3>1. Cardinality(Remembered \cup {global_steps}) =
            IF global_steps \in Remembered THEN Cardinality(Remembered)
            ELSE Cardinality(Remembered) + 1
      BY <1>5, FS_AddElement
    <3> QED BY <1>6, <2>2, <3>1
  <2>4. Cardinality(Mine) \in Nat
    BY <1>2, <2>1, <2>2, FiniteSteps
  <2> QED BY <1>1, <1>2, <1>5, <1>6, <1>7, <2>1, <2>2, <2>3, <2>4
<1>8. CASE pc # "actor"
  BY <1>1, <1>2, <1>5, <1>6, <1>8 DEF Mine
<1> QED BY <1>7, <1>8

(* So all checkpoints together are at most so many for each launch.        *)
LEMMA RoomBounds ==
  ASSUME IInv, KInv, MaxToKeep > 0
  PROVE  Cardinality(ActorCheckpoints) <= MaxToKeep * launches
<1> USE TrainerAssumption
<1>1. launches \in Nat /\ MaxToKeep \in Nat
  BY DEF IInv, TypeOK
<1>2. PICK old \in SUBSET Steps :
        /\ Cardinality(old) <=
             MaxToKeep * (IF pc \in NotRunning THEN launches ELSE launches - 1)
        /\ ActorCheckpoints \subseteq old \cup Mine
  BY DEF KInv, RoomFits
<1>3. IsFiniteSet(old) /\ Cardinality(old) \in Nat
  BY FiniteSteps
<1>4. ActorCheckpoints \in SUBSET Steps
  BY DEF ActorCheckpoints
<1>5. Cardinality(ActorCheckpoints) \in Nat
  BY <1>4, FiniteSteps
<1>6. CASE pc \in NotRunning
  <2>1. ActorCheckpoints \in SUBSET old
    BY <1>2, <1>6 DEF Mine
  <2>2. Cardinality(ActorCheckpoints) <= Cardinality(old)
    BY <1>3, <2>1, FS_Subset
  <2>3. MaxToKeep * launches \in Nat
    BY <1>1
  <2> QED BY <1>2, <1>3, <1>5, <1>6, <2>2, <2>3
<1>7. CASE pc \notin NotRunning
  <2>1. Mine \in SUBSET Steps /\ Cardinality(Mine) <= MaxToKeep
    BY <1>7, MineIsBounded
  <2>2. IsFiniteSet(Mine) /\ Cardinality(Mine) \in Nat
    BY <2>1, FiniteSteps
  <2>3. old \cup Mine \in SUBSET Steps /\ old \cap Mine \in SUBSET Steps
    BY <2>1
  <2>4. Cardinality(old \cup Mine) \in Nat /\ Cardinality(old \cap Mine) \in Nat
        /\ IsFiniteSet(old \cup Mine)
    BY <2>3, FiniteSteps
  <2>5. Cardinality(old \cup Mine) = Cardinality(old) + Cardinality(Mine)
                                     - Cardinality(old \cap Mine)
    BY <1>3, <2>2, FS_Union
  <2>6. Cardinality(ActorCheckpoints) <= Cardinality(old \cup Mine)
    BY <1>2, <2>4, FS_Subset
  <2>7. MaxToKeep * (launches - 1) + MaxToKeep = MaxToKeep * launches
        /\ MaxToKeep * launches \in Nat /\ MaxToKeep * (launches - 1) \in Int
    BY <1>1
  <2>8. Cardinality(old) <= MaxToKeep * (launches - 1)
    BY <1>2, <1>7
  <2> QED BY <1>1, <1>3, <1>5, <2>1, <2>2, <2>4, <2>5, <2>6, <2>7, <2>8
<1> QED BY <1>6, <1>7

(* A process that ends leaves what there is behind.                        *)
LEMMA EndKeepsRoom ==
  ASSUME IInv, KInv, MaxToKeep > 0, pc' \in NotRunning, UNCHANGED << disk, launches >>
  PROVE  KInv'
<1>1. ActorCheckpoints' = ActorCheckpoints /\ ActorCheckpoints \in SUBSET Steps
  BY DEF ActorCheckpoints
<1>2. Cardinality(ActorCheckpoints) <= MaxToKeep * launches
  BY RoomBounds
<1> QED BY <1>1, <1>2 DEF KInv, RoomFits

(* A process that goes on without a write keeps its paths.                 *)
LEMMA SameRoom ==
  ASSUME KInv, pc \notin NotRunning, pc' \notin NotRunning, pc # "actor", pc' # "actor",
         UNCHANGED << disk, launches, saved_paths >>
  PROVE  KInv'
<1>1. Mine' = Mine /\ ActorCheckpoints' = ActorCheckpoints
  BY DEF Mine, Remembered, ActorCheckpoints
<1> QED BY <1>1 DEF KInv, RoomFits

LEMMA RotateRoom ==
  ASSUME IInv, KInv, MaxToKeep > 0, MaxToKeep # 1, Rotate
  PROVE  KInv'
<1> USE TrainerAssumption
<1> DEFINE n == Len(saved_paths)
           k == Surplus
<1>1. /\ pc = "rotate" /\ pc' = "actor" /\ UNCHANGED << launches, global_steps >>
      /\ saved_paths' = SubSeq(saved_paths, k + 1, n)
      /\ disk' = [s \in Steps |-> IF s \in {saved_paths[i] : i \in 1..k}
                                  THEN Erased(s, ActorParts) ELSE disk[s]]
  BY DEF Rotate
<1>2. /\ saved_paths \in Seq(Steps) /\ n \in Nat /\ k \in 0..n
      /\ n <= MaxToKeep /\ k = IF n >= MaxToKeep THEN n - MaxToKeep + 1 ELSE 0
  <2>1. saved_paths \in Seq(Steps) /\ n \in Nat /\ n <= MaxToKeep
    BY <1>1 DEF IInv, TypeOK, KInv, RoomFits, NotRunning
  <2>2. k \in 0..n
    BY SurplusSparesLast DEF IInv
  <2>3. k = IF n >= MaxToKeep THEN n - MaxToKeep + 1 ELSE 0
    BY DEF Surplus
  <2> QED BY <2>1, <2>2, <2>3
<1> HIDE DEF n, k
<1>3. n - k <= MaxToKeep - 1
  BY <1>2
<1>4. /\ Len(saved_paths') = n - k
      /\ \A i \in 1..(n - k) : saved_paths'[i] = saved_paths[k + i]
  <2>1. CASE k = n
    <3>1. saved_paths' = << >>
      BY <1>1, <1>2, <2>1, SubSeqEmpty
    <3> QED BY <1>2, <2>1, <3>1
  <2>2. CASE k < n
    BY <1>1, <1>2, <2>2
  <2> QED BY <1>2, <2>1, <2>2
<1>5. PICK old \in SUBSET Steps :
        /\ Cardinality(old) <= MaxToKeep * (launches - 1)
        /\ ActorCheckpoints \subseteq old \cup Mine
  BY <1>1 DEF KInv, RoomFits, NotRunning
<1>6. ASSUME NEW s \in ActorCheckpoints'
      PROVE  s \in old \cup Mine'
  <2>1. s \in Steps /\ \E r \in Ranks : disk'[s][r] # Missing
    BY DEF ActorCheckpoints
  <2>2. s \notin {saved_paths[i] : i \in 1..k} /\ disk'[s] = disk[s]
    BY <1>1, <2>1 DEF Erased, ActorParts, Parts
  <2>3. s \in ActorCheckpoints
    BY <2>1, <2>2 DEF ActorCheckpoints
  <2>4. CASE s \in old
    BY <2>4
  <2>5. CASE s \in Mine
    <3>1. PICK i \in 1..n : s = saved_paths[i]
      BY <1>1, <2>5 DEF Mine, Remembered, n
    <3>2. i > k
      BY <1>2, <2>2, <3>1
    <3>3. i - k \in 1..(n - k) /\ k + (i - k) = i
      BY <1>2, <3>1, <3>2
    <3>4. saved_paths'[i - k] = s
      BY <1>4, <3>1, <3>3
    <3> QED BY <1>1, <1>4, <3>3, <3>4 DEF Mine, Remembered, NotRunning
  <2> QED BY <1>5, <2>3, <2>4, <2>5
<1>7. ActorCheckpoints' \subseteq old \cup Mine'
  BY <1>6
<1> QED BY <1>1, <1>3, <1>4, <1>5, <1>7 DEF KInv, RoomFits, NotRunning

(* A write only touches the directory of this step, which is remembered or *)
(* about to be.                                                            *)
LEMMA WriteRoom ==
  ASSUME IInv, KInv, NEW p \in Parts, StartWrite(p) \/ FinishWrite(p)
  PROVE  KInv'
<1>1. /\ Writing /\ UNCHANGED << pc, launches, global_steps, saved_paths >>
      /\ \E x : disk' = [disk EXCEPT ![global_steps][p] = x]
  BY DEF StartWrite, FinishWrite, memory
<1>2. global_steps \in Mine
  <2>1. CASE pc = "actor"
    BY <2>1 DEF Mine, NotRunning
  <2>2. CASE pc # "actor"
    <3>1. saved_paths # << >> /\ saved_paths[Len(saved_paths)] = global_steps
      BY <1>1, <2>2 DEF IInv, PathsIInv, Stages, Writing
    <3>2. Len(saved_paths) \in 1..Len(saved_paths)
      BY <3>1 DEF IInv, TypeOK
    <3> QED BY <1>1, <3>1, <3>2 DEF Mine, Remembered, Writing, NotRunning
  <2> QED BY <2>1, <2>2
<1>3. \A s \in Steps : s # global_steps => disk'[s] = disk[s]
  BY <1>1 DEF IInv, TypeOK
<1>4. ActorCheckpoints' \subseteq ActorCheckpoints \cup {global_steps}
  BY <1>3 DEF ActorCheckpoints
<1>5. Mine' = Mine
  BY <1>1 DEF Mine, Remembered
<1>6. PICK old \in SUBSET Steps :
        /\ Cardinality(old) <=
             MaxToKeep * (IF pc \in NotRunning THEN launches ELSE launches - 1)
        /\ ActorCheckpoints \subseteq old \cup Mine
  BY DEF KInv, RoomFits
<1>7. ActorCheckpoints' \subseteq old \cup Mine'
  BY <1>2, <1>4, <1>5, <1>6
<1> QED BY <1>1, <1>6, <1>7 DEF KInv, RoomFits

(* Once its shards are written, the path of this step is remembered.       *)
LEMMA EndStageRoom ==
  ASSUME IInv, KInv, MaxToKeep > 0, EndStage
  PROVE  KInv'
<1> USE TrainerAssumption
<1>1. /\ pc \in {"actor", "critic", "data"} /\ pc' \in {"critic", "data", "tracker"}
      /\ UNCHANGED << launches, global_steps, disk >>
      /\ saved_paths' = IF pc = "actor" THEN Append(saved_paths, global_steps)
                        ELSE saved_paths
  BY DEF EndStage, Writing, AfterStage, storage
<1>2. CASE pc = "actor"
  <2>1. saved_paths \in Seq(Steps) /\ global_steps \in Steps
        /\ Len(saved_paths) \in Nat /\ Len(saved_paths) <= MaxToKeep - 1
    BY <1>2 DEF IInv, TypeOK, StepIInv, Stages, KInv, RoomFits, NotRunning
  <2>2. /\ Len(saved_paths') = Len(saved_paths) + 1
        /\ saved_paths'[Len(saved_paths) + 1] = global_steps
        /\ \A i \in 1..Len(saved_paths) : saved_paths'[i] = saved_paths[i]
    BY <1>1, <1>2, <2>1, AppendProperties
  <2>3. Mine \subseteq Mine'
    <3>1. Remembered \subseteq Remembered'
      BY <2>1, <2>2 DEF Remembered
    <3>2. global_steps \in Remembered'
      BY <2>1, <2>2 DEF Remembered
    <3> QED BY <1>1, <1>2, <3>1, <3>2 DEF Mine, NotRunning
  <2>4. ActorCheckpoints' = ActorCheckpoints
    BY <1>1 DEF ActorCheckpoints
  <2>5. Len(saved_paths') <= MaxToKeep
    BY <2>1, <2>2
  <2> QED BY <1>1, <1>2, <2>3, <2>4, <2>5 DEF KInv, RoomFits, NotRunning
<1>3. CASE pc # "actor"
  BY <1>1, <1>3, SameRoom DEF NotRunning
<1> QED BY <1>2, <1>3

LEMMA NextRoom ==
  ASSUME IInv, KInv, Next, MaxToKeep > 0, MaxToKeep # 1
  PROVE  KInv'
<1> USE TrainerAssumption
<1>1. CASE Launch
  <2>1. /\ pc \in NotRunning /\ pc' = "loading" /\ saved_paths' = << >>
        /\ launches' = launches + 1 /\ disk' = disk /\ launches \in Nat
    BY <1>1 DEF Launch, FreshMemory, storage, NotRunning, IInv, TypeOK
  <2>2. ActorCheckpoints' = ActorCheckpoints /\ Mine = {}
    BY <2>1 DEF ActorCheckpoints, Mine
  <2>3. launches' - 1 = launches /\ launches' > 0
    BY <2>1
  <2>4. PICK old \in SUBSET Steps :
          Cardinality(old) <= MaxToKeep * launches /\ ActorCheckpoints \subseteq old
    BY <2>1, <2>2 DEF KInv, RoomFits
  <2>5. RoomFits'
    BY <2>1, <2>2, <2>3, <2>4 DEF RoomFits, NotRunning
  <2> QED BY <2>3, <2>5 DEF KInv
<1>2. CASE Crash \/ LoadFails \/ OutOfEpochs \/ (NextStep /\ IsLastStep)
  BY <1>2, EndKeepsRoom
  DEF Crash, LoadFails, OutOfEpochs, NextStep, memory, storage, NotRunning
<1>3. CASE LoadNothing \/ (\E s \in Steps : Resume(s)) \/ NextEpoch
           \/ (NextStep /\ ~ IsLastStep) \/ (\E esi \in BOOLEAN : TrainStep(esi))
           \/ TruncateTracker \/ WriteTracker
  BY <1>3, SameRoom
  DEF LoadNothing, Resume, Resuming, NextEpoch, NextStep, TrainStep, TruncateTracker,
      WriteTracker, memory, storage, NotRunning
<1>4. CASE Rotate
  BY <1>4, RotateRoom
<1>5. CASE \E p \in Parts : StartWrite(p) \/ FinishWrite(p)
  BY <1>5, WriteRoom
<1>6. CASE EndStage
  BY <1>6, EndStageRoom
<1> QED
  BY <1>1, <1>2, <1>3, <1>4, <1>5, <1>6 DEF Next, Work, Load, Step, Save

(* A job that is started n times never leaves more than n times            *)
(* max_actor_ckpt_to_keep checkpoints of the actor on the disk.            *)
THEOREM CheckpointsAreBounded ==
  ASSUME ResumeMode = "auto", MaxToKeep # 1
  PROVE  Spec => []KeepsAtMost
<1>1. CASE MaxToKeep > 0
  <2>1. Init => KInv
    <3> SUFFICES ASSUME Init PROVE KInv
      OBVIOUS
    <3>1. ActorCheckpoints = {}
      BY DEF Init, ActorCheckpoints, Parts, ActorParts
    <3>2. Cardinality({}) = 0 /\ MaxToKeep * 0 = 0
      BY TrainerAssumption, FS_EmptySet
    <3> QED BY <3>1, <3>2 DEF Init, KInv, RoomFits, NotRunning
  <2>2. IInv /\ KInv /\ [Next]_vars => KInv'
    <3>1. ASSUME KInv, UNCHANGED vars PROVE KInv'
      BY <3>1 DEF KInv, RoomFits, Mine, Remembered, ActorCheckpoints, vars, memory, storage
    <3> QED BY <1>1, <3>1, NextRoom
  <2>3. IInv /\ KInv => KeepsAtMost
    BY <1>1, RoomBounds DEF KeepsAtMost
  <2> QED BY <2>1, <2>2, <2>3, TrainerInvariant, PTL DEF Spec
<1>2. CASE ~ (MaxToKeep > 0)
  <2>1. KeepsAtMost
    BY <1>2 DEF KeepsAtMost
  <2> QED BY <2>1, PTL
<1> QED BY <1>1, <1>2

=============================================================================
