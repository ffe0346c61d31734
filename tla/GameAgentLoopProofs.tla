------------------------ MODULE GameAgentLoopProofs ------------------------
(***************************************************************************)
(* What GameAgentLoop guarantees for every context length, every turn      *)
(* limit, every set of rewards and reply lengths: an inductive invariant   *)
(* that says, for each state of the rollout, how the message window, the   *)
(* snapshots, the recorded rewards and the rows relate to the turn         *)
(* counters, and the safety properties that follow from it.  What the      *)
(* returns of the rows are is arithmetic of sums and products over a       *)
(* suffix of the rewards.  In MarioRollout the same invariant holds, and   *)
(* what the emulator remembers ties the rewards to the way Mario came.     *)
(***************************************************************************)
EXTENDS MarioRollout, SeqlenBalancingProofs

(* The window after reply t has been appended to it.                       *)
AnsweredWindow(ms, is, t) ==
  LET w == WindowTurns(t) IN
  /\ Len(is) = w
  /\ Len(ms) = 2 * w
  /\ \A i \in 1..w : is[i] = t - w + i
  /\ \A i \in 1..w : ms[2 * i - 1] = User(t - w + i)
  /\ \A i \in 1..w : ms[2 * i] = Assistant(t - w + i)

(* Turn counters, window and list lengths in each state of the loop.       *)
StateShape ==
  /\ pc = "stepping_env" /\ snapshots = << >> =>
       /\ messages = << >> /\ images = << >> /\ rewards = << >>
       /\ user_turns = 0 /\ assistant_turns = 0 /\ mask = 0
  /\ pc = "stepping_env" /\ snapshots # << >> =>
       /\ assistant_turns = user_turns
       /\ Len(snapshots) = user_turns
       /\ Len(rewards) = user_turns - 1
       /\ reply.turn = user_turns
       /\ AnsweredWindow(messages, images, user_turns)
  /\ pc \in {"pending", "generating"} =>
       /\ user_turns = assistant_turns + 1
       /\ Len(snapshots) = assistant_turns
       /\ Len(rewards) = assistant_turns
       /\ ExactWindow(messages, images, user_turns)
       /\ ContextTurns = 1 => mask = 0
  /\ pc = "generating" => prompt.own = 0
  /\ pc \in {"terminated", "returned"} => Len(snapshots) = Len(rewards)

(* What the snapshots and rewards say about the turn they belong to.       *)
History ==
  /\ SnapshotsAligned
  /\ \A k \in 1..Len(rewards) : rewards[k].turn = k
  /\ ContextTurns = 1 =>
       \A k \in 1..Len(snapshots) :
         /\ snapshots[k].mask = snapshots[k].reply.len
         /\ snapshots[k].prompt.own = snapshots[k].reply.len
         /\ snapshots[k].reply.len <= ResponseLength

OutputsAreRows ==
  pc = "returned" =>
    outputs = [k \in 1..Kept(Len(rewards)) |-> Row(k, EpisodeReturns)]

IInv ==
  /\ TypeOK
  /\ StateShape
  /\ History
  /\ OutputsAreRows
  /\ TurnBudget
  /\ EnvOpenIffRunning
  /\ AssertionsHold

-----------------------------------------------------------------------------
(* Keeping the last n elements of a sequence: the result has at most n     *)
(* elements and they are the last ones of s, in order.                     *)
LEMMA KeepLastProperties ==
  ASSUME NEW S, NEW s \in Seq(S), NEW n \in Nat
  PROVE  LET kept == KeepLast(s, n) IN
         /\ kept \in Seq(S)
         /\ Len(kept) = IF Len(s) <= n THEN Len(s) ELSE n
         /\ \A i \in 1..Len(kept) : kept[i] = s[i + (Len(s) - Len(kept))]
<1>1. CASE Len(s) <= n
  BY <1>1 DEF KeepLast
<1>2. CASE ~ (Len(s) <= n)
  <2>1. Len(s) \in Nat /\ n < Len(s)
    BY <1>2, LenProperties
  <2>2. KeepLast(s, n) = SubSeq(s, Len(s) - n + 1, Len(s))
    BY <1>2 DEF KeepLast
  <2>3. QED
    BY <2>1, <2>2, SubSeqProperties
<1>3. QED
  BY <1>1, <1>2

(* The initial state, before the environment has been looked at.           *)
LEMMA InitIInv == Init => IInv
<1>1. SUFFICES ASSUME Init PROVE IInv
  OBVIOUS
<1>2. TypeOK
  BY <1>1 DEF Init, TypeOK, NoReply, Running, Ended
<1>3. QED
  BY <1>1, <1>2, LoopAssumption
     DEF Init, IInv, StateShape, History, SnapshotsAligned, OutputsAreRows,
         TurnBudget, EnvOpenIffRunning, AssertionsHold, Ended

(* Encoding the prompt touches neither the window nor the history.         *)
LEMMA EncodeIInv == IInv /\ Encode => IInv'
<1>1. SUFFICES ASSUME IInv, Encode PROVE IInv'
  OBVIOUS
<1>2. Len(messages) \in Nat /\ Len(messages) * MessageTokens \in Nat
  BY <1>1, LoopAssumption, LenProperties DEF IInv, TypeOK
<1>3. TypeOK'
  BY <1>1, <1>2 DEF IInv, TypeOK, Encode, Running
<1>4. StateShape'
  BY <1>1 DEF IInv, StateShape, Encode, ExactWindow, AnsweredWindow
<1>5. QED
  BY <1>1, <1>3, <1>4
     DEF IInv, Encode, History, SnapshotsAligned, OutputsAreRows, TurnBudget,
         EnvOpenIffRunning, AssertionsHold, Ended

(* A reply extends the window by its own message and, when it is to be     *)
(* played, is snapshotted with observation t newest and reply t last.      *)
LEMMA GenerateIInv ==
  ASSUME IInv, NEW n \in ReplyLengths, Generate(n)
  PROVE  IInv'
<1> DEFINE t == assistant_turns + 1
           messages_new == Append(messages, Assistant(t))
           snap == [turn |-> t, messages |-> messages_new, images |-> images,
                    prompt |-> [ctx |-> prompt.ctx,
                               own |-> prompt.own + Truncated(n)],
                    reply |-> [turn |-> t, len |-> Truncated(n)],
                    mask |-> mask + Truncated(n)]
<1>1. /\ pc = "generating" /\ TypeOK /\ t \in Nat /\ user_turns = t
      /\ Len(snapshots) = t - 1 /\ Len(rewards) = t - 1
      /\ ExactWindow(messages, images, t) /\ prompt.own = 0
      /\ ContextTurns = 1 => mask = 0
  BY DEF IInv, TypeOK, StateShape, Generate
<1>2. Truncated(n) \in Nat /\ Truncated(n) <= ResponseLength
  BY LoopAssumption DEF Truncated
<1>3. /\ Assistant(t) \in Message
      /\ messages_new \in Seq(Message)
      /\ Len(messages_new) = Len(messages) + 1
      /\ \A i \in 1..Len(messages) : messages_new[i] = messages[i]
      /\ messages_new[Len(messages) + 1] = Assistant(t)
  <2>1. Assistant(t) \in Message
    BY <1>1 DEF Assistant, Message
  <2>2. QED
    BY <1>1, <2>1, AppendProperties DEF TypeOK
<1>4. WindowTurns(t) \in Nat /\ WindowTurns(t) >= 1 /\ WindowTurns(t) <= t
  BY <1>1, LoopAssumption DEF WindowTurns, TypeOK
<1>5. AnsweredWindow(messages_new, images, t)
  <2> DEFINE w == WindowTurns(t)
  <2> HIDE DEF messages_new
  <2>1. /\ Len(images) = w /\ Len(messages) = 2 * w - 1
        /\ \A i \in 1..w : images[i] = t - w + i
        /\ \A i \in 1..w : messages[2 * i - 1] = User(t - w + i)
        /\ \A i \in 1..(w - 1) : messages[2 * i] = Assistant(t - w + i)
    BY <1>1 DEF ExactWindow
  <2> HIDE DEF w
  <2>2. w \in Nat /\ w >= 1 /\ w <= t
    BY <1>4 DEF w
  <2>3. Len(messages_new) = 2 * w
    BY <1>3, <2>1, <2>2
  <2>4. \A i \in 1..w : messages_new[2 * i - 1] = User(t - w + i)
    BY <1>3, <2>1, <2>2
  <2>5. ASSUME NEW i \in 1..w
        PROVE  messages_new[2 * i] = Assistant(t - w + i)
    <3>1. CASE i < w
      <4>1. 2 * i \in 1..Len(messages) /\ i \in 1..(w - 1)
        BY <2>1, <2>2, <3>1
      <4>2. QED
        BY <1>3, <2>1, <4>1
    <3>2. CASE i = w
      <4>1. 2 * i = Len(messages) + 1 /\ t - w + i = t
        BY <1>1, <2>1, <2>2, <3>2
      <4>2. QED
        BY <1>3, <4>1
    <3>3. QED
      BY <2>2, <3>1, <3>2
  <2>6. QED
    BY <2>1, <2>3, <2>4, <2>5 DEF AnsweredWindow, w
<1>6. snap \in Snapshot
  <2>1. prompt.ctx \in Nat /\ prompt.own + Truncated(n) \in Nat
        /\ mask + Truncated(n) \in Nat /\ images \in Seq(Nat)
    BY <1>1, <1>2 DEF TypeOK
  <2>2. QED
    BY <1>1, <1>2, <1>3, <2>1 DEF Snapshot
<1>7. CASE TurnLimitReached
  <2>1. /\ pc' = "terminated"
        /\ UNCHANGED << messages, snapshots, images, user_turns, rewards,
                        outputs, env_open >>
        /\ reply' = snap.reply
        /\ prompt' = snap.prompt
        /\ mask' = snap.mask /\ assistant_turns' = t
    BY <1>7 DEF Generate
  <2>2. TypeOK'
    BY <1>1, <1>2, <2>1 DEF TypeOK, Running
  <2>3. QED
    BY <1>1, <2>1, <2>2
       DEF IInv, StateShape, History, SnapshotsAligned, OutputsAreRows,
           TurnBudget, EnvOpenIffRunning, AssertionsHold, Ended
<1>8. CASE ~ TurnLimitReached
  <2>1. /\ pc' = "stepping_env"
        /\ messages' = messages_new
        /\ snapshots' = Append(snapshots, snap)
        /\ UNCHANGED << images, user_turns, rewards, outputs, env_open >>
        /\ reply' = snap.reply
        /\ prompt' = snap.prompt
        /\ mask' = snap.mask /\ assistant_turns' = t
    BY <1>8 DEF Generate, SnapshotOf
  <2>2. /\ snapshots' \in Seq(Snapshot)
        /\ Len(snapshots') = t
        /\ \A k \in 1..(t - 1) : snapshots'[k] = snapshots[k]
        /\ snapshots'[t] = snap
    <3> HIDE DEF snap
    <3>1. snapshots \in Seq(Snapshot) /\ Len(snapshots) = t - 1 /\ t \in Nat
      BY <1>1 DEF TypeOK
    <3>2. QED
      BY <1>6, <2>1, <3>1, AppendProperties
  <2>3. TypeOK'
    <3>1. /\ messages' \in Seq(Message) /\ assistant_turns' \in Nat
          /\ prompt' \in [ctx : Nat, own : Nat]
          /\ reply' \in [turn : Nat, len : Nat] /\ mask' \in Nat
      BY <1>1, <1>3, <1>6, <2>1 DEF Snapshot
    <3> HIDE DEF snap, messages_new
    <3>2. QED
      BY <1>1, <2>1, <2>2, <3>1 DEF TypeOK, Running
  <2>4. StateShape'
    <3>1. snapshots' # << >>
      BY <1>1, <2>2
    <3>2. QED
      BY <1>1, <1>5, <2>1, <2>2, <3>1 DEF StateShape, AnsweredWindow
  <2>5. SnapshotsAligned'
    <3>1. SUFFICES ASSUME NEW k \in 1..t
                   PROVE  LET s == snapshots'[k] IN
                          /\ s.turn = k
                          /\ s.reply.turn = k
                          /\ Len(s.images) > 0 /\ s.images[Len(s.images)] = k
                          /\ Len(s.messages) = 2 * Len(s.images)
                          /\ s.messages[Len(s.messages)] = Assistant(k)
      BY <2>2 DEF SnapshotsAligned
    <3>2. CASE k < t
      <4>1. SnapshotsAligned
        BY DEF IInv, History
      <4>2. k \in 1..Len(snapshots) /\ snapshots'[k] = snapshots[k]
        BY <1>1, <2>2, <3>2
      <4>3. QED
        BY <4>1, <4>2 DEF SnapshotsAligned
    <3>3. CASE k = t
      <4> HIDE DEF messages_new
      <4>1. /\ Len(images) > 0 /\ images[Len(images)] = t
            /\ Len(messages_new) = 2 * Len(images)
            /\ messages_new[Len(messages_new)] = Assistant(t)
        <5>1. Len(images) = WindowTurns(t) /\ Len(images) \in 1..Len(images)
          BY <1>4, <1>5 DEF AnsweredWindow
        <5>2. t - Len(images) + Len(images) = t
          BY <1>1, <1>4, <5>1
        <5>3. QED
          BY <1>4, <1>5, <5>1, <5>2 DEF AnsweredWindow
      <4>2. /\ snapshots'[k].turn = t /\ snapshots'[k].reply.turn = t
            /\ snapshots'[k].images = images
            /\ snapshots'[k].messages = messages_new
        BY <2>2, <3>3
      <4>3. QED
        BY <3>3, <4>1, <4>2
    <3>4. QED
      BY <3>2, <3>3, <1>1
  <2>6. History'
    <3>1. ASSUME ContextTurns = 1
          PROVE  \A k \in 1..Len(snapshots') :
                   /\ snapshots'[k].mask = snapshots'[k].reply.len
                   /\ snapshots'[k].prompt.own = snapshots'[k].reply.len
                   /\ snapshots'[k].reply.len <= ResponseLength
      <4>1. snap.mask = snap.reply.len /\ snap.prompt.own = snap.reply.len
            /\ snap.reply.len <= ResponseLength
        BY <1>1, <1>2, <3>1 DEF TypeOK
      <4>2. \A k \in 1..Len(snapshots) :
              /\ snapshots[k].mask = snapshots[k].reply.len
              /\ snapshots[k].prompt.own = snapshots[k].reply.len
              /\ snapshots[k].reply.len <= ResponseLength
        BY <3>1 DEF IInv, History
      <4> HIDE DEF snap
      <4>3. \A k \in 1..Len(snapshots') :
              \/ k \in 1..Len(snapshots) /\ snapshots'[k] = snapshots[k]
              \/ snapshots'[k] = snap
        <5>1. Len(snapshots) = t - 1 /\ Len(snapshots') = t /\ t \in Nat
          BY <1>1, <2>2 DEF TypeOK
        <5>2. \A k \in 1..t - 1 : snapshots'[k] = snapshots[k]
          BY <1>1, <2>2
        <5>3. snapshots'[t] = snap
          BY <1>1, <2>2
        <5>4. QED
          BY <5>1, <5>2, <5>3
      <4>4. QED
        BY <4>1, <4>2, <4>3
    <3>2. QED
      BY <2>1, <2>5, <3>1 DEF IInv, History
  <2>7. TurnBudget'
    <3>1. /\ MaxUserTurns # 0 => ~ (user_turns >= MaxUserTurns)
          /\ MaxAssistantTurns # 0 => ~ (assistant_turns >= MaxAssistantTurns)
      BY <1>8 DEF TurnLimitReached
    <3>2. /\ Len(snapshots') = assistant_turns + 1 /\ user_turns = assistant_turns + 1
          /\ assistant_turns \in Nat /\ MaxUserTurns \in Nat /\ MaxAssistantTurns \in Nat
      BY <1>1, <2>2, LoopAssumption DEF TypeOK
    <3>3. QED
      BY <3>1, <3>2 DEF TurnBudget
  <2>8. QED
    BY <1>1, <2>1, <2>3, <2>4, <2>6, <2>7
       DEF IInv, OutputsAreRows, EnvOpenIffRunning, AssertionsHold, Ended
<1>9. QED
  BY <1>7, <1>8

(* What _handle_environment_step makes of messages and images to which the *)
(* observation of turn t has just been appended.                           *)
WindowMovesOn(ms2, is2, t) ==
  /\ ms2 \in Seq(Message) /\ is2 \in Seq(Nat)
  /\ Len(ms2) = 2 * Len(is2) - 1
  /\ ~ OverWindow(ms2) => ExactWindow(ms2, is2, t)
  /\ OverWindow(ms2) =>
       /\ KeepLast(ms2, WindowLength) \in Seq(Message)
       /\ KeepLast(is2, ContextTurns) \in Seq(Nat)
       /\ ExactWindow(KeepLast(ms2, WindowLength),
                      KeepLast(is2, ContextTurns), t)

(* Appending observation t + 1 to an answered window and, when the window  *)
(* is over length, forgetting the oldest turn, leaves exactly the window   *)
(* of turn t + 1; messages and images never get out of step.               *)
LEMMA PushedWindow ==
  ASSUME NEW ms \in Seq(Message), NEW is \in Seq(Nat), NEW t \in Nat,
         AnsweredWindow(ms, is, t)
  PROVE  WindowMovesOn(Append(ms, User(t + 1)), Append(is, t + 1), t + 1)
<1> DEFINE w == WindowTurns(t)
           ms2 == Append(ms, User(t + 1))
           is2 == Append(is, t + 1)
<1>1. /\ w \in Nat /\ w <= t /\ w <= ContextTurns
      /\ t < ContextTurns => w = t
      /\ t >= ContextTurns => w = ContextTurns
  BY LoopAssumption DEF WindowTurns
<1>2. /\ Len(is) = w /\ Len(ms) = 2 * w
      /\ \A i \in 1..w : is[i] = t - w + i
      /\ \A i \in 1..w : ms[2 * i - 1] = User(t - w + i)
      /\ \A i \in 1..w : ms[2 * i] = Assistant(t - w + i)
  BY DEF AnsweredWindow
<1> HIDE DEF w
<1>3. User(t + 1) \in Message
  BY DEF User, Message
<1>4. /\ ms2 \in Seq(Message) /\ Len(ms2) = 2 * w + 1
      /\ \A i \in 1..(2 * w) : ms2[i] = ms[i]
      /\ ms2[2 * w + 1] = User(t + 1)
  BY <1>2, <1>3, AppendProperties
<1>5. /\ is2 \in Seq(Nat) /\ Len(is2) = w + 1
      /\ \A i \in 1..w : is2[i] = is[i]
      /\ is2[w + 1] = t + 1
  BY <1>2, AppendProperties
<1> HIDE DEF ms2, is2
<1>6. \A i \in 1..(w + 1) : is2[i] = t - w + i
  <2>1. SUFFICES ASSUME NEW i \in 1..(w + 1)
                 PROVE  is2[i] = t - w + i
    OBVIOUS
  <2>2. CASE i = w + 1
    <3>1. t - w + i = t + 1
      BY <1>1, <2>2
    <3>2. QED
      BY <1>5, <2>2, <3>1
  <2>3. CASE i # w + 1
    <3>1. i \in 1..w
      BY <1>1, <2>3
    <3>2. QED
      BY <1>2, <1>5, <3>1
  <2>4. QED
    BY <2>2, <2>3
<1>7. \A i \in 1..(w + 1) : ms2[2 * i - 1] = User(t - w + i)
  <2>1. SUFFICES ASSUME NEW i \in 1..(w + 1)
                 PROVE  ms2[2 * i - 1] = User(t - w + i)
    OBVIOUS
  <2>2. CASE i = w + 1
    <3>1. 2 * i - 1 = 2 * w + 1 /\ t - w + i = t + 1
      BY <1>1, <2>2
    <3>2. QED
      BY <1>4, <3>1
  <2>3. CASE i # w + 1
    <3>1. i \in 1..w /\ 2 * i - 1 \in 1..(2 * w)
      BY <1>1, <2>3
    <3>2. QED
      BY <1>2, <1>4, <3>1
  <2>4. QED
    BY <2>2, <2>3
<1>8. \A i \in 1..w : ms2[2 * i] = Assistant(t - w + i)
  <2>1. SUFFICES ASSUME NEW i \in 1..w
                 PROVE  ms2[2 * i] = Assistant(t - w + i)
    OBVIOUS
  <2>2. 2 * i \in 1..(2 * w)
    BY <1>1
  <2>3. QED
    BY <1>2, <1>4, <2>2
<1>9. ContextTurns \in Nat /\ ContextTurns >= 1
  BY LoopAssumption
<1>10. ASSUME ~ OverWindow(ms2)
       PROVE  ExactWindow(ms2, is2, t + 1)
  <2>1. w < ContextTurns
    BY <1>1, <1>4, <1>9, <1>10 DEF OverWindow, WindowLength
  <2>2. w = t /\ WindowTurns(t + 1) = w + 1
    BY <1>1, <1>9, <2>1 DEF WindowTurns
  <2>3. /\ \A i \in 1..(w + 1) : is2[i] = (t + 1) - (w + 1) + i
        /\ \A i \in 1..(w + 1) : ms2[2 * i - 1] = User((t + 1) - (w + 1) + i)
        /\ \A i \in 1..w : ms2[2 * i] = Assistant((t + 1) - (w + 1) + i)
    <3>1. ASSUME NEW i \in 1..(w + 1)
          PROVE  /\ is2[i] = (t + 1) - (w + 1) + i
                 /\ ms2[2 * i - 1] = User((t + 1) - (w + 1) + i)
      <4>1. t - w + i = (t + 1) - (w + 1) + i
        BY <1>1
      <4>2. QED
        BY <1>6, <1>7, <4>1
    <3>2. ASSUME NEW i \in 1..w
          PROVE  ms2[2 * i] = Assistant((t + 1) - (w + 1) + i)
      <4>1. t - w + i = (t + 1) - (w + 1) + i
        BY <1>1
      <4>2. QED
        BY <1>8, <4>1
    <3>3. QED
      BY <3>1, <3>2
  <2>4. Len(ms2) = 2 * (w + 1) - 1 /\ (w + 1) - 1 = w
    BY <1>1, <1>4
  <2>5. QED
    BY <1>5, <2>2, <2>3, <2>4 DEF ExactWindow
<1>11. ASSUME OverWindow(ms2)
       PROVE  /\ KeepLast(ms2, WindowLength) \in Seq(Message)
              /\ KeepLast(is2, ContextTurns) \in Seq(Nat)
              /\ ExactWindow(KeepLast(ms2, WindowLength),
                             KeepLast(is2, ContextTurns), t + 1)
  <2> DEFINE c == ContextTurns
             mk == KeepLast(ms2, WindowLength)
             ik == KeepLast(is2, ContextTurns)
  <2>1. w = c
    BY <1>1, <1>4, <1>9, <1>11 DEF OverWindow, WindowLength
  <2>2. WindowTurns(t + 1) = c
    BY <1>1, <1>9, <2>1 DEF WindowTurns
  <2>3. WindowLength = 2 * c - 1 /\ WindowLength \in Nat
    BY <1>9 DEF WindowLength
  <2>4. /\ mk \in Seq(Message) /\ Len(mk) = 2 * c - 1
        /\ \A i \in 1..(2 * c - 1) : mk[i] = ms2[i + 2]
    <3>1. Len(ms2) = 2 * c + 1 /\ ~ (Len(ms2) <= WindowLength)
      BY <1>4, <1>9, <2>1, <2>3
    <3>2. /\ mk \in Seq(Message) /\ Len(mk) = WindowLength
          /\ \A i \in 1..Len(mk) : mk[i] = ms2[i + (Len(ms2) - Len(mk))]
      BY <1>4, <2>3, <3>1, KeepLastProperties
    <3> HIDE DEF mk
    <3>3. (2 * c + 1) - (2 * c - 1) = 2
      BY <1>9
    <3>4. QED
      BY <2>3, <3>1, <3>2, <3>3
  <2>5. /\ ik \in Seq(Nat) /\ Len(ik) = c
        /\ \A i \in 1..c : ik[i] = is2[i + 1]
    <3>1. Len(is2) = c + 1 /\ ~ (Len(is2) <= c) /\ c \in Nat
      BY <1>5, <1>9, <2>1
    <3>2. /\ ik \in Seq(Nat) /\ Len(ik) = c
          /\ \A i \in 1..Len(ik) : ik[i] = is2[i + (Len(is2) - Len(ik))]
      BY <1>5, <3>1, KeepLastProperties
    <3> HIDE DEF ik
    <3>3. Len(is2) - Len(ik) = 1
      BY <3>1, <3>2
    <3>4. QED
      BY <3>2, <3>3
  <2> HIDE DEF mk, ik
  <2>6. ASSUME NEW i \in 1..c
        PROVE  ik[i] = (t + 1) - c + i
    <3>1. i + 1 \in 1..(w + 1) /\ t - w + (i + 1) = (t + 1) - c + i
      BY <1>1, <1>9, <2>1
    <3>2. QED
      BY <1>6, <2>5, <3>1
  <2>7. ASSUME NEW i \in 1..c
        PROVE  mk[2 * i - 1] = User((t + 1) - c + i)
    <3>1. /\ 2 * i - 1 \in 1..(2 * c - 1) /\ i + 1 \in 1..(w + 1)
          /\ (2 * i - 1) + 2 = 2 * (i + 1) - 1
          /\ t - w + (i + 1) = (t + 1) - c + i
      BY <1>1, <1>9, <2>1
    <3>2. mk[2 * i - 1] = ms2[2 * (i + 1) - 1]
      BY <2>4, <3>1
    <3>3. ms2[2 * (i + 1) - 1] = User(t - w + (i + 1))
      BY <1>7, <3>1
    <3>4. QED
      BY <3>1, <3>2, <3>3
  <2>8. ASSUME NEW i \in 1..(c - 1)
        PROVE  mk[2 * i] = Assistant((t + 1) - c + i)
    <3>1. /\ 2 * i \in 1..(2 * c - 1) /\ i + 1 \in 1..w
          /\ 2 * i + 2 = 2 * (i + 1)
          /\ t - w + (i + 1) = (t + 1) - c + i
      BY <1>1, <1>9, <2>1
    <3>2. mk[2 * i] = ms2[2 * (i + 1)]
      BY <2>4, <3>1
    <3>3. ms2[2 * (i + 1)] = Assistant(t - w + (i + 1))
      BY <1>8, <3>1
    <3>4. QED
      BY <3>1, <3>2, <3>3
  <2>9. ExactWindow(mk, ik, t + 1)
    BY <2>2, <2>4, <2>5, <2>6, <2>7, <2>8 DEF ExactWindow
  <2>10. QED
    BY <2>4, <2>5, <2>9 DEF mk, ik
<1>12. Len(ms2) = 2 * Len(is2) - 1
  <2>1. 2 * w + 1 = 2 * (w + 1) - 1
    BY <1>1
  <2>2. QED
    BY <1>4, <1>5, <2>1
<1>13. QED
  BY <1>4, <1>5, <1>10, <1>11, <1>12 DEF WindowMovesOn, ms2, is2

(* The environment's answer: the reward is filed under the reply that      *)
(* earned it and the window moves on by one turn.                          *)
LEMMA ObserveIInv ==
  ASSUME IInv, pc = "stepping_env", NEW r \in Int, NEW done \in BOOLEAN,
         snapshots = << >> => ~ done,
         Observe(r, done)
  PROVE  IInv'
<1> DEFINE t == user_turns
           ms2 == Append(messages, User(t + 1))
           is2 == Append(images, t + 1)
<1>1. TypeOK /\ StateShape /\ History /\ t \in Nat
  BY DEF IInv, TypeOK
<1>2. /\ AnsweredWindow(messages, images, t)
      /\ Len(snapshots) = t /\ assistant_turns = t
  <2>1. CASE snapshots = << >>
    <3>1. /\ messages = << >> /\ images = << >> /\ t = 0 /\ assistant_turns = 0
      BY <1>1, <2>1 DEF StateShape
    <3>2. WindowTurns(0) = 0 /\ Len(<< >>) = 0
      BY LoopAssumption, EmptySeq DEF WindowTurns
    <3>3. QED
      BY <2>1, <3>1, <3>2 DEF AnsweredWindow
  <2>2. CASE snapshots # << >>
    BY <1>1, <2>2 DEF StateShape
  <2>3. QED
    BY <2>1, <2>2
<1>3. /\ ms2 \in Seq(Message) /\ is2 \in Seq(Nat)
      /\ Len(ms2) = 2 * Len(is2) - 1
      /\ ~ OverWindow(ms2) => ExactWindow(ms2, is2, t + 1)
      /\ OverWindow(ms2) =>
           /\ KeepLast(ms2, WindowLength) \in Seq(Message)
           /\ KeepLast(is2, ContextTurns) \in Seq(Nat)
           /\ ExactWindow(KeepLast(ms2, WindowLength),
                          KeepLast(is2, ContextTurns), t + 1)
  <2>1. messages \in Seq(Message) /\ images \in Seq(Nat)
    BY <1>1 DEF TypeOK
  <2>2. WindowMovesOn(ms2, is2, t + 1)
    BY <1>1, <1>2, <2>1, PushedWindow
  <2>3. QED
    BY <2>2 DEF WindowMovesOn
<1> HIDE DEF ms2, is2
<1>4. /\ rewards' \in Seq([reward : Int, turn : Nat])
      /\ Len(rewards') = t
      /\ \A k \in 1..Len(rewards') : rewards'[k].turn = k
  <2>1. CASE snapshots = << >>
    <3>1. rewards' = rewards /\ rewards = << >> /\ t = 0
      BY <1>1, <2>1 DEF Observe, RecordReward, StateShape
    <3>2. QED
      BY <1>1, <3>1, EmptySeq DEF TypeOK
  <2>2. CASE snapshots # << >>
    <3> DEFINE entry == [reward |-> r, turn |-> reply.turn]
    <3>1. /\ rewards' = Append(rewards, entry)
          /\ Len(rewards) = t - 1 /\ entry.turn = t
          /\ entry \in [reward : Int, turn : Nat]
      BY <1>1, <2>2 DEF Observe, RecordReward, RewardEntry, StateShape, TypeOK
    <3> HIDE DEF entry
    <3>2. /\ rewards' \in Seq([reward : Int, turn : Nat])
          /\ Len(rewards') = Len(rewards) + 1
          /\ \A k \in 1..Len(rewards) : rewards'[k] = rewards[k]
          /\ rewards'[Len(rewards) + 1] = entry
      BY <1>1, <3>1, AppendProperties DEF TypeOK
    <3>3. ASSUME NEW k \in 1..t PROVE rewards'[k].turn = k
      <4>1. CASE k = t
        BY <1>1, <3>1, <3>2, <4>1
      <4>2. CASE k # t
        BY <1>1, <3>1, <3>2, <4>2 DEF History
      <4>3. QED
        BY <4>1, <4>2
    <3>4. QED
      BY <1>1, <3>1, <3>2, <3>3
  <2>3. QED
    BY <2>1, <2>2
<1>5. UNCHANGED << assistant_turns, snapshots, outputs >>
  BY DEF Observe
<1>6. CASE /\ done /\ pc' = "terminated" /\ messages' = ms2
           /\ UNCHANGED << images, prompt, reply, mask, user_turns, env_open >>
  <2>1. TypeOK'
    BY <1>1, <1>3, <1>4, <1>5, <1>6 DEF TypeOK, Running
  <2>2. StateShape'
    BY <1>2, <1>4, <1>5, <1>6 DEF StateShape
  <2>3. QED
    BY <1>1, <1>4, <1>5, <1>6, <2>1, <2>2
       DEF IInv, History, SnapshotsAligned, OutputsAreRows, TurnBudget,
           EnvOpenIffRunning, AssertionsHold, Ended
<1>7. CASE /\ pc' = "pending" /\ user_turns' = t + 1
           /\ messages' \in Seq(Message) /\ images' \in Seq(Nat)
           /\ ExactWindow(messages', images', t + 1)
           /\ prompt' \in [ctx : Nat, own : Nat]
           /\ reply' \in [turn : Nat, len : Nat] /\ mask' \in Nat
           /\ ContextTurns = 1 => mask' = 0
           /\ env_open' = env_open
  <2>1. TypeOK'
    BY <1>1, <1>4, <1>5, <1>7 DEF TypeOK, Running
  <2>2. StateShape'
    BY <1>1, <1>2, <1>4, <1>5, <1>7 DEF StateShape, ExactWindow
  <2>3. QED
    BY <1>1, <1>4, <1>5, <1>7, <2>1, <2>2
       DEF IInv, History, SnapshotsAligned, OutputsAreRows, TurnBudget,
           EnvOpenIffRunning, AssertionsHold, Ended
<1>8. CASE ~ done /\ ~ OverWindow(ms2)
  <2>1. /\ pc' = "pending" /\ user_turns' = t + 1
        /\ messages' = ms2 /\ images' = is2
        /\ UNCHANGED << prompt, reply, mask, env_open >>
    BY <1>3, <1>8 DEF Observe, ms2, is2
  <2>2. ContextTurns = 1 => mask' = 0
    <3>1. SUFFICES ASSUME ContextTurns = 1 PROVE mask = 0
      BY <2>1
    <3>2. Len(ms2) = Len(messages) + 1
      BY <1>1, LenProperties, AppendProperties DEF ms2, TypeOK, User, Message
    <3>3. Len(messages) = 2 * WindowTurns(t)
      BY <1>2 DEF AnsweredWindow
    <3>4. t = 0
      BY <1>1, <1>8, <3>1, <3>2, <3>3, LoopAssumption
         DEF OverWindow, WindowLength, WindowTurns
    <3>5. snapshots = << >>
      BY <1>1, <1>2, <3>4, EmptySeq DEF TypeOK
    <3>6. QED
      BY <1>1, <3>5 DEF StateShape
  <2>3. QED
    BY <1>1, <1>3, <1>7, <1>8, <2>1, <2>2 DEF TypeOK
<1>9. CASE ~ done /\ OverWindow(ms2)
  <2>1. /\ pc' = "pending" /\ user_turns' = t + 1
        /\ messages' = KeepLast(ms2, WindowLength)
        /\ images' = KeepLast(is2, ContextTurns)
        /\ prompt' = [ctx |-> 0, own |-> 0] /\ reply' = NoReply /\ mask' = 0
        /\ env_open' = env_open
    BY <1>3, <1>9 DEF Observe, ResetTokens, ms2, is2
  <2>2. QED
    BY <1>3, <1>7, <1>9, <2>1 DEF NoReply
<1>10. CASE done
  BY <1>6, <1>10 DEF Observe, ms2
<1>11. QED
  BY <1>8, <1>9, <1>10

(* Rows depend on snapshots and rewards alone.                             *)
LEMMA SameRows ==
  ASSUME UNCHANGED << snapshots, rewards >>
  PROVE  /\ Kept(Len(rewards))' = Kept(Len(rewards))
         /\ \A k : Row(k, EpisodeReturns)' = Row(k, EpisodeReturns)
<1>1. EpisodeReturns' = EpisodeReturns
  BY DEF EpisodeReturns, ReturnToGo, RewardValues
<1>2. \A k : Row(k, EpisodeReturns)' = Row(k, EpisodeReturns)
  BY <1>1 DEF Row, Truncated
<1>3. Kept(Len(rewards))' = Kept(Len(rewards))
  BY DEF Kept
<1> QED
  BY <1>2, <1>3

(* Training rows are built from the snapshots without touching them.       *)
LEMMA FinalizeIInv == IInv /\ Finalize => IInv'
<1>1. SUFFICES ASSUME IInv, Finalize PROVE IInv'
  OBVIOUS
<1>2. Len(snapshots) = Len(rewards) /\ pc = "terminated"
  BY <1>1 DEF IInv, StateShape, Finalize
<1>3. /\ pc' = "returned" /\ env_open' = FALSE
      /\ UNCHANGED << messages, images, prompt, reply, mask, user_turns,
                      assistant_turns, snapshots, rewards >>
  BY <1>1, <1>2 DEF Finalize
<1>4. OutputsAreRows'
  <2>1. outputs' = [k \in 1..Kept(Len(rewards)) |-> Row(k, EpisodeReturns)]
    BY <1>1, <1>2 DEF Finalize
  <2>2. /\ Kept(Len(rewards))' = Kept(Len(rewards))
        /\ \A k : Row(k, EpisodeReturns)' = Row(k, EpisodeReturns)
    BY <1>3, SameRows
  <2>3. QED
    BY <2>1, <2>2 DEF OutputsAreRows
<1>5. QED
  BY <1>1, <1>2, <1>3, <1>4
     DEF IInv, TypeOK, StateShape, History, SnapshotsAligned, TurnBudget,
         EnvOpenIffRunning, AssertionsHold, Ended, ExactWindow, AnsweredWindow

(* An escaping exception ends the rollout and releases the emulator.       *)
LEMMA FailIInv == IInv /\ Fail => IInv'
BY DEF IInv, Fail, TypeOK, StateShape, History, SnapshotsAligned,
       OutputsAreRows, TurnBudget, EnvOpenIffRunning, AssertionsHold, Ended

(* A step of the environment changes nothing of this rollout.              *)
LEMMA StutterIInv == IInv /\ UNCHANGED vars => IInv'
<1>1. SUFFICES ASSUME IInv, UNCHANGED vars PROVE IInv'
  OBVIOUS
<1>2. OutputsAreRows'
  <2>1. /\ Kept(Len(rewards))' = Kept(Len(rewards))
        /\ \A k : Row(k, EpisodeReturns)' = Row(k, EpisodeReturns)
    BY <1>1, SameRows DEF vars
  <2>2. QED
    BY <1>1, <2>1 DEF IInv, OutputsAreRows, vars
<1>3. QED
  BY <1>1, <1>2
     DEF IInv, vars, TypeOK, StateShape, History, SnapshotsAligned, TurnBudget,
         EnvOpenIffRunning, AssertionsHold, ExactWindow, AnsweredWindow

(* Every step of the loop preserves the invariant.                         *)
LEMMA NextIInv == IInv /\ [Next]_vars => IInv'
<1>1. SUFFICES ASSUME IInv, [Next]_vars PROVE IInv'
  OBVIOUS
<1>2. CASE Encode
  BY <1>1, <1>2, EncodeIInv
<1>3. ASSUME NEW n \in ReplyLengths, Generate(n) PROVE IInv'
  BY <1>1, <1>3, GenerateIInv
<1>4. CASE FirstObservation
  <2>1. pc = "stepping_env" /\ Observe(0, FALSE)
    BY <1>4 DEF FirstObservation
  <2>2. 0 \in Int /\ FALSE \in BOOLEAN /\ (snapshots = << >> => ~ FALSE)
    OBVIOUS
  <2>3. QED
    BY <1>1, <2>1, <2>2, ObserveIInv, Zenon
<1>5. ASSUME NEW r \in StepRewards, NEW done \in BOOLEAN, PlayReply(r, done)
      PROVE  IInv'
  <2>1. r \in Int
    BY LoopAssumption
  <2>2. QED
    BY <1>1, <1>5, <2>1, ObserveIInv DEF PlayReply
<1>6. CASE RejectReply
  <2>1. FormatPenalty \in Int
    BY LoopAssumption
  <2>2. QED
    BY <1>1, <1>6, <2>1, ObserveIInv DEF RejectReply
<1>7. CASE Finalize
  BY <1>1, <1>7, FinalizeIInv
<1>8. CASE Fail
  BY <1>1, <1>8, FailIInv
<1>9. CASE Finished \/ UNCHANGED vars
  BY <1>1, <1>9, StutterIInv DEF Finished
<1>10. QED
  BY <1>1, <1>2, <1>3, <1>4, <1>5, <1>6, <1>7, <1>8, <1>9 DEF Next, Advance

-----------------------------------------------------------------------------
(* The theorems.                                                           *)

(* The inductive invariant, from which every property below follows.       *)
THEOREM InductiveInvariant == Spec => []IInv
BY InitIInv, NextIInv, PTL DEF Spec

(* Every variable keeps its type, for all constants.                       *)
THEOREM TypeCorrect == Spec => []TypeOK
<1>1. IInv => TypeOK
  BY DEF IInv
<1>2. QED
  BY <1>1, InductiveInvariant, PTL

(* Whatever the context length, the model is always shown exactly the last *)
(* ContextTurns turns of the episode (_handle_environment_step).           *)
THEOREM PromptIsLastTurnsHolds == Spec => []PromptIsLastTurns
<1>1. IInv => PromptIsLastTurns
  BY DEF IInv, StateShape, PromptIsLastTurns
<1>2. QED
  BY <1>1, InductiveInvariant, PTL

(* Snapshot k pairs observation k with reply k (the deep copy of _run_impl *)
(* is taken before the next observation).                                  *)
THEOREM SnapshotsAlignedHolds == Spec => []SnapshotsAligned
<1>1. IInv => SnapshotsAligned
  BY DEF IInv, History
<1>2. QED
  BY <1>1, InductiveInvariant, PTL

(* With as many rewards as snapshots in every state of the loop.           *)
LEMMA IInvRewards == IInv => RewardsAligned
<1>1. SUFFICES ASSUME IInv PROVE RewardsAligned
  OBVIOUS
<1>2. ASSUME pc \notin Ended
      PROVE  Len(snapshots) = Len(rewards) +
               (IF pc = "stepping_env" /\ snapshots # << >> THEN 1 ELSE 0)
  <2>1. user_turns \in Nat /\ Len(snapshots) \in Nat /\ Len(rewards) \in Nat
    BY <1>1, LenProperties DEF IInv, TypeOK
  <2>2. CASE pc = "stepping_env" /\ snapshots = << >>
    BY <1>1, <2>2, EmptySeq DEF IInv, StateShape
  <2>3. CASE pc = "stepping_env" /\ snapshots # << >>
    BY <1>1, <2>1, <2>3 DEF IInv, StateShape
  <2>4. CASE pc \in {"pending", "generating", "terminated"}
    BY <1>1, <2>1, <2>4 DEF IInv, StateShape
  <2>5. QED
    BY <1>1, <1>2, <2>2, <2>3, <2>4 DEF IInv, TypeOK, Running
<1>3. QED
  BY <1>1, <1>2 DEF IInv, History, RewardsAligned

(* Reward k belongs to reply k and no reward is lost or misplaced          *)
(* ("align the reward list with the agent_data_list").                     *)
THEOREM RewardsAlignedHolds == Spec => []RewardsAligned
BY IInvRewards, InductiveInvariant, PTL

(* Neither assert statement of the rollout can fail.                       *)
THEOREM AssertionsNeverFail == Spec => []AssertionsHold
<1>1. IInv => AssertionsHold
  BY DEF IInv
<1>2. QED
  BY <1>1, InductiveInvariant, PTL

(* The turn limits bound the number of played turns.                       *)
THEOREM TurnBudgetHolds == Spec => []TurnBudget
<1>1. IInv => TurnBudget
  BY DEF IInv
<1>2. QED
  BY <1>1, InductiveInvariant, PTL

(* The emulator is released on every way out of run and on no other step.  *)
THEOREM EmulatorReleased == Spec => []EnvOpenIffRunning
<1>1. IInv => EnvOpenIffRunning
  BY DEF IInv
<1>2. QED
  BY <1>1, InductiveInvariant, PTL

(* With one turn of context, the presets' setting, every training row's    *)
(* response and mask are exactly the tokens of its own reply.              *)
THEOREM MarkovResponseIsOwnReply ==
  ASSUME ContextTurns = 1
  PROVE  Spec => []ResponseIsOwnReply
<1>1. IInv => ResponseIsOwnReply
  <2>1. SUFFICES ASSUME IInv, pc = "returned", NEW k \in 1..Len(outputs)
                 PROVE  LET s == snapshots[k] IN
                        /\ outputs[k].from = s.prompt.ctx
                        /\ outputs[k].len = s.reply.len
                        /\ outputs[k].mask = s.reply.len
    BY DEF ResponseIsOwnReply
  <2>2. /\ Len(snapshots) = Len(rewards) /\ Len(rewards) \in Nat
        /\ snapshots \in Seq(Snapshot)
    BY <2>1, LenProperties DEF IInv, StateShape, TypeOK
  <2>3. Kept(Len(rewards)) \in Nat /\ Kept(Len(rewards)) <= Len(rewards)
    BY <2>2 DEF Kept, TrailingTurns
  <2>4. PICK returns :
          outputs = [j \in 1..Kept(Len(rewards)) |-> Row(j, returns)]
    <3>1. outputs = [j \in 1..Kept(Len(rewards)) |-> Row(j, EpisodeReturns)]
      BY <2>1 DEF IInv, OutputsAreRows
    <3>2. QED
      BY <3>1, Zenon
  <2>5. k \in 1..Kept(Len(rewards)) /\ outputs[k] = Row(k, returns)
    BY <2>3, <2>4
  <2>6. k \in 1..Len(snapshots) /\ snapshots[k] \in Snapshot
    BY <2>2, <2>3, <2>5, ElementOfSeq
  <2>7. /\ snapshots[k].mask = snapshots[k].reply.len
        /\ snapshots[k].prompt.own = snapshots[k].reply.len
        /\ snapshots[k].reply.len <= ResponseLength
    BY <2>1, <2>6 DEF IInv, History
  <2>8. snapshots[k].prompt.ctx \in Nat /\ snapshots[k].reply.len \in Nat
    BY <2>6 DEF Snapshot
  <2>9. /\ Row(k, returns).from = snapshots[k].prompt.ctx
        /\ Row(k, returns).len = snapshots[k].reply.len
        /\ Row(k, returns).mask = snapshots[k].reply.len
    BY <2>7, <2>8, LoopAssumption DEF Row, Truncated
  <2>10. QED
    BY <2>5, <2>9
<1>2. QED
  BY <1>1, InductiveInvariant, PTL

-----------------------------------------------------------------------------
(* The returns of the rows.                                                *)

(* The powers of b, one after the other.                                   *)
Multiplies(c, b, e) ==
  /\ c \in [0 .. e -> Int]
  /\ c[0] = 1
  /\ \A k \in 1 .. e : c[k] = b * c[k - 1]

(* The recursive function that Power chooses exists, so it multiplies.     *)
LEMMA PowerByProducts ==
  ASSUME NEW b \in Int, NEW e \in Nat
  PROVE  \E c : Multiplies(c, b, e) /\ Power(b, e) = c[e]
<1> DEFINE step(h) == [i \in 0 .. e |-> IF i = 0 THEN 1 ELSE b * h[i - 1]]
           c == CHOOSE h : h = step(h)
           F == [k \in 1 .. e |-> [x \in Int |-> b * x]]
<1>1. Power(b, e) = c[e]
  BY DEF Power
<1>2. Steps(Int, e, F)
  BY DEF Steps
<1>3. PICK g : Follows(g, 1, Int, e, F)
  <2>1. 1 \in Int
    OBVIOUS
  <2> QED BY <1>2, <2>1, Recursion
<1>4. /\ g \in [0 .. e -> Int] /\ g[0] = 1
      /\ \A k \in 1 .. e : g[k] = b * g[k - 1]
  <2>1. \A k \in 1 .. e, x \in Int : F[k][x] = b * x
    BY Zenon
  <2>2. \A k \in 1 .. e : k - 1 \in 0 .. e
    OBVIOUS
  <2> HIDE DEF F
  <2> QED BY <1>3, <2>1, <2>2 DEF Follows
<1>5. g = step(g)
  BY <1>4
<1>6. c = step(c)
  BY <1>5, Zenon
<1> HIDE DEF c
<1>7. c[0] = 1 /\ (\A k \in 1 .. e : c[k] = b * c[k - 1]) /\ DOMAIN c = 0 .. e
  BY <1>6
<1> DEFINE S == {k \in 0 .. e : c[k] \in Int}
<1>8. \A m \in 0 .. e : m \in S
  <2> SUFFICES ASSUME NEW m \in 0 .. e PROVE m \in S
    OBVIOUS
  <2>1. 0 \in S
    BY <1>7
  <2>2. ASSUME NEW k \in 0 .. m - 1, k \in S PROVE k + 1 \in S
    <3>1. k + 1 \in 1 .. e /\ (k + 1) - 1 = k /\ k + 1 \in 0 .. e
      OBVIOUS
    <3>2. c[k + 1] = b * c[k] /\ c[k] \in Int
      BY <1>7, <2>2, <3>1
    <3> QED BY <3>1, <3>2
  <2> HIDE DEF S
  <2> QED BY <2>1, <2>2, Induction
<1>9. c \in [0 .. e -> Int]
  <2>1. c = [k \in 0 .. e |-> c[k]]
    BY <1>6, <1>7
  <2> QED BY <1>8, <2>1
<1>10. Multiplies(c, b, e)
  BY <1>7, <1>9 DEF Multiplies
<1> QED BY <1>1, <1>10

(* Powers are numbers, the next one is the base times the last.            *)
LEMMA PowerNext ==
  ASSUME NEW b \in Int, NEW e \in Nat
  PROVE  /\ Power(b, 0) = 1
         /\ Power(b, e) \in Int
         /\ Power(b, e + 1) = b * Power(b, e)
<1>1. PICK z : Multiplies(z, b, 0) /\ Power(b, 0) = z[0]
  <2>1. 0 \in Nat
    OBVIOUS
  <2> QED BY <2>1, PowerByProducts
<1>2. PICK c : Multiplies(c, b, e) /\ Power(b, e) = c[e]
  BY PowerByProducts
<1>3. PICK d : Multiplies(d, b, e + 1) /\ Power(b, e + 1) = d[e + 1]
  <2>1. e + 1 \in Nat
    OBVIOUS
  <2> QED BY <2>1, PowerByProducts
<1> DEFINE S == {k \in 0 .. e : c[k] = d[k]}
<1>4. 0 \in S
  BY <1>2, <1>3 DEF Multiplies
<1>5. ASSUME NEW k \in 0 .. e - 1, k \in S PROVE k + 1 \in S
  <2>1. k + 1 \in 1 .. e /\ k + 1 \in 1 .. e + 1 /\ (k + 1) - 1 = k /\ k + 1 \in 0 .. e
    OBVIOUS
  <2>2. c[k + 1] = b * c[k] /\ d[k + 1] = b * d[k]
    BY <1>2, <1>3, <2>1 DEF Multiplies
  <2> QED BY <1>5, <2>1, <2>2
<1> HIDE DEF S
<1>6. e \in S
  BY <1>4, <1>5, Induction
<1>7. c[e] = d[e] /\ c[e] \in Int
  BY <1>2, <1>6 DEF S, Multiplies
<1>8. d[e + 1] = b * d[e]
  <2>1. e + 1 \in 1 .. e + 1 /\ (e + 1) - 1 = e
    OBVIOUS
  <2> QED BY <1>3, <2>1 DEF Multiplies
<1> QED BY <1>1, <1>2, <1>3, <1>7, <1>8 DEF Multiplies

(* The running returns, from the last reward back.                         *)
Runs(c, rs) ==
  /\ c \in [0 .. Len(rs) -> Int]
  /\ c[0] = 0
  /\ \A k \in 1 .. Len(rs) : c[k] = rs[Len(rs) - k + 1] + Discount * c[k - 1]

(* The returns are the running ones turned round.                          *)
LEMMA ReturnsByRuns ==
  ASSUME NEW rs \in Seq(Int)
  PROVE  \E c : Runs(c, rs) /\ ReturnToGo(rs) = [i \in 1 .. Len(rs) |-> c[Len(rs) - i + 1]]
<1> DEFINE n == Len(rs)
           step(h) == [k \in 0..n |-> IF k = 0 THEN 0 ELSE rs[n - k + 1] + Discount * h[k - 1]]
           c == CHOOSE h : h = step(h)
           F == [k \in 1 .. n |-> [x \in Int |-> rs[n - k + 1] + Discount * x]]
<1>1. n \in Nat /\ Discount \in Int /\ \A k \in 1 .. n : rs[n - k + 1] \in Int
  <2>1. n \in Nat /\ \A k \in 1 .. n : rs[k] \in Int
    BY LenProperties, ElementOfSeq
  <2> HIDE DEF n
  <2>2. \A k \in 1 .. n : n - k + 1 \in 1 .. n
    BY <2>1
  <2> QED BY <2>1, <2>2, LoopAssumption
<1>2. ReturnToGo(rs) = [i \in 1 .. n |-> c[n - i + 1]]
  BY DEF ReturnToGo
<1> HIDE DEF n
<1>3. Steps(Int, n, F)
  BY <1>1 DEF Steps
<1>4. PICK g : Follows(g, 0, Int, n, F)
  <2>1. 0 \in Int
    OBVIOUS
  <2> QED BY <1>3, <2>1, Recursion
<1>5. /\ g \in [0 .. n -> Int] /\ g[0] = 0
      /\ \A k \in 1 .. n : g[k] = rs[n - k + 1] + Discount * g[k - 1]
  <2>1. \A k \in 1 .. n, x \in Int : F[k][x] = rs[n - k + 1] + Discount * x
    BY Zenon
  <2>2. \A k \in 1 .. n : k - 1 \in 0 .. n
    BY <1>1
  <2> HIDE DEF F
  <2> QED BY <1>4, <2>1, <2>2 DEF Follows
<1>6. g = step(g)
  BY <1>1, <1>5
<1>7. c = step(c)
  BY <1>6, Zenon
<1> HIDE DEF c
<1>8. c[0] = 0 /\ (\A k \in 1 .. n : c[k] = rs[n - k + 1] + Discount * c[k - 1]) /\ DOMAIN c = 0 .. n
  BY <1>1, <1>7
<1> DEFINE S == {k \in 0 .. n : c[k] \in Int}
<1>9. \A m \in 0 .. n : m \in S
  <2> SUFFICES ASSUME NEW m \in 0 .. n PROVE m \in S
    OBVIOUS
  <2>1. 0 \in S
    BY <1>1, <1>8
  <2>2. ASSUME NEW k \in 0 .. m - 1, k \in S PROVE k + 1 \in S
    <3>1. k + 1 \in 1 .. n /\ (k + 1) - 1 = k /\ k + 1 \in 0 .. n
      BY <1>1
    <3>2. /\ c[k + 1] = rs[n - (k + 1) + 1] + Discount * c[k]
          /\ c[k] \in Int /\ rs[n - (k + 1) + 1] \in Int
      BY <1>1, <1>8, <2>2, <3>1
    <3> HIDE DEF S
    <3>3. c[k + 1] \in Int
      BY <1>1, <3>2
    <3> QED BY <3>1, <3>3 DEF S
  <2> HIDE DEF S
  <2> QED BY <1>1, <2>1, <2>2, Induction
<1>10. c \in [0 .. n -> Int]
  <2>1. c = [k \in 0 .. n |-> c[k]]
    BY <1>7, <1>8
  <2> QED BY <1>9, <2>1
<1>11. Runs(c, rs)
  BY <1>8, <1>10 DEF Runs, n
<1> QED BY <1>2, <1>11 DEF n

(* The reward of turn j with the returns after it, discounted to turn k.   *)
LEMMA Discounted ==
  ASSUME NEW p \in Int, NEW r \in Int, NEW x \in Int, NEW d \in Int
  PROVE  p * (r + d * x) = r * p + (d * p) * x
OBVIOUS

(* Discounted back to turn k, the running returns are the tail's sum.      *)
LEMMA TailIsReturn ==
  ASSUME NEW rs \in Seq(Int), NEW k \in 1 .. Len(rs)
  PROVE  DiscountedTail(rs, k) = ReturnToGo(rs)[k]
<1> DEFINE n == Len(rs)
           step(h) == [j \in k..(n + 1) |->
                         IF j = n + 1 THEN 0
                         ELSE rs[j] * Power(Discount, j - k) + h[j + 1]]
           d == CHOOSE h : h = step(h)
<1>1. n \in Nat /\ k \in 1 .. n /\ Discount \in Int /\ \A j \in 1 .. n : rs[j] \in Int
  BY LenProperties, ElementOfSeq, LoopAssumption
<1>2. DiscountedTail(rs, k) = d[k]
  BY DEF DiscountedTail
<1>3. PICK c : Runs(c, rs) /\ ReturnToGo(rs) = [i \in 1 .. n |-> c[n - i + 1]]
  BY ReturnsByRuns
<1>4. /\ c \in [0 .. n -> Int] /\ c[0] = 0
      /\ \A m \in 1 .. n : c[m] = rs[n - m + 1] + Discount * c[m - 1]
  BY <1>3 DEF Runs
<1> DEFINE pow == [i \in 0 .. n |-> Power(Discount, i)]
           g == [j \in k .. n + 1 |-> pow[j - k] * c[n + 1 - j]]
<1> HIDE DEF n
<1>5. /\ \A i \in 0 .. n : Power(Discount, i) = pow[i] /\ pow[i] \in Int
      /\ pow[0] = 1
      /\ \A i \in 0 .. n - 1 : pow[i + 1] = Discount * pow[i]
  <2>1. /\ Power(Discount, 0) = 1
        /\ \A i \in Nat : /\ Power(Discount, i) \in Int
                          /\ Power(Discount, i + 1) = Discount * Power(Discount, i)
    <3>1. 0 \in Nat
      OBVIOUS
    <3> QED BY <1>1, <3>1, PowerNext
  <2>2. \A i \in 0 .. n : pow[i] = Power(Discount, i)
    BY Zenon
  <2> HIDE DEF pow
  <2>3. 0 \in 0 .. n /\ \A i \in 0 .. n - 1 : i \in 0 .. n /\ i + 1 \in 0 .. n /\ i \in Nat
    BY <1>1
  <2>4. \A i \in 0 .. n : i \in Nat
    BY <1>1
  <2>5. \A i \in 0 .. n - 1 : pow[i + 1] = Discount * pow[i]
    BY <2>1, <2>2, <2>3
  <2> QED BY <2>1, <2>2, <2>3, <2>4, <2>5
<1> HIDE DEF pow
<1>6. ASSUME NEW j \in k .. n
      PROVE  /\ g[j] = rs[j] * pow[j - k] + g[j + 1]
             /\ g[j] \in Int
  <2>1. /\ j - k \in 0 .. n - 1 /\ (j + 1) - k = (j - k) + 1 /\ j \in 1 .. n
        /\ n + 1 - j \in 1 .. n /\ n - (n + 1 - j) + 1 = j
        /\ n + 1 - (j + 1) = (n + 1 - j) - 1 /\ (n + 1 - j) - 1 \in 0 .. n
        /\ j + 1 \in k .. n + 1 /\ j \in k .. n + 1 /\ j - k \in 0 .. n
    BY <1>1
  <2> DEFINE p == pow[j - k]
             x == c[(n + 1 - j) - 1]
             y == c[n + 1 - j]
  <2>2. p \in Int /\ x \in Int /\ rs[j] \in Int
    BY <1>1, <1>4, <1>5, <2>1
  <2>3. y = rs[j] + Discount * x
    BY <1>4, <2>1
  <2>4. g[j] = p * y
    BY <2>1
  <2>5. g[j + 1] = (Discount * p) * x
    <3>1. g[j + 1] = pow[(j + 1) - k] * c[n + 1 - (j + 1)]
      BY <2>1
    <3>2. pow[(j + 1) - k] = Discount * p
      BY <1>5, <2>1
    <3> HIDE DEF g, p
    <3> QED BY <2>1, <3>1, <3>2
  <2> HIDE DEF p, x, y, g
  <2>6. g[j] = rs[j] * p + g[j + 1]
    BY <1>1, <2>2, <2>3, <2>4, <2>5, Discounted
  <2>7. g[j] \in Int
    <3>1. y \in Int
      BY <1>1, <2>2, <2>3
    <3> QED BY <2>2, <2>4, <3>1
  <2> QED BY <2>6, <2>7 DEF p
<1>7. g[n + 1] = 0
  <2>1. n + 1 \in k .. n + 1 /\ n + 1 - (n + 1) = 0 /\ (n + 1) - k \in 0 .. n
    BY <1>1
  <2>2. g[n + 1] = pow[(n + 1) - k] * c[0]
    BY <2>1
  <2> HIDE DEF g
  <2> QED BY <1>4, <1>5, <2>1, <2>2
<1>8. g = step(g)
  <2>1. \A j \in k .. n + 1 : j # n + 1 => j \in k .. n /\ j - k \in 0 .. n
    BY <1>1
  <2>2. \A j \in k .. n + 1 : j # n + 1 => g[j] = rs[j] * Power(Discount, j - k) + g[j + 1]
    <3> HIDE DEF g
    <3> QED BY <1>5, <1>6, <2>1
  <2>3. g = [j \in k .. n + 1 |-> g[j]]
    OBVIOUS
  <2> HIDE DEF g
  <2> QED BY <1>7, <2>2, <2>3
<1>9. d = step(d)
  BY <1>8, Zenon
<1> HIDE DEF d, g
<1>10. d[n + 1] = 0 /\ \A j \in k .. n : d[j] = rs[j] * pow[j - k] + d[j + 1]
  <2>1. \A j \in k .. n : j \in k .. n + 1 /\ j # n + 1 /\ j - k \in 0 .. n
    BY <1>1
  <2>2. n + 1 \in k .. n + 1
    BY <1>1
  <2> QED BY <1>5, <1>9, <2>1, <2>2
<1> DEFINE S == {i \in 0 .. n + 1 - k : d[n + 1 - i] = g[n + 1 - i]}
<1>11. 0 \in S
  <2>1. n + 1 - 0 = n + 1 /\ 0 \in 0 .. n + 1 - k
    BY <1>1
  <2> QED BY <1>7, <1>10, <2>1
<1>12. ASSUME NEW i \in 0 .. (n + 1 - k) - 1, i \in S PROVE i + 1 \in S
  <2> DEFINE j == n + 1 - (i + 1)
  <2>1. j \in k .. n /\ j + 1 = n + 1 - i /\ i + 1 \in 0 .. n + 1 - k
    BY <1>1
  <2> HIDE DEF j
  <2>2. d[j] = rs[j] * pow[j - k] + d[j + 1] /\ g[j] = rs[j] * pow[j - k] + g[j + 1]
    BY <1>6, <1>10, <2>1
  <2>3. d[j + 1] = g[j + 1]
    BY <1>12, <2>1
  <2> QED BY <2>1, <2>2, <2>3 DEF j
<1> HIDE DEF S
<1>13. n + 1 - k \in S
  <2>1. n + 1 - k \in Nat
    BY <1>1
  <2> DEFINE m == n + 1 - k
  <2> HIDE DEF m
  <2>2. m \in S
    BY <1>11, <1>12, <2>1, Induction DEF m
  <2> QED BY <2>2 DEF m
<1>14. d[k] = g[k]
  <2>1. n + 1 - (n + 1 - k) = k
    BY <1>1
  <2> QED BY <1>13, <2>1 DEF S
<1>15. g[k] = c[n - k + 1]
  <2>1. k \in k .. n + 1 /\ k - k = 0 /\ n + 1 - k = n - k + 1 /\ n - k + 1 \in 0 .. n
    BY <1>1
  <2>2. g[k] = pow[k - k] * c[n + 1 - k]
    BY <2>1 DEF g
  <2>3. c[n - k + 1] \in Int
    BY <1>4, <2>1
  <2> QED BY <1>5, <2>1, <2>2, <2>3
<1> QED BY <1>1, <1>2, <1>3, <1>14, <1>15

(* The rewards are numbers, one for each recorded entry.                   *)
LEMMA ValuesType ==
  ASSUME TypeOK
  PROVE  RewardValues \in Seq(Int) /\ Len(RewardValues) = Len(rewards)
<1>1. \A i \in 1..Len(rewards) : rewards[i] \in [reward : Int, turn : Nat]
  BY ElementOfSeq DEF TypeOK
<1>2. Len(rewards) \in Nat
  BY LenProperties DEF TypeOK
<1>3. RewardValues \in [1..Len(rewards) -> Int]
  BY <1>1 DEF RewardValues
<1>4. QED
  BY <1>2, <1>3, FunctionIsSeq

(* The rows of an episode are its first turns, in order, and the return of *)
(* each counts every later reward, those of the trimmed tail included; an  *)
(* episode with a reward has a row (compute_return_to_go before the last   *)
(* five turns are dropped).  norm_in_agent_loop replaces returns.          *)
THEOREM ReturnsIncludeTheTail ==
  ASSUME ~ NormInAgentLoop
  PROVE  Spec => []ReturnsIncludeTrimmedTail
<1>1. IInv => ReturnsIncludeTrimmedTail
  <2>1. SUFFICES ASSUME IInv, pc = "returned"
                 PROVE  ReturnsIncludeTrimmedTail
    BY DEF ReturnsIncludeTrimmedTail
  <2> DEFINE kept == Kept(Len(rewards))
  <2>2. /\ TypeOK /\ SnapshotsAligned
        /\ Len(snapshots) = Len(rewards) /\ Len(rewards) \in Nat
        /\ outputs = [k \in 1..kept |-> Row(k, EpisodeReturns)]
    BY <2>1, LenProperties DEF IInv, StateShape, TypeOK, History, OutputsAreRows
  <2>3. kept \in Nat /\ kept <= Len(rewards) /\ (Len(rewards) > 0 => kept > 0)
    BY <2>2 DEF Kept, TrailingTurns
  <2> HIDE DEF kept
  <2>4. Len(outputs) = kept
    BY <2>2, <2>3
  <2>5. rewards # << >> => outputs # << >>
    <3>1. rewards # << >> => Len(rewards) > 0
      BY <2>2, EmptySeq DEF TypeOK
    <3>2. QED
      BY <2>2, <2>3, <3>1
  <2>6. ASSUME NEW k \in 1..Len(outputs)
        PROVE  /\ outputs[k].turn = k
               /\ outputs[k].turn_idx = k - 1
               /\ outputs[k].step_reward = rewards[k].reward
               /\ outputs[k].turn_scores = DiscountedTail(RewardValues, k)
    <3>1. k \in 1..kept /\ k \in 1..Len(rewards)
      BY <2>2, <2>3, <2>4
    <3>2. outputs[k] = Row(k, EpisodeReturns)
      BY <2>2, <3>1
    <3>3. /\ Row(k, EpisodeReturns).turn = snapshots[k].turn
          /\ Row(k, EpisodeReturns).turn_idx = k - 1
          /\ Row(k, EpisodeReturns).step_reward = rewards[k].reward
          /\ Row(k, EpisodeReturns).turn_scores = EpisodeReturns[k]
      BY DEF Row
    <3>4. snapshots[k].turn = k
      BY <2>2, <3>1 DEF SnapshotsAligned
    <3>5. EpisodeReturns[k] = DiscountedTail(RewardValues, k)
      <4>1. EpisodeReturns = ReturnToGo(RewardValues)
        BY DEF EpisodeReturns
      <4>2. QED
        BY <2>2, <3>1, <4>1, ValuesType, TailIsReturn
    <3>6. QED
      BY <3>2, <3>3, <3>4, <3>5
  <2>7. QED
    BY <2>4, <2>5, <2>6 DEF ReturnsIncludeTrimmedTail, kept
<1>2. QED
  BY <1>1, InductiveInvariant, PTL

-----------------------------------------------------------------------------
(* The rollout in the game: MarioRollout.                                  *)

(* Total is a sum like those of the batch.                                 *)
LEMMA TotalIsSum ==
  ASSUME NEW s
  PROVE  Total(s) = SumSeq(s)
BY DEF Total, SumSeq

(* The emulator ends an episode or does not.                               *)
LEMMA PlayIInv ==
  ASSUME IInv, NEW reward \in Int, NEW done, done \in BOOLEAN, PlayReply(reward, done)
  PROVE  IInv'
BY ObserveIInv DEF PlayReply

Game == [lives : Int, progress : Int, dying : BOOLEAN, over : BOOLEAN]

(* The emulator remembers where Mario stood after the last action, and the *)
(* episode has earned what he has come since the start.                    *)
GameFits ==
  /\ game \in Game
  /\ prev = [lives |-> game.lives, progress |-> game.progress]
  /\ unpaid \in Int
  /\ rejected \in Nat
  /\ EarnedIsProgress

RolloutInv == IInv /\ GameFits

(* Whatever the game does, it remains a game.                              *)
LEMMA GameType ==
  ASSUME game \in Game, NEW g \in Uneventful(game) \cup Happening(game)
  PROVE  g \in Game
<1>1. /\ game.lives \in Int /\ game.progress \in Int
      /\ game.dying \in BOOLEAN /\ game.over \in BOOLEAN
      /\ game = [lives |-> game.lives, progress |-> game.progress,
                 dying |-> game.dying, over |-> game.over]
  BY DEF Game
<1>2. \A d \in Moves : game.progress + d \in Int
  BY <1>1, EnvAssumption
<1>3. game.lives - 1 \in Int /\ game.lives + 1 \in Int /\ 0 \in Int
  BY <1>1
<1>4. (game.lives = 1) \in BOOLEAN
  OBVIOUS
<1>5. CASE g \in Uneventful(game)
  <2>1. PICK d \in Moves : g = [game EXCEPT !.progress = @ + d]
    BY <1>5 DEF Uneventful
  <2>2. g = [lives |-> game.lives, progress |-> game.progress + d,
             dying |-> game.dying, over |-> game.over]
    BY <1>1, <2>1
  <2> QED BY <1>1, <1>2, <2>2 DEF Game
<1>6. CASE \E d \in Moves : g = [game EXCEPT !.dying = TRUE, !.progress = @ + d]
  <2>1. PICK d \in Moves : g = [game EXCEPT !.dying = TRUE, !.progress = @ + d]
    BY <1>6
  <2>2. g = [lives |-> game.lives, progress |-> game.progress + d,
             dying |-> TRUE, over |-> game.over]
    BY <1>1, <2>1
  <2> QED BY <1>1, <1>2, <2>2 DEF Game
<1>7. CASE g = [game EXCEPT !.lives = @ - 1, !.progress = 0, !.over = game.lives = 1]
  <2>1. g = [lives |-> game.lives - 1, progress |-> 0,
             dying |-> game.dying, over |-> (game.lives = 1)]
    BY <1>1, <1>7
  <2> QED BY <1>1, <1>3, <1>4, <2>1 DEF Game
<1>8. CASE \E d \in Moves : g = [game EXCEPT !.lives = @ + 1, !.progress = @ + d]
  <2>1. PICK d \in Moves : g = [game EXCEPT !.lives = @ + 1, !.progress = @ + d]
    BY <1>8
  <2>2. g = [lives |-> game.lives + 1, progress |-> game.progress + d,
             dying |-> game.dying, over |-> game.over]
    BY <1>1, <2>1
  <2> QED BY <1>1, <1>2, <1>3, <2>2 DEF Game
<1>9. CASE g = [game EXCEPT !.progress = 0]
  <2>1. g = [lives |-> game.lives, progress |-> 0,
             dying |-> game.dying, over |-> game.over]
    BY <1>1, <1>9
  <2> QED BY <1>1, <1>3, <2>1 DEF Game
<1> QED BY <1>5, <1>6, <1>7, <1>8, <1>9 DEF Happening

(* A recorded reward is added to what was earned.                          *)
LEMMA EarnedMore ==
  ASSUME TypeOK, TypeOK', NEW r \in Int, snapshots # << >>, RecordReward(r)
  PROVE  Total(RewardValues) \in Int /\ Total(RewardValues)' = Total(RewardValues) + r
<1> DEFINE n == Len(rewards)
<1>1. rewards' = Append(rewards, [reward |-> r, turn |-> reply.turn])
  BY DEF RecordReward, RewardEntry
<1>2. /\ n \in Nat /\ Len(rewards') = n + 1
      /\ rewards'[n + 1].reward = r
      /\ \A i \in 1..n : rewards'[i] = rewards[i]
  <2>1. rewards \in Seq([reward : Int, turn : Nat]) /\ reply.turn \in Nat
    BY DEF TypeOK
  <2> QED BY <1>1, <2>1, LenProperties, AppendProperties
<1>3. RewardValues \in Seq(Int) /\ Len(RewardValues) = n
  BY ValuesType
<1>4. RewardValues' = Append(RewardValues, r)
  <2> DEFINE v == RewardValues
             w == Append(v, r)
  <2>1. w \in Seq(Int) /\ Len(w) = n + 1 /\ w[n + 1] = r /\ \A i \in 1..n : w[i] = v[i]
    BY <1>3, AppendProperties
  <2>2. w = [i \in 1..n + 1 |-> w[i]]
    BY <2>1, LenProperties
  <2>3. \A i \in 1..n : v[i] = rewards[i].reward
    BY DEF RewardValues
  <2> HIDE DEF v, w
  <2>4. \A i \in 1..n + 1 : w[i] = rewards'[i].reward
    BY <1>2, <2>1, <2>3
  <2>5. RewardValues' = [i \in 1..n + 1 |-> rewards'[i].reward]
    BY <1>2 DEF RewardValues
  <2> QED BY <2>2, <2>4, <2>5 DEF v, w
<1> QED BY <1>3, <1>4, TotalIsSum, SumAppend

(* A reply that is played pays for the way Mario came, unless it cost or   *)
(* brought a life.                                                         *)
LEMMA PlayFits == RolloutInv /\ Play => RolloutInv'
<1> SUFFICES ASSUME RolloutInv, Play PROVE RolloutInv'
  OBVIOUS
<1>1. PICK buttons \in BOOLEAN, g \in Uneventful(game) \cup Happening(game) :
        /\ PlayReply(EnvReward(g), EnvDone(g, step_count + IF buttons THEN 1 ELSE 0))
        /\ EnvStep(g, buttons)
        /\ unpaid' = IF g.dying \/ g.lives # game.lives
                     THEN unpaid + g.progress - game.progress ELSE unpaid
        /\ UNCHANGED rejected
  BY DEF Play
<1> DEFINE reward == EnvReward(g)
           done == EnvDone(g, step_count + IF buttons THEN 1 ELSE 0)
<1>2. /\ IInv /\ TypeOK /\ game \in Game
      /\ prev = [lives |-> game.lives, progress |-> game.progress]
      /\ unpaid \in Int /\ rejected \in Nat /\ EarnedIsProgress
  BY DEF RolloutInv, GameFits, IInv
<1>3. g \in Game
  BY <1>2, GameType
<1>4. /\ g.progress \in Int /\ game.progress \in Int /\ g.lives \in Int
      /\ game.lives \in Int /\ g.dying \in BOOLEAN
  BY <1>2, <1>3 DEF Game
<1>5. reward = IF ~ g.dying /\ g.lives = game.lives THEN 10 * (g.progress - game.progress) ELSE 0
  BY <1>2 DEF EnvReward
<1>6. reward \in Int
  BY <1>4, <1>5
<1>7. done \in BOOLEAN
  BY DEF EnvDone
<1> HIDE DEF reward, done
<1>8. PlayReply(reward, done)
  BY <1>1 DEF reward, done
<1>9. IInv'
  BY <1>2, <1>6, <1>7, <1>8, PlayIInv
<1>10. snapshots # << >> /\ RecordReward(reward)
  BY <1>8 DEF PlayReply, Observe
<1>11. Total(RewardValues) \in Int /\ Total(RewardValues)' = Total(RewardValues) + reward
  <2>1. TypeOK'
    BY <1>9 DEF IInv
  <2> QED BY <1>2, <1>6, <1>10, <2>1, EarnedMore
<1>12. game' = g /\ prev' = [lives |-> g.lives, progress |-> g.progress] /\ rejected' = rejected
  BY <1>1 DEF EnvStep
<1>13. unpaid' \in Int
  BY <1>1, <1>2, <1>4
<1>14. EarnedIsProgress'
  <2> DEFINE earned == Total(RewardValues)
             penalties == rejected * FormatPenalty
  <2>1. penalties \in Int /\ (rejected * FormatPenalty)' = penalties
    BY <1>2, <1>12, LoopAssumption
  <2>2. earned \in Int /\ earned = 10 * (game.progress - unpaid) + penalties
    BY <1>2, <1>11 DEF EarnedIsProgress
  <2>3. Total(RewardValues)' = earned + reward
    BY <1>11
  <2> HIDE DEF earned, penalties
  <2>4. earned + reward = 10 * (g.progress - unpaid') + penalties
    <3>1. CASE g.dying \/ g.lives # game.lives
      BY <1>1, <1>2, <1>4, <1>5, <2>1, <2>2, <3>1
    <3>2. CASE ~ (g.dying \/ g.lives # game.lives)
      BY <1>1, <1>2, <1>4, <1>5, <2>1, <2>2, <3>2
    <3> QED BY <3>1, <3>2
  <2> QED BY <1>12, <2>1, <2>3, <2>4 DEF EarnedIsProgress
<1> QED BY <1>2, <1>3, <1>9, <1>12, <1>13, <1>14 DEF RolloutInv, GameFits

(* A reply that cannot be played costs one penalty.                        *)
LEMMA RejectFits == RolloutInv /\ Reject => RolloutInv'
<1> SUFFICES ASSUME RolloutInv, Reject PROVE RolloutInv'
  OBVIOUS
<1>1. /\ IInv /\ TypeOK /\ game \in Game
      /\ prev = [lives |-> game.lives, progress |-> game.progress]
      /\ unpaid \in Int /\ rejected \in Nat /\ EarnedIsProgress
  BY DEF RolloutInv, GameFits, IInv
<1>2. RejectReply /\ rejected' = rejected + 1 /\ UNCHANGED << game, prev, unpaid >>
  BY DEF Reject, envVars
<1>3. IInv'
  BY <1>1, <1>2, NextIInv DEF Next, Advance
<1>4. FormatPenalty \in Int /\ snapshots # << >> /\ RecordReward(FormatPenalty)
  BY <1>2, LoopAssumption DEF RejectReply, Observe
<1>5. /\ Total(RewardValues) \in Int
      /\ Total(RewardValues)' = Total(RewardValues) + FormatPenalty
  <2>1. TypeOK'
    BY <1>3 DEF IInv
  <2> QED BY <1>1, <1>4, <2>1, EarnedMore
<1>6. EarnedIsProgress'
  <2>1. (rejected + 1) * FormatPenalty = rejected * FormatPenalty + FormatPenalty
    BY <1>1, <1>4
  <2>2. rejected * FormatPenalty \in Int /\ 10 * (game.progress - unpaid) \in Int
    BY <1>1, <1>4 DEF Game
  <2>3. Total(RewardValues) = 10 * (game.progress - unpaid) + rejected * FormatPenalty
    BY <1>1 DEF EarnedIsProgress
  <2> DEFINE earned == Total(RewardValues)
             way == 10 * (game.progress - unpaid)
             penalties == rejected * FormatPenalty
  <2>4. Total(RewardValues)' = earned + FormatPenalty
    BY <1>5
  <2>5. earned = way + penalties /\ way \in Int /\ penalties \in Int
    BY <2>2, <2>3
  <2>6. /\ (10 * (game.progress - unpaid))' = way
        /\ (rejected * FormatPenalty)' = penalties + FormatPenalty
    BY <1>2, <2>1
  <2> HIDE DEF earned, way, penalties
  <2>7. earned + FormatPenalty = way + (penalties + FormatPenalty)
    BY <1>4, <2>5
  <2> QED BY <2>4, <2>6, <2>7 DEF EarnedIsProgress
<1>7. GameFits'
  BY <1>1, <1>2, <1>6 DEF GameFits
<1> QED BY <1>3, <1>7 DEF RolloutInv

(* Every other step records nothing and leaves the emulator alone.         *)
LEMMA RestFits ==
  ASSUME RolloutInv,
         \/ OffGame \/ Fail \/ Finished \/ UNCHANGED vars,
         UNCHANGED << envVars, unpaid, rejected >>
  PROVE  RolloutInv'
<1>1. IInv'
  BY NextIInv DEF RolloutInv, OffGame, Next, Advance
<1>2. rewards' = rewards
  <2>1. CASE FirstObservation
    BY <2>1 DEF FirstObservation, Observe, RecordReward
  <2>2. CASE \E n \in ReplyLengths : Generate(n)
    BY <2>2 DEF Generate
  <2>3. CASE Encode \/ Finalize \/ Fail
    BY <2>3 DEF Encode, Finalize, Fail
  <2>4. CASE Finished \/ UNCHANGED vars
    BY <2>4 DEF Finished, vars
  <2> QED BY <2>1, <2>2, <2>3, <2>4 DEF OffGame
<1>3. RewardValues' = RewardValues
  BY <1>2 DEF RewardValues
<1>4. EarnedIsProgress'
  BY <1>3 DEF EarnedIsProgress, RolloutInv, GameFits, envVars
<1> QED BY <1>1, <1>4 DEF RolloutInv, GameFits, envVars

(* The loop keeps its invariant when it plays the game, and the game its.  *)
LEMMA RolloutInvariantHolds == RolloutSpec => []RolloutInv
<1>1. RolloutInit => RolloutInv
  <2> SUFFICES ASSUME RolloutInit PROVE RolloutInv
    OBVIOUS
  <2>1. IInv
    BY InitIInv DEF RolloutInit
  <2>2. PICK lives \in StartLives : EnvReset(FreshGame(lives))
    BY DEF RolloutInit, EnvInit
  <2>3. /\ game \in Game /\ game.progress = 0
        /\ prev = [lives |-> game.lives, progress |-> game.progress]
    BY <2>2, EnvAssumption DEF EnvReset, FreshGame, Game
  <2>4. unpaid = 0 /\ rejected = 0
    BY DEF RolloutInit
  <2>5. RewardValues = << >>
    <3>1. rewards = << >> /\ Len(<< >>) = 0
      BY EmptySeq DEF RolloutInit, Init
    <3>2. RewardValues \in Seq(Int) /\ Len(RewardValues) = 0
      BY <2>1, <3>1, ValuesType DEF IInv
    <3> QED BY <3>2, EmptySeq
  <2>6. EarnedIsProgress
    <3>1. 0 * FormatPenalty = 0
      BY LoopAssumption
    <3> QED BY <2>3, <2>4, <2>5, <3>1, TotalIsSum, SumNothing DEF EarnedIsProgress
  <2> QED BY <2>1, <2>3, <2>4, <2>6 DEF RolloutInv, GameFits
<1>2. RolloutInv /\ [RolloutNext]_rolloutVars => RolloutInv'
  <2> SUFFICES ASSUME RolloutInv, [RolloutNext]_rolloutVars PROVE RolloutInv'
    OBVIOUS
  <2>1. CASE Play
    BY <2>1, PlayFits
  <2>2. CASE Reject
    BY <2>2, RejectFits
  <2>3. CASE (OffGame \/ Fail \/ Finished) /\ UNCHANGED << envVars, unpaid, rejected >>
    BY <2>3, RestFits
  <2>4. CASE UNCHANGED rolloutVars
    BY <2>4, RestFits DEF rolloutVars
  <2> QED BY <2>1, <2>2, <2>3, <2>4 DEF RolloutNext, RolloutAdvance
<1> QED BY <1>1, <1>2, PTL DEF RolloutSpec

(* In the game, too, the model is shown exactly the last turns.            *)
THEOREM PlayedPromptIsLastTurns == RolloutSpec => []PromptIsLastTurns
<1>1. RolloutInv => PromptIsLastTurns
  BY DEF RolloutInv, IInv, StateShape, PromptIsLastTurns
<1> QED BY <1>1, RolloutInvariantHolds, PTL

(* In the game, too, a reward is that of its own reply.                    *)
THEOREM PlayedRewardsAligned == RolloutSpec => []RewardsAligned
<1>1. RolloutInv => RewardsAligned
  BY IInvRewards DEF RolloutInv
<1> QED BY <1>1, RolloutInvariantHolds, PTL

(* For every number of turns, every move and every series of deaths, lives *)
(* and levels, an episode has earned ten times the way Mario came, less    *)
(* what cost or brought a life, and its penalties (compute_reward pays the *)
(* difference to the last action).                                         *)
THEOREM EarnedFollowsProgress == RolloutSpec => []EarnedIsProgress
<1>1. RolloutInv => EarnedIsProgress
  BY DEF RolloutInv, GameFits
<1> QED BY <1>1, RolloutInvariantHolds, PTL

=============================================================================
