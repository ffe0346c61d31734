--------------------------- MODULE SequenceParallel ---------------------------
(***************************************************************************)
(* One forward pass of a micro-batch: DataParallelPPOActor                 *)
(* ._forward_micro_batch with padding removed and, for more than one rank, *)
(* the sequence parallelism of verl/utils/ulysses.py.                      *)
(*                                                                         *)
(* A micro-batch is a sequence of rows [prompt, response], the numbers of  *)
(* their tokens: prompts are padded on the left, responses on the right.   *)
(* A token is named by its row and its place in it.  Hidden states are     *)
(* sequences over tokens of sequences over heads.                          *)
(***************************************************************************)
EXTENDS Integers, Sequences, SequencesExt, FiniteSets, FiniteSetsExt

PromptLength(mb) == Max({mb[r].prompt : r \in DOMAIN mb})
ResponseWidth(mb) == Max({mb[r].response : r \in DOMAIN mb})
SeqLength(mb) == PromptLength(mb) + ResponseWidth(mb)

(* What stands at a place of a row; position_ids count from its first token.*)
Tok(row, place) == [row |-> row, place |-> place]
NoTok == Tok(0, 0)
FirstPlace(mb, r) == PromptLength(mb) - mb[r].prompt + 1

(* unpad_input: the tokens of all rows, one after the other.               *)
UnpadInput(mb) ==
  FlattenSeq([r \in DOMAIN mb |->
    [i \in 1 .. mb[r].prompt + mb[r].response |->
       [tok |-> Tok(r, FirstPlace(mb, r) + i - 1), position |-> i - 1]]])
(* pad_input: a value for each place of each row, or nothing.              *)
PadInput(mb, values) ==
  [r \in DOMAIN mb |-> [p \in 1 .. SeqLength(mb) |->
     LET at == {i \in DOMAIN values : UnpadInput(mb)[i].tok = Tok(r, p)}
     IN  IF at = {} THEN << >> ELSE << values[CHOOSE i \in at : TRUE] >>]]

Rolled(s) == Append(Tail(s), Head(s))

-----------------------------------------------------------------------------
(* ulysses.py.                                                             *)

UlyssesPadSize(n, sp) == (sp - (n % sp)) % sp
(* ulysses_pad: positions of the padding start anew.                       *)
UlyssesPad(s, sp) ==
  s \o [i \in 1 .. UlyssesPadSize(Len(s), sp) |-> [tok |-> NoTok, position |-> i - 1]]

(* slice_input_tensor: the share of each rank.                             *)
Sliced(s, sp) ==
  LET size == Len(s) \div sp
  IN  [rank \in 1 .. sp |-> SubSeq(s, (rank - 1) * size + 1, rank * size)]

(* gather_seq_scatter_heads: all tokens, the rank's share of the heads.    *)
GatherSeqScatterHeads(parts) ==
  LET sp == Len(parts)
  IN  [rank \in 1 .. sp |->
         FlattenSeq([from \in 1 .. sp |->
           [i \in DOMAIN parts[from] |-> Sliced(parts[from][i], sp)[rank]]])]
(* gather_heads_scatter_seq: all heads, the rank's share of the tokens.    *)
GatherHeadsScatterSeq(parts) ==
  LET sp == Len(parts)
  IN  [rank \in 1 .. sp |->
         [i \in DOMAIN Sliced(parts[rank], sp)[rank] |->
            FlattenSeq([from \in 1 .. sp |-> Sliced(parts[from], sp)[rank][i]])]]

(* Slip: zero elements are taken off with [:-0].                           *)
Slip_GatherOutputsAndUnpad(parts, padding_size) ==
  LET all == FlattenSeq(parts)
  IN  IF padding_size = 0 THEN << >> ELSE SubSeq(all, 1, Len(all) - padding_size)
GatherOutputsAndUnpad(parts, padding_size) ==
  LET all == FlattenSeq(parts)
  IN  SubSeq(all, 1, Len(all) - padding_size)

-----------------------------------------------------------------------------
(* The attention layer.                                                    *)

(* repeat_kv, so that every rank has a key head.                           *)
RepeatedKv(heads, sp) ==
  LET times == Max({sp \div Len(heads), 1})
  IN  [h \in 1 .. Len(heads) * times |-> heads[((h - 1) \div times) + 1]]

(* Variable-length causal attention with grouped heads: a sequence begins  *)
(* wherever a position is zero (external, flash attention).                *)
Begins(positions, i) == Max({j \in 1 .. i : positions[j] = 0})
Attention(queries, keys, positions) ==
  [i \in DOMAIN queries |->
    [h \in DOMAIN queries[i] |->
      LET kv == ((h - 1) \div (Len(queries[i]) \div Len(keys[i]))) + 1
      IN  [of |-> queries[i][h], to |-> {keys[j][kv] : j \in Begins(positions, i) .. i}]]]

(* _ulysses_flash_attention_forward on the ranks of a group.               *)
UlyssesAttention(parts, q_heads, k_heads) ==
  LET sp == Len(parts)
      Heads(part, n) ==
        [i \in DOMAIN part |-> [h \in 1 .. n |-> [tok |-> part[i].tok, head |-> h]]]
      queries == GatherSeqScatterHeads([k \in 1 .. sp |-> Heads(parts[k], q_heads)])
      keys == GatherSeqScatterHeads([k \in 1 .. sp |->
                LET part == Heads(parts[k], k_heads)
                IN  [i \in DOMAIN part |-> RepeatedKv(part[i], sp)]])
      gathered == FlattenSeq(parts)
      positions == [i \in DOMAIN gathered |-> gathered[i].position]
  IN  GatherHeadsScatterSeq([k \in 1 .. sp |-> Attention(queries[k], keys[k], positions)])

-----------------------------------------------------------------------------
(* _forward_micro_batch: for every token of the response what its log-     *)
(* probability was computed from, and of.                                  *)

Labels(tokens) == Rolled(tokens)

ForwardMicroBatch(mb, sp, q_heads, k_heads) ==
  LET tokens == UnpadInput(mb)
      labels == Sliced(UlyssesPad(Labels(tokens), sp), sp)
      hidden == UlyssesAttention(Sliced(UlyssesPad(tokens, sp), sp), q_heads, k_heads)
      log_probs == [k \in 1 .. sp |->
                      [i \in DOMAIN labels[k] |->
                         [from |-> hidden[k][i], label |-> labels[k][i].tok]]]
      full == PadInput(mb, GatherOutputsAndUnpad(log_probs, UlyssesPadSize(Len(tokens), sp)))
  IN  [r \in DOMAIN mb |-> SubSeq(full[r], PromptLength(mb), SeqLength(mb) - 1)]

=============================================================================
