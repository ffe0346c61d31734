---------------------------- MODULE BatchProtocol ----------------------------
(***************************************************************************)
(* DataProto (verl/protocol.py) and how a worker group is called with one: *)
(* a batch holds its rows twice, as tensors and as arrays of objects, and  *)
(* each operation treats the two with a library of its own.                *)
(*                                                                         *)
(* A column is a sequence.  Batches of different lengths in the two        *)
(* columns are what check_consistency refuses.                             *)
(***************************************************************************)
EXTENDS Integers, Sequences, SequencesExt, FiniteSets, FiniteSetsExt

CeilDiv(a, b) == (a + b - 1) \div b
Raised == [raised |-> TRUE]
DataProto(tensors, objects) == [batch |-> tensors, non_tensor |-> objects]
Length(data) == Len(data.batch)

(* select_idxs, reorder and slices: both columns by the same indices.      *)
Take(s, idxs) == [i \in DOMAIN idxs |-> s[idxs[i]]]
SelectIdxs(data, idxs) == DataProto(Take(data.batch, idxs), Take(data.non_tensor, idxs))

(* np.repeat, and repeat_interleave where the numbers differ: each row is  *)
(* followed by its copies.  np.tile: the whole is followed by the whole.   *)
RepeatEach(s, times) == FlattenSeq([i \in DOMAIN s |-> [k \in 1 .. times[i] |-> s[i]]])
Tile(s, n) == FlattenSeq([k \in 1 .. n |-> s])
(* repeat_interleave by one number, and expand with reshape: a view of n   *)
(* rows for one, read from the front.                                      *)
Interleaved(s, n) == [j \in 1 .. Len(s) * n |-> s[((j - 1) \div n) + 1]]
Expanded(s, n) == [j \in 1 .. n * Len(s) |-> s[((j - 1) % Len(s)) + 1]]

(* Slip: the two ways to repeat the objects, swapped.                      *)
Slip_Repeat(data, n, interleave) ==
  DataProto(IF interleave THEN Interleaved(data.batch, n) ELSE Expanded(data.batch, n),
            IF interleave THEN Tile(data.non_tensor, n)
                          ELSE RepeatEach(data.non_tensor, [i \in DOMAIN data.non_tensor |-> n]))
(* repeat and sample_level_repeat.                                         *)
Repeat(data, n, interleave) ==
  DataProto(IF interleave THEN Interleaved(data.batch, n) ELSE Expanded(data.batch, n),
            IF interleave THEN RepeatEach(data.non_tensor, [i \in DOMAIN data.non_tensor |-> n])
                          ELSE Tile(data.non_tensor, n))
SampleLevelRepeat(data, times) ==
  DataProto(RepeatEach(data.batch, times), RepeatEach(data.non_tensor, times))

Concat(parts) ==
  DataProto(FlattenSeq([p \in DOMAIN parts |-> parts[p].batch]),
            FlattenSeq([p \in DOMAIN parts |-> parts[p].non_tensor]))

(* pad_dataproto_to_divisor takes rows from the front, padding repeats the *)
(* last.                                                                   *)
PadSizeTo(n, divisor) == IF n % divisor = 0 THEN 0 ELSE divisor - (n % divisor)
PadToDivisor(data, divisor) ==
  LET n == Length(data)
  IN  Concat(<< data, SelectIdxs(data, [i \in 1 .. PadSizeTo(n, divisor) |-> ((i - 1) % n) + 1]) >>)
PadWithLast(data, size) ==
  Concat(<< data, SelectIdxs(data, [i \in 1 .. size |-> Length(data)]) >>)
Unpad(data, pad_size) == SelectIdxs(data, [i \in 1 .. Length(data) - pad_size |-> i])

Split(data, size) ==
  [p \in 1 .. CeilDiv(Length(data), size) |->
     SelectIdxs(data, [i \in 1 .. Min({size, Length(data) - (p - 1) * size}) |->
                         (p - 1) * size + i])]

-----------------------------------------------------------------------------
(* chunk.                                                                  *)

(* torch.chunk cuts pieces of equal size until nothing is left, which may  *)
(* be fewer than asked for.                                                *)
TorchPieces(n, chunks) ==
  LET size == CeilDiv(n, chunks)
  IN  [p \in 1 .. CeilDiv(n, size) |-> Min({size, n - (p - 1) * size})]
CutAt(s, sizes) ==
  LET Before(p) == SumFunctionOnSet(sizes, 1 .. p - 1)
  IN  [p \in DOMAIN sizes |-> SubSeq(s, Before(p) + 1, Before(p) + sizes[p])]

(* np.array_split at places: up to the first, between two, and the rest.   *)
ArraySplit(s, places) ==
  [p \in 1 .. Len(places) + 1 |->
     SubSeq(s, IF p = 1 THEN 1 ELSE places[p - 1] + 1,
               IF p = Len(places) + 1 THEN Len(s) ELSE places[p])]

(* Unequal chunks are for batches with padding enabled; the objects are    *)
(* split where the tensors were, at the running totals of their pieces,    *)
(* and fewer pieces than chunks fail the assertion on them.                *)
ChunkRaises(data, chunks, padding_enabled) ==
  \/ ~ padding_enabled /\ Length(data) % chunks # 0
  \/ Len(TorchPieces(Length(data), chunks)) # chunks
ChunkIndices(sizes) == [p \in 1 .. Len(sizes) - 1 |-> SumFunctionOnSet(sizes, 1 .. p)]
Chunk(data, chunks) ==
  LET sizes   == TorchPieces(Length(data), chunks)
      tensors == CutAt(data.batch, sizes)
      objects == ArraySplit(data.non_tensor, ChunkIndices(sizes))
  IN  [p \in 1 .. chunks |-> DataProto(tensors[p], objects[p])]

-----------------------------------------------------------------------------
(* Calling a worker group.                                                 *)

(* What the ranks make of their shares: one tensor row for each row they   *)
(* were sent, read off their own objects.                                  *)
Answer(part) == DataProto([i \in DOMAIN part.batch |-> part.non_tensor[i]], part.non_tensor)

(* nd dispatch: every rank gets the chunk of its data parallel rank, and   *)
(* the outputs of the ranks that the mask names are kept in rank order.    *)
DispatchNd(mesh, parts) == [r \in DOMAIN mesh.dp_rank |-> parts[mesh.dp_rank[r]]]
CollectNd(mesh, outputs) ==
  Concat(FlattenSeq([r \in DOMAIN outputs |->
    IF mesh.collect[r] THEN << outputs[r] >> ELSE << >>]))

CallNd(mesh, data, padding_enabled) ==
  IF ChunkRaises(data, mesh.dp_size, padding_enabled) THEN Raised
  ELSE LET shares == DispatchNd(mesh, Chunk(data, mesh.dp_size))
       IN  CollectNd(mesh, [r \in DOMAIN shares |-> Answer(shares[r])])

(* The same call with the shares left to the ranks to fetch: each of them  *)
(* concatenates what another call put out and takes its own chunk.         *)
CallFuture(mesh, outputs) ==
  IF ChunkRaises(Concat(outputs), mesh.dp_size, FALSE) THEN Raised
  ELSE CollectNd(mesh, [r \in DOMAIN mesh.dp_rank |->
         Answer(Chunk(Concat(outputs), mesh.dp_size)[mesh.dp_rank[r]])])

(* DP_COMPUTE_PROTO: padding, if enabled, is put on the caller's own batch *)
(* and comes off the answer.                                               *)
DpPadding(data, world, padding_enabled) ==
  IF padding_enabled THEN PadSizeTo(Length(data), world) ELSE 0
CallDp(data, world, padding_enabled) ==
  LET size   == DpPadding(data, world, padding_enabled)
      padded == PadWithLast(data, size)
  IN  IF ChunkRaises(padded, world, padding_enabled) THEN Raised
      ELSE Unpad(Concat([r \in 1 .. world |-> Answer(Chunk(padded, world)[r])]), size)

=============================================================================
