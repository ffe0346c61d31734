--------------------------- MODULE SeqlenBalancing ---------------------------
(***************************************************************************)
(* Dividing rows of different lengths into parts of nearly equal work:     *)
(* verl/utils/seqlen_balancing.py.  The driver balances the ranks with it, *)
(* each rank its micro-batches.  Rows are positions 1 .. Len(lens).        *)
(***************************************************************************)
EXTENDS Integers, Sequences, SequencesExt, FiniteSets, FiniteSetsExt

SumSeq(s) ==
  LET sum[n \in 0 .. Len(s)] == IF n = 0 THEN 0 ELSE sum[n - 1] + s[n]
  IN  sum[Len(s)]
CeilDiv(a, b) == (a + b - 1) \div b

(* sorted and list.sort: a member goes behind those it is not to precede.  *)
Inserted(s, x, Less(_, _)) ==
  InsertAt(s, Cardinality({i \in DOMAIN s : ~ Less(x, s[i])}) + 1, x)
Sorted(s, Less(_, _)) ==
  LET sorted[n \in 0 .. Len(s)] ==
        IF n = 0 THEN << >> ELSE Inserted(sorted[n - 1], s[n], Less)
  IN  sorted[Len(s)]

(* The cost of a transformer block of hidden size 4096.                    *)
Workload(len) == 24576 * len + len * len
Workloads(lens) == [i \in DOMAIN lens |-> Workload(lens[i])]

-----------------------------------------------------------------------------
(* karmarkar_karp: the largest differencing method over k sets.            *)

EmptySet == [sum |-> 0, items |-> << >>]
SetLess(a, b) ==
  \/ a.sum < b.sum
  \/ a.sum = b.sum /\ Len(a.items) < Len(b.items)
  \/ /\ a.sum = b.sum /\ Len(a.items) = Len(b.items) /\ a.items # << >>
     /\ a.items[1] < b.items[1]

(* A state holds its sets in decreasing order.                             *)
Decreasing(sets) == Sorted(sets, LAMBDA a, b : SetLess(b, a))

(* Slip: the largest set joins the largest.                                *)
Slip_Merge(s, t) ==
  Decreasing([i \in DOMAIN s |->
    [sum |-> s[i].sum + t[i].sum, items |-> s[i].items \o t[i].items]])
Merge(s, t) ==
  Decreasing([i \in DOMAIN s |->
    LET other == t[Len(t) + 1 - i]
    IN  [sum |-> s[i].sum + other.sum, items |-> s[i].items \o other.items]])

Spread(s) == s[1].sum - s[Len(s)].sum

(* The heap pops the largest spread first, then the largest first set.     *)
PopsBefore(s, t) ==
  \/ Spread(s) > Spread(t)
  \/ Spread(s) = Spread(t) /\ SetLess(t[1], s[1])
Pop(states) == CHOOSE s \in states : \A t \in states : ~ PopsBefore(t, s)

(* The two states popped first become one.                                 *)
MergeTwo(states) ==
  LET s0 == Pop(states)
      s1 == Pop(states \ {s0})
  IN  (states \ {s0, s1}) \cup {Merge(s0, s1)}

StateOf(work, rows, k) ==
  Decreasing([i \in 1 .. k |->
    IF i <= Len(rows) THEN [sum |-> work[rows[i]], items |-> << rows[i] >>] ELSE EmptySet])

(* One state per row, or per k rows next to each other in sorted order.    *)
FirstStates(work, k, equal_size) ==
  LET order == Sorted([i \in DOMAIN work |-> i], LAMBDA i, j : work[i] < work[j])
  IN IF equal_size
     THEN {StateOf(work, SubSeq(order, n * k + 1, n * k + k), k) :
             n \in 0 .. (Len(work) \div k) - 1}
     ELSE {StateOf(work, << i >>, k) : i \in DOMAIN work}

KarmarkarKarp(work, k, equal_size) ==
  LET first == FirstStates(work, k, equal_size)
      merged[n \in 0 .. Cardinality(first) - 1] ==
        IF n = 0 THEN first ELSE MergeTwo(merged[n - 1])
      final == CHOOSE s \in merged[Cardinality(first) - 1] : TRUE
  IN  [p \in 1 .. k |-> final[p].items]

(* get_seqlen_balanced_partitions: each part in ascending order.           *)
Ascending(part) == Sorted(part, LAMBDA i, j : i < j)
BalancedPartitions(work, k, equal_size) ==
  LET parts == KarmarkarKarp(work, k, equal_size)
  IN  [p \in 1 .. k |-> Ascending(parts[p])]

(* greedy_partition: each row joins the first of the smallest parts.       *)
GreedyPartition(lens, k, equal_size) ==
  LET bias == IF equal_size THEN SumSeq(lens) + 1 ELSE 0
      Load(part) == SumSeq([i \in DOMAIN part |-> lens[part[i]] + bias])
      Smallest(now) ==
        CHOOSE p \in 1 .. k : \A q \in 1 .. k :
          \/ Load(now[p]) < Load(now[q])
          \/ Load(now[p]) = Load(now[q]) /\ p <= q
      parts[i \in 0 .. Len(lens)] ==
        IF i = 0 THEN [p \in 1 .. k |-> << >>]
        ELSE [parts[i - 1] EXCEPT ![Smallest(parts[i - 1])] = Append(@, i)]
  IN  parts[Len(lens)]

(* _balance_batch: the new order of all rows, those of a rank next to each *)
(* other with the light ones at both ends.                                 *)
LightFirst(work, part) == Sorted(part, LAMBDA i, j : work[i] < work[j])
LightAtEnds(s) ==
  [i \in 1 .. CeilDiv(Len(s), 2) |-> s[2 * i - 1]]
    \o [i \in 1 .. Len(s) \div 2 |-> s[2 * (Len(s) \div 2 + 1 - i)]]
BalancedOrder(work, parts) ==
  FlattenSeq([p \in DOMAIN parts |-> LightAtEnds(LightFirst(work, parts[p]))])

-----------------------------------------------------------------------------
(* rearrange_micro_batches.                                                *)

(* What it asserts: a micro-batch has room for the longest row.            *)
LongestFits(lens, max_token_len) == \A i \in DOMAIN lens : lens[i] <= max_token_len

(* How many micro-batches a rank asks for.                                 *)
MicroBatchesWanted(lens, max_token_len) ==
  Min({Len(lens), CeilDiv(SumSeq(lens), max_token_len)})

(* Every other one backwards, then the rest: small ones at both ends.      *)
SmallAtEnds(parts) ==
  LET n == Len(parts)
      half == CeilDiv(n, 2)
  IN  [i \in 1 .. half |-> parts[2 * (half + 1 - i) - 1]]
        \o [i \in 1 .. (n - half) |-> parts[2 * i]]

PartWork(work, part) == SumSeq([i \in DOMAIN part |-> work[part[i]]])
FirstOf(part) == IF part = << >> THEN 0 ELSE part[1]
HeavyFirst(work, parts) ==
  Sorted(parts, LAMBDA p, q :
    \/ PartWork(work, p) > PartWork(work, q)
    \/ PartWork(work, p) = PartWork(work, q) /\ FirstOf(p) > FirstOf(q))

(* The rows of each micro-batch, in the order they are run.                *)
MicroBatches(lens, num) ==
  LET work == Workloads(lens)
  IN  SmallAtEnds(HeavyFirst(work, BalancedPartitions(work, num, FALSE)))

(* split: the last part is what is left.                                   *)
SplitBy(s, size) ==
  [p \in 1 .. CeilDiv(Len(s), size) |->
     SubSeq(s, (p - 1) * size + 1, Min({p * size, Len(s)}))]

(* get_reverse_idx and restore_dynamic_batch.                              *)
(* Slip: the order itself is used as its inverse.                          *)
Slip_RestoreDynamicBatch(results, idx) ==
  [i \in DOMAIN results |-> results[idx[i]]]
RestoreDynamicBatch(results, idx) ==
  LET reverse == [i \in DOMAIN idx |-> CHOOSE j \in DOMAIN idx : idx[j] = i]
  IN  [i \in DOMAIN results |-> results[reverse[i]]]

=============================================================================
