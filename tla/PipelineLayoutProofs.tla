------------------------ MODULE PipelineLayoutProofs ------------------------
(***************************************************************************)
(* Proofs about PipelineLayout.                                            *)
(*                                                                         *)
(* LayoutTypes is the type invariant.  LayerInv says that VNode i has the  *)
(* layers between the sums of the layers of the first i - 1 and the first  *)
(* i entries, however often it was replaced; DisjointInv that accepted     *)
(* VNodes share no GPU, and how the loop keeps them apart; PlaceInv where  *)
(* the VNodes are when each node had one; RankInv that ranks and bundles   *)
(* are computed from the VNodes that serve.  What the loops compute for    *)
(* lists of any length is shown by a least number for which it fails.      *)
(***************************************************************************)
EXTENDS PipelineLayout, TLAPS, FiniteSetTheorems, SequenceTheorems, WellFoundedInduction

-----------------------------------------------------------------------------
(* Operators.                                                              *)

\* A nonempty set of numbers has a least one.
LEMMA LeastNumber ==
  ASSUME NEW S \in SUBSET Nat, S # {}
  PROVE  \E i \in S : \A j \in S : i <= j
<1> DEFINE R == {ss \in Nat \X Nat : ss[1] < ss[2]}
<1>1. IsWellFoundedOn(R, Nat)
  BY NatLessThanWellFounded, Zenon DEF OpToRel
<1>2. \A x, y \in Nat : y < x => <<y, x>> \in R
  OBVIOUS
<1> HIDE DEF R
<1>3. PICK x \in S : \A y \in S : ~ (<<y, x>> \in R)
  BY <1>1, WFMin
<1>4. \A y \in S : ~ (y < x)
  BY <1>2, <1>3, Zenon
<1> QED BY <1>4

\* The layers of an entry.
LEMMA EntryLayers ==
  ASSUME NEW m \in Seq(Entry), LayoutAssumption
  PROVE  /\ Len(m) \in Nat
         /\ \A k \in 1 .. Len(m) : m[k] \in Entry /\ m[k].layers \in Nat /\ m[k].layers > 0
<1>1. Len(m) \in Nat /\ \A k \in 1 .. Len(m) : m[k] \in Entry
  BY LenProperties, ElementOfSeq
<1>2. \A e \in Entry : e.layers \in LayerCounts
  BY DEF Entry
<1>3. \A l \in LayerCounts : l \in Nat /\ l > 0
  BY DEF LayoutAssumption
<1> QED BY <1>1, <1>2, <1>3

\* What the recursive definition of PrefixSums defines.
SumOf(g, list, n) ==
  /\ g \in [0 .. n -> Nat]
  /\ g[0] = 0
  /\ \A k \in 1 .. n : g[k] = g[k - 1] + list[k]

\* The sums exist: a sum of n numbers is extended to n + 1 numbers.
LEMMA SumsExist ==
  ASSUME NEW list \in Seq(Nat)
  PROVE  \E g : SumOf(g, list, Len(list))
<1> DEFINE S == {n \in 0 .. Len(list) : ~ \E g : SumOf(g, list, n)}
<1>1. SUFFICES ASSUME S # {} PROVE FALSE
  BY LenProperties
<1>2. S \in SUBSET Nat
  OBVIOUS
<1>3. PICK n \in S : \A j \in S : n <= j
  <2> HIDE DEF S
  <2> QED BY <1>1, <1>2, LeastNumber
<1>4. n \in 0 .. Len(list) /\ Len(list) \in Nat
  BY LenProperties
<1>5. n # 0
  <2>1. SumOf([k \in 0 .. 0 |-> 0], list, 0)
    BY DEF SumOf
  <2> QED BY <2>1
<1>6. n - 1 \in 0 .. Len(list) /\ n - 1 \notin S
  <2>1. n - 1 \in 0 .. Len(list) /\ ~ (n <= n - 1)
    BY <1>4, <1>5
  <2> HIDE DEF S
  <2> QED BY <1>3, <2>1
<1>7. PICK g : SumOf(g, list, n - 1)
  BY <1>6
<1>8. \A k \in 1 .. n : list[k] \in Nat
  BY <1>4, ElementOfSeq
<1> DEFINE h == [k \in 0 .. n |-> IF k < n THEN g[k] ELSE g[n - 1] + list[n]]
<1>9. SumOf(h, list, n)
  <2>1. g \in [0 .. n - 1 -> Nat] /\ g[0] = 0
    BY <1>7 DEF SumOf
  <2>2. \A k \in 1 .. n - 1 : g[k] = g[k - 1] + list[k]
    BY <1>7 DEF SumOf
  <2>3. \A k \in 0 .. n : h[k] = IF k < n THEN g[k] ELSE g[n - 1] + list[n]
    OBVIOUS
  <2>4. h \in [0 .. n -> Nat]
    BY <1>4, <1>5, <1>8, <2>1
  <2>5. h[0] = 0
    BY <1>4, <1>5, <2>1, <2>3
  <2>6. \A k \in 1 .. n : h[k] = h[k - 1] + list[k]
    <3> HIDE DEF h
    <3> TAKE k \in 1 .. n
    <3>1. k - 1 \in 0 .. n /\ k - 1 < n /\ h[k - 1] = g[k - 1]
      BY <1>4, <2>3
    <3>2. CASE k < n
      BY <1>4, <2>2, <2>3, <3>1, <3>2
    <3>3. CASE k = n
      BY <1>4, <2>3, <3>1, <3>3
    <3> QED BY <1>4, <3>2, <3>3
  <2> QED BY <2>4, <2>5, <2>6 DEF SumOf
<1> QED BY <1>9

\* PrefixSums is such a sum.
LEMMA PrefixSumsIsSum ==
  ASSUME NEW list \in Seq(Nat)
  PROVE  SumOf(PrefixSums(list), list, Len(list))
<1>1. PICK g : SumOf(g, list, Len(list))
  BY SumsExist
<1> DEFINE Body(f) == [k \in 0 .. Len(list) |-> IF k = 0 THEN 0 ELSE f[k - 1] + list[k]]
<1>2. g = Body(g)
  BY <1>1, LenProperties DEF SumOf
<1>3. PrefixSums(list) = CHOOSE f : f = Body(f)
  BY Zenon DEF PrefixSums
<1>4. PrefixSums(list) = Body(PrefixSums(list))
  <2> HIDE DEF Body
  <2> QED BY <1>2, <1>3, Zenon
<1> DEFINE a == PrefixSums(list)
<1> HIDE DEF a
<1>5. a = [k \in 0 .. Len(list) |-> IF k = 0 THEN 0 ELSE a[k - 1] + list[k]]
  BY <1>4 DEF a
<1>6. Len(list) \in Nat /\ \A k \in 1 .. Len(list) : list[k] \in Nat
  BY LenProperties, ElementOfSeq
<1>7. a[0] = 0 /\ \A k \in 1 .. Len(list) : a[k] = a[k - 1] + list[k]
  BY <1>5, <1>6
<1>8. \A k \in 0 .. Len(list) : a[k] \in Nat
  <2> DEFINE S == {k \in 0 .. Len(list) : a[k] \notin Nat}
  <2>1. SUFFICES ASSUME S # {} PROVE FALSE
    OBVIOUS
  <2>2. S \in SUBSET Nat
    BY <1>6
  <2>3. PICK k \in S : \A j \in S : k <= j
    <3> HIDE DEF S
    <3> QED BY <2>1, <2>2, LeastNumber
  <2>4. k # 0
    BY <1>7
  <2>5. k - 1 \notin S /\ k - 1 \in 0 .. Len(list)
    BY <1>6, <2>3, <2>4
  <2> QED BY <1>6, <1>7, <2>4, <2>5
<1> QED BY <1>5, <1>7, <1>8 DEF SumOf, a

\* Sums of positive numbers grow.
LEMMA SumsGrow ==
  ASSUME NEW n \in Nat, NEW list, \A k \in 1 .. n : list[k] \in Nat /\ list[k] > 0,
         NEW a, SumOf(a, list, n), NEW i \in 0 .. n, NEW j \in 0 .. n, i < j
  PROVE  a[i] < a[j]
<1>1. /\ a \in [0 .. n -> Nat]
      /\ \A k \in 1 .. n : a[k] = a[k - 1] + list[k]
  BY DEF SumOf
<1>3. \A k \in 1 .. n : a[k - 1] \in Nat /\ a[k] \in Nat /\ a[k - 1] < a[k]
  <2> TAKE k \in 1 .. n
  <2>1. k \in 0 .. n /\ k - 1 \in 0 .. n
    OBVIOUS
  <2>2. a[k] \in Nat /\ a[k - 1] \in Nat
    BY <1>1, <2>1
  <2>3. a[k] = a[k - 1] + list[k] /\ list[k] \in Nat /\ list[k] > 0
    BY <1>1
  <2> QED BY <2>2, <2>3
<1> DEFINE S == {k \in 0 .. n : i < k /\ ~ (a[i] < a[k])}
<1>4. SUFFICES ASSUME S # {} PROVE FALSE
  OBVIOUS
<1>5. S \in SUBSET Nat
  OBVIOUS
<1>6. PICK k \in S : \A l \in S : k <= l
  <2> HIDE DEF S
  <2> QED BY <1>4, <1>5, LeastNumber
<1>7. k - 1 \notin S /\ k \in 1 .. n /\ k - 1 \in 0 .. n /\ i < k /\ ~ (a[i] < a[k])
  BY <1>6
<1>8. CASE i = k - 1
  BY <1>3, <1>7, <1>8
<1>9. CASE i < k - 1
  <2>1. a[i] < a[k - 1]
    BY <1>7, <1>9
  <2> QED BY <1>1, <1>3, <1>7, <2>1
<1> QED BY <1>7, <1>8, <1>9

\* The numbers of layers of the entries.
LayersOf(m) == [k \in DOMAIN m |-> m[k].layers]

LEMMA LayersAreNumbers ==
  ASSUME NEW m \in Seq(Entry), LayoutAssumption
  PROVE  /\ LayersOf(m) \in Seq(Nat) /\ Len(LayersOf(m)) = Len(m)
         /\ \A k \in 1 .. Len(m) : LayersOf(m)[k] = m[k].layers
<1>1. Len(m) \in Nat /\ DOMAIN m = 1 .. Len(m) /\ \A k \in 1 .. Len(m) : m[k].layers \in Nat
  BY EntryLayers, LenProperties
<1>2. LayersOf(m) \in [1 .. Len(m) -> Nat]
  BY <1>1 DEF LayersOf
<1>3. LayersOf(m) \in Seq(Nat) /\ Len(LayersOf(m)) = Len(m)
  BY <1>1, <1>2, SeqDef
<1> QED BY <1>1, <1>3 DEF LayersOf

\* AssignedLayers adds the layers up.
LEMMA AssignedLayersIsSum ==
  ASSUME NEW m \in Seq(Entry), LayoutAssumption
  PROVE  /\ SumOf(AssignedLayers(m), LayersOf(m), Len(m))
         /\ \A k \in 1 .. Len(m) : AssignedLayers(m)[k] = AssignedLayers(m)[k - 1] + m[k].layers
<1>1. AssignedLayers(m) = PrefixSums(LayersOf(m))
  BY DEF AssignedLayers, LayersOf
<1>2. SumOf(AssignedLayers(m), LayersOf(m), Len(m))
  BY <1>1, LayersAreNumbers, PrefixSumsIsSum
<1>3. \A k \in 1 .. Len(m) : AssignedLayers(m)[k] = AssignedLayers(m)[k - 1] + LayersOf(m)[k]
  BY <1>2 DEF SumOf
<1> QED BY <1>2, <1>3, LayersAreNumbers

\* The layers grow with every entry.
LEMMA AssignedLayersGrow ==
  ASSUME NEW m \in Seq(Entry), LayoutAssumption,
         NEW i \in 0 .. Len(m), NEW j \in 0 .. Len(m), i < j
  PROVE  AssignedLayers(m)[i] < AssignedLayers(m)[j]
<1>1. Len(m) \in Nat /\ \A k \in 1 .. Len(m) : LayersOf(m)[k] \in Nat /\ LayersOf(m)[k] > 0
  BY EntryLayers, LayersAreNumbers
<1> QED BY <1>1, AssignedLayersIsSum, SumsGrow

\* A product of natural numbers is one.
LEMMA Products == \A a, b \in Nat : a * b \in Nat
  OBVIOUS

\* Shards of one size do not overlap.
LEMMA NextShard ==
  ASSUME NEW r \in Nat, NEW s \in Nat, r < s, NEW size \in Nat
  PROVE  r * size + size <= s * size
<1>1. (s - r - 1) * size \in Nat
  BY Products
<1>2. (s - r - 1) * size = s * size - r * size - size
  OBVIOUS
<1>3. s * size \in Nat /\ r * size \in Nat
  BY Products
<1> QED BY <1>1, <1>2, <1>3

\* The shards of the given size that hold index i.
ShardsOf(tp, size, i) == {s \in 0 .. tp - 1 : s * size <= i /\ i < s * size + size}

\* An index below tp * size is in exactly one of tp shards of that size.
LEMMA OneShard ==
  ASSUME NEW tp \in Nat \ {0}, NEW size \in Nat, NEW i \in Nat, i < tp * size
  PROVE  \E r \in 0 .. tp - 1 : ShardsOf(tp, size, i) = {r}
<1> DEFINE S == {r \in 0 .. tp - 1 : i < r * size + size}
<1>1. tp - 1 \in S
  BY Products
<1>2. S \in SUBSET Nat /\ S # {}
  <2>1. \A r \in S : r \in Nat
    OBVIOUS
  <2> HIDE DEF S
  <2> QED BY <1>1, <2>1
<1>3. PICK r \in S : \A s \in S : r <= s
  <2> HIDE DEF S
  <2> QED BY <1>2, LeastNumber
<1>4. r \in 0 .. tp - 1 /\ i < r * size + size
  OBVIOUS
<1>5. r * size <= i
  <2>1. CASE r = 0
    BY <2>1
  <2>2. CASE r # 0
    <3>1. r - 1 \in 0 .. tp - 1 /\ r - 1 \notin S
      BY <1>3, <1>4, <2>2
    <3>2. ~ (i < (r - 1) * size + size)
      BY <3>1
    <3>3. (r - 1) * size + size = r * size
      BY <1>4
    <3>4. r * size \in Nat
      BY <1>4, Products
    <3> QED BY <3>2, <3>3, <3>4
  <2> QED BY <2>1, <2>2
<1>6. ASSUME NEW s \in 0 .. tp - 1, s * size <= i, i < s * size + size
      PROVE  s = r
  <2>1. r * size \in Nat /\ s * size \in Nat
    BY <1>4, Products
  <2>2. CASE r < s
    BY <1>4, <1>6, <2>1, <2>2, NextShard
  <2>3. CASE s < r
    BY <1>4, <1>5, <1>6, <2>1, <2>3, NextShard
  <2> QED BY <1>4, <2>2, <2>3
<1> QED BY <1>4, <1>5, <1>6 DEF ShardsOf

\* Division with remainder.
LEMMA Division ==
  ASSUME NEW x \in Nat, NEW p \in Nat \ {0}
  PROVE  /\ x \div p \in Nat
         /\ x % p \in 0 .. p - 1
         /\ x = (x \div p) * p + (x % p)
  OBVIOUS

\* Padding never makes the vocabulary smaller.
LEMMA PaddedIsEnough ==
  ASSUME NEW x \in Nat, NEW p \in Nat \ {0}
  PROVE  VocabPadded(x, p) \in Nat /\ x <= VocabPadded(x, p)
<1> DEFINE y == x + p - 1
<1>1. y \in Nat
  OBVIOUS
<1> HIDE DEF y
<1>2. y \div p \in Nat /\ y = (y \div p) * p + (y % p) /\ y % p \in 0 .. p - 1
  BY <1>1, Division
<1> DEFINE q == (y \div p) * p
<1>3. q \in Nat /\ q + (y % p) = y
  BY <1>2, Products
<1>4. VocabPadded(x, p) = q
  BY DEF VocabPadded, y
<1> HIDE DEF q
<1> QED BY <1>2, <1>3, <1>4 DEF y

\* The ranks whose shard of a tensor holds index i.
Holders(kind, size, tp, i) ==
  {r \in 0 .. tp - 1 : In(i, partition_tensor_for_tp(kind, size, VOCAB_PADDING_SIZE, tp, r))}

\* A dimension that tp divides is cut into shards of one size.
LEMMA DividedOnce ==
  ASSUME NEW kind \in DividedKinds, NEW size \in Nat, NEW tp \in Nat \ {0}, size % tp = 0,
         NEW i \in 0 .. size - 1
  PROVE  \E r \in 0 .. tp - 1 : Holders(kind, size, tp, i) = {r}
<1> DEFINE per == size \div tp
<1>1. per \in Nat /\ size = tp * per
  BY Division
<1>2. kind \notin VocabKinds
  BY DEF DividedKinds, VocabKinds
<1> HIDE DEF per
<1>3. \A r \in 0 .. tp - 1 :
        partition_tensor_for_tp(kind, size, VOCAB_PADDING_SIZE, tp, r)
          = [from |-> r * per, to |-> r * per + per]
  BY <1>2 DEF partition_tensor_for_tp, get_tensor_idx_range, Range0, per
<1>4. Holders(kind, size, tp, i) = ShardsOf(tp, per, i)
  BY <1>3 DEF Holders, In, ShardsOf
<1>5. i \in Nat /\ i < tp * per
  <2>1. i \in Nat /\ i < size
    OBVIOUS
  <2> QED BY <1>1, <2>1
<1>6. \E r \in 0 .. tp - 1 : ShardsOf(tp, per, i) = {r}
  BY <1>1, <1>5, OneShard
<1> QED BY <1>4, <1>6

\* So is the padded vocabulary; the last shards end where it ends.
LEMMA VocabOnce ==
  ASSUME NEW kind \in VocabKinds, NEW size \in Nat, NEW tp \in Nat \ {0},
         VOCAB_PADDING_SIZE \in Nat \ {0}, VocabDivides(size, VOCAB_PADDING_SIZE, tp),
         NEW i \in 0 .. size - 1
  PROVE  \E r \in 0 .. tp - 1 : Holders(kind, size, tp, i) = {r}
<1> DEFINE padded == VocabPadded(size, VOCAB_PADDING_SIZE)
           per == padded \div tp
<1>1. padded \in Nat /\ size <= padded
  BY PaddedIsEnough
<1>2. padded % tp = 0
  BY DEF VocabDivides
<1> HIDE DEF padded
<1>3. per \in Nat /\ padded = tp * per
  <2>1. padded \div tp \in Nat /\ padded = (padded \div tp) * tp + (padded % tp)
    BY <1>1, Division
  <2> QED BY <1>1, <1>2, <2>1
<1> HIDE DEF per
<1>4. \A r \in 0 .. tp - 1 :
        partition_tensor_for_tp(kind, size, VOCAB_PADDING_SIZE, tp, r)
          = [from |-> Least(r * per, size), to |-> Least(r * per + per, size)]
  BY DEF partition_tensor_for_tp, get_range_vocabulary_embedding_tensor, Range0, per, padded
<1>5. \A r \in 0 .. tp - 1 : r * per \in Nat
  BY <1>3, Products
<1>6. \A r \in 0 .. tp - 1 :
        /\ Least(r * per, size) <= i <=> r * per <= i
        /\ i < Least(r * per + per, size) <=> i < r * per + per
  BY <1>3, <1>5 DEF Least
<1>7. Holders(kind, size, tp, i) = ShardsOf(tp, per, i)
  BY <1>4, <1>6 DEF Holders, In, ShardsOf
<1>8. i \in Nat /\ i < tp * per
  <2>1. i \in Nat /\ i < padded
    BY <1>1
  <2> QED BY <1>3, <2>1
<1>9. \E r \in 0 .. tp - 1 : ShardsOf(tp, per, i) = {r}
  BY <1>3, <1>8, OneShard
<1> QED BY <1>7, <1>9

\* A copied tensor is whole on every rank.
LEMMA CopiedEverywhere ==
  ASSUME NEW kind \in CopiedKinds, NEW size \in Nat, NEW tp \in Nat \ {0},
         NEW i \in 0 .. size - 1
  PROVE  Holders(kind, size, tp, i) = 0 .. tp - 1
<1>1. kind \notin VocabKinds /\ kind \notin DividedKinds
  BY DEF CopiedKinds, VocabKinds, DividedKinds
<1> QED BY <1>1 DEF Holders, In, partition_tensor_for_tp, Range0
-----------------------------------------------------------------------------
(* The steps.                                                              *)

Sizes == TpSizes \cup {gpus[n] : n \in Nodes}
VNode == [node_ip : Nodes, tp_size : Sizes, start_local_rank : Nat,
          layer_start_id : Nat, layer_end_id : Nat]

\* The phases after the VNodes were accepted.
Accepted == {"rank", "bundle", "ready", "raised"}

\* The types of the variables, and how many VNodes there are in each phase.
LayoutTypes ==
  /\ node_layer_mapping \in Seq(Entry) /\ Len(node_layer_mapping) > 0
  /\ parallel_strategy \in Seq(TpSizes)
  /\ Len(parallel_strategy) = Len(node_layer_mapping)
  /\ phase \in {"check", "create", "rejected"} \cup Accepted
  /\ vnodes \in Seq(VNode) /\ Len(vnodes) <= Len(node_layer_mapping)
  /\ start_layer_idx \in Nat
  /\ start_local_ranks \in [Nodes -> Nat]
  /\ phase = "check" => vnodes = <<>>
  /\ phase \in Accepted => Len(vnodes) = Len(node_layer_mapping)

\* A step that changes neither the VNodes nor the locals of the loop.
PhaseStep ==
  /\ UNCHANGED <<node_layer_mapping, parallel_strategy, vnodes, start_layer_idx,
                 start_local_ranks, left, reused>>
  /\ \/ phase' = phase
     \/ /\ phase = "check"
        /\ phase' = IF total_assigned_layers = total_num_layers THEN "create" ELSE "rejected"
     \/ /\ phase = "create" /\ Len(vnodes) = Len(node_layer_mapping)
        /\ phase' = IF \E i, j \in DOMAIN vnodes : i # j /\ Conflict(vnodes[i], vnodes[j])
                    THEN "rejected" ELSE "rank"
     \/ phase \in {"rank", "bundle"} /\ phase' \in {"bundle", "ready", "raised"}

\* The steps of the specification.
LEMMA Steps ==
  ASSUME [Next]_vars
  PROVE  PhaseStep \/ CreateVNode \/ \E pairs \in SwitchPairs : switch_nodes(pairs)
<1>1. CASE CheckLayers
  BY <1>1, Zenon DEF CheckLayers, PhaseStep, inputs
<1>2. CASE validate_gpu_allocation
  BY <1>2, Zenon DEF validate_gpu_allocation, PhaseStep, inputs
<1>3. CASE generate_node_rank_mapping
  BY <1>3 DEF generate_node_rank_mapping, PhaseStep, inputs
<1>4. CASE create_placement_group_and_bundle_indices
  <2>1. /\ phase = "bundle" /\ phase' \in {"ready", "raised"}
        /\ UNCHANGED <<inputs, vnodes, start_layer_idx, start_local_ranks, left, reused>>
    BY <1>4 DEF create_placement_group_and_bundle_indices
  <2> QED BY <2>1 DEF PhaseStep, inputs
<1>5. CASE UNCHANGED vars
  BY <1>5 DEF vars, inputs, PhaseStep
<1>6. CASE Done
  BY <1>6 DEF Done, vars, inputs, PhaseStep
<1> QED BY <1>1, <1>2, <1>3, <1>4, <1>5, <1>6 DEF Next

\* What the loop appends.
LEMMA NextVNodeType ==
  ASSUME LayoutAssumption, LayoutTypes, Len(vnodes) < Len(node_layer_mapping)
  PROVE  /\ NextVNode \in VNode
         /\ node_layer_mapping[Len(vnodes) + 1] \in Entry
         /\ Len(vnodes) + 1 \in 1 .. Len(node_layer_mapping)
         /\ NextVNode.node_ip = node_layer_mapping[Len(vnodes) + 1].node_ip
         /\ NextVNode.tp_size \in Nat \ {0}
         /\ NextVNode.start_local_rank =
              IF node_layer_mapping[Len(vnodes) + 1].start = NoStart
              THEN start_local_ranks[NextVNode.node_ip]
              ELSE node_layer_mapping[Len(vnodes) + 1].start
         /\ NextVNode.layer_start_id = start_layer_idx
         /\ NextVNode.layer_end_id = start_layer_idx + node_layer_mapping[Len(vnodes) + 1].layers
<1> DEFINE k == Len(vnodes) + 1
           e == node_layer_mapping[k]
<1>1. Len(vnodes) \in Nat /\ Len(node_layer_mapping) \in Nat
  BY LenProperties DEF LayoutTypes
<1>2. k \in 1 .. Len(node_layer_mapping)
  BY <1>1
<1>3. e \in Entry /\ e.layers \in Nat
  BY <1>2, EntryLayers DEF LayoutTypes
<1>4. parallel_strategy[k] \in TpSizes
  BY <1>2, ElementOfSeq DEF LayoutTypes
<1>5. e.node_ip \in Nodes /\ (e.start = NoStart \/ e.start \in Nat)
  BY <1>3 DEF Entry, LayoutAssumption
<1>6. start_local_ranks[e.node_ip] \in Nat /\ start_layer_idx \in Nat
  BY <1>5 DEF LayoutTypes
<1>7. parallel_strategy[k] \in Nat \ {0}
  BY <1>4 DEF LayoutAssumption
<1>8. NextVNode = [node_ip |-> e.node_ip, tp_size |-> parallel_strategy[k],
                   start_local_rank |-> IF e.start = NoStart THEN start_local_ranks[e.node_ip]
                                                            ELSE e.start,
                   layer_start_id |-> start_layer_idx,
                   layer_end_id |-> start_layer_idx + e.layers]
  BY DEF NextVNode
<1> HIDE DEF k, e
<1>9. NextVNode \in VNode
  BY <1>3, <1>4, <1>5, <1>6, <1>8 DEF VNode, Sizes
<1>10. /\ NextVNode.node_ip = e.node_ip
       /\ NextVNode.tp_size = parallel_strategy[k]
       /\ NextVNode.start_local_rank = IF e.start = NoStart THEN start_local_ranks[e.node_ip]
                                                            ELSE e.start
       /\ NextVNode.layer_start_id = start_layer_idx
       /\ NextVNode.layer_end_id = start_layer_idx + e.layers
  BY <1>8
<1> QED BY <1>2, <1>3, <1>7, <1>9, <1>10 DEF k, e

\* One pass of the loop keeps the VNodes it made.
LEMMA LoopAppends ==
  ASSUME LayoutAssumption, LayoutTypes, CreateVNode
  PROVE  /\ phase = "create" /\ Len(vnodes) < Len(node_layer_mapping)
         /\ UNCHANGED <<node_layer_mapping, parallel_strategy, phase, left, reused>>
         /\ Len(vnodes) \in Nat /\ Len(node_layer_mapping) \in Nat
         /\ vnodes' \in Seq(VNode) /\ Len(vnodes') = Len(vnodes) + 1
         /\ DOMAIN vnodes = 1 .. Len(vnodes) /\ DOMAIN vnodes' = 1 .. Len(vnodes) + 1
         /\ \A i \in DOMAIN vnodes : vnodes'[i] = vnodes[i] /\ vnodes[i] \in VNode
         /\ vnodes'[Len(vnodes) + 1] = NextVNode
         /\ start_layer_idx' = NextVNode.layer_end_id
         /\ start_local_ranks' = [start_local_ranks EXCEPT
              ![NextVNode.node_ip] = NextVNode.start_local_rank + NextVNode.tp_size]
<1>1. /\ phase = "create" /\ Len(vnodes) < Len(node_layer_mapping)
      /\ UNCHANGED <<node_layer_mapping, parallel_strategy, phase, left, reused>>
      /\ vnodes' = Append(vnodes, NextVNode)
      /\ start_layer_idx' = NextVNode.layer_end_id
      /\ start_local_ranks' = [start_local_ranks EXCEPT
            ![NextVNode.node_ip] = NextVNode.start_local_rank + NextVNode.tp_size]
  BY DEF CreateVNode, inputs
<1>2. vnodes \in Seq(VNode) /\ node_layer_mapping \in Seq(Entry)
  BY DEF LayoutTypes
<1>3. NextVNode \in VNode
  BY <1>1, NextVNodeType
<1>4. /\ vnodes' \in Seq(VNode) /\ Len(vnodes') = Len(vnodes) + 1
      /\ \A i \in 1 .. Len(vnodes) : vnodes'[i] = vnodes[i]
      /\ vnodes'[Len(vnodes) + 1] = NextVNode
  BY <1>1, <1>2, <1>3, AppendProperties
<1>5. /\ Len(vnodes) \in Nat /\ Len(node_layer_mapping) \in Nat
      /\ DOMAIN vnodes = 1 .. Len(vnodes) /\ DOMAIN vnodes' = 1 .. Len(vnodes')
  BY <1>2, <1>4, LenProperties
<1>6. \A i \in DOMAIN vnodes : vnodes[i] \in VNode
  BY <1>2, <1>5, ElementOfSeq
<1> QED BY <1>1, <1>4, <1>5, <1>6

\* VNode i is replaced by a switch of these pairs.
Moved(pairs, i) == vnodes[i].node_ip \in DOMAIN pairs /\ TargetIndex(vnodes[i].node_ip) = i

\* What a switch does to the VNodes, one by one.
LEMMA SwitchMoves ==
  ASSUME LayoutAssumption, LayoutTypes, NEW pairs \in SwitchPairs, switch_nodes(pairs)
  PROVE  /\ phase = "ready" /\ phase' = "rank" /\ left' = DOMAIN pairs
         /\ ~ reused' => ~ reused /\ FreshNodes(pairs)
         /\ UNCHANGED <<node_layer_mapping, parallel_strategy, start_layer_idx, start_local_ranks>>
         /\ vnodes' \in Seq(VNode) /\ Len(vnodes') = Len(vnodes)
         /\ DOMAIN vnodes = 1 .. Len(vnodes) /\ DOMAIN vnodes' = DOMAIN vnodes
         /\ DOMAIN pairs \subseteq PipelineIps
         /\ \A i \in DOMAIN vnodes :
              /\ ~ Moved(pairs, i) => vnodes'[i] = vnodes[i]
              /\ Moved(pairs, i) =>
                   /\ vnodes'[i].node_ip = pairs[vnodes[i].node_ip]
                   /\ vnodes'[i].tp_size = gpus[vnodes'[i].node_ip]
              /\ vnodes'[i].start_local_rank = vnodes[i].start_local_rank
              /\ vnodes'[i].layer_start_id = vnodes[i].layer_start_id
              /\ vnodes'[i].layer_end_id = vnodes[i].layer_end_id
<1>1. PICK S \in SUBSET PipelineIps : pairs \in [S -> Nodes]
  BY DEF SwitchPairs
<1>2. DOMAIN pairs = S
  BY <1>1
<1>3. /\ phase = "ready" /\ phase' = "rank" /\ left' = DOMAIN pairs
      /\ ~ reused' => ~ reused /\ FreshNodes(pairs)
      /\ UNCHANGED <<node_layer_mapping, parallel_strategy, start_layer_idx, start_local_ranks>>
  BY DEF switch_nodes, Replace, inputs
<1>4. vnodes' = [i \in DOMAIN vnodes |->
                   IF Moved(pairs, i)
                   THEN [vnodes[i] EXCEPT !.node_ip = pairs[vnodes[i].node_ip],
                                          !.tp_size = gpus[pairs[vnodes[i].node_ip]]]
                   ELSE vnodes[i]]
  BY Zenon DEF switch_nodes, Replace, Moved
<1>5. /\ DOMAIN vnodes = 1 .. Len(vnodes) /\ Len(vnodes) \in Nat
      /\ \A i \in DOMAIN vnodes : vnodes[i] \in VNode
  BY LenProperties, ElementOfSeq DEF LayoutTypes
<1>6. \A i \in DOMAIN vnodes : Moved(pairs, i) =>
        /\ vnodes[i].node_ip \in S
        /\ pairs[vnodes[i].node_ip] \in Nodes
        /\ gpus[pairs[vnodes[i].node_ip]] \in Sizes
  BY <1>1, <1>2 DEF Moved, Sizes
<1>7. ASSUME NEW i \in DOMAIN vnodes
      PROVE  /\ vnodes'[i] \in VNode
             /\ ~ Moved(pairs, i) => vnodes'[i] = vnodes[i]
             /\ Moved(pairs, i) => /\ vnodes'[i].node_ip = pairs[vnodes[i].node_ip]
                                  /\ vnodes'[i].tp_size = gpus[pairs[vnodes[i].node_ip]]
             /\ vnodes'[i].start_local_rank = vnodes[i].start_local_rank
             /\ vnodes'[i].layer_start_id = vnodes[i].layer_start_id
             /\ vnodes'[i].layer_end_id = vnodes[i].layer_end_id
  <2>1. CASE ~ Moved(pairs, i)
    BY <1>4, <1>5, <2>1
  <2>2. CASE Moved(pairs, i)
    <3>1. vnodes'[i] = [vnodes[i] EXCEPT !.node_ip = pairs[vnodes[i].node_ip],
                                         !.tp_size = gpus[pairs[vnodes[i].node_ip]]]
      BY <1>4, <2>2
    <3>2. vnodes[i] \in VNode
      BY <1>5
    <3> QED BY <1>6, <2>2, <3>1, <3>2 DEF VNode
  <2> QED BY <2>1, <2>2
<1>8. DOMAIN vnodes' = DOMAIN vnodes
  BY <1>4
<1>9. vnodes' \in Seq(VNode) /\ Len(vnodes') = Len(vnodes)
  <2>1. vnodes' \in [1 .. Len(vnodes) -> VNode]
    BY <1>4, <1>5, <1>7
  <2> QED BY <1>5, <2>1, SeqDef
<1>10. DOMAIN pairs \subseteq PipelineIps
  BY <1>2
<1> QED BY <1>3, <1>5, <1>6, <1>7, <1>8, <1>9, <1>10

\* A switch to fresh nodes keeps VNodes on different nodes apart.
LEMMA FreshMoves ==
  ASSUME LayoutAssumption, LayoutTypes, NEW pairs \in SwitchPairs, switch_nodes(pairs), ~ reused'
  PROVE  /\ \A i \in DOMAIN vnodes : Moved(pairs, i) => vnodes'[i].node_ip \notin PipelineIps
         /\ \A i, j \in DOMAIN vnodes :
              Moved(pairs, i) /\ Moved(pairs, j) /\ i # j => vnodes'[i].node_ip # vnodes'[j].node_ip
<1>1. \A m, n \in DOMAIN pairs : pairs[m] \notin PipelineIps /\ (m # n => pairs[m] # pairs[n])
  BY SwitchMoves DEF FreshNodes
<1>2. \A i \in DOMAIN vnodes :
        Moved(pairs, i) => /\ vnodes[i].node_ip \in DOMAIN pairs
                           /\ vnodes'[i].node_ip = pairs[vnodes[i].node_ip]
  BY SwitchMoves DEF Moved
<1>3. \A i, j \in DOMAIN vnodes :
        Moved(pairs, i) /\ Moved(pairs, j) /\ i # j => vnodes[i].node_ip # vnodes[j].node_ip
  BY DEF Moved
<1> QED BY <1>1, <1>2, <1>3
-----------------------------------------------------------------------------
(* The invariants.                                                         *)

\* VNode i has the layers of entry i, which follow those of entry i - 1, and
\* an accepted pipeline has all layers of the model.
LayerInv ==
  /\ start_layer_idx = AssignedLayers(node_layer_mapping)[Len(vnodes)]
  /\ \A i \in DOMAIN vnodes :
       /\ vnodes[i].layer_start_id = AssignedLayers(node_layer_mapping)[i - 1]
       /\ vnodes[i].layer_end_id = AssignedLayers(node_layer_mapping)[i]
  /\ phase \in {"create"} \cup Accepted => total_assigned_layers = total_num_layers

NoConflicts == \A i, j \in DOMAIN vnodes : i # j => ~Conflict(vnodes[i], vnodes[j])
AllAutomatic == \A i \in DOMAIN node_layer_mapping : node_layer_mapping[i].start = NoStart

\* Accepted VNodes share no GPU until a node is reused.  The VNodes the loop gave GPUs to by itself
\* share none either, since it goes on above the GPUs of each node it gave out.
DisjointInv ==
  /\ phase \in Accepted => NoConflicts \/ reused
  /\ phase = "create" /\ AllAutomatic =>
       /\ NoConflicts
       /\ \A i \in DOMAIN vnodes :
            vnodes[i].start_local_rank + vnodes[i].tp_size
              <= start_local_ranks[vnodes[i].node_ip]
  /\ phase = "rejected" => total_assigned_layers # total_num_layers \/ ~AllAutomatic

\* When every entry has a node of its own and none is reused, no two VNodes ever
\* share one, all start at the first GPU, and one that moved has the size of its
\* node; no VNode is on a node that was left.
PlaceInv ==
  OneVNodePerNode /\ ~ reused =>
    /\ \A i, j \in DOMAIN vnodes : i # j => vnodes[i].node_ip # vnodes[j].node_ip
    /\ \A i \in DOMAIN vnodes :
         /\ vnodes[i].start_local_rank = 0
         /\ \/ vnodes[i].node_ip = node_layer_mapping[i].node_ip
            \/ vnodes[i].tp_size = gpus[vnodes[i].node_ip]
    /\ PipelineIps \cap left = {}
    /\ phase \in {"check", "create"} =>
         /\ left = {}
         /\ \A i \in DOMAIN vnodes : vnodes[i].node_ip = node_layer_mapping[i].node_ip
         /\ \A n \in Nodes : n \notin PipelineIps => start_local_ranks[n] = 0
-----------------------------------------------------------------------------
LEMMA TypesInit == LayoutAssumption /\ Init => LayoutTypes
<1> SUFFICES ASSUME LayoutAssumption, Init PROVE LayoutTypes
  OBVIOUS
<1>1. PICK n \in 1 .. MaxEntries : /\ node_layer_mapping \in [1 .. n -> Entry]
                                  /\ parallel_strategy \in [1 .. n -> TpSizes]
  BY DEF Init
<1>2. n \in Nat /\ n > 0
  BY DEF LayoutAssumption
<1>3. /\ node_layer_mapping \in Seq(Entry) /\ Len(node_layer_mapping) = n
      /\ parallel_strategy \in Seq(TpSizes) /\ Len(parallel_strategy) = n
  BY <1>1, <1>2, SeqDef
<1>4. vnodes = <<>> /\ vnodes \in Seq(VNode) /\ Len(vnodes) = 0
  BY DEF Init
<1>5. phase = "check" /\ start_layer_idx = 0 /\ start_local_ranks \in [Nodes -> Nat]
  BY DEF Init
<1> QED BY <1>2, <1>3, <1>4, <1>5 DEF LayoutTypes, Accepted

LEMMA TypesNext ==
  ASSUME LayoutAssumption, LayoutTypes, [Next]_vars
  PROVE  LayoutTypes'
<1>1. CASE PhaseStep
  BY <1>1 DEF PhaseStep, LayoutTypes, Accepted
<1>2. CASE CreateVNode
  <2>1. NextVNode \in VNode /\ NextVNode.tp_size \in Nat \ {0}
    BY <1>2, LoopAppends, NextVNodeType
  <2>2. start_layer_idx' \in Nat /\ start_local_ranks' \in [Nodes -> Nat]
    <3>1. /\ NextVNode.layer_end_id \in Nat /\ NextVNode.node_ip \in Nodes
          /\ NextVNode.start_local_rank + NextVNode.tp_size \in Nat
      BY <2>1 DEF VNode
    <3> QED BY <1>2, <3>1, LoopAppends DEF LayoutTypes
  <2> QED BY <1>2, <2>2, LoopAppends DEF LayoutTypes, Accepted
<1>3. ASSUME NEW pairs \in SwitchPairs, switch_nodes(pairs)
      PROVE  LayoutTypes'
  BY <1>3, SwitchMoves DEF LayoutTypes, Accepted
<1> QED BY <1>1, <1>2, <1>3, Steps

LEMMA LayersInit == LayoutAssumption /\ Init => LayerInv
<1> SUFFICES ASSUME LayoutAssumption, Init PROVE LayerInv
  OBVIOUS
<1>1. vnodes = <<>> /\ start_layer_idx = 0 /\ phase = "check"
  BY DEF Init
<1>2. SumOf(AssignedLayers(node_layer_mapping), LayersOf(node_layer_mapping), Len(node_layer_mapping))
  BY TypesInit, AssignedLayersIsSum DEF LayoutTypes
<1>3. AssignedLayers(node_layer_mapping)[0] = 0
  BY <1>2 DEF SumOf
<1> QED BY <1>1, <1>3 DEF LayerInv, Accepted

LEMMA LayersNext ==
  ASSUME LayoutAssumption, LayoutTypes, LayerInv, [Next]_vars
  PROVE  LayerInv'
<1>1. node_layer_mapping' = node_layer_mapping
  BY Steps, LoopAppends, SwitchMoves DEF PhaseStep
<1>2. /\ AssignedLayers(node_layer_mapping)' = AssignedLayers(node_layer_mapping)
      /\ total_assigned_layers' = total_assigned_layers
  BY <1>1 DEF total_assigned_layers
<1>3. CASE PhaseStep
  <2>1. vnodes' = vnodes /\ start_layer_idx' = start_layer_idx
    BY <1>3 DEF PhaseStep
  <2>2. phase' \in {"create"} \cup Accepted => total_assigned_layers = total_num_layers
    BY <1>3 DEF PhaseStep, LayerInv, Accepted
  <2> QED BY <1>2, <2>1, <2>2 DEF LayerInv
<1>4. CASE CreateVNode
  <2> DEFINE a == AssignedLayers(node_layer_mapping)
             n == Len(vnodes) + 1
  <2>1. \A k \in 1 .. Len(node_layer_mapping) : a[k] = a[k - 1] + node_layer_mapping[k].layers
    BY AssignedLayersIsSum DEF LayoutTypes
  <2>2. n \in 1 .. Len(node_layer_mapping) /\ n - 1 = Len(vnodes)
    BY <1>4, LoopAppends
  <2>3. a[n] = a[Len(vnodes)] + node_layer_mapping[n].layers
    BY <2>1, <2>2
  <2>4. start_layer_idx = a[Len(vnodes)]
    BY DEF LayerInv
  <2>5. NextVNode.layer_start_id = a[n - 1] /\ NextVNode.layer_end_id = a[n]
    BY <1>4, <2>2, <2>3, <2>4, LoopAppends, NextVNodeType
  <2>6. start_layer_idx' = a[n] /\ Len(vnodes') = n
    BY <1>4, <2>5, LoopAppends
  <2>7. \A i \in DOMAIN vnodes' :
           vnodes'[i].layer_start_id = a[i - 1] /\ vnodes'[i].layer_end_id = a[i]
    <3> HIDE DEF a
    <3> TAKE i \in DOMAIN vnodes'
    <3>1. i = n \/ i \in DOMAIN vnodes
      BY <1>4, LoopAppends
    <3>2. CASE i = n
      BY <1>4, <2>5, <3>2, LoopAppends
    <3>3. CASE i \in DOMAIN vnodes
      <4>1. vnodes'[i] = vnodes[i]
        BY <1>4, <3>3, LoopAppends
      <4>2. vnodes[i].layer_start_id = a[i - 1] /\ vnodes[i].layer_end_id = a[i]
        BY <3>3 DEF LayerInv, a
      <4> QED BY <4>1, <4>2
    <3> QED BY <3>1, <3>2, <3>3
  <2>8. phase' = phase
    BY <1>4, LoopAppends
  <2> QED BY <1>2, <2>6, <2>7, <2>8 DEF LayerInv
<1>5. ASSUME NEW pairs \in SwitchPairs, switch_nodes(pairs)
      PROVE  LayerInv'
  <2>1. /\ start_layer_idx' = start_layer_idx /\ Len(vnodes') = Len(vnodes)
        /\ DOMAIN vnodes' = DOMAIN vnodes /\ phase = "ready"
        /\ \A i \in DOMAIN vnodes : /\ vnodes'[i].layer_start_id = vnodes[i].layer_start_id
                                    /\ vnodes'[i].layer_end_id = vnodes[i].layer_end_id
    BY <1>5, SwitchMoves
  <2> QED BY <1>2, <2>1 DEF LayerInv, Accepted
<1> QED BY <1>3, <1>4, <1>5, Steps

LEMMA DisjointInit == LayoutAssumption /\ Init => DisjointInv
<1> SUFFICES ASSUME LayoutAssumption, Init PROVE DisjointInv
  OBVIOUS
<1>1. phase = "check"
  BY DEF Init
<1> QED BY <1>1 DEF DisjointInv, Accepted

\* GPUs that were given out later are above.
LEMMA Above ==
  ASSUME LayoutAssumption, NEW v \in VNode, NEW w \in VNode,
         v.node_ip = w.node_ip => v.start_local_rank + v.tp_size <= w.start_local_rank
  PROVE  ~Conflict(v, w) /\ ~Conflict(w, v)
<1>1. \A s \in Sizes : s \in Nat
  BY DEF Sizes, LayoutAssumption
<1>2. /\ v.start_local_rank \in Nat /\ v.tp_size \in Nat
      /\ w.start_local_rank \in Nat /\ w.tp_size \in Nat
  BY <1>1 DEF VNode
<1> QED BY <1>2 DEF Conflict, LocalRanks

LEMMA DisjointNext ==
  ASSUME LayoutAssumption, LayoutTypes, LayerInv, DisjointInv, [Next]_vars
  PROVE  DisjointInv'
<1>1. node_layer_mapping' = node_layer_mapping
  BY Steps, LoopAppends, SwitchMoves DEF PhaseStep
<1>2. (total_assigned_layers' = total_assigned_layers) /\ (AllAutomatic' <=> AllAutomatic)
  BY <1>1 DEF total_assigned_layers, AllAutomatic
<1>3. CASE PhaseStep
  <2>1. vnodes' = vnodes /\ start_local_ranks' = start_local_ranks /\ (reused' <=> reused)
    BY <1>3 DEF PhaseStep
  <2>2. NoConflicts' <=> NoConflicts
    BY <2>1 DEF NoConflicts, Conflict, LocalRanks
  <2>3. CASE phase' = phase
    BY <1>2, <2>1, <2>2, <2>3 DEF DisjointInv
  <2>4. CASE phase = "check" /\ phase' \in {"create", "rejected"}
    <3>1. vnodes = <<>> /\ DOMAIN vnodes = {}
      BY <2>4 DEF LayoutTypes
    <3>2. NoConflicts
      BY <3>1 DEF NoConflicts
    <3>3. phase' = "rejected" => total_assigned_layers # total_num_layers
      BY <1>3, <2>4 DEF PhaseStep
    <3> QED BY <1>2, <2>1, <2>2, <2>4, <3>1, <3>2, <3>3 DEF DisjointInv, Accepted
  <2>5. CASE phase = "create" /\ phase' \in {"rejected", "rank"}
    <3>1. phase' = "rank" => NoConflicts
      BY <1>3, <2>5 DEF PhaseStep, NoConflicts
    <3>2. phase' = "rejected" => ~NoConflicts
      BY <1>3, <2>5 DEF PhaseStep, NoConflicts
    <3> QED BY <1>2, <2>2, <2>5, <3>1, <3>2 DEF DisjointInv, Accepted
  <2>6. CASE phase \in {"rank", "bundle"} /\ phase' \in {"bundle", "ready", "raised"}
    BY <2>1, <2>2, <2>6 DEF DisjointInv, Accepted
  <2> QED BY <1>3, <2>3, <2>4, <2>5, <2>6 DEF PhaseStep
<1>4. CASE CreateVNode
  <2> DEFINE n == Len(vnodes) + 1
             w == NextVNode
  <2>1. phase = "create" /\ phase' = "create"
    BY <1>4, LoopAppends
  <2>2. SUFFICES ASSUME AllAutomatic
                 PROVE  /\ NoConflicts'
                        /\ \A i \in DOMAIN vnodes' :
                             vnodes'[i].start_local_rank + vnodes'[i].tp_size
                               <= start_local_ranks'[vnodes'[i].node_ip]
    BY <1>2, <2>1 DEF DisjointInv, Accepted
  <2>3. w \in VNode /\ w.tp_size \in Nat \ {0} /\ w.start_local_rank = start_local_ranks[w.node_ip]
    <3>1. Len(vnodes) < Len(node_layer_mapping)
      BY <1>4, LoopAppends
    <3>2. n \in DOMAIN node_layer_mapping
      BY <3>1, NextVNodeType, LenProperties DEF LayoutTypes
    <3>3. node_layer_mapping[n].start = NoStart
      BY <2>2, <3>2 DEF AllAutomatic
    <3> QED BY <3>1, <3>3, NextVNodeType
  <2> HIDE DEF w
  <2>4. \A i \in DOMAIN vnodes :
          /\ vnodes'[i] = vnodes[i] /\ vnodes[i] \in VNode
          /\ vnodes[i].start_local_rank + vnodes[i].tp_size <= start_local_ranks[vnodes[i].node_ip]
    BY <1>4, <2>1, <2>2, LoopAppends DEF DisjointInv
  <2>5. \A i \in DOMAIN vnodes : ~Conflict(vnodes[i], w) /\ ~Conflict(w, vnodes[i])
    BY <2>3, <2>4, Above
  <2>6. vnodes'[n] = w /\ DOMAIN vnodes' = 1 .. n /\ DOMAIN vnodes = 1 .. n - 1 /\ n - 1 \in Nat
    BY <1>4, LoopAppends DEF w
  <2>7. NoConflicts
    BY <2>1, <2>2 DEF DisjointInv
  <2>8. \A i, j \in DOMAIN vnodes' : i # j => ~Conflict(vnodes'[i], vnodes'[j])
    <3> SUFFICES ASSUME NEW i \in DOMAIN vnodes', NEW j \in DOMAIN vnodes', i # j
                 PROVE  ~Conflict(vnodes'[i], vnodes'[j])
      OBVIOUS
    <3>1. (i = n \/ i \in DOMAIN vnodes) /\ (j = n \/ j \in DOMAIN vnodes)
      BY <2>6
    <3>2. CASE i = n
      BY <2>4, <2>5, <2>6, <3>1, <3>2
    <3>3. CASE j = n
      BY <2>4, <2>5, <2>6, <3>1, <3>3
    <3>4. CASE i \in DOMAIN vnodes /\ j \in DOMAIN vnodes
      BY <2>4, <2>7, <3>4 DEF NoConflicts
    <3> QED BY <3>1, <3>2, <3>3, <3>4
  <2>9. NoConflicts'
    BY <2>8 DEF NoConflicts, Conflict, LocalRanks
  <2>10. start_local_ranks' = [start_local_ranks EXCEPT ![w.node_ip] = w.start_local_rank + w.tp_size]
    BY <1>4, LoopAppends DEF w
  <2>11. start_local_ranks \in [Nodes -> Nat] /\ w.node_ip \in Nodes /\ w.start_local_rank \in Nat
    BY <2>3 DEF LayoutTypes, VNode
  <2>12. ASSUME NEW i \in DOMAIN vnodes'
         PROVE  vnodes'[i].start_local_rank + vnodes'[i].tp_size
                  <= start_local_ranks'[vnodes'[i].node_ip]
    <3>1. CASE i = n
      BY <2>3, <2>6, <2>10, <2>11, <3>1
    <3>2. CASE i \in DOMAIN vnodes
      <4> DEFINE v == vnodes[i]
      <4>1. v \in VNode /\ v.start_local_rank + v.tp_size <= start_local_ranks[v.node_ip] /\ vnodes'[i] = v
        BY <2>4, <3>2
      <4> HIDE DEF v
      <4>2. v.node_ip \in Nodes /\ v.start_local_rank \in Nat /\ v.tp_size \in Nat
        BY <4>1 DEF VNode, Sizes, LayoutAssumption
      <4>3. CASE v.node_ip = w.node_ip
        BY <2>3, <2>10, <2>11, <4>1, <4>2, <4>3
      <4>4. CASE v.node_ip # w.node_ip
        BY <2>10, <2>11, <4>1, <4>2, <4>4
      <4> QED BY <4>3, <4>4
    <3> QED BY <2>6, <3>1, <3>2
  <2> QED BY <2>9, <2>12
<1>5. ASSUME NEW pairs \in SwitchPairs, switch_nodes(pairs)
      PROVE  DisjointInv'
  <2>1. phase = "ready" /\ phase' = "rank" /\ DOMAIN vnodes' = DOMAIN vnodes
    BY <1>5, SwitchMoves
  <2>2. CASE reused'
    BY <2>1, <2>2 DEF DisjointInv
  <2>3. CASE ~ reused'
    <3>1. NoConflicts
      BY <1>5, <2>1, <2>3, SwitchMoves DEF DisjointInv, Accepted
    <3>2. ASSUME NEW i \in DOMAIN vnodes, NEW j \in DOMAIN vnodes, i # j
          PROVE  ~Conflict(vnodes'[i], vnodes'[j])
      <4>1. vnodes[i].node_ip \in PipelineIps /\ vnodes[j].node_ip \in PipelineIps
        BY DEF PipelineIps
      <4>2. CASE Moved(pairs, i) /\ Moved(pairs, j)
        BY <1>5, <2>3, <3>2, <4>2, FreshMoves DEF Conflict
      <4>3. CASE Moved(pairs, i) /\ ~Moved(pairs, j)
        <5>1. vnodes'[i].node_ip \notin PipelineIps /\ vnodes'[j] = vnodes[j]
          BY <1>5, <2>3, <4>3, SwitchMoves, FreshMoves
        <5> QED BY <4>1, <5>1 DEF Conflict
      <4>4. CASE ~Moved(pairs, i) /\ Moved(pairs, j)
        <5>1. vnodes'[j].node_ip \notin PipelineIps /\ vnodes'[i] = vnodes[i]
          BY <1>5, <2>3, <4>4, SwitchMoves, FreshMoves
        <5> QED BY <4>1, <5>1 DEF Conflict
      <4>5. CASE ~Moved(pairs, i) /\ ~Moved(pairs, j)
        <5>1. vnodes'[i] = vnodes[i] /\ vnodes'[j] = vnodes[j]
          BY <1>5, <4>5, SwitchMoves
        <5> QED BY <3>1, <3>2, <5>1 DEF NoConflicts
      <4> QED BY <4>2, <4>3, <4>4, <4>5
    <3>3. NoConflicts'
      BY <2>1, <3>2 DEF NoConflicts, Conflict, LocalRanks
    <3> QED BY <2>1, <3>3 DEF DisjointInv
  <2> QED BY <2>2, <2>3
<1> QED BY <1>3, <1>4, <1>5, Steps

\* A VNode that is alone on its node is the one that is found there.
LEMMA TargetIsTheVNode ==
  ASSUME LayoutTypes, \A i, j \in DOMAIN vnodes : i # j => vnodes[i].node_ip # vnodes[j].node_ip,
         NEW i \in DOMAIN vnodes
  PROVE  TargetIndex(vnodes[i].node_ip) = i
<1> DEFINE I == {k \in 1 .. Len(vnodes) : vnodes[k].node_ip = vnodes[i].node_ip}
<1>1. DOMAIN vnodes = 1 .. Len(vnodes) /\ Len(vnodes) \in Nat
  BY LenProperties DEF LayoutTypes
<1>2. I = {i} /\ i \in Int
  BY <1>1
<1>3. TargetIndex(vnodes[i].node_ip) = IF I # {} THEN Min(I) ELSE 0
  BY Zenon DEF TargetIndex, SelectInSeq
<1>4. Min({i}) = i
  <2>1. \A x \in {i} : x = i
    OBVIOUS
  <2>2. \E x \in {i} : \A y \in {i} : x <= y
    BY <1>2
  <2>3. Min({i}) \in {i}
    BY <2>2, Zenon DEF Min
  <2> QED BY <2>3
<1> HIDE DEF I
<1> QED BY <1>2, <1>3, <1>4

LEMMA PlaceInit == LayoutAssumption /\ Init => PlaceInv
<1> SUFFICES ASSUME LayoutAssumption, Init PROVE PlaceInv
  OBVIOUS
<1>1. /\ DOMAIN vnodes = {} /\ left = {} /\ phase = "check"
      /\ start_local_ranks = [n \in Nodes |-> 0]
  BY DEF Init
<1> QED BY <1>1 DEF PlaceInv, PipelineIps

LEMMA PlaceNext ==
  ASSUME LayoutAssumption, LayoutTypes, PlaceInv, [Next]_vars
  PROVE  PlaceInv'
<1>1. node_layer_mapping' = node_layer_mapping
  BY Steps, LoopAppends, SwitchMoves DEF PhaseStep
<1>0. SUFFICES ASSUME OneVNodePerNode, ~ reused' PROVE PlaceInv'
  BY <1>1 DEF PlaceInv, OneVNodePerNode
<1>2. ~ reused
  BY <1>0, Steps, LoopAppends, SwitchMoves DEF PhaseStep
<1>3. /\ \A i, j \in DOMAIN vnodes : i # j => vnodes[i].node_ip # vnodes[j].node_ip
      /\ \A i \in DOMAIN vnodes :
           /\ vnodes[i].start_local_rank = 0
           /\ \/ vnodes[i].node_ip = node_layer_mapping[i].node_ip
              \/ vnodes[i].tp_size = gpus[vnodes[i].node_ip]
      /\ PipelineIps \cap left = {}
      /\ phase \in {"check", "create"} =>
           /\ left = {}
           /\ \A i \in DOMAIN vnodes : vnodes[i].node_ip = node_layer_mapping[i].node_ip
           /\ \A n \in Nodes : n \notin PipelineIps => start_local_ranks[n] = 0
  BY <1>0, <1>2 DEF PlaceInv
<1>4. CASE PhaseStep
  <2>1. vnodes' = vnodes /\ start_local_ranks' = start_local_ranks /\ left' = left
    BY <1>4 DEF PhaseStep
  <2>2. PipelineIps' = PipelineIps
    BY <2>1 DEF PipelineIps
  <2>3. phase' \in {"check", "create"} => phase \in {"check", "create"}
    BY <1>4 DEF PhaseStep
  <2> QED BY <1>1, <1>3, <2>1, <2>2, <2>3 DEF PlaceInv
<1>5. CASE CreateVNode
  <2> DEFINE n == Len(vnodes) + 1
             w == NextVNode
  <2>1. /\ phase = "create" /\ left' = left
        /\ n \in Nat /\ DOMAIN vnodes = 1 .. n - 1 /\ DOMAIN vnodes' = 1 .. n
        /\ \A i \in DOMAIN vnodes : vnodes'[i] = vnodes[i]
        /\ vnodes'[n] = w
        /\ start_local_ranks' = [start_local_ranks EXCEPT
                                   ![w.node_ip] = w.start_local_rank + w.tp_size]
    BY <1>5, LoopAppends
  <2>2. /\ n \in DOMAIN node_layer_mapping
        /\ \A i \in DOMAIN vnodes : i \in DOMAIN node_layer_mapping /\ i # n
    <3>1. n \in 1 .. Len(node_layer_mapping) /\ Len(node_layer_mapping) \in Nat
      BY <1>5, LoopAppends
    <3>2. DOMAIN node_layer_mapping = 1 .. Len(node_layer_mapping)
      BY LenProperties DEF LayoutTypes
    <3> QED BY <2>1, <3>1, <3>2
  <2>3. /\ w.node_ip = node_layer_mapping[n].node_ip
        /\ w.start_local_rank = IF node_layer_mapping[n].start = NoStart
                                THEN start_local_ranks[w.node_ip]
                                ELSE node_layer_mapping[n].start
        /\ w \in VNode
    BY <1>5, LoopAppends, NextVNodeType
  <2> HIDE DEF w, n
  <2>4. \A i \in DOMAIN vnodes :
          /\ vnodes[i].node_ip = node_layer_mapping[i].node_ip
          /\ vnodes[i].node_ip # w.node_ip
    BY <1>0, <1>3, <2>1, <2>2, <2>3 DEF OneVNodePerNode
  <2>5. w.node_ip \in Nodes /\ w.node_ip \notin PipelineIps
    BY <2>3, <2>4 DEF PipelineIps, VNode
  <2>6. w.start_local_rank = 0
    <3>1. node_layer_mapping[n].start \in {NoStart, 0}
      BY <1>0, <2>2 DEF OneVNodePerNode
    <3>2. start_local_ranks[w.node_ip] = 0
      BY <1>3, <2>1, <2>5
    <3> QED BY <2>3, <3>1, <3>2
  <2>7. \A i \in DOMAIN vnodes' : i = n \/ i \in DOMAIN vnodes
    BY <2>1
  <2>8. \A i, j \in DOMAIN vnodes' : i # j => vnodes'[i].node_ip # vnodes'[j].node_ip
    BY <1>3, <2>1, <2>4, <2>7
  <2>9. \A i \in DOMAIN vnodes' : /\ vnodes'[i].start_local_rank = 0
                                 /\ vnodes'[i].node_ip = node_layer_mapping[i].node_ip
    BY <1>3, <2>1, <2>3, <2>4, <2>6, <2>7
  <2>10. n \in DOMAIN vnodes' /\ \A i \in DOMAIN vnodes : i \in DOMAIN vnodes'
    <3>1. n - 1 \in Nat
      BY <1>5, LoopAppends DEF n
    <3> QED BY <2>1, <3>1
  <2>11. \A m \in Nodes : m \notin PipelineIps' => start_local_ranks'[m] = 0
    <3> SUFFICES ASSUME NEW m \in Nodes, m \notin PipelineIps' PROVE start_local_ranks'[m] = 0
      OBVIOUS
    <3>1. \A i \in DOMAIN vnodes' : vnodes'[i].node_ip # m
      BY DEF PipelineIps
    <3>2. m # w.node_ip /\ m \notin PipelineIps
      BY <2>1, <2>10, <3>1 DEF PipelineIps
    <3>3. start_local_ranks[m] = 0 /\ start_local_ranks \in [Nodes -> Nat]
      BY <1>3, <2>1, <3>2 DEF LayoutTypes
    <3> QED BY <2>1, <3>2, <3>3
  <2>12. left' = {}
    BY <1>3, <2>1
  <2> QED BY <1>1, <2>8, <2>9, <2>11, <2>12 DEF PlaceInv
<1>6. ASSUME NEW pairs \in SwitchPairs, switch_nodes(pairs)
      PROVE  PlaceInv'
  <2>1. /\ phase' = "rank" /\ left' = DOMAIN pairs /\ DOMAIN pairs \subseteq PipelineIps
        /\ DOMAIN vnodes' = DOMAIN vnodes
        /\ \A i \in DOMAIN vnodes : vnodes'[i].start_local_rank = vnodes[i].start_local_rank
    BY <1>6, SwitchMoves
  <2>2. ASSUME NEW i \in DOMAIN vnodes
        PROVE  /\ vnodes[i].node_ip \in DOMAIN pairs =>
                    /\ vnodes'[i].node_ip \notin PipelineIps
                    /\ vnodes'[i].tp_size = gpus[vnodes'[i].node_ip]
               /\ vnodes[i].node_ip \notin DOMAIN pairs => vnodes'[i] = vnodes[i]
               /\ vnodes[i].node_ip \in PipelineIps
    <3>1. Moved(pairs, i) <=> vnodes[i].node_ip \in DOMAIN pairs
      BY <1>3, TargetIsTheVNode DEF Moved
    <3>2. vnodes[i].node_ip \in PipelineIps
      BY DEF PipelineIps
    <3> QED BY <1>0, <1>6, <3>1, <3>2, SwitchMoves, FreshMoves
  <2>3. ASSUME NEW i \in DOMAIN vnodes, NEW j \in DOMAIN vnodes, i # j
        PROVE  vnodes'[i].node_ip # vnodes'[j].node_ip
    <3>1. CASE vnodes[i].node_ip \in DOMAIN pairs /\ vnodes[j].node_ip \in DOMAIN pairs
      <4>1. Moved(pairs, i) /\ Moved(pairs, j)
        BY <1>3, <3>1, TargetIsTheVNode DEF Moved
      <4> QED BY <1>0, <1>6, <2>3, <4>1, FreshMoves
    <3>2. CASE ~ (vnodes[i].node_ip \in DOMAIN pairs /\ vnodes[j].node_ip \in DOMAIN pairs)
      BY <1>3, <2>2, <2>3, <3>2
    <3> QED BY <3>1, <3>2
  <2>4. PipelineIps' \cap left' = {}
    <3>1. PipelineIps' = {vnodes'[i].node_ip : i \in DOMAIN vnodes'}
      BY DEF PipelineIps
    <3> QED BY <2>1, <2>2, <3>1
  <2>5. \A i \in DOMAIN vnodes :
          \/ vnodes'[i].node_ip = node_layer_mapping[i].node_ip
          \/ vnodes'[i].tp_size = gpus[vnodes'[i].node_ip]
    BY <1>3, <2>2
  <2> QED BY <1>1, <1>3, <2>1, <2>3, <2>4, <2>5 DEF PlaceInv
<1> QED BY <1>4, <1>5, <1>6, Steps
-----------------------------------------------------------------------------
(* The whole model.                                                        *)

Loaders(t, tie) ==
  {k \in DOMAIN vnodes :
     should_load_tensor(t, vnodes[k].layer_start_id, vnodes[k].layer_end_id, total_num_layers, tie)}
SizeOf(t) == IF t.kind \in VocabKinds THEN vocab_size ELSE dim

\* The stages follow one another from the first layer to the last.
LEMMA Stages ==
  ASSUME LayoutAssumption, LayoutTypes, LayerInv, phase = "ready"
  PROVE  /\ Len(vnodes) \in Nat \ {0} /\ DOMAIN vnodes = 1 .. Len(vnodes)
         /\ \A i \in 1 .. Len(vnodes) :
              /\ vnodes[i].layer_start_id = AssignedLayers(node_layer_mapping)[i - 1]
              /\ vnodes[i].layer_end_id = AssignedLayers(node_layer_mapping)[i]
         /\ \A i \in 0 .. Len(vnodes) : AssignedLayers(node_layer_mapping)[i] \in Nat
         /\ \A i, j \in 0 .. Len(vnodes) :
              i < j => AssignedLayers(node_layer_mapping)[i] < AssignedLayers(node_layer_mapping)[j]
         /\ AssignedLayers(node_layer_mapping)[0] = 0
         /\ AssignedLayers(node_layer_mapping)[Len(vnodes)] = total_num_layers
<1>1. Len(vnodes) = Len(node_layer_mapping) /\ Len(vnodes) > 0 /\ node_layer_mapping \in Seq(Entry)
  BY DEF LayoutTypes, Accepted
<1>2. Len(vnodes) \in Nat /\ DOMAIN vnodes = 1 .. Len(vnodes)
  BY LenProperties DEF LayoutTypes
<1>3. \A i \in 1 .. Len(vnodes) :
        /\ vnodes[i].layer_start_id = AssignedLayers(node_layer_mapping)[i - 1]
        /\ vnodes[i].layer_end_id = AssignedLayers(node_layer_mapping)[i]
  BY <1>2 DEF LayerInv
<1>4. AssignedLayers(node_layer_mapping)[Len(vnodes)] = total_num_layers
  BY <1>1 DEF LayerInv, Accepted, total_assigned_layers
<1>5. SumOf(AssignedLayers(node_layer_mapping), LayersOf(node_layer_mapping), Len(vnodes))
  BY <1>1, AssignedLayersIsSum
<1>6. /\ \A i \in 0 .. Len(vnodes) : AssignedLayers(node_layer_mapping)[i] \in Nat
      /\ AssignedLayers(node_layer_mapping)[0] = 0
  BY <1>5 DEF SumOf
<1>7. \A i, j \in 0 .. Len(vnodes) :
        i < j => AssignedLayers(node_layer_mapping)[i] < AssignedLayers(node_layer_mapping)[j]
  BY <1>1, AssignedLayersGrow
<1> QED BY <1>1, <1>2, <1>3, <1>4, <1>6, <1>7

StagesOf(n, a, layer) == {i \in 1 .. n : a[i - 1] <= layer /\ layer < a[i]}

\* A layer is in exactly one stage.
LEMMA OneStage ==
  ASSUME NEW n \in Nat, NEW a, \A i \in 0 .. n : a[i] \in Nat,
         \A i, j \in 0 .. n : i < j => a[i] < a[j],
         a[0] = 0, NEW layer \in Nat, layer < a[n]
  PROVE  \E k \in 1 .. n : StagesOf(n, a, layer) = {k}
<1> DEFINE S == {k \in 0 .. n : layer < a[k]}
<1>1. S \in SUBSET Nat /\ S # {}
  OBVIOUS
<1>2. PICK k \in S : \A j \in S : k <= j
  <2> HIDE DEF S
  <2> QED BY <1>1, LeastNumber
<1>3. k \in 1 .. n /\ layer < a[k]
  BY <1>2
<1>4. a[k - 1] <= layer
  <2>1. k - 1 \in 0 .. n /\ k - 1 \notin S
    BY <1>2, <1>3
  <2> QED BY <2>1
<1>5. ASSUME NEW i \in 1 .. n, a[i - 1] <= layer, layer < a[i]
      PROVE  i = k
  <2>1. i \in 0 .. n /\ i - 1 \in 0 .. n /\ k \in 0 .. n /\ k - 1 \in 0 .. n
    BY <1>3
  <2>2. a[i] \in Nat /\ a[i - 1] \in Nat /\ a[k] \in Nat /\ a[k - 1] \in Nat
    BY <2>1
  <2>3. CASE i < k
    <3>1. i = k - 1 \/ i < k - 1
      BY <1>3, <2>3
    <3>2. a[i] <= a[k - 1]
      BY <2>1, <2>2, <3>1
    <3> QED BY <1>4, <1>5, <2>2, <3>2
  <2>4. CASE k < i
    <3>1. k = i - 1 \/ k < i - 1
      BY <1>3, <2>4
    <3>2. a[k] <= a[i - 1]
      BY <2>1, <2>2, <3>1
    <3> QED BY <1>3, <1>5, <2>2, <3>2
  <2> QED BY <1>3, <2>3, <2>4
<1> QED BY <1>3, <1>4, <1>5 DEF StagesOf

\* Which stages load a tensor.
LEMMA WhoLoads ==
  ASSUME LayoutAssumption, LayoutTypes, LayerInv, phase = "ready",
         NEW t \in Tensors(total_num_layers), NEW tie \in BOOLEAN
  PROVE  IF t.kind = "embed_tokens" /\ tie THEN Loaders(t, tie) = {1, Len(vnodes)}
         ELSE \E k : Loaders(t, tie) = {k}
<1> DEFINE a == AssignedLayers(node_layer_mapping)
           n == Len(vnodes)
<1>1. /\ n \in Nat \ {0} /\ DOMAIN vnodes = 1 .. n
      /\ \A i \in 1 .. n : vnodes[i].layer_start_id = a[i - 1] /\ vnodes[i].layer_end_id = a[i]
      /\ \A i \in 0 .. n : a[i] \in Nat
      /\ \A i, j \in 0 .. n : i < j => a[i] < a[j]
      /\ a[0] = 0 /\ a[n] = total_num_layers
  BY Stages
<1> HIDE DEF a, n
<1>2. Loaders(t, tie) =
        {k \in 1 .. n : should_load_tensor(t, a[k - 1], a[k], total_num_layers, tie)}
  BY <1>1 DEF Loaders
<1>3. \A k \in 1 .. n : a[k - 1] <= 0 <=> k = 1
  <2> TAKE k \in 1 .. n
  <2>1. CASE k = 1
    BY <1>1, <2>1
  <2>2. CASE k > 1
    <3>1. k - 1 \in 0 .. n /\ 0 \in 0 .. n /\ 0 < k - 1
      BY <1>1, <2>2
    <3>2. a[0] < a[k - 1] /\ a[k - 1] \in Nat
      BY <1>1, <3>1
    <3> QED BY <1>1, <2>2, <3>2
  <2> QED BY <2>1, <2>2
<1>4. \A k \in 1 .. n : total_num_layers <= a[k] <=> k = n
  <2> TAKE k \in 1 .. n
  <2>1. k \in 0 .. n /\ n \in 0 .. n /\ a[k] \in Nat /\ a[n] \in Nat
    BY <1>1
  <2>2. k < n => a[k] < a[n]
    BY <1>1, <2>1
  <2> QED BY <1>1, <2>1, <2>2
<1>5. \/ t.kind \in LayerKinds /\ t.layer \in 0 .. total_num_layers - 1
      \/ t.kind \in {"embed_tokens", "norm", "lm_head"}
  BY DEF Tensors
<1>6. CASE t.kind \in LayerKinds /\ t.layer \in 0 .. total_num_layers - 1
  <2>1. t.kind # "embed_tokens"
    BY <1>6 DEF LayerKinds, DividedKinds
  <2>2. Loaders(t, tie) = StagesOf(n, a, t.layer)
    BY <1>2, <1>6 DEF should_load_tensor, StagesOf
  <2>3. t.layer \in Nat /\ t.layer < a[n]
    BY <1>1, <1>6 DEF LayoutAssumption
  <2>4. \E k \in 1 .. n : StagesOf(n, a, t.layer) = {k}
    <3> DEFINE l == t.layer
    <3>1. l \in Nat /\ l < a[n]
      BY <2>3
    <3> HIDE DEF l
    <3>2. /\ n \in Nat
          /\ \A i \in 0 .. n : a[i] \in Nat
          /\ \A i, j \in 0 .. n : i < j => a[i] < a[j]
          /\ a[0] = 0
      BY <1>1
    <3>3. \E k \in 1 .. n : StagesOf(n, a, l) = {k}
      BY ONLY <3>1, <3>2, OneStage
    <3> QED BY <3>3 DEF l
  <2> QED BY <2>1, <2>2, <2>4
<1>7. CASE t.kind = "embed_tokens"
  <2>1. t.kind \notin LayerKinds
    BY <1>7 DEF LayerKinds, DividedKinds
  <2>2. Loaders(t, tie) = {k \in 1 .. n : a[k - 1] <= 0 \/ (tie /\ total_num_layers <= a[k])}
    BY <1>2, <1>7, <2>1 DEF should_load_tensor
  <2>3. Loaders(t, tie) = {k \in 1 .. n : k = 1 \/ (tie /\ k = n)}
    BY <1>3, <1>4, <2>2
  <2>4. 1 \in 1 .. n /\ n \in 1 .. n
    BY <1>1
  <2> QED BY <1>7, <2>3, <2>4 DEF n
<1>8. CASE t.kind \in {"norm", "lm_head"}
  <2>1. t.kind \notin LayerKinds /\ t.kind # "embed_tokens"
    BY <1>8 DEF LayerKinds, DividedKinds
  <2>2. Loaders(t, tie) = {k \in 1 .. n : total_num_layers <= a[k]}
    BY <1>2, <2>1 DEF should_load_tensor
  <2>3. Loaders(t, tie) = {n}
    BY <1>1, <1>4, <2>2
  <2> QED BY <2>1, <2>3
<1> QED BY <1>5, <1>6, <1>7, <1>8

\* Which ranks of a stage hold an index of a tensor.
LEMMA WhoHolds ==
  ASSUME LayoutAssumption, UploadAssumption, NEW t \in Tensors(total_num_layers),
         NEW tp \in Sizes, NEW i \in 0 .. SizeOf(t) - 1
  PROVE  IF t.kind \in CopiedKinds THEN Holders(t.kind, SizeOf(t), tp, i) = 0 .. tp - 1
         ELSE Cardinality(Holders(t.kind, SizeOf(t), tp, i)) = 1
<1>1. tp \in Nat \ {0}
  BY DEF Sizes, LayoutAssumption
<1>2. dim % tp = 0 /\ VocabDivides(vocab_size, VOCAB_PADDING_SIZE, tp)
  BY DEF UploadAssumption, Sizes
<1>3. vocab_size \in Nat /\ dim \in Nat /\ VOCAB_PADDING_SIZE \in Nat \ {0}
  BY DEF LayoutAssumption
<1>4. t.kind \in VocabKinds \/ t.kind \in DividedKinds \/ t.kind \in CopiedKinds
  <2>1. t.kind \in LayerKinds \cup {"embed_tokens", "norm", "lm_head"}
    BY DEF Tensors
  <2> QED BY <2>1 DEF VocabKinds, LayerKinds, CopiedKinds
<1>5. CASE t.kind \in VocabKinds
  <2>1. SizeOf(t) = vocab_size /\ t.kind \notin CopiedKinds
    BY <1>5 DEF SizeOf, VocabKinds, CopiedKinds
  <2>2. \E r \in 0 .. tp - 1 : Holders(t.kind, vocab_size, tp, i) = {r}
    <3> DEFINE kind == t.kind
    <3>1. i \in 0 .. vocab_size - 1 /\ kind \in VocabKinds
      BY <1>5, <2>1
    <3> HIDE DEF kind
    <3>2. \E r \in 0 .. tp - 1 : Holders(kind, vocab_size, tp, i) = {r}
      BY <1>1, <1>2, <1>3, <3>1, VocabOnce
    <3> QED BY <3>2 DEF kind
  <2> QED BY <2>1, <2>2, FS_Singleton
<1>6. CASE t.kind \in DividedKinds
  <2>1. SizeOf(t) = dim /\ t.kind \notin CopiedKinds
    BY <1>6 DEF SizeOf, VocabKinds, CopiedKinds, DividedKinds
  <2>2. \E r \in 0 .. tp - 1 : Holders(t.kind, dim, tp, i) = {r}
    <3> DEFINE kind == t.kind
    <3>1. i \in 0 .. dim - 1 /\ kind \in DividedKinds
      BY <1>6, <2>1
    <3> HIDE DEF kind
    <3>2. \E r \in 0 .. tp - 1 : Holders(kind, dim, tp, i) = {r}
      <4>1. dim \in Nat /\ dim % tp = 0
        BY <1>2, <1>3
      <4> QED BY ONLY <1>1, <3>1, <4>1, DividedOnce
    <3> QED BY <3>2 DEF kind
  <2> QED BY <2>1, <2>2, FS_Singleton
<1>7. CASE t.kind \in CopiedKinds
  <2>1. SizeOf(t) \in Nat
    BY <1>3 DEF SizeOf
  <2> QED BY <1>1, <1>7, <2>1, CopiedEverywhere
<1> QED BY <1>4, <1>5, <1>6, <1>7

LEMMA WholeModel ==
  ASSUME LayoutAssumption, UploadAssumption, LayoutTypes, LayerInv
  PROVE  WholeModelLoaded
<1>1. SUFFICES ASSUME phase = "ready", NEW t \in Tensors(total_num_layers), NEW tie \in BOOLEAN
               PROVE  /\ Loaders(t, tie) = IF t.kind = "embed_tokens" /\ tie THEN {1, Len(vnodes)}
                                           ELSE {CHOOSE k \in Loaders(t, tie) : TRUE}
                      /\ \A k \in Loaders(t, tie), i \in 0 .. SizeOf(t) - 1 :
                           IF t.kind \in CopiedKinds
                           THEN Holders(t.kind, SizeOf(t), vnodes[k].tp_size, i)
                                  = 0 .. vnodes[k].tp_size - 1
                           ELSE Cardinality(Holders(t.kind, SizeOf(t), vnodes[k].tp_size, i)) = 1
  BY Zenon DEF WholeModelLoaded, Loaders, SizeOf, Holders
<1>2. Loaders(t, tie) = IF t.kind = "embed_tokens" /\ tie THEN {1, Len(vnodes)}
                        ELSE {CHOOSE k \in Loaders(t, tie) : TRUE}
  <2>1. \A S, x : S = {x} => S = {CHOOSE k \in S : TRUE}
    OBVIOUS
  <2> QED BY <1>1, <2>1, WhoLoads
<1>3. \A k \in Loaders(t, tie) : vnodes[k].tp_size \in Sizes
  <2>1. \A k \in DOMAIN vnodes : vnodes[k] \in VNode
    BY LenProperties, ElementOfSeq DEF LayoutTypes
  <2> QED BY <2>1 DEF Loaders, VNode
<1>4. \A k \in Loaders(t, tie), i \in 0 .. SizeOf(t) - 1 :
        IF t.kind \in CopiedKinds
        THEN Holders(t.kind, SizeOf(t), vnodes[k].tp_size, i) = 0 .. vnodes[k].tp_size - 1
        ELSE Cardinality(Holders(t.kind, SizeOf(t), vnodes[k].tp_size, i)) = 1
  BY <1>3, WhoHolds
<1> QED BY <1>2, <1>4
-----------------------------------------------------------------------------
(* Ranks and bundles.                                                      *)

\* The sizes of the VNodes are positive, and current_rank counts them.
LEMMA CurrentRanksCount ==
  ASSUME LayoutAssumption, NEW vs \in Seq(VNode)
  PROVE  /\ Len(vs) \in Nat /\ DOMAIN vs = 1 .. Len(vs)
         /\ \A k \in 1 .. Len(vs) : vs[k].tp_size \in Nat \ {0}
         /\ CurrentRanks(vs) \in [0 .. Len(vs) -> Nat]
         /\ CurrentRanks(vs)[0] = 0
         /\ \A k \in 1 .. Len(vs) : CurrentRanks(vs)[k] = CurrentRanks(vs)[k - 1] + vs[k].tp_size
         /\ \A i, j \in 0 .. Len(vs) : i < j => CurrentRanks(vs)[i] < CurrentRanks(vs)[j]
<1> DEFINE sizes == [k \in DOMAIN vs |-> vs[k].tp_size]
<1>1. Len(vs) \in Nat /\ DOMAIN vs = 1 .. Len(vs)
  BY LenProperties
<1>2. \A k \in 1 .. Len(vs) : vs[k].tp_size \in Nat /\ vs[k].tp_size > 0
  <2> TAKE k \in 1 .. Len(vs)
  <2>1. vs[k] \in VNode
    BY <1>1, ElementOfSeq
  <2>2. vs[k].tp_size \in Sizes
    BY <2>1 DEF VNode
  <2>3. Sizes \subseteq Nat \ {0}
    BY DEF Sizes, LayoutAssumption
  <2>4. vs[k].tp_size \in Nat \ {0}
    BY <2>2, <2>3, Zenon
  <2>5. \A x \in Nat \ {0} : x \in Nat /\ x > 0
    OBVIOUS
  <2> QED BY <2>4, <2>5, Zenon
<1>3. sizes \in [1 .. Len(vs) -> Nat] /\ \A k \in 1 .. Len(vs) : sizes[k] = vs[k].tp_size
  BY <1>1, <1>2
<1> HIDE DEF sizes
<1>4. sizes \in Seq(Nat) /\ Len(sizes) = Len(vs)
  BY <1>1, <1>3, SeqDef
<1>5. CurrentRanks(vs) = PrefixSums(sizes)
  BY DEF CurrentRanks, sizes
<1>6. SumOf(CurrentRanks(vs), sizes, Len(vs))
  BY <1>4, <1>5, PrefixSumsIsSum
<1>7. \A i, j \in 0 .. Len(vs) : i < j => CurrentRanks(vs)[i] < CurrentRanks(vs)[j]
  BY <1>1, <1>2, <1>3, <1>6, SumsGrow
<1>8. /\ CurrentRanks(vs) \in [0 .. Len(vs) -> Nat] /\ CurrentRanks(vs)[0] = 0
      /\ \A k \in 1 .. Len(vs) : CurrentRanks(vs)[k] = CurrentRanks(vs)[k - 1] + sizes[k]
  BY <1>6 DEF SumOf
<1>9. \A k \in 1 .. Len(vs) : CurrentRanks(vs)[k] = CurrentRanks(vs)[k - 1] + vs[k].tp_size
  BY <1>3, <1>8, Zenon
<1>10. \A k \in 1 .. Len(vs) : vs[k].tp_size \in Nat \ {0}
  BY <1>2
<1> QED BY <1>1, <1>7, <1>8, <1>9, <1>10, Zenon

\* The ranks of one VNode.
LEMMA RanksOfOne ==
  ASSUME NEW rank \in Nat, NEW size \in Nat
  PROVE  /\ RanksFrom(rank, size) \in Seq(Nat) /\ Len(RanksFrom(rank, size)) = size
         /\ \A i \in 1 .. size : RanksFrom(rank, size)[i] = rank + i - 1
<1>1. RanksFrom(rank, size) \in [1 .. size -> Nat]
  BY DEF RanksFrom
<1>2. RanksFrom(rank, size) \in Seq(Nat) /\ Len(RanksFrom(rank, size)) = size
  BY <1>1, SeqDef
<1> QED BY <1>2 DEF RanksFrom

\* The loop of RankMappings, and that it has a result.
LoopBody(g, vs, n) ==
  [k \in 0 .. n |->
     IF k = 0 THEN <<>>
     ELSE Extend(g[k - 1], vs[k].node_ip, RanksFrom(CurrentRanks(vs)[k - 1], vs[k].tp_size))]

LEMMA LoopEnds ==
  ASSUME NEW vs, NEW l \in Nat
  PROVE  \E g : g = LoopBody(g, vs, l)
<1> DEFINE S == {n \in 0 .. l : ~ \E g : g = LoopBody(g, vs, n)}
<1>1. SUFFICES ASSUME S # {} PROVE FALSE
  OBVIOUS
<1>2. S \in SUBSET Nat
  OBVIOUS
<1>3. PICK n \in S : \A j \in S : n <= j
  <2> HIDE DEF S
  <2> QED BY <1>1, <1>2, LeastNumber
<1>4. n \in 0 .. l /\ ~ \E g : g = LoopBody(g, vs, n)
  OBVIOUS
<1> DEFINE R(k) == RanksFrom(CurrentRanks(vs)[k - 1], vs[k].tp_size)
<1>5. n # 0
  <2> SUFFICES ASSUME n = 0 PROVE FALSE
    OBVIOUS
  <2> DEFINE e == [k \in 0 .. 0 |-> <<>>]
  <2>1. e = LoopBody(e, vs, 0)
    BY DEF LoopBody
  <2> QED BY <1>4, <2>1
<1>6. n - 1 \in 0 .. l /\ n - 1 \notin S
  <2>1. n - 1 \in 0 .. l /\ ~ (n <= n - 1)
    BY <1>4, <1>5
  <2> HIDE DEF S
  <2> QED BY <1>3, <2>1
<1>7. PICK g : g = LoopBody(g, vs, n - 1)
  BY <1>6
<1> DEFINE h == [k \in 0 .. n |-> IF k < n THEN g[k] ELSE Extend(g[n - 1], vs[n].node_ip, R(n))]
<1>8. h = LoopBody(h, vs, n)
  <2>1. \A k \in 0 .. n - 1 :
          g[k] = IF k = 0 THEN <<>> ELSE Extend(g[k - 1], vs[k].node_ip, R(k))
    BY <1>7, Zenon DEF LoopBody
  <2> HIDE DEF R
  <2>2. \A k \in 0 .. n :
          h[k] = IF k < n THEN g[k] ELSE Extend(g[n - 1], vs[n].node_ip, R(n))
    OBVIOUS
  <2>3. h = [k \in 0 .. n |-> h[k]]
    OBVIOUS
  <2> HIDE DEF h
  <2>4. \A k \in 0 .. n :
          h[k] = IF k = 0 THEN <<>> ELSE Extend(h[k - 1], vs[k].node_ip, R(k))
    <3> TAKE k \in 0 .. n
    <3>1. CASE k = 0
      <4>1. k < n /\ k \in 0 .. n - 1
        BY <1>4, <1>5, <3>1
      <4>2. h[k] = g[k]
        BY <2>2, <4>1
      <4> QED BY <2>1, <3>1, <4>1, <4>2
    <3>2. CASE k # 0 /\ k < n
      <4>1. k \in 0 .. n - 1 /\ k - 1 \in 0 .. n /\ k - 1 < n
        BY <1>4, <3>2
      <4>2. h[k] = g[k] /\ h[k - 1] = g[k - 1]
        BY <2>2, <3>2, <4>1
      <4>3. g[k] = Extend(g[k - 1], vs[k].node_ip, R(k))
        BY <2>1, <3>2, <4>1
      <4> QED BY <3>2, <4>2, <4>3
    <3>3. CASE k = n
      <4>1. n - 1 \in 0 .. n /\ n - 1 < n /\ ~ (n < n)
        BY <1>4, <1>5
      <4>2. h[n - 1] = g[n - 1] /\ h[n] = Extend(g[n - 1], vs[n].node_ip, R(n))
        BY <1>4, <2>2, <3>3, <4>1
      <4> QED BY <1>5, <3>3, <4>2
    <3> QED BY <1>4, <3>1, <3>2, <3>3
  <2>5. LoopBody(h, vs, n) =
          [k \in 0 .. n |-> IF k = 0 THEN <<>> ELSE Extend(h[k - 1], vs[k].node_ip, R(k))]
    BY Zenon DEF LoopBody, R
  <2>6. [k \in 0 .. n |-> h[k]] =
          [k \in 0 .. n |-> IF k = 0 THEN <<>> ELSE Extend(h[k - 1], vs[k].node_ip, R(k))]
    BY <2>4, Zenon
  <2> QED BY <2>3, <2>5, <2>6, Zenon
<1> HIDE DEF h
<1> QED BY <1>4, <1>8

\* What the loop computes.
LEMMA RankMappingsLoop ==
  ASSUME NEW vs, Len(vs) \in Nat
  PROVE  /\ RankMappings(vs)[0] = <<>>
         /\ \A k \in 1 .. Len(vs) :
              RankMappings(vs)[k] =
                Extend(RankMappings(vs)[k - 1], vs[k].node_ip,
                       RanksFrom(CurrentRanks(vs)[k - 1], vs[k].tp_size))
<1>1. RankMappings(vs) = CHOOSE g : g = LoopBody(g, vs, Len(vs))
  BY Zenon DEF RankMappings, LoopBody
<1>2. \E g : g = LoopBody(g, vs, Len(vs))
  BY LoopEnds
<1>3. RankMappings(vs) = LoopBody(RankMappings(vs), vs, Len(vs))
  BY <1>1, <1>2, Zenon
<1> DEFINE m == RankMappings(vs)
           R(k) == RanksFrom(CurrentRanks(vs)[k - 1], vs[k].tp_size)
<1>4. m = [k \in 0 .. Len(vs) |->
             IF k = 0 THEN <<>> ELSE Extend(m[k - 1], vs[k].node_ip, R(k))]
  BY <1>3, Zenon DEF LoopBody
<1> HIDE DEF m, R
<1>5. m[0] = <<>>
  BY <1>4
<1>6. \A k \in 1 .. Len(vs) : m[k] = Extend(m[k - 1], vs[k].node_ip, R(k))
  BY <1>4
<1> QED BY <1>5, <1>6 DEF m, R

\* The ranks a node has after k VNodes.
RanksOn(vs, ip, k) ==
  {r \in Nat : \E i \in 1 .. k : /\ vs[i].node_ip = ip
                                 /\ CurrentRanks(vs)[i - 1] <= r /\ r < CurrentRanks(vs)[i]}

\* The mapping after k VNodes: each node has exactly these ranks, each once.
MappingOf(m, vs, k) ==
  /\ DOMAIN m = {vs[i].node_ip : i \in 1 .. k}
  /\ \A ip \in DOMAIN m : /\ m[ip] \in Seq(Nat)
                          /\ ToSet(m[ip]) = RanksOn(vs, ip, k)
                          /\ \A x, y \in DOMAIN m[ip] : m[ip][x] = m[ip][y] => x = y

LEMMA RanksAreBelow ==
  ASSUME LayoutAssumption, NEW vs \in Seq(VNode), NEW k \in 0 .. Len(vs), NEW ip
  PROVE  \A r \in RanksOn(vs, ip, k) : r \in Nat /\ r < CurrentRanks(vs)[k]
<1> DEFINE cr == CurrentRanks(vs)
<1>1. /\ Len(vs) \in Nat
      /\ \A i \in 0 .. Len(vs) : cr[i] \in Nat
      /\ \A i, j \in 0 .. Len(vs) : i < j => cr[i] < cr[j]
  BY CurrentRanksCount
<1> HIDE DEF cr
<1>2. SUFFICES ASSUME NEW r \in Nat, NEW i \in 1 .. k, r < cr[i] PROVE r < cr[k]
  BY DEF RanksOn, cr
<1>3. i \in 0 .. Len(vs) /\ (i = k \/ i < k)
  BY <1>1
<1>4. cr[i] \in Nat /\ cr[k] \in Nat /\ (i = k \/ cr[i] < cr[k])
  BY <1>1, <1>3
<1> QED BY <1>2, <1>4

\* Appending the next ranks to a list of lower ones.
LEMMA AppendRanks ==
  ASSUME NEW s \in Seq(Nat), NEW rank \in Nat, NEW size \in Nat,
         \A r \in ToSet(s) : r < rank,
         \A x, y \in DOMAIN s : s[x] = s[y] => x = y
  PROVE  /\ s \o RanksFrom(rank, size) \in Seq(Nat)
         /\ ToSet(s \o RanksFrom(rank, size)) = ToSet(s) \cup rank .. (rank + size - 1)
         /\ \A x, y \in DOMAIN (s \o RanksFrom(rank, size)) :
              (s \o RanksFrom(rank, size))[x] = (s \o RanksFrom(rank, size))[y] => x = y
<1> DEFINE R == RanksFrom(rank, size)
           c == s \o R
<1>1. /\ R \in Seq(Nat) /\ Len(R) = size /\ \A i \in 1 .. size : R[i] = rank + i - 1
  BY RanksOfOne
<1>2. Len(s) \in Nat /\ DOMAIN s = 1 .. Len(s) /\ \A i \in 1 .. Len(s) : s[i] \in Nat
  BY LenProperties, ElementOfSeq
<1> HIDE DEF R
<1>3. /\ c \in Seq(Nat) /\ Len(c) = Len(s) + size
      /\ \A i \in 1 .. Len(s) + size : c[i] = IF i <= Len(s) THEN s[i] ELSE R[i - Len(s)]
  BY <1>1, ConcatProperties
<1>4. DOMAIN c = 1 .. Len(s) + size
  BY <1>3, LenProperties
<1> HIDE DEF c
<1>5. \A i \in 1 .. Len(s) + size :
        c[i] = IF i <= Len(s) THEN s[i] ELSE rank + (i - Len(s)) - 1
  <2> TAKE i \in 1 .. Len(s) + size
  <2>1. CASE i <= Len(s)
    BY <1>3, <2>1
  <2>2. CASE ~ (i <= Len(s))
    <3>1. i - Len(s) \in 1 .. size
      BY <1>2, <2>2
    <3> QED BY <1>1, <1>3, <2>2, <3>1
  <2> QED BY <2>1, <2>2
<1>6. \A i \in 1 .. Len(s) : s[i] < rank
  BY <1>2 DEF ToSet
<1>7. ToSet(c) = ToSet(s) \cup rank .. (rank + size - 1)
  <2>1. ASSUME NEW r \in ToSet(c) PROVE r \in ToSet(s) \cup rank .. (rank + size - 1)
    <3>1. PICK i \in 1 .. Len(s) + size : r = c[i]
      BY <1>4, <2>1 DEF ToSet
    <3>2. CASE i <= Len(s)
      <4>1. i \in DOMAIN s /\ r = s[i]
        BY <1>2, <1>5, <3>1, <3>2
      <4> QED BY <4>1 DEF ToSet
    <3>3. CASE ~ (i <= Len(s))
      BY <1>2, <1>5, <3>1, <3>3
    <3> QED BY <3>2, <3>3
  <2>2. ASSUME NEW r \in ToSet(s) PROVE r \in ToSet(c)
    <3>1. PICK i \in 1 .. Len(s) : r = s[i]
      BY <1>2, <2>2 DEF ToSet
    <3>2. i \in 1 .. Len(s) + size /\ c[i] = r
      BY <1>2, <1>5, <3>1
    <3> QED BY <1>4, <3>2 DEF ToSet
  <2>3. ASSUME NEW r \in rank .. (rank + size - 1) PROVE r \in ToSet(c)
    <3> DEFINE i == Len(s) + (r - rank) + 1
    <3>1. i \in 1 .. Len(s) + size /\ ~ (i <= Len(s))
      BY <1>2
    <3>2. c[i] = rank + (i - Len(s)) - 1
      BY <1>5, <3>1
    <3>3. c[i] = r
      BY <1>2, <3>2
    <3> QED BY <1>4, <3>1, <3>3 DEF ToSet
  <2> QED BY <2>1, <2>2, <2>3
<1>8. ASSUME NEW x \in 1 .. Len(s) + size, NEW y \in 1 .. Len(s) + size, c[x] = c[y]
      PROVE  x = y
  <2>1. CASE x <= Len(s) /\ y <= Len(s)
    <3>1. x \in DOMAIN s /\ y \in DOMAIN s /\ s[x] = s[y]
      BY <1>2, <1>5, <1>8, <2>1
    <3> QED BY <3>1
  <2>2. CASE x <= Len(s) /\ ~ (y <= Len(s))
    BY <1>2, <1>5, <1>6, <1>8, <2>2
  <2>3. CASE ~ (x <= Len(s)) /\ y <= Len(s)
    BY <1>2, <1>5, <1>6, <1>8, <2>3
  <2>4. CASE ~ (x <= Len(s)) /\ ~ (y <= Len(s))
    BY <1>2, <1>5, <1>8, <2>4
  <2> QED BY <2>1, <2>2, <2>3, <2>4
<1> QED BY <1>3, <1>4, <1>7, <1>8 DEF c, R

\* One pass of the loop.
LEMMA MappingExtends ==
  ASSUME LayoutAssumption, NEW vs \in Seq(VNode), NEW k \in 1 .. Len(vs), NEW m,
         MappingOf(m, vs, k - 1)
  PROVE  MappingOf(Extend(m, vs[k].node_ip, RanksFrom(CurrentRanks(vs)[k - 1], vs[k].tp_size)),
                   vs, k)
<1> DEFINE cr == CurrentRanks(vs)
           own == vs[k].node_ip
           R == RanksFrom(cr[k - 1], vs[k].tp_size)
           e == Extend(m, own, R)
           Old(ip) == IF ip \in DOMAIN m THEN m[ip] ELSE <<>>
<1>1. /\ Len(vs) \in Nat /\ k - 1 \in 0 .. Len(vs) /\ k \in 0 .. Len(vs)
      /\ cr[k - 1] \in Nat /\ cr[k] \in Nat /\ vs[k].tp_size \in Nat
      /\ cr[k] = cr[k - 1] + vs[k].tp_size
  <2>1. Len(vs) \in Nat /\ k - 1 \in 0 .. Len(vs) /\ k \in 0 .. Len(vs)
    BY CurrentRanksCount
  <2>2. vs[k].tp_size \in Nat /\ cr[k] = cr[k - 1] + vs[k].tp_size /\ cr \in [0 .. Len(vs) -> Nat]
    BY CurrentRanksCount
  <2> HIDE DEF cr
  <2> QED BY <2>1, <2>2
<1>2. k \in 1 .. k /\ 1 .. k = (1 .. k - 1) \cup {k}
  BY <1>1
<1>3. \A ip : /\ Old(ip) \in Seq(Nat) /\ ToSet(Old(ip)) = RanksOn(vs, ip, k - 1)
              /\ \A x, y \in DOMAIN Old(ip) : Old(ip)[x] = Old(ip)[y] => x = y
  <2> TAKE ip
  <2>1. CASE ip \in DOMAIN m
    BY <2>1 DEF MappingOf
  <2>2. CASE ip \notin DOMAIN m
    <3>1. \A i \in 1 .. k - 1 : vs[i].node_ip # ip
      BY <2>2 DEF MappingOf
    <3>2. RanksOn(vs, ip, k - 1) = {}
      BY <3>1 DEF RanksOn
    <3>3. Old(ip) = <<>> /\ ToSet(<<>>) = {}
      BY <2>2 DEF ToSet
    <3>4. <<>> \in Seq(Nat) /\ \A x, y \in DOMAIN <<>> : x = y
      OBVIOUS
    <3> HIDE DEF Old
    <3> QED BY <3>2, <3>3, <3>4
  <2> QED BY <2>1, <2>2
<1>4. /\ DOMAIN e = DOMAIN m \cup {own}
      /\ \A ip \in DOMAIN e : e[ip] = Old(ip) \o (IF ip = own THEN R ELSE <<>>)
  BY DEF Extend
<1>5. DOMAIN e = {vs[i].node_ip : i \in 1 .. k}
  <2>1. DOMAIN m = {vs[i].node_ip : i \in 1 .. k - 1}
    BY DEF MappingOf
  <2> HIDE DEF e
  <2> QED BY <1>2, <1>4, <2>1
<1> HIDE DEF e, Old
<1>6. \A ip : RanksOn(vs, ip, k) =
                RanksOn(vs, ip, k - 1) \cup IF ip = own THEN cr[k - 1] .. (cr[k] - 1) ELSE {}
  <2> TAKE ip
  <2>1. RanksOn(vs, ip, k) =
          RanksOn(vs, ip, k - 1)
            \cup {r \in Nat : vs[k].node_ip = ip /\ cr[k - 1] <= r /\ r < cr[k]}
    BY <1>2, Zenon DEF RanksOn
  <2>2. {r \in Nat : cr[k - 1] <= r /\ r < cr[k]} = cr[k - 1] .. (cr[k] - 1)
    <3> HIDE DEF cr
    <3> QED BY <1>1
  <2>3. CASE ip = own
    BY <2>1, <2>2, <2>3
  <2>4. CASE ip # own
    BY <2>1, <2>4
  <2> QED BY <2>3, <2>4
<1>7. ASSUME NEW ip \in DOMAIN e
      PROVE  /\ e[ip] \in Seq(Nat) /\ ToSet(e[ip]) = RanksOn(vs, ip, k)
             /\ \A x, y \in DOMAIN e[ip] : e[ip][x] = e[ip][y] => x = y
  <2>1. CASE ip # own
    <3>1. e[ip] = Old(ip) \o <<>> /\ Old(ip) \in Seq(Nat)
      BY <1>3, <1>4, <2>1
    <3>2. e[ip] = Old(ip)
      BY <3>1, ConcatEmptySeq
    <3>3. RanksOn(vs, ip, k) = RanksOn(vs, ip, k - 1)
      BY <1>6, <2>1
    <3> QED BY <1>3, <3>2, <3>3
  <2>2. CASE ip = own
    <3>1. e[ip] = Old(ip) \o R
      BY <1>4, <2>2
    <3>2. \A r \in ToSet(Old(ip)) : r < cr[k - 1]
      BY <1>1, <1>3, RanksAreBelow
    <3>3. cr[k - 1] + vs[k].tp_size - 1 = cr[k] - 1
      BY <1>1
    <3>4. RanksOn(vs, ip, k) = RanksOn(vs, ip, k - 1) \cup cr[k - 1] .. (cr[k] - 1)
      BY <1>6, <2>2
    <3> HIDE DEF cr, own
    <3>5. /\ Old(ip) \o R \in Seq(Nat)
          /\ ToSet(Old(ip) \o R) = ToSet(Old(ip)) \cup cr[k - 1] .. (cr[k - 1] + vs[k].tp_size - 1)
          /\ \A x, y \in DOMAIN (Old(ip) \o R) : (Old(ip) \o R)[x] = (Old(ip) \o R)[y] => x = y
      BY <1>1, <1>3, <3>2, AppendRanks
    <3> QED BY <1>3, <3>1, <3>3, <3>4, <3>5
  <2> QED BY <2>1, <2>2
<1>8. MappingOf(e, vs, k)
  BY <1>5, <1>7 DEF MappingOf
<1> QED BY <1>8 DEF e

\* _generate_node_rank_mapping gives every VNode its ranks, on its node.
LEMMA RankMappingIs ==
  ASSUME LayoutAssumption, NEW vs \in Seq(VNode)
  PROVE  MappingOf(RankMapping(vs), vs, Len(vs))
<1> DEFINE M(k) == RankMappings(vs)[k]
           S == {k \in 0 .. Len(vs) : ~MappingOf(M(k), vs, k)}
<1>1. Len(vs) \in Nat
  BY LenProperties
<1>2. S = {} => MappingOf(M(Len(vs)), vs, Len(vs))
  <2> HIDE DEF M
  <2> QED BY <1>1
<1>3. SUFFICES ASSUME S # {} PROVE FALSE
  BY <1>2 DEF RankMapping
<1>4. S \in SUBSET Nat
  OBVIOUS
<1>5. PICK k \in S : \A j \in S : k <= j
  <2> HIDE DEF S
  <2> QED BY <1>3, <1>4, LeastNumber
<1>6. k \in 0 .. Len(vs) /\ ~MappingOf(M(k), vs, k)
  OBVIOUS
<1>7. k # 0
  <2>1. M(0) = <<>>
    BY <1>1, RankMappingsLoop
  <2>2. MappingOf(<<>>, vs, 0)
    BY DEF MappingOf
  <2> QED BY <1>6, <2>1, <2>2
<1>8. k \in 1 .. Len(vs) /\ k - 1 \in 0 .. Len(vs) /\ ~ (k <= k - 1)
  BY <1>1, <1>6, <1>7
<1>9. MappingOf(M(k - 1), vs, k - 1)
  <2> HIDE DEF M
  <2>1. k - 1 \notin S
    <3> HIDE DEF S
    <3> QED BY <1>5, <1>8
  <2> QED BY <1>8, <2>1
<1>10. M(k) = Extend(M(k - 1), vs[k].node_ip, RanksFrom(CurrentRanks(vs)[k - 1], vs[k].tp_size))
  BY <1>1, <1>8, RankMappingsLoop
<1> HIDE DEF M
<1> QED BY <1>6, <1>8, <1>9, <1>10, MappingExtends

\* Every rank belongs to one VNode, and is on the node of that VNode only.
LEMMA RankHasOneNode ==
  ASSUME LayoutAssumption, NEW vs \in Seq(VNode), NEW m, MappingOf(m, vs, Len(vs))
  PROVE  /\ \A r \in 0 .. CurrentRanks(vs)[Len(vs)] - 1 : \E ip \in DOMAIN m : r \in ToSet(m[ip])
         /\ \A ip \in DOMAIN m : ToSet(m[ip]) \subseteq 0 .. CurrentRanks(vs)[Len(vs)] - 1
         /\ \A r \in 0 .. CurrentRanks(vs)[Len(vs)] - 1 : \A i \in 1 .. Len(vs) :
              CurrentRanks(vs)[i - 1] <= r /\ r < CurrentRanks(vs)[i] =>
                /\ vs[i].node_ip \in DOMAIN m /\ r \in ToSet(m[vs[i].node_ip])
                /\ \A ip \in DOMAIN m : r \in ToSet(m[ip]) => ip = vs[i].node_ip
         /\ \A ip, jp \in DOMAIN m : ip # jp => ToSet(m[ip]) \cap ToSet(m[jp]) = {}
<1> DEFINE cr == CurrentRanks(vs)
           n == Len(vs)
<1>1. /\ n \in Nat /\ cr[0] = 0 /\ \A i \in 0 .. n : cr[i] \in Nat
      /\ \A i, j \in 0 .. n : i < j => cr[i] < cr[j]
  BY CurrentRanksCount
<1>2. \A ip \in DOMAIN m : ToSet(m[ip]) = RanksOn(vs, ip, n)
  BY DEF MappingOf
<1>3. \A i \in 1 .. n : vs[i].node_ip \in DOMAIN m
  BY DEF MappingOf
<1>4. \A ip \in DOMAIN m : \A r \in ToSet(m[ip]) : r \in Nat /\ r < cr[n]
  BY <1>1, <1>2, RanksAreBelow
<1>5. \A ip \in DOMAIN m : \A r \in ToSet(m[ip]) :
        \E i \in 1 .. n : vs[i].node_ip = ip /\ i \in StagesOf(n, cr, r)
  BY <1>2 DEF RanksOn, StagesOf
<1>6. \A r \in Nat : \A i \in 1 .. n :
        cr[i - 1] <= r /\ r < cr[i] => i \in StagesOf(n, cr, r) /\ r \in ToSet(m[vs[i].node_ip])
  BY <1>2, <1>3 DEF RanksOn, StagesOf
<1>7. \A r \in Nat : r < cr[n] => \E k \in 1 .. n : StagesOf(n, cr, r) = {k}
  <2> HIDE DEF cr, n
  <2> QED BY <1>1, OneStage
<1>8. \A r \in 0 .. cr[n] - 1 : r \in Nat /\ r < cr[n]
  <2> HIDE DEF cr
  <2> QED BY <1>1
<1>9. \A r \in Nat : r < cr[n] => r \in 0 .. cr[n] - 1
  <2> HIDE DEF cr
  <2> QED BY <1>1
<1>10. \A r \in Nat : r < cr[n] => \E ip \in DOMAIN m : r \in ToSet(m[ip])
  <2> TAKE r \in Nat
  <2> HAVE r < cr[n]
  <2>1. PICK k \in 1 .. n : StagesOf(n, cr, r) = {k}
    BY <1>7
  <2>2. cr[k - 1] <= r /\ r < cr[k]
    BY <2>1, Zenon DEF StagesOf
  <2> QED BY <1>3, <1>6, <2>2
<1>11. \A r \in Nat : \A i \in 1 .. n : \A ip \in DOMAIN m :
         r < cr[n] /\ cr[i - 1] <= r /\ r < cr[i] /\ r \in ToSet(m[ip]) => ip = vs[i].node_ip
  <2> TAKE r \in Nat
  <2> TAKE i \in 1 .. n
  <2> TAKE ip \in DOMAIN m
  <2> HAVE r < cr[n] /\ cr[i - 1] <= r /\ r < cr[i] /\ r \in ToSet(m[ip])
  <2>1. PICK k \in 1 .. n : StagesOf(n, cr, r) = {k}
    BY <1>7
  <2>2. PICK j \in 1 .. n : vs[j].node_ip = ip /\ j \in StagesOf(n, cr, r)
    BY <1>5
  <2>3. i \in StagesOf(n, cr, r)
    BY <1>6
  <2> HIDE DEF cr, n
  <2> QED BY <2>1, <2>2, <2>3
<1>12. \A ip, jp \in DOMAIN m : ip # jp => ToSet(m[ip]) \cap ToSet(m[jp]) = {}
  <2> SUFFICES ASSUME NEW ip \in DOMAIN m, NEW jp \in DOMAIN m,
                      NEW r \in ToSet(m[ip]), r \in ToSet(m[jp])
               PROVE  ip = jp
    BY Zenon
  <2>1. PICK i \in 1 .. n : vs[i].node_ip = ip /\ i \in StagesOf(n, cr, r)
    BY <1>5
  <2>2. cr[i - 1] <= r /\ r < cr[i]
    BY <2>1, Zenon DEF StagesOf
  <2> QED BY <1>4, <1>11, <2>1, <2>2
<1>13. \A ip \in DOMAIN m : ToSet(m[ip]) \subseteq 0 .. cr[n] - 1
  BY <1>4, <1>9
<1>14. \A r \in 0 .. cr[n] - 1 : \A i \in 1 .. n :
         cr[i - 1] <= r /\ r < cr[i] =>
           /\ vs[i].node_ip \in DOMAIN m /\ r \in ToSet(m[vs[i].node_ip])
           /\ \A ip \in DOMAIN m : r \in ToSet(m[ip]) => ip = vs[i].node_ip
  BY <1>3, <1>6, <1>8, <1>11
<1> QED BY <1>8, <1>10, <1>12, <1>13, <1>14

\* The ranks are as many as the sizes of the VNodes add up to, and contiguous:
\* create_placement_group_and_bundle_indices does not raise.
LEMMA RanksAreContiguous ==
  ASSUME LayoutAssumption, NEW vs \in Seq(VNode), NEW m, MappingOf(m, vs, Len(vs))
  PROVE  TotalRanks(m) = CurrentRanks(vs)[Len(vs)] /\ RanksContiguous(m)
<1> DEFINE t == CurrentRanks(vs)[Len(vs)]
           P == UNION {{ip} \X DOMAIN m[ip] : ip \in DOMAIN m}
           f == [p \in P |-> m[p[1]][p[2]]]
<1>1. t \in Nat
  BY CurrentRanksCount
<1>2. /\ \A r \in 0 .. t - 1 : \E ip \in DOMAIN m : r \in ToSet(m[ip])
      /\ \A ip \in DOMAIN m : ToSet(m[ip]) \subseteq 0 .. t - 1
      /\ \A ip, jp \in DOMAIN m : ip # jp => ToSet(m[ip]) \cap ToSet(m[jp]) = {}
  BY RankHasOneNode
<1> HIDE DEF t
<1>3. \A p \in P : /\ p = <<p[1], p[2]>> /\ p[1] \in DOMAIN m /\ p[2] \in DOMAIN m[p[1]]
                   /\ m[p[1]][p[2]] \in ToSet(m[p[1]])
  BY DEF ToSet
<1>4. \A ip \in DOMAIN m : \A x \in DOMAIN m[ip] : <<ip, x>> \in P
  OBVIOUS
<1> HIDE DEF P
<1>5. f \in [P -> 0 .. t - 1]
  BY <1>2, <1>3
<1>6. \A p, q \in P : f[p] = f[q] => p = q
  <2> TAKE p \in P, q \in P
  <2> HAVE f[p] = f[q]
  <2>1. m[p[1]][p[2]] = m[q[1]][q[2]]
    OBVIOUS
  <2>2. p[1] = q[1]
    BY <1>2, <1>3, <2>1
  <2>3. p[2] = q[2]
    BY <1>3, <2>1, <2>2 DEF MappingOf
  <2> QED BY <1>3, <2>2, <2>3
<1>7. \A r \in 0 .. t - 1 : \E p \in P : f[p] = r
  <2> TAKE r \in 0 .. t - 1
  <2>1. PICK ip \in DOMAIN m : r \in ToSet(m[ip])
    BY <1>2
  <2>2. PICK x \in DOMAIN m[ip] : m[ip][x] = r
    BY <2>1 DEF ToSet
  <2>3. <<ip, x>> \in P /\ f[<<ip, x>>] = r
    BY <1>4, <2>2
  <2> QED BY <2>3
<1> HIDE DEF f
<1>8. f \in Bijection(P, 0 .. t - 1)
  BY <1>5, <1>6, <1>7 DEF Bijection, Injection, Surjection, IsInjective
<1>9. IsFiniteSet(0 .. t - 1) /\ Cardinality(0 .. t - 1) = t
  <2>1. t - 1 \in Int /\ (IF 0 > t - 1 THEN 0 ELSE (t - 1) - 0 + 1) = t
    BY <1>1
  <2> QED BY <2>1, FS_Interval
<1>10. Cardinality(P) = t
  <2>1. f \in Injection(P, 0 .. t - 1) /\ f \in Surjection(P, 0 .. t - 1)
    BY <1>8 DEF Bijection
  <2> QED BY <1>9, <2>1, FS_Injection
<1>11. TotalRanks(m) = t
  BY <1>10 DEF TotalRanks, P
<1>12. UNION {ToSet(m[ip]) : ip \in DOMAIN m} = 0 .. t - 1
  BY <1>2
<1> QED BY <1>2, <1>11, <1>12 DEF RanksContiguous, t

\* The node of a rank is the node of the VNode it belongs to.
LEMMA NodeOfRank ==
  ASSUME LayoutAssumption, NEW vs \in Seq(VNode), NEW m, MappingOf(m, vs, Len(vs)),
         NEW r \in 0 .. CurrentRanks(vs)[Len(vs)] - 1
  PROVE  /\ RankToIp(m, r) \in DOMAIN m /\ r \in ToSet(m[RankToIp(m, r)])
         /\ \A ip \in DOMAIN m : r \in ToSet(m[ip]) => ip = RankToIp(m, r)
         /\ \A i \in 1 .. Len(vs) :
              CurrentRanks(vs)[i - 1] <= r /\ r < CurrentRanks(vs)[i] =>
                RankToIp(m, r) = vs[i].node_ip
<1>1. \E ip \in DOMAIN m : r \in ToSet(m[ip])
  BY RankHasOneNode
<1>2. RankToIp(m, r) \in DOMAIN m /\ r \in ToSet(m[RankToIp(m, r)])
  BY <1>1, Zenon DEF RankToIp
<1>3. \A ip \in DOMAIN m : r \in ToSet(m[ip]) => ip = RankToIp(m, r)
  BY <1>2, RankHasOneNode
<1>4. \A i \in 1 .. Len(vs) :
        CurrentRanks(vs)[i - 1] <= r /\ r < CurrentRanks(vs)[i] =>
          RankToIp(m, r) = vs[i].node_ip
  BY <1>2, RankHasOneNode
<1> QED BY <1>2, <1>3, <1>4

\* The ranks of each node from b on.
RanksFromOn(m, b) == [ip \in DOMAIN m |-> {r \in ToSet(m[ip]) : b <= r}]

LEMMA LowestNumber ==
  ASSUME NEW S \in SUBSET Nat, NEW x \in S, \A y \in S : x <= y
  PROVE  Min(S) = x
<1>1. \A z \in S : (\A y \in S : z <= y) => z = x
  <2> TAKE z \in S
  <2> HAVE \A y \in S : z <= y
  <2>1. z <= x /\ x <= z /\ x \in Nat /\ z \in Nat
    OBVIOUS
  <2> QED BY <2>1
<1>2. Min(S) \in S /\ \A y \in S : Min(S) <= y
  BY Zenon DEF Min
<1> QED BY <1>1, <1>2

\* Bundle b takes rank b, since the ranks below it are taken already.
LEMMA BundleTakesItsRank ==
  ASSUME LayoutAssumption, NEW vs \in Seq(VNode), NEW m, MappingOf(m, vs, Len(vs)),
         NEW b \in 0 .. CurrentRanks(vs)[Len(vs)] - 1
  PROVE  /\ Min(RanksFromOn(m, b)[RankToIp(m, b)]) = b
         /\ PopLowest(RanksFromOn(m, b), RankToIp(m, b)) = RanksFromOn(m, b + 1)
<1> DEFINE own == RankToIp(m, b)
           rest == RanksFromOn(m, b)
<1>1. own \in DOMAIN m /\ b \in ToSet(m[own]) /\ \A ip \in DOMAIN m : b \in ToSet(m[ip]) => ip = own
  BY NodeOfRank
<1>2. \A ip \in DOMAIN m : ToSet(m[ip]) \subseteq Nat
  BY DEF MappingOf, RanksOn
<1>3. b \in Nat /\ CurrentRanks(vs)[Len(vs)] \in Nat
  BY CurrentRanksCount
<1> HIDE DEF own
<1>4. DOMAIN rest = DOMAIN m /\ \A ip \in DOMAIN m : rest[ip] = {r \in ToSet(m[ip]) : b <= r}
  BY DEF RanksFromOn
<1> HIDE DEF rest
<1>5. Min(rest[own]) = b
  <2>1. rest[own] \in SUBSET Nat /\ b \in rest[own] /\ \A y \in rest[own] : b <= y
    BY <1>1, <1>2, <1>3, <1>4
  <2> QED BY <2>1, LowestNumber
<1>6. PopLowest(rest, own) = [ip \in DOMAIN m |-> IF ip = own THEN rest[own] \ {b} ELSE rest[ip]]
  <2>1. rest = [ip \in DOMAIN m |-> rest[ip]]
    BY <1>4 DEF rest, RanksFromOn
  <2>2. PopLowest(rest, own) = [rest EXCEPT ![own] = rest[own] \ {b}]
    BY <1>5 DEF PopLowest
  <2> QED BY <1>1, <1>4, <2>1, <2>2
<1>7. \A ip \in DOMAIN m :
        (IF ip = own THEN rest[own] \ {b} ELSE rest[ip]) = {r \in ToSet(m[ip]) : b + 1 <= r}
  <2> TAKE ip \in DOMAIN m
  <2>1. \A r \in ToSet(m[ip]) : r \in Nat /\ (b + 1 <= r <=> b <= r /\ r # b)
    BY <1>2, <1>3
  <2>2. CASE ip = own
    BY <1>4, <2>1, <2>2
  <2>3. CASE ip # own
    <3>1. b \notin ToSet(m[ip])
      BY <1>1, <2>3
    <3> QED BY <1>4, <2>1, <2>3, <3>1
  <2> QED BY <2>2, <2>3
<1>8. PopLowest(rest, own) = [ip \in DOMAIN m |-> {r \in ToSet(m[ip]) : b + 1 <= r}]
  BY <1>6, <1>7
<1> QED BY <1>5, <1>8 DEF rest, own, RanksFromOn

\* What remains after b bundles are the ranks from b on.
LEMMA RemainingRanksAre ==
  ASSUME LayoutAssumption, NEW vs \in Seq(VNode), NEW m, MappingOf(m, vs, Len(vs))
  PROVE  \A b \in 0 .. CurrentRanks(vs)[Len(vs)] : RemainingRanks(m)[b] = RanksFromOn(m, b)
<1> DEFINE t == CurrentRanks(vs)[Len(vs)]
           Body(f) == [b \in 0 .. TotalRanks(m) |->
                         IF b = 0 THEN [ip \in DOMAIN m |-> ToSet(m[ip])]
                         ELSE PopLowest(f[b - 1], RankToIp(m, b - 1))]
           all == [ip \in DOMAIN m |-> ToSet(m[ip])]
           g == [b \in 0 .. t |-> RanksFromOn(m, b)]
<1>1. t \in Nat /\ TotalRanks(m) = t
  BY CurrentRanksCount, RanksAreContiguous
<1>2. \A b \in 0 .. t - 1 : PopLowest(RanksFromOn(m, b), RankToIp(m, b)) = RanksFromOn(m, b + 1)
  BY BundleTakesItsRank
<1>3. all = RanksFromOn(m, 0)
  <2>1. \A ip \in DOMAIN m : \A r \in ToSet(m[ip]) : 0 <= r
    BY DEF MappingOf, RanksOn
  <2>2. \A ip \in DOMAIN m : {r \in ToSet(m[ip]) : 0 <= r} = ToSet(m[ip])
    BY <2>1
  <2> QED BY <2>2 DEF RanksFromOn
<1> HIDE DEF t, all
<1>4. \A b \in 1 .. t : /\ b - 1 \in 0 .. t - 1 /\ b - 1 \in 0 .. t /\ b \in 0 .. t /\ b # 0
                        /\ (b - 1) + 1 = b
  BY <1>1
<1>5. \A b \in 1 .. t : PopLowest(RanksFromOn(m, b - 1), RankToIp(m, b - 1)) = RanksFromOn(m, b)
  <2> TAKE b \in 1 .. t
  <2>1. b - 1 \in 0 .. t - 1 /\ (b - 1) + 1 = b
    BY <1>4
  <2>2. PopLowest(RanksFromOn(m, b - 1), RankToIp(m, b - 1)) = RanksFromOn(m, (b - 1) + 1)
    BY <1>2, <2>1, Zenon
  <2> QED BY <2>1, <2>2, Zenon
<1>6. \A f : Body(f) = [b \in 0 .. t |-> IF b = 0 THEN all
                                        ELSE PopLowest(f[b - 1], RankToIp(m, b - 1))]
  BY <1>1 DEF all
<1>7. g = Body(g)
  <2>1. \A b \in 0 .. t : g[b] = IF b = 0 THEN all ELSE PopLowest(g[b - 1], RankToIp(m, b - 1))
    <3> TAKE b \in 0 .. t
    <3>1. CASE b = 0
      BY <1>3, <3>1
    <3>2. CASE b # 0
      <4>1. b \in 1 .. t
        BY <1>1, <3>2
      <4>2. g[b] = RanksFromOn(m, b) /\ g[b - 1] = RanksFromOn(m, b - 1)
        BY <1>4, <4>1
      <4> HIDE DEF g
      <4> QED BY <1>5, <3>2, <4>1, <4>2
    <3> QED BY <3>1, <3>2
  <2>2. g = [b \in 0 .. t |-> g[b]]
    OBVIOUS
  <2>3. Body(g) = [b \in 0 .. t |-> IF b = 0 THEN all
                                  ELSE PopLowest(g[b - 1], RankToIp(m, b - 1))]
    <3> HIDE DEF Body, g
    <3> QED BY <1>6, Zenon
  <2> HIDE DEF g, Body
  <2> QED BY <2>1, <2>2, <2>3
<1>8. RemainingRanks(m) = CHOOSE f : f = Body(f)
  BY Zenon DEF RemainingRanks
<1>9. RemainingRanks(m) = Body(RemainingRanks(m))
  <2> HIDE DEF Body, g
  <2> QED BY <1>7, <1>8, Zenon
<1> DEFINE f == RemainingRanks(m)
<1> HIDE DEF f
<1>10. f = [b \in 0 .. t |-> IF b = 0 THEN all ELSE PopLowest(f[b - 1], RankToIp(m, b - 1))]
  <2> HIDE DEF Body
  <2> QED BY <1>6, <1>9, Zenon DEF f
<1>11. f[0] = all /\ \A b \in 1 .. t : f[b] = PopLowest(f[b - 1], RankToIp(m, b - 1))
  <2> HIDE DEF Body, g
  <2>1. 0 \in 0 .. t
    BY <1>1
  <2> QED BY <1>4, <1>10, <2>1
<1> DEFINE S == {b \in 0 .. t : f[b] # RanksFromOn(m, b)}
<1>12. SUFFICES ASSUME S # {} PROVE FALSE
  BY DEF f, t
<1>13. S \in SUBSET Nat
  BY <1>1
<1>14. PICK b \in S : \A c \in S : b <= c
  <2> HIDE DEF S
  <2> QED BY <1>12, <1>13, LeastNumber
<1>15. b \in 0 .. t /\ f[b] # RanksFromOn(m, b)
  OBVIOUS
<1>16. b \in 1 .. t
  BY <1>1, <1>3, <1>11, <1>15
<1>17. b - 1 \in 0 .. t /\ ~ (b <= b - 1)
  BY <1>1, <1>16
<1>18. f[b - 1] = RanksFromOn(m, b - 1)
  <2>1. b - 1 \notin S
    <3> HIDE DEF S
    <3> QED BY <1>14, <1>17
  <2> QED BY <1>17, <2>1
<1> HIDE DEF S, Body, g
<1> QED BY <1>5, <1>11, <1>15, <1>16, <1>18

\* Rank r gets bundle r.
LEMMA BundleOfRank ==
  ASSUME LayoutAssumption, NEW vs \in Seq(VNode), NEW m, MappingOf(m, vs, Len(vs))
  PROVE  AssignBundles(m) = [r \in 0 .. CurrentRanks(vs)[Len(vs)] - 1 |-> r]
<1> DEFINE t == CurrentRanks(vs)[Len(vs)]
           a == AssignedRanks(m)
<1>1. t \in Nat /\ TotalRanks(m) = t
  BY CurrentRanksCount, RanksAreContiguous
<1>2. \A b \in 0 .. t - 1 : Min(RemainingRanks(m)[b][RankToIp(m, b)]) = b
  <2> TAKE b \in 0 .. t - 1
  <2>1. b \in 0 .. t
    <3> HIDE DEF t
    <3> QED BY <1>1
  <2>2. RemainingRanks(m)[b] = RanksFromOn(m, b)
    BY <2>1, RemainingRanksAre
  <2>3. Min(RanksFromOn(m, b)[RankToIp(m, b)]) = b
    BY BundleTakesItsRank
  <2> QED BY <2>2, <2>3
<1> HIDE DEF t
<1>3. a = [b \in 0 .. t - 1 |-> b]
  BY <1>1, <1>2 DEF AssignedRanks
<1> HIDE DEF a
<1>4. DOMAIN a = 0 .. t - 1 /\ Range(a) = 0 .. t - 1 /\ \A b \in 0 .. t - 1 : a[b] = b
  BY <1>3 DEF Range
<1>5. AntiFunction(a) = [r \in 0 .. t - 1 |-> CHOOSE b \in 0 .. t - 1 : r \in Range(a) => a[b] = r]
  BY <1>4 DEF AntiFunction, Inverse
<1>6. \A r \in 0 .. t - 1 : (CHOOSE b \in 0 .. t - 1 : r \in Range(a) => a[b] = r) = r
  <2> TAKE r \in 0 .. t - 1
  <2> DEFINE Q(b) == r \in Range(a) => a[b] = r
  <2>1. Q(r) /\ \A b \in 0 .. t - 1 : Q(b) => b = r
    BY <1>4
  <2> HIDE DEF Q
  <2>2. (CHOOSE b \in 0 .. t - 1 : Q(b)) = r
    BY <2>1
  <2> QED BY <2>2 DEF Q
<1> QED BY <1>5, <1>6 DEF AssignBundles, a, t

\* The ranks and bundles of a pipeline that serves are those of its VNodes.
RankInv ==
  /\ phase # "raised"
  /\ phase \in {"bundle", "ready"} => node_rank_mapping = RankMapping(vnodes)
  /\ phase = "ready" => bundle_indices = AssignBundles(node_rank_mapping)

LEMMA RanksNext ==
  ASSUME LayoutAssumption, LayoutTypes, RankInv, [Next]_vars
  PROVE  RankInv'
<1>1. CASE CheckLayers
  BY <1>1 DEF CheckLayers, RankInv
<1>2. CASE CreateVNode
  BY <1>2 DEF CreateVNode, RankInv
<1>3. CASE validate_gpu_allocation
  BY <1>3 DEF validate_gpu_allocation, RankInv
<1>4. CASE generate_node_rank_mapping
  BY <1>4 DEF generate_node_rank_mapping, RankInv
<1>5. CASE create_placement_group_and_bundle_indices
  <2>1. /\ phase = "bundle"
        /\ IF RanksContiguous(node_rank_mapping)
           THEN bundle_indices' = AssignBundles(node_rank_mapping) /\ phase' = "ready"
           ELSE bundle_indices' = <<>> /\ phase' = "raised"
        /\ vnodes' = vnodes /\ node_rank_mapping' = node_rank_mapping
    BY <1>5 DEF create_placement_group_and_bundle_indices
  <2>2. node_rank_mapping = RankMapping(vnodes)
    BY <2>1 DEF RankInv
  <2>3. RanksContiguous(node_rank_mapping)
    BY <2>2, RankMappingIs, RanksAreContiguous DEF LayoutTypes
  <2>4. /\ phase' = "ready" /\ bundle_indices' = AssignBundles(node_rank_mapping')
        /\ node_rank_mapping' = RankMapping(vnodes')
    BY <2>1, <2>2, <2>3
  <2> QED BY <2>4 DEF RankInv
<1>6. ASSUME NEW pairs \in SwitchPairs, switch_nodes(pairs)
      PROVE  RankInv'
  <2>1. phase' = "rank"
    BY <1>6 DEF switch_nodes, Replace
  <2> QED BY <2>1 DEF RankInv
<1>7. CASE UNCHANGED vars
  BY <1>7 DEF vars, RankInv
<1>8. CASE Done
  BY <1>8 DEF Done, vars, RankInv
<1> QED BY <1>1, <1>2, <1>3, <1>4, <1>5, <1>6, <1>7, <1>8 DEF Next

\* The engine counts ranks as the VNodes do, if they have the sizes it knows.
LEMMA EngineCounts ==
  ASSUME LayoutAssumption, LayoutTypes, phase = "ready",
         \A k \in DOMAIN vnodes : vnodes[k].tp_size = parallel_strategy[k]
  PROVE  PrefixSums(parallel_strategy) = CurrentRanks(vnodes)
<1>1. Len(vnodes) = Len(node_layer_mapping) /\ Len(parallel_strategy) = Len(node_layer_mapping)
  BY DEF LayoutTypes, Accepted
<1>2. DOMAIN vnodes = DOMAIN parallel_strategy
  BY <1>1, LenProperties DEF LayoutTypes
<1>3. parallel_strategy = [k \in DOMAIN parallel_strategy |-> parallel_strategy[k]]
  BY LenProperties DEF LayoutTypes
<1>4. [k \in DOMAIN vnodes |-> vnodes[k].tp_size] = parallel_strategy
  BY <1>2, <1>3
<1> QED BY <1>4 DEF CurrentRanks

LEMMA RanksAreOnStages ==
  ASSUME LayoutAssumption, LayoutTypes, RankInv
  PROVE  RankOnItsStage
<1>1. phase # "raised"
  BY DEF RankInv
<1>2. SUFFICES ASSUME phase = "ready",
                      \A k \in DOMAIN vnodes : vnodes[k].tp_size = parallel_strategy[k]
               PROVE  /\ IsInjective(bundle_indices)
                      /\ \A k \in DOMAIN vnodes : \A r \in FirstRank(k) .. FirstRank(k + 1) - 1 :
                           RankToIp(node_rank_mapping, bundle_indices[r]) = vnodes[k].node_ip
  BY <1>1 DEF RankOnItsStage
<1> DEFINE cr == CurrentRanks(vnodes)
           n == Len(vnodes)
<1>3. vnodes \in Seq(VNode) /\ node_rank_mapping = RankMapping(vnodes)
  BY <1>2 DEF LayoutTypes, RankInv
<1>4. MappingOf(node_rank_mapping, vnodes, n)
  BY <1>3, RankMappingIs
<1>5. bundle_indices = [r \in 0 .. cr[n] - 1 |-> r]
  <2>1. bundle_indices = AssignBundles(node_rank_mapping)
    BY <1>2 DEF RankInv
  <2> QED BY <1>3, <1>4, <2>1, BundleOfRank
<1>6. /\ n \in Nat /\ DOMAIN vnodes = 1 .. n
      /\ \A i \in 0 .. n : cr[i] \in Nat
      /\ \A i, j \in 0 .. n : i < j => cr[i] < cr[j]
  BY <1>3, CurrentRanksCount
<1>7. IsInjective(bundle_indices)
  <2> HIDE DEF cr
  <2> QED BY <1>5 DEF IsInjective
<1>8. ASSUME NEW k \in DOMAIN vnodes, NEW r \in FirstRank(k) .. FirstRank(k + 1) - 1
      PROVE  RankToIp(node_rank_mapping, bundle_indices[r]) = vnodes[k].node_ip
  <2>1. k \in 1 .. n /\ k - 1 \in 0 .. n /\ k \in 0 .. n /\ (k + 1) - 1 = k
    BY <1>6
  <2>2. FirstRank(k) = cr[k - 1] /\ FirstRank(k + 1) = cr[k]
    BY <1>2, <2>1, EngineCounts DEF FirstRank
  <2> HIDE DEF cr
  <2>3. cr[k - 1] \in Nat /\ cr[k] \in Nat /\ cr[n] \in Nat /\ cr[k] <= cr[n]
    <3>1. k = n \/ k < n
      BY <1>6, <2>1
    <3>2. n \in 0 .. n
      BY <1>6
    <3> QED BY <1>6, <2>1, <3>1, <3>2
  <2>4. r \in 0 .. cr[n] - 1 /\ cr[k - 1] <= r /\ r < cr[k]
    BY <1>8, <2>2, <2>3
  <2>5. bundle_indices[r] = r
    BY <1>5, <2>4
  <2>6. RankToIp(node_rank_mapping, r) = vnodes[k].node_ip
    BY <1>3, <1>4, <2>1, <2>4, NodeOfRank DEF cr
  <2> QED BY <2>5, <2>6
<1> QED BY <1>7, <1>8
-----------------------------------------------------------------------------
(* The theorems.                                                           *)

\* The assignments to the VNodes have the types of LayoutTypes.
THEOREM LayoutTypesHold == Spec => []LayoutTypes
<1>1. LayoutAssumption
  BY LayoutAssumption
<1>2. Init => LayoutTypes
  BY <1>1, TypesInit
<1>3. LayoutTypes /\ [Next]_vars => LayoutTypes'
  BY <1>1, TypesNext
<1> QED BY <1>2, <1>3, PTL DEF Spec

\* initialize_pipeline and any number of switch_nodes leave VNodes that load
\* every index of every tensor of the model, each exactly once, whatever the
\* sizes of the nodes, as long as every size was uploaded.
THEOREM ModelIsLoaded == Spec => []WholeModelLoaded
<1>1. LayoutAssumption /\ UploadAssumption
  BY LayoutAssumption, UploadAssumption
<1>2. Init => LayerInv
  BY <1>1, LayersInit
<1>3. LayoutTypes /\ LayerInv /\ [Next]_vars => LayerInv'
  BY <1>1, LayersNext
<1>4. LayoutTypes /\ LayerInv => WholeModelLoaded
  BY <1>1, WholeModel
<1> QED BY <1>2, <1>3, <1>4, LayoutTypesHold, PTL DEF Spec

\* The VNodes of an accepted pipeline never share a GPU, though a switch changes
\* their sizes without _validate_gpu_allocation, as long as switches go to fresh
\* nodes; and pipelines whose start_local_ranks are all left to the loop are
\* never rejected for it.
THEOREM VNodesShareNoGpu == Spec => []GpusDisjoint
<1>1. LayoutAssumption
  BY LayoutAssumption
<1>2. Init => LayerInv /\ DisjointInv
  BY <1>1, LayersInit, DisjointInit
<1>3. LayoutTypes /\ LayerInv /\ DisjointInv /\ [Next]_vars => LayerInv' /\ DisjointInv'
  BY <1>1, LayersNext, DisjointNext
<1>4. DisjointInv => GpusDisjoint
  <2>1. ~AllAutomatic => \E e \in ToSet(node_layer_mapping) : e.start # NoStart
    BY DEF AllAutomatic, ToSet
  <2> QED BY <2>1 DEF DisjointInv, GpusDisjoint, NoConflicts, Accepted
<1> QED BY <1>2, <1>3, <1>4, LayoutTypesHold, PTL DEF Spec

\* When every node of a pipeline has one VNode that starts at its first GPU, no
\* VNode stays on a node that was switched, and every VNode that moved uses
\* only GPUs its node has, after any number of switches to fresh nodes.
THEOREM SwitchesAreComplete == Spec => []SwitchComplete
<1>1. LayoutAssumption
  BY LayoutAssumption
<1>2. Init => PlaceInv
  BY <1>1, PlaceInit
<1>3. LayoutTypes /\ PlaceInv /\ [Next]_vars => PlaceInv'
  BY <1>1, PlaceNext
<1>4. LayoutTypes /\ PlaceInv => SwitchComplete
  <2> SUFFICES ASSUME LayoutTypes, PlaceInv, OneVNodePerNode, ~ reused
               PROVE  /\ PipelineIps \cap left = {}
                      /\ \A k \in DOMAIN vnodes :
                           vnodes[k].node_ip # node_layer_mapping[k].node_ip =>
                             \A r \in LocalRanks(vnodes[k]) : r < gpus[vnodes[k].node_ip]
    BY DEF SwitchComplete
  <2>1. \A k \in DOMAIN vnodes : vnodes[k] \in VNode
    BY LenProperties, ElementOfSeq DEF LayoutTypes
  <2>2. \A k \in DOMAIN vnodes : gpus[vnodes[k].node_ip] \in Nat
    BY <1>1, <2>1 DEF VNode, LayoutAssumption
  <2> QED BY <2>2 DEF PlaceInv, LocalRanks
<1> QED BY <1>2, <1>3, <1>4, LayoutTypesHold, PTL DEF Spec

\* _generate_node_rank_mapping never gives the API server a mapping it rejects,
\* and until a switch changes the size of a VNode every rank of a stage gets a
\* bundle of its own on the node that loads the stage's layers, for mappings of
\* any length, also if a node has several VNodes with others between them.
THEOREM RanksMeetTheirStages == Spec => []RankOnItsStage
<1>1. LayoutAssumption
  BY LayoutAssumption
<1>2. Init => RankInv
  BY DEF Init, RankInv
<1>3. LayoutTypes /\ RankInv /\ [Next]_vars => RankInv'
  BY <1>1, RanksNext
<1>4. LayoutTypes /\ RankInv => RankOnItsStage
  BY <1>1, RanksAreOnStages
<1> QED BY <1>2, <1>3, <1>4, LayoutTypesHold, PTL DEF Spec
=============================================================================
