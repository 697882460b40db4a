--------------------------- MODULE PipelineLayout ----------------------------
(***************************************************************************)
(* Which layers, GPUs, ranks and placement-group bundles the VNodes of a   *)
(* pipeline get: the loop of Pipeline.initialize_pipeline,                 *)
(* _validate_gpu_allocation, _generate_node_rank_mapping and the           *)
(* replacement of VNodes in switch_nodes (GlobalServer/VNode.py), and      *)
(* create_placement_group_and_bundle_indices (utils.py).                   *)
(*                                                                         *)
(* One thread does all of it; processes and their failures are in          *)
(* PipelineSwitch, TensorStore and RayConnection.                          *)
(***************************************************************************)
EXTENDS Integers, Sequences, FiniteSets, SequencesExt, TensorPartition

CONSTANTS
  Nodes,              \* node IPs
  FirstNodes,         \* the nodes pipelines are created on
  gpus,               \* the number of GPUs Ray reports for each node
  NoStart,            \* no start_local_rank in the entry (a 2-tuple)
  StartRanks,         \* the start_local_ranks given in 3-tuples
  TpSizes,            \* the values in parallel_strategy
  LayerCounts,        \* the numbers of layers in an entry
  total_num_layers,   \* of the model
  vocab_size, dim,    \* the sizes of the model's tensors
  VOCAB_PADDING_SIZE, \* 64
  MaxEntries,         \* bound: entries of a node_layer_mapping
  MaxSwitches         \* bound: switches

ASSUME LayoutAssumption ==
  /\ FirstNodes \subseteq Nodes
  /\ gpus \in [Nodes -> Nat \ {0}]
  /\ NoStart \notin Nat
  /\ StartRanks \subseteq Nat
  /\ TpSizes \subseteq Nat \ {0}
  /\ LayerCounts \subseteq Nat \ {0}
  /\ total_num_layers \in Nat \ {0}
  /\ vocab_size \in Nat /\ dim \in Nat /\ VOCAB_PADDING_SIZE \in Nat \ {0}
  /\ MaxEntries \in Nat \ {0}
  /\ MaxSwitches \in Nat

\* Every size of a VNode has been uploaded: the assertions of the uploader hold.
ASSUME UploadAssumption ==
  \A tp \in TpSizes \cup {gpus[n] : n \in Nodes} :
     dim % tp = 0 /\ VocabDivides(vocab_size, VOCAB_PADDING_SIZE, tp)

VARIABLES
  node_layer_mapping, \* the entries [node_ip, layers, start]
  parallel_strategy,  \* config["parallel_strategy"]
  phase,              \* where the thread is
  vnodes,             \* Pipeline.vnodes
  start_layer_idx,    \* local of initialize_pipeline
  start_local_ranks,  \* local of initialize_pipeline: the next free rank by node
  node_rank_mapping,  \* Pipeline.node_rank_mapping: the ranks of each node
  bundle_indices,     \* VLLM_RAY_BUNDLE_INDICES: the bundle of each rank
  left,               \* history: the nodes the last switch replaced
  reused,             \* history: a switch went to a node twice or to one of the pipeline's
  switches            \* counter behind the bound

inputs == <<node_layer_mapping, parallel_strategy>>
vars == <<inputs, phase, vnodes, start_layer_idx, start_local_ranks,
          node_rank_mapping, bundle_indices, left, reused, switches>>

Entry == [node_ip : FirstNodes, layers : LayerCounts, start : StartRanks \cup {NoStart}]

Init ==
  /\ \E n \in 1..MaxEntries : /\ node_layer_mapping \in [1..n -> Entry]
                              /\ parallel_strategy \in [1..n -> TpSizes]
  /\ phase = "check"
  /\ vnodes = <<>>
  /\ start_layer_idx = 0
  /\ start_local_ranks = [n \in Nodes |-> 0]
  /\ node_rank_mapping = <<>>
  /\ bundle_indices = <<>>
  /\ left = {}
  /\ reused = FALSE
  /\ switches = 0

-----------------------------------------------------------------------------
(* initialize_pipeline.                                                    *)

\* The sums of the first k numbers of a list, for each k.
PrefixSums(list) ==
  LET sum[k \in 0 .. Len(list)] == IF k = 0 THEN 0 ELSE sum[k - 1] + list[k]
  IN  sum

\* The layers of the first k entries, for each k.
AssignedLayers(mapping) == PrefixSums([k \in DOMAIN mapping |-> mapping[k].layers])
total_assigned_layers == AssignedLayers(node_layer_mapping)[Len(node_layer_mapping)]

\* The assertion on the number of layers.
CheckLayers ==
  /\ phase = "check"
  /\ phase' = IF total_assigned_layers = total_num_layers THEN "create" ELSE "rejected"
  /\ UNCHANGED <<inputs, vnodes, start_layer_idx, start_local_ranks,
                 node_rank_mapping, bundle_indices, left, reused, switches>>

\* The GPUs, by local rank, of a VNode.
LocalRanks(v) == v.start_local_rank .. (v.start_local_rank + v.tp_size - 1)

\* The VNode of the next entry.
NextVNode ==
  LET k == Len(vnodes) + 1
      entry == node_layer_mapping[k]
  IN [node_ip |-> entry.node_ip, tp_size |-> parallel_strategy[k],
      start_local_rank |-> IF entry.start = NoStart THEN start_local_ranks[entry.node_ip]
                                                 ELSE entry.start,
      layer_start_id |-> start_layer_idx,
      layer_end_id |-> start_layer_idx + entry.layers]

\* One pass of the loop.
CreateVNode ==
  /\ phase = "create" /\ Len(vnodes) < Len(node_layer_mapping)
  /\ vnodes' = Append(vnodes, NextVNode)
  /\ start_local_ranks' = [start_local_ranks EXCEPT
                             ![NextVNode.node_ip] = NextVNode.start_local_rank + NextVNode.tp_size]
  /\ start_layer_idx' = NextVNode.layer_end_id
  /\ UNCHANGED <<inputs, phase, node_rank_mapping, bundle_indices, left, reused, switches>>

\* Two VNodes use a GPU of the same node.
Conflict(v, w) == v.node_ip = w.node_ip /\ LocalRanks(v) \cap LocalRanks(w) # {}

\* Mutant: only VNodes with the same first GPU are in conflict.
ValidateStarts ==
  /\ phase = "create" /\ Len(vnodes) = Len(node_layer_mapping)
  /\ phase' = IF \E i, j \in DOMAIN vnodes :
                    /\ i # j /\ vnodes[i].node_ip = vnodes[j].node_ip
                    /\ vnodes[i].start_local_rank = vnodes[j].start_local_rank
              THEN "rejected" ELSE "rank"
  /\ UNCHANGED <<inputs, vnodes, start_layer_idx, start_local_ranks,
                 node_rank_mapping, bundle_indices, left, reused, switches>>
validate_gpu_allocation ==
  /\ phase = "create" /\ Len(vnodes) = Len(node_layer_mapping)
  /\ phase' = IF \E i, j \in DOMAIN vnodes : i # j /\ Conflict(vnodes[i], vnodes[j])
              THEN "rejected" ELSE "rank"
  /\ UNCHANGED <<inputs, vnodes, start_layer_idx, start_local_ranks,
                 node_rank_mapping, bundle_indices, left, reused, switches>>
-----------------------------------------------------------------------------
(* Ranks and bundles.                                                      *)

\* The ranks of one VNode, after the ones of the VNodes before it.
RanksFrom(rank, size) == [i \in 1..size |-> rank + i - 1]

\* Mutant: the ranks of a second VNode on a node go before those of the first,
\* and ranks are counted by node.
MappingByNode(vs) ==
  LET Size(ip) == FoldLeft(LAMBDA n, v : IF v.node_ip = ip THEN n + v.tp_size ELSE n, 0, vs)
      ips == FoldLeft(LAMBDA q, v : IF v.node_ip \in ToSet(q) THEN q ELSE Append(q, v.node_ip),
                      <<>>, vs)
  IN FoldLeft(LAMBDA acc, ip :
                [mapping |-> [o \in DOMAIN acc.mapping \cup {ip} |->
                                IF o = ip THEN RanksFrom(acc.rank, Size(ip))
                                          ELSE acc.mapping[o]],
                 rank |-> acc.rank + Size(ip)],
              [mapping |-> <<>>, rank |-> 0], ips).mapping
\* The ranks of a VNode on node ip go behind those its node has already.
Extend(mapping, ip, ranks) ==
  [o \in DOMAIN mapping \cup {ip} |->
     (IF o \in DOMAIN mapping THEN mapping[o] ELSE <<>>) \o (IF o = ip THEN ranks ELSE <<>>)]

\* The number of ranks of the first k VNodes, for each k.
CurrentRanks(vs) == PrefixSums([k \in DOMAIN vs |-> vs[k].tp_size])

\* The ranks of each node, in the order of the VNodes: the loop after k of them.
RankMappings(vs) ==
  LET current_rank == CurrentRanks(vs)
      mapping[k \in 0 .. Len(vs)] ==
        IF k = 0 THEN <<>>
        ELSE Extend(mapping[k - 1], vs[k].node_ip, RanksFrom(current_rank[k - 1], vs[k].tp_size))
  IN  mapping
RankMapping(vs) == RankMappings(vs)[Len(vs)]

generate_node_rank_mapping ==
  /\ phase = "rank"
  /\ node_rank_mapping' = RankMapping(vnodes)
  /\ phase' = "bundle"
  /\ UNCHANGED <<inputs, vnodes, start_layer_idx, start_local_ranks,
                 bundle_indices, left, reused, switches>>

\* The node of a rank, and with it the node the bundle of the same number is
\* bound to: bundles are requested in the order of ranks.
RankToIp(mapping, rank) == CHOOSE ip \in DOMAIN mapping : rank \in ToSet(mapping[ip])

\* The number of ranks in all lists.
TotalRanks(mapping) ==
  Cardinality(UNION {{ip} \X DOMAIN mapping[ip] : ip \in DOMAIN mapping})

\* Ranks are unique and contiguous from 0.
RanksContiguous(mapping) ==
  /\ \A ip, jp \in DOMAIN mapping :
        ip # jp => ToSet(mapping[ip]) \cap ToSet(mapping[jp]) = {}
  /\ UNION {ToSet(mapping[ip]) : ip \in DOMAIN mapping} = 0 .. (TotalRanks(mapping) - 1)

\* Each bundle takes the lowest rank of its node that has none yet: the ranks
\* of each node that remain after the first b bundles.
PopLowest(remaining, ip) == [remaining EXCEPT ![ip] = @ \ {Min(@)}]
RemainingRanks(mapping) ==
  LET remaining[b \in 0 .. TotalRanks(mapping)] ==
        IF b = 0 THEN [ip \in DOMAIN mapping |-> ToSet(mapping[ip])]
        ELSE PopLowest(remaining[b - 1], RankToIp(mapping, b - 1))
  IN  remaining

\* The rank of each bundle, and the bundle of each rank.
AssignedRanks(mapping) ==
  [b \in 0 .. TotalRanks(mapping) - 1 |->
     Min(RemainingRanks(mapping)[b][RankToIp(mapping, b)])]
AssignBundles(mapping) == AntiFunction(AssignedRanks(mapping))

\* The API server's call; placement_group.ready() is external.
create_placement_group_and_bundle_indices ==
  /\ phase = "bundle"
  /\ IF RanksContiguous(node_rank_mapping)
     THEN bundle_indices' = AssignBundles(node_rank_mapping) /\ phase' = "ready"
     ELSE bundle_indices' = <<>> /\ phase' = "raised"
  /\ UNCHANGED <<inputs, vnodes, start_layer_idx, start_local_ranks,
                 node_rank_mapping, left, reused, switches>>

-----------------------------------------------------------------------------
(* switch_nodes.                                                           *)

PipelineIps == {vnodes[i].node_ip : i \in DOMAIN vnodes}

\* The first VNode on a node.
TargetIndex(ip) == SelectInSeq(vnodes, LAMBDA v : v.node_ip = ip)

\* The new nodes are distinct and outside the pipeline, as the scripts choose
\* them; switch_nodes checks neither.
FreshNodes(pairs) ==
  \A m, n \in DOMAIN pairs : pairs[m] \notin PipelineIps /\ (m # n => pairs[m] # pairs[n])

\* The first VNode on each old node is replaced by one on the new node, with
\* its layers and start_local_rank, of the given size.
Replace(pairs, size) ==
  /\ phase = "ready"
  /\ switches < MaxSwitches /\ switches' = switches + 1
  /\ vnodes' = [i \in DOMAIN vnodes |->
                  LET old == vnodes[i].node_ip IN
                  IF old \in DOMAIN pairs /\ TargetIndex(old) = i
                  THEN [vnodes[i] EXCEPT !.node_ip = pairs[old],
                                         !.tp_size = size[pairs[old]]]
                  ELSE vnodes[i]]
  /\ left' = DOMAIN pairs
  /\ reused' = (reused \/ ~FreshNodes(pairs))
  /\ phase' = "rank"
  /\ UNCHANGED <<inputs, start_layer_idx, start_local_ranks, node_rank_mapping,
                 bundle_indices>>

\* Mutant: the new VNode gets the size of the first stage.
SwitchFirstSize(pairs) == Replace(pairs, [n \in Nodes |-> parallel_strategy[1]])
\* The size is the number of GPUs Ray reports for the new node.
switch_nodes(pairs) == Replace(pairs, gpus)

\* Nodes of the pipeline are switched to any nodes.
SwitchPairs == UNION {[S -> Nodes] : S \in SUBSET PipelineIps \ {{}}}

Done == phase \in {"rejected", "raised", "ready"} /\ UNCHANGED vars

Next ==
  \/ CheckLayers \/ CreateVNode \/ validate_gpu_allocation
  \/ generate_node_rank_mapping \/ create_placement_group_and_bundle_indices
  \/ \E pairs \in SwitchPairs : switch_nodes(pairs)
  \/ Done

Spec == Init /\ [][Next]_vars
-----------------------------------------------------------------------------
(* Properties.                                                             *)

\* The VNodes of a pipeline that serves load the model, whatever nodes were
\* switched: each index of each tensor is in exactly one shard of exactly one
\* VNode (in every shard if the tensor is copied); a tied embedding is also
\* loaded by the last VNode.
WholeModelLoaded ==
  phase = "ready" =>
    \A t \in Tensors(total_num_layers), tie \in BOOLEAN :
       LET loaders == {k \in DOMAIN vnodes :
                         should_load_tensor(t, vnodes[k].layer_start_id, vnodes[k].layer_end_id,
                                            total_num_layers, tie)}
           size == IF t.kind \in VocabKinds THEN vocab_size ELSE dim
       IN /\ loaders = IF t.kind = "embed_tokens" /\ tie THEN {1, Len(vnodes)}
                       ELSE {CHOOSE k \in loaders : TRUE}
          /\ \A k \in loaders, i \in 0..size-1 :
                LET holders == {r \in 0..vnodes[k].tp_size-1 :
                                  In(i, partition_tensor_for_tp(t.kind, size, VOCAB_PADDING_SIZE,
                                                                vnodes[k].tp_size, r))}
                IN IF t.kind \in CopiedKinds THEN holders = 0..vnodes[k].tp_size-1
                   ELSE Cardinality(holders) = 1

\* Two VNodes of a pipeline that was accepted never share a GPU, although a
\* switch changes tp_size and does not validate the allocation again, unless a
\* switch has gone to a node the pipeline already had, or to one node twice;
\* and only explicit start_local_ranks can make a pipeline be rejected for it:
\* the ranks the loop gives out by itself never conflict.
GpusDisjoint ==
  /\ phase \in {"rank", "bundle", "ready"} =>
       reused \/ \A i, j \in DOMAIN vnodes : i # j => ~Conflict(vnodes[i], vnodes[j])
  /\ phase = "rejected" => \/ total_assigned_layers # total_num_layers
                           \/ \E e \in ToSet(node_layer_mapping) : e.start # NoStart

\* The first rank of VNode k for the engine, which counts by parallel_strategy.
FirstRank(k) == PrefixSums(parallel_strategy)[k - 1]

\* Every mapping of ranks that is generated can be turned into bundles, and the
\* engine finds the workers of stage k on the node whose tensor stores have the
\* layers of stage k: each rank of the stage has a bundle of its own there, as
\* long as no switch has changed the size of a VNode.
RankOnItsStage ==
  /\ phase # "raised"
  /\ phase = "ready" /\ (\A k \in DOMAIN vnodes : vnodes[k].tp_size = parallel_strategy[k]) =>
       /\ IsInjective(bundle_indices)
       /\ \A k \in DOMAIN vnodes : \A r \in FirstRank(k) .. FirstRank(k + 1) - 1 :
             RankToIp(node_rank_mapping, bundle_indices[r]) = vnodes[k].node_ip

\* Every node hosts one VNode that starts at its first GPU.
OneVNodePerNode ==
  \A i, j \in DOMAIN node_layer_mapping :
     /\ i # j => node_layer_mapping[i].node_ip # node_layer_mapping[j].node_ip
     /\ node_layer_mapping[i].start \in {NoStart, 0}

\* In such a pipeline no VNode stays on a node that was switched, and after
\* switches to fresh nodes the local ranks of every VNode that was replaced are
\* GPUs of its node.  (With two VNodes on an old node the second stays there.)
SwitchComplete ==
  OneVNodePerNode /\ ~reused /\ phase = "ready" =>
    /\ PipelineIps \cap left = {}
    /\ \A k \in DOMAIN vnodes :
          vnodes[k].node_ip # node_layer_mapping[k].node_ip =>
             \A r \in LocalRanks(vnodes[k]) : r < gpus[vnodes[k].node_ip]
=============================================================================
