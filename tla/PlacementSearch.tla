-------------------------- MODULE PlacementSearch --------------------------
(***************************************************************************)
(* The placement optimizer: BeamSearchDPOptimizer of                       *)
(* ModelPlacement/shuntserve_optimizer.py on the ClusterPool of            *)
(* ModelPlacement/cluster_pool.py, and the drivers of                      *)
(* ArtifactEvaluation/ModelPlacement/optimizer that search again and again *)
(* for a pipeline on the nodes that remain.                                *)
(*                                                                         *)
(* Every caller passes latency_slo = 99999999 ms, which no pipeline        *)
(* exceeds: the penalty of soft_slo is 0, so the latencies and their cache *)
(* are left out.  Memory is counted in units of one layer's weights and    *)
(* least KV cache, after the forwarding memory; embedding and lm_head have *)
(* the same size.  Rate(s) stands for get_throughput of stages that fit.   *)
(***************************************************************************)
EXTENDS Integers, Sequences, FiniteSets

CONSTANTS
  InstanceTypes, \* the keys of INSTANCE_SPEC
  Pools,         \* what available_nodes may be
  Memories,      \* what the instances' memory may be
  Price,         \* ClusterPool.prices
  Embedding,     \* size of the embedding, and of lm_head
  Rate(_),       \* throughput of a sequence of <<instance, layers>> that fits
  num_layers, max_stages, budget,
  top_k,         \* beam width
  TopN           \* size of the heap of results (5)

ASSUME PlacementAssumption ==
  /\ Pools \subseteq [InstanceTypes -> Nat]
  /\ Memories \subseteq [InstanceTypes -> Nat]
  /\ Price \in [InstanceTypes -> Nat \ {0}]
  /\ Embedding \in Nat /\ budget \in Nat
  /\ {num_layers, max_stages, top_k, TopN} \subseteq Nat \ {0}

\* A throughput is a number.
ASSUME RateAssumption ==
  \A n \in 1 .. max_stages : \A s \in [1 .. n -> InstanceTypes \X (1 .. num_layers)] :
     Rate(s) \in Nat

VARIABLES
  driver,          \* the script: llama3-70b or qwen3-32b
  available_nodes, \* its cluster
  memory,          \* of the instance types
  remaining_nodes,
  all_pipelines,
  phase,           \* "search", "merge" (the search on merged_nodes) or "done"
  optimization_mode,
  pool,            \* cluster_pool.available_resources of the search
  dp,              \* the table: the pipelines of each cell
  throughput_cache,
  top_pipelines,   \* the heap, in the order of entry_counter
  at,              \* <<pivot_layer, prev_num_layer, prev_num_stage>>
  todo,            \* pairs of previous pipeline and instance left there
  evaluated        \* history: the whole pipelines this search evaluated

inputs == <<driver, available_nodes, memory>>
outcome == <<remaining_nodes, all_pipelines>>
search == <<optimization_mode, pool, dp, throughput_cache, top_pipelines, at, todo, evaluated>>
vars == <<inputs, outcome, phase, search>>
-----------------------------------------------------------------------------
(* Pipelines.  A stage is a pair of an instance and its layers.            *)

Instance(stage) == stage[1]
Layers(stage) == stage[2]
Max2(a, b) == IF a >= b THEN a ELSE b

\* The sum of the first n values of f.
Total(f, n) ==
  LET sum[k \in 0 .. n] == IF k = 0 THEN 0 ELSE sum[k - 1] + f[k]
  IN  sum[n]
\* Layers of the first i stages.
cumulative_layers(s, i) == Total([k \in DOMAIN s |-> Layers(s[k])], i)

\* A stage holds its layers, the first one the embedding and the one with
\* the model's last layer lm_head.
StageFits(s, i) ==
  memory[Instance(s[i])] >
    Layers(s[i]) + (IF i = 1 THEN Embedding ELSE 0)
                 + (IF cumulative_layers(s, i) = num_layers THEN Embedding ELSE 0)
OUT_OF_MEMORY == -1
get_throughput(s) ==
  IF \A i \in DOMAIN s : StageFits(s, i) THEN Rate(s) ELSE OUT_OF_MEMORY

\* How many stages satisfy a condition on instance and layers.
CountStages(s, Test(_)) == Cardinality({i \in DOMAIN s : Test(s[i])})
Counter(s) == [t \in InstanceTypes |-> CountStages(s, LAMBDA x : Instance(x) = t)]

\* Mutant: the layers are not part of the key.
KeyOfInstances(s) == Counter(s)
\* tuple(sorted(zip(stages, layer_per_stage))): the stages in any order.
get_cache_key(s) ==
  [x \in {s[i] : i \in DOMAIN s} |-> CountStages(s, LAMBDA y : y = x)]

\* The score of a pipeline is Num / Den.
Num(p) == IF p.cost = 0 THEN 0 ELSE Max2(p.throughput, 0)
Den(p) == IF optimization_mode = "only_throughput" THEN 1 ELSE Max2(p.cost, 1)
Better(p, q) == Num(p) * Den(q) > Num(q) * Den(p)
Best(P) == {p \in P : ~ \E q \in P : Better(q, p)}
Worst(P) == {p \in P : ~ \E q \in P : Better(p, q)}
-----------------------------------------------------------------------------
(* One search.                                                             *)

EmptyPipeline == [stages |-> <<>>, cost |-> 0, throughput |-> 0]
EmptyTable ==
  [l \in 0 .. num_layers |-> [s \in 0 .. num_layers |->
     IF l = 0 /\ s = 0 THEN {EmptyPipeline} ELSE {}]]

\* BeamSearchDPOptimizer(...) and the start of optimize.
BeginSearch(nodes, mode) ==
  /\ optimization_mode' = mode
  /\ pool' = nodes
  /\ dp' = EmptyTable
  /\ throughput_cache' = <<>>
  /\ top_pipelines' = <<>>
  /\ at' = <<0, 0, 0>>
  /\ todo' = {}
  /\ evaluated' = {}

instance_types == {t \in InstanceTypes : pool[t] > 0 /\ Price[t] <= budget}

\* The loops over pivot_layer, prev_num_layer and prev_num_stage.
Positions ==
  {x \in (1 .. num_layers) \X (0 .. num_layers - 1) \X (0 .. max_stages - 1) :
     x[2] < x[1] /\ x[3] <= x[2]}
Before(a, b) ==
  \/ a[1] < b[1]
  \/ a[1] = b[1] /\ a[2] < b[2]
  \/ a[1] = b[1] /\ a[2] = b[2] /\ a[3] < b[3]
Cell(x) == dp[x[2]][x[3]]
CellsLeft == {x \in Positions : Before(at, x) /\ Cell(x) # {}}

\* The next cell with pipelines; the top_k best of it are extended.
NextCell ==
  /\ phase \in {"search", "merge"}
  /\ todo = {}
  /\ \E x \in CellsLeft :
       /\ \A y \in CellsLeft \ {x} : Before(x, y)
       /\ at' = x
       /\ \E top \in SUBSET Cell(x) :
            /\ Cardinality(top) = IF Cardinality(Cell(x)) < top_k
                                  THEN Cardinality(Cell(x)) ELSE top_k
            /\ \A p \in top, q \in Cell(x) \ top : ~Better(q, p)
            /\ todo' = top \X instance_types
  /\ UNCHANGED <<inputs, outcome, phase, optimization_mode, pool, dp, throughput_cache, top_pipelines, evaluated>>

\* check_cluster_availability of the stages and one more instance t.
check_cluster_availability(s, t) ==
  \A u \in InstanceTypes : Counter(Append(s, <<t, 1>>))[u] <= pool[u]

\* Mutant: a full heap is given the new pipeline, better or not.
PushAnyway(p) ==
  IF Len(top_pipelines) < TopN THEN Append(top_pipelines, p)
  ELSE Append(Tail(top_pipelines), p)
\* heappush, or heapreplace of the oldest of the worst.
Push(p) ==
  LET worst == {i \in DOMAIN top_pipelines : \A j \in DOMAIN top_pipelines :
                  ~Better(top_pipelines[i], top_pipelines[j])}
      out == CHOOSE i \in worst : \A j \in worst : i <= j IN
  IF Len(top_pipelines) < TopN THEN Append(top_pipelines, p)
  ELSE IF Better(p, top_pipelines[out])
  THEN SubSeq(top_pipelines, 1, out - 1)
         \o Append(SubSeq(top_pipelines, out + 1, Len(top_pipelines)), p)
  ELSE top_pipelines

\* Mutant: the pipeline of the same instances is not looked up.
InsertBlindly(cell, p) ==
  IF Cardinality(cell) < top_k THEN {cell \union {p}}
  ELSE {IF Better(p, q) THEN (cell \ {q}) \union {p} ELSE cell : q \in Worst(cell)}
\* The update of the DP table: what a cell may become.
Insert(cell, p) ==
  LET same == {q \in cell : Counter(q.stages) = Counter(p.stages)} IN
  IF same # {} THEN {IF \E q \in same : Better(p, q) THEN (cell \ same) \union {p} ELSE cell}
  ELSE IF Cardinality(cell) < top_k THEN {cell \union {p}}
  ELSE {IF Better(p, q) THEN (cell \ {q}) \union {p} ELSE cell : q \in Worst(cell)}

\* The cache after the throughput of the stages was looked up.
recalculate_pipeline_throughput(s) ==
  LET key == get_cache_key(s) IN
  IF key \in DOMAIN throughput_cache THEN throughput_cache
  ELSE [k \in DOMAIN throughput_cache \union {key} |->
          IF k = key THEN get_throughput(s) ELSE throughput_cache[k]]

\* _evaluate_pipeline and the updates.
Evaluate(s, cost) ==
  LET cached == recalculate_pipeline_throughput(s)
      p == [stages |-> s, cost |-> cost, throughput |-> cached[get_cache_key(s)]] IN
  /\ throughput_cache' = cached
  /\ IF at[1] = num_layers
     THEN top_pipelines' = Push(p) /\ evaluated' = evaluated \union {p}
     ELSE UNCHANGED <<top_pipelines, evaluated>>
  /\ \E cell \in Insert(dp[at[1]][at[3] + 1], p) :
       dp' = [dp EXCEPT ![at[1]][at[3] + 1] = cell]

\* The body of the innermost loop: one more stage for a pipeline.
Candidate ==
  /\ phase \in {"search", "merge"}
  /\ \E c \in todo :
       LET s == c[1].stages
           new_cost == c[1].cost + Price[c[2]] IN
       /\ c[1] \in Best({d[1] : d \in todo})
       /\ todo' = todo \ {c}
       /\ IF check_cluster_availability(s, c[2]) /\ new_cost <= budget
          THEN Evaluate(Append(s, <<c[2], at[1] - at[2]>>), new_cost)
          ELSE UNCHANGED <<dp, throughput_cache, top_pipelines, evaluated>>
  /\ UNCHANGED <<inputs, outcome, phase, optimization_mode, pool, at>>

SearchOver == todo = {} /\ CellsLeft = {}
\* What results[0] may be: the sort is by score alone.
FirstResults == Best({top_pipelines[i] : i \in DOMAIN top_pipelines})
-----------------------------------------------------------------------------
(* The driver.                                                             *)

Init ==
  /\ driver \in {"llama3-70b", "qwen3-32b"}
  /\ available_nodes \in {n \in Pools : \E t \in InstanceTypes : n[t] > 0}
  /\ memory \in Memories
  /\ remaining_nodes = available_nodes
  /\ all_pipelines = <<>>
  /\ phase = "search"
  /\ optimization_mode = "soft_slo"
  /\ pool = available_nodes
  /\ dp = EmptyTable
  /\ throughput_cache = <<>> /\ top_pipelines = <<>>
  /\ at = <<0, 0, 0>> /\ todo = {}
  /\ evaluated = {}

\* Only llama3-70b treats an infeasible first result as none.
Usable(p) == driver = "qwen3-32b" \/ p.throughput > 0

\* The best result is taken and its nodes subtracted.
Select ==
  /\ phase = "search" /\ SearchOver
  /\ \E best \in FirstResults :
       LET used == Counter(best.stages)
           left == [t \in InstanceTypes |-> remaining_nodes[t] - used[t]] IN
       /\ Usable(best)
       /\ all_pipelines' = Append(all_pipelines, best)
       /\ remaining_nodes' = left
       /\ IF \A t \in InstanceTypes : left[t] = 0
          THEN phase' = "done" /\ UNCHANGED search
          ELSE phase' = "search" /\ BeginSearch(left, "soft_slo")
  /\ UNCHANGED inputs

NoResults == ~ \E best \in FirstResults : Usable(best)
Merges == driver = "llama3-70b" /\ all_pipelines # <<>>
Last == all_pipelines[Len(all_pipelines)]

\* The nodes that remain are merged with those of the last pipeline.
StartMerge ==
  /\ phase = "search" /\ SearchOver
  /\ NoResults /\ Merges
  /\ phase' = "merge"
  /\ BeginSearch([t \in InstanceTypes |-> remaining_nodes[t] + Counter(Last.stages)[t]],
                 "only_throughput")
  /\ UNCHANGED <<inputs, outcome>>

\* Mutant: the loop goes on with the nodes that remain.
TryAgain ==
  /\ phase = "search" /\ SearchOver
  /\ NoResults /\ ~Merges
  /\ BeginSearch(remaining_nodes, "soft_slo")
  /\ UNCHANGED <<inputs, outcome, phase>>
GiveUp ==
  /\ phase = "search" /\ SearchOver
  /\ NoResults /\ ~Merges
  /\ phase' = "done"
  /\ UNCHANGED <<inputs, outcome, search>>

\* Mutant: the merged pipeline is one more pipeline.
MergeAppends ==
  /\ phase = "merge" /\ SearchOver
  /\ \E merged_best \in FirstResults : all_pipelines' = Append(all_pipelines, merged_best)
  /\ remaining_nodes' = [t \in InstanceTypes |-> 0]
  /\ phase' = "done"
  /\ UNCHANGED <<inputs, search>>
\* merged_best replaces the last pipeline, whatever it is.
\* There is one: a single affordable instance with all layers is a candidate.
Merge ==
  /\ phase = "merge" /\ SearchOver
  /\ \E merged_best \in FirstResults :
       all_pipelines' = [all_pipelines EXCEPT ![Len(all_pipelines)] = merged_best]
  /\ remaining_nodes' = [t \in InstanceTypes |-> 0]
  /\ phase' = "done"
  /\ UNCHANGED <<inputs, search>>

Next ==
  \/ NextCell
  \/ Candidate
  \/ Select
  \/ StartMerge
  \/ GiveUp
  \/ Merge
  \/ phase = "done" /\ UNCHANGED vars

Spec == Init /\ [][Next]_vars
FairSpec == Spec /\ WF_vars(Next)
-----------------------------------------------------------------------------
(* Properties.                                                             *)

\* A cell of the DP table holds at most top_k pipelines, of exactly its layers
\* and stages, that the pool and the budget can pay for, and no two of the
\* same instances: pruning by instances never leaves a beam of one choice.
CellsSound ==
  \A l, n \in 0 .. num_layers :
    /\ Cardinality(dp[l][n]) <= top_k
    /\ \A p \in dp[l][n] :
         /\ cumulative_layers(p.stages, Len(p.stages)) = l
         /\ Len(p.stages) = n /\ n <= max_stages
         /\ p.cost <= budget
         /\ \A t \in InstanceTypes : Counter(p.stages)[t] <= pool[t]
    /\ \A p, q \in dp[l][n] : p # q => Counter(p.stages) # Counter(q.stages)

\* The results of a search are the best TopN of the whole pipelines it
\* evaluated, in whatever order they came.
TopIsBest ==
  LET top == {top_pipelines[i] : i \in DOMAIN top_pipelines} IN
  /\ Len(top_pipelines) <= TopN
  /\ \A p \in evaluated \ top :
       Len(top_pipelines) = TopN /\ \A q \in top : ~Better(p, q)

UsedNodes(t) ==
  Total([k \in DOMAIN all_pipelines |-> Counter(all_pipelines[k].stages)[t]], Len(all_pipelines))

\* The pipelines and the nodes that remain never exceed the cluster, also
\* when the nodes of a pipeline go through a merge; until then none is lost.
NodesConserved ==
  \A t \in InstanceTypes :
    /\ remaining_nodes[t] >= 0
    /\ UsedNodes(t) + remaining_nodes[t] <= available_nodes[t]
    /\ optimization_mode = "soft_slo" => UsedNodes(t) + remaining_nodes[t] = available_nodes[t]

Orders(s) ==
  {[i \in DOMAIN s |-> s[f[i]]] :
     f \in {g \in [DOMAIN s -> DOMAIN s] : \A i, j \in DOMAIN s : g[i] = g[j] => i = j}}

\* A chosen pipeline has all layers, and its throughput is the one of its
\* stages in some order.  (Not always in its own: the cache ignores the order,
\* and only the first and the last stage hold an embedding or lm_head.  Nor does
\* it say that the pipeline fits: the qwen3-32b driver also takes a result whose
\* throughput is OUT_OF_MEMORY.)
Deployable ==
  \A i \in DOMAIN all_pipelines :
    LET s == all_pipelines[i].stages IN
    /\ cumulative_layers(s, Len(s)) = num_layers
    /\ all_pipelines[i].throughput \in {get_throughput(o) : o \in Orders(s)}

\* The driver ends: every round takes a node, merges once or gives up.
DriverEnds == <>(phase = "done")
=============================================================================
