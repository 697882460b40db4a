# A verification project for HeteroSpotLLMServe

TLA+ modules, TLC configurations and TLAPS proofs for the serving system of this
repository: a global server that spreads LLM requests over pipelines of spot
instances, keeps the tokens of requests whose pipeline dies, and replaces the
nodes of a running pipeline.

## The system

Paths are relative to the repository.

| Part | State | Operations | Interacts with |
|---|---|---|---|
| Global server, `GlobalServer/global_server.py` | `urgent_queue`, `waiting_queue`, `inflight_requests` | `run_global_server` (select, dispatch, clean up), `_handle_request`, `send_request`, `add_request`, operator calls | one asyncio loop; operator calls run in executor threads on the same `Cluster` |
| Cluster, `GlobalServer/VNode.py` | list `pipelines`, `pipelines_lock`, `ray_init_lock` | `create_pipeline`, `remove_pipelines`, `switch_node(s)`, `stop_*` | list read lock-free by the event loop |
| Pipeline, `VNode.py` | `vnodes`, `is_ready`, address, `flying_requests`, Ray port | `initialize_pipeline`, `switch_node(s)`, `stop_pipeline`, charge and uncharge | ssh, Ray, VNodes |
| VNode, `VNode.py` | ports, ready flags | start, check and stop the tensor stores and the API server; cleanup thread | processes on one node |
| Request handler, `GlobalServer/request_handler.py` | the request's output object: text, token count, latencies | one streaming attempt, with or without migration | API server |
| Tensor store, `TensorStore/raw_s3_tensor_store_server.py` | weights in GPU memory, READY flag, two ports | load from S3, fuse, status and SHUTDOWN server | VNode, vLLM workers |
| Uploader, `TensorStore/raw_s3_model_uploader.py` | none | cut every tensor into shards | S3 |
| Ray connection, `VNode.py` | one per process; two heads, 6379 and 6380 | `start_ray_cluster`, `get_alternate_ray_port`, GPU loops | every pipeline, `ray_init_lock` |
| API server, `InferenceServer/api_server.py` | vLLM engine | completions, `/health`, `/shutdown` | tensor stores of all nodes |
| Placement, `ModelPlacement/`, drivers in `ArtifactEvaluation/ModelPlacement/optimizer/` | pool of instances, beams, caches, heap of results | cost estimates, beam search, search again on what remains; baselines | offline |
| `utils.py`, `GlobalServer/command.py` | none | bundle assignment; command lines | workers |

What is hard to get right:

* *Concurrency.* Selection, task start and sending look the pipeline up by list
  index at three times, while threads shorten or extend the list without a
  common lock. `is_ready` is written by stops and switches alike.
* *Failure.* A stream may break anywhere, also between its last token and
  `[DONE]`; a switch may fail after it has replaced VNodes.
* *Ordering.* The switchover is a sequence of four writes the balancer reads
  without a lock; cleanup threads run on after it.
* *Shared things without an owner.* One Ray connection for all pipelines; ports
  and GPUs that VNodes use one after the other or side by side; cleanup by node.
* *Limits and keys.* The beam and the heap of the placement search are cut at a
  size, its caches are keyed by less than what they store.
* *Counting.* A token is counted when its chunk arrives, recounted at the finish
  chunk, and subtracted from what a resumed attempt asks for.

`PROJECT.json` lists every component and, under `hazards`, each of these at its
line with the properties that watch it.

## Modules

### GlobalServer: scheduler and cluster changes

One variable per attribute. `task[r]` is the live `_handle_request` coroutine of
request `r`, with the index it was given, the pipeline it charged and the server
it talks to. Event-loop callbacks are atomic with respect to each other
(`LoopFree`), but threads may run between the two lookups of one callback, so
`StartTask` and `SendRequest` are separate actions. `LoopAwake` says that the
loop's sleep lets a new task take its first step before the next iteration.

| Action | Code |
|---|---|
| `AddRequest` | `add_request` |
| `DispatchUrgent`, `DispatchWaiting`, `IdleIteration` | one iteration of `run_global_server`, cleanup included |
| `StartTask`, `SendRequest` | the lookup in `_handle_request`; the one in `send_request` |
| `Connect`, `ConnectionRefused`, `StreamBroken`, `Complete` | outcomes of the handler, with the `except` and `finally` clauses |
| `CreatePipeline` | `Cluster.create_pipeline`, from the append on |
| `StopNodes`, `StopNode`, `StopMark`, `StopKill`, `StopNodeDone` | `stop_nodes`, `stop_node`, `stop_pipeline` |
| `RemovePipelines`, `AssignPipelines` | `remove_pipelines` up to, and at, the assignment |
| `SwitchBegin`, `SwitchStart`, `SwitchOff`, `SwitchStopOld` | `Pipeline.switch_nodes` up to the stop of the old server, as the balancer sees it |
| `SwitchHost`, `SwitchPort`, `SwitchOn` | its last three assignments, which no lock keeps together |
| `SwitchRaises`, `SwitchRaisesPortless` | the exceptions that end it: Ray, starting the stores; the status check of a VNode without a port |

An address is a host and a port, with the port arithmetic of the code.
`head[p]` is the node of `vnodes[0]` and the port it was told to serve on, if
any; `old_first[p]` the node of `old_first_vnode`, where the old server is
stopped. A switch that raises leaves the new head in place and the address as it
was, and the next switch starts from there: if that one keeps the head, it stops
the server it has just started (`misdirected`; run `ps_retry` shows it in
detail). `stop_api_server` swallows its errors and so may have no effect. Which
other nodes a pipeline has does not matter here: `stop_nodes` is given the set of
pipelines its nodes belong to. The list index is 1-based.

### RequestService: what clients are promised

The abstract specification: requests are submitted, run in attempts, done once;
one may be lost per reduction of the cluster, and only then. `GlobalServer`
implements it (`ImplementsService`) with `running` the live tasks, `lost` the
requests that are in no queue, task or result, and `reductions` the number of
replaced lists.

### RequestHandler: the tokens of one request

Text is counted in tokens. A chunk carries a token whose characters may arrive
with a later chunk of the stream (`withheld`, as with tokens that are part of a
character), or is a finish chunk the model chose to send (`eos`). `mode`,
`ignore_eos` and `characters` are chosen once: `async_request` or
`async_request_without_migration`, streams that may end early, characters that
may be split. Failures cover refused connections, HTTP errors, broken streams, a
stream that ends without a finish chunk, the latency assertion, and an index that
was stale in `send_request`.

### PipelineSwitch: replacing nodes

One pipeline with one VNode per node, and its successive switches, to fresh
nodes or back to nodes it has left. VNode objects are told apart by a serial
number; API servers are `<<host, port>>` pairs, so that the port arithmetic is
that of the code, and a server knows which VNodes it was started for: one whose
port is taken exits, and the server that has the port answers its health check.
`Begin` to `Cleanup` are the numbered stages of `switch_nodes` (`one_node`:
`switch_node`, which waits for its store before it starts the server). `Raise`
is an exception in the Ray or tensor store stage, `RaisePortless` the one of
`check_tensor_store_status` for a VNode without a port. `CleanupWorker` is the
daemon thread, which finds processes by name on the node; `hurried` records that
a node came back before its thread had ended, `taken` that a new server found its
port held by one that an earlier switch had left. `stop_api_server` and
`stop_tensor_store` swallow their errors, so either may have no effect. `TurnOff`
is the last round of the polls together with `is_ready = False`: between the two
only a cleanup thread could stop what was polled, and that is `hurried`.

### TensorStore: the processes of one node

A process is a pair of the VNode that started it and its local rank. Its main
thread goes through `Boot`, loading, `Fuse`, `OpenManager` and `Exit`; loaders
(`LoadTensor`, `LoadFails`) and the status server run beside it. A status port
that is taken kills only the status thread (`deaf`), a manager port that is taken
the process. The VNode side is `start_tensor_store`, `check_tensor_store_status`
port by port, and `stop_tensor_store` with its pool threads and the `pkill` that
follows a refusal. Ports are offsets: a store listens at `start_local_rank + i`,
the check asks at `i`, the stop at `start_local_rank + i`, as in the code.

### RayConnection: one connection for all pipelines

`init_ray` to `PollTimeout` are the stages of `start_ray_cluster`, `GpusSeen` the
loop after it, for several pipelines at once. Each stage takes `ray_init_lock`
for itself, so another pipeline may re-point `connection` in between. The
README of the repository starts both heads on the global server's node; the
experiment scripts create pipelines concurrently, all on 6379. External: a node
that has joined stays until Ray is stopped on it, `ray.nodes()` raises without a
connection, and `EngineReady`, the placement group of the engine, which needs a
GPU bundle on every node that the running engine does not hold. `InitFails`,
`ConnectFails` and `StoresFail` are the exceptions. `StopRay` is the `ray stop` of
`switch_node` on the node it took out, which comes after the pipeline is ready
again. A switch may go to any node the pipeline does not have. `mixed` records
that two pipelines were at it on different ports at once, `broken` that an
exception hit a pipeline, `shared` that a node was given to a pipeline while
another had it, was giving it up or was to be created with it.

### TensorPartition and PipelineLayout: who gets what

`TensorPartition` has the index arithmetic of uploader and tensor store as
functions. `PipelineLayout` runs `initialize_pipeline` over every mapping from
the small sets (layer check, one `CreateVNode` per entry, overlap check), the
rank mapping, and the bundle assignment of `utils.py`, and then switches to any
nodes, which give the new VNode the GPU count of its node; `reused` records that
one went to a node the pipeline had or to one node twice, which `switch_nodes`
does not check. The loops over entries, VNodes and
bundles are recursive functions of the number of passes (`PrefixSums`,
`RankMappings`, `RemainingRanks`), with the body of the loop as an operator. `WholeModelLoaded` is the
reference definition: all VNodes together hold every index of every tensor once.

### PlacementSearch: the beam search and its drivers

`NextCell` and `Candidate` are the loops of `BeamSearchDPOptimizer.optimize`, in
its order (`at`), with the table `dp`, the cache and the heap; `Select`,
`StartMerge`, `Merge` and `GiveUp` are the loop of the drivers, of which the
one for `qwen3-32b` has neither the test for infeasible results nor the merge.
Scores are compared as fractions. Throughput is a parameter (`Rate`), the memory
test a comparison in units of a layer. Every caller passes a latency limit of
99999999 ms, which removes the latency terms. Ties that the code breaks by
dictionary order are nondeterministic here.

### How they fit together

`GlobalServer` sees a switch as seven steps, or fewer and an exception;
`PipelineSwitch` has what happens in them, taking the stores as alive or not and Ray as joined or not;
`TensorStore` and `RayConnection` are what it takes for granted, with several
actors; `PipelineLayout` is the data a switch changes. The handler's outcomes in
`GlobalServer` are the endings of an attempt in `RequestHandler`. `PlacementSearch`
is offline and produces the mappings `PipelineLayout` starts from.

## Runs

| Run | Checks | Result |
|---|---|---|
| `gs_stop` | `TypeOK`, `AtMostOnce`, `FlyingExact`, `CapacitySlack`, `TasksAreTracked`, `LossNeedsRemoval`, `StopsOnlyTargets`, `ImplementsService` | hold, 2x10^6 states |
| `gs_switch` | `ReadyMeansServing`, `EventuallyServed` | hold, 2x10^5 states |
| `rh_streams` | `TypeOK`, `CompleteIsWhole`, `CountIsClose`, `CompleteIsEnough`, `NothingForgotten`, `EventuallyComplete` | hold, 10^4 states |
| `ps_switch` | `TypeOK`, `StoresBehindServer`, `NothingLeftBehind`, `DeadServerNeedsRetry`, `SwitchEnds` | hold, 6x10^5 states |
| `ts_node` | `TypeOK`, `ReadyIsWhole`, `OwnAnswers`, `KillNeedsFailure`, `SilentAfterShutdown`, `ShutdownEnds`, `WaitEnds` | hold, 6x10^4 states |
| `ray_start` | `JoinedUnlessMixed`, `FreshCluster`, `StartEnds` | hold, 3x10^5 states |
| `layout_all` | `WholeModelLoaded`, `GpusDisjoint`, `RankOnItsStage`, `SwitchComplete` | hold, 4x10^5 states |
| `placement_all` | `CellsSound`, `TopIsBest`, `NodesConserved`, `Deployable`, `DriverEnds` | hold, 10^4 states |
| `gs_lost` | `NoRequestLost` | violated: the task of a dispatched request finds its index past the end of the shortened list and returns; its client waits for ever |
| `gs_resurrect` | `StoppedStaysOff` | violated: a switch that ends after `stop_pipeline` sets `is_ready` again |
| `ps_retry` | `NewServerSurvives` | violated: after a failed head switch the next one stops its own new server |
| `ts_ports` | `ReadyIsOwn` | violated: a VNode with `start_local_rank` 1 is ready when the VNode beside it is |

The violated ones state what a comment, docstring or script of the repository
says; `findings` quotes it.

Several properties that hold name an exception, and the exception is real:

* `OwnAnswers`: a VNode that is stopped before it was seen ready leaves its
  stores, and they answer for the next one on these GPUs.
* `ReadyIsWhole`: a loader that raises is only logged.
* `WaitEnds`: a store that dies or cannot bind its status port is waited for for
  ever.
* `ReadyMeansServing`: after a head switch that failed, a switch that keeps the new
  head stops its own new server and sets `is_ready` (`misdirected`): then, as in
  `ps_retry`, the balancer does see a pipeline without a server. A stopped pipeline
  may be ready again (`gs_resurrect`). These are the only ways.
* `EventuallyServed`: a request may be lost to a list that `stop_nodes` replaced
  (`gs_lost`), and nothing is served while every pipeline is off, or while a ready
  one has no server and takes each retry.
* `DeadServerNeedsRetry` says that there was a failure and a second switch, not
  which came first; the order is what `ReadyMeansServing` adds.
* `JoinedUnlessMixed`: pipelines that start on different heads at once may take
  each other's nodes for their own. Creations alone never do: all use 6379. A node
  given to a second pipeline (`shared`) may leave its cluster by the first one's
  `ray stop`.
* `FreshCluster`, `StartEnds`: a failed switch leaves the port flipped, and the
  next one waits for the GPUs its own running engine holds on the nodes that
  stay; in mode "hexgen", which does not alternate, every switch does. So neither
  property says anything of a repeated switch.
* `StoresBehindServer`, `NothingLeftBehind`: a node that comes back while its
  cleanup thread runs loses its new stores.
* `StoresBehindServer`: a switch that raises for a VNode without a port leaves its
  new server; the next one whose port that server holds takes its answers for
  those of its own server, and the stores behind it go with the cleanup.
* `SwitchComplete`: with two VNodes on a node only the first is replaced.
* `GpusDisjoint`, `SwitchComplete`: a switch to a node the pipeline has, or of two
  nodes to one, puts two VNodes on the same GPUs (`reused`).
* `RankOnItsStage`: after a switch to a node with another GPU count the engine's
  ranks, counted by `parallel_strategy`, are no longer those of the VNodes.
* `Deployable`: the recorded throughput may be that of another order of the same
  stages, since the cache key is sorted; a chosen pipeline may be recorded as
  fitting although in its own order it does not fit. The driver for `qwen3-32b`
  also chooses pipelines whose throughput is `OUT_OF_MEMORY`.
* `NodesConserved`: after a merge nodes may be left unused, although the comment
  says that all residual resources are consumed; the merged pipeline may also be
  slower than the one it replaces.
* `CompleteIsWhole`: if characters are split over tokens, a stream cut between
  them loses the withheld ones, which are counted as generated.

*Bounds.* Two requests and three pipelines, one of them created late, are the
least with which a retry overtakes a new request, a list shrinks and grows under
an index, and a capacity of one is contended. Two stops, one after the other,
let a second computation of indices meet a shortened list. Two switches with one
exception let a pipeline be switched again after a switch that failed, or two at
once; two hosts let the head move, stay and come back. A request of five tokens with four
failures can be cut before, between and after all its tokens, and twice in a
row. Three switches over four nodes let a head stay, move and come back, so that
ports go up, are kept and meet again. Two stores for one VNode and one for its
successor are the least with which a check can stop half way and a rank can be
taken over; two failures let a failure follow another's consequences. Two
pipelines on five nodes with two switches and a failure reach both heads in every
combination, and let a pipeline switch to a free node or to one of the other's. Three
entries on two nodes give a node two VNodes with another between them, and two
other nodes are there to switch to; the two nodes are alike, so that permuting
them is a symmetry of the model; the
vocabulary of 10 padded to 16 (`VOCAB_PADDING_SIZE` 8 for 64) leaves shards
short and, with four ranks, empty. Four layers on up to four nodes of two types
with a beam and a heap of two (3 and 5 in the code) make both overflow, and the
four memory layouts include those in which only one order of the stages fits.

*Fairness.* The event loop runs ready callbacks, so dispatching and each task's
steps are weakly fair; a thread that has begun an operation goes on. A stream
makes progress, since a fault is an alternative outcome of its next step and
`MaxFaults` bounds them; in `RequestHandler` only chunks that carry text or end
the stream are fair. A switch's waits end because its services answer; in
`TensorStore` the processes themselves are fair, and so is the polling. Ray
answers. The placement search is one sequential program. Nobody is obliged to
submit, stop, switch or create, and nothing makes a switch raise. `EventuallyServed`
asks in addition that from some time on a ready pipeline is listed and every ready
one has its server: without one nothing can be served.

*Deadlock* is checked in every run.

## Proofs

Every safety property of a passing run is a theorem, for all values of the
constants that satisfy the named assumptions of the modules (finite requests,
natural bounds, a positive length, sizes that were uploaded, natural
throughputs). Five theorems have, in addition, one of three hypotheses, which say
what the deployment does and the code does not enforce:

| Hypothesis | Says | Needed by | Without it |
|---|---|---|---|
| `OneCaller` | one thread calls `stop_nodes` | `StopsOnlyTargets` | a second call shifts the indices of the first |
| `FirstRanks` | the VNodes of the node start at local rank 0 | `OwnAnswers`, `KillNeedsFailure` | run `ts_ports` |
| `OnDifferentNodes` | a pipeline's VNodes are on different nodes | `StoresBehindServer`, `NothingLeftBehind` | a node IP names two VNodes; cleanup is by node |

`GlobalServerProofs` holds for any finite set of requests, any pipelines,
threads and batch limits.

* `TypeCorrect`: `TypeOK` is inductive; one lemma per group of actions. The two
  halves `LoopTypeOK` and `ClusterTypeOK` follow the split of the variables
  between event loop and threads.
* `RequestsAtMostOnce`: `AtMostOnce` needs `OnlyAdded` (nothing is queued,
  running or complete before it was submitted) for the step that submits.
  `QueuePut` and `QueueGet` say what `Append` and `Tail` do to a queue without
  repetitions.
* `FlyingRequestsExact`: by `RequestsAtMostOnce`, so that a task ends once; the
  cardinality lemmas `FlyingAdded` and `FlyingRemoved` match the counter's steps.
  It is the reason `max(0, n - 1)` never hides a miscount.
* `TasksTracked`: a cleanup never drops the retry that took an entry over.
* `ReadyPipelinesServe`: `ReadyMeansServing` alone is not inductive. `ServingInv`
  adds that listed pipelines have been made, that a thread about to kill a server
  has marked its pipeline stopped, and what each stage of a switch is sure of
  (`SwitchIsCovered`), after exceptions too: the new server's address follows from
  the head and the address in use; `old_first_vnode` is on another node than the new
  head, or on the node of the address in use, so that the stop does not meet the new
  server; and from the stop on the pipeline is off and the new server lives.
* `CapacityIsSoft`: `CapacityInv` adds that at most one task has not started and
  that the pipeline its index named had room; only a replaced list takes that
  away, so each replacement costs at most one request over the limit.
* `OnlyTargetsStopped`: `TargetsInv` says that the indices a call has still to
  stop name pipelines it was called for. Creations only append.

`RequestServiceProofs`, on top of it, shows the refinement.

* `LossesNeedRemovals`: losing a request takes two steps, the replacement of the
  list and the lookup that fails, so `LossNeedsRemoval` is not inductive.
  `LossInv` counts the requests lost and those about to be (`Stale`: created
  tasks with an index past the end); since the loop sleeps after each dispatch,
  at most one task has not started (`OneCreated`), and a replacement adds at most
  one to the count.
* `ServerImplementsService`: one lemma per group of actions says what a client
  sees of it (`AddRequestView`, `DispatchView`, `TaskView`, `ThreadView`); each
  is a step of `RequestService` or a stutter. `LossInv` is what `Lose` needs.

`RequestHandlerProofs` holds for every length and number of failures.
`StreamTypes` and `MigrationForgetsNothing` are about every mode and every kind of
stream: `CountInv` relates chunks received, the tokens asked for and `itl`, which
the recount at the finish chunk must not fall below. `AccountingHolds` is about
plain streams (migration, `ignore_eos`, whole characters): until the last token
the count is the text's length, each attempt asks for what is missing, and `itl`
lacks the first token exactly if `ttft` has it. From it follow
`MigrationIsWhole` and `MigrationCountsClose`. `Accounting` itself is in no run: the theorem
covers it. `ReroutedIsEnough` is about the other mode: `Rerouted` says that neither
the running count nor the recount exceeds the chunks of the attempt itself.

`PipelineSwitchProofs` holds for any pipeline length, nodes and numbers of
switches and failures.

* `SwitchTypesHold`: ports stay in range because a switch that has not chosen its
  port leaves room for one (`PortRoom`).
* `ServerHasItsStores`: `BackedInv` says when the pipeline is off (`ReadyWhen`),
  that a node has one VNode among those listed and those with stores (`Apart`),
  and, unless a node came back early or a port was taken, `Core`: the server a
  switch starts is that of the listed VNodes, no cleanup thread runs on their
  nodes, and the server in use has its stores.
* `DeadServersNeedRetries`: `HeadKept` follows the head's address and ports
  through the stages, until a switch follows a failed one.
* `SwitchesLeaveNothing`: `ExactInv` gives servers and stores exactly, stage by
  stage.

`TensorStoreProofs` holds for any VNodes, ranks, tensors and failures.
`StoreInv` is enough for `StoreTypes`, `ReadyStoresAreWhole` and
`ShutdownIsSilent`: where the tensors of a process are at each stage of its main
thread (`Loading`), and that a status port is held by its own live process that
nobody has shut down (`Listening`). `ReadyOnOwnAnswers` and `KillsNeedFailures`
need `Succession`: one VNode is in use at a time, while nothing was leaked only its
stores hold ports, and while nothing failed every store that must be reached is.

`RayConnectionProofs` holds for any pipelines, nodes, modes and failures.
`SwitchesGoToFreshClusters` needs `Alternation` (the engine is in the cluster of
the pipeline's port when it serves, in the other one while a switch runs, unless
an exception hit the pipeline). `NodesAreJoined` needs `JoinInv`: until a node is
shared, what a pipeline uses, what it is giving up included, no other one uses; and
unless ports were mixed all pipelines that use the connection agree on the port, so
that each reads the cluster it joins nodes to.

`PipelineLayoutProofs` holds for mappings of any length and all tensor sizes.

* `ModelIsLoaded`: `LayerInv` says that VNode i has the layers between the sums of
  the first i - 1 and the first i entries, however often it was replaced; sums grow,
  so a layer has one stage (`OneStage`). `OneShard`, `PaddedIsEnough`,
  `DividedOnce` and `VocabOnce` are the index arithmetic: every index in one shard.
* `VNodesShareNoGpu`: by `DisjointInv`; the loop goes on above the GPUs it gave out
  on a node, and a switch to fresh nodes goes to nodes without VNodes (`FreshMoves`).
* `SwitchesAreComplete`: by `PlaceInv`.
* `RanksMeetTheirStages`: `RankMappingIs` says what the loop over the VNodes leaves
  on each node, each rank once; `RanksAreContiguous` counts them by a bijection;
  `BundleOfRank` says that bundle b takes rank b, since what remains of a node
  after b bundles are its ranks from b on.

`PlacementSearchProofs` holds for any cluster, prices, memory, throughputs, beam
and heap. `PlacementInv` is inductive (`PlacementHolds`), with a step lemma for
each action.

* `TableIsSound`: `OneMoreStage` extends the counts, layers and price of a pipeline
  by a stage; merging candidates into a cell keeps one of each count.
* `ResultsAreBest`: `BetterIsTransitive` on fractions, and `PushOutcomes`: a full
  heap loses its worst for a better one.
* `NodesAreConserved`: what the pipelines use is a sum over them (`UsedByOneMore`,
  `UsedByAnother`); a search draws on what remains, a merge also on what the
  last pipeline gives back.
* `ChosenIsDeployable`: equal cache keys are permutations of one another
  (`SameKeySameStages`), so a cached throughput is that of the stages in some order.

The library's induction theorems take an operator, which the provers cannot
instantiate; facts about loops and sums are shown by a least number for which they
fail (`LeastNumber`), and recursive functions by exhibiting a solution of their
equation (`SumsExist`, `LoopEnds`).

The proofs corrected the properties twice. `JoinedUnlessMixed` cannot be proved of
switches that take a node another pipeline still uses, the exception `shared`; and
in `PipelineSwitch` a server left behind by a failed switch can answer for the next
one, the exception `taken`.

Only model-checked: liveness (`EventuallyServed`, `EventuallyComplete`,
`SwitchEnds`, `ShutdownEnds`, `WaitEnds`, `StartEnds`, `DriverEnds`), since fairness
and `ENABLED` are beyond the prover; and the properties of the four violated runs,
which are false.

## Not modelled

Most of the repository's lines are not the serving system: `submodules/vLLM` is a
vendored copy of the upstream engine, `ModelPlacement/hexgen` one of the HexGen and
AlpaServe planners, and `ArtifactEvaluation` holds notebooks, reference data and
experiment scripts.
The models cover `GlobalServer/global_server.py`, `request_handler.py`,
`VNode.py`, and the parts of `TensorStore/`, `ModelPlacement/` and `utils.py` that
decide something.

* Ray, S3, CUDA, vLLM, ssh: used as external services.
* The cost model of the placement (`estimator_utils.py` beyond the memory test):
  real-valued formulas. The baselines: adapters to vendored code.
* The size of the KV cache and its blocks in the tensor store.
* Two overlapping `stop_nodes` calls (they shift each other's indices),
  overlapping switches of one pipeline (the scripts wait for each);
  `stop_all_pipelines` and `stop_pipeline_include_node_ip`.
* The API server and the command lines: formatting, and a vendored entry point.
* Scripts, benchmarks, Terraform, figures: no state of the serving system.

## Plan

Done: all modules with their runs, and the proofs of all their safety
properties. Next:

1. `PipelineSwitch` as an implementation of the switch that `GlobalServer` sees:
   the stages of one switch, mapped to the steps of the other.
2. The hypotheses: what `OwnAnswers` leaves true on a node whose VNodes start at
   different ranks, and `StoresBehindServer` with several VNodes on a node.
3. Safety halves of the liveness properties: what a step that never comes waits
   for, as invariants.
