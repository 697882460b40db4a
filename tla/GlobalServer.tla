---------------------------- MODULE GlobalServer ----------------------------
(***************************************************************************)
(* The global server (GlobalServer/global_server.py) and the part of the   *)
(* Cluster (GlobalServer/VNode.py) it shares with the threads that change  *)
(* the cluster.                                                            *)
(*                                                                         *)
(* One asyncio event loop runs the scheduling loop, the per-request tasks  *)
(* and add_request.  It executes one callback at a time, and a callback is *)
(* only left at an await that really suspends.  stop_nodes, stop_node,     *)
(* switch_nodes and create_pipeline run in executor threads, so each of    *)
(* their steps may fall between any two reads an event-loop callback makes *)
(* of the shared list Cluster.pipelines and of the Pipeline objects.       *)
(***************************************************************************)
EXTENDS Integers, Sequences, FiniteSets, Functions

CONSTANTS
  Requests,         \* the requests clients may submit
  Pipelines,        \* identities of the Pipeline objects
  Ops,              \* executor threads running stop_nodes or stop_node
  NoPipeline,       \* "no pipeline"
  NoLimit,          \* max_batch_size is None
  Hosts,            \* node IPs of the first VNodes, which run the API servers
  InitialHost,      \* the first VNode's node of each pipeline when created
  BasePort,         \* api_server_base_port
  InitialPipelines, \* the list before the first event: a sequence of Pipelines
  max_batch_size,   \* [Pipelines -> Nat \cup {NoLimit}]
  MaxStops,         \* bound: stop_nodes and stop_node calls
  MaxSwitches,      \* bound: switch_nodes calls that reach a pipeline
  MaxFailures,      \* bound: switches ended by Ray or by the tensor stores
  MaxFaults         \* bound: streams broken although the API server lives

ASSUME ConstantsAssumption ==
  /\ IsFiniteSet(Requests)
  /\ NoPipeline \notin Pipelines
  /\ NoLimit \notin Nat
  /\ InitialHost \in [Pipelines -> Hosts]
  /\ BasePort \in Nat \ {0}
  /\ max_batch_size \in [Pipelines -> Nat \cup {NoLimit}]
  /\ InitialPipelines \in Seq(Pipelines)
  /\ \A i, j \in 1..Len(InitialPipelines) :
        InitialPipelines[i] = InitialPipelines[j] => i = j
  /\ MaxStops \in Nat
  /\ MaxSwitches \in Nat
  /\ MaxFailures \in Nat
  /\ MaxFaults \in Nat

VARIABLES
  waiting_queue,     \* GlobalServer.waiting_queue
  urgent_queue,      \* GlobalServer.urgent_queue
  inflight_requests, \* ids in GlobalServer.inflight_requests
  task,              \* the live _handle_request task of each request
  added,             \* requests for which add_request has run
  completed,         \* requests whose _completion_event is set
  pipelines,         \* Cluster.pipelines, the shared list
  made,              \* pipelines create_pipeline has finished
  is_ready,          \* Pipeline.is_ready
  flying_requests,   \* Pipeline.flying_requests
  addr,              \* Pipeline.api_server_host and api_server_port
  head,              \* node_ip and api_server_port of Pipeline.vnodes[0]
  servers,           \* live API server processes <<pipeline, address>>
  switching,         \* progress of switch_nodes on each pipeline
  old_first,         \* the node of its old_first_vnode
  pc,                \* where each stop_nodes / stop_node thread is
  job,               \* what it was called for, and target_pipeline_indices
  todo,              \* the indices it has still to stop
  victim,            \* the pipeline it is stopping
  new_pipelines,     \* the list remove_pipelines has built
  stopped,           \* history: pipelines stop_pipeline has been called on
  removals,          \* history: number of assignments of a new list
  failed,            \* history: pipelines with a switch an exception ended
  misdirected,       \* history: pipelines with a switch that kept a head a
                     \* failed one had put in place
  stops, switches, failures, faults  \* counters behind the bounds

opVars == <<pc, job, todo, victim, new_pipelines>>
loopVars == <<waiting_queue, urgent_queue, inflight_requests, task, added,
              completed, flying_requests, faults>>
switchVars == <<switching, old_first, failed, misdirected, switches, failures>>
clusterVars == <<pipelines, made, is_ready, addr, head, servers, switchVars,
                 opVars, stopped, removals, stops>>
vars == <<loopVars, clusterVars>>

(***************************************************************************)
(* Tasks.  "created": create_task has run, the task has not started.       *)
(* "sending": between _handle_request's lookup of the pipeline and         *)
(* send_request's own lookup.  "connecting": session.post awaits the       *)
(* connection.  "streaming": chunks of the response are being read.        *)
(***************************************************************************)
Addresses == Hosts \X Nat
NoPort == 0  \* the api_server_port of a VNode that was not told to start one
Task(at, i, p, s) == [pc |-> at, index |-> i, pipeline |-> p, server |-> s]
NoServer == <<NoPipeline, NoPort>>
NoTask == Task("none", 1, NoPipeline, NoServer)
TaskStates == [pc : {"none", "created", "sending", "connecting", "streaming"},
               index : Nat \ {0},
               pipeline : Pipelines \cup {NoPipeline},
               server : (Pipelines \X Addresses) \cup {NoServer}]

Live(r) == task[r].pc # "none"
\* Tasks that have incremented flying_requests of p and not yet decremented it
FlyingOn(p) == {r \in Requests : /\ task[r].pc \in {"sending", "connecting", "streaming"}
                                 /\ task[r].pipeline = p}

(***************************************************************************)
(* stop_nodes threads: "stop" walks the indices computed from the list,    *)
(* "kill" is inside Pipeline.stop_pipeline, "assign" holds pipelines_lock  *)
(* inside remove_pipelines with the new list built.                        *)
(***************************************************************************)
Job(remove, indices, targets) ==
  [remove |-> remove, indices |-> indices, targets |-> targets]
Jobs == [remove : BOOLEAN, indices : SUBSET (Nat \ {0}), targets : SUBSET Pipelines]
OpStates == {"idle", "stop", "kill", "assign"}

SwitchStates == {"none", "begun", "starting", "off", "swap", "host", "port"}

Init ==
  /\ waiting_queue = << >>
  /\ urgent_queue = << >>
  /\ inflight_requests = {}
  /\ task = [r \in Requests |-> NoTask]
  /\ added = {}
  /\ completed = {}
  /\ pipelines = InitialPipelines
  /\ made = Range(InitialPipelines)
  /\ is_ready = [p \in Pipelines |-> p \in made]
  /\ flying_requests = [p \in Pipelines |-> 0]
  /\ addr = [p \in Pipelines |-> <<InitialHost[p], BasePort>>]
  /\ head = addr
  /\ servers = {<<p, addr[p]>> : p \in made}
  /\ switching = [p \in Pipelines |-> "none"]
  /\ old_first = InitialHost
  /\ failed = {} /\ misdirected = {}
  /\ pc = [t \in Ops |-> "idle"]
  /\ job = [t \in Ops |-> Job(FALSE, {}, {})]
  /\ todo = [t \in Ops |-> {}]
  /\ victim = [t \in Ops |-> NoPipeline]
  /\ new_pipelines = [t \in Ops |-> << >>]
  /\ stopped = {}
  /\ removals = 0
  /\ stops = 0 /\ switches = 0 /\ failures = 0 /\ faults = 0

-----------------------------------------------------------------------------
(* The event loop.                                                         *)

\* No callback is suspended by the interpreter half way (only threads ran).
LoopFree == \A r \in Requests : task[r].pc # "sending"

\* Mutant: the comparison lets one request too many through.
CapacityOffByOne(p) == \/ max_batch_size[p] = NoLimit
                       \/ flying_requests[p] <= max_batch_size[p]
has_capacity(p) == \/ max_batch_size[p] = NoLimit
                   \/ flying_requests[p] < max_batch_size[p]

\* The counters after these calls; both updates are made under a lock.
add_flying_request(p) == [flying_requests EXCEPT ![p] = flying_requests[p] + 1]
remove_flying_request(p) ==
  [flying_requests EXCEPT ![p] = IF flying_requests[p] > 0 THEN flying_requests[p] - 1 ELSE 0]

\* The indices select_pipeline_index may return; the weighted draw among
\* them is a nondeterministic choice, and -1 is the empty set.
select_pipeline_index ==
  {i \in 1..Len(pipelines) : is_ready[pipelines[i]] /\ has_capacity(pipelines[i])}

\* _cleanup_completed_requests: forget the ids whose last task is done.
CleanedUp(inflight, newTask) == {r \in inflight : newTask[r].pc # "none"}

\* add_request, with urgent given or not
AddRequest(r) ==
  /\ LoopFree
  /\ r \notin added
  /\ added' = added \cup {r}
  /\ \/ urgent_queue' = Append(urgent_queue, r) /\ UNCHANGED waiting_queue
     \/ waiting_queue' = Append(waiting_queue, r) /\ UNCHANGED urgent_queue
  /\ UNCHANGED <<inflight_requests, task, completed, flying_requests, faults, clusterVars>>

\* The loop sleeps after each iteration, so a task it created has had its
\* first step (the ready queue is FIFO) before the next iteration begins.
LoopAwake == LoopFree /\ \A r \in Requests : task[r].pc # "created"

\* Mutant: the cleanup judges the new entry by the request's previous task.
CleanupBeforeTask(r, i) ==
  /\ task' = [task EXCEPT ![r] = Task("created", i, NoPipeline, NoServer)]
  /\ inflight_requests' = CleanedUp(inflight_requests \cup {r}, task)
  /\ UNCHANGED <<added, completed, flying_requests, faults, clusterVars>>
\* One iteration of run_global_server that dispatches r to index i.
CreateTask(r, i) ==
  /\ task' = [task EXCEPT ![r] = Task("created", i, NoPipeline, NoServer)]
  /\ inflight_requests' = CleanedUp(inflight_requests \cup {r}, task')
  /\ UNCHANGED <<added, completed, flying_requests, faults, clusterVars>>

\* Mutant: the retry is dispatched and left in the queue.
DispatchUrgentPeek(i) ==
  /\ LoopAwake
  /\ i \in select_pipeline_index
  /\ urgent_queue # << >>
  /\ UNCHANGED <<waiting_queue, urgent_queue>>
  /\ CreateTask(Head(urgent_queue), i)
DispatchUrgent(i) ==
  /\ LoopAwake
  /\ i \in select_pipeline_index
  /\ urgent_queue # << >>
  /\ urgent_queue' = Tail(urgent_queue)
  /\ UNCHANGED waiting_queue
  /\ CreateTask(Head(urgent_queue), i)

DispatchWaiting(i) ==
  /\ LoopAwake
  /\ i \in select_pipeline_index
  /\ urgent_queue = << >>
  /\ waiting_queue # << >>
  /\ waiting_queue' = Tail(waiting_queue)
  /\ UNCHANGED urgent_queue
  /\ CreateTask(Head(waiting_queue), i)

\* An iteration without a dispatch still cleans up.
IdleIteration ==
  /\ LoopAwake
  /\ select_pipeline_index = {} \/ (urgent_queue = << >> /\ waiting_queue = << >>)
  /\ inflight_requests' = CleanedUp(inflight_requests, task)
  /\ UNCHANGED <<waiting_queue, urgent_queue, task, added, completed,
                 flying_requests, faults, clusterVars>>

\* Mutant: the count is decremented by both clauses, without the clamp.
RequeueTwice(r) ==
  /\ urgent_queue' = Append(urgent_queue, r)
  /\ task' = [task EXCEPT ![r] = NoTask]
  /\ flying_requests' = [flying_requests EXCEPT ![task[r].pipeline] = @ - 2]
  /\ UNCHANGED <<waiting_queue, inflight_requests, added, completed, clusterVars>>

\* Mutant: the failed request is not put back.
RequeueDrops(r) ==
  /\ task' = [task EXCEPT ![r] = NoTask]
  /\ flying_requests' = remove_flying_request(task[r].pipeline)
  /\ UNCHANGED <<waiting_queue, urgent_queue, inflight_requests, added, completed, clusterVars>>

\* The except and finally clauses of _handle_request.
Requeue(r) ==
  /\ urgent_queue' = Append(urgent_queue, r)
  /\ task' = [task EXCEPT ![r] = NoTask]
  /\ flying_requests' = remove_flying_request(task[r].pipeline)
  /\ UNCHANGED <<waiting_queue, inflight_requests, added, completed, clusterVars>>

\* First lookup of _handle_request: an index past the end of the list is
\* logged and the task returns; otherwise the pipeline is charged.
StartTask(r) ==
  /\ LoopFree
  /\ task[r].pc = "created"
  /\ IF task[r].index > Len(pipelines)
     THEN /\ task' = [task EXCEPT ![r] = NoTask]
          /\ UNCHANGED flying_requests
     ELSE LET p == pipelines[task[r].index] IN
          /\ task' = [task EXCEPT ![r] = Task("sending", task[r].index, p, NoServer)]
          /\ flying_requests' = add_flying_request(p)
  /\ UNCHANGED <<waiting_queue, urgent_queue, inflight_requests, added,
                 completed, faults, clusterVars>>

\* send_request looks the index up again, after threads may have run, and
\* reads the address.  (A pipeline in the list always has an address.  Host
\* and port are read one after the other, but a switchover changes only one
\* of the two, so what is read is the old address or the new one.)
SendRequest(r) ==
  /\ task[r].pc = "sending"
  /\ IF task[r].index > Len(pipelines)
     THEN Requeue(r) /\ UNCHANGED faults
     ELSE LET q == pipelines[task[r].index] IN
          /\ task' = [task EXCEPT ![r] =
                Task("connecting", task[r].index, task[r].pipeline, <<q, addr[q]>>)]
          /\ UNCHANGED <<waiting_queue, urgent_queue, inflight_requests, added,
                         completed, flying_requests, faults, clusterVars>>

Connect(r) ==
  /\ LoopFree
  /\ task[r].pc = "connecting"
  /\ task[r].server \in servers
  /\ task' = [task EXCEPT ![r] =
        Task("streaming", task[r].index, task[r].pipeline, task[r].server)]
  /\ UNCHANGED <<waiting_queue, urgent_queue, inflight_requests, added,
                 completed, flying_requests, faults, clusterVars>>

ConnectionRefused(r) ==
  /\ LoopFree
  /\ task[r].pc = "connecting"
  /\ task[r].server \notin servers
  /\ Requeue(r)
  /\ UNCHANGED faults

\* Mutant: the finally clause uncharges the pipeline the request was sent to.
CompleteSecondLookup(r) ==
  /\ LoopFree
  /\ task[r].pc = "streaming"
  /\ completed' = completed \cup {r}
  /\ task' = [task EXCEPT ![r] = NoTask]
  /\ flying_requests' = remove_flying_request(task[r].server[1])
  /\ UNCHANGED <<waiting_queue, urgent_queue, inflight_requests, added, faults, clusterVars>>

\* The handler returned success (possibly from chunks already received from
\* a server that has died since).
Complete(r) ==
  /\ LoopFree
  /\ task[r].pc = "streaming"
  /\ completed' = completed \cup {r}
  /\ task' = [task EXCEPT ![r] = NoTask]
  /\ flying_requests' = remove_flying_request(task[r].pipeline)
  /\ UNCHANGED <<waiting_queue, urgent_queue, inflight_requests, added, faults, clusterVars>>

\* The stream breaks because its server died, or for any other reason.
StreamBroken(r) ==
  /\ LoopFree
  /\ task[r].pc = "streaming"
  /\ \/ task[r].server \notin servers /\ UNCHANGED faults
     \/ faults < MaxFaults /\ faults' = faults + 1
  /\ Requeue(r)

-----------------------------------------------------------------------------
(* Threads that change the cluster.                                        *)

\* Mutant: the new pipeline comes first in the list.
CreatePipelineFirst(p) ==
  /\ p \notin made
  /\ made' = made \cup {p}
  /\ is_ready' = [is_ready EXCEPT ![p] = TRUE]
  /\ servers' = servers \cup {<<p, addr[p]>>}
  /\ pipelines' = <<p>> \o pipelines
  /\ UNCHANGED <<loopVars, addr, head, switchVars, opVars, stopped, removals, stops>>
\* Cluster.create_pipeline: everything up to is_ready = True happens on an
\* object no one else can see; then it is appended without pipelines_lock.
CreatePipeline(p) ==
  /\ p \notin made
  /\ made' = made \cup {p}
  /\ is_ready' = [is_ready EXCEPT ![p] = TRUE]
  /\ servers' = servers \cup {<<p, addr[p]>>}
  /\ pipelines' = Append(pipelines, p)
  /\ UNCHANGED <<loopVars, addr, head, switchVars, opVars, stopped, removals, stops>>

\* stop_nodes: the indices of the pipelines that contain a given node.
StopNodes(t, targets) ==
  /\ pc[t] = "idle"
  /\ stops < MaxStops
  /\ stops' = stops + 1
  /\ LET indices == {i \in 1..Len(pipelines) : pipelines[i] \in targets} IN
     /\ job' = [job EXCEPT ![t] = Job(TRUE, indices, targets)]
     /\ todo' = [todo EXCEPT ![t] = indices]
  /\ pc' = [pc EXCEPT ![t] = "stop"]
  /\ UNCHANGED <<loopVars, pipelines, made, is_ready, addr, head, servers,
                 switchVars, victim, new_pipelines, stopped, removals>>

\* stop_node: the first pipeline that contains the node; never removed.
StopNode(t, i) ==
  /\ pc[t] = "idle"
  /\ stops < MaxStops
  /\ i \in 1..Len(pipelines)
  /\ stops' = stops + 1
  /\ job' = [job EXCEPT ![t] = Job(FALSE, {i}, {pipelines[i]})]
  /\ todo' = [todo EXCEPT ![t] = {i}]
  /\ pc' = [pc EXCEPT ![t] = "stop"]
  /\ UNCHANGED <<loopVars, pipelines, made, is_ready, addr, head, servers,
                 switchVars, victim, new_pipelines, stopped, removals>>

\* GlobalServer.stop_pipeline(i): the assertion on the index (its exception
\* ends the call), the lookup, and Pipeline.stop_pipeline's first assignment.
StopMark(t, i) ==
  /\ pc[t] = "stop"
  /\ i \in todo[t]
  /\ IF i > Len(pipelines)
     THEN /\ pc' = [pc EXCEPT ![t] = "idle"]
          /\ todo' = [todo EXCEPT ![t] = {}]
          /\ UNCHANGED <<is_ready, stopped, victim>>
     ELSE LET p == pipelines[i] IN
          /\ is_ready' = [is_ready EXCEPT ![p] = FALSE]
          /\ stopped' = stopped \cup {p}
          /\ pc' = [pc EXCEPT ![t] = "kill"]
          /\ todo' = [todo EXCEPT ![t] = todo[t] \ {i}]
          /\ victim' = [victim EXCEPT ![t] = p]
  /\ UNCHANGED <<loopVars, pipelines, made, addr, head, servers, switchVars,
                 job, new_pipelines, removals, stops>>

\* VNode.stop_api_server(port) on node h: the server there ends; the errors
\* are only logged, so one on a node that cannot be reached lives on.
stop_api_server(p, h, port) == {servers \ {<<p, <<h, port>>>>}, servers}

\* The rest of Pipeline.stop_pipeline: vnodes[0].stop_api_server() stops the
\* server that vnode was last told to start, if it was.
StopKill(t) ==
  /\ pc[t] = "kill"
  /\ LET v == head[victim[t]] IN servers' \in stop_api_server(victim[t], v[1], v[2])
  /\ pc' = [pc EXCEPT ![t] = "stop"]
  /\ UNCHANGED <<loopVars, pipelines, made, is_ready, addr, head, switchVars, job,
                 todo, victim, new_pipelines, stopped, removals, stops>>

\* stop_node returns.
StopNodeDone(t) ==
  /\ pc[t] = "stop" /\ todo[t] = {} /\ ~job[t].remove
  /\ pc' = [pc EXCEPT ![t] = "idle"]
  /\ UNCHANGED <<loopVars, pipelines, made, is_ready, addr, head, servers, switchVars,
                 job, todo, victim, new_pipelines, stopped, removals, stops>>

\* The positions remove_pipelines keeps, in list order: the increasing
\* enumeration of the positions of a list of length n that are not in S.
KeptPositions(n, S) ==
  LET keep == (1..n) \ S IN
  {f \in [1..Cardinality(keep) -> keep] :
      \A j, k \in 1..Cardinality(keep) : j < k => f[j] < f[k]}

pipelines_lock_free == \A u \in Ops : pc[u] # "assign"

\* remove_pipelines: take the lock, check the assertion (its exception ends
\* the call), build the new list.
RemovePipelines(t) ==
  /\ pc[t] = "stop" /\ todo[t] = {} /\ job[t].remove
  /\ pipelines_lock_free
  /\ IF \E i \in job[t].indices : i <= Len(pipelines) /\ is_ready[pipelines[i]]
     THEN /\ pc' = [pc EXCEPT ![t] = "idle"]
          /\ UNCHANGED new_pipelines
     ELSE /\ pc' = [pc EXCEPT ![t] = "assign"]
          /\ \E f \in KeptPositions(Len(pipelines), job[t].indices) :
               new_pipelines' = [new_pipelines EXCEPT ![t] =
                                   [k \in DOMAIN f |-> pipelines[f[k]]]]
  /\ UNCHANGED <<loopVars, pipelines, made, is_ready, addr, head, servers,
                 switchVars, job, todo, victim, stopped, removals, stops>>

\* remove_pipelines: self.pipelines = new_pipelines, release the lock.
AssignPipelines(t) ==
  /\ pc[t] = "assign"
  /\ pipelines' = new_pipelines[t]
  /\ removals' = removals + 1
  /\ pc' = [pc EXCEPT ![t] = "idle"]
  /\ UNCHANGED <<loopVars, made, is_ready, addr, head, servers, switchVars, job,
                 todo, victim, new_pipelines, stopped, stops>>

\* Pipeline.switch_nodes notes its old_first_vnode and replaces VNodes,
\* perhaps vnodes[0]; then, for minutes, Ray and the tensor stores start while
\* the old server serves.
SwitchBegin(p) ==
  /\ p \in Range(pipelines)
  /\ switching[p] = "none"
  /\ switches < MaxSwitches
  /\ switches' = switches + 1
  /\ old_first' = [old_first EXCEPT ![p] = head[p][1]]
  /\ \E v \in {head[p]} \cup (Hosts \X {NoPort}) :
       /\ head' = [head EXCEPT ![p] = v]
       /\ misdirected' = misdirected \cup
            {q \in {p} : v[1] = head[p][1] /\ addr[p][1] # head[p][1]}
  /\ switching' = [switching EXCEPT ![p] = "begun"]
  /\ UNCHANGED <<loopVars, pipelines, made, is_ready, addr, servers, failed, failures,
                 opVars, stopped, removals, stops>>

\* start_ray_cluster raises, or starting the tensor stores: the switch is over
\* and nothing is undone.
SwitchRaises(p) ==
  /\ switching[p] = "begun"
  /\ failures < MaxFailures
  /\ failures' = failures + 1
  /\ failed' = failed \cup {p}
  /\ switching' = [switching EXCEPT ![p] = "none"]
  /\ UNCHANGED <<loopVars, pipelines, made, is_ready, addr, head, servers, old_first,
                 misdirected, switches, opVars, stopped, removals, stops>>

\* After a failed switch VNodes may be left without a tensor_store_port; one
\* that takes over from them has none, and its status check raises (switch_node
\* checks before the new server is started, switch_nodes after).
SwitchRaisesPortless(p) ==
  /\ switching[p] \in {"begun", "starting"}
  /\ p \in failed
  /\ switching' = [switching EXCEPT ![p] = "none"]
  /\ UNCHANGED <<loopVars, pipelines, made, is_ready, addr, head, servers, old_first,
                 failed, misdirected, switches, failures, opVars, stopped, removals, stops>>

\* The new API server's address: the next port if the host is the one of the
\* address in use.
NewAddress(p) ==
  LET h == head[p][1] IN
  <<h, IF h = addr[p][1] THEN addr[p][2] + 1 ELSE addr[p][2]>>

\* start_api_server on vnodes[0]; a server whose port is taken exits, and the
\* one that has the port answers for it.
SwitchStart(p) ==
  /\ switching[p] = "begun"
  /\ head' = [head EXCEPT ![p] = NewAddress(p)]
  /\ servers' = servers \cup {<<p, NewAddress(p)>>}
  /\ switching' = [switching EXCEPT ![p] = "starting"]
  /\ UNCHANGED <<loopVars, pipelines, made, is_ready, addr, old_first, failed, misdirected,
                 switches, failures, opVars, stopped, removals, stops>>

\* Mutant: the pipeline keeps accepting requests during the switchover.
SwitchWithoutOff(p) ==
  /\ switching[p] = "starting"
  /\ <<p, head[p]>> \in servers
  /\ switching' = [switching EXCEPT ![p] = "off"]
  /\ UNCHANGED <<loopVars, pipelines, made, is_ready, addr, head, servers, old_first, failed,
                 misdirected, switches, failures, opVars, stopped, removals, stops>>
\* The new server answered its health check: is_ready = False.
SwitchOff(p) ==
  /\ switching[p] = "starting"
  /\ <<p, head[p]>> \in servers
  /\ is_ready' = [is_ready EXCEPT ![p] = FALSE]
  /\ switching' = [switching EXCEPT ![p] = "off"]
  /\ UNCHANGED <<loopVars, pipelines, made, addr, head, servers, old_first, failed,
                 misdirected, switches, failures, opVars, stopped, removals, stops>>

\* old_first_vnode.stop_api_server(old_api_server_port)
SwitchStopOld(p) ==
  /\ switching[p] = "off"
  /\ servers' \in stop_api_server(p, old_first[p], addr[p][2])
  /\ switching' = [switching EXCEPT ![p] = "swap"]
  /\ UNCHANGED <<loopVars, pipelines, made, is_ready, addr, head, old_first, failed,
                 misdirected, switches, failures, opVars, stopped, removals, stops>>

\* The new host, the new port, is_ready = True: three assignments no lock
\* keeps together.
SwitchHost(p) ==
  /\ switching[p] = "swap"
  /\ addr' = [addr EXCEPT ![p] = <<head[p][1], addr[p][2]>>]
  /\ switching' = [switching EXCEPT ![p] = "host"]
  /\ UNCHANGED <<loopVars, pipelines, made, is_ready, head, servers, old_first, failed,
                 misdirected, switches, failures, opVars, stopped, removals, stops>>

SwitchPort(p) ==
  /\ switching[p] = "host"
  /\ addr' = [addr EXCEPT ![p] = head[p]]
  /\ switching' = [switching EXCEPT ![p] = "port"]
  /\ UNCHANGED <<loopVars, pipelines, made, is_ready, head, servers, old_first, failed,
                 misdirected, switches, failures, opVars, stopped, removals, stops>>

SwitchOn(p) ==
  /\ switching[p] = "port"
  /\ is_ready' = [is_ready EXCEPT ![p] = TRUE]
  /\ switching' = [switching EXCEPT ![p] = "none"]
  /\ UNCHANGED <<loopVars, pipelines, made, addr, head, servers, old_first, failed,
                 misdirected, switches, failures, opVars, stopped, removals, stops>>

-----------------------------------------------------------------------------
TaskStep(r) == \/ StartTask(r) \/ SendRequest(r) \/ Connect(r)
               \/ ConnectionRefused(r) \/ Complete(r) \/ StreamBroken(r)

LoopStep == \/ \E i \in 1..Len(pipelines) : DispatchUrgent(i) \/ DispatchWaiting(i)
            \/ IdleIteration

OpStep(t) == \/ \E targets \in SUBSET Range(pipelines) : StopNodes(t, targets)
             \/ \E i \in 1..Len(pipelines) : StopNode(t, i)
             \/ \E i \in todo[t] : StopMark(t, i)
             \/ StopKill(t) \/ StopNodeDone(t)
             \/ RemovePipelines(t) \/ AssignPipelines(t)

\* A switch that has begun goes on.
SwitchGoesOn(p) == \/ SwitchStart(p) \/ SwitchOff(p) \/ SwitchStopOld(p)
                   \/ SwitchHost(p) \/ SwitchPort(p) \/ SwitchOn(p)

SwitchStep(p) == SwitchBegin(p) \/ SwitchRaises(p) \/ SwitchRaisesPortless(p) \/ SwitchGoesOn(p)

Next ==
  \/ \E r \in Requests : AddRequest(r)
  \/ LoopStep
  \/ \E r \in Requests : TaskStep(r)
  \/ \E p \in Pipelines : CreatePipeline(p) \/ SwitchStep(p)
  \/ \E t \in Ops : OpStep(t)

Spec == Init /\ [][Next]_vars

\* The event loop runs every ready callback, a stream ends, and a thread
\* that has begun an operation goes on with it.  Nothing obliges a client to
\* submit, an operator to act, or a pipeline to be created.
Fairness ==
  /\ WF_vars(\E i \in 1..Len(pipelines) : DispatchUrgent(i) \/ DispatchWaiting(i))
  /\ \A r \in Requests : WF_vars(TaskStep(r))
  /\ \A p \in Pipelines : WF_vars(SwitchGoesOn(p))
  /\ \A t \in Ops : WF_vars(\/ \E i \in todo[t] : StopMark(t, i)
                            \/ StopKill(t) \/ StopNodeDone(t)
                            \/ RemovePipelines(t) \/ AssignPipelines(t))

FairSpec == Spec /\ Fairness
-----------------------------------------------------------------------------
(* Properties.                                                             *)

LoopTypeOK ==
  /\ waiting_queue \in Seq(Requests)
  /\ urgent_queue \in Seq(Requests)
  /\ inflight_requests \in SUBSET Requests
  /\ task \in [Requests -> TaskStates]
  /\ added \in SUBSET Requests
  /\ completed \in SUBSET Requests
  /\ flying_requests \in [Pipelines -> Nat]
  /\ faults \in Nat

ClusterTypeOK ==
  /\ pipelines \in Seq(Pipelines)
  /\ made \in SUBSET Pipelines
  /\ is_ready \in [Pipelines -> BOOLEAN]
  /\ addr \in [Pipelines -> Addresses]
  /\ head \in [Pipelines -> Addresses]
  /\ servers \in SUBSET (Pipelines \X Addresses)
  /\ switching \in [Pipelines -> SwitchStates]
  /\ old_first \in [Pipelines -> Hosts]
  /\ failed \in SUBSET Pipelines
  /\ misdirected \in SUBSET Pipelines
  /\ failures \in Nat
  /\ pc \in [Ops -> OpStates]
  /\ job \in [Ops -> Jobs]
  /\ todo \in [Ops -> SUBSET (Nat \ {0})]
  /\ victim \in [Ops -> Pipelines \cup {NoPipeline}]
  /\ new_pipelines \in [Ops -> Seq(Pipelines)]
  /\ stopped \in SUBSET Pipelines
  /\ removals \in Nat /\ stops \in Nat /\ switches \in Nat

\* The values the variables can take; in particular the counter of flying
\* requests never goes negative and an index handed to a task is a position.
TypeOK == LoopTypeOK /\ ClusterTypeOK

Queued == Range(waiting_queue) \cup Range(urgent_queue)
InQueueOnce(q) == \A i, j \in 1..Len(q) : q[i] = q[j] => i = j

\* A request is in one place at most: once in one queue, or in one live task,
\* or completed.  _handle_request requeues a failed attempt itself, so a
\* second copy would be generated twice and its output object shared.
AtMostOnce ==
  /\ InQueueOnce(waiting_queue)
  /\ InQueueOnce(urgent_queue)
  /\ Range(waiting_queue) \cap Range(urgent_queue) = {}
  /\ \A r \in Requests : Live(r) => r \notin Queued
  /\ completed \cap Queued = {}
  /\ \A r \in completed : ~Live(r)

\* flying_requests of a pipeline is the number of tasks charged to it, on
\* every path through _handle_request, although the two lookups of the index
\* may find different pipelines; so max(0, n - 1) never hides a miscount.
FlyingExact == \A p \in Pipelines : flying_requests[p] = Cardinality(FlyingOn(p))

\* max_batch_size is a soft limit (VNode.py:81), and this is how soft: the
\* event loop alone never exceeds it, each replacement of the pipeline list
\* between a selection and its task can exceed it by one request.
CapacitySlack ==
  \A p \in Pipelines : max_batch_size[p] # NoLimit =>
     flying_requests[p] <= max_batch_size[p] + removals

\* inflight_requests holds the only strong reference to a running task; the
\* cleanup of a finished attempt never drops the retry that took its place.
TasksAreTracked == \A r \in Requests : Live(r) => r \in inflight_requests

\* Requests that were submitted and are neither waiting, running nor done.
Lost == {r \in added : r \notin Queued /\ ~Live(r) /\ r \notin completed}

\* Only a replacement of the pipeline list can lose a request, and it loses
\* one at most (the early return of _handle_request on a stale index).
LossNeedsRemoval == Cardinality(Lost) <= removals

\* The global server implements the service its clients expect
\* (RequestService): queues, tasks and indices never let a request be served
\* after it is done, be run twice, or vanish except by a replaced list.
Service == INSTANCE RequestService
             WITH submitted <- added, running <- {r \in Requests : Live(r)},
                  done <- completed, lost <- Lost, reductions <- removals
ImplementsService == Service!Spec

\* stop_nodes and stop_node stop no pipeline but those that contain the given
\* nodes, as long as no two calls overlap: pipelines created between the
\* computation of the indices and their use do not shift them.
StopsOnlyTargets ==
  \A t \in Ops : pc[t] = "kill" => victim[t] \in job[t].targets

\* A pipeline the balancer may select has a live API server at the address
\* send_request reads: neither the order of the switchover (off, stop old, new
\* address, on) nor a switch that an exception ends exposes a dead one.  Two
\* things do: stop_pipeline racing the switchover, and a switch that keeps the
\* head node a failed one had moved to, whose old_first_vnode (VNode.py:924)
\* is then the node of the new server, so that it stops what it has started.
ReadyMeansServing ==
  \A p \in made \ (stopped \cup misdirected) : is_ready[p] => <<p, addr[p]>> \in servers

\* Every submitted request completes, if no stop_nodes replaces the list under
\* it (then it may be lost, see NoRequestLost) and from some time on some
\* listed pipeline is ready and every ready one has its API server: retries go
\* first and fail only finitely often, and no switchover strands a request.
EventuallyServed ==
  (<>[](LET ready == {p \in Range(pipelines) : is_ready[p]} IN
        ready # {} /\ \A p \in ready : <<p, addr[p]>> \in servers))
     => \A r \in Requests : (r \in added) ~> (r \in completed \/ removals > 0)

\* "Migration mode preserves in-flight request tokens across the restart"
\* (request_migration.py:5): stop_nodes loses no request.
NoRequestLost == Lost = {}

\* "Mark pipeline as not ready to prevent new requests" (VNode.py:701): a
\* stopped pipeline is not offered to the balancer without an API server.
StoppedStaysOff ==
  \A p \in stopped : is_ready[p] => <<p, addr[p]>> \in servers
=============================================================================
