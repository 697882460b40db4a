---------------------------- MODULE RayConnection ----------------------------
(***************************************************************************)
(* The Ray clusters the pipelines of one global server start in and move   *)
(* between: Pipeline.start_ray_cluster, get_alternate_ray_port and the GPU *)
(* loops of initialize_pipeline, switch_node and switch_nodes              *)
(* (GlobalServer/VNode.py).                                                *)
(*                                                                         *)
(* The process has one Ray connection.  Every pipeline points it at the    *)
(* head it wants, under ray_init_lock, and later reads ray.nodes(), under  *)
(* the lock again, of whatever head it points at by then.  Ray, ssh and    *)
(* the engine's placement group are external.                              *)
(***************************************************************************)
EXTENDS Integers, FiniteSets

CONSTANTS
  Pipelines,     \* Pipeline objects
  Nodes,         \* node IPs
  InitialNodes,  \* the nodes each pipeline is created with
  NoPort,        \* None
  MaxSwitches,   \* bound: switches
  MaxFailures    \* bound: failures of Ray or ssh

ASSUME RayAssumption ==
  /\ InitialNodes \in [Pipelines -> SUBSET Nodes]
  /\ NoPort \notin Nat
  /\ MaxSwitches \in Nat
  /\ MaxFailures \in Nat

VARIABLES
  hexgen,      \* the pipelines whose mode is "hexgen"; never changes
  connection,  \* the head ray.init was last called for
  cluster,     \* the live nodes of the cluster behind each head
  pc,          \* where each pipeline's creation or switch is
  ray_port,    \* Pipeline.ray_port
  vnodes,      \* the node IPs of Pipeline.vnodes
  removed,     \* the nodes the running switch took out
  nodes_to_connect, \* local of start_ray_cluster
  unseen,      \* nodes whose GPUs the GPU loop has still to see
  engine,      \* the cluster the running engine has its placement group in
  held,        \* the nodes whose GPUs that group holds
  broken,      \* history: pipelines an exception has hit
  mixed,       \* history: two pipelines were at it on different ports at once
  shared,      \* history: a node was given to two pipelines
  switches, failures \* counters behind the bounds

pipelineVars == <<hexgen, ray_port, vnodes, removed, engine, held>>
vars == <<connection, cluster, pc, pipelineVars, nodes_to_connect, unseen,
          broken, mixed, shared, switches, failures>>

Ports == {6379, 6380}

\* The stages in which a pipeline uses the connection.
Busy(p) == pc[p] \in {"init", "list", "join", "poll", "gpus"}

\* A creation or a switch of the pipeline is running.
Active(p) == Busy(p) \/ pc[p] = "engine"

\* The nodes it has or will be created with, and the ones a switch gives up
\* until it has ended.
Uses(p) ==
  CASE pc[p] = "new" -> InitialNodes[p]
    [] Active(p) \/ pc[p] = "stop" -> vnodes[p] \cup removed[p]
    [] OTHER -> vnodes[p]

\* Both heads run on the global server's node, without workers.
Init ==
  /\ hexgen \in SUBSET Pipelines
  /\ connection = NoPort
  /\ cluster = [h \in Ports |-> {}]
  /\ pc = [p \in Pipelines |-> "new"]
  /\ ray_port = [p \in Pipelines |-> NoPort]
  /\ vnodes = [p \in Pipelines |-> {}]
  /\ removed = [p \in Pipelines |-> {}]
  /\ nodes_to_connect = [p \in Pipelines |-> {}]
  /\ unseen = [p \in Pipelines |-> {}]
  /\ engine = [p \in Pipelines |-> NoPort]
  /\ held = [p \in Pipelines |-> {}]
  /\ broken = {}
  /\ mixed = FALSE
  /\ shared = \E p, q \in Pipelines : p # q /\ InitialNodes[p] \cap InitialNodes[q] # {}
  /\ switches = 0 /\ failures = 0

\* Mutant: one port for all.
FirstPortOnly(p) == 6379
get_alternate_ray_port(p) ==
  IF ray_port[p] = 6379 /\ p \notin hexgen THEN 6380 ELSE 6379

\* Mutant: the GPU loop also waits for the nodes that were taken out.
BeginWaitsForOld(p, new, out) ==
  /\ pc' = [pc EXCEPT ![p] = "init"]
  /\ ray_port' = [ray_port EXCEPT ![p] = get_alternate_ray_port(p)]
  /\ vnodes' = [vnodes EXCEPT ![p] = (vnodes[p] \ out) \cup new]
  /\ removed' = [removed EXCEPT ![p] = out]
  /\ unseen' = [unseen EXCEPT ![p] = new \cup out]
  /\ mixed' = (mixed \/ \E q \in Pipelines : Busy(q) /\ ray_port[q] # ray_port'[p])
  /\ UNCHANGED <<hexgen, connection, cluster, nodes_to_connect, engine, held, broken, failures>>
\* New VNodes are in place and start_ray_cluster is entered.
Begin(p, new, out) ==
  /\ pc' = [pc EXCEPT ![p] = "init"]
  /\ ray_port' = [ray_port EXCEPT ![p] = get_alternate_ray_port(p)]
  /\ vnodes' = [vnodes EXCEPT ![p] = (vnodes[p] \ out) \cup new]
  /\ removed' = [removed EXCEPT ![p] = out]
  /\ unseen' = [unseen EXCEPT ![p] = new]
  /\ mixed' = (mixed \/ \E q \in Pipelines : Busy(q) /\ ray_port[q] # ray_port'[p])
  /\ UNCHANGED <<hexgen, connection, cluster, nodes_to_connect, engine, held, broken, failures>>

initialize_pipeline(p) ==
  /\ pc[p] = "new"
  /\ Begin(p, InitialNodes[p], {})
  /\ UNCHANGED <<shared, switches>>

\* switch_node or switch_nodes of one node of a pipeline that serves, perhaps
\* after a switch that failed, to a node it does not have.  Nothing checks
\* whether another pipeline has the new node, is giving it up or will be
\* created with it.
switch_nodes(p, old, new) ==
  /\ pc[p] \in {"up", "failed"} /\ engine[p] # NoPort
  /\ old \in vnodes[p]
  /\ new \notin vnodes[p]
  /\ switches < MaxSwitches
  /\ switches' = switches + 1
  /\ shared' = (shared \/ \E q \in Pipelines \ {p} : new \in Uses(q) \cup held[q])
  /\ Begin(p, {new}, {old})

-----------------------------------------------------------------------------
(* start_ray_cluster.                                                      *)

\* An exception leaves the Pipeline object as it is.
Raise(p) ==
  /\ pc' = [pc EXCEPT ![p] = "failed"]
  /\ broken' = broken \cup {p}
  /\ UNCHANGED <<pipelineVars, nodes_to_connect, unseen, mixed, shared, switches>>

\* ray.shutdown and ray.init, under ray_init_lock.
init_ray(p) ==
  /\ pc[p] = "init"
  /\ connection' = ray_port[p]
  /\ pc' = [pc EXCEPT ![p] = "list"]
  /\ UNCHANGED <<cluster, pipelineVars, nodes_to_connect, unseen, broken, mixed,
                 shared, switches, failures>>

\* ray.init raises after ray.shutdown: the process has no connection.
InitFails(p) ==
  /\ pc[p] = "init"
  /\ failures < MaxFailures /\ failures' = failures + 1
  /\ connection' = NoPort
  /\ Raise(p)
  /\ UNCHANGED cluster

\* Without a connection ray.nodes() raises.
NoConnection(p) ==
  /\ pc[p] \in {"list", "poll", "gpus"}
  /\ connection = NoPort
  /\ Raise(p)
  /\ UNCHANGED <<connection, cluster, failures>>

ConnectedIps == IF connection = NoPort THEN {} ELSE cluster[connection]

\* The nodes that are not connected yet; nothing is done if there is none.
ListNodes(p) ==
  /\ pc[p] = "list" /\ connection # NoPort
  /\ nodes_to_connect' = [nodes_to_connect EXCEPT ![p] = vnodes[p] \ ConnectedIps]
  /\ pc' = [pc EXCEPT ![p] = IF vnodes[p] \subseteq ConnectedIps THEN "gpus" ELSE "join"]
  /\ UNCHANGED <<connection, cluster, pipelineVars, unseen, broken, mixed,
                 shared, switches, failures>>

\* "ray start --address" on each of them, with the pipeline's own port.
ConnectNodes(p) ==
  /\ pc[p] = "join"
  /\ cluster' = [cluster EXCEPT ![ray_port[p]] = @ \cup nodes_to_connect[p]]
  /\ pc' = [pc EXCEPT ![p] = "poll"]
  /\ UNCHANGED <<connection, pipelineVars, nodes_to_connect, unseen, broken, mixed,
                 shared, switches, failures>>

\* Some of the commands fail.
ConnectFails(p) ==
  /\ pc[p] = "join"
  /\ failures < MaxFailures /\ failures' = failures + 1
  /\ \E S \in SUBSET nodes_to_connect[p] :
        /\ S # nodes_to_connect[p]
        /\ cluster' = [cluster EXCEPT ![ray_port[p]] = @ \cup S]
  /\ Raise(p)
  /\ UNCHANGED connection

\* The polling loop sees all nodes of the pipeline.
AllConnected(p) ==
  /\ pc[p] = "poll"
  /\ vnodes[p] \subseteq ConnectedIps /\ connection # NoPort
  /\ pc' = [pc EXCEPT ![p] = "gpus"]
  /\ UNCHANGED <<connection, cluster, pipelineVars, nodes_to_connect, unseen, broken,
                 mixed, shared, switches, failures>>

\* It has seen some of them missing max_attempts times.
PollTimeout(p) ==
  /\ pc[p] = "poll"
  /\ ~(vnodes[p] \subseteq ConnectedIps) /\ connection # NoPort
  /\ Raise(p)
  /\ UNCHANGED <<connection, cluster, failures>>

-----------------------------------------------------------------------------
\* The GPU loop finds node n; it has no deadline.
GpusSeen(p, n) ==
  /\ pc[p] = "gpus"
  /\ n \in unseen[p] \cap ConnectedIps
  /\ unseen' = [unseen EXCEPT ![p] = @ \ {n}]
  /\ pc' = [pc EXCEPT ![p] = IF unseen[p] = {n} THEN "engine" ELSE "gpus"]
  /\ UNCHANGED <<connection, cluster, pipelineVars, nodes_to_connect, broken, mixed,
                 shared, switches, failures>>

\* Starting the tensor stores raises.
StoresFail(p) ==
  /\ pc[p] = "engine"
  /\ failures < MaxFailures /\ failures' = failures + 1
  /\ Raise(p)
  /\ UNCHANGED <<connection, cluster>>

\* The API server's engine waits for its placement group: a GPU bundle on
\* every node of the cluster it was given, not held by the running engine.
\* Then the pipeline is switched over and the old group is released;
\* switch_node (not switch_nodes) has the removed node to clean up.
EngineReady(p) ==
  /\ pc[p] = "engine"
  /\ vnodes[p] \subseteq cluster[ray_port[p]]
  /\ engine[p] = ray_port[p] => held[p] \cap vnodes[p] = {}
  /\ engine' = [engine EXCEPT ![p] = ray_port[p]]
  /\ held' = [held EXCEPT ![p] = vnodes[p]]
  /\ \E s \in {"up"} \cup {x \in {"stop"} : removed[p] # {}} : pc' = [pc EXCEPT ![p] = s]
  /\ UNCHANGED <<hexgen, connection, cluster, ray_port, vnodes, removed, nodes_to_connect,
                 unseen, broken, mixed, shared, switches, failures>>

\* Mutant: Ray is stopped on the nodes the pipeline has.
StopRayOnAll(p) ==
  /\ pc[p] = "stop"
  /\ cluster' \in {cluster, [h \in Ports |-> cluster[h] \ vnodes[p]]}
  /\ pc' = [pc EXCEPT ![p] = "up"]
  /\ UNCHANGED <<connection, pipelineVars, nodes_to_connect, unseen, broken, mixed,
                 shared, switches, failures>>
\* "ray stop" on the node that was taken out, in whatever cluster it is by
\* now; its errors are only logged.
StopRay(p) ==
  /\ pc[p] = "stop"
  /\ cluster' \in {cluster, [h \in Ports |-> cluster[h] \ removed[p]]}
  /\ pc' = [pc EXCEPT ![p] = "up"]
  /\ UNCHANGED <<connection, pipelineVars, nodes_to_connect, unseen, broken, mixed,
                 shared, switches, failures>>

Step(p) == \/ init_ray(p) \/ NoConnection(p) \/ ListNodes(p) \/ ConnectNodes(p)
           \/ AllConnected(p) \/ PollTimeout(p)
           \/ \E n \in Nodes : GpusSeen(p, n)
           \/ EngineReady(p) \/ StopRay(p)

\* Nothing is asked for, or a loop or an engine waits.
Waiting == UNCHANGED vars

Next ==
  \/ \E p \in Pipelines : \/ initialize_pipeline(p)
                          \/ \E old, new \in Nodes : switch_nodes(p, old, new)
                          \/ InitFails(p) \/ ConnectFails(p) \/ StoresFail(p)
                          \/ Step(p)
  \/ Waiting

Spec == Init /\ [][Next]_vars

\* Threads go on, and Ray answers; nobody has to create or to switch.
FairSpec == Spec /\ \A p \in Pipelines : WF_vars(Step(p))
-----------------------------------------------------------------------------
(* Properties.                                                             *)

\* start_ray_cluster leaves every node of the pipeline in the cluster its
\* engine is given, and no other pipeline's "ray stop" takes one out again,
\* although other pipelines re-point the connection between its reads: any
\* number of pipelines may be created or switched at once.  There are two
\* exceptions: some go to one head and some to the other at the same time, and
\* so may count their nodes in the wrong cluster; or a node is given to a
\* pipeline while another still has it or has not ended giving it up.
JoinedUnlessMixed ==
  \A p \in Pipelines :
     pc[p] \in {"engine", "stop", "up"}
       => vnodes[p] \subseteq cluster[ray_port[p]] \/ mixed \/ shared

\* A switch builds its new engine in the cluster the old engine does not use,
\* so that it need not wait for GPUs the old one holds; unless the mode is
\* "hexgen", or a switch of this pipeline failed before, which leaves ray_port
\* flipped.
FreshCluster ==
  \A p \in Pipelines \ (hexgen \cup broken) :
     Active(p) /\ engine[p] # NoPort => ray_port[p] # engine[p]

\* A creation or a switch comes to its end although the loops it waits in have
\* no deadline, unless ports are mixed, nodes are shared, an exception has hit
\* this pipeline (the next switch of it goes into the cluster whose GPUs its
\* engine holds, and waits for ever), or a pipeline in mode "hexgen" is
\* switched.
StartEnds ==
  \A p \in Pipelines :
     /\ Active(p)
     /\ p \in hexgen => engine[p] = NoPort
     ~> pc[p] = "up" \/ mixed \/ shared \/ p \in broken
=============================================================================
