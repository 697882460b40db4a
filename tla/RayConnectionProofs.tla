------------------------ MODULE RayConnectionProofs ------------------------
(***************************************************************************)
(* The Ray connection, for any number of pipelines, nodes, switches and    *)
(* failures.  Alternation is what a pipeline knows of its own ports;       *)
(* Ownership and Joining relate the pipelines to each other, as long as no *)
(* node is given to two of them.                                           *)
(***************************************************************************)
EXTENDS RayConnection, TLAPS

Stages == {"new", "init", "list", "join", "poll", "gpus", "engine", "stop", "up",
           "failed"}
NodeSets == [Pipelines -> SUBSET Nodes]

\* Types of the variables the properties depend on.
RayTypes ==
  /\ hexgen \subseteq Pipelines
  /\ connection \in Ports \cup {NoPort}
  /\ cluster \in [Ports -> SUBSET Nodes]
  /\ pc \in [Pipelines -> Stages]
  /\ ray_port \in [Pipelines -> Ports \cup {NoPort}]
  /\ engine \in [Pipelines -> Ports \cup {NoPort}]
  /\ vnodes \in NodeSets /\ removed \in NodeSets
  /\ nodes_to_connect \in NodeSets /\ held \in NodeSets
  /\ broken \subseteq Pipelines

\* A pipeline that no exception has hit alternates between the ports: its
\* engine is in the cluster of its port when it serves, in the other one while
\* a switch runs.
Alternation ==
  \A p \in Pipelines :
    /\ pc[p] = "new" => engine[p] = NoPort
    /\ pc[p] # "new" => ray_port[p] \in Ports
    /\ pc[p] \in {"stop", "up"} => engine[p] = ray_port[p]
    /\ pc[p] = "new" => vnodes[p] = {}
    /\ pc[p] = "failed" => p \in broken
    /\ Active(p) /\ engine[p] # NoPort => p \in hexgen \cup broken \/ ray_port[p] # engine[p]

PortInv == RayTypes /\ Alternation

\* A node is used by one pipeline at a time, and a node a switch takes out is
\* not one it goes on with.
Ownership ==
  /\ \A p, q \in Pipelines : p # q => Uses(p) \cap Uses(q) = {}
  /\ \A p \in Pipelines : Active(p) \/ pc[p] = "stop" => removed[p] \cap vnodes[p] = {}

\* Pipelines that use the connection at the same time agree on the port, so
\* that each reads the cluster it joins its nodes to.
Joining ==
  /\ \A p, q \in Pipelines : Busy(p) /\ Busy(q) => ray_port[p] = ray_port[q]
  /\ \A p \in Pipelines :
       /\ pc[p] \in {"list", "join", "poll", "gpus"} => connection \in {NoPort, ray_port[p]}
       /\ pc[p] = "join" => vnodes[p] \ nodes_to_connect[p] \subseteq cluster[ray_port[p]]
       /\ pc[p] \in {"poll", "gpus", "engine", "stop", "up"} => vnodes[p] \subseteq cluster[ray_port[p]]

JoinInv == shared \/ (Ownership /\ (mixed \/ Joining))

-----------------------------------------------------------------------------
(* Types and ports.                                                        *)

\* The other port is a port, and differs unless the mode is "hexgen".
LEMMA AlternatePort ==
  ASSUME NEW p \in Pipelines
  PROVE  /\ get_alternate_ray_port(p) \in Ports
         /\ p \notin hexgen /\ ray_port[p] \in Ports => get_alternate_ray_port(p) # ray_port[p]
  BY DEF get_alternate_ray_port, Ports

\* None is not a port.
LEMMA NoPortIsNone == NoPort \notin Ports
  BY RayAssumption DEF Ports

\* Nothing has been started at first.
LEMMA InitPort == Init => PortInv
<1> SUFFICES ASSUME Init PROVE PortInv
  OBVIOUS
<1>1. RayTypes
  BY DEF Init, RayTypes, NodeSets, Stages
<1>2. Alternation
  BY DEF Init, Alternation, Active, Busy
<1> QED BY <1>1, <1>2 DEF PortInv

\* A creation or a switch begins, with a set of nodes in and a set out.
LEMMA BeginPort ==
  ASSUME PortInv, NEW p \in Pipelines, NEW new \in SUBSET Nodes, NEW out \in SUBSET Nodes,
         pc[p] = "new" \/ pc[p] \in {"up", "failed"}, Begin(p, new, out)
  PROVE  PortInv'
<1> DEFINE r == get_alternate_ray_port(p)
<1>1. r \in Ports /\ (p \notin hexgen /\ ray_port[p] \in Ports => r # ray_port[p])
  BY AlternatePort
<1>2. /\ pc' = [pc EXCEPT ![p] = "init"] /\ ray_port' = [ray_port EXCEPT ![p] = r]
      /\ vnodes' = [vnodes EXCEPT ![p] = (vnodes[p] \ out) \cup new]
      /\ removed' = [removed EXCEPT ![p] = out]
      /\ UNCHANGED <<hexgen, connection, cluster, nodes_to_connect, engine, held, broken>>
  BY DEF Begin
<1> HIDE DEF r
<1>3. RayTypes'
  BY <1>1, <1>2 DEF PortInv, RayTypes, NodeSets, Stages
<1>4. Alternation'
  BY <1>1, <1>2 DEF PortInv, RayTypes, Alternation, Active, Busy
<1> QED BY <1>3, <1>4 DEF PortInv

\* An exception marks its pipeline.
LEMMA RaisePort ==
  ASSUME PortInv, NEW p \in Pipelines, Raise(p), Active(p),
         connection' \in Ports \cup {NoPort}, cluster' \in [Ports -> SUBSET Nodes]
  PROVE  PortInv'
<1>1. /\ pc' = [pc EXCEPT ![p] = "failed"] /\ broken' = broken \cup {p}
      /\ UNCHANGED <<hexgen, ray_port, vnodes, removed, engine, held, nodes_to_connect>>
  BY DEF Raise, pipelineVars
<1>2. RayTypes'
  BY <1>1 DEF PortInv, RayTypes, NodeSets, Stages
<1>3. Alternation'
  BY <1>1 DEF PortInv, RayTypes, Alternation, Active, Busy
<1> QED BY <1>2, <1>3 DEF PortInv

\* A step that only takes the pipeline to its next stage.
LEMMA StagePort ==
  ASSUME PortInv, NEW p \in Pipelines, Active(p), UNCHANGED <<pipelineVars, broken>>,
         NEW s \in Stages \ {"new", "stop", "up", "failed"}, pc' = [pc EXCEPT ![p] = s],
         connection' \in Ports \cup {NoPort}, cluster' \in [Ports -> SUBSET Nodes],
         nodes_to_connect' \in NodeSets
  PROVE  PortInv'
<1>1. UNCHANGED <<hexgen, ray_port, vnodes, removed, engine, held, broken>>
  BY DEF pipelineVars
<1>2. RayTypes'
  BY <1>1 DEF PortInv, RayTypes, NodeSets, Stages
<1>3. Alternation'
  BY <1>1 DEF PortInv, RayTypes, Alternation, Active, Busy, Stages
<1> QED BY <1>2, <1>3 DEF PortInv

\* The new engine is ready.
LEMMA EnginePort ==
  ASSUME PortInv, NEW p \in Pipelines, EngineReady(p)
  PROVE  PortInv'
<1>1. /\ pc[p] = "engine" /\ engine' = [engine EXCEPT ![p] = ray_port[p]]
      /\ held' = [held EXCEPT ![p] = vnodes[p]]
      /\ UNCHANGED <<hexgen, connection, cluster, ray_port, vnodes, removed, nodes_to_connect, broken>>
  BY DEF EngineReady
<1>2. PICK s \in {"stop", "up"} : pc' = [pc EXCEPT ![p] = s]
  BY DEF EngineReady
<1>3. RayTypes'
  BY <1>1, <1>2 DEF PortInv, RayTypes, NodeSets, Stages
<1>4. Alternation'
  BY <1>1, <1>2 DEF PortInv, RayTypes, Alternation, Active, Busy
<1> QED BY <1>3, <1>4 DEF PortInv

\* Ray is stopped on the node a switch took out.
LEMMA StopPort ==
  ASSUME PortInv, NEW p \in Pipelines, StopRay(p)
  PROVE  PortInv'
<1>1. /\ pc[p] = "stop" /\ pc' = [pc EXCEPT ![p] = "up"]
      /\ cluster' \in {cluster, [h \in Ports |-> cluster[h] \ removed[p]]}
      /\ UNCHANGED <<hexgen, connection, ray_port, vnodes, removed, engine, held,
                     nodes_to_connect, broken>>
  BY DEF StopRay, pipelineVars
<1>2. cluster' \in [Ports -> SUBSET Nodes]
  BY <1>1 DEF PortInv, RayTypes
<1>3. RayTypes'
  BY <1>1, <1>2 DEF PortInv, RayTypes, NodeSets, Stages
<1>4. Alternation'
  BY <1>1 DEF PortInv, RayTypes, Alternation, Active, Busy
<1> QED BY <1>3, <1>4 DEF PortInv

\* PortInv is inductive.
LEMMA StepPort == PortInv /\ [Next]_vars => PortInv'
<1> SUFFICES ASSUME PortInv, [Next]_vars PROVE PortInv'
  OBVIOUS
<1>0. /\ connection \in Ports \cup {NoPort} /\ cluster \in [Ports -> SUBSET Nodes]
      /\ nodes_to_connect \in NodeSets /\ vnodes \in NodeSets
      /\ \A p \in Pipelines : Active(p) => ray_port[p] \in Ports
  BY DEF PortInv, RayTypes, Alternation, Active, Busy
<1>1. ASSUME NEW p \in Pipelines, initialize_pipeline(p) PROVE PortInv'
  BY <1>1, BeginPort, RayAssumption DEF initialize_pipeline
<1>2. ASSUME NEW p \in Pipelines, NEW old \in Nodes, NEW new \in Nodes, switch_nodes(p, old, new)
      PROVE  PortInv'
  BY <1>2, BeginPort DEF switch_nodes
<1>3. ASSUME NEW p \in Pipelines, InitFails(p) \/ NoConnection(p) \/ PollTimeout(p) \/ StoresFail(p)
      PROVE  PortInv'
  BY <1>0, <1>3, RaisePort DEF InitFails, NoConnection, PollTimeout, StoresFail, Active, Busy
<1>4. ASSUME NEW p \in Pipelines, ConnectFails(p) PROVE PortInv'
  <2>1. Active(p) /\ Raise(p) /\ UNCHANGED connection
    BY <1>4 DEF ConnectFails, Active, Busy
  <2>2. cluster' \in [Ports -> SUBSET Nodes]
    BY <1>0, <1>4, <2>1 DEF ConnectFails, NodeSets
  <2> QED BY <1>0, <2>1, <2>2, RaisePort
<1>5. ASSUME NEW p \in Pipelines, init_ray(p) PROVE PortInv'
  <2>1. /\ Active(p) /\ pc' = [pc EXCEPT ![p] = "list"] /\ connection' = ray_port[p]
        /\ UNCHANGED <<pipelineVars, broken, cluster, nodes_to_connect>>
    BY <1>5 DEF init_ray, Active, Busy
  <2> QED BY <1>0, <2>1, StagePort DEF Stages
<1>6. ASSUME NEW p \in Pipelines, ListNodes(p) PROVE PortInv'
  <2>1. /\ Active(p)
        /\ pc' = [pc EXCEPT ![p] = "gpus"] \/ pc' = [pc EXCEPT ![p] = "join"]
        /\ nodes_to_connect' = [nodes_to_connect EXCEPT ![p] = vnodes[p] \ ConnectedIps]
        /\ UNCHANGED <<pipelineVars, broken, cluster, connection>>
    BY <1>6 DEF ListNodes, Active, Busy
  <2>2. nodes_to_connect' \in NodeSets
    BY <1>0, <2>1 DEF NodeSets
  <2> QED BY <1>0, <2>1, <2>2, StagePort DEF Stages
<1>7. ASSUME NEW p \in Pipelines, ConnectNodes(p) PROVE PortInv'
  <2>1. /\ Active(p) /\ pc' = [pc EXCEPT ![p] = "poll"]
        /\ cluster' = [cluster EXCEPT ![ray_port[p]] = @ \cup nodes_to_connect[p]]
        /\ UNCHANGED <<pipelineVars, broken, connection, nodes_to_connect>>
    BY <1>7 DEF ConnectNodes, Active, Busy
  <2>2. cluster' \in [Ports -> SUBSET Nodes]
    BY <1>0, <2>1 DEF NodeSets
  <2> QED BY <1>0, <2>1, <2>2, StagePort DEF Stages
<1>8. ASSUME NEW p \in Pipelines, AllConnected(p) \/ \E n \in Nodes : GpusSeen(p, n)
      PROVE  PortInv'
  <2>1. /\ Active(p)
        /\ pc' = [pc EXCEPT ![p] = "gpus"] \/ pc' = [pc EXCEPT ![p] = "engine"]
        /\ UNCHANGED <<pipelineVars, broken, connection, cluster, nodes_to_connect>>
    BY <1>8 DEF AllConnected, GpusSeen, Active, Busy
  <2> QED BY <1>0, <2>1, StagePort DEF Stages
<1>9. CASE UNCHANGED vars
  BY <1>9 DEF PortInv, RayTypes, Alternation, Active, Busy, vars, pipelineVars
<1> QED BY <1>1, <1>2, <1>3, <1>4, <1>5, <1>6, <1>7, <1>8, <1>9, EnginePort, StopPort
        DEF Next, Step, Waiting

\* It holds in every state.
LEMMA PortsHold == Spec => []PortInv
  BY InitPort, StepPort, PTL DEF Spec

\* FreshCluster: a switch never builds its engine in the cluster whose GPUs the
\* running engine holds, in any interleaving of any number of switches, unless
\* the mode is "hexgen" or an earlier exception left ray_port flipped.
THEOREM SwitchesGoToFreshClusters == Spec => []FreshCluster
<1>1. PortInv => FreshCluster
  BY DEF PortInv, Alternation, FreshCluster
<1> QED BY <1>1, PortsHold, PTL

-----------------------------------------------------------------------------
(* Nodes and clusters.                                                     *)

\* Nobody uses a node at first.
LEMMA InitJoin == Init => JoinInv
<1> SUFFICES ASSUME Init, ~ shared PROVE JoinInv
  BY Zenon DEF JoinInv
<1>1. \A p, q \in Pipelines : p # q => InitialNodes[p] \cap InitialNodes[q] = {}
  BY Zenon DEF Init
<1>2. \A p \in Pipelines : pc[p] = "new"
  BY DEF Init
<1>3. Ownership
  BY <1>1, <1>2 DEF Ownership, Uses, Active, Busy
<1>4. Joining
  BY <1>2 DEF Joining, Busy
<1> QED BY <1>3, <1>4 DEF JoinInv

\* A pipeline that takes nodes no other uses keeps the ownership.
LEMMA BeginOwnership ==
  ASSUME PortInv, Ownership, NEW p \in Pipelines, pc[p] \in {"new", "up", "failed"},
         NEW new \in SUBSET Nodes, NEW out \in SUBSET vnodes[p], new \cap out = {},
         \A q \in Pipelines : q # p => new \cap Uses(q) = {},
         Begin(p, new, out)
  PROVE  Ownership'
<1>1. /\ pc' = [pc EXCEPT ![p] = "init"]
      /\ vnodes' = [vnodes EXCEPT ![p] = (vnodes[p] \ out) \cup new]
      /\ removed' = [removed EXCEPT ![p] = out]
  BY DEF Begin
<1>2. /\ pc \in [Pipelines -> Stages] /\ vnodes \in NodeSets /\ removed \in NodeSets
      /\ pc[p] = "new" => vnodes[p] = {}
  BY DEF PortInv, RayTypes, Alternation
<1>3. \A q \in Pipelines : q # p =>
         /\ pc'[q] = pc[q] /\ vnodes'[q] = vnodes[q] /\ removed'[q] = removed[q]
         /\ Uses(q)' = Uses(q) /\ (Active(q)' <=> Active(q))
  BY <1>1, <1>2 DEF NodeSets, Uses, Active, Busy
<1>4. Uses(p)' = vnodes[p] \cup new
  BY <1>1, <1>2 DEF NodeSets, Uses, Active, Busy
<1>5. vnodes[p] \subseteq Uses(p)
  BY <1>2 DEF Uses, Active, Busy
<1>6. ASSUME NEW q \in Pipelines, NEW r \in Pipelines, q # r
      PROVE  (Uses(q) \cap Uses(r) = {})'
  <2>0. Uses(q) \cap Uses(r) = {}
    BY <1>6 DEF Ownership
  <2>1. CASE q = p
    <3>1. Uses(r)' = Uses(r) /\ new \cap Uses(r) = {}
      BY <1>3, <1>6, <2>1
    <3> QED BY <1>4, <1>5, <2>0, <2>1, <3>1
  <2>2. CASE r = p
    <3>1. Uses(q)' = Uses(q) /\ new \cap Uses(q) = {}
      BY <1>3, <1>6, <2>2
    <3> QED BY <1>4, <1>5, <2>0, <2>2, <3>1
  <2>3. CASE q # p /\ r # p
    BY <1>3, <2>0, <2>3
  <2> QED BY <2>1, <2>2, <2>3
<1>7. ASSUME NEW q \in Pipelines, Active(q)' \/ pc'[q] = "stop"
      PROVE  removed'[q] \cap vnodes'[q] = {}
  <2>1. CASE q = p
    BY <1>1, <1>2, <2>1 DEF NodeSets
  <2>2. CASE q # p
    BY <1>3, <1>7, <2>2 DEF Ownership
  <2> QED BY <2>1, <2>2
<1> QED BY <1>6, <1>7 DEF Ownership

\* It joins the others on their port, or the ports are mixed.
LEMMA BeginJoining ==
  ASSUME PortInv, mixed \/ Joining, NEW p \in Pipelines,
         NEW new, NEW out, Begin(p, new, out)
  PROVE  mixed' \/ Joining'
<1>1. /\ mixed' = (mixed \/ \E q \in Pipelines : Busy(q) /\ ray_port[q] # ray_port'[p])
  BY DEF Begin
<1>2. CASE mixed \/ \E q \in Pipelines : Busy(q) /\ ray_port[q] # ray_port'[p]
  BY <1>1, <1>2, Zenon
<1>3. CASE ~ (mixed \/ \E q \in Pipelines : Busy(q) /\ ray_port[q] # ray_port'[p])
  <2>1. Joining /\ \A q \in Pipelines : Busy(q) => ray_port[q] = ray_port'[p]
    BY <1>3, Zenon
  <2>2. /\ pc' = [pc EXCEPT ![p] = "init"]
        /\ ray_port' = [ray_port EXCEPT ![p] = get_alternate_ray_port(p)]
        /\ vnodes' = [vnodes EXCEPT ![p] = (vnodes[p] \ out) \cup new]
        /\ UNCHANGED <<connection, cluster, nodes_to_connect>>
    BY DEF Begin
  <2>3. /\ pc \in [Pipelines -> Stages] /\ vnodes \in NodeSets
        /\ ray_port \in [Pipelines -> Ports \cup {NoPort}]
    BY DEF PortInv, RayTypes
  <2>4. pc'[p] = "init" /\ \A q \in Pipelines : q # p =>
          pc'[q] = pc[q] /\ vnodes'[q] = vnodes[q] /\ ray_port'[q] = ray_port[q]
    BY <2>2, <2>3 DEF NodeSets
  <2>5. Joining'
    BY <2>1, <2>2, <2>4 DEF Joining, Busy
  <2> QED BY <2>5
<1> QED BY <1>2, <1>3, Zenon

\* A step of a running creation or switch takes no node, so that it keeps the
\* ownership.
LEMMA StageOwnership ==
  ASSUME PortInv, Ownership, NEW p \in Pipelines, Active(p) \/ pc[p] = "stop",
         UNCHANGED <<vnodes, removed>>,
         NEW s \in Stages \ {"new"}, pc' = [pc EXCEPT ![p] = s]
  PROVE  Ownership'
<1>1. pc \in [Pipelines -> Stages]
  BY DEF PortInv, RayTypes
<1>2. \A q \in Pipelines : /\ Uses(q)' \subseteq Uses(q)
                           /\ Active(q)' \/ pc'[q] = "stop" => Active(q) \/ pc[q] = "stop"
  BY <1>1 DEF Uses, Active, Busy, Stages
<1> QED BY <1>2 DEF Ownership

\* A pipeline that fails or is done leaves the others where they were.
LEMMA EndJoining ==
  ASSUME PortInv, Joining, NEW p \in Pipelines, Active(p), Raise(p),
         connection' \in {connection, NoPort},
         \A h \in Ports : cluster[h] \subseteq cluster'[h]
  PROVE  Joining'
<1>1. pc' = [pc EXCEPT ![p] = "failed"] /\ UNCHANGED <<ray_port, vnodes, nodes_to_connect>>
  BY DEF Raise, pipelineVars
<1>2. pc \in [Pipelines -> Stages] /\ \A q \in Pipelines : pc[q] # "new" => ray_port[q] \in Ports
  BY DEF PortInv, RayTypes, Alternation
<1> QED BY <1>1, <1>2 DEF Joining, Busy

\* Every step of a pipeline keeps the agreement, if there was one.
LEMMA StepJoining ==
  ASSUME PortInv, Ownership, Joining, NEW p \in Pipelines,
         InitFails(p) \/ ConnectFails(p) \/ StoresFail(p) \/ Step(p)
  PROVE  Joining'
<1>0. /\ pc \in [Pipelines -> Stages] /\ vnodes \in NodeSets /\ nodes_to_connect \in NodeSets
      /\ cluster \in [Ports -> SUBSET Nodes]
      /\ \A q \in Pipelines : pc[q] # "new" => ray_port[q] \in Ports
  BY DEF PortInv, RayTypes, Alternation
<1>1. CASE InitFails(p) \/ NoConnection(p) \/ PollTimeout(p) \/ StoresFail(p)
  BY <1>1, EndJoining DEF InitFails, NoConnection, PollTimeout, StoresFail, Active, Busy
<1>2. CASE ConnectFails(p)
  <2>1. Active(p) /\ Raise(p) /\ UNCHANGED connection /\ ray_port[p] \in Ports
    BY <1>0, <1>2 DEF ConnectFails, Active, Busy
  <2>2. \A h \in Ports : cluster[h] \subseteq cluster'[h]
    BY <1>0, <1>2, <2>1 DEF ConnectFails
  <2> QED BY <2>1, <2>2, EndJoining
<1>3. CASE init_ray(p)
  BY <1>0, <1>3 DEF init_ray, pipelineVars, Joining, Busy
<1>4. CASE ListNodes(p)
  <2>1. /\ pc[p] = "list" /\ connection # NoPort
        /\ nodes_to_connect' = [nodes_to_connect EXCEPT ![p] = vnodes[p] \ ConnectedIps]
        /\ pc' = [pc EXCEPT ![p] = IF vnodes[p] \subseteq ConnectedIps THEN "gpus" ELSE "join"]
        /\ UNCHANGED <<connection, cluster, ray_port, vnodes>>
    BY <1>4 DEF ListNodes, pipelineVars
  <2>2. ConnectedIps = cluster[ray_port[p]]
    BY <2>1 DEF Joining, ConnectedIps
  <2>3. nodes_to_connect'[p] = vnodes[p] \ cluster[ray_port[p]]
    BY <1>0, <2>1, <2>2 DEF NodeSets
  <2>4. \A q \in Pipelines : q # p => pc'[q] = pc[q] /\ nodes_to_connect'[q] = nodes_to_connect[q]
    BY <1>0, <2>1 DEF NodeSets
  <2>5. /\ pc'[p] \in {"gpus", "join"}
        /\ pc'[p] = "gpus" => vnodes[p] \subseteq cluster[ray_port[p]]
    BY <1>0, <2>1, <2>2
  <2> QED BY <2>1, <2>3, <2>4, <2>5 DEF Joining, Busy
<1>5. CASE ConnectNodes(p)
  <2>1. /\ pc[p] = "join" /\ pc' = [pc EXCEPT ![p] = "poll"] /\ ray_port[p] \in Ports
        /\ cluster' = [cluster EXCEPT ![ray_port[p]] = @ \cup nodes_to_connect[p]]
        /\ UNCHANGED <<connection, ray_port, vnodes, nodes_to_connect>>
    BY <1>0, <1>5 DEF ConnectNodes, pipelineVars
  <2>2. \A h \in Ports : cluster[h] \subseteq cluster'[h]
    BY <1>0, <2>1
  <2>3. vnodes[p] \subseteq cluster'[ray_port[p]]
    BY <1>0, <2>1 DEF Joining
  <2>4. pc'[p] = "poll" /\ \A q \in Pipelines : q # p => pc'[q] = pc[q]
    BY <1>0, <2>1
  <2> QED BY <1>0, <2>1, <2>2, <2>3, <2>4 DEF Joining, Busy
<1>6. CASE AllConnected(p) \/ \E n \in Nodes : GpusSeen(p, n)
  <2>1. /\ pc[p] \in {"poll", "gpus"}
        /\ pc' = [pc EXCEPT ![p] = "gpus"] \/ pc' = [pc EXCEPT ![p] = "engine"]
        /\ UNCHANGED <<connection, cluster, ray_port, vnodes, nodes_to_connect>>
    BY <1>6 DEF AllConnected, GpusSeen, pipelineVars
  <2> QED BY <1>0, <2>1 DEF Joining, Busy
<1>7. CASE EngineReady(p)
  <2>1. PICK s \in {"stop", "up"} : pc' = [pc EXCEPT ![p] = s]
    BY <1>7 DEF EngineReady
  <2>2. pc[p] = "engine" /\ UNCHANGED <<connection, cluster, ray_port, vnodes, nodes_to_connect>>
    BY <1>7 DEF EngineReady
  <2> QED BY <1>0, <2>1, <2>2 DEF Joining, Busy
<1>8. CASE StopRay(p)
  <2>1. /\ pc[p] = "stop" /\ pc' = [pc EXCEPT ![p] = "up"]
        /\ cluster' \in {cluster, [h \in Ports |-> cluster[h] \ removed[p]]}
        /\ UNCHANGED <<connection, ray_port, vnodes, nodes_to_connect>>
    BY <1>8 DEF StopRay, pipelineVars
  <2>2. removed[p] \cap vnodes[p] = {} /\ Uses(p) = vnodes[p] \cup removed[p]
    BY <2>1 DEF Ownership, Uses
  <2>3. \A q \in Pipelines : pc[q] # "new" => removed[p] \cap vnodes[q] = {}
    <3> SUFFICES ASSUME NEW q \in Pipelines, q # p, pc[q] # "new"
                 PROVE  removed[p] \cap vnodes[q] = {}
      BY <2>2
    <3>1. vnodes[q] \subseteq Uses(q)
      BY DEF Uses
    <3> QED BY <2>2, <3>1 DEF Ownership
  <2>4. pc'[p] = "up" /\ \A q \in Pipelines : q # p => pc'[q] = pc[q]
    BY <1>0, <2>1
  <2>5. \A q \in Pipelines : pc[q] # "new" =>
          \A S \in SUBSET vnodes[q] :
             S \subseteq cluster[ray_port[q]] => S \subseteq cluster'[ray_port[q]]
    BY <1>0, <2>1, <2>3
  <2>6. ASSUME NEW q \in Pipelines
        PROVE  /\ pc'[q] \in {"list", "join", "poll", "gpus"} => connection \in {NoPort, ray_port[q]}
               /\ pc'[q] = "join" => vnodes[q] \ nodes_to_connect[q] \subseteq cluster'[ray_port[q]]
               /\ pc'[q] \in {"poll", "gpus", "engine", "stop", "up"}
                    => vnodes[q] \subseteq cluster'[ray_port[q]]
    <3>1. vnodes[q] \ nodes_to_connect[q] \in SUBSET vnodes[q] /\ vnodes[q] \in SUBSET vnodes[q]
      OBVIOUS
    <3> QED BY <2>1, <2>4, <2>5, <3>1 DEF Joining
  <2>7. \A q, r \in Pipelines : Busy(q)' /\ Busy(r)' => ray_port[q] = ray_port[r]
    BY <2>4 DEF Joining, Busy
  <2> QED BY <2>1, <2>6, <2>7 DEF Joining
<1> QED BY <1>1, <1>2, <1>3, <1>4, <1>5, <1>6, <1>7, <1>8 DEF Step

\* JoinInv is inductive.
LEMMA StepJoin == PortInv /\ JoinInv /\ [Next]_vars => JoinInv'
<1> SUFFICES ASSUME PortInv, JoinInv, [Next]_vars, ~ shared' PROVE (Ownership /\ (mixed \/ Joining))'
  BY Zenon DEF JoinInv
<1>1. ASSUME NEW p \in Pipelines, initialize_pipeline(p) PROVE (Ownership /\ (mixed \/ Joining))'
  <2>0. Ownership /\ (mixed \/ Joining)
    BY <1>1, Zenon DEF initialize_pipeline, JoinInv
  <2>1. Begin(p, InitialNodes[p], {}) /\ pc[p] = "new"
    BY <1>1 DEF initialize_pipeline
  <2>2. \A q \in Pipelines : q # p => InitialNodes[p] \cap Uses(q) = {}
    <3>1. Uses(p) = InitialNodes[p]
      BY <2>1 DEF Uses, Active, Busy
    <3> QED BY <2>0, <3>1 DEF Ownership
  <2>3. InitialNodes[p] \in SUBSET Nodes /\ {} \in SUBSET vnodes[p]
    BY RayAssumption
  <2>4. Ownership'
    BY <2>0, <2>1, <2>2, <2>3, BeginOwnership
  <2> QED BY <2>0, <2>1, <2>4, BeginJoining
<1>2. ASSUME NEW p \in Pipelines, NEW old \in Nodes, NEW new \in Nodes, switch_nodes(p, old, new)
      PROVE  (Ownership /\ (mixed \/ Joining))'
  <2>0. ~ shared /\ \A q \in Pipelines \ {p} : new \notin Uses(q) \cup held[q]
    BY <1>2, Zenon DEF switch_nodes
  <2>1. Ownership /\ (mixed \/ Joining)
    BY <2>0, Zenon DEF JoinInv
  <2>2. /\ Begin(p, {new}, {old}) /\ pc[p] \in {"up", "failed"} /\ {old} \in SUBSET vnodes[p]
        /\ {new} \cap {old} = {} /\ {new} \in SUBSET Nodes
    BY <1>2 DEF switch_nodes
  <2>3. \A q \in Pipelines : q # p => {new} \cap Uses(q) = {}
    BY <2>0
  <2>4. Ownership'
    BY <2>1, <2>2, <2>3, BeginOwnership
  <2> QED BY <2>1, <2>2, <2>4, BeginJoining
<1>3. ASSUME NEW p \in Pipelines, InitFails(p) \/ ConnectFails(p) \/ StoresFail(p) \/ Step(p)
      PROVE  (Ownership /\ (mixed \/ Joining))'
  <2>1. UNCHANGED mixed /\ UNCHANGED shared
    BY <1>3, Zenon DEF InitFails, ConnectFails, StoresFail, Step, init_ray, NoConnection, ListNodes,
                ConnectNodes, AllConnected, PollTimeout, GpusSeen, EngineReady, StopRay, Raise
  <2>0. Ownership /\ (mixed \/ Joining)
    BY <2>1, Zenon DEF JoinInv
  <2>2. (Active(p) \/ pc[p] = "stop") /\ UNCHANGED <<vnodes, removed>>
    BY <1>3 DEF InitFails, ConnectFails, StoresFail, Step, init_ray, NoConnection, ListNodes,
                ConnectNodes, AllConnected, PollTimeout, GpusSeen, EngineReady, StopRay, Raise,
                pipelineVars, Active, Busy
  <2>3. \E s \in Stages \ {"new"} : pc' = [pc EXCEPT ![p] = s]
    BY <1>3 DEF InitFails, ConnectFails, StoresFail, Step, init_ray, NoConnection, ListNodes,
                ConnectNodes, AllConnected, PollTimeout, GpusSeen, EngineReady, StopRay, Raise, Stages
  <2>4. Ownership'
    BY <2>0, <2>2, <2>3, StageOwnership
  <2>5. Joining => Joining'
    BY <2>0, <1>3, StepJoining
  <2> QED BY <2>0, <2>1, <2>4, <2>5, Zenon
<1>4. CASE UNCHANGED vars
  <2>1. UNCHANGED <<connection, cluster, pc, ray_port, vnodes, removed, nodes_to_connect>>
    BY <1>4 DEF vars, pipelineVars
  <2>2. UNCHANGED mixed /\ UNCHANGED shared
    BY <1>4, Zenon DEF vars
  <2>0. Ownership /\ (mixed \/ Joining)
    BY <2>2, Zenon DEF JoinInv
  <2>3. Ownership' /\ (Joining => Joining')
    BY <2>0, <2>1 DEF Ownership, Joining, Uses, Active, Busy
  <2> QED BY <2>0, <2>2, <2>3, Zenon
<1> QED BY <1>1, <1>2, <1>3, <1>4, Zenon DEF Next, Waiting

\* JoinedUnlessMixed: start_ray_cluster leaves every node in the cluster of
\* the pipeline's port, and no other pipeline's switch takes it out again, for
\* any number of pipelines, unless two of them were at it with different ports
\* or a node was given to two of them.
THEOREM NodesAreJoined == Spec => []JoinedUnlessMixed
<1>1. JoinInv => JoinedUnlessMixed
  <2> SUFFICES ASSUME JoinInv, ~ mixed, ~ shared, NEW p \in Pipelines,
                      pc[p] \in {"engine", "stop", "up"}
               PROVE  vnodes[p] \subseteq cluster[ray_port[p]]
    BY Zenon DEF JoinedUnlessMixed
  <2>1. Joining
    BY Zenon DEF JoinInv
  <2> QED BY <2>1 DEF Joining
<1> QED BY <1>1, InitJoin, StepJoin, PortsHold, PTL DEF Spec
=============================================================================
