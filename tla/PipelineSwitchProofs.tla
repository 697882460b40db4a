------------------------ MODULE PipelineSwitchProofs ------------------------
(***************************************************************************)
(* Switching nodes, for pipelines of any length and any number of nodes,   *)
(* switches and failures.  Types and the ports hold of every pipeline; the *)
(* rest is about pipelines whose VNodes are on different nodes, where a    *)
(* node IP names one VNode as switch_nodes takes it to.                    *)
(***************************************************************************)
EXTENDS PipelineSwitch, TLAPS, WellFoundedInduction

Stages == {"idle", "ray", "stores", "api", "wait", "off", "swap", "clean"}
Positions == 1..Len(InitialNodes)

\* A switch that runs and has not chosen its port yet leaves room for one.
PortRoom == pc \in {"ray", "stores", "api"} => api[2] < BasePort + switches

\* The pipeline's VNodes are on different nodes.
OnDifferentNodes == \A i, j \in Positions : InitialNodes[i] = InitialNodes[j] => i = j

\* A node has one VNode among those in the list and those with stores; the
\* VNodes a switch takes out are on none of the nodes it goes on with.
Apart ==
  /\ \A v, w \in Range(vnodes) \cup stores : v[1] = w[1] => v = w
  /\ \A i, j \in Positions : vnodes[i] = vnodes[j] => i = j
  /\ pc # "idle" =>
       /\ NodesOf(OldVNodes) \cap NodesOf(Range(vnodes)) = {}
       /\ \A i, j \in DOMAIN targets : targets[i][1] = targets[j][1] => i = j

\* The pipeline is off while a switch goes from the old server to the new.
ReadyWhen == is_ready <=> pc \notin {"off", "swap"}

\* The server a switch starts is one of the VNodes now in the list.
NewServer ==
  /\ pc = "clean" => api = new_api
  /\ pc \in {"wait", "off", "swap", "clean"} /\ new_api \in DOMAIN servers
       => servers[new_api] = Range(vnodes)

\* No cleanup thread runs on a node the pipeline uses.
Cleared == NodesOf(Range(vnodes)) \cap cleaners = {}

\* The server in use has its stores, where no cleanup thread runs.
Backed ==
  /\ pc \notin {"off", "swap"} /\ api \in DOMAIN servers
       => servers[api] \subseteq stores /\ NodesOf(servers[api]) \cap cleaners = {}
  /\ pc \in {"off", "swap"} /\ new_api \in DOMAIN servers => Range(vnodes) \subseteq stores

Core == NewServer /\ Cleared /\ Backed
BackedInv == ReadyWhen /\ Apart /\ (hurried \/ taken \/ Core)

\* The first switch, or one that no failure has preceded, finds the old head
\* under the pipeline's address.
Unspoilt == failures = 0 \/ switches <= 1
HeadKept ==
  /\ failures > 0 => switches > 0
  /\ pc # "idle" => switches > 0
  /\ pc = "clean" => api = new_api
  /\ failures = 0 => Range(vnodes) \ (IF pc \in {"ray", "stores"} THEN NewVNodes ELSE {}) \subseteq has_port
  /\ failures = 0 /\ pc \in {"ray", "stores"} => OldVNodes \subseteq has_port
  /\ failures = 0 /\ pc = "idle" => vnodes[1][1] = api[1]
  /\ Unspoilt =>
       /\ pc \in {"ray", "stores", "api", "wait", "off"} => old_first[1] = api[1]
       /\ pc \in {"wait", "off"} => new_api # api
       /\ pc \in {"off", "swap"} => new_api \in DOMAIN servers
       /\ pc \notin {"off", "swap"} => api \in DOMAIN servers
       /\ failures = 0 /\ pc \in {"swap", "wait", "off", "clean"} => new_api[1] = vnodes[1][1]

\* What the servers and the stores are at each point of such a switch.
Kept == Range(vnodes) \ NewVNodes
ServersExact ==
  /\ pc = "idle" => servers = Serving(api, vnodes)
  /\ pc \in {"ray", "stores", "api"} => servers = [a \in {api} |-> Kept \cup OldVNodes]
  /\ pc \in {"wait", "off"} => /\ DOMAIN servers = {api, new_api}
                               /\ servers[new_api] = Range(vnodes)
  /\ pc \in {"swap", "clean"} => servers = Serving(new_api, vnodes)
StoresExact ==
  /\ pc = "idle" => stores = Range(vnodes)
  /\ pc \in {"ray", "stores"} => stores = Kept \cup OldVNodes
  /\ pc \in {"api", "wait", "off", "swap", "clean"} => stores = Range(vnodes) \cup OldVNodes
  /\ (IF pc \in {"ray", "stores", "api", "wait"} THEN Kept ELSE Range(vnodes)) \subseteq store_ready
  /\ pc # "idle" => OldVNodes \subseteq store_ready
  /\ NodesOf(Range(vnodes) \cup stores) \cap cleaners = {}
Exact == ServersExact /\ StoresExact

ExactInv == failures = 0 => hurried \/ Exact

-----------------------------------------------------------------------------
(* Operators.                                                              *)

\* A nonempty set of positions has a first one.
LEMMA LeastPosition ==
  ASSUME NEW S \in SUBSET Nat, S # {}
  PROVE  \E i \in S : \A j \in S : i <= j
<1> DEFINE R == {ss \in Nat \X Nat : ss[1] < ss[2]}
<1>1. IsWellFoundedOn(R, Nat)
  BY NatLessThanWellFounded, Zenon DEF OpToRel
<1>2. \A x, y \in Nat : y < x => <<y, x>> \in R
  OBVIOUS
<1> HIDE DEF R
<1>3. PICK x \in S : \A y \in S : ~ (<<y, x>> \in R)
  BY <1>1, WFMin
<1>4. \A y \in S : ~ (y < x)
  BY <1>2, <1>3, Zenon
<1> QED BY <1>4

\* The position of a node of the pipeline is that of a VNode on it.
LEMMA PositionOf ==
  ASSUME vnodes \in [Positions -> VNodeObjects], NEW n \in NodesOf(Range(vnodes))
  PROVE  Position(n) \in Positions /\ vnodes[Position(n)][1] = n
<1> DEFINE S == {i \in Positions : vnodes[i][1] = n}
<1>1. S \in SUBSET Nat /\ S # {}
  BY DEF NodesOf, Range, Positions
<1>2. \E i \in S : \A j \in S : i <= j
  <2> HIDE DEF S
  <2> QED BY <1>1, LeastPosition
<1>3. \E i \in DOMAIN vnodes :
         vnodes[i][1] = n /\ \A j \in DOMAIN vnodes : vnodes[j][1] = n => i <= j
  BY <1>2
<1>4. /\ Position(n) \in DOMAIN vnodes
      /\ vnodes[Position(n)][1] = n
  BY <1>3, Zenon DEF Position
<1> QED BY <1>4

\* The nodes of a pipeline are those of its positions.
LEMMA NodesInList ==
  ASSUME vnodes \in [Positions -> VNodeObjects]
  PROVE  /\ Range(vnodes) = {vnodes[i] : i \in Positions}
         /\ \A n : n \in NodesOf(Range(vnodes)) <=> \E i \in Positions : vnodes[i][1] = n
  BY DEF NodesOf, Range

\* What Begin does, position by position: the nodes that come in are not
\* the pipeline's, and have no stores.
At(replace) == {Position(n) : n \in DOMAIN replace}
NewNode(replace, i) == replace[vnodes[i][1]]

\* The positions a switch replaces, their new nodes and its targets.
LEMMA BeginMoves ==
  ASSUME vnodes \in [Positions -> VNodeObjects], NEW single,
         NEW olds \in SUBSET NodesOf(Range(vnodes)), NEW replace \in [olds -> Nodes],
         Begin(single, replace)
  PROVE  /\ At(replace) \subseteq Positions
         /\ targets' = [i \in At(replace) |-> vnodes[i]]
         /\ vnodes' = [i \in Positions |-> IF i \in At(replace)
                                           THEN <<NewNode(replace, i), Serial(i)>>
                                           ELSE vnodes[i]]
         /\ \A i \in At(replace) :
              /\ NewNode(replace, i) \in Nodes
              /\ NewNode(replace, i) \notin NodesOf(Range(vnodes) \cup stores)
              /\ NewNode(replace, i) \in {replace[n] : n \in olds}
         /\ \A i, j \in At(replace) :
              vnodes[i][1] = vnodes[j][1] \/ NewNode(replace, i) = NewNode(replace, j) => i = j
<1>0. DOMAIN replace = olds
  OBVIOUS
<1>1. \A n \in olds : Position(n) \in Positions /\ vnodes[Position(n)][1] = n
  BY PositionOf
<1>2. ASSUME NEW i \in At(replace)
      PROVE  i \in Positions /\ vnodes[i][1] \in olds /\ i = Position(vnodes[i][1])
  BY <1>0, <1>1 DEF At
<1>3. /\ targets' = [i \in At(replace) |-> vnodes[i]]
      /\ vnodes' = [i \in DOMAIN vnodes |-> IF i \in At(replace)
                                            THEN <<NewNode(replace, i), Serial(i)>>
                                            ELSE vnodes[i]]
      /\ \A m, n \in olds : replace[m] = replace[n] => m = n
      /\ \A n \in olds : replace[n] \notin NodesOf(Range(vnodes) \cup stores)
  BY <1>0, Zenon DEF Begin, At, NewNode
<1>4. DOMAIN vnodes = Positions
  OBVIOUS
<1>5. \A i \in At(replace) :
         /\ NewNode(replace, i) \in Nodes
         /\ NewNode(replace, i) \notin NodesOf(Range(vnodes) \cup stores)
         /\ NewNode(replace, i) \in {replace[n] : n \in olds}
  BY <1>2, <1>3 DEF NewNode
<1>6. ASSUME NEW i \in At(replace), NEW j \in At(replace),
             vnodes[i][1] = vnodes[j][1] \/ NewNode(replace, i) = NewNode(replace, j)
      PROVE  i = j
  <2>1. vnodes[i][1] = vnodes[j][1]
    BY <1>2, <1>3, <1>6, Zenon DEF NewNode
  <2> QED BY <1>2, <2>1, Zenon
<1> QED BY <1>2, <1>3, <1>4, <1>5, <1>6, Zenon

-----------------------------------------------------------------------------
(* Types and ports.                                                        *)

Flags == is_ready \in BOOLEAN /\ one_node \in BOOLEAN /\ hurried \in BOOLEAN /\ taken \in BOOLEAN

Addresses(k) == Nodes \X (BasePort..(BasePort + k))

Objects ==
  /\ vnodes \in [Positions -> VNodeObjects]
  /\ stores \subseteq VNodeObjects /\ has_port \subseteq VNodeObjects
  /\ store_ready \subseteq VNodeObjects
  /\ cleaners \subseteq Nodes
  /\ pc \in Stages
  /\ DOMAIN targets \subseteq Positions
  /\ OldVNodes \subseteq VNodeObjects /\ old_first \in VNodeObjects
  /\ switches \in 0..MaxSwitches /\ failures \in 0..MaxFailures

Servers ==
  /\ api \in Addresses(switches) /\ new_api \in Addresses(switches)
  /\ DOMAIN servers \subseteq Addresses(switches)
  /\ \A a \in DOMAIN servers : servers[a] \subseteq VNodeObjects
  /\ PortRoom

\* The type invariant in three parts, for three kinds of reasoning.
LEMMA TypeParts ==
  /\ Flags /\ Objects /\ Servers => TypeOK
  /\ TypeOK /\ PortRoom => Objects /\ Servers
  /\ TypeOK => Flags
<1>1. Flags /\ Objects /\ Servers => TypeOK
  <2>1. Objects /\ Servers =>
          /\ vnodes \in [1..Len(InitialNodes) -> VNodeObjects]
          /\ {api, new_api} \cup DOMAIN servers \subseteq Nodes \X (BasePort..(BasePort + switches))
          /\ \A a \in DOMAIN servers : servers[a] \subseteq VNodeObjects
          /\ stores \subseteq VNodeObjects /\ has_port \subseteq VNodeObjects
          /\ store_ready \subseteq VNodeObjects
          /\ cleaners \subseteq Nodes
          /\ pc \in {"idle", "ray", "stores", "api", "wait", "off", "swap", "clean"}
          /\ DOMAIN targets \subseteq 1..Len(InitialNodes)
          /\ OldVNodes \subseteq VNodeObjects /\ old_first \in VNodeObjects
          /\ switches \in 0..MaxSwitches /\ failures \in 0..MaxFailures
    BY DEF Objects, Servers, Addresses, Positions, Stages
  <2> QED BY <2>1, Zenon DEF Flags, TypeOK
<1>2. TypeOK /\ PortRoom => Objects /\ Servers
  BY DEF TypeOK, Objects, Servers, Addresses, Positions, Stages
<1>3. TypeOK => Flags
  BY Zenon DEF TypeOK, Flags
<1> QED BY <1>1, <1>2, <1>3

\* The flags are Boolean.
LEMMA StepFlags == Flags /\ [Next]_vars => Flags'
<1> SUFFICES ASSUME Flags, [Next]_vars PROVE Flags'
  OBVIOUS
<1>1. ASSUME NEW single \in BOOLEAN, SomeReplacement(single) PROVE Flags'
  <2>1. PICK replace : Begin(single, replace)
    BY <1>1, Zenon DEF SomeReplacement
  <2> QED BY <2>1, Zenon DEF Begin, Flags
<1>2. CASE StartRay \/ StartStores \/ RaisePortless
  BY <1>2, Zenon DEF StartRay, StartStores, RaisePortless, switchVars, Flags
<1>3. CASE StartServer
  BY <1>3, Zenon DEF StartServer, Flags
<1>4. CASE TurnOff \/ StopOld \/ TurnOn
  BY <1>4, Zenon DEF TurnOff, StopOld, TurnOn, switchVars, Flags
<1>5. ASSUME NEW i, Cleanup(i) PROVE Flags'
  BY <1>5, Zenon DEF Cleanup, Flags
<1>6. CASE Raise
  BY <1>6, Zenon DEF Raise, switchVars, Flags
<1>7. ASSUME NEW n, CleanupWorker(n) PROVE Flags'
  BY <1>7, Zenon DEF CleanupWorker, switchVars, Flags
<1>8. CASE UNCHANGED vars
  BY <1>8, Zenon DEF vars, switchVars, Flags
<1> QED BY <1>1, <1>2, <1>3, <1>4, <1>5, <1>6, <1>7, <1>8, Zenon DEF Next, SwitchStep, Waiting

\* The initial pipeline.
LEMMA InitTypes == Init => Flags /\ Objects /\ Servers
<1> SUFFICES ASSUME Init PROVE Flags /\ Objects /\ Servers
  OBVIOUS
<1>1. Flags
  BY Zenon DEF Init, Flags
<1>2. 1 \in Positions /\ \A i \in Positions : InitialNodes[i] \in Nodes /\ i \in Nat
  BY SwitchAssumption DEF Positions
<1>3. vnodes = [i \in Positions |-> <<InitialNodes[i], i>>]
  BY DEF Init, Positions
<1>4. vnodes \in [Positions -> VNodeObjects] /\ Range(vnodes) \subseteq VNodeObjects
  BY <1>2, <1>3 DEF VNodeObjects, Range
<1>5. Objects
  BY <1>2, <1>4, SwitchAssumption DEF Init, Objects, Stages, OldVNodes, Range
<1>6. api \in Addresses(0) /\ switches = 0
  BY <1>2, SwitchAssumption DEF Init, Addresses
<1>7. Servers
  BY <1>4, <1>6 DEF Init, Servers, PortRoom, Serving
<1> QED BY <1>1, <1>5, <1>7

\* A switch begins.
LEMMA BeginTypes ==
  ASSUME Objects, Servers, NEW single,
         NEW olds \in SUBSET NodesOf(Range(vnodes)), NEW replace \in [olds -> Nodes],
         Begin(single, replace)
  PROVE  Objects' /\ Servers'
<1>1. /\ switches < MaxSwitches /\ switches' = switches + 1 /\ pc' = "ray"
      /\ old_first' = vnodes[1]
      /\ UNCHANGED <<api, servers, stores, has_port, store_ready, cleaners, new_api, failures>>
  BY DEF Begin
<1>2. switches \in Nat /\ switches' \in 0..MaxSwitches /\ MaxSwitches \in Nat
  BY <1>1, SwitchAssumption DEF Objects
<1>3. vnodes \in [Positions -> VNodeObjects] /\ 1 \in Positions /\ Positions \subseteq Nat
  BY SwitchAssumption DEF Objects, Positions
<1>4. \A i \in Positions : Serial(i) \in Nat
  BY <1>2, <1>3, SwitchAssumption DEF Serial
<1>5. vnodes' \in [Positions -> VNodeObjects]
  <2>1. /\ vnodes' = [i \in Positions |-> IF i \in At(replace)
                                          THEN <<NewNode(replace, i), Serial(i)>>
                                          ELSE vnodes[i]]
        /\ \A i \in At(replace) : NewNode(replace, i) \in Nodes
    BY <1>3, BeginMoves
  <2> QED BY <1>3, <1>4, <2>1 DEF VNodeObjects
<1>6. DOMAIN targets' \subseteq Positions /\ OldVNodes' \subseteq VNodeObjects
  BY <1>3, BeginMoves DEF OldVNodes, Range
<1>7. Objects'
  BY <1>1, <1>2, <1>3, <1>5, <1>6 DEF Objects, Stages
<1>8. Addresses(switches) \subseteq Addresses(switches')
  BY <1>1, <1>2, SwitchAssumption DEF Addresses
<1>9. api[2] < BasePort + switches'
  BY <1>1, <1>2, SwitchAssumption DEF Servers, Addresses
<1> QED BY <1>1, <1>7, <1>8, <1>9 DEF Servers, PortRoom

\* The new server's address.
LEMMA NewAddress ==
  ASSUME Objects, Servers, pc = "api", 1 \in Positions
  PROVE  /\ <<vnodes[1][1], NewPort(vnodes[1][1])>> \in Addresses(switches)
         /\ <<vnodes[1][1], NewPort(vnodes[1][1])>> # api
<1>1. vnodes[1][1] \in Nodes /\ switches \in Nat
  BY DEF Objects, VNodeObjects
<1>2. /\ api \in Nodes \X (BasePort..(BasePort + switches))
      /\ api[2] < BasePort + switches
  BY DEF Servers, PortRoom, Addresses
<1>3. NewPort(vnodes[1][1]) \in BasePort..(BasePort + switches)
  BY <1>1, <1>2, SwitchAssumption DEF NewPort
<1>4. vnodes[1][1] = api[1] => NewPort(vnodes[1][1]) # api[2]
  <2>1. api[2] \in Int /\ api[2] + 1 # api[2]
    BY <1>2, SwitchAssumption
  <2> QED BY <2>1 DEF NewPort
<1> QED BY <1>1, <1>2, <1>3, <1>4 DEF Addresses

\* The other steps.
LEMMA StepTypes == Objects /\ Servers /\ [Next]_vars => Objects' /\ Servers'
<1> SUFFICES ASSUME Objects, Servers, [Next]_vars PROVE Objects' /\ Servers'
  OBVIOUS
<1>0. /\ NewVNodes \subseteq VNodeObjects /\ Range(vnodes) \subseteq VNodeObjects
      /\ PortPassedOn \subseteq VNodeObjects /\ 1 \in Positions
      /\ MaxFailures \in Nat /\ failures \in Nat
  BY SwitchAssumption DEF Objects, NewVNodes, PortPassedOn, Range, Positions
<1>1. ASSUME NEW single \in BOOLEAN, SomeReplacement(single) PROVE Objects' /\ Servers'
  <2>1. PICK olds \in SUBSET NodesOf(Range(vnodes)) :
           \E replace \in [olds -> Nodes] : Begin(single, replace)
    BY <1>1, Zenon DEF SomeReplacement
  <2> QED BY <2>1, BeginTypes
<1>2. CASE StartRay
  BY <1>2 DEF StartRay, switchVars, Objects, Servers, PortRoom, Stages, OldVNodes
<1>3. CASE StartStores
  BY <1>0, <1>3 DEF StartStores, switchVars, Objects, Servers, PortRoom, Stages, OldVNodes
<1>4. CASE RaisePortless
  BY <1>0, <1>4 DEF RaisePortless, switchVars, Objects, Servers, PortRoom, Stages, OldVNodes
<1>5. CASE StartServer
  <2>1. /\ pc = "api" /\ pc' = "wait"
        /\ new_api' = <<vnodes[1][1], NewPort(vnodes[1][1])>>
        /\ servers' = [a \in DOMAIN servers \cup {new_api'} |->
                         IF a \in DOMAIN servers THEN servers[a] ELSE Range(vnodes)]
        /\ store_ready' \in {store_ready \cup NewVNodes, store_ready}
        /\ UNCHANGED <<vnodes, api, stores, has_port, cleaners, targets, old_first,
                       switches, failures>>
    BY <1>5, Zenon DEF StartServer
  <2>2. new_api' \in Addresses(switches)
    BY <1>0, <2>1, NewAddress
  <2>3. Objects'
    BY <1>0, <2>1 DEF Objects, Stages, OldVNodes
  <2>4. Servers'
    BY <1>0, <2>1, <2>2 DEF Servers, PortRoom
  <2> QED BY <2>3, <2>4
<1>6. CASE TurnOff
  BY <1>0, <1>6 DEF TurnOff, switchVars, Objects, Servers, PortRoom, Stages, OldVNodes
<1>7. CASE StopOld
  <2>1. /\ pc' = "swap"
        /\ \/ servers' = [a \in DOMAIN servers \ {<<old_first[1], api[2]>>} |-> servers[a]]
           \/ UNCHANGED servers
        /\ UNCHANGED failures \/ (failures < MaxFailures /\ failures' = failures + 1)
        /\ UNCHANGED <<vnodes, api, stores, has_port, store_ready, cleaners, switchVars, switches>>
    BY <1>7, Zenon DEF StopOld, Restrict
  <2>2. failures' \in 0..MaxFailures
    BY <1>0, <2>1 DEF Objects
  <2>3. Objects'
    BY <2>1, <2>2 DEF Objects, Stages, OldVNodes, switchVars
  <2>4. Servers'
    BY <2>1 DEF Servers, PortRoom, switchVars
  <2> QED BY <2>3, <2>4
<1>8. CASE TurnOn
  BY <1>8 DEF TurnOn, switchVars, Objects, Servers, PortRoom, Stages, OldVNodes
<1>9. ASSUME NEW i \in DOMAIN targets, Cleanup(i) PROVE Objects' /\ Servers'
  <2>1. /\ pc' \in {"idle", "clean"}
        /\ stores' \subseteq stores /\ store_ready' \subseteq store_ready
        /\ cleaners' = cleaners \cup {targets[i][1]}
        /\ targets' = [j \in DOMAIN targets \ {i} |-> targets[j]]
        /\ UNCHANGED failures \/ (failures < MaxFailures /\ failures' = failures + 1)
        /\ UNCHANGED <<vnodes, api, servers, has_port, old_first, new_api, switches>>
    BY <1>9 DEF Cleanup
  <2>2. failures' \in 0..MaxFailures
    BY <1>0, <2>1 DEF Objects
  <2>3. OldVNodes' \subseteq OldVNodes /\ targets[i] \in OldVNodes
    BY <2>1 DEF OldVNodes, Range
  <2>4. targets[i][1] \in Nodes
    BY <2>3 DEF Objects, VNodeObjects
  <2>5. Objects'
    BY <2>1, <2>2, <2>3, <2>4 DEF Objects, Stages
  <2>6. Servers'
    BY <2>1 DEF Servers, PortRoom
  <2> QED BY <2>5, <2>6
<1>10. CASE Raise
  <2>1. /\ failures' \in 0..MaxFailures /\ pc' = "idle"
        /\ stores' \subseteq stores \cup NewVNodes /\ has_port' \subseteq has_port \cup PortPassedOn
        /\ UNCHANGED <<vnodes, api, servers, store_ready, cleaners, switchVars, switches>>
    BY <1>0, <1>10 DEF Raise
  <2>2. Objects'
    BY <1>0, <2>1 DEF Objects, Stages, OldVNodes, switchVars
  <2>3. Servers'
    BY <2>1 DEF Servers, PortRoom, switchVars
  <2> QED BY <2>2, <2>3
<1>11. ASSUME NEW n \in Nodes, CleanupWorker(n) PROVE Objects' /\ Servers'
  <2>1. /\ stores' \subseteq stores /\ cleaners' \subseteq cleaners
        /\ UNCHANGED <<vnodes, api, servers, has_port, store_ready, pc, switchVars, switches, failures>>
    BY <1>11 DEF CleanupWorker
  <2>2. Objects'
    BY <2>1 DEF Objects, OldVNodes, switchVars
  <2>3. Servers'
    BY <2>1 DEF Servers, PortRoom, switchVars
  <2> QED BY <2>2, <2>3
<1>12. CASE UNCHANGED vars
  BY <1>12 DEF vars, switchVars, Objects, Servers, PortRoom, OldVNodes
<1> QED BY <1>1, <1>2, <1>3, <1>4, <1>5, <1>6, <1>7, <1>8, <1>9, <1>10, <1>11, <1>12, Zenon
        DEF Next, SwitchStep, Waiting

SwitchTypes == Flags /\ Objects /\ Servers

\* The three parts hold in every state.
LEMMA TypesHold == Spec => []SwitchTypes
<1>1. Init => SwitchTypes
  BY InitTypes DEF SwitchTypes
<1>2. SwitchTypes /\ [Next]_vars => SwitchTypes'
  BY StepFlags, StepTypes, Zenon DEF SwitchTypes
<1> QED BY <1>1, <1>2, PTL DEF Spec

\* TypeOK: in particular no switch moves the API server by more than one port,
\* whatever switches failed before it.
THEOREM SwitchTypesHold == Spec => []TypeOK
<1>1. SwitchTypes => TypeOK
  BY TypeParts DEF SwitchTypes
<1> QED BY <1>1, TypesHold, PTL

-----------------------------------------------------------------------------
(* Nodes and stores.                                                       *)

\* What Range and NodesOf contain.
LEMMA InRange ==
  ASSUME NEW f
  PROVE  /\ \A v : v \in Range(f) <=> \E i \in DOMAIN f : v = f[i]
         /\ \A V, n : n \in NodesOf(V) <=> \E v \in V : v[1] = n
  BY DEF Range, NodesOf

\* The initial VNodes are on different nodes.
LEMMA InitApart == ASSUME OnDifferentNodes PROVE Init => Apart
<1> SUFFICES ASSUME Init PROVE Apart
  OBVIOUS
<1>1. vnodes = [i \in Positions |-> <<InitialNodes[i], i>>] /\ stores = Range(vnodes) /\ pc = "idle"
  BY DEF Init, Positions
<1>2. \A v \in Range(vnodes) \cup stores : \E i \in Positions : v = <<InitialNodes[i], i>>
  BY <1>1, InRange
<1> QED BY <1>1, <1>2 DEF Apart, OnDifferentNodes

\* The nodes a switch takes in are on neither side.
LEMMA BeginApart ==
  ASSUME Objects, Apart, NEW single,
         NEW olds \in SUBSET NodesOf(Range(vnodes)), NEW replace \in [olds -> Nodes],
         Begin(single, replace)
  PROVE  Apart'
<1> DEFINE A == At(replace)
           N(i) == NewNode(replace, i)
<1>1. /\ vnodes \in [Positions -> VNodeObjects] /\ UNCHANGED stores
      /\ A \subseteq Positions
      /\ targets' = [i \in A |-> vnodes[i]]
      /\ vnodes' = [i \in Positions |-> IF i \in A THEN <<N(i), Serial(i)>> ELSE vnodes[i]]
      /\ \A i \in A : N(i) \notin NodesOf(Range(vnodes) \cup stores)
      /\ \A i, j \in A : vnodes[i][1] = vnodes[j][1] \/ N(i) = N(j) => i = j
  <2>1. vnodes \in [Positions -> VNodeObjects] /\ UNCHANGED stores
    BY DEF Objects, Begin
  <2> QED BY <2>1, BeginMoves
<1> HIDE DEF A, N
<1>2. \A i \in A : \A v \in Range(vnodes) \cup stores : N(i) # v[1]
  BY <1>1, InRange
<1>3. \A i \in Positions : vnodes[i] \in Range(vnodes)
  BY <1>1, InRange
<1>4. \A i, j \in Positions : vnodes[i][1] = vnodes[j][1] => i = j
  BY <1>3 DEF Apart
<1>5. /\ \A i \in A : vnodes'[i][1] = N(i)
      /\ \A i \in Positions \ A : vnodes'[i] = vnodes[i]
      /\ \A v \in Range(vnodes') \cup stores :
           v \in Range(vnodes) \cup stores \/ \E i \in A : v = vnodes'[i]
  BY <1>1, <1>3, InRange
<1>6. \A i, j \in Positions : vnodes'[i][1] = vnodes'[j][1] => i = j
  BY <1>1, <1>2, <1>3, <1>4, <1>5
<1>7. \A v, w \in Range(vnodes') \cup stores : v[1] = w[1] => v = w
  <2> SUFFICES ASSUME NEW v \in Range(vnodes') \cup stores, NEW w \in Range(vnodes') \cup stores,
                      v[1] = w[1]
               PROVE  v = w
    OBVIOUS
  <2>1. CASE v \in Range(vnodes) \cup stores /\ w \in Range(vnodes) \cup stores
    BY <2>1 DEF Apart
  <2>2. CASE v \in Range(vnodes) \cup stores /\ \E i \in A : w = vnodes'[i]
    BY <1>2, <1>5, <2>2
  <2>3. CASE w \in Range(vnodes) \cup stores /\ \E i \in A : v = vnodes'[i]
    BY <1>2, <1>5, <2>3
  <2>4. CASE (\E i \in A : v = vnodes'[i]) /\ (\E i \in A : w = vnodes'[i])
    BY <1>1, <1>6, <2>4
  <2> QED BY <1>5, <2>1, <2>2, <2>3, <2>4
<1>8. ASSUME NEW n \in NodesOf(Range(targets')), n \in NodesOf(Range(vnodes')) PROVE FALSE
  <2>1. PICK i \in A : n = vnodes[i][1]
    <3>1. PICK v \in Range(targets') : v[1] = n
      BY <1>8 DEF NodesOf
    <3> QED BY <1>1, <3>1 DEF Range
  <2>2. PICK j \in Positions : n = vnodes'[j][1]
    <3>1. PICK v \in Range(vnodes') : v[1] = n
      BY <1>8 DEF NodesOf
    <3> QED BY <1>1, <3>1 DEF Range
  <2>0. i \in Positions
    BY <1>1
  <2>3. CASE j \in A
    <3>1. N(j) # vnodes[i][1]
      BY <1>2, <1>3, <2>0, <2>3
    <3>2. vnodes'[j][1] = N(j)
      BY <1>5, <2>3
    <3> QED BY <2>1, <2>2, <3>1, <3>2, Zenon
  <2>4. CASE j \notin A
    BY <1>4, <1>5, <2>0, <2>1, <2>2, <2>4
  <2> QED BY <2>3, <2>4
<1>9. \A i, j \in DOMAIN targets' : targets'[i][1] = targets'[j][1] => i = j
  BY <1>1
<1> QED BY <1>1, <1>6, <1>7, <1>8, <1>9 DEF Apart, OldVNodes

\* Every other step adds no VNode.
LEMMA StepApart == Objects /\ Apart /\ [Next]_vars => Apart'
<1> SUFFICES ASSUME Objects, Apart, [Next]_vars PROVE Apart'
  OBVIOUS
<1>0. NewVNodes \subseteq Range(vnodes)
  BY InRange DEF Objects, NewVNodes
<1>1. ASSUME NEW single \in BOOLEAN, SomeReplacement(single) PROVE Apart'
  <2>1. PICK olds \in SUBSET NodesOf(Range(vnodes)) :
           \E replace \in [olds -> Nodes] : Begin(single, replace)
    BY <1>1, Zenon DEF SomeReplacement
  <2> QED BY <2>1, BeginApart
<1>2. ASSUME UNCHANGED <<vnodes, targets>>, stores' \subseteq stores \cup NewVNodes,
             pc' = "idle" \/ pc # "idle"
      PROVE  Apart'
  BY <1>0, <1>2 DEF Apart, OldVNodes
<1>3. CASE StartRay \/ StartStores \/ RaisePortless \/ Raise
  BY <1>2, <1>3 DEF StartRay, StartStores, RaisePortless, Raise, switchVars
<1>4. CASE StartServer \/ TurnOff \/ StopOld \/ TurnOn
  BY <1>2, <1>4 DEF StartServer, TurnOff, StopOld, TurnOn, switchVars
<1>5. ASSUME NEW i \in DOMAIN targets, Cleanup(i) PROVE Apart'
  <2>1. /\ pc = "clean" /\ UNCHANGED vnodes /\ stores' \subseteq stores
        /\ targets' = [j \in DOMAIN targets \ {i} |-> targets[j]]
    BY <1>5 DEF Cleanup
  <2>2. OldVNodes' \subseteq OldVNodes
    BY <2>1, InRange DEF OldVNodes
  <2>3. NodesOf(OldVNodes') \subseteq NodesOf(OldVNodes)
    BY <2>2, InRange
  <2> QED BY <2>1, <2>3 DEF Apart
<1>6. ASSUME NEW n \in Nodes, CleanupWorker(n) PROVE Apart'
  <2>1. stores' \subseteq stores /\ UNCHANGED <<vnodes, targets, pc>>
    BY <1>6 DEF CleanupWorker, switchVars
  <2> QED BY <2>1 DEF Apart, OldVNodes
<1>7. CASE UNCHANGED vars
  BY <1>7 DEF vars, switchVars, Apart, OldVNodes
<1> QED BY <1>1, <1>3, <1>4, <1>5, <1>6, <1>7, Zenon DEF Next, SwitchStep, Waiting

\* The pipeline is off exactly during the switchover.
LEMMA StepReady == Objects /\ ReadyWhen /\ [Next]_vars => ReadyWhen'
<1> SUFFICES ASSUME Objects, ReadyWhen, [Next]_vars PROVE ReadyWhen'
  OBVIOUS
<1>1. ASSUME UNCHANGED is_ready, pc \notin {"off", "swap"} <=> pc' \notin {"off", "swap"}
      PROVE  ReadyWhen'
  BY <1>1, Zenon DEF ReadyWhen
<1>2. ASSUME NEW single \in BOOLEAN, SomeReplacement(single) PROVE ReadyWhen'
  <2>1. PICK replace : Begin(single, replace)
    BY <1>2, Zenon DEF SomeReplacement
  <2>2. pc = "idle" /\ pc' = "ray"
    BY <2>1 DEF Begin
  <2>3. UNCHANGED is_ready
    BY <2>1, Zenon DEF Begin
  <2> QED BY <1>1, <2>2, <2>3
<1>3. CASE StartRay \/ StartStores \/ RaisePortless \/ Raise \/ StartServer \/ StopOld
  <2>1. UNCHANGED is_ready
    BY <1>3, Zenon DEF StartRay, StartStores, RaisePortless, Raise, StartServer, StopOld
  <2>2. pc \notin {"off", "swap"} <=> pc' \notin {"off", "swap"}
    BY <1>3 DEF StartRay, StartStores, RaisePortless, Raise, StartServer, StopOld
  <2> QED BY <1>1, <2>1, <2>2
<1>4. CASE TurnOff
  <2>1. is_ready' = FALSE
    BY <1>4, Zenon DEF TurnOff
  <2>2. pc' = "off"
    BY <1>4, Zenon DEF TurnOff
  <2> QED BY <2>1, <2>2, Zenon DEF ReadyWhen
<1>5. CASE TurnOn
  <2>1. is_ready' = TRUE
    BY <1>5, Zenon DEF TurnOn
  <2>2. pc' \notin {"off", "swap"}
    BY <1>5 DEF TurnOn
  <2> QED BY <2>1, <2>2, Zenon DEF ReadyWhen
<1>6. ASSUME NEW i \in DOMAIN targets, Cleanup(i) PROVE ReadyWhen'
  <2>1. UNCHANGED is_ready
    BY <1>6, Zenon DEF Cleanup
  <2>2. pc \notin {"off", "swap"} <=> pc' \notin {"off", "swap"}
    BY <1>6 DEF Cleanup
  <2> QED BY <1>1, <2>1, <2>2
<1>7. ASSUME NEW n \in Nodes, CleanupWorker(n) PROVE ReadyWhen'
  BY <1>1, <1>7, Zenon DEF CleanupWorker
<1>8. CASE UNCHANGED vars
  BY <1>1, <1>8, Zenon DEF vars
<1> QED BY <1>2, <1>3, <1>4, <1>5, <1>6, <1>7, <1>8, Zenon DEF Next, SwitchStep, Waiting

-----------------------------------------------------------------------------
(* The stores behind the server.                                           *)

\* A switch begins on nodes whose cleanup threads have ended.
LEMMA BeginCore ==
  ASSUME Objects, Core, NEW single,
         NEW olds \in SUBSET NodesOf(Range(vnodes)), NEW replace \in [olds -> Nodes],
         Begin(single, replace), ~hurried'
  PROVE  Core'
<1> DEFINE A == At(replace)
           N(i) == NewNode(replace, i)
<1>1. /\ vnodes \in [Positions -> VNodeObjects]
      /\ vnodes' = [i \in Positions |-> IF i \in A THEN <<N(i), Serial(i)>> ELSE vnodes[i]]
      /\ \A i \in A : N(i) \in {replace[n] : n \in olds}
  <2>1. vnodes \in [Positions -> VNodeObjects]
    BY DEF Objects
  <2> QED BY <2>1, BeginMoves
<1>2. \A n \in olds : replace[n] \notin cleaners
  <2>1. DOMAIN replace = olds
    OBVIOUS
  <2> QED BY <2>1, Zenon DEF Begin
<1>3. /\ pc = "idle" /\ pc' = "ray"
      /\ UNCHANGED <<api, servers, stores, cleaners, new_api>>
  BY DEF Begin
<1> HIDE DEF A, N
<1>4. \A i \in A : N(i) \notin cleaners
  BY <1>1, <1>2
<1>5. ASSUME NEW n \in NodesOf(Range(vnodes')) PROVE n \notin cleaners
  <2>1. PICK j \in Positions : n = vnodes'[j][1]
    <3>1. PICK v \in Range(vnodes') : v[1] = n
      BY DEF NodesOf
    <3> QED BY <1>1, <3>1 DEF Range
  <2>2. CASE j \in A
    BY <1>1, <1>4, <2>1, <2>2
  <2>3. CASE j \notin A
    <3>1. n \in NodesOf(Range(vnodes))
      BY <1>1, <2>1, <2>3, InRange
    <3> QED BY <3>1 DEF Core, Cleared
  <2> QED BY <2>2, <2>3
<1> QED BY <1>3, <1>5 DEF Core, NewServer, Cleared, Backed

\* The new server has a port of its own.
LEMMA ServerCore ==
  ASSUME Objects, Servers, Core, StartServer, ~taken', 1 \in Positions
  PROVE  Core'
<1>1. /\ pc = "api" /\ pc' = "wait"
      /\ new_api' = <<vnodes[1][1], NewPort(vnodes[1][1])>>
      /\ servers' = [a \in DOMAIN servers \cup {new_api'} |->
                       IF a \in DOMAIN servers THEN servers[a] ELSE Range(vnodes)]
      /\ UNCHANGED <<vnodes, api, stores, cleaners>>
  BY Zenon DEF StartServer
<1>2. new_api' \notin DOMAIN servers
  BY Zenon DEF StartServer
<1>3. new_api' # api
  BY <1>1, NewAddress
<1>4. servers'[new_api'] = Range(vnodes)
  BY <1>1, <1>2
<1>5. api \in DOMAIN servers' => api \in DOMAIN servers /\ servers'[api] = servers[api]
  BY <1>1, <1>3
<1>6. /\ api \in DOMAIN servers
           => servers[api] \subseteq stores /\ NodesOf(servers[api]) \cap cleaners = {}
      /\ Cleared
  BY <1>1 DEF Core, Backed
<1> QED BY <1>1, <1>4, <1>5, <1>6 DEF Core, NewServer, Cleared, Backed

\* An old VNode is cleaned up.
LEMMA CleanupCore ==
  ASSUME Objects, Apart, Core, NEW i \in DOMAIN targets, Cleanup(i)
  PROVE  Core'
<1> DEFINE m == targets[i][1]
<1>1. /\ pc = "clean" /\ pc' \in {"idle", "clean"}
      /\ cleaners' = cleaners \cup {m}
      /\ UNCHANGED <<vnodes, api, servers, new_api>>
  BY DEF Cleanup
<1>2. \A w \in stores : w[1] # m => w \in stores'
  BY DEF Cleanup
<1>3. m \notin NodesOf(Range(vnodes))
  <2>1. m \in NodesOf(OldVNodes)
    BY InRange DEF OldVNodes
  <2> QED BY <1>1, <2>1 DEF Apart
<1> HIDE DEF m
<1>4. \A w \in Range(vnodes) : w[1] # m
  BY <1>3, InRange
<1>5. /\ api = new_api
      /\ api \in DOMAIN servers => servers[api] = Range(vnodes) /\ Range(vnodes) \subseteq stores
      /\ NodesOf(Range(vnodes)) \cap cleaners = {}
  BY <1>1 DEF Core, NewServer, Cleared, Backed
<1>6. api \in DOMAIN servers => Range(vnodes) \subseteq stores'
  BY <1>2, <1>4, <1>5
<1> QED BY <1>1, <1>3, <1>5, <1>6 DEF Core, NewServer, Cleared, Backed

\* A cleanup thread goes on.
LEMMA WorkerCore ==
  ASSUME Objects, Core, NEW n \in Nodes, CleanupWorker(n)
  PROVE  Core'
<1>1. /\ n \in cleaners /\ cleaners' \subseteq cleaners
      /\ UNCHANGED <<vnodes, api, servers, pc, new_api>>
      /\ \A w \in stores : w[1] # n => w \in stores'
  BY DEF CleanupWorker, switchVars
<1>2. ASSUME NEW V, V \subseteq stores, NodesOf(V) \cap cleaners = {}
      PROVE  V \subseteq stores' /\ NodesOf(V) \cap cleaners' = {}
  <2>1. \A w \in V : w[1] # n
    BY <1>1, <1>2, InRange
  <2> QED BY <1>1, <1>2, <2>1
<1>3. Cleared' /\ NewServer'
  BY <1>1 DEF Core, Cleared, NewServer
<1>4. ASSUME pc \notin {"off", "swap"}, api \in DOMAIN servers
      PROVE  servers[api] \subseteq stores' /\ NodesOf(servers[api]) \cap cleaners' = {}
  BY <1>2, <1>4 DEF Core, Backed
<1>5. ASSUME pc \in {"off", "swap"}, new_api \in DOMAIN servers
      PROVE  Range(vnodes) \subseteq stores'
  BY <1>2, <1>5 DEF Core, Backed, Cleared
<1> QED BY <1>1, <1>3, <1>4, <1>5 DEF Core, Backed

\* One step of the server's stores.
LEMMA StepCore ==
  ASSUME Objects, Servers, Apart, Core, [Next]_vars, ~hurried', ~taken'
  PROVE  Core'
<1>0. 1 \in Positions
  BY SwitchAssumption DEF Positions
<1>1. ASSUME NEW single \in BOOLEAN, SomeReplacement(single) PROVE Core'
  <2>1. PICK olds \in SUBSET NodesOf(Range(vnodes)) :
           \E replace \in [olds -> Nodes] : Begin(single, replace)
    BY <1>1, Zenon DEF SomeReplacement
  <2>2. PICK replace \in [olds -> Nodes] : Begin(single, replace)
    BY <2>1
  <2> QED BY <2>2, BeginCore
<1>2. ASSUME UNCHANGED <<vnodes, api, servers, cleaners>>, stores \subseteq stores',
             pc \notin {"off", "swap"}, pc' \in {"idle", "ray", "stores", "api"}
      PROVE  Core'
  BY <1>2 DEF Core, NewServer, Cleared, Backed
<1>3. CASE StartRay \/ StartStores
  BY <1>2, <1>3 DEF StartRay, StartStores
<1>4. CASE RaisePortless \/ Raise
  BY <1>2, <1>4 DEF RaisePortless, Raise
<1>5. CASE StartServer
  BY <1>0, <1>5, ServerCore
<1>6. CASE TurnOff
  <2>1. /\ pc = "wait" /\ pc' = "off"
        /\ new_api \in DOMAIN servers /\ servers[new_api] \subseteq stores
        /\ UNCHANGED <<vnodes, api, servers, stores, cleaners, new_api>>
    BY <1>6 DEF TurnOff, ServerAnswers, switchVars
  <2> QED BY <2>1 DEF Core, NewServer, Cleared, Backed
<1>7. CASE StopOld
  <2>1. /\ pc = "off" /\ pc' = "swap"
        /\ \/ servers' = [a \in DOMAIN servers \ {<<old_first[1], api[2]>>} |-> servers[a]]
           \/ UNCHANGED servers
        /\ UNCHANGED <<vnodes, api, stores, cleaners, new_api>>
    BY <1>7, Zenon DEF StopOld, Restrict, switchVars
  <2>2. new_api \in DOMAIN servers' => new_api \in DOMAIN servers /\ servers'[new_api] = servers[new_api]
    BY <2>1
  <2> QED BY <2>1, <2>2 DEF Core, NewServer, Cleared, Backed
<1>8. CASE TurnOn
  <2>1. /\ pc = "swap" /\ pc' = "clean" /\ api' = new_api
        /\ UNCHANGED <<vnodes, servers, stores, cleaners, new_api>>
    BY <1>8 DEF TurnOn, switchVars
  <2> QED BY <2>1 DEF Core, NewServer, Cleared, Backed
<1>9. ASSUME NEW i \in DOMAIN targets, Cleanup(i) PROVE Core'
  BY <1>9, CleanupCore
<1>10. ASSUME NEW n \in Nodes, CleanupWorker(n) PROVE Core'
  BY <1>10, WorkerCore
<1>11. CASE UNCHANGED vars
  BY <1>11 DEF vars, switchVars, Core, NewServer, Cleared, Backed
<1> QED BY <1>1, <1>3, <1>4, <1>5, <1>6, <1>7, <1>8, <1>9, <1>10, <1>11, Zenon
        DEF Next, SwitchStep, Waiting

\* What has happened stays so.
LEMMA StepHistory == [Next]_vars => (hurried => hurried') /\ (taken => taken')
<1> SUFFICES ASSUME [Next]_vars PROVE (hurried => hurried') /\ (taken => taken')
  OBVIOUS
<1>1. ASSUME NEW single \in BOOLEAN, SomeReplacement(single)
      PROVE  (hurried => hurried') /\ (taken => taken')
  <2>1. PICK replace : Begin(single, replace)
    BY <1>1, Zenon DEF SomeReplacement
  <2>2. hurried => hurried'
    BY <2>1, Zenon DEF Begin
  <2>3. taken => taken'
    BY <2>1, Zenon DEF Begin
  <2> QED BY <2>2, <2>3, Zenon
<1>2. ASSUME StartRay \/ StartStores PROVE UNCHANGED hurried /\ UNCHANGED taken
  BY <1>2, Zenon DEF StartRay, StartStores
<1>3. ASSUME RaisePortless \/ Raise PROVE UNCHANGED hurried /\ UNCHANGED taken
  BY <1>3, Zenon DEF RaisePortless, Raise
<1>4. ASSUME TurnOff \/ StopOld \/ TurnOn PROVE UNCHANGED hurried /\ UNCHANGED taken
  BY <1>4, Zenon DEF TurnOff, StopOld, TurnOn
<1>5. ASSUME StartServer PROVE (hurried => hurried') /\ (taken => taken')
  <2>1. UNCHANGED hurried /\ taken' = (taken \/ new_api' \in DOMAIN servers)
    BY <1>5, Zenon DEF StartServer
  <2> QED BY <2>1, Zenon
<1>6. ASSUME NEW i, Cleanup(i) PROVE UNCHANGED hurried /\ UNCHANGED taken
  BY <1>6, Zenon DEF Cleanup
<1>7. ASSUME NEW n, CleanupWorker(n) PROVE UNCHANGED hurried /\ UNCHANGED taken
  BY <1>7, Zenon DEF CleanupWorker
<1>8. ASSUME UNCHANGED vars PROVE UNCHANGED hurried /\ UNCHANGED taken
  BY <1>8, Zenon DEF vars
<1>9. UNCHANGED hurried /\ UNCHANGED taken => (hurried => hurried') /\ (taken => taken')
  OBVIOUS
<1> QED BY <1>1, <1>2, <1>3, <1>4, <1>5, <1>6, <1>7, <1>8, <1>9, Zenon
        DEF Next, SwitchStep, Waiting

\* The initial server has the stores of all its VNodes.
LEMMA InitCore == Init => ReadyWhen /\ Core
<1> SUFFICES ASSUME Init PROVE ReadyWhen /\ Core
  OBVIOUS
<1>1. is_ready /\ pc \notin {"off", "swap"}
  <2>1. is_ready
    BY Zenon DEF Init
  <2> QED BY <2>1 DEF Init
<1>2. ReadyWhen
  BY <1>1, Zenon DEF ReadyWhen
<1>3. Core
  BY DEF Init, Core, NewServer, Cleared, Backed, Serving
<1> QED BY <1>2, <1>3

\* The invariant behind the next theorem.
LEMMA BackedHolds == ASSUME OnDifferentNodes PROVE Spec => []BackedInv
<1>1. Init => BackedInv
  BY InitApart, InitCore, Zenon DEF BackedInv
<1>2. SwitchTypes /\ BackedInv /\ [Next]_vars => BackedInv'
  BY StepApart, StepReady, StepCore, StepHistory, Zenon DEF BackedInv, SwitchTypes
<1> QED BY <1>1, <1>2, TypesHold, PTL DEF Spec

\* StoresBehindServer, for every pipeline over different nodes: whatever nodes
\* are switched and whatever fails, the server the balancer is offered has all
\* its tensor stores, unless a node came back before its cleanup thread ended
\* or a leftover server had the new one's port.
THEOREM ServerHasItsStores == ASSUME OnDifferentNodes PROVE Spec => []StoresBehindServer
<1>1. BackedInv => StoresBehindServer
  <2> SUFFICES ASSUME BackedInv, is_ready, api \in DOMAIN servers, ~hurried, ~taken
               PROVE  servers[api] \subseteq stores
    BY Zenon DEF StoresBehindServer
  <2>1. pc \notin {"off", "swap"} /\ Core
    BY Zenon DEF BackedInv, ReadyWhen
  <2> QED BY <2>1 DEF Core, Backed
<1> QED BY <1>1, BackedHolds, PTL

-----------------------------------------------------------------------------
(* The server under the pipeline's address.                                *)

\* A switch begins.
LEMMA BeginHead ==
  ASSUME Objects, HeadKept, NEW single,
         NEW olds \in SUBSET NodesOf(Range(vnodes)), NEW replace \in [olds -> Nodes],
         Begin(single, replace)
  PROVE  HeadKept'
<1> DEFINE A == At(replace)
           N(i) == NewNode(replace, i)
<1>1. /\ vnodes \in [Positions -> VNodeObjects]
      /\ A \subseteq Positions
      /\ targets' = [i \in A |-> vnodes[i]]
      /\ vnodes' = [i \in Positions |-> IF i \in A THEN <<N(i), Serial(i)>> ELSE vnodes[i]]
  <2>1. vnodes \in [Positions -> VNodeObjects]
    BY DEF Objects
  <2> QED BY <2>1, BeginMoves
<1>2. /\ pc = "idle" /\ pc' = "ray" /\ switches' = switches + 1 /\ old_first' = vnodes[1]
      /\ UNCHANGED <<api, servers, has_port, failures>>
  BY DEF Begin
<1> HIDE DEF A, N
<1>3. switches \in Nat /\ failures \in Nat
  BY DEF Objects
<1>4. Unspoilt' => failures = 0
  BY <1>2, <1>3 DEF HeadKept, Unspoilt
<1>5. failures = 0 => Range(vnodes) \subseteq has_port /\ vnodes[1][1] = api[1] /\ api \in DOMAIN servers
  BY <1>2 DEF HeadKept, Unspoilt
<1>6. Range(vnodes') \ NewVNodes' \subseteq Range(vnodes)
  <2> SUFFICES ASSUME NEW v \in Range(vnodes'), v \notin NewVNodes' PROVE v \in Range(vnodes)
    OBVIOUS
  <2>1. PICK j \in Positions : v = vnodes'[j]
    BY <1>1 DEF Range
  <2>2. j \notin A
    BY <1>1, <2>1 DEF NewVNodes
  <2> QED BY <1>1, <2>1, <2>2 DEF Range
<1>7. OldVNodes' \subseteq Range(vnodes)
  BY <1>1 DEF OldVNodes, Range
<1> QED BY <1>2, <1>3, <1>4, <1>5, <1>6, <1>7 DEF HeadKept

\* As long as nothing failed, every new VNode has taken over a port.
LEMMA PortsPassedOn ==
  ASSUME Objects, HeadKept, failures = 0
  PROVE  /\ pc \in {"ray", "stores"} => Range(vnodes) \subseteq has_port \cup PortPassedOn
         /\ pc \in {"api", "wait"} => ~ Portless
<1>1. \A i \in DOMAIN targets : i \in DOMAIN vnodes /\ targets[i] \in OldVNodes
  BY InRange DEF Objects, OldVNodes
<1>2. NewVNodes \subseteq Range(vnodes)
  BY <1>1, InRange DEF NewVNodes
<1>3. ASSUME pc \in {"ray", "stores"} PROVE NewVNodes \subseteq PortPassedOn
  BY <1>1, <1>3 DEF HeadKept, NewVNodes, PortPassedOn
<1> QED BY <1>2, <1>3 DEF HeadKept, Portless

\* One step.
LEMMA StepHead ==
  ASSUME Objects, Servers, HeadKept, [Next]_vars
  PROVE  HeadKept'
<1>0. /\ 1 \in Positions /\ switches \in Nat /\ failures \in Nat
      /\ old_first[1] = api[1] => <<old_first[1], api[2]>> = api
  BY SwitchAssumption DEF Positions, Objects, Servers, Addresses
<1>1. ASSUME NEW single \in BOOLEAN, SomeReplacement(single) PROVE HeadKept'
  <2>1. PICK olds \in SUBSET NodesOf(Range(vnodes)) :
           \E replace \in [olds -> Nodes] : Begin(single, replace)
    BY <1>1, Zenon DEF SomeReplacement
  <2> QED BY <2>1, BeginHead
<1>2. CASE StartRay
  <2>1. /\ pc = "ray" /\ pc' = "stores"
        /\ UNCHANGED <<vnodes, api, servers, has_port, targets, old_first, new_api, switches, failures>>
    BY <1>2 DEF StartRay, switchVars
  <2> QED BY <2>1 DEF HeadKept, Unspoilt, NewVNodes, OldVNodes
<1>3. CASE StartStores
  <2>1. /\ pc = "stores" /\ pc' = "api" /\ has_port' = has_port \cup PortPassedOn
        /\ UNCHANGED <<vnodes, api, servers, targets, old_first, new_api, switches, failures>>
    BY <1>3 DEF StartStores, switchVars
  <2>2. failures = 0 => Range(vnodes) \subseteq has_port'
    BY <2>1, PortsPassedOn
  <2> QED BY <2>1, <2>2 DEF HeadKept, Unspoilt
<1>4. CASE RaisePortless
  <2>1. /\ pc \in {"api", "wait"} /\ pc' = "idle" /\ Portless
        /\ UNCHANGED <<vnodes, api, servers, has_port, targets, old_first, new_api, switches, failures>>
    BY <1>4 DEF RaisePortless, switchVars
  <2>2. failures # 0
    BY <2>1, PortsPassedOn
  <2> QED BY <2>1, <2>2 DEF HeadKept, Unspoilt
<1>5. CASE Raise
  <2>1. /\ pc \in {"ray", "stores"} /\ pc' = "idle" /\ failures' = failures + 1
        /\ UNCHANGED <<api, servers, switches>>
    BY <1>5 DEF Raise
  <2> QED BY <1>0, <2>1 DEF HeadKept, Unspoilt
<1>6. CASE StartServer
  <2>1. /\ pc = "api" /\ pc' = "wait"
        /\ new_api' = <<vnodes[1][1], NewPort(vnodes[1][1])>>
        /\ DOMAIN servers' = DOMAIN servers \cup {new_api'}
        /\ UNCHANGED <<vnodes, api, has_port, targets, old_first, switches, failures>>
    BY <1>6 DEF StartServer
  <2>2. new_api' # api
    BY <1>0, <2>1, NewAddress
  <2>3. new_api'[1] = vnodes[1][1]
    BY <2>1
  <2> QED BY <2>1, <2>2, <2>3 DEF HeadKept, Unspoilt
<1>7. CASE TurnOff
  <2>1. /\ pc = "wait" /\ pc' = "off" /\ new_api \in DOMAIN servers
        /\ UNCHANGED <<vnodes, api, servers, has_port, targets, old_first, new_api, switches, failures>>
    BY <1>7 DEF TurnOff, switchVars, ServerAnswers
  <2> QED BY <2>1 DEF HeadKept, Unspoilt
<1>8. CASE StopOld
  <2>1. /\ pc = "off" /\ pc' = "swap"
        /\ UNCHANGED <<vnodes, api, has_port, targets, old_first, new_api, switches>>
    BY <1>8 DEF StopOld, switchVars
  <2>2. CASE UNCHANGED servers /\ failures' = failures + 1
    BY <1>0, <2>1, <2>2 DEF HeadKept, Unspoilt
  <2>3. CASE /\ servers' = [a \in DOMAIN servers \ {<<old_first[1], api[2]>>} |-> servers[a]]
             /\ UNCHANGED failures
    <3>1. DOMAIN servers' = DOMAIN servers \ {<<old_first[1], api[2]>>}
      BY <2>3
    <3>2. Unspoilt => new_api \in DOMAIN servers'
      BY <1>0, <2>1, <3>1 DEF HeadKept
    <3> QED BY <1>0, <2>1, <2>3, <3>2 DEF HeadKept, Unspoilt
  <2> QED BY <1>8, <2>2, <2>3, Zenon DEF StopOld, Restrict
<1>9. CASE TurnOn
  <2>1. /\ pc = "swap" /\ pc' = "clean" /\ api' = new_api
        /\ UNCHANGED <<vnodes, servers, has_port, targets, old_first, new_api, switches, failures>>
    BY <1>9 DEF TurnOn, switchVars
  <2> QED BY <2>1 DEF HeadKept, Unspoilt
<1>10. ASSUME NEW i \in DOMAIN targets, Cleanup(i) PROVE HeadKept'
  <2>1. /\ pc = "clean" /\ pc' \in {"idle", "clean"} /\ failures' \in {failures, failures + 1}
        /\ UNCHANGED <<vnodes, api, servers, has_port, old_first, new_api, switches>>
    BY <1>10 DEF Cleanup
  <2> QED BY <1>0, <2>1 DEF HeadKept, Unspoilt
<1>11. ASSUME NEW n \in Nodes, CleanupWorker(n) PROVE HeadKept'
  <2>1. UNCHANGED <<vnodes, api, servers, has_port, targets, old_first, new_api, pc, switches, failures>>
    BY <1>11 DEF CleanupWorker, switchVars
  <2> QED BY <2>1 DEF HeadKept, Unspoilt, NewVNodes, OldVNodes
<1>12. CASE UNCHANGED vars
  BY <1>12 DEF vars, switchVars, HeadKept, Unspoilt, NewVNodes, OldVNodes
<1> QED BY <1>1, <1>2, <1>3, <1>4, <1>5, <1>6, <1>7, <1>8, <1>9, <1>10, <1>11, <1>12, Zenon
        DEF Next, SwitchStep, Waiting

\* The initial head is under the pipeline's address.
LEMMA InitHead == Init => HeadKept
<1> SUFFICES ASSUME Init PROVE HeadKept
  OBVIOUS
<1>1. /\ pc = "idle" /\ failures = 0 /\ switches = 0 /\ has_port = Range(vnodes)
      /\ api = <<InitialNodes[1], BasePort>> /\ servers = Serving(api, vnodes)
  BY DEF Init
<1>2. vnodes[1][1] = InitialNodes[1]
  BY SwitchAssumption DEF Init
<1> QED BY <1>1, <1>2 DEF HeadKept, Serving

\* It holds in every state.
LEMMA HeadHolds == Spec => [](HeadKept /\ ReadyWhen)
<1>1. SwitchTypes /\ HeadKept /\ ReadyWhen /\ [Next]_vars => HeadKept' /\ ReadyWhen'
  BY StepHead, StepReady, Zenon DEF SwitchTypes
<1> QED BY <1>1, InitHead, InitCore, TypesHold, PTL DEF Spec

\* DeadServerNeedsRetry: whatever fails in the first switch, and however many
\* switches succeed, a ready pipeline has a live server at its address; two
\* switches and a failure are needed to lose it.
THEOREM DeadServersNeedRetries == Spec => []DeadServerNeedsRetry
<1>1. SwitchTypes /\ HeadKept /\ ReadyWhen => DeadServerNeedsRetry
  <2> SUFFICES ASSUME SwitchTypes, HeadKept, ReadyWhen, is_ready, api \notin DOMAIN servers
               PROVE  failures > 0 /\ switches > 1
    BY Zenon DEF DeadServerNeedsRetry
  <2>1. pc \notin {"off", "swap"}
    BY Zenon DEF ReadyWhen
  <2>2. failures \in Nat /\ switches \in Nat
    BY DEF SwitchTypes, Objects
  <2> QED BY <2>1, <2>2 DEF HeadKept, Unspoilt
<1> QED BY <1>1, HeadHolds, TypesHold, PTL

-----------------------------------------------------------------------------
(* What a switch leaves.                                                   *)

\* A switch takes its targets out of the list and leaves the other VNodes.
LEMMA BeginExact ==
  ASSUME Objects, Exact, NEW single,
         NEW olds \in SUBSET NodesOf(Range(vnodes)), NEW replace \in [olds -> Nodes],
         Begin(single, replace), ~hurried'
  PROVE  Exact'
<1> DEFINE A == At(replace)
           N(i) == NewNode(replace, i)
<1>1. /\ vnodes \in [Positions -> VNodeObjects]
      /\ A \subseteq Positions
      /\ targets' = [i \in A |-> vnodes[i]]
      /\ vnodes' = [i \in Positions |-> IF i \in A THEN <<N(i), Serial(i)>> ELSE vnodes[i]]
      /\ \A i \in A : N(i) \notin NodesOf(Range(vnodes) \cup stores)
      /\ \A i \in A : N(i) \in {replace[n] : n \in olds}
  <2>1. vnodes \in [Positions -> VNodeObjects]
    BY DEF Objects
  <2> QED BY <2>1, BeginMoves
<1>2. \A n \in olds : replace[n] \notin cleaners
  <2>1. DOMAIN replace = olds
    OBVIOUS
  <2> QED BY <2>1, Zenon DEF Begin
<1>3. /\ pc = "idle" /\ pc' = "ray"
      /\ UNCHANGED <<api, servers, stores, store_ready, cleaners>>
  BY DEF Begin
<1> HIDE DEF A, N
<1>4. \A i \in A : N(i) \notin cleaners /\ vnodes'[i][1] = N(i)
  BY <1>1, <1>2
<1>5. \A v \in Range(vnodes) : v[1] \in NodesOf(Range(vnodes) \cup stores)
  BY InRange
<1>6. ASSUME NEW v \in Range(vnodes), v \in NewVNodes' PROVE FALSE
  <2>1. PICK i \in A : v = vnodes'[i]
    BY <1>1, <1>6 DEF NewVNodes
  <2> QED BY <1>1, <1>4, <1>5, <2>1
<1>7. ASSUME NEW v \in Range(vnodes'), v \notin NewVNodes' PROVE v \in Range(vnodes)
  <2>1. PICK j \in Positions : v = vnodes'[j]
    BY <1>1 DEF Range
  <2>2. j \notin A
    BY <1>1, <1>7, <2>1 DEF NewVNodes
  <2> QED BY <1>1, <2>1, <2>2 DEF Range
<1>8. OldVNodes' \subseteq Range(vnodes)
  BY <1>1 DEF OldVNodes, Range
<1>9. ASSUME NEW v \in Range(vnodes) PROVE v \in Range(vnodes') \/ v \in OldVNodes'
  <2>1. PICK j \in Positions : v = vnodes[j]
    BY <1>1 DEF Range
  <2> QED BY <1>1, <2>1 DEF Range, OldVNodes
<1>10. Kept' \cup OldVNodes' = Range(vnodes)
  BY <1>6, <1>7, <1>8, <1>9 DEF Kept
<1>11. NodesOf(Range(vnodes') \cup stores) \cap cleaners = {}
  <2> SUFFICES ASSUME NEW v \in Range(vnodes') \cup stores PROVE v[1] \notin cleaners
    BY InRange
  <2>1. \A w \in Range(vnodes) \cup stores : w[1] \notin cleaners
    BY InRange DEF Exact, StoresExact
  <2>2. CASE v \in Range(vnodes')
    <3>1. PICK j \in Positions : v = vnodes'[j]
      BY <1>1, <2>2 DEF Range
    <3>2. CASE j \in A
      BY <1>4, <3>1, <3>2
    <3>3. CASE j \notin A
      <4>1. v = vnodes[j] /\ vnodes[j] \in Range(vnodes)
        BY <1>1, <3>1, <3>3 DEF Range
      <4> QED BY <2>1, <4>1
    <3> QED BY <3>2, <3>3
  <2> QED BY <2>1, <2>2
<1>12. ServersExact'
  BY <1>3, <1>10 DEF Exact, ServersExact, Serving
<1>13. StoresExact'
  BY <1>3, <1>10, <1>11 DEF Exact, StoresExact
<1> QED BY <1>12, <1>13 DEF Exact

\* The stores of an old VNode go, and no others.
LEMMA CleanupExact ==
  ASSUME Objects, Apart, HeadKept, Exact, NEW i \in DOMAIN targets, Cleanup(i), failures' = failures
  PROVE  Exact'
<1> DEFINE v == targets[i]
<1>1. /\ pc = "clean"
      /\ store_ready' = store_ready \ {v}
      /\ cleaners' = cleaners \cup {v[1]}
      /\ targets' = [j \in DOMAIN targets \ {i} |-> targets[j]]
      /\ pc' = IF DOMAIN targets = {i} THEN "idle" ELSE "clean"
      /\ UNCHANGED <<vnodes, api, servers, new_api>>
  BY DEF Cleanup
<1>2. v \in OldVNodes /\ v \in store_ready /\ v \in stores
  <2>1. v \in OldVNodes
    BY DEF OldVNodes, Range
  <2> QED BY <1>1, <2>1 DEF Exact, StoresExact
<1>3. stores' \in {stores \ {v}, {w \in stores : w[1] # v[1]}}
  <2>1. failures \in Nat
    BY DEF Objects
  <2> QED BY <1>2, <2>1 DEF Cleanup
<1>4. \A j \in DOMAIN targets : targets[j] = v => j = i
  BY <1>1 DEF Apart
<1>5. OldVNodes' = OldVNodes \ {v}
  <2>1. ASSUME NEW w \in OldVNodes' PROVE w \in OldVNodes \ {v}
    <3>1. PICK j \in DOMAIN targets \ {i} : w = targets[j]
      BY <1>1, <2>1 DEF OldVNodes, Range
    <3> QED BY <1>4, <3>1 DEF OldVNodes, Range
  <2>2. ASSUME NEW w \in OldVNodes \ {v} PROVE w \in OldVNodes'
    <3>1. PICK j \in DOMAIN targets : w = targets[j]
      BY <2>2 DEF OldVNodes, Range
    <3>2. j # i
      BY <2>2, <3>1
    <3> QED BY <1>1, <3>1, <3>2 DEF OldVNodes, Range
  <2> QED BY <2>1, <2>2
<1>6. DOMAIN targets = {i} => OldVNodes' = {}
  BY <1>1 DEF OldVNodes, Range
<1> HIDE DEF v
<1>7. v[1] \notin NodesOf(Range(vnodes))
  <2>1. v[1] \in NodesOf(OldVNodes)
    BY <1>2, InRange
  <2> QED BY <1>1, <2>1 DEF Apart
<1>8. v \notin Range(vnodes)
  BY <1>7, InRange
<1>9. \A w \in stores : w[1] = v[1] => w = v
  BY <1>2 DEF Apart
<1>10. stores' = stores \ {v}
  BY <1>3, <1>9
<1>11. stores' = Range(vnodes) \cup OldVNodes'
  BY <1>1, <1>5, <1>8, <1>10 DEF Exact, StoresExact
<1>12. NodesOf(Range(vnodes) \cup stores') \cap cleaners' = {}
  <2>1. \A w \in Range(vnodes) \cup stores' : w[1] # v[1]
    BY <1>7, <1>9, <1>10, InRange
  <2>2. \A w \in Range(vnodes) \cup stores : w[1] \notin cleaners
    BY InRange DEF Exact, StoresExact
  <2>3. ASSUME NEW n \in NodesOf(Range(vnodes) \cup stores'), n \in cleaners' PROVE FALSE
    <3>1. PICK w \in Range(vnodes) \cup stores' : w[1] = n
      BY <2>3, InRange
    <3> QED BY <1>1, <1>10, <2>1, <2>2, <2>3, <3>1
  <2> QED BY <2>3
<1>13. ServersExact'
  <2>1. api = new_api
    BY <1>1 DEF HeadKept
  <2> QED BY <1>1, <2>1 DEF Exact, ServersExact
<1>14. Range(vnodes) \subseteq store_ready' /\ OldVNodes' \subseteq store_ready'
  BY <1>1, <1>5, <1>8 DEF Exact, StoresExact
<1>15. StoresExact'
  BY <1>1, <1>6, <1>11, <1>12, <1>14 DEF StoresExact
<1> QED BY <1>13, <1>15 DEF Exact

\* One step.
LEMMA StepExact ==
  ASSUME Objects, Servers, Apart, HeadKept, Exact, [Next]_vars,
         failures = 0, failures' = 0, ~hurried'
  PROVE  Exact'
<1>0. /\ 1 \in Positions
      /\ old_first[1] = api[1] => <<old_first[1], api[2]>> = api
      /\ NewVNodes \subseteq Range(vnodes)
  BY SwitchAssumption DEF Positions, Objects, Servers, Addresses, NewVNodes, Range
<1>1. ASSUME NEW single \in BOOLEAN, SomeReplacement(single) PROVE Exact'
  <2>1. PICK olds \in SUBSET NodesOf(Range(vnodes)) :
           \E replace \in [olds -> Nodes] : Begin(single, replace)
    BY <1>1, Zenon DEF SomeReplacement
  <2> QED BY <2>1, BeginExact
<1>2. CASE StartRay
  <2>1. /\ pc = "ray" /\ pc' = "stores"
        /\ UNCHANGED <<vnodes, api, servers, stores, store_ready, cleaners, targets, new_api>>
    BY <1>2 DEF StartRay, switchVars
  <2> QED BY <2>1 DEF Exact, ServersExact, StoresExact, Kept, NewVNodes, OldVNodes
<1>3. CASE StartStores
  <2>1. /\ pc = "stores" /\ pc' = "api" /\ stores' = stores \cup NewVNodes
        /\ UNCHANGED <<vnodes, api, servers, store_ready, cleaners, targets, new_api>>
    BY <1>3 DEF StartStores, switchVars
  <2>2. stores' = Range(vnodes) \cup OldVNodes
    BY <1>0, <2>1 DEF Exact, StoresExact, Kept
  <2>3. Range(vnodes) \cup stores' = Range(vnodes) \cup stores
    BY <1>0, <2>1
  <2>4. UNCHANGED <<OldVNodes, NewVNodes, Kept>>
    BY <2>1 DEF OldVNodes, NewVNodes, Kept
  <2>5. StoresExact'
    BY <2>1, <2>2, <2>3, <2>4 DEF Exact, StoresExact
  <2> QED BY <2>1, <2>4, <2>5 DEF Exact, ServersExact
<1>4. CASE RaisePortless
  <2>1. pc \in {"api", "wait"} /\ Portless
    BY <1>4 DEF RaisePortless
  <2> QED BY <2>1, PortsPassedOn
<1>5. CASE Raise
  BY <1>5 DEF Raise
<1>6. CASE StartServer
  <2>1. /\ pc = "api" /\ pc' = "wait"
        /\ new_api' = <<vnodes[1][1], NewPort(vnodes[1][1])>>
        /\ servers' = [a \in DOMAIN servers \cup {new_api'} |->
                         IF a \in DOMAIN servers THEN servers[a] ELSE Range(vnodes)]
        /\ store_ready \subseteq store_ready'
        /\ UNCHANGED <<vnodes, api, stores, cleaners, targets>>
    BY <1>6 DEF StartServer
  <2>2. new_api' # api
    BY <1>0, <2>1, NewAddress
  <2>3. DOMAIN servers = {api}
    BY <2>1 DEF Exact, ServersExact
  <2>4. ServersExact'
    BY <2>1, <2>2, <2>3 DEF ServersExact
  <2>5. UNCHANGED <<OldVNodes, NewVNodes, Kept>>
    BY <2>1 DEF OldVNodes, NewVNodes, Kept
  <2>6. StoresExact'
    BY <2>1, <2>5 DEF Exact, StoresExact
  <2> QED BY <2>4, <2>6 DEF Exact
<1>7. CASE TurnOff
  <2>1. /\ pc = "wait" /\ pc' = "off" /\ store_ready' = store_ready \cup NewVNodes
        /\ UNCHANGED <<vnodes, api, servers, stores, cleaners, targets, new_api>>
    BY <1>7 DEF TurnOff, switchVars
  <2>2. UNCHANGED OldVNodes /\ Range(vnodes) \subseteq store_ready'
    BY <2>1 DEF Exact, StoresExact, Kept, OldVNodes
  <2> QED BY <2>1, <2>2 DEF Exact, ServersExact, StoresExact
<1>8. CASE StopOld
  <2>1. /\ pc = "off" /\ pc' = "swap"
        /\ servers' = [a \in DOMAIN servers \ {<<old_first[1], api[2]>>} |-> servers[a]]
        /\ UNCHANGED <<vnodes, api, stores, store_ready, cleaners, targets, new_api>>
    BY <1>8 DEF StopOld, Restrict, switchVars
  <2>2. <<old_first[1], api[2]>> = api /\ new_api # api
    BY <1>0, <2>1 DEF HeadKept, Unspoilt
  <2>3. DOMAIN servers = {api, new_api} /\ servers[new_api] = Range(vnodes)
    BY <2>1 DEF Exact, ServersExact
  <2>4. servers' = [b \in {new_api} |-> Range(vnodes)]
    BY <2>1, <2>2, <2>3
  <2>5. ServersExact'
    BY <2>1, <2>4 DEF ServersExact, Serving
  <2>6. StoresExact'
    BY <2>1 DEF Exact, StoresExact, OldVNodes
  <2> QED BY <2>5, <2>6 DEF Exact
<1>9. CASE TurnOn
  <2>1. /\ pc = "swap" /\ pc' = "clean" /\ api' = new_api
        /\ UNCHANGED <<vnodes, servers, stores, store_ready, cleaners, targets, new_api>>
    BY <1>9 DEF TurnOn, switchVars
  <2> QED BY <2>1 DEF Exact, ServersExact, StoresExact, OldVNodes, Serving
<1>10. ASSUME NEW i \in DOMAIN targets, Cleanup(i) PROVE Exact'
  BY <1>10, CleanupExact
<1>11. ASSUME NEW n \in Nodes, CleanupWorker(n) PROVE Exact'
  <2>1. /\ n \in cleaners /\ cleaners' \subseteq cleaners
        /\ stores' \in {stores, {w \in stores : w[1] # n}}
        /\ UNCHANGED <<vnodes, api, servers, store_ready, pc, targets, new_api>>
    BY <1>11 DEF CleanupWorker, switchVars
  <2>2. \A w \in stores : w[1] # n
    BY <2>1, InRange DEF Exact, StoresExact
  <2>3. stores' = stores
    BY <2>1, <2>2
  <2> QED BY <2>1, <2>3 DEF Exact, ServersExact, StoresExact, Kept, NewVNodes, OldVNodes
<1>12. CASE UNCHANGED vars
  BY <1>12 DEF vars, switchVars, Exact, ServersExact, StoresExact, Kept, NewVNodes, OldVNodes
<1> QED BY <1>1, <1>2, <1>3, <1>4, <1>5, <1>6, <1>7, <1>8, <1>9, <1>10, <1>11, <1>12, Zenon
        DEF Next, SwitchStep, Waiting

\* A failure is not forgotten.
LEMMA StepFailures == Objects /\ [Next]_vars /\ failures' = 0 => failures = 0
<1> SUFFICES ASSUME Objects, [Next]_vars, failures' = 0 PROVE failures = 0
  OBVIOUS
<1>0. failures \in Nat
  BY DEF Objects
<1>1. failures' \in {failures, failures + 1}
  BY DEF Next, SwitchStep, Waiting, SomeReplacement, Begin, StartRay, StartStores, RaisePortless,
         Raise, StartServer, TurnOff, StopOld, TurnOn, Cleanup, CleanupWorker, vars
<1> QED BY <1>0, <1>1

\* The initial pipeline has nothing else.
LEMMA InitExact == Init => Exact
<1> SUFFICES ASSUME Init PROVE Exact
  OBVIOUS
<1>1. /\ pc = "idle" /\ servers = Serving(api, vnodes) /\ stores = Range(vnodes)
      /\ store_ready = stores /\ cleaners = {}
  BY DEF Init
<1> QED BY <1>1 DEF Exact, ServersExact, StoresExact

\* The invariant behind the next theorem.
LEMMA ExactHolds == ASSUME OnDifferentNodes PROVE Spec => []ExactInv
<1>1. Init => ExactInv
  BY InitExact DEF ExactInv
<1>2. SwitchTypes /\ BackedInv /\ HeadKept /\ ExactInv /\ [Next]_vars => ExactInv'
  BY StepExact, StepHistory, StepFailures, Zenon DEF BackedInv, SwitchTypes, ExactInv
<1> QED BY <1>1, <1>2, TypesHold, BackedHolds, HeadHolds, PTL DEF Spec

\* NothingLeftBehind, for every pipeline over different nodes: after any number
\* of switches there is one API server, of the VNodes in the list, and there are
\* no stores but theirs, as long as nothing failed and no node came back early.
THEOREM SwitchesLeaveNothing == ASSUME OnDifferentNodes PROVE Spec => []NothingLeftBehind
<1>1. ExactInv => NothingLeftBehind
  <2> SUFFICES ASSUME ExactInv, pc = "idle", failures = 0, ~hurried
               PROVE  servers = Serving(api, vnodes) /\ stores = Range(vnodes)
    BY Zenon DEF NothingLeftBehind
  <2>1. Exact
    BY Zenon DEF ExactInv
  <2> QED BY <2>1 DEF Exact, ServersExact, StoresExact
<1> QED BY <1>1, ExactHolds, PTL
=============================================================================
