--------------------------- MODULE PipelineSwitch ---------------------------
(***************************************************************************)
(* Replacing nodes of one pipeline: Pipeline.switch_nodes and switch_node  *)
(* (GlobalServer/VNode.py), with the VNode operations they call and the    *)
(* daemon threads assert_tensor_store_stopped leaves behind.               *)
(*                                                                         *)
(* A VNode object is <<node_ip, serial>>; its tensor store processes run   *)
(* on that node.  An API server is <<host, port>>.  Switches of one        *)
(* pipeline follow each other; any of them may fail half way and leave     *)
(* the Pipeline object as it then is.                                      *)
(***************************************************************************)
EXTENDS Integers, Sequences, FiniteSets, Functions

CONSTANTS
  Nodes,         \* node IPs
  InitialNodes,  \* the node of each VNode of the pipeline, by pipeline rank
  BasePort,      \* api_server_base_port
  MaxSwitches,   \* bound: switches
  MaxFailures    \* bound: switches an exception ends

ASSUME SwitchAssumption ==
  /\ IsFiniteSet(Nodes)
  /\ InitialNodes \in Seq(Nodes) /\ InitialNodes # << >>
  /\ BasePort \in Nat
  /\ MaxSwitches \in Nat
  /\ MaxFailures \in Nat

VARIABLES
  vnodes,      \* Pipeline.vnodes
  api,         \* Pipeline.api_server_host and api_server_port
  is_ready,    \* Pipeline.is_ready
  servers,     \* live API servers: the VNodes each was started for, by address
  stores,      \* VNodes whose tensor store processes are alive
  has_port,    \* VNodes whose tensor_store_port is set
  store_ready, \* VNodes whose is_tensor_store_ready is True
  cleaners,    \* nodes with a running _cleanup_worker thread
  pc,          \* where the switch is
  one_node,    \* it is switch_node, not switch_nodes
  targets,     \* its VNodes to be replaced, as a function of their positions
  old_first,   \* its old_first_vnode
  new_api,     \* its new_api_server_host and new_api_server_port
  hurried,     \* history: a node came back before its cleanup thread had ended
  taken,       \* history: a new API server found its port taken
  switches, failures \* counters behind the bounds

switchVars == <<one_node, targets, old_first, new_api>>
vars == <<vnodes, api, is_ready, servers, stores, has_port, store_ready, cleaners,
          pc, switchVars, hurried, taken, switches, failures>>

NodesOf(V) == {v[1] : v \in V}
NewVNodes == {vnodes[i] : i \in DOMAIN targets}
OldVNodes == Range(targets)

\* One API server at address a, for the VNodes of the list l.
Serving(a, l) == [b \in {a} |-> Range(l)]

\* The state initialize_pipeline leaves: every service checked and ready.
Init ==
  /\ vnodes = [i \in 1..Len(InitialNodes) |-> <<InitialNodes[i], i>>]
  /\ api = <<InitialNodes[1], BasePort>>
  /\ is_ready = TRUE
  /\ servers = Serving(api, vnodes)
  /\ stores = Range(vnodes)
  /\ has_port = stores
  /\ store_ready = stores
  /\ cleaners = {}
  /\ pc = "idle"
  /\ one_node = FALSE
  /\ targets = << >>
  /\ old_first = vnodes[1]
  /\ new_api = api
  /\ hurried = FALSE /\ taken = FALSE
  /\ switches = 0
  /\ failures = 0

\* The position of the first VNode on node n.
Position(n) == CHOOSE i \in DOMAIN vnodes :
                  vnodes[i][1] = n /\ \A j \in DOMAIN vnodes : vnodes[j][1] = n => i <= j
Serial(k) == Len(InitialNodes) * (switches + 1) + k

\* Find the targets, save the old head, put new VNode objects in place.
\* replace maps the old node IPs to the new ones: nodes outside the pipeline
\* without tensor stores, fresh or used before.
Begin(single, replace) ==
  LET olds == DOMAIN replace
      at == {Position(n) : n \in olds} IN
  /\ pc = "idle" /\ switches < MaxSwitches
  /\ olds # {} /\ (single => Cardinality(olds) = 1)
  /\ \A m, n \in olds : replace[m] = replace[n] => m = n
  /\ \A n \in olds : replace[n] \notin NodesOf(Range(vnodes) \cup stores)
  /\ targets' = [i \in at |-> vnodes[i]]
  /\ vnodes' = [i \in DOMAIN vnodes |->
                  IF i \in at THEN <<replace[vnodes[i][1]], Serial(i)>> ELSE vnodes[i]]
  /\ old_first' = vnodes[1]
  /\ one_node' = single
  /\ hurried' = (hurried \/ \E n \in olds : replace[n] \in cleaners)
  /\ switches' = switches + 1
  /\ pc' = "ray"
  /\ UNCHANGED <<api, is_ready, servers, stores, has_port, store_ready, cleaners,
                 new_api, taken, failures>>

\* start_ray_cluster, and the wait for the new nodes' GPUs.
StartRay ==
  /\ pc = "ray"
  /\ pc' = "stores"
  /\ UNCHANGED <<vnodes, api, is_ready, servers, stores, has_port, store_ready, cleaners,
                 switchVars, hurried, taken, switches, failures>>

\* The new VNodes whose predecessor has a tensor_store_port to pass on.
PortPassedOn == {vnodes[i] : i \in {j \in DOMAIN targets : targets[j] \in has_port}}

\* start_tensor_store on the new VNodes, with the ports of the old ones.
StartStores ==
  /\ pc = "stores"
  /\ stores' = stores \cup NewVNodes
  /\ has_port' = has_port \cup PortPassedOn
  /\ pc' = "api"
  /\ UNCHANGED <<vnodes, api, is_ready, servers, store_ready, cleaners, switchVars,
                 hurried, taken, switches, failures>>

\* An exception: nodes do not join Ray, or starting the tensor stores raises
\* for some of the new VNodes, all of which have noted their port by then.
\* Nothing is undone.
Raise ==
  /\ pc \in {"ray", "stores"}
  /\ failures < MaxFailures
  /\ failures' = failures + 1
  /\ \/ pc = "ray" /\ UNCHANGED <<stores, has_port>>
     \/ /\ pc = "stores"
        /\ \E S \in SUBSET NewVNodes : S # NewVNodes /\ stores' = stores \cup S
        /\ has_port' = has_port \cup PortPassedOn
  /\ pc' = "idle"
  /\ UNCHANGED <<vnodes, api, is_ready, servers, store_ready, cleaners, switchVars,
                 hurried, taken, switches>>

\* check_tensor_store_status of a VNode that took over no port raises; the
\* VNodes polled before it may have been seen ready.
Portless == NewVNodes \ has_port # {}
RaisePortless ==
  /\ pc = IF one_node THEN "api" ELSE "wait"
  /\ Portless
  /\ \E S \in SUBSET (NewVNodes \cap has_port \cap stores) :
        store_ready' = store_ready \cup S
  /\ pc' = "idle"
  /\ UNCHANGED <<vnodes, api, is_ready, servers, stores, has_port, cleaners,
                 switchVars, hurried, taken, switches, failures>>

\* check_tensor_store_status answers READY for every new VNode.
StoresAnswer == ~Portless /\ NewVNodes \subseteq stores

\* check_api_server_status: /health answers once the engine has its weights,
\* which the tensor stores of all its VNodes hold.
ServerAnswers == new_api \in DOMAIN servers /\ servers[new_api] \subseteq stores

\* Mutants: the port is kept although the head node is the same; two ports
\* are taken at a time.
NewPortKept(host) == api[2]
NewPortByTwo(host) == IF host = api[1] THEN api[2] + 2 ELSE api[2]
\* The old port, or the next one if the head node stays.
NewPort(host) == IF host = api[1] THEN api[2] + 1 ELSE api[2]

\* start_api_server on vnodes[0]; switch_node waits for its store first.  A
\* server whose port is taken exits.
StartServer ==
  /\ pc = "api"
  /\ one_node => StoresAnswer
  /\ new_api' = <<vnodes[1][1], NewPort(vnodes[1][1])>>
  /\ servers' = [a \in DOMAIN servers \cup {new_api'} |->
                   IF a \in DOMAIN servers THEN servers[a] ELSE Range(vnodes)]
  /\ taken' = (taken \/ new_api' \in DOMAIN servers)
  /\ store_ready' = IF one_node THEN store_ready \cup NewVNodes ELSE store_ready
  /\ pc' = "wait"
  /\ UNCHANGED <<vnodes, api, is_ready, stores, has_port, cleaners,
                 one_node, targets, old_first, hurried, switches, failures>>

\* Mutant: only the server process is waited for.
TurnOffEarly ==
  /\ pc = "wait"
  /\ new_api \in DOMAIN servers
  /\ ~Portless
  /\ store_ready' = store_ready \cup NewVNodes
  /\ is_ready' = FALSE
  /\ pc' = "off"
  /\ UNCHANGED <<vnodes, api, servers, stores, has_port, cleaners, switchVars,
                 hurried, taken, switches, failures>>
\* All stores and the new server have answered and the pipeline goes off.  The
\* last answer and is_ready = False are one step: what they read is the new
\* services, which only a cleanup thread (hurried) could stop in between.
TurnOff ==
  /\ pc = "wait"
  /\ StoresAnswer
  /\ ServerAnswers
  /\ store_ready' = store_ready \cup NewVNodes
  /\ is_ready' = FALSE
  /\ pc' = "off"
  /\ UNCHANGED <<vnodes, api, servers, stores, has_port, cleaners, switchVars,
                 hurried, taken, switches, failures>>

\* Mutant: the old server is left running.
StopOldForgotten ==
  /\ pc = "off"
  /\ pc' = "swap"
  /\ UNCHANGED <<vnodes, api, is_ready, servers, stores, has_port, store_ready, cleaners,
                 switchVars, hurried, taken, switches, failures>>
\* old_first_vnode.stop_api_server(old_api_server_port).  Its errors are only
\* logged: of a node that cannot be reached the server is left alone.
StopOld ==
  /\ pc = "off"
  /\ \/ /\ servers' = Restrict(servers, DOMAIN servers \ {<<old_first[1], api[2]>>})
        /\ UNCHANGED failures
     \/ failures < MaxFailures /\ failures' = failures + 1 /\ UNCHANGED servers
  /\ pc' = "swap"
  /\ UNCHANGED <<vnodes, api, is_ready, stores, has_port, store_ready, cleaners,
                 switchVars, hurried, taken, switches>>

\* Mutant: is_ready is not set again.
TurnOnForgotten ==
  /\ pc = "swap"
  /\ api' = new_api
  /\ pc' = "clean"
  /\ UNCHANGED <<vnodes, is_ready, servers, stores, has_port, store_ready, cleaners,
                 switchVars, hurried, taken, switches, failures>>

\* The new address, then on again; the downtime ends here.
TurnOn ==
  /\ pc = "swap"
  /\ api' = new_api
  /\ is_ready' = TRUE
  /\ pc' = "clean"
  /\ UNCHANGED <<vnodes, servers, stores, has_port, store_ready, cleaners, switchVars,
                 hurried, taken, switches, failures>>

\* stop_tensor_store on an old VNode: nothing unless it was seen ready; its
\* own processes by SHUTDOWN, or, when one does not answer, every tensor
\* store of its node, or nothing if the node cannot be reached either.  Then
\* assert_tensor_store_stopped starts its thread.
Cleanup(i) ==
  LET v == targets[i] IN
  /\ pc = "clean"
  /\ \/ v \notin store_ready /\ UNCHANGED <<stores, failures>>
     \/ /\ v \in store_ready
        /\ stores' \in {stores \ {v}, {w \in stores : w[1] # v[1]}}
        /\ UNCHANGED failures
     \/ /\ v \in store_ready /\ failures < MaxFailures
        /\ failures' = failures + 1
        /\ UNCHANGED stores
  /\ store_ready' = store_ready \ {v}
  /\ cleaners' = cleaners \cup {v[1]}
  /\ targets' = [j \in DOMAIN targets \ {i} |-> targets[j]]
  /\ pc' = IF DOMAIN targets = {i} THEN "idle" ELSE "clean"
  /\ UNCHANGED <<vnodes, api, is_ready, servers, has_port, one_node, old_first, new_api,
                 hurried, taken, switches>>

\* One cycle of a cleanup thread: it may kill every tensor store of the node,
\* and it ends when it finds none, when ssh fails, or after its last attempt.
CleanupWorker(n) ==
  /\ n \in cleaners
  /\ stores' \in {stores, {w \in stores : w[1] # n}}
  /\ cleaners' \in {cleaners, cleaners \ {n}}
  /\ UNCHANGED <<vnodes, api, is_ready, servers, has_port, store_ready, pc, switchVars,
                 hurried, taken, switches, failures>>

\* No switch is asked for, or a polling loop finds something not ready yet.
\* The loops have no deadline.
Waiting == pc \in {"idle", "api", "wait"} /\ UNCHANGED vars

SwitchStep == \/ StartRay \/ StartStores \/ RaisePortless \/ StartServer
              \/ TurnOff \/ StopOld \/ TurnOn
              \/ \E i \in DOMAIN targets : Cleanup(i)

\* A switch of one or two nodes of the pipeline.
SomeReplacement(single) ==
  \E olds \in SUBSET NodesOf(Range(vnodes)) :
     /\ Cardinality(olds) \in 1..2
     /\ \E replace \in [olds -> Nodes] : Begin(single, replace)

Next ==
  \/ \E single \in BOOLEAN : SomeReplacement(single)
  \/ SwitchStep
  \/ Raise
  \/ \E n \in Nodes : CleanupWorker(n)
  \/ Waiting

Spec == Init /\ [][Next]_vars

\* A switch that has begun goes on: its waits end as soon as what they poll
\* for is there.  The failures are the bounded ones.
FairSpec == Spec /\ WF_vars(SwitchStep)
-----------------------------------------------------------------------------
(* Properties.                                                             *)

VNodeObjects == Nodes \X Nat

\* Types of the variables; a switch moves the API server at most one port up.
TypeOK ==
  /\ vnodes \in [1..Len(InitialNodes) -> VNodeObjects]
  /\ {api, new_api} \cup DOMAIN servers \subseteq Nodes \X (BasePort..(BasePort + switches))
  /\ \A a \in DOMAIN servers : servers[a] \subseteq VNodeObjects
  /\ is_ready \in BOOLEAN /\ one_node \in BOOLEAN /\ hurried \in BOOLEAN
  /\ taken \in BOOLEAN
  /\ stores \subseteq VNodeObjects /\ has_port \subseteq VNodeObjects
  /\ store_ready \subseteq VNodeObjects
  /\ cleaners \subseteq Nodes
  /\ pc \in {"idle", "ray", "stores", "api", "wait", "off", "swap", "clean"}
  /\ DOMAIN targets \subseteq 1..Len(InitialNodes)
  /\ OldVNodes \subseteq VNodeObjects /\ old_first \in VNodeObjects
  /\ switches \in 0..MaxSwitches /\ failures \in 0..MaxFailures

\* While the pipeline is offered to the balancer, every VNode behind the API
\* server at its address has its tensor stores: neither the replacement, nor
\* the stopping of the old stores, nor a cleanup thread that runs on takes one
\* away; unless a node came back before its cleanup thread had ended, or a
\* server left by a failed switch had the new one's port and answered for it.
StoresBehindServer ==
  is_ready /\ api \in DOMAIN servers => servers[api] \subseteq stores \/ hurried \/ taken

\* A switch that has ended leaves one API server, the one of the VNodes now in
\* the list, and no store of a VNode it took out: GPU memory is given back on
\* the same node and on the old ones.  (As long as no operation has failed.)
NothingLeftBehind ==
  pc = "idle" /\ failures = 0 /\ ~hurried
    => servers = Serving(api, vnodes) /\ stores = Range(vnodes)

\* Every switch ends, with the pipeline ready, although its waits have no
\* deadline; unless an operation fails or a cleanup thread meets new stores.
SwitchEnds == (pc # "idle") ~> (pc = "idle" /\ is_ready) \/ failures > 0 \/ hurried

\* A pipeline that is ready without its server has seen a failed operation and
\* a second switch: neither a failure at any point of its first switch nor any
\* number of switches without a failure takes the server away.
DeadServerNeedsRetry ==
  is_ready /\ api \notin DOMAIN servers => failures > 0 /\ switches > 1

\* "Now we need to shut down the existing API server" (VNode.py:1044): the
\* switchover never shuts down the server it has just started.
NewServerSurvives == pc \in {"off", "swap"} => new_api \in DOMAIN servers
=============================================================================
