------------------------- MODULE TensorStoreProofs -------------------------
(***************************************************************************)
(* The stores of a node, for any number of VNodes, ranks, tensors and      *)
(* failures.  Loading and Listening hold on every node.  Succession is     *)
(* about a node whose VNodes all start at local rank 0, so that they       *)
(* follow each other; on other nodes the poll asks the wrong ports, which  *)
(* the run ts_ports shows.                                                 *)
(***************************************************************************)
EXTENDS TensorStore, TLAPS

\* Where the tensors of a process are while its main thread goes on.
Loading ==
  \A p \in Procs :
    /\ main[p] \in {"none", "started", "dead"} => TENSOR_DICT[p] = {} /\ load_errors[p] = {}
    /\ main[p] = "loading" => TENSOR_DICT[p] \cup todo[p] \cup load_errors[p] = Required
    /\ main[p] \in {"caching", "serving"} => TENSOR_DICT[p] = Whole \/ load_errors[p] # {}
    /\ p \in TENSOR_INITIALIZE_COMPLETE => main[p] = "serving"

Alive == {"loading", "caching", "serving"}

\* A status port is held by a process that lives, for which it is the own one
\* and which nobody has shut down.
Listening ==
  /\ \A n \in Ports : status_port[n] # NoProc =>
        /\ status_port[n][2] = n
        /\ main[status_port[n]] \in Alive
        /\ status_port[n] \notin SHUTDOWN_EVENT
  /\ \A p \in SHUTDOWN_EVENT : main[p] \in Alive

\* A VNode that has not been started has no processes.
Unstarted == \A p \in Procs : vnode[p[1]] = "new" => main[p] = "none"

\* What holds of the stores of every node.
StoreInv == TypeOK /\ Loading /\ Listening /\ Unstarted

\* The VNodes of the node all start at local rank 0.
FirstRanks == \A v \in VNodes : start_local_rank[v] = 0

\* At most one VNode is in use; before its start nobody has answered for it,
\* and a VNode that is taken for ready is up or being stopped.
OneInUse ==
  /\ \A v, w \in VNodes : v # w => vnode[v] \in {"new", "stopped"} \/ vnode[w] \in {"new", "stopped"}
  /\ \A v \in VNodes : vnode[v] = "new" => seen[v] = {} /\ polled[v] = 0
  /\ \A v \in is_tensor_store_ready : vnode[v] \in {"up", "stopping"}

\* The status ports belong to the VNode in use.
PortsInUse ==
  \A n \in Ports : status_port[n] # NoProc =>
     LET v == status_port[n][1]
     IN  vnode[v] \in {"waiting", "up"} \/ (vnode[v] = "stopping" /\ n \in unsent[v])

\* The answers of a poll are those of the VNode's first stores, and all of
\* them when it ends.
OwnSeen ==
  /\ \A v \in VNodes :
       /\ vnode[v] = "waiting" => seen[v] = {v} \X (0..(polled[v] - 1))
       /\ vnode[v] \in {"up", "stopping"} => seen[v] = Own(v)
  /\ \A p \in Procs : p \in seen[p[1]] \/ vnode[p[1]] \in {"up", "stopping", "stopped"}
                        => main[p] \in {"serving", "dead"}

\* The stores a stop has still to reach listen on their ports.
Reached(p) == \/ vnode[p[1]] = "waiting" /\ p \in seen[p[1]]
              \/ vnode[p[1]] = "up"
              \/ vnode[p[1]] = "stopping" /\ p[2] \in unsent[p[1]]
Reachable ==
  refused = {} /\ \A p \in Procs : Reached(p) => status_port[p[2]] = p

Succession ==
  /\ OneInUse
  /\ leaked = {} => PortsInUse /\ OwnSeen
  /\ leaked = {} /\ failures = 0 => Reachable

-----------------------------------------------------------------------------
(* Types.                                                                  *)

\* A process is a VNode and one of its local ranks, each of which is a port.
LEMMA ProcShape ==
  ASSUME NEW p \in Procs
  PROVE  /\ p[1] \in VNodes /\ p[2] \in Ranks(p[1]) /\ p = <<p[1], p[2]>>
         /\ p[2] \in Ports /\ p # NoProc
<1>1. PICK v \in VNodes : p \in Own(v)
  BY DEF Procs
<1>2. p[1] = v /\ p[2] \in Ranks(v) /\ p = <<p[1], p[2]>>
  BY <1>1 DEF Own
<1>3. p[2] \in Nat
  BY <1>2, StoreAssumption DEF Ranks
<1>4. p \in VNodes \X Nat
  BY <1>2, <1>3
<1> QED BY <1>2, <1>4, StoreAssumption DEF Ports

\* Each local rank of a VNode has a process, and the polled ports are ports.
LEMMA RankProc ==
  ASSUME NEW v \in VNodes
  PROVE  /\ \A r \in Ranks(v) : <<v, r>> \in Own(v) /\ <<v, r>> \in Procs /\ r \in Ports
         /\ Own(v) \subseteq Procs
         /\ Ranks(v) \subseteq Nat
         /\ PollPorts(v) \subseteq Ports
<1>1. Own(v) \subseteq Procs
  BY DEF Procs
<1>2. \A r \in Ranks(v) : <<v, r>> \in Own(v)
  BY DEF Own
<1>3. Ranks(v) \subseteq Ports /\ PollPorts(v) \subseteq Ports
  <2>1. ASSUME NEW r \in Ranks(v) PROVE r \in Ports
    BY DEF Ports
  <2>2. ASSUME NEW r \in PollPorts(v) PROVE r \in Ports
    BY <2>2 DEF Ports
  <2> QED BY <2>1, <2>2
<1>4. Ranks(v) \subseteq Nat
  BY StoreAssumption DEF Ranks
<1> QED BY <1>1, <1>2, <1>3, <1>4

LEMMA NoProcIsNone == NoProc \notin Procs
  BY ProcShape

ProcTypes ==
  /\ main \in [Procs -> {"none", "started", "loading", "caching", "serving", "dead"}]
  /\ todo \in [Procs -> SUBSET Required]
  /\ TENSOR_DICT \in [Procs -> SUBSET (Required \cup {Fused})]
  /\ load_errors \in [Procs -> SUBSET Required]
  /\ TENSOR_INITIALIZE_COMPLETE \subseteq Procs /\ SHUTDOWN_EVENT \subseteq Procs
  /\ status_port \in PortMaps /\ manager_port \in PortMaps
  /\ deaf \subseteq Procs

VNodeTypes ==
  /\ vnode \in [VNodes -> {"new", "waiting", "up", "stopping", "stopped"}]
  /\ is_tensor_store_ready \subseteq VNodes
  /\ polled \in [VNodes -> Nat] /\ \A v \in VNodes : polled[v] < tp_size[v]
  /\ seen \in [VNodes -> SUBSET Procs]
  /\ unsent \in [VNodes -> SUBSET Nat]
  /\ refused \subseteq VNodes /\ leaked \subseteq VNodes

\* The type invariant is that of the processes, that of the VNodes and that of
\* the counter.
LEMMA TypeParts == TypeOK <=> ProcTypes /\ VNodeTypes /\ failures \in 0..MaxFailures
  BY DEF TypeOK, ProcTypes, VNodeTypes

\* The initial values have their types.
LEMMA InitTypes == Init => TypeOK
<1> SUFFICES ASSUME Init PROVE TypeOK
  OBVIOUS
<1>1. ProcTypes
  BY DEF Init, ProcTypes, PortMaps
<1>2. VNodeTypes
  BY StoreAssumption DEF Init, VNodeTypes
<1>3. failures \in 0..MaxFailures
  BY StoreAssumption DEF Init
<1> QED BY <1>1, <1>2, <1>3, TypeParts

\* A failure is counted within the bound.
LEMMA FailsType == ASSUME failures \in 0..MaxFailures, Fails PROVE failures' \in 0..MaxFailures
  BY StoreAssumption DEF Fails

\* The death of processes keeps the types of all.
LEMMA DieTypes ==
  ASSUME ProcTypes, NEW D \in SUBSET Procs, Die(D)
  PROVE  ProcTypes'
  BY DEF ProcTypes, Die, Emptied, Without, PortMaps

\* A step of a process keeps the types of the processes.
LEMMA ProcStepTypes ==
  ASSUME ProcTypes, NEW p \in Procs,
         \/ ProcStep(p) \/ (\E x \in Required : LoadFails(p, x)) \/ Crash(p)
  PROVE  ProcTypes'
<1> USE ProcShape
<1>1. CASE Boot(p)
  BY <1>1 DEF ProcTypes, Boot, PortMaps
<1>2. ASSUME NEW x \in Required, LoadTensor(p, x) PROVE ProcTypes'
  BY <1>2 DEF ProcTypes, LoadTensor
<1>3. CASE Fuse(p)
  <2>1. CASE Die({p})
    BY <2>1, DieTypes
  <2>2. CASE ~ Die({p})
    <3>1. /\ TENSOR_DICT' = [TENSOR_DICT EXCEPT ![p] = fuse_tensor(@)]
          /\ main' = [main EXCEPT ![p] = "caching"]
          /\ UNCHANGED <<todo, load_errors, TENSOR_INITIALIZE_COMPLETE, SHUTDOWN_EVENT,
                         status_port, manager_port, deaf>>
      BY <1>3, <2>2, Zenon DEF Fuse
    <3>2. fuse_tensor(TENSOR_DICT[p]) \in SUBSET (Required \cup {Fused})
      BY DEF ProcTypes, fuse_tensor
    <3> QED BY <3>1, <3>2 DEF ProcTypes
  <2> QED BY <2>1, <2>2
<1>4. CASE OpenManager(p)
  <2>1. CASE Die({p})
    BY <2>1, DieTypes
  <2>2. CASE ~ Die({p})
    BY <1>4, <2>2 DEF ProcTypes, OpenManager, PortMaps
  <2> QED BY <2>1, <2>2
<1>5. CASE Exit(p)
  BY <1>5, DieTypes DEF Exit
<1>6. ASSUME NEW x \in Required, LoadFails(p, x) PROVE ProcTypes'
  BY <1>6 DEF ProcTypes, LoadFails
<1>7. CASE Crash(p)
  BY <1>7, DieTypes DEF Crash
<1> QED BY <1>1, <1>2, <1>3, <1>4, <1>5, <1>6, <1>7 DEF ProcStep

\* A step of a process leaves the VNodes alone and counts its failures.
LEMMA ProcStepFrame ==
  ASSUME NEW p \in Procs,
         \/ ProcStep(p) \/ (\E x \in Required : LoadFails(p, x)) \/ Crash(p)
  PROVE  UNCHANGED vnodeVars /\ (UNCHANGED failures \/ Fails)
  BY Zenon DEF ProcStep, Boot, LoadTensor, LoadFails, Fuse, OpenManager, Exit, Crash

\* A step of a VNode keeps the types of the VNodes.
LEMMA VNodeStepTypes ==
  ASSUME ProcTypes, VNodeTypes, NEW v \in VNodes,
         \/ start_tensor_store(v) \/ check_tensor_store_status(v)
         \/ stop_tensor_store(v) \/ StopStep(v)
  PROVE  VNodeTypes'
<1>1. CASE start_tensor_store(v)
  BY <1>1 DEF VNodeTypes, start_tensor_store
<1>2. CASE check_tensor_store_status(v)
  <2> USE <1>2, StoreAssumption
  <2>1. polled' \in [VNodes -> Nat] /\ \A w \in VNodes : polled'[w] < tp_size[w]
    BY DEF VNodeTypes, check_tensor_store_status, AllPolled
  <2>2. seen' \in [VNodes -> SUBSET Procs]
    BY DEF ProcTypes, VNodeTypes, check_tensor_store_status, AnswersReady
  <2>3. /\ vnode' \in [VNodes -> {"new", "waiting", "up", "stopping", "stopped"}]
        /\ is_tensor_store_ready' \subseteq VNodes
    BY DEF VNodeTypes, check_tensor_store_status
  <2> QED BY <2>1, <2>2, <2>3 DEF VNodeTypes, check_tensor_store_status
<1>3. CASE stop_tensor_store(v)
  BY <1>3, RankProc DEF VNodeTypes, stop_tensor_store
<1>4. CASE \E r \in Ranks(v) : stop_single_tensor_store(v, r)
  BY <1>4 DEF VNodeTypes, stop_single_tensor_store
<1>5. CASE StopDone(v)
  BY <1>5 DEF VNodeTypes, StopDone
<1> QED BY <1>1, <1>2, <1>3, <1>4, <1>5 DEF StopStep

\* A step of a VNode keeps the types of the processes and of the counter.
LEMMA VNodeStepProcs ==
  ASSUME TypeOK, NEW v \in VNodes,
         \/ start_tensor_store(v) \/ check_tensor_store_status(v)
         \/ stop_tensor_store(v) \/ StopStep(v)
  PROVE  ProcTypes' /\ failures' \in 0..MaxFailures
<1>0. ProcTypes /\ failures \in 0..MaxFailures
  BY TypeParts
<1>1. CASE start_tensor_store(v)
  BY <1>0, <1>1, RankProc DEF ProcTypes, start_tensor_store
<1>2. CASE check_tensor_store_status(v) \/ stop_tensor_store(v)
  <2>1. UNCHANGED <<procVars, failures>>
    BY <1>2 DEF check_tensor_store_status, stop_tensor_store
  <2> QED BY <1>0, <2>1 DEF ProcTypes, procVars
<1>4. ASSUME NEW r \in Ranks(v), stop_single_tensor_store(v, r)
      PROVE  ProcTypes' /\ failures' \in 0..MaxFailures
  <2>1. r \in Ports
    BY RankProc
  <2> QED BY <1>0, <1>4, <2>1 DEF ProcTypes, stop_single_tensor_store, AcceptShutdown,
                                  StopPort, Without, PortMaps
<1>5. CASE StopDone(v)
  <2>1. CASE Die(Running) /\ UNCHANGED failures
    BY <1>0, <2>1, DieTypes DEF Running
  <2>2. CASE UNCHANGED procVars /\ (UNCHANGED failures \/ Fails)
    BY <1>0, <2>2, FailsType DEF ProcTypes, procVars
  <2> QED BY <1>5, <2>1, <2>2 DEF StopDone
<1> QED BY <1>1, <1>2, <1>4, <1>5 DEF StopStep

\* Every step keeps the types.
LEMMA StepTypes == TypeOK /\ [Next]_vars => TypeOK'
<1> SUFFICES ASSUME TypeOK, [Next]_vars PROVE TypeOK'
  OBVIOUS
<1>0. ProcTypes /\ VNodeTypes /\ failures \in 0..MaxFailures
  BY TypeParts
<1>1. ASSUME NEW p \in Procs,
             \/ ProcStep(p) \/ (\E x \in Required : LoadFails(p, x)) \/ Crash(p)
      PROVE  TypeOK'
  <2>1. ProcTypes'
    BY <1>0, <1>1, ProcStepTypes
  <2>2. UNCHANGED vnodeVars /\ failures' \in 0..MaxFailures
    BY <1>0, <1>1, ProcStepFrame, FailsType
  <2>3. VNodeTypes'
    BY <1>0, <2>2 DEF VNodeTypes, vnodeVars
  <2> QED BY <2>1, <2>2, <2>3 DEF TypeOK, ProcTypes, VNodeTypes
<1>2. ASSUME NEW v \in VNodes,
             \/ start_tensor_store(v) \/ check_tensor_store_status(v)
             \/ stop_tensor_store(v) \/ StopStep(v)
      PROVE  TypeOK'
  <2>1. VNodeTypes' /\ ProcTypes' /\ failures' \in 0..MaxFailures
    BY <1>0, <1>2, VNodeStepTypes, VNodeStepProcs
  <2> QED BY <2>1 DEF TypeOK, ProcTypes, VNodeTypes
<1>3. CASE UNCHANGED vars
  BY <1>3 DEF TypeOK, vars, procVars, vnodeVars, PortMaps
<1> QED BY <1>1, <1>2, <1>3 DEF Next, Idle

\* The variables have their types in every state; in particular the poll of
\* a VNode never asks a port beyond its tp_size.
THEOREM StoreTypes == Spec => []TypeOK
  BY InitTypes, StepTypes, PTL DEF Spec


-----------------------------------------------------------------------------
(* Loading and listening: what holds of a process on every node.           *)

\* Nothing is loaded and nobody listens before the first start.
LEMMA InitStores == Init => Loading /\ Listening
<1> SUFFICES ASSUME Init PROVE Loading /\ Listening
  OBVIOUS
<1>1. Loading
  BY DEF Init, Loading
<1>2. Listening
  BY DEF Init, Listening
<1> QED BY <1>1, <1>2

\* A fusion after which no loader has raised leaves the whole stage.
LEMMA FusedIsWhole ==
  ASSUME NEW dict, dict = Required
  PROVE  fuse_tensor(dict) = Whole
<1>1. CASE Parts = {}
  BY <1>1 DEF fuse_tensor, Whole, Required
<1>2. CASE Parts # {}
  <2>1. fuse_tensor(dict) = (dict \ Parts) \cup {Fused}
    BY <1>2 DEF fuse_tensor, Required
  <2>2. dict \ Parts = Plain
    BY StoreAssumption DEF Required
  <2> QED BY <1>2, <2>1, <2>2 DEF Whole
<1> QED BY <1>1, <1>2

\* Processes that die take what is said of them along.
LEMMA DieStores ==
  ASSUME ProcTypes, Loading, Listening, NEW D \in SUBSET Procs, Die(D)
  PROVE  Loading' /\ Listening'
<1>1. Loading'
  <2> SUFFICES ASSUME NEW p \in Procs
               PROVE  /\ main'[p] \in {"none", "started", "dead"}
                           => TENSOR_DICT'[p] = {} /\ load_errors'[p] = {}
                      /\ main'[p] = "loading"
                           => TENSOR_DICT'[p] \cup todo'[p] \cup load_errors'[p] = Required
                      /\ main'[p] \in {"caching", "serving"}
                           => TENSOR_DICT'[p] = Whole \/ load_errors'[p] # {}
                      /\ p \in TENSOR_INITIALIZE_COMPLETE' => main'[p] = "serving"
    BY DEF Loading
  <2>1. CASE p \in D
    BY <2>1 DEF ProcTypes, Die, Emptied
  <2>2. CASE p \notin D
    BY <2>2 DEF ProcTypes, Die, Emptied, Loading
  <2> QED BY <2>1, <2>2
<1>2. Listening'
  BY NoProcIsNone DEF ProcTypes, Listening, Die, Without, PortMaps, Alive
<1> QED BY <1>1, <1>2

\* A step of a process keeps both.
LEMMA ProcStepStores ==
  ASSUME ProcTypes, Loading, Listening, NEW p \in Procs,
         \/ ProcStep(p) \/ (\E x \in Required : LoadFails(p, x)) \/ Crash(p)
  PROVE  Loading' /\ Listening'
<1> USE ProcShape
<1>1. CASE Boot(p)
  <2>1. Loading'
    BY <1>1 DEF ProcTypes, Loading, Boot
  <2>2. Listening'
    BY <1>1 DEF ProcTypes, Listening, Boot, PortMaps, Alive
  <2> QED BY <2>1, <2>2
<1>2. ASSUME NEW x \in Required, LoadTensor(p, x) PROVE Loading' /\ Listening'
  <2>1. Loading'
    BY <1>2 DEF ProcTypes, Loading, LoadTensor
  <2>2. Listening'
    BY <1>2 DEF Listening, LoadTensor
  <2> QED BY <2>1, <2>2
<1>3. CASE Fuse(p) /\ ~ Die({p})
  <2>1. /\ main[p] = "loading" /\ todo[p] = {}
        /\ TENSOR_DICT' = [TENSOR_DICT EXCEPT ![p] = fuse_tensor(@)]
        /\ main' = [main EXCEPT ![p] = "caching"]
        /\ UNCHANGED <<todo, load_errors, TENSOR_INITIALIZE_COMPLETE, SHUTDOWN_EVENT,
                       status_port, manager_port, deaf>>
    BY <1>3, Zenon DEF Fuse
  <2>2. fuse_tensor(TENSOR_DICT[p]) = Whole \/ load_errors[p] # {}
    BY <2>1, FusedIsWhole DEF ProcTypes, Loading
  <2>3. Loading'
    BY <2>1, <2>2 DEF ProcTypes, Loading
  <2>4. Listening'
    BY <2>1 DEF ProcTypes, Listening, Alive
  <2> QED BY <2>3, <2>4
<1>4. CASE OpenManager(p) /\ ~ Die({p})
  <2>0. /\ main[p] = "caching" /\ main' = [main EXCEPT ![p] = "serving"]
        /\ TENSOR_INITIALIZE_COMPLETE' = TENSOR_INITIALIZE_COMPLETE \cup {p}
        /\ UNCHANGED <<todo, TENSOR_DICT, load_errors, SHUTDOWN_EVENT, status_port, deaf>>
    BY <1>4, Zenon DEF OpenManager
  <2>1. Loading'
    BY <2>0 DEF ProcTypes, Loading
  <2>2. Listening'
    BY <2>0 DEF ProcTypes, Listening, Alive
  <2> QED BY <2>1, <2>2
<1>5. CASE Die({p})
  BY <1>5, DieStores
<1>6. ASSUME NEW x \in Required, LoadFails(p, x) PROVE Loading' /\ Listening'
  <2>1. Loading'
    BY <1>6 DEF ProcTypes, Loading, LoadFails
  <2>2. Listening'
    BY <1>6 DEF Listening, LoadFails
  <2> QED BY <2>1, <2>2
<1> QED BY <1>1, <1>2, <1>3, <1>4, <1>5, <1>6, Zenon DEF ProcStep, Exit, Crash

\* A step of a VNode keeps both; a process it starts is a new one.
LEMMA VNodeStepStores ==
  ASSUME TypeOK, Loading, Listening, NEW v \in VNodes,
         \/ start_tensor_store(v) \/ check_tensor_store_status(v)
         \/ stop_tensor_store(v) \/ StopStep(v),
         Unstarted
  PROVE  Loading' /\ Listening'
<1>0. ProcTypes
  BY TypeParts
<1>1. CASE start_tensor_store(v)
  <2>0. \A p \in Own(v) : p \in Procs /\ main[p] = "none"
    BY <1>1, RankProc DEF Unstarted, start_tensor_store, Own
  <2>1. Loading'
    BY <1>0, <1>1, <2>0 DEF ProcTypes, Loading, start_tensor_store
  <2>2. Listening'
    BY <1>0, <1>1, <2>0 DEF ProcTypes, PortMaps, Listening, start_tensor_store, Alive
  <2> QED BY <2>1, <2>2
<1>2. ASSUME UNCHANGED procVars PROVE Loading' /\ Listening'
  BY <1>2 DEF procVars, Loading, Listening
<1>4. ASSUME NEW r \in Ranks(v), stop_single_tensor_store(v, r)
      PROVE  Loading' /\ Listening'
  <2>1. r \in Ports
    BY RankProc
  <2>2. Loading'
    BY <1>4 DEF Loading, stop_single_tensor_store
  <2>3. Listening'
    <3>1. CASE status_port[r] = NoProc
      BY <1>4, <3>1 DEF Listening, stop_single_tensor_store, StopPort
    <3>2. CASE status_port[r] # NoProc
      <4>1. /\ SHUTDOWN_EVENT' = SHUTDOWN_EVENT \cup {status_port[r]}
            /\ status_port' = [n \in Ports |-> IF status_port[n] = status_port[r]
                                               THEN NoProc ELSE status_port[n]]
            /\ UNCHANGED main
        BY <1>4, <3>2 DEF stop_single_tensor_store, AcceptShutdown, StopPort, Without
      <4> QED BY <1>0, <2>1, <3>2, <4>1 DEF ProcTypes, PortMaps, Listening
    <3> QED BY <3>1, <3>2
  <2> QED BY <2>2, <2>3
<1>5. CASE Die(Running)
  BY <1>0, <1>5, DieStores DEF Running
<1> QED BY <1>1, <1>2, <1>4, <1>5, Zenon
        DEF check_tensor_store_status, stop_tensor_store, StopStep, StopDone

\* What a step of a process p can do to the main threads and the status ports:
\* a port changes hands only when p starts on a free one or ends.
Moves(p) ==
  /\ main[p] # "none"
  /\ \A q \in Procs : q # p => main'[q] = main[q]
  /\ main[p] \in {"serving", "dead"} => main'[p] \in {"serving", "dead"}
  /\ \A n \in Ports :
       \/ status_port'[n] = status_port[n]
       \/ status_port[n] = p /\ status_port'[n] = NoProc
       \/ main[p] = "started" /\ status_port[n] = NoProc /\ status_port'[n] = p
  /\ main[p] = "serving" /\ p \notin SHUTDOWN_EVENT => UNCHANGED status_port \/ Fails

\* Every step of a process is such a step.
LEMMA ProcStepMoves ==
  ASSUME ProcTypes, Listening, NEW p \in Procs,
         \/ ProcStep(p) \/ (\E x \in Required : LoadFails(p, x)) \/ Crash(p)
  PROVE  Moves(p)
<1> USE ProcShape
<1>1. CASE Boot(p)
  BY <1>1 DEF ProcTypes, PortMaps, Boot, Moves
<1>2. ASSUME Die({p}), main[p] # "none",
             main[p] = "serving" => p \in SHUTDOWN_EVENT \/ Fails
      PROVE  Moves(p)
  BY <1>2 DEF ProcTypes, PortMaps, Die, Without, Moves
<1>3. ASSUME main[p] \in {"loading", "caching"}, UNCHANGED status_port,
             UNCHANGED main \/ \E s \in Alive : main' = [main EXCEPT ![p] = s]
      PROVE  Moves(p)
  BY <1>3 DEF ProcTypes, Moves
<1>4. CASE Fuse(p)
  BY <1>2, <1>3, <1>4 DEF Fuse, Alive
<1>5. CASE OpenManager(p)
  BY <1>2, <1>3, <1>5 DEF OpenManager, Alive
<1>6. CASE \E x \in Required : LoadTensor(p, x) \/ LoadFails(p, x)
  BY <1>3, <1>6 DEF LoadTensor, LoadFails
<1>7. CASE Exit(p) \/ Crash(p)
  BY <1>2, <1>7 DEF Exit, Crash, Running
<1> QED BY <1>1, <1>4, <1>5, <1>6, <1>7, Zenon DEF ProcStep

\* StoreInv is inductive.
LEMMA StepStores == StoreInv /\ [Next]_vars => StoreInv'
<1> SUFFICES ASSUME StoreInv, [Next]_vars PROVE StoreInv'
  OBVIOUS
<1>0. TypeOK' /\ ProcTypes /\ VNodeTypes
  BY StepTypes, TypeParts DEF StoreInv
<1>1. ASSUME NEW p \in Procs,
             \/ ProcStep(p) \/ (\E x \in Required : LoadFails(p, x)) \/ Crash(p)
      PROVE  StoreInv'
  <2>1. Loading' /\ Listening'
    BY <1>0, <1>1, ProcStepStores DEF StoreInv
  <2>2. UNCHANGED vnode
    BY <1>1, ProcStepFrame DEF vnodeVars
  <2>3. main[p] # "none" /\ \A q \in Procs : q # p => main'[q] = main[q]
    BY <1>0, <1>1, ProcStepMoves DEF StoreInv, Moves
  <2>4. Unstarted'
    BY <2>2, <2>3 DEF StoreInv, Unstarted
  <2> QED BY <1>0, <2>1, <2>4 DEF StoreInv
<1>2. ASSUME NEW v \in VNodes,
             \/ start_tensor_store(v) \/ check_tensor_store_status(v)
             \/ stop_tensor_store(v) \/ StopStep(v)
      PROVE  StoreInv'
  <2>1. Loading' /\ Listening'
    BY <1>2, VNodeStepStores DEF StoreInv
  <2>2. Unstarted'
    <3> SUFFICES ASSUME NEW p \in Procs, vnode'[p[1]] = "new" PROVE main'[p] = "none"
      BY DEF Unstarted
    <3>1. p[1] \in VNodes /\ p = <<p[1], p[2]>>
      BY ProcShape
    <3>2. vnode[p[1]] = "new" /\ p[1] # v
      BY <1>0, <1>2, <3>1 DEF VNodeTypes, start_tensor_store, check_tensor_store_status,
                              stop_tensor_store, StopStep, stop_single_tensor_store, StopDone
    <3>3. main[p] = "none"
      BY <3>2 DEF StoreInv, Unstarted
    <3>4. p \notin Own(v) /\ p \notin Running
      BY <3>1, <3>2, <3>3 DEF Own, Running
    <3> QED BY <1>0, <1>2, <3>3, <3>4
            DEF ProcTypes, start_tensor_store, check_tensor_store_status, stop_tensor_store,
                StopStep, stop_single_tensor_store, StopDone, Die, procVars
  <2> QED BY <1>0, <2>1, <2>2 DEF StoreInv
<1>3. CASE UNCHANGED vars
  BY <1>0, <1>3 DEF StoreInv, Loading, Listening, Unstarted, vars, procVars, vnodeVars
<1> QED BY <1>1, <1>2, <1>3 DEF Next, Idle

\* It holds in every state.
LEMMA StoresHold == Spec => []StoreInv
<1>1. Init => StoreInv
  <2> SUFFICES ASSUME Init PROVE StoreInv
    OBVIOUS
  <2>1. Unstarted
    BY DEF Init, Unstarted
  <2> QED BY <2>1, InitTypes, InitStores DEF StoreInv
<1> QED BY <1>1, StepStores, PTL DEF Spec

\* ReadyIsWhole: whatever the order in which the loaders end, a store sets its
\* flag only over the whole stage, fused, unless a loader raised.
THEOREM ReadyStoresAreWhole == Spec => []ReadyIsWhole
<1>1. StoreInv => ReadyIsWhole
  BY DEF StoreInv, TypeOK, Loading, ReadyIsWhole
<1> QED BY <1>1, StoresHold, PTL

\* SilentAfterShutdown: no poll counts the answer of a store that has accepted
\* SHUTDOWN, however far that store still gets.
THEOREM ShutdownIsSilent == Spec => SilentAfterShutdown
<1>1. StoreInv /\ [Next]_vars
        => [\A v \in VNodes : (seen'[v] \ seen[v]) \cap SHUTDOWN_EVENT = {}]_vars
  <2> SUFFICES ASSUME StoreInv, Next, NEW v \in VNodes
               PROVE  (seen'[v] \ seen[v]) \cap SHUTDOWN_EVENT = {}
    BY Zenon
  <2>1. CASE UNCHANGED seen
    BY <2>1
  <2>2. ASSUME NEW w \in VNodes, check_tensor_store_status(w)
        PROVE  (seen'[v] \ seen[v]) \cap SHUTDOWN_EVENT = {}
    <3>1. polled[w] \in Ports
      BY RankProc, StoreAssumption DEF StoreInv, TypeOK, PollPorts
    <3>2. CASE AnswersReady(polled[w])
      <4>1. status_port[polled[w]] # NoProc
        BY <3>2, NoProcIsNone DEF AnswersReady, StoreInv, TypeOK
      <4>2. status_port[polled[w]] \notin SHUTDOWN_EVENT
        BY <3>1, <4>1 DEF StoreInv, Listening
      <4> QED BY <2>2, <3>2, <4>2 DEF check_tensor_store_status, StoreInv, TypeOK
    <3>3. CASE ~ AnswersReady(polled[w])
      BY <2>2, <3>3 DEF check_tensor_store_status, StoreInv, TypeOK
    <3> QED BY <3>2, <3>3
  <2>3. CASE \E p \in Procs :
               ProcStep(p) \/ (\E x \in Required : LoadFails(p, x)) \/ Crash(p)
    BY <2>1, <2>3, ProcStepFrame DEF vnodeVars
  <2>4. CASE \E w \in VNodes : start_tensor_store(w) \/ stop_tensor_store(w) \/ StopStep(w)
    BY <2>1, <2>4 DEF start_tensor_store, stop_tensor_store, StopStep,
                      stop_single_tensor_store, StopDone
  <2>5. CASE Idle
    BY <2>1, <2>5 DEF Idle, vars, vnodeVars
  <2> QED BY <2>2, <2>3, <2>4, <2>5 DEF Next
<1> QED BY <1>1, StoresHold, PTL DEF Spec, SilentAfterShutdown

-----------------------------------------------------------------------------
(* A node whose VNodes follow each other.                                  *)

\* Ranks from 0 are the polled ports, and every VNode uses the first one.
LEMMA FromZero ==
  ASSUME FirstRanks, NEW v \in VNodes
  PROVE  Ranks(v) = 0..(tp_size[v] - 1) /\ 0 \in Ranks(v)
<1>1. start_local_rank[v] = 0 /\ tp_size[v] \in Nat \ {0}
  BY StoreAssumption DEF FirstRanks
<1> QED BY <1>1 DEF Ranks

\* So all of them overlap.
LEMMA AllOverlap ==
  ASSUME FirstRanks, NEW v \in VNodes, NEW w \in VNodes
  PROVE  Overlap(v, w)
  BY FromZero DEF Overlap

\* Before the first start no VNode is in use.
LEMMA InitSuccession == Init => Succession
<1> SUFFICES ASSUME Init PROVE Succession
  OBVIOUS
<1>1. OneInUse /\ PortsInUse
  BY DEF Init, OneInUse, PortsInUse
<1>2. OwnSeen /\ Reachable
  BY ProcShape DEF Init, OwnSeen, Reachable, Reached
<1> QED BY <1>1, <1>2 DEF Succession

\* The process that listens on a port is one of a VNode, with that port.
LEMMA Listener ==
  ASSUME StoreInv, NEW n \in Ports, status_port[n] # NoProc
  PROVE  /\ status_port[n] \in Procs /\ status_port[n][1] \in VNodes
         /\ status_port[n] = <<status_port[n][1], n>>
<1>1. status_port[n] \in Procs
  BY DEF StoreInv, TypeOK, PortMaps
<1>2. status_port[n][2] = n
  BY DEF StoreInv, Listening
<1> QED BY <1>1, <1>2, ProcShape

\* The listener on a port is of the one VNode that is in use.
LEMMA ListenerInUse ==
  ASSUME StoreInv, Succession, leaked = {}, NEW v \in VNodes,
         vnode[v] \in {"waiting", "up", "stopping"},
         NEW n \in Ports, status_port[n] # NoProc
  PROVE  status_port[n] = <<v, n>>
<1>1. status_port[n][1] \in VNodes /\ status_port[n] = <<status_port[n][1], n>>
  BY Listener
<1>2. vnode[status_port[n][1]] \notin {"new", "stopped"}
  BY DEF Succession, PortsInUse
<1> QED BY <1>1, <1>2 DEF Succession, OneInUse

\* The steps of processes keep the succession: a process gets its port while
\* its VNode waits, and a store that serves keeps its own until it is told.
LEMMA ProcStepSuccession ==
  ASSUME StoreInv, Succession, NEW p \in Procs,
         \/ ProcStep(p) \/ (\E x \in Required : LoadFails(p, x)) \/ Crash(p)
  PROVE  Succession'
<1>1. UNCHANGED vnodeVars /\ (UNCHANGED failures \/ Fails)
  BY ProcStepFrame
<1>2. UNCHANGED <<vnode, is_tensor_store_ready, polled, seen, unsent, refused, leaked>>
  BY <1>1 DEF vnodeVars
<1>3. Moves(p)
  BY TypeParts, ProcStepMoves DEF StoreInv
<1>4. OneInUse'
  BY <1>2 DEF Succession, OneInUse
<1>5. ASSUME leaked = {} PROVE PortsInUse' /\ OwnSeen'
  <2>1. PortsInUse /\ OwnSeen
    BY <1>5 DEF Succession
  <2>2. OwnSeen'
    BY <1>2, <1>3, <2>1 DEF Moves, OwnSeen
  <2>3. main[p] = "started" => vnode[p[1]] = "waiting"
    BY <2>1, ProcShape DEF StoreInv, TypeOK, Unstarted, OwnSeen
  <2>4. PortsInUse'
    BY <1>2, <1>3, <2>1, <2>3 DEF Moves, PortsInUse
  <2> QED BY <2>2, <2>4
<1>6. ASSUME leaked = {}, failures' = 0 PROVE Reachable'
  <2>1. failures = 0 /\ ~ Fails
    BY <1>1, <1>6 DEF Fails, StoreInv, TypeOK
  <2>2. Reachable /\ OwnSeen
    BY <1>6, <2>1 DEF Succession
  <2> SUFFICES ASSUME NEW q \in Procs, Reached(q) PROVE status_port'[q[2]] = q
    BY <1>2, <2>2 DEF Reachable, Reached
  <2>3. q[2] \in Ports /\ q # NoProc /\ status_port[q[2]] = q
    BY <2>2, ProcShape DEF Reachable
  <2>4. main[q] = "serving" /\ q \notin SHUTDOWN_EVENT
    BY <2>2, <2>3 DEF OwnSeen, Reached, StoreInv, Listening, Alive
  <2> QED BY <1>3, <2>1, <2>3, <2>4 DEF Moves
<1> QED BY <1>2, <1>4, <1>5, <1>6 DEF Succession

\* A VNode that is started is the only one in use, and nobody listens.
LEMMA StartSuccession ==
  ASSUME FirstRanks, StoreInv, Succession, NEW v \in VNodes, start_tensor_store(v)
  PROVE  Succession'
<1>1. /\ vnode[v] = "new" /\ vnode' = [vnode EXCEPT ![v] = "waiting"]
      /\ main' = [p \in Procs |-> IF p \in Own(v) THEN "started" ELSE main[p]]
      /\ UNCHANGED <<status_port, is_tensor_store_ready, polled, seen, unsent, refused,
                     leaked, failures>>
  BY DEF start_tensor_store
<1>2. \A w \in VNodes : vnode[w] \in {"new", "stopped"}
  BY <1>1, AllOverlap DEF start_tensor_store
<1>3. vnode \in [VNodes -> {"new", "waiting", "up", "stopping", "stopped"}]
  BY DEF StoreInv, TypeOK
<1>4. seen[v] = {} /\ polled[v] = 0
  BY <1>1 DEF Succession, OneInUse
<1>5. OneInUse'
  BY <1>1, <1>2, <1>3 DEF Succession, OneInUse
<1>6. ASSUME leaked = {} PROVE \A n \in Ports : status_port[n] = NoProc
  BY <1>2, <1>6, Listener DEF Succession, PortsInUse
<1>7. ASSUME leaked = {} PROVE PortsInUse' /\ OwnSeen'
  <2>1. PortsInUse'
    BY <1>1, <1>6, <1>7 DEF PortsInUse
  <2>2. \A w \in VNodes :
          /\ vnode'[w] = "waiting" => seen[w] = {w} \X (0..(polled[w] - 1))
          /\ vnode'[w] \in {"up", "stopping"} => seen[w] = Own(w)
    BY <1>1, <1>2, <1>3, <1>4
  <2>3. ASSUME NEW p \in Procs, p \in seen[p[1]] \/ vnode'[p[1]] \in {"up", "stopping", "stopped"}
        PROVE  main'[p] \in {"serving", "dead"}
    <3>1. p[1] \in VNodes /\ p[1] # v
      BY <1>1, <1>3, <1>4, <2>3, ProcShape
    <3>2. p \notin Own(v)
      BY <3>1 DEF Own
    <3> QED BY <1>1, <1>3, <1>7, <2>3, <3>1, <3>2 DEF Succession, OwnSeen
  <2> QED BY <1>1, <2>1, <2>2, <2>3 DEF OwnSeen
<1>8. ASSUME leaked = {}, failures = 0 PROVE Reachable'
  <2>1. \A p \in Procs : ~ Reached(p)'
    BY <1>1, <1>2, <1>3, <1>4, ProcShape DEF Reached
  <2> QED BY <1>1, <1>8, <2>1 DEF Succession, Reachable
<1> QED BY <1>1, <1>5, <1>7, <1>8 DEF Succession

\* A poll counts only answers of the VNode's own stores, in the order of their
\* ranks; when it ends it has all of them.
LEMMA PollSuccession ==
  ASSUME FirstRanks, StoreInv, Succession, NEW v \in VNodes, check_tensor_store_status(v)
  PROVE  Succession'
<1>1. vnode[v] = "waiting" /\ UNCHANGED <<procVars, unsent, refused, leaked, failures>>
  BY DEF check_tensor_store_status
<1>2. UNCHANGED <<main, status_port>>
  BY <1>1 DEF procVars
<1>3. /\ polled[v] \in 0..(tp_size[v] - 1) /\ polled[v] \in Ports
      /\ tp_size[v] \in Nat \ {0}
  BY RankProc, StoreAssumption DEF StoreInv, TypeOK, PollPorts
<1>4. /\ vnode \in [VNodes -> {"new", "waiting", "up", "stopping", "stopped"}]
      /\ seen \in [VNodes -> SUBSET Procs] /\ polled \in [VNodes -> Nat]
  BY DEF StoreInv, TypeOK
<1>5. v \notin is_tensor_store_ready
  BY <1>1 DEF Succession, OneInUse
<1>6. CASE ~ AnswersReady(polled[v])
  <2>1. /\ polled' = [polled EXCEPT ![v] = 0] /\ seen' = [seen EXCEPT ![v] = {}]
        /\ is_tensor_store_ready' = is_tensor_store_ready \ {v} /\ UNCHANGED vnode
    BY <1>6 DEF check_tensor_store_status
  <2>2. OneInUse'
    BY <1>1, <1>4, <2>1 DEF Succession, OneInUse
  <2>3. ASSUME leaked = {} PROVE PortsInUse' /\ OwnSeen'
    <3>1. PortsInUse'
      BY <1>1, <1>2, <2>1, <2>3 DEF Succession, PortsInUse
    <3>2. OwnSeen'
      BY <1>1, <1>2, <1>4, <2>1, <2>3 DEF Succession, OwnSeen
    <3> QED BY <3>1, <3>2
  <2>4. ASSUME leaked = {}, failures = 0 PROVE Reachable'
    BY <1>1, <1>2, <1>4, <2>1, <2>4 DEF Succession, Reachable, Reached
  <2> QED BY <1>1, <2>2, <2>3, <2>4 DEF Succession
<1>7. CASE AnswersReady(polled[v])
  <2>1. /\ seen' = [seen EXCEPT ![v] = @ \cup {status_port[polled[v]]}]
        /\ \/ /\ AllPolled(v) /\ is_tensor_store_ready' = is_tensor_store_ready \cup {v}
              /\ vnode' = [vnode EXCEPT ![v] = "up"]
              /\ polled' = [polled EXCEPT ![v] = 0]
           \/ /\ ~ AllPolled(v) /\ polled' = [polled EXCEPT ![v] = @ + 1]
              /\ UNCHANGED <<is_tensor_store_ready, vnode>>
    BY <1>7, Zenon DEF check_tensor_store_status
  <2>2. status_port[polled[v]] # NoProc /\ main[status_port[polled[v]]] = "serving"
    BY <1>7, NoProcIsNone DEF AnswersReady, StoreInv, TypeOK, Loading
  <2>3. OneInUse'
    <3>1. \A w \in VNodes : w # v => vnode[w] \in {"new", "stopped"}
      BY <1>1 DEF Succession, OneInUse
    <3>2. \A w \in VNodes : w # v => UNCHANGED <<vnode[w], seen[w], polled[w]>>
      BY <1>4, <2>1
    <3>3. vnode'[v] \in {"waiting", "up"} /\ (v \in is_tensor_store_ready' => vnode'[v] = "up")
      BY <1>1, <1>4, <1>5, <2>1
    <3>4. \A w \in VNodes : w # v => (w \in is_tensor_store_ready' <=> w \in is_tensor_store_ready)
      BY <2>1
    <3>5. is_tensor_store_ready' \subseteq VNodes
      BY <2>1 DEF StoreInv, TypeOK
    <3> QED BY <3>1, <3>2, <3>3, <3>4, <3>5 DEF Succession, OneInUse
  <2>4. ASSUME leaked = {}
        PROVE  /\ status_port[polled[v]] = <<v, polled[v]>>
               /\ seen[v] = {v} \X (0..(polled[v] - 1))
    BY <1>1, <1>3, <2>2, <2>4, ListenerInUse DEF Succession, OwnSeen
  <2>5. ASSUME leaked = {} PROVE seen'[v] = {v} \X (0..polled[v])
    <3>1. seen'[v] = ({v} \X (0..(polled[v] - 1))) \cup {<<v, polled[v]>>}
      BY <1>4, <2>1, <2>4, <2>5
    <3>2. 0..polled[v] = (0..(polled[v] - 1)) \cup {polled[v]}
      BY <1>3
    <3> QED BY <3>1, <3>2
  <2>6. ASSUME leaked = {} PROVE PortsInUse'
    BY <1>1, <1>2, <1>4, <2>1, <2>6, Listener DEF Succession, PortsInUse
  <2>7. ASSUME leaked = {} PROVE OwnSeen'
    <3>1. ASSUME NEW w \in VNodes
          PROVE  /\ vnode'[w] = "waiting" => seen'[w] = {w} \X (0..(polled'[w] - 1))
                 /\ vnode'[w] \in {"up", "stopping"} => seen'[w] = Own(w)
      <4>1. CASE w # v
        BY <1>4, <2>1, <2>7, <4>1 DEF Succession, OwnSeen
      <4>2. CASE w = v /\ AllPolled(v)
        <5>1. polled[v] = tp_size[v] - 1
          BY <1>3, <4>2 DEF AllPolled
        <5>2. seen'[v] = Own(v)
          BY <2>5, <2>7, <5>1, FromZero DEF Own
        <5> QED BY <1>4, <2>1, <4>2, <5>2
      <4>3. CASE w = v /\ ~ AllPolled(v)
        <5>1. polled'[v] - 1 = polled[v] /\ vnode'[v] = "waiting"
          BY <1>1, <1>3, <1>4, <2>1, <4>3
        <5> QED BY <2>5, <2>7, <4>3, <5>1
      <4> QED BY <4>1, <4>2, <4>3
    <3>2. ASSUME NEW p \in Procs,
                 p \in seen'[p[1]] \/ vnode'[p[1]] \in {"up", "stopping", "stopped"}
          PROVE  main[p] \in {"serving", "dead"}
      <4>1. p[1] \in VNodes /\ p = <<p[1], p[2]>> /\ p[2] \in Ranks(p[1])
        BY ProcShape
      <4>2. CASE p \in seen[p[1]] \/ vnode[p[1]] \in {"up", "stopping", "stopped"}
        BY <2>7, <4>2 DEF Succession, OwnSeen
      <4>3. CASE p = status_port[polled[v]]
        BY <2>2, <4>3
      <4>4. CASE p \notin seen'[p[1]]
        <5>1. (p[1] = v /\ AllPolled(v)) \/ vnode'[p[1]] = vnode[p[1]]
          BY <1>4, <2>1, <4>1
        <5>2. ~ (p[1] = v /\ AllPolled(v))
          BY <1>3, <2>5, <2>7, <4>1, <4>4, FromZero DEF AllPolled
        <5> QED BY <3>2, <4>2, <4>4, <5>1, <5>2
      <4>5. CASE p \in seen'[p[1]]
        BY <1>4, <2>1, <4>1, <4>2, <4>3, <4>5
      <4> QED BY <4>4, <4>5
    <3> QED BY <1>2, <3>1, <3>2 DEF OwnSeen
  <2>8. ASSUME leaked = {}, failures = 0 PROVE Reachable'
    <3> SUFFICES ASSUME NEW p \in Procs, Reached(p)' PROVE status_port[p[2]] = p
      BY <1>1, <1>2, <2>8 DEF Succession, Reachable
    <3>1. p[1] \in VNodes /\ p = <<p[1], p[2]>> /\ p[2] \in Ranks(p[1])
      BY ProcShape
    <3>2. CASE Reached(p)
      BY <2>8, <3>2 DEF Succession, Reachable
    <3>3. CASE p = status_port[polled[v]]
      BY <2>4, <2>8, <3>3
    <3>4. CASE p[1] # v
      BY <1>1, <1>4, <2>1, <3>1, <3>2, <3>4 DEF Reached
    <3>5. CASE p[1] = v
      <4>1. p \in seen'[v]
        <5>1. CASE AllPolled(v)
          BY <1>3, <2>5, <2>8, <3>1, <3>5, <5>1, FromZero DEF AllPolled
        <5>2. CASE ~ AllPolled(v)
          BY <1>1, <1>4, <2>1, <3>5, <5>2 DEF Reached
        <5> QED BY <5>1, <5>2
      <4> QED BY <1>1, <1>4, <2>1, <3>2, <3>3, <3>5, <4>1 DEF Reached
    <3> QED BY <3>4, <3>5
  <2> QED BY <1>1, <2>3, <2>6, <2>7, <2>8 DEF Succession
<1> QED BY <1>6, <1>7


\* stop_tensor_store sets out to reach all the stores, or leaks them.
LEMMA StopSuccession ==
  ASSUME StoreInv, Succession, NEW v \in VNodes, stop_tensor_store(v)
  PROVE  Succession'
<1>1. /\ vnode[v] \in {"waiting", "up"}
      /\ UNCHANGED <<procVars, is_tensor_store_ready, polled, seen, refused, failures>>
  BY DEF stop_tensor_store
<1>2. UNCHANGED <<main, status_port>>
  BY <1>1 DEF procVars
<1>3. /\ vnode \in [VNodes -> {"new", "waiting", "up", "stopping", "stopped"}]
      /\ unsent \in [VNodes -> SUBSET Nat]
  BY DEF StoreInv, TypeOK
<1>4. CASE v \in is_tensor_store_ready
  <2>1. /\ vnode' = [vnode EXCEPT ![v] = "stopping"]
        /\ unsent' = [unsent EXCEPT ![v] = Ranks(v)] /\ UNCHANGED leaked
    BY <1>4 DEF stop_tensor_store
  <2>2. vnode[v] = "up"
    BY <1>1, <1>4 DEF Succession, OneInUse
  <2>3. OneInUse'
    BY <1>1, <1>3, <2>1 DEF Succession, OneInUse
  <2>4. ASSUME leaked = {} PROVE PortsInUse'
    <3> SUFFICES ASSUME NEW n \in Ports, status_port[n] # NoProc
                 PROVE  LET w == status_port[n][1]
                        IN  \/ vnode'[w] \in {"waiting", "up"}
                            \/ vnode'[w] = "stopping" /\ n \in unsent'[w]
      BY <1>2 DEF PortsInUse
    <3>1. status_port[n] = <<v, n>> /\ status_port[n] \in Procs
      BY <2>2, <2>4, ListenerInUse, Listener
    <3>2. n \in Ranks(v)
      BY <3>1, ProcShape
    <3> QED BY <1>3, <2>1, <3>1, <3>2
  <2>5. ASSUME leaked = {} PROVE OwnSeen'
    BY <1>1, <1>2, <1>3, <2>1, <2>2, <2>5 DEF Succession, OwnSeen
  <2>6. ASSUME leaked = {}, failures = 0 PROVE Reachable'
    <3>1. \A p \in Procs : Reached(p)' => Reached(p)
      BY <1>1, <1>3, <2>1, <2>2, ProcShape DEF Reached
    <3> QED BY <1>1, <1>2, <2>6, <3>1 DEF Succession, Reachable
  <2> QED BY <1>1, <2>1, <2>3, <2>4, <2>5, <2>6 DEF Succession
<1>5. CASE v \notin is_tensor_store_ready
  <2>1. vnode' = [vnode EXCEPT ![v] = "stopped"] /\ leaked' # {}
    BY <1>5 DEF stop_tensor_store
  <2>2. OneInUse'
    BY <1>1, <1>3, <1>5, <2>1 DEF Succession, OneInUse
  <2> QED BY <2>1, <2>2 DEF Succession
<1> QED BY <1>4, <1>5

\* Asking one rank to shut down closes its port and no other.
LEMMA StopSingleSuccession ==
  ASSUME StoreInv, Succession, NEW v \in VNodes, NEW r \in Ranks(v),
         stop_single_tensor_store(v, r)
  PROVE  Succession'
<1>1. /\ vnode[v] = "stopping" /\ r \in unsent[v]
      /\ unsent' = [unsent EXCEPT ![v] = @ \ {r}]
      /\ UNCHANGED <<main, vnode, is_tensor_store_ready, polled, seen, leaked, failures>>
  BY DEF stop_single_tensor_store
<1>2. /\ unsent \in [VNodes -> SUBSET Nat] /\ r \in Ports
      /\ <<v, r>> \in Procs /\ <<v, r>> # NoProc
      /\ status_port \in [Ports -> Procs \cup {NoProc}]
  BY RankProc, NoProcIsNone DEF StoreInv, TypeOK, PortMaps
<1>3. \A n \in Ports : n # r => status_port'[n] = status_port[n]
  <2>1. CASE status_port[r] = NoProc
    BY <2>1 DEF stop_single_tensor_store, StopPort
  <2>2. CASE status_port[r] # NoProc
    <3>1. status_port' = [n \in Ports |-> IF status_port[n] = status_port[r]
                                          THEN NoProc ELSE status_port[n]]
      BY <2>2 DEF stop_single_tensor_store, StopPort, AcceptShutdown, Without
    <3>2. \A n \in Ports : n # r => status_port[n] # status_port[r]
      BY <1>2, <2>2, Listener DEF StoreInv, Listening
    <3> QED BY <3>1, <3>2
  <2> QED BY <2>1, <2>2
<1>4. status_port'[r] = NoProc
  BY <1>2 DEF stop_single_tensor_store, StopPort, AcceptShutdown, Without
<1>5. OneInUse'
  BY <1>1 DEF Succession, OneInUse
<1>6. ASSUME leaked = {} PROVE PortsInUse' /\ OwnSeen'
  <2>1. PortsInUse'
    BY <1>1, <1>2, <1>3, <1>4, <1>6 DEF Succession, PortsInUse
  <2>2. OwnSeen'
    BY <1>1, <1>6 DEF Succession, OwnSeen
  <2> QED BY <2>1, <2>2
<1>7. ASSUME leaked = {}, failures = 0 PROVE Reachable'
  <2>1. Reachable
    BY <1>7 DEF Succession
  <2>2. status_port[r] = <<v, r>>
    BY <1>1, <1>2, <2>1 DEF Reachable, Reached
  <2>3. refused' = {}
    BY <1>2, <2>1, <2>2 DEF stop_single_tensor_store, StopPort, Reachable
  <2>4. ASSUME NEW p \in Procs, Reached(p)' PROVE status_port'[p[2]] = p
    <3>1. p[1] \in VNodes /\ p[2] \in Ports
      BY ProcShape
    <3>2. Reached(p)
      BY <1>1, <1>2, <2>4, <3>1 DEF Reached
    <3>3. p[2] # r
      <4>1. CASE p[1] = v
        BY <1>1, <1>2, <2>4, <4>1 DEF Reached
      <4>2. CASE p[1] # v
        BY <2>1, <2>2, <3>2, <4>2 DEF Reachable
      <4> QED BY <4>1, <4>2
    <3> QED BY <1>3, <2>1, <3>1, <3>2, <3>3 DEF Reachable
  <2> QED BY <2>3, <2>4 DEF Reachable
<1> QED BY <1>1, <1>5, <1>6, <1>7 DEF Succession

\* When all ranks have been asked, nobody of the VNode listens any more; the
\* next VNode finds its ports free.
LEMMA StopDoneSuccession ==
  ASSUME StoreInv, Succession, NEW v \in VNodes, StopDone(v)
  PROVE  Succession'
<1>1. /\ vnode[v] = "stopping" /\ unsent[v] = {}
      /\ vnode' = [vnode EXCEPT ![v] = "stopped"]
      /\ is_tensor_store_ready' = is_tensor_store_ready \ {v}
      /\ UNCHANGED <<polled, seen, unsent, refused, leaked>>
  BY DEF StopDone
<1>2. vnode \in [VNodes -> {"new", "waiting", "up", "stopping", "stopped"}]
  BY DEF StoreInv, TypeOK
<1>3. OneInUse'
  BY <1>1, <1>2 DEF Succession, OneInUse
<1>4. ASSUME leaked = {} PROVE \A n \in Ports : status_port[n] = NoProc
  BY <1>1, <1>4, ListenerInUse DEF Succession, PortsInUse
<1>5. /\ \A p \in Procs : main'[p] = main[p] \/ main'[p] = "dead"
      /\ leaked = {} => \A n \in Ports : status_port'[n] = NoProc
  <2>1. CASE Die(Running)
    BY <1>4, <2>1, NoProcIsNone DEF Die, Without, Running
  <2>2. CASE UNCHANGED procVars
    BY <1>4, <2>2 DEF procVars
  <2> QED BY <2>1, <2>2 DEF StopDone
<1>6. ASSUME leaked = {} PROVE PortsInUse' /\ OwnSeen'
  <2>1. PortsInUse'
    BY <1>5, <1>6 DEF PortsInUse
  <2>2. OwnSeen'
    BY <1>1, <1>2, <1>5, <1>6, ProcShape DEF Succession, OwnSeen
  <2> QED BY <2>1, <2>2
<1>7. ASSUME leaked = {}, failures' = 0 PROVE Reachable'
  <2>1. failures = 0
    BY <1>7 DEF StopDone, Fails, StoreInv, TypeOK
  <2>2. Reachable
    BY <1>7, <2>1 DEF Succession
  <2>3. UNCHANGED procVars
    BY <1>7, <2>1, <2>2 DEF StopDone, Reachable
  <2>4. \A p \in Procs : Reached(p)' => Reached(p)
    BY <1>1, <1>2, ProcShape DEF Reached
  <2> QED BY <1>1, <2>2, <2>3, <2>4 DEF Reachable, procVars
<1> QED BY <1>1, <1>3, <1>6, <1>7 DEF Succession

\* Succession is inductive on such a node.
LEMMA StepSuccession ==
  ASSUME FirstRanks
  PROVE  StoreInv /\ Succession /\ [Next]_vars => Succession'
<1> SUFFICES ASSUME StoreInv, Succession, [Next]_vars PROVE Succession'
  OBVIOUS
<1>1. CASE UNCHANGED vars
  BY <1>1 DEF Succession, OneInUse, PortsInUse, OwnSeen, Reachable, Reached,
              vars, procVars, vnodeVars
<1> QED BY <1>1, ProcStepSuccession, StartSuccession, PollSuccession, StopSuccession,
           StopSingleSuccession, StopDoneSuccession
        DEF Next, Idle, StopStep

\* It holds in every state.
LEMMA SuccessionHolds == ASSUME FirstRanks PROVE Spec => []Succession
  BY InitSuccession, StepSuccession, StoresHold, PTL DEF Spec

\* OwnAnswers: on a node whose VNodes all start at local rank 0, a VNode taken
\* for ready has the answers of exactly its own stores, whatever stores earlier
\* VNodes left loading, unless an earlier stop leaked its stores.
THEOREM ReadyOnOwnAnswers == ASSUME FirstRanks PROVE Spec => []OwnAnswers
<1>1. StoreInv /\ Succession => OwnAnswers
  <2> SUFFICES ASSUME StoreInv, Succession, NEW v \in is_tensor_store_ready, leaked = {}
               PROVE  seen[v] = Own(v)
    BY DEF OwnAnswers
  <2>1. v \in VNodes /\ vnode[v] \in {"up", "stopping"}
    BY DEF StoreInv, TypeOK, Succession, OneInUse
  <2> QED BY <2>1 DEF Succession, OwnSeen
<1> QED BY <1>1, SuccessionHolds, StoresHold, PTL

\* KillNeedsFailure: on such a node stop_tensor_store finds every rank of a
\* ready VNode listening, so that it kills nothing, as long as nothing failed
\* and no stop leaked stores.
THEOREM KillsNeedFailures == ASSUME FirstRanks PROVE Spec => []KillNeedsFailure
<1>1. StoreInv /\ Succession => KillNeedsFailure
  BY DEF StoreInv, TypeOK, Succession, Reachable, KillNeedsFailure
<1> QED BY <1>1, SuccessionHolds, StoresHold, PTL
=============================================================================
