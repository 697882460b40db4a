----------------------------- MODULE TensorStore -----------------------------
(***************************************************************************)
(* The tensor store processes of one node                                  *)
(* (TensorStore/raw_s3_tensor_store_server.py) and the VNode operations    *)
(* that start, poll and stop them (GlobalServer/VNode.py).                 *)
(*                                                                         *)
(* A process is <<v, r>>: the store VNode v started for local rank r.  It  *)
(* has a status server thread, loader threads and a main thread.  Ports    *)
(* are offsets from tensor_store_port and from MANAGER_PORT.  VNodes that  *)
(* use the same local ranks follow each other on the node; others share    *)
(* it.  S3, CUDA and the sockets are external.                             *)
(***************************************************************************)
EXTENDS Integers, FiniteSets

CONSTANTS
  VNodes,            \* the VNode objects that use this node
  start_local_rank,  \* VNode.start_local_rank
  tp_size,           \* VNode.tp_size
  Parts,             \* tensors of a layer that fuse_tensor joins
  Plain,             \* required tensors that are kept as they are
  Fused,             \* the joined tensor
  NoProc,            \* no process
  MaxFailures        \* bound: failures of S3, CUDA, ssh or a process

ASSUME StoreAssumption ==
  /\ start_local_rank \in [VNodes -> Nat]
  /\ tp_size \in [VNodes -> Nat \ {0}]
  /\ Fused \notin Parts \cup Plain /\ Parts \cap Plain = {}
  /\ NoProc \notin VNodes \X Nat
  /\ MaxFailures \in Nat

VARIABLES
  main,          \* where each process's main thread is
  todo,          \* required tensors whose loader has not ended
  TENSOR_DICT,   \* names of the tensors a process holds
  load_errors,   \* history: tensors whose loader raised
  TENSOR_INITIALIZE_COMPLETE, \* processes that have set it
  SHUTDOWN_EVENT,\* processes that have set it
  status_port,   \* the process listening on each status port
  manager_port,  \* the process holding each manager port
  deaf,          \* history: processes whose status server could not bind
  vnode,         \* what the global server is doing with each VNode
  is_tensor_store_ready, \* VNodes for which it is True
  polled,        \* ports of a running check that have answered READY
  seen,          \* history: the processes that gave these answers
  unsent,        \* ranks stop_tensor_store has still to ask to shut down
  refused,       \* a rank of the running stop_tensor_store did not say OK
  leaked,        \* history: VNodes whose stop_tensor_store did nothing
  failures       \* counter behind the bound

procVars == <<main, todo, TENSOR_DICT, load_errors, TENSOR_INITIALIZE_COMPLETE,
              SHUTDOWN_EVENT, status_port, manager_port, deaf>>
vnodeVars == <<vnode, is_tensor_store_ready, polled, seen, unsent, refused, leaked>>
vars == <<procVars, vnodeVars, failures>>

Ranks(v) == start_local_rank[v] .. (start_local_rank[v] + tp_size[v] - 1)
Own(v) == {v} \X Ranks(v)
Procs == UNION {Own(v) : v \in VNodes}
PollPorts(v) == 0..(tp_size[v] - 1)
Ports == UNION {Ranks(v) \cup PollPorts(v) : v \in VNodes}
Required == Parts \cup Plain
Running == {p \in Procs : main[p] \notin {"none", "dead"}}

Init ==
  /\ main = [p \in Procs |-> "none"]
  /\ todo = [p \in Procs |-> {}]
  /\ TENSOR_DICT = [p \in Procs |-> {}]
  /\ load_errors = [p \in Procs |-> {}]
  /\ TENSOR_INITIALIZE_COMPLETE = {}
  /\ SHUTDOWN_EVENT = {}
  /\ status_port = [n \in Ports |-> NoProc]
  /\ manager_port = [n \in Ports |-> NoProc]
  /\ deaf = {}
  /\ vnode = [v \in VNodes |-> "new"]
  /\ is_tensor_store_ready = {}
  /\ polled = [v \in VNodes |-> 0]
  /\ seen = [v \in VNodes |-> {}]
  /\ unsent = [v \in VNodes |-> {}]
  /\ refused = {}
  /\ leaked = {}
  /\ failures = 0

Fails == failures < MaxFailures /\ failures' = failures + 1

-----------------------------------------------------------------------------
(* One process.                                                            *)

\* The processes D are gone, with their memory, threads and ports.
Without(port, D) == [n \in Ports |-> IF port[n] \in D THEN NoProc ELSE port[n]]
Emptied(f, D) == [p \in Procs |-> IF p \in D THEN {} ELSE f[p]]
Die(D) ==
  /\ main' = [p \in Procs |-> IF p \in D THEN "dead" ELSE main[p]]
  /\ todo' = Emptied(todo, D)
  /\ TENSOR_DICT' = Emptied(TENSOR_DICT, D)
  /\ load_errors' = Emptied(load_errors, D)
  /\ TENSOR_INITIALIZE_COMPLETE' = TENSOR_INITIALIZE_COMPLETE \ D
  /\ SHUTDOWN_EVENT' = SHUTDOWN_EVENT \ D
  /\ status_port' = Without(status_port, D)
  /\ manager_port' = Without(manager_port, D)
  /\ deaf' = deaf \ D

\* main starts the status server thread, which dies alone if its port is
\* taken, and goes on to the S3 listing and the submission of the loaders.
Boot(p) ==
  /\ main[p] = "started"
  /\ main' = [main EXCEPT ![p] = "loading"]
  /\ todo' = [todo EXCEPT ![p] = Required]
  /\ IF status_port[p[2]] = NoProc
     THEN status_port' = [status_port EXCEPT ![p[2]] = p] /\ UNCHANGED deaf
     ELSE deaf' = deaf \cup {p} /\ UNCHANGED status_port
  /\ UNCHANGED <<TENSOR_DICT, load_errors, TENSOR_INITIALIZE_COMPLETE, SHUTDOWN_EVENT,
                 manager_port, vnodeVars, failures>>

\* A loader thread puts its tensor into TENSOR_DICT.
LoadTensor(p, x) ==
  /\ main[p] = "loading" /\ x \in todo[p]
  /\ todo' = [todo EXCEPT ![p] = @ \ {x}]
  /\ TENSOR_DICT' = [TENSOR_DICT EXCEPT ![p] = @ \cup {x}]
  /\ UNCHANGED <<main, load_errors, TENSOR_INITIALIZE_COMPLETE, SHUTDOWN_EVENT,
                 status_port, manager_port, deaf, vnodeVars, failures>>

\* A loader raises; as_completed only logs it.
LoadFails(p, x) ==
  /\ main[p] = "loading" /\ x \in todo[p]
  /\ Fails
  /\ todo' = [todo EXCEPT ![p] = @ \ {x}]
  /\ load_errors' = [load_errors EXCEPT ![p] = @ \cup {x}]
  /\ UNCHANGED <<main, TENSOR_DICT, TENSOR_INITIALIZE_COMPLETE, SHUTDOWN_EVENT,
                 status_port, manager_port, deaf, vnodeVars>>

\* What fuse_tensor leaves: parts that are not all there stay as they are.
fuse_tensor(dict) ==
  IF Parts \subseteq dict /\ Parts # {} THEN (dict \ Parts) \cup {Fused} ELSE dict

\* Mutant: the fusion does not wait for the loaders.
FuseEarly(p) ==
  /\ main[p] = "loading" /\ TENSOR_DICT[p] # {}
  /\ TENSOR_DICT' = [TENSOR_DICT EXCEPT ![p] = fuse_tensor(@)]
  /\ main' = [main EXCEPT ![p] = "caching"]
  /\ UNCHANGED <<todo, load_errors, TENSOR_INITIALIZE_COMPLETE, SHUTDOWN_EVENT,
                 status_port, manager_port, deaf, vnodeVars, failures>>
\* All loaders have ended; an empty dictionary raises, else fusion and then
\* the allocation of the KV cache.
Fuse(p) ==
  /\ main[p] = "loading" /\ todo[p] = {}
  /\ IF TENSOR_DICT[p] = {}
     THEN Die({p})
     ELSE /\ TENSOR_DICT' = [TENSOR_DICT EXCEPT ![p] = fuse_tensor(@)]
          /\ main' = [main EXCEPT ![p] = "caching"]
          /\ UNCHANGED <<todo, load_errors, TENSOR_INITIALIZE_COMPLETE, SHUTDOWN_EVENT,
                         status_port, manager_port, deaf>>
  /\ UNCHANGED <<vnodeVars, failures>>

\* Mutant: the flag is not set.
OpenManagerSilently(p) ==
  /\ main[p] = "caching" /\ manager_port[p[2]] = NoProc
  /\ manager_port' = [manager_port EXCEPT ![p[2]] = p]
  /\ main' = [main EXCEPT ![p] = "serving"]
  /\ UNCHANGED <<todo, TENSOR_DICT, load_errors, TENSOR_INITIALIZE_COMPLETE,
                 SHUTDOWN_EVENT, status_port, deaf, vnodeVars, failures>>
\* manager.get_server binds the manager port, or the process ends; then the
\* flag is set and the server thread started.
OpenManager(p) ==
  /\ main[p] = "caching"
  /\ IF manager_port[p[2]] # NoProc
     THEN Die({p})
     ELSE /\ manager_port' = [manager_port EXCEPT ![p[2]] = p]
          /\ TENSOR_INITIALIZE_COMPLETE' = TENSOR_INITIALIZE_COMPLETE \cup {p}
          /\ main' = [main EXCEPT ![p] = "serving"]
          /\ UNCHANGED <<todo, TENSOR_DICT, load_errors, SHUTDOWN_EVENT, status_port, deaf>>
  /\ UNCHANGED <<vnodeVars, failures>>

\* Mutant: the main thread looks at the event only while it loads.
ExitWhileLoading(p) ==
  /\ main[p] = "loading" /\ p \in SHUTDOWN_EVENT
  /\ Die({p})
  /\ UNCHANGED <<vnodeVars, failures>>
\* SHUTDOWN_EVENT.wait() returns; the daemon threads go with the process.
Exit(p) ==
  /\ main[p] = "serving" /\ p \in SHUTDOWN_EVENT
  /\ Die({p})
  /\ UNCHANGED <<vnodeVars, failures>>

\* ssh does not start it, S3 or the configuration cannot be read, no tensor is
\* listed, no room is left for the KV cache, or the process is killed.
Crash(p) ==
  /\ p \in Running
  /\ Fails
  /\ Die({p})
  /\ UNCHANGED vnodeVars

-----------------------------------------------------------------------------
(* The VNode operations.                                                   *)

\* The operator reuses local ranks only after the VNode that had them was
\* told to stop.
Overlap(v, w) == Ranks(v) \cap Ranks(w) # {}
start_tensor_store(v) ==
  /\ vnode[v] = "new"
  /\ \A w \in VNodes : w # v /\ Overlap(v, w) => vnode[w] \in {"new", "stopped"}
  /\ main' = [p \in Procs |-> IF p \in Own(v) THEN "started" ELSE main[p]]
  /\ vnode' = [vnode EXCEPT ![v] = "waiting"]
  /\ UNCHANGED <<todo, TENSOR_DICT, load_errors, TENSOR_INITIALIZE_COMPLETE,
                 SHUTDOWN_EVENT, status_port, manager_port, deaf,
                 is_tensor_store_ready, polled, seen, unsent, refused, leaked, failures>>

\* The status server at a port answers STATUS_CHECK with READY.
AnswersReady(port) == status_port[port] \in TENSOR_INITIALIZE_COMPLETE

\* Mutants: one store less than there are is polled, or one more.
LastPort(v) == polled[v] + 1 >= tp_size[v] - 1
OnePortMore(v) == polled[v] = tp_size[v]
\* The port polled is the last one.
AllPolled(v) == polled[v] + 1 = tp_size[v]

\* check_tensor_store_status asks port base_port + i; the first one that is
\* not ready ends the pass, and the caller begins another.
check_tensor_store_status(v) ==
  /\ vnode[v] = "waiting"
  /\ IF AnswersReady(polled[v])
     THEN /\ seen' = [seen EXCEPT ![v] = @ \cup {status_port[polled[v]]}]
          /\ IF AllPolled(v)
             THEN /\ is_tensor_store_ready' = is_tensor_store_ready \cup {v}
                  /\ vnode' = [vnode EXCEPT ![v] = "up"]
                  /\ polled' = [polled EXCEPT ![v] = 0]
             ELSE /\ polled' = [polled EXCEPT ![v] = @ + 1]
                  /\ UNCHANGED <<is_tensor_store_ready, vnode>>
     ELSE /\ polled' = [polled EXCEPT ![v] = 0]
          /\ seen' = [seen EXCEPT ![v] = {}]
          /\ is_tensor_store_ready' = is_tensor_store_ready \ {v}
          /\ UNCHANGED vnode
  /\ UNCHANGED <<procVars, unsent, refused, leaked, failures>>

\* stop_tensor_store returns at once unless the last check found it ready.
stop_tensor_store(v) ==
  /\ vnode[v] \in {"waiting", "up"}
  /\ IF v \in is_tensor_store_ready
     THEN /\ vnode' = [vnode EXCEPT ![v] = "stopping"]
          /\ unsent' = [unsent EXCEPT ![v] = Ranks(v)]
          /\ UNCHANGED leaked
     ELSE /\ vnode' = [vnode EXCEPT ![v] = "stopped"]
          /\ leaked' = leaked \cup {v}
          /\ UNCHANGED unsent
  /\ UNCHANGED <<procVars, is_tensor_store_ready, polled, seen, refused, failures>>

\* Mutant: the status server goes on listening after SHUTDOWN.
StatusServerStays(p) ==
  /\ SHUTDOWN_EVENT' = SHUTDOWN_EVENT \cup {p}
  /\ UNCHANGED status_port
\* The status server says OK, sets the event and closes its port.
AcceptShutdown(p) ==
  /\ SHUTDOWN_EVENT' = SHUTDOWN_EVENT \cup {p}
  /\ status_port' = Without(status_port, {p})

\* Mutant: every pool thread asks the first port.
FirstPort(v, r) == start_local_rank[v]
\* tensor_store_port + start_local_rank + local_rank, where r is the sum of
\* the last two.
StopPort(v, r) == r

\* stop_single_tensor_store for local rank r, by a pool thread.
stop_single_tensor_store(v, r) ==
  /\ vnode[v] = "stopping" /\ r \in unsent[v]
  /\ unsent' = [unsent EXCEPT ![v] = @ \ {r}]
  /\ IF status_port[StopPort(v, r)] # NoProc
     THEN AcceptShutdown(status_port[StopPort(v, r)]) /\ UNCHANGED refused
     ELSE refused' = refused \cup {v} /\ UNCHANGED <<SHUTDOWN_EVENT, status_port>>
  /\ UNCHANGED <<main, todo, TENSOR_DICT, load_errors, TENSOR_INITIALIZE_COMPLETE,
                 manager_port, deaf, vnode, is_tensor_store_ready, polled, seen,
                 leaked, failures>>

\* Unless every rank said OK, every tensor store of the node is killed; an
\* ssh error (Fails) leaves them.
StopDone(v) ==
  /\ vnode[v] = "stopping" /\ unsent[v] = {}
  /\ \/ v \in refused /\ Die(Running) /\ UNCHANGED failures
     \/ v \in refused /\ Fails /\ UNCHANGED procVars
     \/ v \notin refused /\ UNCHANGED <<procVars, failures>>
  /\ vnode' = [vnode EXCEPT ![v] = "stopped"]
  /\ is_tensor_store_ready' = is_tensor_store_ready \ {v}
  /\ UNCHANGED <<polled, seen, unsent, refused, leaked>>

-----------------------------------------------------------------------------
ProcStep(p) == \/ Boot(p)
               \/ \E x \in Required : LoadTensor(p, x)
               \/ Fuse(p)
               \/ OpenManager(p)
               \/ Exit(p)
StopStep(v) == (\E r \in Ranks(v) : stop_single_tensor_store(v, r)) \/ StopDone(v)

\* Nothing is running and every VNode has been stopped, or nobody stops one.
Idle == (\A v \in VNodes : vnode[v] # "stopping") /\ UNCHANGED vars

Next ==
  \/ \E p \in Procs : \/ ProcStep(p)
                      \/ \E x \in Required : LoadFails(p, x)
                      \/ Crash(p)
  \/ \E v \in VNodes : \/ start_tensor_store(v)
                       \/ check_tensor_store_status(v)
                       \/ stop_tensor_store(v)
                       \/ StopStep(v)
  \/ Idle

Spec == Init /\ [][Next]_vars

\* Threads and processes that can take a step take it, and the global server
\* goes on polling and stopping; nobody is obliged to start or to stop.
FairSpec ==
  /\ Spec
  /\ \A p \in Procs : WF_vars(ProcStep(p))
  /\ \A v \in VNodes : WF_vars(check_tensor_store_status(v)) /\ WF_vars(StopStep(v))
-----------------------------------------------------------------------------
(* Properties.                                                             *)

PortMaps == [Ports -> Procs \cup {NoProc}]

\* Types of the variables; no port beyond the VNode's is polled.
TypeOK ==
  /\ main \in [Procs -> {"none", "started", "loading", "caching", "serving", "dead"}]
  /\ todo \in [Procs -> SUBSET Required]
  /\ TENSOR_DICT \in [Procs -> SUBSET (Required \cup {Fused})]
  /\ load_errors \in [Procs -> SUBSET Required]
  /\ TENSOR_INITIALIZE_COMPLETE \subseteq Procs /\ SHUTDOWN_EVENT \subseteq Procs
  /\ status_port \in PortMaps /\ manager_port \in PortMaps
  /\ deaf \subseteq Procs
  /\ vnode \in [VNodes -> {"new", "waiting", "up", "stopping", "stopped"}]
  /\ is_tensor_store_ready \subseteq VNodes
  /\ polled \in [VNodes -> Nat] /\ \A v \in VNodes : polled[v] < tp_size[v]
  /\ seen \in [VNodes -> SUBSET Procs]
  /\ unsent \in [VNodes -> SUBSET Nat]
  /\ refused \subseteq VNodes /\ leaked \subseteq VNodes
  /\ failures \in 0..MaxFailures

\* A store that says READY has every tensor its stage needs, under the names
\* the workers look up: the loaders, the fusion and the flag are in order, and
\* only a loader that raised can leave one out.
Whole == IF Parts = {} THEN Plain ELSE Plain \cup {Fused}
ReadyIsWhole ==
  \A p \in TENSOR_INITIALIZE_COMPLETE : TENSOR_DICT[p] = Whole \/ load_errors[p] # {}

\* A VNode is taken for ready because its own stores said so, also on a node
\* whose ranks were used before, unless an earlier stop found its VNode not
\* ready and left the stores running.
OwnAnswers ==
  \A v \in is_tensor_store_ready : seen[v] = Own(v) \/ leaked # {}

\* "Check if all tensor store servers on this node are ready" (VNode.py:1294):
\* a VNode is ready when all its own stores said READY.
ReadyIsOwn == \A v \in is_tensor_store_ready : seen[v] = Own(v)

\* A store that has accepted SHUTDOWN is never again taken for ready, not
\* even when it was still loading and sets its flag later.
SilentAfterShutdown ==
  [][\A v \in VNodes : (seen'[v] \ seen[v]) \cap SHUTDOWN_EVENT = {}]_vars

\* stop_tensor_store kills every store of the node only after something else
\* went wrong: a VNode that was found ready can be stopped through its own
\* ports, whatever happened to the ranks before it.
KillNeedsFailure == refused # {} => failures > 0 \/ leaked # {}

\* A store that is shut down gives its memory back: the process ends, also
\* when it was still loading.
ShutdownEnds == \A p \in Procs : p \in SHUTDOWN_EVENT ~> main[p] = "dead"

\* Waiting for a VNode's stores ends, unless one of them died or could not
\* open its status port (the poll then goes on for ever: nothing looks at the
\* process).
WaitEnds ==
  \A v \in VNodes :
     vnode[v] = "waiting" ~>
        \/ vnode[v] # "waiting"
        \/ \E p \in Own(v) : main[p] = "dead" \/ p \in deaf
=============================================================================
