------------------------- MODULE GlobalServerProofs -------------------------
(***************************************************************************)
(* Proofs, for every value of the constants, about GlobalServer.           *)
(***************************************************************************)
EXTENDS GlobalServer, FiniteSetTheorems, TLAPS

-----------------------------------------------------------------------------
(* Types of the operators the actions are built from.                      *)

\* A task record built from parts of the right kind is a task state.
LEMMA TaskType ==
  ASSUME NEW at \in {"none", "created", "sending", "connecting", "streaming"},
         NEW i \in Nat \ {0}, NEW p \in Pipelines \cup {NoPipeline},
         NEW s \in (Pipelines \X Addresses) \cup {NoServer}
  PROVE  Task(at, i, p, s) \in TaskStates
  BY DEF Task, TaskStates

\* The absent task and the absent server have the right types.
LEMMA NoTaskType == NoTask \in TaskStates
  BY DEF NoTask, Task, TaskStates

\* Job builds a record of the right type.
LEMMA JobType ==
  ASSUME NEW remove \in BOOLEAN, NEW indices \in SUBSET (Nat \ {0}), NEW targets \in SUBSET Pipelines
  PROVE  Job(remove, indices, targets) \in Jobs
  BY DEF Job, Jobs

\* Charging and uncharging a pipeline keep the counters natural numbers.
LEMMA FlyingType ==
  ASSUME flying_requests \in [Pipelines -> Nat], NEW p
  PROVE  /\ add_flying_request(p) \in [Pipelines -> Nat]
         /\ remove_flying_request(p) \in [Pipelines -> Nat]
<1>1. CASE p \in Pipelines
  BY <1>1 DEF add_flying_request, remove_flying_request
<1>2. CASE p \notin Pipelines
  BY <1>2 DEF add_flying_request, remove_flying_request
<1> QED BY <1>1, <1>2

\* The cleanup only removes ids from inflight_requests.
LEMMA CleanedUpSubset == \A S, tk : CleanedUp(S, tk) \subseteq S
  BY DEF CleanedUp

\* The list remove_pipelines builds is a list of pipelines.
LEMMA KeptType ==
  ASSUME NEW s \in Seq(Pipelines), NEW S, NEW f \in KeptPositions(Len(s), S)
  PROVE  [k \in DOMAIN f |-> s[f[k]]] \in Seq(Pipelines)
<1> DEFINE keep == (1..Len(s)) \ S
           n == Cardinality(keep)
<1>0. Len(s) \in Nat
  OBVIOUS
<1>1. IsFiniteSet(1..Len(s))
  BY <1>0, FS_Interval
<1>2. IsFiniteSet(keep)
  BY <1>1, FS_Subset, keep \subseteq 1..Len(s)
<1>3. n \in Nat
  BY <1>2, FS_CardinalityType
<1>4. f \in [1..n -> keep]
  BY DEF KeptPositions
<1> HIDE DEF n
<1>5. \A k \in 1..n : s[f[k]] \in Pipelines
  BY <1>4
<1>6. [k \in 1..n |-> s[f[k]]] \in Seq(Pipelines)
  BY <1>3, <1>5
<1>7. DOMAIN f = 1..n
  BY <1>4
<1> QED BY <1>6, <1>7

-----------------------------------------------------------------------------
(* Type correctness.                                                       *)

\* The variables have their types when the server starts.
LEMMA InitType == Init => TypeOK
<1> SUFFICES ASSUME Init PROVE TypeOK
  OBVIOUS
<1>1. job \in [Ops -> Jobs]
  BY JobType DEF Init
<1>2. pipelines \in Seq(Pipelines) /\ made \in SUBSET Pipelines
  BY ConstantsAssumption DEF Init, Range
<1>3. is_ready \in [Pipelines -> BOOLEAN]
  BY DEF Init
<1>4. /\ addr \in [Pipelines -> Addresses] /\ head \in [Pipelines -> Addresses]
      /\ servers \in SUBSET (Pipelines \X Addresses)
  <2>1. addr \in [Pipelines -> Addresses] /\ head = addr
    BY ConstantsAssumption DEF Init, Addresses
  <2>2. servers = {<<p, addr[p]>> : p \in made}
    BY DEF Init
  <2> QED BY <1>2, <2>1, <2>2
<1>5. task \in [Requests -> TaskStates]
  BY NoTaskType DEF Init
<1>6. LoopTypeOK
  BY <1>5 DEF Init, LoopTypeOK
<1>7. /\ switching \in [Pipelines -> SwitchStates] /\ old_first \in [Pipelines -> Hosts]
      /\ failed \in SUBSET Pipelines /\ misdirected \in SUBSET Pipelines
  BY ConstantsAssumption DEF Init, SwitchStates
<1>8. pc \in [Ops -> OpStates] /\ todo \in [Ops -> SUBSET (Nat \ {0})]
  BY DEF Init, OpStates
<1>9. victim \in [Ops -> Pipelines \cup {NoPipeline}]
  BY DEF Init
<1>10. new_pipelines \in [Ops -> Seq(Pipelines)]
  <2>1. << >> \in Seq(Pipelines)
    OBVIOUS
  <2> QED BY <2>1 DEF Init
<1>11. /\ stopped \in SUBSET Pipelines
       /\ removals \in Nat /\ stops \in Nat /\ switches \in Nat /\ failures \in Nat
  BY DEF Init
<1>12. ClusterTypeOK
  BY <1>1, <1>2, <1>3, <1>4, <1>7, <1>8, <1>9, <1>10, <1>11 DEF ClusterTypeOK
<1> QED BY <1>6, <1>12 DEF TypeOK

\* Steps of the event loop leave the cluster's variables alone.
LEMMA LoopLeavesCluster == ClusterTypeOK /\ UNCHANGED clusterVars => ClusterTypeOK'
  BY DEF ClusterTypeOK, clusterVars, switchVars, opVars

\* A thread that leaves the event loop's variables alone keeps their types.
LEMMA ThreadsLeaveLoop == LoopTypeOK /\ UNCHANGED loopVars => LoopTypeOK'
  BY DEF LoopTypeOK, loopVars

\* add_request keeps the types.
LEMMA AddRequestType ==
  ASSUME LoopTypeOK, NEW r \in Requests, AddRequest(r)
  PROVE  LoopTypeOK' /\ UNCHANGED clusterVars
<1>1. LoopTypeOK'
  <2>1. /\ Append(urgent_queue, r) \in Seq(Requests)
        /\ Append(waiting_queue, r) \in Seq(Requests)
    BY DEF LoopTypeOK
  <2>2. /\ urgent_queue' \in Seq(Requests)
        /\ waiting_queue' \in Seq(Requests)
    BY <2>1 DEF AddRequest, LoopTypeOK
  <2>3. added' \in SUBSET Requests
    BY DEF AddRequest, LoopTypeOK
  <2>4. UNCHANGED <<inflight_requests, task, completed, flying_requests, faults>>
    BY DEF AddRequest
  <2> QED BY <2>2, <2>3, <2>4 DEF LoopTypeOK
<1>2. UNCHANGED clusterVars
  BY DEF AddRequest
<1> QED BY <1>1, <1>2

\* An iteration of run_global_server keeps the types.
LEMMA LoopStepType ==
  ASSUME TypeOK, LoopStep
  PROVE  LoopTypeOK' /\ UNCHANGED clusterVars
<1>0. LoopTypeOK /\ \A i \in 1..Len(pipelines) : i \in Nat \ {0}
  BY DEF TypeOK, ClusterTypeOK
<1>1. ASSUME NEW r \in Requests, NEW i \in 1..Len(pipelines), CreateTask(r, i)
      PROVE  /\ task' \in [Requests -> TaskStates]
             /\ inflight_requests' \in SUBSET Requests
             /\ UNCHANGED <<added, completed, flying_requests, faults, clusterVars>>
  <2>1. Task("created", i, NoPipeline, NoServer) \in TaskStates
    <3>1. i \in Nat \ {0}
      BY <1>0
    <3> QED BY <3>1, TaskType, NoTaskType
  <2>2. task' \in [Requests -> TaskStates]
    BY <1>0, <1>1, <2>1 DEF CreateTask, LoopTypeOK
  <2>3. inflight_requests' \in SUBSET Requests
    <3>1. inflight_requests' \subseteq inflight_requests \cup {r}
      BY <1>1, CleanedUpSubset DEF CreateTask
    <3> QED BY <1>0, <3>1 DEF LoopTypeOK
  <2> QED BY <1>1, <2>2, <2>3 DEF CreateTask
<1>2. ASSUME NEW i \in 1..Len(pipelines), DispatchUrgent(i)
      PROVE  LoopTypeOK' /\ UNCHANGED clusterVars
  <2>1. Head(urgent_queue) \in Requests /\ Tail(urgent_queue) \in Seq(Requests)
    BY <1>0, <1>2 DEF DispatchUrgent, LoopTypeOK
  <2> QED BY <1>0, <1>1, <1>2, <2>1 DEF DispatchUrgent, LoopTypeOK
<1>3. ASSUME NEW i \in 1..Len(pipelines), DispatchWaiting(i)
      PROVE  LoopTypeOK' /\ UNCHANGED clusterVars
  <2>1. Head(waiting_queue) \in Requests /\ Tail(waiting_queue) \in Seq(Requests)
    BY <1>0, <1>3 DEF DispatchWaiting, LoopTypeOK
  <2> QED BY <1>0, <1>1, <1>3, <2>1 DEF DispatchWaiting, LoopTypeOK
<1>4. CASE IdleIteration
  BY <1>0, <1>4, CleanedUpSubset DEF IdleIteration, LoopTypeOK
<1> QED BY <1>2, <1>3, <1>4 DEF LoopStep

\* A step of a _handle_request task keeps the types.
LEMMA TaskStepType ==
  ASSUME TypeOK, NEW r \in Requests, TaskStep(r)
  PROVE  LoopTypeOK' /\ UNCHANGED clusterVars
<1> USE DEF LoopTypeOK
<1>0. /\ task[r].index \in Nat \ {0}
      /\ task[r].pipeline \in Pipelines \cup {NoPipeline}
      /\ task[r].server \in (Pipelines \X Addresses) \cup {NoServer}
      /\ LoopTypeOK /\ pipelines \in Seq(Pipelines) /\ addr \in [Pipelines -> Addresses]
  BY DEF TypeOK, ClusterTypeOK, TaskStates
<1>1. ASSUME Requeue(r), faults' \in Nat
      PROVE  LoopTypeOK' /\ UNCHANGED clusterVars
  <2>1. urgent_queue' \in Seq(Requests)
    BY <1>0, <1>1 DEF Requeue
  <2>2. task' \in [Requests -> TaskStates]
    BY <1>0, <1>1, NoTaskType DEF Requeue
  <2>3. flying_requests' \in [Pipelines -> Nat]
    BY <1>0, <1>1, FlyingType DEF Requeue
  <2>4. UNCHANGED <<waiting_queue, inflight_requests, added, completed, clusterVars>>
    BY <1>1 DEF Requeue
  <2> QED BY <1>0, <1>1, <2>1, <2>2, <2>3, <2>4
<1>2. CASE StartTask(r)
  <2>1. CASE task[r].index > Len(pipelines)
    BY <1>0, <1>2, <2>1, NoTaskType DEF StartTask
  <2>2. CASE ~(task[r].index > Len(pipelines))
    <3> DEFINE p == pipelines[task[r].index]
    <3>1. p \in Pipelines
      BY <1>0, <2>2
    <3>2. Task("sending", task[r].index, p, NoServer) \in TaskStates
      BY <1>0, <3>1, TaskType, NoTaskType
    <3>3. task' = [task EXCEPT ![r] = Task("sending", task[r].index, p, NoServer)]
      BY <1>2, <2>2 DEF StartTask
    <3>4. flying_requests' = add_flying_request(p)
      BY <1>2, <2>2 DEF StartTask
    <3> HIDE DEF p
    <3> QED BY <1>0, <1>2, <3>1, <3>2, <3>3, <3>4, FlyingType DEF StartTask
  <2> QED BY <2>1, <2>2
<1>3. CASE SendRequest(r)
  <2>1. CASE task[r].index > Len(pipelines)
    <3>1. Requeue(r) /\ faults' = faults
      BY <1>3, <2>1 DEF SendRequest
    <3>2. faults' \in Nat
      BY <1>0, <3>1
    <3> HIDE DEF LoopTypeOK
    <3> QED BY <1>1, <3>1, <3>2
  <2>2. CASE ~(task[r].index > Len(pipelines))
    <3> DEFINE q == pipelines[task[r].index]
               s == <<q, addr[q]>>
    <3>1. s \in (Pipelines \X Addresses) \cup {NoServer}
      BY <1>0, <2>2
    <3>2. Task("connecting", task[r].index, task[r].pipeline, s) \in TaskStates
      BY <1>0, <3>1, TaskType
    <3>3. task' = [task EXCEPT ![r] = Task("connecting", task[r].index, task[r].pipeline, s)]
      BY <1>3, <2>2 DEF SendRequest
    <3> HIDE DEF s
    <3> QED BY <1>0, <1>3, <2>2, <3>2, <3>3 DEF SendRequest
  <2> QED BY <2>1, <2>2
<1>4. CASE Connect(r)
  <2>1. Task("streaming", task[r].index, task[r].pipeline, task[r].server) \in TaskStates
    BY <1>0, TaskType
  <2> QED BY <1>0, <1>4, <2>1 DEF Connect
<1>5. CASE ConnectionRefused(r)
  <2>1. Requeue(r) /\ faults' = faults
    BY <1>5 DEF ConnectionRefused
  <2>2. faults' \in Nat
    BY <1>0, <2>1
  <2> HIDE DEF LoopTypeOK
  <2> QED BY <1>1, <2>1, <2>2
<1>6. CASE Complete(r)
  BY <1>0, <1>6, NoTaskType, FlyingType DEF Complete
<1>7. CASE StreamBroken(r)
  <2>1. Requeue(r) /\ (faults' = faults \/ faults' = faults + 1)
    BY <1>7 DEF StreamBroken
  <2>2. faults' \in Nat
    BY <1>0, <2>1
  <2> HIDE DEF LoopTypeOK
  <2> QED BY <1>1, <2>1, <2>2
<1> QED BY <1>2, <1>3, <1>4, <1>5, <1>6, <1>7 DEF TaskStep

\* Threads: the cluster's variables keep their types.
LEMMA CreatePipelineType ==
  ASSUME ClusterTypeOK, NEW p \in Pipelines, CreatePipeline(p)
  PROVE  ClusterTypeOK' /\ UNCHANGED loopVars
<1>1. pipelines' \in Seq(Pipelines) /\ made' \in SUBSET Pipelines
  BY DEF CreatePipeline, ClusterTypeOK
<1>2. is_ready' \in [Pipelines -> BOOLEAN]
  BY DEF CreatePipeline, ClusterTypeOK
<1>3. servers' \in SUBSET (Pipelines \X Addresses)
  BY DEF CreatePipeline, ClusterTypeOK
<1> QED BY <1>1, <1>2, <1>3 DEF CreatePipeline, ClusterTypeOK, switchVars, opVars

\* The new API server's address is an address.
LEMMA NewAddressType ==
  ASSUME ClusterTypeOK, NEW p \in Pipelines
  PROVE  NewAddress(p) \in Addresses
<1>1. head[p][1] \in Hosts /\ addr[p][2] \in Nat
  BY DEF ClusterTypeOK, Addresses
<1> QED BY <1>1 DEF NewAddress, Addresses

\* Stopping a server adds none.
LEMMA StopSubset == \A p, h, port : \A S \in stop_api_server(p, h, port) : S \subseteq servers
  BY DEF stop_api_server

\* switch_nodes touches neither the list nor the calls that stop pipelines.
LEMMA SwitchLeavesList ==
  ASSUME NEW p, SwitchStep(p)
  PROVE  UNCHANGED <<loopVars, pipelines, made, opVars, stopped, removals, stops>>
  BY DEF SwitchStep, SwitchGoesOn, SwitchBegin, SwitchRaises, SwitchRaisesPortless, SwitchStart,
         SwitchOff, SwitchStopOld, SwitchHost, SwitchPort, SwitchOn

\* A step of switch_nodes keeps the types.
LEMMA SwitchStepType ==
  ASSUME ClusterTypeOK, NEW p \in Pipelines, SwitchStep(p)
  PROVE  ClusterTypeOK' /\ UNCHANGED loopVars
<1>1. CASE SwitchBegin(p)
  <2>1. PICK v \in {head[p]} \cup (Hosts \X {NoPort}) :
           /\ head' = [head EXCEPT ![p] = v]
           /\ misdirected' = misdirected \cup
                {q \in {p} : v[1] = head[p][1] /\ addr[p][1] # head[p][1]}
    BY <1>1 DEF SwitchBegin
  <2>2. v \in Addresses /\ head[p][1] \in Hosts
    BY DEF ClusterTypeOK, Addresses, NoPort
  <2>3. head' \in [Pipelines -> Addresses] /\ misdirected' \in SUBSET Pipelines
    BY <2>1, <2>2 DEF ClusterTypeOK
  <2>4. old_first' \in [Pipelines -> Hosts] /\ switching' \in [Pipelines -> SwitchStates]
    BY <1>1, <2>2 DEF SwitchBegin, ClusterTypeOK, SwitchStates
  <2> QED BY <1>1, <2>3, <2>4 DEF SwitchBegin, ClusterTypeOK, opVars
<1>2. CASE SwitchRaises(p) \/ SwitchRaisesPortless(p)
  <2>1. switching' = [switching EXCEPT ![p] = "none"]
    BY <1>2 DEF SwitchRaises, SwitchRaisesPortless
  <2>2. switching' \in [Pipelines -> SwitchStates]
    BY <2>1 DEF ClusterTypeOK, SwitchStates
  <2>3. /\ failed' = failed \/ failed' = failed \cup {p}
        /\ failures' = failures \/ failures' = failures + 1
    BY <1>2 DEF SwitchRaises, SwitchRaisesPortless
  <2>4. failed' \in SUBSET Pipelines /\ failures' \in Nat
    BY <2>3 DEF ClusterTypeOK
  <2> QED BY <1>2, <2>2, <2>4 DEF SwitchRaises, SwitchRaisesPortless, ClusterTypeOK, opVars
<1>3. CASE SwitchStart(p)
  <2>1. PICK a \in Addresses : a = NewAddress(p)
    BY NewAddressType
  <2>2. /\ head' \in [Pipelines -> Addresses] /\ switching' \in [Pipelines -> SwitchStates]
        /\ servers' \in SUBSET (Pipelines \X Addresses)
    BY <1>3, <2>1 DEF SwitchStart, ClusterTypeOK, SwitchStates
  <2> QED BY <1>3, <2>2 DEF SwitchStart, ClusterTypeOK, opVars
<1>4. CASE SwitchOff(p)
  <2>1. is_ready' \in [Pipelines -> BOOLEAN] /\ switching' \in [Pipelines -> SwitchStates]
    BY <1>4 DEF SwitchOff, ClusterTypeOK, SwitchStates
  <2> QED BY <1>4, <2>1 DEF SwitchOff, ClusterTypeOK, opVars
<1>5. CASE SwitchStopOld(p)
  <2>1. servers' \in SUBSET (Pipelines \X Addresses)
    BY <1>5, StopSubset DEF SwitchStopOld, ClusterTypeOK
  <2>2. switching' \in [Pipelines -> SwitchStates]
    BY <1>5 DEF SwitchStopOld, ClusterTypeOK, SwitchStates
  <2> QED BY <1>5, <2>1, <2>2 DEF SwitchStopOld, ClusterTypeOK, opVars
<1>6. CASE SwitchHost(p) \/ SwitchPort(p)
  <2>1. <<head[p][1], addr[p][2]>> \in Addresses /\ head[p] \in Addresses
    BY DEF ClusterTypeOK, Addresses
  <2>2. addr' \in [Pipelines -> Addresses] /\ switching' \in [Pipelines -> SwitchStates]
    BY <1>6, <2>1 DEF SwitchHost, SwitchPort, ClusterTypeOK, SwitchStates
  <2> QED BY <1>6, <2>2 DEF SwitchHost, SwitchPort, ClusterTypeOK, opVars
<1>7. CASE SwitchOn(p)
  <2>1. is_ready' \in [Pipelines -> BOOLEAN] /\ switching' \in [Pipelines -> SwitchStates]
    BY <1>7 DEF SwitchOn, ClusterTypeOK, SwitchStates
  <2> QED BY <1>7, <2>1 DEF SwitchOn, ClusterTypeOK, opVars
<1> QED BY <1>1, <1>2, <1>3, <1>4, <1>5, <1>6, <1>7 DEF SwitchStep, SwitchGoesOn

\* A step of stop_nodes, stop_node or remove_pipelines keeps the types.
LEMMA OpStepType ==
  ASSUME ClusterTypeOK, NEW t \in Ops, OpStep(t)
  PROVE  ClusterTypeOK' /\ UNCHANGED loopVars
<1> USE DEF ClusterTypeOK, OpStates, switchVars
<1>1. ASSUME NEW targets \in SUBSET Range(pipelines), StopNodes(t, targets)
      PROVE  ClusterTypeOK' /\ UNCHANGED loopVars
  <2> DEFINE indices == {i \in 1..Len(pipelines) : pipelines[i] \in targets}
  <2>1. indices \in SUBSET (Nat \ {0}) /\ targets \in SUBSET Pipelines
    BY DEF Range
  <2>2. Job(TRUE, indices, targets) \in Jobs
    BY <2>1, JobType
  <2>3. /\ job' = [job EXCEPT ![t] = Job(TRUE, indices, targets)]
        /\ todo' = [todo EXCEPT ![t] = indices]
        /\ pc' = [pc EXCEPT ![t] = "stop"]
    BY <1>1 DEF StopNodes
  <2> HIDE DEF indices
  <2>4. /\ job' \in [Ops -> Jobs] /\ pc' \in [Ops -> OpStates]
        /\ todo' \in [Ops -> SUBSET (Nat \ {0})]
    BY <2>1, <2>2, <2>3
  <2>5. /\ stops' \in Nat
        /\ UNCHANGED <<loopVars, pipelines, made, is_ready, addr, head, servers, switchVars,
                       victim, new_pipelines, stopped, removals>>
    BY <1>1 DEF StopNodes
  <2> QED BY <2>4, <2>5
<1>2. ASSUME NEW i \in 1..Len(pipelines), StopNode(t, i)
      PROVE  ClusterTypeOK' /\ UNCHANGED loopVars
  <2>1. {i} \in SUBSET (Nat \ {0}) /\ {pipelines[i]} \in SUBSET Pipelines
    OBVIOUS
  <2>2. Job(FALSE, {i}, {pipelines[i]}) \in Jobs
    BY <2>1, JobType
  <2>3. /\ job' \in [Ops -> Jobs] /\ pc' \in [Ops -> OpStates]
        /\ todo' \in [Ops -> SUBSET (Nat \ {0})]
    BY <1>2, <2>1, <2>2 DEF StopNode
  <2>4. /\ stops' \in Nat
        /\ UNCHANGED <<loopVars, pipelines, made, is_ready, addr, head, servers, switchVars,
                       victim, new_pipelines, stopped, removals>>
    BY <1>2 DEF StopNode
  <2> QED BY <2>3, <2>4
<1>3. ASSUME NEW i \in todo[t], StopMark(t, i)
      PROVE  ClusterTypeOK' /\ UNCHANGED loopVars
  <2>0. i \in Nat \ {0}
    OBVIOUS
  <2>1. /\ pc' = [pc EXCEPT ![t] = "idle"] \/ pc' = [pc EXCEPT ![t] = "kill"]
        /\ \/ todo' = [todo EXCEPT ![t] = {}]
           \/ todo' = [todo EXCEPT ![t] = todo[t] \ {i}]
    BY <1>3 DEF StopMark
  <2>4. pc' \in [Ops -> OpStates] /\ todo' \in [Ops -> SUBSET (Nat \ {0})]
    <3>1. {} \in SUBSET (Nat \ {0}) /\ todo[t] \ {i} \in SUBSET (Nat \ {0})
      OBVIOUS
    <3> QED BY <2>1, <3>1
  <2>5. UNCHANGED <<loopVars, pipelines, made, addr, head, servers, switchVars,
                    job, new_pipelines, removals, stops>>
    BY <1>3 DEF StopMark
  <2>2. CASE i > Len(pipelines)
    <3>1. UNCHANGED <<is_ready, stopped, victim>>
      BY <1>3, <2>2 DEF StopMark
    <3> QED BY <2>4, <2>5, <3>1
  <2>3. CASE ~(i > Len(pipelines))
    <3>1. pipelines[i] \in Pipelines
      BY <2>0, <2>3
    <3> DEFINE p == pipelines[i]
    <3>4. /\ stopped' = stopped \cup {p}
          /\ victim' = [victim EXCEPT ![t] = p]
          /\ is_ready' = [is_ready EXCEPT ![p] = FALSE]
      BY <1>3, <2>3 DEF StopMark
    <3> HIDE DEF p
    <3>5. p \in Pipelines
      BY <3>1 DEF p
    <3>2. stopped' \in SUBSET Pipelines /\ victim' \in [Ops -> Pipelines \cup {NoPipeline}]
      BY <3>4, <3>5
    <3>3. is_ready' \in [Pipelines -> BOOLEAN]
      BY <3>4, <3>5
    <3> QED BY <2>4, <2>5, <3>2, <3>3
  <2> QED BY <2>2, <2>3
<1>4. CASE StopKill(t)
  <2>1. pc' \in [Ops -> OpStates] /\ servers' \in SUBSET (Pipelines \X Addresses)
    BY <1>4, StopSubset DEF StopKill
  <2> QED BY <1>4, <2>1 DEF StopKill
<1>5. CASE StopNodeDone(t)
  <2>1. pc' \in [Ops -> OpStates]
    BY <1>5 DEF StopNodeDone
  <2> QED BY <1>5, <2>1 DEF StopNodeDone
<1>6. CASE RemovePipelines(t)
  <2>1. pc' \in [Ops -> OpStates]
    BY <1>6 DEF RemovePipelines
  <2>2. new_pipelines' \in [Ops -> Seq(Pipelines)]
    <3>1. CASE UNCHANGED new_pipelines
      BY <3>1
    <3>2. CASE \E f \in KeptPositions(Len(pipelines), job[t].indices) :
                  new_pipelines' = [new_pipelines EXCEPT ![t] = [k \in DOMAIN f |-> pipelines[f[k]]]]
      <4>1. PICK f \in KeptPositions(Len(pipelines), job[t].indices) :
                  new_pipelines' = [new_pipelines EXCEPT ![t] = [k \in DOMAIN f |-> pipelines[f[k]]]]
        BY <3>2
      <4> DEFINE kept == [k \in DOMAIN f |-> pipelines[f[k]]]
      <4>2. kept \in Seq(Pipelines)
        BY KeptType
      <4>3. new_pipelines' = [new_pipelines EXCEPT ![t] = kept]
        BY <4>1
      <4> HIDE DEF kept
      <4> QED BY <4>2, <4>3
    <3> QED BY <1>6, <3>1, <3>2 DEF RemovePipelines
  <2> QED BY <1>6, <2>1, <2>2 DEF RemovePipelines
<1>7. CASE AssignPipelines(t)
  <2>1. pc' \in [Ops -> OpStates] /\ pipelines' \in Seq(Pipelines) /\ removals' \in Nat
    BY <1>7 DEF AssignPipelines
  <2> QED BY <1>7, <2>1 DEF AssignPipelines
<1> QED BY <1>1, <1>2, <1>3, <1>4, <1>5, <1>6, <1>7 DEF OpStep

\* Every step keeps the types.
LEMMA StepType == TypeOK /\ [Next]_vars => TypeOK'
<1> SUFFICES ASSUME TypeOK, [Next]_vars PROVE TypeOK'
  OBVIOUS
<1>0. LoopTypeOK /\ ClusterTypeOK
  BY DEF TypeOK
<1>1. CASE \E r \in Requests : AddRequest(r)
  BY <1>0, <1>1, AddRequestType, LoopLeavesCluster DEF TypeOK
<1>2. CASE LoopStep
  BY <1>0, <1>2, LoopStepType, LoopLeavesCluster DEF TypeOK
<1>3. CASE \E r \in Requests : TaskStep(r)
  BY <1>0, <1>3, TaskStepType, LoopLeavesCluster DEF TypeOK
<1>4. CASE \E p \in Pipelines : CreatePipeline(p) \/ SwitchStep(p)
  BY <1>0, <1>4, CreatePipelineType, SwitchStepType, ThreadsLeaveLoop DEF TypeOK
<1>5. CASE \E t \in Ops : OpStep(t)
  BY <1>0, <1>5, OpStepType, ThreadsLeaveLoop DEF TypeOK
<1>6. CASE UNCHANGED vars
  BY <1>0, <1>6, LoopLeavesCluster, ThreadsLeaveLoop DEF TypeOK, vars
<1> QED BY <1>1, <1>2, <1>3, <1>4, <1>5, <1>6 DEF Next

\* Every reachable state is type correct: no counter of flying requests is
\* negative, every index a task or a thread carries is a position, and every
\* list remove_pipelines builds is a list of Pipeline objects.
THEOREM TypeCorrect == Spec => []TypeOK
<1> QED BY InitType, StepType, PTL DEF Spec

-----------------------------------------------------------------------------
(* A request is in one place at most.                                      *)

\* Putting a new element at the end of a queue without repetitions.
LEMMA QueuePut ==
  ASSUME NEW S, NEW q \in Seq(S), NEW x \in S
  PROVE  /\ Range(Append(q, x)) = Range(q) \cup {x}
         /\ InQueueOnce(q) /\ x \notin Range(q) => InQueueOnce(Append(q, x))
<1> DEFINE a == Append(q, x)
<1>1. /\ Len(a) = Len(q) + 1 /\ Len(q) \in Nat
      /\ \A i \in 1..Len(q) : a[i] = q[i]
      /\ a[Len(q) + 1] = x
      /\ DOMAIN a = 1..(Len(q) + 1) /\ DOMAIN q = 1..Len(q)
  OBVIOUS
<1> HIDE DEF a
<1>2. Range(a) = Range(q) \cup {x}
  <2>1. Range(a) \subseteq Range(q) \cup {x}
    BY <1>1 DEF Range
  <2>2. Range(q) \cup {x} \subseteq Range(a)
    BY <1>1 DEF Range
  <2> QED BY <2>1, <2>2
<1>3. InQueueOnce(q) /\ x \notin Range(q) => InQueueOnce(a)
  BY <1>1 DEF Range, InQueueOnce
<1> QED BY <1>2, <1>3 DEF a

\* Taking the first element out of a queue without repetitions.
LEMMA QueueGet ==
  ASSUME NEW S, NEW q \in Seq(S), q # << >>, InQueueOnce(q)
  PROVE  /\ Head(q) \in S /\ Head(q) \in Range(q)
         /\ Tail(q) \in Seq(S)
         /\ Range(Tail(q)) = Range(q) \ {Head(q)}
         /\ InQueueOnce(Tail(q))
<1> DEFINE t == Tail(q)
           h == Head(q)
<1>1. /\ t \in Seq(S) /\ Len(q) \in Nat \ {0} /\ Len(t) = Len(q) - 1
      /\ h = q[1] /\ h \in S
      /\ \A i \in 1..Len(t) : t[i] = q[i + 1]
      /\ DOMAIN t = 1..Len(t) /\ DOMAIN q = 1..Len(q)
  OBVIOUS
<1> HIDE DEF t, h
<1>2. Range(t) \subseteq Range(q) \ {h}
  BY <1>1 DEF Range, InQueueOnce
<1>3. Range(q) \ {h} \subseteq Range(t)
  <2> SUFFICES ASSUME NEW i \in 1..Len(q), q[i] # h PROVE q[i] \in Range(t)
    BY <1>1 DEF Range
  <2>1. i - 1 \in 1..Len(t) /\ t[i - 1] = q[i]
    BY <1>1
  <2> QED BY <1>1, <2>1 DEF Range
<1>4. InQueueOnce(t)
  BY <1>1 DEF InQueueOnce
<1>5. h \in Range(q)
  BY <1>1 DEF Range
<1> QED BY <1>1, <1>2, <1>3, <1>4, <1>5 DEF t, h

\* The strengthening: whatever is in some place has been added before, so
\* that add_request never meets a copy of its request.
OnlyAdded ==
  /\ Queued \subseteq added
  /\ completed \subseteq added
  /\ \A r \in Requests : Live(r) => r \in added

PlaceInv == AtMostOnce /\ OnlyAdded

\* No request is anywhere before the first one is submitted.
LEMMA InitPlace == Init => PlaceInv
<1> SUFFICES ASSUME Init PROVE PlaceInv
  OBVIOUS
<1>1. waiting_queue = << >> /\ urgent_queue = << >> /\ completed = {}
  BY DEF Init
<1>2. \A r \in Requests : ~Live(r)
  BY DEF Init, Live, NoTask, Task
<1>3. InQueueOnce(<< >>) /\ Range(<< >>) = {}
  BY DEF InQueueOnce, Range
<1> QED BY <1>1, <1>2, <1>3 DEF PlaceInv, AtMostOnce, OnlyAdded, Queued, Live

\* PlaceInv only looks at these five things.
LEMMA PlaceKept ==
  ASSUME LoopTypeOK, PlaceInv,
         UNCHANGED <<waiting_queue, urgent_queue, added, completed>>,
         \A r \in Requests : Live(r)' => Live(r)
  PROVE  PlaceInv'
<1>1. completed \subseteq Requests
  BY DEF LoopTypeOK
<1> QED BY <1>1 DEF PlaceInv, AtMostOnce, OnlyAdded, Queued, Live

\* add_request puts a new request in one queue.
LEMMA AddRequestPlace ==
  ASSUME LoopTypeOK, PlaceInv, NEW r \in Requests, AddRequest(r)
  PROVE  PlaceInv'
<1>1. /\ r \notin added /\ added' = added \cup {r}
      /\ UNCHANGED <<completed, task>>
      /\ \/ urgent_queue' = Append(urgent_queue, r) /\ UNCHANGED waiting_queue
         \/ waiting_queue' = Append(waiting_queue, r) /\ UNCHANGED urgent_queue
  BY DEF AddRequest
<1>2. \A u \in Requests : Live(u)' <=> Live(u)
  BY <1>1 DEF Live
<1>3. r \notin Queued /\ ~Live(r) /\ r \notin completed
  BY <1>1 DEF PlaceInv, OnlyAdded
<1>4. CASE urgent_queue' = Append(urgent_queue, r) /\ UNCHANGED waiting_queue
  <2>1. Range(urgent_queue') = Range(urgent_queue) \cup {r} /\ InQueueOnce(urgent_queue')
    BY <1>3, <1>4, QueuePut DEF LoopTypeOK, PlaceInv, AtMostOnce, Queued
  <2> QED BY <1>1, <1>2, <1>3, <1>4, <2>1 DEF PlaceInv, AtMostOnce, OnlyAdded, Queued, Live
<1>5. CASE waiting_queue' = Append(waiting_queue, r) /\ UNCHANGED urgent_queue
  <2>1. Range(waiting_queue') = Range(waiting_queue) \cup {r} /\ InQueueOnce(waiting_queue')
    BY <1>3, <1>5, QueuePut DEF LoopTypeOK, PlaceInv, AtMostOnce, Queued
  <2> QED BY <1>1, <1>2, <1>3, <1>5, <2>1 DEF PlaceInv, AtMostOnce, OnlyAdded, Queued, Live
<1> QED BY <1>1, <1>4, <1>5

\* A dispatched request leaves its queue, and had no task.
LEMMA DispatchPlace ==
  ASSUME LoopTypeOK, PlaceInv, NEW i, DispatchUrgent(i) \/ DispatchWaiting(i)
  PROVE  PlaceInv' /\ \E r \in Requests : ~Live(r) /\ CreateTask(r, i)
<1>1. ASSUME NEW r \in Requests, CreateTask(r, i)
      PROVE  /\ \A u \in Requests \ {r} : Live(u)' <=> Live(u)
             /\ UNCHANGED <<added, completed>>
  BY <1>1 DEF CreateTask, Live, LoopTypeOK
<1>2. CASE DispatchUrgent(i)
  <2> DEFINE r == Head(urgent_queue)
  <2>1. /\ r \in Requests /\ r \in Range(urgent_queue)
        /\ Range(urgent_queue') = Range(urgent_queue) \ {r}
        /\ InQueueOnce(urgent_queue')
    BY <1>2, QueueGet DEF DispatchUrgent, LoopTypeOK, PlaceInv, AtMostOnce
  <2>2. CreateTask(r, i) /\ UNCHANGED waiting_queue
    BY <1>2 DEF DispatchUrgent
  <2> HIDE DEF r
  <2>3. ~Live(r) /\ r \notin completed /\ r \in added /\ r \notin Range(waiting_queue)
    BY <2>1 DEF PlaceInv, AtMostOnce, OnlyAdded, Queued, Live
  <2>4. PlaceInv'
    <3>1. completed \subseteq Requests
      BY DEF LoopTypeOK
    <3>2. \A u \in Requests \ {r} : Live(u)' <=> Live(u)
      BY <1>1, <2>1, <2>2
    <3>3. UNCHANGED <<added, completed, waiting_queue>>
      BY <1>1, <2>1, <2>2
    <3>4. AtMostOnce'
      BY <2>1, <2>3, <3>1, <3>2, <3>3 DEF PlaceInv, AtMostOnce, Queued, Live
    <3>5. OnlyAdded'
      BY <2>1, <2>3, <3>2, <3>3 DEF PlaceInv, OnlyAdded, Queued, Live
    <3> QED BY <3>4, <3>5 DEF PlaceInv
  <2> QED BY <2>1, <2>2, <2>3, <2>4
<1>3. CASE DispatchWaiting(i)
  <2> DEFINE r == Head(waiting_queue)
  <2>1. /\ r \in Requests /\ r \in Range(waiting_queue)
        /\ Range(waiting_queue') = Range(waiting_queue) \ {r}
        /\ InQueueOnce(waiting_queue')
    BY <1>3, QueueGet DEF DispatchWaiting, LoopTypeOK, PlaceInv, AtMostOnce
  <2>2. CreateTask(r, i) /\ UNCHANGED urgent_queue
    BY <1>3 DEF DispatchWaiting
  <2> HIDE DEF r
  <2>3. ~Live(r) /\ r \notin completed /\ r \in added /\ r \notin Range(urgent_queue)
    BY <2>1 DEF PlaceInv, AtMostOnce, OnlyAdded, Queued, Live
  <2>4. PlaceInv'
    <3>1. completed \subseteq Requests
      BY DEF LoopTypeOK
    <3>2. \A u \in Requests \ {r} : Live(u)' <=> Live(u)
      BY <1>1, <2>1, <2>2
    <3>3. UNCHANGED <<added, completed, urgent_queue>>
      BY <1>1, <2>1, <2>2
    <3>4. AtMostOnce'
      BY <2>1, <2>3, <3>1, <3>2, <3>3 DEF PlaceInv, AtMostOnce, Queued, Live
    <3>5. OnlyAdded'
      BY <2>1, <2>3, <3>2, <3>3 DEF PlaceInv, OnlyAdded, Queued, Live
    <3> QED BY <3>4, <3>5 DEF PlaceInv
  <2> QED BY <2>1, <2>2, <2>3, <2>4
<1> QED BY <1>2, <1>3

\* A live task either goes on, is requeued, completes, or is dropped.
LEMMA TaskStepPlace ==
  ASSUME LoopTypeOK, PlaceInv, NEW r \in Requests, TaskStep(r)
  PROVE  PlaceInv'
<1>0. ~(NoTask.pc # "none")
  BY DEF NoTask, Task
<1>1. ASSUME Live(r), Requeue(r) PROVE PlaceInv'
  <2>1. /\ urgent_queue' = Append(urgent_queue, r)
        /\ task' = [task EXCEPT ![r] = NoTask]
        /\ UNCHANGED <<waiting_queue, added, completed>>
    BY <1>1 DEF Requeue
  <2>2. ~Live(r)' /\ \A u \in Requests \ {r} : Live(u)' <=> Live(u)
    BY <1>0, <2>1 DEF Live, LoopTypeOK
  <2>3. r \notin Queued /\ r \notin completed /\ r \in added
    BY <1>1 DEF PlaceInv, AtMostOnce, OnlyAdded
  <2>4. Range(urgent_queue') = Range(urgent_queue) \cup {r} /\ InQueueOnce(urgent_queue')
    BY <2>1, <2>3, QueuePut DEF LoopTypeOK, PlaceInv, AtMostOnce, Queued
  <2> QED BY <2>1, <2>2, <2>3, <2>4 DEF PlaceInv, AtMostOnce, OnlyAdded, Queued, Live
<1>2. ASSUME Live(r), NEW tk, task' = [task EXCEPT ![r] = tk],
             UNCHANGED <<waiting_queue, urgent_queue, added, completed>>
      PROVE  PlaceInv'
  <2>1. \A u \in Requests : Live(u)' => Live(u)
    BY <1>2 DEF Live, LoopTypeOK
  <2> QED BY <1>2, <2>1, PlaceKept
<1>3. CASE StartTask(r)
  BY <1>2, <1>3 DEF StartTask, Live
<1>4. CASE SendRequest(r)
  BY <1>1, <1>2, <1>4 DEF SendRequest, Live
<1>5. CASE Connect(r)
  BY <1>2, <1>5 DEF Connect, Live
<1>6. CASE ConnectionRefused(r) \/ StreamBroken(r)
  BY <1>1, <1>6 DEF ConnectionRefused, StreamBroken, Live
<1>7. CASE Complete(r)
  <2>1. /\ Live(r) /\ completed' = completed \cup {r}
        /\ task' = [task EXCEPT ![r] = NoTask]
        /\ UNCHANGED <<waiting_queue, urgent_queue, added>>
    BY <1>7 DEF Complete, Live
  <2>2. ~Live(r)' /\ \A u \in Requests \ {r} : Live(u)' <=> Live(u)
    BY <1>0, <2>1 DEF Live, LoopTypeOK
  <2> QED BY <2>1, <2>2 DEF PlaceInv, AtMostOnce, OnlyAdded, Queued, Live
<1> QED BY <1>3, <1>4, <1>5, <1>6, <1>7 DEF TaskStep

\* Only steps of the event loop touch the queues, the tasks and the counters.
LEMMA ThreadStepsLeaveLoop ==
  ASSUME TypeOK, \/ \E p \in Pipelines : CreatePipeline(p) \/ SwitchStep(p)
                 \/ \E t \in Ops : OpStep(t)
                 \/ UNCHANGED vars
  PROVE  UNCHANGED loopVars
<1>1. CASE \E p \in Pipelines : CreatePipeline(p) \/ SwitchStep(p)
  BY <1>1, CreatePipelineType, SwitchStepType DEF TypeOK
<1>2. CASE \E t \in Ops : OpStep(t)
  BY <1>2, OpStepType DEF TypeOK
<1>3. CASE UNCHANGED vars
  BY <1>3 DEF vars
<1> QED BY <1>1, <1>2, <1>3

\* Every step leaves each request in one place at most.
LEMMA StepPlace == TypeOK /\ PlaceInv /\ [Next]_vars => PlaceInv'
<1> SUFFICES ASSUME TypeOK, PlaceInv, [Next]_vars PROVE PlaceInv'
  OBVIOUS
<1>0. LoopTypeOK
  BY DEF TypeOK
<1>1. CASE \E r \in Requests : AddRequest(r)
  BY <1>0, <1>1, AddRequestPlace
<1>2. CASE LoopStep
  <2>1. CASE \E i \in 1..Len(pipelines) : DispatchUrgent(i) \/ DispatchWaiting(i)
    BY <1>0, <2>1, DispatchPlace
  <2>2. CASE IdleIteration
    BY <1>0, <2>2, PlaceKept DEF IdleIteration, Live
  <2> QED BY <1>2, <2>1, <2>2 DEF LoopStep
<1>3. CASE \E r \in Requests : TaskStep(r)
  BY <1>0, <1>3, TaskStepPlace
<1>4. CASE UNCHANGED loopVars
  BY <1>0, <1>4, PlaceKept DEF loopVars, Live
<1> QED BY <1>1, <1>2, <1>3, <1>4, ThreadStepsLeaveLoop DEF Next

\* A request is never in two places: not twice in a queue, not queued while a
\* task runs it, and neither once it has completed.
THEOREM RequestsAtMostOnce == Spec => []AtMostOnce
<1>1. PlaceInv => AtMostOnce
  BY DEF PlaceInv
<1> QED BY <1>1, InitType, StepType, InitPlace, StepPlace, PTL DEF Spec

-----------------------------------------------------------------------------
(* The counter of flying requests is exact.                                *)

\* What the tasks look like to FlyingOn: who is charged, and to whom.
Charged(tk) == tk.pc \in {"sending", "connecting", "streaming"}

\* Steps that change neither the counters nor who is charged to whom.
LEMMA FlyingKept ==
  ASSUME FlyingExact, UNCHANGED flying_requests,
         \A r \in Requests : /\ Charged(task'[r]) <=> Charged(task[r])
                             /\ Charged(task[r]) => task'[r].pipeline = task[r].pipeline
  PROVE  FlyingExact'
<1>1. \A p : FlyingOn(p)' = FlyingOn(p)
  BY DEF FlyingOn, Charged
<1> QED BY <1>1 DEF FlyingExact

\* Finitely many tasks are charged to a pipeline.
LEMMA FlyingFinite == \A p : IsFiniteSet(FlyingOn(p))
<1>1. \A p : FlyingOn(p) \subseteq Requests
  BY DEF FlyingOn
<1> QED BY <1>1, FS_Subset, ConstantsAssumption

\* add_flying_request on p, for a task that was not charged.
LEMMA FlyingAdded ==
  ASSUME FlyingExact, LoopTypeOK, NEW r \in Requests, NEW p \in Pipelines, NEW tk,
         ~Charged(task[r]), Charged(tk), tk.pipeline = p,
         task' = [task EXCEPT ![r] = tk],
         flying_requests' = add_flying_request(p)
  PROVE  FlyingExact'
<1>1. /\ task'[r] = tk
      /\ \A u \in Requests \ {r} : task'[u] = task[u]
  BY DEF LoopTypeOK
<1>2. FlyingOn(p)' = FlyingOn(p) \cup {r} /\ r \notin FlyingOn(p)
  BY <1>1 DEF FlyingOn, Charged
<1>3. \A q \in Pipelines \ {p} : FlyingOn(q)' = FlyingOn(q)
  BY <1>1 DEF FlyingOn, Charged
<1>4. Cardinality(FlyingOn(p) \cup {r}) = Cardinality(FlyingOn(p)) + 1
  BY <1>2, FlyingFinite, FS_AddElement
<1>5. /\ flying_requests'[p] = flying_requests[p] + 1
      /\ \A q \in Pipelines \ {p} : flying_requests'[q] = flying_requests[q]
  BY DEF add_flying_request, LoopTypeOK
<1> QED BY <1>2, <1>3, <1>4, <1>5 DEF FlyingExact

\* remove_flying_request by a charged task that ends: the clamp at zero of
\* max(0, n - 1) is never what makes the result non-negative.
LEMMA FlyingRemoved ==
  ASSUME FlyingExact, LoopTypeOK, NEW r \in Requests, Charged(task[r]),
         task' = [task EXCEPT ![r] = NoTask],
         flying_requests' = remove_flying_request(task[r].pipeline)
  PROVE  FlyingExact'
<1>0. PICK p : p = task[r].pipeline
  OBVIOUS
<1>1. /\ task'[r] = NoTask /\ ~Charged(NoTask)
      /\ \A u \in Requests \ {r} : task'[u] = task[u]
  BY DEF LoopTypeOK, NoTask, Task, Charged
<1>2. \A q : q # p => FlyingOn(q)' = FlyingOn(q)
  BY <1>0, <1>1 DEF FlyingOn, Charged
<1>3. FlyingOn(p)' = FlyingOn(p) \ {r} /\ r \in FlyingOn(p)
  BY <1>0, <1>1 DEF FlyingOn, Charged
<1>4. Cardinality(FlyingOn(p) \ {r}) = Cardinality(FlyingOn(p)) - 1
  BY <1>3, FlyingFinite, FS_RemoveElement
<1>5. Cardinality(FlyingOn(p)) > 0
  <2>1. /\ Cardinality(FlyingOn(p)) \in Nat
        /\ Cardinality(FlyingOn(p) \ {r}) \in Nat
    BY <1>3, FlyingFinite, FS_CardinalityType, FS_RemoveElement
  <2> QED BY <1>4, <2>1
<1>6. \A q \in Pipelines : q # p => flying_requests'[q] = flying_requests[q]
  <2>1. \A q \in Pipelines : q # task[r].pipeline =>
           remove_flying_request(task[r].pipeline)[q] = flying_requests[q]
    BY DEF remove_flying_request, LoopTypeOK
  <2> QED BY <1>0, <2>1
<1>7. CASE p \in Pipelines
  <2>1. flying_requests[p] = Cardinality(FlyingOn(p))
    BY <1>7 DEF FlyingExact
  <2>2. flying_requests'[p] = flying_requests[p] - 1
    BY <1>0, <1>5, <1>7, <2>1 DEF remove_flying_request, LoopTypeOK
  <2>3. \A q \in Pipelines : q # p => flying_requests'[q] = Cardinality(FlyingOn(q)')
    BY <1>2, <1>6 DEF FlyingExact
  <2>4. flying_requests'[p] = Cardinality(FlyingOn(p)')
    BY <1>3, <1>4, <2>1, <2>2
  <2>5. \A q \in Pipelines : flying_requests'[q] = Cardinality(FlyingOn(q)')
    BY <2>3, <2>4
  <2> QED BY <2>5 DEF FlyingExact
<1>8. CASE p \notin Pipelines
  BY <1>2, <1>6, <1>8 DEF FlyingExact
<1> QED BY <1>7, <1>8

\* Every step keeps the counters equal to the tasks charged.
LEMMA StepFlying == TypeOK /\ PlaceInv /\ FlyingExact /\ [Next]_vars => FlyingExact'
<1> SUFFICES ASSUME TypeOK, PlaceInv, FlyingExact, [Next]_vars PROVE FlyingExact'
  OBVIOUS
<1>0. LoopTypeOK /\ pipelines \in Seq(Pipelines)
  BY DEF TypeOK, ClusterTypeOK
<1>1. ASSUME UNCHANGED <<task, flying_requests>> PROVE FlyingExact'
  BY <1>1, FlyingKept
<1>2. CASE \E r \in Requests : AddRequest(r)
  BY <1>1, <1>2 DEF AddRequest
<1>3. CASE LoopStep
  <2>1. ASSUME NEW i, DispatchUrgent(i) \/ DispatchWaiting(i) PROVE FlyingExact'
    <3>1. PICK r \in Requests : ~Live(r) /\ CreateTask(r, i)
      BY <1>0, <2>1, DispatchPlace
    <3>2. ~Charged(Task("created", i, NoPipeline, NoServer)) /\ ~Charged(task[r])
      BY <3>1 DEF Charged, Task, Live
    <3>3. /\ task' = [task EXCEPT ![r] = Task("created", i, NoPipeline, NoServer)]
          /\ UNCHANGED flying_requests
      BY <3>1 DEF CreateTask
    <3>4. \A u \in Requests : /\ Charged(task'[u]) <=> Charged(task[u])
                              /\ Charged(task[u]) => task'[u].pipeline = task[u].pipeline
      BY <1>0, <3>2, <3>3 DEF LoopTypeOK
    <3> QED BY <3>3, <3>4, FlyingKept
  <2>2. CASE IdleIteration
    BY <1>1, <2>2 DEF IdleIteration
  <2> QED BY <1>3, <2>1, <2>2 DEF LoopStep
<1>4. ASSUME NEW r \in Requests, TaskStep(r) PROVE FlyingExact'
  <2>1. ASSUME Charged(task[r]), Requeue(r) PROVE FlyingExact'
    BY <1>0, <2>1, FlyingRemoved DEF Requeue
  <2>2. ASSUME Charged(task[r]), NEW tk, Charged(tk), tk.pipeline = task[r].pipeline,
               task' = [task EXCEPT ![r] = tk], UNCHANGED flying_requests
        PROVE  FlyingExact'
    <3>1. \A u \in Requests : /\ Charged(task'[u]) <=> Charged(task[u])
                              /\ Charged(task[u]) => task'[u].pipeline = task[u].pipeline
      BY <1>0, <2>2 DEF LoopTypeOK
    <3> QED BY <2>2, <3>1, FlyingKept
  <2>3. CASE StartTask(r)
    <3>1. ~Charged(task[r])
      BY <2>3 DEF StartTask, Charged
    <3>2. CASE task[r].index > Len(pipelines)
      <4>1. task' = [task EXCEPT ![r] = NoTask] /\ UNCHANGED flying_requests
        BY <2>3, <3>2 DEF StartTask
      <4>2. ~Charged(NoTask)
        BY DEF Charged, NoTask, Task
      <4>3. \A u \in Requests : /\ Charged(task'[u]) <=> Charged(task[u])
                                /\ Charged(task[u]) => task'[u].pipeline = task[u].pipeline
        BY <1>0, <3>1, <4>1, <4>2 DEF LoopTypeOK
      <4> QED BY <4>1, <4>3, FlyingKept
    <3>3. CASE ~(task[r].index > Len(pipelines))
      <4>1. PICK p : p = pipelines[task[r].index]
        OBVIOUS
      <4>2. p \in Pipelines
        BY <1>0, <3>3, <4>1 DEF LoopTypeOK, TaskStates
      <4>3. PICK tk : tk = Task("sending", task[r].index, p, NoServer)
        OBVIOUS
      <4>4. Charged(tk) /\ tk.pipeline = p
        BY <4>3 DEF Charged, Task
      <4>5. task' = [task EXCEPT ![r] = tk] /\ flying_requests' = add_flying_request(p)
        BY <2>3, <3>3, <4>1, <4>3 DEF StartTask
      <4> QED BY <1>0, <3>1, <4>2, <4>4, <4>5, FlyingAdded
    <3> QED BY <3>2, <3>3
  <2>4. CASE SendRequest(r)
    <3>1. Charged(task[r])
      BY <2>4 DEF SendRequest, Charged
    <3>2. CASE task[r].index > Len(pipelines)
      BY <2>1, <2>4, <3>1, <3>2 DEF SendRequest
    <3>3. CASE ~(task[r].index > Len(pipelines))
      <4>1. PICK s : s = <<pipelines[task[r].index], addr[pipelines[task[r].index]]>>
        OBVIOUS
      <4>2. PICK tk : tk = Task("connecting", task[r].index, task[r].pipeline, s)
        OBVIOUS
      <4>3. Charged(tk) /\ tk.pipeline = task[r].pipeline
        BY <4>2 DEF Charged, Task
      <4>4. task' = [task EXCEPT ![r] = tk] /\ UNCHANGED flying_requests
        BY <2>4, <3>3, <4>1, <4>2 DEF SendRequest
      <4> QED BY <2>2, <3>1, <4>3, <4>4
    <3> QED BY <3>2, <3>3
  <2>5. CASE Connect(r)
    <3>1. PICK tk : tk = Task("streaming", task[r].index, task[r].pipeline, task[r].server)
      OBVIOUS
    <3>2. Charged(task[r]) /\ Charged(tk) /\ tk.pipeline = task[r].pipeline
      BY <2>5, <3>1 DEF Charged, Task, Connect
    <3>3. task' = [task EXCEPT ![r] = tk] /\ UNCHANGED flying_requests
      BY <2>5, <3>1 DEF Connect
    <3> QED BY <2>2, <3>2, <3>3
  <2>6. CASE ConnectionRefused(r) \/ StreamBroken(r)
    BY <2>1, <2>6 DEF ConnectionRefused, StreamBroken, Charged
  <2>7. CASE Complete(r)
    BY <1>0, <2>7, FlyingRemoved DEF Complete, Charged
  <2> QED BY <1>4, <2>3, <2>4, <2>5, <2>6, <2>7 DEF TaskStep
<1>5. CASE UNCHANGED loopVars
  BY <1>1, <1>5 DEF loopVars
<1> QED BY <1>2, <1>3, <1>4, <1>5, ThreadStepsLeaveLoop DEF Next

\* flying_requests counts exactly the tasks charged to the pipeline, for any
\* number of requests, pipelines and threads, although the list of pipelines
\* may change between the two lookups of _handle_request.
THEOREM FlyingRequestsExact == Spec => []FlyingExact
<1>1. Init => FlyingExact
  <2> SUFFICES ASSUME Init PROVE FlyingExact
    OBVIOUS
  <2>1. \A p : FlyingOn(p) = {}
    BY DEF Init, FlyingOn, NoTask, Task
  <2> QED BY <2>1, FS_EmptySet DEF Init, FlyingExact
<1> QED BY <1>1, InitType, StepType, InitPlace, StepPlace, StepFlying, PTL DEF Spec

-----------------------------------------------------------------------------
(* Every running task is held by inflight_requests.                        *)

\* Every step leaves the live tasks in inflight_requests.
LEMMA StepTracked == TypeOK /\ TasksAreTracked /\ [Next]_vars => TasksAreTracked'
<1> SUFFICES ASSUME TypeOK, TasksAreTracked, [Next]_vars PROVE TasksAreTracked'
  OBVIOUS
<1>0. LoopTypeOK
  BY DEF TypeOK
<1>1. ASSUME UNCHANGED inflight_requests, \A r \in Requests : Live(r)' => Live(r)
      PROVE  TasksAreTracked'
  BY <1>1 DEF TasksAreTracked, Live
<1>2. CASE \E r \in Requests : AddRequest(r)
  BY <1>1, <1>2 DEF AddRequest, Live
<1>3. CASE LoopStep
  <2>1. ASSUME NEW r, NEW i, CreateTask(r, i) PROVE TasksAreTracked'
    <3>1. \A u \in Requests : u # r => task'[u] = task[u]
      BY <1>0, <2>1 DEF CreateTask, LoopTypeOK
    <3>2. inflight_requests' = {u \in inflight_requests \cup {r} : task'[u].pc # "none"}
      BY <2>1 DEF CreateTask, CleanedUp
    <3> QED BY <3>1, <3>2 DEF TasksAreTracked, Live
  <2>2. CASE IdleIteration
    BY <2>2 DEF IdleIteration, CleanedUp, TasksAreTracked, Live
  <2> QED BY <1>3, <2>1, <2>2 DEF LoopStep, DispatchUrgent, DispatchWaiting
<1>4. ASSUME NEW r \in Requests, TaskStep(r) PROVE TasksAreTracked'
  <2>1. /\ Live(r) /\ UNCHANGED inflight_requests
        /\ \A u \in Requests \ {r} : task'[u] = task[u]
    BY <1>0, <1>4 DEF TaskStep, StartTask, SendRequest, Connect, ConnectionRefused,
                      Complete, StreamBroken, Requeue, Live, LoopTypeOK
  <2> QED BY <1>1, <2>1 DEF Live
<1>5. CASE UNCHANGED loopVars
  BY <1>1, <1>5 DEF loopVars, Live
<1> QED BY <1>2, <1>3, <1>4, <1>5, ThreadStepsLeaveLoop DEF Next

\* The event loop keeps only weak references to tasks: no cleanup ever drops
\* the entry of a task that is still running.
THEOREM TasksTracked == Spec => []TasksAreTracked
<1>1. Init => TasksAreTracked
  BY DEF Init, TasksAreTracked, Live, NoTask, Task
<1> QED BY <1>1, InitType, StepType, StepTracked, PTL DEF Spec

-----------------------------------------------------------------------------
(* A ready pipeline has a live API server, unless it was stopped or a      *)
(* switch kept a head that a failed one had put in place.                  *)

\* Only pipelines that were made are ever listed or switched.
ListedAreMade ==
  /\ Range(pipelines) \subseteq made
  /\ \A t \in Ops : Range(new_pipelines[t]) \subseteq made
  /\ \A p \in Pipelines \ made : switching[p] = "none"

\* stop_pipeline stops only servers of pipelines it has marked.
KillsAreMarked == \A t \in Ops : pc[t] = "kill" => victim[t] \in stopped

\* vnodes[0] is the VNode of the new server; the node old_first_vnode is on is
\* another one, or the one of the address in use; during the switchover the
\* pipeline is off and the new server is up.
Covered(p) ==
  /\ switching[p] \in {"starting", "off"} => head[p] = NewAddress(p)
  /\ switching[p] \in {"begun", "starting", "off"} /\ p \notin misdirected =>
        old_first[p] # head[p][1] \/ old_first[p] = addr[p][1]
  /\ switching[p] = "port" => addr[p] = head[p]
  /\ switching[p] \in {"off", "swap", "host", "port"} =>
        ~is_ready[p] /\ (p \notin stopped \cup misdirected => <<p, head[p]>> \in servers)
SwitchIsCovered == \A p \in Pipelines : Covered(p)

ServingInv == ListedAreMade /\ KillsAreMarked /\ SwitchIsCovered /\ ReadyMeansServing

\* The steps of the event loop change nothing of this.
LEMMA ServingKept == ServingInv /\ UNCHANGED clusterVars => ServingInv'
  BY DEF ServingInv, ListedAreMade, KillsAreMarked, SwitchIsCovered, Covered, NewAddress,
         ReadyMeansServing, clusterVars, switchVars, opVars

\* A pipeline stays covered if its switch does not move, its servers live on
\* and it is not turned on.
LEMMA CoveredKept ==
  ASSUME NEW q, Covered(q),
         switching'[q] = switching[q], old_first'[q] = old_first[q],
         addr'[q] = addr[q], head'[q] = head[q],
         is_ready'[q] => is_ready[q],
         q \in misdirected => q \in misdirected', q \in stopped => q \in stopped',
         q \notin stopped' => \A a : <<q, a>> \in servers => <<q, a>> \in servers'
  PROVE  Covered(q)'
  BY DEF Covered, NewAddress

\* create_pipeline lists a pipeline whose API server is alive.
LEMMA CreatePipelineServing ==
  ASSUME ClusterTypeOK, ServingInv, NEW p \in Pipelines, CreatePipeline(p)
  PROVE  ServingInv'
<1> USE DEF ServingInv
<1>1. /\ p \notin made /\ made' = made \cup {p}
      /\ is_ready' = [is_ready EXCEPT ![p] = TRUE]
      /\ servers' = servers \cup {<<p, addr[p]>>}
      /\ pipelines' = Append(pipelines, p)
      /\ UNCHANGED <<addr, head, switching, old_first, misdirected, pc, victim, new_pipelines, stopped>>
  BY DEF CreatePipeline, switchVars, opVars
<1>2. ListedAreMade'
  <2>1. Range(pipelines') = Range(pipelines) \cup {p}
    BY <1>1, QueuePut DEF ClusterTypeOK
  <2> QED BY <1>1, <2>1 DEF ListedAreMade
<1>3. KillsAreMarked'
  BY <1>1 DEF KillsAreMarked
<1>4. switching[p] = "none"
  BY <1>1 DEF ListedAreMade
<1>5. SwitchIsCovered'
  <2> SUFFICES ASSUME NEW q \in Pipelines PROVE Covered(q)'
    BY DEF SwitchIsCovered
  <2>1. CASE q = p
    BY <1>1, <1>4, <2>1 DEF Covered
  <2>2. CASE q # p
    <3>1. is_ready'[q] = is_ready[q]
      BY <1>1, <2>2 DEF ClusterTypeOK
    <3> QED BY <1>1, <3>1, CoveredKept DEF SwitchIsCovered
  <2> QED BY <2>1, <2>2
<1>6. ReadyMeansServing'
  BY <1>1 DEF ReadyMeansServing, ClusterTypeOK
<1> QED BY <1>2, <1>3, <1>5, <1>6

\* What a step of the switch of p leaves alone: the list, the calls that stop
\* pipelines, and everything about the other pipelines.
LEMMA SwitchFrame ==
  ASSUME ClusterTypeOK, ListedAreMade, NEW p \in Pipelines, SwitchStep(p)
  PROVE  /\ UNCHANGED <<pipelines, made, opVars, stopped>>
         /\ p \in made
         /\ \A q \in Pipelines \ {p} :
              /\ switching'[q] = switching[q] /\ old_first'[q] = old_first[q]
              /\ addr'[q] = addr[q] /\ head'[q] = head[q] /\ is_ready'[q] = is_ready[q]
              /\ q \in misdirected <=> q \in misdirected'
              /\ \A a : <<q, a>> \in servers <=> <<q, a>> \in servers'
<1> USE DEF ClusterTypeOK
<1>1. UNCHANGED <<pipelines, made, opVars, stopped>>
  BY SwitchLeavesList
<1>2. p \in made
  BY DEF SwitchStep, SwitchGoesOn, SwitchBegin, SwitchRaises, SwitchRaisesPortless, SwitchStart,
         SwitchOff, SwitchStopOld, SwitchHost, SwitchPort, SwitchOn, ListedAreMade
<1>3. CASE SwitchBegin(p)
  <2> HIDE DEF ClusterTypeOK
  <2>1. PICK v \in {head[p]} \cup (Hosts \X {NoPort}) :
           /\ head' = [head EXCEPT ![p] = v]
           /\ misdirected' = misdirected \cup
                {q \in {p} : v[1] = head[p][1] /\ addr[p][1] # head[p][1]}
    BY <1>3 DEF SwitchBegin
  <2> USE DEF ClusterTypeOK
  <2> QED BY <1>1, <1>2, <1>3, <2>1 DEF SwitchBegin
<1>4. CASE SwitchRaises(p) \/ SwitchRaisesPortless(p)
  BY <1>1, <1>2, <1>4 DEF SwitchRaises, SwitchRaisesPortless
<1>5. CASE SwitchStart(p)
  BY <1>1, <1>2, <1>5 DEF SwitchStart
<1>6. CASE SwitchOff(p) \/ SwitchOn(p)
  BY <1>1, <1>2, <1>6 DEF SwitchOff, SwitchOn
<1>7. CASE SwitchStopOld(p)
  <2>1. servers' = servers \ {<<p, <<old_first[p], addr[p][2]>>>>} \/ servers' = servers
    BY <1>7 DEF SwitchStopOld, stop_api_server
  <2> QED BY <1>1, <1>2, <1>7, <2>1 DEF SwitchStopOld
<1>8. CASE SwitchHost(p) \/ SwitchPort(p)
  BY <1>1, <1>2, <1>8 DEF SwitchHost, SwitchPort
<1> QED BY <1>3, <1>4, <1>5, <1>6, <1>7, <1>8 DEF SwitchStep, SwitchGoesOn

\* A ready pipeline is one the property is about, and is served.
Serves(p) == p \in made \ (stopped \cup misdirected) /\ is_ready[p] => <<p, addr[p]>> \in servers

\* No step of a switch, and no exception that ends it, exposes its pipeline
\* without a server.
LEMMA SwitchStepOwn ==
  ASSUME ClusterTypeOK, NEW p \in Pipelines, p \in made, Covered(p), Serves(p), SwitchStep(p)
  PROVE  Covered(p)' /\ Serves(p)'
<1> USE DEF Covered, Serves, NewAddress
<1>0. /\ head[p] \in Addresses /\ addr[p] \in Addresses /\ is_ready[p] \in BOOLEAN
      /\ head[p] = <<head[p][1], head[p][2]>> /\ addr[p] = <<addr[p][1], addr[p][2]>>
      /\ addr[p][2] \in Nat
  BY DEF ClusterTypeOK, Addresses
<1>1. CASE SwitchBegin(p)
  <2>1. PICK v : /\ head' = [head EXCEPT ![p] = v]
                 /\ misdirected' = misdirected \cup
                      {q \in {p} : v[1] = head[p][1] /\ addr[p][1] # head[p][1]}
    BY <1>1 DEF SwitchBegin
  <2>2. /\ head'[p] = v /\ old_first'[p] = head[p][1] /\ switching'[p] = "begun"
        /\ UNCHANGED <<is_ready, addr, servers, made, stopped>>
    BY <1>1, <2>1 DEF SwitchBegin, ClusterTypeOK
  <2>3. p \notin misdirected' => v[1] # head[p][1] \/ addr[p][1] = head[p][1]
    BY <2>1
  <2>4. p \in misdirected => p \in misdirected'
    BY <2>1
  <2> QED BY <2>2, <2>3, <2>4
<1>2. CASE SwitchRaises(p) \/ SwitchRaisesPortless(p)
  <2>1. /\ switching'[p] = "none"
        /\ UNCHANGED <<is_ready, addr, servers, made, stopped, misdirected>>
    BY <1>2 DEF SwitchRaises, SwitchRaisesPortless, ClusterTypeOK
  <2> QED BY <2>1
<1>3. CASE SwitchStart(p)
  <2>1. /\ head'[p] = NewAddress(p) /\ switching[p] = "begun" /\ switching'[p] = "starting"
        /\ servers \subseteq servers'
        /\ UNCHANGED <<is_ready, addr, old_first, made, stopped, misdirected>>
    BY <1>3 DEF SwitchStart, ClusterTypeOK
  <2>2. NewAddress(p)[1] = head[p][1]
    OBVIOUS
  <2> QED BY <2>1, <2>2
<1>4. CASE SwitchOff(p)
  <2>1. /\ switching[p] = "starting" /\ switching'[p] = "off" /\ ~is_ready'[p]
        /\ <<p, head[p]>> \in servers
        /\ UNCHANGED <<addr, head, servers, old_first, made, stopped, misdirected>>
    BY <1>4 DEF SwitchOff, ClusterTypeOK
  <2> QED BY <2>1
<1>5. CASE SwitchStopOld(p)
  <2>1. /\ switching[p] = "off" /\ switching'[p] = "swap" /\ ~is_ready[p]
        /\ UNCHANGED <<is_ready, addr, head, old_first, made, stopped, misdirected>>
    BY <1>5 DEF SwitchStopOld, ClusterTypeOK
  <2>2. servers' = servers \ {<<p, <<old_first[p], addr[p][2]>>>>} \/ servers' = servers
    BY <1>5 DEF SwitchStopOld, stop_api_server
  <2>3. p \notin misdirected => head[p] # <<old_first[p], addr[p][2]>>
    <3>1. CASE old_first[p] # head[p][1]
      BY <3>1
    <3>2. CASE p \notin misdirected /\ old_first[p] = head[p][1]
      <4>1. head[p][2] = addr[p][2] + 1
        BY <2>1, <3>2
      <4> QED BY <1>0, <4>1
    <3> QED BY <3>1, <3>2
  <2> QED BY <2>1, <2>2, <2>3
<1>6. CASE SwitchHost(p)
  <2>1. /\ switching[p] = "swap" /\ switching'[p] = "host"
        /\ UNCHANGED <<is_ready, head, servers, old_first, made, stopped, misdirected>>
    BY <1>6 DEF SwitchHost, ClusterTypeOK
  <2> QED BY <2>1
<1>7. CASE SwitchPort(p)
  <2>1. /\ switching[p] = "host" /\ switching'[p] = "port" /\ addr'[p] = head[p]
        /\ UNCHANGED <<is_ready, head, servers, old_first, made, stopped, misdirected>>
    BY <1>7 DEF SwitchPort, ClusterTypeOK
  <2> QED BY <2>1
<1>8. CASE SwitchOn(p)
  <2>1. /\ switching[p] = "port" /\ switching'[p] = "none"
        /\ UNCHANGED <<addr, head, servers, old_first, made, stopped, misdirected>>
    BY <1>8 DEF SwitchOn, ClusterTypeOK
  <2> QED BY <2>1
<1> QED BY <1>1, <1>2, <1>3, <1>4, <1>5, <1>6, <1>7, <1>8 DEF SwitchStep, SwitchGoesOn

\* The same for all pipelines.
LEMMA SwitchStepServing ==
  ASSUME ClusterTypeOK, ServingInv, NEW p \in Pipelines, SwitchStep(p)
  PROVE  ServingInv'
<1> USE DEF ServingInv
<1>1. /\ UNCHANGED <<pipelines, made, opVars, stopped>>
      /\ p \in made
      /\ \A q \in Pipelines \ {p} :
           /\ switching'[q] = switching[q] /\ old_first'[q] = old_first[q]
           /\ addr'[q] = addr[q] /\ head'[q] = head[q] /\ is_ready'[q] = is_ready[q]
           /\ q \in misdirected <=> q \in misdirected'
           /\ \A a : <<q, a>> \in servers <=> <<q, a>> \in servers'
  BY SwitchFrame
<1>2. Covered(p)' /\ Serves(p)'
  BY <1>1, SwitchStepOwn DEF SwitchIsCovered, ReadyMeansServing, Serves
<1>3. ListedAreMade' /\ KillsAreMarked'
  BY <1>1 DEF ListedAreMade, KillsAreMarked, opVars
<1>4. SwitchIsCovered'
  <2> SUFFICES ASSUME NEW q \in Pipelines \ {p} PROVE Covered(q)'
    BY <1>2 DEF SwitchIsCovered
  <2>1. Covered(q)
    BY DEF SwitchIsCovered
  <2> QED BY <1>1, <2>1, CoveredKept
<1>5. ReadyMeansServing'
  <2> SUFFICES ASSUME NEW q \in made \ (stopped' \cup misdirected'), is_ready'[q]
               PROVE  <<q, addr'[q]>> \in servers'
    BY <1>1 DEF ReadyMeansServing
  <2>1. CASE q = p
    BY <1>1, <1>2, <2>1 DEF Serves
  <2>2. CASE q # p
    BY <1>1, <2>2 DEF ReadyMeansServing, ClusterTypeOK
  <2> QED BY <2>1, <2>2
<1> QED BY <1>3, <1>4, <1>5

\* The list remove_pipelines builds has no element the old one lacks.
LEMMA KeptRange ==
  ASSUME NEW s \in Seq(Pipelines), NEW S, NEW f \in KeptPositions(Len(s), S)
  PROVE  Range([k \in DOMAIN f |-> s[f[k]]]) \subseteq Range(s)
<1>1. \A k \in DOMAIN f : f[k] \in 1..Len(s)
  BY DEF KeptPositions
<1> QED BY <1>1 DEF Range

\* stop_nodes and stop_node kill servers of marked pipelines only.
LEMMA OpStepServing ==
  ASSUME ClusterTypeOK, ServingInv, NEW t \in Ops, OpStep(t)
  PROVE  ServingInv'
<1> USE DEF ServingInv, switchVars
<1>1. ASSUME UNCHANGED <<pipelines, made, is_ready, addr, head, servers, switchVars,
                         victim, new_pipelines, stopped>>,
             \A u \in Ops : pc'[u] = "kill" => pc[u] = "kill"
      PROVE  ServingInv'
  BY <1>1 DEF ListedAreMade, KillsAreMarked, SwitchIsCovered, Covered, NewAddress, ReadyMeansServing
<1>2. CASE (\E targets \in SUBSET Range(pipelines) : StopNodes(t, targets))
           \/ (\E i \in 1..Len(pipelines) : StopNode(t, i)) \/ StopNodeDone(t)
  BY <1>1, <1>2 DEF StopNodes, StopNode, StopNodeDone, ClusterTypeOK
<1>3. ASSUME NEW i \in todo[t], StopMark(t, i) PROVE ServingInv'
  <2>1. CASE i > Len(pipelines)
    BY <1>1, <1>3, <2>1 DEF StopMark, ClusterTypeOK
  <2>2. CASE ~(i > Len(pipelines))
    <3>1. PICK p : p = pipelines[i]
      OBVIOUS
    <3>2. /\ stopped' = stopped \cup {p}
          /\ is_ready' = [is_ready EXCEPT ![p] = FALSE]
          /\ victim' = [victim EXCEPT ![t] = p]
          /\ pc' = [pc EXCEPT ![t] = "kill"]
          /\ UNCHANGED <<pipelines, made, addr, head, servers, switchVars, new_pipelines>>
      BY <1>3, <2>2, <3>1 DEF StopMark
    <3>3. \A q \in Pipelines : is_ready'[q] => is_ready[q]
      BY <3>2 DEF ClusterTypeOK
    <3>4. ListedAreMade'
      BY <3>2 DEF ListedAreMade
    <3>5. KillsAreMarked'
      BY <3>2 DEF KillsAreMarked, ClusterTypeOK
    <3>6. SwitchIsCovered'
      BY <3>2, <3>3, CoveredKept DEF SwitchIsCovered
    <3>7. ReadyMeansServing'
      BY <3>2, <3>3 DEF ReadyMeansServing, ClusterTypeOK
    <3> QED BY <3>4, <3>5, <3>6, <3>7
  <2> QED BY <2>1, <2>2
<1>4. CASE StopKill(t)
  <2>1. PICK v : v = victim[t]
    OBVIOUS
  <2>2. /\ \/ servers' = servers \ {<<v, <<head[v][1], head[v][2]>>>>}
           \/ servers' = servers
        /\ v \in stopped
        /\ UNCHANGED <<pipelines, made, is_ready, addr, head, switchVars, victim,
                       new_pipelines, stopped>>
        /\ \A u \in Ops : pc'[u] = "kill" => pc[u] = "kill"
    BY <1>4, <2>1 DEF StopKill, stop_api_server, KillsAreMarked, ClusterTypeOK
  <2>3. \A q, n : q \notin stopped => (<<q, n>> \in servers' <=> <<q, n>> \in servers)
    BY <2>2
  <2>4. ListedAreMade' /\ KillsAreMarked'
    BY <2>2 DEF ListedAreMade, KillsAreMarked
  <2>5. SwitchIsCovered'
    BY <2>2, <2>3, CoveredKept DEF SwitchIsCovered
  <2>6. ReadyMeansServing'
    BY <2>2, <2>3 DEF ReadyMeansServing
  <2> QED BY <2>4, <2>5, <2>6
<1>5. CASE RemovePipelines(t)
  <2>1. CASE UNCHANGED new_pipelines
    BY <1>1, <1>5, <2>1 DEF RemovePipelines, ClusterTypeOK
  <2>2. CASE \E f \in KeptPositions(Len(pipelines), job[t].indices) :
               new_pipelines' = [new_pipelines EXCEPT ![t] = [k \in DOMAIN f |-> pipelines[f[k]]]]
    <3>1. PICK f \in KeptPositions(Len(pipelines), job[t].indices) :
               new_pipelines' = [new_pipelines EXCEPT ![t] = [k \in DOMAIN f |-> pipelines[f[k]]]]
      BY <2>2
    <3>2. PICK kept : kept = [k \in DOMAIN f |-> pipelines[f[k]]]
      OBVIOUS
    <3>3. Range(kept) \subseteq made
      BY <3>2, KeptRange DEF ClusterTypeOK, ListedAreMade
    <3>4. new_pipelines' = [new_pipelines EXCEPT ![t] = kept]
      BY <3>1, <3>2
    <3>5. /\ UNCHANGED <<pipelines, made, is_ready, addr, head, servers, switchVars, victim, stopped>>
          /\ \A u \in Ops : pc'[u] = "kill" => pc[u] = "kill"
      BY <1>5 DEF RemovePipelines, ClusterTypeOK
    <3>6. ListedAreMade'
      BY <3>3, <3>4, <3>5 DEF ListedAreMade, ClusterTypeOK
    <3> QED BY <3>5, <3>6 DEF KillsAreMarked, SwitchIsCovered, Covered, NewAddress, ReadyMeansServing
  <2> QED BY <1>5, <2>1, <2>2 DEF RemovePipelines
<1>6. CASE AssignPipelines(t)
  <2>1. /\ pipelines' = new_pipelines[t]
        /\ UNCHANGED <<made, is_ready, addr, head, servers, switchVars, victim, new_pipelines, stopped>>
        /\ \A u \in Ops : pc'[u] = "kill" => pc[u] = "kill"
    BY <1>6 DEF AssignPipelines, ClusterTypeOK
  <2>2. ListedAreMade'
    BY <2>1 DEF ListedAreMade
  <2> QED BY <2>1, <2>2 DEF KillsAreMarked, SwitchIsCovered, Covered, NewAddress, ReadyMeansServing
<1> QED BY <1>2, <1>3, <1>4, <1>5, <1>6 DEF OpStep

\* Every step leaves the ready pipelines with a server.
LEMMA StepServing == TypeOK /\ ServingInv /\ [Next]_vars => ServingInv'
<1> SUFFICES ASSUME TypeOK, ServingInv, [Next]_vars PROVE ServingInv'
  OBVIOUS
<1>0. LoopTypeOK /\ ClusterTypeOK
  BY DEF TypeOK
<1>1. CASE (\E r \in Requests : AddRequest(r) \/ TaskStep(r)) \/ LoopStep \/ UNCHANGED vars
  <2>1. UNCHANGED clusterVars
    BY <1>0, <1>1, AddRequestType, TaskStepType, LoopStepType DEF vars
  <2> QED BY <2>1, ServingKept
<1>2. CASE \E p \in Pipelines : CreatePipeline(p) \/ SwitchStep(p)
  BY <1>0, <1>2, CreatePipelineServing, SwitchStepServing
<1>3. CASE \E t \in Ops : OpStep(t)
  BY <1>0, <1>3, OpStepServing
<1> QED BY <1>1, <1>2, <1>3 DEF Next

\* However switches that end, switches an exception ends, creations and stops
\* interleave, a ready pipeline has a live API server at its address, unless
\* stop_pipeline was called on it or a switch of it kept the head node that a
\* failed one had put in place.
THEOREM ReadyPipelinesServe == Spec => []ReadyMeansServing
<1>1. Init => ServingInv
  <2> SUFFICES ASSUME Init PROVE ServingInv
    OBVIOUS
  <2>1. /\ pipelines = InitialPipelines /\ made = Range(InitialPipelines)
        /\ switching = [p \in Pipelines |-> "none"]
        /\ pc = [t \in Ops |-> "idle"] /\ new_pipelines = [t \in Ops |-> << >>]
        /\ servers = {<<p, addr[p]>> : p \in made}
    BY DEF Init
  <2>2. made \subseteq Pipelines /\ Range(<< >>) = {}
    BY <2>1, ConstantsAssumption DEF Range
  <2>3. ListedAreMade
    BY <2>1, <2>2 DEF ListedAreMade
  <2>4. KillsAreMarked /\ SwitchIsCovered
    BY <2>1 DEF KillsAreMarked, SwitchIsCovered, Covered
  <2>5. ReadyMeansServing
    BY <2>1, <2>2 DEF ReadyMeansServing
  <2> QED BY <2>3, <2>4, <2>5 DEF ServingInv
<1>2. ServingInv => ReadyMeansServing
  BY DEF ServingInv
<1> QED BY <1>1, <1>2, InitType, StepType, StepServing, PTL DEF Spec

-----------------------------------------------------------------------------
(* The soft limit max_batch_size.                                          *)

\* A pipeline can take one more request within the slack.
Room(p) == max_batch_size[p] # NoLimit => flying_requests[p] < max_batch_size[p] + removals

\* The loop sleeps after each dispatch, so one task at most has not started:
\* one at a time is between its selection and its charge.
OneCreated == \A r, u \in Requests : task[r].pc = "created" /\ task[u].pc = "created" => r = u

\* The pipeline its index now names has room for it: the one that was
\* selected, or, if the list was replaced meanwhile, any.
RoomAt(i) == i <= Len(pipelines) /\ Room(pipelines[i])
CreatedHasRoom ==
  \A r \in Requests : task[r].pc = "created" =>
     (\A p \in Pipelines : Room(p)) \/ RoomAt(task[r].index)

CapacityInv == CapacitySlack /\ OneCreated /\ CreatedHasRoom

\* A step that charges no pipeline, and adds no task, keeps the limit.
LEMMA CapacityKept ==
  ASSUME TypeOK, CapacityInv, UNCHANGED <<pipelines, removals>>,
         \A p \in Pipelines : flying_requests'[p] \in Nat /\ flying_requests'[p] <= flying_requests[p],
         \A r \in Requests : task'[r].pc = "created" => task'[r] = task[r]
  PROVE  CapacityInv'
<1>0. /\ removals \in Nat /\ pipelines \in Seq(Pipelines)
      /\ \A r \in Requests : task[r].index \in Nat \ {0}
      /\ \A p \in Pipelines : flying_requests[p] \in Nat
      /\ \A p \in Pipelines : max_batch_size[p] # NoLimit => max_batch_size[p] \in Nat
  BY ConstantsAssumption DEF TypeOK, LoopTypeOK, ClusterTypeOK, TaskStates
<1>1. CapacitySlack'
  BY <1>0 DEF CapacityInv, CapacitySlack
<1>2. OneCreated'
  BY DEF CapacityInv, OneCreated
<1>3. \A p \in Pipelines : Room(p) => Room(p)'
  BY <1>0 DEF Room
<1>4. \A i \in Nat \ {0} : i <= Len(pipelines) => pipelines[i] \in Pipelines
  BY <1>0
<1>5. CreatedHasRoom'
  <2> SUFFICES ASSUME NEW r \in Requests, task'[r].pc = "created"
               PROVE  (\A p \in Pipelines : Room(p)') \/ RoomAt(task[r].index)'
    BY DEF CreatedHasRoom
  <2>1. task'[r] = task[r] /\ task[r].pc = "created"
    OBVIOUS
  <2>2. CASE \A p \in Pipelines : Room(p)
    BY <1>3, <2>2
  <2>3. CASE RoomAt(task[r].index)
    <3>1. PICK q \in Pipelines : q = pipelines[task[r].index]
      BY <1>0, <1>4, <2>3 DEF RoomAt
    <3>2. Room(q)'
      BY <1>3, <2>3, <3>1 DEF RoomAt
    <3>3. task'[r].index <= Len(pipelines') /\ pipelines'[task'[r].index] = q
      BY <2>1, <2>3, <3>1 DEF RoomAt
    <3> QED BY <3>2, <3>3 DEF RoomAt, Room
  <2> QED BY <2>1, <2>2, <2>3 DEF CapacityInv, CreatedHasRoom
<1> QED BY <1>1, <1>2, <1>5 DEF CapacityInv

\* A dispatch: the selected pipeline has capacity, and no other task waits
\* for its charge.
LEMMA DispatchCapacity ==
  ASSUME TypeOK, CapacityInv, NEW r \in Requests, NEW i, LoopAwake,
         i \in select_pipeline_index, CreateTask(r, i)
  PROVE  CapacityInv'
<1>1. /\ i \in 1..Len(pipelines) /\ pipelines[i] \in Pipelines /\ removals \in Nat
      /\ has_capacity(pipelines[i])
  BY DEF select_pipeline_index, TypeOK, ClusterTypeOK
<1>2. /\ task' = [task EXCEPT ![r] = Task("created", i, NoPipeline, NoServer)]
      /\ UNCHANGED <<flying_requests, pipelines, removals>>
  BY DEF CreateTask, clusterVars
<1>3. /\ \A u \in Requests \ {r} : task'[u].pc # "created"
      /\ task'[r].index = i
  BY <1>2 DEF LoopAwake, Task, TypeOK, LoopTypeOK
<1>4. Room(pipelines[i])
  BY <1>1, ConstantsAssumption DEF has_capacity, Room, TypeOK, LoopTypeOK
<1>5. CapacitySlack' /\ OneCreated'
  BY <1>2, <1>3 DEF CapacityInv, CapacitySlack, OneCreated
<1>6. RoomAt(task[r].index)'
  BY <1>1, <1>2, <1>3, <1>4 DEF Room, RoomAt
<1>7. CreatedHasRoom'
  BY <1>3, <1>6 DEF CreatedHasRoom
<1> QED BY <1>5, <1>7 DEF CapacityInv

\* A task is charged to the pipeline its index names now.
LEMMA StartCapacity ==
  ASSUME TypeOK, CapacityInv, NEW r \in Requests, StartTask(r)
  PROVE  CapacityInv'
<1>0. /\ removals \in Nat /\ pipelines \in Seq(Pipelines)
      /\ task[r].index \in Nat \ {0} /\ task \in [Requests -> TaskStates]
      /\ flying_requests \in [Pipelines -> Nat]
      /\ \A p \in Pipelines : max_batch_size[p] # NoLimit => max_batch_size[p] \in Nat
  BY ConstantsAssumption DEF TypeOK, LoopTypeOK, ClusterTypeOK, TaskStates
<1>1. task[r].pc = "created" /\ UNCHANGED <<pipelines, removals>>
  BY DEF StartTask, clusterVars
<1>2. CASE task[r].index > Len(pipelines)
  <2>1. task' = [task EXCEPT ![r] = NoTask] /\ UNCHANGED flying_requests
    BY <1>2 DEF StartTask
  <2>2. \A u \in Requests : task'[u].pc = "created" => task'[u] = task[u]
    BY <1>0, <2>1 DEF NoTask, Task
  <2> QED BY <1>0, <1>1, <2>1, <2>2, CapacityKept
<1>3. CASE ~(task[r].index > Len(pipelines))
  <2>1. PICK p \in Pipelines : p = pipelines[task[r].index]
    BY <1>0, <1>3
  <2>2. /\ task' = [task EXCEPT ![r] = Task("sending", task[r].index, p, NoServer)]
        /\ flying_requests' = [flying_requests EXCEPT ![p] = flying_requests[p] + 1]
    BY <1>3, <2>1 DEF StartTask, add_flying_request
  <2>3. Room(p)
    BY <1>1, <2>1 DEF CapacityInv, CreatedHasRoom, RoomAt
  <2>4. CapacitySlack'
    BY <1>0, <1>1, <2>2, <2>3 DEF CapacityInv, CapacitySlack, Room
  <2>5. \A u \in Requests : task'[u].pc # "created"
    BY <1>0, <1>1, <2>2 DEF CapacityInv, OneCreated, Task
  <2> QED BY <2>4, <2>5 DEF CapacityInv, OneCreated, CreatedHasRoom
<1> QED BY <1>2, <1>3

\* The other steps of a task charge no pipeline.
LEMMA TaskCapacity ==
  ASSUME TypeOK, CapacityInv, NEW r \in Requests, TaskStep(r)
  PROVE  CapacityInv'
<1>0. task \in [Requests -> TaskStates] /\ flying_requests \in [Pipelines -> Nat]
  BY DEF TypeOK, LoopTypeOK
<1>1. CASE StartTask(r)
  BY <1>1, StartCapacity
<1>2. CASE ~ StartTask(r)
  <2>1. UNCHANGED <<pipelines, removals>>
    BY TaskStepType DEF clusterVars
  <2>2. ASSUME NEW q, flying_requests' = remove_flying_request(q)
        PROVE  \A p \in Pipelines : flying_requests'[p] \in Nat /\ flying_requests'[p] <= flying_requests[p]
    BY <1>0, <2>2 DEF remove_flying_request
  <2>3. \A p \in Pipelines : flying_requests'[p] \in Nat /\ flying_requests'[p] <= flying_requests[p]
    <3>1. UNCHANGED flying_requests \/ flying_requests' = remove_flying_request(task[r].pipeline)
      BY <1>2 DEF TaskStep, SendRequest, Connect, ConnectionRefused, Complete, StreamBroken, Requeue
    <3> QED BY <1>0, <2>2, <3>1
  <2>4. \E at \in {"none", "connecting", "streaming"} : \E q, s, j :
           task' = [task EXCEPT ![r] = Task(at, j, q, s)]
    BY <1>2 DEF TaskStep, SendRequest, Connect, ConnectionRefused, Complete, StreamBroken, Requeue, NoTask
  <2>5. \A u \in Requests : task'[u].pc = "created" => task'[u] = task[u]
    BY <1>0, <2>4 DEF Task
  <2> QED BY <2>1, <2>3, <2>5, CapacityKept
<1> QED BY <1>1, <1>2

\* A thread changes the list: appending moves no position, and a new list
\* gives every pipeline room for one more request.
LEMMA ListCapacity ==
  ASSUME TypeOK, CapacityInv, UNCHANGED loopVars,
         \/ UNCHANGED <<pipelines, removals>>
         \/ (\E p \in Pipelines : pipelines' = Append(pipelines, p)) /\ UNCHANGED removals
         \/ removals' = removals + 1
  PROVE  CapacityInv'
<1>0. /\ removals \in Nat /\ pipelines \in Seq(Pipelines)
      /\ \A r \in Requests : task[r].index \in Nat \ {0}
      /\ \A p \in Pipelines : flying_requests[p] \in Nat
      /\ \A p \in Pipelines : max_batch_size[p] # NoLimit => max_batch_size[p] \in Nat
  BY ConstantsAssumption DEF TypeOK, LoopTypeOK, ClusterTypeOK, TaskStates
<1>1. UNCHANGED task /\ UNCHANGED flying_requests
  BY DEF loopVars
<1>2. CASE UNCHANGED <<pipelines, removals>>
  BY <1>0, <1>1, <1>2, CapacityKept
<1>3. CASE (\E p \in Pipelines : pipelines' = Append(pipelines, p)) /\ UNCHANGED removals
  <2>1. \A i \in Nat \ {0} : i <= Len(pipelines) => i <= Len(pipelines') /\ pipelines'[i] = pipelines[i]
    BY <1>0, <1>3
  <2>2. CapacitySlack' /\ OneCreated'
    BY <1>1, <1>3 DEF CapacityInv, CapacitySlack, OneCreated
  <2>3. \A p : Room(p) => Room(p)'
    BY <1>1, <1>3 DEF Room
  <2>4. CreatedHasRoom'
    <3> SUFFICES ASSUME NEW r \in Requests, task'[r].pc = "created"
                 PROVE  (\A p \in Pipelines : Room(p)') \/ RoomAt(task[r].index)'
      BY DEF CreatedHasRoom
    <3>1. CASE \A p \in Pipelines : Room(p)
      BY <2>3, <3>1
    <3>2. CASE RoomAt(task[r].index)
      <4>1. PICK q : q = pipelines[task[r].index]
        OBVIOUS
      <4>2. task'[r].index <= Len(pipelines') /\ pipelines'[task'[r].index] = q
        BY <1>0, <1>1, <2>1, <3>2, <4>1 DEF RoomAt
      <4>3. Room(q)'
        BY <2>3, <3>2, <4>1 DEF RoomAt
      <4> QED BY <4>2, <4>3 DEF RoomAt, Room
    <3> QED BY <1>1, <3>1, <3>2 DEF CapacityInv, CreatedHasRoom
  <2> QED BY <2>2, <2>4 DEF CapacityInv
<1>4. CASE removals' = removals + 1
  <2>1. \A p \in Pipelines : Room(p)'
    BY <1>0, <1>1, <1>4 DEF CapacityInv, CapacitySlack, Room
  <2>2. CapacitySlack'
    BY <1>0, <1>1, <1>4 DEF CapacityInv, CapacitySlack
  <2> QED BY <1>1, <2>1, <2>2 DEF CapacityInv, OneCreated, CreatedHasRoom
<1> QED BY <1>2, <1>3, <1>4

\* What the threads do to the list and to removals.
LEMMA ThreadsAndList ==
  ASSUME \/ \E p \in Pipelines : CreatePipeline(p) \/ SwitchStep(p)
         \/ \E t \in Ops : OpStep(t)
         \/ UNCHANGED vars
  PROVE  \/ UNCHANGED <<pipelines, removals>>
         \/ (\E p \in Pipelines : pipelines' = Append(pipelines, p)) /\ UNCHANGED removals
         \/ removals' = removals + 1
<1>1. CASE \E p \in Pipelines : CreatePipeline(p)
  BY <1>1 DEF CreatePipeline
<1>2. CASE \E p \in Pipelines : SwitchStep(p)
  BY <1>2, SwitchLeavesList
<1>3. ASSUME NEW t \in Ops, OpStep(t)
      PROVE  UNCHANGED <<pipelines, removals>> \/ removals' = removals + 1
  BY <1>3 DEF OpStep, StopNodes, StopNode, StopMark, StopKill, StopNodeDone,
              RemovePipelines, AssignPipelines
<1>4. CASE UNCHANGED vars
  BY <1>4 DEF vars, clusterVars
<1> QED BY <1>1, <1>2, <1>3, <1>4

\* Every step keeps the limit.
LEMMA StepCapacity == TypeOK /\ PlaceInv /\ CapacityInv /\ [Next]_vars => CapacityInv'
<1> SUFFICES ASSUME TypeOK, PlaceInv, CapacityInv, [Next]_vars PROVE CapacityInv'
  OBVIOUS
<1>0. LoopTypeOK /\ \A p \in Pipelines : flying_requests[p] \in Nat
  BY DEF TypeOK, LoopTypeOK
<1>1. ASSUME UNCHANGED <<task, flying_requests, clusterVars>> PROVE CapacityInv'
  BY <1>0, <1>1, CapacityKept DEF clusterVars
<1>2. CASE \E r \in Requests : AddRequest(r)
  BY <1>1, <1>2 DEF AddRequest
<1>3. CASE LoopStep
  <2>1. ASSUME NEW i, DispatchUrgent(i) \/ DispatchWaiting(i) PROVE CapacityInv'
    <3>1. PICK r \in Requests : ~Live(r) /\ CreateTask(r, i)
      BY <1>0, <2>1, DispatchPlace
    <3>2. LoopAwake /\ i \in select_pipeline_index
      BY <2>1 DEF DispatchUrgent, DispatchWaiting
    <3> QED BY <3>1, <3>2, DispatchCapacity
  <2>2. CASE IdleIteration
    BY <1>1, <2>2 DEF IdleIteration
  <2> QED BY <1>3, <2>1, <2>2 DEF LoopStep
<1>4. CASE \E r \in Requests : TaskStep(r)
  BY <1>4, TaskCapacity
<1>5. CASE \/ \E p \in Pipelines : CreatePipeline(p) \/ SwitchStep(p)
           \/ \E t \in Ops : OpStep(t)
           \/ UNCHANGED vars
  <2>1. UNCHANGED loopVars
    BY <1>5, ThreadStepsLeaveLoop
  <2>2. \/ UNCHANGED <<pipelines, removals>>
        \/ (\E p \in Pipelines : pipelines' = Append(pipelines, p)) /\ UNCHANGED removals
        \/ removals' = removals + 1
    BY <1>5, ThreadsAndList
  <2> QED BY <2>1, <2>2, ListCapacity
<1> QED BY <1>2, <1>3, <1>4, <1>5 DEF Next

\* CapacitySlack: for any number of requests, pipelines and threads the event
\* loop alone never exceeds max_batch_size, and each replacement of the list
\* between a selection and its task lets one request more through.
THEOREM CapacityIsSoft == Spec => []CapacitySlack
<1>1. Init => CapacityInv
  <2> SUFFICES ASSUME Init PROVE CapacityInv
    OBVIOUS
  <2>1. \A r \in Requests : task[r].pc # "created"
    BY DEF Init, NoTask, Task
  <2>2. CapacitySlack
    BY ConstantsAssumption DEF Init, CapacitySlack
  <2> QED BY <2>1, <2>2 DEF CapacityInv, OneCreated, CreatedHasRoom
<1>2. CapacityInv => CapacitySlack
  BY DEF CapacityInv
<1> QED BY <1>1, <1>2, InitType, StepType, InitPlace, StepPlace, StepCapacity, PTL DEF Spec

-----------------------------------------------------------------------------
(* Stopping the pipelines that were meant.                                 *)

\* Calls of stop_nodes and stop_node do not overlap: one thread makes them.
OneCaller == \A t, u \in Ops : t = u

\* The indices a call has still to stop name pipelines it was called for.
TargetsInv ==
  \A t \in Ops :
    /\ pc[t] \in {"stop", "kill"} =>
         \A i \in todo[t] : i <= Len(pipelines) /\ pipelines[i] \in job[t].targets
    /\ pc[t] = "kill" => victim[t] \in job[t].targets

\* The caller's own steps.
LEMMA OpTargets ==
  ASSUME OneCaller, ClusterTypeOK, TargetsInv, NEW t \in Ops, OpStep(t)
  PROVE  TargetsInv'
<1>0. /\ Ops = {t} /\ pipelines \in Seq(Pipelines)
      /\ pc \in [Ops -> OpStates] /\ job \in [Ops -> Jobs]
      /\ todo \in [Ops -> SUBSET (Nat \ {0})] /\ victim \in [Ops -> Pipelines \cup {NoPipeline}]
  BY DEF OneCaller, ClusterTypeOK
<1>1. ASSUME NEW targets \in SUBSET Range(pipelines), StopNodes(t, targets) PROVE TargetsInv'
  <2>1. PICK indices : indices = {i \in 1..Len(pipelines) : pipelines[i] \in targets}
    OBVIOUS
  <2>2. /\ pc'[t] = "stop" /\ todo'[t] = indices /\ UNCHANGED pipelines
        /\ job'[t].targets = targets
    BY <1>0, <1>1, <2>1 DEF StopNodes, Job
  <2> QED BY <1>0, <2>1, <2>2 DEF TargetsInv
<1>2. ASSUME NEW i \in 1..Len(pipelines), StopNode(t, i) PROVE TargetsInv'
  <2>1. /\ pc'[t] = "stop" /\ todo'[t] = {i} /\ UNCHANGED pipelines
        /\ job'[t].targets = {pipelines[i]}
    BY <1>0, <1>2 DEF StopNode, Job
  <2> QED BY <1>0, <2>1 DEF TargetsInv
<1>3. ASSUME NEW i \in todo[t], StopMark(t, i) PROVE TargetsInv'
  <2>1. i <= Len(pipelines) /\ pipelines[i] \in job[t].targets /\ i \in Nat \ {0}
    BY <1>0, <1>3 DEF StopMark, TargetsInv
  <2>2. /\ pc[t] = "stop" /\ todo'[t] = todo[t] \ {i} /\ victim'[t] = pipelines[i]
        /\ UNCHANGED <<pipelines, job>>
    BY <1>0, <1>3, <2>1 DEF StopMark
  <2> QED BY <1>0, <2>1, <2>2 DEF TargetsInv
<1>4. CASE StopKill(t)
  <2>1. pc[t] = "kill" /\ pc'[t] = "stop" /\ UNCHANGED <<pipelines, job, todo, victim>>
    BY <1>0, <1>4 DEF StopKill
  <2> QED BY <1>0, <2>1 DEF TargetsInv
<1>5. CASE StopNodeDone(t) \/ RemovePipelines(t) \/ AssignPipelines(t)
  <2>1. pc'[t] \notin {"stop", "kill"}
    BY <1>0, <1>5 DEF StopNodeDone, RemovePipelines, AssignPipelines
  <2> QED BY <1>0, <2>1 DEF TargetsInv
<1> QED BY <1>1, <1>2, <1>3, <1>4, <1>5 DEF OpStep

\* Pipelines are appended at the end of the list.
LEMMA StepTargets ==
  ASSUME OneCaller
  PROVE  TypeOK /\ TargetsInv /\ [Next]_vars => TargetsInv'
<1> SUFFICES ASSUME TypeOK, TargetsInv, [Next]_vars PROVE TargetsInv'
  OBVIOUS
<1>0. LoopTypeOK /\ ClusterTypeOK
  BY DEF TypeOK
<1>1. CASE (\E r \in Requests : AddRequest(r) \/ TaskStep(r)) \/ LoopStep \/ UNCHANGED vars
  <2>1. UNCHANGED clusterVars
    BY <1>0, <1>1, AddRequestType, TaskStepType, LoopStepType DEF vars
  <2> QED BY <2>1 DEF TargetsInv, clusterVars, opVars
<1>2. ASSUME NEW p \in Pipelines, CreatePipeline(p) PROVE TargetsInv'
  <2>1. pipelines' = Append(pipelines, p) /\ UNCHANGED <<pc, job, todo, victim>>
    BY <1>2 DEF CreatePipeline, opVars
  <2>2. pipelines \in Seq(Pipelines) /\ \A t \in Ops : todo[t] \subseteq Nat \ {0}
    BY <1>0 DEF ClusterTypeOK
  <2>3. \A i \in Nat \ {0} : i <= Len(pipelines) => i <= Len(pipelines') /\ pipelines'[i] = pipelines[i]
    BY <2>1, <2>2
  <2> QED BY <2>1, <2>2, <2>3 DEF TargetsInv
<1>3. ASSUME NEW p \in Pipelines, SwitchStep(p) PROVE TargetsInv'
  <2>1. UNCHANGED <<pipelines, opVars>>
    BY <1>3, SwitchLeavesList
  <2> QED BY <2>1 DEF TargetsInv, opVars
<1>4. CASE \E t \in Ops : OpStep(t)
  BY <1>0, <1>4, OpTargets
<1> QED BY <1>1, <1>2, <1>3, <1>4 DEF Next

\* StopsOnlyTargets: one caller's stop_nodes and stop_node stop the pipelines
\* they were called for and no other, however many are created meanwhile.
\* (With two callers the indices of one are shifted by the other's removal.)
THEOREM OnlyTargetsStopped == ASSUME OneCaller PROVE Spec => []StopsOnlyTargets
<1>1. Init => TargetsInv
  BY DEF Init, TargetsInv
<1>2. TargetsInv => StopsOnlyTargets
  BY DEF TargetsInv, StopsOnlyTargets
<1> QED BY <1>1, <1>2, InitType, StepType, StepTargets, PTL DEF Spec
=============================================================================
