------------------------ MODULE RequestServiceProofs ------------------------
(***************************************************************************)
(* The global server implements RequestService, for every value of the     *)
(* constants; in particular, at most one request is lost per replacement   *)
(* of the pipeline list.                                                   *)
(***************************************************************************)
EXTENDS GlobalServerProofs

Running == {r \in Requests : Live(r)}

\* Tasks that will find their index past the end of the list, and return.
Stale == {r \in Requests : task[r].pc = "created" /\ task[r].index > Len(pipelines)}

LossInv == OneCreated /\ Cardinality(Lost \cup Stale) <= removals

-----------------------------------------------------------------------------
(* Bounds on cardinalities.                                                *)

\* Sets of requests are finite.
LEMMA SomeRequests ==
  ASSUME NEW S \in SUBSET Requests
  PROVE  IsFiniteSet(S) /\ Cardinality(S) \in Nat
BY ConstantsAssumption, FS_Subset, FS_CardinalityType

\* A set between S and S with one more request.
LEMMA OneMore ==
  ASSUME NEW S \in SUBSET Requests, NEW T, NEW x \in Requests, T \subseteq S \cup {x}
  PROVE  Cardinality(T) <= Cardinality(S) + 1
<1>1. IsFiniteSet(S \cup {x}) /\ IsFiniteSet(S) /\ Cardinality(S) \in Nat
  BY SomeRequests
<1>2. /\ Cardinality(T) \in Nat
      /\ Cardinality(T) <= Cardinality(S \cup {x})
  BY <1>1, FS_Subset, FS_CardinalityType
<1>3. Cardinality(S \cup {x}) \in {Cardinality(S), Cardinality(S) + 1}
  BY <1>1, FS_AddElement
<1> QED BY <1>1, <1>2, <1>3

\* A subset is not larger.
LEMMA NotMore ==
  ASSUME NEW S \in SUBSET Requests, NEW T, T \subseteq S
  PROVE  Cardinality(T) <= Cardinality(S)
BY SomeRequests, FS_Subset

\* A set without one of its elements is smaller.
LEMMA OneLess ==
  ASSUME NEW S \in SUBSET Requests, NEW x \in S, NEW T, T \subseteq S \ {x}
  PROVE  Cardinality(T) < Cardinality(S)
<1>1. IsFiniteSet(S) /\ Cardinality(S) \in Nat
  BY SomeRequests
<1>2. IsFiniteSet(S \ {x}) /\ Cardinality(S \ {x}) = Cardinality(S) - 1
  BY <1>1, FS_RemoveElement
<1>3. Cardinality(T) <= Cardinality(S \ {x}) /\ Cardinality(T) \in Nat
  BY <1>2, FS_Subset, FS_CardinalityType
<1> QED BY <1>1, <1>2, <1>3

-----------------------------------------------------------------------------
(* What each step looks like to a client.                                  *)

\* add_request is a submission.
LEMMA AddRequestView ==
  ASSUME LoopTypeOK, PlaceInv, LossInv, NEW r \in Requests, AddRequest(r)
  PROVE  /\ r \notin added /\ added' = added \cup {r}
         /\ UNCHANGED <<completed, removals>>
         /\ Running' = Running /\ Lost' = Lost /\ Stale' = Stale
         /\ OneCreated'
<1>1. /\ r \notin added /\ added' = added \cup {r}
      /\ UNCHANGED <<completed, task, pipelines, removals>>
      /\ \/ urgent_queue' = Append(urgent_queue, r) /\ UNCHANGED waiting_queue
         \/ waiting_queue' = Append(waiting_queue, r) /\ UNCHANGED urgent_queue
  BY DEF AddRequest, clusterVars
<1>2. Queued' = Queued \cup {r}
  <2>1. r \notin Queued
    BY <1>1 DEF PlaceInv, OnlyAdded
  <2>2. CASE urgent_queue' = Append(urgent_queue, r) /\ UNCHANGED waiting_queue
    <3>1. Range(urgent_queue') = Range(urgent_queue) \cup {r}
      BY <2>1, <2>2, QueuePut DEF LoopTypeOK, PlaceInv, AtMostOnce, Queued
    <3> QED BY <2>2, <3>1 DEF Queued
  <2>3. CASE waiting_queue' = Append(waiting_queue, r) /\ UNCHANGED urgent_queue
    <3>1. Range(waiting_queue') = Range(waiting_queue) \cup {r}
      BY <2>1, <2>3, QueuePut DEF LoopTypeOK, PlaceInv, AtMostOnce, Queued
    <3> QED BY <2>3, <3>1 DEF Queued
  <2> QED BY <1>1, <2>2, <2>3
<1>3. Lost' = Lost
  BY <1>1, <1>2 DEF Lost, Live
<1>4. Running' = Running /\ Stale' = Stale
  BY <1>1 DEF Running, Stale, Live
<1>5. OneCreated'
  BY <1>1 DEF LossInv, OneCreated
<1> QED BY <1>1, <1>3, <1>4, <1>5

\* A dispatch starts an attempt of a waiting request.
LEMMA CreateTaskView ==
  ASSUME LoopTypeOK, NEW r \in Requests, NEW i \in 1..Len(pipelines),
         LoopAwake, CreateTask(r, i), ~Live(r),
         r \in added, r \notin completed, r \in Queued, Queued' = Queued \ {r}
  PROVE  /\ UNCHANGED <<added, completed, removals>>
         /\ r \notin Lost
         /\ Running' = Running \cup {r} /\ Lost' = Lost /\ Stale' = {}
         /\ OneCreated'
<1>1. /\ task' = [task EXCEPT ![r] = Task("created", i, NoPipeline, NoServer)]
      /\ UNCHANGED <<added, completed, pipelines, removals>>
  BY DEF CreateTask, clusterVars
<1>2. /\ task'[r].pc = "created" /\ task'[r].index = i
      /\ \A u \in Requests \ {r} : task'[u] = task[u]
  BY <1>1 DEF LoopTypeOK, Task
<1>3. \A u \in Requests : task[u].pc # "created"
  BY DEF LoopAwake
<1>4. Live(r)' /\ \A u \in Requests \ {r} : Live(u)' <=> Live(u)
  BY <1>2 DEF Live
<1>5. Running' = Running \cup {r}
  BY <1>4 DEF Running
<1>6. Lost' = Lost /\ r \notin Lost
  <2>1. added \subseteq Requests
    BY DEF LoopTypeOK
  <2> QED BY <1>1, <1>4, <2>1 DEF Lost
<1>7. Stale' = {}
  BY <1>1, <1>2, <1>3 DEF Stale
<1>8. OneCreated'
  BY <1>2, <1>3 DEF OneCreated
<1> QED BY <1>1, <1>5, <1>6, <1>7, <1>8

\* Both queues are dispatched from in the same way.
LEMMA DispatchView ==
  ASSUME LoopTypeOK, PlaceInv, NEW i \in 1..Len(pipelines),
         DispatchUrgent(i) \/ DispatchWaiting(i)
  PROVE  /\ \E r \in Requests : /\ r \in added \ (Running \cup completed \cup Lost)
                                /\ Running' = Running \cup {r}
         /\ UNCHANGED <<added, completed, removals>>
         /\ Lost' = Lost /\ Stale' = {} /\ OneCreated'
<1>1. CASE DispatchUrgent(i)
  <2>1. PICK r : r = Head(urgent_queue)
    OBVIOUS
  <2>2. /\ r \in Requests /\ r \in Range(urgent_queue)
        /\ Range(urgent_queue') = Range(urgent_queue) \ {r}
    BY <1>1, <2>1, QueueGet DEF DispatchUrgent, LoopTypeOK, PlaceInv, AtMostOnce
  <2>3. LoopAwake /\ CreateTask(r, i) /\ UNCHANGED waiting_queue
    BY <1>1, <2>1 DEF DispatchUrgent
  <2>4. /\ ~Live(r) /\ r \notin completed /\ r \in added /\ r \in Queued
        /\ r \notin Range(waiting_queue)
    BY <2>2 DEF PlaceInv, AtMostOnce, OnlyAdded, Queued
  <2>5. Queued' = Queued \ {r}
    BY <2>2, <2>3, <2>4 DEF Queued
  <2> QED BY <2>2, <2>3, <2>4, <2>5, CreateTaskView DEF Running
<1>2. CASE DispatchWaiting(i)
  <2>1. PICK r : r = Head(waiting_queue)
    OBVIOUS
  <2>2. /\ r \in Requests /\ r \in Range(waiting_queue)
        /\ Range(waiting_queue') = Range(waiting_queue) \ {r}
    BY <1>2, <2>1, QueueGet DEF DispatchWaiting, LoopTypeOK, PlaceInv, AtMostOnce
  <2>3. LoopAwake /\ CreateTask(r, i) /\ UNCHANGED urgent_queue
    BY <1>2, <2>1 DEF DispatchWaiting
  <2>4. /\ ~Live(r) /\ r \notin completed /\ r \in added /\ r \in Queued
        /\ r \notin Range(urgent_queue)
    BY <2>2 DEF PlaceInv, AtMostOnce, OnlyAdded, Queued
  <2>5. Queued' = Queued \ {r}
    BY <2>2, <2>3, <2>4 DEF Queued
  <2> QED BY <2>2, <2>3, <2>4, <2>5, CreateTaskView DEF Running
<1> QED BY <1>1, <1>2

\* A task goes on, fails and is retried, completes, or finds its index stale.
LEMMA TaskView ==
  ASSUME LoopTypeOK, PlaceInv, LossInv, NEW r \in Requests, TaskStep(r)
  PROVE  /\ UNCHANGED <<added, removals>> /\ r \in Running
         /\ \/ UNCHANGED <<Running, completed, Lost>>
            \/ Running' = Running \ {r} /\ UNCHANGED <<completed, Lost>>
            \/ Running' = Running \ {r} /\ completed' = completed \cup {r} /\ Lost' = Lost
            \/ /\ r \in Stale \ Lost /\ Lost' = Lost \cup {r}
               /\ Running' = Running \ {r} /\ completed' = completed
         /\ Lost' \cup Stale' \subseteq Lost \cup Stale
         /\ OneCreated'
<1>0. NoTask.pc = "none"
  BY DEF NoTask, Task
<1>1. /\ Live(r) /\ UNCHANGED <<added, removals, pipelines>>
      /\ \A u \in Requests \ {r} : task'[u] = task[u]
      /\ task'[r].pc # "created"
  BY <1>0 DEF TaskStep, StartTask, SendRequest, Connect, ConnectionRefused, Complete,
              StreamBroken, Requeue, Live, LoopTypeOK, clusterVars, Task
<1>2. /\ added \subseteq Requests
      /\ r \in added /\ r \notin Queued /\ r \notin completed /\ r \notin Lost
  BY <1>1 DEF LoopTypeOK, PlaceInv, AtMostOnce, OnlyAdded, Lost
<1>3. /\ Stale' = Stale \ {r} /\ OneCreated'
      /\ \A u \in Requests \ {r} : Live(u)' <=> Live(u)
  BY <1>1 DEF Stale, LossInv, OneCreated, Live
<1>4. r \in Running
  BY <1>1 DEF Running
<1>5. ASSUME task'[r].pc # "none", UNCHANGED <<waiting_queue, urgent_queue, completed>>
      PROVE  UNCHANGED <<Running, completed, Lost>>
  <2>1. Live(r)' /\ Queued' = Queued
    BY <1>5 DEF Live, Queued
  <2> QED BY <1>1, <1>2, <1>3, <1>5, <2>1 DEF Running, Lost
<1>6. ASSUME Requeue(r)
      PROVE  Running' = Running \ {r} /\ UNCHANGED <<completed, Lost>>
  <2>1. ~Live(r)' /\ UNCHANGED <<waiting_queue, completed>>
    BY <1>0, <1>6 DEF Requeue, Live, LoopTypeOK
  <2>2. Range(urgent_queue') = Range(urgent_queue) \cup {r}
    BY <1>2, <1>6, QueuePut DEF Requeue, LoopTypeOK, PlaceInv, AtMostOnce, Queued
  <2>3. Queued' = Queued \cup {r}
    BY <2>1, <2>2 DEF Queued
  <2> QED BY <1>1, <1>2, <1>3, <2>1, <2>3 DEF Running, Lost
<1>7. ASSUME task'[r].pc = "none", completed' = completed \cup {r},
             UNCHANGED <<waiting_queue, urgent_queue>>
      PROVE  Running' = Running \ {r} /\ completed' = completed \cup {r} /\ Lost' = Lost
  <2>1. ~Live(r)' /\ Queued' = Queued
    BY <1>7 DEF Live, Queued
  <2> QED BY <1>1, <1>2, <1>3, <1>7, <2>1 DEF Running, Lost
<1>8. ASSUME task'[r].pc = "none", r \in Stale,
             UNCHANGED <<waiting_queue, urgent_queue, completed>>
      PROVE  /\ r \in Stale \ Lost /\ Lost' = Lost \cup {r}
             /\ Running' = Running \ {r} /\ completed' = completed
  <2>1. ~Live(r)' /\ Queued' = Queued
    BY <1>8 DEF Live, Queued
  <2> QED BY <1>1, <1>2, <1>3, <1>8, <2>1 DEF Running, Lost
<1>9. CASE StartTask(r)
  <2>1. UNCHANGED <<waiting_queue, urgent_queue, completed>>
    BY <1>9 DEF StartTask
  <2>2. CASE task[r].index > Len(pipelines)
    <3>1. r \in Stale /\ task'[r].pc = "none"
      BY <1>0, <1>9, <2>2 DEF StartTask, Stale, LoopTypeOK
    <3> QED BY <1>1, <1>3, <1>4, <1>8, <2>1, <3>1
  <2>3. CASE ~(task[r].index > Len(pipelines))
    <3>1. task'[r].pc = "sending"
      BY <1>9, <2>3 DEF StartTask, LoopTypeOK, Task
    <3> QED BY <1>1, <1>3, <1>4, <1>5, <2>1, <3>1
  <2> QED BY <2>2, <2>3
<1>10. CASE SendRequest(r)
  <2>1. CASE Requeue(r)
    BY <1>1, <1>3, <1>4, <1>6, <2>1
  <2>2. CASE ~Requeue(r)
    <3>1. task'[r].pc = "connecting" /\ UNCHANGED <<waiting_queue, urgent_queue, completed>>
      BY <1>10, <2>2 DEF SendRequest, LoopTypeOK, Task
    <3> QED BY <1>1, <1>3, <1>4, <1>5, <3>1
  <2> QED BY <2>1, <2>2
<1>11. CASE Connect(r)
  <2>1. task'[r].pc = "streaming" /\ UNCHANGED <<waiting_queue, urgent_queue, completed>>
    BY <1>11 DEF Connect, LoopTypeOK, Task
  <2> QED BY <1>1, <1>3, <1>4, <1>5, <2>1
<1>12. CASE ConnectionRefused(r) \/ StreamBroken(r)
  <2>1. Requeue(r)
    BY <1>12 DEF ConnectionRefused, StreamBroken
  <2> QED BY <1>1, <1>3, <1>4, <1>6, <2>1
<1>13. CASE Complete(r)
  <2>1. /\ task'[r].pc = "none" /\ completed' = completed \cup {r}
        /\ UNCHANGED <<waiting_queue, urgent_queue>>
    BY <1>0, <1>13 DEF Complete, LoopTypeOK
  <2> QED BY <1>1, <1>3, <1>4, <1>7, <2>1
<1> QED BY <1>9, <1>10, <1>11, <1>12, <1>13 DEF TaskStep

\* An iteration without a dispatch is invisible.
LEMMA IdleView ==
  ASSUME LossInv, IdleIteration
  PROVE  UNCHANGED <<added, completed, removals, Running, Lost, Stale>> /\ OneCreated'
<1>1. UNCHANGED <<waiting_queue, urgent_queue, task, added, completed, pipelines, removals>>
  BY DEF IdleIteration, clusterVars
<1> QED BY <1>1 DEF Running, Lost, Stale, Live, Queued, LossInv, OneCreated

\* A thread can only lengthen the list, or replace it.
LEMMA ThreadMoves ==
  ASSUME TypeOK, \/ \E p \in Pipelines : CreatePipeline(p) \/ SwitchStep(p)
                 \/ \E t \in Ops : OpStep(t)
                 \/ UNCHANGED vars
  PROVE  \/ removals' = removals /\ Len(pipelines') >= Len(pipelines)
         \/ removals' = removals + 1
<1>0. pipelines \in Seq(Pipelines) /\ Len(pipelines) \in Nat
  BY DEF TypeOK, ClusterTypeOK
<1>1. ASSUME NEW p \in Pipelines, CreatePipeline(p)
      PROVE  removals' = removals /\ Len(pipelines') >= Len(pipelines)
  BY <1>0, <1>1 DEF CreatePipeline
<1>2. ASSUME UNCHANGED <<pipelines, removals>>
      PROVE  removals' = removals /\ Len(pipelines') >= Len(pipelines)
  BY <1>0, <1>2
<1>3. ASSUME NEW p \in Pipelines, SwitchStep(p) PROVE UNCHANGED <<pipelines, removals>>
  BY <1>3, SwitchLeavesList
<1>4. ASSUME NEW t \in Ops, OpStep(t)
      PROVE  UNCHANGED <<pipelines, removals>> \/ removals' = removals + 1
  BY <1>4 DEF OpStep, StopNodes, StopNode, StopMark, StopKill, StopNodeDone,
              RemovePipelines, AssignPipelines
<1>5. CASE UNCHANGED vars
  BY <1>2, <1>5 DEF vars, clusterVars
<1> QED BY <1>1, <1>2, <1>3, <1>4, <1>5

\* Whatever a thread does, one task at most becomes stale, and only by a
\* replacement of the list.
LEMMA ThreadView ==
  ASSUME TypeOK, LossInv, \/ \E p \in Pipelines : CreatePipeline(p) \/ SwitchStep(p)
                          \/ \E t \in Ops : OpStep(t)
                          \/ UNCHANGED vars
  PROVE  /\ UNCHANGED <<added, completed, Running, Lost>>
         /\ removals' = removals \/ removals' = removals + 1
         /\ LossInv'
<1>1. UNCHANGED <<waiting_queue, urgent_queue, task, added, completed>>
  BY ThreadStepsLeaveLoop DEF loopVars
<1>2. UNCHANGED <<Running, Lost>> /\ OneCreated'
  BY <1>1 DEF Running, Lost, Live, Queued, LossInv, OneCreated
<1>3. /\ Lost \in SUBSET Requests /\ Stale \in SUBSET Requests /\ removals \in Nat
      /\ pipelines \in Seq(Pipelines) /\ task \in [Requests -> TaskStates]
  BY DEF TypeOK, LoopTypeOK, ClusterTypeOK, Lost, Stale
<1>4. pipelines' \in Seq(Pipelines)
  <2>1. CASE UNCHANGED vars
    BY <1>3, <2>1 DEF vars, clusterVars
  <2>2. CASE ~UNCHANGED vars
    BY <2>2, CreatePipelineType, SwitchStepType, OpStepType DEF TypeOK, ClusterTypeOK
  <2> QED BY <2>1, <2>2
<1>5. CASE removals' = removals /\ Len(pipelines') >= Len(pipelines)
  <2>1. \A u \in Requests : task[u].index \in Nat
    BY <1>3 DEF TaskStates
  <2>2. Len(pipelines) \in Nat /\ Len(pipelines') \in Nat
    BY <1>3, <1>4
  <2>3. Stale' \subseteq Stale
    BY <1>1, <1>5, <2>1, <2>2 DEF Stale
  <2>4. Cardinality((Lost \cup Stale)') <= Cardinality(Lost \cup Stale)
    <3>1. Lost \cup Stale \in SUBSET Requests /\ (Lost \cup Stale)' \subseteq Lost \cup Stale
      BY <1>2, <1>3, <2>3
    <3> QED BY <3>1, NotMore
  <2>5. /\ Cardinality(Lost \cup Stale) \in Nat
        /\ Cardinality((Lost \cup Stale)') \in Nat
    <3>1. (Lost \cup Stale)' \in SUBSET Requests /\ Lost \cup Stale \in SUBSET Requests
      BY <1>2, <1>3, <2>3
    <3> QED BY <3>1, SomeRequests
  <2> QED BY <1>1, <1>2, <1>3, <1>5, <2>4, <2>5 DEF LossInv
<1>6. CASE removals' = removals + 1
  <2>1. CASE Stale' = {}
    <3>1. Lost \cup Stale \in SUBSET Requests /\ (Lost \cup Stale)' \subseteq Lost \cup Stale
      BY <1>2, <1>3, <2>1
    <3>2. Cardinality((Lost \cup Stale)') <= Cardinality(Lost \cup Stale)
      BY <3>1, NotMore
    <3>3. (Lost \cup Stale)' \in SUBSET Requests
      BY <3>1
    <3>4. Cardinality(Lost \cup Stale) \in Nat /\ Cardinality((Lost \cup Stale)') \in Nat
      BY <3>1, <3>3, SomeRequests
    <3> QED BY <1>1, <1>2, <1>3, <1>6, <3>2, <3>4 DEF LossInv
  <2>2. CASE Stale' # {}
    <3>1. PICK x \in Requests : x \in Stale'
      BY <2>2 DEF Stale
    <3>2. Stale' \subseteq {x}
      BY <1>2, <3>1 DEF Stale, OneCreated
    <3>3. /\ Lost \cup Stale \in SUBSET Requests
          /\ (Lost \cup Stale)' \subseteq (Lost \cup Stale) \cup {x}
      BY <1>2, <1>3, <3>2
    <3>4. Cardinality((Lost \cup Stale)') <= Cardinality(Lost \cup Stale) + 1
      BY <3>3, OneMore
    <3>5. (Lost \cup Stale)' \in SUBSET Requests
      BY <3>3
    <3>6. Cardinality(Lost \cup Stale) \in Nat /\ Cardinality((Lost \cup Stale)') \in Nat
      BY <3>3, <3>5, SomeRequests
    <3> QED BY <1>1, <1>2, <1>3, <1>6, <3>4, <3>6 DEF LossInv
  <2> QED BY <2>1, <2>2
<1> QED BY <1>1, <1>2, <1>5, <1>6, ThreadMoves

-----------------------------------------------------------------------------
(* At most one request is lost per replacement of the list.                *)

\* Nothing is lost before the first request is submitted.
LEMMA InitLoss == Init => LossInv
<1> SUFFICES ASSUME Init PROVE LossInv
  OBVIOUS
<1>1. \A r \in Requests : task[r].pc = "none"
  BY DEF Init, NoTask, Task
<1>2. OneCreated /\ Lost \cup Stale = {} /\ removals = 0
  BY <1>1 DEF Init, OneCreated, Lost, Stale
<1> QED BY <1>2, FS_EmptySet DEF LossInv

\* What is lost or bound to be lost does not grow, and the list is the same.
LEMMA LossKept ==
  ASSUME TypeOK, LossInv, OneCreated', removals' = removals,
         Lost' \cup Stale' \subseteq Lost \cup Stale
  PROVE  LossInv'
<1>1. Lost \cup Stale \in SUBSET Requests /\ (Lost \cup Stale)' \subseteq Lost \cup Stale
  BY DEF TypeOK, LoopTypeOK, Lost, Stale
<1>2. Cardinality((Lost \cup Stale)') <= Cardinality(Lost \cup Stale)
  BY <1>1, NotMore
<1>3. (Lost \cup Stale)' \in SUBSET Requests
  BY <1>1
<1>4. Cardinality(Lost \cup Stale) \in Nat /\ Cardinality((Lost \cup Stale)') \in Nat
  BY <1>1, <1>3, SomeRequests
<1> QED BY <1>2, <1>4 DEF LossInv, TypeOK, ClusterTypeOK

\* Every step keeps the bound on lost and stale requests.
LEMMA StepLoss == TypeOK /\ PlaceInv /\ LossInv /\ [Next]_vars => LossInv'
<1> SUFFICES ASSUME TypeOK, PlaceInv, LossInv, [Next]_vars PROVE LossInv'
  OBVIOUS
<1>0. LoopTypeOK
  BY DEF TypeOK
<1>1. CASE \E r \in Requests : AddRequest(r)
  BY <1>0, <1>1, AddRequestView, LossKept
<1>2. CASE LoopStep
  <2>1. CASE \E i \in 1..Len(pipelines) : DispatchUrgent(i) \/ DispatchWaiting(i)
    <3>1. Lost' = Lost /\ Stale' = {} /\ OneCreated' /\ removals' = removals
      BY <1>0, <2>1, DispatchView
    <3> QED BY <3>1, LossKept
  <2>2. CASE IdleIteration
    BY <2>2, IdleView, LossKept
  <2> QED BY <1>2, <2>1, <2>2 DEF LoopStep
<1>3. CASE \E r \in Requests : TaskStep(r)
  BY <1>0, <1>3, TaskView, LossKept
<1>4. CASE \/ \E p \in Pipelines : CreatePipeline(p) \/ SwitchStep(p)
           \/ \E t \in Ops : OpStep(t)
           \/ UNCHANGED vars
  BY <1>4, ThreadView
<1> QED BY <1>1, <1>2, <1>3, <1>4 DEF Next

\* Lost requests are among the lost and stale ones.
LEMMA LossBounds == TypeOK /\ LossInv => LossNeedsRemoval
<1> SUFFICES ASSUME TypeOK, LossInv PROVE LossNeedsRemoval
  OBVIOUS
<1>1. Lost \cup Stale \in SUBSET Requests /\ Lost \in SUBSET Requests /\ removals \in Nat
  BY DEF TypeOK, LoopTypeOK, ClusterTypeOK, Lost, Stale
<1>2. Cardinality(Lost) <= Cardinality(Lost \cup Stale)
  BY <1>1, NotMore
<1>3. Cardinality(Lost) \in Nat /\ Cardinality(Lost \cup Stale) \in Nat
  BY <1>1, SomeRequests
<1> QED BY <1>1, <1>2, <1>3 DEF LossInv, LossNeedsRemoval

\* The early return of _handle_request on a stale index loses at most one
\* request per replacement of the list by remove_pipelines, and nothing else
\* loses any, for any number of requests, pipelines and threads.
THEOREM LossesNeedRemovals == Spec => []LossNeedsRemoval
BY InitType, StepType, InitPlace, StepPlace, InitLoss, StepLoss, LossBounds, PTL DEF Spec

-----------------------------------------------------------------------------
(* The refinement.                                                         *)

\* The server starts where the service starts.
LEMMA InitService == Init => Service!Init
<1> SUFFICES ASSUME Init PROVE Service!Init
  OBVIOUS
<1>1. \A r \in Requests : ~Live(r)
  BY DEF Init, Live, NoTask, Task
<1> QED BY <1>1 DEF Init, Service!Init, Lost

\* Every step of the server is a step of the service, or invisible.
LEMMA StepService == TypeOK /\ PlaceInv /\ LossInv /\ [Next]_vars => [Service!Next]_(Service!vars)
<1> SUFFICES ASSUME TypeOK, PlaceInv, LossInv, [Next]_vars
             PROVE  Service!Next \/ UNCHANGED <<added, Running, completed, Lost, removals>>
  BY DEF Service!vars, Running
<1> USE DEF Running
<1>0. LoopTypeOK
  BY DEF TypeOK
<1>1. CASE \E r \in Requests : AddRequest(r)
  <2>1. PICK r \in Requests : AddRequest(r)
    BY <1>1
  <2>2. Service!Submit(r)
    BY <1>0, <2>1, AddRequestView DEF Service!Submit
  <2> QED BY <2>2 DEF Service!Next
<1>2. CASE LoopStep
  <2>1. CASE \E i \in 1..Len(pipelines) : DispatchUrgent(i) \/ DispatchWaiting(i)
    <3>1. PICK r \in Requests : /\ r \in added \ (Running \cup completed \cup Lost)
                                /\ Running' = Running \cup {r}
      BY <1>0, <2>1, DispatchView
    <3>2. UNCHANGED <<added, completed, removals, Lost>>
      BY <1>0, <2>1, DispatchView
    <3>3. Service!Start(r)
      BY <3>1, <3>2 DEF Service!Start, Service!Waiting
    <3> QED BY <3>3 DEF Service!Next
  <2>2. CASE IdleIteration
    BY <2>2, IdleView
  <2> QED BY <1>2, <2>1, <2>2 DEF LoopStep
<1>3. CASE \E r \in Requests : TaskStep(r)
  <2>1. PICK r \in Requests : TaskStep(r)
    BY <1>3
  <2>2. UNCHANGED <<added, removals>> /\ r \in Running
    BY <1>0, <2>1, TaskView
  <2>3. CASE UNCHANGED <<Running, completed, Lost>>
    BY <2>2, <2>3
  <2>4. CASE Running' = Running \ {r} /\ UNCHANGED <<completed, Lost>>
    <3>1. Service!Retry(r)
      BY <2>2, <2>4 DEF Service!Retry
    <3> QED BY <3>1 DEF Service!Next
  <2>5. CASE Running' = Running \ {r} /\ completed' = completed \cup {r} /\ Lost' = Lost
    <3>1. Service!Finish(r)
      BY <2>2, <2>5 DEF Service!Finish
    <3> QED BY <3>1 DEF Service!Next
  <2>6. CASE /\ r \in Stale \ Lost /\ Lost' = Lost \cup {r}
             /\ Running' = Running \ {r} /\ completed' = completed
    <3>1. /\ Lost \cup Stale \in SUBSET Requests /\ r \in Lost \cup Stale
          /\ Lost \in SUBSET Requests /\ Lost \subseteq (Lost \cup Stale) \ {r}
          /\ removals \in Nat
      BY <2>6 DEF TypeOK, LoopTypeOK, ClusterTypeOK, Lost, Stale
    <3>2. Cardinality(Lost) < Cardinality(Lost \cup Stale)
      BY <3>1, OneLess
    <3>3. Cardinality(Lost) \in Nat /\ Cardinality(Lost \cup Stale) \in Nat
      BY <3>1, SomeRequests
    <3>4. Cardinality(Lost) < removals
      BY <3>1, <3>2, <3>3 DEF LossInv
    <3>5. Service!Cardinality(Lost) = Cardinality(Lost)
      BY DEF Cardinality, Service!Cardinality
    <3>6. Service!Lose(r)
      BY <2>2, <2>6, <3>4, <3>5 DEF Service!Lose
    <3> QED BY <3>6 DEF Service!Next
  <2> QED BY <1>0, <2>1, <2>3, <2>4, <2>5, <2>6, TaskView
<1>4. CASE \/ \E p \in Pipelines : CreatePipeline(p) \/ SwitchStep(p)
           \/ \E t \in Ops : OpStep(t)
           \/ UNCHANGED vars
  <2>1. /\ UNCHANGED <<added, completed, Running, Lost>>
        /\ removals' = removals \/ removals' = removals + 1
    BY <1>4, ThreadView
  <2>2. CASE removals' = removals
    BY <2>1, <2>2
  <2>3. CASE removals' = removals + 1
    BY <2>1, <2>3 DEF Service!Reduce, Service!Next
  <2> QED BY <2>1, <2>2, <2>3
<1> QED BY <1>1, <1>2, <1>3, <1>4 DEF Next

\* The global server implements the service: whatever the interleaving of the
\* event loop and the threads, a client sees attempts that end in one
\* completion, and a loss only against a replacement of the pipeline list.
THEOREM ServerImplementsService == Spec => ImplementsService
BY InitType, StepType, InitPlace, StepPlace, InitLoss, StepLoss, InitService, StepService, PTL
   DEF Spec, ImplementsService, Service!Spec
=============================================================================
