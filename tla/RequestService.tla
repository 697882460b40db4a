--------------------------- MODULE RequestService ----------------------------
(***************************************************************************)
(* What the global server promises its clients, without queues, tasks,     *)
(* indices or pipelines: a submitted request is served, perhaps in several *)
(* attempts, until it is done, once; a request is lost only when the       *)
(* cluster has been reduced, and at most one per reduction.                *)
(***************************************************************************)
EXTENDS Integers, FiniteSets

CONSTANT Requests

VARIABLES
  submitted,   \* requests clients have handed in
  running,     \* requests an attempt is being made for
  done,        \* requests whose completion has been signalled
  lost,        \* requests nobody will make an attempt for again
  reductions   \* how often pipelines have been taken out

vars == <<submitted, running, done, lost, reductions>>

Init ==
  /\ submitted = {} /\ running = {} /\ done = {} /\ lost = {}
  /\ reductions = 0

Waiting == submitted \ (running \cup done \cup lost)

Submit(r) ==
  /\ r \notin submitted
  /\ submitted' = submitted \cup {r}
  /\ UNCHANGED <<running, done, lost, reductions>>

Start(r) ==
  /\ r \in Waiting
  /\ running' = running \cup {r}
  /\ UNCHANGED <<submitted, done, lost, reductions>>

\* An attempt fails and the request waits for the next one.
Retry(r) ==
  /\ r \in running
  /\ running' = running \ {r}
  /\ UNCHANGED <<submitted, done, lost, reductions>>

Finish(r) ==
  /\ r \in running
  /\ running' = running \ {r}
  /\ done' = done \cup {r}
  /\ UNCHANGED <<submitted, lost, reductions>>

Lose(r) ==
  /\ r \in running
  /\ Cardinality(lost) < reductions
  /\ running' = running \ {r}
  /\ lost' = lost \cup {r}
  /\ UNCHANGED <<submitted, done, reductions>>

Reduce ==
  /\ reductions' = reductions + 1
  /\ UNCHANGED <<submitted, running, done, lost>>

Next ==
  \/ \E r \in Requests : Submit(r) \/ Start(r) \/ Retry(r) \/ Finish(r) \/ Lose(r)
  \/ Reduce

Spec == Init /\ [][Next]_vars
=============================================================================
