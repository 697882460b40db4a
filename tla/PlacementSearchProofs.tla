------------------------ MODULE PlacementSearchProofs ------------------------
(***************************************************************************)
(* Proofs about PlacementSearch.                                           *)
(*                                                                         *)
(* For any cluster, prices, memory, throughputs and sizes of the beam and  *)
(* of the heap.  PlacementInv is inductive: every cell of the table holds  *)
(* at most top_k different pipelines that say what their stages need       *)
(* (TableInv); the results are whole pipelines the pool can pay for        *)
(* (ResultsInv), with a throughput computed for stages of the same cache   *)
(* key (CacheInv); they are the best of those evaluated (TopIsBest); and   *)
(* the pipelines of the driver and what remains make up the cluster        *)
(* (DriverInv, NodesConserved).                                            *)
(***************************************************************************)
EXTENDS PlacementSearch, TLAPS, FiniteSetTheorems, FunctionTheorems, SequenceTheorems,
        WellFoundedInduction

\* A nonempty set of numbers has a least one.
LEMMA LeastNumber ==
  ASSUME NEW S \in SUBSET Nat, S # {}
  PROVE  \E i \in S : \A j \in S : i <= j
<1> DEFINE R == {ss \in Nat \X Nat : ss[1] < ss[2]}
<1>1. IsWellFoundedOn(R, Nat)
  BY NatLessThanWellFounded, Zenon DEF OpToRel
<1>2. \A x, y \in Nat : y < x => <<y, x>> \in R
  OBVIOUS
<1> HIDE DEF R
<1>3. PICK x \in S : \A y \in S : ~ (<<y, x>> \in R)
  BY <1>1, WFMin
<1>4. \A y \in S : ~ (y < x)
  BY <1>2, <1>3, Zenon
<1> QED BY <1>4

-----------------------------------------------------------------------------
(* Sums.                                                                   *)

\* g[k] is the sum of the first k values of f.
SumOf(g, f, n) ==
  /\ g \in [0 .. n -> Nat]
  /\ g[0] = 0
  /\ \A k \in 1 .. n : g[k] = g[k - 1] + f[k]

\* Every sum exists: one of n values is extended to n + 1.
LEMMA SumsExist ==
  ASSUME NEW n \in Nat, NEW f \in [1 .. n -> Nat]
  PROVE  \E g : SumOf(g, f, n)
<1> DEFINE S == {m \in 0 .. n : ~ \E g : SumOf(g, f, m)}
<1>1. SUFFICES ASSUME S # {} PROVE FALSE
  <2>1. n \in 0 .. n
    OBVIOUS
  <2> QED BY <2>1
<1>2. S \in SUBSET Nat
  OBVIOUS
<1>3. PICK m \in S : \A j \in S : m <= j
  <2> HIDE DEF S
  <2> QED BY <1>1, <1>2, LeastNumber
<1>4. m \in 0 .. n
  OBVIOUS
<1>5. m # 0
  <2>1. SumOf([k \in 0 .. 0 |-> 0], f, 0)
    BY DEF SumOf
  <2> QED BY <2>1
<1>6. m - 1 \in 0 .. n /\ m - 1 \notin S
  BY <1>3, <1>4, <1>5
<1>7. PICK g : SumOf(g, f, m - 1)
  BY <1>6
<1>8. \A k \in 1 .. m : f[k] \in Nat
  BY <1>4
<1> DEFINE h == [k \in 0 .. m |-> IF k < m THEN g[k] ELSE g[m - 1] + f[m]]
<1>9. SumOf(h, f, m)
  <2>1. g \in [0 .. m - 1 -> Nat] /\ g[0] = 0
    BY <1>7 DEF SumOf
  <2>2. \A k \in 1 .. m - 1 : g[k] = g[k - 1] + f[k]
    BY <1>7 DEF SumOf
  <2>3. \A k \in 0 .. m : h[k] = IF k < m THEN g[k] ELSE g[m - 1] + f[m]
    OBVIOUS
  <2>4. h \in [0 .. m -> Nat]
    BY <1>4, <1>5, <1>8, <2>1
  <2>5. h[0] = 0
    BY <1>4, <1>5, <2>1, <2>3
  <2>6. \A k \in 1 .. m : h[k] = h[k - 1] + f[k]
    <3> HIDE DEF h
    <3> TAKE k \in 1 .. m
    <3>1. k - 1 \in 0 .. m /\ k - 1 < m /\ h[k - 1] = g[k - 1]
      BY <1>4, <2>3
    <3>2. CASE k < m
      BY <1>4, <2>2, <2>3, <3>1, <3>2
    <3>3. CASE k = m
      BY <1>4, <2>3, <3>1, <3>3
    <3> QED BY <1>4, <3>2, <3>3
  <2> QED BY <2>4, <2>5, <2>6 DEF SumOf
<1> QED BY <1>9

\* A sum is determined by its values.
LEMMA SumsUnique ==
  ASSUME NEW n \in Nat, NEW f, NEW g, NEW h, SumOf(g, f, n), SumOf(h, f, n)
  PROVE  g = h
<1> DEFINE S == {k \in 0 .. n : g[k] # h[k]}
<1>1. g \in [0 .. n -> Nat] /\ h \in [0 .. n -> Nat]
  BY DEF SumOf
<1>2. SUFFICES ASSUME S # {} PROVE FALSE
  <2>1. (\A k \in 0 .. n : g[k] = h[k]) => g = h
    BY <1>1
  <2> QED BY <2>1
<1>3. S \in SUBSET Nat
  OBVIOUS
<1>4. PICK k \in S : \A j \in S : k <= j
  <2> HIDE DEF S
  <2> QED BY <1>2, <1>3, LeastNumber
<1>5. k # 0
  BY DEF SumOf
<1>6. k \in 1 .. n /\ k - 1 \in 0 .. n /\ k - 1 \notin S
  BY <1>4, <1>5
<1>7. g[k] = g[k - 1] + f[k] /\ h[k] = h[k - 1] + f[k]
  BY <1>6 DEF SumOf
<1> QED BY <1>6, <1>7

\* Total is that sum.
LEMMA TotalIsSum ==
  ASSUME NEW n \in Nat, NEW f, \A k \in 1 .. n : f[k] \in Nat
  PROVE  \E g : SumOf(g, f, n) /\ Total(f, n) = g[n]
<1> DEFINE e == [k \in 1 .. n |-> f[k]]
           Body(x) == [k \in 0 .. n |-> IF k = 0 THEN 0 ELSE x[k - 1] + f[k]]
           a == CHOOSE x : x = Body(x)
<1>1. PICK g : SumOf(g, f, n)
  <2>1. e \in [1 .. n -> Nat] /\ \A k \in 1 .. n : e[k] = f[k]
    OBVIOUS
  <2> HIDE DEF e
  <2>2. PICK g : SumOf(g, e, n)
    BY <2>1, SumsExist
  <2>3. SumOf(g, f, n)
    BY <2>1, <2>2 DEF SumOf
  <2> QED BY <2>3
<1>2. g = Body(g)
  BY <1>1 DEF SumOf
<1>3. Total(f, n) = a[n]
  BY Zenon DEF Total
<1>4. a = Body(a)
  <2> HIDE DEF Body
  <2> QED BY <1>2, Zenon
<1> HIDE DEF a
<1>7. a[0] = 0 /\ \A k \in 1 .. n : a[k] = a[k - 1] + f[k]
  BY <1>4
<1>8. \A k \in 0 .. n : a[k] \in Nat
  <2> DEFINE S == {k \in 0 .. n : a[k] \notin Nat}
  <2>1. SUFFICES ASSUME S # {} PROVE FALSE
    OBVIOUS
  <2>2. S \in SUBSET Nat
    OBVIOUS
  <2>3. PICK k \in S : \A j \in S : k <= j
    <3> HIDE DEF S
    <3> QED BY <2>1, <2>2, LeastNumber
  <2>4. k # 0
    BY <1>7
  <2>5. k - 1 \notin S /\ k - 1 \in 0 .. n
    BY <2>3, <2>4
  <2> QED BY <1>7, <2>4, <2>5
<1>9. a \in [0 .. n -> Nat]
  BY <1>4, <1>8
<1>10. SumOf(a, f, n)
  BY <1>7, <1>9 DEF SumOf
<1> QED BY <1>3, <1>10

\* No value, and one more value.
LEMMA TotalStep ==
  ASSUME NEW n \in Nat, NEW f, NEW h, \A k \in 1 .. n : f[k] \in Nat /\ h[k] = f[k],
         h[n + 1] \in Nat
  PROVE  /\ Total(f, n) \in Nat
         /\ Total(h, n + 1) = Total(f, n) + h[n + 1]
         /\ Total(f, 0) = 0
<1>1. PICK a : SumOf(a, f, n) /\ Total(f, n) = a[n]
  BY TotalIsSum
<1>2. PICK b : SumOf(b, h, n + 1) /\ Total(h, n + 1) = b[n + 1]
  <2>1. \A k \in 1 .. n + 1 : h[k] \in Nat
    OBVIOUS
  <2>2. n + 1 \in Nat
    OBVIOUS
  <2> QED BY <2>1, <2>2, TotalIsSum
<1> DEFINE r == [k \in 0 .. n |-> b[k]]
<1>3. b \in [0 .. n + 1 -> Nat] /\ b[0] = 0 /\ \A k \in 1 .. n + 1 : b[k] = b[k - 1] + h[k]
  BY <1>2 DEF SumOf
<1>4. SumOf(r, f, n)
  <2>1. r \in [0 .. n -> Nat] /\ r[0] = 0
    BY <1>3
  <2>2. ASSUME NEW k \in 1 .. n PROVE r[k] = r[k - 1] + f[k]
    <3>1. k \in 0 .. n /\ k - 1 \in 0 .. n /\ k \in 1 .. n + 1
      OBVIOUS
    <3>2. r[k] = b[k] /\ r[k - 1] = b[k - 1]
      BY <3>1
    <3>3. b[k] = b[k - 1] + f[k]
      BY <1>3, <3>1
    <3> QED BY <3>2, <3>3
  <2> HIDE DEF r
  <2> QED BY <2>1, <2>2 DEF SumOf
<1>5. r = a
  <2> HIDE DEF r
  <2> QED BY <1>1, <1>4, SumsUnique
<1>6. r[n] = b[n]
  OBVIOUS
<1>7. a \in [0 .. n -> Nat]
  BY <1>1 DEF SumOf
<1>8. b[n + 1] = b[n] + h[n + 1]
  <2>1. n + 1 \in 1 .. n + 1 /\ (n + 1) - 1 = n
    OBVIOUS
  <2> QED BY <1>3, <2>1
<1> HIDE DEF r
<1>9. a[n] \in Nat /\ b[n + 1] = a[n] + h[n + 1]
  BY <1>5, <1>6, <1>7, <1>8
<1>10. Total(f, 0) = 0
  <2>1. PICK c : SumOf(c, f, 0) /\ Total(f, 0) = c[0]
    BY TotalIsSum
  <2> QED BY <2>1 DEF SumOf
<1> QED BY <1>1, <1>2, <1>9, <1>10

\* Equal values have the same sum.
LEMMA TotalSame ==
  ASSUME NEW n \in Nat, NEW f, NEW h, \A k \in 1 .. n : f[k] \in Nat /\ h[k] = f[k]
  PROVE  Total(f, n) = Total(h, n) /\ Total(f, n) \in Nat
<1>1. PICK a : SumOf(a, f, n) /\ Total(f, n) = a[n]
  BY TotalIsSum
<1>2. PICK b : SumOf(b, h, n) /\ Total(h, n) = b[n]
  <2>1. \A k \in 1 .. n : h[k] \in Nat
    OBVIOUS
  <2> QED BY <2>1, TotalIsSum
<1>3. SumOf(b, f, n)
  BY <1>2 DEF SumOf
<1>4. a = b
  BY <1>1, <1>3, SumsUnique
<1> QED BY <1>1, <1>2, <1>4 DEF SumOf

-----------------------------------------------------------------------------
(* Pipelines.                                                              *)

Stage == InstanceTypes \X (1 .. num_layers)
Pipeline == [stages : Seq(Stage), cost : Nat, throughput : Int]

\* A pipeline of l layers and n stages that the nodes and the budget can pay for.
Sound(nodes, p, l, n) ==
  /\ p \in Pipeline
  /\ Len(p.stages) = n /\ n <= max_stages
  /\ cumulative_layers(p.stages, n) = l
  /\ p.cost <= budget
  /\ \A t \in InstanceTypes : Counter(p.stages)[t] <= nodes[t]

\* Its throughput was computed for its stages in some order.
Computed(p) == p.throughput \in {get_throughput(o) : o \in Orders(p.stages)}

\* A cell as CellsSound wants it.
CellOK(nodes, cell, l, n) ==
  /\ IsFiniteSet(cell) /\ Cardinality(cell) <= top_k
  /\ \A p \in cell : Sound(nodes, p, l, n)
  /\ \A p, q \in cell : p # q => Counter(p.stages) # Counter(q.stages)

\* The table, and the pipelines of the cell the loops are at.
TableInv ==
  /\ dp \in [0 .. num_layers -> [0 .. num_layers -> SUBSET Pipeline]]
  /\ \A l, n \in 0 .. num_layers : CellOK(pool, dp[l][n], l, n)
  /\ todo # {} => at \in Positions
  /\ \A c \in todo : Sound(pool, c[1], at[2], at[3]) /\ c[2] \in InstanceTypes

\* The results are whole pipelines the pool can pay for.
ResultsInv ==
  /\ top_pipelines \in Seq(Pipeline)
  /\ evaluated \subseteq Pipeline
  /\ \A i \in DOMAIN top_pipelines :
       /\ Sound(pool, top_pipelines[i], num_layers, Len(top_pipelines[i].stages))
       /\ Computed(top_pipelines[i])

\* What the cache holds was computed for stages with this key.
CacheInv ==
  \A k \in DOMAIN throughput_cache :
    \E n \in 1 .. max_stages : \E s \in [1 .. n -> Stage] :
      k = get_cache_key(s) /\ throughput_cache[k] = get_throughput(s)

\* The nodes of the search are those that remain, in a merge with those of the
\* last pipeline.
DriverInv ==
  /\ available_nodes \in Pools
  /\ pool \in [InstanceTypes -> Nat] /\ remaining_nodes \in [InstanceTypes -> Nat]
  /\ all_pipelines \in Seq(Pipeline)
  /\ phase \in {"search", "merge", "done"}
  /\ phase = "search" => pool = remaining_nodes /\ optimization_mode = "soft_slo"
  /\ phase = "merge" =>
       /\ all_pipelines # <<>> /\ optimization_mode = "only_throughput"
       /\ pool = [t \in InstanceTypes |-> remaining_nodes[t] + Counter(Last.stages)[t]]
  /\ \A i \in DOMAIN all_pipelines :
       LET s == all_pipelines[i].stages IN
       cumulative_layers(s, Len(s)) = num_layers /\ Computed(all_pipelines[i])

PlacementInv ==
  TableInv /\ ResultsInv /\ CacheInv /\ TopIsBest /\ DriverInv /\ NodesConserved

LEMMA StageSequence ==
  ASSUME NEW s \in Seq(Stage)
  PROVE  /\ Len(s) \in Nat /\ DOMAIN s = 1 .. Len(s)
         /\ \A i \in 1 .. Len(s) : s[i] \in Stage /\ Instance(s[i]) \in InstanceTypes
                                  /\ Layers(s[i]) \in 1 .. num_layers
<1>1. Len(s) \in Nat /\ DOMAIN s = 1 .. Len(s) /\ \A i \in 1 .. Len(s) : s[i] \in Stage
  BY LenProperties, ElementOfSeq
<1> QED BY <1>1 DEF Stage, Instance, Layers

\* A count is a number.
LEMMA CounterType ==
  ASSUME NEW s \in Seq(Stage)
  PROVE  Counter(s) \in [InstanceTypes -> Nat]
<1>1. ASSUME NEW t \in InstanceTypes
      PROVE  Cardinality({i \in DOMAIN s : Instance(s[i]) = t}) \in Nat
  <2>1. IsFiniteSet(1 .. Len(s)) /\ DOMAIN s = 1 .. Len(s)
    BY StageSequence, FS_Interval
  <2>2. {i \in DOMAIN s : Instance(s[i]) = t} \subseteq 1 .. Len(s)
    BY <2>1
  <2> QED BY <2>1, <2>2, FS_Subset, FS_CardinalityType
<1>2. Counter(s) = [t \in InstanceTypes |-> Cardinality({i \in DOMAIN s : Instance(s[i]) = t})]
  BY Zenon DEF Counter, CountStages
<1> QED BY <1>1, <1>2, Zenon

\* The count does not see the layers.
LEMMA CounterIgnoresLayers ==
  ASSUME NEW s \in Seq(Stage), NEW t \in InstanceTypes, NEW k \in 1 .. num_layers,
         PlacementAssumption
  PROVE  Counter(Append(s, <<t, k>>)) = Counter(Append(s, <<t, 1>>))
<1> DEFINE a == Append(s, <<t, k>>)
           b == Append(s, <<t, 1>>)
<1>1. <<t, k>> \in Stage /\ <<t, 1>> \in Stage
  BY DEF PlacementAssumption, Stage
<1>2. DOMAIN a = 1 .. Len(s) + 1 /\ DOMAIN b = 1 .. Len(s) + 1
  <2>1. a \in Seq(Stage) /\ Len(a) = Len(s) + 1 /\ b \in Seq(Stage) /\ Len(b) = Len(s) + 1
    BY <1>1, AppendProperties
  <2> QED BY <2>1, LenProperties
<1>3. \A i \in 1 .. Len(s) + 1 : Instance(a[i]) = Instance(b[i])
  <2>1. \A i \in 1 .. Len(s) : a[i] = s[i] /\ b[i] = s[i]
    BY <1>1, AppendProperties
  <2>2. a[Len(s) + 1] = <<t, k>> /\ b[Len(s) + 1] = <<t, 1>>
    BY <1>1, AppendProperties
  <2>3. Len(s) \in Nat
    BY StageSequence
  <2>4. \A i \in 1 .. Len(s) + 1 : i \in 1 .. Len(s) \/ i = Len(s) + 1
    BY <2>3
  <2> QED BY <2>1, <2>2, <2>4 DEF Instance
<1> HIDE DEF a, b
<1>4. ASSUME NEW u PROVE {i \in DOMAIN a : Instance(a[i]) = u} = {i \in DOMAIN b : Instance(b[i]) = u}
  BY <1>2, <1>3
<1>5. Counter(a) = Counter(b)
  BY <1>4, Zenon DEF Counter, CountStages
<1> QED BY <1>5 DEF a, b

\* What one more stage does.
LEMMA OneMoreStage ==
  ASSUME NEW s \in Seq(Stage), NEW t \in InstanceTypes, NEW k \in 1 .. num_layers
  PROVE  /\ Append(s, <<t, k>>) \in Seq(Stage)
         /\ Len(Append(s, <<t, k>>)) = Len(s) + 1
         /\ cumulative_layers(s, Len(s)) \in Nat
         /\ cumulative_layers(Append(s, <<t, k>>), Len(s) + 1) = cumulative_layers(s, Len(s)) + k
<1> DEFINE a == Append(s, <<t, k>>)
           f == [i \in DOMAIN s |-> Layers(s[i])]
           h == [i \in DOMAIN a |-> Layers(a[i])]
           n == Len(s)
<1>1. <<t, k>> \in Stage
  BY DEF Stage
<1>2. a \in Seq(Stage) /\ Len(a) = n + 1 /\ a[n + 1] = <<t, k>> /\ \A i \in 1 .. n : a[i] = s[i]
  BY <1>1, AppendProperties
<1>3. n \in Nat /\ DOMAIN s = 1 .. n /\ \A i \in 1 .. n : Layers(s[i]) \in Nat
  <2>1. \A i \in 1 .. num_layers : i \in Nat
    OBVIOUS
  <2> QED BY <2>1, StageSequence
<1>4. DOMAIN a = 1 .. n + 1
  BY <1>2, LenProperties
<1> HIDE DEF a, n
<1>5. \A i \in 1 .. n : f[i] \in Nat /\ h[i] = f[i]
  <2> TAKE i \in 1 .. n
  <2>1. i \in DOMAIN s /\ i \in DOMAIN a
    BY <1>3, <1>4
  <2> QED BY <1>2, <1>3, <2>1
<1>6. h[n + 1] = k /\ k \in Nat
  <2>1. n + 1 \in DOMAIN a
    BY <1>3, <1>4
  <2> QED BY <1>2, <2>1 DEF Layers
<1> HIDE DEF f, h
<1>7. Total(f, n) \in Nat /\ Total(h, n + 1) = Total(f, n) + h[n + 1]
  BY <1>3, <1>5, <1>6, TotalStep
<1>8. cumulative_layers(s, n) = Total(f, n) /\ cumulative_layers(a, n + 1) = Total(h, n + 1)
  BY DEF f, h, cumulative_layers
<1> QED BY <1>2, <1>6, <1>7, <1>8 DEF a, n

LEMMA NoStages ==
  /\ <<>> \in Seq(Stage)
  /\ cumulative_layers(<<>>, 0) = 0
  /\ \A t \in InstanceTypes : Counter(<<>>)[t] = 0
<1>1. <<>> \in Seq(Stage) /\ Len(<<>>) = 0
  BY EmptySeq
<1>2. ASSUME NEW f PROVE Total(f, 0) = 0
  <2>1. \A k \in 1 .. 0 : f[k] \in Nat
    OBVIOUS
  <2>2. PICK c : SumOf(c, f, 0) /\ Total(f, 0) = c[0]
    BY <2>1, TotalIsSum
  <2> QED BY <2>2 DEF SumOf
<1>3. cumulative_layers(<<>>, 0) = 0
  BY <1>2 DEF cumulative_layers
<1>4. ASSUME NEW t \in InstanceTypes PROVE Counter(<<>>)[t] = 0
  <2>1. DOMAIN <<>> = {}
    <3>1. DOMAIN <<>> = 1 .. 0
      BY <1>1, LenProperties
    <3> QED BY <3>1
  <2>2. {i \in DOMAIN <<>> : Instance(<<>>[i]) = t} = {}
    BY <2>1
  <2>3. Counter(<<>>)[t] = Cardinality({i \in DOMAIN <<>> : Instance(<<>>[i]) = t})
    BY Zenon DEF Counter, CountStages
  <2> QED BY <2>2, <2>3, FS_EmptySet
<1> QED BY <1>1, <1>3, <1>4

-----------------------------------------------------------------------------
(* Scores.                                                                 *)

LEMMA ProductOrder ==
  ASSUME NEW x \in Nat, NEW y \in Nat, NEW z \in Nat
  PROVE  /\ x * z \in Nat
         /\ x <= y => x * z <= y * z
         /\ x < y /\ z > 0 => x * z < y * z
<1>1. x * z \in Nat
  OBVIOUS
<1>2. ASSUME x <= y PROVE x * z <= y * z
  <2>1. y = x + (y - x) /\ y - x \in Nat
    BY <1>2
  <2>2. y * z = x * z + (y - x) * z
    OBVIOUS
  <2>3. \A a, b \in Nat : a * b \in Nat
    OBVIOUS
  <2>4. (y - x) * z \in Nat /\ x * z \in Nat
    BY <2>1, <2>3
  <2> QED BY <2>2, <2>4
<1>3. ASSUME x < y, z > 0 PROVE x * z < y * z
  <2>1. y - x - 1 \in Nat
    BY <1>3
  <2>2. y * z = x * z + (y - x - 1) * z + z
    OBVIOUS
  <2>3. \A a, b \in Nat : a * b \in Nat
    OBVIOUS
  <2>4. (y - x - 1) * z \in Nat /\ x * z \in Nat
    BY <2>1, <2>3
  <2> QED BY <1>3, <2>2, <2>4
<1> QED BY <1>1, <1>2, <1>3

LEMMA Fractions ==
  ASSUME NEW a \in Nat, NEW b \in Nat, NEW c \in Nat,
         NEW d \in Nat, NEW e \in Nat, NEW f \in Nat,
         f > 0, a * e > b * d
  PROVE  a * f > c * d \/ c * e > b * f
<1> SUFFICES ASSUME a * f <= c * d, c * e <= b * f PROVE FALSE
  BY ProductOrder
<1>1. \A x, y \in Nat : x * y \in Nat
  OBVIOUS
<1>2. (a * f) * e <= (c * d) * e
  BY <1>1, ProductOrder
<1>3. (c * e) * d <= (b * f) * d
  BY <1>1, ProductOrder
<1>4. (b * d) * f < (a * e) * f
  <2>1. b * d < a * e /\ b * d \in Nat /\ a * e \in Nat
    BY <1>1
  <2> QED BY <2>1, ProductOrder
<1>5. (a * f) * e = (a * e) * f /\ (c * d) * e = (c * e) * d /\ (b * f) * d = (b * d) * f
  OBVIOUS
<1>6. /\ (a * e) * f \in Nat /\ (c * e) * d \in Nat /\ (b * d) * f \in Nat
  BY <1>1
<1> QED BY ONLY <1>2, <1>3, <1>4, <1>5, <1>6

LEMMA ScoreType ==
  ASSUME NEW p \in Pipeline
  PROVE  Num(p) \in Nat /\ Den(p) \in Nat /\ Den(p) > 0
<1>1. p.cost \in Nat /\ p.throughput \in Int
  BY DEF Pipeline
<1> QED BY <1>1 DEF Num, Den, Max2

\* Scores are ordered: of two pipelines at most one is better, and a third one
\* is not better than the worse or not worse than the better.
LEMMA ScoresAreOrdered ==
  ASSUME NEW p \in Pipeline, NEW q \in Pipeline, Better(p, q)
  PROVE  /\ ~ Better(q, p)
         /\ \A r \in Pipeline : Better(p, r) \/ Better(r, q)
<1>1. /\ Num(p) \in Nat /\ Den(p) \in Nat /\ Den(p) > 0
      /\ Num(q) \in Nat /\ Den(q) \in Nat /\ Den(q) > 0
  BY ScoreType
<1>2. Num(p) * Den(q) > Num(q) * Den(p)
  BY DEF Better
<1>3. \A x, y \in Nat : x * y \in Nat
  OBVIOUS
<1>4. ~ Better(q, p)
  <2>1. Num(p) * Den(q) \in Nat /\ Num(q) * Den(p) \in Nat
    BY <1>1, <1>3
  <2> QED BY <1>2, <2>1 DEF Better
<1>5. ASSUME NEW r \in Pipeline PROVE Better(p, r) \/ Better(r, q)
  <2>1. Num(r) \in Nat /\ Den(r) \in Nat /\ Den(r) > 0
    BY ScoreType
  <2>2. Num(p) * Den(r) > Num(r) * Den(p) \/ Num(r) * Den(q) > Num(q) * Den(r)
    BY <1>1, <1>2, <2>1, Fractions
  <2> QED BY <2>2 DEF Better
<1> QED BY <1>4, <1>5

LEMMA NotBetterThanItself ==
  ASSUME NEW p \in Pipeline
  PROVE  ~ Better(p, p)
BY ScoresAreOrdered

LEMMA BetterIsTransitive ==
  ASSUME NEW p \in Pipeline, NEW q \in Pipeline, NEW r \in Pipeline,
         Better(p, q), Better(q, r)
  PROVE  Better(p, r)
BY ScoresAreOrdered

\* Some result is not better than any other.
LEMMA AWorstResult ==
  ASSUME NEW n \in Nat, n > 0, NEW t, \A i \in 1 .. n : t[i] \in Pipeline
  PROVE  \E i \in 1 .. n : \A j \in 1 .. n : ~ Better(t[i], t[j])
<1> DEFINE W(m, i) == \A j \in 1 .. m : ~ Better(t[i], t[j])
           S == {m \in 1 .. n : ~ \E i \in 1 .. m : W(m, i)}
<1>1. SUFFICES ASSUME S # {} PROVE FALSE
  <2>1. n \in 1 .. n
    OBVIOUS
  <2> QED BY <2>1
<1>2. S \in SUBSET Nat
  OBVIOUS
<1>3. PICK m \in S : \A j \in S : m <= j
  <2> HIDE DEF S
  <2> QED BY <1>1, <1>2, LeastNumber
<1>4. m \in 1 .. n /\ ~ \E i \in 1 .. m : W(m, i)
  OBVIOUS
<1>5. m # 1
  <2> SUFFICES ASSUME m = 1 PROVE FALSE
    OBVIOUS
  <2>1. 1 \in 1 .. m /\ \A j \in 1 .. m : j = 1
    OBVIOUS
  <2>2. ~ Better(t[1], t[1])
    BY <1>4, NotBetterThanItself
  <2>3. W(m, 1)
    BY <2>1, <2>2
  <2> QED BY <1>4, <2>1, <2>3
<1>6. m - 1 \in 1 .. n /\ m - 1 \notin S
  <2>1. m - 1 \in 1 .. n /\ ~ (m <= m - 1)
    BY <1>4, <1>5
  <2> HIDE DEF S
  <2> QED BY <1>3, <2>1
<1>7. PICK i \in 1 .. m - 1 : W(m - 1, i)
  BY <1>6
<1>8. i \in 1 .. n /\ i \in 1 .. m /\ m \in 1 .. m /\ \A j \in 1 .. m : j \in 1 .. m - 1 \/ j = m
  BY <1>4, <1>6
<1>9. t[i] \in Pipeline /\ t[m] \in Pipeline /\ \A j \in 1 .. m - 1 : t[j] \in Pipeline
  <2>1. \A j \in 1 .. m - 1 : j \in 1 .. n
    BY <1>4
  <2> QED BY <1>4, <1>8, <2>1
<1> HIDE DEF S
<1>10. CASE Better(t[i], t[m])
  <2>1. ASSUME NEW j \in 1 .. m PROVE ~ Better(t[m], t[j])
    <3>1. CASE j = m
      BY <1>9, <3>1, NotBetterThanItself
    <3>2. CASE j \in 1 .. m - 1
      <4>1. t[j] \in Pipeline /\ ~ Better(t[i], t[j])
        BY <1>7, <1>9, <3>2
      <4> QED BY <1>9, <1>10, <4>1, BetterIsTransitive
    <3> QED BY <1>8, <3>1, <3>2
  <2>2. W(m, m)
    BY <2>1
  <2> QED BY <1>4, <1>8, <2>2
<1>11. CASE ~ Better(t[i], t[m])
  <2>1. W(m, i)
    BY <1>7, <1>8, <1>11
  <2> QED BY <1>4, <1>8, <2>1
<1> QED BY <1>10, <1>11

-----------------------------------------------------------------------------
(* The table.                                                              *)

\* One element goes, one comes.
LEMMA Exchange ==
  ASSUME NEW C, IsFiniteSet(C), NEW q \in C, NEW D \in SUBSET (C \ {q}), NEW p
  PROVE  IsFiniteSet(D \union {p}) /\ Cardinality(D \union {p}) <= Cardinality(C)
<1>1. /\ IsFiniteSet(C \ {q}) /\ Cardinality(C \ {q}) = Cardinality(C) - 1
      /\ Cardinality(C) \in Nat
  BY FS_RemoveElement, FS_CardinalityType
<1>2. /\ IsFiniteSet(D) /\ Cardinality(D) <= Cardinality(C \ {q})
      /\ Cardinality(D) \in Nat
  BY <1>1, FS_Subset, FS_CardinalityType
<1>3. /\ IsFiniteSet(D \union {p})
      /\ Cardinality(D \union {p}) = IF p \in D THEN Cardinality(D) ELSE Cardinality(D) + 1
  BY <1>2, FS_AddElement
<1> QED BY <1>1, <1>2, <1>3

\* A new pipeline leaves a cell as it should be.
LEMMA InsertKeeps ==
  ASSUME NEW nodes, NEW cell, NEW l, NEW n, NEW p, NEW new \in Insert(cell, p),
         CellOK(nodes, cell, l, n), Sound(nodes, p, l, n), PlacementAssumption
  PROVE  CellOK(nodes, new, l, n)
<1> DEFINE same == {q \in cell : Counter(q.stages) = Counter(p.stages)}
<1>1. /\ IsFiniteSet(cell) /\ Cardinality(cell) <= top_k /\ Cardinality(cell) \in Nat
      /\ \A q \in cell : Sound(nodes, q, l, n)
      /\ \A q, r \in cell : q # r => Counter(q.stages) # Counter(r.stages)
      /\ top_k \in Nat
  BY FS_CardinalityType DEF CellOK, PlacementAssumption
<1>2. ASSUME NEW D \in SUBSET cell, \A q \in D : Counter(q.stages) # Counter(p.stages),
             IsFiniteSet(D \union {p}), Cardinality(D \union {p}) <= top_k
      PROVE  CellOK(nodes, D \union {p}, l, n)
  <2>1. \A q \in D \union {p} : Sound(nodes, q, l, n)
    BY <1>1
  <2>2. \A q, r \in D \union {p} : q # r => Counter(q.stages) # Counter(r.stages)
    BY <1>1, <1>2
  <2> QED BY <1>2, <2>1, <2>2, Zenon DEF CellOK
<1>3. ASSUME NEW q \in cell, NEW D \in SUBSET (cell \ {q}),
             \A r \in D : Counter(r.stages) # Counter(p.stages)
      PROVE  CellOK(nodes, D \union {p}, l, n)
  <2>1. IsFiniteSet(D \union {p}) /\ Cardinality(D \union {p}) <= Cardinality(cell)
    BY <1>1, Exchange
  <2>2. Cardinality(D \union {p}) <= top_k
    BY <1>1, <2>1, FS_CardinalityType
  <2>3. D \in SUBSET cell
    OBVIOUS
  <2> QED BY <1>2, <1>3, <2>1, <2>2, <2>3
<1>4. CASE same # {}
  <2>1. new = IF \E q \in same : Better(p, q) THEN (cell \ same) \union {p} ELSE cell
    BY <1>4 DEF Insert
  <2>2. PICK q \in same : TRUE
    BY <1>4
  <2>3. CellOK(nodes, (cell \ same) \union {p}, l, n)
    <3>1. cell \ same \in SUBSET (cell \ {q})
      BY <2>2
    <3>2. \A r \in cell \ same : Counter(r.stages) # Counter(p.stages)
      OBVIOUS
    <3> QED BY <1>3, <2>2, <3>1, <3>2
  <2> QED BY <2>1, <2>3
<1>5. CASE same = {} /\ Cardinality(cell) < top_k
  <2>1. new = cell \union {p}
    BY <1>5 DEF Insert
  <2>2. \A r \in cell : Counter(r.stages) # Counter(p.stages)
    BY <1>5
  <2>3. IsFiniteSet(cell \union {p}) /\ Cardinality(cell \union {p}) <= top_k
    <3>1. /\ IsFiniteSet(cell \union {p})
          /\ Cardinality(cell \union {p}) = IF p \in cell THEN Cardinality(cell) ELSE Cardinality(cell) + 1
      BY <1>1, FS_AddElement
    <3> QED BY <1>1, <1>5, <3>1
  <2>4. cell \in SUBSET cell
    OBVIOUS
  <2> QED BY <1>2, <2>1, <2>2, <2>3, <2>4
<1>6. CASE same = {} /\ ~ (Cardinality(cell) < top_k)
  <2>1. \E q \in Worst(cell) : new = IF Better(p, q) THEN (cell \ {q}) \union {p} ELSE cell
    BY <1>6 DEF Insert
  <2>2. PICK q \in Worst(cell) : new = IF Better(p, q) THEN (cell \ {q}) \union {p} ELSE cell
    BY <2>1
  <2>3. q \in cell
    BY DEF Worst
  <2>4. CellOK(nodes, (cell \ {q}) \union {p}, l, n)
    <3>1. cell \ {q} \in SUBSET (cell \ {q})
      OBVIOUS
    <3>2. \A r \in cell \ {q} : Counter(r.stages) # Counter(p.stages)
      BY <1>6
    <3> QED BY <1>3, <2>3, <3>1, <3>2
  <2> QED BY <2>2, <2>4
<1> QED BY <1>4, <1>5, <1>6

-----------------------------------------------------------------------------
(* The cache key.                                                          *)

LEMMA KeyCounts ==
  ASSUME NEW n \in Nat, NEW s, DOMAIN s = 1 .. n
  PROVE  /\ DOMAIN get_cache_key(s) = {s[i] : i \in 1 .. n}
         /\ \A x \in {s[i] : i \in 1 .. n} :
              get_cache_key(s)[x] = Cardinality({i \in 1 .. n : s[i] = x})
         /\ \A x : IsFiniteSet({i \in 1 .. n : s[i] = x})
<1>1. get_cache_key(s) =
        [x \in {s[i] : i \in 1 .. n} |-> Cardinality({i \in 1 .. n : s[i] = x})]
  BY Zenon DEF get_cache_key, CountStages
<1>2. ASSUME NEW x PROVE IsFiniteSet({i \in 1 .. n : s[i] = x})
  <2>1. IsFiniteSet(1 .. n)
    BY FS_Interval
  <2>2. {i \in 1 .. n : s[i] = x} \subseteq 1 .. n
    OBVIOUS
  <2> QED BY <2>1, <2>2, FS_Subset
<1> DEFINE R == {s[i] : i \in 1 .. n}
           C(x) == Cardinality({i \in 1 .. n : s[i] = x})
<1>3. get_cache_key(s) = [x \in R |-> C(x)]
  BY <1>1
<1> HIDE DEF R, C
<1>4. DOMAIN get_cache_key(s) = R /\ \A x \in R : get_cache_key(s)[x] = C(x)
  BY <1>3
<1> QED BY <1>2, <1>4 DEF R, C

\* Stages with the same key are the same stages in another order.
LEMMA SameKeySameStages ==
  ASSUME NEW n \in Nat, NEW m \in Nat, NEW s \in [1 .. n -> Stage], NEW o \in [1 .. m -> Stage],
         get_cache_key(s) = get_cache_key(o)
  PROVE  o \in Orders(s)
<1> DEFINE A(x) == {i \in 1 .. n : s[i] = x}
           B(x) == {i \in 1 .. m : o[i] = x}
           b(x) == CHOOSE g : g \in Bijection(B(x), A(x))
           f == [i \in 1 .. m |-> b(o[i])[i]]
<1>1. DOMAIN s = 1 .. n /\ DOMAIN o = 1 .. m
  OBVIOUS
<1>2. /\ {s[i] : i \in 1 .. n} = {o[i] : i \in 1 .. m}
      /\ \A x \in {o[i] : i \in 1 .. m} : Cardinality(A(x)) = Cardinality(B(x))
      /\ \A x : IsFiniteSet(A(x)) /\ IsFiniteSet(B(x))
  <2>1. /\ DOMAIN get_cache_key(s) = {s[i] : i \in 1 .. n}
        /\ \A x \in {s[i] : i \in 1 .. n} : get_cache_key(s)[x] = Cardinality(A(x))
        /\ \A x : IsFiniteSet(A(x))
    BY <1>1, KeyCounts
  <2>2. /\ DOMAIN get_cache_key(o) = {o[i] : i \in 1 .. m}
        /\ \A x \in {o[i] : i \in 1 .. m} : get_cache_key(o)[x] = Cardinality(B(x))
        /\ \A x : IsFiniteSet(B(x))
    BY <1>1, KeyCounts
  <2> HIDE DEF A, B
  <2> QED BY <2>1, <2>2, Zenon
<1>3. ASSUME NEW i \in 1 .. m
      PROVE  b(o[i]) \in Bijection(B(o[i]), A(o[i]))
  <2>1. o[i] \in {o[j] : j \in 1 .. m}
    OBVIOUS
  <2> HIDE DEF A, B
  <2>2. ExistsBijection(B(o[i]), A(o[i]))
    BY <1>2, <2>1, FS_SameCardinalityBij
  <2> QED BY <2>2, Zenon DEF ExistsBijection
<1> HIDE DEF b
<1>4. ASSUME NEW i \in 1 .. m
      PROVE  /\ b(o[i])[i] \in 1 .. n /\ s[b(o[i])[i]] = o[i]
             /\ \A j \in 1 .. m : o[j] = o[i] /\ b(o[i])[j] = b(o[i])[i] => j = i
             /\ \A k \in 1 .. n : s[k] = o[i] => \E j \in 1 .. m : o[j] = o[i] /\ b(o[i])[j] = k
  <2> DEFINE g == b(o[i])
             S == B(o[i])
             T == A(o[i])
  <2>1. g \in [S -> T] /\ (\A j, k \in S : g[j] = g[k] => j = k) /\ (\A k \in T : \E j \in S : g[j] = k)
    <3>1. g \in Bijection(S, T)
      BY <1>3
    <3> HIDE DEF g, S, T
    <3> QED BY <3>1, Fun_BijectionProperties
  <2>2. i \in S /\ (\A j : j \in S <=> j \in 1 .. m /\ o[j] = o[i]) /\ (\A k : k \in T <=> k \in 1 .. n /\ s[k] = o[i])
    OBVIOUS
  <2> HIDE DEF g, S, T
  <2>3. /\ g[i] \in 1 .. n /\ s[g[i]] = o[i]
        /\ \A j \in 1 .. m : o[j] = o[i] /\ g[j] = g[i] => j = i
        /\ \A k \in 1 .. n : s[k] = o[i] => \E j \in 1 .. m : o[j] = o[i] /\ g[j] = k
    BY <2>1, <2>2
  <2> QED BY <2>3 DEF g
<1>5. f \in [1 .. m -> 1 .. n] /\ \A i \in 1 .. m : f[i] = b(o[i])[i] /\ s[f[i]] = o[i]
  BY <1>4
<1> HIDE DEF f, A, B
<1>6. \A i, j \in 1 .. m : f[i] = f[j] => i = j
  <2> SUFFICES ASSUME NEW i \in 1 .. m, NEW j \in 1 .. m, f[i] = f[j] PROVE j = i
    OBVIOUS
  <2>1. o[i] = o[j]
    BY <1>5
  <2>2. b(o[i])[j] = b(o[i])[i]
    BY <1>5, <2>1
  <2> QED BY <1>4, <2>1, <2>2
<1>7. \A k \in 1 .. n : \E j \in 1 .. m : f[j] = k
  <2> TAKE k \in 1 .. n
  <2>1. s[k] \in {o[i] : i \in 1 .. m}
    BY <1>2
  <2>2. PICK i \in 1 .. m : s[k] = o[i]
    BY <2>1
  <2>3. PICK j \in 1 .. m : o[j] = o[i] /\ b(o[i])[j] = k
    BY <1>4, <2>2
  <2>4. f[j] = k
    BY <1>5, <2>3
  <2> QED BY <2>4
<1>8. m = n
  <2>1. f \in Bijection(1 .. m, 1 .. n)
    BY <1>5, <1>6, <1>7, Fun_IsBij
  <2>2. ExistsBijection(1 .. m, 1 .. n)
    BY <2>1 DEF ExistsBijection
  <2>3. /\ IsFiniteSet(1 .. m) /\ Cardinality(1 .. m) = m
        /\ Cardinality(1 .. n) = n
    BY FS_Interval
  <2> QED BY <2>2, <2>3, FS_Bijection
<1>9. o = [i \in DOMAIN s |-> s[f[i]]]
  BY <1>1, <1>5, <1>8
<1>10. f \in {g \in [DOMAIN s -> DOMAIN s] : \A i, j \in DOMAIN s : g[i] = g[j] => i = j}
  BY <1>1, <1>5, <1>6, <1>8
<1> QED BY <1>9, <1>10, Zenon DEF Orders

-----------------------------------------------------------------------------
(* The heap.                                                               *)

Elements(t) == {t[i] : i \in DOMAIN t}

LEMMA Appended ==
  ASSUME NEW t \in Seq(Pipeline), NEW p \in Pipeline
  PROVE  /\ Append(t, p) \in Seq(Pipeline) /\ Len(Append(t, p)) = Len(t) + 1 /\ Len(t) \in Nat
         /\ Elements(Append(t, p)) = Elements(t) \union {p}
<1> DEFINE r == Append(t, p)
<1>1. /\ r \in Seq(Pipeline) /\ Len(r) = Len(t) + 1
      /\ \A i \in 1 .. Len(t) : r[i] = t[i]
      /\ r[Len(t) + 1] = p
  BY AppendProperties
<1>2. Len(t) \in Nat /\ DOMAIN t = 1 .. Len(t)
  BY LenProperties
<1>3. DOMAIN r = 1 .. Len(t) + 1
  BY <1>1, LenProperties
<1> HIDE DEF r
<1>4. Len(t) + 1 \in DOMAIN r /\ \A i \in DOMAIN r : i \in DOMAIN t \/ i = Len(t) + 1
  BY <1>2, <1>3
<1>5. \A i \in DOMAIN t : i \in DOMAIN r
  BY <1>2, <1>3
<1>6. Elements(r) = Elements(t) \union {p}
  BY <1>1, <1>2, <1>4, <1>5 DEF Elements
<1> QED BY <1>1, <1>2, <1>6 DEF r

LEMMA Replaced ==
  ASSUME NEW t \in Seq(Pipeline), NEW p \in Pipeline, NEW out \in DOMAIN t, NEW r,
         r = SubSeq(t, 1, out - 1) \o Append(SubSeq(t, out + 1, Len(t)), p)
  PROVE  /\ r \in Seq(Pipeline) /\ Len(r) = Len(t)
         /\ Elements(r) = {t[i] : i \in DOMAIN t \ {out}} \union {p}
<1> DEFINE n == Len(t)
           u == SubSeq(t, 1, out - 1)
           v == SubSeq(t, out + 1, n)
           w == Append(v, p)
<1>1. n \in Nat /\ DOMAIN t = 1 .. n /\ out \in 1 .. n /\ \A i \in 1 .. n : t[i] \in Pipeline
  BY LenProperties, ElementOfSeq
<1>2. u \in Seq(Pipeline) /\ Len(u) = out - 1 /\ \A i \in 1 .. out - 1 : u[i] = t[i]
  <2>1. \A i \in 1 .. out - 1 : t[i] \in Pipeline
    BY <1>1
  <2>2. /\ u \in Seq(Pipeline) /\ Len(u) = IF 1 <= out - 1 THEN (out - 1) - 1 + 1 ELSE 0
        /\ \A i \in 1 .. (out - 1) - 1 + 1 : u[i] = t[1 + i - 1]
    <3>1. 1 \in Int /\ out - 1 \in Int
      BY <1>1
    <3> QED BY <2>1, <3>1, SubSeqProperties
  <2> QED BY <1>1, <2>2
<1>3. v \in Seq(Pipeline) /\ Len(v) = n - out /\ \A i \in 1 .. n - out : v[i] = t[out + i]
  <2>1. \A i \in out + 1 .. n : t[i] \in Pipeline
    BY <1>1
  <2> DEFINE k == out + 1
  <2>2. k \in Int /\ n \in Int /\ k = out + 1 /\ v = SubSeq(t, k, n) /\ \A i \in k .. n : t[i] \in Pipeline
    BY <1>1, <2>1
  <2> HIDE DEF k, n, v
  <2>3. /\ v \in Seq(Pipeline) /\ Len(v) = IF k <= n THEN n - k + 1 ELSE 0
        /\ \A i \in 1 .. n - k + 1 : v[i] = t[k + i - 1]
    BY ONLY <2>2, SubSeqProperties
  <2>4. \A i \in 1 .. n - out : k + i - 1 = out + i
    BY <1>1, <2>2
  <2>5. n - k + 1 = n - out /\ (~ (k <= n) => n - out = 0)
    BY <1>1, <2>2
  <2>6. Len(v) = n - out
    BY <1>1, <2>2, <2>3, <2>5
  <2>7. ASSUME NEW i \in 1 .. n - out PROVE v[i] = t[out + i]
    BY <2>3, <2>4, <2>5
  <2> QED BY <2>3, <2>6, <2>7
<1> HIDE DEF u, v
<1>4. /\ w \in Seq(Pipeline) /\ Len(w) = n - out + 1
      /\ \A i \in 1 .. n - out : w[i] = t[out + i]
      /\ w[n - out + 1] = p
  BY <1>3, AppendProperties
<1>5. /\ r \in Seq(Pipeline) /\ Len(r) = n
      /\ \A i \in 1 .. n : r[i] = IF i <= out - 1 THEN t[i] ELSE w[i - (out - 1)]
  <2>1. r = u \o w
    BY DEF u, v
  <2> HIDE DEF w
  <2>2. /\ u \o w \in Seq(Pipeline) /\ Len(u \o w) = Len(u) + Len(w)
        /\ \A i \in 1 .. Len(u) + Len(w) :
             (u \o w)[i] = IF i <= Len(u) THEN u[i] ELSE w[i - Len(u)]
    <3>1. u \in Seq(Pipeline) /\ w \in Seq(Pipeline)
      BY <1>2, <1>4
    <3> QED BY ONLY <3>1, ConcatProperties
  <2>3. Len(u) + Len(w) = n
    BY <1>1, <1>2, <1>4
  <2>4. \A i \in 1 .. n : i <= out - 1 => i \in 1 .. out - 1
    BY <1>1
  <2>5. r \in Seq(Pipeline) /\ Len(r) = n
    BY <2>1, <2>2, <2>3
  <2>6. ASSUME NEW i \in 1 .. n PROVE r[i] = IF i <= out - 1 THEN t[i] ELSE w[i - (out - 1)]
    <3>1. r[i] = IF i <= out - 1 THEN u[i] ELSE w[i - (out - 1)]
      BY <1>2, <2>1, <2>2, <2>3
    <3> QED BY <1>2, <2>4, <3>1
  <2> QED BY <2>5, <2>6
<1> HIDE DEF w
<1>6. DOMAIN r = 1 .. n
  BY <1>5, LenProperties
<1>7. r[n] = p
  <2>1. n \in 1 .. n /\ ~ (n <= out - 1) /\ n - (out - 1) = n - out + 1
    BY <1>1
  <2> QED BY <1>4, <1>5, <2>1
<1>8. \A i \in 1 .. n : i < out => r[i] = t[i]
  BY <1>1, <1>5
<1>9. \A i \in 1 .. n : out <= i /\ i < n => r[i] = t[i + 1]
  <2> TAKE i \in 1 .. n
  <2> HAVE out <= i /\ i < n
  <2>1. ~ (i <= out - 1) /\ i - (out - 1) \in 1 .. n - out /\ out + (i - (out - 1)) = i + 1
    BY <1>1
  <2> QED BY <1>4, <1>5, <2>1
<1> DEFINE rest == {t[i] : i \in DOMAIN t \ {out}}
<1>10. ASSUME NEW i \in 1 .. n PROVE r[i] \in rest \union {p}
  <2>1. \A j \in 1 .. n : j # out => t[j] \in rest
    BY <1>1
  <2> HIDE DEF rest
  <2>2. CASE i < out
    BY <1>1, <1>8, <2>1, <2>2
  <2>3. CASE out <= i /\ i < n
    <3>1. i + 1 \in 1 .. n /\ i + 1 # out
      BY <1>1, <2>3
    <3>2. t[i + 1] \in rest
      BY <2>1, <3>1
    <3> QED BY <1>9, <2>3, <3>2
  <2>4. CASE i = n
    BY <1>7, <2>4
  <2>5. n \in Nat /\ out \in 1 .. n /\ i \in 1 .. n
    BY <1>1
  <2>6. i < out \/ (out <= i /\ i < n) \/ i = n
    BY ONLY <2>5
  <2> QED BY ONLY <2>2, <2>3, <2>4, <2>6
<1>11. ASSUME NEW i \in 1 .. n, i # out PROVE \E j \in 1 .. n : r[j] = t[i]
  <2>1. CASE i < out
    BY <1>8, <2>1
  <2>2. CASE i > out
    <3>1. i - 1 \in 1 .. n /\ out <= i - 1 /\ i - 1 < n /\ (i - 1) + 1 = i
      BY <1>1, <2>2
    <3>2. r[i - 1] = t[i]
      BY <1>9, <3>1
    <3> QED BY <3>1, <3>2
  <2>3. n \in Nat /\ out \in 1 .. n /\ i \in 1 .. n
    BY <1>1
  <2>4. i < out \/ i > out
    BY ONLY <1>11, <2>3
  <2> QED BY ONLY <2>1, <2>2, <2>4
<1>12. p \in Elements(r)
  <2>1. n \in DOMAIN r
    BY <1>1, <1>6
  <2> QED BY <1>7, <2>1 DEF Elements
<1>13. Elements(r) \subseteq rest \union {p}
  <2> HIDE DEF rest
  <2> QED BY <1>6, <1>10 DEF Elements
<1>14. rest \subseteq Elements(r)
  <2>1. \A i \in DOMAIN t \ {out} : \E j \in DOMAIN r : r[j] = t[i]
    BY <1>1, <1>6, <1>11
  <2> QED BY ONLY <2>1 DEF Elements
<1>15. Elements(r) = rest \union {p}
  <2> HIDE DEF rest
  <2> QED BY <1>12, <1>13, <1>14
<1> QED BY <1>5, <1>15

\* What Push does: append, replace a worst result by a better one, or nothing.
LEMMA PushOutcomes ==
  ASSUME top_pipelines \in Seq(Pipeline), NEW p \in Pipeline, PlacementAssumption
  PROVE  LET r == Push(p)
             t == top_pipelines
             worst == {i \in DOMAIN t : \A j \in DOMAIN t : ~ Better(t[i], t[j])} IN
         /\ r \in Seq(Pipeline)
         /\ \/ Len(t) < TopN /\ Len(r) = Len(t) + 1 /\ Elements(r) = Elements(t) \union {p}
            \/ /\ Len(t) >= TopN
               /\ \E out \in worst :
                    \/ /\ Better(p, t[out]) /\ Len(r) = Len(t)
                       /\ Elements(r) = {t[i] : i \in DOMAIN t \ {out}} \union {p}
                    \/ ~ Better(p, t[out]) /\ r = t
<1> DEFINE t == top_pipelines
           r == Push(p)
           worst == {i \in DOMAIN t : \A j \in DOMAIN t : ~ Better(t[i], t[j])}
           out == CHOOSE i \in worst : \A j \in worst : i <= j
<1>1. Len(t) \in Nat /\ DOMAIN t = 1 .. Len(t) /\ \A i \in 1 .. Len(t) : t[i] \in Pipeline
  BY LenProperties, ElementOfSeq
<1>2. TopN \in Nat /\ TopN > 0
  BY DEF PlacementAssumption
<1>3. CASE Len(t) < TopN
  <2>1. r = Append(t, p)
    BY <1>3 DEF Push
  <2> QED BY <1>3, <2>1, Appended
<1>4. CASE Len(t) >= TopN
  <2>1. worst \in SUBSET Nat /\ worst # {}
    <3>1. \E i \in 1 .. Len(t) : \A j \in 1 .. Len(t) : ~ Better(t[i], t[j])
      <4>1. Len(t) > 0
        BY <1>1, <1>2, <1>4
      <4> HIDE DEF t
      <4> QED BY <1>1, <4>1, AWorstResult
    <3>2. \A i \in DOMAIN t : i \in Nat
      BY <1>1
    <3>3. PICK i \in DOMAIN t : \A j \in DOMAIN t : ~ Better(t[i], t[j])
      BY <1>1, <3>1
    <3>4. i \in worst
      BY <3>3
    <3> QED BY <3>2, <3>4
  <2>2. out \in worst
    <3> HIDE DEF worst
    <3>1. \E i \in worst : \A j \in worst : i <= j
      BY <2>1, LeastNumber
    <3> QED BY <3>1
  <2>3. r = IF Better(p, t[out])
            THEN SubSeq(t, 1, out - 1) \o Append(SubSeq(t, out + 1, Len(t)), p)
            ELSE t
    <3>1. ~ (Len(t) < TopN)
      BY <1>1, <1>2, <1>4
    <3> QED BY <3>1, Zenon DEF Push
  <2>4. out \in DOMAIN t
    BY <2>2
  <2> HIDE DEF out
  <2>5. CASE Better(p, t[out])
    <3>1. r = SubSeq(t, 1, out - 1) \o Append(SubSeq(t, out + 1, Len(t)), p)
      BY <2>3, <2>5
    <3>2. /\ r \in Seq(Pipeline) /\ Len(r) = Len(t)
          /\ Elements(r) = {t[i] : i \in DOMAIN t \ {out}} \union {p}
      <4> HIDE DEF r
      <4> QED BY <2>4, <3>1, Replaced
    <3> HIDE DEF worst, r
    <3> QED BY <1>4, <2>2, <2>5, <3>2 DEF worst, r
  <2>6. CASE ~ Better(p, t[out])
    <3>1. r = t
      BY <2>3, <2>6
    <3> HIDE DEF r
    <3> QED BY <1>4, <2>2, <2>6, <3>1 DEF r
  <2> QED BY <2>5, <2>6
<1> QED BY <1>1, <1>2, <1>3, <1>4

-----------------------------------------------------------------------------
(* The invariant.                                                          *)

LEMMA Constants ==
  ASSUME PlacementAssumption
  PROVE  /\ num_layers \in Nat /\ num_layers > 0 /\ max_stages \in Nat /\ max_stages > 0
         /\ top_k \in Nat /\ top_k > 0 /\ TopN \in Nat /\ TopN > 0 /\ budget \in Nat
         /\ \A t \in InstanceTypes : Price[t] \in Nat
         /\ \A n \in Pools : n \in [InstanceTypes -> Nat]
  BY DEF PlacementAssumption

\* The empty table is as it should be.
LEMMA EmptyTableOK ==
  ASSUME NEW nodes \in [InstanceTypes -> Nat], PlacementAssumption
  PROVE  /\ EmptyTable \in [0 .. num_layers -> [0 .. num_layers -> SUBSET Pipeline]]
         /\ \A l, n \in 0 .. num_layers : CellOK(nodes, EmptyTable[l][n], l, n)
<1>1. EmptyPipeline \in Pipeline
  BY NoStages DEF EmptyPipeline, Pipeline
<1>2. EmptyTable \in [0 .. num_layers -> [0 .. num_layers -> SUBSET Pipeline]]
  BY <1>1 DEF EmptyTable
<1>3. Sound(nodes, EmptyPipeline, 0, 0)
  <2>1. EmptyPipeline.stages = <<>> /\ EmptyPipeline.cost = 0
    BY DEF EmptyPipeline
  <2>2. Len(<<>>) = 0
    BY EmptySeq
  <2>3. \A t \in InstanceTypes : Counter(<<>>)[t] <= nodes[t]
    BY NoStages
  <2>4. 0 <= budget /\ 0 <= max_stages
    BY Constants
  <2> QED BY <1>1, <2>1, <2>2, <2>3, <2>4, NoStages DEF Sound
<1>4. CellOK(nodes, {EmptyPipeline}, 0, 0)
  <2>1. IsFiniteSet({EmptyPipeline}) /\ Cardinality({EmptyPipeline}) = 1
    BY FS_Singleton
  <2>2. Cardinality({EmptyPipeline}) <= top_k
    BY <2>1, Constants
  <2> QED BY <1>3, <2>1, <2>2, Zenon DEF CellOK
<1>5. ASSUME NEW l, NEW n PROVE CellOK(nodes, {}, l, n)
  <2>1. IsFiniteSet({}) /\ Cardinality({}) = 0
    BY FS_EmptySet
  <2>2. Cardinality({}) <= top_k
    BY <2>1, Constants
  <2> QED BY <2>1, <2>2, Zenon DEF CellOK
<1>6. ASSUME NEW l \in 0 .. num_layers, NEW n \in 0 .. num_layers
      PROVE  CellOK(nodes, EmptyTable[l][n], l, n)
  <2>1. EmptyTable[l][n] = IF l = 0 /\ n = 0 THEN {EmptyPipeline} ELSE {}
    BY DEF EmptyTable
  <2>2. CASE l = 0 /\ n = 0
    BY <1>4, <2>1, <2>2
  <2>3. CASE ~ (l = 0 /\ n = 0)
    <3>1. EmptyTable[l][n] = {}
      BY <2>1, <2>3
    <3> QED BY <1>5, <3>1
  <2> QED BY <2>2, <2>3
<1> QED BY <1>2, <1>6

\* A search begins well.
LEMMA SearchBegins ==
  ASSUME NEW nodes \in [InstanceTypes -> Nat], NEW mode, BeginSearch(nodes, mode),
         PlacementAssumption
  PROVE  /\ TableInv' /\ ResultsInv' /\ CacheInv' /\ TopIsBest'
         /\ pool' = nodes /\ optimization_mode' = mode
<1>1. /\ optimization_mode' = mode /\ pool' = nodes /\ dp' = EmptyTable
      /\ throughput_cache' = <<>> /\ top_pipelines' = <<>> /\ todo' = {} /\ evaluated' = {}
  BY DEF BeginSearch
<1>2. DOMAIN <<>> = {} /\ Len(<<>>) = 0 /\ <<>> \in Seq(Pipeline)
  <2>1. <<>> \in Seq(Pipeline) /\ Len(<<>>) = 0
    BY EmptySeq
  <2>2. DOMAIN <<>> = 1 .. 0
    BY <2>1, LenProperties
  <2> QED BY <2>1, <2>2
<1>3. TableInv'
  BY <1>1, EmptyTableOK DEF TableInv
<1>4. ResultsInv'
  BY <1>1, <1>2 DEF ResultsInv
<1>5. CacheInv'
  BY <1>1, <1>2 DEF CacheInv
<1>6. TopIsBest'
  <2>1. 0 <= TopN
    BY Constants
  <2> QED BY <1>1, <1>2, <2>1 DEF TopIsBest
<1> QED BY <1>1, <1>3, <1>4, <1>5, <1>6

LEMMA PositionFacts ==
  ASSUME NEW x \in Positions, PlacementAssumption
  PROVE  /\ x[1] \in 0 .. num_layers /\ x[2] \in 0 .. num_layers /\ x[3] \in 0 .. num_layers
         /\ x[3] + 1 \in 0 .. num_layers /\ x[3] + 1 <= max_stages
         /\ x[1] - x[2] \in 1 .. num_layers
<1>1. num_layers \in Nat /\ max_stages \in Nat
  BY Constants
<1>2. /\ x[1] \in 1 .. num_layers /\ x[2] \in 0 .. num_layers - 1 /\ x[3] \in 0 .. max_stages - 1
      /\ x[2] < x[1] /\ x[3] <= x[2]
  BY DEF Positions
<1> QED BY <1>1, <1>2

\* The next cell gives pipelines of its layers and stages.
LEMMA NextCellKeeps ==
  ASSUME TableInv, NextCell, PlacementAssumption
  PROVE  TableInv'
<1>1. pool' = pool /\ dp' = dp
  BY DEF NextCell
<1>2. PICK x \in CellsLeft : at' = x /\ \E top \in SUBSET Cell(x) : todo' = top \X instance_types
  BY DEF NextCell
<1>3. PICK top \in SUBSET Cell(x) : todo' = top \X instance_types
  BY <1>2
<1>4. x \in Positions
  BY DEF CellsLeft
<1>5. x[2] \in 0 .. num_layers /\ x[3] \in 0 .. num_layers
  BY <1>4, PositionFacts
<1>6. \A p \in Cell(x) : Sound(pool, p, x[2], x[3])
  BY <1>5 DEF TableInv, CellOK, Cell
<1>7. ASSUME NEW c \in todo' PROVE Sound(pool, c[1], x[2], x[3]) /\ c[2] \in InstanceTypes
  <2>1. c[1] \in top /\ c[2] \in instance_types
    BY <1>3
  <2> QED BY <1>6, <2>1 DEF instance_types
<1>8. \A c \in todo' : Sound(pool', c[1], (at')[2], (at')[3]) /\ c[2] \in InstanceTypes
  BY <1>1, <1>2, <1>7
<1>9. /\ dp' \in [0 .. num_layers -> [0 .. num_layers -> SUBSET Pipeline]]
      /\ \A l, n \in 0 .. num_layers : CellOK(pool', (dp')[l][n], l, n)
  BY <1>1 DEF TableInv
<1> QED BY <1>2, <1>4, <1>8, <1>9 DEF TableInv

LEMMA ThroughputType ==
  ASSUME NEW n \in 1 .. max_stages, NEW s \in [1 .. n -> Stage], RateAssumption
  PROVE  get_throughput(s) \in Int
<1>1. Rate(s) \in Nat
  BY DEF RateAssumption, Stage
<1>2. get_throughput(s) = Rate(s) \/ get_throughput(s) = OUT_OF_MEMORY
  BY DEF get_throughput
<1> QED BY <1>1, <1>2 DEF OUT_OF_MEMORY

\* The cache gives a throughput of the stages in some order.
LEMMA CacheGives ==
  ASSUME CacheInv, NEW n \in 1 .. max_stages, NEW s \in [1 .. n -> Stage],
         NEW cached, cached = recalculate_pipeline_throughput(s),
         PlacementAssumption, RateAssumption
  PROVE  /\ cached[get_cache_key(s)] \in Int
         /\ cached[get_cache_key(s)] \in {get_throughput(o) : o \in Orders(s)}
         /\ \A k \in DOMAIN cached :
              \E m \in 1 .. max_stages : \E o \in [1 .. m -> Stage] :
                k = get_cache_key(o) /\ cached[k] = get_throughput(o)
<1> DEFINE key == get_cache_key(s)
           G(k, v) == \E m \in 1 .. max_stages : \E o \in [1 .. m -> Stage] :
                        k = get_cache_key(o) /\ v = get_throughput(o)
<1>1. key \in DOMAIN cached
  BY DEF recalculate_pipeline_throughput
<1>2. ASSUME NEW k \in DOMAIN cached PROVE G(k, cached[k])
  <2>1. \A j \in DOMAIN throughput_cache : G(j, throughput_cache[j])
    BY DEF CacheInv
  <2>2. G(key, get_throughput(s))
    OBVIOUS
  <2> HIDE DEF key, G
  <2>3. cached = IF key \in DOMAIN throughput_cache
                 THEN throughput_cache
                 ELSE [j \in DOMAIN throughput_cache \union {key} |->
                         IF j = key THEN get_throughput(s) ELSE throughput_cache[j]]
    BY DEF key, recalculate_pipeline_throughput
  <2>4. CASE key \in DOMAIN throughput_cache
    BY <2>1, <2>3, <2>4
  <2>5. CASE key \notin DOMAIN throughput_cache
    <3>1. /\ k \in DOMAIN throughput_cache \union {key}
          /\ cached[k] = IF k = key THEN get_throughput(s) ELSE throughput_cache[k]
      BY <2>3, <2>5
    <3> QED BY <2>1, <2>2, <3>1
  <2> QED BY <2>4, <2>5
<1>3. PICK m \in 1 .. max_stages : \E o \in [1 .. m -> Stage] :
        key = get_cache_key(o) /\ cached[key] = get_throughput(o)
  BY <1>1, <1>2
<1>4. PICK o \in [1 .. m -> Stage] : key = get_cache_key(o) /\ cached[key] = get_throughput(o)
  BY <1>3
<1>5. n \in Nat /\ m \in Nat
  BY Constants
<1>6. o \in Orders(s)
  BY <1>4, <1>5, SameKeySameStages
<1>7. cached[key] \in Int
  BY <1>4, ThroughputType
<1> QED BY <1>2, <1>4, <1>6, <1>7

\* One more stage that the pool and the budget can pay for.
NewPipeline(p) ==
  /\ at \in Positions
  /\ Sound(pool, p, at[1], at[3] + 1)
  /\ Computed(p)
  /\ IF at[1] = num_layers
     THEN top_pipelines' = Push(p) /\ evaluated' = evaluated \union {p}
     ELSE UNCHANGED <<top_pipelines, evaluated>>
  /\ \E cell \in Insert(dp[at[1]][at[3] + 1], p) :
       dp' = [dp EXCEPT ![at[1]][at[3] + 1] = cell]

\* A candidate is dropped, or becomes such a pipeline.
LEMMA CandidateOutcomes ==
  ASSUME TableInv, CacheInv, Candidate, PlacementAssumption, RateAssumption
  PROVE  /\ UNCHANGED <<inputs, outcome, phase, optimization_mode, pool, at>>
         /\ todo' \subseteq todo
         /\ CacheInv'
         /\ \/ UNCHANGED <<dp, top_pipelines, evaluated>>
            \/ \E p \in Pipeline : NewPipeline(p)
<1>1. UNCHANGED <<inputs, outcome, phase, optimization_mode, pool, at>>
  BY DEF Candidate
<1>2. PICK c \in todo :
        /\ todo' = todo \ {c}
        /\ IF check_cluster_availability(c[1].stages, c[2]) /\ c[1].cost + Price[c[2]] <= budget
           THEN Evaluate(Append(c[1].stages, <<c[2], at[1] - at[2]>>), c[1].cost + Price[c[2]])
           ELSE UNCHANGED <<dp, throughput_cache, top_pipelines, evaluated>>
  BY DEF Candidate
<1>3. \A s : get_throughput(s)' = get_throughput(s)
  <2>1. memory' = memory
    BY <1>1 DEF inputs
  <2> QED BY <2>1 DEF get_throughput, StageFits
<1>4. CASE UNCHANGED <<dp, throughput_cache, top_pipelines, evaluated>>
  <2>1. CacheInv'
    BY <1>3, <1>4 DEF CacheInv
  <2> QED BY <1>1, <1>2, <1>4, <2>1
<1>5. CASE /\ check_cluster_availability(c[1].stages, c[2])
           /\ c[1].cost + Price[c[2]] <= budget
           /\ Evaluate(Append(c[1].stages, <<c[2], at[1] - at[2]>>), c[1].cost + Price[c[2]])
  <2> DEFINE s == c[1].stages
             t == c[2]
             layers == at[1] - at[2]
             a == Append(s, <<t, layers>>)
             cost == c[1].cost + Price[t]
             n == at[3] + 1
             key == get_cache_key(a)
             cached == recalculate_pipeline_throughput(a)
             p == [stages |-> a, cost |-> cost, throughput |-> cached[key]]
  <2>1. at \in Positions /\ Sound(pool, c[1], at[2], at[3]) /\ t \in InstanceTypes
    BY DEF TableInv
  <2>2. /\ at[1] \in 0 .. num_layers /\ at[2] \in 0 .. num_layers /\ at[3] \in 0 .. num_layers
        /\ n <= max_stages /\ layers \in 1 .. num_layers
    BY <2>1, PositionFacts
  <2>3. s \in Seq(Stage) /\ c[1].cost \in Nat /\ Len(s) = at[3] /\ cumulative_layers(s, at[3]) = at[2]
    BY <2>1 DEF Sound, Pipeline
  <2>4. a \in Seq(Stage) /\ Len(a) = n /\ cumulative_layers(a, n) = at[1]
    <3>1. /\ a \in Seq(Stage) /\ Len(a) = Len(s) + 1
          /\ cumulative_layers(a, Len(s) + 1) = cumulative_layers(s, Len(s)) + layers
      <4> HIDE DEF s, t, layers
      <4>1. s \in Seq(Stage) /\ t \in InstanceTypes /\ layers \in 1 .. num_layers
        BY <2>1, <2>2, <2>3
      <4> QED BY <4>1, OneMoreStage
    <3>2. at[2] + layers = at[1]
      BY <2>2
    <3> HIDE DEF a, s, layers
    <3> QED BY <2>3, <3>1, <3>2
  <2>5. n \in 1 .. max_stages /\ a \in [1 .. n -> Stage]
    <3>1. n \in 1 .. max_stages
      BY <2>2, Constants
    <3>2. a \in [1 .. Len(a) -> Stage]
      <4> HIDE DEF a
      <4> QED BY <2>4, LenProperties
    <3> HIDE DEF a
    <3> QED BY <2>4, <3>1, <3>2
  <2>6. /\ cached[key] \in Int /\ cached[key] \in {get_throughput(o) : o \in Orders(a)}
        /\ \A k \in DOMAIN cached :
             \E m \in 1 .. max_stages : \E o \in [1 .. m -> Stage] :
               k = get_cache_key(o) /\ cached[k] = get_throughput(o)
    <3> HIDE DEF a, n
    <3> QED BY <2>5, CacheGives
  <2>7. cost \in Nat /\ cost <= budget
    BY <1>5, <2>1, <2>3, Constants
  <2>8. \A u \in InstanceTypes : Counter(a)[u] <= pool[u]
    <3>1. \A u \in InstanceTypes : Counter(Append(s, <<t, 1>>))[u] <= pool[u]
      BY <1>5 DEF check_cluster_availability
    <3>2. Counter(a) = Counter(Append(s, <<t, 1>>))
      <4> HIDE DEF s, t, layers
      <4>1. s \in Seq(Stage) /\ t \in InstanceTypes /\ layers \in 1 .. num_layers
        BY <2>1, <2>2, <2>3
      <4> QED BY <4>1, CounterIgnoresLayers
    <3> HIDE DEF a, s, t
    <3> QED BY <3>1, <3>2
  <2>9. /\ throughput_cache' = cached
        /\ IF at[1] = num_layers
           THEN top_pipelines' = Push(p) /\ evaluated' = evaluated \union {p}
           ELSE UNCHANGED <<top_pipelines, evaluated>>
        /\ \E cell \in Insert(dp[at[1]][n], p) : dp' = [dp EXCEPT ![at[1]][n] = cell]
    BY <1>5, Zenon DEF Evaluate
  <2> HIDE DEF a, cached, key, cost
  <2>10. p.stages = a /\ p.cost = cost /\ p.throughput = cached[key]
    OBVIOUS
  <2>11. p \in Pipeline
    BY <2>4, <2>6, <2>7 DEF Pipeline
  <2> HIDE DEF p
  <2>12. Sound(pool, p, at[1], n)
    BY <2>2, <2>4, <2>7, <2>8, <2>10, <2>11 DEF Sound
  <2>13. Computed(p)
    BY <2>6, <2>10, Zenon DEF Computed
  <2>14. NewPipeline(p)
    BY <2>1, <2>9, <2>12, <2>13 DEF NewPipeline
  <2>15. CacheInv'
    BY <1>3, <2>6, <2>9 DEF CacheInv
  <2>16. todo' \subseteq todo
    BY <1>2
  <2> QED BY <1>1, <2>11, <2>14, <2>15, <2>16
<1> QED BY <1>2, <1>4, <1>5

\* A candidate leaves the table as it should be.
LEMMA CandidateKeepsTable ==
  ASSUME TableInv, CacheInv, Candidate, PlacementAssumption, RateAssumption
  PROVE  TableInv'
<1>1. pool' = pool /\ at' = at /\ todo' \subseteq todo
  BY CandidateOutcomes
<1>2. /\ dp \in [0 .. num_layers -> [0 .. num_layers -> SUBSET Pipeline]]
      /\ \A l, n \in 0 .. num_layers : CellOK(pool, dp[l][n], l, n)
  BY DEF TableInv
<1>3. /\ todo' # {} => at' \in Positions
      /\ \A c \in todo' : Sound(pool', c[1], (at')[2], (at')[3]) /\ c[2] \in InstanceTypes
  BY <1>1 DEF TableInv
<1>4. /\ dp' \in [0 .. num_layers -> [0 .. num_layers -> SUBSET Pipeline]]
      /\ \A l, n \in 0 .. num_layers : CellOK(pool, (dp')[l][n], l, n)
  <2>1. CASE dp' = dp
    BY <1>2, <2>1
  <2>2. ASSUME NEW p \in Pipeline, NewPipeline(p)
        PROVE  /\ dp' \in [0 .. num_layers -> [0 .. num_layers -> SUBSET Pipeline]]
               /\ \A l, n \in 0 .. num_layers : CellOK(pool, (dp')[l][n], l, n)
    <3> DEFINE a == at[1]
               b == at[3] + 1
    <3>1. a \in 0 .. num_layers /\ b \in 0 .. num_layers
      BY <2>2, PositionFacts DEF NewPipeline
    <3>2. PICK cell \in Insert(dp[a][b], p) : dp' = [dp EXCEPT ![a][b] = cell]
      BY <2>2 DEF NewPipeline
    <3>3. Sound(pool, p, a, b)
      BY <2>2 DEF NewPipeline
    <3> HIDE DEF a, b
    <3>4. CellOK(pool, dp[a][b], a, b)
      BY <1>2, <3>1
    <3>5. CellOK(pool, cell, a, b)
      BY <3>3, <3>4, InsertKeeps
    <3>6. cell \subseteq Pipeline
      BY <3>5 DEF CellOK, Sound
    <3>7. dp' \in [0 .. num_layers -> [0 .. num_layers -> SUBSET Pipeline]]
      BY <1>2, <3>1, <3>2, <3>6
    <3>8. ASSUME NEW l \in 0 .. num_layers, NEW n \in 0 .. num_layers
          PROVE  CellOK(pool, (dp')[l][n], l, n)
      <4>1. CASE l = a /\ n = b
        <5>1. (dp')[l][n] = cell
          BY <1>2, <3>1, <3>2, <4>1
        <5> QED BY <3>5, <4>1, <5>1
      <4>2. CASE ~ (l = a /\ n = b)
        <5>1. (dp')[l][n] = dp[l][n]
          BY <1>2, <3>1, <3>2, <4>2
        <5> QED BY <1>2, <5>1
      <4> QED BY <4>1, <4>2
    <3> QED BY <3>7, <3>8
  <2> QED BY <2>1, <2>2, CandidateOutcomes
<1> QED BY <1>1, <1>3, <1>4 DEF TableInv

\* Computed depends on the memory only.
LEMMA ComputedStays ==
  ASSUME memory' = memory
  PROVE  \A p : Computed(p)' <=> Computed(p)
<1>1. \A s : get_throughput(s)' = get_throughput(s)
  BY DEF get_throughput, StageFits
<1> QED BY <1>1, Zenon DEF Computed

\* A candidate leaves results that are whole, payable and computed.
LEMMA CandidateKeepsResults ==
  ASSUME TableInv, CacheInv, ResultsInv, Candidate, PlacementAssumption, RateAssumption
  PROVE  ResultsInv'
<1> DEFINE Good(p) == Sound(pool, p, num_layers, Len(p.stages)) /\ Computed(p)
<1>1. pool' = pool /\ memory' = memory
  BY CandidateOutcomes DEF inputs
<1>2. \A p : Computed(p)' <=> Computed(p)
  BY <1>1, ComputedStays
<1>3. /\ top_pipelines \in Seq(Pipeline) /\ evaluated \subseteq Pipeline
      /\ \A i \in DOMAIN top_pipelines : Good(top_pipelines[i])
  BY DEF ResultsInv
<1>4. SUFFICES /\ top_pipelines' \in Seq(Pipeline) /\ evaluated' \subseteq Pipeline
               /\ \A i \in DOMAIN top_pipelines' : Good((top_pipelines')[i])
  BY <1>1, <1>2 DEF ResultsInv
<1>5. CASE UNCHANGED <<top_pipelines, evaluated>>
  BY <1>3, <1>5
<1>6. ASSUME NEW p \in Pipeline, NewPipeline(p), at[1] = num_layers
      PROVE  /\ top_pipelines' \in Seq(Pipeline) /\ evaluated' \subseteq Pipeline
             /\ \A i \in DOMAIN top_pipelines' : Good((top_pipelines')[i])
  <2>1. Good(p) /\ top_pipelines' = Push(p) /\ evaluated' = evaluated \union {p}
    BY <1>6 DEF NewPipeline, Sound
  <2>2. /\ Push(p) \in Seq(Pipeline)
        /\ Elements(Push(p)) \subseteq Elements(top_pipelines) \union {p}
    <3>1. Push(p) \in Seq(Pipeline)
      BY <1>3, PushOutcomes
    <3>2. \A i : {top_pipelines[j] : j \in DOMAIN top_pipelines \ {i}} \subseteq Elements(top_pipelines)
      BY DEF Elements
    <3>3. \/ Elements(Push(p)) = Elements(top_pipelines) \union {p}
          \/ \E i \in DOMAIN top_pipelines :
               \/ Elements(Push(p)) = {top_pipelines[j] : j \in DOMAIN top_pipelines \ {i}} \union {p}
               \/ Push(p) = top_pipelines
      BY <1>3, PushOutcomes
    <3> QED BY <3>1, <3>2, <3>3
  <2> HIDE DEF Good
  <2>3. \A q \in Elements(top_pipelines) : Good(q)
    BY <1>3 DEF Elements
  <2>4. \A i \in DOMAIN top_pipelines' : (top_pipelines')[i] \in Elements(Push(p))
    BY <2>1 DEF Elements
  <2> QED BY <1>3, <2>1, <2>2, <2>3, <2>4
<1>7. ASSUME NEW p \in Pipeline, NewPipeline(p), at[1] # num_layers
      PROVE  UNCHANGED <<top_pipelines, evaluated>>
  BY <1>7 DEF NewPipeline
<1> HIDE DEF Good
<1> QED BY <1>5, <1>6, <1>7, CandidateOutcomes

\* A candidate leaves the results the best ones.
LEMMA CandidateKeepsBest ==
  ASSUME TableInv, CacheInv, ResultsInv, TopIsBest, Candidate, PlacementAssumption, RateAssumption
  PROVE  TopIsBest'
<1> DEFINE t == top_pipelines
<1>1. optimization_mode' = optimization_mode
  BY CandidateOutcomes
<1>2. \A p, q : Better(p, q)' <=> Better(p, q)
  BY <1>1 DEF Better, Num, Den
<1>3. /\ t \in Seq(Pipeline) /\ evaluated \subseteq Pipeline
      /\ Len(t) \in Nat /\ DOMAIN t = 1 .. Len(t) /\ \A i \in DOMAIN t : t[i] \in Pipeline
      /\ TopN \in Nat
  BY LenProperties, ElementOfSeq, Constants DEF ResultsInv
<1>4. /\ Len(t) <= TopN
      /\ \A e \in evaluated \ Elements(t) : Len(t) = TopN /\ \A q \in Elements(t) : ~ Better(e, q)
  BY DEF TopIsBest, Elements
<1>5. SUFFICES /\ Len(t') <= TopN
               /\ \A e \in evaluated' \ Elements(t') :
                    Len(t') = TopN /\ \A q \in Elements(t') : ~ Better(e, q)
  BY <1>2 DEF TopIsBest, Elements
<1>6. CASE UNCHANGED <<top_pipelines, evaluated>>
  BY <1>4, <1>6
<1>7. ASSUME NEW p \in Pipeline, NewPipeline(p), at[1] = num_layers
      PROVE  /\ Len(t') <= TopN
             /\ \A e \in evaluated' \ Elements(t') :
                  Len(t') = TopN /\ \A q \in Elements(t') : ~ Better(e, q)
  <2>1. t' = Push(p) /\ evaluated' = evaluated \union {p}
    BY <1>7 DEF NewPipeline
  <2>2. CASE Len(t) < TopN /\ Len(t') = Len(t) + 1 /\ Elements(t') = Elements(t) \union {p}
    BY <1>3, <1>4, <2>1, <2>2
  <2>3. ASSUME Len(t) >= TopN, NEW out \in DOMAIN t, \A j \in DOMAIN t : ~ Better(t[out], t[j]),
               Better(p, t[out]), Len(t') = Len(t),
               Elements(t') = {t[i] : i \in DOMAIN t \ {out}} \union {p}
        PROVE  /\ Len(t') <= TopN
               /\ \A e \in evaluated' \ Elements(t') :
                    Len(t') = TopN /\ \A q \in Elements(t') : ~ Better(e, q)
    <3>1. Len(t') = TopN
      <4>1. Len(t) \in Nat /\ TopN \in Nat /\ Len(t) <= TopN /\ Len(t) >= TopN
        BY <1>3, <1>4, <2>3
      <4>2. Len(t) = TopN
        BY ONLY <4>1
      <4> QED BY <2>3, <4>2
    <3>2. \A q \in Elements(t') : q \in Elements(t) \/ q = p
      BY <2>3 DEF Elements
    <3>3. \A e \in Elements(t) : e \in Elements(t') \/ e = t[out]
      BY <2>3 DEF Elements
    <3>4. \A e \in Elements(t) : e \in Pipeline /\ ~ Better(t[out], e)
      BY <1>3, <2>3 DEF Elements
    <3>5. t[out] \in Elements(t) /\ t[out] \in Pipeline
      BY <1>3 DEF Elements
    <3>6. p \in Elements(t')
      BY <2>3
    <3>7. ASSUME NEW e \in evaluated' \ Elements(t'), NEW q \in Elements(t')
          PROVE  ~ Better(e, q)
      <4>1. e \in evaluated /\ e \in Pipeline
        BY <1>3, <2>1, <3>6
      <4>2. CASE e = t[out]
        <5>1. CASE q \in Elements(t)
          BY <3>4, <4>2, <5>1
        <5>2. CASE q = p
          BY <2>3, <3>5, <4>2, <5>2, ScoresAreOrdered
        <5> QED BY <3>2, <5>1, <5>2
      <4>3. CASE e # t[out]
        <5>1. e \notin Elements(t)
          BY <3>3, <4>3
        <5>2. \A r \in Elements(t) : ~ Better(e, r)
          BY <1>4, <4>1, <5>1
        <5>3. CASE q \in Elements(t)
          BY <5>2, <5>3
        <5>4. CASE q = p
          <6>1. ~ Better(e, t[out])
            BY <3>5, <5>2
          <6> QED BY <2>3, <3>5, <4>1, <5>4, <6>1, BetterIsTransitive
        <5> QED BY <3>2, <5>3, <5>4
      <4> QED BY <4>2, <4>3
    <3> QED BY <1>3, <3>1, <3>7
  <2>4. ASSUME Len(t) >= TopN, NEW out \in DOMAIN t, \A j \in DOMAIN t : ~ Better(t[out], t[j]),
               ~ Better(p, t[out]), t' = t
        PROVE  /\ Len(t') <= TopN
               /\ \A e \in evaluated' \ Elements(t') :
                    Len(t') = TopN /\ \A q \in Elements(t') : ~ Better(e, q)
    <3>1. Len(t') = TopN
      <4>1. Len(t) \in Nat /\ TopN \in Nat /\ Len(t) <= TopN /\ Len(t) >= TopN
        BY <1>3, <1>4, <2>4
      <4>2. Len(t) = TopN
        BY ONLY <4>1
      <4> QED BY <2>4, <4>2
    <3>2. \A e \in Elements(t) : e \in Pipeline /\ ~ Better(t[out], e)
      BY <1>3, <2>4 DEF Elements
    <3>3. t[out] \in Pipeline
      BY <1>3
    <3>4. ASSUME NEW e \in evaluated' \ Elements(t'), NEW q \in Elements(t')
          PROVE  ~ Better(e, q)
      <4>1. CASE e \in evaluated
        BY <1>4, <2>4, <4>1
      <4>2. CASE e = p
        <5>1. q \in Pipeline /\ ~ Better(t[out], q)
          BY <2>4, <3>2
        <5> QED BY <2>4, <3>3, <4>2, <5>1, ScoresAreOrdered
      <4> QED BY <2>1, <4>1, <4>2
    <3> QED BY <1>3, <3>1, <3>4
  <2> QED BY <1>3, <2>1, <2>2, <2>3, <2>4, PushOutcomes
<1>8. ASSUME NEW p \in Pipeline, NewPipeline(p), at[1] # num_layers
      PROVE  UNCHANGED <<top_pipelines, evaluated>>
  BY <1>8 DEF NewPipeline
<1> HIDE DEF t
<1> QED BY <1>6, <1>7, <1>8, CandidateOutcomes

-----------------------------------------------------------------------------
(* The nodes.                                                              *)

LEMMA PipelineNodes ==
  ASSUME NEW p \in Pipeline, NEW t \in InstanceTypes
  PROVE  Counter(p.stages)[t] \in Nat
<1>1. p.stages \in Seq(Stage)
  BY DEF Pipeline
<1> QED BY <1>1, CounterType

\* One more pipeline.
LEMMA UsedByOneMore ==
  ASSUME all_pipelines \in Seq(Pipeline), NEW p \in Pipeline, NEW t \in InstanceTypes,
         all_pipelines' = Append(all_pipelines, p)
  PROVE  UsedNodes(t) \in Nat /\ UsedNodes(t)' = UsedNodes(t) + Counter(p.stages)[t]
<1> DEFINE a == all_pipelines
           b == Append(all_pipelines, p)
           n == Len(a)
           f == [k \in DOMAIN a |-> Counter(a[k].stages)[t]]
           h == [k \in DOMAIN b |-> Counter(b[k].stages)[t]]
<1>1. n \in Nat /\ DOMAIN a = 1 .. n /\ \A k \in 1 .. n : a[k] \in Pipeline
  BY LenProperties, ElementOfSeq
<1>2. b \in Seq(Pipeline) /\ Len(b) = n + 1 /\ b[n + 1] = p /\ \A k \in 1 .. n : b[k] = a[k]
  BY AppendProperties
<1>3. DOMAIN b = 1 .. n + 1
  BY <1>2, LenProperties
<1>4. UsedNodes(t) = Total(f, n) /\ UsedNodes(t)' = Total(h, n + 1)
  <2>1. UsedNodes(t) = Total(f, n)
    BY DEF UsedNodes
  <2>2. UsedNodes(t)' = Total(h, Len(b))
    BY DEF UsedNodes
  <2> QED BY <1>2, <2>1, <2>2
<1> HIDE DEF a, b, n
<1>5. \A k \in 1 .. n : f[k] \in Nat /\ h[k] = f[k]
  <2> TAKE k \in 1 .. n
  <2>1. k \in DOMAIN a /\ k \in DOMAIN b /\ a[k] \in Pipeline /\ b[k] = a[k]
    BY <1>1, <1>2, <1>3
  <2>2. Counter(a[k].stages)[t] \in Nat
    BY <2>1, PipelineNodes
  <2> QED BY <2>1, <2>2
<1>6. h[n + 1] = Counter(p.stages)[t] /\ h[n + 1] \in Nat
  <2>1. n + 1 \in DOMAIN b
    BY <1>1, <1>3
  <2>2. h[n + 1] = Counter(p.stages)[t]
    BY <1>2, <2>1
  <2> QED BY <2>2, PipelineNodes
<1> HIDE DEF f, h
<1>7. Total(f, n) \in Nat /\ Total(h, n + 1) = Total(f, n) + h[n + 1]
  BY <1>1, <1>5, <1>6, TotalStep
<1> QED BY <1>4, <1>6, <1>7

\* The last pipeline replaced.
LEMMA UsedByAnother ==
  ASSUME all_pipelines \in Seq(Pipeline), all_pipelines # <<>>,
         NEW p \in Pipeline, NEW t \in InstanceTypes,
         all_pipelines' = [all_pipelines EXCEPT ![Len(all_pipelines)] = p]
  PROVE  /\ UsedNodes(t) \in Nat /\ UsedNodes(t)' \in Nat
         /\ UsedNodes(t)' + Counter(Last.stages)[t] = UsedNodes(t) + Counter(p.stages)[t]
<1> DEFINE a == all_pipelines
           m == Len(a) - 1
           b == [a EXCEPT ![Len(a)] = p]
           f == [k \in DOMAIN a |-> Counter(a[k].stages)[t]]
           h == [k \in DOMAIN b |-> Counter(b[k].stages)[t]]
<1>1. /\ Len(a) \in Nat /\ DOMAIN a = 1 .. Len(a) /\ \A k \in 1 .. Len(a) : a[k] \in Pipeline
      /\ Len(a) # 0
  BY LenProperties, ElementOfSeq, EmptySeq
<1>2. m \in Nat /\ Len(a) = m + 1
  BY <1>1
<1>3. DOMAIN b = 1 .. m + 1 /\ DOMAIN a = 1 .. m + 1
  BY <1>1, <1>2
<1>4. b[m + 1] = p /\ (\A k \in 1 .. m : b[k] = a[k]) /\ Last = a[m + 1]
  <2>1. m + 1 \in 1 .. m + 1 /\ \A k \in 1 .. m : k \in 1 .. m + 1 /\ k # m + 1
    <3> HIDE DEF m
    <3> QED BY ONLY <1>2
  <2>2. b = [a EXCEPT ![m + 1] = p] /\ Last = a[m + 1]
    BY <1>2 DEF Last
  <2> HIDE DEF a, b, m
  <2> QED BY <1>3, <2>1, <2>2
<1>5. b \in Seq(Pipeline) /\ Len(b) = m + 1
  <2>1. b \in Seq(Pipeline) /\ Len(b) = Len(a)
    <3>1. Len(a) \in 1 .. Len(a)
      BY <1>1
    <3> QED BY <3>1, ExceptSeq
  <2> QED BY <1>2, <2>1
<1>6. UsedNodes(t) = Total(f, m + 1) /\ UsedNodes(t)' = Total(h, m + 1)
  <2>1. UsedNodes(t) = Total(f, Len(a))
    BY DEF UsedNodes
  <2>2. UsedNodes(t)' = Total(h, Len(b))
    BY DEF UsedNodes
  <2> QED BY <1>2, <1>5, <2>1, <2>2
<1> DEFINE n == m + 1
<1>7. n = m + 1 /\ n \in 1 .. n
  BY ONLY <1>2
<1>8. \A k \in 1 .. m : k \in 1 .. n
  BY ONLY <1>2
<1> HIDE DEF a, b, m, n
<1>9. \A k \in 1 .. n : a[k] \in Pipeline
  BY <1>1, <1>2, <1>7
<1>10. \A k \in 1 .. m : f[k] \in Nat /\ h[k] = f[k]
  <2> TAKE k \in 1 .. m
  <2>1. k \in DOMAIN a /\ k \in DOMAIN b /\ a[k] \in Pipeline /\ b[k] = a[k]
    BY <1>3, <1>4, <1>7, <1>8, <1>9
  <2>2. Counter(a[k].stages)[t] \in Nat
    BY <2>1, PipelineNodes
  <2> QED BY <2>1, <2>2
<1>11. /\ f[m + 1] = Counter(Last.stages)[t] /\ f[m + 1] \in Nat
       /\ h[m + 1] = Counter(p.stages)[t] /\ h[m + 1] \in Nat
  <2>1. m + 1 \in DOMAIN a /\ m + 1 \in DOMAIN b /\ a[m + 1] \in Pipeline
    BY <1>3, <1>7, <1>9
  <2>2. f[m + 1] = Counter(Last.stages)[t] /\ h[m + 1] = Counter(p.stages)[t]
    BY <1>4, <2>1
  <2>3. Counter(Last.stages)[t] \in Nat /\ Counter(p.stages)[t] \in Nat
    BY <1>4, <2>1, PipelineNodes
  <2> QED BY <2>2, <2>3
<1> HIDE DEF f, h
<1>12. /\ Total(f, m) \in Nat
       /\ Total(f, m + 1) = Total(f, m) + f[m + 1]
       /\ Total(h, m + 1) = Total(f, m) + h[m + 1]
  BY <1>2, <1>10, <1>11, TotalStep
<1> QED BY <1>6, <1>11, <1>12

-----------------------------------------------------------------------------
(* Steps.                                                                  *)

\* What a search has found stays as it is.
LEMMA SearchStays ==
  ASSUME TableInv, ResultsInv, CacheInv, TopIsBest, UNCHANGED search, memory' = memory
  PROVE  TableInv' /\ ResultsInv' /\ CacheInv' /\ TopIsBest'
<1>1. /\ optimization_mode' = optimization_mode /\ pool' = pool /\ dp' = dp
      /\ throughput_cache' = throughput_cache /\ top_pipelines' = top_pipelines
      /\ at' = at /\ todo' = todo /\ evaluated' = evaluated
  BY DEF search
<1>2. TableInv'
  BY <1>1 DEF TableInv
<1>3. ResultsInv'
  <2>1. \A p : Computed(p)' <=> Computed(p)
    BY ComputedStays
  <2> QED BY <1>1, <2>1 DEF ResultsInv
<1>4. CacheInv'
  <2>1. \A s : get_throughput(s)' = get_throughput(s)
    BY DEF get_throughput, StageFits
  <2> QED BY <1>1, <2>1 DEF CacheInv
<1>5. TopIsBest'
  BY <1>1 DEF TopIsBest, Better, Num, Den
<1> QED BY <1>2, <1>3, <1>4, <1>5

\* So does what the driver has.
LEMMA DriverStays ==
  ASSUME DriverInv, NodesConserved,
         UNCHANGED <<inputs, outcome, phase, optimization_mode, pool>>
  PROVE  DriverInv' /\ NodesConserved'
<1>1. /\ available_nodes' = available_nodes /\ memory' = memory
      /\ remaining_nodes' = remaining_nodes /\ all_pipelines' = all_pipelines
      /\ phase' = phase /\ optimization_mode' = optimization_mode /\ pool' = pool
  BY DEF inputs, outcome
<1>2. \A p : Computed(p)' <=> Computed(p)
  BY <1>1, ComputedStays
<1>3. DriverInv'
  BY <1>1, <1>2 DEF DriverInv, Last
<1>4. NodesConserved'
  BY <1>1 DEF NodesConserved, UsedNodes
<1> QED BY <1>3, <1>4

LEMMA NextCellStep ==
  ASSUME PlacementInv, NextCell, PlacementAssumption
  PROVE  PlacementInv'
<1>1. /\ UNCHANGED <<inputs, outcome, phase, optimization_mode, pool, dp, throughput_cache,
                     top_pipelines, evaluated>>
      /\ memory' = memory
  BY DEF NextCell, inputs
<1>2. TableInv /\ ResultsInv /\ CacheInv /\ TopIsBest /\ DriverInv /\ NodesConserved
  BY DEF PlacementInv
<1>3. TableInv'
  BY <1>2, NextCellKeeps
<1>4. ResultsInv' /\ CacheInv' /\ TopIsBest'
  <2>1. (\A p : Computed(p)' <=> Computed(p)) /\ \A s : get_throughput(s)' = get_throughput(s)
    BY <1>1, ComputedStays DEF get_throughput, StageFits
  <2>2. ResultsInv'
    BY <1>1, <1>2, <2>1 DEF ResultsInv
  <2>3. CacheInv'
    BY <1>1, <1>2, <2>1 DEF CacheInv
  <2>4. TopIsBest'
    BY <1>1, <1>2 DEF TopIsBest, Better, Num, Den
  <2> QED BY <2>2, <2>3, <2>4
<1>5. DriverInv' /\ NodesConserved'
  BY <1>1, <1>2, DriverStays
<1> QED BY <1>3, <1>4, <1>5 DEF PlacementInv

LEMMA CandidateStep ==
  ASSUME PlacementInv, Candidate, PlacementAssumption, RateAssumption
  PROVE  PlacementInv'
<1>1. TableInv /\ ResultsInv /\ CacheInv /\ TopIsBest /\ DriverInv /\ NodesConserved
  BY DEF PlacementInv
<1>2. TableInv' /\ ResultsInv' /\ CacheInv' /\ TopIsBest'
  BY <1>1, CandidateKeepsTable, CandidateKeepsResults, CandidateKeepsBest, CandidateOutcomes
<1>3. DriverInv' /\ NodesConserved'
  <2>1. UNCHANGED <<inputs, outcome, phase, optimization_mode, pool>>
    BY <1>1, CandidateOutcomes
  <2> QED BY <1>1, <2>1, DriverStays
<1> QED BY <1>2, <1>3 DEF PlacementInv

\* A result the driver may take.
LEMMA FirstResult ==
  ASSUME ResultsInv, NEW best \in FirstResults
  PROVE  /\ best \in Pipeline /\ Computed(best)
         /\ cumulative_layers(best.stages, Len(best.stages)) = num_layers
         /\ \A t \in InstanceTypes : Counter(best.stages)[t] <= pool[t]
<1>1. best \in {top_pipelines[i] : i \in DOMAIN top_pipelines}
  BY Zenon DEF FirstResults, Best
<1>2. PICK i \in DOMAIN top_pipelines : best = top_pipelines[i]
  BY <1>1
<1> QED BY <1>2 DEF ResultsInv, Sound

\* The chosen pipelines are whole and computed.
AllChosen(a) ==
  \A i \in DOMAIN a : cumulative_layers(a[i].stages, Len(a[i].stages)) = num_layers /\ Computed(a[i])

LEMMA SelectStep ==
  ASSUME PlacementInv, Select, PlacementAssumption
  PROVE  PlacementInv'
<1>1. TableInv /\ ResultsInv /\ CacheInv /\ TopIsBest /\ DriverInv /\ NodesConserved
  BY DEF PlacementInv
<1>2. available_nodes' = available_nodes /\ memory' = memory /\ phase = "search"
  BY DEF Select, inputs
<1> DEFINE Left(p) == [t \in InstanceTypes |-> remaining_nodes[t] - Counter(p.stages)[t]]
<1>3. PICK best \in FirstResults :
        /\ all_pipelines' = Append(all_pipelines, best)
        /\ remaining_nodes' = Left(best)
        /\ \/ phase' = "done" /\ UNCHANGED search
           \/ phase' = "search" /\ BeginSearch(Left(best), "soft_slo")
  BY Zenon DEF Select
<1>4. /\ best \in Pipeline /\ Computed(best)
      /\ cumulative_layers(best.stages, Len(best.stages)) = num_layers
      /\ \A t \in InstanceTypes : Counter(best.stages)[t] <= pool[t]
  BY <1>1, FirstResult
<1>5. /\ remaining_nodes \in [InstanceTypes -> Nat] /\ pool = remaining_nodes
      /\ optimization_mode = "soft_slo" /\ all_pipelines \in Seq(Pipeline) /\ available_nodes \in Pools
      /\ pool \in [InstanceTypes -> Nat]
  BY <1>1, <1>2 DEF DriverInv
<1> DEFINE left == Left(best)
<1>6. left \in [InstanceTypes -> Nat] /\ \A t \in InstanceTypes :
        left[t] = remaining_nodes[t] - Counter(best.stages)[t]
  <2>1. ASSUME NEW t \in InstanceTypes PROVE remaining_nodes[t] - Counter(best.stages)[t] \in Nat
    <3>1. Counter(best.stages)[t] \in Nat /\ remaining_nodes[t] \in Nat
          /\ Counter(best.stages)[t] <= remaining_nodes[t]
      BY <1>4, <1>5, PipelineNodes
    <3> QED BY <3>1
  <2> QED BY <2>1
<1> HIDE DEF left, Left
<1>7. /\ TableInv' /\ ResultsInv' /\ CacheInv' /\ TopIsBest'
      /\ optimization_mode' = "soft_slo" /\ pool' \in [InstanceTypes -> Nat]
      /\ phase' = "done" \/ (phase' = "search" /\ pool' = remaining_nodes')
  <2>1. CASE phase' = "done" /\ UNCHANGED search
    BY <1>1, <1>2, <1>5, <2>1, SearchStays DEF search
  <2>2. CASE phase' = "search" /\ BeginSearch(Left(best), "soft_slo")
    <3>1. BeginSearch(left, "soft_slo") /\ remaining_nodes' = left
      BY <1>3, <2>2 DEF left
    <3> QED BY <1>6, <2>2, <3>1, SearchBegins
  <2> QED BY <1>3, <2>1, <2>2
<1>8. all_pipelines' \in Seq(Pipeline) /\ AllChosen(all_pipelines)'
  <2> DEFINE a == all_pipelines
             b == Append(all_pipelines, best)
  <2>1. AllChosen(a)
    BY <1>1 DEF DriverInv, AllChosen
  <2>2. /\ b \in Seq(Pipeline) /\ DOMAIN b = 1 .. Len(a) + 1 /\ DOMAIN a = 1 .. Len(a) /\ Len(a) \in Nat
        /\ b[Len(a) + 1] = best /\ \A i \in 1 .. Len(a) : b[i] = a[i]
    <3>1. /\ b \in Seq(Pipeline) /\ Len(b) = Len(a) + 1
          /\ b[Len(a) + 1] = best /\ \A i \in 1 .. Len(a) : b[i] = a[i]
      BY <1>4, <1>5, AppendProperties
    <3>2. DOMAIN b = 1 .. Len(b)
      <4> HIDE DEF b
      <4> QED BY <3>1, LenProperties
    <3>3. DOMAIN a = 1 .. Len(a) /\ Len(a) \in Nat
      BY <1>5, LenProperties
    <3> QED BY <3>1, <3>2, <3>3
  <2>3. \A i \in 1 .. Len(a) + 1 : i \in 1 .. Len(a) \/ i = Len(a) + 1
    BY <2>2
  <2> HIDE DEF a, b
  <2>4. AllChosen(b)
    BY <1>4, <2>1, <2>2, <2>3 DEF AllChosen
  <2>5. \A p : Computed(p)' <=> Computed(p)
    BY <1>2, ComputedStays
  <2>6. all_pipelines' = b
    BY <1>3 DEF b
  <2> QED BY <2>2, <2>4, <2>5, <2>6 DEF AllChosen
<1>9. DriverInv'
  <2>1. /\ (available_nodes \in Pools)' /\ remaining_nodes' \in [InstanceTypes -> Nat]
        /\ phase' \in {"search", "merge", "done"} /\ phase' # "merge"
    BY <1>2, <1>3, <1>5, <1>6, <1>7 DEF left
  <2>2. phase' = "search" => pool' = remaining_nodes' /\ optimization_mode' = "soft_slo"
    BY <1>7
  <2> QED BY <1>7, <1>8, <2>1, <2>2 DEF DriverInv, AllChosen
<1>10. NodesConserved'
  <2> SUFFICES ASSUME NEW t \in InstanceTypes
               PROVE  /\ (remaining_nodes')[t] >= 0
                      /\ UsedNodes(t)' + (remaining_nodes')[t] = available_nodes[t]
    <3>1. \A t \in InstanceTypes : available_nodes[t] \in Nat
      BY <1>5, Constants
    <3> QED BY <1>2, <3>1 DEF NodesConserved
  <2>1. UsedNodes(t) + remaining_nodes[t] = available_nodes[t]
    BY <1>1, <1>5 DEF NodesConserved
  <2>2. UsedNodes(t) \in Nat /\ UsedNodes(t)' = UsedNodes(t) + Counter(best.stages)[t]
    BY <1>3, <1>4, <1>5, UsedByOneMore
  <2>3. /\ (remaining_nodes')[t] = remaining_nodes[t] - Counter(best.stages)[t]
        /\ (remaining_nodes')[t] \in Nat /\ remaining_nodes[t] \in Nat
    BY <1>3, <1>5, <1>6 DEF left
  <2>4. Counter(best.stages)[t] \in Nat
    BY <1>4, PipelineNodes
  <2> QED BY <2>1, <2>2, <2>3, <2>4
<1> QED BY <1>7, <1>9, <1>10 DEF PlacementInv

LEMMA StartMergeStep ==
  ASSUME PlacementInv, StartMerge, PlacementAssumption
  PROVE  PlacementInv'
<1> DEFINE nodes == [t \in InstanceTypes |-> remaining_nodes[t] + Counter(Last.stages)[t]]
<1>1. TableInv /\ ResultsInv /\ CacheInv /\ TopIsBest /\ DriverInv /\ NodesConserved
  BY DEF PlacementInv
<1>2. /\ available_nodes' = available_nodes /\ memory' = memory
      /\ remaining_nodes' = remaining_nodes /\ all_pipelines' = all_pipelines
      /\ phase = "search" /\ phase' = "merge" /\ all_pipelines # <<>>
      /\ BeginSearch(nodes, "only_throughput")
  BY DEF StartMerge, Merges, inputs, outcome
<1>3. /\ remaining_nodes \in [InstanceTypes -> Nat] /\ all_pipelines \in Seq(Pipeline)
      /\ available_nodes \in Pools /\ optimization_mode = "soft_slo"
  BY <1>1, <1>2 DEF DriverInv
<1>4. Last \in Pipeline
  <2>1. Len(all_pipelines) \in 1 .. Len(all_pipelines)
    <3>1. Len(all_pipelines) \in Nat /\ Len(all_pipelines) # 0
      BY <1>2, <1>3, LenProperties, EmptySeq
    <3> QED BY <3>1
  <2> QED BY <1>3, <2>1, ElementOfSeq DEF Last
<1>5. nodes \in [InstanceTypes -> Nat]
  <2>1. ASSUME NEW t \in InstanceTypes PROVE remaining_nodes[t] + Counter(Last.stages)[t] \in Nat
    <3>1. remaining_nodes[t] \in Nat /\ Counter(Last.stages)[t] \in Nat
      BY <1>3, <1>4, PipelineNodes
    <3> QED BY <3>1
  <2> QED BY <2>1
<1>6. /\ TableInv' /\ ResultsInv' /\ CacheInv' /\ TopIsBest'
      /\ pool' = nodes /\ optimization_mode' = "only_throughput"
  <2> HIDE DEF nodes
  <2> QED BY <1>2, <1>5, SearchBegins
<1>7. Last' = Last
  BY <1>2 DEF Last
<1>8. DriverInv'
  <2>1. AllChosen(all_pipelines)'
    <3>1. \A p : Computed(p)' <=> Computed(p)
      BY <1>2, ComputedStays
    <3> QED BY <1>1, <1>2, <3>1 DEF AllChosen, DriverInv
  <2>2. pool' = [t \in InstanceTypes |-> (remaining_nodes')[t] + Counter((Last').stages)[t]]
    BY <1>2, <1>6, <1>7
  <2>3. (pool \in [InstanceTypes -> Nat])'
    BY <1>5, <1>6
  <2> HIDE DEF nodes
  <2> QED BY <1>2, <1>3, <1>6, <2>1, <2>2, <2>3 DEF DriverInv, AllChosen
<1>9. NodesConserved'
  <2>1. \A t \in InstanceTypes : UsedNodes(t)' = UsedNodes(t)
    BY <1>2 DEF UsedNodes
  <2> HIDE DEF nodes
  <2> QED BY <1>1, <1>2, <1>6, <2>1 DEF NodesConserved
<1> QED BY <1>6, <1>8, <1>9 DEF PlacementInv

LEMMA GiveUpStep ==
  ASSUME PlacementInv, GiveUp
  PROVE  PlacementInv'
<1>1. TableInv /\ ResultsInv /\ CacheInv /\ TopIsBest /\ DriverInv /\ NodesConserved
  BY DEF PlacementInv
<1>2. /\ available_nodes' = available_nodes /\ memory' = memory /\ phase' = "done"
      /\ remaining_nodes' = remaining_nodes /\ all_pipelines' = all_pipelines
      /\ UNCHANGED search /\ pool' = pool /\ optimization_mode' = optimization_mode
  BY DEF GiveUp, inputs, outcome, search
<1>3. TableInv' /\ ResultsInv' /\ CacheInv' /\ TopIsBest'
  BY <1>1, <1>2, SearchStays
<1>4. DriverInv'
  <2>1. \A p : Computed(p)' <=> Computed(p)
    BY <1>2, ComputedStays
  <2> QED BY <1>1, <1>2, <2>1 DEF DriverInv
<1>5. NodesConserved'
  BY <1>1, <1>2 DEF NodesConserved, UsedNodes
<1> QED BY <1>3, <1>4, <1>5 DEF PlacementInv

LEMMA MergeStep ==
  ASSUME PlacementInv, Merge, PlacementAssumption
  PROVE  PlacementInv'
<1>1. TableInv /\ ResultsInv /\ CacheInv /\ TopIsBest /\ DriverInv /\ NodesConserved
  BY DEF PlacementInv
<1>2. /\ available_nodes' = available_nodes /\ memory' = memory
      /\ phase = "merge" /\ phase' = "done" /\ UNCHANGED search
      /\ remaining_nodes' = [t \in InstanceTypes |-> 0]
      /\ pool' = pool /\ optimization_mode' = optimization_mode
  BY DEF Merge, inputs, search
<1>3. PICK best \in FirstResults :
        all_pipelines' = [all_pipelines EXCEPT ![Len(all_pipelines)] = best]
  BY DEF Merge
<1>4. /\ best \in Pipeline /\ Computed(best)
      /\ cumulative_layers(best.stages, Len(best.stages)) = num_layers
      /\ \A t \in InstanceTypes : Counter(best.stages)[t] <= pool[t]
  BY <1>1, FirstResult
<1>5. /\ remaining_nodes \in [InstanceTypes -> Nat] /\ all_pipelines \in Seq(Pipeline)
      /\ available_nodes \in Pools /\ all_pipelines # <<>> /\ optimization_mode = "only_throughput"
      /\ pool = [t \in InstanceTypes |-> remaining_nodes[t] + Counter(Last.stages)[t]]
      /\ pool \in [InstanceTypes -> Nat]
  BY <1>1, <1>2 DEF DriverInv
<1>6. TableInv' /\ ResultsInv' /\ CacheInv' /\ TopIsBest'
  BY <1>1, <1>2, SearchStays
<1>7. all_pipelines' \in Seq(Pipeline) /\ AllChosen(all_pipelines)'
  <2> DEFINE a == all_pipelines
             b == [a EXCEPT ![Len(a)] = best]
  <2>1. AllChosen(a)
    BY <1>1 DEF DriverInv, AllChosen
  <2>2. b \in Seq(Pipeline)
    <3>1. Len(a) \in 1 .. Len(a)
      <4>1. Len(a) \in Nat /\ Len(a) # 0
        BY <1>5, LenProperties, EmptySeq
      <4> QED BY <4>1
    <3> QED BY <1>4, <1>5, <3>1, ExceptSeq
  <2>3. DOMAIN b = DOMAIN a /\ \A i \in DOMAIN a : b[i] = a[i] \/ b[i] = best
    OBVIOUS
  <2> HIDE DEF a, b
  <2>4. AllChosen(b)
    BY <1>4, <2>1, <2>3 DEF AllChosen
  <2>5. \A p : Computed(p)' <=> Computed(p)
    BY <1>2, ComputedStays
  <2>6. all_pipelines' = b
    BY <1>3 DEF a, b
  <2> QED BY <2>2, <2>4, <2>5, <2>6 DEF AllChosen
<1>8. DriverInv'
  <2>1. (available_nodes \in Pools)' /\ (remaining_nodes \in [InstanceTypes -> Nat])'
        /\ (pool \in [InstanceTypes -> Nat])'
    BY <1>2, <1>5
  <2>2. phase' # "search" /\ phase' # "merge" /\ phase' \in {"search", "merge", "done"}
    BY <1>2
  <2> QED BY <1>7, <2>1, <2>2 DEF DriverInv, AllChosen
<1>9. NodesConserved'
  <2> SUFFICES ASSUME NEW t \in InstanceTypes
               PROVE  /\ (remaining_nodes')[t] >= 0
                      /\ UsedNodes(t)' + (remaining_nodes')[t] <= available_nodes[t]
    <3>1. optimization_mode' # "soft_slo"
      BY <1>2, <1>5
    <3> QED BY <1>2, <3>1 DEF NodesConserved
  <2>1. UsedNodes(t) + remaining_nodes[t] <= available_nodes[t]
    BY <1>1 DEF NodesConserved
  <2>2. /\ UsedNodes(t) \in Nat /\ UsedNodes(t)' \in Nat
        /\ UsedNodes(t)' + Counter(Last.stages)[t] = UsedNodes(t) + Counter(best.stages)[t]
    BY <1>3, <1>4, <1>5, UsedByAnother
  <2>3. Counter(best.stages)[t] <= remaining_nodes[t] + Counter(Last.stages)[t]
    BY <1>4, <1>5
  <2>4. /\ Counter(best.stages)[t] \in Nat /\ Counter(Last.stages)[t] \in Nat
        /\ remaining_nodes[t] \in Nat /\ available_nodes[t] \in Nat
    <3>1. Last \in Pipeline
      <4>1. Len(all_pipelines) \in Nat /\ Len(all_pipelines) # 0
        BY <1>5, LenProperties, EmptySeq
      <4>2. Len(all_pipelines) \in 1 .. Len(all_pipelines)
        BY <4>1
      <4> QED BY <1>5, <4>2, ElementOfSeq DEF Last
    <3> QED BY <1>4, <1>5, <3>1, PipelineNodes, Constants
  <2>5. (remaining_nodes')[t] = 0
    BY <1>2
  <2> QED BY <2>1, <2>2, <2>3, <2>4, <2>5
<1> QED BY <1>6, <1>8, <1>9 DEF PlacementInv

LEMMA PlacementInit ==
  ASSUME Init, PlacementAssumption
  PROVE  PlacementInv
<1>1. /\ available_nodes \in Pools /\ remaining_nodes = available_nodes /\ all_pipelines = <<>>
      /\ phase = "search" /\ optimization_mode = "soft_slo" /\ pool = available_nodes
      /\ dp = EmptyTable /\ throughput_cache = <<>> /\ top_pipelines = <<>>
      /\ todo = {} /\ evaluated = {}
  BY DEF Init
<1>2. available_nodes \in [InstanceTypes -> Nat]
  BY <1>1, Constants
<1>3. DOMAIN <<>> = {} /\ Len(<<>>) = 0 /\ <<>> \in Seq(Pipeline)
  <2>1. <<>> \in Seq(Pipeline) /\ Len(<<>>) = 0
    BY EmptySeq
  <2>2. DOMAIN <<>> = 1 .. 0
    BY <2>1, LenProperties
  <2> QED BY <2>1, <2>2
<1>4. TableInv
  BY <1>1, <1>2, EmptyTableOK DEF TableInv
<1>5. ResultsInv /\ CacheInv
  BY <1>1, <1>3 DEF ResultsInv, CacheInv
<1>6. TopIsBest
  <2>1. 0 <= TopN
    BY Constants
  <2> QED BY <1>1, <1>3, <2>1 DEF TopIsBest
<1>7. DriverInv
  BY <1>1, <1>2, <1>3 DEF DriverInv
<1>8. NodesConserved
  <2>1. ASSUME NEW t \in InstanceTypes PROVE UsedNodes(t) = 0
    <3> DEFINE f == [k \in DOMAIN <<>> |-> Counter(<<>>[k].stages)[t]]
    <3>1. UsedNodes(t) = Total(f, 0)
      BY <1>1, <1>3 DEF UsedNodes
    <3> HIDE DEF f
    <3>2. PICK g : SumOf(g, f, 0) /\ Total(f, 0) = g[0]
      <4>1. \A k \in 1 .. 0 : f[k] \in Nat
        OBVIOUS
      <4> QED BY <4>1, TotalIsSum
    <3> QED BY <3>1, <3>2 DEF SumOf
  <2> QED BY <1>1, <1>2, <2>1 DEF NodesConserved
<1> QED BY <1>4, <1>5, <1>6, <1>7, <1>8 DEF PlacementInv

LEMMA PlacementNext ==
  ASSUME PlacementInv, [Next]_vars, PlacementAssumption, RateAssumption
  PROVE  PlacementInv'
<1>1. CASE UNCHANGED vars
  <2>1. TableInv /\ ResultsInv /\ CacheInv /\ TopIsBest /\ DriverInv /\ NodesConserved
    BY DEF PlacementInv
  <2>2. UNCHANGED search /\ memory' = memory /\ UNCHANGED <<inputs, outcome, phase, optimization_mode, pool>>
    BY <1>1 DEF vars, search, inputs
  <2>3. DriverInv' /\ NodesConserved'
    BY <2>1, <2>2, DriverStays
  <2> QED BY <2>1, <2>2, <2>3, SearchStays DEF PlacementInv
<1> QED BY <1>1, NextCellStep, CandidateStep, SelectStep, StartMergeStep, GiveUpStep, MergeStep
        DEF Next

-----------------------------------------------------------------------------
(* Theorems.                                                               *)

\* The invariant of searches and driver.
THEOREM PlacementHolds == Spec => []PlacementInv
<1>1. Init => PlacementInv
  BY PlacementInit, PlacementAssumption
<1>2. PlacementInv /\ [Next]_vars => PlacementInv'
  BY PlacementNext, PlacementAssumption, RateAssumption
<1> QED BY <1>1, <1>2, PTL DEF Spec

\* Every cell of the table holds at most top_k pipelines of its layers and
\* stages, that the pool and the budget can pay for, of different instances:
\* the update of the table and check_cluster_availability.
THEOREM TableIsSound == Spec => []CellsSound
<1>1. PlacementInv => CellsSound
  <2> SUFFICES ASSUME PlacementInv, NEW l \in 0 .. num_layers, NEW n \in 0 .. num_layers
               PROVE  /\ Cardinality(dp[l][n]) <= top_k
                      /\ \A p \in dp[l][n] :
                           /\ cumulative_layers(p.stages, Len(p.stages)) = l
                           /\ Len(p.stages) = n /\ n <= max_stages
                           /\ p.cost <= budget
                           /\ \A t \in InstanceTypes : Counter(p.stages)[t] <= pool[t]
                      /\ \A p, q \in dp[l][n] : p # q => Counter(p.stages) # Counter(q.stages)
    BY DEF CellsSound
  <2>1. CellOK(pool, dp[l][n], l, n)
    BY DEF PlacementInv, TableInv
  <2> QED BY <2>1 DEF CellOK, Sound
<1> QED BY <1>1, PlacementHolds, PTL

\* The heap holds the best TopN of the whole pipelines a search evaluated,
\* whatever their order: heappush and heapreplace.
THEOREM ResultsAreBest == Spec => []TopIsBest
<1>1. PlacementInv => TopIsBest
  BY DEF PlacementInv
<1> QED BY <1>1, PlacementHolds, PTL

\* The drivers' rounds and their merge never use a node twice, and lose none
\* before a merge.
THEOREM NodesAreConserved == Spec => []NodesConserved
<1>1. PlacementInv => NodesConserved
  BY DEF PlacementInv
<1> QED BY <1>1, PlacementHolds, PTL

\* A chosen pipeline has all layers, and the throughput the cache gave it is
\* that of its stages in some order.
THEOREM ChosenIsDeployable == Spec => []Deployable
<1>1. PlacementInv => Deployable
  <2> SUFFICES ASSUME PlacementInv, NEW i \in DOMAIN all_pipelines
               PROVE  LET s == all_pipelines[i].stages IN
                      /\ cumulative_layers(s, Len(s)) = num_layers
                      /\ all_pipelines[i].throughput \in {get_throughput(o) : o \in Orders(s)}
    BY DEF Deployable
  <2>1. Computed(all_pipelines[i])
        /\ cumulative_layers(all_pipelines[i].stages, Len(all_pipelines[i].stages)) = num_layers
    BY DEF PlacementInv, DriverInv
  <2> QED BY <2>1, Zenon DEF Computed
<1> QED BY <1>1, PlacementHolds, PTL
=============================================================================
