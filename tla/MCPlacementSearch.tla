------------------------- MODULE MCPlacementSearch -------------------------
(* A small cluster of two instance types for PlacementSearch.              *)
EXTENDS PlacementSearch

CONSTANTS small, big

\* Up to four nodes, at most three of a type.
PoolsDef == {n \in [{small, big} -> 0 .. 3] : n[small] + n[big] <= 4}
MemoriesDef ==
  {[t \in {small, big} |-> IF t = small THEN m[1] ELSE m[2]] :
     m \in {<<2, 4>>, <<3, 3>>, <<3, 6>>, <<4, 3>>}}
PriceDef == [t \in {small, big} |-> IF t = small THEN 2 ELSE 5]

\* The slowest stage decides; a big instance is twice as fast, and the last
\* stage also computes the logits.
Time(s, i) ==
  (IF Instance(s[i]) = small THEN 2 ELSE 1)
    * (Layers(s[i]) + (IF cumulative_layers(s, i) = num_layers THEN 1 ELSE 0))
RateDef(s) ==
  LET slowest == CHOOSE m \in {Time(s, i) : i \in DOMAIN s} :
                   \A i \in DOMAIN s : Time(s, i) <= m
  IN  24 \div slowest + Len(s)
=============================================================================
