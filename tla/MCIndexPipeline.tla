--------------------------- MODULE MCIndexPipeline ---------------------------
(* Instances of IndexPipeline for TLC: identifiers are model values. *)
EXTENDS IndexPipeline, TLC

CONSTANTS n1, n2

\* The workers are threads of one node, the producers run on another.
TwoNodes == [b \in Workers \union Producers |-> IF b \in Workers THEN n1 ELSE n2]

Symmetry == Permutations(Jobs) \union Permutations(Gens) \union Permutations(Workers)
=============================================================================
