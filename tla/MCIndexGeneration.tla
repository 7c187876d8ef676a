-------------------------- MODULE MCIndexGeneration --------------------------
(* Instances of IndexGeneration for TLC: identifiers are model values. *)
EXTENDS IndexGeneration, FiniteSets, TLC

CONSTANTS n1, n2, b1, b2

\* Every builder runs on a node of its own.
OwnNode == (b1 :> n1) @@ (b2 :> n2)

\* Generation ids are interchangeable, build ids too, and so are builders together
\* with their nodes.
NodeSymmetry ==
    Permutations(Gens)
      \union Permutations(Builds)
      \union {(b1 :> b2) @@ (b2 :> b1) @@ (n1 :> n2) @@ (n2 :> n1)}

\* Bound: one build is taken over, or one is given up.
Bounded ==
    Cardinality({g \in Gens : gens[g].token > 1})
      + Cardinality({g \in Gens : gens[g].status = "aborted"}) <= 1
=============================================================================
