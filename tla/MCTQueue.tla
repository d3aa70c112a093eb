----------------------------- MODULE MCTQueue ------------------------------
(***************************************************************************)
(* Instances of TQueue for TLC: producers p.., consumers c.., a closer x.  *)
(***************************************************************************)
EXTENDS TQueue, TLC

CONSTANTS p1, p2, c1, c2, x, m1, m2, m3, m4

MCProducers == {p1, p2}
MCConsumers == {c1, c2}
MCClosers   == {x}
MCThreads   == MCProducers \cup MCConsumers \cup MCClosers
MCNone == {}
MCItems3 == {m1, m2, m3}
MCItems4 == {m1, m2, m3, m4}

\* The threads of a role are interchangeable, and so are the items.
Symmetry == Permutations(MCProducers) \cup Permutations(MCConsumers)
              \cup Permutations(Items)
=============================================================================
