-------------------------------- MODULE Dag --------------------------------
(***************************************************************************)
(* What _validate_dag (core/state_graph.py) accepts, as a predicate.       *)
(***************************************************************************)
CONSTANT Node

\* No nonempty set of nodes in which every member waits on another member.
Acyclic(g) ==
    \A S \in SUBSET Node : S # {} => \E n \in S : g[n] \cap S = {}

\* Every dependency exists, and there is no cycle.
ValidDag(present, g) ==
    /\ \A n \in present : g[n] \subseteq present
    /\ Acyclic(g)

=============================================================================
