----------------------------- MODULE Acceptance -----------------------------
(***************************************************************************)
(* What acceptance promises, without attempts, evidence or statuses.  A    *)
(* node is accepted or not; an acceptance is granted on the acceptances of *)
(* the node's inputs as they stand at that moment, under an id never used  *)
(* before, and its basis is written once.  Anything may be withdrawn, and  *)
(* inputs may be rewired, but only together with everything that rests on  *)
(* what was withdrawn.                                                     *)
(***************************************************************************)
EXTENDS Dag, Naturals

VARIABLES
    accepted,  \* accepted[n]: the id of n's standing acceptance, 0 for none
    inputs,    \* inputs[n]: the nodes n rests on
    basis      \* basis[r]: the inputs' acceptances when r was granted

avars == <<accepted, inputs, basis>>

AInit ==
    /\ accepted = [n \in Node |-> 0]
    /\ inputs \in [Node -> SUBSET Node]
    /\ Acyclic(inputs)
    /\ basis = [r \in 1..0 |-> [d \in {} |-> 0]]

Grant(n) ==
    /\ accepted[n] = 0
    /\ \A d \in inputs[n] : accepted[d] # 0
    /\ accepted' = [accepted EXCEPT ![n] = accepted'[n]]
    /\ accepted'[n] \notin DOMAIN basis \cup {0}
    /\ basis' = [r \in DOMAIN basis \cup {accepted'[n]} |->
                    IF r = accepted'[n] THEN [d \in inputs[n] |-> accepted[d]]
                                        ELSE basis[r]]
    /\ UNCHANGED inputs

Withdraw ==
    /\ accepted' \in [Node -> {0} \cup {accepted[n] : n \in Node}]
    /\ inputs' \in [Node -> SUBSET Node]
    /\ Acyclic(inputs')
    /\ \A n \in Node :
          /\ accepted'[n] \in {0, accepted[n]}
          /\ inputs'[n] # inputs[n] => accepted'[n] = 0
          /\ \A d \in inputs[n] : accepted'[d] = 0 => accepted'[n] = 0
    /\ UNCHANGED basis

ANext == Withdraw \/ \E n \in Node : Grant(n)

ASpec == AInit /\ [][ANext]_avars

\* Every standing acceptance rests on exactly the acceptances it was granted
\* on, all of them still standing.
Grounded ==
    \A n \in Node : accepted[n] # 0 =>
        /\ accepted[n] \in DOMAIN basis
        /\ basis[accepted[n]] = [d \in inputs[n] |-> accepted[d]]
        /\ \A d \in inputs[n] : accepted[d] # 0

=============================================================================
