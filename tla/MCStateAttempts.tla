-------------------------- MODULE MCStateAttempts --------------------------
(***************************************************************************)
(* TLC instances of StateAttempts.                                         *)
(***************************************************************************)
EXTENDS StateAttempts, TLC

CONSTANTS c1, c2, n1, n2, n3

MCOneContract == {{c1}}
MCTwoContracts == {{c1}, {c1, c2}}
MCLegacyContract == {c1}

MCNoDepSet == {{}}
MCChainDeps == {{n1}, {n3}}

\* A project whose author has added n1 and n2, which depends on it, in one batch:
\* the state after AddNodes from the empty project.  A third node comes between
\* them when n3 is split off n2, or is added and n2 revised to depend on it.
ChainInit ==
    /\ status = [n \in Node |-> IF n = n3 THEN "ABSENT" ELSE "OPEN"]
    /\ revision = [n \in Node |-> IF n = n3 THEN 0 ELSE 1]
    /\ contract = [n \in Node |-> {c1}]
    /\ receipt = [n \in Node |-> 0]
    /\ deps = [n \in Node |-> IF n = n2 THEN {n1} ELSE {}]
    /\ attempts = [a \in AttemptId |-> NoRow] /\ attemptSeq = 0
    /\ evidence = [e \in EvidenceId |-> NoRow] /\ evidenceSeq = 0
    /\ acceptances = [r \in ReceiptId |-> NoRow] /\ issued = 0

ChainSpec == ChainInit /\ [][Next]_vars

=============================================================================
