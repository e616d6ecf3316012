----------------------------- MODULE StateGraph -----------------------------
(***************************************************************************)
(* The durable goal graph of one State project (core/state_graph.py): the  *)
(* state_nodes and state_dependencies rows and every operation that writes *)
(* them structurally.  Each operation is one BEGIN IMMEDIATE transaction   *)
(* (StateGraphStore.transaction), so it is one atomic action; a refused    *)
(* operation rolls back and is a stuttering step.                          *)
(*                                                                         *)
(* The acceptance columns (status VERIFIED, verified_receipt) are written  *)
(* by module StateAttempts, which extends this one.                        *)
(***************************************************************************)
EXTENDS Dag, Naturals, FiniteSets

CONSTANTS
    Criterion,      \* acceptance criterion ids
    Contract,       \* acceptance contracts: nonempty sets of criterion ids
    LegacyContract, \* the contract import_tasks gives an imported task
    DepChoice,      \* dependency sets authors submit
    ImportStatus,   \* legacy statuses an import may carry
    MaxBatch,       \* bound on the nodes of one add_nodes transaction
    MaxRevision     \* bound on state_nodes.revision

ASSUME GraphAssumption ==
    /\ Contract \subseteq (SUBSET Criterion) \ {{}}
    /\ LegacyContract \in Contract
    /\ DepChoice \subseteq SUBSET Node
    /\ ImportStatus \subseteq {"OPEN", "CANDIDATE", "SUPERSEDED"}
    /\ MaxBatch \in Nat
    /\ MaxRevision \in Nat \ {0}

VARIABLES
    status,     \* state_nodes.status, "ABSENT" while the row does not exist
    revision,   \* state_nodes.revision, 0 while absent
    contract,   \* contract_json / contract_hash
    receipt,    \* verified_receipt, 0 for NULL
    deps        \* state_dependencies: deps[n] is what n depends on

graphVars == <<status, revision, contract, receipt, deps>>

NodeStatus == {"ABSENT", "OPEN", "CANDIDATE", "VERIFIED", "STALE", "SUPERSEDED"}

Present == {n \in Node : status[n] # "ABSENT"}

\* Sets that contain everything resting on one of their members.
ClosedUnderDependents(S) ==
    \A n \in Node : (deps[n] \cap S # {}) => n \in S

\* Mutant of Affected: the query without its recursive branch.
AffectedDirectly(n) == {n} \cup {m \in Node : n \in deps[m]}

\* The WITH RECURSIVE query of _invalidate: n and its transitive dependents.
Affected(n) ==
    {m \in Node : \A S \in SUBSET Node :
                      (n \in S /\ ClosedUnderDependents(S)) => m \in S}

\* _invalidate as the new values of the two columns it writes.
StaleStatus(n) ==
    [m \in Node |-> IF m \in Affected(n) /\ status[m] # "SUPERSEDED"
                    THEN "STALE" ELSE status[m]]

StaleReceipt(n) ==
    [m \in Node |-> IF m \in Affected(n) /\ status[m] # "SUPERSEDED"
                    THEN 0 ELSE receipt[m]]

\* Mutant of DependencySnapshot: verified_receipt is not selected.
SnapshotWithoutReceipt(n) ==
    [d \in deps[n] |-> [revision |-> revision[d], contract |-> contract[d],
                        status |-> status[d]]]

\* dependency_snapshot: what the node's dependencies look like right now.
DependencySnapshot(n) ==
    [d \in deps[n] |-> [revision |-> revision[d], contract |-> contract[d],
                        status |-> status[d], receipt |-> receipt[d]]]

DependenciesVerified(n) ==
    \A d \in deps[n] : status[d] = "VERIFIED" /\ receipt[d] # 0

-----------------------------------------------------------------------------
(* Structural operations *)

\* The graph after _add inserts the batch `new` with the dependencies `d`.
Extended(new, d) == [n \in Node |-> IF n \in new THEN d[n] ELSE deps[n]]

\* Mutant of AddGuard: dependencies must exist, cycles pass.
AddGuardAllowingCycles(new, d) ==
    /\ new # {}
    /\ new \cap Present = {}
    /\ \A n \in new : \A x \in d[n] : status[x] # "SUPERSEDED"
    /\ \A n \in new : d[n] \subseteq Present \cup new

\* The checks _add makes on a batch.  A forward reference inside the batch is
\* allowed; a dependency on an already superseded node is not.
AddGuard(new, d) ==
    /\ new # {}
    /\ new \cap Present = {}
    /\ \A n \in new : \A x \in d[n] : status[x] # "SUPERSEDED"
    /\ ValidDag(Present \cup new, Extended(new, d))

\* add_nodes
AddNodes(new, d, c) ==
    /\ AddGuard(new, d)
    /\ status' = [n \in Node |-> IF n \in new THEN "OPEN" ELSE status[n]]
    /\ revision' = [n \in Node |-> IF n \in new THEN 1 ELSE revision[n]]
    /\ contract' = [n \in Node |-> IF n \in new THEN c[n] ELSE contract[n]]
    /\ deps' = Extended(new, d)
    /\ UNCHANGED receipt

\* import_tasks: a legacy snapshot; completed tasks arrive as CANDIDATE and
\* superseded ones as SUPERSEDED, never as VERIFIED.
ImportTasks(new, d, st) ==
    /\ AddGuard(new, d)
    /\ \A n \in new : d[n] \subseteq new
    /\ status' = [n \in Node |-> IF n \in new THEN st[n] ELSE status[n]]
    /\ revision' = [n \in Node |-> IF n \in new THEN 1 ELSE revision[n]]
    /\ contract' = [n \in Node |-> IF n \in new THEN LegacyContract ELSE contract[n]]
    /\ deps' = Extended(new, d)
    /\ UNCHANGED receipt

\* revise_node under the caller's compare-and-swap on the revision it read: the
\* old edges decide what is invalidated, then the new edges replace them.
ReviseNode(n, c, d) ==
    /\ status[n] \notin {"ABSENT", "SUPERSEDED"}
    /\ revision[n] < MaxRevision
    /\ \A x \in d : status[x] # "SUPERSEDED"
    /\ ValidDag(Present, [deps EXCEPT ![n] = d])
    /\ status' = StaleStatus(n)
    /\ receipt' = StaleReceipt(n)
    /\ revision' = [revision EXCEPT ![n] = @ + 1]
    /\ contract' = [contract EXCEPT ![n] = c]
    /\ deps' = [deps EXCEPT ![n] = d]

\* split_node: add the children and make the parent depend on them, in one
\* transaction.  The parent keeps its contract.
SplitNode(n, new, d, c) ==
    LET d2 == [m \in new \cup {n} |-> IF m = n THEN deps[n] \cup new ELSE d[m]]
    IN  /\ status[n] \notin {"ABSENT", "SUPERSEDED"}
        /\ revision[n] < MaxRevision
        /\ AddGuard(new, d)
        /\ \A x \in deps[n] : status[x] # "SUPERSEDED"
        /\ ValidDag(Present \cup new, Extended(new \cup {n}, d2))
        /\ status' = [m \in Node |-> IF m \in new THEN "OPEN" ELSE StaleStatus(n)[m]]
        /\ receipt' = StaleReceipt(n)
        /\ revision' = [m \in Node |-> IF m \in new THEN 1
                                       ELSE IF m = n THEN revision[m] + 1
                                       ELSE revision[m]]
        /\ contract' = [m \in Node |-> IF m \in new THEN c[m] ELSE contract[m]]
        /\ deps' = Extended(new \cup {n}, d2)

\* supersede_node: terminal; the edges stay.
SupersedeNode(n) ==
    /\ status[n] \notin {"ABSENT", "SUPERSEDED"}
    /\ status' = [StaleStatus(n) EXCEPT ![n] = "SUPERSEDED"]
    /\ receipt' = StaleReceipt(n)
    /\ UNCHANGED <<revision, contract, deps>>

\* The batches an author may submit.
Batch == {new \in SUBSET Node : Cardinality(new) \in 1..MaxBatch}

GraphNext ==
    \/ \E new \in Batch :
          \E d \in [new -> DepChoice], c \in [new -> Contract] :
                AddNodes(new, d, c)
    \/ \E new \in Batch :
          \E d \in [new -> DepChoice], st \in [new -> ImportStatus] :
                ImportTasks(new, d, st)
    \/ \E n \in Node, c \in Contract :
          \E d \in DepChoice \cup {deps[n]} : ReviseNode(n, c, d)
    \/ \E n \in Node, new \in Batch :
          \E d \in [new -> DepChoice], c \in [new -> Contract] :
                SplitNode(n, new, d, c)
    \/ \E n \in Node : SupersedeNode(n)

GraphInit ==
    /\ status = [n \in Node |-> "ABSENT"]
    /\ revision = [n \in Node |-> 0]
    /\ contract = [n \in Node |-> LegacyContract]
    /\ receipt = [n \in Node |-> 0]
    /\ deps = [n \in Node |-> {}]

=============================================================================
