------------------------ MODULE StateAttemptsProofs ------------------------
(***************************************************************************)
(* Theorems about StateAttempts, for every set of nodes, contracts and     *)
(* artifacts and every bound, in four parts: type correctness; what a      *)
(* standing acceptance rests on, with the refinement of the abstract       *)
(* acceptance service; what the abstract service guarantees to whoever     *)
(* relies on it; and what an attempt's pins, an acceptance's candidate and *)
(* its evidence are worth later on.                                        *)
(***************************************************************************)
EXTENDS StateAttempts, Acceptance, TLAPS

-----------------------------------------------------------------------------
(* Facts about the operators *)

\* _invalidate writes statuses and receipts of the right kind.
LEMMA StaleTypes ==
    ASSUME GraphTypeOK, NEW n \in Node
    PROVE  /\ StaleStatus(n) \in [Node -> NodeStatus]
           /\ StaleReceipt(n) \in [Node -> 0..MaxReceipts]
  <1>1. 0 \in 0..MaxReceipts
    BY AttemptAssumption
  <1> QED
    BY <1>1 DEF GraphTypeOK, StaleStatus, StaleReceipt, NodeStatus

\* A snapshot of the dependencies is a row of the declared kind for each.
LEMMA SnapshotType ==
    ASSUME GraphTypeOK, NEW n \in Node
    PROVE  DependencySnapshot(n) \in Snapshot
  <1>1. deps[n] \in SUBSET Node
    BY DEF GraphTypeOK
  <1>2. DependencySnapshot(n) \in [deps[n] -> SnapshotRow]
    BY <1>1 DEF GraphTypeOK, DependencySnapshot, SnapshotRow
  <1> QED
    BY <1>1, <1>2 DEF Snapshot

-----------------------------------------------------------------------------
(* Types *)

\* Types hold of an empty State.
LEMMA TypeInit == Init => TypeOK
  <1> SUFFICES ASSUME Init PROVE TypeOK
    OBVIOUS
  <1>1. GraphTypeOK
    BY GraphAssumption, AttemptAssumption
       DEF Init, GraphInit, GraphTypeOK, NodeStatus
  <1>2. Made = {} /\ Rows = {} /\ Issued = {}
    BY DEF Init, Made, Rows, Issued
  <1> QED
    BY <1>1, <1>2, AttemptAssumption
       DEF Init, TypeOK, AttemptId, EvidenceId, ReceiptId

\* The graph operations keep the graph's types.
LEMMA GraphStepType ==
    ASSUME GraphTypeOK, GraphNext
    PROVE  GraphTypeOK'
  <1> USE GraphAssumption, AttemptAssumption
  <1>1. ASSUME NEW new \in Batch, NEW d \in [new -> DepChoice], NEW c \in [new -> Contract],
               AddNodes(new, d, c)
        PROVE  GraphTypeOK'
    BY <1>1 DEF AddNodes, GraphTypeOK, Extended, NodeStatus, Batch
  <1>2. ASSUME NEW new \in Batch, NEW d \in [new -> DepChoice], NEW st \in [new -> ImportStatus],
               ImportTasks(new, d, st)
        PROVE  GraphTypeOK'
    <2>1. new \in SUBSET Node /\ ImportStatus \subseteq NodeStatus
      BY DEF Batch, NodeStatus
    <2>2. status' \in [Node -> NodeStatus]
      BY <1>2, <2>1 DEF ImportTasks, GraphTypeOK
    <2>3. revision' \in [Node -> 0..MaxRevision] /\ contract' \in [Node -> Contract]
      BY <1>2, <2>1 DEF ImportTasks, GraphTypeOK
    <2>4. receipt' \in [Node -> 0..MaxReceipts] /\ deps' \in [Node -> SUBSET Node]
      BY <1>2, <2>1 DEF ImportTasks, GraphTypeOK, Extended
    <2> QED
      BY <2>2, <2>3, <2>4 DEF GraphTypeOK
  <1>3. ASSUME NEW n \in Node, NEW c \in Contract, NEW d \in DepChoice \cup {deps[n]},
               ReviseNode(n, c, d)
        PROVE  GraphTypeOK'
    <2>1. d \in SUBSET Node
      BY DEF GraphTypeOK
    <2> QED
      BY <1>3, <2>1, StaleTypes DEF ReviseNode, GraphTypeOK
  <1>4. ASSUME NEW n \in Node, NEW new \in Batch, NEW d \in [new -> DepChoice],
               NEW c \in [new -> Contract], SplitNode(n, new, d, c)
        PROVE  GraphTypeOK'
    <2>1. new \in SUBSET Node
      BY DEF Batch
    <2>2. status' \in [Node -> NodeStatus] /\ receipt' \in [Node -> 0..MaxReceipts]
      BY <1>4, <2>1, StaleTypes DEF SplitNode, NodeStatus
    <2>3. revision' \in [Node -> 0..MaxRevision]
      BY <1>4, <2>1 DEF SplitNode, GraphTypeOK
    <2>4. contract' \in [Node -> Contract]
      BY <1>4, <2>1 DEF SplitNode, GraphTypeOK
    <2>5. deps' \in [Node -> SUBSET Node]
      BY <1>4, <2>1 DEF SplitNode, GraphTypeOK, Extended
    <2> QED
      BY <2>2, <2>3, <2>4, <2>5 DEF GraphTypeOK
  <1>5. ASSUME NEW n \in Node, SupersedeNode(n)
        PROVE  GraphTypeOK'
    BY <1>5, StaleTypes DEF SupersedeNode, GraphTypeOK, NodeStatus
  <1> QED
    BY <1>1, <1>2, <1>3, <1>4, <1>5 DEF GraphNext

\* The State tables that GraphTypeOK does not cover.
TablesTypeOK ==
    /\ attemptSeq \in 0..MaxAttempts
    /\ evidenceSeq \in 0..MaxEvidence
    /\ issued \in 0..MaxReceipts
    /\ DOMAIN attempts = AttemptId
    /\ DOMAIN evidence = EvidenceId
    /\ DOMAIN acceptances = ReceiptId
    /\ \A a \in Made : attempts[a] \in AttemptRow
    /\ \A e \in Rows : evidence[e] \in EvidenceRow /\ evidence[e].attempt \in Made
    /\ \A r \in Issued : acceptances[r] \in AcceptanceRow

\* The made attempts are rows of the table.
LEMMA MadeAreRows ==
    ASSUME TypeOK, NEW a \in Made
    PROVE  a \in AttemptId /\ attempts[a] \in AttemptRow
  BY AttemptAssumption DEF TypeOK, Made, AttemptId

\* A step that only rewrites made attempts with well-typed rows keeps the
\* types of the tables.
LEMMA RowUpdateType ==
    ASSUME TypeOK, NEW a \in Made, NEW row \in AttemptRow,
           attempts' = [attempts EXCEPT ![a] = row],
           UNCHANGED <<attemptSeq, evidence, evidenceSeq, acceptances, issued>>
    PROVE  TablesTypeOK'
  <1>1. Made' = Made /\ Rows' = Rows /\ Issued' = Issued
    BY DEF Made, Rows, Issued
  <1>2. DOMAIN attempts' = AttemptId
    BY DEF TypeOK
  <1>3. \A b \in Made : attempts'[b] \in AttemptRow
    BY MadeAreRows DEF TypeOK
  <1> QED
    BY <1>1, <1>2, <1>3 DEF TypeOK, TablesTypeOK

\* The attempt's status column alone.
LEMMA SetAttemptType ==
    ASSUME TypeOK, NEW a \in Made, NEW st \in ACTIVE \cup TERMINAL, SetAttempt(a, st),
           UNCHANGED <<attemptSeq, evidence, evidenceSeq, acceptances, issued>>
    PROVE  TablesTypeOK'
  <1>1. attempts[a] \in AttemptRow /\ a \in AttemptId
    BY MadeAreRows
  <1>2. [attempts[a] EXCEPT !.status = st] \in AttemptRow
    BY <1>1 DEF AttemptRow
  <1>3. attempts' = [attempts EXCEPT ![a] = [attempts[a] EXCEPT !.status = st]]
    BY DEF SetAttempt
  <1> QED
    BY <1>2, <1>3, RowUpdateType

\* An invalidation, or none, keeps the graph's types.
LEMMA InvalidateType ==
    ASSUME GraphTypeOK, NEW n \in Node, NEW cond, InvalidateIf(cond, n),
           UNCHANGED <<revision, contract, deps>>
    PROVE  GraphTypeOK'
  BY StaleTypes DEF InvalidateIf, GraphTypeOK

\* A status column written at one node keeps the graph's types.
LEMMA StatusUpdateType ==
    ASSUME GraphTypeOK, NEW n \in Node, NEW st \in NodeStatus,
           status' = [status EXCEPT ![n] = st],
           UNCHANGED <<revision, contract, receipt, deps>>
    PROVE  GraphTypeOK'
  BY DEF GraphTypeOK

\* reserve keeps the types.
LEMMA ReserveType ==
    ASSUME TypeOK, NEW n \in Node, NEW kind \in Kinds, Reserve(n, kind)
    PROVE  TypeOK'
  <1> DEFINE row == [node |-> n, revision |-> revision[n], contract |-> contract[n],
                     snapshot |-> DependencySnapshot(n), kind |-> kind, bound |-> FALSE,
                     status |-> IF kind = "external" THEN "running" ELSE "reserved",
                     artifact |-> NoArtifact, reported |-> "none"]
  <1>1. GraphTypeOK'
    BY StatusUpdateType DEF TypeOK, Reserve, NodeStatus
  <1>2. row \in AttemptRow
    BY SnapshotType, AttemptAssumption
       DEF TypeOK, GraphTypeOK, AttemptRow, ACTIVE, TERMINAL
  <1>3. attemptSeq + 1 \in AttemptId /\ Made' = Made \cup {attemptSeq + 1}
    BY AttemptAssumption DEF TypeOK, Reserve, AttemptId, Made
  <1>4. attemptSeq + 1 \notin Made
    BY AttemptAssumption DEF TypeOK, Made
  <1>5. attempts' = [attempts EXCEPT ![attemptSeq + 1] = row]
    BY DEF Reserve
  <1> HIDE DEF row
  <1>6. \A a \in Made' : attempts'[a] \in AttemptRow
    BY <1>2, <1>3, <1>4, <1>5, MadeAreRows DEF TypeOK
  <1>7. attemptSeq' \in 0..MaxAttempts /\ DOMAIN attempts' = AttemptId
    BY <1>3, <1>5, AttemptAssumption DEF TypeOK, Reserve, AttemptId
  <1> QED
    BY <1>1, <1>3, <1>6, <1>7 DEF TypeOK, Reserve, Rows, Issued

\* bind_run keeps the types.
LEMMA BindRunType ==
    ASSUME TypeOK, NEW a \in Made, NEW paused \in BOOLEAN, BindRun(a, paused)
    PROVE  TypeOK'
  <1> DEFINE row == [attempts[a] EXCEPT !.bound = TRUE,
                                        !.status = IF paused THEN "paused" ELSE "running"]
  <1>1. row \in AttemptRow
    BY MadeAreRows DEF AttemptRow, ACTIVE
  <1>2. attempts' = [attempts EXCEPT ![a] = row]
    BY MadeAreRows DEF BindRun, TypeOK
  <1> HIDE DEF row
  <1>3. TablesTypeOK'
    BY <1>1, <1>2, RowUpdateType DEF BindRun
  <1> QED
    BY <1>3 DEF TypeOK, TablesTypeOK, GraphTypeOK, BindRun, graphVars

\* reconcile keeps the types.
LEMMA ReconcileType ==
    ASSUME TypeOK, NEW a \in Made, NEW seen \in Seen, NEW art \in Artifact \cup {NoArtifact},
           Reconcile(a, seen, art)
    PROVE  TypeOK'
  <1> DEFINE st == IF seen \in {"candidate", "failed"} /\ ~PinsCurrent(a)
                   THEN "superseded" ELSE seen
             artifact == IF art # NoArtifact /\ st = "candidate"
                         THEN art ELSE attempts[a].artifact
             row == [attempts[a] EXCEPT !.status = st, !.artifact = artifact]
             n == attempts[a].node
  <1>1. attempts[a] \in AttemptRow /\ a \in AttemptId /\ n \in Node
    BY MadeAreRows DEF AttemptRow
  <1>2. st \in ACTIVE \cup TERMINAL
    BY AttemptAssumption DEF ACTIVE, TERMINAL
  <1>3. row \in AttemptRow
    BY <1>1, <1>2 DEF AttemptRow
  <1>4. attempts' = [attempts EXCEPT ![a] = row]
    BY <1>1 DEF Reconcile, TypeOK
  <1>5. TablesTypeOK'
    <2> HIDE DEF row
    <2> QED BY <1>3, <1>4, RowUpdateType DEF Reconcile
  <1>6. GraphTypeOK'
    <2>1. CASE st = "candidate"
      <3>1. status' = [status EXCEPT ![n] =
                           IF status[n] = "VERIFIED" THEN status[n] ELSE "CANDIDATE"]
        BY <2>1, <1>1 DEF Reconcile, TypeOK, GraphTypeOK
      <3>2. (IF status[n] = "VERIFIED" THEN status[n] ELSE "CANDIDATE") \in NodeStatus
        BY <1>1 DEF TypeOK, GraphTypeOK, NodeStatus
      <3> QED
        BY <1>1, <2>1, <3>1, <3>2, StatusUpdateType DEF Reconcile, TypeOK
    <2>2. CASE st # "candidate"
      BY <1>1, <2>2, InvalidateType DEF Reconcile, TypeOK
    <2> QED
      BY <2>1, <2>2
  <1> QED
    BY <1>5, <1>6 DEF TypeOK, TablesTypeOK

\* observe keeps the types.
LEMMA ObserveType ==
    ASSUME TypeOK, NEW a \in Made, NEW seen \in Seen, NEW art \in Artifact \cup {NoArtifact},
           Observe(a, seen, art)
    PROVE  TypeOK'
  <1> DEFINE terminal == seen \in {"candidate", "failed"}
             st == IF terminal /\ ~PinsCurrent(a) THEN "superseded" ELSE seen
             row == [attempts[a] EXCEPT !.status = st,
                        !.artifact = IF seen = "candidate" THEN art ELSE attempts[a].artifact,
                        !.reported = IF terminal THEN seen ELSE attempts[a].reported]
             n == attempts[a].node
  <1>1. attempts[a] \in AttemptRow /\ a \in AttemptId /\ n \in Node
    BY MadeAreRows DEF AttemptRow
  <1>2. st \in ACTIVE \cup TERMINAL
    BY AttemptAssumption DEF ACTIVE, TERMINAL
  <1>3. row \in AttemptRow
    BY <1>1, <1>2 DEF AttemptRow
  <1>4. attempts' = [attempts EXCEPT ![a] = row]
    BY <1>1 DEF Observe, TypeOK
  <1>5. TablesTypeOK'
    <2> HIDE DEF row
    <2> QED BY <1>3, <1>4, RowUpdateType DEF Observe
  <1>6. GraphTypeOK'
    <2>1. CASE st = "candidate"
      <3> DEFINE s == IF IsLatest(a) /\ status[n] # "VERIFIED" THEN "CANDIDATE" ELSE status[n]
      <3>1. status' = [status EXCEPT ![n] = s]
        BY <2>1, <1>1 DEF Observe, TypeOK, GraphTypeOK
      <3>2. s \in NodeStatus
        BY <1>1 DEF TypeOK, GraphTypeOK, NodeStatus
      <3> QED
        BY <1>1, <2>1, <3>1, <3>2, StatusUpdateType DEF Observe, TypeOK
    <2>2. CASE st # "candidate"
      BY <1>1, <2>2, InvalidateType DEF Observe, TypeOK
    <2> QED
      BY <2>1, <2>2
  <1> QED
    BY <1>5, <1>6 DEF TypeOK, TablesTypeOK

\* record_evidence keeps the types.
LEMMA RecordEvidenceType ==
    ASSUME TypeOK, NEW a \in Made, NEW c \in Criterion, NEW verdict \in Verdict,
           NEW art \in Artifact, RecordEvidence(a, c, verdict, art)
    PROVE  TypeOK'
  <1> DEFINE row == [attempt |-> a, criterion |-> c, verdict |-> verdict, artifact |-> art]
  <1>1. a \in AttemptId /\ attempts[a].node \in Node
    BY MadeAreRows DEF AttemptRow
  <1>2. GraphTypeOK'
    BY <1>1, InvalidateType DEF RecordEvidence, TypeOK
  <1>3. row \in EvidenceRow /\ row.attempt = a
    BY <1>1 DEF EvidenceRow
  <1>4. /\ evidenceSeq + 1 \in EvidenceId
        /\ Rows' = Rows \cup {evidenceSeq + 1}
        /\ evidenceSeq + 1 \notin Rows /\ Rows \subseteq EvidenceId
    BY AttemptAssumption DEF TypeOK, RecordEvidence, Rows, EvidenceId
  <1>5. evidence' = [evidence EXCEPT ![evidenceSeq + 1] = row]
    BY DEF RecordEvidence
  <1> HIDE DEF row
  <1>6. \A e \in Rows' : evidence'[e] \in EvidenceRow /\ evidence'[e].attempt \in Made
    BY <1>3, <1>4, <1>5 DEF TypeOK
  <1>7. evidenceSeq' \in 0..MaxEvidence /\ DOMAIN evidence' = EvidenceId
    BY <1>4, <1>5, AttemptAssumption DEF TypeOK, RecordEvidence, EvidenceId
  <1> QED
    BY <1>2, <1>6, <1>7 DEF TypeOK, RecordEvidence, Made, Issued

\* verify keeps the types.
LEMMA VerifyType ==
    ASSUME TypeOK, NEW n \in Node, NEW a \in Made, Verify(n, a)
    PROVE  TypeOK'
  <1>1. PICK ids \in [contract[n] -> Rows] :
            acceptances' = [acceptances EXCEPT ![issued + 1] =
                [node |-> n, revision |-> revision[n], attempt |-> a,
                 artifact |-> attempts[a].artifact, contract |-> contract[n],
                 snapshot |-> attempts[a].snapshot, evidence |-> ids]]
    BY DEF Verify
  <1> DEFINE row == [node |-> n, revision |-> revision[n], attempt |-> a,
                     artifact |-> attempts[a].artifact, contract |-> contract[n],
                     snapshot |-> attempts[a].snapshot, evidence |-> ids]
  <1>2. a \in AttemptId /\ attempts[a].snapshot \in Snapshot /\ attempts[a].artifact \in Artifact
    BY MadeAreRows DEF AttemptRow, Verify, EligibleCandidate
  <1>3. ids \in UNION {[C -> EvidenceId] : C \in Contract}
    <2>1. contract[n] \in Contract /\ Rows \subseteq EvidenceId
      BY AttemptAssumption DEF TypeOK, GraphTypeOK, Rows, EvidenceId
    <2>2. ids \in [contract[n] -> EvidenceId]
      BY <2>1
    <2> QED
      BY <2>1, <2>2
  <1>4. row \in AcceptanceRow
    BY <1>2, <1>3 DEF TypeOK, GraphTypeOK, AcceptanceRow
  <1>5. /\ issued + 1 \in ReceiptId
        /\ Issued' = Issued \cup {issued + 1}
        /\ issued + 1 \notin Issued /\ Issued \subseteq ReceiptId
    BY AttemptAssumption DEF TypeOK, Verify, Issued, ReceiptId
  <1>6. acceptances' = [acceptances EXCEPT ![issued + 1] = row]
    BY <1>1
  <1> HIDE DEF row
  <1>7. \A r \in Issued' : acceptances'[r] \in AcceptanceRow
    BY <1>4, <1>5, <1>6 DEF TypeOK
  <1>8. issued' \in 0..MaxReceipts /\ DOMAIN acceptances' = ReceiptId
    BY <1>5, <1>6, AttemptAssumption DEF TypeOK, Verify, ReceiptId
  <1>9. GraphTypeOK'
    BY <1>5, AttemptAssumption DEF TypeOK, GraphTypeOK, Verify, NodeStatus, ReceiptId
  <1> QED
    BY <1>7, <1>8, <1>9 DEF TypeOK, Verify, Made, Rows

\* TypeOK is inductive.
LEMMA TypeStep == TypeOK /\ [Next]_vars => TypeOK'
  <1> SUFFICES ASSUME TypeOK, [Next]_vars PROVE TypeOK'
    OBVIOUS
  <1>1. CASE GraphNext /\ UNCHANGED attemptVars
    BY <1>1, GraphStepType DEF TypeOK, attemptVars, Made, Rows, Issued
  <1>2. CASE LaunchNext
    <2>1. ASSUME NEW n \in Node, NEW kind \in Kinds, Reserve(n, kind)
          PROVE  TypeOK'
      BY <2>1, ReserveType
    <2>2. ASSUME NEW a \in Made, \/ RecordPreflightFailure(a) \/ ClaimLaunch(a)
                                 \/ RetireReservation(a) \/ LaunchUncertain(a)
          PROVE  TypeOK'
      <3>1. PICK st \in ACTIVE \cup TERMINAL : SetAttempt(a, st)
        BY <2>2 DEF RecordPreflightFailure, ClaimLaunch, RetireReservation, LaunchUncertain,
                    ACTIVE, TERMINAL
      <3>2. UNCHANGED <<graphVars, attemptSeq, evidence, evidenceSeq, acceptances, issued>>
        BY <2>2 DEF RecordPreflightFailure, ClaimLaunch, RetireReservation, LaunchUncertain
      <3>3. TablesTypeOK'
        BY <3>1, <3>2, SetAttemptType
      <3> QED
        BY <3>2, <3>3 DEF TypeOK, TablesTypeOK, GraphTypeOK, graphVars
    <2>3. ASSUME NEW a \in Made, NEW paused \in BOOLEAN, BindRun(a, paused)
          PROVE  TypeOK'
      BY <2>3, BindRunType
    <2> QED
      BY <1>2, <2>1, <2>2, <2>3 DEF LaunchNext
  <1>3. CASE ObserveNext
    <2>1. ASSUME NEW a \in Made, NEW seen \in Seen, NEW art \in Artifact \cup {NoArtifact},
                 Reconcile(a, seen, art) \/ Observe(a, seen, art)
          PROVE  TypeOK'
      BY <2>1, ReconcileType, ObserveType
    <2>2. ASSUME NEW a \in Made, Abandon(a)
          PROVE  TypeOK'
      <3>1. TablesTypeOK'
        BY <2>2, SetAttemptType DEF Abandon, TERMINAL
      <3> QED
        BY <2>2, <3>1 DEF TypeOK, TablesTypeOK, GraphTypeOK, Abandon, graphVars
    <2> QED
      BY <1>3, <2>1, <2>2 DEF ObserveNext
  <1>4. CASE AcceptNext
    BY <1>4, RecordEvidenceType, VerifyType DEF AcceptNext
  <1>5. CASE UNCHANGED vars
    BY <1>5 DEF TypeOK, GraphTypeOK, vars, graphVars, attemptVars, Made, Rows, Issued
  <1> QED
    BY <1>1, <1>2, <1>3, <1>4, <1>5 DEF Next

\* Every column of the State tables always holds a value of its declared kind.
THEOREM TypeCorrect == Spec => []TypeOK
  <1> QED
    BY TypeInit, TypeStep, PTL DEF Spec

-----------------------------------------------------------------------------
(* Acceptance: every transaction other than Verify is shown to be a         *)
(* withdrawal of a set W of nodes closed under dependents (empty for most   *)
(* of them) that leaves every other accepted node as it was.  The invariant *)
(* and the refinement both follow from that one fact.                       *)

\* The stored graph is acyclic and its edges lead to existing nodes.
GraphSound ==
    /\ Acyclic(deps)
    /\ \A n \in Node : deps[n] \subseteq Present

IInv == TypeOK /\ GraphSound /\ AcceptedOnCurrentInputs

\* What a step that withdraws W must do.
Withdraws(W) ==
    /\ W \subseteq Node /\ ClosedUnderDependents(W)
    /\ \A m \in Node : (m \in W \/ receipt[m] = 0) =>
          status'[m] # "VERIFIED" /\ receipt'[m] = 0
    /\ \A m \in Node \ W : receipt[m] # 0 =>
          /\ status'[m] = status[m] /\ receipt'[m] = receipt[m]
          /\ revision'[m] = revision[m] /\ contract'[m] = contract[m]
          /\ deps'[m] = deps[m]
    /\ UNCHANGED <<acceptances, issued>>

-----------------------------------------------------------------------------
(* Withdrawals *)

\* The recursive query reaches the node itself and is closed under dependents.
LEMMA AffectedClosed ==
    ASSUME NEW n \in Node
    PROVE  n \in Affected(n) /\ Affected(n) \subseteq Node /\ ClosedUnderDependents(Affected(n))
  <1>1. ASSUME NEW m \in Node, NEW d \in deps[m], d \in Affected(n)
        PROVE  m \in Affected(n)
    <2>1. ASSUME NEW S \in SUBSET Node, n \in S, ClosedUnderDependents(S)
          PROVE  m \in S
      BY <1>1, <2>1 DEF Affected, ClosedUnderDependents
    <2> QED
      BY <2>1 DEF Affected
  <1> QED
    BY <1>1 DEF Affected, ClosedUnderDependents

\* Withdrawing nothing is a closed withdrawal.
LEMMA NothingClosed == ClosedUnderDependents({})
  BY DEF ClosedUnderDependents

\* A step that writes no acceptance column and no column of an accepted node
\* withdraws nothing.
LEMMA QuietStep ==
    ASSUME IInv, UNCHANGED <<receipt, acceptances, issued>>,
           \A m \in Node : receipt[m] = 0 => status'[m] # "VERIFIED",
           \A m \in Node : receipt[m] # 0 =>
              /\ status'[m] = status[m] /\ revision'[m] = revision[m]
              /\ contract'[m] = contract[m] /\ deps'[m] = deps[m]
    PROVE  \E W \in SUBSET Node : Withdraws(W)
  <1>1. Withdraws({})
    BY NothingClosed DEF Withdraws
  <1> QED
    BY <1>1

\* Invalidating a node withdraws everything that rests on it.
LEMMA StaleStep ==
    ASSUME IInv, NEW n \in Node, receipt' = StaleReceipt(n),
           \A m \in Node \ {n} : status'[m] = StaleStatus(n)[m] \/ receipt[m] = 0,
           \A m \in Node : m = n \/ receipt[m] = 0 => status'[m] # "VERIFIED",
           \A m \in Node \ {n} : receipt[m] # 0 =>
              revision'[m] = revision[m] /\ contract'[m] = contract[m] /\ deps'[m] = deps[m],
           UNCHANGED <<acceptances, issued>>
    PROVE  \E W \in SUBSET Node : Withdraws(W)
  <1> DEFINE W == Affected(n)
  <1>1. n \in W /\ W \subseteq Node /\ ClosedUnderDependents(W)
    BY AffectedClosed
  <1> HIDE DEF W
  <1>2. \A m \in Node : receipt'[m] = IF m \in W /\ status[m] # "SUPERSEDED"
                                      THEN 0 ELSE receipt[m]
    BY DEF StaleReceipt, W
  <1>3. \A m \in Node : StaleStatus(n)[m] = IF m \in W /\ status[m] # "SUPERSEDED"
                                            THEN "STALE" ELSE status[m]
    BY DEF StaleStatus, W
  <1>4. \A m \in Node : (status[m] = "VERIFIED") <=> (receipt[m] # 0)
    BY DEF IInv, AcceptedOnCurrentInputs
  <1>5. ASSUME NEW m \in Node, m \in W \/ receipt[m] = 0
        PROVE  status'[m] # "VERIFIED" /\ receipt'[m] = 0
    BY <1>2, <1>3, <1>4, <1>5
  <1>6. ASSUME NEW m \in Node \ W, receipt[m] # 0
        PROVE  status'[m] = status[m] /\ receipt'[m] = receipt[m]
    BY <1>1, <1>2, <1>3, <1>6
  <1>7. Withdraws(W)
    BY <1>1, <1>5, <1>6 DEF Withdraws
  <1> QED
    BY <1>1, <1>7

\* What invalidation leaves of the acceptances and receipts.
LEMMA InvalidateStep ==
    ASSUME IInv, NEW n \in Node, NEW cond \in BOOLEAN, InvalidateIf(cond, n),
           UNCHANGED <<revision, contract, deps, acceptances, issued>>
    PROVE  \E W \in SUBSET Node : Withdraws(W)
  <1>1. \A m \in Node : (status[m] = "VERIFIED") <=> (receipt[m] # 0)
    BY DEF IInv, AcceptedOnCurrentInputs
  <1>2. CASE cond
    <2>1. status' = StaleStatus(n) /\ receipt' = StaleReceipt(n)
      BY <1>2 DEF InvalidateIf
    <2>2. \A m \in Node : m = n \/ receipt[m] = 0 => status'[m] # "VERIFIED"
      BY <1>1, <2>1, AffectedClosed DEF StaleStatus
    <2> QED
      BY <2>1, <2>2, StaleStep
  <1>3. CASE ~cond
    BY <1>1, <1>3, QuietStep DEF InvalidateIf
  <1> QED
    BY <1>2, <1>3

-----------------------------------------------------------------------------
(* Every transaction but Verify is a withdrawal *)

\* The actions on the graph withdraw a closed set of acceptances.
LEMMA GraphWithdraws ==
    ASSUME IInv, GraphNext, UNCHANGED attemptVars
    PROVE  \E W \in SUBSET Node : Withdraws(W)
  <1>0. /\ \A m \in Node : (status[m] = "VERIFIED") <=> (receipt[m] # 0)
        /\ UNCHANGED <<acceptances, issued>>
    BY DEF IInv, AcceptedOnCurrentInputs, attemptVars
  <1>1. ASSUME NEW new \in Batch, NEW d \in [new -> DepChoice], NEW c \in [new -> Contract],
               AddNodes(new, d, c)
        PROVE  \E W \in SUBSET Node : Withdraws(W)
    <2>1. \A m \in Node : receipt[m] # 0 => m \notin new
      BY <1>0, <1>1 DEF AddNodes, AddGuard, Present
    <2> QED
      BY <1>0, <1>1, <2>1, QuietStep DEF AddNodes, Extended
  <1>2. ASSUME NEW new \in Batch, NEW d \in [new -> DepChoice], NEW st \in [new -> ImportStatus],
               ImportTasks(new, d, st)
        PROVE  \E W \in SUBSET Node : Withdraws(W)
    <2>1. \A m \in Node : receipt[m] # 0 => m \notin new
      BY <1>0, <1>2 DEF ImportTasks, AddGuard, Present
    <2>2. \A m \in new : st[m] # "VERIFIED"
      BY GraphAssumption
    <2>3. \A m \in Node : receipt[m] = 0 => status'[m] # "VERIFIED"
      BY <1>0, <1>2, <2>2 DEF ImportTasks
    <2>4. \A m \in Node : receipt[m] # 0 =>
              /\ status'[m] = status[m] /\ revision'[m] = revision[m]
              /\ contract'[m] = contract[m] /\ deps'[m] = deps[m]
      BY <1>2, <2>1 DEF ImportTasks, Extended
    <2>5. UNCHANGED receipt
      BY <1>2 DEF ImportTasks
    <2> QED
      BY <1>0, <2>3, <2>4, <2>5, QuietStep
  <1>3. ASSUME NEW n \in Node, NEW c \in Contract, NEW d \in DepChoice \cup {deps[n]},
               ReviseNode(n, c, d)
        PROVE  \E W \in SUBSET Node : Withdraws(W)
    <2>1. \A m \in Node : m = n \/ receipt[m] = 0 => status'[m] # "VERIFIED"
      BY <1>0, <1>3, AffectedClosed DEF ReviseNode, StaleStatus
    <2>2. \A m \in Node \ {n} : revision'[m] = revision[m] /\ contract'[m] = contract[m]
                                  /\ deps'[m] = deps[m]
      BY <1>3 DEF ReviseNode, IInv, TypeOK, GraphTypeOK
    <2>3. status' = StaleStatus(n) /\ receipt' = StaleReceipt(n)
      BY <1>3 DEF ReviseNode
    <2> QED
      BY <1>0, <2>1, <2>2, <2>3, StaleStep
  <1>4. ASSUME NEW n \in Node, NEW new \in Batch, NEW d \in [new -> DepChoice],
               NEW c \in [new -> Contract], SplitNode(n, new, d, c)
        PROVE  \E W \in SUBSET Node : Withdraws(W)
    <2>1. \A m \in new : m # n /\ receipt[m] = 0
      BY <1>0, <1>4 DEF SplitNode, AddGuard, Present, Batch
    <2>2. /\ receipt' = StaleReceipt(n)
          /\ \A m \in Node : status'[m] = IF m \in new THEN "OPEN" ELSE StaleStatus(n)[m]
      BY <1>4 DEF SplitNode
    <2>3. \A m \in Node : m = n \/ receipt[m] = 0 => status'[m] # "VERIFIED"
      BY <1>0, <2>2, AffectedClosed DEF StaleStatus
    <2>4. \A m \in Node \ {n} : receipt[m] # 0 =>
              revision'[m] = revision[m] /\ contract'[m] = contract[m] /\ deps'[m] = deps[m]
      BY <1>4, <2>1 DEF SplitNode, Extended
    <2>5. \A m \in Node \ {n} : status'[m] = StaleStatus(n)[m] \/ receipt[m] = 0
      BY <2>1, <2>2
    <2> QED
      BY <1>0, <2>2, <2>3, <2>4, <2>5, StaleStep
  <1>5. ASSUME NEW n \in Node, SupersedeNode(n)
        PROVE  \E W \in SUBSET Node : Withdraws(W)
    <2>1. /\ receipt' = StaleReceipt(n)
          /\ \A m \in Node : status'[m] = IF m = n THEN "SUPERSEDED" ELSE StaleStatus(n)[m]
      BY <1>5 DEF SupersedeNode, StaleStatus
    <2>2. \A m \in Node : m = n \/ receipt[m] = 0 => status'[m] # "VERIFIED"
      BY <1>0, <2>1, AffectedClosed DEF StaleStatus
    <2> QED
      BY <1>0, <1>5, <2>1, <2>2, StaleStep DEF SupersedeNode
  <1> QED
    BY <1>1, <1>2, <1>3, <1>4, <1>5 DEF GraphNext

\* The status column of one unaccepted node.
LEMMA StatusStep ==
    ASSUME IInv, NEW n \in Node, NEW st \in NodeStatus \ {"VERIFIED"},
           status' = [status EXCEPT ![n] = IF receipt[n] # 0 THEN status[n] ELSE st],
           UNCHANGED <<revision, contract, receipt, deps, acceptances, issued>>
    PROVE  \E W \in SUBSET Node : Withdraws(W)
  <1>1. \A m \in Node : (status[m] = "VERIFIED") <=> (receipt[m] # 0)
    BY DEF IInv, AcceptedOnCurrentInputs
  <1>2. \A m \in Node : status'[m] = IF m = n /\ receipt[n] = 0 THEN st ELSE status[m]
    BY DEF IInv, TypeOK, GraphTypeOK
  <1> QED
    BY <1>1, <1>2, QuietStep

\* So do the reports about attempts.
LEMMA AttemptsWithdraw ==
    ASSUME IInv, LaunchNext \/ ObserveNext
    PROVE  \E W \in SUBSET Node : Withdraws(W)
  <1>0. \A m \in Node : (status[m] = "VERIFIED") <=> (receipt[m] # 0)
    BY DEF IInv, AcceptedOnCurrentInputs
  <1>1. ASSUME NEW n \in Node, NEW kind \in Kinds, Reserve(n, kind)
        PROVE  \E W \in SUBSET Node : Withdraws(W)
    <2>1. receipt[n] = 0 /\ "OPEN" \in NodeStatus \ {"VERIFIED"}
      BY <1>0, <1>1 DEF Reserve, NodeStatus
    <2>2. status' = [status EXCEPT ![n] = IF receipt[n] # 0 THEN status[n] ELSE "OPEN"]
      BY <1>1, <2>1 DEF Reserve
    <2> QED
      BY <1>1, <2>1, <2>2, StatusStep DEF Reserve
  <1>2. ASSUME UNCHANGED graphVars, UNCHANGED <<acceptances, issued>>
        PROVE  \E W \in SUBSET Node : Withdraws(W)
    BY <1>0, <1>2, QuietStep DEF graphVars
  <1>3. ASSUME NEW a \in Made, NEW seen \in Seen, NEW art \in Artifact \cup {NoArtifact},
               Reconcile(a, seen, art)
        PROVE  \E W \in SUBSET Node : Withdraws(W)
    <2> DEFINE n == attempts[a].node
               st == IF seen \in {"candidate", "failed"} /\ ~PinsCurrent(a)
                     THEN "superseded" ELSE seen
    <2>1. n \in Node
      BY MadeAreRows DEF IInv, AttemptRow
    <2>2. CASE st = "candidate"
      <3>1. "CANDIDATE" \in NodeStatus \ {"VERIFIED"}
        BY DEF NodeStatus
      <3>2. status' = [status EXCEPT ![n] = IF receipt[n] # 0 THEN status[n] ELSE "CANDIDATE"]
        BY <1>0, <1>3, <2>1, <2>2 DEF Reconcile, IInv, TypeOK, GraphTypeOK
      <3> QED
        BY <1>3, <2>1, <2>2, <3>1, <3>2, StatusStep DEF Reconcile
    <2>3. CASE st # "candidate"
      <3>1. AcceptedBy(n, a) \in BOOLEAN
        BY DEF AcceptedBy
      <3>2. InvalidateIf(AcceptedBy(n, a), n)
        BY <1>3, <2>3 DEF Reconcile
      <3> QED
        BY <1>3, <2>1, <3>1, <3>2, InvalidateStep DEF Reconcile
    <2> QED
      BY <2>2, <2>3
  <1>4. ASSUME NEW a \in Made, NEW seen \in Seen, NEW art \in Artifact \cup {NoArtifact},
               Observe(a, seen, art)
        PROVE  \E W \in SUBSET Node : Withdraws(W)
    <2> DEFINE n == attempts[a].node
               st == IF seen \in {"candidate", "failed"} /\ ~PinsCurrent(a)
                     THEN "superseded" ELSE seen
    <2>1. n \in Node
      BY MadeAreRows DEF IInv, AttemptRow
    <2>2. CASE st = "candidate"
      <3> DEFINE new == IF IsLatest(a) /\ status[n] # "VERIFIED" THEN "CANDIDATE" ELSE status[n]
      <3>1. status' = [status EXCEPT ![n] = new]
        BY <1>4, <2>1, <2>2 DEF Observe, IInv, TypeOK, GraphTypeOK
      <3>2. receipt[n] = 0 => new \in NodeStatus \ {"VERIFIED"}
        BY <1>0, <2>1 DEF IInv, TypeOK, GraphTypeOK, NodeStatus
      <3>3. receipt[n] # 0 => new = status[n]
        BY <1>0, <2>1
      <3>4. UNCHANGED <<revision, contract, receipt, deps, acceptances, issued>>
        BY <1>4, <2>2 DEF Observe
      <3> HIDE DEF new
      <3>5. CASE receipt[n] = 0
        BY <2>1, <3>1, <3>2, <3>4, <3>5, StatusStep
      <3>6. CASE receipt[n] # 0
        <4>1. status' = status
          BY <3>1, <3>3, <3>6, <2>1 DEF IInv, TypeOK, GraphTypeOK
        <4> QED
          BY <1>0, <3>4, <4>1, QuietStep
      <3> QED
        BY <3>5, <3>6
    <2>3. CASE st # "candidate"
      <3>1. AcceptedBy(n, a) \in BOOLEAN
        BY DEF AcceptedBy
      <3>2. InvalidateIf(AcceptedBy(n, a), n)
        BY <1>4, <2>3 DEF Observe
      <3> QED
        BY <1>4, <2>1, <3>1, <3>2, InvalidateStep DEF Observe
    <2> QED
      BY <2>2, <2>3
  <1>5. CASE LaunchNext
    BY <1>1, <1>2, <1>5 DEF LaunchNext, RecordPreflightFailure, ClaimLaunch,
                            RetireReservation, LaunchUncertain, BindRun
  <1>6. CASE ObserveNext
    BY <1>2, <1>3, <1>4, <1>6 DEF ObserveNext, Abandon
  <1> QED
    BY <1>5, <1>6

\* So does evidence that contradicts an acceptance.
LEMMA EvidenceWithdraws ==
    ASSUME IInv, NEW a \in Made, NEW c \in Criterion, NEW verdict \in Verdict,
           NEW art \in Artifact, RecordEvidence(a, c, verdict, art)
    PROVE  \E W \in SUBSET Node : Withdraws(W)
  <1>1. attempts[a].node \in Node
    BY MadeAreRows DEF IInv, AttemptRow
  <1>2. InvalidateIf(receipt[attempts[a].node] # 0 /\ ~(attempts[a].status = "failed"),
                     attempts[a].node)
    BY DEF RecordEvidence
  <1> QED
    BY <1>1, <1>2, InvalidateStep DEF RecordEvidence

\* Each step grants one acceptance or withdraws some, or none.
LEMMA StepCases ==
    ASSUME IInv, [Next]_vars
    PROVE  \/ \E W \in SUBSET Node : Withdraws(W)
           \/ \E n \in Node, a \in Made : Verify(n, a)
  <1>1. CASE UNCHANGED vars
    BY <1>1, QuietStep DEF vars, graphVars, attemptVars, IInv, AcceptedOnCurrentInputs
  <1> QED
    BY <1>1, GraphWithdraws, AttemptsWithdraw, EvidenceWithdraws DEF Next, AcceptNext

-----------------------------------------------------------------------------
(* The invariant *)

\* A closed withdrawal leaves every other acceptance on its current inputs.
LEMMA WithdrawKeepsInputs ==
    ASSUME IInv, NEW W \in SUBSET Node, Withdraws(W)
    PROVE  AcceptedOnCurrentInputs'
  <1> SUFFICES ASSUME NEW n \in Node
               PROVE  /\ (status'[n] = "VERIFIED") <=> (receipt'[n] # 0)
                      /\ receipt'[n] # 0 =>
                            LET r == acceptances'[receipt'[n]]
                            IN  /\ receipt'[n] \in Issued'
                                /\ r.node = n
                                /\ r.revision = revision'[n] /\ r.contract = contract'[n]
                                /\ r.snapshot = DependencySnapshot(n)'
                                /\ DependenciesVerified(n)'
    BY DEF AcceptedOnCurrentInputs
  <1>1. CASE n \in W \/ receipt[n] = 0
    BY <1>1 DEF Withdraws
  <1>2. CASE n \notin W /\ receipt[n] # 0
    <2>1. \A d \in deps[n] : d \in Node \ W /\ receipt[d] # 0
      BY <1>2 DEF IInv, TypeOK, GraphTypeOK, AcceptedOnCurrentInputs, DependenciesVerified,
                  Withdraws, ClosedUnderDependents
    <2>2. /\ deps'[n] = deps[n] /\ status'[n] = status[n] /\ receipt'[n] = receipt[n]
          /\ revision'[n] = revision[n] /\ contract'[n] = contract[n]
          /\ acceptances' = acceptances /\ Issued' = Issued
      BY <1>2 DEF Withdraws, Issued
    <2>3. \A d \in deps[n] : /\ status'[d] = status[d] /\ receipt'[d] = receipt[d]
                             /\ revision'[d] = revision[d] /\ contract'[d] = contract[d]
      BY <2>1 DEF Withdraws
    <2>4. DependencySnapshot(n)' = DependencySnapshot(n)
      BY <2>2, <2>3 DEF DependencySnapshot
    <2>5. DependenciesVerified(n)
      BY <1>2 DEF IInv, AcceptedOnCurrentInputs
    <2>6. DependenciesVerified(n)'
      BY <2>2, <2>3, <2>5 DEF DependenciesVerified
    <2> QED
      BY <1>2, <2>2, <2>4, <2>6 DEF IInv, AcceptedOnCurrentInputs
  <1> QED
    BY <1>1, <1>2

\* What a verification writes.
LEMMA VerifyGrants ==
    ASSUME IInv, NEW v \in Node, NEW a \in Made, Verify(v, a)
    PROVE  /\ receipt[v] = 0 /\ DependenciesVerified(v)
           /\ issued' = issued + 1 /\ issued + 1 \in ReceiptId
           /\ status' = [status EXCEPT ![v] = "VERIFIED"]
           /\ receipt' = [receipt EXCEPT ![v] = issued + 1]
           /\ UNCHANGED <<revision, contract, deps>>
           /\ \A r \in Issued : acceptances'[r] = acceptances[r]
           /\ acceptances'[issued + 1].node = v
           /\ acceptances'[issued + 1].revision = revision[v]
           /\ acceptances'[issued + 1].contract = contract[v]
           /\ acceptances'[issued + 1].snapshot = DependencySnapshot(v)
  <1>1. attempts[a].node = v /\ PinsCurrent(a)
    BY DEF Verify, EligibleCandidate
  <1>2. attempts[a].snapshot = DependencySnapshot(v) /\ DependenciesVerified(v)
    BY <1>1 DEF PinsCurrent
  <1>3. issued + 1 \in ReceiptId /\ issued + 1 \notin Issued
    BY AttemptAssumption DEF IInv, TypeOK, Verify, ReceiptId, Issued
  <1>4. PICK ids \in [contract[v] -> Rows] :
            acceptances' = [acceptances EXCEPT ![issued + 1] =
                [node |-> v, revision |-> revision[v], attempt |-> a,
                 artifact |-> attempts[a].artifact, contract |-> contract[v],
                 snapshot |-> attempts[a].snapshot, evidence |-> ids]]
    BY DEF Verify
  <1>5. DOMAIN acceptances = ReceiptId
    BY DEF IInv, TypeOK
  <1>6. acceptances'[issued + 1] =
                [node |-> v, revision |-> revision[v], attempt |-> a,
                 artifact |-> attempts[a].artifact, contract |-> contract[v],
                 snapshot |-> attempts[a].snapshot, evidence |-> ids]
    BY <1>3, <1>4, <1>5
  <1>7. \A r \in Issued : acceptances'[r] = acceptances[r]
    BY <1>3, <1>4, <1>5
  <1> QED
    BY <1>2, <1>3, <1>6, <1>7 DEF Verify

\* Verification accepts a node on the receipts that stand.
LEMMA VerifyKeepsInputs ==
    ASSUME IInv, NEW v \in Node, NEW a \in Made, Verify(v, a)
    PROVE  AcceptedOnCurrentInputs'
  <1> SUFFICES ASSUME NEW n \in Node
               PROVE  /\ (status'[n] = "VERIFIED") <=> (receipt'[n] # 0)
                      /\ receipt'[n] # 0 =>
                            LET r == acceptances'[receipt'[n]]
                            IN  /\ receipt'[n] \in Issued'
                                /\ r.node = n
                                /\ r.revision = revision'[n] /\ r.contract = contract'[n]
                                /\ r.snapshot = DependencySnapshot(n)'
                                /\ DependenciesVerified(n)'
    BY DEF AcceptedOnCurrentInputs
  <1>1. \A m \in Node : /\ status'[m] = IF m = v THEN "VERIFIED" ELSE status[m]
                        /\ receipt'[m] = IF m = v THEN issued + 1 ELSE receipt[m]
    BY VerifyGrants DEF IInv, TypeOK, GraphTypeOK
  <1>2. Issued' = Issued \cup {issued + 1} /\ issued + 1 # 0
    BY VerifyGrants DEF IInv, TypeOK, Issued
  <1>3. DependenciesVerified(n) => v \notin deps[n]
    BY VerifyGrants DEF DependenciesVerified
  <1>4. DependenciesVerified(n) =>
            DependencySnapshot(n)' = DependencySnapshot(n) /\ DependenciesVerified(n)'
    <2> SUFFICES ASSUME DependenciesVerified(n)
                 PROVE  DependencySnapshot(n)' = DependencySnapshot(n) /\ DependenciesVerified(n)'
      OBVIOUS
    <2>1. UNCHANGED <<revision, contract, deps>> /\ deps[n] \subseteq Node
      BY VerifyGrants DEF IInv, TypeOK, GraphTypeOK
    <2>2. \A d \in deps[n] : status'[d] = status[d] /\ receipt'[d] = receipt[d]
      BY <1>1, <1>3, <2>1
    <2> QED
      BY <2>1, <2>2 DEF DependencySnapshot, DependenciesVerified
  <1>5. CASE n = v
    BY <1>1, <1>2, <1>4, <1>5, VerifyGrants
  <1>6. CASE n # v
    BY <1>1, <1>2, <1>4, <1>6, VerifyGrants DEF IInv, AcceptedOnCurrentInputs
  <1> QED
    BY <1>5, <1>6

\* Nothing removes a node, and every rewiring was validated.
LEMMA GraphSoundStep ==
    ASSUME IInv, [Next]_vars
    PROVE  GraphSound'
  <1>0. \A n \in Node : n \in Present <=> status[n] # "ABSENT"
    BY DEF Present
  <1>1. ASSUME Acyclic(deps'),
               \A n \in Node : status[n] # "ABSENT" => status'[n] # "ABSENT",
               \A n \in Node : deps'[n] \subseteq Present \/ deps'[n] \subseteq Present'
        PROVE  GraphSound'
    BY <1>1 DEF GraphSound, Present
  <1>2. \A n \in Node : \A m \in Node : status[m] # "ABSENT" => StaleStatus(n)[m] # "ABSENT"
    BY DEF StaleStatus
  <1>3. ASSUME NEW new \in Batch, NEW d \in [new -> DepChoice], AddGuard(new, d),
               \A n \in Node : status'[n] # "ABSENT" <=> n \in new \/ status[n] # "ABSENT",
               deps' = Extended(new, d)
        PROVE  GraphSound'
    <2>1. Acyclic(deps') /\ \A n \in Present \cup new : deps'[n] \subseteq Present \cup new
      BY <1>3 DEF AddGuard, ValidDag
    <2>2. \A n \in Node : deps'[n] \subseteq Present \cup new
      BY <1>3, <2>1 DEF Extended, IInv, GraphSound
    <2>3. Present' = Present \cup new
      BY <1>3 DEF Present, Batch
    <2> QED
      BY <2>1, <2>2, <2>3 DEF GraphSound
  <1>4. CASE GraphNext
    <2>1. ASSUME NEW new \in Batch, NEW d \in [new -> DepChoice], NEW c \in [new -> Contract],
                 AddNodes(new, d, c)
          PROVE  GraphSound'
      BY <1>3, <2>1 DEF AddNodes
    <2>2. ASSUME NEW new \in Batch, NEW d \in [new -> DepChoice],
                 NEW st \in [new -> ImportStatus], ImportTasks(new, d, st)
          PROVE  GraphSound'
      <3>1. \A n \in new : st[n] # "ABSENT"
        BY GraphAssumption
      <3>2. \A n \in Node : status'[n] # "ABSENT" <=> n \in new \/ status[n] # "ABSENT"
        BY <2>2, <3>1 DEF ImportTasks
      <3> QED
        BY <1>3, <2>2, <3>2 DEF ImportTasks
    <2>3. ASSUME NEW n \in Node, NEW c \in Contract, NEW d \in DepChoice \cup {deps[n]},
                 ReviseNode(n, c, d)
          PROVE  GraphSound'
      <3>1. Acyclic(deps') /\ \A m \in Present : deps'[m] \subseteq Present
        BY <2>3 DEF ReviseNode, ValidDag
      <3>2. \A m \in Node : deps'[m] \subseteq Present
        BY <2>3, <3>1 DEF ReviseNode, IInv, GraphSound, TypeOK, GraphTypeOK, Present
      <3> QED
        BY <1>1, <1>2, <2>3, <3>1, <3>2 DEF ReviseNode
    <2>4. ASSUME NEW n \in Node, NEW new \in Batch, NEW d \in [new -> DepChoice],
                 NEW c \in [new -> Contract], SplitNode(n, new, d, c)
          PROVE  GraphSound'
      <3>1. \A m \in Node : (m \in new \/ status[m] # "ABSENT") => status'[m] # "ABSENT"
        BY <1>2, <2>4 DEF SplitNode
      <3>2. Present \cup new \subseteq Present'
        BY <3>1 DEF Present, Batch
      <3>3. Acyclic(deps') /\ \A m \in Present \cup new : deps'[m] \subseteq Present \cup new
        BY <2>4 DEF SplitNode, ValidDag
      <3>4. \A m \in Node : m \notin Present \cup new => deps'[m] = deps[m]
        BY <2>4 DEF SplitNode, Extended, Present
      <3>5. \A m \in Node : deps'[m] \subseteq Present'
        BY <3>2, <3>3, <3>4 DEF IInv, GraphSound
      <3> QED
        BY <3>3, <3>5 DEF GraphSound
    <2>5. ASSUME NEW n \in Node, SupersedeNode(n)
          PROVE  GraphSound'
      <3>1. \A m \in Node : status[m] # "ABSENT" => status'[m] # "ABSENT"
        BY <1>2, <2>5 DEF SupersedeNode, StaleStatus
      <3> QED
        BY <1>1, <2>5, <3>1 DEF SupersedeNode, IInv, GraphSound
    <2> QED
      BY <1>4, <2>1, <2>2, <2>3, <2>4, <2>5 DEF GraphNext
  <1>5. ASSUME NEW n \in Node, NEW cond, InvalidateIf(cond, n), UNCHANGED deps
        PROVE  GraphSound'
    BY <1>1, <1>2, <1>5 DEF InvalidateIf, IInv, GraphSound
  <1>6. ASSUME NEW n \in Node, NEW st, st # "ABSENT" \/ st = status[n],
               status' = [status EXCEPT ![n] = st], UNCHANGED deps
        PROVE  GraphSound'
    <2>1. \A m \in Node : status[m] # "ABSENT" => status'[m] # "ABSENT"
      BY <1>6 DEF IInv, TypeOK, GraphTypeOK
    <2> QED
      BY <1>1, <1>6, <2>1 DEF IInv, GraphSound
  <1>7. ASSUME UNCHANGED graphVars
        PROVE  GraphSound'
    BY <1>7 DEF IInv, GraphSound, Present, graphVars
  <1>8. CASE LaunchNext
    BY <1>6, <1>7, <1>8 DEF LaunchNext, Reserve, RecordPreflightFailure, ClaimLaunch,
                            RetireReservation, LaunchUncertain, BindRun
  <1>9. CASE ObserveNext
    <2>1. ASSUME NEW a \in Made, NEW seen \in Seen, NEW art \in Artifact \cup {NoArtifact},
                 Reconcile(a, seen, art)
          PROVE  GraphSound'
      <3>1. attempts[a].node \in Node
        BY MadeAreRows DEF IInv, AttemptRow
      <3> DEFINE n == attempts[a].node
                 s == IF status[n] = "VERIFIED" THEN status[n] ELSE "CANDIDATE"
      <3>2. \/ status' = [status EXCEPT ![n] = s]
            \/ InvalidateIf(AcceptedBy(n, a), n)
        BY <2>1, <3>1 DEF Reconcile, IInv, TypeOK, GraphTypeOK
      <3>3. UNCHANGED deps
        BY <2>1 DEF Reconcile
      <3> QED
        BY <1>5, <1>6, <3>1, <3>2, <3>3
    <2>2. ASSUME NEW a \in Made, NEW seen \in Seen, NEW art \in Artifact \cup {NoArtifact},
                 Observe(a, seen, art)
          PROVE  GraphSound'
      <3>1. attempts[a].node \in Node
        BY MadeAreRows DEF IInv, AttemptRow
      <3> DEFINE n == attempts[a].node
                 s == IF IsLatest(a) /\ status[n] # "VERIFIED" THEN "CANDIDATE" ELSE status[n]
      <3>2. \/ status' = [status EXCEPT ![n] = s]
            \/ InvalidateIf(AcceptedBy(n, a), n)
        BY <2>2, <3>1 DEF Observe, IInv, TypeOK, GraphTypeOK
      <3>3. UNCHANGED deps
        BY <2>2 DEF Observe
      <3> QED
        BY <1>5, <1>6, <3>1, <3>2, <3>3
    <2> QED
      BY <1>7, <1>9, <2>1, <2>2 DEF ObserveNext, Abandon
  <1>10. CASE AcceptNext
    <2>1. ASSUME NEW a \in Made, NEW c \in Criterion, NEW verdict \in Verdict,
                 NEW art \in Artifact, RecordEvidence(a, c, verdict, art)
          PROVE  GraphSound'
      <3>1. attempts[a].node \in Node
        BY MadeAreRows DEF IInv, AttemptRow
      <3> QED
        BY <1>5, <2>1, <3>1 DEF RecordEvidence
    <2>2. ASSUME NEW n \in Node, NEW a \in Made, Verify(n, a)
          PROVE  GraphSound'
      BY <1>6, <2>2 DEF Verify
    <2> QED
      BY <1>10, <2>1, <2>2 DEF AcceptNext
  <1>11. CASE UNCHANGED vars
    BY <1>7, <1>11 DEF vars
  <1> QED
    BY <1>4, <1>8, <1>9, <1>10, <1>11 DEF Next

\* The invariant holds of an empty State.
LEMMA InvInit == Init => IInv
  <1> SUFFICES ASSUME Init PROVE IInv
    OBVIOUS
  <1>1. \A n \in Node : deps[n] = {} /\ receipt[n] = 0 /\ status[n] = "ABSENT"
    BY DEF Init, GraphInit
  <1>2. Acyclic(deps)
    BY <1>1 DEF Acyclic
  <1>3. AcceptedOnCurrentInputs
    BY <1>1 DEF AcceptedOnCurrentInputs
  <1> QED
    BY <1>1, <1>2, <1>3, TypeInit DEF IInv, GraphSound

\* The invariant is inductive.
LEMMA InvStep == IInv /\ [Next]_vars => IInv'
  <1> SUFFICES ASSUME IInv, [Next]_vars PROVE IInv'
    OBVIOUS
  <1>1. TypeOK'
    BY TypeStep DEF IInv
  <1>2. AcceptedOnCurrentInputs'
    BY StepCases, WithdrawKeepsInputs, VerifyKeepsInputs
  <1> QED
    BY <1>1, <1>2, GraphSoundStep DEF IInv

\* The invariant holds throughout.
LEMMA Invariance == Spec => []IInv
  BY InvInit, InvStep, PTL DEF Spec

\* A VERIFIED node always rests on its present revision and contract and on
\* exactly the receipts its dependencies hold now (_invalidate reaches every
\* transitive dependent of whatever changed).
THEOREM AcceptanceIsCurrent == Spec => []AcceptedOnCurrentInputs
  <1>1. IInv => AcceptedOnCurrentInputs
    BY DEF IInv
  <1> QED
    BY <1>1, Invariance, PTL

\* However the graph is edited, an unfinished graph whose open nodes do not
\* rest on superseded ones has a node that can be worked on (_validate_dag on
\* every edit, and acceptance only on accepted dependencies).
THEOREM GraphNeverWedges == Spec => []FrontierNeverWedged
  <1>1. IInv => FrontierNeverWedged
    <2> SUFFICES ASSUME IInv, Unfinished # {},
                        \A n \in Unfinished : \A d \in deps[n] : status[d] # "SUPERSEDED"
                 PROVE  \E n \in Unfinished : DependenciesVerified(n)
      BY DEF FrontierNeverWedged
    <2>1. Unfinished \in SUBSET Node
      BY DEF Unfinished
    <2>2. PICK n \in Unfinished : deps[n] \cap Unfinished = {}
      BY <2>1 DEF IInv, GraphSound, Acyclic
    <2>3. \A d \in deps[n] : d \in Node /\ status[d] # "ABSENT"
      BY <2>1 DEF IInv, GraphSound, Present
    <2>4. \A d \in deps[n] : status[d] = "VERIFIED"
      BY <2>2, <2>3 DEF Unfinished
    <2>5. DependenciesVerified(n)
      BY <2>3, <2>4 DEF IInv, AcceptedOnCurrentInputs, DependenciesVerified
    <2> QED
      BY <2>5
  <1> QED
    BY <1>1, Invariance, PTL

-----------------------------------------------------------------------------
(* Refinement *)

\* The abstract variable `basis`, as AcceptanceService maps it.
BasisMap == [r \in Issued |-> [d \in DOMAIN acceptances[r].snapshot |->
                                 acceptances[r].snapshot[d].receipt]]

\* An initial State is an initial state of the abstract service.
LEMMA RefinesInit == Init => AcceptanceService!AInit
  <1> SUFFICES ASSUME Init PROVE AcceptanceService!AInit
    OBVIOUS
  <1>1. receipt = [n \in Node |-> 0] /\ deps = [n \in Node |-> {}] /\ Issued = 1..0
    BY DEF Init, GraphInit, Issued
  <1>2. AcceptanceService!Acyclic(deps)
    BY <1>1 DEF AcceptanceService!Acyclic
  <1>3. 1..0 = {}
    OBVIOUS
  <1>4. BasisMap = [r \in 1..0 |-> [d \in {} |-> 0]]
    BY <1>1, <1>3 DEF BasisMap
  <1> QED
    BY <1>1, <1>2, <1>4 DEF AcceptanceService!AInit, BasisMap

\* A closed withdrawal is the abstract Withdraw.
LEMMA RefinesWithdraw ==
    ASSUME IInv, IInv', NEW W \in SUBSET Node, Withdraws(W)
    PROVE  AcceptanceService!Withdraw
  <1>1. receipt' \in [Node -> {0} \cup {receipt[n] : n \in Node}]
    BY DEF IInv, TypeOK, GraphTypeOK, Withdraws
  <1>2. deps' \in [Node -> SUBSET Node]
    BY DEF IInv, TypeOK, GraphTypeOK
  <1>3. AcceptanceService!Acyclic(deps')
    BY DEF IInv, GraphSound, Acyclic, AcceptanceService!Acyclic
  <1>4. BasisMap' = BasisMap
    BY DEF BasisMap, Withdraws, Issued
  <1>5. ASSUME NEW n \in Node
        PROVE  /\ receipt'[n] \in {0, receipt[n]}
               /\ deps'[n] # deps[n] => receipt'[n] = 0
               /\ \A d \in deps[n] : receipt'[d] = 0 => receipt'[n] = 0
    <2>1. CASE n \in W \/ receipt[n] = 0
      BY <2>1 DEF Withdraws
    <2>2. CASE n \notin W /\ receipt[n] # 0
      <3>1. \A d \in deps[n] : d \in Node \ W /\ receipt[d] # 0
        BY <2>2 DEF IInv, TypeOK, GraphTypeOK, AcceptedOnCurrentInputs, DependenciesVerified,
                    Withdraws, ClosedUnderDependents
      <3>2. \A d \in deps[n] : receipt'[d] # 0
        BY <3>1 DEF Withdraws
      <3> QED
        BY <2>2, <3>2 DEF Withdraws
    <2> QED
      BY <2>1, <2>2
  <1> QED
    BY <1>1, <1>2, <1>3, <1>4, <1>5 DEF AcceptanceService!Withdraw, BasisMap

\* A verification is the abstract Grant.
LEMMA RefinesGrant ==
    ASSUME IInv, NEW v \in Node, NEW a \in Made, Verify(v, a)
    PROVE  AcceptanceService!Grant(v)
  <1>1. /\ receipt[v] = 0 /\ receipt'[v] = issued + 1
        /\ receipt' = [receipt EXCEPT ![v] = receipt'[v]]
    BY VerifyGrants DEF IInv, TypeOK, GraphTypeOK
  <1>2. \A d \in deps[v] : receipt[d] # 0
    BY VerifyGrants DEF DependenciesVerified
  <1>3. Issued' = Issued \cup {issued + 1} /\ issued + 1 \notin Issued \cup {0}
    BY VerifyGrants DEF IInv, TypeOK, Issued
  <1>4. DOMAIN BasisMap = Issued /\ DOMAIN BasisMap' = Issued'
    BY DEF BasisMap
  <1>5. \A r \in Issued : BasisMap'[r] = BasisMap[r]
    BY <1>3, VerifyGrants DEF BasisMap
  <1>6. BasisMap'[issued + 1] = [d \in deps[v] |-> receipt[d]]
    <2>1. acceptances'[issued + 1].snapshot = DependencySnapshot(v)
      BY VerifyGrants
    <2>2. /\ DOMAIN DependencySnapshot(v) = deps[v]
          /\ \A d \in deps[v] : DependencySnapshot(v)[d].receipt = receipt[d]
      BY DEF DependencySnapshot
    <2> QED
      BY <1>3, <2>1, <2>2 DEF BasisMap
  <1>7. BasisMap' = [r \in DOMAIN BasisMap \cup {receipt'[v]} |->
                        IF r = receipt'[v] THEN [d \in deps[v] |-> receipt[d]]
                                           ELSE BasisMap[r]]
    <2>1. \A r \in Issued' : BasisMap'[r] = IF r = issued + 1 THEN [d \in deps[v] |-> receipt[d]]
                                                              ELSE BasisMap[r]
      BY <1>3, <1>5, <1>6
    <2>2. BasisMap' = [r \in Issued' |-> BasisMap'[r]]
      BY DEF BasisMap
    <2> QED
      BY <1>1, <1>3, <1>4, <2>1, <2>2
  <1>8. UNCHANGED deps
    BY VerifyGrants
  <1> QED
    BY <1>1, <1>2, <1>3, <1>4, <1>7, <1>8 DEF AcceptanceService!Grant, BasisMap

\* State implements the abstract acceptance service: each transaction grants
\* one acceptance on standing inputs, or withdraws a set of acceptances closed
\* under dependents (verify, _invalidate).
THEOREM StateImplementsAcceptance == Spec => ImplementsAcceptance
  <1>1. ASSUME IInv, IInv', [Next]_vars
        PROVE  [AcceptanceService!ANext]_(AcceptanceService!avars)
    BY <1>1, StepCases, RefinesWithdraw, RefinesGrant DEF AcceptanceService!ANext
  <1> QED
    BY <1>1, RefinesInit, Invariance, PTL DEF Spec, ImplementsAcceptance, AcceptanceService!ASpec

-----------------------------------------------------------------------------
(* The abstract service *)

\* The functions' domains, and ids no acceptance ever uses twice.
AInv ==
    /\ inputs \in [Node -> SUBSET Node]
    /\ DOMAIN accepted = Node
    /\ \A n \in Node : accepted[n] # 0 => accepted[n] \in DOMAIN basis
    /\ Grounded

\* Nothing is accepted at the start.
LEMMA AInvInit == AInit => AInv
  BY DEF AInit, AInv, Grounded

\* A grant rests on standing acceptances, and touches no other.
LEMMA GrantKeepsGround ==
    ASSUME AInv, NEW n \in Node, Grant(n)
    PROVE  AInv'
  <1> DEFINE id == accepted'[n]
  <1>1. /\ accepted' = [accepted EXCEPT ![n] = id]
        /\ id \notin DOMAIN basis /\ id # 0
        /\ accepted[n] = 0 /\ \A d \in inputs[n] : accepted[d] # 0
        /\ inputs' = inputs /\ inputs \in [Node -> SUBSET Node]
    BY DEF Grant, AInv
  <1>2. \A m \in Node \ {n} : accepted'[m] = accepted[m]
    BY <1>1 DEF AInv
  <1>3. /\ DOMAIN basis' = DOMAIN basis \cup {id}
        /\ basis'[id] = [d \in inputs[n] |-> accepted[d]]
        /\ \A r \in DOMAIN basis : basis'[r] = basis[r]
    BY <1>1 DEF Grant
  <1>4. n \notin inputs[n]
    BY <1>1
  <1>5. ASSUME NEW m \in Node, accepted'[m] # 0
        PROVE  /\ accepted'[m] \in DOMAIN basis'
               /\ basis'[accepted'[m]] = [d \in inputs'[m] |-> accepted'[d]]
               /\ \A d \in inputs'[m] : accepted'[d] # 0
    <2>1. CASE m = n
      <3>1. \A d \in inputs[n] : d \in Node \ {n} /\ accepted'[d] = accepted[d]
        BY <1>1, <1>2, <1>4
      <3> QED
        BY <2>1, <3>1, <1>1, <1>3
    <2>2. CASE m # n
      <3>1. accepted[m] # 0 /\ accepted'[m] = accepted[m]
        BY <2>2, <1>2, <1>5
      <3>2. /\ accepted[m] \in DOMAIN basis
            /\ basis[accepted[m]] = [d \in inputs[m] |-> accepted[d]]
            /\ \A d \in inputs[m] : accepted[d] # 0
        BY <3>1 DEF AInv, Grounded
      <3>3. \A d \in inputs[m] : d \in Node \ {n} /\ accepted'[d] = accepted[d]
        BY <3>2, <1>1, <1>2
      <3> QED
        BY <3>1, <3>2, <3>3, <1>1, <1>3
    <2> QED
      BY <2>1, <2>2
  <1>6. DOMAIN accepted' = Node
    BY <1>1 DEF AInv
  <1> QED
    BY <1>1, <1>5, <1>6 DEF AInv, Grounded

\* A withdrawal closed under dependents takes nothing away from under an
\* acceptance that stays.
LEMMA WithdrawKeepsGround ==
    ASSUME AInv, Withdraw
    PROVE  AInv'
  <1>1. /\ inputs' \in [Node -> SUBSET Node] /\ basis' = basis /\ DOMAIN accepted' = Node
        /\ inputs \in [Node -> SUBSET Node]
    BY DEF Withdraw, AInv
  <1>2. ASSUME NEW m \in Node, accepted'[m] # 0
        PROVE  /\ accepted'[m] \in DOMAIN basis'
               /\ basis'[accepted'[m]] = [d \in inputs'[m] |-> accepted'[d]]
               /\ \A d \in inputs'[m] : accepted'[d] # 0
    <2>1. accepted'[m] = accepted[m] /\ inputs'[m] = inputs[m]
      BY <1>2 DEF Withdraw
    <2>2. \A d \in inputs[m] : accepted'[d] # 0 /\ accepted'[d] = accepted[d]
      BY <1>1, <1>2 DEF Withdraw
    <2> QED
      BY <1>1, <1>2, <2>1, <2>2 DEF AInv, Grounded
  <1> QED
    BY <1>1, <1>2 DEF AInv, Grounded

\* In the abstract service every standing acceptance rests on exactly the
\* acceptances it was granted on, and all of those still stand: whatever
\* implements the service (StateImplementsAcceptance) never shows a node as
\* accepted over an input that was withdrawn or accepted anew since.
THEOREM AcceptancesAreGrounded == ASpec => []Grounded
  <1>1. AInv /\ [ANext]_avars => AInv'
    <2> SUFFICES ASSUME AInv, [ANext]_avars PROVE AInv'
      OBVIOUS
    <2>1. CASE UNCHANGED avars
      BY <2>1 DEF avars, AInv, Grounded
    <2>2. CASE ANext
      BY <2>2, GrantKeepsGround, WithdrawKeepsGround DEF ANext
    <2> QED
      BY <2>1, <2>2
  <1>2. AInv => Grounded
    BY DEF AInv
  <1> QED
    BY <1>1, <1>2, AInvInit, PTL DEF ASpec

-----------------------------------------------------------------------------
(* What a step may do to a node *)

\* A node that exists stays, its revision only grows, its contract and edges
\* change only with its revision, and SUPERSEDED is final.
NodeAdvances(n) ==
    status[n] # "ABSENT" =>
        /\ status'[n] # "ABSENT"
        /\ revision[n] <= revision'[n]
        /\ revision'[n] = revision[n] => contract'[n] = contract[n] /\ deps'[n] = deps[n]
        /\ status[n] = "SUPERSEDED" => status'[n] = "SUPERSEDED" /\ revision'[n] = revision[n]

\* Invalidation writes neither an absent nor a superseded node's status away.
LEMMA StaleAdvances ==
    ASSUME NEW n \in Node, NEW m \in Node
    PROVE  /\ status[m] # "ABSENT" => StaleStatus(n)[m] # "ABSENT"
           /\ status[m] = "SUPERSEDED" => StaleStatus(n)[m] = "SUPERSEDED"
  BY DEF StaleStatus

\* The operations on the graph advance every node.
LEMMA GraphAdvances ==
    ASSUME TypeOK, GraphNext, NEW m \in Node
    PROVE  NodeAdvances(m)
  <1>0. revision[m] \in 0..MaxRevision /\ MaxRevision \in Nat
    BY GraphAssumption DEF TypeOK, GraphTypeOK
  <1>1. ASSUME NEW new \in Batch, NEW d \in [new -> DepChoice], NEW c \in [new -> Contract],
               AddNodes(new, d, c)
        PROVE  NodeAdvances(m)
    BY <1>0, <1>1 DEF AddNodes, AddGuard, Extended, Present, NodeAdvances
  <1>2. ASSUME NEW new \in Batch, NEW d \in [new -> DepChoice], NEW st \in [new -> ImportStatus],
               ImportTasks(new, d, st)
        PROVE  NodeAdvances(m)
    BY <1>0, <1>2 DEF ImportTasks, AddGuard, Extended, Present, NodeAdvances
  <1>3. ASSUME NEW n \in Node, NEW c \in Contract, NEW d \in DepChoice \cup {deps[n]},
               ReviseNode(n, c, d)
        PROVE  NodeAdvances(m)
    <2>1. /\ status[n] # "SUPERSEDED" /\ status' = StaleStatus(n)
          /\ revision'[m] = IF m = n THEN revision[m] + 1 ELSE revision[m]
          /\ m # n => contract'[m] = contract[m] /\ deps'[m] = deps[m]
      BY <1>3 DEF ReviseNode, TypeOK, GraphTypeOK
    <2> QED
      BY <1>0, <2>1, StaleAdvances DEF NodeAdvances
  <1>4. ASSUME NEW n \in Node, NEW new \in Batch, NEW d \in [new -> DepChoice],
               NEW c \in [new -> Contract], SplitNode(n, new, d, c)
        PROVE  NodeAdvances(m)
    <2>1. status[n] # "SUPERSEDED" /\ (status[m] # "ABSENT" => m \notin new)
      BY <1>4 DEF SplitNode, AddGuard, Present
    <2>2. m \notin new => /\ status'[m] = StaleStatus(n)[m]
                          /\ revision'[m] = IF m = n THEN revision[m] + 1 ELSE revision[m]
                          /\ contract'[m] = contract[m]
                          /\ m # n => deps'[m] = deps[m]
      BY <1>4 DEF SplitNode, Extended
    <2> QED
      BY <1>0, <2>1, <2>2, StaleAdvances DEF NodeAdvances
  <1>5. ASSUME NEW n \in Node, SupersedeNode(n)
        PROVE  NodeAdvances(m)
    <2>1. /\ status'[m] = IF m = n THEN "SUPERSEDED" ELSE StaleStatus(n)[m]
          /\ UNCHANGED <<revision, contract, deps>>
      BY <1>5 DEF SupersedeNode, StaleStatus
    <2> QED
      BY <1>0, <2>1, StaleAdvances DEF NodeAdvances
  <1> QED
    BY <1>1, <1>2, <1>3, <1>4, <1>5 DEF GraphNext

\* So does every other transaction.
LEMMA NodesAdvance ==
    ASSUME TypeOK, [Next]_vars, NEW m \in Node
    PROVE  NodeAdvances(m)
  <1>0. revision[m] \in 0..MaxRevision /\ MaxRevision \in Nat
    BY GraphAssumption DEF TypeOK, GraphTypeOK
  <1>1. ASSUME NEW n \in Node, NEW cond, InvalidateIf(cond, n),
               UNCHANGED <<revision, contract, deps>>
        PROVE  NodeAdvances(m)
    BY <1>0, <1>1, StaleAdvances DEF InvalidateIf, NodeAdvances
  <1>2. ASSUME NEW n \in Node, NEW st, status' = [status EXCEPT ![n] = st],
               st = status[n] \/ (st # "ABSENT" /\ status[n] # "SUPERSEDED"),
               UNCHANGED <<revision, contract, deps>>
        PROVE  NodeAdvances(m)
    <2>1. status'[m] = IF m = n THEN st ELSE status[m]
      BY <1>2 DEF TypeOK, GraphTypeOK
    <2> QED
      BY <1>0, <1>2, <2>1 DEF NodeAdvances
  <1>3. ASSUME UNCHANGED graphVars
        PROVE  NodeAdvances(m)
    BY <1>0, <1>3 DEF NodeAdvances, graphVars
  <1>4. \A a \in Made : attempts[a].node \in Node
    BY MadeAreRows DEF AttemptRow
  <1>5. CASE LaunchNext
    BY <1>2, <1>3, <1>5 DEF LaunchNext, Reserve, RecordPreflightFailure, ClaimLaunch,
                            RetireReservation, LaunchUncertain, BindRun
  <1>6. CASE ObserveNext
    <2>1. ASSUME NEW a \in Made, NEW seen \in Seen, NEW art \in Artifact \cup {NoArtifact},
                 Reconcile(a, seen, art)
          PROVE  NodeAdvances(m)
      <3> DEFINE n == attempts[a].node
                 s == IF status[n] = "VERIFIED" THEN status[n] ELSE "CANDIDATE"
      <3>1. \/ status' = [status EXCEPT ![n] = s] /\ PinsCurrent(a)
            \/ InvalidateIf(AcceptedBy(n, a), n)
        BY <2>1, <1>4 DEF Reconcile, TypeOK, GraphTypeOK
      <3>2. UNCHANGED <<revision, contract, deps>>
        BY <2>1 DEF Reconcile
      <3>3. PinsCurrent(a) => status[n] # "SUPERSEDED"
        BY DEF PinsCurrent
      <3>4. n \in Node
        BY <1>4
      <3> HIDE DEF n
      <3> QED
        BY <1>1, <1>2, <3>1, <3>2, <3>3, <3>4
    <2>2. ASSUME NEW a \in Made, NEW seen \in Seen, NEW art \in Artifact \cup {NoArtifact},
                 Observe(a, seen, art)
          PROVE  NodeAdvances(m)
      <3> DEFINE n == attempts[a].node
                 s == IF IsLatest(a) /\ status[n] # "VERIFIED" THEN "CANDIDATE" ELSE status[n]
      <3>1. \/ status' = [status EXCEPT ![n] = s] /\ PinsCurrent(a)
            \/ InvalidateIf(AcceptedBy(n, a), n)
        BY <2>2, <1>4 DEF Observe, TypeOK, GraphTypeOK
      <3>2. UNCHANGED <<revision, contract, deps>>
        BY <2>2 DEF Observe
      <3>3. PinsCurrent(a) => status[n] # "SUPERSEDED"
        BY DEF PinsCurrent
      <3>4. n \in Node
        BY <1>4
      <3> HIDE DEF n
      <3> QED
        BY <1>1, <1>2, <3>1, <3>2, <3>3, <3>4
    <2> QED
      BY <1>3, <1>6, <2>1, <2>2 DEF ObserveNext, Abandon
  <1>7. CASE AcceptNext
    <2>1. ASSUME NEW a \in Made, NEW c \in Criterion, NEW verdict \in Verdict,
                 NEW art \in Artifact, RecordEvidence(a, c, verdict, art)
          PROVE  NodeAdvances(m)
      BY <1>1, <1>4, <2>1 DEF RecordEvidence
    <2>2. ASSUME NEW n \in Node, NEW a \in Made, Verify(n, a)
          PROVE  NodeAdvances(m)
      <3>1. status[n] # "SUPERSEDED"
        BY <2>2 DEF Verify, EligibleCandidate, PinsCurrent
      <3> QED
        BY <1>2, <2>2, <3>1 DEF Verify
    <2> QED
      BY <1>7, <2>1, <2>2 DEF AcceptNext
  <1>8. CASE UNCHANGED vars
    BY <1>3, <1>8 DEF vars
  <1> QED
    BY <1>5, <1>6, <1>7, <1>8, GraphAdvances DEF Next

\* A receipt is withdrawn, kept, or the one just issued; what was issued stays.
LEMMA ReceiptsAdvance ==
    ASSUME IInv, [Next]_vars
    PROVE  /\ \A n \in Node : receipt'[n] \in {0, receipt[n], issued + 1}
           /\ Issued \subseteq Issued'
           /\ \A r \in Issued : acceptances'[r] = acceptances[r]
  <1>1. ASSUME NEW W \in SUBSET Node, Withdraws(W)
        PROVE  /\ \A n \in Node : receipt'[n] \in {0, receipt[n], issued + 1}
               /\ Issued' = Issued /\ acceptances' = acceptances
    BY <1>1 DEF Withdraws, Issued
  <1>2. ASSUME NEW v \in Node, NEW a \in Made, Verify(v, a)
        PROVE  /\ \A n \in Node : receipt'[n] \in {0, receipt[n], issued + 1}
               /\ Issued \subseteq Issued'
               /\ \A r \in Issued : acceptances'[r] = acceptances[r]
    BY <1>2, VerifyGrants DEF IInv, TypeOK, GraphTypeOK, Issued
  <1> QED
    BY <1>1, <1>2, StepCases

\* SUPERSEDED is final for a node: no late report, import, verification or
\* invalidation brings it back, revises it or accepts it.
THEOREM SupersessionIsFinal == Spec => SupersededIsFinal
  <1>1. IInv /\ [Next]_vars => [\A n \in Node : status[n] = "SUPERSEDED" =>
             status'[n] = "SUPERSEDED" /\ revision'[n] = revision[n] /\ receipt'[n] = 0]_vars
    <2> SUFFICES ASSUME IInv, [Next]_vars, NEW n \in Node, status[n] = "SUPERSEDED"
                 PROVE  status'[n] = "SUPERSEDED" /\ revision'[n] = revision[n] /\ receipt'[n] = 0
      OBVIOUS
    <2>1. status'[n] = "SUPERSEDED" /\ revision'[n] = revision[n]
      BY NodesAdvance DEF NodeAdvances, IInv
    <2>2. AcceptedOnCurrentInputs'
      BY InvStep DEF IInv
    <2> QED
      BY <2>1, <2>2 DEF AcceptedOnCurrentInputs
  <1> QED
    BY <1>1, Invariance, PTL DEF Spec, SupersededIsFinal


-----------------------------------------------------------------------------
(* What the attempts of a node look like *)

\* Only the newest attempt of a node may be in progress.
ActiveIsLatest ==
    \A a \in Made : attempts[a].status \in ACTIVE => IsLatest(a)

\* The pins of attempt a.  A revision fixes the contract and the edges, so they
\* can differ from the node's only if the revision does; and a receipt fixes the
\* rest of the row it was pinned with.
PinsAreGrounded(a) ==
    LET at == attempts[a]
    IN  /\ status[at.node] # "ABSENT"
        /\ at.revision <= revision[at.node]
        /\ at.revision = revision[at.node] =>
              at.contract = contract[at.node] /\ DOMAIN at.snapshot = deps[at.node]
        /\ \A d \in DOMAIN at.snapshot :
              LET r == at.snapshot[d].receipt
              IN  /\ d \in Node /\ r \in Issued
                  /\ at.snapshot[d] = [revision |-> acceptances[r].revision,
                                       contract |-> acceptances[r].contract,
                                       status |-> "VERIFIED", receipt |-> r]

\* A run that was superseded after it was bound had stale pins; reconcile
\* would otherwise read its candidate report as one on current inputs.
RetiredIsStale(a) ==
    attempts[a].status = "superseded" /\ attempts[a].bound => ~PinsCurrent(a)

\* An external attempt has no artifact before its harness reports the candidate.
ExternalArtifactIsFinal(a) ==
    attempts[a].kind = "external" /\ attempts[a].status \in ACTIVE =>
        attempts[a].artifact = NoArtifact

AttemptsSound ==
    \A a \in Made : PinsAreGrounded(a) /\ RetiredIsStale(a) /\ ExternalArtifactIsFinal(a)

JInv ==
    /\ IInv
    /\ ActiveIsLatest
    /\ AttemptsSound
    /\ AcceptedCandidateStands
    /\ AcceptedEvidenceIsLastWord

-----------------------------------------------------------------------------
(* What a step may do to an attempt *)

\* The columns fixed when the attempt was reserved.
SamePins(a) ==
    /\ attempts'[a].node = attempts[a].node
    /\ attempts'[a].revision = attempts[a].revision
    /\ attempts'[a].contract = attempts[a].contract
    /\ attempts'[a].snapshot = attempts[a].snapshot
    /\ attempts'[a].kind = attempts[a].kind

\* A settled attempt stays settled, a retired one stays as it is, and a pinned
\* artifact is never replaced.
Settles(a) ==
    /\ attempts[a].status \in TERMINAL => attempts'[a].status \in TERMINAL
    /\ attempts[a].status \in {"superseded", "abandoned"} =>
          attempts'[a].status = attempts[a].status
    /\ attempts[a].artifact # NoArtifact => attempts'[a].artifact = attempts[a].artifact

\* What a transaction on the made attempt a does to its row; if the attempt is
\* no longer a candidate, the acceptance resting on it goes with it.
Reports(a) ==
    /\ UNCHANGED <<attemptSeq, evidence, evidenceSeq>>
    /\ \A b \in Made \ {a} : attempts'[b] = attempts[b]
    /\ SamePins(a)
    /\ Settles(a)
    /\ attempts'[a].status = "superseded" /\ attempts'[a].bound => ~PinsCurrent(a)
    /\ attempts'[a].kind = "external" /\ attempts'[a].status \in ACTIVE =>
          attempts'[a].artifact = NoArtifact
    /\ AcceptedBy(attempts[a].node, a) /\ attempts'[a].status # "candidate" =>
          receipt'[attempts[a].node] = 0

\* An attempt in progress is not the one behind an acceptance.
LEMMA ActiveIsNotAccepted ==
    ASSUME JInv, NEW a \in Made, attempts[a].status # "candidate"
    PROVE  ~AcceptedBy(attempts[a].node, a)
  <1>1. attempts[a].node \in Node
    BY MadeAreRows DEF JInv, IInv, AttemptRow
  <1> QED
    BY <1>1 DEF JInv, AcceptedCandidateStands, AcceptedBy

\* A transaction that writes only the status of an attempt in progress.
LEMMA SetAttemptReports ==
    ASSUME JInv, NEW a \in Made, NEW st, SetAttempt(a, st),
           attempts[a].status \in ACTIVE,
           st \in ACTIVE \cup TERMINAL,
           st = "superseded" => ~attempts[a].bound \/ ~PinsCurrent(a),
           UNCHANGED <<attemptSeq, evidence, evidenceSeq>>
    PROVE  Reports(a)
  <1>1. a \in AttemptId /\ attempts[a] \in AttemptRow /\ DOMAIN attempts = AttemptId
    BY MadeAreRows DEF JInv, IInv, TypeOK
  <1>2. attempts'[a] = [attempts[a] EXCEPT !.status = st]
    BY <1>1 DEF SetAttempt
  <1>3. \A b \in Made \ {a} : attempts'[b] = attempts[b]
    BY <1>1 DEF SetAttempt
  <1>4. /\ attempts'[a].status = st /\ attempts'[a].bound = attempts[a].bound
        /\ attempts'[a].artifact = attempts[a].artifact /\ SamePins(a)
    BY <1>1, <1>2 DEF SamePins, AttemptRow
  <1>5. attempts[a].status # "candidate" /\ attempts[a].status \notin TERMINAL
    BY DEF ACTIVE, TERMINAL
  <1>6. ~AcceptedBy(attempts[a].node, a)
    BY <1>5, ActiveIsNotAccepted
  <1>7. attempts[a].kind = "external" => attempts[a].artifact = NoArtifact
    BY DEF JInv, AttemptsSound, ExternalArtifactIsFinal
  <1>8. Settles(a)
    BY <1>4, <1>5 DEF Settles, TERMINAL
  <1> QED
    BY <1>3, <1>4, <1>6, <1>7, <1>8 DEF Reports, SamePins

\* Writing one row of the table.
LEMMA RowWritten ==
    ASSUME JInv, NEW a \in Made, NEW row, attempts' = [attempts EXCEPT ![a] = row]
    PROVE  attempts'[a] = row /\ \A b \in Made \ {a} : attempts'[b] = attempts[b]
  <1>1. DOMAIN attempts = AttemptId /\ \A b \in Made : b \in AttemptId
    BY MadeAreRows DEF JInv, IInv, TypeOK
  <1> QED
    BY <1>1

\* The launch transactions.
LEMMA LaunchReports ==
    ASSUME JInv, NEW a \in Made,
           \/ RecordPreflightFailure(a)
           \/ ClaimLaunch(a)
           \/ RetireReservation(a)
           \/ LaunchUncertain(a)
           \/ Abandon(a)
           \/ \E paused \in BOOLEAN : BindRun(a, paused)
    PROVE  Reports(a)
  <1>1. CASE RecordPreflightFailure(a)
    BY <1>1, SetAttemptReports DEF RecordPreflightFailure, ACTIVE, TERMINAL
  <1>2. CASE ClaimLaunch(a)
    <2>1. CASE PinsCurrent(a)
      BY <1>2, <2>1, SetAttemptReports DEF ClaimLaunch, ACTIVE, TERMINAL
    <2>2. CASE ~PinsCurrent(a)
      BY <1>2, <2>2, SetAttemptReports DEF ClaimLaunch, ACTIVE, TERMINAL
    <2> QED
      BY <2>1, <2>2
  <1>3. CASE RetireReservation(a)
    BY <1>3, SetAttemptReports DEF RetireReservation, ACTIVE, TERMINAL
  <1>4. CASE LaunchUncertain(a)
    BY <1>4, SetAttemptReports DEF LaunchUncertain, ACTIVE, TERMINAL
  <1>5. CASE Abandon(a)
    BY <1>5, SetAttemptReports DEF Abandon, ACTIVE, TERMINAL
  <1>6. ASSUME NEW paused \in BOOLEAN, BindRun(a, paused)
        PROVE  Reports(a)
    <2> DEFINE st == IF paused THEN "paused" ELSE "running"
    <2>1. a \in AttemptId /\ attempts[a] \in AttemptRow /\ DOMAIN attempts = AttemptId
      BY MadeAreRows DEF JInv, IInv, TypeOK
    <2> DEFINE row == [attempts[a] EXCEPT !.bound = TRUE, !.status = st]
    <2>2. attempts' = [attempts EXCEPT ![a] = row]
      BY <1>6, <2>1 DEF BindRun
    <2>3. attempts'[a] = row /\ \A b \in Made \ {a} : attempts'[b] = attempts[b]
      <3> HIDE DEF row
      <3> QED BY <2>2, RowWritten
    <2>4. /\ attempts'[a].status = st /\ attempts'[a].artifact = attempts[a].artifact
          /\ SamePins(a)
      BY <2>1, <2>3 DEF SamePins, AttemptRow
    <2>5. attempts[a].kind = "skillflow" /\ attempts[a].status \in ACTIVE
      BY <1>6 DEF BindRun
    <2>6. attempts[a].status # "candidate" /\ attempts[a].status \notin TERMINAL
      BY <2>5 DEF ACTIVE, TERMINAL
    <2>7. Settles(a)
      BY <2>4, <2>6 DEF Settles, TERMINAL
    <2>8. UNCHANGED <<attemptSeq, evidence, evidenceSeq>>
      BY <1>6 DEF BindRun
    <2>9. st # "superseded"
      OBVIOUS
    <2> QED
      BY <2>3, <2>4, <2>5, <2>6, <2>7, <2>8, <2>9, ActiveIsNotAccepted DEF Reports, SamePins
  <1> QED
    BY <1>1, <1>2, <1>3, <1>4, <1>5, <1>6

\* Withdrawing the acceptance of a node clears its receipt.
LEMMA InvalidateClears ==
    ASSUME IInv, NEW n \in Node, receipt[n] # 0, NEW cond, cond, InvalidateIf(cond, n)
    PROVE  receipt'[n] = 0
  <1>1. status[n] = "VERIFIED"
    BY DEF IInv, AcceptedOnCurrentInputs
  <1> QED
    BY <1>1, AffectedClosed DEF InvalidateIf, StaleReceipt

\* reconcile
LEMMA ReconcileReports ==
    ASSUME JInv, NEW a \in Made, NEW seen \in Seen, NEW art \in Artifact \cup {NoArtifact},
           Reconcile(a, seen, art)
    PROVE  Reports(a)
  <1> DEFINE n == attempts[a].node
             st == IF seen \in {"candidate", "failed"} /\ ~PinsCurrent(a)
                   THEN "superseded" ELSE seen
             artifact == IF art # NoArtifact /\ st = "candidate"
                         THEN art ELSE attempts[a].artifact
  <1>1. a \in AttemptId /\ attempts[a] \in AttemptRow /\ DOMAIN attempts = AttemptId
    BY MadeAreRows DEF JInv, IInv, TypeOK
  <1> DEFINE row == [attempts[a] EXCEPT !.status = st, !.artifact = artifact]
  <1>2. attempts' = [attempts EXCEPT ![a] = row]
    BY <1>1 DEF Reconcile
  <1>3. attempts'[a] = row /\ \A b \in Made \ {a} : attempts'[b] = attempts[b]
    <2> HIDE DEF row
    <2> QED BY <1>2, RowWritten
  <1>4. /\ attempts'[a].status = st /\ attempts'[a].bound = attempts[a].bound
        /\ attempts'[a].artifact = artifact /\ SamePins(a)
    BY <1>1, <1>3 DEF SamePins, AttemptRow
  <1>5. /\ attempts[a].kind = "skillflow" /\ attempts[a].bound
        /\ ~(attempts[a].status \in TERMINAL /\ st \in ACTIVE)
        /\ attempts[a].status # "abandoned"
        /\ artifact # attempts[a].artifact => attempts[a].artifact = NoArtifact
        /\ UNCHANGED <<attemptSeq, evidence, evidenceSeq>>
    BY DEF Reconcile, Revived
  <1>6. /\ st \in ACTIVE \cup {"candidate", "failed", "superseded"}
        /\ st \in {"candidate", "failed"} => PinsCurrent(a)
        /\ st = "superseded" => ~PinsCurrent(a)
    BY AttemptAssumption DEF ACTIVE
  <1>7. attempts[a].status = "superseded" => ~PinsCurrent(a)
    BY <1>5 DEF JInv, AttemptsSound, RetiredIsStale
  <1>8. st # "candidate" => InvalidateIf(AcceptedBy(n, a), n)
    BY DEF Reconcile
  <1>9. n \in Node
    BY <1>1 DEF AttemptRow
  <1> HIDE DEF n, st, artifact, row
  <1>10. Settles(a)
    BY <1>4, <1>5, <1>6, <1>7 DEF Settles, TERMINAL, ACTIVE
  <1>11. AcceptedBy(n, a) /\ st # "candidate" => receipt'[n] = 0
    BY <1>8, <1>9, InvalidateClears DEF AcceptedBy, JInv
  <1> QED
    BY <1>3, <1>4, <1>5, <1>6, <1>10, <1>11 DEF Reports, SamePins, n

\* observe
LEMMA ObserveReports ==
    ASSUME JInv, NEW a \in Made, NEW seen \in Seen, NEW art \in Artifact \cup {NoArtifact},
           Observe(a, seen, art)
    PROVE  Reports(a)
  <1> DEFINE n == attempts[a].node
             terminal == seen \in {"candidate", "failed"}
             st == IF terminal /\ ~PinsCurrent(a) THEN "superseded" ELSE seen
             artifact == IF seen = "candidate" THEN art ELSE attempts[a].artifact
             reported == IF terminal THEN seen ELSE attempts[a].reported
  <1>1. a \in AttemptId /\ attempts[a] \in AttemptRow /\ DOMAIN attempts = AttemptId
    BY MadeAreRows DEF JInv, IInv, TypeOK
  <1> DEFINE row == [attempts[a] EXCEPT !.status = st, !.artifact = artifact,
                                        !.reported = reported]
  <1>2. attempts' = [attempts EXCEPT ![a] = row]
    BY <1>1 DEF Observe
  <1>3. attempts'[a] = row /\ \A b \in Made \ {a} : attempts'[b] = attempts[b]
    <2> HIDE DEF row
    <2> QED BY <1>2, RowWritten
  <1>4. /\ attempts'[a].status = st /\ attempts'[a].bound = attempts[a].bound
        /\ attempts'[a].artifact = artifact /\ SamePins(a)
    BY <1>1, <1>3 DEF SamePins, AttemptRow
  <1>5. /\ attempts[a].kind = "external"
        /\ attempts[a].status \notin {"failed", "superseded", "abandoned"}
        /\ attempts[a].status = "candidate" => seen = "failed"
        /\ UNCHANGED <<attemptSeq, evidence, evidenceSeq>>
    BY DEF Observe
  <1>6. /\ st \in ACTIVE \cup {"candidate", "failed", "superseded"}
        /\ st = "superseded" => ~PinsCurrent(a)
        /\ st \in ACTIVE => seen # "candidate"
        /\ seen = "failed" => st \in {"failed", "superseded"}
        /\ seen # "candidate" => artifact = attempts[a].artifact
    BY AttemptAssumption DEF ACTIVE
  <1>7. attempts[a].status \in ACTIVE => attempts[a].artifact = NoArtifact
    BY <1>5 DEF JInv, AttemptsSound, ExternalArtifactIsFinal
  <1>8. st # "candidate" => InvalidateIf(AcceptedBy(n, a), n)
    BY DEF Observe
  <1>9. n \in Node /\ attempts[a].status \in ACTIVE \cup TERMINAL
    BY <1>1 DEF AttemptRow
  <1> HIDE DEF n, st, artifact, reported, terminal, row
  <1>10. attempts[a].status \in ACTIVE \/ attempts[a].status = "candidate"
    BY <1>5, <1>9 DEF TERMINAL
  <1>11. Settles(a)
    BY <1>4, <1>5, <1>6, <1>7, <1>10 DEF Settles, TERMINAL, ACTIVE
  <1>12. AcceptedBy(n, a) /\ st # "candidate" => receipt'[n] = 0
    BY <1>8, <1>9, InvalidateClears DEF AcceptedBy, JInv
  <1>13. st \in ACTIVE => artifact = NoArtifact
    BY <1>5, <1>6, <1>7, <1>10 DEF ACTIVE
  <1> QED
    BY <1>3, <1>4, <1>5, <1>6, <1>11, <1>12, <1>13 DEF Reports, SamePins, n

\* A step reserves an attempt, reports on one, adds evidence, or touches no
\* attempt and no evidence.
LEMMA AttemptCases ==
    ASSUME JInv, [Next]_vars
    PROVE  \/ \E n \in Node, kind \in Kinds : Reserve(n, kind)
           \/ \E a \in Made : Reports(a)
           \/ \E a \in Made, c \in Criterion, verdict \in Verdict, art \in Artifact :
                 RecordEvidence(a, c, verdict, art)
           \/ UNCHANGED <<attempts, attemptSeq, evidence, evidenceSeq>>
  <1>1. CASE GraphNext /\ UNCHANGED attemptVars
    BY <1>1 DEF attemptVars
  <1>2. CASE LaunchNext
    BY <1>2, LaunchReports DEF LaunchNext
  <1>3. CASE ObserveNext
    BY <1>3, LaunchReports, ReconcileReports, ObserveReports DEF ObserveNext
  <1>4. CASE AcceptNext
    BY <1>4 DEF AcceptNext, Verify
  <1>5. CASE UNCHANGED vars
    BY <1>5 DEF vars, attemptVars
  <1> QED
    BY <1>1, <1>2, <1>3, <1>4, <1>5 DEF Next

\* reserve appends a row above all others and leaves them alone.
LEMMA ReserveAdds ==
    ASSUME JInv, NEW n \in Node, NEW kind \in Kinds, Reserve(n, kind)
    PROVE  /\ Made' = Made \cup {attemptSeq + 1}
           /\ \A b \in Made : attempts'[b] = attempts[b] /\ b < attemptSeq + 1
           /\ attempts'[attemptSeq + 1] =
                 [node |-> n, revision |-> revision[n], contract |-> contract[n],
                  snapshot |-> DependencySnapshot(n), kind |-> kind, bound |-> FALSE,
                  status |-> IF kind = "external" THEN "running" ELSE "reserved",
                  artifact |-> NoArtifact, reported |-> "none"]
           /\ attempts'[attemptSeq + 1].node = n
  <1> DEFINE row == [node |-> n, revision |-> revision[n], contract |-> contract[n],
                     snapshot |-> DependencySnapshot(n), kind |-> kind, bound |-> FALSE,
                     status |-> IF kind = "external" THEN "running" ELSE "reserved",
                     artifact |-> NoArtifact, reported |-> "none"]
  <1>1. /\ attemptSeq + 1 \in AttemptId /\ Made' = Made \cup {attemptSeq + 1}
        /\ \A b \in Made : b < attemptSeq + 1
    BY AttemptAssumption DEF JInv, IInv, TypeOK, Reserve, AttemptId, Made
  <1>2. attempts' = [attempts EXCEPT ![attemptSeq + 1] = row] /\ DOMAIN attempts = AttemptId
    BY DEF Reserve, JInv, IInv, TypeOK
  <1>3. \A b \in Made : b \in AttemptId /\ b # attemptSeq + 1
    BY <1>1, MadeAreRows, AttemptAssumption DEF JInv, IInv, TypeOK, Made
  <1> HIDE DEF row
  <1>4. attempts'[attemptSeq + 1] = row /\ \A b \in Made : attempts'[b] = attempts[b]
    BY <1>1, <1>2, <1>3
  <1>5. row.node = n
    BY DEF row
  <1>6. attempts'[attemptSeq + 1].node = n
    BY <1>4, <1>5
  <1> QED
    BY <1>1, <1>4, <1>6 DEF row

\* Every made attempt keeps its pins and settles, and its row is rewritten only
\* by a report on it.
LEMMA AttemptsAdvance ==
    ASSUME JInv, [Next]_vars, NEW a \in Made
    PROVE  /\ a \in Made' /\ SamePins(a) /\ Settles(a)
           /\ attempts'[a] = attempts[a] \/ Reports(a)
  <1>1. attempts'[a] = attempts[a] => SamePins(a) /\ Settles(a)
    BY DEF SamePins, Settles
  <1>2. ASSUME NEW n \in Node, NEW kind \in Kinds, Reserve(n, kind)
        PROVE  a \in Made' /\ attempts'[a] = attempts[a]
    BY <1>2, ReserveAdds
  <1>3. ASSUME NEW b \in Made, Reports(b)
        PROVE  /\ a \in Made'
               /\ attempts'[a] = attempts[a] \/ Reports(a)
               /\ Reports(a) => SamePins(a) /\ Settles(a)
    BY <1>3 DEF Reports, Made
  <1>4. ASSUME UNCHANGED <<attempts, attemptSeq>>
        PROVE  a \in Made' /\ attempts'[a] = attempts[a]
    BY <1>4 DEF Made
  <1>5. ASSUME NEW b \in Made, NEW c \in Criterion, NEW verdict \in Verdict, NEW art \in Artifact,
               RecordEvidence(b, c, verdict, art)
        PROVE  a \in Made' /\ attempts'[a] = attempts[a]
    <2>1. UNCHANGED <<attempts, attemptSeq>>
      BY <1>5 DEF RecordEvidence
    <2> QED
      BY <1>4, <2>1
  <1> QED
    BY <1>1, <1>2, <1>3, <1>4, <1>5, AttemptCases

-----------------------------------------------------------------------------
(* Pins *)

\* Pins are current when the revision is, the node stands, and every dependency
\* still holds the receipt it was pinned with.
LEMMA PinsReadReceipts ==
    ASSUME IInv, NEW a \in Made, PinsAreGrounded(a), ~PinsCurrent(a)
    PROVE  \/ attempts[a].revision < revision[attempts[a].node]
           \/ status[attempts[a].node] = "SUPERSEDED"
           \/ \E d \in DOMAIN attempts[a].snapshot : receipt[d] # attempts[a].snapshot[d].receipt
  <1> DEFINE at == attempts[a]
             n == attempts[a].node
  <1> SUFFICES ASSUME at.revision = revision[n], status[n] # "SUPERSEDED",
                      \A d \in DOMAIN at.snapshot : receipt[d] = at.snapshot[d].receipt
               PROVE  PinsCurrent(a)
    <2>1. attempts[a] \in AttemptRow
      BY MadeAreRows DEF IInv
    <2>2. at.revision \in Nat /\ revision[n] \in Nat /\ at.revision <= revision[n]
      BY <2>1, GraphAssumption DEF AttemptRow, IInv, TypeOK, GraphTypeOK, PinsAreGrounded
    <2>3. at.revision < revision[n] \/ at.revision = revision[n]
      BY <2>2
    <2> QED
      BY <2>3
  <1>1. at.contract = contract[n] /\ DOMAIN at.snapshot = deps[n]
    BY DEF PinsAreGrounded
  <1>2. \A d \in deps[n] :
            /\ d \in Node /\ receipt[d] \in Issued
            /\ at.snapshot[d] = [revision |-> acceptances[receipt[d]].revision,
                                 contract |-> acceptances[receipt[d]].contract,
                                 status |-> "VERIFIED", receipt |-> receipt[d]]
    BY <1>1 DEF PinsAreGrounded
  <1>3. \A d \in deps[n] : receipt[d] # 0
    <2>1. 0 \notin Issued
      BY DEF Issued
    <2> QED
      BY <1>2, <2>1
  <1>4. \A d \in deps[n] : /\ status[d] = "VERIFIED"
                           /\ acceptances[receipt[d]].revision = revision[d]
                           /\ acceptances[receipt[d]].contract = contract[d]
    BY <1>2, <1>3 DEF IInv, AcceptedOnCurrentInputs
  <1>5. \A d \in deps[n] :
            at.snapshot[d] = [revision |-> revision[d], contract |-> contract[d],
                              status |-> status[d], receipt |-> receipt[d]]
    BY <1>2, <1>4
  <1>6. DependencySnapshot(n) = at.snapshot
    <2>1. at.snapshot = [d \in DOMAIN at.snapshot |-> at.snapshot[d]]
      <3>1. at.snapshot \in Snapshot
        BY MadeAreRows DEF IInv, AttemptRow
      <3>2. PICK D \in SUBSET Node : at.snapshot \in [D -> SnapshotRow]
        BY <3>1 DEF Snapshot
      <3> QED
        BY <3>2
    <2> QED
      BY <1>1, <1>5, <2>1 DEF DependencySnapshot
  <1> QED
    BY <1>1, <1>3, <1>4, <1>6 DEF PinsCurrent, DependenciesVerified

\* A pin once grounded stays so: revisions grow, and receipts are never reused.
LEMMA PinsStayGrounded ==
    ASSUME JInv, [Next]_vars, NEW a \in Made
    PROVE  PinsAreGrounded(a)'
  <1> DEFINE at == attempts[a]
             n == attempts[a].node
  <1>1. /\ attempts'[a].node = n /\ attempts'[a].revision = at.revision
        /\ attempts'[a].contract = at.contract /\ attempts'[a].snapshot = at.snapshot
    BY AttemptsAdvance DEF SamePins
  <1>2. PinsAreGrounded(a) /\ IInv /\ TypeOK
    BY DEF JInv, AttemptsSound, IInv
  <1>3. n \in Node /\ at.revision \in Nat /\ revision[n] \in Nat
    BY <1>2, MadeAreRows, GraphAssumption DEF AttemptRow, TypeOK, GraphTypeOK
  <1>4. NodeAdvances(n) /\ revision'[n] \in Nat
    <2>1. TypeOK'
      BY <1>2, TypeStep
    <2> QED
      BY <1>2, <1>3, <2>1, NodesAdvance, GraphAssumption DEF TypeOK, GraphTypeOK
  <1>5. /\ status'[n] # "ABSENT" /\ at.revision <= revision'[n]
        /\ at.revision = revision'[n] =>
              at.contract = contract'[n] /\ DOMAIN at.snapshot = deps'[n]
    <2>1. /\ status[n] # "ABSENT" /\ at.revision <= revision[n]
          /\ at.revision = revision[n] =>
                at.contract = contract[n] /\ DOMAIN at.snapshot = deps[n]
      BY <1>2 DEF PinsAreGrounded
    <2>2. /\ status'[n] # "ABSENT" /\ revision[n] <= revision'[n]
          /\ revision'[n] = revision[n] => contract'[n] = contract[n] /\ deps'[n] = deps[n]
      BY <1>4, <2>1 DEF NodeAdvances
    <2>3. at.revision <= revision'[n]
      BY <1>3, <1>4, <2>1, <2>2
    <2>4. at.revision = revision'[n] => revision[n] = at.revision
      BY <1>3, <1>4, <2>1, <2>2
    <2> QED
      BY <2>1, <2>2, <2>3, <2>4
  <1>6. ASSUME NEW d \in DOMAIN at.snapshot
        PROVE  /\ d \in Node /\ at.snapshot[d].receipt \in Issued'
               /\ at.snapshot[d] =
                     [revision |-> acceptances'[at.snapshot[d].receipt].revision,
                      contract |-> acceptances'[at.snapshot[d].receipt].contract,
                      status |-> "VERIFIED", receipt |-> at.snapshot[d].receipt]
    BY <1>2, ReceiptsAdvance DEF PinsAreGrounded
  <1> QED
    BY <1>1, <1>5, <1>6 DEF PinsAreGrounded

\* The pins a reservation takes are grounded.
LEMMA ReservedIsGrounded ==
    ASSUME JInv, NEW n \in Node, NEW kind \in Kinds, Reserve(n, kind),
           NEW b, b = attemptSeq + 1
    PROVE  PinsAreGrounded(b)'
  <1>0. attempts'[b] =
            [node |-> n, revision |-> revision[n], contract |-> contract[n],
             snapshot |-> DependencySnapshot(n), kind |-> kind, bound |-> FALSE,
             status |-> IF kind = "external" THEN "running" ELSE "reserved",
             artifact |-> NoArtifact, reported |-> "none"]
    BY ReserveAdds
  <1>1. /\ attempts'[b].node = n /\ attempts'[b].revision = revision[n]
        /\ attempts'[b].contract = contract[n] /\ attempts'[b].snapshot = DependencySnapshot(n)
    BY <1>0
  <1>2. /\ status[n] # "ABSENT" /\ DependenciesVerified(n)
        /\ status' = [status EXCEPT ![n] = "OPEN"]
        /\ UNCHANGED <<revision, contract, receipt, deps, acceptances, issued>>
    BY DEF Reserve
  <1>3. status'[n] # "ABSENT" /\ revision[n] <= revision[n] /\ deps[n] \subseteq Node
    BY <1>2, GraphAssumption DEF JInv, IInv, TypeOK, GraphTypeOK
  <1>4. DOMAIN DependencySnapshot(n) = deps[n]
    BY DEF DependencySnapshot
  <1>5. \A d \in deps[n] :
            /\ DependencySnapshot(n)[d].receipt = receipt[d]
            /\ DependencySnapshot(n)[d] = [revision |-> revision[d], contract |-> contract[d],
                                           status |-> "VERIFIED", receipt |-> receipt[d]]
    BY <1>2 DEF DependencySnapshot, DependenciesVerified
  <1>6. \A d \in deps[n] : /\ receipt[d] \in Issued
                           /\ acceptances[receipt[d]].revision = revision[d]
                           /\ acceptances[receipt[d]].contract = contract[d]
    BY <1>2, <1>3 DEF JInv, IInv, AcceptedOnCurrentInputs, DependenciesVerified
  <1>7. Issued' = Issued
    BY <1>2 DEF Issued
  <1> DEFINE S == DependencySnapshot(n)
  <1>8. \A d \in DOMAIN S :
            /\ d \in Node /\ S[d].receipt \in Issued'
            /\ S[d] = [revision |-> acceptances'[S[d].receipt].revision,
                       contract |-> acceptances'[S[d].receipt].contract,
                       status |-> "VERIFIED", receipt |-> S[d].receipt]
    <2> SUFFICES ASSUME NEW d \in deps[n]
                 PROVE  /\ d \in Node /\ S[d].receipt \in Issued'
                        /\ S[d] = [revision |-> acceptances'[S[d].receipt].revision,
                                   contract |-> acceptances'[S[d].receipt].contract,
                                   status |-> "VERIFIED", receipt |-> S[d].receipt]
      BY <1>4
    <2>1. S[d].receipt = receipt[d] /\ d \in Node /\ receipt[d] \in Issued'
      BY <1>3, <1>5, <1>6, <1>7
    <2>2. /\ acceptances'[receipt[d]].revision = revision[d]
          /\ acceptances'[receipt[d]].contract = contract[d]
      BY <1>2, <1>6
    <2>3. S[d] = [revision |-> revision[d], contract |-> contract[d],
                  status |-> "VERIFIED", receipt |-> receipt[d]]
      BY <1>5
    <2> HIDE DEF S
    <2> QED
      BY <2>1, <2>2, <2>3
  <1>9. DOMAIN S = deps'[n] /\ attempts'[b].snapshot = S
    BY <1>1, <1>2, <1>4
  <1> HIDE DEF S
  <1> QED
    BY <1>1, <1>2, <1>3, <1>8, <1>9 DEF PinsAreGrounded

\* Stale pins stay stale.
LEMMA StalePinsStep ==
    ASSUME JInv, [Next]_vars, NEW a \in Made, ~PinsCurrent(a)
    PROVE  ~PinsCurrent(a)'
  <1> DEFINE at == attempts[a]
             n == attempts[a].node
  <1>1. /\ attempts'[a].node = n /\ attempts'[a].revision = at.revision
        /\ attempts'[a].snapshot = at.snapshot
    BY AttemptsAdvance DEF SamePins
  <1>2. PinsAreGrounded(a) /\ IInv /\ TypeOK /\ TypeOK'
    BY TypeStep DEF JInv, AttemptsSound, IInv
  <1>3. n \in Node /\ at.revision \in Nat /\ revision[n] \in Nat /\ revision'[n] \in Nat
    BY <1>2, MadeAreRows, GraphAssumption DEF AttemptRow, TypeOK, GraphTypeOK
  <1>4. NodeAdvances(n) /\ status[n] # "ABSENT"
    BY <1>2, <1>3, NodesAdvance DEF PinsAreGrounded
  <1>5. PinsCurrent(a)' => /\ revision'[n] = at.revision /\ status'[n] # "SUPERSEDED"
                           /\ \A d \in DOMAIN at.snapshot : receipt'[d] = at.snapshot[d].receipt
    <2>1. PinsCurrent(a)' => /\ revision'[n] = at.revision /\ status'[n] # "SUPERSEDED"
                             /\ DependencySnapshot(n)' = at.snapshot
      BY <1>1 DEF PinsCurrent
    <2>2. /\ DOMAIN DependencySnapshot(n)' = deps'[n]
          /\ \A d \in deps'[n] : DependencySnapshot(n)'[d].receipt = receipt'[d]
      BY <1>1 DEF DependencySnapshot
    <2> QED
      BY <2>1, <2>2
  <1>6. CASE at.revision < revision[n]
    BY <1>3, <1>4, <1>5, <1>6 DEF NodeAdvances
  <1>7. CASE status[n] = "SUPERSEDED"
    BY <1>4, <1>5, <1>7 DEF NodeAdvances
  <1>8. ASSUME NEW d \in DOMAIN at.snapshot, receipt[d] # at.snapshot[d].receipt
        PROVE  ~PinsCurrent(a)'
    <2>1. d \in Node /\ at.snapshot[d].receipt \in Issued
      BY <1>2 DEF PinsAreGrounded
    <2>2. receipt'[d] \in {0, receipt[d], issued + 1}
      BY <1>2, <2>1, ReceiptsAdvance
    <2>3. at.snapshot[d].receipt # 0 /\ at.snapshot[d].receipt # issued + 1
      BY <1>2, <2>1, AttemptAssumption DEF Issued, TypeOK
    <2> QED
      BY <1>5, <1>8, <2>2, <2>3
  <1> QED
    BY <1>2, <1>6, <1>7, <1>8, PinsReadReceipts

-----------------------------------------------------------------------------
(* The invariant on attempts is inductive *)

\* An attempt of the next state is an old one or the one just reserved.
LEMMA NewAttempts ==
    ASSUME JInv, [Next]_vars
    PROVE  \/ Made' = Made
           \/ \E n \in Node, kind \in Kinds : Reserve(n, kind)
  BY AttemptCases DEF Reports, RecordEvidence, Made

\* What is true of the attempts of a node, one by one, stays true.
LEMMA AttemptsStaySound ==
    ASSUME JInv, [Next]_vars
    PROVE  AttemptsSound'
  <1>1. ASSUME NEW a \in Made
        PROVE  PinsAreGrounded(a)' /\ RetiredIsStale(a)' /\ ExternalArtifactIsFinal(a)'
    <2>1. RetiredIsStale(a) /\ ExternalArtifactIsFinal(a)
      BY DEF JInv, AttemptsSound
    <2>2. attempts'[a] = attempts[a] \/ Reports(a)
      BY AttemptsAdvance
    <2>3. RetiredIsStale(a)'
      <3>1. attempts'[a].status = "superseded" /\ attempts'[a].bound => ~PinsCurrent(a)
        BY <2>1, <2>2 DEF RetiredIsStale, Reports
      <3> QED
        BY <3>1, StalePinsStep DEF RetiredIsStale
    <2>4. ExternalArtifactIsFinal(a)'
      BY <2>1, <2>2 DEF ExternalArtifactIsFinal, Reports
    <2> QED
      BY <2>3, <2>4, PinsStayGrounded
  <1>2. CASE Made' = Made
    BY <1>1, <1>2 DEF AttemptsSound
  <1>3. ASSUME NEW n \in Node, NEW kind \in Kinds, Reserve(n, kind)
        PROVE  AttemptsSound'
    <2>1. PICK b : b = attemptSeq + 1
      OBVIOUS
    <2>2. PinsAreGrounded(b)'
      BY <1>3, <2>1, ReservedIsGrounded
    <2>3. attempts'[b] =
              [node |-> n, revision |-> revision[n], contract |-> contract[n],
               snapshot |-> DependencySnapshot(n), kind |-> kind, bound |-> FALSE,
               status |-> IF kind = "external" THEN "running" ELSE "reserved",
               artifact |-> NoArtifact, reported |-> "none"]
      BY <1>3, <2>1, ReserveAdds
    <2>4. attempts'[b].artifact = NoArtifact /\ attempts'[b].bound = FALSE
      BY <2>3
    <2>5. RetiredIsStale(b)' /\ ExternalArtifactIsFinal(b)'
      BY <2>4 DEF RetiredIsStale, ExternalArtifactIsFinal
    <2>6. Made' = Made \cup {b}
      BY <1>3, <2>1, ReserveAdds
    <2> QED
      BY <1>1, <2>2, <2>5, <2>6 DEF AttemptsSound
  <1> QED
    BY <1>2, <1>3, NewAttempts

\* reserve finds no attempt in progress, and no report brings one back.
LEMMA ActiveStaysLatest ==
    ASSUME JInv, [Next]_vars
    PROVE  ActiveIsLatest'
  <1>1. \A a \in Made : /\ attempts'[a].node = attempts[a].node
                        /\ attempts'[a].status \in ACTIVE => attempts[a].status \in ACTIVE
    <2> SUFFICES ASSUME NEW a \in Made
                 PROVE  /\ attempts'[a].node = attempts[a].node
                        /\ attempts'[a].status \in ACTIVE => attempts[a].status \in ACTIVE
      OBVIOUS
    <2>1. SamePins(a) /\ Settles(a)
      BY AttemptsAdvance
    <2>2. attempts[a].status \in ACTIVE \cup TERMINAL
      BY MadeAreRows DEF JInv, IInv, AttemptRow
    <2> QED
      BY <2>1, <2>2 DEF SamePins, Settles, ACTIVE, TERMINAL
  <1>2. \A a \in Made : attempts[a].status \in ACTIVE =>
            \A b \in Made : attempts[b].node = attempts[a].node => b <= a
    BY DEF JInv, ActiveIsLatest, IsLatest
  <1>3. CASE Made' = Made
    BY <1>1, <1>2, <1>3 DEF ActiveIsLatest, IsLatest
  <1>4. ASSUME NEW n \in Node, NEW kind \in Kinds, Reserve(n, kind)
        PROVE  ActiveIsLatest'
    <2>1. PICK b : b = attemptSeq + 1
      OBVIOUS
    <2>2. Made' = Made \cup {b} /\ \A a \in Made : a < b
      BY <1>4, <2>1, ReserveAdds
    <2>6. b \in Nat /\ \A a \in Made : a \in Nat
      BY <2>1, AttemptAssumption DEF JInv, IInv, TypeOK, Made
    <2>3. attempts'[b].node = n
      BY <1>4, <2>1, ReserveAdds
    <2>4. \A a \in Made : attempts[a].status \in ACTIVE => attempts[a].node # n
      BY <1>4 DEF Reserve, HasActive
    <2>5. \A a \in Made' : a <= b
      BY <2>2, <2>6
    <2> QED
      BY <1>1, <1>2, <2>2, <2>3, <2>4, <2>5 DEF ActiveIsLatest, IsLatest
  <1> QED
    BY <1>3, <1>4, NewAttempts

\* A receipt held after a step was held before it, or was granted by it.
LEMMA ReceiptCases ==
    ASSUME IInv, [Next]_vars, NEW n \in Node, receipt'[n] # 0
    PROVE  \/ /\ receipt[n] # 0 /\ receipt'[n] = receipt[n]
              /\ acceptances'[receipt'[n]] = acceptances[receipt[n]]
              /\ contract'[n] = contract[n]
           \/ \E a \in Made : Verify(n, a)
  <1>1. ASSUME NEW W \in SUBSET Node, Withdraws(W)
        PROVE  /\ receipt[n] # 0 /\ receipt'[n] = receipt[n]
               /\ acceptances' = acceptances /\ contract'[n] = contract[n]
    BY <1>1 DEF Withdraws
  <1>2. ASSUME NEW v \in Node, NEW a \in Made, Verify(v, a), v # n
        PROVE  /\ receipt[n] # 0 /\ receipt'[n] = receipt[n]
               /\ acceptances'[receipt'[n]] = acceptances[receipt[n]]
               /\ contract'[n] = contract[n]
    <2>1. receipt'[n] = receipt[n] /\ contract'[n] = contract[n]
      BY <1>2, VerifyGrants DEF IInv, TypeOK, GraphTypeOK
    <2>2. receipt[n] \in Issued
      BY <2>1 DEF IInv, AcceptedOnCurrentInputs
    <2> QED
      BY <1>2, <2>1, <2>2, VerifyGrants
  <1> QED
    BY <1>1, <1>2, StepCases

\* What a verification cites.
LEMMA VerifyCites ==
    ASSUME IInv, NEW n \in Node, NEW a \in Made, Verify(n, a)
    PROVE  /\ receipt'[n] = issued + 1
           /\ acceptances'[issued + 1].attempt = a
           /\ acceptances'[issued + 1].artifact = attempts[a].artifact
           /\ DOMAIN acceptances'[issued + 1].evidence = contract[n]
           /\ \A c \in contract[n] :
                 LET e == acceptances'[issued + 1].evidence[c]
                 IN  LastRow(a, c, e) /\ evidence[e].verdict = "pass"
  <1>1. PICK ids \in [contract[n] -> Rows] :
            /\ \A c \in contract[n] : LastRow(a, c, ids[c]) /\ evidence[ids[c]].verdict = "pass"
            /\ acceptances' = [acceptances EXCEPT ![issued + 1] =
                [node |-> n, revision |-> revision[n], attempt |-> a,
                 artifact |-> attempts[a].artifact, contract |-> contract[n],
                 snapshot |-> attempts[a].snapshot, evidence |-> ids]]
    BY DEF Verify
  <1>2. issued + 1 \in ReceiptId /\ DOMAIN acceptances = ReceiptId
    BY AttemptAssumption DEF IInv, TypeOK, Verify, ReceiptId
  <1>3. acceptances'[issued + 1] =
                [node |-> n, revision |-> revision[n], attempt |-> a,
                 artifact |-> attempts[a].artifact, contract |-> contract[n],
                 snapshot |-> attempts[a].snapshot, evidence |-> ids]
    BY <1>1, <1>2
  <1>4. receipt'[n] = issued + 1
    BY DEF Verify, IInv, TypeOK, GraphTypeOK
  <1> QED
    BY <1>1, <1>3, <1>4

\* The attempt behind an acceptance that survives a step is as it was.
LEMMA AcceptedAttemptStays ==
    ASSUME JInv, [Next]_vars, NEW n \in Node, receipt[n] # 0, receipt'[n] = receipt[n],
           NEW a, a = acceptances[receipt[n]].attempt
    PROVE  /\ a \in Made' /\ attempts'[a].node = n
           /\ attempts'[a].status = "candidate"
           /\ attempts'[a].artifact = acceptances[receipt[n]].artifact
           /\ \A b \in Made' : attempts'[b].node = n => b <= a
           /\ ~HasActive(n)'
  <1>1. /\ a \in Made /\ attempts[a].node = n /\ attempts[a].status = "candidate"
        /\ attempts[a].artifact = acceptances[receipt[n]].artifact
        /\ IsLatest(a) /\ ~HasActive(n)
    BY DEF JInv, AcceptedCandidateStands
  <1>2. attempts[a].artifact # NoArtifact
    <2>1. acceptances[receipt[n]] \in AcceptanceRow
      BY DEF JInv, IInv, TypeOK, AcceptedOnCurrentInputs
    <2> QED
      BY <1>1, <2>1, AttemptAssumption DEF AcceptanceRow
  <1>3. /\ a \in Made' /\ SamePins(a) /\ Settles(a)
        /\ attempts'[a] = attempts[a] \/ Reports(a)
    BY <1>1, AttemptsAdvance
  <1>4. attempts'[a].status = "candidate"
    BY <1>1, <1>3 DEF Reports, AcceptedBy
  <1>5. attempts'[a].node = n /\ attempts'[a].artifact = acceptances[receipt[n]].artifact
    BY <1>1, <1>2, <1>3 DEF SamePins, Settles
  <1>6. \A b \in Made : attempts[b].node = n =>
            /\ b <= a /\ attempts'[b].node = n /\ attempts'[b].status \notin ACTIVE
    <2> SUFFICES ASSUME NEW b \in Made, attempts[b].node = n
                 PROVE  b <= a /\ attempts'[b].node = n /\ attempts'[b].status \notin ACTIVE
      OBVIOUS
    <2>1. b <= a /\ attempts[b].status \notin ACTIVE
      BY <1>1 DEF IsLatest, HasActive
    <2>2. attempts[b].status \in ACTIVE \cup TERMINAL
      BY MadeAreRows DEF JInv, IInv, AttemptRow
    <2>3. SamePins(b) /\ Settles(b)
      BY AttemptsAdvance
    <2> QED
      BY <2>1, <2>2, <2>3 DEF SamePins, Settles, ACTIVE, TERMINAL
  <1>7. \A b \in Made' : attempts'[b].node = n => b \in Made /\ attempts[b].node = n
    <2>1. \A b \in Made : attempts'[b].node = attempts[b].node
      BY AttemptsAdvance DEF SamePins
    <2>2. ASSUME NEW m \in Node, NEW kind \in Kinds, Reserve(m, kind)
          PROVE  \A b \in Made' : attempts'[b].node = n => b \in Made
      <3>1. status[n] = "VERIFIED" /\ m # n
        BY <2>2 DEF JInv, IInv, AcceptedOnCurrentInputs, Reserve
      <3>2. attempts'[attemptSeq + 1].node = m /\ Made' = Made \cup {attemptSeq + 1}
        BY <2>2, ReserveAdds
      <3> QED
        BY <3>1, <3>2
    <2> QED
      BY <2>1, <2>2, NewAttempts
  <1>8. (\A b \in Made' : attempts'[b].node = n => b <= a) /\ ~HasActive(n)'
    BY <1>6, <1>7 DEF HasActive
  <1> QED
    BY <1>3, <1>4, <1>5, <1>8

\* What stands behind the acceptance of node n.
StandsBehind(n) ==
    LET r == acceptances[receipt[n]]
    IN  /\ r.attempt \in Made /\ attempts[r.attempt].node = n
        /\ attempts[r.attempt].status = "candidate"
        /\ attempts[r.attempt].artifact = r.artifact
        /\ IsLatest(r.attempt)
        /\ ~HasActive(n)

\* reconcile, observe and reserve keep what stands behind an acceptance, and
\* verify establishes it.
LEMMA CandidateStaysBehind ==
    ASSUME JInv, [Next]_vars
    PROVE  AcceptedCandidateStands'
  <1> SUFFICES ASSUME NEW n \in Node, receipt'[n] # 0
               PROVE  StandsBehind(n)'
    BY DEF AcceptedCandidateStands, StandsBehind
  <1>1. CASE /\ receipt[n] # 0 /\ receipt'[n] = receipt[n]
             /\ acceptances'[receipt'[n]] = acceptances[receipt[n]]
    <2>1. PICK a : a = acceptances[receipt[n]].attempt
      OBVIOUS
    <2>2. /\ a \in Made' /\ attempts'[a].node = n
          /\ attempts'[a].status = "candidate"
          /\ attempts'[a].artifact = acceptances[receipt[n]].artifact
          /\ \A b \in Made' : attempts'[b].node = n => b <= a
          /\ ~HasActive(n)'
      BY <1>1, <2>1, AcceptedAttemptStays
    <2>3. /\ acceptances'[receipt'[n]].attempt = a
          /\ acceptances'[receipt'[n]].artifact = acceptances[receipt[n]].artifact
      BY <1>1, <2>1
    <2> QED
      BY <2>2, <2>3 DEF StandsBehind, IsLatest
  <1>2. ASSUME NEW a \in Made, Verify(n, a)
        PROVE  StandsBehind(n)'
    <2>1. /\ attempts[a].node = n /\ attempts[a].status = "candidate" /\ IsLatest(a)
          /\ UNCHANGED <<attempts, attemptSeq>>
      BY <1>2 DEF Verify, EligibleCandidate
    <2>2. ~HasActive(n)
      <3>1. ASSUME NEW b \in Made, attempts[b].node = n, attempts[b].status \in ACTIVE
            PROVE  FALSE
        <4>1. a <= b /\ b <= a
          BY <2>1, <3>1 DEF JInv, ActiveIsLatest, IsLatest
        <4>2. a \in Nat /\ b \in Nat
          BY AttemptAssumption DEF JInv, IInv, TypeOK, Made
        <4>3. a = b
          BY <4>1, <4>2
        <4> QED
          BY <2>1, <3>1, <4>3 DEF ACTIVE
      <3> QED
        BY <3>1 DEF HasActive
    <2>3. Made' = Made /\ ~HasActive(n)'
      BY <2>1, <2>2 DEF Made, HasActive
    <2>4. /\ acceptances'[receipt'[n]].attempt = a
          /\ acceptances'[receipt'[n]].artifact = attempts[a].artifact
      BY <1>2, VerifyCites DEF JInv
    <2> QED
      BY <2>1, <2>3, <2>4 DEF StandsBehind, IsLatest
  <1> QED
    BY <1>1, <1>2, ReceiptCases DEF JInv

\* The evidence the acceptance of node n cites.
CitesLastWord(n) ==
    LET r == acceptances[receipt[n]]
    IN  /\ DOMAIN r.evidence = contract[n]
        /\ \A c \in contract[n] : /\ LastRow(r.attempt, c, r.evidence[c])
                                  /\ evidence[r.evidence[c]].verdict = "pass"

\* New evidence on another attempt leaves the last row of an attempt the last.
LEMMA LastRowStays ==
    ASSUME JInv, [Next]_vars, NEW n \in Node, receipt[n] # 0, receipt'[n] = receipt[n],
           NEW a, a = acceptances[receipt[n]].attempt, NEW c, NEW e, LastRow(a, c, e)
    PROVE  LastRow(a, c, e)' /\ evidence'[e] = evidence[e]
  <1>1. a \in Made /\ attempts[a].node = n /\ attempts[a].status = "candidate"
    BY DEF JInv, AcceptedCandidateStands
  <1>2. CASE UNCHANGED <<evidence, evidenceSeq>>
    BY <1>2 DEF LastRow, Rows
  <1>3. ASSUME NEW b \in Made, NEW k \in Criterion, NEW verdict \in Verdict, NEW art \in Artifact,
               RecordEvidence(b, k, verdict, art)
        PROVE  LastRow(a, c, e)' /\ evidence'[e] = evidence[e]
    <2> DEFINE row == [attempt |-> b, criterion |-> k, verdict |-> verdict, artifact |-> art]
               f == evidenceSeq + 1
    <2>1. a # b
      <3>1. CASE attempts[b].status = "failed"
        BY <1>1, <3>1
      <3>2. CASE attempts[b].status # "failed" /\ a = b
        <4>1. InvalidateIf(receipt[n] # 0 /\ ~(attempts[b].status = "failed"), n)
          BY <1>1, <1>3, <3>2 DEF RecordEvidence
        <4>2. receipt'[n] = 0
          BY <3>2, <4>1, InvalidateClears DEF JInv
        <4> QED
          BY <4>2
      <3> QED
        BY <3>1, <3>2
    <2>2. /\ evidence' = [evidence EXCEPT ![f] = row] /\ evidenceSeq' = f
          /\ evidenceSeq < MaxEvidence
      BY <1>3 DEF RecordEvidence
    <2>3. /\ evidenceSeq \in Nat /\ f \in EvidenceId /\ DOMAIN evidence = EvidenceId
          /\ Rows' = Rows \cup {f} /\ f \notin Rows /\ Rows \subseteq EvidenceId
      BY <2>2, AttemptAssumption DEF JInv, IInv, TypeOK, Rows, EvidenceId
    <2>4. row.attempt = b
      OBVIOUS
    <2> HIDE DEF row, f
    <2>5. evidence'[f].attempt = b /\ \A g \in Rows : evidence'[g] = evidence[g]
      BY <2>2, <2>3, <2>4
    <2> QED
      BY <2>1, <2>3, <2>5 DEF LastRow
  <1> QED
    BY <1>2, <1>3, AttemptCases DEF Reserve, Reports

\* record_evidence withdraws what it contradicts, and verify cites last rows.
LEMMA EvidenceStaysLast ==
    ASSUME JInv, [Next]_vars
    PROVE  AcceptedEvidenceIsLastWord'
  <1> SUFFICES ASSUME NEW n \in Node, receipt'[n] # 0
               PROVE  CitesLastWord(n)'
    BY DEF AcceptedEvidenceIsLastWord, CitesLastWord
  <1>1. CASE /\ receipt[n] # 0 /\ receipt'[n] = receipt[n]
             /\ acceptances'[receipt'[n]] = acceptances[receipt[n]]
             /\ contract'[n] = contract[n]
    <2>1. PICK a, ids : /\ a = acceptances[receipt[n]].attempt
                        /\ ids = acceptances[receipt[n]].evidence
      OBVIOUS
    <2>2. /\ DOMAIN ids = contract[n]
          /\ \A c \in contract[n] : LastRow(a, c, ids[c]) /\ evidence[ids[c]].verdict = "pass"
      BY <1>1, <2>1 DEF JInv, AcceptedEvidenceIsLastWord
    <2>3. \A c \in contract[n] : LastRow(a, c, ids[c])' /\ evidence'[ids[c]].verdict = "pass"
      BY <1>1, <2>1, <2>2, LastRowStays
    <2>4. /\ acceptances'[receipt'[n]].attempt = a
          /\ acceptances'[receipt'[n]].evidence = ids
      BY <1>1, <2>1
    <2> QED
      BY <1>1, <2>2, <2>3, <2>4 DEF CitesLastWord, LastRow
  <1>2. ASSUME NEW a \in Made, Verify(n, a)
        PROVE  CitesLastWord(n)'
    <2>1. UNCHANGED <<contract, evidence, evidenceSeq>> /\ IInv
      BY <1>2 DEF Verify, JInv
    <2>2. PICK ids : ids = acceptances'[issued + 1].evidence
      OBVIOUS
    <2>3. /\ receipt'[n] = issued + 1 /\ acceptances'[issued + 1].attempt = a
          /\ DOMAIN ids = contract[n]
          /\ \A c \in contract[n] : LastRow(a, c, ids[c]) /\ evidence[ids[c]].verdict = "pass"
      BY <1>2, <2>1, <2>2, VerifyCites
    <2>4. /\ acceptances'[receipt'[n]].attempt = a
          /\ acceptances'[receipt'[n]].evidence = ids
      BY <2>2, <2>3
    <2> QED
      BY <2>1, <2>3, <2>4 DEF CitesLastWord, LastRow, Rows
  <1> QED
    BY <1>1, <1>2, ReceiptCases DEF JInv

\* No attempt, no evidence, no acceptance.
LEMMA JInvInit == Init => JInv
  <1> SUFFICES ASSUME Init PROVE JInv
    OBVIOUS
  <1>1. Made = {} /\ \A n \in Node : receipt[n] = 0
    BY DEF Init, GraphInit, Made
  <1> QED
    BY <1>1, InvInit DEF JInv, ActiveIsLatest, AttemptsSound, AcceptedCandidateStands,
                         AcceptedEvidenceIsLastWord

\* The invariant is inductive.
LEMMA JInvStep == JInv /\ [Next]_vars => JInv'
  <1> SUFFICES ASSUME JInv, [Next]_vars PROVE JInv'
    OBVIOUS
  <1>1. IInv'
    BY InvStep DEF JInv
  <1> QED
    BY <1>1, ActiveStaysLatest, AttemptsStaySound, CandidateStaysBehind, EvidenceStaysLast
       DEF JInv

\* The invariant holds throughout.
LEMMA AttemptInvariance == Spec => []JInv
  BY JInvInit, JInvStep, PTL DEF Spec

\* A standing acceptance rests on a candidate that still stands, is still the
\* node's newest attempt, and nothing is in progress on the node (reconcile and
\* observe withdraw what they retract; reserve refuses a verified node).
THEOREM AcceptanceRestsOnItsCandidate == Spec => []AcceptedCandidateStands
  <1>1. JInv => AcceptedCandidateStands
    BY DEF JInv
  <1> QED
    BY <1>1, AttemptInvariance, PTL

\* The evidence a standing acceptance cites is the last word on every criterion
\* of the contract and passes (record_evidence withdraws what it contradicts).
THEOREM AcceptanceRestsOnLastEvidence == Spec => []AcceptedEvidenceIsLastWord
  <1>1. JInv => AcceptedEvidenceIsLastWord
    BY DEF JInv
  <1> QED
    BY <1>1, AttemptInvariance, PTL

\* Once an attempt's pins are stale, no later revision or verification makes
\* them current again (_pins_current compares receipts, which are never reused).
THEOREM StalenessIsFinal == Spec => StalePinsStayStale
  <1>1. JInv /\ [Next]_vars =>
            [\A a \in Made : ~PinsCurrent(a) => ~PinsCurrent(a)']_vars
    BY StalePinsStep
  <1> QED
    BY <1>1, AttemptInvariance, PTL DEF Spec, StalePinsStayStale

\* A settled attempt never occupies its node again, superseded and abandoned
\* attempts never change and a pinned artifact is never replaced, whatever late
\* or repeated report reconcile and observe are given.
THEOREM SettlementIsFinal == Spec => SettledStaysSettled
  <1>1. JInv /\ [Next]_vars =>
            [\A a \in Made :
                /\ attempts[a].status \in TERMINAL => attempts'[a].status \in TERMINAL
                /\ attempts[a].status \in {"superseded", "abandoned"} =>
                      attempts'[a].status = attempts[a].status
                /\ attempts[a].artifact # NoArtifact =>
                      attempts'[a].artifact = attempts[a].artifact]_vars
    BY AttemptsAdvance DEF Settles
  <1> QED
    BY <1>1, AttemptInvariance, PTL DEF Spec, SettledStaysSettled

=============================================================================
