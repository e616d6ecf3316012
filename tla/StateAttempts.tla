--------------------------- MODULE StateAttempts ---------------------------
(***************************************************************************)
(* Attempts, evidence and acceptance over the goal graph                   *)
(* (core/state_attempts.py, core/state_external.py and the abandon of      *)
(* core/state_recovery.py).  Every action is one write transaction.        *)
(*                                                                         *)
(* An attempt pins the node revision, the contract and a snapshot of its   *)
(* dependencies' receipts when it is reserved.  What the workflow engine   *)
(* (external SkillFlow) or an external harness says about it later is read *)
(* outside the transaction, so a report may be late, repeated or stale:    *)
(* Reconcile and Observe take any report at any time.                      *)
(***************************************************************************)
EXTENDS StateGraph

CONSTANTS
    Artifact,       \* immutable artifact digests
    NoArtifact,     \* artifact_ref IS NULL
    Kinds,          \* execution kinds in play: "skillflow", "external"
    Seen,           \* what the engine or a harness may report
    Verdict,        \* verdicts reviewers record
    MaxAttempts,    \* bound on rows of state_attempts
    MaxEvidence,    \* bound on rows of state_evidence
    MaxReceipts     \* bound on rows of state_acceptances

ASSUME AttemptAssumption ==
    /\ NoArtifact \notin Artifact
    /\ Kinds \subseteq {"skillflow", "external"}
    /\ Seen \subseteq {"running", "paused", "unknown", "candidate", "failed"}
    /\ Verdict \subseteq {"pass", "fail", "skip"}
    /\ MaxAttempts \in Nat
    /\ MaxEvidence \in Nat
    /\ MaxReceipts \in Nat

VARIABLES
    attempts,    \* state_attempts by seq; rows 1..attemptSeq exist
    attemptSeq,
    evidence,    \* state_evidence by seq; rows 1..evidenceSeq exist
    evidenceSeq,
    acceptances, \* state_acceptances by receipt id; 1..issued exist
    issued

attemptVars == <<attempts, attemptSeq, evidence, evidenceSeq, acceptances, issued>>
vars == <<graphVars, attemptVars>>

ACTIVE == {"reserved", "launching", "running", "paused", "unknown"}
TERMINAL == {"candidate", "failed", "superseded", "abandoned"}

AttemptId == 1..MaxAttempts
EvidenceId == 1..MaxEvidence
ReceiptId == 1..MaxReceipts

NoRow == [status |-> "none"]

Made == 1..attemptSeq
Rows == 1..evidenceSeq
Issued == 1..issued

-----------------------------------------------------------------------------
\* Mutant of PinsCurrent: a superseded node still counts as current.
PinsCurrentIfSuperseded(a) ==
    LET at == attempts[a]
    IN  /\ revision[at.node] = at.revision
        /\ contract[at.node] = at.contract
        /\ DependencySnapshot(at.node) = at.snapshot
        /\ DependenciesVerified(at.node)

\* Mutant of PinsCurrent: the dependencies' receipts are not compared.
PinsCurrentByStatus(a) ==
    LET at == attempts[a]
    IN  /\ revision[at.node] = at.revision
        /\ contract[at.node] = at.contract
        /\ status[at.node] # "SUPERSEDED"
        /\ DependenciesVerified(at.node)

\* _pins_current
PinsCurrent(a) ==
    LET at == attempts[a]
    IN  /\ revision[at.node] = at.revision
        /\ contract[at.node] = at.contract
        /\ status[at.node] # "SUPERSEDED"
        /\ DependencySnapshot(at.node) = at.snapshot
        /\ DependenciesVerified(at.node)

\* ORDER BY seq DESC LIMIT 1
IsLatest(a) == \A b \in Made : attempts[b].node = attempts[a].node => b <= a

\* The unique index state_attempts_one_active.
HasActive(n) == \E a \in Made : attempts[a].node = n /\ attempts[a].status \in ACTIVE

\* The row of criterion c that `ORDER BY seq` leaves last for the attempt.
LastRow(a, c, e) ==
    /\ e \in Rows
    /\ evidence[e].attempt = a /\ evidence[e].criterion = c
    /\ \A f \in Rows : (evidence[f].attempt = a /\ evidence[f].criterion = c) => f <= e

\* Mutant of AcceptedBy: asks the node's status instead of its receipt.
AcceptedIfCandidate(n, a) ==
    receipt[n] # 0 /\ status[n] = "CANDIDATE" /\ acceptances[receipt[n]].attempt = a

\* The attempt behind the node's current acceptance is a.
AcceptedBy(n, a) == receipt[n] # 0 /\ acceptances[receipt[n]].attempt = a

SetAttempt(a, st) == attempts' = [attempts EXCEPT ![a].status = st]

\* Mutant of InvalidateIf: the receipt column is left as it was.
InvalidateStatusIf(cond, n) ==
    /\ status' = IF cond THEN StaleStatus(n) ELSE status
    /\ UNCHANGED receipt

\* Mutant of InvalidateIf: the dependents are left alone.
InvalidateSelfIf(cond, n) ==
    /\ status' = IF cond THEN [status EXCEPT ![n] = "STALE"] ELSE status
    /\ receipt' = IF cond THEN [receipt EXCEPT ![n] = 0] ELSE receipt

\* _invalidate, or not.
InvalidateIf(cond, n) ==
    /\ status' = IF cond THEN StaleStatus(n) ELSE status
    /\ receipt' = IF cond THEN StaleReceipt(n) ELSE receipt

-----------------------------------------------------------------------------
(* Admission and launch *)

\* _reserve_once: pins the inputs and reopens the node.
Reserve(n, kind) ==
    /\ attemptSeq < MaxAttempts
    /\ status[n] \notin {"ABSENT", "VERIFIED", "SUPERSEDED"}
    /\ DependenciesVerified(n)
    /\ ~HasActive(n)
    /\ attempts' = [attempts EXCEPT ![attemptSeq + 1] =
          [node |-> n, revision |-> revision[n], contract |-> contract[n],
           snapshot |-> DependencySnapshot(n), kind |-> kind, bound |-> FALSE,
           status |-> IF kind = "external" THEN "running" ELSE "reserved",
           artifact |-> NoArtifact, reported |-> "none"]]
    /\ attemptSeq' = attemptSeq + 1
    /\ status' = [status EXCEPT ![n] = "OPEN"]
    /\ UNCHANGED <<revision, contract, receipt, deps,
                   evidence, evidenceSeq, acceptances, issued>>

\* record_preflight with an error.
RecordPreflightFailure(a) ==
    /\ attempts[a].status = "reserved" /\ ~attempts[a].bound
    /\ SetAttempt(a, "failed")
    /\ UNCHANGED <<graphVars, attemptSeq, evidence, evidenceSeq, acceptances, issued>>

\* claim_launch: dispatch, or retire an intent whose inputs moved.
ClaimLaunch(a) ==
    /\ attempts[a].status = "reserved"
    /\ SetAttempt(a, IF PinsCurrent(a) THEN "launching" ELSE "superseded")
    /\ UNCHANGED <<graphVars, attemptSeq, evidence, evidenceSeq, acceptances, issued>>

RetireReservation(a) ==
    /\ attempts[a].status = "reserved" /\ ~attempts[a].bound
    /\ SetAttempt(a, "superseded")
    /\ UNCHANGED <<graphVars, attemptSeq, evidence, evidenceSeq, acceptances, issued>>

LaunchUncertain(a) ==
    /\ attempts[a].status = "launching" /\ ~attempts[a].bound
    /\ SetAttempt(a, "unknown")
    /\ UNCHANGED <<graphVars, attemptSeq, evidence, evidenceSeq, acceptances, issued>>

\* bind_run: the engine row was read before the transaction.
BindRun(a, paused) ==
    /\ attempts[a].kind = "skillflow" /\ ~attempts[a].bound
    /\ attempts[a].status \in ACTIVE
    /\ attempts' = [attempts EXCEPT ![a].bound = TRUE,
                                    ![a].status = IF paused THEN "paused" ELSE "running"]
    /\ UNCHANGED <<graphVars, attemptSeq, evidence, evidenceSeq, acceptances, issued>>

-----------------------------------------------------------------------------
(* Observation *)

\* Mutant of Revived: only a candidate is protected against revival.
RevivedCandidate(a, st) == attempts[a].status = "candidate" /\ st \in ACTIVE

\* The engine reports a run active again whose attempt is settled.
Revived(a, st) == attempts[a].status \in TERMINAL /\ st \in ACTIVE

\* reconcile: fold what the engine said about the bound run into the attempt.
\* seen is the engine status mapped as in the code: a terminal run with alive,
\* lost or unknown operations is "unknown".  art is the artifact the service
\* hashed after an earlier reconcile, or NoArtifact.
Reconcile(a, seen, art) ==
    LET at == attempts[a]
        n == at.node
        quiescent == seen \in {"candidate", "failed"}
        st == IF quiescent /\ ~PinsCurrent(a) THEN "superseded" ELSE seen
        artifact == IF art # NoArtifact /\ st = "candidate" THEN art ELSE at.artifact
    IN  /\ at.kind = "skillflow" /\ at.bound
        /\ ~Revived(a, st)
        /\ at.status # "abandoned"
        /\ artifact # at.artifact => at.artifact = NoArtifact
        /\ at.status # st \/ at.artifact # artifact
        /\ attempts' = [attempts EXCEPT ![a].status = st, ![a].artifact = artifact]
        /\ IF st = "candidate"
           THEN /\ status' = [status EXCEPT ![n] = IF @ = "VERIFIED" THEN @ ELSE "CANDIDATE"]
                /\ UNCHANGED receipt
           ELSE InvalidateIf(AcceptedBy(n, a), n)
        /\ UNCHANGED <<revision, contract, deps, attemptSeq,
                       evidence, evidenceSeq, acceptances, issued>>

\* StateExternal.observe on an attempt that is not abandoned.
Observe(a, seen, art) ==
    LET at == attempts[a]
        n == at.node
        terminal == seen \in {"candidate", "failed"}
        st == IF terminal /\ ~PinsCurrent(a) THEN "superseded" ELSE seen
    IN  /\ at.kind = "external"
        /\ at.status \notin {"failed", "superseded", "abandoned"}
        /\ at.status = "candidate" => seen = "failed"
        /\ (seen = "candidate") <=> (art # NoArtifact)
        /\ attempts' = [attempts EXCEPT ![a].status = st,
                ![a].artifact = IF seen = "candidate" THEN art ELSE @,
                ![a].reported = IF terminal THEN seen ELSE @]
        /\ IF st = "candidate"
           THEN /\ status' = [status EXCEPT ![n] =
                       IF IsLatest(a) /\ @ # "VERIFIED" THEN "CANDIDATE" ELSE @]
                /\ UNCHANGED receipt
           ELSE InvalidateIf(AcceptedBy(n, a), n)
        /\ UNCHANGED <<revision, contract, deps, attemptSeq,
                       evidence, evidenceSeq, acceptances, issued>>

\* abandon_external_attempt.  A later report on the attempt only bumps its
\* observation version (late_after_abandon), which nothing here reads.
Abandon(a) ==
    /\ attempts[a].kind = "external"
    /\ attempts[a].status \in ACTIVE
    /\ SetAttempt(a, "abandoned")
    /\ UNCHANGED <<graphVars, attemptSeq, evidence, evidenceSeq, acceptances, issued>>

-----------------------------------------------------------------------------
(* Evidence and acceptance *)

\* _eligible_candidate
EligibleCandidate(a) ==
    /\ attempts[a].kind = "external" => attempts[a].reported = "candidate"
    /\ attempts[a].status = "candidate" /\ attempts[a].artifact # NoArtifact
    /\ PinsCurrent(a)
    /\ IsLatest(a)

\* _eligible_failed_evidence: diagnosis of a settled failure, scoped to one
\* artifact (the attempt's, or that of its first row).
EligibleFailed(a, art) ==
    /\ attempts[a].status = "failed"
    /\ attempts[a].kind = "skillflow" => attempts[a].bound
    /\ attempts[a].kind = "external" => attempts[a].reported = "failed"
    /\ PinsCurrent(a)
    /\ IsLatest(a)
    /\ IF attempts[a].artifact # NoArtifact
       THEN art = attempts[a].artifact
       ELSE \A e \in Rows : evidence[e].attempt = a => evidence[e].artifact = art

\* record_evidence: append-only; new evidence on an accepted node withdraws the
\* acceptance and everything resting on it.
RecordEvidence(a, c, verdict, art) ==
    LET failed == attempts[a].status = "failed"
        n == attempts[a].node
    IN  /\ evidenceSeq < MaxEvidence
        /\ IF failed
           THEN /\ verdict \in {"pass", "fail"}
                /\ EligibleFailed(a, art)
                /\ \A e \in Rows : ~(evidence[e].attempt = a /\ evidence[e].criterion = c)
           ELSE /\ EligibleCandidate(a)
                /\ attempts[a].artifact = art
        /\ c \in attempts[a].contract
        /\ evidence' = [evidence EXCEPT ![evidenceSeq + 1] =
               [attempt |-> a, criterion |-> c, verdict |-> verdict, artifact |-> art]]
        /\ evidenceSeq' = evidenceSeq + 1
        /\ InvalidateIf(receipt[n] # 0 /\ ~failed, n)
        /\ UNCHANGED <<revision, contract, deps, attempts, attemptSeq, acceptances, issued>>

\* verify: every required criterion's last row passes.  A node that already has
\* a receipt returns it or refuses.
Verify(n, a) ==
    /\ issued < MaxReceipts
    /\ attempts[a].node = n
    /\ EligibleCandidate(a)
    /\ receipt[n] = 0
    /\ \E ids \in [contract[n] -> Rows] :
          /\ \A c \in contract[n] : LastRow(a, c, ids[c]) /\ evidence[ids[c]].verdict = "pass"
          /\ acceptances' = [acceptances EXCEPT ![issued + 1] =
                [node |-> n, revision |-> revision[n], attempt |-> a,
                 artifact |-> attempts[a].artifact, contract |-> contract[n],
                 snapshot |-> attempts[a].snapshot, evidence |-> ids]]
    /\ issued' = issued + 1
    /\ status' = [status EXCEPT ![n] = "VERIFIED"]
    /\ receipt' = [receipt EXCEPT ![n] = issued + 1]
    /\ UNCHANGED <<revision, contract, deps, attempts, attemptSeq, evidence, evidenceSeq>>

-----------------------------------------------------------------------------
LaunchNext ==
    \/ \E n \in Node, kind \in Kinds : Reserve(n, kind)
    \/ \E a \in Made :
          \/ RecordPreflightFailure(a)
          \/ ClaimLaunch(a)
          \/ RetireReservation(a)
          \/ LaunchUncertain(a)
          \/ \E paused \in BOOLEAN : BindRun(a, paused)

ObserveNext ==
    \E a \in Made :
       \/ \E seen \in Seen, art \in Artifact \cup {NoArtifact} : Reconcile(a, seen, art)
       \/ \E seen \in Seen, art \in Artifact \cup {NoArtifact} : Observe(a, seen, art)
       \/ Abandon(a)

AcceptNext ==
    \E a \in Made :
       \/ \E c \in Criterion, verdict \in Verdict, art \in Artifact :
             RecordEvidence(a, c, verdict, art)
       \/ \E n \in Node : Verify(n, a)

Next ==
    \/ GraphNext /\ UNCHANGED attemptVars
    \/ LaunchNext
    \/ ObserveNext
    \/ AcceptNext

Init ==
    /\ GraphInit
    /\ attempts = [a \in AttemptId |-> NoRow] /\ attemptSeq = 0
    /\ evidence = [e \in EvidenceId |-> NoRow] /\ evidenceSeq = 0
    /\ acceptances = [r \in ReceiptId |-> NoRow] /\ issued = 0

Spec == Init /\ [][Next]_vars

-----------------------------------------------------------------------------
(* Types *)

SnapshotRow == [revision : 0..MaxRevision, contract : Contract,
                status : NodeStatus, receipt : 0..MaxReceipts]
Snapshot == UNION {[D -> SnapshotRow] : D \in SUBSET Node}

AttemptRow ==
    [node : Node, revision : 0..MaxRevision, contract : Contract, snapshot : Snapshot,
     kind : {"skillflow", "external"}, bound : BOOLEAN, status : ACTIVE \cup TERMINAL,
     artifact : Artifact \cup {NoArtifact}, reported : {"none", "candidate", "failed"}]

EvidenceRow ==
    [attempt : AttemptId, criterion : Criterion, verdict : Verdict, artifact : Artifact]

AcceptanceRow ==
    [node : Node, revision : 0..MaxRevision, attempt : AttemptId,
     artifact : Artifact, contract : Contract, snapshot : Snapshot,
     evidence : UNION {[C -> EvidenceId] : C \in Contract}]

GraphTypeOK ==
    /\ status \in [Node -> NodeStatus]
    /\ revision \in [Node -> 0..MaxRevision]
    /\ contract \in [Node -> Contract]
    /\ receipt \in [Node -> 0..MaxReceipts]
    /\ deps \in [Node -> SUBSET Node]

\* Every column of the State tables this model keeps holds a value of its
\* declared kind, and a row exists exactly up to its table's sequence number.
TypeOK ==
    /\ GraphTypeOK
    /\ attemptSeq \in 0..MaxAttempts
    /\ evidenceSeq \in 0..MaxEvidence
    /\ issued \in 0..MaxReceipts
    /\ DOMAIN attempts = AttemptId
    /\ DOMAIN evidence = EvidenceId
    /\ DOMAIN acceptances = ReceiptId
    /\ \A a \in Made : attempts[a] \in AttemptRow
    /\ \A e \in Rows : evidence[e] \in EvidenceRow /\ evidence[e].attempt \in Made
    /\ \A r \in Issued : acceptances[r] \in AcceptanceRow

-----------------------------------------------------------------------------
(* Safety *)

\* A VERIFIED node holds the receipt of an acceptance of its present revision
\* and contract, granted on exactly the receipts its dependencies hold now, all
\* of them VERIFIED too.  This is what _invalidate exists for: an edit, a
\* retraction or contrary evidence anywhere below must reach every node above.
AcceptedOnCurrentInputs ==
    \A n \in Node :
        /\ (status[n] = "VERIFIED") <=> (receipt[n] # 0)
        /\ receipt[n] # 0 =>
              LET r == acceptances[receipt[n]]
              IN  /\ receipt[n] \in Issued
                  /\ r.node = n
                  /\ r.revision = revision[n] /\ r.contract = contract[n]
                  /\ r.snapshot = DependencySnapshot(n)
                  /\ DependenciesVerified(n)

\* The attempt behind a standing acceptance is still a candidate with the
\* accepted artifact, still the node's newest attempt, and nothing is in
\* progress on the node: a revived or retracted run never leaves its
\* acceptance behind (reconcile, observe), and a verified node admits no work.
AcceptedCandidateStands ==
    \A n \in Node : receipt[n] # 0 =>
        LET r == acceptances[receipt[n]]
        IN  /\ r.attempt \in Made /\ attempts[r.attempt].node = n
            /\ attempts[r.attempt].status = "candidate"
            /\ attempts[r.attempt].artifact = r.artifact
            /\ IsLatest(r.attempt)
            /\ ~HasActive(n)

\* The rows a standing acceptance cites are still the last word on every
\* criterion of the contract, and every one of them passes (record_evidence
\* must withdraw the acceptance it contradicts).
AcceptedEvidenceIsLastWord ==
    \A n \in Node : receipt[n] # 0 =>
        LET r == acceptances[receipt[n]]
        IN  /\ DOMAIN r.evidence = contract[n]
            /\ \A c \in contract[n] : /\ LastRow(r.attempt, c, r.evidence[c])
                                      /\ evidence[r.evidence[c]].verdict = "pass"

\* The graph cannot wedge itself: while some node is neither VERIFIED nor
\* SUPERSEDED, and no such node rests on a superseded one, at least one such
\* node has all its dependencies verified and can be worked on.
Unfinished == {n \in Node : status[n] \notin {"ABSENT", "VERIFIED", "SUPERSEDED"}}

FrontierNeverWedged ==
    (/\ Unfinished # {}
     /\ \A n \in Unfinished : \A d \in deps[n] : status[d] # "SUPERSEDED")
    => \E n \in Unfinished : DependenciesVerified(n)

\* Once an attempt's pins are stale they stay stale, whatever is revised or
\* verified again afterwards: receipts are never reused and revisions only
\* grow, so work done against old inputs can never become acceptable again.
StalePinsStayStale ==
    [][\A a \in Made : ~PinsCurrent(a) => ~PinsCurrent(a)']_vars

\* A settled attempt never occupies its node again, superseded and abandoned
\* attempts never change, and a pinned candidate artifact is never replaced.
SettledStaysSettled ==
    [][\A a \in Made :
          /\ attempts[a].status \in TERMINAL => attempts'[a].status \in TERMINAL
          /\ attempts[a].status \in {"superseded", "abandoned"} =>
                attempts'[a].status = attempts[a].status
          /\ attempts[a].artifact # NoArtifact =>
                attempts'[a].artifact = attempts[a].artifact]_vars

\* SUPERSEDED is final for a node: no late report, import, verification or
\* invalidation brings it back.
SupersededIsFinal ==
    [][\A n \in Node : status[n] = "SUPERSEDED" =>
          status'[n] = "SUPERSEDED" /\ revision'[n] = revision[n] /\ receipt'[n] = 0]_vars

\* State implements the abstract acceptance service: each transaction grants
\* one acceptance on standing inputs, or withdraws a set of acceptances closed
\* under dependents, or does neither.
AcceptanceService == INSTANCE Acceptance WITH
    accepted <- receipt,
    inputs <- deps,
    basis <- [r \in Issued |-> [d \in DOMAIN acceptances[r].snapshot |->
                                   acceptances[r].snapshot[d].receipt]]

\* The refinement as a property of the runs.
ImplementsAcceptance == AcceptanceService!ASpec

=============================================================================
