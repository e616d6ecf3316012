SPECIFICATION Spec
CONSTANTS
    n1 = n1
    n2 = n2
    n3 = n3
    c1 = c1
    c2 = c2
    Node = {n1}
    Criterion = {c1, c2}
    Contract <- MCTwoContracts
    LegacyContract <- MCLegacyContract
    DepChoice <- MCNoDepSet
    ImportStatus = {"CANDIDATE"}
    MaxBatch = 1
    MaxRevision = 1
    Artifact = {x1, x2}
    NoArtifact = NoArtifact
    Kinds = {"skillflow", "external"}
    Seen = {"running", "paused", "unknown", "candidate", "failed"}
    Verdict = {"pass", "fail", "skip"}
    MaxAttempts = 2
    MaxEvidence = 3
    MaxReceipts = 2
INVARIANTS AcceptedCandidateStands AcceptedEvidenceIsLastWord
PROPERTIES SettledStaysSettled SupersededIsFinal
CHECK_DEADLOCK FALSE
