SPECIFICATION ChainSpec
CONSTANTS
    n1 = n1
    n2 = n2
    n3 = n3
    c1 = c1
    c2 = c2
    Node = {n1, n2, n3}
    Criterion = {c1}
    Contract <- MCOneContract
    LegacyContract <- MCLegacyContract
    DepChoice <- MCChainDeps
    ImportStatus = {}
    MaxBatch = 1
    MaxRevision = 2
    Artifact = {x1}
    NoArtifact = NoArtifact
    Kinds = {"external"}
    Seen = {"candidate"}
    Verdict = {"pass"}
    MaxAttempts = 3
    MaxEvidence = 3
    MaxReceipts = 3
INVARIANTS TypeOK AcceptedOnCurrentInputs FrontierNeverWedged
PROPERTIES StalePinsStayStale ImplementsAcceptance
CHECK_DEADLOCK FALSE
