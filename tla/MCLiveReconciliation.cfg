SPECIFICATION ReconciliationSpec
CONSTANTS
    NoId = NoId
    o1 = o1
    c1 = c1
    e1 = e1
    e3 = e3
    f1 = f1
    s1 = s1
    s2 = s2
    s3 = s3
    OrderIds = {o1}
    CommandIds = {c1}
    RawIds = {r1, r2}
    Dispatchers = {d1}
    CommandSource <- MCCommandSource
    Intent <- MCIntent
    Evidence <- MCEvidence
    Operators = {p1}
    CommitIds = {m1, m2}
    AuthorizationIds = {a1, a2}
    BrokerSnapshots <- MCBrokerSnapshots
SYMMETRY Symmetry
INVARIANTS
    PlannedCommitsVerify
    EvidenceUsedOnce
    CommitsKeepEvidence
PROPERTIES
    CommitMakesReady
