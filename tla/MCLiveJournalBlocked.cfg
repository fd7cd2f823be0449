SPECIFICATION Spec
CONSTANTS
    NoId = NoId
    o1 = o1
    o2 = o2
    c1 = c1
    c2 = c2
    c3 = c3
    e1 = e1
    e2 = e2
    f1 = f1
    OrderIds = {o1}
    CommandIds = {c1, c2, c3}
    RawIds = {r1, r2}
    Dispatchers = {d1, d2}
    CommandSource <- MCCommandSource
    Intent <- MCIntent
    Evidence <- MCEvidence
SYMMETRY Symmetry
INVARIANT ClaimsOnlyRequireReconciliation
