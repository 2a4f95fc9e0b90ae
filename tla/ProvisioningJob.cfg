SPECIFICATION Spec
CONSTANTS
    Slugs = {s1}
    Jobs = {j1}
    Hooks = {h1, h2}
    Recs = {c1}
    Ops = {o1}
    Nobody = Nobody
    NumPhases = 1
    Ingress = 1
    MaxRuns = 1
    MaxAttempts = 1
CHECK_DEADLOCK FALSE
SYMMETRY Symmetry
INVARIANTS
    TypeOK
    FinishedIsDated
    SuccessHasEvidence
