SPECIFICATION Spec
CONSTANTS
    Slugs = {s1}
    Jobs = {j1}
    Hooks = {}
    Recs = {c1}
    Ops = {}
    Nobody = Nobody
    NumPhases = 2
    Ingress = 1
    MaxRuns = 1
    MaxAttempts = 0
CHECK_DEADLOCK FALSE
INVARIANT
    NoSkippedShownAsSuccess
