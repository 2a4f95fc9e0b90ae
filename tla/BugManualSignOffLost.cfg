SPECIFICATION Spec
CONSTANTS
    Slugs = {s1}
    Jobs = {j1}
    Hooks = {h1}
    Recs = {c1}
    Ops = {o1}
    Nobody = Nobody
    NumPhases = 1
    Ingress = 1
    MaxRuns = 1
    MaxAttempts = 0
CHECK_DEADLOCK FALSE
PROPERTY
    ManualSignOffKept
