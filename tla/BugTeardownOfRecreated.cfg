SPECIFICATION Spec
CONSTANTS
    Slugs = {s1}
    Jobs = {j1, j2, j3}
    Hooks = {h1}
    Recs = {}
    Ops = {}
    Nobody = Nobody
    NumPhases = 1
    Ingress = 1
    MaxRuns = 1
    MaxAttempts = 0
CHECK_DEADLOCK FALSE
SYMMETRY Symmetry
CONSTRAINT Recreation
PROPERTY
    TeardownOfItsTarget
