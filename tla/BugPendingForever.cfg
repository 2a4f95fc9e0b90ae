SPECIFICATION LiveSpec
CONSTANTS
    Slugs = {s1}
    Jobs = {j1, j2}
    Hooks = {}
    Recs = {}
    Ops = {}
    Nobody = Nobody
    NumPhases = 1
    Ingress = 1
    MaxRuns = 2
    MaxAttempts = 0
CHECK_DEADLOCK FALSE
PROPERTY
    PendingIsPickedUp
