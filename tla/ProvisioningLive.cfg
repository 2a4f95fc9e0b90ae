SPECIFICATION LiveSpec
CONSTANTS
    Slugs = {s1}
    Jobs = {j1}
    Hooks = {h1}
    Recs = {c1}
    Ops = {}
    Nobody = Nobody
    NumPhases = 2
    Ingress = 1
    MaxRuns = 1
    MaxAttempts = 1
CHECK_DEADLOCK FALSE
PROPERTIES
    ReconcilerDecides
