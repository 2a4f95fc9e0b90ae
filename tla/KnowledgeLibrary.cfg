SPECIFICATION Spec
CONSTANTS
    Files = {f1, f2}
    Reqs = {q1, q2}
    Tasks = {t1, t2}
    Limit = 1
    Retries = 0
    MultiPage = {}
    Lossy = TRUE
    Aborts = FALSE
CHECK_DEADLOCK FALSE
SYMMETRY Symmetry
INVARIANTS
    TypeOK
    ReadyHasChunks
    IndexedIsApproved
    QuotaHolds
