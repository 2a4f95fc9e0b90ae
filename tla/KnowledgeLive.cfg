SPECIFICATION LiveSpec
CONSTANTS
    Files = {f1}
    Reqs = {q1, q2}
    Tasks = {t1, t2}
    Limit = 1
    Retries = 1
    MultiPage = {}
    Lossy = FALSE
    Aborts = FALSE
CHECK_DEADLOCK FALSE
PROPERTIES
    ProcessingEnds
