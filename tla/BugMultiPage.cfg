SPECIFICATION LiveSpec
CONSTANTS
    Files = {f1}
    Reqs = {q1}
    Tasks = {t1}
    Limit = 1
    Retries = 1
    MultiPage = {f1}
    Lossy = FALSE
    Aborts = FALSE
CHECK_DEADLOCK FALSE
PROPERTIES
    ProcessingEnds
