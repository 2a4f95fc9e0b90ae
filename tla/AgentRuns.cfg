SPECIFICATION Spec
CONSTANTS
    Agents = {a1}
    Runs = {r1, r2}
    Edits = {e1}
    Schedules = {s1}
    Ending = {s1}
    Data = {d1}
    Unanswered = {}
    NoData = NoData
    Budget = 1
CHECK_DEADLOCK FALSE
SYMMETRY Symmetry
INVARIANTS
    TypeOK
    ErrorIsEarned
PROPERTIES
    RunsFollowLifecycle
