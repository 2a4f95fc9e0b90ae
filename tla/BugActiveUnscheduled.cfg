SPECIFICATION Spec
CONSTANTS
    Agents = {a1}
    Runs = {r1}
    Edits = {e1}
    Schedules = {s1, s2}
    Ending = {s2}
    Data = {d1}
    Unanswered = {}
    NoData = NoData
    Budget = 1
CHECK_DEADLOCK FALSE
SYMMETRY Symmetry
INVARIANT
    ActiveIsScheduled
