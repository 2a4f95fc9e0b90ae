SPECIFICATION Spec
CONSTANTS
    Agents = {a1}
    Runs = {r1}
    Edits = {e1}
    Schedules = {s1}
    Ending = {}
    Data = {d1}
    Unanswered = {}
    NoData = NoData
    Budget = 0
CHECK_DEADLOCK FALSE
SYMMETRY Symmetry
PROPERTY
    EndedStaysEnded
