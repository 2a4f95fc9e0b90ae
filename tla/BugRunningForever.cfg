SPECIFICATION TimeoutSpec
CONSTANTS
    Agents = {a1}
    Runs = {r1}
    Edits = {}
    Schedules = {s1}
    Ending = {}
    Data = {d1}
    Unanswered = {}
    NoData = NoData
    Budget = 1
CHECK_DEADLOCK FALSE
PROPERTY
    RunsEnd
