SPECIFICATION LiveSpec
CONSTANTS
    Agents = {a1}
    Runs = {r1}
    Edits = {e1}
    Schedules = {s1, s2}
    Ending = {s2}
    Data = {d1, d2}
    Unanswered = {}
    NoData = NoData
    Budget = 1
CHECK_DEADLOCK FALSE
PROPERTIES
    RunsEnd
    ReportKeepsEdits
