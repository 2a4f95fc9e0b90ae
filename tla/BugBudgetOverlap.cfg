SPECIFICATION Spec
CONSTANTS
    Agents = {a1}
    Runs = {r1, r2}
    Edits = {}
    Schedules = {s1}
    Ending = {}
    Data = {d1}
    Unanswered = {}
    NoData = NoData
    Budget = 1
CHECK_DEADLOCK FALSE
SYMMETRY Symmetry
INVARIANT
    BudgetStopsAgent
