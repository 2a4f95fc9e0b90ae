SPECIFICATION BackgroundSpec
CONSTANTS
    MaxEvents = 2
    Workers = {w1}
    MaxQueue = 2
    MaxCommands = 2
    Agents = {a1, a2}
    MaxAsks = 3
    Visitors = {v1, v2}
    Admins = {x1, x2}
    MaxGuests = 2
    MaxDay = 3
\* the bounds on events, requests and days stop the parts
CHECK_DEADLOCK FALSE
INVARIANTS
    BackgroundTypeOK
    OrphanIsLate
    SandboxesKept
PROPERTIES
    CaughtUp
    ActiveIsExecutedHere
    OrphanStops
    ExpiredIsReaped
