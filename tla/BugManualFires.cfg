SPECIFICATION SchedulesSpec
CONSTANTS
    Workers = {w1}
    MaxQueue = 1
    MaxCommands = 0
CHECK_DEADLOCK FALSE
INVARIANT
    ManualNeverFires
