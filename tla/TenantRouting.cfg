SPECIFICATION RoutingLive
CONSTANTS
    Slugs = {"a"}
    Hosts = {"ha", "hc"}
    LabelOf <- Labels
    Start <- Registered
    Pods = {"api"}
    Workers = {"worker"}
    Reqs = {r1}
    Databases = {"d1", "d2"}
    MaxId = 2
    MaxEdits = 2
    None = "none"
CHECK_DEADLOCK FALSE
INVARIANTS
    RoutingTypeOK
    RestartRefreshes
PROPERTIES
    SuspensionTakesEffect
    AddressOpens
    RowsKeepRegistry
