SPECIFICATION WorkspaceSpec
CONSTANTS
    Calls = {r1, r2}
    MaxTokens = 4
    MaxTime = 2
    Askers = {q1, q2}
    Codes = {k1}
    MaxMinted = 2
    Staff = {s1, s2}
    MaxRequests = 3
    Owners = {u1, u2}
    None = None
    Granters = {g1, g2}
    MaxGrants = 4
    Clients = {c1, c2}
    MinuteLimit = 1
    HourLimit = 2
    Limit <- Limits
    MaxArrivals = 3
    Callers = {p1, p2}
    Ceilings = {1, 2}
    MaxUnits = 3
    MaxMonth = 2
    MaxQueries = 2
    Tables = {t1, t2}
    Editors = {e1, e2}
    Seed = Seed
    Comments = {m1, m2}
    Asks = {a1, a2}
    Unstamped = Unstamped
    Visitors = {v1, v2, v3, v4}
    Assets = {x1, x2}
    Unqualified = {x2}
    Selected = {x1, x2}
    Curators = {w1, w2, w3}
    Unlisted = Unlisted
    Blank = Blank
    Entrants = {n1, n2, n3, n4}
    Legacy = Legacy
SYMMETRY Symmetric
\* the bounds on tokens, links, requests and arrivals stop the parts
CHECK_DEADLOCK FALSE
INVARIANTS
    WorkspaceTypeOK
    DeviceStaysSignedOut
    OneLiveUnlessForked
    DiscussionsHold
    DecisionIsWhole
    TwiceOnlyByRace
    LimitsHold
PROPERTIES
    AccountKept
    DataKept
