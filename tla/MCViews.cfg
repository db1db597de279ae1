SPECIFICATION MCSpec
CONSTANTS
    Node = {"a", "b"}
    Screens = {"list", "usage", "containers", "resources"}
    Status = TRUE
    MaxRequests = 4
    MaxSessions = 1
    Row = {1, 2, 3, 4}
    Filters = {{1, 2, 3, 4}, {2, 3, 4}, {3, 4}, {1, 4}, {}}
    Host = {h1, h2}
    Contexts = 2
    Refreshes = 1
    Trouble = 1
SYMMETRY HostSymmetry
INVARIANTS ShownIsOfView NothingLeftBehind HealthyIsRead
PROPERTIES SelectionKept HeartbeatKeepsReads
CHECK_DEADLOCK FALSE
