SPECIFICATION FairSpec
CONSTANTS
    r1 = r1
    r2 = r2
    n1 = n1
    n2 = n2
    Runs = {r1}
    Nodes = {n1, n2}
    Requests <- AllRequests
    Faults = {"stage", "reject", "commit", "save", "compare", "signal", "disconnect", "admin"}
    CallerSerializes = TRUE
PROPERTIES
    EveryRunEnds
    StartedRunIsCleanedUp
