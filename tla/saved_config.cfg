SPECIFICATION FairSpec
CONSTANTS
    Hosts = {"h1", "h2"}
    NoVbash = {"h2"}
    Nodes = {"owned", "other"}
    Desired <- DeleteOwned
    WithSave = TRUE
    WithConfigSave = TRUE
    IgnoreErrors = FALSE
    Pty = TRUE
    MaxFaults = 3
INVARIANTS
    DoneIsMet
    DoneIsSaved
    OthersGoOn
PROPERTIES
    EventuallyMetAndSaved
