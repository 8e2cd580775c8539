SPECIFICATION Spec
CONSTANTS
    Paths <- AllPaths
    SingleLeaves <- Singles
    MultiLeaves <- Multis
    Tags <- TagNodes
    NeedBody <- Bodies
    Regions <- RegionSet
    BadTokens <- Bad
    Families <- Networks
    Crypt <- Hashes
    Decimals = {"10", "20"}
    OtherDigits = {"2 superscript"}
    Calls <- AllCalls
    Versions <- Releases
    Login = "vyos"
    Identities = {"vyos", "bob", "unknown"}
    Region <- RegionOf
    OthersCommit = FALSE
    FactsFail = FALSE
INVARIANTS
    CallIsMet
    ScopesArePosed
