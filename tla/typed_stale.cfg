SPECIFICATION Spec
CONSTANTS
    Paths <- AllPaths
    SingleLeaves <- Singles
    MultiLeaves <- Multis
    Tags <- TagNodes
    NeedBody <- Bodies
    Regions <- FewRegionSet
    BadTokens <- Bad
    Families <- Networks
    Crypt <- Hashes
    Decimals = {"10", "20"}
    OtherDigits = {"2 superscript"}
    Calls <- FewCalls
    Versions <- Releases
    Login = "vyos"
    Identities = {"vyos", "bob", "unknown"}
    Region <- FewRegionOf
    OthersCommit = TRUE
    FactsFail = TRUE
INVARIANTS
PROPERTIES
    OnlyOwnedChanges
    DeletesOnlyOthers
    ImplementsConfigOperation
