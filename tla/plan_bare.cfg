SPECIFICATION Spec
CONSTANTS
    Paths <- AllPaths
    SingleLeaves <- Singles
    MultiLeaves <- Multis
    Tags = {}
    NeedBody = {}
    Regions <- OneRegion
    Operations <- BareOperations
    Contended <- Never
INVARIANT
    ReplaceIsExact
