SPECIFICATION Spec
CONSTANTS
    Paths <- AllPaths
    SingleLeaves <- Singles
    MultiLeaves <- Multis
    Tags = {}
    NeedBody = {}
    Regions <- OneRegion
    Operations <- ValueOperations
    Contended <- Never
INVARIANT
    AbsentIsAbsent
