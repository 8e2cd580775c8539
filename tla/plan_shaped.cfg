SPECIFICATION Spec
CONSTANTS
    Paths <- AllPaths
    SingleLeaves <- Singles
    MultiLeaves <- Multis
    Tags = {}
    NeedBody = {}
    Regions <- OneRegion
    Operations <- AllOperations
    Contended <- IsDisturbed
INVARIANTS
    TypeOK
    AbsentIsAbsent
    ReplaceIsExact
    MergeIsPresent
    PlanIsAccepted
    SecondCallIsNoop
    PlanIsMinimal
    BlindDeletesNothing
    PlanIsWalk
PROPERTIES
    StaysInScope
