SPECIFICATION Spec
CONSTANTS
    r1 = r1
    r2 = r2
    n1 = n1
    n2 = n2
    Runs = {r1, r2}
    Nodes = {n1, n2}
    Requests <- FewRequests
    Faults = {"reject", "commit", "save", "disconnect", "kill"}
    CallerSerializes = TRUE
SYMMETRY RunSymmetry
INVARIANTS
    IndInv
    SerializedRunsAreAlone
