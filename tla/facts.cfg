SPECIFICATION Spec
CONSTANTS
    Fields = {"version", "release_train"}
    Trees = {{}, {"a"}, {"a", "b"}}
    Part = {"b"}
    Noise = {"banner"}
INVARIANTS
    ValuesAreTrue
    SavedIsCompared
