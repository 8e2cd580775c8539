----------------------------- MODULE MCSavedState -----------------------------
(* Instances of SavedState for TLC: one node that is asked for and one that  *)
(* is somebody else's.                                                       *)
EXTENDS SavedState

DeleteOwned == [kind |-> "delete", nodes |-> {"owned"}]

=============================================================================
