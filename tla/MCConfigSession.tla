--------------------------- MODULE MCConfigSession ---------------------------
(* Instances of ConfigSession for TLC.                                      *)
EXTENDS ConfigSessionInv, TLC

CONSTANTS r1, r2, n1, n2

LoadRequest(save, file) ==
    [kind |-> "load", save |-> save, cmds |-> <<>>, file |-> file]

CommandsRequest(save, cmds) ==
    [kind |-> "commands", save |-> save, cmds |-> cmds, file |-> {}]

SaveRequest == [kind |-> "save", save |-> TRUE, cmds |-> <<>>, file |-> {}]

Set(nodes) == [verb |-> "set", nodes |-> nodes]

Delete(nodes) == [verb |-> "delete", nodes |-> nodes]

\* Loads with and without saving, a replacement (delete a subtree, then set a
\* leaf in it) that saves, two sets that do not, and the save.
AllRequests ==
    { LoadRequest(s, {n1}) : s \in BOOLEAN }
    \cup { CommandsRequest(TRUE, <<Delete({n1, n2}), Set({n1})>>),
           CommandsRequest(FALSE, <<Set({n1}), Set({n2})>>),
           SaveRequest }

\* One request of each kind.
FewRequests ==
    { LoadRequest(TRUE, {n1}),
      CommandsRequest(TRUE, <<Delete({n1}), Set({n2})>>),
      SaveRequest }

RunSymmetry == Permutations(Runs)

=============================================================================
