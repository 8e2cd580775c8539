------------------------------- MODULE TreeWalk -------------------------------
(***************************************************************************)
(* diff_tree as the code walks: from the root of the desired tree down, one *)
(* key after the other.  ConfigTree says the same of all paths at once; this *)
(* is what it is checked against.                                           *)
(*                                                                         *)
(* Source: diff_tree, _diff_value and _diff_node in _tree.py.               *)
(***************************************************************************)
EXTENDS ConfigTree

KeysBelow(tree, prefix) ==
    { path[Len(prefix) + 1] : path \in { q \in Present(tree) : IsStrictPrefix(prefix, q) } }

ValuesBelow(tree, prefix) == { Last(v) : v \in { w \in tree.values : Front(w) = prefix } }

Argvs(prefix, tokens) == { Append(prefix, token) : token \in tokens }

RECURSIVE DiffValue(_, _, _, _)

\* _diff_node: the desired keys one by one, and the extra ones.
DiffNode(active, desired, prefix, replace) ==
    LET below(key) == DiffValue(active, desired, Append(prefix, key), replace)
        keys == KeysBelow(desired, prefix)
        extra == IF replace THEN KeysBelow(active, prefix) \ keys ELSE {}
    IN  [ deletes |-> UNION { below(key).deletes : key \in keys } \cup Argvs(prefix, extra),
          sets    |-> UNION { below(key).sets : key \in keys } ]

\* _diff_value where a leaf is desired.
DiffLeaf(active, desired, prefix, replace) ==
    LET values  == ValuesBelow(desired, prefix)
        present == ValuesBelow(active, prefix)
        inTheWay == IF prefix \in active.nodes /\ values # {} THEN {prefix} ELSE {}
    IN  [ deletes |-> IF replace THEN inTheWay \cup Argvs(prefix, present \ values) ELSE {},
          sets    |-> Argvs(prefix, values \ present) ]

\* _diff_value where a subtree is desired and none is there: it is built from
\* nothing, behind the leaf that may be in its way.
DiffSubtree(active, desired, prefix, replace) ==
    IF KeysBelow(desired, prefix) = {}
    THEN [NoDelta EXCEPT !.sets = IF prefix \in active.leaves THEN {} ELSE {prefix}]
    ELSE LET built == DiffNode(Absent, desired, prefix, replace)
         IN  [built EXCEPT !.deletes = IF prefix \in active.leaves /\ replace
                                       THEN @ \cup {prefix} ELSE @]

DiffValue(active, desired, prefix, replace) ==
    IF prefix \in desired.leaves THEN DiffLeaf(active, desired, prefix, replace)
    ELSE IF prefix \in active.nodes THEN DiffNode(active, desired, prefix, replace)
    ELSE DiffSubtree(active, desired, prefix, replace)

\* diff_tree: at the root an absent subtree counts as an empty one.
WalkTree(active, desired, path, replace) ==
    LET delta == IF path \in desired.nodes /\ active = Absent
                 THEN DiffNode(Absent, desired, path, replace)
                 ELSE DiffValue(active, desired, path, replace)
    IN  IF delta = NoDelta /\ active = Absent
        THEN [NoDelta EXCEPT !.sets = {path}]
        ELSE delta

=============================================================================
