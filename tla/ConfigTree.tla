------------------------------ MODULE ConfigTree ------------------------------
(***************************************************************************)
(* How a desired configuration becomes set and delete commands: the tree    *)
(* that the Configuration fact returns, the subtree an operation owns, the  *)
(* difference between the two and the plan made of it.                      *)
(*                                                                         *)
(* Source: _tree.py (select_subtree, diff_tree) and _plan_scopes in         *)
(* operations.py.  Trees are taken as normalize_tree leaves them: a leaf is *)
(* the set of its values, because their order is not managed and a value    *)
(* given twice is set twice to the same effect.                             *)
(*                                                                         *)
(* A tree is told by its paths: those of its nodes, those of its leaves, and *)
(* those of the values, each behind its leaf.  The difference is said of    *)
(* these paths at once; TreeWalk has the recursion of the code, and a run   *)
(* shows the two to agree.                                                  *)
(***************************************************************************)
EXTENDS Naturals, SequencesExt

Absent == [nodes |-> {}, leaves |-> {}, values |-> {}]

EmptyTree == [Absent EXCEPT !.nodes = {<<>>}]

Leaf(values) == [nodes |-> {}, leaves |-> {<<>>}, values |-> { <<value>> : value \in values }]

\* Every path of a part of a tree, behind another path.
Behind(path, part) == { path \o rest : rest \in part }

Tree(kids) ==
    LET below(part) == UNION { Behind(<<key>>, kids[key][part]) : key \in DOMAIN kids }
    IN  [nodes |-> {<<>>} \cup below("nodes"), leaves |-> below("leaves"),
         values |-> below("values")]

\* Two trees in one.
Joined(left, right) == [part \in DOMAIN left |-> left[part] \cup right[part]]

\* The tree as a part of a configuration: its root is at `path`.
At(path, tree) == [part \in DOMAIN tree |-> Behind(path, tree[part])]

IsTree(tree) == <<>> \in tree.nodes

\* Where the tree has a node or a leaf, with or without values.
Present(tree) == tree.nodes \cup tree.leaves

Keys(tree) == { path[1] : path \in Present(tree) \ {<<>>} }

\* The nodes with nothing below them.
Bare(tree) == { node \in tree.nodes : \A path \in Present(tree) : ~IsStrictPrefix(node, path) }

\* What is there from `path` downwards, where a node or a leaf is there.
SelectSubtree(tree, path) ==
    IF path \in Present(tree)
    THEN [part \in DOMAIN tree |-> { q \in tree[part] : IsPrefix(path, q) }]
    ELSE Absent

-----------------------------------------------------------------------------
(* diff_tree.  A delta is two sets of paths: no path to delete lies below   *)
(* another, so that the order within each does not matter.                  *)

NoDelta == [deletes |-> {}, sets |-> {}]

\* Mutant of MissingValues: every desired value is set, present or not.
AllValues(active, desired) == desired.values

\* _diff_value: the desired values that their leaf does not have.
MissingValues(active, desired) == desired.values \ active.values

\* Mutant of MissingNodes: a node is made, and nothing below it.
MissingTops(active, desired) ==
    { node \in desired.nodes \ Present(active) : Front(node) \notin desired.nodes }

\* _diff_value: nothing is desired below a node, and it is not there.
MissingNodes(active, desired) == Bare(desired) \ Present(active)

\* _diff_value: the values of a desired leaf that are not desired.
StaleValues(active, desired) ==
    { value \in active.values \ desired.values : Front(value) \in desired.leaves }

\* Mutant of InTheWay: a leaf in the way of a subtree stays.
SubtreesInTheWay(active, desired) ==
    { path \in desired.leaves \cap active.nodes :
          \E value \in desired.values : Front(value) = path }

\* _diff_value: an active subtree in the way of a leaf's values, or an active
\* leaf in the way of a subtree.  Nothing is deleted for a bare node.
InTheWay(active, desired) ==
    { path \in desired.leaves \cap active.nodes :
          \E value \in desired.values : Front(value) = path }
    \cup ((desired.nodes \cap active.leaves) \ Bare(desired))

\* Mutant of ExtraKeys: undesired keys are only noticed where a key is desired.
NoExtraKeys(active, desired) == {}

\* _diff_node: the keys of a desired node that are not desired.
ExtraKeys(active, desired) ==
    { path \in Present(active) \ Present(desired) :
          Front(path) \in desired.nodes \cap active.nodes }

\* Mutant of Deletes: extra keys go even when they are not owned.
DeletesAlways(active, desired, replace) ==
    ExtraKeys(active, desired)
    \cup IF replace THEN StaleValues(active, desired) \cup InTheWay(active, desired) ELSE {}

Deletes(active, desired, replace) ==
    IF replace
    THEN StaleValues(active, desired) \cup InTheWay(active, desired)
         \cup ExtraKeys(active, desired)
    ELSE {}

Sets(active, desired) == MissingValues(active, desired) \cup MissingNodes(active, desired)

\* A path that is absent is created even when nothing is desired below it.
DiffTree(active, desired, path, replace) ==
    LET delta == [deletes |-> Deletes(active, desired, replace), sets |-> Sets(active, desired)]
    IN  IF delta = NoDelta /\ active = Absent
        THEN [NoDelta EXCEPT !.sets = {path}]
        ELSE delta

-----------------------------------------------------------------------------
(* The plan: a delta for each scope.  Its deletes run before its sets.      *)

\* Mutant of PlanScope: a node that is not there is deleted all the same.
PlanScopeDeletesBlindly(tree, scope) ==
    IF scope.intent = "absent"
    THEN [NoDelta EXCEPT !.deletes = {scope.path}]
    ELSE DiffTree(SelectSubtree(tree, scope.path), scope.node, scope.path,
                  scope.intent = "exact")

\* Mutant of PlanScope: absence is taken for "nothing desired".
PlanScopeEmptiesAbsent(tree, scope) ==
    LET active == SelectSubtree(tree, scope.path)
    IN  IF scope.intent = "absent" /\ active = Absent
        THEN NoDelta
        ELSE DiffTree(active,
                      IF scope.intent = "absent" THEN At(scope.path, EmptyTree) ELSE scope.node,
                      scope.path, scope.intent # "merge")

\* A scope is a path with what should become of it: nothing may remain
\* ("absent"), exactly a tree ("exact") or at least a tree ("merge").
Scope(intent, path, tree) == [intent |-> intent, path |-> path, node |-> At(path, tree)]

PlanScope(tree, scope) ==
    LET active == SelectSubtree(tree, scope.path)
    IN  IF scope.intent = "absent"
        THEN [NoDelta EXCEPT !.deletes = IF active = Absent THEN {} ELSE {scope.path}]
        ELSE DiffTree(active, scope.node, scope.path, scope.intent = "exact")

\* Mutant of PlanScopes: a plan without commands is a plan.
PlanScopesKeepsEmpty(tree, scopes) == [i \in DOMAIN scopes |-> PlanScope(tree, scopes[i])]

\* Every scope is planned against the same tree; their order is kept, and a
\* plan without commands is none.
PlanScopes(tree, scopes) ==
    LET deltas == [i \in DOMAIN scopes |-> PlanScope(tree, scopes[i])]
    IN  IF \A i \in DOMAIN scopes : deltas[i] = NoDelta THEN <<>> ELSE deltas

-----------------------------------------------------------------------------
(* What a desired tree asks for.                                            *)

\* The paths that have to be there for the tree to be.
Required(tree) == tree.values \cup Bare(tree)

\* The paths that may be there when nothing else is.
Allowed(tree) == Present(tree) \cup tree.values

=============================================================================
