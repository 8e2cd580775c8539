-------------------------- MODULE MCConfigOperation --------------------------
(* Instances of ConfigOperation for TLC.  The device has a node p with a     *)
(* leaf m of many values, a leaf s of one value and a subtree g that holds a *)
(* valueless node e and a leaf l; q is outside of every owned path.          *)
EXTENDS ConfigOperation, TreeWalk

AllPaths ==
    { <<"q">>, <<"p">>,
      <<"p", "m">>, <<"p", "m", "v">>, <<"p", "m", "w">>,
      <<"p", "s">>, <<"p", "s", "v">>, <<"p", "s", "w">>,
      <<"p", "g">>, <<"p", "g", "e">>, <<"p", "g", "l">>, <<"p", "g", "l", "v">> }

OneRegion == {AllPaths}

Singles == { <<"p", "s">>, <<"p", "g", "l">> }

Multis == { <<"p", "m">> }

\* Every choice of a subset of the keys with one of the nodes given for each.
TreesOver(nodes) ==
    UNION { { Tree(kids) : kids \in { f \in [keys -> UNION { nodes[k] : k \in keys }] :
                                          \A k \in keys : f[k] \in nodes[k] } } :
            keys \in SUBSET DOMAIN nodes }

\* Desired trees in the shapes the device itself uses, empty leaves included.
Subtrees == TreesOver([e |-> {EmptyTree}, l |-> {Leaf({}), Leaf({"v"})}])

ShapedTrees ==
    TreesOver([ m |-> { Leaf(values) : values \in SUBSET {"v", "w"} },
                s |-> { Leaf({}), Leaf({"v"}), Leaf({"w"}) },
                g |-> Subtrees ])

ShapedOperations ==
    { <<Scope(intent, <<"p">>, tree)>> :
          intent \in {"exact", "merge"}, tree \in ShapedTrees }
    \cup { <<Scope("absent", path, Absent)>> :
          path \in { <<"p">>, <<"p", "g">>, <<"p", "m">>, <<"p", "g", "e">> } }
    \* Per-field ownership, as the typed operations ask for it: a leaf (an empty
    \* list is an absent leaf), a valueless node, and a body that is left open.
    \cup { <<leaf, node, body>> :
          leaf \in { Scope("absent", <<"p", "m">>, Absent),
                     Scope("exact", <<"p", "m">>, Leaf({"v"})),
                     Scope("exact", <<"p", "m">>, Leaf({"v", "w"})) },
          node \in { Scope("absent", <<"p", "g", "e">>, Absent),
                     Scope("exact", <<"p", "g", "e">>, EmptyTree) },
          body \in { Scope("merge", <<"p">>, Tree([s |-> Leaf({"v"})])),
                     Scope("merge", <<"p">>, EmptyTree) } }

\* The fewer operations that are also run on a configuration that has changed.
DisturbedOperations ==
    { <<Scope(intent, <<"p">>, Tree([m |-> Leaf({"v"}), g |-> Tree([l |-> Leaf({"v"})])]))>> :
          intent \in {"exact", "merge"} }
    \cup { <<Scope("exact", <<"p", "s">>, Leaf({"w"})), Scope("merge", <<"p">>, EmptyTree)>>,
           <<Scope("exact", <<"p", "g">>, Tree([e |-> EmptyTree]))>>,
           <<Scope("absent", <<"p", "g", "e">>, Absent), Scope("exact", <<"p", "m">>, Leaf({"w"}))>> }

ASSUME PosedAssumption ==
    \A scopes \in ShapedOperations \cup DisturbedOperations : WellPosed(scopes)

\* Shapes the device understands and does not use: a leaf written as a
\* subtree of its values, a subtree written as a leaf of its keys.
LooseTrees ==
    TreesOver([ m |-> { Tree([v |-> EmptyTree]), Leaf({"w"}) },
                s |-> { Tree([w |-> EmptyTree]) },
                g |-> { Leaf({"e"}) } ])

LooseOperations ==
    { <<Scope(intent, <<"p">>, tree)>> :
          intent \in {"exact", "merge"}, tree \in LooseTrees }

AllOperations == ShapedOperations \cup DisturbedOperations \cup LooseOperations

\* A plan is what the walk of diff_tree over the trees of its scopes finds, in
\* any shape they may have.
PlanIsWalk ==
    phase \in {"planned", "noop"} =>
        \A i \in DOMAIN op : op[i].intent # "absent" =>
            LET fact == IF blind THEN EmptyTree ELSE TreeOf(planned)
                walk == WalkTree(SelectSubtree(fact, op[i].path), op[i].node, op[i].path,
                                 op[i].intent = "exact")
            IN  walk = IF plan = <<>> THEN NoDelta ELSE plan[i]

IsDisturbed(scopes) == scopes \in DisturbedOperations

Never(scopes) == FALSE

\* The path of a value: VyOS knows `delete p m v`.
ValueOperations == { <<Scope("absent", <<"p", "m", "v">>, Absent)>> }

\* Nothing desired below a node, in the shape the device does not use: a bare
\* node where it has a leaf, no values where it has a subtree.
BareOperations ==
    { <<Scope("exact", <<"p">>, tree)>> :
          tree \in { Tree([m |-> EmptyTree]), Tree([g |-> Leaf({})]) } }

=============================================================================
