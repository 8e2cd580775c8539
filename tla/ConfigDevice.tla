----------------------------- MODULE ConfigDevice -----------------------------
(***************************************************************************)
(* The device as the operations see it (external): a configuration is a set *)
(* of paths, closed under the rules of VyOS's configuration grammar, and a  *)
(* session runs the commands of a plan on a candidate of it.                *)
(***************************************************************************)
EXTENDS ConfigTree

CONSTANTS
    Paths,          \* every path the device's grammar allows, leaf values included
    SingleLeaves,   \* the paths of leaves with one value
    MultiLeaves,    \* the paths of leaves with any number of values
    Tags,           \* nodes that are there only for their instances
    NeedBody,       \* instances that cannot be committed without a body
    Regions         \* the parts of Paths that configurations are taken from

Leaves == SingleLeaves \cup MultiLeaves

\* Parents come with their children; below a leaf there are values and nothing
\* else; below a tag there are instances, which are nodes.
ASSUME DeviceAssumption ==
    /\ Paths \subseteq Seq(STRING) \ {<<>>}
    /\ Leaves \cup Tags \cup NeedBody \subseteq Paths
    /\ \A path \in Paths : Prefixes(path) \ {<<>>} \subseteq Paths
    /\ UNION Regions \subseteq Paths
    /\ SingleLeaves \cap MultiLeaves = {}
    /\ \A path \in Paths : \A leaf \in Leaves :
           IsStrictPrefix(leaf, path) =>
               Front(path) = leaf /\ path \notin Leaves \cup Tags \cup NeedBody
    /\ \A path \in Leaves \cup Tags : path \notin NeedBody /\ Front(path) \notin Tags
    /\ Leaves \cap Tags = {}

\* The paths with their parents.
Closed(paths) == UNION { Prefixes(path) \ {<<>>} : path \in paths }

\* What is below a node.
BelowIn(config, node) == { path \in config : IsStrictPrefix(node, path) }

\* Parents come with their children, a leaf with its value and a tag node with
\* one of its instances.  A candidate may not be complete yet.
Candidate(config) ==
    /\ config \subseteq Paths
    /\ \A path \in config : Prefixes(path) \ {<<>>} \subseteq config
    /\ \A node \in config \cap (Leaves \cup Tags) : BelowIn(config, node) # {}
    /\ \A leaf \in SingleLeaves : \A v, w \in BelowIn(config, leaf) : v = w

\* commit refuses a node that is incomplete without a body.
Complete(config) == \A node \in config \cap NeedBody : BelowIn(config, node) # {}

Config(config) == Candidate(config) /\ Complete(config)

\* Leaves and tags come with what is below them.
ConfigsIn(paths) ==
    { config \in { Closed(set) : set \in SUBSET (paths \ (Leaves \cup Tags)) } : Config(config) }

ConfigsOf == [region \in Regions |-> ConfigsIn(region)]

Configs == UNION { ConfigsOf[region] : region \in Regions }

KeysAt(config, path) ==
    { q[Len(path) + 1] : q \in { p \in config : IsStrictPrefix(path, p) } }

\* `show configuration json`.
TreeOf(config) ==
    [ nodes  |-> {<<>>} \cup { q \in config : q \notin Leaves /\ Front(q) \notin Leaves },
      leaves |-> config \cap Leaves,
      values |-> { q \in config : Front(q) \in Leaves } ]

\* A path that is not there, or was deleted with one before it, cannot be deleted.
Deletable(config, paths) ==
    paths \subseteq config /\ \A p, q \in paths : ~IsStrictPrefix(p, q)

\* A leaf goes with its last value, a tag node with its last instance.
DeleteAll(config, paths) ==
    LET left == { q \in config : \A path \in paths : ~IsPrefix(path, q) }
    IN  { q \in left : q \in Leaves \cup Tags => BelowIn(left, q) # {} }

\* A leaf is set together with a value and a tag node with an instance; a
\* single leaf takes the new value.
Settable(paths) == paths \subseteq Paths \ (Leaves \cup Tags)

SetAll(config, paths) ==
    LET kept == { q \in config :
                    \A path \in paths : Front(path) \in SingleLeaves =>
                                            ~IsStrictPrefix(Front(path), q) }
    IN  kept \cup Closed(paths)

\* Mutant of RunDelta: sets first.
RunDeltaSetsFirst(config, delta) ==
    LET set == SetAll(config, delta.sets)
    IN  [ ok     |-> Settable(delta.sets) /\ Deletable(set, delta.deletes),
          config |-> DeleteAll(set, delta.deletes) ]

\* The commands of one scope in a session: the candidate after them, unless one
\* of them is rejected.
RunDelta(config, delta) ==
    LET left == DeleteAll(config, delta.deletes)
    IN  [ ok     |-> Deletable(config, delta.deletes) /\ Settable(delta.sets),
          config |-> SetAll(left, delta.sets) ]

-----------------------------------------------------------------------------
(* What may be asked of a device.                                           *)

Intents == {"absent", "exact", "merge"}

\* `node` is the tree at `path`: parents come with their children, values with
\* their leaf.
IsTreeAt(node, path) ==
    /\ path \in Present(node) /\ node.nodes \cap node.leaves = {}
    /\ \A q \in Present(node) :
           /\ IsPrefix(path, q)
           /\ \A p \in Prefixes(q) \ {q} : IsPrefix(path, p) => p \in node.nodes
    /\ \A value \in node.values : Len(value) > 1 /\ Front(value) \in node.leaves

IsScope(scope) ==
    /\ scope.intent \in Intents
    /\ scope.path \in Seq(STRING) \ {<<>>}
    /\ UNION {scope.node.nodes, scope.node.leaves, scope.node.values} \subseteq Seq(STRING) \ {<<>>}
    /\ scope.intent # "absent" => IsTreeAt(scope.node, scope.path)

\* What may be asked for: a sequence of scopes.
IsOperation(scopes) ==
    /\ scopes \in Seq({ scopes[i] : i \in DOMAIN scopes })
    /\ \A i \in DOMAIN scopes : IsScope(scopes[i])

\* The device would show the tree like this: leaves where its grammar has them,
\* and no node in the place of a value.
HasShape(scope) ==
    /\ scope.node.leaves \subseteq Leaves
    /\ scope.node.nodes \cap Leaves = {}
    /\ \A node \in Present(scope.node) : Front(node) \notin Leaves

\* The desired tree is one the device can hold: its paths are in the grammar, and
\* no node is asked for that is nothing without what is below it.
Holdable(scope) ==
    LET node == scope.node
        hollow == Leaves \cup Tags \cup NeedBody
    IN  /\ Present(node) \cup node.values \subseteq Paths
        /\ Bare(node) \cap hollow = {}
        /\ Required(node) = {} => scope.path \notin hollow
        /\ scope.intent = "exact" =>
               \A n \in node.nodes \cap NeedBody : \E q \in Required(node) : IsStrictPrefix(n, q)

\* What two scopes of one operation ask for does not meet: nothing is asked for
\* where the other owns all, and no leaf with one value is given two.
Compatible(scopes) ==
    /\ \A i, j \in DOMAIN scopes :
           i # j /\ scopes[i].intent # "merge" =>
               \A path \in {scopes[j].path} \cup
                           IF scopes[j].intent = "merge" THEN Required(scopes[j].node) ELSE {} :
                   ~IsPrefix(scopes[i].path, path)
    /\ \A i, j \in { k \in DOMAIN scopes : scopes[k].intent # "absent" } :
           \A v \in scopes[i].node.values, w \in scopes[j].node.values :
               Front(v) = Front(w) /\ Front(v) \in SingleLeaves => v = w

\* An operation in terms of the grammar.  A scope is no value, and what it owns
\* is not all there is below a node that needs a body.
WellPosed(scopes) ==
    /\ \A i \in DOMAIN scopes :
           /\ Front(scopes[i].path) \notin Leaves
           /\ scopes[i].intent # "merge" =>
                  \A n \in NeedBody : ~IsStrictPrefix(n, scopes[i].path)
           /\ scopes[i].intent # "absent" => HasShape(scopes[i]) /\ Holdable(scopes[i])
    /\ Compatible(scopes)

=============================================================================
