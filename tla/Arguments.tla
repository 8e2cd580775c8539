------------------------------- MODULE Arguments -------------------------------
(***************************************************************************)
(* What the arguments of a typed operation say of the device, field by      *)
(* field: where each belongs, what it asks for, and which paths are its own. *)
(* The properties of TypedOperations are stated in these terms, and not in  *)
(* those of the scopes that the renderers make of the arguments.            *)
(*                                                                         *)
(* Source: the typed operations of operations.py with their docstrings, and *)
(* the paths in _render.py.                                                 *)
(***************************************************************************)
EXTENDS ConfigDevice, Renderers

\* What each operation takes; its identity and `present` come besides.
Fields ==
    [ system_basics    |-> {"hostname", "domain_name", "name_servers", "search_domains", "time_zone"},
      interface        |-> {"addresses", "description", "mtu", "disabled", "values"},
      static_route     |-> {"next_hops", "values"},
      user             |-> {"full_name", "encrypted_password", "ssh_keys"},
      firewall_group   |-> {"members", "description"},
      firewall_ruleset |-> {"default_action", "description", "rules", "values"} ]

Lists == {"name_servers", "search_domains", "addresses", "members"}

Subtrees == {"ssh_keys", "next_hops", "values"}

TreeType ==
    [nodes : SUBSET Seq(STRING), leaves : SUBSET Seq(STRING), values : SUBSET Seq(STRING)]

\* A call as the signature of its operation has it.
IsCall(c) ==
    /\ c.op \in DOMAIN Fields /\ DOMAIN c.args \subseteq Fields[c.op]
    /\ c.present \in BOOLEAN /\ (c.op = "system_basics" => c.present)
    /\ c.op = "firewall_ruleset" => c.replace_rules \in BOOLEAN
    /\ \A field \in DOMAIN c.args :
           /\ field \in Subtrees => c.args[field] \in TreeType
           /\ field = "disabled" => c.args[field] \in BOOLEAN
           /\ field = "rules" =>
                  /\ c.args[field] \in [DOMAIN c.args[field] -> TreeType]
                  /\ IsFiniteSet(DOMAIN c.args[field]) /\ RuleTokens(c) \subseteq STRING

ObjectPath(c) ==
    CASE c.op = "interface"        -> InterfacePath(c)
      [] c.op = "static_route"     -> RoutePath(c)
      [] c.op = "user"             -> UserPath(c)
      [] c.op = "firewall_group"   -> GroupPath(c)
      [] c.op = "firewall_ruleset" -> ChainPath(c)
      [] c.op = "system_basics"    -> <<"system">>

\* An object is owned as a whole, or field by field.
Whole(c) == c.op \in {"static_route", "firewall_group"} \/ ~c.present

FieldKeys ==
    [ hostname |-> <<"host-name">>, domain_name |-> <<"domain-name">>,
      time_zone |-> <<"time-zone">>, name_servers |-> <<"name-server">>,
      search_domains |-> <<"domain-search">>, addresses |-> <<"address">>,
      description |-> <<"description">>, mtu |-> <<"mtu">>, disabled |-> <<"disable">>,
      next_hops |-> <<"next-hop">>, full_name |-> <<"full-name">>,
      encrypted_password |-> <<"authentication", "encrypted-password">>,
      ssh_keys |-> <<"authentication", "public-keys">>,
      default_action |-> <<"default-action">>, rules |-> <<"rule">> ]

\* The names in the tables are strings, which the provers cannot tell of a literal.
ASSUME NameAssumption ==
    /\ \A field \in DOMAIN FieldKeys : FieldKeys[field] \in Seq(STRING)
    /\ \A type \in DOMAIN GroupTable : GroupTable[type][2] \in STRING

FieldPath(c, field) ==
    ObjectPath(c) \o IF field = "members" THEN <<GroupTable[c.group_type][2]>>
                     ELSE FieldKeys[field]

RulePath(c, token) == Append(FieldPath(c, "rules"), token)

-----------------------------------------------------------------------------
(* Whether a configuration is what the arguments say.                       *)

\* What is below `path` is `node`, but for what an open body may add; the node
\* itself need not be there when there is nothing below it.
Exactly(config, node, path) ==
    /\ Required(At(path, node)) \ {path} \subseteq config
    /\ { q \in config : IsPrefix(path, q) } \subseteq {path} \cup Allowed(At(path, node))

FieldIsMet(c, field, config) ==
    LET value == c.args[field]
        path  == FieldPath(c, field)
    IN  CASE field \in Lists -> Exactly(config, Leaf(value), path)
          [] field \in Subtrees \ {"values"} -> Exactly(config, value, path)
          [] field = "disabled" -> value <=> path \in config
          [] field = "values"   -> Required(At(ObjectPath(c), value)) \subseteq config
          [] field = "rules"    ->
                 \A key \in DOMAIN value :
                     LET rule == RulePath(c, key[2])
                     IN  IF value[key] = Absent THEN rule \notin config
                         ELSE rule \in config /\ Exactly(config, value[key], rule)
          [] OTHER -> Exactly(config, Leaf({value}), path)

\* What is there below a node that is owned as a whole was asked for.
NothingElse(c, config) ==
    LET asked(field) == IF field = "values" THEN Keys(c.args[field])
                        ELSE { FieldPath(c, field)[Len(ObjectPath(c)) + 1] }
    IN  /\ Whole(c) => KeysAt(config, ObjectPath(c))
                           \subseteq UNION { asked(field) : field \in DOMAIN c.args }
        /\ c.op = "firewall_ruleset" /\ c.replace_rules =>
               KeysAt(config, FieldPath(c, "rules")) = RuleTokens(c)

\* The paths a field is about, and those that a call owns.
Area(c, field) ==
    IF field = "values" THEN { Append(ObjectPath(c), key) : key \in Keys(c.args[field]) }
    ELSE IF field = "rules" /\ ~c.replace_rules
    THEN { RulePath(c, token) : token \in RuleTokens(c) }
    ELSE {FieldPath(c, field)}

Owned(c) == IF Whole(c) THEN {ObjectPath(c)} ELSE UNION { Area(c, field) : field \in DOMAIN c.args }

-----------------------------------------------------------------------------
(* Arguments in terms of the grammar.  That these are rendered to scopes in *)
(* terms of the grammar, and reached, is what there is to show.             *)

\* What a field asks to be there, each tree at its place.
Desired(c, field) ==
    LET value == c.args[field]
        path  == FieldPath(c, field)
    IN  CASE field \in Lists ->
                 IF value = {} THEN {} ELSE { Scope("exact", path, Leaf(value)) }
          [] field \in Subtrees \ {"values"} ->
                 IF value = EmptyTree THEN {} ELSE { Scope("exact", path, value) }
          [] field = "disabled" -> IF value THEN { Scope("exact", path, EmptyTree) } ELSE {}
          [] field = "values"   ->
                 IF value = EmptyTree THEN {} ELSE { Scope("exact", ObjectPath(c), value) }
          [] field = "rules"    ->
                 { Scope("exact", RulePath(c, key[2]), value[key]) :
                       key \in { k \in DOMAIN value : value[k] # Absent } }
          [] OTHER -> { Scope("exact", path, Leaf({value})) }

\* It is a tree of the grammar that the device can hold, and asks for something.
Suits(scope) ==
    /\ IsScope(scope) /\ HasShape(scope) /\ Holdable(scope)
    /\ Required(scope.node) # {}
    /\ \A v, w \in scope.node.values : Front(v) = Front(w) /\ Front(v) \in SingleLeaves => v = w

\* The object is a node of the grammar, one that is there with nothing below it
\* unless it is a route; no part of it that a field owns is all there is below a
\* node that needs a body; rules are instances; and every field suits its place.
Fits(c) ==
    LET object == ObjectPath(c)
    IN  /\ object \in Paths \ (Leaves \cup Tags) /\ Front(object) \notin Leaves
        /\ \A n \in NeedBody : ~IsStrictPrefix(n, object)
        /\ c.op # "static_route" => object \notin NeedBody
        /\ \A field \in DOMAIN c.args \ {"values"} :
               /\ Front(FieldPath(c, field)) \notin Leaves
               /\ ~Whole(c) => \A n \in NeedBody : ~IsPrefix(n, FieldPath(c, field))
        /\ Given(c, "rules") => FieldPath(c, "rules") \in Tags
        /\ \A field \in DOMAIN c.args : \A scope \in Desired(c, field) : Suits(scope)

=============================================================================
