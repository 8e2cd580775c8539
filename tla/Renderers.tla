------------------------------- MODULE Renderers -------------------------------
(***************************************************************************)
(* The renderers of the typed operations: from the arguments of a call to   *)
(* the scopes it owns, or to a rejection.                                   *)
(*                                                                         *)
(* Source: _render.py.  A call is a record; call.args is a function of the  *)
(* arguments that were given (not None).  Subtrees come as normalize_tree   *)
(* leaves them, lists as sets, and a token that the token rules reject is a *)
(* member of BadTokens.  The flag `sensitive` of a scope, which only keeps  *)
(* output out of the log, is left out.                                      *)
(***************************************************************************)
EXTENDS ConfigTree

CONSTANTS
    BadTokens,      \* empty strings, strings that begin with a dash, non-strings
    Families,       \* network prefixes without host bits: destination to 4 or 6
    Crypt,          \* passwords in crypt form, and the two lock markers
    Decimals,       \* rule numbers that int() accepts
    OtherDigits     \* tokens of digits by isdigit() that int() refuses

ASSUME TokenAssumption ==
    /\ (DOMAIN Families \cup Crypt \cup Decimals \cup OtherDigits) \cap BadTokens = {}
    /\ Decimals \cap OtherDigits = {}

-----------------------------------------------------------------------------
(* The version gate.                                                        *)

Schemas == {"1.4", "1.5"}

\* The schema of a version, taken as its family and what follows it; the empty
\* set when the version is unknown, or not known at all.
SchemaKey(version) ==
    CASE version.family \in Schemas /\ version.rest \in {"", ".N", ".N.suffix"} -> {version.family}
      [] version.family = "2026.03" /\ version.rest \in {"", ".N"} -> {"1.5"}
      [] OTHER -> {}

-----------------------------------------------------------------------------
(* What the renderers share.                                                *)

Given(call, field) == field \in DOMAIN call.args

Arg(call, field, default) == IF Given(call, field) THEN call.args[field] ELSE default

\* require_absent_args_unset
AbsentWithArgs(call) == ~call.present /\ DOMAIN call.args # {}

Tokens(node) == UNION { Range(path) : path \in Present(node) \cup node.values }

BadTree(node) == Tokens(node) \cap BadTokens # {}

BadField(call, fields) == \E field \in fields : Given(call, field) /\ call.args[field] \in BadTokens

BadList(call, fields) ==
    \E field \in fields : Given(call, field) /\ call.args[field] \cap BadTokens # {}

\* Subtrees under the keys of a mapping, where a leaf is refused.
LeafBody(call, field) ==
    Given(call, field) /\ \E path \in call.args[field].leaves : Len(path) = 1

BadSubtree(call, field) == Given(call, field) /\ BadTree(call.args[field])

\* Mutant of Collides: typed keys may come in values as well.
CollidesNever(call, keys) == FALSE

\* Keys of `values` that a typed argument owns.
Collides(call, keys) == Given(call, "values") /\ Keys(call.args["values"]) \cap keys # {}

\* The scope of one argument, if it is given.
ExactLeaf(call, field, path) ==
    IF Given(call, field) THEN << Scope("exact", path, Leaf({call.args[field]})) >> ELSE <<>>

\* A list owns its leaf, and an empty one owns its absence.
ExactList(call, field, path) ==
    IF ~Given(call, field) THEN <<>>
    ELSE IF call.args[field] = {} THEN << Scope("absent", path, Absent) >>
    ELSE << Scope("exact", path, Leaf(call.args[field])) >>

MergeValues(call, path) ==
    IF Given(call, "values") THEN << Scope("merge", path, call.args["values"]) >> ELSE <<>>

\* An object of which nothing is desired is made to be there.
OrBare(call, path, scopes) ==
    IF ~call.present THEN << Scope("absent", path, Absent) >>
    ELSE IF DOMAIN call.args = {} THEN << Scope("merge", path, EmptyTree) >>
    ELSE scopes

-----------------------------------------------------------------------------
(* system_basics                                                            *)

SystemBasicsRejects(call) ==
    \/ DOMAIN call.args = {}
    \/ BadField(call, {"hostname", "domain_name", "time_zone"})
    \/ BadList(call, {"name_servers", "search_domains"})

RenderSystemBasics(call) ==
    ExactLeaf(call, "hostname", <<"system", "host-name">>)
    \o ExactLeaf(call, "domain_name", <<"system", "domain-name">>)
    \o ExactList(call, "name_servers", <<"system", "name-server">>)
    \o ExactList(call, "search_domains", <<"system", "domain-search">>)
    \o ExactLeaf(call, "time_zone", <<"system", "time-zone">>)

-----------------------------------------------------------------------------
(* interface                                                                *)

InterfacePath(call) == <<"interfaces", call.interface_type, call.interface>>

InterfaceRejects(call) ==
    \/ call.interface_type \notin {"ethernet", "loopback", "dummy"}
    \/ AbsentWithArgs(call)
    \/ call.interface \in BadTokens
    \/ BadField(call, {"description", "mtu"})
    \/ BadList(call, {"addresses"})
    \/ Collides(call, {"address", "description", "mtu", "disable"})
    \/ BadSubtree(call, "values")

\* Three values: a node that is there, one that is not, not managed.
RenderDisabled(call, path) ==
    IF ~Given(call, "disabled") THEN <<>>
    ELSE << IF call.args["disabled"] THEN Scope("exact", path, EmptyTree)
            ELSE Scope("absent", path, Absent) >>

RenderInterface(call) ==
    LET path == InterfacePath(call)
    IN  OrBare(call, path,
               ExactList(call, "addresses", Append(path, "address"))
               \o ExactLeaf(call, "description", Append(path, "description"))
               \o ExactLeaf(call, "mtu", Append(path, "mtu"))
               \o RenderDisabled(call, Append(path, "disable"))
               \o MergeValues(call, path))

-----------------------------------------------------------------------------
(* static_route                                                             *)

\* parse_route_destination: a network in its own form, with its length.
BadDestination(call) == call.destination \notin DOMAIN Families

RoutePath(call) ==
    <<"protocols", "static", IF Families[call.destination] = 4 THEN "route" ELSE "route6",
      call.destination>>

\* next_hops is a subtree per address; a list of addresses gives bare ones.
NoNextHops(call) == Arg(call, "next_hops", EmptyTree) = EmptyTree

StaticRouteRejects(call) ==
    \/ AbsentWithArgs(call)
    \/ BadDestination(call)
    \/ call.present /\ NoNextHops(call) /\ Arg(call, "values", EmptyTree) = EmptyTree
    \/ LeafBody(call, "next_hops")
    \/ BadSubtree(call, "next_hops")
    \/ Given(call, "next_hops") /\ Collides(call, {"next-hop"})
    \/ BadSubtree(call, "values")

RouteBody(call) ==
    LET values == Arg(call, "values", EmptyTree)
    IN  IF NoNextHops(call) THEN values
        ELSE Joined(values, Tree([key \in {"next-hop"} |-> call.args["next_hops"]]))

RenderStaticRoute(call) ==
    IF call.present
    THEN << Scope("exact", RoutePath(call), RouteBody(call)) >>
    ELSE << Scope("absent", RoutePath(call), Absent) >>

-----------------------------------------------------------------------------
(* user                                                                     *)

UserPath(call) == <<"system", "login", "user", call.user>>

UserRejects(call) ==
    \/ AbsentWithArgs(call)
    \/ call.user \in BadTokens
    \/ BadField(call, {"full_name"})
    \/ Given(call, "encrypted_password") /\ call.args["encrypted_password"] \notin Crypt
    \/ LeafBody(call, "ssh_keys")
    \/ BadSubtree(call, "ssh_keys")

RenderKeys(call, path) ==
    IF ~Given(call, "ssh_keys") THEN <<>>
    ELSE << IF call.args["ssh_keys"] = EmptyTree THEN Scope("absent", path, Absent)
            ELSE Scope("exact", path, call.args["ssh_keys"]) >>

RenderUser(call) ==
    LET path == UserPath(call)
    IN  OrBare(call, path,
               ExactLeaf(call, "full_name", Append(path, "full-name"))
               \o ExactLeaf(call, "encrypted_password",
                            path \o <<"authentication", "encrypted-password">>)
               \o RenderKeys(call, path \o <<"authentication", "public-keys">>))

-----------------------------------------------------------------------------
(* firewall_group                                                           *)

\* The node of each type of group, and the leaf of its members.
GroupTable ==
    [ type \in {"address", "ipv6-address", "network", "ipv6-network", "port", "interface",
                "mac", "domain"} |->
        CASE type = "address"      -> <<"address-group", "address">>
          [] type = "ipv6-address" -> <<"ipv6-address-group", "address">>
          [] type = "network"      -> <<"network-group", "network">>
          [] type = "ipv6-network" -> <<"ipv6-network-group", "network">>
          [] type = "port"         -> <<"port-group", "port">>
          [] type = "interface"    -> <<"interface-group", "interface">>
          [] type = "mac"          -> <<"mac-group", "mac-address">>
          [] type = "domain"       -> <<"domain-group", "address">> ]

GroupPath(call) == <<"firewall", "group", GroupTable[call.group_type][1], call.group>>

MembersMissing(call) == call.present /\ ~Given(call, "members")

GroupRejects(call) ==
    \/ AbsentWithArgs(call)
    \/ MembersMissing(call)
    \/ call.group_type \notin DOMAIN GroupTable
    \/ call.group \in BadTokens
    \/ BadList(call, {"members"})
    \/ BadField(call, {"description"})

\* Mutant of GroupBody: the members are forgotten.
GroupBodyWithoutMembers(call) ==
    Tree(IF Given(call, "description") THEN [description |-> Leaf({call.args["description"]})]
         ELSE <<>>)

\* The whole object: what is not given is to be absent.
GroupBody(call) ==
    LET leaf == GroupTable[call.group_type][2]
        keys == (IF call.args["members"] = {} THEN {} ELSE {leaf})
                \cup (IF Given(call, "description") THEN {"description"} ELSE {})
    IN  Tree([key \in keys |-> IF key = leaf THEN Leaf(call.args["members"])
                               ELSE Leaf({call.args["description"]})])

RenderFirewallGroup(call) ==
    IF call.present
    THEN << Scope("exact", GroupPath(call), GroupBody(call)) >>
    ELSE << Scope("absent", GroupPath(call), Absent) >>

-----------------------------------------------------------------------------
(* firewall_ruleset.  A key of `rules` is its kind, "int", "str" or "bool"    *)
(* (an int to Python), with its token; an entry is a body, or Absent for    *)
(* None.                                                                    *)

ChainPath(call) == <<"firewall", call.af>> \o call.chain

Rules(call) == Arg(call, "rules", <<>>)

RuleTokens(call) == { key[2] : key \in DOMAIN Rules(call) }

DuplicateRules(call) == Cardinality(RuleTokens(call)) < Cardinality(DOMAIN Rules(call))

\* What is refused before the rule numbers are sorted.
RulesetRejectsFirst(call) ==
    \/ call.af \notin {"ipv4", "ipv6"}
    \/ AbsentWithArgs(call)
    \/ ~call.present /\ call.replace_rules
    \/ call.chain = <<>>
    \/ Range(call.chain) \cap BadTokens # {}
    \/ call.present /\ call.replace_rules /\ ~Given(call, "rules")
    \/ call.present /\ ~call.replace_rules /\ Given(call, "rules") /\ Rules(call) = <<>>
    \/ call.present /\ ~call.replace_rules /\ DOMAIN call.args = {}
    \/ BadField(call, {"default_action", "description"})
    \/ call.replace_rules /\ \E key \in DOMAIN Rules(call) : Rules(call)[key] = Absent
    \/ \E key \in DOMAIN Rules(call) : key[1] = "bool"
    \/ DuplicateRules(call)

\* int() in the sort of the rule numbers raises a ValueError, which no handler
\* translates: all are digits, and one is not a decimal.
RulesetRaises(call) ==
    /\ ~RulesetRejectsFirst(call)
    /\ RuleTokens(call) \subseteq Decimals \cup OtherDigits
    /\ RuleTokens(call) \cap OtherDigits # {}

RulesetRejects(call) ==
    \/ RulesetRejectsFirst(call)
    \/ /\ ~RulesetRaises(call)
       /\ \/ RuleTokens(call) \cap BadTokens # {}
          \/ \E key \in DOMAIN Rules(call) :
                 LET body == Rules(call)[key]
                 IN  body # Absent /\ (~IsTree(body) \/ body = EmptyTree \/ BadTree(body))
          \/ Collides(call, {"default-action", "description", "rule"})
          \/ BadSubtree(call, "values")

\* `rules` as a tree: of a token given twice one entry is left.
RuleTree(call) ==
    Tree([token \in RuleTokens(call) |->
            Rules(call)[CHOOSE key \in DOMAIN Rules(call) : key[2] = token]])

\* A scope for each rule.  Their order, by number or by string, is left open:
\* they do not meet.
RenderEachRule(call, path) ==
    LET keys == SetToSeq(DOMAIN Rules(call))
        rule(key) ==
            IF Rules(call)[key] = Absent
            THEN Scope("absent", Append(path, key[2]), Absent)
            ELSE Scope("exact", Append(path, key[2]), Rules(call)[key])
    IN  [i \in DOMAIN keys |-> rule(keys[i])]

RenderRuleNode(call, path) ==
    IF Rules(call) = <<>> THEN << Scope("absent", path, Absent) >>
    ELSE << Scope("exact", path, RuleTree(call)) >>

RenderRules(call, path) ==
    IF ~Given(call, "rules") THEN <<>>
    ELSE IF call.replace_rules THEN RenderRuleNode(call, path)
    ELSE RenderEachRule(call, path)

RenderFirewallRuleset(call) ==
    LET path == ChainPath(call)
    IN  IF ~call.present THEN << Scope("absent", path, Absent) >>
        ELSE ExactLeaf(call, "default_action", Append(path, "default-action"))
             \o ExactLeaf(call, "description", Append(path, "description"))
             \o RenderRules(call, Append(path, "rule"))
             \o MergeValues(call, path)

-----------------------------------------------------------------------------
(* One entry for all of them.                                               *)

Rejects(call) ==
    CASE call.op = "system_basics"    -> SystemBasicsRejects(call)
      [] call.op = "interface"        -> InterfaceRejects(call)
      [] call.op = "static_route"     -> StaticRouteRejects(call)
      [] call.op = "user"             -> UserRejects(call)
      [] call.op = "firewall_group"   -> GroupRejects(call)
      [] call.op = "firewall_ruleset" -> RulesetRejects(call)

Raises(call) == call.op = "firewall_ruleset" /\ RulesetRaises(call)

Render(call) ==
    CASE call.op = "system_basics"    -> RenderSystemBasics(call)
      [] call.op = "interface"        -> RenderInterface(call)
      [] call.op = "static_route"     -> RenderStaticRoute(call)
      [] call.op = "user"             -> RenderUser(call)
      [] call.op = "firewall_group"   -> RenderFirewallGroup(call)
      [] call.op = "firewall_ruleset" -> RenderFirewallRuleset(call)

=============================================================================
