-------------------------- MODULE MCTypedOperations --------------------------
(* Instances of TypedOperations for TLC: for each typed operation the part   *)
(* of VyOS's grammar it is about, and calls with few arguments and with many.*)
EXTENDS TypedOperations

Bad == {"", "-x"}

Networks == ("10.0.0.0/8" :> 4) @@ ("fd00::/8" :> 6)

Hashes == {"$6$h", "!"}

-----------------------------------------------------------------------------
(* The grammar.                                                             *)

Under(path, rests) == { path \o rest : rest \in rests }

Basics == <<"system">>

Dummy == <<"interfaces", "dummy", "dum0">>

Route4 == <<"protocols", "static", "route", "10.0.0.0/8">>

Route6 == <<"protocols", "static", "route6", "fd00::/8">>

Person(name) == <<"system", "login", "user", name>>

Group(table) == <<"firewall", "group", table, "g">>

Chain == <<"firewall", "ipv4", "name", "c">>

Tips ==
    [ system_basics  |-> Under(Basics, { <<"host-name", "a">>, <<"host-name", "b">>,
                                        <<"name-server", "1">>, <<"name-server", "2">>,
                                        <<"domain-search", "d">>, <<"time-zone", "z">> }),
      interface      |-> Under(Dummy, { <<>>, <<"address", "1">>, <<"address", "2">>,
                                       <<"description", "a">>, <<"description", "b">>,
                                       <<"mtu", "1500">>, <<"disable">>, <<"hw-id", "m">>,
                                       <<"ip", "source", "strict">>,
                                       <<"ip", "source", "loose">> }),
      static_route   |-> Under(Route4, { <<>>, <<"blackhole">>, <<"tag", "7">>,
                                        <<"next-hop", "1">>,
                                        <<"next-hop", "1", "distance", "5">>,
                                        <<"next-hop", "2">> })
                         \cup Under(Route6, { <<>>, <<"blackhole">>, <<"next-hop", "1">> }),
      user           |-> { Person(Login) } \cup
                         Under(Person("bob"), { <<>>, <<"full-name", "a">>, <<"full-name", "b">>,
                                                <<"authentication", "encrypted-password", "$6$h">>,
                                                <<"authentication", "encrypted-password", "!">>,
                                                <<"authentication", "public-keys", "k">>,
                                                <<"authentication", "public-keys", "k", "key", "x">>,
                                                <<"authentication", "public-keys", "l">> }),
      firewall_group |-> Under(Group("address-group"), { <<>>, <<"address", "1">>, <<"address", "2">>,
                                                        <<"description", "a">>,
                                                        <<"description", "b">> })
                         \cup Under(Group("port-group"), { <<"port", "1">>, <<"port", "2">>,
                                                         <<"description", "a">> }),
      firewall_ruleset |-> Under(Chain, { <<>>, <<"default-action", "drop">>,
                                         <<"default-action", "accept">>, <<"description", "a">>,
                                         <<"rule", "10">>, <<"rule", "10", "action", "drop">>,
                                         <<"rule", "10", "action", "accept">>,
                                         <<"rule", "10", "log">>,
                                         <<"rule", "20", "action", "drop">>,
                                         <<"default-log">> }) ]

AllRegions == [op \in DOMAIN Tips |-> Closed(Tips[op])]

RegionOf(c) == AllRegions[c.op]

RegionSet == { AllRegions[op] : op \in DOMAIN Tips }

AllPaths == UNION RegionSet

\* The part of them on which the configuration may change under a plan.
Rest(tips) ==
    { tip \in tips : Range(tip) \cap {"2", "b", "mtu", "disable", "description", "log", "default-log", "tag",
                                     "distance", "!", "$6$h", "time-zone", "port-group", "accept"} = {} }

FewRegions == [op \in DOMAIN Tips |-> Closed(Rest(Tips[op]))]

FewRegionOf(c) == FewRegions[c.op]

FewRegionSet == { FewRegions[op] : op \in DOMAIN Tips }

Keyed(keys) == { path \in AllPaths : Len(path) > 1 /\ Last(path) \in keys }

Singles == Keyed({"host-name", "time-zone", "description", "mtu", "hw-id", "source", "tag",
                  "distance", "full-name", "encrypted-password", "key", "default-action",
                  "action"})

Multis == Keyed({"name-server", "domain-search", "port"})
          \cup { path \in Keyed({"address"}) : Len(path) > 3 }

TagNodes == Keyed({"dummy", "route", "route6", "next-hop", "user", "public-keys",
                   "address-group", "port-group", "name", "rule"})

\* A route needs a next hop or the like.
Bodies == {Route4, Route6}

-----------------------------------------------------------------------------
(* The calls.                                                               *)

\* Every choice of some of the fields with one of the values given for each.
ArgsOver(values) ==
    UNION { { args \in [fields -> UNION { values[f] : f \in fields }] :
                  \A f \in fields : args[f] \in values[f] } : fields \in SUBSET DOMAIN values }

\* The same of fields whose values are of different kinds.
Join(left, right) == { a @@ b : a \in left, b \in right }

Trees(set) == { Tree(kids) : kids \in set }

Text(value) == Leaf({value})

BasicsCalls ==
    { [op |-> "system_basics", present |-> TRUE, args |-> args] :
        args \in Join(ArgsOver([hostname |-> {"a", "-x"}, time_zone |-> {"z"}]),
                      ArgsOver([name_servers |-> {{}, {"1"}, {"1", "2"}}, search_domains |-> {{}, {"d"}}])) }

InterfaceArgs ==
    Join(ArgsOver([addresses |-> {{}, {"1"}, {"1", "2"}}]),
    Join(ArgsOver([description |-> {"a"}, mtu |-> {"1500"}]),
    Join(ArgsOver([disabled |-> BOOLEAN]),
         ArgsOver([values |-> Trees({ <<>>, "ip" :> Tree("source" :> Text("strict")),
                                      "mtu" :> Text("1500") })]))))

InterfaceCalls ==
    { [op |-> "interface", interface_type |-> "dummy", interface |-> "dum0",
       present |-> TRUE, args |-> args] : args \in InterfaceArgs }
    \cup { [op |-> "interface", interface_type |-> type, interface |-> name,
            present |-> FALSE, args |-> args] :
               type \in {"dummy", "wireguard"}, name \in {"dum0", "-x"},
               args \in ArgsOver([mtu |-> {"1500"}]) }

RouteArgs ==
    ArgsOver([next_hops |-> Trees({ <<>>, "1" :> EmptyTree,
                                    "1" :> Tree("distance" :> Text("5")),
                                    ("1" :> EmptyTree) @@ ("2" :> EmptyTree), "1" :> Text("5") }),
              values    |-> Trees({ <<>>, "blackhole" :> EmptyTree,
                                    "next-hop" :> Tree("2" :> EmptyTree),
                                    ("blackhole" :> EmptyTree) @@ ("tag" :> Text("7")) })])

RouteCalls ==
    { [op |-> "static_route", destination |-> net, present |-> present, args |-> args] :
        net \in {"10.0.0.0/8", "10.0.0.1/8"}, present \in BOOLEAN, args \in RouteArgs }
    \cup { [op |-> "static_route", destination |-> "fd00::/8", present |-> TRUE,
            args |-> ("next_hops" :> Tree("1" :> EmptyTree))] }

UserCalls ==
    { [op |-> "user", user |-> name, present |-> TRUE, args |-> args] :
        name \in {"bob"},
        args \in Join(ArgsOver([full_name |-> {"a"}, encrypted_password |-> {"$6$h", "!", "plain"}]),
                      ArgsOver([ssh_keys |-> Trees({ <<>>, "l" :> EmptyTree,
                                                     ("k" :> Tree("key" :> Text("x")))
                                                       @@ ("l" :> EmptyTree) })])) }
    \cup { [op |-> "user", user |-> name, present |-> present, args |-> <<>>] :
               name \in {"bob", Login}, present \in BOOLEAN }

GroupCalls ==
    { [op |-> "firewall_group", group |-> "g", group_type |-> type, present |-> present,
       args |-> args] :
        type \in {"address", "port", "dynamic"}, present \in BOOLEAN,
        args \in Join(ArgsOver([members |-> {{}, {"1"}, {"1", "2"}}]),
                      ArgsOver([description |-> {"a"}])) }

Drop == Tree("action" :> Text("drop"))

LogDrop == Tree(("action" :> Text("drop")) @@ ("log" :> EmptyTree))

RuleSets ==
    { <<>>, <<"int", "10">> :> Drop, <<"int", "10">> :> Absent, <<"int", "10">> :> EmptyTree,
      (<<"int", "10">> :> LogDrop) @@ (<<"str", "20">> :> Drop),
      (<<"int", "10">> :> Absent) @@ (<<"str", "20">> :> Drop),
      (<<"int", "10">> :> Drop) @@ (<<"str", "10">> :> LogDrop),
      <<"bool", "True">> :> Drop }

RulesetArgs ==
    Join(ArgsOver([default_action |-> {"drop"}, description |-> {"a"}]),
    Join(ArgsOver([rules |-> RuleSets]),
         ArgsOver([values |-> Trees({ <<>>, "default-log" :> EmptyTree,
                                      "rule" :> Tree("20" :> Drop) })])))

RulesetCalls ==
    { [op |-> "firewall_ruleset", af |-> "ipv4", chain |-> <<"name", "c">>,
       present |-> TRUE, replace_rules |-> replace, args |-> args] :
        replace \in BOOLEAN, args \in RulesetArgs }
    \cup { [op |-> "firewall_ruleset", af |-> af, chain |-> chain, present |-> FALSE,
            replace_rules |-> replace, args |-> <<>>] :
               af \in {"ipv4", "inet"}, chain \in { <<>>, <<"name", "c">>, <<"-x">> },
               replace \in BOOLEAN }

\* A superscript two is a digit, and no decimal.
DigitCalls ==
    { [op |-> "firewall_ruleset", af |-> "ipv4", chain |-> <<"name", "c">>,
       present |-> TRUE, replace_rules |-> replace, args |-> ("rules" :> (<<"str", "2 superscript">> :> Drop))] :
        replace \in BOOLEAN }

\* With at most two arguments: what two scopes do to one another shows.
Small(calls) == { c \in calls : Cardinality(DOMAIN c.args) <= 2 }

\* What is owned field by field, and what is owned as a whole or in parts.
FieldCalls == Small(BasicsCalls \cup InterfaceCalls \cup UserCalls)

ObjectCalls == Small(RouteCalls \cup GroupCalls \cup RulesetCalls \cup DigitCalls)

AllCalls == FieldCalls \cup ObjectCalls

\* The calls that stay there, with two arguments or none.
FewCalls ==
    { c \in AllCalls :
        /\ ~Rejects(c) /\ ~Raises(c)
        /\ Cardinality(DOMAIN c.args) # 1
        /\ \A scope \in Range(ScopesOf(c)) :
               IF scope.intent = "absent" THEN scope.path \in UNION FewRegionSet
               ELSE Required(scope.node) \subseteq UNION FewRegionSet }

\* What the theorems ask of the arguments, none of these calls lacks.
ASSUME CallsFit == FittingCalls

-----------------------------------------------------------------------------
Version(family, rest) == [family |-> family, rest |-> rest]

Releases == { Version("1.4", ".N"), Version("2026.03", ""), Version("1.4", "-rolling-date") }

=============================================================================
