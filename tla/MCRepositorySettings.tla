------------------------- MODULE MCRepositorySettings -------------------------
(* Small manifests and repositories for RepositorySettings. *)
EXTENDS RepositorySettings

MCFields == {"allow_squash_merge", "has_wiki"}
MCAppIds == [release |-> 7, bare |-> NoId]
MCMalformed == {"no check"}
MCRulesetIds == 1..4

\* Everything a manifest may set, with one rule of each sort.
Full ==
  [repository |-> [allow_squash_merge |-> TRUE, immutable_releases |-> TRUE],
   security   |-> [advanced_security |-> TRUE, dependency_graph |-> TRUE,
                   vulnerability_alerts |-> TRUE],
   pages      |-> [https_enforced |-> TRUE],
   rulesets   |->
     [branch_default |->
        [require_pull_request |-> TRUE, restrict_deletions |-> TRUE,
         status_checks |-> [enabled |-> TRUE, contexts |-> {}],
         bypass |-> {[type |-> "repository_admin_role"]}],
      tags_default |->
        [restrict_updates |-> TRUE, enforcement |-> "evaluate",
         bypass |-> {[type |-> "app", slug |-> "release"]}]]]

\* The opposite values, with status checks and without pages.
Other ==
  [repository |-> [allow_squash_merge |-> FALSE],
   security   |-> [vulnerability_alerts |-> FALSE, advanced_security |-> FALSE],
   pages      |-> <<>>,
   rulesets   |->
     [branch_default |->
        [block_force_pushes |-> TRUE,
         status_checks |-> [enabled |-> TRUE, contexts |-> {"ci"}]]]]

\* Errors that are found at each stage of the planning.
UnknownKey   == [Full EXCEPT !.pages = [cname |-> "site"]]
Conflict     == [Full EXCEPT !.security.vulnerability_alerts = FALSE]
NoMethods    == [Full EXCEPT !.repository = [allow_squash_merge |-> FALSE]]
NoActorId    == [Full EXCEPT !.rulesets.tags_default.bypass = {[type |-> "integration"]}]
UnknownApp   == [Full EXCEPT !.rulesets.tags_default.bypass =
                               {[type |-> "app", slug |-> "other"]}]
BareApp      == [Full EXCEPT !.rulesets.tags_default.bypass =
                               {[type |-> "app", slug |-> "bare"]}]
NoCheck      == [Other EXCEPT !.rulesets.branch_default.status_checks.contexts = MCMalformed]

\* Few settings, for runs that overlap.
Small == [Full EXCEPT !.repository = [allow_squash_merge |-> TRUE],
                      !.security = [vulnerability_alerts |-> TRUE]]

MCManifests == {Full, Other, UnknownKey, Conflict, NoMethods, NoActorId, UnknownApp,
                BareApp, NoCheck}
SmallManifest == {Small}
RunSymmetry == Permutations(Runs)

AllOff == [t \in Toggles |-> FALSE]
Foreign(source, name) ==
  [source |-> source, name |-> name, target |-> "branch", enforcement |-> "active",
   bypass_actors |-> {}, include |-> {"~ALL"}, exclude |-> {},
   rules |-> [required_deployments |-> <<>>, required_status_checks |->
                [required_status_checks |-> {"old"}, do_not_enforce_on_create |-> FALSE,
                 strict_required_status_checks_policy |-> FALSE]]]

\* Private and used before: a site, an organization's ruleset of the managed
\* name, and one of that name to be updated.
Used ==
  [fields |-> [f \in Fields |-> TRUE], private |-> TRUE, advanced |-> FALSE,
   toggles |-> [AllOff EXCEPT !["automated_security_fixes"] = TRUE],
   pages |-> {[build_type |-> "legacy", https_enforced |-> TRUE]},
   rulesets |-> <<Foreign("Organization", "Default branch"),
                  Foreign("Repository", "Default branch")>>]

UsedRepository == {Used}

\* Others flip a setting, remove the site, give a ruleset of the repository's a
\* rule of a type that is not managed or a rule of it another parameter, delete
\* it, or add one of a managed name.
OwnIds(state) == {id \in DOMAIN state.rulesets : state.rulesets[id].source = "Repository"}
Flip(state) ==
  {[state EXCEPT !.toggles["vulnerability_alerts"] = ~@], [state EXCEPT !.pages = {}]}
  \cup {[state EXCEPT !.rulesets = Restrict(@, DOMAIN @ \ {id})] : id \in OwnIds(state)}
  \cup {[state EXCEPT !.rulesets[id].rules = ("required_deployments" :> <<>>) @@ @] :
          id \in OwnIds(state)}
  \cup {[state EXCEPT !.rulesets[id].rules.pull_request.dismiss_stale_reviews_on_push = TRUE] :
          id \in {i \in OwnIds(state) : "pull_request" \in DOMAIN state.rulesets[i].rules}}
AddTwin(state) ==
  {[state EXCEPT !.rulesets = (id :> Foreign("Repository", "Default branch")) @@ @] :
     id \in RulesetIds \ DOMAIN state.rulesets}
FlipOnly(state) == Flip(state)
AnyEdit(state) == Flip(state) \cup AddTwin(state)
=============================================================================
