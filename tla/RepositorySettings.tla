-------------------------- MODULE RepositorySettings --------------------------
(***************************************************************************)
(* configure_github_repo.py: a run reads a manifest and the repository's   *)
(* settings, plans the changes and, in mode apply, makes them one API call *)
(* after the other.  A run is the script from main() to its exit code;     *)
(* several may be under way, and none locks the repository.                *)
(*                                                                         *)
(* Tables of the manifest and of the API are functions whose domain is the *)
(* set of keys present, lists that the script sorts before comparing are   *)
(* sets, and the rules of a ruleset are a function from type to parameters.*)
(***************************************************************************)
EXTENDS Naturals, Sequences, FiniteSets, Functions, TLC

CONSTANTS
  Runs,         \* runs of the script that may overlap
  Manifests,    \* manifests a run may be given
  Repositories, \* states the repository may be in at first
  Fields,       \* repository fields the manifest may set
  AppIds,       \* slug of a GitHub App to the id the API resolves it to, or NoId
  Malformed,    \* entries of contexts that are no status check
  RulesetIds,   \* ids the API can give to rulesets
  PageSize,     \* rulesets on the one page that is read (per_page=100)
  Edits(_),     \* what others may turn the repository into, in one edit
  MaxFaults     \* bound on failed calls and edits by others

ASSUME PageSizeAssumption == PageSize \in Nat \ {0}
ASSUME MaxFaultsAssumption == MaxFaults \in Nat

VARIABLES
  repo,         \* the repository as the API shows it
  run,          \* run[r]: where the script is and what it knows
  faults        \* faults so far

vars == <<repo, run, faults>>

Modes   == {"plan", "apply"}
Targets == {"branch", "tag"}
Toggles == {"vulnerability_alerts", "immutable_releases",
            "private_vulnerability_reporting", "automated_security_fixes"}

\* What the API shows of a repository: its tables have the keys they have, there
\* is one Pages site at most, and each ruleset has an id of its own.
IsRepository(state) ==
  /\ DOMAIN state = {"fields", "private", "advanced", "toggles", "pages", "rulesets"}
  /\ DOMAIN state.fields = Fields
  /\ DOMAIN state.toggles = Toggles
  /\ \A site, other \in state.pages : site = other
  /\ \A site \in state.pages : DOMAIN site = {"build_type", "https_enforced"}
  /\ DOMAIN state.rulesets \subseteq RulesetIds /\ IsFiniteSet(DOMAIN state.rulesets)
  /\ \A id \in DOMAIN state.rulesets :
       DOMAIN state.rulesets[id] = {"source", "name", "target", "enforcement",
                                    "bypass_actors", "include", "exclude", "rules"}

ASSUME RepositoriesAssumption == \A state \in Repositories : IsRepository(state)

-----------------------------------------------------------------------------
(* Reading the manifest. *)

Key(table, k)          == k \in DOMAIN table
Get(table, k, default) == IF Key(table, k) THEN table[k] ELSE default
On(table, k)           == Get(table, k, FALSE)

\* A table laid over another ({**base, **table}), and one with a key set.
Over(table, base) ==
  [k \in DOMAIN table \cup DOMAIN base |-> IF k \in DOMAIN table THEN table[k] ELSE base[k]]
Put(table, k, value) == Over([x \in {k} |-> value], table)

RulesetConfig(m, target) ==
  Get(m.rulesets, IF target = "branch" THEN "branch_default" ELSE "tags_default", <<>>)

\* The switches of a ruleset table that stand for a rule without parameters.
RuleOf == [restrict_creations     |-> "creation",
           restrict_deletions     |-> "deletion",
           require_linear_history |-> "required_linear_history",
           require_signed_commits |-> "required_signatures",
           block_force_pushes     |-> "non_fast_forward"]

RulesetName(m, target) ==
  Get(RulesetConfig(m, target), "name",
      IF target = "branch" THEN "Default branch" ELSE "Default tags")

RulesetKeys(target) ==
  DOMAIN RuleOf
    \cup {"name", "enforcement", "bypass", "restrict_updates",
          "update_allows_fetch_and_merge", "status_checks"}
    \cup IF target = "branch" THEN {"require_pull_request", "pull_request"} ELSE {}

PullRequestDefaults ==
  [dismiss_stale_reviews_on_push     |-> FALSE,
   require_code_owner_review         |-> FALSE,
   require_last_push_approval        |-> FALSE,
   required_approving_review_count   |-> 0,
   required_review_thread_resolution |-> FALSE]

ValidRuleset(m, target) ==
  LET cfg == RulesetConfig(m, target)
  IN  /\ DOMAIN cfg \subseteq RulesetKeys(target)
      /\ DOMAIN Get(cfg, "pull_request", <<>>)
           \subseteq DOMAIN PullRequestDefaults \cup {"allowed_merge_methods"}
      /\ DOMAIN Get(cfg, "status_checks", <<>>)
           \subseteq {"enabled", "contexts", "do_not_enforce_on_create",
                      "strict_required_status_checks_policy"}

\* What load_manifest accepts: no unknown key anywhere, a known build type.
ValidManifest(m) ==
  /\ DOMAIN m.repository \subseteq Fields \cup {"immutable_releases"}
  /\ DOMAIN m.security \subseteq
       (Toggles \ {"immutable_releases"}) \cup {"advanced_security", "dependency_graph"}
  /\ DOMAIN m.pages \subseteq {"build_type", "https_enforced"}
  /\ Get(m.pages, "build_type", "workflow") \in {"workflow", "legacy"}
  /\ DOMAIN m.rulesets \subseteq {"branch_default", "tags_default"}
  /\ \A target \in Targets : ValidRuleset(m, target)

-----------------------------------------------------------------------------
(* What the manifest asks for. *)

BuildRepositoryPatch(m) == Restrict(m.repository, Fields \cap DOMAIN m.repository)

\* The two keys that set one toggle; they must not differ.
AlertValues(m) ==
  {m.security[k] : k \in {"dependency_graph", "vulnerability_alerts"} \cap DOMAIN m.security}
AlertsConflict(m) == Cardinality(AlertValues(m)) > 1

\* The toggles the manifest sets, with their values.
ToggleDesired(m) ==
  LET repository == {"immutable_releases"} \cap DOMAIN m.repository
      security   == {"private_vulnerability_reporting", "automated_security_fixes"}
                      \cap DOMAIN m.security
      alerts     == {t \in {"vulnerability_alerts"} : AlertValues(m) # {}}
  IN  [t \in repository \cup security \cup alerts |->
         CASE t \in repository -> m.repository[t]
           [] t \in security   -> m.security[t]
           [] t \in alerts     -> TRUE \in AlertValues(m)]

\* The order in which the toggles are read, and so planned and applied.
ToggleOrder(m) ==
  LET desired(t) == IF t \in DOMAIN ToggleDesired(m) THEN <<t>> ELSE <<>>
  IN  desired("vulnerability_alerts") \o desired("immutable_releases")
        \o desired("private_vulnerability_reporting") \o desired("automated_security_fixes")

BuildPagesState(m) ==
  Over([build_type |-> Get(m.pages, "build_type", "workflow")],
       Restrict(m.pages, {"https_enforced"} \cap DOMAIN m.pages))

DeriveAllowedMergeMethods(m) ==
  LET method == [allow_merge_commit |-> "merge", allow_squash_merge |-> "squash",
                 allow_rebase_merge |-> "rebase"]
  IN  {method[f] : f \in {g \in DOMAIN method : On(m.repository, g)}}

AllowedMergeMethods(m) ==
  LET given == Get(Get(RulesetConfig(m, "branch"), "pull_request", <<>>),
                   "allowed_merge_methods", {})
  IN  IF given = {} THEN DeriveAllowedMergeMethods(m) ELSE given

WantsPullRequest(m, target) ==
  target = "branch" /\ On(RulesetConfig(m, target), "require_pull_request")

StatusChecks(m, target) == Get(RulesetConfig(m, target), "status_checks", <<>>)
ChecksEnabled(m, target) == On(StatusChecks(m, target), "enabled")
Contexts(m, target) ==
  IF ChecksEnabled(m, target) THEN Get(StatusChecks(m, target), "contexts", {}) ELSE {}

\* The rule types that are compared: without contexts, status checks are
\* reported as unsupported and left out.
ManagedRuleTypes(m, target) ==
  {RuleOf[k] : k \in DOMAIN RuleOf} \cup {"update"}
    \cup (IF target = "branch" THEN {"pull_request"} ELSE {})
    \cup (IF ChecksEnabled(m, target) /\ Contexts(m, target) = {}
            THEN {} ELSE {"required_status_checks"})

NoId == 0   \* the API's answer has no id

\* A bypass actor that cannot be resolved is an error of the manifest.
BadActor(actor) ==
  CASE actor.type = "app"         -> \/ ~Key(actor, "slug")
                                     \/ Key(AppIds, actor.slug) /\ AppIds[actor.slug] = NoId
    [] actor.type = "integration" -> ~Key(actor, "actor_id")
    [] OTHER -> actor.type \notin {"repository_admin_role", "organization_admin"}

ResolveBypassActors(m, target) ==
  {[bypass_mode |-> Get(a, "mode", "always"),
    actor_type  |-> CASE a.type = "repository_admin_role" -> "RepositoryRole"
                      [] a.type = "organization_admin"    -> "OrganizationAdmin"
                      [] OTHER                            -> "Integration",
    actor_id    |-> CASE a.type = "repository_admin_role" -> 5
                      [] a.type = "organization_admin"    -> 1
                      [] a.type = "app"                   -> AppIds[a.slug]
                      [] a.type = "integration"           -> a.actor_id] :
     a \in Get(RulesetConfig(m, target), "bypass", {})}

\* Rules that cannot be built are another.
BadRules(m, target) ==
  \/ WantsPullRequest(m, target) /\ AllowedMergeMethods(m) = {}
  \/ Contexts(m, target) \cap Malformed # {}

BuildRules(m, target) ==
  LET cfg    == RulesetConfig(m, target)
      checks == StatusChecks(m, target)
      plain  == {RuleOf[k] : k \in {s \in DOMAIN RuleOf : On(cfg, s)}}
      update == {t \in {"update"} : On(cfg, "restrict_updates")}
      review == {t \in {"pull_request"} : WantsPullRequest(m, target)}
      status == {t \in {"required_status_checks"} : Contexts(m, target) # {}}
  IN  [type \in plain \cup update \cup review \cup status |->
         CASE type \in plain  -> <<>>
           [] type \in update ->
                [update_allows_fetch_and_merge |-> On(cfg, "update_allows_fetch_and_merge")]
           [] type \in review ->
                Over([allowed_merge_methods |-> AllowedMergeMethods(m)],
                     Over(Get(cfg, "pull_request", <<>>), PullRequestDefaults))
           [] type \in status ->
                [required_status_checks |-> Contexts(m, target),
                 do_not_enforce_on_create |-> On(checks, "do_not_enforce_on_create"),
                 strict_required_status_checks_policy |->
                   On(checks, "strict_required_status_checks_policy")]]

BuildRulesetPayload(m, target) ==
  [name          |-> RulesetName(m, target),
   target        |-> target,
   enforcement   |-> Get(RulesetConfig(m, target), "enforcement", "active"),
   bypass_actors |-> ResolveBypassActors(m, target),
   include       |-> {IF target = "branch" THEN "~DEFAULT_BRANCH" ELSE "~ALL"},
   exclude       |-> {},
   rules         |-> BuildRules(m, target)]

\* Mutant of NormalizeRulesetPayload: rules of every type are compared.
NormalizeEveryRule(payload, types) == payload

\* The parameters a rule is compared by, with what is taken for one that is not
\* given; rules of the other types have none.
RuleParameters(type) ==
  CASE type = "update"       -> [update_allows_fetch_and_merge |-> FALSE]
    [] type = "pull_request" -> Over([allowed_merge_methods |-> {}], PullRequestDefaults)
    [] type = "required_status_checks" ->
         [required_status_checks |-> {}, do_not_enforce_on_create |-> FALSE,
          strict_required_status_checks_policy |-> FALSE]
    [] OTHER -> <<>>

NormalizeRule(type, parameters) ==
  [p \in DOMAIN RuleParameters(type) |-> Get(parameters, p, RuleParameters(type)[p])]

NormalizeRulesetPayload(payload, types) ==
  [payload EXCEPT !.rules =
     [type \in types \cap DOMAIN @ |-> NormalizeRule(type, @[type])]]

RulesetKey(ruleset) == <<ruleset.name, ruleset.target>>
ManagedKeys(m) == {<<RulesetName(m, target), target>> : target \in Targets}

-----------------------------------------------------------------------------
(* The repository, as far as the script's calls show it: repo.fields,      *)
(* repo.private, repo.advanced (GitHub Advanced Security), repo.toggles,   *)
(* repo.pages (the set of the one site, or empty), and repo.rulesets, a    *)
(* function from id to ruleset with the ruleset's source.                  *)

Payload(ruleset) == [k \in DOMAIN ruleset \ {"source"} |-> ruleset[k]]

\* What the repository may be after a call has succeeded; empty if the API
\* refuses the call.
Outcomes(change, state) ==
  CASE change.kind = "patch_repository" ->
         {[state EXCEPT !.fields = Over(change.payload, @)]}
    [] change.kind = "patch_security" ->
         {[state EXCEPT !.advanced = change.enabled]}
    [] change.kind = "toggle" ->
         {[state EXCEPT !.toggles[change.toggle] = change.enabled]}
    [] change.kind = "create_pages" ->
         {[state EXCEPT !.pages = {[build_type |-> change.create, https_enforced |-> https]}] :
            https \in {b \in BOOLEAN : state.pages = {}}}
    [] change.kind = "update_pages" ->
         {[state EXCEPT !.pages = {Over(change.payload, site)}] : site \in state.pages}
    [] change.kind = "create_ruleset" ->
         {[state EXCEPT !.rulesets =
            Put(@, id, Over([source |-> "Repository"], change.payload))] :
            id \in RulesetIds \ DOMAIN state.rulesets}
    [] change.kind = "update_ruleset" ->
         {[state EXCEPT !.rulesets[change.id] = Over(change.payload, @)] :
            id \in {change.id} \cap DOMAIN state.rulesets}

-----------------------------------------------------------------------------
(* The script. *)

InFlight == {"repository", "toggles", "pages", "branch", "tag", "list", "details", "apply"}
Ended    == {"done", "refused", "failed"}   \* exit 0; ConfigError; ApiError

NoManifest == [repository |-> <<>>, security |-> <<>>, pages |-> <<>>, rulesets |-> <<>>]
Idle == [pc |-> "idle", mode |-> "plan", manifest |-> NoManifest, changes |-> <<>>,
         toggles |-> <<>>, listed |-> <<>>, details |-> <<>>,
         wrote |-> FALSE, disturbed |-> FALSE, blind |-> FALSE]

Init ==
  /\ repo \in Repositories
  /\ run = [r \in Runs |-> Idle]
  /\ faults = 0

\* One step of run r that only reads: it goes to pc, with more changes planned.
Reads(r, pc, changes) ==
  /\ run' = [run EXCEPT ![r].pc = pc, ![r].changes = @ \o changes]
  /\ UNCHANGED <<repo, faults>>

Ends(r, pc) == Reads(r, pc, <<>>)

\* main() up to the first call: parse, load the manifest, make the client.
Start(r, mode, m) ==
  /\ run[r].pc \in Ended \cup {"idle"}
  /\ run' = [run EXCEPT ![r] =
               [Idle EXCEPT !.mode = mode, !.manifest = m,
                            !.pc = IF ValidManifest(m) THEN "repository" ELSE "refused"]]
  /\ UNCHANGED <<repo, faults>>

\* The repository's fields against the manifest's, in one patch.
PatchChanges(m, state) ==
  LET patch   == BuildRepositoryPatch(m)
      differs == {f \in DOMAIN patch : state.fields[f] # patch[f]}
  IN  IF differs = {} THEN <<>>
      ELSE <<[kind |-> "patch_repository", payload |-> Restrict(patch, differs)]>>

\* Advanced Security can be set on private repositories only.
AdvancedChanges(m, state) ==
  IF /\ Key(m.security, "advanced_security")
     /\ state.private
     /\ state.advanced # m.security["advanced_security"]
  THEN <<[kind |-> "patch_security", enabled |-> m.security["advanced_security"]]>>
  ELSE <<>>

ReadRepository(r) ==
  LET m == run[r].manifest
  IN  /\ run[r].pc = "repository"
      /\ run' = [run EXCEPT ![r].pc = IF AlertsConflict(m) THEN "refused" ELSE "toggles",
                            ![r].toggles = ToggleOrder(m),
                            ![r].changes = PatchChanges(m, repo) \o AdvancedChanges(m, repo)]
      /\ UNCHANGED <<repo, faults>>

ToggleChanges(m, t, enabled) ==
  IF enabled = ToggleDesired(m)[t] THEN <<>>
  ELSE <<[kind |-> "toggle", toggle |-> t, enabled |-> ToggleDesired(m)[t]]>>

\* The next toggle, read as enabled or not.
PlanToggle(r, enabled) ==
  run' = [run EXCEPT ![r].toggles = Tail(@),
                     ![r].changes = @ \o ToggleChanges(run[r].manifest, Head(run[r].toggles), enabled)]

\* Mutant of ReadToggle: in mode apply a toggle is set as soon as it is read.
ReadToggleAndSet(r) ==
  /\ run[r].pc = "toggles" /\ run[r].toggles # <<>>
  /\ LET t == Head(run[r].toggles)
     IN  repo' = IF run[r].mode = "plan" THEN repo
                 ELSE [repo EXCEPT !.toggles[t] = ToggleDesired(run[r].manifest)[t]]
  /\ run' = [run EXCEPT ![r].toggles = Tail(@), ![r].wrote = run[r].mode = "apply"]
  /\ UNCHANGED faults

ReadToggle(r) ==
  /\ run[r].pc = "toggles" /\ run[r].toggles # <<>>
  /\ PlanToggle(r, repo.toggles[Head(run[r].toggles)])
  /\ UNCHANGED <<repo, faults>>

TogglesRead(r) ==
  /\ run[r].pc = "toggles" /\ run[r].toggles = <<>>
  /\ Reads(r, IF DOMAIN run[r].manifest.pages = {} THEN "branch" ELSE "pages", <<>>)

\* Mutant of PagesChanges: of a site that exists only the build type matters.
PagesChangesByBuildType(m, site) ==
  LET desired == BuildPagesState(m)
  IN  IF site = {}
      THEN <<[kind |-> "create_pages", create |-> desired.build_type,
              update |-> Restrict(desired, DOMAIN desired \ {"build_type"})]>>
      ELSE IF \E s \in site : s.build_type = desired.build_type THEN <<>>
      ELSE <<[kind |-> "update_pages", payload |-> desired]>>

\* site is the set of the one site the API shows, or empty.
PagesChanges(m, site) ==
  LET desired == BuildPagesState(m)
  IN  IF site = {}
      THEN <<[kind |-> "create_pages", create |-> desired.build_type,
              update |-> Restrict(desired, DOMAIN desired \ {"build_type"})]>>
      ELSE IF \E s \in site : Restrict(s, DOMAIN desired) = desired THEN <<>>
      ELSE <<[kind |-> "update_pages", payload |-> desired]>>

ReadPages(r) ==
  /\ run[r].pc = "pages"
  /\ Reads(r, "branch", PagesChanges(run[r].manifest, repo.pages))

\* build_ruleset_payload: the calls it makes resolve the slugs of Apps.
BuildRuleset(r, target) ==
  LET m      == run[r].manifest
      actors == Get(RulesetConfig(m, target), "bypass", {})
  IN  /\ run[r].pc = target
      /\ \/ /\ \E a \in actors : BadActor(a)
            /\ Ends(r, "refused")
         \/ /\ \E a \in actors : ~BadActor(a) /\ a.type = "app" /\ a.slug \notin DOMAIN AppIds
            /\ Ends(r, "failed")
         \/ /\ \A a \in actors : ~BadActor(a) /\ (a.type = "app" => a.slug \in DOMAIN AppIds)
            /\ IF BadRules(m, target)
               THEN Ends(r, "refused")
               ELSE Reads(r, IF target = "branch" THEN "tag" ELSE "list", <<>>)

\* Names, targets and sources come with the list; includes_parents=false asks
\* for the repository's own rulesets, and the source is looked at all the same.
OnPage(ids) == ids \subseteq DOMAIN repo.rulesets
               /\ \/ ids = DOMAIN repo.rulesets /\ Cardinality(ids) <= PageSize
                  \/ Cardinality(ids) = PageSize

\* Mutant of ManagedIn: the source of a ruleset is not looked at.
ManagedByAnybody(m, ids) == {id \in ids : RulesetKey(repo.rulesets[id]) \in ManagedKeys(m)}

\* Mutant of ManagedIn: only rulesets that are enforced are found again.
ManagedIfActive(m, ids) ==
  {id \in ids : /\ RulesetKey(repo.rulesets[id]) \in ManagedKeys(m)
                /\ repo.rulesets[id].source = "Repository"
                /\ repo.rulesets[id].enforcement = "active"}

ManagedIn(m, ids) ==
  {id \in ids : /\ RulesetKey(repo.rulesets[id]) \in ManagedKeys(m)
                /\ repo.rulesets[id].source = "Repository"}

ListRulesets(r) ==
  /\ run[r].pc = "list"
  /\ \E ids \in SUBSET DOMAIN repo.rulesets :
       /\ OnPage(ids)
       /\ run' = [run EXCEPT ![r].pc = "details",
                             ![r].listed = [id \in ManagedIn(run[r].manifest, ids) |->
                                              RulesetKey(repo.rulesets[id])]]
  /\ UNCHANGED <<repo, faults>>

\* Mutant of GetRuleset: the last ruleset of a key wins.
GetRulesetLastWins(r) ==
  \E id \in DOMAIN run[r].listed :
    LET key == run[r].listed[id]
    IN  /\ run[r].pc = "details"
        /\ IF id \notin DOMAIN repo.rulesets THEN Ends(r, "failed")
           ELSE /\ run' = [run EXCEPT
                     ![r].listed  = Restrict(@, DOMAIN @ \ {id}),
                     ![r].details = Put(@, key, [id |-> id, is |-> Payload(repo.rulesets[id])])]
                /\ UNCHANGED <<repo, faults>>

\* The next of the listed rulesets: a second one for a key is an error, one
\* that has been deleted meanwhile fails the call.
GetRuleset(r) ==
  \E id \in DOMAIN run[r].listed :
    LET key == run[r].listed[id]
    IN  /\ run[r].pc = "details"
        /\ IF Key(run[r].details, key) THEN Ends(r, "refused")
           ELSE IF id \notin DOMAIN repo.rulesets THEN Ends(r, "failed")
           ELSE /\ run' = [run EXCEPT
                     ![r].listed  = Restrict(@, DOMAIN @ \ {id}),
                     ![r].details = Put(@, key, [id |-> id, is |-> Payload(repo.rulesets[id])])]
                /\ UNCHANGED <<repo, faults>>

RulesetChanges(m, target, details) ==
  LET payload == BuildRulesetPayload(m, target)
      key     == RulesetKey(payload)
      types   == ManagedRuleTypes(m, target)
  IN  IF ~Key(details, key) THEN <<[kind |-> "create_ruleset", payload |-> payload]>>
      ELSE IF NormalizeRulesetPayload(details[key].is, types)
                = NormalizeRulesetPayload(payload, types) THEN <<>>
      ELSE <<[kind |-> "update_ruleset", id |-> details[key].id, payload |-> payload]>>

\* The plan is complete: in mode plan it is reported, in mode apply carried out.
PlanRulesets(r) ==
  /\ run[r].pc = "details" /\ DOMAIN run[r].listed = {}
  /\ Reads(r, IF run[r].mode = "apply" THEN "apply" ELSE "done",
           RulesetChanges(run[r].manifest, "branch", run[r].details)
             \o RulesetChanges(run[r].manifest, "tag", run[r].details))

\* Mutant of Remaining: a created site is not updated.
RemainingAfterAny(changes) == Tail(changes)

\* What is left to do after the first call of the first change.
Remaining(changes) ==
  LET change == Head(changes)
  IN  IF change.kind = "create_pages" /\ DOMAIN change.update # {}
      THEN <<[kind |-> "update_pages", payload |-> change.update]>> \o Tail(changes)
      ELSE Tail(changes)

\* The call takes effect, and run r goes to pc.
Writes(r, pc) ==
  /\ repo' \in Outcomes(Head(run[r].changes), repo)
  /\ run' = [x \in Runs |->
               IF x = r
               THEN [run[r] EXCEPT !.pc = pc, !.wrote = TRUE, !.changes = Remaining(@)]
               ELSE [run[x] EXCEPT !.disturbed = TRUE]]

ApplyChange(r) ==
  /\ run[r].pc = "apply" /\ run[r].changes # <<>>
  /\ Writes(r, "apply")
  /\ UNCHANGED faults

ChangeRefused(r) ==
  /\ run[r].pc = "apply" /\ run[r].changes # <<>>
  /\ Outcomes(Head(run[r].changes), repo) = {}
  /\ Ends(r, "failed")

Report(r) ==
  /\ run[r].pc = "apply" /\ run[r].changes = <<>>
  /\ Ends(r, "done")

-----------------------------------------------------------------------------
(* Faults, and other people. *)

Faulty == faults < MaxFaults /\ faults' = faults + 1

\* A call fails before it takes effect, or the script is stopped there.
CallFails(r) ==
  /\ run[r].pc \in InFlight /\ Faulty
  /\ run' = [run EXCEPT ![r].pc = "failed"]
  /\ UNCHANGED repo

\* The call takes effect and its answer is lost.
AnswerLost(r) ==
  /\ run[r].pc = "apply" /\ run[r].changes # <<>>
  /\ Faulty /\ Writes(r, "failed")

\* The API answers 404 for something the token may not see: get_toggle_state
\* and get_pages_site take it for "off" and "no site".
Hidden(r) ==
  /\ Faulty
  /\ \/ /\ run[r].pc = "toggles" /\ run[r].toggles # <<>>
        /\ run' = [run EXCEPT
             ![r].toggles = Tail(@), ![r].blind = TRUE,
             ![r].changes = @ \o ToggleChanges(run[r].manifest, Head(run[r].toggles), FALSE)]
     \/ /\ run[r].pc = "pages"
        /\ run' = [run EXCEPT ![r].pc = "branch", ![r].blind = TRUE,
                              ![r].changes = @ \o PagesChanges(run[r].manifest, {})]
  /\ UNCHANGED repo

\* The repository comes without the block that says whether Advanced Security is
\* on (security_and_analysis): build_plan takes it for "off".
SecurityHidden(r) ==
  LET m    == run[r].manifest
      seen == [repo EXCEPT !.advanced = FALSE]
  IN  /\ run[r].pc = "repository" /\ repo.advanced
      /\ Faulty
      /\ run' = [run EXCEPT ![r].pc = IF AlertsConflict(m) THEN "refused" ELSE "toggles",
                            ![r].toggles = ToggleOrder(m), ![r].blind = TRUE,
                            ![r].changes = PatchChanges(m, seen) \o AdvancedChanges(m, seen)]
      /\ UNCHANGED repo

\* Somebody edits the repository by hand.
Edit ==
  /\ Faulty
  /\ repo' \in {state \in Edits(repo) : IsRepository(state)}
  /\ run' = [x \in Runs |-> [run[x] EXCEPT !.disturbed = TRUE]]

ScriptStep(r) ==
  \/ ReadRepository(r) \/ ReadToggle(r) \/ TogglesRead(r) \/ ReadPages(r)
  \/ BuildRuleset(r, "branch") \/ BuildRuleset(r, "tag")
  \/ ListRulesets(r) \/ GetRuleset(r) \/ PlanRulesets(r)
  \/ ApplyChange(r) \/ ChangeRefused(r) \/ Report(r)

Next ==
  \/ \E r \in Runs : \/ \E mode \in Modes, m \in Manifests : Start(r, mode, m)
                     \/ ScriptStep(r) \/ CallFails(r) \/ AnswerLost(r)
                     \/ Hidden(r) \/ SecurityHidden(r)
  \/ Edit

Spec == Init /\ [][Next]_vars

\* A manifest in which the script finds no error.
Sound(m) ==
  /\ ValidManifest(m) /\ ~AlertsConflict(m)
  /\ \A target \in Targets :
       /\ \A a \in Get(RulesetConfig(m, target), "bypass", {}) :
            ~BadActor(a) /\ (a.type = "app" => a.slug \in DOMAIN AppIds)
       /\ ~BadRules(m, target)

\* The script goes on by itself, and whoever maintains the repository runs
\* "apply" again and again, with each of the manifests there is no error in.
FairSpec ==
  /\ Spec
  /\ \A r \in Runs : WF_vars(ScriptStep(r))
  /\ \A r \in Runs, m \in {n \in Manifests : Sound(n)} : SF_vars(Start(r, "apply", m))

-----------------------------------------------------------------------------
(* What a manifest means, said without the planner. *)

RulesetMeets(m, target, is) ==
  LET cfg    == RulesetConfig(m, target)
      review == Get(cfg, "pull_request", <<>>)
      checks == StatusChecks(m, target)
      has    == DOMAIN is.rules
      given(type, p, default) == Get(is.rules[type], p, default)
  IN  /\ is.enforcement = Get(cfg, "enforcement", "active")
      /\ is.bypass_actors = ResolveBypassActors(m, target)
      /\ is.include = {IF target = "branch" THEN "~DEFAULT_BRANCH" ELSE "~ALL"}
      /\ is.exclude = {}
      /\ \A k \in DOMAIN RuleOf : RuleOf[k] \in has <=> On(cfg, k)
      /\ "update" \in has <=> On(cfg, "restrict_updates")
      /\ "update" \in has =>
           given("update", "update_allows_fetch_and_merge", FALSE)
             = On(cfg, "update_allows_fetch_and_merge")
      /\ target = "branch" =>
           /\ "pull_request" \in has <=> On(cfg, "require_pull_request")
           /\ "pull_request" \in has =>
                /\ given("pull_request", "allowed_merge_methods", {}) = AllowedMergeMethods(m)
                /\ \A p \in DOMAIN PullRequestDefaults :
                     given("pull_request", p, PullRequestDefaults[p])
                       = Get(review, p, PullRequestDefaults[p])
      /\ ~ChecksEnabled(m, target) => "required_status_checks" \notin has
      /\ Contexts(m, target) # {} =>
           /\ "required_status_checks" \in has
           /\ given("required_status_checks", "required_status_checks", {}) = Contexts(m, target)
           /\ \A p \in {"do_not_enforce_on_create", "strict_required_status_checks_policy"} :
                given("required_status_checks", p, FALSE) = On(checks, p)

OwnRulesets(key) ==
  {id \in DOMAIN repo.rulesets : /\ RulesetKey(repo.rulesets[id]) = key
                                 /\ repo.rulesets[id].source = "Repository"}

Meets(m) ==
  /\ \A f \in Fields \cap DOMAIN m.repository : repo.fields[f] = m.repository[f]
  /\ \A t \in DOMAIN ToggleDesired(m) : repo.toggles[t] = ToggleDesired(m)[t]
  /\ repo.private => Get(m.security, "advanced_security", repo.advanced) = repo.advanced
  /\ DOMAIN m.pages # {} => \E site \in repo.pages :
       \A k \in DOMAIN BuildPagesState(m) : site[k] = BuildPagesState(m)[k]
  /\ \A target \in Targets :
       LET own == OwnRulesets(<<RulesetName(m, target), target>>)
       IN  /\ Cardinality(own) = 1
           /\ \A id \in own : RulesetMeets(m, target, repo.rulesets[id])

-----------------------------------------------------------------------------
(* Properties. *)

Alone(r) == ~run[r].disturbed /\ ~run[r].blind

\* When apply exits 0 (main, apply_plan) and nobody else has touched the
\* repository since it started, the repository is what the manifest says,
\* whatever the runs before it left half done.
ApplyReachesManifest ==
  \A r \in Runs :
    run[r].pc = "done" /\ run[r].mode = "apply" /\ Alone(r) => Meets(run[r].manifest)

\* A finished plan is empty exactly when the repository is what the manifest
\* says (build_plan against normalize_*): so an apply after an apply is empty.
EmptyPlanMeansMet ==
  \A r \in Runs :
    /\ Alone(r) /\ ~run[r].wrote
    /\ run[r].pc = "apply" \/ (run[r].pc = "done" /\ run[r].mode = "plan")
    => (run[r].changes = <<>> <=> Meets(run[r].manifest))

\* An error of the manifest, wherever it is found (ConfigError), is found
\* before the first write of that run.
RefusedWroteNothing ==
  \A r \in Runs : run[r].pc = "refused" => ~run[r].wrote

Twins(m) == \E key \in ManagedKeys(m) : Cardinality(OwnRulesets(key)) > 1

\* Runs one at a time never make a second ruleset of one name and target,
\* though the answer to a creation may be lost and the run repeated.
NoTwins == \A m \in Manifests : ~Twins(m)

\* A run that starts on a repository with two rulesets for a managed key
\* neither writes nor succeeds (get_managed_rulesets).
TwinsAreRefused ==
  \A r \in Runs :
    Alone(r) /\ (run[r].wrote \/ run[r].pc = "done") => ~Twins(run[r].manifest)

\* A write of a run that nobody has interfered with leaves everything alone
\* that its manifest does not set: fields, toggles, pages, rulesets of other
\* names and rulesets that are not the repository's own.
KeepsUnmanaged ==
  [][\A r \in Runs :
       LET m == run[r].manifest
       IN  run[r].pc = "apply" /\ run'[r].changes # run[r].changes /\ ~run[r].disturbed =>
             /\ \A f \in Fields \ DOMAIN m.repository : repo'.fields[f] = repo.fields[f]
             /\ \A t \in Toggles \ DOMAIN ToggleDesired(m) : repo'.toggles[t] = repo.toggles[t]
             /\ DOMAIN m.pages = {} => repo'.pages = repo.pages
             /\ \A id \in DOMAIN repo.rulesets :
                  \/ id \in UNION {OwnRulesets(key) : key \in ManagedKeys(m)}
                  \/ id \in DOMAIN repo'.rulesets /\ repo'.rulesets[id] = repo.rulesets[id]]_vars

\* With runs repeated, calls that in the end go through and nobody editing for
\* ever, the repository comes to be what a manifest says, each time the manifest
\* is applied again: nothing a run has left half done stands in the way.
EventuallyMet == \A m \in Manifests : Sound(m) => []<>Meets(m)
=============================================================================
