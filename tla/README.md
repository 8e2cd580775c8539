# Verification of pyinfra-vyos

TLA+ models of [pyinfra-vyos](../src/README.md), a pyinfra plugin (facts and
operations over SSH) that configures VyOS routers, and of the script that keeps
the settings of its GitHub repository, with TLC runs on small instances and
TLAPS proofs for every value of the constants.

## 1. The system

The plugin runs on a *controller*. It reads facts from the device (output of
op-mode commands), works out on the controller what has to change, uploads a
vbash script into a private staging directory and runs it in one VyOS configure
session. It takes no lock: the documentation asks the caller to serialize
mutation sessions per host.

| component | source | state | operations | hard part |
|---|---|---|---|---|
| session scripts | `_session.py` | shell variables (`did_commit`, `did_save`, `rc`), the configure session, the EXIT trap | load / commands / save script | return codes that mean nothing, partial failure, cleanup, signals |
| staging and command sequence | `_cli.py`, `config_load` | the staging directory on the device | probe, mkdir, upload, chmod + guard, `sg` run, outer `rm` | any command may fail, the connection may go while the script goes on |
| diff and planner | `_tree.py`, `_plan_scopes` | none (pure) | `select_subtree`, `diff_tree`, plan of several scopes | shapes that do not match, empty values, order of deletes and sets |
| generic operation | `config` | the plan, between fact and session | plan, noop or run | the plan is stale when it runs |
| whole-config and persist | `config_load`, `config_save` | none | load a file; save when `PendingSave` says so | the source changes after its check; a fact of three values; a save that a later run must make up for |
| typed operations, renderers | `operations.py`, `_render.py` | none | `system_basics`, `interface`, `static_route`, `user`, `firewall_group`, `firewall_ruleset` | ownership per field or per object, version gate, self-deletion guard, one snapshot for several scopes |
| facts and parsers | `facts.py`, `_parse.py` | none | 4 facts | defaults, markers, values that must be unknown rather than wrong |
| op-mode wrapper | `_cli.py` | none | command pipelines | pager and PTY hide return codes |
| repository settings | `.github/scripts/configure_github_repo.py` | the repository's settings at GitHub | validate, plan, apply | one API call after the other, lost answers, several runs |
| release validation, workflows, test appliance | `.github/`, `tests/` | - | - | not modelled, see section 6 |

How they interact: an operation *reads* `Configuration`, `Version` or
`PendingSave`, a typed one *renders* its arguments into scopes, the planner
*plans* the scopes against the configuration, and the operation *builds* a script
and *yields* a fixed list of commands that pyinfra sends one by one, stopping at
the first failure. Nothing is shared between runs but the device. The settings
script stands alone: it shares nothing with the plugin, and its runs share
nothing but the repository.

What makes them correct:

- a session: its exit code and its sentinel (`PYINFRA_VYOS changed` / `noop`)
  are true of the device; a partial commit is never saved; nothing is left behind;
- a plan: accepted by the device, sufficient, minimal, inside the owned paths,
  and empty when it is made again;
- a typed operation: brings about what its arguments say, field by field, and
  touches nothing else, and deletes no account that the device reports as its own;
- a fact: true when it has a value;
- a deploy: once it ends well the configuration is met and saved, and run often
  enough it ends well, whatever earlier runs left;
- a settings run: `apply` with exit 0 means the repository is as the manifest
  says, and an interrupted one is made up for by the next.

## 2. Modules

| module | models | composed with |
|---|---|---|
| `ConfigSession` | staging, the scripts, trap and wrapper, next to the device and its other users | - |
| `ConfigSessionInv` | the inductive invariant | extends `ConfigSession` |
| `ConfigSessionProofs` | lemmas and theorems, last of all that serialized runs are alone | extends `ConfigSessionInv`, TLAPS |
| `ConfigTree` | `_tree.py` and `_plan_scopes` as operators | - |
| `TreeWalk` | `diff_tree` with its recursion, for comparison | extends `ConfigTree` |
| `ConfigDevice` | the device: grammar, configurations, how a plan applies (external); what makes an operation one in terms of the grammar | extends `ConfigTree` |
| `ConfigOperation` | fact, plan, session, second call, for any list of scopes | extends `ConfigDevice` |
| `ConfigPlanProofs` | lemmas about paths, the grammar, plans and what their commands do | extends `ConfigOperation`, TLAPS |
| `ConfigOperationProofs` | the inductive invariant and the theorems | extends `ConfigPlanProofs` |
| `Renderers` | `_render.py`: from arguments to scopes, or a rejection | extends `ConfigTree` |
| `Arguments` | what the arguments of a typed operation say of the device, field by field, without the renderers | extends `ConfigDevice` and `Renderers` |
| `TypedOperations` | the six typed operations, end to end | extends `Arguments`; runs the plan and session of `ConfigOperation`, and implements it |
| `RendererProofs` | lemmas about the renderers: what each makes of its arguments | extends `Arguments` and `ConfigPlanProofs` |
| `TypedOperationsProofs` | the refinement, what it carries over, arguments met, ownership, the self-deletion guard | extends `TypedOperations` and `RendererProofs`, instantiates `ConfigOperationProofs` |
| `Facts` | op-mode outputs, parsers and facts as operators | - |
| `FactReading` | one reading of one fact | extends `Facts` |
| `FactReadingProofs` | that values are true | extends `FactReading`, TLAPS |
| `SavedState` | deploys of `config` or `config_load` with `config_save` on several hosts | extends `Facts` |
| `SavedStateProofs` | its invariant and theorems | extends `SavedState`, TLAPS |
| `RepositorySettings` | the settings script | - |
| `RepositorySettingsProofs` | its invariants and theorems | extends `RepositorySettings`, TLAPS |
| `MC...` | instances for TLC | extend the module they are named after |

Definitions named after another one with a suffix (`TrapExitKeepsRc`,
`NoExtraKeys`, `ManagedByAnybody`, ...) are *mutants*: bugs the code
could have had. In place of the definition they are named after, each makes a
property fail, which shows what the property is about. No behaviour of the models
uses them.

### ConfigSession

A run is a record: `pc` is the line it is at, `link` whether the controller
still talks to it, `staged` what lies in the staging directory, `del`/`add` the
configure session (an overlay on the active configuration), and `rc`,
`didCommit`, `didSave`, `cleanupFailed`, `sentinel` the variables of the script.
A configuration is a set of nodes (one per leaf value).

| actions | code |
|---|---|
| `Probe` ... `ExecScript` | the commands of `session_run_sequence` and of `config_load`, in order; each may fail and then nothing else is sent |
| `Configure` | `configure` and the `inSession` assertion |
| `LoadConfig`, `RunCommand` | `load`, one `set`/`delete`; nonzero ends the script, zero may be a lie (*mask*) |
| `CommitGate`, `Commit`, `CommitPostcondition` | `_commit_gate`; the return code of `commit` is ignored, as in the code |
| `NeedsSave`, `Save`, `SavePostcondition` | `_save_block` |
| `EmitSentinel` | end of `_epilogue` |
| `Teardown`, `RemoveStaging` | the EXIT trap |
| `OuterRemove` | `rc=$?; rm -rf ...; exit $rc` of `sg_vbash_run` |
| `Disconnect`, `Interrupt`, `Kill`, `Reboot`, `Admin` | the environment |

Three fields are history, read by properties only: `base` (the configuration the
session started from), `effects` (what the run changed on the device) and
`blind` (what went wrong without any return code to show it); so is `disturbed`
(somebody else changed the device since the session began).

Choices worth knowing: a second session's commit changes the active
configuration under the overlay of the first, so `sessionChanged` is evaluated
against what is active *now*. A failed commit may apply any part of the changes.
After a reboot the active configuration is `config.boot` and `/tmp` may or may
not survive. A signal runs the EXIT trap with `$?` nonzero.

### ConfigTree, ConfigDevice and ConfigOperation

Trees are what `normalize_tree` produces, a leaf being the *set* of its values. A
tree is told by its paths: those of its nodes, of its leaves, and of its values,
each behind its leaf. What `_diff_value` and `_diff_node` find while they walk
down the desired tree is then said of all paths at once, one definition per
branch of the code: `MissingValues`, `MissingNodes`, `StaleValues`, `InTheWay`,
`ExtraKeys`. A delta is a set of deletes and a set of sets, since no command of a
batch depends on another of the same batch. `TreeWalk` keeps the recursion of the
code, call by call, and `PlanIsWalk` compares the two in every state of
`plan_shaped`. Without recursion there is nothing to do induction over,
and plans can be reasoned about for trees of any depth.

`PlanScopes` is `_plan_scopes`: every scope of an operation is planned
against the same configuration. `config` is the case of one scope, with intent
*absent* for `present=False`, *exact* for `replace=True` and *merge* otherwise.

The device is external: `Paths` is its grammar, a configuration a parent-closed
set of paths in which a leaf has a value, a single-value leaf just one, and a tag
node an instance. Deleting what is not there is rejected; setting a single-value
leaf replaces its value; a leaf disappears with its last value. A `Candidate` may
lack the body that some nodes need to be committed; a `Config` does not.

`PlanOperation` reads the fact, or its default where the fact fails and pyinfra
goes on, and plans; `SomebodyCommits` may change the configuration before
`OpenSession` takes a candidate of it; `RunScope` runs the commands of one scope
after the other, any of which may be rejected; `Commit` makes the candidate
active or refuses it; and `CallAgain` calls the operation a second time. What
can go wrong *inside* a session is left to `ConfigSession`: it shows that an exit
code of 0 means just what `Commit` does, and what a nonzero one leaves open.
`Contended` says for which operations the environment is that bad: a bound of the
runs, as every pair of configurations is one too many for all of them.

`WellPosed` is what makes an operation one in terms of the grammar: its trees have
the device's shapes and paths, nothing is asked for that cannot be there by
itself, and no scope asks for something where another one owns all, or for a
second value of a leaf with one.

### Renderers, Arguments and TypedOperations

A call is a record of the operation, what names its object, `present`, and
`args`, a function of the arguments that were given. `...Rejects` collects what a
renderer raises for, `Render...` gives the scopes. `ExactLeaf`, `ExactList`,
`MergeValues`, `OrBare` and `Collides` are the helpers the six renderers share;
`SchemaKey` is `schema_key`, by the classes of version strings it tells apart.

`TypedOperations` takes a call through `CheckArguments` (what is refused before
any fact is read), `GuardDeletion` (`_require_deletable_identity`, for `user`
only; whom the device may report it is are `Identities`, the connected user or not), `RenderCall` (the version gate and the renderer), and then `PlanCall` and
`RunSession`, which *are* the actions of `ConfigOperation`.

**Refinement.** With the phases before the plan seen as `called`, and the
rendered scopes as what was asked for, every step of `TypedOperations` is a step
of `ConfigOperation` or is not seen there (`ImplementsConfigOperation`). What
`ConfigOperation` promises of a plan therefore holds of a typed operation;
`TypedOperations` adds what scopes cannot say: what the *arguments* mean. `CallIsMet`,
`OnlyOwnedChanges` and `DeletesOnlyOthers` are stated in terms of arguments and
paths, without the renderers. Their vocabulary is that of `Arguments`: the place of an
argument (`ObjectPath`, `FieldPath`, `RulePath`), what it means there
(`FieldIsMet`), what a call owns (`Owned`), and when arguments are in terms of
the grammar (`Fits`).

### Facts, FactReading and SavedState

An output is a return code, whether the marker is its last line, and one of four
kinds of payload: whole, cut off, none, mixed with other lines. `OpModeFailures`
and `ProbeFailures` are the outputs that the pipelines of `vyos_op_command` and
`pending_save_probe` can leave when something fails, `StripMarker` and `Parse...`
follow `_parse.py`, `FactProcess` is the decorator that turns exceptions into one
that pyinfra keeps to the host, and `GetFact` what pyinfra makes of it: the
default without vbash, with ignored errors, and, without any error, when stdout is
empty. For the last the commands print the marker (`_parse.py:20-22`): a command
that prints nothing then still leaves something to process. `Silence` is the output of
which not even the marker arrived, with return code 0; nothing in the plugin tells it
from a default, as `strip_marker` is called in the `process()` that pyinfra skips.
So `ValuesAreTrue` allows the default there, and `DoneIsMet` excepts a delete planned
from it, which ends as a noop (`Misled`); a set planned from it sets everything,
and meets the request like any other (`DoneMeets` is proved for both).
`PendingSave` is safe, as its default is "unknown".

`SavedState` is a deploy per host: `ReadConfiguration` (`config`), `Apply` (its
session, or that of `config_load`), `ProbePending` and `Save` (`config_save`).
`DeployAgain` starts it over on all hosts; `SomebodyCommits` and `Reboot` are the
environment. An exception that is not contained sets `aborted`, which stops every
host. A session is one step, for what `ConfigSession` shows of it: all, or a part
of the commit and no save, or all and then a failure.

### RepositorySettings

A run is the script from `main()` to its exit code: `pc` is where it is,
`changes` the plan so far and then what is left of it, `toggles`, `listed` and
`details` what is still to be read or has been read.

| actions | code |
|---|---|
| `Start` | `load_manifest` and the `validate_*` functions |
| `ReadRepository` | `build_plan` up to the toggles: `build_repository_patch`, advanced security, `coerce_dependency_graph_setting` |
| `ReadToggle`, `TogglesRead` | `get_toggle_state` for each toggle, in order |
| `ReadPages` | `get_pages_site`, `plan_pages_changes` |
| `BuildRuleset` | `build_ruleset_payload` with the lookup of Apps (`BadActor`, an App without an id among them) and the rules that cannot be built (`BadRules`: no merge method, malformed contexts) |
| `ListRulesets`, `GetRuleset` | `get_managed_rulesets`: one page, then one call per ruleset; a second one for a key is an error |
| `PlanRulesets` | `plan_ruleset_changes`: `normalize_ruleset_payload` of both sides, and the end of the plan |
| `ApplyChange`, `ChangeRefused`, `Report` | `apply_plan`, one call at a time |
| `CallFails`, `AnswerLost`, `Hidden`, `SecurityHidden`, `Edit` | a call that fails before or after it took effect, a 404 for a setting the token may not see, a repository shown without `security_and_analysis`, a maintainer's edit |

The API is external: `Outcomes` says what each call makes of the repository, and
what GitHub chooses (the id of a new ruleset, defaults of a rule) is left open, and
`IsRepository` is the shape in which it shows a repository.
`disturbed` and `blind` are history: somebody else wrote since the run started;
what the token may not see was taken for "off".

## 3. Runs

| run | instance | shows |
|---|---|---|
| `session_solo` | 1 run, 2 nodes, 5 requests, all 14 faults; 2.5 M states | exit code and sentinel tell the truth; no partial save; nothing left behind; no blank load |
| `session_overlap` | 2 runs that the caller serializes, 3 requests, faults reject, commit, save, disconnect, kill; 2.4 M states | `IndInv` also where runs overlap, which they do after a lost connection; without one the documented precondition is enough |
| `session_live` | 1 run, fair, 8 faults | every run ends; a started one cleans up |
| `plan_shaped` | 122 configurations, 319 operations, for 5 of which the configuration may change in between or be unreadable; 1.2 M states | the plan is what the walk of `diff_tree` finds, accepted, sufficient, minimal, and empty the second time; what a stale or a blind plan may never do |
| `plan_value`, `plan_bare` | one or two operations | divergences 1 and 2 below |
| `typed_calls` | all calls of the six operations with at most two arguments, good and bad, on every configuration of the object; 0.4 M states | the arguments are met; what they are rendered to is in terms of the grammar, scopes do not meet |
| `typed_stale` | calls with two arguments or none, a smaller part of the grammar; others commit, facts fail, the device reports the connected user, another one or none; 0.1 M states | ownership, the self-deletion guard, the refinement |
| `facts` | 4 facts, 3 configurations, all outputs, with and without vbash, a PTY, ignored errors | a value is true, or the default where nothing arrived or an error is ignored; "saved" was compared |
| `saved_config` | a VyOS host and one without vbash, 2 nodes, `config(present=False, save=True)` then `config_save`, 3 faults, fair | done means met and saved; one host never ends the deploy of the other; run often enough, the deploy ends met and saved |
| `settings_retry` | runs one after the other, 9 manifests (2 good, 7 with an error each), 2 faults, fair | apply reaches the manifest whatever came before; an empty plan means met; refusals come first; no twin rulesets; the rest is left alone; the repository comes to be what each good manifest says |
| `settings_overlap` | 2 overlapping runs, 1 fault, twins by hand | twins are refused, wherever they come from |

**Bounds.** *Sessions*: two nodes let a commit be partial, a command undo another
one (`delete` of both, then `set` of one) and a load both add and remove. Two
command slots give a first and a last command. Two runs are enough for
interference: a run only ever sees the others through the device.
`session_overlap` leaves out faults that `session_solo` covers, as they act on a
run alone. Each run is used once; a retry is a second run with the same request.
*Plans*: the tree has a leaf with many values, a leaf with one, a valueless node,
a nested subtree and a node outside the owned path: every branch of `_diff_value`
and every pair of shapes occurs, at the root and below it, with a leaf as a
subtree of its values and a subtree as a list of its keys among them. `SecondCallIsNoop`
and `PlanIsMinimal` are about operations in the shape the device shows
(`HasShape`). `SomebodyCommits` happens at most once in a call, to any configuration.
*Typed operations*: each is run on its own part of the grammar, since its scopes
lie in one object; two arguments at a time are enough for what two scopes can do
to one another. Every argument occurs alone, in every pair, empty and filled, and
with a value that is refused. `typed_stale` drops the second value of single-value
leaves and the like, as any two configurations must be paired there.
*Deploys*: one owned node and one other let a commit be partial and the rest
differ; two hosts let one end the other, and one of them may be no VyOS host, for
such a host goes through a deploy in its own way. Three faults are a lost save, a
reboot and somebody's commit in one behaviour. *Settings*: the good manifests set
every kind of setting in one direction and in the other; the repository has
something of everything, with an organization's ruleset of the managed name, and
edits take the site and the rulesets away,
and give a rule another parameter or a ruleset a rule of a type that is not managed. Two faults are an interrupted run and an
edit before the next.

`PageSize` is chosen so that all rulesets are on the page that is read. With a
smaller one `EmptyPlanMeansMet` fails, since the script reads no second page:
a limit of the code (100 rulesets) that no document contradicts.

Symmetry is used for the runs of `session_overlap` and `settings_overlap`, which
check no liveness; neither requests nor manifests name a run.

**Deadlock** is checked everywhere. Where all runs are used, or both calls are
over, a stuttering action (`AllOver`, `Finished`, `Done`) stands for the end;
deploys and settings runs can always start again.

**Fairness.** *ConfigSession*: weak fairness of the steps of each run, as pyinfra
sends one command after the other and bash executes line after line. Nothing
obliges a run to begin or a fault to happen. `kill` and `reboot` are not among
the faults of `session_live`: after them no line of the script is left to clean
up, and `session_solo` has those behaviours; nor are `session` and `cleanup`, whose
effect is what `SuccessIsClean` describes. *SavedState*: weak fairness of each
host's steps, as every command returns in time, and of `DeployAgain`, as
configuration management is run again and again; that is the assumption under which
"the rerun repairs it" means anything. *RepositorySettings*: weak fairness of the
script's steps, and strong fairness of starting `apply` with each manifest that has
no error in it: whoever maintains the repository runs it again and again, with one
good manifest and then another, though runs in mode `plan` come in between, so that
starting `apply` is not enabled all the time. `EventuallyMet` says accordingly that
each of them is met again and again. Faults end because they are
bounded by `MaxFaults`: a network that fails for ever lets nothing converge.

**Divergences between documentation and code.**

1. `plan_value`: `config(path=[..., leaf, value], present=False)`. VyOS deletes
   one value of a leaf by this path; `select_subtree` finds nothing beyond a leaf
   (`_tree.py:119-123`), so the operation reports "already absent" and the value
   stays. README: "`present=False` deletes the whole path."
2. `plan_bare`: with `replace=True`, a desired `{}` on an active leaf (or `[]` on
   an active subtree) deletes nothing (`_tree.py:181-192`). README: "the subtree
   becomes exactly `values`". `tests/test_tree.py:266-269` asserts the code's behaviour at
   the root.

Two more were met while modelling; the models behave as the code does, and no run
is kept for them:

- `static_route(values={"tag": []})` is not empty, but normalizes to a leaf
  without values, so the plan is a bare `set ... route <dest>`
  (`_render.py:507-511`). Its docstring: "``present=True`` requires a nonempty
  body"; "a bare route object is never commit-valid."
- A rule number like a superscript two passes `isdigit()` and is refused by
  `int()` (`_render.py:770-771`); the `ValueError` is none of `_DOMAIN_ERRORS` and
  reaches the user as it is (phase `crashed`). `operations.py:82-84` says that the
  translation into `OperationValueError` happens once, there.

## 4. Proofs

**Sessions.** `ConfigSessionProofs` proves, for any set of runs, nodes, requests
and faults that satisfies `SessionAssumption` (what the script builders check of
their arguments), every safety property of `session_solo`:
`NoopIsHonest`, `ChangedIsReal`, `SuccessIsExact`, `SuccessIsDurable`,
`NeverSavesPartial`, `SuccessIsClean`, `SuccessHasSentinel`, `NeverLoadsBlank`,
and the type invariant.

None is inductive alone: that an exit code of 0 means the device holds the target
depends on what each earlier line established. `IndInv` follows a run through
its stages. `Local` speaks of one run whatever the device does: variables are
untouched before the session (`Pristine`), a command list has a next command
(`InBounds`), the body has no nonzero rc behind it (`Running`), `did_commit` and
`did_save` cover the effects (`Accounted`), only a sentinel leads to rc 0
(`Reported`), what the trap cannot remove shows in rc (`TidiedUp`). `Settled`
relates an *undisturbed* run to the device: the candidate is the target of the
commands so far (`Exact`), the save block ends with boot equal to active
(`Durable`), claims of change are backed (`Real`).

The argument has four kinds of step. A step that leaves the device alone and
changes one run needs that run's new record to satisfy the invariant (`StepInv`);
Exit 1 at any stage preserves it (`Exit1Inv`); a device write by run `r` disturbs
every other run that has a session, or changes nothing (`Undisturbed`), so
`Settled` is owed only for `r`; and `RunCommand` needs that one more command makes
the target of the first k from that of the first k-1 (`TargetStep`), which is
stated without recursion: the last command covering a node decides. One lemma per
action, `NextInv` collects them, `Invariance` is the temporal step.

The last part of the module proves `SerializedRunsAreAlone` for any number of runs and
any faults but another administrator and a reboot, while no connection has been
lost. A lost connection is never mended (`LinksStay`), so a step that ends with all
links up began with all of them up, and the invariant `Alone` is needed only there.
It is about pairs of runs: at most one run is in flight, and none that is or will be
has been disturbed. Every step of a run is shown to be its own (`OwnStep`: it replaces the
run's record, keeps its link, and writes on its own account), which keeps `Alone`
(`OwnStepAlone`); `Begin` keeps it because the caller starts a run only when all
others are over to him, and with all links up they are over.

**Deploys.** `SavedStateProofs` proves `DoneIsMet`, `DoneIsSaved`, `OthersGoOn`
and `NoVbashIsLeftAlone` (a host without vbash is neither changed nor counted as
saved) for any hosts, faults, request and combination of
operations, `config_load` and ignored errors among them, where `saved_config` runs
one instance. `HostInv` says what holds of a host on its way: a plan is the
difference to what is running, from the probe on the request is met, and done
implies saved. Two lemmas bring in the facts: a configuration that is read is that of
the device, or the default with a cause that `Defaulted` names; and "saved" comes from a comparison.

**Settings.** `RepositorySettingsProofs` proves every safety property of the two
settings runs, for any manifests, repositories, edits and number of runs that
overlap and may be cut short anywhere: `RefusedWroteNothing`
(`RefusalsAreClean`), `KeepsUnmanaged` (`UnmanagedIsKept`), `ApplyReachesManifest`
(`AppliesReachManifest`), `EmptyPlanMeansMet` (`EmptyPlansAreMet`),
`TwinsAreRefused` (`TwinsStopRuns`) and `NoTwins` (`RunsMakeNoTwins`).

The first needs `WritesLate` only: a run has written only where it carries out its plan or
has ended since. The others say something of a run at its end, and `SettingsInv`
follows it there. `Plans`: each change left comes from the manifest, and no
setting is changed twice. `Knows`: of a run that nobody disturbed, the rulesets
listed and read are those of the repository. `Certain`: it has found all of a managed
name and target, and a plan that creates one found none. `Covers`: whatever is not as the
manifest says is still to be read or among the changes left, so that a run with
nothing left to do has reached its manifest; `Needs`, the other way round: until
the first write every change is of something that is not met.
Reads keep this because the plan of each part is made from the part as it is
(`NormalizedIs` and `RulesetsPlanned` compare the normalized payload with the
manifest, rule by rule and parameter by parameter); writes, because a change brings
about what it was planned for and leaves the rest of what is managed alone
(`SettingsWritten`, `SiteWritten`, `RulesetsWritten`); a write or an edit of
somebody else disturbs the run, of which only `Plans` is then said.

Two hypotheses are needed and stated. `[]OnePage` (the rulesets fit on the page that is read)
is in all but the first two theorems: without it the script does not see what is there, as
said in section 3. `RunsMakeNoTwins` is about runs one at a time (`Solo`), with people who edit
by hand but do not themselves add a ruleset of a managed name, and a repository without
twins at first. For overlapping runs it is false: both may create the
ruleset that neither has found, and `TwinsStopRuns` says what happens then. The
configuration of `settings_retry` satisfies all of these, and that of
`settings_overlap` the first.

**Facts.** `FactReadingProofs` proves `ValuesAreTrue` (theorem `Truth`) and
`SavedIsCompared` (`SavedOnlyIfCompared`) for any fields, configurations, cut-off
parts and foreign lines. A fact is read in one step, so
the work is in the cases: a value that was read was parsed from an output with exit
code 0 and the marker, or it is the default with a cause for it (`DefaultOrParsed`); the parsers of JSON and of words refuse
whatever is cut off or mixed with other lines; the one of command lines cannot tell, and is
right because without a pager an output with the marker is whole (`MarkedIsWhole`).

**Plans.** `ConfigOperationProofs` proves every property of `plan_shaped` but
`PlanIsWalk`: `TypeOK`, `AbsentIsAbsent`, `ReplaceIsExact`, `MergeIsPresent`,
`PlanIsAccepted`, `SecondCallIsNoop`, `PlanIsMinimal`, `BlindDeletesNothing` and
`StaysInScope`, for every grammar that satisfies `DeviceAssumption`, trees of any
depth, any number of scopes, and whoever else commits.

`ConfigPlanProofs` has what the proofs need of data. Paths are ordered by their
prefixes, and the shortest path with some property exists (`Shortest`, by
well-founded induction). What a delete and a set do to a candidate is told path by
path (`DeleteFacts`, `SetFacts`). `PlanOfScope` is the main lemma: it
says what the delta of a scope is in terms of the configuration - the *surplus*, no two
of which lie below one another, is deleted and the *wanted* that is missing is set -
and `RunMeets` that its commands are accepted and meet the scope. That several
scopes are planned against one snapshot is covered by `RunLeavesAlone`, `RunKeepsWanted`
and `RunKeeps`: what one scope's commands do neither spoils what an earlier one
has reached nor changes what a later one was planned for.

None of the properties is inductive: nothing in "the device is as asked" survives a
session halfway. `IndInv` follows the plan: it is the one of the configuration
it was made for (`Planned`); in an undisturbed session the scopes that have run are
met and the others still find what they were planned for (`Halfway`); what differs
between candidate and device was asked for by some scope (`InScope`), which holds
of disturbed sessions as well; a call that is over has met all scopes, and a
second one found them so (`Over`).

The theorems have the hypothesis `WellPosed(op)` at the start, `BlindDeletesNothing`
excepted. It cannot be dropped: without it two scopes may contradict each other,
and the two divergences of section 3 are operations that are not well posed. It is not
vacuous: `PosedAssumption` has TLC evaluate it for all operations of `plan_shaped`
in the device's shapes, and `RenderedIsPosed` proves it of what the renderers make of
typed calls. For other shapes (`LooseOperations`) the run stands alone.

**Typed operations.** `TypedOperationsProofs` proves the refinement
(`Refinement`: `ImplementsConfigOperation`) step by step, for all calls and whatever
the renderers make of them. `ConfigOperation` is instantiated three times, for the
actions (`Op`), as what is implemented (`Abstract`) and with its theorems (`A`);
lemmas show that their operators are the same, and `Assumed` that the assumptions of
the theorems follow from those of `TypedOperations`. The refinement then carries the
theorems over: a typed call reaches all its scopes (`ScopesAreReached`), has its
plans accepted (`PlansAreAccepted`) and stays in its scopes on whatever
configuration it runs (`SessionsStayInScope`).

That the scopes are well posed, which those theorems need, is proved of all six
renderers (`RenderedIsPosed`: `ScopesArePosed`). The hypothesis left is about what is
asked for, `FittingCalls`: the arguments of a call that is neither refused nor raises
name paths of the grammar and ask for what can be there by itself. TLC finds it
true of all calls of `typed_calls` and `typed_stale`, so it excludes none of them.
Two more theorems say what the scopes mean to the caller: an undisturbed call that
has ended well has made its *arguments* true, field by field (`ArgumentsAreMet`: `CallIsMet`),
and no session changes anything but what the call owns, stale and blind plans included
(`OnlyOwned`: `OnlyOwnedChanges`).

`RendererProofs` argues in the order of the code. What a field asks for at its place is
a tree (`Desired`); a body, or the node of all rules, is made of such trees and of nothing
else (`Grown`), so that its parts are theirs and can be there together (`GrownSuits`).
Each renderer yields one scope for every field or rule that is given, once, and no other:
the helpers of `_render.py` are the steps (`TextRendered`, `ListRendered`, `RulesRendered`, ...),
the renderers follow one by one, and `CallRendered` collects them. Scopes lie where
their field or rule does (`ScopesPlaced`), which parts them from all others (`FieldsApart`);
that makes `CallPosed`. The way back is `CallMet` - a configuration that meets the
scopes meets the arguments - and `CallOwns`: what a scope may touch, its call owns.
`TypedOperationsProofs` takes both through a session with the invariant `Kept`: a call that is
planned has been rendered, and its scopes and plan are as those of a config operation,
whose invariant holds of them.

`DeletesOnlyOthers` (`DeletionsAreGuarded`) holds whether calls fit or not, and whomever the
device reports; it needs only that users are instances of a tag, as they are in VyOS's grammar
and in that of the runs. It says that no session of `user` removes an account but the one it is
called to delete, and that one only when the device has reported a user and another one. More
cannot be had: the docstring (`operations.py:670-676`) calls the reported `$USER` no proof of
the connected identity, and under a privilege transformation that reports somebody else the
connected user can be deleted. Where `Identities` holds that user and "unknown" only,
`NeverDeletesSelf` follows (`SelfIsKept`). The
invariant `Guarded` follows a call of `user` from its guard to its commit: past the guard
a deletion is of somebody else than was reported, and all commands of its plan are *harmless*:
no delete at or above another user's path, and no set so short that it could replace something
above. `UserScopes` shows this of what the renderer makes of any arguments, `PlannedDeletes`
and `PlannedSets` of what the planner makes of that, on any tree it may have read.

**Assumptions.** The theorems rest on the named assumptions of their modules only:
`SessionAssumption`, `DeployAssumption`, `ReadingAssumption`, `DeviceAssumption` (the
grammar is one), `OperationAssumption` (what `config` is asked for are trees),
`ArgumentAssumption` (so is what arguments hold, at a path of words), `CallAssumption` (a
call has the arguments of its signature), `TokenAssumption`, `NameAssumption` (the names
in the tables of `_render.py` are strings), `RepositoriesAssumption` (a repository has the
shape that the API shows), `MaxFaultsAssumption` and `PageSizeAssumption`. TLC evaluates them in the runs.

**Only model-checked.**

- Liveness (`EveryRunEnds`, `StartedRunIsCleanedUp`, `EventuallyMetAndSaved`,
  `EventuallyMet`), as fairness is out of the prover's reach.
- `PlanIsWalk`: `TreeWalk` is recursive, as the code is, and what a recursion computes
  for every tree would need induction over data.

## 5. What the models leave out

- output: quoting, suppression of secrets, log contents, wording of errors, and the
  reports of the settings script (no property here is about text);
- duplicates and order of leaf values: setting a value twice is setting it once;
- the order in which rule scopes are planned: no rule depends on another;
- what `config` refuses of its own arguments before it reads anything (a `present=False`
  with values or `replace`, a path or tree that does not normalize): nothing has
  happened by then;
- tokens are classes (accepted, refused, digits of either kind), not text;
- VyOS' own validation beyond the shape of the tree, the routes' need of a body
  and the like;
- a commit that succeeds while `commit` hangs, and the controller's own time limits;
- looking up the token and the HTTP layer of the settings script: a call succeeds,
  fails, or loses its answer;
- that the update of a ruleset drops rules of types that are not managed is in the
  model, and not a property: no document says otherwise;
- staged files after a command *before* the script failed: the documentation
  accepts this residual, and the model has the behaviour.

## 6. Not modelled

- **Release validation and workflows** (`validate_release.py`, `release.yml`): one
  pass over the names and metadata files of built archives, without state or
  order; the workflows are orchestrated by a hosted service.
- **Integration and appliance test tooling**: builds and drives a VyOS virtual
  machine. It was read for what the device does; it is no part of the program.

## 7. What could come next

- An abstract run (commit all or a part, save or not, report) that
  `ConfigSession` implements, so that `ConfigOperation` and `SavedState` can be
  composed with it in place of their short sessions.
