----------------------- MODULE RepositorySettingsProofs -----------------------
(* What the settings script promises, for any manifests, any repository, any *)
(* edits and any number of overlapping runs that may be cut short anywhere.  *)
(*                                                                           *)
(* WritesLate: a run has written only where it is carrying out its plan or   *)
(* has ended since, as every ConfigError is raised before that.              *)
(*                                                                           *)
(* SettingsInv follows each run: what its plan has to do with its manifest   *)
(* (Plans), what it has found of the rulesets (Knows, Certain), and that     *)
(* whatever is not as the manifest says is still to be read or to be done    *)
(* (Covers), with nothing to be done that was not missing (Needs).           *)
EXTENDS RepositorySettings, SequenceTheorems, FiniteSetTheorems, TLAPS

\* What the proofs need of the state of a run.
Tracked == {"pc", "mode", "manifest", "changes", "toggles", "listed", "details",
            "wrote", "disturbed", "blind"}

Late(s) ==
  /\ DOMAIN s = Tracked
  /\ s = [k \in Tracked |-> s[k]]
  /\ s.wrote \in BOOLEAN
  /\ s.wrote => s.pc \in {"apply", "done", "failed"}

\* Reads, plans and refusals come first, writes last.
WritesLate ==
  /\ run = [r \in Runs |-> run[r]]
  /\ \A r \in Runs : Late(run[r])

-----------------------------------------------------------------------------
\* A step that gives run r a state of this kind keeps the invariant.
LEMMA StepOfRun ==
  ASSUME WritesLate, NEW r \in Runs, NEW s, Late(s), run' = [run EXCEPT ![r] = s]
  PROVE  WritesLate'
  <1>1. \A x \in Runs : run'[x] = IF x = r THEN s ELSE run[x]
    BY DEF WritesLate
  <1>2. run' = [x \in Runs |-> run'[x]]
    BY DEF WritesLate
  <1> QED
    BY <1>1, <1>2 DEF WritesLate

\* A run that has not written yet may go anywhere.
LEMMA ReadsLate ==
  ASSUME WritesLate, NEW r \in Runs, NEW pc, NEW changes, Reads(r, pc, changes),
         run[r].wrote => pc \in {"done", "failed"}
  PROVE  WritesLate'
  <1> DEFINE s == [run[r] EXCEPT !.pc = pc, !.changes = @ \o changes]
  <1>1. run' = [run EXCEPT ![r] = s]
    BY DEF Reads, WritesLate, Late, Tracked
  <1>2. Late(s)
    BY DEF WritesLate, Late, Tracked
  <1> QED
    BY <1>1, <1>2, StepOfRun

\* A run that starts has everything before it.
LEMMA StartLate ==
  ASSUME WritesLate, NEW r \in Runs, NEW mode, NEW m, Start(r, mode, m)
  PROVE  WritesLate'
  <1> DEFINE s == [Idle EXCEPT !.mode = mode, !.manifest = m,
                               !.pc = IF ValidManifest(m) THEN "repository" ELSE "refused"]
  <1>1. run' = [run EXCEPT ![r] = s]
    BY DEF Start
  <1>2. Late(s)
    BY DEF Idle, Late, Tracked
  <1> HIDE DEF s
  <1> QED
    BY <1>1, <1>2, StepOfRun

\* Reading the repository and its toggles.
LEMMA ReadingLate ==
  ASSUME WritesLate, NEW r \in Runs, ReadRepository(r) \/ SecurityHidden(r) \/ ReadToggle(r)
  PROVE  WritesLate'
  <1>1. CASE ReadRepository(r)
    <2> DEFINE m == run[r].manifest
               s == [run[r] EXCEPT !.pc = IF AlertsConflict(m) THEN "refused" ELSE "toggles",
                                   !.toggles = ToggleOrder(m),
                                   !.changes = PatchChanges(m, repo) \o AdvancedChanges(m, repo)]
    <2>1. run' = [run EXCEPT ![r] = s]
      BY <1>1 DEF ReadRepository, WritesLate, Late, Tracked
    <2>2. Late(s)
      BY <1>1 DEF ReadRepository, WritesLate, Late, Tracked
    <2> HIDE DEF s
    <2> QED
      BY <2>1, <2>2, StepOfRun
  <1>2. CASE ReadToggle(r)
    <2> DEFINE head == Head(run[r].toggles)
               s == [run[r] EXCEPT
                       !.toggles = Tail(@),
                       !.changes = @ \o ToggleChanges(run[r].manifest, head, repo.toggles[head])]
    <2>1. run' = [run EXCEPT ![r] = s]
      BY <1>2 DEF ReadToggle, PlanToggle, WritesLate, Late, Tracked
    <2>2. Late(s)
      BY DEF WritesLate, Late, Tracked
    <2> HIDE DEF s
    <2> QED
      BY <2>1, <2>2, StepOfRun
  <1>3. CASE SecurityHidden(r)
    <2> DEFINE m    == run[r].manifest
               seen == [repo EXCEPT !.advanced = FALSE]
               s == [run[r] EXCEPT !.pc = IF AlertsConflict(m) THEN "refused" ELSE "toggles",
                                   !.toggles = ToggleOrder(m), !.blind = TRUE,
                                   !.changes = PatchChanges(m, seen) \o AdvancedChanges(m, seen)]
    <2>1. run' = [run EXCEPT ![r] = s]
      BY <1>3 DEF SecurityHidden, WritesLate, Late, Tracked
    <2>2. Late(s)
      BY <1>3 DEF SecurityHidden, WritesLate, Late, Tracked
    <2> HIDE DEF s
    <2> QED
      BY <2>1, <2>2, StepOfRun
  <1> QED
    BY <1>1, <1>2, <1>3

\* A 404 that hides something.
LEMMA HiddenLate ==
  ASSUME WritesLate, NEW r \in Runs, Hidden(r)
  PROVE  WritesLate'
  <1> DEFINE head == Head(run[r].toggles)
             s == [run[r] EXCEPT
                     !.toggles = Tail(@), !.blind = TRUE,
                     !.changes = @ \o ToggleChanges(run[r].manifest, head, FALSE)]
             t == [run[r] EXCEPT !.pc = "branch", !.blind = TRUE,
                                 !.changes = @ \o PagesChanges(run[r].manifest, {})]
  <1>1. \/ run' = [run EXCEPT ![r] = s]
        \/ run[r].pc = "pages" /\ run' = [run EXCEPT ![r] = t]
    <2>1. CASE run' = [run EXCEPT
             ![r].toggles = Tail(@), ![r].blind = TRUE,
             ![r].changes = @ \o ToggleChanges(run[r].manifest, head, FALSE)]
      BY <2>1 DEF WritesLate, Late, Tracked
    <2>2. CASE /\ run[r].pc = "pages"
               /\ run' = [run EXCEPT ![r].pc = "branch", ![r].blind = TRUE,
                              ![r].changes = @ \o PagesChanges(run[r].manifest, {})]
      BY <2>2 DEF WritesLate, Late, Tracked
    <2> HIDE DEF s, t
    <2> QED
      BY <2>1, <2>2 DEF Hidden
  <1>2. Late(s) /\ (run[r].pc = "pages" => Late(t))
    BY DEF WritesLate, Late, Tracked
  <1> HIDE DEF s, t
  <1> QED
    BY <1>1, <1>2, StepOfRun

\* Building the payloads, where the last errors of a manifest show.
LEMMA BuildRulesetLate ==
  ASSUME WritesLate, NEW r \in Runs, NEW target \in Targets, BuildRuleset(r, target)
  PROVE  WritesLate'
  <1>1. ~run[r].wrote
    BY DEF BuildRuleset, WritesLate, Late, Targets
  <1>2. \E pc, changes : Reads(r, pc, changes)
    BY DEF BuildRuleset, Ends
  <1> QED
    BY <1>1, <1>2, ReadsLate

\* The list of rulesets, and each of them.
LEMMA RulesetsLate ==
  ASSUME WritesLate, NEW r \in Runs, ListRulesets(r) \/ GetRuleset(r)
  PROVE  WritesLate'
  <1>1. ~run[r].wrote
    BY DEF ListRulesets, GetRuleset, WritesLate, Late
  <1>2. ASSUME NEW listed, run' = [run EXCEPT ![r].pc = "details", ![r].listed = listed]
        PROVE  WritesLate'
    <2> DEFINE s == [run[r] EXCEPT !.pc = "details", !.listed = listed]
    <2>1. run' = [run EXCEPT ![r] = s] /\ Late(s)
      BY <1>1, <1>2 DEF WritesLate, Late, Tracked
    <2> HIDE DEF s
    <2> QED
      BY <2>1, StepOfRun
  <1>3. ASSUME NEW id, NEW key, NEW detail,
               run' = [run EXCEPT ![r].listed = Restrict(@, DOMAIN @ \ {id}),
                                  ![r].details = Put(@, key, detail)]
        PROVE  WritesLate'
    <2> DEFINE s == [run[r] EXCEPT !.listed = Restrict(@, DOMAIN @ \ {id}),
                                   !.details = Put(@, key, detail)]
    <2>1. run' = [run EXCEPT ![r] = s] /\ Late(s)
      BY <1>1, <1>3 DEF WritesLate, Late, Tracked
    <2> HIDE DEF s
    <2> QED
      BY <2>1, StepOfRun
  <1>4. ASSUME NEW pc, Ends(r, pc)
        PROVE  WritesLate'
    BY <1>1, <1>4, ReadsLate DEF Ends
  <1>5. CASE ListRulesets(r)
    BY <1>2, <1>5 DEF ListRulesets
  <1>6. CASE GetRuleset(r)
    BY <1>3, <1>4, <1>6 DEF GetRuleset
  <1> QED
    BY <1>5, <1>6

\* What is left of the steps that only read, and the last ones of apply.
LEMMA EndingLate ==
  ASSUME WritesLate, NEW r \in Runs,
         \/ TogglesRead(r) \/ ReadPages(r) \/ PlanRulesets(r)
         \/ ChangeRefused(r) \/ Report(r)
  PROVE  WritesLate'
  <1>1. run[r].wrote => run[r].pc \in {"apply", "done", "failed"}
    BY DEF WritesLate, Late
  <1>2. CASE TogglesRead(r) \/ ReadPages(r) \/ PlanRulesets(r)
    BY <1>1, <1>2, ReadsLate DEF TogglesRead, ReadPages, PlanRulesets
  <1>3. CASE ChangeRefused(r) \/ Report(r)
    BY <1>3, ReadsLate DEF ChangeRefused, Report, Ends
  <1> QED
    BY <1>2, <1>3

\* A write is one of apply, and every other run only learns that it happened.
LEMMA WritesKeepLate ==
  ASSUME WritesLate, NEW r \in Runs, NEW pc \in {"apply", "failed"}, Writes(r, pc)
  PROVE  WritesLate'
  <1> DEFINE s == [run[r] EXCEPT !.pc = pc, !.wrote = TRUE, !.changes = Remaining(@)]
             other(x) == [run[x] EXCEPT !.disturbed = TRUE]
  <1>1. Late(s)
    BY DEF WritesLate, Late, Tracked
  <1>2. \A x \in Runs : Late(other(x))
    BY DEF WritesLate, Late, Tracked
  <1>3. run' = [x \in Runs |-> IF x = r THEN s ELSE other(x)]
    BY DEF Writes
  <1> HIDE DEF s, other
  <1> QED
    BY <1>1, <1>2, <1>3 DEF WritesLate

\* What fails, and what others do.
LEMMA FaultsLate ==
  ASSUME WritesLate, Edit \/ \E r \in Runs : CallFails(r)
  PROVE  WritesLate'
  <1>1. ASSUME NEW r \in Runs, CallFails(r)
        PROVE  WritesLate'
    <2> DEFINE s == [run[r] EXCEPT !.pc = "failed"]
    <2>1. run' = [run EXCEPT ![r] = s] /\ Late(s)
      BY <1>1 DEF CallFails, WritesLate, Late, Tracked
    <2> HIDE DEF s
    <2> QED
      BY <2>1, StepOfRun
  <1>2. CASE Edit
    <2> DEFINE other(x) == [run[x] EXCEPT !.disturbed = TRUE]
    <2>1. \A x \in Runs : Late(other(x))
      BY DEF WritesLate, Late, Tracked
    <2>2. run' = [x \in Runs |-> other(x)]
      BY <1>2 DEF Edit
    <2> HIDE DEF other
    <2> QED
      BY <2>1, <2>2 DEF WritesLate
  <1> QED
    BY <1>1, <1>2

-----------------------------------------------------------------------------
LEMMA StepsLate ==
  ASSUME WritesLate, [Next]_vars
  PROVE  WritesLate'
  <1>1. ASSUME NEW r \in Runs, NEW mode, NEW m, Start(r, mode, m) PROVE WritesLate'
    BY <1>1, StartLate
  <1>2. ASSUME NEW r \in Runs, ScriptStep(r) PROVE WritesLate'
    BY <1>2, ReadingLate, BuildRulesetLate, RulesetsLate, EndingLate, WritesKeepLate
       DEF ScriptStep, Targets, ApplyChange
  <1>3. ASSUME NEW r \in Runs, AnswerLost(r) PROVE WritesLate'
    BY <1>3, WritesKeepLate DEF AnswerLost
  <1>4. ASSUME NEW r \in Runs, Hidden(r) \/ SecurityHidden(r) PROVE WritesLate'
    BY <1>4, HiddenLate, ReadingLate
  <1>5. ASSUME Edit \/ \E r \in Runs : CallFails(r) PROVE WritesLate'
    BY <1>5, FaultsLate
  <1>6. CASE UNCHANGED vars
    BY <1>6 DEF vars, WritesLate, Late
  <1> QED
    BY <1>1, <1>2, <1>3, <1>4, <1>5, <1>6 DEF Next

\* Where an error of the manifest ends a run, whichever it is and wherever it
\* is found, that run has made no call that writes.
THEOREM RefusalsAreClean == Spec => []RefusedWroteNothing
  <1>1. Init => WritesLate
    <2>1. Late(Idle)
      BY DEF Idle, Late, Tracked
    <2> QED
      BY <2>1 DEF Init, WritesLate
  <1>2. WritesLate /\ [Next]_vars => WritesLate'
    BY StepsLate
  <1>3. WritesLate => RefusedWroteNothing
    BY DEF WritesLate, Late, RefusedWroteNothing
  <1> QED
    BY <1>1, <1>2, <1>3, PTL DEF Spec

-----------------------------------------------------------------------------
(* What a plan may hold, and what a run knows of the rulesets.               *)

KeyOf(m, target) == <<RulesetName(m, target), target>>

\* The repository's own rulesets of a name and target.
Own(state, key) ==
  {id \in DOMAIN state.rulesets : /\ RulesetKey(state.rulesets[id]) = key
                                  /\ state.rulesets[id].source = "Repository"}

RulesetChange(c) == c.kind \in {"create_ruleset", "update_ruleset"}

\* A change that manifest m can be the reason for.
IsChange(c, m) ==
  LET site == BuildPagesState(m)
  IN  \/ /\ c.kind = "patch_repository"
         /\ DOMAIN c.payload \subseteq Fields \cap DOMAIN m.repository
         /\ \A f \in DOMAIN c.payload : c.payload[f] = m.repository[f]
      \/ /\ c.kind = "patch_security"
         /\ Key(m.security, "advanced_security")
         /\ c.enabled = m.security["advanced_security"]
      \/ /\ c.kind = "toggle"
         /\ Key(ToggleDesired(m), c.toggle)
         /\ c.enabled = ToggleDesired(m)[c.toggle]
      \/ /\ c.kind = "create_pages"
         /\ DOMAIN m.pages # {}
         /\ c.create = site["build_type"]
         /\ c.update = Restrict(site, DOMAIN site \ {"build_type"})
      \/ /\ c.kind = "update_pages"
         /\ DOMAIN m.pages # {}
         /\ DOMAIN c.payload \subseteq DOMAIN site
         /\ \A k \in DOMAIN c.payload : c.payload[k] = site[k]
      \/ /\ RulesetChange(c)
         /\ \E target \in Targets : c.payload = BuildRulesetPayload(m, target)

IsPlan(q, m) == q \in Seq(Range(q)) /\ \A c \in Range(q) : IsChange(c, m)

\* One change at most for the ruleset of a target.
Once(q) ==
  \A i, j \in DOMAIN q :
    /\ RulesetChange(q[i]) /\ RulesetChange(q[j])
    /\ q[i].payload.target = q[j].payload.target
    => i = j

Listing == {"repository", "toggles", "pages", "branch", "tag", "list"}
Reading == Listing \cup {"details"}

\* The plan of a run, whatever happens to the repository.
Plans(s) ==
  /\ IsPlan(s.changes, s.manifest) /\ Once(s.changes)
  /\ s.toggles \in Seq(DOMAIN ToggleDesired(s.manifest))
  /\ s.pc \in {"pages", "branch", "tag", "list", "details", "apply", "done"} => s.toggles = <<>>
  /\ s.pc = "pages" => DOMAIN s.manifest.pages # {}
  /\ s.pc \in Reading => \A c \in Range(s.changes) : ~RulesetChange(c)
  /\ s.pc \in Listing => DOMAIN s.details = {}
  /\ s.pc = "apply" => s.mode = "apply"
  /\ s.pc = "done" /\ s.mode = "apply" => s.changes = <<>>

\* A run that nobody has interfered with has the rulesets as they are.
Knows(s, state) ==
  /\ s.pc = "details" =>
       /\ \A id \in DOMAIN s.listed :
            s.listed[id] \in ManagedKeys(s.manifest) /\ id \in Own(state, s.listed[id])
       /\ \A key \in DOMAIN s.details :
            /\ s.details[key].id \in Own(state, key)
            /\ s.details[key].is = Payload(state.rulesets[s.details[key].id])
  /\ \A c \in Range(s.changes) :
       c.kind = "update_ruleset" => c.id \in Own(state, RulesetKey(c.payload))

\* It has found every ruleset of a managed key, and one of each at most.
Certain(s, state) ==
  /\ s.pc = "details" =>
       \A target \in Targets :
         LET key == KeyOf(s.manifest, target)
         IN  \A id \in Own(state, key) :
               \/ Key(s.listed, id) /\ s.listed[id] = key
               \/ Key(s.details, key) /\ s.details[key].id = id
  /\ \A c \in Range(s.changes) :
       /\ c.kind = "create_ruleset" => Own(state, RulesetKey(c.payload)) = {}
       /\ c.kind = "update_ruleset" => Own(state, RulesetKey(c.payload)) \subseteq {c.id}
  /\ s.pc \in {"apply", "done"} \/ s.wrote =>
       \A target \in Targets : \E id : Own(state, KeyOf(s.manifest, target)) \subseteq {id}

-----------------------------------------------------------------------------
(* What a plan has to do with the manifest.                                  *)

RulesetMet(state, m, target) ==
  \E id \in Own(state, KeyOf(m, target)) :
    /\ Own(state, KeyOf(m, target)) = {id}
    /\ RulesetMeets(m, target, state.rulesets[id])

FieldsCovered(s, state) ==
  \A f \in Fields \cap DOMAIN s.manifest.repository :
    \/ state.fields[f] = s.manifest.repository[f]
    \/ \E c \in Range(s.changes) : c.kind = "patch_repository" /\ f \in DOMAIN c.payload

AdvancedCovered(s, state) ==
  \/ state.private => Get(s.manifest.security, "advanced_security", state.advanced) = state.advanced
  \/ \E c \in Range(s.changes) : c.kind = "patch_security"

TogglesCovered(s, state) ==
  \A t \in DOMAIN ToggleDesired(s.manifest) :
    \/ state.toggles[t] = ToggleDesired(s.manifest)[t]
    \/ \E c \in Range(s.changes) : c.kind = "toggle" /\ c.toggle = t
    \/ t \in Range(s.toggles)

PagesCovered(s, state) ==
  LET desired == BuildPagesState(s.manifest)
  IN  DOMAIN s.manifest.pages # {} =>
        \/ \E c \in Range(s.changes) : c.kind = "create_pages"
        \/ \E site \in state.pages : \A k \in DOMAIN desired :
             \/ site[k] = desired[k]
             \/ \E c \in Range(s.changes) : c.kind = "update_pages" /\ k \in DOMAIN c.payload

RulesetsCovered(s, state) ==
  \A target \in Targets :
    \/ RulesetMet(state, s.manifest, target)
    \/ \E c \in Range(s.changes) : RulesetChange(c) /\ c.payload.target = target

\* All that the manifest sets and the repository does not have is in the plan,
\* or still to be looked at.
Covers(s, state) ==
  /\ s.pc \in (Reading \ {"repository"}) \cup {"apply", "done"} =>
       FieldsCovered(s, state) /\ AdvancedCovered(s, state) /\ TogglesCovered(s, state)
  /\ s.pc \in {"branch", "tag", "list", "details", "apply", "done"} => PagesCovered(s, state)
  /\ s.pc \in {"apply", "done"} => RulesetsCovered(s, state)

\* What a change is for is not as the manifest says.
Needed(c, m, state) ==
  /\ c.kind = "patch_repository" =>
       \E f \in Fields \cap DOMAIN m.repository : state.fields[f] # m.repository[f]
  /\ c.kind = "patch_security" => state.private /\ state.advanced # m.security["advanced_security"]
  /\ c.kind = "toggle" => state.toggles[c.toggle] # ToggleDesired(m)[c.toggle]
  /\ c.kind \in {"create_pages", "update_pages"} =>
       ~\E site \in state.pages :
          \A k \in DOMAIN BuildPagesState(m) : site[k] = BuildPagesState(m)[k]
  /\ RulesetChange(c) => ~RulesetMet(state, m, c.payload.target)

Needs(s, state) == \A c \in Range(s.changes) : Needed(c, s.manifest, state)

OnePage == Cardinality(DOMAIN repo.rulesets) <= PageSize

\* What holds of a run.  The rulesets it has found are certain where they are on
\* one page, and stay so for a run alone with edits that add none (solo) even
\* when its own reads are stale.
RunInv(s, state, paged, solo) ==
  /\ Plans(s)
  /\ s.pc # "idle" => s.manifest \in Manifests
  /\ ~s.disturbed => Knows(s, state)
  /\ paged /\ (solo \/ ~s.disturbed) => Certain(s, state)
  /\ paged /\ ~s.disturbed /\ ~s.blind => Covers(s, state) /\ (~s.wrote => Needs(s, state))

-----------------------------------------------------------------------------
(* Tables, sequences and plans.                                              *)

LEMMA OverIs ==
  ASSUME NEW f, NEW g
  PROVE  /\ DOMAIN Over(f, g) = DOMAIN f \cup DOMAIN g
         /\ \A k \in DOMAIN f : Over(f, g)[k] = f[k]
         /\ \A k \in DOMAIN g \ DOMAIN f : Over(f, g)[k] = g[k]
  BY DEF Over

LEMMA RestrictIs ==
  ASSUME NEW f, NEW S
  PROVE  DOMAIN Restrict(f, S) = S /\ \A k \in S : Restrict(f, S)[k] = f[k]
  BY DEF Restrict

LEMMA EmptyPlan ==
  ASSUME NEW m
  PROVE  IsPlan(<<>>, m) /\ Range(<<>>) = {} /\ Once(<<>>)
  BY DEF IsPlan, Range, Once

LEMMA SinglePlan ==
  ASSUME NEW m, NEW c, IsChange(c, m)
  PROVE  IsPlan(<<c>>, m) /\ Range(<<c>>) = {c} /\ Once(<<c>>)
  <1>1. Range(<<c>>) = {c} /\ <<c>> \in Seq({c})
    BY DEF Range
  <1> QED
    BY <1>1 DEF IsPlan, Once

\* What is appended to a plan is in it, and nothing else is new.
LEMMA LongerPlan ==
  ASSUME NEW m, NEW p, NEW q, IsPlan(p, m), IsPlan(q, m)
  PROVE  /\ IsPlan(p \o q, m)
         /\ Range(p \o q) = Range(p) \cup Range(q)
         /\ Once(q) /\ (\A c \in Range(p) : ~RulesetChange(c)) => Once(p \o q)
  <1> DEFINE S == Range(p) \cup Range(q)
  <1>1. p \in Seq(S) /\ q \in Seq(S)
    BY SeqMonotonic DEF IsPlan
  <1>2. Range(p \o q) = S
    BY <1>1, RangeConcatenation
  <1>3. p \o q \in Seq(S)
    BY <1>1, ConcatProperties
  <1>4. IsPlan(p \o q, m)
    BY <1>2, <1>3 DEF IsPlan
  <1>5. ASSUME Once(q), \A c \in Range(p) : ~RulesetChange(c) PROVE Once(p \o q)
    <2> SUFFICES ASSUME NEW i \in DOMAIN (p \o q), NEW j \in DOMAIN (p \o q),
                        RulesetChange((p \o q)[i]), RulesetChange((p \o q)[j]),
                        (p \o q)[i].payload.target = (p \o q)[j].payload.target
                 PROVE  i = j
      BY DEF Once
    <2>1. /\ Len(p) \in Nat /\ Len(q) \in Nat
          /\ DOMAIN p = 1..Len(p) /\ DOMAIN q = 1..Len(q)
          /\ DOMAIN (p \o q) = 1..(Len(p) + Len(q))
      BY <1>1, <1>3, ConcatProperties, LenProperties
    <2>2. \A k \in 1..Len(p) + Len(q) :
            (p \o q)[k] = IF k <= Len(p) THEN p[k] ELSE q[k - Len(p)]
      BY <1>1, ConcatProperties
    <2>3. \A k \in DOMAIN p : ~RulesetChange(p[k])
      BY <1>5 DEF Range
    <2>4. i > Len(p) /\ j > Len(p)
      BY <2>1, <2>2, <2>3
    <2>5. q[i - Len(p)] = (p \o q)[i] /\ q[j - Len(p)] = (p \o q)[j]
      BY <2>1, <2>2, <2>4
    <2>6. i - Len(p) \in DOMAIN q /\ j - Len(p) \in DOMAIN q
      BY <2>1, <2>4
    <2>7. i - Len(p) = j - Len(p)
      BY <1>5, <2>5, <2>6 DEF Once
    <2> QED
      BY <2>1, <2>4, <2>7
  <1> QED
    BY <1>2, <1>4, <1>5

\* The first change of a plan and the others.
LEMMA RestOfPlan ==
  ASSUME NEW m, NEW q, IsPlan(q, m), Once(q), q # <<>>
  PROVE  /\ Head(q) \in Range(q) /\ IsChange(Head(q), m)
         /\ IsPlan(Tail(q), m) /\ Once(Tail(q))
         /\ Range(q) = {Head(q)} \cup Range(Tail(q))
         /\ \A c \in Range(Tail(q)) :
              RulesetChange(Head(q)) /\ RulesetChange(c)
                => c.payload.target # Head(q).payload.target
  <1> DEFINE S == Range(q)
             t == Tail(q)
  <1>1. /\ Len(q) \in Nat \ {0} /\ DOMAIN q = 1..Len(q)
        /\ t \in Seq(S) /\ Len(t) = Len(q) - 1 /\ DOMAIN t = 1..Len(t)
        /\ \A i \in 1..Len(t) : t[i] = q[i + 1]
    BY HeadTailProperties, LenProperties, EmptySeq DEF IsPlan
  <1>2. Head(q) = q[1]
    BY DEF IsPlan
  <1> HIDE DEF t
  <1>3. Range(t) \subseteq S /\ t \in Seq(Range(t))
    BY <1>1, RangeOfSeq, SeqOfRange
  <1>4. IsPlan(t, m)
    BY <1>3 DEF IsPlan
  <1>5. Range(q) = {Head(q)} \cup Range(t)
    <2>1. ASSUME NEW i \in DOMAIN q PROVE q[i] \in {Head(q)} \cup Range(t)
      <3>1. CASE i = 1
        BY <1>2, <3>1
      <3>2. CASE i # 1
        <4>1. i - 1 \in DOMAIN t /\ t[i - 1] = q[i]
          BY <1>1, <3>2
        <4> QED
          BY <4>1 DEF Range
      <3> QED
        BY <3>1, <3>2
    <2>2. Head(q) \in Range(q)
      <3>1. 1 \in DOMAIN q
        BY <1>1
      <3> QED
        BY <1>2, <3>1 DEF Range
    <2> QED
      BY <1>3, <2>1, <2>2 DEF Range
  <1>6. Once(t)
    <2> SUFFICES ASSUME NEW i \in DOMAIN t, NEW j \in DOMAIN t,
                        RulesetChange(t[i]), RulesetChange(t[j]),
                        t[i].payload.target = t[j].payload.target
                 PROVE  i = j
      BY DEF Once
    <2>1. i + 1 \in DOMAIN q /\ j + 1 \in DOMAIN q /\ t[i] = q[i + 1] /\ t[j] = q[j + 1]
      BY <1>1
    <2>2. i + 1 = j + 1
      BY <2>1 DEF Once
    <2> QED
      BY <1>1, <2>2
  <1>7. ASSUME NEW c \in Range(t), RulesetChange(Head(q)), RulesetChange(c),
               c.payload.target = Head(q).payload.target
        PROVE  FALSE
    <2>1. PICK i \in DOMAIN t : t[i] = c
      BY DEF Range
    <2>2. i + 1 \in DOMAIN q /\ q[i + 1] = c /\ i + 1 # 1 /\ 1 \in DOMAIN q
      BY <1>1, <2>1
    <2> QED
      BY <1>2, <1>7, <2>2 DEF Once
  <1> QED
    BY <1>4, <1>5, <1>6, <1>7 DEF t, IsPlan

-----------------------------------------------------------------------------
(* What a ruleset is compared with.                                          *)

PayloadKeys == {"name", "target", "enforcement", "bypass_actors", "include", "exclude", "rules"}

LEMMA PayloadIs ==
  ASSUME NEW m, NEW target
  PROVE  LET payload == BuildRulesetPayload(m, target)
         IN  /\ DOMAIN payload = PayloadKeys
             /\ payload = [k \in PayloadKeys |-> payload[k]]
             /\ payload.target = target
             /\ RulesetKey(payload) = KeyOf(m, target)
             /\ payload.enforcement = Get(RulesetConfig(m, target), "enforcement", "active")
             /\ payload.bypass_actors = ResolveBypassActors(m, target)
             /\ payload.include = {IF target = "branch" THEN "~DEFAULT_BRANCH" ELSE "~ALL"}
             /\ payload.exclude = {}
             /\ payload.rules = BuildRules(m, target)
  BY DEF BuildRulesetPayload, PayloadKeys, RulesetKey, KeyOf

\* The rules a manifest asks for, type by type.
LEMMA BuiltRules ==
  ASSUME NEW m, NEW target \in Targets
  PROVE  LET rules  == BuildRules(m, target)
             cfg    == RulesetConfig(m, target)
             checks == StatusChecks(m, target)
         IN  /\ \A k \in DOMAIN RuleOf : RuleOf[k] \in DOMAIN rules <=> On(cfg, k)
             /\ "update" \in DOMAIN rules <=> On(cfg, "restrict_updates")
             /\ "update" \in DOMAIN rules =>
                  rules["update"] = [update_allows_fetch_and_merge |->
                                       On(cfg, "update_allows_fetch_and_merge")]
             /\ "pull_request" \in DOMAIN rules <=> WantsPullRequest(m, target)
             /\ "pull_request" \in DOMAIN rules =>
                  rules["pull_request"] =
                    Over([allowed_merge_methods |-> AllowedMergeMethods(m)],
                         Over(Get(cfg, "pull_request", <<>>), PullRequestDefaults))
             /\ "required_status_checks" \in DOMAIN rules <=> Contexts(m, target) # {}
             /\ "required_status_checks" \in DOMAIN rules =>
                  rules["required_status_checks"] =
                    [required_status_checks |-> Contexts(m, target),
                     do_not_enforce_on_create |-> On(checks, "do_not_enforce_on_create"),
                     strict_required_status_checks_policy |->
                       On(checks, "strict_required_status_checks_policy")]
  <1> DEFINE rules  == BuildRules(m, target)
             cfg    == RulesetConfig(m, target)
             checks == StatusChecks(m, target)
             plain  == {RuleOf[k] : k \in {s \in DOMAIN RuleOf : On(cfg, s)}}
             update == {t \in {"update"} : On(cfg, "restrict_updates")}
             review == {t \in {"pull_request"} : WantsPullRequest(m, target)}
             status == {t \in {"required_status_checks"} : Contexts(m, target) # {}}
             reviewed == Over([allowed_merge_methods |-> AllowedMergeMethods(m)],
                              Over(Get(cfg, "pull_request", <<>>), PullRequestDefaults))
             checked == [required_status_checks |-> Contexts(m, target),
                         do_not_enforce_on_create |-> On(checks, "do_not_enforce_on_create"),
                         strict_required_status_checks_policy |->
                           On(checks, "strict_required_status_checks_policy")]
             updated == [update_allows_fetch_and_merge |-> On(cfg, "update_allows_fetch_and_merge")]
             rule(type) == CASE type \in plain  -> <<>>
                             [] type \in update -> updated
                             [] type \in review -> reviewed
                             [] type \in status -> checked
  <1>1. rules = [type \in plain \cup update \cup review \cup status |-> rule(type)]
    BY DEF BuildRules
  <1>2. /\ \A k \in DOMAIN RuleOf : RuleOf[k] \in plain <=> On(cfg, k)
        /\ plain \cap {"update", "pull_request", "required_status_checks"} = {}
    BY DEF RuleOf
  <1>3. \A k \in DOMAIN RuleOf : RuleOf[k] \notin {"update", "pull_request", "required_status_checks"}
    BY DEF RuleOf
  <1>4. /\ "update" \in update => rule("update") = updated
        /\ "pull_request" \in review => rule("pull_request") = reviewed
        /\ "required_status_checks" \in status => rule("required_status_checks") = checked
    <2> HIDE DEF plain, updated, reviewed, checked
    <2>1. ASSUME "update" \in update PROVE rule("update") = updated
      BY <1>2, <2>1
    <2>2. ASSUME "pull_request" \in review PROVE rule("pull_request") = reviewed
      BY <1>2, <2>2
    <2>3. ASSUME "required_status_checks" \in status
          PROVE  rule("required_status_checks") = checked
      BY <1>2, <2>3
    <2> QED
      BY <2>1, <2>2, <2>3
  <1> HIDE DEF rules, rule, plain, updated, reviewed, checked
  <1>5. \A k \in DOMAIN RuleOf : RuleOf[k] \in DOMAIN rules <=> On(cfg, k)
    BY <1>1, <1>2, <1>3
  <1>6. /\ "update" \in DOMAIN rules <=> On(cfg, "restrict_updates")
        /\ "update" \in DOMAIN rules => rules["update"] = updated
    BY <1>1, <1>2, <1>4
  <1>7. /\ "pull_request" \in DOMAIN rules <=> WantsPullRequest(m, target)
        /\ "pull_request" \in DOMAIN rules => rules["pull_request"] = reviewed
    BY <1>1, <1>2, <1>4
  <1>8. /\ "required_status_checks" \in DOMAIN rules <=> Contexts(m, target) # {}
        /\ "required_status_checks" \in DOMAIN rules => rules["required_status_checks"] = checked
    BY <1>1, <1>2, <1>4
  <1> QED
    BY <1>5, <1>6, <1>7, <1>8 DEF rules, updated, reviewed, checked

\* The parameters that are looked at, type by type.
LEMMA ParametersAre ==
  /\ \A k \in DOMAIN RuleOf : DOMAIN RuleParameters(RuleOf[k]) = {}
  /\ RuleParameters("update") = [update_allows_fetch_and_merge |-> FALSE]
  /\ RuleParameters("pull_request") = Over([allowed_merge_methods |-> {}], PullRequestDefaults)
  /\ RuleParameters("required_status_checks") =
       [required_status_checks |-> {}, do_not_enforce_on_create |-> FALSE,
        strict_required_status_checks_policy |-> FALSE]
  <1>1. \A k \in DOMAIN RuleOf : RuleParameters(RuleOf[k]) = <<>>
    <2>1. \A type : type \notin {"update", "pull_request", "required_status_checks"}
             => RuleParameters(type) = <<>>
      BY DEF RuleParameters
    <2>2. \A k \in DOMAIN RuleOf :
            RuleOf[k] \notin {"update", "pull_request", "required_status_checks"}
      BY DEF RuleOf
    <2> QED
      BY <2>1, <2>2
  <1>2. RuleParameters("update") = [update_allows_fetch_and_merge |-> FALSE]
    BY DEF RuleParameters
  <1>3. RuleParameters("pull_request") = Over([allowed_merge_methods |-> {}], PullRequestDefaults)
    BY DEF RuleParameters
  <1>4. RuleParameters("required_status_checks") =
          [required_status_checks |-> {}, do_not_enforce_on_create |-> FALSE,
           strict_required_status_checks_policy |-> FALSE]
    BY DEF RuleParameters
  <1>5. DOMAIN <<>> = {}
    OBVIOUS
  <1> QED
    BY <1>1, <1>2, <1>3, <1>4, <1>5

LEMMA SameRule ==
  ASSUME NEW type, NEW x, NEW y
  PROVE  NormalizeRule(type, x) = NormalizeRule(type, y)
           <=> \A p \in DOMAIN RuleParameters(type) :
                 Get(x, p, RuleParameters(type)[p]) = Get(y, p, RuleParameters(type)[p])
  <1> DEFINE given(z) == [p \in DOMAIN RuleParameters(type) |-> Get(z, p, RuleParameters(type)[p])]
  <1>1. given(x) = given(y) <=> \A p \in DOMAIN RuleParameters(type) : given(x)[p] = given(y)[p]
    OBVIOUS
  <1>2. \A p \in DOMAIN RuleParameters(type) :
          /\ given(x)[p] = Get(x, p, RuleParameters(type)[p])
          /\ given(y)[p] = Get(y, p, RuleParameters(type)[p])
    OBVIOUS
  <1>3. NormalizeRule(type, x) = given(x) /\ NormalizeRule(type, y) = given(y)
    BY DEF NormalizeRule
  <1> HIDE DEF given
  <1> QED
    BY <1>1, <1>2, <1>3

\* Two rulesets are equal once normalized when they have the same fields and the
\* same rules of the types that are compared.
LEMMA SameNormalized ==
  ASSUME NEW types, NEW x, NEW y,
         x = [k \in PayloadKeys |-> x[k]], y = [k \in PayloadKeys |-> y[k]]
  PROVE  NormalizeRulesetPayload(x, types) = NormalizeRulesetPayload(y, types)
           <=> /\ \A k \in PayloadKeys \ {"rules"} : x[k] = y[k]
               /\ \A type \in types :
                    /\ type \in DOMAIN x.rules <=> type \in DOMAIN y.rules
                    /\ type \in DOMAIN x.rules =>
                         NormalizeRule(type, x.rules[type]) = NormalizeRule(type, y.rules[type])
  <1> DEFINE rules(z) == [type \in types \cap DOMAIN z.rules |-> NormalizeRule(type, z.rules[type])]
             normal(z) == [k \in PayloadKeys |-> IF k = "rules" THEN rules(z) ELSE z[k]]
  <1>1. NormalizeRulesetPayload(x, types) = normal(x) /\ NormalizeRulesetPayload(y, types) = normal(y)
    <2>1. ASSUME NEW z, z = [k \in PayloadKeys |-> z[k]]
          PROVE  NormalizeRulesetPayload(z, types) = normal(z)
      <3>1. NormalizeRulesetPayload(z, types) = [z EXCEPT !.rules = rules(z)]
        BY DEF NormalizeRulesetPayload
      <3>2. "rules" \in DOMAIN z /\ DOMAIN z = PayloadKeys
        BY <2>1 DEF PayloadKeys
      <3> HIDE DEF rules
      <3> QED
        BY <3>1, <3>2
    <2> HIDE DEF normal
    <2> QED
      BY <2>1
  <1>2. normal(x) = normal(y) <=> /\ \A k \in PayloadKeys \ {"rules"} : x[k] = y[k]
                                  /\ rules(x) = rules(y)
    <2> HIDE DEF rules
    <2>1. normal(x) = normal(y) <=> \A k \in PayloadKeys : normal(x)[k] = normal(y)[k]
      OBVIOUS
    <2>2. \A k \in PayloadKeys \ {"rules"} : normal(x)[k] = x[k] /\ normal(y)[k] = y[k]
      OBVIOUS
    <2>3. "rules" \in PayloadKeys /\ normal(x)["rules"] = rules(x) /\ normal(y)["rules"] = rules(y)
      BY DEF PayloadKeys
    <2> HIDE DEF normal
    <2> QED
      BY <2>1, <2>2, <2>3
  <1>3. rules(x) = rules(y)
          <=> \A type \in types :
                /\ type \in DOMAIN x.rules <=> type \in DOMAIN y.rules
                /\ type \in DOMAIN x.rules =>
                     NormalizeRule(type, x.rules[type]) = NormalizeRule(type, y.rules[type])
    <2>1. /\ DOMAIN rules(x) = types \cap DOMAIN x.rules
          /\ DOMAIN rules(y) = types \cap DOMAIN y.rules
          /\ \A type \in DOMAIN rules(x) : rules(x)[type] = NormalizeRule(type, x.rules[type])
          /\ \A type \in DOMAIN rules(y) : rules(y)[type] = NormalizeRule(type, y.rules[type])
      OBVIOUS
    <2>2. rules(x) = rules(y) <=> /\ DOMAIN rules(x) = DOMAIN rules(y)
                                  /\ \A type \in DOMAIN rules(x) : rules(x)[type] = rules(y)[type]
      OBVIOUS
    <2> HIDE DEF rules
    <2>3. DOMAIN rules(x) = DOMAIN rules(y)
            <=> \A type \in types : type \in DOMAIN x.rules <=> type \in DOMAIN y.rules
      BY <2>1
    <2> QED
      BY <2>1, <2>2, <2>3
  <1> HIDE DEF normal, rules
  <1> QED
    BY <1>1, <1>2, <1>3

\* Of the types that are compared, each is as the manifest asks for it.
RulesMeet(m, target, rules) ==
  \A type \in ManagedRuleTypes(m, target) :
    /\ type \in DOMAIN rules <=> type \in DOMAIN BuildRules(m, target)
    /\ type \in DOMAIN rules =>
         NormalizeRule(type, rules[type]) = NormalizeRule(type, BuildRules(m, target)[type])

\* What a manifest means for a ruleset, said without the planner, is what the
\* planner compares.
LEMMA MeetsIs ==
  ASSUME NEW m, NEW target \in Targets, NEW is
  PROVE  LET payload == BuildRulesetPayload(m, target)
         IN  RulesetMeets(m, target, is)
               <=> /\ is.enforcement = payload.enforcement
                   /\ is.bypass_actors = payload.bypass_actors
                   /\ is.include = payload.include
                   /\ is.exclude = payload.exclude
                   /\ RulesMeet(m, target, is.rules)
  <1> DEFINE cfg    == RulesetConfig(m, target)
             review == Get(cfg, "pull_request", <<>>)
             checks == StatusChecks(m, target)
             rules  == is.rules
             has    == DOMAIN rules
             built  == BuildRules(m, target)
             same(type) == /\ type \in has <=> type \in DOMAIN built
                           /\ type \in has =>
                                NormalizeRule(type, rules[type]) = NormalizeRule(type, built[type])
             plainMet  == \A k \in DOMAIN RuleOf : RuleOf[k] \in has <=> On(cfg, k)
             updateMet == /\ "update" \in has <=> On(cfg, "restrict_updates")
                          /\ "update" \in has =>
                               Get(rules["update"], "update_allows_fetch_and_merge", FALSE)
                                 = On(cfg, "update_allows_fetch_and_merge")
             reviewMet == /\ "pull_request" \in has <=> On(cfg, "require_pull_request")
                          /\ "pull_request" \in has =>
                               /\ Get(rules["pull_request"], "allowed_merge_methods", {})
                                    = AllowedMergeMethods(m)
                               /\ \A p \in DOMAIN PullRequestDefaults :
                                    Get(rules["pull_request"], p, PullRequestDefaults[p])
                                      = Get(review, p, PullRequestDefaults[p])
             statusMet == /\ ~ChecksEnabled(m, target) => "required_status_checks" \notin has
                          /\ Contexts(m, target) # {} =>
                               /\ "required_status_checks" \in has
                               /\ Get(rules["required_status_checks"], "required_status_checks", {})
                                    = Contexts(m, target)
                               /\ \A p \in {"do_not_enforce_on_create",
                                            "strict_required_status_checks_policy"} :
                                    Get(rules["required_status_checks"], p, FALSE) = On(checks, p)
             bare == ChecksEnabled(m, target) /\ Contexts(m, target) = {}
  <1>1. RulesetMeets(m, target, is)
          <=> /\ is.enforcement = BuildRulesetPayload(m, target).enforcement
              /\ is.bypass_actors = BuildRulesetPayload(m, target).bypass_actors
              /\ is.include = BuildRulesetPayload(m, target).include
              /\ is.exclude = BuildRulesetPayload(m, target).exclude
              /\ plainMet /\ updateMet /\ (target = "branch" => reviewMet) /\ statusMet
    <2>1. RulesetMeets(m, target, is)
            <=> /\ is.enforcement = Get(cfg, "enforcement", "active")
                /\ is.bypass_actors = ResolveBypassActors(m, target)
                /\ is.include = {IF target = "branch" THEN "~DEFAULT_BRANCH" ELSE "~ALL"}
                /\ is.exclude = {}
                /\ plainMet /\ updateMet /\ (target = "branch" => reviewMet) /\ statusMet
      BY DEF RulesetMeets
    <2>2. /\ BuildRulesetPayload(m, target).enforcement = Get(cfg, "enforcement", "active")
          /\ BuildRulesetPayload(m, target).bypass_actors = ResolveBypassActors(m, target)
          /\ BuildRulesetPayload(m, target).include
               = {IF target = "branch" THEN "~DEFAULT_BRANCH" ELSE "~ALL"}
          /\ BuildRulesetPayload(m, target).exclude = {}
      BY PayloadIs
    <2> HIDE DEF plainMet, updateMet, reviewMet, statusMet, cfg
    <2> QED
      BY <2>1, <2>2
  <1>2. RulesMeet(m, target, rules)
          <=> /\ \A k \in DOMAIN RuleOf : same(RuleOf[k])
              /\ same("update")
              /\ target = "branch" => same("pull_request")
              /\ ~bare => same("required_status_checks")
    <2> HIDE DEF same
    <2>1. RulesMeet(m, target, rules) <=> \A type \in ManagedRuleTypes(m, target) : same(type)
      BY DEF RulesMeet, same
    <2> QED
      BY <2>1 DEF ManagedRuleTypes
  <1>3. (\A k \in DOMAIN RuleOf : same(RuleOf[k])) <=> plainMet
    BY BuiltRules, ParametersAre, SameRule
  <1>4. same("update") <=> updateMet
    <2>1. "update" \in DOMAIN built <=> On(cfg, "restrict_updates")
      BY BuiltRules
    <2>2. ASSUME "update" \in DOMAIN built
          PROVE  Get(built["update"], "update_allows_fetch_and_merge", FALSE)
                   = On(cfg, "update_allows_fetch_and_merge")
      <3>1. built["update"] = [update_allows_fetch_and_merge |->
                                 On(cfg, "update_allows_fetch_and_merge")]
        BY <2>2, BuiltRules
      <3> QED
        BY <3>1 DEF Get, Key
    <2>3. NormalizeRule("update", rules["update"]) = NormalizeRule("update", built["update"])
            <=> Get(rules["update"], "update_allows_fetch_and_merge", FALSE)
                  = Get(built["update"], "update_allows_fetch_and_merge", FALSE)
      <3> DEFINE D == RuleParameters("update")
      <3>1. DOMAIN D = {"update_allows_fetch_and_merge"} /\ D["update_allows_fetch_and_merge"] = FALSE
        BY ParametersAre
      <3>2. NormalizeRule("update", rules["update"]) = NormalizeRule("update", built["update"])
              <=> \A p \in DOMAIN D :
                    Get(rules["update"], p, D[p]) = Get(built["update"], p, D[p])
        BY SameRule
      <3> HIDE DEF D
      <3> QED
        BY <3>1, <3>2
    <2> QED
      BY <2>1, <2>2, <2>3
  <1>5. target = "branch" => (same("pull_request") <=> reviewMet)
    <2> SUFFICES ASSUME target = "branch" PROVE same("pull_request") <=> reviewMet
      OBVIOUS
    <2> DEFINE reviewed == Over([allowed_merge_methods |-> AllowedMergeMethods(m)],
                                Over(review, PullRequestDefaults))
    <2>1. "pull_request" \in DOMAIN built <=> On(cfg, "require_pull_request")
      BY BuiltRules DEF WantsPullRequest
    <2>2. "pull_request" \in DOMAIN built => built["pull_request"] = reviewed
      BY BuiltRules
    <2>3. /\ Get(reviewed, "allowed_merge_methods", {}) = AllowedMergeMethods(m)
          /\ \A p \in DOMAIN PullRequestDefaults :
               Get(reviewed, p, PullRequestDefaults[p]) = Get(review, p, PullRequestDefaults[p])
      <3>1. /\ "allowed_merge_methods" \in DOMAIN reviewed
            /\ reviewed["allowed_merge_methods"] = AllowedMergeMethods(m)
        BY DEF Over
      <3>2. ASSUME NEW p \in DOMAIN PullRequestDefaults
            PROVE  /\ p \in DOMAIN reviewed
                   /\ reviewed[p] = IF p \in DOMAIN review THEN review[p] ELSE PullRequestDefaults[p]
        <4>1. p # "allowed_merge_methods"
          BY DEF PullRequestDefaults
        <4>2. /\ p \in DOMAIN reviewed
              /\ reviewed[p] = Over(review, PullRequestDefaults)[p]
          BY <4>1 DEF Over
        <4> QED
          BY <4>2 DEF Over
      <3> HIDE DEF reviewed, review
      <3> QED
        BY <3>1, <3>2 DEF Get, Key
    <2>4. /\ DOMAIN RuleParameters("pull_request")
               = {"allowed_merge_methods"} \cup DOMAIN PullRequestDefaults
          /\ RuleParameters("pull_request")["allowed_merge_methods"] = {}
          /\ \A p \in DOMAIN PullRequestDefaults :
               RuleParameters("pull_request")[p] = PullRequestDefaults[p]
      <3>1. "allowed_merge_methods" \notin DOMAIN PullRequestDefaults
        BY DEF PullRequestDefaults
      <3> QED
        BY <3>1, ParametersAre DEF Over
    <2> HIDE DEF reviewed, review
    <2>5. ASSUME NEW x
          PROVE  NormalizeRule("pull_request", x) = NormalizeRule("pull_request", reviewed)
                   <=> /\ Get(x, "allowed_merge_methods", {}) = AllowedMergeMethods(m)
                       /\ \A p \in DOMAIN PullRequestDefaults :
                            Get(x, p, PullRequestDefaults[p]) = Get(review, p, PullRequestDefaults[p])
      <3> DEFINE D == RuleParameters("pull_request")
      <3>1. NormalizeRule("pull_request", x) = NormalizeRule("pull_request", reviewed)
              <=> \A p \in DOMAIN D : Get(x, p, D[p]) = Get(reviewed, p, D[p])
        BY SameRule
      <3> HIDE DEF D
      <3> QED
        BY <2>3, <2>4, <3>1 DEF D
    <2> QED
      BY <2>1, <2>2, <2>5 DEF review
  <1>6. (~bare => same("required_status_checks")) <=> statusMet
    <2> DEFINE checked == [required_status_checks |-> Contexts(m, target),
                           do_not_enforce_on_create |-> On(checks, "do_not_enforce_on_create"),
                           strict_required_status_checks_policy |->
                             On(checks, "strict_required_status_checks_policy")]
               status  == "required_status_checks"
    <2>1. status \in DOMAIN built <=> Contexts(m, target) # {}
      BY BuiltRules
    <2>2. status \in DOMAIN built => built[status] = checked
      BY BuiltRules
    <2>3. Contexts(m, target) # {} => ChecksEnabled(m, target)
      BY DEF Contexts
    <2>4. ASSUME NEW x
          PROVE  NormalizeRule(status, x) = NormalizeRule(status, checked)
                   <=> /\ Get(x, "required_status_checks", {}) = Contexts(m, target)
                       /\ \A p \in {"do_not_enforce_on_create",
                                    "strict_required_status_checks_policy"} :
                            Get(x, p, FALSE) = On(checks, p)
      <3>1. /\ Get(checked, "required_status_checks", {}) = Contexts(m, target)
            /\ \A p \in {"do_not_enforce_on_create", "strict_required_status_checks_policy"} :
                 Get(checked, p, FALSE) = On(checks, p)
        BY DEF Get, Key
      <3> DEFINE D == RuleParameters(status)
      <3>2. /\ DOMAIN D = {"required_status_checks", "do_not_enforce_on_create",
                           "strict_required_status_checks_policy"}
            /\ D["required_status_checks"] = {}
            /\ D["do_not_enforce_on_create"] = FALSE
            /\ D["strict_required_status_checks_policy"] = FALSE
        BY ParametersAre
      <3>3. NormalizeRule(status, x) = NormalizeRule(status, checked)
              <=> \A p \in DOMAIN D : Get(x, p, D[p]) = Get(checked, p, D[p])
        BY SameRule
      <3> HIDE DEF D, checked
      <3> QED
        BY <3>1, <3>2, <3>3
    <2> HIDE DEF checked
    <2> QED
      BY <2>1, <2>2, <2>3, <2>4
  <1> HIDE DEF same, plainMet, updateMet, reviewMet, statusMet
  <1> QED
    BY <1>1, <1>2, <1>3, <1>4, <1>5, <1>6

\* The comparison of the planner.
LEMMA NormalizedIs ==
  ASSUME NEW m, NEW target \in Targets, NEW is,
         is = [k \in PayloadKeys |-> is[k]], RulesetKey(is) = KeyOf(m, target)
  PROVE  LET types == ManagedRuleTypes(m, target)
         IN  NormalizeRulesetPayload(is, types)
               = NormalizeRulesetPayload(BuildRulesetPayload(m, target), types)
               <=> RulesetMeets(m, target, is)
  <1> DEFINE payload == BuildRulesetPayload(m, target)
  <1>1. is.name = payload.name /\ is.target = payload.target
    BY PayloadIs DEF RulesetKey
  <1>2. payload.rules = BuildRules(m, target) /\ payload = [k \in PayloadKeys |-> payload[k]]
    BY PayloadIs
  <1>3. RulesetMeets(m, target, is)
          <=> /\ is.enforcement = payload.enforcement
              /\ is.bypass_actors = payload.bypass_actors
              /\ is.include = payload.include
              /\ is.exclude = payload.exclude
              /\ RulesMeet(m, target, is.rules)
    BY MeetsIs
  <1> HIDE DEF payload
  <1>4. (\A k \in PayloadKeys \ {"rules"} : is[k] = payload[k])
          <=> /\ is.enforcement = payload.enforcement
              /\ is.bypass_actors = payload.bypass_actors
              /\ is.include = payload.include
              /\ is.exclude = payload.exclude
    BY <1>1 DEF PayloadKeys
  <1>5. RulesMeet(m, target, is.rules)
          <=> \A type \in ManagedRuleTypes(m, target) :
                /\ type \in DOMAIN is.rules <=> type \in DOMAIN payload.rules
                /\ type \in DOMAIN is.rules =>
                     NormalizeRule(type, is.rules[type]) = NormalizeRule(type, payload.rules[type])
    BY <1>2 DEF RulesMeet
  <1> QED
    BY <1>2, <1>3, <1>4, <1>5, SameNormalized DEF payload

\* A ruleset that has been given the payload is as the manifest says.
LEMMA PayloadMeets ==
  ASSUME NEW m, NEW target \in Targets, NEW is,
         \A k \in PayloadKeys : is[k] = BuildRulesetPayload(m, target)[k]
  PROVE  RulesetKey(is) = KeyOf(m, target) /\ RulesetMeets(m, target, is)
  <1> DEFINE payload == BuildRulesetPayload(m, target)
  <1>1. /\ is.enforcement = payload.enforcement
        /\ is.bypass_actors = payload.bypass_actors
        /\ is.include = payload.include
        /\ is.exclude = payload.exclude
        /\ is.rules = payload.rules /\ is.name = payload.name /\ is.target = payload.target
    BY DEF PayloadKeys
  <1>2. RulesMeet(m, target, is.rules)
    BY <1>1, PayloadIs DEF RulesMeet
  <1> QED
    BY <1>1, <1>2, MeetsIs, PayloadIs DEF RulesetKey

-----------------------------------------------------------------------------
(* What a call does to the repository.                                       *)

PagesChange(c) == c.kind \in {"create_pages", "update_pages"}

SiteKeys == {"build_type", "https_enforced"}
RulesetFields == PayloadKeys \cup {"source"}

\* Of what is no site and no ruleset, a call sets what its change names.
SetsOnly(c, before, after) ==
  /\ after.private = before.private
  /\ \A f \in Fields :
       after.fields[f] = IF c.kind = "patch_repository" /\ f \in DOMAIN c.payload
                         THEN c.payload[f] ELSE before.fields[f]
  /\ after.advanced = IF c.kind = "patch_security" THEN c.enabled ELSE before.advanced
  /\ \A t \in Toggles :
       after.toggles[t] = IF c.kind = "toggle" /\ c.toggle = t THEN c.enabled ELSE before.toggles[t]

\* A site is made where there was none, or the one there is gets the payload.
SetsSite(c, before, after) ==
  IF c.kind = "create_pages"
  THEN before.pages = {} /\ \E site \in after.pages : site.build_type = c.create
  ELSE IF c.kind = "update_pages"
  THEN \E old \in before.pages, new \in after.pages :
         \A k \in SiteKeys : new[k] = IF k \in DOMAIN c.payload THEN c.payload[k] ELSE old[k]
  ELSE after.pages = before.pages

\* A ruleset is added, or one that is there gets the payload and keeps its source.
SetsRuleset(c, before, after) ==
  IF RulesetChange(c)
  THEN \E id \in DOMAIN after.rulesets :
         /\ IF c.kind = "create_ruleset"
            THEN /\ id \notin DOMAIN before.rulesets
                 /\ after.rulesets[id].source = "Repository"
            ELSE /\ id = c.id /\ id \in DOMAIN before.rulesets
                 /\ after.rulesets[id].source = before.rulesets[id].source
         /\ DOMAIN after.rulesets = DOMAIN before.rulesets \cup {id}
         /\ \A k \in PayloadKeys : after.rulesets[id][k] = c.payload[k]
         /\ \A i \in DOMAIN before.rulesets \ {id} : after.rulesets[i] = before.rulesets[i]
  ELSE after.rulesets = before.rulesets

LEMMA OneSetting ==
  ASSUME NEW before, NEW key \in DOMAIN before, NEW value
  PROVE  LET after == [before EXCEPT ![key] = value]
         IN  /\ DOMAIN after = DOMAIN before /\ after[key] = value
             /\ \A k \in DOMAIN before \ {key} : after[k] = before[k]
  OBVIOUS

Settings == {"fields", "private", "advanced", "toggles", "pages", "rulesets"}

LEMMA SettingsEffect ==
  ASSUME NEW m, NEW c, IsChange(c, m), NEW before, IsRepository(before),
         NEW after \in Outcomes(c, before),
         c.kind \in {"patch_repository", "patch_security", "toggle"}
  PROVE  /\ IsRepository(after)
         /\ SetsOnly(c, before, after) /\ SetsSite(c, before, after)
         /\ SetsRuleset(c, before, after)
  <1> USE DEF Settings
  <1>1. DOMAIN before = Settings /\ DOMAIN before.fields = Fields /\ DOMAIN before.toggles = Toggles
    BY DEF IsRepository
  <1>2. CASE c.kind = "patch_repository"
    <2> DEFINE value == Over(c.payload, before.fields)
    <2>1. after = [before EXCEPT !["fields"] = value]
      BY <1>2 DEF Outcomes
    <2>2. DOMAIN c.payload \subseteq Fields
      BY <1>2 DEF IsChange, RulesetChange
    <2>3. /\ DOMAIN value = Fields
          /\ \A f \in Fields : value[f] = IF f \in DOMAIN c.payload THEN c.payload[f]
                                          ELSE before.fields[f]
      BY <1>1, <2>2 DEF Over
    <2> HIDE DEF value
    <2>4. /\ DOMAIN after = Settings /\ after.fields = value
          /\ after.private = before.private /\ after.advanced = before.advanced
          /\ after.toggles = before.toggles /\ after.pages = before.pages
          /\ after.rulesets = before.rulesets
      BY <1>1, <2>1
    <2>5. IsRepository(after)
      BY <2>3, <2>4 DEF IsRepository
    <2> QED
      BY <1>2, <2>3, <2>4, <2>5 DEF SetsOnly, SetsSite, SetsRuleset, RulesetChange
  <1>3. CASE c.kind = "patch_security"
    <2>1. after = [before EXCEPT !["advanced"] = c.enabled]
      BY <1>3 DEF Outcomes
    <2>2. /\ DOMAIN after = Settings /\ after.fields = before.fields
          /\ after.private = before.private /\ after.advanced = c.enabled
          /\ after.toggles = before.toggles /\ after.pages = before.pages
          /\ after.rulesets = before.rulesets
      BY <1>1, <2>1
    <2>3. IsRepository(after)
      BY <2>2 DEF IsRepository
    <2> QED
      BY <1>3, <2>2, <2>3 DEF SetsOnly, SetsSite, SetsRuleset, RulesetChange
  <1>4. CASE c.kind = "toggle"
    <2> DEFINE value == [before.toggles EXCEPT ![c.toggle] = c.enabled]
    <2>1. after = [before EXCEPT !["toggles"] = value]
      BY <1>4 DEF Outcomes
    <2>2. c.toggle \in Toggles
      BY <1>4 DEF IsChange, RulesetChange, ToggleDesired, Toggles, Key
    <2>3. /\ DOMAIN value = Toggles
          /\ \A t \in Toggles : value[t] = IF c.toggle = t THEN c.enabled ELSE before.toggles[t]
      BY <1>1
    <2> HIDE DEF value
    <2>4. /\ DOMAIN after = Settings /\ after.fields = before.fields
          /\ after.private = before.private /\ after.advanced = before.advanced
          /\ after.toggles = value /\ after.pages = before.pages
          /\ after.rulesets = before.rulesets
      BY <1>1, <2>1
    <2>5. IsRepository(after)
      BY <2>3, <2>4 DEF IsRepository
    <2> QED
      BY <1>4, <2>3, <2>4, <2>5 DEF SetsOnly, SetsSite, SetsRuleset, RulesetChange
  <1> QED
    BY <1>2, <1>3, <1>4

LEMMA SiteEffect ==
  ASSUME NEW m, NEW c, IsChange(c, m), NEW before, IsRepository(before),
         NEW after \in Outcomes(c, before), PagesChange(c)
  PROVE  /\ IsRepository(after)
         /\ SetsOnly(c, before, after) /\ SetsSite(c, before, after)
         /\ SetsRuleset(c, before, after)
  <1> USE DEF Settings, SiteKeys
  <1>1. DOMAIN before = Settings
    BY DEF IsRepository
  <1>2. ASSUME NEW site, DOMAIN site = SiteKeys, after = [before EXCEPT !["pages"] = {site}]
        PROVE  /\ IsRepository(after) /\ after.pages = {site}
               /\ SetsOnly(c, before, after) /\ SetsRuleset(c, before, after)
    <2>1. /\ DOMAIN after = Settings /\ after.fields = before.fields
          /\ after.private = before.private /\ after.advanced = before.advanced
          /\ after.toggles = before.toggles /\ after.pages = {site}
          /\ after.rulesets = before.rulesets
      BY <1>1, <1>2
    <2>2. IsRepository(after)
      BY <1>2, <2>1 DEF IsRepository
    <2> QED
      BY <2>1, <2>2 DEF SetsOnly, SetsRuleset, RulesetChange, PagesChange
  <1>3. CASE c.kind = "create_pages"
    <2>1. PICK https \in {b \in BOOLEAN : before.pages = {}} :
            after = [before EXCEPT !.pages = {[build_type |-> c.create, https_enforced |-> https]}]
      BY <1>3 DEF Outcomes
    <2> DEFINE site == [build_type |-> c.create, https_enforced |-> https]
    <2>2. before.pages = {} /\ DOMAIN site = SiteKeys /\ site.build_type = c.create
      BY <2>1
    <2>3. after = [before EXCEPT !["pages"] = {site}]
      BY <2>1
    <2> HIDE DEF site
    <2>4. /\ IsRepository(after) /\ after.pages = {site}
          /\ SetsOnly(c, before, after) /\ SetsRuleset(c, before, after)
      BY <1>2, <2>2, <2>3
    <2> QED
      BY <1>3, <2>2, <2>4 DEF SetsSite
  <1>4. CASE c.kind = "update_pages"
    <2>1. PICK old \in before.pages : after = [before EXCEPT !.pages = {Over(c.payload, old)}]
      BY <1>4 DEF Outcomes
    <2> DEFINE site == Over(c.payload, old)
    <2>2. DOMAIN old = SiteKeys
      BY <2>1 DEF IsRepository
    <2>3. DOMAIN c.payload \subseteq SiteKeys
      <3>1. DOMAIN c.payload \subseteq DOMAIN BuildPagesState(m)
        BY <1>4 DEF IsChange, RulesetChange
      <3>2. DOMAIN BuildPagesState(m) \subseteq SiteKeys
        BY DEF BuildPagesState, Over, Restrict
      <3> QED
        BY <3>1, <3>2
    <2>4. /\ DOMAIN site = SiteKeys
          /\ \A k \in SiteKeys : site[k] = IF k \in DOMAIN c.payload THEN c.payload[k] ELSE old[k]
      BY <2>2, <2>3 DEF Over
    <2>5. after = [before EXCEPT !["pages"] = {site}]
      BY <2>1
    <2> HIDE DEF site
    <2>6. /\ IsRepository(after) /\ after.pages = {site}
          /\ SetsOnly(c, before, after) /\ SetsRuleset(c, before, after)
      BY <1>2, <2>4, <2>5
    <2>7. \E new \in after.pages :
            \A k \in SiteKeys : new[k] = IF k \in DOMAIN c.payload THEN c.payload[k] ELSE old[k]
      BY <2>4, <2>6
    <2> QED
      BY <1>4, <2>6, <2>7 DEF SetsSite
  <1> QED
    BY <1>3, <1>4 DEF PagesChange

LEMMA RulesetEffect ==
  ASSUME NEW m, NEW c, IsChange(c, m), NEW before, IsRepository(before),
         NEW after \in Outcomes(c, before), RulesetChange(c)
  PROVE  /\ IsRepository(after)
         /\ SetsOnly(c, before, after) /\ SetsSite(c, before, after)
         /\ SetsRuleset(c, before, after)
  <1> USE DEF Settings
  <1>1. /\ DOMAIN before = Settings
        /\ DOMAIN before.rulesets \subseteq RulesetIds /\ IsFiniteSet(DOMAIN before.rulesets)
        /\ \A id \in DOMAIN before.rulesets : DOMAIN before.rulesets[id] = RulesetFields
    BY DEF IsRepository, RulesetFields, PayloadKeys
  <1>2. DOMAIN c.payload = PayloadKeys
    <2>1. PICK target \in Targets : c.payload = BuildRulesetPayload(m, target)
      BY DEF IsChange, RulesetChange
    <2> QED
      BY <2>1, PayloadIs
  <1> DEFINE Fits(id, rulesets) ==
               /\ id \in RulesetIds
               /\ DOMAIN rulesets = DOMAIN before.rulesets \cup {id}
               /\ DOMAIN rulesets[id] = RulesetFields
               /\ \A k \in PayloadKeys : rulesets[id][k] = c.payload[k]
               /\ \A i \in DOMAIN before.rulesets \ {id} : rulesets[i] = before.rulesets[i]
               /\ after = [before EXCEPT !["rulesets"] = rulesets]
  <1>3. ASSUME NEW id, NEW rulesets, Fits(id, rulesets)
        PROVE  /\ IsRepository(after) /\ after.rulesets = rulesets
               /\ SetsOnly(c, before, after) /\ SetsSite(c, before, after)
    <2>1. /\ DOMAIN after = Settings /\ after.fields = before.fields
          /\ after.private = before.private /\ after.advanced = before.advanced
          /\ after.toggles = before.toggles /\ after.pages = before.pages
          /\ after.rulesets = rulesets
      BY <1>1, <1>3
    <2>2. IsFiniteSet(DOMAIN rulesets) /\ DOMAIN rulesets \subseteq RulesetIds
      BY <1>1, <1>3, FS_AddElement
    <2>3. \A i \in DOMAIN rulesets : DOMAIN rulesets[i] = RulesetFields
      BY <1>1, <1>3
    <2>4. IsRepository(after)
      BY <2>1, <2>2, <2>3 DEF IsRepository, RulesetFields, PayloadKeys
    <2> QED
      BY <2>1, <2>4 DEF SetsOnly, SetsSite, RulesetChange
  <1>4. CASE c.kind = "create_ruleset"
    <2>1. PICK id \in RulesetIds \ DOMAIN before.rulesets :
            after = [before EXCEPT !.rulesets =
                       Put(@, id, Over([source |-> "Repository"], c.payload))]
      BY <1>4 DEF Outcomes
    <2> DEFINE new      == Over([source |-> "Repository"], c.payload)
               rulesets == Put(before.rulesets, id, new)
    <2>2. /\ DOMAIN new = RulesetFields /\ new.source = "Repository"
          /\ \A k \in PayloadKeys : new[k] = c.payload[k]
      BY <1>2 DEF Over, RulesetFields, PayloadKeys
    <2> HIDE DEF new
    <2>3. /\ DOMAIN rulesets = DOMAIN before.rulesets \cup {id} /\ rulesets[id] = new
          /\ \A i \in DOMAIN before.rulesets \ {id} : rulesets[i] = before.rulesets[i]
      BY DEF Put, Over
    <2>4. after = [before EXCEPT !["rulesets"] = rulesets]
      BY <2>1 DEF new
    <2> HIDE DEF rulesets
    <2>5. /\ IsRepository(after) /\ after.rulesets = rulesets
          /\ SetsOnly(c, before, after) /\ SetsSite(c, before, after)
      <3>1. Fits(id, rulesets)
        BY <2>2, <2>3, <2>4
      <3> HIDE DEF Fits
      <3> QED
        BY <1>3, <3>1
    <2>6. SetsRuleset(c, before, after)
      BY <1>4, <2>2, <2>3, <2>5 DEF SetsRuleset, RulesetChange
    <2> QED
      BY <2>5, <2>6
  <1>5. CASE c.kind = "update_ruleset"
    <2>1. /\ c.id \in DOMAIN before.rulesets
          /\ after = [before EXCEPT !.rulesets[c.id] = Over(c.payload, @)]
      BY <1>5 DEF Outcomes
    <2> DEFINE id       == c.id
               new      == Over(c.payload, before.rulesets[id])
               rulesets == [before.rulesets EXCEPT ![id] = new]
    <2>2. /\ DOMAIN new = RulesetFields /\ new.source = before.rulesets[id].source
          /\ \A k \in PayloadKeys : new[k] = c.payload[k]
      BY <1>1, <1>2, <2>1 DEF Over, RulesetFields, PayloadKeys
    <2>3. after = [before EXCEPT !["rulesets"] = rulesets]
      BY <2>1
    <2> HIDE DEF new
    <2>4. /\ DOMAIN rulesets = DOMAIN before.rulesets \cup {id} /\ rulesets[id] = new
          /\ \A i \in DOMAIN before.rulesets \ {id} : rulesets[i] = before.rulesets[i]
      BY <2>1
    <2> HIDE DEF rulesets
    <2>5. /\ IsRepository(after) /\ after.rulesets = rulesets
          /\ SetsOnly(c, before, after) /\ SetsSite(c, before, after)
      <3>1. Fits(id, rulesets)
        BY <1>1, <2>1, <2>2, <2>3, <2>4
      <3> HIDE DEF Fits
      <3> QED
        BY <1>3, <3>1
    <2>6. SetsRuleset(c, before, after)
      BY <1>5, <2>1, <2>2, <2>4, <2>5 DEF SetsRuleset, RulesetChange
    <2> QED
      BY <2>5, <2>6
  <1> QED
    BY <1>4, <1>5 DEF RulesetChange

LEMMA Effect ==
  ASSUME NEW m, NEW c, IsChange(c, m), NEW before, IsRepository(before),
         NEW after \in Outcomes(c, before)
  PROVE  /\ IsRepository(after)
         /\ SetsOnly(c, before, after) /\ SetsSite(c, before, after)
         /\ SetsRuleset(c, before, after)
  <1>1. \/ c.kind \in {"patch_repository", "patch_security", "toggle"}
        \/ PagesChange(c) \/ RulesetChange(c)
    BY DEF IsChange, PagesChange, RulesetChange
  <1> QED
    BY <1>1, SettingsEffect, SiteEffect, RulesetEffect

-----------------------------------------------------------------------------
(* The plans that the reads of a run add up to.                              *)

NoRulesets(q) == \A c \in Range(q) : ~RulesetChange(c)

LEMMA MorePlan ==
  ASSUME NEW m, NEW p, NEW q, IsPlan(p, m), NoRulesets(p), IsPlan(q, m), Once(q)
  PROVE  /\ IsPlan(p \o q, m) /\ Once(p \o q)
         /\ Range(p \o q) = Range(p) \cup Range(q)
  <1>1. \A c \in Range(p) : ~RulesetChange(c)
    BY DEF NoRulesets
  <1> QED
    BY <1>1, LongerPlan

LEMMA PatchPlan ==
  ASSUME NEW m, NEW state
  PROVE  LET q == PatchChanges(m, state) \o AdvancedChanges(m, state)
         IN  /\ IsPlan(q, m) /\ Once(q) /\ NoRulesets(q)
             /\ Range(q) = Range(PatchChanges(m, state)) \cup Range(AdvancedChanges(m, state))
  <1> DEFINE patch   == BuildRepositoryPatch(m)
             differs == {f \in DOMAIN patch : state.fields[f] # patch[f]}
             c       == [kind |-> "patch_repository", payload |-> Restrict(patch, differs)]
             d       == [kind |-> "patch_security", enabled |-> m.security["advanced_security"]]
             p       == PatchChanges(m, state)
             q       == AdvancedChanges(m, state)
  <1>1. DOMAIN patch = Fields \cap DOMAIN m.repository
        /\ \A f \in DOMAIN patch : patch[f] = m.repository[f]
    BY RestrictIs DEF BuildRepositoryPatch
  <1>2. p = <<>> \/ p = <<c>>
    BY DEF PatchChanges
  <1>3. IsChange(c, m)
    <2>1. /\ DOMAIN c.payload = differs
          /\ \A f \in differs : c.payload[f] = patch[f]
      BY RestrictIs
    <2> QED
      BY <1>1, <2>1 DEF IsChange
  <1>4. q = <<>> \/ (q = <<d>> /\ Key(m.security, "advanced_security"))
    BY DEF AdvancedChanges
  <1>5. Key(m.security, "advanced_security") => IsChange(d, m)
    BY DEF IsChange
  <1>6. ~RulesetChange(c) /\ ~RulesetChange(d)
    BY DEF RulesetChange
  <1> HIDE DEF c, d, p, q
  <1>7. IsPlan(p, m) /\ NoRulesets(p)
    BY <1>2, <1>3, <1>6, EmptyPlan, SinglePlan DEF NoRulesets
  <1>8. IsPlan(q, m) /\ Once(q) /\ NoRulesets(q)
    BY <1>4, <1>5, <1>6, EmptyPlan, SinglePlan DEF NoRulesets
  <1>9. /\ IsPlan(p \o q, m) /\ Once(p \o q)
        /\ Range(p \o q) = Range(p) \cup Range(q)
    BY <1>7, <1>8, LongerPlan DEF NoRulesets
  <1> QED
    BY <1>7, <1>8, <1>9 DEF NoRulesets, p, q

LEMMA TogglePlan ==
  ASSUME NEW m, NEW t \in DOMAIN ToggleDesired(m), NEW enabled
  PROVE  LET q == ToggleChanges(m, t, enabled)
         IN  IsPlan(q, m) /\ Once(q) /\ NoRulesets(q)
  <1> DEFINE c == [kind |-> "toggle", toggle |-> t, enabled |-> ToggleDesired(m)[t]]
  <1>1. ToggleChanges(m, t, enabled) \in {<<>>, <<c>>}
    BY DEF ToggleChanges
  <1>2. IsChange(c, m) /\ ~RulesetChange(c)
    BY DEF IsChange, RulesetChange, Key
  <1> HIDE DEF c
  <1> QED
    BY <1>1, <1>2, EmptyPlan, SinglePlan DEF NoRulesets

\* What is planned for a site, and what that change holds.
LEMMA PagesPlan ==
  ASSUME NEW m, DOMAIN m.pages # {}, NEW site
  PROVE  LET q       == PagesChanges(m, site)
             desired == BuildPagesState(m)
         IN  /\ IsPlan(q, m) /\ Once(q) /\ NoRulesets(q)
             /\ site = {} => \E c \in Range(q) : c.kind = "create_pages"
             /\ site # {} =>
                  \/ q = <<>> /\ \E s \in site : Restrict(s, DOMAIN desired) = desired
                  \/ /\ ~\E s \in site : Restrict(s, DOMAIN desired) = desired
                     /\ Range(q) = {[kind |-> "update_pages", payload |-> desired]}
             /\ \A c \in Range(q) :
                  \/ c.kind = "create_pages" /\ site = {}
                  \/ c.kind = "update_pages" /\ site # {}
  <1> DEFINE desired == BuildPagesState(m)
             create  == [kind |-> "create_pages", create |-> desired.build_type,
                         update |-> Restrict(desired, DOMAIN desired \ {"build_type"})]
             update  == [kind |-> "update_pages", payload |-> desired]
             q       == PagesChanges(m, site)
             fits    == \E s \in site : Restrict(s, DOMAIN desired) = desired
  <1>1. IsChange(create, m) /\ ~RulesetChange(create) /\ create.kind = "create_pages"
    BY DEF IsChange, RulesetChange
  <1>2. IsChange(update, m) /\ ~RulesetChange(update) /\ update.kind = "update_pages"
    BY DEF IsChange, RulesetChange
  <1>3. /\ site = {} => q = <<create>>
        /\ site # {} => \/ q = <<>> /\ fits
                        \/ q = <<update>> /\ ~fits
    <2>1. fits <=> \E s \in site : Restrict(s, DOMAIN desired) = desired
      OBVIOUS
    <2> HIDE DEF fits
    <2> QED
      BY <2>1 DEF PagesChanges
  <1> HIDE DEF create, update, q, fits
  <1>4. IsPlan(q, m) /\ Once(q) /\ NoRulesets(q)
    BY <1>1, <1>2, <1>3, EmptyPlan, SinglePlan DEF NoRulesets
  <1>5. Range(q) = IF site = {} THEN {create} ELSE IF fits THEN {} ELSE {update}
    BY <1>1, <1>2, <1>3, EmptyPlan, SinglePlan
  <1> QED
    BY <1>1, <1>2, <1>3, <1>4, <1>5 DEF q, fits, update

\* What is planned for the ruleset of a target, and why.
LEMMA RulesetPlan ==
  ASSUME NEW m, NEW target \in Targets, NEW details
  PROVE  LET q       == RulesetChanges(m, target, details)
             payload == BuildRulesetPayload(m, target)
             key     == KeyOf(m, target)
             types   == ManagedRuleTypes(m, target)
             same    == NormalizeRulesetPayload(details[key].is, types)
                          = NormalizeRulesetPayload(payload, types)
         IN  \/ q = <<>> /\ Key(details, key) /\ same
             \/ \E c : /\ q = <<c>> /\ IsChange(c, m) /\ RulesetChange(c)
                       /\ c.payload = payload
                       /\ \/ c.kind = "create_ruleset" /\ ~Key(details, key)
                          \/ /\ c.kind = "update_ruleset" /\ Key(details, key)
                             /\ c.id = details[key].id /\ ~same
  <1> DEFINE payload == BuildRulesetPayload(m, target)
             key     == RulesetKey(payload)
             types   == ManagedRuleTypes(m, target)
             same    == NormalizeRulesetPayload(details[key].is, types)
                          = NormalizeRulesetPayload(payload, types)
             create  == [kind |-> "create_ruleset", payload |-> payload]
             update  == [kind |-> "update_ruleset", id |-> details[key].id, payload |-> payload]
  <1>1. key = KeyOf(m, target)
    BY PayloadIs
  <1>2. RulesetChanges(m, target, details)
          = IF ~Key(details, key) THEN <<create>> ELSE IF same THEN <<>> ELSE <<update>>
    BY DEF RulesetChanges
  <1>3. /\ IsChange(create, m) /\ RulesetChange(create)
        /\ create.payload = payload /\ create.kind = "create_ruleset"
    BY DEF IsChange, RulesetChange
  <1>4. /\ IsChange(update, m) /\ RulesetChange(update)
        /\ update.payload = payload /\ update.kind = "update_ruleset"
        /\ update.id = details[key].id
    BY DEF IsChange, RulesetChange
  <1>5. \/ RulesetChanges(m, target, details) = <<>> /\ Key(details, key) /\ same
        \/ \E c : /\ RulesetChanges(m, target, details) = <<c>>
                  /\ IsChange(c, m) /\ RulesetChange(c)
                  /\ c.payload = payload
                  /\ \/ c.kind = "create_ruleset" /\ ~Key(details, key)
                     \/ /\ c.kind = "update_ruleset" /\ Key(details, key)
                        /\ c.id = details[key].id /\ ~same
    <2> HIDE DEF create, update, same, payload, key
    <2>1. CASE ~Key(details, key)
      BY <1>2, <1>3, <2>1
    <2>2. CASE Key(details, key) /\ same
      BY <1>2, <2>2
    <2>3. CASE Key(details, key) /\ ~same
      BY <1>2, <1>4, <2>3
    <2> QED
      BY <2>1, <2>2, <2>3
  <1> HIDE DEF key, payload, types
  <1> QED
    BY <1>1, <1>5 DEF payload, types

\* The plans for the two rulesets, one after the other.
LEMMA RulesetsPlan ==
  ASSUME NEW m, NEW details
  PROVE  LET p == RulesetChanges(m, "branch", details)
             q == RulesetChanges(m, "tag", details)
         IN  /\ IsPlan(p \o q, m) /\ Once(p \o q)
             /\ Range(p \o q) = Range(p) \cup Range(q)
             /\ \A c \in Range(p) : RulesetChange(c) /\ c.payload.target = "branch"
             /\ \A c \in Range(q) : RulesetChange(c) /\ c.payload.target = "tag"
  <1> DEFINE p == RulesetChanges(m, "branch", details)
             q == RulesetChanges(m, "tag", details)
  <1>1. \/ p = <<>>
        \/ \E c : /\ p = <<c>> /\ IsChange(c, m) /\ RulesetChange(c)
                  /\ c.payload.target = "branch"
    BY RulesetPlan, PayloadIs DEF Targets
  <1>2. \/ q = <<>>
        \/ \E c : /\ q = <<c>> /\ IsChange(c, m) /\ RulesetChange(c)
                  /\ c.payload.target = "tag"
    BY RulesetPlan, PayloadIs DEF Targets
  <1> HIDE DEF p, q
  <1>3. /\ IsPlan(p, m) /\ IsPlan(q, m)
        /\ \A c \in Range(p) : RulesetChange(c) /\ c.payload.target = "branch"
        /\ \A c \in Range(q) : RulesetChange(c) /\ c.payload.target = "tag"
    <2>1. IsPlan(p, m) /\ \A c \in Range(p) : RulesetChange(c) /\ c.payload.target = "branch"
      <3>1. CASE p = <<>>
        BY <3>1, EmptyPlan
      <3>2. ASSUME NEW c, p = <<c>>, IsChange(c, m), RulesetChange(c), c.payload.target = "branch"
            PROVE  IsPlan(p, m) /\ Range(p) = {c}
        BY <3>2, SinglePlan
      <3> QED
        BY <1>1, <3>1, <3>2
    <2>2. IsPlan(q, m) /\ \A c \in Range(q) : RulesetChange(c) /\ c.payload.target = "tag"
      <3>1. CASE q = <<>>
        BY <3>1, EmptyPlan
      <3>2. ASSUME NEW c, q = <<c>>, IsChange(c, m), RulesetChange(c), c.payload.target = "tag"
            PROVE  IsPlan(q, m) /\ Range(q) = {c}
        BY <3>2, SinglePlan
      <3> QED
        BY <1>2, <3>1, <3>2
    <2> QED
      BY <2>1, <2>2
  <1>4. IsPlan(p \o q, m) /\ Range(p \o q) = Range(p) \cup Range(q)
    BY <1>3, LongerPlan
  <1>5. Once(p \o q)
    <2>1. CASE p = <<>> /\ q = <<>>
      BY <2>1 DEF Once
    <2>2. ASSUME NEW c, p = <<c>> /\ q = <<>> PROVE Once(p \o q)
      BY <2>2 DEF Once
    <2>3. ASSUME NEW d, p = <<>> /\ q = <<d>> PROVE Once(p \o q)
      BY <2>3 DEF Once
    <2>4. ASSUME NEW c, NEW d, p = <<c>> /\ q = <<d>>,
                 c.payload.target = "branch", d.payload.target = "tag"
          PROVE  Once(p \o q)
      <3>1. <<c>> \in Seq({c, d}) /\ <<d>> \in Seq({c, d}) /\ Len(<<c>>) = 1 /\ Len(<<d>>) = 1
        OBVIOUS
      <3>2. /\ <<c>> \o <<d>> \in Seq({c, d}) /\ Len(<<c>> \o <<d>>) = 2
            /\ (<<c>> \o <<d>>)[1] = <<c>>[1] /\ (<<c>> \o <<d>>)[2] = <<d>>[1]
        BY <3>1, ConcatProperties
      <3>3. DOMAIN (p \o q) = 1..2 /\ (p \o q)[1] = c /\ (p \o q)[2] = d
        BY <2>4, <3>2, LenProperties
      <3>4. \A i \in 1..2 : i = 1 \/ i = 2
        OBVIOUS
      <3> QED
        BY <2>4, <3>3, <3>4 DEF Once
    <2> QED
      BY <1>1, <1>2, <2>1, <2>2, <2>3, <2>4
  <1> QED
    BY <1>3, <1>4, <1>5 DEF p, q

\* What is left of a plan after the first call of its first change.
LEMMA RemainingPlan ==
  ASSUME NEW m, NEW q, IsPlan(q, m), Once(q), q # <<>>
  PROVE  LET rest == Remaining(q)
             head == Head(q)
         IN  /\ IsPlan(rest, m) /\ Once(rest)
             /\ Range(Tail(q)) \subseteq Range(rest)
             /\ \A c \in Range(rest) \ Range(Tail(q)) :
                  c.kind = "update_pages" /\ head.kind = "create_pages"
             /\ head.kind = "create_pages" /\ DOMAIN head.update # {} =>
                  \E c \in Range(rest) : c.kind = "update_pages" /\ c.payload = head.update
  <1> DEFINE head  == Head(q)
             tail  == Tail(q)
             again == [kind |-> "update_pages", payload |-> head.update]
             more  == head.kind = "create_pages" /\ DOMAIN head.update # {}
  <1>1. IsChange(head, m) /\ IsPlan(tail, m) /\ Once(tail)
    BY RestOfPlan
  <1>2. Remaining(q) = IF more THEN <<again>> \o tail ELSE tail
    BY DEF Remaining
  <1>3. again.kind = "update_pages" /\ again.payload = head.update /\ ~RulesetChange(again)
    BY DEF RulesetChange
  <1>4. ASSUME head.kind = "create_pages" PROVE IsChange(again, m)
    <2>1. /\ DOMAIN m.pages # {}
          /\ head.update = Restrict(BuildPagesState(m), DOMAIN BuildPagesState(m) \ {"build_type"})
      BY <1>1, <1>4 DEF IsChange, RulesetChange
    <2>2. /\ DOMAIN head.update \subseteq DOMAIN BuildPagesState(m)
          /\ \A k \in DOMAIN head.update : head.update[k] = BuildPagesState(m)[k]
      BY <2>1, RestrictIs
    <2> QED
      BY <2>1, <2>2 DEF IsChange
  <1> HIDE DEF again, head, tail
  <1>5. CASE more
    <2>1. IsPlan(<<again>>, m) /\ Range(<<again>>) = {again}
      BY <1>4, <1>5, SinglePlan
    <2>2. /\ IsPlan(<<again>> \o tail, m) /\ Once(<<again>> \o tail)
          /\ Range(<<again>> \o tail) = {again} \cup Range(tail)
      BY <1>1, <1>3, <2>1, LongerPlan
    <2> QED
      BY <1>2, <1>3, <1>5, <2>2 DEF head, tail
  <1>6. CASE ~more
    BY <1>1, <1>2, <1>6 DEF head, tail
  <1> QED
    BY <1>5, <1>6

-----------------------------------------------------------------------------
(* The state of a run after each of its steps.                               *)

Started(mode, m) ==
  [Idle EXCEPT !.mode = mode, !.manifest = m,
               !.pc = IF ValidManifest(m) THEN "repository" ELSE "refused"]
Broken(s)        == [s EXCEPT !.pc = "failed"]
Onward(s, pc, q) == [s EXCEPT !.pc = pc, !.changes = @ \o q]
RepositoryKnown(s, state, blind) ==
  [s EXCEPT !.pc = IF AlertsConflict(s.manifest) THEN "refused" ELSE "toggles",
            !.toggles = ToggleOrder(s.manifest), !.blind = blind,
            !.changes = PatchChanges(s.manifest, state) \o AdvancedChanges(s.manifest, state)]
ToggleKnown(s, enabled, blind) ==
  [s EXCEPT !.toggles = Tail(@), !.blind = blind,
            !.changes = @ \o ToggleChanges(s.manifest, Head(s.toggles), enabled)]
PagesKnown(s, site, blind) ==
  [s EXCEPT !.pc = "branch", !.blind = blind,
            !.changes = @ \o PagesChanges(s.manifest, site)]
ListKnown(s, found, state) ==
  [s EXCEPT !.pc = "details", !.listed = [id \in found |-> RulesetKey(state.rulesets[id])]]
RulesetKnown(s, id, state) ==
  [s EXCEPT !.listed  = Restrict(@, DOMAIN @ \ {id}),
            !.details = Put(@, s.listed[id], [id |-> id, is |-> Payload(state.rulesets[id])])]
Written(s, pc) == [s EXCEPT !.pc = pc, !.wrote = TRUE, !.changes = Remaining(@)]
Disturbed(s)   == [s EXCEPT !.disturbed = TRUE]

-----------------------------------------------------------------------------
(* The reads of a run, one at a time: s is the run before, t after, and the  *)
(* repository stays as it is.                                                *)

LEMMA RestOfSeq ==
  ASSUME NEW S, NEW q \in Seq(S), q # <<>>
  PROVE  Head(q) \in S /\ Tail(q) \in Seq(S) /\ Range(q) = {Head(q)} \cup Range(Tail(q))
  <1> DEFINE t == Tail(q)
  <1>1. /\ Len(q) \in Nat \ {0} /\ DOMAIN q = 1..Len(q)
        /\ t \in Seq(S) /\ Len(t) = Len(q) - 1 /\ DOMAIN t = 1..Len(t)
        /\ \A i \in 1..Len(t) : t[i] = q[i + 1]
        /\ Head(q) \in S
    BY HeadTailProperties, LenProperties, EmptySeq
  <1>2. Head(q) = q[1] /\ 1 \in DOMAIN q
    BY <1>1
  <1> HIDE DEF t
  <1>3. ASSUME NEW i \in DOMAIN q PROVE q[i] \in {Head(q)} \cup Range(t)
    <2>1. CASE i = 1
      BY <1>2, <2>1
    <2>2. CASE i # 1
      <3>1. i - 1 \in DOMAIN t /\ t[i - 1] = q[i]
        BY <1>1, <2>2
      <3> QED
        BY <3>1 DEF Range
    <2> QED
      BY <2>1, <2>2
  <1>4. \A i \in DOMAIN t : t[i] = q[i + 1] /\ i + 1 \in DOMAIN q
    BY <1>1
  <1>5. Range(q) = {Head(q)} \cup Range(t)
    BY <1>2, <1>3, <1>4 DEF Range
  <1> QED
    BY <1>1, <1>5 DEF t

\* All the toggles the manifest sets are read.
LEMMA ToggleOrderIs ==
  ASSUME NEW m
  PROVE  /\ ToggleOrder(m) \in Seq(DOMAIN ToggleDesired(m))
         /\ Range(ToggleOrder(m)) = DOMAIN ToggleDesired(m)
  <1> DEFINE D == DOMAIN ToggleDesired(m)
             one(t) == IF t \in D THEN <<t>> ELSE <<>>
             a == one("vulnerability_alerts")
             b == one("immutable_releases")
             c == one("private_vulnerability_reporting")
             d == one("automated_security_fixes")
  <1>1. D \subseteq Toggles
    BY DEF ToggleDesired, Toggles
  <1>2. ASSUME NEW t PROVE one(t) \in Seq(D) /\ Range(one(t)) = {t} \cap D
    <2> HIDE DEF D
    <2>1. CASE t \in D
      <3>1. <<t>> \in Seq(D) /\ Range(<<t>>) = {t}
        BY <2>1 DEF Range
      <3> QED
        BY <2>1, <3>1
    <2>2. CASE t \notin D
      <3>1. <<>> \in Seq(D) /\ Range(<<>>) = {}
        BY DEF Range
      <3> QED
        BY <2>2, <3>1
    <2> QED
      BY <2>1, <2>2
  <1>3. ToggleOrder(m) = a \o b \o c \o d
    BY DEF ToggleOrder
  <1> HIDE DEF one, D
  <1>4. a \in Seq(D) /\ b \in Seq(D) /\ c \in Seq(D) /\ d \in Seq(D)
    BY <1>2
  <1>5. /\ Range(a) = {"vulnerability_alerts"} \cap D
        /\ Range(b) = {"immutable_releases"} \cap D
        /\ Range(c) = {"private_vulnerability_reporting"} \cap D
        /\ Range(d) = {"automated_security_fixes"} \cap D
    BY <1>2
  <1> HIDE DEF a, b, c, d
  <1>6. ASSUME NEW x \in Seq(D), NEW y \in Seq(D)
        PROVE  x \o y \in Seq(D) /\ Range(x \o y) = Range(x) \cup Range(y)
    BY ConcatProperties, RangeConcatenation
  <1>7. (a \o b) \in Seq(D) /\ Range(a \o b) = Range(a) \cup Range(b)
    BY <1>4, <1>6
  <1>8. /\ (a \o b) \o c \in Seq(D)
        /\ Range((a \o b) \o c) = Range(a) \cup Range(b) \cup Range(c)
    BY <1>4, <1>6, <1>7
  <1>9. /\ ((a \o b) \o c) \o d \in Seq(D)
        /\ Range(((a \o b) \o c) \o d) = Range(a) \cup Range(b) \cup Range(c) \cup Range(d)
    BY <1>4, <1>6, <1>8
  <1>10. Range(ToggleOrder(m)) = D
    BY <1>1, <1>3, <1>5, <1>9 DEF Toggles
  <1> QED
    BY <1>3, <1>9, <1>10 DEF D

\* Until the rulesets are listed, nothing is known of them.
LEMMA ListingKnows ==
  ASSUME NEW t, NEW state, Late(t), Plans(t), t.pc \in Listing
  PROVE  Knows(t, state) /\ Certain(t, state)
  <1>1. t.pc \notin {"details", "apply", "done"} /\ ~t.wrote
    BY DEF Late, Listing
  <1>2. \A c \in Range(t.changes) : c.kind # "create_ruleset" /\ c.kind # "update_ruleset"
    BY DEF Plans, Reading, RulesetChange
  <1> QED
    BY <1>1, <1>2 DEF Knows, Certain

\* What is covered stays covered when a plan gets longer.
LEMMA CoveredMore ==
  ASSUME NEW s, NEW t, NEW state, t.manifest = s.manifest,
         Range(s.changes) \subseteq Range(t.changes)
  PROVE  /\ FieldsCovered(s, state) => FieldsCovered(t, state)
         /\ AdvancedCovered(s, state) => AdvancedCovered(t, state)
         /\ Range(s.toggles) = Range(t.toggles) /\ TogglesCovered(s, state)
              => TogglesCovered(t, state)
         /\ PagesCovered(s, state) => PagesCovered(t, state)
  <1>1. FieldsCovered(s, state) => FieldsCovered(t, state)
    BY DEF FieldsCovered
  <1>2. AdvancedCovered(s, state) => AdvancedCovered(t, state)
    BY DEF AdvancedCovered
  <1>3. Range(s.toggles) = Range(t.toggles) /\ TogglesCovered(s, state) => TogglesCovered(t, state)
    BY DEF TogglesCovered
  <1>4. PagesCovered(s, state) => PagesCovered(t, state)
    BY DEF PagesCovered
  <1> QED
    BY <1>1, <1>2, <1>3, <1>4

\* A run that ends in an error.
LEMMA Ending ==
  ASSUME NEW s, NEW state, NEW paged, NEW solo, Late(s), RunInv(s, state, paged, solo),
         s.pc # "idle",
         NEW pc \in {"refused", "failed"},
         NEW t, t = Onward(s, pc, <<>>) \/ (pc = "failed" /\ t = Broken(s))
  PROVE  RunInv(t, state, paged, solo)
  <1>1. s.changes \o <<>> = s.changes
    BY ConcatEmptySeq DEF RunInv, Plans, IsPlan
  <1>2. /\ t.pc = pc /\ t.manifest = s.manifest /\ t.mode = s.mode
        /\ t.changes = s.changes /\ t.toggles = s.toggles /\ t.wrote = s.wrote
        /\ t.disturbed = s.disturbed /\ t.blind = s.blind
    BY <1>1 DEF Late, Tracked, Onward, Broken
  <1>3. Plans(t)
    BY <1>2 DEF RunInv, Plans, Reading, Listing
  <1>4. Knows(s, state) => Knows(t, state)
    BY <1>2 DEF Knows
  <1>5. Certain(s, state) => Certain(t, state)
    BY <1>2 DEF Certain
  <1>6. Covers(t, state)
    BY <1>2 DEF Covers, Reading, Listing
  <1>7. Needs(s, state) => Needs(t, state)
    BY <1>2 DEF Needs
  <1> QED
    BY <1>2, <1>3, <1>4, <1>5, <1>6, <1>7 DEF RunInv

LEMMA Starting ==
  ASSUME NEW mode, NEW m \in Manifests, NEW state, NEW paged, NEW solo,
         NEW t, Late(t),
         t = Started(mode, m)
  PROVE  RunInv(t, state, paged, solo)
  <1>1. /\ t.pc = (IF ValidManifest(m) THEN "repository" ELSE "refused")
        /\ t.manifest = m /\ t.changes = <<>> /\ t.toggles = <<>> /\ t.details = <<>>
        /\ t.wrote = FALSE
    BY DEF Idle, Started
  <1>2. Plans(t)
    <2>1. IsPlan(t.changes, t.manifest) /\ Range(t.changes) = {} /\ Once(t.changes)
      BY <1>1, EmptyPlan
    <2>2. DOMAIN t.details = {} /\ t.toggles \in Seq(DOMAIN ToggleDesired(t.manifest))
      <3>1. DOMAIN <<>> = {} /\ <<>> \in Seq(DOMAIN ToggleDesired(m))
        OBVIOUS
      <3> QED
        BY <1>1, <3>1
    <2> QED
      BY <1>1, <2>1, <2>2 DEF Plans
  <1>3. Range(t.changes) = {}
    BY <1>1, EmptyPlan
  <1>4. Knows(t, state) /\ Certain(t, state)
    BY <1>1, <1>3 DEF Knows, Certain
  <1>5. Covers(t, state) /\ Needs(t, state)
    BY <1>1, <1>3 DEF Covers, Needs, Reading, Listing
  <1> QED
    BY <1>1, <1>2, <1>4, <1>5 DEF RunInv

\* The patch holds the fields that differ, and Advanced Security if it differs.
LEMMA PatchCovers ==
  ASSUME NEW m, NEW state
  PROVE  LET q == PatchChanges(m, state) \o AdvancedChanges(m, state)
         IN  /\ \A f \in Fields \cap DOMAIN m.repository :
                  \/ state.fields[f] = m.repository[f]
                  \/ \E c \in Range(q) : c.kind = "patch_repository" /\ f \in DOMAIN c.payload
             /\ \/ state.private =>
                     Get(m.security, "advanced_security", state.advanced) = state.advanced
                \/ \E c \in Range(q) : c.kind = "patch_security"
             /\ \A c \in Range(q) : Needed(c, m, state)
  <1> DEFINE patch   == BuildRepositoryPatch(m)
             differs == {f \in DOMAIN patch : state.fields[f] # patch[f]}
             c       == [kind |-> "patch_repository", payload |-> Restrict(patch, differs)]
             d       == [kind |-> "patch_security", enabled |-> m.security["advanced_security"]]
             p       == PatchChanges(m, state)
             a       == AdvancedChanges(m, state)
             unset   == /\ Key(m.security, "advanced_security") /\ state.private
                        /\ state.advanced # m.security["advanced_security"]
  <1>1. DOMAIN patch = Fields \cap DOMAIN m.repository
        /\ \A f \in DOMAIN patch : patch[f] = m.repository[f]
    BY RestrictIs DEF BuildRepositoryPatch
  <1>2. /\ differs = {} => p = <<>>
        /\ differs # {} => p = <<c>>
    BY DEF PatchChanges
  <1>3. c.kind = "patch_repository" /\ DOMAIN c.payload = differs
    BY RestrictIs
  <1>4. /\ unset => a = <<d>>
        /\ ~unset => a = <<>>
    BY DEF AdvancedChanges
  <1>5. d.kind = "patch_security"
    OBVIOUS
  <1>6. \A x : Range(<<x>>) = {x}
    BY DEF Range
  <1>7. Range(<<>>) = {}
    BY DEF Range
  <1>8. Range(p \o a) = Range(p) \cup Range(a)
    BY PatchPlan
  <1>9. Range(p) = {x \in {c} : differs # {}} /\ Range(a) = {x \in {d} : unset}
    <2> HIDE DEF p, a, c, d, differs, unset
    <2> QED
      BY <1>2, <1>4, <1>6, <1>7
  <1> HIDE DEF p, a, c, d
  <1>10. ASSUME NEW f \in Fields \cap DOMAIN m.repository, state.fields[f] # m.repository[f]
         PROVE  c \in Range(p \o a) /\ f \in DOMAIN c.payload
    BY <1>1, <1>3, <1>8, <1>9, <1>10
  <1>11. unset => d \in Range(p \o a)
    BY <1>8, <1>9
  <1>12. ~unset => (state.private =>
                      Get(m.security, "advanced_security", state.advanced) = state.advanced)
    BY DEF Get, Key
  <1>13. differs # {} => Needed(c, m, state)
    BY <1>1, <1>3 DEF Needed, RulesetChange
  <1>14. unset => Needed(d, m, state)
    BY <1>5 DEF Needed, RulesetChange
  <1> QED
    BY <1>3, <1>5, <1>8, <1>9, <1>10, <1>11, <1>12, <1>13, <1>14 DEF p, a

LEMMA RepositoryRead ==
  ASSUME NEW s, NEW state, NEW paged, NEW solo, Late(s), RunInv(s, state, paged, solo),
         s.pc = "repository", NEW seen, NEW blind, NEW t, Late(t),
         t = RepositoryKnown(s, seen, blind),
         (seen = state /\ blind = s.blind) \/ blind = TRUE
  PROVE  RunInv(t, state, paged, solo)
  <1> DEFINE m == s.manifest
             q == PatchChanges(m, seen) \o AdvancedChanges(m, seen)
  <1>1. /\ t.pc \in {"refused", "toggles"} /\ t.manifest = m /\ t.changes = q
        /\ t.toggles = ToggleOrder(m) /\ t.details = s.details
        /\ t.wrote = s.wrote /\ t.disturbed = s.disturbed /\ t.blind = blind
    <2> DEFINE pc      == IF AlertsConflict(m) THEN "refused" ELSE "toggles"
               toggles == ToggleOrder(m)
    <2>1. t = [s EXCEPT !.pc = pc, !.toggles = toggles, !.blind = blind,
                       !.changes = q]
      BY DEF RepositoryKnown
    <2>2. DOMAIN s = Tracked
      BY DEF Late
    <2>3. pc \in {"refused", "toggles"}
      OBVIOUS
    <2> HIDE DEF pc, toggles, q
    <2>4. /\ t.pc = pc /\ t.manifest = m /\ t.changes = q
          /\ t.toggles = toggles /\ t.details = s.details
          /\ t.wrote = s.wrote /\ t.disturbed = s.disturbed /\ t.blind = blind
      BY ONLY <2>1, <2>2 DEF Tracked
    <2> QED
      BY ONLY <2>3, <2>4 DEF toggles
  <1> HIDE DEF q
  <1>2. IsPlan(q, m) /\ Once(q) /\ NoRulesets(q)
    BY PatchPlan DEF q
  <1>3. Plans(t)
    <2>1. DOMAIN t.details = {}
      BY <1>1 DEF RunInv, Plans, Listing
    <2>2. t.toggles \in Seq(DOMAIN ToggleDesired(t.manifest))
      BY <1>1, ToggleOrderIs
    <2> QED
      BY <1>1, <1>2, <2>1, <2>2 DEF Plans, NoRulesets, Reading, Listing
  <1>4. Knows(t, state) /\ Certain(t, state)
    <2>1. \A c \in Range(t.changes) : c.kind # "create_ruleset" /\ c.kind # "update_ruleset"
      BY <1>1, <1>2 DEF NoRulesets, RulesetChange
    <2>2. ~t.wrote
      BY <1>1 DEF Late
    <2> QED
      BY <1>1, <2>1, <2>2 DEF Knows, Certain
  <1>5. ASSUME seen = state PROVE Covers(t, state) /\ Needs(t, state)
    <2>1. FieldsCovered(t, state) /\ AdvancedCovered(t, state)
      BY <1>1, <1>5, PatchCovers DEF FieldsCovered, AdvancedCovered, q
    <2>2. TogglesCovered(t, state)
      BY <1>1, ToggleOrderIs DEF TogglesCovered
    <2>3. Covers(t, state)
      BY <1>1, <2>1, <2>2 DEF Covers
    <2>4. Needs(t, state)
      BY <1>1, <1>5, PatchCovers DEF Needs, q
    <2> QED
      BY <2>3, <2>4
  <1> QED
    BY <1>1, <1>3, <1>4, <1>5 DEF RunInv

LEMMA ToggleRead ==
  ASSUME NEW s, NEW state, NEW paged, NEW solo, Late(s), RunInv(s, state, paged, solo),
         s.pc = "toggles", s.toggles # <<>>, NEW enabled, NEW blind, NEW t, Late(t),
         t = ToggleKnown(s, enabled, blind),
         (enabled = state.toggles[Head(s.toggles)] /\ blind = s.blind) \/ blind = TRUE
  PROVE  RunInv(t, state, paged, solo)
  <1> DEFINE m    == s.manifest
             head == Head(s.toggles)
             q    == ToggleChanges(m, head, enabled)
  <1>1. /\ t.pc = "toggles" /\ t.manifest = m /\ t.changes = s.changes \o q
        /\ t.toggles = Tail(s.toggles) /\ t.details = s.details /\ t.mode = s.mode
        /\ t.wrote = s.wrote /\ t.disturbed = s.disturbed /\ t.blind = blind
    <2>1. t = [s EXCEPT !.toggles = Tail(@), !.blind = blind, !.changes = @ \o q]
      BY DEF ToggleKnown
    <2>2. DOMAIN s = Tracked
      BY DEF Late
    <2> HIDE DEF q
    <2> QED
      BY ONLY <2>1, <2>2, s.pc = "toggles" DEF Tracked
  <1>2. /\ head \in DOMAIN ToggleDesired(m)
        /\ Tail(s.toggles) \in Seq(DOMAIN ToggleDesired(m))
        /\ Range(s.toggles) = {head} \cup Range(Tail(s.toggles))
    BY RestOfSeq DEF RunInv, Plans
  <1>3. IsPlan(q, m) /\ Once(q) /\ NoRulesets(q)
    BY <1>2, TogglePlan
  <1>4. NoRulesets(s.changes) /\ IsPlan(s.changes, m)
    BY DEF RunInv, Plans, Reading, Listing, NoRulesets
  <1> HIDE DEF q
  <1>5. /\ IsPlan(s.changes \o q, m) /\ Once(s.changes \o q)
        /\ Range(s.changes \o q) = Range(s.changes) \cup Range(q)
    BY ONLY <1>3, <1>4, MorePlan
  <1>6. /\ enabled = ToggleDesired(m)[head] => Range(q) = {}
        /\ enabled # ToggleDesired(m)[head] =>
             Range(q) = {[kind |-> "toggle", toggle |-> head,
                          enabled |-> ToggleDesired(m)[head]]}
    BY DEF ToggleChanges, Range, q
  <1> HIDE DEF head
  <1>7. Plans(t)
    <2>1. NoRulesets(t.changes)
      BY <1>1, <1>3, <1>4, <1>5 DEF NoRulesets
    <2>2. DOMAIN t.details = {}
      BY <1>1 DEF RunInv, Plans, Listing
    <2> QED
      BY <1>1, <1>2, <1>5, <2>1, <2>2 DEF Plans, NoRulesets
  <1>8. Knows(t, state) /\ Certain(t, state)
    BY <1>1, <1>7, ListingKnows DEF Listing
  <1>9. ASSUME paged, ~t.disturbed, ~t.blind PROVE Covers(t, state) /\ (~t.wrote => Needs(t, state))
    <2>1. Covers(s, state) /\ (~s.wrote => Needs(s, state)) /\ enabled = state.toggles[head]
      BY <1>1, <1>9 DEF RunInv, head
    <2>2. FieldsCovered(s, state) /\ AdvancedCovered(s, state) /\ TogglesCovered(s, state)
      BY <2>1 DEF Covers, Reading, Listing
    <2>3. FieldsCovered(t, state) /\ AdvancedCovered(t, state)
      BY <1>1, <1>5, <2>2, CoveredMore
    <2>4. TogglesCovered(t, state)
      <3> SUFFICES ASSUME NEW u \in DOMAIN ToggleDesired(m), state.toggles[u] # ToggleDesired(m)[u]
                   PROVE  \/ \E c \in Range(t.changes) : c.kind = "toggle" /\ c.toggle = u
                          \/ u \in Range(t.toggles)
        BY <1>1 DEF TogglesCovered
      <3>1. CASE u = head
        <4> DEFINE c == [kind |-> "toggle", toggle |-> head, enabled |-> ToggleDesired(m)[head]]
        <4>1. Range(q) = {c}
          BY <1>6, <2>1, <3>1
        <4>2. c.kind = "toggle" /\ c.toggle = head
          OBVIOUS
        <4> HIDE DEF c
        <4> QED
          BY <1>1, <1>5, <3>1, <4>1, <4>2
      <3>2. CASE u # head
        BY <1>1, <1>2, <1>5, <2>2, <3>2 DEF TogglesCovered
      <3> QED
        BY <3>1, <3>2
    <2>5. Covers(t, state)
      BY <1>1, <2>3, <2>4 DEF Covers
    <2>6. \A c \in Range(q) : Needed(c, m, state)
      BY <1>6, <2>1 DEF Needed, RulesetChange
    <2>7. ~t.wrote => Needs(t, state)
      BY <1>1, <1>5, <2>1, <2>6 DEF Needs
    <2> QED
      BY <2>5, <2>7
  <1> QED
    BY <1>1, <1>7, <1>8, <1>9 DEF RunInv

\* On to the next read, with nothing new.
LEMMA Going ==
  ASSUME NEW s, NEW state, NEW paged, NEW solo, Late(s), RunInv(s, state, paged, solo),
         NEW pc, NEW t, Late(t), t = Onward(s, pc, <<>>),
         \/ /\ s.pc = "toggles" /\ s.toggles = <<>>
            /\ pc = IF DOMAIN s.manifest.pages = {} THEN "branch" ELSE "pages"
         \/ s.pc = "branch" /\ pc = "tag"
         \/ s.pc = "tag" /\ pc = "list"
  PROVE  RunInv(t, state, paged, solo)
  <1>1. s.changes \o <<>> = s.changes
    BY ConcatEmptySeq DEF RunInv, Plans, IsPlan
  <1>2. /\ t.pc = pc /\ t.manifest = s.manifest /\ t.changes = s.changes
        /\ t.toggles = s.toggles /\ t.details = s.details /\ t.mode = s.mode
        /\ t.wrote = s.wrote /\ t.disturbed = s.disturbed /\ t.blind = s.blind
    BY <1>1 DEF Late, Tracked, Onward
  <1>3. pc \in {"branch", "pages", "tag", "list"} /\ s.pc \in Listing
    BY DEF Listing
  <1>4. Plans(t)
    BY <1>2, <1>3 DEF RunInv, Plans, Reading, Listing
  <1>5. Knows(t, state) /\ Certain(t, state)
    BY <1>2, <1>3, <1>4, ListingKnows DEF Listing
  <1>6. Covers(s, state) => Covers(t, state)
    <2> SUFFICES ASSUME Covers(s, state) PROVE Covers(t, state)
      OBVIOUS
    <2>1. FieldsCovered(t, state) /\ AdvancedCovered(t, state) /\ TogglesCovered(t, state)
      BY <1>2, CoveredMore DEF Covers, Reading, Listing
    <2>2. pc \in {"branch", "tag", "list"} => PagesCovered(t, state)
      <3>1. CASE s.pc = "toggles"
        BY <1>2, <3>1 DEF PagesCovered
      <3>2. CASE s.pc \in {"branch", "tag"}
        BY <1>2, <3>2, CoveredMore DEF Covers
      <3> QED
        BY <3>1, <3>2
    <2> QED
      BY <1>2, <1>3, <2>1, <2>2 DEF Covers
  <1>7. Needs(s, state) => Needs(t, state)
    BY <1>2 DEF Needs
  <1> QED
    BY <1>2, <1>3, <1>4, <1>5, <1>6, <1>7 DEF RunInv

\* A site has what is desired of it key by key.
LEMMA SiteFits ==
  ASSUME NEW m, NEW site
  PROVE  LET desired == BuildPagesState(m)
         IN  Restrict(site, DOMAIN desired) = desired
               <=> \A k \in DOMAIN desired : site[k] = desired[k]
  <1> DEFINE desired == BuildPagesState(m)
             shown   == Restrict(site, DOMAIN desired)
  <1>1. desired = [k \in DOMAIN desired |-> desired[k]]
    BY DEF BuildPagesState, Over
  <1>2. shown = [k \in DOMAIN desired |-> site[k]]
    BY DEF Restrict
  <1> HIDE DEF desired, shown
  <1>3. shown = desired <=> \A k \in DOMAIN desired : site[k] = desired[k]
    BY <1>1, <1>2
  <1> QED
    BY <1>3 DEF desired, shown

LEMMA PagesRead ==
  ASSUME NEW s, NEW state, NEW paged, NEW solo, Late(s), RunInv(s, state, paged, solo),
         IsRepository(state), s.pc = "pages", NEW site, NEW blind, NEW t, Late(t),
         t = PagesKnown(s, site, blind),
         (site = state.pages /\ blind = s.blind) \/ blind = TRUE
  PROVE  RunInv(t, state, paged, solo)
  <1> DEFINE m       == s.manifest
             q       == PagesChanges(m, site)
             desired == BuildPagesState(m)
  <1>1. /\ t.pc = "branch" /\ t.manifest = m /\ t.changes = s.changes \o q
        /\ t.toggles = s.toggles /\ t.details = s.details /\ t.mode = s.mode
        /\ t.wrote = s.wrote /\ t.disturbed = s.disturbed /\ t.blind = blind
    <2>1. t = [s EXCEPT !.pc = "branch", !.blind = blind, !.changes = @ \o q]
      BY DEF PagesKnown
    <2>2. DOMAIN s = Tracked
      BY DEF Late
    <2> HIDE DEF q
    <2> QED
      BY ONLY <2>1, <2>2 DEF Tracked
  <1>2. DOMAIN m.pages # {}
    BY DEF RunInv, Plans
  <1>3. IsPlan(q, m) /\ Once(q) /\ NoRulesets(q)
    BY <1>2, PagesPlan
  <1>4. NoRulesets(s.changes) /\ IsPlan(s.changes, m)
    BY DEF RunInv, Plans, Reading, Listing, NoRulesets
  <1> HIDE DEF q
  <1>5. /\ IsPlan(s.changes \o q, m) /\ Once(s.changes \o q)
        /\ Range(s.changes \o q) = Range(s.changes) \cup Range(q)
    BY <1>3, <1>4, MorePlan
  <1>6. Plans(t)
    <2>1. NoRulesets(t.changes)
      BY <1>1, <1>3, <1>4, <1>5 DEF NoRulesets
    <2>2. DOMAIN t.details = {} /\ t.toggles = <<>>
          /\ t.toggles \in Seq(DOMAIN ToggleDesired(m))
      BY <1>1 DEF RunInv, Plans, Listing
    <2> QED
      BY <1>1, <1>5, <2>1, <2>2 DEF Plans, NoRulesets
  <1>7. Knows(t, state) /\ Certain(t, state)
    BY <1>1, <1>6, ListingKnows DEF Listing
  <1>8. ASSUME paged, ~t.disturbed, ~t.blind PROVE Covers(t, state) /\ (~t.wrote => Needs(t, state))
    <2>1. Covers(s, state) /\ (~s.wrote => Needs(s, state)) /\ site = state.pages
      BY <1>1, <1>8 DEF RunInv
    <2>2. FieldsCovered(t, state) /\ AdvancedCovered(t, state) /\ TogglesCovered(t, state)
      BY <1>1, <1>5, <2>1, CoveredMore DEF Covers, Reading, Listing
    <2>3. PagesCovered(t, state)
      <3>1. CASE site = {}
        <4>1. \E c \in Range(q) : c.kind = "create_pages"
          BY <1>2, <3>1, PagesPlan DEF q
        <4> QED
          BY <1>1, <1>5, <4>1 DEF PagesCovered
      <3>2. ASSUME NEW old \in site, Restrict(old, DOMAIN desired) = desired
            PROVE  PagesCovered(t, state)
        <4>1. \A k \in DOMAIN desired : old[k] = desired[k]
          BY <3>2, SiteFits
        <4> QED
          BY <1>1, <2>1, <4>1 DEF PagesCovered
      <3>3. ASSUME site # {}, Range(q) = {[kind |-> "update_pages", payload |-> desired]}
            PROVE  PagesCovered(t, state)
        <4> DEFINE c == [kind |-> "update_pages", payload |-> desired]
        <4>1. c \in Range(t.changes) /\ c.kind = "update_pages" /\ c.payload = desired
          BY <1>1, <1>5, <3>3
        <4> HIDE DEF c, desired
        <4>2. PICK old \in state.pages : TRUE
          BY <2>1, <3>3
        <4>3. \A k \in DOMAIN desired :
                \E d \in Range(t.changes) : d.kind = "update_pages" /\ k \in DOMAIN d.payload
          BY <4>1
        <4> QED
          BY <1>1, <4>2, <4>3 DEF PagesCovered, desired
      <3> QED
        BY <1>2, <3>1, <3>2, <3>3, PagesPlan DEF q
    <2>4. Covers(t, state)
      BY <1>1, <2>2, <2>3 DEF Covers
    <2>5. ASSUME NEW c \in Range(q) PROVE Needed(c, m, state)
      <3>1. /\ c.kind = "create_pages" /\ site = {}
            \/ /\ c.kind = "update_pages"
               /\ ~\E old \in site : Restrict(old, DOMAIN desired) = desired
        <4>1. Range(<<>>) = {}
          BY DEF Range
        <4> QED
          BY <1>2, <2>5, <4>1, PagesPlan DEF q
      <3>2. ~\E old \in state.pages : \A k \in DOMAIN desired : old[k] = desired[k]
        BY <2>1, <3>1, SiteFits
      <3> QED
        BY <3>1, <3>2 DEF Needed, RulesetChange
    <2>6. ~t.wrote => Needs(t, state)
      BY <1>1, <1>5, <2>1, <2>5 DEF Needs
    <2> QED
      BY <2>4, <2>6
  <1> QED
    BY <1>1, <1>6, <1>7, <1>8 DEF RunInv

\* The end of an apply, with nothing left to do.
LEMMA Reporting ==
  ASSUME NEW s, NEW state, NEW paged, NEW solo, Late(s), RunInv(s, state, paged, solo),
         s.pc = "apply", s.changes = <<>>, NEW t, Late(t),
         t = Onward(s, "done", <<>>)
  PROVE  RunInv(t, state, paged, solo)
  <1>1. s.changes \o <<>> = s.changes
    BY ConcatEmptySeq DEF RunInv, Plans, IsPlan
  <1>2. /\ t.pc = "done" /\ t.manifest = s.manifest /\ t.changes = s.changes
        /\ t.toggles = s.toggles /\ t.mode = s.mode
        /\ t.wrote = s.wrote /\ t.disturbed = s.disturbed /\ t.blind = s.blind
    BY <1>1 DEF Late, Tracked, Onward
  <1>3. Plans(t)
    BY <1>2 DEF RunInv, Plans, Reading, Listing
  <1>4. /\ Knows(s, state) => Knows(t, state)
        /\ Certain(s, state) => Certain(t, state)
        /\ Needs(s, state) => Needs(t, state)
    BY <1>2 DEF Knows, Certain, Needs
  <1>5. Covers(s, state) => Covers(t, state)
    <2>1. RulesetsCovered(s, state) => RulesetsCovered(t, state)
      BY <1>2 DEF RulesetsCovered
    <2> QED
      BY <1>2, <2>1, CoveredMore DEF Covers, Reading, Listing
  <1> QED
    BY <1>2, <1>3, <1>4, <1>5 DEF RunInv

-----------------------------------------------------------------------------
(* The rulesets: listed, read one by one, and planned.                       *)

\* On one page, all of the rulesets are listed.
LEMMA AllListed ==
  ASSUME NEW rulesets, IsFiniteSet(rulesets), Cardinality(rulesets) <= PageSize,
         NEW ids \in SUBSET rulesets, ids = rulesets \/ Cardinality(ids) = PageSize
  PROVE  ids = rulesets
  <1>1. /\ Cardinality(rulesets) \in Nat /\ Cardinality(ids) \in Nat
        /\ Cardinality(ids) <= Cardinality(rulesets)
        /\ Cardinality(rulesets) = Cardinality(ids) => ids = rulesets
    BY FS_Subset, FS_CardinalityType
  <1> QED
    BY <1>1, PageSizeAssumption

LEMMA RulesetsListed ==
  ASSUME NEW s, NEW state, NEW paged, NEW solo, Late(s), RunInv(s, state, paged, solo),
         s.pc = "list",
         NEW ids \in SUBSET DOMAIN state.rulesets, paged => ids = DOMAIN state.rulesets,
         NEW found,
         found = {id \in ids : /\ RulesetKey(state.rulesets[id]) \in ManagedKeys(s.manifest)
                               /\ state.rulesets[id].source = "Repository"},
         NEW t, Late(t),
         t = ListKnown(s, found, state)
  PROVE  RunInv(t, state, paged, solo)
  <1> DEFINE m      == s.manifest
             listed == [id \in found |-> RulesetKey(state.rulesets[id])]
  <1>1. /\ t.pc = "details" /\ t.manifest = m /\ t.changes = s.changes
        /\ t.toggles = s.toggles /\ t.details = s.details /\ t.mode = s.mode
        /\ t.wrote = s.wrote /\ t.disturbed = s.disturbed /\ t.blind = s.blind
        /\ t.listed = listed
    <2>1. t = [s EXCEPT !.pc = "details", !.listed = listed]
      BY DEF ListKnown
    <2>2. DOMAIN s = Tracked
      BY DEF Late
    <2> HIDE DEF listed
    <2> QED
      BY ONLY <2>1, <2>2 DEF Tracked
  <1>2. /\ DOMAIN listed = found
        /\ \A id \in found : listed[id] = RulesetKey(state.rulesets[id])
    OBVIOUS
  <1> HIDE DEF listed
  <1>3. Plans(t)
    BY <1>1 DEF RunInv, Plans, Reading, Listing
  <1>4. \A c \in Range(t.changes) : c.kind # "create_ruleset" /\ c.kind # "update_ruleset"
    BY <1>3, <1>1 DEF Plans, Reading, RulesetChange
  <1>5. ~t.wrote /\ DOMAIN t.details = {}
    <2>1. DOMAIN s.details = {}
      BY DEF RunInv, Plans, Listing
    <2>2. ~s.wrote
      BY DEF Late
    <2> QED
      BY <1>1, <2>1, <2>2
  <1>6. Knows(t, state)
    <2>1. \A id \in found : id \in Own(state, listed[id]) /\ listed[id] \in ManagedKeys(m)
      BY <1>2 DEF Own
    <2> QED
      BY <1>1, <1>2, <1>4, <1>5, <2>1 DEF Knows
  <1>7. paged => Certain(t, state)
    <2> SUFFICES ASSUME paged, NEW target \in Targets, NEW id \in Own(state, KeyOf(m, target))
                 PROVE  Key(t.listed, id) /\ t.listed[id] = KeyOf(m, target)
      BY <1>1, <1>4, <1>5 DEF Certain
    <2>1. KeyOf(m, target) \in ManagedKeys(m)
      BY DEF KeyOf, ManagedKeys
    <2>2. id \in found /\ RulesetKey(state.rulesets[id]) = KeyOf(m, target)
      BY <2>1 DEF Own
    <2> QED
      BY <1>1, <1>2, <2>2 DEF Key
  <1>8. Covers(s, state) => Covers(t, state)
    BY <1>1, CoveredMore DEF Covers, Reading, Listing
  <1>9. Needs(s, state) => Needs(t, state)
    BY <1>1 DEF Needs
  <1> QED
    BY <1>1, <1>3, <1>6, <1>7, <1>8, <1>9 DEF RunInv

LEMMA RulesetRead ==
  ASSUME NEW s, NEW state, NEW paged, NEW solo, Late(s), RunInv(s, state, paged, solo),
         s.pc = "details", NEW id \in DOMAIN s.listed, ~Key(s.details, s.listed[id]),
         NEW t, Late(t),
         t = RulesetKnown(s, id, state)
  PROVE  RunInv(t, state, paged, solo)
  <1> DEFINE m       == s.manifest
             key     == s.listed[id]
             found   == [id |-> id, is |-> Payload(state.rulesets[id])]
             listed  == Restrict(s.listed, DOMAIN s.listed \ {id})
             details == Put(s.details, key, found)
  <1>1. /\ t.pc = "details" /\ t.manifest = m /\ t.changes = s.changes
        /\ t.toggles = s.toggles /\ t.mode = s.mode
        /\ t.wrote = s.wrote /\ t.disturbed = s.disturbed /\ t.blind = s.blind
        /\ t.listed = listed /\ t.details = details
    BY DEF Late, Tracked, RulesetKnown
  <1>2. /\ DOMAIN listed = DOMAIN s.listed \ {id}
        /\ \A i \in DOMAIN listed : listed[i] = s.listed[i]
    BY RestrictIs
  <1>3. /\ DOMAIN details = DOMAIN s.details \cup {key} /\ details[key] = found
        /\ \A k \in DOMAIN s.details \ {key} : details[k] = s.details[k]
    BY DEF Put, Over
  <1>4. found.id = id /\ found.is = Payload(state.rulesets[id]) /\ key \notin DOMAIN s.details
    BY DEF Key
  <1> HIDE DEF listed, details, found
  <1>5. Plans(t)
    BY <1>1 DEF RunInv, Plans, Reading, Listing
  <1>6. \A c \in Range(t.changes) : c.kind # "create_ruleset" /\ c.kind # "update_ruleset"
    BY <1>1, <1>5 DEF Plans, Reading, RulesetChange
  <1>7. ~t.wrote
    BY <1>1 DEF Late
  <1>8. Knows(s, state) => Knows(t, state)
    <2> SUFFICES ASSUME Knows(s, state) PROVE Knows(t, state)
      OBVIOUS
    <2>1. \A i \in DOMAIN s.listed :
            s.listed[i] \in ManagedKeys(m) /\ i \in Own(state, s.listed[i])
      BY DEF Knows
    <2>2. \A k \in DOMAIN s.details :
            /\ s.details[k].id \in Own(state, k)
            /\ s.details[k].is = Payload(state.rulesets[s.details[k].id])
      BY DEF Knows
    <2>3. ASSUME NEW k \in DOMAIN details
          PROVE  /\ details[k].id \in Own(state, k)
                 /\ details[k].is = Payload(state.rulesets[details[k].id])
      <3>1. CASE k = key
        BY <1>3, <1>4, <2>1, <3>1
      <3>2. CASE k # key
        BY <1>3, <2>2, <3>2
      <3> QED
        BY <3>1, <3>2
    <2>4. \A i \in DOMAIN listed : listed[i] \in ManagedKeys(m) /\ i \in Own(state, listed[i])
      BY <1>2, <2>1
    <2> QED
      BY <1>1, <1>6, <2>3, <2>4 DEF Knows
  <1>9. Certain(s, state) => Certain(t, state)
    <2> SUFFICES ASSUME Certain(s, state), NEW target \in Targets,
                        NEW i \in Own(state, KeyOf(m, target))
                 PROVE  \/ Key(listed, i) /\ listed[i] = KeyOf(m, target)
                        \/ Key(details, KeyOf(m, target)) /\ details[KeyOf(m, target)].id = i
      BY <1>1, <1>6, <1>7 DEF Certain
    <2>1. \/ Key(s.listed, i) /\ s.listed[i] = KeyOf(m, target)
          \/ Key(s.details, KeyOf(m, target)) /\ s.details[KeyOf(m, target)].id = i
      BY DEF Certain
    <2>2. CASE i = id /\ Key(s.listed, i) /\ s.listed[i] = KeyOf(m, target)
      BY <1>3, <1>4, <2>2 DEF Key
    <2>3. CASE i # id /\ Key(s.listed, i) /\ s.listed[i] = KeyOf(m, target)
      BY <1>2, <2>3 DEF Key
    <2>4. CASE Key(s.details, KeyOf(m, target)) /\ s.details[KeyOf(m, target)].id = i
      BY <1>3, <1>4, <2>4 DEF Key
    <2> QED
      BY <2>1, <2>2, <2>3, <2>4
  <1>10. Covers(s, state) => Covers(t, state)
    BY <1>1, CoveredMore DEF Covers, Reading, Listing
  <1>11. Needs(s, state) => Needs(t, state)
    BY <1>1 DEF Needs
  <1> QED
    BY <1>1, <1>5, <1>8, <1>9, <1>10, <1>11 DEF RunInv

\* What is planned for one target: nothing when its ruleset is as the manifest
\* says, the payload for the one there is, or a new one where there is none.
LEMMA TargetPlanned ==
  ASSUME NEW m, NEW target \in Targets, NEW details, NEW state, IsRepository(state),
         Key(details, KeyOf(m, target)) =>
           LET found == details[KeyOf(m, target)]
           IN  /\ found.id \in Own(state, KeyOf(m, target))
               /\ found.is = Payload(state.rulesets[found.id]),
         \A id \in Own(state, KeyOf(m, target)) :
           Key(details, KeyOf(m, target)) /\ details[KeyOf(m, target)].id = id
  PROVE  LET q == RulesetChanges(m, target, details)
         IN  /\ RulesetMet(state, m, target) \/ \E c \in Range(q) : c.payload.target = target
             /\ Range(q) # {} => ~RulesetMet(state, m, target)
  <1> DEFINE key     == KeyOf(m, target)
             found   == details[key]
             types   == ManagedRuleTypes(m, target)
             payload == BuildRulesetPayload(m, target)
             same    == NormalizeRulesetPayload(found.is, types)
                          = NormalizeRulesetPayload(payload, types)
             q       == RulesetChanges(m, target, details)
  <1>1. ASSUME Key(details, key)
        PROVE  same <=> RulesetMet(state, m, target)
    <2> DEFINE is      == found.is
               ruleset == state.rulesets[found.id]
    <2>1. found.id \in Own(state, key) /\ is = Payload(ruleset)
      BY <1>1
    <2>2. Own(state, key) = {found.id}
      BY <1>1, <2>1
    <2>3. DOMAIN ruleset = RulesetFields /\ RulesetKey(ruleset) = key
      BY <2>1 DEF Own, IsRepository, RulesetFields, PayloadKeys
    <2>4. is = [k \in PayloadKeys |-> ruleset[k]]
      <3>1. RulesetFields \ {"source"} = PayloadKeys
        BY DEF RulesetFields, PayloadKeys
      <3> QED
        BY <2>1, <2>3, <3>1 DEF Payload
    <2> HIDE DEF is, ruleset, found
    <2>5. /\ is = [k \in PayloadKeys |-> is[k]]
          /\ is.name = ruleset.name /\ is.target = ruleset.target
          /\ is.enforcement = ruleset.enforcement /\ is.bypass_actors = ruleset.bypass_actors
          /\ is.include = ruleset.include /\ is.exclude = ruleset.exclude
          /\ is.rules = ruleset.rules
      BY <2>4 DEF PayloadKeys
    <2>6. RulesetKey(is) = key
      BY <2>3, <2>5 DEF RulesetKey
    <2>7. NormalizeRulesetPayload(is, types) = NormalizeRulesetPayload(payload, types)
            <=> RulesetMeets(m, target, is)
      BY <2>5, <2>6, NormalizedIs
    <2>8. RulesetMeets(m, target, is) <=> RulesetMeets(m, target, ruleset)
      BY <2>5, MeetsIs
    <2>9. RulesetMet(state, m, target) <=> RulesetMeets(m, target, ruleset)
      BY <2>1, <2>2 DEF RulesetMet, ruleset
    <2> QED
      BY <2>7, <2>8, <2>9 DEF is
  <1>2. ~Key(details, key) => ~RulesetMet(state, m, target)
    BY DEF RulesetMet
  <1>3. payload.target = target
    BY PayloadIs
  <1>4. \/ q = <<>> /\ Key(details, key) /\ same
        \/ \E c : /\ q = <<c>> /\ c.payload = payload
                  /\ ~Key(details, key) \/ (Key(details, key) /\ ~same)
    BY RulesetPlan
  <1> HIDE DEF same, q, payload, key
  <1>5. CASE q = <<>> /\ Key(details, key) /\ same
    <2>1. Range(q) = {}
      BY <1>5 DEF Range
    <2> QED
      BY <1>1, <1>5, <2>1 DEF q
  <1>6. ASSUME NEW c, q = <<c>>, c.payload = payload,
               ~Key(details, key) \/ (Key(details, key) /\ ~same)
        PROVE  /\ c \in Range(q) /\ c.payload.target = target
               /\ ~RulesetMet(state, m, target)
    <2>1. Range(q) = {c}
      BY <1>6 DEF Range
    <2> QED
      BY <1>1, <1>2, <1>3, <1>6, <2>1
  <1> QED
    BY <1>4, <1>5, <1>6 DEF q

\* What a change of a ruleset is planned from.
LEMMA PlannedFrom ==
  ASSUME NEW m, NEW details,
         NEW c \in Range(RulesetChanges(m, "branch", details))
                     \cup Range(RulesetChanges(m, "tag", details))
  PROVE  \E target \in Targets :
           /\ c.payload.target = target /\ RulesetKey(c.payload) = KeyOf(m, target)
           /\ \/ c.kind = "create_ruleset" /\ ~Key(details, KeyOf(m, target))
              \/ /\ c.kind = "update_ruleset" /\ Key(details, KeyOf(m, target))
                 /\ c.id = details[KeyOf(m, target)].id
  <1>1. PICK target \in Targets : c \in Range(RulesetChanges(m, target, details))
    BY DEF Targets
  <1> DEFINE q == RulesetChanges(m, target, details)
  <1>2. \/ q = <<>>
        \/ \E d : /\ q = <<d>> /\ d.payload = BuildRulesetPayload(m, target)
                  /\ \/ d.kind = "create_ruleset" /\ ~Key(details, KeyOf(m, target))
                     \/ /\ d.kind = "update_ruleset" /\ Key(details, KeyOf(m, target))
                        /\ d.id = details[KeyOf(m, target)].id
    BY RulesetPlan
  <1> HIDE DEF q
  <1>3. q # <<>>
    <2>1. Range(<<>>) = {}
      BY DEF Range
    <2> QED
      BY <1>1, <2>1 DEF q
  <1>4. PICK d : /\ q = <<d>> /\ d.payload = BuildRulesetPayload(m, target)
                 /\ \/ d.kind = "create_ruleset" /\ ~Key(details, KeyOf(m, target))
                    \/ /\ d.kind = "update_ruleset" /\ Key(details, KeyOf(m, target))
                       /\ d.id = details[KeyOf(m, target)].id
    BY <1>2, <1>3
  <1>5. Range(q) = {d}
    BY <1>4 DEF Range
  <1>6. c = d
    BY <1>1, <1>5 DEF q
  <1>7. /\ BuildRulesetPayload(m, target).target = target
        /\ RulesetKey(BuildRulesetPayload(m, target)) = KeyOf(m, target)
    BY PayloadIs
  <1> QED
    BY <1>4, <1>6, <1>7

LEMMA RulesetsPlanned ==
  ASSUME NEW s, NEW state, NEW paged, NEW solo, Late(s), RunInv(s, state, paged, solo),
         IsRepository(state), s.pc = "details", DOMAIN s.listed = {}, NEW t, Late(t),
         t = Onward(s, IF s.mode = "apply" THEN "apply" ELSE "done",
                    RulesetChanges(s.manifest, "branch", s.details)
                      \o RulesetChanges(s.manifest, "tag", s.details))
  PROVE  RunInv(t, state, paged, solo)
  <1> DEFINE m  == s.manifest
             q1 == RulesetChanges(m, "branch", s.details)
             q2 == RulesetChanges(m, "tag", s.details)
             q  == q1 \o q2
  <1>1. /\ t.pc = (IF s.mode = "apply" THEN "apply" ELSE "done") /\ t.manifest = m
        /\ t.changes = s.changes \o q
        /\ t.toggles = s.toggles /\ t.mode = s.mode
        /\ t.wrote = s.wrote /\ t.disturbed = s.disturbed /\ t.blind = s.blind
    <2> HIDE DEF q
    <2>1. t = [s EXCEPT !.pc = IF s.mode = "apply" THEN "apply" ELSE "done", !.changes = @ \o q]
      BY DEF q, q1, q2, m, Onward
    <2>2. Late(s)
      OBVIOUS
    <2>3. DOMAIN s = Tracked
      BY ONLY <2>2 DEF Late
    <2> QED
      BY ONLY <2>1, <2>3 DEF Tracked
  <1>2. IsPlan(q, m) /\ Once(q) /\ Range(q) = Range(q1) \cup Range(q2)
    BY RulesetsPlan
  <1>3. \A c \in Range(q) : RulesetChange(c)
    BY <1>2, RulesetsPlan
  <1>4. NoRulesets(s.changes) /\ IsPlan(s.changes, m) /\ s.toggles = <<>>
    BY DEF RunInv, Plans, Reading, Listing, NoRulesets
  <1>5. ASSUME NEW c \in Range(q)
        PROVE  \E target \in Targets :
                 /\ c.payload.target = target /\ RulesetKey(c.payload) = KeyOf(m, target)
                 /\ \/ c.kind = "create_ruleset" /\ ~Key(s.details, KeyOf(m, target))
                    \/ /\ c.kind = "update_ruleset" /\ Key(s.details, KeyOf(m, target))
                       /\ c.id = s.details[KeyOf(m, target)].id
    BY <1>2, PlannedFrom
  <1> HIDE DEF q, q1, q2
  <1>6. /\ IsPlan(s.changes \o q, m) /\ Once(s.changes \o q)
        /\ Range(s.changes \o q) = Range(s.changes) \cup Range(q)
    <2> HIDE DEF m
    <2>1. IsPlan(q, m) /\ Once(q) /\ NoRulesets(s.changes) /\ IsPlan(s.changes, m)
      BY ONLY <1>2, <1>4
    <2> QED
      BY ONLY <2>1, MorePlan
  <1>7. Plans(t)
    <2>1. t.toggles = <<>> /\ t.toggles \in Seq(DOMAIN ToggleDesired(t.manifest))
      <3>1. s.toggles \in Seq(DOMAIN ToggleDesired(s.manifest))
        BY DEF RunInv, Plans
      <3> QED
        BY ONLY <1>1, <1>4, <3>1
    <2>2. IsPlan(t.changes, t.manifest) /\ Once(t.changes)
      BY ONLY <1>1, <1>6
    <2>3. /\ t.pc \notin Reading /\ t.pc \notin Listing /\ t.pc # "pages"
          /\ t.pc = "apply" => t.mode = "apply"
          /\ ~(t.pc = "done" /\ t.mode = "apply")
      BY ONLY <1>1 DEF Reading, Listing
    <2> QED
      BY ONLY <2>1, <2>2, <2>3 DEF Plans
  <1>8. Knows(s, state) => Knows(t, state)
    <2> SUFFICES ASSUME Knows(s, state), NEW c \in Range(t.changes), c.kind = "update_ruleset"
                 PROVE  c.id \in Own(state, RulesetKey(c.payload))
      BY <1>1 DEF Knows
    <2>1. c \in Range(q)
      BY <1>1, <1>4, <1>6 DEF NoRulesets, RulesetChange
    <2>2. PICK target \in Targets :
            /\ RulesetKey(c.payload) = KeyOf(m, target)
            /\ Key(s.details, KeyOf(m, target)) /\ c.id = s.details[KeyOf(m, target)].id
      BY <1>5, <2>1
    <2> QED
      BY <2>2 DEF Knows, Key
  <1>9. Certain(s, state) => \A target \in Targets : \A id \in Own(state, KeyOf(m, target)) :
                                /\ Key(s.details, KeyOf(m, target))
                                /\ s.details[KeyOf(m, target)].id = id
    BY DEF Certain, Key
  <1>10. Certain(s, state) => Certain(t, state)
    <2> SUFFICES ASSUME Certain(s, state) PROVE Certain(t, state)
      OBVIOUS
    <2>1. ASSUME NEW c \in Range(t.changes)
          PROVE  /\ c.kind = "create_ruleset" => Own(state, RulesetKey(c.payload)) = {}
                 /\ c.kind = "update_ruleset" => Own(state, RulesetKey(c.payload)) \subseteq {c.id}
      <3>1. CASE c \in Range(q)
        <4>1. PICK target \in Targets :
                /\ RulesetKey(c.payload) = KeyOf(m, target)
                /\ \/ c.kind = "create_ruleset" /\ ~Key(s.details, KeyOf(m, target))
                   \/ /\ c.kind = "update_ruleset" /\ Key(s.details, KeyOf(m, target))
                      /\ c.id = s.details[KeyOf(m, target)].id
          BY <1>5, <3>1
        <4> QED
          BY <1>9, <4>1
      <3>2. CASE c \in Range(s.changes)
        BY <1>4, <3>2 DEF NoRulesets, RulesetChange
      <3> QED
        BY <1>1, <1>6, <2>1, <3>1, <3>2
    <2>2. \A target \in Targets : \E id : Own(state, KeyOf(m, target)) \subseteq {id}
      BY <1>9
    <2>3. t.pc # "details" /\ t.manifest = m
      BY ONLY <1>1
    <2> QED
      BY ONLY <2>1, <2>2, <2>3 DEF Certain
  <1>11. ASSUME paged, ~t.disturbed, ~t.blind PROVE Covers(t, state) /\ (~t.wrote => Needs(t, state))
    <2>1. /\ Covers(s, state) /\ (~s.wrote => Needs(s, state))
          /\ Knows(s, state) /\ Certain(s, state)
      BY <1>1, <1>11 DEF RunInv
    <2>2. /\ FieldsCovered(t, state) /\ AdvancedCovered(t, state) /\ TogglesCovered(t, state)
          /\ PagesCovered(t, state)
      <3>1. /\ FieldsCovered(s, state) /\ AdvancedCovered(s, state) /\ TogglesCovered(s, state)
            /\ PagesCovered(s, state)
        BY <2>1 DEF Covers, Reading, Listing
      <3>2. /\ t.manifest = s.manifest /\ Range(s.changes) \subseteq Range(t.changes)
            /\ Range(s.toggles) = Range(t.toggles)
        BY <1>1, <1>6
      <3> QED
        BY ONLY <3>1, <3>2, CoveredMore
    <2>3. ASSUME NEW target \in Targets
          PROVE  LET p == RulesetChanges(m, target, s.details)
                 IN  /\ RulesetMet(state, m, target) \/ \E c \in Range(p) : c.payload.target = target
                     /\ Range(p) # {} => ~RulesetMet(state, m, target)
      <3>1. Key(s.details, KeyOf(m, target)) =>
              LET found == s.details[KeyOf(m, target)]
              IN  /\ found.id \in Own(state, KeyOf(m, target))
                  /\ found.is = Payload(state.rulesets[found.id])
        BY <2>1 DEF Knows, Key
      <3> QED
        BY <1>9, <2>1, <3>1, TargetPlanned
    <2>4. RulesetsCovered(t, state)
      <3> SUFFICES ASSUME NEW target \in Targets
                   PROVE  \/ RulesetMet(state, m, target)
                          \/ \E c \in Range(t.changes) : RulesetChange(c) /\ c.payload.target = target
        BY <1>1 DEF RulesetsCovered
      <3>1. target = "branch" \/ target = "tag"
        BY DEF Targets
      <3>2. Range(RulesetChanges(m, target, s.details)) \subseteq Range(q)
        BY <1>2, <3>1 DEF q1, q2
      <3> QED
        BY <1>1, <1>3, <1>6, <2>3, <3>2
    <2>5. Covers(t, state)
      BY <2>2, <2>4 DEF Covers
    <2>6. ASSUME NEW c \in Range(q) PROVE Needed(c, m, state)
      <3>1. PICK target \in Targets : c \in Range(RulesetChanges(m, target, s.details))
        BY <1>2, <2>6 DEF Targets, q1, q2
      <3>2. c.payload.target = target
        BY <3>1, RulesetsPlan DEF Targets
      <3>3. ~RulesetMet(state, m, target)
        BY <2>3, <3>1
      <3> QED
        BY <1>3, <2>6, <3>2, <3>3 DEF Needed, RulesetChange
    <2>7. ~t.wrote => Needs(t, state)
      BY <1>1, <1>6, <2>1, <2>6 DEF Needs
    <2> QED
      BY <2>5, <2>7
  <1> QED
    BY <1>1, <1>7, <1>8, <1>10, <1>11 DEF RunInv

-----------------------------------------------------------------------------
(* The writes of a run.                                                      *)

LEMMA RulesetAfter ==
  ASSUME NEW m, NEW c, IsChange(c, m), RulesetChange(c), NEW before, NEW after,
         SetsRuleset(c, before, after)
  PROVE  \E target \in Targets, id \in DOMAIN after.rulesets :
           /\ c.payload.target = target /\ RulesetKey(c.payload) = KeyOf(m, target)
           /\ RulesetKey(after.rulesets[id]) = KeyOf(m, target)
           /\ RulesetMeets(m, target, after.rulesets[id])
           /\ DOMAIN after.rulesets = DOMAIN before.rulesets \cup {id}
           /\ \A i \in DOMAIN before.rulesets \ {id} : after.rulesets[i] = before.rulesets[i]
           /\ \/ /\ c.kind = "create_ruleset" /\ id \notin DOMAIN before.rulesets
                 /\ after.rulesets[id].source = "Repository"
              \/ /\ c.kind = "update_ruleset" /\ id = c.id /\ id \in DOMAIN before.rulesets
                 /\ after.rulesets[id].source = before.rulesets[id].source
  <1>1. PICK target \in Targets : c.payload = BuildRulesetPayload(m, target)
    BY DEF IsChange, RulesetChange
  <1>2. c.payload.target = target /\ RulesetKey(c.payload) = KeyOf(m, target)
    BY <1>1, PayloadIs
  <1>3. PICK id \in DOMAIN after.rulesets :
          /\ IF c.kind = "create_ruleset"
             THEN /\ id \notin DOMAIN before.rulesets
                  /\ after.rulesets[id].source = "Repository"
             ELSE /\ id = c.id /\ id \in DOMAIN before.rulesets
                  /\ after.rulesets[id].source = before.rulesets[id].source
          /\ DOMAIN after.rulesets = DOMAIN before.rulesets \cup {id}
          /\ \A k \in PayloadKeys : after.rulesets[id][k] = c.payload[k]
          /\ \A i \in DOMAIN before.rulesets \ {id} : after.rulesets[i] = before.rulesets[i]
    BY DEF SetsRuleset
  <1>4. /\ RulesetKey(after.rulesets[id]) = KeyOf(m, target)
        /\ RulesetMeets(m, target, after.rulesets[id])
    BY <1>1, <1>3, PayloadMeets
  <1> QED
    BY <1>2, <1>3, <1>4 DEF RulesetChange

LEMMA KeysDiffer ==
  ASSUME NEW m, NEW x, NEW y, KeyOf(m, x) = KeyOf(m, y)
  PROVE  x = y
  BY DEF KeyOf

\* A call adds one ruleset to those of a key at most, its own, whatever it finds.
LEMMA OwnGrows ==
  ASSUME NEW m, NEW c, IsChange(c, m), NEW before, NEW after,
         SetsRuleset(c, before, after), NEW target \in Targets
  PROVE  LET old == Own(before, KeyOf(m, target))
             new == Own(after, KeyOf(m, target))
         IN  /\ ~RulesetChange(c) \/ c.payload.target # target => new \subseteq old
             /\ \E id : /\ new \subseteq old \cup {id}
                        /\ c.kind = "update_ruleset" => id = c.id
  <1>1. CASE ~RulesetChange(c)
    BY <1>1 DEF SetsRuleset, Own, RulesetChange
  <1>2. CASE RulesetChange(c)
    <2>1. PICK goal \in Targets, id \in DOMAIN after.rulesets :
            /\ c.payload.target = goal
            /\ RulesetKey(after.rulesets[id]) = KeyOf(m, goal)
            /\ DOMAIN after.rulesets = DOMAIN before.rulesets \cup {id}
            /\ \A i \in DOMAIN before.rulesets \ {id} : after.rulesets[i] = before.rulesets[i]
            /\ c.kind = "update_ruleset" => id = c.id
      BY <1>2, RulesetAfter
    <2>2. Own(after, KeyOf(m, target)) \subseteq Own(before, KeyOf(m, target)) \cup {id}
      BY <2>1 DEF Own
    <2>3. ASSUME goal # target PROVE id \notin Own(after, KeyOf(m, target))
      BY <2>1, <2>3, KeysDiffer DEF Own
    <2> DEFINE old == Own(before, KeyOf(m, target))
               new == Own(after, KeyOf(m, target))
    <2> HIDE DEF old, new
    <2>4. c.payload.target # target => new \subseteq old
      BY <2>1, <2>2, <2>3 DEF old, new
    <2>5. new \subseteq old \cup {id} /\ (c.kind = "update_ruleset" => id = c.id)
      BY <2>1, <2>2 DEF old, new
    <2> QED
      BY <1>2, <2>4, <2>5 DEF old, new
  <1> QED
    BY <1>1, <1>2

\* And of rulesets that the run knows, it touches those of its key only.
LEMMA OwnAfter ==
  ASSUME NEW m, NEW c, IsChange(c, m), NEW before, NEW after,
         SetsRuleset(c, before, after), NEW target \in Targets,
         c.kind = "update_ruleset" => c.id \in Own(before, RulesetKey(c.payload))
  PROVE  LET old == Own(before, KeyOf(m, target))
             new == Own(after, KeyOf(m, target))
         IN  /\ ~RulesetChange(c) \/ c.payload.target # target =>
                  /\ new = old
                  /\ \A id \in old : after.rulesets[id] = before.rulesets[id]
             /\ RulesetChange(c) /\ c.payload.target = target =>
                  \E id : /\ new = old \cup {id}
                          /\ c.kind = "update_ruleset" => id = c.id
                          /\ RulesetMeets(m, target, after.rulesets[id])
  <1>1. CASE ~RulesetChange(c)
    BY <1>1 DEF SetsRuleset, Own, RulesetChange
  <1>2. CASE RulesetChange(c)
    <2>1. PICK goal \in Targets, id \in DOMAIN after.rulesets :
            /\ c.payload.target = goal /\ RulesetKey(c.payload) = KeyOf(m, goal)
            /\ RulesetKey(after.rulesets[id]) = KeyOf(m, goal)
            /\ RulesetMeets(m, goal, after.rulesets[id])
            /\ DOMAIN after.rulesets = DOMAIN before.rulesets \cup {id}
            /\ \A i \in DOMAIN before.rulesets \ {id} : after.rulesets[i] = before.rulesets[i]
            /\ \/ /\ c.kind = "create_ruleset" /\ id \notin DOMAIN before.rulesets
                  /\ after.rulesets[id].source = "Repository"
               \/ /\ c.kind = "update_ruleset" /\ id = c.id /\ id \in DOMAIN before.rulesets
                  /\ after.rulesets[id].source = before.rulesets[id].source
      BY <1>2, RulesetAfter
    <2>2. \/ c.kind = "create_ruleset" /\ id \notin DOMAIN before.rulesets
          \/ c.kind = "update_ruleset" /\ id = c.id /\ id \in Own(before, KeyOf(m, goal))
      BY <2>1
    <2>3. id \in Own(after, KeyOf(m, goal))
      BY <2>1, <2>2 DEF Own
    <2>4. \A i : i # id =>
            (i \in Own(after, KeyOf(m, target)) <=> i \in Own(before, KeyOf(m, target)))
      BY <2>1 DEF Own
    <2>5. CASE goal = target
      <3>1. Own(after, KeyOf(m, target)) = Own(before, KeyOf(m, target)) \cup {id}
        BY <2>3, <2>4, <2>5
      <3>2. RulesetMeets(m, target, after.rulesets[id]) /\ c.payload.target = target
        BY <2>1, <2>5
      <3> QED
        BY <1>2, <2>2, <3>1, <3>2
    <2>6. CASE goal # target
      <3>1. id \notin Own(after, KeyOf(m, target))
        BY <2>1, <2>6, KeysDiffer DEF Own
      <3>2. id \notin Own(before, KeyOf(m, target))
        BY <2>2, <2>6, KeysDiffer DEF Own
      <3>3. Own(after, KeyOf(m, target)) = Own(before, KeyOf(m, target))
        BY <2>4, <3>1, <3>2
      <3>4. \A i \in Own(before, KeyOf(m, target)) : after.rulesets[i] = before.rulesets[i]
        BY <2>1, <3>2 DEF Own
      <3> QED
        BY <2>1, <2>6, <3>3, <3>4
    <2> QED
      BY <2>5, <2>6
  <1> QED
    BY <1>1, <1>2

LEMMA DesiredToggles ==
  ASSUME NEW m
  PROVE  DOMAIN ToggleDesired(m) \subseteq Toggles
  BY DEF ToggleDesired, Toggles

\* What a plan covers, it covers when its first change has been made, for that
\* change sets what the manifest says.
LEMMA SettingsWritten ==
  ASSUME NEW s, NEW t, NEW before, NEW after, NEW c, NEW rest, t.manifest = s.manifest,
         IsChange(c, s.manifest), SetsOnly(c, before, after),
         Range(s.changes) = {c} \cup rest, rest \subseteq Range(t.changes),
         Range(t.toggles) = Range(s.toggles)
  PROVE  /\ FieldsCovered(s, before) => FieldsCovered(t, after)
         /\ AdvancedCovered(s, before) => AdvancedCovered(t, after)
         /\ TogglesCovered(s, before) => TogglesCovered(t, after)
  <1> DEFINE m == s.manifest
  <1>1. ASSUME FieldsCovered(s, before), NEW f \in Fields \cap DOMAIN m.repository
        PROVE  \/ after.fields[f] = m.repository[f]
               \/ \E d \in Range(t.changes) : d.kind = "patch_repository" /\ f \in DOMAIN d.payload
    <2>1. CASE c.kind = "patch_repository" /\ f \in DOMAIN c.payload
      <3>1. c.payload[f] = m.repository[f]
        BY <2>1 DEF IsChange, RulesetChange
      <3> QED
        BY <2>1, <3>1 DEF SetsOnly
    <2>2. CASE ~(c.kind = "patch_repository" /\ f \in DOMAIN c.payload)
      <3>1. after.fields[f] = before.fields[f]
        BY <2>2 DEF SetsOnly
      <3> QED
        BY <1>1, <2>2, <3>1 DEF FieldsCovered
    <2> QED
      BY <2>1, <2>2
  <1>2. ASSUME AdvancedCovered(s, before) PROVE AdvancedCovered(t, after)
    <2>1. CASE c.kind = "patch_security"
      <3>1. Key(m.security, "advanced_security") /\ c.enabled = m.security["advanced_security"]
        BY <2>1 DEF IsChange, RulesetChange
      <3>2. after.advanced = c.enabled
        BY <2>1 DEF SetsOnly
      <3> QED
        BY <3>1, <3>2 DEF AdvancedCovered, Get
    <2>2. CASE c.kind # "patch_security"
      <3>1. after.advanced = before.advanced /\ after.private = before.private
        BY <2>2 DEF SetsOnly
      <3> QED
        BY <1>2, <2>2, <3>1 DEF AdvancedCovered
    <2> QED
      BY <2>1, <2>2
  <1>3. ASSUME TogglesCovered(s, before), NEW x \in DOMAIN ToggleDesired(m)
        PROVE  \/ after.toggles[x] = ToggleDesired(m)[x]
               \/ \E d \in Range(t.changes) : d.kind = "toggle" /\ d.toggle = x
               \/ x \in Range(t.toggles)
    <2>1. CASE c.kind = "toggle" /\ c.toggle = x
      <3>1. c.enabled = ToggleDesired(m)[x]
        BY <2>1 DEF IsChange, RulesetChange
      <3> QED
        BY <2>1, <3>1, DesiredToggles DEF SetsOnly
    <2>2. CASE ~(c.kind = "toggle" /\ c.toggle = x)
      <3>1. after.toggles[x] = before.toggles[x]
        BY <2>2, DesiredToggles DEF SetsOnly
      <3> QED
        BY <1>3, <2>2, <3>1 DEF TogglesCovered
    <2> QED
      BY <2>1, <2>2
  <1> HIDE DEF m
  <1> QED
    BY <1>1, <1>2, <1>3 DEF FieldsCovered, TogglesCovered, m

LEMMA SiteWritten ==
  ASSUME NEW s, NEW t, NEW before, NEW after, NEW c, NEW rest, t.manifest = s.manifest,
         IsRepository(before),
         IsChange(c, s.manifest), SetsSite(c, before, after),
         Range(s.changes) = {c} \cup rest, rest \subseteq Range(t.changes),
         c.kind = "create_pages" /\ DOMAIN c.update # {} =>
           \E d \in Range(t.changes) : d.kind = "update_pages" /\ d.payload = c.update,
         PagesCovered(s, before)
  PROVE  PagesCovered(t, after)
  <1> DEFINE m       == s.manifest
             desired == BuildPagesState(m)
             still(k) == \E d \in Range(t.changes) : d.kind = "update_pages" /\ k \in DOMAIN d.payload
             again   == \E d \in Range(t.changes) : d.kind = "create_pages"
  <1>1. DOMAIN desired \subseteq SiteKeys
    BY DEF BuildPagesState, Over, Restrict, SiteKeys
  <1> HIDE DEF desired
  <1> SUFFICES ASSUME DOMAIN m.pages # {}
               PROVE  \/ again
                      \/ \E site \in after.pages : \A k \in DOMAIN desired :
                           site[k] = desired[k] \/ still(k)
    BY DEF PagesCovered, desired
  <1>2. \/ \E d \in {c} \cup rest : d.kind = "create_pages"
        \/ \E site \in before.pages : \A k \in DOMAIN desired :
             \/ site[k] = desired[k]
             \/ \E d \in {c} \cup rest : d.kind = "update_pages" /\ k \in DOMAIN d.payload
    BY DEF PagesCovered, desired
  <1>3. CASE c.kind = "create_pages"
    <2>1. /\ c.create = desired["build_type"]
          /\ c.update = Restrict(desired, DOMAIN desired \ {"build_type"})
      BY <1>3 DEF IsChange, RulesetChange, desired
    <2>2. DOMAIN c.update = DOMAIN desired \ {"build_type"}
      BY <2>1 DEF Restrict
    <2>3. PICK site \in after.pages : site["build_type"] = c.create
      BY <1>3 DEF SetsSite
    <2>4. ASSUME NEW k \in DOMAIN desired PROVE site[k] = desired[k] \/ still(k)
      BY <1>3, <2>1, <2>2, <2>3
    <2> QED
      BY <2>4
  <1>4. CASE c.kind = "update_pages"
    <2>1. \A k \in DOMAIN c.payload : c.payload[k] = desired[k]
      BY <1>4 DEF IsChange, RulesetChange, desired
    <2>2. PICK old \in before.pages, new \in after.pages :
            \A k \in SiteKeys : new[k] = IF k \in DOMAIN c.payload THEN c.payload[k] ELSE old[k]
      BY <1>4 DEF SetsSite
    <2>3. CASE \E d \in {c} \cup rest : d.kind = "create_pages"
      BY <1>4, <2>3
    <2>4. CASE \E site \in before.pages : \A k \in DOMAIN desired :
                 \/ site[k] = desired[k]
                 \/ \E d \in {c} \cup rest : d.kind = "update_pages" /\ k \in DOMAIN d.payload
      <3>1. \A k \in DOMAIN desired :
              \/ old[k] = desired[k]
              \/ \E d \in {c} \cup rest : d.kind = "update_pages" /\ k \in DOMAIN d.payload
        BY <2>4 DEF IsRepository
      <3>2. ASSUME NEW k \in DOMAIN desired PROVE new[k] = desired[k] \/ still(k)
        <4>1. CASE k \in DOMAIN c.payload
          BY <1>1, <2>1, <2>2, <4>1
        <4>2. CASE k \notin DOMAIN c.payload
          BY <1>1, <2>2, <3>1, <4>2
        <4> QED
          BY <4>1, <4>2
      <3> QED
        BY <3>2
    <2> QED
      BY <1>2, <2>3, <2>4
  <1>5. CASE ~PagesChange(c)
    <2>1. after.pages = before.pages
      BY <1>5 DEF SetsSite, PagesChange
    <2> QED
      BY <1>2, <1>5, <2>1 DEF PagesChange
  <1> QED
    BY <1>3, <1>4, <1>5 DEF PagesChange

LEMMA RulesetsWritten ==
  ASSUME NEW s, NEW t, NEW before, NEW after, NEW c, NEW rest, t.manifest = s.manifest,
         IsChange(c, s.manifest), SetsRuleset(c, before, after),
         Range(s.changes) = {c} \cup rest, rest \subseteq Range(t.changes),
         c.kind = "update_ruleset" => Own(before, RulesetKey(c.payload)) = {c.id},
         c.kind = "create_ruleset" => Own(before, RulesetKey(c.payload)) = {},
         RulesetsCovered(s, before)
  PROVE  RulesetsCovered(t, after)
  <1> DEFINE m == s.manifest
  <1> SUFFICES ASSUME NEW target \in Targets
               PROVE  \/ RulesetMet(after, m, target)
                      \/ \E d \in Range(t.changes) : RulesetChange(d) /\ d.payload.target = target
    BY DEF RulesetsCovered
  <1> DEFINE old == Own(before, KeyOf(m, target))
             new == Own(after, KeyOf(m, target))
  <1>1. CASE RulesetChange(c) /\ c.payload.target = target
    <2>1. PICK id : /\ new = old \cup {id}
                    /\ c.kind = "update_ruleset" => id = c.id
                    /\ RulesetMeets(m, target, after.rulesets[id])
      BY <1>1, OwnAfter
    <2>2. RulesetKey(c.payload) = KeyOf(m, target)
      <3>1. PICK goal \in Targets : c.payload = BuildRulesetPayload(m, goal)
        BY <1>1 DEF IsChange, RulesetChange
      <3> QED
        BY <1>1, <3>1, PayloadIs
    <2>3. new = {id}
      BY <1>1, <2>1, <2>2 DEF RulesetChange
    <2> HIDE DEF new
    <2> QED
      BY <2>1, <2>3 DEF RulesetMet, new
  <1>2. CASE ~(RulesetChange(c) /\ c.payload.target = target)
    <2>1. new = old /\ \A id \in old : after.rulesets[id] = before.rulesets[id]
      BY <1>2, OwnAfter
    <2>2. \/ RulesetMet(before, m, target)
          \/ \E d \in {c} \cup rest : RulesetChange(d) /\ d.payload.target = target
      BY DEF RulesetsCovered
    <2>3. RulesetMet(before, m, target) => RulesetMet(after, m, target)
      BY <2>1 DEF RulesetMet
    <2> QED
      BY <1>2, <2>2, <2>3
  <1> QED
    BY <1>1, <1>2

LEMMA OtherTarget ==
  ASSUME NEW m, NEW d, IsChange(d, m), RulesetChange(d)
  PROVE  \E target \in Targets : d.payload.target = target /\ RulesetKey(d.payload) = KeyOf(m, target)
  <1>1. PICK target \in Targets : d.payload = BuildRulesetPayload(m, target)
    BY DEF IsChange, RulesetChange
  <1> QED
    BY <1>1, PayloadIs

\* What is known of the rulesets stays true when the first change is made: the
\* others are for the other target, and its rulesets are left alone.
LEMMA KnowsWritten ==
  ASSUME NEW s, NEW t, NEW before, NEW after, NEW c, NEW rest, t.manifest = s.manifest,
         IsChange(c, s.manifest), SetsRuleset(c, before, after), t.pc # "details",
         Range(s.changes) = {c} \cup rest,
         \A d \in rest : IsChange(d, s.manifest),
         \A d \in rest : RulesetChange(c) /\ RulesetChange(d) => d.payload.target # c.payload.target,
         \A d \in Range(t.changes) : d \in rest \/ ~RulesetChange(d),
         Knows(s, before)
  PROVE  Knows(t, after)
  <1> DEFINE m == s.manifest
  <1> SUFFICES ASSUME NEW d \in Range(t.changes), d.kind = "update_ruleset"
               PROVE  d.id \in Own(after, RulesetKey(d.payload))
    BY DEF Knows
  <1>1. d \in rest /\ RulesetChange(d)
    BY DEF RulesetChange
  <1>2. d.id \in Own(before, RulesetKey(d.payload))
    BY <1>1 DEF Knows
  <1>3. PICK target \in Targets :
          d.payload.target = target /\ RulesetKey(d.payload) = KeyOf(m, target)
    BY <1>1, OtherTarget
  <1>4. c.kind = "update_ruleset" => c.id \in Own(before, RulesetKey(c.payload))
    BY DEF Knows
  <1>5. ~RulesetChange(c) \/ c.payload.target # target
    BY <1>1, <1>3
  <1>6. Own(after, KeyOf(m, target)) = Own(before, KeyOf(m, target))
    BY <1>4, <1>5, OwnAfter
  <1> QED
    BY <1>2, <1>3, <1>6

LEMMA CertainWritten ==
  ASSUME NEW s, NEW t, NEW before, NEW after, NEW c, NEW rest, t.manifest = s.manifest,
         IsChange(c, s.manifest), SetsRuleset(c, before, after), t.pc # "details",
         s.pc = "apply",
         Range(s.changes) = {c} \cup rest,
         \A d \in rest : IsChange(d, s.manifest),
         \A d \in rest : RulesetChange(c) /\ RulesetChange(d) => d.payload.target # c.payload.target,
         \A d \in Range(t.changes) : d \in rest \/ ~RulesetChange(d),
         Certain(s, before)
  PROVE  Certain(t, after)
  <1> DEFINE m == s.manifest
  <1>1. ASSUME NEW target \in Targets, ~RulesetChange(c) \/ c.payload.target # target
        PROVE  Own(after, KeyOf(m, target)) \subseteq Own(before, KeyOf(m, target))
    BY <1>1, OwnGrows
  <1>2. ASSUME NEW d \in Range(t.changes)
        PROVE  /\ d.kind = "create_ruleset" => Own(after, RulesetKey(d.payload)) = {}
               /\ d.kind = "update_ruleset" => Own(after, RulesetKey(d.payload)) \subseteq {d.id}
    <2> SUFFICES ASSUME RulesetChange(d)
                 PROVE  /\ d.kind = "create_ruleset" => Own(after, RulesetKey(d.payload)) = {}
                        /\ d.kind = "update_ruleset" => Own(after, RulesetKey(d.payload)) \subseteq {d.id}
      BY DEF RulesetChange
    <2>1. d \in rest
      BY <1>2
    <2>2. PICK target \in Targets :
            d.payload.target = target /\ RulesetKey(d.payload) = KeyOf(m, target)
      BY <2>1, OtherTarget
    <2>3. Own(after, RulesetKey(d.payload)) \subseteq Own(before, RulesetKey(d.payload))
      BY <1>1, <2>1, <2>2
    <2>4. /\ d.kind = "create_ruleset" => Own(before, RulesetKey(d.payload)) = {}
          /\ d.kind = "update_ruleset" => Own(before, RulesetKey(d.payload)) \subseteq {d.id}
      BY <2>1 DEF Certain
    <2> QED
      BY <2>3, <2>4
  <1>3. ASSUME NEW target \in Targets
        PROVE  \E id : Own(after, KeyOf(m, target)) \subseteq {id}
    <2>1. CASE RulesetChange(c) /\ c.payload.target = target
      <3>1. RulesetKey(c.payload) = KeyOf(m, target)
        BY <2>1, OtherTarget
      <3>2. /\ c.kind = "create_ruleset" => Own(before, KeyOf(m, target)) = {}
            /\ c.kind = "update_ruleset" => Own(before, KeyOf(m, target)) \subseteq {c.id}
        BY <3>1 DEF Certain
      <3>3. PICK id : /\ Own(after, KeyOf(m, target)) \subseteq Own(before, KeyOf(m, target)) \cup {id}
                      /\ c.kind = "update_ruleset" => id = c.id
        BY <1>3, OwnGrows
      <3> QED
        BY <2>1, <3>2, <3>3 DEF RulesetChange
    <2>2. CASE ~(RulesetChange(c) /\ c.payload.target = target)
      <3>1. PICK id : Own(before, KeyOf(m, target)) \subseteq {id}
        BY DEF Certain
      <3> QED
        BY <1>1, <2>2, <3>1
    <2> QED
      BY <2>1, <2>2
  <1> QED
    BY ONLY t.pc # "details", t.manifest = s.manifest, <1>2, <1>3 DEF Certain

\* The first change of a plan is made; the answer comes, or it is lost.
LEMMA Writing ==
  ASSUME NEW s, NEW before, NEW paged, NEW solo, Late(s), RunInv(s, before, paged, solo),
         s.pc = "apply", s.changes # <<>>, IsRepository(before),
         NEW after \in Outcomes(Head(s.changes), before),
         NEW pc \in {"apply", "failed"}, NEW t, Late(t),
         t = Written(s, pc)
  PROVE  IsRepository(after) /\ RunInv(t, after, paged, solo)
  <1> DEFINE m    == s.manifest
             c    == Head(s.changes)
             rest == Range(Tail(s.changes))
  <1>1. /\ t.pc = pc /\ t.wrote = TRUE /\ t.changes = Remaining(s.changes)
        /\ t.manifest = m /\ t.mode = s.mode /\ t.toggles = s.toggles
        /\ t.disturbed = s.disturbed /\ t.blind = s.blind
    BY DEF Late, Tracked, Written
  <1>2. IsPlan(s.changes, m) /\ Once(s.changes)
    BY DEF RunInv, Plans
  <1>3. /\ IsChange(c, m) /\ Range(s.changes) = {c} \cup rest
        /\ \A d \in rest : RulesetChange(c) /\ RulesetChange(d) => d.payload.target # c.payload.target
        /\ \A d \in rest : IsChange(d, m)
    <2>1. /\ IsChange(c, m) /\ Range(s.changes) = {c} \cup rest
          /\ \A d \in rest : RulesetChange(c) /\ RulesetChange(d) => d.payload.target # c.payload.target
          /\ IsPlan(Tail(s.changes), m)
      BY <1>2, RestOfPlan
    <2> QED
      BY <2>1 DEF IsPlan
  <1>4. /\ IsPlan(t.changes, m) /\ Once(t.changes) /\ rest \subseteq Range(t.changes)
        /\ \A d \in Range(t.changes) : d \in rest \/ ~RulesetChange(d)
        /\ c.kind = "create_pages" /\ DOMAIN c.update # {} =>
             \E d \in Range(t.changes) : d.kind = "update_pages" /\ d.payload = c.update
    <2>1. /\ IsPlan(Remaining(s.changes), m) /\ Once(Remaining(s.changes))
          /\ rest \subseteq Range(Remaining(s.changes))
          /\ \A d \in Range(Remaining(s.changes)) \ rest : d.kind = "update_pages"
          /\ c.kind = "create_pages" /\ DOMAIN c.update # {} =>
               \E d \in Range(Remaining(s.changes)) : d.kind = "update_pages" /\ d.payload = c.update
      BY <1>2, RemainingPlan
    <2> QED
      BY <1>1, <2>1 DEF RulesetChange
  <1>5. /\ IsRepository(after) /\ SetsOnly(c, before, after)
        /\ SetsSite(c, before, after) /\ SetsRuleset(c, before, after)
    BY <1>3, Effect
  <1> HIDE DEF c, rest
  <1>6. Plans(t)
    <2>1. s.toggles = <<>> /\ s.mode = "apply" /\ s.toggles \in Seq(DOMAIN ToggleDesired(m))
      BY DEF RunInv, Plans
    <2> QED
      BY <1>1, <1>4, <2>1 DEF Plans, Reading, Listing
  <1>7. t.pc # "details" /\ t.manifest = s.manifest /\ Range(t.toggles) = Range(s.toggles)
    BY <1>1
  <1>8. Knows(s, before) => Knows(t, after)
    BY <1>3, <1>4, <1>5, <1>7, KnowsWritten
  <1>9. Certain(s, before) => Certain(t, after)
    BY <1>3, <1>4, <1>5, <1>7, CertainWritten
  <1>10. ASSUME Knows(s, before), Certain(s, before), Covers(s, before)
         PROVE  Covers(t, after)
    <2>1. /\ FieldsCovered(s, before) /\ AdvancedCovered(s, before) /\ TogglesCovered(s, before)
          /\ PagesCovered(s, before) /\ RulesetsCovered(s, before)
      BY <1>10 DEF Covers, Reading, Listing
    <2>2. FieldsCovered(t, after) /\ AdvancedCovered(t, after) /\ TogglesCovered(t, after)
      BY <1>3, <1>4, <1>5, <1>7, <2>1, SettingsWritten
    <2>3. PagesCovered(t, after)
      BY <1>3, <1>4, <1>5, <1>7, <2>1, SiteWritten
    <2>4. /\ c.kind = "update_ruleset" => Own(before, RulesetKey(c.payload)) = {c.id}
          /\ c.kind = "create_ruleset" => Own(before, RulesetKey(c.payload)) = {}
      <3>1. c \in Range(s.changes)
        BY <1>3
      <3>2. c.kind = "update_ruleset" => c.id \in Own(before, RulesetKey(c.payload))
        BY ONLY <3>1, <1>10 DEF Knows
      <3>3. /\ c.kind = "create_ruleset" => Own(before, RulesetKey(c.payload)) = {}
            /\ c.kind = "update_ruleset" => Own(before, RulesetKey(c.payload)) \subseteq {c.id}
        BY ONLY <3>1, <1>10 DEF Certain
      <3> QED
        BY ONLY <3>2, <3>3
    <2>5. RulesetsCovered(t, after)
      BY <1>3, <1>4, <1>5, <1>7, <2>1, <2>4, RulesetsWritten
    <2> QED
      BY <2>2, <2>3, <2>5 DEF Covers
  <1> QED
    BY <1>1, <1>5, <1>6, <1>8, <1>9, <1>10 DEF RunInv

\* Somebody else changes the repository: what the run has read may be stale.
LEMMA Disturbing ==
  ASSUME NEW s, NEW before, NEW after, NEW paged, NEW solo, Late(s),
         RunInv(s, before, paged, solo), NEW t,
         t = Disturbed(s),
         solo => \A m \in Manifests, target \in Targets :
                   Own(after, KeyOf(m, target)) \subseteq Own(before, KeyOf(m, target)),
         s.pc = "idle" => s.changes = <<>>
  PROVE  RunInv(t, after, paged, solo)
  <1>1. /\ t.pc = s.pc /\ t.manifest = s.manifest /\ t.mode = s.mode /\ t.wrote = s.wrote
        /\ t.changes = s.changes /\ t.toggles = s.toggles /\ t.listed = s.listed
        /\ t.details = s.details /\ t.disturbed = TRUE /\ t.blind = s.blind
    BY DEF Late, Tracked, Disturbed
  <1>2. Plans(t)
    BY <1>1 DEF RunInv, Plans
  <1>3. ASSUME solo, Certain(s, before), s.pc # "idle" PROVE Certain(t, after)
    <2>1. \A target \in Targets :
            Own(after, KeyOf(s.manifest, target)) \subseteq Own(before, KeyOf(s.manifest, target))
      BY <1>3 DEF RunInv
    <2>2. \A c \in Range(s.changes) : IsChange(c, s.manifest)
      BY DEF RunInv, Plans, IsPlan
    <2>3. ASSUME NEW c \in Range(s.changes), RulesetChange(c)
          PROVE  Own(after, RulesetKey(c.payload)) \subseteq Own(before, RulesetKey(c.payload))
      BY <2>1, <2>2, <2>3, OtherTarget
    <2>4. \A c \in Range(s.changes) :
            /\ c.kind = "create_ruleset" => Own(after, RulesetKey(c.payload)) = {}
            /\ c.kind = "update_ruleset" => Own(after, RulesetKey(c.payload)) \subseteq {c.id}
      BY <1>3, <2>3 DEF Certain, RulesetChange
    <2>5. s.pc \in {"apply", "done"} \/ s.wrote =>
            \A target \in Targets : \E id : Own(after, KeyOf(s.manifest, target)) \subseteq {id}
      BY <1>3, <2>1 DEF Certain
    <2>6. s.pc = "details" =>
            \A target \in Targets : \A id \in Own(after, KeyOf(s.manifest, target)) :
              \/ Key(s.listed, id) /\ s.listed[id] = KeyOf(s.manifest, target)
              \/ /\ Key(s.details, KeyOf(s.manifest, target))
                 /\ s.details[KeyOf(s.manifest, target)].id = id
      BY <1>3, <2>1 DEF Certain
    <2> QED
      BY ONLY <1>1, <2>4, <2>5, <2>6 DEF Certain
  <1>4. ASSUME s.pc = "idle" PROVE Certain(t, after)
    <2>1. Range(<<>>) = {} /\ ~s.wrote
      BY <1>4 DEF Range, Late
    <2> QED
      BY <1>1, <1>4, <2>1 DEF Certain
  <1> QED
    BY <1>1, <1>2, <1>3, <1>4 DEF RunInv

-----------------------------------------------------------------------------
(* The invariant, and the steps that keep it.                                *)

SettingsInv(paged, solo) ==
  /\ IsRepository(repo)
  /\ \A r \in Runs : RunInv(run[r], repo, paged, solo)
  /\ \A r \in Runs : run[r].pc = "idle" => run[r].changes = <<>>

LEMMA RunOfStep ==
  ASSUME WritesLate, WritesLate', NEW r \in Runs, NEW t, run' = [run EXCEPT ![r] = t]
  PROVE  Late(run[r]) /\ Late(t)
  <1>1. run'[r] = t
    BY DEF WritesLate
  <1> QED
    BY <1>1 DEF WritesLate

\* A step of run r that reads, with what it makes of the run.
LEMMA RunStays ==
  ASSUME NEW paged, NEW solo, SettingsInv(paged, solo), WritesLate, NEW r \in Runs, NEW t,
         run' = [run EXCEPT ![r] = t], repo' = repo,
         t.pc # "idle", RunInv(t, repo, paged, solo)
  PROVE  SettingsInv(paged, solo)'
  <1>1. \A x \in Runs : run'[x] = IF x = r THEN t ELSE run[x]
    BY DEF WritesLate
  <1> QED
    BY <1>1 DEF SettingsInv

LEMMA EndedInv ==
  ASSUME NEW paged, NEW solo, SettingsInv(paged, solo), WritesLate, WritesLate', NEW r \in Runs,
         run[r].pc # "idle", NEW pc \in {"refused", "failed"}, NEW t,
         t = Onward(run[r], pc, <<>>) \/ (pc = "failed" /\ t = Broken(run[r])),
         run' = [run EXCEPT ![r] = t], repo' = repo
  PROVE  SettingsInv(paged, solo)'
  <1>1. Late(run[r]) /\ Late(t)
    BY RunOfStep
  <1>2. t.pc # "idle"
    BY <1>1 DEF Late, Tracked, Onward, Broken
  <1>3. RunInv(run[r], repo, paged, solo)
    BY DEF SettingsInv
  <1>4. RunInv(t, repo, paged, solo)
    BY <1>1, <1>3, Ending
  <1> QED
    BY <1>2, <1>4, RunStays

LEMMA EndsInv ==
  ASSUME NEW paged, NEW solo, SettingsInv(paged, solo), WritesLate, WritesLate', NEW r \in Runs,
         run[r].pc # "idle",
         \/ \E pc \in {"refused", "failed"} : Ends(r, pc)
         \/ CallFails(r)
  PROVE  SettingsInv(paged, solo)'
  <1>1. CASE CallFails(r)
    <2>1. run' = [run EXCEPT ![r] = Broken(run[r])] /\ repo' = repo
      BY <1>1 DEF CallFails, Broken
    <2> QED
      BY <2>1, EndedInv
  <1>2. ASSUME NEW pc \in {"refused", "failed"}, Ends(r, pc) PROVE SettingsInv(paged, solo)'
    <2> DEFINE t == Onward(run[r], pc, <<>>)
    <2>1. run' = [run EXCEPT ![r] = t] /\ repo' = repo
      BY <1>2 DEF Ends, Reads, WritesLate, Late, Tracked, Onward
    <2>2. t = Onward(run[r], pc, <<>>)
      OBVIOUS
    <2>3. t = Onward(run[r], pc, <<>>) \/ (pc = "failed" /\ t = Broken(run[r]))
      BY ONLY <2>2
    <2> HIDE DEF t
    <2> QED
      BY ONLY <2>1, <2>3, EndedInv, SettingsInv(paged, solo), WritesLate, WritesLate', r \in Runs,
              run[r].pc # "idle", pc \in {"refused", "failed"}
  <1> QED
    BY <1>1, <1>2

LEMMA StartInv ==
  ASSUME NEW paged, NEW solo, SettingsInv(paged, solo), WritesLate, WritesLate', NEW r \in Runs,
         NEW mode, NEW m \in Manifests, Start(r, mode, m)
  PROVE  SettingsInv(paged, solo)'
  <1> DEFINE t == Started(mode, m)
  <1>1. run' = [run EXCEPT ![r] = t] /\ repo' = repo
    BY DEF Start, Started
  <1>2. t.pc # "idle"
    BY DEF Idle, Started
  <1>3. Late(t)
    BY <1>1, RunOfStep
  <1>4. RunInv(t, repo, paged, solo)
    BY <1>3, Starting
  <1> QED
    BY <1>1, <1>2, <1>4, RunStays

\* The repository, with all of it shown or not.
LEMMA RepositoryInv ==
  ASSUME NEW paged, NEW solo, SettingsInv(paged, solo), WritesLate, WritesLate', NEW r \in Runs,
         ReadRepository(r) \/ SecurityHidden(r)
  PROVE  SettingsInv(paged, solo)'
  <1> DEFINE less        == [repo EXCEPT !.advanced = FALSE]
             u(seen)     == [run[r] EXCEPT
                               !.pc = IF AlertsConflict(run[r].manifest) THEN "refused" ELSE "toggles",
                               !.toggles = ToggleOrder(run[r].manifest),
                               !.changes = PatchChanges(run[r].manifest, seen)
                                             \o AdvancedChanges(run[r].manifest, seen)]
  <1>0. PICK seen, blind, t :
          /\ t = RepositoryKnown(run[r], seen, blind)
          /\ (seen = repo /\ blind = run[r].blind) \/ blind = TRUE
          /\ run' = [run EXCEPT ![r] = t] /\ repo' = repo /\ run[r].pc = "repository"
    <2>1. CASE ReadRepository(r)
      <3>1. run' = [run EXCEPT ![r] = u(repo)] /\ repo' = repo /\ run[r].pc = "repository"
        BY <2>1 DEF ReadRepository, WritesLate, Late, Tracked
      <3>2. u(repo) = RepositoryKnown(run[r], repo, run[r].blind)
        BY DEF RepositoryKnown, WritesLate, Late, Tracked
      <3> QED
        BY <3>1, <3>2
    <2>2. CASE SecurityHidden(r)
      <3>1. /\ run' = [run EXCEPT ![r] = RepositoryKnown(run[r], less, TRUE)]
            /\ repo' = repo /\ run[r].pc = "repository"
        BY <2>2 DEF SecurityHidden, RepositoryKnown, WritesLate, Late, Tracked
      <3> QED
        BY <3>1
    <2> QED
      BY <2>1, <2>2
  <1>1. run' = [run EXCEPT ![r] = t] /\ repo' = repo /\ run[r].pc = "repository"
    BY <1>0
  <1>2. Late(run[r]) /\ Late(t)
    BY <1>1, RunOfStep
  <1>3. t.pc # "idle"
    BY <1>0, <1>2 DEF WritesLate, Late, Tracked, RepositoryKnown
  <1>4. RunInv(run[r], repo, paged, solo)
    BY DEF SettingsInv
  <1>5. RunInv(t, repo, paged, solo)
    BY <1>0, <1>1, <1>2, <1>4, RepositoryRead
  <1> QED
    BY <1>1, <1>3, <1>5, RunStays

\* A toggle, read or hidden.
LEMMA ToggleInv ==
  ASSUME NEW paged, NEW solo, SettingsInv(paged, solo), WritesLate, WritesLate', NEW r \in Runs,
         run[r].pc = "toggles", run[r].toggles # <<>>, NEW enabled, NEW blind,
         \/ enabled = repo.toggles[Head(run[r].toggles)] /\ blind = run[r].blind
         \/ blind = TRUE,
         NEW t, run' = [run EXCEPT ![r] = t], repo' = repo,
         t = ToggleKnown(run[r], enabled, blind)
  PROVE  SettingsInv(paged, solo)'
  <1>1. Late(run[r]) /\ Late(t)
    BY RunOfStep
  <1>2. t.pc # "idle"
    BY <1>1 DEF Late, Tracked, ToggleKnown
  <1>3. RunInv(run[r], repo, paged, solo)
    BY DEF SettingsInv
  <1>4. RunInv(t, repo, paged, solo)
    BY <1>1, <1>3, ToggleRead
  <1> QED
    BY <1>2, <1>4, RunStays

LEMMA PagesInv ==
  ASSUME NEW paged, NEW solo, SettingsInv(paged, solo), WritesLate, WritesLate', NEW r \in Runs,
         run[r].pc = "pages", NEW site, NEW blind,
         (site = repo.pages /\ blind = run[r].blind) \/ blind = TRUE,
         NEW t, run' = [run EXCEPT ![r] = t], repo' = repo,
         t = PagesKnown(run[r], site, blind)
  PROVE  SettingsInv(paged, solo)'
  <1>1. Late(run[r]) /\ Late(t)
    BY RunOfStep
  <1>2. t.pc # "idle"
    BY <1>1 DEF Late, Tracked, PagesKnown
  <1>3. RunInv(run[r], repo, paged, solo) /\ IsRepository(repo)
    BY DEF SettingsInv
  <1>4. RunInv(t, repo, paged, solo)
    BY <1>1, <1>3, PagesRead
  <1> QED
    BY <1>2, <1>4, RunStays

LEMMA SettingReadInv ==
  ASSUME NEW paged, NEW solo, SettingsInv(paged, solo), WritesLate, WritesLate', NEW r \in Runs,
         ReadToggle(r) \/ ReadPages(r) \/ Hidden(r)
  PROVE  SettingsInv(paged, solo)'
  <1> DEFINE m    == run[r].manifest
             head == Head(run[r].toggles)
  <1>1. CASE ReadToggle(r)
    <2>1. /\ run' = [run EXCEPT ![r] = ToggleKnown(run[r], repo.toggles[head], run[r].blind)] /\ repo' = repo
          /\ run[r].pc = "toggles" /\ run[r].toggles # <<>>
      BY <1>1 DEF ReadToggle, PlanToggle, WritesLate, Late, Tracked, ToggleKnown
    <2>2. \E t : t = ToggleKnown(run[r], repo.toggles[head], run[r].blind)
      OBVIOUS
    <2> QED
      BY <2>1, <2>2, ToggleInv
  <1>2. CASE ReadPages(r)
    <2>1. /\ run' = [run EXCEPT ![r] = PagesKnown(run[r], repo.pages, run[r].blind)] /\ repo' = repo
          /\ run[r].pc = "pages"
      <3>1. /\ run' = [run EXCEPT ![r].pc = "branch", ![r].changes = @ \o PagesChanges(m, repo.pages)]
            /\ repo' = repo /\ run[r].pc = "pages"
        BY <1>2 DEF ReadPages, Reads
      <3> DEFINE q == PagesChanges(m, repo.pages)
      <3> HIDE DEF q
      <3>2. run' = [run EXCEPT ![r] = [run[r] EXCEPT !.pc = "branch", !.blind = run[r].blind, !.changes = @ \o q]]
        <4>1. [run[r] EXCEPT !.pc = "branch", !.blind = run[r].blind, !.changes = @ \o q]
                = [run[r] EXCEPT !.pc = "branch", !.changes = @ \o q]
          BY DEF WritesLate, Late, Tracked
        <4>2. run' = [run EXCEPT ![r] = [run[r] EXCEPT !.pc = "branch", !.changes = @ \o q]]
          BY <3>1 DEF WritesLate, Late, Tracked, q
        <4> QED
          BY <4>1, <4>2
      <3> QED
        BY <3>1, <3>2 DEF PagesKnown, q
    <2> QED
      BY <2>1, PagesInv
  <1>3. CASE Hidden(r)
    <2>1. CASE /\ run[r].pc = "toggles" /\ run[r].toggles # <<>>
               /\ run' = [run EXCEPT ![r].toggles = Tail(@), ![r].blind = TRUE,
                                     ![r].changes = @ \o ToggleChanges(m, head, FALSE)]
               /\ repo' = repo
      <3>1. run' = [run EXCEPT ![r] = ToggleKnown(run[r], FALSE, TRUE)]
        BY <2>1 DEF WritesLate, Late, Tracked, ToggleKnown
      <3> QED
        BY <2>1, <3>1, ToggleInv
    <2>2. CASE /\ run[r].pc = "pages"
               /\ run' = [run EXCEPT ![r].pc = "branch", ![r].blind = TRUE,
                                     ![r].changes = @ \o PagesChanges(m, {})]
               /\ repo' = repo
      <3>1. run' = [run EXCEPT ![r] = PagesKnown(run[r], {}, TRUE)]
        BY <2>2 DEF WritesLate, Late, Tracked, PagesKnown
      <3> QED
        BY <2>2, <3>1, PagesInv
    <2> QED
      BY <1>3, <2>1, <2>2 DEF Hidden
  <1> QED
    BY <1>1, <1>2, <1>3

LEMMA ReadsOn ==
  ASSUME WritesLate, WritesLate', NEW r \in Runs, NEW pc, NEW q, Reads(r, pc, q),
         NEW t, t = Onward(run[r], pc, q)
  PROVE  /\ run' = [run EXCEPT ![r] = t] /\ repo' = repo
         /\ Late(run[r]) /\ Late(t) /\ t.pc = pc
  <1>1. run' = [run EXCEPT ![r] = t] /\ repo' = repo
    BY DEF Reads, WritesLate, Late, Tracked, Onward
  <1>2. Late(run[r]) /\ Late(t)
    BY <1>1, RunOfStep
  <1>3. t.pc = pc
    BY <1>2 DEF Late, Tracked, Onward
  <1> QED
    BY <1>1, <1>2, <1>3

\* From one question to the next, with nothing more planned.
LEMMA GoesInv ==
  ASSUME NEW paged, NEW solo, SettingsInv(paged, solo), WritesLate, WritesLate', NEW r \in Runs,
         NEW pc, Reads(r, pc, <<>>), pc # "idle",
         \/ /\ run[r].pc = "toggles" /\ run[r].toggles = <<>>
            /\ pc = IF DOMAIN run[r].manifest.pages = {} THEN "branch" ELSE "pages"
         \/ run[r].pc = "branch" /\ pc = "tag"
         \/ run[r].pc = "tag" /\ pc = "list"
         \/ run[r].pc = "apply" /\ run[r].changes = <<>> /\ pc = "done"
  PROVE  SettingsInv(paged, solo)'
  <1> DEFINE t == Onward(run[r], pc, <<>>)
  <1>1. t = Onward(run[r], pc, <<>>)
    OBVIOUS
  <1> HIDE DEF t
  <1>2. /\ run' = [run EXCEPT ![r] = t] /\ repo' = repo
        /\ Late(run[r]) /\ Late(t) /\ t.pc = pc
    BY <1>1, ReadsOn
  <1>3. RunInv(run[r], repo, paged, solo)
    BY DEF SettingsInv
  <1>4. RunInv(t, repo, paged, solo)
    BY <1>1, <1>2, <1>3, Going, Reporting
  <1> QED
    BY <1>2, <1>4, RunStays

LEMMA BuildInv ==
  ASSUME NEW paged, NEW solo, SettingsInv(paged, solo), WritesLate, WritesLate', NEW r \in Runs,
         NEW target \in Targets, BuildRuleset(r, target)
  PROVE  SettingsInv(paged, solo)'
  <1>1. run[r].pc = target /\ target \in {"branch", "tag"}
    BY DEF BuildRuleset, Targets
  <1>2. \/ Ends(r, "refused") \/ Ends(r, "failed")
        \/ Reads(r, IF target = "branch" THEN "tag" ELSE "list", <<>>)
    BY DEF BuildRuleset
  <1>3. CASE Ends(r, "refused") \/ Ends(r, "failed")
    BY <1>1, <1>3, EndsInv
  <1>4. CASE Reads(r, IF target = "branch" THEN "tag" ELSE "list", <<>>)
    <2>1. CASE target = "branch"
      BY <1>1, <1>4, <2>1, GoesInv
    <2>2. CASE target = "tag"
      BY <1>1, <1>4, <2>2, GoesInv
    <2> QED
      BY <1>1, <2>1, <2>2
  <1> QED
    BY <1>2, <1>3, <1>4

LEMMA ListInv ==
  ASSUME NEW paged, NEW solo, SettingsInv(paged, solo), WritesLate, WritesLate', NEW r \in Runs,
         ListRulesets(r), paged => OnePage
  PROVE  SettingsInv(paged, solo)'
  <1>1. PICK ids \in SUBSET DOMAIN repo.rulesets :
          /\ OnPage(ids)
          /\ run' = [run EXCEPT ![r].pc = "details",
                                ![r].listed = [id \in ManagedIn(run[r].manifest, ids) |->
                                                 RulesetKey(repo.rulesets[id])]]
    BY DEF ListRulesets
  <1> DEFINE found == ManagedIn(run[r].manifest, ids)
             t     == ListKnown(run[r], found, repo)
  <1>2. repo' = repo /\ run[r].pc = "list"
    BY DEF ListRulesets
  <1>3. run' = [run EXCEPT ![r] = t]
    <2> DEFINE listed == [id \in found |-> RulesetKey(repo.rulesets[id])]
    <2>1. run' = [run EXCEPT ![r].pc = "details", ![r].listed = listed]
      BY <1>1
    <2>2. t = [run[r] EXCEPT !.pc = "details", !.listed = listed]
      BY DEF ListKnown
    <2> HIDE DEF listed, t
    <2> QED
      BY <2>1, <2>2 DEF WritesLate, Late, Tracked
  <1>4. Late(run[r]) /\ Late(t)
    BY <1>3, RunOfStep
  <1>5. t.pc # "idle"
    BY <1>4 DEF Late, Tracked, ListKnown
  <1>6. paged => ids = DOMAIN repo.rulesets
    BY <1>1, AllListed DEF OnPage, OnePage, SettingsInv, IsRepository
  <1>7. found = {id \in ids : /\ RulesetKey(repo.rulesets[id]) \in ManagedKeys(run[r].manifest)
                              /\ repo.rulesets[id].source = "Repository"}
    BY DEF ManagedIn
  <1> HIDE DEF found
  <1>8. RunInv(run[r], repo, paged, solo)
    BY DEF SettingsInv
  <1>9. t = ListKnown(run[r], found, repo)
    OBVIOUS
  <1> HIDE DEF t
  <1>10. RunInv(t, repo, paged, solo)
    BY <1>2, <1>4, <1>6, <1>7, <1>8, <1>9, RulesetsListed
  <1> QED
    BY <1>2, <1>3, <1>5, <1>10, RunStays

LEMMA DetailInv ==
  ASSUME NEW paged, NEW solo, SettingsInv(paged, solo), WritesLate, WritesLate', NEW r \in Runs,
         GetRuleset(r)
  PROVE  SettingsInv(paged, solo)'
  <1>1. PICK id \in DOMAIN run[r].listed :
          /\ run[r].pc = "details"
          /\ \/ Ends(r, "refused") \/ Ends(r, "failed")
             \/ /\ ~Key(run[r].details, run[r].listed[id])
                /\ run' = [run EXCEPT
                     ![r].listed  = Restrict(@, DOMAIN @ \ {id}),
                     ![r].details = Put(@, run[r].listed[id],
                                        [id |-> id, is |-> Payload(repo.rulesets[id])])]
                /\ repo' = repo
    BY DEF GetRuleset
  <1>2. CASE Ends(r, "refused") \/ Ends(r, "failed")
    BY <1>1, <1>2, EndsInv
  <1>3. CASE /\ ~Key(run[r].details, run[r].listed[id])
             /\ run' = [run EXCEPT
                  ![r].listed  = Restrict(@, DOMAIN @ \ {id}),
                  ![r].details = Put(@, run[r].listed[id],
                                     [id |-> id, is |-> Payload(repo.rulesets[id])])]
             /\ repo' = repo
    <2> DEFINE found == [id |-> id, is |-> Payload(repo.rulesets[id])]
               key   == run[r].listed[id]
               t     == RulesetKnown(run[r], id, repo)
    <2>1. run' = [run EXCEPT ![r] = t]
      <3>1. t = [run[r] EXCEPT !.listed  = Restrict(@, DOMAIN @ \ {id}),
                               !.details = Put(@, key, found)]
        BY DEF RulesetKnown
      <3>2. run' = [run EXCEPT ![r].listed  = Restrict(@, DOMAIN @ \ {id}),
                               ![r].details = Put(@, key, found)]
        BY <1>3
      <3> HIDE DEF found, key, t
      <3> QED
        BY <3>1, <3>2 DEF WritesLate, Late, Tracked
    <2>2. t = RulesetKnown(run[r], id, repo)
      OBVIOUS
    <2> HIDE DEF t
    <2>3. Late(run[r]) /\ Late(t)
      BY <2>1, RunOfStep
    <2>4. t.pc # "idle"
      BY <1>1, <2>2, <2>3 DEF Late, Tracked, RulesetKnown
    <2>5. RunInv(run[r], repo, paged, solo)
      BY DEF SettingsInv
    <2>6. RunInv(t, repo, paged, solo)
      BY <1>1, <1>3, <2>2, <2>3, <2>5, RulesetRead
    <2> QED
      BY <1>3, <2>1, <2>4, <2>6, RunStays
  <1> QED
    BY <1>1, <1>2, <1>3

LEMMA PlanInv ==
  ASSUME NEW paged, NEW solo, SettingsInv(paged, solo), WritesLate, WritesLate', NEW r \in Runs,
         PlanRulesets(r)
  PROVE  SettingsInv(paged, solo)'
  <1> DEFINE q  == RulesetChanges(run[r].manifest, "branch", run[r].details)
                     \o RulesetChanges(run[r].manifest, "tag", run[r].details)
             pc == IF run[r].mode = "apply" THEN "apply" ELSE "done"
             t  == Onward(run[r], pc, q)
  <1>1. t = Onward(run[r], pc, q)
    OBVIOUS
  <1>2. run[r].pc = "details" /\ DOMAIN run[r].listed = {} /\ Reads(r, pc, q)
    BY DEF PlanRulesets
  <1> HIDE DEF t
  <1>3. /\ run' = [run EXCEPT ![r] = t] /\ repo' = repo
        /\ Late(run[r]) /\ Late(t) /\ t.pc = pc
    BY ONLY <1>1, <1>2, ReadsOn, WritesLate, WritesLate', r \in Runs
  <1>4. RunInv(run[r], repo, paged, solo) /\ IsRepository(repo)
    BY DEF SettingsInv
  <1>5. RunInv(t, repo, paged, solo)
    BY <1>1, <1>2, <1>3, <1>4, RulesetsPlanned
  <1> QED
    BY <1>3, <1>5, RunStays

\* A write of run r; the others, and after an edit all runs, learn of it.
LEMMA DisturbedInv ==
  ASSUME NEW paged, NEW solo, SettingsInv(paged, solo), WritesLate, NEW x \in Runs, NEW after,
         solo => \A m \in Manifests, target \in Targets :
                   Own(after, KeyOf(m, target)) \subseteq Own(repo, KeyOf(m, target))
  PROVE  /\ RunInv(Disturbed(run[x]), after, paged, solo)
         /\ Disturbed(run[x]).pc = run[x].pc /\ Disturbed(run[x]).changes = run[x].changes
  <1> DEFINE t == Disturbed(run[x])
  <1>1. Late(run[x]) /\ RunInv(run[x], repo, paged, solo)
        /\ (run[x].pc = "idle" => run[x].changes = <<>>)
    BY DEF WritesLate, SettingsInv
  <1>2. t.pc = run[x].pc /\ t.changes = run[x].changes
    BY <1>1 DEF Late, Tracked, Disturbed
  <1>3. t = Disturbed(run[x])
    OBVIOUS
  <1> HIDE DEF t
  <1>4. RunInv(t, after, paged, solo)
    BY <1>1, <1>3, Disturbing
  <1> QED
    BY <1>2, <1>3, <1>4

LEMMA WritesInv ==
  ASSUME NEW paged, NEW solo, SettingsInv(paged, solo), WritesLate, WritesLate', NEW r \in Runs,
         NEW pc \in {"apply", "failed"}, Writes(r, pc),
         run[r].pc = "apply", run[r].changes # <<>>, solo => Runs = {r}
  PROVE  SettingsInv(paged, solo)'
  <1> DEFINE t == Written(run[r], pc)
  <1>1. /\ run' = [x \in Runs |-> IF x = r THEN t ELSE Disturbed(run[x])]
        /\ repo' \in Outcomes(Head(run[r].changes), repo)
    BY DEF Writes, Written, Disturbed
  <1>2. t = Written(run[r], pc)
    OBVIOUS
  <1> HIDE DEF t
  <1>3. run'[r] = t
    BY <1>1
  <1>4. Late(run[r]) /\ Late(t) /\ IsRepository(repo) /\ RunInv(run[r], repo, paged, solo)
    BY <1>3 DEF WritesLate, SettingsInv
  <1>5. t.pc = pc
    BY <1>2, <1>4 DEF Late, Tracked, Written
  <1> PICK after : after = repo'
    OBVIOUS
  <1>6. IsRepository(after) /\ RunInv(t, after, paged, solo)
    BY <1>1, <1>2, <1>4, Writing
  <1>7. ASSUME NEW x \in Runs, x # r
        PROVE  /\ RunInv(Disturbed(run[x]), after, paged, solo)
               /\ Disturbed(run[x]).pc = run[x].pc /\ Disturbed(run[x]).changes = run[x].changes
    <2>1. ~solo
      BY <1>7
    <2> QED
      BY <2>1, DisturbedInv
  <1>8. IsRepository(repo')
    BY <1>6
  <1>9. \A x \in Runs : RunInv(run'[x], repo', paged, solo)
    BY <1>1, <1>6, <1>7
  <1>10. \A x \in Runs : run'[x].pc = "idle" => run'[x].changes = <<>>
    BY <1>1, <1>5, <1>7 DEF SettingsInv
  <1> QED
    BY <1>8, <1>9, <1>10 DEF SettingsInv

LEMMA EditInv ==
  ASSUME NEW paged, NEW solo, SettingsInv(paged, solo), WritesLate, Edit,
         solo => \A m \in Manifests, target \in Targets :
                   Own(repo', KeyOf(m, target)) \subseteq Own(repo, KeyOf(m, target))
  PROVE  SettingsInv(paged, solo)'
  <1>1. /\ run' = [x \in Runs |-> Disturbed(run[x])] /\ IsRepository(repo')
    BY DEF Edit, Disturbed
  <1> PICK after : after = repo'
    OBVIOUS
  <1>2. solo => \A m \in Manifests, target \in Targets :
                  Own(after, KeyOf(m, target)) \subseteq Own(repo, KeyOf(m, target))
    OBVIOUS
  <1>3. \A x \in Runs :
          /\ RunInv(Disturbed(run[x]), after, paged, solo)
          /\ Disturbed(run[x]).pc = run[x].pc /\ Disturbed(run[x]).changes = run[x].changes
    BY <1>2, DisturbedInv
  <1>4. \A x \in Runs : RunInv(run'[x], repo', paged, solo)
    BY <1>1, <1>3
  <1>5. \A x \in Runs : run'[x].pc = "idle" => run'[x].changes = <<>>
    BY <1>1, <1>3 DEF SettingsInv
  <1> QED
    BY <1>1, <1>4, <1>5 DEF SettingsInv

\* An edit that gives the repository no ruleset of a managed name and target
\* that it did not have.
AddsNoManaged(before, after) ==
  \A m \in Manifests, target \in Targets :
    Own(after, KeyOf(m, target)) \subseteq Own(before, KeyOf(m, target))

\* A run alone, among people who make no ruleset of a managed name and target.
Solo ==
  /\ \A x, y \in Runs : x = y
  /\ \A before : IsRepository(before) =>
       \A after \in Edits(before) : IsRepository(after) => AddsNoManaged(before, after)

LEMMA StepsKeep ==
  ASSUME NEW paged, NEW solo, SettingsInv(paged, solo), WritesLate, [Next]_vars,
         paged => OnePage, solo => Solo
  PROVE  SettingsInv(paged, solo)'
  <1>1. WritesLate'
    BY StepsLate
  <1>2. ASSUME NEW r \in Runs, NEW mode, NEW m \in Manifests, Start(r, mode, m)
        PROVE  SettingsInv(paged, solo)'
    BY <1>1, <1>2, StartInv
  <1>3. ASSUME NEW r \in Runs, NEW pc \in {"apply", "failed"}, Writes(r, pc),
               run[r].pc = "apply", run[r].changes # <<>>
        PROVE  SettingsInv(paged, solo)'
    <2>1. solo => Runs = {r}
      BY DEF Solo
    <2> QED
      BY <1>1, <1>3, <2>1, WritesInv
  <1>4. ASSUME NEW r \in Runs, ScriptStep(r) PROVE SettingsInv(paged, solo)'
    <2>1. CASE ReadRepository(r)
      BY <1>1, <2>1, RepositoryInv
    <2>2. CASE ReadToggle(r) \/ ReadPages(r)
      BY <1>1, <2>2, SettingReadInv
    <2>3. CASE TogglesRead(r)
      <3>1. /\ run[r].pc = "toggles" /\ run[r].toggles = <<>>
            /\ Reads(r, IF DOMAIN run[r].manifest.pages = {} THEN "branch" ELSE "pages", <<>>)
        BY <2>3 DEF TogglesRead
      <3> QED
        BY <1>1, <3>1, GoesInv
    <2>4. CASE BuildRuleset(r, "branch") \/ BuildRuleset(r, "tag")
      BY <1>1, <2>4, BuildInv DEF Targets
    <2>5. CASE ListRulesets(r)
      BY <1>1, <2>5, ListInv
    <2>6. CASE GetRuleset(r)
      BY <1>1, <2>6, DetailInv
    <2>7. CASE PlanRulesets(r)
      BY <1>1, <2>7, PlanInv
    <2>8. CASE ApplyChange(r)
      BY <1>3, <2>8 DEF ApplyChange
    <2>9. CASE ChangeRefused(r)
      <3>1. run[r].pc # "idle" /\ Ends(r, "failed")
        BY <2>9 DEF ChangeRefused
      <3> QED
        BY <1>1, <3>1, EndsInv
    <2>10. CASE Report(r)
      <3>1. run[r].pc = "apply" /\ run[r].changes = <<>> /\ Reads(r, "done", <<>>)
        BY <2>10 DEF Report, Ends
      <3> QED
        BY <1>1, <3>1, GoesInv
    <2> QED
      BY <1>4, <2>1, <2>2, <2>3, <2>4, <2>5, <2>6, <2>7, <2>8, <2>9, <2>10 DEF ScriptStep
  <1>5. ASSUME NEW r \in Runs, CallFails(r) PROVE SettingsInv(paged, solo)'
    <2>1. run[r].pc # "idle"
      BY <1>5 DEF CallFails, InFlight
    <2> QED
      BY <1>1, <1>5, <2>1, EndsInv
  <1>6. ASSUME NEW r \in Runs, AnswerLost(r) PROVE SettingsInv(paged, solo)'
    BY <1>3, <1>6 DEF AnswerLost
  <1>7. ASSUME NEW r \in Runs, Hidden(r) \/ SecurityHidden(r) PROVE SettingsInv(paged, solo)'
    BY <1>1, <1>7, SettingReadInv, RepositoryInv
  <1>8. CASE Edit
    <2>1. solo => \A m \in Manifests, target \in Targets :
                    Own(repo', KeyOf(m, target)) \subseteq Own(repo, KeyOf(m, target))
      BY <1>8 DEF Edit, Solo, AddsNoManaged, SettingsInv
    <2> QED
      BY <1>8, <2>1, EditInv
  <1>9. CASE UNCHANGED vars
    BY <1>9 DEF vars, SettingsInv
  <1> QED
    BY <1>2, <1>4, <1>5, <1>6, <1>7, <1>8, <1>9 DEF Next

LEMMA StartsKept ==
  ASSUME NEW paged, NEW solo, Init
  PROVE  SettingsInv(paged, solo)
  <1>1. IsRepository(repo)
    BY RepositoriesAssumption DEF Init
  <1>2. /\ Idle.pc = "idle" /\ Idle.changes = <<>> /\ Idle.toggles = <<>>
        /\ Idle.details = <<>> /\ Idle.wrote = FALSE /\ Idle.manifest = NoManifest
    BY DEF Idle
  <1>3. RunInv(Idle, repo, paged, solo)
    <2>1. IsPlan(Idle.changes, NoManifest) /\ Range(Idle.changes) = {} /\ Once(Idle.changes)
      BY <1>2, EmptyPlan
    <2>2. Idle.toggles \in Seq(DOMAIN ToggleDesired(Idle.manifest))
      BY <1>2
    <2>3. Plans(Idle)
      BY <1>2, <2>1, <2>2 DEF Plans, Reading, Listing
    <2>4. Knows(Idle, repo) /\ Certain(Idle, repo) /\ Covers(Idle, repo) /\ Needs(Idle, repo)
      BY <1>2, <2>1 DEF Knows, Certain, Covers, Needs, Reading, Listing
    <2> QED
      BY <1>2, <2>3, <2>4 DEF RunInv
  <1>4. \A r \in Runs : run[r] = Idle
    BY DEF Init
  <1> HIDE DEF Idle
  <1> QED
    BY <1>1, <1>2, <1>3, <1>4 DEF SettingsInv

LEMMA IdleLate ==
  ASSUME Init
  PROVE  WritesLate
  <1>1. Late(Idle)
    BY DEF Idle, Late, Tracked
  <1> QED
    BY <1>1 DEF Init, WritesLate

-----------------------------------------------------------------------------
(* What a write leaves alone.                                                *)

\* The steps of a run change the plan of no other.
LEMMA OthersStay ==
  ASSUME WritesLate, NEW r \in Runs, NEW x \in Runs, x # r,
         \/ \E mode \in Modes, m \in Manifests : Start(x, mode, m)
         \/ ScriptStep(x) \/ CallFails(x) \/ AnswerLost(x)
         \/ Hidden(x) \/ SecurityHidden(x)
  PROVE  run'[r].changes = run[r].changes
  <1>1. r \in DOMAIN run /\ DOMAIN run[r] = Tracked
    BY DEF WritesLate, Late
  <1>2. CASE \E mode \in Modes, m \in Manifests : Start(x, mode, m)
    <2>0. PICK mode \in Modes, m \in Manifests : Start(x, mode, m)
      BY <1>2
    <2> DEFINE t == Started(mode, m)
    <2>1. run' = [run EXCEPT ![x] = t]
      BY ONLY <2>0 DEF Start, Started
    <2> HIDE DEF t
    <2> QED
      BY ONLY <1>1, <2>1, x # r
  <1>3. ASSUME NEW pc, NEW q, Reads(x, pc, q) PROVE run'[r].changes = run[r].changes
    BY <1>1, <1>3 DEF Reads
  <1>4. ASSUME NEW pc, Writes(x, pc) PROVE run'[r].changes = run[r].changes
    BY <1>1, <1>4 DEF Writes, Tracked
  <1>5. CASE ReadRepository(x) \/ SecurityHidden(x) \/ ReadToggle(x) \/ ListRulesets(x)
    <2>1. CASE SecurityHidden(x)
      <3> DEFINE m       == run[x].manifest
                 seen    == [repo EXCEPT !.advanced = FALSE]
                 pc      == IF AlertsConflict(m) THEN "refused" ELSE "toggles"
                 toggles == ToggleOrder(m)
                 q       == PatchChanges(m, seen) \o AdvancedChanges(m, seen)
      <3>1. run' = [run EXCEPT ![x].pc = pc, ![x].toggles = toggles, ![x].blind = TRUE,
                               ![x].changes = q]
        BY ONLY <2>1 DEF SecurityHidden
      <3> HIDE DEF pc, toggles, q
      <3> QED
        BY ONLY <1>1, <3>1, x # r
    <2>2. CASE ReadRepository(x)
      <3> DEFINE m       == run[x].manifest
                 pc      == IF AlertsConflict(m) THEN "refused" ELSE "toggles"
                 toggles == ToggleOrder(m)
                 q       == PatchChanges(m, repo) \o AdvancedChanges(m, repo)
      <3>1. run' = [run EXCEPT ![x].pc = pc, ![x].toggles = toggles, ![x].changes = q]
        BY ONLY <2>2 DEF ReadRepository
      <3> HIDE DEF pc, toggles, q
      <3> QED
        BY ONLY <1>1, <3>1, x # r
    <2>3. CASE ReadToggle(x)
      BY <1>1, <2>3 DEF ReadToggle, PlanToggle
    <2>4. ASSUME NEW listed, run' = [run EXCEPT ![x].pc = "details", ![x].listed = listed]
          PROVE  run'[r].changes = run[r].changes
      BY <1>1, <2>4
    <2>5. CASE ListRulesets(x)
      BY <2>4, <2>5 DEF ListRulesets
    <2> QED
      BY <1>5, <2>1, <2>2, <2>3, <2>5
  <1>6. CASE TogglesRead(x) \/ ReadPages(x) \/ PlanRulesets(x) \/ ChangeRefused(x) \/ Report(x)
    BY <1>3, <1>6 DEF TogglesRead, ReadPages, PlanRulesets, ChangeRefused, Report, Ends
  <1>7. CASE BuildRuleset(x, "branch") \/ BuildRuleset(x, "tag")
    BY <1>3, <1>7 DEF BuildRuleset, Ends
  <1>8. CASE GetRuleset(x)
    <2>1. \/ \E pc : Reads(x, pc, <<>>)
          \/ \E id \in DOMAIN run[x].listed :
               run' = [run EXCEPT
                 ![x].listed  = Restrict(@, DOMAIN @ \ {id}),
                 ![x].details = Put(@, run[x].listed[id],
                                    [id |-> id, is |-> Payload(repo.rulesets[id])])]
      BY <1>8 DEF GetRuleset, Ends
    <2>2. ASSUME NEW id, NEW key, NEW detail,
                 run' = [run EXCEPT ![x].listed = Restrict(@, DOMAIN @ \ {id}),
                                    ![x].details = Put(@, key, detail)]
          PROVE  run'[r].changes = run[r].changes
      BY <1>1, <2>2
    <2>3. CASE \E id \in DOMAIN run[x].listed :
                 run' = [run EXCEPT
                   ![x].listed  = Restrict(@, DOMAIN @ \ {id}),
                   ![x].details = Put(@, run[x].listed[id],
                                      [id |-> id, is |-> Payload(repo.rulesets[id])])]
      <3>1. PICK id \in DOMAIN run[x].listed :
              run' = [run EXCEPT
                ![x].listed  = Restrict(@, DOMAIN @ \ {id}),
                ![x].details = Put(@, run[x].listed[id],
                                   [id |-> id, is |-> Payload(repo.rulesets[id])])]
        BY ONLY <2>3
      <3> DEFINE detail == [id |-> id, is |-> Payload(repo.rulesets[id])]
                 key    == run[x].listed[id]
      <3>2. run' = [run EXCEPT ![x].listed = Restrict(@, DOMAIN @ \ {id}),
                               ![x].details = Put(@, key, detail)]
        BY ONLY <3>1
      <3> HIDE DEF detail, key
      <3> QED
        BY ONLY <2>2, <3>2
    <2> QED
      BY <1>3, <2>1, <2>3
  <1>9. CASE ApplyChange(x) \/ AnswerLost(x)
    BY <1>4, <1>9 DEF ApplyChange, AnswerLost
  <1>10. CASE CallFails(x) \/ Hidden(x)
    <2>1. CASE CallFails(x)
      BY <1>1, <2>1 DEF CallFails
    <2>3. CASE Hidden(x)
      <3> DEFINE q == ToggleChanges(run[x].manifest, Head(run[x].toggles), FALSE)
                 p == PagesChanges(run[x].manifest, {})
      <3>1. \/ run' = [run EXCEPT ![x].toggles = Tail(@), ![x].blind = TRUE, ![x].changes = @ \o q]
            \/ run' = [run EXCEPT ![x].pc = "branch", ![x].blind = TRUE, ![x].changes = @ \o p]
        <4>1. \/ run' = [run EXCEPT
                   ![x].toggles = Tail(@), ![x].blind = TRUE,
                   ![x].changes = @ \o ToggleChanges(run[x].manifest, Head(run[x].toggles), FALSE)]
              \/ run' = [run EXCEPT ![x].pc = "branch", ![x].blind = TRUE,
                                    ![x].changes = @ \o PagesChanges(run[x].manifest, {})]
          BY ONLY <2>3, Zenon DEF Hidden
        <4> QED
          BY ONLY <4>1, Zenon
      <3> HIDE DEF p, q
      <3> QED
        <4>1. CASE run' = [run EXCEPT ![x].toggles = Tail(@), ![x].blind = TRUE,
                                      ![x].changes = @ \o q]
          BY ONLY <1>1, <4>1, x # r
        <4>2. CASE run' = [run EXCEPT ![x].pc = "branch", ![x].blind = TRUE, ![x].changes = @ \o p]
          BY ONLY <1>1, <4>2, x # r
        <4> QED
          BY ONLY <3>1, <4>1, <4>2
    <2> QED
      BY <1>10, <2>1, <2>3
  <1> QED
    BY <1>2, <1>5, <1>6, <1>7, <1>8, <1>9, <1>10 DEF ScriptStep

\* A run that is carrying out its plan changes it by a write.
LEMMA ChangesByWriting ==
  ASSUME NEW paged, NEW solo, SettingsInv(paged, solo), WritesLate, Next, NEW r \in Runs,
         run[r].pc = "apply", run'[r].changes # run[r].changes
  PROVE  run[r].changes # <<>> /\ \E pc : Writes(r, pc)
  <1>1. r \in DOMAIN run /\ DOMAIN run[r] = Tracked
    BY DEF WritesLate, Late
  <1>2. run[r].changes \o <<>> = run[r].changes
    BY ConcatEmptySeq DEF SettingsInv, RunInv, Plans, IsPlan
  <1>3. CASE Edit
    BY <1>1, <1>3 DEF Edit, Tracked
  <1>4. ASSUME NEW x \in Runs, x # r,
               \/ \E mode \in Modes, m \in Manifests : Start(x, mode, m)
               \/ ScriptStep(x) \/ CallFails(x) \/ AnswerLost(x)
               \/ Hidden(x) \/ SecurityHidden(x)
        PROVE  FALSE
    BY <1>4, OthersStay
  <1>5. CASE \/ \E mode \in Modes, m \in Manifests : Start(r, mode, m)
             \/ ScriptStep(r) \/ CallFails(r) \/ AnswerLost(r)
             \/ Hidden(r) \/ SecurityHidden(r)
    <2>1. ASSUME NEW pc, Ends(r, pc) PROVE FALSE
      BY <1>1, <1>2, <2>1 DEF Ends, Reads, Tracked
    <2>2. ~ChangeRefused(r) /\ ~Report(r)
      BY <2>1 DEF ChangeRefused, Report
    <2>3. ~CallFails(r)
      BY <1>1 DEF CallFails, Tracked
    <2>4. /\ ~\E mode \in Modes, m \in Manifests : Start(r, mode, m)
          /\ ~Hidden(r) /\ ~SecurityHidden(r)
      BY DEF Start, Hidden, SecurityHidden, Ended
    <2>5. /\ ~ReadRepository(r) /\ ~ReadToggle(r) /\ ~TogglesRead(r) /\ ~ReadPages(r)
          /\ ~BuildRuleset(r, "branch") /\ ~BuildRuleset(r, "tag")
          /\ ~ListRulesets(r) /\ ~GetRuleset(r) /\ ~PlanRulesets(r)
      BY DEF ReadRepository, ReadToggle, TogglesRead, ReadPages, BuildRuleset,
             ListRulesets, GetRuleset, PlanRulesets
    <2>6. ApplyChange(r) \/ AnswerLost(r)
      BY <1>5, <2>2, <2>3, <2>4, <2>5 DEF ScriptStep
    <2> QED
      BY <2>6 DEF ApplyChange, AnswerLost
  <1> QED
    BY <1>3, <1>4, <1>5 DEF Next

LEMMA ManagedKeyOf ==
  ASSUME NEW m, NEW target \in Targets
  PROVE  KeyOf(m, target) \in ManagedKeys(m)
  BY DEF KeyOf, ManagedKeys

LEMMA OwnIs ==
  ASSUME NEW key
  PROVE  OwnRulesets(key) = Own(repo, key)
  BY DEF OwnRulesets, Own

\* A planned change that a call makes is one that the manifest asks for.
LEMMA WriteSpares ==
  ASSUME NEW m, NEW c, IsChange(c, m), NEW before, NEW after,
         SetsOnly(c, before, after), SetsSite(c, before, after), SetsRuleset(c, before, after),
         c.kind = "update_ruleset" => c.id \in Own(before, RulesetKey(c.payload))
  PROVE  /\ \A f \in Fields \ DOMAIN m.repository : after.fields[f] = before.fields[f]
         /\ \A t \in Toggles \ DOMAIN ToggleDesired(m) : after.toggles[t] = before.toggles[t]
         /\ DOMAIN m.pages = {} => after.pages = before.pages
         /\ \A id \in DOMAIN before.rulesets :
              \/ \E key \in ManagedKeys(m) : id \in Own(before, key)
              \/ id \in DOMAIN after.rulesets /\ after.rulesets[id] = before.rulesets[id]
  <1>1. ASSUME NEW f \in Fields \ DOMAIN m.repository
        PROVE  after.fields[f] = before.fields[f]
    <2>1. ~(c.kind = "patch_repository" /\ f \in DOMAIN c.payload)
      BY DEF IsChange, RulesetChange
    <2> QED
      BY <2>1 DEF SetsOnly
  <1>2. ASSUME NEW t \in Toggles \ DOMAIN ToggleDesired(m)
        PROVE  after.toggles[t] = before.toggles[t]
    <2>1. ~(c.kind = "toggle" /\ c.toggle = t)
      BY DEF IsChange, RulesetChange, Key
    <2> QED
      BY <2>1 DEF SetsOnly
  <1>3. ASSUME DOMAIN m.pages = {} PROVE after.pages = before.pages
    <2>1. c.kind # "create_pages" /\ c.kind # "update_pages"
      BY <1>3 DEF IsChange, RulesetChange
    <2> QED
      BY <2>1 DEF SetsSite
  <1>4. ASSUME NEW id \in DOMAIN before.rulesets
        PROVE  \/ \E key \in ManagedKeys(m) : id \in Own(before, key)
               \/ id \in DOMAIN after.rulesets /\ after.rulesets[id] = before.rulesets[id]
    <2>1. CASE ~RulesetChange(c)
      BY <2>1 DEF SetsRuleset, RulesetChange
    <2>2. CASE RulesetChange(c)
      <3>1. PICK target \in Targets, new \in DOMAIN after.rulesets :
              /\ RulesetKey(c.payload) = KeyOf(m, target)
              /\ DOMAIN after.rulesets = DOMAIN before.rulesets \cup {new}
              /\ \A i \in DOMAIN before.rulesets \ {new} : after.rulesets[i] = before.rulesets[i]
              /\ \/ c.kind = "create_ruleset" /\ new \notin DOMAIN before.rulesets
                 \/ c.kind = "update_ruleset" /\ new = c.id
        BY <2>2, RulesetAfter
      <3>2. CASE id = new
        BY <3>1, <3>2, ManagedKeyOf
      <3>3. CASE id # new
        BY <3>1, <3>3
      <3> QED
        BY <3>2, <3>3
    <2> QED
      BY <2>1, <2>2
  <1> QED
    BY <1>1, <1>2, <1>3, <1>4

\* A write of a run that nobody has interfered with leaves everything alone
\* that its manifest does not set, whatever the earlier runs left half done.
THEOREM UnmanagedIsKept == Spec => KeepsUnmanaged
  <1> PICK no \in BOOLEAN : ~no
    OBVIOUS
  <1> DEFINE Inv == SettingsInv(no, no) /\ WritesLate
             Spared == \A r \in Runs :
       LET m == run[r].manifest
       IN  run[r].pc = "apply" /\ run'[r].changes # run[r].changes /\ ~run[r].disturbed =>
             /\ \A f \in Fields \ DOMAIN m.repository : repo'.fields[f] = repo.fields[f]
             /\ \A t \in Toggles \ DOMAIN ToggleDesired(m) : repo'.toggles[t] = repo.toggles[t]
             /\ DOMAIN m.pages = {} => repo'.pages = repo.pages
             /\ \A id \in DOMAIN repo.rulesets :
                  \/ id \in UNION {OwnRulesets(key) : key \in ManagedKeys(m)}
                  \/ id \in DOMAIN repo'.rulesets /\ repo'.rulesets[id] = repo.rulesets[id]
  <1>1. Init => Inv
    BY StartsKept, IdleLate
  <1>2. Inv /\ [Next]_vars => Inv'
    BY StepsKeep, StepsLate
  <1>3. Inv /\ [Next]_vars => [Spared]_vars
    <2> SUFFICES ASSUME Inv, Next PROVE Spared
      OBVIOUS
    <2> SUFFICES ASSUME NEW r \in Runs, run[r].pc = "apply", ~run[r].disturbed,
                        run'[r].changes # run[r].changes
                 PROVE  LET m == run[r].manifest
                        IN  /\ \A f \in Fields \ DOMAIN m.repository : repo'.fields[f] = repo.fields[f]
                            /\ \A t \in Toggles \ DOMAIN ToggleDesired(m) :
                                 repo'.toggles[t] = repo.toggles[t]
                            /\ DOMAIN m.pages = {} => repo'.pages = repo.pages
                            /\ \A id \in DOMAIN repo.rulesets :
                                 \/ id \in UNION {OwnRulesets(key) : key \in ManagedKeys(m)}
                                 \/ /\ id \in DOMAIN repo'.rulesets
                                    /\ repo'.rulesets[id] = repo.rulesets[id]
      OBVIOUS
    <2> DEFINE m == run[r].manifest
               c == Head(run[r].changes)
    <2>1. run[r].changes # <<>> /\ \E pc : Writes(r, pc)
      BY ChangesByWriting
    <2>2. repo' \in Outcomes(c, repo)
      BY <2>1 DEF Writes
    <2>3. IsRepository(repo) /\ RunInv(run[r], repo, no, no)
      BY DEF SettingsInv
    <2>4. c \in Range(run[r].changes) /\ IsChange(c, m)
      BY <2>1, <2>3, RestOfPlan DEF RunInv, Plans
    <2>5. c.kind = "update_ruleset" => c.id \in Own(repo, RulesetKey(c.payload))
      BY <2>3, <2>4 DEF RunInv, Knows
    <2> PICK before, after : before = repo /\ after = repo'
      OBVIOUS
    <2>6. SetsOnly(c, before, after) /\ SetsSite(c, before, after) /\ SetsRuleset(c, before, after)
      BY <2>2, <2>3, <2>4, Effect
    <2>7. /\ \A f \in Fields \ DOMAIN m.repository : after.fields[f] = before.fields[f]
          /\ \A t \in Toggles \ DOMAIN ToggleDesired(m) : after.toggles[t] = before.toggles[t]
          /\ DOMAIN m.pages = {} => after.pages = before.pages
          /\ \A id \in DOMAIN before.rulesets :
               \/ \E key \in ManagedKeys(m) : id \in Own(before, key)
               \/ id \in DOMAIN after.rulesets /\ after.rulesets[id] = before.rulesets[id]
      BY <2>4, <2>5, <2>6, WriteSpares
    <2> QED
      BY <2>7, OwnIs
  <1> QED
    BY <1>1, <1>2, <1>3, PTL DEF Spec, KeepsUnmanaged

-----------------------------------------------------------------------------
(* What a finished run and a finished plan say of the repository.            *)

LEMMA MetIs ==
  ASSUME IsRepository(repo), NEW m, NEW target
  PROVE  LET own == OwnRulesets(<<RulesetName(m, target), target>>)
         IN  RulesetMet(repo, m, target)
               <=> /\ Cardinality(own) = 1
                   /\ \A id \in own : RulesetMeets(m, target, repo.rulesets[id])
  <1> DEFINE own == Own(repo, KeyOf(m, target))
  <1>1. OwnRulesets(<<RulesetName(m, target), target>>) = own
    BY OwnIs DEF KeyOf
  <1>2. IsFiniteSet(own)
    BY FS_Subset DEF Own, IsRepository
  <1>3. Cardinality(own) = 1 <=> \E id : own = {id}
    BY <1>2, FS_Singleton
  <1>4. RulesetMet(repo, m, target) <=> \E id \in own : /\ own = {id}
                                                        /\ RulesetMeets(m, target, repo.rulesets[id])
    BY DEF RulesetMet
  <1> HIDE DEF own
  <1> QED
    BY <1>1, <1>3, <1>4

\* A run with nothing left to do leaves the repository as the manifest says.
LEMMA CoveredMeets ==
  ASSUME IsRepository(repo), NEW s, Covers(s, repo), s.pc \in {"apply", "done"},
         s.changes = <<>>, s.toggles = <<>>
  PROVE  Meets(s.manifest)
  <1> DEFINE m == s.manifest
  <1>1. Range(s.changes) = {} /\ Range(s.toggles) = {}
    BY DEF Range
  <1>2. /\ FieldsCovered(s, repo) /\ AdvancedCovered(s, repo) /\ TogglesCovered(s, repo)
        /\ PagesCovered(s, repo) /\ RulesetsCovered(s, repo)
    BY DEF Covers, Reading, Listing
  <1>3. \A f \in Fields \cap DOMAIN m.repository : repo.fields[f] = m.repository[f]
    BY <1>1, <1>2 DEF FieldsCovered
  <1>4. \A t \in DOMAIN ToggleDesired(m) : repo.toggles[t] = ToggleDesired(m)[t]
    BY <1>1, <1>2 DEF TogglesCovered
  <1>5. repo.private => Get(m.security, "advanced_security", repo.advanced) = repo.advanced
    BY <1>1, <1>2 DEF AdvancedCovered
  <1>6. DOMAIN m.pages # {} => \E site \in repo.pages :
          \A k \in DOMAIN BuildPagesState(m) : site[k] = BuildPagesState(m)[k]
    BY <1>1, <1>2 DEF PagesCovered
  <1>7. \A target \in Targets : RulesetMet(repo, m, target)
    BY <1>1, <1>2 DEF RulesetsCovered
  <1>8. \A target \in Targets :
          LET own == OwnRulesets(<<RulesetName(m, target), target>>)
          IN  /\ Cardinality(own) = 1
              /\ \A id \in own : RulesetMeets(m, target, repo.rulesets[id])
    BY <1>7, MetIs
  <1> QED
    BY <1>3, <1>4, <1>5, <1>6, <1>8 DEF Meets

\* And where the repository is as the manifest says, nothing is planned.
LEMMA MeetsNeedsNothing ==
  ASSUME IsRepository(repo), NEW m, Meets(m), NEW c, IsChange(c, m), Needed(c, m, repo)
  PROVE  FALSE
  <1>1. \A target \in Targets : RulesetMet(repo, m, target)
    BY MetIs DEF Meets
  <1>2. CASE c.kind = "patch_repository"
    BY <1>2 DEF Needed, Meets
  <1>3. CASE c.kind = "patch_security"
    <2>1. Key(m.security, "advanced_security")
      BY <1>3 DEF IsChange, RulesetChange
    <2>2. repo.private /\ repo.advanced # m.security["advanced_security"]
      BY <1>3 DEF Needed
    <2>3. repo.private => Get(m.security, "advanced_security", repo.advanced) = repo.advanced
      BY DEF Meets
    <2> QED
      BY <2>1, <2>2, <2>3 DEF Get
  <1>4. CASE c.kind = "toggle"
    <2>1. c.toggle \in DOMAIN ToggleDesired(m)
      BY <1>4 DEF IsChange, RulesetChange, Key
    <2>2. repo.toggles[c.toggle] # ToggleDesired(m)[c.toggle]
      BY <1>4 DEF Needed
    <2> QED
      BY <2>1, <2>2 DEF Meets
  <1>5. CASE c.kind \in {"create_pages", "update_pages"}
    <2>1. DOMAIN m.pages # {}
      BY <1>5 DEF IsChange, RulesetChange
    <2>2. ~\E site \in repo.pages :
             \A k \in DOMAIN BuildPagesState(m) : site[k] = BuildPagesState(m)[k]
      BY <1>5 DEF Needed
    <2> QED
      BY <2>1, <2>2 DEF Meets
  <1>6. CASE RulesetChange(c)
    <2>1. PICK target \in Targets : c.payload.target = target
      BY <1>6, OtherTarget
    <2> QED
      BY <1>1, <1>6, <2>1 DEF Needed
  <1> QED
    BY <1>2, <1>3, <1>4, <1>5, <1>6 DEF IsChange

LEMMA FinishedMeets ==
  ASSUME NEW paged, NEW solo, paged, SettingsInv(paged, solo)
  PROVE  ApplyReachesManifest /\ EmptyPlanMeansMet
  <1> SUFFICES ASSUME NEW r \in Runs, Alone(r)
               PROVE  /\ run[r].pc = "done" /\ run[r].mode = "apply" => Meets(run[r].manifest)
                      /\ ~run[r].wrote
                           /\ (run[r].pc = "apply" \/ (run[r].pc = "done" /\ run[r].mode = "plan"))
                         => (run[r].changes = <<>> <=> Meets(run[r].manifest))
    BY DEF ApplyReachesManifest, EmptyPlanMeansMet
  <1> DEFINE s == run[r]
             m == s.manifest
  <1>1. IsRepository(repo) /\ RunInv(s, repo, paged, solo)
    BY DEF SettingsInv
  <1>2. /\ Plans(s) /\ Covers(s, repo) /\ (~s.wrote => Needs(s, repo))
    BY <1>1 DEF RunInv, Alone
  <1>3. ASSUME s.pc \in {"apply", "done"}, s.changes = <<>> PROVE Meets(m)
    <2>1. s.toggles = <<>>
      BY <1>2, <1>3 DEF Plans
    <2> QED
      BY <1>1, <1>2, <1>3, <2>1, CoveredMeets
  <1>4. ASSUME s.pc = "done", s.mode = "apply" PROVE s.changes = <<>>
    BY <1>2, <1>4 DEF Plans
  <1>5. ASSUME ~s.wrote, Meets(m) PROVE s.changes = <<>>
    <2> SUFFICES ASSUME s.changes # <<>> PROVE FALSE
      OBVIOUS
    <2> DEFINE c == Head(s.changes)
    <2>1. c \in Range(s.changes) /\ IsChange(c, m)
      BY <1>2, RestOfPlan DEF Plans
    <2>2. Needed(c, m, repo)
      BY <1>2, <1>5, <2>1 DEF Needs
    <2> QED
      BY <1>1, <1>5, <2>1, <2>2, MeetsNeedsNothing
  <1> QED
    BY <1>3, <1>4, <1>5

LEMMA OneAtMost ==
  ASSUME NEW S, NEW id, S \subseteq {id}
  PROVE  ~(Cardinality(S) > 1)
  <1>1. S = {} \/ S = {id}
    OBVIOUS
  <1>2. Cardinality({}) = 0 /\ Cardinality({id}) = 1
    BY FS_EmptySet, FS_Singleton
  <1> QED
    BY <1>1, <1>2

\* No twins, for one manifest, said with Own.
Single(m) == \A target \in Targets : \E id : Own(repo, KeyOf(m, target)) \subseteq {id}

LEMMA SingleIs ==
  ASSUME NEW m, Single(m)
  PROVE  ~Twins(m)
  <1> SUFFICES ASSUME NEW target \in Targets
               PROVE  ~(Cardinality(OwnRulesets(<<RulesetName(m, target), target>>)) > 1)
    BY DEF Twins, ManagedKeys
  <1>1. PICK id : Own(repo, KeyOf(m, target)) \subseteq {id}
    BY DEF Single
  <1>2. OwnRulesets(<<RulesetName(m, target), target>>) = Own(repo, KeyOf(m, target))
    BY OwnIs DEF KeyOf
  <1> QED
    BY <1>1, <1>2, OneAtMost

LEMMA CertainRefuses ==
  ASSUME NEW paged \in BOOLEAN, NEW solo \in BOOLEAN, paged, SettingsInv(paged, solo)
  PROVE  TwinsAreRefused
  <1> SUFFICES ASSUME NEW r \in Runs, Alone(r), run[r].wrote \/ run[r].pc = "done"
               PROVE  ~Twins(run[r].manifest)
    BY DEF TwinsAreRefused
  <1>1. Certain(run[r], repo)
    BY DEF SettingsInv, RunInv, Alone
  <1>2. Single(run[r].manifest)
    BY <1>1 DEF Certain, Single
  <1> QED
    BY <1>2, SingleIs

\* Where the rulesets fit on the one page that is read, the invariant holds with
\* all that a run knows of them.
LEMMA PagedInv ==
  ASSUME NEW yes \in BOOLEAN, NEW no \in BOOLEAN, yes, ~no
  PROVE  Spec /\ []OnePage => [](SettingsInv(yes, no) /\ WritesLate)
  <1>1. Init => SettingsInv(yes, no) /\ WritesLate
    BY StartsKept, IdleLate
  <1>2. SettingsInv(yes, no) /\ WritesLate /\ OnePage /\ [Next]_vars
          => (SettingsInv(yes, no) /\ WritesLate)'
    BY StepsKeep, StepsLate
  <1> QED
    BY <1>1, <1>2, PTL DEF Spec

\* When apply exits 0 and nobody else has touched the repository since it
\* started, the repository is what the manifest says, whatever the runs before
\* it left half done, if its rulesets fit on one page.
THEOREM AppliesReachManifest == Spec /\ []OnePage => []ApplyReachesManifest
  <1> PICK yes \in BOOLEAN, no \in BOOLEAN : yes /\ ~no
    OBVIOUS
  <1>1. Spec /\ []OnePage => [](SettingsInv(yes, no) /\ WritesLate)
    BY PagedInv
  <1>2. SettingsInv(yes, no) /\ WritesLate => ApplyReachesManifest
    BY FinishedMeets
  <1> QED
    BY <1>1, <1>2, PTL

\* A finished plan is empty exactly when the repository is what the manifest
\* says: what is missing is planned, and what is planned was missing.
THEOREM EmptyPlansAreMet == Spec /\ []OnePage => []EmptyPlanMeansMet
  <1> PICK yes \in BOOLEAN, no \in BOOLEAN : yes /\ ~no
    OBVIOUS
  <1>1. Spec /\ []OnePage => [](SettingsInv(yes, no) /\ WritesLate)
    BY PagedInv
  <1>2. SettingsInv(yes, no) /\ WritesLate => EmptyPlanMeansMet
    BY FinishedMeets
  <1> QED
    BY <1>1, <1>2, PTL

\* A run on a repository with two rulesets for a managed key neither writes nor
\* succeeds, whatever order they are read in and whoever made them.
THEOREM TwinsStopRuns == Spec /\ []OnePage => []TwinsAreRefused
  <1> PICK yes \in BOOLEAN, no \in BOOLEAN : yes /\ ~no
    OBVIOUS
  <1>1. Spec /\ []OnePage => [](SettingsInv(yes, no) /\ WritesLate)
    BY PagedInv
  <1>2. SettingsInv(yes, no) /\ WritesLate => TwinsAreRefused
    <2> SUFFICES ASSUME SettingsInv(yes, no) PROVE TwinsAreRefused
      OBVIOUS
    <2> QED
      BY CertainRefuses
  <1> QED
    BY <1>1, <1>2, PTL

-----------------------------------------------------------------------------
(* Runs one at a time make no twins.                                         *)

\* The steps other than writes and edits leave the repository as it is.
LEMMA RepoChanges ==
  ASSUME [Next]_vars, repo' # repo
  PROVE  Edit \/ \E r \in Runs, pc \in {"apply", "failed"} :
                   /\ run[r].pc = "apply" /\ run[r].changes # <<>> /\ Writes(r, pc)
  <1>1. ASSUME NEW r \in Runs, ScriptStep(r) PROVE ApplyChange(r)
    <2>1. \/ ApplyChange(r)
          \/ ReadRepository(r) \/ ReadToggle(r) \/ TogglesRead(r) \/ ReadPages(r)
          \/ BuildRuleset(r, "branch") \/ BuildRuleset(r, "tag")
          \/ ListRulesets(r) \/ GetRuleset(r) \/ PlanRulesets(r)
          \/ ChangeRefused(r) \/ Report(r)
      BY <1>1 DEF ScriptStep
    <2>2. CASE ReadRepository(r) \/ ReadToggle(r) \/ TogglesRead(r) \/ ReadPages(r)
      BY <2>2 DEF ReadRepository, ReadToggle, TogglesRead, ReadPages, Reads, Ends
    <2>3. CASE BuildRuleset(r, "branch") \/ BuildRuleset(r, "tag")
      BY <2>3 DEF BuildRuleset, Reads, Ends
    <2>4. CASE ListRulesets(r) \/ GetRuleset(r) \/ PlanRulesets(r)
      BY <2>4 DEF ListRulesets, GetRuleset, PlanRulesets, Reads, Ends
    <2>5. CASE ChangeRefused(r) \/ Report(r)
      BY <2>5 DEF ChangeRefused, Report, Reads, Ends
    <2> QED
      BY <2>1, <2>2, <2>3, <2>4, <2>5
  <1>2. ASSUME NEW r \in Runs, NEW mode, NEW m, Start(r, mode, m) PROVE FALSE
    BY <1>2 DEF Start
  <1>3. ASSUME NEW r \in Runs, CallFails(r) \/ Hidden(r) \/ SecurityHidden(r) PROVE FALSE
    BY <1>3 DEF CallFails, Hidden, SecurityHidden
  <1>4. Edit \/ \E r \in Runs : ApplyChange(r) \/ AnswerLost(r)
    BY <1>1, <1>2, <1>3 DEF Next, vars
  <1> QED
    BY <1>4 DEF ApplyChange, AnswerLost

\* A write keeps every managed key, of whichever manifest, at one ruleset.
LEMMA WriteKeepsSingle ==
  ASSUME NEW s, NEW before, NEW after, NEW m, NEW c, IsChange(c, s.manifest),
         c \in Range(s.changes), Certain(s, before), SetsRuleset(c, before, after),
         NEW target \in Targets, \E id : Own(before, KeyOf(m, target)) \subseteq {id}
  PROVE  \E id : Own(after, KeyOf(m, target)) \subseteq {id}
  <1> DEFINE old == Own(before, KeyOf(m, target))
             new == Own(after, KeyOf(m, target))
  <1>1. CASE ~RulesetChange(c)
    BY <1>1 DEF SetsRuleset, Own, RulesetChange
  <1>2. CASE RulesetChange(c)
    <2>1. PICK goal \in Targets, id \in DOMAIN after.rulesets :
            /\ RulesetKey(c.payload) = KeyOf(s.manifest, goal)
            /\ RulesetKey(after.rulesets[id]) = KeyOf(s.manifest, goal)
            /\ DOMAIN after.rulesets = DOMAIN before.rulesets \cup {id}
            /\ \A i \in DOMAIN before.rulesets \ {id} : after.rulesets[i] = before.rulesets[i]
            /\ c.kind = "create_ruleset" \/ (c.kind = "update_ruleset" /\ id = c.id)
      BY <1>2, RulesetAfter
    <2>2. new \subseteq old \cup {id}
      BY <2>1 DEF Own
    <2>3. CASE id \in new
      <3>1. RulesetKey(c.payload) = KeyOf(m, target)
        BY <2>1, <2>3 DEF Own
      <3>2. /\ c.kind = "create_ruleset" => old = {}
            /\ c.kind = "update_ruleset" => old \subseteq {c.id}
        BY <3>1 DEF Certain
      <3>3. new \subseteq {id}
        BY <2>1, <2>2, <3>2
      <3> QED
        BY <3>3
    <2>4. CASE id \notin new
      BY <2>2, <2>4
    <2> QED
      BY <2>3, <2>4
  <1> QED
    BY <1>1, <1>2

SingleInv == \A m \in Manifests : Single(m)

LEMMA SingleKept ==
  ASSUME NEW paged, NEW solo, SettingsInv(paged, solo), paged, solo, Solo, SingleInv, [Next]_vars
  PROVE  SingleInv'
  <1>1. CASE repo' = repo
    BY <1>1 DEF SingleInv, Single
  <1>2. CASE Edit
    <2>1. AddsNoManaged(repo, repo')
      BY <1>2 DEF Edit, Solo, SettingsInv
    <2> QED
      BY <2>1 DEF AddsNoManaged, SingleInv, Single
  <1>3. ASSUME NEW r \in Runs, NEW pc, run[r].changes # <<>>, Writes(r, pc)
        PROVE  SingleInv'
    <2> DEFINE s == run[r]
               c == Head(s.changes)
    <2>1. IsRepository(repo) /\ RunInv(s, repo, paged, solo)
      BY DEF SettingsInv
    <2>2. Certain(s, repo) /\ c \in Range(s.changes) /\ IsChange(c, s.manifest)
      BY <1>3, <2>1, RestOfPlan DEF RunInv, Plans
    <2> PICK after : after = repo'
      OBVIOUS
    <2>3. after \in Outcomes(c, repo)
      BY <1>3 DEF Writes
    <2>4. SetsRuleset(c, repo, after)
      BY <2>1, <2>2, <2>3, Effect
    <2>5. ASSUME NEW m \in Manifests, NEW target \in Targets
          PROVE  \E id : Own(after, KeyOf(m, target)) \subseteq {id}
      <3>1. \E id : Own(repo, KeyOf(m, target)) \subseteq {id}
        BY DEF SingleInv, Single
      <3> HIDE DEF s, c
      <3> PICK before : before = repo
        OBVIOUS
      <3> QED
        BY ONLY <2>2, <2>4, <3>1, before = repo, target \in Targets, WriteKeepsSingle
    <2> QED
      BY <2>5 DEF SingleInv, Single
  <1> QED
    BY <1>1, <1>2, <1>3, RepoChanges

\* Runs one at a time never make a second ruleset of one name and target, though
\* the answer to a creation may be lost and the run repeated, with the same
\* manifest or another; whoever edits by hand makes none either.
THEOREM RunsMakeNoTwins ==
  ASSUME Solo,
         \A state \in Repositories, m \in Manifests, target \in Targets :
           \E id : Own(state, KeyOf(m, target)) \subseteq {id}
  PROVE  Spec /\ []OnePage => []NoTwins
  <1> PICK yes \in BOOLEAN : yes
    OBVIOUS
  <1> DEFINE Inv == SettingsInv(yes, yes) /\ WritesLate /\ SingleInv
  <1>1. Init => Inv
    BY StartsKept, IdleLate DEF Init, SingleInv, Single
  <1>2. Inv /\ OnePage /\ [Next]_vars => Inv'
    BY StepsKeep, StepsLate, SingleKept
  <1>3. Inv => NoTwins
    BY SingleIs DEF SingleInv, NoTwins
  <1> HIDE DEF Inv
  <1> QED
    BY <1>1, <1>2, <1>3, PTL DEF Spec
=============================================================================
