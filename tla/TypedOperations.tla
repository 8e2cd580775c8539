---------------------------- MODULE TypedOperations ----------------------------
(***************************************************************************)
(* The typed operations from their arguments to the device: what can be     *)
(* refused without asking the device is, the deletion of a user is guarded, *)
(* the version of the device is looked up, the arguments are rendered into  *)
(* scopes, and these are planned and run like those of any operation.       *)
(*                                                                         *)
(* Source: the typed operations of operations.py, on Renderers; plan and    *)
(* session are those of ConfigOperation.  The properties are about the      *)
(* arguments (Arguments), not about what they are rendered to.              *)
(***************************************************************************)
EXTENDS Arguments

CONSTANTS
    Calls,          \* the calls that are made
    Versions,       \* what the Version fact may report
    Login,          \* the user the controller is connected as
    Identities,     \* whom the device may report it is: no proof of who it is
    OthersCommit,   \* may somebody else commit between a plan and its session?
    FactsFail,      \* may the Configuration fact fall back to its default?
    Region(_)       \* the part of the configuration a call is made on

\* The device did not tell, and was not asked.
Unknown == "unknown"

Unasked == "not asked"

ASSUME CallAssumption ==
    /\ \A call \in Calls : IsCall(call) /\ Region(call) \in Regions
    /\ Unasked \notin Identities
    /\ OthersCommit \in BOOLEAN /\ FactsFail \in BOOLEAN

VARIABLES
    device, plan, phase, candidate, ran, first, planned, stale, blind,  \* as in ConfigOperation
    call,                                                   \* the call that is made
    identity                                                \* whom the device has reported

vars == <<device, plan, phase, candidate, ran, first, planned, stale, blind, call, identity>>

\* The scopes a call is rendered to, if it is.
ScopesOf(c) == IF Rejects(c) \/ Raises(c) THEN <<>> ELSE Render(c)

Asked == ScopesOf(call)

\* Every call that gets as far has arguments in terms of the grammar.  What is to
\* be said of what is rendered is said of such calls.
FittingCalls == \A c \in Calls : Rejects(c) \/ Raises(c) \/ Fits(c)

\* As a config operation others may commit next to any.
AnyScopes(scopes) == TRUE

Op == INSTANCE ConfigOperation WITH op <- Asked, Operations <- {}, Contended <- AnyScopes

\* What names an object are words, and what its arguments hold are trees.
ASSUME ArgumentAssumption ==
    \A c \in Calls :
        \/ Rejects(c) \/ Raises(c)
        \/ /\ ObjectPath(c) \in Seq(STRING)
           /\ \A field \in DOMAIN c.args : \A scope \in Desired(c, field) : IsScope(scope)

Init ==
    /\ call \in Calls
    /\ device \in ConfigsOf[Region(call)]
    /\ plan = <<>>
    /\ phase = "arguments"
    /\ candidate = {}
    /\ ran = 0
    /\ first = "none"
    /\ planned = device
    /\ stale = FALSE
    /\ blind = FALSE
    /\ identity = Unasked

\* What an operation refuses before it reads any fact.
RejectsFirst ==
    CASE call.op = "system_basics"    -> DOMAIN call.args = {}
      [] call.op = "static_route"     -> AbsentWithArgs(call) \/ BadDestination(call)
      [] call.op = "firewall_group"   -> AbsentWithArgs(call) \/ MembersMissing(call)
      [] call.op = "firewall_ruleset" -> \/ AbsentWithArgs(call)
                                         \/ ~call.present /\ call.replace_rules
                                         \/ call.present /\ RulesetRejects(call)
      [] OTHER                        -> AbsentWithArgs(call)

\* Of a rule set that is to be there everything is rendered once up front.
CheckArguments ==
    /\ phase = "arguments"
    /\ phase' = CASE RejectsFirst                       -> "refused"
                  [] Raises(call)                       -> "crashed"
                  [] call.op = "user" /\ ~call.present  -> "identity"
                  [] OTHER                              -> "version"
    /\ UNCHANGED <<device, plan, candidate, ran, first, planned, stale, blind, call, identity>>

\* Mutant of MayDelete: who cannot tell is somebody else.
MayDeleteUnlessSelf(reported) == reported # call.user

\* _require_deletable_identity
MayDelete(reported) == reported # Unknown /\ reported # call.user

\* The identity is what `echo $USER` prints on the device: the user the controller
\* is connected as, nothing, or somebody else under a privilege transformation.
GuardDeletion ==
    /\ phase = "identity"
    /\ \E reported \in Identities :
           /\ identity' = reported
           /\ phase' = IF MayDelete(reported) THEN "version" ELSE "refused"
    /\ UNCHANGED <<device, plan, candidate, ran, first, planned, stale, blind, call>>

\* A version that is not known, or whose fact failed, is refused like arguments
\* that the renderer refuses.
RenderCall ==
    /\ phase = "version"
    /\ \E version \in Versions :
           phase' = CASE SchemaKey(version) = {} -> "refused"
                      [] OTHER -> IF Raises(call) THEN "crashed"
                                  ELSE IF Rejects(call) THEN "refused" ELSE "called"
    /\ UNCHANGED <<device, plan, candidate, ran, first, planned, stale, blind, call, identity>>

\* _plan_scopes, then session_run_sequence.
PlanCall ==
    /\ UNCHANGED <<call, identity>>
    /\ \E failed \in {FALSE, FactsFail} : Op!PlanFrom(failed)

RunSession == UNCHANGED <<call, identity>> /\ (Op!OpenSession \/ Op!RunScope \/ Op!Commit)

\* In one of the two calls: a call begins with any configuration anyway.
SomebodyCommits ==
    /\ OthersCommit
    /\ phase = "planned"
    /\ ~stale /\ first # "disturbed"
    /\ device' \in ConfigsOf[Region(call)] \ {device}
    /\ stale' = TRUE
    /\ UNCHANGED <<plan, phase, candidate, ran, first, planned, blind, call, identity>>

\* Mutant of CallAgain: the plan is kept from one deploy to the next.
CallAgainKeepsPlan ==
    /\ phase \in {"noop", "applied", "rejected"}
    /\ first = "none"
    /\ first' = IF stale \/ blind THEN "disturbed" ELSE phase
    /\ phase' = "planned"
    /\ planned' = device /\ stale' = FALSE /\ blind' = FALSE
    /\ UNCHANGED <<device, plan, candidate, ran, call, identity>>

\* The deploy runs again.
CallAgain ==
    /\ phase \in {"noop", "applied", "rejected"}
    /\ first = "none"
    /\ first' = IF stale \/ blind THEN "disturbed" ELSE phase
    /\ phase' = "arguments"
    /\ plan' = <<>> /\ planned' = device
    /\ stale' = FALSE /\ blind' = FALSE
    /\ identity' = Unasked
    /\ UNCHANGED <<device, candidate, ran, call>>

Finished ==
    /\ \/ phase \in {"refused", "crashed"}
       \/ phase \in {"noop", "applied", "rejected"} /\ first # "none"
    /\ UNCHANGED vars

Next ==
    \/ CheckArguments \/ GuardDeletion \/ RenderCall \/ PlanCall \/ RunSession
    \/ SomebodyCommits \/ CallAgain \/ Finished

Spec == Init /\ [][Next]_vars

-----------------------------------------------------------------------------
(* Properties.                                                              *)

\* When a typed operation ends well - it ran a session, or found nothing to do -
\* the device is as its arguments say: what is given is there and exact, an
\* empty list leaves nothing, an object that should not be present is gone, and
\* one that is owned as a whole holds nothing else.
CallIsMet ==
    phase \in {"noop", "applied"} /\ ~stale /\ ~blind =>
        IF call.present
        THEN /\ \A field \in DOMAIN call.args : FieldIsMet(call, field, device)
             /\ DOMAIN call.args = {} \/ Whole(call) => ObjectPath(call) \in device
             /\ NothingElse(call, device)
        ELSE ObjectPath(call) \notin device

\* What a call is rendered to is in terms of the grammar, and no two of its scopes
\* are about the same path: they are planned against the same configuration, and
\* neither sees what the other will have done.
ScopesArePosed == phase = "called" => WellPosed(Asked)

Runs == phase = "running" /\ phase' = "applied"

\* A session changes what its arguments are about and no other field of the
\* object, however the configuration has changed in between: parents come and
\* go with what is below them.  Of an open body nothing is removed but the
\* former value of a leaf with one value.
OnlyOwnedChanges ==
    [][ Runs =>
          /\ \A q \in (device \ device') \cup (device' \ device) :
                 \E path \in Owned(call) \cup {ObjectPath(call)} :
                     \/ IsPrefix(q, path)
                     \/ path \in Owned(call) /\ IsPrefix(path, q)
          /\ "values" \in DOMAIN call.args /\ ~Whole(call) =>
                 \A q \in device \ device' :
                     (\E path \in Area(call, "values") : IsPrefix(path, q)) =>
                         Front(q) \in SingleLeaves
      ]_vars

\* The accounts on the device.
Users == <<"system", "login", "user">>

Accounts == { path \in Paths : Front(path) = Users }

\* A session of `user` removes no account, however the configuration has changed
\* in between, but the one it is called to delete, and this one only when the
\* device has reported a user and another one.
DeletesOnlyOthers ==
    [][ Runs /\ call.op = "user" =>
            \A path \in Accounts : path \in device \ device' =>
                /\ ~call.present /\ path = UserPath(call)
                /\ identity \notin {Unasked, Unknown, call.user} ]_vars

\* So the user the controller is connected as stays - if it is that user, or none,
\* that the device reports.  The guard has no more to go by (`user` says so).
NeverDeletesSelf ==
    [][ LET self == <<"system", "login", "user", Login>>
        IN  Runs /\ call.op = "user" /\ self \in device => self \in device' ]_vars

-----------------------------------------------------------------------------
(* To the device a typed operation is a config operation on its scopes, and *)
(* what comes before the plan cannot be seen.                               *)

AbstractPhase ==
    IF phase \in {"arguments", "identity", "version", "refused", "crashed"}
    THEN "called" ELSE phase

Abstract ==
    INSTANCE ConfigOperation
    WITH op <- Asked, phase <- AbstractPhase,
         Operations <- { ScopesOf(c) : c \in Calls }, Contended <- AnyScopes

\* A typed operation does to the device what some config operation does: every
\* step of it is one of ConfigOperation, or is not seen there.
ImplementsConfigOperation == Abstract!Spec

=============================================================================
