--------------------------- MODULE ConfigOperation ---------------------------
(***************************************************************************)
(* The config operation, and any operation that is planned in scopes, from  *)
(* the fact it reads to the session it runs: the configuration is read, the *)
(* difference to what is desired is planned on the controller, and later    *)
(* the plan runs in one configure session - on whatever configuration is    *)
(* active by then.  The same operation is then called once more.            *)
(*                                                                         *)
(* Source: config and _plan_scopes in operations.py, on ConfigTree.  The    *)
(* device is external.  A session applies the whole plan or nothing of it,  *)
(* and nobody else commits while it is open: ConfigSession shows when that  *)
(* may be relied upon.                                                      *)
(***************************************************************************)
EXTENDS ConfigDevice

CONSTANTS
    Operations,     \* what may be asked for: sequences of scopes
    Contended(_)    \* may others commit next to it, and may its fact fail?

ASSUME OperationAssumption ==
    \A scopes \in Operations : IsOperation(scopes) /\ Contended(scopes) \in BOOLEAN

VARIABLES
    device,    \* the active configuration: the set of its paths
    op,        \* the scopes that were asked for
    plan,      \* the commands: a delta for each scope, or none at all
    phase,     \* how far the call is
    candidate, \* the configuration of the session
    ran,       \* the number of scopes whose commands have run in the session
    first,     \* how the first of the two calls ended, "disturbed" when it was not alone
    planned,   \* history: the configuration the plan was made for
    stale,     \* history: has somebody else committed since then?
    blind      \* history: was the plan made for the default instead?

vars == <<device, op, plan, phase, candidate, ran, first, planned, stale, blind>>

-----------------------------------------------------------------------------
Phases == {"called", "planned", "running", "noop", "applied", "rejected"}

TypeOK ==
    /\ Config(device) /\ Config(planned)
    /\ plan # <<>> =>
           /\ DOMAIN plan = DOMAIN op
           /\ \A i \in DOMAIN plan :
                  plan[i].deletes \cup plan[i].sets \subseteq Seq(STRING) \ {<<>>}
           /\ \E i \in DOMAIN plan : plan[i] # NoDelta
    /\ phase \in Phases
    /\ phase \in {"planned", "running"} => plan # <<>>
    /\ Candidate(candidate)
    /\ ran \in 0..Len(op)
    /\ first \in {"none", "noop", "applied", "rejected", "disturbed"}
    /\ stale \in BOOLEAN /\ blind \in BOOLEAN

Init ==
    /\ device \in Configs
    /\ op \in Operations
    /\ plan = <<>>
    /\ phase = "called"
    /\ candidate = {}
    /\ ran = 0
    /\ first = "none"
    /\ planned = device
    /\ stale = FALSE
    /\ blind = FALSE

\* What host.get_fact(Configuration) gives: the configuration, or the default
\* where the fact failed and its failure is ignored, nothing was printed, or there
\* is no vbash.
ConfigurationFact(failed) == IF failed THEN EmptyTree ELSE TreeOf(device)

\* Read the Configuration fact, which may have failed, and plan; an empty plan
\* ends the call.
PlanFrom(failed) ==
    /\ phase = "called"
    /\ plan' = PlanScopes(ConfigurationFact(failed), op)
    /\ phase' = IF plan' = <<>> THEN "noop" ELSE "planned"
    /\ planned' = device
    /\ stale' = FALSE /\ blind' = failed
    /\ UNCHANGED <<device, op, candidate, ran, first>>

PlanOperation == \E failed \in {FALSE} \cup {Contended(op)} : PlanFrom(failed)

\* The session begins on the configuration that is active now.
OpenSession ==
    /\ phase = "planned"
    /\ phase' = "running"
    /\ candidate' = device
    /\ ran' = 0
    /\ UNCHANGED <<device, op, plan, first, planned, stale, blind>>

\* The session is gone, with its candidate.
Closes(outcome) == phase' = outcome /\ candidate' = {} /\ ran' = 0

\* The commands of the next scope; a command that is rejected ends the session.
RunScope ==
    /\ phase = "running" /\ ran < Len(plan)
    /\ LET run == RunDelta(candidate, plan[ran + 1])
       IN  \/ /\ run.ok
              /\ candidate' = run.config
              /\ ran' = ran + 1
              /\ UNCHANGED phase
           \/ ~run.ok /\ Closes("rejected")
    /\ UNCHANGED <<device, op, plan, first, planned, stale, blind>>

\* The candidate becomes active, unless it lacks something.
Commit ==
    /\ phase = "running" /\ ran = Len(plan)
    /\ \/ /\ Complete(candidate)
          /\ device' = candidate
          /\ Closes("applied")
       \/ /\ ~Complete(candidate)
          /\ Closes("rejected")
          /\ UNCHANGED device
    /\ UNCHANGED <<op, plan, first, planned, stale, blind>>

\* Another controller, or an operator on the console.  Once in a call is enough:
\* any configuration may follow, whatever number of commits leads to it.
SomebodyCommits ==
    /\ Contended(op)
    /\ phase = "planned"
    /\ ~stale
    /\ device' \in Configs \ {device}
    /\ stale' = TRUE
    /\ UNCHANGED <<op, plan, phase, candidate, ran, first, planned, blind>>

\* The deploy runs again, alone this time or disturbed once more; of the first
\* run nothing is left on the controller.
CallAgain ==
    /\ phase \in {"noop", "applied", "rejected"}
    /\ first = "none"
    /\ first' = IF stale \/ blind THEN "disturbed" ELSE phase
    /\ phase' = "called"
    /\ plan' = <<>> /\ planned' = device
    /\ stale' = FALSE /\ blind' = FALSE
    /\ UNCHANGED <<device, op, candidate, ran>>

\* Both calls are over.
Finished ==
    /\ phase \in {"noop", "applied", "rejected"}
    /\ first # "none"
    /\ UNCHANGED vars

Next ==
    \/ PlanOperation \/ OpenSession \/ RunScope \/ Commit
    \/ SomebodyCommits \/ CallAgain \/ Finished

Spec == Init /\ [][Next]_vars

-----------------------------------------------------------------------------
(* What was asked for.                                                      *)

Scopes(intent) == { op[i] : i \in { j \in DOMAIN op : op[j].intent = intent } }

\* The call ended well, it had read the configuration, and nobody else got in
\* between - in this call: the one before may have been disturbed, and left
\* whatever a stale plan leaves.
Ended == phase \in {"noop", "applied"} /\ ~stale /\ ~blind

Shaped == \A i \in DOMAIN op : op[i].intent # "absent" => HasShape(op[i])

-----------------------------------------------------------------------------
(* Properties.                                                              *)

\* An operation that ends well has removed what should be absent, whether it
\* ran a session or found nothing to do.
AbsentIsAbsent ==
    Ended => \A scope \in Scopes("absent") : scope.path \notin device

\* An operation that owns a path leaves exactly the desired state below it.
ReplaceIsExact ==
    Ended => \A scope \in Scopes("exact") :
                 /\ Required(scope.node) \subseteq device
                 /\ { q \in device : IsPrefix(scope.path, q) } \subseteq Allowed(scope.node)

\* An operation that merges leaves everything that is desired present.
MergeIsPresent ==
    Ended => \A scope \in Scopes("merge") : Required(scope.node) \subseteq device

\* The device rejects no plan that was made for the configuration it has: no
\* command deletes what an earlier one has deleted or overwritten.
PlanIsAccepted == phase = "rejected" => stale \/ blind

\* Calling the operation again finds nothing to do, unless somebody else
\* committed while the first call was under way, or the operation was asked for
\* in shapes the device does not use: those are sent again.
SecondCallIsNoop ==
    Shaped /\ first \in {"noop", "applied"} /\ ~blind => phase \in {"called", "noop"}

\* A plan holds nothing that is not needed: it deletes what is there and sets
\* what is missing, where the operation was asked for in the device's shapes.
PlanIsMinimal ==
    Shaped /\ phase = "planned" /\ ~blind =>
        \A i \in DOMAIN plan : plan[i].deletes \subseteq planned /\ plan[i].sets \cap planned = {}

\* A plan made without having read the configuration deletes nothing at all:
\* with the default of the Configuration fact everything looks absent.
BlindDeletesNothing ==
    phase = "planned" /\ blind => \A i \in DOMAIN plan : plan[i].deletes = {}

Runs == phase = "running" /\ phase' = "applied"

\* A session changes nothing outside the paths its operation owns - also when
\* it runs on a configuration it was not planned for.  (Parents of an owned
\* path come and go with it.)  Where it only merges it removes nothing but the
\* value a single-value leaf had before.
StaysInScope ==
    [][ Runs =>
          /\ \A q \in (device \ device') \cup (device' \ device) :
                 \E i \in DOMAIN op : IsPrefix(op[i].path, q) \/ IsPrefix(q, op[i].path)
          /\ (\A i \in DOMAIN op : op[i].intent = "merge") =>
                 \A q \in device \ device' : Front(q) \in SingleLeaves
      ]_vars

=============================================================================
