------------------------------ MODULE SavedState ------------------------------
(***************************************************************************)
(* A deploy that ends in a saved configuration, on several hosts and again  *)
(* and again: config or config_load, with or without save, and config_save. *)
(* Facts fail, saves fail, hosts reboot and others commit in between.       *)
(*                                                                         *)
(* Source: config, config_load and config_save in operations.py, on Facts.  *)
(* A session is one step here, for what ConfigSession shows of it: it does  *)
(* all it was asked for, or it fails after a part of the commit, and what   *)
(* it saves is never a part.                                                *)
(***************************************************************************)
EXTENDS Naturals, Facts

CONSTANTS
    Hosts,          \* the hosts of the deploy
    NoVbash,        \* those that are no VyOS hosts
    Nodes,          \* what a configuration can hold
    Desired,        \* what config or config_load is to bring about
    WithSave,       \* is it called with save=True?
    WithConfigSave, \* does config_save follow?
    IgnoreErrors,   \* _ignore_errors on the operations
    Pty,            \* _get_pty
    MaxFaults       \* how often something may go wrong

\* A request of config: nodes that are to be there or not, or of config_load:
\* the whole configuration.
ASSUME DeployAssumption ==
    /\ Desired \in [kind : {"set", "delete", "load"}, nodes : SUBSET Nodes]
    /\ NoVbash \subseteq Hosts
    /\ WithSave \in BOOLEAN /\ WithConfigSave \in BOOLEAN
    /\ IgnoreErrors \in BOOLEAN /\ Pty \in BOOLEAN
    /\ MaxFaults \in Nat

VARIABLES
    active,     \* per host: the running configuration
    boot,       \* per host: config.boot
    at,         \* per host: where the deploy is
    plan,       \* per host: the nodes that config has decided to set or delete
    aborted,    \* has an exception ended the deploy for every host?
    faults,     \* how much has gone wrong
    touched,    \* history, per host: did anybody else change it during this deploy?
    blind       \* history, per host: was a default taken for its configuration?

vars == <<active, boot, at, plan, aborted, faults, touched, blind>>

Start == IF Desired.kind = "load" THEN "apply" ELSE "read"

Over == {"done", "failed"}

\* The operations the deploy has, and so the places it can be at.
Places ==
    {Start, "apply"} \cup Over \cup IF WithConfigSave THEN {"probe", "save"} ELSE {}

TypeOK ==
    /\ active \in [Hosts -> SUBSET Nodes]
    /\ boot \in [Hosts -> SUBSET Nodes]
    /\ at \in [Hosts -> Places]
    /\ plan \in [Hosts -> SUBSET Nodes]
    /\ aborted \in BOOLEAN
    /\ faults \in 0..MaxFaults
    /\ touched \in [Hosts -> BOOLEAN] /\ blind \in [Hosts -> BOOLEAN]

Init ==
    /\ active \in [Hosts -> SUBSET Nodes]
    /\ boot \in [Hosts -> SUBSET Nodes]
    /\ at = [h \in Hosts |-> Start]
    /\ plan = [h \in Hosts |-> {}]
    /\ aborted = FALSE
    /\ faults = 0
    /\ touched = [h \in Hosts |-> FALSE]
    /\ blind = [h \in Hosts |-> FALSE]

-----------------------------------------------------------------------------
Goto(h, place) == at' = [at EXCEPT ![h] = place]

Writes(h, a, b) ==
    /\ active' = [active EXCEPT ![h] = a]
    /\ boot' = [boot EXCEPT ![h] = b]

Unsaved(h) == active[h] # boot[h]

\* Something goes wrong.
Fault == faults < MaxFaults /\ faults' = faults + 1

\* The output of a command: as it should be, or one of its failures.
Outputs(failures) == {Good} \cup { output \in failures : faults < MaxFaults }

Counted(output) == faults' = IF output = Good THEN faults ELSE faults + 1

\* What config has to do to a configuration it has read.
Planned(tree) == IF Desired.kind = "set" THEN Desired.nodes \ tree ELSE Desired.nodes \cap tree

\* What setting or deleting nodes, or the load, makes of a configuration.
Changed(config, nodes) ==
    IF Desired.kind = "load" THEN Desired.nodes
    ELSE IF Desired.kind = "set" THEN config \cup nodes
    ELSE config \ nodes

\* Mutant of AfterConfig: save=True makes config_save superfluous.
AfterConfigTrustsSave == IF WithConfigSave /\ ~WithSave THEN "probe" ELSE "done"

AfterConfig == IF WithConfigSave THEN "probe" ELSE "done"

\* With _ignore_errors the host stays in the deploy when the session fails.
AfterFailure == IF IgnoreErrors THEN AfterConfig ELSE "failed"

\* A fact on h: with its value the deploy goes on at place, without it the host is out,
\* and an exception that pyinfra does not contain ends it for all.
OnFact(h, result, place) ==
    /\ aborted' = (~IsValue(result) /\ result # FactProcessError)
    /\ Goto(h, IF IsValue(result) THEN place ELSE "failed")
    /\ UNCHANGED <<active, boot, touched>>

\* The fact has no more than its default: nothing was printed or nothing of it
\* arrived, or an error is ignored.
Defaulted(h, output) ==
    h \in NoVbash \/ output = Silence \/ (IgnoreErrors /\ output # Good)

\* config: noop when nothing is to be done to the configuration that was read.
ReadConfiguration(h) ==
    /\ ~aborted
    /\ at[h] = "read"
    /\ \E output \in Outputs(OpModeFailures(Pty)) :
           LET result == Configuration(h \notin NoVbash, output, active[h], IgnoreErrors)
               nodes == IF IsValue(result) THEN Planned(result.value) ELSE {}
           IN  /\ OnFact(h, result, IF nodes = {} THEN AfterConfig ELSE "apply")
               /\ plan' = [plan EXCEPT ![h] = nodes]
               /\ blind' = [blind EXCEPT ![h] = Defaulted(h, output)]
               /\ Counted(output)

\* What the session is to leave: the plan may be older than the configuration.
Outcome(h) == Changed(active[h], plan[h])

\* A command script saves only after a commit of its own, a load always.
Saves(h) == WithSave /\ (Desired.kind = "load" \/ Outcome(h) # active[h])

\* The session of config or config_load.
Apply(h) ==
    /\ ~aborted
    /\ at[h] = "apply"
    /\ \/ /\ h \notin NoVbash
          /\ Writes(h, Outcome(h), IF Saves(h) THEN Outcome(h) ELSE boot[h])
          /\ Goto(h, AfterConfig)
          /\ UNCHANGED faults
       \* The session fails with nothing, a part or all of it committed, and
       \* nothing saved; or it is killed after the save.
       \/ /\ h \notin NoVbash /\ Fault
          /\ \E part \in SUBSET Nodes :
                Writes(h, (active[h] \ part) \cup (Outcome(h) \cap part), boot[h])
          /\ Goto(h, AfterFailure)
       \/ /\ h \notin NoVbash /\ Saves(h) /\ Fault
          /\ Writes(h, Outcome(h), Outcome(h))
          /\ Goto(h, AfterFailure)
       \* There is no script to run.
       \/ /\ h \in NoVbash
          /\ Goto(h, AfterFailure)
          /\ UNCHANGED <<active, boot, faults>>
    /\ UNCHANGED <<plan, aborted, touched, blind>>

\* Mutant of AfterProbe: whatever is not True is a noop.
AfterProbeIfUnsaved(pending) == IF pending = "unsaved" THEN "save" ELSE "done"

\* config_save: None is refused, False is a noop.
AfterProbe(pending) ==
    [unknown |-> "failed", saved |-> "done", unsaved |-> "save"][pending]

ProbePending(h) ==
    /\ ~aborted
    /\ at[h] = "probe"
    /\ \E output \in Outputs(ProbeFailures) :
           LET result == PendingSave(h \notin NoVbash, output, Unsaved(h), IgnoreErrors)
           IN  /\ OnFact(h, result, AfterProbe(result.value))
               /\ Counted(output)
    /\ UNCHANGED <<plan, blind>>

\* The save script; it looks for itself whether there is anything to save.
Save(h) ==
    /\ ~aborted
    /\ at[h] = "save"
    /\ \/ /\ Writes(h, active[h], active[h])
          /\ Goto(h, "done")
          /\ UNCHANGED faults
       \/ /\ Fault
          /\ Goto(h, "failed")
          /\ UNCHANGED <<active, boot>>
    /\ UNCHANGED <<plan, aborted, touched, blind>>

\* The deploy is over on every host, or for every host, and runs again.
DeployAgain ==
    /\ aborted \/ \A h \in Hosts : at[h] \in Over
    /\ at' = [h \in Hosts |-> Start]
    /\ plan' = [h \in Hosts |-> {}]
    /\ aborted' = FALSE
    /\ touched' = [h \in Hosts |-> FALSE]
    /\ blind' = [h \in Hosts |-> FALSE]
    /\ UNCHANGED <<active, boot, faults>>

\* Somebody else commits, with or without saving.
SomebodyCommits(h) ==
    /\ Fault
    /\ \E config \in (SUBSET Nodes) \ {active[h]}, saving \in BOOLEAN :
           Writes(h, config, IF saving THEN config ELSE boot[h])
    /\ touched' = [touched EXCEPT ![h] = TRUE]
    /\ UNCHANGED <<at, plan, aborted, blind>>

\* What was not saved is gone; the host is out of a deploy that is on.
Reboot(h) ==
    /\ Fault
    /\ Writes(h, boot[h], boot[h])
    /\ Goto(h, IF at[h] \in Over THEN at[h] ELSE "failed")
    /\ UNCHANGED <<plan, aborted, touched, blind>>

Step(h) == ReadConfiguration(h) \/ Apply(h) \/ ProbePending(h) \/ Save(h)

Next ==
    \/ \E h \in Hosts : Step(h) \/ SomebodyCommits(h) \/ Reboot(h)
    \/ DeployAgain

Spec == Init /\ [][Next]_vars

\* Every command returns in time, and the deploy is run again and again.
FairSpec ==
    /\ Spec
    /\ \A h \in Hosts : WF_vars(Step(h))
    /\ WF_vars(DeployAgain)

-----------------------------------------------------------------------------
(* Properties.                                                              *)

IsMet(config) == Changed(config, Desired.nodes) = config

\* The deploy is to end with a saved configuration.  With its errors ignored a
\* config_load that failed to save counts as done.
Persists == WithConfigSave \/ (Desired.kind = "load" /\ WithSave /\ ~IgnoreErrors)

\* A configuration that is only the default is empty: to a deletion there is
\* nothing to do then.  A set sets everything, which is as good.
Misled(wasBlind) == wasBlind /\ Desired.kind = "delete"

\* Where such a deploy has ended well the request is met, unless somebody else
\* has changed the host, or nothing arrived of the configuration that was to
\* tell what to delete: no failure of a command, a parser or a session passes
\* for "nothing to do", no configuration that was not read keeps nodes from
\* being set, and a reboot after that (which leaves the deploy "done") takes
\* nothing back.
DoneIsMet ==
    Persists /\ ~IgnoreErrors =>
        \A h \in Hosts : at[h] = "done" /\ ~touched[h] /\ ~Misled(blind[h]) => IsMet(active[h])

\* Where such a deploy has ended well the configuration is saved: unknown never
\* passes for saved.
DoneIsSaved ==
    Persists => \A h \in Hosts : at[h] = "done" /\ ~touched[h] => active[h] = boot[h]

\* What holds of a host anywhere in the deploy, for the two properties above to
\* hold at its end: what it has running and saved, where it is with which plan,
\* and its history.
HostInv(h, running, saved, place, nodes, wasTouched, wasBlind) ==
    /\ place = "apply" /\ ~wasTouched /\ ~Misled(wasBlind) => IsMet(Changed(running, nodes))
    /\ /\ Persists /\ ~IgnoreErrors
       /\ place \in {"probe", "save", "done"} /\ ~wasTouched /\ ~Misled(wasBlind)
       => IsMet(running)
    /\ Persists /\ place = "done" /\ ~wasTouched => running = saved
    /\ h \in NoVbash /\ WithConfigSave => place \notin {"save", "done"}

\* The inductive invariant of the proofs: no exception has ended the deploy for
\* all, and every host is on the way to a configuration that is met and saved.
IndInv ==
    /\ TypeOK
    /\ ~aborted
    /\ \A h \in Hosts : HostInv(h, active[h], boot[h], at[h], plan[h], touched[h], blind[h])

\* What one host prints never ends the deploy of the others.
OthersGoOn == ~aborted

\* A host without vbash is left alone and never counted as saved.
NoVbashIsLeftAlone ==
    [][ \A h \in NoVbash : ~touched'[h] /\ faults' = faults =>
            /\ active'[h] = active[h] /\ boot'[h] = boot[h]
            /\ WithConfigSave => at'[h] # "done" ]_vars

\* Run often enough, the deploy brings about what is desired and has it saved,
\* on every VyOS host: no failure leaves something a later run cannot mend.
EventuallyMetAndSaved ==
    <>[](\A h \in Hosts \ NoVbash : IsMet(active[h]) /\ active[h] = boot[h])

=============================================================================
