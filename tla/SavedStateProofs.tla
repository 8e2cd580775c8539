--------------------------- MODULE SavedStateProofs ---------------------------
(* What SavedState promises for any hosts, any request and any faults.      *)
(*                                                                         *)
(* DoneIsMet and DoneIsSaved say what holds at the end of a deploy; IndInv  *)
(* adds what holds on the way to it.  The facts enter by two lemmas: a      *)
(* configuration is the one on the device or the default with a cause for   *)
(* it, and a host for which PendingSave is "saved" has been compared.       *)
EXTENDS SavedState, TLAPS

-----------------------------------------------------------------------------
(* The facts.                                                               *)

\* A value and a failure are told apart.
LEMMA ValueOrNot ==
    /\ \A v : IsValue(Value(v)) /\ Value(v).value = v
    /\ ~IsValue(ParseError) /\ ~IsValue(FactProcessError)
  BY DEF IsValue, Value, ParseError, FactProcessError

\* What reading Configuration may end in, whatever the command left behind.
LEMMA ConfigurationResult ==
    ASSUME NEW vbash \in BOOLEAN, NEW ignoring \in BOOLEAN, NEW tree,
           NEW output \in {Good} \cup OpModeFailures(Pty)
    PROVE  LET result == Configuration(vbash, output, tree, ignoring)
           IN  \/ vbash /\ result = Value(tree)
               \/ /\ ~vbash \/ output = Silence \/ (ignoring /\ output # Good)
                  /\ result = Value({})
               \/ result = FactProcessError
  <1> DEFINE processed == Processed(output, ParseConfigJson(output.payload, tree))
  <1>1. processed = FactProcessError \/ processed = Value(tree)
    BY ValueOrNot DEF Processed, FactProcess, ParseConfigJson
  <1>2. output = Good => processed = Value(tree)
    BY ValueOrNot DEF Processed, FactProcess, ParseConfigJson, Good, Output, StripMarker
  <1>3. output = Good => output.rc = 0
    BY DEF Good, Output
  <1>4. Value(tree) # FactProcessError
    BY ValueOrNot
  <1> QED
    BY <1>1, <1>2, <1>3, <1>4 DEF Configuration, GetFact

\* What reading PendingSave may end in.
LEMMA PendingSaveResult ==
    ASSUME NEW vbash \in BOOLEAN, NEW ignoring \in BOOLEAN, NEW pending \in BOOLEAN,
           NEW output \in {Good} \cup ProbeFailures
    PROVE  LET result == PendingSave(vbash, output, pending, ignoring)
           IN  \/ vbash /\ result = Value(IF pending THEN "unsaved" ELSE "saved")
               \/ result = Value("unknown")
               \/ vbash /\ result = FactProcessError
  <1> DEFINE processed == Processed(output, ParsePendingSave(output.payload, pending))
             read == Value(IF pending THEN "unsaved" ELSE "saved")
  <1>1. processed = FactProcessError \/ processed = read
    BY ValueOrNot DEF Processed, FactProcess, ParsePendingSave
  <1> QED
    BY <1>1 DEF PendingSave, GetFact

-----------------------------------------------------------------------------
(* Steps.                                                                   *)

\* What goes wrong, and what is counted, stays within the bound.
LEMMA FaultsInBound ==
    ASSUME TypeOK, DeployAssumption
    PROVE  /\ Fault => faults' \in 0..MaxFaults
           /\ \A failures : \A output \in Outputs(failures) :
                  Counted(output) => faults' \in 0..MaxFaults
  BY DEF TypeOK, DeployAssumption, Fault, Outputs, Counted

\* A request keeps a configuration one, and a plan made of it meets the request;
\* to set nodes a plan made of the default is as good.
LEMMA ChangedFacts ==
    ASSUME DeployAssumption, NEW config \in SUBSET Nodes
    PROVE  /\ Planned(config) \in SUBSET Nodes
           /\ \A nodes \in SUBSET Nodes : Changed(config, nodes) \in SUBSET Nodes
           /\ IsMet(Changed(config, Planned(config)))
           /\ Desired.kind = "set" => IsMet(Changed(config, Planned({})))
           /\ Desired.kind = "set" /\ Planned({}) = {} => IsMet(config)
           /\ Desired.kind = "load" => \A nodes : IsMet(Changed(config, nodes))
           /\ Desired.kind # "load" /\ Planned(config) = {} => IsMet(config)
  BY DEF DeployAssumption, Changed, Planned, IsMet

\* What follows config or config_load, and its failure, is a place.
LEMMA NextPlaces ==
    /\ {AfterConfig, AfterFailure, Start, "failed"} \subseteq Places
    /\ WithConfigSave => AfterConfig = "probe"
    /\ ~WithConfigSave => AfterConfig = "done"
    /\ ~IgnoreErrors => AfterFailure = "failed"
  BY DEF Places, AfterConfig, AfterFailure, Start, Over

\* Nothing is asked of a host at the start of a deploy; a load needs no plan.
LEMMA StartIsOpen ==
    ASSUME DeployAssumption, NEW h \in Hosts, NEW a \in SUBSET Nodes, NEW b, NEW wasBlind
    PROVE  HostInv(h, a, b, Start, {}, FALSE, wasBlind)
  <1>1. Start = "apply" => IsMet(Changed(a, {}))
    BY ChangedFacts DEF Start
  <1> QED
    BY <1>1 DEF HostInv, Start

\* A step of host h alone, to what HostInv allows of it.
GoesTo(h, a, b, place, nodes, wasTouched, wasBlind) ==
    /\ a \in SUBSET Nodes /\ b \in SUBSET Nodes /\ nodes \in SUBSET Nodes
    /\ place \in Places /\ wasTouched \in BOOLEAN /\ wasBlind \in BOOLEAN
    /\ active' = [active EXCEPT ![h] = a] /\ boot' = [boot EXCEPT ![h] = b]
    /\ at' = [at EXCEPT ![h] = place] /\ plan' = [plan EXCEPT ![h] = nodes]
    /\ touched' = [touched EXCEPT ![h] = wasTouched]
    /\ blind' = [blind EXCEPT ![h] = wasBlind]
    /\ faults' \in 0..MaxFaults /\ aborted' = FALSE
    /\ HostInv(h, a, b, place, nodes, wasTouched, wasBlind)

\* A step of one host keeps the invariant if it does so for that host.
LEMMA StepOfHost ==
    ASSUME IndInv, NEW h \in Hosts, NEW a, NEW b, NEW place, NEW nodes,
           NEW wasTouched, NEW wasBlind,
           GoesTo(h, a, b, place, nodes, wasTouched, wasBlind)
    PROVE  IndInv'
  <1>1. TypeOK'
    BY DEF IndInv, TypeOK, GoesTo
  <1>2. ASSUME NEW i \in Hosts
        PROVE  HostInv(i, active'[i], boot'[i], at'[i], plan'[i], touched'[i], blind'[i])
    <2>1. CASE i = h
      BY <2>1 DEF IndInv, TypeOK, GoesTo
    <2>2. CASE i # h
      <3>1. /\ active'[i] = active[i] /\ boot'[i] = boot[i] /\ at'[i] = at[i]
            /\ plan'[i] = plan[i] /\ touched'[i] = touched[i] /\ blind'[i] = blind[i]
        BY <2>2 DEF IndInv, TypeOK, GoesTo
      <3> QED
        BY <3>1 DEF IndInv
    <2> QED
      BY <2>1, <2>2
  <1> QED
    BY <1>1, <1>2 DEF IndInv, HostInv, IsMet, Changed, Misled, Persists, GoesTo

\* config ends as a noop only where there is nothing to do, or nothing was read.
LEMMA ReadConfigurationStep ==
    ASSUME IndInv, DeployAssumption, NEW h \in Hosts, ReadConfiguration(h)
    PROVE  IndInv'
  <1> PICK output \in Outputs(OpModeFailures(Pty)) :
        LET result == Configuration(h \notin NoVbash, output, active[h], IgnoreErrors)
            nodes == IF IsValue(result) THEN Planned(result.value) ELSE {}
        IN  /\ OnFact(h, result, IF nodes = {} THEN AfterConfig ELSE "apply")
            /\ plan' = [plan EXCEPT ![h] = nodes]
            /\ blind' = [blind EXCEPT ![h] = Defaulted(h, output)]
            /\ Counted(output)
    BY DEF ReadConfiguration
  <1> DEFINE result == Configuration(h \notin NoVbash, output, active[h], IgnoreErrors)
             wasBlind == Defaulted(h, output)
             nodes == IF IsValue(result) THEN Planned(result.value) ELSE {}
             place == IF IsValue(result)
                      THEN IF nodes = {} THEN AfterConfig ELSE "apply"
                      ELSE "failed"
  <1>1. \/ h \notin NoVbash /\ result = Value(active[h])
        \/ wasBlind /\ result = Value({})
        \/ result = FactProcessError
    BY ConfigurationResult DEF Outputs, DeployAssumption, Defaulted
  <1>2. /\ aborted' = FALSE /\ UNCHANGED <<active, boot, touched>>
        /\ at' = [at EXCEPT ![h] = place]
    BY <1>1, ValueOrNot DEF OnFact, Goto
  <1>3. place \in Places /\ nodes \in SUBSET Nodes
    <2>1. place \in Places
      BY NextPlaces DEF Places
    <2>2. active[h] \in SUBSET Nodes
      BY DEF IndInv, TypeOK
    <2> QED
      BY <1>1, <2>1, <2>2, ValueOrNot, ChangedFacts
  <1>4. HostInv(h, active[h], boot[h], place, nodes, touched[h], wasBlind)
    <2>1. Desired.kind # "load" /\ active[h] \in SUBSET Nodes
      BY DEF ReadConfiguration, IndInv, TypeOK, Places, Start, Over
    <2>2. CASE h \notin NoVbash /\ result = Value(active[h])
      <3>1. /\ nodes = {} => IsMet(active[h])
            /\ IsMet(Changed(active[h], nodes))
        BY <2>1, <2>2, ValueOrNot, ChangedFacts
      <3>2. place \in {"apply", AfterConfig} /\ (place = AfterConfig => nodes = {})
        BY <2>2, ValueOrNot DEF AfterConfig
      <3> HIDE DEF nodes, place
      <3> QED
        BY <2>1, <2>2, <3>1, <3>2, NextPlaces DEF HostInv, Persists
    <2>3. CASE wasBlind /\ result = Value({})
      <3>1. Desired.kind = "set" => /\ nodes = {} => IsMet(active[h])
                                    /\ IsMet(Changed(active[h], nodes))
        BY <2>1, <2>3, ValueOrNot, ChangedFacts
      <3>2. Misled(wasBlind) \/ Desired.kind = "set"
        BY <2>1, <2>3 DEF Misled, DeployAssumption
      <3>3. place \in {"apply", AfterConfig} /\ (place = AfterConfig => nodes = {})
        BY <2>3, ValueOrNot DEF AfterConfig
      <3> HIDE DEF nodes, place, wasBlind, result
      <3>4. WithConfigSave => place \in {"apply", "probe"}
        BY <3>3, NextPlaces
      <3>5. Persists => WithConfigSave
        BY <2>1 DEF Persists
      <3>6. ~Misled(wasBlind) /\ place # "apply" => IsMet(active[h])
        BY <3>1, <3>2, <3>3
      <3> QED
        BY <3>1, <3>2, <3>4, <3>5, <3>6 DEF HostInv
    <2>4. CASE result = FactProcessError
      BY <2>4, ValueOrNot DEF HostInv
    <2> QED
      BY <1>1, <2>2, <2>3, <2>4
  <1>5. faults' \in 0..MaxFaults
    BY FaultsInBound DEF IndInv
  <1>6. /\ plan' = [plan EXCEPT ![h] = nodes] /\ blind' = [blind EXCEPT ![h] = wasBlind]
        /\ wasBlind \in BOOLEAN
    BY DEF Defaulted
  <1> HIDE DEF nodes, place, wasBlind
  <1>7. GoesTo(h, active[h], boot[h], place, nodes, touched[h], wasBlind)
    BY <1>2, <1>3, <1>4, <1>5, <1>6 DEF GoesTo, IndInv, TypeOK
  <1> QED
    BY <1>7, StepOfHost

\* The session leaves the request met, and saved if a load was to save, or the
\* host is out of the deploy.
LEMMA ApplyStep ==
    ASSUME IndInv, DeployAssumption, NEW h \in Hosts, Apply(h)
    PROVE  IndInv'
  <1>1. /\ active[h] \in SUBSET Nodes /\ boot[h] \in SUBSET Nodes
        /\ plan[h] \in SUBSET Nodes
        /\ touched[h] \in BOOLEAN /\ blind[h] \in BOOLEAN
        /\ touched' = [touched EXCEPT ![h] = touched[h]]
        /\ blind' = [blind EXCEPT ![h] = blind[h]]
        /\ plan' = [plan EXCEPT ![h] = plan[h]]
        /\ aborted' = FALSE
    BY DEF IndInv, TypeOK, Apply
  <1>2. /\ Outcome(h) \in SUBSET Nodes
        /\ ~touched[h] /\ ~Misled(blind[h]) => IsMet(Outcome(h))
    <2>1. ~touched[h] /\ ~Misled(blind[h]) => IsMet(Changed(active[h], plan[h]))
      BY DEF Apply, IndInv, HostInv
    <2> QED
      BY <1>1, <2>1, ChangedFacts DEF Outcome
  <1>3. Fault \/ UNCHANGED faults => faults' \in 0..MaxFaults
    BY FaultsInBound DEF IndInv, TypeOK
  <1>4. CASE /\ h \notin NoVbash
             /\ Writes(h, Outcome(h), IF Saves(h) THEN Outcome(h) ELSE boot[h])
             /\ Goto(h, AfterConfig)
             /\ UNCHANGED faults
    <2> DEFINE b == IF Saves(h) THEN Outcome(h) ELSE boot[h]
    <2>1. HostInv(h, Outcome(h), b, AfterConfig, plan[h], touched[h], blind[h])
      BY <1>2, <1>4, NextPlaces DEF HostInv, Persists, Saves
    <2>2. /\ active' = [active EXCEPT ![h] = Outcome(h)] /\ boot' = [boot EXCEPT ![h] = b]
          /\ at' = [at EXCEPT ![h] = AfterConfig] /\ AfterConfig \in Places
          /\ b \in SUBSET Nodes
      BY <1>1, <1>2, <1>4, NextPlaces DEF Writes, Goto
    <2> HIDE DEF b
    <2>3. GoesTo(h, Outcome(h), b, AfterConfig, plan[h], touched[h], blind[h])
      BY <1>1, <1>2, <1>3, <1>4, <2>1, <2>2 DEF GoesTo
    <2> QED
      BY <2>3, StepOfHost
  <1>5. ASSUME NEW a \in SUBSET Nodes, NEW b \in SUBSET Nodes,
               Writes(h, a, b), Goto(h, AfterFailure), Fault \/ UNCHANGED faults
        PROVE  IndInv'
    <2>1. HostInv(h, a, b, AfterFailure, plan[h], touched[h], blind[h])
      BY NextPlaces DEF HostInv, Persists, AfterFailure, AfterConfig
    <2>2. AfterFailure \in Places
      BY NextPlaces
    <2>3. GoesTo(h, a, b, AfterFailure, plan[h], touched[h], blind[h])
      BY <1>1, <1>3, <1>5, <2>1, <2>2 DEF GoesTo, Writes, Goto
    <2> QED
      BY <2>3, StepOfHost
  <1>6. CASE /\ h \in NoVbash
             /\ Goto(h, AfterFailure)
             /\ UNCHANGED <<active, boot, faults>>
    <2>1. Writes(h, active[h], boot[h])
      BY <1>6 DEF Writes, IndInv, TypeOK
    <2> QED
      BY <1>1, <1>5, <1>6, <2>1
  <1>7. \A part \in SUBSET Nodes :
           (active[h] \ part) \cup (Outcome(h) \cap part) \in SUBSET Nodes
    BY <1>1, <1>2
  <1> QED
    BY <1>1, <1>2, <1>4, <1>5, <1>6, <1>7 DEF Apply

\* config_save passes over a host only if it was found saved.
LEMMA ProbePendingStep ==
    ASSUME IndInv, DeployAssumption, NEW h \in Hosts, ProbePending(h)
    PROVE  IndInv'
  <1> PICK output \in Outputs(ProbeFailures) :
        LET result == PendingSave(h \notin NoVbash, output, Unsaved(h), IgnoreErrors)
        IN  /\ OnFact(h, result, AfterProbe(result.value))
            /\ Counted(output)
    BY DEF ProbePending
  <1> DEFINE result == PendingSave(h \notin NoVbash, output, Unsaved(h), IgnoreErrors)
             place == IF IsValue(result) THEN AfterProbe(result.value) ELSE "failed"
  <1>1. \/ h \notin NoVbash /\ result = Value(IF Unsaved(h) THEN "unsaved" ELSE "saved")
        \/ result = Value("unknown")
        \/ result = FactProcessError
    <2>1. /\ Unsaved(h) \in BOOLEAN /\ IgnoreErrors \in BOOLEAN
          /\ output \in {Good} \cup ProbeFailures
      BY DEF Unsaved, DeployAssumption, Outputs
    <2> QED
      BY <2>1, PendingSaveResult
  <1>2. /\ aborted' = FALSE /\ UNCHANGED <<active, boot, plan, touched, blind>>
        /\ at' = [at EXCEPT ![h] = place]
    <2>1. IsValue(result) \/ result = FactProcessError
      BY <1>1, ValueOrNot
    <2>2. UNCHANGED <<plan, blind>>
      BY DEF ProbePending
    <2>3. OnFact(h, result, AfterProbe(result.value))
      OBVIOUS
    <2> HIDE DEF result
    <2> QED
      BY <2>1, <2>2, <2>3, ValueOrNot DEF OnFact, Goto
  <1>3. \/ place = "failed"
        \/ h \notin NoVbash /\ place = "save"
        \/ h \notin NoVbash /\ place = "done" /\ active[h] = boot[h]
    BY <1>1, ValueOrNot DEF AfterProbe, Unsaved
  <1>4. WithConfigSave /\ place \in Places
    BY <1>3 DEF ProbePending, IndInv, TypeOK, Places, Start, Over
  <1>5. HostInv(h, active[h], boot[h], place, plan[h], touched[h], blind[h])
    BY <1>3 DEF HostInv, ProbePending, IndInv
  <1>6. faults' \in 0..MaxFaults
    BY FaultsInBound DEF IndInv
  <1> HIDE DEF place
  <1>7. GoesTo(h, active[h], boot[h], place, plan[h], touched[h], blind[h])
    BY <1>2, <1>4, <1>5, <1>6 DEF GoesTo, IndInv, TypeOK
  <1> QED
    BY <1>7, StepOfHost

\* The save script saves what is there, or the host is out.
LEMMA SaveStep ==
    ASSUME IndInv, DeployAssumption, NEW h \in Hosts, Save(h)
    PROVE  IndInv'
  <1>1. /\ active[h] \in SUBSET Nodes /\ boot[h] \in SUBSET Nodes
        /\ touched[h] \in BOOLEAN /\ blind[h] \in BOOLEAN
        /\ active = [active EXCEPT ![h] = active[h]]
        /\ boot = [boot EXCEPT ![h] = boot[h]]
        /\ plan' = [plan EXCEPT ![h] = plan[h]] /\ plan[h] \in SUBSET Nodes
        /\ touched' = [touched EXCEPT ![h] = touched[h]]
        /\ blind' = [blind EXCEPT ![h] = blind[h]]
        /\ aborted' = FALSE
        /\ {"done", "failed"} \subseteq Places
    BY DEF IndInv, TypeOK, Save, Places, Over
  <1>2. Fault \/ UNCHANGED faults => faults' \in 0..MaxFaults
    BY FaultsInBound DEF IndInv, TypeOK
  <1>3. CASE Writes(h, active[h], active[h]) /\ Goto(h, "done") /\ UNCHANGED faults
    <2>1. WithConfigSave
      BY DEF Save, IndInv, TypeOK, Places, Start, Over
    <2>2. HostInv(h, active[h], active[h], "done", plan[h], touched[h], blind[h])
      BY <2>1 DEF HostInv, Save, IndInv
    <2>3. GoesTo(h, active[h], active[h], "done", plan[h], touched[h], blind[h])
      BY <1>1, <1>2, <1>3, <2>2 DEF GoesTo, Writes, Goto
    <2> QED
      BY <2>3, StepOfHost
  <1>4. CASE Fault /\ Goto(h, "failed") /\ UNCHANGED <<active, boot>>
    <2>1. HostInv(h, active[h], boot[h], "failed", plan[h], touched[h], blind[h])
      BY DEF HostInv
    <2>2. GoesTo(h, active[h], boot[h], "failed", plan[h], touched[h], blind[h])
      BY <1>1, <1>2, <1>4, <2>1 DEF GoesTo, Goto
    <2> QED
      BY <2>2, StepOfHost
  <1> QED
    BY <1>3, <1>4 DEF Save

\* What somebody else commits is on his account.
LEMMA SomebodyCommitsStep ==
    ASSUME IndInv, DeployAssumption, NEW h \in Hosts, SomebodyCommits(h)
    PROVE  IndInv'
  <1> PICK config \in (SUBSET Nodes) \ {active[h]}, saving \in BOOLEAN :
        Writes(h, config, IF saving THEN config ELSE boot[h])
    BY DEF SomebodyCommits
  <1> DEFINE b == IF saving THEN config ELSE boot[h]
  <1>1. HostInv(h, config, b, at[h], plan[h], TRUE, blind[h])
    BY DEF HostInv, IndInv
  <1>2. /\ at' = [at EXCEPT ![h] = at[h]] /\ at[h] \in Places
        /\ plan' = [plan EXCEPT ![h] = plan[h]] /\ plan[h] \in SUBSET Nodes
        /\ blind' = [blind EXCEPT ![h] = blind[h]] /\ blind[h] \in BOOLEAN
        /\ touched' = [touched EXCEPT ![h] = TRUE]
        /\ b \in SUBSET Nodes /\ aborted' = FALSE
    BY DEF SomebodyCommits, IndInv, TypeOK
  <1>3. faults' \in 0..MaxFaults
    BY FaultsInBound DEF IndInv, SomebodyCommits
  <1>4. /\ active' = [active EXCEPT ![h] = config] /\ boot' = [boot EXCEPT ![h] = b]
        /\ config \in SUBSET Nodes
    BY DEF Writes
  <1> HIDE DEF b
  <1>5. GoesTo(h, config, b, at[h], plan[h], TRUE, blind[h])
    BY <1>1, <1>2, <1>3, <1>4 DEF GoesTo
  <1> QED
    BY <1>5, StepOfHost

\* Where a deploy has ended well, a reboot finds what was saved to be active.
LEMMA RebootStep ==
    ASSUME IndInv, DeployAssumption, NEW h \in Hosts, Reboot(h)
    PROVE  IndInv'
  <1> DEFINE place == IF at[h] \in Over THEN at[h] ELSE "failed"
  <1>1. HostInv(h, boot[h], boot[h], place, plan[h], touched[h], blind[h])
    BY DEF HostInv, IndInv, Over
  <1>2. /\ at' = [at EXCEPT ![h] = place] /\ place \in Places
        /\ plan' = [plan EXCEPT ![h] = plan[h]] /\ plan[h] \in SUBSET Nodes
        /\ blind' = [blind EXCEPT ![h] = blind[h]] /\ blind[h] \in BOOLEAN
        /\ touched' = [touched EXCEPT ![h] = touched[h]] /\ touched[h] \in BOOLEAN
        /\ boot[h] \in SUBSET Nodes /\ aborted' = FALSE
    BY DEF Reboot, Goto, IndInv, TypeOK, Places, Over
  <1>3. faults' \in 0..MaxFaults
    BY FaultsInBound DEF IndInv, Reboot
  <1>4. active' = [active EXCEPT ![h] = boot[h]] /\ boot' = [boot EXCEPT ![h] = boot[h]]
    BY DEF Reboot, Writes
  <1> HIDE DEF place
  <1>5. GoesTo(h, boot[h], boot[h], place, plan[h], touched[h], blind[h])
    BY <1>1, <1>2, <1>3, <1>4 DEF GoesTo
  <1> QED
    BY <1>5, StepOfHost

\* A deploy that begins again has everything before it.
LEMMA DeployAgainStep ==
    ASSUME IndInv, DeployAssumption, DeployAgain
    PROVE  IndInv'
  <1>1. TypeOK'
    BY DEF IndInv, TypeOK, DeployAgain, Places
  <1>2. \A h \in Hosts : HostInv(h, active[h], boot[h], Start, {}, FALSE, FALSE)
    BY <1>1, StartIsOpen DEF TypeOK, DeployAgain
  <1> QED
    BY <1>1, <1>2 DEF IndInv, DeployAgain, HostInv, IsMet, Changed, Misled, Persists

-----------------------------------------------------------------------------
(* Theorems.                                                                *)

\* The inductive invariant holds, for any number of hosts, any request of the
\* three kinds, any options and any number of faults.
THEOREM Invariance == Spec => []IndInv
  <1> USE DeployAssumption
  <1>1. Init => IndInv
    <2> SUFFICES ASSUME Init PROVE IndInv
      OBVIOUS
    <2>1. Start \in Places /\ 0 \in 0..MaxFaults
      BY DEF Places, DeployAssumption
    <2>2. TypeOK
      BY <2>1 DEF Init, TypeOK
    <2>3. \A h \in Hosts : HostInv(h, active[h], boot[h], at[h], plan[h], touched[h], blind[h])
      BY StartIsOpen DEF Init
    <2> QED
      BY <2>2, <2>3 DEF Init, IndInv
  <1>2. IndInv /\ [Next]_vars => IndInv'
    <2> SUFFICES ASSUME IndInv, [Next]_vars PROVE IndInv'
      OBVIOUS
    <2>1. ASSUME NEW h \in Hosts, ReadConfiguration(h) PROVE IndInv'
      BY <2>1, ReadConfigurationStep
    <2>2. ASSUME NEW h \in Hosts, Apply(h) PROVE IndInv'
      BY <2>2, ApplyStep
    <2>3. ASSUME NEW h \in Hosts, ProbePending(h) PROVE IndInv'
      BY <2>3, ProbePendingStep
    <2>4. ASSUME NEW h \in Hosts, Save(h) PROVE IndInv'
      BY <2>4, SaveStep
    <2>5. ASSUME NEW h \in Hosts, SomebodyCommits(h) PROVE IndInv'
      BY <2>5, SomebodyCommitsStep
    <2>6. ASSUME NEW h \in Hosts, Reboot(h) PROVE IndInv'
      BY <2>6, RebootStep
    <2>7. CASE DeployAgain
      BY <2>7, DeployAgainStep
    <2>8. CASE UNCHANGED vars
      BY <2>8 DEF vars, IndInv, TypeOK, HostInv, IsMet, Changed, Misled, Persists
    <2> QED
      BY <2>1, <2>2, <2>3, <2>4, <2>5, <2>6, <2>7, <2>8 DEF Next, Step
  <1> QED
    BY <1>1, <1>2, PTL DEF Spec

\* Types, with every host at a place its deploy has.
THEOREM TypeCorrect == Spec => []TypeOK
  <1>1. IndInv => TypeOK
    BY DEF IndInv
  <1> QED
    BY <1>1, Invariance, PTL

\* A deploy that has ended well has met its request, and a reboot keeps it, unless
\* somebody else changed the host or it was to delete and had only the default of
\* the configuration to tell what.
THEOREM DoneMeets == Spec => []DoneIsMet
  <1>1. IndInv => DoneIsMet
    BY DEF IndInv, HostInv, DoneIsMet
  <1> QED
    BY <1>1, Invariance, PTL

\* A deploy that has ended well has its configuration saved.
THEOREM DoneSaves == Spec => []DoneIsSaved
  <1>1. IndInv => DoneIsSaved
    BY DEF IndInv, HostInv, DoneIsSaved
  <1> QED
    BY <1>1, Invariance, PTL

\* No output of a host ends the deploy of the others.
THEOREM OthersContinue == Spec => []OthersGoOn
  <1>1. IndInv => OthersGoOn
    BY DEF IndInv, OthersGoOn
  <1> QED
    BY <1>1, Invariance, PTL

\* Without a fault no step writes to a host that has no vbash.
LEMMA NoVbashUnwritten ==
    ASSUME IndInv, DeployAssumption, Next, faults' = faults, NEW h \in NoVbash
    PROVE  active'[h] = active[h] /\ boot'[h] = boot[h]
  <1>1. h \in Hosts /\ ~Fault
    BY DEF DeployAssumption, IndInv, TypeOK, Fault
  <1>2. ASSUME NEW g \in Hosts, NEW a, NEW b, Writes(g, a, b), g # h
        PROVE  active'[h] = active[h] /\ boot'[h] = boot[h]
    BY <1>1, <1>2 DEF Writes, IndInv, TypeOK
  <1>3. ASSUME NEW g \in Hosts, Apply(g)
        PROVE  active'[h] = active[h] /\ boot'[h] = boot[h]
    <2>1. CASE UNCHANGED <<active, boot>>
      BY <2>1
    <2>2. CASE g \notin NoVbash /\ \E a, b : Writes(g, a, b)
      BY <1>2, <2>2
    <2> QED
      BY <1>3, <2>1, <2>2 DEF Apply
  <1>4. ASSUME NEW g \in Hosts, Save(g)
        PROVE  active'[h] = active[h] /\ boot'[h] = boot[h]
    <2>1. g # h
      BY <1>4 DEF Save, IndInv, TypeOK, HostInv, Places, Start, Over
    <2>2. Writes(g, active[g], active[g])
      BY <1>1, <1>4 DEF Save
    <2> QED
      BY <1>2, <2>1, <2>2
  <1>5. ASSUME NEW g \in Hosts, ReadConfiguration(g) \/ ProbePending(g)
        PROVE  UNCHANGED <<active, boot>>
    BY <1>5 DEF ReadConfiguration, ProbePending, OnFact
  <1>6. ASSUME NEW g \in Hosts, SomebodyCommits(g) \/ Reboot(g)
        PROVE  FALSE
    BY <1>1, <1>6 DEF SomebodyCommits, Reboot
  <1>7. DeployAgain => UNCHANGED <<active, boot>>
    BY DEF DeployAgain
  <1> QED
    BY <1>3, <1>4, <1>5, <1>6, <1>7 DEF Next, Step

\* A host that is no VyOS host is left alone and never counted as saved.
THEOREM LeftAlone == Spec => NoVbashIsLeftAlone
  <1> USE DeployAssumption
  <1> DEFINE Alone(h) == ~touched'[h] /\ faults' = faults =>
                            /\ active'[h] = active[h] /\ boot'[h] = boot[h]
                            /\ WithConfigSave => at'[h] # "done"
  <1>1. ASSUME IndInv, IndInv', [Next]_vars
        PROVE  [\A h \in NoVbash : Alone(h)]_vars
    <2> SUFFICES ASSUME Next, NEW h \in NoVbash, faults' = faults
                 PROVE  /\ active'[h] = active[h] /\ boot'[h] = boot[h]
                        /\ WithConfigSave => at'[h] # "done"
      BY <1>1
    <2>1. active'[h] = active[h] /\ boot'[h] = boot[h]
      BY <1>1, NoVbashUnwritten
    <2>2. WithConfigSave => at'[h] # "done"
      BY <1>1 DEF IndInv, HostInv, DeployAssumption
    <2> QED
      BY <2>1, <2>2
  <1> QED
    BY <1>1, Invariance, PTL DEF Spec, NoVbashIsLeftAlone

=============================================================================
