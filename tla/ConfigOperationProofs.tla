------------------------ MODULE ConfigOperationProofs ------------------------
(***************************************************************************)
(* What a call of an operation promises, for every grammar, configuration   *)
(* and operation in terms of the grammar (WellPosed): that the plan made of *)
(* one reading of the configuration is accepted and reaches what was asked  *)
(* for, that a second call finds nothing to do, that a plan holds nothing   *)
(* superfluous, and that no session leaves the scope of its operation.      *)
(***************************************************************************)
EXTENDS ConfigOperation, ConfigPlanProofs

\* The configuration that the plan was made for, as far as it could be known.
Base == IF blind THEN {} ELSE planned

AllMet(c) == \A i \in DOMAIN op : Met(op[i], c)

Typed ==
    /\ op \in Operations
    /\ Config(device) /\ Config(planned) /\ Candidate(candidate)
    /\ phase \in Phases
    /\ ran \in 0..Len(op)
    /\ first \in {"none", "noop", "applied", "rejected", "disturbed"}
    /\ stale \in BOOLEAN /\ blind \in BOOLEAN

\* A plan is always the one of the configuration it was made for, and where
\* nobody else has committed that is the active one.
Planned ==
    /\ plan # <<>> => plan = PlanScopes(TreeOf(Base), op)
    /\ phase \in {"planned", "running"} => plan # <<>> /\ (~stale => device = planned)
    /\ phase = "called" => ~stale /\ ~blind

\* In an undisturbed session the scopes that have run are met, the others find
\* what they were planned for.
Halfway ==
    phase = "running" /\ ~stale /\ ~blind =>
        /\ Complete(candidate)
        /\ \A i \in DOMAIN op : IF i <= ran THEN Met(op[i], candidate)
                                ELSE Pending(op[i], candidate, planned)

\* What a session has changed so far was for one of its scopes.
InScope ==
    phase = "running" =>
        /\ \A q \in candidate \ device : \E i \in DOMAIN op : Adds(op[i], q)
        /\ \A q \in device \ candidate : \E i \in DOMAIN op : Removes(op[i], q)

\* An undisturbed call that is over was accepted and has left all scopes met, and
\* the next one found them so.
Over ==
    /\ Ended => AllMet(device)
    /\ phase = "rejected" => stale \/ blind
    /\ first \in {"noop", "applied"} /\ ~blind =>
           phase \in {"called", "noop"} /\ AllMet(device)

IndInv == WellPosed(op) /\ Typed /\ Planned /\ Halfway /\ InScope /\ Over

-----------------------------------------------------------------------------
\* What the invariant says of the operation, for the lemmas about its scopes.
LEMMA OperationFacts ==
    ASSUME IndInv
    PROVE  /\ op \in Operations /\ IsOperation(op) /\ Contended(op) \in BOOLEAN
           /\ Len(op) \in Nat /\ DOMAIN op = 1..Len(op)
           /\ \A i \in DOMAIN op : Posed(op[i])
           /\ \A i, j \in DOMAIN op : i # j => Apart(op[i], op[j])
           /\ Candidate(device) /\ Candidate(planned) /\ Candidate(Base)
<1>1. op \in Operations /\ WellPosed(op)
  BY DEF IndInv, Typed
<1>2. Candidate(device) /\ Candidate(planned) /\ Candidate(Base)
  BY DefaultIsBlank DEF IndInv, Typed, Config, Base
<1>3. IsOperation(op) /\ Contended(op) \in BOOLEAN
  BY <1>1, OperationAssumption DEF OperationAssumption
<1> QED
  BY <1>1, <1>2, <1>3, WellPosedScopes

\* The plan of a call that has one: a delta for each scope.
LEMMA PlanFacts ==
    ASSUME IndInv, plan # <<>>
    PROVE  /\ DOMAIN plan = DOMAIN op /\ Len(plan) = Len(op)
           /\ \A i \in DOMAIN op : plan[i] = Delta(op[i], Base)
           /\ \E i \in DOMAIN op : plan[i] # NoDelta
<1>1. IsOperation(op) /\ plan = PlanScopes(TreeOf(Base), op)
  BY OperationFacts DEF IndInv, Planned
<1> QED
  BY <1>1, PlanIs

\* A call begins with nothing planned.
LEMMA InitIsInv == Init /\ WellPosed(op) => IndInv
<1> SUFFICES ASSUME Init, WellPosed(op)
             PROVE  IndInv
  OBVIOUS
<1>1. Config(device)
  BY DEF Init, Configs, ConfigsOf, ConfigsIn
<1>2. op \in Operations /\ IsOperation(op)
  BY OperationAssumption DEF Init, OperationAssumption
<1>3. Len(op) \in Nat
  BY <1>2, WellPosedScopes
<1>4. Typed
  <2>1. Config(planned) /\ Candidate(candidate)
    BY <1>1, DefaultIsBlank DEF Init
  <2>2. ran \in 0..Len(op) /\ phase \in Phases
    BY <1>3 DEF Init, Phases
  <2>3. /\ first \in {"none", "noop", "applied", "rejected", "disturbed"}
        /\ stale \in BOOLEAN /\ blind \in BOOLEAN
    BY DEF Init
  <2> QED
    BY <1>1, <1>2, <2>1, <2>2, <2>3 DEF Typed
<1>5. Planned /\ Halfway /\ InScope
  BY DEF Init, Planned, Halfway, InScope
<1>6. Over
  BY DEF Init, Over, Ended
<1> QED
  BY <1>4, <1>5, <1>6 DEF IndInv

\* A plan is made of what the fact gives.
LEMMA PlanStep == IndInv /\ PlanOperation => IndInv'
<1> SUFFICES ASSUME IndInv, NEW failed \in BOOLEAN, PlanFrom(failed)
             PROVE  IndInv'
  BY OperationFacts DEF PlanOperation
<1> USE DEF PlanFrom
<1>1. /\ IsOperation(op) /\ WellPosed(op) /\ Candidate(device)
      /\ UNCHANGED <<device, op>>
  BY OperationFacts DEF IndInv
<1>2. ConfigurationFact(failed) = TreeOf(Base')
  BY DefaultIsBlank DEF ConfigurationFact, Base
<1>3. plan' = PlanScopes(TreeOf(Base'), op)
  BY <1>2
<1>4. phase' \in {"noop", "planned"} /\ (phase' = "planned" <=> plan' # <<>>)
  OBVIOUS
<1>5. Typed'
  BY <1>4 DEF IndInv, Typed, Phases
<1>6. Planned'
  BY <1>1, <1>3, <1>4 DEF Planned
<1>7. Halfway' /\ InScope'
  BY <1>4 DEF Halfway, InScope
<1>8. ASSUME ~failed
      PROVE  (plan' = <<>> <=> AllMet(device)) /\ (AllMet(device) <=> AllMet(device)')
  <2>1. ConfigurationFact(failed) = TreeOf(device)
    BY <1>8 DEF ConfigurationFact
  <2>2. plan' = PlanScopes(TreeOf(device), op)
    BY <2>1
  <2> QED
    BY <1>1, <2>2, NoPlanIsMet DEF AllMet
<1>9. Over'
  <2>1. Ended' => AllMet(device)'
    BY <1>4, <1>8 DEF Ended
  <2>2. phase' # "rejected"
    BY <1>4
  <2>3. ASSUME first' \in {"noop", "applied"}, ~blind'
        PROVE  phase' \in {"called", "noop"} /\ AllMet(device)'
    <3>1. first \in {"noop", "applied"} /\ ~blind /\ ~failed
      BY <2>3 DEF IndInv, Planned
    <3>2. AllMet(device)
      BY <3>1 DEF IndInv, Over
    <3> QED
      BY <1>4, <1>8, <3>1, <3>2
  <2> QED
    BY <2>1, <2>2, <2>3 DEF Over
<1> QED
  BY <1>1, <1>5, <1>6, <1>7, <1>9 DEF IndInv

\* A session begins with the active configuration, in which every scope of an
\* undisturbed call still finds what it was planned for.
LEMMA OpenStep == IndInv /\ OpenSession => IndInv'
<1> SUFFICES ASSUME IndInv, OpenSession
             PROVE  IndInv'
  OBVIOUS
<1> USE DEF OpenSession
<1>1. UNCHANGED <<device, op, plan, planned, stale, blind, first>>
      /\ phase = "planned" /\ phase' = "running" /\ candidate' = device /\ ran' = 0
  OBVIOUS
<1>2. Typed'
  BY <1>1, OperationFacts DEF IndInv, Typed, Phases, Config
<1>3. Planned'
  BY <1>1 DEF IndInv, Planned, Base
<1>4. Halfway'
  <2> SUFFICES ASSUME ~stale, ~blind
               PROVE  /\ Complete(device)
                      /\ \A i \in DOMAIN op : IF i <= 0 THEN Met(op[i], device)
                                              ELSE Pending(op[i], device, planned)
    BY <1>1 DEF Halfway
  <2>1. device = planned /\ Complete(device)
    BY <1>1 DEF IndInv, Planned, Typed, Config
  <2>2. \A i \in DOMAIN op : ~(i <= 0)
    BY OperationFacts
  <2>3. \A i \in DOMAIN op : Pending(op[i], device, planned)
    BY <2>1 DEF Pending
  <2> QED
    BY <2>1, <2>2, <2>3
<1>5. InScope'
  BY <1>1 DEF InScope
<1>6. Over'
  <2>1. ~(first \in {"noop", "applied"} /\ ~blind)
    BY <1>1 DEF IndInv, Over
  <2> QED
    BY <1>1, <2>1 DEF Over, Ended
<1> QED
  BY <1>1, <1>2, <1>3, <1>4, <1>5, <1>6 DEF IndInv

\* The commands of a scope that are not rejected.
LEMMA AcceptedRun ==
    ASSUME IndInv, phase = "running", ran < Len(plan),
           RunDelta(candidate, plan[ran + 1]).ok,
           candidate' = RunDelta(candidate, plan[ran + 1]).config,
           ran' = ran + 1,
           UNCHANGED <<device, op, plan, phase, first, planned, stale, blind>>
    PROVE  IndInv'
<1> DEFINE k == ran + 1
           scope == op[k]
<1>1. plan # <<>> /\ candidate' = RunDelta(candidate, plan[k]).config
  BY DEF IndInv, Planned
<1>2. /\ DOMAIN plan = DOMAIN op /\ Len(plan) = Len(op)
      /\ \A i \in DOMAIN op : plan[i] = Delta(op[i], Base)
  BY <1>1, PlanFacts
<1>3. /\ Len(op) \in Nat /\ DOMAIN op = 1..Len(op)
      /\ \A i \in DOMAIN op : Posed(op[i])
      /\ \A i, j \in DOMAIN op : i # j => Apart(op[i], op[j])
      /\ Candidate(device) /\ Candidate(planned) /\ Candidate(Base)
  BY OperationFacts
<1>4. ran \in Nat /\ k \in DOMAIN op /\ ran' \in 0..Len(op)
  BY <1>2, <1>3 DEF IndInv, Typed
<1>5. Candidate(candidate) /\ Posed(scope) /\ plan[k] = Delta(scope, Base)
  BY <1>2, <1>3, <1>4 DEF IndInv, Typed
<1> HIDE DEF scope
<1>6. /\ RunDelta(candidate, Delta(scope, Base)).ok
      /\ candidate' = RunDelta(candidate, Delta(scope, Base)).config
  BY <1>1, <1>5
<1>7. Candidate(candidate')
  BY <1>3, <1>5, <1>6, RunFacts
<1>8. Typed'
  BY <1>4, <1>7 DEF IndInv, Typed
<1>9. Planned'
  BY DEF IndInv, Planned, Base
<1>10. Halfway'
  <2> SUFFICES ASSUME ~stale, ~blind
               PROVE  /\ Complete(candidate')
                      /\ \A i \in DOMAIN op : IF i <= k THEN Met(op[i], candidate')
                                              ELSE Pending(op[i], candidate', planned)
    BY DEF Halfway
  <2>1. Base = planned
    BY DEF Base
  <2>2. /\ Complete(candidate)
        /\ \A i \in DOMAIN op : IF i <= ran THEN Met(op[i], candidate)
                                ELSE Pending(op[i], candidate, planned)
    BY DEF IndInv, Halfway
  <2>3. Pending(scope, candidate, planned)
    BY <1>4, <2>2 DEF scope
  <2>4. Met(scope, candidate')
    BY <1>3, <1>5, <1>6, <2>1, <2>3, RunMeets
  <2>5. Complete(candidate')
    BY <1>3, <1>5, <1>6, <2>2, <2>4, RunStaysComplete
  <2>6. ASSUME NEW i \in DOMAIN op, i # k
        PROVE  IF i <= k THEN Met(op[i], candidate')
               ELSE Pending(op[i], candidate', planned)
    <3>1. Posed(op[i]) /\ Apart(op[i], scope)
      BY <1>3, <1>4, <2>6 DEF scope
    <3>2. /\ Met(op[i], candidate) => Met(op[i], candidate')
          /\ Pending(op[i], candidate, planned) => Pending(op[i], candidate', planned)
      BY <1>3, <1>5, <1>6, <2>1, <3>1, RunKeeps
    <3>3. i <= ran <=> i <= k
      BY <1>3, <1>4, <2>6
    <3> QED
      BY <2>2, <3>2, <3>3
  <2> QED
    BY <1>4, <2>4, <2>5, <2>6 DEF scope
<1>11. InScope'
  <2>1. /\ \A q \in candidate' \ candidate : Adds(scope, q)
        /\ \A q \in candidate \ candidate' : Removes(scope, q)
    BY <1>3, <1>5, <1>6, RunStaysInScope
  <2>2. /\ \A q \in candidate \ device : \E i \in DOMAIN op : Adds(op[i], q)
        /\ \A q \in device \ candidate : \E i \in DOMAIN op : Removes(op[i], q)
    BY DEF IndInv, InScope
  <2>3. \A q \in candidate' \ device : \E i \in DOMAIN op : Adds(op[i], q)
    BY <1>4, <2>1, <2>2 DEF scope
  <2>4. \A q \in device \ candidate' : \E i \in DOMAIN op : Removes(op[i], q)
    BY <1>4, <2>1, <2>2 DEF scope
  <2> QED
    BY <2>3, <2>4 DEF InScope
<1>12. Over'
  BY DEF IndInv, Over, Ended, AllMet
<1> QED
  BY <1>8, <1>9, <1>10, <1>11, <1>12 DEF IndInv

\* In an undisturbed session every command is accepted.
LEMMA NextRunIsAccepted ==
    ASSUME IndInv, phase = "running", ran < Len(plan), ~stale, ~blind
    PROVE  RunDelta(candidate, plan[ran + 1]).ok
<1> DEFINE k == ran + 1
<1>1. plan # <<>>
  BY DEF IndInv, Planned
<1>2. /\ Len(plan) = Len(op)
      /\ \A i \in DOMAIN op : plan[i] = Delta(op[i], Base)
  BY <1>1, PlanFacts
<1>3. /\ Len(op) \in Nat /\ DOMAIN op = 1..Len(op)
      /\ \A i \in DOMAIN op : Posed(op[i])
      /\ Candidate(Base) /\ Base = planned
  BY OperationFacts DEF Base
<1>4. ran \in Nat /\ k \in DOMAIN op /\ ~(k <= ran) /\ Candidate(candidate)
  BY <1>2, <1>3 DEF IndInv, Typed
<1>5. Pending(op[k], candidate, planned)
  BY <1>4 DEF IndInv, Halfway
<1>6. RunDelta(candidate, Delta(op[k], Base)).ok
  BY <1>3, <1>4, <1>5, RunMeets
<1> QED
  BY <1>2, <1>4, <1>6

\* A session that ends without a commit leaves the device as it was.
LEMMA RejectedEnd ==
    ASSUME IndInv, phase = "running", Closes("rejected"), stale \/ blind,
           UNCHANGED <<device, op, plan, first, planned, stale, blind>>
    PROVE  IndInv'
<1>1. phase' = "rejected" /\ candidate' = {} /\ ran' = 0
  BY DEF Closes
<1>2. Typed'
  BY <1>1, OperationFacts, DefaultIsBlank DEF IndInv, Typed, Phases
<1>3. Planned' /\ Halfway' /\ InScope'
  BY <1>1 DEF IndInv, Planned, Base, Halfway, InScope
<1>4. ~(first \in {"noop", "applied"} /\ ~blind)
  BY DEF IndInv, Over
<1>5. Over'
  BY <1>1, <1>4 DEF Over, Ended
<1> QED
  BY <1>2, <1>3, <1>5 DEF IndInv

\* The commands of one more scope have run, or one was rejected.
LEMMA RunStep == IndInv /\ RunScope => IndInv'
<1> SUFFICES ASSUME IndInv, RunScope
             PROVE  IndInv'
  OBVIOUS
<1>1. /\ phase = "running" /\ ran < Len(plan)
      /\ UNCHANGED <<device, op, plan, first, planned, stale, blind>>
  BY DEF RunScope
<1>2. CASE /\ RunDelta(candidate, plan[ran + 1]).ok
           /\ candidate' = RunDelta(candidate, plan[ran + 1]).config
           /\ ran' = ran + 1
           /\ UNCHANGED phase
  BY <1>1, <1>2, AcceptedRun
<1>3. CASE ~RunDelta(candidate, plan[ran + 1]).ok /\ Closes("rejected")
  <2>1. stale \/ blind
    BY <1>1, <1>3, NextRunIsAccepted DEF IndInv, Typed
  <2> QED
    BY <1>1, <1>3, <2>1, RejectedEnd
<1> QED
  BY <1>2, <1>3 DEF RunScope

\* The candidate becomes active, and with it what every scope asked for.
LEMMA CommitStep == IndInv /\ Commit => IndInv'
<1> SUFFICES ASSUME IndInv, Commit
             PROVE  IndInv'
  OBVIOUS
<1>1. /\ phase = "running" /\ ran = Len(plan)
      /\ UNCHANGED <<op, plan, first, planned, stale, blind>>
  BY DEF Commit
<1>2. CASE Complete(candidate) /\ device' = candidate /\ Closes("applied")
  <2>1. phase' = "applied" /\ candidate' = {} /\ ran' = 0
    BY <1>2 DEF Closes
  <2>2. Config(device')
    BY <1>2 DEF IndInv, Typed, Config
  <2>3. Typed'
    BY <1>1, <2>1, <2>2, OperationFacts, DefaultIsBlank DEF IndInv, Typed, Phases
  <2>4. Planned' /\ Halfway' /\ InScope'
    BY <1>1, <2>1 DEF IndInv, Planned, Base, Halfway, InScope
  <2>5. ASSUME ~stale, ~blind
        PROVE  AllMet(device)'
    <3>1. ran = Len(op)
      BY <1>1, PlanFacts DEF IndInv, Planned
    <3>2. \A i \in DOMAIN op : i <= ran
      BY <3>1, OperationFacts
    <3>3. \A i \in DOMAIN op : Met(op[i], candidate)
      BY <1>1, <2>5, <3>2 DEF IndInv, Halfway
    <3> QED
      BY <1>1, <1>2, <3>3 DEF AllMet
  <2>6. ~(first \in {"noop", "applied"} /\ ~blind)
    BY <1>1 DEF IndInv, Over
  <2>7. Over'
    BY <1>1, <2>1, <2>5, <2>6 DEF Over, Ended
  <2> QED
    BY <1>1, <2>3, <2>4, <2>7 DEF IndInv
<1>3. CASE ~Complete(candidate) /\ Closes("rejected") /\ UNCHANGED device
  <2>1. stale \/ blind
    BY <1>1, <1>3 DEF IndInv, Halfway, Typed
  <2> QED
    BY <1>1, <1>3, <2>1, RejectedEnd
<1> QED
  BY <1>2, <1>3 DEF Commit

\* Whatever others commit, the plan is then stale.
LEMMA SomebodyStep == IndInv /\ SomebodyCommits => IndInv'
<1> SUFFICES ASSUME IndInv, SomebodyCommits
             PROVE  IndInv'
  OBVIOUS
<1> USE DEF SomebodyCommits
<1>1. Config(device')
  BY DEF Configs, ConfigsOf, ConfigsIn
<1>2. Typed'
  BY <1>1 DEF IndInv, Typed
<1>3. Planned' /\ Halfway' /\ InScope'
  BY DEF IndInv, Planned, Base, Halfway, InScope
<1>4. Over'
  BY DEF IndInv, Over, Ended
<1> QED
  BY <1>2, <1>3, <1>4 DEF IndInv

\* The second call begins where the first has left the device.
LEMMA AgainStep == IndInv /\ CallAgain => IndInv'
<1> SUFFICES ASSUME IndInv, CallAgain
             PROVE  IndInv'
  OBVIOUS
<1> USE DEF CallAgain
<1>1. Typed'
  BY DEF IndInv, Typed, Phases
<1>2. Planned' /\ Halfway' /\ InScope'
  BY DEF IndInv, Planned, Halfway, InScope
<1>3. ASSUME first' \in {"noop", "applied"}
      PROVE  AllMet(device)'
  <2>1. Ended
    BY <1>3 DEF Ended
  <2> QED
    BY <2>1 DEF IndInv, Over, AllMet
<1>4. Over'
  BY <1>3 DEF Over, Ended
<1> QED
  BY <1>1, <1>2, <1>4 DEF IndInv

\* The invariant is about the variables.
LEMMA StutterStep == IndInv /\ UNCHANGED vars => IndInv'
  BY DEF vars, IndInv, Typed, Planned, Base, Halfway, InScope, Over, Ended, AllMet

\* Every step keeps the invariant.
LEMMA NextIsInv == IndInv /\ [Next]_vars => IndInv'
<1>1. Finished => UNCHANGED vars
  BY DEF Finished
<1> QED
  BY <1>1, PlanStep, OpenStep, RunStep, CommitStep, SomebodyStep, AgainStep, StutterStep
     DEF Next

-----------------------------------------------------------------------------
(* The theorems.                                                            *)

\* The invariant holds in every behaviour of a well-posed operation.
THEOREM Invariance == Spec /\ WellPosed(op) => []IndInv
  BY InitIsInv, NextIsInv, PTL DEF Spec

\* The variables have their types: a plan has a delta for each scope and holds a
\* command, a session works on a candidate of the grammar.
THEOREM TypeCorrect == Spec /\ WellPosed(op) => []TypeOK
<1>1. IndInv => TypeOK
  <2> SUFFICES ASSUME IndInv
               PROVE  TypeOK
    OBVIOUS
  <2>1. ASSUME plan # <<>>
        PROVE  /\ DOMAIN plan = DOMAIN op
               /\ \A i \in DOMAIN plan :
                      plan[i].deletes \cup plan[i].sets \subseteq Seq(STRING) \ {<<>>}
               /\ \E i \in DOMAIN plan : plan[i] # NoDelta
    <3>1. /\ DOMAIN plan = DOMAIN op
          /\ \A i \in DOMAIN op : plan[i] = Delta(op[i], Base)
          /\ \E i \in DOMAIN op : plan[i] # NoDelta
      BY <2>1, PlanFacts
    <3>2. ASSUME NEW i \in DOMAIN op
          PROVE  plan[i].deletes \cup plan[i].sets \subseteq Seq(STRING) \ {<<>>}
      <4>1. Posed(op[i]) /\ Candidate(Base) /\ Base \subseteq Words \ {<<>>}
        BY OperationFacts, CandidateIs, Grammar
      <4>2. /\ Delta(op[i], Base).deletes \subseteq Words \ {<<>>}
            /\ Delta(op[i], Base).sets \subseteq Words \ {<<>>}
        BY <4>1, DeltaFacts
      <4> QED
        BY <3>1, <4>2 DEF Words
    <3> QED
      BY <3>1, <3>2
  <2> QED
    BY <2>1 DEF IndInv, Typed, Planned, TypeOK
<1> QED
  BY <1>1, Invariance, PTL

\* A call that ends undisturbed has removed what should be absent.
THEOREM AbsentReached == Spec /\ WellPosed(op) => []AbsentIsAbsent
<1>1. IndInv => AbsentIsAbsent
  BY DEF IndInv, Over, AllMet, Met, AbsentIsAbsent, Scopes
<1> QED
  BY <1>1, Invariance, PTL

\* What is required is wanted.
LEMMA RequiredIsWanted == \A scope : Required(scope.node) \subseteq Wanted(scope)
  BY DEF Wanted

\* A call that owns a path and ends undisturbed leaves exactly the desired state
\* there.
THEOREM ExactReached == Spec /\ WellPosed(op) => []ReplaceIsExact
<1>1. IndInv => ReplaceIsExact
  <2> SUFFICES ASSUME IndInv, Ended, NEW i \in DOMAIN op, op[i].intent = "exact"
               PROVE  /\ Required(op[i].node) \subseteq device
                      /\ { q \in device : IsPrefix(op[i].path, q) } \subseteq Allowed(op[i].node)
    BY DEF ReplaceIsExact, Scopes
  <2>1. Met(op[i], device)
    BY DEF IndInv, Over, AllMet
  <2> QED
    BY <2>1, RequiredIsWanted DEF Met
<1> QED
  BY <1>1, Invariance, PTL

\* A call that merges and ends undisturbed leaves all that is desired present.
THEOREM MergeReached == Spec /\ WellPosed(op) => []MergeIsPresent
<1>1. IndInv => MergeIsPresent
  <2> SUFFICES ASSUME IndInv, Ended, NEW i \in DOMAIN op, op[i].intent = "merge"
               PROVE  Required(op[i].node) \subseteq device
    BY DEF MergeIsPresent, Scopes
  <2>1. Met(op[i], device)
    BY DEF IndInv, Over, AllMet
  <2> QED
    BY <2>1, RequiredIsWanted DEF Met
<1> QED
  BY <1>1, Invariance, PTL

\* The device rejects no plan that was made for the configuration it has.
THEOREM PlansAreAccepted == Spec /\ WellPosed(op) => []PlanIsAccepted
<1>1. IndInv => PlanIsAccepted
  BY DEF IndInv, Over, PlanIsAccepted
<1> QED
  BY <1>1, Invariance, PTL

\* After an undisturbed call a second one finds nothing to do.
THEOREM SecondCalls == Spec /\ WellPosed(op) => []SecondCallIsNoop
<1>1. IndInv => SecondCallIsNoop
  BY DEF IndInv, Over, SecondCallIsNoop
<1> QED
  BY <1>1, Invariance, PTL

\* A plan deletes only what is there and sets only what is missing.
THEOREM PlansAreMinimal == Spec /\ WellPosed(op) => []PlanIsMinimal
<1>1. IndInv => PlanIsMinimal
  <2> SUFFICES ASSUME IndInv, phase = "planned", ~blind, NEW i \in DOMAIN plan
               PROVE  plan[i].deletes \subseteq planned /\ plan[i].sets \cap planned = {}
    BY DEF PlanIsMinimal
  <2>1. plan # <<>> /\ Base = planned
    BY DEF IndInv, Planned, Base
  <2>2. i \in DOMAIN op /\ plan[i] = Delta(op[i], planned)
    BY <2>1, PlanFacts
  <2>3. Posed(op[i]) /\ Candidate(planned)
    BY <2>2, OperationFacts
  <2>4. Delta(op[i], planned).deletes \subseteq planned
    BY <2>3, DeltaFacts
  <2>5. Delta(op[i], planned).sets =
            IF op[i].intent = "absent" THEN {} ELSE Wanted(op[i]) \ planned
    BY <2>3, DeltaFacts
  <2> QED
    BY <2>2, <2>4, <2>5
<1> QED
  BY <1>1, Invariance, PTL

\* In the tree of the default there is nothing to delete.
LEMMA BlankDelta ==
    ASSUME NEW scope, IsScope(scope)
    PROVE  PlanScope(EmptyTree, scope).deletes = {}
<1>1. EmptyTree.nodes = {<<>>} /\ EmptyTree.leaves = {}
  BY DefaultIsBlank DEF TreeOf
<1>2. scope.path \notin Present(EmptyTree)
  BY <1>1 DEF Present, IsScope
<1>3. SelectSubtree(EmptyTree, scope.path) = Absent
  BY <1>2 DEF SelectSubtree
<1>4. CASE scope.intent = "absent"
  BY <1>3, <1>4 DEF PlanScope, NoDelta
<1>5. CASE scope.intent # "absent"
  <2> DEFINE node == scope.node
             replace == scope.intent = "exact"
  <2>1. Absent.nodes = {} /\ Absent.leaves = {} /\ Absent.values = {}
    BY DEF Absent
  <2>2. Deletes(Absent, node, replace) = {}
    BY <2>1 DEF Deletes, StaleValues, InTheWay, ExtraKeys, Present
  <2>3. PlanScope(EmptyTree, scope) = DiffTree(Absent, node, scope.path, replace)
    BY <1>3, <1>5 DEF PlanScope
  <2> HIDE DEF replace
  <2> DEFINE delta == [deletes |-> Deletes(Absent, node, replace), sets |-> Sets(Absent, node)]
  <2>4. DiffTree(Absent, node, scope.path, replace) =
            IF delta = NoDelta /\ Absent = Absent
            THEN [NoDelta EXCEPT !.sets = {scope.path}] ELSE delta
    BY Zenon DEF DiffTree
  <2>5. [NoDelta EXCEPT !.sets = {scope.path}].deletes = {}
    BY DEF NoDelta
  <2>6. delta.deletes = {}
    BY <2>2 DEF replace
  <2> HIDE DEF delta
  <2> QED
    BY <2>3, <2>4, <2>5, <2>6 DEF replace
<1> QED
  BY <1>4, <1>5

\* A plan made without having read the configuration deletes nothing, in terms of
\* the grammar or not.
THEOREM BlindPlans == Spec => []BlindDeletesNothing
<1> DEFINE Inv == op \in Operations /\ BlindDeletesNothing
<1>1. Init => Inv
  BY DEF Init, BlindDeletesNothing
<1>2. ASSUME Inv, [Next]_vars
      PROVE  Inv'
  <2>1. ASSUME NEW failed \in BOOLEAN, PlanFrom(failed)
        PROVE  Inv'
    <3>1. op' = op /\ blind' = failed /\ plan' = PlanScopes(ConfigurationFact(failed), op)
      BY <2>1 DEF PlanFrom
    <3>2. ASSUME failed, phase' = "planned", NEW i \in DOMAIN plan'
          PROVE  plan'[i].deletes = {}
      <4> DEFINE deltas == [j \in DOMAIN op |-> PlanScope(EmptyTree, op[j])]
      <4>1. plan' = PlanScopes(EmptyTree, op) /\ plan' # <<>>
        BY <2>1, <3>1, <3>2 DEF ConfigurationFact, PlanFrom
      <4>2. plan' = deltas
        BY <4>1 DEF PlanScopes
      <4>3. i \in DOMAIN op /\ plan'[i] = PlanScope(EmptyTree, op[i])
        BY <3>2, <4>2
      <4>4. IsScope(op[i])
        BY <1>2, <4>3, OperationAssumption DEF OperationAssumption, IsOperation
      <4> QED
        BY <4>3, <4>4, BlankDelta
    <3> QED
      BY <1>2, <3>1, <3>2 DEF BlindDeletesNothing
  <2>2. PlanOperation => \E failed \in BOOLEAN : PlanFrom(failed)
    BY <1>2, OperationAssumption DEF PlanOperation, OperationAssumption
  <2>3. CASE ~PlanOperation
    BY <1>2, <2>3 DEF BlindDeletesNothing, Next, OpenSession, RunScope, Commit, Closes,
                      SomebodyCommits, CallAgain, Finished, vars
  <2> QED
    BY <2>1, <2>2, <2>3
<1> QED
  BY <1>1, <1>2, PTL DEF Spec

\* A session adds only what a scope wants, and removes only what a scope owns or
\* replaces: sharper than StaysInScope, which follows from it.
ChangesAreAsked ==
    [][ Runs => /\ \A q \in device' \ device : \E i \in DOMAIN op : Adds(op[i], q)
                /\ \A q \in device \ device' : \E i \in DOMAIN op : Removes(op[i], q) ]_vars

\* A session ends with the commit of its candidate.
LEMMA RunsCommit ==
    ASSUME IndInv, [Next]_vars, Runs
    PROVE  /\ UNCHANGED op
           /\ \A q \in device' \ device : \E i \in DOMAIN op : Adds(op[i], q)
           /\ \A q \in device \ device' : \E i \in DOMAIN op : Removes(op[i], q)
<1>1. phase = "running" /\ phase' = "applied"
  BY DEF Runs
<1>2. device' = candidate /\ UNCHANGED op
  BY <1>1 DEF Next, PlanOperation, PlanFrom, OpenSession, RunScope, Commit, Closes,
              SomebodyCommits, CallAgain, Finished, vars
<1> QED
  BY <1>1, <1>2 DEF IndInv, InScope

\* Whatever configuration a session runs on, it changes only what was asked for.
THEOREM SessionsDoAsAsked == Spec /\ WellPosed(op) => ChangesAreAsked
  BY RunsCommit, Invariance, PTL DEF Spec, ChangesAreAsked

\* No session changes anything outside the paths its operation owns, whatever
\* configuration it runs on, and one that only merges removes nothing but the
\* former value of a leaf with one value.
THEOREM SessionsStayInScope == Spec /\ WellPosed(op) => StaysInScope
<1>1. ASSUME IndInv, [Next]_vars, Runs
      PROVE  /\ \A q \in (device \ device') \cup (device' \ device) :
                    \E i \in DOMAIN op : IsPrefix(op[i].path, q) \/ IsPrefix(q, op[i].path)
             /\ (\A i \in DOMAIN op : op[i].intent = "merge") =>
                    \A q \in device \ device' : Front(q) \in SingleLeaves
  <2>1. /\ \A q \in device' \ device : \E i \in DOMAIN op : Adds(op[i], q)
        /\ \A q \in device \ device' : \E i \in DOMAIN op : Removes(op[i], q)
    BY <1>1, RunsCommit
  <2>2. Candidate(device) /\ Candidate(device')
    BY <1>1, NextIsInv DEF IndInv, Typed, Config
  <2>3. device \cup device' \subseteq Words \ {<<>>}
    BY <2>2, CandidateIs, Grammar
  <2>4. \A i \in DOMAIN op : Posed(op[i])
    BY <1>1, OperationFacts
  <2> QED
    BY <2>1, <2>3, <2>4, ScopeOfChanges
<1> QED
  BY <1>1, Invariance, PTL DEF Spec, StaysInScope

=============================================================================
