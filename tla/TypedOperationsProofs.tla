------------------------- MODULE TypedOperationsProofs -------------------------
(***************************************************************************)
(* Theorems about the typed operations: each of their steps is one of a     *)
(* config operation or changes nothing it can see, for every set of calls,  *)
(* every renderer and every grammar; and no call deletes an account but the *)
(* one it names, and not the one the device reports to be the connected one.*)
(*                                                                         *)
(* ConfigOperation is instantiated under three names: Op runs the actions   *)
(* of the typed operations, Abstract is the specification they implement,   *)
(* and A is the same specification with its theorems.  The operators of the *)
(* three are the same, which the provers are told first.                    *)
(***************************************************************************)
EXTENDS TypedOperations, RendererProofs

A == INSTANCE ConfigOperationProofs
     WITH op <- Asked, phase <- AbstractPhase,
          Operations <- { ScopesOf(c) : c \in Calls }, Contended <- AnyScopes

-----------------------------------------------------------------------------
(* The operators of the instances.                                          *)

\* A plan is the same in all of them.
LEMMA SamePlans ==
    \A tree, scopes : /\ Abstract!PlanScopes(tree, scopes) = Op!PlanScopes(tree, scopes)
                      /\ A!PlanScopes(tree, scopes) = Op!PlanScopes(tree, scopes)
<1>1. \A tree, scopes : Abstract!PlanScopes(tree, scopes) = Op!PlanScopes(tree, scopes)
    BY DEF Abstract!PlanScopes, Op!PlanScopes, Abstract!PlanScope, Op!PlanScope,
       Abstract!NoDelta, Op!NoDelta, Abstract!SelectSubtree, Op!SelectSubtree,
       Abstract!Present, Op!Present, Abstract!IsPrefix, Op!IsPrefix, Abstract!Absent,
       Op!Absent, Abstract!DiffTree, Op!DiffTree, Abstract!Deletes, Op!Deletes,
       Abstract!Sets, Op!Sets, Abstract!StaleValues, Op!StaleValues, Abstract!InTheWay,
       Op!InTheWay, Abstract!ExtraKeys, Op!ExtraKeys, Abstract!Bare, Op!Bare,
       Abstract!MissingValues, Op!MissingValues, Abstract!MissingNodes, Op!MissingNodes,
       Abstract!Front, Op!Front, Abstract!IsStrictPrefix, Op!IsStrictPrefix
<1>2. \A tree, scopes : A!PlanScopes(tree, scopes) = Op!PlanScopes(tree, scopes)
    BY DEF A!PlanScopes, Op!PlanScopes, A!PlanScope, Op!PlanScope, A!NoDelta, Op!NoDelta,
       A!SelectSubtree, Op!SelectSubtree, A!Present, Op!Present, A!IsPrefix, Op!IsPrefix,
       A!Absent, Op!Absent, A!DiffTree, Op!DiffTree, A!Deletes, Op!Deletes, A!Sets, Op!Sets,
       A!StaleValues, Op!StaleValues, A!InTheWay, Op!InTheWay, A!ExtraKeys, Op!ExtraKeys,
       A!Bare, Op!Bare, A!MissingValues, Op!MissingValues, A!MissingNodes, Op!MissingNodes,
       A!Front, Op!Front, A!IsStrictPrefix, Op!IsStrictPrefix
<1> QED BY <1>1, <1>2

\* So is what its commands do.
LEMMA SameRuns ==
    \A config, delta : /\ Abstract!RunDelta(config, delta) = Op!RunDelta(config, delta)
                       /\ A!RunDelta(config, delta) = Op!RunDelta(config, delta)
<1>1. \A config, delta : Abstract!RunDelta(config, delta) = Op!RunDelta(config, delta)
    BY DEF Abstract!RunDelta, Op!RunDelta, Abstract!DeleteAll, Op!DeleteAll, Abstract!SetAll,
       Op!SetAll, Abstract!Deletable, Op!Deletable, Abstract!Settable, Op!Settable,
       Abstract!BelowIn, Op!BelowIn, Abstract!Closed, Op!Closed, Abstract!Prefixes,
       Op!Prefixes, Abstract!Front, Op!Front, Abstract!IsStrictPrefix, Op!IsStrictPrefix,
       Abstract!IsPrefix, Op!IsPrefix, Abstract!Leaves, Op!Leaves
<1>2. \A config, delta : A!RunDelta(config, delta) = Op!RunDelta(config, delta)
    BY DEF A!RunDelta, Op!RunDelta, A!DeleteAll, Op!DeleteAll, A!SetAll, Op!SetAll,
       A!Deletable, Op!Deletable, A!Settable, Op!Settable, A!BelowIn, Op!BelowIn, A!Closed,
       Op!Closed, A!Prefixes, Op!Prefixes, A!Front, Op!Front, A!IsStrictPrefix,
       Op!IsStrictPrefix, A!IsPrefix, Op!IsPrefix, A!Leaves, Op!Leaves
<1> QED BY <1>1, <1>2

\* The configurations of the device, and the tree it shows of one.
LEMMA SameConfigs ==
    /\ Abstract!Configs = Configs /\ A!Configs = Configs
    /\ \A config : /\ Abstract!Complete(config) <=> Op!Complete(config)
                   /\ A!Complete(config) <=> Op!Complete(config)
                   /\ Abstract!TreeOf(config) = Op!TreeOf(config)
                   /\ A!TreeOf(config) = Op!TreeOf(config)
    /\ Abstract!EmptyTree = Op!EmptyTree /\ A!EmptyTree = Op!EmptyTree
<1>1. \A config : /\ Abstract!Config(config) <=> Config(config)
                  /\ A!Config(config) <=> Config(config)
    BY DEF A!Config, Abstract!Config, Config, A!Candidate, Abstract!Candidate, Candidate,
       A!Complete, Abstract!Complete, Complete, A!Prefixes, Abstract!Prefixes, Prefixes,
       A!Leaves, Abstract!Leaves, Leaves, A!BelowIn, Abstract!BelowIn, BelowIn,
       A!IsStrictPrefix, Abstract!IsStrictPrefix, IsStrictPrefix, A!IsPrefix,
       Abstract!IsPrefix, IsPrefix
<1>2. \A set : Abstract!Closed(set) = Closed(set) /\ A!Closed(set) = Closed(set)
    BY DEF A!Closed, Abstract!Closed, Closed, A!Prefixes, Abstract!Prefixes, Prefixes,
       A!IsPrefix, Abstract!IsPrefix, IsPrefix
<1>3. Abstract!Leaves = Leaves /\ A!Leaves = Leaves
    BY DEF Abstract!Leaves, A!Leaves, Leaves
<1>4. \A paths : /\ Abstract!ConfigsIn(paths) = ConfigsIn(paths)
                 /\ A!ConfigsIn(paths) = ConfigsIn(paths)
    BY <1>1, <1>2, <1>3 DEF Abstract!ConfigsIn, A!ConfigsIn, ConfigsIn
<1>5. Abstract!Configs = Configs /\ A!Configs = Configs
    BY <1>4 DEF Abstract!Configs, A!Configs, Configs, Abstract!ConfigsOf, A!ConfigsOf, ConfigsOf
<1>6. \A config : /\ Abstract!Complete(config) <=> Op!Complete(config)
                  /\ A!Complete(config) <=> Op!Complete(config)
    BY DEF A!Complete, Abstract!Complete, Op!Complete, A!BelowIn, Abstract!BelowIn, Op!BelowIn,
       A!IsStrictPrefix, Abstract!IsStrictPrefix, Op!IsStrictPrefix, A!IsPrefix,
       Abstract!IsPrefix, Op!IsPrefix
<1>7. \A config : /\ Abstract!TreeOf(config) = Op!TreeOf(config)
                  /\ A!TreeOf(config) = Op!TreeOf(config)
    BY DEF Abstract!TreeOf, A!TreeOf, Op!TreeOf, Abstract!Leaves, A!Leaves, Op!Leaves,
       Abstract!Front, A!Front, Op!Front
<1>8. Abstract!EmptyTree = Op!EmptyTree /\ A!EmptyTree = Op!EmptyTree
    BY DEF Abstract!EmptyTree, A!EmptyTree, Op!EmptyTree, Abstract!Absent, A!Absent, Op!Absent
<1> QED BY <1>5, <1>6, <1>7, <1>8

-----------------------------------------------------------------------------
(* The refinement.  What the steps before the plan change is the phase, and *)
(* that not for the config operation.                                       *)

Before == {"arguments", "identity", "version", "refused", "crashed"}

\* The call is one of those that are made.
Called == call \in Calls

\* Every call is one of those that are made.
LEMMA CalledStays == Called /\ [Next]_vars => Called'
BY DEF Called, Next, vars, CheckArguments, GuardDeletion, RenderCall, PlanCall, RunSession,
   SomebodyCommits, CallAgain, Finished

\* A state in which a typed operation begins is one in which a config operation does.
LEMMA InitMaps == Init => Called /\ Abstract!Init
<1> SUFFICES ASSUME Init PROVE Called /\ Abstract!Init
    OBVIOUS
<1>1. call \in Calls /\ Asked \in { ScopesOf(c) : c \in Calls }
    BY DEF Init, Asked
<1>2. device \in Abstract!Configs
    BY <1>1, CallAssumption, SameConfigs DEF Init, Configs
<1>3. AbstractPhase = "called"
    BY DEF Init, AbstractPhase
<1> QED BY <1>1, <1>2, <1>3 DEF Init, Called, Abstract!Init

\* The steps up to the plan are stutters of the config operation.
LEMMA StepsBefore ==
    CheckArguments \/ GuardDeletion \/ RenderCall => UNCHANGED Abstract!vars
<1> SUFFICES ASSUME CheckArguments \/ GuardDeletion \/ RenderCall
             PROVE  UNCHANGED Abstract!vars
    OBVIOUS
<1>1. UNCHANGED <<device, plan, candidate, ran, first, planned, stale, blind, call>>
    BY DEF CheckArguments, GuardDeletion, RenderCall
<1>2. phase \in Before
    BY DEF CheckArguments, GuardDeletion, RenderCall, Before
<1>3. phase' \in Before \cup {"called"}
  <2>1. CASE CheckArguments
    BY <2>1, Zenon DEF CheckArguments, Before
  <2>2. CASE GuardDeletion
    BY <2>2, Zenon DEF GuardDeletion, Before
  <2>3. CASE RenderCall
    BY <2>3, Zenon DEF RenderCall, Before
  <2> QED BY <2>1, <2>2, <2>3
<1>4. AbstractPhase = "called" /\ AbstractPhase' = "called"
    BY <1>2, <1>3 DEF AbstractPhase, Before
<1>5. Asked' = Asked
    BY <1>1 DEF Asked
<1> QED BY <1>1, <1>4, <1>5 DEF Abstract!vars

\* Planning a call is planning its scopes; in between, and when it is over, the
\* phases are the same.
LEMMA StepsAfter ==
    PlanCall \/ RunSession \/ Finished =>
        Abstract!PlanOperation \/ Abstract!OpenSession \/ Abstract!RunScope
        \/ Abstract!Commit \/ UNCHANGED Abstract!vars
<1>1. ASSUME PlanCall PROVE Abstract!PlanOperation
  <2>1. PICK failed \in {FALSE, FactsFail} : Op!PlanFrom(failed)
    BY <1>1 DEF PlanCall
  <2>2. call' = call /\ Asked' = Asked
    BY <1>1 DEF PlanCall, Asked
  <2>3. failed \in {FALSE} \cup {AnyScopes(Asked)}
    BY CallAssumption DEF AnyScopes
  <2>4. AbstractPhase = "called" /\ AbstractPhase' = phase'
    BY <2>1 DEF Op!PlanFrom, AbstractPhase
  <2>5. Abstract!ConfigurationFact(failed) = Op!ConfigurationFact(failed)
    BY SameConfigs DEF Abstract!ConfigurationFact, Op!ConfigurationFact
  <2>6. plan' = Abstract!PlanScopes(Abstract!ConfigurationFact(failed), Asked)
    BY <2>1, <2>5, SamePlans DEF Op!PlanFrom
  <2>7. Abstract!PlanFrom(failed)
    BY <2>1, <2>2, <2>4, <2>6 DEF Op!PlanFrom, Abstract!PlanFrom
  <2> QED BY <2>3, <2>7 DEF Abstract!PlanOperation
<1>2. ASSUME RunSession
      PROVE  Abstract!OpenSession \/ Abstract!RunScope \/ Abstract!Commit
  <2>1. call' = call /\ Asked' = Asked
    BY <1>2 DEF RunSession, Asked
  <2>2. phase \notin Before
    BY <1>2 DEF RunSession, Op!OpenSession, Op!RunScope, Op!Commit, Before
  <2>3. phase' \notin Before
    BY <1>2 DEF RunSession, Op!OpenSession, Op!RunScope, Op!Commit, Op!Closes, Before
  <2>4. AbstractPhase = phase /\ AbstractPhase' = phase'
    BY <2>2, <2>3 DEF AbstractPhase, Before
  <2>5. CASE Op!OpenSession
    BY <2>1, <2>4, <2>5 DEF Op!OpenSession, Abstract!OpenSession
  <2>6. CASE Op!RunScope
    BY <2>1, <2>4, <2>6, SameRuns DEF Op!RunScope, Abstract!RunScope, Op!Closes, Abstract!Closes
  <2>7. CASE Op!Commit
    BY <2>1, <2>4, <2>7, SameConfigs DEF Op!Commit, Abstract!Commit, Op!Closes, Abstract!Closes
  <2> QED BY <1>2, <2>5, <2>6, <2>7 DEF RunSession
<1>3. ASSUME Finished PROVE UNCHANGED Abstract!vars
    BY <1>3 DEF Finished, vars, Abstract!vars, Asked, AbstractPhase
<1> QED BY <1>1, <1>2, <1>3

\* What others commit is a configuration, of any part of the grammar.
LEMMA StepsBetween ==
    Called /\ (SomebodyCommits \/ CallAgain) => Abstract!SomebodyCommits \/ Abstract!CallAgain
<1>1. ASSUME Called, SomebodyCommits PROVE Abstract!SomebodyCommits
  <2>1. call' = call /\ Asked' = Asked
    BY <1>1 DEF SomebodyCommits, Asked
  <2>2. AbstractPhase = phase /\ AbstractPhase' = phase'
    BY <1>1 DEF SomebodyCommits, AbstractPhase
  <2>3. ConfigsOf[Region(call)] \subseteq Abstract!Configs
    BY <1>1, CallAssumption, SameConfigs DEF Called, Configs
  <2> QED BY <1>1, <2>1, <2>2, <2>3 DEF SomebodyCommits, Abstract!SomebodyCommits, AnyScopes
<1>2. ASSUME CallAgain PROVE Abstract!CallAgain
  <2>1. call' = call /\ Asked' = Asked
    BY <1>2 DEF CallAgain, Asked
  <2>2. AbstractPhase = phase /\ AbstractPhase' = "called"
    BY <1>2 DEF CallAgain, AbstractPhase
  <2> QED BY <1>2, <2>1, <2>2 DEF CallAgain, Abstract!CallAgain
<1> QED BY <1>1, <1>2

\* Every step of a typed operation is one of a config operation or cannot be
\* seen there.
LEMMA NextMaps == Called /\ [Next]_vars => [Abstract!Next]_(Abstract!vars)
<1> SUFFICES ASSUME Called, [Next]_vars PROVE Abstract!Next \/ UNCHANGED Abstract!vars
    OBVIOUS
<1>1. CASE UNCHANGED vars
    BY <1>1 DEF vars, Abstract!vars, Asked, AbstractPhase
<1>2. CASE CheckArguments \/ GuardDeletion \/ RenderCall
    BY <1>2, StepsBefore
<1>3. CASE PlanCall \/ RunSession \/ Finished
    BY <1>3, StepsAfter DEF Abstract!Next
<1>4. CASE SomebodyCommits \/ CallAgain
    BY <1>4, StepsBetween DEF Abstract!Next
<1> QED BY <1>1, <1>2, <1>3, <1>4 DEF Next

\* A typed operation implements a config operation on the scopes it is rendered
\* to (operations.py): whatever is checked, looked up and rendered before
\* cannot be told from the device, whoever else commits.
THEOREM Refinement == Spec => ImplementsConfigOperation
<1>1. Init => Called /\ Abstract!Init
    BY InitMaps
<1>2. Called /\ [Next]_vars => Called'
    BY CalledStays
<1>3. Called /\ [Next]_vars => [Abstract!Next]_(Abstract!vars)
    BY NextMaps
<1> QED BY <1>1, <1>2, <1>3, PTL DEF Spec, ImplementsConfigOperation, Abstract!Spec

-----------------------------------------------------------------------------
(* The accounts.  What is shown of any of them, with the path self, goes    *)
(* for the user the controller is connected as.                             *)

\* The order of paths is the same in all of the instances.
LEMMA SameOrder ==
    \A p, q : /\ Op!IsPrefix(p, q) <=> IsPrefix(p, q)
              /\ A!IsPrefix(p, q) <=> IsPrefix(p, q)
              /\ Op!IsStrictPrefix(p, q) <=> IsStrictPrefix(p, q)
              /\ Op!Front(p) = Front(p) /\ A!Front(p) = Front(p)
BY DEF Op!IsPrefix, A!IsPrefix, IsPrefix, Op!IsStrictPrefix, IsStrictPrefix, Op!Front,
   A!Front, Front

\* A call that is neither refused nor raises is in terms of the grammar.
LEMMA CallsAreFine ==
    ASSUME FittingCalls, NEW c \in Calls, ~Rejects(c), ~Raises(c)
    PROVE  Fine(c) /\ ScopesOf(c) = Render(c)
BY CallAssumption DEF FittingCalls, Fine, ScopesOf

\* What calls are rendered to can be asked for.
LEMMA CallsAskForTrees ==
    ASSUME FittingCalls, NEW c \in Calls
    PROVE  IsOperation(ScopesOf(c))
<1>1. CASE Rejects(c) \/ Raises(c)
  <2> DEFINE none == <<>>
  <2>1. ScopesOf(c) = none
    BY <1>1 DEF ScopesOf
  <2>2. none \in Seq({})
    OBVIOUS
  <2> HIDE DEF none
  <2> QED BY <2>1, <2>2, TreesAreAsked
<1>2. CASE ~Rejects(c) /\ ~Raises(c)
    BY <1>2, CallsAreFine, CallPosed
<1> QED BY <1>1, <1>2

\* What the theorems about config operations assume holds of the typed ones.
LEMMA Assumed ==
    ASSUME FittingCalls
    PROVE  A!DeviceAssumption /\ A!OperationAssumption
<1>1. A!DeviceAssumption
    BY DeviceAssumption
    DEF A!DeviceAssumption, A!Leaves, Leaves, A!Prefixes, Prefixes, A!IsStrictPrefix,
        IsStrictPrefix, A!IsPrefix, IsPrefix, A!Front, Front
<1>2. \A scope : A!IsScope(scope) <=> IsScope(scope)
    BY DEF A!IsScope, IsScope, A!Intents, Intents, A!IsTreeAt, IsTreeAt, A!Present,
       Present, A!IsPrefix, IsPrefix, A!Prefixes, Prefixes, A!Front, Front
<1>3. A!OperationAssumption
    BY <1>2, CallsAskForTrees DEF A!OperationAssumption, AnyScopes, A!IsOperation, IsOperation
<1> QED BY <1>1, <1>3

\* What lies below what is no prefix is none either.
LEMMA BelowNoPrefix ==
    ASSUME NEW p \in Words, NEW q \in Words, NEW r \in Words,
           IsPrefix(p, q), ~IsPrefix(p, r)
    PROVE  ~IsPrefix(q, r)
BY PrefixOrder

\* An account is an instance of a tag, neither a leaf nor a tag.
LEMMA AccountIs ==
    ASSUME Users \in Tags, NEW self \in Accounts
    PROVE  /\ self \in Words /\ Len(self) = 4 /\ Front(self) = Users
           /\ \A i \in 1..3 : self[i] = Users[i]
           /\ self \notin Leaves \cup Tags
           /\ Users \notin SingleLeaves
<1>1. self \in Words \ {<<>>} /\ self \in Paths /\ Front(self) = Users
    BY DeviceAssumption DEF Accounts, Words
<1>2. Users \in Words /\ Len(Users) = 3
  <2>1. Users \in Paths
    BY DeviceAssumption
  <2> QED BY <2>1, DeviceAssumption DEF Users, Words
<1>3. Len(self) = 4
  <2>1. Len(self) \in Nat /\ Len(self) # 0
    BY <1>1, EmptySeq DEF Words
  <2>2. Len(self) - 1 \in 0..Len(self)
    BY <2>1
  <2>3. Len(Front(self)) = Len(self) - 1
    BY <1>1, <2>2, Cut DEF Front
  <2>4. Len(Front(self)) = 3
    BY <1>1, <1>2
  <2> DEFINE n == Len(self)
  <2>5. n \in Nat /\ n - 1 = 3
    BY <2>1, <2>3, <2>4
  <2> HIDE DEF n
  <2>6. n = 4
    BY <2>5
  <2> QED BY <2>6 DEF n
<1>4. \A i \in 1..3 : self[i] = Users[i]
  <2>1. IsPrefix(Users, self)
    BY <1>1, Parents DEF IsStrictPrefix
  <2> QED BY <1>1, <1>2, <1>3, <2>1, PrefixIs
<1> QED BY <1>1, <1>3, <1>4, DeviceAssumption DEF Leaves

\* A user with a path has an account.
LEMMA UserHasAccount ==
    ASSUME NEW name, <<"system", "login", "user", name>> \in Paths
    PROVE  <<"system", "login", "user", name>> \in Accounts
<1> DEFINE self == <<"system", "login", "user", name>>
           cut == SubSeq(self, 1, 3)
<1>1. self \in Words /\ Len(self) = 4
    BY DeviceAssumption DEF Words
<1>2. Front(self) = cut
    BY <1>1 DEF Front
<1>3. cut \in Seq(STRING) /\ Len(cut) = 3 /\ \A i \in 1..3 : cut[i] = self[i]
  <2> HIDE DEF self
  <2>1. 3 \in 0..Len(self)
    BY <1>1
  <2>2. cut \in Words /\ Len(cut) = 3 /\ IsPrefix(cut, self)
    BY <1>1, <2>1, Cut
  <2> QED BY <1>1, <2>2, PrefixIs DEF Words
<1> HIDE DEF cut
<1>4. cut[1] = "system" /\ cut[2] = "login" /\ cut[3] = "user"
    BY <1>3
<1>5. cut = Users
    BY <1>3, <1>4 DEF Users
<1> QED BY <1>2, <1>5 DEF Accounts

\* An account is that of its name.
LEMMA AccountOf ==
    ASSUME Users \in Tags, NEW self \in Accounts, NEW c, self[4] = c.user
    PROVE  self = UserPath(c)
<1>1. /\ self \in Seq(STRING) /\ Len(self) = 4
      /\ self[1] = "system" /\ self[2] = "login" /\ self[3] = "user"
    BY AccountIs DEF Users, Words
<1>2. self = <<self[1], self[2], self[3], self[4]>>
    BY <1>1
<1> QED BY <1>1, <1>2 DEF UserPath

\* The paths that can be set without replacing anything above a user: they are
\* as long as the path of one.
LEMMA LongPathsSet ==
    ASSUME Users \in Tags, NEW self \in Accounts,
           NEW s \in Words, Len(s) >= 4, Front(s) \in SingleLeaves
    PROVE  ~IsStrictPrefix(Front(s), self)
<1> SUFFICES ASSUME IsPrefix(Front(s), self), Front(s) # self PROVE FALSE
    BY DEF IsStrictPrefix
<1>1. Len(s) \in Nat /\ self \in Words /\ Len(self) = 4
    BY AccountIs DEF Words
<1>2. Front(s) \in Words /\ Len(Front(s)) = Len(s) - 1
    BY <1>1, SubSeqProperties DEF Words, Front
<1>3. /\ Len(Front(s)) <= 4
      /\ \A i \in 1..Len(Front(s)) : Front(s)[i] = self[i]
    BY <1>1, <1>2, PrefixIs
<1>4. CASE Len(s) = 4
  <2>1. Len(Front(s)) = 3 /\ Front(s) \in Seq(STRING)
    BY <1>2, <1>4 DEF Words
  <2>2. Front(s)[1] = "system" /\ Front(s)[2] = "login" /\ Front(s)[3] = "user"
    BY <1>3, <2>1, AccountIs DEF Users
  <2>3. Front(s) = Users
    BY <2>1, <2>2 DEF Users
  <2> QED BY <2>3, AccountIs
<1>5. CASE Len(s) = 5
  <2>1. Len(Front(s)) = 4
    BY <1>2, <1>5
  <2>2. \A i \in 1..4 : Front(s)[i] = self[i]
    BY <1>3, <2>1
  <2>3. Front(s) = self
    BY <1>1, <1>2, <2>1, <2>2 DEF Words
  <2> QED BY <2>3
<1> QED BY <1>1, <1>2, <1>3, <1>4, <1>5

\* What a user's scopes are about begins with the name of the user.
LEMMA LongerPaths ==
    ASSUME NEW c, NEW p,
           \/ p = UserPath(c)
           \/ \E key : p = Append(UserPath(c), key)
           \/ \E key, next : p = UserPath(c) \o <<key, next>>
    PROVE  /\ Len(p) \in Nat /\ Len(p) >= 4 /\ p[4] = c.user
           /\ p # UserPath(c) => Len(p) > 4
<1> DEFINE user == UserPath(c)
<1>1. ASSUME NEW T, user \in Seq(T)
      PROVE  user \in Seq(T) /\ Len(user) = 4 /\ user[4] = c.user
    BY <1>1 DEF UserPath
<1>2. user \in Seq({"system", "login", "user", c.user})
    BY DEF UserPath
<1> HIDE DEF user
<1>3. CASE p = user
    BY <1>1, <1>2, <1>3 DEF user
<1>4. ASSUME NEW key, p = Append(user, key)
      PROVE  Len(p) = 5 /\ p[4] = c.user
  <2> DEFINE T == {"system", "login", "user", c.user, key}
  <2>1. user \in Seq(T) /\ key \in T
    BY DEF user, UserPath
  <2> HIDE DEF T
  <2> QED BY <1>1, <1>4, <2>1, AppendProperties
<1>5. ASSUME NEW key, NEW next, p = user \o <<key, next>>
      PROVE  Len(p) = 6 /\ p[4] = c.user
  <2> DEFINE T == {"system", "login", "user", c.user, key, next}
             rest == <<key, next>>
  <2>1. user \in Seq(T) /\ rest \in Seq(T) /\ Len(rest) = 2
    BY DEF user, UserPath
  <2>2. p = user \o rest
    BY <1>5
  <2> HIDE DEF T, rest
  <2>3. /\ Len(p) = Len(user) + Len(rest)
        /\ \A i \in 1..(Len(user) + Len(rest)) :
               p[i] = IF i <= Len(user) THEN user[i] ELSE rest[i - Len(user)]
    BY <2>1, <2>2, ConcatProperties
  <2>4. Len(user) = 4 /\ user[4] = c.user
    BY <1>1, <2>1
  <2> QED BY <2>1, <2>3, <2>4
<1>6. \/ p = user
      \/ \E key : p = Append(user, key)
      \/ \E key, next : p = user \o <<key, next>>
    BY DEF user
<1>7. CASE p # user
  <2> DEFINE n == Len(p)
  <2>1. n \in {5, 6}
    BY <1>4, <1>5, <1>6, <1>7
  <2> HIDE DEF n
  <2>2. n \in Nat /\ n > 4 /\ n >= 4
    BY <2>1
  <2>3. p[4] = c.user
    BY <1>4, <1>5, <1>6, <1>7
  <2> QED BY <2>2, <2>3 DEF n
<1> QED BY <1>3, <1>7 DEF user

\* Whatever the arguments of a user are, they are rendered to trees.
LEMMA UserTrees ==
    ASSUME NEW c \in Calls, c.op = "user"
    PROVE  IsOperation(ScopesOf(c))
<1> DEFINE path == UserPath(c)
           auth == path \o <<"authentication", "encrypted-password">>
           keys == path \o <<"authentication", "public-keys">>
           s1 == ExactLeaf(c, "full_name", Append(path, "full-name"))
           s2 == ExactLeaf(c, "encrypted_password", auth)
           s3 == RenderKeys(c, keys)
           none == <<>>
<1>1. CASE Rejects(c) \/ Raises(c)
  <2>1. ScopesOf(c) = none
    BY <1>1 DEF ScopesOf
  <2>2. none \in Seq({})
    OBVIOUS
  <2> HIDE DEF none
  <2> QED BY <2>1, <2>2, TreesAreAsked
<1>2. CASE ~Rejects(c) /\ ~Raises(c)
  <2>1. /\ ScopesOf(c) = OrBare(c, path, s1 \o s2 \o s3)
        /\ path = ObjectPath(c) /\ path \in Seq(STRING) /\ Len(path) = 4
        /\ \A field \in DOMAIN c.args : \A scope \in Desired(c, field) : IsScope(scope)
        /\ IsCall(c)
        /\ DOMAIN c.args \subseteq {"full_name", "encrypted_password", "ssh_keys"}
    <3>1. ScopesOf(c) = OrBare(c, path, s1 \o s2 \o s3)
      BY <1>2 DEF ScopesOf, Render, RenderUser
    <3>2. path = ObjectPath(c) /\ Len(path) = 4
      BY DEF ObjectPath, UserPath
    <3>3. IsCall(c) /\ DOMAIN c.args \subseteq Fields["user"]
      BY CallAssumption DEF IsCall
    <3>4. DOMAIN c.args \subseteq {"full_name", "encrypted_password", "ssh_keys"}
      BY <3>3 DEF Fields
    <3> HIDE DEF path, s1, s2, s3
    <3> QED BY <1>2, <3>1, <3>2, <3>3, <3>4, ArgumentAssumption
  <2>2. path \in Words \ {<<>>}
    BY <2>1 DEF Words
  <2>3. ASSUME NEW field \in DOMAIN c.args
        PROVE  FieldPath(c, field) \in Words \ {<<>>} /\ FieldPath(c, field) = path \o Local(c, field)
    <3>1. FieldPath(c, field) = path \o Local(c, field) /\ Local(c, field) \in Words
      BY <1>2, <2>1, Locals DEF Typed
    <3> DEFINE local == Local(c, field)
               whole == path \o local
    <3>2. path \in Words /\ local \in Words /\ Len(path) = 4
      BY <2>1, <2>2, <3>1
    <3> HIDE DEF path, local
    <3>3. whole \in Words /\ Len(whole) = Len(path) + Len(local) /\ Len(local) \in Nat
      BY <3>2, Joint
    <3> HIDE DEF whole
    <3>4. whole # <<>>
      BY <3>2, <3>3
    <3> QED BY <3>1, <3>3, <3>4 DEF whole, local
  <2>4. ASSUME NEW field \in DOMAIN c.args, NEW scope \in FieldScopes(c, field)
        PROVE  IsScope(scope)
    <3>1. CASE scope \in Desired(c, field)
      BY <2>1, <3>1
    <3>2. CASE scope = Scope("absent", FieldPath(c, field), Absent)
      BY <2>3, <3>2, AbsentIsScope
    <3> QED BY <2>1, <3>1, <3>2 DEF FieldScopes
  <2>5. /\ "full_name" \in DOMAIN c.args => Append(path, "full-name") = FieldPath(c, "full_name")
        /\ auth = FieldPath(c, "encrypted_password")
        /\ keys = FieldPath(c, "ssh_keys")
    <3>1. auth = FieldPath(c, "encrypted_password") /\ keys = FieldPath(c, "ssh_keys")
      BY <2>1 DEF FieldPath, FieldKeys
    <3>2. ASSUME "full_name" \in DOMAIN c.args
          PROVE  Append(path, "full-name") = FieldPath(c, "full_name")
      <4>1. FieldPath(c, "full_name") = path \o <<"full-name">>
        BY <2>3, <3>2, ShortKeys
      <4> DEFINE U == {path[1], path[2], path[3], path[4], "full-name"}
      <4>2. path \in Seq(U) /\ "full-name" \in U
        BY DEF UserPath
      <4> HIDE DEF U, path
      <4> QED BY <4>1, <4>2, AppendIsConcat
    <3> QED BY <3>1, <3>2
  <2> DEFINE Part(field) == FieldPart(c, field)
             S == Part("full_name") \cup Part("encrypted_password") \cup Part("ssh_keys")
  <2>6. Enumerates(s1, Part("full_name")) /\ Enumerates(s2, Part("encrypted_password"))
    BY <2>5, TextRendered DEF Texts
  <2>7. Enumerates(s3, Part("ssh_keys"))
    BY <2>5, KeysRendered
  <2>8. \A s \in S : IsScope(s)
    BY <2>4 DEF FieldPart
  <2>9. s1 \o s2 \o s3 \in Seq(S)
    <3> HIDE DEF s1, s2, s3, Part
    <3>1. s1 \in Seq(S) /\ s2 \in Seq(S) /\ s3 \in Seq(S)
      BY <2>6, <2>7, SeqDef DEF Enumerates
    <3> HIDE DEF S
    <3> QED BY <3>1, ConcatProperties
  <2>10. CASE ~c.present
    <3> DEFINE gone == Scope("absent", path, Absent)
    <3>1. ScopesOf(c) = <<gone>>
      BY <2>1, <2>10 DEF OrBare
    <3>2. \A s \in {gone} : IsScope(s)
      BY <2>2, AbsentIsScope
    <3> HIDE DEF gone
    <3>3. <<gone>> \in Seq({gone})
      OBVIOUS
    <3> QED BY <3>1, <3>2, <3>3, TreesAreAsked
  <2>11. CASE c.present /\ DOMAIN c.args = {}
    <3> DEFINE bare == Scope("merge", path, EmptyTree)
    <3>1. ScopesOf(c) = <<bare>>
      BY <2>1, <2>11 DEF OrBare
    <3>2. \A s \in {bare} : IsScope(s)
      BY <2>2, BareIsScope, ScopeIs
    <3> HIDE DEF bare
    <3>3. <<bare>> \in Seq({bare})
      OBVIOUS
    <3> QED BY <3>1, <3>2, <3>3, TreesAreAsked
  <2>12. CASE c.present /\ DOMAIN c.args # {}
    <3>1. ScopesOf(c) = s1 \o s2 \o s3
      BY <2>1, <2>12 DEF OrBare
    <3> HIDE DEF S, s1, s2, s3
    <3> QED BY <2>8, <2>9, <3>1, TreesAreAsked
  <2>13. c.present \in BOOLEAN
    BY <2>1 DEF IsCall
  <2> QED BY <2>10, <2>11, <2>12, <2>13
<1> QED BY <1>1, <1>2

\* Each scope of a user is about the user, or, when the user should be there, about
\* something below or merged.
LEMMA UserScopes ==
    ASSUME NEW c \in Calls, c.op = "user", NEW i \in DOMAIN ScopesOf(c)
    PROVE  /\ IsScope(ScopesOf(c)[i])
           /\ Len(ScopesOf(c)[i].path) \in Nat /\ Len(ScopesOf(c)[i].path) >= 4
           /\ ScopesOf(c)[i].path[4] = c.user
           /\ \/ ~c.present
              \/ ScopesOf(c)[i].intent = "merge"
              \/ Len(ScopesOf(c)[i].path) > 4
<1> DEFINE path == UserPath(c)
           auth == path \o <<"authentication", "encrypted-password">>
           keys == path \o <<"authentication", "public-keys">>
           none == Scope("absent", path, Absent)
           bare == Scope("merge", path, EmptyTree)
           name == Scope("exact", Append(path, "full-name"), Leaf({c.args["full_name"]}))
           word == Scope("exact", auth, Leaf({c.args["encrypted_password"]}))
           noKeys == Scope("absent", keys, Absent)
           allKeys == Scope("exact", keys, c.args["ssh_keys"])
           Pieces == {name, word, noKeys, allKeys}
<1>1. ScopesOf(c) \in {<<>>, RenderUser(c)}
    BY DEF ScopesOf, Render
<1>2. \/ RenderUser(c) = <<none>> /\ ~c.present
      \/ RenderUser(c) = <<bare>>
      \/ RenderUser(c) \in Seq(Pieces)
  <2>1. ExactLeaf(c, "full_name", Append(path, "full-name")) \in {<<>>, <<name>>}
    BY DEF ExactLeaf
  <2>2. ExactLeaf(c, "encrypted_password", auth) \in {<<>>, <<word>>}
    BY DEF ExactLeaf
  <2>3. RenderKeys(c, keys) \in {<<>>, <<noKeys>>, <<allKeys>>}
    BY DEF RenderKeys
  <2> DEFINE parts == ExactLeaf(c, "full_name", Append(path, "full-name"))
                      \o ExactLeaf(c, "encrypted_password", auth) \o RenderKeys(c, keys)
  <2>4. parts \in Seq(Pieces)
    <3> HIDE DEF name, word, noKeys, allKeys
    <3>1. /\ <<>> \in Seq(Pieces) /\ <<name>> \in Seq(Pieces) /\ <<word>> \in Seq(Pieces)
          /\ <<noKeys>> \in Seq(Pieces) /\ <<allKeys>> \in Seq(Pieces)
      OBVIOUS
    <3> HIDE DEF Pieces
    <3> QED BY <2>1, <2>2, <2>3, <3>1, ConcatProperties
  <2>5. RenderUser(c) = OrBare(c, path, parts)
    BY DEF RenderUser
  <2> HIDE DEF parts
  <2> QED BY <2>4, <2>5 DEF OrBare
<1>3. /\ ScopesOf(c)[i] \in {none, bare} \cup Pieces
      /\ ScopesOf(c)[i] = none => ~c.present
  <2> HIDE DEF none, bare, name, word, noKeys, allKeys
  <2>1. bare # none /\ none \notin Pieces
    BY DEF bare, none, name, word, noKeys, allKeys, Scope
  <2>2. CASE RenderUser(c) = <<none>> /\ ~c.present
    BY <1>1, <2>2
  <2>3. CASE RenderUser(c) = <<bare>>
    BY <1>1, <2>1, <2>3
  <2>4. CASE RenderUser(c) \in Seq(Pieces)
    <3> HIDE DEF Pieces
    <3> QED BY <1>1, <2>1, <2>4, ElementOfSeq, LenProperties
  <2> QED BY <1>2, <2>2, <2>3, <2>4
<1>4. /\ none.path = path /\ bare.path = path /\ bare.intent = "merge"
      /\ name.path = Append(path, "full-name")
      /\ word.path = auth /\ noKeys.path = keys /\ allKeys.path = keys
    BY DEF Scope
<1>5. \A p \in {path, Append(path, "full-name"), auth, keys} :
          Len(p) \in Nat /\ Len(p) >= 4 /\ p[4] = c.user
    BY LongerPaths
<1>6. IsScope(ScopesOf(c)[i])
    BY UserTrees DEF IsOperation
<1>7. Len(Append(path, "full-name")) > 4 /\ Len(auth) > 4 /\ Len(keys) > 4
    BY LongerPaths
<1> HIDE DEF none, bare, name, word, noKeys, allKeys, path, auth, keys
<1> QED BY <1>3, <1>4, <1>5, <1>6, <1>7

\* Commands that cannot remove a user: what is deleted is not the user nor above,
\* and what is set is not so short that it could replace something above.
Harmless(self) ==
    { delta \in [deletes : SUBSET Words, sets : SUBSET Words] :
          /\ \A path \in delta.deletes : ~IsPrefix(path, self)
          /\ \A path \in delta.sets : Len(path) >= 4 }

\* A difference is that of the trees, or creates the path.
LEMMA Deltas ==
    ASSUME NEW active, NEW desired, NEW path, NEW replace
    PROVE  LET delta == Op!DiffTree(active, desired, path, replace)
           IN  \/ delta.deletes = {} /\ delta.sets = {path}
               \/ /\ delta.deletes = Op!Deletes(active, desired, replace)
                  /\ delta.sets = Op!Sets(active, desired)
<1> DEFINE delta == [ deletes |-> Op!Deletes(active, desired, replace),
                      sets |-> Op!Sets(active, desired) ]
           made == [Op!NoDelta EXCEPT !.sets = {path}]
<1>1. Op!DiffTree(active, desired, path, replace) \in {delta, made}
    BY Zenon DEF Op!DiffTree
<1>2. made.deletes = {} /\ made.sets = {path}
    BY DEF Op!NoDelta
<1>3. /\ delta.deletes = Op!Deletes(active, desired, replace)
      /\ delta.sets = Op!Sets(active, desired)
    OBVIOUS
<1> HIDE DEF delta, made
<1> QED BY <1>1, <1>2, <1>3

\* The planner deletes what is there, at the path of its scope or below.
LEMMA PlannedDeletes ==
    ASSUME NEW config \in SUBSET Paths, NEW tree \in {Op!EmptyTree, Op!TreeOf(config)},
           NEW scope, scope.path \in Words
    PROVE  /\ \A q \in Op!PlanScope(tree, scope).deletes :
                  q \in Words /\ IsPrefix(scope.path, q)
           /\ scope.intent = "merge" => Op!PlanScope(tree, scope).deletes = {}
<1> DEFINE active == Op!SelectSubtree(tree, scope.path)
           replace == scope.intent = "exact"
<1>1. /\ tree.nodes \subseteq Words /\ tree.leaves \subseteq Words /\ tree.values \subseteq Words
      /\ DOMAIN tree = {"nodes", "leaves", "values"}
  <2>1. CASE tree = Op!EmptyTree
    <3> DEFINE root == {<<>>}
    <3>1. root \subseteq Words
      BY DEF Words
    <3>2. Op!EmptyTree = [Op!Absent EXCEPT !.nodes = root]
      BY DEF Op!EmptyTree
    <3> HIDE DEF root
    <3>3. Op!EmptyTree = [nodes |-> root, leaves |-> {}, values |-> {}]
      BY <3>2 DEF Op!Absent
    <3> QED BY <2>1, <3>1, <3>3
  <2>2. CASE tree = Op!TreeOf(config)
    <3> DEFINE nodes == {<<>>} \cup { q \in config : q \notin Op!Leaves /\ Op!Front(q) \notin Op!Leaves }
               leaves == config \cap Op!Leaves
               values == { q \in config : Op!Front(q) \in Op!Leaves }
    <3>1. config \subseteq Words /\ <<>> \in Words
      BY DeviceAssumption DEF Words
    <3>2. nodes \subseteq Words /\ leaves \subseteq Words /\ values \subseteq Words
      BY <3>1
    <3>3. tree = [nodes |-> nodes, leaves |-> leaves, values |-> values]
      BY <2>2 DEF Op!TreeOf
    <3> HIDE DEF nodes, leaves, values
    <3> QED BY <3>2, <3>3
  <2> QED BY <2>1, <2>2
<1>2. \A q \in active.nodes \cup active.leaves \cup active.values :
          q \in Words /\ IsPrefix(scope.path, q)
  <2>1. CASE active = Op!Absent
    BY <2>1 DEF Op!Absent
  <2>2. CASE active = [part \in DOMAIN tree |-> { q \in tree[part] : Op!IsPrefix(scope.path, q) }]
    BY <1>1, <2>2, SameOrder
  <2> QED BY <2>1, <2>2 DEF Op!SelectSubtree
<1> HIDE DEF active
<1>3. IsPrefix(scope.path, scope.path)
    BY PrefixOrder
<1>4. CASE scope.intent = "absent"
  <2>1. Op!PlanScope(tree, scope).deletes \subseteq {scope.path}
    BY <1>4 DEF Op!PlanScope, Op!NoDelta
  <2> QED BY <1>3, <1>4, <2>1
<1>5. CASE scope.intent # "absent"
  <2>1. Op!PlanScope(tree, scope) = Op!DiffTree(active, scope.node, scope.path, replace)
    BY <1>5 DEF Op!PlanScope, active
  <2> HIDE DEF replace
  <2>2. \/ Op!PlanScope(tree, scope).deletes = {}
        \/ Op!PlanScope(tree, scope).deletes = Op!Deletes(active, scope.node, replace)
    BY <2>1, Deltas
  <2>3. \A q \in Op!Deletes(active, scope.node, replace) :
            replace /\ q \in active.nodes \cup active.leaves \cup active.values
    BY DEF Op!Deletes, Op!StaleValues, Op!InTheWay, Op!ExtraKeys, Op!Present
  <2>4. scope.intent = "merge" => ~replace
    BY DEF replace
  <2> QED BY <1>2, <2>2, <2>3, <2>4
<1> QED BY <1>4, <1>5

\* It sets paths at and below that of the scope.
LEMMA PlannedSets ==
    ASSUME NEW tree, NEW scope, IsScope(scope)
    PROVE  \A q \in Op!PlanScope(tree, scope).sets : q \in Words /\ IsPrefix(scope.path, q)
<1> DEFINE active == Op!SelectSubtree(tree, scope.path)
           node == scope.node
           replace == scope.intent = "exact"
<1>1. scope.path \in Words /\ IsPrefix(scope.path, scope.path)
    BY PrefixOrder DEF Words, IsScope
<1>2. CASE scope.intent = "absent"
    BY <1>2 DEF Op!PlanScope, Op!NoDelta
<1>3. CASE scope.intent # "absent"
  <2>1. Op!PlanScope(tree, scope) = Op!DiffTree(active, node, scope.path, replace)
    BY <1>3 DEF Op!PlanScope
  <2>2. node.nodes \subseteq Words /\ node.leaves \subseteq Words
        /\ node.values \subseteq Words \ {<<>>}
    BY DEF IsScope, Words
  <2>3. /\ \A q \in node.nodes \cup node.leaves : IsPrefix(scope.path, q)
        /\ \A value \in node.values : Front(value) \in node.leaves
    BY <1>3 DEF IsScope, IsTreeAt, Present
  <2>4. ASSUME NEW value \in node.values
        PROVE  IsPrefix(scope.path, value)
    <3>1. value \in Words \ {<<>>} /\ Front(value) \in Words
      BY <2>2, <2>3, <2>4
    <3>2. IsPrefix(Front(value), value)
      BY <3>1, Parents, StrictOrder
    <3>3. IsPrefix(scope.path, Front(value))
      BY <2>3, <2>4
    <3> QED BY <1>1, <3>1, <3>2, <3>3, PrefixOrder
  <2> HIDE DEF active, node, replace
  <2>5. \/ Op!PlanScope(tree, scope).sets = {scope.path}
        \/ Op!PlanScope(tree, scope).sets = Op!Sets(active, node)
    BY <2>1, Deltas
  <2>6. Op!Sets(active, node) \subseteq node.values \cup node.nodes
    BY DEF Op!Sets, Op!MissingValues, Op!MissingNodes, Op!Bare
  <2> QED BY <1>1, <2>2, <2>3, <2>4, <2>5, <2>6
<1> QED BY <1>2, <1>3

\* What is planned for another user, or for the user to be there, is harmless.
LEMMA ScopeIsHarmless ==
    ASSUME Users \in Tags, NEW self \in Accounts,
           NEW c \in Calls, c.op = "user", c.present \/ self # UserPath(c),
           NEW config \in SUBSET Paths, NEW tree \in {Op!EmptyTree, Op!TreeOf(config)},
           NEW i \in DOMAIN ScopesOf(c)
    PROVE  Op!PlanScope(tree, ScopesOf(c)[i]) \in Harmless(self)
<1> DEFINE scope == ScopesOf(c)[i]
           delta == Op!PlanScope(tree, scope)
<1>1. /\ IsScope(scope) /\ Len(scope.path) \in Nat /\ Len(scope.path) >= 4
      /\ scope.path[4] = c.user
      /\ ~c.present \/ scope.intent = "merge" \/ Len(scope.path) > 4
    BY UserScopes
<1> HIDE DEF scope
<1>2. scope.path \in Words /\ self \in Words /\ Len(self) = 4
    BY <1>1, AccountIs DEF IsScope, Words
<1>3. ASSUME scope.intent # "merge" PROVE ~IsPrefix(scope.path, self)
  <2>1. CASE c.present
    BY <1>1, <1>2, <1>3, <2>1, PrefixIs
  <2>2. CASE self[4] # c.user
    BY <1>1, <1>2, <2>2, PrefixIs
  <2> QED BY <2>1, <2>2, AccountOf
<1>4. /\ \A q \in delta.deletes : q \in Words /\ IsPrefix(scope.path, q)
      /\ scope.intent = "merge" => delta.deletes = {}
    BY <1>2, PlannedDeletes
<1>5. \A q \in delta.sets : q \in Words /\ IsPrefix(scope.path, q)
    BY <1>1, PlannedSets
<1>6. delta = [deletes |-> delta.deletes, sets |-> delta.sets]
    BY DEF Op!PlanScope, Op!DiffTree, Op!NoDelta
<1> HIDE DEF delta
<1>7. \A q \in delta.deletes : ~IsPrefix(q, self)
    BY <1>2, <1>3, <1>4, BelowNoPrefix
<1>8. \A q \in delta.sets : Len(q) >= 4
  <2> TAKE q \in delta.sets
  <2>1. q \in Words /\ Len(q) \in Nat /\ Len(scope.path) <= Len(q)
    BY <1>2, <1>5, PrefixIs DEF Words
  <2> QED BY <1>1, <2>1
<1> QED BY <1>4, <1>5, <1>6, <1>7, <1>8 DEF Harmless, delta, scope

\* Every configuration of the device is of its grammar.
LEMMA ConfigsArePaths == \A region \in Regions : \A config \in ConfigsOf[region] : config \subseteq Paths
BY DEF ConfigsOf, ConfigsIn, Config, Candidate

\* Harmless commands leave the user in a candidate.
LEMMA HarmlessRuns ==
    ASSUME Users \in Tags, NEW self \in Accounts,
           NEW config \in SUBSET Paths, NEW delta \in Harmless(self)
    PROVE  self \in config => self \in Op!RunDelta(config, delta).config
<1> SUFFICES ASSUME self \in config PROVE self \in Op!RunDelta(config, delta).config
    OBVIOUS
<1> DEFINE left == Op!DeleteAll(config, delta.deletes)
<1>1. self \in left
  <2>1. \A path \in delta.deletes : ~Op!IsPrefix(path, self)
    BY SameOrder DEF Harmless
  <2>2. self \notin Op!Leaves \cup Tags
    BY AccountIs DEF Op!Leaves, Leaves
  <2> QED BY <2>1, <2>2 DEF Op!DeleteAll
<1> HIDE DEF left
<1>2. \A path \in delta.sets : Op!Front(path) \in SingleLeaves =>
                                   ~Op!IsStrictPrefix(Op!Front(path), self)
  <2> TAKE path \in delta.sets
  <2>1. path \in Words /\ Len(path) >= 4
    BY DEF Harmless
  <2> QED BY <2>1, LongPathsSet, SameOrder
<1>3. self \in Op!SetAll(left, delta.sets)
    BY <1>1, <1>2 DEF Op!SetAll
<1>4. Op!RunDelta(config, delta).config = Op!SetAll(left, delta.sets)
    BY DEF Op!RunDelta, left
<1> QED BY <1>3, <1>4

\* Accepted commands lead from paths of the grammar to paths of the grammar.
LEMMA RunsInGrammar ==
    ASSUME NEW config \in SUBSET Paths, NEW delta, Op!RunDelta(config, delta).ok
    PROVE  Op!RunDelta(config, delta).config \in SUBSET Paths
<1>1. delta.sets \subseteq Paths
    BY DEF Op!RunDelta, Op!Settable
<1>2. \A path \in Paths : Op!Prefixes(path) \ {<<>>} \subseteq Paths
    BY DeviceAssumption DEF Op!Prefixes, Prefixes
<1>3. Op!Closed(delta.sets) \subseteq Paths
    BY <1>1, <1>2 DEF Op!Closed
<1>4. Op!DeleteAll(config, delta.deletes) \subseteq Paths
    BY DEF Op!DeleteAll
<1> QED BY <1>3, <1>4 DEF Op!RunDelta, Op!SetAll

\* The accounts a call of `user` has no business to remove.
Spared(c) == { self \in Accounts : c.present \/ self # UserPath(c) }

\* A call that deletes is past its guard.
Passed == identity \notin {Unasked, Unknown, call.user}

\* While a call of `user` is under way its commands are harmless to the accounts
\* it is to spare, so that a session has them where the device has; a deletion
\* the guard refuses gets no further.
Guarded ==
    /\ Called
    /\ identity \in Identities \cup {Unasked}
    /\ device \subseteq Paths /\ candidate \subseteq Paths
    /\ call.op = "user" =>
           /\ call.present \/ Passed \/ phase \in {"arguments", "identity", "refused"}
           /\ ran \in Nat
           /\ \A self \in Spared(call) :
                  /\ plan \in Seq(Harmless(self))
                  /\ phase = "running" /\ self \in device => self \in candidate

\* A call begins guarded.
LEMMA GuardedInit == Init => Guarded
<1> SUFFICES ASSUME Init PROVE Guarded
    OBVIOUS
<1>1. call \in Calls /\ Region(call) \in Regions
    BY CallAssumption DEF Init
<1>2. device \subseteq Paths
    BY <1>1, ConfigsArePaths DEF Init
<1>3. \A self : <<>> \in Seq(Harmless(self))
    OBVIOUS
<1> QED BY <1>1, <1>2, <1>3 DEF Init, Guarded, Called

\* The guard lets no deletion pass of a user it cannot tell from the connected one.
LEMMA GuardedBefore ==
    ASSUME Guarded, CheckArguments \/ GuardDeletion \/ RenderCall
    PROVE  Guarded'
<1>1. UNCHANGED <<device, plan, candidate, ran, call>>
    BY DEF CheckArguments, GuardDeletion, RenderCall
<1>2. phase' # "running"
  <2>1. CASE CheckArguments
    BY <2>1, Zenon DEF CheckArguments
  <2>2. CASE GuardDeletion
    BY <2>2, Zenon DEF GuardDeletion
  <2>3. CASE RenderCall
    BY <2>3, Zenon DEF RenderCall
  <2> QED BY <2>1, <2>2, <2>3
<1>3. ASSUME call.op = "user", ~call.present
      PROVE  Passed' \/ phase' \in {"arguments", "identity", "refused"}
  <2>1. CASE CheckArguments
    <3>1. ~Raises(call)
      BY <1>3 DEF Raises
    <3> QED BY <1>3, <2>1, <3>1, Zenon DEF CheckArguments
  <2>2. CASE GuardDeletion
    <3>1. PICK reported \in Identities :
              /\ identity' = reported
              /\ phase' = IF MayDelete(reported) THEN "version" ELSE "refused"
      BY <2>2 DEF GuardDeletion
    <3>2. CASE MayDelete(reported)
      BY <1>1, <3>1, <3>2, CallAssumption DEF MayDelete, Passed
    <3> QED BY <3>1, <3>2
  <2>3. CASE RenderCall
    <3>1. phase = "version" /\ identity' = identity
      BY <2>3 DEF RenderCall
    <3>2. Passed
      BY <1>3, <3>1 DEF Guarded
    <3> QED BY <1>1, <3>1, <3>2 DEF Passed
  <2> QED BY <2>1, <2>2, <2>3
<1>4. identity' \in Identities \cup {Unasked}
    BY DEF CheckArguments, GuardDeletion, RenderCall, Guarded
<1>5. Spared(call)' = Spared(call)
    BY <1>1 DEF Spared
<1> QED BY <1>1, <1>2, <1>3, <1>4, <1>5 DEF Guarded, Called

\* A plan is harmless, whatever the fact gives.
LEMMA GuardedPlan ==
    ASSUME Users \in Tags, Guarded, PlanCall
    PROVE  Guarded'
<1>1. UNCHANGED <<device, candidate, ran, call, identity>> /\ phase = "called"
    BY DEF PlanCall, Op!PlanFrom
<1>2. PICK failed \in {FALSE, FactsFail} : Op!PlanFrom(failed)
    BY DEF PlanCall
<1> DEFINE tree == Op!ConfigurationFact(failed)
           scopes == ScopesOf(call)
           deltas == [i \in DOMAIN scopes |-> Op!PlanScope(tree, scopes[i])]
<1>3. plan' \in {<<>>, deltas} /\ phase' \in {"noop", "planned"}
    BY <1>2 DEF Op!PlanFrom, Op!PlanScopes, Asked
<1>4. ASSUME call.op = "user", NEW self \in Spared(call)
      PROVE  plan' \in Seq(Harmless(self))
  <2>1. call \in Calls /\ self \in Accounts /\ (call.present \/ self # UserPath(call))
    BY <1>4 DEF Guarded, Called, Spared
  <2>2. tree \in {Op!EmptyTree, Op!TreeOf(device)} /\ device \in SUBSET Paths
    BY DEF Op!ConfigurationFact, Guarded
  <2>3. scopes \in Seq({ scopes[i] : i \in DOMAIN scopes })
    BY <1>4, <2>1, UserTrees DEF IsOperation
  <2> HIDE DEF tree
  <2>4. \A i \in DOMAIN scopes : Op!PlanScope(tree, scopes[i]) \in Harmless(self)
    BY <1>4, <2>1, <2>2, ScopeIsHarmless
  <2> HIDE DEF scopes
  <2>5. DOMAIN scopes = 1..Len(scopes) /\ Len(scopes) \in Nat
    BY <2>3, LenProperties
  <2>6. deltas \in Seq(Harmless(self))
    BY <2>4, <2>5, SeqDef
  <2>7. <<>> \in Seq(Harmless(self))
    OBVIOUS
  <2> HIDE DEF deltas
  <2> QED BY <1>3, <2>1, <2>6, <2>7
<1>5. call.op = "user" => call.present \/ Passed
    BY <1>1 DEF Guarded
<1> HIDE DEF deltas
<1>6. Spared(call)' = Spared(call) /\ (Passed' <=> Passed)
    BY <1>1 DEF Spared, Passed
<1> QED BY <1>1, <1>3, <1>4, <1>5, <1>6 DEF Guarded, Called

\* What a session may do to the accounts.
Spares == Runs /\ call.op = "user" =>
              \A self \in Spared(call) : self \in device => self \in device'

\* A session keeps the accounts it is to spare, command by command.
LEMMA GuardedSession ==
    ASSUME Users \in Tags, Guarded, RunSession
    PROVE  Guarded' /\ Spares
<1>1. call' = call /\ identity' = identity
    BY DEF RunSession
<1>2. Spared(call)' = Spared(call) /\ (Passed' <=> Passed)
    BY <1>1 DEF Spared, Passed
<1>3. CASE Op!OpenSession
    BY <1>1, <1>2, <1>3 DEF Op!OpenSession, Guarded, Called, Runs, Spares
<1>4. CASE Op!RunScope
  <2>1. UNCHANGED <<device, plan>> /\ phase = "running"
    BY <1>4 DEF Op!RunScope
  <2>2. CASE Op!Closes("rejected")
    BY <1>1, <1>2, <2>1, <2>2 DEF Op!Closes, Guarded, Called, Runs, Spares
  <2>3. CASE ~Op!Closes("rejected")
    <3> DEFINE run == Op!RunDelta(candidate, plan[ran + 1])
    <3>1. run.ok /\ candidate' = run.config /\ ran' = ran + 1 /\ phase' = phase
          /\ ran < Len(plan)
      BY <1>4, <2>3 DEF Op!RunScope
    <3>2. candidate' \subseteq Paths
      BY <3>1, RunsInGrammar DEF Guarded
    <3>3. ASSUME call.op = "user", NEW self \in Spared(call), self \in device
          PROVE  self \in candidate'
      <4>1. plan[ran + 1] \in Harmless(self)
        BY <3>1, <3>3, ElementOfSeq, LenProperties DEF Guarded
      <4>2. self \in Accounts /\ self \in candidate
        BY <2>1, <3>3 DEF Guarded, Spared
      <4> QED BY <3>1, <4>1, <4>2, HarmlessRuns DEF Guarded
    <3>4. call.op = "user" => ran' \in Nat
      BY <3>1 DEF Guarded
    <3> HIDE DEF run
    <3> QED BY <1>1, <1>2, <2>1, <3>1, <3>2, <3>3, <3>4 DEF Guarded, Called, Runs, Spares
  <2> QED BY <2>2, <2>3
<1>5. CASE Op!Commit
  <2>1. UNCHANGED plan /\ phase = "running" /\ phase' # "running"
        /\ candidate' = {} /\ ran' = 0 /\ device' \in {device, candidate}
    BY <1>5 DEF Op!Commit, Op!Closes
  <2> QED BY <1>1, <1>2, <2>1 DEF Guarded, Called, Spares
<1> QED BY <1>3, <1>4, <1>5 DEF RunSession

\* Others do not commit while a session is open, and no call keeps the plan or
\* the identity of the one before.
LEMMA GuardedBetween ==
    ASSUME Guarded, SomebodyCommits \/ CallAgain \/ UNCHANGED vars
    PROVE  Guarded'
<1>1. call' = call /\ Spared(call)' = Spared(call)
    BY DEF SomebodyCommits, CallAgain, vars, Spared
<1>2. CASE SomebodyCommits
  <2>1. device' \subseteq Paths
    BY <1>2, CallAssumption, ConfigsArePaths DEF SomebodyCommits, Guarded, Called
  <2>2. UNCHANGED <<plan, phase, candidate, ran, identity>> /\ phase = "planned"
    BY <1>2 DEF SomebodyCommits
  <2>3. Passed' <=> Passed
    BY <1>1, <2>2 DEF Passed
  <2> QED BY <1>1, <2>1, <2>2, <2>3 DEF Guarded, Called
<1>3. CASE CallAgain
  <2>1. \A self : <<>> \in Seq(Harmless(self))
    OBVIOUS
  <2>2. /\ UNCHANGED <<device, candidate, ran>> /\ phase' = "arguments"
        /\ plan' = <<>> /\ identity' = Unasked
    BY <1>3 DEF CallAgain
  <2> QED BY <1>1, <2>1, <2>2 DEF Guarded, Called
<1>4. CASE UNCHANGED vars
  <2>1. UNCHANGED <<device, plan, phase, candidate, ran, identity>>
    BY <1>4 DEF vars
  <2>2. Passed' <=> Passed
    BY <1>1, <2>1 DEF Passed
  <2> QED BY <1>1, <2>1, <2>2 DEF Guarded, Called
<1> QED BY <1>2, <1>3, <1>4

\* The accounts stay through every step.
LEMMA GuardedStep ==
    ASSUME Users \in Tags, Guarded, [Next]_vars
    PROVE  Guarded' /\ Spares
<1>1. CASE CheckArguments \/ GuardDeletion \/ RenderCall
  <2>1. phase # "running"
    BY <1>1 DEF CheckArguments, GuardDeletion, RenderCall
  <2> QED BY <1>1, <2>1, GuardedBefore DEF Runs, Spares
<1>2. CASE PlanCall
    BY <1>2, GuardedPlan DEF PlanCall, Op!PlanFrom, Runs, Spares
<1>3. CASE RunSession
    BY <1>3, GuardedSession
<1>4. CASE SomebodyCommits \/ CallAgain \/ Finished \/ UNCHANGED vars
    BY <1>4, GuardedBetween DEF SomebodyCommits, CallAgain, Finished, vars, Runs, Spares
<1> QED BY <1>1, <1>2, <1>3, <1>4 DEF Next

\* Where users are instances of a tag, as in the grammar of VyOS, a session of
\* `user` (operations.py) removes no account but the one it is called to delete,
\* and that one only when the device has reported a user and another one: not on
\* a configuration it was not planned for, and whatever its arguments are - also
\* when these are not in terms of the grammar.
THEOREM DeletionsAreGuarded == Spec /\ Users \in Tags => DeletesOnlyOthers
<1> SUFFICES ASSUME Users \in Tags PROVE Spec => DeletesOnlyOthers
    OBVIOUS
<1> DEFINE Keeps == Runs /\ call.op = "user" =>
                        \A path \in Accounts : path \in device \ device' =>
                            /\ ~call.present /\ path = UserPath(call)
                            /\ identity \notin {Unasked, Unknown, call.user}
<1>1. ASSUME Guarded, [Next]_vars PROVE Guarded' /\ Keeps
  <2>1. Guarded' /\ Spares
    BY <1>1, GuardedStep
  <2>2. Runs /\ call.op = "user" => call.present \/ Passed
    BY <1>1 DEF Runs, Guarded
  <2> QED BY <2>1, <2>2 DEF Spares, Spared, Passed
<1>2. Guarded /\ [Next]_vars => Guarded' /\ Keeps
    BY <1>1
<1>3. DeletesOnlyOthers <=> [][Keeps]_vars
    BY DEF DeletesOnlyOthers
<1> HIDE DEF Keeps
<1> QED BY <1>2, <1>3, GuardedInit, PTL DEF Spec

\* So `user` deletes nobody's own account, as far as the device reports nobody but
\* the user the controller is connected as: no privilege transformation, which
\* its docstring excepts.
THEOREM SelfIsKept ==
    Spec /\ Users \in Tags /\ Identities \subseteq {Login, Unknown} => NeverDeletesSelf
<1> SUFFICES ASSUME Users \in Tags, Identities \subseteq {Login, Unknown}
             PROVE  Spec => NeverDeletesSelf
    OBVIOUS
<1> DEFINE self == <<"system", "login", "user", Login>>
           Keeps == Runs /\ call.op = "user" /\ self \in device => self \in device'
<1>1. ASSUME Guarded, [Next]_vars, Runs, call.op = "user", self \in device
      PROVE  self \in device'
  <2>1. self \in Paths /\ self[4] = Login
    BY <1>1 DEF Guarded
  <2>2. self \in Accounts
    BY <2>1, UserHasAccount
  <2>3. call.present \/ call.user # Login
    BY <1>1 DEF Guarded, Passed, Runs
  <2>4. UserPath(call)[4] = call.user
    BY DEF UserPath
  <2> HIDE DEF self
  <2>5. self \in Spared(call)
    BY <2>1, <2>2, <2>3, <2>4 DEF Spared
  <2> QED BY <1>1, <2>5, GuardedStep DEF Spares
<1>2. Guarded /\ [Next]_vars => Guarded' /\ Keeps
    BY <1>1, GuardedStep
<1>3. NeverDeletesSelf <=> [][Keeps]_vars
    BY DEF NeverDeletesSelf
<1> HIDE DEF Keeps
<1> QED BY <1>2, <1>3, GuardedInit, PTL DEF Spec

-----------------------------------------------------------------------------
(* What config operations promise, of typed ones.                           *)

\* The steps of the two instances are the same.
LEMMA SameSteps ==
    /\ Abstract!Init <=> A!Init
    /\ [Abstract!Next]_(Abstract!vars) <=> [A!Next]_(A!vars)
<1>1. Abstract!Init <=> A!Init
    BY SameConfigs DEF Abstract!Init, A!Init
<1>2. UNCHANGED Abstract!vars <=> UNCHANGED A!vars
    BY DEF Abstract!vars, A!vars
<1>3. Abstract!PlanOperation <=> A!PlanOperation
    BY SamePlans, SameConfigs DEF Abstract!PlanOperation, A!PlanOperation, Abstract!PlanFrom, A!PlanFrom,
        Abstract!ConfigurationFact, A!ConfigurationFact
<1>4. Abstract!OpenSession <=> A!OpenSession
    BY DEF Abstract!OpenSession, A!OpenSession
<1>5. Abstract!RunScope <=> A!RunScope
    BY SameRuns DEF Abstract!RunScope, A!RunScope, Abstract!Closes, A!Closes
<1>6. Abstract!Commit <=> A!Commit
    BY DEF Abstract!Commit, A!Commit, Abstract!Closes, A!Closes, Abstract!Complete, A!Complete,
        Abstract!BelowIn, A!BelowIn, Abstract!IsStrictPrefix, A!IsStrictPrefix,
        Abstract!IsPrefix, A!IsPrefix
<1>7. Abstract!SomebodyCommits <=> A!SomebodyCommits
    BY SameConfigs DEF Abstract!SomebodyCommits, A!SomebodyCommits, AnyScopes
<1>8. (Abstract!CallAgain <=> A!CallAgain) /\ (Abstract!Finished <=> A!Finished)
    BY DEF Abstract!CallAgain, A!CallAgain, Abstract!Finished, A!Finished, Abstract!vars, A!vars
<1>9. Abstract!Next <=> A!Next
    BY <1>3, <1>4, <1>5, <1>6, <1>7, <1>8 DEF Abstract!Next, A!Next
<1> QED BY <1>1, <1>2, <1>9

\* A typed operation is a config operation, also the one with the theorems.
LEMMA Implements == Spec => A!Spec
  BY Refinement, SameSteps, PTL
  DEF ImplementsConfigOperation, Abstract!Spec, A!Spec

\* What it is to have ended well is the same.
LEMMA SameEnds ==
    /\ A!AbsentIsAbsent <=> Op!AbsentIsAbsent
    /\ A!ReplaceIsExact <=> Op!ReplaceIsExact
    /\ A!MergeIsPresent <=> Op!MergeIsPresent
    /\ A!PlanIsAccepted <=> Op!PlanIsAccepted
<1>1. A!Ended <=> Op!Ended
    BY DEF A!Ended, Op!Ended, AbstractPhase
<1>2. \A intent : A!Scopes(intent) = Op!Scopes(intent)
    BY DEF A!Scopes, Op!Scopes
<1>3. \A tree : /\ A!Required(tree) = Op!Required(tree)
                /\ A!Allowed(tree) = Op!Allowed(tree)
    BY SameOrder DEF A!Required, Op!Required, A!Allowed, Op!Allowed, A!Bare, Op!Bare,
        A!Present, Op!Present, A!IsStrictPrefix, Op!IsStrictPrefix
<1>4. \A p, q : A!IsPrefix(p, q) <=> Op!IsPrefix(p, q)
    BY SameOrder
<1>5. AbstractPhase = "rejected" <=> phase = "rejected"
    BY DEF AbstractPhase
<1> QED
    BY <1>1, <1>2, <1>3, <1>4, <1>5
    DEF A!AbsentIsAbsent, Op!AbsentIsAbsent, A!ReplaceIsExact, Op!ReplaceIsExact,
        A!MergeIsPresent, Op!MergeIsPresent, A!PlanIsAccepted, Op!PlanIsAccepted

\* To be in terms of the grammar is the same.
LEMMA SamePosed == \A scopes : A!WellPosed(scopes) <=> WellPosed(scopes)
<1>1. \A tree : /\ A!Required(tree) = Required(tree)
                /\ A!Bare(tree) = Bare(tree)
                /\ A!Present(tree) = Present(tree)
    BY SameOrder DEF A!Required, Required, A!Bare, Bare, A!Present, Present,
        A!IsStrictPrefix, IsStrictPrefix
<1>2. \A p, q : /\ A!IsPrefix(p, q) <=> IsPrefix(p, q)
                /\ A!IsStrictPrefix(p, q) <=> IsStrictPrefix(p, q)
                /\ A!Front(p) = Front(p)
    BY SameOrder DEF A!IsStrictPrefix, IsStrictPrefix, A!IsPrefix, IsPrefix
<1>3. A!Leaves = Leaves
    BY DEF A!Leaves, Leaves
<1>4. \A scope : A!HasShape(scope) <=> HasShape(scope)
    BY <1>1, <1>2, <1>3 DEF A!HasShape, HasShape
<1>5. \A scope : A!Holdable(scope) <=> Holdable(scope)
    BY <1>1, <1>2, <1>3 DEF A!Holdable, Holdable
<1>6. ASSUME NEW scopes
      PROVE  A!Compatible(scopes) <=> Compatible(scopes)
  <2> DEFINE asked(j) == {scopes[j].path} \cup
                         IF scopes[j].intent = "merge" THEN Required(scopes[j].node) ELSE {}
             apart(i, j) == i # j /\ scopes[i].intent # "merge" =>
                                \A path \in asked(j) : ~IsPrefix(scopes[i].path, path)
             alike(i, j) == \A v \in scopes[i].node.values, w \in scopes[j].node.values :
                                Front(v) = Front(w) /\ Front(v) \in SingleLeaves => v = w
             all == /\ \A i, j \in DOMAIN scopes : apart(i, j)
                    /\ \A i, j \in { k \in DOMAIN scopes : scopes[k].intent # "absent" } :
                           alike(i, j)
  <2>1. Compatible(scopes) <=> all
    BY Zenon DEF Compatible
  <2>2. A!Compatible(scopes) <=> all
    <3>1. \A tree : A!Required(tree) = Required(tree)
      BY <1>1
    <3>2. \A i, j \in DOMAIN scopes :
              apart(i, j) <=>
              (i # j /\ scopes[i].intent # "merge" =>
                   \A path \in {scopes[j].path} \cup
                               IF scopes[j].intent = "merge" THEN A!Required(scopes[j].node) ELSE {} :
                       ~A!IsPrefix(scopes[i].path, path))
      BY <3>1, <1>2
    <3>3. \A i, j :
              alike(i, j) <=>
              \A v \in scopes[i].node.values, w \in scopes[j].node.values :
                  A!Front(v) = A!Front(w) /\ A!Front(v) \in SingleLeaves => v = w
      BY <1>2
    <3> HIDE DEF apart, alike
    <3> QED
      BY <3>2, <3>3, Zenon DEF A!Compatible
  <2> QED
    BY <2>1, <2>2
<1>7. \A scopes : A!WellPosed(scopes) <=> WellPosed(scopes)
    BY <1>2, <1>3, <1>4, <1>5, <1>6, Zenon DEF A!WellPosed, WellPosed
<1> QED
    BY <1>7

\* The other operators of the theorems are the same, too.
LEMMA SameScopes ==
    /\ \A config : A!Candidate(config) <=> Candidate(config)
    /\ \A s, config : A!Met(s, config) <=> Met(s, config)
    /\ \A s, q : (A!Adds(s, q) <=> Adds(s, q)) /\ (A!Removes(s, q) <=> Removes(s, q))
<1>1. \A tree : A!Required(tree) = Required(tree) /\ A!Allowed(tree) = Allowed(tree)
    BY SameOrder DEF A!Required, Required, A!Allowed, Allowed, A!Bare, Bare, A!Present,
        Present, A!IsStrictPrefix, IsStrictPrefix
<1>2. \A p, q : A!IsStrictPrefix(p, q) <=> IsStrictPrefix(p, q)
    BY SameOrder DEF A!IsStrictPrefix, IsStrictPrefix
<1>3. A!Leaves = Leaves
    BY DEF A!Leaves, Leaves
<1>4. \A s : A!Wanted(s) = Wanted(s)
    BY <1>1 DEF A!Wanted, Wanted
<1>5. \A config : A!Candidate(config) <=> Candidate(config)
    BY DEF A!Candidate, Candidate, A!Prefixes, Prefixes, A!Leaves, Leaves, A!BelowIn, BelowIn,
        A!IsStrictPrefix, IsStrictPrefix, A!IsPrefix, IsPrefix
<1>6. \A s, config : A!Met(s, config) <=> Met(s, config)
    BY <1>1, <1>4, SameOrder DEF A!Met, Met
<1>7. \A s, q : A!Adds(s, q) <=> Adds(s, q)
    BY <1>4, SameOrder DEF A!Adds, Adds
<1>8. \A s, q : A!Removes(s, q) <=> Removes(s, q)
    BY <1>2, <1>3, <1>4, SameOrder DEF A!Removes, Removes
<1> QED BY <1>5, <1>6, <1>7, <1>8

-----------------------------------------------------------------------------
(* What the arguments of a call ask for.                                    *)

\* What any call is rendered to is in terms of the grammar.
LEMMA AskedIsPosed == FittingCalls /\ Called => WellPosed(Asked)
<1> SUFFICES ASSUME FittingCalls, Called PROVE WellPosed(Asked)
    OBVIOUS
<1>1. CASE Rejects(call) \/ Raises(call)
  <2>1. Asked = <<>>
    BY <1>1 DEF Asked, ScopesOf
  <2> DEFINE none == <<>>
  <2>2. DOMAIN none = {}
    OBVIOUS
  <2> HIDE DEF none
  <2>3. WellPosed(none)
    BY <2>2 DEF WellPosed, Compatible
  <2> QED BY <2>1, <2>3 DEF none
<1>2. CASE ~Rejects(call) /\ ~Raises(call)
    BY <1>2, CallsAreFine, CallPosed DEF Called, Asked
<1> QED BY <1>1, <1>2

\* Rendered scopes are in terms of the grammar, and no two are about the same path
\* (_render.py): what the renderers of all typed operations make of arguments that
\* fit can be planned scope by scope against one reading of the configuration.
THEOREM RenderedIsPosed == Spec /\ FittingCalls => []ScopesArePosed
<1> SUFFICES ASSUME FittingCalls PROVE Spec => []ScopesArePosed
    OBVIOUS
<1>1. Called => ScopesArePosed
    BY AskedIsPosed DEF ScopesArePosed
<1>2. Init => Called
    BY InitMaps
<1>3. Called /\ [Next]_vars => Called'
    BY CalledStays
<1> QED BY <1>1, <1>2, <1>3, PTL DEF Spec

\* A call that gets to its plan has been rendered.
Rendered ==
    phase \in {"called", "planned", "running", "noop", "applied", "rejected"} =>
        ~Rejects(call) /\ ~Raises(call)

LEMMA RenderedInit == Init => Rendered
BY DEF Init, Rendered

LEMMA RenderedStep == Rendered /\ [Next]_vars => Rendered'
<1> SUFFICES ASSUME Rendered, [Next]_vars PROVE Rendered'
    OBVIOUS
<1> DEFINE passed == {"called", "planned", "running", "noop", "applied", "rejected"}
<1>1. CASE CheckArguments
  <2>1. phase' \notin passed
    BY <1>1, Zenon DEF CheckArguments
  <2> QED BY <2>1 DEF Rendered
<1>2. CASE GuardDeletion
  <2>1. phase' \notin passed
    BY <1>2, Zenon DEF GuardDeletion
  <2> QED BY <2>1 DEF Rendered
<1>3. CASE RenderCall
  <2>1. PICK version \in Versions :
            phase' = CASE SchemaKey(version) = {} -> "refused"
                       [] OTHER -> IF Raises(call) THEN "crashed"
                                   ELSE IF Rejects(call) THEN "refused" ELSE "called"
    BY <1>3 DEF RenderCall
  <2>2. call' = call
    BY <1>3 DEF RenderCall
  <2>3. phase' \in passed => ~Rejects(call) /\ ~Raises(call)
    BY <2>1
  <2> QED BY <2>2, <2>3 DEF Rendered
<1>4. CASE PlanCall
    BY <1>4 DEF PlanCall, Op!PlanFrom, Rendered
<1>5. CASE RunSession
    BY <1>5 DEF RunSession, Op!OpenSession, Op!RunScope, Op!Commit, Rendered
<1>6. CASE SomebodyCommits \/ CallAgain \/ Finished \/ UNCHANGED vars
    BY <1>6 DEF SomebodyCommits, CallAgain, Finished, vars, Rendered
<1> QED BY <1>1, <1>2, <1>3, <1>4, <1>5, <1>6 DEF Next

\* What is known of a call in every state: it has been rendered when it is
\* planned, and its scopes and its plan are as those of a config operation.
Kept == Called /\ Rendered /\ A!IndInv

LEMMA KeptAlways == Spec /\ FittingCalls => []Kept
<1> SUFFICES ASSUME FittingCalls PROVE Spec => []Kept
    OBVIOUS
<1>0. A!DeviceAssumption /\ A!OperationAssumption
    BY Assumed
<1>1. Init => Called
    BY InitMaps
<1>2. Init => A!WellPosed(Asked)
    BY <1>1, AskedIsPosed, SamePosed
<1>3. Spec => []A!IndInv
    BY <1>0, <1>2, Implements, A!Invariance, PTL DEF Spec
<1> QED BY <1>1, <1>3, CalledStays, RenderedInit, RenderedStep, PTL DEF Spec, Kept

\* Whenever a typed operation (operations.py) ends well, in one of its calls and
\* undisturbed in it, the device is as its arguments say: from the arguments, by
\* renderer, planner and session, to the configuration.
THEOREM ArgumentsAreMet == Spec /\ FittingCalls => []CallIsMet
<1> SUFFICES ASSUME FittingCalls PROVE Spec => []CallIsMet
    OBVIOUS
<1>1. ASSUME Kept, phase \in {"noop", "applied"}, ~stale, ~blind
      PROVE  ArgumentsMet(call, device)
  <2>1. Fine(call) /\ Asked = Render(call)
    BY <1>1, CallsAreFine DEF Kept, Called, Rendered, Asked
  <2>2. A!Ended
    BY <1>1 DEF A!Ended, AbstractPhase
  <2>3. A!AllMet(device) /\ A!Config(device)
    BY <1>1, <2>2 DEF Kept, A!IndInv, A!Over, A!Typed
  <2>4. Candidate(device)
    BY <2>3, SameScopes DEF A!Config
  <2>5. \A i \in DOMAIN Render(call) : Met(Render(call)[i], device)
    BY <2>1, <2>3, SameScopes DEF A!AllMet
  <2> QED BY <2>1, <2>4, <2>5, CallMet
<1>2. Kept => CallIsMet
    BY <1>1 DEF CallIsMet, ArgumentsMet
<1>3. Spec => []Kept
    BY KeptAlways, PTL
<1> QED BY <1>2, <1>3, PTL

\* The session of a typed operation (operations.py) changes what its arguments are
\* about, and no other field of the object, whatever configuration it runs on;
\* of an open body it removes nothing but the former value of a leaf with one value.
THEOREM OnlyOwned == Spec /\ FittingCalls => OnlyOwnedChanges
<1> SUFFICES ASSUME FittingCalls PROVE Spec => OnlyOwnedChanges
    OBVIOUS
<1> DEFINE Owns ==
             Runs =>
                 /\ \A q \in (device \ device') \cup (device' \ device) :
                        \E path \in Owned(call) \cup {ObjectPath(call)} :
                            \/ IsPrefix(q, path)
                            \/ path \in Owned(call) /\ IsPrefix(path, q)
                 /\ "values" \in DOMAIN call.args /\ ~Whole(call) =>
                        \A q \in device \ device' :
                            (\E path \in Area(call, "values") : IsPrefix(path, q)) =>
                                Front(q) \in SingleLeaves
<1>1. ASSUME Kept, Kept', [Next]_vars, Runs PROVE Owns
  <2>1. Fine(call) /\ Asked = Render(call)
    BY <1>1, CallsAreFine DEF Kept, Called, Rendered, Asked, Runs
  <2>2. [A!Next]_(A!vars) /\ A!Runs
    BY <1>1, NextMaps, SameSteps DEF Kept, Runs, A!Runs, AbstractPhase
  <2>3. /\ \A q \in device' \ device : \E i \in DOMAIN Asked : A!Adds(Asked[i], q)
        /\ \A q \in device \ device' : \E i \in DOMAIN Asked : A!Removes(Asked[i], q)
    BY <1>1, <2>2, A!RunsCommit, Assumed DEF Kept
  <2>4. Candidate(device) /\ Candidate(device')
    BY <1>1, SameScopes DEF Kept, A!IndInv, A!Typed, A!Config
  <2>5. device \cup device' \subseteq Words \ {<<>>}
    BY <2>4, CandidateIs, Grammar
  <2>6. ASSUME NEW q \in (device \ device') \cup (device' \ device)
        PROVE  About(call, q)
    BY <2>1, <2>3, <2>5, <2>6, SameScopes, CallOwns
  <2>7. ASSUME "values" \in DOMAIN call.args, ~Whole(call), NEW q \in device \ device',
               NEW path \in Area(call, "values"), IsPrefix(path, q)
        PROVE  Front(q) \in SingleLeaves
    BY <2>1, <2>3, <2>5, <2>7, SameScopes, CallOwns
  <2> QED BY <2>6, <2>7 DEF About
<1>2. Kept /\ Kept' /\ [Next]_vars => Owns
    BY <1>1
<1>3. OnlyOwnedChanges <=> [][Owns]_vars
    BY DEF OnlyOwnedChanges
<1>4. Spec => []Kept
    BY KeptAlways, PTL
<1> HIDE DEF Owns
<1> QED BY <1>2, <1>3, <1>4, PTL DEF Spec

-----------------------------------------------------------------------------
(* What config operations promise, of typed ones.                           *)

\* What a typed operation is rendered to it reaches (operations.py): when it ends
\* well what should be absent is, what it owns is exact and what it merges is
\* there - for all its scopes, though each was planned against the configuration
\* before any of them.
THEOREM ScopesAreReached ==
    Spec /\ FittingCalls => [](Op!AbsentIsAbsent /\ Op!ReplaceIsExact /\ Op!MergeIsPresent)
<1> SUFFICES ASSUME FittingCalls
             PROVE  Spec => [](Op!AbsentIsAbsent /\ Op!ReplaceIsExact /\ Op!MergeIsPresent)
    OBVIOUS
<1>0. A!DeviceAssumption /\ A!OperationAssumption
    BY Assumed
<1>1. Init => A!WellPosed(Asked)
    BY InitMaps, AskedIsPosed, SamePosed
<1> QED
    BY <1>0, <1>1, Implements, SameEnds, A!AbsentReached, A!ExactReached, A!MergeReached,
       PTL DEF Spec

\* The device rejects no plan of a typed operation that was made for the
\* configuration it has.
THEOREM PlansAreAccepted == Spec /\ FittingCalls => []Op!PlanIsAccepted
<1> SUFFICES ASSUME FittingCalls PROVE Spec => []Op!PlanIsAccepted
    OBVIOUS
<1>0. A!DeviceAssumption /\ A!OperationAssumption
    BY Assumed
<1>1. Init => A!WellPosed(Asked)
    BY InitMaps, AskedIsPosed, SamePosed
<1> QED
    BY <1>0, <1>1, Implements, SameEnds, A!PlansAreAccepted, PTL DEF Spec

\* No session of a typed operation leaves the paths it was rendered to, whatever
\* configuration it runs on.
THEOREM SessionsStayInScope == Spec /\ FittingCalls => A!StaysInScope
<1> SUFFICES ASSUME FittingCalls PROVE Spec => A!StaysInScope
    OBVIOUS
<1>0. A!DeviceAssumption /\ A!OperationAssumption
    BY Assumed
<1>1. Init => A!WellPosed(Asked)
    BY InitMaps, AskedIsPosed, SamePosed
<1> QED
    BY <1>0, <1>1, Implements, A!SessionsStayInScope, PTL DEF Spec

=============================================================================
