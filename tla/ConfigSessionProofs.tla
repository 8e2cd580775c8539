------------------------ MODULE ConfigSessionProofs ------------------------
(* What ConfigSession promises, whatever the runs, the requests and the     *)
(* faults: IndInv is an invariant, and the properties follow from it.       *)
(*                                                                         *)
(* A step of a run replaces its state by another one, and may write to the  *)
(* device on the run's account.  StepInv reduces the invariant to three     *)
(* facts about that one state, which every action then shows for its own.   *)
EXTENDS ConfigSessionInv, TLAPS

-----------------------------------------------------------------------------
(* Facts about the pieces.                                                  *)

\* Every stage the actions name is one.
LEMMA StageNames ==
    /\ Sending \cup Body \cup Ending \subseteq Stages
    /\ {"idle", "done", "failed"} \subseteq Stages
    /\ {"probe", "mkdir", "putConfig", "guard", "putScript", "chmod", "exec",
        "configure", "apply", "gate", "commit", "post", "need", "save",
        "recheck", "emit", "teardown", "remove", "outer"} \subseteq Stages
  BY DEF Stages, InFlight, Sending, Body, Ending

\* Configurations are closed under what a session does to them.
LEMMA ConfigClosed ==
    ASSUME NEW a \in Configs, NEW b
    PROVE  /\ a \ b \in Configs
           /\ a \cap b \in Configs
           /\ b \in Configs => a \cup b \in Configs
  BY DEF Configs

\* Two states that differ in their stage only.
SameButStage(t, s) ==
    /\ t.op = s.op /\ t.link = s.link /\ t.staged = s.staged
    /\ t.uploaded = s.uploaded /\ t.inSession = s.inSession
    /\ t.del = s.del /\ t.add = s.add /\ t.next = s.next
    /\ t.didCommit = s.didCommit /\ t.didSave = s.didSave
    /\ t.cleanupFailed = s.cleanupFailed /\ t.sentinel = s.sentinel
    /\ t.base = s.base /\ t.effects = s.effects /\ t.blind = s.blind

\* Going to another stage changes nothing else.
LEMMA GotoFields ==
    ASSUME TypeOK, NEW r \in Runs, NEW stage \in Stages
    PROVE  /\ Goto(r, stage) \in RunState
           /\ Goto(r, stage).pc = stage
           /\ Goto(r, stage).rc = run[r].rc
           /\ SameButStage(Goto(r, stage), run[r])
  BY DEF TypeOK, Goto, RunState, SameButStage

\* Ending with exit code 1 changes the stage and the code.
LEMMA Exit1Fields ==
    ASSUME TypeOK, NEW r \in Runs
    PROVE  /\ Exit1(r) \in RunState
           /\ Exit1(r).pc = "teardown"
           /\ Exit1(r).rc = 1
           /\ SameButStage(Exit1(r), run[r])
  <1>1. run[r] \in RunState /\ "teardown" \in Stages
    BY StageNames DEF TypeOK
  <1> QED
    BY <1>1 DEF Exit1, RunState, SameButStage

\* The target depends on the request, the upload and the base alone.
LEMMA TargetFields ==
    ASSUME NEW s, NEW t, t.op = s.op, t.uploaded = s.uploaded, t.base = s.base
    PROVE  Target(t) = Target(s) /\ \A k : TargetUpTo(t, k) = TargetUpTo(s, k)
  <1>1. \A k : TargetUpTo(t, k) = TargetUpTo(s, k)
    BY DEF TargetUpTo, Covers
  <1> QED
    BY <1>1 DEF Target

\* Counting on, and the position behind one that is not the last.
LEMMA Counting ==
    \A m \in Nat : /\ m + 1 \in Nat
                    /\ \A j \in 1 .. m : j \in Nat /\ (j # m => j + 1 \in 1 .. m)
OBVIOUS

\* What a command script has to run.
LEMMA CommandList ==
    ASSUME NEW s \in RunState, s.op.kind = "commands"
    PROVE  /\ s.op \in Requests
           /\ Len(s.op.cmds) \in Nat
           /\ DOMAIN s.op.cmds = 1 .. Len(s.op.cmds)
           /\ \A k \in DOMAIN s.op.cmds :
                 /\ s.op.cmds[k] \in Command
                 /\ s.op.cmds[k].nodes \subseteq Nodes
  <1>1. s.op \in Requests
    BY DEF RunState, NoRequest
  <1>2. s.op.cmds \in Seq(Command)
    BY <1>1, SessionAssumption
  <1>3. \A c \in Command : c.nodes \subseteq Nodes
    BY DEF Command
  <1> QED
    BY <1>1, <1>2, <1>3

\* No command has been applied at first.
LEMMA TargetStart ==
    ASSUME NEW s \in RunState, s.op.kind = "commands"
    PROVE  TargetUpTo(s, 1) = s.base
  <1>1. DOMAIN s.op.cmds \subseteq Nat \ {0} /\ s.base \subseteq Nodes
    BY SessionAssumption DEF RunState, NoRequest, Configs
  <1>2. \A i \in DOMAIN s.op.cmds : ~(i < 1)
    BY <1>1
  <1> QED
    BY <1>1, <1>2 DEF TargetUpTo

\* The next command decides the nodes it covers, and no others.
LEMMA TargetStep ==
    ASSUME NEW s \in RunState, s.op.kind = "commands",
           NEW k \in DOMAIN s.op.cmds
    PROVE  TargetUpTo(s, k + 1) =
               IF s.op.cmds[k].verb = "set"
               THEN TargetUpTo(s, k) \cup s.op.cmds[k].nodes
               ELSE TargetUpTo(s, k) \ s.op.cmds[k].nodes
  <1> DEFINE D == DOMAIN s.op.cmds
             c == s.op.cmds[k]
  <1>1. D \subseteq Nat /\ k \in Nat /\ c.nodes \subseteq Nodes
    BY CommandList
  <1>2. ASSUME NEW i \in D
        PROVE  i < k + 1 <=> i < k \/ i = k
    BY <1>1, <1>2
  <1>3. ASSUME NEW n \in Nodes, n \in c.nodes
        PROVE  n \in TargetUpTo(s, k + 1) <=> c.verb = "set"
    <2>1. Covers(s, k, n) /\ k < k + 1
      BY <1>1, <1>3 DEF Covers
    <2>2. \A j \in D : ~(k < j /\ j < k + 1)
      BY <1>1
    <2>3. \A i \in D : i < k + 1 /\ i # k => i < k
      BY <1>2
    <2> QED
      BY <1>1, <2>1, <2>2, <2>3 DEF TargetUpTo
  <1>4. ASSUME NEW n \in Nodes, n \notin c.nodes
        PROVE  n \in TargetUpTo(s, k + 1) <=> n \in TargetUpTo(s, k)
    <2>1. ~Covers(s, k, n)
      BY <1>4 DEF Covers
    <2> QED
      BY <1>2, <2>1 DEF TargetUpTo
  <1>5. TargetUpTo(s, k) \subseteq Nodes /\ TargetUpTo(s, k + 1) \subseteq Nodes
    BY DEF TargetUpTo
  <1> QED
    BY <1>1, <1>3, <1>4, <1>5

-----------------------------------------------------------------------------
(* One step, one run.                                                       *)

\* Before its session is open a run is settled on any device.
LEMMA PristineSettled ==
    ASSUME NEW s, Pristine(s), s.pc \in NotYetOpen, NEW a, NEW b
    PROVE  Settled(s, a, b)
  <1>1. s.pc \notin {"apply", "gate", "commit", "post", "need", "save", "recheck", "emit"}
    BY DEF NotYetOpen, Sending
  <1> QED
    BY <1>1 DEF Pristine, Settled, Exact, Durable, Real, Body, NotYetOpen, Sending

\* Leaving the device alone is writing to it what it holds.
LEMMA NoWrite ==
    ASSUME TypeOK, NEW authors, DeviceUnchanged
    PROVE  DeviceWrite(authors, active, boot)
  BY DEF TypeOK, DeviceUnchanged, DeviceWrite

\* The invariant is kept by a step that gives one run a good state and writes
\* to the device on account of that run.
LEMMA StepInv ==
    ASSUME IndInv, NEW r \in Runs, NEW s \in RunState, Local(s), Become(r, s),
           NEW a \in Configs, NEW b \in Configs, DeviceWrite({r}, a, b),
           ~disturbed[r] => Settled(s, a, b)
    PROVE  IndInv'
  <1>1. TypeOK'
    BY DEF IndInv, TypeOK, Become, DeviceWrite
  <1>2. \A q \in Runs : Local(run'[q])
    BY DEF IndInv, TypeOK, Become
  <1>3. ASSUME NEW q \in Runs, ~disturbed'[q]
        PROVE  Settled(run'[q], a, b)
    <2>1. CASE q = r
      BY <1>3, <2>1 DEF IndInv, TypeOK, Become, DeviceWrite
    <2>2. CASE q # r
      <3>1. run'[q] = run[q] /\ ~disturbed[q]
        BY <1>3, <2>2 DEF IndInv, TypeOK, Become, DeviceWrite
      <3>2. run[q].pc \in NotYetOpen \/ (a = active /\ b = boot)
        BY <1>3, <2>2 DEF DeviceWrite
      <3>3. Pristine(run[q]) /\ Settled(run[q], active, boot)
        BY <3>1 DEF IndInv, Local
      <3> QED
        BY <3>1, <3>2, <3>3, PristineSettled
    <2> QED
      BY <2>1, <2>2
  <1> QED
    BY <1>1, <1>2, <1>3 DEF IndInv, DeviceWrite

\* The same for a step that leaves the device alone.
LEMMA QuietInv ==
    ASSUME IndInv, NEW r \in Runs, NEW s \in RunState, Local(s), Become(r, s),
           DeviceUnchanged, ~disturbed[r] => Settled(s, active, boot)
    PROVE  IndInv'
  BY StepInv, NoWrite DEF IndInv, TypeOK

\* A body that gives up keeps the invariant.
LEMMA Exit1Inv ==
    ASSUME IndInv, NEW r \in Runs, run[r].pc \in Body \ {"configure"},
           Become(r, Exit1(r)), DeviceUnchanged
    PROVE  IndInv'
  <1> DEFINE t == Exit1(r)
  <1>1. /\ t \in RunState /\ t.pc = "teardown" /\ t.rc = 1
        /\ SameButStage(t, run[r])
    BY Exit1Fields DEF IndInv
  <1> HIDE DEF t
  <1>2. Local(run[r]) /\ (~disturbed[r] => Settled(run[r], active, boot))
    BY DEF IndInv
  <1>3. Local(t)
    BY <1>1, <1>2 DEF SameButStage, Local, Pristine, InBounds, Running, Accounted,
       Reported, TidiedUp, Guarded, Disjoint, NotYetOpen, Sending, Body, Ending
  <1>4. ~disturbed[r] => Settled(t, active, boot)
    <2>1. Target(t) = Target(run[r])
      BY <1>1, TargetFields DEF SameButStage
    <2> QED
      BY <1>1, <1>2, <2>1 DEF SameButStage, Settled, Exact, Durable, Real,
         MustSave, Body, Local, Running
  <1> QED
    BY <1>1, <1>3, <1>4, QuietInv DEF t

-----------------------------------------------------------------------------
(* The controller's commands.                                               *)

\* A run that has not opened its session may take any state that is as
\* pristine as its own.
LEMMA SendingInv ==
    ASSUME IndInv, NEW r \in Runs, run[r].pc \in NotYetOpen,
           NEW s \in RunState, Become(r, s), DeviceUnchanged,
           s.pc \in NotYetOpen \cup {"failed"},
           s.pc = "idle" => s.op = NoRequest,
           s.op.kind = "commands" => s.op \in Requests,
           s.op.kind = "load" /\ s.pc \in {"putScript", "chmod", "exec", "configure"}
               => s.uploaded # {},
           s.next = run[r].next, s.rc = run[r].rc, s.effects = run[r].effects,
           s.blind = run[r].blind, s.sentinel = run[r].sentinel,
           s.didCommit = run[r].didCommit, s.didSave = run[r].didSave,
           s.cleanupFailed = run[r].cleanupFailed,
           s.del = run[r].del, s.add = run[r].add
    PROVE  IndInv'
  <1>1. Local(run[r])
    BY DEF IndInv
  <1>2. Pristine(s) /\ Disjoint(s) /\ Running(s) /\ Guarded(s)
    BY <1>1 DEF Local, Pristine, Disjoint, Running, Guarded, NotYetOpen, Sending, Body
  <1>3. InBounds(s)
    <2>1. s.op.kind = "commands" => 1 \in DOMAIN s.op.cmds
      BY SessionAssumption
    <2> QED
      BY <1>1, <2>1 DEF InBounds, Local, Pristine
  <1>4. Accounted(s) /\ Reported(s) /\ TidiedUp(s)
    BY <1>1, <1>2 DEF Local, Pristine, Accounted, Reported, TidiedUp,
       NotYetOpen, Sending, Body, Ending
  <1>5. Local(s)
    BY <1>2, <1>3, <1>4 DEF Local
  <1>6. Settled(s, active, boot)
    <2>1. CASE s.pc \in NotYetOpen
      BY <1>2, <2>1, PristineSettled
    <2>2. CASE s.pc = "failed"
      BY <1>1, <2>2 DEF Local, Pristine, Settled, Exact, Durable, Real, Body
    <2> QED
      BY <2>1, <2>2
  <1> QED
    BY <1>5, <1>6, QuietInv

\* A command that fails while the script is not running yet.
LEMMA SendFailsInv ==
    ASSUME IndInv, NEW r \in Runs, run[r].pc \in NotYetOpen \ {"idle"},
           Become(r, Goto(r, "failed")), DeviceUnchanged
    PROVE  IndInv'
  <1> DEFINE t == Goto(r, "failed")
  <1>1. /\ t \in RunState /\ t.pc = "failed" /\ t.rc = run[r].rc
        /\ SameButStage(t, run[r])
    BY GotoFields, StageNames DEF IndInv
  <1> HIDE DEF t
  <1>2. t.op.kind = "commands" => t.op \in Requests
    BY <1>1 DEF RunState, NoRequest
  <1> QED
    BY <1>1, <1>2, SendingInv DEF SameButStage, t

\* A run that begins has been given a request and nothing else.
LEMMA BeginInv ==
    ASSUME IndInv, NEW r \in Runs, Begin(r)
    PROVE  IndInv'
  <1> PICK request \in Requests :
          Become(r, [Goto(r, "probe") EXCEPT !.op = request])
    BY DEF Begin
  <1> DEFINE t == [Goto(r, "probe") EXCEPT !.op = request]
  <1>1. /\ Goto(r, "probe") \in RunState /\ Goto(r, "probe").pc = "probe"
        /\ Goto(r, "probe").rc = run[r].rc
        /\ SameButStage(Goto(r, "probe"), run[r])
    BY GotoFields, StageNames DEF IndInv
  <1>2. t \in RunState /\ t.op = request /\ t.pc = "probe" /\ t.rc = run[r].rc
    BY <1>1 DEF RunState
  <1>3. /\ t.next = run[r].next /\ t.effects = run[r].effects
        /\ t.blind = run[r].blind /\ t.sentinel = run[r].sentinel
        /\ t.didCommit = run[r].didCommit /\ t.didSave = run[r].didSave
        /\ t.cleanupFailed = run[r].cleanupFailed
        /\ t.del = run[r].del /\ t.add = run[r].add
    BY <1>1 DEF RunState, SameButStage
  <1> HIDE DEF t
  <1>4. run[r].pc \in NotYetOpen /\ t.pc \in NotYetOpen
    BY <1>2 DEF Begin, At, NotYetOpen, Sending
  <1>5. DeviceUnchanged
    BY DEF Begin
  <1> QED
    BY <1>2, <1>3, <1>4, <1>5, SendingInv DEF t

\* A command that is sent ends in the state it leads to, or fails.
LEMMA SendInv ==
    ASSUME IndInv, NEW r \in Runs, NEW stage, stage \in NotYetOpen \ {"idle"},
           NEW sent \in RunState, Send(r, stage, sent),
           sent.pc \in (NotYetOpen \ {"idle"}) \cup {"failed"},
           sent.op = run[r].op,
           sent.op.kind = "load" /\ sent.pc \in {"putScript", "chmod", "exec", "configure"}
               => sent.uploaded # {},
           sent.next = run[r].next, sent.rc = run[r].rc,
           sent.effects = run[r].effects, sent.blind = run[r].blind,
           sent.sentinel = run[r].sentinel,
           sent.didCommit = run[r].didCommit, sent.didSave = run[r].didSave,
           sent.cleanupFailed = run[r].cleanupFailed,
           sent.del = run[r].del, sent.add = run[r].add
    PROVE  IndInv'
  <1>1. run[r].pc \in NotYetOpen \ {"idle"} /\ DeviceUnchanged
    BY DEF Send, At
  <1>2. CASE Become(r, sent)
    <2>1. sent.op.kind = "commands" => sent.op \in Requests
      BY DEF RunState, NoRequest
    <2>2. sent.pc # "idle"
      OBVIOUS
    <2> QED
      BY <1>1, <1>2, <2>1, <2>2, SendingInv
  <1>3. CASE Become(r, Goto(r, "failed"))
    BY <1>1, <1>3, SendFailsInv
  <1> QED
    BY <1>2, <1>3 DEF Send

\* What the controller sends keeps the invariant, whether it works or not.
LEMMA SendStepInv ==
    ASSUME IndInv, NEW r \in Runs, SendStep(r)
    PROVE  IndInv'
  <1> USE StageNames DEF NotYetOpen, Sending
  <1>0. run[r] \in RunState /\ Guarded(run[r]) /\ TypeOK
    BY DEF IndInv, TypeOK, Local
  <1>a. ASSUME NEW stage \in Stages
        PROVE  /\ Goto(r, stage) \in RunState
               /\ Goto(r, stage).pc = stage
               /\ Goto(r, stage).rc = run[r].rc
               /\ SameButStage(Goto(r, stage), run[r])
    BY <1>0, GotoFields
  <1>1. CASE Probe(r)
    <2> DEFINE t == Goto(r, "mkdir")
    <2>1. /\ t \in RunState /\ t.pc = "mkdir" /\ t.rc = run[r].rc
          /\ SameButStage(t, run[r])
      BY <1>a
    <2> HIDE DEF t
    <2>2. Send(r, "probe", t)
      BY <1>1 DEF Probe, t
    <2> QED
      BY <2>1, <2>2, SendInv DEF SameButStage
  <1>2. CASE MakeStaging(r)
    <2> DEFINE to == IF run[r].op.kind = "load" THEN "putConfig" ELSE "putScript"
               g == Goto(r, to)
               t == [g EXCEPT !.staged = {"dir"}]
    <2>1. to \in Stages /\ (run[r].op.kind = "load" => to = "putConfig")
          /\ to \in {"putConfig", "putScript"}
      OBVIOUS
    <2>2. g \in RunState /\ g.pc = to /\ g.rc = run[r].rc /\ SameButStage(g, run[r])
      BY <1>a, <2>1
    <2>3. Send(r, "mkdir", t)
      BY <1>2 DEF MakeStaging
    <2> HIDE DEF to, g
    <2>4. /\ t \in RunState /\ t.pc = to /\ t.rc = run[r].rc /\ t.op = run[r].op
          /\ t.next = run[r].next /\ t.effects = run[r].effects
          /\ t.blind = run[r].blind /\ t.sentinel = run[r].sentinel
          /\ t.didCommit = run[r].didCommit /\ t.didSave = run[r].didSave
          /\ t.cleanupFailed = run[r].cleanupFailed
          /\ t.del = run[r].del /\ t.add = run[r].add
      BY <2>2 DEF RunState, SameButStage
    <2> HIDE DEF t
    <2> QED
      BY <2>1, <2>3, <2>4, SendInv
  <1>3. CASE PutConfig(r)
    <2> PICK content \in {run[r].op.file} \cup {blank \in {{}} : May("source")} :
            Send(r, "putConfig",
                 [ Goto(r, "guard") EXCEPT !.staged = @ \cup {"config"},
                                           !.uploaded = content ])
      BY <1>3 DEF PutConfig
    <2> DEFINE g == Goto(r, "guard")
               t == [g EXCEPT !.staged = @ \cup {"config"}, !.uploaded = content]
    <2>1. content \in Configs
      BY <1>0, SessionAssumption DEF Configs, RunState, NoRequest
    <2>2. g \in RunState /\ g.pc = "guard" /\ g.rc = run[r].rc /\ SameButStage(g, run[r])
      BY <1>a
    <2>3. Send(r, "putConfig", t)
      OBVIOUS
    <2> HIDE DEF g
    <2>4. /\ t \in RunState /\ t.pc = "guard" /\ t.rc = run[r].rc /\ t.op = run[r].op
          /\ t.next = run[r].next /\ t.effects = run[r].effects
          /\ t.blind = run[r].blind /\ t.sentinel = run[r].sentinel
          /\ t.didCommit = run[r].didCommit /\ t.didSave = run[r].didSave
          /\ t.cleanupFailed = run[r].cleanupFailed
          /\ t.del = run[r].del /\ t.add = run[r].add
      BY <2>1, <2>2 DEF RunState, SameButStage
    <2> HIDE DEF t
    <2> QED
      BY <2>3, <2>4, SendInv
  <1>4. CASE GuardConfig(r)
    <2> DEFINE to == IF run[r].uploaded = {} THEN "failed" ELSE "putScript"
               t == Goto(r, to)
    <2>1. to \in {"failed", "putScript"} /\ (to = "putScript" => run[r].uploaded # {})
      OBVIOUS
    <2>2. t \in RunState /\ t.pc = to /\ t.rc = run[r].rc /\ SameButStage(t, run[r])
      BY <1>a, <2>1
    <2>3. Send(r, "guard", t)
      BY <1>4 DEF GuardConfig
    <2> HIDE DEF to, t
    <2> QED
      BY <2>1, <2>2, <2>3, SendInv DEF SameButStage
  <1>5. CASE PutScript(r)
    <2> DEFINE g == Goto(r, "chmod")
               t == [g EXCEPT !.staged = @ \cup {"script"}]
    <2>1. g \in RunState /\ g.pc = "chmod" /\ g.rc = run[r].rc /\ SameButStage(g, run[r])
      BY <1>a
    <2>2. Send(r, "putScript", t)
      BY <1>5 DEF PutScript
    <2> HIDE DEF g
    <2>3. /\ t \in RunState /\ t.pc = "chmod" /\ t.rc = run[r].rc /\ t.op = run[r].op
          /\ t.next = run[r].next /\ t.effects = run[r].effects
          /\ t.blind = run[r].blind /\ t.sentinel = run[r].sentinel
          /\ t.didCommit = run[r].didCommit /\ t.didSave = run[r].didSave
          /\ t.cleanupFailed = run[r].cleanupFailed
          /\ t.del = run[r].del /\ t.add = run[r].add
          /\ t.uploaded = run[r].uploaded
      BY <2>1 DEF RunState, SameButStage
    <2> HIDE DEF t
    <2>4. t.op.kind = "load" => t.uploaded # {}
      BY <1>0, <2>2, <2>3 DEF Guarded, Send, At
    <2> QED
      BY <2>2, <2>3, <2>4, SendInv
  <1>6. CASE ChmodScript(r)
    <2> DEFINE t == Goto(r, "exec")
    <2>1. /\ t \in RunState /\ t.pc = "exec" /\ t.rc = run[r].rc
          /\ SameButStage(t, run[r])
      BY <1>a
    <2> HIDE DEF t
    <2>2. Send(r, "chmod", t)
      BY <1>6 DEF ChmodScript, t
    <2>3. t.op.kind = "load" => t.uploaded # {}
      BY <1>0, <2>1, <2>2 DEF Guarded, Send, At, SameButStage
    <2> QED
      BY <2>1, <2>2, <2>3, SendInv DEF SameButStage
  <1>7. CASE ExecScript(r)
    <2>0. run[r].pc = "exec" /\ DeviceUnchanged /\ Local(run[r])
      BY <1>7 DEF ExecScript, At, IndInv
    <2>1. CASE Become(r, Goto(r, "configure"))
      <3> DEFINE t == Goto(r, "configure")
      <3>1. /\ t \in RunState /\ t.pc = "configure" /\ t.rc = run[r].rc
            /\ SameButStage(t, run[r])
        BY <1>a
      <3> HIDE DEF t
      <3>2. t.op.kind = "load" => t.uploaded # {}
        BY <1>0, <2>0, <3>1 DEF Guarded, SameButStage
      <3>3. t.op.kind = "commands" => t.op \in Requests
        BY <3>1 DEF RunState, NoRequest
      <3> QED
        BY <2>0, <2>1, <3>1, <3>2, <3>3, SendingInv DEF SameButStage, t
    <2>2. CASE Become(r, [Goto(r, "outer") EXCEPT !.rc = 1])
      <3> DEFINE g == Goto(r, "outer")
                 t == [g EXCEPT !.rc = 1]
      <3>1. g \in RunState /\ g.pc = "outer" /\ SameButStage(g, run[r])
        BY <1>a
      <3>2. Become(r, t)
        BY <2>2
      <3> HIDE DEF g
      <3>3. t \in RunState /\ t.pc = "outer" /\ t.rc = 1 /\ SameButStage(t, run[r])
        BY <3>1 DEF RunState, SameButStage
      <3> HIDE DEF t
      <3>4. Local(t)
        BY <2>0, <3>3 DEF SameButStage, Local, Pristine, InBounds, Running,
           Accounted, Reported, TidiedUp, Guarded, Disjoint, Body
      <3>5. Settled(t, active, boot)
        BY <2>0, <3>3 DEF SameButStage, Local, Pristine, Settled, Exact, Durable,
           Real, Body
      <3> QED
        BY <2>0, <3>2, <3>3, <3>4, <3>5, QuietInv
    <2> QED
      BY <1>7, <2>1, <2>2 DEF ExecScript
  <1> QED
    BY <1>1, <1>2, <1>3, <1>4, <1>5, <1>6, <1>7 DEF SendStep

-----------------------------------------------------------------------------
(* The body of the script, one lemma for each of its steps.                 *)

\* The session starts from the active configuration, or the script ends.
LEMMA ConfigureInv ==
    ASSUME IndInv, NEW r \in Runs, Configure(r)
    PROVE  IndInv'
  <1> USE StageNames
  <1>0. /\ TypeOK /\ run[r] \in RunState /\ run[r].pc = "configure" /\ DeviceUnchanged
        /\ Local(run[r]) /\ active \in Configs
    BY DEF IndInv, TypeOK, Configure, At
  <1>p. Pristine(run[r]) /\ run[r].pc \in NotYetOpen
    BY <1>0 DEF Local, NotYetOpen
  <1>1. CASE Become(r, [ Goto(r, IF run[r].op.kind = "save" THEN "need" ELSE "apply")
                         EXCEPT !.inSession = TRUE, !.base = active ])
    <2> DEFINE to == IF run[r].op.kind = "save" THEN "need" ELSE "apply"
               g == Goto(r, to)
               t == [g EXCEPT !.inSession = TRUE, !.base = active]
    <2>1. /\ to \in {"need", "apply"} /\ to \in Stages
          /\ to = "need" <=> run[r].op.kind = "save"
      OBVIOUS
    <2>2. g \in RunState /\ g.pc = to /\ g.rc = run[r].rc /\ SameButStage(g, run[r])
      BY <1>0, <2>1, GotoFields
    <2>3. Become(r, t)
      BY <1>1
    <2> HIDE DEF to, g
    <2>4. /\ t \in RunState /\ t.pc = to /\ t.rc = run[r].rc /\ t.base = active
          /\ t.op = run[r].op /\ t.uploaded = run[r].uploaded /\ t.next = run[r].next
          /\ t.effects = run[r].effects /\ t.blind = run[r].blind
          /\ t.sentinel = run[r].sentinel /\ t.didCommit = run[r].didCommit
          /\ t.didSave = run[r].didSave /\ t.cleanupFailed = run[r].cleanupFailed
          /\ t.del = run[r].del /\ t.add = run[r].add
      BY <1>0, <2>2 DEF RunState, SameButStage
    <2> HIDE DEF t
    <2>5. Local(t)
      BY <1>0, <1>p, <2>1, <2>4 DEF Local, Pristine, InBounds, Running, Accounted,
         Reported, TidiedUp, Guarded, Disjoint, NotYetOpen, Sending, Body, Ending
    <2>6. Exact(t, active, boot)
      <3>1. Candidate(t, active) = active
        BY <1>p, <2>4 DEF Candidate, Pristine
      <3>2. t.op.kind = "commands" => TargetUpTo(t, t.next) = active
        BY <1>p, <2>4, TargetStart DEF Pristine
      <3>3. t.pc = "need" => Target(t) = active
        BY <2>1, <2>4 DEF Target
      <3> QED
        BY <1>p, <2>1, <2>4, <3>1, <3>2, <3>3 DEF Exact, Pristine
    <2>7. t.pc = "need" => MustSave(t)
      <3>1. t.op.kind = "save" => t.op.save
        BY <2>4, SessionAssumption DEF RunState, NoRequest
      <3> QED
        BY <2>1, <2>4, <3>1 DEF MustSave
    <2>8. Settled(t, active, boot)
      BY <1>p, <2>1, <2>4, <2>6, <2>7 DEF Pristine, Settled, Durable, Real, Body
    <2> QED
      BY <1>0, <2>3, <2>4, <2>5, <2>8, QuietInv
  <1>2. CASE Become(r, [Exit1(r) EXCEPT !.base = active])
    <2> DEFINE g == Exit1(r)
               t == [g EXCEPT !.base = active]
    <2>1. /\ g \in RunState /\ g.pc = "teardown" /\ g.rc = 1 /\ SameButStage(g, run[r])
      BY <1>0, Exit1Fields
    <2>2. Become(r, t)
      BY <1>2
    <2> HIDE DEF g
    <2>3. /\ t \in RunState /\ t.pc = "teardown" /\ t.rc = 1
          /\ t.op = run[r].op /\ t.effects = run[r].effects
          /\ t.sentinel = run[r].sentinel /\ t.cleanupFailed = run[r].cleanupFailed
          /\ t.del = run[r].del /\ t.add = run[r].add
      BY <1>0, <2>1 DEF RunState, SameButStage
    <2> HIDE DEF t
    <2>4. Local(t)
      BY <1>0, <1>p, <2>3 DEF Local, Pristine, InBounds, Running, Accounted,
         Reported, TidiedUp, Guarded, Disjoint, NotYetOpen, Sending, Body, Ending
    <2>5. Settled(t, active, boot)
      BY <1>p, <2>3 DEF Pristine, Settled, Exact, Durable, Real, Body
    <2> QED
      BY <1>0, <2>2, <2>3, <2>4, <2>5, QuietInv
  <1> QED
    BY <1>1, <1>2 DEF Configure

\* load makes the candidate what the file says, or part of it, or ends the script.
LEMMA LoadConfigInv ==
    ASSUME IndInv, NEW r \in Runs, LoadConfig(r)
    PROVE  IndInv'
  <1>0. /\ TypeOK /\ run[r] \in RunState /\ run[r].pc = "apply" /\ DeviceUnchanged
        /\ Local(run[r]) /\ active \in Configs /\ run[r].op.kind = "load"
        /\ ~disturbed[r] => Settled(run[r], active, boot)
    BY DEF IndInv, TypeOK, LoadConfig, At
  <1>1. ASSUME NEW part \in SUBSET Nodes,
               Become(r, [ Goto(r, "gate") EXCEPT
                              !.del = (active \ run[r].uploaded) \cap part,
                              !.add = (run[r].uploaded \ active) \cap part,
                              !.blind = IF part = Nodes THEN @ ELSE {"mask"} ])
        PROVE  IndInv'
    <2> DEFINE g == Goto(r, "gate")
               del == (active \ run[r].uploaded) \cap part
               add == (run[r].uploaded \ active) \cap part
               t == [g EXCEPT !.del = del, !.add = add,
                              !.blind = IF part = Nodes THEN @ ELSE {"mask"}]
    <2>1. g \in RunState /\ g.pc = "gate" /\ g.rc = run[r].rc /\ SameButStage(g, run[r])
      BY <1>0, GotoFields, StageNames
    <2>2. Become(r, t)
      BY <1>1
    <2>3. del \in Configs /\ add \in Configs /\ del \cap add = {}
      BY <1>0, ConfigClosed DEF RunState
    <2>4. part = Nodes => (active \ del) \cup add = run[r].uploaded
      BY <1>0 DEF RunState, Configs
    <2> HIDE DEF g, del, add
    <2>5. /\ t \in RunState /\ t.pc = "gate" /\ t.rc = run[r].rc
          /\ t.del = del /\ t.add = add
          /\ part # Nodes => "mask" \in t.blind
          /\ part = Nodes => t.blind = run[r].blind
          /\ t.op = run[r].op /\ t.uploaded = run[r].uploaded /\ t.base = run[r].base
          /\ t.effects = run[r].effects /\ t.sentinel = run[r].sentinel
          /\ t.didCommit = run[r].didCommit /\ t.didSave = run[r].didSave
          /\ t.cleanupFailed = run[r].cleanupFailed
      BY <2>1, <2>3 DEF RunState, SameButStage
    <2> HIDE DEF t
    <2>6. Local(t)
      BY <1>0, <2>3, <2>5 DEF Local, Pristine, InBounds, Running, Accounted,
         Reported, TidiedUp, Guarded, Disjoint, NotYetOpen, Sending, Body, Ending
    <2>7. ASSUME ~disturbed[r]
          PROVE  Settled(t, active, boot)
      <3>1. ASSUME "mask" \notin t.blind
            PROVE  Exact(t, active, boot)
        <4>1. part = Nodes /\ "mask" \notin run[r].blind
          BY <2>5, <3>1
        <4>2. Candidate(t, active) = Target(t)
          BY <1>0, <2>4, <2>5, <4>1 DEF Candidate, Target
        <4> QED
          BY <1>0, <2>5, <2>7, <4>1, <4>2 DEF Settled, Exact, Local, Accounted, Running, Body
      <3>2. Durable(t, active, boot) /\ Real(t, active, boot)
        BY <1>0, <2>5, <2>7 DEF Settled, Durable, Real, Local, Accounted, Running, Body
      <3> QED
        BY <3>1, <3>2 DEF Settled
    <2> QED
      BY <1>0, <2>2, <2>5, <2>6, <2>7, QuietInv
  <1>2. CASE Become(r, Exit1(r))
    BY <1>0, <1>2, Exit1Inv DEF Body
  <1> QED
    BY <1>1, <1>2 DEF LoadConfig

\* Applying a command moves the candidate on to the next target.
LEMMA AppliedFields ==
    ASSUME NEW s \in RunState, s.op.kind = "commands",
           s.next \in DOMAIN s.op.cmds, Disjoint(s)
    PROVE  LET c == s.op.cmds[s.next]
               t == Applied(s, c)
           IN  /\ t \in RunState
               /\ Disjoint(t)
               /\ t.op = s.op /\ t.base = s.base /\ t.uploaded = s.uploaded
               /\ t.next = s.next /\ t.rc = s.rc
               /\ t.effects = s.effects /\ t.blind = s.blind
               /\ t.sentinel = s.sentinel /\ t.didCommit = s.didCommit
               /\ t.didSave = s.didSave /\ t.cleanupFailed = s.cleanupFailed
               /\ \A a : Candidate(t, a) = IF c.verb = "set"
                                           THEN Candidate(s, a) \cup c.nodes
                                           ELSE Candidate(s, a) \ c.nodes
  <1> DEFINE c == s.op.cmds[s.next]
             t == Applied(s, c)
             x == [s EXCEPT !.add = s.add \cup c.nodes, !.del = s.del \ c.nodes]
             y == [s EXCEPT !.del = s.del \cup c.nodes, !.add = s.add \ c.nodes]
  <1>1. c \in Command /\ c.nodes \subseteq Nodes
    BY CommandList
  <1>2. t = IF c.verb = "set" THEN x ELSE y
    BY DEF Applied
  <1> HIDE DEF c, t
  <1>3. /\ s.add \cup c.nodes \in Configs /\ s.del \ c.nodes \in Configs
        /\ s.del \cup c.nodes \in Configs /\ s.add \ c.nodes \in Configs
    BY <1>1, ConfigClosed DEF RunState, Configs
  <1>4. /\ x \in RunState /\ x.add = s.add \cup c.nodes /\ x.del = s.del \ c.nodes
        /\ x.op = s.op /\ x.base = s.base /\ x.uploaded = s.uploaded
        /\ x.next = s.next /\ x.rc = s.rc /\ x.effects = s.effects
        /\ x.blind = s.blind /\ x.sentinel = s.sentinel
        /\ x.didCommit = s.didCommit /\ x.didSave = s.didSave
        /\ x.cleanupFailed = s.cleanupFailed
    BY <1>3 DEF RunState
  <1>5. /\ y \in RunState /\ y.del = s.del \cup c.nodes /\ y.add = s.add \ c.nodes
        /\ y.op = s.op /\ y.base = s.base /\ y.uploaded = s.uploaded
        /\ y.next = s.next /\ y.rc = s.rc /\ y.effects = s.effects
        /\ y.blind = s.blind /\ y.sentinel = s.sentinel
        /\ y.didCommit = s.didCommit /\ y.didSave = s.didSave
        /\ y.cleanupFailed = s.cleanupFailed
    BY <1>3 DEF RunState
  <1> HIDE DEF x, y
  <1>6. CASE c.verb = "set"
    <2>1. t = x
      BY <1>2, <1>6
    <2>2. \A a : Candidate(x, a) = Candidate(s, a) \cup c.nodes
      BY <1>4 DEF Candidate
    <2> QED
      BY <1>4, <1>6, <2>1, <2>2 DEF Disjoint, c, t
  <1>7. CASE c.verb # "set"
    <2>1. t = y
      BY <1>2, <1>7
    <2>2. \A a : Candidate(y, a) = Candidate(s, a) \ c.nodes
      BY <1>5 DEF Candidate
    <2> QED
      BY <1>5, <1>7, <2>1, <2>2 DEF Disjoint, c, t
  <1> QED
    BY <1>6, <1>7

\* A command that is done leads on to the next one, or to the gate.
LEMMA NextCommandInv ==
    ASSUME IndInv, NEW r \in Runs, run[r].pc = "apply",
           run[r].op.kind = "commands", DeviceUnchanged,
           NEW u \in RunState, Disjoint(u),
           u.op = run[r].op, u.base = run[r].base, u.uploaded = run[r].uploaded,
           u.rc = run[r].rc, u.effects = run[r].effects,
           u.sentinel = run[r].sentinel, u.didCommit = run[r].didCommit,
           u.didSave = run[r].didSave, u.cleanupFailed = run[r].cleanupFailed,
           "mask" \notin u.blind =>
               /\ "mask" \notin run[r].blind
               /\ LET c == run[r].op.cmds[run[r].next]
                  IN  \A a : Candidate(u, a) = IF c.verb = "set"
                                               THEN Candidate(run[r], a) \cup c.nodes
                                               ELSE Candidate(run[r], a) \ c.nodes,
           Become(r, [u EXCEPT !.next = run[r].next + 1,
                               !.pc = IF run[r].next = Len(run[r].op.cmds)
                                      THEN "gate" ELSE "apply"])
    PROVE  IndInv'
  <1> DEFINE s == run[r]
             to == IF s.next = Len(s.op.cmds) THEN "gate" ELSE "apply"
             k == s.next
             t == [u EXCEPT !.next = k + 1, !.pc = to]
  <1>0. /\ s \in RunState /\ Local(s) /\ k \in DOMAIN s.op.cmds
        /\ ~disturbed[r] => Settled(s, active, boot)
    BY DEF IndInv, TypeOK, Local, InBounds
  <1>1. /\ Len(s.op.cmds) \in Nat /\ DOMAIN s.op.cmds = 1 .. Len(s.op.cmds)
        /\ k \in Nat
    <2>1. Len(s.op.cmds) \in Nat /\ DOMAIN s.op.cmds = 1 .. Len(s.op.cmds)
      BY <1>0, CommandList
    <2> HIDE DEF k
    <2>2. k \in 1 .. Len(s.op.cmds)
      BY <1>0, <2>1
    <2> QED
      BY <2>1, <2>2, Counting
  <1>2. /\ to \in {"gate", "apply"} /\ to \in Stages
        /\ to = "gate" => k = Len(s.op.cmds)
        /\ to = "apply" => k + 1 \in DOMAIN s.op.cmds
    <2>1. to \in {"gate", "apply"} /\ to \in Stages
      BY StageNames
    <2>2. k \in 1 .. Len(s.op.cmds)
      BY <1>0, <1>1
    <2> DEFINE n == Len(s.op.cmds)
    <2>3. n \in Nat
      BY <1>1
    <2>4. k # n => k + 1 \in 1 .. n
      <3> HIDE DEF k
      <3>1. k \in 1 .. n
        BY <2>2
      <3> HIDE DEF n
      <3> QED
        BY <2>3, <3>1, Counting
    <2> QED
      BY <1>1, <2>1, <2>4
  <1>3. Become(r, t)
    OBVIOUS
  <1>4. TargetUpTo(s, k + 1) = IF s.op.cmds[k].verb = "set"
                               THEN TargetUpTo(s, k) \cup s.op.cmds[k].nodes
                               ELSE TargetUpTo(s, k) \ s.op.cmds[k].nodes
    BY <1>0, TargetStep
  <1>5. k + 1 \in Nat
    BY <1>1, Counting
  <1> HIDE DEF to, k
  <1>6. /\ t \in RunState /\ t.pc = to /\ t.next = k + 1
        /\ t.op = u.op /\ t.base = u.base /\ t.uploaded = u.uploaded
        /\ t.rc = u.rc /\ t.effects = u.effects /\ t.blind = u.blind
        /\ t.sentinel = u.sentinel /\ t.didCommit = u.didCommit
        /\ t.didSave = u.didSave /\ t.cleanupFailed = u.cleanupFailed
        /\ t.del = u.del /\ t.add = u.add
    BY <1>2, <1>5 DEF RunState
  <1> HIDE DEF t
  <1>7. Local(t)
    BY <1>0, <1>2, <1>6 DEF Local, Pristine, InBounds, Running, Accounted,
       Reported, TidiedUp, Guarded, Disjoint, NotYetOpen, Sending, Body, Ending
  <1>8. ASSUME ~disturbed[r]
        PROVE  Settled(t, active, boot)
    <2>1. ASSUME "mask" \notin t.blind
          PROVE  Exact(t, active, boot)
      <3>1. "mask" \notin s.blind /\ Exact(s, active, boot)
        BY <1>0, <1>6, <1>8, <2>1 DEF Settled
      <3>2. Candidate(t, active) = TargetUpTo(s, k + 1)
        <4>1. Candidate(s, active) = TargetUpTo(s, k)
          BY <3>1 DEF Exact, k
        <4>2. Candidate(t, active) = Candidate(u, active)
          BY <1>6 DEF Candidate
        <4>3. "mask" \notin u.blind
          BY <1>6, <2>1
        <4>4. Candidate(u, active) = IF s.op.cmds[k].verb = "set"
                                     THEN Candidate(s, active) \cup s.op.cmds[k].nodes
                                     ELSE Candidate(s, active) \ s.op.cmds[k].nodes
          BY <4>3 DEF k
        <4> QED
          BY <1>4, <4>1, <4>2, <4>4
      <3>3. Target(t) = Target(s) /\ TargetUpTo(t, k + 1) = TargetUpTo(s, k + 1)
        <4>1. t.op = s.op /\ t.uploaded = s.uploaded /\ t.base = s.base
          BY <1>6
        <4> QED
          BY <4>1, TargetFields
      <3>4. to = "gate" => Target(t) = TargetUpTo(s, k + 1)
        BY <1>2, <3>3 DEF Target
      <3> QED
        BY <1>0, <1>2, <1>6, <3>1, <3>2, <3>3, <3>4
           DEF Exact, Local, Running, Accounted, Body
    <2>2. Durable(t, active, boot) /\ Real(t, active, boot)
      BY <1>0, <1>2, <1>6, <1>8
         DEF Settled, Durable, Real, Local, Accounted, Running, Body
    <2> QED
      BY <2>1, <2>2 DEF Settled
  <1> QED
    BY <1>3, <1>6, <1>7, <1>8, QuietInv

\* A command does its work, pretends to, or ends the script.
LEMMA RunCommandInv ==
    ASSUME IndInv, NEW r \in Runs, RunCommand(r)
    PROVE  IndInv'
  <1> DEFINE s == run[r]
             c == s.op.cmds[s.next]
             step(t) == [t EXCEPT !.next = s.next + 1,
                                  !.pc = IF s.next = Len(s.op.cmds)
                                         THEN "gate" ELSE "apply"]
  <1>0. /\ s \in RunState /\ Local(s) /\ s.pc = "apply" /\ DeviceUnchanged
        /\ s.op.kind = "commands" /\ s.next \in DOMAIN s.op.cmds /\ Disjoint(s)
    BY DEF IndInv, TypeOK, Local, InBounds, RunCommand, At
  <1>1. CASE Become(r, step(Applied(s, c)))
    <2> DEFINE u == Applied(s, c)
    <2>1. /\ u \in RunState /\ Disjoint(u)
          /\ u.op = s.op /\ u.base = s.base /\ u.uploaded = s.uploaded
          /\ u.rc = s.rc /\ u.effects = s.effects /\ u.blind = s.blind
          /\ u.sentinel = s.sentinel /\ u.didCommit = s.didCommit
          /\ u.didSave = s.didSave /\ u.cleanupFailed = s.cleanupFailed
          /\ \A a : Candidate(u, a) = IF c.verb = "set"
                                      THEN Candidate(s, a) \cup c.nodes
                                      ELSE Candidate(s, a) \ c.nodes
      BY <1>0, AppliedFields
    <2>2. Become(r, step(u))
      BY <1>1
    <2> HIDE DEF u
    <2> QED
      BY <1>0, <2>1, <2>2, NextCommandInv
  <1>2. CASE Become(r, step([s EXCEPT !.blind = {"mask"}]))
    <2> DEFINE u == [s EXCEPT !.blind = {"mask"}]
    <2>1. /\ u \in RunState /\ u.del = s.del /\ u.add = s.add
          /\ u.op = s.op /\ u.base = s.base /\ u.uploaded = s.uploaded
          /\ u.rc = s.rc /\ u.effects = s.effects /\ u.blind = {"mask"}
          /\ u.sentinel = s.sentinel /\ u.didCommit = s.didCommit
          /\ u.didSave = s.didSave /\ u.cleanupFailed = s.cleanupFailed
      BY <1>0 DEF RunState
    <2>2. Become(r, step(u))
      BY <1>2
    <2> HIDE DEF u
    <2>3. Disjoint(u)
      BY <1>0, <2>1 DEF Disjoint
    <2> QED
      BY <1>0, <2>1, <2>2, <2>3, NextCommandInv
  <1>3. CASE Become(r, Exit1(r))
    BY <1>0, <1>3, Exit1Inv DEF Body
  <1> QED
    BY <1>1, <1>2, <1>3 DEF RunCommand

\* The save block is entered exactly when the run has to save.
LEMMA AfterCommitStage ==
    ASSUME NEW s
    PROVE  /\ AfterCommit(s) \in {"need", "emit"}
           /\ AfterCommit(s) = "need" <=> MustSave(s)
  BY DEF AfterCommit, MustSave

\* The gate lets a session with changes commit, and one without go on.
LEMMA CommitGateInv ==
    ASSUME IndInv, NEW r \in Runs, CommitGate(r)
    PROVE  IndInv'
  <1>0. /\ TypeOK /\ Local(run[r]) /\ run[r].pc = "gate" /\ DeviceUnchanged
        /\ ~disturbed[r] => Settled(run[r], active, boot)
    BY DEF IndInv, CommitGate, At
  <1>1. CASE SessionChanged(run[r]) /\ Become(r, Goto(r, "commit"))
    <2> DEFINE t == Goto(r, "commit")
    <2>1. /\ t \in RunState /\ t.pc = "commit" /\ t.rc = run[r].rc
          /\ SameButStage(t, run[r])
      BY <1>0, GotoFields, StageNames
    <2> HIDE DEF t
    <2>2. Local(t)
      BY <1>0, <2>1 DEF SameButStage, Local, Pristine, InBounds, Running, Accounted,
         Reported, TidiedUp, Guarded, Disjoint, NotYetOpen, Sending, Body, Ending
    <2>3. ~disturbed[r] => Settled(t, active, boot)
      <3>1. Target(t) = Target(run[r])
        BY <2>1, TargetFields DEF SameButStage
      <3>2. Candidate(t, active) # active /\ Candidate(t, active) = Candidate(run[r], active)
        BY <1>1, <2>1 DEF SessionChanged, Candidate, SameButStage
      <3> QED
        BY <1>0, <2>1, <3>1, <3>2 DEF SameButStage, Settled, Exact, Durable, Real,
           MustSave, Body, Local, Running, Accounted
    <2> QED
      BY <1>0, <1>1, <2>1, <2>2, <2>3, QuietInv DEF t
  <1>2. CASE ~SessionChanged(run[r]) /\ Become(r, Goto(r, AfterCommit(run[r])))
    <2> DEFINE to == AfterCommit(run[r])
               t == Goto(r, to)
    <2>1. /\ to \in {"need", "emit"} /\ to \in Stages
          /\ to = "need" <=> MustSave(run[r])
      BY AfterCommitStage, StageNames
    <2>2. t \in RunState /\ t.pc = to /\ t.rc = run[r].rc /\ SameButStage(t, run[r])
      BY <1>0, <2>1, GotoFields
    <2>3. Become(r, t)
      BY <1>2
    <2> HIDE DEF to, t
    <2>4. Local(t)
      BY <1>0, <2>1, <2>2 DEF SameButStage, Local, Pristine, InBounds, Running,
         Accounted, Reported, TidiedUp, Guarded, Disjoint, NotYetOpen, Sending,
         Body, Ending
    <2>5. ~disturbed[r] => Settled(t, active, boot)
      <3>1. Target(t) = Target(run[r])
        BY <2>2, TargetFields DEF SameButStage
      <3>2. Candidate(run[r], active) = active
        BY <1>2 DEF SessionChanged
      <3>3. MustSave(t) <=> MustSave(run[r])
        BY <2>2 DEF MustSave, SameButStage
      <3> QED
        BY <1>0, <2>1, <2>2, <3>1, <3>2, <3>3 DEF SameButStage, Settled, Exact,
           Durable, Real, Body, Local, Running, Accounted
    <2> QED
      BY <1>0, <2>2, <2>3, <2>4, <2>5, QuietInv
  <1>3. CASE Become(r, Exit1(r))
    BY <1>0, <1>3, Exit1Inv DEF Body
  <1> QED
    BY <1>1, <1>2, <1>3 DEF CommitGate

\* Committing a part of a session moves that part into the configuration and
\* leaves the rest pending: the candidate stays what it was.
LEMMA PartialCommit ==
    ASSUME NEW a, NEW del, NEW add, NEW part, del \cap add = {}
    PROVE  LET new == (a \ (del \cap part)) \cup (add \cap part)
           IN  /\ (new \ (del \ part)) \cup (add \ part) = (a \ del) \cup add
               /\ (del \ part) \cap (add \ part) = {}
  OBVIOUS

\* commit moves all of the session, or some of it, into the configuration.
LEMMA CommitInv ==
    ASSUME IndInv, NEW r \in Runs, Commit(r)
    PROVE  IndInv'
  <1> DEFINE s == run[r]
             New(part) == (active \ (s.del \cap part)) \cup (s.add \cap part)
  <1>0. /\ TypeOK /\ s \in RunState /\ Local(s) /\ s.pc = "commit"
        /\ active \in Configs /\ boot \in Configs
        /\ ~disturbed[r] => Settled(s, active, boot)
    BY DEF IndInv, TypeOK, Commit, At
  <1> PICK part \in SUBSET Nodes :
        /\ DeviceWrite({r}, New(part), boot)
        /\ Become(r, [ Goto(r, "post") EXCEPT
                           !.del = @ \ part,
                           !.add = @ \ part,
                           !.effects = IF New(part) = active THEN @
                                       ELSE @ \cup {"active"} ])
    BY DEF Commit
  <1> DEFINE new == New(part)
             g == Goto(r, "post")
             eff == IF new = active THEN g.effects ELSE g.effects \cup {"active"}
             t == [g EXCEPT !.del = g.del \ part, !.add = g.add \ part,
                            !.effects = eff]
  <1>1. Become(r, t) /\ DeviceWrite({r}, new, boot)
    OBVIOUS
  <1>2. g \in RunState /\ g.pc = "post" /\ g.rc = s.rc /\ SameButStage(g, s)
    BY <1>0, GotoFields, StageNames
  <1>3. new \in Configs /\ g.del \ part \in Configs /\ g.add \ part \in Configs
    BY <1>0, <1>2 DEF RunState, Configs
  <1>4. /\ Candidate(s, active) = (new \ (s.del \ part)) \cup (s.add \ part)
        /\ (s.del \ part) \cap (s.add \ part) = {}
    BY <1>0, PartialCommit DEF Local, Disjoint, Candidate
  <1>5. s.effects = {} /\ ~s.didCommit /\ ~s.didSave /\ s.rc = 0 /\ s.sentinel = "none"
        /\ ~s.cleanupFailed
    BY <1>0 DEF Local, Accounted, Running, Body
  <1>6. eff = IF new = active THEN {} ELSE {"active"}
    BY <1>2, <1>5 DEF SameButStage
  <1> HIDE DEF g, new, eff
  <1>7. eff \in SUBSET {"active", "boot"}
    BY <1>6
  <1>8. /\ t \in RunState /\ t.pc = "post" /\ t.rc = s.rc /\ t.effects = eff
        /\ t.del = s.del \ part /\ t.add = s.add \ part
        /\ t.op = s.op /\ t.uploaded = s.uploaded /\ t.base = s.base
        /\ t.blind = s.blind /\ t.sentinel = s.sentinel
        /\ t.didCommit = s.didCommit /\ t.didSave = s.didSave
        /\ t.cleanupFailed = s.cleanupFailed
    BY <1>2, <1>3, <1>7 DEF RunState, SameButStage
  <1> HIDE DEF t, New
  <1>9. Local(t)
    BY <1>0, <1>4, <1>5, <1>6, <1>8 DEF Local, Pristine, InBounds, Running, Accounted,
       Reported, TidiedUp, Guarded, Disjoint, NotYetOpen, Sending, Body, Ending
  <1>10. ASSUME ~disturbed[r]
         PROVE  Settled(t, new, boot)
    <2>1. Candidate(t, new) = Candidate(s, active)
      BY <1>4, <1>8 DEF Candidate
    <2>2. Target(t) = Target(s)
      BY <1>8, TargetFields
    <2>3. "mask" \notin t.blind => Exact(t, new, boot)
      BY <1>0, <1>5, <1>6, <1>8, <1>10, <2>1, <2>2 DEF Settled, Exact
    <2>4. Durable(t, new, boot)
      BY <1>5, <1>6, <1>8 DEF Durable
    <2>5. Real(t, new, boot)
      BY <1>0, <1>5, <1>6, <1>8, <1>10, <2>1 DEF Settled, Real, Body
    <2> QED
      BY <2>3, <2>4, <2>5 DEF Settled
  <1> QED
    BY <1>0, <1>1, <1>3, <1>8, <1>9, <1>10, StepInv

\* Behind the postcondition nothing is pending, or the script has ended.
LEMMA CommitPostconditionInv ==
    ASSUME IndInv, NEW r \in Runs, CommitPostcondition(r)
    PROVE  IndInv'
  <1> DEFINE s == run[r]
             c == [s EXCEPT !.didCommit = TRUE]
  <1>0. /\ TypeOK /\ s \in RunState /\ Local(s) /\ s.pc = "post" /\ DeviceUnchanged
        /\ ~disturbed[r] => Settled(s, active, boot)
    BY DEF IndInv, TypeOK, CommitPostcondition, At
  <1>1. CASE /\ ~SessionChanged(s)
             /\ Become(r, [c EXCEPT !.pc = AfterCommit(c)])
    <2> DEFINE to == AfterCommit(c)
               t == [c EXCEPT !.pc = to]
    <2>1. /\ to \in {"need", "emit"} /\ to \in Stages
          /\ to = "need" <=> MustSave(c)
      BY AfterCommitStage, StageNames
    <2>2. /\ c \in RunState /\ c.didCommit = TRUE /\ c.op = s.op
          /\ c.uploaded = s.uploaded /\ c.base = s.base /\ c.rc = s.rc
          /\ c.del = s.del /\ c.add = s.add /\ c.effects = s.effects
          /\ c.blind = s.blind /\ c.sentinel = s.sentinel
          /\ c.didSave = s.didSave /\ c.cleanupFailed = s.cleanupFailed
      BY <1>0 DEF RunState
    <2>3. Become(r, t)
      BY <1>1
    <2> HIDE DEF c, to
    <2>4. /\ t \in RunState /\ t.pc = to /\ t.didCommit = TRUE /\ t.op = s.op
          /\ t.uploaded = s.uploaded /\ t.base = s.base /\ t.rc = s.rc
          /\ t.del = s.del /\ t.add = s.add /\ t.effects = s.effects
          /\ t.blind = s.blind /\ t.sentinel = s.sentinel
          /\ t.didSave = s.didSave /\ t.cleanupFailed = s.cleanupFailed
      BY <2>1, <2>2 DEF RunState
    <2> HIDE DEF t
    <2>5. Local(t)
      BY <1>0, <2>1, <2>4 DEF Local, Pristine, InBounds, Running, Accounted,
         Reported, TidiedUp, Guarded, Disjoint, NotYetOpen, Sending, Body, Ending
    <2>6. ASSUME ~disturbed[r]
          PROVE  Settled(t, active, boot)
      <3>1. Target(t) = Target(s)
        BY <2>4, TargetFields
      <3>2. Candidate(s, active) = active
        BY <1>1 DEF SessionChanged
      <3>3. MustSave(t) <=> MustSave(c)
        BY <2>2, <2>4 DEF MustSave
      <3>4. "active" \in s.effects /\ "boot" \notin s.effects
        BY <1>0, <2>6, <3>2 DEF Settled, Real, Local, Accounted, Body, RunState
      <3>5. ~s.didSave /\ s.sentinel = "none"
        BY <1>0 DEF Local, Accounted, Running, Body
      <3>6. "mask" \notin t.blind => Exact(t, active, boot)
        BY <1>0, <2>1, <2>4, <2>6, <3>1, <3>2, <3>4, <3>5 DEF Settled, Exact
      <3>7. Durable(t, active, boot) /\ Real(t, active, boot)
        BY <2>1, <2>4, <3>3, <3>4, <3>5 DEF Durable, Real
      <3> QED
        BY <3>6, <3>7 DEF Settled
    <2> QED
      BY <1>0, <2>3, <2>4, <2>5, <2>6, QuietInv
  <1>2. CASE Become(r, Exit1(r))
    BY <1>0, <1>2, Exit1Inv DEF Body
  <1> QED
    BY <1>1, <1>2 DEF CommitPostcondition

\* The save block saves what is pending, or what it cannot compare.
LEMMA NeedsSaveInv ==
    ASSUME IndInv, NEW r \in Runs, NeedsSave(r)
    PROVE  IndInv'
  <1> DEFINE s == run[r]
  <1>0. /\ TypeOK /\ s \in RunState /\ Local(s) /\ s.pc = "need" /\ DeviceUnchanged
        /\ ~disturbed[r] => Settled(s, active, boot)
    BY DEF IndInv, TypeOK, NeedsSave, At
  <1>1. ASSUME NEW t \in RunState, Become(r, t), t.pc \in {"save", "emit"},
               t.pc = "save" => SavePending \/ "save" \in t.blind,
               t.pc = "emit" => ~SavePending,
               t.rc = s.rc, t.op = s.op, t.uploaded = s.uploaded, t.base = s.base,
               t.del = s.del, t.add = s.add, t.effects = s.effects,
               "mask" \in t.blind <=> "mask" \in s.blind,
               t.sentinel = s.sentinel, t.didCommit = s.didCommit,
               t.didSave = s.didSave, t.cleanupFailed = s.cleanupFailed
        PROVE  IndInv'
    <2>1. Local(t)
      BY <1>0, <1>1 DEF Local, Pristine, InBounds, Running, Accounted,
         Reported, TidiedUp, Guarded, Disjoint, NotYetOpen, Sending, Body, Ending
    <2>2. ASSUME ~disturbed[r]
          PROVE  Settled(t, active, boot)
      <3>1. Target(t) = Target(s) /\ (MustSave(t) <=> MustSave(s))
        BY <1>1, TargetFields DEF MustSave
      <3>2. "boot" \notin s.effects /\ ~s.didSave /\ s.sentinel = "none"
        BY <1>0 DEF Local, Accounted, Running, Body
      <3>3. "mask" \notin t.blind => Exact(t, active, boot)
        BY <1>0, <1>1, <2>2, <3>1, <3>2 DEF Settled, Exact
      <3>4. Durable(t, active, boot) /\ Real(t, active, boot)
        BY <1>0, <1>1, <2>2, <3>1, <3>2 DEF Settled, Durable, Real, SavePending, Body
      <3> QED
        BY <3>3, <3>4 DEF Settled
    <2> QED
      BY <1>0, <1>1, <2>1, <2>2, QuietInv
  <1>2. CASE SavePending /\ Become(r, Goto(r, "save"))
    BY <1>0, <1>1, <1>2, GotoFields, StageNames DEF SameButStage
  <1>3. CASE ~SavePending /\ Become(r, Goto(r, "emit"))
    BY <1>0, <1>1, <1>3, GotoFields, StageNames DEF SameButStage
  <1>4. CASE Become(r, [Goto(r, "save") EXCEPT !.blind = @ \cup {"save"}])
    <2> DEFINE g == Goto(r, "save")
               t == [g EXCEPT !.blind = @ \cup {"save"}]
    <2>1. g \in RunState /\ g.pc = "save" /\ g.rc = s.rc /\ SameButStage(g, s)
      BY <1>0, GotoFields, StageNames
    <2>2. Become(r, t)
      BY <1>4
    <2> HIDE DEF g
    <2>3. /\ t \in RunState /\ t.pc = "save" /\ "save" \in t.blind
          /\ t.rc = s.rc /\ t.op = s.op /\ t.uploaded = s.uploaded /\ t.base = s.base
          /\ t.del = s.del /\ t.add = s.add /\ t.effects = s.effects
          /\ "mask" \in t.blind <=> "mask" \in s.blind
          /\ t.sentinel = s.sentinel /\ t.didCommit = s.didCommit
          /\ t.didSave = s.didSave /\ t.cleanupFailed = s.cleanupFailed
      BY <2>1 DEF RunState, SameButStage
    <2> HIDE DEF t
    <2> QED
      BY <1>1, <2>2, <2>3
  <1> QED
    BY <1>0, <1>2, <1>3, <1>4 DEF NeedsSave

\* save makes config.boot what the active configuration is, or does nothing.
LEMMA SaveInv ==
    ASSUME IndInv, NEW r \in Runs, Save(r)
    PROVE  IndInv'
  <1> DEFINE s == run[r]
  <1>0. /\ TypeOK /\ s \in RunState /\ Local(s) /\ s.pc = "save"
        /\ active \in Configs /\ boot \in Configs
        /\ ~disturbed[r] => Settled(s, active, boot)
    BY DEF IndInv, TypeOK, Save, At
  <1>1. ASSUME NEW t \in RunState, Become(r, t), t.pc = "recheck",
               NEW b \in Configs, DeviceWrite({r}, active, b),
               "active" \in t.effects <=> "active" \in s.effects,
               "boot" \in t.effects => b = active,
               b = active => ~SavePending \/ "boot" \in t.effects,
               b # active => b = boot,
               t.rc = s.rc, t.op = s.op, t.uploaded = s.uploaded, t.base = s.base,
               t.del = s.del, t.add = s.add, t.blind = s.blind,
               t.sentinel = s.sentinel, t.didCommit = s.didCommit,
               t.didSave = s.didSave, t.cleanupFailed = s.cleanupFailed
        PROVE  IndInv'
    <2>1. Local(t)
      BY <1>0, <1>1 DEF Local, Pristine, InBounds, Running, Accounted,
         Reported, TidiedUp, Guarded, Disjoint, NotYetOpen, Sending, Body, Ending
    <2>2. ASSUME ~disturbed[r]
          PROVE  Settled(t, active, b)
      <3>1. Target(t) = Target(s) /\ (MustSave(t) <=> MustSave(s))
        BY <1>1, TargetFields DEF MustSave
      <3>2. "boot" \notin s.effects /\ ~s.didSave /\ s.sentinel = "none"
        BY <1>0 DEF Local, Accounted, Running, Body
      <3>3. "mask" \notin t.blind => Exact(t, active, b)
        BY <1>0, <1>1, <2>2, <3>1, <3>2 DEF Settled, Exact
      <3>4. Durable(t, active, b)
        BY <1>0, <1>1, <2>2, <3>1, <3>2 DEF Settled, Durable
      <3>5. Real(t, active, b)
        BY <1>0, <1>1, <2>2, <3>2 DEF Settled, Real, SavePending, Body
      <3> QED
        BY <3>3, <3>4, <3>5 DEF Settled
    <2> QED
      BY <1>0, <1>1, <2>1, <2>2, StepInv
  <1>2. CASE /\ DeviceWrite({r}, active, active)
             /\ Become(r, [ Goto(r, "recheck") EXCEPT
                               !.effects = IF SavePending THEN @ \cup {"boot"} ELSE @ ])
    <2> DEFINE g == Goto(r, "recheck")
               eff == IF SavePending THEN g.effects \cup {"boot"} ELSE g.effects
               t == [g EXCEPT !.effects = eff]
    <2>1. g \in RunState /\ g.pc = "recheck" /\ g.rc = s.rc /\ SameButStage(g, s)
      BY <1>0, GotoFields, StageNames
    <2>2. Become(r, t)
      BY <1>2
    <2>3. /\ eff \in SUBSET {"active", "boot"}
          /\ "active" \in eff <=> "active" \in s.effects
          /\ SavePending => "boot" \in eff
      BY <2>1 DEF RunState, SameButStage
    <2> HIDE DEF g, eff
    <2>4. /\ t \in RunState /\ t.pc = "recheck" /\ t.effects = eff
          /\ t.rc = s.rc /\ t.op = s.op /\ t.uploaded = s.uploaded /\ t.base = s.base
          /\ t.del = s.del /\ t.add = s.add /\ t.blind = s.blind
          /\ t.sentinel = s.sentinel /\ t.didCommit = s.didCommit
          /\ t.didSave = s.didSave /\ t.cleanupFailed = s.cleanupFailed
      BY <2>1, <2>3 DEF RunState, SameButStage
    <2> HIDE DEF t
    <2> QED
      BY <1>0, <1>1, <1>2, <2>2, <2>3, <2>4
  <1>3. CASE Become(r, Goto(r, "recheck")) /\ DeviceUnchanged
    <2> DEFINE t == Goto(r, "recheck")
    <2>1. t \in RunState /\ t.pc = "recheck" /\ t.rc = s.rc /\ SameButStage(t, s)
      BY <1>0, GotoFields, StageNames
    <2>2. DeviceWrite({r}, active, boot)
      BY <1>0, <1>3, NoWrite
    <2>3. "boot" \notin s.effects
      BY <1>0 DEF Local, Accounted, Body
    <2> HIDE DEF t
    <2> QED
      BY <1>0, <1>1, <1>3, <2>1, <2>2, <2>3 DEF SameButStage, SavePending, t
  <1> QED
    BY <1>2, <1>3 DEF Save

\* did_save is set behind a comparison that found nothing pending.
LEMMA SavePostconditionInv ==
    ASSUME IndInv, NEW r \in Runs, SavePostcondition(r)
    PROVE  IndInv'
  <1> DEFINE s == run[r]
  <1>0. /\ TypeOK /\ s \in RunState /\ Local(s) /\ s.pc = "recheck" /\ DeviceUnchanged
        /\ ~disturbed[r] => Settled(s, active, boot)
    BY DEF IndInv, TypeOK, SavePostcondition, At
  <1>1. CASE ~SavePending /\ Become(r, [Goto(r, "emit") EXCEPT !.didSave = TRUE])
    <2> DEFINE g == Goto(r, "emit")
               t == [g EXCEPT !.didSave = TRUE]
    <2>1. g \in RunState /\ g.pc = "emit" /\ g.rc = s.rc /\ SameButStage(g, s)
      BY <1>0, GotoFields, StageNames
    <2>2. Become(r, t)
      BY <1>1
    <2> HIDE DEF g
    <2>3. /\ t \in RunState /\ t.pc = "emit" /\ t.didSave = TRUE /\ t.effects = s.effects
          /\ t.rc = s.rc /\ t.op = s.op /\ t.uploaded = s.uploaded /\ t.base = s.base
          /\ t.del = s.del /\ t.add = s.add /\ t.blind = s.blind
          /\ t.sentinel = s.sentinel /\ t.didCommit = s.didCommit
          /\ t.cleanupFailed = s.cleanupFailed
      BY <2>1 DEF RunState, SameButStage
    <2> HIDE DEF t
    <2>4. Local(t)
      BY <1>0, <2>3 DEF Local, Pristine, InBounds, Running, Accounted,
         Reported, TidiedUp, Guarded, Disjoint, NotYetOpen, Sending, Body, Ending
    <2>5. ASSUME ~disturbed[r]
          PROVE  Settled(t, active, boot)
      <3>1. Target(t) = Target(s)
        BY <2>3, TargetFields
      <3>2. s.sentinel = "none" /\ active = boot
        BY <1>0, <1>1 DEF Local, Running, Body, SavePending
      <3>3. "mask" \notin t.blind => Exact(t, active, boot)
        BY <1>0, <2>3, <2>5, <3>1, <3>2 DEF Settled, Exact
      <3>4. Durable(t, active, boot) /\ Real(t, active, boot)
        BY <1>0, <2>3, <2>5, <3>2 DEF Settled, Durable, Real, Body
      <3> QED
        BY <3>3, <3>4 DEF Settled
    <2> QED
      BY <1>0, <2>2, <2>3, <2>4, <2>5, QuietInv
  <1>2. CASE Become(r, Exit1(r))
    BY <1>0, <1>2, Exit1Inv DEF Body
  <1> QED
    BY <1>1, <1>2 DEF SavePostcondition

\* The sentinel says what did_commit and did_save say.
LEMMA EmitSentinelInv ==
    ASSUME IndInv, NEW r \in Runs, EmitSentinel(r)
    PROVE  IndInv'
  <1> DEFINE s == run[r]
             word == IF s.didCommit \/ s.didSave THEN "changed" ELSE "noop"
             g == Goto(r, "teardown")
             t == [g EXCEPT !.sentinel = word]
  <1>0. /\ TypeOK /\ s \in RunState /\ Local(s) /\ s.pc = "emit" /\ DeviceUnchanged
        /\ ~disturbed[r] => Settled(s, active, boot)
    BY DEF IndInv, TypeOK, EmitSentinel, At
  <1>1. g \in RunState /\ g.pc = "teardown" /\ g.rc = s.rc /\ SameButStage(g, s)
    BY <1>0, GotoFields, StageNames
  <1>2. Become(r, t)
    BY DEF EmitSentinel
  <1>3. /\ word \in {"changed", "noop"}
        /\ word = "changed" <=> s.didCommit \/ s.didSave
    OBVIOUS
  <1> HIDE DEF g, word
  <1>4. /\ t \in RunState /\ t.pc = "teardown" /\ t.sentinel = word
        /\ t.rc = s.rc /\ t.op = s.op /\ t.uploaded = s.uploaded /\ t.base = s.base
        /\ t.del = s.del /\ t.add = s.add /\ t.blind = s.blind
        /\ t.effects = s.effects /\ t.didCommit = s.didCommit
        /\ t.didSave = s.didSave /\ t.cleanupFailed = s.cleanupFailed
    BY <1>1, <1>3 DEF RunState, SameButStage
  <1> HIDE DEF t
  <1>5. word = "noop" => s.effects = {}
    BY <1>0, <1>3 DEF Local, Accounted, RunState
  <1>6. Local(t)
    BY <1>0, <1>3, <1>4, <1>5 DEF Local, Pristine, InBounds, Running, Accounted,
       Reported, TidiedUp, Guarded, Disjoint, NotYetOpen, Sending, Body, Ending
  <1>7. ASSUME ~disturbed[r]
        PROVE  Settled(t, active, boot)
    <2>1. Target(t) = Target(s)
      BY <1>4, TargetFields
    <2>2. "mask" \notin t.blind => Exact(t, active, boot)
      BY <1>0, <1>4, <1>7, <2>1 DEF Settled, Exact
    <2>3. Durable(t, active, boot)
      BY <1>0, <1>3, <1>4, <1>7 DEF Settled, Durable, MustSave
    <2>4. Real(t, active, boot)
      BY <1>0, <1>3, <1>4, <1>7 DEF Settled, Real, Body
    <2> QED
      BY <2>2, <2>3, <2>4 DEF Settled
  <1> QED
    BY <1>0, <1>2, <1>4, <1>6, <1>7, QuietInv

\* Every step of the body keeps the invariant.
LEMMA BodyStepInv ==
    ASSUME IndInv, NEW r \in Runs, BodyStep(r)
    PROVE  IndInv'
  BY ConfigureInv, LoadConfigInv, RunCommandInv, CommitGateInv, CommitInv,
     CommitPostconditionInv, NeedsSaveInv, SaveInv, SavePostconditionInv,
     EmitSentinelInv DEF BodyStep

-----------------------------------------------------------------------------
(* The trap, the wrapping shell and the faults.  Outside the body only what  *)
(* the run has said and done still counts.                                  *)

\* What t still has to be settled about: s, after it left the body.
Leaves(t, s) ==
    /\ t.pc \in Ending \cup {"done", "failed"}
    /\ t.op = s.op /\ t.uploaded = s.uploaded /\ t.base = s.base
    /\ t.sentinel = s.sentinel /\ t.effects = s.effects
    /\ "mask" \in s.blind => "mask" \in t.blind
    /\ "save" \in s.blind => "save" \in t.blind

\* A run that is over stays settled.
LEMMA LeavesSettled ==
    ASSUME NEW s, NEW t, NEW a, NEW b, Leaves(t, s), Settled(s, a, b)
    PROVE  Settled(t, a, b)
  <1>1. t.pc \notin Body
    BY DEF Leaves, Body, Ending
  <1>2. Target(t) = Target(s)
    BY TargetFields DEF Leaves
  <1>3. "mask" \notin t.blind => Exact(t, a, b)
    BY <1>1, <1>2 DEF Leaves, Settled, Exact, Body
  <1>4. Durable(t, a, b)
    BY <1>1 DEF Leaves, Settled, Durable, Body
  <1>5. Real(t, a, b)
    BY <1>1 DEF Leaves, Settled, Real, Body
  <1> QED
    BY <1>3, <1>4, <1>5 DEF Settled

\* A run that is over owes no more than an honest exit code.
LEMMA LeavesLocal ==
    ASSUME NEW s, NEW t, Leaves(t, s), Local(s), Disjoint(t),
           TidiedUp(t), Reported(t), t.pc = "teardown" => ~t.cleanupFailed
    PROVE  Local(t)
  BY DEF Leaves, Local, Pristine, InBounds, Running, Accounted, Guarded,
     NotYetOpen, Sending, Body, Ending

\* Leaving the body, or going on from there, keeps the invariant.
LEMMA EndingInv ==
    ASSUME IndInv, NEW r \in Runs, NEW t \in RunState, Leaves(t, run[r]),
           Disjoint(t), TidiedUp(t), Reported(t),
           t.pc = "teardown" => ~t.cleanupFailed,
           Become(r, t), DeviceUnchanged
    PROVE  IndInv'
  BY LeavesLocal, LeavesSettled, QuietInv DEF IndInv

\* The trap closes the session, or says why the session is still there.
LEMMA TeardownInv ==
    ASSUME IndInv, NEW r \in Runs, Teardown(r)
    PROVE  IndInv'
  <1> DEFINE s == run[r]
             g == Goto(r, "remove")
  <1>0. /\ TypeOK /\ s \in RunState /\ Local(s) /\ s.pc = "teardown"
        /\ DeviceUnchanged
    BY DEF IndInv, TypeOK, Teardown, At
  <1>1. g \in RunState /\ g.pc = "remove" /\ g.rc = s.rc /\ SameButStage(g, s)
    BY <1>0, GotoFields, StageNames
  <1>2. Disjoint(s) /\ (s.rc = 0 => s.sentinel # "none")
    BY <1>0 DEF Local, Reported, Ending
  <1>3. ASSUME NEW t \in RunState, Become(r, t), t.pc = "remove", t.rc = s.rc,
               t.op = s.op, t.uploaded = s.uploaded, t.base = s.base,
               t.sentinel = s.sentinel, t.effects = s.effects,
               s.blind \subseteq t.blind, Disjoint(t),
               t.inSession /\ ~t.cleanupFailed => "teardown" \in t.blind
        PROVE  IndInv'
    <2>1. Leaves(t, s)
      BY <1>3 DEF Leaves, Ending
    <2>2. TidiedUp(t) /\ Reported(t)
      BY <1>2, <1>3 DEF TidiedUp, Reported
    <2> QED
      BY <1>0, <1>3, <2>1, <2>2, EndingInv
  <1>4. CASE Become(r, [g EXCEPT !.inSession = FALSE, !.del = {}, !.add = {}])
    <2> DEFINE t == [g EXCEPT !.inSession = FALSE, !.del = {}, !.add = {}]
    <2>1. Become(r, t) /\ {} \in Configs
      BY <1>4 DEF Configs
    <2> HIDE DEF g
    <2>2. /\ t \in RunState /\ t.pc = "remove" /\ t.rc = s.rc
          /\ t.op = s.op /\ t.uploaded = s.uploaded /\ t.base = s.base
          /\ t.sentinel = s.sentinel /\ t.effects = s.effects
          /\ t.blind = s.blind /\ t.del = {} /\ ~t.inSession
      BY <1>1, <2>1 DEF RunState, SameButStage
    <2> HIDE DEF t
    <2> QED
      BY <1>3, <2>1, <2>2 DEF Disjoint
  <1>5. CASE ~s.inSession /\ Become(r, g)
    <2> HIDE DEF g
    <2> QED
      BY <1>1, <1>2, <1>3, <1>5 DEF SameButStage, Disjoint
  <1>6. CASE Become(r, [g EXCEPT !.blind = @ \cup {"teardown"}])
    <2> DEFINE t == [g EXCEPT !.blind = @ \cup {"teardown"}]
    <2>1. Become(r, t)
      BY <1>6
    <2> HIDE DEF g
    <2>2. /\ t \in RunState /\ t.pc = "remove" /\ t.rc = s.rc
          /\ t.op = s.op /\ t.uploaded = s.uploaded /\ t.base = s.base
          /\ t.sentinel = s.sentinel /\ t.effects = s.effects
          /\ t.blind = s.blind \cup {"teardown"} /\ t.del = s.del /\ t.add = s.add
      BY <1>1 DEF RunState, SameButStage
    <2> HIDE DEF t
    <2> QED
      BY <1>2, <1>3, <2>1, <2>2 DEF Disjoint
  <1>7. CASE Become(r, [g EXCEPT !.cleanupFailed = TRUE])
    <2> DEFINE t == [g EXCEPT !.cleanupFailed = TRUE]
    <2>1. Become(r, t)
      BY <1>7
    <2> HIDE DEF g
    <2>2. /\ t \in RunState /\ t.pc = "remove" /\ t.rc = s.rc
          /\ t.op = s.op /\ t.uploaded = s.uploaded /\ t.base = s.base
          /\ t.sentinel = s.sentinel /\ t.effects = s.effects
          /\ t.blind = s.blind /\ t.del = s.del /\ t.add = s.add
          /\ t.cleanupFailed = TRUE
      BY <1>1 DEF RunState, SameButStage
    <2> HIDE DEF t
    <2> QED
      BY <1>2, <1>3, <2>1, <2>2 DEF Disjoint
  <1> QED
    BY <1>4, <1>5, <1>6, <1>7 DEF Teardown

\* The trap ends with 0 only when there is nothing left that it could see.
LEMMA RemoveStagingInv ==
    ASSUME IndInv, NEW r \in Runs, RemoveStaging(r)
    PROVE  IndInv'
  <1> DEFINE s == run[r]
             g == Goto(r, "outer")
  <1>0. /\ TypeOK /\ s \in RunState /\ Local(s) /\ s.pc = "remove"
        /\ DeviceUnchanged
    BY DEF IndInv, TypeOK, RemoveStaging, At
  <1>1. g \in RunState /\ g.pc = "outer" /\ g.rc = s.rc /\ SameButStage(g, s)
    BY <1>0, GotoFields, StageNames
  <1>2. /\ Disjoint(s) /\ (s.rc = 0 => s.sentinel # "none")
        /\ s.inSession /\ ~s.cleanupFailed => "teardown" \in s.blind
    BY <1>0 DEF Local, Reported, TidiedUp, Ending
  <1>3. ASSUME NEW failed \in BOOLEAN, NEW left \in SUBSET {"dir", "config", "script"},
               TrapExit(r, failed, left), ~failed => left = {} /\ ~s.cleanupFailed
        PROVE  IndInv'
    <2> DEFINE code == IF failed /\ g.rc = 0 THEN 1 ELSE g.rc
               t == [g EXCEPT !.staged = left, !.cleanupFailed = failed, !.rc = code]
    <2>1. Become(r, t)
      BY <1>3 DEF TrapExit
    <2>2. code \in {0, 1} /\ (code = 0 => s.rc = 0 /\ ~failed)
      BY <1>1 DEF RunState
    <2> HIDE DEF g, code
    <2>3. /\ t \in RunState /\ t.pc = "outer" /\ t.rc = code
          /\ t.op = s.op /\ t.uploaded = s.uploaded /\ t.base = s.base
          /\ t.sentinel = s.sentinel /\ t.effects = s.effects
          /\ t.blind = s.blind /\ t.del = s.del /\ t.add = s.add
          /\ t.inSession = s.inSession /\ t.staged = left
      BY <1>1, <1>3, <2>2 DEF RunState, SameButStage
    <2> HIDE DEF t
    <2>4. Leaves(t, s)
      BY <2>3 DEF Leaves, Ending
    <2>5. Disjoint(t) /\ Reported(t) /\ TidiedUp(t)
      BY <1>2, <1>3, <2>2, <2>3 DEF Disjoint, Reported, TidiedUp
    <2> QED
      BY <1>0, <2>1, <2>3, <2>4, <2>5, EndingInv
  <1>4. CASE TrapExit(r, s.cleanupFailed, {})
    BY <1>0, <1>3, <1>4 DEF RunState
  <1>5. CASE TrapExit(r, TRUE, s.staged)
    BY <1>0, <1>3, <1>5 DEF RunState
  <1> QED
    BY <1>4, <1>5 DEF RemoveStaging

\* The wrapping shell passes on the exit code of the script.
LEMMA OuterRemoveInv ==
    ASSUME IndInv, NEW r \in Runs, OuterRemove(r)
    PROVE  IndInv'
  <1> DEFINE s == run[r]
             g == Goto(r, "done")
  <1>0. /\ TypeOK /\ s \in RunState /\ Local(s) /\ s.pc = "outer"
        /\ DeviceUnchanged
    BY DEF IndInv, TypeOK, OuterRemove, At
  <1>1. g \in RunState /\ g.pc = "done" /\ g.rc = s.rc /\ SameButStage(g, s)
    BY <1>0, GotoFields, StageNames
  <1>2. /\ Disjoint(s) /\ (s.rc = 0 => s.sentinel # "none")
        /\ s.rc = 0 => s.staged = {} /\ (s.inSession => "teardown" \in s.blind)
    BY <1>0 DEF Local, Reported, TidiedUp, Ending
  <1>3. ASSUME NEW t \in RunState, Become(r, t), t.pc = "done", t.rc = s.rc,
               t.op = s.op, t.uploaded = s.uploaded, t.base = s.base,
               t.sentinel = s.sentinel, t.effects = s.effects, t.blind = s.blind,
               t.del = s.del, t.add = s.add, t.inSession = s.inSession,
               t.staged \subseteq s.staged
        PROVE  IndInv'
    <2>1. Leaves(t, s)
      BY <1>3 DEF Leaves
    <2>2. Disjoint(t) /\ Reported(t) /\ TidiedUp(t)
      BY <1>2, <1>3 DEF Disjoint, Reported, TidiedUp
    <2> QED
      BY <1>0, <1>3, <2>1, <2>2, EndingInv
  <1>4. CASE Become(r, [g EXCEPT !.staged = {}])
    <2> DEFINE t == [g EXCEPT !.staged = {}]
    <2>1. Become(r, t)
      BY <1>4
    <2> HIDE DEF g
    <2>2. /\ t \in RunState /\ t.pc = "done" /\ t.rc = s.rc
          /\ t.op = s.op /\ t.uploaded = s.uploaded /\ t.base = s.base
          /\ t.sentinel = s.sentinel /\ t.effects = s.effects
          /\ t.blind = s.blind /\ t.del = s.del /\ t.add = s.add
          /\ t.inSession = s.inSession /\ t.staged = {}
      BY <1>1 DEF RunState, SameButStage
    <2> HIDE DEF t
    <2> QED
      BY <1>3, <2>1, <2>2
  <1>5. CASE Become(r, g)
    <2> HIDE DEF g
    <2> QED
      BY <1>1, <1>3, <1>5 DEF SameButStage
  <1> QED
    BY <1>4, <1>5 DEF OuterRemove

\* A lost connection fails what is being sent and nothing else.
LEMMA DisconnectInv ==
    ASSUME IndInv, NEW r \in Runs, Disconnect(r)
    PROVE  IndInv'
  <1> DEFINE s == run[r]
             to == IF s.pc \in Sending THEN "failed" ELSE s.pc
             t == [s EXCEPT !.link = FALSE, !.pc = to]
  <1>0. /\ TypeOK /\ s \in RunState /\ Local(s) /\ DeviceUnchanged
        /\ Become(r, t) /\ s.pc \in InFlight
        /\ ~disturbed[r] => Settled(s, active, boot)
    BY DEF IndInv, TypeOK, Disconnect
  <1>1. to \in Stages /\ (to = s.pc \/ to = "failed")
    BY <1>0, StageNames DEF RunState
  <1> HIDE DEF to
  <1>2. /\ t \in RunState /\ t.pc = to /\ t.rc = s.rc /\ t.op = s.op
        /\ t.staged = s.staged /\ t.uploaded = s.uploaded
        /\ t.inSession = s.inSession /\ t.del = s.del /\ t.add = s.add
        /\ t.next = s.next /\ t.didCommit = s.didCommit /\ t.didSave = s.didSave
        /\ t.cleanupFailed = s.cleanupFailed /\ t.sentinel = s.sentinel
        /\ t.base = s.base /\ t.effects = s.effects /\ t.blind = s.blind
    BY <1>0, <1>1 DEF RunState
  <1> HIDE DEF t
  <1>3. CASE to = "failed"
    <2>1. Leaves(t, s)
      BY <1>2, <1>3 DEF Leaves
    <2>2. Disjoint(t) /\ Reported(t) /\ TidiedUp(t)
      BY <1>0, <1>2, <1>3 DEF Local, Disjoint, Reported, TidiedUp, Ending
    <2> QED
      BY <1>0, <1>2, <1>3, <2>1, <2>2, EndingInv
  <1>4. CASE to = s.pc
    <2>1. Local(t)
      BY <1>0, <1>2, <1>4 DEF Local, Pristine, InBounds, Running, Accounted,
         Reported, TidiedUp, Guarded, Disjoint
    <2>2. ~disturbed[r] => Settled(t, active, boot)
      <3>1. Target(t) = Target(s) /\ TargetUpTo(t, t.next) = TargetUpTo(s, s.next)
        BY <1>2, TargetFields
      <3>2. Candidate(t, active) = Candidate(s, active) /\ (MustSave(t) <=> MustSave(s))
        BY <1>2 DEF Candidate, MustSave
      <3> QED
        BY <1>0, <1>2, <1>4, <3>1, <3>2 DEF Settled, Exact, Durable, Real
    <2> QED
      BY <1>0, <1>2, <2>1, <2>2, QuietInv
  <1> QED
    BY <1>1, <1>3, <1>4

\* A signal ends the body, wherever it is.
LEMMA InterruptInv ==
    ASSUME IndInv, NEW r \in Runs, Interrupt(r)
    PROVE  IndInv'
  <1> DEFINE t == Exit1(r)
  <1>1. /\ t \in RunState /\ t.pc = "teardown" /\ t.rc = 1
        /\ SameButStage(t, run[r])
    BY Exit1Fields DEF IndInv
  <1>2. Become(r, t) /\ DeviceUnchanged /\ run[r].pc \in Body /\ Local(run[r])
    BY DEF IndInv, Interrupt
  <1> HIDE DEF t
  <1>3. Leaves(t, run[r])
    BY <1>1 DEF Leaves, SameButStage, Ending
  <1>4. /\ Disjoint(t) /\ Reported(t) /\ TidiedUp(t)
        /\ ~t.cleanupFailed
    BY <1>1, <1>2 DEF Local, Running, Disjoint, Reported, TidiedUp, SameButStage
  <1> QED
    BY <1>1, <1>2, <1>3, <1>4, EndingInv

\* A killed script leaves whatever it had behind, and never a success.
LEMMA KillInv ==
    ASSUME IndInv, NEW r \in Runs, Kill(r)
    PROVE  IndInv'
  <1>1. TypeOK /\ DeviceUnchanged /\ Local(run[r])
    BY DEF IndInv, Kill
  <1>2. CASE Become(r, [Goto(r, "outer") EXCEPT !.rc = 1])
    <2> DEFINE g == Goto(r, "outer")
               t == [g EXCEPT !.rc = 1]
    <2>1. g \in RunState /\ g.pc = "outer" /\ SameButStage(g, run[r])
      BY <1>1, GotoFields, StageNames
    <2>2. Become(r, t)
      BY <1>2
    <2> HIDE DEF g
    <2>3. t \in RunState /\ t.pc = "outer" /\ t.rc = 1 /\ SameButStage(t, run[r])
      BY <2>1 DEF RunState, SameButStage
    <2> HIDE DEF t
    <2>4. Leaves(t, run[r]) /\ Disjoint(t) /\ Reported(t) /\ TidiedUp(t)
      BY <1>1, <2>3 DEF Leaves, SameButStage, Ending, Local, Disjoint, Reported, TidiedUp
    <2> QED
      BY <1>1, <2>2, <2>3, <2>4, EndingInv
  <1>3. CASE Become(r, Goto(r, "failed"))
    <2> DEFINE t == Goto(r, "failed")
    <2>1. t \in RunState /\ t.pc = "failed" /\ SameButStage(t, run[r])
      BY <1>1, GotoFields, StageNames
    <2> HIDE DEF t
    <2>2. Leaves(t, run[r]) /\ Disjoint(t) /\ Reported(t) /\ TidiedUp(t)
      BY <1>1, <2>1 DEF Leaves, SameButStage, Ending, Local, Disjoint, Reported, TidiedUp
    <2> QED
      BY <1>1, <1>3, <2>1, <2>2, EndingInv DEF t
  <1> QED
    BY <1>2, <1>3 DEF Kill

\* Who is not disturbed by a write of somebody else's has not opened its
\* session, or sees the device as it was.
LEMMA Undisturbed ==
    ASSUME IndInv, NEW a, NEW b, DeviceWrite({}, a, b),
           NEW q \in Runs, ~disturbed'[q]
    PROVE  /\ Settled(run[q], active, boot)
           /\ \/ run[q].pc \in NotYetOpen /\ Pristine(run[q])
              \/ a = active /\ b = boot
  <1>1. ~disturbed[q] /\ (run[q].pc \in NotYetOpen \/ (a = active /\ b = boot))
    BY DEF DeviceWrite
  <1> QED
    BY <1>1 DEF IndInv, Local

\* Somebody else's commit or save disturbs the sessions that are open.
LEMMA AdminInv ==
    ASSUME IndInv, Admin
    PROVE  IndInv'
  <1>1. active \in Configs /\ boot \in Configs /\ TypeOK
    BY DEF IndInv, TypeOK
  <1>2. ASSUME NEW a \in Configs, NEW b \in Configs, DeviceWrite({}, a, b)
        PROVE  IndInv'
    <2>1. UNCHANGED run /\ active' = a /\ boot' = b
      BY <1>2 DEF Admin, DeviceWrite
    <2>2. TypeOK'
      BY <1>1, <1>2, <2>1 DEF TypeOK, DeviceWrite
    <2>3. \A q \in Runs : Local(run'[q])
      BY <2>1 DEF IndInv
    <2>4. ASSUME NEW q \in Runs, ~disturbed'[q]
          PROVE  Settled(run'[q], a, b)
      BY <1>2, <2>1, <2>4, Undisturbed, PristineSettled
    <2> QED
      BY <2>1, <2>2, <2>3, <2>4 DEF IndInv
  <1> QED
    BY <1>1, <1>2 DEF Admin

\* A reboot ends every run and makes the active configuration that on disk.
LEMMA RebootInv ==
    ASSUME IndInv, Reboot
    PROVE  IndInv'
  <1> DEFINE to(q) == IF run[q].pc \in InFlight THEN "failed" ELSE run[q].pc
             left(keep, q) == IF keep THEN run[q].staged ELSE {}
             t(keep, q) == [ run[q] EXCEPT !.pc = to(q), !.inSession = FALSE,
                                           !.del = {}, !.add = {},
                                           !.staged = left(keep, q) ]
  <1> PICK keep \in BOOLEAN : run' = [q \in Runs |-> t(keep, q)]
    BY DEF Reboot
  <1>1. boot \in Configs /\ TypeOK /\ DeviceWrite({}, boot, boot)
    BY DEF IndInv, TypeOK, Reboot
  <1>2. ASSUME NEW q \in Runs
        PROVE  /\ run'[q] \in RunState
               /\ Local(run'[q])
               /\ ~disturbed'[q] => Settled(run'[q], boot, boot)
    <2> DEFINE s == run[q]
               pc == to(q)
               files == left(keep, q)
               u == [ s EXCEPT !.pc = pc, !.inSession = FALSE, !.del = {},
                               !.add = {}, !.staged = files ]
    <2>1. run'[q] = u
      OBVIOUS
    <2>2. s \in RunState /\ Local(s) /\ {} \in Configs
      BY DEF IndInv, TypeOK, Configs
    <2>3. /\ files \in SUBSET {"dir", "config", "script"} /\ files \subseteq s.staged
      BY <2>2 DEF RunState
    <2>4. /\ pc \in Stages /\ pc \in {"idle", "done", "failed"}
          /\ pc # "failed" => pc = s.pc
      BY <2>2, StageNames DEF RunState, Stages
    <2> HIDE DEF pc, files
    <2>5. /\ u \in RunState /\ u.pc = pc /\ u.inSession = FALSE /\ u.staged = files
          /\ u.del = {} /\ u.add = {} /\ u.next = s.next /\ u.rc = s.rc
          /\ u.op = s.op /\ u.uploaded = s.uploaded /\ u.base = s.base
          /\ u.didCommit = s.didCommit /\ u.didSave = s.didSave
          /\ u.cleanupFailed = s.cleanupFailed /\ u.sentinel = s.sentinel
          /\ u.effects = s.effects /\ u.blind = s.blind
      BY <2>2, <2>3, <2>4 DEF RunState
    <2> HIDE DEF u
    <2>6. CASE pc = "idle"
      <3>1. s.pc \in NotYetOpen /\ Pristine(s) /\ u.pc \in NotYetOpen
        BY <2>2, <2>4, <2>5, <2>6 DEF Local, NotYetOpen
      <3>2. Local(u)
        <4>1. u.pc = "idle" /\ s.pc = "idle"
          BY <2>4, <2>5, <2>6
        <4>2. Pristine(u) /\ Disjoint(u)
          BY <2>5, <3>1 DEF Pristine, Disjoint
        <4>3. InBounds(u)
          BY <2>2, <2>5, <3>1, <4>1 DEF Local, InBounds
        <4>4. Running(u) /\ Reported(u) /\ TidiedUp(u) /\ Guarded(u)
          BY <4>1 DEF Running, Reported, TidiedUp, Guarded, Body, Ending
        <4>5. Accounted(u)
          BY <2>2, <2>5, <4>1 DEF Local, Accounted, Body
        <4> QED
          BY <4>2, <4>3, <4>4, <4>5 DEF Local
      <3>3. Settled(u, boot, boot)
        BY <3>1, <3>2, PristineSettled DEF Local
      <3> QED
        BY <2>1, <2>5, <3>2, <3>3
    <2>7. CASE pc \in {"done", "failed"}
      <3>1. Leaves(u, s) /\ Disjoint(u)
        BY <2>5, <2>7 DEF Leaves, Disjoint
      <3>2. Reported(u) /\ TidiedUp(u)
        BY <2>2, <2>3, <2>4, <2>5, <2>7 DEF Local, Reported, TidiedUp, Ending
      <3>3. Local(u)
        BY <2>2, <2>5, <2>7, <3>1, <3>2, LeavesLocal
      <3>4. ASSUME ~disturbed'[q]
            PROVE  Settled(u, boot, boot)
        <4>1. /\ Settled(s, active, boot)
              /\ \/ s.pc \in NotYetOpen /\ Pristine(s)
                 \/ boot = active
          BY <1>1, <3>4, Undisturbed
        <4>2. Settled(s, boot, boot)
          BY <4>1, PristineSettled
        <4> QED
          BY <3>1, <4>2, LeavesSettled
      <3> QED
        BY <2>1, <2>5, <3>3, <3>4
    <2> QED
      BY <2>4, <2>6, <2>7
  <1>3. TypeOK'
    BY <1>1, <1>2 DEF TypeOK, DeviceWrite
  <1> QED
    BY <1>1, <1>2, <1>3 DEF IndInv, DeviceWrite

-----------------------------------------------------------------------------
(* The theorems.                                                            *)

\* At the start nothing has been asked for.
LEMMA InitInv == Init => IndInv
  <1> SUFFICES ASSUME Init PROVE IndInv
    OBVIOUS
  <1> USE DEF Init
  <1>1. Fresh \in RunState
    <2>1. {} \in Configs /\ "idle" \in Stages
      BY StageNames DEF Configs
    <2> QED
      BY <2>1 DEF Fresh, RunState
  <1>2. TypeOK
    BY <1>1 DEF TypeOK
  <1>3. Local(Fresh)
    BY DEF Fresh, NoRequest, Local, Pristine, InBounds, Running, Accounted,
       Reported, TidiedUp, Guarded, Disjoint, NotYetOpen, Sending, Body, Ending
  <1>4. \A a, b : Settled(Fresh, a, b)
    BY <1>3, PristineSettled DEF Local, Fresh, NotYetOpen
  <1> QED
    BY <1>2, <1>3, <1>4 DEF IndInv

\* Every step of the system, faults included, keeps the invariant.
LEMMA NextInv == IndInv /\ [Next]_vars => IndInv'
  <1> SUFFICES ASSUME IndInv, [Next]_vars PROVE IndInv'
    OBVIOUS
  <1>1. ASSUME NEW r \in Runs, Begin(r) PROVE IndInv'
    BY <1>1, BeginInv
  <1>2. ASSUME NEW r \in Runs, RunStep(r) PROVE IndInv'
    <2>1. CASE SendStep(r)
      BY <2>1, SendStepInv
    <2>2. CASE BodyStep(r)
      BY <2>2, BodyStepInv
    <2>3. CASE EndStep(r)
      BY <2>3, TeardownInv, RemoveStagingInv, OuterRemoveInv DEF EndStep
    <2> QED
      BY <1>2, <2>1, <2>2, <2>3 DEF RunStep
  <1>3. ASSUME NEW r \in Runs, Fault(r) PROVE IndInv'
    BY <1>3, DisconnectInv, InterruptInv, KillInv DEF Fault
  <1>4. CASE Reboot
    BY <1>4, RebootInv
  <1>5. CASE Admin
    BY <1>5, AdminInv
  <1>6. CASE UNCHANGED vars
    <2>1. UNCHANGED active /\ UNCHANGED boot /\ UNCHANGED run /\ UNCHANGED disturbed
      BY <1>6 DEF vars
    <2>2. TypeOK'
      BY <2>1 DEF IndInv, TypeOK
    <2> QED
      BY <2>1, <2>2 DEF IndInv
  <1> QED
    BY <1>1, <1>2, <1>3, <1>4, <1>5, <1>6 DEF Next, AllOver

\* The invariant that ties did_commit, did_save, the sentinel and the exit
\* code of every run to what the run did to the device.
THEOREM Invariance == Spec => []IndInv
  BY InitInv, NextInv, PTL DEF Spec

\* The script variables and the device always have values of their types.
THEOREM TypeCorrect == Spec => []TypeOK
  <1>1. IndInv => TypeOK
    BY DEF IndInv
  <1> QED
    BY <1>1, Invariance, PTL

\* A run that says noop changed nothing, whatever went on around it.
THEOREM NoopSound == Spec => []NoopIsHonest
  <1>1. IndInv => NoopIsHonest
    BY DEF IndInv, Local, Accounted, NoopIsHonest
  <1> QED
    BY <1>1, Invariance, PTL

\* A run that says changed and was left alone did change something.
THEOREM ChangedSound == Spec => []ChangedIsReal
  <1>1. IndInv => ChangedIsReal
    BY DEF IndInv, Settled, Real, ChangedIsReal
  <1> QED
    BY <1>1, Invariance, PTL

\* A run that exits 0 and was left alone did what it was asked to do, exactly.
THEOREM SuccessExact == Spec => []SuccessIsExact
  <1>1. IndInv => SuccessIsExact
    <2> SUFFICES ASSUME IndInv, NEW r \in Runs, Succeeded(r), ~disturbed[r],
                        "mask" \notin run[r].blind
                 PROVE  active = Target(run[r])
      BY DEF SuccessIsExact
    <2>1. run[r].sentinel # "none"
      BY DEF IndInv, Local, Reported, Succeeded
    <2> QED
      BY <2>1 DEF IndInv, Settled, Exact
  <1> QED
    BY <1>1, Invariance, PTL

\* A run that exits 0, saves and was left alone left everything on disk.
THEOREM SuccessDurable == Spec => []SuccessIsDurable
  <1>1. IndInv => SuccessIsDurable
    <2> SUFFICES ASSUME IndInv, NEW r \in Runs, Succeeded(r), ~disturbed[r],
                        run[r].op.save,
                        run[r].op.kind = "commands" => run[r].sentinel = "changed"
                 PROVE  boot = active
      BY DEF SuccessIsDurable
    <2>1. run[r].sentinel # "none"
      BY DEF IndInv, Local, Reported, Succeeded
    <2> QED
      BY <2>1 DEF IndInv, Settled, Durable
  <1> QED
    BY <1>1, Invariance, PTL

\* Nothing that is only part of what was asked for is ever saved.
THEOREM NoPartialSave == Spec => []NeverSavesPartial
  <1>1. IndInv => NeverSavesPartial
    BY DEF IndInv, Settled, Exact, Durable, NeverSavesPartial
  <1> QED
    BY <1>1, Invariance, PTL

\* An exit code of 0 leaves no staged file, and no session that could be seen.
THEOREM SuccessClean == Spec => []SuccessIsClean
  <1>1. IndInv => SuccessIsClean
    BY DEF IndInv, Local, TidiedUp, Succeeded, SuccessIsClean
  <1> QED
    BY <1>1, Invariance, PTL

\* No run is a success without having said what it did.
THEOREM SuccessSpeaks == Spec => []SuccessHasSentinel
  <1>1. IndInv => SuccessHasSentinel
    BY DEF IndInv, Local, Reported, Succeeded, SuccessHasSentinel
  <1> QED
    BY <1>1, Invariance, PTL

\* The file that is loaded is never blank.
THEOREM BlankRefused == Spec => []NeverLoadsBlank
  <1>1. IndInv => NeverLoadsBlank
    BY DEF IndInv, Local, Guarded, NeverLoadsBlank
  <1> QED
    BY <1>1, Invariance, PTL

-----------------------------------------------------------------------------
(* Serialized runs are alone: what the documented precondition is good for, *)
(* for any number of runs.                                                  *)
(*                                                                         *)
(* Every step of a run replaces the run's own state, keeps its connection   *)
(* and writes to the device on its own account only (OwnStep).  So as long  *)
(* as no connection is lost a run that is over to its caller really is over, *)
(* and at most one is in flight.  A lost connection does not come back.     *)

\* Nobody but the runs of a serializing caller writes to the device.
Serialized == CallerSerializes /\ Faults \cap {"admin", "reboot"} = {}

LinksUp == \A r \in Runs : run[r].link

\* At most one run is in flight, and no such run, nor one that is still to come,
\* has been disturbed.
Alone ==
    /\ TypeOK
    /\ \A r \in Runs : run[r].link
    /\ \A r, q \in Runs : run[r].pc \in InFlight /\ run[q].pc \in InFlight => r = q
    /\ \A r \in Runs : run[r].pc \in InFlight \cup {"idle"} => ~disturbed[r]

\* A step that is the run's own.
OwnStep(r) ==
    /\ run[r].pc \in InFlight
    /\ \E s : Become(r, s) /\ s.link = run[r].link
    /\ \E a, b : DeviceWrite({r}, a, b)

-----------------------------------------------------------------------------
(* Every step of a run is its own.                                          *)

\* Writing nothing is writing what is there.
LEMMA QuietIsOwn ==
    ASSUME TypeOK, NEW r \in Runs, run[r].pc \in InFlight,
           NEW s, Become(r, s), s.link = run[r].link, DeviceUnchanged
    PROVE  OwnStep(r)
  BY NoWrite DEF OwnStep

\* The states a run goes to are made from its own.
LEMMA LinkStays ==
    ASSUME TypeOK, NEW r \in Runs
    PROVE  /\ \A stage : Goto(r, stage).link = run[r].link
           /\ Exit1(r).link = run[r].link
  BY DEF TypeOK, RunState, Goto, Exit1

\* What the controller sends for a run is that run's own step.
LEMMA SendStepOwn ==
    ASSUME TypeOK, NEW r \in Runs, SendStep(r)
    PROVE  OwnStep(r)
  <1>1. run[r] \in RunState
    BY DEF TypeOK
  <1>2. ASSUME NEW stage \in Sending, NEW sent, sent.link = run[r].link, Send(r, stage, sent)
        PROVE  OwnStep(r)
    BY <1>2, LinkStays, QuietIsOwn DEF Send, At, InFlight
  <1>3. CASE Probe(r)
    BY <1>2, <1>3, LinkStays DEF Probe, Sending
  <1>4. CASE MakeStaging(r)
    <2> DEFINE stage == IF run[r].op.kind = "load" THEN "putConfig" ELSE "putScript"
               sent == [Goto(r, stage) EXCEPT !.staged = {"dir"}]
    <2>1. sent.link = run[r].link
      BY <1>1 DEF RunState, Goto
    <2> QED
      BY <1>2, <1>4, <2>1 DEF MakeStaging, Sending
  <1>5. CASE PutConfig(r)
    <2> PICK content : Send(r, "putConfig", [ Goto(r, "guard") EXCEPT
                            !.staged = @ \cup {"config"}, !.uploaded = content ])
      BY <1>5 DEF PutConfig
    <2>1. [ Goto(r, "guard") EXCEPT !.staged = @ \cup {"config"},
                                    !.uploaded = content ].link = run[r].link
      BY <1>1 DEF RunState, Goto
    <2> QED
      BY <1>2, <2>1 DEF Sending
  <1>6. CASE GuardConfig(r)
    BY <1>2, <1>6, LinkStays DEF GuardConfig, Sending
  <1>7. CASE PutScript(r)
    <2>1. [Goto(r, "chmod") EXCEPT !.staged = @ \cup {"script"}].link = run[r].link
      BY <1>1 DEF RunState, Goto
    <2> QED
      BY <1>2, <1>7, <2>1 DEF PutScript, Sending
  <1>8. CASE ChmodScript(r)
    BY <1>2, <1>8, LinkStays DEF ChmodScript, Sending
  <1>9. CASE ExecScript(r)
    <2>1. [Goto(r, "outer") EXCEPT !.rc = 1].link = run[r].link
      BY <1>1 DEF RunState, Goto
    <2>2. run[r].pc \in InFlight /\ DeviceUnchanged
      BY <1>9 DEF ExecScript, At, InFlight, Sending
    <2> QED
      BY <1>9, <2>1, <2>2, LinkStays, QuietIsOwn DEF ExecScript
  <1> QED
    BY <1>3, <1>4, <1>5, <1>6, <1>7, <1>8, <1>9 DEF SendStep

\* A line of the script up to its sentinel is the run's own step.
LEMMA BodyStepOwn ==
    ASSUME TypeOK, NEW r \in Runs, BodyStep(r)
    PROVE  OwnStep(r)
  <1>1. run[r] \in RunState /\ run[r].pc \in InFlight
    BY DEF TypeOK, BodyStep, Configure, LoadConfig, RunCommand, CommitGate, Commit,
       CommitPostcondition, NeedsSave, Save, SavePostcondition, EmitSentinel,
       At, InFlight, Body
  <1>2. ASSUME NEW s, s.link = run[r].link, Become(r, s), DeviceUnchanged
        PROVE  OwnStep(r)
    BY <1>1, <1>2, QuietIsOwn
  <1>3. CASE Configure(r)
    <2>1. \A stage : [ Goto(r, stage) EXCEPT !.inSession = TRUE, !.base = active ].link = run[r].link
      BY <1>1 DEF RunState, Goto
    <2>2. [Exit1(r) EXCEPT !.base = active].link = run[r].link
      BY <1>1 DEF RunState, Exit1
    <2> QED
      BY <1>2, <1>3, <2>1, <2>2 DEF Configure
  <1>4. CASE LoadConfig(r)
    <2>1. \E s : Become(r, s) /\ s.link = run[r].link
      <3>1. CASE Become(r, Exit1(r))
        BY <3>1, LinkStays
      <3>2. ASSUME NEW part,
                   Become(r, [ Goto(r, "gate") EXCEPT
                                !.del = (active \ run[r].uploaded) \cap part,
                                !.add = (run[r].uploaded \ active) \cap part,
                                !.blind = IF part = Nodes THEN @ ELSE {"mask"} ])
            PROVE  \E s : Become(r, s) /\ s.link = run[r].link
        <4>1. [ Goto(r, "gate") EXCEPT
                  !.del = (active \ run[r].uploaded) \cap part,
                  !.add = (run[r].uploaded \ active) \cap part,
                  !.blind = IF part = Nodes THEN @ ELSE {"mask"} ].link = run[r].link
          BY <1>1 DEF RunState, Goto
        <4> QED
          BY <3>2, <4>1
      <3> QED
        BY <1>4, <3>1, <3>2 DEF LoadConfig
    <2> QED
      BY <1>2, <1>4, <2>1 DEF LoadConfig
  <1>5. CASE RunCommand(r)
    <2> DEFINE after == IF run[r].next = Len(run[r].op.cmds) THEN "gate" ELSE "apply"
               command == run[r].op.cmds[run[r].next]
               step(t) == [t EXCEPT !.next = run[r].next + 1, !.pc = after]
    <2>1. step(Applied(run[r], command)).link = run[r].link
      BY <1>1 DEF RunState, Applied
    <2>2. step([run[r] EXCEPT !.blind = {"mask"}]).link = run[r].link
      BY <1>1 DEF RunState
    <2>3. \/ Become(r, step(Applied(run[r], command)))
          \/ Become(r, step([run[r] EXCEPT !.blind = {"mask"}]))
          \/ Become(r, Exit1(r))
      BY <1>5 DEF RunCommand
    <2>4. DeviceUnchanged
      BY <1>5 DEF RunCommand
    <2> HIDE DEF step
    <2> QED
      BY <1>2, <2>1, <2>2, <2>3, <2>4, LinkStays
  <1>6. CASE CommitGate(r)
    BY <1>2, <1>6, LinkStays DEF CommitGate
  <1>7. CASE Commit(r)
    <2> PICK part \in SUBSET Nodes :
          LET s   == run[r]
              new == (active \ (s.del \cap part)) \cup (s.add \cap part)
          IN  /\ DeviceWrite({r}, new, boot)
              /\ Become(r, [ Goto(r, "post") EXCEPT
                                 !.del = @ \ part, !.add = @ \ part,
                                 !.effects = IF new = active THEN @ ELSE @ \cup {"active"} ])
      BY <1>7 DEF Commit
    <2> DEFINE new == (active \ (run[r].del \cap part)) \cup (run[r].add \cap part)
               t == [ Goto(r, "post") EXCEPT
                        !.del = @ \ part, !.add = @ \ part,
                        !.effects = IF new = active THEN @ ELSE @ \cup {"active"} ]
    <2>1. t.link = run[r].link
      BY <1>1 DEF RunState, Goto
    <2>2. Become(r, t) /\ DeviceWrite({r}, new, boot)
      OBVIOUS
    <2> HIDE DEF t, new
    <2> QED
      BY <1>1, <2>1, <2>2 DEF OwnStep
  <1>8. CASE CommitPostcondition(r)
    <2> DEFINE committed == [run[r] EXCEPT !.didCommit = TRUE]
               t == [committed EXCEPT !.pc = AfterCommit(committed)]
    <2>1. t.link = run[r].link
      BY <1>1 DEF RunState
    <2>2. (Become(r, t) \/ Become(r, Exit1(r))) /\ DeviceUnchanged
      BY <1>8 DEF CommitPostcondition
    <2> HIDE DEF t
    <2> QED
      BY <1>2, <2>1, <2>2, LinkStays
  <1>9. CASE NeedsSave(r)
    <2>1. [Goto(r, "save") EXCEPT !.blind = @ \cup {"save"}].link = run[r].link
      BY <1>1 DEF RunState, Goto
    <2> QED
      BY <1>2, <1>9, <2>1, LinkStays DEF NeedsSave
  <1>10. CASE Save(r)
    <2> DEFINE t == [ Goto(r, "recheck") EXCEPT
                        !.effects = IF SavePending THEN @ \cup {"boot"} ELSE @ ]
    <2>1. t.link = run[r].link
      BY <1>1 DEF RunState, Goto
    <2>2. \/ DeviceWrite({r}, active, active) /\ Become(r, t)
          \/ Become(r, Goto(r, "recheck")) /\ DeviceUnchanged
      BY <1>10 DEF Save
    <2> HIDE DEF t
    <2> QED
      BY <1>1, <1>2, <2>1, <2>2, LinkStays DEF OwnStep
  <1>11. CASE SavePostcondition(r)
    <2>1. [Goto(r, "emit") EXCEPT !.didSave = TRUE].link = run[r].link
      BY <1>1 DEF RunState, Goto
    <2> QED
      BY <1>2, <1>11, <2>1, LinkStays DEF SavePostcondition
  <1>12. CASE EmitSentinel(r)
    <2> DEFINE t == [ Goto(r, "teardown") EXCEPT
                        !.sentinel = IF run[r].didCommit \/ run[r].didSave
                                     THEN "changed" ELSE "noop" ]
    <2>1. t.link = run[r].link
      BY <1>1 DEF RunState, Goto
    <2>2. Become(r, t) /\ DeviceUnchanged
      BY <1>12 DEF EmitSentinel
    <2> HIDE DEF t
    <2> QED
      BY <1>2, <2>1, <2>2
  <1> QED
    BY <1>3, <1>4, <1>5, <1>6, <1>7, <1>8, <1>9, <1>10, <1>11, <1>12 DEF BodyStep

\* The EXIT trap and the wrapper around the script are the run's own steps.
LEMMA EndStepOwn ==
    ASSUME TypeOK, NEW r \in Runs, EndStep(r)
    PROVE  OwnStep(r)
  <1>1. run[r] \in RunState /\ run[r].pc \in InFlight
    BY DEF TypeOK, EndStep, Teardown, RemoveStaging, OuterRemove, At, InFlight, Ending
  <1>2. ASSUME NEW s, s.link = run[r].link, Become(r, s), DeviceUnchanged
        PROVE  OwnStep(r)
    BY <1>1, <1>2, QuietIsOwn
  <1>3. CASE Teardown(r)
    <2>1. /\ [ Goto(r, "remove") EXCEPT !.inSession = FALSE,
                                        !.del = {}, !.add = {} ].link = run[r].link
          /\ [Goto(r, "remove") EXCEPT !.blind = @ \cup {"teardown"}].link = run[r].link
          /\ [Goto(r, "remove") EXCEPT !.cleanupFailed = TRUE].link = run[r].link
      BY <1>1 DEF RunState, Goto
    <2> QED
      BY <1>2, <1>3, <2>1, LinkStays DEF Teardown
  <1>4. CASE RemoveStaging(r)
    <2>1. ASSUME NEW failed, NEW left, TrapExit(r, failed, left)
          PROVE  \E s : Become(r, s) /\ s.link = run[r].link
      <3>1. [ Goto(r, "outer") EXCEPT
                    !.staged = left, !.cleanupFailed = failed,
                    !.rc = IF failed /\ @ = 0 THEN 1 ELSE @ ].link = run[r].link
        BY <1>1 DEF RunState, Goto
      <3> QED
        BY <2>1, <3>1 DEF TrapExit
    <2> QED
      BY <1>2, <1>4, <2>1 DEF RemoveStaging
  <1>5. CASE OuterRemove(r)
    <2>1. [Goto(r, "done") EXCEPT !.staged = {}].link = run[r].link
      BY <1>1 DEF RunState, Goto
    <2> QED
      BY <1>2, <1>5, <2>1, LinkStays DEF OuterRemove
  <1> QED
    BY <1>3, <1>4, <1>5 DEF EndStep

\* A signal, or a kill, is the run's own end.
LEMMA SignalOwn ==
    ASSUME TypeOK, NEW r \in Runs, Interrupt(r) \/ Kill(r)
    PROVE  OwnStep(r)
  <1>1. run[r] \in RunState /\ run[r].pc \in InFlight /\ DeviceUnchanged
    BY DEF TypeOK, Interrupt, Kill, InFlight
  <1>2. [Goto(r, "outer") EXCEPT !.rc = 1].link = run[r].link
    BY <1>1 DEF RunState, Goto
  <1> QED
    BY <1>1, <1>2, LinkStays, QuietIsOwn DEF Interrupt, Kill

-----------------------------------------------------------------------------
(* At most one run is in flight.                                            *)

\* A run's own step leaves every other run as it was, and disturbs none of
\* those that matter.
LEMMA OwnStepAlone ==
    ASSUME Alone, TypeOK', NEW r \in Runs, OwnStep(r)
    PROVE  Alone'
  <1> PICK s : Become(r, s) /\ s.link = run[r].link
    BY DEF OwnStep
  <1> PICK a, b : DeviceWrite({r}, a, b)
    BY DEF OwnStep
  <1>1. /\ run'[r] = s /\ run[r].pc \in InFlight
        /\ \A q \in Runs \ {r} : run'[q] = run[q] /\ run[q].pc \notin InFlight
    BY DEF Become, Alone, TypeOK, OwnStep
  <1>2. ~disturbed[r] /\ ~disturbed'[r]
    BY DEF DeviceWrite, Alone, TypeOK, OwnStep
  <1>3. ASSUME NEW q \in Runs \ {r}, run[q].pc = "idle"
        PROVE  ~disturbed'[q]
    BY <1>3 DEF DeviceWrite, Alone, NotYetOpen
  <1>4. \A q \in Runs : run'[q].link
    BY <1>1 DEF Alone
  <1>5. \A p, q \in Runs : run'[p].pc \in InFlight /\ run'[q].pc \in InFlight => p = q
    BY <1>1
  <1>6. \A q \in Runs : run'[q].pc \in InFlight \cup {"idle"} => ~disturbed'[q]
    BY <1>1, <1>2, <1>3
  <1> QED
    BY <1>4, <1>5, <1>6 DEF Alone

\* The caller begins a run only when it has none in flight.
LEMMA BeginAlone ==
    ASSUME Alone, TypeOK', Serialized, NEW r \in Runs, Begin(r)
    PROVE  Alone'
  <1> PICK request \in Requests : Become(r, [Goto(r, "probe") EXCEPT !.op = request])
    BY DEF Begin
  <1>1. [Goto(r, "probe") EXCEPT !.op = request].link = run[r].link
    BY DEF Alone, TypeOK, RunState, Goto
  <1>2. run'[r].link /\ \A q \in Runs \ {r} : run'[q] = run[q]
    BY <1>1 DEF Become, Alone, TypeOK
  <1>3. \A q \in Runs \ {r} : run[q].pc \notin InFlight
    BY DEF Begin, Serialized, Released, Alone, InFlight, Sending, Body, Ending
  <1>4. disturbed' = disturbed /\ ~disturbed[r]
    BY DEF Begin, At, DeviceUnchanged, Alone
  <1>5. \A q \in Runs : run'[q].link
    BY <1>2 DEF Alone
  <1>6. \A p, q \in Runs : run'[p].pc \in InFlight /\ run'[q].pc \in InFlight => p = q
    BY <1>2, <1>3
  <1>7. \A q \in Runs : run'[q].pc \in InFlight \cup {"idle"} => ~disturbed'[q]
    BY <1>2, <1>4 DEF Alone
  <1> QED
    BY <1>5, <1>6, <1>7 DEF Alone

\* A step of the runs that leaves all connections up found them up: a lost one
\* does not come back, and a step that loses one shows it.
LEMMA LinksStay ==
    ASSUME TypeOK, Serialized, [Next]_vars, LinksUp'
    PROVE  LinksUp /\ ~\E r \in Runs : Disconnect(r)
  <1>1. ASSUME NEW r \in Runs, Begin(r)
        PROVE  LinksUp
    <2> PICK request \in Requests : Become(r, [Goto(r, "probe") EXCEPT !.op = request])
      BY <1>1 DEF Begin
    <2>1. [Goto(r, "probe") EXCEPT !.op = request].link = run[r].link
      BY DEF TypeOK, RunState, Goto
    <2> QED
      BY <2>1 DEF Become, TypeOK, LinksUp
  <1>2. ASSUME NEW r \in Runs, RunStep(r) \/ Interrupt(r) \/ Kill(r)
        PROVE  LinksUp
    <2>1. OwnStep(r)
      BY <1>2, SendStepOwn, BodyStepOwn, EndStepOwn, SignalOwn DEF RunStep
    <2> PICK s : Become(r, s) /\ s.link = run[r].link
      BY <2>1 DEF OwnStep
    <2> QED
      BY DEF Become, TypeOK, LinksUp
  <1>3. ~\E r \in Runs : Disconnect(r)
    <2> SUFFICES ASSUME NEW r \in Runs, Disconnect(r)
                 PROVE  FALSE
      OBVIOUS
    <2>1. run'[r].link = FALSE
      BY DEF Disconnect, Become, TypeOK, RunState
    <2> QED
      BY <2>1 DEF LinksUp
  <1>4. ~Reboot /\ ~Admin
    BY DEF Serialized, Reboot, Admin, May
  <1>5. CASE UNCHANGED vars
    BY <1>3, <1>5 DEF vars, LinksUp
  <1> QED
    BY <1>1, <1>2, <1>3, <1>4, <1>5 DEF Next, Fault, AllOver

\* While no connection is lost every step keeps the runs of a serializing
\* caller alone.
LEMMA NextAlone ==
    ASSUME Serialized, TypeOK, LinksUp => Alone, TypeOK', [Next]_vars
    PROVE  (LinksUp => Alone)'
  <1> SUFFICES ASSUME LinksUp'
               PROVE  Alone'
    OBVIOUS
  <1>1. Alone /\ ~\E r \in Runs : Disconnect(r)
    BY LinksStay
  <1>2. ASSUME NEW r \in Runs, Begin(r)
        PROVE  Alone'
    BY <1>1, <1>2, BeginAlone
  <1>3. ASSUME NEW r \in Runs, RunStep(r) \/ Interrupt(r) \/ Kill(r)
        PROVE  Alone'
    BY <1>1, <1>3, SendStepOwn, BodyStepOwn, EndStepOwn, SignalOwn, OwnStepAlone DEF RunStep
  <1>4. ~Reboot /\ ~Admin
    BY DEF Serialized, Reboot, Admin, May
  <1>5. CASE UNCHANGED vars
    BY <1>1, <1>5 DEF vars, Alone, TypeOK
  <1> QED
    BY <1>1, <1>2, <1>3, <1>4, <1>5 DEF Next, Fault, AllOver

-----------------------------------------------------------------------------
(* Theorem.                                                                 *)

\* One mutation session at a time, as the documentation asks of the caller, and
\* no session in flight is ever disturbed while no connection is lost, whichever
\* way the others ended: for any number of runs, any requests and every fault
\* but a reboot or another administrator.
THEOREM SerializedAlone == Spec => []SerializedRunsAreAlone
  <1>1. CASE Serialized
    <2>1. Init => (LinksUp => Alone)
      BY InitInv, StageNames DEF Init, IndInv, Alone, Fresh, InFlight, Sending, Body, Ending
    <2>2. TypeOK /\ TypeOK' /\ (LinksUp => Alone) /\ [Next]_vars => (LinksUp => Alone)'
      BY <1>1, NextAlone
    <2>3. (LinksUp => Alone) => SerializedRunsAreAlone
      BY DEF Alone, LinksUp, SerializedRunsAreAlone
    <2> QED
      BY <2>1, <2>2, <2>3, TypeCorrect, PTL DEF Spec
  <1>2. CASE ~Serialized
    <2>1. SerializedRunsAreAlone
      BY <1>2 DEF Serialized, SerializedRunsAreAlone
    <2> QED
      BY <2>1, PTL
  <1> QED
    BY <1>1, <1>2

=============================================================================
