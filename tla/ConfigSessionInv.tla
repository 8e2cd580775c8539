-------------------------- MODULE ConfigSessionInv --------------------------
(* The inductive invariant behind the properties of ConfigSession.  It      *)
(* follows a run through its stages: Local parts speak of the run alone,    *)
(* and Settled relates an undisturbed run to the device.                    *)
EXTENDS ConfigSession

\* Until the script opens its session none of its variables has been touched.
Pristine(s) ==
    s.pc \in NotYetOpen =>
        /\ s.next = 1
        /\ s.rc = 0
        /\ s.effects = {}
        /\ s.blind = {}
        /\ s.del = {} /\ s.add = {}
        /\ ~s.didCommit /\ ~s.didSave /\ ~s.cleanupFailed
        /\ s.sentinel = "none"

\* A command list that is not finished has a next command.
InBounds(s) ==
    /\ s.pc = "idle" => s.op = NoRequest
    /\ s.op.kind = "commands" /\ s.pc \in NotYetOpen \cup {"apply"} =>
           s.next \in DOMAIN s.op.cmds

\* The body has not failed, and has not said how it went.
Running(s) ==
    /\ s.pc \in Body \cup {"teardown"} => ~s.cleanupFailed
    /\ s.pc \in Body => s.rc = 0 /\ s.sentinel = "none"

\* did_commit and did_save keep up with what the run did to the device.
Accounted(s) ==
    /\ s.pc \in {"apply", "gate", "commit"} => s.effects = {} /\ ~s.didCommit
    /\ s.pc = "post" => ~s.didCommit
    /\ s.pc \in {"need", "save", "recheck", "emit"} /\ "active" \in s.effects => s.didCommit
    /\ s.pc \in Body \ {"recheck", "emit"} => "boot" \notin s.effects
    /\ s.pc \in Body \ {"emit"} => ~s.didSave
    /\ s.pc = "emit" /\ "boot" \in s.effects => s.didSave
    /\ s.sentinel = "noop" => s.effects = {}

\* Only a script that reached its sentinel ends with rc 0.
Reported(s) == s.pc \in Ending \cup {"done"} /\ s.rc = 0 => s.sentinel # "none"

\* What the trap cannot remove shows in its exit code.
TidiedUp(s) ==
    /\ s.pc = "remove" /\ s.inSession /\ ~s.cleanupFailed => "teardown" \in s.blind
    /\ s.pc \in {"outer", "done"} /\ s.rc = 0 =>
           /\ s.staged = {}
           /\ s.inSession => "teardown" \in s.blind

\* The file that reaches the script is not blank.
Guarded(s) ==
    s.op.kind = "load" /\ s.pc \in {"putScript", "chmod", "exec"} \cup Body =>
        s.uploaded # {}

\* The overlay does not delete what it adds.
Disjoint(s) == s.del \cap s.add = {}

Local(s) ==
    /\ Pristine(s)
    /\ InBounds(s)
    /\ Running(s)
    /\ Accounted(s)
    /\ Reported(s)
    /\ TidiedUp(s)
    /\ Guarded(s)
    /\ Disjoint(s)

\* A run whose every command did its work, on a device that holds a and b.
Exact(s, a, b) ==
    /\ s.pc \in {"apply", "gate", "commit"} => a = s.base
    /\ s.pc = "apply" /\ s.op.kind = "commands" =>
           Candidate(s, a) = TargetUpTo(s, s.next)
    /\ s.pc \in {"gate", "commit", "post"} => Candidate(s, a) = Target(s)
    /\ s.pc \in {"need", "save", "recheck", "emit"} => a = Target(s)
    /\ s.sentinel # "none" => a = Target(s)
    /\ "boot" \in s.effects => a = Target(s)

\* The save block entered by a run ends with boot and active the same.
MustSave(s) == s.op.save /\ (s.op.kind = "commands" => s.didCommit)

Durable(s, a, b) ==
    /\ "boot" \in s.effects => a = b
    /\ s.pc \in {"need", "save", "recheck"} => MustSave(s)
    /\ s.pc = "emit" /\ (MustSave(s) \/ s.didSave) => a = b
    /\ s.sentinel # "none"
       /\ s.op.save
       /\ (s.op.kind = "commands" => s.sentinel = "changed")
       => a = b

\* did_commit and did_save claim no more than the run did.
Real(s, a, b) ==
    /\ s.pc = "commit" => Candidate(s, a) # a
    /\ s.pc = "post" /\ s.effects = {} => Candidate(s, a) # a
    /\ s.pc \in Body /\ s.didCommit => "active" \in s.effects
    /\ s.pc = "save" => a # b \/ "save" \in s.blind
    /\ s.pc = "recheck" => a # b \/ "boot" \in s.effects \/ "save" \in s.blind
    /\ s.pc = "emit" /\ s.didSave => "boot" \in s.effects \/ "save" \in s.blind
    /\ s.sentinel = "changed" => s.effects # {} \/ "save" \in s.blind

Settled(s, a, b) ==
    /\ "mask" \notin s.blind => Exact(s, a, b)
    /\ Durable(s, a, b)
    /\ Real(s, a, b)

IndInv ==
    /\ TypeOK
    /\ \A r \in Runs : Local(run[r])
    /\ \A r \in Runs : ~disturbed[r] => Settled(run[r], active, boot)

=============================================================================
