---------------------------- MODULE ConfigSession ----------------------------
(***************************************************************************)
(* One configure session of pyinfra_vyos, end to end: the commands the      *)
(* controller sends to stage a script, the script itself (load, commands    *)
(* or save), its EXIT trap and the shell wrapped around it, next to a       *)
(* device that other sessions, administrators, signals, lost connections    *)
(* and reboots may also act on.                                             *)
(*                                                                         *)
(* Source: _session.py (the script builders), _cli.py (sg_probe,            *)
(* sg_vbash_run, session_run_sequence) and the command list of config_load  *)
(* in operations.py.  The device (active and boot configuration, configure  *)
(* sessions, commit, save) is not part of the repository: it is modelled    *)
(* from how the scripts use it.                                             *)
(***************************************************************************)
EXTENDS Naturals, Sequences

CONSTANTS
    Runs,              \* the mutation runs, each used once
    Nodes,             \* what a configuration can hold: one element per leaf value
    Requests,          \* what the operations may ask of a run
    Faults,            \* the ways in which the environment may misbehave
    CallerSerializes   \* does the caller serialize its runs per host?

Configs == SUBSET Nodes

Command == [verb : {"set", "delete"}, nodes : SUBSET Nodes]

FaultKinds == {
    "stage",        \* a command the controller sends before the script fails
    "source",       \* the config source is blank when uploaded
    "session",      \* configure or a cli-shell-api query fails
    "reject",       \* load, set or delete returns nonzero
    "mask",         \* load, set or delete returns zero without doing its work
    "commit",       \* commit applies only part of the changes
    "save",         \* save does not write config.boot
    "compare",      \* the saved-state comparison fails
    "cleanup",      \* teardownSession or rm fails
    "disconnect",   \* the controller loses the host
    "signal",       \* bash dies of a signal on which it runs the EXIT trap
    "kill",         \* bash dies without running the trap
    "reboot",
    "admin" }       \* somebody else commits or saves

(* A command list is never empty (build_commands_script refuses one), a     *)
(* save script always saves and a source was not blank when validated.      *)
ASSUME SessionAssumption ==
    /\ Requests \subseteq [ kind : {"load", "commands", "save"},
                            save : BOOLEAN,
                            cmds : Seq(Command),
                            file : SUBSET Nodes ]
    /\ \A q \in Requests : /\ q.kind = "commands" => q.cmds # <<>>
                           /\ q.kind = "save" => q.save
                           /\ q.kind = "load" => q.file # {}
    /\ Faults \subseteq FaultKinds
    /\ CallerSerializes \in BOOLEAN

VARIABLES
    active,      \* device: the running configuration
    boot,        \* device: /config/config.boot
    run,         \* per run: its request, its place in the code, its shell variables
    disturbed    \* history: did somebody else change the device since the session began?

vars == <<active, boot, run, disturbed>>

NoRequest == [kind |-> "none", save |-> FALSE, cmds |-> <<>>, file |-> {}]

\* The controller's commands, the body of the script, and what ends it.
Sending  == {"probe", "mkdir", "putConfig", "guard", "putScript", "chmod", "exec"}
Body     == {"configure", "apply", "gate", "commit", "post",
             "need", "save", "recheck", "emit"}
Ending   == {"teardown", "remove", "outer"}
NotYetOpen == {"idle", "configure"} \cup Sending
InFlight == Sending \cup Body \cup Ending
Stages   == {"idle", "done", "failed"} \cup InFlight

RunState ==
    [ op : Requests \cup {NoRequest}, pc : Stages, link : BOOLEAN,
      staged : SUBSET {"dir", "config", "script"}, uploaded : Configs,
      inSession : BOOLEAN, del : Configs, add : Configs, next : Nat,
      rc : {0, 1}, didCommit : BOOLEAN, didSave : BOOLEAN,
      cleanupFailed : BOOLEAN, sentinel : {"none", "changed", "noop"},
      \* History: the active configuration the session started from, what this
      \* run changed on the device, and what it did without being able to see.
      base : Configs, effects : SUBSET {"active", "boot"},
      blind : SUBSET {"mask", "save", "teardown"} ]

TypeOK ==
    /\ active \in Configs
    /\ boot \in Configs
    /\ run \in [Runs -> RunState]
    /\ disturbed \in [Runs -> BOOLEAN]

Fresh ==
    [ op |-> NoRequest, pc |-> "idle", link |-> TRUE,
      staged |-> {}, uploaded |-> {},
      inSession |-> FALSE, del |-> {}, add |-> {}, next |-> 1,
      rc |-> 0, didCommit |-> FALSE, didSave |-> FALSE,
      cleanupFailed |-> FALSE, sentinel |-> "none",
      base |-> {}, effects |-> {}, blind |-> {} ]

Init ==
    /\ active \in Configs
    /\ boot \in Configs
    /\ run = [r \in Runs |-> Fresh]
    /\ disturbed = [r \in Runs |-> FALSE]

-----------------------------------------------------------------------------
(* Building blocks.                                                         *)

Become(r, state) == run' = [run EXCEPT ![r] = state]

At(r, stage) == run[r].pc = stage

Goto(r, stage) == [run[r] EXCEPT !.pc = stage]

May(fault) == fault \in Faults

DeviceUnchanged == UNCHANGED <<active, boot, disturbed>>

\* Mutant of Exit1: the trap overwrites $? before it reads it.
Exit1LosesRc(r) == [run[r] EXCEPT !.pc = "teardown"]

\* `builtin exit 1`: the EXIT trap takes over with $? = 1.
Exit1(r) == [run[r] EXCEPT !.pc = "teardown", !.rc = 1]

\* The device now holds a and b, on account of the runs in `authors`.
DeviceWrite(authors, a, b) ==
    /\ active' = a
    /\ boot' = b
    /\ disturbed' = [q \in Runs |-> \/ disturbed[q]
                                    \/ /\ q \notin authors
                                       /\ run[q].pc \notin NotYetOpen
                                       /\ a # active \/ b # boot]

\* A configure session is an overlay on the active configuration.
Candidate(s, config) == (config \ s.del) \cup s.add

SessionChanged(s) == Candidate(s, active) # active

SavePending == active # boot

-----------------------------------------------------------------------------
(* Mutants: bugs these scripts could have had, each in place of the         *)
(* definition it is named after.  The properties below must catch them.     *)

\* No `grep` behind the chmod.
GuardConfigChmodOnly(r) ==
    /\ At(r, "guard")
    /\ run[r].link
    /\ Become(r, Goto(r, "putScript"))
    /\ DeviceUnchanged

\* A command's rc is captured and not looked at.
RunCommandIgnoresRc(r) ==
    LET s       == run[r]
        command == s.op.cmds[s.next]
        after   == [ s EXCEPT !.next = @ + 1,
                              !.pc = IF s.next = Len(s.op.cmds) THEN "gate" ELSE @ ]
    IN  /\ At(r, "apply")
        /\ s.op.kind = "commands"
        /\ \/ Become(r, IF command.verb = "set"
                         THEN [after EXCEPT !.add = @ \cup command.nodes,
                                            !.del = @ \ command.nodes]
                         ELSE [after EXCEPT !.del = @ \cup command.nodes,
                                            !.add = @ \ command.nodes])
           \/ May("reject") /\ Become(r, after)
        /\ DeviceUnchanged

\* commit without asking sessionChanged first.
CommitGateMissing(r) ==
    /\ At(r, "gate")
    /\ Become(r, Goto(r, "commit"))
    /\ DeviceUnchanged

\* The postcondition lets changes that are still pending through to the save.
CommitPostconditionIgnored(r) ==
    /\ At(r, "post")
    /\ Become(r, [ Goto(r, IF run[r].op.save THEN "need" ELSE "emit")
                   EXCEPT !.didCommit = TRUE ])
    /\ DeviceUnchanged

\* commit is tried until nothing is pending any more.
CommitPostconditionRetries(r) ==
    /\ At(r, "post")
    /\ Become(r, IF SessionChanged(run[r]) THEN Goto(r, "commit")
                 ELSE [ Goto(r, IF run[r].op.save THEN "need" ELSE "emit")
                        EXCEPT !.didCommit = TRUE ])
    /\ DeviceUnchanged

\* save is trusted to have written the file.
SavePostconditionMissing(r) ==
    /\ At(r, "recheck")
    /\ Become(r, [Goto(r, "emit") EXCEPT !.didSave = TRUE])
    /\ DeviceUnchanged

\* The sentinel is chosen by did_save alone.
EmitSentinelForgetsCommit(r) ==
    /\ At(r, "emit")
    /\ Become(r, [ Goto(r, "teardown") EXCEPT
                       !.sentinel = IF run[r].didSave THEN "changed" ELSE "noop" ])
    /\ DeviceUnchanged

\* The session is torn down only when the script succeeded.
TeardownOnSuccessOnly(r) ==
    /\ At(r, "teardown")
    /\ Become(r, IF run[r].rc = 0
                 THEN [ Goto(r, "remove") EXCEPT !.inSession = FALSE,
                                                 !.del = {}, !.add = {} ]
                 ELSE Goto(r, "remove"))
    /\ DeviceUnchanged

\* A failed cleanup is noticed and not reported.
TrapExitKeepsRc(r, failed, left) ==
    Become(r, [ Goto(r, "outer") EXCEPT !.staged = left,
                                        !.cleanupFailed = failed ])

-----------------------------------------------------------------------------
(* The controller: pyinfra sends the commands in order and stops at the     *)
(* first that fails, so nothing removes what was staged before it.          *)

\* Mutant of Released: the script is started in the background, and the
\* command that starts it is over at once.
ReleasedOnceStarted(q) ==
    run[q].pc \notin Sending \/ ~run[q].link

\* As far as the caller can tell, the run is over.
Released(q) == run[q].pc \in {"idle", "done", "failed"} \/ ~run[q].link

Begin(r) ==
    /\ At(r, "idle")
    /\ CallerSerializes => \A q \in Runs \ {r} : Released(q)
    /\ \E request \in Requests :
           Become(r, [Goto(r, "probe") EXCEPT !.op = request])
    /\ DeviceUnchanged

Send(r, stage, sent) ==
    /\ At(r, stage)
    /\ run[r].link
    /\ \/ Become(r, sent)
       \/ May("stage") /\ Become(r, Goto(r, "failed"))
    /\ DeviceUnchanged

Probe(r) == Send(r, "probe", Goto(r, "mkdir"))

MakeStaging(r) ==
    Send(r, "mkdir",
         [ Goto(r, IF run[r].op.kind = "load" THEN "putConfig" ELSE "putScript")
           EXCEPT !.staged = {"dir"} ])

\* The source was checked when the operation was planned; it is read again now.
PutConfig(r) ==
    \E content \in {run[r].op.file} \cup {blank \in {{}} : May("source")} :
        Send(r, "putConfig",
             [ Goto(r, "guard") EXCEPT !.staged = @ \cup {"config"},
                                       !.uploaded = content ])

\* `chmod 600 config && grep -q '[^[:space:]]' config`
GuardConfig(r) ==
    Send(r, "guard",
         Goto(r, IF run[r].uploaded = {} THEN "failed" ELSE "putScript"))

PutScript(r) ==
    Send(r, "putScript", [Goto(r, "chmod") EXCEPT !.staged = @ \cup {"script"}])

ChmodScript(r) == Send(r, "chmod", Goto(r, "exec"))

\* `sg vyattacfg -c "/bin/vbash ..."`: once the wrapping shell runs, it goes
\* on to its rm even when sg could not start the script.
ExecScript(r) ==
    /\ At(r, "exec")
    /\ run[r].link
    /\ \/ Become(r, Goto(r, "configure"))
       \/ May("stage") /\ Become(r, [Goto(r, "outer") EXCEPT !.rc = 1])
    /\ DeviceUnchanged

-----------------------------------------------------------------------------
(* The body of the script.                                                  *)

Configure(r) ==
    /\ At(r, "configure")
    /\ \/ Become(r, [ Goto(r, IF run[r].op.kind = "save" THEN "need" ELSE "apply")
                      EXCEPT !.inSession = TRUE, !.base = active ])
       \/ May("session") /\ Become(r, [Exit1(r) EXCEPT !.base = active])
    /\ DeviceUnchanged

\* What `load` leaves in the session; a masked one takes over part of the file.
LoadConfig(r) ==
    /\ At(r, "apply")
    /\ run[r].op.kind = "load"
    /\ \/ \E part \in SUBSET Nodes :
             /\ part = Nodes \/ May("mask")
             /\ Become(r, [ Goto(r, "gate") EXCEPT
                                !.del = (active \ run[r].uploaded) \cap part,
                                !.add = (run[r].uploaded \ active) \cap part,
                                !.blind = IF part = Nodes THEN @ ELSE {"mask"} ])
       \/ May("reject") /\ Become(r, Exit1(r))
    /\ DeviceUnchanged

Applied(s, command) ==
    IF command.verb = "set"
    THEN [s EXCEPT !.add = @ \cup command.nodes, !.del = @ \ command.nodes]
    ELSE [s EXCEPT !.del = @ \cup command.nodes, !.add = @ \ command.nodes]

\* Commands run one by one; the first nonzero rc ends the script.
RunCommand(r) ==
    LET s    == run[r]
        last == s.next = Len(s.op.cmds)
        step(t) == [t EXCEPT !.next = s.next + 1,
                             !.pc = IF last THEN "gate" ELSE "apply"]
    IN  /\ At(r, "apply")
        /\ s.op.kind = "commands"
        /\ \/ Become(r, step(Applied(s, s.op.cmds[s.next])))
           \/ May("mask") /\ Become(r, step([s EXCEPT !.blind = {"mask"}]))
           \/ May("reject") /\ Become(r, Exit1(r))
        /\ DeviceUnchanged

\* The save block is there when saving was asked for; a command script enters
\* it only after a commit of its own.
AfterCommit(s) ==
    IF s.op.save /\ (s.op.kind = "commands" => s.didCommit) THEN "need" ELSE "emit"

\* sessionChanged: 0 is changed, 1 is unchanged, anything else ends the script.
CommitGate(r) ==
    /\ At(r, "gate")
    /\ \/ SessionChanged(run[r]) /\ Become(r, Goto(r, "commit"))
       \/ ~SessionChanged(run[r]) /\ Become(r, Goto(r, AfterCommit(run[r])))
       \/ May("session") /\ Become(r, Exit1(r))
    /\ DeviceUnchanged

\* The return code of commit is not looked at.
Commit(r) ==
    /\ At(r, "commit")
    /\ \E part \in SUBSET Nodes :
          LET s   == run[r]
              new == (active \ (s.del \cap part)) \cup (s.add \cap part)
          IN  /\ part = Nodes \/ May("commit")
              /\ DeviceWrite({r}, new, boot)
              /\ Become(r, [ Goto(r, "post") EXCEPT
                                 !.del = @ \ part,
                                 !.add = @ \ part,
                                 !.effects = IF new = active THEN @
                                             ELSE @ \cup {"active"} ])

CommitPostcondition(r) ==
    LET committed == [run[r] EXCEPT !.didCommit = TRUE]
    IN  /\ At(r, "post")
        /\ \/ SessionChanged(run[r]) /\ Become(r, Exit1(r))
           \/ /\ ~SessionChanged(run[r])
              /\ Become(r, [committed EXCEPT !.pc = AfterCommit(committed)])
           \/ May("session") /\ Become(r, Exit1(r))
        /\ DeviceUnchanged

NeedsSave(r) ==
    /\ At(r, "need")
    /\ \/ SavePending /\ Become(r, Goto(r, "save"))
       \/ ~SavePending /\ Become(r, Goto(r, "emit"))
       \/ /\ May("compare")
          /\ Become(r, [Goto(r, "save") EXCEPT !.blind = @ \cup {"save"}])
    /\ DeviceUnchanged

\* The return code of save is not looked at.
Save(r) ==
    /\ At(r, "save")
    /\ \/ /\ DeviceWrite({r}, active, active)
          /\ Become(r, [ Goto(r, "recheck") EXCEPT
                             !.effects = IF SavePending THEN @ \cup {"boot"} ELSE @ ])
       \/ /\ May("save")
          /\ Become(r, Goto(r, "recheck"))
          /\ DeviceUnchanged

SavePostcondition(r) ==
    /\ At(r, "recheck")
    /\ \/ SavePending /\ Become(r, Exit1(r))
       \/ ~SavePending /\ Become(r, [Goto(r, "emit") EXCEPT !.didSave = TRUE])
       \/ May("compare") /\ Become(r, Exit1(r))
    /\ DeviceUnchanged

EmitSentinel(r) ==
    /\ At(r, "emit")
    /\ Become(r, [ Goto(r, "teardown") EXCEPT
                       !.sentinel = IF run[r].didCommit \/ run[r].didSave
                                    THEN "changed" ELSE "noop" ])
    /\ DeviceUnchanged

-----------------------------------------------------------------------------
(* The EXIT trap, then the shell that sg runs in.                           *)

\* An inSession query that fails reads as "not in a session".
Teardown(r) ==
    /\ At(r, "teardown")
    /\ \/ /\ run[r].inSession
          /\ Become(r, [ Goto(r, "remove") EXCEPT !.inSession = FALSE,
                                                  !.del = {}, !.add = {} ])
       \/ ~run[r].inSession /\ Become(r, Goto(r, "remove"))
       \/ /\ run[r].inSession
          /\ May("session")
          /\ Become(r, [Goto(r, "remove") EXCEPT !.blind = @ \cup {"teardown"}])
       \/ /\ run[r].inSession
          /\ May("cleanup")
          /\ Become(r, [Goto(r, "remove") EXCEPT !.cleanupFailed = TRUE])
    /\ DeviceUnchanged

\* A failed cleanup turns rc 0 into 1 and leaves any other rc alone.
TrapExit(r, failed, left) ==
    Become(r, [ Goto(r, "outer") EXCEPT
                    !.staged = left,
                    !.cleanupFailed = failed,
                    !.rc = IF failed /\ @ = 0 THEN 1 ELSE @ ])

RemoveStaging(r) ==
    /\ At(r, "remove")
    /\ \/ TrapExit(r, run[r].cleanupFailed, {})
       \/ May("cleanup") /\ TrapExit(r, TRUE, run[r].staged)
    /\ DeviceUnchanged

\* `rc=$?; rm -rf staging; exit $rc`
OuterRemove(r) ==
    /\ At(r, "outer")
    /\ \/ Become(r, [Goto(r, "done") EXCEPT !.staged = {}])
       \/ May("cleanup") /\ Become(r, Goto(r, "done"))
    /\ DeviceUnchanged

-----------------------------------------------------------------------------
(* The environment.                                                         *)

\* The script goes on when the connection is lost; the controller does not.
Disconnect(r) ==
    /\ May("disconnect")
    /\ run[r].pc \in InFlight
    /\ run[r].link
    /\ Become(r, [ run[r] EXCEPT !.link = FALSE,
                                 !.pc = IF @ \in Sending THEN "failed" ELSE @ ])
    /\ DeviceUnchanged

\* bash runs the EXIT trap, then dies of the signal whatever the trap exits with.
Interrupt(r) ==
    /\ May("signal")
    /\ run[r].pc \in Body
    /\ Become(r, Exit1(r))
    /\ DeviceUnchanged

\* Without the trap; the wrapping shell may or may not survive.
Kill(r) ==
    /\ May("kill")
    /\ run[r].pc \in Body \cup Ending
    /\ \/ run[r].pc # "outer" /\ Become(r, [Goto(r, "outer") EXCEPT !.rc = 1])
       \/ Become(r, Goto(r, "failed"))
    /\ DeviceUnchanged

\* Configure sessions do not survive a reboot; /tmp may or may not.
Reboot ==
    /\ May("reboot")
    /\ DeviceWrite({}, boot, boot)
    /\ \E keepTmp \in BOOLEAN :
          run' = [ q \in Runs |->
                     [ run[q] EXCEPT
                         !.pc = IF @ \in InFlight THEN "failed" ELSE @,
                         !.inSession = FALSE, !.del = {}, !.add = {},
                         !.staged = IF keepTmp THEN @ ELSE {} ] ]

\* Anybody else commits or saves.
Admin ==
    /\ May("admin")
    /\ \/ \E new \in Configs : DeviceWrite({}, new, boot)
       \/ DeviceWrite({}, active, active)
    /\ UNCHANGED run

-----------------------------------------------------------------------------
SendStep(r) ==
    \/ Probe(r) \/ MakeStaging(r) \/ PutConfig(r) \/ GuardConfig(r)
    \/ PutScript(r) \/ ChmodScript(r) \/ ExecScript(r)

BodyStep(r) ==
    \/ Configure(r) \/ LoadConfig(r) \/ RunCommand(r)
    \/ CommitGate(r) \/ Commit(r) \/ CommitPostcondition(r)
    \/ NeedsSave(r) \/ Save(r) \/ SavePostcondition(r) \/ EmitSentinel(r)

EndStep(r) == Teardown(r) \/ RemoveStaging(r) \/ OuterRemove(r)

RunStep(r) == SendStep(r) \/ BodyStep(r) \/ EndStep(r)

Fault(r) == Disconnect(r) \/ Interrupt(r) \/ Kill(r)

\* Every run has been used, and there is nothing left to do.
AllOver == (\A r \in Runs : run[r].pc \in {"done", "failed"}) /\ UNCHANGED vars

Next ==
    \/ \E r \in Runs : Begin(r) \/ RunStep(r) \/ Fault(r)
    \/ Reboot
    \/ Admin
    \/ AllOver

Spec == Init /\ [][Next]_vars

\* pyinfra sends one command after the other and bash runs one line after the
\* other: a run that can move does.  Nobody has to begin a run, and no fault
\* has to happen.
FairSpec == Spec /\ \A r \in Runs : WF_vars(RunStep(r))

-----------------------------------------------------------------------------
(* What the properties speak about.                                         *)

\* What the first k-1 commands of a run make of the configuration its session
\* started from: a node is decided by the last of them that covers it, and
\* stays as it was when none does.
Covers(s, i, n) == n \in s.op.cmds[i].nodes

TargetUpTo(s, k) ==
    { n \in Nodes :
        \/ \E i \in DOMAIN s.op.cmds :
              /\ i < k
              /\ Covers(s, i, n)
              /\ s.op.cmds[i].verb = "set"
              /\ \A j \in DOMAIN s.op.cmds : i < j /\ j < k => ~Covers(s, j, n)
        \/ /\ n \in s.base
           /\ \A i \in DOMAIN s.op.cmds : i < k => ~Covers(s, i, n) }

\* The configuration a run was asked for.
Target(s) ==
    CASE s.op.kind = "load"     -> s.uploaded
      [] s.op.kind = "commands" -> TargetUpTo(s, Len(s.op.cmds) + 1)
      [] OTHER                  -> s.base

Succeeded(r) == run[r].pc = "done" /\ run[r].rc = 0

-----------------------------------------------------------------------------
(* Properties.                                                              *)

\* The noop sentinel is the truth: a run that printed it changed neither the
\* active configuration nor config.boot.  Whatever else happens on the device.
NoopIsHonest ==
    \A r \in Runs : run[r].sentinel = "noop" =>
                        run[r].effects = {}

\* The changed sentinel is the truth too, for a run nobody interfered with:
\* it changed the active configuration or config.boot, unless it saved after
\* a comparison that failed and could not tell whether that was needed.
ChangedIsReal ==
    \A r \in Runs : run[r].sentinel = "changed" /\ ~disturbed[r] =>
                        run[r].effects # {} \/ "save" \in run[r].blind

\* A run that exits 0 with nobody interfering leaves exactly the configuration
\* it was asked for: every command took effect, in order, and nothing else
\* changed.  (The scripts cannot see a command that returns 0 and does nothing.)
SuccessIsExact ==
    \A r \in Runs : Succeeded(r) /\ ~disturbed[r] /\ "mask" \notin run[r].blind =>
                        active = Target(run[r])

\* A run that was to save and exits 0 leaves the active configuration on disk
\* - except a command script that had nothing to commit, which does not save.
SuccessIsDurable ==
    \A r \in Runs :
        /\ Succeeded(r)
        /\ ~disturbed[r]
        /\ run[r].op.save
        /\ run[r].op.kind = "commands" => run[r].sentinel = "changed"
        => boot = active

\* However a run ends, what it saved is the whole of what it was asked for:
\* a partial commit is never made persistent.
NeverSavesPartial ==
    \A r \in Runs :
        /\ "boot" \in run[r].effects
        /\ ~disturbed[r]
        /\ "mask" \notin run[r].blind
        => active = Target(run[r]) /\ boot = active

\* An exit code of 0 means there is nothing left to clean up: the staged
\* files are gone, and so is the session unless the query for it failed.
SuccessIsClean ==
    \A r \in Runs : Succeeded(r) =>
        /\ run[r].staged = {}
        /\ run[r].inSession => "teardown" \in run[r].blind

\* A success always tells what happened, and a run that died on the way
\* never counts as one.
SuccessHasSentinel ==
    \A r \in Runs : Succeeded(r) => run[r].sentinel # "none"

\* The remote guard holds: a blank file is never loaded, even when the source
\* changed after it was validated.
NeverLoadsBlank ==
    \A r \in Runs : run[r].op.kind = "load" /\ run[r].pc \in Body =>
                        run[r].uploaded # {}

\* When the caller serializes its runs and nobody else touches the device, a
\* run in flight is never interfered with as long as no connection was lost:
\* runs that fail, are interrupted or killed leave nobody behind.
SerializedRunsAreAlone ==
    CallerSerializes /\ Faults \cap {"admin", "reboot"} = {} /\ (\A q \in Runs : run[q].link) =>
        \A r \in Runs : run[r].pc \in InFlight => ~disturbed[r]

\* Every run that begins comes to an end.
EveryRunEnds ==
    \A r \in Runs : run[r].pc = "probe" ~> run[r].pc \in {"done", "failed"}

\* Once the script was started nothing stays behind: no staged file and no
\* session, whichever way it went.
StartedRunIsCleanedUp ==
    \A r \in Runs : run[r].pc = "configure" ~>
                        /\ run[r].pc = "done"
                        /\ run[r].staged = {}
                        /\ ~run[r].inSession

=============================================================================
