----------------------------- MODULE FactReading -----------------------------
(***************************************************************************)
(* One reading of one fact on one host, whatever the command leaves behind. *)
(*                                                                         *)
(* Source: the four classes of facts.py, on Facts.                          *)
(***************************************************************************)
EXTENDS Facts

CONSTANTS
    Fields,     \* what `show version` holds
    Trees,      \* what the running configuration may be
    Part,       \* of a configuration shown as commands: what may be cut off
    Noise       \* lines of somebody else's

ASSUME ReadingAssumption == Noise \cap UNION Trees = {}

VARIABLES
    fact,       \* which fact is read
    host,       \* the host, and how the fact is asked for
    output,     \* what the command left
    result      \* the value or the exception

vars == <<fact, host, output, result>>

FactNames == {"Version", "Configuration", "ConfigurationCommands", "PendingSave"}

HostState ==
    [vbash : BOOLEAN, pty : BOOLEAN, ignoreErrors : BOOLEAN, tree : Trees, unsaved : BOOLEAN]

Unread == [unread |-> TRUE]

\* The whole output of the command as it went, or one of its failures.
Outputs ==
    {Good} \cup IF fact = "PendingSave" THEN ProbeFailures ELSE OpModeFailures(host.pty)

Init ==
    /\ fact \in FactNames
    /\ host \in HostState
    /\ output \in Outputs
    /\ result = Unread

\* command(), then process() or default().
Read ==
    /\ result = Unread
    /\ result' =
         CASE fact = "Version" -> Version(host.vbash, output, Fields, host.ignoreErrors)
           [] fact = "Configuration" ->
                  Configuration(host.vbash, output, host.tree, host.ignoreErrors)
           [] fact = "ConfigurationCommands" ->
                  ConfigurationCommands(host.vbash, output, host.tree, host.tree \ Part, Noise,
                                        host.ignoreErrors)
           [] fact = "PendingSave" ->
                  PendingSave(host.vbash, output, host.unsaved, host.ignoreErrors)
    /\ UNCHANGED <<fact, host, output>>

Done == result # Unread /\ UNCHANGED vars

Spec == Init /\ [][Read \/ Done]_vars

-----------------------------------------------------------------------------
(* Properties.                                                              *)

\* What default() gives for a fact.
DefaultOf == IF fact = "PendingSave" THEN "unknown" ELSE {}

\* pyinfra takes the default where there was nothing to process, and where an
\* error is ignored.
MayDefault == ~host.vbash \/ output = Silence \/ (host.ignoreErrors /\ output # Good)

\* What the fact is to say of the device.  A configuration shown as commands
\* lacks none of them, unless a pager under a PTY hides that it was cut off:
\* nothing marks the end of the list.
IsTrue(value) ==
    CASE fact = "Version"       -> value = Fields
      [] fact = "Configuration" -> value = host.tree
      [] fact = "PendingSave"   -> value = IF host.unsaved THEN "unsaved" ELSE "saved"
      [] OTHER                  -> ~host.pty => host.tree \subseteq value

\* A fact that an operation decides by is true when it has a value, or it is the
\* default and there was nothing to parse or an error to ignore: a command that
\* failed, an output cut off under a pager or mixed with other lines, is never
\* taken for a version, a configuration or a saved state.
ValuesAreTrue ==
    IsValue(result) => IsTrue(result.value) \/ (MayDefault /\ result.value = DefaultOf)

\* PendingSave says "saved" only after a comparison that found no difference,
\* with errors ignored or without vbash too.
SavedIsCompared ==
    fact = "PendingSave" /\ result = Value("saved") =>
        host.vbash /\ output.rc = 0 /\ ~host.unsaved

=============================================================================
