--------------------------------- MODULE Facts ---------------------------------
(***************************************************************************)
(* The facts: what a command on the device may leave behind, and what the   *)
(* fact makes of it - a value, its default or the failure of the host.      *)
(*                                                                         *)
(* Source: facts.py, _parse.py, and vyos_op_command and pending_save_probe  *)
(* in _cli.py.  An output is its return code, whether the package marker is *)
(* its last line, and its payload: "whole", a "part" of it that lacks what   *)
(* is asked for, "none", or "noise" when lines of somebody else's are mixed  *)
(* in (a banner).                                                           *)
(***************************************************************************)

Value(v) == [value |-> v]

IsValue(result) == "value" \in DOMAIN result

\* The exceptions that parsing and processing may end in.
ParseError == [raised |-> "ParseError"]

FactProcessError == [raised |-> "FactProcessError"]

-----------------------------------------------------------------------------
(* The commands.                                                            *)

Output(rc, payload, marker) == [rc |-> rc, payload |-> payload, marker |-> marker]

Good == Output(0, "whole", TRUE)

\* Empty stdout and no failure: of all that was printed nothing has arrived.
Silence == Output(0, "none", FALSE)

\* Of what a command printed the end may not arrive, up to all of it, or lines
\* may arrive behind it, with the return code of the command as it was.
Mangled ==
    { Output(0, payload, FALSE) : payload \in {"part", "whole", "none", "noise"} }
    \cup { Output(0, "noise", TRUE) }

\* vyos_op_command: the marker is chained with && to a pipeline under pipefail.
\* Under a PTY the pager may hide the return code of the command from both.
OpModeFailures(pty) ==
    { Output(1, payload, FALSE) : payload \in {"part", "none", "noise"} }
    \cup Mangled
    \cup IF pty THEN { Output(0, payload, TRUE) : payload \in {"part", "none"} } ELSE {}

\* pending_save_probe: wc prints a count of whatever it got, without the marker
\* when the comparison failed.  No pager is involved.
ProbeFailures == { Output(1, payload, FALSE) : payload \in {"part", "none"} } \cup Mangled

-----------------------------------------------------------------------------
(* The parsers.                                                             *)

StripMarker(output) == IF output.marker THEN Value(output.payload) ELSE ParseError

\* Lines without a colon are skipped; the version field is required.
ParseVersion(payload, fields) ==
    IF payload \in {"whole", "noise"} THEN Value(fields) ELSE ParseError

\* Mutant of ParseConfigJson: what cannot be parsed is an empty configuration.
ParseConfigJsonLenient(payload, tree) == IF payload = "whole" THEN Value(tree) ELSE Value({})

\* A JSON object is read to its closing brace and nothing may follow it.
ParseConfigJson(payload, tree) == IF payload = "whole" THEN Value(tree) ELSE ParseError

\* Any nonempty line is taken for a command.
ConfigCommandLines(payload, lines, part, noise) ==
    Value(CASE payload = "whole" -> lines
            [] payload = "part"  -> part
            [] payload = "none"  -> {}
            [] payload = "noise" -> lines \cup noise)

\* Mutant of ParsePendingSave: what is not a count means there is nothing to save.
ParsePendingSaveLenient(payload, pending) ==
    Value(IF payload = "whole" /\ pending THEN "unsaved" ELSE "saved")

\* The payload is a count and nothing else.  Of the three values of the fact
\* ("unsaved" for True, "saved" for False, "unknown" for None) it gives two.
ParsePendingSave(payload, pending) ==
    IF payload # "whole" THEN ParseError
    ELSE Value(IF pending THEN "unsaved" ELSE "saved")

\* Mutant of FactProcess: exceptions of the parsers go through.
FactProcessBare(result) == result

\* _fact_process: of all exceptions pyinfra contains this one only.
FactProcess(result) == IF IsValue(result) THEN result ELSE FactProcessError

-----------------------------------------------------------------------------
(* The facts: process(), and what pyinfra makes of it (external).  process() *)
(* is skipped when the command failed: the host is out, unless its errors    *)
(* are ignored, when the fact has its default.  It is skipped when stdout is *)
(* empty, too, and that is no error: the fact has its default, and nobody    *)
(* has looked for the marker.  Without vbash the command is not run at all,  *)
(* and nothing is printed.                                                   *)

Processed(output, parsed) ==
    FactProcess(IF IsValue(StripMarker(output)) THEN parsed ELSE ParseError)

GetFact(vbash, output, processed, default, ignoreErrors) ==
    LET result == IF ~vbash \/ output = Silence THEN Value(default)
                  ELSE IF output.rc = 0 THEN processed
                  ELSE FactProcessError
    IN  IF result = FactProcessError /\ ignoreErrors THEN Value(default) ELSE result

Version(vbash, output, fields, ignoreErrors) ==
    GetFact(vbash, output, Processed(output, ParseVersion(output.payload, fields)),
            {}, ignoreErrors)

Configuration(vbash, output, tree, ignoreErrors) ==
    GetFact(vbash, output, Processed(output, ParseConfigJson(output.payload, tree)),
            {}, ignoreErrors)

ConfigurationCommands(vbash, output, lines, part, noise, ignoreErrors) ==
    GetFact(vbash, output,
            Processed(output, ConfigCommandLines(output.payload, lines, part, noise)),
            {}, ignoreErrors)

PendingSave(vbash, output, pending, ignoreErrors) ==
    GetFact(vbash, output, Processed(output, ParsePendingSave(output.payload, pending)),
            "unknown", ignoreErrors)

=============================================================================
