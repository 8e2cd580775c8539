--------------------------- MODULE FactReadingProofs ---------------------------
(* What FactReading promises of the facts, whatever versions, configurations *)
(* and lines of somebody else's there are.                                   *)
(*                                                                          *)
(* A fact is read in one step, so what has to be shown is what each fact may *)
(* end in.  The invariant adds to the two properties where the output is     *)
(* from; ReadingAssumption, that somebody else's lines are no commands of    *)
(* the configuration, is not needed for them.                                *)
EXTENDS FactReading, TLAPS

IndInv ==
    /\ fact \in FactNames
    /\ host \in HostState
    /\ output \in Outputs
    /\ ValuesAreTrue
    /\ SavedIsCompared

\* A value and a failure are told apart, and neither is a fact not read yet.
LEMMA ValueOrNot ==
    /\ \A v : IsValue(Value(v)) /\ Value(v).value = v
    /\ ~IsValue(ParseError) /\ ~IsValue(FactProcessError) /\ ~IsValue(Unread)
    /\ \A v : Value(v) # FactProcessError /\ Value(v) # ParseError /\ Value(v) # Unread
    /\ \A v, w : Value(v) = Value(w) => v = w
  BY DEF IsValue, Value, ParseError, FactProcessError, Unread

\* A fact that has a value has the default, with a cause for it, or the parsed
\* one: the command succeeded, its last line was the marker, its payload was parsed.
LEMMA DefaultOrParsed ==
    ASSUME NEW vbash \in BOOLEAN, NEW out, NEW parsed, NEW default, NEW ignoring \in BOOLEAN,
           IsValue(GetFact(vbash, out, Processed(out, parsed), default, ignoring))
    PROVE  \/ /\ GetFact(vbash, out, Processed(out, parsed), default, ignoring) = Value(default)
              /\ \/ ~vbash \/ out = Silence
                 \/ ignoring /\ (out.rc # 0 \/ Processed(out, parsed) = FactProcessError)
           \/ /\ GetFact(vbash, out, Processed(out, parsed), default, ignoring) = parsed
              /\ out.rc = 0 /\ out.marker /\ IsValue(parsed)
  <1> DEFINE processed == Processed(out, parsed)
             read == GetFact(vbash, out, processed, default, ignoring)
  <1>1. CASE ~vbash \/ out = Silence
    BY <1>1, ValueOrNot DEF GetFact
  <1>2. CASE vbash /\ out # Silence /\ (out.rc # 0 \/ processed = FactProcessError)
    BY <1>2, ValueOrNot DEF GetFact
  <1>3. CASE vbash /\ out # Silence /\ out.rc = 0 /\ processed # FactProcessError
    <2>1. read = processed /\ IsValue(StripMarker(out)) /\ processed = parsed /\ IsValue(parsed)
      BY <1>3, ValueOrNot DEF GetFact, Processed, FactProcess
    <2>2. out.marker
      BY <2>1, ValueOrNot DEF StripMarker
    <2> QED
      BY <1>3, <2>1, <2>2
  <1> QED
    BY <1>1, <1>2, <1>3

\* An output as it should be is processed into what is parsed from it.
LEMMA GoodIsProcessed ==
    /\ Good.rc = 0 /\ Good.payload = "whole"
    /\ \A parsed : IsValue(parsed) => Processed(Good, parsed) = parsed
  BY ValueOrNot DEF Good, Output, Processed, StripMarker, FactProcess

\* An output that says it is whole lacks nothing, except under a pager; so has
\* one with lines of somebody else's behind it.
LEMMA MarkedIsWhole ==
    ASSUME NEW pty \in BOOLEAN, NEW out \in {Good} \cup OpModeFailures(pty),
           out.rc = 0, out.marker, ~pty
    PROVE  out.payload \in {"whole", "noise"}
  BY DEF Good, OpModeFailures, Mangled, Output

\* The value of a fact is the default, with a cause for it, or what follows from
\* the payload of an output that came with its marker.  One lemma per fact.
LEMMA VersionIsTrue ==
    ASSUME NEW vbash \in BOOLEAN, NEW out, NEW ignoring \in BOOLEAN,
           IsValue(Version(vbash, out, Fields, ignoring))
    PROVE  \/ /\ Version(vbash, out, Fields, ignoring).value = {}
              /\ ~vbash \/ out = Silence \/ (ignoring /\ out # Good)
           \/ Version(vbash, out, Fields, ignoring).value = Fields
  <1> DEFINE parsed == ParseVersion(out.payload, Fields)
  <1>1. out = Good => IsValue(parsed)
    BY GoodIsProcessed, ValueOrNot DEF ParseVersion
  <1>2. IsValue(parsed) => parsed.value = Fields
    BY ValueOrNot DEF ParseVersion
  <1> HIDE DEF parsed
  <1> QED
    BY <1>1, <1>2, DefaultOrParsed, GoodIsProcessed, ValueOrNot DEF Version, parsed

\* A configuration that was read is that of the device.
LEMMA ConfigurationIsTrue ==
    ASSUME NEW vbash \in BOOLEAN, NEW out, NEW tree, NEW ignoring \in BOOLEAN,
           IsValue(Configuration(vbash, out, tree, ignoring))
    PROVE  \/ /\ Configuration(vbash, out, tree, ignoring).value = {}
              /\ ~vbash \/ out = Silence \/ (ignoring /\ out # Good)
           \/ Configuration(vbash, out, tree, ignoring).value = tree
  <1> DEFINE parsed == ParseConfigJson(out.payload, tree)
  <1>1. out = Good => IsValue(parsed)
    BY GoodIsProcessed, ValueOrNot DEF ParseConfigJson
  <1>2. IsValue(parsed) => parsed.value = tree
    BY ValueOrNot DEF ParseConfigJson
  <1> HIDE DEF parsed
  <1> QED
    BY <1>1, <1>2, DefaultOrParsed, GoodIsProcessed, ValueOrNot DEF Configuration, parsed

\* An answer of PendingSave is that of the comparison.
LEMMA PendingSaveIsTrue ==
    ASSUME NEW vbash \in BOOLEAN, NEW out, NEW pending \in BOOLEAN, NEW ignoring \in BOOLEAN,
           IsValue(PendingSave(vbash, out, pending, ignoring))
    PROVE  \/ /\ PendingSave(vbash, out, pending, ignoring).value = "unknown"
              /\ ~vbash \/ out = Silence \/ (ignoring /\ out # Good)
           \/ PendingSave(vbash, out, pending, ignoring).value
                  = IF pending THEN "unsaved" ELSE "saved"
  <1> DEFINE parsed == ParsePendingSave(out.payload, pending)
  <1>1. out = Good => IsValue(parsed)
    BY GoodIsProcessed, ValueOrNot DEF ParsePendingSave
  <1>2. IsValue(parsed) => parsed.value = IF pending THEN "unsaved" ELSE "saved"
    BY ValueOrNot DEF ParsePendingSave
  <1> HIDE DEF parsed
  <1> QED
    BY <1>1, <1>2, DefaultOrParsed, GoodIsProcessed, ValueOrNot DEF PendingSave, parsed

\* Without a PTY the commands that were read hold those of the configuration.
LEMMA CommandsAreTrue ==
    ASSUME NEW vbash \in BOOLEAN, NEW pty \in BOOLEAN, NEW ignoring \in BOOLEAN,
           NEW out \in {Good} \cup OpModeFailures(pty),
           NEW lines, NEW part, NEW noise,
           IsValue(ConfigurationCommands(vbash, out, lines, part, noise, ignoring))
    PROVE  \/ /\ ConfigurationCommands(vbash, out, lines, part, noise, ignoring).value = {}
              /\ ~vbash \/ out = Silence \/ (ignoring /\ out # Good)
           \/ ~pty => lines \subseteq
                          ConfigurationCommands(vbash, out, lines, part, noise, ignoring).value
  <1> DEFINE parsed == ConfigCommandLines(out.payload, lines, part, noise)
             read == ConfigurationCommands(vbash, out, lines, part, noise, ignoring)
             Defaulted == /\ read = Value({})
                          /\ ~vbash \/ out = Silence \/ (ignoring /\ out # Good)
  <1>1. IsValue(parsed)
    BY ValueOrNot DEF ConfigCommandLines
  <1>2. Defaulted \/ (read = parsed /\ out.rc = 0 /\ out.marker)
    <2> HIDE DEF parsed
    <2> QED
      BY <1>1, DefaultOrParsed, GoodIsProcessed, ValueOrNot DEF ConfigurationCommands, parsed
  <1>3. CASE Defaulted
    <2> HIDE DEF read
    <2>1. read.value = {}
      BY <1>3, ValueOrNot
    <2> QED
      BY <1>3, <2>1 DEF read
  <1>4. CASE read = parsed /\ out.rc = 0 /\ out.marker /\ ~pty
    <2>1. out.payload \in {"whole", "noise"}
      BY <1>4, MarkedIsWhole
    <2>2. parsed = Value(lines) \/ parsed = Value(lines \cup noise)
      BY <2>1 DEF ConfigCommandLines
    <2> HIDE DEF read, parsed
    <2>3. read.value = lines \/ read.value = lines \cup noise
      BY <1>4, <2>2, ValueOrNot
    <2> QED
      BY <2>3 DEF read
  <1> QED
    BY <1>2, <1>3, <1>4

\* "saved" is never a default: a comparison came to that.
LEMMA SavedWasCompared ==
    ASSUME NEW vbash \in BOOLEAN, NEW out, NEW pending \in BOOLEAN, NEW ignoring \in BOOLEAN,
           PendingSave(vbash, out, pending, ignoring) = Value("saved")
    PROVE  vbash /\ out.rc = 0 /\ ~pending
  <1> DEFINE parsed == ParsePendingSave(out.payload, pending)
             processed == Processed(out, parsed)
  <1>1. vbash /\ out.rc = 0 /\ processed = Value("saved")
    BY ValueOrNot DEF PendingSave, GetFact
  <1>2. parsed = Value("saved")
    BY <1>1, ValueOrNot DEF Processed, FactProcess
  <1> QED
    BY <1>1, <1>2, ValueOrNot DEF ParsePendingSave

\* The one step that reads.
LEMMA ReadStep ==
    ASSUME IndInv, Read
    PROVE  IndInv'
  <1>1. UNCHANGED <<fact, host, output>>
    BY DEF Read
  <1>2. /\ host.vbash \in BOOLEAN /\ host.pty \in BOOLEAN /\ host.ignoreErrors \in BOOLEAN
        /\ host.unsaved \in BOOLEAN
        /\ fact # "PendingSave" => output \in {Good} \cup OpModeFailures(host.pty)
    BY DEF IndInv, HostState, Outputs
  <1>3. ValuesAreTrue'
    <2> SUFFICES ASSUME IsValue(result')
                 PROVE  IsTrue(result'.value) \/ (MayDefault /\ result'.value = DefaultOf)
      BY <1>1 DEF ValuesAreTrue, IsTrue, MayDefault, DefaultOf
    <2>1. CASE fact = "Version"
      <3>1. result' = Version(host.vbash, output, Fields, host.ignoreErrors)
        BY <2>1 DEF Read
      <3> QED
        BY <1>1, <1>2, <2>1, <3>1, VersionIsTrue DEF IsTrue, MayDefault, DefaultOf
    <2>2. CASE fact = "Configuration"
      <3>1. result' = Configuration(host.vbash, output, host.tree, host.ignoreErrors)
        BY <2>2 DEF Read
      <3> QED
        BY <1>1, <1>2, <2>2, <3>1, ConfigurationIsTrue DEF IsTrue, MayDefault, DefaultOf
    <2>3. CASE fact = "PendingSave"
      <3>1. result' = PendingSave(host.vbash, output, host.unsaved, host.ignoreErrors)
        BY <2>3 DEF Read
      <3> QED
        BY <1>1, <1>2, <2>3, <3>1, PendingSaveIsTrue DEF IsTrue, MayDefault, DefaultOf
    <2>4. CASE fact = "ConfigurationCommands"
      <3>1. result' = ConfigurationCommands(host.vbash, output, host.tree, host.tree \ Part,
                                            Noise, host.ignoreErrors)
        BY <2>4 DEF Read
      <3> QED
        BY <1>1, <1>2, <2>4, <3>1, CommandsAreTrue DEF IsTrue, MayDefault, DefaultOf
    <2> QED
      BY <2>1, <2>2, <2>3, <2>4 DEF IndInv, FactNames
  <1>4. SavedIsCompared'
    <2> SUFFICES ASSUME fact = "PendingSave", result' = Value("saved")
                 PROVE  host.vbash /\ output.rc = 0 /\ ~host.unsaved
      BY <1>1, <1>2 DEF SavedIsCompared
    <2>1. result' = PendingSave(host.vbash, output, host.unsaved, host.ignoreErrors)
      BY DEF Read
    <2> QED
      BY <1>2, <2>1, SavedWasCompared
  <1> QED
    BY <1>1, <1>3, <1>4 DEF IndInv, Outputs

\* The invariant holds in every behaviour.
LEMMA Invariance == Spec => []IndInv
  <1>1. Init => IndInv
    BY ValueOrNot DEF Init, IndInv, ValuesAreTrue, SavedIsCompared
  <1>2. IndInv /\ [Read \/ Done]_vars => IndInv'
    <2>1. IndInv /\ UNCHANGED vars => IndInv'
      BY DEF IndInv, Outputs, ValuesAreTrue, SavedIsCompared, IsTrue, MayDefault, DefaultOf, vars
    <2> QED
      BY <2>1, ReadStep DEF Done
  <1> QED
    BY <1>1, <1>2, PTL DEF Spec

\* A fact that has a value has the one that is true of the device, or its default
\* where there is no vbash, nothing has arrived on stdout or an error is ignored:
\* no failure of a command and no output cut off or mixed with other lines is
\* taken for a value.
THEOREM Truth == Spec => []ValuesAreTrue
  <1>1. IndInv => ValuesAreTrue
    BY DEF IndInv
  <1> QED
    BY <1>1, Invariance, PTL

\* PendingSave never says "saved" without a comparison that found no difference,
\* on a host without vbash or with errors ignored either.
THEOREM SavedOnlyIfCompared == Spec => []SavedIsCompared
  <1>1. IndInv => SavedIsCompared
    BY DEF IndInv
  <1> QED
    BY <1>1, Invariance, PTL

=============================================================================
