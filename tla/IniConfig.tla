------------------------------ MODULE IniConfig ------------------------------
(***************************************************************************)
(* IniConfig::LoadFromFile and IniConfigParser (ini/).                      *)
(* A file is a sequence of tokens: an identifier, a value literal, or one   *)
(* character.  What identifiers and literals are made of is left to the     *)
(* parsers of tp/.                                                          *)
(***************************************************************************)
EXTENDS Integers, Sequences, FiniteSets, SequencesExt, Functions

CONSTANTS
    Idents,         \* identifiers: names of sections and keys
    IniValues,      \* value literals
    IniFiles        \* bound: the files that are loaded

NoSection == "NoSection"   \* the empty name of the section before the first header
Characters == {"[", "]", "space", "=", "semicolon", "newline", "return", "other"}

ASSUME IniAssumption ==
    /\ NoSection \notin Idents
    /\ Idents \cap IniValues = {}
    /\ (Idents \cup IniValues) \cap (Characters \cup {"end"}) = {}
    /\ \A f \in IniFiles : f \in Seq(Idents \cup IniValues \cup Characters)

VARIABLES
    file,           \* the file that is loaded
    iniAt,          \* position in it
    iniPc,          \* "idle", "line", "section", "key", "tail", "done", "threw"
    currentSection, \* currentSection_
    pairs           \* what the sections hold: a function of <<section, key>>

iniVars == <<file, iniAt, iniPc, currentSection, pairs>>

EmptyPairs == [x \in {} |-> NoSection]
With(f, x, value) == [y \in DOMAIN f \cup {x} |-> IF y = x THEN value ELSE f[y]]

-----------------------------------------------------------------------------
(* Positions.                                                               *)

At(i) == IF i <= Len(file) THEN file[i] ELSE "end"

\* SkipLinearSpaces.
AfterSpaces(i) == CHOOSE j \in i .. Len(file) + 1 : At(j) # "space" /\ \A k \in i .. j - 1 : At(k) = "space"

\* SkipComments: to the end of the line.
AfterComment(i) ==
    IF At(i) # "semicolon" THEN i
    ELSE CHOOSE j \in i .. Len(file) + 1 :
             At(j) \in {"newline", "end"} /\ \A k \in i .. j - 1 : At(k) # "newline"

-----------------------------------------------------------------------------
(* Loading.                                                                 *)

\* The config may hold anything that an earlier call left in it.
IniInit ==
    /\ file = <<>>
    /\ iniAt = 1
    /\ iniPc = "idle"
    /\ currentSection = NoSection
    /\ pairs \in {EmptyPairs} \cup
                 {With(EmptyPairs, <<s, k>>, v) : s \in Idents, k \in Idents, v \in IniValues}

\* Mutant: what was loaded before stays.
ClearedNot == pairs

\* sections_.Clear().
Cleared == EmptyPairs

\* LoadFromFile clears the config, reads the file and starts the parser.
LoadFromFile(f) ==
    /\ iniPc = "idle"
    /\ pairs' = Cleared
    /\ file' = f
    /\ iniAt' = 1
    /\ currentSection' = NoSection
    /\ iniPc' = "line"

IniGoes(i, pc) == iniAt' = i /\ iniPc' = pc

\* The file cannot be opened or read, or is too big: the config is cleared by then.
LoadFails ==
    /\ iniPc = "idle"
    /\ pairs' = Cleared
    /\ IniGoes(1, "threw")
    /\ UNCHANGED <<file, currentSection>>

\* ParseLine up to the first token of the line.
ParseLine ==
    /\ iniPc = "line"
    /\ LET i == AfterSpaces(iniAt)
       IN  IniGoes(i, CASE At(i) = "end" -> "done"
                        [] At(i) = "[" -> "section"
                        [] At(i) \in Idents -> "key"
                        [] OTHER -> "tail")
    /\ UNCHANGED <<file, currentSection, pairs>>

\* ReadSection: "[", the name, "]".
ReadSection ==
    /\ iniPc = "section"
    /\ LET name == AfterSpaces(iniAt + 1)
           close == AfterSpaces(name + 1)
       IN  IF At(name) \in Idents
           THEN /\ currentSection' = At(name)
                /\ IF At(close) = "]" THEN IniGoes(close + 1, "tail") ELSE IniGoes(close, "threw")
           ELSE UNCHANGED currentSection /\ IniGoes(name, "threw")
    /\ UNCHANGED <<file, pairs>>

\* ReadKeyValue: the key, spaces or "=" (or ":") or both, the value.
ReadKeyValue ==
    /\ iniPc = "key"
    /\ LET divider == AfterSpaces(iniAt + 1)
           value == IF At(divider) = "=" THEN AfterSpaces(divider + 1) ELSE divider
       IN  IF value # iniAt + 1 /\ At(value) \in IniValues
           THEN /\ pairs' = With(pairs, <<currentSection, At(iniAt)>>, At(value))
                /\ IniGoes(value + 1, "tail")
           ELSE UNCHANGED pairs /\ IniGoes(value, "threw")
    /\ UNCHANGED <<file, currentSection>>

\* The rest of ParseLine: spaces, a comment, the end of the line.
ParseLineTail ==
    /\ iniPc = "tail"
    /\ LET rest == AfterComment(AfterSpaces(iniAt))
           line == IF At(rest) = "return" THEN rest + 1 ELSE rest
       IN  CASE At(line) = "end" -> IniGoes(line, "line")
             [] At(line) = "newline" -> IniGoes(line + 1, "line")
             [] OTHER -> IniGoes(line, "threw")
    /\ UNCHANGED <<file, currentSection, pairs>>

\* The application may load again after either outcome.
LoadEnds ==
    /\ iniPc \in {"done", "threw"}
    /\ IniGoes(1, "idle")
    /\ file' = <<>>
    /\ currentSection' = NoSection
    /\ UNCHANGED pairs

IniNext ==
    \/ \E f \in IniFiles : LoadFromFile(f)
    \/ LoadFails
    \/ ParseLine \/ ReadSection \/ ReadKeyValue \/ ParseLineTail \/ LoadEnds

IniSpec == IniInit /\ [][IniNext]_iniVars

-----------------------------------------------------------------------------
(* Properties.                                                              *)

\* The number of the line that holds position i, and its first token.
LineOf(i) == Cardinality({k \in 1 .. i - 1 : At(k) = "newline"})
HeadOf(line) ==
    CHOOSE i \in 1 .. Len(file) + 1 :
        LineOf(i) = line /\ At(i) # "space" /\ \A k \in 1 .. i - 1 : LineOf(k) = line => At(k) = "space"

IsHeader(line) == At(HeadOf(line)) = "["

\* The section a line belongs to: that of the last header above it.
SectionOf(line) ==
    LET above == {h \in 0 .. line - 1 : IsHeader(h)}
        last == CHOOSE h \in above : \A g \in above : g <= h
    IN  IF above = {} THEN NoSection
        ELSE At(CHOOSE i \in HeadOf(last) .. Len(file) :
                    At(i) \in Idents /\ \A k \in HeadOf(last) .. i - 1 : At(k) \notin Idents)

ValueOf(line) ==
    At(CHOOSE i \in HeadOf(line) .. Len(file) :
           At(i) \in IniValues /\ \A k \in HeadOf(line) .. i - 1 : At(k) \notin IniValues)

PairAt(line) == <<SectionOf(line), At(HeadOf(line))>>

\* The config holds what the first n lines say and nothing else: for each key, in
\* the section of the header above it, the value of the last line that sets it.
Holds(n) ==
    LET keyLines == {l \in 0 .. n - 1 : At(HeadOf(l)) \in Idents}
        setting(x) == {l \in keyLines : PairAt(l) = x}
    IN  /\ DOMAIN pairs = {PairAt(l) : l \in keyLines}
        /\ \A x \in DOMAIN pairs :
               pairs[x] = ValueOf(CHOOSE l \in setting(x) : \A m \in setting(x) : m <= l)

\* How many lines were read to their end: at the end of the file the last one too.
LinesRead == LineOf(iniAt) + (IF iniAt > Len(file) THEN 1 ELSE 0)

\* Between two lines and at the end the config holds what the lines read so far
\* say.  After an error it holds what the lines above the wrong one say, and of
\* that line at most a pair with garbage behind it; when the file could not be
\* read it holds nothing.  What it held before the load is gone in every case.
ConfigIsWhatWasRead ==
    /\ iniPc \in {"line", "done"} => Holds(LinesRead)
    /\ iniPc = "threw" => Holds(LineOf(iniAt)) \/ Holds(LineOf(iniAt) + 1)

=============================================================================
