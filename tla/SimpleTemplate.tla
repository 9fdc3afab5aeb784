--------------------------- MODULE SimpleTemplate ---------------------------
(***************************************************************************)
(* SimpleTemplateParser, SimpleTemplate and the writer that puts values     *)
(* into one (simple_template/).  In a template "$$" is a dollar, "$_" the   *)
(* next parameter, "$" and a number the parameter of that index, and a      *)
(* dollar before anything else stands for itself.                           *)
(***************************************************************************)
EXTENDS Integers, Sequences, FiniteSets, SequencesExt

CONSTANTS
    PatternChars,   \* characters of templates
    PatternDigits,  \* what the digits among them are worth
    ValueChars,     \* the values, one character each; the first has index 0
    MaxPattern      \* bound: length of a template

CONTROL_CHAR == "$"

ASSUME PatternAssumption ==
    /\ MaxPattern \in Nat
    /\ PatternDigits \in [DOMAIN PatternDigits -> Nat]
    /\ DOMAIN PatternDigits \subseteq PatternChars /\ "NUL" \notin PatternChars
    /\ Len(ValueChars) \in Nat
    /\ {CONTROL_CHAR, "_"} \subseteq PatternChars \ DOMAIN PatternDigits

VARIABLES
    pattern,        \* the template's source
    ptr,            \* ptr_
    textBegin,      \* textBegin_
    nextParam,      \* currentParamIndex_
    items,          \* items_
    params,         \* params_, which indexes have a SimpleTemplateParameter
    itemAt,         \* how many items were written
    output,         \* the OutputStream
    patternPc       \* "parse", "overrun", "write", "written"

patternVars == <<pattern, ptr, textBegin, nextParam, items, params, itemAt, output, patternPc>>

PatternInit ==
    /\ pattern \in BoundedSeq(PatternChars, MaxPattern)
    /\ ptr = 1 /\ textBegin = 1 /\ nextParam = 0
    /\ items = <<>> /\ params = <<>>
    /\ itemAt = 0 /\ output = <<>>
    /\ patternPc = "parse"

-----------------------------------------------------------------------------
(* Parsing.                                                                 *)

CharAt(i) == IF i <= Len(pattern) THEN pattern[i] ELSE "NUL"
IsDigitDec(c) == c \in DOMAIN PatternDigits

Text(s) == [text |-> s, param |-> -1]
Parameter(i) == [text |-> <<>>, param |-> i]

\* OnText, when there is any.
WithText(end) ==
    IF textBegin < end THEN Append(items, Text(SubSeq(pattern, textBegin, end - 1))) ELSE items

\* Mutant: a gap in the indexes is not filled.
WithParameterAtEnd(i) == Append(params, TRUE)

\* CreateParameter: params_ is as long as the highest index needs.
WithParameter(i) ==
    [k \in 1 .. (IF i < Len(params) THEN Len(params) ELSE i + 1) |->
       k = i + 1 \/ (k <= Len(params) /\ params[k])]

\* The end of the digits from position i, and what they are worth.
EndOfDigits(i) == CHOOSE e \in i .. Len(pattern) + 1 :
                     /\ ~IsDigitDec(CharAt(e))
                     /\ \A j \in i .. e - 1 : IsDigitDec(CharAt(j))
UnpackInteger(i) ==
    LET value[e \in i .. EndOfDigits(i)] ==
            IF e = i THEN 0 ELSE 10 * value[e - 1] + PatternDigits[pattern[e - 1]]
    IN  value[EndOfDigits(i)]

Parsing == patternPc = "parse" /\ UNCHANGED <<pattern, itemAt, output>>

AtText == CharAt(ptr) \notin {"NUL", CONTROL_CHAR}
AtControl == CharAt(ptr) = CONTROL_CHAR

SkipText ==
    /\ Parsing /\ AtText
    /\ ptr' = ptr + 1
    /\ UNCHANGED <<textBegin, nextParam, items, params, patternPc>>

ControlChar ==
    /\ Parsing /\ AtControl /\ CharAt(ptr + 1) = CONTROL_CHAR
    /\ items' = WithText(ptr)
    /\ textBegin' = ptr + 1
    /\ ptr' = ptr + 2
    /\ UNCHANGED <<nextParam, params, patternPc>>

OnParameter(i, end) ==
    /\ items' = Append(WithText(ptr), Parameter(i))
    /\ params' = WithParameter(i)
    /\ ptr' = end /\ textBegin' = end

NextParameter ==
    /\ Parsing /\ AtControl /\ CharAt(ptr + 1) = "_"
    /\ OnParameter(nextParam, ptr + 2)
    /\ nextParam' = nextParam + 1
    /\ UNCHANGED patternPc

NumberedParameter ==
    /\ Parsing /\ AtControl /\ IsDigitDec(CharAt(ptr + 1))
    /\ OnParameter(UnpackInteger(ptr + 1), EndOfDigits(ptr + 1))
    /\ UNCHANGED <<nextParam, patternPc>>

\* "just skip it", the terminating zero too: the parser then runs on in whatever
\* comes behind the string, and nothing is said about what it makes of it.
OtherControl ==
    /\ Parsing /\ AtControl
    /\ CharAt(ptr + 1) \notin DOMAIN PatternDigits \cup {CONTROL_CHAR, "_"}
    /\ IF CharAt(ptr + 1) = "NUL"
       THEN patternPc' = "overrun" /\ UNCHANGED ptr
       ELSE ptr' = ptr + 2 /\ UNCHANGED patternPc
    /\ UNCHANGED <<textBegin, nextParam, items, params>>

EndOfPattern ==
    /\ Parsing /\ CharAt(ptr) = "NUL"
    /\ items' = WithText(ptr)
    /\ patternPc' = "write"
    /\ UNCHANGED <<ptr, textBegin, nextParam, params>>

-----------------------------------------------------------------------------
(* Writing.                                                                 *)

\* A parameter without a value writes nothing.
ValueOfParam(i) == IF i < Len(ValueChars) THEN <<ValueChars[i + 1]>> ELSE <<>>

VisitItem ==
    /\ patternPc = "write" /\ itemAt < Len(items)
    /\ LET item == items[itemAt + 1]
       IN  output' = output \o (IF item.param = -1 THEN item.text ELSE ValueOfParam(item.param))
    /\ itemAt' = itemAt + 1
    /\ UNCHANGED <<pattern, ptr, textBegin, nextParam, items, params, patternPc>>

Visited ==
    /\ patternPc = "write" /\ itemAt = Len(items)
    /\ patternPc' = "written"
    /\ UNCHANGED <<pattern, ptr, textBegin, nextParam, items, params, itemAt, output>>

PatternNext ==
    \/ SkipText \/ ControlChar \/ NextParameter \/ NumberedParameter \/ OtherControl \/ EndOfPattern
    \/ VisitItem \/ Visited

PatternSpec == PatternInit /\ [][PatternNext]_patternVars

-----------------------------------------------------------------------------
(* Properties.  What a template means is stated for each character by what  *)
(* stands before it.                                                        *)

\* The dollars that are not the second character after another.
Controls ==
    LET control[i \in 0 .. Len(pattern)] ==
            i > 0 /\ pattern[i] = CONTROL_CHAR /\ ~control[i - 1]
    IN  {i \in 1 .. Len(pattern) : control[i]}

\* The parameters: a control and what follows, and the index it stands for.
Underscores == {i \in Controls : CharAt(i + 1) = "_"}
Numbers == {i \in Controls : IsDigitDec(CharAt(i + 1))}
IndexAt(i) ==
    IF i \in Numbers THEN UnpackInteger(i + 1) ELSE Cardinality({j \in Underscores : j < i})
Covered == {i + 1 : i \in Underscores}
           \cup (UNION {i + 1 .. EndOfDigits(i + 1) - 1 : i \in Numbers})
           \cup {i \in Controls : CharAt(i + 1) = CONTROL_CHAR}

\* What character i becomes.
Meaning(i) ==
    CASE i \in Underscores \cup Numbers -> ValueOfParam(IndexAt(i))
      [] i \in Covered -> <<>>
      [] OTHER -> <<pattern[i]>>

\* The text with its values is what the template means, and the parser leaves the
\* string only if it ends with a dollar that is no part of "$$".
WrittenIsMeant ==
    /\ patternPc = "written" =>
           output = FlattenSeq([i \in 1 .. Len(pattern) |-> Meaning(i)])
    /\ patternPc = "overrun" => Len(pattern) \in Controls

\* Each index that is used has its parameter, and no other has.
ParametersAreThose ==
    patternPc \in {"write", "written"} =>
        LET used == {IndexAt(i) : i \in Underscores \cup Numbers}
        IN  /\ {k \in 1 .. Len(params) : params[k]} = {i + 1 : i \in used}
            /\ Len(params) > 0 => params[Len(params)]

\* A template means what its characters say, and has a parameter for each index.
TemplateIsAsWritten == WrittenIsMeant /\ ParametersAreThose
=============================================================================
