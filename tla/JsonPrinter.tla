----------------------------- MODULE JsonPrinter -----------------------------
(***************************************************************************)
(* XTL::JsonPrinter (json/JsonPrinter.cpp): values, arrays and objects are  *)
(* put into a printer, which separates them and keeps a stack of what is    *)
(* open.  A string or a number is one token; what a string is escaped to    *)
(* and the spaces are left out, the depth of the indentation is kept.       *)
(***************************************************************************)
EXTENDS Integers, Sequences, FiniteSets, SequencesExt

CONSTANT MaxJsonCalls   \* bound: calls of operator<<

ASSUME JsonAssumption == MaxJsonCalls \in Nat

VARIABLES
    jsonStack,      \* stack_ above JSON_ROOT
    jsonText,       \* the tokens printed
    jsonIndent,     \* indent_ of the FormattingSpacer
    finishing,      \* inside the loop of Finish or LinearFinish
    jsonCalls,      \* history: number of calls
    emptied         \* history: an empty multiline array or object was closed

jsonVars == <<jsonStack, jsonText, jsonIndent, finishing, jsonCalls, emptied>>

JsonInit ==
    /\ jsonStack = <<>> /\ jsonText = <<>> /\ jsonIndent = 0
    /\ finishing = FALSE /\ jsonCalls = 0 /\ emptied = FALSE

-----------------------------------------------------------------------------

Literals == {"string", "number"}
OpenOf == [array |-> "[", object |-> "{"]
CloseOf == [array |-> "]", object |-> "}"]

\* The eleven items of the stack: JSON_ROOT is the empty stack, the others are
\* an array or object, linear or multiline, and where in it the printer is.
AtRoot == jsonStack = <<>>
Top == Last(jsonStack)
SetTop(at) == [jsonStack EXCEPT ![Len(jsonStack)].at = at]

Call == ~finishing /\ jsonCalls < MaxJsonCalls /\ jsonCalls' = jsonCalls + 1

\* Mutant: no comma after the first item.
SeparatorAfterSecond == IF Top.at = "value" THEN <<",">> ELSE <<>>

\* What comes before an item of an array, a key or a value.
Separator == IF Top.at \in {"item", "value"} THEN <<",">> ELSE <<>>

ExpectsKey == ~AtRoot /\ Top.kind = "object" /\ Top.at \in {"begin", "value"}
AfterValue == SetTop(IF Top.kind = "array" THEN "item" ELSE "value")

\* operator<< (const Literal &): a key, where one is expected, must be a string.
PrintLiteral(literal) ==
    /\ Call
    /\ ~AtRoot
    /\ ExpectsKey => literal = "string"
    /\ jsonText' = jsonText \o Separator \o <<literal>> \o (IF ExpectsKey THEN <<":">> ELSE <<>>)
    /\ jsonStack' = IF ExpectsKey THEN SetTop("key") ELSE AfterValue
    /\ UNCHANGED <<jsonIndent, finishing, emptied>>

\* operator<< (Array), (Object), (LinearArray) and (LinearObject): what is opened
\* inside a linear array or object is linear.
Begin(kind, asked) ==
    LET multiline == asked /\ (AtRoot \/ Top.multiline)
        opened == [kind |-> kind, multiline |-> multiline, at |-> "begin"]
    IN  /\ Call
        /\ ~ExpectsKey
        /\ jsonText' = jsonText \o (IF AtRoot THEN <<>> ELSE Separator) \o <<OpenOf[kind]>>
        /\ jsonStack' = Append(IF AtRoot THEN <<>> ELSE AfterValue, opened)
        /\ jsonIndent' = jsonIndent + (IF multiline THEN 1 ELSE 0)
        /\ UNCHANGED <<finishing, emptied>>

\* DecIndent is not called for an empty multiline array or object.
Unindents == Top.multiline /\ Top.at # "begin"

Closed ==
    /\ jsonText' = Append(jsonText, CloseOf[Top.kind])
    /\ jsonStack' = Front(jsonStack)
    /\ jsonIndent' = jsonIndent - (IF Unindents THEN 1 ELSE 0)
    /\ emptied' = (emptied \/ (Top.multiline /\ Top.at = "begin"))

CanEnd == ~AtRoot /\ Top.at # "key"

\* operator<< (End)
End == Call /\ CanEnd /\ Closed /\ UNCHANGED finishing

\* operator<< (Finish) and (LinearFinish): End until the root.
Finish == Call /\ finishing' = TRUE /\ UNCHANGED <<jsonStack, jsonText, jsonIndent, emptied>>

FinishEnds ==
    /\ finishing
    /\ IF CanEnd
       THEN Closed /\ UNCHANGED finishing
       ELSE finishing' = FALSE /\ UNCHANGED <<jsonStack, jsonText, jsonIndent, emptied>>
    /\ UNCHANGED jsonCalls

\* RaiseError comes before anything is printed or changed.
JsonError ==
    /\ Call
    /\ ~CanEnd \/ ExpectsKey
    /\ UNCHANGED <<jsonStack, jsonText, jsonIndent, finishing, emptied>>

JsonNext ==
    \/ \E l \in Literals : PrintLiteral(l)
    \/ \E k \in {"array", "object"}, m \in BOOLEAN : Begin(k, m)
    \/ End \/ Finish \/ FinishEnds \/ JsonError

JsonSpec == JsonInit /\ [][JsonNext]_jsonVars

-----------------------------------------------------------------------------
(* Properties.  The grammar of JSON is stated on the text alone.            *)

Opens == {"[", "{"}
Closings == {"]", "}"}
EndsValue(t) == t \in Literals \cup Closings

\* How many brackets are open after the first k tokens of a text.
Depth(s, k) ==
    Cardinality({i \in 1 .. k : s[i] \in Opens})
      - Cardinality({i \in 1 .. k : s[i] \in Closings})

\* The bracket that token k stands in, 0 at the root.
Around(s, k) ==
    LET around == {j \in 1 .. k - 1 : /\ s[j] \in Opens
                                     /\ \A m \in j .. k - 1 : Depth(s, m) >= Depth(s, j)}
    IN  IF around = {} THEN 0 ELSE Max(around)

\* Token k - 1 is a key.
IsKey(s, k) == s[k - 1] = "string" /\ s[k - 2] \in {"{", ","}

\* What may follow p in an array, and in an object; first: p is its bracket.
FollowsInArray(t, p, first) ==
    IF p = "," \/ first THEN t \in Literals \cup Opens \/ (t = "]" /\ first)
    ELSE EndsValue(p) /\ t \in {",", "]"}
FollowsInObject(t, p, first, isKey) ==
    IF first THEN t \in {"string", "}"}
    ELSE IF p = "," THEN t = "string"
    ELSE IF p = ":" THEN t \in Literals \cup Opens
    ELSE IF isKey THEN t = ":"
    ELSE EndsValue(p) /\ t \in {",", "}"}

\* Token k may stand after token k - 1.
MayFollow(s, k) ==
    LET around == Around(s, k)
    IN  IF around = 0 THEN s[k] \in Opens
        ELSE IF s[around] = "[" THEN FollowsInArray(s[k], s[k - 1], around = k - 1)
        ELSE FollowsInObject(s[k], s[k - 1], around = k - 1, IsKey(s, k))

\* Whatever is put into the printer, and after any error, the text so far is the
\* beginning of well formed JSON documents, and what is open in it is what the
\* stack says: after Finish without an error it is complete.
TextIsWellFormed ==
    /\ \A k \in 2 .. Len(jsonText) : MayFollow(jsonText, k)
    /\ jsonText # <<>> => jsonText[1] \in Opens
    /\ Depth(jsonText, Len(jsonText)) = Len(jsonStack)

\* The indentation is the number of open multiline arrays and objects, until an
\* empty one was closed, which leaves it deeper; it never gets below zero.
IndentIsDepth ==
    LET open == Cardinality({i \in 1 .. Len(jsonStack) : jsonStack[i].multiline})
    IN  jsonIndent >= open /\ (~emptied => jsonIndent = open)

\* The printer's text is well formed JSON, indented by what is open.
JsonIsWellFormed == TextIsWellFormed /\ IndentIsDepth
=============================================================================
