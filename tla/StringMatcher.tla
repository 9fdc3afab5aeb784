---------------------------- MODULE StringMatcher ----------------------------
(***************************************************************************)
(* SimpleStringMatcher (utils/): a template is parsed into nodes, and the   *)
(* nodes are matched against a string one after another.  Characters are    *)
(* strings of length one; what is in neither set below stands for itself.   *)
(***************************************************************************)
EXTENDS Integers, Sequences, FiniteSets, SequencesExt, Functions

CONSTANTS
    TemplateChars,  \* characters of templates
    SourceChars,    \* characters of the strings that are matched
    DigitChars,     \* CharClass::DECIMAL
    MaxTemplate,    \* bound: length of a template
    MaxSource       \* bound: length of a string

\* Characters with a meaning, and those that a "%" may stand before.
SpecialChars == {"(", ")", "?", "$", "%"}
Escapable == SpecialChars \cup {"d"}

ASSUME MatcherAssumption == {MaxTemplate, MaxSource} \subseteq Nat

VARIABLES
    template,       \* template_
    templateAt,     \* position in it
    marked,         \* the characters since Mark()
    nodes,          \* nodes_
    opened,         \* the stack of submatches that are open
    submatchesCount,\* submatchesCount_
    source,         \* the string that is matched
    sourceAt,       \* characters of it that were consumed
    nodeAt,         \* i of Match
    submatches,     \* begin and end of every submatch, -1 at first
    matchPc         \* "parse", "refused", "ready", "match", "matched", "failed"

matchVars == <<template, templateAt, marked, nodes, opened, submatchesCount,
               source, sourceAt, nodeAt, submatches, matchPc>>

MatcherInit ==
    /\ template \in BoundedSeq(TemplateChars, MaxTemplate)
    /\ templateAt = 1 /\ marked = <<>>
    /\ nodes = <<>> /\ opened = <<>> /\ submatchesCount = 0
    /\ source = <<>> /\ sourceAt = 0 /\ nodeAt = 1 /\ submatches = <<>>
    /\ matchPc = "parse"

-----------------------------------------------------------------------------
(* Parse.                                                                   *)

Node(kind, data) == [kind |-> kind, data |-> data]

\* AddStringNode of the characters since Mark.
WithString == IF marked = <<>> THEN nodes ELSE Append(nodes, Node("string", marked))

AddNode(node, next) ==
    /\ nodes' = Append(WithString, node)
    /\ marked' = <<>>
    /\ templateAt' = next

AtTemplate(c) == matchPc = "parse" /\ templateAt <= Len(template) /\ template[templateAt] = c
MatchIdle == UNCHANGED <<template, source, sourceAt, nodeAt, submatches>>

ParseOpen ==
    /\ AtTemplate("(")
    /\ AddNode(Node("open", submatchesCount), templateAt + 1)
    /\ opened' = Append(opened, submatchesCount)
    /\ submatchesCount' = submatchesCount + 1
    /\ UNCHANGED matchPc /\ MatchIdle

\* Mutant: ")" closes the submatch that was opened last, closed or not.
ClosesLast == submatchesCount - 1

\* The top of the stack.
Closes == Last(opened)

ParseClose ==
    /\ AtTemplate(")")
    /\ IF opened = <<>>
       THEN matchPc' = "refused" /\ UNCHANGED <<templateAt, marked, nodes, opened>>
       ELSE /\ AddNode(Node("close", Closes), templateAt + 1)
            /\ opened' = Front(opened)
            /\ UNCHANGED matchPc
    /\ UNCHANGED submatchesCount /\ MatchIdle

ParseAnyOrEnd ==
    /\ \E c \in {"?", "$"} :
           AtTemplate(c) /\ AddNode(Node(IF c = "?" THEN "any" ELSE "end", 0), templateAt + 1)
    /\ UNCHANGED <<opened, submatchesCount, matchPc>> /\ MatchIdle

ParseEscape ==
    /\ AtTemplate("%")
    /\ IF templateAt = Len(template) \/ template[templateAt + 1] \notin Escapable
       THEN matchPc' = "refused" /\ UNCHANGED <<templateAt, marked, nodes>>
       ELSE LET c == template[templateAt + 1]
            IN  /\ AddNode(IF c = "d" THEN Node("digit", 0) ELSE Node("string", <<c>>), templateAt + 2)
                /\ UNCHANGED matchPc
    /\ UNCHANGED <<opened, submatchesCount>> /\ MatchIdle

ParseOther ==
    /\ matchPc = "parse" /\ templateAt <= Len(template)
    /\ template[templateAt] \notin SpecialChars
    /\ marked' = Append(marked, template[templateAt])
    /\ templateAt' = templateAt + 1
    /\ UNCHANGED <<nodes, opened, submatchesCount, matchPc>> /\ MatchIdle

\* The rest of the template; a submatch that is still open is not refused.
ParseEnds ==
    /\ matchPc = "parse" /\ templateAt > Len(template)
    /\ nodes' = WithString
    /\ marked' = <<>> /\ opened' = <<>>
    /\ matchPc' = "ready"
    /\ UNCHANGED <<templateAt, submatchesCount>> /\ MatchIdle

-----------------------------------------------------------------------------
(* Match.                                                                   *)

ParsedStays == UNCHANGED <<template, templateAt, marked, nodes, opened, submatchesCount>>

StartMatch(s) ==
    /\ matchPc = "ready"
    /\ source' = s /\ sourceAt' = 0 /\ nodeAt' = 1
    /\ submatches' = [k \in 0 .. submatchesCount - 1 |-> [begin |-> -1, end |-> -1]]
    /\ matchPc' = "match"
    /\ ParsedStays

Rest == SubSeq(source, sourceAt + 1, Len(source))

DigitFits == Rest # <<>> /\ Head(Rest) \in DigitChars

Goes(consumed) == sourceAt' = sourceAt + consumed /\ nodeAt' = nodeAt + 1 /\ UNCHANGED matchPc

\* Process of the next node.  A string that fits in part has been consumed in part
\* when it fails, which the result does not depend on.
Process ==
    /\ matchPc = "match" /\ nodeAt <= Len(nodes)
    /\ LET node == nodes[nodeAt]
           fits == CASE node.kind = "string" -> IsPrefix(node.data, Rest)
                     [] node.kind = "any" -> Rest # <<>>
                     [] node.kind = "digit" -> DigitFits
                     [] node.kind = "end" -> Rest = <<>>
                     [] OTHER -> TRUE
           consumed == CASE node.kind = "string" -> Len(node.data)
                         [] node.kind \in {"any", "digit"} -> 1
                         [] OTHER -> 0
       IN  /\ IF fits THEN Goes(consumed) ELSE matchPc' = "failed" /\ UNCHANGED <<sourceAt, nodeAt>>
           /\ submatches' =
                  CASE node.kind = "open" -> [submatches EXCEPT ![node.data].begin = sourceAt]
                    [] node.kind = "close" -> [submatches EXCEPT ![node.data].end = sourceAt]
                    [] OTHER -> submatches
    /\ UNCHANGED source /\ ParsedStays

Matched ==
    /\ matchPc = "match" /\ nodeAt > Len(nodes)
    /\ matchPc' = "matched"
    /\ UNCHANGED <<source, sourceAt, nodeAt, submatches>> /\ ParsedStays

MatcherNext ==
    \/ ParseOpen \/ ParseClose \/ ParseAnyOrEnd \/ ParseEscape \/ ParseOther \/ ParseEnds
    \/ \E s \in BoundedSeq(SourceChars, MaxSource) : StartMatch(s)
    \/ Process \/ Matched

MatcherSpec == MatcherInit /\ [][MatcherNext]_matchVars

-----------------------------------------------------------------------------
(* Properties.                                                              *)

\* Positions of the template that begin an item: not those after a "%" that escapes.
ItemAt ==
    LET item[i \in 1 .. Len(template)] == i = 1 \/ ~(item[i - 1] /\ template[i - 1] = "%")
    IN  item
Items == {i \in 1 .. Len(template) : ItemAt[i]}
Consuming == {i \in Items : template[i] \notin {"(", ")", "$"}}

\* Characters consumed by the items before position i of the template.
ConsumedBefore(i) == Cardinality({j \in Consuming : j < i})

ItemFits(i, c) ==
    IF template[i] = "%" /\ template[i + 1] = "d" THEN c \in DigitChars
    ELSE IF template[i] = "%" THEN c = template[i + 1]
    ELSE template[i] = "?" \/ template[i] = c

\* The string fits the template, item by item from its beginning.
Fits ==
    /\ Cardinality(Consuming) <= Len(source)
    /\ \A i \in Consuming : ItemFits(i, source[ConsumedBefore(i) + 1])
    /\ \A i \in Items : template[i] = "$" => ConsumedBefore(i) = Len(source)

\* The position of the ")" that closes the "(" at position p, or 0.
Partner(p) ==
    LET depth(q) == Cardinality({j \in Items : template[j] = "(" /\ p <= j /\ j <= q})
                    - Cardinality({j \in Items : template[j] = ")" /\ p <= j /\ j <= q})
        closing == {q \in Items : q > p /\ depth(q) = 0}
    IN  IF closing = {} THEN 0 ELSE CHOOSE q \in closing : \A r \in closing : q <= r

\* The matcher accepts a string exactly if it begins with a text that fits the
\* template item by item, "$" standing for its end.
MatchIsFit == (matchPc = "matched" => Fits) /\ (matchPc = "failed" => ~Fits)

\* In a match, submatch number n is what the items between the n-th "(" and its
\* own ")" consumed, however they are nested; without that ")" it has no end, and
\* Extract returns nothing.
SubmatchesAreBracketed ==
    matchPc = "matched" =>
        \A p \in Items : template[p] = "(" =>
            LET n == Cardinality({j \in Items : template[j] = "(" /\ j < p})
            IN  /\ submatches[n].begin = ConsumedBefore(p)
                /\ submatches[n].end = IF Partner(p) = 0 THEN -1 ELSE ConsumedBefore(Partner(p))

\* The matcher accepts what the template says, and its submatches are what their
\* brackets enclose.
MatcherIsRight == MatchIsFit /\ SubmatchesAreBracketed
=============================================================================
