---------------------------- MODULE NumberLiteral ----------------------------
(***************************************************************************)
(* IntegerLiteralParser and FloatLiteralParser (tp/NumberLiteralParser.cpp) *)
(* with the builders of tp/NumberBuilder.cpp.  A character is a digit, by   *)
(* its value (10 to 15 are the letters a to f), or one of the codes below.  *)
(* UINT_64 has WIDTH bits.  A double is its decimal mantissa and exponent,  *)
(* without rounding.                                                        *)
(***************************************************************************)
EXTENDS Integers, Sequences, SequencesExt

CONSTANTS
    WIDTH,          \* bits of UINT_64
    MAX_EXPONENT,
    LiteralChars,   \* bound: characters of the source
    MaxLiteral      \* bound: length of the source

ASSUME NumberAssumption ==
    /\ WIDTH \in Nat /\ WIDTH >= 4
    /\ 2 ^ WIDTH \in Nat /\ 2 ^ WIDTH >= 16     \* of every such WIDTH
    /\ MAX_EXPONENT \in Nat /\ MaxLiteral \in Nat
    /\ LiteralChars \subseteq Nat

LetterB == 11
LetterE == 14
LetterX == 20
Minus == 21
Point == 22
Plus == 23
OtherLetter == 24
OtherChar == 25

DECIMAL == 0 .. 9
OCTAL == 0 .. 7
BINARY == 0 .. 1
HEXADECIMAL == 0 .. 15
LETTER == 10 .. 15 \cup {LetterX, OtherLetter}
NUMBER_HEAD == DECIMAL \cup {Minus}

MAX_UNSIGNED == 2 ^ WIDTH - 1
MAX_SIGNED == MAX_UNSIGNED \div 2 + 1

VARIABLES
    literal,    \* the characters from the number on
    at,         \* the position of the CharSource
    parser,     \* "integer" or "float"
    numPc,      \* the loop of the parser, "done", "threw", "too big", or
                \* "overflow": an OverflowError that the parser does not catch
    builder,    \* the builder's members
    digits      \* history: the number written by the digits read, without any limit

numberVars == <<literal, at, parser, numPc, builder, digits>>

EmptyBuilder ==
    [value |-> 0, isNegative |-> FALSE, isFloat |-> FALSE, f |-> 0,
     exponent |-> 0, delta |-> 0, isNegativeExponent |-> FALSE]

NumberInit ==
    /\ literal \in {s \in SeqOf(LiteralChars, MaxLiteral) : s # <<>> /\ s[1] \in NUMBER_HEAD}
    /\ at = 1
    /\ parser \in {"integer", "float"}
    /\ numPc = "head"
    /\ builder = EmptyBuilder
    /\ digits = 0

AtEnd(i) == i > Len(literal)
InClass(i, class) == ~AtEnd(i) /\ literal[i] \in class

\* The parser goes to i and on with pc.
ReadsOn(i, pc) == at' = i /\ numPc' = pc

-----------------------------------------------------------------------------
(* The builders.                                                            *)

Limit == IF builder.isNegative THEN MAX_SIGNED ELSE MAX_UNSIGNED

\* Mutant: the last digit is not compared.
CanAppendIntegerDigitRough(digit) == builder.value <= Limit \div 10

CanAppendIntegerDigit(digit) ==
    \/ builder.value < Limit \div 10
    \/ builder.value = Limit \div 10 /\ digit <= Limit % 10

AsFloat(b) == IF b.isFloat THEN b ELSE [b EXCEPT !.isFloat = TRUE, !.f = b.value]

\* NumberBuilder::OnIntegerDigit: an integer that gets too big becomes a double.
OnIntegerDigit(digit) ==
    IF ~builder.isFloat /\ CanAppendIntegerDigit(digit)
    THEN [builder EXCEPT !.value = 10 * @ + digit]
    ELSE [AsFloat(builder) EXCEPT !.f = 10 * @ + digit]

\* OnBinaryDigit, OnOctalDigit and OnHexadecimalDigit refuse another digit.
RadixOverflows(radix) == builder.value > MAX_UNSIGNED \div radix + 1

OnRadixDigit(radix, digit) ==
    [builder EXCEPT !.value = (@ * radix + digit) % (2 ^ WIDTH)]

-----------------------------------------------------------------------------
(* The parsers.                                                             *)

\* The parser is done, or goes on at i as a double: after a point, after a letter E.
GoesOnAsDouble(i, chars) ==
    \/ InClass(i, chars \cap {Point}) /\ ReadsOn(i, "fraction prefix")
    \/ InClass(i, chars \cap {LetterE}) /\ ReadsOn(i, "exponent prefix")
    \/ ~InClass(i, chars \cup DECIMAL) /\ ReadsOn(i, "done")

\* What makes a number of the parser a double.
DoubleChars == IF parser = "float" THEN {Point, LetterE} ELSE {}

\* What follows a zero at the beginning.
AfterZero ==
    \/ parser = "integer" /\ InClass(2, {LetterB}) /\ ReadsOn(2, "binary prefix")
    \/ parser = "integer" /\ InClass(2, {LetterX}) /\ ReadsOn(2, "hex prefix")
    \/ parser = "integer" /\ InClass(2, OCTAL) /\ ReadsOn(2, "octal")
    \/ parser = "integer" /\ InClass(2, DECIMAL \ OCTAL) /\ ReadsOn(2, "threw")
    \/ parser = "integer" /\ ~InClass(2, DECIMAL \cup {LetterB, LetterX}) /\ ReadsOn(2, "done")
    \/ parser = "float" /\ InClass(2, DECIMAL) /\ ReadsOn(2, "decimal")
    \/ parser = "float" /\ GoesOnAsDouble(2, DoubleChars)

\* The first character: a minus sign, 0 or another digit.
ParseHead ==
    /\ numPc = "head"
    /\ \/ /\ literal[1] = Minus
          /\ builder' = [builder EXCEPT !.isNegative = TRUE]
          /\ ReadsOn(2, IF InClass(2, DECIMAL) THEN "decimal" ELSE "threw")
       \/ literal[1] = 0 /\ UNCHANGED builder /\ AfterZero
       \/ literal[1] \notin {Minus, 0} /\ UNCHANGED builder /\ ReadsOn(1, "decimal")
    /\ UNCHANGED <<literal, parser, digits>>

\* A turn of the loop over decimal digits.
ParseDecimal ==
    /\ numPc = "decimal"
    /\ digits' = 10 * digits + literal[at]
    /\ \/ /\ parser = "integer" /\ ~CanAppendIntegerDigit(literal[at])
          /\ UNCHANGED builder
          /\ ReadsOn(at, "overflow")
       \/ /\ parser = "integer" => CanAppendIntegerDigit(literal[at])
          /\ builder' = OnIntegerDigit(literal[at])
          /\ \/ InClass(at + 1, DECIMAL) /\ ReadsOn(at + 1, "decimal")
             \/ GoesOnAsDouble(at + 1, DoubleChars)
    /\ UNCHANGED <<literal, parser>>

\* ParseBinary and ParseHexadecimal skip the letter and need a digit.
ParsePrefix(pc, class, loop) ==
    /\ numPc = pc
    /\ ReadsOn(at + 1, IF InClass(at + 1, class) THEN loop ELSE "threw")
    /\ UNCHANGED <<literal, parser, builder, digits>>

\* A turn of the loops of ParseBinary, ParseOctal and ParseHexadecimal; a
\* character of "wrong" after the digits is an error.
ParseRadix(loop, radix, class, wrong) ==
    /\ numPc = loop
    /\ digits' = radix * digits + literal[at]
    /\ \/ RadixOverflows(radix) /\ UNCHANGED builder /\ ReadsOn(at, "too big")
       \/ /\ ~RadixOverflows(radix)
          /\ builder' = OnRadixDigit(radix, literal[at])
          /\ \/ InClass(at + 1, class) /\ ReadsOn(at + 1, loop)
             \/ InClass(at + 1, wrong \ class) /\ ReadsOn(at + 1, "threw")
             \/ ~InClass(at + 1, class \cup wrong) /\ ReadsOn(at + 1, "done")
    /\ UNCHANGED <<literal, parser>>

\* ParseFractional: the point needs a digit after it.
ParsePoint ==
    /\ numPc = "fraction prefix"
    /\ builder' = AsFloat(builder)
    /\ ReadsOn(at + 1, IF InClass(at + 1, DECIMAL) THEN "fraction" ELSE "threw")
    /\ UNCHANGED <<literal, parser, digits>>

ParseFraction ==
    /\ numPc = "fraction"
    /\ builder' = [builder EXCEPT !.f = 10 * @ + literal[at], !.delta = @ - 1]
    /\ digits' = 10 * digits + literal[at]
    /\ \/ InClass(at + 1, DECIMAL) /\ ReadsOn(at + 1, "fraction")
       \/ GoesOnAsDouble(at + 1, {LetterE})
    /\ UNCHANGED <<literal, parser>>

\* ParseExponent: the letter, an optional sign, and digits.
ParseExponentPrefix ==
    /\ numPc = "exponent prefix"
    /\ LET signed == InClass(at + 1, {Minus, Plus})
           first == IF signed THEN at + 2 ELSE at + 1
       IN  /\ builder' = [AsFloat(builder) EXCEPT !.isNegativeExponent = InClass(at + 1, {Minus})]
           /\ ReadsOn(first, IF InClass(first, DECIMAL) THEN "exponent" ELSE "threw")
    /\ UNCHANGED <<literal, parser, digits>>

ParseExponent ==
    /\ numPc = "exponent"
    /\ builder' = IF builder.exponent < MAX_EXPONENT
                  THEN [builder EXCEPT !.exponent = 10 * @ + literal[at]]
                  ELSE builder
    /\ ReadsOn(at + 1, IF InClass(at + 1, DECIMAL) THEN "exponent" ELSE "done")
    /\ UNCHANGED <<literal, parser, digits>>

NumberNext ==
    \/ ParseHead
    \/ ParseDecimal
    \/ ParsePrefix("binary prefix", BINARY, "binary")
    \/ ParsePrefix("hex prefix", HEXADECIMAL, "hex")
    \/ ParseRadix("binary", 2, BINARY, DECIMAL)
    \/ ParseRadix("octal", 8, OCTAL, DECIMAL)
    \/ ParseRadix("hex", 16, HEXADECIMAL, LETTER)
    \/ ParsePoint \/ ParseFraction \/ ParseExponentPrefix \/ ParseExponent

NumberSpec == NumberInit /\ [][NumberNext]_numberVars

-----------------------------------------------------------------------------
\* Type invariant; the value a builder holds never leaves the width of UINT_64,
\* and the exponent stops growing before an int overflows.
NumberTypeOK ==
    /\ at \in 1 .. Len(literal) + 1
    /\ numPc \in {"head", "decimal", "binary prefix", "hex prefix", "binary", "octal", "hex",
                  "fraction prefix", "fraction", "exponent prefix", "exponent",
                  "done", "threw", "overflow", "too big"}
    /\ builder.value \in 0 .. MAX_UNSIGNED
    /\ builder.exponent \in 0 .. 10 * MAX_EXPONENT + 9

\* Release of an integer negates it as INT_64 when it is negative, so it must
\* not exceed MAX_SIGNED then; a literal that was read to its end is the number
\* that its digits write, if that number fits.
NumberIsExact ==
    /\ builder.isNegative => builder.value <= MAX_SIGNED
    /\ (numPc = "done" /\ ~builder.isFloat /\ digits <= MAX_UNSIGNED) => builder.value = digits
    /\ (numPc = "done" /\ builder.isFloat) => builder.f = digits

\* FloatLiteralParser makes a double of a literal with a point or an exponent
\* and of one that fits no integer, and of no other; it never refuses digits.
DoubleOnlyIfNeeded ==
    /\ (parser = "float" /\ numPc = "done") =>
           (builder.isFloat <=> \/ \E i \in 1 .. at - 1 : literal[i] \in {Point, LetterE}
                                \/ digits > Limit)
    /\ parser = "float" => numPc # "overflow"

\* A number that fits is never refused as too big: the digit that is refused
\* would have made it exceed what the type holds.
FittingIsNotRefused == numPc \in {"overflow", "too big"} => digits > Limit

\* ParseBinary, ParseOctal and ParseHexadecimal report a number that does not
\* fit ("Hexadecimal number is too big"): what they return is what is written.
TooBigIsReported ==
    (numPc = "done" /\ ~builder.isFloat) => builder.value = digits

\* A literal is read as the number that is written, as an integer wherever one
\* fits, and is not refused as too big if it fits.  (Binary, octal and hexadecimal
\* literals that do not fit are the subject of TooBigIsReported.)
NumberIsAsWritten == NumberTypeOK /\ NumberIsExact /\ DoubleOnlyIfNeeded /\ FittingIsNotRefused
=============================================================================
