----------------------------- MODULE ValueProofs -----------------------------
(***************************************************************************)
(* Conversions are exact: proofs for NumberLiteral, Date and Base64.        *)
(*                                                                         *)
(* NumberLiteral: the value of the builder is the exact value of the digits *)
(* read, modulo 2 ^ WIDTH where the code does not test for overflow.        *)
(* Date: years are counted in cycles of 400, FromDayIndex undoes ToDayIndex,*)
(* and each turn of the loops of AddDays and SubDays keeps the day meant.   *)
(* Base64: the tables and the groups are inverse, and Buffer says where the *)
(* values of each turn of a loop are, so that no induction is needed.       *)
(***************************************************************************)
EXTENDS NumberLiteral, Date, Base64, TLAPS

-----------------------------------------------------------------------------
(* Number literals.                                                         *)

\* The limits of the integers.
LEMMA Limits ==
    /\ MAX_UNSIGNED \in Nat /\ MAX_UNSIGNED >= 15 /\ 2 ^ WIDTH = MAX_UNSIGNED + 1
    /\ MAX_SIGNED \in Nat /\ MAX_SIGNED <= MAX_UNSIGNED
  BY NumberAssumption DEF MAX_UNSIGNED, MAX_SIGNED

\* A decimal digit is appended exactly if the number stays within the limit.
LEMMA DigitFits ==
    ASSUME NEW limit \in Nat, NEW v \in Nat, NEW d \in 0 .. 9
    PROVE  (v < limit \div 10 \/ (v = limit \div 10 /\ d <= limit % 10)) <=> 10 * v + d <= limit
<1> DEFINE q == limit \div 10
           r == limit % 10
<1>1. q \in Nat /\ r \in 0 .. 9 /\ limit = 10 * q + r
  OBVIOUS
<1> HIDE DEF q, r
<1>2. (v < q \/ (v = q /\ d <= r)) <=> 10 * v + d <= 10 * q + r
  BY <1>1
<1> QED
  BY <1>1, <1>2 DEF q, r

\* A number of another radix is only refused when a digit more makes it too big.
LEMMA RadixFits ==
    ASSUME NEW max \in Nat, NEW radix \in {2, 8, 16}, NEW v \in Nat
    PROVE  v > max \div radix + 1 => radix * v > max
  BY Z3

\* Fewer digits make no greater number.
LEMMA DigitsGrow ==
    ASSUME NEW radix \in {2, 8, 10, 16}, NEW n \in Nat, NEW d \in Nat
    PROVE  radix * n + d \in Nat /\ n <= radix * n + d
  OBVIOUS
\* The members of the builders.
Builders ==
    [value : Nat, isNegative : BOOLEAN, isFloat : BOOLEAN, f : Nat, exponent : Nat, delta : Int,
     isNegativeExponent : BOOLEAN]

\* The loops of the radix parsers and what leads to them.
RadixPcs == {"binary prefix", "hex prefix", "binary", "octal", "hex"}
RealPcs == {"fraction prefix", "fraction", "exponent prefix", "exponent"}

\* Types, and the character that each loop finds at the position of the source.
NumberShape ==
    /\ literal \in Seq(Nat) /\ Len(literal) > 0
    /\ literal[1] \in NUMBER_HEAD
    /\ parser \in {"integer", "float"}
    /\ builder \in Builders
    /\ digits \in Nat
    /\ NumberTypeOK
    /\ numPc = "head" => at = 1 /\ digits = 0 /\ builder = EmptyBuilder
    /\ numPc \in {"decimal", "fraction", "exponent"} => InClass(at, DECIMAL)
    /\ numPc = "binary" => InClass(at, BINARY)
    /\ numPc = "octal" => InClass(at, OCTAL)
    /\ numPc = "hex" => InClass(at, HEXADECIMAL)
    /\ numPc = "binary prefix" => InClass(at, {LetterB})
    /\ numPc = "hex prefix" => InClass(at, {LetterX})
    /\ numPc = "fraction prefix" => InClass(at, {Point})
    /\ numPc = "exponent prefix" => InClass(at, {LetterE})
    /\ numPc \in RadixPcs \cup {"overflow", "too big"} => parser = "integer"
    /\ numPc \in RealPcs => parser = "float"
    /\ numPc \in {"fraction", "exponent"} => builder.isFloat
    /\ builder.isFloat => parser = "float"
    /\ builder.isNegative => numPc \notin RadixPcs

\* What the builder holds is what the digits read so far write.
NumberHeld ==
    /\ builder.isNegative => builder.value <= MAX_SIGNED
    /\ (~builder.isFloat /\ digits <= MAX_UNSIGNED /\ numPc # "overflow") => builder.value = digits
    /\ (~builder.isFloat /\ numPc # "overflow"
         /\ (builder.isNegative \/ parser = "float" \/ numPc = "decimal")) =>
            builder.value = digits /\ digits <= Limit
    /\ builder.isFloat => builder.f = digits
    /\ numPc \in {"overflow", "too big"} => digits > Limit

\* What was read makes the number an integer or a double.
NumberKind ==
    /\ (parser = "float" /\ ~builder.isFloat) =>
          \A i \in 1 .. at - 1 : literal[i] \notin {Point, LetterE}
    /\ builder.isFloat => \/ \E i \in 1 .. at - 1 : literal[i] \in {Point, LetterE}
                          \/ digits > Limit

\* The inductive invariant of the parsers.
NumberInv == NumberShape /\ NumberHeld /\ NumberKind

\* The invariant holds when a parser is called.
LEMMA NumberStart ==
    ASSUME NumberInit
    PROVE  NumberInv
<1>1. literal \in Seq(Nat) /\ Len(literal) > 0 /\ literal[1] \in NUMBER_HEAD
  <2>1. PICK n \in 0 .. MaxLiteral : literal \in [1 .. n -> LiteralChars]
    BY DEF NumberInit, SeqOf
  <2>2. literal \in Seq(Nat) /\ Len(literal) = n
    <3>1. MaxLiteral \in Nat /\ LiteralChars \subseteq Nat
      BY NumberAssumption
    <3>2. n \in Nat
      BY <3>1
    <3>3. literal \in [1 .. n -> Nat]
      BY <2>1, <3>1, Zenon
    <3> QED
      BY <3>2, <3>3
  <2>3. literal # <<>> /\ literal[1] \in NUMBER_HEAD
    BY DEF NumberInit
  <2> QED
    BY <2>2, <2>3
<1>2. /\ at = 1 /\ numPc = "head" /\ digits = 0 /\ parser \in {"integer", "float"}
      /\ builder = EmptyBuilder
  BY DEF NumberInit
<1>3. /\ builder \in Builders /\ builder.value = 0 /\ builder.exponent = 0 /\ ~builder.isFloat
      /\ ~builder.isNegative
  BY <1>2 DEF Builders, EmptyBuilder
<1>4. NumberTypeOK
  BY <1>1, <1>2, <1>3, Limits, NumberAssumption DEF NumberTypeOK
<1>5. NumberShape
  BY <1>1, <1>2, <1>3, <1>4 DEF NumberShape, RadixPcs, RealPcs
<1>6. NumberHeld
  BY <1>2, <1>3, Limits DEF NumberHeld, Limit
<1>7. NumberKind
  BY <1>2, <1>3 DEF NumberKind
<1> QED
  BY <1>5, <1>6, <1>7 DEF NumberInv

\* The character that a loop finds is a digit.
LEMMA DigitFound ==
    ASSUME NumberShape, NEW class, InClass(at, class)
    PROVE  at \in Nat /\ at <= Len(literal) /\ at + 1 \in 1 .. Len(literal) + 1
           /\ literal[at] \in class /\ literal[at] \in Nat
<1>1. Len(literal) \in Nat /\ at \in 1 .. Len(literal) + 1 /\ literal \in Seq(Nat)
  <2>1. literal \in Seq(Nat) /\ at \in 1 .. Len(literal) + 1
    BY Zenon DEF NumberShape, NumberTypeOK
  <2> QED
    BY <2>1
<1>2. at <= Len(literal) /\ literal[at] \in class
  BY <1>1 DEF InClass, AtEnd
<1> QED
  BY <1>1, <1>2

\* Where a parser goes on that may be done.
LEMMA DoubleGoesOn ==
    ASSUME NEW i, NEW chars, chars \subseteq DoubleChars, GoesOnAsDouble(i, chars)
    PROVE  /\ at' = i
           /\ \/ numPc' = "done"
              \/ numPc' = "fraction prefix" /\ parser = "float" /\ InClass(i, {Point})
              \/ numPc' = "exponent prefix" /\ parser = "float" /\ InClass(i, {LetterE})
<1>1. CASE InClass(i, chars \cap {Point}) /\ ReadsOn(i, "fraction prefix")
  BY <1>1 DEF InClass, ReadsOn, DoubleChars
<1>2. CASE InClass(i, chars \cap {LetterE}) /\ ReadsOn(i, "exponent prefix")
  BY <1>2 DEF InClass, ReadsOn, DoubleChars
<1>3. CASE ReadsOn(i, "done")
  BY <1>3 DEF ReadsOn
<1> QED
  BY <1>1, <1>2, <1>3 DEF GoesOnAsDouble

\* The first character.
LEMMA HeadStep ==
    ASSUME NumberInv, ParseHead
    PROVE  NumberInv'
<1>0. NumberShape /\ numPc = "head"
  BY DEF NumberInv, ParseHead
<1>1. /\ at = 1 /\ digits = 0 /\ builder = EmptyBuilder /\ Len(literal) \in Nat /\ Len(literal) > 0
      /\ literal[1] \in 0 .. 9 \cup {21} /\ literal \in Seq(Nat) /\ parser \in {"integer", "float"}
  BY <1>0 DEF NumberShape, NUMBER_HEAD, DECIMAL, Minus
<1>2. literal' = literal /\ parser' = parser /\ digits' = 0
  BY <1>1 DEF ParseHead
<1>3. /\ builder' \in Builders /\ builder'.value = 0 /\ builder'.exponent = 0 /\ ~builder'.isFloat
      /\ builder'.isNegative <=> literal[1] = Minus
  <2>1. CASE literal[1] = Minus
    <3>1. builder' = [EmptyBuilder EXCEPT !.isNegative = TRUE]
      BY <1>1, <2>1 DEF ParseHead, Minus
    <3>2. builder' = [value |-> 0, isNegative |-> TRUE, isFloat |-> FALSE, f |-> 0, exponent |-> 0,
                      delta |-> 0, isNegativeExponent |-> FALSE]
      BY <3>1 DEF EmptyBuilder
    <3> QED
      BY <2>1, <3>2 DEF Builders
  <2>2. CASE literal[1] # Minus
    <3>1. builder' = EmptyBuilder
      BY <1>1, <2>2 DEF ParseHead
    <3> QED
      BY <2>2, <3>1 DEF Builders, EmptyBuilder
  <2> QED
    BY <2>1, <2>2
<1>4. CASE literal[1] = Minus
  <2>1. at' = 2 /\ numPc' = IF InClass(2, DECIMAL) THEN "decimal" ELSE "threw"
    BY <1>4 DEF ParseHead, ReadsOn, Minus
  <2>2. NumberTypeOK'
    BY <1>1, <1>2, <1>3, <2>1, Limits, NumberAssumption DEF NumberTypeOK
  <2>3. NumberShape'
    BY <1>1, <1>2, <1>3, <2>1, <2>2
       DEF NumberShape, NUMBER_HEAD, DECIMAL, Minus, RadixPcs, RealPcs, InClass, AtEnd
  <2>4. NumberHeld'
    BY <1>2, <1>3, <2>1, Limits DEF NumberHeld, Limit
  <2>5. NumberKind'
    BY <1>2, <1>3, <1>4, <2>1 DEF NumberKind, Minus, Point, LetterE
  <2> QED
    BY <2>3, <2>4, <2>5 DEF NumberInv
<1>5. CASE literal[1] = 0
  <2>0. AfterZero
    BY <1>5 DEF ParseHead, Minus
  <2>1. /\ at' = 2
        /\ \/ numPc' \in {"done", "threw"}
           \/ parser = "integer" /\ InClass(2, {LetterB}) /\ numPc' = "binary prefix"
           \/ parser = "integer" /\ InClass(2, {LetterX}) /\ numPc' = "hex prefix"
           \/ parser = "float" /\ InClass(2, {Point}) /\ numPc' = "fraction prefix"
           \/ parser = "float" /\ InClass(2, {LetterE}) /\ numPc' = "exponent prefix"
           \/ parser = "integer" /\ InClass(2, OCTAL) /\ numPc' = "octal"
           \/ parser = "float" /\ InClass(2, DECIMAL) /\ numPc' = "decimal"
    <3>1. CASE GoesOnAsDouble(2, DoubleChars)
      BY <3>1, DoubleGoesOn
    <3>2. CASE ~GoesOnAsDouble(2, DoubleChars)
      BY <2>0, <3>2 DEF AfterZero, ReadsOn
    <3> QED
      BY <3>1, <3>2
  <2>2. at' = 2 /\ numPc' \in {"done", "threw", "binary prefix", "hex prefix", "fraction prefix",
                               "exponent prefix", "octal", "decimal"}
    BY <2>1
  <2>3. ~builder'.isNegative
    BY <1>3, <1>5 DEF Minus
  <2>4. NumberTypeOK'
    <3>0. at' = 2
      BY <2>2
    <3>1. at' \in 1 .. Len(literal') + 1
      BY <1>1, <1>2, <3>0
    <3>2. builder'.value \in 0 .. MAX_UNSIGNED /\ builder'.exponent \in 0 .. 10 * MAX_EXPONENT + 9
      BY <1>3, Limits, NumberAssumption
    <3> QED
      BY <2>2, <3>1, <3>2 DEF NumberTypeOK
  <2>5. NumberShape'
    BY <1>1, <1>2, <1>3, <2>1, <2>3, <2>4
       DEF NumberShape, NUMBER_HEAD, DECIMAL, Minus, RadixPcs, RealPcs, InClass, AtEnd
  <2>6. NumberHeld'
    <3>1. builder'.value = 0 /\ ~builder'.isFloat /\ digits' = 0 /\ Limit' \in Nat
      BY <1>2, <1>3, <2>3, Limits DEF Limit
    <3>2. numPc' # "overflow" /\ numPc' # "too big"
      BY <2>2
    <3>3. builder'.value = digits' /\ digits' <= Limit'
      BY <3>1
    <3> QED
      BY <2>3, <3>1, <3>2, <3>3, Zenon DEF NumberHeld
  <2>7. NumberKind'
    <3>1. ~builder'.isFloat /\ literal' = literal /\ at' = 2
      BY <1>2, <1>3, <2>2
    <3>2. \A i \in 1 .. 2 - 1 : literal[i] \notin {Point, LetterE}
      BY <1>5 DEF Point, LetterE
    <3> QED
      BY <3>1, <3>2 DEF NumberKind
  <2> QED
    BY <2>5, <2>6, <2>7 DEF NumberInv
<1>6. CASE literal[1] # Minus /\ literal[1] # 0
  <2>1. at' = 1 /\ numPc' = "decimal"
    BY <1>6 DEF ParseHead, ReadsOn
  <2>2. NumberTypeOK'
    BY <1>1, <1>2, <1>3, <2>1, Limits, NumberAssumption DEF NumberTypeOK
  <2>3. InClass(1, DECIMAL)
    BY <1>1, <1>6 DEF InClass, AtEnd, DECIMAL, Minus
  <2>4. NumberShape'
    BY <1>1, <1>2, <1>3, <2>1, <2>2, <2>3
       DEF NumberShape, NUMBER_HEAD, DECIMAL, Minus, RadixPcs, RealPcs, InClass, AtEnd
  <2>5. NumberHeld'
    BY <1>2, <1>3, <2>1, Limits DEF NumberHeld, Limit
  <2>6. NumberKind'
    BY <1>2, <1>3, <2>1 DEF NumberKind
  <2> QED
    BY <2>4, <2>5, <2>6 DEF NumberInv
<1> QED
  BY <1>4, <1>5, <1>6

\* A decimal digit: it is appended, or the number becomes a double, or an integer
\* literal overflows.
LEMMA DecimalStep ==
    ASSUME NumberInv, ParseDecimal
    PROVE  NumberInv'
<1> DEFINE digit == literal[at]
<1>0. NumberShape /\ NumberHeld /\ NumberKind /\ numPc = "decimal"
  BY DEF NumberInv, ParseDecimal
<1>1. InClass(at, DECIMAL)
  BY <1>0 DEF NumberShape
<1>2. /\ at \in Nat /\ at <= Len(literal) /\ at + 1 \in 1 .. Len(literal) + 1 /\ digit \in 0 .. 9
  BY <1>0, <1>1, DigitFound DEF DECIMAL
<1>3. /\ literal \in Seq(Nat) /\ Len(literal) > 0 /\ literal[1] \in NUMBER_HEAD
      /\ parser \in {"integer", "float"} /\ builder \in Builders /\ digits \in Nat
      /\ builder.isFloat => parser = "float"
      /\ at \in 1 .. Len(literal) + 1 /\ Len(literal) \in Nat
      /\ builder.value \in 0 .. MAX_UNSIGNED
      /\ builder.exponent \in 0 .. 10 * MAX_EXPONENT + 9
  BY <1>0 DEF NumberShape, NumberTypeOK
<1>4. literal' = literal /\ parser' = parser /\ digits' = 10 * digits + digit
  BY DEF ParseDecimal
<1>5. Limit \in Nat /\ Limit <= MAX_UNSIGNED /\ builder.value \in Nat
      /\ (builder.isNegative => Limit = MAX_SIGNED)
  BY <1>3, Limits DEF Limit
<1>6. CanAppendIntegerDigit(digit) <=> 10 * builder.value + digit <= Limit
  BY <1>2, <1>5, DigitFits DEF CanAppendIntegerDigit
<1>7. ~builder.isFloat => builder.value = digits /\ digits <= Limit
  BY <1>0 DEF NumberHeld
<1>8. digits' \in Nat /\ digits <= digits'
  <2>1. 10 \in {2, 8, 10, 16} /\ digit \in Nat /\ digits \in Nat
    BY <1>2, <1>3
  <2> HIDE DEF digit
  <2> QED
    BY <1>4, <2>1, DigitsGrow, Zenon
<1>9. literal[at] \notin {Point, LetterE}
  BY <1>2 DEF Point, LetterE
<1> HIDE DEF digit
<1>10. CASE parser = "integer" /\ ~CanAppendIntegerDigit(digit)
  <2>1. builder' = builder /\ at' = at /\ numPc' = "overflow"
    BY <1>10 DEF ParseDecimal, ReadsOn, digit
  <2>2. ~builder.isFloat
    BY <1>3, <1>10
  <2>3. digits' > Limit /\ Limit' = Limit
    BY <1>2, <1>3, <1>4, <1>5, <1>6, <1>7, <1>10, <2>1, <2>2 DEF Limit
  <2>4. NumberShape'
    <3>1. NumberTypeOK'
      BY <1>3, <1>4, <2>1 DEF NumberTypeOK
    <3> QED
      BY <1>3, <1>4, <1>8, <1>10, <2>1, <2>2, <3>1 DEF NumberShape, RadixPcs, RealPcs
  <2>5. NumberHeld'
    BY <1>0, <2>1, <2>2, <2>3 DEF NumberHeld
  <2>6. NumberKind'
    BY <1>4, <1>10, <2>1, <2>2 DEF NumberKind
  <2> QED
    BY <2>4, <2>5, <2>6 DEF NumberInv
<1>11. CASE ~ (parser = "integer" /\ ~CanAppendIntegerDigit(digit))
  <2>1. /\ builder' = OnIntegerDigit(digit) /\ at' = at + 1
    <3>1. (InClass(at + 1, DECIMAL) /\ ReadsOn(at + 1, "decimal")) \/ GoesOnAsDouble(at + 1, DoubleChars)
      BY <1>11 DEF ParseDecimal, digit
    <3>2. CASE GoesOnAsDouble(at + 1, DoubleChars)
      BY <1>11, <3>2, DoubleGoesOn DEF ParseDecimal, digit
    <3>3. CASE InClass(at + 1, DECIMAL) /\ ReadsOn(at + 1, "decimal")
      BY <1>11, <3>3 DEF ParseDecimal, digit, ReadsOn
    <3> QED
      BY <3>1, <3>2, <3>3
  <2>2. \/ numPc' = "done"
        \/ numPc' = "decimal" /\ InClass(at + 1, DECIMAL)
        \/ numPc' = "fraction prefix" /\ parser = "float" /\ InClass(at + 1, {Point})
        \/ numPc' = "exponent prefix" /\ parser = "float" /\ InClass(at + 1, {LetterE})
    <3>1. (InClass(at + 1, DECIMAL) /\ ReadsOn(at + 1, "decimal")) \/ GoesOnAsDouble(at + 1, DoubleChars)
      BY <1>11 DEF ParseDecimal, digit
    <3>2. CASE GoesOnAsDouble(at + 1, DoubleChars)
      BY <3>2, DoubleGoesOn
    <3>3. CASE InClass(at + 1, DECIMAL) /\ ReadsOn(at + 1, "decimal")
      BY <3>3 DEF ReadsOn
    <3> QED
      BY <3>1, <3>2, <3>3
  \* An integer that stays one.
  <2>3. CASE ~builder.isFloat /\ CanAppendIntegerDigit(digit)
    <3>1. builder' = [builder EXCEPT !.value = 10 * builder.value + digit]
      BY <2>1, <2>3 DEF OnIntegerDigit
    <3> DEFINE v == 10 * builder.value + digit
    <3>2. v \in Nat /\ v = digits' /\ v <= Limit
      <4>1. digit \in Nat /\ builder.value \in Nat /\ builder.value = digits
        BY <1>2, <1>5, <1>7, <2>3 DEF digit
      <4> QED
        BY <1>4, <1>6, <2>3, <4>1
    <3> HIDE DEF v
    <3>3. /\ builder' \in Builders /\ builder'.value = v /\ ~builder'.isFloat
          /\ builder'.isNegative = builder.isNegative /\ builder'.exponent = builder.exponent
      BY <1>3, <2>3, <3>1, <3>2 DEF Builders, v
    <3>4. Limit' = Limit
      BY <3>3 DEF Limit
    <3>5. v \in 0 .. MAX_UNSIGNED
      BY <1>5, <3>2, Limits
    <3>6. NumberShape'
      BY <1>2, <1>3, <1>4, <1>8, <2>1, <2>2, <3>3, <3>5
         DEF NumberShape, NumberTypeOK, RadixPcs, RealPcs, InClass, AtEnd
    <3>7. NumberHeld'
      BY <1>5, <2>2, <3>2, <3>3, <3>4 DEF NumberHeld
    <3>8. NumberKind'
      <4>1. \A i \in 1 .. (at + 1) - 1 : i \in 1 .. at - 1 \/ i = at
        BY <1>2
      <4> QED
        BY <1>0, <1>4, <1>9, <2>1, <2>3, <3>3, <4>1 DEF NumberKind
    <3> QED
      BY <3>6, <3>7, <3>8 DEF NumberInv
  \* A double.
  <2>4. CASE ~ (~builder.isFloat /\ CanAppendIntegerDigit(digit))
    <3>1. builder' = [AsFloat(builder) EXCEPT !.f = 10 * @ + digit]
      BY <2>1, <2>4 DEF OnIntegerDigit
    <3>2. AsFloat(builder) \in Builders /\ AsFloat(builder).f = digits
          /\ AsFloat(builder).isFloat /\ AsFloat(builder).value = builder.value
          /\ AsFloat(builder).isNegative = builder.isNegative
          /\ AsFloat(builder).exponent = builder.exponent
      BY <1>0, <1>3, <1>5, <1>7 DEF AsFloat, Builders, NumberHeld
    <3>3. /\ builder' \in Builders /\ builder'.value = builder.value /\ builder'.isFloat
          /\ builder'.isNegative = builder.isNegative /\ builder'.exponent = builder.exponent
          /\ builder'.f = digits'
      <4>1. 10 * digits + digit \in Nat
        BY <1>4, <1>8
      <4> HIDE DEF AsFloat
      <4> QED
        BY <1>4, <3>1, <3>2, <4>1 DEF Builders
    <3>4. Limit' = Limit
      BY <3>3 DEF Limit
    <3>5. parser = "float"
      BY <1>3, <1>11, <2>4
    <3>6. NumberShape'
      BY <1>2, <1>3, <1>4, <1>8, <2>1, <2>2, <3>3, <3>5
         DEF NumberShape, NumberTypeOK, RadixPcs, RealPcs, InClass, AtEnd
    <3>7. NumberHeld'
      BY <1>0, <2>2, <3>3, <3>4 DEF NumberHeld
    <3>8. NumberKind'
      <4>1. (\E i \in 1 .. (at + 1) - 1 : literal[i] \in {Point, LetterE}) \/ digits' > Limit
        <5>1. CASE builder.isFloat
          <6>1. CASE digits > Limit
            BY <6>1, <1>3, <1>5, <1>8
          <6>2. CASE \E i \in 1 .. at - 1 : literal[i] \in {Point, LetterE}
            <7>1. \A i \in 1 .. at - 1 : i \in 1 .. (at + 1) - 1
              BY <1>2
            <7> QED
              BY <6>2, <7>1
          <6> QED
            BY <1>0, <5>1, <6>1, <6>2 DEF NumberKind
        <5>2. CASE ~builder.isFloat
          BY <1>2, <1>4, <1>5, <1>6, <1>7, <2>4, <5>2 DEF digit
        <5> QED
          BY <5>1, <5>2
      <4> QED
        BY <1>4, <2>1, <3>3, <3>4, <4>1 DEF NumberKind
    <3> QED
      BY <3>6, <3>7, <3>8 DEF NumberInv
  <2> QED
    BY <2>3, <2>4
<1> QED
  BY <1>10, <1>11
\* The types, without what a loop finds at its position.
LEMMA NumberTypes ==
    ASSUME NumberShape
    PROVE  /\ literal \in Seq(Nat) /\ Len(literal) > 0 /\ literal[1] \in NUMBER_HEAD
           /\ parser \in {"integer", "float"} /\ builder \in Builders /\ digits \in Nat
           /\ at \in 1 .. Len(literal) + 1 /\ Len(literal) \in Nat
           /\ builder.value \in 0 .. MAX_UNSIGNED
           /\ builder.exponent \in 0 .. 10 * MAX_EXPONENT + 9
           /\ builder.isFloat => parser = "float"
<1>1. /\ literal \in Seq(Nat) /\ Len(literal) > 0 /\ literal[1] \in NUMBER_HEAD
      /\ parser \in {"integer", "float"} /\ builder \in Builders /\ digits \in Nat
      /\ builder.isFloat => parser = "float"
      /\ at \in 1 .. Len(literal) + 1
      /\ builder.value \in 0 .. MAX_UNSIGNED
      /\ builder.exponent \in 0 .. 10 * MAX_EXPONENT + 9
  BY Zenon DEF NumberShape, NumberTypeOK
<1>2. Len(literal) \in Nat
  BY <1>1
<1> QED
  BY <1>1, <1>2, Zenon

\* The prefixes of binary and hexadecimal numbers.
LEMMA PrefixStep ==
    ASSUME NumberInv,
           \/ ParsePrefix("binary prefix", BINARY, "binary")
           \/ ParsePrefix("hex prefix", HEXADECIMAL, "hex")
    PROVE  NumberInv'
<1>0. NumberShape /\ NumberHeld /\ NumberKind
  BY DEF NumberInv
<1>1. UNCHANGED <<literal, parser, builder, digits>> /\ at' = at + 1
  BY DEF ParsePrefix, ReadsOn
<1>2. numPc \in {"binary prefix", "hex prefix"}
      /\ \/ numPc' = "threw"
         \/ numPc' = "binary" /\ InClass(at + 1, BINARY)
         \/ numPc' = "hex" /\ InClass(at + 1, HEXADECIMAL)
  BY DEF ParsePrefix, ReadsOn
<1>3. InClass(at, {LetterB}) \/ InClass(at, {LetterX})
  BY <1>0, <1>2 DEF NumberShape
<1>4. at + 1 \in 1 .. Len(literal) + 1
  BY <1>0, <1>3, DigitFound
<1>5. parser = "integer" /\ ~builder.isFloat /\ ~builder.isNegative
  BY <1>0, <1>2 DEF NumberShape, RadixPcs
<1>6. Limit' = Limit
  BY <1>1 DEF Limit
<1>7. NumberTypeOK'
  BY <1>0, <1>1, <1>2, <1>4, NumberTypes DEF NumberTypeOK
<1>8. NumberShape'
  BY <1>0, <1>1, <1>2, <1>5, <1>7, NumberTypes DEF NumberShape, RadixPcs, RealPcs, InClass, AtEnd
<1>9. NumberHeld'
  <2>1. numPc # "overflow" /\ numPc' # "overflow" /\ numPc' # "too big" /\ numPc' # "decimal"
    BY <1>2
  <2> QED
    BY <1>0, <1>1, <1>5, <1>6, <2>1 DEF NumberHeld
<1>10. NumberKind'
  BY <1>1, <1>5 DEF NumberKind
<1> QED
  BY <1>8, <1>9, <1>10 DEF NumberInv

\* A digit of another radix.
LEMMA RadixStep ==
    ASSUME NumberInv, NEW radix \in {2, 8, 16}, NEW loop \in {"binary", "octal", "hex"}, NEW class, NEW wrong,
           loop = "binary" => class = BINARY,
           loop = "octal" => class = OCTAL,
           loop = "hex" => class = HEXADECIMAL,
           ParseRadix(loop, radix, class, wrong)
    PROVE  NumberInv'
<1> DEFINE digit == literal[at]
           v == builder.value
<1>0. NumberShape /\ NumberHeld /\ NumberKind /\ numPc = loop
  BY DEF NumberInv, ParseRadix
<1>1. InClass(at, class)
  BY <1>0 DEF NumberShape
<1>2. at \in Nat /\ at + 1 \in 1 .. Len(literal) + 1 /\ digit \in Nat
  BY <1>0, <1>1, DigitFound
<1>3. parser = "integer" /\ ~builder.isFloat /\ ~builder.isNegative
  BY <1>0 DEF NumberShape, RadixPcs
<1>4. literal' = literal /\ parser' = parser /\ digits' = radix * digits + digit
  BY DEF ParseRadix
<1>5. digits \in Nat /\ v \in Nat /\ v <= MAX_UNSIGNED /\ MAX_UNSIGNED \in Nat
  BY <1>0, NumberTypes, Limits
<1>6. digits' \in Nat /\ digits <= digits'
  BY <1>2, <1>4, <1>5, DigitsGrow
<1>7. digits <= MAX_UNSIGNED => v = digits
  BY <1>0, <1>3 DEF NumberHeld
<1>8. Limit = MAX_UNSIGNED
  BY <1>3 DEF Limit
<1> HIDE DEF digit, v
<1>9. CASE RadixOverflows(radix) /\ UNCHANGED builder /\ ReadsOn(at, "too big")
  <2>1. builder' = builder /\ at' = at /\ numPc' = "too big"
    BY <1>9 DEF ReadsOn
  <2>2. digits' > MAX_UNSIGNED
    <3>1. radix * v > MAX_UNSIGNED
      <4>1. v > MAX_UNSIGNED \div radix + 1
        BY <1>9 DEF RadixOverflows, v
      <4> QED
        BY <4>1, <1>5, RadixFits
    <3>2. CASE digits > MAX_UNSIGNED
      BY <3>2, <1>5, <1>6
    <3>3. CASE digits <= MAX_UNSIGNED
      <4>1. digits' = radix * v + digit
        BY <3>3, <1>4, <1>7
      <4>2. radix * v \in Nat
        BY <1>5
      <4> QED
        BY <3>1, <4>1, <4>2, <1>2, <1>5 DEF digit
    <3> QED
      BY <3>2, <3>3, <1>5
  <2>3. NumberTypeOK'
    BY <1>0, <1>4, <2>1, NumberTypes DEF NumberTypeOK
  <2>4. NumberShape'
    BY <1>0, <1>3, <1>4, <1>6, <2>1, <2>3, NumberTypes DEF NumberShape, RadixPcs, RealPcs
  <2>5. Limit' = MAX_UNSIGNED
    BY <1>3, <2>1 DEF Limit
  <2>6. NumberHeld'
    <3>1. ~builder'.isNegative /\ ~builder'.isFloat /\ parser' # "float" /\ numPc' # "decimal"
      BY <1>3, <1>4, <2>1
    <3>2. ~ (digits' <= MAX_UNSIGNED) /\ digits' > Limit'
      BY <1>5, <1>6, <2>2, <2>5
    <3> QED
      BY <3>1, <3>2, Zenon DEF NumberHeld
  <2>7. NumberKind'
    BY <1>3, <1>4, <2>1 DEF NumberKind
  <2> QED
    BY <2>4, <2>6, <2>7 DEF NumberInv
<1>10. CASE ~RadixOverflows(radix)
  <2>1. /\ builder' = OnRadixDigit(radix, digit) /\ at' = at + 1
        /\ \/ numPc' = "done" \/ numPc' = "threw"
           \/ numPc' = loop /\ InClass(at + 1, class)
    BY <1>10 DEF ParseRadix, ReadsOn, digit
  <2> DEFINE n == v * radix + digit
             u == n % (2 ^ WIDTH)
  <2>2. n \in Nat /\ (digits <= MAX_UNSIGNED => n = digits')
    BY <1>2, <1>4, <1>5, <1>7 DEF digit
  <2>3. builder' = [builder EXCEPT !.value = u]
    BY <2>1 DEF OnRadixDigit, v
  <2>4. u \in 0 .. MAX_UNSIGNED /\ (n <= MAX_UNSIGNED => u = n)
    <3> HIDE DEF n
    <3>1. 2 ^ WIDTH = MAX_UNSIGNED + 1
      BY Limits
    <3>2. u = n % (MAX_UNSIGNED + 1)
      BY <3>1
    <3> HIDE DEF u
    <3> QED
      BY <1>5, <2>2, <3>2
  <2>5. digits' <= MAX_UNSIGNED => u = digits'
    <3> HIDE DEF n, u
    <3> QED
      BY <1>5, <1>6, <2>2, <2>4
  <2> HIDE DEF n, u
  <2>6. /\ builder' \in Builders /\ builder'.value = u /\ ~builder'.isFloat /\ ~builder'.isNegative
        /\ builder'.exponent = builder.exponent
    <3>1. u \in Nat /\ builder \in Builders
      BY <1>0, <1>5, <2>4, NumberTypes
    <3> QED
      BY <1>3, <2>3, <3>1 DEF Builders
  <2>7. NumberTypeOK'
    <3>1. /\ at' \in 1 .. Len(literal') + 1
          /\ builder'.value \in 0 .. MAX_UNSIGNED
          /\ builder'.exponent \in 0 .. 10 * MAX_EXPONENT + 9
      BY <1>0, <1>2, <1>4, <2>1, <2>4, <2>6, NumberTypes
    <3>2. numPc' \in {"done", "threw", "binary", "octal", "hex"}
      BY <2>1
    <3> QED
      BY <3>1, <3>2 DEF NumberTypeOK
  <2>8. NumberShape'
    <3>2. numPc' \in {"done", "threw", "binary", "octal", "hex"}
      BY <2>1
    <3>3. /\ numPc' = "binary" => InClass(at, BINARY)'
          /\ numPc' = "octal" => InClass(at, OCTAL)'
          /\ numPc' = "hex" => InClass(at, HEXADECIMAL)'
      <4> SUFFICES ASSUME numPc' \in {"binary", "octal", "hex"}
                   PROVE  /\ numPc' = "binary" => InClass(at, BINARY)'
                          /\ numPc' = "octal" => InClass(at, OCTAL)'
                          /\ numPc' = "hex" => InClass(at, HEXADECIMAL)'
        OBVIOUS
      <4>1. numPc' = loop /\ InClass(at + 1, class)
        BY <2>1
      <4>2. ~ (at' > Len(literal')) /\ literal'[at'] \in class
        BY <1>4, <2>1, <4>1, Zenon DEF InClass, AtEnd
      <4> QED
        BY <4>1, <4>2 DEF InClass, AtEnd
    <3> QED
      BY <1>0, <1>3, <1>4, <1>6, <2>6, <2>7, <3>2, <3>3, NumberTypes DEF NumberShape, RadixPcs, RealPcs
  <2>9. NumberHeld'
    <3>1. /\ numPc' # "overflow" /\ numPc' # "too big" /\ numPc' # "decimal"
          /\ parser' # "float"
      BY <1>3, <1>4, <2>1
    <3> QED
      BY <2>5, <2>6, <3>1 DEF NumberHeld
  <2>10. NumberKind'
    BY <1>3, <1>4, <2>6 DEF NumberKind
  <2> QED
    BY <2>8, <2>9, <2>10 DEF NumberInv
<1> QED
  BY <1>9, <1>10 DEF ParseRadix
\* What a builder is when it has become a double.
LEMMA Floated ==
    ASSUME NumberInv, parser = "float", numPc # "overflow"
    PROVE  /\ AsFloat(builder) \in Builders /\ AsFloat(builder).f = digits
           /\ AsFloat(builder).isFloat /\ AsFloat(builder).value = builder.value
           /\ AsFloat(builder).isNegative = builder.isNegative
           /\ AsFloat(builder).exponent = builder.exponent
<1>1. NumberShape /\ NumberHeld
  BY DEF NumberInv
<1>2. builder \in Builders /\ builder.value \in Nat
  BY <1>1, NumberTypes DEF Builders
<1>3. CASE builder.isFloat
  <2>1. builder.f = digits
    BY <1>1, <1>3 DEF NumberHeld
  <2> QED
    BY <1>2, <1>3, <2>1 DEF AsFloat
<1>4. CASE ~builder.isFloat
  <2>1. builder.value = digits
    BY <1>1, <1>4 DEF NumberHeld
  <2>2. AsFloat(builder) = [builder EXCEPT !.isFloat = TRUE, !.f = builder.value]
    BY <1>4 DEF AsFloat
  <2> QED
    BY <1>2, <2>1, <2>2 DEF Builders
<1> QED
  BY <1>3, <1>4

\* What was read stays read.
LEMMA ReadPositions ==
    ASSUME NEW a \in Nat, NEW z \in Nat, a >= 1, a + 1 <= z
    PROVE  a \in 1 .. z - 1 /\ \A i \in 1 .. a - 1 : i \in 1 .. z - 1
  OBVIOUS

\* A double stays one: the steps of a number that became one before or becomes one here.
StepOfDouble ==
    /\ literal' = literal /\ parser' = parser /\ parser = "float"
    /\ builder' \in Builders /\ builder'.isFloat /\ builder'.value = builder.value
    /\ builder'.isNegative = builder.isNegative
    /\ builder'.exponent \in 0 .. 10 * MAX_EXPONENT + 9
    /\ digits' \in Nat /\ digits <= digits' /\ builder'.f = digits'
    /\ at' \in at + 1 .. Len(literal) + 1
    /\ numPc' \in {"done", "threw", "fraction", "exponent", "exponent prefix"}
    /\ numPc' \in {"fraction", "exponent"} => InClass(at', DECIMAL)
    /\ numPc' = "exponent prefix" => InClass(at', {LetterE})
    /\ builder.isFloat \/ literal[at] \in {Point, LetterE}

\* Such a step keeps the invariant.
LEMMA DoubleStep ==
    ASSUME NumberInv, StepOfDouble
    PROVE  NumberInv'
<1>a. /\ literal' = literal /\ parser' = parser /\ parser = "float"
      /\ builder' \in Builders /\ builder'.isFloat /\ builder'.value = builder.value
      /\ builder'.isNegative = builder.isNegative
      /\ builder'.exponent \in 0 .. 10 * MAX_EXPONENT + 9
      /\ digits' \in Nat /\ digits <= digits' /\ builder'.f = digits'
  BY Zenon DEF StepOfDouble
<1>b. at' \in at + 1 .. Len(literal) + 1
  BY Zenon DEF StepOfDouble
<1>c. /\ numPc' \in {"done", "threw", "fraction", "exponent", "exponent prefix"}
      /\ numPc' \in {"fraction", "exponent"} => InClass(at', DECIMAL)
      /\ numPc' = "exponent prefix" => InClass(at', {LetterE})
  BY Zenon DEF StepOfDouble
<1>d. builder.isFloat \/ literal[at] \in {Point, LetterE}
  BY Zenon DEF StepOfDouble
<1>0. NumberShape /\ NumberHeld /\ NumberKind
  BY DEF NumberInv
<1>1. Limit' = Limit /\ Limit \in Nat
  BY <1>a, Limits DEF Limit
<1>2. /\ at \in Nat /\ at >= 1 /\ Len(literal) \in Nat /\ digits \in Nat
      /\ at' \in Nat /\ at + 1 <= at' /\ at' <= Len(literal) + 1
  <2>1. at \in 1 .. Len(literal) + 1 /\ Len(literal) \in Nat /\ digits \in Nat
    BY <1>0, NumberTypes, Zenon
  <2>2. at \in Nat /\ at >= 1
    BY <2>1
  <2> QED
    BY <1>b, <2>1, <2>2
<1>e. at \in 1 .. at' - 1 /\ \A i \in 1 .. at - 1 : i \in 1 .. at' - 1
  <2>1. at \in Nat /\ at' \in Nat /\ at >= 1 /\ at + 1 <= at'
    BY <1>2, Zenon
  <2> QED
    BY <2>1, ReadPositions
<1>3. NumberTypeOK'
  <2>1. at' \in 1 .. Len(literal') + 1
    BY <1>a, <1>2
  <2>2. builder'.value \in 0 .. MAX_UNSIGNED
    BY <1>0, <1>a, NumberTypes
  <2>3. numPc' \in {"head", "decimal", "binary prefix", "hex prefix", "binary", "octal", "hex",
                  "fraction prefix", "fraction", "exponent prefix", "exponent",
                  "done", "threw", "overflow", "too big"}
    BY <1>c
  <2> QED
    BY <1>a, <2>1, <2>2, <2>3, Zenon DEF NumberTypeOK
<1>4. NumberShape'
  <2>1. /\ numPc' \in {"fraction", "exponent"} => InClass(at, DECIMAL)'
        /\ numPc' = "exponent prefix" => InClass(at, {LetterE})'
    BY <1>a, <1>c DEF InClass, AtEnd
  <2> QED
    BY <1>0, <1>a, <1>c, <1>3, <2>1, NumberTypes DEF NumberShape, RadixPcs, RealPcs
<1>5. NumberHeld'
  <2>1. numPc' # "overflow" /\ numPc' # "too big"
    BY <1>c
  <2>2. builder'.isNegative => builder'.value <= MAX_SIGNED
    BY <1>0, <1>a DEF NumberHeld
  <2> QED
    BY <1>a, <2>1, <2>2, Zenon DEF NumberHeld
<1>6. NumberKind'
  <2>1. (\E i \in 1 .. at' - 1 : literal[i] \in {Point, LetterE}) \/ digits' > Limit
    <3>1. CASE literal[at] \in {Point, LetterE}
      <4>1. at \in 1 .. at' - 1
        BY <1>e
      <4> QED
        BY <3>1, <4>1
    <3>2. CASE builder.isFloat
      <4>1. CASE digits > Limit
        <5>1. digits \in Nat /\ digits' \in Nat /\ digits <= digits' /\ Limit \in Nat
          BY <1>a, <1>1, <1>2, Zenon
        <5> QED
          BY <4>1, <5>1
      <4>2. CASE \E i \in 1 .. at - 1 : literal[i] \in {Point, LetterE}
        <5>1. \A i \in 1 .. at - 1 : i \in 1 .. at' - 1
          BY <1>e
        <5> QED
          BY <4>2, <5>1
      <4> QED
        BY <1>0, <3>2, <4>1, <4>2 DEF NumberKind
    <3> QED
      BY <1>d, <3>1, <3>2
  <2> QED
    BY <1>a, <1>1, <2>1 DEF NumberKind
<1> QED
  BY <1>4, <1>5, <1>6 DEF NumberInv
\* The point of a double.
LEMMA PointStep ==
    ASSUME NumberInv, ParsePoint
    PROVE  NumberInv'
<1>0. NumberShape /\ numPc = "fraction prefix"
  BY DEF NumberInv, ParsePoint
<1>1. InClass(at, {Point}) /\ parser = "float"
  BY <1>0 DEF NumberShape, RealPcs
<1>2. /\ at + 1 \in 1 .. Len(literal) + 1 /\ literal[at] = Point /\ at \in Nat
      /\ Len(literal) \in Nat /\ digits \in Nat
      /\ builder.exponent \in 0 .. 10 * MAX_EXPONENT + 9
  <2>1. at + 1 \in 1 .. Len(literal) + 1 /\ literal[at] \in {Point} /\ at \in Nat
    BY <1>0, <1>1, DigitFound, Zenon
  <2>2. /\ Len(literal) \in Nat /\ digits \in Nat
        /\ builder.exponent \in 0 .. 10 * MAX_EXPONENT + 9
    BY <1>0, NumberTypes, Zenon
  <2> QED
    BY <2>1, <2>2, Zenon
<1>3. /\ builder' = AsFloat(builder) /\ at' = at + 1 /\ digits' = digits
      /\ literal' = literal /\ parser' = parser
      /\ numPc' = IF InClass(at + 1, DECIMAL) THEN "fraction" ELSE "threw"
  BY DEF ParsePoint, ReadsOn
<1>4. /\ builder' \in Builders /\ builder'.f = digits /\ builder'.isFloat
      /\ builder'.value = builder.value /\ builder'.isNegative = builder.isNegative
      /\ builder'.exponent = builder.exponent
  BY <1>0, <1>1, <1>3, Floated
<1>5. at' \in at + 1 .. Len(literal) + 1 /\ digits <= digits'
  BY <1>2, <1>3
<1>6. /\ numPc' \in {"done", "threw", "fraction", "exponent", "exponent prefix"}
      /\ numPc' \in {"fraction", "exponent"} => InClass(at', DECIMAL)
      /\ numPc' # "exponent prefix"
  BY <1>3
<1> QED
  BY <1>1, <1>2, <1>3, <1>4, <1>5, <1>6, DoubleStep DEF StepOfDouble

\* A digit after the point.
LEMMA FractionStep ==
    ASSUME NumberInv, ParseFraction
    PROVE  NumberInv'
<1> DEFINE digit == literal[at]
<1>0. NumberShape /\ NumberHeld /\ numPc = "fraction"
  BY DEF NumberInv, ParseFraction
<1>1. InClass(at, DECIMAL) /\ parser = "float" /\ builder.isFloat
  BY <1>0 DEF NumberShape, RealPcs
<1>2. /\ at + 1 \in 1 .. Len(literal) + 1 /\ digit \in Nat /\ at \in Nat
      /\ Len(literal) \in Nat /\ digits \in Nat
      /\ builder.exponent \in 0 .. 10 * MAX_EXPONENT + 9 /\ builder \in Builders
  BY <1>0, <1>1, DigitFound, NumberTypes
<1>3. builder.f = digits
  BY <1>0, <1>1 DEF NumberHeld
<1>4. /\ builder' = [builder EXCEPT !.f = 10 * builder.f + digit, !.delta = builder.delta - 1]
      /\ digits' = 10 * digits + digit
      /\ literal' = literal /\ parser' = parser
  BY DEF ParseFraction
<1>5. digits' \in Nat /\ digits <= digits'
  BY <1>2, <1>4, DigitsGrow
<1>6. at' = at + 1 /\ \/ numPc' = "fraction" /\ InClass(at + 1, DECIMAL)
                      \/ numPc' = "done"
                      \/ numPc' = "exponent prefix" /\ InClass(at + 1, {LetterE})
  <2>1. CASE InClass(at + 1, DECIMAL) /\ ReadsOn(at + 1, "fraction")
    BY <2>1 DEF ReadsOn
  <2>2. CASE GoesOnAsDouble(at + 1, {LetterE})
    <3>1. /\ InClass(at + 1, {LetterE} \cap {Point}) => FALSE
          /\ InClass(at + 1, {LetterE} \cap {LetterE}) => InClass(at + 1, {LetterE})
      BY DEF InClass, LetterE, Point
    <3> QED
      BY <2>2, <3>1 DEF GoesOnAsDouble, ReadsOn
  <2> QED
    BY <2>1, <2>2 DEF ParseFraction
<1> HIDE DEF digit
<1>7. /\ builder' \in Builders /\ builder'.f = digits' /\ builder'.isFloat
      /\ builder'.value = builder.value /\ builder'.isNegative = builder.isNegative
      /\ builder'.exponent = builder.exponent
  <2>1. 10 * builder.f + digit \in Nat /\ 10 * builder.f + digit = digits' /\ builder.delta - 1 \in Int
    BY <1>2, <1>3, <1>4, <1>5 DEF Builders
  <2> QED
    BY <1>1, <1>2, <1>4, <2>1 DEF Builders
<1>8. at' \in at + 1 .. Len(literal) + 1
  <2>1. at' = at + 1
    BY <1>6
  <2> QED
    BY <1>2, <2>1
<1>9. /\ numPc' \in {"done", "threw", "fraction", "exponent", "exponent prefix"}
      /\ numPc' \in {"fraction", "exponent"} => InClass(at', DECIMAL)
      /\ numPc' = "exponent prefix" => InClass(at', {LetterE})
  BY <1>6
<1> QED
  BY <1>1, <1>2, <1>4, <1>5, <1>7, <1>8, <1>9, DoubleStep DEF StepOfDouble

\* The letter and the sign of an exponent.
LEMMA ExponentPrefixStep ==
    ASSUME NumberInv, ParseExponentPrefix
    PROVE  NumberInv'
<1> DEFINE first == IF InClass(at + 1, {Minus, Plus}) THEN at + 2 ELSE at + 1
<1>0. NumberShape /\ numPc = "exponent prefix"
  BY DEF NumberInv, ParseExponentPrefix
<1>1. InClass(at, {LetterE}) /\ parser = "float"
  BY <1>0 DEF NumberShape, RealPcs
<1>2. /\ at + 1 \in 1 .. Len(literal) + 1 /\ literal[at] = LetterE /\ at \in Nat
      /\ Len(literal) \in Nat /\ digits \in Nat
      /\ builder.exponent \in 0 .. 10 * MAX_EXPONENT + 9
  <2>1. at + 1 \in 1 .. Len(literal) + 1 /\ literal[at] \in {LetterE} /\ at \in Nat
    BY <1>0, <1>1, DigitFound, Zenon
  <2>2. /\ Len(literal) \in Nat /\ digits \in Nat
        /\ builder.exponent \in 0 .. 10 * MAX_EXPONENT + 9
    BY <1>0, NumberTypes, Zenon
  <2> QED
    BY <2>1, <2>2, Zenon
<1>3. /\ builder' = [AsFloat(builder) EXCEPT !.isNegativeExponent = InClass(at + 1, {Minus})]
      /\ at' = first /\ digits' = digits
      /\ literal' = literal /\ parser' = parser
      /\ numPc' = IF InClass(first, DECIMAL) THEN "exponent" ELSE "threw"
  BY DEF ParseExponentPrefix, ReadsOn
<1>4. /\ builder' \in Builders /\ builder'.f = digits /\ builder'.isFloat
      /\ builder'.value = builder.value /\ builder'.isNegative = builder.isNegative
      /\ builder'.exponent = builder.exponent
  <2> DEFINE b == AsFloat(builder)
             g == InClass(at + 1, {Minus})
  <2>1. /\ b \in Builders /\ b.f = digits /\ b.isFloat /\ b.value = builder.value
        /\ b.isNegative = builder.isNegative /\ b.exponent = builder.exponent
    BY <1>0, <1>1, Floated
  <2>2. g \in BOOLEAN
    BY DEF InClass, AtEnd
  <2>3. builder' = [b EXCEPT !.isNegativeExponent = g]
    BY <1>3
  <2> HIDE DEF b, g
  <2> QED
    BY <2>1, <2>2, <2>3 DEF Builders
<1>5. first \in at + 1 .. Len(literal) + 1
  <2>1. InClass(at + 1, {Minus, Plus}) => at + 1 <= Len(literal)
    BY <1>2 DEF InClass, AtEnd
  <2> QED
    BY <1>2, <2>1
<1> HIDE DEF first
<1>6. /\ numPc' \in {"done", "threw", "fraction", "exponent", "exponent prefix"}
      /\ numPc' \in {"fraction", "exponent"} => InClass(at', DECIMAL)
      /\ numPc' # "exponent prefix"
  BY <1>3
<1>7. digits <= digits' /\ digits' \in Nat /\ at' \in at + 1 .. Len(literal) + 1
  BY <1>2, <1>3, <1>5
<1> QED
  BY <1>1, <1>2, <1>3, <1>4, <1>6, <1>7, DoubleStep DEF StepOfDouble

\* A digit of the exponent.
LEMMA ExponentStep ==
    ASSUME NumberInv, ParseExponent
    PROVE  NumberInv'
<1> DEFINE digit == literal[at]
           e == builder.exponent
<1>0. NumberShape /\ NumberHeld /\ numPc = "exponent"
  BY DEF NumberInv, ParseExponent
<1>1. InClass(at, DECIMAL) /\ parser = "float" /\ builder.isFloat
  BY <1>0 DEF NumberShape, RealPcs
<1>2. /\ at + 1 \in 1 .. Len(literal) + 1 /\ digit \in DECIMAL /\ at \in Nat
      /\ Len(literal) \in Nat /\ digits \in Nat
      /\ e \in 0 .. 10 * MAX_EXPONENT + 9 /\ builder \in Builders
  BY <1>0, <1>1, DigitFound, NumberTypes
<1>3. builder.f = digits
  BY <1>0, <1>1 DEF NumberHeld
<1>4. /\ builder' = IF e < MAX_EXPONENT THEN [builder EXCEPT !.exponent = 10 * e + digit] ELSE builder
      /\ digits' = digits /\ literal' = literal /\ parser' = parser
      /\ at' = at + 1 /\ numPc' = IF InClass(at + 1, DECIMAL) THEN "exponent" ELSE "done"
  BY DEF ParseExponent, ReadsOn
<1> HIDE DEF digit, e
<1>5. e < MAX_EXPONENT => 10 * e + digit \in 0 .. 10 * MAX_EXPONENT + 9 /\ 10 * e + digit \in Nat
  BY <1>2, NumberAssumption DEF DECIMAL
<1>6. /\ builder' \in Builders /\ builder'.f = digits' /\ builder'.isFloat
      /\ builder'.value = builder.value /\ builder'.isNegative = builder.isNegative
      /\ builder'.exponent \in 0 .. 10 * MAX_EXPONENT + 9
  <2>1. CASE e < MAX_EXPONENT
    <3> DEFINE x == 10 * e + digit
    <3>1. x \in 0 .. 10 * MAX_EXPONENT + 9 /\ x \in Nat
      BY <1>5, <2>1
    <3>2. builder' = [builder EXCEPT !.exponent = x]
      BY <1>4, <2>1
    <3> HIDE DEF x
    <3> QED
      BY <1>1, <1>2, <1>3, <1>4, <3>1, <3>2 DEF Builders
  <2>2. CASE ~ (e < MAX_EXPONENT)
    BY <1>1, <1>2, <1>3, <1>4, <2>2 DEF e
  <2> QED
    BY <2>1, <2>2
<1>7. /\ numPc' \in {"done", "threw", "fraction", "exponent", "exponent prefix"}
      /\ numPc' \in {"fraction", "exponent"} => InClass(at', DECIMAL)
      /\ numPc' # "exponent prefix"
  BY <1>4
<1>8. digits <= digits' /\ digits' \in Nat /\ at' \in at + 1 .. Len(literal) + 1
  BY <1>2, <1>4
<1> QED
  BY <1>1, <1>4, <1>6, <1>7, <1>8, DoubleStep DEF StepOfDouble

\* A literal is read as the number that is written, as an integer wherever one fits,
\* and is not refused as too big if it fits: for literals of every length and integers
\* of every width.
THEOREM NumbersCorrect == NumberSpec => []NumberIsAsWritten
<1>1. NumberInv /\ [NumberNext]_numberVars => NumberInv'
  <2> SUFFICES ASSUME NumberInv, [NumberNext]_numberVars PROVE NumberInv'
    OBVIOUS
  <2>1. CASE UNCHANGED numberVars
    <3>1. /\ literal' = literal /\ at' = at /\ parser' = parser /\ numPc' = numPc
          /\ builder' = builder /\ digits' = digits
      BY <2>1 DEF numberVars
    <3>2. NumberTypeOK' = NumberTypeOK
      BY <3>1 DEF NumberTypeOK
    <3>3. \A class : InClass(at, class)' = InClass(at, class)
      BY <3>1 DEF InClass, AtEnd
    <3>4. NumberShape'
      <4>1. NumberShape
        BY DEF NumberInv
      <4> HIDE DEF NumberTypeOK, InClass
      <4> QED
        BY <3>1, <3>2, <3>3, <4>1, ZenonT(60) DEF NumberShape
    <3>5. NumberHeld' /\ NumberKind'
      BY <3>1 DEF NumberInv, NumberHeld, NumberKind, Limit
    <3> QED
      BY <3>4, <3>5 DEF NumberInv
  <2>2. CASE ParseRadix("binary", 2, BINARY, DECIMAL)
    BY <2>2, RadixStep
  <2>3. CASE ParseRadix("octal", 8, OCTAL, DECIMAL)
    BY <2>3, RadixStep
  <2>4. CASE ParseRadix("hex", 16, HEXADECIMAL, LETTER)
    BY <2>4, RadixStep
  <2> QED
    BY <2>1, <2>2, <2>3, <2>4, HeadStep, DecimalStep, PrefixStep, PointStep, FractionStep,
       ExponentPrefixStep, ExponentStep DEF NumberNext
<1>2. NumberInv => NumberIsAsWritten
  <2> SUFFICES ASSUME NumberInv PROVE NumberIsAsWritten
    OBVIOUS
  <2>0. NumberShape /\ NumberHeld /\ NumberKind
    BY DEF NumberInv
  <2>1. NumberTypeOK
    BY <2>0 DEF NumberShape
  <2>2. NumberIsExact
    BY <2>0 DEF NumberHeld, NumberIsExact
  <2>3. DoubleOnlyIfNeeded
    <3>1. parser = "float" => numPc # "overflow"
      BY <2>0 DEF NumberShape
    <3>2. ASSUME parser = "float", numPc = "done", ~builder.isFloat
          PROVE  ~ (digits > Limit) /\ \A i \in 1 .. at - 1 : literal[i] \notin {Point, LetterE}
      <4>1. digits <= Limit /\ digits \in Nat /\ Limit \in Nat
        BY <2>0, <3>2, Limits, NumberTypes DEF NumberHeld, Limit
      <4>2. ~ (digits > Limit)
        BY <4>1
      <4> QED
        BY <2>0, <3>2, <4>2 DEF NumberKind
    <3> QED
      BY <2>0, <3>1, <3>2 DEF DoubleOnlyIfNeeded, NumberKind
  <2>4. FittingIsNotRefused
    BY <2>0 DEF NumberHeld, FittingIsNotRefused
  <2> QED
    BY <2>1, <2>2, <2>3, <2>4 DEF NumberIsAsWritten
<1> QED
  BY NumberStart, <1>1, <1>2, PTL DEF NumberSpec

-----------------------------------------------------------------------------
(* Dates.                                                                   *)

\* The day more of a leap year.
Leap(year) == IF IsLeapYear(year) THEN 1 ELSE 0

\* A leap year or not.
LEMMA LeapType == ASSUME NEW y PROVE Leap(y) \in {0, 1} /\ (Leap(y) = 1 <=> IsLeapYear(y))
  BY DEF Leap

\* The days before each month.
LEMMA MonthTable ==
    ASSUME NEW y \in Int, NEW m \in 1 .. 13
    PROVE  DaysBefore(y, m) =
             (IF m = 1 THEN 0 ELSE IF m = 2 THEN 31 ELSE IF m = 3 THEN 59 ELSE IF m = 4 THEN 90
              ELSE IF m = 5 THEN 120 ELSE IF m = 6 THEN 151 ELSE IF m = 7 THEN 181
              ELSE IF m = 8 THEN 212 ELSE IF m = 9 THEN 243 ELSE IF m = 10 THEN 273
              ELSE IF m = 11 THEN 304 ELSE IF m = 12 THEN 334 ELSE 365)
             + (IF m > 2 THEN Leap(y) ELSE 0)
<1>1. m \in {1, 2, 3, 4, 5, 6, 7, 8, 9, 10, 11, 12, 13}
  OBVIOUS
<1>2. CASE m = 1
  BY <1>2 DEF DaysBefore, Leap
<1>3. CASE m = 2
  BY <1>3 DEF DaysBefore, Leap
<1>4. CASE m = 3
  BY <1>4 DEF DaysBefore, Leap
<1>5. CASE m = 4
  BY <1>5 DEF DaysBefore, Leap
<1>6. CASE m = 5
  BY <1>6 DEF DaysBefore, Leap
<1>7. CASE m = 6
  BY <1>7 DEF DaysBefore, Leap
<1>8. CASE m = 7
  BY <1>8 DEF DaysBefore, Leap
<1>9. CASE m = 8
  BY <1>9 DEF DaysBefore, Leap
<1>10. CASE m = 9
  BY <1>10 DEF DaysBefore, Leap
<1>11. CASE m = 10
  BY <1>11 DEF DaysBefore, Leap
<1>12. CASE m = 11
  BY <1>12 DEF DaysBefore, Leap
<1>13. CASE m = 12
  BY <1>13 DEF DaysBefore, Leap
<1>14. CASE m = 13
  BY <1>14 DEF DaysBefore, Leap
<1> QED
  BY <1>1, <1>2, <1>3, <1>4, <1>5, <1>6, <1>7, <1>8, <1>9, <1>10, <1>11, <1>12, <1>13, <1>14

\* The days of each month.
LEMMA MonthDays ==
    ASSUME NEW y \in Int, NEW m \in 1 .. 12
    PROVE  DaysInMonth(y, m) =
             IF m = 2 THEN 28 + Leap(y) ELSE IF m = 4 \/ m = 6 \/ m = 9 \/ m = 11 THEN 30 ELSE 31
<1>1. CASE m \in {4, 6, 9, 11}
  BY <1>1 DEF DaysInMonth, Leap
<1>2. CASE m = 2
  BY <1>2 DEF DaysInMonth, Leap
<1>3. CASE m \notin {4, 6, 9, 11} /\ m # 2
  BY <1>3 DEF DaysInMonth, Leap
<1> QED
  BY <1>1, <1>2, <1>3

\* The months follow each other.
MonthFacts(y, m) ==
    /\ DaysInMonth(y, m) \in 28 .. 31
    /\ DaysBefore(y, m) \in Nat
    /\ DaysBefore(y, m + 1) \in Nat
    /\ DaysBefore(y, m + 1) = DaysBefore(y, m) + DaysInMonth(y, m)
    /\ DaysBefore(y, 1) = 0
    /\ DaysBefore(y, 13) = 365 + Leap(y)
    /\ DaysBefore(y, m + 1) <= 365 + Leap(y)
    /\ Leap(y) \in {0, 1}

LEMMA MonthFollows ==
    ASSUME NEW y \in Int, NEW m \in 1 .. 12
    PROVE  MonthFacts(y, m)
<1>1. m \in 1 .. 13 /\ m + 1 \in 1 .. 13 /\ 1 \in 1 .. 13 /\ 13 \in 1 .. 13
  OBVIOUS
<1>2. Leap(y) \in {0, 1}
  BY LeapType
<1> DEFINE l == Leap(y)
<1> HIDE DEF l
<1>3. l \in {0, 1}
  BY <1>2 DEF l
<1>4. /\ DaysBefore(y, 1) = 0
      /\ DaysBefore(y, 13) = 365 + l
  BY <1>1, <1>3, MonthTable DEF l
<1>5. DaysInMonth(y, m) =
             IF m = 2 THEN 28 + l ELSE IF m = 4 \/ m = 6 \/ m = 9 \/ m = 11 THEN 30 ELSE 31
  BY MonthDays DEF l
<1>6. DaysBefore(y, m) =
             (IF m = 1 THEN 0 ELSE IF m = 2 THEN 31 ELSE IF m = 3 THEN 59 ELSE IF m = 4 THEN 90
              ELSE IF m = 5 THEN 120 ELSE IF m = 6 THEN 151 ELSE IF m = 7 THEN 181
              ELSE IF m = 8 THEN 212 ELSE IF m = 9 THEN 243 ELSE IF m = 10 THEN 273
              ELSE IF m = 11 THEN 304 ELSE IF m = 12 THEN 334 ELSE 365)
             + (IF m > 2 THEN l ELSE 0)
  BY <1>1, MonthTable DEF l
<1> DEFINE k == m + 1
<1>7. DaysBefore(y, k) =
             (IF k = 1 THEN 0 ELSE IF k = 2 THEN 31 ELSE IF k = 3 THEN 59 ELSE IF k = 4 THEN 90
              ELSE IF k = 5 THEN 120 ELSE IF k = 6 THEN 151 ELSE IF k = 7 THEN 181
              ELSE IF k = 8 THEN 212 ELSE IF k = 9 THEN 243 ELSE IF k = 10 THEN 273
              ELSE IF k = 11 THEN 304 ELSE IF k = 12 THEN 334 ELSE 365)
             + (IF k > 2 THEN l ELSE 0)
  <2> HIDE DEF k
  <2>1. k \in 1 .. 13
    BY <1>1 DEF k
  <2> QED
    BY <2>1, MonthTable DEF l
<1>8. DaysBefore(y, m + 1) =
             (IF m = 1 THEN 31 ELSE IF m = 2 THEN 59 ELSE IF m = 3 THEN 90
              ELSE IF m = 4 THEN 120 ELSE IF m = 5 THEN 151 ELSE IF m = 6 THEN 181
              ELSE IF m = 7 THEN 212 ELSE IF m = 8 THEN 243 ELSE IF m = 9 THEN 273
              ELSE IF m = 10 THEN 304 ELSE IF m = 11 THEN 334 ELSE 365)
             + (IF m > 1 THEN l ELSE 0)
  BY <1>7
<1>9. DaysInMonth(y, m) \in 28 .. 31 /\ DaysBefore(y, m) \in Nat
  BY <1>3, <1>5, <1>6
<1>10. DaysBefore(y, m + 1) = DaysBefore(y, m) + DaysInMonth(y, m)
  BY <1>3, <1>5, <1>6, <1>8
<1>11. DaysBefore(y, m + 1) \in Nat /\ DaysBefore(y, m + 1) <= 365 + l
  BY <1>3, <1>8
<1> QED
  BY <1>2, <1>4, <1>9, <1>10, <1>11, Zenon DEF l, MonthFacts

\* How long a month is.
LEMMA MonthLength ==
    ASSUME NEW y \in Int, NEW m \in 1 .. 12
    PROVE  DaysInMonth(y, m) \in 28 .. 31
<1>1. MonthFacts(y, m)
  BY MonthFollows, Zenon
<1> QED
  BY <1>1, Zenon DEF MonthFacts

\* Where a month begins and ends.
LEMMA MonthBegins ==
    ASSUME NEW y \in Int, NEW m \in 1 .. 12
    PROVE  DaysBefore(y, m) \in Nat /\ DaysBefore(y, m + 1) \in Nat
<1>1. MonthFacts(y, m)
  BY MonthFollows, Zenon
<1> QED
  BY <1>1, Zenon DEF MonthFacts

\* Where a year begins and ends.
LEMMA YearBegins ==
    ASSUME NEW y \in Int
    PROVE  DaysBefore(y, 1) = 0 /\ DaysBefore(y, 13) \in Nat
<1>1. 1 \in 1 .. 12
  OBVIOUS
<1>2. MonthFacts(y, 1)
  BY <1>1, MonthFollows, Zenon
<1> QED
  BY <1>2 DEF MonthFacts

\* A month begins after the end of every earlier one.
LEMMA MonthOrder ==
    ASSUME NEW y \in Int, NEW m \in 1 .. 12, NEW k \in 1 .. 12, m < k
    PROVE  DaysBefore(y, m + 1) <= DaysBefore(y, k)
<1> DEFINE l == Leap(y)
           n == m + 1
<1>1. l \in {0, 1} /\ n \in 1 .. 13 /\ k \in 1 .. 13 /\ n <= k
  BY LeapType
<1> HIDE DEF l, n
<1>2. DaysBefore(y, n) =
             (IF n = 1 THEN 0 ELSE IF n = 2 THEN 31 ELSE IF n = 3 THEN 59 ELSE IF n = 4 THEN 90
              ELSE IF n = 5 THEN 120 ELSE IF n = 6 THEN 151 ELSE IF n = 7 THEN 181
              ELSE IF n = 8 THEN 212 ELSE IF n = 9 THEN 243 ELSE IF n = 10 THEN 273
              ELSE IF n = 11 THEN 304 ELSE IF n = 12 THEN 334 ELSE 365)
             + (IF n > 2 THEN l ELSE 0)
  BY <1>1, MonthTable DEF l
<1>3. DaysBefore(y, k) =
             (IF k = 1 THEN 0 ELSE IF k = 2 THEN 31 ELSE IF k = 3 THEN 59 ELSE IF k = 4 THEN 90
              ELSE IF k = 5 THEN 120 ELSE IF k = 6 THEN 151 ELSE IF k = 7 THEN 181
              ELSE IF k = 8 THEN 212 ELSE IF k = 9 THEN 243 ELSE IF k = 10 THEN 273
              ELSE IF k = 11 THEN 304 ELSE IF k = 12 THEN 334 ELSE 365)
             + (IF k > 2 THEN l ELSE 0)
  BY <1>1, MonthTable DEF l
<1> QED
  BY <1>1, <1>2, <1>3 DEF n

-----------------------------------------------------------------------------
\* The days before the year r + 1 of the cycle of 400 years after q others.
InCycle(q, r) == q * 146097 + r * 365 + r \div 4 - r \div 100

\* The day index of the first day of the year n + 1.
YearStart(n) ==
    InCycle(n \div 400, n % 400)

\* YearStart in a cycle of 400 years.
IsYearOf(n, q, r) == q \in Nat /\ r \in Nat /\ r <= 399 /\ n = 400 * q + r

LEMMA YearInCycle ==
    ASSUME NEW n, NEW q, NEW r, IsYearOf(n, q, r)
    PROVE  YearStart(n) = InCycle(q, r)
<1>1. n \div 400 = q /\ n % 400 = r
  BY DEF IsYearOf
<1> QED
  BY <1>1 DEF YearStart

\* Every year is in such a cycle.
LEMMA Cycle ==
    ASSUME NEW n \in Nat
    PROVE  \E q \in Nat, r \in Nat : IsYearOf(n, q, r)
<1>1. n \div 400 \in Nat /\ n % 400 \in Nat /\ n % 400 <= 399
  OBVIOUS
<1>2. IsYearOf(n, n \div 400, n % 400)
  BY DEF IsYearOf
<1> QED
  BY <1>1, <1>2, Zenon

\* Leap years in a cycle.
LeapOf(r) == IF (r + 1) % 4 = 0 /\ ((r + 1) % 100 # 0 \/ r = 399) THEN 1 ELSE 0

LEMMA LeapInCycle ==
    ASSUME NEW n, NEW q, NEW r, IsYearOf(n, q, r)
    PROVE  Leap(n + 1) = LeapOf(r)
<1> DEFINE y == n + 1
<1>0. q \in Nat /\ r \in Nat /\ r <= 399 /\ n = 400 * q + r
  BY DEF IsYearOf
<1>1. y % 4 = (r + 1) % 4
  BY <1>0
<1>2. y % 100 = (r + 1) % 100
  BY <1>0
<1>3. y % 400 = 0 <=> r = 399
  BY <1>0
<1> HIDE DEF y
<1> QED
  BY <1>1, <1>2, <1>3 DEF Leap, IsLeapYear, LeapOf, y

\* A year has 365 days or 366.
LEMMA YearStep ==
    ASSUME NEW n \in Nat
    PROVE  /\ YearStart(n) \in Int
           /\ YearStart(n + 1) = YearStart(n) + 365 + Leap(n + 1)
<1>0. PICK q \in Nat, r \in Nat : IsYearOf(n, q, r)
  BY Cycle, Zenon
<1>1. q \in Nat /\ r \in Nat /\ r <= 399 /\ n = 400 * q + r
  BY <1>0, Zenon DEF IsYearOf
<1>2. YearStart(n) = InCycle(q, r)
  BY <1>0, YearInCycle, Zenon
<1>3. Leap(n + 1) = IF (r + 1) % 4 = 0 /\ ((r + 1) % 100 # 0 \/ r = 399) THEN 1 ELSE 0
  <2>1. Leap(n + 1) = LeapOf(r)
    BY <1>0, LeapInCycle, Zenon
  <2> QED
    BY <2>1, Zenon DEF LeapOf
<1>4. CASE r < 399
  <2>1. r + 1 \in Nat /\ r + 1 <= 399 /\ n + 1 = 400 * q + (r + 1)
    BY <1>1, <1>4
  <2> DEFINE k == n + 1
             s == r + 1
  <2> HIDE DEF k, s
  <2>2. YearStart(k) = InCycle(q, s)
    <3>1. IsYearOf(k, q, s)
      BY <2>1 DEF k, s, IsYearOf
    <3> QED
      BY <3>1, YearInCycle, Zenon
  <2>3. (r + 1) \div 4 = r \div 4 + (IF (r + 1) % 4 = 0 THEN 1 ELSE 0)
    BY <1>1
  <2>4. (r + 1) \div 100 = r \div 100 + (IF (r + 1) % 100 = 0 THEN 1 ELSE 0)
    BY <1>1
  <2>5. (r + 1) % 100 = 0 => (r + 1) % 4 = 0
    BY <1>1
  <2> QED
    BY <1>2, <1>3, <1>4, <2>2, <2>3, <2>4, <2>5 DEF InCycle, k, s
<1>5. CASE r = 399
  <2>1. q + 1 \in Nat /\ 0 \in Nat /\ 0 <= 399 /\ n + 1 = 400 * (q + 1) + 0
    BY <1>1, <1>5
  <2>2. YearStart(n + 1) = InCycle(q + 1, 0)
    <3>1. IsYearOf(n + 1, q + 1, 0)
      BY <2>1, Zenon DEF IsYearOf
    <3> QED
      BY <3>1, YearInCycle, Zenon
  <2> QED
    BY <1>2, <1>3, <1>5, <2>2 DEF InCycle
<1>6. r < 399 \/ r = 399
  BY <1>1
<1> QED
  BY <1>1, <1>2, <1>4, <1>5, <1>6 DEF InCycle

\* The years follow each other.
LEMMA YearOrder ==
    ASSUME NEW n \in Nat, NEW k \in Nat, n <= k
    PROVE  YearStart(n) <= YearStart(k)
<1>0. PICK q \in Nat, r \in Nat : IsYearOf(n, q, r)
  BY Cycle, Zenon
<1>1. q \in Nat /\ r \in Nat /\ r <= 399 /\ n = 400 * q + r
  BY <1>0, Zenon DEF IsYearOf
<1> PICK p \in Nat, t \in Nat : IsYearOf(k, p, t)
  BY Cycle, Zenon
<1>2. p \in Nat /\ t \in Nat /\ t <= 399 /\ k = 400 * p + t
  BY Zenon DEF IsYearOf
<1>3. YearStart(n) = InCycle(q, r)
  BY <1>0, YearInCycle, Zenon
<1>4. YearStart(k) = InCycle(p, t)
  BY YearInCycle, Zenon
<1>5. q < p \/ (q = p /\ r <= t)
  BY <1>1, <1>2
<1> QED
  BY <1>1, <1>2, <1>3, <1>4, <1>5 DEF InCycle

\* A date as the program keeps it.
IsDate(d) == d \in [year : Int, month : 1 .. 12, day : Int]

\* The day index, from the first year on.
LEMMA Index ==
    ASSUME NEW d, IsDate(d), d.year >= 1
    PROVE  /\ ToDayIndex(d) = YearStart(d.year - 1) + DaysBefore(d.year, d.month) + d.day - 1
           /\ ToDayIndex(d) \in Int
           /\ YearStart(d.year - 1) \in Int
           /\ DaysBefore(d.year, d.month) \in Nat
<1>1. d.year \in Int /\ d.month \in 1 .. 12 /\ d.day \in Int
  BY DEF IsDate
<1> DEFINE n == d.year - 1
           b == DaysBefore(d.year, d.month)
<1>2. n \in Nat
  BY <1>1
<1>3. b \in Nat
  BY <1>1, MonthBegins
<1> HIDE DEF n, b
<1>4. TruncDiv(n, 400) = n \div 400 /\ n \div 400 \in Nat
  BY <1>2 DEF TruncDiv
<1> DEFINE y == TruncMod(n, 400)
<1>5. y = n % 400 /\ y \in Nat /\ y <= 399
  BY <1>2, <1>4 DEF TruncMod
<1> HIDE DEF y
<1>6. TruncDiv(y, 4) = y \div 4 /\ TruncDiv(y, 100) = y \div 100 /\ y \div 4 \in Nat /\ y \div 100 \in Nat
  BY <1>5 DEF TruncDiv
<1>7. DayOfYear(d) = b + d.day - 1
  BY DEF DayOfYear, b
<1>8. ToDayIndex(d) = TruncDiv(n, 400) * 146097 + y * 365 + TruncDiv(y, 4) - TruncDiv(y, 100) + DayOfYear(d)
  BY DEF ToDayIndex, n, y, DAYS_IN_400_YEARS, DAYS_IN_100_YEARS, DAYS_IN_4_YEARS, DAYS_IN_YEAR
<1>9. YearStart(n) = (n \div 400) * 146097 + y * 365 + y \div 4 - y \div 100
  BY <1>5 DEF YearStart, InCycle
<1> DEFINE nd == n \div 400
           a == y \div 4
           c == y \div 100
<1> HIDE DEF nd, a, c
<1>10. /\ nd \in Nat /\ a \in Nat /\ c \in Nat
       /\ ToDayIndex(d) = nd * 146097 + y * 365 + a - c + (b + d.day - 1)
       /\ YearStart(n) = nd * 146097 + y * 365 + a - c
  BY <1>4, <1>5, <1>6, <1>7, <1>8, <1>9 DEF nd, a, c
<1>11. /\ ToDayIndex(d) = YearStart(n) + b + d.day - 1
       /\ ToDayIndex(d) \in Int
       /\ YearStart(n) \in Int
  BY <1>1, <1>3, <1>5, <1>10
<1> QED
  BY <1>3, <1>11 DEF n, b
\* The month of a day of the year exists and is the only one.
LEMMA MonthExists ==
    ASSUME NEW y \in Int, NEW n \in Int, 0 <= n, n < DaysBefore(y, 13)
    PROVE  \E m \in 1 .. 12 : DaysBefore(y, m) <= n /\ n < DaysBefore(y, m + 1)
<1>1. SUFFICES ASSUME \A m \in 1 .. 12 : DaysBefore(y, m) <= n => ~ (n < DaysBefore(y, m + 1))
               PROVE  FALSE
  BY Zenon
<1>2. \A m \in 1 .. 12 : DaysBefore(y, m) \in Nat /\ DaysBefore(y, m + 1) \in Nat
  BY MonthBegins
<1>3. DaysBefore(y, 1) = 0
  BY YearBegins, Zenon
<1>4. \A m \in 1 .. 12 : DaysBefore(y, m) <= n => DaysBefore(y, m + 1) <= n
  BY <1>1, <1>2
<1>5. DaysBefore(y, 2) <= n
  BY <1>3, <1>4
<1>6. DaysBefore(y, 3) <= n
  BY <1>4, <1>5
<1>7. DaysBefore(y, 4) <= n
  BY <1>4, <1>6
<1>8. DaysBefore(y, 5) <= n
  BY <1>4, <1>7
<1>9. DaysBefore(y, 6) <= n
  BY <1>4, <1>8
<1>10. DaysBefore(y, 7) <= n
  BY <1>4, <1>9
<1>11. DaysBefore(y, 8) <= n
  BY <1>4, <1>10
<1>12. DaysBefore(y, 9) <= n
  BY <1>4, <1>11
<1>13. DaysBefore(y, 10) <= n
  BY <1>4, <1>12
<1>14. DaysBefore(y, 11) <= n
  BY <1>4, <1>13
<1>15. DaysBefore(y, 12) <= n
  BY <1>4, <1>14
<1>16. DaysBefore(y, 13) <= n /\ DaysBefore(y, 13) \in Nat
  BY <1>2, <1>4, <1>15
<1> QED
  BY <1>16

\* What FromDayOfYear makes of a day of the year.
LEMMA DayOfYearFound ==
    ASSUME NEW y \in Int, NEW n \in Int, FromDayOfYear(y, n) # NoDate
    PROVE  \E m \in 1 .. 12 :
             /\ DaysBefore(y, m) <= n /\ n < DaysBefore(y, m + 1)
             /\ FromDayOfYear(y, n) = [year |-> y, month |-> m, day |-> n + 1 - DaysBefore(y, m)]
<1> DEFINE P(m) == DaysBefore(y, m) <= n /\ n < DaysBefore(y, m + 1)
           month == CHOOSE m \in 1 .. 12 : P(m)
<1>1. ~ (n < 0 \/ n >= DaysBefore(y, 13))
  BY DEF FromDayOfYear, MONTHES_IN_YEAR
<1>2. DaysBefore(y, 13) \in Nat
  BY YearBegins, Zenon
<1>3. 0 <= n /\ n < DaysBefore(y, 13)
  BY <1>1, <1>2
<1>4. \E m \in 1 .. 12 : P(m)
  BY <1>3, MonthExists
<1>5. month \in 1 .. 12 /\ P(month)
  <2> HIDE DEF P
  <2> QED
    BY <1>4, Zenon
<1>6. FromDayOfYear(y, n) = [year |-> y, month |-> month, day |-> n + 1 - DaysBefore(y, month)]
  BY <1>1 DEF FromDayOfYear, MONTHES_IN_YEAR
<1> HIDE DEF month
<1> QED
  BY <1>5, <1>6, Zenon

\* FromDayOfYear undoes DayOfYear.
LEMMA MonthFound ==
    ASSUME NEW d, IsDate(d), IsValid(d)
    PROVE  /\ FromDayOfYear(d.year, DayOfYear(d)) = d
           /\ DayOfYear(d) \in 0 .. 364 + Leap(d.year)
           /\ Leap(d.year) \in {0, 1}
           /\ DayOfYear(d) = DaysBefore(d.year, d.month) + d.day - 1
<1> DEFINE y == d.year
           k == d.month
           a == d.day
           n == DayOfYear(d)
<1>1. y \in Int /\ k \in 1 .. 12 /\ a \in Int /\ d = [year |-> y, month |-> k, day |-> a]
  BY DEF IsDate
<1>2. a \in 1 .. DaysInMonth(y, k)
  BY DEF IsValid
<1>3. n = DaysBefore(y, k) + a - 1
  BY DEF DayOfYear
<1> HIDE DEF y, k, a, n
<1>4. /\ DaysInMonth(y, k) \in Nat /\ DaysBefore(y, k) \in Nat /\ DaysBefore(y, k + 1) \in Nat
      /\ DaysBefore(y, k + 1) = DaysBefore(y, k) + DaysInMonth(y, k)
      /\ DaysBefore(y, 13) = 365 + Leap(y)
      /\ DaysBefore(y, k + 1) <= 365 + Leap(y)
      /\ Leap(y) \in {0, 1}
  <2>1. MonthFacts(y, k)
    BY <1>1, MonthFollows, Zenon
  <2> QED
    BY <2>1 DEF MonthFacts
<1>5. /\ n \in 0 .. 364 + Leap(y)
      /\ DaysBefore(y, k) <= n /\ n < DaysBefore(y, k + 1)
      /\ n + 1 - DaysBefore(y, k) = a
      /\ ~ (n < 0 \/ n >= DaysBefore(y, 13))
  BY <1>1, <1>2, <1>3, <1>4
<1>6. \A m \in 1 .. 12 : (DaysBefore(y, m) <= n /\ n < DaysBefore(y, m + 1)) => m = k
  <2> SUFFICES ASSUME NEW m \in 1 .. 12, DaysBefore(y, m) <= n, n < DaysBefore(y, m + 1), m # k
               PROVE  FALSE
    OBVIOUS
  <2>1. DaysBefore(y, m) \in Nat /\ DaysBefore(y, m + 1) \in Nat
    BY <1>1, MonthBegins
  <2>2. CASE m < k
    <3>1. DaysBefore(y, m + 1) <= DaysBefore(y, k)
      BY <1>1, <2>2, MonthOrder
    <3> QED
      BY <1>4, <1>5, <2>1, <3>1
  <2>3. CASE k < m
    <3>1. DaysBefore(y, k + 1) <= DaysBefore(y, m)
      BY <1>1, <2>3, MonthOrder
    <3> QED
      BY <1>4, <1>5, <2>1, <3>1
  <2> QED
    BY <1>1, <2>2, <2>3
<1> DEFINE P(m) == DaysBefore(y, m) <= n /\ n < DaysBefore(y, m + 1)
<1>7. (CHOOSE m \in 1 .. 12 : P(m)) = k
  <2>1. P(k) /\ (\A m \in 1 .. 12 : P(m) => m = k)
    BY <1>5, <1>6, Zenon
  <2> HIDE DEF P
  <2> QED
    BY <1>1, <2>1, Zenon
<1>8. FromDayOfYear(y, n) = [year |-> y, month |-> k, day |-> n + 1 - DaysBefore(y, k)]
  <2> DEFINE month == CHOOSE m \in 1 .. 12 : P(m)
  <2>1. FromDayOfYear(y, n) = [year |-> y, month |-> month, day |-> n + 1 - DaysBefore(y, month)]
    BY <1>5 DEF FromDayOfYear, MONTHES_IN_YEAR
  <2> HIDE DEF month
  <2>2. month = k
    BY <1>7 DEF month
  <2> QED
    BY <2>1, <2>2
<1>9. FromDayOfYear(y, n) = d
  BY <1>1, <1>5, <1>8
<1> QED
  BY <1>3, <1>4, <1>5, <1>9 DEF y, k, a, n

\* A year of a leap cycle, from a day of it.
LEMMA QuotientOfYear ==
    ASSUME NEW u \in Nat, u <= 3, NEW a \in Nat, a <= 364 \/ (a = 365 /\ u = 3)
    PROVE  (u * 365 + a) \div 365 = u \/ ((u * 365 + a) \div 365 = 4 /\ u = 3)
<1>1. u = 0 \/ u = 1 \/ u = 2 \/ u = 3
  OBVIOUS
<1>2. CASE u = 0
  BY <1>2
<1>3. CASE u = 1
  BY <1>3
<1>4. CASE u = 2
  BY <1>4
<1>5. CASE u = 3
  BY <1>5
<1> QED
  BY <1>1, <1>2, <1>3, <1>4, <1>5

\* A day of a century, from the leap cycle and the day in it.
LEMMA FourYears ==
    ASSUME NEW t \in Nat, t <= 24, NEW e \in Nat, e <= 1460
    PROVE  /\ t * 1461 + e \in Nat /\ t * 1461 + e <= 36524
           /\ t * 1461 + e = 36524 => t = 24 /\ e = 1460
  OBVIOUS

\* FromDayIndex finds the year of a day index and the day in it.
LEMMA YearFound ==
    ASSUME NEW n \in Nat, NEW a \in Nat, a <= 364 + Leap(n + 1)
    PROVE  FromDayIndex(YearStart(n) + a) = FromDayOfYear(n + 1, a)
<1>0. PICK q \in Nat, r \in Nat : IsYearOf(n, q, r)
  BY Cycle, Zenon
<1>1. q \in Nat /\ r \in Nat /\ r <= 399 /\ n = 400 * q + r
  BY <1>0, Zenon DEF IsYearOf
<1>2. YearStart(n) = InCycle(q, r)
  BY <1>0, YearInCycle, Zenon
<1>3. Leap(n + 1) = IF (r + 1) % 4 = 0 /\ ((r + 1) % 100 # 0 \/ r = 399) THEN 1 ELSE 0
  <2>1. Leap(n + 1) = LeapOf(r)
    BY <1>0, LeapInCycle, Zenon
  <2> QED
    BY <2>1, Zenon DEF LeapOf
<1> DEFINE c == r \div 100
           s == r % 100
           t == s \div 4
           u == s % 4
<1>4. c \in Nat /\ c <= 3 /\ s \in Nat /\ s <= 99 /\ r = 100 * c + s
  BY <1>1
<1>5. t \in Nat /\ t <= 24 /\ u \in Nat /\ u <= 3 /\ s = 4 * t + u
  BY <1>4
<1> HIDE DEF c, s, t, u
<1>6. r \div 100 = c /\ r \div 4 = 25 * c + t
  BY <1>4, <1>5
<1>7. a <= 364 \/ (a = 365 /\ u = 3 /\ (s # 99 \/ c = 3))
  <2>1. (r + 1) % 4 = 0 => u = 3
    <3>1. r + 1 = 4 * (25 * c + t) + (u + 1)
      BY <1>4, <1>5
    <3> QED
      BY <1>4, <1>5, <3>1, SMTT(30)
  <2>2. (r + 1) % 100 # 0 => s # 99
    BY <1>4, SMTT(30)
  <2>3. r = 399 => c = 3
    BY <1>4
  <2> QED
    BY <1>3, <2>1, <2>2, <2>3
<1> DEFINE e == u * 365 + a
           f == t * 1461 + e
           g == c * 36524 + f
           x == q * 146097 + g
<1>8. YearStart(n) + a = x
  BY <1>2, <1>4, <1>5, <1>6 DEF InCycle
<1>9. e \in Nat /\ e <= 1460 /\ (e = 1460 => u = 3)
  BY <1>5, <1>7
<1>10. Lesser(TruncDiv(e, 365), 3) = u
  <2>1. e \div 365 = u \/ (e \div 365 = 4 /\ u = 3)
    <3>1. a <= 364 \/ (a = 365 /\ u = 3)
      BY <1>7
    <3> QED
      BY <1>5, <3>1, QuotientOfYear
  <2> HIDE DEF e
  <2> QED
    BY <1>5, <1>9, <2>1 DEF Lesser, TruncDiv
<1>11. f \in Nat /\ f <= 36524 /\ (f = 36524 => c = 3)
  <2>1. e = 1460 => s # 99 \/ c = 3
    <3>1. e = 1460 => a = 365
      BY <1>5, <1>7
    <3> QED
      BY <3>1, <1>7
  <2> HIDE DEF e
  <2>2. f \in Nat /\ f <= 36524 /\ (f = 36524 => t = 24 /\ e = 1460)
    BY <1>5, <1>9, FourYears
  <2>3. t = 24 /\ u = 3 => s = 99
    BY <1>5
  <2> HIDE DEF f
  <2>4. f = 36524 => c = 3
    BY <1>9, <2>1, <2>2, <2>3
  <2> QED
    BY <2>2, <2>4
<1>12. TruncDiv(f, 1461) = t /\ TruncMod(f, 1461) = e
  <2> HIDE DEF e
  <2>1. f \div 1461 = t /\ f \in Nat
    BY <1>5, <1>9
  <2> HIDE DEF f
  <2>2. TruncDiv(f, 1461) = t
    BY <2>1 DEF TruncDiv
  <2>3. TruncMod(f, 1461) = f - 1461 * t
    BY <2>2 DEF TruncMod
  <2> QED
    BY <1>5, <1>9, <2>2, <2>3 DEF f
<1> HIDE DEF e, f
<1>13. Century(g) = c /\ g - c * 36524 = f /\ g \in Int /\ 0 <= g /\ g < 146097
  <2>1. g \div 36524 = c \/ (g \div 36524 = 4 /\ c = 3)
    BY <1>4, <1>11
  <2>2. g \in Int /\ 0 <= g /\ g < 146097
    <3>1. c \in Int /\ f \in Int /\ 0 <= f /\ (f <= 36523 \/ c = 3) /\ f <= 36524
      <4>1. c \in Int
        BY <1>4
      <4>2. f \in Int /\ 0 <= f /\ f <= 36524
        BY <1>11
      <4>3. f = 36524 \/ f <= 36523
        BY <4>2
      <4> QED
        BY <1>11, <4>1, <4>2, <4>3
    <3>2. g \in Int /\ 0 <= g
      BY <1>4, <3>1
    <3>3. g < 146097
      BY <1>4, <3>1
    <3> QED
      BY <3>2, <3>3
  <2>3. g - c * 36524 = f
    <3>1. c \in Int /\ f \in Int
      BY <1>4, <1>11
    <3>2. c * 36524 \in Int
      BY <3>1
    <3> QED
      BY <3>1, <3>2
  <2> HIDE DEF g
  <2>4. TruncDiv(g, 36524) = g \div 36524
    BY <2>2 DEF TruncDiv
  <2>5. Century(g) = Lesser(g \div 36524, 3)
    BY <2>4 DEF Century, DAYS_IN_100_YEARS, DAYS_IN_4_YEARS, DAYS_IN_YEAR
  <2> QED
    <3>1. Century(g) = c
      BY <1>4, <2>1, <2>5 DEF Lesser
    <3> QED
      BY <2>2, <2>3, <3>1
<1> HIDE DEF g
<1>14. TruncDiv(x, 146097) = q /\ TruncMod(x, 146097) = g
  <2>1. x \div 146097 = q /\ x \in Nat
    BY <1>13
  <2> HIDE DEF x
  <2>2. TruncDiv(x, 146097) = q
    BY <2>1 DEF TruncDiv
  <2>3. TruncMod(x, 146097) = x - 146097 * q
    BY <2>2 DEF TruncMod
  <2> QED
    BY <1>13, <2>2, <2>3 DEF x
<1> HIDE DEF x
<1>15. FromDayIndex(x) = FromDayOfYear(400 * q + 100 * c + 4 * t + u + 1, e - u * 365)
  <2>1. DAYS_IN_400_YEARS = 146097 /\ DAYS_IN_100_YEARS = 36524 /\ DAYS_IN_4_YEARS = 1461 /\ DAYS_IN_YEAR = 365
    BY DEF DAYS_IN_400_YEARS, DAYS_IN_100_YEARS, DAYS_IN_4_YEARS, DAYS_IN_YEAR
  <2> QED
    BY <1>10, <1>12, <1>13, <1>14, <2>1 DEF FromDayIndex
<1>16. 400 * q + 100 * c + 4 * t + u + 1 = n + 1 /\ e - u * 365 = a
  BY <1>1, <1>4, <1>5 DEF e
<1> QED
  BY <1>8, <1>15, <1>16

\* FromDayIndex undoes ToDayIndex.
LEMMA IndexUndone ==
    ASSUME NEW d, IsDate(d), IsValid(d), d.year >= 1
    PROVE  FromDayIndex(ToDayIndex(d)) = d
<1> DEFINE n == d.year - 1
           a == DayOfYear(d)
<1>1. d.year \in Int /\ n \in Nat /\ n + 1 = d.year
  BY DEF IsDate
<1>2. /\ FromDayOfYear(d.year, a) = d
      /\ a \in 0 .. 364 + Leap(d.year)
      /\ Leap(d.year) \in {0, 1}
      /\ a = DaysBefore(d.year, d.month) + d.day - 1
  BY MonthFound
<1>3. /\ ToDayIndex(d) = YearStart(n) + DaysBefore(d.year, d.month) + d.day - 1
      /\ YearStart(n) \in Int
      /\ DaysBefore(d.year, d.month) \in Nat
      /\ d.day \in Int
  BY Index DEF IsDate
<1> HIDE DEF n, a
<1>4. ToDayIndex(d) = YearStart(n) + a
  BY <1>2, <1>3
<1>5. a \in Nat /\ a <= 364 + Leap(n + 1)
  BY <1>1, <1>2
<1>6. FromDayIndex(YearStart(n) + a) = FromDayOfYear(n + 1, a)
  BY <1>1, <1>5, YearFound
<1> QED
  BY <1>1, <1>2, <1>4, <1>6
\* The order of dates is that of their day indexes.
LEMMA BeforeIndex ==
    ASSUME NEW d, NEW e, IsDate(d), IsValid(d), d.year >= 1, IsDate(e), IsValid(e), e.year >= 1,
           IsBefore(d, e)
    PROVE  ToDayIndex(d) < ToDayIndex(e)
<1>1. /\ d.year \in Int /\ d.month \in 1 .. 12 /\ d.day \in Int
      /\ e.year \in Int /\ e.month \in 1 .. 12 /\ e.day \in Int
      /\ d.day \in 1 .. DaysInMonth(d.year, d.month)
      /\ e.day \in 1 .. DaysInMonth(e.year, e.month)
  BY DEF IsDate, IsValid
<1>2. /\ ToDayIndex(d) = YearStart(d.year - 1) + DaysBefore(d.year, d.month) + d.day - 1
      /\ YearStart(d.year - 1) \in Int
      /\ DaysBefore(d.year, d.month) \in Nat
  BY Index, Zenon
<1>3. /\ ToDayIndex(e) = YearStart(e.year - 1) + DaysBefore(e.year, e.month) + e.day - 1
      /\ YearStart(e.year - 1) \in Int
      /\ DaysBefore(e.year, e.month) \in Nat
  BY Index, Zenon
<1>4. /\ DaysInMonth(d.year, d.month) \in 28 .. 31
      /\ DaysBefore(d.year, d.month + 1) = DaysBefore(d.year, d.month) + DaysInMonth(d.year, d.month)
      /\ DaysBefore(d.year, d.month + 1) <= 365 + Leap(d.year)
      /\ Leap(d.year) \in {0, 1}
  <2>1. MonthFacts(d.year, d.month)
    BY <1>1, MonthFollows, Zenon
  <2> QED
    BY <2>1, Zenon DEF MonthFacts
<1>5. CASE d.year < e.year
  <2> DEFINE n == d.year - 1
  <2>1. n \in Nat /\ n + 1 \in Nat /\ e.year - 1 \in Nat /\ n + 1 <= e.year - 1 /\ n + 1 = d.year
    BY <1>1, <1>5
  <2>2. YearStart(n + 1) = YearStart(n) + 365 + Leap(d.year)
    BY <2>1, YearStep
  <2>3. YearStart(n + 1) <= YearStart(e.year - 1)
    BY <2>1, YearOrder
  <2> QED
    BY <1>1, <1>2, <1>3, <1>4, <2>2, <2>3
<1>6. CASE d.year = e.year /\ d.month < e.month
  <2>1. DaysBefore(d.year, d.month + 1) <= DaysBefore(d.year, e.month)
    BY <1>1, <1>6, MonthOrder
  <2> QED
    BY <1>1, <1>2, <1>3, <1>4, <1>6, <2>1
<1>7. CASE d.year = e.year /\ d.month = e.month /\ d.day < e.day
  BY <1>1, <1>2, <1>3, <1>7
<1> QED
  BY <1>5, <1>6, <1>7 DEF IsBefore

\* operator< compares the day indexes.
LEMMA IndexOrder ==
    ASSUME NEW d, NEW e, IsDate(d), IsValid(d), d.year >= 1, IsDate(e), IsValid(e), e.year >= 1
    PROVE  IsBefore(d, e) <=> ToDayIndex(d) < ToDayIndex(e)
<1>1. ToDayIndex(d) \in Int /\ ToDayIndex(e) \in Int
  BY Index
<1>2. IsBefore(d, e) \/ d = e \/ IsBefore(e, d)
  BY DEF IsBefore, IsDate
<1>3. CASE IsBefore(d, e)
  BY <1>3, BeforeIndex
<1>4. CASE d = e
  BY <1>1, <1>4 DEF IsBefore, IsDate
<1>5. CASE IsBefore(e, d) /\ ~ IsBefore(d, e)
  <2>1. ToDayIndex(e) < ToDayIndex(d)
    BY <1>5, BeforeIndex
  <2> QED
    BY <1>1, <1>5, <2>1
<1> QED
  BY <1>2, <1>3, <1>4, <1>5

-----------------------------------------------------------------------------
\* The body of the loop of AddDays keeps the day that a date names.
LEMMA CarriedKeeps ==
    ASSUME NEW d, IsDate(d)
    PROVE  /\ IsDate(Carried(d))
           /\ Carried(d).day = d.day - DaysInMonth(d.year, d.month)
           /\ Carried(d).year >= d.year
           /\ d.year >= 1 => ToDayIndex(Carried(d)) = ToDayIndex(d)
<1> DEFINE y == d.year
           m == d.month
           a == d.day
           dim == DaysInMonth(y, m)
<1>1. y \in Int /\ m \in 1 .. 12 /\ a \in Int /\ d = [year |-> y, month |-> m, day |-> a]
  BY DEF IsDate
<1>2. dim \in 28 .. 31
  <2> HIDE DEF y, m
  <2> QED
    BY <1>1, MonthLength, Zenon
<1> DEFINE x == Carried(d)
<1>3. /\ x.day = a - dim
      /\ m = 12 => x.month = 1 /\ x.year = y + 1
      /\ m # 12 => x.month = m + 1 /\ x.year = y
      /\ x = [year |-> x.year, month |-> x.month, day |-> x.day]
  <2> HIDE DEF dim
  <2>1. CASE m = 12
    <3> DEFINE p == NextMonth(d)
    <3>0. p = [year |-> y + 1, month |-> 1, day |-> a]
      BY <1>1, <2>1 DEF NextMonth, MONTHES_IN_YEAR
    <3> HIDE DEF p
    <3>2. x = [p EXCEPT !.day = @ - dim]
      BY DEF Carried, dim, p
    <3>1. x = [year |-> y + 1, month |-> 1, day |-> a - dim]
      BY <3>0, <3>2
    <3> QED
      BY <2>1, <3>1
  <2>2. CASE m # 12
    <3> DEFINE p == NextMonth(d)
    <3>0. p = [year |-> y, month |-> m + 1, day |-> a]
      BY <1>1, <2>2 DEF NextMonth, MONTHES_IN_YEAR
    <3> HIDE DEF p
    <3>2. x = [p EXCEPT !.day = @ - dim]
      BY DEF Carried, dim, p
    <3>1. x = [year |-> y, month |-> m + 1, day |-> a - dim]
      BY <3>0, <3>2
    <3> QED
      BY <2>2, <3>1
  <2> QED
    BY <2>1, <2>2
<1> HIDE DEF x, dim
<1>4. IsDate(x) /\ x.year >= y
  <2>1. x.year \in Int /\ x.month \in 1 .. 12 /\ x.day \in Int /\ x.year >= y
    BY <1>1, <1>2, <1>3
  <2> QED
    BY <1>3, <2>1 DEF IsDate
<1>5. ASSUME y >= 1 PROVE ToDayIndex(x) = ToDayIndex(d)
  <2>1. x.year >= 1 /\ y - 1 \in Nat
    BY <1>1, <1>3, <1>5
  <2>2. /\ ToDayIndex(x) = YearStart(x.year - 1) + DaysBefore(x.year, x.month) + x.day - 1
        /\ YearStart(x.year - 1) \in Int
        /\ DaysBefore(x.year, x.month) \in Nat
    BY <1>4, <2>1, Index, Zenon
  <2>3. /\ ToDayIndex(d) = YearStart(y - 1) + DaysBefore(y, m) + a - 1
        /\ YearStart(y - 1) \in Int
        /\ DaysBefore(y, m) \in Nat
    BY <1>5, Index, Zenon
  <2> HIDE DEF y, m, a
  <2>4. /\ DaysBefore(y, m + 1) = DaysBefore(y, m) + dim
        /\ DaysBefore(y, 13) = 365 + Leap(y)
        /\ Leap(y) \in {0, 1}
    <3>1. MonthFacts(y, m)
      BY <1>1, MonthFollows, Zenon
    <3> QED
      BY <3>1, Zenon DEF MonthFacts, dim
  <2>5. CASE m # 12
    BY <1>1, <1>2, <1>3, <2>2, <2>3, <2>4, <2>5
  <2>6. CASE m = 12
    <3> DEFINE n == y - 1
    <3>1. n \in Nat /\ n + 1 = y /\ x.year - 1 = n + 1 /\ x.month = 1 /\ x.year \in Int
      BY <1>1, <1>3, <2>1, <2>6
    <3>2. YearStart(n + 1) = YearStart(n) + 365 + Leap(y)
      BY <3>1, YearStep
    <3>3. DaysBefore(x.year, 1) = 0
      BY <3>1, YearBegins, Zenon
    <3> QED
      BY <1>1, <1>2, <1>3, <2>2, <2>3, <2>4, <2>6, <3>1, <3>2, <3>3
  <2> QED
    BY <2>5, <2>6
<1> QED
  BY <1>3, <1>4, <1>5 DEF x, dim
\* The body of the loop of SubDays is undone by that of AddDays.
LEMMA BorrowedKeeps ==
    ASSUME NEW d, IsDate(d)
    PROVE  /\ IsDate(Borrowed(d))
           /\ Borrowed(d).day = d.day + DaysInMonth(Borrowed(d).year, Borrowed(d).month)
           /\ Borrowed(d).year >= 1 => d.year >= 1 /\ ToDayIndex(Borrowed(d)) = ToDayIndex(d)
<1> DEFINE y == d.year
           m == d.month
           a == d.day
           p == PreviousMonth(d)
           dim == DaysInMonth(p.year, p.month)
           b == Borrowed(d)
<1>1. y \in Int /\ m \in 1 .. 12 /\ a \in Int /\ d = [year |-> y, month |-> m, day |-> a]
  BY DEF IsDate
<1>2. /\ m = 1 => p = [year |-> y - 1, month |-> 12, day |-> a]
      /\ m # 1 => p = [year |-> y, month |-> m - 1, day |-> a]
  BY <1>1 DEF PreviousMonth, MONTHES_IN_YEAR
<1>3. b = [p EXCEPT !.day = @ + dim]
  BY DEF Borrowed
<1> HIDE DEF p, b
<1>4. p.year \in Int /\ p.month \in 1 .. 12
  BY <1>1, <1>2
<1>5. dim \in 28 .. 31
  BY <1>4, MonthLength, Zenon
<1> HIDE DEF dim
<1>6. b = [year |-> p.year, month |-> p.month, day |-> a + dim]
  BY <1>1, <1>2, <1>3
<1>7. /\ IsDate(b)
      /\ b.day = a + DaysInMonth(b.year, b.month)
      /\ b.year = p.year /\ b.month = p.month /\ b.day = a + dim
      /\ dim = DaysInMonth(b.year, b.month)
  <2>1. a + dim \in Int
    BY <1>1, <1>5
  <2>2. b.year = p.year /\ b.month = p.month /\ b.day = a + dim
    BY <1>6
  <2>3. dim = DaysInMonth(b.year, b.month)
    BY <2>2 DEF dim
  <2> QED
    BY <1>4, <1>6, <2>1, <2>2, <2>3 DEF IsDate
<1>8. Carried(b) = d
  <2> DEFINE n == NextMonth(b)
             c == a + dim
  <2>0. c \in Int /\ c - dim = a
    BY <1>1, <1>5
  <2> HIDE DEF c
  <2>1. n = [year |-> y, month |-> m, day |-> c]
    <3>1. CASE m = 1
      <4>1. b = [year |-> y - 1, month |-> 12, day |-> c]
        BY <1>2, <1>6, <3>1 DEF c
      <4>2. n = [year |-> (y - 1) + 1, month |-> 1, day |-> c]
        BY <4>1 DEF NextMonth, MONTHES_IN_YEAR
      <4>3. (y - 1) + 1 = y
        BY <1>1
      <4> QED
        BY <3>1, <4>2, <4>3
    <3>2. CASE m # 1
      <4>1. b = [year |-> y, month |-> m - 1, day |-> c]
        BY <1>2, <1>6, <3>2 DEF c
      <4>2. m - 1 # 12 /\ (m - 1) + 1 = m
        BY <1>1
      <4>3. n = [year |-> y, month |-> (m - 1) + 1, day |-> c]
        BY <4>1, <4>2 DEF NextMonth, MONTHES_IN_YEAR
      <4> QED
        BY <4>2, <4>3
    <3> QED
      BY <3>1, <3>2
  <2>2. Carried(b) = [n EXCEPT !.day = @ - dim]
    BY <1>7 DEF Carried
  <2> HIDE DEF n
  <2>3. Carried(b) = [year |-> y, month |-> m, day |-> c - dim]
    BY <2>1, <2>2
  <2> QED
    BY <1>1, <2>0, <2>3
<1>9. /\ y >= b.year
      /\ b.year >= 1 => ToDayIndex(d) = ToDayIndex(b)
  BY <1>7, <1>8, CarriedKeeps
<1>10. b.year >= 1 => y >= 1
  BY <1>1, <1>4, <1>7, <1>9
<1> QED
  BY <1>7, <1>9, <1>10 DEF b

\* A date that a day of the year names is valid.
LEMMA FoundIsValid ==
    ASSUME NEW y \in Int, NEW n \in Int, FromDayOfYear(y, n) # NoDate
    PROVE  IsDate(FromDayOfYear(y, n)) /\ IsValid(FromDayOfYear(y, n))
<1> DEFINE d == FromDayOfYear(y, n)
<1>1. PICK m \in 1 .. 12 :
             /\ DaysBefore(y, m) <= n /\ n < DaysBefore(y, m + 1)
             /\ d = [year |-> y, month |-> m, day |-> n + 1 - DaysBefore(y, m)]
  BY DayOfYearFound
<1> HIDE DEF d
<1>2. /\ DaysInMonth(y, m) \in 28 .. 31
      /\ DaysBefore(y, m) \in Nat
      /\ DaysBefore(y, m + 1) = DaysBefore(y, m) + DaysInMonth(y, m)
  <2>1. MonthFacts(y, m)
    BY MonthFollows, Zenon
  <2> QED
    BY <2>1, Zenon DEF MonthFacts
<1>3. n + 1 - DaysBefore(y, m) \in 1 .. DaysInMonth(y, m)
  BY <1>1, <1>2
<1>4. d.year = y /\ d.month = m /\ d.day = n + 1 - DaysBefore(y, m)
  BY <1>1
<1>5. IsDate(d)
  BY <1>1, <1>2 DEF IsDate
<1>6. IsValid(d)
  BY <1>3, <1>4 DEF IsValid, MONTHES_IN_YEAR
<1> QED
  BY <1>5, <1>6 DEF d

\* A date that a day index names is valid.
LEMMA IndexIsValid ==
    ASSUME NEW x \in Int, FromDayIndex(x) # NoDate
    PROVE  IsDate(FromDayIndex(x)) /\ IsValid(FromDayIndex(x))
<1>1. \A n, k \in Int : k > 0 => TruncDiv(n, k) \in Int
  BY DEF TruncDiv
<1>2. \A n, k \in Int : k > 0 => TruncMod(n, k) \in Int
  BY <1>1 DEF TruncMod
<1>3. \A n \in Int : Lesser(n, 3) \in Int
  BY DEF Lesser
<1>4. DAYS_IN_400_YEARS = 146097 /\ DAYS_IN_100_YEARS = 36524 /\ DAYS_IN_4_YEARS = 1461 /\ DAYS_IN_YEAR = 365
  BY DEF DAYS_IN_400_YEARS, DAYS_IN_100_YEARS, DAYS_IN_4_YEARS, DAYS_IN_YEAR
<1> DEFINE y400 == TruncDiv(x, 146097)
           in400 == TruncMod(x, 146097)
           y100 == Century(in400)
           in100 == in400 - y100 * 36524
           y4 == TruncDiv(in100, 1461)
           in4 == TruncMod(in100, 1461)
           y1 == Lesser(TruncDiv(in4, 365), 3)
<1>5. FromDayIndex(x) = FromDayOfYear(400 * y400 + 100 * y100 + 4 * y4 + y1 + 1, in4 - y1 * 365)
  BY <1>4 DEF FromDayIndex
<1> HIDE DEF y1, in4, y4, in100, y100, in400, y400
<1>6. y400 \in Int /\ in400 \in Int
  BY <1>1, <1>2 DEF y400, in400
<1>7. y100 \in Int
  BY <1>1, <1>3, <1>4, <1>6 DEF y100, Century
<1>8. in100 \in Int
  BY <1>6, <1>7 DEF in100
<1>9. y4 \in Int /\ in4 \in Int
  BY <1>1, <1>2, <1>8 DEF y4, in4
<1>10. y1 \in Int
  BY <1>1, <1>3, <1>9 DEF y1
<1> DEFINE y == 400 * y400 + 100 * y100 + 4 * y4 + y1 + 1
           n == in4 - y1 * 365
<1>11. y \in Int /\ n \in Int
  BY <1>6, <1>7, <1>9, <1>10
<1> HIDE DEF y, n
<1>12. FromDayIndex(x) = FromDayOfYear(y, n)
  BY <1>5 DEF y, n
<1> QED
  BY <1>11, <1>12, FoundIsValid
\* A clipped date is valid.
LEMMA ClippedIsValid ==
    ASSUME NEW d, IsDate(d), d.day >= 1
    PROVE  /\ IsDate(Clipped(d)) /\ IsValid(Clipped(d))
           /\ Clipped(d).year = d.year /\ Clipped(d).month = d.month
           /\ Clipped(d).day = Lesser(d.day, DaysInMonth(d.year, d.month))
<1> DEFINE y == d.year
           m == d.month
           a == d.day
           c == Lesser(a, DaysInMonth(y, m))
           x == Clipped(d)
<1>1. y \in Int /\ m \in 1 .. 12 /\ a \in Int /\ a >= 1 /\ d = [year |-> y, month |-> m, day |-> a]
  BY DEF IsDate
<1>2. x = [d EXCEPT !.day = c]
  BY DEF Clipped
<1> HIDE DEF x, c, y, m, a
<1>3. x = [year |-> y, month |-> m, day |-> c]
  BY <1>1, <1>2
<1>4. DaysInMonth(y, m) \in 28 .. 31
  BY <1>1, MonthLength, Zenon
<1>5. c \in Int /\ c \in 1 .. DaysInMonth(y, m)
  BY <1>1, <1>4 DEF c, Lesser
<1>6. IsDate(x) /\ IsValid(x)
  BY <1>1, <1>3, <1>5 DEF IsDate, IsValid, MONTHES_IN_YEAR
<1>7. x.year = y /\ x.month = m /\ x.day = c
  BY <1>3
<1> QED
  BY <1>6, <1>7 DEF x, c, y, m, a

\* AddMonthes moves the month by its argument.
LEMMA MonthesAddedRight ==
    ASSUME NEW d, IsDate(d), NEW n \in Nat
    PROVE  /\ IsDate(MonthesAdded(d, n))
           /\ MonthesAdded(d, n).day = d.day
           /\ 12 * MonthesAdded(d, n).year + MonthesAdded(d, n).month = 12 * d.year + d.month + n
<1> DEFINE y == d.year
           k == d.month
           a == d.day
           m == k + n
           x == MonthesAdded(d, n)
<1>1. y \in Int /\ k \in 1 .. 12 /\ a \in Int /\ d = [year |-> y, month |-> k, day |-> a]
  BY DEF IsDate
<1>2. CASE m > 12
  <2> DEFINE q == (m - 1) \div 12
             r == (m - 1) % 12
  <2>1. q \in Nat /\ r \in 0 .. 11 /\ m - 1 = 12 * q + r
    BY <1>1
  <2> HIDE DEF q, r
  <2>2. x = [d EXCEPT !.year = @ + q, !.month = r + 1]
    BY <1>2 DEF MonthesAdded, MONTHES_IN_YEAR, q, r
  <2> HIDE DEF x
  <2>3. x = [year |-> y + q, month |-> r + 1, day |-> a]
    BY <1>1, <2>2
  <2>4. y + q \in Int /\ r + 1 \in 1 .. 12 /\ 12 * (y + q) + (r + 1) = 12 * y + k + n
    BY <1>1, <2>1
  <2>5. IsDate(x) /\ x.year = y + q /\ x.month = r + 1 /\ x.day = a
    BY <1>1, <2>3, <2>4 DEF IsDate
  <2> QED
    BY <2>4, <2>5 DEF x
<1>3. CASE ~ (m > 12)
  <2>1. x = [d EXCEPT !.month = m]
    BY <1>3 DEF MonthesAdded, MONTHES_IN_YEAR
  <2> HIDE DEF x
  <2>2. m \in 1 .. 12
    BY <1>1, <1>3
  <2>3. x = [year |-> y, month |-> m, day |-> a]
    BY <1>1, <2>1
  <2>4. IsDate(x) /\ x.year = y /\ x.month = m /\ x.day = a
    BY <1>1, <2>2, <2>3 DEF IsDate
  <2>5. 12 * x.year + x.month = 12 * y + k + n
    BY <1>1, <2>4
  <2> QED
    BY <2>4, <2>5 DEF x
<1> QED
  BY <1>2, <1>3

\* SubMonthes moves the month back by its argument.
LEMMA MonthesSubtractedRight ==
    ASSUME NEW d, IsDate(d), NEW n \in Nat
    PROVE  /\ IsDate(MonthesSubtracted(d, n))
           /\ MonthesSubtracted(d, n).day = d.day
           /\ 12 * MonthesSubtracted(d, n).year + MonthesSubtracted(d, n).month
                = 12 * d.year + d.month - n
<1> DEFINE y == d.year
           k == d.month
           a == d.day
           m == k - n
           x == MonthesSubtracted(d, n)
<1>1. y \in Int /\ k \in 1 .. 12 /\ a \in Int /\ d = [year |-> y, month |-> k, day |-> a]
  BY DEF IsDate
<1>2. CASE m < 1
  <2> DEFINE q == YearsBorrowed(m)
             r == (-m) % 12
  <2>1. q = (12 - m) \div 12
    BY DEF YearsBorrowed, MONTHES_IN_YEAR
  <2>2. q \in Nat /\ r \in 0 .. 11 /\ 12 - m = 12 * q + r
    BY <1>1, <1>2, <2>1
  <2> HIDE DEF q, r
  <2>3. x = [d EXCEPT !.year = @ - q, !.month = 12 - r]
    BY <1>2 DEF MonthesSubtracted, MONTHES_IN_YEAR, q, r
  <2> HIDE DEF x
  <2>4. x = [year |-> y - q, month |-> 12 - r, day |-> a]
    BY <1>1, <2>3
  <2>5. y - q \in Int /\ 12 - r \in 1 .. 12 /\ 12 * (y - q) + (12 - r) = 12 * y + k - n
    BY <1>1, <2>2
  <2>6. IsDate(x) /\ x.year = y - q /\ x.month = 12 - r /\ x.day = a
    BY <1>1, <2>4, <2>5 DEF IsDate
  <2> QED
    BY <2>5, <2>6 DEF x
<1>3. CASE ~ (m < 1)
  <2>1. x = [d EXCEPT !.month = m]
    BY <1>3 DEF MonthesSubtracted, MONTHES_IN_YEAR
  <2> HIDE DEF x
  <2>2. m \in 1 .. 12
    BY <1>1, <1>3
  <2>3. x = [year |-> y, month |-> m, day |-> a]
    BY <1>1, <2>1
  <2>4. IsDate(x) /\ x.year = y /\ x.month = m /\ x.day = a
    BY <1>1, <2>2, <2>3 DEF IsDate
  <2>5. 12 * x.year + x.month = 12 * y + k - n
    BY <1>1, <2>4
  <2> QED
    BY <2>4, <2>5 DEF x
<1> QED
  BY <1>2, <1>3
-----------------------------------------------------------------------------
\* The types of the date and of the call.
DateTypes ==
    /\ IsDate(date)
    /\ IsDate(dateCall.from) /\ IsValid(dateCall.from)
    /\ dateCall.count \in Int
    /\ datePc \in {"ready", "adding", "subtracting", "done"}

\* What the loops of AddDays and SubDays have left to do: the day is not below the
\* month when months are carried and not beyond it when they are borrowed.
LoopInv ==
    /\ datePc = "ready" => dateCall.op = "none"
    /\ datePc = "adding" => /\ dateCall.op = "AddDays"
                            /\ date.day >= 1
                            /\ date.year >= dateCall.from.year
    /\ datePc = "subtracting" => /\ dateCall.op = "AddDays"
                                 /\ date.day <= DaysInMonth(date.year, date.month)

\* The inductive invariant of the calls.
DateInv == DateTypes /\ LoopInv /\ DateStaysValid /\ DaysAreCounted /\ MonthsAreCounted

\* A constructed date is valid.
LEMMA DateInitInv == DateInit => DateInv
<1> SUFFICES ASSUME DateInit PROVE DateInv
  OBVIOUS
<1>1. dateCall = [op |-> "none", count |-> 0, from |-> date] /\ datePc = "ready"
  BY DEF DateInit
<1>2. IsDate(date) /\ IsValid(date)
  <2>1. CASE date \in {d \in [year : StartYears, month : 1 .. 12, day : StartDays] : IsValid(d)}
    <3>1. date \in [year : StartYears, month : 1 .. 12, day : StartDays] /\ IsValid(date)
      BY <2>1, Zenon
    <3>2. StartYears \subseteq Int /\ StartDays \subseteq Int
      BY DateAssumption
    <3> QED
      BY <3>1, <3>2 DEF IsDate
  <2>2. CASE \E index \in StartIndexes :
                 FromDayIndex(index) # NoDate /\ date = FromDayIndex(index)
    <3>1. PICK index \in StartIndexes : FromDayIndex(index) # NoDate /\ date = FromDayIndex(index)
      BY <2>2
    <3>2. index \in Int
      BY DateAssumption
    <3> QED
      BY <3>1, <3>2, IndexIsValid
  <2> QED
    BY <2>1, <2>2 DEF DateInit
<1>3. DateTypes
  BY <1>1, <1>2 DEF DateTypes
<1> QED
  BY <1>1, <1>2, <1>3 DEF DateInv, LoopInv, DateStaysValid, DaysAreCounted, MonthsAreCounted

\* The first statement of AddDays and SubDays.
LEMMA DaysAdded ==
    ASSUME NEW n \in Int, DateInv, datePc = "ready", Called("AddDays", n),
           date' = [date EXCEPT !.day = @ + n],
           (n >= 0 /\ datePc' = "adding") \/ (n <= 0 /\ datePc' = "subtracting")
    PROVE  DateInv'
<1> DEFINE y == date.year
           m == date.month
           a == date.day
<1>1. y \in Int /\ m \in 1 .. 12 /\ a \in Int /\ date = [year |-> y, month |-> m, day |-> a]
  BY DEF DateInv, DateTypes, IsDate
<1>2. IsDate(date) /\ IsValid(date)
  BY DEF DateInv, DateTypes, DateStaysValid
<1>3. dateCall'.op = "AddDays" /\ dateCall'.count = n /\ dateCall'.from = date
  BY DEF Called
<1>4. a \in 1 .. DaysInMonth(y, m)
  BY <1>2 DEF IsValid
<1>5. DaysInMonth(y, m) \in 28 .. 31
  <2> HIDE DEF y, m, a
  <2> QED
    BY <1>1, MonthLength, Zenon
<1>6. date' = [year |-> y, month |-> m, day |-> a + n]
  BY <1>1
<1>7. date'.year = y /\ date'.month = m /\ date'.day = a + n
  BY <1>6
<1>8. IsDate(date')
  BY <1>1, <1>6 DEF IsDate
<1>9. DateTypes'
  BY <1>2, <1>3, <1>8 DEF DateTypes
<1>10. LoopInv'
  <2>1. n >= 0 => a + n >= 1
    BY <1>1, <1>4, <1>5
  <2>2. n <= 0 => a + n <= DaysInMonth(y, m)
    BY <1>1, <1>4, <1>5
  <2>3. y >= y
    BY <1>1
  <2> HIDE DEF y, m, a
  <2>4. CASE n >= 0 /\ datePc' = "adding"
    BY <1>3, <1>7, <2>1, <2>3, <2>4 DEF LoopInv, y
  <2>5. CASE n <= 0 /\ datePc' = "subtracting"
    BY <1>3, <1>7, <2>2, <2>5 DEF LoopInv
  <2> QED
    BY <2>4, <2>5
<1>11. DaysAreCounted'
  <2> SUFFICES ASSUME y >= 1
               PROVE  ToDayIndex(date') = ToDayIndex(date) + n
    BY <1>3, <1>7 DEF DaysAreCounted
  <2>1. /\ ToDayIndex(date') = YearStart(y - 1) + DaysBefore(y, m) + (a + n) - 1
        /\ ToDayIndex(date) = YearStart(y - 1) + DaysBefore(y, m) + a - 1
        /\ YearStart(y - 1) \in Int
        /\ DaysBefore(y, m) \in Nat
    <3>1. /\ ToDayIndex(date) = YearStart(y - 1) + DaysBefore(y, m) + a - 1
          /\ YearStart(y - 1) \in Int
          /\ DaysBefore(y, m) \in Nat
      BY <1>2, Index, Zenon
    <3>2. ToDayIndex(date') = YearStart(date'.year - 1) + DaysBefore(date'.year, date'.month) + date'.day - 1
      <4>1. date'.year >= 1
        BY <1>7
      <4> QED
        BY <1>8, <4>1, Index, Zenon
    <3> QED
      BY <1>7, <3>1, <3>2
  <2> HIDE DEF y, m, a
  <2> QED
    BY <1>1, <2>1
<1>12. DateStaysValid' /\ MonthsAreCounted'
  BY <1>3 DEF DateStaysValid, MonthsAreCounted
<1> QED
  BY <1>9, <1>10, <1>11, <1>12 DEF DateInv

\* The last statement of the calls on months and years.
LEMMA ClippedInv ==
    ASSUME NEW op \in {"AddMonthes", "AddYears"}, NEW n \in Int, NEW x,
           DateInv, datePc = "ready", Called(op, n),
           IsDate(x), x.day = date.day,
           op = "AddMonthes" => 12 * x.year + x.month = 12 * date.year + date.month + n,
           date' = Clipped(x), datePc' = "done"
    PROVE  DateInv'
<1>1. IsDate(date) /\ IsValid(date)
  BY DEF DateInv, DateTypes, DateStaysValid
<1>2. dateCall'.op = op /\ dateCall'.count = n /\ dateCall'.from = date
  BY DEF Called
<1>3. x.day >= 1
  <2>1. date.day \in 1 .. DaysInMonth(date.year, date.month)
    BY <1>1 DEF IsValid
  <2>2. DaysInMonth(date.year, date.month) \in 28 .. 31
    <3>1. date.year \in Int /\ date.month \in 1 .. 12
      BY <1>1 DEF IsDate
    <3> QED
      BY <3>1, MonthLength, Zenon
  <2> QED
    BY <2>1, <2>2
<1>4. /\ IsDate(date') /\ IsValid(date')
      /\ date'.year = x.year /\ date'.month = x.month
      /\ date'.day = Lesser(x.day, DaysInMonth(x.year, x.month))
  BY <1>3, ClippedIsValid
<1>5. DateTypes'
  BY <1>1, <1>2, <1>4 DEF DateTypes
<1>6. LoopInv' /\ DateStaysValid' /\ DaysAreCounted'
  BY <1>2, <1>4 DEF LoopInv, DateStaysValid, DaysAreCounted
<1>7. MonthsAreCounted'
  BY <1>2, <1>4 DEF MonthsAreCounted
<1> QED
  BY <1>5, <1>6, <1>7 DEF DateInv
\* Every step keeps the invariant.
LEMMA DateNextInv == DateInv /\ [DateNext]_dateVars => DateInv'
<1> SUFFICES ASSUME DateInv, [DateNext]_dateVars PROVE DateInv'
  OBVIOUS
<1>0. IsDate(date) /\ IsDate(dateCall.from) /\ IsValid(dateCall.from) /\ dateCall.count \in Int
  BY DEF DateInv, DateTypes
<1>1. ASSUME NEW n \in DayCounts, AddDays(n) PROVE DateInv'
  <2>1. n \in Int
    BY DateAssumption
  <2>2. (n >= 0 /\ datePc' = "adding") \/ (n <= 0 /\ datePc' = "subtracting")
    BY <1>1, <2>1 DEF AddDays
  <2> QED
    BY <1>1, <2>1, <2>2, DaysAdded DEF AddDays
<1>2. ASSUME NEW n \in DayCounts, SubDays(n) PROVE DateInv'
  <2> DEFINE k == -n
  <2>1. n \in Int /\ k \in Int
    BY DateAssumption
  <2>2. datePc = "ready" /\ Called("AddDays", k)
    BY <1>2 DEF SubDays
  <2>3. date' = [date EXCEPT !.day = @ + k]
    <3>1. date.day - n = date.day + k
      BY <1>0, <2>1 DEF IsDate
    <3>2. date' = [date EXCEPT !.day = date.day - n]
      BY <1>2 DEF SubDays
    <3> QED
      BY <3>1, <3>2
  <2>4. (k >= 0 /\ datePc' = "adding") \/ (k <= 0 /\ datePc' = "subtracting")
    BY <1>2, <2>1 DEF SubDays
  <2> QED
    BY <1>2, <2>1, <2>2, <2>3, <2>4, DaysAdded
<1>3. CASE AddDaysCarry
  <2>1. datePc = "adding" /\ UNCHANGED dateCall
    BY <1>3 DEF AddDaysCarry
  <2>2. /\ dateCall.op = "AddDays" /\ date.day >= 1 /\ date.year >= dateCall.from.year
        /\ DaysAreCounted
    BY <2>1 DEF DateInv, LoopInv
  <2>3. date.year \in Int /\ date.month \in 1 .. 12 /\ date.day \in Int /\ dateCall.from.year \in Int
    BY <1>0 DEF IsDate
  <2>4. DaysInMonth(date.year, date.month) \in 28 .. 31
    BY <2>3, MonthLength, Zenon
  <2>5. CASE date.day > DaysInMonth(date.year, date.month)
    <3>1. date' = Carried(date) /\ UNCHANGED datePc
      BY <1>3, <2>5 DEF AddDaysCarry
    <3>2. /\ IsDate(date')
          /\ date'.day = date.day - DaysInMonth(date.year, date.month)
          /\ date'.year >= date.year
          /\ date.year >= 1 => ToDayIndex(date') = ToDayIndex(date)
      BY <1>0, <3>1, CarriedKeeps
    <3>3. date'.year \in Int
      BY <3>2 DEF IsDate
    <3>4. DateTypes'
      BY <1>0, <2>1, <3>1, <3>2 DEF DateTypes
    <3>5. LoopInv'
      <4>1. date'.day >= 1 /\ date'.year >= dateCall.from.year
        BY <2>2, <2>3, <2>4, <2>5, <3>2, <3>3
      <4> QED
        BY <2>1, <2>2, <3>1, <4>1 DEF LoopInv
    <3>6. DaysAreCounted'
      <4> SUFFICES ASSUME dateCall.from.year >= 1
                   PROVE  ToDayIndex(date') = ToDayIndex(dateCall.from) + dateCall.count
        BY <2>1 DEF DaysAreCounted
      <4>1. date.year >= 1
        BY <2>2, <2>3
      <4> QED
        BY <2>2, <3>2, <4>1 DEF DaysAreCounted
    <3>7. DateStaysValid' /\ MonthsAreCounted'
      BY <2>1, <2>2, <3>1 DEF DateStaysValid, MonthsAreCounted
    <3> QED
      BY <3>4, <3>5, <3>6, <3>7 DEF DateInv
  <2>6. CASE ~ (date.day > DaysInMonth(date.year, date.month))
    <3>1. datePc' = "done" /\ UNCHANGED date
      BY <1>3, <2>6 DEF AddDaysCarry
    <3>2. IsValid(date)
      BY <2>2, <2>3, <2>4, <2>6 DEF IsValid, MONTHES_IN_YEAR
    <3>3. DateTypes'
      BY <1>0, <2>1, <3>1 DEF DateTypes
    <3>4. LoopInv' /\ DateStaysValid' /\ MonthsAreCounted' /\ DaysAreCounted'
      BY <2>1, <2>2, <3>1, <3>2 DEF LoopInv, DateStaysValid, MonthsAreCounted, DaysAreCounted
    <3> QED
      BY <3>3, <3>4 DEF DateInv
  <2> QED
    BY <2>5, <2>6
<1>4. CASE SubDaysBorrow
  <2>1. datePc = "subtracting" /\ UNCHANGED dateCall
    BY <1>4 DEF SubDaysBorrow
  <2>2. /\ dateCall.op = "AddDays" /\ date.day <= DaysInMonth(date.year, date.month)
        /\ DaysAreCounted
    BY <2>1 DEF DateInv, LoopInv
  <2>3. date.year \in Int /\ date.month \in 1 .. 12 /\ date.day \in Int
    BY <1>0 DEF IsDate
  <2>4. DaysInMonth(date.year, date.month) \in 28 .. 31
    BY <2>3, MonthLength, Zenon
  <2>5. CASE date.day < 1
    <3>1. date' = Borrowed(date) /\ UNCHANGED datePc
      BY <1>4, <2>5 DEF SubDaysBorrow, MustBorrow
    <3>2. /\ IsDate(date')
          /\ date'.day = date.day + DaysInMonth(date'.year, date'.month)
          /\ date'.year >= 1 => date.year >= 1 /\ ToDayIndex(date') = ToDayIndex(date)
      BY <1>0, <3>1, BorrowedKeeps
    <3>3. DaysInMonth(date'.year, date'.month) \in 28 .. 31
      <4>1. date'.year \in Int /\ date'.month \in 1 .. 12
        BY <3>2 DEF IsDate
      <4> QED
        BY <4>1, MonthLength, Zenon
    <3>4. DateTypes'
      BY <1>0, <2>1, <3>1, <3>2 DEF DateTypes
    <3>5. LoopInv'
      <4>1. date'.day <= DaysInMonth(date'.year, date'.month)
        BY <2>3, <2>5, <3>2, <3>3
      <4> QED
        BY <2>1, <2>2, <3>1, <4>1 DEF LoopInv
    <3>6. DaysAreCounted'
      BY <2>1, <2>2, <3>2 DEF DaysAreCounted
    <3>7. DateStaysValid' /\ MonthsAreCounted'
      BY <2>1, <2>2, <3>1 DEF DateStaysValid, MonthsAreCounted
    <3> QED
      BY <3>4, <3>5, <3>6, <3>7 DEF DateInv
  <2>6. CASE ~ (date.day < 1)
    <3>1. datePc' = "done" /\ UNCHANGED date
      BY <1>4, <2>6 DEF SubDaysBorrow, MustBorrow
    <3>2. IsValid(date)
      BY <2>2, <2>3, <2>4, <2>6 DEF IsValid, MONTHES_IN_YEAR
    <3>3. DateTypes'
      BY <1>0, <2>1, <3>1 DEF DateTypes
    <3>4. LoopInv' /\ DateStaysValid' /\ MonthsAreCounted' /\ DaysAreCounted'
      BY <2>1, <2>2, <3>1, <3>2 DEF LoopInv, DateStaysValid, MonthsAreCounted, DaysAreCounted
    <3> QED
      BY <3>3, <3>4 DEF DateInv
  <2> QED
    BY <2>5, <2>6
<1>5. ASSUME NEW n \in MonthCounts, AddMonthes(n) PROVE DateInv'
  <2> DEFINE x == IF n >= 0 THEN MonthesAdded(date, n) ELSE MonthesSubtracted(date, -n)
  <2>1. n \in Int
    BY DateAssumption
  <2>2. /\ IsDate(x) /\ x.day = date.day
        /\ 12 * x.year + x.month = 12 * date.year + date.month + n
    <3>1. CASE n >= 0
      <4>1. n \in Nat /\ x = MonthesAdded(date, n)
        BY <2>1, <3>1
      <4> HIDE DEF x
      <4> QED
        BY <1>0, <4>1, MonthesAddedRight
    <3>2. CASE ~ (n >= 0)
      <4>1. -n \in Nat
        BY <2>1, <3>2
      <4>2. x = MonthesSubtracted(date, -n)
        BY <3>2
      <4> HIDE DEF x
      <4>3. /\ IsDate(x) /\ x.day = date.day
            /\ 12 * x.year + x.month = 12 * date.year + date.month - (-n)
        BY <1>0, <4>1, <4>2, MonthesSubtractedRight
      <4> QED
        BY <1>0, <2>1, <4>3 DEF IsDate
    <3> QED
      BY <3>1, <3>2
  <2>3. datePc = "ready" /\ Called("AddMonthes", n) /\ date' = Clipped(x) /\ datePc' = "done"
    BY <1>5 DEF AddMonthes
  <2> HIDE DEF x
  <2> QED
    BY <2>1, <2>2, <2>3, ClippedInv
<1>6. ASSUME NEW n \in MonthCounts, SubMonthes(n) PROVE DateInv'
  <2> DEFINE x == IF n >= 0 THEN MonthesSubtracted(date, n) ELSE MonthesAdded(date, -n)
             k == -n
  <2>1. n \in Int /\ k \in Int
    BY DateAssumption
  <2>2. /\ IsDate(x) /\ x.day = date.day
        /\ 12 * x.year + x.month = 12 * date.year + date.month + k
    <3>1. CASE n >= 0
      <4>1. x = MonthesSubtracted(date, n) /\ n \in Nat
        BY <2>1, <3>1
      <4> HIDE DEF x
      <4>2. /\ IsDate(x) /\ x.day = date.day
            /\ 12 * x.year + x.month = 12 * date.year + date.month - n
        BY <1>0, <4>1, MonthesSubtractedRight
      <4> QED
        BY <1>0, <2>1, <4>2 DEF IsDate
    <3>2. CASE ~ (n >= 0)
      <4>1. k \in Nat /\ x = MonthesAdded(date, k)
        BY <2>1, <3>2
      <4> HIDE DEF x, k
      <4> QED
        BY <1>0, <4>1, MonthesAddedRight
    <3> QED
      BY <3>1, <3>2
  <2>3. datePc = "ready" /\ Called("AddMonthes", k) /\ date' = Clipped(x) /\ datePc' = "done"
    BY <1>6 DEF SubMonthes
  <2> HIDE DEF x, k
  <2> QED
    BY <2>1, <2>2, <2>3, ClippedInv
<1>7. ASSUME NEW n \in YearCounts, AddYears(n) PROVE DateInv'
  <2> DEFINE x == [date EXCEPT !.year = @ + n]
  <2>1. n \in Int
    BY DateAssumption
  <2>2. IsDate(x) /\ x.day = date.day
    BY <1>0, <2>1 DEF IsDate
  <2>3. datePc = "ready" /\ Called("AddYears", n) /\ date' = Clipped(x) /\ datePc' = "done"
    BY <1>7 DEF AddYears
  <2> HIDE DEF x
  <2> QED
    BY <2>1, <2>2, <2>3, ClippedInv
<1>8. CASE UNCHANGED dateVars
  BY <1>8 DEF dateVars, DateInv, DateTypes, LoopInv, DateStaysValid, DaysAreCounted, MonthsAreCounted
<1> QED
  BY <1>1, <1>2, <1>3, <1>4, <1>5, <1>6, <1>7, <1>8 DEF DateNext

\* The day index of a finished call names its date.
LEMMA DateInvIndex == DateInv => DayIndexNamesTheDay
<1> SUFFICES ASSUME DateInv, datePc = "done", date.year >= 1, dateCall.from.year >= 1
             PROVE  /\ FromDayIndex(ToDayIndex(date)) = date
                    /\ IsBefore(dateCall.from, date)
                          <=> ToDayIndex(dateCall.from) < ToDayIndex(date)
  BY DEF DayIndexNamesTheDay
<1>1. IsDate(date) /\ IsValid(date) /\ IsDate(dateCall.from) /\ IsValid(dateCall.from)
  BY DEF DateInv, DateTypes, DateStaysValid
<1> QED
  BY <1>1, IndexUndone, IndexOrder

\* Every call of XTL::Date leaves a valid date, AddDays, SubDays, AddMonthes and
\* SubMonthes count as the calendar does from any date and by any number, in
\* every turn of their loops, and from the year 1 on the day index is undone by
\* FromDayIndex and ordered as operator< orders the dates.
THEOREM DatesCorrect == DateSpec => []DatesAreCounted
<1>1. DateInv => DatesAreCounted
  BY DateInvIndex DEF DateInv, DatesAreCounted
<1> QED
  BY <1>1, DateInitInv, DateNextInv, PTL DEF DateSpec

-----------------------------------------------------------------------------
(* Base64.                                                                  *)

\* The alphabets, and what a byte can be.
Codecs == {"common", "url"}
Octets == 0 .. 255

\* The two characters in which the alphabets differ.
LEMMA Specials ==
    ASSUME NEW c \in Codecs
    PROVE  /\ Special(c)[1] \in {43, 45} /\ Special(c)[2] \in {47, 95}
  BY DEF Special, Codecs

\* The parts of the table CHAR_TO_INT.
LEMMA CharTable ==
    ASSUME NEW c \in Codecs, NEW x \in Int
    PROVE  /\ x \in 65 .. 90 => CharToInt(c, x) = x - 65
           /\ x \in 97 .. 122 => CharToInt(c, x) = x - 97 + 26
           /\ x \in 48 .. 57 => CharToInt(c, x) = x - 48 + 52
           /\ x = Special(c)[1] => CharToInt(c, x) = 62
           /\ x = Special(c)[2] => CharToInt(c, x) = 63
           /\ CharToInt(c, x) # -1 => \/ x \in 65 .. 90 \/ x \in 97 .. 122 \/ x \in 48 .. 57
                                      \/ x = Special(c)[1] \/ x = Special(c)[2]
<1> DEFINE s == Special(c)[1]
           t == Special(c)[2]
<1> HIDE DEF s, t
<1>1. s \in {43, 45} /\ t \in {47, 95}
  BY Specials DEF s, t
<1>2. CharToInt(c, x) =
        CASE x \in 65 .. 90 -> x - 65
          [] x \in 97 .. 122 -> x - 97 + 26
          [] x \in 48 .. 57 -> x - 48 + 52
          [] x = s -> 62
          [] x = t -> 63
          [] OTHER -> -1
  BY DEF CharToInt, s, t
<1>3. CASE x \in 65 .. 90
  <2>1. x \notin 97 .. 122 /\ x \notin 48 .. 57 /\ x # s /\ x # t
    BY <1>1, <1>3
  <2> QED
    BY <1>2, <1>3, <2>1 DEF s, t
<1>4. CASE x \in 97 .. 122
  <2>1. x \notin 65 .. 90 /\ x \notin 48 .. 57 /\ x # s /\ x # t
    BY <1>1, <1>4
  <2> QED
    BY <1>2, <1>4, <2>1 DEF s, t
<1>5. CASE x \in 48 .. 57
  <2>1. x \notin 65 .. 90 /\ x \notin 97 .. 122 /\ x # s /\ x # t
    BY <1>1, <1>5
  <2> QED
    BY <1>2, <1>5, <2>1 DEF s, t
<1>6. CASE x = s
  <2>1. x \notin 65 .. 90 /\ x \notin 97 .. 122 /\ x \notin 48 .. 57 /\ x # t
    BY <1>1, <1>6
  <2> QED
    BY <1>2, <1>6, <2>1 DEF s, t
<1>7. CASE x = t
  <2>1. x \notin 65 .. 90 /\ x \notin 97 .. 122 /\ x \notin 48 .. 57 /\ x # s
    BY <1>1, <1>7
  <2> QED
    BY <1>2, <1>7, <2>1 DEF s, t
<1>8. CASE x \notin 65 .. 90 /\ x \notin 97 .. 122 /\ x \notin 48 .. 57 /\ x # s /\ x # t
  BY <1>2, <1>8 DEF s, t
<1> QED
  BY <1>3, <1>4, <1>5, <1>6, <1>7, <1>8

\* The tables are inverse, and the padding character is in neither.
LEMMA TableForth ==
    ASSUME NEW c \in Codecs, NEW n \in 0 .. 63
    PROVE  /\ IntToChar(c, n) \in Nat
           /\ CharToInt(c, IntToChar(c, n)) = n
           /\ IntToChar(c, n) # Pad
<1>1. n % 64 = n
  OBVIOUS
<1>2. CASE n < 26
  <2>1. IntToChar(c, n) = 65 + n
    BY <1>1, <1>2 DEF IntToChar
  <2>2. 65 + n \in 65 .. 90
    BY <1>2
  <2> QED
    BY <2>1, <2>2, CharTable DEF Pad
<1>3. CASE n \in 26 .. 51
  <2>1. IntToChar(c, n) = 97 + (n - 26)
    BY <1>1, <1>3 DEF IntToChar
  <2>2. 97 + (n - 26) \in 97 .. 122 /\ 97 + (n - 26) \notin 65 .. 90
    BY <1>3
  <2> QED
    BY <2>1, <2>2, CharTable DEF Pad
<1>4. CASE n \in 52 .. 61
  <2>1. IntToChar(c, n) = 48 + (n - 52)
    BY <1>1, <1>4 DEF IntToChar
  <2>2. 48 + (n - 52) \in 48 .. 57 /\ 48 + (n - 52) \notin 65 .. 90 /\ 48 + (n - 52) \notin 97 .. 122
    BY <1>4
  <2> QED
    BY <2>1, <2>2, CharTable DEF Pad
<1>5. CASE n = 62
  <2>1. IntToChar(c, n) = Special(c)[1]
    BY <1>1, <1>5 DEF IntToChar
  <2> QED
    BY <1>5, <2>1, CharTable, Specials DEF Pad
<1>6. CASE n = 63
  <2>1. IntToChar(c, n) = Special(c)[2]
    BY <1>1, <1>6 DEF IntToChar
  <2> QED
    BY <1>6, <2>1, CharTable, Specials DEF Pad
<1> QED
  BY <1>2, <1>3, <1>4, <1>5, <1>6

\* A character of the alphabet is the only one of its value.
LEMMA TableBack ==
    ASSUME NEW c \in Codecs, NEW x \in 0 .. 255, CharToInt(c, x) # -1
    PROVE  /\ CharToInt(c, x) \in 0 .. 63
           /\ IntToChar(c, CharToInt(c, x)) = x
           /\ x # Pad
<1>1. CASE x \in 65 .. 90
  <2>1. CharToInt(c, x) = x - 65
    BY <1>1, CharTable
  <2>2. x - 65 \in 0 .. 63 /\ (x - 65) % 64 = x - 65 /\ x - 65 < 26 /\ 65 + (x - 65) = x
    BY <1>1
  <2> QED
    BY <1>1, <2>1, <2>2 DEF IntToChar, Pad
<1>2. CASE x \in 97 .. 122
  <2>1. CharToInt(c, x) = x - 97 + 26
    BY <1>2, CharTable
  <2>2. x - 97 + 26 \in 26 .. 51 /\ (x - 97 + 26) % 64 = x - 97 + 26 /\ 97 + ((x - 97 + 26) - 26) = x
    BY <1>2
  <2> QED
    BY <1>2, <2>1, <2>2 DEF IntToChar, Pad
<1>3. CASE x \in 48 .. 57
  <2>1. CharToInt(c, x) = x - 48 + 52
    BY <1>3, CharTable
  <2>2. x - 48 + 52 \in 52 .. 61 /\ (x - 48 + 52) % 64 = x - 48 + 52 /\ 48 + ((x - 48 + 52) - 52) = x
    BY <1>3
  <2> QED
    BY <1>3, <2>1, <2>2 DEF IntToChar, Pad
<1>4. CASE x = Special(c)[1]
  <2>1. CharToInt(c, x) = 62
    BY <1>4, CharTable
  <2>2. IntToChar(c, 62) = Special(c)[1]
    BY DEF IntToChar
  <2> QED
    BY <1>4, <2>1, <2>2, Specials DEF Pad
<1>5. CASE x = Special(c)[2]
  <2>1. CharToInt(c, x) = 63
    BY <1>5, CharTable
  <2>2. IntToChar(c, 63) = Special(c)[2]
    BY DEF IntToChar
  <2> QED
    BY <1>5, <2>1, <2>2, Specials DEF Pad
<1> QED
  BY <1>1, <1>2, <1>3, <1>4, <1>5, CharTable

\* Three bytes are what their four sextets say.
SextetsFit(a, b, d) ==
    /\ FirstSextet(a) \in 0 .. 63 /\ SecondSextet(a, b) \in 0 .. 63
    /\ ThirdSextet(b, d) \in 0 .. 63 /\ FourthSextet(d) \in 0 .. 63
    /\ Byte(FirstSextet(a) * 4 + SecondSextet(a, b) \div 16) = a
    /\ Byte(SecondSextet(a, b) * 16 + ThirdSextet(b, d) \div 4) = b
    /\ Byte(ThirdSextet(b, d) * 64 + FourthSextet(d)) = d

\* They do for all bytes.
LEMMA SextetsForth ==
    ASSUME NEW a \in 0 .. 255, NEW b \in 0 .. 255, NEW d \in 0 .. 255
    PROVE  SextetsFit(a, b, d)
<1>1. FirstSextet(a) = a \div 4
  BY DEF FirstSextet
<1>2. SecondSextet(a, b) = (a % 4) * 16 + (b \div 16)
  BY DEF SecondSextet
<1>3. ThirdSextet(b, d) = (b % 16) * 4 + (d \div 64)
  BY DEF ThirdSextet
<1>4. FourthSextet(d) = d % 64
  BY DEF FourthSextet
<1>5. /\ a \div 4 \in 0 .. 63 /\ (a % 4) * 16 + (b \div 16) \in 0 .. 63
      /\ (b % 16) * 4 + (d \div 64) \in 0 .. 63 /\ d % 64 \in 0 .. 63
  OBVIOUS
<1>6. ((a % 4) * 16 + (b \div 16)) \div 16 = a % 4
  OBVIOUS
<1>7. ((b % 16) * 4 + (d \div 64)) \div 4 = b % 16
  OBVIOUS
<1>8. ((a \div 4) * 4 + (a % 4)) % 256 = a
  OBVIOUS
<1>9. (((a % 4) * 16 + (b \div 16)) * 16 + (b % 16)) % 256 = b
  OBVIOUS
<1>10. (((b % 16) * 4 + (d \div 64)) * 64 + (d % 64)) % 256 = d
  OBVIOUS
<1> QED
  BY <1>1, <1>2, <1>3, <1>4, <1>5, <1>6, <1>7, <1>8, <1>9, <1>10 DEF Byte, SextetsFit

\* Four sextets are those of their three bytes; a byte less leaves the low bits out.
BytesFit(i, j, k, l) ==
    /\ Byte(i * 4 + j \div 16) \in 0 .. 255
    /\ Byte(j * 16 + k \div 4) \in 0 .. 255
    /\ Byte(k * 64 + l) \in 0 .. 255
    /\ FirstSextet(Byte(i * 4 + j \div 16)) = i
    /\ SecondSextet(Byte(i * 4 + j \div 16), Byte(j * 16 + k \div 4)) = j
    /\ ThirdSextet(Byte(j * 16 + k \div 4), Byte(k * 64 + l)) = k
    /\ FourthSextet(Byte(k * 64 + l)) = l
    /\ j % 16 = 0 => SecondSextet(Byte(i * 4 + j \div 16), 0) = j
    /\ k % 4 = 0 => ThirdSextet(Byte(j * 16 + k \div 4), 0) = k

\* They do for all sextets.
LEMMA SextetsBack ==
    ASSUME NEW i \in 0 .. 63, NEW j \in 0 .. 63, NEW k \in 0 .. 63, NEW l \in 0 .. 63
    PROVE  BytesFit(i, j, k, l)
<1> DEFINE a == Byte(i * 4 + j \div 16)
           b == Byte(j * 16 + k \div 4)
           d == Byte(k * 64 + l)
<1>1. a = i * 4 + j \div 16 /\ a \in 0 .. 255
  BY DEF Byte
<1>2. b = (j % 16) * 16 + k \div 4 /\ b \in 0 .. 255
  BY DEF Byte
<1>3. d = (k % 4) * 64 + l /\ d \in 0 .. 255
  BY DEF Byte
<1> HIDE DEF a, b, d
<1>4. FirstSextet(a) = i /\ a % 4 = j \div 16
  BY <1>1 DEF FirstSextet
<1>5. b \div 16 = j % 16 /\ b % 16 = k \div 4
  BY <1>2
<1>6. d \div 64 = k % 4 /\ d % 64 = l
  BY <1>3
<1>7. SecondSextet(a, b) = j
  BY <1>4, <1>5 DEF SecondSextet
<1>8. ThirdSextet(b, d) = k
  BY <1>5, <1>6 DEF ThirdSextet
<1>9. FourthSextet(d) = l
  BY <1>6 DEF FourthSextet
<1>10. j % 16 = 0 => SecondSextet(a, 0) = j
  BY <1>4 DEF SecondSextet
<1>11. k % 4 = 0 => ThirdSextet(b, 0) = k
  BY <1>5 DEF ThirdSextet
<1> QED
  BY <1>1, <1>2, <1>3, <1>4, <1>7, <1>8, <1>9, <1>10, <1>11 DEF a, b, d, BytesFit

\* B holds what q turns of a loop appended, size values each, and the rest.
Holds(B, turns, q, size, rest) ==
    /\ Len(B) = size * q + Len(rest)
    /\ B = [p \in 1 .. size * q + Len(rest) |-> B[p]]
    /\ \A i \in 1 .. q : \A k \in 1 .. size : B[size * (i - 1) + k] = turns[i][k]
    /\ \A k \in 1 .. Len(rest) : B[size * q + k] = rest[k]

\* What the loop and the statements after it left in the CharBuffer.
LEMMA BufferHolds ==
    ASSUME NEW turns, NEW q \in Nat, Len(turns) = q, NEW size \in {3, 4}, NEW rest, Len(rest) \in Nat
    PROVE  Holds(Buffer(turns, size, rest), turns, q, size, rest)
<1> DEFINE n == size * q
           m == size * q + Len(rest)
           B == Buffer(turns, size, rest)
<1>0. n \in Nat /\ m \in Nat
  OBVIOUS
<1>1. B = [p \in 1 .. m |-> IF p <= n THEN turns[(p - 1) \div size + 1][((p - 1) % size) + 1]
                                      ELSE rest[p - n]]
  BY DEF Buffer
<1> HIDE DEF B
<1>2. Len(B) = m /\ DOMAIN B = 1 .. m /\ B = [p \in 1 .. m |-> B[p]]
  <2> HIDE DEF n, m
  <2> QED
    BY <1>0, <1>1
<1>3. ASSUME NEW i \in 1 .. q, NEW k \in 1 .. size PROVE B[size * (i - 1) + k] = turns[i][k]
  <2> DEFINE p == size * (i - 1) + k
  <2>1. p \in 1 .. m /\ p <= n /\ (p - 1) \div size + 1 = i /\ ((p - 1) % size) + 1 = k
    <3>1. CASE size = 3
      BY <3>1
    <3>2. CASE size = 4
      BY <3>2
    <3> QED
      BY <3>1, <3>2
  <2> HIDE DEF p, n, m
  <2> QED
    BY <1>1, <2>1 DEF p
<1>4. ASSUME NEW k \in 1 .. Len(rest) PROVE B[n + k] = rest[k]
  <2> DEFINE p == n + k
  <2>1. p \in 1 .. m /\ ~ (p <= n) /\ p - n = k
    BY <1>0
  <2> HIDE DEF p, n, m
  <2> QED
    BY <1>1, <2>1 DEF p
<1>5. Holds(B, turns, q, size, rest)
  BY <1>2, <1>3, <1>4, Zenon DEF Holds
<1> QED
  BY <1>5 DEF B

\* The text that Encode makes of 3 * q + r bytes: four characters for each three of
\* them, and four for the bytes that are left.
IsEncoding(c, s, q, r, t) ==
    /\ Len(t) = 4 * q + (IF r = 0 THEN 0 ELSE 4)
    /\ t = [p \in 1 .. 4 * q + (IF r = 0 THEN 0 ELSE 4) |-> t[p]]
    /\ \A i \in 1 .. q : \A k \in 1 .. 4 : t[4 * (i - 1) + k] = EncodeGroup(c, s, i)[k]
    /\ r # 0 => \A k \in 1 .. 4 : t[4 * q + k] = EncodeTail(c, s)[k]

\* Encode makes it.
LEMMA Encoded ==
    ASSUME NEW c \in Codecs, NEW s \in Seq(Octets), NEW q \in Nat, NEW r \in 0 .. 2,
           Len(s) = 3 * q + r
    PROVE  IsEncoding(c, s, q, r, Base64_Encode(c, s))
<1> DEFINE turns == [i \in 1 .. q |-> EncodeGroup(c, s, i)]
           rest == EncodeTail(c, s)
<1>1. Len(s) \div 3 = q /\ Len(s) % 3 = r
  OBVIOUS
<1>2. Base64_Encode(c, s) = Buffer(turns, 4, rest)
  BY <1>1 DEF Base64_Encode
<1>3. Len(turns) = q /\ \A i \in 1 .. q : turns[i] = EncodeGroup(c, s, i)
  OBVIOUS
<1>4. Len(rest) = IF r = 0 THEN 0 ELSE 4
  <2>1. CASE r = 0
    BY <1>1, <2>1 DEF EncodeTail
  <2>2. CASE r = 1
    BY <1>1, <2>2 DEF EncodeTail
  <2>3. CASE r = 2
    BY <1>1, <2>3 DEF EncodeTail
  <2> QED
    BY <2>1, <2>2, <2>3
<1> HIDE DEF turns, rest
<1> DEFINE B == Buffer(turns, 4, rest)
<1>5. /\ Len(B) = 4 * q + Len(rest)
      /\ B = [p \in 1 .. 4 * q + Len(rest) |-> B[p]]
      /\ \A i \in 1 .. q : \A k \in 1 .. 4 : B[4 * (i - 1) + k] = turns[i][k]
      /\ \A k \in 1 .. Len(rest) : B[4 * q + k] = rest[k]
  <2>1. Len(rest) \in Nat /\ 4 \in {3, 4}
    BY <1>4
  <2>2. Holds(B, turns, q, 4, rest)
    BY <1>3, <2>1, BufferHolds, Zenon
  <2> HIDE DEF B
  <2> QED
    BY <2>2, Zenon DEF Holds
<1> HIDE DEF B
<1>6. B = Base64_Encode(c, s)
  BY <1>2 DEF B
<1>7. /\ Len(B) = 4 * q + (IF r = 0 THEN 0 ELSE 4)
      /\ B = [p \in 1 .. 4 * q + (IF r = 0 THEN 0 ELSE 4) |-> B[p]]
  BY <1>4, <1>5
<1>8. \A i \in 1 .. q : \A k \in 1 .. 4 : B[4 * (i - 1) + k] = EncodeGroup(c, s, i)[k]
  <2> SUFFICES ASSUME NEW i \in 1 .. q, NEW k \in 1 .. 4
               PROVE  B[4 * (i - 1) + k] = EncodeGroup(c, s, i)[k]
    BY Zenon
  <2>1. B[4 * (i - 1) + k] = turns[i][k]
    BY <1>5, Zenon
  <2>2. turns[i] = EncodeGroup(c, s, i)
    BY <1>3, Zenon
  <2> QED
    BY <2>1, <2>2, Zenon
<1>9. r # 0 => \A k \in 1 .. 4 : B[4 * q + k] = EncodeTail(c, s)[k]
  BY <1>4, <1>5 DEF rest
<1>10. IsEncoding(c, s, q, r, B)
  BY <1>7, <1>8, <1>9, Zenon DEF IsEncoding
<1> QED
  BY <1>6, <1>10

\* The characters of a group and of the tail.
LEMMA GroupChars ==
    ASSUME NEW c \in Codecs, NEW s \in Seq(Octets), NEW q \in Nat, NEW r \in 0 .. 2,
           Len(s) = 3 * q + r
    PROVE  /\ \A i \in 1 .. q :
                 /\ s[3 * i - 2] \in Octets /\ s[3 * i - 1] \in Octets /\ s[3 * i] \in Octets
                 /\ EncodeGroup(c, s, i)[1] = IntToChar(c, FirstSextet(s[3 * i - 2]))
                 /\ EncodeGroup(c, s, i)[2] = IntToChar(c, SecondSextet(s[3 * i - 2], s[3 * i - 1]))
                 /\ EncodeGroup(c, s, i)[3] = IntToChar(c, ThirdSextet(s[3 * i - 1], s[3 * i]))
                 /\ EncodeGroup(c, s, i)[4] = IntToChar(c, FourthSextet(s[3 * i]))
           /\ r # 0 =>
                 /\ s[3 * q + 1] \in Octets
                 /\ EncodeTail(c, s)[1] = IntToChar(c, FirstSextet(s[3 * q + 1]))
                 /\ EncodeTail(c, s)[4] = Pad
           /\ r = 1 =>
                 /\ EncodeTail(c, s)[2] = IntToChar(c, SecondSextet(s[3 * q + 1], 0))
                 /\ EncodeTail(c, s)[3] = Pad
           /\ r = 2 =>
                 /\ s[3 * q + 2] \in Octets
                 /\ EncodeTail(c, s)[2] = IntToChar(c, SecondSextet(s[3 * q + 1], s[3 * q + 2]))
                 /\ EncodeTail(c, s)[3] = IntToChar(c, ThirdSextet(s[3 * q + 2], 0))
<1>1. ASSUME NEW i \in 1 .. q
      PROVE  /\ s[3 * i - 2] \in Octets /\ s[3 * i - 1] \in Octets /\ s[3 * i] \in Octets
             /\ EncodeGroup(c, s, i)[1] = IntToChar(c, FirstSextet(s[3 * i - 2]))
             /\ EncodeGroup(c, s, i)[2] = IntToChar(c, SecondSextet(s[3 * i - 2], s[3 * i - 1]))
             /\ EncodeGroup(c, s, i)[3] = IntToChar(c, ThirdSextet(s[3 * i - 1], s[3 * i]))
             /\ EncodeGroup(c, s, i)[4] = IntToChar(c, FourthSextet(s[3 * i]))
  <2>1. 3 * i - 2 \in 1 .. Len(s) /\ 3 * i - 1 \in 1 .. Len(s) /\ 3 * i \in 1 .. Len(s)
    OBVIOUS
  <2>2. s[3 * i - 2] \in Octets /\ s[3 * i - 1] \in Octets /\ s[3 * i] \in Octets
    BY <2>1
  <2> QED
    BY <2>2 DEF EncodeGroup
<1>2. CASE r = 0
  BY <1>1, <1>2
<1>3. CASE r = 1
  <2>1. Len(s) = 3 * q + 1 /\ Len(s) % 3 = 1 /\ 3 * q + 1 \in 1 .. Len(s)
    BY <1>3
  <2>2. EncodeTail(c, s) = <<IntToChar(c, FirstSextet(s[3 * q + 1])),
                             IntToChar(c, SecondSextet(s[3 * q + 1], 0)), Pad, Pad>>
    BY <2>1 DEF EncodeTail
  <2>3. s[3 * q + 1] \in Octets
    BY <2>1
  <2> QED
    BY <1>1, <1>3, <2>2, <2>3
<1>4. CASE r = 2
  <2>1. /\ Len(s) = 3 * q + 2 /\ Len(s) - 1 = 3 * q + 1 /\ Len(s) % 3 = 2
        /\ 3 * q + 1 \in 1 .. Len(s) /\ 3 * q + 2 \in 1 .. Len(s)
    BY <1>4
  <2>2. EncodeTail(c, s) = <<IntToChar(c, FirstSextet(s[3 * q + 1])),
                             IntToChar(c, SecondSextet(s[3 * q + 1], s[3 * q + 2])),
                             IntToChar(c, ThirdSextet(s[3 * q + 2], 0)), Pad>>
    BY <2>1 DEF EncodeTail
  <2>3. s[3 * q + 1] \in Octets /\ s[3 * q + 2] \in Octets
    BY <2>1
  <2> QED
    BY <1>1, <1>4, <2>2, <2>3
<1> QED
  BY <1>2, <1>3, <1>4

\* Decode finds a value for each character of group i of the text, and takes its
\* three bytes back.
GroupIsBack(c, s, t, i) ==
    /\ \A k \in 1 .. 4 : CharToInt(c, t[4 * (i - 1) + k]) \in 0 .. 63
    /\ t[4 * (i - 1) + 4] # Pad
    /\ DecodeGroup(c, t, i) = <<s[3 * i - 2], s[3 * i - 1], s[3 * i]>>

\* It does for a text of Encode.
LEMMA GroupValues ==
    ASSUME NEW c \in Codecs, NEW s \in Seq(Octets), NEW q \in Nat, NEW r \in 0 .. 2,
           Len(s) = 3 * q + r, NEW t, t = Base64_Encode(c, s), NEW i \in 1 .. q
    PROVE  GroupIsBack(c, s, t, i)
<1> DEFINE e == EncodeGroup(c, s, i)
           a == s[3 * i - 2]
           b == s[3 * i - 1]
           d == s[3 * i]
<1>1. /\ a \in Octets /\ b \in Octets /\ d \in Octets
      /\ e[1] = IntToChar(c, FirstSextet(a))
      /\ e[2] = IntToChar(c, SecondSextet(a, b))
      /\ e[3] = IntToChar(c, ThirdSextet(b, d))
      /\ e[4] = IntToChar(c, FourthSextet(d))
  BY GroupChars, Zenon
<1>2. \A k \in 1 .. 4 : t[4 * (i - 1) + k] = e[k]
  <2>1. IsEncoding(c, s, q, r, t)
    BY Encoded, Zenon
  <2> QED
    BY <2>1, Zenon DEF IsEncoding
<1> DEFINE i1 == FirstSextet(a)
           i2 == SecondSextet(a, b)
           i3 == ThirdSextet(b, d)
           i4 == FourthSextet(d)
<1>3. /\ i1 \in 0 .. 63 /\ i2 \in 0 .. 63 /\ i3 \in 0 .. 63 /\ i4 \in 0 .. 63
      /\ Byte(i1 * 4 + i2 \div 16) = a
      /\ Byte(i2 * 16 + i3 \div 4) = b
      /\ Byte(i3 * 64 + i4) = d
  <2> HIDE DEF a, b, d
  <2>1. a \in 0 .. 255 /\ b \in 0 .. 255 /\ d \in 0 .. 255
    BY <1>1 DEF Octets
  <2>2. SextetsFit(a, b, d)
    BY <2>1, SextetsForth, Zenon
  <2> QED
    BY <2>2, Zenon DEF SextetsFit
<1> DEFINE x == 4 * (i - 1)
<1> HIDE DEF a, b, d, e, i1, i2, i3, i4, x
<1>4. t[x + 1] = e[1] /\ t[x + 2] = e[2] /\ t[x + 3] = e[3] /\ t[x + 4] = e[4]
  BY <1>2 DEF x
<1>5. CharToInt(c, t[x + 1]) = i1
  <2>1. t[x + 1] = IntToChar(c, i1)
    BY <1>1, <1>4 DEF i1
  <2>2. CharToInt(c, IntToChar(c, i1)) = i1
    BY <1>3, TableForth, Zenon
  <2> QED
    BY <2>1, <2>2, Zenon
<1>6. CharToInt(c, t[x + 2]) = i2
  <2>1. t[x + 2] = IntToChar(c, i2)
    BY <1>1, <1>4 DEF i2
  <2>2. CharToInt(c, IntToChar(c, i2)) = i2
    BY <1>3, TableForth, Zenon
  <2> QED
    BY <2>1, <2>2, Zenon
<1>7. CharToInt(c, t[x + 3]) = i3
  <2>1. t[x + 3] = IntToChar(c, i3)
    BY <1>1, <1>4 DEF i3
  <2>2. CharToInt(c, IntToChar(c, i3)) = i3
    BY <1>3, TableForth, Zenon
  <2> QED
    BY <2>1, <2>2, Zenon
<1>8. CharToInt(c, t[x + 4]) = i4 /\ t[x + 4] # Pad
  <2>1. t[x + 4] = IntToChar(c, i4)
    BY <1>1, <1>4 DEF i4
  <2>2. CharToInt(c, IntToChar(c, i4)) = i4 /\ IntToChar(c, i4) # Pad
    BY <1>3, TableForth, Zenon
  <2> QED
    BY <2>1, <2>2, Zenon
<1>9. DecodeGroup(c, t, i) = <<a, b, d>>
  <2>1. DecodeGroup(c, t, i) =
          <<Byte(CharToInt(c, t[x + 1]) * 4 + CharToInt(c, t[x + 2]) \div 16),
            Byte(CharToInt(c, t[x + 2]) * 16 + CharToInt(c, t[x + 3]) \div 4),
            Byte(CharToInt(c, t[x + 3]) * 64 + CharToInt(c, t[x + 4]))>>
    BY DEF DecodeGroup, x
  <2> QED
    BY <1>3, <1>5, <1>6, <1>7, <1>8, <2>1
<1>10. \A k \in 1 .. 4 : CharToInt(c, t[x + k]) \in 0 .. 63
  <2> SUFFICES ASSUME NEW k \in 1 .. 4 PROVE CharToInt(c, t[x + k]) \in 0 .. 63
    OBVIOUS
  <2>1. k = 1 \/ k = 2 \/ k = 3 \/ k = 4
    OBVIOUS
  <2> QED
    BY <1>3, <1>5, <1>6, <1>7, <1>8, <2>1
<1> QED
  BY <1>8, <1>9, <1>10 DEF a, b, d, x, GroupIsBack

\* The same for the bytes that are left.
TailIsBack(c, s, q, r, t) ==
    /\ \A k \in 1 .. r + 1 : CharToInt(c, t[4 * q + k]) # -1
    /\ t[4 * q + 4] = Pad
    /\ t[4 * q + 3] = Pad <=> r = 1
    /\ Byte(CharToInt(c, t[4 * q + 1]) * 4 + CharToInt(c, t[4 * q + 2]) \div 16) = s[3 * q + 1]
    /\ r = 2 => Byte(CharToInt(c, t[4 * q + 2]) * 16 + CharToInt(c, t[4 * q + 3]) \div 4)
                  = s[3 * q + 2]

\* It does for a text of Encode.
LEMMA TailValues ==
    ASSUME NEW c \in Codecs, NEW s \in Seq(Octets), NEW q \in Nat, NEW r \in 1 .. 2,
           Len(s) = 3 * q + r, NEW t, t = Base64_Encode(c, s)
    PROVE  TailIsBack(c, s, q, r, t)
<1> DEFINE e == EncodeTail(c, s)
           a == s[3 * q + 1]
           b == IF r = 2 THEN s[3 * q + 2] ELSE 0
           x == 4 * q
<1>0. r \in 0 .. 2 /\ r # 0
  OBVIOUS
<1>1. /\ a \in Octets
      /\ e[1] = IntToChar(c, FirstSextet(a))
      /\ e[4] = Pad
  BY <1>0, GroupChars, Zenon
<1>2. /\ b \in 0 .. 255
      /\ e[2] = IntToChar(c, SecondSextet(a, b))
      /\ r = 1 => e[3] = Pad
      /\ r = 2 => e[3] = IntToChar(c, ThirdSextet(b, 0)) /\ b = s[3 * q + 2]
  <2>1. CASE r = 1
    <3>1. e[2] = IntToChar(c, SecondSextet(a, 0)) /\ e[3] = Pad
      BY <1>0, <2>1, GroupChars, Zenon
    <3> QED
      BY <2>1, <3>1
  <2>2. CASE r = 2
    <3>1. /\ s[3 * q + 2] \in Octets
          /\ e[2] = IntToChar(c, SecondSextet(a, s[3 * q + 2]))
          /\ e[3] = IntToChar(c, ThirdSextet(s[3 * q + 2], 0))
      BY <1>0, <2>2, GroupChars, Zenon
    <3> QED
      BY <2>2, <3>1 DEF Octets
  <2> QED
    BY <2>1, <2>2
<1>3. \A k \in 1 .. 4 : t[x + k] = e[k]
  <2>1. IsEncoding(c, s, q, r, t)
    BY <1>0, Encoded, Zenon
  <2> QED
    BY <1>0, <2>1, Zenon DEF IsEncoding
<1> DEFINE i1 == FirstSextet(a)
           i2 == SecondSextet(a, b)
           i3 == ThirdSextet(b, 0)
<1> HIDE DEF a, b, e, x
<1>4. /\ i1 \in 0 .. 63 /\ i2 \in 0 .. 63 /\ i3 \in 0 .. 63
      /\ Byte(i1 * 4 + i2 \div 16) = a
      /\ Byte(i2 * 16 + i3 \div 4) = b
  <2>1. a \in 0 .. 255 /\ 0 \in 0 .. 255
    BY <1>1 DEF Octets
  <2>2. SextetsFit(a, b, 0)
    BY <1>2, <2>1, SextetsForth, Zenon
  <2> QED
    BY <2>2, Zenon DEF SextetsFit
<1> HIDE DEF i1, i2, i3
<1>5. t[x + 1] = e[1] /\ t[x + 2] = e[2] /\ t[x + 3] = e[3] /\ t[x + 4] = e[4]
  BY <1>3
<1>6. CharToInt(c, t[x + 1]) = i1
  <2>1. t[x + 1] = IntToChar(c, i1) /\ i1 \in 0 .. 63
    BY <1>1, <1>4, <1>5 DEF i1
  <2> QED
    BY <2>1, TableForth, Zenon
<1>7. CharToInt(c, t[x + 2]) = i2
  <2>1. t[x + 2] = IntToChar(c, i2) /\ i2 \in 0 .. 63
    BY <1>2, <1>4, <1>5 DEF i2
  <2> QED
    BY <2>1, TableForth, Zenon
<1>8. r = 2 => CharToInt(c, t[x + 3]) = i3 /\ t[x + 3] # Pad
  <2>1. r = 2 => t[x + 3] = IntToChar(c, i3)
    BY <1>2, <1>5 DEF i3
  <2>2. CharToInt(c, IntToChar(c, i3)) = i3 /\ IntToChar(c, i3) # Pad
    BY <1>4, TableForth, Zenon
  <2> QED
    BY <2>1, <2>2, Zenon
<1>9. -1 \notin 0 .. 63
  OBVIOUS
<1>10. /\ CharToInt(c, t[x + 1]) # -1
       /\ CharToInt(c, t[x + 2]) # -1
       /\ r = 2 => t[x + 3] # Pad /\ CharToInt(c, t[x + 3]) # -1
  BY <1>4, <1>6, <1>7, <1>8, <1>9, Zenon
<1>11. t[x + 4] = Pad /\ (r = 1 => t[x + 3] = Pad)
  BY <1>1, <1>2, <1>5, Zenon
<1>12. Byte(CharToInt(c, t[x + 1]) * 4 + CharToInt(c, t[x + 2]) \div 16) = a
  BY <1>4, <1>6, <1>7
<1>13. r = 2 => Byte(CharToInt(c, t[x + 2]) * 16 + CharToInt(c, t[x + 3]) \div 4) = s[3 * q + 2]
  BY <1>2, <1>4, <1>7, <1>8
<1>14. \A k \in 1 .. r + 1 : CharToInt(c, t[x + k]) # -1
  <2> SUFFICES ASSUME NEW k \in 1 .. r + 1 PROVE CharToInt(c, t[x + k]) # -1
    OBVIOUS
  <2>1. k = 1 \/ k = 2 \/ (k = 3 /\ r = 2)
    OBVIOUS
  <2> QED
    BY <1>10, <2>1
<1>15. t[x + 3] = Pad <=> r = 1
  BY <1>0, <1>10, <1>11
<1> QED
  BY <1>11, <1>12, <1>13, <1>14, <1>15 DEF a, x, TailIsBack

\* Decode takes back what Encode made, and accepts it.
LEMMA DecodeOfEncode ==
    ASSUME NEW c \in Codecs, NEW s \in Seq(Octets)
    PROVE  /\ Decodes(c, Base64_Encode(c, s))
           /\ Base64_Decode(c, Base64_Encode(c, s)) = s
<1> DEFINE q == Len(s) \div 3
           r == Len(s) % 3
           t == Base64_Encode(c, s)
<1>1. Len(s) \in Nat /\ q \in Nat /\ r \in 0 .. 2 /\ Len(s) = 3 * q + r
  <2> DEFINE n == Len(s)
  <2>1. n \in Nat
    OBVIOUS
  <2> HIDE DEF n
  <2>2. n \div 3 \in Nat /\ n % 3 \in 0 .. 2 /\ n = 3 * (n \div 3) + (n % 3)
    BY <2>1
  <2> QED
    BY <2>1, <2>2 DEF n
<1> HIDE DEF q, r
<1>2. IsEncoding(c, s, q, r, t)
  BY <1>1, Encoded, Zenon
<1>3. t = Base64_Encode(c, s)
  OBVIOUS
<1> HIDE DEF t
<1>4. Len(t) = 4 * q + (IF r = 0 THEN 0 ELSE 4) /\ t = [p \in 1 .. 4 * q + (IF r = 0 THEN 0 ELSE 4) |-> t[p]]
  BY <1>2, Zenon DEF IsEncoding
<1>5. \A i \in 1 .. q : GroupIsBack(c, s, t, i)
  BY <1>1, <1>3, GroupValues, Zenon
<1>6. r # 0 => TailIsBack(c, s, q, r, t)
  <2> SUFFICES ASSUME r # 0 PROVE TailIsBack(c, s, q, r, t)
    BY Zenon
  <2>1. r \in 1 .. 2
    BY <1>1
  <2> QED
    BY <1>1, <1>3, <2>1, TailValues, Zenon
<1>7. Tail64(t) = IF r = 0 THEN 0 ELSE 3 - r
  <2>1. CASE r = 0 /\ q = 0
    <3>1. t = <<>>
      BY <1>4, <2>1
    <3> QED
      BY <2>1, <3>1 DEF Tail64
  <2>2. CASE r = 0 /\ q # 0
    <3>1. q \in 1 .. q /\ 4 * (q - 1) + 4 = Len(t)
      BY <1>1, <1>4, <2>2
    <3>2. t[4 * (q - 1) + 4] # Pad
      BY <1>5, <3>1, Zenon DEF GroupIsBack
    <3>3. Last(t) # Pad
      BY <3>1, <3>2 DEF Last
    <3> QED
      BY <2>2, <3>3 DEF Tail64
  <2>3. CASE r # 0
    <3>1. Len(t) = 4 * q + 4 /\ Len(t) - 1 = 4 * q + 3
      BY <1>1, <1>4, <2>3
    <3>0. t[4 * q + 4] = Pad /\ (t[4 * q + 3] = Pad <=> r = 1)
      BY <1>6, <2>3, Zenon DEF TailIsBack
    <3>2. Last(t) = Pad /\ t # <<>>
      BY <1>1, <3>0, <3>1 DEF Last
    <3>3. Tail64(t) = IF t[4 * q + 3] = Pad THEN 2 ELSE 1
      BY <3>1, <3>2 DEF Tail64
    <3> QED
      BY <1>1, <2>3, <3>0, <3>3
  <2> QED
    BY <2>1, <2>2, <2>3
<1>8. Decodes(c, t)
  <2>1. Len(t) % 4 = 0
    BY <1>1, <1>4
  <2>2. ASSUME NEW p \in 1 .. Len(t) - Tail64(t) PROVE CharToInt(c, t[p]) # -1
    <3>0. p \in Nat /\ p >= 1 /\ p <= 4 * q + (IF r = 0 THEN 0 ELSE r + 1)
      BY <1>1, <1>4, <1>7
    <3>1. CASE p <= 4 * q
      <4> DEFINE i == (p - 1) \div 4 + 1
                 k == ((p - 1) % 4) + 1
      <4>1. i \in 1 .. q /\ k \in 1 .. 4 /\ p = 4 * (i - 1) + k
        BY <1>1, <3>0, <3>1
      <4> HIDE DEF i, k
      <4>2. CharToInt(c, t[p]) \in 0 .. 63
        BY <1>5, <4>1, Zenon DEF GroupIsBack
      <4>3. -1 \notin 0 .. 63
        OBVIOUS
      <4> QED
        BY <4>2, <4>3, Zenon
    <3>2. CASE p > 4 * q
      <4> DEFINE k == p - 4 * q
      <4>1. r # 0 /\ k \in 1 .. r + 1 /\ p = 4 * q + k
        BY <1>1, <3>0, <3>2
      <4> HIDE DEF k
      <4> QED
        BY <1>6, <4>1, Zenon DEF TailIsBack
    <3> QED
      BY <1>1, <3>0, <3>1, <3>2
  <2> QED
    BY <2>1, <2>2 DEF Decodes
<1> DEFINE turns == [i \in 1 .. q |-> DecodeGroup(c, t, i)]
           rest == DecodeTail(c, t)
           D == Base64_Decode(c, t)
<1>9. Len(rest) = r /\ \A k \in 1 .. r : rest[k] = s[3 * q + k]
  <2>1. CASE r = 0
    BY <1>7, <2>1 DEF DecodeTail
  <2> DEFINE x == Len(t) - 4
  <2>2. r # 0 => x = 4 * q
    BY <1>1, <1>4
  <2> HIDE DEF x
  <2>3. CASE r = 1
    <3>1. rest = <<Byte(CharToInt(c, t[x + 1]) * 4 + CharToInt(c, t[x + 2]) \div 16)>>
      BY <1>7, <2>3 DEF DecodeTail, x
    <3>2. rest = <<s[3 * q + 1]>>
      BY <1>6, <2>2, <2>3, <3>1 DEF TailIsBack
    <3> HIDE DEF rest
    <3> QED
      BY <2>3, <3>2
  <2>4. CASE r = 2
    <3>1. rest = <<Byte(CharToInt(c, t[x + 1]) * 4 + CharToInt(c, t[x + 2]) \div 16),
                   Byte(CharToInt(c, t[x + 2]) * 16 + CharToInt(c, t[x + 3]) \div 4)>>
      BY <1>7, <2>4 DEF DecodeTail, x
    <3>2. rest = <<s[3 * q + 1], s[3 * q + 2]>>
      BY <1>6, <2>2, <2>4, <3>1 DEF TailIsBack
    <3> HIDE DEF rest
    <3> QED
      BY <2>4, <3>2
  <2> QED
    BY <1>1, <2>1, <2>3, <2>4
<1>10. Holds(D, turns, q, 3, rest)
  <2>1. (IF Tail64(t) = 0 THEN Len(t) \div 4 ELSE Len(t) \div 4 - 1) = q
    BY <1>1, <1>4, <1>7
  <2>2. D = Buffer(turns, 3, rest)
    BY <2>1 DEF Base64_Decode
  <2>3. Len(turns) = q /\ Len(rest) \in Nat /\ 3 \in {3, 4}
    BY <1>1, <1>9
  <2> HIDE DEF D, turns, rest
  <2> QED
    BY <1>1, <2>2, <2>3, BufferHolds, Zenon
<1>11. \A i \in 1 .. q : turns[i] = <<s[3 * i - 2], s[3 * i - 1], s[3 * i]>>
  BY <1>5 DEF GroupIsBack
<1> HIDE DEF D, turns, rest
<1>12. D = [p \in 1 .. 3 * q + r |-> D[p]]
  BY <1>9, <1>10 DEF Holds
<1>13. ASSUME NEW p \in 1 .. 3 * q + r PROVE D[p] = s[p]
  <2>1. CASE p <= 3 * q
    <3> DEFINE i == (p - 1) \div 3 + 1
               k == ((p - 1) % 3) + 1
    <3>1. i \in 1 .. q /\ k \in 1 .. 3 /\ p = 3 * (i - 1) + k
      BY <1>1, <2>1
    <3> HIDE DEF i, k
    <3>2. D[3 * (i - 1) + k] = turns[i][k]
      BY <1>10, <3>1, Zenon DEF Holds
    <3>3. turns[i] = <<s[3 * i - 2], s[3 * i - 1], s[3 * i]>>
      BY <1>11, <3>1
    <3>4. /\ k = 1 => 3 * (i - 1) + k = 3 * i - 2
          /\ k = 2 => 3 * (i - 1) + k = 3 * i - 1
          /\ k = 3 => 3 * (i - 1) + k = 3 * i
      BY <3>1
    <3>5. k = 1 \/ k = 2 \/ k = 3
      BY <3>1
    <3> QED
      BY <3>1, <3>2, <3>3, <3>4, <3>5
  <2>2. CASE p > 3 * q
    <3> DEFINE k == p - 3 * q
    <3>1. k \in 1 .. r /\ p = 3 * q + k
      BY <1>1, <2>2
    <3> HIDE DEF k
    <3>2. D[3 * q + k] = rest[k]
      BY <1>9, <1>10, <3>1, Zenon DEF Holds
    <3> QED
      BY <1>9, <3>1, <3>2
  <2> QED
    BY <1>1, <2>1, <2>2
<1>14. s = [p \in 1 .. 3 * q + r |-> s[p]]
  BY <1>1
<1>15. D = s
  BY <1>12, <1>13, <1>14
<1> QED
  BY <1>3, <1>8, <1>15 DEF D

\* The bytes of a text that Decode accepts, by the values v of its characters: g
\* groups and r bytes of a last one.
IsDecoding(D, v, g, r) ==
    /\ D \in Seq(Octets)
    /\ Len(D) = 3 * g + r
    /\ \A i \in 1 .. g :
          /\ D[3 * i - 2] = Byte(v[4 * (i - 1) + 1] * 4 + v[4 * (i - 1) + 2] \div 16)
          /\ D[3 * i - 1] = Byte(v[4 * (i - 1) + 2] * 16 + v[4 * (i - 1) + 3] \div 4)
          /\ D[3 * i] = Byte(v[4 * (i - 1) + 3] * 64 + v[4 * (i - 1) + 4])
    /\ r # 0 => D[3 * g + 1] = Byte(v[4 * g + 1] * 4 + v[4 * g + 2] \div 16)
    /\ r = 2 => D[3 * g + 2] = Byte(v[4 * g + 2] * 16 + v[4 * g + 3] \div 4)

\* The n values after the first x are those of characters, and e begins with these.
AreSextets(v, x, n) == \A k \in 1 .. n : v[x + k] \in 0 .. 63
AreChars(c, e, v, x, n) == \A k \in 1 .. n : e[k] = IntToChar(c, v[x + k])

\* The characters of group i come back.
LEMMA GroupIsForth ==
    ASSUME NEW c \in Codecs, NEW v, NEW g \in Nat, NEW r \in 0 .. 2, NEW D, IsDecoding(D, v, g, r),
           NEW i \in 1 .. g, AreSextets(v, 4 * (i - 1), 4)
    PROVE  AreChars(c, EncodeGroup(c, D, i), v, 4 * (i - 1), 4)
<1> DEFINE e == EncodeGroup(c, D, i)
           a == D[3 * i - 2]
           b == D[3 * i - 1]
           d == D[3 * i]
           x == 4 * (i - 1)
           v1 == v[x + 1]
           v2 == v[x + 2]
           v3 == v[x + 3]
           v4 == v[x + 4]
<1>0. D \in Seq(Octets) /\ Len(D) = 3 * g + r
  BY Zenon DEF IsDecoding
<1>1. /\ e[1] = IntToChar(c, FirstSextet(a))
      /\ e[2] = IntToChar(c, SecondSextet(a, b))
      /\ e[3] = IntToChar(c, ThirdSextet(b, d))
      /\ e[4] = IntToChar(c, FourthSextet(d))
  BY <1>0, GroupChars, Zenon
<1>2. /\ a = Byte(v1 * 4 + v2 \div 16)
      /\ b = Byte(v2 * 16 + v3 \div 4)
      /\ d = Byte(v3 * 64 + v4)
  BY Zenon DEF IsDecoding
<1>3. v1 \in 0 .. 63 /\ v2 \in 0 .. 63 /\ v3 \in 0 .. 63 /\ v4 \in 0 .. 63
  BY DEF AreSextets
<1> HIDE DEF v1, v2, v3, v4, a, b, d, e, x
<1>4. BytesFit(v1, v2, v3, v4)
  BY <1>3, SextetsBack, Zenon
<1>5. FirstSextet(a) = v1 /\ SecondSextet(a, b) = v2 /\ ThirdSextet(b, d) = v3 /\ FourthSextet(d) = v4
  BY <1>2, <1>4, Zenon DEF BytesFit
<1>6. /\ e[1] = IntToChar(c, v1) /\ e[2] = IntToChar(c, v2)
      /\ e[3] = IntToChar(c, v3) /\ e[4] = IntToChar(c, v4)
  BY <1>1, <1>5, Zenon
<1>7. ASSUME NEW k \in 1 .. 4 PROVE e[k] = IntToChar(c, v[x + k])
  <2>1. k = 1 \/ k = 2 \/ k = 3 \/ k = 4
    OBVIOUS
  <2> QED
    BY <1>6, <2>1 DEF v1, v2, v3, v4
<1> QED
  BY <1>7 DEF e, x, AreChars

\* The characters of the last group come back if they have no bits that no byte uses.
LEMMA TailIsForth ==
    ASSUME NEW c \in Codecs, NEW v, NEW g \in Nat, NEW r \in 1 .. 2, NEW D, IsDecoding(D, v, g, r),
           AreSextets(v, 4 * g, r + 1), v[4 * g + r + 1] % (IF r = 2 THEN 4 ELSE 16) = 0
    PROVE  /\ AreChars(c, EncodeTail(c, D), v, 4 * g, r + 1)
           /\ \A k \in r + 2 .. 4 : EncodeTail(c, D)[k] = Pad
<1> DEFINE e == EncodeTail(c, D)
           a == D[3 * g + 1]
           b == D[3 * g + 2]
           x == 4 * g
           v1 == v[x + 1]
           v2 == v[x + 2]
           v3 == v[x + 3]
<1>0. D \in Seq(Octets) /\ Len(D) = 3 * g + r
  BY Zenon DEF IsDecoding
<1>1. r \in 0 .. 2 /\ r # 0 /\ 0 \in 0 .. 63
  OBVIOUS
<1>2. e[1] = IntToChar(c, FirstSextet(a)) /\ e[4] = Pad
  BY <1>0, <1>1, GroupChars, Zenon
<1>3. a = Byte(v1 * 4 + v2 \div 16)
  BY <1>1, Zenon DEF IsDecoding
<1>4. v1 \in 0 .. 63 /\ v2 \in 0 .. 63
  BY DEF AreSextets
<1>5. CASE r = 1
  <2>1. e[2] = IntToChar(c, SecondSextet(a, 0)) /\ e[3] = Pad
    BY <1>0, <1>1, <1>5, GroupChars, Zenon
  <2>2. v2 % 16 = 0
    BY <1>5
  <2> HIDE DEF v1, v2, v3, a, b, e, x
  <2>3. BytesFit(v1, v2, 0, 0)
    BY <1>1, <1>4, SextetsBack, Zenon
  <2>4. FirstSextet(a) = v1 /\ SecondSextet(a, 0) = v2
    BY <1>3, <2>2, <2>3, Zenon DEF BytesFit
  <2>5. e[1] = IntToChar(c, v1) /\ e[2] = IntToChar(c, v2)
    BY <1>2, <2>1, <2>4, Zenon
  <2>6. ASSUME NEW k \in 1 .. r + 1 PROVE e[k] = IntToChar(c, v[x + k])
    <3>1. k = 1 \/ k = 2
      BY <1>5
    <3> QED
      BY <2>5, <3>1 DEF v1, v2
  <2>7. ASSUME NEW k \in r + 2 .. 4 PROVE e[k] = Pad
    <3>1. k = 3 \/ k = 4
      BY <1>5
    <3> QED
      BY <1>2, <2>1, <3>1
  <2> QED
    BY <2>6, <2>7 DEF e, x, AreChars
<1>6. CASE r = 2
  <2>1. e[2] = IntToChar(c, SecondSextet(a, b)) /\ e[3] = IntToChar(c, ThirdSextet(b, 0))
    BY <1>0, <1>1, <1>6, GroupChars, Zenon
  <2>2. v3 % 4 = 0 /\ v3 \in 0 .. 63
    BY <1>6 DEF AreSextets
  <2>3. b = Byte(v2 * 16 + v3 \div 4)
    BY <1>6, Zenon DEF IsDecoding
  <2> HIDE DEF v1, v2, v3, a, b, e, x
  <2>4. BytesFit(v1, v2, v3, 0)
    BY <1>1, <1>4, <2>2, SextetsBack, Zenon
  <2>5. FirstSextet(a) = v1 /\ SecondSextet(a, b) = v2 /\ ThirdSextet(b, 0) = v3
    BY <1>3, <2>2, <2>3, <2>4, Zenon DEF BytesFit
  <2>6. e[1] = IntToChar(c, v1) /\ e[2] = IntToChar(c, v2) /\ e[3] = IntToChar(c, v3)
    BY <1>2, <2>1, <2>5, Zenon
  <2>7. ASSUME NEW k \in 1 .. r + 1 PROVE e[k] = IntToChar(c, v[x + k])
    <3>1. k = 1 \/ k = 2 \/ k = 3
      BY <1>6
    <3> QED
      BY <2>6, <3>1 DEF v1, v2, v3
  <2>8. ASSUME NEW k \in r + 2 .. 4 PROVE e[k] = Pad
    <3>1. k = 4
      BY <1>6
    <3> QED
      BY <1>2, <3>1
  <2> QED
    BY <2>7, <2>8 DEF e, x, AreChars
<1> QED
  BY <1>5, <1>6

\* A text that Decode accepts: g groups of characters of the alphabet with the values
\* v, and a last group with r + 1 of them and padding if r is not zero.
IsAccepted(c, t, v, g, r) ==
    /\ Len(t) = 4 * g + (IF r = 0 THEN 0 ELSE 4)
    /\ Tail64(t) = IF r = 0 THEN 0 ELSE 3 - r
    /\ \A p \in 1 .. 4 * g + (IF r = 0 THEN 0 ELSE r + 1) :
          v[p] = CharToInt(c, t[p]) /\ v[p] \in 0 .. 63 /\ IntToChar(c, v[p]) = t[p]
    /\ r # 0 => \A k \in r + 2 .. 4 : t[4 * g + k] = Pad

\* Decode accepts no other text.
LEMMA Accepted ==
    ASSUME NEW c \in Codecs, NEW t \in Seq(Octets), Decodes(c, t)
    PROVE  \E g \in Nat, r \in 0 .. 2 : IsAccepted(c, t, [p \in 1 .. Len(t) |-> CharToInt(c, t[p])], g, r)
<1> DEFINE n == Len(t)
           v == [p \in 1 .. n |-> CharToInt(c, t[p])]
           z == Tail64(t)
<1>1. n \in Nat /\ n % 4 = 0
  BY DEF Decodes
<1>2. z \in 0 .. 2
  BY DEF Tail64
<1>3. z # 0 => n >= 4 /\ t[n] = Pad /\ (z = 2 <=> t[n - 1] = Pad)
  <2> SUFFICES ASSUME z # 0 PROVE n >= 4 /\ t[n] = Pad /\ (z = 2 <=> t[n - 1] = Pad)
    OBVIOUS
  <2>1. t # <<>> /\ Last(t) = Pad
    BY DEF Tail64
  <2>2. n # 0
    BY <2>1
  <2>3. t[n] = Pad
    BY <2>1 DEF Last
  <2>4. z = 2 <=> t[n - 1] = Pad
    BY <2>1 DEF Tail64
  <2> HIDE DEF n, z
  <2>5. n >= 4
    BY <1>1, <2>2
  <2> QED
    BY <2>3, <2>4, <2>5, Zenon
<1>4. ASSUME NEW p \in 1 .. n - z
      PROVE  v[p] = CharToInt(c, t[p]) /\ v[p] \in 0 .. 63 /\ IntToChar(c, v[p]) = t[p]
  <2>1. CharToInt(c, t[p]) # -1
    BY DEF Decodes
  <2>2. p \in 1 .. n
    <3> HIDE DEF n, z
    <3> QED
      BY <1>1, <1>2
  <2>3. t[p] \in 0 .. 255
    <3>1. t[p] \in Octets
      BY <2>2
    <3> QED
      BY <3>1 DEF Octets
  <2>4. v[p] = CharToInt(c, t[p])
    BY <2>2
  <2> HIDE DEF v
  <2> QED
    <3>1. CharToInt(c, t[p]) \in 0 .. 63 /\ IntToChar(c, CharToInt(c, t[p])) = t[p]
      BY <2>1, <2>3, TableBack, Zenon
    <3> QED
      BY <2>4, <3>1, Zenon
<1> DEFINE g == IF z = 0 THEN n \div 4 ELSE n \div 4 - 1
           r == IF z = 0 THEN 0 ELSE 3 - z
<1> HIDE DEF n, v, z
<1>5. g \in Nat /\ r \in 0 .. 2 /\ z = IF r = 0 THEN 0 ELSE 3 - r
  BY <1>1, <1>2, <1>3
<1>6. n = 4 * g + (IF r = 0 THEN 0 ELSE 4)
  BY <1>1, <1>2, <1>3
<1> HIDE DEF g, r
<1>7. 4 * g + (IF r = 0 THEN 0 ELSE r + 1) = n - z
  BY <1>5, <1>6
<1>8. r # 0 => \A k \in r + 2 .. 4 : t[4 * g + k] = Pad
  <2> SUFFICES ASSUME r # 0, NEW k \in r + 2 .. 4 PROVE t[4 * g + k] = Pad
    OBVIOUS
  <2>1. z # 0 /\ (4 * g + k = n \/ (z = 2 /\ 4 * g + k = n - 1))
    BY <1>5, <1>6
  <2> QED
    BY <1>3, <2>1
<1>9. IsAccepted(c, t, v, g, r)
  BY <1>4, <1>5, <1>6, <1>7, <1>8 DEF IsAccepted, n, z
<1> QED
  BY <1>5, <1>9 DEF v, n

\* The bytes that Decode makes of such a text.
LEMMA Decoded ==
    ASSUME NEW c \in Codecs, NEW t, NEW v, NEW g \in Nat, NEW r \in 0 .. 2, IsAccepted(c, t, v, g, r)
    PROVE  IsDecoding(Base64_Decode(c, t), v, g, r)
<1>1. /\ Len(t) = 4 * g + (IF r = 0 THEN 0 ELSE 4)
      /\ Tail64(t) = IF r = 0 THEN 0 ELSE 3 - r
      /\ \A p \in 1 .. 4 * g + (IF r = 0 THEN 0 ELSE r + 1) : v[p] = CharToInt(c, t[p]) /\ v[p] \in 0 .. 63
  BY Zenon DEF IsAccepted
<1> DEFINE turns == [i \in 1 .. g |-> DecodeGroup(c, t, i)]
           rest == DecodeTail(c, t)
           D == Base64_Decode(c, t)
<1>2. ASSUME NEW i \in 1 .. g
      PROVE  /\ turns[i] = <<Byte(v[4 * (i - 1) + 1] * 4 + v[4 * (i - 1) + 2] \div 16),
                             Byte(v[4 * (i - 1) + 2] * 16 + v[4 * (i - 1) + 3] \div 4),
                             Byte(v[4 * (i - 1) + 3] * 64 + v[4 * (i - 1) + 4])>>
             /\ turns[i][1] \in Octets /\ turns[i][2] \in Octets /\ turns[i][3] \in Octets
  <2> DEFINE x == 4 * (i - 1)
  <2>1. turns[i] = <<Byte(CharToInt(c, t[x + 1]) * 4 + CharToInt(c, t[x + 2]) \div 16),
                     Byte(CharToInt(c, t[x + 2]) * 16 + CharToInt(c, t[x + 3]) \div 4),
                     Byte(CharToInt(c, t[x + 3]) * 64 + CharToInt(c, t[x + 4]))>>
    BY DEF DecodeGroup
  <2>2. \A k \in 1 .. 4 : x + k \in 1 .. 4 * g + (IF r = 0 THEN 0 ELSE r + 1)
    OBVIOUS
  <2> HIDE DEF x
  <2>3. /\ CharToInt(c, t[x + 1]) = v[x + 1] /\ CharToInt(c, t[x + 2]) = v[x + 2]
        /\ CharToInt(c, t[x + 3]) = v[x + 3] /\ CharToInt(c, t[x + 4]) = v[x + 4]
        /\ v[x + 1] \in 0 .. 63 /\ v[x + 2] \in 0 .. 63 /\ v[x + 3] \in 0 .. 63 /\ v[x + 4] \in 0 .. 63
    <3>1. 1 \in 1 .. 4 /\ 2 \in 1 .. 4 /\ 3 \in 1 .. 4 /\ 4 \in 1 .. 4
      OBVIOUS
    <3> QED
      BY <1>1, <2>2, <3>1, Zenon
  <2>4. BytesFit(v[x + 1], v[x + 2], v[x + 3], v[x + 4])
    BY <2>3, SextetsBack, Zenon
  <2>5. turns[i] = <<Byte(v[x + 1] * 4 + v[x + 2] \div 16), Byte(v[x + 2] * 16 + v[x + 3] \div 4),
                     Byte(v[x + 3] * 64 + v[x + 4])>>
    BY <2>1, <2>3
  <2> HIDE DEF turns
  <2>6. turns[i][1] \in Octets /\ turns[i][2] \in Octets /\ turns[i][3] \in Octets
    <3>1. /\ Byte(v[x + 1] * 4 + v[x + 2] \div 16) \in Octets
          /\ Byte(v[x + 2] * 16 + v[x + 3] \div 4) \in Octets
          /\ Byte(v[x + 3] * 64 + v[x + 4]) \in Octets
      BY <2>4, Zenon DEF BytesFit, Octets
    <3> QED
      BY <2>5, <3>1
  <2> QED
    BY <2>5, <2>6 DEF x
<1>3. /\ Len(rest) = r
      /\ r # 0 => rest[1] = Byte(v[4 * g + 1] * 4 + v[4 * g + 2] \div 16)
      /\ r = 2 => rest[2] = Byte(v[4 * g + 2] * 16 + v[4 * g + 3] \div 4)
      /\ \A k \in 1 .. r : rest[k] \in Octets
  <2>1. CASE r = 0
    BY <1>1, <2>1 DEF DecodeTail
  <2> DEFINE x == Len(t) - 4
  <2>2. r # 0 => x = 4 * g
    BY <1>1
  <2>3. 0 \in 0 .. 63
    OBVIOUS
  <2> HIDE DEF x
  <2>4. r # 0 => CharToInt(c, t[x + 1]) = v[x + 1] /\ CharToInt(c, t[x + 2]) = v[x + 2]
                 /\ v[x + 1] \in 0 .. 63 /\ v[x + 2] \in 0 .. 63
    BY <1>1, <2>2
  <2>5. r = 2 => CharToInt(c, t[x + 3]) = v[x + 3] /\ v[x + 3] \in 0 .. 63
    BY <1>1, <2>2
  <2>6. CASE r = 1
    <3>1. rest = <<Byte(CharToInt(c, t[x + 1]) * 4 + CharToInt(c, t[x + 2]) \div 16)>>
      BY <1>1, <2>6 DEF DecodeTail, x
    <3> DEFINE w1 == Byte(v[x + 1] * 4 + v[x + 2] \div 16)
    <3>2. rest = <<w1>>
      BY <2>4, <2>6, <3>1
    <3>3. BytesFit(v[x + 1], v[x + 2], 0, 0)
      <4>1. v[x + 1] \in 0 .. 63 /\ v[x + 2] \in 0 .. 63
        BY <2>4, <2>6
      <4> QED
        BY <2>3, <4>1, SextetsBack, Zenon
    <3>4. w1 \in Octets
      BY <3>3, Zenon DEF BytesFit, Octets
    <3> HIDE DEF rest, w1
    <3>5. Len(rest) = 1 /\ rest[1] = w1
      BY <3>2
    <3>6. \A k \in 1 .. 1 : rest[k] \in Octets
      BY <3>4, <3>5
    <3> QED
      BY <2>2, <2>6, <3>5, <3>6 DEF w1
  <2>7. CASE r = 2
    <3>1. rest = <<Byte(CharToInt(c, t[x + 1]) * 4 + CharToInt(c, t[x + 2]) \div 16),
                   Byte(CharToInt(c, t[x + 2]) * 16 + CharToInt(c, t[x + 3]) \div 4)>>
      BY <1>1, <2>7 DEF DecodeTail, x
    <3> DEFINE w1 == Byte(v[x + 1] * 4 + v[x + 2] \div 16)
               w2 == Byte(v[x + 2] * 16 + v[x + 3] \div 4)
    <3>2. rest = <<w1, w2>>
      BY <2>4, <2>5, <2>7, <3>1
    <3>3. BytesFit(v[x + 1], v[x + 2], v[x + 3], 0)
      <4>1. v[x + 1] \in 0 .. 63 /\ v[x + 2] \in 0 .. 63 /\ v[x + 3] \in 0 .. 63
        BY <2>4, <2>5, <2>7
      <4> QED
        BY <2>3, <4>1, SextetsBack, Zenon
    <3>4. w1 \in Octets /\ w2 \in Octets
      BY <3>3, Zenon DEF BytesFit, Octets
    <3> HIDE DEF rest, w1, w2
    <3>5. Len(rest) = 2 /\ rest[1] = w1 /\ rest[2] = w2
      BY <3>2
    <3>6. \A k \in 1 .. 2 : rest[k] \in Octets
      <4>1. \A k \in 1 .. 2 : k = 1 \/ k = 2
        OBVIOUS
      <4> QED
        BY <3>4, <3>5, <4>1, Zenon
    <3> QED
      BY <2>2, <2>7, <3>5, <3>6 DEF w1, w2
  <2> QED
    BY <2>1, <2>6, <2>7
<1>4. Holds(D, turns, g, 3, rest)
  <2>1. (IF Tail64(t) = 0 THEN Len(t) \div 4 ELSE Len(t) \div 4 - 1) = g
    BY <1>1
  <2>2. D = Buffer(turns, 3, rest)
    BY <2>1 DEF Base64_Decode
  <2>3. Len(turns) = g /\ Len(rest) \in Nat /\ 3 \in {3, 4}
    BY <1>3
  <2> HIDE DEF D, turns, rest
  <2> QED
    BY <2>2, <2>3, BufferHolds, Zenon
<1> HIDE DEF D, turns, rest
<1>5. /\ D = [p \in 1 .. 3 * g + r |-> D[p]]
      /\ \A i \in 1 .. g : \A k \in 1 .. 3 : D[3 * (i - 1) + k] = turns[i][k]
      /\ \A k \in 1 .. r : D[3 * g + k] = rest[k]
  BY <1>3, <1>4, Zenon DEF Holds
<1>6. Len(D) = 3 * g + r
  BY <1>3, <1>4, Zenon DEF Holds
<1>7. ASSUME NEW p \in 1 .. 3 * g + r PROVE D[p] \in Octets
  <2>1. CASE p <= 3 * g
    <3> DEFINE i == (p - 1) \div 3 + 1
               k == ((p - 1) % 3) + 1
    <3>1. i \in 1 .. g /\ k \in 1 .. 3 /\ p = 3 * (i - 1) + k /\ (k = 1 \/ k = 2 \/ k = 3)
      BY <2>1
    <3> HIDE DEF i, k
    <3>2. D[p] = turns[i][k]
      BY <1>5, <3>1, Zenon
    <3> QED
      BY <1>2, <3>1, <3>2, Zenon
  <2>2. CASE p > 3 * g
    <3> DEFINE k == p - 3 * g
    <3>1. k \in 1 .. r /\ p = 3 * g + k
      BY <2>2
    <3> HIDE DEF k
    <3> QED
      BY <1>3, <1>5, <3>1, Zenon
  <2> QED
    BY <2>1, <2>2
<1>8. D \in Seq(Octets)
  <2>1. 3 * g + r \in Nat
    OBVIOUS
  <2> DEFINE m == 3 * g + r
  <2> HIDE DEF m
  <2>2. D \in [1 .. m -> Octets]
    BY <1>5, <1>7 DEF m
  <2> QED
    BY <2>1, <2>2 DEF m
<1>9. \A i \in 1 .. g :
          /\ D[3 * i - 2] = Byte(v[4 * (i - 1) + 1] * 4 + v[4 * (i - 1) + 2] \div 16)
          /\ D[3 * i - 1] = Byte(v[4 * (i - 1) + 2] * 16 + v[4 * (i - 1) + 3] \div 4)
          /\ D[3 * i] = Byte(v[4 * (i - 1) + 3] * 64 + v[4 * (i - 1) + 4])
  <2> SUFFICES ASSUME NEW i \in 1 .. g
               PROVE  /\ D[3 * i - 2] = Byte(v[4 * (i - 1) + 1] * 4 + v[4 * (i - 1) + 2] \div 16)
                      /\ D[3 * i - 1] = Byte(v[4 * (i - 1) + 2] * 16 + v[4 * (i - 1) + 3] \div 4)
                      /\ D[3 * i] = Byte(v[4 * (i - 1) + 3] * 64 + v[4 * (i - 1) + 4])
    OBVIOUS
  <2>1. 3 * (i - 1) + 1 = 3 * i - 2 /\ 3 * (i - 1) + 2 = 3 * i - 1 /\ 3 * (i - 1) + 3 = 3 * i
    OBVIOUS
  <2>2. D[3 * (i - 1) + 1] = turns[i][1] /\ D[3 * (i - 1) + 2] = turns[i][2] /\ D[3 * (i - 1) + 3] = turns[i][3]
    <3>1. 1 \in 1 .. 3 /\ 2 \in 1 .. 3 /\ 3 \in 1 .. 3
      OBVIOUS
    <3> QED
      BY <1>5, <3>1, Zenon
  <2> DEFINE w1 == Byte(v[4 * (i - 1) + 1] * 4 + v[4 * (i - 1) + 2] \div 16)
             w2 == Byte(v[4 * (i - 1) + 2] * 16 + v[4 * (i - 1) + 3] \div 4)
             w3 == Byte(v[4 * (i - 1) + 3] * 64 + v[4 * (i - 1) + 4])
  <2>3. turns[i] = <<w1, w2, w3>>
    BY <1>2
  <2> HIDE DEF w1, w2, w3
  <2>4. D[3 * i - 2] = w1 /\ D[3 * i - 1] = w2 /\ D[3 * i] = w3
    BY <2>1, <2>2, <2>3
  <2> QED
    BY <2>4 DEF w1, w2, w3
<1>10. /\ r # 0 => D[3 * g + 1] = Byte(v[4 * g + 1] * 4 + v[4 * g + 2] \div 16)
       /\ r = 2 => D[3 * g + 2] = Byte(v[4 * g + 2] * 16 + v[4 * g + 3] \div 4)
  <2>1. (r # 0 => 1 \in 1 .. r) /\ (r = 2 => 2 \in 1 .. r)
    OBVIOUS
  <2> QED
    BY <1>3, <1>5, <2>1, Zenon
<1> QED
  BY <1>6, <1>8, <1>9, <1>10, Zenon DEF IsDecoding, D

\* Encode makes the text of an accepted text's bytes again, unless its last
\* character has bits that no byte uses.
LEMMA EncodeOfDecode ==
    ASSUME NEW c \in Codecs, NEW t \in Seq(Octets), Decodes(c, t)
    PROVE  \/ Base64_Encode(c, Base64_Decode(c, t)) = t
           \/ /\ Tail64(t) > 0
              /\ CharToInt(c, t[Len(t) - Tail64(t)]) % (IF Tail64(t) = 1 THEN 4 ELSE 16) # 0
<1> DEFINE v == [p \in 1 .. Len(t) |-> CharToInt(c, t[p])]
           D == Base64_Decode(c, t)
           E == Base64_Encode(c, D)
<1>1. PICK g \in Nat, r \in 0 .. 2 : IsAccepted(c, t, v, g, r)
  BY Accepted, Zenon
<1> HIDE DEF v
<1>2. IsDecoding(D, v, g, r)
  BY <1>1, Decoded, Zenon
<1> HIDE DEF D
<1>3. D \in Seq(Octets) /\ Len(D) = 3 * g + r
  BY <1>2, Zenon DEF IsDecoding
<1>4. IsEncoding(c, D, g, r, E)
  BY <1>3, Encoded, Zenon
<1> HIDE DEF E
<1>5. /\ Len(t) = 4 * g + (IF r = 0 THEN 0 ELSE 4)
      /\ Tail64(t) = IF r = 0 THEN 0 ELSE 3 - r
  BY <1>1, Zenon DEF IsAccepted
<1>6. \A p \in 1 .. 4 * g + (IF r = 0 THEN 0 ELSE r + 1) :
          v[p] = CharToInt(c, t[p]) /\ v[p] \in 0 .. 63 /\ IntToChar(c, v[p]) = t[p]
  BY <1>1, Zenon DEF IsAccepted
<1>7. ASSUME NEW i \in 1 .. g, NEW k \in 1 .. 4 PROVE E[4 * (i - 1) + k] = t[4 * (i - 1) + k]
  <2>1. \A j \in 1 .. 4 : 4 * (i - 1) + j \in 1 .. 4 * g + (IF r = 0 THEN 0 ELSE r + 1)
    OBVIOUS
  <2>2. AreSextets(v, 4 * (i - 1), 4)
    BY <1>6, <2>1, Zenon DEF AreSextets
  <2>3. EncodeGroup(c, D, i)[k] = IntToChar(c, v[4 * (i - 1) + k])
    <3>1. AreChars(c, EncodeGroup(c, D, i), v, 4 * (i - 1), 4)
      BY <1>2, <2>2, GroupIsForth, Zenon
    <3> QED
      BY <3>1, Zenon DEF AreChars
  <2>4. E[4 * (i - 1) + k] = EncodeGroup(c, D, i)[k]
    BY <1>4, Zenon DEF IsEncoding
  <2>5. IntToChar(c, v[4 * (i - 1) + k]) = t[4 * (i - 1) + k]
    BY <1>6, <2>1, Zenon
  <2> QED
    BY <2>3, <2>4, <2>5, Zenon
<1> SUFFICES ASSUME Tail64(t) > 0 =>
                      CharToInt(c, t[Len(t) - Tail64(t)]) % (IF Tail64(t) = 1 THEN 4 ELSE 16) = 0
             PROVE  E = t
  BY DEF D, E
<1>8. r # 0 => \A k \in 1 .. 4 : E[4 * g + k] = t[4 * g + k]
  <2> SUFFICES ASSUME r # 0, NEW k \in 1 .. 4 PROVE E[4 * g + k] = t[4 * g + k]
    BY Zenon
  <2>1. r \in 1 .. 2
    OBVIOUS
  <2>2. \A j \in 1 .. r + 1 : 4 * g + j \in 1 .. 4 * g + (IF r = 0 THEN 0 ELSE r + 1)
    OBVIOUS
  <2>3. \A j \in 1 .. r + 1 : v[4 * g + j] \in 0 .. 63 /\ IntToChar(c, v[4 * g + j]) = t[4 * g + j]
    BY <1>6, <2>2, Zenon
  <2>4. v[4 * g + r + 1] % (IF r = 2 THEN 4 ELSE 16) = 0
    <3>1. /\ Tail64(t) > 0 /\ Len(t) - Tail64(t) = 4 * g + r + 1
          /\ (Tail64(t) = 1) = (r = 2)
      BY <1>5, <2>1
    <3>2. 4 * g + r + 1 \in 1 .. 4 * g + (IF r = 0 THEN 0 ELSE r + 1)
      OBVIOUS
    <3>3. v[4 * g + r + 1] = CharToInt(c, t[4 * g + r + 1])
      BY <1>6, <3>2, Zenon
    <3> QED
      BY <3>1, <3>3
  <2>5. /\ \A j \in 1 .. r + 1 : EncodeTail(c, D)[j] = IntToChar(c, v[4 * g + j])
        /\ \A j \in r + 2 .. 4 : EncodeTail(c, D)[j] = Pad
    <3>1. AreSextets(v, 4 * g, r + 1)
      BY <2>3, Zenon DEF AreSextets
    <3>2. /\ AreChars(c, EncodeTail(c, D), v, 4 * g, r + 1)
          /\ \A j \in r + 2 .. 4 : EncodeTail(c, D)[j] = Pad
      BY <1>2, <2>1, <2>4, <3>1, TailIsForth, Zenon
    <3> QED
      BY <3>2, Zenon DEF AreChars
  <2>6. E[4 * g + k] = EncodeTail(c, D)[k]
    BY <1>4, Zenon DEF IsEncoding
  <2>7. \A j \in r + 2 .. 4 : t[4 * g + j] = Pad
    BY <1>1, Zenon DEF IsAccepted
  <2>8. k \in 1 .. r + 1 \/ k \in r + 2 .. 4
    BY <2>1
  <2> QED
    BY <2>3, <2>5, <2>6, <2>7, <2>8, Zenon
<1> DEFINE m == 4 * g + (IF r = 0 THEN 0 ELSE 4)
<1>9. E = [p \in 1 .. m |-> E[p]]
  BY <1>4, Zenon DEF IsEncoding
<1>10. t = [p \in 1 .. m |-> t[p]]
  BY <1>5
<1>11. ASSUME NEW p \in 1 .. m PROVE E[p] = t[p]
  <2>1. CASE p <= 4 * g
    <3> DEFINE i == (p - 1) \div 4 + 1
               k == ((p - 1) % 4) + 1
    <3>1. i \in 1 .. g /\ k \in 1 .. 4 /\ p = 4 * (i - 1) + k
      BY <2>1
    <3> HIDE DEF i, k
    <3> QED
      BY <1>7, <3>1, Zenon
  <2>2. CASE p > 4 * g
    <3> DEFINE k == p - 4 * g
    <3>1. r # 0 /\ k \in 1 .. 4 /\ p = 4 * g + k
      BY <2>2
    <3> HIDE DEF k
    <3> QED
      BY <1>8, <3>1, Zenon
  <2> QED
    BY <2>1, <2>2
<1> HIDE DEF m
<1> QED
  BY <1>9, <1>10, <1>11

\* The inductive invariant: what a state of the program was made from.
Base64Inv ==
    /\ codec \in Codecs
    /\ message \in Seq(Octets)
    /\ base64Pc \in {"message", "encoded", "text", "decoded", "decodedText", "threwText"}
    /\ base64Pc = "encoded" => text = Base64_Encode(codec, message)
    /\ base64Pc \in {"text", "decodedText"} => text \in Seq(Octets)
    /\ base64Pc = "decoded" => decoded = message
    /\ base64Pc = "decodedText" => Decodes(codec, text) /\ decoded = Base64_Decode(codec, text)

\* For messages of every length and texts of every length, Decode gives back what
\* Encode made a text of, and Encode a text that Decode accepts, except for bits of
\* its last character that no byte uses.
THEOREM CodecsCorrect == Base64Spec => []CodecsAreInverse
<1>1. Base64Init => Base64Inv
  <2> SUFFICES ASSUME Base64Init PROVE Base64Inv
    OBVIOUS
  <2>1. \A S, n : n \in Nat /\ S \subseteq Octets => SeqOf(S, n) \subseteq Seq(Octets)
    BY DEF SeqOf
  <2>2. Bytes \subseteq Octets /\ TextChars \subseteq Octets /\ MaxMessage \in Nat /\ MaxText \in Nat
    BY Base64Assumption DEF Octets
  <2>3. <<>> \in Seq(Octets)
    OBVIOUS
  <2>4. codec \in Codecs
    BY DEF Base64Init, Codecs
  <2>5. CASE message \in SeqOf(Bytes, MaxMessage) /\ text = <<>> /\ base64Pc = "message"
    <3>1. message \in Seq(Octets)
      BY <2>1, <2>2, <2>5, Zenon
    <3> QED
      BY <2>4, <2>5, <3>1 DEF Base64Inv
  <2>6. CASE message = <<>> /\ text \in SeqOf(TextChars, MaxText) /\ base64Pc = "text"
    <3>1. text \in Seq(Octets)
      BY <2>1, <2>2, <2>6, Zenon
    <3> QED
      BY <2>3, <2>4, <2>6, <3>1 DEF Base64Inv
  <2> QED
    BY <2>5, <2>6 DEF Base64Init
<1>2. Base64Inv /\ [Base64Next]_base64Vars => Base64Inv'
  <2> SUFFICES ASSUME Base64Inv, [Base64Next]_base64Vars PROVE Base64Inv'
    OBVIOUS
  <2>0. codec \in Codecs /\ message \in Seq(Octets)
    BY DEF Base64Inv
  <2>1. CASE Encode
    BY <2>1 DEF Encode, Base64Inv
  <2>2. base64Pc = "encoded" => Decodes(codec, text) /\ Base64_Decode(codec, text) = message
    BY <2>0, DecodeOfEncode DEF Base64Inv
  <2>3. CASE Decode
    BY <2>2, <2>3 DEF Decode, Base64Inv
  <2>4. CASE DecodeThrows
    BY <2>2, <2>4 DEF DecodeThrows, Base64Inv
  <2>5. CASE UNCHANGED base64Vars
    BY <2>5 DEF base64Vars, Base64Inv
  <2> QED
    BY <2>1, <2>3, <2>4, <2>5 DEF Base64Next
<1>3. Base64Inv => CodecsAreInverse
  <2> SUFFICES ASSUME Base64Inv PROVE DecodeUndoesEncode /\ EncodeUndoesDecode
    BY DEF CodecsAreInverse
  <2>1. DecodeUndoesEncode
    BY DEF Base64Inv, DecodeUndoesEncode
  <2>2. EncodeUndoesDecode
    <3> SUFFICES ASSUME base64Pc = "decodedText"
                 PROVE  \/ Base64_Encode(codec, decoded) = text
                        \/ /\ Tail64(text) > 0
                           /\ CharToInt(codec, text[Len(text) - Tail64(text)])
                                % (IF Tail64(text) = 1 THEN 4 ELSE 16) # 0
      BY Zenon DEF EncodeUndoesDecode
    <3>1. /\ codec \in Codecs /\ text \in Seq(Octets) /\ Decodes(codec, text)
          /\ decoded = Base64_Decode(codec, text)
      BY DEF Base64Inv
    <3> QED
      BY <3>1, EncodeOfDecode, Zenon
  <2> QED
    BY <2>1, <2>2
<1> QED
  BY <1>1, <1>2, <1>3, PTL DEF Base64Spec
=============================================================================
