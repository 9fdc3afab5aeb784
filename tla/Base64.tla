------------------------------- MODULE Base64 -------------------------------
(***************************************************************************)
(* XTL::Base64 (utils/Base64.cpp): Encode and Decode with the common and    *)
(* the URL alphabet.  Characters and bytes are their codes.  An or of        *)
(* shifted bits that do not overlap is written as a sum, and a value that is *)
(* appended to the CharBuffer keeps its low eight bits.                      *)
(***************************************************************************)
EXTENDS Integers, Sequences, SequencesExt

CONSTANTS
    Bytes,          \* bound: the bytes of messages
    MaxMessage,     \* bound: the length of messages
    TextChars,      \* bound: the characters of texts that are decoded as they are
    MaxText         \* bound: the length of those texts

ASSUME Base64Assumption ==
    /\ Bytes \subseteq 0 .. 255 /\ TextChars \subseteq 0 .. 255
    /\ MaxMessage \in Nat /\ MaxText \in Nat

VARIABLES
    message,        \* what was encoded
    text,           \* the encoded text, or a text of someone else
    codec,          \* "common" or "url"
    decoded,        \* the decoded bytes
    base64Pc        \* "message", "encoded", "text", "decoded", "threw"

base64Vars == <<message, text, codec, decoded, base64Pc>>

Pad == 61       \* '='

\* The CharBuffer after the turns of a loop, which append size values each, and
\* what is appended after the loop.
Buffer(turns, size, rest) ==
    LET filled == size * Len(turns)
    IN  [p \in 1 .. filled + Len(rest) |->
           IF p <= filled THEN turns[(p - 1) \div size + 1][((p - 1) % size) + 1]
                          ELSE rest[p - filled]]

\* Characters 62 and 63 of the alphabets.
Special(c) == IF c = "common" THEN <<43, 47>> ELSE <<45, 95>>

\* The table INT_TO_CHAR; the index is masked with 0x3f.
IntToChar(c, n) ==
    LET i == n % 64
    IN  CASE i < 26 -> 65 + i
          [] i \in 26 .. 51 -> 97 + (i - 26)
          [] i \in 52 .. 61 -> 48 + (i - 52)
          [] OTHER -> Special(c)[i - 61]

\* The table CHAR_TO_INT; -1 makes CharToInt throw.
CharToInt(c, x) ==
    CASE x \in 65 .. 90 -> x - 65
      [] x \in 97 .. 122 -> x - 97 + 26
      [] x \in 48 .. 57 -> x - 48 + 52
      [] x = Special(c)[1] -> 62
      [] x = Special(c)[2] -> 63
      [] OTHER -> -1

-----------------------------------------------------------------------------
(* Encode.                                                                  *)

\* Mutant: the high bits of the second byte are lost.
SecondSextetShort(a, b) == (a % 4) * 16 + ((b \div 32) % 16)

\* The four sextets of three bytes.
FirstSextet(a) == a \div 4
SecondSextet(a, b) == (a % 4) * 16 + ((b \div 16) % 16)
ThirdSextet(b, c) == (b % 16) * 4 + ((c \div 64) % 4)
FourthSextet(c) == c % 64

EncodeGroup(c, s, i) ==
    LET a == s[3 * i - 2]  b == s[3 * i - 1]  d == s[3 * i]
    IN  <<IntToChar(c, FirstSextet(a)), IntToChar(c, SecondSextet(a, b)),
          IntToChar(c, ThirdSextet(b, d)), IntToChar(c, FourthSextet(d))>>

EncodeTail(c, s) ==
    LET n == Len(s)
    IN  CASE n % 3 = 0 -> <<>>
          [] n % 3 = 1 -> <<IntToChar(c, FirstSextet(s[n])), IntToChar(c, SecondSextet(s[n], 0)),
                            Pad, Pad>>
          [] n % 3 = 2 -> <<IntToChar(c, FirstSextet(s[n - 1])),
                            IntToChar(c, SecondSextet(s[n - 1], s[n])),
                            IntToChar(c, ThirdSextet(s[n], 0)), Pad>>

Base64_Encode(c, s) ==
    Buffer([i \in 1 .. Len(s) \div 3 |-> EncodeGroup(c, s, i)], 4, EncodeTail(c, s))

-----------------------------------------------------------------------------
(* Decode.                                                                  *)

\* The padding characters at the end.
Tail64(t) ==
    IF t = <<>> \/ Last(t) # Pad THEN 0 ELSE IF t[Len(t) - 1] = Pad THEN 2 ELSE 1

Byte(n) == n % 256

DecodeGroup(c, t, i) ==
    LET n(k) == CharToInt(c, t[4 * (i - 1) + k])
    IN  <<Byte(n(1) * 4 + n(2) \div 16), Byte(n(2) * 16 + n(3) \div 4), Byte(n(3) * 64 + n(4))>>

\* The bytes of the last four characters when they end with padding.
DecodeTail(c, t) ==
    LET n(k) == CharToInt(c, t[Len(t) - 4 + k])
    IN  CASE Tail64(t) = 0 -> <<>>
          [] Tail64(t) = 1 -> <<Byte(n(1) * 4 + n(2) \div 16), Byte(n(2) * 16 + n(3) \div 4)>>
          [] Tail64(t) = 2 -> <<Byte(n(1) * 4 + n(2) \div 16)>>

\* The characters that are looked up: all but the padding.
Decodes(c, t) ==
    /\ Len(t) % 4 = 0
    /\ \A i \in 1 .. Len(t) - Tail64(t) : CharToInt(c, t[i]) # -1

Base64_Decode(c, t) ==
    LET groups == IF Tail64(t) = 0 THEN Len(t) \div 4 ELSE Len(t) \div 4 - 1
    IN  Buffer([i \in 1 .. groups |-> DecodeGroup(c, t, i)], 3, DecodeTail(c, t))

-----------------------------------------------------------------------------

Base64Init ==
    /\ codec \in {"common", "url"}
    /\ decoded = <<>>
    /\ \/ /\ message \in SeqOf(Bytes, MaxMessage)
          /\ text = <<>>
          /\ base64Pc = "message"
       \/ /\ message = <<>>
          /\ text \in SeqOf(TextChars, MaxText)
          /\ base64Pc = "text"

\* Encode and EncodeUrl.
Encode ==
    /\ base64Pc = "message"
    /\ text' = Base64_Encode(codec, message)
    /\ base64Pc' = "encoded"
    /\ UNCHANGED <<message, codec, decoded>>

\* Decode and DecodeUrl.
Decode ==
    /\ base64Pc \in {"encoded", "text"}
    /\ Decodes(codec, text)
    /\ decoded' = Base64_Decode(codec, text)
    /\ base64Pc' = IF base64Pc = "encoded" THEN "decoded" ELSE "decodedText"
    /\ UNCHANGED <<message, text, codec>>

\* std::runtime_error; what was appended before it stays in the CharBuffer.
DecodeThrows ==
    /\ base64Pc \in {"encoded", "text"}
    /\ ~Decodes(codec, text)
    /\ base64Pc' = IF base64Pc = "encoded" THEN "threw" ELSE "threwText"
    /\ UNCHANGED <<message, text, codec, decoded>>

Base64Next == Encode \/ Decode \/ DecodeThrows

Base64Spec == Base64Init /\ [][Base64Next]_base64Vars

-----------------------------------------------------------------------------
(* Properties.                                                              *)

\* Decode gives back every message that Encode of the same alphabet made a text
\* of, and never refuses it, whatever its length modulo three.
DecodeUndoesEncode ==
    /\ base64Pc = "decoded" => decoded = message
    /\ base64Pc # "threw"

\* A text that Decode accepts and whose unused bits are zero is the text that
\* Encode makes of the result: no two such texts stand for one message.
EncodeUndoesDecode ==
    base64Pc = "decodedText" =>
        \/ Base64_Encode(codec, decoded) = text
        \/ /\ Tail64(text) > 0
           /\ LET last == CharToInt(codec, text[Len(text) - Tail64(text)])
              IN  last % (IF Tail64(text) = 1 THEN 4 ELSE 16) # 0

\* Encode and Decode undo each other, for both alphabets and every length; a text
\* that Decode accepts differs from Encode's only in bits that no byte uses.
CodecsAreInverse == DecodeUndoesEncode /\ EncodeUndoesDecode
=============================================================================
