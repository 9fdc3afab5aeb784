----------------------------- MODULE TextProofs -----------------------------
(***************************************************************************)
(* Proofs about the text formats, the command line and the string matcher.  *)
(*                                                                         *)
(* JsonPrinter: the invariant JsonInv says that the stack is what the text  *)
(* leaves open.  It names the place of each open bracket, so that the       *)
(* grammar, which is stated on the text alone, need only be looked at       *)
(* for the last token (GoodMore); each action appends a few tokens that are *)
(* allowed one after the other.                                             *)
(*                                                                         *)
(* IniConfig: the invariant IniInv says, for each state of the parser, how  *)
(* many lines the config and the current section already stand for.  The    *)
(* parser finds its way through a line by skipping; the property speaks of  *)
(* the first token of a line, the last header above it and the last line    *)
(* that sets a key: the lemmas show that both find the same places.         *)
(*                                                                         *)
(* ProgramOptions: the invariant OptInv says that the parser stands at an   *)
(* argument that is no value of the option before it, and that the index    *)
(* into the list, the values and the stars are what the arguments before it *)
(* call for.  The role of an argument is a function defined by recursion;   *)
(* that there is one is shown with a least counterexample (RolesExist).     *)
(*                                                                         *)
(* StringMatcher: the invariant MatcherInv gives each node its part of the  *)
(* template (NodesAt) and the stack its open brackets (OpenedOK).  The      *)
(* property finds the partner of a bracket by counting, the parser with the *)
(* stack; that an item of the stack lies below all that follow it           *)
(* (StackItem) makes them the same (TopPairs, PartnerIs).                   *)
(***************************************************************************)
EXTENDS JsonPrinter, IniConfig, ProgramOptions, StringMatcher, FiniteSetTheorems,
        NaturalsInduction, WellFoundedInduction, TLAPS

-----------------------------------------------------------------------------
(* The json printer.                                                        *)

Tokens == Literals \cup Opens \cup Closings \cup {",", ":"}

\* By how much a token changes the number of open brackets.
Turn(t) == IF t \in Opens THEN 1 ELSE IF t \in Closings THEN -1 ELSE 0

\* The places up to k that hold a token of a set.
Places(s, T, k) == {i \in 1 .. k : s[i] \in T}

\* One more place.
OneMorePlace(s, T, k) ==
    /\ Cardinality(Places(s, T, k)) \in Nat
    /\ Cardinality(Places(s, T, k + 1))
          = Cardinality(Places(s, T, k)) + (IF s[k + 1] \in T THEN 1 ELSE 0)

\* Counting the places one further.
LEMMA PlacesStep ==
    ASSUME NEW s, NEW T, NEW k \in Nat
    PROVE  OneMorePlace(s, T, k)
<1> DEFINE places == Places(s, T, k)
           more == Places(s, T, k + 1)
<1>1. IsFiniteSet(1 .. k)
  BY FS_Interval
<1>2. IsFiniteSet(places)
  BY <1>1, FS_Subset, Zenon DEF Places
<1>3. Cardinality(places) \in Nat
  BY <1>2, FS_CardinalityType, Zenon
<1>4. CASE s[k + 1] \in T
  <2>1. more = places \cup {k + 1} /\ k + 1 \notin places
    BY <1>4 DEF Places
  <2>2. Cardinality(places \cup {k + 1}) = Cardinality(places) + 1
    BY <2>1, <1>2, FS_AddElement
  <2> QED
    BY <2>1, <2>2, <1>3, <1>4 DEF OneMorePlace
<1>5. CASE s[k + 1] \notin T
  <2>1. more = places
    BY <1>5 DEF Places
  <2> QED
    BY <2>1, <1>3, <1>5 DEF OneMorePlace
<1> QED
  BY <1>4, <1>5

\* Depth goes up and down with each bracket.
LEMMA DepthStep ==
    ASSUME NEW s, NEW k \in Nat
    PROVE  Depth(s, k) \in Int /\ Depth(s, k + 1) = Depth(s, k) + Turn(s[k + 1])
<1>1. /\ Cardinality(Places(s, Opens, k)) \in Nat
      /\ Cardinality(Places(s, Opens, k + 1))
            = Cardinality(Places(s, Opens, k)) + (IF s[k + 1] \in Opens THEN 1 ELSE 0)
  <2>1. OneMorePlace(s, Opens, k)
    BY PlacesStep, Zenon
  <2> QED
    BY <2>1 DEF OneMorePlace
<1>2. /\ Cardinality(Places(s, Closings, k)) \in Nat
      /\ Cardinality(Places(s, Closings, k + 1))
            = Cardinality(Places(s, Closings, k)) + (IF s[k + 1] \in Closings THEN 1 ELSE 0)
  <2>1. OneMorePlace(s, Closings, k)
    BY PlacesStep, Zenon
  <2> QED
    BY <2>1 DEF OneMorePlace
<1>3. Depth(s, k) = Cardinality(Places(s, Opens, k)) - Cardinality(Places(s, Closings, k))
  BY DEF Depth, Places
<1>4. Depth(s, k + 1) = Cardinality(Places(s, Opens, k + 1)) - Cardinality(Places(s, Closings, k + 1))
  BY DEF Depth, Places
<1>5. ~(s[k + 1] \in Opens /\ s[k + 1] \in Closings)
  BY DEF Opens, Closings
<1> QED
  BY <1>1, <1>2, <1>3, <1>4, <1>5 DEF Turn

\* At the beginning nothing is open.
LEMMA DepthZero == ASSUME NEW s PROVE Depth(s, 0) = 0
<1>1. {i \in 1 .. 0 : s[i] \in Opens} = {} /\ {i \in 1 .. 0 : s[i] \in Closings} = {}
  OBVIOUS
<1>2. Cardinality({}) = 0
  BY FS_EmptySet
<1> QED
  BY <1>1, <1>2 DEF Depth

\* A token at the end changes no depth before it.
LEMMA DepthOfMore ==
    ASSUME NEW s \in Seq(Tokens), NEW t \in Tokens, NEW k \in 0 .. Len(s)
    PROVE  Depth(Append(s, t), k) = Depth(s, k)
<1>1. \A i \in 1 .. k : Append(s, t)[i] = s[i]
  OBVIOUS
<1>2. {i \in 1 .. k : Append(s, t)[i] \in Opens} = {i \in 1 .. k : s[i] \in Opens}
  BY <1>1
<1>3. {i \in 1 .. k : Append(s, t)[i] \in Closings} = {i \in 1 .. k : s[i] \in Closings}
  BY <1>1
<1> QED
  BY <1>2, <1>3 DEF Depth

\* The brackets that token k may stand in.
Candidates(s, k) ==
    {j \in 1 .. k - 1 : s[j] \in Opens /\ \A m \in j .. k - 1 : Depth(s, m) >= Depth(s, j)}

\* A token at the end changes no bracket around a token before it, nor around itself.
LEMMA AroundOfMore ==
    ASSUME NEW s \in Seq(Tokens), NEW t \in Tokens, NEW k \in 1 .. Len(s) + 1
    PROVE  Around(Append(s, t), k) = Around(s, k)
<1> DEFINE r == Append(s, t)
<1>1. \A m \in 1 .. k - 1 : r[m] = s[m]
  OBVIOUS
<1>2. \A m \in 1 .. k - 1 : Depth(r, m) = Depth(s, m)
  BY DepthOfMore
<1> HIDE DEF r
<1>3. Candidates(r, k) = Candidates(s, k)
  BY <1>1, <1>2 DEF Candidates
<1> QED
  BY <1>3 DEF Around, Candidates, r

\* The brackets that are open after a text, outermost first, by their places b.
Brackets(s, b) ==
    /\ b \in Seq(1 .. Len(s))
    /\ Depth(s, Len(s)) = Len(b)
    /\ \A m \in 0 .. Len(s) : Depth(s, m) >= 0
    /\ \A i \in 1 .. Len(b) :
         /\ s[b[i]] \in Opens
         /\ Depth(s, b[i]) = i
         /\ \A m \in b[i] .. Len(s) : Depth(s, m) >= i

\* The next token stands in the last of them.
LEMMA AroundNext ==
    ASSUME NEW s \in Seq(Tokens), NEW b, Brackets(s, b)
    PROVE  Around(s, Len(s) + 1) = IF b = <<>> THEN 0 ELSE b[Len(b)]
<1> DEFINE n == Len(s)
           C == Candidates(s, n + 1)
<1>0. n \in Nat /\ Len(b) \in Nat /\ (b = <<>> <=> Len(b) = 0)
  BY DEF Brackets
<1>a. \A m \in 0 .. n : Depth(s, m) \in Int
  BY DepthStep
<1>1. \A j \in C : j \in 1 .. n /\ s[j] \in Opens /\ Depth(s, n) >= Depth(s, j)
  BY <1>0 DEF Candidates
<1>2. \A j \in C : Depth(s, j) = Depth(s, j - 1) + 1
  <2> SUFFICES ASSUME NEW j \in C PROVE Depth(s, j) = Depth(s, j - 1) + 1
    OBVIOUS
  <2>1. j - 1 \in Nat /\ (j - 1) + 1 = j /\ s[j] \in Opens
    BY <1>1, <1>0
  <2>2. Depth(s, (j - 1) + 1) = Depth(s, j - 1) + Turn(s[(j - 1) + 1])
    BY <2>1, DepthStep, Zenon
  <2> QED
    BY <2>1, <2>2 DEF Turn
<1>3. Around(s, n + 1) = IF C = {} THEN 0 ELSE Max(C)
  BY <1>0 DEF Around, Candidates
<1>4. CASE b = <<>>
  <2>1. C = {}
    <3> SUFFICES ASSUME NEW j \in C PROVE FALSE
      OBVIOUS
    <3>1. Depth(s, j) <= 0
      BY <1>1, <1>4, <1>a, <1>0 DEF Brackets
    <3>2. Depth(s, j - 1) >= 0
      BY <1>1, <1>0 DEF Brackets
    <3> QED
      BY <3>1, <3>2, <1>2, <1>1, <1>a
  <2> QED
    BY <2>1, <1>3, <1>4
<1>5. CASE b # <<>>
  <2> DEFINE l == b[Len(b)]
  <2>1. l \in 1 .. n /\ s[l] \in Opens /\ Depth(s, l) = Len(b) /\ \A m \in l .. n : Depth(s, m) >= Len(b)
    BY <1>0, <1>5 DEF Brackets
  <2>2. l \in C
    BY <2>1, <1>0 DEF Candidates
  <2>3. \A j \in C : j <= l
    <3> SUFFICES ASSUME NEW j \in C, ~(j <= l) PROVE FALSE
      OBVIOUS
    <3>1. j \in 1 .. n /\ j - 1 \in l .. n
      BY <1>1, <1>0, <2>1
    <3>2. Depth(s, j - 1) >= Len(b)
      BY <3>1, <2>1
    <3>3. Depth(s, j) <= Len(b)
      BY <1>1, <1>a, <1>0 DEF Brackets
    <3> QED
      BY <3>1, <3>2, <3>3, <1>2, <1>a, <1>0, <2>1
  <2> HIDE DEF l
  <2>4. C \subseteq Int
    BY <1>1
  <2> HIDE DEF C
  <2>5. Max(C) = l
    <3>1. \E x \in C : \A y \in C : x >= y
      BY <2>2, <2>3, <2>4
    <3>2. Max(C) \in C /\ \A y \in C : Max(C) >= y
      BY <3>1, Zenon DEF Max
    <3>3. Max(C) \in Int /\ l \in Int
      BY <3>2, <2>2, <2>4, Zenon
    <3>4. Max(C) >= l /\ Max(C) <= l
      BY <3>2, <2>2, <2>3, Zenon
    <3> QED
      BY <3>3, <3>4
  <2> QED
    BY <2>2, <2>5, <1>3, <1>5 DEF l
<1> QED
  BY <1>4, <1>5

\* A text with its open brackets b that is the beginning of well formed JSON.
Good(s, b) ==
    /\ s \in Seq(Tokens)
    /\ Brackets(s, b)
    /\ \A k \in 1 .. Len(s) + 1 : Around(s, k) \in 0 .. k - 1
    /\ \A k \in 2 .. Len(s) : MayFollow(s, k)
    /\ s # <<>> => s[1] \in Opens

\* Token t may be the next one.
Allowed(s, b, t) ==
    IF b = <<>> THEN t \in Opens
    ELSE IF s[b[Len(b)]] = "[" THEN FollowsInArray(t, s[Len(s)], b[Len(b)] = Len(s))
    ELSE FollowsInObject(t, s[Len(s)], b[Len(b)] = Len(s), IsKey(s, Len(s) + 1))

\* The brackets that are open after it.
OpenAfter(s, b, t) ==
    IF t \in Opens THEN Append(b, Len(s) + 1)
    ELSE IF t \in Closings THEN Front(b)
    ELSE b

\* Depth at the end of a longer text.
LEMMA DepthAtEnd ==
    ASSUME NEW s \in Seq(Tokens), NEW t \in Tokens
    PROVE  Depth(Append(s, t), Len(s) + 1) = Depth(s, Len(s)) + Turn(t)
<1>1. Len(s) \in Nat /\ Append(s, t)[Len(s) + 1] = t
  OBVIOUS
<1>2. Depth(Append(s, t), Len(s) + 1) = Depth(Append(s, t), Len(s)) + Turn(Append(s, t)[Len(s) + 1])
  BY <1>1, DepthStep, Zenon
<1>3. Depth(Append(s, t), Len(s)) = Depth(s, Len(s))
  BY DepthOfMore
<1> QED
  BY <1>1, <1>2, <1>3

\* What Front leaves of a sequence.
LEMMA FrontOf ==
    ASSUME NEW S, NEW b \in Seq(S), b # <<>>
    PROVE  /\ Len(b) \in Nat /\ Len(b) >= 1
           /\ Front(b) \in Seq(S) /\ Len(Front(b)) = Len(b) - 1
           /\ \A i \in 1 .. Len(b) - 1 : Front(b)[i] = b[i]
<1>1. Len(b) \in Nat /\ Len(b) >= 1
  OBVIOUS
<1>2. Front(b) = [i \in 1 .. Len(b) - 1 |-> b[i]]
  BY <1>1 DEF Front
<1>3. Len(b) - 1 \in Nat /\ \A i \in 1 .. Len(b) - 1 : b[i] \in S
  BY <1>1
<1> DEFINE f == [i \in 1 .. Len(b) - 1 |-> b[i]]
<1>4. f \in Seq(S) /\ Len(f) = Len(b) - 1
  BY <1>3
<1> QED
  BY <1>1, <1>2, <1>4

\* A closing bracket is allowed only where one is open.
LEMMA ClosingInside ==
    ASSUME NEW s, NEW b, NEW t \in Closings, Allowed(s, b, t)
    PROVE  b # <<>>
  BY DEF Allowed, Opens, Closings

\* The open brackets after one more token.
LEMMA BracketsMore ==
    ASSUME NEW s \in Seq(Tokens), NEW b, NEW t \in Tokens, Brackets(s, b),
           t \in Closings => b # <<>>
    PROVE  Brackets(Append(s, t), OpenAfter(s, b, t))
<1> DEFINE r == Append(s, t)
           n == Len(s)
           c == OpenAfter(s, b, t)
<1>0. n \in Nat /\ Len(r) = n + 1 /\ r \in Seq(Tokens) /\ Len(b) \in Nat /\ b \in Seq(1 .. n)
  BY DEF Brackets
<1>1. \A m \in 0 .. n : Depth(r, m) = Depth(s, m) /\ Depth(s, m) \in Int
  BY DepthOfMore, DepthStep
<1>2. Depth(r, n + 1) = Len(b) + Turn(t)
  BY DepthAtEnd DEF Brackets
<1>3. \A m \in 1 .. n : r[m] = s[m]
  OBVIOUS
<1>4. r[n + 1] = t
  OBVIOUS
<1>5. /\ \A m \in 0 .. n : Depth(s, m) >= 0
      /\ \A i \in 1 .. Len(b) : b[i] \in 1 .. n /\ s[b[i]] \in Opens /\ Depth(s, b[i]) = i
      /\ \A i \in 1 .. Len(b) : \A m \in b[i] .. n : Depth(s, m) >= i
  BY <1>0 DEF Brackets
<1>6. c \in Seq(1 .. n + 1) /\ Len(c) = Len(b) + Turn(t)
  <2>1. CASE t \in Opens
    BY <2>1, <1>0 DEF OpenAfter, Turn
  <2>2. CASE t \notin Opens /\ t \in Closings
    <3>1. b # <<>>
      BY <2>2
    <3>2. c = Front(b)
      BY <2>2 DEF OpenAfter
    <3>3. Turn(t) = -1
      BY <2>2 DEF Turn
    <3> HIDE DEF c, r
    <3>5. c \in Seq(1 .. n) /\ Len(c) = Len(b) - 1
      BY <3>1, <3>2, <1>0, FrontOf, Zenon
    <3>6. c \in Seq(1 .. n + 1)
      BY <3>5, <1>0
    <3> QED
      BY <3>3, <3>5, <3>6, <1>0
  <2>3. CASE t \notin Opens /\ t \notin Closings
    BY <2>3, <1>0 DEF OpenAfter, Turn
  <2> QED
    BY <2>1, <2>2, <2>3
<1>7. \A i \in 1 .. Len(c) : IF i <= Len(b) THEN c[i] = b[i] ELSE t \in Opens /\ i = Len(b) + 1 /\ c[i] = n + 1
  <2>1. CASE t \in Opens
    BY <2>1, <1>0 DEF OpenAfter, Turn
  <2>2. CASE t \notin Opens /\ t \in Closings
    <3>1. c = SubSeq(b, 1, Len(b) - 1) /\ b # <<>>
      BY <2>2 DEF OpenAfter, Front
    <3> QED
      BY <3>1, <2>2, <1>0 DEF Turn
  <2>3. CASE t \notin Opens /\ t \notin Closings
    BY <2>3, <1>0 DEF OpenAfter, Turn
  <2> QED
    BY <2>1, <2>2, <2>3
<1> HIDE DEF r, n, c
<1>8. Turn(t) \in Int /\ Depth(r, n + 1) = Len(c) /\ Len(c) \in Nat
  BY <1>2, <1>6 DEF Turn
<1>9. \A m \in 0 .. n + 1 : Depth(r, m) >= 0
  BY <1>1, <1>5, <1>8, <1>0
<1>10. ASSUME NEW i \in 1 .. Len(c)
       PROVE  r[c[i]] \in Opens /\ Depth(r, c[i]) = i /\ \A m \in c[i] .. n + 1 : Depth(r, m) >= i
  <2>1. CASE i <= Len(b)
    <3>1. c[i] = b[i] /\ b[i] \in 1 .. n
      BY <2>1, <1>7, <1>5, <1>0, <1>8
    <3>2. \A m \in b[i] .. n : Depth(r, m) >= i
      BY <3>1, <1>1, <1>5, <2>1, <1>0, <1>8, SMTT(30)
    <3>3. r[b[i]] \in Opens /\ Depth(r, b[i]) = i
      <4>1. i \in 1 .. Len(b) /\ b[i] \in 0 .. n
        BY <3>1, <2>1, <1>0, <1>8
      <4>2. r[b[i]] = s[b[i]] /\ Depth(r, b[i]) = Depth(s, b[i])
        BY <3>1, <4>1, <1>1, <1>3, Zenon
      <4> QED
        BY <4>1, <4>2, <1>5, Zenon
    <3> QED
      BY <3>1, <3>2, <3>3, <1>8, <1>0
  <2>2. CASE ~(i <= Len(b))
    BY <2>2, <1>7, <1>8, <1>0, <1>4
  <2> QED
    BY <2>1, <2>2
<1> QED
  BY <1>0, <1>6, <1>8, <1>9, <1>10 DEF Brackets, r, n, c

\* Whether a token may stand where it does does not depend on what comes later.
LEMMA MayFollowOfMore ==
    ASSUME NEW s, NEW b, Good(s, b), NEW t \in Tokens, NEW k \in 2 .. Len(s)
    PROVE  MayFollow(Append(s, t), k)
<1> DEFINE r == Append(s, t)
<1>0. s \in Seq(Tokens) /\ Len(s) \in Nat /\ k \in Nat /\ k >= 2
  BY DEF Good
<1>1. Around(r, k) = Around(s, k) /\ Around(s, k) \in 0 .. k - 1
  BY <1>0, AroundOfMore DEF Good
<1>2. \A m \in 1 .. Len(s) : r[m] = s[m]
  BY <1>0
<1>3. r[k] = s[k] /\ r[k - 1] = s[k - 1] /\ r[1] = s[1]
  BY <1>0, <1>2
<1>4. IsKey(r, k) <=> IsKey(s, k)
  <2>1. CASE k = 2
    <3>1. s # <<>>
      BY <1>0
    <3>2. s[1] \in Opens
      BY <3>1 DEF Good
    <3>3. s[1] # "string"
      BY <3>2 DEF Opens
    <3>4. 2 - 1 = 1
      OBVIOUS
    <3> HIDE DEF r
    <3> QED
      BY <2>1, <3>3, <3>4, <1>3, Zenon DEF IsKey
  <2>2. CASE k # 2
    <3>1. k - 2 \in 1 .. Len(s)
      BY <2>2, <1>0
    <3> QED
      BY <3>1, <1>2, <1>3 DEF IsKey
  <2> QED
    BY <2>1, <2>2
<1>5. Around(s, k) # 0 => r[Around(s, k)] = s[Around(s, k)]
  BY <1>1, <1>2, <1>0
<1>6. MayFollow(s, k)
  BY DEF Good
<1>7. IsKey(r, k) = IsKey(s, k)
  BY <1>4 DEF IsKey
<1> HIDE DEF r
<1>8. MayFollow(r, k)
  BY <1>1, <1>3, <1>5, <1>6, <1>7, Zenon DEF MayFollow
<1> QED
  BY <1>8 DEF r

\* An allowed token keeps a text the beginning of well formed JSON.
LEMMA GoodMore ==
    ASSUME NEW s, NEW b, Good(s, b), NEW t \in Tokens, Allowed(s, b, t)
    PROVE  Good(Append(s, t), OpenAfter(s, b, t))
<1> DEFINE r == Append(s, t)
           c == OpenAfter(s, b, t)
           n == Len(s)
<1>0. s \in Seq(Tokens) /\ n \in Nat /\ r \in Seq(Tokens) /\ Len(r) = n + 1 /\ Brackets(s, b)
  BY DEF Good
<1>1. Brackets(r, c)
  BY <1>0, BracketsMore, ClosingInside
<1>2. Around(s, n + 1) = IF b = <<>> THEN 0 ELSE b[Len(b)]
  BY <1>0, AroundNext
<1>3. Around(r, n + 2) = IF c = <<>> THEN 0 ELSE c[Len(c)]
  <2>1. Around(r, Len(r) + 1) = IF c = <<>> THEN 0 ELSE c[Len(c)]
    BY <1>0, <1>1, AroundNext
  <2> QED
    BY <2>1, <1>0
<1>4. c = <<>> \/ c[Len(c)] \in 1 .. n + 1
  BY <1>1, <1>0 DEF Brackets
<1>5. \A k \in 1 .. n + 1 : Around(r, k) = Around(s, k) /\ Around(s, k) \in 0 .. k - 1
  BY <1>0, AroundOfMore DEF Good
<1>6. r[n + 1] = t /\ \A m \in 1 .. n : r[m] = s[m]
  BY <1>0
<1>7. \A k \in 2 .. n : MayFollow(r, k)
  BY MayFollowOfMore
<1>8. n = 0 => b = <<>>
  BY <1>0 DEF Brackets
<1>9. b # <<>> => b[Len(b)] \in 1 .. n
  BY <1>0 DEF Brackets
<1>10. n >= 1 => MayFollow(r, n + 1)
  <2> HAVE n >= 1
  <2>1. r[n + 1] = t /\ r[n] = s[n] /\ (n + 1) - 1 = n /\ (n + 1) - 2 = n - 1
    BY <1>6, <1>0
  <2>2. IsKey(r, n + 1) = IsKey(s, n + 1)
    <3>1. CASE n = 1
      <4>1. s[1] \in Opens
        BY <3>1, <1>0 DEF Good
      <4> QED
        BY <4>1, <3>1, <2>1 DEF IsKey, Opens
    <3>2. CASE n # 1
      <4>1. n - 1 \in 1 .. n
        BY <3>2, <1>0
      <4>2. r[n - 1] = s[n - 1]
        BY <4>1, <1>6
      <4> HIDE DEF r, n
      <4> QED
        BY <4>2, <2>1 DEF IsKey
    <3> QED
      BY <3>1, <3>2
  <2>3. CASE b = <<>>
    BY <2>3, <2>1, <1>2, <1>5, <1>0 DEF Allowed, MayFollow
  <2>4. CASE b # <<>>
    <3>1. Around(r, n + 1) = b[Len(b)] /\ b[Len(b)] # 0 /\ r[b[Len(b)]] = s[b[Len(b)]]
      BY <2>4, <1>2, <1>5, <1>6, <1>9, <1>0
    <3>2. IF s[b[Len(b)]] = "[" THEN FollowsInArray(t, s[n], b[Len(b)] = n)
          ELSE FollowsInObject(t, s[n], b[Len(b)] = n, IsKey(s, n + 1))
      BY <2>4 DEF Allowed
    <3> HIDE DEF r, n
    <3> QED
      BY <3>1, <3>2, <2>1, <2>2 DEF MayFollow
  <2> QED
    BY <2>3, <2>4
<1>11. r[1] \in Opens
  <2>1. CASE n = 0
    BY <2>1, <1>8, <1>6 DEF Allowed
  <2>2. CASE n # 0
    BY <2>2, <1>6, <1>0 DEF Good
  <2> QED
    BY <2>1, <2>2
<1> HIDE DEF r, c, n
<1>12. \A k \in 1 .. n + 2 : Around(r, k) \in 0 .. k - 1
  <2> SUFFICES ASSUME NEW k \in 1 .. n + 2 PROVE Around(r, k) \in 0 .. k - 1
    OBVIOUS
  <2>1. CASE k = n + 2
    BY <2>1, <1>0, <1>3, <1>4
  <2>2. CASE k # n + 2
    BY <2>2, <1>0, <1>5
  <2> QED
    BY <2>1, <2>2
<1>13. \A k \in 2 .. n + 1 : MayFollow(r, k)
  BY <1>7, <1>10, <1>0
<1> QED
  BY <1>0, <1>1, <1>11, <1>12, <1>13 DEF Good, r, c, n

-----------------------------------------------------------------------------

Item == [kind : {"array", "object"}, multiline : BOOLEAN, at : {"begin", "item", "key", "value"}]

AtAfter(kind) == IF kind = "array" THEN "item" ELSE "value"

\* What the top of the stack says of the end of the text.
TopFits(s, b, top) ==
    /\ top.at = "begin" <=> b[Len(b)] = Len(s)
    /\ top.kind = "array" => top.at \in {"begin", "item"}
    /\ top.kind = "object" => top.at \in {"begin", "key", "value"}
    /\ top.at \in {"item", "value"} => EndsValue(s[Len(s)])
    /\ top.at = "value" => ~IsKey(s, Len(s) + 1)
    /\ top.at = "key" => s[Len(s)] = ":"

\* The stack is what the text leaves open, with the brackets at the places b.
Accounts(s, b, st) ==
    /\ Good(s, b)
    /\ st \in Seq(Item) /\ Len(b) = Len(st)
    /\ \A i \in 1 .. Len(st) : s[b[i]] = OpenOf[st[i].kind]
    /\ \A i \in 1 .. Len(st) - 1 : st[i].at = AtAfter(st[i].kind)
    /\ st # <<>> => TopFits(s, b, st[Len(st)])

\* The brackets of arrays and objects.
LEMMA BracketKinds ==
    /\ OpenOf["array"] = "[" /\ OpenOf["object"] = "{"
    /\ CloseOf["array"] = "]" /\ CloseOf["object"] = "}"
  BY DEF OpenOf, CloseOf

\* A sequence and one token more.
LEMMA OneMore ==
    ASSUME NEW s \in Seq(Tokens), NEW t
    PROVE  /\ s \o <<t>> = Append(s, t) /\ s \o <<>> = s
           /\ Len(s) \in Nat /\ Len(Append(s, t)) = Len(s) + 1
           /\ Append(s, t)[Len(s) + 1] = t /\ \A m \in 1 .. Len(s) : Append(s, t)[m] = s[m]
           /\ t \in Tokens => Append(s, t) \in Seq(Tokens)
  OBVIOUS

\* u is the text with the comma before an item, a key or a value.
IsSeparated(s, top, u) == u = IF top.at \in {"item", "value"} THEN Append(s, ",") ELSE s

\* A text at whose end a value may stand, or a key of an object.
Ready(u, b, top) ==
    /\ top.kind = "array" \/ top.at = "key" =>
           \A t \in Literals \cup Opens : Allowed(u, b, t)
    /\ top.kind = "object" /\ top.at # "key" =>
           Allowed(u, b, "string") /\ u[Len(u)] \in {"{", ","}
    /\ top.at = "key" => u[Len(u)] = ":"

\* The separator makes the text ready for what the stack expects.
LEMMA Separated ==
    ASSUME NEW s, NEW b, NEW st, Accounts(s, b, st), st # <<>>,
           NEW top, top = st[Len(st)],
           NEW u, IsSeparated(s, top, u)
    PROVE  /\ Good(u, b) /\ Len(u) \in Nat /\ Len(u) >= Len(s)
           /\ \A m \in 1 .. Len(s) : u[m] = s[m]
           /\ Ready(u, b, top)
<1> DEFINE n == Len(s)
<1>0. /\ s \in Seq(Tokens) /\ n \in Nat /\ Brackets(s, b) /\ Good(s, b)
      /\ top \in Item /\ Len(b) \in Nat /\ Len(b) = Len(st) /\ Len(b) >= 1 /\ b # <<>>
      /\ b[Len(b)] \in 1 .. n
  BY DEF Accounts, Good, Brackets
<1>1. TopFits(s, b, top) /\ s[b[Len(b)]] = OpenOf[top.kind]
  BY <1>0 DEF Accounts
<1>2. s[b[Len(b)]] = (IF top.kind = "array" THEN "[" ELSE "{") /\ top.kind \in {"array", "object"}
  BY <1>0, <1>1, BracketKinds DEF Item
<1>3. CASE top.at \in {"item", "value"}
  <2>1. u = Append(s, ",")
    BY <1>3 DEF IsSeparated
  <2>2. b[Len(b)] # n /\ EndsValue(s[n])
    BY <1>3, <1>1, <1>0 DEF TopFits
  <2>3. s[n] # "," /\ s[n] # ":"
    BY <2>2 DEF EndsValue, Literals, Closings
  <2>4. top.kind = "object" => ~IsKey(s, n + 1)
    BY <1>3, <1>1 DEF TopFits
  <2>5. Allowed(s, b, ",")
    BY <2>2, <2>3, <2>4, <1>2, <1>0 DEF Allowed, FollowsInArray, FollowsInObject
  <2>6. "," \in Tokens /\ "," \notin Opens /\ "," \notin Closings
    BY DEF Tokens, Opens, Closings
  <2>7. OpenAfter(s, b, ",") = b
    BY <2>6 DEF OpenAfter
  <2>8. Good(u, b)
    BY <2>1, <2>5, <2>6, <2>7, GoodMore, <1>0
  <2>9. Len(u) = n + 1 /\ u[n + 1] = "," /\ \A m \in 1 .. n : u[m] = s[m]
    <3>1. /\ Len(Append(s, ",")) = n + 1 /\ Append(s, ",")[n + 1] = ","
          /\ \A m \in 1 .. n : Append(s, ",")[m] = s[m]
      BY <1>0, OneMore, Zenon
    <3> QED
      BY <3>1, <2>1, Zenon
  <2> HIDE DEF n
  <2>10. u[b[Len(b)]] = s[b[Len(b)]] /\ b[Len(b)] # Len(u)
    <3>1. u[b[Len(b)]] = s[b[Len(b)]]
      BY <2>9, <1>0, Zenon
    <3>2. b[Len(b)] \in 1 .. n /\ Len(u) = n + 1 /\ n \in Nat
      BY <2>9, <1>0, Zenon
    <3> QED
      BY <3>1, <3>2
  <2>11. \A t \in Literals \cup Opens : top.kind = "array" => Allowed(u, b, t)
    BY <2>9, <2>10, <1>0, <1>2 DEF Allowed, FollowsInArray
  <2>12. top.kind = "object" => Allowed(u, b, "string")
    BY <2>9, <2>10, <1>0, <1>2 DEF Allowed, FollowsInObject
  <2>13. Ready(u, b, top)
    BY <2>9, <2>11, <2>12, <1>3 DEF Ready
  <2> QED
    <3>0. n \in Nat /\ Len(u) = n + 1
      BY <2>9, <1>0, Zenon
    <3>1. Len(u) \in Nat /\ Len(u) >= n
      BY <3>0
    <3> QED
      BY <3>1, <2>8, <2>9, <2>13, Zenon DEF n
<1>4. CASE top.at \notin {"item", "value"}
  <2>1. u = s
    BY <1>4 DEF IsSeparated
  <2>2. CASE top.at = "begin"
    <3>1. b[Len(b)] = n /\ s[n] = s[b[Len(b)]]
      BY <2>2, <1>1 DEF TopFits
    <3>2. \A t \in Literals \cup Opens : top.kind = "array" => Allowed(s, b, t)
      BY <3>1, <1>0, <1>2 DEF Allowed, FollowsInArray
    <3>3. top.kind = "object" => Allowed(s, b, "string") /\ s[n] = "{"
      BY <3>1, <1>0, <1>2 DEF Allowed, FollowsInObject
    <3>4. Ready(s, b, top)
      BY <3>2, <3>3, <2>2 DEF Ready
    <3>5. n >= n
      BY <1>0
    <3> QED
      BY <3>4, <3>5, <2>1, <1>0, Zenon
  <2>3. CASE top.at = "key"
    <3>1. b[Len(b)] # n /\ s[n] = ":" /\ top.kind = "object"
      BY <2>3, <1>1, <1>2 DEF TopFits
    <3>2. \A t \in Literals \cup Opens : Allowed(s, b, t)
      BY <3>1, <1>0, <1>2 DEF Allowed, FollowsInObject
    <3>4. Ready(s, b, top)
      BY <3>1, <3>2, <2>3 DEF Ready
    <3>5. n >= n
      BY <1>0
    <3> QED
      BY <3>4, <3>5, <2>1, <1>0, Zenon
  <2> QED
    BY <2>2, <2>3, <1>4, <1>0 DEF Item
<1> QED
  BY <1>3, <1>4

\* The stack with the top at another place.
WithTop(st, at) == [st EXCEPT ![Len(st)].at = at]

\* Stack w is st with its top somewhere else.
IsWithTop(w, st, at) ==
    /\ w \in Seq(Item) /\ Len(w) = Len(st) /\ Len(st) \in Nat /\ Len(st) >= 1
    /\ \A i \in 1 .. Len(st) : w[i].kind = st[i].kind /\ w[i].multiline = st[i].multiline
    /\ \A i \in 1 .. Len(st) - 1 : w[i] = st[i]
    /\ w[Len(st)].at = at

\* Only the top has changed.
LEMMA TopSet ==
    ASSUME NEW st \in Seq(Item), st # <<>>, NEW at \in {"begin", "item", "key", "value"}
    PROVE  IsWithTop(WithTop(st, at), st, at)
<1> DEFINE n == Len(st)
           top == [st[n] EXCEPT !.at = at]
<1>1. n \in Nat /\ n >= 1
  OBVIOUS
<1>2. st[n] \in Item
  BY <1>1
<1>3. top \in Item /\ top.kind = st[n].kind /\ top.multiline = st[n].multiline /\ top.at = at
  BY <1>2 DEF Item
<1> HIDE DEF top
<1>4. WithTop(st, at) = [st EXCEPT ![n] = top]
  BY <1>1, Zenon DEF WithTop, top
<1> QED
  BY <1>1, <1>3, <1>4 DEF IsWithTop

\* The brackets keep their tokens when the text grows.
LEMMA OpensStay ==
    ASSUME NEW s, NEW b, NEW st, Accounts(s, b, st), NEW r,
           \A m \in 1 .. Len(s) : r[m] = s[m]
    PROVE  \A i \in 1 .. Len(st) : b[i] \in 1 .. Len(s) /\ r[b[i]] = OpenOf[st[i].kind]
  BY DEF Accounts, Good, Brackets

\* A literal where a value may stand.
LEMMA LiteralPut ==
    ASSUME NEW s, NEW b, NEW st, Accounts(s, b, st), st # <<>>,
           NEW top, top = st[Len(st)], NEW u, IsSeparated(s, top, u),
           NEW t \in Literals, top.kind = "array" \/ top.at = "key"
    PROVE  Accounts(Append(u, t), b, WithTop(st, AtAfter(top.kind)))
<1> DEFINE w == WithTop(st, AtAfter(top.kind))
           r == Append(u, t)
           n == Len(s)
<1>1. /\ Good(u, b) /\ Len(u) \in Nat /\ Len(u) >= n
      /\ \A m \in 1 .. n : u[m] = s[m]
      /\ Ready(u, b, top)
  BY Separated
<1>2. t \in Tokens /\ t \notin Opens /\ t \notin Closings
  BY DEF Literals, Tokens, Opens, Closings
<1>3. Allowed(u, b, t) /\ (top.at = "key" => u[Len(u)] = ":")
  BY <1>1 DEF Ready
<1>4. Good(r, b)
  BY <1>1, <1>2, <1>3, GoodMore DEF OpenAfter
<1>5. u \in Seq(Tokens) /\ s \in Seq(Tokens) /\ n \in Nat /\ b \in Seq(1 .. n) /\ Len(b) \in Nat
  BY <1>1 DEF Good, Accounts, Brackets
<1>6. Len(r) = Len(u) + 1 /\ r[Len(u) + 1] = t /\ \A m \in 1 .. Len(u) : r[m] = u[m]
  BY <1>5, <1>2
<1>7. /\ st \in Seq(Item) /\ AtAfter(top.kind) \in {"item", "value"}
      /\ Len(b) = Len(st)
      /\ \A i \in 1 .. Len(st) - 1 : st[i].at = AtAfter(st[i].kind)
  BY DEF Accounts, AtAfter
<1>8. /\ w \in Seq(Item) /\ Len(w) = Len(st) /\ Len(st) \in Nat /\ Len(st) >= 1
      /\ \A i \in 1 .. Len(st) : w[i].kind = st[i].kind
      /\ \A i \in 1 .. Len(st) - 1 : w[i] = st[i]
      /\ w[Len(st)].at = AtAfter(top.kind)
  <2>1. AtAfter(top.kind) \in {"begin", "item", "key", "value"}
    BY DEF AtAfter
  <2>2. IsWithTop(w, st, AtAfter(top.kind))
    BY <2>1, <1>7, TopSet, Zenon
  <2> QED
    BY <2>2, Zenon DEF IsWithTop
<1> HIDE DEF w, r, n
<1>9. \A m \in 1 .. n : r[m] = s[m]
  <2> SUFFICES ASSUME NEW m \in 1 .. n PROVE r[m] = s[m]
    OBVIOUS
  <2>1. m \in 1 .. Len(u)
    BY <1>1, <1>5
  <2> QED
    BY <2>1, <1>1, <1>6, Zenon
<1>10. \A i \in 1 .. Len(st) : b[i] \in 1 .. n /\ r[b[i]] = OpenOf[st[i].kind]
  BY <1>9, OpensStay DEF n
<1>11. TopFits(r, b, w[Len(w)])
  <2>1. b[Len(b)] # Len(r)
    BY <1>1, <1>5, <1>6, <1>7, <1>8, <1>10
  <2>2. EndsValue(r[Len(r)])
    BY <1>6 DEF EndsValue
  <2>3. w[Len(w)].at = AtAfter(top.kind) /\ w[Len(w)].kind = top.kind /\ top.kind \in {"array", "object"}
    <3>1. Len(st) \in 1 .. Len(st) /\ st[Len(st)] \in Item
      BY <1>7, <1>8
    <3>2. w[Len(st)].kind = st[Len(st)].kind
      BY <3>1, <1>8, Zenon
    <3> QED
      BY <3>1, <3>2, <1>8 DEF Item
  <2>4. top.kind # "array" => ~IsKey(r, Len(r) + 1)
    <3> HAVE top.kind # "array"
    <3>1. u[Len(u)] = ":"
      BY <1>3
    <3>2. Len(u) >= 1
      BY <1>1, <1>5, <1>7, <1>8, <1>10
    <3>3. r[Len(u)] = ":" /\ (Len(r) + 1) - 2 = Len(u)
      BY <3>1, <3>2, <1>1, <1>6
    <3> QED
      BY <3>3 DEF IsKey
  <2> QED
    BY <2>1, <2>2, <2>3, <2>4 DEF TopFits, AtAfter
<1>12. \A i \in 1 .. Len(w) : r[b[i]] = OpenOf[w[i].kind]
  BY <1>8, <1>10
<1>13. \A i \in 1 .. Len(w) - 1 : w[i].at = AtAfter(w[i].kind)
  BY <1>7, <1>8, SMTT(30)
<1> QED
  BY <1>4, <1>7, <1>8, <1>11, <1>12, <1>13 DEF Accounts, w, r

\* A key and its colon.
LEMMA KeyPut ==
    ASSUME NEW s, NEW b, NEW st, Accounts(s, b, st), st # <<>>,
           NEW top, top = st[Len(st)], NEW u, IsSeparated(s, top, u),
           top.kind = "object", top.at # "key"
    PROVE  Accounts(Append(Append(u, "string"), ":"), b, WithTop(st, "key"))
<1> DEFINE w == WithTop(st, "key")
           q == Append(u, "string")
           r == Append(q, ":")
           n == Len(s)
<1>1. /\ Good(u, b) /\ Len(u) \in Nat /\ Len(u) >= n
      /\ \A m \in 1 .. n : u[m] = s[m]
      /\ Ready(u, b, top)
  BY Separated
<1>2. /\ \A t \in {"string", ":"} : t \in Tokens /\ t \notin Opens /\ t \notin Closings
      /\ \A x : OpenAfter(x, b, "string") = b /\ OpenAfter(x, b, ":") = b
  BY DEF Literals, Tokens, Opens, Closings, OpenAfter
<1>3. Allowed(u, b, "string") /\ u[Len(u)] \in {"{", ","}
  BY <1>1 DEF Ready
<1>4. Good(q, b)
  BY <1>1, <1>2, <1>3, GoodMore
<1>5. /\ u \in Seq(Tokens) /\ q \in Seq(Tokens) /\ s \in Seq(Tokens) /\ n \in Nat
      /\ b \in Seq(1 .. n) /\ Len(b) \in Nat
  BY <1>1, <1>4 DEF Good, Accounts, Brackets
<1>6. Len(q) = Len(u) + 1 /\ q[Len(u) + 1] = "string" /\ \A m \in 1 .. Len(u) : q[m] = u[m]
  BY <1>5, <1>2
<1>7. Len(r) = Len(q) + 1 /\ r[Len(q) + 1] = ":" /\ \A m \in 1 .. Len(q) : r[m] = q[m]
  BY <1>5, <1>2
<1>8. /\ st \in Seq(Item) /\ Len(b) = Len(st)
      /\ \A i \in 1 .. Len(st) - 1 : st[i].at = AtAfter(st[i].kind)
  BY DEF Accounts
<1>9. IsWithTop(w, st, "key")
  BY <1>8, TopSet, Zenon
<1>10. /\ w \in Seq(Item) /\ Len(w) = Len(st) /\ Len(st) \in Nat /\ Len(st) >= 1
       /\ \A i \in 1 .. Len(st) : w[i].kind = st[i].kind
       /\ \A i \in 1 .. Len(st) - 1 : w[i] = st[i]
       /\ w[Len(st)].at = "key"
  BY <1>9, Zenon DEF IsWithTop
<1> HIDE DEF w, r, n, q
<1>11. \A m \in 1 .. n : q[m] = s[m]
  BY <1>1, <1>5, <1>6
<1>12. \A m \in 1 .. n : r[m] = s[m]
  BY <1>1, <1>11, <1>5, <1>6, <1>7
<1>13. \A i \in 1 .. Len(st) : b[i] \in 1 .. n /\ q[b[i]] = OpenOf[st[i].kind]
  BY <1>11, OpensStay DEF n
<1>14. \A i \in 1 .. Len(st) : b[i] \in 1 .. n /\ r[b[i]] = OpenOf[st[i].kind]
  BY <1>12, OpensStay DEF n
<1>15. Len(st) \in 1 .. Len(st) /\ b # <<>> /\ b[Len(b)] \in 1 .. n /\ q[b[Len(b)]] = "{"
  <2>1. Len(st) \in 1 .. Len(st) /\ b # <<>> /\ Len(b) = Len(st)
    BY <1>5, <1>8, <1>10
  <2>2. b[Len(st)] \in 1 .. n /\ q[b[Len(st)]] = OpenOf["object"]
    BY <2>1, <1>13, Zenon
  <2> QED
    BY <2>1, <2>2, BracketKinds, Zenon
<1>a. n \in Nat /\ Len(u) \in Nat /\ Len(u) >= n /\ b[Len(b)] \in 1 .. n /\ Len(q) = Len(u) + 1 /\ Len(r) = Len(q) + 1
  BY <1>15, <1>5, <1>1, <1>6, <1>7, Zenon
<1>16. Allowed(q, b, ":")
  <2>1. b[Len(b)] # Len(q) /\ q[Len(q)] = "string"
    BY <1>15, <1>6, <1>1, <1>5
  <2>2. Len(u) >= 1
    BY <1>a
  <2>3. q[Len(u)] = u[Len(u)] /\ (Len(q) + 1) - 2 = Len(u) /\ (Len(q) + 1) - 1 = Len(q)
    BY <2>2, <1>6, <1>1
  <2>4. IsKey(q, Len(q) + 1)
    BY <2>1, <2>3, <1>3 DEF IsKey
  <2> QED
    BY <2>1, <2>4, <1>15 DEF Allowed, FollowsInObject
<1>17. Good(r, b)
  BY <1>4, <1>2, <1>16, GoodMore DEF r
<1>18. TopFits(r, b, w[Len(w)])
  <2>1. b[Len(b)] # Len(r) /\ r[Len(r)] = ":"
    <3>1. b[Len(b)] # Len(r)
      BY <1>a
    <3> QED
      BY <3>1, <1>7, Zenon
  <2>2. w[Len(w)].at = "key" /\ w[Len(w)].kind = "object"
    BY <1>10, <1>15
  <2> QED
    BY <2>1, <2>2 DEF TopFits
<1>19. \A i \in 1 .. Len(w) : r[b[i]] = OpenOf[w[i].kind]
  BY <1>10, <1>14
<1>20. \A i \in 1 .. Len(w) - 1 : w[i].at = AtAfter(w[i].kind)
  BY <1>8, <1>10
<1> QED
  BY <1>17, <1>8, <1>10, <1>18, <1>19, <1>20 DEF Accounts, w, r, q

\* An array or object that is opened, on a stack w whose top is behind the value.
LEMMA OpenPut ==
    ASSUME NEW u, NEW b, Good(u, b), NEW w \in Seq(Item), Len(b) = Len(w),
           \A i \in 1 .. Len(w) : u[b[i]] = OpenOf[w[i].kind] /\ w[i].at = AtAfter(w[i].kind),
           NEW o \in Item, o.at = "begin", Allowed(u, b, OpenOf[o.kind])
    PROVE  Accounts(Append(u, OpenOf[o.kind]), Append(b, Len(u) + 1), Append(w, o))
<1> DEFINE t == OpenOf[o.kind]
           r == Append(u, t)
           c == Append(b, Len(u) + 1)
           v == Append(w, o)
<1>1. t \in Opens /\ t \in Tokens /\ o.kind \in {"array", "object"}
  BY BracketKinds DEF Item, Opens, Tokens
<1>2. Good(r, c)
  BY <1>1, GoodMore DEF OpenAfter
<1>3. u \in Seq(Tokens) /\ Len(u) \in Nat /\ b \in Seq(1 .. Len(u)) /\ Len(b) \in Nat
  BY DEF Good, Brackets
<1> HIDE DEF t
<1>4. Len(r) = Len(u) + 1 /\ r[Len(u) + 1] = t /\ \A m \in 1 .. Len(u) : r[m] = u[m]
  BY <1>3, <1>1
<1>5. Len(c) = Len(b) + 1 /\ c[Len(b) + 1] = Len(u) + 1 /\ \A i \in 1 .. Len(b) : c[i] = b[i] /\ b[i] \in 1 .. Len(u)
  BY <1>3
<1>6. v \in Seq(Item) /\ Len(v) = Len(w) + 1 /\ v[Len(w) + 1] = o /\ \A i \in 1 .. Len(w) : v[i] = w[i]
  OBVIOUS
<1> HIDE DEF r, c, v
<1>7. \A i \in 1 .. Len(v) : r[c[i]] = OpenOf[v[i].kind]
  <2> SUFFICES ASSUME NEW i \in 1 .. Len(v) PROVE r[c[i]] = OpenOf[v[i].kind]
    OBVIOUS
  <2>1. CASE i = Len(w) + 1
    BY <2>1, <1>4, <1>5, <1>6 DEF t
  <2>2. CASE i # Len(w) + 1
    <3>1. i \in 1 .. Len(w) /\ i \in 1 .. Len(b)
      BY <2>2, <1>6, <1>3
    <3>2. c[i] = b[i] /\ r[b[i]] = u[b[i]] /\ v[i] = w[i]
      BY <3>1, <1>4, <1>5, <1>6, Zenon
    <3> QED
      BY <3>1, <3>2, Zenon
  <2> QED
    BY <2>1, <2>2
<1>8. \A i \in 1 .. Len(v) - 1 : v[i].at = AtAfter(v[i].kind)
  BY <1>6, <1>3
<1>9. TopFits(r, c, v[Len(v)])
  BY <1>4, <1>5, <1>6 DEF TopFits
<1> QED
  BY <1>2, <1>5, <1>6, <1>7, <1>8, <1>9 DEF Accounts, r, c, v, t

\* The bracket that closes the top.
LEMMA ClosePut ==
    ASSUME NEW s, NEW b, NEW st, Accounts(s, b, st), st # <<>>,
           NEW top, top = st[Len(st)], top.at # "key"
    PROVE  Accounts(Append(s, CloseOf[top.kind]), Front(b), Front(st))
<1> DEFINE t == CloseOf[top.kind]
           r == Append(s, t)
           c == Front(b)
           v == Front(st)
           n == Len(s)
<1>1. /\ s \in Seq(Tokens) /\ n \in Nat /\ Good(s, b) /\ b \in Seq(1 .. n) /\ st \in Seq(Item)
      /\ Len(st) \in Nat /\ Len(b) = Len(st) /\ Len(st) >= 1 /\ b # <<>> /\ top \in Item
      /\ Brackets(s, b)
  BY DEF Accounts, Good, Brackets
<1>2. TopFits(s, b, top) /\ s[b[Len(b)]] = OpenOf[top.kind] /\ top.kind \in {"array", "object"}
  BY <1>1 DEF Accounts, Item
<1>3. t = (IF top.kind = "array" THEN "]" ELSE "}")
      /\ s[b[Len(b)]] = (IF top.kind = "array" THEN "[" ELSE "{")
  BY <1>2, BracketKinds
<1>4. t \in Closings /\ t \notin Opens /\ t \in Tokens
  BY <1>2, <1>3 DEF Closings, Opens, Tokens
<1>5. Allowed(s, b, t)
  <2>1. CASE top.at = "begin"
    <3>1. b[Len(b)] = n
      BY <2>1, <1>2 DEF TopFits
    <3> QED
      BY <3>1, <1>1, <1>2, <1>3 DEF Allowed, FollowsInArray, FollowsInObject
  <2>2. CASE top.at # "begin"
    <3>1. b[Len(b)] # n /\ EndsValue(s[n]) /\ (top.kind = "object" => ~IsKey(s, n + 1))
      BY <2>2, <1>1, <1>2 DEF TopFits, Item
    <3>2. s[n] # "," /\ s[n] # ":"
      BY <3>1 DEF EndsValue, Literals, Closings
    <3> QED
      BY <3>1, <3>2, <1>1, <1>2, <1>3 DEF Allowed, FollowsInArray, FollowsInObject
  <2> QED
    BY <2>1, <2>2
<1>6. Good(r, c)
  BY <1>1, <1>4, <1>5, GoodMore DEF OpenAfter
<1> HIDE DEF t
<1>7. Len(r) = n + 1 /\ r[n + 1] = t /\ \A m \in 1 .. n : r[m] = s[m]
  BY <1>1
<1>8. c \in Seq(1 .. n) /\ Len(c) = Len(b) - 1 /\ \A i \in 1 .. Len(b) - 1 : c[i] = b[i]
  BY <1>1, FrontOf, Zenon
<1>9. v \in Seq(Item) /\ Len(v) = Len(st) - 1 /\ \A i \in 1 .. Len(st) - 1 : v[i] = st[i]
  BY <1>1, FrontOf, Zenon
<1>10. \A i \in 1 .. Len(st) : b[i] \in 1 .. n /\ r[b[i]] = OpenOf[st[i].kind]
  BY <1>7, OpensStay DEF n
<1>11. \A i \in 1 .. Len(st) - 1 : st[i].at = AtAfter(st[i].kind)
  BY DEF Accounts
<1> HIDE DEF r, c, v, n
<1>12. \A i \in 1 .. Len(v) : r[c[i]] = OpenOf[v[i].kind]
  <2> SUFFICES ASSUME NEW i \in 1 .. Len(v) PROVE r[c[i]] = OpenOf[v[i].kind]
    OBVIOUS
  <2>1. i \in 1 .. Len(b) - 1 /\ i \in 1 .. Len(st) - 1 /\ i \in 1 .. Len(st)
    BY <1>1, <1>8, <1>9
  <2> QED
    BY <2>1, <1>8, <1>9, <1>10, Zenon
<1>13. \A i \in 1 .. Len(v) - 1 : v[i].at = AtAfter(v[i].kind)
  <2> SUFFICES ASSUME NEW i \in 1 .. Len(v) - 1 PROVE v[i].at = AtAfter(v[i].kind)
    OBVIOUS
  <2>1. i \in 1 .. Len(st) - 1
    BY <1>1, <1>9
  <2> QED
    BY <2>1, <1>9, <1>11, Zenon
<1>14. v # <<>> => TopFits(r, c, v[Len(v)])
  <2> HAVE v # <<>>
  <2>1. Len(v) >= 1 /\ Len(v) \in 1 .. Len(st) - 1 /\ Len(c) \in 1 .. Len(b) - 1 /\ Len(c) = Len(v) /\ Len(v) \in 1 .. Len(st)
    BY <1>1, <1>8, <1>9
  <2>2. c[Len(c)] = b[Len(c)] /\ b[Len(v)] \in 1 .. n
    BY <2>1, <1>8, <1>10, Zenon
  <2>3. c[Len(c)] # Len(r)
    BY <2>1, <2>2, <1>7, <1>1
  <2>4. v[Len(v)] \in Item /\ v[Len(v)].at = AtAfter(v[Len(v)].kind)
    BY <2>1, <1>9, <1>11
  <2>5. EndsValue(r[Len(r)]) /\ r[Len(r)] # "string" /\ (Len(r) + 1) - 1 = Len(r)
    <3>1. EndsValue(t) /\ t # "string"
      BY <1>4 DEF EndsValue, Closings
    <3>2. r[Len(r)] = t
      BY <1>7, Zenon
    <3>3. Len(r) \in Nat
      BY <1>1, <1>7
    <3> QED
      BY <3>1, <3>2, <3>3
  <2>6. ~IsKey(r, Len(r) + 1)
    BY <2>5 DEF IsKey
  <2>7. v[Len(v)].kind \in {"array", "object"}
    BY <2>4 DEF Item
  <2> QED
    BY <2>3, <2>4, <2>5, <2>6, <2>7 DEF TopFits, AtAfter
<1>15. Len(c) = Len(v)
  BY <1>1, <1>8, <1>9
<1> QED
  BY <1>6, <1>9, <1>12, <1>13, <1>14, <1>15 DEF Accounts, r, c, v, t

-----------------------------------------------------------------------------

\* The open multiline arrays and objects among the first k.
Multiline(st, k) == {i \in 1 .. k : st[i].multiline}

\* One more.
LEMMA MultilineStep ==
    ASSUME NEW st, NEW k \in Nat
    PROVE  /\ Cardinality(Multiline(st, k)) \in Nat
           /\ Cardinality(Multiline(st, k + 1))
                = Cardinality(Multiline(st, k)) + (IF st[k + 1].multiline THEN 1 ELSE 0)
<1> DEFINE places == Multiline(st, k)
           more == Multiline(st, k + 1)
<1>1. IsFiniteSet(1 .. k)
  BY FS_Interval
<1>2. IsFiniteSet(places)
  BY <1>1, FS_Subset, Zenon DEF Multiline
<1>3. Cardinality(places) \in Nat
  BY <1>2, FS_CardinalityType, Zenon
<1>4. CASE st[k + 1].multiline
  <2>1. more = places \cup {k + 1} /\ k + 1 \notin places
    BY <1>4 DEF Multiline
  <2>2. Cardinality(places \cup {k + 1}) = Cardinality(places) + 1
    BY <2>1, <1>2, FS_AddElement
  <2> QED
    BY <2>1, <2>2, <1>3, <1>4
<1>5. CASE ~st[k + 1].multiline
  <2>1. more = places
    BY <1>5 DEF Multiline
  <2> QED
    BY <2>1, <1>3, <1>5
<1> QED
  BY <1>4, <1>5

\* The number of open multiline arrays and objects.
Deep(st) == Cardinality(Multiline(st, Len(st)))

\* It does not depend on where the top is.
LEMMA DeepWithTop ==
    ASSUME NEW st, NEW w, NEW at, IsWithTop(w, st, at)
    PROVE  Deep(w) = Deep(st) /\ Deep(st) \in Nat
<1>1. Len(w) = Len(st) /\ Len(st) \in Nat /\ \A i \in 1 .. Len(st) : w[i].multiline = st[i].multiline
  BY DEF IsWithTop
<1>2. Multiline(w, Len(w)) = Multiline(st, Len(st))
  BY <1>1 DEF Multiline
<1>3. Cardinality(Multiline(st, Len(st))) \in Nat
  BY <1>1, MultilineStep
<1> QED
  BY <1>2, <1>3 DEF Deep

\* What is opened counts.
LEMMA DeepMore ==
    ASSUME NEW w \in Seq(Item), NEW o \in Item
    PROVE  Deep(Append(w, o)) = Deep(w) + (IF o.multiline THEN 1 ELSE 0) /\ Deep(w) \in Nat
<1> DEFINE v == Append(w, o)
           k == Len(w)
<1>1. k \in Nat /\ Len(v) = k + 1 /\ v[k + 1] = o /\ \A i \in 1 .. k : v[i] = w[i]
  OBVIOUS
<1> HIDE DEF v, k
<1>2. Multiline(v, k) = Multiline(w, k)
  BY <1>1 DEF Multiline
<1>3. /\ Cardinality(Multiline(v, k)) \in Nat
      /\ Cardinality(Multiline(v, k + 1))
            = Cardinality(Multiline(v, k)) + (IF v[k + 1].multiline THEN 1 ELSE 0)
  BY <1>1, MultilineStep, Zenon
<1>4. Deep(w) = Cardinality(Multiline(v, k)) /\ Deep(v) = Cardinality(Multiline(v, k + 1))
  BY <1>1, <1>2 DEF Deep, k
<1> QED
  BY <1>1, <1>3, <1>4 DEF v

\* What is closed counts no longer.
LEMMA DeepFront ==
    ASSUME NEW st \in Seq(Item), st # <<>>
    PROVE  /\ Deep(st) = Deep(Front(st)) + (IF st[Len(st)].multiline THEN 1 ELSE 0)
           /\ Deep(Front(st)) \in Nat
<1>1. Len(st) \in Nat /\ Len(st) >= 1 /\ Front(st) \in Seq(Item) /\ st[Len(st)] \in Item
  BY FrontOf
<1>2. st = Append(Front(st), st[Len(st)])
  <2>1. Len(Front(st)) = Len(st) - 1 /\ \A i \in 1 .. Len(st) - 1 : Front(st)[i] = st[i]
    BY FrontOf, Zenon
  <2> QED
    BY <1>1, <2>1
<1>3. /\ Deep(Append(Front(st), st[Len(st)])) = Deep(Front(st)) + (IF st[Len(st)].multiline THEN 1 ELSE 0)
      /\ Deep(Front(st)) \in Nat
  BY <1>1, DeepMore, Zenon
<1> QED
  BY <1>2, <1>3, Zenon

\* The indentation counts the open multiline arrays and objects, until one was
\* closed empty.
Indented(indent, st, empty) == indent >= Deep(st) /\ (~empty => indent = Deep(st))

\* The inductive invariant: the stack is what the text leaves open.
JsonInv ==
    /\ jsonIndent \in Int /\ emptied \in BOOLEAN
    /\ \E b : Accounts(jsonText, b, jsonStack)
    /\ Indented(jsonIndent, jsonStack, emptied)

\* Separator is what stands before an item, a key or a value.
LEMMA SeparatorPut ==
    ASSUME NEW b, Accounts(jsonText, b, jsonStack), ~AtRoot
    PROVE  /\ IsSeparated(jsonText, Top, jsonText \o Separator)
           /\ jsonText \o Separator \in Seq(Tokens)
           /\ jsonStack \in Seq(Item) /\ jsonStack # <<>> /\ Top = jsonStack[Len(jsonStack)]
           /\ Top \in Item /\ TopFits(jsonText, b, Top)
           /\ \A at : SetTop(at) = WithTop(jsonStack, at)
           /\ AfterValue = WithTop(jsonStack, AtAfter(Top.kind))
<1>1. /\ jsonText \in Seq(Tokens) /\ jsonStack \in Seq(Item) /\ jsonStack # <<>>
      /\ Top = jsonStack[Len(jsonStack)] /\ TopFits(jsonText, b, jsonStack[Len(jsonStack)])
  BY DEF Accounts, Good, AtRoot, Top, Last
<1>2. Top \in Item
  BY <1>1
<1>3. "," \in Tokens
  BY DEF Tokens
<1>4. IsSeparated(jsonText, Top, jsonText \o Separator) /\ jsonText \o Separator \in Seq(Tokens)
  <2>1. jsonText \o <<",">> = Append(jsonText, ",") /\ jsonText \o <<>> = jsonText
    BY <1>1, OneMore, Zenon
  <2>2. Append(jsonText, ",") \in Seq(Tokens)
    BY <1>1, <1>3, OneMore, Zenon
  <2>3. CASE Top.at \in {"item", "value"}
    BY <2>1, <2>2, <2>3, Zenon DEF Separator, IsSeparated
  <2>4. CASE Top.at \notin {"item", "value"}
    BY <2>1, <1>1, <2>4, Zenon DEF Separator, IsSeparated
  <2> QED
    BY <2>3, <2>4
<1>5. \A at : SetTop(at) = WithTop(jsonStack, at)
  BY DEF SetTop, WithTop
<1>6. AfterValue = WithTop(jsonStack, AtAfter(Top.kind))
  BY <1>5, Zenon DEF AfterValue, AtAfter
<1> QED
  BY <1>1, <1>2, <1>4, <1>5, <1>6, Zenon

\* Where no key is expected, a value may stand.
LEMMA ValueExpected ==
    ASSUME NEW b, Accounts(jsonText, b, jsonStack), ~AtRoot
    PROVE  IF ExpectsKey THEN Top.kind = "object" /\ Top.at # "key"
           ELSE Top.kind = "array" \/ Top.at = "key"
<1>1. TopFits(jsonText, b, Top) /\ Top \in Item
  BY SeparatorPut, Zenon
<1> QED
  BY <1>1 DEF ExpectsKey, TopFits, Item

\* A literal keeps the invariant.
LEMMA PrintLiteralKeeps ==
    ASSUME JsonInv, NEW literal \in Literals, PrintLiteral(literal)
    PROVE  JsonInv'
<1> DEFINE u == jsonText \o Separator
<1>1. PICK b : Accounts(jsonText, b, jsonStack)
  BY DEF JsonInv
<1>2. /\ ~AtRoot /\ UNCHANGED <<jsonIndent, emptied>>
      /\ ExpectsKey => literal = "string"
      /\ jsonText' = u \o <<literal>> \o (IF ExpectsKey THEN <<":">> ELSE <<>>)
      /\ jsonStack' = IF ExpectsKey THEN SetTop("key") ELSE AfterValue
  BY DEF PrintLiteral
<1>3. /\ IsSeparated(jsonText, Top, u) /\ u \in Seq(Tokens) /\ jsonStack \in Seq(Item)
      /\ jsonStack # <<>> /\ Top = jsonStack[Len(jsonStack)]
      /\ SetTop("key") = WithTop(jsonStack, "key")
      /\ AfterValue = WithTop(jsonStack, AtAfter(Top.kind))
  BY <1>1, <1>2, SeparatorPut, Zenon
<1> HIDE DEF u
<1>4. u \o <<literal>> = Append(u, literal) /\ Append(u, literal) \in Seq(Tokens)
  <2>1. literal \in Tokens
    BY DEF Tokens
  <2> QED
    BY <2>1, <1>3, OneMore, Zenon
<1>5. CASE ExpectsKey
  <2>1. Top.kind = "object" /\ Top.at # "key"
    BY <1>1, <1>2, <1>5, ValueExpected
  <2>2. jsonText' = Append(u, "string") \o <<":">> /\ Append(u, "string") \in Seq(Tokens)
    BY <1>2, <1>4, <1>5, Zenon
  <2>3. jsonText' = Append(Append(u, "string"), ":")
    BY <2>2, OneMore, Zenon
  <2>4. Accounts(jsonText', b, jsonStack')
    BY <2>1, <2>3, <1>1, <1>2, <1>3, <1>5, KeyPut, Zenon
  <2>5. IsWithTop(jsonStack', jsonStack, "key")
    BY <1>2, <1>3, <1>5, TopSet, Zenon
  <2>6. Deep(jsonStack') = Deep(jsonStack)
    BY <2>5, DeepWithTop, Zenon
  <2> QED
    BY <2>4, <2>6, <1>2 DEF JsonInv, Indented
<1>6. CASE ~ExpectsKey
  <2>1. Top.kind = "array" \/ Top.at = "key"
    BY <1>1, <1>2, <1>6, ValueExpected
  <2>2. jsonText' = Append(u, literal) \o <<>>
    BY <1>2, <1>4, <1>6, Zenon
  <2>3. jsonText' = Append(u, literal)
    BY <2>2, <1>4, OneMore, Zenon
  <2>4. Accounts(jsonText', b, jsonStack')
    BY <2>1, <2>3, <1>1, <1>2, <1>3, <1>6, LiteralPut, Zenon
  <2>5. AtAfter(Top.kind) \in {"begin", "item", "key", "value"}
    BY DEF AtAfter
  <2>6. IsWithTop(jsonStack', jsonStack, AtAfter(Top.kind))
    BY <2>5, <1>2, <1>3, <1>6, TopSet, Zenon
  <2>7. Deep(jsonStack') = Deep(jsonStack)
    BY <2>6, DeepWithTop, Zenon
  <2> QED
    BY <2>4, <2>7, <1>2 DEF JsonInv, Indented
<1> QED
  BY <1>5, <1>6

\* Opening keeps the invariant.
LEMMA BeginKeeps ==
    ASSUME JsonInv, NEW kind \in {"array", "object"}, NEW asked \in BOOLEAN, Begin(kind, asked)
    PROVE  JsonInv'
<1> DEFINE multiline == asked /\ (AtRoot \/ Top.multiline)
           o == [kind |-> kind, multiline |-> multiline, at |-> "begin"]
           t == OpenOf[kind]
<1>1. PICK b : Accounts(jsonText, b, jsonStack)
  BY DEF JsonInv
<1>2. /\ ~ExpectsKey /\ UNCHANGED emptied
      /\ jsonText' = jsonText \o (IF AtRoot THEN <<>> ELSE Separator) \o <<t>>
      /\ jsonStack' = Append(IF AtRoot THEN <<>> ELSE AfterValue, o)
      /\ jsonIndent' = jsonIndent + (IF multiline THEN 1 ELSE 0)
  BY DEF Begin
<1>3. o \in Item /\ o.kind = kind /\ o.at = "begin" /\ (o.multiline <=> multiline)
  <2>1. multiline \in BOOLEAN
    <3>1. AtRoot \/ Top \in Item
      BY <1>1, SeparatorPut, Zenon
    <3> QED
      BY <3>1 DEF Item, AtRoot
  <2> HIDE DEF multiline
  <2> QED
    BY <2>1 DEF Item
<1>4. t \in Opens /\ t \in Tokens
  BY BracketKinds DEF Opens, Tokens
<1> HIDE DEF o, multiline, t
<1>5. jsonIndent \in Int /\ emptied \in BOOLEAN /\ Indented(jsonIndent, jsonStack, emptied)
  BY DEF JsonInv
<1>6. ASSUME NEW u, NEW w, Good(u, b), w \in Seq(Item), Len(b) = Len(w),
             \A i \in 1 .. Len(w) : u[b[i]] = OpenOf[w[i].kind] /\ w[i].at = AtAfter(w[i].kind),
             Allowed(u, b, t), Deep(w) = Deep(jsonStack),
             jsonText' = Append(u, t), jsonStack' = Append(w, o)
      PROVE  JsonInv'
  <2>1. Accounts(Append(u, OpenOf[o.kind]), Append(b, Len(u) + 1), Append(w, o))
    BY <1>3, <1>6, OpenPut DEF t
  <2>2. Accounts(jsonText', Append(b, Len(u) + 1), jsonStack')
    BY <2>1, <1>3, <1>6 DEF t
  <2>3. Deep(jsonStack') = Deep(jsonStack) + (IF o.multiline THEN 1 ELSE 0) /\ Deep(jsonStack) \in Nat
    BY <1>6, <1>3, DeepMore, Zenon
  <2>4. jsonIndent' \in Int /\ Indented(jsonIndent', jsonStack', emptied')
    BY <2>3, <1>2, <1>3, <1>5 DEF Indented
  <2> QED
    BY <2>2, <2>4, <1>2, <1>5 DEF JsonInv
<1>7. CASE AtRoot
  <2>1. jsonStack = <<>> /\ b = <<>> /\ Good(jsonText, b) /\ jsonText \in Seq(Tokens)
    BY <1>1, <1>7 DEF AtRoot, Accounts, Good, Brackets
  <2>2. jsonText' = Append(jsonText, t) /\ jsonStack' = Append(jsonStack, o)
    <3>1. jsonText \o <<>> = jsonText /\ jsonText \o <<t>> = Append(jsonText, t)
      BY <2>1, OneMore, Zenon
    <3> QED
      BY <3>1, <2>1, <1>2, <1>7, Zenon
  <2>3. Allowed(jsonText, b, t)
    BY <2>1, <1>4 DEF Allowed
  <2>4. <<>> \in Seq(Item) /\ Len(<<>>) = 0
    OBVIOUS
  <2>5. jsonStack \in Seq(Item) /\ Len(b) = Len(jsonStack)
    BY <2>1, <2>4, Zenon
  <2>6. \A i \in 1 .. Len(jsonStack) : jsonText[b[i]] = OpenOf[jsonStack[i].kind] /\ jsonStack[i].at = AtAfter(jsonStack[i].kind)
    BY <2>1, <2>4
  <2> QED
    BY <2>1, <2>2, <2>3, <2>5, <2>6, <1>6
<1>8. CASE ~AtRoot
  <2> DEFINE u == jsonText \o Separator
             w == WithTop(jsonStack, AtAfter(Top.kind))
  <2>1. /\ IsSeparated(jsonText, Top, u) /\ u \in Seq(Tokens) /\ jsonStack \in Seq(Item)
        /\ jsonStack # <<>> /\ Top = jsonStack[Len(jsonStack)] /\ AfterValue = w
    BY <1>1, <1>8, SeparatorPut, Zenon
  <2>2. Top.kind = "array" \/ Top.at = "key"
    BY <1>1, <1>2, <1>8, ValueExpected
  <2> HIDE DEF u
  <2>3. /\ Good(u, b) /\ Len(u) \in Nat /\ Len(u) >= Len(jsonText)
        /\ \A m \in 1 .. Len(jsonText) : u[m] = jsonText[m]
        /\ Ready(u, b, Top)
    BY <2>1, <1>1, Separated
  <2>4. AtAfter(Top.kind) \in {"begin", "item", "key", "value"}
    BY DEF AtAfter
  <2>5. IsWithTop(w, jsonStack, AtAfter(Top.kind))
    BY <2>1, <2>4, TopSet, Zenon
  <2> HIDE DEF w
  <2>6. jsonText' = Append(u, t) /\ jsonStack' = Append(w, o)
    <3>1. u \o <<t>> = Append(u, t)
      BY <2>1, OneMore, Zenon
    <3> QED
      BY <3>1, <2>1, <1>2, <1>8, Zenon DEF u
  <2>7. Allowed(u, b, t)
    BY <2>2, <2>3, <1>4 DEF Ready
  <2>8. Deep(w) = Deep(jsonStack)
    BY <2>5, DeepWithTop, Zenon
  <2>9. \A i \in 1 .. Len(jsonStack) : u[b[i]] = OpenOf[jsonStack[i].kind]
    BY <2>3, <1>1, OpensStay
  <2>10. w \in Seq(Item) /\ Len(w) = Len(jsonStack) /\ Len(b) = Len(w) /\ Len(w) \in Nat /\ Len(w) >= 1
    BY <2>5, <1>1 DEF IsWithTop, Accounts
  <2>11. \A i \in 1 .. Len(w) : u[b[i]] = OpenOf[w[i].kind] /\ w[i].at = AtAfter(w[i].kind)
    <3> SUFFICES ASSUME NEW i \in 1 .. Len(w)
                 PROVE  u[b[i]] = OpenOf[w[i].kind] /\ w[i].at = AtAfter(w[i].kind)
      OBVIOUS
    <3>1. w[i].kind = jsonStack[i].kind /\ u[b[i]] = OpenOf[jsonStack[i].kind]
      BY <2>5, <2>9, <2>10 DEF IsWithTop
    <3>2. CASE i = Len(w)
      BY <3>1, <3>2, <2>1, <2>5, <2>10 DEF IsWithTop
    <3>3. CASE i # Len(w)
      <4>1. i \in 1 .. Len(jsonStack) - 1
        BY <3>3, <2>10
      <4>2. w[i] = jsonStack[i] /\ jsonStack[i].at = AtAfter(jsonStack[i].kind)
        BY <4>1, <2>5, <1>1, Zenon DEF IsWithTop, Accounts
      <4> QED
        BY <4>2, <3>1, Zenon
    <3> QED
      BY <3>2, <3>3
  <2> QED
    BY <2>3, <2>6, <2>7, <2>8, <2>10, <2>11, <1>6
<1> QED
  BY <1>7, <1>8

\* Closing keeps the invariant.
LEMMA ClosedKeeps ==
    ASSUME JsonInv, CanEnd, Closed
    PROVE  JsonInv'
<1>1. PICK b : Accounts(jsonText, b, jsonStack)
  BY DEF JsonInv
<1>2. /\ ~AtRoot /\ Top.at # "key"
      /\ jsonText' = Append(jsonText, CloseOf[Top.kind]) /\ jsonStack' = Front(jsonStack)
      /\ jsonIndent' = jsonIndent - (IF Unindents THEN 1 ELSE 0)
      /\ emptied' = (emptied \/ (Top.multiline /\ Top.at = "begin"))
  BY DEF CanEnd, Closed
<1>3. jsonStack \in Seq(Item) /\ jsonStack # <<>> /\ Top = jsonStack[Len(jsonStack)] /\ Top \in Item
  BY <1>1, <1>2, SeparatorPut, Zenon
<1>4. Accounts(jsonText', Front(b), jsonStack')
  BY <1>1, <1>2, <1>3, ClosePut, Zenon
<1>5. Deep(jsonStack) = Deep(jsonStack') + (IF Top.multiline THEN 1 ELSE 0) /\ Deep(jsonStack') \in Nat
  BY <1>2, <1>3, DeepFront, Zenon
<1>6. jsonIndent \in Int /\ emptied \in BOOLEAN /\ Indented(jsonIndent, jsonStack, emptied)
  BY DEF JsonInv
<1>7. Top.multiline \in BOOLEAN
  BY <1>3 DEF Item
<1>8. jsonIndent' \in Int
  BY <1>2, <1>6
<1>9. emptied' \in BOOLEAN /\ (~emptied' => ~emptied /\ ~(Top.multiline /\ Top.at = "begin"))
  BY <1>2, <1>6, <1>7, Zenon
<1>10. Indented(jsonIndent', jsonStack', emptied')
  <2>1. CASE Unindents
    <3>1. Top.multiline /\ jsonIndent' = jsonIndent - 1
      BY <2>1, <1>2 DEF Unindents
    <3> QED
      BY <3>1, <1>5, <1>6, <1>9 DEF Indented
  <2>2. CASE ~Unindents
    <3>1. jsonIndent' = jsonIndent
      BY <2>2, <1>2, <1>6
    <3>2. ~emptied' => ~Top.multiline
      BY <2>2, <1>9, Zenon DEF Unindents
    <3> QED
      BY <3>1, <3>2, <1>5, <1>6, <1>9 DEF Indented
  <2> QED
    BY <2>1, <2>2
<1> QED
  BY <1>4, <1>8, <1>9, <1>10, Zenon DEF JsonInv

\* Whatever is put into a JsonPrinter, and after any error it raised, the text is the
\* beginning of well formed JSON whose open brackets are the stack, and the
\* indentation is what is open, for any number of calls.
THEOREM JsonCorrect == JsonSpec => []JsonIsWellFormed
<1>1. JsonInit => JsonInv
  <2> SUFFICES ASSUME JsonInit PROVE JsonInv
    OBVIOUS
  <2>1. jsonStack = <<>> /\ jsonText = <<>> /\ jsonIndent = 0 /\ emptied = FALSE
    BY DEF JsonInit
  <2>2. Depth(<<>>, 0) = 0
    BY DepthZero
  <2>3. Brackets(<<>>, <<>>)
    BY <2>2 DEF Brackets
  <2>4. <<>> \in Seq(Tokens) /\ Len(<<>>) = 0
    OBVIOUS
  <2>5. Around(<<>>, 1) = 0
    <3>1. Around(<<>>, Len(<<>>) + 1) = IF <<>> = <<>> THEN 0 ELSE <<>>[Len(<<>>)]
      BY <2>3, <2>4, AroundNext, Zenon
    <3>2. Len(<<>>) + 1 = 1
      OBVIOUS
    <3> QED
      BY <3>1, <3>2, Zenon
  <2>6. Good(<<>>, <<>>)
    BY <2>3, <2>4, <2>5 DEF Good
  <2>7. Accounts(<<>>, <<>>, <<>>)
    BY <2>6 DEF Accounts
  <2>8. Deep(<<>>) = 0
    <3>1. Multiline(<<>>, Len(<<>>)) = {}
      BY DEF Multiline
    <3>2. Cardinality({}) = 0
      BY FS_EmptySet
    <3> QED
      BY <3>1, <3>2 DEF Deep
  <2>9. Indented(0, <<>>, FALSE)
    BY <2>8 DEF Indented
  <2>10. 0 \in Int /\ FALSE \in BOOLEAN
    OBVIOUS
  <2> QED
    BY <2>1, <2>7, <2>9, <2>10, Zenon DEF JsonInv
<1>2. JsonInv /\ [JsonNext]_jsonVars => JsonInv'
  <2> SUFFICES ASSUME JsonInv, [JsonNext]_jsonVars PROVE JsonInv'
    OBVIOUS
  <2>1. ASSUME UNCHANGED <<jsonStack, jsonText, jsonIndent, emptied>> PROVE JsonInv'
    BY <2>1 DEF JsonInv
  <2>2. ASSUME NEW l \in Literals, PrintLiteral(l) PROVE JsonInv'
    BY <2>2, PrintLiteralKeeps
  <2>3. ASSUME NEW k \in {"array", "object"}, NEW m \in BOOLEAN, Begin(k, m) PROVE JsonInv'
    BY <2>3, BeginKeeps
  <2>4. CASE End
    BY <2>4, ClosedKeeps DEF End
  <2>5. CASE Finish
    BY <2>5, <2>1 DEF Finish
  <2>6. CASE FinishEnds
    BY <2>6, <2>1, ClosedKeeps DEF FinishEnds
  <2>7. CASE JsonError
    BY <2>7, <2>1 DEF JsonError
  <2>8. CASE UNCHANGED jsonVars
    BY <2>8, <2>1 DEF jsonVars
  <2> QED
    BY <2>2, <2>3, <2>4, <2>5, <2>6, <2>7, <2>8 DEF JsonNext
<1>3. JsonInv => JsonIsWellFormed
  <2> SUFFICES ASSUME JsonInv PROVE JsonIsWellFormed
    OBVIOUS
  <2>1. PICK b : Accounts(jsonText, b, jsonStack)
    BY DEF JsonInv
  <2>2. Good(jsonText, b) /\ Depth(jsonText, Len(jsonText)) = Len(jsonStack)
    BY <2>1 DEF Accounts, Good, Brackets
  <2>3. TextIsWellFormed
    BY <2>2 DEF TextIsWellFormed, Good
  <2>4. IndentIsDepth
    BY DEF JsonInv, Indented, IndentIsDepth, Deep, Multiline
  <2> QED
    BY <2>3, <2>4 DEF JsonIsWellFormed
<1> QED
  BY <1>1, <1>2, <1>3, PTL DEF JsonSpec

-----------------------------------------------------------------------------
(* The ini parser.  The operators of the model again, with the file as a     *)
(* parameter.                                                                *)

IniTokens == Idents \cup IniValues \cup Characters

Tok(f, i) == IF i <= Len(f) THEN f[i] ELSE "end"
LineAt(f, i) == Cardinality({k \in 1 .. i - 1 : Tok(f, k) = "newline"})

\* A place is at the end exactly behind the last token.
LEMMA TokEnd ==
    ASSUME NEW f \in Seq(IniTokens), NEW i \in 1 .. Len(f) + 1
    PROVE  /\ Tok(f, i) = "end" <=> i = Len(f) + 1
           /\ i <= Len(f) => Tok(f, i) \in IniTokens
<1>1. "end" \notin IniTokens
  BY IniAssumption DEF IniTokens, Characters
<1>2. Len(f) \in Nat /\ \A k \in 1 .. Len(f) : f[k] \in IniTokens
  OBVIOUS
<1> QED
  BY <1>1, <1>2 DEF Tok

\* The number of a line counts the newlines before it.
LEMMA LineFirst == ASSUME NEW f PROVE LineAt(f, 1) = 0
<1>1. {k \in 1 .. 1 - 1 : Tok(f, k) = "newline"} = {}
  OBVIOUS
<1>2. Cardinality({}) = 0
  BY FS_EmptySet
<1> QED
  BY <1>1, <1>2 DEF LineAt

\* Lines are numbered in order.
LEMMA LineOrder ==
    ASSUME NEW f, NEW i \in Nat, NEW j \in Nat, 1 <= i, i <= j
    PROVE  LineAt(f, i) \in Nat /\ LineAt(f, j) \in Nat /\ LineAt(f, i) <= LineAt(f, j)
<1> DEFINE A == {k \in 1 .. i - 1 : Tok(f, k) = "newline"}
           B == {k \in 1 .. j - 1 : Tok(f, k) = "newline"}
<1>1. IsFiniteSet(1 .. j - 1)
  BY FS_Interval
<1>2. B \subseteq 1 .. j - 1 /\ A \subseteq B
  OBVIOUS
<1> HIDE DEF A, B
<1>3. IsFiniteSet(B)
  BY <1>1, <1>2, FS_Subset, Zenon
<1>4. IsFiniteSet(A) /\ Cardinality(A) <= Cardinality(B)
  BY <1>2, <1>3, FS_Subset, Zenon
<1>5. Cardinality(A) \in Nat /\ Cardinality(B) \in Nat
  BY <1>3, <1>4, FS_CardinalityType, Zenon
<1> QED
  BY <1>4, <1>5 DEF LineAt, A, B

\* The next line begins behind a newline.
LEMMA LineStep ==
    ASSUME NEW f, NEW i \in Nat, 1 <= i
    PROVE  LineAt(f, i + 1) = LineAt(f, i) + (IF Tok(f, i) = "newline" THEN 1 ELSE 0)
<1> DEFINE A == {k \in 1 .. i - 1 : Tok(f, k) = "newline"}
           B == {k \in 1 .. i : Tok(f, k) = "newline"}
<1>1. IsFiniteSet(1 .. i - 1)
  BY FS_Interval
<1>2. IsFiniteSet(A)
  BY <1>1, FS_Subset, Zenon
<1>3. LineAt(f, i) = Cardinality(A) /\ LineAt(f, i + 1) = Cardinality(B) /\ Cardinality(A) \in Nat
  <2>1. (i + 1) - 1 = i
    OBVIOUS
  <2>2. Cardinality(A) \in Nat
    BY <1>2, FS_CardinalityType, Zenon
  <2> QED
    BY <2>1, <2>2, Zenon DEF LineAt
<1>4. CASE Tok(f, i) = "newline"
  <2>1. B = A \cup {i} /\ i \notin A
    BY <1>4
  <2>2. Cardinality(A \cup {i}) = Cardinality(A) + 1
    BY <2>1, <1>2, FS_AddElement
  <2> QED
    BY <2>1, <2>2, <1>3, <1>4
<1>5. CASE Tok(f, i) # "newline"
  <2>1. B = A
    BY <1>5
  <2> QED
    BY <2>1, <1>3, <1>5
<1> QED
  BY <1>4, <1>5

\* Places without a newline between them are in one line.
LEMMA LineSame ==
    ASSUME NEW f, NEW i \in Nat, NEW j \in Nat, 1 <= i, i <= j,
           \A k \in i .. j - 1 : Tok(f, k) # "newline"
    PROVE  LineAt(f, i) = LineAt(f, j)
<1>1. {k \in 1 .. i - 1 : Tok(f, k) = "newline"} = {k \in 1 .. j - 1 : Tok(f, k) = "newline"}
  OBVIOUS
<1> QED
  BY <1>1 DEF LineAt

\* A set of naturals that is not empty has a least element.
LEMMA LeastPlace ==
    ASSUME NEW S \in SUBSET Nat, S # {}
    PROVE  \E n \in S : \A m \in S : n <= m
<1>1. PICK x \in S : \A y \in S : ~ (<<y, x>> \in OpToRel(<, Nat))
  BY NatLessThanWellFounded, WFMin, Zenon
<1>2. \A y \in S : ~ (y < x)
  BY <1>1 DEF OpToRel
<1> QED
  BY <1>2

\* The places from i on that are no space.
AfterSpacesOf(f, i) ==
    CHOOSE j \in i .. Len(f) + 1 : Tok(f, j) # "space" /\ \A k \in i .. j - 1 : Tok(f, k) = "space"

\* There is one, at the end of the file at the latest.
LEMMA SpacesFound ==
    ASSUME NEW f \in Seq(IniTokens), NEW i \in 1 .. Len(f) + 1
    PROVE  /\ AfterSpacesOf(f, i) \in i .. Len(f) + 1
           /\ Tok(f, AfterSpacesOf(f, i)) # "space"
           /\ \A k \in i .. AfterSpacesOf(f, i) - 1 : Tok(f, k) = "space"
<1> DEFINE n == Len(f)
           S == {j \in i .. n + 1 : Tok(f, j) # "space"}
<1>1. n \in Nat /\ i \in Nat /\ i <= n + 1
  OBVIOUS
<1>a. Tok(f, n + 1) = "end"
  BY <1>1 DEF Tok
<1>2. n + 1 \in S /\ S \in SUBSET Nat
  BY <1>1, <1>a
<1>3. PICK j \in S : \A m \in S : j <= m
  BY <1>2, LeastPlace, Zenon
<1> HIDE DEF n
<1>4. j \in i .. n + 1 /\ Tok(f, j) # "space" /\ \A k \in i .. j - 1 : Tok(f, k) = "space"
  <2>1. ASSUME NEW k \in i .. j - 1 PROVE Tok(f, k) = "space"
    <3>0. j \in i .. n + 1
      BY <1>3
    <3>1. k \in i .. n + 1 /\ ~(j <= k)
      BY <1>1, <3>0
    <3> QED
      BY <3>1, <1>3
  <2> QED
    BY <2>1, <1>3
<1> QED
  BY <1>4, Zenon DEF AfterSpacesOf, n

\* The end of the line from a semicolon on.
AfterCommentOf(f, i) ==
    IF Tok(f, i) # "semicolon" THEN i
    ELSE CHOOSE j \in i .. Len(f) + 1 :
             Tok(f, j) \in {"newline", "end"} /\ \A k \in i .. j - 1 : Tok(f, k) # "newline"

\* A comment ends in its line.
LEMMA CommentFound ==
    ASSUME NEW f \in Seq(IniTokens), NEW i \in 1 .. Len(f) + 1
    PROVE  /\ AfterCommentOf(f, i) \in i .. Len(f) + 1
           /\ \A k \in i .. AfterCommentOf(f, i) - 1 : Tok(f, k) # "newline"
<1> DEFINE n == Len(f)
           S == {j \in i .. n + 1 : Tok(f, j) \in {"newline", "end"}}
<1>1. n \in Nat /\ i \in Nat /\ i <= n + 1
  OBVIOUS
<1>a. Tok(f, n + 1) = "end"
  BY <1>1 DEF Tok
<1>2. n + 1 \in S /\ S \in SUBSET Nat
  BY <1>1, <1>a
<1>3. PICK j \in S : \A m \in S : j <= m
  BY <1>2, LeastPlace, Zenon
<1> HIDE DEF n
<1>4. j \in i .. n + 1 /\ Tok(f, j) \in {"newline", "end"} /\ \A k \in i .. j - 1 : Tok(f, k) # "newline"
  <2>1. ASSUME NEW k \in i .. j - 1 PROVE Tok(f, k) # "newline"
    <3>0. j \in i .. n + 1
      BY <1>3
    <3>1. k \in i .. n + 1 /\ ~(j <= k)
      BY <1>1, <3>0
    <3> QED
      BY <3>1, <1>3
  <2> QED
    BY <2>1, <1>3
<1>5. CASE Tok(f, i) # "semicolon"
  <2>1. AfterCommentOf(f, i) = i
    BY <1>5 DEF AfterCommentOf
  <2> QED
    BY <2>1, <1>1 DEF n
<1>6. CASE Tok(f, i) = "semicolon"
  BY <1>4, <1>6, Zenon DEF AfterCommentOf, n
<1> QED
  BY <1>5, <1>6

-----------------------------------------------------------------------------

\* Place i holds the first token of line l that is no space.
IsFirst(f, l, i) ==
    /\ i \in 1 .. Len(f) + 1
    /\ LineAt(f, i) = l /\ Tok(f, i) # "space"
    /\ \A k \in 1 .. i - 1 : LineAt(f, k) = l => Tok(f, k) = "space"

FirstOf(f, l) ==
    CHOOSE i \in 1 .. Len(f) + 1 :
        LineAt(f, i) = l /\ Tok(f, i) # "space"
          /\ \A k \in 1 .. i - 1 : LineAt(f, k) = l => Tok(f, k) = "space"

\* There is only one such place.
LEMMA FirstIs ==
    ASSUME NEW f \in Seq(IniTokens), NEW l, NEW i, IsFirst(f, l, i)
    PROVE  FirstOf(f, l) = i
<1>1. IsFirst(f, l, FirstOf(f, l))
  BY Zenon DEF IsFirst, FirstOf
<1>2. ASSUME NEW a, NEW b, IsFirst(f, l, a), IsFirst(f, l, b) PROVE ~(a < b)
  <2> SUFFICES ASSUME a < b PROVE FALSE
    OBVIOUS
  <2>1. a \in 1 .. b - 1
    BY <1>2 DEF IsFirst
  <2> QED
    BY <1>2, <2>1 DEF IsFirst
<1>3. ~(FirstOf(f, l) < i) /\ ~(i < FirstOf(f, l))
  BY <1>1, <1>2
<1> QED
  BY <1>1, <1>3 DEF IsFirst

\* Place p is where a line begins.
BeginsLine(f, p) == p \in 1 .. Len(f) + 1 /\ (p = 1 \/ Tok(f, p - 1) = "newline")

\* The first token of a line is what AfterSpaces finds from its beginning.
LEMMA FirstFound ==
    ASSUME NEW f \in Seq(IniTokens), NEW p, BeginsLine(f, p)
    PROVE  /\ IsFirst(f, LineAt(f, p), AfterSpacesOf(f, p))
           /\ LineAt(f, AfterSpacesOf(f, p)) = LineAt(f, p)
<1> DEFINE i == AfterSpacesOf(f, p)
           l == LineAt(f, p)
<1>1. p \in Nat /\ 1 <= p /\ p \in 1 .. Len(f) + 1 /\ Len(f) \in Nat
  BY DEF BeginsLine
<1>2. i \in p .. Len(f) + 1 /\ Tok(f, i) # "space" /\ \A k \in p .. i - 1 : Tok(f, k) = "space"
  BY <1>1, SpacesFound, Zenon
<1> HIDE DEF i
<1>3. i \in Nat /\ p <= i /\ i \in 1 .. Len(f) + 1
  BY <1>1, <1>2
<1>4. \A k \in p .. i - 1 : Tok(f, k) # "newline"
  BY <1>2
<1>5. LineAt(f, i) = l
  BY <1>1, <1>3, <1>4, LineSame
<1>6. ASSUME NEW k \in 1 .. i - 1, LineAt(f, k) = l, k < p PROVE FALSE
  <2>1. k \in Nat /\ 1 <= k /\ p - 1 \in Nat /\ 1 <= p - 1 /\ k <= p - 1 /\ (p - 1) + 1 = p
    BY <1>1, <1>3, <1>6
  <2>2. Tok(f, p - 1) = "newline"
    BY <2>1, <1>1 DEF BeginsLine
  <2>3. LineAt(f, (p - 1) + 1) = LineAt(f, p - 1) + 1
    BY <2>1, <2>2, LineStep
  <2>4. LineAt(f, k) \in Nat /\ LineAt(f, p - 1) \in Nat /\ LineAt(f, k) <= LineAt(f, p - 1)
    BY <2>1, LineOrder
  <2> HIDE DEF l
  <2>5. l = LineAt(f, p - 1) + 1
    BY <2>1, <2>3 DEF l
  <2> QED
    BY <2>4, <2>5, <1>6
<1>7. \A k \in 1 .. i - 1 : LineAt(f, k) = l => Tok(f, k) = "space"
  <2> SUFFICES ASSUME NEW k \in 1 .. i - 1, LineAt(f, k) = l PROVE Tok(f, k) = "space"
    OBVIOUS
  <2>1. ~(k < p)
    BY <1>6
  <2>2. k \in p .. i - 1
    BY <2>1, <1>1, <1>3
  <2> QED
    BY <2>2, <1>2, Zenon
<1> QED
  BY <1>2, <1>3, <1>5, <1>7, Zenon DEF IsFirst, i

\* The first place from i on with a token of a set.
FirstIn(f, i, T) ==
    CHOOSE j \in i .. Len(f) : Tok(f, j) \in T /\ \A k \in i .. j - 1 : Tok(f, k) \notin T

\* There is only one.
LEMMA FirstInIs ==
    ASSUME NEW f \in Seq(IniTokens), NEW i \in Nat, NEW T, NEW j \in i .. Len(f),
           Tok(f, j) \in T, \A k \in i .. j - 1 : Tok(f, k) \notin T
    PROVE  FirstIn(f, i, T) = j
<1> DEFINE P(x) == x \in i .. Len(f) /\ Tok(f, x) \in T /\ \A k \in i .. x - 1 : Tok(f, k) \notin T
           g == FirstIn(f, i, T)
<1>1. P(g)
  BY Zenon DEF FirstIn
<1>2. P(j)
  OBVIOUS
<1>3. Len(f) \in Nat
  OBVIOUS
<1> HIDE DEF g
<1>4. ~(g < j)
  <2> SUFFICES ASSUME g < j PROVE FALSE
    OBVIOUS
  <2>1. g \in i .. j - 1
    BY <1>1, <1>3
  <2> QED
    BY <2>1, <1>1, <1>2, Zenon
<1>5. ~(j < g)
  <2> SUFFICES ASSUME j < g PROVE FALSE
    OBVIOUS
  <2>1. j \in i .. g - 1
    BY <1>1, <1>3
  <2> QED
    BY <2>1, <1>1, <1>2, Zenon
<1>6. g \in Int /\ j \in Int
  BY <1>1, <1>3
<1> QED
  BY <1>4, <1>5, <1>6 DEF g

-----------------------------------------------------------------------------

\* The headers among the first m lines, and the name in a header.
Headers(f, m) == {h \in 0 .. m - 1 : Tok(f, FirstOf(f, h)) = "["}
NameIn(f, h) == Tok(f, FirstIn(f, FirstOf(f, h), Idents))
LastIn(S) == CHOOSE h \in S : \A g \in S : g <= h
SectionAt(f, m) == IF Headers(f, m) = {} THEN NoSection ELSE NameIn(f, LastIn(Headers(f, m)))

\* The greatest of a set.
LEMMA LastIs ==
    ASSUME NEW S \in SUBSET Int, NEW m \in S, \A g \in S : g <= m
    PROVE  LastIn(S) = m
<1>1. LastIn(S) \in S /\ \A g \in S : g <= LastIn(S)
  BY Zenon DEF LastIn
<1>2. m <= LastIn(S) /\ LastIn(S) <= m /\ m \in Int /\ LastIn(S) \in Int
  BY <1>1, Zenon
<1> QED
  BY <1>2

\* A header names the section of what comes below it.
LEMMA SectionStep ==
    ASSUME NEW f, NEW m \in Nat
    PROVE  SectionAt(f, m + 1) = IF Tok(f, FirstOf(f, m)) = "[" THEN NameIn(f, m) ELSE SectionAt(f, m)
<1>0. (m + 1) - 1 = m
  OBVIOUS
<1>1. CASE Tok(f, FirstOf(f, m)) = "["
  <2>1. m \in Headers(f, m + 1) /\ Headers(f, m + 1) \in SUBSET Int /\ \A g \in Headers(f, m + 1) : g <= m
    BY <1>1 DEF Headers
  <2>2. LastIn(Headers(f, m + 1)) = m
    BY <2>1, LastIs, Zenon
  <2> QED
    BY <1>1, <2>1, <2>2 DEF SectionAt
<1>2. CASE Tok(f, FirstOf(f, m)) # "["
  <2>1. Headers(f, m + 1) = Headers(f, m)
    BY <1>2 DEF Headers
  <2> QED
    BY <1>2, <2>1 DEF SectionAt
<1> QED
  BY <1>1, <1>2

\* The lines with a key among the first m, what they set and to which value.
KeysIn(f, m) == {l \in 0 .. m - 1 : Tok(f, FirstOf(f, l)) \in Idents}
KeyAt(f, l) == <<SectionAt(f, l), Tok(f, FirstOf(f, l))>>
ValueAt(f, l) == Tok(f, FirstIn(f, FirstOf(f, l), IniValues))
SettingIn(f, m, x) == {l \in KeysIn(f, m) : KeyAt(f, l) = x}

\* The config holds what the first m lines say.
HoldsLines(f, m, prs) ==
    /\ DOMAIN prs = {KeyAt(f, l) : l \in KeysIn(f, m)}
    /\ \A x \in DOMAIN prs : prs[x] = ValueAt(f, LastIn(SettingIn(f, m, x)))

\* A line without a key adds nothing.
LEMMA HoldsOther ==
    ASSUME NEW f, NEW m \in Nat, NEW prs, HoldsLines(f, m, prs), Tok(f, FirstOf(f, m)) \notin Idents
    PROVE  HoldsLines(f, m + 1, prs)
<1>1. KeysIn(f, m + 1) = KeysIn(f, m)
  BY DEF KeysIn
<1> QED
  BY <1>1 DEF HoldsLines, SettingIn

\* A line with a key sets it.
LEMMA HoldsKey ==
    ASSUME NEW f, NEW m \in Nat, NEW prs, HoldsLines(f, m, prs), Tok(f, FirstOf(f, m)) \in Idents
    PROVE  HoldsLines(f, m + 1, With(prs, KeyAt(f, m), ValueAt(f, m)))
<1> DEFINE y == KeyAt(f, m)
           v == ValueAt(f, m)
           new == With(prs, y, v)
<1>1. KeysIn(f, m + 1) = KeysIn(f, m) \cup {m} /\ m \notin KeysIn(f, m)
  BY DEF KeysIn
<1>2. KeysIn(f, m + 1) \in SUBSET Int /\ \A g \in KeysIn(f, m + 1) : g <= m
  BY DEF KeysIn
<1> HIDE DEF y, v
<1>3. DOMAIN new = DOMAIN prs \cup {y} /\ new[y] = v /\ \A x \in DOMAIN prs : x # y => new[x] = prs[x]
  BY DEF With
<1> HIDE DEF new
<1>4. DOMAIN new = {KeyAt(f, l) : l \in KeysIn(f, m + 1)}
  <2>1. DOMAIN prs = {KeyAt(f, l) : l \in KeysIn(f, m)}
    BY DEF HoldsLines
  <2> QED
    BY <2>1, <1>1, <1>3, Zenon DEF y
<1>5. new[y] = ValueAt(f, LastIn(SettingIn(f, m + 1, y)))
  <2>1. m \in SettingIn(f, m + 1, y) /\ SettingIn(f, m + 1, y) \in SUBSET Int
        /\ \A g \in SettingIn(f, m + 1, y) : g <= m
    BY <1>1, <1>2, Zenon DEF SettingIn, y
  <2>2. LastIn(SettingIn(f, m + 1, y)) = m
    BY <2>1, LastIs, Zenon
  <2> QED
    BY <2>2, <1>3 DEF v
<1>6. ASSUME NEW x \in DOMAIN new, x # y
      PROVE  new[x] = ValueAt(f, LastIn(SettingIn(f, m + 1, x)))
  <2>1. SettingIn(f, m + 1, x) = SettingIn(f, m, x)
    BY <1>1, <1>6, Zenon DEF SettingIn, y
  <2>2. x \in DOMAIN prs /\ new[x] = prs[x]
    BY <1>3, <1>6, Zenon
  <2>3. prs[x] = ValueAt(f, LastIn(SettingIn(f, m, x)))
    BY <2>2, Zenon DEF HoldsLines
  <2> QED
    BY <2>1, <2>2, <2>3, Zenon
<1>7. HoldsLines(f, m + 1, new)
  BY <1>4, <1>5, <1>6, Zenon DEF HoldsLines
<1> QED
  BY <1>7 DEF new, y, v

-----------------------------------------------------------------------------

\* What the operators of the model are for the file that is loaded.
LEMMA OfThisFile ==
    /\ \A i : At(i) = Tok(file, i)
    /\ \A i : AfterSpaces(i) = AfterSpacesOf(file, i)
    /\ \A i : AfterComment(i) = AfterCommentOf(file, i)
    /\ \A i : LineOf(i) = LineAt(file, i)
    /\ \A l : HeadOf(l) = FirstOf(file, l)
<1>1. \A i : At(i) = Tok(file, i)
  BY DEF At, Tok
<1>2. \A i : AfterSpaces(i) = AfterSpacesOf(file, i)
  BY <1>1, Zenon DEF AfterSpaces, AfterSpacesOf
<1>3. \A i : AfterComment(i) = AfterCommentOf(file, i)
  BY Zenon DEF AfterComment, AfterCommentOf, At, Tok
<1>4. \A i : LineOf(i) = LineAt(file, i)
  BY <1>1, Zenon DEF LineOf, LineAt
<1>5. \A l : HeadOf(l) = FirstOf(file, l)
  BY <1>1, <1>4, Zenon DEF HeadOf, FirstOf
<1> QED
  BY <1>1, <1>2, <1>3, <1>4, <1>5

\* Config and section are what the first m lines say.
ReadLines(f, m, sec, prs) == HoldsLines(f, m, prs) /\ sec = SectionAt(f, m)

\* What each state of the parser at place p of file f means.
AtLine(f, p, sec, prs) ==
    \/ BeginsLine(f, p) /\ ReadLines(f, LineAt(f, p), sec, prs)
    \/ p = Len(f) + 1 /\ ReadLines(f, LineAt(f, p) + 1, sec, prs)
AtFirst(f, p, sec, prs) == IsFirst(f, LineAt(f, p), p) /\ ReadLines(f, LineAt(f, p), sec, prs)
AtTail(f, p, sec, prs) == ReadLines(f, LineAt(f, p) + 1, sec, prs)
AtEnd(f, p, prs) == p = Len(f) + 1 /\ HoldsLines(f, LineAt(f, p) + 1, prs)
Kept(f, p, prs) == HoldsLines(f, LineAt(f, p), prs) \/ HoldsLines(f, LineAt(f, p) + 1, prs)

IniOK(f, p, pc, sec, prs) ==
    /\ f \in Seq(IniTokens) /\ p \in 1 .. Len(f) + 1
    /\ pc \in {"idle", "line", "section", "key", "tail", "done", "threw"}
    /\ pc = "line" => AtLine(f, p, sec, prs)
    /\ pc = "section" => AtFirst(f, p, sec, prs) /\ Tok(f, p) = "["
    /\ pc = "key" => AtFirst(f, p, sec, prs) /\ Tok(f, p) \in Idents
    /\ pc = "tail" => AtTail(f, p, sec, prs)
    /\ pc = "done" => AtEnd(f, p, prs)
    /\ pc = "threw" => Kept(f, p, prs)

\* The inductive invariant.
IniInv == IniOK(file, iniAt, iniPc, currentSection, pairs)

\* A line that begins with neither a key nor a header.
LEMMA ReadOther ==
    ASSUME NEW f \in Seq(IniTokens), NEW m \in Nat, NEW sec, NEW prs, NEW i,
           ReadLines(f, m, sec, prs), IsFirst(f, m, i), Tok(f, i) \notin Idents, Tok(f, i) # "["
    PROVE  ReadLines(f, m + 1, sec, prs)
<1>1. FirstOf(f, m) = i
  BY FirstIs
<1>2. HoldsLines(f, m + 1, prs)
  BY <1>1, HoldsOther DEF ReadLines
<1>3. SectionAt(f, m + 1) = SectionAt(f, m)
  BY <1>1, SectionStep
<1> QED
  BY <1>2, <1>3 DEF ReadLines

\* Places between which no newline is are in one line.
LEMMA Along ==
    ASSUME NEW f \in Seq(IniTokens), NEW i \in 1 .. Len(f) + 1, Tok(f, i) # "newline", Tok(f, i) # "end"
    PROVE  /\ i \in 1 .. Len(f) /\ i + 1 \in 1 .. Len(f) + 1 /\ LineAt(f, i + 1) = LineAt(f, i)
           /\ LineAt(f, i) \in Nat
<1>1. Len(f) \in Nat /\ i \in Nat /\ 1 <= i /\ i # Len(f) + 1
  BY TokEnd
<1>2. LineAt(f, i + 1) = LineAt(f, i) + (IF Tok(f, i) = "newline" THEN 1 ELSE 0)
  BY <1>1, LineStep, Zenon
<1>3. LineAt(f, i) \in Nat
  BY <1>1, LineOrder
<1> QED
  BY <1>1, <1>2, <1>3

\* Spaces do not leave the line.
LEMMA AlongSpaces ==
    ASSUME NEW f \in Seq(IniTokens), NEW i \in 1 .. Len(f) + 1
    PROVE  /\ AfterSpacesOf(f, i) \in 1 .. Len(f) + 1 /\ AfterSpacesOf(f, i) >= i
           /\ LineAt(f, AfterSpacesOf(f, i)) = LineAt(f, i)
           /\ LineAt(f, i) \in Nat
           /\ \A k \in i .. AfterSpacesOf(f, i) - 1 : Tok(f, k) = "space"
<1> DEFINE j == AfterSpacesOf(f, i)
<1>1. j \in i .. Len(f) + 1 /\ \A k \in i .. j - 1 : Tok(f, k) = "space"
  BY SpacesFound, Zenon
<1> HIDE DEF j
<1>2. Len(f) \in Nat /\ i \in Nat /\ 1 <= i /\ j \in Nat /\ i <= j /\ \A k \in i .. j - 1 : Tok(f, k) # "newline"
  BY <1>1
<1>3. LineAt(f, i) = LineAt(f, j) /\ LineAt(f, i) \in Nat
  BY <1>2, LineSame, LineOrder
<1>4. j \in 1 .. Len(f) + 1 /\ j >= i
  BY <1>1, <1>2
<1> QED
  BY <1>1, <1>3, <1>4, Zenon DEF j

\* Neither does a comment.
LEMMA AlongComment ==
    ASSUME NEW f \in Seq(IniTokens), NEW i \in 1 .. Len(f) + 1
    PROVE  /\ AfterCommentOf(f, i) \in 1 .. Len(f) + 1
           /\ LineAt(f, AfterCommentOf(f, i)) = LineAt(f, i)
<1> DEFINE j == AfterCommentOf(f, i)
<1>1. j \in i .. Len(f) + 1 /\ \A k \in i .. j - 1 : Tok(f, k) # "newline"
  BY CommentFound, Zenon
<1> HIDE DEF j
<1>2. Len(f) \in Nat /\ i \in Nat /\ 1 <= i /\ j \in Nat /\ i <= j
  BY <1>1
<1>3. LineAt(f, i) = LineAt(f, j)
  BY <1>1, <1>2, LineSame
<1>4. j \in 1 .. Len(f) + 1
  BY <1>1, <1>2
<1> QED
  BY <1>3, <1>4 DEF j

\* Before the first line nothing was read.
LEMMA NothingRead ==
    ASSUME NEW f \in Seq(IniTokens)
    PROVE  /\ IniOK(f, 1, "line", NoSection, EmptyPairs)
           /\ \A sec : IniOK(f, 1, "threw", sec, EmptyPairs)
<1>1. KeysIn(f, 0) = {} /\ Headers(f, 0) = {}
  BY DEF KeysIn, Headers
<1>2. DOMAIN EmptyPairs = {}
  BY DEF EmptyPairs
<1>3. ReadLines(f, 0, NoSection, EmptyPairs)
  BY <1>1, <1>2 DEF ReadLines, HoldsLines, SectionAt
<1>4. BeginsLine(f, 1)
  BY DEF BeginsLine
<1>5. AtLine(f, 1, NoSection, EmptyPairs)
  BY <1>3, <1>4, LineFirst DEF AtLine
<1>6. 1 \in 1 .. Len(f) + 1
  OBVIOUS
<1>7. Kept(f, 1, EmptyPairs)
  BY <1>3, LineFirst DEF Kept, ReadLines
<1> QED
  BY <1>5, <1>6, <1>7 DEF IniOK

\* ParseLine finds the first token of the line, and at the end of the file a
\* line without one.
LEMMA LineRead ==
    ASSUME NEW f, NEW p, NEW sec, NEW prs, IniOK(f, p, "line", sec, prs)
    PROVE  LET i == AfterSpacesOf(f, p)
           IN  /\ Tok(f, i) = "end" => IniOK(f, i, "done", sec, prs)
               /\ Tok(f, i) = "[" => IniOK(f, i, "section", sec, prs)
               /\ Tok(f, i) \in Idents => IniOK(f, i, "key", sec, prs)
               /\ Tok(f, i) \notin Idents \cup {"end", "["} => IniOK(f, i, "tail", sec, prs)
<1> DEFINE i == AfterSpacesOf(f, p)
           m == LineAt(f, p)
<1>1. f \in Seq(IniTokens) /\ p \in 1 .. Len(f) + 1 /\ AtLine(f, p, sec, prs)
  BY DEF IniOK
<1>2. i \in 1 .. Len(f) + 1 /\ i >= p /\ LineAt(f, i) = m /\ m \in Nat
  BY <1>1, AlongSpaces, Zenon
<1>e. /\ "end" \notin Idents /\ "end" # "["
      /\ Tok(f, i) = "end" <=> i = Len(f) + 1
  BY <1>1, <1>2, TokEnd, IniAssumption DEF Characters
<1> HIDE DEF i, m
<1>3. CASE BeginsLine(f, p) /\ ReadLines(f, m, sec, prs)
  <2>1. IsFirst(f, m, i)
    BY <1>1, <1>3, FirstFound, Zenon DEF i, m
  <2>2. AtFirst(f, i, sec, prs)
    BY <2>1, <1>2, <1>3, Zenon DEF AtFirst
  <2>3. Tok(f, i) \notin Idents /\ Tok(f, i) # "[" => ReadLines(f, m + 1, sec, prs)
    BY <1>1, <1>2, <1>3, <2>1, ReadOther, Zenon
  <2>4. Tok(f, i) = "end" => AtEnd(f, i, prs)
    BY <1>2, <1>e, <2>3 DEF AtEnd, ReadLines
  <2>5. Tok(f, i) \notin Idents \cup {"end", "["} => AtTail(f, i, sec, prs)
    BY <1>2, <2>3 DEF AtTail
  <2> QED
    BY <1>1, <1>2, <2>2, <2>4, <2>5 DEF IniOK, i
<1>4. CASE p = Len(f) + 1 /\ ReadLines(f, m + 1, sec, prs)
  <2>1. i = Len(f) + 1
    BY <1>1, <1>2, <1>4
  <2>2. Tok(f, i) = "end" /\ AtEnd(f, i, prs)
    BY <2>1, <1>e, <1>2, <1>4 DEF AtEnd, ReadLines
  <2>3. Tok(f, i) \notin Idents /\ Tok(f, i) # "["
    BY <2>2, <1>e
  <2> QED
    BY <1>1, <1>2, <2>2, <2>3 DEF IniOK, i
<1> QED
  BY <1>1, <1>3, <1>4 DEF AtLine, m

\* The rest of a line.
LEMMA TailRead ==
    ASSUME NEW f, NEW p, NEW sec, NEW prs, IniOK(f, p, "tail", sec, prs)
    PROVE  LET rest == AfterCommentOf(f, AfterSpacesOf(f, p))
               line == IF Tok(f, rest) = "return" THEN rest + 1 ELSE rest
           IN  /\ Tok(f, line) = "end" => IniOK(f, line, "line", sec, prs)
               /\ Tok(f, line) = "newline" => IniOK(f, line + 1, "line", sec, prs)
               /\ Tok(f, line) \notin {"end", "newline"} => IniOK(f, line, "threw", sec, prs)
<1> DEFINE i == AfterSpacesOf(f, p)
           rest == AfterCommentOf(f, i)
           line == IF Tok(f, rest) = "return" THEN rest + 1 ELSE rest
           m == LineAt(f, p)
<1>1. f \in Seq(IniTokens) /\ p \in 1 .. Len(f) + 1 /\ ReadLines(f, m + 1, sec, prs)
  BY DEF IniOK, AtTail
<1>2. i \in 1 .. Len(f) + 1 /\ LineAt(f, i) = m /\ m \in Nat
  BY <1>1, AlongSpaces, Zenon
<1> HIDE DEF i, m
<1>3. rest \in 1 .. Len(f) + 1 /\ LineAt(f, rest) = m
  BY <1>1, <1>2, AlongComment, Zenon
<1> HIDE DEF rest
<1>4. line \in 1 .. Len(f) + 1 /\ LineAt(f, line) = m
  <2>1. CASE Tok(f, rest) = "return"
    <3>1. Tok(f, rest) # "newline" /\ Tok(f, rest) # "end"
      BY <2>1
    <3>2. rest + 1 \in 1 .. Len(f) + 1 /\ LineAt(f, rest + 1) = m
      BY <1>1, <1>3, <3>1, Along
    <3> QED
      BY <2>1, <3>2
  <2>2. CASE Tok(f, rest) # "return"
    BY <2>2, <1>3
  <2> QED
    BY <2>1, <2>2
<1> HIDE DEF line
<1>5. ASSUME Tok(f, line) = "end" PROVE IniOK(f, line, "line", sec, prs)
  <2>1. line = Len(f) + 1
    BY <1>1, <1>4, <1>5, TokEnd
  <2>2. AtLine(f, line, sec, prs)
    BY <2>1, <1>1, <1>4 DEF AtLine
  <2> QED
    BY <2>2, <1>1, <1>4 DEF IniOK
<1>6. ASSUME Tok(f, line) = "newline" PROVE IniOK(f, line + 1, "line", sec, prs)
  <2>1. line # Len(f) + 1 /\ line \in Nat /\ 1 <= line /\ Len(f) \in Nat
    BY <1>1, <1>4, <1>6, TokEnd
  <2>2. LineAt(f, line + 1) = m + 1
    BY <2>1, <1>4, <1>6, LineStep
  <2>3. line + 1 \in 1 .. Len(f) + 1 /\ (line + 1) - 1 = line
    BY <2>1, <1>4
  <2>4. BeginsLine(f, line + 1)
    BY <2>3, <1>6 DEF BeginsLine
  <2>5. AtLine(f, line + 1, sec, prs)
    BY <2>2, <2>4, <1>1, Zenon DEF AtLine
  <2> QED
    BY <2>3, <2>5, <1>1 DEF IniOK
<1>7. IniOK(f, line, "threw", sec, prs)
  <2>1. HoldsLines(f, LineAt(f, line) + 1, prs)
    BY <1>1, <1>4, Zenon DEF ReadLines
  <2>2. Kept(f, line, prs)
    BY <2>1, Zenon DEF Kept
  <2> QED
    BY <2>2, <1>1, <1>4 DEF IniOK
<1> QED
  BY <1>5, <1>6, <1>7 DEF line, rest, i

\* ReadSection takes the name between the brackets for the current section.
LEMMA SectionRead ==
    ASSUME NEW f, NEW p, NEW sec, NEW prs, IniOK(f, p, "section", sec, prs)
    PROVE  LET name == AfterSpacesOf(f, p + 1)
               close == AfterSpacesOf(f, name + 1)
           IN  /\ Tok(f, name) \notin Idents => IniOK(f, name, "threw", sec, prs)
               /\ Tok(f, name) \in Idents =>
                      /\ Tok(f, close) = "]" => IniOK(f, close + 1, "tail", Tok(f, name), prs)
                      /\ Tok(f, close) # "]" => IniOK(f, close, "threw", Tok(f, name), prs)
<1> DEFINE name == AfterSpacesOf(f, p + 1)
           close == AfterSpacesOf(f, name + 1)
           m == LineAt(f, p)
<1>1. /\ f \in Seq(IniTokens) /\ p \in 1 .. Len(f) + 1 /\ Tok(f, p) = "["
      /\ IsFirst(f, m, p) /\ ReadLines(f, m, sec, prs)
  BY DEF IniOK, AtFirst
<1>a. /\ "[" \notin Idents /\ "space" \notin Idents
      /\ \A t \in Idents : t # "newline" /\ t # "end"
  BY IniAssumption DEF Characters
<1> HIDE DEF m
<1>2. p + 1 \in 1 .. Len(f) + 1 /\ LineAt(f, p + 1) = m /\ m \in Nat
  <2>1. Tok(f, p) # "newline" /\ Tok(f, p) # "end"
    BY <1>1
  <2> QED
    BY <2>1, <1>1, Along DEF m
<1>3. /\ name \in 1 .. Len(f) + 1 /\ name >= p + 1 /\ LineAt(f, name) = m
      /\ \A k \in p + 1 .. name - 1 : Tok(f, k) = "space"
  BY <1>1, <1>2, AlongSpaces, Zenon
<1> HIDE DEF name
<1>4. HoldsLines(f, m, prs)
  BY <1>1 DEF ReadLines
<1>5. IniOK(f, name, "threw", sec, prs)
  <2>1. Kept(f, name, prs)
    BY <1>3, <1>4, Zenon DEF Kept
  <2> QED
    BY <2>1, <1>1, <1>3 DEF IniOK
<1>6. ASSUME Tok(f, name) \in Idents
      PROVE  /\ Tok(f, close) = "]" => IniOK(f, close + 1, "tail", Tok(f, name), prs)
             /\ Tok(f, close) # "]" => IniOK(f, close, "threw", Tok(f, name), prs)
  <2>1. /\ name + 1 \in 1 .. Len(f) + 1 /\ LineAt(f, name + 1) = m
        /\ name \in 1 .. Len(f)
    BY <1>1, <1>3, <1>6, <1>a, Along
  <2>2. close \in 1 .. Len(f) + 1 /\ LineAt(f, close) = m
    BY <1>1, <2>1, AlongSpaces, Zenon
  <2> HIDE DEF close
  <2>3. FirstOf(f, m) = p
    BY <1>1, FirstIs
  <2>4. NameIn(f, m) = Tok(f, name)
    <3>1. p \in Nat /\ name \in p .. Len(f)
      BY <1>1, <1>3, <2>1
    <3>2. \A k \in p .. name - 1 : Tok(f, k) \notin Idents
      <4> SUFFICES ASSUME NEW k \in p .. name - 1 PROVE Tok(f, k) \notin Idents
        OBVIOUS
      <4>1. k = p \/ k \in p + 1 .. name - 1
        BY <3>1
      <4> QED
        BY <4>1, <1>1, <1>3, <1>a, Zenon
    <3>3. FirstIn(f, p, Idents) = name
      BY <3>1, <3>2, <1>1, <1>6, FirstInIs
    <3> QED
      BY <2>3, <3>3, Zenon DEF NameIn
  <2>5. SectionAt(f, m + 1) = Tok(f, name)
    BY <2>3, <2>4, <1>1, <1>2, SectionStep
  <2>6. HoldsLines(f, m + 1, prs)
    BY <2>3, <1>1, <1>2, <1>4, <1>a, HoldsOther
  <2>7. ASSUME Tok(f, close) = "]" PROVE IniOK(f, close + 1, "tail", Tok(f, name), prs)
    <3>1. Tok(f, close) # "newline" /\ Tok(f, close) # "end"
      BY <2>7
    <3>2. close + 1 \in 1 .. Len(f) + 1 /\ LineAt(f, close + 1) = m
      BY <3>1, <2>2, <1>1, Along
    <3>3. AtTail(f, close + 1, Tok(f, name), prs)
      BY <3>2, <2>5, <2>6, Zenon DEF AtTail, ReadLines
    <3> QED
      BY <3>2, <3>3, <1>1 DEF IniOK
  <2>8. IniOK(f, close, "threw", Tok(f, name), prs)
    <3>1. Kept(f, close, prs)
      BY <2>2, <1>4, Zenon DEF Kept
    <3> QED
      BY <3>1, <1>1, <2>2 DEF IniOK
  <2> QED
    BY <2>7, <2>8
<1> QED
  BY <1>5, <1>6 DEF close, name

\* ReadKeyValue sets the key in the current section to the first value behind it.
LEMMA KeyRead ==
    ASSUME NEW f, NEW p, NEW sec, NEW prs, IniOK(f, p, "key", sec, prs)
    PROVE  LET divider == AfterSpacesOf(f, p + 1)
               value == IF Tok(f, divider) = "=" THEN AfterSpacesOf(f, divider + 1) ELSE divider
           IN  /\ IniOK(f, value, "threw", sec, prs)
               /\ Tok(f, value) \in IniValues =>
                      IniOK(f, value + 1, "tail", sec, With(prs, <<sec, Tok(f, p)>>, Tok(f, value)))
<1> DEFINE divider == AfterSpacesOf(f, p + 1)
           value == IF Tok(f, divider) = "=" THEN AfterSpacesOf(f, divider + 1) ELSE divider
           m == LineAt(f, p)
<1>1. /\ f \in Seq(IniTokens) /\ p \in 1 .. Len(f) + 1 /\ Tok(f, p) \in Idents
      /\ IsFirst(f, m, p) /\ ReadLines(f, m, sec, prs)
  BY DEF IniOK, AtFirst
<1>a. /\ "=" \notin IniValues /\ "space" \notin IniValues /\ "[" \notin Idents
      /\ \A t \in Idents : t # "newline" /\ t # "end" /\ t \notin IniValues
      /\ \A t \in IniValues : t # "newline" /\ t # "end"
  BY IniAssumption DEF Characters
<1> HIDE DEF m
<1>2. p + 1 \in 1 .. Len(f) + 1 /\ LineAt(f, p + 1) = m /\ m \in Nat
  BY <1>1, <1>a, Along DEF m
<1>3. /\ divider \in 1 .. Len(f) + 1 /\ divider >= p + 1 /\ LineAt(f, divider) = m
      /\ \A k \in p + 1 .. divider - 1 : Tok(f, k) = "space"
  BY <1>1, <1>2, AlongSpaces, Zenon
<1> HIDE DEF divider
<1>4. /\ value \in 1 .. Len(f) + 1 /\ value >= p + 1 /\ LineAt(f, value) = m
      /\ \A k \in p + 1 .. value - 1 : Tok(f, k) = "space" \/ Tok(f, k) = "="
  <2>1. CASE Tok(f, divider) = "="
    <3> DEFINE v == AfterSpacesOf(f, divider + 1)
    <3>1. Tok(f, divider) # "newline" /\ Tok(f, divider) # "end"
      BY <2>1
    <3>2. divider + 1 \in 1 .. Len(f) + 1 /\ LineAt(f, divider + 1) = m
      BY <3>1, <1>1, <1>3, Along
    <3>3. /\ v \in 1 .. Len(f) + 1 /\ v >= divider + 1 /\ LineAt(f, v) = m
          /\ \A k \in divider + 1 .. v - 1 : Tok(f, k) = "space"
      BY <3>2, <1>1, AlongSpaces, Zenon
    <3> HIDE DEF v
    <3>4. ASSUME NEW k \in p + 1 .. v - 1 PROVE Tok(f, k) = "space" \/ Tok(f, k) = "="
      <4>1. k \in p + 1 .. divider - 1 \/ k = divider \/ k \in divider + 1 .. v - 1
        BY <1>1, <1>3, <3>3
      <4> QED
        BY <4>1, <3>3, <1>3, <2>1, Zenon
    <3>5. v >= p + 1
      BY <1>1, <1>3, <3>3
    <3>6. value = v
      BY <2>1 DEF v
    <3> HIDE DEF value
    <3> QED
      BY <3>3, <3>4, <3>5, <3>6
  <2>2. CASE Tok(f, divider) # "="
    <3>1. value = divider
      BY <2>2
    <3> HIDE DEF value
    <3> QED
      BY <3>1, <1>3
  <2> QED
    BY <2>1, <2>2
<1> HIDE DEF value
<1>5. HoldsLines(f, m, prs) /\ sec = SectionAt(f, m)
  BY <1>1 DEF ReadLines
<1>6. IniOK(f, value, "threw", sec, prs)
  <2>1. Kept(f, value, prs)
    BY <1>4, <1>5, Zenon DEF Kept
  <2> QED
    BY <2>1, <1>1, <1>4 DEF IniOK
<1>7. ASSUME Tok(f, value) \in IniValues
      PROVE  IniOK(f, value + 1, "tail", sec, With(prs, <<sec, Tok(f, p)>>, Tok(f, value)))
  <2>1. FirstOf(f, m) = p
    BY <1>1, FirstIs
  <2>2. /\ value \in 1 .. Len(f) /\ value + 1 \in 1 .. Len(f) + 1
        /\ LineAt(f, value + 1) = m
    BY <1>1, <1>4, <1>7, <1>a, Along
  <2>3. ValueAt(f, m) = Tok(f, value)
    <3>1. p \in Nat /\ value \in p .. Len(f)
      BY <1>1, <1>4, <2>2
    <3>2. \A k \in p .. value - 1 : Tok(f, k) \notin IniValues
      <4> SUFFICES ASSUME NEW k \in p .. value - 1 PROVE Tok(f, k) \notin IniValues
        OBVIOUS
      <4>1. k = p \/ k \in p + 1 .. value - 1
        BY <3>1
      <4> QED
        BY <4>1, <1>1, <1>4, <1>a, Zenon
    <3>3. FirstIn(f, p, IniValues) = value
      BY <3>1, <3>2, <1>1, <1>7, FirstInIs
    <3> QED
      BY <2>1, <3>3, Zenon DEF ValueAt
  <2>4. KeyAt(f, m) = <<sec, Tok(f, p)>>
    BY <2>1, <1>5, Zenon DEF KeyAt
  <2>5. HoldsLines(f, m + 1, With(prs, KeyAt(f, m), ValueAt(f, m)))
    BY <2>1, <1>1, <1>2, <1>5, HoldsKey
  <2>6. SectionAt(f, m + 1) = sec
    <3>1. Tok(f, FirstOf(f, m)) # "["
      BY <2>1, <1>1, <1>a, Zenon
    <3> QED
      BY <3>1, <1>2, <1>5, SectionStep
  <2>7. AtTail(f, value + 1, sec, With(prs, <<sec, Tok(f, p)>>, Tok(f, value)))
    BY <2>2, <2>3, <2>4, <2>5, <2>6, Zenon DEF AtTail, ReadLines
  <2> QED
    BY <2>2, <2>7, <1>1 DEF IniOK
<1> QED
  BY <1>6, <1>7 DEF value, divider

-----------------------------------------------------------------------------

\* Every action keeps the invariant.
LEMMA IniStep ==
    ASSUME IniInv, [IniNext]_iniVars
    PROVE  IniInv'
<1> USE DEF IniGoes
<1>1. ASSUME NEW f \in IniFiles, LoadFromFile(f) PROVE IniInv'
  <2>1. f \in Seq(IniTokens)
    BY IniAssumption, Zenon DEF IniTokens
  <2> QED
    BY <1>1, <2>1, NothingRead, Zenon DEF LoadFromFile, Cleared, IniInv
<1>f. ASSUME LoadFails PROVE IniInv'
  <2>1. file \in Seq(IniTokens)
    BY DEF IniInv, IniOK
  <2> QED
    BY <1>f, <2>1, NothingRead, Zenon DEF LoadFails, Cleared, IniInv
<1>2. ASSUME ParseLine PROVE IniInv'
  <2> DEFINE i == AfterSpacesOf(file, iniAt)
  <2>1. /\ Tok(file, i) = "end" => IniOK(file, i, "done", currentSection, pairs)
        /\ Tok(file, i) = "[" => IniOK(file, i, "section", currentSection, pairs)
        /\ Tok(file, i) \in Idents => IniOK(file, i, "key", currentSection, pairs)
        /\ Tok(file, i) \notin Idents \cup {"end", "["} => IniOK(file, i, "tail", currentSection, pairs)
    BY <1>2, LineRead, Zenon DEF ParseLine, IniInv
  <2>2. iniAt' = i /\ iniPc' = CASE Tok(file, i) = "end" -> "done"
                                 [] Tok(file, i) = "[" -> "section"
                                 [] Tok(file, i) \in Idents -> "key"
                                 [] OTHER -> "tail"
    BY <1>2, OfThisFile, Zenon DEF ParseLine
  <2>3. "end" # "[" /\ "end" \notin Idents /\ "[" \notin Idents
    BY IniAssumption DEF Characters
  <2> HIDE DEF i
  <2>4. IniOK(file, i, iniPc', currentSection, pairs)
    BY <2>1, <2>2, <2>3
  <2> QED
    BY <2>2, <2>4, <1>2, Zenon DEF ParseLine, IniInv
<1>3. ASSUME ReadSection PROVE IniInv'
  <2> DEFINE name == AfterSpacesOf(file, iniAt + 1)
             close == AfterSpacesOf(file, name + 1)
  <2>1. /\ Tok(file, name) \notin Idents => IniOK(file, name, "threw", currentSection, pairs)
        /\ Tok(file, name) \in Idents =>
              /\ Tok(file, close) = "]" => IniOK(file, close + 1, "tail", Tok(file, name), pairs)
              /\ Tok(file, close) # "]" => IniOK(file, close, "threw", Tok(file, name), pairs)
    BY <1>3, SectionRead, Zenon DEF ReadSection, IniInv
  <2>2. /\ Tok(file, name) \in Idents =>
              /\ currentSection' = Tok(file, name)
              /\ Tok(file, close) = "]" => iniAt' = close + 1 /\ iniPc' = "tail"
              /\ Tok(file, close) # "]" => iniAt' = close /\ iniPc' = "threw"
        /\ Tok(file, name) \notin Idents =>
              currentSection' = currentSection /\ iniAt' = name /\ iniPc' = "threw"
    BY <1>3, OfThisFile, Zenon DEF ReadSection
  <2>3. file' = file /\ pairs' = pairs
    BY <1>3 DEF ReadSection
  <2> HIDE DEF name, close
  <2> QED
    BY <2>1, <2>2, <2>3, Zenon DEF IniInv
<1>4. ASSUME ReadKeyValue PROVE IniInv'
  <2> DEFINE divider == AfterSpacesOf(file, iniAt + 1)
             value == IF Tok(file, divider) = "=" THEN AfterSpacesOf(file, divider + 1) ELSE divider
             new == With(pairs, <<currentSection, Tok(file, iniAt)>>, Tok(file, value))
  <2>1. /\ IniOK(file, value, "threw", currentSection, pairs)
        /\ Tok(file, value) \in IniValues => IniOK(file, value + 1, "tail", currentSection, new)
    BY <1>4, KeyRead, Zenon DEF ReadKeyValue, IniInv
  <2>2. \/ Tok(file, value) \in IniValues /\ pairs' = new /\ iniAt' = value + 1 /\ iniPc' = "tail"
        \/ pairs' = pairs /\ iniAt' = value /\ iniPc' = "threw"
    BY <1>4, OfThisFile, Zenon DEF ReadKeyValue
  <2>3. file' = file /\ currentSection' = currentSection
    BY <1>4 DEF ReadKeyValue
  <2> HIDE DEF divider, value, new
  <2> QED
    BY <2>1, <2>2, <2>3, Zenon DEF IniInv
<1>5. ASSUME ParseLineTail PROVE IniInv'
  <2> DEFINE rest == AfterCommentOf(file, AfterSpacesOf(file, iniAt))
             line == IF Tok(file, rest) = "return" THEN rest + 1 ELSE rest
  <2>1. /\ Tok(file, line) = "end" => IniOK(file, line, "line", currentSection, pairs)
        /\ Tok(file, line) = "newline" => IniOK(file, line + 1, "line", currentSection, pairs)
        /\ Tok(file, line) \notin {"end", "newline"} => IniOK(file, line, "threw", currentSection, pairs)
    BY <1>5, TailRead, Zenon DEF ParseLineTail, IniInv
  <2>2. (CASE Tok(file, line) = "end" -> iniAt' = line /\ iniPc' = "line"
           [] Tok(file, line) = "newline" -> iniAt' = line + 1 /\ iniPc' = "line"
           [] OTHER -> iniAt' = line /\ iniPc' = "threw")
    BY <1>5, OfThisFile, Zenon DEF ParseLineTail
  <2>3. file' = file /\ currentSection' = currentSection /\ pairs' = pairs
    BY <1>5 DEF ParseLineTail
  <2> HIDE DEF rest, line
  <2>4. \/ Tok(file, line) = "end" /\ iniAt' = line /\ iniPc' = "line"
        \/ Tok(file, line) = "newline" /\ iniAt' = line + 1 /\ iniPc' = "line"
        \/ Tok(file, line) \notin {"end", "newline"} /\ iniAt' = line /\ iniPc' = "threw"
    BY <2>2
  <2> QED
    BY <2>1, <2>3, <2>4, Zenon DEF IniInv
<1>6. ASSUME LoadEnds PROVE IniInv'
  <2>1. <<>> \in Seq(IniTokens) /\ 1 \in 1 .. Len(<<>>) + 1
    OBVIOUS
  <2> QED
    BY <1>6, <2>1 DEF LoadEnds, IniInv, IniOK
<1>7. CASE UNCHANGED iniVars
  BY <1>7 DEF iniVars, IniInv
<1> QED
  BY <1>1, <1>f, <1>2, <1>3, <1>4, <1>5, <1>6, <1>7 DEF IniNext

\* What the property says of the lines of the file is what the invariant says.
LEMMA LinesAre ==
    ASSUME NEW m \in Nat
    PROVE  /\ {l \in 0 .. m - 1 : At(HeadOf(l)) \in Idents} = KeysIn(file, m)
           /\ \A l \in KeysIn(file, m) : PairAt(l) = KeyAt(file, l)
           /\ \A l : ValueOf(l) = ValueAt(file, l)
<1>1. {l \in 0 .. m - 1 : At(HeadOf(l)) \in Idents} = KeysIn(file, m)
  BY OfThisFile, Zenon DEF KeysIn
<1>3. ASSUME NEW l PROVE SectionOf(l) = SectionAt(file, l)
  <2> DEFINE above == {h \in 0 .. l - 1 : IsHeader(h)}
             last == CHOOSE h \in above : \A g \in above : g <= h
  <2>1. above = Headers(file, l)
    BY OfThisFile, Zenon DEF Headers, IsHeader
  <2>2. last = LastIn(Headers(file, l))
    BY <2>1, Zenon DEF LastIn
  <2>3. SectionOf(l) = IF above = {} THEN NoSection
                       ELSE At(CHOOSE i \in HeadOf(last) .. Len(file) :
                                  At(i) \in Idents /\ \A k \in HeadOf(last) .. i - 1 : At(k) \notin Idents)
    BY Zenon DEF SectionOf
  <2> HIDE DEF above, last
  <2>4. NameIn(file, last) = At(CHOOSE i \in HeadOf(last) .. Len(file) :
                                  At(i) \in Idents /\ \A k \in HeadOf(last) .. i - 1 : At(k) \notin Idents)
    BY OfThisFile, Zenon DEF NameIn, FirstIn
  <2> QED
    BY <2>1, <2>2, <2>3, <2>4, Zenon DEF SectionAt
<1>4. \A l : ValueOf(l) = ValueAt(file, l)
  BY OfThisFile, Zenon DEF ValueOf, ValueAt, FirstIn
<1>5. \A l \in KeysIn(file, m) : PairAt(l) = KeyAt(file, l)
  BY <1>3, OfThisFile, Zenon DEF PairAt, KeyAt
<1> QED
  BY <1>1, <1>4, <1>5, Zenon

\* The config holds the first m lines: of the property what the invariant says.
LEMMA HoldsAre ==
    ASSUME NEW m \in Nat, HoldsLines(file, m, pairs)
    PROVE  Holds(m)
<1> DEFINE keyLines == {l \in 0 .. m - 1 : At(HeadOf(l)) \in Idents}
           setting(x) == {l \in keyLines : PairAt(l) = x}
<1>1. /\ keyLines = KeysIn(file, m)
      /\ \A l \in keyLines : PairAt(l) = KeyAt(file, l)
      /\ \A l : ValueOf(l) = ValueAt(file, l)
  BY LinesAre, Zenon
<1>2. Holds(m) <=>
          /\ DOMAIN pairs = {PairAt(l) : l \in keyLines}
          /\ \A x \in DOMAIN pairs :
                pairs[x] = ValueOf(CHOOSE l \in setting(x) : \A g \in setting(x) : g <= l)
  BY Zenon DEF Holds
<1> HIDE DEF keyLines
<1>3. DOMAIN pairs = {PairAt(l) : l \in keyLines}
  BY <1>1, Zenon DEF HoldsLines
<1>4. \A x : setting(x) = SettingIn(file, m, x)
  BY <1>1, Zenon DEF SettingIn
<1>5. ASSUME NEW x \in DOMAIN pairs
      PROVE  pairs[x] = ValueOf(CHOOSE l \in setting(x) : \A g \in setting(x) : g <= l)
  <2>1. pairs[x] = ValueAt(file, LastIn(SettingIn(file, m, x)))
    BY Zenon DEF HoldsLines
  <2>2. setting(x) = SettingIn(file, m, x)
    BY <1>4
  <2> HIDE DEF setting
  <2> QED
    BY <2>1, <2>2, <1>1, Zenon DEF LastIn
<1> QED
  BY <1>2, <1>3, <1>5, Zenon

\* The config holds the lines that were read to their end, and after an error the
\* lines above the wrong one or that one too.
LEMMA IniImplies ==
    ASSUME IniInv
    PROVE  ConfigIsWhatWasRead
<1> DEFINE L == LineAt(file, iniAt)
<1>1. /\ file \in Seq(IniTokens) /\ iniAt \in 1 .. Len(file) + 1
      /\ LineOf(iniAt) = L
  BY OfThisFile DEF IniInv, IniOK
<1>2. L \in Nat /\ AfterSpacesOf(file, iniAt) \in 1 .. Len(file) + 1 /\ AfterSpacesOf(file, iniAt) >= iniAt
  BY <1>1, AlongSpaces, Zenon
<1>e. L + 1 \in Nat /\ L + 0 = L
  BY <1>2
<1> HIDE DEF L
<1>3. ASSUME iniPc \in {"line", "done"}
      PROVE  LinesRead \in Nat /\ HoldsLines(file, LinesRead, pairs)
  <2>1. CASE iniAt > Len(file)
    <3>1. LinesRead = L + 1
      BY <2>1, <1>1, Zenon DEF LinesRead
    <3>2. CASE iniPc = "done"
      BY <3>1, <3>2, <1>e DEF IniInv, IniOK, AtEnd, L
    <3>3. CASE iniPc = "line"
      <4>1. iniAt = Len(file) + 1 /\ AfterSpacesOf(file, iniAt) = iniAt
        BY <1>1, <1>2, <2>1
      <4>2. Tok(file, iniAt) = "end"
        BY <4>1, <1>1, TokEnd
      <4>3. IniOK(file, iniAt, "line", currentSection, pairs)
        BY <3>3 DEF IniInv
      <4>4. IniOK(file, iniAt, "done", currentSection, pairs)
        BY <4>1, <4>2, <4>3, LineRead, Zenon
      <4> QED
        BY <4>4, <3>1, <1>e DEF IniOK, AtEnd, L
    <3> QED
      BY <3>2, <3>3, <1>3
  <2>2. CASE iniAt <= Len(file)
    <3>1. ~(iniAt > Len(file)) /\ iniAt # Len(file) + 1
      BY <2>2, <1>1
    <3>2. LinesRead = L
      BY <3>1, <1>1, <1>e, Zenon DEF LinesRead
    <3>3. iniPc # "done" /\ (iniPc = "line" => AtLine(file, iniAt, currentSection, pairs))
      BY <3>1 DEF IniInv, IniOK, AtEnd
    <3>4. HoldsLines(file, L, pairs)
      BY <3>1, <3>3, <1>3 DEF AtLine, ReadLines, L
    <3> QED
      BY <3>2, <3>4, <1>2, Zenon
  <2> QED
    BY <2>1, <2>2, <1>1
<1>4. ASSUME iniPc = "threw" PROVE Holds(LineOf(iniAt)) \/ Holds(LineOf(iniAt) + 1)
  <2>1. HoldsLines(file, L, pairs) \/ HoldsLines(file, L + 1, pairs)
    BY <1>4 DEF IniInv, IniOK, Kept, L
  <2> QED
    BY <2>1, <1>1, <1>2, <1>e, HoldsAre, Zenon
<1>5. ASSUME iniPc \in {"line", "done"} PROVE Holds(LinesRead)
  BY <1>3, <1>5, HoldsAre, Zenon
<1> QED
  BY <1>4, <1>5, Zenon DEF ConfigIsWhatWasRead

\* LoadFromFile, for every file: between two lines and at the end the config holds
\* what the lines read so far say, after an error what the lines above the wrong
\* one say and at most a pair of that line, and in no case anything older.
THEOREM IniCorrect == IniSpec => []ConfigIsWhatWasRead
<1>1. IniInit => IniInv
  <2>1. <<>> \in Seq(IniTokens) /\ 1 \in 1 .. Len(<<>>) + 1
    OBVIOUS
  <2> QED
    BY <2>1 DEF IniInit, IniInv, IniOK
<1>2. IniInv /\ [IniNext]_iniVars => IniInv'
  BY IniStep
<1>3. IniInv => ConfigIsWhatWasRead
  BY IniImplies
<1> QED
  BY <1>1, <1>2, <1>3, PTL DEF IniSpec


-----------------------------------------------------------------------------
(* The options of a program.  What an argument is, told from the role of the *)
(* argument before it.                                                       *)

RoleAfter(r, av, mp, i) ==
    IF i > 1 /\ r[i - 1] = "option" /\ DashesOf[av[i - 1]] = 1 /\ NeedValue(mp[LabelOf[av[i - 1]]])
    THEN "value"
    ELSE IF DashesOf[av[i]] = 2 \/ (DashesOf[av[i]] = 1 /\ LabelOf[av[i]] \in DOMAIN mp)
    THEN "option" ELSE "word"

\* The roles of the first n arguments.
AreRoles(r, av, mp, n) == r = [i \in 1 .. n |-> RoleAfter(r, av, mp, i)]

Roles(av, mp) == CHOOSE r : AreRoles(r, av, mp, Len(av))

\* They are those of the model.
LEMMA RolesOfArgv == RoleOf = Roles(argv, map)
BY Zenon DEF RoleOf, Roles, AreRoles, RoleAfter

\* Roles for n arguments make roles for one more.
LEMMA RolesMore ==
    ASSUME NEW av, NEW mp, NEW n \in Nat, NEW g, AreRoles(g, av, mp, n)
    PROVE  \E h : AreRoles(h, av, mp, n + 1)
<1> DEFINE h == [i \in 1 .. n + 1 |-> RoleAfter(g, av, mp, i)]
<1>1. \A i \in 1 .. n : h[i] = g[i]
  BY DEF AreRoles
<1>2. ASSUME NEW i \in 1 .. n + 1 PROVE RoleAfter(g, av, mp, i) = RoleAfter(h, av, mp, i)
  <2>1. CASE i > 1
    <3>1. i - 1 \in 1 .. n
      BY <2>1
    <3>2. h[i - 1] = g[i - 1]
      BY <3>1, <1>1
    <3> HIDE DEF h
    <3> QED
      BY <3>2, Zenon DEF RoleAfter
  <2>2. CASE ~(i > 1)
    <3> HIDE DEF h
    <3> QED
      BY <2>2, Zenon DEF RoleAfter
  <2> QED
    BY <2>1, <2>2
<1>3. h = [i \in 1 .. n + 1 |-> RoleAfter(h, av, mp, i)]
  <2> DEFINE k == [i \in 1 .. n + 1 |-> RoleAfter(h, av, mp, i)]
  <2>1. \A i \in 1 .. n + 1 : h[i] = k[i]
    BY <1>2, Zenon
  <2> QED
    BY <2>1, <1>2, Zenon
<1> QED
  BY <1>3, Zenon DEF AreRoles

\* So every command line has its roles.
LEMMA RolesExist ==
    ASSUME NEW av, NEW mp, NEW n \in Nat
    PROVE  \E r : AreRoles(r, av, mp, n)
<1> DEFINE S == {m \in Nat : ~ \E r : AreRoles(r, av, mp, m)}
<1>1. ASSUME S # {} PROVE FALSE
  <2>1. PICK m \in S : \A k \in S : m <= k
    BY <1>1, LeastPlace, Zenon
  <2>2. m # 0
    <3>1. ASSUME m = 0 PROVE FALSE
      <4> DEFINE e == [i \in {} |-> "word"]
      <4>1. 1 .. 0 = {}
        OBVIOUS
      <4>2. e = [i \in 1 .. 0 |-> RoleAfter(e, av, mp, i)]
        BY <4>1
      <4> HIDE DEF e
      <4> QED
        BY <4>2, <3>1, <2>1, Zenon DEF AreRoles
    <3> QED
      BY <3>1
  <2>3. m - 1 \in Nat /\ ~(m <= m - 1) /\ (m - 1) + 1 = m
    BY <2>1, <2>2
  <2>4. \E r : AreRoles(r, av, mp, m - 1)
    BY <2>1, <2>3, Zenon
  <2>5. \E h : AreRoles(h, av, mp, (m - 1) + 1)
    BY <2>3, <2>4, RolesMore, Zenon
  <2> QED
    BY <2>1, <2>3, <2>5
<1> QED
  BY <1>1

\* What an argument is depends on the one before it.
LEMMA RolesAre ==
    ASSUME NEW av, NEW mp, Len(av) \in Nat
    PROVE  /\ DOMAIN Roles(av, mp) = 1 .. Len(av)
           /\ \A i \in 1 .. Len(av) : Roles(av, mp)[i] = RoleAfter(Roles(av, mp), av, mp, i)
<1>1. \E r : AreRoles(r, av, mp, Len(av))
  BY RolesExist
<1>2. AreRoles(Roles(av, mp), av, mp, Len(av))
  BY <1>1, Zenon DEF Roles
<1> DEFINE r == Roles(av, mp)
<1> HIDE DEF r
<1>3. r = [i \in 1 .. Len(av) |-> RoleAfter(r, av, mp, i)]
  BY <1>2 DEF AreRoles, r
<1>4. ASSUME NEW i \in 1 .. Len(av) PROVE r[i] = RoleAfter(r, av, mp, i)
  <2> DEFINE k == [j \in 1 .. Len(av) |-> RoleAfter(r, av, mp, j)]
  <2>1. k[i] = RoleAfter(r, av, mp, i)
    OBVIOUS
  <2>2. r = k
    BY <1>3
  <2> HIDE DEF k
  <2> QED
    BY <2>1, <2>2, Zenon
<1>5. DOMAIN r = 1 .. Len(av)
  <2> DEFINE k == [j \in 1 .. Len(av) |-> RoleAfter(r, av, mp, j)]
  <2>1. DOMAIN k = 1 .. Len(av)
    OBVIOUS
  <2>2. r = k
    BY <1>3
  <2> HIDE DEF k
  <2> QED
    BY <2>1, <2>2, Zenon
<1> QED
  BY <1>4, <1>5 DEF r


-----------------------------------------------------------------------------

\* The elements of a set before place n.
Upto(T, n) == {i \in 1 .. n - 1 : i \in T}

\* One more place.
LEMMA UptoStep ==
    ASSUME NEW T, NEW n \in Nat, 1 <= n
    PROVE  /\ Cardinality(Upto(T, n)) \in Nat
           /\ n \in T => Cardinality(Upto(T, n + 1)) = Cardinality(Upto(T, n)) + 1
           /\ n \notin T => Upto(T, n + 1) = Upto(T, n)
<1> DEFINE A == Upto(T, n)
<1>1. IsFiniteSet(1 .. n - 1)
  BY FS_Interval
<1>2. IsFiniteSet(A)
  BY <1>1, FS_Subset, Zenon DEF Upto
<1>3. Cardinality(A) \in Nat
  BY <1>2, FS_CardinalityType, Zenon
<1>4. ASSUME n \in T PROVE Cardinality(Upto(T, n + 1)) = Cardinality(A) + 1
  <2>1. Upto(T, n + 1) = A \cup {n} /\ n \notin A
    BY <1>4 DEF Upto
  <2>2. Cardinality(A \cup {n}) = Cardinality(A) + 1
    BY <2>1, <1>2, FS_AddElement
  <2> QED
    BY <2>1, <2>2
<1>5. ASSUME n \notin T PROVE Upto(T, n + 1) = A
  BY <1>5 DEF Upto
<1> QED
  BY <1>3, <1>4, <1>5

\* Places with nothing of the set in between.
LEMMA UptoSame ==
    ASSUME NEW T, NEW n \in Nat, NEW m \in Nat, 1 <= n, n <= m, \A i \in n .. m - 1 : i \notin T
    PROVE  Upto(T, m) = Upto(T, n)
BY DEF Upto

\* An element has a greater count than those before it.
LEMMA UptoOrder ==
    ASSUME NEW T, NEW n \in Nat, NEW m \in Nat, 1 <= n, n <= m
    PROVE  /\ Cardinality(Upto(T, n)) \in Nat /\ Cardinality(Upto(T, m)) \in Nat
           /\ Cardinality(Upto(T, n)) <= Cardinality(Upto(T, m))
<1> DEFINE A == Upto(T, n)
           B == Upto(T, m)
<1>1. IsFiniteSet(1 .. m - 1)
  BY FS_Interval
<1>2. B \subseteq 1 .. m - 1 /\ A \subseteq B
  BY DEF Upto
<1> HIDE DEF A, B
<1>3. IsFiniteSet(B)
  BY <1>1, <1>2, FS_Subset, Zenon
<1>4. IsFiniteSet(A) /\ Cardinality(A) <= Cardinality(B)
  BY <1>2, <1>3, FS_Subset, Zenon
<1>5. Cardinality(A) \in Nat /\ Cardinality(B) \in Nat
  BY <1>3, <1>4, FS_CardinalityType, Zenon
<1> QED
  BY <1>4, <1>5 DEF A, B

-----------------------------------------------------------------------------

\* The words among the arguments with roles r, and those of one place of the list.
Words(r) == {i \in DOMAIN r : r[i] = "word"}
EndsInArray(ls) == ls # <<>> /\ IsArray(ls[Len(ls)])
PlaceFor(ls, before) == IF before < Len(ls) THEN before + 1 ELSE IF EndsInArray(ls) THEN Len(ls) ELSE 0
Mine(r, ls, p) == {i \in Words(r) : PlaceFor(ls, Cardinality(Upto(Words(r), i))) = p}

\* currentIndex_ after a number of words.
IndexFor(ls, n) == IF n < Len(ls) THEN n + 1 ELSE IF EndsInArray(ls) THEN Len(ls) ELSE Len(ls) + 1

\* The arguments that carry a password.
Carries(r, ls, mp, av, i) ==
    \/ /\ i \in Words(r)
       /\ LET p == PlaceFor(ls, Cardinality(Upto(Words(r), i))) IN p # 0 /\ ls[p].password
    \/ r[i] = "value" /\ mp[LabelOf[av[i - 1]]].password
    \/ r[i] = "option" /\ ValueOfArgument[av[i]] # NoValue /\ mp[LabelOf[av[i]]].password

ValuesIn(vals, o) == IF o \in DOMAIN vals THEN vals[o] ELSE <<>>
Given == Arguments \cup {ValueOfArgument[a] : a \in Arguments} \cup {NoValue}

\* The values vs are the arguments of T before place n, in order.
Filled(vs, av, T, n) ==
    /\ Len(vs) = Cardinality(Upto(T, n))
    /\ \A i \in Upto(T, n) : vs[Cardinality(Upto(T, i + 1))] = av[i]

\* What was registered.
ListOK(ls) ==
    /\ ls \in Seq(ListOptions)
    /\ \A i, j \in 1 .. Len(ls) : ls[i] = ls[j] => i = j
    /\ \A i \in 1 .. Len(ls) : IsArray(ls[i]) => i = Len(ls)
MapOK(mp) == \A l \in DOMAIN mp : mp[l] \in MapOptions

\* Where the parser is among the arguments.
PlaceOK(r, ls, av, at, ci) ==
    /\ av \in Seq(Arguments) /\ at \in 1 .. Len(av) + 1
    /\ at <= Len(av) => r[at] # "value"
    /\ ci = IndexFor(ls, Cardinality(Upto(Words(r), at)))
StarsOK(r, ls, mp, av, at, st) == st = {i \in 1 .. at - 1 : Carries(r, ls, mp, av, i)}
ValuesOK(r, ls, av, at, vals) ==
    /\ \A o \in DOMAIN vals : vals[o] \in Seq(Given) /\ vals[o] # <<>>
    /\ \A p \in 1 .. Len(ls) :
          /\ ls[p] \in DOMAIN vals <=> p <= Cardinality(Upto(Words(r), at))
          /\ Filled(ValuesIn(vals, ls[p]), av, Mine(r, ls, p), at)
ReadOK(ls, mp, av, at, ci, vals, st) ==
    /\ PlaceOK(Roles(av, mp), ls, av, at, ci)
    /\ StarsOK(Roles(av, mp), ls, mp, av, at, st)
    /\ ValuesOK(Roles(av, mp), ls, av, at, vals)

OptOK(ls, mp, pc, av, at, ci, vals, st) ==
    /\ ListOK(ls) /\ MapOK(mp)
    /\ pc \in {"setup", "parse", "returned", "usage", "terminated"}
    /\ pc = "setup" => at = 1 /\ ci = 1 /\ vals = EmptyMap /\ st = {}
    /\ pc \in {"parse", "returned"} => ReadOK(ls, mp, av, at, ci, vals, st)
    /\ pc = "returned" => \A o \in {ls[i] : i \in 1 .. Len(ls)} \cup {mp[l] : l \in DOMAIN mp} :
                              o.required => o \in DOMAIN vals

\* The inductive invariant.
OptInv == OptOK(list, map, optPc, argv, argAt, currentIndex, values, stars)

\* The options of the list as SequencesExt speaks of it.
LEMMA LastOf == ASSUME NEW s PROVE Last(s) = s[Len(s)]
BY DEF Last

\* ProgramOption::Set adds a value to one option.
WithValue(vals, o, v) ==
    [p \in DOMAIN vals \cup {o} |-> IF p = o THEN Append(ValuesIn(vals, o), v) ELSE vals[p]]

LEMMA WithValueIs ==
    ASSUME NEW vals, NEW o, NEW v \in Given,
           \A p \in DOMAIN vals : vals[p] \in Seq(Given) /\ vals[p] # <<>>
    PROVE  /\ DOMAIN WithValue(vals, o, v) = DOMAIN vals \cup {o}
           /\ ValuesIn(vals, o) \in Seq(Given)
           /\ ValuesIn(WithValue(vals, o, v), o) = Append(ValuesIn(vals, o), v)
           /\ \A p : p # o => ValuesIn(WithValue(vals, o, v), p) = ValuesIn(vals, p)
           /\ \A p \in DOMAIN WithValue(vals, o, v) :
                 WithValue(vals, o, v)[p] \in Seq(Given) /\ WithValue(vals, o, v)[p] # <<>>
<1>1. ValuesIn(vals, o) \in Seq(Given)
  BY DEF ValuesIn
<1> DEFINE a == Append(ValuesIn(vals, o), v)
           w == WithValue(vals, o, v)
<1>2. a \in Seq(Given) /\ Len(a) = Len(ValuesIn(vals, o)) + 1
  BY <1>1
<1>3. a # <<>>
  BY <1>1, <1>2
<1> HIDE DEF a
<1>4. /\ DOMAIN w = DOMAIN vals \cup {o} /\ w[o] = a
      /\ \A p \in DOMAIN vals : p # o => w[p] = vals[p]
  BY Zenon DEF WithValue, a
<1> HIDE DEF w
<1>5. ValuesIn(w, o) = a
  BY <1>4, Zenon DEF ValuesIn
<1>6. ASSUME NEW p, p # o PROVE ValuesIn(w, p) = ValuesIn(vals, p)
  <2>1. p \in DOMAIN w <=> p \in DOMAIN vals
    BY <1>4, <1>6, Zenon
  <2>2. CASE p \in DOMAIN vals
    BY <2>1, <2>2, <1>4, <1>6, Zenon DEF ValuesIn
  <2>3. CASE p \notin DOMAIN vals
    BY <2>1, <2>3, Zenon DEF ValuesIn
  <2> QED
    BY <2>2, <2>3
<1>7. \A p \in DOMAIN w : w[p] \in Seq(Given) /\ w[p] # <<>>
  BY <1>2, <1>3, <1>4, Zenon
<1> QED
  BY <1>1, <1>4, <1>5, <1>6, <1>7, Zenon DEF w, a

\* A value more of the arguments of T, from place n.
LEMMA FilledMore ==
    ASSUME NEW vs \in Seq(Given), NEW av, NEW T, NEW n \in Nat, 1 <= n, n \in T, Filled(vs, av, T, n)
    PROVE  Filled(Append(vs, av[n]), av, T, n + 1)
<1> DEFINE c == Cardinality(Upto(T, n))
           ws == Append(vs, av[n])
<1>1. c \in Nat /\ Cardinality(Upto(T, n + 1)) = c + 1 /\ Len(vs) = c
  BY UptoStep DEF Filled
<1>2. Upto(T, n + 1) = Upto(T, n) \cup {n}
  BY DEF Upto
<1>3. Len(ws) = c + 1 /\ ws[c + 1] = av[n] /\ \A k \in 1 .. c : ws[k] = vs[k]
  BY <1>1
<1>4. ASSUME NEW i \in Upto(T, n) PROVE ws[Cardinality(Upto(T, i + 1))] = av[i]
  <2>1. i \in Nat /\ 1 <= i /\ i + 1 <= n /\ i \in T /\ i + 1 \in Nat /\ 1 <= i + 1
    BY DEF Upto
  <2>2. Cardinality(Upto(T, i)) \in Nat /\ Cardinality(Upto(T, i + 1)) = Cardinality(Upto(T, i)) + 1
    BY <2>1, UptoStep
  <2>3. Cardinality(Upto(T, i + 1)) <= c
    BY <2>1, UptoOrder
  <2> HIDE DEF ws, c
  <2>4. Cardinality(Upto(T, i + 1)) \in 1 .. c
    BY <2>2, <2>3, <1>1
  <2>5. vs[Cardinality(Upto(T, i + 1))] = av[i]
    BY Zenon DEF Filled
  <2> QED
    BY <2>4, <2>5, <1>3
<1> HIDE DEF ws, c
<1>5. \A i \in Upto(T, n + 1) : ws[Cardinality(Upto(T, i + 1))] = av[i]
  BY <1>1, <1>2, <1>3, <1>4, Zenon
<1> QED
  BY <1>1, <1>3, <1>5 DEF Filled, ws

-----------------------------------------------------------------------------

\* What is no word changes nothing for the list.
LEMMA OptionRead ==
    ASSUME NEW r, NEW ls, ListOK(ls), NEW av, NEW at \in Nat, 1 <= at, NEW vals, ValuesOK(r, ls, av, at, vals),
           NEW nx \in Nat, at <= nx, \A i \in at .. nx - 1 : i \notin Words(r),
           NEW o \in MapOptions, NEW v \in Given
    PROVE  /\ Upto(Words(r), nx) = Upto(Words(r), at)
           /\ ValuesOK(r, ls, av, nx, WithValue(vals, o, v))
<1> DEFINE w == WithValue(vals, o, v)
<1>1. Upto(Words(r), nx) = Upto(Words(r), at)
  BY UptoSame
<1>2. /\ DOMAIN w = DOMAIN vals \cup {o}
      /\ ValuesIn(vals, o) \in Seq(Given)
      /\ ValuesIn(w, o) = Append(ValuesIn(vals, o), v)
      /\ \A q : q # o => ValuesIn(w, q) = ValuesIn(vals, q)
      /\ \A q \in DOMAIN w : w[q] \in Seq(Given) /\ w[q] # <<>>
  <2>1. \A q \in DOMAIN vals : vals[q] \in Seq(Given) /\ vals[q] # <<>>
    BY Zenon DEF ValuesOK
  <2> QED
    BY <2>1, WithValueIs, Zenon
<1> HIDE DEF w
<1>3. ASSUME NEW p \in 1 .. Len(ls)
      PROVE  /\ ls[p] \in DOMAIN w <=> p <= Cardinality(Upto(Words(r), nx))
             /\ Filled(ValuesIn(w, ls[p]), av, Mine(r, ls, p), nx)
  <2>1. ls[p] # o
    <3>1. ls[p] \in ListOptions
      BY DEF ListOK
    <3> QED
      BY <3>1, OptionsAssumption, Zenon
  <2>2. \A i \in at .. nx - 1 : i \notin Mine(r, ls, p)
    BY Zenon DEF Mine
  <2>3. Upto(Mine(r, ls, p), nx) = Upto(Mine(r, ls, p), at)
    BY <2>2, UptoSame
  <2>4. /\ ls[p] \in DOMAIN vals <=> p <= Cardinality(Upto(Words(r), at))
        /\ Filled(ValuesIn(vals, ls[p]), av, Mine(r, ls, p), at)
    BY Zenon DEF ValuesOK
  <2>5. Filled(ValuesIn(vals, ls[p]), av, Mine(r, ls, p), nx)
    BY <2>3, <2>4, Zenon DEF Filled
  <2> QED
    BY <2>1, <2>4, <2>5, <1>1, <1>2, Zenon
<1>4. ValuesOK(r, ls, av, nx, w)
  BY <1>2, <1>3, Zenon DEF ValuesOK
<1> QED
  BY <1>1, <1>4, Zenon DEF w

\* Places of a list.
LEMMA PlaceIs ==
    ASSUME NEW ls, ListOK(ls), NEW n \in Nat
    PROVE  /\ Len(ls) \in Nat
           /\ IndexFor(ls, n) > Len(ls) =>
                 /\ PlaceFor(ls, n) = 0 /\ IndexFor(ls, n + 1) = IndexFor(ls, n) /\ n >= Len(ls)
           /\ ~(IndexFor(ls, n) > Len(ls)) =>
                 LET p == IndexFor(ls, n)
                 IN  /\ p \in 1 .. Len(ls) /\ PlaceFor(ls, n) = p /\ p <= n + 1
                     /\ IndexFor(ls, n + 1) = IF IsArray(ls[p]) THEN p ELSE p + 1
                     /\ \A q \in 1 .. Len(ls) : q # p => (q <= n + 1 <=> q <= n)
<1>1. Len(ls) \in Nat /\ (ls # <<>> => Len(ls) > 0) /\ (ls = <<>> => Len(ls) = 0)
  BY DEF ListOK
<1>2. CASE n < Len(ls)
  <2>1. IndexFor(ls, n) = n + 1 /\ PlaceFor(ls, n) = n + 1
    BY <1>1, <1>2 DEF IndexFor, PlaceFor
  <2>2. CASE n + 1 < Len(ls)
    <3>1. IndexFor(ls, n + 1) = (n + 1) + 1
      BY <1>1, <2>2 DEF IndexFor
    <3>2. ~IsArray(ls[n + 1])
      <4>1. n + 1 \in 1 .. Len(ls) /\ n + 1 # Len(ls)
        BY <1>1, <2>2
      <4> QED
        BY <4>1, Zenon DEF ListOK
    <3> QED
      BY <1>1, <1>2, <2>1, <2>2, <3>1, <3>2
  <2>3. CASE n + 1 = Len(ls)
    <3>1. IndexFor(ls, n + 1) = IF EndsInArray(ls) THEN Len(ls) ELSE Len(ls) + 1
      BY <1>1, <2>3 DEF IndexFor
    <3>2. EndsInArray(ls) <=> IsArray(ls[n + 1])
      BY <1>1, <2>3 DEF EndsInArray
    <3> QED
      BY <1>1, <1>2, <2>1, <2>3, <3>1, <3>2
  <2> QED
    BY <1>1, <1>2, <2>2, <2>3
<1>3. CASE ~(n < Len(ls)) /\ EndsInArray(ls)
  <2>1. IndexFor(ls, n) = Len(ls) /\ PlaceFor(ls, n) = Len(ls) /\ IndexFor(ls, n + 1) = Len(ls)
    BY <1>1, <1>3 DEF IndexFor, PlaceFor
  <2>2. Len(ls) > 0 /\ IsArray(ls[Len(ls)])
    BY <1>1, <1>3 DEF EndsInArray
  <2> QED
    BY <1>1, <1>3, <2>1, <2>2
<1>4. CASE ~(n < Len(ls)) /\ ~EndsInArray(ls)
  <2>1. IndexFor(ls, n) = Len(ls) + 1 /\ PlaceFor(ls, n) = 0 /\ IndexFor(ls, n + 1) = Len(ls) + 1
    BY <1>1, <1>4 DEF IndexFor, PlaceFor
  <2> QED
    BY <1>1, <1>4, <2>1
<1> QED
  BY <1>2, <1>3, <1>4

\* A word that the list has no place for.
LEMMA WordDropped ==
    ASSUME NEW r, NEW ls, ListOK(ls), NEW av, NEW at \in Nat, 1 <= at, NEW vals, ValuesOK(r, ls, av, at, vals),
           at \in Words(r), IndexFor(ls, Cardinality(Upto(Words(r), at))) > Len(ls)
    PROVE  /\ PlaceFor(ls, Cardinality(Upto(Words(r), at))) = 0
           /\ IndexFor(ls, Cardinality(Upto(Words(r), at + 1))) = IndexFor(ls, Cardinality(Upto(Words(r), at)))
           /\ ValuesOK(r, ls, av, at + 1, vals)
<1> DEFINE n == Cardinality(Upto(Words(r), at))
<1>1. n \in Nat /\ Cardinality(Upto(Words(r), at + 1)) = n + 1
  BY UptoStep
<1>2. Len(ls) \in Nat /\ PlaceFor(ls, n) = 0 /\ IndexFor(ls, n + 1) = IndexFor(ls, n) /\ n >= Len(ls)
  <2> HIDE DEF n
  <2> QED
    BY <1>1, PlaceIs DEF n
<1>3. ASSUME NEW p \in 1 .. Len(ls)
      PROVE  /\ ls[p] \in DOMAIN vals <=> p <= Cardinality(Upto(Words(r), at + 1))
             /\ Filled(ValuesIn(vals, ls[p]), av, Mine(r, ls, p), at + 1)
  <2>1. at \notin Mine(r, ls, p)
    BY <1>2 DEF Mine
  <2>2. Upto(Mine(r, ls, p), at + 1) = Upto(Mine(r, ls, p), at)
    BY <2>1, UptoStep
  <2>3. /\ ls[p] \in DOMAIN vals <=> p <= n
        /\ Filled(ValuesIn(vals, ls[p]), av, Mine(r, ls, p), at)
    BY Zenon DEF ValuesOK
  <2>4. Filled(ValuesIn(vals, ls[p]), av, Mine(r, ls, p), at + 1)
    BY <2>2, <2>3, Zenon DEF Filled
  <2> HIDE DEF n
  <2>5. p <= n /\ p <= n + 1
    BY <1>1, <1>2
  <2> QED
    BY <1>1, <2>3, <2>4, <2>5
<1>4. ValuesOK(r, ls, av, at + 1, vals)
  BY <1>3, Zenon DEF ValuesOK
<1> QED
  BY <1>1, <1>2, <1>4

\* A word is the next value of its place.
LEMMA WordTaken ==
    ASSUME NEW r, NEW ls, ListOK(ls), NEW av, NEW at \in Nat, 1 <= at, NEW vals, ValuesOK(r, ls, av, at, vals),
           at \in Words(r), ~(IndexFor(ls, Cardinality(Upto(Words(r), at))) > Len(ls)), av[at] \in Given
    PROVE  LET p == IndexFor(ls, Cardinality(Upto(Words(r), at)))
           IN  /\ PlaceFor(ls, Cardinality(Upto(Words(r), at))) = p /\ p \in 1 .. Len(ls)
               /\ IndexFor(ls, Cardinality(Upto(Words(r), at + 1))) = IF IsArray(ls[p]) THEN p ELSE p + 1
               /\ ValuesOK(r, ls, av, at + 1, WithValue(vals, ls[p], av[at]))
<1> DEFINE n == Cardinality(Upto(Words(r), at))
           p == IndexFor(ls, n)
           w == WithValue(vals, ls[p], av[at])
<1>1. n \in Nat /\ Cardinality(Upto(Words(r), at + 1)) = n + 1
  BY UptoStep
<1>2. /\ Len(ls) \in Nat /\ p \in 1 .. Len(ls) /\ PlaceFor(ls, n) = p /\ p <= n + 1
      /\ IndexFor(ls, n + 1) = IF IsArray(ls[p]) THEN p ELSE p + 1
      /\ \A q \in 1 .. Len(ls) : q # p => (q <= n + 1 <=> q <= n)
  <2> HIDE DEF n
  <2> QED
    BY <1>1, PlaceIs DEF n
<1> HIDE DEF p
<1>3. /\ DOMAIN w = DOMAIN vals \cup {ls[p]}
      /\ ValuesIn(vals, ls[p]) \in Seq(Given)
      /\ ValuesIn(w, ls[p]) = Append(ValuesIn(vals, ls[p]), av[at])
      /\ \A o : o # ls[p] => ValuesIn(w, o) = ValuesIn(vals, o)
      /\ \A o \in DOMAIN w : w[o] \in Seq(Given) /\ w[o] # <<>>
  <2>1. \A o \in DOMAIN vals : vals[o] \in Seq(Given) /\ vals[o] # <<>>
    BY Zenon DEF ValuesOK
  <2> QED
    BY <2>1, WithValueIs, Zenon
<1> HIDE DEF w
<1>4. ASSUME NEW q \in 1 .. Len(ls)
      PROVE  /\ ls[q] \in DOMAIN w <=> q <= n + 1
             /\ Filled(ValuesIn(w, ls[q]), av, Mine(r, ls, q), at + 1)
  <2>1. /\ ls[q] \in DOMAIN vals <=> q <= n
        /\ Filled(ValuesIn(vals, ls[q]), av, Mine(r, ls, q), at)
    BY Zenon DEF ValuesOK
  <2>2. CASE q = p
    <3>1. at \in Mine(r, ls, q)
      BY <1>2, <2>2 DEF Mine
    <3>2. Filled(Append(ValuesIn(vals, ls[q]), av[at]), av, Mine(r, ls, q), at + 1)
      BY <3>1, <2>1, <2>2, <1>3, FilledMore
    <3> HIDE DEF n
    <3> QED
      BY <3>2, <2>2, <1>2, <1>3, Zenon
  <2>3. CASE q # p
    <3>1. at \notin Mine(r, ls, q)
      BY <1>2, <2>3 DEF Mine
    <3>2. Upto(Mine(r, ls, q), at + 1) = Upto(Mine(r, ls, q), at)
      BY <3>1, UptoStep
    <3>3. ls[q] # ls[p]
      BY <2>3, <1>2 DEF ListOK
    <3>4. Filled(ValuesIn(vals, ls[q]), av, Mine(r, ls, q), at + 1)
      BY <2>1, <3>2, Zenon DEF Filled
    <3> HIDE DEF n
    <3> QED
      BY <3>3, <3>4, <2>1, <2>3, <1>2, <1>3, Zenon
  <2> QED
    BY <2>2, <2>3
<1>5. ValuesOK(r, ls, av, at + 1, w)
  BY <1>1, <1>3, <1>4, Zenon DEF ValuesOK
<1> QED
  BY <1>1, <1>2, <1>5, Zenon DEF w, p

-----------------------------------------------------------------------------

\* What can happen when an option is set.
LEMMA SetIs ==
    ASSUME NEW o, NEW v, NEW i, NEW nx, Set(o, v, i, nx), optPc = "parse"
    PROVE  /\ argAt' = nx
           /\ \/ optPc' \in {"terminated", "usage"}
              \/ /\ optPc' = "parse" /\ values' = WithValue(values, o, v)
                 /\ stars' = IF v # NoValue /\ o.password THEN stars \cup {i} ELSE stars
<1>1. \A p : ValuesOf(p) = ValuesIn(values, p)
  BY DEF ValuesOf, ValuesIn
<1>2. argAt' = nx
  BY DEF Set
<1>3. CASE o.kind = "number" /\ v \in BadValues
  BY <1>2, <1>3 DEF Set
<1>4. CASE ~(o.kind = "number" /\ v \in BadValues) /\ o.kind = "usage"
  BY <1>2, <1>4 DEF Set
<1>5. CASE ~(o.kind = "number" /\ v \in BadValues) /\ ~(o.kind = "usage")
  <2>1. /\ values' = [p \in DOMAIN values \cup {o} |->
                         IF p = o THEN Append(ValuesOf(o), v) ELSE values[p]]
        /\ stars' = IF v = NoValue THEN stars ELSE StarsAfterSet(o, i)
        /\ optPc' = optPc
    BY <1>5, Zenon DEF Set
  <2>2. values' = WithValue(values, o, v)
    BY <2>1, <1>1, Zenon DEF WithValue
  <2>3. stars' = IF v # NoValue /\ o.password THEN stars \cup {i} ELSE stars
    BY <2>1, Zenon DEF StarsAfterSet
  <2> QED
    BY <1>2, <2>1, <2>2, <2>3, Zenon
<1> QED
  BY <1>3, <1>4, <1>5

\* The program ends.
LEMMA Ends ==
    ASSUME OptInv, UNCHANGED <<list, map>>, optPc' \in {"terminated", "usage"}
    PROVE  OptInv'
BY DEF OptInv, OptOK

\* An option is entered in the map under some of its labels.
LEMMA MapWithIs ==
    ASSUME MapOK(map), NEW o \in MapOptions, NEW labels
    PROVE  MapOK(MapWith(labels, o))
BY DEF MapOK, MapWith

\* An option of the map was set from the arguments up to nx.
LEMMA SetFromMap ==
    ASSUME OptInv, optPc = "parse", UNCHANGED <<list, map, argv, currentIndex>>,
           NEW o \in MapOptions, NEW v \in Given, NEW i, NEW nx, Set(o, v, i, nx),
           nx \in Nat, argAt < nx, nx <= Len(argv) + 1,
           \A k \in argAt .. nx - 1 : k \notin Words(Roles(argv, map)),
           nx <= Len(argv) => Roles(argv, map)[nx] # "value",
           i \in argAt .. nx - 1,
           \A k \in argAt .. nx - 1 :
               Carries(Roles(argv, map), list, map, argv, k) <=> (k = i /\ v # NoValue /\ o.password)
    PROVE  OptInv'
<1> DEFINE r == Roles(argv, map)
<1>1. /\ ListOK(list) /\ MapOK(map)
      /\ PlaceOK(r, list, argv, argAt, currentIndex)
      /\ StarsOK(r, list, map, argv, argAt, stars)
      /\ ValuesOK(r, list, argv, argAt, values)
  BY DEF OptInv, OptOK, ReadOK
<1>2. argAt \in Nat /\ 1 <= argAt /\ argAt <= nx
  BY <1>1 DEF PlaceOK
<1>3. CASE optPc' \in {"terminated", "usage"}
  BY <1>3, Ends
<1>4. CASE /\ optPc' = "parse" /\ values' = WithValue(values, o, v)
           /\ stars' = IF v # NoValue /\ o.password THEN stars \cup {i} ELSE stars
  <2>0. argAt' = nx
    BY SetIs
  <2> HIDE DEF r
  <2>1. /\ Upto(Words(r), nx) = Upto(Words(r), argAt)
        /\ ValuesOK(r, list, argv, nx, WithValue(values, o, v))
    BY <1>1, <1>2, OptionRead DEF r
  <2>2. PlaceOK(r, list, argv, nx, currentIndex)
    <3>1. nx \in 1 .. Len(argv) + 1
      BY <1>1, <1>2 DEF PlaceOK
    <3> QED
      BY <3>1, <2>1, <1>1 DEF PlaceOK, r
  <2>3. stars' = {k \in 1 .. nx - 1 : Carries(r, list, map, argv, k)}
    <3>1. stars = {k \in 1 .. argAt - 1 : Carries(r, list, map, argv, k)}
      BY <1>1 DEF StarsOK
    <3>2. \A k \in argAt .. nx - 1 :
             Carries(r, list, map, argv, k) <=> (k = i /\ v # NoValue /\ o.password)
      BY DEF r
    <3>3. \A k : k \in 1 .. nx - 1 <=> k \in 1 .. argAt - 1 \/ k \in argAt .. nx - 1
      BY <1>2
    <3>4. i \in argAt .. nx - 1
      OBVIOUS
    <3>5. CASE v # NoValue /\ o.password
      BY <3>1, <3>2, <3>3, <3>4, <3>5, <1>4, Zenon
    <3>6. CASE ~(v # NoValue /\ o.password)
      BY <3>1, <3>2, <3>3, <3>4, <3>6, <1>4, Zenon
    <3> QED
      BY <3>5, <3>6
  <2>4. StarsOK(r, list, map, argv, nx, stars')
    BY <2>3, Zenon DEF StarsOK
  <2>5. ReadOK(list, map, argv, nx, currentIndex, WithValue(values, o, v), stars')
    BY <2>1, <2>2, <2>4, Zenon DEF ReadOK, r
  <2> QED
    BY <2>0, <2>5, <1>1, <1>4 DEF OptInv, OptOK
<1> QED
  BY <1>3, <1>4, SetIs, Zenon

\* A word was read.
LEMMA SetFromWord ==
    ASSUME OptInv, optPc = "parse", UNCHANGED <<list, map, argv>>, argAt <= Len(argv),
           SetInList(argAt), argAt \in Words(Roles(argv, map)),
           argAt + 1 <= Len(argv) => Roles(argv, map)[argAt + 1] # "value"
    PROVE  OptInv'
<1> DEFINE r == Roles(argv, map)
           n == Cardinality(Upto(Words(r), argAt))
<1>1. /\ ListOK(list) /\ MapOK(map)
      /\ PlaceOK(r, list, argv, argAt, currentIndex)
      /\ StarsOK(r, list, map, argv, argAt, stars)
      /\ ValuesOK(r, list, argv, argAt, values)
  BY DEF OptInv, OptOK, ReadOK
<1>2. argAt \in Nat /\ 1 <= argAt /\ currentIndex = IndexFor(list, n) /\ argAt + 1 \in 1 .. Len(argv) + 1
      /\ argv \in Seq(Arguments) /\ argAt \in 1 .. Len(argv)
  BY <1>1 DEF PlaceOK
<1>a. argv[argAt] \in Arguments
  BY <1>2
<1>b. argv[argAt] \in Given /\ argv[argAt] # NoValue
  BY <1>a, OptionsAssumption DEF Given
<1>c. r[argAt] = "word" /\ argAt \in Words(r) /\ (argAt + 1 <= Len(argv) => r[argAt + 1] # "value")
  BY DEF Words
<1> HIDE DEF r
<1>3. CASE currentIndex > Len(list)
  <2>1. argAt' = argAt + 1 /\ optPc' = optPc /\ UNCHANGED <<currentIndex, values, stars>>
    BY <1>3 DEF SetInList
  <2>2. /\ PlaceFor(list, n) = 0
        /\ IndexFor(list, Cardinality(Upto(Words(r), argAt + 1))) = IndexFor(list, n)
        /\ ValuesOK(r, list, argv, argAt + 1, values)
    BY <1>1, <1>2, <1>3, <1>c, WordDropped
  <2> HIDE DEF n
  <2>3. PlaceOK(r, list, argv, argAt + 1, currentIndex)
    BY <1>2, <1>c, <2>2 DEF PlaceOK
  <2>4. ~Carries(r, list, map, argv, argAt)
    BY <1>c, <2>2 DEF Carries, n
  <2>5. StarsOK(r, list, map, argv, argAt + 1, stars)
    <3>1. stars = {k \in 1 .. argAt - 1 : Carries(r, list, map, argv, k)}
      BY <1>1 DEF StarsOK
    <3>2. \A k : k \in 1 .. (argAt + 1) - 1 <=> k \in 1 .. argAt - 1 \/ k = argAt
      BY <1>2
    <3> QED
      BY <3>1, <3>2, <2>4, Zenon DEF StarsOK
  <2>6. ReadOK(list, map, argv, argAt + 1, currentIndex, values, stars)
    BY <2>2, <2>3, <2>5, Zenon DEF ReadOK, r
  <2> QED
    BY <2>1, <2>6, <1>1 DEF OptInv, OptOK
<1>4. CASE ~(currentIndex > Len(list))
  <2> DEFINE p == currentIndex
             o == list[p]
  <2>1. /\ Set(o, argv[argAt], argAt, argAt + 1)
        /\ currentIndex' = IF IsArray(o) THEN p ELSE p + 1
    BY <1>4, Zenon DEF SetInList
  <2>2. /\ PlaceFor(list, n) = p /\ p \in 1 .. Len(list)
        /\ IndexFor(list, Cardinality(Upto(Words(r), argAt + 1))) = IF IsArray(o) THEN p ELSE p + 1
        /\ ValuesOK(r, list, argv, argAt + 1, WithValue(values, o, argv[argAt]))
    BY <1>1, <1>2, <1>4, <1>b, <1>c, WordTaken
  <2>3. CASE optPc' \in {"terminated", "usage"}
    BY <2>3, Ends
  <2>4. CASE /\ optPc' = "parse" /\ values' = WithValue(values, o, argv[argAt])
             /\ stars' = IF argv[argAt] # NoValue /\ o.password THEN stars \cup {argAt} ELSE stars
    <3>1. argAt' = argAt + 1
      BY <2>1, SetIs
    <3> HIDE DEF n
    <3>2. PlaceOK(r, list, argv, argAt + 1, currentIndex')
      BY <1>2, <1>c, <2>1, <2>2 DEF PlaceOK
    <3>3. Carries(r, list, map, argv, argAt) <=> o.password
      <4>1. p # 0
        BY <2>2, <1>1 DEF ListOK
      <4> QED
        BY <1>c, <2>2, <4>1 DEF Carries, n
    <3>4. StarsOK(r, list, map, argv, argAt + 1, stars')
      <4>1. stars = {k \in 1 .. argAt - 1 : Carries(r, list, map, argv, k)}
        BY <1>1 DEF StarsOK
      <4>2. \A k : k \in 1 .. (argAt + 1) - 1 <=> k \in 1 .. argAt - 1 \/ k = argAt
        BY <1>2
      <4>3. stars' = IF o.password THEN stars \cup {argAt} ELSE stars
        BY <2>4, <1>b, Zenon
      <4> HIDE DEF o
      <4>4. CASE o.password
        BY <4>1, <4>2, <4>3, <4>4, <3>3, Zenon DEF StarsOK
      <4>5. CASE ~o.password
        BY <4>1, <4>2, <4>3, <4>5, <3>3, Zenon DEF StarsOK
      <4> QED
        BY <4>4, <4>5
    <3>5. ReadOK(list, map, argv, argAt + 1, currentIndex', values', stars')
      BY <2>2, <2>4, <3>2, <3>4, Zenon DEF ReadOK, r
    <3> QED
      BY <3>1, <3>5, <2>4, <1>1 DEF OptInv, OptOK
  <2> QED
    BY <2>1, <2>3, <2>4, SetIs, Zenon
<1> QED
  BY <1>3, <1>4

-----------------------------------------------------------------------------

\* What the next argument is, and the one behind it.
LEMMA NextArgument ==
    ASSUME OptInv, optPc = "parse", argAt <= Len(argv)
    PROVE  LET r == Roles(argv, map)
               a == argv[argAt]
               isOption == DashesOf[a] = 2 \/ (DashesOf[a] = 1 /\ LabelOf[a] \in DOMAIN map)
           IN  /\ argAt \in Nat /\ 1 <= argAt /\ argv \in Seq(Arguments) /\ Len(argv) \in Nat
               /\ a \in Arguments /\ DashesOf[a] \in 0 .. 2
               /\ r[argAt] = IF isOption THEN "option" ELSE "word"
               /\ argAt \in Words(r) <=> r[argAt] = "word"
               /\ argAt + 1 <= Len(argv) =>
                     /\ r[argAt + 1] = "value" <=>
                           isOption /\ DashesOf[a] = 1 /\ NeedValue(map[LabelOf[a]])
                     /\ argAt + 1 \in Words(r) <=> r[argAt + 1] = "word"
               /\ argAt + 2 <= Len(argv) /\ r[argAt + 1] = "value" => r[argAt + 2] # "value"
<1> DEFINE r == Roles(argv, map)
           a == argv[argAt]
           isOption == DashesOf[a] = 2 \/ (DashesOf[a] = 1 /\ LabelOf[a] \in DOMAIN map)
<1>1. PlaceOK(r, list, argv, argAt, currentIndex)
  BY DEF OptInv, OptOK, ReadOK
<1>2. /\ argAt \in Nat /\ 1 <= argAt /\ argv \in Seq(Arguments) /\ Len(argv) \in Nat
      /\ argAt \in 1 .. Len(argv) /\ r[argAt] # "value"
  BY <1>1 DEF PlaceOK
<1>3. a \in Arguments
  BY <1>2
<1>4. DashesOf[a] \in 0 .. 2
  BY <1>3, OptionsAssumption
<1>5. DOMAIN r = 1 .. Len(argv) /\ \A i \in 1 .. Len(argv) : r[i] = RoleAfter(r, argv, map, i)
  BY <1>2, RolesAre, Zenon
<1> HIDE DEF r
<1>6. r[argAt] = IF isOption THEN "option" ELSE "word"
  <2>1. r[argAt] = RoleAfter(r, argv, map, argAt)
    BY <1>2, <1>5, Zenon
  <2> QED
    BY <2>1, <1>2, Zenon DEF RoleAfter
<1>7. argAt \in Words(r) <=> r[argAt] = "word"
  BY <1>2, <1>5 DEF Words
<1>8. ASSUME argAt + 1 <= Len(argv)
      PROVE  /\ r[argAt + 1] = "value" <=>
                   isOption /\ DashesOf[a] = 1 /\ NeedValue(map[LabelOf[a]])
             /\ argAt + 1 \in Words(r) <=> r[argAt + 1] = "word"
  <2>1. argAt + 1 \in 1 .. Len(argv) /\ argAt + 1 > 1 /\ (argAt + 1) - 1 = argAt
    BY <1>2, <1>8
  <2>2. r[argAt + 1] = RoleAfter(r, argv, map, argAt + 1)
    BY <2>1, <1>5, Zenon
  <2>3. r[argAt] = "option" <=> isOption
    BY <1>6
  <2> HIDE DEF isOption
  <2>4. r[argAt + 1] = "value" <=> isOption /\ DashesOf[a] = 1 /\ NeedValue(map[LabelOf[a]])
    BY <2>1, <2>2, <2>3 DEF RoleAfter
  <2>5. argAt + 1 \in Words(r) <=> r[argAt + 1] = "word"
    BY <2>1, <1>5, Zenon DEF Words
  <2> QED
    BY <2>4, <2>5
<1>9. ASSUME argAt + 2 <= Len(argv), r[argAt + 1] = "value" PROVE r[argAt + 2] # "value"
  <2>1. argAt + 2 \in 1 .. Len(argv) /\ (argAt + 2) - 1 = argAt + 1
    BY <1>2, <1>9
  <2>2. r[argAt + 2] = RoleAfter(r, argv, map, argAt + 2)
    BY <2>1, <1>5, Zenon
  <2> QED
    BY <2>1, <2>2, <1>9 DEF RoleAfter
<1> QED
  BY <1>2, <1>3, <1>4, <1>6, <1>7, <1>8, <1>9 DEF r

\* An argument that is an option carries a password exactly in its own value.
LEMMA OptionCarries ==
    ASSUME NEW r, NEW ls, NEW mp, NEW av, NEW i, r[i] = "option"
    PROVE  Carries(r, ls, mp, av, i) <=> (ValueOfArgument[av[i]] # NoValue /\ mp[LabelOf[av[i]]].password)
BY DEF Carries, Words

LEMMA ValueCarries ==
    ASSUME NEW r, NEW ls, NEW mp, NEW av, NEW i, r[i] = "value"
    PROVE  Carries(r, ls, mp, av, i) <=> mp[LabelOf[av[i - 1]]].password
BY DEF Carries, Words

LEMMA ParseArgumentStep ==
    ASSUME OptInv, ParseArgument
    PROVE  OptInv'
<1> DEFINE r == Roles(argv, map)
           a == argv[argAt]
           l == LabelOf[a]
           v == ValueOfArgument[a]
<1>1. optPc = "parse" /\ argAt <= Len(argv) /\ UNCHANGED <<list, map, argv>>
  BY DEF ParseArgument
<1>2. /\ argAt \in Nat /\ 1 <= argAt /\ argv \in Seq(Arguments) /\ Len(argv) \in Nat
      /\ a \in Arguments /\ DashesOf[a] \in 0 .. 2
      /\ r[argAt] = IF DashesOf[a] = 2 \/ (DashesOf[a] = 1 /\ l \in DOMAIN map) THEN "option" ELSE "word"
      /\ argAt \in Words(r) <=> r[argAt] = "word"
      /\ argAt + 1 <= Len(argv) =>
            /\ r[argAt + 1] = "value" <=>
                  (DashesOf[a] = 2 \/ (DashesOf[a] = 1 /\ l \in DOMAIN map)) /\ DashesOf[a] = 1 /\ NeedValue(map[l])
            /\ argAt + 1 \in Words(r) <=> r[argAt + 1] = "word"
      /\ argAt + 2 <= Len(argv) /\ r[argAt + 1] = "value" => r[argAt + 2] # "value"
  BY <1>1, NextArgument, Zenon
<1>3. MapOK(map)
  BY DEF OptInv, OptOK
<1>4. v \in Given /\ NoValue \in Given
  BY <1>2 DEF Given
<1>5. argAt + 1 \in Nat /\ argAt < argAt + 1 /\ argAt + 1 <= Len(argv) + 1 /\ argAt .. (argAt + 1) - 1 = {argAt}
  BY <1>1, <1>2
<1>6. DashesOf[a] = 1 => v = NoValue
  BY <1>2, OptionsAssumption
<1> HIDE DEF r, a, v
<1>T. ASSUME Terminate PROVE OptInv'
  BY <1>1, <1>T, Ends DEF Terminate
<1>W. ASSUME SetInList(argAt), DashesOf[a] = 0 \/ (DashesOf[a] = 1 /\ l \notin DOMAIN map) PROVE OptInv'
  <2>1. r[argAt] = "word" /\ argAt \in Words(r) /\ (argAt + 1 <= Len(argv) => r[argAt + 1] # "value")
    BY <1>2, <1>W
  <2> QED
    BY <2>1, <1>1, <1>W, SetFromWord DEF r
<1>7. CASE DashesOf[a] = 2
  <2>1. ParseLong(argAt)
    BY <1>7, <1>1 DEF ParseArgument, a
  <2>2. CASE l \in DOMAIN map /\ (NeedValue(map[l]) <=> v # NoValue)
    <3>1. Set(map[l], v, argAt, argAt + 1) /\ UNCHANGED currentIndex
      BY <2>1, <2>2 DEF ParseLong, a, v
    <3>2. map[l] \in MapOptions
      BY <2>2, <1>3 DEF MapOK
    <3>3. r[argAt] = "option" /\ argAt \notin Words(r) /\ (argAt + 1 <= Len(argv) => r[argAt + 1] # "value")
      BY <1>2, <1>7
    <3>4. Carries(r, list, map, argv, argAt) <=> (v # NoValue /\ map[l].password)
      BY <3>3, OptionCarries, Zenon DEF a, v
    <3>5. \A k \in argAt .. (argAt + 1) - 1 : k \notin Words(r)
      BY <1>5, <3>3, Zenon
    <3>6. \A k \in argAt .. (argAt + 1) - 1 :
             Carries(r, list, map, argv, k) <=> (k = argAt /\ v # NoValue /\ map[l].password)
      BY <1>5, <3>4, Zenon
    <3>7. argAt \in argAt .. (argAt + 1) - 1
      BY <1>5
    <3> QED
      BY <3>1, <3>2, <3>3, <3>5, <3>6, <3>7, <1>1, <1>4, <1>5, SetFromMap, Zenon DEF r
  <2>3. CASE ~(l \in DOMAIN map /\ (NeedValue(map[l]) <=> v # NoValue))
    BY <2>1, <2>3, <1>T DEF ParseLong, a, v
  <2> QED
    BY <2>2, <2>3
<1>8. CASE DashesOf[a] = 1
  <2>1. ParseShort(argAt)
    BY <1>8, <1>1 DEF ParseArgument, a
  <2>2. CASE l \notin DOMAIN map /\ list = <<>>
    BY <2>1, <2>2, <1>T DEF ParseShort, a
  <2>3. CASE l \notin DOMAIN map /\ list # <<>>
    BY <2>1, <2>3, <1>W, <1>8 DEF ParseShort, a
  <2>4. CASE l \in DOMAIN map /\ ~NeedValue(map[l])
    <3>1. Set(map[l], NoValue, argAt, argAt + 1) /\ UNCHANGED currentIndex
      BY <2>1, <2>4 DEF ParseShort, a
    <3>2. map[l] \in MapOptions
      BY <2>4, <1>3 DEF MapOK
    <3>3. r[argAt] = "option" /\ argAt \notin Words(r) /\ (argAt + 1 <= Len(argv) => r[argAt + 1] # "value")
      BY <1>2, <1>8, <2>4
    <3>4. ~Carries(r, list, map, argv, argAt)
      BY <3>3, <1>6, <1>8, OptionCarries, Zenon DEF a, v
    <3>5. \A k \in argAt .. (argAt + 1) - 1 : k \notin Words(r)
      BY <1>5, <3>3, Zenon
    <3>6. \A k \in argAt .. (argAt + 1) - 1 :
             Carries(r, list, map, argv, k) <=> (k = argAt /\ NoValue # NoValue /\ map[l].password)
      BY <1>5, <3>4, Zenon
    <3>7. argAt \in argAt .. (argAt + 1) - 1
      BY <1>5
    <3> QED
      BY <3>1, <3>2, <3>3, <3>5, <3>6, <3>7, <1>1, <1>4, <1>5, SetFromMap, Zenon DEF r
  <2>5. CASE l \in DOMAIN map /\ NeedValue(map[l]) /\ argAt = Len(argv)
    BY <2>1, <2>5, <1>T DEF ParseShort, a
  <2>6. CASE l \in DOMAIN map /\ NeedValue(map[l]) /\ argAt # Len(argv)
    <3> DEFINE w == argv[argAt + 1]
    <3>1. Set(map[l], w, argAt + 1, argAt + 2) /\ UNCHANGED currentIndex
      BY <2>1, <2>6 DEF ParseShort, AfterShortValue, a
    <3>2. map[l] \in MapOptions
      BY <2>6, <1>3 DEF MapOK
    <3>3. argAt + 1 <= Len(argv) /\ argAt + 1 \in 1 .. Len(argv)
      BY <2>6, <1>1, <1>2
    <3>4. w \in Given /\ w # NoValue
      <4>1. w \in Arguments
        BY <3>3, <1>2
      <4> QED
        BY <4>1, OptionsAssumption DEF Given
    <3>5. /\ r[argAt] = "option" /\ argAt \notin Words(r)
          /\ r[argAt + 1] = "value" /\ argAt + 1 \notin Words(r)
          /\ argAt + 2 <= Len(argv) => r[argAt + 2] # "value"
      BY <3>3, <1>2, <1>8, <2>6
    <3>6. ~Carries(r, list, map, argv, argAt)
      BY <3>5, <1>6, <1>8, OptionCarries, Zenon DEF a, v
    <3>7. Carries(r, list, map, argv, argAt + 1) <=> map[l].password
      <4>1. (argAt + 1) - 1 = argAt
        BY <1>2
      <4>2. Carries(r, list, map, argv, argAt + 1) <=> map[LabelOf[argv[(argAt + 1) - 1]]].password
        BY <3>5, ValueCarries, Zenon
      <4> QED
        BY <4>1, <4>2, Zenon DEF a
    <3>8. \A k : k \in argAt .. (argAt + 2) - 1 <=> k = argAt \/ k = argAt + 1
      BY <1>2
    <3>9. \A k \in argAt .. (argAt + 2) - 1 : k \notin Words(r)
      BY <3>5, <3>8, Zenon
    <3>10. argAt # argAt + 1 /\ argAt + 2 \in Nat /\ argAt < argAt + 2 /\ argAt + 2 <= Len(argv) + 1
      BY <3>3, <1>2
    <3> HIDE DEF w
    <3>11. \A k \in argAt .. (argAt + 2) - 1 :
              Carries(r, list, map, argv, k) <=> (k = argAt + 1 /\ w # NoValue /\ map[l].password)
      BY <3>4, <3>6, <3>7, <3>8, <3>10, Zenon
    <3>12. argAt + 1 \in argAt .. (argAt + 2) - 1
      BY <3>8
    <3> QED
      BY <3>1, <3>2, <3>4, <3>5, <3>9, <3>10, <3>11, <3>12, <1>1, SetFromMap, Zenon DEF r
  <2> QED
    BY <2>2, <2>3, <2>4, <2>5, <2>6
<1>9. CASE DashesOf[a] = 0
  <2>1. SetInList(argAt)
    BY <1>9, <1>1 DEF ParseArgument, a
  <2> QED
    BY <2>1, <1>9, <1>W
<1> QED
  BY <1>2, <1>7, <1>8, <1>9

-----------------------------------------------------------------------------

\* Nothing was read before the first argument.
LEMMA NoArgumentRead ==
    ASSUME NEW ls, ListOK(ls), NEW mp, NEW av \in Seq(Arguments)
    PROVE  ReadOK(ls, mp, av, 1, 1, EmptyMap, {})
<1> DEFINE r == Roles(av, mp)
<1>1. Len(av) \in Nat /\ Len(ls) \in Nat /\ (ls = <<>> <=> Len(ls) = 0)
  BY DEF ListOK
<1>2. \A T : Upto(T, 1) = {}
  BY DEF Upto
<1>3. Cardinality({}) = 0
  BY FS_EmptySet
<1>4. r[1] # "value" \/ ~(1 <= Len(av))
  <2>1. ASSUME 1 <= Len(av) PROVE r[1] = RoleAfter(r, av, mp, 1)
    BY <1>1, <2>1, RolesAre
  <2>2. RoleAfter(r, av, mp, 1) # "value"
    BY DEF RoleAfter
  <2> QED
    BY <2>1, <2>2
<1> HIDE DEF r
<1>5. 1 = IndexFor(ls, 0)
  BY <1>1 DEF IndexFor, EndsInArray
<1>6. PlaceOK(r, ls, av, 1, 1)
  <2>1. Cardinality(Upto(Words(r), 1)) = 0
    BY <1>2, <1>3, Zenon
  <2>2. 1 \in 1 .. Len(av) + 1
    BY <1>1
  <2> QED
    BY <2>1, <2>2, <1>4, <1>5, Zenon DEF PlaceOK
<1>7. StarsOK(r, ls, mp, av, 1, {})
  BY DEF StarsOK
<1>8. DOMAIN EmptyMap = {}
  BY DEF EmptyMap
<1>9. ValuesOK(r, ls, av, 1, EmptyMap)
  <2>1. ASSUME NEW p \in 1 .. Len(ls)
        PROVE  /\ ls[p] \in DOMAIN EmptyMap <=> p <= Cardinality(Upto(Words(r), 1))
               /\ Filled(ValuesIn(EmptyMap, ls[p]), av, Mine(r, ls, p), 1)
    <3>1. ~(p <= 0)
      BY <1>1
    <3>2. ValuesIn(EmptyMap, ls[p]) = <<>> /\ Len(<<>>) = 0
      BY <1>8 DEF ValuesIn
    <3>3. Filled(<<>>, av, Mine(r, ls, p), 1)
      BY <1>2, <1>3, <3>2, Zenon DEF Filled
    <3> QED
      BY <1>2, <1>3, <1>8, <3>1, <3>2, <3>3, Zenon
  <2> QED
    BY <2>1, <1>8, Zenon DEF ValuesOK
<1> QED
  BY <1>6, <1>7, <1>9, Zenon DEF ReadOK, r

\* One more option in the list.
LEMMA ListMore ==
    ASSUME NEW ls, ListOK(ls), NEW o \in ListOptions, \A i \in 1 .. Len(ls) : ls[i] # o,
           ls # <<>> => ~IsArray(ls[Len(ls)])
    PROVE  ListOK(Append(ls, o))
<1> DEFINE m == Append(ls, o)
           n == Len(ls)
<1>1. ls \in Seq(ListOptions) /\ n \in Nat /\ (n > 0 => ls # <<>>)
  BY DEF ListOK
<1>2. m \in Seq(ListOptions) /\ Len(m) = n + 1 /\ m[n + 1] = o /\ \A i \in 1 .. n : m[i] = ls[i]
  BY <1>1
<1> HIDE DEF m, n
<1>3. \A i, j \in 1 .. n + 1 : m[i] = m[j] => i = j
  <2> SUFFICES ASSUME NEW i \in 1 .. n + 1, NEW j \in 1 .. n + 1, m[i] = m[j] PROVE i = j
    OBVIOUS
  <2>1. (i \in 1 .. n \/ i = n + 1) /\ (j \in 1 .. n \/ j = n + 1)
    BY <1>1
  <2>2. \A k, h \in 1 .. n : ls[k] = ls[h] => k = h
    BY Zenon DEF ListOK, n
  <2>3. \A k \in 1 .. n : ls[k] # o
    BY DEF n
  <2> QED
    BY <2>1, <2>2, <2>3, <1>2, Zenon
<1>4. \A i \in 1 .. n + 1 : IsArray(m[i]) => i = n + 1
  <2> SUFFICES ASSUME NEW i \in 1 .. n + 1, IsArray(m[i]), i # n + 1 PROVE FALSE
    OBVIOUS
  <2>1. i \in 1 .. n /\ n > 0
    BY <1>1
  <2>2. IsArray(ls[i])
    BY <2>1, <1>2
  <2>3. i = n
    BY <2>1, <2>2, Zenon DEF ListOK, n
  <2> QED
    BY <2>1, <2>2, <2>3, <1>1, Zenon DEF n
<1> QED
  BY <1>2, <1>3, <1>4 DEF ListOK, m

LEMMA OptionsStep ==
    ASSUME OptInv, [OptionsNext]_optVars
    PROVE  OptInv'
<1>1. ASSUME NEW o \in ListOptions, ListAppend(o) PROVE OptInv'
  <2>1. ListOK(list) /\ MapOK(map) /\ optPc = "setup"
        /\ argAt = 1 /\ currentIndex = 1 /\ values = EmptyMap /\ stars = {}
    BY <1>1 DEF ListAppend, OptInv, OptOK
  <2>2. UNCHANGED <<map, argv, argAt, currentIndex, values, stars>>
    BY <1>1 DEF ListAppend
  <2>3. CASE FitsList(o)
    <3>1. ListOK(Append(list, o))
      <4>1. list # <<>> => ~IsArray(list[Len(list)])
        BY <2>3, LastOf DEF FitsList
      <4> QED
        BY <4>1, <1>1, <2>1, ListMore DEF ListAppend
    <3>2. list' = Append(list, o) /\ optPc' = optPc
      BY <1>1, <2>3 DEF ListAppend
    <3> QED
      BY <2>1, <2>2, <3>1, <3>2 DEF OptInv, OptOK
  <2>4. CASE ~FitsList(o)
    BY <1>1, <2>2, <2>4, Ends DEF ListAppend
  <2> QED
    BY <2>3, <2>4
<1>2. ASSUME NEW o \in MapOptions, MapInsert(o) PROVE OptInv'
  <2>1. ListOK(list) /\ MapOK(map) /\ optPc = "setup"
        /\ argAt = 1 /\ currentIndex = 1 /\ values = EmptyMap /\ stars = {}
    BY <1>2 DEF MapInsert, OptInv, OptOK
  <2>2. UNCHANGED <<list, argv, argAt, currentIndex, values, stars>>
    BY <1>2 DEF MapInsert
  <2>3. ASSUME optPc' = "terminated", UNCHANGED map PROVE OptInv'
    BY <2>2, <2>3, Ends
  <2>4. ASSUME optPc' = "terminated", NEW labels, map' = MapWith(labels, o) PROVE OptInv'
    <3>1. MapOK(map')
      BY <2>1, <2>4, MapWithIs, Zenon
    <3> QED
      BY <2>1, <2>2, <2>4, <3>1 DEF OptInv, OptOK
  <2>5. ASSUME UNCHANGED optPc, map' = MapWith(o.labels, o) PROVE OptInv'
    <3>1. MapOK(map')
      BY <2>1, <2>5, MapWithIs, Zenon
    <3> QED
      BY <2>1, <2>2, <2>5, <3>1 DEF OptInv, OptOK
  <2> QED
    BY <1>2, <2>3, <2>4, <2>5, Zenon DEF MapInsert
<1>3. ASSUME NEW args \in BoundedSeq(Arguments, MaxArguments), StartParse(args) PROVE OptInv'
  <2>1. args \in Seq(Arguments)
    <3>1. PICK n \in 0 .. MaxArguments : args \in [1 .. n -> Arguments]
      BY DEF BoundedSeq, SeqOf
    <3> QED
      BY <3>1
  <2>2. ListOK(list) /\ MapOK(map) /\ argAt = 1 /\ currentIndex = 1 /\ values = EmptyMap /\ stars = {}
    BY <1>3 DEF StartParse, OptInv, OptOK
  <2>3. ReadOK(list, map, args, 1, 1, EmptyMap, {})
    BY <2>1, <2>2, NoArgumentRead
  <2> QED
    BY <1>3, <2>2, <2>3 DEF StartParse, OptInv, OptOK
<1>4. ASSUME ParseArgument PROVE OptInv'
  BY <1>4, ParseArgumentStep
<1>5. ASSUME CheckRequired PROVE OptInv'
  <2>1. UNCHANGED <<list, map, argv, argAt, currentIndex, values, stars>> /\ optPc = "parse"
    BY <1>5 DEF CheckRequired
  <2>2. CASE MissingRequired = {}
    <3>1. optPc' = "returned"
      BY <1>5, <2>2 DEF CheckRequired
    <3>2. ListOK(list) /\ MapOK(map) /\ ReadOK(list, map, argv, argAt, currentIndex, values, stars)
      BY <2>1 DEF OptInv, OptOK
    <3>3. {list[i] : i \in 1 .. Len(list)} \subseteq Registered /\ {map[l] : l \in DOMAIN map} \subseteq Registered
      <4>1. ToSet(list) = {list[i] : i \in DOMAIN list}
        BY DEF ToSet
      <4>2. DOMAIN list = 1 .. Len(list)
        BY <3>2 DEF ListOK
      <4> QED
        BY <4>1, <4>2, Zenon DEF Registered
    <3>4. \A o \in Registered : o.required => o \in DOMAIN values
      BY <2>2, Zenon DEF MissingRequired
    <3>5. \A o \in {list[i] : i \in 1 .. Len(list)} \cup {map[l] : l \in DOMAIN map} :
             o.required => o \in DOMAIN values
      BY <3>3, <3>4, Zenon
    <3> QED
      BY <2>1, <3>1, <3>2, <3>5, Zenon DEF OptInv, OptOK
  <2>3. CASE MissingRequired # {}
    BY <1>5, <2>1, <2>3, Ends DEF CheckRequired
  <2> QED
    BY <2>2, <2>3
<1>6. CASE UNCHANGED optVars
  BY <1>6, Zenon DEF optVars, OptInv
<1> QED
  BY <1>1, <1>2, <1>3, <1>4, <1>5, <1>6 DEF OptionsNext

\* Places of words as the properties speak of them.
LEMMA PlacesOfWords ==
    ASSUME NEW i \in 1 .. Len(argv), Len(argv) \in Nat
    PROVE  LET r == Roles(argv, map)
           IN  /\ i \in Words(r) <=> r[i] = "word"
               /\ PlaceOf(i) = PlaceFor(list, Cardinality(Upto(Words(r), i)))
<1> DEFINE r == Roles(argv, map)
<1>1. DOMAIN r = 1 .. Len(argv) /\ RoleOf = r
  BY RolesAre, RolesOfArgv, Zenon
<1> HIDE DEF r
<1>2. {j \in 1 .. i - 1 : RoleOf[j] = "word"} = Upto(Words(r), i)
  BY <1>1 DEF Upto, Words
<1>3. (list # <<>> /\ IsArray(Last(list))) <=> EndsInArray(list)
  BY LastOf, Zenon DEF EndsInArray
<1>4. PlaceOf(i) = PlaceFor(list, Cardinality(Upto(Words(r), i)))
  BY <1>2, <1>3, Zenon DEF PlaceOf, PlaceFor
<1>5. i \in Words(r) <=> r[i] = "word"
  BY <1>1 DEF Words
<1> QED
  BY <1>4, <1>5 DEF r

LEMMA OptionsImply ==
    ASSUME OptInv
    PROVE  OptionsAreAsGiven
<1> DEFINE r == Roles(argv, map)
<1>1. CASE optPc \notin {"parse", "returned"}
  BY <1>1 DEF OptionsAreAsGiven, WordsFillTheList, PasswordsAreHidden, RequiredAreGiven
<1>2. CASE optPc \in {"parse", "returned"}
  <2>1. /\ ListOK(list) /\ PlaceOK(r, list, argv, argAt, currentIndex)
        /\ StarsOK(r, list, map, argv, argAt, stars) /\ ValuesOK(r, list, argv, argAt, values)
    BY <1>2 DEF OptInv, OptOK, ReadOK
  <2>2. /\ argAt \in Nat /\ 1 <= argAt /\ Len(argv) \in Nat /\ argAt <= Len(argv) + 1
        /\ \A i \in 1 .. argAt - 1 : i \in 1 .. Len(argv)
    BY <2>1 DEF PlaceOK
  <2>3. RoleOf = r
    BY RolesOfArgv, Zenon
  <2>4. \A i \in 1 .. argAt - 1 :
           /\ i \in Words(r) <=> r[i] = "word"
           /\ PlaceOf(i) = PlaceFor(list, Cardinality(Upto(Words(r), i)))
    BY <2>2, PlacesOfWords, Zenon
  <2>5. \A o : ValuesOf(o) = ValuesIn(values, o)
    BY DEF ValuesOf, ValuesIn
  <2> HIDE DEF r
  <2>6. WordsFillTheList
    <3> SUFFICES ASSUME NEW p \in 1 .. Len(list)
                 PROVE  LET mine == {i \in 1 .. argAt - 1 : RoleOf[i] = "word" /\ PlaceOf(i) = p}
                            given == ValuesOf(list[p])
                        IN  /\ Len(given) = Cardinality(mine)
                            /\ \A i \in mine : given[Cardinality({j \in mine : j <= i})] = argv[i]
      BY Zenon DEF WordsFillTheList
    <3> DEFINE mine == {i \in 1 .. argAt - 1 : RoleOf[i] = "word" /\ PlaceOf(i) = p}
               T == Mine(r, list, p)
               vs == ValuesIn(values, list[p])
    <3>1. mine = Upto(T, argAt)
      BY <2>3, <2>4, Zenon DEF Upto, Mine
    <3> HIDE DEF mine
    <3>2. Filled(vs, argv, T, argAt)
      BY <2>1, Zenon DEF ValuesOK
    <3>3. ASSUME NEW i \in mine PROVE {j \in mine : j <= i} = Upto(T, i + 1)
      <4>1. i \in 1 .. argAt - 1
        BY <3>1, <3>3 DEF Upto
      <4> HIDE DEF T
      <4> QED
        BY <3>1, <4>1, <2>2 DEF Upto
    <3> HIDE DEF T, vs
    <3>4. Len(vs) = Cardinality(mine) /\ \A i \in mine : vs[Cardinality({j \in mine : j <= i})] = argv[i]
      BY <3>1, <3>2, <3>3, Zenon DEF Filled
    <3> QED
      BY <3>4, <2>5, Zenon DEF mine, vs
  <2>7. PasswordsAreHidden
    <3>1. \A i \in 1 .. argAt - 1 : CarriesPassword(i) <=> Carries(r, list, map, argv, i)
      BY <2>3, <2>4, Zenon DEF CarriesPassword, Carries
    <3>2. stars = {i \in 1 .. argAt - 1 : Carries(r, list, map, argv, i)}
      BY <2>1 DEF StarsOK
    <3> QED
      BY <3>1, <3>2, Zenon DEF PasswordsAreHidden
  <2>8. RequiredAreGiven
    <3> SUFFICES ASSUME optPc = "returned"
                 PROVE  /\ \A o \in Registered : o.required => ValuesOf(o) # <<>>
                        /\ \A p, q \in 1 .. Len(list) :
                              p < q /\ list[p] \notin DOMAIN values => list[q] \notin DOMAIN values
      BY DEF RequiredAreGiven
    <3>1. Registered = {list[i] : i \in 1 .. Len(list)} \cup {map[l] : l \in DOMAIN map}
      <4>1. DOMAIN list = 1 .. Len(list)
        BY <2>1 DEF ListOK
      <4> QED
        BY <4>1, Zenon DEF Registered, ToSet
    <3>2. \A o \in Registered : o.required => o \in DOMAIN values
      BY <3>1, Zenon DEF OptInv, OptOK
    <3>3. \A o \in DOMAIN values : ValuesOf(o) # <<>>
      BY <2>1, Zenon DEF ValuesOK, ValuesOf
    <3>4. ASSUME NEW p \in 1 .. Len(list), NEW q \in 1 .. Len(list), p < q, list[q] \in DOMAIN values
          PROVE  list[p] \in DOMAIN values
      <4> DEFINE n == Cardinality(Upto(Words(r), argAt))
      <4>1. n \in Nat
        BY <2>2, UptoStep
      <4>2. q <= n /\ (p <= n => list[p] \in DOMAIN values)
        BY <2>1, <3>4, Zenon DEF ValuesOK
      <4> HIDE DEF n
      <4>3. p \in Int /\ q \in Int
        OBVIOUS
      <4> QED
        BY <4>1, <4>2, <4>3, <3>4
    <3> QED
      BY <3>2, <3>3, <3>4, Zenon
  <2> QED
    BY <2>6, <2>7, <2>8 DEF OptionsAreAsGiven
<1> QED
  BY <1>1, <1>2

\* Parsing a command line, for every set of options and every list of arguments:
\* every word goes to the option of the list that it was meant for, every password
\* that was read is overwritten and nothing else is, and when Parse returns all
\* required options were given.
THEOREM OptionsCorrect == OptionsSpec => []OptionsAreAsGiven
<1>1. OptionsInit => OptInv
  <2>1. <<>> \in Seq(ListOptions) /\ Len(<<>>) = 0 /\ \A i \in 1 .. 0 : FALSE
    OBVIOUS
  <2>2. ListOK(<<>>)
    BY <2>1 DEF ListOK
  <2>3. MapOK(EmptyMap)
    BY DEF MapOK, EmptyMap
  <2> QED
    BY <2>2, <2>3 DEF OptionsInit, OptInv, OptOK
<1>2. OptInv /\ [OptionsNext]_optVars => OptInv'
  BY OptionsStep
<1>3. OptInv => OptionsAreAsGiven
  BY OptionsImply
<1> QED
  BY <1>1, <1>2, <1>3, PTL DEF OptionsSpec


-----------------------------------------------------------------------------
(* The string matcher.                                                      *)

\* Which characters of a template begin an item, told from the character before.

AreStarts(g, t, n) == g = [i \in 1 .. n |-> i = 1 \/ ~(g[i - 1] /\ t[i - 1] = "%")]
Starts(t) == CHOOSE g : AreStarts(g, t, Len(t))
ItemsOf(t) == {i \in 1 .. Len(t) : Starts(t)[i]}

\* They are those of the model.
LEMMA ItemsOfTemplate == Items = ItemsOf(template)
<1>1. ItemAt = Starts(template)
  BY Zenon DEF ItemAt, Starts, AreStarts
<1> QED
  BY <1>1, Zenon DEF Items, ItemsOf

LEMMA StartsMore ==
    ASSUME NEW t, NEW n \in Nat, NEW g, AreStarts(g, t, n)
    PROVE  \E h : AreStarts(h, t, n + 1)
<1> DEFINE h == [i \in 1 .. n + 1 |-> i = 1 \/ ~(g[i - 1] /\ t[i - 1] = "%")]
<1>1. \A i \in 1 .. n : h[i] = g[i]
  BY DEF AreStarts
<1>2. ASSUME NEW i \in 1 .. n + 1
      PROVE  (i = 1 \/ ~(g[i - 1] /\ t[i - 1] = "%")) = (i = 1 \/ ~(h[i - 1] /\ t[i - 1] = "%"))
  <2>1. CASE i # 1
    <3>1. i - 1 \in 1 .. n
      BY <2>1
    <3>2. h[i - 1] = g[i - 1]
      BY <3>1, <1>1
    <3> HIDE DEF h
    <3> QED
      BY <3>2, Zenon
  <2>2. CASE i = 1
    <3> HIDE DEF h
    <3> QED
      BY <2>2, Zenon
  <2> QED
    BY <2>1, <2>2
<1>3. h = [i \in 1 .. n + 1 |-> i = 1 \/ ~(h[i - 1] /\ t[i - 1] = "%")]
  BY <1>2, Zenon
<1> QED
  BY <1>3, Zenon DEF AreStarts

LEMMA StartsExist ==
    ASSUME NEW t, NEW n \in Nat
    PROVE  \E g : AreStarts(g, t, n)
<1> DEFINE S == {m \in Nat : ~ \E g : AreStarts(g, t, m)}
<1>1. ASSUME S # {} PROVE FALSE
  <2>1. PICK m \in S : \A k \in S : m <= k
    BY <1>1, LeastPlace, Zenon
  <2>2. m # 0
    <3>1. ASSUME m = 0 PROVE FALSE
      <4> DEFINE e == [i \in {} |-> TRUE]
      <4>1. 1 .. 0 = {}
        OBVIOUS
      <4>2. e = [i \in 1 .. 0 |-> i = 1 \/ ~(e[i - 1] /\ t[i - 1] = "%")]
        BY <4>1
      <4> HIDE DEF e
      <4> QED
        BY <4>2, <3>1, <2>1, Zenon DEF AreStarts
    <3> QED
      BY <3>1
  <2>3. m - 1 \in Nat /\ ~(m <= m - 1) /\ (m - 1) + 1 = m
    BY <2>1, <2>2
  <2>4. \E g : AreStarts(g, t, m - 1)
    BY <2>1, <2>3, Zenon
  <2>5. \E h : AreStarts(h, t, (m - 1) + 1)
    BY <2>3, <2>4, StartsMore, Zenon
  <2> QED
    BY <2>1, <2>3, <2>5
<1> QED
  BY <1>1

\* A character begins an item unless it is escaped by the one before.
LEMMA ItemsAre ==
    ASSUME NEW t, Len(t) \in Nat
    PROVE  \A i \in 1 .. Len(t) : i \in ItemsOf(t) <=> (i = 1 \/ ~(i - 1 \in ItemsOf(t) /\ t[i - 1] = "%"))
<1> DEFINE g == Starts(t)
<1>1. \E h : AreStarts(h, t, Len(t))
  BY StartsExist
<1>2. AreStarts(g, t, Len(t))
  BY <1>1, Zenon DEF Starts
<1> HIDE DEF g
<1>3. ASSUME NEW i \in 1 .. Len(t) PROVE g[i] <=> (i = 1 \/ ~(g[i - 1] /\ t[i - 1] = "%"))
  <2> DEFINE k == [j \in 1 .. Len(t) |-> j = 1 \/ ~(g[j - 1] /\ t[j - 1] = "%")]
  <2>1. k[i] = (i = 1 \/ ~(g[i - 1] /\ t[i - 1] = "%"))
    OBVIOUS
  <2>2. g = k
    BY <1>2, Zenon DEF AreStarts
  <2> HIDE DEF k
  <2> QED
    BY <2>1, <2>2, Zenon
<1>4. ASSUME NEW i \in 1 .. Len(t)
      PROVE  i \in ItemsOf(t) <=> (i = 1 \/ ~(i - 1 \in ItemsOf(t) /\ t[i - 1] = "%"))
  <2>1. i \in ItemsOf(t) <=> g[i]
    BY Zenon DEF ItemsOf, g
  <2>2. CASE i = 1
    BY <2>1, <2>2, <1>3, Zenon
  <2>3. CASE i # 1
    <3>1. i - 1 \in 1 .. Len(t)
      BY <2>3
    <3>2. i - 1 \in ItemsOf(t) <=> g[i - 1]
      BY <3>1, Zenon DEF ItemsOf, g
    <3> QED
      BY <2>1, <2>3, <3>2, <1>3, Zenon
  <2> QED
    BY <2>2, <2>3
<1> QED
  BY <1>4


-----------------------------------------------------------------------------

\* The items that consume a character, and the brackets.
ConsumingOf(t) == {i \in ItemsOf(t) : t[i] \notin {"(", ")", "$"}}
OpensOf(t) == {i \in ItemsOf(t) : t[i] = "("}
ClosesOf(t) == {i \in ItemsOf(t) : t[i] = ")"}

\* What is consumed, and the brackets that are opened and left open, before place x.
Eaten(t, x) == Cardinality(Upto(ConsumingOf(t), x))
Num(t, x) == Cardinality(Upto(OpensOf(t), x))
Open(t, x) == Num(t, x) - Cardinality(Upto(ClosesOf(t), x))

LEMMA EatenStep ==
    ASSUME NEW t, NEW x \in Nat, 1 <= x
    PROVE  /\ Eaten(t, x) \in Nat
           /\ x \in ConsumingOf(t) => Eaten(t, x + 1) = Eaten(t, x) + 1
           /\ x \notin ConsumingOf(t) => Eaten(t, x + 1) = Eaten(t, x)
BY UptoStep DEF Eaten

LEMMA OpenStep ==
    ASSUME NEW t, NEW x \in Nat, 1 <= x
    PROVE  /\ Num(t, x) \in Nat /\ Open(t, x) \in Int
           /\ x \in OpensOf(t) => Num(t, x + 1) = Num(t, x) + 1 /\ Open(t, x + 1) = Open(t, x) + 1
           /\ x \in ClosesOf(t) => Num(t, x + 1) = Num(t, x) /\ Open(t, x + 1) = Open(t, x) - 1
           /\ x \notin OpensOf(t) \cup ClosesOf(t) => Num(t, x + 1) = Num(t, x) /\ Open(t, x + 1) = Open(t, x)
<1>1. ~(x \in OpensOf(t) /\ x \in ClosesOf(t))
  BY DEF OpensOf, ClosesOf
<1> DEFINE a == Cardinality(Upto(OpensOf(t), x))
           b == Cardinality(Upto(ClosesOf(t), x))
           c == Cardinality(Upto(OpensOf(t), x + 1))
           d == Cardinality(Upto(ClosesOf(t), x + 1))
<1>2. /\ a \in Nat /\ (x \in OpensOf(t) => c = a + 1) /\ (x \notin OpensOf(t) => c = a)
      /\ b \in Nat /\ (x \in ClosesOf(t) => d = b + 1) /\ (x \notin ClosesOf(t) => d = b)
  BY UptoStep
<1>3. Num(t, x) = a /\ Num(t, x + 1) = c /\ Open(t, x) = a - b /\ Open(t, x + 1) = c - d
  BY DEF Num, Open
<1> HIDE DEF a, b, c, d
<1> QED
  BY <1>1, <1>2, <1>3

\* Between places without a bracket nothing changes.
LEMMA OpenSame ==
    ASSUME NEW t, NEW x \in Nat, NEW y \in Nat, 1 <= x, x <= y,
           \A i \in x .. y - 1 : i \notin OpensOf(t) \cup ClosesOf(t)
    PROVE  Num(t, y) = Num(t, x) /\ Open(t, y) = Open(t, x)
<1>1. Upto(OpensOf(t), y) = Upto(OpensOf(t), x)
  BY UptoSame
<1>2. Upto(ClosesOf(t), y) = Upto(ClosesOf(t), x)
  BY UptoSame
<1> QED
  BY <1>1, <1>2, Zenon DEF Num, Open

\* The ")" at place m belongs to the "(" at place o.
PairOf(t, o, m) ==
    /\ o \in OpensOf(t) /\ m \in ClosesOf(t) /\ o < m
    /\ Open(t, m + 1) = Open(t, o)
    /\ \A x \in o + 1 .. m : Open(t, x) > Open(t, o)

\* The "(" at place o is open at place y.
StackItem(t, y, num, k, o) ==
    /\ o \in OpensOf(t) /\ o < y /\ num = Num(t, o)
    /\ Open(t, o) = k - 1
    /\ \A x \in o + 1 .. y : Open(t, x) >= k

\* The stack holds the brackets that are open, and the others are closed.
OpenedOK(t, y, op) ==
    /\ op \in Seq(Nat) /\ Len(op) = Open(t, y)
    /\ \A k \in 1 .. Len(op) : \E o : StackItem(t, y, op[k], k, o)
    /\ \A p \in OpensOf(t) : p < y =>
          \/ \E m : m < y /\ PairOf(t, p, m)
          \/ \E k \in 1 .. Len(op) : StackItem(t, y, op[k], k, p)

\* An item stays open as long as the number does not fall below it.
LEMMA StackMore ==
    ASSUME NEW t, NEW y \in Nat, NEW z \in Nat, 1 <= y, y <= z, NEW num, NEW k \in Nat, NEW o,
           StackItem(t, y, num, k, o), \A x \in y + 1 .. z : Open(t, x) >= k, Len(t) \in Nat
    PROVE  StackItem(t, z, num, k, o)
<1>1. o \in Nat
  BY DEF StackItem, OpensOf, ItemsOf
<1>2. \A x \in o + 1 .. z : x \in o + 1 .. y \/ x \in y + 1 .. z
  BY <1>1
<1>3. o < z
  BY <1>1 DEF StackItem
<1> QED
  BY <1>2, <1>3, Zenon DEF StackItem

LEMMA OpenedSame ==
    ASSUME NEW t, Len(t) \in Nat, NEW x \in Nat, NEW y \in Nat, 1 <= x, x <= y, NEW op, OpenedOK(t, x, op),
           \A i \in x .. y - 1 : i \notin OpensOf(t) \cup ClosesOf(t)
    PROVE  OpenedOK(t, y, op)
<1>1. Open(t, y) = Open(t, x)
  BY OpenSame
<1>2. op \in Seq(Nat) /\ Len(op) = Open(t, x) /\ Len(op) \in Nat
  BY DEF OpenedOK
<1>3. \A z \in x + 1 .. y : Open(t, z) = Open(t, x)
  <2> SUFFICES ASSUME NEW z \in x + 1 .. y PROVE Open(t, z) = Open(t, x)
    OBVIOUS
  <2>1. z \in Nat /\ x <= z /\ \A i \in x .. z - 1 : i \in x .. y - 1
    OBVIOUS
  <2> QED
    BY <2>1, OpenSame
<1>4. ASSUME NEW k \in 1 .. Len(op), NEW num, NEW o, StackItem(t, x, num, k, o) PROVE StackItem(t, y, num, k, o)
  <2>1. k \in Nat /\ \A z \in x + 1 .. y : Open(t, z) >= k
    BY <1>2, <1>3
  <2> QED
    BY <2>1, <1>4, StackMore
<1>5. \A p \in OpensOf(t) : p < y => p < x
  BY DEF OpensOf, ItemsOf
<1>6. \A m : m \in ClosesOf(t) /\ m < x => m < y
  BY DEF ClosesOf, ItemsOf
<1>7. \A k \in 1 .. Len(op) : \E o : StackItem(t, y, op[k], k, o)
  BY <1>4, Zenon DEF OpenedOK
<1>8. \A p \in OpensOf(t) : p < y =>
          \/ \E m : m < y /\ PairOf(t, p, m)
          \/ \E k \in 1 .. Len(op) : StackItem(t, y, op[k], k, p)
  BY <1>4, <1>5, <1>6, Zenon DEF OpenedOK, PairOf
<1> QED
  BY <1>1, <1>2, <1>7, <1>8, Zenon DEF OpenedOK

LEMMA OpenedPush ==
    ASSUME NEW t, Len(t) \in Nat, NEW x \in Nat, 1 <= x, NEW op, OpenedOK(t, x, op), x \in OpensOf(t)
    PROVE  OpenedOK(t, x + 1, Append(op, Num(t, x)))
<1> DEFINE n == Len(op)
           u == Append(op, Num(t, x))
<1>1. op \in Seq(Nat) /\ n = Open(t, x) /\ n \in Nat
  BY DEF OpenedOK
<1>2. Num(t, x) \in Nat /\ Open(t, x + 1) = n + 1
  BY <1>1, OpenStep
<1>3. u \in Seq(Nat) /\ Len(u) = n + 1 /\ u[n + 1] = Num(t, x) /\ \A k \in 1 .. n : u[k] = op[k]
  BY <1>1, <1>2
<1> HIDE DEF u, n
<1>4. ASSUME NEW k \in 1 .. n, NEW num, NEW o, StackItem(t, x, num, k, o) PROVE StackItem(t, x + 1, num, k, o)
  <2>1. k \in Nat /\ \A z \in x + 1 .. x + 1 : Open(t, z) >= k
    BY <1>1, <1>2
  <2> QED
    BY <2>1, <1>4, StackMore
<1>5. StackItem(t, x + 1, u[n + 1], n + 1, x)
  <2>1. \A z \in x + 1 .. x + 1 : Open(t, z) >= n + 1
    BY <1>1, <1>2
  <2>2. Open(t, x) = (n + 1) - 1 /\ x < x + 1
    BY <1>1
  <2> QED
    BY <2>1, <2>2, <1>3, Zenon DEF StackItem
<1>6. \A k \in 1 .. n + 1 : k \in 1 .. n \/ k = n + 1
  BY <1>1
<1>7. \A k \in 1 .. n + 1 : \E o : StackItem(t, x + 1, u[k], k, o)
  <2>1. \A k \in 1 .. n : \E o : StackItem(t, x, op[k], k, o)
    BY Zenon DEF OpenedOK, n
  <2> QED
    BY <2>1, <1>3, <1>4, <1>5, <1>6, Zenon
<1>8. ASSUME NEW p \in OpensOf(t), p < x + 1
      PROVE  \/ \E m : m < x + 1 /\ PairOf(t, p, m)
             \/ \E k \in 1 .. n + 1 : StackItem(t, x + 1, u[k], k, p)
  <2>1. p = x \/ p < x
    BY <1>8 DEF OpensOf, ItemsOf
  <2>2. CASE p = x
    <3>1. n + 1 \in 1 .. n + 1
      BY <1>1
    <3> QED
      BY <3>1, <2>2, <1>5, Zenon
  <2>3. CASE p < x
    <3>1. \/ \E m : m < x /\ PairOf(t, p, m)
          \/ \E k \in 1 .. n : StackItem(t, x, op[k], k, p)
      BY <2>3, Zenon DEF OpenedOK, n
    <3>2. \A m : m \in ClosesOf(t) /\ m < x => m < x + 1
      BY DEF ClosesOf, ItemsOf
    <3>3. \A k \in 1 .. n : k \in 1 .. n + 1
      BY <1>1
    <3> QED
      BY <3>1, <3>2, <3>3, <1>3, <1>4, Zenon DEF PairOf
  <2> QED
    BY <2>1, <2>2, <2>3
<1> QED
  BY <1>2, <1>3, <1>7, <1>8, Zenon DEF OpenedOK, u

\* A ")" belongs to the bracket that was opened last.
LEMMA TopPairs ==
    ASSUME NEW t, Len(t) \in Nat, NEW x \in Nat, 1 <= x, NEW n \in Nat, n = Open(t, x), x \in ClosesOf(t),
           NEW num, NEW o, StackItem(t, x, num, n, o)
    PROVE  PairOf(t, o, x) /\ num = Num(t, o)
<1>1. o \in Nat /\ 1 <= o /\ o < x /\ Open(t, o) = n - 1 /\ num = Num(t, o) /\ o \in OpensOf(t)
  BY DEF StackItem, OpensOf, ItemsOf
<1>2. Open(t, x + 1) = n - 1
  BY OpenStep
<1>3. \A z \in o + 1 .. x : Open(t, z) > Open(t, o)
  <2> SUFFICES ASSUME NEW z \in o + 1 .. x PROVE Open(t, z) > Open(t, o)
    OBVIOUS
  <2>1. Open(t, z) >= n
    BY DEF StackItem
  <2>2. z \in Nat /\ 1 <= z
    BY <1>1
  <2>3. Open(t, z) \in Int
    BY <2>2, OpenStep
  <2> QED
    BY <2>1, <2>3, <1>1
<1> QED
  BY <1>1, <1>2, <1>3 DEF PairOf

LEMMA OpenedPop ==
    ASSUME NEW t, Len(t) \in Nat, NEW x \in Nat, 1 <= x, NEW op, OpenedOK(t, x, op), x \in ClosesOf(t), op # <<>>
    PROVE  /\ \E o : PairOf(t, o, x) /\ op[Len(op)] = Num(t, o)
           /\ OpenedOK(t, x + 1, Front(op))
<1> DEFINE n == Len(op)
           u == Front(op)
<1>1. op \in Seq(Nat) /\ n = Open(t, x) /\ n \in Nat /\ n > 0
  BY DEF OpenedOK
<1>2. Open(t, x + 1) = n - 1
  BY <1>1, OpenStep
<1>3. u \in Seq(Nat) /\ Len(u) = n - 1 /\ \A k \in 1 .. n - 1 : u[k] = op[k]
  BY <1>1 DEF Front
<1>a. \A k \in 1 .. n : \E o : StackItem(t, x, op[k], k, o)
  BY Zenon DEF OpenedOK
<1>b. \A p \in OpensOf(t) : p < x =>
          \/ \E m : m < x /\ PairOf(t, p, m)
          \/ \E k \in 1 .. n : StackItem(t, x, op[k], k, p)
  BY Zenon DEF OpenedOK
<1> HIDE DEF u, n
<1>4. \E o : PairOf(t, o, x) /\ op[n] = Num(t, o)
  <2>1. n \in 1 .. n
    BY <1>1
  <2>2. PICK o : StackItem(t, x, op[n], n, o)
    BY <2>1, <1>a, Zenon
  <2> QED
    BY <2>2, <1>1, TopPairs
<1>5. ASSUME NEW k \in 1 .. n - 1, NEW num, NEW o, StackItem(t, x, num, k, o) PROVE StackItem(t, x + 1, num, k, o)
  <2>1. k \in Nat /\ \A z \in x + 1 .. x + 1 : Open(t, z) >= k
    BY <1>1, <1>2
  <2> QED
    BY <2>1, <1>5, StackMore
<1>6. \A k \in 1 .. n - 1 : k \in 1 .. n
  BY <1>1
<1>7. \A k \in 1 .. n - 1 : \E o : StackItem(t, x + 1, u[k], k, o)
  BY <1>3, <1>5, <1>6, <1>a, Zenon
<1>8. ASSUME NEW p \in OpensOf(t), p < x + 1
      PROVE  \/ \E m : m < x + 1 /\ PairOf(t, p, m)
             \/ \E k \in 1 .. n - 1 : StackItem(t, x + 1, u[k], k, p)
  <2>1. p < x
    BY <1>8 DEF OpensOf, ClosesOf, ItemsOf
  <2>2. \A m : m \in ClosesOf(t) /\ m < x => m < x + 1
    BY DEF ClosesOf, ItemsOf
  <2>3. CASE \E m : m < x /\ PairOf(t, p, m)
    BY <2>2, <2>3, Zenon DEF PairOf
  <2>4. ASSUME NEW k \in 1 .. n, StackItem(t, x, op[k], k, p)
        PROVE  \/ \E m : m < x + 1 /\ PairOf(t, p, m)
               \/ \E j \in 1 .. n - 1 : StackItem(t, x + 1, u[j], j, p)
    <3>1. CASE k = n
      <4>1. PairOf(t, p, x)
        BY <3>1, <2>4, <1>1, TopPairs
      <4>2. x < x + 1
        OBVIOUS
      <4> QED
        BY <4>1, <4>2, Zenon
    <3>2. CASE k # n
      <4>1. k \in 1 .. n - 1
        BY <3>2, <1>1
      <4> QED
        BY <4>1, <2>4, <1>3, <1>5, Zenon
    <3> QED
      BY <3>1, <3>2
  <2> QED
    BY <2>1, <2>3, <2>4, <1>b, Zenon
<1> QED
  BY <1>2, <1>3, <1>4, <1>7, <1>8, Zenon DEF OpenedOK, u, n

-----------------------------------------------------------------------------

\* What the template has from place p to before place q.
OneChar(t, p, q, c) == p \in ItemsOf(t) /\ t[p] = c /\ q = p + 1
Escaped(t, p, q, c) == p \in ItemsOf(t) /\ t[p] = "%" /\ p + 1 <= Len(t) /\ t[p + 1] = c /\ q = p + 2
PlainText(t, p, q, d) ==
    /\ p < q /\ Len(d) = q - p
    /\ \A j \in p .. q - 1 : j \in ItemsOf(t) /\ t[j] \notin SpecialChars /\ d[(j - p) + 1] = t[j]

NodeSet == [kind : {"string", "open", "close", "any", "end", "digit"}, data : Nat \cup Seq(TemplateChars)]

\* A node stands for the template from place p to before place q.
NodeAt(t, node, p, q) ==
    \/ node.kind = "open" /\ OneChar(t, p, q, "(") /\ node.data = Num(t, p)
    \/ node.kind = "close" /\ OneChar(t, p, q, ")") /\ \E o : PairOf(t, o, p) /\ node.data = Num(t, o)
    \/ node.kind = "any" /\ OneChar(t, p, q, "?")
    \/ node.kind = "end" /\ OneChar(t, p, q, "$")
    \/ node.kind = "digit" /\ Escaped(t, p, q, "d")
    \/ node.kind = "string" /\ \E c \in SpecialChars : Escaped(t, p, q, c) /\ node.data = <<c>>
    \/ node.kind = "string" /\ node.data \in Seq(TemplateChars) /\ PlainText(t, p, q, node.data)

\* The nodes stand for the template up to place m; b are the places between them.
NodesAt(t, ns, b, m) ==
    /\ b \in [1 .. Len(ns) + 1 -> 1 .. Len(t) + 1]
    /\ b[1] = 1 /\ b[Len(ns) + 1] = m
    /\ \A k \in 1 .. Len(ns) : NodeAt(t, ns[k], b[k], b[k + 1])
Parsed(t, ns, m) == ns \in Seq(NodeSet) /\ \E b : NodesAt(t, ns, b, m)

LEMMA NodeMore ==
    ASSUME NEW t, Len(t) \in Nat, NEW ns, NEW m, Parsed(t, ns, m), NEW q \in 1 .. Len(t) + 1,
           NEW node \in NodeSet, NodeAt(t, node, m, q)
    PROVE  Parsed(t, Append(ns, node), q)
<1> DEFINE n == Len(ns)
           u == Append(ns, node)
<1>1. ns \in Seq(NodeSet) /\ n \in Nat
  BY DEF Parsed
<1>2. PICK b : NodesAt(t, ns, b, m)
  BY Zenon DEF Parsed
<1>3. u \in Seq(NodeSet) /\ Len(u) = n + 1 /\ u[n + 1] = node /\ \A k \in 1 .. n : u[k] = ns[k]
  BY <1>1
<1> DEFINE c == [k \in 1 .. (n + 1) + 1 |-> IF k = n + 2 THEN q ELSE b[k]]
<1>4. /\ b \in [1 .. n + 1 -> 1 .. Len(t) + 1] /\ b[1] = 1 /\ b[n + 1] = m
      /\ \A k \in 1 .. n : NodeAt(t, ns[k], b[k], b[k + 1])
  BY <1>2 DEF NodesAt
<1> HIDE DEF n, u
<1>5. /\ c \in [1 .. (n + 1) + 1 -> 1 .. Len(t) + 1]
      /\ c[1] = 1 /\ c[(n + 1) + 1] = q /\ c[n + 1] = m
      /\ \A k \in 1 .. n : c[k] = b[k] /\ c[k + 1] = b[k + 1]
  BY <1>1, <1>4
<1> HIDE DEF c
<1>6. ASSUME NEW k \in 1 .. n + 1 PROVE NodeAt(t, u[k], c[k], c[k + 1])
  <2>1. CASE k = n + 1
    BY <2>1, <1>3, <1>5, Zenon
  <2>2. CASE k # n + 1
    <3>1. k \in 1 .. n
      BY <2>2, <1>1
    <3> QED
      BY <3>1, <1>3, <1>4, <1>5, Zenon
  <2> QED
    BY <2>1, <2>2
<1>7. NodesAt(t, u, c, q)
  BY <1>3, <1>5, <1>6, Zenon DEF NodesAt
<1> QED
  BY <1>3, <1>7, Zenon DEF Parsed, u

\* The characters since Mark.
MarkedText(t, m, x, mk) ==
    \/ mk = <<>> /\ m = x
    \/ mk # <<>> /\ mk \in Seq(TemplateChars) /\ PlainText(t, m, x, mk)
StringNodes(ns, mk) == IF mk = <<>> THEN ns ELSE Append(ns, Node("string", mk))

LEMMA StringMore ==
    ASSUME NEW t, Len(t) \in Nat, NEW ns, NEW m, NEW x \in 1 .. Len(t) + 1, NEW mk,
           Parsed(t, ns, m), MarkedText(t, m, x, mk)
    PROVE  Parsed(t, StringNodes(ns, mk), x)
<1>1. CASE mk = <<>>
  BY <1>1, Zenon DEF MarkedText, StringNodes
<1>2. CASE mk # <<>>
  <2>1. mk \in Seq(TemplateChars) /\ PlainText(t, m, x, mk)
    BY <1>2, Zenon DEF MarkedText
  <2> DEFINE node == Node("string", mk)
  <2>2. node \in NodeSet /\ node.kind = "string" /\ node.data = mk
    BY <2>1 DEF Node, NodeSet
  <2>3. NodeAt(t, node, m, x)
    BY <2>1, <2>2, Zenon DEF NodeAt
  <2>4. Parsed(t, Append(ns, node), x)
    BY <2>2, <2>3, NodeMore
  <2> QED
    BY <2>4, <1>2, Zenon DEF StringNodes
<1> QED
  BY <1>1, <1>2

\* While the template is parsed.
ParseOK(t, x, mk, ns, op, sc) ==
    /\ x \in 1 .. Len(t) + 1 /\ (x <= Len(t) => x \in ItemsOf(t))
    /\ \E m : Parsed(t, ns, m) /\ MarkedText(t, m, x, mk)
    /\ OpenedOK(t, x, op) /\ sc = Num(t, x)

\* The place behind an item, and what is not an item.
LEMMA NextItem ==
    ASSUME NEW t, Len(t) \in Nat, NEW x \in ItemsOf(t)
    PROVE  /\ x \in 1 .. Len(t)
           /\ t[x] # "%" /\ x + 1 <= Len(t) => x + 1 \in ItemsOf(t)
           /\ t[x] = "%" => x + 1 \notin ItemsOf(t)
           /\ t[x] = "%" /\ x + 2 <= Len(t) => x + 2 \in ItemsOf(t)
<1>1. x \in 1 .. Len(t)
  BY DEF ItemsOf
<1>2. \A i \in 1 .. Len(t) : i \in ItemsOf(t) <=> (i = 1 \/ ~(i - 1 \in ItemsOf(t) /\ t[i - 1] = "%"))
  BY ItemsAre
<1>3. ASSUME x + 1 <= Len(t) PROVE x + 1 \in ItemsOf(t) <=> t[x] # "%"
  <2>1. x + 1 \in 1 .. Len(t) /\ x + 1 # 1 /\ (x + 1) - 1 = x
    BY <1>1, <1>3
  <2> QED
    BY <2>1, <1>2
<1>4. ~(x + 1 <= Len(t)) => x + 1 \notin ItemsOf(t)
  BY <1>1 DEF ItemsOf
<1>5. ASSUME x + 2 <= Len(t), t[x] = "%" PROVE x + 2 \in ItemsOf(t)
  <2>1. x + 2 \in 1 .. Len(t) /\ x + 2 # 1 /\ (x + 2) - 1 = x + 1 /\ x + 1 <= Len(t)
    BY <1>1, <1>5
  <2>2. x + 1 \notin ItemsOf(t)
    BY <2>1, <1>3, <1>5
  <2> QED
    BY <2>1, <2>2, <1>2
<1> QED
  BY <1>1, <1>3, <1>4, <1>5

LEMMA CharNode ==
    ASSUME NEW t, Len(t) \in Nat, NEW x, NEW mk, NEW ns, NEW op, NEW sc, ParseOK(t, x, mk, ns, op, sc), x <= Len(t),
           NEW node \in NodeSet, NodeAt(t, node, x, x + 1), t[x] # "%"
    PROVE  /\ x + 1 \in 1 .. Len(t) + 1 /\ (x + 1 <= Len(t) => x + 1 \in ItemsOf(t))
           /\ \E m : Parsed(t, Append(StringNodes(ns, mk), node), m) /\ MarkedText(t, m, x + 1, <<>>)
<1>1. x \in 1 .. Len(t) + 1 /\ x \in ItemsOf(t)
  BY DEF ParseOK
<1>2. x + 1 \in 1 .. Len(t) + 1 /\ (x + 1 <= Len(t) => x + 1 \in ItemsOf(t))
  BY <1>1, NextItem
<1>3. PICK m : Parsed(t, ns, m) /\ MarkedText(t, m, x, mk)
  BY Zenon DEF ParseOK
<1>4. Parsed(t, StringNodes(ns, mk), x)
  BY <1>1, <1>3, StringMore
<1>5. Parsed(t, Append(StringNodes(ns, mk), node), x + 1)
  BY <1>2, <1>4, NodeMore
<1> QED
  BY <1>2, <1>5, Zenon DEF MarkedText

LEMMA ParseOpenOK ==
    ASSUME NEW t, Len(t) \in Nat, NEW x, NEW mk, NEW ns, NEW op, NEW sc, ParseOK(t, x, mk, ns, op, sc), x <= Len(t), t[x] = "("
    PROVE  ParseOK(t, x + 1, <<>>, Append(StringNodes(ns, mk), Node("open", sc)), Append(op, sc), sc + 1)
<1> DEFINE node == Node("open", sc)
<1>1. x \in Nat /\ 1 <= x /\ x \in ItemsOf(t) /\ sc = Num(t, x) /\ OpenedOK(t, x, op)
  BY DEF ParseOK
<1>2. x \in OpensOf(t)
  BY <1>1 DEF OpensOf
<1>3. Num(t, x) \in Nat /\ Num(t, x + 1) = Num(t, x) + 1
  BY <1>1, <1>2, OpenStep
<1>4. node \in NodeSet /\ NodeAt(t, node, x, x + 1)
  BY <1>1, <1>3 DEF Node, NodeSet, NodeAt, OneChar
<1> HIDE DEF node
<1>5. OpenedOK(t, x + 1, Append(op, sc))
  BY <1>1, <1>2, OpenedPush
<1>6. t[x] # "%"
  OBVIOUS
<1>7. /\ x + 1 \in 1 .. Len(t) + 1 /\ (x + 1 <= Len(t) => x + 1 \in ItemsOf(t))
      /\ \E m : Parsed(t, Append(StringNodes(ns, mk), node), m) /\ MarkedText(t, m, x + 1, <<>>)
  BY <1>4, <1>6, CharNode, Zenon
<1> QED
  BY <1>1, <1>3, <1>5, <1>7, Zenon DEF ParseOK, node

LEMMA ParseCloseOK ==
    ASSUME NEW t, Len(t) \in Nat, NEW x, NEW mk, NEW ns, NEW op, NEW sc, ParseOK(t, x, mk, ns, op, sc), x <= Len(t), t[x] = ")",
           op # <<>>
    PROVE  ParseOK(t, x + 1, <<>>, Append(StringNodes(ns, mk), Node("close", Last(op))), Front(op), sc)
<1> DEFINE node == Node("close", Last(op))
<1>1. x \in Nat /\ 1 <= x /\ x \in ItemsOf(t) /\ sc = Num(t, x) /\ OpenedOK(t, x, op)
  BY DEF ParseOK
<1>2. x \in ClosesOf(t)
  BY <1>1 DEF ClosesOf
<1>3. Num(t, x + 1) = Num(t, x)
  BY <1>1, <1>2, OpenStep
<1>4. (\E o : PairOf(t, o, x) /\ op[Len(op)] = Num(t, o)) /\ OpenedOK(t, x + 1, Front(op))
  BY <1>1, <1>2, OpenedPop
<1>5. op[Len(op)] \in Nat /\ Last(op) = op[Len(op)]
  BY <1>1 DEF OpenedOK, Last
<1>6. node \in NodeSet /\ node.kind = "close" /\ node.data = op[Len(op)]
  BY <1>5 DEF Node, NodeSet
<1>7. NodeAt(t, node, x, x + 1)
  BY <1>1, <1>4, <1>6, Zenon DEF NodeAt, OneChar
<1> HIDE DEF node
<1>8. t[x] # "%"
  OBVIOUS
<1>9. /\ x + 1 \in 1 .. Len(t) + 1 /\ (x + 1 <= Len(t) => x + 1 \in ItemsOf(t))
      /\ \E m : Parsed(t, Append(StringNodes(ns, mk), node), m) /\ MarkedText(t, m, x + 1, <<>>)
  BY <1>6, <1>7, <1>8, CharNode, Zenon
<1> QED
  BY <1>1, <1>3, <1>4, <1>9, Zenon DEF ParseOK, node

LEMMA ParseAnyOK ==
    ASSUME NEW t, Len(t) \in Nat, NEW x, NEW mk, NEW ns, NEW op, NEW sc, ParseOK(t, x, mk, ns, op, sc), x <= Len(t), t[x] \in {"?", "$"}
    PROVE  ParseOK(t, x + 1, <<>>, Append(StringNodes(ns, mk), Node(IF t[x] = "?" THEN "any" ELSE "end", 0)), op, sc)
<1> DEFINE node == Node(IF t[x] = "?" THEN "any" ELSE "end", 0)
<1>1. x \in Nat /\ 1 <= x /\ x \in ItemsOf(t) /\ sc = Num(t, x) /\ OpenedOK(t, x, op)
  BY DEF ParseOK
<1>2. x \notin OpensOf(t) \cup ClosesOf(t)
  BY <1>1 DEF OpensOf, ClosesOf
<1>3. Num(t, x + 1) = Num(t, x)
  BY <1>1, <1>2, OpenStep
<1>4. OpenedOK(t, x + 1, op)
  <2>1. \A i \in x .. (x + 1) - 1 : i = x
    BY <1>1
  <2> QED
    BY <2>1, <1>1, <1>2, OpenedSame
<1>5. node \in NodeSet /\ NodeAt(t, node, x, x + 1)
  BY <1>1 DEF Node, NodeSet, NodeAt, OneChar
<1> HIDE DEF node
<1>6. t[x] # "%"
  OBVIOUS
<1>7. /\ x + 1 \in 1 .. Len(t) + 1 /\ (x + 1 <= Len(t) => x + 1 \in ItemsOf(t))
      /\ \E m : Parsed(t, Append(StringNodes(ns, mk), node), m) /\ MarkedText(t, m, x + 1, <<>>)
  BY <1>5, <1>6, CharNode, Zenon
<1> QED
  BY <1>1, <1>3, <1>4, <1>7, Zenon DEF ParseOK, node

LEMMA ParseEscapeOK ==
    ASSUME NEW t \in Seq(TemplateChars), NEW x, NEW mk, NEW ns, NEW op, NEW sc, ParseOK(t, x, mk, ns, op, sc), x < Len(t),
           t[x] = "%", t[x + 1] \in Escapable
    PROVE  ParseOK(t, x + 2, <<>>, Append(StringNodes(ns, mk),
                     IF t[x + 1] = "d" THEN Node("digit", 0) ELSE Node("string", <<t[x + 1]>>)), op, sc)
<1> DEFINE node == IF t[x + 1] = "d" THEN Node("digit", 0) ELSE Node("string", <<t[x + 1]>>)
<1>0. Len(t) \in Nat
  OBVIOUS
<1>1. x \in Nat /\ 1 <= x /\ x \in ItemsOf(t) /\ sc = Num(t, x) /\ OpenedOK(t, x, op) /\ x \in 1 .. Len(t) + 1
  BY <1>0 DEF ParseOK
<1>2. /\ x + 1 \notin ItemsOf(t) /\ (x + 2 <= Len(t) => x + 2 \in ItemsOf(t))
      /\ x + 2 \in 1 .. Len(t) + 1
  BY <1>0, <1>1, NextItem
<1>3. \A i \in x .. (x + 2) - 1 : i \notin OpensOf(t) \cup ClosesOf(t)
  <2>1. \A i \in x .. (x + 2) - 1 : i = x \/ i = x + 1
    BY <1>1
  <2>2. x \notin OpensOf(t) \cup ClosesOf(t) /\ x + 1 \notin OpensOf(t) \cup ClosesOf(t)
    BY <1>2 DEF OpensOf, ClosesOf
  <2> QED
    BY <2>1, <2>2
<1>4. Num(t, x + 2) = Num(t, x) /\ OpenedOK(t, x + 2, op)
  BY <1>0, <1>1, <1>3, OpenSame, OpenedSame
<1>5. node \in NodeSet /\ NodeAt(t, node, x, x + 2)
  <2>1. CASE t[x + 1] = "d"
    <3>1. node = Node("digit", 0)
      BY <2>1
    <3> HIDE DEF node
    <3>2. node \in NodeSet /\ node.kind = "digit"
      BY <3>1 DEF Node, NodeSet
    <3> QED
      BY <3>2, <2>1, <1>0, <1>1 DEF NodeAt, Escaped
  <2>2. CASE t[x + 1] # "d"
    <3>1. node = Node("string", <<t[x + 1]>>)
      BY <2>2
    <3> HIDE DEF node
    <3>2. t[x + 1] \in SpecialChars /\ t[x + 1] \in TemplateChars
      BY <2>2, <1>0, <1>1 DEF Escapable
    <3>3. <<t[x + 1]>> \in Seq(TemplateChars)
      BY <3>2
    <3>4. node \in NodeSet /\ node.kind = "string" /\ node.data = <<t[x + 1]>>
      BY <3>1, <3>3 DEF Node, NodeSet
    <3>5. Escaped(t, x, x + 2, t[x + 1])
      BY <1>0, <1>1 DEF Escaped
    <3> QED
      BY <3>2, <3>4, <3>5, Zenon DEF NodeAt
  <2> QED
    BY <2>1, <2>2
<1> HIDE DEF node
<1>6. PICK m : Parsed(t, ns, m) /\ MarkedText(t, m, x, mk)
  BY Zenon DEF ParseOK
<1>7. Parsed(t, StringNodes(ns, mk), x)
  BY <1>0, <1>1, <1>6, StringMore
<1>8. Parsed(t, Append(StringNodes(ns, mk), node), x + 2)
  BY <1>0, <1>2, <1>5, <1>7, NodeMore
<1> QED
  BY <1>1, <1>2, <1>4, <1>8, Zenon DEF ParseOK, MarkedText, node

LEMMA ParseOtherOK ==
    ASSUME NEW t \in Seq(TemplateChars), NEW x, NEW mk, NEW ns, NEW op, NEW sc, ParseOK(t, x, mk, ns, op, sc), x <= Len(t),
           t[x] \notin SpecialChars
    PROVE  ParseOK(t, x + 1, Append(mk, t[x]), ns, op, sc)
<1>0. Len(t) \in Nat
  OBVIOUS
<1>1. x \in Nat /\ 1 <= x /\ x \in ItemsOf(t) /\ sc = Num(t, x) /\ OpenedOK(t, x, op) /\ x \in 1 .. Len(t) + 1
  BY <1>0 DEF ParseOK
<1>c. t[x] \in TemplateChars
  BY <1>0, <1>1
<1>2. x \notin OpensOf(t) \cup ClosesOf(t) /\ t[x] # "%"
  BY DEF OpensOf, ClosesOf, SpecialChars
<1>3. x + 1 \in 1 .. Len(t) + 1 /\ (x + 1 <= Len(t) => x + 1 \in ItemsOf(t))
  BY <1>0, <1>1, <1>2, NextItem
<1>4. Num(t, x + 1) = Num(t, x) /\ OpenedOK(t, x + 1, op)
  <2>1. \A i \in x .. (x + 1) - 1 : i = x
    BY <1>1
  <2> QED
    BY <2>1, <1>0, <1>1, <1>2, OpenedSame, OpenStep
<1>5. PICK m : Parsed(t, ns, m) /\ MarkedText(t, m, x, mk)
  BY Zenon DEF ParseOK
<1>6. MarkedText(t, m, x + 1, Append(mk, t[x]))
  <2> DEFINE u == Append(mk, t[x])
  <2>1. CASE mk = <<>> /\ m = x
    <3>1. u = <<t[x]>> /\ u # <<>> /\ u \in Seq(TemplateChars) /\ Len(u) = 1 /\ u[1] = t[x]
      BY <2>1, <1>c
    <3> HIDE DEF u
    <3>2. PlainText(t, m, x + 1, u)
      BY <3>1, <2>1, <1>1 DEF PlainText
    <3> QED
      BY <3>1, <3>2, Zenon DEF MarkedText, u
  <2>2. CASE mk # <<>> /\ mk \in Seq(TemplateChars) /\ PlainText(t, m, x, mk)
    <3>0. m \in Nat
      <4>1. m \in 1 .. Len(t) + 1
        <5>1. PICK b : NodesAt(t, ns, b, m)
          BY <1>5, Zenon DEF Parsed
        <5>2. Len(ns) \in Nat
          BY <1>5 DEF Parsed
        <5> QED
          BY <5>1, <5>2 DEF NodesAt
      <4> QED
        BY <4>1
    <3>1. /\ Len(mk) = x - m /\ m < x
          /\ \A j \in m .. x - 1 : j \in ItemsOf(t) /\ t[j] \notin SpecialChars /\ mk[(j - m) + 1] = t[j]
      BY <2>2 DEF PlainText
    <3>2. /\ u # <<>> /\ u \in Seq(TemplateChars) /\ Len(u) = (x + 1) - m /\ u[(x - m) + 1] = t[x]
          /\ \A k \in 1 .. x - m : u[k] = mk[k]
      <4>1. /\ u \in Seq(TemplateChars) /\ Len(u) = Len(mk) + 1 /\ u[Len(mk) + 1] = t[x]
            /\ \A k \in 1 .. Len(mk) : u[k] = mk[k]
        BY <2>2, <1>c
      <4> HIDE DEF u
      <4>2. u # <<>>
        BY <4>1, <2>2
      <4> QED
        BY <4>1, <4>2, <3>0, <3>1, <1>1
    <3> HIDE DEF u
    <3>3. ASSUME NEW j \in m .. (x + 1) - 1
          PROVE  j \in ItemsOf(t) /\ t[j] \notin SpecialChars /\ u[(j - m) + 1] = t[j]
      <4>1. CASE j = x
        BY <4>1, <3>2, <1>1
      <4>2. CASE j # x
        <5>1. j \in m .. x - 1 /\ (j - m) + 1 \in 1 .. x - m
          BY <4>2, <3>0, <1>1
        <5> QED
          BY <5>1, <3>1, <3>2
      <4> QED
        BY <4>1, <4>2
    <3>4. PlainText(t, m, x + 1, u)
      BY <3>0, <3>1, <3>2, <3>3, <1>1 DEF PlainText
    <3> QED
      BY <3>2, <3>4, Zenon DEF MarkedText, u
  <2> QED
    BY <2>1, <2>2, <1>5, Zenon DEF MarkedText
<1> QED
  BY <1>1, <1>3, <1>4, <1>5, <1>6, Zenon DEF ParseOK

-----------------------------------------------------------------------------

\* Places that are all in the set.
LEMMA UptoAll ==
    ASSUME NEW T, NEW n \in Nat, NEW m \in Nat, 1 <= n, n <= m, \A i \in n .. m - 1 : i \in T
    PROVE  Cardinality(Upto(T, m)) = Cardinality(Upto(T, n)) + (m - n)
<1> DEFINE A == Upto(T, n)
           B == n .. m - 1
<1>1. IsFiniteSet(1 .. n - 1) /\ IsFiniteSet(B) /\ Cardinality(B) = m - n
  BY FS_Interval
<1>2. Upto(T, m) = A \cup B /\ A \cap B = {} /\ A \subseteq 1 .. n - 1
  BY DEF Upto
<1> HIDE DEF A, B
<1>3. IsFiniteSet(A)
  BY <1>1, <1>2, FS_Subset, Zenon
<1>4. Cardinality(A \cup B) = Cardinality(A) + Cardinality(B) - Cardinality(A \cap B)
  BY <1>1, <1>3, FS_Union, Zenon
<1>5. Cardinality({}) = 0 /\ Cardinality(A) \in Nat
  BY <1>3, FS_EmptySet, FS_CardinalityType, Zenon
<1>6. Cardinality(A \cap B) = 0
  BY <1>2, <1>5, Zenon
<1>7. Cardinality(A \cup B) = Cardinality(A) + (m - n)
  BY <1>1, <1>4, <1>5, <1>6
<1> QED
  BY <1>2, <1>7, Zenon DEF A

\* A prefix, character by character.
BeginsWith(r, d) == Len(d) <= Len(r) /\ \A k \in 1 .. Len(d) : d[k] = r[k]

LEMMA PrefixIs ==
    ASSUME NEW A, NEW B, NEW d \in Seq(A), NEW r \in Seq(B)
    PROVE  IsPrefix(d, r) <=> BeginsWith(r, d)
<1>1. Len(d) \in Nat /\ Len(r) \in Nat
  OBVIOUS
<1>2. ASSUME Len(d) <= Len(r)
      PROVE  SubSeq(d, 1, Len(d)) = SubSeq(r, 1, Len(d)) <=> \A k \in 1 .. Len(d) : d[k] = r[k]
  <2> DEFINE e == SubSeq(d, 1, Len(d))
             f == SubSeq(r, 1, Len(d))
  <2>1. /\ e = [k \in 1 .. Len(d) |-> d[k]]
        /\ f = [k \in 1 .. Len(d) |-> r[k]]
    BY <1>1, <1>2
  <2> HIDE DEF e, f
  <2>2. ASSUME e = f, NEW k \in 1 .. Len(d) PROVE d[k] = r[k]
    <3>1. e[k] = d[k] /\ f[k] = r[k]
      BY <2>1
    <3> QED
      BY <3>1, <2>2
  <2>3. ASSUME \A k \in 1 .. Len(d) : d[k] = r[k] PROVE e = f
    BY <2>1, <2>3
  <2> QED
    BY <2>2, <2>3 DEF e, f
<1> QED
  BY <1>2 DEF IsPrefix, BeginsWith

\* What an item says of a character.
FitsItem(t, i, c) ==
    IF t[i] = "%" /\ t[i + 1] = "d" THEN c \in DigitChars
    ELSE IF t[i] = "%" THEN c = t[i + 1]
    ELSE t[i] = "?" \/ t[i] = c

\* The string fits the items before place p.
FitsUpto(t, s, p) ==
    /\ Eaten(t, p) <= Len(s)
    /\ \A i \in ConsumingOf(t) : i < p => FitsItem(t, i, s[Eaten(t, i) + 1])
    /\ \A i \in ItemsOf(t) : i < p /\ t[i] = "$" => Eaten(t, i) = Len(s)

LEMMA FitsLess ==
    ASSUME NEW t, Len(t) \in Nat, NEW s, Len(s) \in Nat, NEW p \in Nat, NEW q \in Nat, 1 <= p, p <= q, FitsUpto(t, s, q)
    PROVE  FitsUpto(t, s, p)
<1>1. Eaten(t, p) \in Nat /\ Eaten(t, q) \in Nat /\ Eaten(t, p) <= Eaten(t, q)
  BY UptoOrder DEF Eaten
<1>2. \A i \in ItemsOf(t) : i < p => i < q
  BY DEF ItemsOf
<1>3. \A i \in ConsumingOf(t) : i < p => i < q
  BY <1>2, Zenon DEF ConsumingOf
<1>4. Eaten(t, p) <= Len(s)
  BY <1>1 DEF FitsUpto
<1> QED
  BY <1>2, <1>3, <1>4, Zenon DEF FitsUpto

\* One item more.
LEMMA FitsOne ==
    ASSUME NEW t, Len(t) \in Nat, NEW s, Len(s) \in Nat, NEW p \in ItemsOf(t), NEW q \in Nat, p < q,
           \A i \in p + 1 .. q - 1 : i \notin ItemsOf(t), FitsUpto(t, s, p)
    PROVE  /\ Eaten(t, p) \in Nat /\ Eaten(t, p) <= Len(s)
           /\ p \in ConsumingOf(t) =>
                 /\ Eaten(t, q) = Eaten(t, p) + 1
                 /\ FitsUpto(t, s, q) <=> Eaten(t, p) < Len(s) /\ FitsItem(t, p, s[Eaten(t, p) + 1])
           /\ p \notin ConsumingOf(t) =>
                 /\ Eaten(t, q) = Eaten(t, p)
                 /\ FitsUpto(t, s, q) <=> (t[p] = "$" => Eaten(t, p) = Len(s))
<1>1. p \in Nat /\ 1 <= p
  BY DEF ItemsOf
<1>2. Eaten(t, q) = Eaten(t, p + 1)
  <2>1. \A i \in p + 1 .. q - 1 : i \notin ConsumingOf(t)
    BY DEF ConsumingOf
  <2>2. Upto(ConsumingOf(t), q) = Upto(ConsumingOf(t), p + 1)
    BY <1>1, <2>1, UptoSame
  <2> QED
    BY <2>2, Zenon DEF Eaten
<1>3. /\ Eaten(t, p) \in Nat
      /\ p \in ConsumingOf(t) => Eaten(t, p + 1) = Eaten(t, p) + 1
      /\ p \notin ConsumingOf(t) => Eaten(t, p + 1) = Eaten(t, p)
  BY <1>1, EatenStep
<1>4. Eaten(t, p) <= Len(s)
  BY DEF FitsUpto
<1>5. \A i \in ItemsOf(t) : i < q <=> i < p \/ i = p
  <2> SUFFICES ASSUME NEW i \in ItemsOf(t) PROVE i < q <=> i < p \/ i = p
    OBVIOUS
  <2>1. i \in Nat /\ i \notin p + 1 .. q - 1
    BY DEF ItemsOf
  <2> QED
    BY <2>1, <1>1
<1>6. ConsumingOf(t) \subseteq ItemsOf(t) /\ (p \in ConsumingOf(t) => t[p] # "$")
  BY DEF ConsumingOf
<1>7. CASE p \in ConsumingOf(t)
  <2>1. FitsUpto(t, s, q) <=> Eaten(t, p) + 1 <= Len(s) /\ FitsItem(t, p, s[Eaten(t, p) + 1])
    BY <1>2, <1>3, <1>5, <1>6, <1>7, Zenon DEF FitsUpto
  <2>2. Eaten(t, p) + 1 <= Len(s) <=> Eaten(t, p) < Len(s)
    BY <1>3
  <2> QED
    BY <2>1, <2>2, <1>2, <1>3, <1>4, <1>7, Zenon
<1>8. CASE p \notin ConsumingOf(t)
  <2>1. \A i \in ConsumingOf(t) : i < q => i < p
    BY <1>5, <1>6, <1>8, Zenon
  <2>2. FitsUpto(t, s, q) <=> (t[p] = "$" => Eaten(t, p) = Len(s))
    BY <2>1, <1>2, <1>3, <1>5, <1>8, Zenon DEF FitsUpto
  <2> QED
    BY <2>2, <1>2, <1>3, <1>4, <1>8, Zenon
<1> QED
  BY <1>7, <1>8

\* A run of characters that stand for themselves.
LEMMA FitsText ==
    ASSUME NEW t, Len(t) \in Nat, NEW s, Len(s) \in Nat, NEW p \in Nat, 1 <= p, NEW q \in Nat, NEW d,
           PlainText(t, p, q, d), FitsUpto(t, s, p)
    PROVE  /\ Eaten(t, p) \in Nat /\ Eaten(t, p) <= Len(s) /\ Eaten(t, q) = Eaten(t, p) + Len(d)
           /\ FitsUpto(t, s, q) <=>
                 /\ Eaten(t, p) + Len(d) <= Len(s)
                 /\ \A k \in 1 .. Len(d) : d[k] = s[Eaten(t, p) + k]
<1> DEFINE e == Eaten(t, p)
<1>1. /\ p < q /\ Len(d) = q - p
      /\ \A j \in p .. q - 1 : j \in ItemsOf(t) /\ t[j] \notin SpecialChars /\ d[(j - p) + 1] = t[j]
  BY DEF PlainText
<1>2. \A j \in p .. q - 1 : j \in ConsumingOf(t)
  BY <1>1 DEF ConsumingOf, SpecialChars
<1>3. \A j \in p .. q : Eaten(t, j) = e + (j - p)
  <2> SUFFICES ASSUME NEW j \in p .. q PROVE Eaten(t, j) = e + (j - p)
    OBVIOUS
  <2>1. j \in Nat /\ p <= j /\ \A i \in p .. j - 1 : i \in p .. q - 1
    OBVIOUS
  <2>2. \A i \in p .. j - 1 : i \in ConsumingOf(t)
    BY <2>1, <1>2
  <2> QED
    BY <2>1, <2>2, UptoAll DEF Eaten
<1>4. e \in Nat /\ e <= Len(s)
  BY EatenStep DEF FitsUpto
<1> HIDE DEF e
<1>5. Eaten(t, q) = e + Len(d)
  BY <1>1, <1>3
<1>6. \A j \in p .. q - 1 : Eaten(t, j) = e + (j - p) /\ (e + (j - p)) + 1 = e + ((j - p) + 1)
  BY <1>3, <1>4
<1>7. \A i \in ItemsOf(t) : i < q <=> i < p \/ i \in p .. q - 1
  <2> SUFFICES ASSUME NEW i \in ItemsOf(t) PROVE i < q <=> i < p \/ i \in p .. q - 1
    OBVIOUS
  <2>1. i \in Nat
    BY DEF ItemsOf
  <2>2. p < q
    BY <1>1, Zenon
  <2> QED
    BY <2>1, <2>2
<1>8. ASSUME NEW j \in p .. q - 1, NEW c PROVE FitsItem(t, j, c) <=> t[j] = c
  <2>1. t[j] # "%" /\ t[j] # "?"
    BY <1>1 DEF SpecialChars
  <2> QED
    BY <2>1, Zenon DEF FitsItem
<1>9. \A j \in p .. q - 1 : t[j] # "$"
  BY <1>1 DEF SpecialChars
<1>10. FitsUpto(t, s, q) <=>
          /\ e + Len(d) <= Len(s)
          /\ \A j \in p .. q - 1 : t[j] = s[e + ((j - p) + 1)]
  <2>1. ConsumingOf(t) \subseteq ItemsOf(t)
    BY DEF ConsumingOf
  <2>2. \A i \in ConsumingOf(t) : i < q <=> i < p \/ i \in p .. q - 1
    BY <2>1, <1>7, Zenon
  <2>3. \A j \in p .. q - 1 : FitsItem(t, j, s[Eaten(t, j) + 1]) <=> t[j] = s[e + ((j - p) + 1)]
    <3> SUFFICES ASSUME NEW j \in p .. q - 1
                 PROVE  FitsItem(t, j, s[Eaten(t, j) + 1]) <=> t[j] = s[e + ((j - p) + 1)]
      OBVIOUS
    <3>1. Eaten(t, j) + 1 = e + ((j - p) + 1)
      BY <1>6, Zenon
    <3>2. FitsItem(t, j, s[Eaten(t, j) + 1]) <=> t[j] = s[Eaten(t, j) + 1]
      BY <1>8, Zenon
    <3> QED
      BY <3>1, <3>2, Zenon
  <2> QED
    BY <2>2, <2>3, <1>2, <1>5, <1>7, <1>9, Zenon DEF FitsUpto
<1>11. (\A j \in p .. q - 1 : t[j] = s[e + ((j - p) + 1)]) <=> (\A k \in 1 .. Len(d) : d[k] = s[e + k])
  <2>1. ASSUME \A j \in p .. q - 1 : t[j] = s[e + ((j - p) + 1)], NEW k \in 1 .. Len(d) PROVE d[k] = s[e + k]
    <3>1. (p + k) - 1 \in p .. q - 1 /\ (((p + k) - 1) - p) + 1 = k
      BY <1>1
    <3>2. t[(p + k) - 1] = s[e + ((((p + k) - 1) - p) + 1)] /\ d[(((p + k) - 1) - p) + 1] = t[(p + k) - 1]
      BY <3>1, <2>1, <1>1, Zenon
    <3> QED
      BY <3>1, <3>2, Zenon
  <2>2. ASSUME \A k \in 1 .. Len(d) : d[k] = s[e + k], NEW j \in p .. q - 1 PROVE t[j] = s[e + ((j - p) + 1)]
    <3>1. (j - p) + 1 \in 1 .. Len(d)
      BY <1>1
    <3> QED
      BY <3>1, <2>2, <1>1, Zenon
  <2> QED
    BY <2>1, <2>2, Zenon
<1> QED
  BY <1>4, <1>5, <1>10, <1>11, Zenon DEF e

-----------------------------------------------------------------------------

\* What is left of the string, and what a node says of it.
RestOf(s, e) == SubSeq(s, e + 1, Len(s))
NodeFits(node, r) ==
    CASE node.kind = "string" -> IsPrefix(node.data, r)
      [] node.kind = "any" -> r # <<>>
      [] node.kind = "digit" -> r # <<>> /\ Head(r) \in DigitChars
      [] node.kind = "end" -> r = <<>>
      [] OTHER -> TRUE
NodeTakes(node) ==
    CASE node.kind = "string" -> Len(node.data)
      [] node.kind \in {"any", "digit"} -> 1
      [] OTHER -> 0

LEMMA RestIs ==
    ASSUME NEW S, NEW s \in Seq(S), NEW e \in Nat, e <= Len(s)
    PROVE  /\ RestOf(s, e) \in Seq(S) /\ Len(RestOf(s, e)) = Len(s) - e
           /\ \A k \in 1 .. Len(s) - e : RestOf(s, e)[k] = s[e + k]
           /\ RestOf(s, e) # <<>> <=> e < Len(s)
           /\ e < Len(s) => Head(RestOf(s, e)) = s[e + 1]
<1> DEFINE r == RestOf(s, e)
<1>1. Len(s) \in Nat
  OBVIOUS
<1>2. r \in Seq(S) /\ Len(r) = Len(s) - e
  BY <1>1 DEF RestOf
<1>3. \A k \in 1 .. Len(s) - e : r[k] = s[e + k]
  BY <1>1 DEF RestOf
<1> HIDE DEF r
<1>4. r # <<>> <=> e < Len(s)
  BY <1>1, <1>2
<1>5. ASSUME e < Len(s) PROVE Head(r) = s[e + 1]
  <2>1. 1 \in 1 .. Len(s) - e
    BY <1>1, <1>5
  <2>2. Head(r) = r[1]
    BY <1>2, <1>4, <1>5
  <2> QED
    BY <2>1, <2>2, <1>3
<1> QED
  BY <1>2, <1>3, <1>4, <1>5 DEF r

\* A node that fits what is left takes the characters of its part of the template.
LEMMA NodeStep ==
    ASSUME NEW t \in Seq(TemplateChars), NEW S, NEW s \in Seq(S), NEW node \in NodeSet,
           NEW p \in 1 .. Len(t) + 1, NEW q \in 1 .. Len(t) + 1, NodeAt(t, node, p, q), FitsUpto(t, s, p)
    PROVE  /\ p < q /\ Eaten(t, p) \in Nat /\ Eaten(t, p) <= Len(s)
           /\ Eaten(t, q) = Eaten(t, p) + NodeTakes(node)
           /\ FitsUpto(t, s, q) <=> NodeFits(node, RestOf(s, Eaten(t, p)))
<1> DEFINE e == Eaten(t, p)
           r == RestOf(s, e)
<1>1. Len(t) \in Nat /\ Len(s) \in Nat /\ p \in Nat /\ q \in Nat /\ 1 <= p
  OBVIOUS
<1>2. e \in Nat /\ e <= Len(s)
  BY <1>1, EatenStep DEF FitsUpto
<1>3. /\ r \in Seq(S) /\ Len(r) = Len(s) - e
      /\ \A k \in 1 .. Len(s) - e : r[k] = s[e + k]
      /\ r # <<>> <=> e < Len(s)
      /\ e < Len(s) => Head(r) = s[e + 1]
  BY <1>2, RestIs
<1>4. ASSUME p \in ItemsOf(t), p < q, \A i \in p + 1 .. q - 1 : i \notin ItemsOf(t)
      PROVE  /\ p \in ConsumingOf(t) =>
                 /\ Eaten(t, q) = e + 1
                 /\ FitsUpto(t, s, q) <=> e < Len(s) /\ FitsItem(t, p, s[e + 1])
             /\ p \notin ConsumingOf(t) =>
                 /\ Eaten(t, q) = e
                 /\ FitsUpto(t, s, q) <=> (t[p] = "$" => e = Len(s))
  BY <1>1, <1>4, FitsOne
<1>5. ASSUME NEW c, OneChar(t, p, q, c)
      PROVE  p \in ItemsOf(t) /\ t[p] = c /\ p < q /\ \A i \in p + 1 .. q - 1 : i \notin ItemsOf(t)
  BY <1>1, <1>5 DEF OneChar
<1>6. ASSUME NEW c, Escaped(t, p, q, c)
      PROVE  /\ p \in ItemsOf(t) /\ t[p] = "%" /\ t[p + 1] = c /\ p < q /\ \A i \in p + 1 .. q - 1 : i \notin ItemsOf(t)
             /\ p \in ConsumingOf(t)
  <2>1. p \in ItemsOf(t) /\ t[p] = "%" /\ t[p + 1] = c /\ q = p + 2
    BY <1>6 DEF Escaped
  <2>2. p + 1 \notin ItemsOf(t)
    BY <2>1, <1>1, NextItem
  <2>3. \A i \in p + 1 .. q - 1 : i = p + 1
    BY <2>1, <1>1
  <2>4. p \in ConsumingOf(t)
    BY <2>1 DEF ConsumingOf
  <2>5. p < q
    BY <2>1, <1>1
  <2> QED
    BY <2>1, <2>2, <2>3, <2>4, <2>5
<1> DEFINE Goal == p < q /\ Eaten(t, q) = e + NodeTakes(node) /\ (FitsUpto(t, s, q) <=> NodeFits(node, r))
<1> SUFFICES Goal
  BY <1>2 DEF e, r
<1> HIDE DEF e, r
<1>7. CASE node.kind = "open" /\ OneChar(t, p, q, "(")
  <2>1. NodeTakes(node) = 0 /\ NodeFits(node, r)
    BY <1>7 DEF NodeTakes, NodeFits
  <2>2. p \notin ConsumingOf(t) /\ t[p] # "$"
    BY <1>7 DEF OneChar, ConsumingOf
  <2> QED
    BY <2>1, <2>2, <1>2, <1>4, <1>5, <1>7
<1>8. CASE node.kind = "close" /\ OneChar(t, p, q, ")")
  <2>1. NodeTakes(node) = 0 /\ NodeFits(node, r)
    BY <1>8 DEF NodeTakes, NodeFits
  <2>2. p \notin ConsumingOf(t) /\ t[p] # "$"
    BY <1>8 DEF OneChar, ConsumingOf
  <2> QED
    BY <2>1, <2>2, <1>2, <1>4, <1>5, <1>8
<1>9. CASE node.kind = "any" /\ OneChar(t, p, q, "?")
  <2>1. NodeTakes(node) = 1 /\ (NodeFits(node, r) <=> r # <<>>)
    BY <1>9 DEF NodeTakes, NodeFits
  <2>2. p \in ConsumingOf(t)
    BY <1>9 DEF OneChar, ConsumingOf
  <2>3. \A c : FitsItem(t, p, c)
    BY <1>9 DEF OneChar, FitsItem
  <2> QED
    BY <2>1, <2>2, <2>3, <1>2, <1>3, <1>4, <1>5, <1>9
<1>10. CASE node.kind = "end" /\ OneChar(t, p, q, "$")
  <2>1. NodeTakes(node) = 0 /\ (NodeFits(node, r) <=> r = <<>>)
    BY <1>10 DEF NodeTakes, NodeFits
  <2>2. p \notin ConsumingOf(t) /\ t[p] = "$"
    BY <1>10 DEF OneChar, ConsumingOf
  <2>3. r = <<>> <=> e = Len(s)
    BY <1>1, <1>2, <1>3
  <2> QED
    BY <2>1, <2>2, <2>3, <1>2, <1>4, <1>5, <1>10
<1>11. CASE node.kind = "digit" /\ Escaped(t, p, q, "d")
  <2>1. NodeTakes(node) = 1 /\ (NodeFits(node, r) <=> r # <<>> /\ Head(r) \in DigitChars)
    BY <1>11 DEF NodeTakes, NodeFits
  <2>2. \A c : FitsItem(t, p, c) <=> c \in DigitChars
    BY <1>11 DEF Escaped, FitsItem
  <2>3. FitsUpto(t, s, q) <=> e < Len(s) /\ FitsItem(t, p, s[e + 1])
    BY <1>4, <1>6, <1>11, Zenon
  <2>4. FitsUpto(t, s, q) <=> NodeFits(node, r)
    BY <2>1, <2>2, <2>3, <1>3, Zenon
  <2> QED
    BY <2>1, <2>4, <1>4, <1>6, <1>11, Zenon
<1>12. ASSUME node.kind = "string", NEW c \in SpecialChars, Escaped(t, p, q, c), node.data = <<c>> PROVE Goal
  <2>1. NodeTakes(node) = 1 /\ (NodeFits(node, r) <=> IsPrefix(<<c>>, r))
    BY <1>12 DEF NodeTakes, NodeFits
  <2>2. c # "d"
    BY DEF SpecialChars
  <2>3. \A d : FitsItem(t, p, d) <=> d = c
    BY <1>12, <2>2 DEF Escaped, FitsItem
  <2>4. FitsUpto(t, s, q) <=> e < Len(s) /\ FitsItem(t, p, s[e + 1])
    BY <1>4, <1>6, <1>12, Zenon
  <2>5. <<c>> \in Seq({c}) /\ Len(<<c>>) = 1 /\ <<c>>[1] = c
    OBVIOUS
  <2>7. IsPrefix(<<c>>, r) <=> e < Len(s) /\ s[e + 1] = c
    <3> DEFINE d == <<c>>
               A == {c}
    <3>0. d \in Seq(A) /\ Len(d) = 1 /\ d[1] = c
      BY <2>5, Zenon
    <3> HIDE DEF d, A
    <3>1. IsPrefix(d, r) <=> Len(d) <= Len(r) /\ \A k \in 1 .. Len(d) : d[k] = r[k]
      <4>1. IsPrefix(d, r) <=> BeginsWith(r, d)
        BY <3>0, <1>3, PrefixIs, Zenon
      <4> QED
        BY <4>1 DEF BeginsWith
    <3>2. 1 <= Len(r) <=> e < Len(s)
      BY <1>1, <1>2, <1>3
    <3>3. e < Len(s) => r[1] = s[e + 1]
      <4>1. e < Len(s) => 1 \in 1 .. Len(s) - e
        BY <1>1, <1>2
      <4> QED
        BY <4>1, <1>3, Zenon
    <3>4. \A k \in 1 .. 1 : k = 1
      OBVIOUS
    <3>5. 1 \in 1 .. 1
      OBVIOUS
    <3>6. IsPrefix(d, r) <=> e < Len(s) /\ s[e + 1] = c
      BY <3>0, <3>1, <3>2, <3>3, <3>4, <3>5, Zenon
    <3> QED
      BY <3>6, Zenon DEF d
  <2> QED
    BY <2>1, <2>3, <2>4, <2>7, <1>4, <1>6, <1>12, Zenon
<1>13. CASE node.kind = "string" /\ node.data \in Seq(TemplateChars) /\ PlainText(t, p, q, node.data)
  <2> DEFINE d == node.data
  <2>1. NodeTakes(node) = Len(d) /\ (NodeFits(node, r) <=> IsPrefix(d, r)) /\ d \in Seq(TemplateChars)
    BY <1>13 DEF NodeTakes, NodeFits
  <2>2. PlainText(t, p, q, d) /\ p < q
    BY <1>13 DEF PlainText
  <2> HIDE DEF d
  <2>3. /\ Eaten(t, q) = e + Len(d)
        /\ FitsUpto(t, s, q) <=> e + Len(d) <= Len(s) /\ \A k \in 1 .. Len(d) : d[k] = s[e + k]
    BY <2>2, <1>1, FitsText DEF e
  <2>4. IsPrefix(d, r) <=> Len(d) <= Len(r) /\ \A k \in 1 .. Len(d) : d[k] = r[k]
    <3>1. IsPrefix(d, r) <=> BeginsWith(r, d)
      BY <2>1, <1>3, PrefixIs, Zenon
    <3> QED
      BY <3>1 DEF BeginsWith
  <2>5. Len(d) \in Nat
    BY <2>1
  <2>6. Len(d) <= Len(r) <=> e + Len(d) <= Len(s)
    BY <2>5, <1>1, <1>2, <1>3
  <2>7. e + Len(d) <= Len(s) => \A k \in 1 .. Len(d) : r[k] = s[e + k]
    <3>1. e + Len(d) <= Len(s) => \A k \in 1 .. Len(d) : k \in 1 .. Len(s) - e
      BY <2>5, <1>1, <1>2
    <3> QED
      BY <3>1, <1>3, Zenon
  <2> QED
    BY <2>1, <2>2, <2>3, <2>4, <2>6, <2>7, Zenon
<1> HIDE DEF Goal
<1> QED
  BY <1>7, <1>8, <1>9, <1>10, <1>11, <1>12, <1>13, Zenon DEF NodeAt

-----------------------------------------------------------------------------

\* A bracket has one partner, and its number is its own.
LEMMA PairOnce ==
    ASSUME NEW t, Len(t) \in Nat, NEW o, NEW m, NEW n, PairOf(t, o, m), PairOf(t, o, n)
    PROVE  m = n
<1>1. /\ o \in Nat /\ m \in Nat /\ n \in Nat /\ 1 <= o /\ o < m /\ o < n
      /\ Open(t, m + 1) = Open(t, o) /\ Open(t, n + 1) = Open(t, o)
      /\ \A x \in o + 1 .. m : Open(t, x) > Open(t, o)
      /\ \A x \in o + 1 .. n : Open(t, x) > Open(t, o)
  BY DEF PairOf, OpensOf, ClosesOf, ItemsOf
<1>2. Open(t, o) \in Int
  BY <1>1, OpenStep
<1>3. ~(m < n)
  <2>1. m < n => m + 1 \in o + 1 .. n
    BY <1>1
  <2> QED
    BY <2>1, <1>1, <1>2
<1>4. ~(n < m)
  <2>1. n < m => n + 1 \in o + 1 .. m
    BY <1>1
  <2> QED
    BY <2>1, <1>1, <1>2
<1> QED
  BY <1>1, <1>3, <1>4

LEMMA PairOwn ==
    ASSUME NEW t, Len(t) \in Nat, NEW o, NEW p, NEW m, PairOf(t, o, m), PairOf(t, p, m)
    PROVE  o = p
<1>1. /\ o \in Nat /\ p \in Nat /\ m \in Nat /\ 1 <= o /\ o < m /\ p < m
      /\ Open(t, m + 1) = Open(t, o) /\ Open(t, m + 1) = Open(t, p)
      /\ \A x \in o + 1 .. m : Open(t, x) > Open(t, o)
      /\ \A x \in p + 1 .. m : Open(t, x) > Open(t, p)
  BY DEF PairOf, OpensOf, ClosesOf, ItemsOf
<1>2. Open(t, o) \in Int
  BY <1>1, OpenStep
<1>3. ~(o < p)
  <2>1. o < p => p \in o + 1 .. m
    BY <1>1
  <2> QED
    BY <2>1, <1>1, <1>2
<1>4. ~(p < o)
  <2>1. p < o => o \in p + 1 .. m
    BY <1>1
  <2> QED
    BY <2>1, <1>1, <1>2
<1> QED
  BY <1>1, <1>3, <1>4

LEMMA NumLess ==
    ASSUME NEW t, Len(t) \in Nat, NEW o \in OpensOf(t), NEW p \in Nat, o < p
    PROVE  Num(t, o) \in Nat /\ Num(t, p) \in Nat /\ Num(t, o) < Num(t, p)
<1>1. o \in Nat /\ 1 <= o /\ o + 1 <= p
  BY DEF OpensOf, ItemsOf
<1>2. Num(t, o) \in Nat /\ Num(t, o + 1) = Num(t, o) + 1
  BY <1>1, OpenStep
<1>3. Num(t, p) \in Nat /\ Num(t, o + 1) <= Num(t, p)
  BY <1>1, UptoOrder DEF Num
<1> QED
  BY <1>2, <1>3

LEMMA NumOwn ==
    ASSUME NEW t, Len(t) \in Nat, NEW o \in OpensOf(t)
    PROVE  /\ Num(t, o) \in 0 .. Num(t, Len(t) + 1) - 1
           /\ \A p \in OpensOf(t) : Num(t, o) = Num(t, p) => o = p
<1>1. OpensOf(t) \subseteq 1 .. Len(t)
  BY DEF OpensOf, ItemsOf
<1>2. o \in Nat /\ o < Len(t) + 1
  BY <1>1
<1>3. Num(t, o) \in Nat /\ Num(t, Len(t) + 1) \in Nat /\ Num(t, o) < Num(t, Len(t) + 1)
  BY <1>2, NumLess
<1>4. ASSUME NEW p \in OpensOf(t), Num(t, o) = Num(t, p) PROVE o = p
  <2>1. p \in Nat /\ (o = p \/ o < p \/ p < o)
    BY <1>1, <1>2
  <2>2. ~(o < p)
    BY <2>1, <1>2, <1>4, NumLess
  <2>3. ~(p < o)
    BY <2>1, <1>2, <1>4, NumLess
  <2> QED
    BY <2>1, <2>2, <2>3
<1> QED
  BY <1>3, <1>4

\* The submatches when the match has come to place p of the template.
SubmatchSet == [begin : Int, end : Int]
SubOK(t, p, sub) ==
    /\ sub \in [0 .. Num(t, Len(t) + 1) - 1 -> SubmatchSet]
    /\ \A o \in OpensOf(t) :
          /\ o < p => sub[Num(t, o)].begin = Eaten(t, o)
          /\ \A m : PairOf(t, o, m) /\ m < p => sub[Num(t, o)].end = Eaten(t, m)
          /\ (\A m : PairOf(t, o, m) => ~(m < p)) => sub[Num(t, o)].end = -1
SubAfter(node, sub, e) ==
    CASE node.kind = "open" -> [sub EXCEPT ![node.data].begin = e]
      [] node.kind = "close" -> [sub EXCEPT ![node.data].end = e]
      [] OTHER -> sub

LEMMA SubSame ==
    ASSUME NEW t, Len(t) \in Nat, NEW p \in Nat, NEW q \in Nat, p <= q, NEW sub, SubOK(t, p, sub),
           \A i \in p .. q - 1 : i \notin OpensOf(t) \cup ClosesOf(t)
    PROVE  SubOK(t, q, sub)
<1>1. \A o \in OpensOf(t) : o < q => o < p
  BY DEF OpensOf, ItemsOf
<1>2. \A m \in ClosesOf(t) : m < q <=> m < p
  BY DEF ClosesOf, ItemsOf
<1>3. \A o, m : PairOf(t, o, m) => (m < q <=> m < p)
  BY <1>2, Zenon DEF PairOf
<1> QED
  BY <1>1, <1>3, Zenon DEF SubOK

LEMMA SubOpen ==
    ASSUME NEW t, Len(t) \in Nat, NEW p \in OpensOf(t), NEW sub, SubOK(t, p, sub), Eaten(t, p) \in Nat
    PROVE  SubOK(t, p + 1, [sub EXCEPT ![Num(t, p)].begin = Eaten(t, p)])
<1> DEFINE u == [sub EXCEPT ![Num(t, p)].begin = Eaten(t, p)]
           n == Num(t, p)
           D == 0 .. Num(t, Len(t) + 1) - 1
<1>1. p \in 1 .. Len(t) /\ p \notin ClosesOf(t)
  BY DEF OpensOf, ClosesOf, ItemsOf
<1>2. n \in D /\ \A o \in OpensOf(t) : Num(t, o) \in D /\ (Num(t, o) = n => o = p)
  BY NumOwn, Zenon
<1>3. sub \in [D -> SubmatchSet]
  BY DEF SubOK
<1> HIDE DEF n, D
<1>4. /\ u \in [D -> SubmatchSet] /\ u[n].begin = Eaten(t, p) /\ u[n].end = sub[n].end
      /\ \A k \in D : k # n => u[k] = sub[k]
  BY <1>2, <1>3 DEF SubmatchSet, n
<1> HIDE DEF u
<1>5. \A o \in OpensOf(t) : o < p + 1 => o < p \/ o = p
  BY <1>1 DEF OpensOf, ItemsOf
<1>6. \A o, m : PairOf(t, o, m) => (m < p + 1 <=> m < p)
  <2> SUFFICES ASSUME NEW o, NEW m, PairOf(t, o, m) PROVE m < p + 1 <=> m < p
    OBVIOUS
  <2>1. m \in Nat /\ m # p
    BY <1>1 DEF PairOf, ClosesOf, ItemsOf
  <2> QED
    BY <2>1, <1>1
<1>7. ASSUME NEW o \in OpensOf(t)
      PROVE  /\ o < p + 1 => u[Num(t, o)].begin = Eaten(t, o)
             /\ u[Num(t, o)].end = sub[Num(t, o)].end
  <2>1. CASE o = p
    BY <2>1, <1>4 DEF n
  <2>2. CASE o # p
    <3>1. u[Num(t, o)] = sub[Num(t, o)]
      BY <2>2, <1>2, <1>4, Zenon
    <3>2. o < p + 1 => o < p
      BY <2>2, <1>5, Zenon
    <3>3. o < p => sub[Num(t, o)].begin = Eaten(t, o)
      BY Zenon DEF SubOK
    <3> QED
      BY <3>1, <3>2, <3>3, Zenon
  <2> QED
    BY <2>1, <2>2
<1>8. ASSUME NEW o \in OpensOf(t)
      PROVE  /\ \A m : PairOf(t, o, m) /\ m < p + 1 => u[Num(t, o)].end = Eaten(t, m)
             /\ (\A m : PairOf(t, o, m) => ~(m < p + 1)) => u[Num(t, o)].end = -1
  BY <1>6, <1>7, Zenon DEF SubOK
<1> QED
  BY <1>4, <1>7, <1>8, Zenon DEF SubOK, u, n, D

LEMMA SubClose ==
    ASSUME NEW t, Len(t) \in Nat, NEW p, NEW c, PairOf(t, c, p), NEW sub, SubOK(t, p, sub), Eaten(t, p) \in Nat
    PROVE  SubOK(t, p + 1, [sub EXCEPT ![Num(t, c)].end = Eaten(t, p)])
<1> DEFINE u == [sub EXCEPT ![Num(t, c)].end = Eaten(t, p)]
           n == Num(t, c)
           D == 0 .. Num(t, Len(t) + 1) - 1
<1>1. p \in 1 .. Len(t) /\ p \notin OpensOf(t) /\ c \in OpensOf(t)
  BY DEF PairOf, OpensOf, ClosesOf, ItemsOf
<1>2. n \in D /\ \A o \in OpensOf(t) : Num(t, o) \in D /\ (Num(t, o) = n => o = c)
  BY <1>1, NumOwn, Zenon
<1>3. sub \in [D -> SubmatchSet]
  BY DEF SubOK
<1> HIDE DEF n, D
<1>4. /\ u \in [D -> SubmatchSet] /\ u[n].end = Eaten(t, p) /\ u[n].begin = sub[n].begin
      /\ \A k \in D : k # n => u[k] = sub[k]
  BY <1>2, <1>3 DEF SubmatchSet, n
<1> HIDE DEF u
<1>5. \A o \in OpensOf(t) : o < p + 1 => o < p
  BY <1>1 DEF OpensOf, ItemsOf
<1>6. \A o, m : PairOf(t, o, m) => (m < p + 1 <=> m < p \/ m = p)
  <2> SUFFICES ASSUME NEW o, NEW m, PairOf(t, o, m) PROVE m < p + 1 <=> m < p \/ m = p
    OBVIOUS
  <2>1. m \in Nat
    BY DEF PairOf, ClosesOf, ItemsOf
  <2> QED
    BY <2>1, <1>1
<1>7. ASSUME NEW o \in OpensOf(t), o < p + 1 PROVE u[Num(t, o)].begin = Eaten(t, o)
  <2>1. sub[Num(t, o)].begin = Eaten(t, o)
    BY <1>5, <1>7, Zenon DEF SubOK
  <2>2. u[Num(t, o)].begin = sub[Num(t, o)].begin
    BY <1>2, <1>4, Zenon
  <2> QED
    BY <2>1, <2>2
<1>8. ASSUME NEW o \in OpensOf(t)
      PROVE  /\ \A m : PairOf(t, o, m) /\ m < p + 1 => u[Num(t, o)].end = Eaten(t, m)
             /\ (\A m : PairOf(t, o, m) => ~(m < p + 1)) => u[Num(t, o)].end = -1
  <2>1. CASE o = c
    <3>1. \A m : PairOf(t, o, m) => m = p
      BY <2>1, PairOnce, Zenon
    <3>2. u[Num(t, o)].end = Eaten(t, p)
      BY <2>1, <1>4 DEF n
    <3>3. p < p + 1
      BY <1>1
    <3> QED
      BY <3>1, <3>2, <3>3, <2>1, Zenon
  <2>2. CASE o # c
    <3>1. \A m : PairOf(t, o, m) => m # p
      BY <2>2, PairOwn, Zenon
    <3>2. u[Num(t, o)] = sub[Num(t, o)]
      BY <2>2, <1>2, <1>4, Zenon
    <3>3. \A m : PairOf(t, o, m) => (m < p + 1 <=> m < p)
      BY <3>1, <1>6, Zenon
    <3> QED
      BY <3>2, <3>3, Zenon DEF SubOK
  <2> QED
    BY <2>1, <2>2
<1> QED
  BY <1>4, <1>7, <1>8, Zenon DEF SubOK, u, n, D

\* A node sets what its bracket says.
LEMMA SubStep ==
    ASSUME NEW t, Len(t) \in Nat, NEW node \in NodeSet, NEW p \in 1 .. Len(t) + 1, NEW q \in 1 .. Len(t) + 1,
           NodeAt(t, node, p, q), NEW sub, SubOK(t, p, sub)
    PROVE  SubOK(t, q, SubAfter(node, sub, Eaten(t, p)))
<1>1. Eaten(t, p) \in Nat
  BY EatenStep
<1>2. CASE node.kind = "open" /\ OneChar(t, p, q, "(") /\ node.data = Num(t, p)
  <2>1. p \in OpensOf(t) /\ q = p + 1
    BY <1>2 DEF OneChar, OpensOf
  <2>2. SubOK(t, p + 1, [sub EXCEPT ![Num(t, p)].begin = Eaten(t, p)])
    BY <2>1, <1>1, SubOpen
  <2>3. SubAfter(node, sub, Eaten(t, p)) = [sub EXCEPT ![Num(t, p)].begin = Eaten(t, p)]
    BY <1>2 DEF SubAfter
  <2> QED
    BY <2>1, <2>2, <2>3
<1>3. ASSUME node.kind = "close", OneChar(t, p, q, ")"), NEW o, PairOf(t, o, p), node.data = Num(t, o)
      PROVE  SubOK(t, q, SubAfter(node, sub, Eaten(t, p)))
  <2>1. q = p + 1
    BY <1>3 DEF OneChar
  <2>2. SubOK(t, p + 1, [sub EXCEPT ![Num(t, o)].end = Eaten(t, p)])
    BY <1>1, <1>3, SubClose
  <2>3. SubAfter(node, sub, Eaten(t, p)) = [sub EXCEPT ![Num(t, o)].end = Eaten(t, p)]
    BY <1>3 DEF SubAfter
  <2> QED
    BY <2>1, <2>2, <2>3
<1>4. ASSUME node.kind \notin {"open", "close"}, p < q, \A i \in p .. q - 1 : i \notin OpensOf(t) \cup ClosesOf(t)
      PROVE  SubOK(t, q, SubAfter(node, sub, Eaten(t, p)))
  <2>1. SubAfter(node, sub, Eaten(t, p)) = sub
    BY <1>4 DEF SubAfter
  <2>2. SubOK(t, q, sub)
    BY <1>4, SubSame
  <2> QED
    BY <2>1, <2>2
<1>5. ASSUME NEW c \in {"?", "$"}, OneChar(t, p, q, c)
      PROVE  p < q /\ \A i \in p .. q - 1 : i \notin OpensOf(t) \cup ClosesOf(t)
  <2>1. q = p + 1 /\ p \notin OpensOf(t) \cup ClosesOf(t)
    BY <1>5 DEF OneChar, OpensOf, ClosesOf
  <2>2. \A i \in p .. (p + 1) - 1 : i = p
    OBVIOUS
  <2> QED
    BY <2>1, <2>2
<1>6. ASSUME NEW c, Escaped(t, p, q, c)
      PROVE  p < q /\ \A i \in p .. q - 1 : i \notin OpensOf(t) \cup ClosesOf(t)
  <2>1. p \in ItemsOf(t) /\ t[p] = "%" /\ q = p + 2
    BY <1>6 DEF Escaped
  <2>2. p + 1 \notin ItemsOf(t)
    BY <2>1, NextItem
  <2>3. p \notin OpensOf(t) \cup ClosesOf(t) /\ p + 1 \notin OpensOf(t) \cup ClosesOf(t)
    BY <2>1, <2>2 DEF OpensOf, ClosesOf
  <2>4. \A i \in p .. (p + 2) - 1 : i = p \/ i = p + 1
    OBVIOUS
  <2> QED
    BY <2>1, <2>3, <2>4
<1>7. ASSUME NEW d, PlainText(t, p, q, d)
      PROVE  p < q /\ \A i \in p .. q - 1 : i \notin OpensOf(t) \cup ClosesOf(t)
  BY <1>7 DEF PlainText, SpecialChars, OpensOf, ClosesOf
<1>8. ASSUME (node.kind = "any" /\ OneChar(t, p, q, "?")) \/ (node.kind = "end" /\ OneChar(t, p, q, "$"))
      PROVE  SubOK(t, q, SubAfter(node, sub, Eaten(t, p)))
  <2>1. node.kind \notin {"open", "close"}
    BY <1>8
  <2>2. "?" \in {"?", "$"} /\ "$" \in {"?", "$"}
    OBVIOUS
  <2> QED
    BY <2>1, <2>2, <1>4, <1>5, <1>8, Zenon
<1>9. ASSUME node.kind \in {"digit", "string"}, (\E c : Escaped(t, p, q, c)) \/ (\E d : PlainText(t, p, q, d))
      PROVE  SubOK(t, q, SubAfter(node, sub, Eaten(t, p)))
  <2>1. node.kind \notin {"open", "close"}
    BY <1>9
  <2> QED
    BY <2>1, <1>4, <1>6, <1>7, <1>9, Zenon
<1>10. ASSUME node.kind \in {"digit", "string"}, NodeAt(t, node, p, q)
       PROVE  (\E c : Escaped(t, p, q, c)) \/ (\E d : PlainText(t, p, q, d))
  BY <1>10 DEF NodeAt
<1>11. node.kind \in {"digit", "string"} \/ node.kind \in {"open", "close", "any", "end"}
  BY DEF NodeSet
<1>12. ASSUME node.kind \in {"open", "close", "any", "end"}
       PROVE  \/ node.kind = "open" /\ OneChar(t, p, q, "(") /\ node.data = Num(t, p)
              \/ node.kind = "close" /\ OneChar(t, p, q, ")") /\ \E o : PairOf(t, o, p) /\ node.data = Num(t, o)
              \/ node.kind = "any" /\ OneChar(t, p, q, "?")
              \/ node.kind = "end" /\ OneChar(t, p, q, "$")
  <2>1. node.kind # "digit" /\ node.kind # "string"
    BY <1>12
  <2> QED
    BY <2>1, Zenon DEF NodeAt
<1>13. CASE node.kind \in {"digit", "string"}
  BY <1>9, <1>10, <1>13, Zenon
<1>14. CASE node.kind \in {"open", "close", "any", "end"}
  <2>1. CASE node.kind = "open" /\ OneChar(t, p, q, "(") /\ node.data = Num(t, p)
    BY <2>1, <1>2
  <2>2. CASE node.kind = "close" /\ OneChar(t, p, q, ")") /\ \E o : PairOf(t, o, p) /\ node.data = Num(t, o)
    BY <2>2, <1>3
  <2>3. CASE node.kind = "any" /\ OneChar(t, p, q, "?")
    BY <2>3, <1>8
  <2>4. CASE node.kind = "end" /\ OneChar(t, p, q, "$")
    BY <2>4, <1>8
  <2> QED
    BY <2>1, <2>2, <2>3, <2>4, <1>12, <1>14
<1> QED
  BY <1>11, <1>13, <1>14, Zenon

-----------------------------------------------------------------------------

\* A "(" of a parsed template is closed, or open to the end.
Bracketed(t) ==
    \A p \in OpensOf(t) :
        \/ \E m : PairOf(t, p, m)
        \/ \A x \in p + 1 .. Len(t) + 1 : Open(t, x) > Open(t, p)
ReadyOK(t, ns, sc) == Parsed(t, ns, Len(t) + 1) /\ Bracketed(t) /\ sc = Num(t, Len(t) + 1)

\* In front of node n the string fits the template so far.
MatchOK(t, ns, s, e, n, sub) ==
    \E b : /\ NodesAt(t, ns, b, Len(t) + 1) /\ n \in 1 .. Len(ns) + 1
           /\ e = Eaten(t, b[n]) /\ FitsUpto(t, s, b[n]) /\ SubOK(t, b[n], sub)

MatcherOK(t, x, mk, ns, op, sc, s, e, n, sub, pc) ==
    /\ t \in Seq(TemplateChars)
    /\ pc \in {"parse", "refused", "ready", "match", "matched", "failed"}
    /\ pc = "parse" => ParseOK(t, x, mk, ns, op, sc)
    /\ pc \in {"ready", "match", "matched", "failed"} => ReadyOK(t, ns, sc)
    /\ pc \in {"match", "matched", "failed"} => s \in Seq(SourceChars)
    /\ pc = "match" => MatchOK(t, ns, s, e, n, sub)
    /\ pc = "matched" => FitsUpto(t, s, Len(t) + 1) /\ SubOK(t, Len(t) + 1, sub)
    /\ pc = "failed" => ~FitsUpto(t, s, Len(t) + 1)

MatcherInv == MatcherOK(template, templateAt, marked, nodes, opened, submatchesCount,
                        source, sourceAt, nodeAt, submatches, matchPc)

LEMMA MatcherStarts == MatcherInit => MatcherInv
<1> SUFFICES ASSUME MatcherInit PROVE MatcherInv
  OBVIOUS
<1> DEFINE t == template
<1>1. t \in Seq(TemplateChars)
  BY MatcherAssumption DEF MatcherInit, BoundedSeq, SeqOf
<1>2. Len(t) \in Nat
  BY <1>1
<1>3. templateAt = 1 /\ marked = <<>> /\ nodes = <<>> /\ opened = <<>> /\ submatchesCount = 0 /\ matchPc = "parse"
  BY DEF MatcherInit
<1> HIDE DEF t
<1>4. 1 \in 1 .. Len(t) + 1 /\ (1 <= Len(t) => 1 \in ItemsOf(t))
  BY <1>2, ItemsAre
<1>5. Upto(OpensOf(t), 1) = {} /\ Upto(ClosesOf(t), 1) = {} /\ Cardinality({}) = 0
  BY FS_EmptySet DEF Upto
<1>6. Num(t, 1) = 0 /\ Open(t, 1) = 0
  BY <1>5 DEF Num, Open
<1>7. Parsed(t, <<>>, 1)
  <2> DEFINE b == [k \in 1 .. 1 |-> 1]
  <2>1. b \in [1 .. 0 + 1 -> 1 .. Len(t) + 1] /\ b[1] = 1
    BY <1>2
  <2> HIDE DEF b
  <2>2. Len(<<>>) = 0 /\ <<>> \in Seq(NodeSet) /\ 0 + 1 = 1 /\ 1 .. 0 = {}
    OBVIOUS
  <2>3. NodesAt(t, <<>>, b, 1)
    BY <2>1, <2>2 DEF NodesAt
  <2> QED
    BY <2>2, <2>3, Zenon DEF Parsed
<1>8. OpenedOK(t, 1, <<>>)
  <2>1. <<>> \in Seq(Nat) /\ Len(<<>>) = 0 /\ 1 .. 0 = {}
    OBVIOUS
  <2>2. \A p \in OpensOf(t) : ~(p < 1)
    BY DEF OpensOf, ItemsOf
  <2> QED
    BY <2>1, <2>2, <1>6 DEF OpenedOK
<1>9. ParseOK(t, 1, <<>>, <<>>, <<>>, 0)
  BY <1>4, <1>6, <1>7, <1>8 DEF ParseOK, MarkedText
<1> QED
  BY <1>1, <1>3, <1>9 DEF MatcherInv, MatcherOK, t

\* The template has been read.
LEMMA ParsedReady ==
    ASSUME NEW t, Len(t) \in Nat, NEW x, NEW mk, NEW ns, NEW op, NEW sc, ParseOK(t, x, mk, ns, op, sc), x > Len(t)
    PROVE  ReadyOK(t, StringNodes(ns, mk), sc)
<1>1. x \in 1 .. Len(t) + 1 /\ x = Len(t) + 1 /\ OpenedOK(t, x, op) /\ sc = Num(t, x)
  BY DEF ParseOK
<1>2. PICK w : Parsed(t, ns, w) /\ MarkedText(t, w, x, mk)
  BY Zenon DEF ParseOK
<1>3. Parsed(t, StringNodes(ns, mk), x)
  BY <1>1, <1>2, StringMore
<1>4. ASSUME NEW p \in OpensOf(t)
      PROVE  (\E m : PairOf(t, p, m)) \/ (\A y \in p + 1 .. x : Open(t, y) > Open(t, p))
  <2>1. p \in Nat /\ 1 <= p /\ p < x
    BY <1>1 DEF OpensOf, ItemsOf
  <2>2. ASSUME NEW k \in 1 .. Len(op), StackItem(t, x, op[k], k, p), NEW y \in p + 1 .. x
        PROVE  Open(t, y) > Open(t, p)
    <3>1. Open(t, p) = k - 1 /\ Open(t, y) >= k
      BY <2>2 DEF StackItem
    <3>2. Len(op) \in Nat
      BY <1>1 DEF OpenedOK
    <3>3. Open(t, y) \in Int
      BY <2>1, OpenStep
    <3> QED
      BY <3>1, <3>2, <3>3
  <2> QED
    BY <2>1, <2>2, <1>1, Zenon DEF OpenedOK
<1> QED
  BY <1>1, <1>3, <1>4, Zenon DEF ReadyOK, Bracketed

\* The string is matched from its first character.
LEMMA MatchBegins ==
    ASSUME NEW t, Len(t) \in Nat, NEW ns, NEW sc, ReadyOK(t, ns, sc), NEW s, Len(s) \in Nat
    PROVE  MatchOK(t, ns, s, 0, 1, [k \in 0 .. sc - 1 |-> [begin |-> -1, end |-> -1]])
<1> DEFINE sub == [k \in 0 .. sc - 1 |-> [begin |-> -1, end |-> -1]]
<1>1. PICK b : NodesAt(t, ns, b, Len(t) + 1)
  BY Zenon DEF ReadyOK, Parsed
<1>2. Len(ns) \in Nat /\ 1 \in 1 .. Len(ns) + 1 /\ b[1] = 1 /\ sc = Num(t, Len(t) + 1)
  BY <1>1 DEF ReadyOK, Parsed, NodesAt
<1>3. Upto(ConsumingOf(t), 1) = {} /\ Cardinality({}) = 0
  BY FS_EmptySet DEF Upto
<1>4. Eaten(t, 1) = 0
  BY <1>3 DEF Eaten
<1>5. \A i \in ItemsOf(t) : ~(i < 1)
  BY DEF ItemsOf
<1>6. FitsUpto(t, s, 1)
  BY <1>4, <1>5 DEF FitsUpto, ConsumingOf
<1>7. sub \in [0 .. sc - 1 -> SubmatchSet] /\ \A k \in 0 .. sc - 1 : sub[k].end = -1
  BY DEF SubmatchSet
<1> HIDE DEF sub
<1>8. SubOK(t, 1, sub)
  <2>1. \A o \in OpensOf(t) : ~(o < 1) /\ \A m : PairOf(t, o, m) => ~(m < 1)
    BY <1>5 DEF OpensOf, PairOf, ClosesOf
  <2>2. \A o \in OpensOf(t) : Num(t, o) \in 0 .. sc - 1
    BY <1>2, NumOwn, Zenon
  <2> QED
    BY <2>1, <2>2, <1>2, <1>7, Zenon DEF SubOK
<1> QED
  BY <1>1, <1>2, <1>4, <1>6, <1>8, Zenon DEF MatchOK, sub

\* One node.
LEMMA MatchGoes ==
    ASSUME NEW t \in Seq(TemplateChars), NEW ns, NEW sc, ReadyOK(t, ns, sc), NEW S, NEW s \in Seq(S),
           NEW e, NEW n, NEW sub, MatchOK(t, ns, s, e, n, sub), n <= Len(ns)
    PROVE  /\ NodeFits(ns[n], RestOf(s, e)) =>
                  MatchOK(t, ns, s, e + NodeTakes(ns[n]), n + 1, SubAfter(ns[n], sub, e))
           /\ ~NodeFits(ns[n], RestOf(s, e)) => ~FitsUpto(t, s, Len(t) + 1)
<1>1. PICK b : /\ NodesAt(t, ns, b, Len(t) + 1) /\ n \in 1 .. Len(ns) + 1
               /\ e = Eaten(t, b[n]) /\ FitsUpto(t, s, b[n]) /\ SubOK(t, b[n], sub)
  BY Zenon DEF MatchOK
<1>2. ns \in Seq(NodeSet) /\ Len(ns) \in Nat /\ Len(t) \in Nat /\ Len(s) \in Nat
  BY DEF ReadyOK, Parsed
<1>3. n \in 1 .. Len(ns) /\ n + 1 \in 1 .. Len(ns) + 1
  BY <1>1, <1>2
<1> DEFINE p == b[n]
           q == b[n + 1]
           node == ns[n]
<1>4. p \in 1 .. Len(t) + 1 /\ q \in 1 .. Len(t) + 1 /\ node \in NodeSet /\ NodeAt(t, node, p, q)
  <2>1. b \in [1 .. Len(ns) + 1 -> 1 .. Len(t) + 1] /\ \A k \in 1 .. Len(ns) : NodeAt(t, ns[k], b[k], b[k + 1])
    BY <1>1, Zenon DEF NodesAt
  <2>2. p \in 1 .. Len(t) + 1 /\ q \in 1 .. Len(t) + 1
    BY <2>1, <1>1, <1>3
  <2>3. node \in NodeSet
    BY <1>2, <1>3
  <2> QED
    BY <2>1, <2>2, <2>3, <1>3, Zenon
<1>5. e = Eaten(t, p) /\ FitsUpto(t, s, p) /\ SubOK(t, p, sub)
  BY <1>1
<1> HIDE DEF p, q, node
<1>6. /\ p < q /\ Eaten(t, p) \in Nat /\ Eaten(t, p) <= Len(s)
      /\ Eaten(t, q) = Eaten(t, p) + NodeTakes(node)
      /\ FitsUpto(t, s, q) <=> NodeFits(node, RestOf(s, Eaten(t, p)))
  BY <1>4, <1>5, NodeStep
<1>7. SubOK(t, q, SubAfter(node, sub, Eaten(t, p)))
  BY <1>2, <1>4, <1>5, SubStep
<1>8. ASSUME NodeFits(node, RestOf(s, e)) PROVE MatchOK(t, ns, s, e + NodeTakes(node), n + 1, SubAfter(node, sub, e))
  BY <1>1, <1>3, <1>5, <1>6, <1>7, <1>8, Zenon DEF MatchOK, q
<1>9. FitsUpto(t, s, Len(t) + 1) => FitsUpto(t, s, q)
  <2>1. q \in Nat /\ Len(t) + 1 \in Nat /\ 1 <= q /\ q <= Len(t) + 1
    BY <1>2, <1>4
  <2> QED
    BY <2>1, <1>2, FitsLess
<1> QED
  BY <1>5, <1>6, <1>8, <1>9, Zenon DEF node

\* No node is left.
LEMMA MatchEnds ==
    ASSUME NEW t, NEW ns, NEW sc, ReadyOK(t, ns, sc), NEW s, NEW e, NEW n, NEW sub,
           MatchOK(t, ns, s, e, n, sub), n > Len(ns)
    PROVE  FitsUpto(t, s, Len(t) + 1) /\ SubOK(t, Len(t) + 1, sub)
<1>1. PICK b : /\ NodesAt(t, ns, b, Len(t) + 1) /\ n \in 1 .. Len(ns) + 1
               /\ FitsUpto(t, s, b[n]) /\ SubOK(t, b[n], sub)
  BY Zenon DEF MatchOK
<1>2. Len(ns) \in Nat
  BY DEF ReadyOK, Parsed
<1>3. n = Len(ns) + 1
  BY <1>1, <1>2
<1> QED
  BY <1>1, <1>3, Zenon DEF NodesAt

LEMMA MatcherSteps == MatcherInv /\ [MatcherNext]_matchVars => MatcherInv'
<1> SUFFICES ASSUME MatcherInv, [MatcherNext]_matchVars PROVE MatcherInv'
  OBVIOUS
<1>0. template \in Seq(TemplateChars) /\ Len(template) \in Nat
  BY DEF MatcherInv, MatcherOK
<1> DEFINE POK == ParseOK(template, templateAt, marked, nodes, opened, submatchesCount)
<1>1. matchPc = "parse" => POK
  BY Zenon DEF MatcherInv, MatcherOK
<1>2. WithString = StringNodes(nodes, marked)
  BY DEF WithString, StringNodes
\* Steps of Parse.
<1>3. ASSUME template' = template, matchPc' = "parse",
             ParseOK(template, templateAt', marked', nodes', opened', submatchesCount')
      PROVE  MatcherInv'
  BY <1>0, <1>3 DEF MatcherInv, MatcherOK
<1>4. ASSUME template' = template, matchPc' = "refused" PROVE MatcherInv'
  BY <1>0, <1>4 DEF MatcherInv, MatcherOK
<1>5. CASE ParseOpen
  <2>1. /\ POK /\ templateAt <= Len(template) /\ template[templateAt] = "("
        /\ template' = template /\ matchPc' = "parse" /\ templateAt' = templateAt + 1 /\ marked' = <<>>
        /\ nodes' = Append(StringNodes(nodes, marked), Node("open", submatchesCount))
        /\ opened' = Append(opened, submatchesCount) /\ submatchesCount' = submatchesCount + 1
    BY <1>1, <1>2, <1>5, Zenon DEF ParseOpen, AtTemplate, AddNode, MatchIdle
  <2>2. ParseOK(template, templateAt + 1, <<>>, Append(StringNodes(nodes, marked), Node("open", submatchesCount)),
                Append(opened, submatchesCount), submatchesCount + 1)
    BY <2>1, <1>0, ParseOpenOK
  <2> QED
    BY <2>1, <2>2, <1>3, Zenon
<1>6. CASE ParseClose
  <2>1. /\ POK /\ matchPc = "parse" /\ templateAt <= Len(template) /\ template[templateAt] = ")"
        /\ template' = template /\ submatchesCount' = submatchesCount
    BY <1>1, <1>6, Zenon DEF ParseClose, AtTemplate, MatchIdle
  <2>2. CASE opened = <<>>
    BY <2>1, <2>2, <1>4, <1>6, Zenon DEF ParseClose
  <2>3. CASE opened # <<>>
    <3>1. /\ matchPc' = "parse" /\ templateAt' = templateAt + 1 /\ marked' = <<>> /\ opened' = Front(opened)
          /\ nodes' = Append(StringNodes(nodes, marked), Node("close", Last(opened)))
      BY <2>1, <2>3, <1>2, <1>6, Zenon DEF ParseClose, AddNode, Closes
    <3>2. ParseOK(template, templateAt + 1, <<>>, Append(StringNodes(nodes, marked), Node("close", Last(opened))),
                  Front(opened), submatchesCount)
      BY <2>1, <2>3, <1>0, ParseCloseOK
    <3> QED
      BY <2>1, <3>1, <3>2, <1>3, Zenon
  <2> QED
    BY <2>2, <2>3
<1>7. CASE ParseAnyOrEnd
  <2>1. PICK c \in {"?", "$"} : AtTemplate(c) /\ AddNode(Node(IF c = "?" THEN "any" ELSE "end", 0), templateAt + 1)
    BY <1>7, Zenon DEF ParseAnyOrEnd
  <2> DEFINE node == Node(IF template[templateAt] = "?" THEN "any" ELSE "end", 0)
  <2>2. /\ POK /\ matchPc = "parse" /\ templateAt <= Len(template) /\ template[templateAt] = c
        /\ templateAt' = templateAt + 1 /\ marked' = <<>>
        /\ nodes' = Append(StringNodes(nodes, marked), node)
    BY <2>1, <1>1, <1>2, Zenon DEF AtTemplate, AddNode
  <2>3. template' = template /\ matchPc' = matchPc /\ opened' = opened /\ submatchesCount' = submatchesCount
    BY <1>7, Zenon DEF ParseAnyOrEnd, MatchIdle
  <2>4. ParseOK(template, templateAt + 1, <<>>, Append(StringNodes(nodes, marked), node), opened, submatchesCount)
    BY <2>2, <1>0, ParseAnyOK
  <2> HIDE DEF node
  <2> QED
    BY <2>2, <2>3, <2>4, <1>3, Zenon
<1>8. CASE ParseEscape
  <2>1. /\ POK /\ matchPc = "parse" /\ templateAt <= Len(template) /\ template[templateAt] = "%"
        /\ template' = template /\ submatchesCount' = submatchesCount /\ opened' = opened
    BY <1>1, <1>8, Zenon DEF ParseEscape, AtTemplate, MatchIdle
  <2>2. CASE templateAt = Len(template) \/ template[templateAt + 1] \notin Escapable
    BY <2>1, <2>2, <1>4, <1>8, Zenon DEF ParseEscape
  <2>3. CASE ~(templateAt = Len(template) \/ template[templateAt + 1] \notin Escapable)
    <3> DEFINE node == IF template[templateAt + 1] = "d" THEN Node("digit", 0)
                       ELSE Node("string", <<template[templateAt + 1]>>)
    <3>1. /\ matchPc' = "parse" /\ templateAt' = templateAt + 2 /\ marked' = <<>>
          /\ nodes' = Append(StringNodes(nodes, marked), node)
      BY <2>1, <2>3, <1>2, <1>8, Zenon DEF ParseEscape, AddNode
    <3>2. templateAt < Len(template)
      BY <2>1, <2>3, <1>0 DEF ParseOK
    <3>3. ParseOK(template, templateAt + 2, <<>>, Append(StringNodes(nodes, marked), node), opened, submatchesCount)
      BY <2>1, <2>3, <3>2, <1>0, ParseEscapeOK
    <3> HIDE DEF node
    <3> QED
      BY <2>1, <3>1, <3>3, <1>3, Zenon
  <2> QED
    BY <2>2, <2>3
<1>9. CASE ParseOther
  <2>1. /\ POK /\ templateAt <= Len(template) /\ template[templateAt] \notin SpecialChars
        /\ template' = template /\ matchPc' = "parse" /\ templateAt' = templateAt + 1
        /\ marked' = Append(marked, template[templateAt]) /\ nodes' = nodes
        /\ opened' = opened /\ submatchesCount' = submatchesCount
    BY <1>1, <1>9, Zenon DEF ParseOther, MatchIdle
  <2>2. ParseOK(template, templateAt + 1, Append(marked, template[templateAt]), nodes, opened, submatchesCount)
    BY <2>1, <1>0, ParseOtherOK
  <2> QED
    BY <2>1, <2>2, <1>3, Zenon
<1>10. CASE ParseEnds
  <2>1. /\ POK /\ templateAt > Len(template) /\ template' = template /\ matchPc' = "ready"
        /\ nodes' = StringNodes(nodes, marked) /\ submatchesCount' = submatchesCount
    BY <1>1, <1>2, <1>10, Zenon DEF ParseEnds, MatchIdle
  <2>2. ReadyOK(template, StringNodes(nodes, marked), submatchesCount)
    BY <2>1, <1>0, ParsedReady
  <2> HIDE DEF POK
  <2> QED
    BY <2>1, <2>2, <1>0 DEF MatcherInv, MatcherOK
\* Steps of Match.
<1>11. ASSUME NEW s \in BoundedSeq(SourceChars, MaxSource), StartMatch(s) PROVE MatcherInv'
  <2>1. s \in Seq(SourceChars) /\ Len(s) \in Nat
    BY MatcherAssumption DEF BoundedSeq, SeqOf
  <2>2. /\ matchPc = "ready" /\ source' = s /\ sourceAt' = 0 /\ nodeAt' = 1 /\ matchPc' = "match"
        /\ submatches' = [k \in 0 .. submatchesCount - 1 |-> [begin |-> -1, end |-> -1]]
        /\ template' = template /\ nodes' = nodes /\ submatchesCount' = submatchesCount
    BY <1>11, Zenon DEF StartMatch, ParsedStays
  <2>3. ReadyOK(template, nodes, submatchesCount)
    BY <2>2 DEF MatcherInv, MatcherOK
  <2>4. MatchOK(template, nodes, s, 0, 1, [k \in 0 .. submatchesCount - 1 |-> [begin |-> -1, end |-> -1]])
    BY <2>1, <2>3, <1>0, MatchBegins
  <2>5. MatchOK(template, nodes, s, 0, 1, submatches')
    BY <2>2, <2>4, Zenon
  <2> QED
    BY <2>1, <2>2, <2>3, <2>5, <1>0 DEF MatcherInv, MatcherOK
<1>12. CASE Process
  <2> DEFINE node == nodes[nodeAt]
             r == RestOf(source, sourceAt)
  <2>1. /\ matchPc = "match" /\ nodeAt <= Len(nodes)
        /\ template' = template /\ nodes' = nodes /\ submatchesCount' = submatchesCount /\ source' = source
    BY <1>12, Zenon DEF Process, ParsedStays
  <2>2. /\ ReadyOK(template, nodes, submatchesCount) /\ source \in Seq(SourceChars)
        /\ MatchOK(template, nodes, source, sourceAt, nodeAt, submatches)
    BY <2>1 DEF MatcherInv, MatcherOK
  <2>3. submatches' = SubAfter(node, submatches, sourceAt)
    BY <1>12, Zenon DEF Process, SubAfter
  <2>4. IF NodeFits(node, r) THEN Goes(NodeTakes(node)) ELSE matchPc' = "failed" /\ UNCHANGED <<sourceAt, nodeAt>>
    BY <1>12, Zenon DEF Process, NodeFits, NodeTakes, DigitFits, Rest, RestOf
  <2>5. /\ NodeFits(node, r) =>
              MatchOK(template, nodes, source, sourceAt + NodeTakes(node), nodeAt + 1, SubAfter(node, submatches, sourceAt))
        /\ ~NodeFits(node, r) => ~FitsUpto(template, source, Len(template) + 1)
    BY <2>1, <2>2, <1>0, MatchGoes
  <2> HIDE DEF node, r
  <2>6. CASE NodeFits(node, r)
    <3>1. matchPc' = "match" /\ MatchOK(template, nodes, source, sourceAt', nodeAt', submatches')
      BY <2>1, <2>3, <2>4, <2>5, <2>6, Zenon DEF Goes
    <3> QED
      BY <3>1, <2>1, <2>2, <1>0 DEF MatcherInv, MatcherOK
  <2>7. CASE ~NodeFits(node, r)
    <3>1. matchPc' = "failed" /\ ~FitsUpto(template, source, Len(template) + 1)
      BY <2>4, <2>5, <2>7, Zenon
    <3> QED
      BY <3>1, <2>1, <2>2, <1>0 DEF MatcherInv, MatcherOK
  <2> QED
    BY <2>6, <2>7
<1>13. CASE Matched
  <2>1. /\ matchPc = "match" /\ nodeAt > Len(nodes) /\ matchPc' = "matched"
        /\ template' = template /\ nodes' = nodes /\ submatchesCount' = submatchesCount
        /\ source' = source /\ submatches' = submatches
    BY <1>13, Zenon DEF Matched, ParsedStays
  <2>2. /\ ReadyOK(template, nodes, submatchesCount) /\ source \in Seq(SourceChars)
        /\ MatchOK(template, nodes, source, sourceAt, nodeAt, submatches)
    BY <2>1 DEF MatcherInv, MatcherOK
  <2>3. FitsUpto(template, source, Len(template) + 1) /\ SubOK(template, Len(template) + 1, submatches)
    BY <2>1, <2>2, MatchEnds
  <2> QED
    BY <2>1, <2>2, <2>3, <1>0 DEF MatcherInv, MatcherOK
<1>14. CASE UNCHANGED matchVars
  BY <1>14, Zenon DEF matchVars, MatcherInv
<1> QED
  BY <1>5, <1>6, <1>7, <1>8, <1>9, <1>10, <1>11, <1>12, <1>13, <1>14, Zenon DEF MatcherNext

-----------------------------------------------------------------------------

\* The words of the property are those of the invariant.
LEMMA MatcherWords ==
    ASSUME template \in Seq(TemplateChars)
    PROVE  /\ Items = ItemsOf(template) /\ Consuming = ConsumingOf(template)
           /\ \A i \in Nat : ConsumedBefore(i) = Eaten(template, i)
           /\ Cardinality(Consuming) = Eaten(template, Len(template) + 1)
           /\ \A i \in Nat : Cardinality({j \in Items : template[j] = "(" /\ j < i}) = Num(template, i)
<1> DEFINE t == template
<1>1. Len(t) \in Nat
  OBVIOUS
<1>2. Items = ItemsOf(t) /\ Consuming = ConsumingOf(t)
  BY ItemsOfTemplate, Zenon DEF Consuming, ConsumingOf
<1>3. ItemsOf(t) \subseteq 1 .. Len(t) /\ ConsumingOf(t) \subseteq ItemsOf(t) /\ OpensOf(t) \subseteq ItemsOf(t)
  BY DEF ItemsOf, ConsumingOf, OpensOf
<1> HIDE DEF t
<1>4. ASSUME NEW i \in Nat PROVE {j \in ConsumingOf(t) : j < i} = Upto(ConsumingOf(t), i)
  BY <1>1, <1>3 DEF Upto
<1>5. ASSUME NEW i \in Nat PROVE {j \in ItemsOf(t) : t[j] = "(" /\ j < i} = Upto(OpensOf(t), i)
  <2>1. {j \in ItemsOf(t) : t[j] = "(" /\ j < i} = {j \in OpensOf(t) : j < i}
    BY Zenon DEF OpensOf
  <2>2. {j \in OpensOf(t) : j < i} = Upto(OpensOf(t), i)
    BY <1>1, <1>3 DEF Upto
  <2> QED
    BY <2>1, <2>2
<1>6. ConsumingOf(t) = Upto(ConsumingOf(t), Len(t) + 1)
  BY <1>1, <1>3 DEF Upto
<1>7. \A i \in Nat : ConsumedBefore(i) = Eaten(t, i)
  BY <1>2, <1>4, Zenon DEF ConsumedBefore, Eaten
<1>8. Cardinality(Consuming) = Eaten(t, Len(t) + 1)
  BY <1>2, <1>6, Zenon DEF Eaten
<1>9. \A i \in Nat : Cardinality({j \in Items : t[j] = "(" /\ j < i}) = Num(t, i)
  BY <1>2, <1>5, Zenon DEF Num
<1> QED
  BY <1>2, <1>7, <1>8, <1>9 DEF t

LEMMA FitsIsUpto ==
    ASSUME template \in Seq(TemplateChars), source \in Seq(SourceChars)
    PROVE  Fits <=> FitsUpto(template, source, Len(template) + 1)
<1> DEFINE t == template
<1>1. /\ Items = ItemsOf(t) /\ Consuming = ConsumingOf(t)
      /\ \A i \in Nat : ConsumedBefore(i) = Eaten(t, i)
      /\ Cardinality(Consuming) = Eaten(t, Len(t) + 1)
  BY MatcherWords, Zenon
<1>2. Len(t) \in Nat
  OBVIOUS
<1>3. \A i, c : ItemFits(i, c) = FitsItem(t, i, c)
  BY Zenon DEF ItemFits, FitsItem
<1> HIDE DEF t
<1>4. \A i \in ItemsOf(t) : i \in Nat /\ i < Len(t) + 1
  BY <1>2 DEF ItemsOf
<1>5. ConsumingOf(t) \subseteq ItemsOf(t)
  BY DEF ConsumingOf
<1>6. Fits <=> /\ Eaten(t, Len(t) + 1) <= Len(source)
               /\ \A i \in ConsumingOf(t) : FitsItem(t, i, source[Eaten(t, i) + 1])
               /\ \A i \in ItemsOf(t) : t[i] = "$" => Eaten(t, i) = Len(source)
  <2>1. \A i \in ConsumingOf(t) : ConsumedBefore(i) = Eaten(t, i)
    BY <1>1, <1>4, <1>5, Zenon
  <2>2. \A i \in ItemsOf(t) : ConsumedBefore(i) = Eaten(t, i)
    BY <1>1, <1>4, Zenon
  <2>3. \A i \in ConsumingOf(t) : ItemFits(i, source[ConsumedBefore(i) + 1]) <=> FitsItem(t, i, source[Eaten(t, i) + 1])
    BY <2>1, <1>3, Zenon
  <2> QED
    BY <2>2, <2>3, <1>1, Zenon DEF Fits, t
<1>7. FitsUpto(t, source, Len(t) + 1) <=>
         /\ Eaten(t, Len(t) + 1) <= Len(source)
         /\ \A i \in ConsumingOf(t) : FitsItem(t, i, source[Eaten(t, i) + 1])
         /\ \A i \in ItemsOf(t) : t[i] = "$" => Eaten(t, i) = Len(source)
  BY <1>4, <1>5, Zenon DEF FitsUpto
<1> QED
  BY <1>6, <1>7, Zenon DEF t

\* A count of places between two places is a difference of counts.
LEMMA UptoBetween ==
    ASSUME NEW T, NEW p \in Nat, NEW q \in Nat, 1 <= p, p <= q
    PROVE  Cardinality({j \in p .. q : j \in T}) = Cardinality(Upto(T, q + 1)) - Cardinality(Upto(T, p))
<1> DEFINE A == Upto(T, p)
           B == {j \in p .. q : j \in T}
<1>1. IsFiniteSet(1 .. p - 1) /\ IsFiniteSet(p .. q)
  BY FS_Interval
<1>2. Upto(T, q + 1) = A \cup B /\ A \cap B = {} /\ A \subseteq 1 .. p - 1 /\ B \subseteq p .. q
  BY DEF Upto
<1> HIDE DEF A, B
<1>3. IsFiniteSet(A) /\ IsFiniteSet(B)
  BY <1>1, <1>2, FS_Subset, Zenon
<1>4. Cardinality(A \cup B) = Cardinality(A) + Cardinality(B) - Cardinality(A \cap B)
  BY <1>3, FS_Union, Zenon
<1>5. Cardinality({}) = 0 /\ Cardinality(A) \in Nat /\ Cardinality(B) \in Nat
  BY <1>3, FS_EmptySet, FS_CardinalityType, Zenon
<1>6. Cardinality(A \cap B) = 0
  BY <1>2, <1>5, Zenon
<1>7. Cardinality(B) = Cardinality(A \cup B) - Cardinality(A)
  BY <1>4, <1>5, <1>6
<1> QED
  BY <1>2, <1>7, Zenon DEF A, B

LEMMA DepthIs ==
    ASSUME template \in Seq(TemplateChars), NEW p \in Nat, NEW q \in Nat, 1 <= p, p <= q
    PROVE  Cardinality({j \in Items : template[j] = "(" /\ p <= j /\ j <= q})
           - Cardinality({j \in Items : template[j] = ")" /\ p <= j /\ j <= q})
           = Open(template, q + 1) - Open(template, p)
<1> DEFINE t == template
           A == {j \in Items : t[j] = "(" /\ p <= j /\ j <= q}
           B == {j \in Items : t[j] = ")" /\ p <= j /\ j <= q}
<1>1. Len(t) \in Nat /\ Items = ItemsOf(t)
  BY ItemsOfTemplate
<1>2. A = {j \in p .. q : j \in OpensOf(t)}
  BY <1>1 DEF OpensOf, ItemsOf
<1>3. B = {j \in p .. q : j \in ClosesOf(t)}
  BY <1>1 DEF ClosesOf, ItemsOf
<1> HIDE DEF A, B, t
<1>4. Cardinality(A) = Cardinality(Upto(OpensOf(t), q + 1)) - Cardinality(Upto(OpensOf(t), p))
  BY <1>2, UptoBetween
<1>5. Cardinality(B) = Cardinality(Upto(ClosesOf(t), q + 1)) - Cardinality(Upto(ClosesOf(t), p))
  BY <1>3, UptoBetween
<1>6. /\ Cardinality(Upto(OpensOf(t), q + 1)) \in Nat /\ Cardinality(Upto(OpensOf(t), p)) \in Nat
      /\ Cardinality(Upto(ClosesOf(t), q + 1)) \in Nat /\ Cardinality(Upto(ClosesOf(t), p)) \in Nat
  BY UptoOrder
<1>7. Cardinality(A) - Cardinality(B) = Open(t, q + 1) - Open(t, p)
  BY <1>4, <1>5, <1>6 DEF Open, Num
<1> QED
  BY <1>7 DEF A, B, t

\* The ")" that the property looks for is the partner.
LEMMA PartnerIs ==
    ASSUME template \in Seq(TemplateChars), Bracketed(template), NEW p \in OpensOf(template)
    PROVE  /\ \A m : PairOf(template, p, m) => Partner(p) = m
           /\ (\A m : ~PairOf(template, p, m)) => Partner(p) = 0
<1> DEFINE t == template
           closing == {q \in ItemsOf(t) : q > p /\ Open(t, q + 1) = Open(t, p)}
<1>1. Len(t) \in Nat /\ Items = ItemsOf(t)
  BY ItemsOfTemplate
<1>2. p \in 1 .. Len(t)
  BY <1>1 DEF OpensOf, ItemsOf
<1>3. ASSUME NEW q \in Items, q > p
      PROVE  Cardinality({j \in Items : template[j] = "(" /\ p <= j /\ j <= q})
             - Cardinality({j \in Items : template[j] = ")" /\ p <= j /\ j <= q}) = 0
             <=> Open(t, q + 1) = Open(t, p)
  <2>1. q \in Nat /\ p \in Nat /\ 1 <= p /\ p <= q /\ q + 1 \in Nat /\ 1 <= q + 1
    BY <1>1, <1>2, <1>3 DEF ItemsOf
  <2>2. Open(t, q + 1) \in Int /\ Open(t, p) \in Int
    BY <2>1, OpenStep
  <2>3. Cardinality({j \in Items : template[j] = "(" /\ p <= j /\ j <= q})
             - Cardinality({j \in Items : template[j] = ")" /\ p <= j /\ j <= q})
        = Open(t, q + 1) - Open(t, p)
    BY <2>1, DepthIs
  <2>4. Open(t, q + 1) - Open(t, p) = 0 <=> Open(t, q + 1) = Open(t, p)
    BY <2>2
  <2> QED
    BY <2>3, <2>4, Zenon
<1>4. Partner(p) = IF closing = {} THEN 0 ELSE CHOOSE q \in closing : \A r \in closing : q <= r
  <2> DEFINE old == {q \in Items : q > p /\ Cardinality({j \in Items : template[j] = "(" /\ p <= j /\ j <= q})
             - Cardinality({j \in Items : template[j] = ")" /\ p <= j /\ j <= q}) = 0}
  <2>1. old = closing
    BY <1>1, <1>3, Zenon
  <2>2. Partner(p) = IF old = {} THEN 0 ELSE CHOOSE q \in old : \A r \in old : q <= r
    BY Zenon DEF Partner
  <2> HIDE DEF old, closing
  <2> QED
    BY <2>1, <2>2, Zenon
<1>5. closing \subseteq Nat
  BY <1>1 DEF ItemsOf
<1>6. \A x \in Nat : 1 <= x => Open(t, x) \in Int
  BY OpenStep
<1>7. ASSUME NEW m, PairOf(t, p, m) PROVE Partner(p) = m
  <2>1. /\ m \in Nat /\ m \in ItemsOf(t) /\ m > p /\ Open(t, m + 1) = Open(t, p)
        /\ \A x \in p + 1 .. m : Open(t, x) > Open(t, p)
    BY <1>1, <1>2, <1>7 DEF PairOf, ClosesOf, ItemsOf
  <2>2. m \in closing
    BY <2>1
  <2>3. ASSUME NEW r \in closing PROVE m <= r
    <3>1. r \in Nat /\ r > p /\ Open(t, r + 1) = Open(t, p)
      BY <1>5
    <3>2. r < m => r + 1 \in p + 1 .. m
      BY <3>1, <2>1, <1>2
    <3>3. Open(t, p) \in Int
      BY <1>2, <1>6
    <3> HIDE DEF closing
    <3> QED
      BY <3>1, <3>2, <3>3, <2>1
  <2> HIDE DEF closing
  <2>4. closing # {}
    BY <2>2
  <2>5. ASSUME NEW q \in closing, \A r \in closing : q <= r PROVE q = m
    BY <2>1, <2>2, <2>3, <2>5, <1>5
  <2>6. (CHOOSE q \in closing : \A r \in closing : q <= r) = m
    BY <2>2, <2>3, <2>5, Zenon
  <2> QED
    BY <2>4, <2>6, <1>4, Zenon
<1>8. ASSUME \A m : ~PairOf(t, p, m) PROVE Partner(p) = 0
  <2>1. \A x \in p + 1 .. Len(t) + 1 : Open(t, x) > Open(t, p)
    BY <1>8, Zenon DEF Bracketed
  <2>2. ASSUME NEW r \in closing PROVE FALSE
    <3>1. r \in 1 .. Len(t) /\ r > p /\ Open(t, r + 1) = Open(t, p)
      BY DEF ItemsOf
    <3>2. r + 1 \in p + 1 .. Len(t) + 1
      BY <3>1, <1>1, <1>2
    <3>3. Open(t, p) \in Int
      BY <1>2, <1>6
    <3> HIDE DEF closing
    <3> QED
      BY <3>1, <3>2, <3>3, <2>1
  <2> HIDE DEF closing
  <2>3. closing = {}
    BY <2>2
  <2> QED
    BY <2>3, <1>4, Zenon
<1> QED
  BY <1>7, <1>8, Zenon

LEMMA MatcherRight == MatcherInv => MatcherIsRight
<1> SUFFICES ASSUME MatcherInv PROVE MatcherIsRight
  OBVIOUS
<1> DEFINE t == template
<1>1. t \in Seq(TemplateChars) /\ Len(t) \in Nat
  BY DEF MatcherInv, MatcherOK
<1>2. MatchIsFit
  <2>1. ASSUME matchPc \in {"matched", "failed"} PROVE Fits <=> FitsUpto(t, source, Len(t) + 1)
    <3>1. source \in Seq(SourceChars)
      BY <2>1 DEF MatcherInv, MatcherOK
    <3> QED
      BY <3>1, <1>1, FitsIsUpto
  <2>2. /\ matchPc = "matched" => FitsUpto(t, source, Len(t) + 1)
        /\ matchPc = "failed" => ~FitsUpto(t, source, Len(t) + 1)
    BY Zenon DEF MatcherInv, MatcherOK
  <2> QED
    BY <2>1, <2>2 DEF MatchIsFit
<1>3. ASSUME matchPc = "matched", NEW p \in Items, t[p] = "("
      PROVE  LET n == Cardinality({j \in Items : t[j] = "(" /\ j < p})
             IN  /\ submatches[n].begin = ConsumedBefore(p)
                 /\ submatches[n].end = IF Partner(p) = 0 THEN -1 ELSE ConsumedBefore(Partner(p))
  <2>1. SubOK(t, Len(t) + 1, submatches) /\ Bracketed(t)
    BY <1>3 DEF MatcherInv, MatcherOK, ReadyOK
  <2>2. /\ Items = ItemsOf(t)
        /\ \A i \in Nat : ConsumedBefore(i) = Eaten(t, i)
        /\ \A i \in Nat : Cardinality({j \in Items : t[j] = "(" /\ j < i}) = Num(t, i)
    BY <1>1, MatcherWords
  <2>3. p \in OpensOf(t) /\ p \in Nat /\ p < Len(t) + 1
    BY <2>2, <1>1, <1>3 DEF OpensOf, ItemsOf
  <2> DEFINE n == Cardinality({j \in Items : t[j] = "(" /\ j < p})
  <2>4. n = Num(t, p) /\ ConsumedBefore(p) = Eaten(t, p)
    BY <2>2, <2>3, Zenon
  <2>5. /\ \A m : PairOf(t, p, m) => Partner(p) = m
        /\ (\A m : ~PairOf(t, p, m)) => Partner(p) = 0
    BY <2>1, <2>3, <1>1, PartnerIs
  <2> HIDE DEF n
  <2>6. submatches[n].begin = ConsumedBefore(p)
    BY <2>1, <2>3, <2>4, Zenon DEF SubOK
  <2>7. submatches[n].end = IF Partner(p) = 0 THEN -1 ELSE ConsumedBefore(Partner(p))
    <3>1. ASSUME NEW m, PairOf(t, p, m) PROVE submatches[n].end = IF Partner(p) = 0 THEN -1 ELSE ConsumedBefore(Partner(p))
      <4>1. Partner(p) = m /\ m \in Nat /\ m # 0 /\ m < Len(t) + 1
        BY <2>5, <3>1, <1>1 DEF PairOf, ClosesOf, ItemsOf
      <4>2. submatches[n].end = Eaten(t, m)
        BY <4>1, <3>1, <2>1, <2>3, <2>4, Zenon DEF SubOK
      <4> QED
        BY <4>1, <4>2, <2>2, Zenon
    <3>2. ASSUME \A m : ~PairOf(t, p, m) PROVE submatches[n].end = IF Partner(p) = 0 THEN -1 ELSE ConsumedBefore(Partner(p))
      <4>1. submatches[n].end = -1
        BY <3>2, <2>1, <2>3, <2>4, Zenon DEF SubOK
      <4> QED
        BY <4>1, <3>2, <2>5, Zenon
    <3> QED
      BY <3>1, <3>2, Zenon
  <2> QED
    BY <2>6, <2>7, Zenon DEF n
<1>4. SubmatchesAreBracketed
  BY <1>3, Zenon DEF SubmatchesAreBracketed
<1> QED
  BY <1>2, <1>4 DEF MatcherIsRight

\* SimpleStringMatcher accepts exactly the strings that begin with a text that fits the
\* template item by item, and each submatch of an accepted string is what the items
\* between its "(" and the ")" that closes it consumed, for every template and string.
THEOREM MatcherCorrect == MatcherSpec => []MatcherIsRight
<1>1. MatcherSpec => []MatcherInv
  BY MatcherStarts, MatcherSteps, PTL DEF MatcherSpec
<1> QED
  BY <1>1, MatcherRight, PTL
=============================================================================
