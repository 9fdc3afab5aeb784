-------------------------- MODULE StatsWriterProofs --------------------------
(***************************************************************************)
(* The statistics daemon keeps every message: proofs for StatsWriter.       *)
(*                                                                         *)
(* The inductive invariant StatsInv keeps an account of each client c: the  *)
(* first d[c] of its messages were removed from messageBuffer_ and the      *)
(* first w[c] were written, where w[c] is d[c], or d[c] + 1 between Write    *)
(* and Remove and after a commit that failed.  What is in the buffer and    *)
(* what is still to be received make up, together, the messages after the   *)
(* first d[c] (Frames): this does not depend on how the stream was cut.     *)
(***************************************************************************)
EXTENDS StatsWriter, SequenceTheorems, FiniteSetTheorems, TLAPS

\* A unit of data.
Cell == Nat \cup (Clients \X Nat \X Nat)

\* The number of cells of a pair {i} \X (1 .. n) is n.
LEMMA RowSize ==
    ASSUME NEW i, NEW n \in Nat
    PROVE  IsFiniteSet({i} \X (1 .. n)) /\ Cardinality({i} \X (1 .. n)) = n
<1> DEFINE f == [j \in 1 .. n |-> <<i, j>>]
<1>1. f \in Bijection(1 .. n, {i} \X (1 .. n))
  BY DEF Bijection, Injection, Surjection, IsInjective
<1>2. ExistsBijection(1 .. n, {i} \X (1 .. n))
  BY <1>1 DEF ExistsBijection
<1>3. IsFiniteSet(1 .. n) /\ Cardinality(1 .. n) = n
  BY FS_Interval
<1> QED
  BY <1>2, <1>3, FS_Bijection, Zenon

\* The cells of finitely many messages are finite.
LEMMA CellsFinite ==
    ASSUME NEW S, NEW s \in Seq(Seq(S)), NEW k \in 0 .. Len(s)
    PROVE  IsFiniteSet(CellsOf(s, k))
<1> DEFINE row == [i \in 1 .. k |-> {i} \X (1 .. Len(s[i]))]
           rows == {{i} \X (1 .. Len(s[i])) : i \in 1 .. k}
<1>1. row \in Surjection(1 .. k, rows)
  BY DEF Surjection
<1>2. IsFiniteSet(1 .. k)
  BY FS_Interval
<1>3. IsFiniteSet(rows)
  <2> HIDE DEF row, rows
  <2> QED
    BY <1>1, <1>2, FS_Surjection
<1>4. ASSUME NEW i \in 1 .. k PROVE IsFiniteSet({i} \X (1 .. Len(s[i])))
  <2>1. Len(s[i]) \in Nat
    BY ElementOfSeq, LenProperties
  <2> QED
    BY <2>1, RowSize
<1>5. \A T \in rows : IsFiniteSet(T)
  BY <1>4
<1>6. IsFiniteSet(UNION rows)
  BY <1>3, <1>5, FS_UNION, Zenon
<1> QED
  BY <1>6 DEF CellsOf

\* Size sums up the lengths of the messages.
LEMMA SizeFacts ==
    ASSUME NEW S, NEW s \in Seq(Seq(S))
    PROVE  /\ \A k \in 0 .. Len(s) : Size(s, k) \in Nat
           /\ Size(s, 0) = 0
           /\ \A k \in 1 .. Len(s) : Size(s, k) = Size(s, k - 1) + Len(s[k])
           /\ \A k, l \in 0 .. Len(s) : k <= l => Size(s, k) <= Size(s, l)
<1>1. \A k \in 0 .. Len(s) : Size(s, k) \in Nat
  BY CellsFinite, FS_CardinalityType DEF Size
<1>2. Size(s, 0) = 0
  <2>1. CellsOf(s, 0) = {}
    BY DEF CellsOf
  <2> QED
    BY <2>1, FS_EmptySet DEF Size
<1>3. ASSUME NEW k \in 1 .. Len(s) PROVE Size(s, k) = Size(s, k - 1) + Len(s[k])
  <2> DEFINE old == CellsOf(s, k - 1)
             row == {k} \X (1 .. Len(s[k]))
  <2>1. CellsOf(s, k) = old \cup row
    <3>1. 1 .. k = (1 .. k - 1) \cup {k}
      BY LenProperties
    <3> QED
      BY <3>1 DEF CellsOf
  <2>2. old \cap row = {}
    <3>1. \A i \in 1 .. k - 1 : i # k
      BY LenProperties
    <3> QED
      BY <3>1 DEF CellsOf
  <2>3. k - 1 \in 0 .. Len(s) /\ k \in 0 .. Len(s)
    BY LenProperties
  <2>4. IsFiniteSet(old)
    BY <2>3, CellsFinite
  <2>5. Len(s[k]) \in Nat
    BY ElementOfSeq, LenProperties
  <2>6. IsFiniteSet(row) /\ Cardinality(row) = Len(s[k])
    BY <2>5, RowSize, Zenon
  <2> HIDE DEF old, row
  <2>7. Cardinality(old \cup row) = Cardinality(old) + Cardinality(row) - Cardinality(old \cap row)
    BY <2>4, <2>6, FS_Union, Zenon
  <2>8. Cardinality(old \cap row) = 0
    BY <2>2, FS_EmptySet, Zenon
  <2>9. Cardinality(old) \in Nat
    BY <2>4, FS_CardinalityType, Zenon
  <2>10. Cardinality(old \cup row) = Cardinality(old) + Len(s[k])
    BY <2>5, <2>6, <2>7, <2>8, <2>9
  <2> QED
    BY <2>1, <2>10 DEF Size, old
<1>4. ASSUME NEW k \in 0 .. Len(s), NEW l \in 0 .. Len(s), k <= l
      PROVE  Size(s, k) <= Size(s, l)
  <2>1. 1 .. k \subseteq 1 .. l
    BY <1>4, LenProperties
  <2>2. CellsOf(s, k) \in SUBSET CellsOf(s, l)
    BY <2>1 DEF CellsOf
  <2>3. IsFiniteSet(CellsOf(s, l))
    BY CellsFinite
  <2> QED
    BY <2>2, <2>3, FS_Subset, Zenon DEF Size
<1> QED
  BY <1>1, <1>2, <1>3, <1>4

\* A message more does not change the size of those before it.
LEMMA SizeOfAppend ==
    ASSUME NEW S, NEW s \in Seq(Seq(S)), NEW m \in Seq(S), NEW k \in 0 .. Len(s)
    PROVE  Size(Append(s, m), k) = Size(s, k)
<1>1. \A i \in 1 .. k : Append(s, m)[i] = s[i]
  BY AppendProperties, LenProperties
<1>2. CellsOf(Append(s, m), k) = CellsOf(s, k)
  BY <1>1 DEF CellsOf
<1> QED
  BY <1>2 DEF Size

\* p is the first n elements of a sequence.
IsFirst(S, s, n, p) ==
    p \in Seq(S) /\ Len(p) = n /\ \A i \in 1 .. n : p[i] = s[i]

\* q is the others.
IsRest(S, s, n, q) ==
    q \in Seq(S) /\ Len(q) = Len(s) - n /\ \A i \in 1 .. Len(s) - n : q[i] = s[n + i]

\* SubSeq cuts a sequence in two.
LEMMA CutSeq ==
    ASSUME NEW S, NEW s \in Seq(S), NEW n \in 0 .. Len(s)
    PROVE  IsFirst(S, s, n, SubSeq(s, 1, n)) /\ IsRest(S, s, n, SubSeq(s, n + 1, Len(s)))
<1>1. Len(s) \in Nat /\ \A i \in 1 .. Len(s) : s[i] \in S
  BY LenProperties, ElementOfSeq
<1>2. \A i \in 1 .. n : s[i] \in S
  BY <1>1
<1>3. \A i \in n + 1 .. Len(s) : s[i] \in S
  BY <1>1
<1>4. /\ SubSeq(s, 1, n) \in Seq(S)
      /\ Len(SubSeq(s, 1, n)) = n
      /\ \A i \in 1 .. n : SubSeq(s, 1, n)[i] = s[i]
  BY <1>1, <1>2, SubSeqProperties
<1>5. /\ SubSeq(s, n + 1, Len(s)) \in Seq(S)
      /\ Len(SubSeq(s, n + 1, Len(s))) = Len(s) - n
      /\ \A i \in 1 .. Len(s) - n : SubSeq(s, n + 1, Len(s))[i] = s[n + i]
  BY <1>1, <1>3, SubSeqProperties
<1> QED
  BY <1>4, <1>5, Zenon DEF IsFirst, IsRest

\* The k-th message of client c.
IsMessage(c, k, m) ==
    \E n \in Sizes, magic \in {MAGIC, 0} :
        m = <<magic, n>> \o [i \in 1 .. n |-> <<c, k, i>>]

\* What a message is made of.
LEMMA MessageShape ==
    ASSUME NEW c \in Clients, NEW k \in Nat, NEW m, IsMessage(c, k, m)
    PROVE  /\ m \in Seq(Cell)
           /\ m[2] \in Nat
           /\ Len(m) = HEADER + m[2]
           /\ HasBody(m) => m[3] = <<c, k, 1>>
<1>1. PICK n \in Sizes, magic \in {MAGIC, 0} :
          m = <<magic, n>> \o [i \in 1 .. n |-> <<c, k, i>>]
  BY DEF IsMessage
<1>2. n \in Nat /\ magic \in Nat
  BY StatsAssumption
<1> DEFINE head == <<magic, n>>
           body == [i \in 1 .. n |-> <<c, k, i>>]
<1>3. head \in Seq(Cell) /\ Len(head) = 2 /\ head[2] = n
  BY <1>2 DEF Cell
<1>4. body \in Seq(Cell) /\ Len(body) = n /\ (n > 0 => body[1] = <<c, k, 1>>)
  BY <1>2 DEF Cell
<1> HIDE DEF head, body
<1>5. /\ head \o body \in Seq(Cell)
      /\ Len(head \o body) = 2 + n
      /\ \A i \in 1 .. 2 + n : (head \o body)[i] = IF i <= 2 THEN head[i] ELSE body[i - 2]
  <2>1. /\ head \o body \in Seq(Cell)
        /\ Len(head \o body) = Len(head) + Len(body)
        /\ \A i \in 1 .. Len(head) + Len(body) :
              (head \o body)[i] = IF i <= Len(head) THEN head[i] ELSE body[i - Len(head)]
    BY <1>3, <1>4, ConcatProperties, Zenon
  <2> QED
    BY <1>3, <1>4, <2>1, Zenon
<1>6. (head \o body)[2] = n /\ (n > 0 => (head \o body)[3] = <<c, k, 1>>)
  BY <1>2, <1>3, <1>4, <1>5
<1>7. m = head \o body
  BY <1>1 DEF head, body
<1>8. /\ m \in Seq(Cell) /\ Len(m) = 2 + n
      /\ m[2] = n /\ (n > 0 => m[3] = <<c, k, 1>>)
  BY <1>5, <1>6, <1>7, Zenon
<1> QED
  BY <1>2, <1>8 DEF HEADER, HasBody

\* flow is what is left of the messages s when the first d are taken away.
Frames(s, flow, d) ==
    /\ d \in 0 .. Len(s)
    /\ Len(flow) = Size(s, Len(s)) - Size(s, d)
    /\ \A k \in d + 1 .. Len(s) : \A j \in 1 .. Len(s[k]) :
          flow[Size(s, k - 1) - Size(s, d) + j] = s[k][j]

\* Sending appends a message to the flow.
LEMMA FramesAppend ==
    ASSUME NEW S, NEW s \in Seq(Seq(S)), NEW flow \in Seq(S), NEW d, Frames(s, flow, d),
           NEW m \in Seq(S)
    PROVE  Frames(Append(s, m), flow \o m, d)
<1> DEFINE t == Append(s, m)
           n == Len(s)
<1>1. /\ t \in Seq(Seq(S)) /\ Len(t) = n + 1 /\ n \in Nat
      /\ \A i \in 1 .. n : t[i] = s[i]
      /\ t[n + 1] = m
  BY AppendProperties, LenProperties
<1>2. d \in 0 .. n /\ Len(flow) = Size(s, n) - Size(s, d)
  BY DEF Frames
<1>3. \A k \in 0 .. n : Size(t, k) = Size(s, k) /\ Size(s, k) \in Nat
  BY SizeOfAppend, SizeFacts
<1>4. Size(t, n + 1) = Size(s, n) + Len(m)
  <2>1. Size(t, n + 1) = Size(t, (n + 1) - 1) + Len(t[n + 1])
    <3>1. n + 1 \in 1 .. Len(t)
      BY <1>1
    <3>2. \A k \in 1 .. Len(t) : Size(t, k) = Size(t, k - 1) + Len(t[k])
      <4> HIDE DEF t, n
      <4> QED
        BY <1>1, SizeFacts, Zenon
    <3> HIDE DEF t, n
    <3> QED
      BY <3>1, <3>2
  <2>2. (n + 1) - 1 = n
    BY <1>1
  <2> QED
    BY <1>1, <1>3, <2>1, <2>2
<1>5. Len(m) \in Nat /\ Len(flow \o m) = Len(flow) + Len(m)
  BY LenProperties, ConcatProperties
<1>6. \A i \in 1 .. Len(flow) + Len(m) :
          (flow \o m)[i] = IF i <= Len(flow) THEN flow[i] ELSE m[i - Len(flow)]
  BY ConcatProperties
<1>7. Size(s, d) <= Size(s, n)
  BY <1>1, <1>2, SizeFacts
<1>8. ASSUME NEW k \in d + 1 .. n + 1, NEW j \in 1 .. Len(t[k])
      PROVE  (flow \o m)[Size(t, k - 1) - Size(t, d) + j] = t[k][j]
  <2>1. CASE k = n + 1
    <3>1. Size(t, k - 1) = Size(s, n) /\ Size(t, d) = Size(s, d)
      <4>1. k - 1 = n
        BY <2>1, <1>1
      <4> QED
        BY <4>1, <1>1, <1>2, <1>3
    <3>2. t[k] = m
      BY <2>1, <1>1
    <3> DEFINE i == Size(s, n) - Size(s, d) + j
    <3>3. i = Len(flow) + j /\ j \in 1 .. Len(m) /\ Len(flow) \in Nat
      BY <1>2, <3>2, LenProperties
    <3>4. (flow \o m)[i] = m[j]
      BY <1>5, <1>6, <3>3
    <3> QED
      BY <3>1, <3>2, <3>4
  <2>2. CASE k \in d + 1 .. n
    <3>1. k \in 1 .. n /\ k - 1 \in 0 .. n
      BY <2>2, <1>1, <1>2
    <3>2. t[k] = s[k] /\ Size(t, k - 1) = Size(s, k - 1) /\ Size(t, d) = Size(s, d)
      BY <3>1, <1>1, <1>2, <1>3
    <3>3. Len(s[k]) \in Nat
      BY <3>1, ElementOfSeq, LenProperties
    <3>4. Size(s, k) = Size(s, k - 1) + Len(s[k]) /\ Size(s, k) <= Size(s, n)
      BY <3>1, <1>1, SizeFacts
    <3>5. Size(s, d) <= Size(s, k - 1)
      <4>1. d <= k - 1
        BY <2>2, <1>2, <1>1
      <4> QED
        BY <4>1, <3>1, <1>2, SizeFacts
    <3> DEFINE i == Size(s, k - 1) - Size(s, d) + j
    <3>6. i \in 1 .. Len(flow)
      <4>1. j \in 1 .. Len(s[k])
        BY <3>2
      <4>2. Size(s, k - 1) \in Nat /\ Size(s, k) \in Nat /\ Size(s, d) \in Nat /\ Size(s, n) \in Nat
        <5>1. k - 1 \in 0 .. n /\ k \in 0 .. n /\ d \in 0 .. n /\ n \in 0 .. n
          BY <3>1, <1>1, <1>2
        <5> QED
          BY <5>1, SizeFacts, Zenon
      <4> DEFINE a == Size(s, k - 1)  e == Size(s, k)  f == Size(s, d)  g == Size(s, n)
                 l == Len(s[k])  q == Len(flow)
      <4>3. /\ a \in Nat /\ e \in Nat /\ f \in Nat /\ g \in Nat /\ l \in Nat
            /\ e = a + l /\ e <= g /\ f <= a /\ q = g - f /\ j \in 1 .. l
        BY <4>1, <4>2, <3>3, <3>4, <3>5, <1>2, Zenon
      <4>4. i = a - f + j
        OBVIOUS
      <4> HIDE DEF a, e, f, g, l, q, i
      <4>5. i \in 1 .. q
        BY <4>3, <4>4
      <4> QED
        BY <4>5 DEF q
    <3>7. (flow \o m)[i] = flow[i]
      <4> HIDE DEF i
      <4> QED
        BY <3>6, <1>5, <1>6, LenProperties
    <3>8. flow[i] = s[k][j]
      BY <2>2, <3>2 DEF Frames
    <3> QED
      BY <3>2, <3>7, <3>8
  <2>3. k = n + 1 \/ k \in d + 1 .. n
    <3> HIDE DEF t, n
    <3> QED
      BY <1>1, <1>2
  <2> QED
    BY <2>1, <2>2, <2>3, Zenon
<1>9. Len(flow \o m) = Size(t, Len(t)) - Size(t, d)
  <2>1. Size(t, d) = Size(s, d) /\ Size(s, d) \in Nat /\ Size(s, n) \in Nat
    BY <1>1, <1>2, <1>3
  <2> QED
    BY <1>1, <1>2, <1>4, <1>5, <2>1
<1>10. d \in 0 .. Len(t)
  BY <1>1, <1>2
<1> QED
  BY <1>1, <1>8, <1>9, <1>10 DEF Frames

\* Taking away the first message of the flow.
LEMMA FramesRemove ==
    ASSUME NEW S, NEW s \in Seq(Seq(S)), NEW flow \in Seq(S), NEW d, Frames(s, flow, d),
           d < Len(s)
    PROVE  /\ Len(s[d + 1]) <= Len(flow)
           /\ SubSeq(flow, 1, Len(s[d + 1])) = s[d + 1]
           /\ Frames(s, SubSeq(flow, Len(s[d + 1]) + 1, Len(flow)), d + 1)
<1> DEFINE n == Len(s)
           m == Len(s[d + 1])
           rest == SubSeq(flow, m + 1, Len(flow))
<1>1. n \in Nat /\ d \in Nat /\ d + 1 \in 1 .. n /\ d \in 0 .. n /\ d + 1 \in 0 .. n
  BY LenProperties DEF Frames
<1>2. m \in Nat /\ s[d + 1] \in Seq(S)
  BY <1>1, ElementOfSeq, LenProperties
<1>3. \A k \in 0 .. n : Size(s, k) \in Nat
  BY SizeFacts
<1>4. Size(s, d + 1) = Size(s, d) + m
  <2>1. (d + 1) - 1 = d
    BY <1>1
  <2> QED
    BY <1>1, <2>1, SizeFacts
<1>5. Size(s, d + 1) <= Size(s, n)
  BY <1>1, SizeFacts
<1>6. Len(flow) = Size(s, n) - Size(s, d) /\ Len(flow) \in Nat
  BY LenProperties DEF Frames
<1>7. m <= Len(flow)
  <2> HIDE DEF n, m, rest
  <2>1. {Size(s, d), Size(s, d + 1), Size(s, n)} \subseteq Nat
    BY <1>1, <1>3
  <2> QED
    BY <1>2, <1>4, <1>5, <1>6, <2>1
<1>8. \A i \in 1 .. m : flow[i] = s[d + 1][i]
  <2> SUFFICES ASSUME NEW i \in 1 .. m PROVE flow[i] = s[d + 1][i]
    OBVIOUS
  <2>1. d + 1 \in d + 1 .. n
    BY <1>1
  <2>2. flow[Size(s, (d + 1) - 1) - Size(s, d) + i] = s[d + 1][i]
    BY <2>1 DEF Frames
  <2>3. Size(s, (d + 1) - 1) - Size(s, d) + i = i
    <3>1. (d + 1) - 1 = d
      BY <1>1
    <3>2. Size(s, d) \in Nat /\ i \in Nat
      BY <1>1, <1>2, <1>3
    <3> QED
      BY <3>1, <3>2
  <2> QED
    BY <2>2, <2>3
<1>9. \A i \in 1 .. Len(flow) : flow[i] \in S
  BY ElementOfSeq
<1>10. SubSeq(flow, 1, m) = s[d + 1]
  <2> HIDE DEF rest
  <2>1. \A i \in 1 .. m : flow[i] \in S
    BY <1>2, <1>6, <1>7, <1>9
  <2>2. /\ SubSeq(flow, 1, m) \in Seq(S)
        /\ Len(SubSeq(flow, 1, m)) = m
        /\ \A i \in 1 .. m : SubSeq(flow, 1, m)[i] = flow[i]
    BY <1>2, <2>1, SubSeqProperties
  <2>3. \A i \in 1 .. m : SubSeq(flow, 1, m)[i] = s[d + 1][i]
    BY <2>2, <1>8
  <2> QED
    BY <2>2, <2>3, <1>2, SeqEqual
<1>11. /\ Len(rest) = Len(flow) - m
       /\ \A i \in 1 .. Len(flow) - m : rest[i] = flow[m + i]
  BY <1>2, <1>6, <1>7, <1>9, SubSeqProperties
<1>12. Len(rest) = Size(s, n) - Size(s, d + 1)
  <2> HIDE DEF n, m, rest
  <2>1. {Size(s, d), Size(s, d + 1), Size(s, n)} \subseteq Nat
    BY <1>1, <1>3
  <2> QED
    BY <1>2, <1>4, <1>6, <1>11, <2>1
<1>13. ASSUME NEW k \in (d + 1) + 1 .. n, NEW j \in 1 .. Len(s[k])
       PROVE  rest[Size(s, k - 1) - Size(s, d + 1) + j] = s[k][j]
  <2>1. k \in d + 1 .. n /\ k \in 1 .. n /\ k - 1 \in 0 .. n /\ k \in 0 .. n /\ d + 1 <= k - 1
    BY <1>1
  <2>2. flow[Size(s, k - 1) - Size(s, d) + j] = s[k][j]
    BY <2>1 DEF Frames
  <2>3. Len(s[k]) \in Nat
    BY <2>1, ElementOfSeq, LenProperties
  <2>4. /\ Size(s, k) = Size(s, k - 1) + Len(s[k])
        /\ Size(s, k) <= Size(s, n) /\ Size(s, d + 1) <= Size(s, k - 1)
    <3>1. n \in 0 .. n /\ d + 1 \in 0 .. n /\ k <= n
      BY <2>1, <1>1
    <3>2. Size(s, k) = Size(s, k - 1) + Len(s[k])
      BY <2>1, SizeFacts, Zenon
    <3>3. Size(s, k) <= Size(s, n) /\ Size(s, d + 1) <= Size(s, k - 1)
      BY <2>1, <3>1, SizeFacts, Zenon
    <3> QED
      BY <3>2, <3>3, Zenon
  <2> DEFINE i == Size(s, k - 1) - Size(s, d + 1) + j
  <2>5. /\ Size(s, k - 1) \in Nat /\ Size(s, k) \in Nat
        /\ Size(s, d) \in Nat /\ Size(s, d + 1) \in Nat /\ Size(s, n) \in Nat
    <3>1. d \in 0 .. n /\ d + 1 \in 0 .. n /\ n \in 0 .. n
      BY <1>1
    <3> QED
      BY <2>1, <3>1, SizeFacts, Zenon
  <2> HIDE DEF n, m, rest
  <2>6. i \in 1 .. Len(flow) - m /\ m + i = Size(s, k - 1) - Size(s, d) + j
    <3> DEFINE a == Size(s, k - 1)  e == Size(s, k)  f == Size(s, d)  g == Size(s, d + 1)
               h == Size(s, n)  l == Len(s[k])  q == Len(flow)
    <3>1. /\ a \in Nat /\ e \in Nat /\ f \in Nat /\ g \in Nat /\ h \in Nat /\ l \in Nat
          /\ m \in Nat /\ j \in Nat /\ 1 <= j /\ j <= l
      BY <2>3, <2>5, <1>2
    <3>2. e = a + l /\ e <= h /\ g <= a /\ g = f + m /\ q = h - f
      BY <2>4, <1>4, <1>6
    <3>3. i = a - g + j
      OBVIOUS
    <3> HIDE DEF a, e, f, g, h, l, q, i
    <3>4. i \in 1 .. q - m /\ m + i = a - f + j
      BY <3>1, <3>2, <3>3
    <3> QED
      BY <3>4 DEF a, f, q
  <2>7. rest[i] = flow[m + i]
    BY <2>6, <1>11
  <2> QED
    BY <2>2, <2>6, <2>7
<1> QED
  BY <1>1, <1>7, <1>10, <1>12, <1>13 DEF Frames

\* Nothing sent, nothing in the flow.
LEMMA FramesEmpty == Frames(<<>>, <<>>, 0)
<1>1. <<>> \in Seq(Seq({}))
  OBVIOUS
<1>2. Size(<<>>, 0) = 0
  BY <1>1, SizeFacts
<1> QED
  BY <1>2 DEF Frames

\* Receiving moves cells from the stream to the buffer.
LEMMA FlowReceived ==
    ASSUME NEW S, NEW b \in Seq(S), NEW st \in Seq(S), NEW n \in 1 .. Len(st)
    PROVE  /\ b \o SubSeq(st, 1, n) \in Seq(S)
           /\ SubSeq(st, n + 1, Len(st)) \in Seq(S)
           /\ (b \o SubSeq(st, 1, n)) \o SubSeq(st, n + 1, Len(st)) = b \o st
<1> DEFINE p == SubSeq(st, 1, n)
           q == SubSeq(st, n + 1, Len(st))
           x == b \o p
           u == x \o q
           v == b \o st
<1>1. Len(b) \in Nat /\ Len(st) \in Nat /\ n \in Nat /\ n <= Len(st) /\ n \in 0 .. Len(st)
  BY LenProperties
<1>2. /\ p \in Seq(S) /\ Len(p) = n /\ \A i \in 1 .. n : p[i] = st[i]
      /\ q \in Seq(S) /\ Len(q) = Len(st) - n /\ \A i \in 1 .. Len(st) - n : q[i] = st[n + i]
  <2>1. IsFirst(S, st, n, p) /\ IsRest(S, st, n, q)
    BY <1>1, CutSeq, Zenon
  <2> QED
    BY <2>1, Zenon DEF IsFirst, IsRest
<1> HIDE DEF p, q
<1>3. /\ x \in Seq(S) /\ Len(x) = Len(b) + Len(p)
      /\ \A i \in 1 .. Len(b) + Len(p) : x[i] = IF i <= Len(b) THEN b[i] ELSE p[i - Len(b)]
  BY <1>2, ConcatProperties, Zenon
<1> HIDE DEF x
<1>4. /\ u \in Seq(S) /\ Len(u) = Len(x) + Len(q)
      /\ \A i \in 1 .. Len(x) + Len(q) : u[i] = IF i <= Len(x) THEN x[i] ELSE q[i - Len(x)]
  <2>1. x \in Seq(S) /\ q \in Seq(S)
    BY <1>2, <1>3
  <2> QED
    BY <2>1, ConcatProperties, Zenon
<1>5. /\ v \in Seq(S) /\ Len(v) = Len(b) + Len(st)
      /\ \A i \in 1 .. Len(b) + Len(st) : v[i] = IF i <= Len(b) THEN b[i] ELSE st[i - Len(b)]
  BY ConcatProperties, Zenon
<1> HIDE DEF u, v
<1>6. Len(x) = Len(b) + n /\ Len(u) = Len(b) + Len(st) /\ Len(u) = Len(v)
  BY <1>1, <1>2, <1>3, <1>4, <1>5
<1>7. ASSUME NEW i \in 1 .. Len(u) PROVE u[i] = v[i]
  <2>1. i \in 1 .. Len(x) + Len(q) /\ i \in 1 .. Len(b) + Len(st)
    BY <1>4, <1>6
  <2>2. u[i] = IF i <= Len(x) THEN x[i] ELSE q[i - Len(x)]
    BY <2>1, <1>4, Zenon
  <2>3. v[i] = IF i <= Len(b) THEN b[i] ELSE st[i - Len(b)]
    BY <2>1, <1>5, Zenon
  <2>4. CASE i <= Len(x)
    <3>1. i \in 1 .. Len(b) + Len(p)
      BY <2>1, <2>4, <1>1, <1>2, <1>6
    <3>2. x[i] = IF i <= Len(b) THEN b[i] ELSE p[i - Len(b)]
      BY <3>1, <1>3, Zenon
    <3>3. CASE i <= Len(b)
      BY <3>2, <3>3, <2>2, <2>3, <2>4, Zenon
    <3>4. CASE ~ (i <= Len(b))
      <4>1. i - Len(b) \in 1 .. n
        BY <3>4, <2>1, <2>4, <1>1, <1>6
      <4> QED
        BY <4>1, <3>2, <3>4, <2>2, <2>3, <2>4, <1>2, Zenon
    <3> QED
      BY <3>3, <3>4
  <2>5. CASE ~ (i <= Len(x))
    <3>1. i - Len(x) \in 1 .. Len(st) - n /\ ~ (i <= Len(b)) /\ n + (i - Len(x)) = i - Len(b)
      BY <2>1, <2>5, <1>1, <1>6
    <3>2. q[i - Len(x)] = st[n + (i - Len(x))]
      BY <3>1, <1>2, Zenon
    <3> QED
      BY <3>1, <3>2, <2>2, <2>3, <2>5, Zenon
  <2> QED
    BY <2>4, <2>5
<1>8. u = v
  BY <1>4, <1>5, <1>6, <1>7, SeqEqual, Zenon
<1> QED
  BY <1>2, <1>3, <1>8 DEF p, q, x, u, v

\* Removing from the buffer removes from the flow.
CutBeforeOrAfter(b, st, n) ==
    SubSeq(b, n + 1, Len(b)) \o st = SubSeq(b \o st, n + 1, Len(b \o st))

\* The buffer may be cut before or after the stream is joined to it.
LEMMA FlowRemoved ==
    ASSUME NEW S, NEW b \in Seq(S), NEW st \in Seq(S), NEW n \in 0 .. Len(b)
    PROVE  CutBeforeOrAfter(b, st, n)
<1> DEFINE r == SubSeq(b, n + 1, Len(b))
           flow == b \o st
           u == r \o st
           v == SubSeq(flow, n + 1, Len(flow))
<1>1. Len(b) \in Nat /\ Len(st) \in Nat /\ n \in Nat /\ n <= Len(b)
  BY LenProperties
<1>2. r \in Seq(S) /\ Len(r) = Len(b) - n /\ \A i \in 1 .. Len(b) - n : r[i] = b[n + i]
  <2>1. IsRest(S, b, n, r)
    BY CutSeq, Zenon
  <2> QED
    BY <2>1, Zenon DEF IsRest
<1>3. /\ flow \in Seq(S) /\ Len(flow) = Len(b) + Len(st)
      /\ \A i \in 1 .. Len(b) + Len(st) : flow[i] = IF i <= Len(b) THEN b[i] ELSE st[i - Len(b)]
  BY ConcatProperties, Zenon
<1> HIDE DEF r, flow
<1>4. /\ u \in Seq(S) /\ Len(u) = Len(r) + Len(st)
      /\ \A i \in 1 .. Len(r) + Len(st) : u[i] = IF i <= Len(r) THEN r[i] ELSE st[i - Len(r)]
  BY <1>2, ConcatProperties, Zenon
<1>5. n \in 0 .. Len(flow)
  BY <1>1, <1>3
<1>6. v \in Seq(S) /\ Len(v) = Len(flow) - n /\ \A i \in 1 .. Len(flow) - n : v[i] = flow[n + i]
  <2>1. IsRest(S, flow, n, v)
    BY <1>3, <1>5, CutSeq, Zenon
  <2> QED
    BY <2>1, Zenon DEF IsRest
<1> HIDE DEF u, v
<1>7. Len(u) = Len(v) /\ Len(u) = Len(b) - n + Len(st)
  BY <1>1, <1>2, <1>3, <1>4, <1>6
<1>8. ASSUME NEW i \in 1 .. Len(u) PROVE u[i] = v[i]
  <2>1. i \in 1 .. Len(flow) - n /\ n + i \in 1 .. Len(b) + Len(st) /\ i \in 1 .. Len(r) + Len(st)
    BY <1>1, <1>2, <1>3, <1>7
  <2>2. v[i] = IF n + i <= Len(b) THEN b[n + i] ELSE st[n + i - Len(b)]
    <3>1. v[i] = flow[n + i]
      BY <2>1, <1>6
    <3>2. flow[n + i] = IF n + i <= Len(b) THEN b[n + i] ELSE st[n + i - Len(b)]
      BY <2>1, <1>3
    <3> QED
      BY <3>1, <3>2, Zenon
  <2>3. u[i] = IF i <= Len(r) THEN r[i] ELSE st[i - Len(r)]
    BY <2>1, <1>4, Zenon
  <2>4. CASE i <= Len(r)
    <3>1. n + i <= Len(b) /\ i \in 1 .. Len(b) - n
      BY <2>1, <2>4, <1>1, <1>2
    <3> QED
      BY <3>1, <2>2, <2>3, <2>4, <1>2, Zenon
  <2>5. CASE ~ (i <= Len(r))
    <3>1. ~ (n + i <= Len(b)) /\ n + i - Len(b) = i - Len(r)
      BY <2>1, <2>5, <1>1, <1>2
    <3> QED
      BY <3>1, <2>2, <2>3, <2>5, Zenon
  <2> QED
    BY <2>4, <2>5
<1>9. u = v
  BY <1>4, <1>6, <1>7, <1>8, SeqEqual, Zenon
<1> QED
  BY <1>9 DEF CutBeforeOrAfter, r, flow, u, v

\* The messages that the clients sent.
SentOK(s) ==
    /\ s \in [Clients -> Seq(Seq(Cell))]
    /\ \A c \in Clients : \A k \in 1 .. Len(s[c]) : IsMessage(c, k, s[c][k])

\* wr holds the first w[c] messages of each client c, each client's in their order.
KeptIn(wr, s, w) ==
    /\ w \in [Clients -> Nat]
    /\ \A c \in Clients : w[c] <= Len(s[c])
    /\ \A i \in 1 .. Len(wr) : \E c \in Clients : \E k \in 1 .. w[c] : wr[i] = s[c][k]
    /\ \A i, j \in 1 .. Len(wr) :
          i < j /\ HasBody(wr[i]) /\ HasBody(wr[j]) /\ wr[i][3][1] = wr[j][3][1]
             => wr[i][3][2] < wr[j][3][2]
    /\ \A c \in Clients : \A k \in 1 .. w[c] :
          HasBody(s[c][k]) => \E i \in 1 .. Len(wr) : wr[i] = s[c][k]

\* A body tells whose message it is and which.
LEMMA KeptBody ==
    ASSUME NEW s, SentOK(s), NEW w, NEW wr, KeptIn(wr, s, w), NEW i \in 1 .. Len(wr), HasBody(wr[i])
    PROVE  \E c \in Clients : \E k \in 1 .. w[c] : wr[i] = s[c][k] /\ wr[i][3] = <<c, k, 1>>
<1>1. PICK c \in Clients : \E k \in 1 .. w[c] : wr[i] = s[c][k]
  BY DEF KeptIn
<1>2. PICK k \in 1 .. w[c] : wr[i] = s[c][k]
  BY <1>1
<1>3. s[c] \in Seq(Seq(Cell)) /\ w[c] \in Nat /\ w[c] <= Len(s[c])
  BY DEF SentOK, KeptIn
<1>4. Len(s[c]) \in Nat
  BY <1>3, LenProperties
<1>5. k \in 1 .. Len(s[c]) /\ k \in Nat
  BY <1>3, <1>4
<1>6. IsMessage(c, k, wr[i])
  BY <1>2, <1>5 DEF SentOK
<1> QED
  BY <1>2, <1>5, <1>6, MessageShape

\* The next message of a client is written.
LEMMA KeptAppend ==
    ASSUME NEW s, SentOK(s), NEW w, NEW wr \in Seq(Seq(Cell)), KeptIn(wr, s, w),
           NEW c \in Clients, w[c] < Len(s[c])
    PROVE  KeptIn(Append(wr, s[c][w[c] + 1]), s, [w EXCEPT ![c] = @ + 1])
<1>0. ASSUME NEW i \in 1 .. Len(wr), HasBody(wr[i])
      PROVE  \E e \in Clients : \E k \in 1 .. w[e] : wr[i] = s[e][k] /\ wr[i][3] = <<e, k, 1>>
  BY <1>0, KeptBody
<1>a. w \in [Clients -> Nat] /\ \A e \in Clients : w[e] <= Len(s[e])
  BY DEF KeptIn
<1> DEFINE m == s[c][w[c] + 1]
           wr2 == Append(wr, m)
           w2 == [w EXCEPT ![c] = @ + 1]
           n == Len(wr)
<1>1. s[c] \in Seq(Seq(Cell)) /\ Len(s[c]) \in Nat /\ w[c] + 1 \in 1 .. Len(s[c]) /\ w[c] + 1 \in Nat
  <2>1. s[c] \in Seq(Seq(Cell))
    BY DEF SentOK
  <2> QED
    BY <2>1, <1>a, LenProperties
<1>2. m \in Seq(Cell) /\ (HasBody(m) => m[3] = <<c, w[c] + 1, 1>>)
  BY <1>1, MessageShape DEF SentOK
<1>3. /\ Len(wr2) = n + 1 /\ n \in Nat
      /\ \A i \in 1 .. n : wr2[i] = wr[i]
      /\ wr2[n + 1] = m
  BY <1>2, AppendProperties, LenProperties
<1>4. \A e \in Clients : w[e] \in Nat /\ w2[e] = IF e = c THEN w[c] + 1 ELSE w[e]
  BY <1>a
<1>5. \A e \in Clients : \A k \in 1 .. w2[e] : k \in 1 .. w[e] \/ (e = c /\ k = w[c] + 1)
  BY <1>4
<1>6. \A e \in Clients : \A k \in 1 .. w[e] : k \in 1 .. w2[e]
  BY <1>4
<1>7. w[c] + 1 \in 1 .. w2[c]
  BY <1>4
<1>8. \A i \in 1 .. n + 1 : i \in 1 .. n \/ i = n + 1
  BY <1>3
<1>9. \A i \in 1 .. n : i \in 1 .. n + 1
  BY <1>3
<1>10. n + 1 \in 1 .. n + 1
  BY <1>3
<1> HIDE DEF wr2, w2, n, m
<1>11. ASSUME NEW i \in 1 .. n + 1
       PROVE  \E e \in Clients : \E k \in 1 .. w2[e] : wr2[i] = s[e][k]
  <2>1. CASE i = n + 1
    BY <2>1, <1>3, <1>7 DEF m
  <2>2. CASE i \in 1 .. n
    <3>1. PICK e \in Clients : \E k \in 1 .. w[e] : wr[i] = s[e][k]
      BY <2>2 DEF KeptIn, n
    <3>2. PICK k \in 1 .. w[e] : wr[i] = s[e][k]
      BY <3>1
    <3> QED
      BY <2>2, <3>2, <1>3, <1>6, Zenon
  <2> QED
    BY <2>1, <2>2, <1>8
<1>12. ASSUME NEW i \in 1 .. n + 1, NEW j \in 1 .. n + 1, i < j, HasBody(wr2[i]),
              HasBody(wr2[j]), wr2[i][3][1] = wr2[j][3][1]
       PROVE  wr2[i][3][2] < wr2[j][3][2]
  <2>1. i \in 1 .. n
    BY <1>3, <1>12
  <2>2. CASE j \in 1 .. n
    BY <2>1, <2>2, <1>3, <1>12 DEF KeptIn, n
  <2>3. CASE j = n + 1
    <3>1. wr2[i] = wr[i] /\ wr2[j] = m
      BY <2>1, <2>3, <1>3
    <3>2. m[3] = <<c, w[c] + 1, 1>>
      BY <3>1, <1>2, <1>12
    <3>3. PICK e \in Clients : \E k \in 1 .. w[e] : wr[i] = s[e][k] /\ wr[i][3] = <<e, k, 1>>
      <4>1. i \in 1 .. Len(wr) /\ HasBody(wr[i])
        BY <2>1, <3>1, <1>12, Zenon DEF n
      <4> QED
        BY <4>1, <1>0, Zenon
    <3>4. PICK k \in 1 .. w[e] : wr[i] = s[e][k] /\ wr[i][3] = <<e, k, 1>>
      BY <3>3
    <3>5. e = c
      BY <3>1, <3>2, <3>4, <1>12
    <3>6. k < w[c] + 1
      BY <3>5, <1>4
    <3> QED
      BY <3>1, <3>2, <3>4, <3>6
  <2> QED
    BY <2>2, <2>3, <1>8
<1>13. ASSUME NEW e \in Clients, NEW k \in 1 .. w2[e], HasBody(s[e][k])
       PROVE  \E i \in 1 .. n + 1 : wr2[i] = s[e][k]
  <2>1. CASE e = c /\ k = w[c] + 1
    BY <2>1, <1>3, <1>10 DEF m
  <2>2. CASE k \in 1 .. w[e]
    <3>1. PICK i \in 1 .. n : wr[i] = s[e][k]
      BY <2>2, <1>13 DEF KeptIn, n
    <3> QED
      BY <3>1, <1>3, <1>9, Zenon
  <2> QED
    BY <2>1, <2>2, <1>5
<1>14. KeptIn(wr2, s, w2)
  <2>1. Len(wr2) = n + 1
    BY <1>3
  <2>2. \A i \in 1 .. Len(wr2) : \E e \in Clients : \E k \in 1 .. w2[e] : wr2[i] = s[e][k]
    BY <2>1, <1>11
  <2>3. \A i, j \in 1 .. Len(wr2) :
          i < j /\ HasBody(wr2[i]) /\ HasBody(wr2[j]) /\ wr2[i][3][1] = wr2[j][3][1]
             => wr2[i][3][2] < wr2[j][3][2]
    BY <2>1, <1>12
  <2>4. \A e \in Clients : \A k \in 1 .. w2[e] :
          HasBody(s[e][k]) => \E i \in 1 .. Len(wr2) : wr2[i] = s[e][k]
    BY <2>1, <1>13
  <2>5. w2 \in [Clients -> Nat]
    BY <1>a DEF w2
  <2>6. \A e \in Clients : w2[e] <= Len(s[e])
    <3> SUFFICES ASSUME NEW e \in Clients PROVE w2[e] <= Len(s[e])
      OBVIOUS
    <3>1. CASE e = c
      BY <3>1, <1>1, <1>4
    <3>2. CASE e # c
      BY <3>2, <1>a, <1>4
    <3> QED
      BY <3>1, <3>2
  <2> QED
    BY <2>2, <2>3, <2>4, <2>5, <2>6 DEF KeptIn
<1> QED
  BY <1>14 DEF wr2, w2, m

\* A message more that is not yet written.
LEMMA KeptSend ==
    ASSUME NEW s, SentOK(s), NEW w, NEW wr, KeptIn(wr, s, w), NEW c \in Clients, NEW m \in Seq(Cell),
           IsMessage(c, Len(s[c]) + 1, m)
    PROVE  /\ SentOK([s EXCEPT ![c] = Append(@, m)])
           /\ KeptIn(wr, [s EXCEPT ![c] = Append(@, m)], w)
<1>a. w \in [Clients -> Nat] /\ \A e \in Clients : w[e] <= Len(s[e])
  BY DEF KeptIn
<1> DEFINE s2 == [s EXCEPT ![c] = Append(@, m)]
<1>1. \A e \in Clients : s[e] \in Seq(Seq(Cell)) /\ Len(s[e]) \in Nat
  BY LenProperties DEF SentOK
<1>2. \A e \in Clients : s2[e] = IF e = c THEN Append(s[c], m) ELSE s[e]
  BY DEF SentOK
<1>3. /\ Append(s[c], m) \in Seq(Seq(Cell)) /\ Len(Append(s[c], m)) = Len(s[c]) + 1
      /\ \A i \in 1 .. Len(s[c]) : Append(s[c], m)[i] = s[c][i]
      /\ Append(s[c], m)[Len(s[c]) + 1] = m
  BY <1>1, AppendProperties
<1>4. s2 \in [Clients -> Seq(Seq(Cell))]
  BY <1>3 DEF SentOK
<1>5. ASSUME NEW e \in Clients, NEW k \in 1 .. Len(s2[e]) PROVE IsMessage(e, k, s2[e][k])
  <2>1. CASE e = c /\ k = Len(s[c]) + 1
    BY <2>1, <1>2, <1>3
  <2>2. CASE ~ (e = c /\ k = Len(s[c]) + 1)
    <3>1. k \in 1 .. Len(s[e]) /\ s2[e][k] = s[e][k]
      <4>1. CASE e = c
        <5>1. s2[c] = Append(s[c], m)
          BY <1>2
        <5>2. k \in 1 .. Len(s[c]) + 1 /\ k # Len(s[c]) + 1
          BY <4>1, <5>1, <1>3, <2>2
        <5>3. k \in 1 .. Len(s[c])
          BY <5>2, <1>1
        <5> QED
          BY <4>1, <5>1, <5>3, <1>3
      <4>2. CASE e # c
        BY <4>2, <1>2
      <4> QED
        BY <4>1, <4>2
    <3> QED
      BY <3>1 DEF SentOK
  <2> QED
    BY <2>1, <2>2
<1>6. ASSUME NEW e \in Clients, NEW k \in 1 .. w[e] PROVE s2[e][k] = s[e][k]
  <2>1. k \in 1 .. Len(s[e])
    BY <1>1, <1>a
  <2> QED
    BY <2>1, <1>2, <1>3
<1> HIDE DEF s2
<1>7. KeptIn(wr, s2, w)
  <2>1. \A i \in 1 .. Len(wr) : \E e \in Clients : \E k \in 1 .. w[e] : wr[i] = s2[e][k]
    <3> SUFFICES ASSUME NEW i \in 1 .. Len(wr)
                 PROVE  \E e \in Clients : \E k \in 1 .. w[e] : wr[i] = s2[e][k]
      OBVIOUS
    <3>1. PICK e \in Clients : \E k \in 1 .. w[e] : wr[i] = s[e][k]
      BY DEF KeptIn
    <3>2. PICK k \in 1 .. w[e] : wr[i] = s[e][k]
      BY <3>1
    <3>3. wr[i] = s2[e][k]
      BY <3>2, <1>6
    <3> QED
      BY <3>3
  <2>2. \A e \in Clients : \A k \in 1 .. w[e] :
          HasBody(s2[e][k]) => \E i \in 1 .. Len(wr) : wr[i] = s2[e][k]
    <3> SUFFICES ASSUME NEW e \in Clients, NEW k \in 1 .. w[e], HasBody(s2[e][k])
                 PROVE  \E i \in 1 .. Len(wr) : wr[i] = s2[e][k]
      OBVIOUS
    <3>1. s2[e][k] = s[e][k]
      BY <1>6
    <3>2. HasBody(s[e][k])
      BY <3>1
    <3>3. \E i \in 1 .. Len(wr) : wr[i] = s[e][k]
      BY <3>2 DEF KeptIn
    <3> QED
      BY <3>1, <3>3, Zenon
  <2>3. \A e \in Clients : w[e] <= Len(s2[e])
    <3>1. \A e \in Clients : Len(s2[e]) = IF e = c THEN Len(s[c]) + 1 ELSE Len(s[e])
      BY <1>2, <1>3
    <3> QED
      BY <3>1, <1>1, <1>a
  <2> QED
    BY <2>1, <2>2, <2>3 DEF KeptIn
<1> QED
  BY <1>4, <1>5, <1>7 DEF SentOK, s2

-----------------------------------------------------------------------------
(* The inductive invariant.                                                 *)

\* The places of the server thread: all, in WriteMessage or Remove, after the Write.
PcValues == {"idle", "parse", "open", "write", "limit", "commit", "reset", "remove",
             "stopped", "crashed"}
InWriteMessage == {"open", "write", "limit", "commit", "reset", "remove"}
AfterWrite == {"limit", "commit", "reset", "remove"}

\* A FileTransaction as the server sees it.
Transactions == [name : Nat, isOpened : BOOLEAN, content : Seq(Seq(Cell))]

\* The connections, with the messages that the clients sent over them.
NetInv ==
    /\ pc \in PcValues
    /\ serving \in Clients
    /\ now \in 1 .. MaxTime
    /\ SentOK(sent)
    /\ buffer \in [Clients -> Seq(Cell)]
    /\ stream \in [Clients -> Seq(Cell)]
    /\ connected \in [Clients -> BOOLEAN]

\* outputStream_ is null or a transaction, closed between its Commit and its reset;
\* it is open, and not null in WriteMessage, unless a call failed or a signal came.
IoInv ==
    /\ outputStream = <<>> \/ \E t \in Transactions : outputStream = <<t>>
    /\ history \in Seq(Seq(Cell))
    /\ terminated = FALSE
    /\ faults \in Nat /\ signals \in Nat
    /\ (pc = "reset" /\ outputStream # <<>>) => ~outputStream[1].isOpened
    /\ (signals = 0 /\ faults = 0) =>
          /\ (outputStream # <<>> /\ pc # "reset") => outputStream[1].isOpened
          /\ pc \in {"write", "limit", "commit"} => outputStream # <<>>
    /\ CrashesOnlyAfterFault

\* The open transaction is named after the second it was opened in, which is later
\* than the name of every committed file.
NameInv ==
    /\ outputFileTime \in 0 .. now
    /\ DOMAIN files \subseteq 1 .. now
    /\ outputStream # <<>> => outputStream[1].name \in 1 .. now
    /\ pc = "commit" => now > outputFileTime
    /\ signals = 0 =>
          /\ \A t \in DOMAIN files : t < now
          /\ (outputStream # <<>> /\ pc # "reset") =>
                /\ outputStream[1].name = outputFileTime
                /\ \A t \in DOMAIN files : t < outputStream[1].name

\* A buffer whose message WriteMessage may take.
Ready(b) == IsComplete(b) /\ IsMagicValid(b)

\* Of the messages of c the first d are removed from its buffer and the first w
\* are written.
ClientInv(c, d, w) ==
    /\ Frames(sent[c], buffer[c] \o stream[c], d)
    /\ \A i \in 1 .. d : Valid(sent[c][i])
    /\ w = d \/ (w = d + 1 /\ Ready(buffer[c]))
    /\ (connected[c] /\ (serving # c \/ pc = "idle")) => (w = d /\ ~IsComplete(buffer[c]))
    /\ (serving = c /\ pc \in {"parse", "open", "write"}) => w = d
    /\ (serving = c /\ pc \in AfterWrite) => w = d + 1

\* The client that is served is connected, and WriteMessage has a whole message.
ServingInv ==
    /\ pc \in {"parse"} \cup InWriteMessage => connected[serving]
    /\ pc \in InWriteMessage => Ready(buffer[serving])

\* The account: see ClientInv and KeptIn.
KeptInv ==
    pc # "crashed" =>
      \E d, w \in [Clients -> Nat] :
        /\ KeptIn(Written, sent, w)
        /\ \A c \in Clients : ClientInv(c, d[c], w[c])

\* The inductive invariant.
StatsInv == NetInv /\ IoInv /\ NameInv /\ ServingInv /\ KeptInv

\* The transaction in outputStream_.
LEMMA Opened ==
    ASSUME IoInv, outputStream # <<>>
    PROVE  outputStream = <<outputStream[1]>> /\ outputStream[1] \in Transactions
  BY DEF IoInv

\* The header in a client's buffer is that of the message the server waits for.
LEMMA HeadOfBuffer ==
    ASSUME NetInv, NEW c \in Clients, NEW d, Frames(sent[c], buffer[c] \o stream[c], d)
    PROVE  /\ Len(buffer[c]) > 0 => d < Len(sent[c])
           /\ d < Len(sent[c]) => (IsComplete(buffer[c]) <=> Len(sent[c][d + 1]) <= Len(buffer[c]))
           /\ IsComplete(buffer[c]) =>
                 /\ TotalSize(buffer[c]) = Len(sent[c][d + 1])
                 /\ TotalSize(buffer[c]) \in Nat
                 /\ buffer[c][1] = sent[c][d + 1][1]
                 /\ Message(buffer[c]) = sent[c][d + 1]
<1> DEFINE s == sent[c]
           b == buffer[c]
           st == stream[c]
<1>0. /\ s \in Seq(Seq(Cell)) /\ b \in Seq(Cell) /\ st \in Seq(Cell)
      /\ Frames(s, b \o st, d)
      /\ \A k \in 1 .. Len(s) : IsMessage(c, k, s[k])
  BY DEF NetInv, SentOK
<1> HIDE DEF s, b, st
<1>1. d \in 0 .. Len(s) /\ Len(s) \in Nat /\ Len(b) \in Nat /\ Len(st) \in Nat
  BY <1>0, LenProperties DEF Frames
<1>2. b \o st \in Seq(Cell) /\ Len(b \o st) = Len(b) + Len(st)
  BY <1>0, ConcatProperties
<1>3. \A i \in 1 .. Len(b) : (b \o st)[i] = b[i]
  <2>1. \A i \in 1 .. Len(b) + Len(st) : (b \o st)[i] = IF i <= Len(b) THEN b[i] ELSE st[i - Len(b)]
    BY <1>0, ConcatProperties
  <2> QED
    BY <1>1, <2>1
<1>4. Len(b) > 0 => d < Len(s)
  <2> SUFFICES ASSUME d = Len(s) PROVE Len(b) = 0
    BY <1>1
  <2>1. Len(b \o st) = Size(s, Len(s)) - Size(s, Len(s))
    BY <1>0 DEF Frames
  <2>2. Size(s, Len(s)) \in Nat
    BY <1>0, <1>1, SizeFacts
  <2> QED
    BY <1>1, <1>2, <2>1, <2>2
<1>5. ASSUME d < Len(s)
      PROVE  /\ IsComplete(b) <=> Len(s[d + 1]) <= Len(b)
             /\ IsComplete(b) => /\ TotalSize(b) = Len(s[d + 1])
                                 /\ TotalSize(b) \in Nat
                                 /\ b[1] = s[d + 1][1]
                                 /\ Message(b) = s[d + 1]
  <2> DEFINE m == s[d + 1]
  <2>1. d + 1 \in 1 .. Len(s) /\ d + 1 \in Nat
    BY <1>1, <1>5
  <2>2. m \in Seq(Cell) /\ m[2] \in Nat /\ Len(m) = HEADER + m[2]
    BY <1>0, <2>1, MessageShape
  <2>3. Len(m) <= Len(b \o st) /\ SubSeq(b \o st, 1, Len(m)) = m
    BY <1>0, <1>2, <1>5, FramesRemove
  <2> HIDE DEF m
  <2>5. \A i \in 1 .. Len(m) : (b \o st)[i] = m[i]
    <3>1. Len(m) \in 0 .. Len(b \o st)
      BY <2>2, <2>3, <1>1, <1>2 DEF HEADER
    <3>2. \A i \in 1 .. Len(m) : SubSeq(b \o st, 1, Len(m))[i] = (b \o st)[i]
      <4>1. IsFirst(Cell, b \o st, Len(m), SubSeq(b \o st, 1, Len(m)))
        BY <1>0, <3>1, <1>2, CutSeq, Zenon
      <4> QED
        BY <4>1, Zenon DEF IsFirst
    <3> QED
      BY <2>3, <3>2, Zenon
  <2>6. \A i \in 1 .. Len(m) : i <= Len(b) => b[i] = m[i]
    BY <2>2, <2>5, <1>1, <1>3 DEF HEADER
  <2>7. Len(b) >= 2 => b[2] = m[2] /\ b[1] = m[1]
    <3> SUFFICES ASSUME Len(b) >= 2 PROVE b[2] = m[2] /\ b[1] = m[1]
      OBVIOUS
    <3>1. 1 \in 1 .. Len(m) /\ 2 \in 1 .. Len(m)
      BY <2>2 DEF HEADER
    <3>2. 1 <= Len(b) /\ 2 <= Len(b)
      BY <1>1
    <3> QED
      BY <2>6, <3>1, <3>2, Zenon
  <2>8. IsComplete(b) <=> Len(m) <= Len(b)
    BY <2>2, <2>7, <1>1 DEF IsComplete, TotalSize, HEADER
  <2>9. IsComplete(b) => TotalSize(b) = Len(m) /\ TotalSize(b) \in Nat /\ b[1] = m[1]
    BY <2>2, <2>7, <1>1 DEF IsComplete, TotalSize, HEADER
  <2>10. ASSUME IsComplete(b) PROVE Message(b) = m
    <3>1. Message(b) = SubSeq(b, 1, Len(m)) /\ Len(m) <= Len(b) /\ Len(m) \in Nat
      BY <2>2, <2>8, <2>9, <2>10 DEF Message, HEADER
    <3>2. Len(m) \in 0 .. Len(b)
      BY <3>1, <1>1
    <3>3. /\ SubSeq(b, 1, Len(m)) \in Seq(Cell)
          /\ Len(SubSeq(b, 1, Len(m))) = Len(m)
          /\ \A i \in 1 .. Len(m) : SubSeq(b, 1, Len(m))[i] = b[i]
      <4>1. IsFirst(Cell, b, Len(m), SubSeq(b, 1, Len(m)))
        BY <1>0, <3>2, CutSeq, Zenon
      <4> QED
        BY <4>1, Zenon DEF IsFirst
    <3>4. \A i \in 1 .. Len(m) : SubSeq(b, 1, Len(m))[i] = m[i]
      <4>1. \A i \in 1 .. Len(m) : i <= Len(b)
        BY <3>1, <1>1
      <4> QED
        BY <4>1, <3>3, <2>6, Zenon
    <3> QED
      BY <3>1, <3>3, <3>4, <2>2, SeqEqual
  <2> QED
    BY <2>8, <2>9, <2>10 DEF m
<1>6. IsComplete(b) => Len(b) > 0
  BY <1>1 DEF IsComplete, HEADER
<1> QED
  BY <1>4, <1>5, <1>6 DEF s, b, st

\* The message that WriteMessage is called with is the next one of its client.
LEMMA Served ==
    ASSUME NetInv, NEW c \in Clients, NEW d, NEW w, ClientInv(c, d, w), Ready(buffer[c])
    PROVE  /\ d \in Nat /\ d < Len(sent[c]) /\ Len(sent[c]) \in Nat
           /\ sent[c][d + 1] \in Seq(Cell)
           /\ Message(buffer[c]) = sent[c][d + 1]
           /\ TotalSize(buffer[c]) = Len(sent[c][d + 1])
           /\ TotalSize(buffer[c]) \in 0 .. Len(buffer[c])
           /\ Valid(sent[c][d + 1])
<1>1. /\ sent[c] \in Seq(Seq(Cell)) /\ buffer[c] \in Seq(Cell) /\ stream[c] \in Seq(Cell)
      /\ \A k \in 1 .. Len(sent[c]) : IsMessage(c, k, sent[c][k])
  BY DEF NetInv, SentOK
<1>2. Frames(sent[c], buffer[c] \o stream[c], d)
  BY DEF ClientInv
<1>3. Len(buffer[c]) \in Nat /\ Len(sent[c]) \in Nat /\ d \in 0 .. Len(sent[c])
  BY <1>1, <1>2, LenProperties DEF Frames
<1>4. IsComplete(buffer[c]) /\ buffer[c][1] = MAGIC /\ Len(buffer[c]) > 0
  BY <1>3 DEF Ready, IsMagicValid, IsComplete, HEADER
<1>5. /\ d < Len(sent[c])
      /\ TotalSize(buffer[c]) = Len(sent[c][d + 1])
      /\ TotalSize(buffer[c]) \in Nat
      /\ buffer[c][1] = sent[c][d + 1][1]
      /\ Message(buffer[c]) = sent[c][d + 1]
  BY <1>2, <1>4, HeadOfBuffer, Zenon
<1>6. TotalSize(buffer[c]) \in 0 .. Len(buffer[c])
  BY <1>3, <1>4, <1>5 DEF IsComplete
<1>7. sent[c][d + 1] \in Seq(Cell)
  BY <1>1, <1>3, <1>5, ElementOfSeq
<1> QED
  BY <1>3, <1>4, <1>5, <1>6, <1>7 DEF Valid

\* WriteMessage is called with a whole message.
LEMMA ServedMessage ==
    ASSUME StatsInv, pc \in InWriteMessage
    PROVE  /\ Message(buffer[serving]) \in Seq(Cell)
           /\ TotalSize(buffer[serving]) \in 0 .. Len(buffer[serving])
<1>1. Ready(buffer[serving]) /\ serving \in Clients /\ pc # "crashed"
  BY DEF StatsInv, ServingInv, NetInv, InWriteMessage
<1>2. PICK d \in [Clients -> Nat], w \in [Clients -> Nat] :
          \A c \in Clients : ClientInv(c, d[c], w[c])
  BY <1>1 DEF StatsInv, KeptInv
<1>3. ClientInv(serving, d[serving], w[serving])
  BY <1>1, <1>2
<1> QED
  BY <1>1, <1>3, Served DEF StatsInv

\* The invariant about the transaction holds in every step.
LEMMA IoStep ==
    ASSUME StatsInv, [Next]_vars
    PROVE  IoInv'
<1>0. NetInv /\ IoInv
  BY DEF StatsInv
<1> USE <1>0 DEF IoInv, CrashesOnlyAfterFault, Transactions, NetInv
<1>1. CASE UNCHANGED vars
  BY <1>1 DEF vars, ioVars
<1>2. ASSUME NEW c \in Clients, Send(c) PROVE IoInv'
  BY <1>2 DEF Send, ioVars
<1>3. CASE Tick
  BY <1>3 DEF Tick, ioVars
<1>4. CASE OnDataReceived
  BY <1>4 DEF OnDataReceived, ioVars
<1>5. CASE SelectTimeout
  BY <1>5 DEF SelectTimeout, ioVars
<1>6. CASE Parse
  BY <1>6 DEF Parse, ioVars, Disconnect
<1>7. CASE OpenIfNull
  <2>1. CASE outputStream = <<>>
    <3> DEFINE t == [name |-> now, isOpened |-> TRUE, content |-> <<>>]
    <3>1. t \in Transactions /\ outputStream' = <<t>> /\ outputStream'[1].isOpened
      BY <2>1, <1>7 DEF OpenIfNull
    <3> QED
      BY <3>1, <1>7 DEF OpenIfNull
  <2>2. CASE outputStream # <<>>
    BY <2>2, <1>7 DEF OpenIfNull
  <2> QED
    BY <2>1, <2>2
<1>8. CASE Write
  <2> DEFINE t == [outputStream[1] EXCEPT !.content = Append(@, Message(buffer[serving]))]
  <2>1. Message(buffer[serving]) \in Seq(Cell)
    BY <1>8, ServedMessage DEF Write, InWriteMessage
  <2>2. outputStream[1] \in Transactions
    BY <1>8, Opened DEF Write
  <2>3. Append(outputStream[1].content, Message(buffer[serving])) \in Seq(Seq(Cell))
    BY <2>1, <2>2, AppendProperties
  <2>4. t \in Transactions /\ t.isOpened = outputStream[1].isOpened
    BY <2>2, <2>3
  <2> QED
    BY <2>4, <1>8 DEF Write
<1>9. CASE TestLimit
  BY <1>9 DEF TestLimit, ioVars
<1>10. CASE Commit
  <2>1. outputStream[1] \in Transactions
    BY <1>10, Opened DEF Commit
  <2>2. history' \in Seq(Seq(Cell))
    BY <2>1, <1>10, ConcatProperties DEF Commit, CommitFile
  <2> QED
    BY <2>1, <2>2, <1>10 DEF Commit, CommitFile
<1>11. CASE Reset
  BY <1>11 DEF Reset
<1>12. CASE RemoveMessage
  BY <1>12 DEF RemoveMessage, ioVars
<1>13. CASE UnixError
  <2>1. CASE outputStream' = outputStream
    BY <1>13, <2>1, StatsAssumption DEF UnixError, Disconnect
  <2>2. CASE outputStream # <<>> /\ outputStream' = <<[outputStream[1] EXCEPT !.isOpened = FALSE]>>
    <3>1. outputStream[1] \in Transactions
      BY <2>2, Opened
    <3> QED
      <4> DEFINE t == [outputStream[1] EXCEPT !.isOpened = FALSE]
      <4>1. t \in Transactions /\ outputStream' = <<t>>
        BY <3>1, <2>2
      <4>2. pc' = "idle" /\ faults' = faults + 1 /\ UNCHANGED <<history, terminated, signals>>
        BY <1>13 DEF UnixError, Disconnect
      <4>3. \E u \in Transactions : outputStream' = <<u>>
        BY <4>1, Zenon
      <4> HIDE DEF t
      <4>4. faults' \in Nat /\ faults' # 0
        BY <4>2
      <4> QED
        BY <4>2, <4>3, <4>4
  <2> QED
    BY <2>1, <2>2, <1>13 DEF UnixError
<1>14. CASE UseOfClosed
  BY <1>14 DEF UseOfClosed, Crash, ioVars
<1>15. CASE UseOfNull
  BY <1>15 DEF UseOfNull, Crash, ioVars
<1>16. CASE TerminateStatsServer
  <2>1. signals' = signals + 1 /\ faults' = faults
    BY <1>16 DEF TerminateStatsServer
  <2>2. CASE OnTerminated /\ UNCHANGED <<pc, serving, terminated, netVars, now>>
    <3>1. history' \in Seq(Seq(Cell))
      <4>1. CASE outputStream = <<>>
        BY <4>1, <2>2 DEF OnTerminated
      <4>2. CASE outputStream # <<>>
        <5>1. outputStream[1] \in Transactions
          BY <4>2, Opened
        <5> QED
          <6>1. history' = history \o outputStream[1].content
            BY <4>2, <2>2 DEF OnTerminated, CommitFile
          <6>2. outputStream[1].content \in Seq(Seq(Cell))
            BY <5>1
          <6> QED
            BY <6>1, <6>2, ConcatProperties
      <4> QED
        BY <4>1, <4>2
    <3>2. outputStream' = <<>>
      BY <2>2 DEF OnTerminated
    <3> QED
      BY <2>1, <2>2, <3>1, <3>2
  <2>3. CASE Crash
    BY <2>1, <2>3, <1>16 DEF TerminateStatsServer, Crash, ioVars
  <2> QED
    BY <2>2, <2>3, <1>16 DEF TerminateStatsServer
<1>17. CASE Done
  BY <1>17, <1>1 DEF Done
<1> QED
  BY <1>1, <1>2, <1>3, <1>4, <1>5, <1>6, <1>7, <1>8, <1>9, <1>10, <1>11, <1>12, <1>13, <1>14,
     <1>15, <1>16, <1>17, Zenon DEF Next, ServerStep

\* A commit that keeps the names in order.
LEMMA NameAfterCommit ==
    ASSUME NetInv, IoInv, NameInv, outputStream # <<>>, CommitFile, UNCHANGED <<now, outputFileTime>>
    PROVE  /\ DOMAIN files' \subseteq 1 .. now'
           /\ (signals = 0 /\ pc = "commit") => \A t \in DOMAIN files' : t < now'
<1>1. DOMAIN files' = DOMAIN files \cup {outputStream[1].name}
  BY DEF CommitFile
<1>2. outputStream[1].name \in 1 .. now /\ now \in Nat
  BY DEF NameInv, NetInv
<1>3. (signals = 0 /\ pc = "commit") => outputStream[1].name < now
  BY DEF NameInv
<1>4. signals = 0 => \A t \in DOMAIN files : t < now
  BY DEF NameInv
<1>5. DOMAIN files \subseteq 1 .. now
  BY DEF NameInv
<1> HIDE DEF CommitFile
<1>6. ASSUME signals = 0, pc = "commit", NEW t \in DOMAIN files' PROVE t < now'
  BY <1>1, <1>3, <1>4, <1>6, Zenon
<1> QED
  BY <1>1, <1>2, <1>5, <1>6

\* The invariant about the names of files holds in every step.
LEMMA NameStep ==
    ASSUME StatsInv, [Next]_vars
    PROVE  NameInv'
<1>0. NetInv /\ IoInv /\ NameInv
  BY DEF StatsInv
<1>n. now \in Nat /\ outputFileTime \in Nat /\ signals \in Nat
  BY <1>0 DEF NetInv, NameInv, IoInv
<1>1. CASE UNCHANGED vars
  BY <1>0, <1>1 DEF vars, ioVars, NameInv
<1>2. ASSUME NEW c \in Clients, Send(c) PROVE NameInv'
  BY <1>0, <1>2 DEF Send, ioVars, NameInv
<1>3. CASE Tick
  <2>1. now' = now + 1 /\ UNCHANGED <<pc, outputStream, outputFileTime, files, signals>>
    BY <1>3 DEF Tick, ioVars
  <2>2. DOMAIN files' \subseteq 1 .. now' /\ outputFileTime' \in 0 .. now'
    BY <1>0, <1>n, <2>1 DEF NameInv
  <2>3. outputStream' # <<>> => outputStream'[1].name \in 1 .. now'
    BY <1>0, <1>n, <2>1 DEF NameInv
  <2>4. pc' = "commit" => now' > outputFileTime'
    BY <1>0, <1>n, <2>1 DEF NameInv
  <2>5. signals' = 0 => \A t \in DOMAIN files' : t < now'
    <3>1. \A t \in DOMAIN files : t \in Nat
      BY <1>0 DEF NameInv
    <3> QED
      BY <1>0, <1>n, <2>1, <3>1 DEF NameInv
  <2> QED
    BY <1>0, <2>1, <2>2, <2>3, <2>4, <2>5 DEF NameInv
<1>4. CASE OnDataReceived
  BY <1>0, <1>4 DEF OnDataReceived, ioVars, NameInv
<1>5. CASE SelectTimeout
  BY <1>0, <1>5 DEF SelectTimeout, ioVars, NameInv, IoInv
<1>6. CASE Parse
  BY <1>0, <1>6 DEF Parse, ioVars, Disconnect, NameInv
<1>7. CASE OpenIfNull
  <2>1. CASE outputStream = <<>>
    <3>1. /\ outputFileTime' = now /\ now' = now /\ files' = files /\ signals' = signals
          /\ outputStream'[1].name = now /\ pc' = "write"
      BY <2>1, <1>7 DEF OpenIfNull
    <3> QED
      BY <1>0, <1>n, <3>1 DEF NameInv, NetInv
  <2>2. CASE outputStream # <<>>
    BY <1>0, <2>2, <1>7 DEF OpenIfNull, NameInv
  <2> QED
    BY <2>1, <2>2
<1>8. CASE Write
  <2>1. outputStream'[1].name = outputStream[1].name
    BY <1>0, <1>8, Opened DEF Write, Transactions
  <2> QED
    BY <1>0, <1>8, <2>1 DEF Write, NameInv
<1>9. CASE TestLimit
  <2>1. pc' = "commit" => now > outputFileTime
    BY <1>9 DEF TestLimit, MayCommit
  <2> QED
    BY <1>0, <1>9, <2>1 DEF TestLimit, ioVars, NameInv
<1>10. CASE Commit
  <2>1. /\ UNCHANGED <<now, outputFileTime, signals>> /\ CommitFile /\ pc = "commit" /\ pc' = "reset"
        /\ outputStream # <<>>
    BY <1>10 DEF Commit
  <2>2. outputStream'[1].name = outputStream[1].name
    BY <1>0, <1>10, Opened DEF Commit, Transactions
  <2>3. /\ DOMAIN files' \subseteq 1 .. now'
        /\ signals' = 0 => \A t \in DOMAIN files' : t < now'
    BY <1>0, <2>1, NameAfterCommit
  <2> QED
    BY <1>0, <2>1, <2>2, <2>3 DEF NameInv
<1>11. CASE Reset
  BY <1>0, <1>11 DEF Reset, NameInv
<1>12. CASE RemoveMessage
  BY <1>0, <1>12 DEF RemoveMessage, ioVars, NameInv
<1>13. CASE UnixError
  <2>1. UNCHANGED <<now, files, signals>> /\ pc' = "idle" /\ pc # "reset"
    BY <1>13 DEF UnixError, Disconnect
  <2>2. CASE outputStream' = outputStream /\ outputFileTime' = outputFileTime
    BY <1>0, <2>1, <2>2 DEF NameInv
  <2>3. CASE outputStream' = <<>> /\ outputFileTime' = now
    BY <1>0, <1>n, <2>1, <2>3 DEF NameInv
  <2>4. CASE /\ outputStream # <<>> /\ outputStream' = <<[outputStream[1] EXCEPT !.isOpened = FALSE]>>
             /\ outputFileTime' = outputFileTime
    <3>1. outputStream'[1].name = outputStream[1].name
      BY <1>0, <2>4, Opened DEF Transactions
    <3> QED
      BY <1>0, <2>1, <2>4, <3>1 DEF NameInv
  <2> QED
    BY <2>2, <2>3, <2>4, <1>13 DEF UnixError
<1>14. CASE UseOfClosed
  BY <1>0, <1>14 DEF UseOfClosed, Crash, ioVars, NameInv
<1>15. CASE UseOfNull
  BY <1>0, <1>15 DEF UseOfNull, Crash, ioVars, NameInv
<1>16. CASE TerminateStatsServer
  <2>1. signals' # 0
    BY <1>n, <1>16 DEF TerminateStatsServer
  <2>2. CASE OnTerminated /\ UNCHANGED <<pc, serving, terminated, netVars, now>>
    <3>1. outputStream' = <<>> /\ UNCHANGED <<outputFileTime, pc, now>>
      BY <2>2 DEF OnTerminated
    <3>2. DOMAIN files' \subseteq 1 .. now'
      <4>1. CASE outputStream = <<>>
        BY <1>0, <4>1, <2>2 DEF OnTerminated, NameInv
      <4>2. CASE outputStream # <<>>
        <5>1. CommitFile
          BY <4>2, <2>2 DEF OnTerminated
        <5> QED
          BY <1>0, <3>1, <4>2, <5>1, NameAfterCommit
      <4> QED
        BY <4>1, <4>2
    <3> QED
      BY <1>0, <2>1, <3>1, <3>2 DEF NameInv
  <2>3. CASE Crash
    BY <1>0, <2>1, <2>3 DEF Crash, ioVars, NameInv
  <2> QED
    BY <2>2, <2>3, <1>16 DEF TerminateStatsServer
<1>17. CASE Done
  BY <1>17, <1>1 DEF Done
<1> QED
  BY <1>1, <1>2, <1>3, <1>4, <1>5, <1>6, <1>7, <1>8, <1>9, <1>10, <1>11, <1>12, <1>13, <1>14,
     <1>15, <1>16, <1>17, Zenon DEF Next, ServerStep

\* Everything that was written, as a sequence of messages.
LEMMA WrittenType ==
    ASSUME IoInv
    PROVE  Written \in Seq(Seq(Cell))
<1>1. CASE outputStream # <<>> /\ pc # "reset"
  <2>1. outputStream[1].content \in Seq(Seq(Cell))
    BY <1>1, Opened DEF Transactions
  <2>2. Written = history \o outputStream[1].content
    BY <1>1 DEF Written
  <2> QED
    BY <2>1, <2>2, ConcatProperties DEF IoInv
<1>2. CASE ~ (outputStream # <<>> /\ pc # "reset")
  <2>1. Written = history \o <<>>
    BY <1>2 DEF Written
  <2> QED
    BY <2>1, ConcatProperties DEF IoInv
<1> QED
  BY <1>1, <1>2

\* Write appends the message to what was written.
LEMMA WriteStep ==
    ASSUME StatsInv, Write
    PROVE  Written' = Append(Written, Message(buffer[serving]))
<1>a. NetInv /\ IoInv
  BY DEF StatsInv
<1>b. history \in Seq(Seq(Cell))
  BY <1>a DEF IoInv
<1> DEFINE m == Message(buffer[serving])
           k == outputStream[1].content
<1>1. k \in Seq(Seq(Cell)) /\ outputStream[1] \in Transactions
  BY <1>a, Opened DEF Write, Transactions
<1>2. Written = history \o k
  BY DEF Written, Write
<1>3. outputStream'[1].content = Append(k, m) /\ outputStream' # <<>>
  BY <1>1 DEF Write, Transactions
<1>4. Written' = history \o Append(k, m)
  BY <1>3 DEF Written, Write
<1>5. m \in Seq(Cell)
  BY ServedMessage DEF Write, InWriteMessage
<1> HIDE DEF m, k
<1>6. history \o Append(k, m) = Append(history \o k, m)
  BY <1>b, <1>1, <1>5
<1> QED
  BY <1>2, <1>4, <1>6 DEF m

\* Only Write writes: commits, resets and signals move what was written.
LEMMA WrittenStep ==
    ASSUME StatsInv, [Next]_vars, pc' # "crashed"
    PROVE  Written' = Written \/ Write
<1>0. NetInv /\ IoInv
  BY DEF StatsInv
<1>h. history \in Seq(Seq(Cell)) /\ history \o <<>> = history
  BY <1>0, ConcatEmptySeq DEF IoInv
<1>a. ASSUME UNCHANGED ioVars, pc # "reset", pc' # "reset" PROVE Written' = Written
  BY <1>a DEF Written, ioVars
<1>b. ASSUME outputStream # <<>>, pc # "reset", CommitFile, pc' = "reset" \/ outputStream' = <<>>
      PROVE  Written' = Written
  <2>1. outputStream[1].content \in Seq(Seq(Cell))
    BY <1>0, <1>b, Opened DEF Transactions
  <2>2. Written = history \o outputStream[1].content
    BY <1>b DEF Written
  <2>3. Written' = history' \o <<>>
    BY <1>b DEF Written
  <2>4. history' = history \o outputStream[1].content
    BY <1>b DEF CommitFile
  <2>5. history' \in Seq(Seq(Cell))
    BY <1>h, <2>1, <2>4, ConcatProperties
  <2> QED
    BY <2>2, <2>3, <2>4, <2>5, ConcatEmptySeq
<1>1. CASE UNCHANGED vars
  BY <1>1 DEF vars, ioVars, Written
<1>2. ASSUME NEW c \in Clients, Send(c) PROVE Written' = Written
  BY <1>2 DEF Send, ioVars, Written
<1>3. CASE Tick
  BY <1>3 DEF Tick, ioVars, Written
<1>4. CASE OnDataReceived
  BY <1>4, <1>a DEF OnDataReceived
<1>5. CASE SelectTimeout
  BY <1>0, <1>5, <1>a DEF SelectTimeout, IoInv
<1>6. CASE Parse
  BY <1>6, <1>a DEF Parse, Disconnect
<1>7. CASE OpenIfNull
  <2>1. CASE outputStream = <<>>
    <3>1. Written = history \o <<>>
      BY <2>1 DEF Written
    <3>2. outputStream' = <<[name |-> now, isOpened |-> TRUE, content |-> <<>>]>>
      BY <2>1, <1>7 DEF OpenIfNull
    <3>3. outputStream' # <<>> /\ outputStream'[1].content = <<>>
      BY <3>2
    <3>4. pc' # "reset" /\ history' = history
      BY <1>7 DEF OpenIfNull
    <3>5. Written' = history \o <<>>
      BY <3>3, <3>4 DEF Written
    <3> QED
      BY <3>1, <3>5
  <2>2. CASE outputStream # <<>>
    BY <2>2, <1>7 DEF OpenIfNull, Written
  <2> QED
    BY <2>1, <2>2
<1>8. CASE Write
  BY <1>8
<1>9. CASE TestLimit
  BY <1>9, <1>a DEF TestLimit
<1>10. CASE Commit
  BY <1>10, <1>b DEF Commit
<1>11. CASE Reset
  BY <1>11 DEF Reset, Written
<1>12. CASE RemoveMessage
  BY <1>12, <1>a DEF RemoveMessage
<1>13. CASE UnixError
  <2>1. history' = history /\ pc # "reset" /\ pc' = "idle"
    BY <1>13 DEF UnixError, Disconnect
  <2>2. CASE outputStream' = outputStream
    BY <2>1, <2>2 DEF Written
  <2>3. CASE outputStream # <<>> /\ outputStream' = <<[outputStream[1] EXCEPT !.isOpened = FALSE]>>
    <3>1. outputStream'[1].content = outputStream[1].content /\ outputStream' # <<>>
      BY <1>0, <2>3, Opened DEF Transactions
    <3> QED
      BY <2>1, <2>3, <3>1 DEF Written
  <2> QED
    BY <2>2, <2>3, <1>13 DEF UnixError
<1>14. CASE TerminateStatsServer
  <2>1. OnTerminated /\ pc' = pc
    BY <1>14 DEF TerminateStatsServer, Crash
  <2>2. CASE outputStream = <<>>
    BY <2>1, <2>2 DEF OnTerminated, Written
  <2>3. CASE outputStream # <<>>
    <3>1. CommitFile /\ outputStream' = <<>> /\ outputStream[1].isOpened
      BY <2>1, <2>3 DEF OnTerminated, CommitFile
    <3>2. pc # "reset"
      BY <1>0, <2>3, <3>1 DEF IoInv
    <3> QED
      BY <1>b, <2>3, <3>1, <3>2
  <2> QED
    BY <2>2, <2>3
<1>15. CASE UseOfClosed \/ UseOfNull
  BY <1>15 DEF UseOfClosed, UseOfNull, Crash
<1>16. CASE Done
  BY <1>16, <1>1 DEF Done
<1> QED
  BY <1>1, <1>2, <1>3, <1>4, <1>5, <1>6, <1>7, <1>8, <1>9, <1>10, <1>11, <1>12, <1>13, <1>14,
     <1>15, <1>16, Zenon DEF Next, ServerStep

\* What a client sends is a message with its next number.
LEMMA SentMessage ==
    ASSUME NetInv, NEW c \in Clients, Send(c)
    PROVE  \E m \in Seq(Cell) :
              /\ IsMessage(c, Len(sent[c]) + 1, m)
              /\ sent' = [sent EXCEPT ![c] = Append(@, m)]
              /\ stream' = [stream EXCEPT ![c] = @ \o m]
<1>1. PICK n \in Sizes, magic \in {MAGIC, 0} :
        LET msg == <<magic, n>> \o [i \in 1 .. n |-> <<c, Len(sent[c]) + 1, i>>]
        IN  /\ sent' = [sent EXCEPT ![c] = Append(@, msg)]
            /\ stream' = [stream EXCEPT ![c] = @ \o msg]
  BY DEF Send
<1> DEFINE msg == <<magic, n>> \o [i \in 1 .. n |-> <<c, Len(sent[c]) + 1, i>>]
<1>2. IsMessage(c, Len(sent[c]) + 1, msg)
  BY DEF IsMessage
<1>3. sent' = [sent EXCEPT ![c] = Append(@, msg)] /\ stream' = [stream EXCEPT ![c] = @ \o msg]
  BY <1>1
<1> HIDE DEF msg
<1>4. sent[c] \in Seq(Seq(Cell))
  BY DEF NetInv, SentOK
<1>5. Len(sent[c]) + 1 \in Nat
  BY <1>4, LenProperties
<1>6. msg \in Seq(Cell)
  BY <1>2, <1>5, MessageShape
<1> QED
  BY <1>2, <1>3, <1>6

\* A message more: the messages of each client are still its own.
LEMMA SentStep ==
    ASSUME NEW s, SentOK(s), NEW c \in Clients, NEW m \in Seq(Cell), IsMessage(c, Len(s[c]) + 1, m)
    PROVE  SentOK([s EXCEPT ![c] = Append(@, m)])
<1> DEFINE w == [e \in Clients |-> 0]
<1>1. KeptIn(<<>>, s, w)
  <2>1. \A e \in Clients : w[e] = 0 /\ s[e] \in Seq(Seq(Cell))
    BY DEF SentOK
  <2>2. \A e \in Clients : Len(s[e]) \in Nat
    BY <2>1, LenProperties
  <2>3. w \in [Clients -> Nat]
    OBVIOUS
  <2> HIDE DEF w
  <2> QED
    BY <2>1, <2>2, <2>3 DEF KeptIn
<1> HIDE DEF w
<1> QED
  BY <1>1, KeptSend

\* The connections keep their types.
LEMMA NetStep ==
    ASSUME StatsInv, [Next]_vars
    PROVE  NetInv'
<1>0. NetInv /\ IoInv
  BY DEF StatsInv
<1>a. ASSUME pc' \in PcValues, UNCHANGED <<serving, now, buffer, sent, stream>>,
             connected' \in [Clients -> BOOLEAN]
      PROVE  NetInv'
  BY <1>0, <1>a DEF NetInv
<1>b. /\ pc \in PcValues /\ connected \in [Clients -> BOOLEAN] /\ serving \in Clients
  BY <1>0 DEF NetInv
<1>1. CASE UNCHANGED vars
  BY <1>0, <1>1 DEF vars, netVars, NetInv
<1>2. ASSUME NEW c \in Clients, Send(c) PROVE NetInv'
  <2>1. PICK m \in Seq(Cell) :
              /\ IsMessage(c, Len(sent[c]) + 1, m)
              /\ sent' = [sent EXCEPT ![c] = Append(@, m)]
              /\ stream' = [stream EXCEPT ![c] = @ \o m]
    BY <1>0, <1>2, SentMessage
  <2>2. SentOK(sent')
    BY <1>0, <2>1, SentStep DEF NetInv
  <2>3. stream[c] \in Seq(Cell)
    BY <1>0 DEF NetInv
  <2>4. stream[c] \o m \in Seq(Cell)
    BY <2>3, ConcatProperties
  <2>5. stream' \in [Clients -> Seq(Cell)]
    BY <1>0, <2>1, <2>4 DEF NetInv
  <2> QED
    BY <1>0, <1>2, <2>2, <2>5 DEF NetInv, Send
<1>3. CASE Tick
  BY <1>0, <1>3, StatsAssumption DEF Tick, NetInv, netVars
<1>4. CASE OnDataReceived
  <2>1. PICK c \in Clients : serving' = c /\ \E n \in 1 .. Len(stream[c]) :
              /\ buffer' = [buffer EXCEPT ![c] = @ \o SubSeq(stream[c], 1, n)]
              /\ stream' = [stream EXCEPT ![c] = SubSeq(@, n + 1, Len(@))]
    BY <1>4 DEF OnDataReceived
  <2>2. PICK n \in 1 .. Len(stream[c]) :
              /\ buffer' = [buffer EXCEPT ![c] = @ \o SubSeq(stream[c], 1, n)]
              /\ stream' = [stream EXCEPT ![c] = SubSeq(@, n + 1, Len(@))]
    BY <2>1
  <2>3. buffer[c] \in Seq(Cell) /\ stream[c] \in Seq(Cell)
    BY <1>0 DEF NetInv
  <2>4. /\ buffer[c] \o SubSeq(stream[c], 1, n) \in Seq(Cell)
        /\ SubSeq(stream[c], n + 1, Len(stream[c])) \in Seq(Cell)
    BY <2>3, FlowReceived
  <2>5. buffer' \in [Clients -> Seq(Cell)] /\ stream' \in [Clients -> Seq(Cell)]
    BY <1>0, <2>2, <2>4 DEF NetInv
  <2> QED
    BY <1>0, <1>4, <2>1, <2>5 DEF NetInv, OnDataReceived, PcValues
<1>5. CASE SelectTimeout
  BY <1>5, <1>a, <1>b DEF SelectTimeout, PcValues, netVars
<1>6. CASE Parse
  <2>1. connected' \in [Clients -> BOOLEAN]
    BY <1>6, <1>b DEF Parse, Disconnect, netVars
  <2> QED
    BY <1>6, <1>a, <2>1 DEF Parse, Disconnect, netVars, PcValues
<1>7. CASE OpenIfNull
  BY <1>7, <1>a, <1>b DEF OpenIfNull, PcValues, netVars
<1>8. CASE Write
  BY <1>8, <1>a, <1>b DEF Write, PcValues, netVars
<1>9. CASE TestLimit
  BY <1>9, <1>a, <1>b DEF TestLimit, PcValues, netVars
<1>10. CASE Commit
  BY <1>10, <1>a, <1>b DEF Commit, PcValues, netVars
<1>11. CASE Reset
  BY <1>11, <1>a, <1>b DEF Reset, PcValues, netVars
<1>12. CASE RemoveMessage
  <2>1. TotalSize(buffer[serving]) \in 0 .. Len(buffer[serving])
    BY <1>12, ServedMessage DEF RemoveMessage, InWriteMessage
  <2>2. buffer[serving] \in Seq(Cell)
    BY <1>0 DEF NetInv
  <2>3. SubSeq(buffer[serving], TotalSize(buffer[serving]) + 1, Len(buffer[serving])) \in Seq(Cell)
    <3>1. IsRest(Cell, buffer[serving], TotalSize(buffer[serving]),
                 SubSeq(buffer[serving], TotalSize(buffer[serving]) + 1, Len(buffer[serving])))
      BY <2>1, <2>2, CutSeq, Zenon
    <3> QED
      BY <3>1, Zenon DEF IsRest
  <2>4. buffer' \in [Clients -> Seq(Cell)]
    BY <1>0, <1>12, <2>3 DEF NetInv, RemoveMessage
  <2> QED
    BY <1>0, <1>12, <2>4 DEF NetInv, RemoveMessage, PcValues
<1>13. CASE UnixError
  <2>1. connected' \in [Clients -> BOOLEAN]
    BY <1>13, <1>b DEF UnixError, Disconnect
  <2> QED
    BY <1>13, <1>a, <2>1 DEF UnixError, Disconnect, PcValues
<1>14. CASE TerminateStatsServer
  BY <1>14, <1>a, <1>b DEF TerminateStatsServer, Crash, PcValues, netVars
<1>15. CASE UseOfClosed \/ UseOfNull
  BY <1>15, <1>a, <1>b DEF UseOfClosed, UseOfNull, Crash, PcValues, netVars
<1>16. CASE Done
  BY <1>16, <1>1 DEF Done
<1> QED
  BY <1>1, <1>2, <1>3, <1>4, <1>5, <1>6, <1>7, <1>8, <1>9, <1>10, <1>11, <1>12, <1>13, <1>14,
     <1>15, <1>16, Zenon DEF Next, ServerStep

\* The server handles a connected client, and WriteMessage a complete message.
LEMMA ServingStep ==
    ASSUME StatsInv, [Next]_vars
    PROVE  ServingInv'
<1>0. NetInv /\ IoInv /\ ServingInv
  BY DEF StatsInv
<1>b. connected \in [Clients -> BOOLEAN] /\ serving \in Clients
  BY <1>0 DEF NetInv
<1> USE <1>0, <1>b DEF ServingInv, InWriteMessage
<1>1. CASE UNCHANGED vars
  BY <1>1 DEF vars, netVars
<1>2. ASSUME NEW c \in Clients, Send(c) PROVE ServingInv'
  BY <1>2 DEF Send
<1>3. CASE Tick
  BY <1>3 DEF Tick, netVars
<1>4. CASE OnDataReceived
  BY <1>4 DEF OnDataReceived
<1>5. CASE SelectTimeout
  BY <1>5 DEF SelectTimeout, netVars
<1>6. CASE Parse
  <2>1. connected[serving] /\ serving' = serving /\ buffer' = buffer
    BY <1>6 DEF Parse, Disconnect, netVars
  <2>2. pc' = "idle" \/ (pc' = "open" /\ Ready(buffer[serving]) /\ connected' = connected)
    BY <1>6 DEF Parse, Disconnect, netVars, Ready
  <2> QED
    BY <2>1, <2>2
<1>7. CASE OpenIfNull \/ Write \/ TestLimit \/ Commit \/ Reset
  <2>1. UNCHANGED <<serving, buffer, connected>> /\ pc \in InWriteMessage
    BY <1>7 DEF OpenIfNull, Write, TestLimit, Commit, Reset, netVars
  <2> QED
    BY <2>1
<1>8. CASE RemoveMessage
  BY <1>8 DEF RemoveMessage
<1>9. CASE UnixError
  BY <1>9 DEF UnixError, Disconnect
<1>10. CASE TerminateStatsServer
  BY <1>10 DEF TerminateStatsServer, Crash, netVars
<1>11. CASE UseOfClosed \/ UseOfNull
  BY <1>11 DEF UseOfClosed, UseOfNull, Crash
<1>12. CASE Done
  BY <1>12, <1>1 DEF Done
<1> QED
  BY <1>1, <1>2, <1>3, <1>4, <1>5, <1>6, <1>7, <1>8, <1>9, <1>10, <1>11, <1>12, Zenon
     DEF Next, ServerStep
\* What the server has of a client stays as it is, as long as its buffer and its
\* stream do.
LEMMA ClientFrame ==
    ASSUME NEW c \in Clients, NEW d, NEW w, ClientInv(c, d, w),
           buffer'[c] = buffer[c], stream'[c] = stream[c], sent'[c] = sent[c],
           (connected'[c] /\ (serving' # c \/ pc' = "idle")) => (w = d /\ ~IsComplete(buffer[c])),
           (serving' = c /\ pc' \in {"parse", "open", "write"}) => w = d,
           (serving' = c /\ pc' \in AfterWrite) => w = d + 1
    PROVE  ClientInv(c, d, w)'
  BY DEF ClientInv

\* Sending: the message is appended to what the server has not received.
LEMMA ClientSend ==
    ASSUME NetInv, NEW c \in Clients, NEW d, NEW w, ClientInv(c, d, w), NEW m \in Seq(Cell),
           sent'[c] = Append(sent[c], m), stream'[c] = stream[c] \o m,
           UNCHANGED <<buffer, pc, serving, connected>>
    PROVE  ClientInv(c, d, w)'
<1> DEFINE s == sent[c]
           b == buffer[c]
           st == stream[c]
<1>1. s \in Seq(Seq(Cell)) /\ b \in Seq(Cell) /\ st \in Seq(Cell)
  BY DEF NetInv, SentOK
<1>2. Frames(s, b \o st, d) /\ \A i \in 1 .. d : Valid(s[i])
  BY DEF ClientInv
<1> HIDE DEF s, b, st
<1>3. b \o st \in Seq(Cell)
  BY <1>1, ConcatProperties
<1>4. Frames(Append(s, m), (b \o st) \o m, d)
  BY <1>1, <1>2, <1>3, FramesAppend
<1>5. (b \o st) \o m = b \o (st \o m)
  BY <1>1, ConcatAssociative
<1>6. Frames(sent'[c], buffer'[c] \o stream'[c], d)
  BY <1>4, <1>5 DEF s, b, st
<1>7. \A i \in 1 .. d : Valid(sent'[c][i])
  <2>1. d \in 0 .. Len(s) /\ Len(s) \in Nat
    BY <1>1, <1>2, LenProperties DEF Frames
  <2>2. \A i \in 1 .. Len(s) : Append(s, m)[i] = s[i]
    BY <1>1, AppendProperties
  <2>3. \A i \in 1 .. d : Append(s, m)[i] = s[i]
    BY <2>1, <2>2
  <2>4. sent'[c] = Append(s, m)
    BY DEF s
  <2> QED
    BY <1>2, <2>3, <2>4 DEF Valid
<1> QED
  BY <1>6, <1>7 DEF ClientInv

\* Receiving: what the server has and has not received, together, does not change.
LEMMA ClientReceive ==
    ASSUME NetInv, NEW c \in Clients, NEW d, ClientInv(c, d, d), NEW n \in 1 .. Len(stream[c]),
           buffer'[c] = buffer[c] \o SubSeq(stream[c], 1, n),
           stream'[c] = SubSeq(stream[c], n + 1, Len(stream[c])),
           sent' = sent, serving' = c, pc' = "parse"
    PROVE  ClientInv(c, d, d)'
<1>1. buffer[c] \in Seq(Cell) /\ stream[c] \in Seq(Cell)
  BY DEF NetInv
<1>2. buffer'[c] \o stream'[c] = buffer[c] \o stream[c]
  <2>1. (buffer[c] \o SubSeq(stream[c], 1, n)) \o SubSeq(stream[c], n + 1, Len(stream[c]))
        = buffer[c] \o stream[c]
    BY <1>1, FlowReceived, Zenon
  <2> QED
    BY <2>1, Zenon
<1>3. Frames(sent'[c], buffer'[c] \o stream'[c], d) /\ \A i \in 1 .. d : Valid(sent'[c][i])
  BY <1>2 DEF ClientInv
<1> QED
  BY <1>3 DEF ClientInv, AfterWrite

\* Removing: the message that was written leaves the buffer.
LEMMA ClientRemove ==
    ASSUME NetInv, NEW c \in Clients, NEW d, ClientInv(c, d, d + 1), Ready(buffer[c]),
           buffer'[c] = SubSeq(buffer[c], TotalSize(buffer[c]) + 1, Len(buffer[c])),
           stream' = stream, sent' = sent, serving' = c, pc' = "parse"
    PROVE  ClientInv(c, d + 1, d + 1)'
<1> DEFINE s == sent[c]
           b == buffer[c]
           st == stream[c]
           n == TotalSize(buffer[c])
<1>1. s \in Seq(Seq(Cell)) /\ b \in Seq(Cell) /\ st \in Seq(Cell)
  BY DEF NetInv, SentOK
<1>2. Frames(s, b \o st, d) /\ \A i \in 1 .. d : Valid(s[i])
  BY DEF ClientInv
<1>3. d \in Nat /\ d < Len(s) /\ n = Len(s[d + 1]) /\ n \in 0 .. Len(b) /\ Valid(s[d + 1])
  BY Served
<1>4. buffer'[c] = SubSeq(b, n + 1, Len(b)) /\ stream'[c] = st /\ sent'[c] = s
  OBVIOUS
<1> HIDE DEF s, b, st, n
<1>5. b \o st \in Seq(Cell)
  BY <1>1, ConcatProperties
<1>6. Frames(s, SubSeq(b \o st, n + 1, Len(b \o st)), d + 1)
  BY <1>1, <1>2, <1>3, <1>5, FramesRemove
<1>7. SubSeq(b, n + 1, Len(b)) \o st = SubSeq(b \o st, n + 1, Len(b \o st))
  <2>1. CutBeforeOrAfter(b, st, n)
    BY <1>1, <1>3, FlowRemoved, Zenon
  <2> QED
    BY <2>1 DEF CutBeforeOrAfter
<1>8. Frames(sent'[c], buffer'[c] \o stream'[c], d + 1)
  BY <1>4, <1>6, <1>7
<1>9. \A i \in 1 .. d + 1 : Valid(sent'[c][i])
  <2>1. \A i \in 1 .. d + 1 : i \in 1 .. d \/ i = d + 1
    BY <1>3
  <2> QED
    BY <2>1, <1>2, <1>3, <1>4
<1> QED
  BY <1>8, <1>9 DEF ClientInv, AfterWrite
\* Every step keeps account of what was written and what was removed.
LEMMA KeptStep ==
    ASSUME StatsInv, [Next]_vars
    PROVE  KeptInv'
<1> SUFFICES ASSUME pc' # "crashed"
             PROVE  \E d, w \in [Clients -> Nat] :
                       /\ KeptIn(Written', sent', w)
                       /\ \A c \in Clients : ClientInv(c, d[c], w[c])'
  BY DEF KeptInv
<1>0. NetInv /\ IoInv /\ ServingInv /\ KeptInv
  BY DEF StatsInv
<1>b. /\ connected \in [Clients -> BOOLEAN] /\ serving \in Clients
      /\ buffer \in [Clients -> Seq(Cell)] /\ stream \in [Clients -> Seq(Cell)]
      /\ sent \in [Clients -> Seq(Seq(Cell))] /\ SentOK(sent)
  BY <1>0 DEF NetInv, SentOK
<1>c. pc # "crashed"
  BY DEF Next, Send, Tick, ServerStep, OnDataReceived, SelectTimeout, Parse, OpenIfNull, Write, TestLimit,
         Commit, Reset, RemoveMessage, UnixError, UseOfClosed, UseOfNull, TerminateStatsServer, Done, vars
<1>d. PICK d \in [Clients -> Nat] : \E w \in [Clients -> Nat] :
             KeptIn(Written, sent, w) /\ \A c \in Clients : ClientInv(c, d[c], w[c])
  BY <1>0, <1>c DEF KeptInv
<1>w. PICK w \in [Clients -> Nat] :
             KeptIn(Written, sent, w) /\ \A c \in Clients : ClientInv(c, d[c], w[c])
  BY <1>d
<1>s. \A c \in Clients : d[c] \in Nat /\ w[c] \in Nat
  OBVIOUS
\* The account does not change.
<1>f. ASSUME ~Write, sent' = sent, \A c \in Clients : ClientInv(c, d[c], w[c])'
      PROVE  \E d2, w2 \in [Clients -> Nat] :
                 /\ KeptIn(Written', sent', w2)
                 /\ \A c \in Clients : ClientInv(c, d2[c], w2[c])'
  <2>1. Written' = Written
    BY <1>f, WrittenStep
  <2> QED
    BY <1>w, <1>f, <2>1
\* A step that changes neither pc nor what the server knows of the clients.
<1>g. ASSUME UNCHANGED <<pc, serving, netVars>>
      PROVE  \A c \in Clients : ClientInv(c, d[c], w[c])'
  <2> SUFFICES ASSUME NEW c \in Clients PROVE ClientInv(c, d[c], w[c])'
    OBVIOUS
  <2>1. ClientInv(c, d[c], w[c])
    BY <1>w
  <2> QED
    BY <1>g, <2>1 DEF ClientInv, netVars
<1>1. CASE UNCHANGED vars
  BY <1>1, <1>f, <1>g DEF vars, Write, netVars
<1>2. CASE \E e \in Clients : Send(e)
  <2>1. PICK e \in Clients : Send(e)
    BY <1>2
  <2>2. PICK m \in Seq(Cell) :
              /\ IsMessage(e, Len(sent[e]) + 1, m)
              /\ sent' = [sent EXCEPT ![e] = Append(@, m)]
              /\ stream' = [stream EXCEPT ![e] = @ \o m]
    BY <1>0, <2>1, SentMessage
  <2>3. UNCHANGED <<buffer, pc, serving, connected>>
    BY <2>1 DEF Send
  <2>4. KeptIn(Written, sent', w)
    BY <1>b, <1>w, <2>2, KeptSend
  <2>5. Written' = Written
    BY <2>3, WrittenStep DEF Write
  <2>6. ASSUME NEW c \in Clients PROVE ClientInv(c, d[c], w[c])'
    <3>1. ClientInv(c, d[c], w[c])
      BY <1>w
    <3>2. CASE c = e
      <4>1. sent'[c] = Append(sent[c], m) /\ stream'[c] = stream[c] \o m
        BY <3>2, <2>2, <1>b
      <4> QED
        BY <3>1, <4>1, <2>3, <1>0, ClientSend
    <3>3. CASE c # e
      <4>1. sent'[c] = sent[c] /\ stream'[c] = stream[c]
        BY <3>3, <2>2, <1>b
      <4> QED
        BY <3>1, <4>1, <2>3 DEF ClientInv
    <3> QED
      BY <3>2, <3>3
  <2> QED
    BY <2>4, <2>5, <2>6
<1>3. CASE Tick
  BY <1>3, <1>f, <1>g DEF Tick, Write, netVars
<1>4. CASE OnDataReceived
  <2>1. PICK e \in Clients : connected[e] /\ serving' = e /\ \E n \in 1 .. Len(stream[e]) :
              /\ buffer' = [buffer EXCEPT ![e] = @ \o SubSeq(stream[e], 1, n)]
              /\ stream' = [stream EXCEPT ![e] = SubSeq(@, n + 1, Len(@))]
    BY <1>4 DEF OnDataReceived
  <2>2. PICK n \in 1 .. Len(stream[e]) :
              /\ buffer' = [buffer EXCEPT ![e] = @ \o SubSeq(stream[e], 1, n)]
              /\ stream' = [stream EXCEPT ![e] = SubSeq(@, n + 1, Len(@))]
    BY <2>1
  <2>3. pc = "idle" /\ pc' = "parse" /\ sent' = sent /\ connected' = connected
    BY <1>4 DEF OnDataReceived
  <2>4. ASSUME NEW c \in Clients PROVE ClientInv(c, d[c], w[c])'
    <3>1. ClientInv(c, d[c], w[c])
      BY <1>w
    <3>2. CASE c = e
      <4>1. /\ buffer'[c] = buffer[c] \o SubSeq(stream[c], 1, n)
            /\ stream'[c] = SubSeq(stream[c], n + 1, Len(stream[c]))
        BY <3>2, <2>2, <1>b
      <4>2. w[c] = d[c]
        BY <3>1, <3>2, <2>1, <2>3 DEF ClientInv
      <4>3. ClientInv(c, d[c], d[c])
        BY <3>1, <4>2
      <4>4. ClientInv(c, d[c], d[c])'
        BY <4>1, <4>3, <3>2, <2>1, <2>3, <1>0, ClientReceive
      <4> QED
        BY <4>2, <4>4
    <3>3. CASE c # e
      <4>1. buffer'[c] = buffer[c] /\ stream'[c] = stream[c]
        BY <3>3, <2>2, <1>b
      <4> QED
        BY <3>1, <3>3, <4>1, <2>1, <2>3 DEF ClientInv
    <3> QED
      BY <3>2, <3>3
  <2> QED
    BY <2>3, <2>4, <1>f DEF Write
<1>5. CASE SelectTimeout
  BY <1>5, <1>0, <1>f, <1>g DEF SelectTimeout, IoInv, Write, netVars
<1>6. CASE Parse
  <2>1. UNCHANGED <<buffer, stream, sent, serving>> /\ pc = "parse"
    BY <1>6 DEF Parse, Disconnect, netVars
  <2>2. \/ pc' = "idle" /\ ~IsComplete(buffer[serving]) /\ connected' = connected
        \/ pc' = "open" /\ connected' = connected
        \/ pc' = "idle" /\ connected' = [connected EXCEPT ![serving] = FALSE]
    BY <1>6 DEF Parse, Disconnect, netVars
  <2>3. ASSUME NEW c \in Clients PROVE ClientInv(c, d[c], w[c])'
    <3>1. ClientInv(c, d[c], w[c])
      BY <1>w
    <3>2. connected'[c] => connected[c]
      BY <2>2, <1>b
    <3>3. CASE c = serving
      <4>1. w[c] = d[c]
        BY <3>1, <3>3, <2>1 DEF ClientInv
      <4>2. ~connected'[c] \/ pc' = "open" \/ (pc' = "idle" /\ ~IsComplete(buffer[c]))
        BY <3>3, <2>2, <1>b
      <4> QED
        BY <3>1, <3>3, <4>1, <4>2, <2>1, <2>2 DEF ClientInv, AfterWrite
    <3>4. CASE c # serving
      BY <3>1, <3>2, <3>4, <2>1 DEF ClientInv
    <3> QED
      BY <3>3, <3>4
  <2> QED
    BY <2>1, <2>3, <1>f DEF Write
<1>7. CASE OpenIfNull \/ TestLimit \/ Commit \/ Reset
  <2>1. /\ UNCHANGED <<serving, buffer, stream, sent, connected>>
        /\ \/ pc = "open" /\ pc' = "write"
           \/ pc \in AfterWrite /\ pc' \in AfterWrite
    BY <1>7 DEF OpenIfNull, TestLimit, Commit, Reset, netVars, AfterWrite
  <2>2. ASSUME NEW c \in Clients PROVE ClientInv(c, d[c], w[c])'
    <3>1. ClientInv(c, d[c], w[c])
      BY <1>w
    <3> QED
      BY <3>1, <2>1 DEF ClientInv, AfterWrite
  <2> QED
    BY <2>1, <2>2, <1>f DEF Write, AfterWrite
<1>8. CASE Write
  <2>0. PICK w2 \in [Clients -> Nat] : w2 = [w EXCEPT ![serving] = @ + 1]
    <3>1. [w EXCEPT ![serving] = @ + 1] \in [Clients -> Nat]
      BY <1>s, <1>b
    <3> QED
      BY <3>1
  <2>1. /\ UNCHANGED <<serving, buffer, stream, sent, connected>>
        /\ pc = "write" /\ pc' = "limit"
    BY <1>8 DEF Write, netVars
  <2>2. ClientInv(serving, d[serving], w[serving]) /\ Ready(buffer[serving])
    BY <1>w, <1>b, <1>0, <2>1 DEF ServingInv, InWriteMessage
  <2>3. w[serving] = d[serving]
    BY <2>1, <2>2 DEF ClientInv
  <2>4. w[serving] < Len(sent[serving]) /\ Message(buffer[serving]) = sent[serving][w[serving] + 1]
    BY <2>2, <2>3, <1>0, <1>b, Served
  <2>6. Written' = Append(Written, sent[serving][w[serving] + 1])
    <3>1. Written' = Append(Written, Message(buffer[serving]))
      BY <1>8, WriteStep
    <3> QED
      BY <3>1, <2>4
  <2>7. KeptIn(Written', sent', w2)
    BY <2>0, <2>1, <2>4, <2>6, <1>0, <1>b, <1>w, WrittenType, KeptAppend
  <2>8. \A c \in Clients : w2[c] = IF c = serving THEN w[c] + 1 ELSE w[c]
    BY <2>0, <1>s, <1>b
  <2>9. ASSUME NEW c \in Clients PROVE ClientInv(c, d[c], w2[c])'
    <3>1. ClientInv(c, d[c], w[c])
      BY <1>w
    <3>2. CASE c = serving
      <4>1. w2[c] = d[c] + 1 /\ Ready(buffer[c])
        BY <3>2, <2>2, <2>3, <2>8
      <4> QED
        BY <3>1, <3>2, <4>1, <2>1 DEF ClientInv, AfterWrite
    <3>3. CASE c # serving
      <4>1. w2[c] = w[c]
        BY <3>3, <2>8
      <4> QED
        BY <3>1, <3>3, <4>1, <2>1 DEF ClientInv
    <3> QED
      BY <3>2, <3>3
  <2> QED
    BY <2>7, <2>9
<1>9. CASE RemoveMessage
  <2>0. PICK d2 \in [Clients -> Nat] : d2 = [d EXCEPT ![serving] = @ + 1]
    <3>1. [d EXCEPT ![serving] = @ + 1] \in [Clients -> Nat]
      BY <1>s, <1>b
    <3> QED
      BY <3>1
  <2>1. /\ UNCHANGED <<serving, stream, sent, connected>>
        /\ pc = "remove" /\ pc' = "parse"
        /\ buffer' = [buffer EXCEPT ![serving] = SubSeq(@, TotalSize(@) + 1, Len(@))]
    BY <1>9 DEF RemoveMessage
  <2>2. ClientInv(serving, d[serving], w[serving]) /\ Ready(buffer[serving])
    BY <1>w, <1>b, <1>0, <2>1 DEF ServingInv, InWriteMessage
  <2>3. w[serving] = d[serving] + 1
    BY <2>1, <2>2 DEF ClientInv, AfterWrite
  <2>4. KeptIn(Written', sent', w)
    BY <2>1, <1>w, WrittenStep DEF Write
  <2>5. \A c \in Clients : d2[c] = IF c = serving THEN d[c] + 1 ELSE d[c]
    BY <2>0, <1>s, <1>b
  <2>6. ASSUME NEW c \in Clients PROVE ClientInv(c, d2[c], w[c])'
    <3>1. ClientInv(c, d[c], w[c])
      BY <1>w
    <3>2. CASE c = serving
      <4>1. w[c] = d[c] + 1 /\ d2[c] = d[c] + 1 /\ Ready(buffer[c])
        BY <3>2, <2>2, <2>3, <2>5
      <4>2. buffer'[c] = SubSeq(buffer[c], TotalSize(buffer[c]) + 1, Len(buffer[c]))
        BY <3>2, <2>1, <1>b
      <4>3. ClientInv(c, d[c], d[c] + 1)
        BY <3>1, <4>1
      <4>4. ClientInv(c, d[c] + 1, d[c] + 1)'
        BY <3>2, <4>1, <4>2, <4>3, <2>1, <1>0, ClientRemove
      <4> QED
        BY <4>1, <4>4
    <3>3. CASE c # serving
      <4>1. d2[c] = d[c] /\ buffer'[c] = buffer[c]
        BY <3>3, <2>1, <2>5, <1>b
      <4> QED
        BY <3>1, <3>3, <4>1, <2>1 DEF ClientInv
    <3> QED
      BY <3>2, <3>3
  <2> QED
    BY <2>4, <2>6
<1>10. CASE UnixError
  <2>1. /\ UNCHANGED <<serving, buffer, stream, sent>> /\ pc' = "idle"
        /\ connected' = [connected EXCEPT ![serving] = FALSE]
    BY <1>10 DEF UnixError, Disconnect
  <2>2. ASSUME NEW c \in Clients PROVE ClientInv(c, d[c], w[c])'
    <3>1. ClientInv(c, d[c], w[c])
      BY <1>w
    <3>2. IF c = serving THEN ~connected'[c] ELSE connected'[c] = connected[c]
      BY <2>1, <1>b
    <3> QED
      BY <3>1, <3>2, <2>1 DEF ClientInv, AfterWrite
  <2> QED
    BY <2>1, <2>2, <1>f DEF Write
<1>11. CASE TerminateStatsServer
  <2>1. UNCHANGED <<pc, serving, netVars>>
    BY <1>11 DEF TerminateStatsServer, Crash
  <2> QED
    BY <2>1, <1>f, <1>g DEF Write, netVars
<1>12. CASE UseOfClosed \/ UseOfNull
  BY <1>12 DEF UseOfClosed, UseOfNull, Crash
<1>13. CASE Done
  BY <1>13, <1>1 DEF Done
<1> QED
  BY <1>1, <1>2, <1>3, <1>4, <1>5, <1>6, <1>7, <1>8, <1>9, <1>10, <1>11, <1>12, <1>13, Zenon
     DEF Next, ServerStep
\* The invariant holds when the server starts.
LEMMA StatsInit ==
    ASSUME Init
    PROVE  StatsInv
<1>1. \A c \in Clients : /\ sent[c] = <<>> /\ buffer[c] = <<>> /\ stream[c] = <<>>
  BY DEF Init
<1>2. <<>> \in Seq(Seq(Cell)) /\ <<>> \in Seq(Cell) /\ Len(<<>>) = 0
  OBVIOUS
<1>3. SentOK(sent)
  <2>1. sent \in [Clients -> Seq(Seq(Cell))]
    BY <1>2 DEF Init
  <2> QED
    BY <1>1, <2>1 DEF SentOK
<1>4. NetInv
  BY <1>2, <1>3, StatsAssumption DEF Init, NetInv, PcValues
<1>5. IoInv
  BY <1>2 DEF Init, IoInv, CrashesOnlyAfterFault
<1>6. NameInv
  BY DEF Init, NameInv
<1>7. ServingInv
  BY DEF Init, ServingInv, InWriteMessage
<1>8. KeptInv
  <2> DEFINE z == [c \in Clients |-> 0]
  <2>1. z \in [Clients -> Nat] /\ \A c \in Clients : z[c] = 0
    OBVIOUS
  <2>2. Written = <<>>
    BY DEF Init, Written
  <2> HIDE DEF z
  <2>3. KeptIn(Written, sent, z)
    BY <1>1, <1>2, <2>1, <2>2 DEF KeptIn
  <2>4. ASSUME NEW c \in Clients PROVE ClientInv(c, z[c], z[c])
    <3>1. <<>> \o <<>> = <<>>
      OBVIOUS
    <3>2. Frames(sent[c], buffer[c] \o stream[c], 0)
      BY <1>1, <3>1, FramesEmpty
    <3>3. ~IsComplete(buffer[c])
      BY <1>1 DEF IsComplete, HEADER
    <3> QED
      BY <2>1, <3>2, <3>3 DEF ClientInv, Init, AfterWrite
  <2> QED
    BY <2>1, <2>3, <2>4 DEF KeptInv
<1> QED
  BY <1>4, <1>5, <1>6, <1>7, <1>8 DEF StatsInv

\* A message has arrived in full when it was removed from the buffer, or is complete
\* in it.
LEMMA ArrivedSize ==
    ASSUME NetInv, NEW c \in Clients, NEW d, Frames(sent[c], buffer[c] \o stream[c], d),
           NEW k \in 1 .. Len(sent[c])
    PROVE  /\ d \in Nat /\ k \in Nat
           /\ k <= d => Size(sent[c], k) <= Received(c)
           /\ k = d + 1 /\ IsComplete(buffer[c]) => Size(sent[c], k) <= Received(c)
           /\ k > d /\ ~IsComplete(buffer[c]) => ~(Size(sent[c], k) <= Received(c))
<1> DEFINE s == sent[c]
           b == buffer[c]
           st == stream[c]
           n == Len(s)
           lb == Len(b)
           lst == Len(st)
           z(i) == Size(s, i)
<1>0. s \in Seq(Seq(Cell)) /\ b \in Seq(Cell) /\ st \in Seq(Cell) /\ Frames(s, b \o st, d)
  BY DEF NetInv, SentOK
<1>1. /\ IsComplete(b) => d < n /\ Len(s[d + 1]) <= lb
      /\ d < n /\ ~IsComplete(b) => ~(Len(s[d + 1]) <= lb)
  <2>1. lb \in Nat
    BY <1>0, LenProperties
  <2>2. IsComplete(b) => lb > 0
    BY <2>1 DEF IsComplete, HEADER
  <2> QED
    BY <2>2, HeadOfBuffer, Zenon
<1>2. Received(c) = z(n) - lst
  BY DEF Received
<1> HIDE DEF s, b, st
<1>3. n \in Nat /\ lb \in Nat /\ lst \in Nat /\ Len(b \o st) = lb + lst
  BY <1>0, LenProperties, ConcatProperties
<1>4. d \in 0 .. n /\ d \in Nat /\ d <= n /\ lb + lst = z(n) - z(d)
  BY <1>0, <1>3 DEF Frames
<1>5. k \in 0 .. n /\ k \in Nat /\ k <= n /\ n \in 0 .. n
  BY <1>3 DEF s
<1>6. z(n) \in Nat /\ z(d) \in Nat /\ z(k) \in Nat
  BY <1>0, <1>4, <1>5, SizeFacts
<1>7. k <= d => z(k) <= z(d)
  BY <1>0, <1>4, <1>5, SizeFacts
<1>8. d < n => /\ z(d + 1) \in Nat /\ Len(s[d + 1]) \in Nat
               /\ z(d + 1) = z(d) + Len(s[d + 1])
               /\ k > d => z(d + 1) <= z(k)
  <2> SUFFICES ASSUME d < n
               PROVE  /\ z(d + 1) \in Nat /\ Len(s[d + 1]) \in Nat
                      /\ z(d + 1) = z(d) + Len(s[d + 1])
                      /\ k > d => z(d + 1) <= z(k)
    OBVIOUS
  <2>1. d + 1 \in 1 .. n /\ d + 1 \in 0 .. n /\ (d + 1) - 1 = d
    BY <1>3, <1>4
  <2>2. s[d + 1] \in Seq(Cell)
    BY <1>0, <2>1, ElementOfSeq
  <2>3. Len(s[d + 1]) \in Nat
    BY <2>2, LenProperties
  <2>4. z(d + 1) \in Nat
    BY <1>0, <2>1, SizeFacts
  <2>5. z(d + 1) = z(d) + Len(s[d + 1])
    BY <1>0, <2>1, SizeFacts
  <2>6. k > d => d + 1 <= k
    BY <1>4, <1>5
  <2>7. d + 1 <= k => z(d + 1) <= z(k)
    BY <1>0, <1>5, <2>1, SizeFacts
  <2> QED
    BY <2>3, <2>4, <2>5, <2>6, <2>7
<1> HIDE DEF z, n, lb, lst
<1>9. z(n) - lst = z(d) + lb
  BY <1>3, <1>4, <1>6
<1>10. k <= d => z(k) <= Received(c)
  BY <1>2, <1>3, <1>6, <1>7, <1>9
<1>11. k = d + 1 /\ IsComplete(b) => z(k) <= Received(c)
  BY <1>1, <1>2, <1>3, <1>6, <1>8, <1>9
<1>12. k > d /\ ~IsComplete(b) => ~(z(k) <= Received(c))
  <2> SUFFICES ASSUME k > d, ~IsComplete(b) PROVE ~(z(k) <= z(d) + lb)
    BY <1>2, <1>9
  <2>1. d < n
    BY <1>3, <1>4, <1>5
  <2> DEFINE l == Len(s[d + 1])
  <2>2. ~ (l <= lb) /\ z(d + 1) = z(d) + l /\ z(d + 1) <= z(k) /\ l \in Nat
    BY <2>1, <1>1, <1>8
  <2> HIDE DEF l
  <2> QED
    BY <2>2, <1>3, <1>6
<1> QED
  BY <1>4, <1>5, <1>10, <1>11, <1>12 DEF z, s, b
\* What the invariant says of the types and of the reads of WriteMessage.
LEMMA StatsTyped ==
    ASSUME StatsInv
    PROVE  TypeOK
<1>0. NetInv /\ IoInv /\ NameInv
  BY DEF StatsInv
<1>1. Len(outputStream) <= 1
  <2>1. CASE outputStream = <<>>
    BY <2>1
  <2>2. CASE outputStream # <<>>
    <3>1. PICK t \in Transactions : outputStream = <<t>>
      BY <1>0, <2>2 DEF IoInv
    <3> QED
      BY <3>1
  <2> QED
    BY <2>1, <2>2
<1>2. pc \in InWriteMessage => TotalSize(buffer[serving]) <= Len(buffer[serving])
  <2> SUFFICES ASSUME pc \in InWriteMessage
               PROVE  TotalSize(buffer[serving]) <= Len(buffer[serving])
    OBVIOUS
  <2> QED
    BY ServedMessage
<1>3. \A t \in DOMAIN files : t \in 1 .. now
  BY <1>0 DEF NameInv
<1> QED
  BY <1>0, <1>1, <1>2, <1>3 DEF TypeOK, NetInv, IoInv, NameInv, PcValues, InWriteMessage

\* The account of the invariant is the one of the reference.
LEMMA StatsKept ==
    ASSUME StatsInv
    PROVE  MessagesAreKept
<1> SUFFICES ASSUME pc = "idle", NEW c \in Clients
             PROVE  LET kept == {NumberOf(i) : i \in Of(c)}
                    IN  /\ \A i \in Of(c) : Written[i] = sent[c][NumberOf(i)]
                        /\ \A i, j \in Of(c) : i < j => NumberOf(i) < NumberOf(j)
                        /\ kept \subseteq Arrived(c)
                        /\ \A k \in Arrived(c) :
                              (connected[c] \/ \E l \in kept : k < l) => k \in kept
  BY DEF MessagesAreKept
<1>0. NetInv /\ IoInv /\ KeptInv
  BY DEF StatsInv
<1>d. PICK d \in [Clients -> Nat] : \E w \in [Clients -> Nat] :
             KeptIn(Written, sent, w) /\ \A e \in Clients : ClientInv(e, d[e], w[e])
  BY <1>0 DEF KeptInv
<1>w. PICK w \in [Clients -> Nat] :
             KeptIn(Written, sent, w) /\ \A e \in Clients : ClientInv(e, d[e], w[e])
  BY <1>d
<1> DEFINE x == d[c]
           y == w[c]
           s == sent[c]
           kept == {NumberOf(i) : i \in Of(c)}
<1>1. /\ x \in Nat /\ y \in Nat /\ y <= Len(s) /\ ClientInv(c, x, y)
      /\ SentOK(sent) /\ s \in Seq(Seq(Cell))
  BY <1>0, <1>w DEF KeptIn, NetInv, SentOK
<1>2. Len(s) \in Nat
  BY <1>1, LenProperties
<1>3. Frames(s, buffer[c] \o stream[c], x) /\ \A i \in 1 .. x : Valid(s[i])
  BY <1>1 DEF ClientInv
\* What is written of c.
<1>4. ASSUME NEW i \in Of(c)
      PROVE  /\ i \in 1 .. Len(Written) /\ HasBody(Written[i]) /\ Written[i][3][1] = c
             /\ NumberOf(i) \in 1 .. y /\ Written[i] = s[NumberOf(i)]
  <2>1. i \in 1 .. Len(Written) /\ HasBody(Written[i]) /\ Written[i][3][1] = c
    BY <1>4 DEF Of
  <2>2. PICK e \in Clients : \E k \in 1 .. w[e] :
                Written[i] = sent[e][k] /\ Written[i][3] = <<e, k, 1>>
    BY <2>1, <1>1, <1>w, KeptBody
  <2>3. PICK k \in 1 .. w[e] : Written[i] = sent[e][k] /\ Written[i][3] = <<e, k, 1>>
    BY <2>2
  <2>4. e = c /\ NumberOf(i) = k
    BY <2>1, <2>3 DEF NumberOf
  <2> QED
    BY <2>1, <2>3, <2>4
\* Every message of c with a body, up to y, is.
<1>5. ASSUME NEW k \in 1 .. y, HasBody(s[k])
      PROVE  k \in kept
  <2>1. PICK i \in 1 .. Len(Written) : Written[i] = s[k]
    BY <1>w, <1>5 DEF KeptIn
  <2>2. k \in 1 .. Len(s) /\ k \in Nat
    BY <1>1, <1>2
  <2>3. IsMessage(c, k, s[k])
    BY <1>1, <2>2 DEF SentOK
  <2>4. s[k][3] = <<c, k, 1>>
    BY <1>5, <2>2, <2>3, MessageShape
  <2>5. HasBody(Written[i]) /\ Written[i][3][1] = c /\ NumberOf(i) = k
    BY <1>5, <2>1, <2>4 DEF NumberOf
  <2>6. i \in Of(c)
    BY <2>5 DEF Of
  <2> QED
    BY <2>5, <2>6
<1>6. \A i \in Of(c) : Written[i] = sent[c][NumberOf(i)]
  BY <1>4
<1>7. ASSUME NEW i \in Of(c), NEW j \in Of(c), i < j PROVE NumberOf(i) < NumberOf(j)
  <2>1. /\ i \in 1 .. Len(Written) /\ HasBody(Written[i]) /\ Written[i][3][1] = c
        /\ j \in 1 .. Len(Written) /\ HasBody(Written[j]) /\ Written[j][3][1] = c
    BY <1>4
  <2> QED
    BY <1>w, <1>7, <2>1 DEF KeptIn, NumberOf
<1>8. ASSUME NEW i \in Of(c) PROVE NumberOf(i) \in Arrived(c)
  <2> DEFINE k == NumberOf(i)
  <2>1. k \in 1 .. y /\ HasBody(s[k])
    BY <1>4
  <2> HIDE DEF k
  <2>2. k \in 1 .. Len(s) /\ k \in Nat
    BY <1>1, <1>2, <2>1
  <2>3. y = x \/ (y = x + 1 /\ Ready(buffer[c]))
    BY <1>1 DEF ClientInv
  <2>4. CASE k <= x
    <3>1. Size(s, k) <= Received(c)
      BY <1>0, <1>3, <2>2, <2>4, ArrivedSize
    <3>2. \A l \in 1 .. k : Valid(s[l])
      BY <1>1, <1>3, <2>2, <2>4
    <3> QED
      BY <2>1, <2>2, <3>1, <3>2 DEF Arrived, k
  <2>5. CASE k = x + 1 /\ Ready(buffer[c])
    <3>1. IsComplete(buffer[c])
      BY <2>5 DEF Ready
    <3>2. Size(s, k) <= Received(c)
      BY <1>0, <1>3, <2>2, <2>5, <3>1, ArrivedSize
    <3>3. Valid(s[x + 1])
      BY <1>0, <1>1, <2>5, Served
    <3>4. \A l \in 1 .. k : l \in 1 .. x \/ l = x + 1
      BY <1>1, <2>5
    <3>5. \A l \in 1 .. k : Valid(s[l])
      BY <1>3, <3>3, <3>4
    <3> QED
      BY <2>1, <2>2, <3>2, <3>5 DEF Arrived, k
  <2> QED
    BY <1>1, <2>1, <2>2, <2>3, <2>4, <2>5
<1>9. ASSUME NEW k \in Arrived(c), connected[c] \/ \E l \in kept : k < l
      PROVE  k \in kept
  <2>1. k \in 1 .. Len(s) /\ HasBody(s[k]) /\ Size(s, k) <= Received(c)
    BY <1>9 DEF Arrived
  <2>2. CASE connected[c]
    <3>1. y = x /\ ~IsComplete(buffer[c])
      BY <1>1, <2>2 DEF ClientInv
    <3>2. ~ (k > x)
      BY <1>0, <1>3, <2>1, <3>1, ArrivedSize
    <3>3. k \in 1 .. y
      BY <1>1, <1>2, <2>1, <3>1, <3>2
    <3> QED
      BY <1>5, <2>1, <3>3
  <2>3. CASE \E l \in kept : k < l
    <3>1. PICK i \in Of(c) : k < NumberOf(i)
      BY <2>3
    <3>2. NumberOf(i) \in 1 .. y
      BY <1>4
    <3>3. k \in 1 .. y
      BY <1>1, <1>2, <2>1, <3>1, <3>2
    <3> QED
      BY <1>5, <2>1, <3>3
  <2> QED
    BY <1>9, <2>2, <2>3
<1>10. kept \subseteq Arrived(c)
  BY <1>8
<1> QED
  BY <1>6, <1>7, <1>9, <1>10

-----------------------------------------------------------------------------
(* Theorems.                                                                *)

\* The server's account of every client's messages (StatsMessageBuffer, WriteMessage
\* and the transaction) is kept in every step, whatever the sizes, the cuts of the
\* streams, the faults and the signals.
THEOREM StatsInvariant == Spec => []StatsInv
<1>1. StatsInv /\ [Next]_vars => StatsInv'
  BY NetStep, IoStep, NameStep, ServingStep, KeptStep DEF StatsInv
<1> QED
  BY StatsInit, <1>1, PTL DEF Spec

\* Every message that arrived is written whole, once and in its client's order, and
\* WriterHandler reads only what is in its buffer; the server dies only of a fault
\* or a signal.
THEOREM StatsCorrect == Spec => []StatsAreKept
<1>1. StatsInv => StatsAreKept
  BY StatsTyped, StatsKept DEF StatsAreKept, StatsInv, IoInv
<1> QED
  BY StatsInvariant, <1>1, PTL

\* WriteMessage commits a file only under a name that no committed file has.
THEOREM FilesCorrect == Spec => FilesAreNotOverwritten
<1>1. ASSUME StatsInv, [Next]_vars
      PROVE  [signals' = 0 => \A t \in DOMAIN files : files'[t] = files[t]]_<<files, signals>>
  <2> SUFFICES ASSUME signals' = 0, NEW t \in DOMAIN files
               PROVE  files'[t] = files[t]
    OBVIOUS
  <2>0. IoInv /\ NameInv
    BY <1>1 DEF StatsInv
  <2>1. CASE Commit
    <3>1. signals = 0 /\ pc # "reset" /\ outputStream # <<>> /\ CommitFile
      BY <2>1 DEF Commit
    <3>2. t < outputStream[1].name /\ t \in Nat
      BY <2>0, <3>1 DEF NameInv
    <3>3. t # outputStream[1].name
      BY <2>0, <3>1, <3>2 DEF NameInv
    <3>4. files' = [u \in DOMAIN files \cup {outputStream[1].name} |->
                       IF u = outputStream[1].name THEN outputStream[1].content ELSE files[u]]
      BY <3>1 DEF CommitFile
    <3> QED
      BY <3>3, <3>4
  <2>2. CASE TerminateStatsServer
    BY <2>0, <2>2 DEF TerminateStatsServer, IoInv
  <2>3. CASE SelectTimeout
    BY <2>0, <2>3 DEF SelectTimeout, ioVars, IoInv
  <2>4. CASE ~Commit /\ ~TerminateStatsServer /\ ~SelectTimeout
    BY <1>1, <2>4 DEF Next, Send, Tick, ServerStep, OnDataReceived, Parse, OpenIfNull, Write, TestLimit,
         Reset, RemoveMessage, UnixError, UseOfClosed, UseOfNull, Crash, Done, vars, ioVars
  <2> QED
    BY <2>1, <2>2, <2>3, <2>4
<1> QED
  BY StatsInvariant, <1>1, PTL DEF Spec, FilesAreNotOverwritten
=============================================================================
