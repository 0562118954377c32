--------------------------- MODULE FileSinkProofs ---------------------------
(***************************************************************************)
(* Machine-checked proofs about FileSink, for every number of transactions *)
(* and ends, every length of every line and every capacity of the writer.  *)
(***************************************************************************)
EXTENDS FileSink, Recursion

Byte == {Newline, Hole} \cup {<<t, i, k>> : t \in Tx, i \in DOMAIN LineLengths, k \in Nat}

-----------------------------------------------------------------------------
(* Events in a sequence of bytes.                                          *)

\* t begins with s.
Extends(s, t) == Len(s) <= Len(t) /\ \A k \in 1..Len(s) : t[k] = s[k]

Holds(s, e) == \E a \in 1..Len(s) : StandsAt(s, e, a)

\* Before every copy of an event stands one of the event before it.
GapFree(s) ==
    \A d, e \in Events : Precedes(d, e) =>
        \A b \in 1..Len(s) : StandsAt(s, e, b) => \E a \in 1..(b - 1) : StandsAt(s, d, a)

\* Every line has a positive length.
LEMMA LinesHaveLength ==
  ASSUME NEW e \in Events
  PROVE  LineLengths[e[2]] \in Nat /\ LineLengths[e[2]] >= 1
BY SinkAssumption DEF Events

\* No byte of an event is a newline, or what a failed sync leaves.
LEMMA BytesDiffer ==
  ASSUME NEW t, NEW i, NEW k
  PROVE  <<t, i, k>> # Newline /\ <<t, i, k>> # Hole
BY DEF Newline, Hole

\* A copy stays where it is when the sequence grows ...
LEMMA StandsOn ==
  ASSUME NEW s \in Seq(Byte), NEW t \in Seq(Byte), Extends(s, t),
         NEW e \in Events, NEW a \in Nat \ {0}, StandsAt(s, e, a)
  PROVE  StandsAt(t, e, a)
<1> DEFINE n == LineLengths[e[2]]
<1>1. n \in Nat /\ Len(s) \in Nat /\ Len(t) \in Nat /\ Len(s) <= Len(t)
  BY LinesHaveLength DEF Extends
<1>2. a + n - 1 <= Len(s) /\ \A k \in 1..n : s[a + k - 1] = <<e[1], e[2], k>>
  BY DEF StandsAt
<1> HIDE DEF n
<1>3. ASSUME NEW k \in 1..n
      PROVE  t[a + k - 1] = <<e[1], e[2], k>>
  <2>1. a + k - 1 \in 1..Len(s)
    BY <1>1, <1>2
  <2>2. t[a + k - 1] = s[a + k - 1]
    BY <2>1 DEF Extends
  <2>3. QED
    BY <1>2, <2>2
<1>4. a + n - 1 <= Len(t)
  BY <1>1, <1>2
<1>5. QED
  BY <1>3, <1>4 DEF StandsAt, n

\* ... and when what is cut off lies behind it.
LEMMA StandsStill ==
  ASSUME NEW s \in Seq(Byte), NEW t \in Seq(Byte), Extends(s, t),
         NEW e \in Events, NEW a \in Nat \ {0}, StandsAt(t, e, a),
         a + LineLengths[e[2]] - 1 <= Len(s)
  PROVE  StandsAt(s, e, a)
<1> DEFINE n == LineLengths[e[2]]
<1>1. n \in Nat /\ Len(s) \in Nat /\ Len(t) \in Nat /\ Len(s) <= Len(t)
  BY LinesHaveLength DEF Extends
<1>2. a + n - 1 <= Len(s) /\ \A k \in 1..n : t[a + k - 1] = <<e[1], e[2], k>>
  BY DEF StandsAt
<1> HIDE DEF n
<1>3. ASSUME NEW k \in 1..n
      PROVE  s[a + k - 1] = <<e[1], e[2], k>>
  <2>1. a + k - 1 \in 1..Len(s)
    BY <1>1, <1>2
  <2>2. t[a + k - 1] = s[a + k - 1]
    BY <2>1 DEF Extends
  <2>3. QED
    BY <1>2, <2>2
<1>4. QED
  BY <1>2, <1>3 DEF StandsAt, n

\* Growing keeps what is held.
LEMMA HoldsOn ==
  ASSUME NEW s \in Seq(Byte), NEW t \in Seq(Byte), Extends(s, t),
         NEW e \in Events, Holds(s, e)
  PROVE  Holds(t, e)
<1>1. PICK a \in 1..Len(s) : StandsAt(s, e, a)
  BY DEF Holds
<1>2. a \in 1..Len(t) /\ StandsAt(t, e, a)
  BY <1>1, StandsOn DEF Extends
<1>3. QED
  BY <1>2 DEF Holds

\* Copies of different events do not overlap.
LEMMA CopiesApart ==
  ASSUME NEW s \in Seq(Byte), NEW d \in Events, NEW e \in Events, d # e,
         NEW a \in Nat \ {0}, NEW b \in Nat \ {0}, a < b,
         StandsAt(s, d, a), StandsAt(s, e, b)
  PROVE  a + LineLengths[d[2]] - 1 < b
<1>1. SUFFICES ASSUME b <= a + LineLengths[d[2]] - 1 PROVE FALSE
  BY LinesHaveLength
<1>2. b - a + 1 \in 1..LineLengths[d[2]] /\ 1 \in 1..LineLengths[e[2]]
  BY <1>1, LinesHaveLength
<1>3. s[b] = <<d[1], d[2], b - a + 1>>
  <2>1. s[a + (b - a + 1) - 1] = <<d[1], d[2], b - a + 1>>
    BY <1>2 DEF StandsAt
  <2>2. QED
    BY <2>1
<1>4. s[b] = <<e[1], e[2], 1>>
  <2>1. s[b + 1 - 1] = <<e[1], e[2], 1>>
    BY <1>2 DEF StandsAt
  <2>2. QED
    BY <2>1
<1>5. d[1] = e[1] /\ d[2] = e[2]
  BY <1>3, <1>4
<1>6. QED
  BY <1>5 DEF Events

\* An event is not the one before it.
LEMMA PrecedesIrreflexive ==
  ASSUME NEW d \in Events, NEW e \in Events, Precedes(d, e)
  PROVE  d # e
<1>1. d[1] \in Int /\ d[2] \in Int
  BY SinkAssumption DEF Events, Tx
<1>2. d[1] # e[1] \/ d[2] # e[2]
  BY <1>1 DEF Precedes
<1>3. QED
  BY <1>2

\* A beginning of a beginning is one.
LEMMA ExtendsTransitive ==
  ASSUME NEW s \in Seq(Byte), NEW t \in Seq(Byte), NEW u \in Seq(Byte),
         Extends(s, t), Extends(t, u)
  PROVE  Extends(s, u)
<1>1. /\ Len(s) \in Nat /\ Len(t) \in Nat /\ Len(u) \in Nat
      /\ Len(s) <= Len(t) /\ Len(t) <= Len(u)
  BY DEF Extends
<1>2. \A k \in 1..Len(s) : k \in 1..Len(t) /\ t[k] = s[k] /\ u[k] = t[k]
  BY <1>1 DEF Extends
<1>3. QED
  BY <1>1, <1>2 DEF Extends

\* Cutting off the end opens no gap.
LEMMA CutGapFree ==
  ASSUME NEW s \in Seq(Byte), NEW t \in Seq(Byte), Extends(s, t), GapFree(t)
  PROVE  GapFree(s)
<1> SUFFICES ASSUME NEW d \in Events, NEW e \in Events, Precedes(d, e),
                    NEW b \in 1..Len(s), StandsAt(s, e, b)
             PROVE  \E a \in 1..(b - 1) : StandsAt(s, d, a)
  BY DEF GapFree
<1>1. b \in 1..Len(t) /\ StandsAt(t, e, b)
  BY StandsOn DEF Extends
<1>2. PICK a \in 1..(b - 1) : StandsAt(t, d, a)
  BY <1>1 DEF GapFree
<1>3. a + LineLengths[d[2]] - 1 < b
  BY <1>1, <1>2, PrecedesIrreflexive, CopiesApart
<1>4. StandsAt(s, d, a)
  BY <1>2, <1>3, StandsStill, LinesHaveLength
<1>5. QED
  BY <1>2, <1>4

\* Neither do holes behind the end.
LEMMA HolesGapFree ==
  ASSUME NEW s \in Seq(Byte), NEW t \in Seq(Byte), Extends(s, t), GapFree(s),
         \A k \in (Len(s) + 1)..Len(t) : t[k] = Hole
  PROVE  GapFree(t)
<1> SUFFICES ASSUME NEW d \in Events, NEW e \in Events, Precedes(d, e),
                    NEW b \in 1..Len(t), StandsAt(t, e, b)
             PROVE  \E a \in 1..(b - 1) : StandsAt(t, d, a)
  BY DEF GapFree
<1> DEFINE n == LineLengths[e[2]]
           last == b + n - 1
<1>1. n \in Nat /\ n >= 1 /\ last \in Nat /\ last <= Len(t) /\ b <= last
  BY LinesHaveLength DEF StandsAt
<1>2. t[last] = <<e[1], e[2], n>>
  <2>1. n \in 1..n
    BY <1>1
  <2>2. t[b + n - 1] = <<e[1], e[2], n>>
    BY <2>1 DEF StandsAt
  <2>3. QED
    BY <2>2
<1>3. last <= Len(s)
  <2>1. t[last] # Hole
    BY <1>2, BytesDiffer
  <2>2. Len(s) \in Nat
    OBVIOUS
  <2>3. ASSUME ~(last <= Len(s))
        PROVE  FALSE
    <3>1. last \in (Len(s) + 1)..Len(t)
      BY <1>1, <2>2, <2>3
    <3>2. QED
      BY <2>1, <3>1
  <2>4. QED
    BY <2>3
<1>4. StandsAt(s, e, b) /\ b \in 1..Len(s)
  BY <1>1, <1>3, StandsStill
<1>5. PICK a \in 1..(b - 1) : StandsAt(s, d, a)
  BY <1>4 DEF GapFree
<1>6. QED
  BY <1>5, StandsOn

\* What is held is held where a hole covers less.
LEMMA HoldsUncovered ==
  ASSUME NEW s \in Seq(Byte), NEW t \in Seq(Byte), Len(s) = Len(t),
         \A k \in 1..Len(s) : s[k] = Hole \/ s[k] = t[k],
         NEW e \in Events, Holds(s, e)
  PROVE  Holds(t, e)
<1> DEFINE n == LineLengths[e[2]]
<1>1. PICK a \in 1..Len(s) : StandsAt(s, e, a)
  BY DEF Holds
<1>2. n \in Nat /\ Len(s) \in Nat /\ a + n - 1 <= Len(s)
  BY <1>1, LinesHaveLength DEF StandsAt
<1>3. ASSUME NEW k \in 1..n
      PROVE  t[a + k - 1] = <<e[1], e[2], k>>
  <2>1. s[a + k - 1] = <<e[1], e[2], k>>
    BY <1>1 DEF StandsAt
  <2>2. a + k - 1 \in 1..Len(s)
    BY <1>2
  <2>3. QED
    BY <2>1, <2>2, BytesDiffer
<1> HIDE DEF n
<1>4. StandsAt(t, e, a)
  BY <1>2, <1>3 DEF StandsAt, n
<1>5. QED
  BY <1>4 DEF Holds

\* A piece of a transaction opens no gap behind a sequence that holds every
\* event before it.
LEMMA AppendGapFree ==
  ASSUME NEW s \in Seq(Byte), NEW p \in Seq(Byte), GapFree(s),
         \/ p = <<Newline>>
         \/ \E c \in Events : /\ p = Text(c[1], c[2])
                              /\ \A d \in Events : Precedes(d, c) => Holds(s, d)
  PROVE  GapFree(s \o p)
<1> DEFINE t == s \o p
<1>1. t \in Seq(Byte) /\ Len(t) = Len(s) + Len(p) /\ Extends(s, t)
      /\ \A j \in 1..Len(p) : t[Len(s) + j] = p[j]
  <2>1. \A k \in 1..(Len(s) + Len(p)) :
            t[k] = IF k <= Len(s) THEN s[k] ELSE p[k - Len(s)]
    BY ConcatProperties
  <2>2. t \in Seq(Byte) /\ Len(t) = Len(s) + Len(p)
    BY ConcatProperties
  <2>3. Len(s) \in Nat /\ Len(p) \in Nat
    OBVIOUS
  <2>4. \A j \in 1..Len(p) : t[Len(s) + j] = p[j]
    BY <2>1, <2>3
  <2>5. Extends(s, t)
    BY <2>1, <2>2, <2>3 DEF Extends
  <2>6. QED
    BY <2>2, <2>4, <2>5
<1> HIDE DEF t
<1> SUFFICES ASSUME NEW d \in Events, NEW e \in Events, Precedes(d, e),
                    NEW b \in 1..Len(t), StandsAt(t, e, b)
             PROVE  \E a \in 1..(b - 1) : StandsAt(t, d, a)
  BY DEF GapFree, t
<1> DEFINE n == LineLengths[e[2]]
           last == b + n - 1
<1>2. n \in Nat /\ n >= 1 /\ last \in Nat /\ last <= Len(t) /\ b <= last
      /\ Len(s) \in Nat /\ Len(p) \in Nat
  BY LinesHaveLength DEF StandsAt
<1>3. t[last] = <<e[1], e[2], n>>
  <2>1. n \in 1..n
    BY <1>2
  <2>2. t[b + n - 1] = <<e[1], e[2], n>>
    BY <2>1 DEF StandsAt
  <2>3. QED
    BY <2>2
<1> HIDE DEF n
<1>4. CASE last <= Len(s)
  <2>1. StandsAt(s, e, b) /\ b \in 1..Len(s)
    BY <1>1, <1>2, <1>4, StandsStill DEF n
  <2>2. PICK a \in 1..(b - 1) : StandsAt(s, d, a)
    BY <2>1 DEF GapFree
  <2>3. QED
    BY <1>1, <2>2, StandsOn
<1>5. CASE last > Len(s)
  <2> DEFINE j == last - Len(s)
  <2>1. j \in 1..Len(p) /\ Len(s) + j = last
    BY <1>1, <1>2, <1>5
  <2>2. p[j] = <<e[1], e[2], n>>
    BY <1>1, <1>3, <2>1
  <2>3. p # <<Newline>>
    <3>1. SUFFICES ASSUME p = <<Newline>> PROVE FALSE
      OBVIOUS
    <3>2. j = 1 /\ p[1] = Newline
      BY <2>1, <3>1
    <3>3. QED
      BY <2>2, <3>2, BytesDiffer
  <2>4. PICK c \in Events : /\ p = Text(c[1], c[2])
                            /\ \A x \in Events : Precedes(x, c) => Holds(s, x)
    BY <2>3
  <2>5. p[j] = <<c[1], c[2], j>>
    <3>1. j \in DOMAIN p
      BY <2>1
    <3>2. QED
      BY <2>4, <3>1 DEF Text
  <2>6. e = c /\ j = n
    <3>1. <<c[1], c[2], j>> = <<e[1], e[2], n>>
      BY <2>2, <2>5
    <3>2. c = <<c[1], c[2]>> /\ e = <<e[1], e[2]>>
      BY DEF Events
    <3>3. QED
      BY <3>1, <3>2
  <2>7. b = Len(s) + 1
    BY <1>2, <2>1, <2>6
  <2>8. PICK a \in 1..Len(s) : StandsAt(s, d, a)
    BY <2>4, <2>6 DEF Holds
  <2>9. StandsAt(t, d, a) /\ a \in 1..(b - 1)
    BY <1>1, <2>7, <2>8, StandsOn
  <2>10. QED
    BY <2>9
<1>6. QED
  BY <1>2, <1>4, <1>5

-----------------------------------------------------------------------------
(* What the sink does to sequences of bytes.                               *)

\* f with holes where h says.
Punched(f, h) == [k \in DOMAIN f |-> IF k \in h THEN Hole ELSE f[k]]

\* Holes change no length.
LEMMA PunchedType ==
  ASSUME NEW f \in Seq(Byte), NEW h
  PROVE  /\ Punched(f, h) \in Seq(Byte) /\ Len(Punched(f, h)) = Len(f)
         /\ \A k \in 1..Len(f) : Punched(f, h)[k] = IF k \in h THEN Hole ELSE f[k]
<1> DEFINE n == Len(f)
           g == [k \in 1..n |-> IF k \in h THEN Hole ELSE f[k]]
<1>1. n \in Nat /\ DOMAIN f = 1..n
  OBVIOUS
<1>2. \A k \in 1..n : (IF k \in h THEN Hole ELSE f[k]) \in Byte
  BY ElementOfSeq DEF Byte
<1>3. Punched(f, h) = g
  BY <1>1 DEF Punched
<1> HIDE DEF n
<1>4. g \in Seq(Byte) /\ Len(g) = n
  BY <1>1, <1>2
<1>5. QED
  BY <1>3, <1>4 DEF n

\* A prefix.
LEMMA Prefix ==
  ASSUME NEW s \in Seq(Byte), NEW n \in 0..Len(s)
  PROVE  /\ SubSeq(s, 1, n) \in Seq(Byte) /\ Len(SubSeq(s, 1, n)) = n
         /\ Extends(SubSeq(s, 1, n), s)
<1>1. Len(s) \in Nat /\ n \in Int /\ \A k \in 1..n : s[k] \in Byte
  BY ElementOfSeq
<1>2. /\ SubSeq(s, 1, n) \in Seq(Byte)
      /\ Len(SubSeq(s, 1, n)) = IF 1 <= n THEN n - 1 + 1 ELSE 0
      /\ \A k \in 1..(n - 1 + 1) : SubSeq(s, 1, n)[k] = s[1 + k - 1]
  BY <1>1, SubSeqProperties
<1>3. Len(SubSeq(s, 1, n)) = n
  BY <1>1, <1>2
<1>4. \A k \in 1..n : SubSeq(s, 1, n)[k] = s[k]
  BY <1>1, <1>2
<1>5. QED
  BY <1>1, <1>2, <1>3, <1>4 DEF Extends

\* A part.
LEMMA SubSeqIs ==
  ASSUME NEW s \in Seq(Byte), NEW a \in 1..(Len(s) + 1), NEW b \in (a - 1)..Len(s)
  PROVE  /\ SubSeq(s, a, b) \in Seq(Byte) /\ Len(SubSeq(s, a, b)) = b - a + 1
         /\ \A k \in 1..(b - a + 1) : SubSeq(s, a, b)[k] = s[a + k - 1]
<1>1. Len(s) \in Nat /\ a \in Int /\ b \in Int /\ \A k \in a..b : s[k] \in Byte
  <2>1. Len(s) \in Nat /\ a \in Int /\ b \in Int /\ \A k \in a..b : k \in 1..Len(s)
    OBVIOUS
  <2>2. QED
    BY <2>1, ElementOfSeq
<1>2. /\ SubSeq(s, a, b) \in Seq(Byte)
      /\ Len(SubSeq(s, a, b)) = IF a <= b THEN b - a + 1 ELSE 0
      /\ \A k \in 1..(b - a + 1) : SubSeq(s, a, b)[k] = s[a + k - 1]
  BY <1>1, SubSeqProperties
<1>3. Len(SubSeq(s, a, b)) = b - a + 1
  BY <1>1, <1>2
<1>4. QED
  BY <1>2, <1>3

\* Appending.
LEMMA Append1 ==
  ASSUME NEW s \in Seq(Byte), NEW t \in Seq(Byte)
  PROVE  /\ s \o t \in Seq(Byte) /\ Len(s \o t) = Len(s) + Len(t)
         /\ Extends(s, s \o t)
         /\ \A k \in 1..Len(t) : (s \o t)[Len(s) + k] = t[k]
<1>1. Len(s) \in Nat /\ Len(t) \in Nat
  OBVIOUS
<1>2. /\ s \o t \in Seq(Byte) /\ Len(s \o t) = Len(s) + Len(t)
      /\ \A k \in 1..(Len(s) + Len(t)) :
             (s \o t)[k] = IF k <= Len(s) THEN s[k] ELSE t[k - Len(s)]
  BY ConcatProperties
<1>3. Extends(s, s \o t)
  BY <1>1, <1>2 DEF Extends
<1>4. ASSUME NEW k \in 1..Len(t)
      PROVE  (s \o t)[Len(s) + k] = t[k]
  <2>1. Len(s) + k \in 1..(Len(s) + Len(t)) /\ ~(Len(s) + k <= Len(s))
        /\ Len(s) + k - Len(s) = k
    BY <1>1
  <2>2. QED
    BY <1>2, <2>1
<1>5. QED
  BY <1>2, <1>3, <1>4

\* Appending twice, and appending both at once.
LEMMA AppendTwice ==
  ASSUME NEW s \in Seq(Byte), NEW t \in Seq(Byte), NEW u \in Seq(Byte)
  PROVE  (s \o t) \o u = s \o (t \o u)
BY ConcatAssociative

\* Each place of what two sequences make together.
LEMMA AppendAt ==
  ASSUME NEW s \in Seq(Byte), NEW t \in Seq(Byte), NEW k \in 1..(Len(s) + Len(t))
  PROVE  (s \o t)[k] = IF k <= Len(s) THEN s[k] ELSE t[k - Len(s)]
BY ConcatProperties

\* A part of what is appended gives a prefix of what appending all of it gives.
LEMMA AppendPrefix ==
  ASSUME NEW s \in Seq(Byte), NEW t \in Seq(Byte), NEW n \in 0..Len(t)
  PROVE  Extends(s \o SubSeq(t, 1, n), s \o t)
<1> DEFINE q == SubSeq(t, 1, n)
<1>1. q \in Seq(Byte) /\ Len(q) = n /\ Extends(q, t)
  BY Prefix
<1> HIDE DEF q
<1>2. Len(s \o q) = Len(s) + n /\ Len(s \o t) = Len(s) + Len(t)
  BY <1>1, Append1
<1>3. Len(s) \in Nat /\ Len(t) \in Nat /\ n \in Nat /\ n <= Len(t)
  OBVIOUS
<1>4. ASSUME NEW k \in 1..(Len(s) + n)
      PROVE  (s \o t)[k] = (s \o q)[k]
  <2>1. k \in 1..(Len(s) + Len(t))
    BY <1>3
  <2> HIDE DEF q
  <2>2. CASE k <= Len(s)
    <3>1. (s \o t)[k] = s[k]
      BY <2>1, <2>2, AppendAt
    <3>2. k \in 1..(Len(s) + Len(q))
      BY <1>1
    <3>3. (s \o q)[k] = s[k]
      BY <1>1, <2>2, <3>2, AppendAt
    <3>4. QED
      BY <3>1, <3>3
  <2>3. CASE k > Len(s)
    <3>1. k - Len(s) \in 1..Len(q)
      BY <1>1, <1>3, <2>3
    <3>2. t[k - Len(s)] = q[k - Len(s)]
      BY <1>1, <3>1 DEF Extends
    <3>3. ~(k <= Len(s)) /\ k \in 1..(Len(s) + Len(q))
      BY <1>1, <1>3, <2>3
    <3>4. (s \o t)[k] = t[k - Len(s)]
      BY <2>1, <3>3, AppendAt
    <3>5. (s \o q)[k] = q[k - Len(s)]
      BY <1>1, <3>3, AppendAt
    <3>6. QED
      BY <3>2, <3>4, <3>5
  <2>4. k <= Len(s) \/ k > Len(s)
    BY <1>3
  <2>5. QED
    BY <2>2, <2>3, <2>4
<1>5. QED
  BY <1>2, <1>3, <1>4 DEF Extends, q

\* What is appended has no holes.
LEMMA PunchedAppend ==
  ASSUME NEW f \in Seq(Byte), NEW x \in Seq(Byte), NEW h \in SUBSET (1..Len(f))
  PROVE  Punched(f \o x, h) = Punched(f, h) \o x
<1> DEFINE c == f \o x
           g == Punched(f, h)
           l == Punched(c, h)
           r == g \o x
<1>1. /\ c \in Seq(Byte) /\ Len(c) = Len(f) + Len(x)
      /\ \A k \in 1..(Len(f) + Len(x)) :
             c[k] = IF k <= Len(f) THEN f[k] ELSE x[k - Len(f)]
  BY ConcatProperties
<1> HIDE DEF c
<1>2. g \in Seq(Byte) /\ Len(g) = Len(f)
      /\ \A k \in 1..Len(f) : g[k] = IF k \in h THEN Hole ELSE f[k]
  BY PunchedType
<1> HIDE DEF g
<1>3. l \in Seq(Byte) /\ Len(l) = Len(f) + Len(x)
      /\ \A k \in 1..(Len(f) + Len(x)) : l[k] = IF k \in h THEN Hole ELSE c[k]
  BY <1>1, PunchedType
<1> HIDE DEF l
<1>4. /\ r \in Seq(Byte) /\ Len(r) = Len(f) + Len(x)
      /\ \A k \in 1..(Len(f) + Len(x)) :
             r[k] = IF k <= Len(f) THEN g[k] ELSE x[k - Len(f)]
  <2>1. r \in Seq(Byte) /\ Len(r) = Len(g) + Len(x)
    BY <1>2, Append1
  <2>2. \A k \in 1..(Len(g) + Len(x)) :
            r[k] = IF k <= Len(g) THEN g[k] ELSE x[k - Len(g)]
    BY <1>2, AppendAt
  <2>3. QED
    BY <1>2, <2>1, <2>2
<1> HIDE DEF r
<1>5. ASSUME NEW k \in 1..(Len(f) + Len(x))
      PROVE  l[k] = r[k]
  <2>1. Len(f) \in Nat /\ Len(x) \in Nat
    OBVIOUS
  <2>2. CASE k <= Len(f)
    <3>1. k \in 1..Len(f)
      BY <2>1, <2>2
    <3>2. l[k] = IF k \in h THEN Hole ELSE f[k]
      BY <1>1, <1>3, <2>2
    <3>3. r[k] = IF k \in h THEN Hole ELSE f[k]
      BY <1>2, <1>4, <2>2, <3>1
    <3>4. QED
      BY <3>2, <3>3
  <2>3. CASE k > Len(f)
    <3>1. ~(k <= Len(f)) /\ k \notin h
      BY <2>1, <2>3
    <3>2. l[k] = c[k] /\ c[k] = x[k - Len(f)]
      BY <1>1, <1>3, <3>1
    <3>3. r[k] = x[k - Len(f)]
      BY <1>4, <3>1
    <3>4. QED
      BY <3>2, <3>3
  <2>4. k <= Len(f) \/ k > Len(f)
    BY <2>1
  <2>5. QED
    BY <2>2, <2>3, <2>4
<1>6. l = r
  BY <1>3, <1>4, <1>5, SeqEqual
<1>7. QED
  BY <1>6 DEF c, l, r, g

\* Prefixes of the same length that agree are equal.
LEMMA SamePrefix ==
  ASSUME NEW s \in Seq(Byte), NEW t \in Seq(Byte), NEW n \in 0..Len(s), n <= Len(t),
         \A k \in 1..n : s[k] = t[k]
  PROVE  SubSeq(s, 1, n) = SubSeq(t, 1, n)
<1> DEFINE p == SubSeq(s, 1, n)
           q == SubSeq(t, 1, n)
<1>1. n \in 0..Len(t)
  OBVIOUS
<1>2. p \in Seq(Byte) /\ Len(p) = n /\ Extends(p, s)
  BY Prefix
<1>3. q \in Seq(Byte) /\ Len(q) = n /\ Extends(q, t)
  BY <1>1, Prefix
<1> HIDE DEF p, q
<1>4. \A k \in 1..n : p[k] = q[k]
  BY <1>2, <1>3 DEF Extends
<1>5. p = q
  BY <1>2, <1>3, <1>4, SeqEqual
<1>6. QED
  BY <1>5 DEF p, q

\* A line and a newline for each event.
LEMMA PiecesLength ==
  /\ Len(LineLengths) \in Nat /\ 2 * Len(LineLengths) \in Nat
  /\ \A t : Len(Pieces(t)) = 2 * Len(LineLengths)
<1>1. Len(LineLengths) \in Nat
  BY SinkAssumption
<1>2. 2 * Len(LineLengths) \in Nat
  BY <1>1
<1>3. \A t : Len(Pieces(t)) = 2 * Len(LineLengths)
  BY <1>2 DEF Pieces
<1>4. QED
  BY <1>1, <1>2, <1>3

\* The pieces of a transaction are its lines and the newlines between them.
LEMMA PieceCases ==
  ASSUME NEW t \in Tx, NEW n \in 1..(2 * Len(LineLengths))
  PROVE  \/ Pieces(t)[n] = <<Newline>> /\ n % 2 = 0
         \/ \E i \in DOMAIN LineLengths : n = 2 * i - 1 /\ Pieces(t)[n] = Text(t, i)
<1> DEFINE last == Len(LineLengths)
<1>1. last \in Nat /\ DOMAIN LineLengths = 1..last /\ n \in Nat
  BY SinkAssumption
<1>2. Pieces(t)[n] = IF n % 2 = 1 THEN Text(t, (n + 1) \div 2) ELSE <<Newline>>
  BY DEF Pieces
<1> HIDE DEF last
<1>3. n % 2 = 0 \/ n % 2 = 1
  BY <1>1
<1>4. CASE n % 2 = 0
  BY <1>2, <1>4
<1>5. CASE n % 2 = 1
  <2>1. (n + 1) \div 2 \in 1..last /\ n = 2 * ((n + 1) \div 2) - 1
    BY <1>1, <1>5 DEF last
  <2>2. QED
    BY <1>1, <1>2, <1>5, <2>1
<1>6. QED
  BY <1>3, <1>4, <1>5

-----------------------------------------------------------------------------
(* The inductive invariant.                                                *)

\* What has been handed to the sink, as the next sync leaves it on the device
\* and as the kernel shows it.
Written == OnDevice \o buffer
Shown == file \o buffer

\* Only a write in progress is in the middle of a transaction, and the buffer is
\* empty while a sync runs and after an end.
Typed ==
    /\ TypeOK
    /\ buffer \in Seq(Byte) /\ file \in Seq(Byte)
    /\ phase = "writing" => current \in Tx
    /\ phase \in {"syncing", "down"} => buffer = <<>>

\* Everything up to the durable and the released position is on the device.
Durably == \A e \in Events : e[1] <= durable \/ e[1] <= confirmed => Holds(Device, e)

\* The next barrier may claim what is pending: it covers its whole past, also
\* when it is lower than an earlier position or higher than the next one.
PendingCoversItsPast == \A e \in Events : e[1] <= pending => Holds(Written, e)

\* The transactions before the current one, and the lines of it that are written.
CurrentFollows ==
    /\ phase # "down" => \A e \in Events : e[1] < current => Holds(Written, e)
    /\ phase = "writing" =>
           \A e \in Events : e[1] = current /\ 2 * e[2] - 1 < piece => Holds(Written, e)

\* Neither has a gap.
NoGapAnywhere == GapFree(Written) /\ GapFree(Shown)

IInv == Typed /\ Durably /\ PendingCoversItsPast /\ CurrentFollows /\ NoGapAnywhere

\* The sequences the invariant is about: the device is a part of what the file is
\* without its dropped bytes, and that is a part of what has been written.
Layered ==
    /\ OnDevice \in Seq(Byte) /\ Device \in Seq(Byte)
    /\ Written \in Seq(Byte) /\ Shown \in Seq(Byte)
    /\ OnDevice = Punched(file, holes)
    /\ Len(OnDevice) = Len(file) /\ Len(Device) = synced
    /\ Extends(Device, OnDevice) /\ Extends(OnDevice, Written)
    /\ Extends(file, Shown)
    /\ Len(Written) = Len(Shown)
    /\ \A k \in 1..Len(Written) : Written[k] = Hole \/ Written[k] = Shown[k]

\* They are so layered in every state of the right type.
LEMMA Layers == Typed => Layered
<1> SUFFICES ASSUME Typed PROVE Layered
  OBVIOUS
<1>1. buffer \in Seq(Byte) /\ file \in Seq(Byte) /\ synced \in 0..Len(file)
  BY DEF Typed, TypeOK
<1>2. OnDevice = Punched(file, holes)
  BY DEF OnDevice, Punched
<1>3. /\ OnDevice \in Seq(Byte) /\ Len(OnDevice) = Len(file)
      /\ \A k \in 1..Len(file) : OnDevice[k] = Hole \/ OnDevice[k] = file[k]
  BY <1>1, <1>2, PunchedType
<1>4. Device \in Seq(Byte) /\ Len(Device) = synced /\ Extends(Device, OnDevice)
  BY <1>1, <1>3, Prefix DEF Device
<1>5. Written \in Seq(Byte) /\ Len(Written) = Len(file) + Len(buffer)
      /\ Extends(OnDevice, Written)
  <2> DEFINE d == OnDevice
  <2>1. d \in Seq(Byte) /\ Len(d) = Len(file)
    BY <1>3
  <2> HIDE DEF d
  <2>2. /\ d \o buffer \in Seq(Byte) /\ Len(d \o buffer) = Len(d) + Len(buffer)
        /\ Extends(d, d \o buffer)
    BY <1>1, <2>1, Append1
  <2>3. QED
    BY <2>1, <2>2 DEF Written, d
<1>6. Shown \in Seq(Byte) /\ Len(Shown) = Len(file) + Len(buffer) /\ Extends(file, Shown)
  BY <1>1, Append1 DEF Shown
<1>7. ASSUME NEW k \in 1..Len(Written)
      PROVE  Written[k] = Hole \/ Written[k] = Shown[k]
  <2>1. k \in 1..(Len(file) + Len(buffer)) /\ k \in 1..(Len(OnDevice) + Len(buffer))
    BY <1>3, <1>5
  <2>2. Shown[k] = IF k <= Len(file) THEN file[k] ELSE buffer[k - Len(file)]
    BY <1>1, <2>1, AppendAt DEF Shown
  <2>3. Written[k] = IF k <= Len(OnDevice) THEN OnDevice[k] ELSE buffer[k - Len(OnDevice)]
    BY <1>1, <1>3, <2>1, AppendAt DEF Written
  <2>4. CASE k <= Len(file)
    <3>1. k \in 1..Len(file)
      BY <2>4
    <3>2. QED
      BY <1>3, <2>2, <2>3, <3>1, <2>4
  <2>5. CASE ~(k <= Len(file))
    BY <1>3, <2>2, <2>3, <2>5
  <2>6. QED
    BY <2>4, <2>5
<1>8. QED
  BY <1>2, <1>3, <1>4, <1>5, <1>6, <1>7 DEF Layered

\* The same one step later.
LEMMA LayersNext == Typed' => Layered'
BY Layers, PTL

\* The invariant is true before the first process.
LEMMA InitIInv == Init => IInv
<1> SUFFICES ASSUME Init PROVE IInv
  OBVIOUS
<1> USE DEF Init
<1>1. /\ <<>> \in Seq(Byte) /\ Len(<<>>) = 0 /\ DOMAIN file = {}
      /\ MaxTx \in Nat /\ MaxTx >= 1 /\ Len(LineLengths) \in Nat
      /\ MaxEnds \in Nat /\ MaxDrops \in Nat /\ Capacity \in Nat
  BY SinkAssumption
<1>2. TypeOK
  BY <1>1 DEF TypeOK
<1>3. Typed
  BY <1>1, <1>2 DEF Typed
<1>4. ~(\E e \in Events : e[1] <= 0)
  BY DEF Events, Tx
<1>5. Durably /\ PendingCoversItsPast
  BY <1>4 DEF Durably, PendingCoversItsPast
<1>6. CurrentFollows
  BY DEF CurrentFollows
<1>7. Written \in Seq(Byte) /\ Shown \in Seq(Byte) /\ Len(Written) = 0 /\ Len(Shown) = 0
  <2>1. OnDevice \in Seq(Byte) /\ Len(OnDevice) = 0
    BY <1>1, <1>3, Layers DEF Layered
  <2>2. QED
    BY <1>1, <2>1, Append1 DEF Written, Shown
<1>8. NoGapAnywhere
  BY <1>7 DEF NoGapAnywhere, GapFree
<1>9. QED
  BY <1>3, <1>5, <1>6, <1>8 DEF IInv

\* A step that leaves the bytes alone: what it claims must have been written.
LEMMA CalmIInv ==
  ASSUME IInv, Typed', UNCHANGED <<file, buffer, holes>>,
         Extends(Device, Device'),
         \A e \in Events : e[1] <= durable' \/ e[1] <= confirmed' => Holds(Device', e),
         \A e \in Events : e[1] <= pending' => Holds(Written, e),
         phase' # "down" => \A e \in Events : e[1] < current' => Holds(Written, e),
         phase' = "writing" =>
           \A e \in Events : e[1] = current' /\ 2 * e[2] - 1 < piece' => Holds(Written, e)
  PROVE  IInv'
<1>1. Written' = Written /\ Shown' = Shown
  BY DEF Written, Shown, OnDevice
<1>2. NoGapAnywhere'
  BY <1>1 DEF IInv, NoGapAnywhere
<1>3. Durably'
  BY DEF Durably
<1>4. PendingCoversItsPast' /\ CurrentFollows'
  BY <1>1 DEF PendingCoversItsPast, CurrentFollows
<1>5. QED
  BY <1>2, <1>3, <1>4 DEF IInv

\* What is on the device has been written, and what has been written the kernel
\* shows.
LEMMA DeviceIsWritten ==
  ASSUME Typed, NEW e \in Events
  PROVE  /\ Holds(Device, e) => Holds(Written, e)
         /\ Holds(Written, e) => Holds(Shown, e)
<1>1. Layered
  BY Layers
<1>2. Holds(Device, e) => Holds(OnDevice, e)
  BY <1>1, HoldsOn DEF Layered
<1>3. Holds(OnDevice, e) => Holds(Written, e)
  BY <1>1, HoldsOn DEF Layered
<1>4. Holds(Written, e) => Holds(Shown, e)
  BY <1>1, HoldsUncovered DEF Layered
<1>5. QED
  BY <1>2, <1>3, <1>4

\* Numbers of transactions and events are numbers.
LEMMA EventNumbers ==
  ASSUME NEW e \in Events
  PROVE  /\ e[1] \in 1..MaxTx /\ e[2] \in 1..Len(LineLengths)
         /\ e[1] \in Nat /\ e[2] \in Nat /\ MaxTx \in Nat /\ Len(LineLengths) \in Nat
BY SinkAssumption DEF Events, Tx

\* A device that does not change grows.
LEMMA ExtendsItself ==
  ASSUME NEW s \in Seq(Byte)
  PROVE  Extends(s, s)
<1>1. Len(s) \in Nat
  OBVIOUS
<1>2. QED
  BY <1>1 DEF Extends

\* The steps that leave every byte where it is and what is on the device too.
QuietNext == Open \/ Accept \/ Accepted \/ Confirm \/ Reconnect

\* They keep the types.
LEMMA QuietTyped ==
  ASSUME Typed, QuietNext
  PROVE  Typed'
<1>1. /\ MaxTx \in Nat /\ MaxTx >= 1 /\ Len(LineLengths) \in Nat /\ MaxDrops \in Nat
      /\ MaxEnds \in Nat /\ \A t : Len(Pieces(t)) = 2 * Len(LineLengths)
  BY PiecesLength, SinkAssumption
<1> USE DEF Typed, TypeOK
<1>2. /\ UNCHANGED <<buffer, file, synced, holes, durable, ends>>
      /\ drops' \in 0..MaxDrops
  <2>1. drops \in 0..MaxDrops /\ MaxDrops \in Nat
    BY <1>1
  <2>2. CASE Open \/ Accept \/ Accepted \/ Confirm
    BY <2>1, <2>2 DEF Open, Accept, Accepted, Confirm, counters
  <2>3. CASE Reconnect
    BY <2>1, <2>3 DEF Reconnect, counters
  <2>4. QED
    BY <2>2, <2>3 DEF QuietNext
<1>3. /\ current' \in 1..(MaxTx + 1) /\ piece' \in 1..(2 * Len(LineLengths) + 1)
      /\ pending' \in 0..MaxTx /\ confirmed' \in 0..MaxTx
  <2>1. piece' = piece \/ piece' = 1
    BY DEF QuietNext, Open, Accept, Accepted, Confirm, Reconnect
  <2>2. piece' \in 1..(2 * Len(LineLengths) + 1)
    <3>1. 1 \in 1..(2 * Len(LineLengths) + 1) /\ piece \in 1..(2 * Len(LineLengths) + 1)
      BY <1>1
    <3>2. QED
      BY <2>1, <3>1
  <2>3. /\ current \in 1..(MaxTx + 1) /\ pending \in 0..MaxTx /\ durable \in 0..MaxTx
        /\ confirmed \in 0..MaxTx
        /\ phase = "writing" => current \in Tx
    OBVIOUS
  <2> HIDE DEF Typed, TypeOK
  <2>4. /\ \/ current' = confirmed + 1
           \/ current' = current
           \/ (current' = current + 1 /\ current \in Tx)
        /\ pending' = pending \/ (pending' = current /\ current \in Tx)
        /\ confirmed' = confirmed \/ confirmed' = durable
    BY <2>3 DEF QuietNext, Open, Accept, Accepted, Confirm, Reconnect
  <2>5. current' \in 1..(MaxTx + 1)
    BY <1>1, <2>3, <2>4 DEF Tx
  <2>6. pending' \in 0..MaxTx /\ confirmed' \in 0..MaxTx
    BY <1>1, <2>3, <2>4 DEF Tx
  <2>7. QED
    BY <2>2, <2>5, <2>6
<1>4. /\ phase' \in {"ready", "writing", "syncing", "down"}
      /\ phase' = "writing" => current' \in Tx
      /\ phase' \in {"syncing", "down"} => buffer = <<>>
  BY DEF QuietNext, Open, Accept, Accepted, Confirm, Reconnect
<1>5. TypeOK'
  BY <1>2, <1>3, <1>4
<1>6. QED
  BY <1>2, <1>4, <1>5

\* They claim nothing that has not been written: a position is confirmed once it
\* is durable, accepted once every line is written, and a new session starts
\* right behind what is confirmed.
LEMMA QuietIInv ==
  ASSUME IInv, QuietNext
  PROVE  IInv' /\ Device' = Device
<1>1. Typed /\ Layered /\ Typed'
  BY QuietTyped, Layers DEF IInv
<1>2. UNCHANGED <<file, buffer, holes, synced, durable>>
  BY DEF QuietNext, Open, Accept, Accepted, Confirm, Reconnect
<1>3. Device' = Device
  BY <1>2 DEF Device, OnDevice
<1>4. Extends(Device, Device')
  BY <1>1, <1>3, ExtendsItself DEF Layered
<1>5. durable \in Int /\ confirmed \in Int /\ current \in Int /\ pending \in Int /\ piece \in Int
  BY <1>1 DEF Typed, TypeOK
<1>6. \A e \in Events : e[1] <= confirmed => Holds(Written, e)
  BY <1>1, DeviceIsWritten DEF IInv, Durably
<1>7. ASSUME NEW e \in Events, e[1] <= durable' \/ e[1] <= confirmed'
      PROVE  Holds(Device', e)
  <2>1. confirmed' = confirmed \/ confirmed' = durable
    BY DEF QuietNext, Open, Accept, Accepted, Confirm, Reconnect
  <2>2. e[1] <= durable \/ e[1] <= confirmed
    BY <1>2, <1>7, <2>1
  <2>3. QED
    BY <1>3, <2>2 DEF IInv, Durably
<1>8. CASE Open \/ Reconnect
  <2>1. /\ current' = confirmed + 1 /\ pending' = pending /\ phase' # "writing"
    BY <1>8 DEF Open, Reconnect
  <2>2. \A e \in Events : e[1] < current' => Holds(Written, e)
    BY <1>5, <1>6, <2>1, EventNumbers
  <2>3. \A e \in Events : e[1] <= pending' => Holds(Written, e)
    BY <2>1 DEF IInv, PendingCoversItsPast
  <2>4. QED
    BY <1>1, <1>2, <1>3, <1>4, <1>7, <2>1, <2>2, <2>3, CalmIInv
<1>9. CASE Confirm
  <2>1. UNCHANGED <<phase, current, piece, pending>>
    BY <1>9 DEF Confirm
  <2>2. QED
    BY <1>1, <1>2, <1>3, <1>4, <1>7, <2>1, CalmIInv
    DEF IInv, PendingCoversItsPast, CurrentFollows
<1>10. CASE Accept
  <2>1. /\ UNCHANGED <<current, pending>> /\ phase = "ready" /\ phase' = "writing" /\ piece' = 1
    BY <1>10 DEF Accept
  <2>2. \A e \in Events : ~(2 * e[2] - 1 < piece')
    BY <2>1, EventNumbers
  <2>3. QED
    BY <1>1, <1>2, <1>3, <1>4, <1>7, <2>1, <2>2, CalmIInv
    DEF IInv, PendingCoversItsPast, CurrentFollows
<1>11. CASE Accepted
  <2>1. /\ pending' = current /\ current' = current + 1 /\ phase = "writing" /\ phase' = "ready"
        /\ piece > Len(Pieces(current))
    BY <1>11 DEF Accepted
  <2>2. Len(LineLengths) \in Nat /\ Len(Pieces(current)) = 2 * Len(LineLengths)
    BY PiecesLength
  <2>3. ASSUME NEW e \in Events, e[1] <= current
        PROVE  Holds(Written, e)
    <3>1. CASE e[1] < current
      BY <2>1, <3>1 DEF IInv, CurrentFollows
    <3>2. CASE e[1] = current
      <4>1. 2 * e[2] - 1 < piece
        BY <1>5, <2>1, <2>2, EventNumbers
      <4>2. QED
        BY <2>1, <3>2, <4>1 DEF IInv, CurrentFollows
    <3>3. QED
      BY <1>5, <2>3, <3>1, <3>2, EventNumbers
  <2>4. \A e \in Events : e[1] < current' => Holds(Written, e)
    BY <1>5, <2>1, <2>3, EventNumbers
  <2>5. \A e \in Events : e[1] <= pending' => Holds(Written, e)
    BY <2>1, <2>3
  <2>6. QED
    BY <1>1, <1>2, <1>3, <1>4, <1>7, <2>1, <2>4, <2>5, CalmIInv
<1>12. QED
  BY <1>8, <1>9, <1>10, <1>11 DEF QuietNext

\* A sync brings everything written to the device: the buffer is empty.
LEMMA SyncIInv ==
  ASSUME IInv, Sync
  PROVE  IInv' /\ Extends(Device, Device')
<1> USE DEF Sync
<1>1. Typed /\ Layered
  BY Layers DEF IInv
<1>2. /\ buffer = <<>> /\ phase = "syncing" /\ pending \in 0..MaxTx /\ durable \in 0..MaxTx
      /\ confirmed \in 0..MaxTx /\ Len(file) \in Nat
  BY <1>1 DEF Typed, TypeOK
<1>3. durable' \in 0..MaxTx /\ 0 \in 0..MaxTx
  BY <1>2, SinkAssumption
<1>4. Typed'
  <2>1. synced' \in 0..Len(file)
    BY <1>2
  <2>2. TypeOK'
    BY <1>1, <1>3, <2>1 DEF Typed, TypeOK, counters
  <2>3. QED
    BY <1>1, <2>2 DEF Typed
<1>5. Written = OnDevice
  BY <1>1, <1>2, ConcatEmptySeq DEF Written, Layered
<1>6. Device' = OnDevice
  <2>1. Device' = SubSeq(OnDevice, 1, Len(OnDevice))
    BY <1>1 DEF Device, OnDevice, Layered
  <2>2. QED
    BY <1>1, <2>1, SubSeqFull DEF Layered
<1>7. Extends(Device, Device')
  BY <1>1, <1>6 DEF Layered
<1>8. ASSUME NEW e \in Events, e[1] <= durable' \/ e[1] <= confirmed'
      PROVE  Holds(Device', e)
  <2>1. e[1] <= pending \/ e[1] <= durable \/ e[1] <= confirmed
    BY <1>8
  <2>2. Holds(Written, e)
    BY <1>1, <2>1, DeviceIsWritten DEF IInv, Durably, PendingCoversItsPast
  <2>3. QED
    BY <1>5, <1>6, <2>2
<1>9. \A e \in Events : e[1] <= pending' => Holds(Written, e)
  BY EventNumbers
<1>10. phase' = "ready" /\ current' = current
  OBVIOUS
<1>11. QED
  BY <1>2, <1>4, <1>7, <1>8, <1>9, <1>10, CalmIInv DEF IInv, CurrentFollows

\* Bytes move on through the layers: x from the buffer to the file, p into the
\* buffer.  Nothing that was on the device changes.
LEMMA Moving ==
  ASSUME Typed, NEW x \in Seq(Byte), NEW p \in Seq(Byte), buffer' \in Seq(Byte),
         file' = file \o x, x \o buffer' = buffer \o p, UNCHANGED <<holes, synced>>
  PROVE  /\ file' \in Seq(Byte) /\ Len(file') >= Len(file) /\ Len(file') \in Nat
         /\ OnDevice' = OnDevice \o x
         /\ Written' = Written \o p /\ Shown' = Shown \o p
         /\ Device' = Device
<1>1. Layered /\ buffer \in Seq(Byte) /\ file \in Seq(Byte) /\ holes \in SUBSET (1..Len(file))
      /\ synced \in 0..Len(file)
  <2>1. Layered
    BY Layers
  <2>2. /\ buffer \in Seq(Byte) /\ file \in Seq(Byte) /\ synced \in 0..Len(file)
        /\ holes \in SUBSET DOMAIN file
    BY DEF Typed, TypeOK
  <2>3. DOMAIN file = 1..Len(file)
    BY <2>2
  <2>4. QED
    BY <2>1, <2>2, <2>3
<1>2. file' \in Seq(Byte) /\ Len(file') >= Len(file) /\ Len(file') \in Nat
  <2>1. Len(file') = Len(file) + Len(x) /\ Len(file) \in Nat /\ Len(x) \in Nat
        /\ file' \in Seq(Byte)
    BY <1>1, Append1
  <2>2. QED
    BY <2>1
<1>3. OnDevice' = OnDevice \o x
  <2>1. OnDevice' = Punched(file \o x, holes)
    BY DEF OnDevice, Punched
  <2>2. Punched(file \o x, holes) = Punched(file, holes) \o x
    BY <1>1, PunchedAppend
  <2>3. OnDevice = Punched(file, holes)
    BY DEF OnDevice, Punched
  <2>4. QED
    BY <2>1, <2>2, <2>3
<1>4. Written' = Written \o p
  <2>1. Written' = (OnDevice \o x) \o buffer'
    BY <1>3 DEF Written
  <2> DEFINE d == OnDevice
  <2>2. d \in Seq(Byte)
    BY <1>1 DEF Layered
  <2> HIDE DEF d
  <2>3. (d \o x) \o buffer' = d \o (x \o buffer')
    BY <2>2, AppendTwice
  <2>4. (d \o buffer) \o p = d \o (buffer \o p)
    BY <1>1, <2>2, AppendTwice
  <2>5. QED
    BY <2>1, <2>3, <2>4 DEF Written, d
<1>5. Shown' = Shown \o p
  <2>1. Shown' = (file \o x) \o buffer'
    BY DEF Shown
  <2> DEFINE d == file
  <2>2. d \in Seq(Byte)
    BY <1>1
  <2> HIDE DEF d
  <2>3. (d \o x) \o buffer' = d \o (x \o buffer')
    BY <2>2, AppendTwice
  <2>4. (d \o buffer) \o p = d \o (buffer \o p)
    BY <1>1, <2>2, AppendTwice
  <2>5. QED
    BY <2>1, <2>3, <2>4 DEF Shown, d
<1>6. Device' = Device
  <2>1. Device' = SubSeq(OnDevice', 1, synced)
    BY DEF Device
  <2>2. Extends(OnDevice, OnDevice') /\ OnDevice' \in Seq(Byte)
    BY <1>1, <1>3, Append1 DEF Layered
  <2>3. synced \in 0..Len(OnDevice) /\ synced <= Len(OnDevice')
    BY <1>1, <2>2 DEF Layered, Extends
  <2>4. \A k \in 1..synced : OnDevice[k] = OnDevice'[k]
    BY <2>2, <2>3 DEF Extends
  <2>5. SubSeq(OnDevice, 1, synced) = SubSeq(OnDevice', 1, synced)
    BY <1>1, <2>2, <2>3, <2>4, SamePrefix DEF Layered
  <2>6. QED
    BY <2>1, <2>5 DEF Device
<1>7. QED
  BY <1>2, <1>3, <1>4, <1>5, <1>6

\* The first half of the barrier moves the buffer into the file.
LEMMA FlushIInv ==
  ASSUME IInv, Flush
  PROVE  IInv' /\ Device' = Device
<1> USE DEF Flush
<1>1. Typed /\ Layered /\ buffer \in Seq(Byte) /\ <<>> \in Seq(Byte)
  BY Layers DEF IInv, Typed
<1>2. buffer \o <<>> = buffer
  BY <1>1, ConcatEmptySeq
<1>3. /\ file' \in Seq(Byte) /\ Len(file') >= Len(file) /\ Len(file') \in Nat
      /\ Written' = Written \o <<>> /\ Shown' = Shown \o <<>> /\ Device' = Device
  BY <1>1, <1>2, Moving
<1>4. Written' = Written /\ Shown' = Shown
  BY <1>1, <1>3, ConcatEmptySeq DEF Layered
<1>5. Typed'
  <2>1. synced' \in 0..Len(file') /\ holes' \subseteq DOMAIN file'
    BY <1>1, <1>3 DEF Typed, TypeOK
  <2>2. Len(buffer') <= Capacity
    BY SinkAssumption
  <2>3. TypeOK'
    BY <1>1, <2>1, <2>2 DEF Typed, TypeOK, counters
  <2>4. QED
    BY <1>1, <1>3, <2>3 DEF Typed
<1>6. Durably'
  BY <1>3 DEF IInv, Durably
<1>7. PendingCoversItsPast' /\ CurrentFollows' /\ NoGapAnywhere'
  BY <1>4 DEF IInv, PendingCoversItsPast, CurrentFollows, NoGapAnywhere
<1>8. QED
  BY <1>3, <1>5, <1>6, <1>7 DEF IInv

\* The bytes of a line are bytes.
LEMMA TextType ==
  ASSUME NEW c \in Events
  PROVE  /\ Text(c[1], c[2]) \in Seq(Byte) /\ Len(Text(c[1], c[2])) = LineLengths[c[2]]
         /\ \A k \in 1..LineLengths[c[2]] : Text(c[1], c[2])[k] = <<c[1], c[2], k>>
<1> DEFINE n == LineLengths[c[2]]
           g == [k \in 1..n |-> <<c[1], c[2], k>>]
<1>1. n \in Nat
  BY LinesHaveLength
<1>2. \A k \in 1..n : <<c[1], c[2], k>> \in Byte
  <2>1. c[1] \in Tx /\ c[2] \in DOMAIN LineLengths
    BY DEF Events
  <2>2. \A k \in 1..n : k \in Nat
    BY <1>1
  <2>3. QED
    BY <2>1, <2>2 DEF Byte
<1>3. Text(c[1], c[2]) = g
  BY DEF Text
<1> HIDE DEF n
<1>4. g \in Seq(Byte) /\ Len(g) = n /\ \A k \in 1..n : g[k] = <<c[1], c[2], k>>
  BY <1>1, <1>2
<1>5. QED
  BY <1>3, <1>4 DEF n

\* A line stands where it was appended.
LEMMA StandsAppended ==
  ASSUME NEW s \in Seq(Byte), NEW c \in Events
  PROVE  StandsAt(s \o Text(c[1], c[2]), c, Len(s) + 1)
<1> DEFINE p == Text(c[1], c[2])
           t == s \o p
           n == LineLengths[c[2]]
<1>1. p \in Seq(Byte) /\ Len(p) = n /\ \A k \in 1..n : p[k] = <<c[1], c[2], k>>
  BY TextType
<1>2. n \in Nat /\ n >= 1 /\ Len(s) \in Nat
  BY LinesHaveLength
<1> HIDE DEF p, n
<1>3. Len(t) = Len(s) + n /\ \A k \in 1..n : t[Len(s) + k] = p[k]
  BY <1>1, Append1
<1> HIDE DEF t
<1>4. \A k \in 1..n : t[(Len(s) + 1) + k - 1] = <<c[1], c[2], k>>
  <2>1. \A k \in 1..n : (Len(s) + 1) + k - 1 = Len(s) + k
    BY <1>2
  <2>2. QED
    BY <1>1, <1>3, <2>1
<1>5. StandsAt(t, c, Len(s) + 1)
  BY <1>2, <1>3, <1>4 DEF StandsAt, n
<1>6. QED
  BY <1>5 DEF t, p

\* It is held there.
LEMMA HoldsAppended ==
  ASSUME NEW s \in Seq(Byte), NEW c \in Events
  PROVE  Holds(s \o Text(c[1], c[2]), c)
<1> DEFINE p == Text(c[1], c[2])
<1>1. p \in Seq(Byte) /\ Len(p) >= 1 /\ Len(p) \in Nat /\ Len(s) \in Nat
  BY TextType, LinesHaveLength
<1>2. StandsAt(s \o p, c, Len(s) + 1)
  BY StandsAppended
<1> HIDE DEF p
<1>3. Len(s) + 1 \in 1..Len(s \o p)
  BY <1>1, Append1
<1>4. QED
  BY <1>2, <1>3 DEF Holds, p

\* The piece that is written next: either a newline, or the line of an event
\* whose every predecessor has been written.
LEMMA NextPiece ==
  ASSUME IInv, phase = "writing", piece <= Len(Pieces(current))
  PROVE  /\ Pieces(current)[piece] \in Seq(Byte)
         /\ \/ Pieces(current)[piece] = <<Newline>> /\ piece % 2 = 0
            \/ \E c \in Events :
                   /\ Pieces(current)[piece] = Text(c[1], c[2])
                   /\ c[1] = current /\ piece = 2 * c[2] - 1
                   /\ \A d \in Events : Precedes(d, c) => Holds(Written, d)
<1>1. /\ Typed /\ current \in Tx /\ piece \in Int /\ piece >= 1 /\ current \in Int
      /\ DOMAIN LineLengths = 1..Len(LineLengths)
  BY SinkAssumption DEF IInv, Typed, TypeOK, Tx
<1>2. piece \in 1..(2 * Len(LineLengths))
  BY <1>1, PiecesLength
<1>3. CASE Pieces(current)[piece] = <<Newline>> /\ piece % 2 = 0
  <2>1. Newline \in Byte
    BY DEF Byte
  <2>2. <<Newline>> \in Seq(Byte)
    BY <2>1
  <2>3. QED
    BY <1>3, <2>2
<1>4. CASE \E i \in DOMAIN LineLengths :
             piece = 2 * i - 1 /\ Pieces(current)[piece] = Text(current, i)
  <2>1. PICK i \in DOMAIN LineLengths :
             piece = 2 * i - 1 /\ Pieces(current)[piece] = Text(current, i)
    BY <1>4
  <2> DEFINE c == <<current, i>>
  <2>2. c \in Events /\ c[1] = current /\ c[2] = i
    BY <1>1 DEF Events
  <2>3. ASSUME NEW d \in Events, Precedes(d, c)
        PROVE  Holds(Written, d)
    <3>1. (d[1] = current /\ d[2] + 1 = i) \/ d[1] + 1 = current
      BY <2>2, <2>3 DEF Precedes
    <3>2. CASE d[1] = current /\ d[2] + 1 = i
      <4>1. 2 * d[2] - 1 < piece
        BY <2>1, <3>2, EventNumbers
      <4>2. QED
        BY <3>2, <4>1 DEF IInv, CurrentFollows
    <3>3. CASE d[1] + 1 = current
      <4>1. d[1] < current
        BY <1>1, <3>3, EventNumbers
      <4>2. QED
        BY <4>1 DEF IInv, CurrentFollows
    <3>4. QED
      BY <3>1, <3>2, <3>3
  <2>4. Text(current, i) \in Seq(Byte)
    BY <2>2, TextType
  <2> HIDE DEF c
  <2>5. QED
    BY <2>1, <2>2, <2>3, <2>4
<1>5. QED
  BY <1>1, <1>2, <1>3, <1>4, PieceCases

\* It opens no gap, neither on the device nor in what the kernel shows.
LEMMA PieceGapFree ==
  ASSUME IInv, phase = "writing", piece <= Len(Pieces(current))
  PROVE  /\ GapFree(Written \o Pieces(current)[piece])
         /\ GapFree(Shown \o Pieces(current)[piece])
<1> DEFINE p == Pieces(current)[piece]
<1>1. Typed /\ Written \in Seq(Byte) /\ Shown \in Seq(Byte) /\ GapFree(Written) /\ GapFree(Shown)
  BY Layers DEF IInv, NoGapAnywhere, Layered
<1>2. /\ p \in Seq(Byte)
      /\ \/ p = <<Newline>>
         \/ \E c \in Events : /\ p = Text(c[1], c[2])
                              /\ \A d \in Events : Precedes(d, c) => Holds(Written, d)
  BY NextPiece
<1> HIDE DEF p
<1>3. \/ p = <<Newline>>
      \/ \E c \in Events : /\ p = Text(c[1], c[2])
                           /\ \A d \in Events : Precedes(d, c) => Holds(Shown, d)
  BY <1>1, <1>2, DeviceIsWritten
<1>4. GapFree(Written \o p)
  BY <1>1, <1>2, AppendGapFree
<1>5. GapFree(Shown \o p)
  BY <1>1, <1>2, <1>3, AppendGapFree
<1>6. QED
  BY <1>4, <1>5 DEF p

\* How a piece passes the BufWriter: it stays in order behind what is there, and
\* the buffer keeps to its capacity.
LEMMA ThroughTheWriter ==
  ASSUME IInv, WritePiece
  PROVE  \E x \in Seq(Byte) :
            /\ file' = file \o x /\ x \o buffer' = buffer \o Pieces(current)[piece]
            /\ buffer' \in Seq(Byte) /\ Len(buffer') <= Capacity
<1> DEFINE p == Pieces(current)[piece]
<1>1. /\ Typed /\ buffer \in Seq(Byte) /\ file \in Seq(Byte) /\ Len(buffer) <= Capacity
      /\ Len(buffer) \in Nat /\ <<>> \in Seq(Byte) /\ Capacity \in Nat /\ Capacity >= 1
      /\ Len(<<>>) = 0
  BY SinkAssumption DEF IInv, Typed, TypeOK
<1>2. p \in Seq(Byte) /\ Len(p) \in Nat
  BY NextPiece DEF WritePiece
<1>3. /\ file' = file \o (IF Fits(p) THEN <<>> ELSE buffer) \o (IF Bypasses(p) THEN p ELSE <<>>)
      /\ buffer' = IF Bypasses(p) THEN (IF Fits(p) THEN buffer ELSE <<>>)
                                  ELSE (IF Fits(p) THEN buffer ELSE <<>>) \o p
  BY DEF WritePiece
<1> SUFFICES \E x \in Seq(Byte) :
                /\ file' = file \o x /\ x \o buffer' = buffer \o p
                /\ buffer' \in Seq(Byte) /\ Len(buffer') <= Capacity
  OBVIOUS
<1> HIDE DEF p
<1>4. /\ file \o <<>> = file /\ buffer \o <<>> = buffer /\ <<>> \o p = p /\ p \o <<>> = p
      /\ <<>> \o <<>> = <<>>
  BY <1>1, <1>2, ConcatEmptySeq
<1>5. buffer \o p \in Seq(Byte) /\ Len(buffer \o p) = Len(buffer) + Len(p)
  BY <1>1, <1>2, Append1
<1>6. CASE Fits(p) /\ Bypasses(p)
  <2>1. Len(buffer) = 0
    BY <1>1, <1>2, <1>6 DEF Fits, Bypasses
  <2>2. buffer = <<>>
    BY <1>1, <2>1, EmptySeq
  <2>3. file' = file \o p /\ buffer' = <<>> /\ p \o buffer' = buffer \o p
    BY <1>3, <1>4, <1>6, <2>2
  <2>4. buffer' \in Seq(Byte) /\ Len(buffer') <= Capacity
    BY <1>1, <2>3
  <2> USE <1>2
  <2> WITNESS p \in Seq(Byte)
  <2>5. QED
    BY <2>3, <2>4
<1>7. CASE Fits(p) /\ ~Bypasses(p)
  <2>1. file' = file \o <<>> /\ buffer' = buffer \o p
    BY <1>3, <1>4, <1>7
  <2>2. <<>> \o buffer' = buffer \o p
    BY <1>5, <2>1, ConcatEmptySeq
  <2>3. Len(buffer') <= Capacity
    BY <1>1, <1>2, <1>5, <1>7, <2>1 DEF Fits
  <2>4. QED
    BY <1>1, <1>5, <2>1, <2>2, <2>3
<1>8. CASE ~Fits(p) /\ Bypasses(p)
  <2>1. file' = (file \o buffer) \o p /\ buffer' = <<>>
    BY <1>3, <1>8
  <2>2. file' = file \o (buffer \o p)
    BY <1>1, <1>2, <2>1, AppendTwice
  <2>3. (buffer \o p) \o buffer' = buffer \o p
    BY <1>5, <2>1, ConcatEmptySeq
  <2>4. buffer' \in Seq(Byte) /\ Len(buffer') <= Capacity
    BY <1>1, <2>1
  <2>5. buffer \o p \in Seq(Byte)
    BY <1>5
  <2> WITNESS buffer \o p \in Seq(Byte)
  <2>6. QED
    BY <2>2, <2>3, <2>4
<1>9. CASE ~Fits(p) /\ ~Bypasses(p)
  <2>1. file' = (file \o buffer) \o <<>> /\ buffer' = p
    BY <1>3, <1>4, <1>9
  <2>2. file' = file \o buffer
    BY <1>1, <1>4, <2>1, AppendTwice
  <2>3. Len(p) <= Capacity
    BY <1>1, <1>2, <1>9 DEF Bypasses
  <2>4. QED
    BY <1>1, <1>2, <2>1, <2>2, <2>3
<1>10. QED
  BY <1>6, <1>7, <1>8, <1>9

\* A piece handed to the writer.
LEMMA WritePieceIInv ==
  ASSUME IInv, WritePiece
  PROVE  IInv' /\ Device' = Device
<1> DEFINE p == Pieces(current)[piece]
<1>1. PICK x \in Seq(Byte) :
            /\ file' = file \o x /\ x \o buffer' = buffer \o p
            /\ buffer' \in Seq(Byte) /\ Len(buffer') <= Capacity
  BY ThroughTheWriter
<1>2. /\ Typed /\ Layered /\ phase = "writing" /\ piece <= Len(Pieces(current))
      /\ piece' = piece + 1 /\ piece \in Int /\ piece >= 1
      /\ UNCHANGED <<synced, holes, phase, current, pending, durable, confirmed, ends, drops>>
  BY Layers DEF IInv, WritePiece, Typed, TypeOK, counters
<1>3. /\ p \in Seq(Byte)
      /\ \/ p = <<Newline>> /\ piece % 2 = 0
         \/ \E c \in Events : p = Text(c[1], c[2]) /\ c[1] = current /\ piece = 2 * c[2] - 1
  BY <1>2, NextPiece
<1>4. GapFree(Written \o p) /\ GapFree(Shown \o p)
  BY <1>2, PieceGapFree
<1>5. piece' \in 1..(2 * Len(LineLengths) + 1)
  BY <1>2, PiecesLength
<1> HIDE DEF p
<1>6. /\ file' \in Seq(Byte) /\ Len(file') >= Len(file) /\ Len(file') \in Nat
      /\ Written' = Written \o p /\ Shown' = Shown \o p /\ Device' = Device
  BY <1>1, <1>2, <1>3, Moving
<1>7. Typed'
  <2>1. synced' \in 0..Len(file') /\ holes' \subseteq DOMAIN file'
    <3>1. synced \in 0..Len(file) /\ holes \subseteq 1..Len(file) /\ Len(file) \in Nat
      BY <1>2 DEF Typed, TypeOK
    <3>2. DOMAIN file' = 1..Len(file')
      BY <1>6
    <3>3. QED
      BY <1>2, <1>6, <3>1, <3>2
  <2>2. TypeOK'
    BY <1>1, <1>2, <1>5, <2>1 DEF Typed, TypeOK
  <2>3. QED
    BY <1>1, <1>2, <1>6, <2>2 DEF Typed
<1>8. \A e \in Events : Holds(Written, e) => Holds(Written', e)
  <2>1. Written' \in Seq(Byte) /\ Extends(Written, Written') /\ Written \in Seq(Byte)
    BY <1>2, <1>3, <1>6, Append1 DEF Layered
  <2>2. QED
    BY <2>1, HoldsOn
<1>9. Durably'
  BY <1>2, <1>6 DEF IInv, Durably
<1>10. PendingCoversItsPast'
  BY <1>2, <1>8 DEF IInv, PendingCoversItsPast
<1>11. CurrentFollows'
  <2>1. \A e \in Events : e[1] < current => Holds(Written', e)
    BY <1>2, <1>8 DEF IInv, CurrentFollows
  <2>2. ASSUME NEW e \in Events, e[1] = current, 2 * e[2] - 1 < piece + 1
        PROVE  Holds(Written', e)
    <3>1. CASE 2 * e[2] - 1 < piece
      BY <1>2, <1>8, <2>2, <3>1 DEF IInv, CurrentFollows
    <3>2. CASE 2 * e[2] - 1 = piece
      <4>1. piece % 2 # 0
        BY <3>2, EventNumbers
      <4>2. PICK c \in Events : p = Text(c[1], c[2]) /\ c[1] = current /\ piece = 2 * c[2] - 1
        BY <1>3, <4>1
      <4>3. e[2] = c[2]
        BY <3>2, <4>2, EventNumbers
      <4>4. e = c
        BY <2>2, <4>2, <4>3 DEF Events
      <4>5. QED
        BY <1>2, <1>6, <4>2, <4>4, HoldsAppended DEF Layered
    <3>3. QED
      BY <1>2, <2>2, <3>1, <3>2, EventNumbers
  <2>3. QED
    BY <1>2, <2>1, <2>2 DEF CurrentFollows
<1>12. NoGapAnywhere'
  BY <1>4, <1>6 DEF NoGapAnywhere, p
<1>13. QED
  BY <1>6, <1>7, <1>9, <1>10, <1>11, <1>12 DEF IInv

\* What may still reach the file when the process ends opens no gap either.
LEMMA InHandGapFree ==
  ASSUME IInv
  PROVE  /\ InHand \in Seq(Byte)
         /\ GapFree(OnDevice \o InHand) /\ GapFree(file \o InHand)
<1>1. /\ Typed /\ Layered /\ buffer \in Seq(Byte) /\ file \in Seq(Byte)
      /\ OnDevice \in Seq(Byte) /\ GapFree(Written) /\ GapFree(Shown)
  BY Layers DEF IInv, Typed, Layered, NoGapAnywhere
<1> DEFINE p == Pieces(current)[piece]
<1>2. CASE InHand = buffer
  BY <1>1, <1>2 DEF Written, Shown
<1>3. CASE phase = "writing" /\ piece <= Len(Pieces(current)) /\ InHand = buffer \o p
  <2>1. p \in Seq(Byte)
    BY <1>3, NextPiece
  <2>2. GapFree(Written \o p) /\ GapFree(Shown \o p)
    BY <1>3, PieceGapFree
  <2> DEFINE d == OnDevice
  <2>3. d \in Seq(Byte)
    BY <1>1
  <2> HIDE DEF p, d
  <2>4. (d \o buffer) \o p = d \o (buffer \o p)
    BY <1>1, <2>1, <2>3, AppendTwice
  <2>5. (file \o buffer) \o p = file \o (buffer \o p)
    BY <1>1, <2>1, AppendTwice
  <2>6. InHand = buffer \o p
    BY <1>3 DEF p
  <2>7. GapFree(d \o InHand)
    BY <2>2, <2>4, <2>6 DEF Written, d
  <2>8. GapFree(file \o InHand)
    BY <2>2, <2>5, <2>6 DEF Shown
  <2>9. InHand \in Seq(Byte)
    BY <1>1, <2>1, <2>6, Append1
  <2>10. QED
    BY <2>7, <2>8, <2>9 DEF d
<1>4. QED
  BY <1>2, <1>3 DEF InHand

\* After an end nothing is in the sink, and only what the device holds counts.
LEMMA EndIInv ==
  ASSUME IInv, EndProcess, file' \in Seq(Byte), synced' \in 0..Len(file'),
         holes' \subseteq DOMAIN file', Extends(Device, Device'),
         GapFree(OnDevice'), GapFree(file')
  PROVE  IInv'
<1> USE DEF EndProcess
<1>1. Typed /\ Layered /\ Layered' /\ Typed'
  <2>1. Typed /\ <<>> \in Seq(Byte) /\ Len(<<>>) = 0 /\ Capacity \in Nat /\ MaxTx \in Nat
        /\ MaxEnds \in Nat /\ Len(LineLengths) \in Nat
    BY SinkAssumption DEF IInv
  <2>2. 1 \in 1..(2 * Len(LineLengths) + 1)
    BY <2>1
  <2>3. ends' \in 0..MaxEnds
    BY <2>1 DEF Typed, TypeOK
  <2>4. TypeOK'
    BY <2>1, <2>2, <2>3 DEF Typed, TypeOK
  <2>5. Typed'
    BY <2>1, <2>4 DEF Typed
  <2>6. QED
    BY <2>1, <2>5, Layers, LayersNext
<1>2. Durably'
  <2>1. ASSUME NEW e \in Events, e[1] <= durable' \/ e[1] <= confirmed'
        PROVE  Holds(Device', e)
    <3>1. e[1] <= confirmed
      BY <2>1, EventNumbers
    <3>2. Holds(Device, e)
      BY <3>1 DEF IInv, Durably
    <3>3. QED
      BY <1>1, <3>2, HoldsOn DEF Layered
  <2>2. QED
    BY <2>1 DEF Durably
<1>3. PendingCoversItsPast' /\ CurrentFollows'
  BY EventNumbers DEF PendingCoversItsPast, CurrentFollows
<1>4. NoGapAnywhere'
  <2>1. Written' = OnDevice' \o <<>> /\ Shown' = file' \o <<>>
    BY DEF Written, Shown
  <2>2. OnDevice' \in Seq(Byte)
    BY <1>1 DEF Layered
  <2>3. Written' = OnDevice' /\ Shown' = file'
    BY <2>1, <2>2, ConcatEmptySeq
  <2>4. QED
    BY <2>3 DEF NoGapAnywhere
<1>5. QED
  BY <1>1, <1>2, <1>3, <1>4 DEF IInv

\* What the end of the process leaves is a beginning of what was written and in
\* hand.
LEMMA CutInHand ==
  ASSUME IInv, ProcessEnds
  PROVE  /\ file' \in Seq(Byte) /\ Len(file') >= Len(file) /\ Len(file') \in Nat
         /\ OnDevice' \in Seq(Byte) /\ Extends(OnDevice, OnDevice')
         /\ OnDevice \o InHand \in Seq(Byte) /\ file \o InHand \in Seq(Byte)
         /\ Extends(OnDevice', OnDevice \o InHand) /\ Extends(file', file \o InHand)
<1>1. PICK n \in 0..Len(InHand) : file' = file \o SubSeq(InHand, 1, n)
  BY DEF ProcessEnds
<1> DEFINE q == SubSeq(InHand, 1, n)
<1>2. /\ Typed /\ Layered /\ file \in Seq(Byte) /\ UNCHANGED <<synced, holes>> /\ EndProcess
      /\ holes \in SUBSET (1..Len(file)) /\ synced \in 0..Len(file) /\ Len(file) \in Nat
      /\ OnDevice \in Seq(Byte)
  <2>1. Typed /\ Layered
    BY Layers DEF IInv
  <2>2. file \in Seq(Byte) /\ holes \subseteq DOMAIN file /\ synced \in 0..Len(file)
    BY <2>1 DEF Typed, TypeOK
  <2>3. Len(file) \in Nat /\ DOMAIN file = 1..Len(file)
    BY <2>2
  <2>4. UNCHANGED <<synced, holes>> /\ EndProcess
    BY DEF ProcessEnds
  <2>5. OnDevice \in Seq(Byte)
    BY <2>1 DEF Layered
  <2>6. QED
    BY <2>1, <2>2, <2>3, <2>4, <2>5
<1>3. /\ InHand \in Seq(Byte)
      /\ GapFree(OnDevice \o InHand) /\ GapFree(file \o InHand)
  BY InHandGapFree
<1>4. q \in Seq(Byte)
  BY <1>3, Prefix
<1>5. Extends(OnDevice \o q, OnDevice \o InHand) /\ Extends(file \o q, file \o InHand)
  BY <1>2, <1>3, AppendPrefix
<1> HIDE DEF q
<1>6. /\ file' = file \o q /\ file' \in Seq(Byte) /\ Len(file') = Len(file) + Len(q)
      /\ Len(q) \in Nat /\ OnDevice \o q \in Seq(Byte) /\ Extends(OnDevice, OnDevice \o q)
      /\ OnDevice \o InHand \in Seq(Byte) /\ file \o InHand \in Seq(Byte)
  <2> DEFINE d == OnDevice
             h == InHand
  <2>1. d \in Seq(Byte) /\ h \in Seq(Byte)
    BY <1>2, <1>3
  <2> HIDE DEF d, h
  <2>2. file \o q \in Seq(Byte) /\ Len(file \o q) = Len(file) + Len(q) /\ Len(q) \in Nat
    BY <1>2, <1>4, Append1
  <2>3. d \o q \in Seq(Byte) /\ Extends(d, d \o q) /\ d \o h \in Seq(Byte)
    BY <1>4, <2>1, Append1
  <2>4. file \o h \in Seq(Byte)
    BY <1>2, <2>1, Append1
  <2>5. file' = file \o q
    BY <1>1 DEF q
  <2>6. QED
    BY <2>2, <2>3, <2>4, <2>5 DEF d, h
<1>7. OnDevice' = OnDevice \o q
  <2>1. OnDevice' = Punched(file \o q, holes)
    BY <1>2, <1>6 DEF OnDevice, Punched
  <2>2. QED
    BY <1>2, <1>4, <2>1, PunchedAppend DEF Layered
<1>8. Len(file') >= Len(file) /\ Len(file') \in Nat
  BY <1>2, <1>6
<1>9. OnDevice' \in Seq(Byte) /\ Extends(OnDevice, OnDevice')
  BY <1>6, <1>7
<1>10. Extends(OnDevice', OnDevice \o InHand) /\ Extends(file', file \o InHand)
  BY <1>5, <1>6, <1>7
<1>11. QED
  BY <1>6, <1>8, <1>9, <1>10

\* The process ends with any part of what was in hand in the file.
LEMMA ProcessEndsIInv ==
  ASSUME IInv, ProcessEnds
  PROVE  IInv' /\ Extends(Device, Device')
<1>1. /\ Typed /\ Layered /\ file \in Seq(Byte) /\ UNCHANGED <<synced, holes>> /\ EndProcess
      /\ holes \in SUBSET (1..Len(file)) /\ synced \in 0..Len(file) /\ Len(file) \in Nat
      /\ OnDevice \in Seq(Byte)
  <2>1. Typed /\ Layered
    BY Layers DEF IInv
  <2>2. file \in Seq(Byte) /\ holes \subseteq DOMAIN file /\ synced \in 0..Len(file)
    BY <2>1 DEF Typed, TypeOK
  <2>3. Len(file) \in Nat /\ DOMAIN file = 1..Len(file)
    BY <2>2
  <2>4. UNCHANGED <<synced, holes>> /\ EndProcess
    BY DEF ProcessEnds
  <2>5. OnDevice \in Seq(Byte)
    BY <2>1 DEF Layered
  <2>6. QED
    BY <2>1, <2>2, <2>3, <2>4, <2>5
<1>2. /\ file' \in Seq(Byte) /\ Len(file') >= Len(file) /\ Len(file') \in Nat
      /\ OnDevice' \in Seq(Byte) /\ Extends(OnDevice, OnDevice')
      /\ OnDevice \o InHand \in Seq(Byte) /\ file \o InHand \in Seq(Byte)
      /\ Extends(OnDevice', OnDevice \o InHand) /\ Extends(file', file \o InHand)
  BY CutInHand
<1>3. GapFree(OnDevice \o InHand) /\ GapFree(file \o InHand)
  BY InHandGapFree
<1>4. GapFree(OnDevice') /\ GapFree(file')
  BY <1>2, <1>3, CutGapFree
<1>5. synced' \in 0..Len(file') /\ holes' \subseteq DOMAIN file'
  <2>1. DOMAIN file' = 1..Len(file')
    BY <1>2
  <2>2. QED
    BY <1>1, <1>2, <2>1
<1>6. Extends(Device, Device')
  <2>1. Device' = SubSeq(OnDevice', 1, synced)
    BY <1>1 DEF Device
  <2>2. synced \in 0..Len(OnDevice) /\ synced <= Len(OnDevice')
    BY <1>1, <1>2 DEF Layered, Extends
  <2>3. \A k \in 1..synced : OnDevice[k] = OnDevice'[k]
    BY <1>2, <2>2 DEF Extends
  <2>4. SubSeq(OnDevice, 1, synced) = SubSeq(OnDevice', 1, synced)
    BY <1>1, <1>2, <2>2, <2>3, SamePrefix
  <2>5. Device' = Device
    BY <2>1, <2>4 DEF Device
  <2>6. QED
    BY <1>1, <2>5, ExtendsItself DEF Layered
<1>7. QED
  BY <1>1, <1>2, <1>4, <1>5, <1>6, EndIInv

\* A failed sync: everything that was not on the device has become a hole.
LEMMA SyncFailsHoles ==
  ASSUME IInv, SyncFails
  PROVE  /\ Typed /\ Layered /\ EndProcess /\ file' = file /\ file' \in Seq(Byte)
         /\ holes' \subseteq DOMAIN file' /\ synced' \in 0..Len(file')
         /\ Device' = Device /\ OnDevice' \in Seq(Byte)
         /\ Device \in Seq(Byte) /\ Extends(Device, OnDevice') /\ Extends(Device, Written)
         /\ \A k \in (Len(Device) + 1)..Len(OnDevice') : OnDevice'[k] = Hole
<1>1. /\ Typed /\ Layered /\ EndProcess /\ UNCHANGED <<file, synced>>
      /\ holes' = holes \cup (synced + 1)..Len(file)
  BY Layers DEF IInv, SyncFails
<1>2. /\ file \in Seq(Byte) /\ synced \in 0..Len(file) /\ Len(file) \in Nat
      /\ holes \subseteq 1..Len(file) /\ DOMAIN file = 1..Len(file)
  BY <1>1 DEF Typed, TypeOK
<1>3. holes' \subseteq DOMAIN file' /\ synced' \in 0..Len(file') /\ file' \in Seq(Byte)
  <2>1. \A k \in (synced + 1)..Len(file) : k \in 1..Len(file)
    BY <1>2
  <2>2. holes' \subseteq 1..Len(file)
    BY <1>1, <1>2, <2>1
  <2>3. DOMAIN file' = 1..Len(file)
    BY <1>1, <1>2
  <2>4. QED
    BY <1>1, <1>2, <2>2, <2>3
<1> DEFINE d == OnDevice
           g == Punched(file, holes')
<1>4. OnDevice' = g
  BY <1>1 DEF OnDevice, Punched
<1>5. /\ d \in Seq(Byte) /\ Len(d) = Len(file)
      /\ \A k \in 1..Len(file) : d[k] = IF k \in holes THEN Hole ELSE file[k]
  BY <1>1, <1>2, PunchedType DEF Layered
<1>6. /\ g \in Seq(Byte) /\ Len(g) = Len(file)
      /\ \A k \in 1..Len(file) : g[k] = IF k \in holes' THEN Hole ELSE file[k]
  BY <1>2, PunchedType
<1> HIDE DEF d, g
<1>7. \A k \in 1..synced : d[k] = g[k]
  <2>1. \A k \in 1..synced : k \in 1..Len(file) /\ (k \in holes <=> k \in holes')
    BY <1>1, <1>2
  <2>2. QED
    BY <1>5, <1>6, <2>1
<1>8. SubSeq(d, 1, synced) = SubSeq(g, 1, synced)
  <2>1. synced \in 0..Len(d) /\ synced <= Len(g)
    BY <1>2, <1>5, <1>6
  <2>2. QED
    BY <1>5, <1>6, <1>7, <2>1, SamePrefix
<1>9. Device' = Device
  <2>1. Device' = SubSeq(OnDevice', 1, synced)
    BY <1>1 DEF Device
  <2>2. QED
    BY <1>4, <1>8, <2>1 DEF Device, d
<1>10. Device \in Seq(Byte) /\ Len(Device) = synced /\ Extends(Device, g)
  <2>1. synced \in 0..Len(g)
    BY <1>2, <1>6
  <2>2. Extends(SubSeq(g, 1, synced), g)
    BY <1>6, <2>1, Prefix
  <2>3. Device = SubSeq(g, 1, synced)
    BY <1>8 DEF Device, d
  <2>4. QED
    BY <1>1, <2>2, <2>3 DEF Layered
<1>11. \A k \in (synced + 1)..Len(g) : g[k] = Hole
  <2>1. \A k \in (synced + 1)..Len(file) : k \in 1..Len(file) /\ k \in holes'
    BY <1>1, <1>2
  <2>2. QED
    BY <1>6, <2>1
<1>12. Extends(Device, Written)
  BY <1>1 DEF Layered, Extends
<1>13. QED
  BY <1>1, <1>3, <1>4, <1>6, <1>9, <1>10, <1>11, <1>12

\* It takes nothing from the device and opens no gap.
LEMMA SyncFailsIInv ==
  ASSUME IInv, SyncFails
  PROVE  IInv' /\ Extends(Device, Device')
<1>1. /\ Typed /\ Layered /\ EndProcess /\ file' = file /\ file' \in Seq(Byte)
      /\ holes' \subseteq DOMAIN file' /\ synced' \in 0..Len(file')
      /\ Device' = Device /\ OnDevice' \in Seq(Byte)
      /\ Device \in Seq(Byte) /\ Extends(Device, OnDevice') /\ Extends(Device, Written)
      /\ \A k \in (Len(Device) + 1)..Len(OnDevice') : OnDevice'[k] = Hole
  BY SyncFailsHoles
<1>2. Extends(Device, Device')
  BY <1>1, ExtendsItself
<1>3. GapFree(Written) /\ GapFree(Shown) /\ Written \in Seq(Byte) /\ Shown \in Seq(Byte)
      /\ Extends(file, Shown)
  BY <1>1 DEF IInv, NoGapAnywhere, Layered
<1>4. GapFree(Device)
  BY <1>1, <1>3, CutGapFree
<1>5. GapFree(OnDevice')
  BY <1>1, <1>4, HolesGapFree
<1>6. GapFree(file')
  BY <1>1, <1>3, CutGapFree
<1>7. QED
  BY <1>1, <1>2, <1>5, <1>6, EndIInv

\* The machine goes down: the file is cut somewhere behind what is synced, and
\* what is left of it is on the device.
LEMMA MachineFailsCuts ==
  ASSUME IInv, MachineFails
  PROVE  /\ EndProcess /\ OnDevice' = file' /\ file' \in Seq(Byte)
         /\ Extends(file', Written)
         /\ synced' \in 0..Len(file') /\ holes' \subseteq DOMAIN file'
         /\ Extends(Device, Device')
<1>1. PICK n \in synced..Len(file) : file' = SubSeq(OnDevice, 1, n) /\ synced' = n
  BY DEF MachineFails
<1>2. /\ Typed /\ Layered /\ EndProcess
      /\ holes' = {k \in holes : k <= synced'}
  BY Layers DEF IInv, MachineFails
<1>3. /\ file \in Seq(Byte) /\ synced \in 0..Len(file) /\ Len(file) \in Nat
      /\ holes \subseteq 1..Len(file)
  BY <1>2 DEF Typed, TypeOK
<1> DEFINE d == OnDevice
           g == Punched(file', holes')
<1>4. /\ d \in Seq(Byte) /\ Len(d) = Len(file)
      /\ \A k \in 1..Len(file) : d[k] = IF k \in holes THEN Hole ELSE file[k]
  BY <1>2, <1>3, PunchedType DEF Layered
<1>5. OnDevice' = g
  BY DEF OnDevice, Punched
<1>6. file' = SubSeq(d, 1, n)
  BY <1>1
<1> HIDE DEF d
<1>7. n \in 0..Len(d) /\ n \in Nat /\ synced <= n
  BY <1>1, <1>3, <1>4
<1>8. file' \in Seq(Byte) /\ Len(file') = n /\ Extends(file', d)
  BY <1>4, <1>6, <1>7, Prefix
<1>9. /\ g \in Seq(Byte) /\ Len(g) = n
      /\ \A k \in 1..n : g[k] = IF k \in holes' THEN Hole ELSE file'[k]
  BY <1>8, PunchedType
<1> HIDE DEF g
<1>10. g = file'
  <2>1. ASSUME NEW k \in 1..n
        PROVE  g[k] = file'[k]
    <3>1. file'[k] = d[k]
      BY <1>8 DEF Extends
    <3>2. k \in 1..Len(file)
      BY <1>4, <1>7
    <3>3. k \in holes' => k \in holes
      BY <1>2
    <3>4. QED
      BY <1>4, <1>9, <3>1, <3>2, <3>3
  <2>2. QED
    BY <1>8, <1>9, <2>1, SeqEqual
<1>11. synced' \in 0..Len(file') /\ holes' \subseteq DOMAIN file'
  <2>1. DOMAIN file' = 1..Len(file')
    BY <1>8
  <2>2. DOMAIN file' = 1..n
    BY <1>8, <2>1
  <2>3. \A k \in holes' : k \in 1..n
    <3>1. \A k \in holes' : k \in 1..Len(file) /\ k <= n
      BY <1>1, <1>2, <1>3
    <3>2. QED
      BY <1>3, <1>7, <3>1
  <2>4. synced' \in 0..Len(file')
    BY <1>1, <1>7, <1>8
  <2>5. QED
    BY <2>2, <2>3, <2>4
<1>12. Extends(file', Written)
  <2>1. d \in Seq(Byte) /\ Written \in Seq(Byte) /\ Extends(d, Written)
    BY <1>2 DEF Layered, d
  <2>2. QED
    BY <1>8, <2>1, ExtendsTransitive
<1>13. Extends(Device, Device')
  <2>1. Device' = SubSeq(file', 1, n)
    BY <1>1, <1>5, <1>10 DEF Device
  <2>2. Device' = file'
    BY <1>8, <2>1, SubSeqFull
  <2>3. /\ Len(Device) = synced /\ Len(file') = n
        /\ \A k \in 1..Len(Device) : d[k] = Device[k]
    BY <1>2, <1>8 DEF Layered, Extends, d
  <2>4. \A k \in 1..n : d[k] = file'[k]
    BY <1>8 DEF Extends
  <2>5. \A k \in 1..synced : k \in 1..n
    BY <1>3, <1>7
  <2>6. QED
    BY <1>7, <2>2, <2>3, <2>4, <2>5 DEF Extends
<1>14. QED
  BY <1>2, <1>5, <1>8, <1>10, <1>11, <1>12, <1>13

\* That opens no gap either.
LEMMA MachineFailsIInv ==
  ASSUME IInv, MachineFails
  PROVE  IInv' /\ Extends(Device, Device')
<1>1. /\ EndProcess /\ OnDevice' = file' /\ file' \in Seq(Byte)
      /\ Extends(file', Written)
      /\ synced' \in 0..Len(file') /\ holes' \subseteq DOMAIN file'
      /\ Extends(Device, Device')
  BY MachineFailsCuts
<1>2. Written \in Seq(Byte) /\ GapFree(Written)
  BY Layers DEF IInv, NoGapAnywhere, Layered
<1>3. GapFree(file')
  BY <1>1, <1>2, CutGapFree
<1>4. QED
  BY <1>1, <1>3, EndIInv

\* Every step keeps the invariant, and the device only grows.
LEMMA NextIInv ==
  ASSUME IInv, [Next]_vars
  PROVE  IInv' /\ Extends(Device, Device')
<1>1. Typed /\ Layered
  BY Layers DEF IInv
<1>2. Extends(Device, Device)
  BY <1>1, ExtendsItself DEF Layered
<1>3. CASE QuietNext
  BY <1>2, <1>3, QuietIInv
<1>4. CASE WritePiece
  BY <1>2, <1>4, WritePieceIInv
<1>5. CASE Flush
  BY <1>2, <1>5, FlushIInv
<1>6. CASE Sync
  BY <1>6, SyncIInv
<1>7. CASE ProcessEnds
  BY <1>7, ProcessEndsIInv
<1>8. CASE SyncFails
  BY <1>8, SyncFailsIInv
<1>9. CASE MachineFails
  BY <1>9, MachineFailsIInv
<1>10. CASE UNCHANGED vars
  <2>1. UNCHANGED <<buffer, file, synced, holes, phase, current, piece, pending, durable,
                    confirmed, ends, drops>>
    BY <1>10 DEF vars, counters
  <2>2. Device' = Device /\ Written' = Written /\ Shown' = Shown
    BY <2>1 DEF Device, Written, Shown, OnDevice
  <2>3. Typed' /\ Durably' /\ PendingCoversItsPast' /\ CurrentFollows' /\ NoGapAnywhere'
    BY <2>1, <2>2 DEF IInv, Typed, TypeOK, Durably, PendingCoversItsPast, CurrentFollows,
                      NoGapAnywhere
  <2>4. QED
    BY <1>2, <2>2, <2>3 DEF IInv
<1>11. QED
  BY <1>3, <1>4, <1>5, <1>6, <1>7, <1>8, <1>9, <1>10 DEF Next, QuietNext

-----------------------------------------------------------------------------
(* How many lines are not an event.                                        *)

\* A line of s begins at a: behind a newline, or at the start.
Begins(s, a) == a \in 1..(Len(s) + 1) /\ (a = 1 \/ s[a - 1] = Newline)

\* It ends with the newline at b, or it is the last one and has none yet.
IsLine(s, a, b) ==
    Begins(s, a) /\ b \in a..Len(s) /\ s[b] = Newline /\ \A k \in a..(b - 1) : s[k] # Newline

IsOpen(s, a) == Begins(s, a) /\ \A k \in a..Len(s) : s[k] # Newline

\* What stands from a to just before b is an event, or nothing.
Reads(s, a, b) ==
    a = b \/ \E e \in Events : StandsAt(s, e, a) /\ b = a + LineLengths[e[2]]

\* One of the places of B is within the line, or right at its end.
Marked(B, a, b) == \E m \in B : a <= m /\ m <= b

\* Every line that is not an event has a place of B.
Explained(s, B) == \A a, b \in Nat : IsLine(s, a, b) => Reads(s, a, b) \/ Marked(B, a, b)

\* The open line is empty, or it is the line of e, or it has a place of B.
Fresh(s, B) ==
    \A a \in Nat : IsOpen(s, a) => a = Len(s) + 1 \/ Marked(B, a, Len(s) + 1)

Ready(s, e, B) ==
    \A a \in Nat : IsOpen(s, a) => \/ StandsAt(s, e, a) /\ Len(s) + 1 = a + LineLengths[e[2]]
                                   \/ Marked(B, a, Len(s) + 1)

\* A complete line of a beginning is a line of the whole.
LEMMA SameLine ==
  ASSUME NEW s \in Seq(Byte), NEW t \in Seq(Byte), Extends(s, t),
         NEW a \in Nat, NEW b \in Nat, b <= Len(s)
  PROVE  IsLine(s, a, b) <=> IsLine(t, a, b)
<1>1. Len(s) \in Nat /\ Len(t) \in Nat /\ Len(s) <= Len(t)
  BY DEF Extends
<1>2. ASSUME b \in a..Len(t), a >= 1
      PROVE  /\ b \in 1..Len(s) /\ t[b] = s[b]
             /\ a # 1 => t[a - 1] = s[a - 1]
             /\ \A k \in a..(b - 1) : t[k] = s[k]
  <2>1. b \in 1..Len(s) /\ (a # 1 => a - 1 \in 1..Len(s))
        /\ \A k \in a..(b - 1) : k \in 1..Len(s)
    BY <1>1, <1>2
  <2>2. QED
    BY <2>1 DEF Extends
<1>3. ASSUME IsLine(s, a, b)
      PROVE  IsLine(t, a, b)
  <2>1. /\ a >= 1 /\ a \in 1..(Len(s) + 1) /\ (a = 1 \/ s[a - 1] = Newline) /\ b \in a..Len(s)
        /\ s[b] = Newline /\ \A k \in a..(b - 1) : s[k] # Newline
    BY <1>3 DEF IsLine, Begins
  <2>2. a \in 1..(Len(t) + 1) /\ b \in a..Len(t)
    BY <1>1, <2>1
  <2>3. QED
    BY <1>2, <2>1, <2>2 DEF IsLine, Begins
<1>4. ASSUME IsLine(t, a, b)
      PROVE  IsLine(s, a, b)
  <2>1. /\ a >= 1 /\ a \in 1..(Len(t) + 1) /\ (a = 1 \/ t[a - 1] = Newline) /\ b \in a..Len(t)
        /\ t[b] = Newline /\ \A k \in a..(b - 1) : t[k] # Newline
    BY <1>4 DEF IsLine, Begins
  <2>2. a \in 1..(Len(s) + 1) /\ b \in a..Len(s)
    BY <1>1, <2>1
  <2>3. QED
    BY <1>2, <2>1, <2>2 DEF IsLine, Begins
<1>5. QED
  BY <1>3, <1>4

\* It reads the same.
LEMMA SameReading ==
  ASSUME NEW s \in Seq(Byte), NEW t \in Seq(Byte), Extends(s, t),
         NEW a \in Nat \ {0}, NEW b \in Nat, b <= Len(s) + 1
  PROVE  Reads(s, a, b) <=> Reads(t, a, b)
<1>1. Len(s) \in Nat
  OBVIOUS
<1>2. ASSUME NEW e \in Events, b = a + LineLengths[e[2]]
      PROVE  StandsAt(s, e, a) <=> StandsAt(t, e, a)
  <2>1. a + LineLengths[e[2]] - 1 <= Len(s)
    BY <1>1, <1>2, LinesHaveLength
  <2>2. QED
    BY <2>1, StandsOn, StandsStill
<1>3. QED
  BY <1>2 DEF Reads

\* A line begins at a place.
LEMMA LinePlaces ==
  ASSUME NEW s \in Seq(Byte), NEW a, NEW b, IsLine(s, a, b)
  PROVE  /\ a \in Nat \ {0} /\ b \in Nat /\ a <= b /\ b <= Len(s)
         /\ s[b] = Newline /\ \A k \in a..(b - 1) : s[k] # Newline
BY DEF IsLine, Begins

\* Cutting off the end leaves no line without its reason ...
LEMMA CutExplained ==
  ASSUME NEW s \in Seq(Byte), NEW t \in Seq(Byte), Extends(s, t), NEW B, Explained(t, B)
  PROVE  Explained(s, B)
<1> SUFFICES ASSUME NEW a \in Nat, NEW b \in Nat, IsLine(s, a, b)
             PROVE  Reads(s, a, b) \/ Marked(B, a, b)
  BY DEF Explained
<1>1. a \in Nat \ {0} /\ b <= Len(s) /\ b <= Len(s) + 1
  <2>1. a \in Nat \ {0} /\ b <= Len(s) /\ Len(s) \in Nat
    BY LinePlaces
  <2>2. QED
    BY <2>1
<1>2. IsLine(t, a, b)
  BY <1>1, SameLine
<1>3. Reads(t, a, b) \/ Marked(B, a, b)
  BY <1>2 DEF Explained
<1>4. QED
  BY <1>1, <1>3, SameReading

\* ... and neither does anything that completes no line.
LEMMA OpenExplained ==
  ASSUME NEW s \in Seq(Byte), NEW t \in Seq(Byte), Extends(s, t), NEW B, Explained(s, B),
         \A k \in (Len(s) + 1)..Len(t) : t[k] # Newline
  PROVE  Explained(t, B)
<1> SUFFICES ASSUME NEW a \in Nat, NEW b \in Nat, IsLine(t, a, b)
             PROVE  Reads(t, a, b) \/ Marked(B, a, b)
  BY DEF Explained
<1>1. a \in Nat \ {0} /\ b <= Len(t) /\ t[b] = Newline /\ Len(s) \in Nat /\ Len(t) \in Nat
  BY LinePlaces
<1>2. b <= Len(s) /\ b <= Len(s) + 1
  <2>1. b \notin (Len(s) + 1)..Len(t)
    BY <1>1
  <2>2. QED
    BY <1>1, <2>1
<1>3. IsLine(s, a, b)
  BY <1>2, SameLine
<1>4. Reads(s, a, b) \/ Marked(B, a, b)
  BY <1>3 DEF Explained
<1>5. QED
  BY <1>1, <1>2, <1>4, SameReading

\* More places explain more.
LEMMA MoreExplained ==
  ASSUME NEW s, NEW B, NEW C, B \subseteq C, Explained(s, B)
  PROVE  Explained(s, C)
BY DEF Explained, Marked

\* The line of an event behind an open line that is empty.
LEMMA TextReady ==
  ASSUME NEW s \in Seq(Byte), NEW c \in Events, NEW B \in SUBSET Nat, Explained(s, B), Fresh(s, B)
  PROVE  LET t == s \o Text(c[1], c[2]) IN Explained(t, B) /\ Ready(t, c, B)
<1> DEFINE p == Text(c[1], c[2])
           n == LineLengths[c[2]]
           t == s \o p
<1>1. p \in Seq(Byte) /\ Len(p) = n /\ \A k \in 1..n : p[k] = <<c[1], c[2], k>>
  BY TextType
<1>2. n \in Nat /\ n >= 1 /\ Len(s) \in Nat
  BY LinesHaveLength
<1>3. StandsAt(t, c, Len(s) + 1)
  BY StandsAppended
<1> HIDE DEF p, n
<1>4. /\ t \in Seq(Byte) /\ Len(t) = Len(s) + n /\ Extends(s, t)
      /\ \A k \in 1..n : t[Len(s) + k] = p[k]
  BY <1>1, Append1
<1> HIDE DEF t
<1>5. ASSUME NEW k \in (Len(s) + 1)..Len(t)
      PROVE  t[k] # Newline
  <2>1. k - Len(s) \in 1..n /\ Len(s) + (k - Len(s)) = k
    BY <1>2, <1>4
  <2>2. t[k] = <<c[1], c[2], k - Len(s)>>
    BY <1>1, <1>4, <2>1
  <2>3. QED
    BY <2>2, BytesDiffer
<1>6. Explained(t, B)
  BY <1>4, <1>5, OpenExplained
<1>7. ASSUME NEW a \in Nat, IsOpen(t, a)
      PROVE  \/ StandsAt(t, c, a) /\ Len(t) + 1 = a + n
             \/ Marked(B, a, Len(t) + 1)
  <2>1. a \in 1..(Len(t) + 1) /\ (a = 1 \/ t[a - 1] = Newline)
        /\ \A k \in a..Len(t) : t[k] # Newline
    BY <1>7 DEF IsOpen, Begins
  <2>2. a \in 1..(Len(s) + 1)
    <3>1. a = 1 \/ a - 1 \notin (Len(s) + 1)..Len(t)
      BY <1>5, <2>1
    <3>2. Len(t) \in Nat
      BY <1>4
    <3>3. QED
      BY <1>2, <2>1, <3>1, <3>2
  <2>3. IsOpen(s, a)
    <3>1. /\ a # 1 => a - 1 \in 1..Len(s)
          /\ \A k \in a..Len(s) : k \in 1..Len(s) /\ k \in a..Len(t)
      BY <1>2, <1>4, <2>2
    <3>2. a # 1 => s[a - 1] = t[a - 1]
      BY <1>4, <3>1 DEF Extends
    <3>3. \A k \in a..Len(s) : s[k] = t[k]
      BY <1>4, <3>1 DEF Extends
    <3>4. QED
      BY <2>1, <2>2, <3>1, <3>2, <3>3 DEF IsOpen, Begins
  <2>4. CASE a = Len(s) + 1
    BY <1>2, <1>3, <1>4, <2>4
  <2>5. CASE Marked(B, a, Len(s) + 1)
    <3>1. PICK m \in B : a <= m /\ m <= Len(s) + 1
      BY <2>5 DEF Marked
    <3>2. m <= Len(t) + 1
      BY <1>2, <1>4, <3>1
    <3>3. QED
      BY <3>1, <3>2 DEF Marked
  <2>6. QED
    BY <2>3, <2>4, <2>5 DEF Fresh
<1>8. Ready(t, c, B)
  BY <1>7 DEF Ready, n
<1>9. QED
  BY <1>6, <1>8 DEF t, p

\* The newline behind it.
LEMMA NewlineFresh ==
  ASSUME NEW s \in Seq(Byte), NEW c \in Events, NEW B, Explained(s, B), Ready(s, c, B)
  PROVE  LET t == s \o <<Newline>> IN Explained(t, B) /\ Fresh(t, B)
<1> DEFINE p == <<Newline>>
           t == s \o p
<1>1. p \in Seq(Byte) /\ Len(p) = 1 /\ p[1] = Newline
  <2>1. Newline \in Byte
    BY DEF Byte
  <2>2. QED
    BY <2>1
<1>2. Len(s) \in Nat /\ 1 \in 1..1
  OBVIOUS
<1> HIDE DEF p
<1>3. /\ t \in Seq(Byte) /\ Len(t) = Len(s) + 1 /\ Extends(s, t) /\ t[Len(s) + 1] = Newline
  <2>1. /\ t \in Seq(Byte) /\ Len(t) = Len(s) + Len(p) /\ Extends(s, t)
        /\ \A k \in 1..Len(p) : t[Len(s) + k] = p[k]
    BY <1>1, Append1
  <2> HIDE DEF t
  <2>2. QED
    BY <1>1, <1>2, <2>1
<1> HIDE DEF t
<1>4. ASSUME NEW a \in Nat, NEW b \in Nat, IsLine(t, a, b)
      PROVE  Reads(t, a, b) \/ Marked(B, a, b)
  <2>1. /\ a \in Nat \ {0} /\ a <= b /\ b <= Len(t) /\ b <= Len(s) + 1
        /\ \A k \in a..(b - 1) : t[k] # Newline
    <3>1. /\ a \in Nat \ {0} /\ a <= b /\ b <= Len(t)
          /\ \A k \in a..(b - 1) : t[k] # Newline
      BY <1>3, <1>4, LinePlaces
    <3>2. QED
      BY <1>3, <3>1
  <2>2. CASE b <= Len(s)
    <3>1. IsLine(s, a, b)
      BY <1>3, <1>4, <2>2, SameLine
    <3>2. Reads(s, a, b) \/ Marked(B, a, b)
      BY <3>1 DEF Explained
    <3>3. QED
      BY <1>3, <2>1, <3>2, SameReading
  <2>3. CASE b = Len(s) + 1
    <3>1. IsOpen(s, a)
      <4>1. a \in 1..(Len(s) + 1) /\ a..Len(s) = a..(b - 1)
            /\ (a # 1 => a - 1 \in 1..Len(s)) /\ \A k \in a..Len(s) : k \in 1..Len(s)
        BY <1>2, <2>1, <2>3
      <4>2. a = 1 \/ t[a - 1] = Newline
        BY <1>4 DEF IsLine, Begins
      <4>3. /\ a # 1 => s[a - 1] = t[a - 1]
            /\ \A k \in a..Len(s) : s[k] = t[k]
        BY <1>3, <4>1 DEF Extends
      <4>4. QED
        BY <2>1, <4>1, <4>2, <4>3 DEF IsOpen, Begins
    <3>2. \/ StandsAt(s, c, a) /\ b = a + LineLengths[c[2]]
          \/ Marked(B, a, b)
      BY <2>3, <3>1 DEF Ready
    <3>3. StandsAt(s, c, a) => StandsAt(t, c, a)
      BY <1>3, <2>1, StandsOn
    <3>4. QED
      BY <3>2, <3>3 DEF Reads
  <2>4. QED
    BY <1>2, <2>1, <2>2, <2>3
<1>5. ASSUME NEW a \in Nat, IsOpen(t, a)
      PROVE  a = Len(t) + 1
  <2>1. a \in 1..(Len(t) + 1) /\ \A k \in a..Len(t) : t[k] # Newline
    BY <1>5 DEF IsOpen, Begins
  <2>2. Len(t) \notin a..Len(t) /\ Len(t) \in Nat
    BY <1>2, <1>3, <2>1
  <2>3. QED
    BY <2>1, <2>2
<1>6. Explained(t, B) /\ Fresh(t, B)
  BY <1>4, <1>5 DEF Explained, Fresh
<1>7. QED
  BY <1>6 DEF t, p

\* A place at the very end accounts for any open line.
LEMMA MarkedFresh ==
  ASSUME NEW s \in Seq(Byte), NEW B, Len(s) + 1 \in B
  PROVE  Fresh(s, B)
<1> SUFFICES ASSUME NEW a \in Nat, IsOpen(s, a)
             PROVE  Marked(B, a, Len(s) + 1)
  BY DEF Fresh
<1>1. a <= Len(s) + 1 /\ Len(s) + 1 <= Len(s) + 1
  BY DEF IsOpen, Begins
<1>2. QED
  BY <1>1 DEF Marked

\* A complete line as LineAt finds it.
LEMMA LineFound ==
  ASSUME NEW s \in Seq(Byte), NEW a \in Starts(s), a + Len(LineAt(s, a)) <= Len(s)
  PROVE  \E b \in Nat : IsLine(s, a, b) /\ LineAt(s, a) = SubSeq(s, a, b - 1)
<1> DEFINE stops == {k \in a..Len(s) : s[k] = Newline}
<1>1. Len(s) \in Nat /\ a \in 1..(Len(s) + 1) /\ (a = 1 \/ s[a - 1] = Newline)
  BY DEF Starts
<1>2. LineAt(s, a) = IF stops = {} THEN SubSeq(s, a, Len(s)) ELSE SubSeq(s, a, Min(stops) - 1)
  BY DEF LineAt
<1>3. stops \in SUBSET Nat
  BY <1>1
<1>4. stops # {}
  <2>1. SUFFICES ASSUME stops = {} PROVE FALSE
    OBVIOUS
  <2>2. Len(SubSeq(s, a, Len(s))) = Len(s) - a + 1
    BY <1>1, SubSeqIs
  <2>3. Len(LineAt(s, a)) = Len(s) - a + 1
    BY <1>2, <2>1, <2>2
  <2>4. QED
    BY <1>1, <2>3
<1> DEFINE b == Min(stops)
<1>5. b \in stops /\ \A k \in stops : b <= k
  BY <1>3, <1>4, LeastOf
<1>6. LineAt(s, a) = SubSeq(s, a, b - 1)
  BY <1>2, <1>4
<1> HIDE DEF b
<1>7. b \in a..Len(s) /\ s[b] = Newline /\ b \in Nat
  BY <1>1, <1>5
<1>8. \A k \in a..(b - 1) : s[k] # Newline
  <2>1. \A k \in a..(b - 1) : k \in a..Len(s) /\ ~(b <= k)
    BY <1>1, <1>7
  <2>2. QED
    BY <1>5, <2>1
<1>9. IsLine(s, a, b)
  BY <1>1, <1>7, <1>8 DEF IsLine, Begins
<1>10. QED
  BY <1>6, <1>7, <1>9

\* What reads as an event or as nothing is readable.
LEMMA ReadsIsReadable ==
  ASSUME NEW s \in Seq(Byte), NEW a \in Nat, NEW b \in Nat, IsLine(s, a, b), Reads(s, a, b)
  PROVE  SubSeq(s, a, b - 1) \in Readable \cup {<<>>}
<1> DEFINE q == SubSeq(s, a, b - 1)
<1>1. a \in Nat \ {0} /\ a <= b /\ b <= Len(s) /\ Len(s) \in Nat
  BY LinePlaces
<1>2. /\ q \in Seq(Byte) /\ Len(q) = b - a
      /\ \A k \in 1..(b - a) : q[k] = s[a + k - 1]
  <2>1. b - 1 \in (a - 1)..Len(s) /\ a \in 1..(Len(s) + 1) /\ (b - 1) - a + 1 = b - a
    BY <1>1
  <2>2. QED
    BY <2>1, SubSeqIs
<1> HIDE DEF q
<1>3. CASE a = b
  <2>1. Len(q) = 0
    BY <1>1, <1>2, <1>3
  <2>2. q = <<>>
    BY <1>2, <2>1, EmptySeq
  <2>3. QED
    BY <2>2 DEF q
<1>4. CASE \E e \in Events : StandsAt(s, e, a) /\ b = a + LineLengths[e[2]]
  <2>1. PICK e \in Events : StandsAt(s, e, a) /\ b = a + LineLengths[e[2]]
    BY <1>4
  <2> DEFINE n == LineLengths[e[2]]
             p == Text(e[1], e[2])
  <2>2. n \in Nat /\ b - a = n
    BY <1>1, <2>1, LinesHaveLength
  <2>3. p \in Seq(Byte) /\ Len(p) = n /\ \A k \in 1..n : p[k] = <<e[1], e[2], k>>
    BY TextType
  <2>4. \A k \in 1..n : s[a + k - 1] = <<e[1], e[2], k>>
    BY <2>1 DEF StandsAt
  <2>5. p \in Readable
    BY DEF Readable
  <2> HIDE DEF n, p
  <2>6. Len(q) = n /\ \A k \in 1..n : q[k] = p[k]
    BY <1>2, <2>2, <2>3, <2>4
  <2>7. q = p
    BY <1>2, <2>3, <2>6, SeqEqual
  <2>8. QED
    BY <2>5, <2>7 DEF q
<1>5. QED
  BY <1>3, <1>4 DEF Reads

\* Two lines do not share a place.
LEMMA LinesApart ==
  ASSUME NEW s \in Seq(Byte), NEW a, NEW b, NEW c, NEW d,
         IsLine(s, a, b), IsLine(s, c, d), a < c
  PROVE  b < c
<1>1. /\ a \in Nat \ {0} /\ b \in Nat /\ a <= b /\ c \in Nat \ {0}
      /\ \A k \in a..(b - 1) : s[k] # Newline
  BY LinePlaces
<1>2. c = 1 \/ s[c - 1] = Newline
  BY DEF IsLine, Begins
<1>3. s[c - 1] = Newline
  BY <1>1, <1>2
<1>4. c - 1 \notin a..(b - 1)
  BY <1>1, <1>3
<1>5. QED
  BY <1>1, <1>4

\* There are no more unreadable lines than places that explain them.
LEMMA LinesCounted ==
  ASSUME NEW s \in Seq(Byte), NEW B \in SUBSET Nat, IsFiniteSet(B), Explained(s, B)
  PROVE  Cardinality({a \in Unreadable(s) : a + Len(LineAt(s, a)) <= Len(s)}) <= Cardinality(B)
<1> DEFINE U == {a \in Unreadable(s) : a + Len(LineAt(s, a)) <= Len(s)}
           Of(a, m) == \E b \in Nat : IsLine(s, a, b) /\ a <= m /\ m <= b
           f == [a \in U |-> CHOOSE m \in B : Of(a, m)]
<1>1. ASSUME NEW a \in U
      PROVE  \E m \in B : Of(a, m)
  <2>1. a \in Starts(s) /\ LineAt(s, a) \notin Readable \cup {<<>>}
        /\ a + Len(LineAt(s, a)) <= Len(s)
    BY DEF Unreadable
  <2>2. PICK b \in Nat : IsLine(s, a, b) /\ LineAt(s, a) = SubSeq(s, a, b - 1)
    BY <2>1, LineFound
  <2>3. a \in Nat
    BY <2>2, LinePlaces
  <2>4. ~Reads(s, a, b)
    BY <2>1, <2>2, <2>3, ReadsIsReadable
  <2>5. Marked(B, a, b)
    BY <2>2, <2>3, <2>4 DEF Explained
  <2>6. QED
    BY <2>2, <2>5 DEF Marked
<1>2. ASSUME NEW a \in U
      PROVE  f[a] \in B /\ Of(a, f[a])
  <2>1. PICK m \in B : Of(a, m)
    BY <1>1
  <2> HIDE DEF Of, U
  <2>2. f[a] = CHOOSE x \in B : Of(a, x)
    OBVIOUS
  <2>3. QED
    BY <2>1, <2>2
<1>3. ASSUME NEW a \in U, NEW c \in U, a < c, f[a] = f[c]
      PROVE  FALSE
  <2> DEFINE m == f[a]
  <2>1. m \in Nat /\ Of(a, m) /\ Of(c, m)
    BY <1>2, <1>3
  <2> HIDE DEF m, U, f
  <2>2. PICK b \in Nat : IsLine(s, a, b) /\ a <= m /\ m <= b
    BY <2>1
  <2>3. PICK d \in Nat : IsLine(s, c, d) /\ c <= m /\ m <= d
    BY <2>1
  <2>4. b < c /\ c \in Nat
    BY <1>3, <2>2, <2>3, LinesApart, LinePlaces
  <2>5. QED
    BY <2>1, <2>2, <2>3, <2>4
<1>4. \A a \in U : a \in Nat
  <2>1. \A a \in U : a \in Starts(s)
    BY DEF Unreadable
  <2>2. Len(s) \in Nat
    OBVIOUS
  <2>3. \A a \in Starts(s) : a \in Nat
    BY <2>2 DEF Starts
  <2>4. QED
    BY <2>1, <2>3
<1> HIDE DEF U, Of
<1>5. f \in [U -> B]
  BY <1>2
<1>6. f \in Injection(U, B)
  <2>1. ASSUME NEW a \in U, NEW c \in U, f[a] = f[c]
        PROVE  a = c
    <3>1. ~(a < c) /\ ~(c < a)
      BY <1>3, <2>1
    <3>2. QED
      BY <1>4, <3>1
  <2>2. DOMAIN f = U
    OBVIOUS
  <2>3. QED
    BY <1>5, <2>1, <2>2 DEF Injection, IsInjective
<1> HIDE DEF f
<1>7. Cardinality(U) <= Cardinality(B)
  BY <1>6, FS_Injection
<1>8. QED
  BY <1>7 DEF U

\* Which piece comes next: a newline when it is even.
Turn == IF phase = "writing" THEN piece ELSE 1

\* The open line of s waits for the piece n.
Awaits(s, n, B) ==
    \/ n % 2 = 1 /\ Fresh(s, B)
    \/ \E c \in Events : n = 2 * c[2] /\ Ready(s, c, B)

\* Each end has left one place, where the file stopped, and these account for
\* every line that is not an event, on the device and as the kernel shows it.
Accounts(B) ==
    /\ IsFiniteSet(B) /\ Cardinality(B) <= ends
    /\ Explained(Written, B) /\ Explained(Shown, B)
    /\ Awaits(Written, Turn, B) /\ Awaits(Shown, Turn, B)

EndsAccount == \E B \in SUBSET Nat : Accounts(B)

\* It is true before the first process.
LEMMA InitAccounts == Init => EndsAccount
<1> SUFFICES ASSUME Init PROVE EndsAccount
  OBVIOUS
<1>1. Typed /\ Layered
  BY InitIInv, Layers DEF IInv
<1>2. Written = <<>> /\ Shown = <<>>
  <2>1. file = <<>> /\ buffer = <<>> /\ Len(OnDevice) = Len(file) /\ OnDevice \in Seq(Byte)
    BY <1>1 DEF Init, Layered
  <2>2. OnDevice = <<>>
    BY <2>1, EmptySeq
  <2>3. <<>> \o <<>> = <<>>
    OBVIOUS
  <2>4. QED
    BY <2>1, <2>2, <2>3 DEF Written, Shown
<1> DEFINE none == {}
<1>3. IsFiniteSet(none) /\ Cardinality(none) = 0 /\ none \in SUBSET Nat
  BY FS_EmptySet
<1>4. \A a, b \in Nat : ~IsLine(<<>>, a, b)
  <2>1. Len(<<>>) = 0
    OBVIOUS
  <2>2. QED
    BY <2>1 DEF IsLine, Begins
<1>5. \A a \in Nat : IsOpen(<<>>, a) => a = Len(<<>>) + 1
  <2>1. Len(<<>>) = 0
    OBVIOUS
  <2>2. QED
    BY <2>1 DEF IsOpen, Begins
<1> HIDE DEF none
<1>6. Explained(<<>>, none) /\ Fresh(<<>>, none)
  BY <1>4, <1>5 DEF Explained, Fresh
<1>7. Turn % 2 = 1
  BY DEF Init, Turn
<1>8. Awaits(<<>>, Turn, none)
  BY <1>6, <1>7 DEF Awaits
<1>9. Cardinality(none) <= ends
  BY <1>3 DEF Init
<1>10. Accounts(none)
  BY <1>2, <1>3, <1>6, <1>8, <1>9 DEF Accounts
<1>11. QED
  BY <1>3, <1>10 DEF EndsAccount

\* The steps that write nothing: a line is finished before the next transaction,
\* and a lost connection does not interrupt one.
LEMMA CalmAccounts ==
  ASSUME EndsAccount, UNCHANGED <<Written, Shown, ends>>,
         Turn' = Turn \/ (Turn' = 1 /\ Turn % 2 = 1 /\ \A c \in Events : Turn # 2 * c[2])
  PROVE  EndsAccount'
<1>1. PICK B \in SUBSET Nat : Accounts(B)
  BY DEF EndsAccount
<1>2. Awaits(Written, Turn', B) /\ Awaits(Shown, Turn', B)
  <2>1. CASE Turn' = Turn
    BY <1>1, <2>1 DEF Accounts
  <2>2. CASE Turn' = 1 /\ \A c \in Events : Turn # 2 * c[2]
    <3>1. Fresh(Written, B) /\ Fresh(Shown, B)
      BY <1>1, <2>2 DEF Accounts, Awaits
    <3>2. Turn' % 2 = 1
      BY <2>2
    <3>3. QED
      BY <3>1, <3>2 DEF Awaits
  <2>3. QED
    BY <2>1, <2>2
<1>3. Accounts(B)'
  BY <1>1, <1>2 DEF Accounts
<1>4. QED
  BY <1>3 DEF EndsAccount

\* Such steps are those of the loop, both halves of the barrier, and the start
\* and the end of a transaction.
LEMMA QuietAccounts ==
  ASSUME IInv, EndsAccount, QuietNext \/ Flush \/ Sync
  PROVE  EndsAccount'
<1>1. Typed /\ Layered
  BY Layers DEF IInv
<1>2. ends' = ends
  BY DEF QuietNext, Open, Accept, Accepted, Confirm, Reconnect, Flush, Sync, counters
<1>3. Written' = Written /\ Shown' = Shown
  <2>1. CASE QuietNext \/ Sync
    <3>1. UNCHANGED <<file, buffer, holes>>
      BY <2>1 DEF QuietNext, Open, Accept, Accepted, Confirm, Reconnect, Sync
    <3>2. QED
      BY <3>1 DEF Written, Shown, OnDevice
  <2>2. CASE Flush
    <3>1. buffer \in Seq(Byte) /\ <<>> \in Seq(Byte)
      BY <1>1 DEF Typed
    <3>2. buffer \o <<>> = buffer /\ <<>> \o buffer = buffer
      BY <3>1, ConcatEmptySeq
    <3>3. file' = file \o buffer /\ buffer' = <<>> /\ UNCHANGED <<holes, synced>>
      BY <2>2 DEF Flush
    <3>4. buffer \o buffer' = buffer \o <<>> /\ buffer' \in Seq(Byte)
      BY <3>1, <3>3
    <3>5. Written' = Written \o <<>> /\ Shown' = Shown \o <<>>
      BY <1>1, <3>1, <3>3, <3>4, Moving
    <3>6. QED
      BY <1>1, <3>5, ConcatEmptySeq DEF Layered
  <2>3. QED
    BY <2>1, <2>2
<1>4. 1 % 2 = 1 /\ \A c \in Events : 1 # 2 * c[2]
  BY EventNumbers
<1>5. Turn' = Turn \/ (Turn' = 1 /\ Turn % 2 = 1 /\ \A c \in Events : Turn # 2 * c[2])
  <2>1. CASE Open \/ Reconnect \/ Flush \/ Sync
    BY <2>1 DEF Open, Reconnect, Flush, Sync, Turn
  <2>2. CASE Confirm
    BY <2>2 DEF Confirm, Turn
  <2>3. CASE Accept
    BY <2>3 DEF Accept, Turn
  <2>4. CASE Accepted
    <3>1. Turn' = 1 /\ Turn = piece /\ piece > Len(Pieces(current))
      BY <2>4 DEF Accepted, Turn
    <3>2. Len(LineLengths) \in Nat /\ Len(Pieces(current)) = 2 * Len(LineLengths)
      BY PiecesLength
    <3>3. piece = 2 * Len(LineLengths) + 1
      BY <1>1, <3>1, <3>2 DEF Typed, TypeOK
    <3>4. \A c \in Events : piece # 2 * c[2]
      BY <3>2, <3>3, EventNumbers
    <3>5. piece % 2 = 1
      BY <3>2, <3>3
    <3>6. QED
      BY <3>1, <3>4, <3>5
  <2>5. QED
    BY <2>1, <2>2, <2>3, <2>4 DEF QuietNext
<1>6. QED
  BY <1>2, <1>3, <1>5, CalmAccounts

\* What a piece does to a sequence that waits for it.
LEMMA PieceAwaited ==
  ASSUME IInv, phase = "writing", piece <= Len(Pieces(current)),
         NEW s \in Seq(Byte), NEW B \in SUBSET Nat, Explained(s, B), Awaits(s, piece, B)
  PROVE  LET t == s \o Pieces(current)[piece]
         IN  Explained(t, B) /\ Awaits(t, piece + 1, B)
<1> DEFINE p == Pieces(current)[piece]
<1>1. /\ piece \in Int /\ \A c \in Events : c[2] \in Int
  <2>1. piece \in Int
    BY DEF IInv, Typed, TypeOK
  <2>2. \A c \in Events : c[2] \in Int
    BY EventNumbers
  <2>3. QED
    BY <2>1, <2>2
<1>2. \/ p = <<Newline>> /\ piece % 2 = 0
      \/ \E c \in Events : p = Text(c[1], c[2]) /\ piece = 2 * c[2] - 1
  BY NextPiece
<1> HIDE DEF p
<1>3. CASE p = <<Newline>> /\ piece % 2 = 0
  <2>1. PICK c \in Events : piece = 2 * c[2] /\ Ready(s, c, B)
    BY <1>3 DEF Awaits
  <2>2. Explained(s \o <<Newline>>, B) /\ Fresh(s \o <<Newline>>, B)
    BY <2>1, NewlineFresh
  <2>3. (piece + 1) % 2 = 1
    BY <1>1, <1>3
  <2>4. QED
    BY <1>3, <2>2, <2>3 DEF Awaits, p
<1>4. CASE \E c \in Events : p = Text(c[1], c[2]) /\ piece = 2 * c[2] - 1
  <2>1. PICK c \in Events : p = Text(c[1], c[2]) /\ piece = 2 * c[2] - 1
    BY <1>4
  <2>2. ~(\E d \in Events : piece = 2 * d[2])
    BY <1>1, <2>1
  <2>3. Fresh(s, B)
    BY <2>2 DEF Awaits
  <2>4. Explained(s \o p, B) /\ Ready(s \o p, c, B)
    BY <2>1, <2>3, TextReady
  <2>5. piece + 1 = 2 * c[2]
    BY <1>1, <2>1
  <2>6. QED
    BY <2>4, <2>5 DEF Awaits, p
<1>5. QED
  BY <1>2, <1>3, <1>4

\* A piece handed to the writer ends the line, or makes it that of an event.
LEMMA WritePieceAccounts ==
  ASSUME IInv, EndsAccount, WritePiece
  PROVE  EndsAccount'
<1> DEFINE p == Pieces(current)[piece]
<1>1. PICK B \in SUBSET Nat : Accounts(B)
  BY DEF EndsAccount
<1>2. /\ Typed /\ Layered /\ phase = "writing" /\ piece <= Len(Pieces(current))
      /\ Turn = piece /\ Turn' = piece + 1 /\ ends' = ends /\ UNCHANGED <<synced, holes>>
  BY Layers DEF IInv, WritePiece, Turn, counters
<1>3. p \in Seq(Byte)
  BY <1>2, NextPiece
<1>4. PICK x \in Seq(Byte) :
            /\ file' = file \o x /\ x \o buffer' = buffer \o p
            /\ buffer' \in Seq(Byte)
  BY ThroughTheWriter
<1>5. /\ Explained(Written \o p, B) /\ Awaits(Written \o p, piece + 1, B)
      /\ Explained(Shown \o p, B) /\ Awaits(Shown \o p, piece + 1, B)
  <2>1. /\ Written \in Seq(Byte) /\ Explained(Written, B) /\ Awaits(Written, piece, B)
        /\ Shown \in Seq(Byte) /\ Explained(Shown, B) /\ Awaits(Shown, piece, B)
    BY <1>1, <1>2 DEF Accounts, Layered
  <2>2. Explained(Written \o p, B) /\ Awaits(Written \o p, piece + 1, B)
    BY <1>2, <2>1, PieceAwaited
  <2>3. Explained(Shown \o p, B) /\ Awaits(Shown \o p, piece + 1, B)
    BY <1>2, <2>1, PieceAwaited
  <2>4. QED
    BY <2>2, <2>3
<1> HIDE DEF p
<1>6. Written' = Written \o p /\ Shown' = Shown \o p
  BY <1>2, <1>3, <1>4, Moving
<1>7. Accounts(B)'
  BY <1>1, <1>2, <1>5, <1>6 DEF Accounts
<1>8. QED
  BY <1>7 DEF EndsAccount

\* An end leaves its place.
LEMMA EndAccounts ==
  ASSUME IInv', EndProcess, NEW B \in SUBSET Nat, IsFiniteSet(B), Cardinality(B) <= ends,
         ends \in Nat, Explained(OnDevice', B), Explained(file', B)
  PROVE  EndsAccount'
<1>1. Layered' /\ file' \in Seq(Byte) /\ OnDevice' \in Seq(Byte) /\ Len(OnDevice') = Len(file')
  BY LayersNext DEF IInv, Typed, Layered
<1>2. Written' = OnDevice' /\ Shown' = file'
  <2>1. Written' = OnDevice' \o <<>> /\ Shown' = file' \o <<>>
    BY DEF EndProcess, Written, Shown
  <2>2. QED
    BY <1>1, <2>1, ConcatEmptySeq
<1>3. PICK n \in Nat : Len(file') + 1 = n /\ Len(OnDevice') + 1 = n
  BY <1>1
<1> DEFINE C == B \cup {n}
<1>4. C \in SUBSET Nat /\ IsFiniteSet(C) /\ Cardinality(C) <= Cardinality(B) + 1
      /\ Cardinality(C) \in Nat /\ Cardinality(B) \in Nat
  <2>1. /\ IsFiniteSet(C)
        /\ n \in B => Cardinality(C) = Cardinality(B)
        /\ n \notin B => Cardinality(C) = Cardinality(B) + 1
    <3>1. n \in B => C = B
      OBVIOUS
    <3>2. QED
      BY <3>1, FS_AddElement
  <2>2. Cardinality(B) \in Nat
    BY FS_CardinalityType
  <2>3. QED
    BY <1>3, <2>1, <2>2
<1>5. ends' = ends + 1
  BY DEF EndProcess
<1>6. Cardinality(C) <= ends'
  BY <1>4, <1>5
<1>7. Explained(OnDevice', C) /\ Explained(file', C)
  <2>1. B \subseteq C
    OBVIOUS
  <2> HIDE DEF C
  <2>2. QED
    BY <2>1, MoreExplained
<1>8. Fresh(OnDevice', C) /\ Fresh(file', C)
  <2>1. n \in C
    OBVIOUS
  <2> HIDE DEF C
  <2>2. Fresh(OnDevice', C)
    BY <1>1, <1>3, <2>1, MarkedFresh
  <2>3. Fresh(file', C)
    BY <1>1, <1>3, <2>1, MarkedFresh
  <2>4. QED
    BY <2>2, <2>3
<1> HIDE DEF C
<1>9. Turn' % 2 = 1
  BY DEF Turn, EndProcess
<1>10. Awaits(OnDevice', Turn', C) /\ Awaits(file', Turn', C)
  BY <1>8, <1>9 DEF Awaits
<1>11. Accounts(C)'
  BY <1>2, <1>4, <1>6, <1>7, <1>10 DEF Accounts
<1>12. QED
  BY <1>4, <1>11 DEF EndsAccount

\* Every end leaves one place at most, and nothing in the file that this place
\* and the earlier ones do not account for.
LEMMA EndsAccounts ==
  ASSUME IInv, IInv', EndsAccount, ProcessEnds \/ SyncFails \/ MachineFails
  PROVE  EndsAccount'
<1>1. PICK B \in SUBSET Nat : Accounts(B)
  BY DEF EndsAccount
<1>2. Typed /\ Layered /\ ends \in Nat /\ OnDevice \in Seq(Byte) /\ file \in Seq(Byte)
  <2>1. Typed /\ Layered
    BY Layers DEF IInv
  <2>2. ends \in Nat
    BY <2>1, SinkAssumption DEF Typed, TypeOK
  <2>3. QED
    BY <2>1, <2>2 DEF Typed, Layered
<1>3. Layered' /\ OnDevice' \in Seq(Byte) /\ file' \in Seq(Byte)
  BY LayersNext DEF IInv, Typed, Layered
<1>4. /\ Written \in Seq(Byte) /\ Explained(Written, B) /\ Awaits(Written, Turn, B)
      /\ Shown \in Seq(Byte) /\ Explained(Shown, B) /\ Awaits(Shown, Turn, B)
      /\ IsFiniteSet(B) /\ Cardinality(B) <= ends
  BY <1>1, <1>2 DEF Accounts, Layered
<1>5. CASE ProcessEnds
  <2>1. /\ OnDevice \o InHand \in Seq(Byte) /\ file \o InHand \in Seq(Byte)
        /\ Extends(OnDevice', OnDevice \o InHand) /\ Extends(file', file \o InHand)
    BY <1>5, CutInHand
  <2>2. Explained(OnDevice \o InHand, B) /\ Explained(file \o InHand, B)
    <3> DEFINE p == Pieces(current)[piece]
    <3>1. CASE InHand = buffer
      BY <1>4, <3>1 DEF Written, Shown
    <3>2. CASE phase = "writing" /\ piece <= Len(Pieces(current)) /\ InHand = buffer \o p
      <4>1. Awaits(Written, piece, B) /\ Awaits(Shown, piece, B)
        BY <1>4, <3>2 DEF Turn
      <4>2. Explained(Written \o p, B)
        BY <1>4, <3>2, <4>1, PieceAwaited
      <4>3. Explained(Shown \o p, B)
        BY <1>4, <3>2, <4>1, PieceAwaited
      <4>4. p \in Seq(Byte) /\ buffer \in Seq(Byte)
        BY <1>2, <3>2, NextPiece DEF Typed
      <4> DEFINE d == OnDevice
      <4>5. d \in Seq(Byte) /\ InHand = buffer \o p
        BY <1>2, <3>2
      <4> HIDE DEF p, d
      <4>6. (d \o buffer) \o p = d \o (buffer \o p)
        BY <4>4, <4>5, AppendTwice
      <4>7. (file \o buffer) \o p = file \o (buffer \o p)
        BY <1>2, <4>4, AppendTwice
      <4>8. Explained(d \o InHand, B)
        BY <4>2, <4>5, <4>6 DEF Written, d
      <4>9. Explained(file \o InHand, B)
        BY <4>3, <4>5, <4>7 DEF Shown
      <4>10. QED
        BY <4>8, <4>9 DEF d
    <3>3. QED
      BY <3>1, <3>2 DEF InHand
  <2>3. Explained(OnDevice', B)
    BY <1>3, <2>1, <2>2, CutExplained
  <2>4. Explained(file', B)
    BY <1>3, <2>1, <2>2, CutExplained
  <2>5. EndProcess
    BY <1>5 DEF ProcessEnds
  <2>6. QED
    BY <1>2, <1>4, <2>3, <2>4, <2>5, EndAccounts
<1>6. CASE SyncFails
  <2>1. /\ file' = file /\ EndProcess /\ Device \in Seq(Byte)
        /\ Extends(Device, OnDevice') /\ Extends(Device, Written)
        /\ \A k \in (Len(Device) + 1)..Len(OnDevice') : OnDevice'[k] = Hole
    BY <1>6, SyncFailsHoles
  <2>2. Explained(Device, B)
    BY <1>4, <2>1, CutExplained
  <2>3. Hole # Newline
    BY DEF Hole, Newline
  <2>4. Explained(OnDevice', B)
    BY <1>3, <2>1, <2>2, <2>3, OpenExplained
  <2>5. Explained(file', B)
    <3>1. Extends(file, Shown)
      BY <1>2 DEF Layered
    <3>2. QED
      BY <1>2, <1>4, <2>1, <3>1, CutExplained
  <2>6. QED
    BY <1>2, <1>4, <2>1, <2>4, <2>5, EndAccounts
<1>7. CASE MachineFails
  <2>1. OnDevice' = file' /\ Extends(file', Written) /\ EndProcess
    BY <1>7, MachineFailsCuts
  <2>2. Explained(file', B)
    BY <1>3, <1>4, <2>1, CutExplained
  <2>3. QED
    BY <1>2, <1>4, <2>1, <2>2, EndAccounts
<1>8. QED
  BY <1>5, <1>6, <1>7

\* Every step keeps the account.
LEMMA NextAccounts ==
  ASSUME IInv, IInv', EndsAccount, [Next]_vars
  PROVE  EndsAccount'
<1>1. CASE QuietNext \/ Flush \/ Sync
  BY <1>1, QuietAccounts
<1>2. CASE WritePiece
  BY <1>2, WritePieceAccounts
<1>3. CASE ProcessEnds \/ SyncFails \/ MachineFails
  BY <1>3, EndsAccounts
<1>4. CASE UNCHANGED vars
  <2>1. UNCHANGED <<Written, Shown, ends, Turn>>
    BY <1>4 DEF vars, counters, Written, Shown, OnDevice, Turn
  <2>2. QED
    BY <2>1, CalmAccounts
<1>5. QED
  BY <1>1, <1>2, <1>3, <1>4 DEF Next, QuietNext

-----------------------------------------------------------------------------
(* The theorems.                                                           *)

\* The invariant holds of every behaviour.
THEOREM Invariance == Spec => []IInv
BY InitIInv, NextIInv, PTL DEF Spec

\* Every variable stays in its domain, and the buffer within its capacity.
THEOREM TypeCorrect == Spec => []TypeOK
<1>1. IInv => TypeOK
  BY DEF IInv, Typed
<1>2. QED
  BY <1>1, Invariance, PTL

\* No position is released before its events are on the device, every byte of
\* them (file.rs, flush_durable; README "Guarantees").
THEOREM ReleasedOnDevice == Spec => []ReleasedIsOnDevice
<1>1. IInv => ReleasedIsOnDevice
  <2> SUFFICES ASSUME IInv, NEW e \in Events, e[1] <= confirmed
               PROVE  \E a \in 1..synced : StandsAt(Device, e, a)
    BY DEF ReleasedIsOnDevice
  <2>1. Layered
    BY Layers DEF IInv
  <2>2. Holds(Device, e)
    BY DEF IInv, Durably
  <2>3. QED
    BY <2>1, <2>2 DEF Holds, Layered
<1>2. QED
  BY <1>1, Invariance, PTL

\* Before every copy of an event in the file stands a copy of the event before
\* it (DECISIONS.md invariants 1 and 2), whatever was cut off or written twice.
THEOREM Gapless == Spec => []NoGapInFile
<1>1. IInv => NoGapInFile
  <2> SUFFICES ASSUME IInv PROVE NoGapInFile
    OBVIOUS
  <2>1. Typed /\ Layered /\ file \in Seq(Byte) /\ Shown \in Seq(Byte) /\ Extends(file, Shown)
        /\ GapFree(Shown)
    BY Layers DEF IInv, Typed, Layered, NoGapAnywhere
  <2>2. GapFree(file)
    BY <2>1, CutGapFree
  <2>3. QED
    BY <2>2 DEF GapFree, NoGapInFile
<1>2. QED
  BY <1>1, Invariance, PTL

\* A line that is no event is the work of an end of the process or the machine,
\* one of each at most: DECISIONS.md's "one change = one line" survives lost
\* connections, spills of the buffer and redelivery.
THEOREM UnreadableLinesAreCounted == Spec => []UnreadableOnlyAfterAnEnd
<1>1. IInv /\ EndsAccount => UnreadableOnlyAfterAnEnd
  <2> SUFFICES ASSUME IInv, EndsAccount PROVE UnreadableOnlyAfterAnEnd
    OBVIOUS
  <2>1. PICK B \in SUBSET Nat : Accounts(B)
    BY DEF EndsAccount
  <2>2. file \in Seq(Byte) /\ Shown \in Seq(Byte) /\ Extends(file, Shown) /\ ends \in Nat
    BY Layers, SinkAssumption DEF IInv, Typed, TypeOK, Layered
  <2>3. Explained(file, B) /\ IsFiniteSet(B) /\ Cardinality(B) <= ends
    BY <2>1, <2>2, CutExplained DEF Accounts
  <2> DEFINE U == {a \in Unreadable(file) : a + Len(LineAt(file, a)) <= Len(file)}
  <2>4. Cardinality(U) <= Cardinality(B)
    BY <2>2, <2>3, LinesCounted
  <2>5. Cardinality(U) \in Int /\ Cardinality(B) \in Int
    <3>1. U \subseteq 1..(Len(file) + 1)
      BY <2>2 DEF Unreadable, Starts
    <3>2. IsFiniteSet(1..(Len(file) + 1))
      BY <2>2, FS_Interval
    <3>3. IsFiniteSet(U)
      BY <3>1, <3>2, FS_Subset
    <3>4. QED
      BY <2>3, <3>3, FS_CardinalityType
  <2>6. Cardinality(U) <= ends
    BY <2>2, <2>3, <2>4, <2>5
  <2>7. QED
    BY <2>6 DEF UnreadableOnlyAfterAnEnd
<1>2. IInv /\ IInv' /\ EndsAccount /\ [Next]_vars => EndsAccount'
  BY NextAccounts
<1>3. QED
  BY <1>1, <1>2, InitAccounts, Invariance, PTL DEF Spec

\* A transaction is stored when every event of it is on the device.
LEMMA StoredMeansHeld ==
  ASSUME Layered, NEW t \in Tx
  PROVE  t \in Stored <=> \A i \in DOMAIN LineLengths : Holds(Device, <<t, i>>)
BY DEF Stored, Holds, Layered

\* A step brings output to the device, or moves the slot over what is there.
LEMMA StepStores ==
  ASSUME IInv, IInv', [Next]_vars
  PROVE  [Promise!Store \/ Promise!Release]_<<Stored, confirmed>>
<1>1. Layered /\ Layered' /\ Typed /\ Extends(Device, Device')
  BY Layers, LayersNext, NextIInv DEF IInv
<1>2. \A t \in Tx : \A i \in DOMAIN LineLengths : <<t, i>> \in Events
  BY DEF Events
<1>3. CASE confirmed' = confirmed
  <2>1. ASSUME NEW t \in Tx, t \in Stored
        PROVE  t \in Stored'
    <3>1. \A i \in DOMAIN LineLengths : Holds(Device', <<t, i>>)
      BY <1>1, <1>2, <2>1, StoredMeansHeld, HoldsOn DEF Layered
    <3>2. QED
      BY <1>1, <3>1 DEF Stored, Holds, Layered
  <2>2. Stored \subseteq Tx /\ Stored' \subseteq Tx
    BY DEF Stored
  <2>3. Promise!Store
    BY <1>3, <2>1, <2>2 DEF Promise!Store
  <2>4. QED
    BY <2>3
<1>4. CASE confirmed' # confirmed
  <2>1. Confirm
    <3>1. CASE Next
      BY <1>4, <3>1 DEF Next, Open, Accept, WritePiece, Accepted, Flush, Sync, Reconnect,
                        ProcessEnds, SyncFails, MachineFails, EndProcess
    <3>2. CASE UNCHANGED vars
      BY <1>4, <3>2 DEF vars
    <3>3. QED
      BY <3>1, <3>2
  <2>2. UNCHANGED <<file, synced, holes>> /\ confirmed' = durable
    BY <2>1 DEF Confirm
  <2>3. Stored' = Stored
    BY <2>2 DEF Stored, Device, OnDevice
  <2>4. confirmed' \in Nat
    BY <1>1, <2>2, SinkAssumption DEF Typed, TypeOK
  <2>5. ASSUME NEW t \in Tx, t <= confirmed'
        PROVE  t \in Stored
    <3>1. ASSUME NEW i \in DOMAIN LineLengths
          PROVE  Holds(Device, <<t, i>>)
      <4>1. <<t, i>> \in Events /\ <<t, i>>[1] <= durable
        BY <1>2, <2>2, <2>5
      <4>2. QED
        BY <4>1 DEF IInv, Durably
    <3>2. QED
      BY <1>1, <3>1, StoredMeansHeld
  <2>6. Promise!Release
    BY <2>3, <2>4, <2>5 DEF Promise!Release, Promise!Covered
  <2>7. QED
    BY <2>6
<1>5. QED
  BY <1>3, <1>4

\* What is on the device stays there through every end, every failed sync and
\* every redelivery, and the slot moves over nothing else: byte for byte, the
\* sink does the storing and releasing of Delivery.
THEOREM DeliveryIsStored == Spec => StoresForDelivery
BY Invariance, StepStores, PTL DEF Spec, StoresForDelivery

=============================================================================
