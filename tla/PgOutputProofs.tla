--------------------------- MODULE PgOutputProofs ---------------------------
(***************************************************************************)
(* Proofs about the decoder: for every payload it stays within the bytes,  *)
(* reserves and works in proportion to them and accepts only the image of  *)
(* a message; and every message the server can write is read as it was.    *)
(*                                                                         *)
(* The invariant says of every place in a message what the bytes up to the *)
(* cursor are: the encoding of what is read so far (Wrote).  Read from the *)
(* other side, the bytes at the cursor are the encoding of what comes next *)
(* in the message the payload is the image of (Toward).                    *)
(***************************************************************************)
EXTENDS PgOutput, Recursion

-----------------------------------------------------------------------------
(* Bytes and numbers.                                                      *)

\* What the sets of bytes say.
LEMMA ByteIs ==
  /\ \A b : b \in Byte <=> b \in Nat /\ b < 256
  /\ \A b : b \in Letters <=> b \in Nat /\ 0 < b /\ b < 128
  /\ \A b : b \in Plain <=> b \in Nat /\ b < 128
BY DEF Byte, Letters, Plain

\* Texts and names are bytes.
LEMMA TextIsBytes ==
  /\ \A s \in Seq(Letters) : s \in Seq(Byte)
  /\ \A s \in Text : s \in Seq(Byte)
<1>1. ASSUME NEW s \in Seq(Letters)
      PROVE  s \in Seq(Byte)
  <2>1. \A i \in 1..Len(s) : s[i] \in Byte
    BY ByteIs
  <2>2. QED
    BY <2>1
<1>2. ASSUME NEW s \in Text
      PROVE  s \in Seq(Byte)
  <2>1. s \in Seq(Plain)
    BY DEF Text
  <2>2. \A i \in 1..Len(s) : s[i] \in Byte
    BY <2>1, ByteIs
  <2>3. QED
    BY <2>1, <2>2
<1>3. QED
  BY <1>1, <1>2

\* A number has two digits of 256 or of 65536.
LEMMA HasDigits ==
  ASSUME NEW n \in Nat
  PROVE  /\ \E q, r \in Nat : /\ q = n \div 256 /\ r = n % 256
                              /\ r < 256 /\ n = q * 256 + r
         /\ \E q, r \in Nat : /\ q = n \div 65536 /\ r = n % 65536
                              /\ r < 65536 /\ n = q * 65536 + r
<1>1. /\ n \div 256 \in Nat /\ n % 256 \in Nat
      /\ n \div 65536 \in Nat /\ n % 65536 \in Nat
  OBVIOUS
<1>2. PICK q \in Nat, r \in Nat : q = n \div 256 /\ r = n % 256
  BY <1>1
<1>3. r < 256 /\ n = q * 256 + r
  BY <1>2
<1>4. PICK s \in Nat, t \in Nat : s = n \div 65536 /\ t = n % 65536
  BY <1>1
<1>5. t < 65536 /\ n = s * 65536 + t
  BY <1>4
<1>6. QED
  BY <1>2, <1>3, <1>4, <1>5

\* And only those.
LEMMA OnlyDigits ==
  ASSUME NEW q \in Nat, NEW r \in Nat, NEW s \in Nat, NEW t \in Nat,
         r < 65536, t < 65536, q * 65536 + r = s * 65536 + t
  PROVE  q = s /\ r = t
OBVIOUS

\* The two bytes of a number of 16 bits without a sign.
LEMMA TwoBytes ==
  ASSUME NEW n \in Nat, n < 65536
  PROVE  \E a, b \in Byte : Bytes16(n) = <<a, b>> /\ n = a * 256 + b
<1>1. PICK q \in Nat, r \in Nat : /\ q = n \div 256 /\ r = n % 256
                                  /\ r < 256 /\ n = q * 256 + r
  BY HasDigits
<1>2. q < 256
  BY <1>1
<1>3. q \in Byte /\ r \in Byte
  BY <1>1, <1>2, ByteIs
<1>4. Bytes16(n) = <<q, r>>
  BY <1>1 DEF Bytes16
<1>5. QED
  BY <1>1, <1>3, <1>4

\* Two bytes are the bytes of their number.
LEMMA OfTwoBytes ==
  ASSUME NEW a \in Byte, NEW b \in Byte
  PROVE  a * 256 + b \in Nat /\ a * 256 + b < 65536 /\ Bytes16(a * 256 + b) = <<a, b>>
<1>1. a \in Nat /\ a < 256 /\ b \in Nat /\ b < 256
  BY ByteIs
<1>2. PICK n \in Nat : n = a * 256 + b
  BY <1>1
<1>3. n < 65536
  BY <1>1, <1>2
<1>4. PICK q \in Byte, r \in Byte : Bytes16(n) = <<q, r>> /\ n = q * 256 + r
  BY <1>3, TwoBytes
<1>5. q \in Nat /\ r \in Nat /\ r < 256
  BY ByteIs
<1>6. q = a /\ r = b
  BY <1>1, <1>2, <1>4, <1>5
<1>7. QED
  BY <1>2, <1>3, <1>4, <1>6

\* The numbers with a sign that bytes stand for.
Number16(a, b) == Signed(a) * 256 + b
Number32(a, b, c, d) == ((Signed(a) * 256 + b) * 256 + c) * 256 + d

\* The bytes of the longer one.
Four(a, b, c, d) == <<a, b>> \o <<c, d>>

\* A count of 16 bits is written as it was read.
LEMMA ReadNumber16 ==
  ASSUME NEW a \in Byte, NEW b \in Byte
  PROVE  /\ Number16(a, b) \in Int
         /\ Number16(a, b) >= 0 => /\ Number16(a, b) <= MaxInt16
                                   /\ Bytes16(Number16(a, b)) = <<a, b>>
<1>1. a \in Nat /\ a < 256 /\ b \in Nat /\ b < 256
  BY ByteIs
<1>2. Number16(a, b) \in Int /\ (Number16(a, b) >= 0 => a < 128)
  BY <1>1 DEF Number16, Signed
<1>3. ASSUME a < 128
      PROVE  Number16(a, b) = a * 256 + b /\ a * 256 + b <= MaxInt16
  BY <1>1, <1>3 DEF Number16, Signed, MaxInt16
<1>4. QED
  BY <1>2, <1>3, OfTwoBytes

\* A count of 16 bits is read as it was written.
LEMMA WrittenNumber16 ==
  ASSUME NEW n \in Nat, n <= MaxInt16
  PROVE  \E a, b \in Byte : Bytes16(n) = <<a, b>> /\ Number16(a, b) = n
<1>1. n < 65536
  BY DEF MaxInt16
<1>2. PICK a \in Byte, b \in Byte : Bytes16(n) = <<a, b>> /\ n = a * 256 + b
  BY <1>1, TwoBytes
<1>3. a \in Nat /\ b \in Nat /\ b < 256
  BY ByteIs
<1>4. a < 128
  BY <1>2, <1>3 DEF MaxInt16
<1>5. Number16(a, b) = n
  BY <1>2, <1>3, <1>4 DEF Number16, Signed
<1>6. QED
  BY <1>2, <1>5

\* A length of 32 bits is written as it was read.
LEMMA ReadNumber32 ==
  ASSUME NEW a \in Byte, NEW b \in Byte, NEW c \in Byte, NEW d \in Byte
  PROVE  /\ Number32(a, b, c, d) \in Int
         /\ Number32(a, b, c, d) >= 0 =>
               /\ Number32(a, b, c, d) <= MaxInt32
               /\ Bytes32(Number32(a, b, c, d)) = Four(a, b, c, d)
<1>1. /\ a \in Nat /\ a < 256 /\ b \in Nat /\ b < 256
      /\ c \in Nat /\ c < 256 /\ d \in Nat /\ d < 256
  BY ByteIs
<1>2. Number32(a, b, c, d) \in Int /\ (Number32(a, b, c, d) >= 0 => a < 128)
  BY <1>1 DEF Number32, Signed
<1>3. ASSUME a < 128
      PROVE  /\ Number32(a, b, c, d) \in Nat /\ Number32(a, b, c, d) <= MaxInt32
             /\ Number32(a, b, c, d) = (a * 256 + b) * 65536 + (c * 256 + d)
  BY <1>1, <1>3 DEF Number32, Signed, MaxInt32
<1>4. ASSUME a < 128
      PROVE  Bytes32(Number32(a, b, c, d)) = Four(a, b, c, d)
  <2>1. PICK n \in Nat : n = Number32(a, b, c, d)
    BY <1>3, <1>4
  <2>2. PICK h \in Nat, l \in Nat : h = a * 256 + b /\ l = c * 256 + d
    BY <1>1
  <2>3. l < 65536 /\ n = h * 65536 + l
    BY <1>1, <1>3, <1>4, <2>1, <2>2
  <2>4. PICK q \in Nat, r \in Nat : /\ q = n \div 65536 /\ r = n % 65536
                                    /\ r < 65536 /\ n = q * 65536 + r
    BY HasDigits
  <2>5. q = h /\ r = l
    <3>1. q * 65536 + r = h * 65536 + l /\ r < 65536 /\ l < 65536
      BY <2>3, <2>4
    <3>2. QED
      BY <3>1, OnlyDigits
  <2>6. Bytes32(n) = Bytes16(h) \o Bytes16(l)
    BY <2>4, <2>5 DEF Bytes32
  <2>7. Bytes16(h) = <<a, b>> /\ Bytes16(l) = <<c, d>>
    BY <2>2, OfTwoBytes
  <2>8. QED
    BY <2>1, <2>6, <2>7 DEF Four
<1>5. QED
  BY <1>2, <1>3, <1>4

\* A length of 32 bits is read as it was written.
LEMMA WrittenNumber32 ==
  ASSUME NEW n \in Nat, n <= MaxInt32
  PROVE  \E a, b, c, d \in Byte :
            Bytes32(n) = Four(a, b, c, d) /\ Number32(a, b, c, d) = n
<1>1. PICK q \in Nat, r \in Nat : /\ q = n \div 65536 /\ r = n % 65536
                                  /\ r < 65536 /\ n = q * 65536 + r
  BY HasDigits
<1>2. q <= MaxInt16 /\ q < 65536
  BY <1>1 DEF MaxInt16, MaxInt32
<1>3. PICK a \in Byte, b \in Byte : Bytes16(q) = <<a, b>> /\ Number16(a, b) = q
  BY <1>2, WrittenNumber16
<1>4. PICK c \in Byte, d \in Byte : Bytes16(r) = <<c, d>> /\ r = c * 256 + d
  BY <1>1, TwoBytes
<1>5. /\ a \in Nat /\ a < 256 /\ b \in Nat /\ b < 256
      /\ c \in Nat /\ c < 256 /\ d \in Nat /\ d < 256
  BY ByteIs
<1>6. Bytes32(n) = Four(a, b, c, d)
  <2>1. Bytes32(n) = Bytes16(q) \o Bytes16(r)
    BY <1>1 DEF Bytes32
  <2>2. QED
    BY <1>3, <1>4, <2>1 DEF Four
<1>7. Signed(a) = a /\ q = a * 256 + b
  <2>1. a >= 128 => Number16(a, b) < 0
    BY <1>5 DEF Number16, Signed
  <2>2. a < 128
    BY <1>3, <1>5, <2>1
  <2>3. QED
    BY <1>3, <1>5, <2>2 DEF Number16, Signed
<1>8. Number32(a, b, c, d) = ((a * 256 + b) * 256 + c) * 256 + d
  BY <1>7 DEF Number32
<1>9. ((a * 256 + b) * 256 + c) * 256 + d = (a * 256 + b) * 65536 + (c * 256 + d)
  BY <1>5
<1>10. (a * 256 + b) * 65536 + (c * 256 + d) = n
  BY <1>1, <1>4, <1>7
<1>11. Number32(a, b, c, d) = n
  BY <1>8, <1>9, <1>10
<1>12. QED
  BY <1>6, <1>11

-----------------------------------------------------------------------------
(* What bytes spell.                                                       *)

\* Two sequences of bytes are one.
LEMMA BothAre ==
  ASSUME NEW s \in Seq(Byte), NEW t \in Seq(Byte)
  PROVE  s \o t \in Seq(Byte) /\ Len(s \o t) = Len(s) + Len(t)
OBVIOUS

\* It does not matter which two of three come first.
LEMMA BytesAssociate ==
  ASSUME NEW s \in Seq(Byte), NEW t \in Seq(Byte), NEW u \in Seq(Byte)
  PROVE  Associate(s, t, u)
BY TheyAssociate

\* h is what s begins with.
Starts(h, s) == \E t \in Seq(Byte) : s = h \o t

\* Behind the first k bytes of p comes s, but for the bytes that are dropped.
Spells(p, k, s, dropped) ==
    /\ s \in Seq(Byte) /\ k + Len(s) <= Len(p)
    /\ \A i \in 1..Len(s) : p[k + i] # s[i] => k + i \in dropped

\* A part of p is read from it.
LEMMA SpellsPart ==
  ASSUME NEW p \in Seq(Byte), NEW k \in Nat, NEW n \in Nat, k + n <= Len(p), NEW dropped
  PROVE  /\ SubSeq(p, k + 1, k + n) \in Seq(Byte) /\ Len(SubSeq(p, k + 1, k + n)) = n
         /\ \A i \in 1..n : SubSeq(p, k + 1, k + n)[i] = p[k + i]
         /\ Spells(p, k, SubSeq(p, k + 1, k + n), dropped)
<1> DEFINE s == SubSeq(p, k + 1, k + n)
<1>1. s \in Seq(Byte) /\ Len(s) = n /\ \A i \in 1..n : s[i] = p[k + i]
  OBVIOUS
<1> HIDE DEF s
<1>2. Spells(p, k, s, dropped)
  BY <1>1 DEF Spells
<1>3. QED
  BY <1>1, <1>2 DEF s

\* So is a byte.
LEMMA SpellsByte ==
  ASSUME NEW p \in Seq(Byte), NEW k \in Nat, k + 1 <= Len(p), NEW dropped
  PROVE  p[k + 1] \in Byte /\ Spells(p, k, <<p[k + 1]>>, dropped)
<1>1. p[k + 1] \in Byte
  OBVIOUS
<1> DEFINE b == p[k + 1]
<1>2. b \in Byte
  BY <1>1
<1>3. b = p[k + 1]
  OBVIOUS
<1> HIDE DEF b
<1>4. <<b>> \in Seq(Byte) /\ Len(<<b>>) = 1 /\ <<b>>[1] = b
  BY <1>2
<1>5. Spells(p, k, <<b>>, dropped)
  BY <1>3, <1>4 DEF Spells
<1>6. QED
  BY <1>1, <1>5 DEF b

\* One behind the other.
LEMMA SpellsBoth ==
  ASSUME NEW p \in Seq(Byte), NEW k \in Nat, NEW s \in Seq(Byte), NEW t \in Seq(Byte),
         NEW dropped
  PROVE  /\ s \o t \in Seq(Byte) /\ Len(s \o t) = Len(s) + Len(t)
         /\ Len(s) \in Nat /\ Len(t) \in Nat
         /\ Spells(p, k, s \o t, dropped) <=> /\ Spells(p, k, s, dropped)
                                              /\ Spells(p, k + Len(s), t, dropped)
<1> DEFINE u == s \o t
<1>1. /\ u \in Seq(Byte) /\ Len(u) = Len(s) + Len(t) /\ Len(s) \in Nat /\ Len(t) \in Nat
      /\ \A i \in 1..Len(s) : u[i] = s[i]
      /\ \A i \in 1..Len(t) : u[Len(s) + i] = t[i]
  OBVIOUS
<1> HIDE DEF u
<1>2. ASSUME Spells(p, k, u, dropped)
      PROVE  Spells(p, k, s, dropped) /\ Spells(p, k + Len(s), t, dropped)
  <2>1. Len(p) \in Nat /\ k + Len(u) <= Len(p)
    BY <1>2 DEF Spells
  <2>2. ASSUME NEW i \in 1..Len(s), p[k + i] # s[i]
        PROVE  k + i \in dropped
    <3>1. i \in 1..Len(u) /\ p[k + i] # u[i]
      BY <1>1, <2>2
    <3>2. QED
      BY <1>2, <3>1 DEF Spells
  <2>3. ASSUME NEW i \in 1..Len(t), p[(k + Len(s)) + i] # t[i]
        PROVE  (k + Len(s)) + i \in dropped
    <3>1. Len(s) + i \in 1..Len(u) /\ (k + Len(s)) + i = k + (Len(s) + i)
      BY <1>1
    <3>2. p[k + (Len(s) + i)] # u[Len(s) + i]
      BY <1>1, <2>3, <3>1
    <3>3. QED
      BY <1>2, <3>1, <3>2 DEF Spells
  <2>4. k + Len(s) <= Len(p) /\ (k + Len(s)) + Len(t) <= Len(p)
    BY <1>1, <2>1
  <2>5. QED
    BY <2>2, <2>3, <2>4 DEF Spells
<1>3. ASSUME Spells(p, k, s, dropped), Spells(p, k + Len(s), t, dropped)
      PROVE  Spells(p, k, u, dropped)
  <2>1. ASSUME NEW i \in 1..Len(u), p[k + i] # u[i]
        PROVE  k + i \in dropped
    <3>1. CASE i <= Len(s)
      <4>1. i \in 1..Len(s) /\ p[k + i] # s[i]
        BY <1>1, <2>1, <3>1
      <4>2. QED
        BY <1>3, <4>1 DEF Spells
    <3>2. CASE ~(i <= Len(s))
      <4>1. PICK j \in 1..Len(t) : i = Len(s) + j
        <5>1. i - Len(s) \in 1..Len(t) /\ i = Len(s) + (i - Len(s))
          BY <1>1, <3>2
        <5>2. QED
          BY <5>1
      <4>2. k + i = (k + Len(s)) + j
        BY <1>1, <4>1
      <4>3. p[(k + Len(s)) + j] # t[j]
        BY <1>1, <2>1, <4>1, <4>2
      <4>4. QED
        BY <1>3, <4>2, <4>3 DEF Spells
    <3>3. QED
      BY <3>1, <3>2
  <2>2. k + Len(u) <= Len(p)
    BY <1>1, <1>3 DEF Spells
  <2>3. QED
    BY <1>1, <2>1, <2>2 DEF Spells
<1>4. QED
  BY <1>1, <1>2, <1>3 DEF u

\* The second part, at a place that has a name.
LEMMA SpellsNext ==
  ASSUME NEW p \in Seq(Byte), NEW k \in Nat, NEW s \in Seq(Byte), NEW t \in Seq(Byte),
         NEW q, q = k + Len(s), NEW dropped
  PROVE  /\ s \o t \in Seq(Byte) /\ Len(s \o t) = Len(s) + Len(t)
         /\ Spells(p, k, s \o t, dropped) <=> Spells(p, k, s, dropped) /\ Spells(p, q, t, dropped)
BY SpellsBoth

\* What it takes to spell two parts.
Halves(p, k, q, s, t, dropped) ==
    Spells(p, k, s \o t, dropped) <=> Spells(p, k, s, dropped) /\ Spells(p, q, t, dropped)

\* Both parts are spelled one behind the other, or neither is whole.
LEMMA SpellsHalves ==
  ASSUME NEW p \in Seq(Byte), NEW k \in Nat, NEW s \in Seq(Byte), NEW t \in Seq(Byte),
         NEW q, q = k + Len(s), NEW dropped
  PROVE  Halves(p, k, q, s, t, dropped)
BY SpellsNext DEF Halves

\* Dropping more bytes does no harm.
LEMMA SpellsMore ==
  ASSUME NEW p, NEW k, NEW s, NEW dropped, NEW more, Spells(p, k, s, dropped),
         dropped \subseteq more
  PROVE  Spells(p, k, s, more)
BY DEF Spells

\* What is spelled without dropping anything is what is read there.
ReadBack(p, k, s) ==
    /\ SubSeq(p, k + 1, k + Len(s)) = s /\ k + Len(s) <= Len(p) /\ Len(s) \in Nat
    /\ \A i \in 1..Len(s) : p[k + i] = s[i]

\* A spelling without dropped bytes reads back.
LEMMA SpelledIsRead ==
  ASSUME NEW p \in Seq(Byte), NEW k \in Nat, NEW s, Spells(p, k, s, {})
  PROVE  ReadBack(p, k, s)
<1>1. /\ s \in Seq(Byte) /\ Len(s) \in Nat /\ k + Len(s) <= Len(p)
      /\ \A i \in 1..Len(s) : p[k + i] = s[i]
  BY DEF Spells
<1> DEFINE t == SubSeq(p, k + 1, k + Len(s))
<1>2. t \in Seq(Byte) /\ Len(t) = Len(s) /\ \A i \in 1..Len(s) : t[i] = p[k + i]
  BY <1>1, SpellsPart
<1> HIDE DEF t
<1>3. t = s
  BY <1>1, <1>2, SeqEqual
<1>4. QED
  BY <1>1, <1>3 DEF t, ReadBack

\* A sequence is what it spells.
LEMMA SpellsItself ==
  ASSUME NEW p \in Seq(Byte)
  PROVE  Spells(p, 0, p, {})
BY DEF Spells

-----------------------------------------------------------------------------
(* Strings, columns and values at the cursor.                              *)

\* A field of n bytes is a sequence of n bytes.
LEMMA BytesIs ==
  ASSUME NEW n \in Nat
  PROVE  \A b : b \in Bytes(n) <=> b \in Seq(Byte) /\ Len(b) = n
BY DEF Bytes

\* The cursor is in the payload.
Inside == payload \in Seq(Byte) /\ at \in Nat /\ at <= Len(payload) /\ Len(payload) \in Nat

\* What Take takes.
LEMMA Taken ==
  ASSUME Inside, NEW k \in Nat, NEW n \in Nat, Has(k + n), NEW dropped
  PROVE  /\ Take(k, n) \in Bytes(n) /\ Take(k, n) \in Seq(Byte) /\ Len(Take(k, n)) = n
         /\ Spells(payload, at + k, Take(k, n), dropped)
<1> DEFINE b == at + k
<1>1. b \in Nat /\ b + n <= Len(payload) /\ payload \in Seq(Byte)
  BY DEF Inside, Has
<1>2. Take(k, n) = SubSeq(payload, b + 1, b + n)
  BY DEF Take
<1> HIDE DEF b
<1> DEFINE s == SubSeq(payload, b + 1, b + n)
<1>3. s \in Seq(Byte) /\ Len(s) = n /\ Spells(payload, b, s, dropped)
  BY <1>1, SpellsPart
<1> HIDE DEF s
<1>4. s \in Bytes(n)
  BY <1>3, BytesIs
<1>5. QED
  BY <1>2, <1>3, <1>4 DEF b, s

\* What was written is what is taken.
LEMMA TakenAsWritten ==
  ASSUME Inside, NEW k \in Nat, NEW n \in Nat, NEW s, Len(s) = n, NEW b, b = at + k,
         Spells(payload, b, s, {})
  PROVE  Take(k, n) = s
<1>1. b \in Nat /\ payload \in Seq(Byte)
  BY DEF Inside
<1>2. /\ SubSeq(payload, b + 1, b + Len(s)) = s /\ b + Len(s) <= Len(payload)
      /\ Len(s) \in Nat /\ \A i \in 1..Len(s) : payload[b + i] = s[i]
  <2>1. ReadBack(payload, b, s)
    BY <1>1, SpelledIsRead
  <2>2. QED
    BY <2>1 DEF ReadBack
<1>3. b + 1 = at + k + 1 /\ b + Len(s) = at + k + n
  BY <1>1, <1>2
<1>4. QED
  BY <1>2, <1>3 DEF Take

\* What U8 reads.
LEMMA ByteTaken ==
  ASSUME Inside, NEW k \in Nat, Has(k + 1), NEW dropped
  PROVE  U8(k) \in Byte /\ Spells(payload, at + k, <<U8(k)>>, dropped)
<1>1. at + k \in Nat /\ (at + k) + 1 <= Len(payload)
  BY DEF Inside, Has
<1>2. U8(k) = payload[(at + k) + 1]
  BY DEF U8
<1>3. payload \in Seq(Byte)
  BY DEF Inside
<1>4. QED
  BY <1>1, <1>2, <1>3, SpellsByte

\* Two and two are four.
IsFour(t, a, b, c, d) ==
    t \in Seq(Byte) /\ Len(t) = 4 /\ t[1] = a /\ t[2] = b /\ t[3] = c /\ t[4] = d

\* Four bytes laid as two pairs are the four bytes.
LEMMA TwoAndTwo ==
  ASSUME NEW a \in Byte, NEW b \in Byte, NEW c \in Byte, NEW d \in Byte
  PROVE  IsFour(Four(a, b, c, d), a, b, c, d)
<1> DEFINE h == <<a, b>>
           l == <<c, d>>
           t == h \o l
<1>1. h \in Seq(Byte) /\ l \in Seq(Byte)
  OBVIOUS
<1>2. Len(h) = 2 /\ h[1] = a /\ h[2] = b /\ Len(l) = 2 /\ l[1] = c /\ l[2] = d
  OBVIOUS
<1>3. t = Four(a, b, c, d)
  BY DEF Four
<1> HIDE DEF h, l
<1>4. /\ t \in Seq(Byte) /\ Len(t) = Len(h) + Len(l)
      /\ \A i \in 1..Len(h) : t[i] = h[i]
      /\ \A i \in 1..Len(l) : t[Len(h) + i] = l[i]
  BY <1>1
<1> HIDE DEF t
<1>5. t[1] = a /\ t[2] = b
  BY <1>2, <1>4
<1>6. t[2 + 1] = c /\ t[2 + 2] = d
  BY <1>2, <1>4
<1>7. Len(t) = 4 /\ t[3] = c /\ t[4] = d
  BY <1>2, <1>4, <1>6
<1>8. QED
  BY <1>3, <1>4, <1>5, <1>7 DEF IsFour

\* The elements of a sequence.
LEMMA ElementsAre ==
  ASSUME NEW S, NEW s \in Seq(S)
  PROVE  \A i \in 1..Len(s) : s[i] \in S
OBVIOUS

\* What short sequences are made of.
LEMMA TwoOf ==
  ASSUME NEW s \in Seq(Byte), Len(s) = 2
  PROVE  s = <<s[1], s[2]>> /\ s[1] \in Byte /\ s[2] \in Byte
<1>1. \A i \in 1..2 : s[i] \in Byte
  OBVIOUS
<1> DEFINE a == s[1]
           b == s[2]
           t == <<a, b>>
<1>2. a \in Byte /\ b \in Byte /\ a = s[1] /\ b = s[2]
  BY <1>1
<1> HIDE DEF a, b
<1>3. t \in Seq(Byte) /\ Len(t) = 2 /\ t[1] = a /\ t[2] = b
  BY <1>2
<1> HIDE DEF t
<1>4. \A i \in 1..2 : t[i] = s[i]
  BY <1>2, <1>3
<1>5. s = t
  BY <1>3, <1>4, SeqEqual
<1>6. QED
  BY <1>2, <1>5 DEF t, a, b

\* A sequence of four bytes is made of its four bytes.
LEMMA FourOf ==
  ASSUME NEW s \in Seq(Byte), Len(s) = 4
  PROVE  /\ s = Four(s[1], s[2], s[3], s[4])
         /\ s[1] \in Byte /\ s[2] \in Byte /\ s[3] \in Byte /\ s[4] \in Byte
<1>1. \A i \in 1..Len(s) : s[i] \in Byte
  BY ElementsAre
<1> DEFINE a == s[1]
           b == s[2]
           c == s[3]
           d == s[4]
<1>2. /\ a \in Byte /\ b \in Byte /\ c \in Byte /\ d \in Byte
      /\ a = s[1] /\ b = s[2] /\ c = s[3] /\ d = s[4]
  BY <1>1
<1> HIDE DEF a, b, c, d
<1> DEFINE t == Four(a, b, c, d)
<1>3. t \in Seq(Byte) /\ Len(t) = 4 /\ t[1] = a /\ t[2] = b /\ t[3] = c /\ t[4] = d
  <2>1. IsFour(Four(a, b, c, d), a, b, c, d)
    BY <1>2, TwoAndTwo
  <2>2. QED
    BY <2>1 DEF IsFour
<1> HIDE DEF t
<1>4. \A i \in 1..4 : t[i] = s[i]
  BY <1>2, <1>3
<1>5. s = t
  BY <1>3, <1>4, SeqEqual
<1>6. QED
  BY <1>2, <1>5 DEF t, a, b, c, d

\* The bytes of a number are two or four.
LEMMA NumberBytes ==
  /\ \A n \in Nat : n <= MaxInt16 => Bytes16(n) \in Seq(Byte) /\ Len(Bytes16(n)) = 2
  /\ \A n \in Nat : n <= MaxInt32 => Bytes32(n) \in Seq(Byte) /\ Len(Bytes32(n)) = 4
<1>1. ASSUME NEW n \in Nat, n <= MaxInt16
      PROVE  Bytes16(n) \in Seq(Byte) /\ Len(Bytes16(n)) = 2
  <2>1. PICK a \in Byte, b \in Byte : Bytes16(n) = <<a, b>>
    BY <1>1, WrittenNumber16
  <2>2. QED
    BY <2>1
<1>2. ASSUME NEW n \in Nat, n <= MaxInt32
      PROVE  Bytes32(n) \in Seq(Byte) /\ Len(Bytes32(n)) = 4
  <2>1. PICK a \in Byte, b \in Byte, c \in Byte, d \in Byte :
           Bytes32(n) = Four(a, b, c, d) /\ Number32(a, b, c, d) = n
    BY <1>2, WrittenNumber32
  <2>2. Four(a, b, c, d) \in Seq(Byte) /\ Len(Four(a, b, c, d)) = 4
    BY TwoAndTwo DEF IsFour
  <2>3. QED
    BY <2>1, <2>2
<1>3. QED
  BY <1>1, <1>2

\* A count at the cursor.
LEMMA CountTaken ==
  ASSUME Inside, NEW k \in Nat, Has(k + 2)
  PROVE  /\ I16(k) \in Int
         /\ I16(k) >= 0 => I16(k) <= MaxInt16 /\ Bytes16(I16(k)) = Take(k, 2)
<1>1. at + k \in Nat /\ (at + k) + 2 <= Len(payload) /\ payload \in Seq(Byte) /\ k + 1 \in Nat
  BY DEF Inside, Has
<1> DEFINE b == at + k
           s == SubSeq(payload, b + 1, b + 2)
<1>2. b \in Nat /\ b + 2 <= Len(payload)
  BY <1>1
<1>3. Take(k, 2) = s /\ U8(k) = payload[b + 1] /\ U8(k + 1) = payload[b + 2]
  BY <1>1 DEF Take, U8, Inside
<1> HIDE DEF b
<1>4. s \in Seq(Byte) /\ Len(s) = 2 /\ s[1] = payload[b + 1] /\ s[2] = payload[b + 2]
  BY <1>1, <1>2
<1> HIDE DEF s
<1>5. s = <<s[1], s[2]>> /\ s[1] \in Byte /\ s[2] \in Byte
  BY <1>4, TwoOf
<1>6. I16(k) = Number16(s[1], s[2])
  BY <1>3, <1>4 DEF I16, Number16
<1>7. QED
  BY <1>3, <1>5, <1>6, ReadNumber16

\* A length at the cursor.
LEMMA LengthTaken ==
  ASSUME Inside, NEW k \in Nat, Has(k + 4)
  PROVE  /\ I32(k) \in Int
         /\ I32(k) >= 0 => I32(k) <= MaxInt32 /\ Bytes32(I32(k)) = Take(k, 4)
<1>1. /\ at + k \in Nat /\ (at + k) + 4 <= Len(payload) /\ payload \in Seq(Byte)
      /\ k + 1 \in Nat /\ k + 2 \in Nat /\ k + 3 \in Nat
  BY DEF Inside, Has
<1> DEFINE b == at + k
           s == SubSeq(payload, b + 1, b + 4)
<1>2. b \in Nat /\ b + 4 <= Len(payload)
  BY <1>1
<1>3. /\ Take(k, 4) = s /\ U8(k) = payload[b + 1] /\ U8(k + 1) = payload[b + 2]
      /\ U8(k + 2) = payload[b + 3] /\ U8(k + 3) = payload[b + 4]
  BY <1>1 DEF Take, U8, Inside
<1> HIDE DEF b
<1>4. /\ s \in Seq(Byte) /\ Len(s) = 4 /\ s[1] = payload[b + 1] /\ s[2] = payload[b + 2]
      /\ s[3] = payload[b + 3] /\ s[4] = payload[b + 4]
  BY <1>1, <1>2
<1> HIDE DEF s
<1>5. /\ s = Four(s[1], s[2], s[3], s[4])
      /\ s[1] \in Byte /\ s[2] \in Byte /\ s[3] \in Byte /\ s[4] \in Byte
  BY <1>4, FourOf
<1>6. I32(k) = Number32(s[1], s[2], s[3], s[4])
  BY <1>3, <1>4 DEF I32, Number32
<1>7. /\ Number32(s[1], s[2], s[3], s[4]) \in Int
      /\ Number32(s[1], s[2], s[3], s[4]) >= 0 =>
            /\ Number32(s[1], s[2], s[3], s[4]) <= MaxInt32
            /\ Bytes32(Number32(s[1], s[2], s[3], s[4])) = Four(s[1], s[2], s[3], s[4])
  BY <1>5, ReadNumber32
<1>8. QED
  BY <1>3, <1>5, <1>6, <1>7

\* A count that was written is the count at the cursor.
LEMMA CountFound ==
  ASSUME Inside, NEW k \in Nat, NEW n \in Nat, n <= MaxInt16, NEW b, b = at + k,
         Spells(payload, b, Bytes16(n), {})
  PROVE  Has(k + 2) /\ I16(k) = n
<1>1. PICK x \in Byte, y \in Byte : Bytes16(n) = <<x, y>> /\ Number16(x, y) = n
  BY WrittenNumber16
<1> DEFINE s == Bytes16(n)
<1>2. Len(s) = 2 /\ s[1] = x /\ s[2] = y
  BY <1>1
<1> HIDE DEF s
<1>3. b \in Nat /\ payload \in Seq(Byte)
  BY DEF Inside
<1>4. /\ SubSeq(payload, b + 1, b + Len(s)) = s /\ b + Len(s) <= Len(payload)
      /\ Len(s) \in Nat /\ \A i \in 1..Len(s) : payload[b + i] = s[i]
  <2>1. ReadBack(payload, b, s)
    BY <1>3, SpelledIsRead DEF s
  <2>2. QED
    BY <2>1 DEF ReadBack
<1>5. payload[b + 1] = x /\ payload[b + 2] = y
  BY <1>2, <1>4
<1>6. U8(k) = x /\ U8(k + 1) = y
  BY <1>3, <1>5 DEF U8, Inside
<1>7. Has(k + 2)
  BY <1>2, <1>3, <1>4 DEF Has, Inside
<1>8. QED
  BY <1>1, <1>6, <1>7 DEF I16, Number16

\* So is a length.
LEMMA LengthFound ==
  ASSUME Inside, NEW k \in Nat, NEW n \in Nat, n <= MaxInt32, NEW b, b = at + k,
         Spells(payload, b, Bytes32(n), {})
  PROVE  Has(k + 4) /\ I32(k) = n
<1>1. PICK x \in Byte, y \in Byte, z \in Byte, w \in Byte :
         Bytes32(n) = Four(x, y, z, w) /\ Number32(x, y, z, w) = n
  BY WrittenNumber32
<1> DEFINE s == Bytes32(n)
<1>2. Len(s) = 4 /\ s[1] = x /\ s[2] = y /\ s[3] = z /\ s[4] = w
  <2> DEFINE t == Four(x, y, z, w)
  <2>1. Len(t) = 4 /\ t[1] = x /\ t[2] = y /\ t[3] = z /\ t[4] = w
    BY TwoAndTwo DEF IsFour
  <2>2. s = t
    BY <1>1, <2>1
  <2> HIDE DEF s, t
  <2>3. QED
    BY <2>1, <2>2
<1> HIDE DEF s
<1>3. b \in Nat /\ payload \in Seq(Byte)
  BY DEF Inside
<1>4. /\ SubSeq(payload, b + 1, b + Len(s)) = s /\ b + Len(s) <= Len(payload)
      /\ Len(s) \in Nat /\ \A i \in 1..Len(s) : payload[b + i] = s[i]
  <2>1. ReadBack(payload, b, s)
    BY <1>3, SpelledIsRead DEF s
  <2>2. QED
    BY <2>1 DEF ReadBack
<1>5. payload[b + 1] = x /\ payload[b + 2] = y /\ payload[b + 3] = z /\ payload[b + 4] = w
  BY <1>2, <1>4
<1>6. U8(k) = x /\ U8(k + 1) = y /\ U8(k + 2) = z /\ U8(k + 3) = w
  BY <1>3, <1>5 DEF U8, Inside
<1>7. Has(k + 4)
  BY <1>2, <1>3, <1>4 DEF Has, Inside
<1>8. QED
  BY <1>1, <1>6, <1>7 DEF I32, Number32

\* A byte that was written is the byte at the cursor.
LEMMA ByteFound ==
  ASSUME Inside, NEW k \in Nat, NEW x \in Byte, NEW b, b = at + k,
         Spells(payload, b, <<x>>, {})
  PROVE  Has(k + 1) /\ U8(k) = x
<1> DEFINE s == <<x>>
<1>1. Len(s) = 1 /\ s[1] = x
  OBVIOUS
<1> HIDE DEF s
<1>2. b \in Nat /\ payload \in Seq(Byte) /\ Spells(payload, b, s, {})
  BY DEF Inside, s
<1>3. /\ SubSeq(payload, b + 1, b + Len(s)) = s /\ b + Len(s) <= Len(payload)
      /\ Len(s) \in Nat /\ \A i \in 1..Len(s) : payload[b + i] = s[i]
  <2>1. ReadBack(payload, b, s)
    BY <1>2, SpelledIsRead
  <2>2. QED
    BY <2>1 DEF ReadBack
<1>4. payload[b + 1] = x
  BY <1>1, <1>3
<1>5. QED
  BY <1>1, <1>2, <1>3, <1>4 DEF Has, U8, Inside

\* The string at the cursor ends before its terminator and holds none.
LEMMA StringRead ==
  ASSUME Inside, NEW k \in Nat, IsCstr(k), NEW dropped
  PROVE  /\ Cstr(k) \in Seq(Letters) /\ Cstr(k) \in Seq(Byte)
         /\ CstrLen(k) \in Nat /\ Len(Cstr(k)) = CstrLen(k)
         /\ Has(k + CstrLen(k) + 1) /\ at + k <= Len(payload)
         /\ Spells(payload, at + k, Cstr(k), dropped)
         /\ Spells(payload, at + k + CstrLen(k), <<0>>, dropped)
<1> DEFINE T == Terminators(k)
           end == Min(T)
           n == end - (at + k + 1)
<1>1. Inside /\ at + k \in Nat
  BY DEF Inside
<1>2. T \in SUBSET Nat /\ T # {}
  BY <1>1 DEF IsCstr, Terminators, Inside
<1>3. end \in T /\ \A y \in T : end <= y
  <2> HIDE DEF T
  <2>1. QED
    BY <1>2, LeastOf
<1>4. T = {i \in (at + k + 1)..Len(payload) : payload[i] = 0}
  BY DEF Terminators
<1> HIDE DEF T, end
<1>5. end \in Nat /\ at + k + 1 <= end /\ end <= Len(payload) /\ payload[end] = 0
  BY <1>1, <1>3, <1>4 DEF Inside
<1>6. n \in Nat /\ end = ((at + k) + n) + 1
  BY <1>1, <1>5
<1>7. CstrLen(k) = n
  BY DEF CstrLen, end, T
<1> HIDE DEF n
<1>8. (at + k) + n <= Len(payload)
  BY <1>1, <1>5, <1>6 DEF Inside
<1>9. Cstr(k) = SubSeq(payload, (at + k) + 1, (at + k) + n)
  BY <1>7 DEF Cstr, Take
<1> DEFINE s == Cstr(k)
<1>10. /\ s \in Seq(Byte) /\ Len(s) = n /\ Spells(payload, at + k, s, dropped)
       /\ \A i \in 1..n : s[i] = payload[(at + k) + i]
  <2> DEFINE b == at + k
             t == SubSeq(payload, b + 1, b + n)
  <2>1. b \in Nat /\ n \in Nat /\ b + n <= Len(payload) /\ payload \in Seq(Byte)
    BY <1>1, <1>6, <1>8 DEF Inside
  <2> HIDE DEF b
  <2>2. /\ t \in Seq(Byte) /\ Len(t) = n /\ Spells(payload, b, t, dropped)
        /\ \A i \in 1..n : t[i] = payload[b + i]
    BY <2>1, SpellsPart
  <2>3. s = t
    BY <1>9 DEF b
  <2> HIDE DEF s, t
  <2>4. QED
    BY <2>2, <2>3 DEF b
<1>11. \A i \in DOMAIN s : s[i] < 128
  BY DEF IsCstr, Utf8
<1> HIDE DEF s
<1>12. ASSUME NEW i \in 1..n
       PROVE  s[i] \in Letters
  <2>1. s[i] \in Nat /\ s[i] < 128
    BY <1>10, <1>11, <1>12, ByteIs
  <2>2. (at + k) + i \in (at + k + 1)..Len(payload) /\ ~(end <= (at + k) + i)
    BY <1>1, <1>5, <1>6 DEF Inside
  <2>3. payload[(at + k) + i] # 0
    BY <1>3, <1>4, <2>2
  <2>4. QED
    BY <1>10, <2>1, <2>3, ByteIs
<1>13. s \in Seq(Letters)
  BY <1>10, <1>12
<1>14. Spells(payload, (at + k) + n, <<0>>, dropped)
  <2>1. payload[((at + k) + n) + 1] = 0 /\ (at + k) + n \in Nat
    BY <1>1, <1>5, <1>6
  <2>2. ((at + k) + n) + 1 <= Len(payload)
    BY <1>5, <1>6
  <2>3. QED
    BY <1>1, <2>1, <2>2, SpellsByte DEF Inside
<1>15. Has(k + n + 1) /\ at + k <= Len(payload)
  BY <1>1, <1>5, <1>6 DEF Has, Inside
<1>16. QED
  BY <1>6, <1>7, <1>10, <1>13, <1>14, <1>15 DEF s

\* A string that was written is the string at the cursor.
LEMMA StringWritten ==
  ASSUME Inside, NEW k \in Nat, NEW s \in Seq(Letters), Spells(payload, at + k, s, {}),
         Spells(payload, at + k + Len(s), << 0 >>, {})
  PROVE  IsCstr(k) /\ CstrLen(k) = Len(s) /\ Cstr(k) = s
<1> DEFINE T == Terminators(k)
           n == Len(s)
           e == at + k + n + 1
<1>1. Inside /\ at + k \in Nat /\ n \in Nat /\ (at + k) + n \in Nat
  BY DEF Inside
<1>2. /\ SubSeq(payload, (at + k) + 1, (at + k) + n) = s /\ (at + k) + n <= Len(payload)
      /\ \A i \in 1..n : payload[(at + k) + i] = s[i]
  <2>1. payload \in Seq(Byte)
    BY <1>1 DEF Inside
  <2>2. ReadBack(payload, at + k, s)
    BY <1>1, <2>1, SpelledIsRead
  <2>3. QED
    BY <2>2 DEF ReadBack
<1>3. payload[e] = 0 /\ e <= Len(payload) /\ e \in Nat /\ e = ((at + k) + n) + 1
  <2> DEFINE z == <<0>>
  <2>1. z[1] = 0 /\ Len(z) = 1 /\ Spells(payload, (at + k) + n, z, {})
    OBVIOUS
  <2> HIDE DEF z
  <2> DEFINE b == (at + k) + n
  <2>2. b \in Nat /\ payload \in Seq(Byte) /\ Spells(payload, b, z, {})
    BY <1>1, <2>1 DEF Inside
  <2> HIDE DEF b
  <2>3. b + Len(z) <= Len(payload) /\ \A i \in 1..Len(z) : payload[b + i] = z[i]
    BY <2>2, SpelledIsRead DEF ReadBack
  <2>4. payload[b + 1] = 0 /\ b + 1 <= Len(payload)
    BY <2>1, <2>3
  <2>5. b = (at + k) + n
    BY DEF b
  <2>6. QED
    BY <1>1, <2>2, <2>4, <2>5
<1>4. T = {i \in (at + k + 1)..Len(payload) : payload[i] = 0}
  BY DEF Terminators
<1> HIDE DEF T, e
<1>5. e \in T
  BY <1>1, <1>3, <1>4 DEF Inside
<1>6. ASSUME NEW i \in T
      PROVE  e <= i
  <2>1. i \in Nat /\ at + k + 1 <= i /\ payload[i] = 0
    BY <1>1, <1>4 DEF Inside
  <2>2. SUFFICES ASSUME i < e PROVE FALSE
    BY <1>3, <2>1
  <2>3. i - (at + k) \in 1..n /\ i = (at + k) + (i - (at + k))
    BY <1>1, <1>3, <2>1, <2>2
  <2>4. PICK j \in 1..n : i = (at + k) + j
    BY <2>3
  <2>5. payload[(at + k) + j] = s[j]
    BY <1>2
  <2>6. s[j] \in Letters
    OBVIOUS
  <2>7. QED
    BY <2>1, <2>4, <2>5, <2>6, ByteIs
<1>7. Min(T) \in T /\ \A y \in T : Min(T) <= y
  <2>1. T \in SUBSET Nat /\ T # {}
    BY <1>1, <1>4, <1>5 DEF Inside
  <2>2. QED
    BY <2>1, LeastOf
<1>8. Min(T) = e
  <2>1. Min(T) \in Nat /\ Min(T) <= e /\ e <= Min(T)
    BY <1>1, <1>4, <1>5, <1>6, <1>7 DEF Inside
  <2>2. QED
    BY <1>3, <2>1
<1>9. CstrLen(k) = n
  <2>1. CstrLen(k) = e - (at + k + 1)
    BY <1>8 DEF CstrLen, T
  <2>2. e = ((at + k) + n) + 1
    BY <1>3
  <2>3. at \in Nat /\ k \in Nat /\ n \in Nat
    BY <1>1 DEF Inside
  <2>4. QED
    BY <2>1, <2>2, <2>3
<1>10. Cstr(k) = s
  BY <1>2, <1>9 DEF Cstr, Take
<1>11. Utf8(s)
  BY ByteIs DEF Utf8
<1>12. QED
  BY <1>5, <1>9, <1>10, <1>11 DEF IsCstr, T

\* What a column is.
LEMMA ColumnIs ==
  ASSUME NEW c
  PROVE  c \in Column <=>
           /\ c = [is_key |-> c.is_key, name |-> c.name, type_oid |-> c.type_oid,
                   atttypmod |-> c.atttypmod]
           /\ c.is_key \in BOOLEAN /\ c.name \in Seq(Letters)
           /\ c.type_oid \in Bytes(4) /\ c.atttypmod \in Bytes(4)
BY DEF Column

\* The parts of an encoded column, at its place.
Flag(c) == <<IF c.is_key THEN 1 ELSE 0>>
ColumnSpelled(p, k, c, dropped) ==
    /\ Spells(p, k, Flag(c), dropped)
    /\ Spells(p, k + 1, c.name, dropped)
    /\ Spells(p, k + 1 + Len(c.name), <<0>>, dropped)
    /\ Spells(p, k + 1 + Len(c.name) + 1, c.type_oid, dropped)
    /\ Spells(p, k + 1 + Len(c.name) + 5, c.atttypmod, dropped)

\* They are the column.
LEMMA ColumnParts ==
  ASSUME NEW p \in Seq(Byte), NEW k \in Nat, NEW c \in Column, NEW dropped
  PROVE  /\ EncodedColumn(c) \in Seq(Byte) /\ Len(EncodedColumn(c)) = 10 + Len(c.name)
         /\ Len(c.name) \in Nat
         /\ Spells(p, k, EncodedColumn(c), dropped) <=> ColumnSpelled(p, k, c, dropped)
<1> DEFINE n == Len(c.name)
           a == c.name
           t == c.type_oid
           m == c.atttypmod
           z == <<0>>
           e1 == Flag(c)
           e2 == e1 \o a
           e3 == e2 \o z
           e4 == e3 \o t
           e5 == e4 \o m
<1>1. a \in Seq(Letters) /\ t \in Bytes(4) /\ m \in Bytes(4) /\ c.is_key \in BOOLEAN
  BY ColumnIs
<1>2. n \in Nat /\ n = Len(a)
  BY <1>1
<1>3. EncodedColumn(c) = e5
  BY DEF EncodedColumn, Flag
<1>4. ColumnSpelled(p, k, c, dropped) <=>
        /\ Spells(p, k, e1, dropped) /\ Spells(p, k + 1, a, dropped)
        /\ Spells(p, k + 1 + n, z, dropped) /\ Spells(p, k + 1 + n + 1, t, dropped)
        /\ Spells(p, k + 1 + n + 5, m, dropped)
  BY DEF ColumnSpelled
<1>5. /\ e1 \in Seq(Byte) /\ Len(e1) = 1
      /\ z \in Seq(Byte) /\ Len(z) = 1
  <2>1. 0 \in Byte /\ 1 \in Byte
    BY ByteIs
  <2>2. QED
    BY <2>1 DEF Flag
<1> HIDE DEF e1, a, t, m, z, n
<1>6. a \in Seq(Byte)
  BY <1>1, TextIsBytes
<1>7. t \in Seq(Byte) /\ Len(t) = 4
  BY <1>1, BytesIs
<1>8. m \in Seq(Byte) /\ Len(m) = 4
  BY <1>1, BytesIs
<1>9. /\ e2 \in Seq(Byte) /\ Len(e2) = 1 + n
      /\ Spells(p, k, e2, dropped) <=> Spells(p, k, e1, dropped) /\ Spells(p, k + 1, a, dropped)
  <2> DEFINE q == k + 1
  <2>1. q = k + Len(e1)
    BY <1>5
  <2> HIDE DEF q
  <2>2. Len(e2) = Len(e1) + Len(a) /\ e2 \in Seq(Byte)
    BY <2>1, <1>5, <1>6, SpellsNext
  <2>3. Spells(p, k, e2, dropped) <=> Spells(p, k, e1, dropped) /\ Spells(p, q, a, dropped)
    BY <2>1, <1>5, <1>6, SpellsNext
  <2>4. QED
    BY <1>2, <1>5, <2>2, <2>3 DEF q
<1> HIDE DEF e2
<1>10. /\ e3 \in Seq(Byte) /\ Len(e3) = 2 + n
       /\ Spells(p, k, e3, dropped) <=>
             Spells(p, k, e2, dropped) /\ Spells(p, k + 1 + n, z, dropped)
  <2>1. k + 1 + n = k + Len(e2) /\ (1 + n) + 1 = 2 + n
    BY <1>2, <1>9
  <2> DEFINE q == k + 1 + n
  <2>2. q = k + Len(e2) /\ e2 \in Seq(Byte) /\ z \in Seq(Byte)
    BY <2>1, <1>5, <1>9
  <2> HIDE DEF q
  <2>3. Len(e3) = Len(e2) + Len(z) /\ e3 \in Seq(Byte)
    BY <2>2, SpellsNext
  <2>4. Spells(p, k, e3, dropped) <=>
             Spells(p, k, e2, dropped) /\ Spells(p, q, z, dropped)
    BY <2>2, SpellsNext
  <2>5. QED
    BY <1>2, <1>5, <1>9, <2>1, <2>3, <2>4 DEF q
<1> HIDE DEF e3
<1>11. /\ e4 \in Seq(Byte) /\ Len(e4) = 6 + n
       /\ Spells(p, k, e4, dropped) <=>
             Spells(p, k, e3, dropped) /\ Spells(p, k + 1 + n + 1, t, dropped)
  <2>1. k + 1 + n + 1 = k + Len(e3) /\ (2 + n) + 4 = 6 + n
    BY <1>2, <1>10
  <2> DEFINE q == k + 1 + n + 1
  <2>2. q = k + Len(e3) /\ e3 \in Seq(Byte) /\ t \in Seq(Byte)
    BY <2>1, <1>7, <1>10
  <2> HIDE DEF q
  <2>3. Len(e4) = Len(e3) + Len(t) /\ e4 \in Seq(Byte)
    BY <2>2, SpellsNext
  <2>4. Spells(p, k, e4, dropped) <=>
             Spells(p, k, e3, dropped) /\ Spells(p, q, t, dropped)
    BY <2>2, SpellsNext
  <2>5. QED
    BY <1>2, <1>7, <1>10, <2>1, <2>3, <2>4 DEF q
<1> HIDE DEF e4
<1>12. /\ e5 \in Seq(Byte) /\ Len(e5) = 10 + n
       /\ Spells(p, k, e5, dropped) <=>
             Spells(p, k, e4, dropped) /\ Spells(p, k + 1 + n + 5, m, dropped)
  <2>1. k + 1 + n + 5 = k + Len(e4) /\ (6 + n) + 4 = 10 + n
    BY <1>2, <1>11
  <2> DEFINE q == k + 1 + n + 5
  <2>2. q = k + Len(e4) /\ e4 \in Seq(Byte) /\ m \in Seq(Byte)
    BY <2>1, <1>8, <1>11
  <2> HIDE DEF q
  <2>3. Len(e5) = Len(e4) + Len(m) /\ e5 \in Seq(Byte)
    BY <2>2, SpellsNext
  <2>4. Spells(p, k, e5, dropped) <=>
             Spells(p, k, e4, dropped) /\ Spells(p, q, m, dropped)
    BY <2>2, SpellsNext
  <2>5. QED
    BY <1>2, <1>8, <1>11, <2>1, <2>3, <2>4 DEF q
<1> HIDE DEF e5
<1>13. n = Len(c.name)
  BY DEF n
<1>14. QED
  BY <1>2, <1>3, <1>4, <1>9, <1>10, <1>11, <1>12, <1>13

\* What is taken for a column is one, but for the flags that are dropped.
LEMMA ColumnTaken ==
  ASSUME Inside, ColumnIsThere
  PROVE  /\ ColumnRead \in Column
         /\ ColumnLen = Len(EncodedColumn(ColumnRead)) /\ ColumnLen \in Nat /\ ColumnLen >= 1
         /\ at + ColumnLen <= Len(payload)
         /\ Spells(payload, at, EncodedColumn(ColumnRead), ignored \cup {at + 1})
<1> DEFINE n == CstrLen(1)
           a == Cstr(1)
           t == Take(1 + n + 1, 4)
           m == Take(1 + n + 5, 4)
           c == [is_key |-> U8(0) = 1, name |-> a, type_oid |-> t, atttypmod |-> m]
           more == ignored \cup {at + 1}
<1>1. Inside /\ payload \in Seq(Byte) /\ at \in Nat /\ Len(payload) \in Nat
  BY DEF Inside
<1>2. Has(1) /\ IsCstr(1) /\ Has(ColumnLen)
  BY DEF ColumnIsThere
<1>3. /\ a \in Seq(Letters) /\ n \in Nat /\ Len(a) = n
      /\ Spells(payload, at + 1, a, more) /\ Spells(payload, at + 1 + n, <<0>>, more)
  <2> HIDE DEF more
  <2>1. QED
    BY <1>1, <1>2, StringRead
<1>4. c = ColumnRead
  BY DEF ColumnRead
<1>5. ColumnLen = 10 + n
  <2>1. ColumnLen = 1 + n + 1 + 8
    BY DEF ColumnLen
  <2> HIDE DEF n
  <2>2. QED
    BY <1>3, <2>1
<1> HIDE DEF n, more
<1>6. at + (10 + n) <= Len(payload)
  BY <1>2, <1>5 DEF Has
<1>7. t \in Bytes(4) /\ Spells(payload, at + 1 + n + 1, t, more)
  <2> DEFINE q == 1 + n + 1
  <2>1. q \in Nat /\ Has(q + 4) /\ at + q = at + 1 + n + 1
    BY <1>1, <1>3, <1>6 DEF Has
  <2> HIDE DEF q
  <2>2. Take(q, 4) \in Bytes(4) /\ Spells(payload, at + q, Take(q, 4), more)
    BY <1>1, <2>1, Taken
  <2>3. QED
    BY <2>1, <2>2 DEF q
<1>8. m \in Bytes(4) /\ Spells(payload, at + 1 + n + 5, m, more)
  <2> DEFINE q == 1 + n + 5
  <2>1. q \in Nat /\ Has(q + 4) /\ at + q = at + 1 + n + 5
    BY <1>1, <1>3, <1>6 DEF Has
  <2> HIDE DEF q
  <2>2. Take(q, 4) \in Bytes(4) /\ Spells(payload, at + q, Take(q, 4), more)
    BY <1>1, <2>1, Taken
  <2>3. QED
    BY <2>1, <2>2 DEF q
<1> HIDE DEF a, t, m
<1>9. c \in Column
  BY <1>3, <1>7, <1>8 DEF Column
<1>10. /\ c.is_key = (U8(0) = 1) /\ c.name = a /\ c.type_oid = t /\ c.atttypmod = m
       /\ c.is_key \in BOOLEAN
  OBVIOUS
<1> HIDE DEF c
<1>11. Spells(payload, at, Flag(c), more)
  <2> DEFINE f == Flag(c)
  <2>1. 0 \in Byte /\ 1 \in Byte
    BY ByteIs
  <2>2. f \in Seq(Byte) /\ Len(f) = 1
    BY <2>1 DEF Flag
  <2> HIDE DEF f
  <2>3. at + Len(f) <= Len(payload)
    BY <1>1, <1>3, <1>6, <2>2
  <2>4. \A i \in 1..Len(f) : at + i \in more
    BY <2>2 DEF more
  <2>5. QED
    BY <2>2, <2>3, <2>4 DEF Spells, f
<1>12. ColumnSpelled(payload, at, c, more)
  BY <1>3, <1>7, <1>8, <1>10, <1>11 DEF ColumnSpelled
<1>13. Spells(payload, at, EncodedColumn(c), more) /\ Len(EncodedColumn(c)) = 10 + n
  BY <1>1, <1>3, <1>9, <1>10, <1>12, ColumnParts
<1>14. QED
  BY <1>3, <1>4, <1>5, <1>6, <1>9, <1>13 DEF more

\* A column that was written is taken for what it was.
LEMMA ColumnFound ==
  ASSUME Inside, NEW c \in Column, Spells(payload, at, EncodedColumn(c), {})
  PROVE  ColumnIsThere /\ ColumnRead = c /\ ColumnLen = Len(EncodedColumn(c))
<1> DEFINE a == c.name
           t == c.type_oid
           m == c.atttypmod
           n == Len(a)
<1>1. Inside /\ payload \in Seq(Byte) /\ at \in Nat /\ Len(payload) \in Nat
  BY DEF Inside
<1>2. /\ ColumnSpelled(payload, at, c, {}) /\ n \in Nat /\ Len(EncodedColumn(c)) = 10 + n
      /\ EncodedColumn(c) \in Seq(Byte)
  <2>1. n = Len(c.name)
    OBVIOUS
  <2> HIDE DEF n
  <2>2. QED
    BY <1>1, <2>1, ColumnParts
<1>3. at + (10 + n) <= Len(payload)
  BY <1>2 DEF Spells
<1>4. /\ Spells(payload, at, Flag(c), {}) /\ Spells(payload, at + 1, a, {})
      /\ Spells(payload, at + 1 + n, <<0>>, {}) /\ Spells(payload, at + 1 + n + 1, t, {})
      /\ Spells(payload, at + 1 + n + 5, m, {})
  BY <1>2 DEF ColumnSpelled
<1>5. /\ a \in Seq(Letters) /\ t \in Bytes(4) /\ m \in Bytes(4) /\ c.is_key \in BOOLEAN
      /\ c = [is_key |-> c.is_key, name |-> a, type_oid |-> t, atttypmod |-> m]
  BY ColumnIs
<1>6. n = Len(a)
  OBVIOUS
<1> HIDE DEF a, t, m, n
<1>7. IsCstr(1) /\ CstrLen(1) = n /\ Cstr(1) = a
  BY <1>1, <1>4, <1>5, <1>6, StringWritten
<1>8. ColumnLen = 10 + n /\ Has(1) /\ Has(ColumnLen)
  <2>1. ColumnLen = 1 + n + 1 + 8
    BY <1>7 DEF ColumnLen
  <2>2. ColumnLen = 10 + n
    BY <1>2, <2>1
  <2>3. QED
    BY <1>1, <1>2, <1>3, <2>2 DEF Has
<1>9. Take(1 + n + 1, 4) = t
  <2> DEFINE q == 1 + n + 1
             b == at + 1 + n + 1
  <2>1. Len(t) = 4
    BY <1>5, BytesIs
  <2>2. q \in Nat /\ b = at + q /\ Spells(payload, b, t, {})
    BY <1>1, <1>2, <1>4
  <2> HIDE DEF b, q
  <2>3. Take(q, 4) = t
    BY <1>1, <2>1, <2>2, TakenAsWritten
  <2>4. QED
    BY <2>3 DEF q
<1>10. Take(1 + n + 5, 4) = m
  <2> DEFINE q == 1 + n + 5
             b == at + 1 + n + 5
  <2>1. Len(m) = 4
    BY <1>5, BytesIs
  <2>2. q \in Nat /\ b = at + q /\ Spells(payload, b, m, {})
    BY <1>1, <1>2, <1>4
  <2> HIDE DEF b, q
  <2>3. Take(q, 4) = m
    BY <1>1, <2>1, <2>2, TakenAsWritten
  <2>4. QED
    BY <2>3 DEF q
<1>11. U8(0) = 1 <=> c.is_key
  <2>1. /\ Flag(c) \in Seq(Byte) /\ Len(Flag(c)) = 1 /\ 1 \in 1..Len(Flag(c))
        /\ Flag(c)[1] = IF c.is_key THEN 1 ELSE 0
    <3>1. 0 \in Byte /\ 1 \in Byte
      BY ByteIs
    <3>2. QED
      BY <3>1 DEF Flag
  <2> DEFINE f == Flag(c)
  <2> HIDE DEF f
  <2>2. \A i \in 1..Len(f) : payload[at + i] = f[i]
    BY <1>1, <1>4, SpelledIsRead DEF f, ReadBack
  <2>3. payload[at + 1] = f[1]
    BY <2>1, <2>2 DEF f
  <2>4. U8(0) = payload[at + 1]
    BY <1>1 DEF U8
  <2>5. U8(0) = IF c.is_key THEN 1 ELSE 0
    BY <2>1, <2>3, <2>4 DEF f
  <2>6. QED
    BY <2>5
<1>12. ColumnRead = c
  BY <1>5, <1>7, <1>9, <1>10, <1>11 DEF ColumnRead
<1>13. QED
  BY <1>2, <1>7, <1>8, <1>12 DEF ColumnIsThere

\* What a value of a tuple is.
LEMMA CellIs ==
  ASSUME NEW v
  PROVE  v \in Cell <=> /\ v = [tag |-> v.tag, text |-> v.text]
                        /\ v.tag \in {Ascii.n, Ascii.u, Ascii.t}
                        /\ v.tag # Ascii.t => v.text = <<>>
                        /\ v.tag = Ascii.t => v.text \in Text
<1>1. Ascii.n # Ascii.t /\ Ascii.u # Ascii.t
  BY DEF Ascii
<1>2. QED
  BY <1>1 DEF Cell

\* The tags are bytes, each its own.
LEMMA TagsAre ==
  /\ Ascii.n \in Byte /\ Ascii.u \in Byte /\ Ascii.t \in Byte
  /\ Ascii.n # Ascii.t /\ Ascii.u # Ascii.t
BY ByteIs DEF Ascii

\* What a text is.
LEMMA TextIs ==
  ASSUME NEW s
  PROVE  s \in Text => s \in Seq(Byte) /\ Len(s) \in Nat /\ Len(s) <= MaxInt32 /\ Utf8(s)
<1>1. SUFFICES ASSUME s \in Text PROVE s \in Seq(Byte) /\ Len(s) \in Nat /\ Len(s) <= MaxInt32 /\ Utf8(s)
  OBVIOUS
<1>2. s \in Seq(Plain) /\ Len(s) <= MaxInt32
  BY <1>1 DEF Text
<1>3. Utf8(s)
  BY <1>2, ByteIs DEF Utf8
<1>4. QED
  BY <1>1, <1>2, <1>3, TextIsBytes

\* A short text in ASCII is one.
LEMMA IsText ==
  ASSUME NEW s \in Seq(Byte), Utf8(s), Len(s) <= MaxInt32
  PROVE  s \in Text
<1>1. \A i \in 1..Len(s) : s[i] \in Plain
  BY ByteIs DEF Utf8
<1>2. s \in Seq(Plain)
  BY <1>1
<1>3. QED
  BY <1>2 DEF Text

\* The parts of an encoded value, at its place.
ValueSpelled(p, k, v, dropped) ==
    /\ Spells(p, k, <<v.tag>>, dropped)
    /\ v.tag = Ascii.t => /\ Spells(p, k + 1, Bytes32(Len(v.text)), dropped)
                          /\ Spells(p, k + 5, v.text, dropped)

\* They are the value.
LEMMA ValueParts ==
  ASSUME NEW p \in Seq(Byte), NEW k \in Nat, NEW v \in Cell, NEW dropped
  PROVE  /\ EncodedValue(v) \in Seq(Byte)
         /\ Len(EncodedValue(v)) = IF v.tag = Ascii.t THEN 5 + Len(v.text) ELSE 1
         /\ Spells(p, k, EncodedValue(v), dropped) <=> ValueSpelled(p, k, v, dropped)
<1> DEFINE z == <<v.tag>>
           b == Bytes32(Len(v.text))
           a == v.text
           e2 == b \o a
           e3 == z \o e2
<1>1. v.tag \in {Ascii.n, Ascii.u, Ascii.t} /\ (v.tag = Ascii.t => v.text \in Text)
  BY CellIs
<1>2. z \in Seq(Byte) /\ Len(z) = 1
  <2>1. v.tag \in Byte
    BY <1>1, TagsAre
  <2>2. QED
    BY <2>1
<1>3. CASE v.tag = Ascii.t
  <2>1. a \in Seq(Byte) /\ Len(a) \in Nat /\ Len(a) <= MaxInt32
    BY <1>1, <1>3, TextIs
  <2>2. b \in Seq(Byte) /\ Len(b) = 4
    BY <2>1, NumberBytes
  <2>3. EncodedValue(v) = e3
    BY <1>3 DEF EncodedValue
  <2>4. ValueSpelled(p, k, v, dropped) <=>
          /\ Spells(p, k, z, dropped) /\ Spells(p, k + 1, b, dropped) /\ Spells(p, k + 5, a, dropped)
    BY <1>3 DEF ValueSpelled
  <2>5. Len(v.text) = Len(a)
    OBVIOUS
  <2> HIDE DEF z, a, b
  <2> DEFINE q == k + 1
             r == k + 5
  <2>6. q \in Nat /\ q = k + Len(z) /\ r = q + Len(b)
    BY <1>2, <2>2
  <2>7. q = k + 1 /\ r = k + 5
    OBVIOUS
  <2> HIDE DEF q, r
  <2>8. e2 \in Seq(Byte) /\ Len(e2) = Len(b) + Len(a)
    BY <2>1, <2>2, BothAre
  <2>9. Spells(p, q, e2, dropped) <=> Spells(p, q, b, dropped) /\ Spells(p, r, a, dropped)
    <3>1. Halves(p, q, r, b, a, dropped)
      BY <2>1, <2>2, <2>6, SpellsHalves
    <3>2. QED
      BY <3>1 DEF Halves
  <2> HIDE DEF e2
  <2>10. e3 \in Seq(Byte) /\ Len(e3) = Len(z) + Len(e2)
    BY <1>2, <2>8, BothAre
  <2>11. Spells(p, k, e3, dropped) <=> Spells(p, k, z, dropped) /\ Spells(p, q, e2, dropped)
    BY <1>2, <2>6, <2>8, SpellsNext
  <2> HIDE DEF e3
  <2>12. Len(e3) = 5 + Len(a)
    BY <1>2, <2>1, <2>2, <2>8, <2>10
  <2>13. QED
    BY <1>3, <2>3, <2>4, <2>5, <2>7, <2>9, <2>10, <2>11, <2>12
<1>4. CASE v.tag # Ascii.t
  <2>1. EncodedValue(v) = z \o <<>>
    BY <1>4 DEF EncodedValue
  <2>2. ValueSpelled(p, k, v, dropped) <=> Spells(p, k, z, dropped)
    BY <1>4 DEF ValueSpelled
  <2> HIDE DEF z
  <2>3. z \o <<>> = z
    BY <1>2, ConcatEmptySeq
  <2>4. QED
    BY <1>2, <1>4, <2>1, <2>2, <2>3
<1>5. QED
  BY <1>3, <1>4

\* What is taken for a value is one.
LEMMA ValueTaken ==
  ASSUME Inside, ValueIsThere
  PROVE  /\ ValueRead \in Cell
         /\ ValueLen = Len(EncodedValue(ValueRead)) /\ ValueLen \in Nat /\ ValueLen >= 1
         /\ at + ValueLen <= Len(payload)
         /\ Spells(payload, at, EncodedValue(ValueRead), ignored)
<1> DEFINE v == ValueRead
           g == U8(0)
           n == I32(1)
           a == Take(5, n)
<1>1. /\ Inside /\ payload \in Seq(Byte) /\ at \in Nat /\ Len(payload) \in Nat
      /\ 0 \in Nat /\ at + 0 = at
  BY DEF Inside
<1>2. Has(1) /\ g \in {Ascii.n, Ascii.u, Ascii.t}
  BY DEF ValueIsThere
<1>3. Spells(payload, at, <<g>>, ignored) /\ at + 1 <= Len(payload)
  <2>1. Has(0 + 1)
    BY <1>2
  <2>2. Spells(payload, at + 0, <<g>>, ignored)
    BY <1>1, <2>1, ByteTaken
  <2>3. QED
    BY <1>1, <1>2, <2>2 DEF Has
<1>4. v = [tag |-> g, text |-> IF g = Ascii.t THEN a ELSE <<>>]
  BY DEF ValueRead
<1>5. CASE g = Ascii.t
  <2>1. Has(5) /\ n >= 0 /\ n <= Len(payload) - at - 5 /\ Utf8(a)
    BY <1>5 DEF ValueIsThere
  <2>2. n \in Int /\ n <= MaxInt32 /\ Bytes32(n) = Take(1, 4)
    <3>1. 1 \in Nat /\ Has(1 + 4)
      BY <2>1
    <3>2. QED
      BY <1>1, <2>1, <3>1, LengthTaken
  <2>3. ValueLen = 5 + n
    BY <1>5 DEF ValueLen
  <2>4. v.tag = Ascii.t /\ v.text = a /\ v = [tag |-> Ascii.t, text |-> a]
    BY <1>4, <1>5
  <2> HIDE DEF n
  <2>5. n \in Nat /\ Has(5 + n)
    BY <1>1, <2>1, <2>2 DEF Has
  <2>6. a \in Seq(Byte) /\ Len(a) = n /\ Spells(payload, at + 5, a, ignored)
    BY <1>1, <2>5, Taken
  <2>7. Spells(payload, at + 1, Bytes32(n), ignored)
    <3>1. Has(1 + 4)
      BY <2>1
    <3>2. Spells(payload, at + 1, Take(1, 4), ignored)
      BY <1>1, <3>1, Taken
    <3>3. QED
      BY <2>2, <3>2
  <2> HIDE DEF a, v
  <2>8. a \in Text
    BY <2>1, <2>2, <2>6, IsText
  <2>9. v \in Cell
    BY <2>4, <2>8 DEF Cell
  <2>10. ValueSpelled(payload, at, v, ignored)
    BY <1>3, <1>5, <2>4, <2>6, <2>7 DEF ValueSpelled
  <2>11. Spells(payload, at, EncodedValue(v), ignored) /\ Len(EncodedValue(v)) = 5 + n
    BY <1>1, <2>4, <2>6, <2>9, <2>10, ValueParts
  <2>12. at + (5 + n) <= Len(payload)
    BY <1>1, <2>5 DEF Has
  <2>13. QED
    BY <2>3, <2>5, <2>9, <2>11, <2>12 DEF v
<1>6. CASE g # Ascii.t
  <2>1. ValueLen = 1
    BY <1>6 DEF ValueLen
  <2>2. v.tag = g /\ v.text = <<>> /\ v = [tag |-> g, text |-> <<>>]
    BY <1>4, <1>6
  <2>3. g \in {Ascii.n, Ascii.u}
    BY <1>2, <1>6
  <2> HIDE DEF v, g
  <2>4. v \in Cell
    BY <2>2, <2>3 DEF Cell
  <2>5. ValueSpelled(payload, at, v, ignored)
    BY <1>3, <1>6, <2>2 DEF ValueSpelled
  <2>6. Spells(payload, at, EncodedValue(v), ignored) /\ Len(EncodedValue(v)) = 1
    BY <1>1, <1>6, <2>2, <2>4, <2>5, ValueParts
  <2>7. QED
    BY <1>3, <2>1, <2>4, <2>6 DEF v
<1>7. QED
  BY <1>5, <1>6

\* A value that was written is taken for what it was.
LEMMA ValueFound ==
  ASSUME Inside, NEW v \in Cell, Spells(payload, at, EncodedValue(v), {})
  PROVE  ValueIsThere /\ ValueRead = v /\ ValueLen = Len(EncodedValue(v))
<1> DEFINE n == Len(v.text)
           a == v.text
<1>1. /\ Inside /\ payload \in Seq(Byte) /\ at \in Nat /\ Len(payload) \in Nat
      /\ 0 \in Nat /\ at + 0 = at
  BY DEF Inside
<1>2. /\ v = [tag |-> v.tag, text |-> a] /\ v.tag \in {Ascii.n, Ascii.u, Ascii.t}
      /\ v.tag # Ascii.t => a = <<>>
      /\ v.tag = Ascii.t => a \in Text
  BY CellIs
<1>3. /\ ValueSpelled(payload, at, v, {})
      /\ Len(EncodedValue(v)) = IF v.tag = Ascii.t THEN 5 + n ELSE 1
  <2>1. n = Len(v.text)
    OBVIOUS
  <2> HIDE DEF n
  <2>2. QED
    BY <1>1, <2>1, ValueParts
<1>4. Has(1) /\ U8(0) = v.tag
  <2>1. Spells(payload, at, <<v.tag>>, {}) /\ v.tag \in Byte
    BY <1>2, <1>3, TagsAre DEF ValueSpelled
  <2>2. Has(0 + 1) /\ U8(0) = v.tag
    BY <1>1, <2>1, ByteFound
  <2>3. QED
    BY <2>2
<1>5. CASE v.tag = Ascii.t
  <2>1. a \in Seq(Byte) /\ n \in Nat /\ n <= MaxInt32 /\ Utf8(a) /\ n = Len(a)
    BY <1>2, <1>5, TextIs
  <2>2. Spells(payload, at + 1, Bytes32(n), {}) /\ Spells(payload, at + 5, a, {})
    BY <1>3, <1>5 DEF ValueSpelled
  <2> HIDE DEF n, a
  <2>3. Has(1 + 4) /\ I32(1) = n
    <3>1. 1 \in Nat
      OBVIOUS
    <3>2. QED
      BY <1>1, <2>1, <2>2, <3>1, LengthFound
  <2>4. Take(5, n) = a
    <3>1. 5 \in Nat
      OBVIOUS
    <3>2. QED
      BY <1>1, <2>1, <2>2, <3>1, TakenAsWritten
  <2>5. (at + 5) + n <= Len(payload)
    BY <2>1, <2>2 DEF Spells
  <2>6. Has(5) /\ n >= 0 /\ n <= Len(payload) - at - 5
    BY <1>1, <2>1, <2>3, <2>5
  <2>7. ValueIsThere
    BY <1>2, <1>4, <2>1, <2>3, <2>4, <2>6 DEF ValueIsThere
  <2>8. ValueRead = v
    BY <1>2, <1>4, <1>5, <2>3, <2>4 DEF ValueRead
  <2>9. ValueLen = 5 + n
    BY <1>4, <1>5, <2>3 DEF ValueLen
  <2>10. QED
    BY <1>3, <1>5, <2>7, <2>8, <2>9
<1>6. CASE v.tag # Ascii.t
  <2>1. ValueIsThere
    BY <1>2, <1>4, <1>6 DEF ValueIsThere
  <2>2. ValueRead = v
    BY <1>2, <1>4, <1>6 DEF ValueRead
  <2>3. ValueLen = 1
    BY <1>4, <1>6 DEF ValueLen
  <2>4. QED
    BY <1>3, <1>6, <2>1, <2>2, <2>3
<1>7. QED
  BY <1>5, <1>6

-----------------------------------------------------------------------------
(* Lists of elements.                                                      *)

\* The encodings of the elements of s, one behind the other.
Mapped(f, s) == [i \in DOMAIN s |-> f[s[i]]]
Listed(f, s) == FlattenSeq(Mapped(f, s))

\* f encodes the elements of D.
IsCode(f, D) == f \in [D -> Seq(Byte)]

\* They are parts.
MappedIs(parts, f, s) ==
    /\ parts \in Seq(Seq(Byte)) /\ Len(parts) = Len(s)
    /\ \A i \in 1..Len(s) : parts[i] = f[s[i]]

\* Encoding every element of a sequence gives one part per element.
LEMMA MappedType ==
  ASSUME NEW D, NEW f, IsCode(f, D), NEW s \in Seq(D)
  PROVE  MappedIs(Mapped(f, s), f, s)
<1>1. \A i \in 1..Len(s) : s[i] \in D
  BY ElementsAre
<1>2. Mapped(f, s) = [i \in 1..Len(s) |-> f[s[i]]] /\ Len(s) \in Nat
  BY DEF Mapped
<1>3. QED
  BY <1>1, <1>2 DEF MappedIs, IsCode

\* One more element comes behind the others.
LEMMA ListGrows ==
  ASSUME NEW D, NEW f, IsCode(f, D), NEW s \in Seq(D), NEW d \in D
  PROVE  /\ Listed(f, s) \in Seq(Byte)
         /\ Listed(f, Append(s, d)) = Listed(f, s) \o f[d]
<1> DEFINE more == Append(s, d)
           e == f[d]
           parts == Mapped(f, s)
           ext == Mapped(f, more)
           long == Append(parts, e)
<1>1. /\ more \in Seq(D) /\ Len(more) = Len(s) + 1 /\ Len(s) \in Nat
      /\ more[Len(s) + 1] = d /\ \A i \in 1..Len(s) : more[i] = s[i]
  OBVIOUS
<1>2. e \in Seq(Byte)
  BY DEF IsCode
<1> HIDE DEF more, e, ext, long
<1>3. /\ parts \in Seq(Seq(Byte)) /\ Len(parts) = Len(s)
      /\ \A i \in 1..Len(s) : parts[i] = f[s[i]]
  <2>1. MappedIs(parts, f, s)
    BY MappedType
  <2>2. QED
    BY <2>1 DEF MappedIs
<1> HIDE DEF parts
<1> USE DEF ext
<1>4. /\ ext \in Seq(Seq(Byte)) /\ Len(ext) = Len(more)
      /\ \A i \in 1..Len(more) : ext[i] = f[more[i]]
  <2>1. MappedIs(ext, f, more)
    BY <1>1, MappedType
  <2>2. QED
    BY <2>1 DEF MappedIs
<1>5. e = f[d]
  BY DEF e
<1> HIDE DEF ext
<1> USE DEF long
<1>6. /\ long \in Seq(Seq(Byte)) /\ Len(long) = Len(s) + 1
      /\ long[Len(s) + 1] = e /\ \A i \in 1..Len(s) : long[i] = parts[i]
  BY <1>2, <1>3
<1> HIDE DEF long
<1>7. ASSUME NEW i \in 1..Len(long)
      PROVE  long[i] = ext[i]
  <2>1. CASE i \in 1..Len(s)
    <3>1. long[i] = parts[i] /\ parts[i] = f[s[i]] /\ more[i] = s[i]
      BY <1>1, <1>3, <1>6, <2>1
    <3>2. i \in 1..Len(more)
      BY <1>1, <2>1
    <3>3. ext[i] = f[more[i]]
      BY <1>4, <3>2
    <3>4. QED
      BY <3>1, <3>3
  <2>2. CASE i = Len(s) + 1
    BY <1>1, <1>4, <1>5, <1>6, <2>2
  <2>3. QED
    BY <1>1, <1>6, <2>1, <2>2
<1>8. long = ext
  BY <1>1, <1>4, <1>6, <1>7, SeqEqual
<1>9. FlattenSeq(long) = FlattenSeq(parts) \o e
  BY <1>2, <1>3, FlattenAppend DEF long
<1>10. FlattenSeq(parts) \in Seq(Byte)
  BY <1>3, FlattenSeqType
<1>11. QED
  BY <1>8, <1>9, <1>10 DEF Listed, long, ext, more, parts, e

\* An element has a place.
LEMMA ListSplits ==
  ASSUME NEW D, NEW f, IsCode(f, D), NEW s \in Seq(D), NEW k \in 1..Len(s)
  PROVE  /\ SubSeq(s, 1, k - 1) \in Seq(D) /\ Listed(f, SubSeq(s, 1, k - 1)) \in Seq(Byte)
         /\ s[k] \in D
         /\ Starts(Listed(f, SubSeq(s, 1, k - 1)) \o f[s[k]], Listed(f, s))
<1> DEFINE before == SubSeq(s, 1, k - 1)
           parts == Mapped(f, s)
           front == Mapped(f, before)
           first == SubSeq(parts, 1, k - 1)
<1>1. /\ before \in Seq(D) /\ Len(before) = k - 1 /\ k \in Nat /\ k - 1 \in Nat
      /\ \A i \in 1..(k - 1) : before[i] = s[i]
  OBVIOUS
<1>2. s[k] \in D
  OBVIOUS
<1>3. /\ parts \in Seq(Seq(Byte)) /\ Len(parts) = Len(s)
      /\ \A i \in 1..Len(s) : parts[i] = f[s[i]]
  <2>1. MappedIs(parts, f, s)
    BY MappedType
  <2>2. QED
    BY <2>1 DEF MappedIs
<1> HIDE DEF before, parts
<1>4. /\ front \in Seq(Seq(Byte)) /\ Len(front) = Len(before)
      /\ \A i \in 1..Len(before) : front[i] = f[before[i]]
  <2>1. before \in Seq(D)
    BY <1>1
  <2>2. MappedIs(front, f, before)
    BY <2>1, MappedType
  <2>3. QED
    BY <2>2 DEF MappedIs
<1> HIDE DEF front
<1>5. /\ first \in Seq(Seq(Byte)) /\ Len(first) = k - 1
      /\ \A i \in 1..(k - 1) : first[i] = parts[i]
  BY <1>1, <1>3
<1> HIDE DEF first
<1>6. \A i \in 1..(k - 1) : i \in 1..Len(s)
  OBVIOUS
<1>7. \A i \in 1..(k - 1) : first[i] = front[i]
  <2>1. ASSUME NEW i \in 1..(k - 1)
        PROVE  first[i] = front[i]
    <3>1. first[i] = parts[i]
      BY <1>5
    <3>2. parts[i] = f[s[i]]
      BY <1>3, <1>6
    <3>3. i \in 1..Len(before)
      BY <1>1
    <3>4. front[i] = f[before[i]]
      BY <1>4, <3>3
    <3>5. before[i] = s[i]
      BY <1>1
    <3>6. QED
      BY <3>1, <3>2, <3>4, <3>5
  <2>2. QED
    BY <2>1
<1>8. first = front
  BY <1>1, <1>4, <1>5, <1>7, SeqEqual
<1>9. k \in 1..Len(parts)
  BY <1>3
<1>10. PICK rest \in Seq(Byte) : FlattenSeq(parts) = (FlattenSeq(first) \o parts[k]) \o rest
  BY <1>3, <1>9, FlattenSplit DEF first
<1>11. parts[k] = f[s[k]]
  BY <1>3
<1>12. FlattenSeq(front) \in Seq(Byte)
  BY <1>4, FlattenSeqType
<1>13. Listed(f, s) = FlattenSeq(parts) /\ Listed(f, before) = FlattenSeq(front)
  BY DEF Listed, parts, front
<1>14. Listed(f, s) = (Listed(f, before) \o f[s[k]]) \o rest
  BY <1>8, <1>10, <1>11, <1>13
<1>15. Starts(Listed(f, before) \o f[s[k]], Listed(f, s))
  BY <1>14 DEF Starts
<1>16. before \in Seq(D) /\ Listed(f, before) \in Seq(Byte)
  BY <1>1, <1>12, <1>13
<1>17. QED
  BY <1>2, <1>15, <1>16 DEF before

\* No element, nothing.
LEMMA ListStarts ==
  ASSUME NEW f
  PROVE  Listed(f, <<>>) = <<>>
<1>1. Mapped(f, <<>>) = <<>>
  BY DEF Mapped
<1>2. <<>> \in Seq(Seq(Byte)) /\ Len(<<>>) = 0
  OBVIOUS
<1> DEFINE z == <<>>
<1>3. PICK g : Joins(g, z, Byte)
  BY <1>2, JoiningExists
<1>4. FlattenSeq(z) = g[Len(z)]
  BY <1>2, <1>3, JoiningFlattens
<1>5. g[0] = <<>>
  BY <1>3 DEF Joins
<1>6. QED
  BY <1>1, <1>2, <1>4, <1>5 DEF Listed

\* The lists of a message are such lists.
ColumnCode == [c \in Column |-> EncodedColumn(c)]
ValueCode == [v \in Cell |-> EncodedValue(v)]
IdCode == [b \in Bytes(4) |-> b]

\* Columns, values and identifiers are encoded one by one.
LEMMA Codes ==
  /\ IsCode(ColumnCode, Column) /\ \A c \in Column : ColumnCode[c] = EncodedColumn(c)
  /\ IsCode(ValueCode, Cell) /\ \A v \in Cell : ValueCode[v] = EncodedValue(v)
  /\ IsCode(IdCode, Bytes(4)) /\ \A b \in Bytes(4) : IdCode[b] = b
<1>1. \A c \in Column : EncodedColumn(c) \in Seq(Byte)
  <2>1. <<>> \in Seq(Byte) /\ 0 \in Nat
    OBVIOUS
  <2>2. QED
    BY <2>1, ColumnParts
<1>2. \A v \in Cell : EncodedValue(v) \in Seq(Byte)
  <2>1. <<>> \in Seq(Byte) /\ 0 \in Nat
    OBVIOUS
  <2>2. QED
    BY <2>1, ValueParts
<1>3. \A b \in Bytes(4) : b \in Seq(Byte)
  BY BytesIs
<1>4. QED
  BY <1>1, <1>2, <1>3 DEF ColumnCode, ValueCode, IdCode, IsCode

\* The columns, values and identifiers of a message are such lists.
LEMMA ListsAre ==
  /\ \A cs \in Seq(Column) : EncodedColumns(cs) = Listed(ColumnCode, cs)
  /\ \A vs \in Seq(Cell) : EncodedValues(vs) = Listed(ValueCode, vs)
  /\ \A ids \in Seq(Bytes(4)) : FlattenSeq(ids) = Listed(IdCode, ids)
<1>1. ASSUME NEW cs \in Seq(Column)
      PROVE  EncodedColumns(cs) = Listed(ColumnCode, cs)
  <2>1. \A i \in DOMAIN cs : EncodedColumn(cs[i]) = ColumnCode[cs[i]]
    BY Codes
  <2>2. [i \in DOMAIN cs |-> EncodedColumn(cs[i])] = Mapped(ColumnCode, cs)
    BY <2>1 DEF Mapped
  <2>3. QED
    BY <2>2 DEF EncodedColumns, Listed
<1>2. ASSUME NEW vs \in Seq(Cell)
      PROVE  EncodedValues(vs) = Listed(ValueCode, vs)
  <2>1. \A i \in DOMAIN vs : EncodedValue(vs[i]) = ValueCode[vs[i]]
    BY Codes
  <2>2. [i \in DOMAIN vs |-> EncodedValue(vs[i])] = Mapped(ValueCode, vs)
    BY <2>1 DEF Mapped
  <2>3. QED
    BY <2>2 DEF EncodedValues, Listed
<1>3. ASSUME NEW ids \in Seq(Bytes(4))
      PROVE  FlattenSeq(ids) = Listed(IdCode, ids)
  <2>1. \A i \in DOMAIN ids : ids[i] = IdCode[ids[i]]
    BY Codes
  <2>2. ids = Mapped(IdCode, ids)
    BY <2>1 DEF Mapped
  <2>3. QED
    BY <2>2 DEF Listed
<1>4. QED
  BY <1>1, <1>2, <1>3

-----------------------------------------------------------------------------
(* The invariant.                                                          *)

\* The first k bytes of p are s, but for the bytes that are dropped.
Laid(p, k, s, dropped) == Len(s) = k /\ Spells(p, 0, s, dropped)

\* The bytes up to the cursor are s.
Wrote(s) == Laid(payload, at, s, ignored)

\* Rows whose old tuple, or whose new one, is being read.
OldRows == Rows({Ascii.U, Ascii.D}, {Ascii.O, Ascii.K}, Tuple, {<<>>})
NewRows ==
    Rows({Ascii.I, Ascii.U}, {Ascii.N}, {<<>>}, Tuple)
    \cup Rows({Ascii.U}, {Ascii.O, Ascii.K}, Tuple, Tuple)

\* What is left to read behind an old tuple.
BehindOld(m) == IF m.kind = Ascii.D THEN <<>> ELSE << <<"tag", "">>, <<"count", "new">> >>

\* A row message with an old tuple.
WithOld(m) ==
    m \in Rows({Ascii.U}, {Ascii.O, Ascii.K}, Tuple, Tuple)
          \cup Rows({Ascii.D}, {Ascii.O, Ascii.K}, Tuple, {<<>>})

\* The places in a message, each with the bytes that lead to it.
AtKind == todo = << <<"kind", "">> >> /\ Wrote(<<>>) /\ reserved = 0 /\ ignored = {}

InBody(k) ==
    /\ todo = << <<Body(k), "">> >> /\ msg = [kind |-> k] /\ Wrote(<<k>>)
    /\ reserved = 0 /\ ignored = {}

AtBody == \E k \in Supported : InBody(k)

AtColumn ==
    /\ todo = << <<"column", "">> >> /\ left > 0 /\ reserved <= MaxInt16
    /\ msg \in Relations /\ Len(msg.columns) + left <= MaxInt16
    /\ Wrote(RelationHead(msg, Len(msg.columns) + left) \o EncodedColumns(msg.columns))

AtRelationId ==
    /\ todo = << <<"relation_id", "">> >> /\ left > 0 /\ reserved = 0
    /\ msg \in Truncates /\ Len(msg.relation_ids) + left <= MaxInt32
    /\ Wrote(TruncateHead(msg, Len(msg.relation_ids) + left) \o FlattenSeq(msg.relation_ids))

AtOldCount ==
    /\ msg \in OldRows /\ msg.old = <<>> /\ reserved = 0
    /\ todo = << <<"count", "old">> >> \o BehindOld(msg)
    /\ Wrote(RowHead(msg))

AtOldValue ==
    /\ msg \in OldRows /\ left > 0 /\ reserved <= MaxInt16
    /\ Len(msg.old) + left <= MaxInt16
    /\ todo = << <<"value", "old">> >> \o BehindOld(msg)
    /\ Wrote(RowHead(msg) \o EncodedTuple(Len(msg.old) + left, msg.old))

AtTag ==
    /\ msg \in OldRows /\ msg.kind = Ascii.U /\ reserved <= MaxInt16
    /\ todo = << <<"tag", "">>, <<"count", "new">> >>
    /\ Wrote(OldPart(msg))

AtNewCount ==
    /\ msg \in NewRows /\ msg.new = <<>> /\ reserved <= MaxInt16
    /\ todo = << <<"count", "new">> >>
    /\ Wrote(NewHead(msg))

AtNewValue ==
    /\ msg \in NewRows /\ left > 0 /\ Len(msg.new) + left <= MaxInt16
    /\ todo = << <<"value", "new">> >>
    /\ Wrote(NewHead(msg) \o EncodedTuple(Len(msg.new) + left, msg.new))

AtEnd == todo = <<>> /\ msg \in Message /\ Wrote(Encoded(msg))

Somewhere ==
    \/ AtKind \/ AtBody \/ AtColumn \/ AtRelationId \/ AtOldCount \/ AtOldValue
    \/ AtTag \/ AtNewCount \/ AtNewValue \/ AtEnd

\* The decoder is at one of these places, has worked no longer than it has
\* read, and has accepted only at the end of the payload.
InBounds ==
    /\ payload \in Seq(Byte) /\ at \in 0..Len(payload)
    /\ left \in Nat /\ reserved \in Nat /\ reserved <= 2 * MaxInt16
    /\ reads \in Nat /\ reads <= at + 1
    /\ ignored \subseteq 1..Len(payload)
    /\ result \in {"reading", "ok", "decode", "unsupported"}

IInv ==
    /\ InBounds
    /\ result = "reading" => reads <= at /\ Somewhere
    /\ result = "ok" => AtEnd /\ at = Len(payload)

\* What is read of a message when x elements of its list are.
ColumnsSoFar(m, x) == [m EXCEPT !.columns = SubSeq(m.columns, 1, x)]
IdsSoFar(m, x) == [m EXCEPT !.relation_ids = SubSeq(m.relation_ids, 1, x)]
OldSoFar(m, x) == [m EXCEPT !.old = SubSeq(m.old, 1, x), !.new = <<>>]
NewSoFar(m, x) == [m EXCEPT !.new = SubSeq(m.new, 1, x)]

\* The decoder is on the way to m: what it has read so far is of m, and what it
\* has to do is the rest.
Toward(m) ==
    \/ todo = << <<"kind", "">> >>
    \/ todo = << <<Body(m.kind), "">> >> /\ msg = [kind |-> m.kind]
    \/ /\ todo = << <<"column", "">> >> /\ m \in Relations
       /\ \E x \in Nat : left = Len(m.columns) - x /\ left > 0 /\ msg = ColumnsSoFar(m, x)
    \/ /\ todo = << <<"relation_id", "">> >> /\ m \in Truncates
       /\ \E x \in Nat : left = Len(m.relation_ids) - x /\ left > 0 /\ msg = IdsSoFar(m, x)
    \/ /\ todo = << <<"count", "old">> >> \o BehindOld(m) /\ WithOld(m)
       /\ msg = OldSoFar(m, 0)
    \/ /\ todo = << <<"value", "old">> >> \o BehindOld(m) /\ WithOld(m)
       /\ \E x \in Nat : left = Len(m.old) - x /\ left > 0 /\ msg = OldSoFar(m, x)
    \/ /\ todo = << <<"tag", "">>, <<"count", "new">> >> /\ WithOld(m) /\ m.kind = Ascii.U
       /\ msg = OldSoFar(m, Len(m.old))
    \/ todo = << <<"count", "new">> >> /\ m \in NewRows /\ msg = NewSoFar(m, 0)
    \/ /\ todo = << <<"value", "new">> >> /\ m \in NewRows
       /\ \E x \in Nat : left = Len(m.new) - x /\ left > 0 /\ msg = NewSoFar(m, x)
    \/ todo = <<>> /\ msg = m

\* A payload that is the image of m is never refused, and leads to m.
OnTheWay(m) ==
    payload = Encoded(m) =>
        /\ result = "reading" => Toward(m)
        /\ result = "ok" => msg = m
        /\ result \in {"reading", "ok"}

CInv == \A m \in Messages : OnTheWay(m)

-----------------------------------------------------------------------------
(* What is laid down by reading a head.                                    *)

\* One part more is laid.
LEMMA LaidNext ==
  ASSUME NEW p \in Seq(Byte), NEW k \in Nat, NEW s, NEW e, NEW dropped, Laid(p, k, s, dropped),
         Spells(p, k, e, dropped), NEW q, q = k + Len(e)
  PROVE  /\ Laid(p, q, s \o e, dropped) /\ s \in Seq(Byte) /\ e \in Seq(Byte)
         /\ q \in Nat /\ q <= Len(p)
<1>1. /\ s \in Seq(Byte) /\ e \in Seq(Byte) /\ Len(s) = k /\ Len(e) \in Nat
      /\ Spells(p, 0, s, dropped) /\ k + Len(e) <= Len(p) /\ Len(p) \in Nat
  BY DEF Laid, Spells
<1>2. 0 \in Nat /\ k = 0 + Len(s)
  BY <1>1
<1>3. Spells(p, 0, s \o e, dropped) /\ Len(s \o e) = Len(s) + Len(e)
  BY <1>1, <1>2, SpellsNext
<1>4. QED
  BY <1>1, <1>3 DEF Laid

\* Nothing is laid before anything is read.
LEMMA LaidNothing ==
  ASSUME NEW p \in Seq(Byte)
  PROVE  Laid(p, 0, <<>>, {})
<1>1. <<>> \in Seq(Byte) /\ Len(<<>>) = 0
  OBVIOUS
<1> DEFINE z == <<>>
<1>2. z \in Seq(Byte) /\ Len(z) = 0
  BY <1>1
<1> HIDE DEF z
<1>3. Laid(p, 0, z, {})
  BY <1>2 DEF Laid, Spells
<1>4. QED
  BY <1>3 DEF z

\* Dropping more does no harm.
LEMMA LaidMore ==
  ASSUME NEW p, NEW k, NEW s, NEW dropped, NEW more, Laid(p, k, s, dropped),
         dropped \subseteq more
  PROVE  Laid(p, k, s, more)
BY DEF Laid, Spells

\* A field behind what is laid.
LEMMA FieldLaid ==
  ASSUME Inside, NEW k \in Nat, NEW n \in Nat, Has(k + n), NEW s,
         NEW b, b = at + k, Laid(payload, b, s, ignored), NEW q, q = b + n
  PROVE  /\ Laid(payload, q, s \o Take(k, n), ignored) /\ Take(k, n) \in Bytes(n)
         /\ q \in Nat /\ s \in Seq(Byte)
<1>1. b \in Nat /\ payload \in Seq(Byte)
  BY DEF Inside
<1> DEFINE e == Take(k, n)
<1>2. e \in Bytes(n) /\ Len(e) = n /\ Spells(payload, b, e, ignored)
  BY Taken
<1> HIDE DEF e
<1>3. Laid(payload, q, s \o e, ignored) /\ q \in Nat /\ s \in Seq(Byte)
  BY <1>1, <1>2, LaidNext
<1>4. QED
  BY <1>2, <1>3 DEF e

\* A byte behind it.
LEMMA ByteLaid ==
  ASSUME Inside, NEW k \in Nat, Has(k + 1), NEW s,
         NEW b, b = at + k, Laid(payload, b, s, ignored), NEW q, q = b + 1
  PROVE  /\ Laid(payload, q, s \o <<U8(k)>>, ignored) /\ U8(k) \in Byte
         /\ q \in Nat /\ s \in Seq(Byte)
<1>1. b \in Nat /\ payload \in Seq(Byte)
  BY DEF Inside
<1> DEFINE x == U8(k)
           e == <<x>>
<1>2. x \in Byte /\ Spells(payload, b, e, ignored)
  BY ByteTaken
<1>3. Len(e) = 1
  OBVIOUS
<1> HIDE DEF e
<1>4. Laid(payload, q, s \o e, ignored) /\ q \in Nat /\ s \in Seq(Byte)
  BY <1>1, <1>2, <1>3, LaidNext
<1>5. QED
  BY <1>2, <1>4 DEF e

\* A string and its terminator behind it.
LEMMA StringLaid ==
  ASSUME Inside, NEW k \in Nat, IsCstr(k), NEW s,
         NEW b, b = at + k, Laid(payload, b, s, ignored), NEW q, q = b + CstrLen(k) + 1
  PROVE  /\ Laid(payload, q, s \o Cstr(k) \o <<0>>, ignored) /\ Cstr(k) \in Seq(Letters)
         /\ q \in Nat /\ CstrLen(k) \in Nat /\ q <= Len(payload)
<1>1. b \in Nat /\ payload \in Seq(Byte)
  BY DEF Inside
<1> DEFINE n == CstrLen(k)
           e == Cstr(k)
           z == <<0>>
<1>2. /\ e \in Seq(Letters) /\ n \in Nat /\ Len(e) = n
      /\ Spells(payload, b, e, ignored) /\ Spells(payload, b + n, z, ignored)
  <2>1. Spells(payload, at + k, e, ignored) /\ Spells(payload, at + k + n, z, ignored)
    BY StringRead
  <2>2. e \in Seq(Letters) /\ n \in Nat /\ Len(e) = n
    BY StringRead
  <2>3. QED
    BY <2>1, <2>2
<1>3. Len(z) = 1
  OBVIOUS
<1> HIDE DEF n, e, z
<1> DEFINE r == b + n
<1>4. r = b + Len(e) /\ q = r + Len(z)
  BY <1>2, <1>3 DEF n
<1>5. Spells(payload, r, z, ignored)
  BY <1>2
<1> HIDE DEF r
<1>6. Laid(payload, r, s \o e, ignored) /\ r \in Nat
  BY <1>1, <1>2, <1>4, LaidNext
<1> DEFINE u == s \o e
<1>7. Laid(payload, r, u, ignored)
  BY <1>6
<1>8. u = s \o e
  OBVIOUS
<1> HIDE DEF u
<1>9. Laid(payload, q, u \o z, ignored) /\ q \in Nat /\ q <= Len(payload)
  BY <1>1, <1>4, <1>5, <1>6, <1>7, LaidNext
<1>10. QED
  BY <1>2, <1>8, <1>9 DEF n, e, z

\* The bytes behind the letters.
LEMMA AsciiIs ==
  /\ Ascii.B = 66 /\ Ascii.C = 67 /\ Ascii.R = 82 /\ Ascii.I = 73 /\ Ascii.U = 85
  /\ Ascii.D = 68 /\ Ascii.T = 84 /\ Ascii.N = 78 /\ Ascii.O = 79 /\ Ascii.K = 75
BY DEF Ascii

\* What is encoded, kind by kind.
LEMMA EncodedKinds ==
  ASSUME NEW m
  PROVE  /\ m.kind = Ascii.B => Encoded(m) = EncodedBegin(m)
         /\ m.kind = Ascii.C => Encoded(m) = EncodedCommit(m)
         /\ m.kind = Ascii.R => Encoded(m) = EncodedRelation(m)
         /\ m.kind = Ascii.T => Encoded(m) = EncodedTruncate(m)
         /\ m.kind = Ascii.D => Encoded(m) = OldPart(m)
         /\ m.kind \in {Ascii.I, Ascii.U} => Encoded(m) = EncodedNew(m)
BY AsciiIs DEF Encoded

\* The fields of a begin message.
BeginRead ==
    [kind |-> Ascii.B, final_lsn |-> Take(0, 8), commit_timestamp |-> Take(8, 8),
     xid |-> Take(16, 4)]

\* The fields taken behind the kind are a begin message, and its bytes are
\* those up to the new cursor.
LEMMA BeginLaid ==
  ASSUME Inside, Has(20), Wrote(<<Ascii.B>>)
  PROVE  BeginRead \in Begins /\ Laid(payload, at + 20, Encoded(BeginRead), ignored)
<1> DEFINE x == Take(0, 8)
           y == Take(8, 8)
           z == Take(16, 4)
           s0 == <<Ascii.B>>
           s1 == s0 \o x
           s2 == s1 \o y
           s3 == s2 \o z
           p == at + 8
           q == at + 16
           r == at + 20
<1>1. /\ Inside /\ at = at + 0 /\ p = at + 8 /\ q = p + 8 /\ q = at + 16 /\ r = q + 4
      /\ Has(0 + 8) /\ Has(8 + 8) /\ Has(16 + 4)
      /\ 0 \in Nat /\ 4 \in Nat /\ 8 \in Nat /\ 16 \in Nat
  BY DEF Inside, Has
<1>2. Laid(payload, at, s0, ignored)
  BY DEF Wrote
<1>3. BeginRead = [kind |-> Ascii.B, final_lsn |-> x, commit_timestamp |-> y, xid |-> z]
  BY DEF BeginRead
<1>4. r = at + 20
  OBVIOUS
<1>5. Encoded(BeginRead) = s3
  <2> DEFINE m == [kind |-> Ascii.B, final_lsn |-> x, commit_timestamp |-> y, xid |-> z]
  <2>1. m.kind = Ascii.B /\ m.final_lsn = x /\ m.commit_timestamp = y /\ m.xid = z
    OBVIOUS
  <2> HIDE DEF m, x, y, z
  <2>2. Encoded(m) = EncodedBegin(m)
    BY <2>1, EncodedKinds
  <2>3. Encoded(m) = s3
    BY <2>1, <2>2 DEF EncodedBegin
  <2>4. QED
    BY <1>3, <2>3 DEF m
<1> HIDE DEF p, q, r, s0
<1>6. Laid(payload, p, s1, ignored) /\ x \in Bytes(8)
  BY <1>1, <1>2, FieldLaid
<1> HIDE DEF s1, x
<1>7. Laid(payload, q, s2, ignored) /\ y \in Bytes(8)
  BY <1>1, <1>6, FieldLaid
<1> HIDE DEF s2, y
<1>8. Laid(payload, r, s3, ignored) /\ z \in Bytes(4)
  BY <1>1, <1>7, FieldLaid
<1> HIDE DEF s3, z
<1>9. BeginRead \in Begins
  BY <1>3, <1>6, <1>7, <1>8 DEF Begins
<1>10. QED
  BY <1>4, <1>5, <1>8, <1>9

\* The fields of a commit message.
CommitRead ==
    [kind |-> Ascii.C, flags |-> U8(0), commit_lsn |-> Take(1, 8), end_lsn |-> Take(9, 8),
     commit_timestamp |-> Take(17, 8)]

\* The fields taken behind the kind are a commit message, and its bytes are
\* those up to the new cursor.
LEMMA CommitLaid ==
  ASSUME Inside, Has(25), Wrote(<<Ascii.C>>)
  PROVE  CommitRead \in Commits /\ Laid(payload, at + 25, Encoded(CommitRead), ignored)
<1> DEFINE f == U8(0)
           x == Take(1, 8)
           y == Take(9, 8)
           z == Take(17, 8)
           s0 == <<Ascii.C>>
           s1 == s0 \o <<f>>
           s2 == s1 \o x
           s3 == s2 \o y
           s4 == s3 \o z
           o == at + 1
           p == at + 9
           q == at + 17
           r == at + 25
<1>1. /\ Inside /\ at = at + 0 /\ o = at + 1 /\ p = o + 8 /\ p = at + 9 /\ q = p + 8
      /\ q = at + 17 /\ r = q + 8
      /\ Has(0 + 1) /\ Has(1 + 8) /\ Has(9 + 8) /\ Has(17 + 8)
      /\ 0 \in Nat /\ 1 \in Nat /\ 8 \in Nat /\ 9 \in Nat /\ 17 \in Nat
  BY DEF Inside, Has
<1>2. Laid(payload, at, s0, ignored)
  BY DEF Wrote
<1>3. CommitRead = [kind |-> Ascii.C, flags |-> f, commit_lsn |-> x, end_lsn |-> y,
                    commit_timestamp |-> z]
  BY DEF CommitRead
<1>4. r = at + 25
  OBVIOUS
<1>5. Encoded(CommitRead) = s4
  <2> DEFINE m == [kind |-> Ascii.C, flags |-> f, commit_lsn |-> x, end_lsn |-> y,
                   commit_timestamp |-> z]
  <2>1. /\ m.kind = Ascii.C /\ m.flags = f /\ m.commit_lsn = x /\ m.end_lsn = y
        /\ m.commit_timestamp = z
    OBVIOUS
  <2> HIDE DEF m, f, x, y, z
  <2>2. Encoded(m) = EncodedCommit(m)
    BY <2>1, EncodedKinds
  <2>3. Encoded(m) = s4
    BY <2>1, <2>2 DEF EncodedCommit
  <2>4. QED
    BY <1>3, <2>3 DEF m
<1> HIDE DEF o, p, q, r, s0
<1>6. Laid(payload, o, s1, ignored) /\ f \in Byte
  BY <1>1, <1>2, ByteLaid
<1> HIDE DEF s1, f
<1>7. Laid(payload, p, s2, ignored) /\ x \in Bytes(8)
  BY <1>1, <1>6, FieldLaid
<1> HIDE DEF s2, x
<1>8. Laid(payload, q, s3, ignored) /\ y \in Bytes(8)
  BY <1>1, <1>7, FieldLaid
<1> HIDE DEF s3, y
<1>9. Laid(payload, r, s4, ignored) /\ z \in Bytes(8)
  BY <1>1, <1>8, FieldLaid
<1> HIDE DEF s4, z
<1>10. CommitRead \in Commits
  BY <1>3, <1>6, <1>7, <1>8, <1>9 DEF Commits
<1>11. QED
  BY <1>4, <1>5, <1>9, <1>10

\* The head of a relation message.
LEMMA RelationLaid ==
  ASSUME Inside, HeaderIsThere, Wrote(<<Ascii.R>>), msg.kind = Ascii.R
  PROVE  /\ RelationRead \in Relations /\ RelationRead.columns = <<>>
         /\ I16(HeaderLen + 1) \in Nat /\ I16(HeaderLen + 1) <= MaxInt16
         /\ HeaderLen \in Nat /\ at + (HeaderLen + 3) <= Len(payload)
         /\ Laid(payload, at + (HeaderLen + 3), RelationHead(RelationRead, I16(HeaderLen + 1)),
                 ignored)
<1> DEFINE c1 == CstrLen(4)
           k2 == 4 + c1 + 1
           c2 == CstrLen(k2)
           h == k2 + c2 + 1
           g == h + 1
           n == I16(g)
           id == Take(0, 4)
           ns == Cstr(4)
           nm == Cstr(k2)
           ri == U8(h)
           nn == Take(g, 2)
           s0 == <<Ascii.R>>
           s1 == s0 \o id
           s2 == s1 \o ns \o <<0>>
           s3 == s2 \o nm \o <<0>>
           s4 == s3 \o <<ri>>
           s5 == s4 \o nn
           p1 == at + 4
           p2 == at + k2
           p3 == at + h
           p4 == at + g
           p5 == at + (h + 3)
<1>1. HeaderLen = h /\ HeaderLen + 1 = g /\ HeaderLen + 3 = h + 3
  BY DEF HeaderLen
<1>2. Has(4) /\ IsCstr(4) /\ IsCstr(k2) /\ Has(h + 3) /\ n >= 0
  BY <1>1 DEF HeaderIsThere
<1>3. RelationRead = [kind |-> Ascii.R, id |-> id, namespace |-> ns, name |-> nm,
                      replica_identity |-> ri, columns |-> <<>>]
  BY <1>1 DEF RelationRead
<1>4. /\ Inside /\ at = at + 0 /\ p1 = at + 4 /\ Has(0 + 4) /\ 0 \in Nat /\ 4 \in Nat
      /\ at \in Nat
  BY <1>2 DEF Inside
<1>5. Laid(payload, at, s0, ignored)
  BY DEF Wrote
<1> DEFINE m == [kind |-> Ascii.R, id |-> id, namespace |-> ns, name |-> nm,
                 replica_identity |-> ri, columns |-> <<>>]
<1>6. RelationHead(m, n) = s4 \o Bytes16(n)
  <2>1. /\ m.kind = Ascii.R /\ m.id = id /\ m.namespace = ns /\ m.name = nm
        /\ m.replica_identity = ri
    OBVIOUS
  <2> HIDE DEF m, id, ns, nm, ri, n
  <2>2. QED
    BY <2>1 DEF RelationHead
<1> HIDE DEF p1, s0
<1>7. Laid(payload, p1, s1, ignored) /\ id \in Bytes(4)
  BY <1>4, <1>5, FieldLaid
<1> HIDE DEF s1, id
<1>8. c1 \in Nat /\ p2 = p1 + c1 + 1 /\ k2 \in Nat
  <2>1. c1 \in Nat
    BY <1>2, <1>4, StringRead
  <2> HIDE DEF c1
  <2>2. QED
    BY <1>4, <2>1
<1> HIDE DEF p2
<1>9. Laid(payload, p2, s2, ignored) /\ ns \in Seq(Letters)
  <2> DEFINE q == p1 + CstrLen(4) + 1
  <2>1. q = p2
    BY <1>8
  <2> HIDE DEF q, s2, ns
  <2>2. Laid(payload, q, s1 \o Cstr(4) \o <<0>>, ignored) /\ Cstr(4) \in Seq(Letters)
    BY <1>2, <1>4, <1>7, StringLaid DEF q
  <2>3. QED
    BY <2>1, <2>2 DEF s2, ns
<1>10. p2 = at + k2
  BY DEF p2
<1> HIDE DEF s2, ns, k2, c1
<1>11. c2 \in Nat /\ p3 = p2 + c2 + 1 /\ h \in Nat /\ g \in Nat
  <2>1. c2 \in Nat
    BY <1>2, <1>4, <1>8, StringRead
  <2> HIDE DEF c2
  <2>2. QED
    BY <1>4, <1>8, <1>10, <2>1
<1> HIDE DEF p3
<1>12. Laid(payload, p3, s3, ignored) /\ nm \in Seq(Letters)
  <2> DEFINE q == p2 + CstrLen(k2) + 1
  <2>1. q = p3
    BY <1>11
  <2> HIDE DEF q, s3, nm
  <2>2. Laid(payload, q, s2 \o Cstr(k2) \o <<0>>, ignored) /\ Cstr(k2) \in Seq(Letters)
    BY <1>2, <1>4, <1>8, <1>9, <1>10, StringLaid DEF q
  <2>3. QED
    BY <2>1, <2>2 DEF s3, nm
<1>13. /\ p3 = at + h /\ p4 = at + g /\ p4 = p3 + 1 /\ p5 = p4 + 2 /\ Has(h + 1) /\ Has(g + 2)
       /\ 2 \in Nat /\ at + (h + 3) <= Len(payload)
  <2>1. p3 = at + h
    BY DEF p3
  <2>2. h \in Nat /\ g = h + 1
    BY <1>11
  <2> HIDE DEF h, g
  <2>3. p4 = at + g /\ p4 = p3 + 1 /\ p5 = p4 + 2
    BY <1>4, <2>1, <2>2
  <2>4. Has(h + 1) /\ Has(g + 2) /\ at + (h + 3) <= Len(payload)
    BY <1>2, <1>4, <2>2 DEF Has, Inside
  <2>5. QED
    BY <2>1, <2>3, <2>4
<1> HIDE DEF s3, nm, c2
<1>14. p5 = at + (h + 3)
  OBVIOUS
<1>15. g \in Nat /\ h \in Nat
  BY <1>11
<1> HIDE DEF p4, p5, h, g
<1>16. Laid(payload, p4, s4, ignored) /\ ri \in Byte
  BY <1>4, <1>12, <1>13, <1>15, ByteLaid
<1> HIDE DEF s4, ri
<1>17. Laid(payload, p5, s5, ignored)
  BY <1>4, <1>13, <1>15, <1>16, FieldLaid
<1>18. n \in Int /\ n <= MaxInt16 /\ Bytes16(n) = nn
  BY <1>2, <1>4, <1>13, <1>15, CountTaken
<1> HIDE DEF nn, n
<1>19. n \in Nat
  BY <1>2, <1>18
<1>20. RelationHead(m, n) = s5
  BY <1>6, <1>18
<1>21. m \in Relations /\ m.columns = <<>>
  <2>1. <<>> \in Seq(Column) /\ Len(<<>>) = 0 /\ 0 <= MaxInt16
    BY DEF MaxInt16
  <2>2. <<>> \in Columns
    BY <2>1 DEF Columns
  <2>3. QED
    BY <1>7, <1>9, <1>12, <1>16, <2>2 DEF Relations
<1> HIDE DEF m, s5
<1>22. RelationRead = m
  BY <1>3 DEF m
<1>23. I16(HeaderLen + 1) = n
  BY <1>1 DEF n
<1>24. HeaderLen = h /\ at + (HeaderLen + 3) = p5
  BY <1>1, <1>14
<1>25. QED
  BY <1>13, <1>15, <1>17, <1>18, <1>19, <1>20, <1>21, <1>22, <1>23, <1>24

\* The head of a row message.
RowRead(k) ==
    [kind |-> k, relation_id |-> Take(0, 4), tag |-> U8(4), old |-> <<>>, new |-> <<>>]

\* The bytes up to the new cursor are the head of the row message.
LEMMA RowLaid ==
  ASSUME Inside, Has(5), NEW k, Wrote(<<k>>)
  PROVE  /\ Take(0, 4) \in Bytes(4)
         /\ Laid(payload, at + 5, RowHead(RowRead(k)), ignored)
<1> DEFINE x == Take(0, 4)
           y == U8(4)
           s0 == <<k>>
           s1 == s0 \o x
           s2 == s1 \o <<y>>
           p == at + 4
           q == at + 5
<1>1. /\ Inside /\ at = at + 0 /\ p = at + 4 /\ q = p + 1 /\ q = at + 5
      /\ Has(0 + 4) /\ Has(4 + 1) /\ 0 \in Nat /\ 4 \in Nat
  BY DEF Inside, Has
<1>2. Laid(payload, at, s0, ignored)
  BY DEF Wrote
<1>3. RowHead(RowRead(k)) = s2
  <2> DEFINE m == [kind |-> k, relation_id |-> x, tag |-> y, old |-> <<>>, new |-> <<>>]
  <2>1. m.kind = k /\ m.relation_id = x /\ m.tag = y
    OBVIOUS
  <2>2. RowRead(k) = m
    BY DEF RowRead
  <2> HIDE DEF m, x, y
  <2>3. QED
    BY <2>1, <2>2 DEF RowHead
<1> HIDE DEF p, q, s0
<1>4. Laid(payload, p, s1, ignored) /\ x \in Bytes(4)
  BY <1>1, <1>2, FieldLaid
<1> HIDE DEF s1, x
<1>5. Laid(payload, q, s2, ignored)
  BY <1>1, <1>4, ByteLaid
<1> HIDE DEF s2
<1>6. QED
  BY <1>1, <1>3, <1>4, <1>5 DEF x

\* The head of a truncate message.
TruncateRead == [kind |-> Ascii.T, relation_ids |-> <<>>]

\* The bytes up to the new cursor, the options aside, are the head of the
\* truncate message with the count that was read.
LEMMA TruncateLaid ==
  ASSUME Inside, Has(5), I32(0) >= 0, Wrote(<<Ascii.T>>)
  PROVE  /\ TruncateRead \in Truncates /\ I32(0) \in Nat /\ I32(0) <= MaxInt32
         /\ Laid(payload, at + 5, TruncateHead(TruncateRead, I32(0)), ignored \cup {at + 5})
<1> DEFINE x == Take(0, 4)
           n == I32(0)
           z == <<0>>
           s0 == <<Ascii.T>>
           s1 == s0 \o x
           s2 == s1 \o z
           p == at + 4
           q == at + 5
           more == ignored \cup {q}
<1>1. /\ Inside /\ at = at + 0 /\ p = at + 4 /\ q = p + 1 /\ q = at + 5 /\ q <= Len(payload)
      /\ p \in Nat /\ payload \in Seq(Byte)
      /\ Has(0 + 4) /\ 0 \in Nat /\ 4 \in Nat
  BY DEF Inside, Has
<1>2. Laid(payload, at, s0, ignored)
  BY DEF Wrote
<1>3. z \in Seq(Byte) /\ Len(z) = 1
  BY ByteIs
<1>4. n \in Int /\ n <= MaxInt32 /\ Bytes32(n) = x
  BY <1>1, LengthTaken
<1>5. TruncateHead(TruncateRead, n) = s2
  <2>1. TruncateRead.kind = Ascii.T
    BY DEF TruncateRead
  <2> HIDE DEF x, n
  <2>2. QED
    BY <1>4, <2>1 DEF TruncateHead
<1>6. TruncateRead \in Truncates
  <2>1. <<>> \in Seq(Bytes(4)) /\ Len(<<>>) = 0 /\ 0 <= MaxInt32
    BY DEF MaxInt32
  <2>2. QED
    BY <2>1 DEF TruncateRead, Truncates
<1>7. n \in Nat
  BY <1>4
<1> HIDE DEF p, q, s0, z
<1>8. Laid(payload, p, s1, ignored)
  BY <1>1, <1>2, FieldLaid
<1> HIDE DEF s1, x
<1>9. Laid(payload, p, s1, more)
  BY <1>8, LaidMore
<1>10. Spells(payload, p, z, more)
  <2>1. \A i \in 1..Len(z) : p + i \in more
    BY <1>1, <1>3
  <2>2. p + Len(z) <= Len(payload)
    BY <1>1, <1>3
  <2>3. QED
    BY <1>3, <2>1, <2>2 DEF Spells
<1> HIDE DEF more
<1>11. Laid(payload, q, s2, more)
  BY <1>1, <1>3, <1>9, <1>10, LaidNext
<1>12. QED
  BY <1>1, <1>4, <1>5, <1>6, <1>7, <1>11 DEF more

-----------------------------------------------------------------------------
(* What is laid down by reading an element.                                *)

\* Heads are bytes.
LEMMA RowHeadType ==
  ASSUME NEW m, m.kind \in Byte, m.relation_id \in Bytes(4), m.tag \in Byte
  PROVE  RowHead(m) \in Seq(Byte) /\ Len(RowHead(m)) = 6
<1> DEFINE a == <<m.kind>>
           b == m.relation_id
           c == <<m.tag>>
           d == a \o b
<1>1. a \in Seq(Byte) /\ Len(a) = 1 /\ c \in Seq(Byte) /\ Len(c) = 1
  OBVIOUS
<1>2. b \in Seq(Byte) /\ Len(b) = 4
  BY BytesIs
<1>3. RowHead(m) = d \o c
  BY DEF RowHead
<1> HIDE DEF a, b, c
<1>4. d \in Seq(Byte) /\ Len(d) = Len(a) + Len(b)
  BY <1>1, <1>2, BothAre
<1> HIDE DEF d
<1>5. d \o c \in Seq(Byte) /\ Len(d \o c) = Len(d) + Len(c)
  BY <1>1, <1>4, BothAre
<1>6. QED
  BY <1>1, <1>2, <1>3, <1>4, <1>5

\* Tuples are bytes, and grow by a value.
LEMMA TupleGrows ==
  ASSUME NEW n \in Nat, n <= MaxInt16, NEW vs \in Seq(Cell), NEW v \in Cell
  PROVE  /\ EncodedTuple(n, vs) \in Seq(Byte)
         /\ EncodedTuple(n, Append(vs, v)) = EncodedTuple(n, vs) \o EncodedValue(v)
<1> DEFINE b == Bytes16(n)
           e == EncodedValue(v)
           more == Append(vs, v)
           l == Listed(ValueCode, vs)
           k == Listed(ValueCode, more)
<1>1. b \in Seq(Byte)
  BY NumberBytes
<1>2. IsCode(ValueCode, Cell) /\ ValueCode[v] = e
  BY Codes
<1>3. l \in Seq(Byte) /\ k = l \o ValueCode[v]
  BY <1>2, ListGrows
<1>4. e \in Seq(Byte)
  BY <1>2 DEF IsCode
<1>5. more \in Seq(Cell)
  OBVIOUS
<1>6. EncodedValues(vs) = l /\ EncodedValues(more) = k
  BY <1>5, ListsAre
<1> HIDE DEF b, e, more, l, k
<1>7. EncodedTuple(n, vs) = b \o l /\ EncodedTuple(n, more) = b \o k
  BY <1>6 DEF EncodedTuple, b
<1>8. k = l \o e
  BY <1>2, <1>3
<1>9. b \o (l \o e) = (b \o l) \o e
  <2>1. Associate(b, l, e)
    BY <1>1, <1>3, <1>4, BytesAssociate
  <2>2. QED
    BY <2>1 DEF Associate
<1>10. b \o l \in Seq(Byte)
  BY <1>1, <1>3
<1>11. QED
  BY <1>7, <1>8, <1>9, <1>10 DEF more, e

\* A tuple of nothing is its count.
LEMMA TupleStarts ==
  ASSUME NEW n \in Nat, n <= MaxInt16
  PROVE  EncodedTuple(n, <<>>) = Bytes16(n)
<1>1. <<>> \in Seq(Cell)
  OBVIOUS
<1>2. EncodedValues(<<>>) = <<>>
  BY <1>1, ListsAre, ListStarts
<1> DEFINE b == Bytes16(n)
<1>3. b \in Seq(Byte)
  BY NumberBytes
<1>4. EncodedTuple(n, <<>>) = b \o <<>>
  BY <1>2 DEF EncodedTuple
<1> HIDE DEF b
<1>5. b \o <<>> = b
  BY <1>3, ConcatEmptySeq
<1>6. QED
  BY <1>4, <1>5 DEF b

\* The count of a tuple behind what is laid.
LEMMA CountLaid ==
  ASSUME Inside, Has(2), I16(0) >= 0, NEW s, Wrote(s)
  PROVE  /\ I16(0) \in Nat /\ I16(0) <= MaxInt16
         /\ Laid(payload, at + 2, s \o EncodedTuple(I16(0), <<>>), ignored)
<1> DEFINE n == I16(0)
           b == Take(0, 2)
           q == at + 2
<1>1. Inside /\ 0 \in Nat /\ 2 \in Nat /\ Has(0 + 2) /\ at = at + 0 /\ q = at + 2
  BY DEF Inside
<1>2. Laid(payload, at, s, ignored)
  BY DEF Wrote
<1>3. n \in Int /\ n <= MaxInt16 /\ Bytes16(n) = b
  BY <1>1, CountTaken
<1> HIDE DEF q
<1>4. Laid(payload, q, s \o b, ignored)
  BY <1>1, <1>2, FieldLaid
<1> HIDE DEF n, b
<1>5. n \in Nat
  BY <1>3 DEF n
<1>6. EncodedTuple(n, <<>>) = b
  BY <1>3, <1>5, TupleStarts
<1>7. QED
  BY <1>3, <1>4, <1>5, <1>6 DEF n, q

\* A value behind what is laid of a tuple.
LEMMA ValueLaid ==
  ASSUME Inside, ValueIsThere, NEW h \in Seq(Byte), NEW vs \in Seq(Cell),
         NEW n \in Nat, n <= MaxInt16, Wrote(h \o EncodedTuple(n, vs))
  PROVE  /\ ValueRead \in Cell /\ ValueLen \in Nat /\ ValueLen >= 1
         /\ at + ValueLen <= Len(payload)
         /\ Laid(payload, at + ValueLen, h \o EncodedTuple(n, Append(vs, ValueRead)), ignored)
<1> DEFINE v == ValueRead
           e == EncodedValue(v)
           t == EncodedTuple(n, vs)
           u == EncodedTuple(n, Append(vs, v))
           q == at + ValueLen
<1>1. payload \in Seq(Byte) /\ at \in Nat
  BY DEF Inside
<1>2. /\ v \in Cell /\ ValueLen = Len(e) /\ ValueLen \in Nat /\ ValueLen >= 1
      /\ q <= Len(payload) /\ Spells(payload, at, e, ignored)
  BY ValueTaken
<1> HIDE DEF v
<1>3. t \in Seq(Byte) /\ u = t \o e
  BY <1>2, TupleGrows
<1>4. Laid(payload, at, h \o t, ignored)
  BY DEF Wrote
<1>5. q = at + Len(e)
  BY <1>2
<1>6. e \in Seq(Byte)
  BY <1>2 DEF Spells
<1> HIDE DEF e, t, u, q
<1> DEFINE s == h \o t
<1>7. Laid(payload, at, s, ignored)
  BY <1>4
<1>8. s = h \o t
  OBVIOUS
<1> HIDE DEF s
<1>9. Laid(payload, q, s \o e, ignored)
  BY <1>1, <1>2, <1>5, <1>7, LaidNext
<1>10. (h \o t) \o e = h \o (t \o e)
  <2>1. Associate(h, t, e)
    BY <1>3, <1>6, BytesAssociate
  <2>2. QED
    BY <2>1 DEF Associate
<1>11. Laid(payload, q, h \o u, ignored)
  BY <1>3, <1>8, <1>9, <1>10
<1>12. QED
  BY <1>2, <1>11 DEF v, u, q

\* A column behind what is laid of a relation.
LEMMA ColumnLaid ==
  ASSUME Inside, ColumnIsThere, NEW h \in Seq(Byte), NEW cs \in Seq(Column),
         Wrote(h \o EncodedColumns(cs))
  PROVE  /\ ColumnRead \in Column /\ ColumnLen \in Nat /\ ColumnLen >= 1
         /\ at + ColumnLen <= Len(payload)
         /\ Laid(payload, at + ColumnLen, h \o EncodedColumns(Append(cs, ColumnRead)),
                 ignored \cup {at + 1})
<1> DEFINE c == ColumnRead
           e == EncodedColumn(c)
           ext == Append(cs, c)
           t == EncodedColumns(cs)
           u == EncodedColumns(ext)
           q == at + ColumnLen
           more == ignored \cup {at + 1}
<1>1. payload \in Seq(Byte) /\ at \in Nat
  BY DEF Inside
<1>2. /\ c \in Column /\ ColumnLen = Len(e) /\ ColumnLen \in Nat /\ ColumnLen >= 1
      /\ q <= Len(payload) /\ Spells(payload, at, e, more)
  BY ColumnTaken
<1> HIDE DEF c
<1>3. IsCode(ColumnCode, Column) /\ ColumnCode[c] = e
  BY <1>2, Codes
<1>4. ext \in Seq(Column)
  BY <1>2
<1>5. t = Listed(ColumnCode, cs) /\ u = Listed(ColumnCode, ext)
  BY <1>4, ListsAre
<1>6. t \in Seq(Byte) /\ u = t \o e
  <2>1. /\ Listed(ColumnCode, cs) \in Seq(Byte)
        /\ Listed(ColumnCode, Append(cs, c)) = Listed(ColumnCode, cs) \o ColumnCode[c]
    BY <1>2, <1>3, ListGrows
  <2>2. QED
    BY <1>3, <1>5, <2>1
<1>7. Laid(payload, at, h \o t, ignored)
  BY DEF Wrote
<1>8. q = at + Len(e)
  BY <1>2
<1>9. e \in Seq(Byte)
  BY <1>2 DEF Spells
<1>10. ignored \subseteq more
  OBVIOUS
<1> HIDE DEF e, t, u, q, more, ext
<1> DEFINE s == h \o t
<1>11. Laid(payload, at, s, ignored)
  BY <1>7
<1>12. s = h \o t
  OBVIOUS
<1> HIDE DEF s
<1>13. Laid(payload, at, s, more)
  BY <1>10, <1>11, LaidMore
<1>14. Laid(payload, q, s \o e, more)
  BY <1>1, <1>2, <1>8, <1>13, LaidNext
<1>15. (h \o t) \o e = h \o (t \o e)
  <2>1. Associate(h, t, e)
    BY <1>6, <1>9, BytesAssociate
  <2>2. QED
    BY <2>1 DEF Associate
<1>16. Laid(payload, q, h \o u, more)
  BY <1>6, <1>12, <1>14, <1>15
<1>17. QED
  BY <1>2, <1>16 DEF c, u, q, more, ext

\* A relation id behind what is laid of a truncate.
LEMMA IdLaid ==
  ASSUME Inside, Has(4), NEW h \in Seq(Byte), NEW ids \in Seq(Bytes(4)),
         Wrote(h \o FlattenSeq(ids))
  PROVE  /\ Take(0, 4) \in Bytes(4)
         /\ Laid(payload, at + 4, h \o FlattenSeq(Append(ids, Take(0, 4))), ignored)
<1> DEFINE e == Take(0, 4)
           ext == Append(ids, e)
           t == FlattenSeq(ids)
           u == FlattenSeq(ext)
           q == at + 4
<1>1. Inside /\ 0 \in Nat /\ 4 \in Nat /\ Has(0 + 4) /\ at = at + 0 /\ q = at + 4
  BY DEF Inside
<1>2. Laid(payload, at, h \o t, ignored)
  BY DEF Wrote
<1> HIDE DEF t, q
<1> DEFINE s == h \o t
<1>3. Laid(payload, at, s, ignored)
  BY <1>2
<1>4. s = h \o t
  OBVIOUS
<1> HIDE DEF s
<1>5. Laid(payload, q, s \o e, ignored) /\ e \in Bytes(4)
  BY <1>1, <1>3, FieldLaid
<1> HIDE DEF e
<1>6. ext \in Seq(Bytes(4))
  BY <1>5
<1>7. IsCode(IdCode, Bytes(4)) /\ IdCode[e] = e
  BY <1>5, Codes
<1>8. t = Listed(IdCode, ids) /\ u = Listed(IdCode, ext)
  BY <1>6, ListsAre DEF t
<1>9. t \in Seq(Byte) /\ u = t \o e
  <2>1. /\ Listed(IdCode, ids) \in Seq(Byte)
        /\ Listed(IdCode, Append(ids, e)) = Listed(IdCode, ids) \o IdCode[e]
    BY <1>5, <1>7, ListGrows
  <2>2. QED
    BY <1>7, <1>8, <2>1
<1>10. e \in Seq(Byte)
  BY <1>5, BytesIs
<1> HIDE DEF u, ext
<1>11. (h \o t) \o e = h \o (t \o e)
  <2>1. Associate(h, t, e)
    BY <1>9, <1>10, BytesAssociate
  <2>2. QED
    BY <2>1 DEF Associate
<1>12. Laid(payload, q, h \o u, ignored)
  BY <1>4, <1>5, <1>9, <1>11
<1>13. QED
  BY <1>5, <1>12 DEF e, u, q, ext

\* Heads of relations and truncates are bytes.
LEMMA RelationHeadType ==
  ASSUME NEW m \in Relations, NEW n \in Nat, n <= MaxInt16
  PROVE  RelationHead(m, n) \in Seq(Byte)
<1> DEFINE k == <<m.kind>>
           i == m.id
           ns == m.namespace
           nm == m.name
           z == <<0>>
           r == <<m.replica_identity>>
           b == Bytes16(n)
<1>1. /\ m.kind \in Byte /\ i \in Bytes(4) /\ ns \in Seq(Letters) /\ nm \in Seq(Letters)
      /\ m.replica_identity \in Byte /\ 0 \in Byte
  <2>1. Ascii.R \in Byte /\ 0 \in Byte
    BY AsciiIs, ByteIs
  <2>2. QED
    BY <2>1 DEF Relations
<1>2. k \in Seq(Byte) /\ z \in Seq(Byte) /\ r \in Seq(Byte)
  BY <1>1
<1>3. RelationHead(m, n) = k \o i \o ns \o z \o nm \o z \o r \o b
  BY DEF RelationHead
<1> HIDE DEF k, z, r
<1>4. i \in Seq(Byte) /\ ns \in Seq(Byte) /\ nm \in Seq(Byte)
  <2>1. i \in Seq(Byte)
    BY <1>1, BytesIs
  <2>2. ns \in Seq(Byte) /\ nm \in Seq(Byte)
    BY <1>1, TextIsBytes
  <2>3. QED
    BY <2>1, <2>2
<1>5. b \in Seq(Byte)
  BY NumberBytes
<1> HIDE DEF i, ns, nm, b
<1>6. k \o i \in Seq(Byte)
  BY <1>2, <1>4, BothAre
<1>7. k \o i \o ns \in Seq(Byte)
  BY <1>4, <1>6, BothAre
<1>8. k \o i \o ns \o z \in Seq(Byte)
  BY <1>2, <1>7, BothAre
<1>9. k \o i \o ns \o z \o nm \in Seq(Byte)
  BY <1>4, <1>8, BothAre
<1>10. k \o i \o ns \o z \o nm \o z \in Seq(Byte)
  BY <1>2, <1>9, BothAre
<1>11. k \o i \o ns \o z \o nm \o z \o r \in Seq(Byte)
  BY <1>2, <1>10, BothAre
<1>12. k \o i \o ns \o z \o nm \o z \o r \o b \in Seq(Byte)
  BY <1>5, <1>11, BothAre
<1>13. QED
  BY <1>3, <1>12

\* The head of a truncate message is bytes.
LEMMA TruncateHeadType ==
  ASSUME NEW m \in Truncates, NEW n \in Nat, n <= MaxInt32
  PROVE  TruncateHead(m, n) \in Seq(Byte)
<1> DEFINE k == <<m.kind>>
           z == <<0>>
           b == Bytes32(n)
<1>1. m.kind \in Byte /\ 0 \in Byte
  <2>1. Ascii.T \in Byte /\ 0 \in Byte
    BY AsciiIs, ByteIs
  <2>2. QED
    BY <2>1 DEF Truncates
<1>2. k \in Seq(Byte) /\ z \in Seq(Byte)
  BY <1>1
<1>3. TruncateHead(m, n) = k \o b \o z
  BY DEF TruncateHead
<1>4. b \in Seq(Byte)
  BY NumberBytes
<1> HIDE DEF k, z, b
<1>5. k \o b \in Seq(Byte)
  BY <1>2, <1>4, BothAre
<1>6. k \o b \o z \in Seq(Byte)
  BY <1>2, <1>5, BothAre
<1>7. QED
  BY <1>3, <1>6

\* What rows hold.
LEMMA RowsAre ==
  /\ \A m \in OldRows : /\ m.kind \in {Ascii.U, Ascii.D} /\ m.tag \in {Ascii.O, Ascii.K}
                        /\ m.kind \in Byte /\ m.tag \in Byte /\ m.relation_id \in Bytes(4)
                        /\ m.old \in Tuple /\ m.new = <<>> /\ m.tag # Ascii.N
  /\ \A m \in NewRows : /\ m.kind \in {Ascii.I, Ascii.U} /\ m.tag \in {Ascii.N, Ascii.O, Ascii.K}
                        /\ m.kind \in Byte /\ m.tag \in Byte /\ m.relation_id \in Bytes(4)
                        /\ m.old \in Tuple /\ m.new \in Tuple
                        /\ m.tag # Ascii.N => m.kind = Ascii.U
  /\ <<>> \in Tuple
<1>1. <<>> \in Tuple
  <2>1. <<>> \in Seq(Cell) /\ Len(<<>>) = 0 /\ 0 <= MaxInt16
    BY DEF MaxInt16
  <2>2. QED
    BY <2>1 DEF Tuple
<1>2. /\ Ascii.I \in Byte /\ Ascii.U \in Byte /\ Ascii.D \in Byte
      /\ Ascii.N \in Byte /\ Ascii.O \in Byte /\ Ascii.K \in Byte
      /\ Ascii.N # Ascii.O /\ Ascii.N # Ascii.K
  BY AsciiIs, ByteIs
<1>3. ASSUME NEW m \in OldRows
      PROVE  /\ m.kind \in {Ascii.U, Ascii.D} /\ m.tag \in {Ascii.O, Ascii.K}
             /\ m.relation_id \in Bytes(4) /\ m.old \in Tuple /\ m.new = <<>>
  BY DEF OldRows, Rows
<1>4. ASSUME NEW m \in NewRows
      PROVE  /\ m.kind \in {Ascii.I, Ascii.U} /\ m.tag \in {Ascii.N, Ascii.O, Ascii.K}
             /\ m.relation_id \in Bytes(4) /\ m.old \in Tuple /\ m.new \in Tuple
             /\ m.tag # Ascii.N => m.kind = Ascii.U
  BY <1>1 DEF NewRows, Rows
<1>5. QED
  BY <1>1, <1>2, <1>3, <1>4

\* Tuples have counts of 16 bits.
LEMMA TupleIs ==
  ASSUME NEW vs
  PROVE  vs \in Tuple <=> vs \in Seq(Cell) /\ Len(vs) <= MaxInt16
BY DEF Tuple

\* An encoded tuple is bytes.
LEMMA TupleType ==
  ASSUME NEW n \in Nat, n <= MaxInt16, NEW vs \in Seq(Cell)
  PROVE  EncodedTuple(n, vs) \in Seq(Byte)
<1>1. PICK v : v = [tag |-> Ascii.n, text |-> <<>>]
  OBVIOUS
<1>2. v \in Cell
  BY <1>1 DEF Cell
<1>3. QED
  BY <1>2, TupleGrows

\* What is in front of the tuples of a row are bytes.
LEMMA OldPartType ==
  ASSUME NEW m, m \in OldRows \/ m \in NewRows
  PROVE  OldPart(m) \in Seq(Byte)
<1>1. /\ m.kind \in Byte /\ m.tag \in Byte /\ m.relation_id \in Bytes(4)
      /\ m.old \in Tuple
  BY RowsAre
<1>2. RowHead(m) \in Seq(Byte)
  BY <1>1, RowHeadType
<1>3. m.old \in Seq(Cell) /\ Len(m.old) <= MaxInt16 /\ Len(m.old) \in Nat
  BY <1>1, TupleIs
<1> DEFINE t == EncodedTuple(Len(m.old), m.old)
           h == RowHead(m)
<1>4. t \in Seq(Byte)
  BY <1>3, TupleType
<1>5. OldPart(m) = IF m.tag = Ascii.N THEN h ELSE h \o t
  BY DEF OldPart
<1>6. h \in Seq(Byte)
  BY <1>2
<1> HIDE DEF h, t
<1>7. h \o t \in Seq(Byte)
  BY <1>4, <1>6, BothAre
<1>8. QED
  BY <1>5, <1>6, <1>7

\* What is in front of a new tuple is bytes.
LEMMA NewHeadType ==
  ASSUME NEW m \in NewRows
  PROVE  NewHead(m) \in Seq(Byte)
<1> DEFINE h == OldPart(m)
           z == <<Ascii.N>>
<1>1. h \in Seq(Byte)
  BY OldPartType
<1>2. z \in Seq(Byte)
  BY AsciiIs, ByteIs
<1>3. NewHead(m) = h \/ NewHead(m) = h \o z
  BY DEF NewHead
<1> HIDE DEF h, z
<1>4. h \o z \in Seq(Byte)
  BY <1>1, <1>2, BothAre
<1>5. QED
  BY <1>1, <1>3, <1>4

-----------------------------------------------------------------------------
(* Where the decoder is.                                                   *)

\* What one sequence behind another is.
LEMMA ConcatIs ==
  ASSUME NEW S, NEW s \in Seq(S), NEW t \in Seq(S)
  PROVE  /\ s \o t \in Seq(S) /\ Len(s \o t) = Len(s) + Len(t) /\ Len(t) \in Nat
         /\ \A i \in 1..Len(s) : (s \o t)[i] = s[i]
         /\ \A i \in 1..Len(t) : (s \o t)[Len(s) + i] = t[i]
OBVIOUS

\* What the work behind an old tuple begins with.
LEMMA BehindIs ==
  ASSUME NEW a, NEW m
  PROVE  /\ << <<a, "old">> >> \o BehindOld(m) # <<>>
         /\ (<< <<a, "old">> >> \o BehindOld(m))[1] = <<a, "old">>
         /\ Tail(<< <<a, "old">> >> \o BehindOld(m)) = BehindOld(m)
<1> DEFINE x == <<a, "old">>
           y == <<"tag", "">>
           z == <<"count", "new">>
           S == {x, y, z}
           h == <<x>>
           t == BehindOld(m)
           u == h \o t
<1>1. t = <<>> \/ t = <<y, z>>
  BY DEF BehindOld
<1>2. x \in S /\ y \in S /\ z \in S
  OBVIOUS
<1> HIDE DEF S, t, x, y, z
<1>3. t \in Seq(S)
  <2>1. <<>> \in Seq(S) /\ <<y, z>> \in Seq(S)
    BY <1>2
  <2>2. QED
    BY <1>1, <2>1
<1>4. h \in Seq(S) /\ Len(h) = 1 /\ h[1] = x
  BY <1>2
<1> HIDE DEF h
<1>5. /\ u \in Seq(S) /\ Len(u) = Len(h) + Len(t) /\ Len(t) \in Nat
      /\ \A i \in 1..Len(h) : u[i] = h[i]
      /\ \A i \in 1..Len(t) : u[Len(h) + i] = t[i]
  <2>1. h \in Seq(S)
    BY <1>4
  <2>2. QED
    BY <1>3, <2>1, ConcatIs
<1> HIDE DEF u
<1>6. Len(u) = 1 + Len(t) /\ u[1] = x /\ u # <<>>
  BY <1>4, <1>5
<1> DEFINE v == Tail(u)
<1>7. v \in Seq(S) /\ Len(v) = Len(t) /\ \A i \in 1..Len(t) : v[i] = u[i + 1]
  BY <1>5, <1>6
<1>8. \A i \in 1..Len(t) : u[i + 1] = t[i]
  BY <1>4, <1>5
<1> HIDE DEF v
<1>9. v = t
  BY <1>3, <1>7, <1>8, SeqEqual
<1>10. QED
  BY <1>6, <1>9 DEF u, v, h, t, x

\* What one and two parts begin with.
LEMMA OneIs ==
  ASSUME NEW x
  PROVE  <<x>> # <<>> /\ <<x>>[1] = x /\ Tail(<<x>>) = <<>>
OBVIOUS

\* What two parts begin with, and what is behind the first.
LEMMA TwoAre ==
  ASSUME NEW x, NEW y
  PROVE  <<x, y>> # <<>> /\ <<x, y>>[1] = x /\ Tail(<<x, y>>) = <<y>>
OBVIOUS

\* What the kinds are read as.
LEMMA BodyIs ==
  /\ Body(Ascii.B) = "begin" /\ Body(Ascii.C) = "commit" /\ Body(Ascii.R) = "relation"
  /\ Body(Ascii.T) = "truncate" /\ Body(Ascii.I) = "row" /\ Body(Ascii.U) = "row"
  /\ Body(Ascii.D) = "row"
  /\ Supported = {Ascii.B, Ascii.C, Ascii.R, Ascii.I, Ascii.U, Ascii.D, Ascii.T}
<1>1. Body(Ascii.B) = "begin" /\ Body(Ascii.C) = "commit"
  BY AsciiIs DEF Body
<1>2. Body(Ascii.R) = "relation" /\ Body(Ascii.T) = "truncate"
  BY AsciiIs DEF Body
<1>3. Body(Ascii.I) = "row" /\ Body(Ascii.U) = "row" /\ Body(Ascii.D) = "row"
  BY AsciiIs DEF Body
<1>4. QED
  BY <1>1, <1>2, <1>3 DEF Supported

\* The work at the head tells the place.
NextUp(a, b, rest) == todo # <<>> /\ todo[1] = <<a, b>> /\ Tail(todo) = rest

\* At each place, the part to be read next and what follows it.
LEMMA HeadsAre ==
  /\ AtKind => NextUp("kind", "", <<>>)
  /\ \A k : InBody(k) => NextUp(Body(k), "", <<>>)
  /\ AtColumn => NextUp("column", "", <<>>)
  /\ AtRelationId => NextUp("relation_id", "", <<>>)
  /\ AtOldCount => NextUp("count", "old", BehindOld(msg))
  /\ AtOldValue => NextUp("value", "old", BehindOld(msg))
  /\ AtTag => NextUp("tag", "", << <<"count", "new">> >>)
  /\ AtNewCount => NextUp("count", "new", <<>>)
  /\ AtNewValue => NextUp("value", "new", <<>>)
<1>1. ASSUME NEW a, NEW b, todo = << <<a, b>> >>
      PROVE  NextUp(a, b, <<>>)
  <2>1. PICK x : x = <<a, b>>
    OBVIOUS
  <2>2. todo = <<x>>
    BY <1>1, <2>1
  <2>3. QED
    BY <2>1, <2>2, OneIs DEF NextUp
<1>2. ASSUME NEW a, todo = << <<a, "old">> >> \o BehindOld(msg)
      PROVE  NextUp(a, "old", BehindOld(msg))
  BY <1>2, BehindIs DEF NextUp
<1>3. AtKind => NextUp("kind", "", <<>>)
  BY <1>1 DEF AtKind
<1>4. \A k : InBody(k) => NextUp(Body(k), "", <<>>)
  BY <1>1 DEF InBody
<1>5. AtColumn => NextUp("column", "", <<>>)
  BY <1>1 DEF AtColumn
<1>6. AtRelationId => NextUp("relation_id", "", <<>>)
  BY <1>1 DEF AtRelationId
<1>7. AtOldCount => NextUp("count", "old", BehindOld(msg))
  BY <1>2 DEF AtOldCount
<1>8. AtOldValue => NextUp("value", "old", BehindOld(msg))
  BY <1>2 DEF AtOldValue
<1>9. AtTag => NextUp("tag", "", << <<"count", "new">> >>)
  <2>1. PICK x, y : x = <<"tag", "">> /\ y = <<"count", "new">>
    OBVIOUS
  <2>2. AtTag => todo = <<x, y>>
    BY <2>1 DEF AtTag
  <2>3. QED
    BY <2>1, <2>2, TwoAre DEF NextUp
<1>10. AtNewCount => NextUp("count", "new", <<>>)
  BY <1>1 DEF AtNewCount
<1>11. AtNewValue => NextUp("value", "new", <<>>)
  BY <1>1 DEF AtNewValue
<1>12. QED
  BY <1>3, <1>4, <1>5, <1>6, <1>7, <1>8, <1>9, <1>10, <1>11

\* So what is done tells it.
LEMMA WhereItIs ==
  ASSUME Somewhere, todo # <<>>, NEW p, p = todo[1][1]
  PROVE  /\ p = "kind" => AtKind
         /\ p = "begin" => InBody(Ascii.B)
         /\ p = "commit" => InBody(Ascii.C)
         /\ p = "relation" => InBody(Ascii.R)
         /\ p = "truncate" => InBody(Ascii.T)
         /\ p = "row" => \E k \in {Ascii.I, Ascii.U, Ascii.D} : InBody(k)
         /\ p = "column" => AtColumn
         /\ p = "relation_id" => AtRelationId
         /\ p = "tag" => AtTag
         /\ p = "count" => AtOldCount \/ AtNewCount
         /\ p = "value" => AtOldValue \/ AtNewValue
<1>1. ASSUME NEW a, NEW b, NEW rest, NextUp(a, b, rest)
      PROVE  p = a
  BY <1>1 DEF NextUp
<1>2. AtKind => p = "kind"
  BY <1>1, HeadsAre
<1>3. \A k : InBody(k) => p = Body(k)
  BY <1>1, HeadsAre
<1>4. AtColumn => p = "column"
  BY <1>1, HeadsAre
<1>5. AtRelationId => p = "relation_id"
  BY <1>1, HeadsAre
<1>6. AtOldCount => p = "count"
  BY <1>1, HeadsAre
<1>7. AtOldValue => p = "value"
  BY <1>1, HeadsAre
<1>8. AtTag => p = "tag"
  BY <1>1, HeadsAre
<1>9. AtNewCount => p = "count"
  BY <1>1, HeadsAre
<1>10. AtNewValue => p = "value"
  BY <1>1, HeadsAre
<1>11. ~AtEnd
  BY DEF AtEnd
<1>12. AtBody => \/ p = "begin" /\ InBody(Ascii.B)
                 \/ p = "commit" /\ InBody(Ascii.C)
                 \/ p = "relation" /\ InBody(Ascii.R)
                 \/ p = "truncate" /\ InBody(Ascii.T)
                 \/ p = "row" /\ \E k \in {Ascii.I, Ascii.U, Ascii.D} : InBody(k)
  <2>1. SUFFICES ASSUME NEW k \in Supported, InBody(k)
                 PROVE  \/ p = "begin" /\ InBody(Ascii.B)
                        \/ p = "commit" /\ InBody(Ascii.C)
                        \/ p = "relation" /\ InBody(Ascii.R)
                        \/ p = "truncate" /\ InBody(Ascii.T)
                        \/ p = "row" /\ \E j \in {Ascii.I, Ascii.U, Ascii.D} : InBody(j)
    BY DEF AtBody
  <2>2. p = Body(k)
    BY <1>3, <2>1
  <2>3. QED
    BY <2>1, <2>2, BodyIs
<1>13. \/ AtKind \/ AtBody \/ AtColumn \/ AtRelationId \/ AtOldCount \/ AtOldValue
       \/ AtTag \/ AtNewCount \/ AtNewValue
  BY <1>11 DEF Somewhere
<1>14. QED
  BY <1>2, <1>4, <1>5, <1>6, <1>7, <1>8, <1>9, <1>10, <1>12, <1>13

-----------------------------------------------------------------------------
(* The steps keep the invariant.                                           *)

\* What is known when a part is read.
Doer(part) == /\ IInv /\ Inside /\ result = "reading" /\ reads' = reads + 1
              /\ Somewhere /\ todo # <<>> /\ todo[1][1] = part

\* An action that reads a part finds the invariant and a place.
LEMMA DoerIs ==
  ASSUME IInv, NEW part, Doing(part)
  PROVE  Doer(part)
BY DEF IInv, InBounds, Inside, Doing, Doer

\* A refusal changes nothing else.
LEMMA RefuseKept ==
  ASSUME IInv, result = "reading", reads' = reads + 1, Refuse
  PROVE  IInv'
<1>1. InBounds /\ reads <= at
  BY DEF IInv
<1>2. InBounds'
  BY <1>1 DEF InBounds, Refuse
<1>3. QED
  BY <1>2 DEF IInv, Refuse

\* Reading n bytes moves on within the payload.
MovesBy(n) ==
    /\ n \in Nat /\ n >= 1 /\ at + n <= Len(payload)
    /\ payload' = payload /\ at' = at + n /\ result' = result
    /\ left' \in Nat /\ reserved' \in Nat /\ reserved' <= 2 * MaxInt16
    /\ ignored' \subseteq 1..Len(payload)

\* A step that moves on to one of the places keeps the invariant.
LEMMA MovesKeep ==
  ASSUME NEW part, Doer(part), NEW n, MovesBy(n), Somewhere'
  PROVE  IInv'
<1>1. InBounds /\ reads <= at /\ result = "reading" /\ reads' = reads + 1
  BY DEF IInv, Doer
<1>2. reads' \in Nat /\ reads' <= at' /\ at' \in 0..Len(payload) /\ at' \in Nat
  BY <1>1 DEF MovesBy, InBounds
<1>3. InBounds'
  BY <1>1, <1>2 DEF InBounds, MovesBy
<1>4. result' = "reading"
  BY <1>1 DEF MovesBy
<1>5. QED
  BY <1>2, <1>3, <1>4 DEF IInv

\* Kinds are different.
LEMMA KindsDiffer ==
  /\ Ascii.U # Ascii.D /\ Ascii.I # Ascii.D /\ Ascii.I # Ascii.U
  /\ Ascii.N # Ascii.O /\ Ascii.N # Ascii.K
BY AsciiIs

\* Nothing in front or behind.
LEMMA NothingAround ==
  ASSUME NEW x
  PROVE  <<x>> \o <<>> = <<x>> /\ <<>> \o <<x>> = <<x>> /\ <<>> \o <<>> = <<>>
<1>1. <<x>> \in Seq({x}) /\ <<>> \in Seq({x})
  OBVIOUS
<1>2. QED
  BY <1>1, ConcatEmptySeq

\* The kind byte is read.
LEMMA KindKept ==
  ASSUME IInv, ReadKind
  PROVE  IInv'
<1>1. Doer("kind")
  BY DoerIs DEF ReadKind
<1>2. AtKind
  BY <1>1, WhereItIs DEF Doer
<1>3. CASE ~Has(1) /\ Refuse
  BY <1>1, <1>3, RefuseKept DEF Doer
<1>4. CASE /\ Has(1) /\ U8(0) \notin Supported /\ result' = "unsupported"
           /\ UNCHANGED <<payload, at, todo, left, msg, reserved, ignored>>
  <2>1. InBounds /\ reads <= at /\ reads' = reads + 1
    BY <1>1 DEF Doer, IInv
  <2>2. InBounds'
    BY <1>4, <2>1 DEF InBounds
  <2>3. QED
    BY <1>4, <2>2 DEF IInv
<1>5. CASE /\ Has(1) /\ U8(0) \in Supported
           /\ Read(1, [kind |-> U8(0)], << <<Body(U8(0)), "">> >>) /\ Keep
  <2> DEFINE q == at + 1
  <2>1. Inside /\ at \in Nat /\ Len(payload) \in Nat
    BY <1>1 DEF Doer, Inside
  <2>2. Has(0 + 1) /\ 0 \in Nat /\ at = at + 0 /\ q = at + 1 /\ at + 1 <= Len(payload)
    <3>1. at + 1 <= Len(payload)
      BY <1>5 DEF Has
    <3>2. QED
      BY <2>1, <3>1 DEF Has
  <2>3. PICK k \in Supported : k = U8(0)
    BY <1>5
  <2> DEFINE w == <<Body(k), "">>
             s == <<k>>
  <2>4. Laid(payload, at, <<>>, ignored)
    BY <1>2 DEF AtKind, Wrote
  <2> HIDE DEF q
  <2>5. Laid(payload, q, <<>> \o s, ignored)
    BY <2>2, <2>1, <2>4, <2>3, ByteLaid
  <2>6. <<>> \o s = s
    BY NothingAround
  <2>7. Laid(payload, at + 1, s, ignored)
    BY <2>5, <2>6 DEF q
  <2>8. Tail(todo) = <<>>
    BY <1>2, HeadsAre DEF NextUp
  <2>9. todo' = <<w>>
    BY <1>5, <2>8, <2>3, NothingAround DEF Read
  <2>10. /\ msg' = [kind |-> k] /\ at' = at + 1 /\ payload' = payload /\ result' = result
        /\ left' = left /\ reserved' = reserved /\ ignored' = ignored
    BY <1>5, <2>3 DEF Read, Keep
  <2>11. reserved = 0 /\ ignored = {}
    BY <1>2 DEF AtKind
  <2>12. InBody(k)'
    BY <2>7, <2>9, <2>10, <2>11 DEF InBody, Wrote
  <2>13. Somewhere'
    BY <2>12 DEF Somewhere, AtBody
  <2>14. MovesBy(1)
    BY <1>1, <2>2, <2>10 DEF MovesBy, Doer, IInv, InBounds
  <2>15. QED
    BY <1>1, <2>13, <2>14, MovesKeep
<1>6. QED
  BY <1>3, <1>4, <1>5 DEF ReadKind

\* A begin message is read.
LEMMA BeginKept ==
  ASSUME IInv, ReadBegin
  PROVE  IInv'
<1>1. Doer("begin")
  BY DoerIs DEF ReadBegin
<1>2. InBody(Ascii.B)
  BY <1>1, WhereItIs DEF Doer
<1>3. CASE ~Has(20) /\ Refuse
  BY <1>1, <1>3, RefuseKept DEF Doer
<1>4. CASE /\ Has(20)
           /\ Read(20, [kind |-> msg.kind, final_lsn |-> Take(0, 8),
                        commit_timestamp |-> Take(8, 8), xid |-> Take(16, 4)], <<>>)
           /\ Keep
  <2>1. msg.kind = Ascii.B /\ Wrote(<<Ascii.B>>) /\ reserved = 0 /\ Inside
    BY <1>1, <1>2 DEF InBody, Doer
  <2>2. msg' = BeginRead
    BY <1>4, <2>1 DEF Read, BeginRead
  <2>3. BeginRead \in Begins /\ Laid(payload, at + 20, Encoded(BeginRead), ignored)
    BY <1>4, <2>1, BeginLaid
  <2>4. Tail(todo) = <<>>
    BY <1>2, HeadsAre DEF NextUp
  <2>5. todo' = <<>>
    BY <1>4, <2>4, NothingAround DEF Read
  <2>6. /\ at' = at + 20 /\ payload' = payload /\ result' = result
        /\ left' = left /\ reserved' = reserved /\ ignored' = ignored
    BY <1>4 DEF Read, Keep
  <2>7. msg' \in Message
    BY <2>2, <2>3 DEF Message
  <2>8. AtEnd'
    BY <2>2, <2>3, <2>5, <2>6, <2>7 DEF AtEnd, Wrote
  <2>9. MovesBy(20)
    BY <1>1, <1>4, <2>6 DEF MovesBy, Doer, IInv, InBounds, Has
  <2>10. QED
    BY <1>1, <2>8, <2>9, MovesKeep DEF Somewhere
<1>5. QED
  BY <1>3, <1>4 DEF ReadBegin

\* A commit message is read.
LEMMA CommitKept ==
  ASSUME IInv, ReadCommit
  PROVE  IInv'
<1>1. Doer("commit")
  BY DoerIs DEF ReadCommit
<1>2. InBody(Ascii.C)
  BY <1>1, WhereItIs DEF Doer
<1>3. CASE ~Has(25) /\ Refuse
  BY <1>1, <1>3, RefuseKept DEF Doer
<1>4. CASE /\ Has(25)
           /\ Read(25, [kind |-> msg.kind, flags |-> U8(0), commit_lsn |-> Take(1, 8),
                        end_lsn |-> Take(9, 8), commit_timestamp |-> Take(17, 8)], <<>>)
           /\ Keep
  <2>1. msg.kind = Ascii.C /\ Wrote(<<Ascii.C>>) /\ reserved = 0 /\ Inside
    BY <1>1, <1>2 DEF InBody, Doer
  <2>2. msg' = CommitRead
    BY <1>4, <2>1 DEF Read, CommitRead
  <2>3. CommitRead \in Commits /\ Laid(payload, at + 25, Encoded(CommitRead), ignored)
    BY <1>4, <2>1, CommitLaid
  <2>4. Tail(todo) = <<>>
    BY <1>2, HeadsAre DEF NextUp
  <2>5. todo' = <<>>
    BY <1>4, <2>4, NothingAround DEF Read
  <2>6. /\ at' = at + 25 /\ payload' = payload /\ result' = result
        /\ left' = left /\ reserved' = reserved /\ ignored' = ignored
    BY <1>4 DEF Read, Keep
  <2>7. msg' \in Message
    BY <2>2, <2>3 DEF Message
  <2>8. AtEnd'
    BY <2>2, <2>3, <2>5, <2>6, <2>7 DEF AtEnd, Wrote
  <2>9. MovesBy(25)
    BY <1>1, <1>4, <2>6 DEF MovesBy, Doer, IInv, InBounds, Has
  <2>10. QED
    BY <1>1, <2>8, <2>9, MovesKeep DEF Somewhere
<1>5. QED
  BY <1>3, <1>4 DEF ReadCommit

\* A relation with one column more.
LEMMA RelationGrows ==
  ASSUME NEW m \in Relations, NEW c \in Column, Len(m.columns) + 1 <= MaxInt16
  PROVE  LET more == [m EXCEPT !.columns = Append(@, c)] IN
         /\ m.columns \in Seq(Column) /\ Len(m.columns) \in Nat /\ Len(m.columns) <= MaxInt16
         /\ more \in Relations /\ more.columns = Append(m.columns, c)
         /\ Len(more.columns) = Len(m.columns) + 1
         /\ \A n : RelationHead(more, n) = RelationHead(m, n)
<1> DEFINE cs == Append(m.columns, c)
           more == [m EXCEPT !.columns = Append(@, c)]
<1>1. m.columns \in Seq(Column) /\ Len(m.columns) <= MaxInt16
  BY DEF Relations, Columns
<1>2. cs \in Seq(Column) /\ Len(cs) = Len(m.columns) + 1 /\ Len(m.columns) \in Nat
  BY <1>1
<1>3. cs \in Columns
  BY <1>2 DEF Columns
<1>4. more = [m EXCEPT !.columns = cs]
  BY DEF Relations
<1> HIDE DEF cs, more
<1>5. /\ more \in Relations /\ more.columns = cs /\ more.kind = m.kind /\ more.id = m.id
      /\ more.namespace = m.namespace /\ more.name = m.name
      /\ more.replica_identity = m.replica_identity
  BY <1>3, <1>4 DEF Relations
<1>6. \A n : RelationHead(more, n) = RelationHead(m, n)
  BY <1>5 DEF RelationHead
<1>7. QED
  BY <1>1, <1>2, <1>5, <1>6 DEF cs, more

\* A truncate with one relation more.
LEMMA TruncateGrows ==
  ASSUME NEW m \in Truncates, NEW b \in Bytes(4), Len(m.relation_ids) + 1 <= MaxInt32
  PROVE  LET more == [m EXCEPT !.relation_ids = Append(@, b)] IN
         /\ m.relation_ids \in Seq(Bytes(4)) /\ Len(m.relation_ids) \in Nat
         /\ Len(m.relation_ids) <= MaxInt32
         /\ more \in Truncates /\ more.relation_ids = Append(m.relation_ids, b)
         /\ Len(more.relation_ids) = Len(m.relation_ids) + 1
         /\ \A n : TruncateHead(more, n) = TruncateHead(m, n)
<1> DEFINE cs == Append(m.relation_ids, b)
           more == [m EXCEPT !.relation_ids = Append(@, b)]
<1>1. m.relation_ids \in Seq(Bytes(4)) /\ Len(m.relation_ids) <= MaxInt32
  BY DEF Truncates
<1>2. cs \in Seq(Bytes(4)) /\ Len(cs) = Len(m.relation_ids) + 1 /\ Len(m.relation_ids) \in Nat
  BY <1>1
<1>3. cs \in {ids \in Seq(Bytes(4)) : Len(ids) <= MaxInt32}
  BY <1>2
<1>4. more = [m EXCEPT !.relation_ids = cs]
  BY DEF Truncates
<1> HIDE DEF cs, more
<1>5. more \in Truncates /\ more.relation_ids = cs /\ more.kind = m.kind
  BY <1>3, <1>4 DEF Truncates
<1>6. \A n : TruncateHead(more, n) = TruncateHead(m, n)
  BY <1>5 DEF TruncateHead
<1>7. QED
  BY <1>1, <1>2, <1>5, <1>6 DEF cs, more

\* The head of a relation message is read.
LEMMA RelationKept ==
  ASSUME IInv, ReadRelation
  PROVE  IInv'
<1>1. Doer("relation")
  BY DoerIs DEF ReadRelation
<1>2. InBody(Ascii.R)
  BY <1>1, WhereItIs DEF Doer
<1>3. CASE ~HeaderIsThere /\ Refuse
  BY <1>1, <1>3, RefuseKept DEF Doer
<1>4. CASE /\ HeaderIsThere
           /\ left' = I16(HeaderLen + 1)
           /\ reserved' = reserved + left'
           /\ Read(HeaderLen + 3, RelationRead,
                   IF left' = 0 THEN <<>> ELSE << <<"column", "">> >>)
           /\ UNCHANGED ignored
  <2>1. Wrote(<<Ascii.R>>) /\ msg.kind = Ascii.R /\ reserved = 0 /\ Inside
    BY <1>1, <1>2 DEF InBody, Doer
  <2>2. PICK h : h = HeaderLen
    OBVIOUS
  <2>3. PICK n : n = I16(HeaderLen + 1)
    OBVIOUS
  <2>4. PICK m : m = RelationRead
    OBVIOUS
  <2>5. /\ m \in Relations /\ m.columns = <<>> /\ n \in Nat /\ n <= MaxInt16
        /\ h \in Nat /\ at + (h + 3) <= Len(payload)
        /\ Laid(payload, at + (h + 3), RelationHead(m, n), ignored)
    BY <1>4, <2>1, <2>2, <2>3, <2>4, RelationLaid
  <2>6. Tail(todo) = <<>>
    BY <1>2, HeadsAre DEF NextUp
  <2>7. todo' = IF n = 0 THEN <<>> ELSE << <<"column", "">> >>
    BY <1>4, <2>3, <2>6, NothingAround DEF Read
  <2>8. /\ msg' = m /\ at' = at + (h + 3) /\ payload' = payload /\ result' = result
        /\ left' = n /\ reserved' = n /\ ignored' = ignored
    <3>1. left' = n
      BY <1>4, <2>3
    <3>2. reserved' = reserved + left'
      BY <1>4
    <3>3. reserved' = n
      BY <2>1, <2>5, <3>1, <3>2
    <3>4. QED
      BY <1>4, <2>2, <2>4, <3>1, <3>3 DEF Read
  <2>9. RelationHead(m, n) \o EncodedColumns(m.columns) = RelationHead(m, n)
    <3>1. <<>> \in Seq(Column)
      OBVIOUS
    <3>2. EncodedColumns(m.columns) = <<>>
      BY <2>5, <3>1, ListsAre, ListStarts
    <3>3. RelationHead(m, n) \in Seq(Byte)
      BY <2>5, RelationHeadType
    <3>4. QED
      BY <3>2, <3>3, ConcatEmptySeq
  <2>10. Len(m.columns) = 0
    BY <2>5
  <2>11. Somewhere'
    <3>1. CASE n = 0
      <4>1. Encoded(m) = EncodedRelation(m)
        BY <2>5, EncodedKinds DEF Relations
      <4>2. Encoded(m) = RelationHead(m, n)
        BY <2>9, <2>10, <3>1, <4>1 DEF EncodedRelation
      <4>3. m \in Message
        BY <2>5 DEF Message
      <4>4. AtEnd'
        BY <2>5, <2>7, <2>8, <3>1, <4>2, <4>3 DEF AtEnd, Wrote
      <4>5. QED
        BY <4>4 DEF Somewhere
    <3>2. CASE n # 0
      <4>1. n > 0 /\ Len(m.columns) + n = n
        BY <2>5, <2>10, <3>2
      <4>2. AtColumn'
        BY <2>5, <2>7, <2>8, <2>9, <3>2, <4>1 DEF AtColumn, Wrote
      <4>3. QED
        BY <4>2 DEF Somewhere
    <3>3. QED
      BY <3>1, <3>2
  <2>12. n <= 2 * MaxInt16
    BY <2>5 DEF MaxInt16
  <2>13. MovesBy(h + 3)
    BY <1>1, <2>5, <2>8, <2>12 DEF MovesBy, Doer, IInv, InBounds
  <2>14. QED
    BY <1>1, <2>11, <2>13, MovesKeep
<1>5. QED
  BY <1>3, <1>4 DEF ReadRelation

\* A column is read.
LEMMA ColumnKept ==
  ASSUME IInv, ReadColumn
  PROVE  IInv'
<1>1. Doer("column")
  BY DoerIs DEF ReadColumn
<1>2. AtColumn
  BY <1>1, WhereItIs DEF Doer
<1>3. CASE ~ColumnIsThere /\ Refuse
  BY <1>1, <1>3, RefuseKept DEF Doer
<1>4. CASE /\ ColumnIsThere
           /\ left' = left - 1
           /\ ignored' = ignored \cup {at + 1}
           /\ Read(ColumnLen, [msg EXCEPT !.columns = Append(@, ColumnRead)],
                   IF left' = 0 THEN <<>> ELSE << todo[1] >>)
           /\ UNCHANGED reserved
  <2>1. PICK c : c = ColumnRead
    OBVIOUS
  <2>2. PICK l : l = ColumnLen
    OBVIOUS
  <2>3. PICK m : m = [msg EXCEPT !.columns = Append(@, c)]
    OBVIOUS
  <2>4. PICK n : n = Len(msg.columns) + left
    OBVIOUS
  <2>5. PICK j : j = left - 1
    OBVIOUS
  <2>6. Inside /\ left \in Nat /\ left > 0 /\ msg \in Relations
    BY <1>1, <1>2 DEF AtColumn, Doer, IInv, InBounds
  <2>7. msg.columns \in Seq(Column)
    BY <2>6 DEF Relations, Columns
  <2>8. PICK x \in Nat : x = Len(msg.columns)
    BY <2>7
  <2>9. x + left <= MaxInt16
    BY <1>2, <2>8 DEF AtColumn
  <2>10. Len(msg.columns) = x /\ n = x + left /\ n \in Nat /\ n <= MaxInt16 /\ j \in Nat
    BY <2>4, <2>5, <2>6, <2>8, <2>9
  <2>11. RelationHead(msg, n) \in Seq(Byte)
    BY <2>6, <2>10, RelationHeadType
  <2>12. Wrote(RelationHead(msg, n) \o EncodedColumns(msg.columns))
    BY <1>2, <2>4 DEF AtColumn
  <2>13. /\ c \in Column /\ l \in Nat /\ l >= 1 /\ at + l <= Len(payload)
         /\ Laid(payload, at + l, RelationHead(msg, n) \o EncodedColumns(Append(msg.columns, c)),
                 ignored \cup {at + 1})
    BY <1>4, <2>1, <2>2, <2>6, <2>7, <2>11, <2>12, ColumnLaid
  <2>14. x + 1 <= MaxInt16 /\ n = (x + 1) + j
    BY <2>5, <2>6, <2>10, <2>8 DEF MaxInt16
  <2>15. /\ m \in Relations /\ m.columns = Append(msg.columns, c)
         /\ Len(m.columns) = Len(msg.columns) + 1
         /\ RelationHead(m, n) = RelationHead(msg, n)
    <3>1. Len(msg.columns) + 1 <= MaxInt16
      BY <2>10, <2>14
    <3>2. QED
      BY <2>3, <2>6, <2>13, <3>1, RelationGrows
  <2>16. Len(m.columns) + j = n
    BY <2>10, <2>14, <2>15
  <2>17. Laid(payload, at + l, RelationHead(m, n) \o EncodedColumns(m.columns),
              ignored \cup {at + 1})
    BY <2>13, <2>15
  <2>18. Tail(todo) = <<>> /\ todo[1] = <<"column", "">>
    BY <1>2, HeadsAre DEF NextUp
  <2>19. todo' = IF j = 0 THEN <<>> ELSE << <<"column", "">> >>
    BY <1>4, <2>5, <2>18, NothingAround DEF Read
  <2>20. /\ msg' = m /\ at' = at + l /\ payload' = payload /\ result' = result
         /\ left' = j /\ reserved' = reserved /\ ignored' = ignored \cup {at + 1}
    BY <1>4, <2>1, <2>2, <2>3, <2>5 DEF Read
  <2>21. reserved <= MaxInt16
    BY <1>2 DEF AtColumn
  <2>22. Somewhere'
    <3>1. CASE j = 0
      <4>1. Encoded(m) = EncodedRelation(m)
        BY <2>15, EncodedKinds DEF Relations
      <4>2. Len(m.columns) = n
        BY <2>15, <2>16, <3>1, <2>10
      <4>3. Encoded(m) = RelationHead(m, n) \o EncodedColumns(m.columns)
        BY <4>1, <4>2 DEF EncodedRelation
      <4>4. m \in Message
        BY <2>15 DEF Message
      <4>5. AtEnd'
        BY <2>17, <2>19, <2>20, <3>1, <4>3, <4>4 DEF AtEnd, Wrote
      <4>6. QED
        BY <4>5 DEF Somewhere
    <3>2. CASE j # 0
      <4>1. j > 0
        BY <2>10, <3>2
      <4>2. AtColumn'
        BY <2>10, <2>15, <2>16, <2>17, <2>19, <2>20, <2>21, <3>2, <4>1 DEF AtColumn, Wrote
      <4>3. QED
        BY <4>2 DEF Somewhere
    <3>3. QED
      BY <3>1, <3>2
  <2>23. at + 1 \in 1..Len(payload)
    BY <2>6, <2>13 DEF Inside
  <2>24. MovesBy(l)
    BY <1>1, <2>10, <2>13, <2>20, <2>23 DEF MovesBy, Doer, IInv, InBounds
  <2>25. QED
    BY <1>1, <2>22, <2>24, MovesKeep
<1>5. QED
  BY <1>3, <1>4 DEF ReadColumn

\* The head of a truncate message is read.
LEMMA TruncateKept ==
  ASSUME IInv, ReadTruncate
  PROVE  IInv'
<1>1. Doer("truncate")
  BY DoerIs DEF ReadTruncate
<1>2. InBody(Ascii.T)
  BY <1>1, WhereItIs DEF Doer
<1>3. CASE ~(Has(5) /\ I32(0) >= 0) /\ Refuse
  BY <1>1, <1>3, RefuseKept DEF Doer
<1>4. CASE /\ Has(5) /\ I32(0) >= 0
           /\ left' = I32(0)
           /\ ignored' = {at + 5}
           /\ Read(5, [kind |-> msg.kind, relation_ids |-> <<>>],
                   IF left' = 0 THEN <<>> ELSE << <<"relation_id", "">> >>)
           /\ UNCHANGED reserved
  <2>1. Wrote(<<Ascii.T>>) /\ msg.kind = Ascii.T /\ reserved = 0 /\ Inside
    BY <1>1, <1>2 DEF InBody, Doer
  <2>2. PICK n : n = I32(0)
    OBVIOUS
  <2>3. PICK m : m = TruncateRead
    OBVIOUS
  <2>4. /\ m \in Truncates /\ n \in Nat /\ n <= MaxInt32
        /\ Laid(payload, at + 5, TruncateHead(m, n), ignored \cup {at + 5})
    BY <1>4, <2>1, <2>2, <2>3, TruncateLaid
  <2>5. m.relation_ids = <<>>
    BY <2>3 DEF TruncateRead
  <2>6. Tail(todo) = <<>>
    BY <1>2, HeadsAre DEF NextUp
  <2>7. todo' = IF n = 0 THEN <<>> ELSE << <<"relation_id", "">> >>
    BY <1>4, <2>2, <2>6, NothingAround DEF Read
  <2>8. /\ msg' = m /\ at' = at + 5 /\ payload' = payload /\ result' = result
        /\ left' = n /\ reserved' = 0 /\ ignored' = {at + 5}
    BY <1>4, <2>1, <2>2, <2>3 DEF Read, TruncateRead
  <2>9. Laid(payload, at + 5, TruncateHead(m, n), {at + 5})
    <3>1. ignored \cup {at + 5} = {at + 5}
      BY <1>2 DEF InBody
    <3>2. QED
      BY <2>4, <3>1
  <2>10. TruncateHead(m, n) \o FlattenSeq(m.relation_ids) = TruncateHead(m, n)
    <3>1. <<>> \in Seq(Bytes(4))
      OBVIOUS
    <3>2. FlattenSeq(m.relation_ids) = <<>>
      BY <2>5, <3>1, ListsAre, ListStarts
    <3>3. TruncateHead(m, n) \in Seq(Byte)
      BY <2>4, TruncateHeadType
    <3>4. QED
      BY <3>2, <3>3, ConcatEmptySeq
  <2>11. Len(m.relation_ids) = 0
    BY <2>5
  <2>12. Somewhere'
    <3>1. CASE n = 0
      <4>1. Encoded(m) = EncodedTruncate(m)
        BY <2>4, EncodedKinds DEF Truncates
      <4>2. Encoded(m) = TruncateHead(m, n)
        BY <2>10, <2>11, <3>1, <4>1 DEF EncodedTruncate
      <4>3. m \in Message
        BY <2>4 DEF Message
      <4>4. AtEnd'
        BY <2>7, <2>8, <2>9, <3>1, <4>2, <4>3 DEF AtEnd, Wrote
      <4>5. QED
        BY <4>4 DEF Somewhere
    <3>2. CASE n # 0
      <4>1. n > 0 /\ Len(m.relation_ids) + n = n
        BY <2>4, <2>11, <3>2
      <4>2. AtRelationId'
        BY <2>4, <2>7, <2>8, <2>9, <2>10, <3>2, <4>1 DEF AtRelationId, Wrote
      <4>3. QED
        BY <4>2 DEF Somewhere
    <3>3. QED
      BY <3>1, <3>2
  <2>13. at + 5 <= Len(payload) /\ at + 5 \in 1..Len(payload)
    <3>1. Has(5)
      BY <1>4
    <3>2. at + 5 <= Len(payload) /\ at \in Nat /\ Len(payload) \in Nat
      BY <2>1, <3>1 DEF Has, Inside
    <3>3. QED
      BY <3>2
  <2>14. MovesBy(5)
    BY <1>1, <2>4, <2>8, <2>13 DEF MovesBy, Doer, IInv, InBounds, MaxInt16
  <2>15. QED
    BY <1>1, <2>12, <2>14, MovesKeep
<1>5. QED
  BY <1>3, <1>4 DEF ReadTruncate

\* A relation id is read.
LEMMA RelationIdKept ==
  ASSUME IInv, ReadRelationId
  PROVE  IInv'
<1>1. Doer("relation_id")
  BY DoerIs DEF ReadRelationId
<1>2. AtRelationId
  BY <1>1, WhereItIs DEF Doer
<1>3. CASE ~Has(4) /\ Refuse
  BY <1>1, <1>3, RefuseKept DEF Doer
<1>4. CASE /\ Has(4)
           /\ left' = left - 1
           /\ Read(4, [msg EXCEPT !.relation_ids = Append(@, Take(0, 4))],
                   IF left' = 0 THEN <<>> ELSE << todo[1] >>)
           /\ UNCHANGED <<reserved, ignored>>
  <2>1. PICK c : c = Take(0, 4)
    OBVIOUS
  <2>2. PICK m : m = [msg EXCEPT !.relation_ids = Append(@, c)]
    OBVIOUS
  <2>3. PICK n : n = Len(msg.relation_ids) + left
    OBVIOUS
  <2>4. PICK j : j = left - 1
    OBVIOUS
  <2>5. Inside /\ left \in Nat /\ left > 0 /\ msg \in Truncates
    BY <1>1, <1>2 DEF AtRelationId, Doer, IInv, InBounds
  <2>6. msg.relation_ids \in Seq(Bytes(4))
    BY <2>5 DEF Truncates
  <2>7. PICK x \in Nat : x = Len(msg.relation_ids)
    BY <2>6
  <2>8. x + left <= MaxInt32
    BY <1>2, <2>7 DEF AtRelationId
  <2>9. n = x + left /\ n \in Nat /\ n <= MaxInt32 /\ j \in Nat
    BY <2>3, <2>4, <2>5, <2>7, <2>8
  <2>10. TruncateHead(msg, n) \in Seq(Byte)
    BY <2>5, <2>9, TruncateHeadType
  <2>11. Wrote(TruncateHead(msg, n) \o FlattenSeq(msg.relation_ids))
    BY <1>2, <2>3 DEF AtRelationId
  <2>12. /\ c \in Bytes(4)
         /\ Laid(payload, at + 4, TruncateHead(msg, n) \o FlattenSeq(Append(msg.relation_ids, c)),
                 ignored)
    BY <1>4, <2>1, <2>5, <2>6, <2>10, <2>11, IdLaid
  <2>13. x + 1 <= MaxInt32 /\ n = (x + 1) + j
    BY <2>4, <2>5, <2>7, <2>8, <2>9 DEF MaxInt32
  <2>14. /\ m \in Truncates /\ m.relation_ids = Append(msg.relation_ids, c)
         /\ Len(m.relation_ids) = Len(msg.relation_ids) + 1
         /\ TruncateHead(m, n) = TruncateHead(msg, n)
    <3>1. Len(msg.relation_ids) + 1 <= MaxInt32
      BY <2>7, <2>13
    <3>2. QED
      BY <2>2, <2>5, <2>12, <3>1, TruncateGrows
  <2>15. Len(m.relation_ids) + j = n
    BY <2>7, <2>13, <2>14
  <2>16. Laid(payload, at + 4, TruncateHead(m, n) \o FlattenSeq(m.relation_ids), ignored)
    BY <2>12, <2>14
  <2>17. Tail(todo) = <<>> /\ todo[1] = <<"relation_id", "">>
    BY <1>2, HeadsAre DEF NextUp
  <2>18. todo' = IF j = 0 THEN <<>> ELSE << <<"relation_id", "">> >>
    BY <1>4, <2>4, <2>17, NothingAround DEF Read
  <2>19. /\ msg' = m /\ at' = at + 4 /\ payload' = payload /\ result' = result
         /\ left' = j /\ reserved' = reserved /\ ignored' = ignored
    BY <1>4, <2>1, <2>2, <2>4 DEF Read
  <2>20. reserved = 0
    BY <1>2 DEF AtRelationId
  <2>21. Somewhere'
    <3>1. CASE j = 0
      <4>1. Encoded(m) = EncodedTruncate(m)
        BY <2>14, EncodedKinds DEF Truncates
      <4>2. Len(m.relation_ids) = n
        BY <2>9, <2>7, <2>14, <2>15, <3>1
      <4>3. Encoded(m) = TruncateHead(m, n) \o FlattenSeq(m.relation_ids)
        BY <4>1, <4>2 DEF EncodedTruncate
      <4>4. m \in Message
        BY <2>14 DEF Message
      <4>5. AtEnd'
        BY <2>16, <2>18, <2>19, <3>1, <4>3, <4>4 DEF AtEnd, Wrote
      <4>6. QED
        BY <4>5 DEF Somewhere
    <3>2. CASE j # 0
      <4>1. j > 0
        BY <2>9, <3>2
      <4>2. AtRelationId'
        BY <2>9, <2>14, <2>15, <2>16, <2>18, <2>19, <2>20, <3>2, <4>1 DEF AtRelationId, Wrote
      <4>3. QED
        BY <4>2 DEF Somewhere
    <3>3. QED
      BY <3>1, <3>2
  <2>22. MovesBy(4)
    <3>1. Has(4)
      BY <1>4
    <3>2. at + 4 <= Len(payload)
      BY <3>1 DEF Has
    <3>3. InBounds
      BY <1>1 DEF Doer, IInv
    <3>4. QED
      BY <2>9, <2>19, <3>2, <3>3 DEF MovesBy, InBounds
  <2>23. QED
    BY <1>1, <2>21, <2>22, MovesKeep
<1>5. QED
  BY <1>3, <1>4 DEF ReadRelationId

\* A row with one old value more, and with one new value more.
LEMMA OldGrows ==
  ASSUME NEW m \in OldRows, NEW v \in Cell, Len(m.old) + 1 <= MaxInt16
  PROVE  LET more == [m EXCEPT !.old = Append(@, v)] IN
         /\ m.old \in Seq(Cell) /\ Len(m.old) \in Nat
         /\ more \in OldRows /\ more.old = Append(m.old, v) /\ more.kind = m.kind
         /\ Len(more.old) = Len(m.old) + 1
         /\ RowHead(more) = RowHead(m)
<1> DEFINE vs == Append(m.old, v)
           more == [m EXCEPT !.old = Append(@, v)]
<1>1. m.old \in Seq(Cell) /\ Len(m.old) <= MaxInt16
  BY RowsAre, TupleIs
<1>2. vs \in Seq(Cell) /\ Len(vs) = Len(m.old) + 1 /\ Len(m.old) \in Nat
  BY <1>1
<1>3. vs \in Tuple
  BY <1>2, TupleIs
<1>4. more = [m EXCEPT !.old = vs]
  BY DEF OldRows, Rows
<1> HIDE DEF vs, more
<1>5. /\ more \in OldRows /\ more.old = vs /\ more.kind = m.kind /\ more.tag = m.tag
      /\ more.relation_id = m.relation_id
  BY <1>3, <1>4 DEF OldRows, Rows
<1>6. RowHead(more) = RowHead(m)
  BY <1>5 DEF RowHead
<1>7. QED
  BY <1>1, <1>2, <1>5, <1>6 DEF vs, more

\* A row message with one more value in its new tuple.
LEMMA NewGrows ==
  ASSUME NEW m \in NewRows, NEW v \in Cell, Len(m.new) + 1 <= MaxInt16
  PROVE  LET more == [m EXCEPT !.new = Append(@, v)] IN
         /\ m.new \in Seq(Cell) /\ Len(m.new) \in Nat
         /\ more \in NewRows /\ more.new = Append(m.new, v)
         /\ Len(more.new) = Len(m.new) + 1
         /\ NewHead(more) = NewHead(m)
<1> DEFINE vs == Append(m.new, v)
           more == [m EXCEPT !.new = Append(@, v)]
<1>1. m.new \in Seq(Cell) /\ Len(m.new) <= MaxInt16
  BY RowsAre, TupleIs
<1>2. vs \in Seq(Cell) /\ Len(vs) = Len(m.new) + 1 /\ Len(m.new) \in Nat
  BY <1>1
<1>3. vs \in Tuple
  BY <1>2, TupleIs
<1>4. more = [m EXCEPT !.new = vs]
  BY DEF NewRows, Rows
<1> HIDE DEF vs, more
<1>5. /\ more \in NewRows /\ more.new = vs /\ more.kind = m.kind /\ more.tag = m.tag
      /\ more.relation_id = m.relation_id /\ more.old = m.old
  BY <1>3, <1>4 DEF NewRows, Rows
<1>6. RowHead(more) = RowHead(m)
  BY <1>5 DEF RowHead
<1>7. OldPart(more) = OldPart(m)
  BY <1>5, <1>6 DEF OldPart
<1>8. NewHead(more) = NewHead(m)
  BY <1>5, <1>7 DEF NewHead
<1>9. QED
  BY <1>1, <1>2, <1>5, <1>8 DEF vs, more

\* A row whose old tuple, or whose new one, is complete.
LEMMA OldIsDone ==
  ASSUME NEW m \in OldRows
  PROVE  /\ OldPart(m) = RowHead(m) \o EncodedTuple(Len(m.old), m.old)
         /\ m.kind = Ascii.D => m \in Message /\ Encoded(m) = OldPart(m)
         /\ m.kind = Ascii.U => /\ m \in NewRows /\ m.new = <<>>
                                /\ NewHead(m) = OldPart(m) \o <<Ascii.N>>
<1>1. m.tag # Ascii.N /\ m.new = <<>> /\ <<>> \in Tuple
  BY RowsAre
<1>2. OldPart(m) = RowHead(m) \o EncodedTuple(Len(m.old), m.old)
  BY <1>1 DEF OldPart
<1>3. ASSUME m.kind = Ascii.D
      PROVE  m \in Message /\ Encoded(m) = OldPart(m)
  <2>1. m \in Rows({Ascii.D}, {Ascii.O, Ascii.K}, Tuple, {<<>>})
    BY <1>3 DEF OldRows, Rows
  <2>2. QED
    BY <1>3, <2>1, EncodedKinds DEF Message
<1>4. ASSUME m.kind = Ascii.U
      PROVE  m \in NewRows /\ NewHead(m) = OldPart(m) \o <<Ascii.N>>
  <2>1. m \in Rows({Ascii.U}, {Ascii.O, Ascii.K}, Tuple, Tuple)
    BY <1>1, <1>4 DEF OldRows, Rows
  <2>2. QED
    BY <1>1, <1>4, <2>1 DEF NewHead, NewRows
<1>5. QED
  BY <1>1, <1>2, <1>3, <1>4

\* A row message with a whole new tuple is written in full.
LEMMA NewIsDone ==
  ASSUME NEW m \in NewRows
  PROVE  m \in Message /\ Encoded(m) = NewHead(m) \o EncodedTuple(Len(m.new), m.new)
<1>1. m \in Message
  BY DEF NewRows, Message
<1>2. m.kind \in {Ascii.I, Ascii.U}
  BY RowsAre
<1>3. QED
  BY <1>1, <1>2, EncodedKinds DEF EncodedNew

\* There the decoder goes on.
LEMMA OldArrives ==
  ASSUME NEW m \in OldRows, msg' = m, todo' = BehindOld(m), reserved' <= MaxInt16,
         Laid(payload', at', RowHead(m) \o EncodedTuple(Len(m.old), m.old), ignored')
  PROVE  Somewhere'
<1>1. Laid(payload', at', OldPart(m), ignored')
  BY OldIsDone
<1>2. m.kind \in {Ascii.U, Ascii.D} /\ Ascii.U # Ascii.D
  BY RowsAre, KindsDiffer
<1>3. CASE m.kind = Ascii.D
  <2>1. todo' = <<>>
    BY <1>3 DEF BehindOld
  <2>2. m \in Message /\ Encoded(m) = OldPart(m)
    BY <1>3, OldIsDone
  <2>3. AtEnd'
    BY <1>1, <2>1, <2>2 DEF AtEnd, Wrote
  <2>4. QED
    BY <2>3 DEF Somewhere
<1>4. CASE m.kind = Ascii.U
  <2>1. todo' = << <<"tag", "">>, <<"count", "new">> >>
    BY <1>2, <1>4 DEF BehindOld
  <2>2. AtTag'
    BY <1>1, <1>4, <2>1 DEF AtTag, Wrote
  <2>3. QED
    BY <2>2 DEF Somewhere
<1>5. QED
  BY <1>2, <1>3, <1>4

\* Behind the last value of the new tuple the message is at its end.
LEMMA NewArrives ==
  ASSUME NEW m \in NewRows, msg' = m, todo' = <<>>,
         Laid(payload', at', NewHead(m) \o EncodedTuple(Len(m.new), m.new), ignored')
  PROVE  Somewhere'
<1>1. m \in Message /\ Laid(payload', at', Encoded(m), ignored')
  BY NewIsDone
<1>2. AtEnd'
  BY <1>1 DEF AtEnd, Wrote
<1>3. QED
  BY <1>2 DEF Somewhere

\* Three parts, one behind the other.
LEMMA ThreeParts ==
  ASSUME NEW x, NEW y, NEW z
  PROVE  (<<x>> \o <<y>> \o <<z>>) \o <<>> = <<x>> \o <<y, z>>
<1> DEFINE S == {x, y, z}
           a == <<x>>
           b == <<y>>
           c == <<z>>
           d == <<y, z>>
           e == b \o c
<1>1. x \in S /\ y \in S /\ z \in S
  OBVIOUS
<1> HIDE DEF S
<1>2. a \in Seq(S) /\ b \in Seq(S) /\ c \in Seq(S) /\ d \in Seq(S)
  BY <1>1
<1>3. Len(b) = 1 /\ Len(c) = 1 /\ b[1] = y /\ c[1] = z /\ Len(d) = 2 /\ d[1] = y /\ d[2] = z
  OBVIOUS
<1> HIDE DEF a, b, c, d
<1>4. /\ e \in Seq(S) /\ Len(e) = Len(b) + Len(c)
      /\ \A i \in 1..Len(b) : e[i] = b[i]
      /\ \A i \in 1..Len(c) : e[Len(b) + i] = c[i]
  BY <1>2, ConcatIs
<1> HIDE DEF e
<1>5. Len(e) = 2 /\ e[1] = y /\ e[2] = z
  BY <1>3, <1>4
<1>6. \A i \in 1..Len(e) : e[i] = d[i]
  BY <1>3, <1>5
<1>7. e = d
  BY <1>2, <1>3, <1>4, <1>5, <1>6, SeqEqual
<1>8. (a \o b) \o c = a \o e
  <2>1. Associate(a, b, c)
    BY <1>2, TheyAssociate
  <2>2. QED
    BY <2>1 DEF e, Associate
<1>9. a \o d \in Seq(S)
  BY <1>2
<1>10. (a \o d) \o <<>> = a \o d
  BY <1>9, ConcatEmptySeq
<1>11. QED
  BY <1>7, <1>8, <1>10 DEF a, b, c, d

\* Nothing in front of the work behind an old tuple.
LEMMA NothingBefore ==
  ASSUME NEW m
  PROVE  <<>> \o BehindOld(m) = BehindOld(m)
<1> DEFINE y == <<"tag", "">>
           z == <<"count", "new">>
           t == BehindOld(m)
<1>1. t = <<>> \/ t = <<y, z>>
  BY DEF BehindOld
<1> HIDE DEF y, z, t
<1>2. <<>> \in Seq({y, z}) /\ <<y, z>> \in Seq({y, z})
  OBVIOUS
<1>3. t \in Seq({y, z})
  BY <1>1, <1>2
<1>4. <<>> \o t = t
  BY <1>3, ConcatEmptySeq
<1>5. QED
  BY <1>4 DEF t

\* The head of a row message is read.
LEMMA RowKept ==
  ASSUME IInv, ReadRow
  PROVE  IInv'
<1>1. Doer("row")
  BY DoerIs DEF ReadRow
<1>2. PICK k \in {Ascii.I, Ascii.U, Ascii.D} : InBody(k)
  BY <1>1, WhereItIs DEF Doer
<1>3. CASE ~(Has(5) /\ U8(4) \in Tags(msg.kind)) /\ Refuse
  BY <1>1, <1>3, RefuseKept DEF Doer
<1>4. CASE /\ Has(5) /\ U8(4) \in Tags(msg.kind)
           /\ Read(5, [kind |-> msg.kind, relation_id |-> Take(0, 4), tag |-> U8(4),
                       old |-> <<>>, new |-> <<>>], Tuples(msg.kind, U8(4)))
           /\ Keep
  <2>1. Wrote(<<k>>) /\ msg.kind = k /\ reserved = 0 /\ Inside
    BY <1>1, <1>2 DEF InBody, Doer
  <2>2. PICK g : g = U8(4)
    OBVIOUS
  <2>3. PICK i : i = Take(0, 4)
    OBVIOUS
  <2>4. PICK m : m = [kind |-> k, relation_id |-> i, tag |-> g, old |-> <<>>, new |-> <<>>]
    OBVIOUS
  <2>5. i \in Bytes(4) /\ Laid(payload, at + 5, RowHead(m), ignored)
    <3>1. m = RowRead(k)
      BY <2>2, <2>3, <2>4 DEF RowRead
    <3>2. QED
      BY <1>4, <2>1, <2>3, <3>1, RowLaid
  <2>6. g \in Tags(k)
    BY <1>4, <2>1, <2>2
  <2>7. /\ k = Ascii.I => g = Ascii.N
        /\ k = Ascii.U => g \in {Ascii.N, Ascii.O, Ascii.K}
        /\ k = Ascii.D => g \in {Ascii.O, Ascii.K}
    BY <2>6, KindsDiffer DEF Tags
  <2>8. Tail(todo) = <<>>
    BY <1>2, HeadsAre DEF NextUp
  <2>9. /\ msg' = m /\ at' = at + 5 /\ payload' = payload /\ result' = result
        /\ left' = left /\ reserved' = reserved /\ ignored' = ignored
        /\ todo' = Tuples(k, g) \o <<>>
    BY <1>4, <2>1, <2>2, <2>3, <2>4, <2>8 DEF Read, Keep
  <2>10. /\ m.kind = k /\ m.tag = g /\ m.relation_id = i /\ m.old = <<>> /\ m.new = <<>>
         /\ <<>> \in Tuple
    BY <2>4, RowsAre
  <2>11. Somewhere'
    <3>1. CASE g = Ascii.N
      <4>1. k \in {Ascii.I, Ascii.U}
        BY <2>7, <3>1, KindsDiffer
      <4>2. m \in NewRows
        BY <2>4, <2>5, <2>10, <3>1, <4>1 DEF NewRows, Rows
      <4>3. NewHead(m) = RowHead(m)
        BY <2>10, <3>1 DEF NewHead, OldPart
      <4>4. todo' = << <<"count", "new">> >>
        BY <2>9, <3>1, NothingAround DEF Tuples, New
      <4>5. reserved' <= MaxInt16
        BY <2>1, <2>9 DEF MaxInt16
      <4>6. AtNewCount'
        BY <2>5, <2>9, <2>10, <4>2, <4>3, <4>4, <4>5 DEF AtNewCount, Wrote
      <4>7. QED
        BY <4>6 DEF Somewhere
    <3>2. CASE g # Ascii.N
      <4>1. k \in {Ascii.U, Ascii.D} /\ g \in {Ascii.O, Ascii.K}
        BY <1>2, <2>7, <3>2
      <4>2. m \in OldRows
        BY <2>4, <2>5, <2>10, <4>1 DEF OldRows, Rows
      <4>3. todo' = << <<"count", "old">> >> \o BehindOld(m)
        <5> DEFINE x == <<"count", "old">>
                   y == <<"tag", "">>
                   z == <<"count", "new">>
                   S == {x, y, z}
        <5>1. CASE k = Ascii.D
          BY <2>9, <2>10, <3>2, <5>1, NothingAround DEF Tuples, Old, BehindOld
        <5>2. CASE k = Ascii.U
          <6>1. Tuples(k, g) = <<x>> \o <<y>> \o <<z>>
            BY <3>2, <5>2, KindsDiffer DEF Tuples, Old, New
          <6>2. BehindOld(m) = <<y, z>>
            BY <2>10, <5>2, KindsDiffer DEF BehindOld
          <6> HIDE DEF x, y, z, S
          <6>3. (<<x>> \o <<y>> \o <<z>>) \o <<>> = <<x>> \o <<y, z>>
            BY ThreeParts
          <6>4. QED
            BY <2>9, <6>1, <6>2, <6>3 DEF x
        <5>3. QED
          BY <4>1, <5>1, <5>2
      <4>4. AtOldCount'
        BY <2>1, <2>5, <2>9, <2>10, <4>2, <4>3 DEF AtOldCount, Wrote
      <4>5. QED
        BY <4>4 DEF Somewhere
    <3>3. QED
      BY <3>1, <3>2
  <2>12. MovesBy(5)
    <3>1. Has(5)
      BY <1>4
    <3>2. at + 5 <= Len(payload)
      BY <3>1 DEF Has
    <3>3. InBounds
      BY <1>1 DEF Doer, IInv
    <3>4. QED
      BY <2>9, <3>2, <3>3 DEF MovesBy, InBounds
  <2>13. QED
    BY <1>1, <2>11, <2>12, MovesKeep
<1>5. QED
  BY <1>3, <1>4 DEF ReadRow

\* The tag of a new tuple is read.
LEMMA TagKept ==
  ASSUME IInv, ReadTag
  PROVE  IInv'
<1>1. Doer("tag")
  BY DoerIs DEF ReadTag
<1>2. AtTag
  BY <1>1, WhereItIs DEF Doer
<1>3. CASE ~(Has(1) /\ U8(0) = Ascii.N) /\ Refuse
  BY <1>1, <1>3, RefuseKept DEF Doer
<1>4. CASE Has(1) /\ U8(0) = Ascii.N /\ Read(1, msg, <<>>) /\ Keep
  <2>1. PICK m : m = msg
    OBVIOUS
  <2>2. m \in OldRows /\ m.kind = Ascii.U /\ reserved <= MaxInt16 /\ Wrote(OldPart(m))
    BY <1>2, <2>1 DEF AtTag
  <2>3. m \in NewRows /\ m.new = <<>> /\ NewHead(m) = OldPart(m) \o <<Ascii.N>>
    BY <2>2, OldIsDone
  <2>4. Inside /\ at \in Nat /\ Len(payload) \in Nat
    BY <1>1 DEF Doer, Inside
  <2>5. at + 1 <= Len(payload)
    BY <1>4 DEF Has
  <2> DEFINE q == at + 1
  <2>6. Has(0 + 1) /\ 0 \in Nat /\ at = at + 0 /\ q = at + 1
    BY <2>4, <2>5 DEF Has
  <2>7. Laid(payload, at, OldPart(m), ignored)
    BY <2>2 DEF Wrote
  <2> HIDE DEF q
  <2>8. Laid(payload, q, OldPart(m) \o <<U8(0)>>, ignored)
    BY <2>4, <2>6, <2>7, ByteLaid
  <2>9. Laid(payload, at + 1, NewHead(m), ignored)
    BY <1>4, <2>3, <2>8 DEF q
  <2>10. Tail(todo) = << <<"count", "new">> >>
    BY <1>2, HeadsAre DEF NextUp
  <2>11. todo' = << <<"count", "new">> >>
    BY <1>4, <2>10, NothingAround DEF Read
  <2>12. /\ msg' = m /\ at' = at + 1 /\ payload' = payload /\ result' = result
         /\ left' = left /\ reserved' = reserved /\ ignored' = ignored
    BY <1>4, <2>1 DEF Read, Keep
  <2>13. AtNewCount'
    BY <2>2, <2>3, <2>9, <2>11, <2>12 DEF AtNewCount, Wrote
  <2>14. Somewhere'
    BY <2>13 DEF Somewhere
  <2>15. MovesBy(1)
    BY <1>1, <2>5, <2>12 DEF MovesBy, Doer, IInv, InBounds
  <2>16. QED
    BY <1>1, <2>14, <2>15, MovesKeep
<1>5. QED
  BY <1>3, <1>4 DEF ReadTag

\* The count of a tuple is read.
LEMMA CountKept ==
  ASSUME IInv, ReadCount
  PROVE  IInv'
<1>1. Doer("count")
  BY DoerIs DEF ReadCount
<1>2. AtOldCount \/ AtNewCount
  BY <1>1, WhereItIs DEF Doer
<1>3. CASE ~(Has(2) /\ I16(0) >= 0) /\ Refuse
  BY <1>1, <1>3, RefuseKept DEF Doer
<1>4. CASE /\ Has(2) /\ I16(0) >= 0
           /\ left' = I16(0)
           /\ reserved' = reserved + left'
           /\ Read(2, msg, IF left' = 0 THEN <<>> ELSE << <<"value", todo[1][2]>> >>)
           /\ UNCHANGED ignored
  <2>1. PICK n : n = I16(0)
    OBVIOUS
  <2>2. PICK m : m = msg
    OBVIOUS
  <2>3. Inside /\ InBounds
    BY <1>1 DEF Doer, IInv
  <2>4. ASSUME NEW s, Wrote(s)
        PROVE  /\ n \in Nat /\ n <= MaxInt16
               /\ Laid(payload, at + 2, s \o EncodedTuple(n, <<>>), ignored)
    BY <1>4, <2>1, <2>3, <2>4, CountLaid
  <2>5. /\ msg' = m /\ at' = at + 2 /\ payload' = payload /\ result' = result
        /\ left' = n /\ reserved' = reserved + n /\ ignored' = ignored
    BY <1>4, <2>1, <2>2 DEF Read
  <2>6. at + 2 <= Len(payload)
    BY <1>4 DEF Has
  <2>7. CASE AtOldCount
    <3>1. m \in OldRows /\ m.old = <<>> /\ reserved = 0 /\ Wrote(RowHead(m))
      BY <2>2, <2>7 DEF AtOldCount
    <3>2. /\ n \in Nat /\ n <= MaxInt16
          /\ Laid(payload, at + 2, RowHead(m) \o EncodedTuple(n, <<>>), ignored)
      BY <2>4, <3>1
    <3>3. Len(m.old) = 0
      BY <3>1
    <3>4. todo[1] = <<"count", "old">> /\ Tail(todo) = BehindOld(m)
      BY <2>2, <2>7, HeadsAre DEF NextUp
    <3>5. todo[1][2] = "old"
      BY <3>4
    <3>6. todo' = (IF n = 0 THEN <<>> ELSE << <<"value", "old">> >>) \o BehindOld(m)
      BY <1>4, <2>5, <3>4, <3>5 DEF Read
    <3>7. reserved' <= MaxInt16 /\ reserved' \in Nat
      BY <2>5, <3>1, <3>2
    <3>8. MovesBy(2)
      <4>1. reserved' <= 2 * MaxInt16
        BY <3>7 DEF MaxInt16
      <4>2. QED
        BY <2>3, <2>5, <2>6, <3>2, <3>7, <4>1 DEF MovesBy, InBounds
    <3>9. CASE n = 0
      <4>1. todo' = BehindOld(m)
        BY <3>6, <3>9, NothingBefore
      <4>2. Laid(payload', at', RowHead(m) \o EncodedTuple(Len(m.old), m.old), ignored')
        BY <2>5, <3>1, <3>2, <3>3, <3>9
      <4>3. Somewhere'
        BY <2>5, <3>1, <3>7, <4>1, <4>2, OldArrives
      <4>4. QED
        BY <1>1, <3>8, <4>3, MovesKeep
    <3>10. CASE n # 0
      <4>1. n > 0 /\ Len(m.old) + n = n
        BY <3>2, <3>3, <3>10
      <4>2. AtOldValue'
        BY <2>5, <3>1, <3>2, <3>6, <3>7, <3>10, <4>1 DEF AtOldValue, Wrote
      <4>3. Somewhere'
        BY <4>2 DEF Somewhere
      <4>4. QED
        BY <1>1, <3>8, <4>3, MovesKeep
    <3>11. QED
      BY <3>9, <3>10
  <2>8. CASE AtNewCount
    <3>1. m \in NewRows /\ m.new = <<>> /\ reserved <= MaxInt16 /\ Wrote(NewHead(m))
      BY <2>2, <2>8 DEF AtNewCount
    <3>2. /\ n \in Nat /\ n <= MaxInt16
          /\ Laid(payload, at + 2, NewHead(m) \o EncodedTuple(n, <<>>), ignored)
      BY <2>4, <3>1
    <3>3. Len(m.new) = 0
      BY <3>1
    <3>4. todo[1] = <<"count", "new">> /\ Tail(todo) = <<>>
      BY <2>8, HeadsAre DEF NextUp
    <3>5. todo[1][2] = "new"
      BY <3>4
    <3>6. todo' = (IF n = 0 THEN <<>> ELSE << <<"value", "new">> >>) \o <<>>
      BY <1>4, <2>5, <3>4, <3>5 DEF Read
    <3>7. todo' = IF n = 0 THEN <<>> ELSE << <<"value", "new">> >>
      BY <3>6, NothingAround
    <3>8. reserved' <= 2 * MaxInt16 /\ reserved' \in Nat
      BY <2>3, <2>5, <3>1, <3>2 DEF InBounds, MaxInt16
    <3>9. Somewhere'
      <4>1. CASE n = 0
        <5>1. Laid(payload', at', NewHead(m) \o EncodedTuple(Len(m.new), m.new), ignored')
          BY <2>5, <3>1, <3>2, <3>3, <4>1
        <5>2. QED
          BY <2>5, <3>1, <3>7, <4>1, <5>1, NewArrives
      <4>2. CASE n # 0
        <5>1. n > 0 /\ Len(m.new) + n = n
          BY <3>2, <3>3, <4>2
        <5>2. AtNewValue'
          BY <2>5, <3>1, <3>2, <3>7, <4>2, <5>1 DEF AtNewValue, Wrote
        <5>3. QED
          BY <5>2 DEF Somewhere
      <4>3. QED
        BY <4>1, <4>2
    <3>10. MovesBy(2)
      BY <2>3, <2>5, <2>6, <3>2, <3>8 DEF MovesBy, InBounds
    <3>11. QED
      BY <1>1, <3>9, <3>10, MovesKeep
  <2>9. QED
    BY <1>2, <2>7, <2>8
<1>5. QED
  BY <1>3, <1>4 DEF ReadCount

\* A value is read.
LEMMA ValueKept ==
  ASSUME IInv, ReadValue
  PROVE  IInv'
<1>1. Doer("value")
  BY DoerIs DEF ReadValue
<1>2. AtOldValue \/ AtNewValue
  BY <1>1, WhereItIs DEF Doer
<1>3. CASE ~ValueIsThere /\ Refuse
  BY <1>1, <1>3, RefuseKept DEF Doer
<1>4. CASE /\ ValueIsThere
           /\ left' = left - 1
           /\ Read(ValueLen, [msg EXCEPT ![todo[1][2]] = Append(@, ValueRead)],
                   IF left' = 0 THEN <<>> ELSE << todo[1] >>)
           /\ UNCHANGED <<reserved, ignored>>
  <2>1. PICK v : v = ValueRead
    OBVIOUS
  <2>2. PICK l : l = ValueLen
    OBVIOUS
  <2>3. PICK j : j = left - 1
    OBVIOUS
  <2>4. Inside /\ InBounds /\ left \in Nat
    BY <1>1 DEF Doer, IInv, InBounds
  <2>5. ASSUME NEW h \in Seq(Byte), NEW vs \in Seq(Cell), NEW n \in Nat, n <= MaxInt16,
               Wrote(h \o EncodedTuple(n, vs))
        PROVE  /\ v \in Cell /\ l \in Nat /\ l >= 1 /\ at + l <= Len(payload)
               /\ Laid(payload, at + l, h \o EncodedTuple(n, Append(vs, v)), ignored)
    BY <1>4, <2>1, <2>2, <2>4, <2>5, ValueLaid
  <2>6. /\ at' = at + l /\ payload' = payload /\ result' = result /\ left' = j
        /\ reserved' = reserved /\ ignored' = ignored
    BY <1>4, <2>2, <2>3 DEF Read
  <2>7. CASE AtOldValue
    <3>1. PICK m : m = msg
      OBVIOUS
    <3>2. PICK x : x = Len(m.old)
      OBVIOUS
    <3>3. PICK n : n = x + left
      OBVIOUS
    <3>4. /\ m \in OldRows /\ left > 0 /\ reserved <= MaxInt16 /\ n <= MaxInt16
          /\ Wrote(RowHead(m) \o EncodedTuple(n, m.old))
      BY <2>7, <3>1, <3>2, <3>3 DEF AtOldValue
    <3>5. m.old \in Seq(Cell) /\ x \in Nat
      BY <3>2, <3>4, RowsAre, TupleIs
    <3>6. n \in Nat /\ j \in Nat /\ x + 1 <= MaxInt16 /\ n = (x + 1) + j
      BY <2>3, <2>4, <3>3, <3>4, <3>5 DEF MaxInt16
    <3>7. RowHead(m) \in Seq(Byte)
      BY <3>4, RowsAre, RowHeadType
    <3>8. /\ v \in Cell /\ l \in Nat /\ l >= 1 /\ at + l <= Len(payload)
          /\ Laid(payload, at + l, RowHead(m) \o EncodedTuple(n, Append(m.old, v)), ignored)
      BY <2>5, <3>4, <3>5, <3>6, <3>7
    <3>9. PICK w : w = [m EXCEPT !.old = Append(@, v)]
      OBVIOUS
    <3>10. /\ w \in OldRows /\ w.old = Append(m.old, v) /\ w.kind = m.kind
           /\ Len(w.old) = x + 1 /\ RowHead(w) = RowHead(m)
      BY <3>2, <3>4, <3>6, <3>8, <3>9, OldGrows
    <3>11. todo[1] = <<"value", "old">> /\ Tail(todo) = BehindOld(m)
      BY <2>7, <3>1, HeadsAre DEF NextUp
    <3>12. todo[1][2] = "old"
      BY <3>11
    <3>13. msg' = w
      <4>1. msg' = [msg EXCEPT !["old"] = Append(@, v)]
        BY <1>4, <2>1, <3>12 DEF Read
      <4>2. QED
        BY <3>1, <3>9, <4>1
    <3>14. todo' = (IF j = 0 THEN <<>> ELSE << <<"value", "old">> >>) \o BehindOld(w)
      <4>1. BehindOld(w) = BehindOld(m)
        BY <3>10 DEF BehindOld
      <4>2. QED
        BY <1>4, <2>6, <3>11, <4>1 DEF Read
    <3>15. Laid(payload', at', RowHead(w) \o EncodedTuple(n, w.old), ignored')
      BY <2>6, <3>8, <3>10
    <3>16. Somewhere'
      <4>1. CASE j = 0
        <5>1. todo' = BehindOld(w)
          BY <3>14, <4>1, NothingBefore
        <5>2. n = Len(w.old)
          BY <3>5, <3>6, <3>10, <4>1
        <5>3. QED
          BY <2>6, <3>4, <3>10, <3>13, <3>15, <5>1, <5>2, OldArrives
      <4>2. CASE j # 0
        <5>1. j > 0 /\ Len(w.old) + j = n
          BY <3>5, <3>6, <3>10, <4>2
        <5>2. AtOldValue'
          BY <2>6, <3>4, <3>10, <3>13, <3>14, <3>15, <4>2, <5>1 DEF AtOldValue, Wrote
        <5>3. QED
          BY <5>2 DEF Somewhere
      <4>3. QED
        BY <4>1, <4>2
    <3>17. MovesBy(l)
      BY <2>4, <2>6, <3>6, <3>8 DEF MovesBy, InBounds
    <3>18. QED
      BY <1>1, <3>16, <3>17, MovesKeep
  <2>8. CASE AtNewValue
    <3>1. PICK m : m = msg
      OBVIOUS
    <3>2. PICK x : x = Len(m.new)
      OBVIOUS
    <3>3. PICK n : n = x + left
      OBVIOUS
    <3>4. /\ m \in NewRows /\ left > 0 /\ n <= MaxInt16
          /\ Wrote(NewHead(m) \o EncodedTuple(n, m.new))
      BY <2>8, <3>1, <3>2, <3>3 DEF AtNewValue
    <3>5. m.new \in Seq(Cell) /\ x \in Nat
      BY <3>2, <3>4, RowsAre, TupleIs
    <3>6. n \in Nat /\ j \in Nat /\ x + 1 <= MaxInt16 /\ n = (x + 1) + j
      BY <2>3, <2>4, <3>3, <3>4, <3>5 DEF MaxInt16
    <3>7. NewHead(m) \in Seq(Byte)
      BY <3>4, NewHeadType
    <3>8. /\ v \in Cell /\ l \in Nat /\ l >= 1 /\ at + l <= Len(payload)
          /\ Laid(payload, at + l, NewHead(m) \o EncodedTuple(n, Append(m.new, v)), ignored)
      BY <2>5, <3>4, <3>5, <3>6, <3>7
    <3>9. PICK w : w = [m EXCEPT !.new = Append(@, v)]
      OBVIOUS
    <3>10. /\ w \in NewRows /\ w.new = Append(m.new, v)
           /\ Len(w.new) = x + 1 /\ NewHead(w) = NewHead(m)
      BY <3>2, <3>4, <3>6, <3>8, <3>9, NewGrows
    <3>11. todo[1] = <<"value", "new">> /\ Tail(todo) = <<>>
      BY <2>8, HeadsAre DEF NextUp
    <3>12. todo[1][2] = "new"
      BY <3>11
    <3>13. msg' = w
      <4>1. msg' = [msg EXCEPT !["new"] = Append(@, v)]
        BY <1>4, <2>1, <3>12 DEF Read
      <4>2. QED
        BY <3>1, <3>9, <4>1
    <3>14. todo' = IF j = 0 THEN <<>> ELSE << <<"value", "new">> >>
      BY <1>4, <2>6, <3>11, NothingAround DEF Read
    <3>15. Laid(payload', at', NewHead(w) \o EncodedTuple(n, w.new), ignored')
      BY <2>6, <3>8, <3>10
    <3>16. Somewhere'
      <4>1. CASE j = 0
        <5>1. n = Len(w.new)
          BY <3>5, <3>6, <3>10, <4>1
        <5>2. QED
          BY <3>10, <3>13, <3>14, <3>15, <4>1, <5>1, NewArrives
      <4>2. CASE j # 0
        <5>1. j > 0 /\ Len(w.new) + j = n
          BY <3>5, <3>6, <3>10, <4>2
        <5>2. AtNewValue'
          BY <2>6, <3>4, <3>10, <3>13, <3>14, <3>15, <4>2, <5>1 DEF AtNewValue, Wrote
        <5>3. QED
          BY <5>2 DEF Somewhere
      <4>3. QED
        BY <4>1, <4>2
    <3>17. MovesBy(l)
      BY <2>4, <2>6, <3>6, <3>8 DEF MovesBy, InBounds
    <3>18. QED
      BY <1>1, <3>16, <3>17, MovesKeep
  <2>9. QED
    BY <1>2, <2>7, <2>8
<1>5. QED
  BY <1>3, <1>4 DEF ReadValue

\* The decoder finishes.
LEMMA FinishKept ==
  ASSUME IInv, Finish
  PROVE  IInv'
<1>1. /\ InBounds /\ Somewhere /\ reads <= at /\ todo = <<>> /\ reads' = reads + 1
      /\ result' = (IF at = Len(payload) THEN "ok" ELSE "decode")
      /\ UNCHANGED <<payload, at, todo, left, msg, reserved, ignored>>
  BY DEF IInv, Finish
<1>2. AtEnd
  <2>1. \A a, b, rest : ~NextUp(a, b, rest)
    BY <1>1 DEF NextUp
  <2>2. ~AtBody
    BY <2>1, HeadsAre DEF AtBody
  <2>3. QED
    BY <1>1, <2>1, <2>2, HeadsAre DEF Somewhere
<1>3. AtEnd'
  BY <1>1, <1>2 DEF AtEnd, Wrote
<1>4. InBounds'
  BY <1>1 DEF InBounds
<1>5. QED
  BY <1>1, <1>3, <1>4 DEF IInv

-----------------------------------------------------------------------------
(* The theorems.                                                           *)

\* The decoder starts in front of the kind byte.
LEMMA InvariantHolds ==
  ASSUME Init
  PROVE  IInv
<1>1. payload \in Seq(Byte)
  BY PayloadsAssumption DEF Init
<1>2. Wrote(<<>>)
  <2>1. Laid(payload, 0, <<>>, {})
    BY <1>1, LaidNothing
  <2>2. QED
    BY <2>1 DEF Wrote, Init
<1>3. AtKind
  BY <1>2 DEF AtKind, Init
<1>4. InBounds
  <2>1. Len(payload) \in Nat
    BY <1>1
  <2>2. 0 \in 0..Len(payload)
    BY <2>1
  <2>3. at = 0 /\ left = 0 /\ reserved = 0 /\ reads = 0 /\ ignored = {} /\ result = "reading"
    BY DEF Init
  <2>4. 0 <= 2 * MaxInt16
    BY DEF MaxInt16
  <2>5. QED
    BY <1>1, <2>2, <2>3, <2>4 DEF InBounds
<1>5. result = "reading" /\ reads = 0 /\ at = 0
  BY DEF Init
<1>6. Somewhere
  BY <1>3 DEF Somewhere
<1>7. QED
  BY <1>4, <1>5, <1>6 DEF IInv

\* Every step keeps the invariant.
LEMMA InvariantKept ==
  ASSUME IInv, [Next]_vars
  PROVE  IInv'
<1>1. CASE ReadKind
  BY <1>1, KindKept
<1>2. CASE ReadBegin
  BY <1>2, BeginKept
<1>3. CASE ReadCommit
  BY <1>3, CommitKept
<1>4. CASE ReadRelation
  BY <1>4, RelationKept
<1>5. CASE ReadColumn
  BY <1>5, ColumnKept
<1>6. CASE ReadRow
  BY <1>6, RowKept
<1>7. CASE ReadTag
  BY <1>7, TagKept
<1>8. CASE ReadCount
  BY <1>8, CountKept
<1>9. CASE ReadValue
  BY <1>9, ValueKept
<1>10. CASE ReadTruncate
  BY <1>10, TruncateKept
<1>11. CASE ReadRelationId
  BY <1>11, RelationIdKept
<1>12. CASE Finish
  BY <1>12, FinishKept
<1>13. CASE UNCHANGED vars
  BY <1>13 DEF vars, IInv, InBounds, Somewhere, AtKind, AtBody, InBody, AtColumn, AtRelationId,
                AtOldCount, AtOldValue, AtTag, AtNewCount, AtNewValue, AtEnd, Wrote
<1>14. QED
  BY <1>1, <1>2, <1>3, <1>4, <1>5, <1>6, <1>7, <1>8, <1>9, <1>10, <1>11, <1>12, <1>13 DEF Next

\* Between two reads the bytes behind the cursor are the image of what the
\* message has so far, whatever the payload is (decode).
THEOREM DecoderInvariant == Spec => []IInv
<1>1. Init => IInv
  BY InvariantHolds
<1>2. IInv /\ [Next]_vars => IInv'
  BY InvariantKept
<1>3. QED
  BY <1>1, <1>2, PTL DEF Spec

\* The cursor stays in the payload and what is accepted is a message (Reader).
THEOREM DecoderTypes == Spec => []TypeOK
<1>1. IInv => TypeOK
  BY DEF IInv, InBounds, AtEnd, TypeOK
<1>2. QED
  BY <1>1, DecoderInvariant, PTL

\* What is accepted accounts for every byte of the payload (decode, finish).
THEOREM AcceptedIsWhatWasSent == Spec => []AcceptedMeansExact
<1>1. ASSUME IInv
      PROVE  AcceptedMeansExact
  <2>1. SUFFICES ASSUME result = "ok"
                 PROVE  /\ Len(Encoded(msg)) = Len(payload)
                        /\ \A i \in DOMAIN payload :
                              payload[i] # Encoded(msg)[i] => i \in ignored
    BY DEF AcceptedMeansExact
  <2>2. PICK s : s = Encoded(msg)
    OBVIOUS
  <2>3. payload \in Seq(Byte) /\ at = Len(payload) /\ Len(s) = at /\ Spells(payload, 0, s, ignored)
    BY <1>1, <2>1, <2>2 DEF IInv, InBounds, AtEnd, Wrote, Laid
  <2>4. \A i \in DOMAIN payload : payload[i] # s[i] => i \in ignored
    BY <2>3 DEF Spells
  <2>5. QED
    BY <2>2, <2>3, <2>4
<1>2. QED
  BY <1>1, DecoderInvariant, PTL

\* No count is trusted with more memory than 16 bits can ask for twice (decode
\* at 'T', read_tuple).
THEOREM MemoryIsBounded == Spec => []MemoryFollowsTheBytes
<1>1. IInv => MemoryFollowsTheBytes
  BY DEF IInv, InBounds, MemoryFollowsTheBytes
<1>2. QED
  BY <1>1, DecoderInvariant, PTL

\* No count makes the decoder work longer than the payload is (decode).
THEOREM WorkIsBounded == Spec => []WorkFollowsTheBytes
<1>1. IInv => WorkFollowsTheBytes
  BY DEF IInv, InBounds, WorkFollowsTheBytes
<1>2. QED
  BY <1>1, DecoderInvariant, PTL

-----------------------------------------------------------------------------
(* What a message begins with.                                             *)

\* So it is if something follows.
LEMMA StartsIt ==
  ASSUME NEW h, NEW t \in Seq(Byte)
  PROVE  Starts(h, h \o t)
BY DEF Starts

\* Everything begins with itself.
LEMMA StartsItself ==
  ASSUME NEW h \in Seq(Byte)
  PROVE  Starts(h, h)
<1>1. <<>> \in Seq(Byte)
  OBVIOUS
<1>2. h = h \o <<>>
  BY ConcatEmptySeq
<1>3. QED
  BY <1>1, <1>2 DEF Starts

\* What begins a beginning begins the whole.
LEMMA StartsOn ==
  ASSUME NEW g \in Seq(Byte), NEW h, NEW s, Starts(g, h), Starts(h, s)
  PROVE  Starts(g, s)
<1>1. PICK t \in Seq(Byte) : h = g \o t
  BY DEF Starts
<1>2. PICK u \in Seq(Byte) : s = h \o u
  BY DEF Starts
<1>3. Associate(g, t, u)
  BY BytesAssociate
<1>4. s = g \o (t \o u)
  BY <1>1, <1>2, <1>3 DEF Associate
<1>5. t \o u \in Seq(Byte)
  BY BothAre
<1>6. QED
  BY <1>4, <1>5 DEF Starts

\* The same behind the same bytes.
LEMMA StartsBehind ==
  ASSUME NEW h \in Seq(Byte), NEW t \in Seq(Byte), NEW e \in Seq(Byte), NEW s, Starts(t \o e, s)
  PROVE  Starts((h \o t) \o e, h \o s)
<1>1. PICK u \in Seq(Byte) : s = (t \o e) \o u
  BY DEF Starts
<1> DEFINE te == t \o e
<1>2. te \in Seq(Byte)
  BY BothAre
<1>3. Associate(h, t, e)
  BY BytesAssociate
<1>4. h \o te = (h \o t) \o e
  BY <1>3 DEF Associate
<1>5. s = te \o u
  BY <1>1
<1> HIDE DEF te
<1>6. Associate(h, te, u)
  BY <1>2, BytesAssociate
<1>7. h \o s = ((h \o t) \o e) \o u
  BY <1>4, <1>5, <1>6 DEF Associate
<1>8. QED
  BY <1>7 DEF Starts

\* What the payload begins with is spelled by it.
LEMMA StartIsSpelled ==
  ASSUME NEW p \in Seq(Byte), NEW s \in Seq(Byte), Starts(s, p)
  PROVE  Spells(p, 0, s, {})
<1>1. PICK t \in Seq(Byte) : p = s \o t
  BY DEF Starts
<1> DEFINE q == 0 + Len(s)
<1>2. 0 \in Nat /\ q = 0 + Len(s)
  OBVIOUS
<1> HIDE DEF q
<1>3. Halves(p, 0, q, s, t, {})
  BY <1>2, SpellsHalves
<1>4. Spells(p, 0, s \o t, {})
  BY <1>1, SpellsItself
<1>5. QED
  BY <1>3, <1>4 DEF Halves

\* Of two parts that are spelled, each is.
LEMMA Peeled ==
  ASSUME NEW p \in Seq(Byte), NEW s \in Seq(Byte), NEW e \in Seq(Byte),
         Spells(p, 0, s \o e, {}), NEW q, q = Len(s)
  PROVE  Spells(p, 0, s, {}) /\ Spells(p, q, e, {})
<1>1. 0 \in Nat /\ q = 0 + Len(s)
  OBVIOUS
<1>2. Halves(p, 0, q, s, e, {})
  BY <1>1, SpellsHalves
<1>3. QED
  BY <1>2 DEF Halves

\* What the payload has behind what the decoder has read.
LEMMA NextIs ==
  ASSUME Inside, NEW h, NEW e \in Seq(Byte), Wrote(h), Starts(h \o e, payload)
  PROVE  h \in Seq(Byte) /\ Len(h) = at /\ Spells(payload, at, e, {})
<1>1. h \in Seq(Byte) /\ Len(h) = at /\ payload \in Seq(Byte)
  BY DEF Wrote, Laid, Spells, Inside
<1> DEFINE he == h \o e
<1>2. he \in Seq(Byte) /\ Starts(he, payload) /\ he = h \o e
  BY <1>1, BothAre
<1> HIDE DEF he
<1>3. Spells(payload, 0, he, {})
  BY <1>1, <1>2, StartIsSpelled
<1>4. Spells(payload, 0, h \o e, {})
  BY <1>2, <1>3
<1>5. Spells(payload, at, e, {})
  BY <1>1, <1>4, Peeled
<1>6. QED
  BY <1>1, <1>5

\* The rows among the messages.
IsRow(m) == WithOld(m) \/ m \in NewRows

\* What they are made of.
LEMMA RowIs ==
  ASSUME NEW m, IsRow(m)
  PROVE  /\ m.kind \in {Ascii.I, Ascii.U, Ascii.D} /\ m.kind \in Byte /\ m.tag \in Byte
         /\ m.relation_id \in Bytes(4) /\ m.old \in Tuple /\ m.new \in Tuple
         /\ WithOld(m) => m.tag \in {Ascii.O, Ascii.K} /\ m.tag # Ascii.N
         /\ WithOld(m) => m.kind \in {Ascii.U, Ascii.D}
         /\ WithOld(m) /\ m.kind = Ascii.U => m \in NewRows
         /\ WithOld(m) /\ m.kind = Ascii.D => m \in OldRows /\ m.new = <<>>
<1>1. ASSUME m \in NewRows
      PROVE  /\ m.kind \in {Ascii.I, Ascii.U} /\ m.kind \in Byte /\ m.tag \in Byte
             /\ m.relation_id \in Bytes(4) /\ m.old \in Tuple /\ m.new \in Tuple
  BY <1>1, RowsAre
<1>2. ASSUME m \in Rows({Ascii.U}, {Ascii.O, Ascii.K}, Tuple, Tuple)
      PROVE  m \in NewRows /\ m.tag \in {Ascii.O, Ascii.K} /\ m.kind = Ascii.U
  BY <1>2 DEF NewRows, Rows
<1>3. ASSUME m \in Rows({Ascii.D}, {Ascii.O, Ascii.K}, Tuple, {<<>>})
      PROVE  m \in OldRows /\ m.kind = Ascii.D
  BY <1>3 DEF OldRows, Rows
<1>4. m \in OldRows => /\ m.kind \in Byte /\ m.tag \in Byte /\ m.relation_id \in Bytes(4)
                       /\ m.old \in Tuple /\ m.new = <<>> /\ m.tag \in {Ascii.O, Ascii.K}
                       /\ <<>> \in Tuple
  BY RowsAre
<1>5. Ascii.U # Ascii.D /\ Ascii.N # Ascii.O /\ Ascii.N # Ascii.K
  BY KindsDiffer
<1>6. QED
  BY <1>1, <1>2, <1>3, <1>4, <1>5 DEF IsRow, WithOld

\* A message is one of these.
LEMMA MessagesAre ==
  ASSUME NEW m \in Message
  PROVE  m \in Begins \/ m \in Commits \/ m \in Relations \/ m \in Truncates \/ IsRow(m)
<1>1. Rows({Ascii.I, Ascii.U}, {Ascii.N}, {<<>>}, Tuple) \subseteq NewRows
  BY DEF NewRows
<1>2. QED
  BY <1>1 DEF Message, IsRow, WithOld

\* The beginnings of a row.
LEMMA RowStarts ==
  ASSUME NEW m, IsRow(m)
  PROVE  /\ RowHead(m) \in Seq(Byte) /\ OldPart(m) \in Seq(Byte)
         /\ Starts(<<m.kind>>, RowHead(m)) /\ Starts(RowHead(m), OldPart(m))
         /\ Starts(OldPart(m), Encoded(m))
         /\ m \in NewRows => /\ NewHead(m) \in Seq(Byte) /\ Encoded(m) = EncodedNew(m)
                             /\ Starts(OldPart(m), NewHead(m))
<1> DEFINE a == <<m.kind>>
           b == m.relation_id
           c == <<m.tag>>
           ab == a \o b
           h == RowHead(m)
           o == OldPart(m)
<1>1. /\ m.kind \in {Ascii.I, Ascii.U, Ascii.D} /\ m.kind \in Byte /\ m.tag \in Byte
      /\ b \in Bytes(4) /\ m.old \in Tuple /\ m.new \in Tuple
  BY RowIs
<1>2. a \in Seq(Byte) /\ c \in Seq(Byte)
  BY <1>1
<1>3. b \in Seq(Byte)
  BY <1>1, BytesIs
<1>4. h \in Seq(Byte)
  BY <1>1, RowHeadType
<1>5. h = ab \o c
  BY DEF RowHead
<1> HIDE DEF a, b, c, h
<1>6. Starts(a, ab)
  BY <1>3, StartsIt
<1> HIDE DEF ab
<1>7. Starts(ab, h)
  BY <1>2, <1>5, StartsIt
<1>8. Starts(a, h)
  BY <1>2, <1>6, <1>7, StartsOn
<1>9. o \in Seq(Byte) /\ Starts(h, o)
  <2>1. CASE m.tag = Ascii.N
    <3>1. o = h
      BY <2>1 DEF OldPart, h
    <3>2. QED
      BY <1>4, <3>1, StartsItself
  <2>2. CASE m.tag # Ascii.N
    <3> DEFINE t == EncodedTuple(Len(m.old), m.old)
    <3>1. m.old \in Seq(Cell) /\ Len(m.old) <= MaxInt16
      BY <1>1, TupleIs
    <3>2. Len(m.old) \in Nat
      BY <3>1
    <3>3. t \in Seq(Byte)
      BY <3>1, <3>2, TupleType
    <3>4. o = h \o t
      BY <2>2 DEF OldPart, h
    <3> HIDE DEF t, o
    <3>5. o \in Seq(Byte)
      BY <1>4, <3>3, <3>4, BothAre
    <3>6. Starts(h, o)
      BY <3>3, <3>4, StartsIt
    <3>7. QED
      BY <3>5, <3>6
  <2>3. QED
    BY <2>1, <2>2
<1>10. ASSUME m \in NewRows
       PROVE  /\ NewHead(m) \in Seq(Byte) /\ Encoded(m) = EncodedNew(m)
              /\ Starts(o, NewHead(m)) /\ Starts(o, Encoded(m))
  <2> DEFINE n == NewHead(m)
             t == EncodedTuple(Len(m.new), m.new)
  <2>1. n \in Seq(Byte) /\ m.kind \in {Ascii.I, Ascii.U}
    BY <1>10, NewHeadType, RowsAre
  <2>2. Encoded(m) = EncodedNew(m)
    BY <2>1, EncodedKinds
  <2>3. Encoded(m) = n \o t
    BY <2>2 DEF EncodedNew
  <2>4. n = o \/ n = o \o <<Ascii.N>>
    BY DEF NewHead
  <2>5. <<Ascii.N>> \in Seq(Byte)
    <3>1. Ascii.N \in Byte
      BY AsciiIs, ByteIs
    <3>2. QED
      BY <3>1
  <2>6. m.new \in Seq(Cell) /\ Len(m.new) <= MaxInt16
    BY <1>1, TupleIs
  <2>7. Len(m.new) \in Nat
    BY <2>6
  <2>8. t \in Seq(Byte)
    BY <2>6, <2>7, TupleType
  <2> HIDE DEF n, t
  <2> HIDE DEF o
  <2>9. Starts(o, n)
    BY <1>9, <2>4, <2>5, StartsIt, StartsItself
  <2>10. Starts(n, Encoded(m))
    BY <2>3, <2>8, StartsIt
  <2>11. Starts(o, Encoded(m))
    BY <1>9, <2>9, <2>10, StartsOn
  <2>12. QED
    BY <2>1, <2>2, <2>9, <2>11 DEF n
<1>11. ASSUME m \notin NewRows
       PROVE  Starts(o, Encoded(m))
  <2>1. WithOld(m) /\ m.kind = Ascii.D
    BY <1>11, RowIs DEF IsRow
  <2>2. Encoded(m) = o
    BY <2>1, EncodedKinds
  <2>3. QED
    BY <1>9, <2>2, StartsItself
<1>12. QED
  BY <1>4, <1>8, <1>9, <1>10, <1>11 DEF a, h

\* What the first elements of a list are.
LEMMA SoFarIs ==
  ASSUME NEW S, NEW s \in Seq(S)
  PROVE  /\ Len(s) \in Nat /\ SubSeq(s, 1, 0) = <<>> /\ SubSeq(s, 1, Len(s)) = s
         /\ \A x \in Nat : x <= Len(s) => /\ SubSeq(s, 1, x) \in Seq(S)
                                         /\ Len(SubSeq(s, 1, x)) = x
         /\ \A x \in Nat : x < Len(s) => /\ s[x + 1] \in S
                                        /\ Append(SubSeq(s, 1, x), s[x + 1]) = SubSeq(s, 1, x + 1)
<1>1. Len(s) \in Nat /\ SubSeq(s, 1, 0) = <<>>
  OBVIOUS
<1>2. \A x \in Nat : x <= Len(s) => /\ SubSeq(s, 1, x) \in Seq(S) /\ Len(SubSeq(s, 1, x)) = x
                                    /\ \A i \in 1..x : SubSeq(s, 1, x)[i] = s[i]
  <2>1. SUFFICES ASSUME NEW x \in Nat, x <= Len(s)
                 PROVE  /\ SubSeq(s, 1, x) \in Seq(S) /\ Len(SubSeq(s, 1, x)) = x
                        /\ \A i \in 1..x : SubSeq(s, 1, x)[i] = s[i]
    OBVIOUS
  <2>2. \A i \in 1..x : s[i] \in S
    BY <1>1, <2>1
  <2>3. QED
    BY <1>1, <2>1, <2>2
<1>3. SubSeq(s, 1, Len(s)) = s
  <2> DEFINE t == SubSeq(s, 1, Len(s))
  <2>1. t \in Seq(S) /\ Len(t) = Len(s) /\ \A i \in 1..Len(s) : t[i] = s[i]
    BY <1>1, <1>2
  <2> HIDE DEF t
  <2>2. t = s
    BY <2>1, SeqEqual
  <2>3. QED
    BY <2>2 DEF t
<1>4. ASSUME NEW x \in Nat, x < Len(s)
      PROVE  s[x + 1] \in S /\ Append(SubSeq(s, 1, x), s[x + 1]) = SubSeq(s, 1, x + 1)
  <2> DEFINE t == SubSeq(s, 1, x)
             u == SubSeq(s, 1, x + 1)
             e == s[x + 1]
             a == Append(t, e)
             y == x + 1
  <2>1. y \in Nat /\ y <= Len(s) /\ x <= Len(s) /\ y = x + 1
    BY <1>1, <1>4
  <2>2. t \in Seq(S) /\ Len(t) = x /\ \A i \in 1..x : t[i] = s[i]
    BY <1>2, <2>1
  <2>3. u \in Seq(S) /\ Len(u) = y /\ \A i \in 1..y : u[i] = s[i]
    BY <1>2, <2>1
  <2>4. e \in S /\ e = s[y]
    BY <1>1, <2>1, ElementsAre
  <2> HIDE DEF t, u, e, y
  <2>5. a \in Seq(S) /\ Len(a) = y /\ a[y] = e /\ \A i \in 1..x : a[i] = t[i]
    BY <2>1, <2>2, <2>4
  <2> HIDE DEF a
  <2>6. \A i \in 1..y : i \in 1..x \/ i = y
    BY <2>1
  <2>7. \A i \in 1..Len(a) : a[i] = u[i]
    BY <2>1, <2>2, <2>3, <2>4, <2>5, <2>6
  <2>8. a = u
    BY <2>3, <2>5, <2>7, SeqEqual
  <2>9. QED
    BY <2>4, <2>8 DEF a, t, e, u, y
<1>5. QED
  BY <1>1, <1>2, <1>3, <1>4

\* The image of a list begins with that of its first elements and the next one.
LEMMA ListStep ==
  ASSUME NEW D, NEW f, IsCode(f, D), NEW s \in Seq(D), NEW x \in Nat, x < Len(s)
  PROVE  /\ Listed(f, SubSeq(s, 1, x)) \in Seq(Byte) /\ f[s[x + 1]] \in Seq(Byte)
         /\ Starts(Listed(f, SubSeq(s, 1, x)) \o f[s[x + 1]], Listed(f, s))
<1> DEFINE k == x + 1
<1>1. Len(s) \in Nat
  OBVIOUS
<1>2. k \in 1..Len(s) /\ k - 1 = x
  BY <1>1
<1> HIDE DEF k
<1>3. /\ SubSeq(s, 1, k - 1) \in Seq(D) /\ Listed(f, SubSeq(s, 1, k - 1)) \in Seq(Byte)
      /\ s[k] \in D
      /\ Starts(Listed(f, SubSeq(s, 1, k - 1)) \o f[s[k]], Listed(f, s))
  BY <1>2, ListSplits
<1>4. f[s[k]] \in Seq(Byte)
  BY <1>3 DEF IsCode
<1>5. QED
  BY <1>2, <1>3, <1>4 DEF k

\* The same of columns, of relation ids and of tuples.
LEMMA ColumnsStep ==
  ASSUME NEW cs \in Seq(Column), NEW x \in Nat, x < Len(cs)
  PROVE  /\ EncodedColumns(SubSeq(cs, 1, x)) \in Seq(Byte)
         /\ EncodedColumn(cs[x + 1]) \in Seq(Byte) /\ cs[x + 1] \in Column
         /\ Starts(EncodedColumns(SubSeq(cs, 1, x)) \o EncodedColumn(cs[x + 1]), EncodedColumns(cs))
<1>1. /\ Listed(ColumnCode, SubSeq(cs, 1, x)) \in Seq(Byte) /\ ColumnCode[cs[x + 1]] \in Seq(Byte)
      /\ Starts(Listed(ColumnCode, SubSeq(cs, 1, x)) \o ColumnCode[cs[x + 1]], Listed(ColumnCode, cs))
  BY Codes, ListStep
<1>2. SubSeq(cs, 1, x) \in Seq(Column) /\ cs[x + 1] \in Column
  BY SoFarIs
<1>3. /\ EncodedColumns(SubSeq(cs, 1, x)) = Listed(ColumnCode, SubSeq(cs, 1, x))
      /\ EncodedColumns(cs) = Listed(ColumnCode, cs)
      /\ ColumnCode[cs[x + 1]] = EncodedColumn(cs[x + 1])
  BY <1>2, ListsAre, Codes
<1>4. QED
  BY <1>1, <1>2, <1>3

\* Of relation ids:
LEMMA IdsStep ==
  ASSUME NEW ids \in Seq(Bytes(4)), NEW x \in Nat, x < Len(ids)
  PROVE  /\ FlattenSeq(SubSeq(ids, 1, x)) \in Seq(Byte)
         /\ ids[x + 1] \in Seq(Byte) /\ ids[x + 1] \in Bytes(4)
         /\ Starts(FlattenSeq(SubSeq(ids, 1, x)) \o ids[x + 1], FlattenSeq(ids))
<1>1. /\ Listed(IdCode, SubSeq(ids, 1, x)) \in Seq(Byte) /\ IdCode[ids[x + 1]] \in Seq(Byte)
      /\ Starts(Listed(IdCode, SubSeq(ids, 1, x)) \o IdCode[ids[x + 1]], Listed(IdCode, ids))
  BY Codes, ListStep
<1>2. SubSeq(ids, 1, x) \in Seq(Bytes(4)) /\ ids[x + 1] \in Bytes(4)
  BY SoFarIs
<1>3. /\ FlattenSeq(SubSeq(ids, 1, x)) = Listed(IdCode, SubSeq(ids, 1, x))
      /\ FlattenSeq(ids) = Listed(IdCode, ids) /\ IdCode[ids[x + 1]] = ids[x + 1]
  BY <1>2, ListsAre, Codes
<1>4. QED
  BY <1>1, <1>2, <1>3

\* Of tuples:
LEMMA TupleStep ==
  ASSUME NEW n \in Nat, n <= MaxInt16, NEW vs \in Seq(Cell), NEW x \in Nat, x < Len(vs)
  PROVE  /\ EncodedTuple(n, SubSeq(vs, 1, x)) \in Seq(Byte)
         /\ EncodedValue(vs[x + 1]) \in Seq(Byte) /\ vs[x + 1] \in Cell
         /\ Starts(EncodedTuple(n, SubSeq(vs, 1, x)) \o EncodedValue(vs[x + 1]),
                   EncodedTuple(n, vs))
<1> DEFINE b == Bytes16(n)
           l == Listed(ValueCode, SubSeq(vs, 1, x))
           e == ValueCode[vs[x + 1]]
           a == Listed(ValueCode, vs)
<1>1. l \in Seq(Byte) /\ e \in Seq(Byte) /\ Starts(l \o e, a)
  BY Codes, ListStep
<1>2. SubSeq(vs, 1, x) \in Seq(Cell) /\ vs[x + 1] \in Cell
  BY SoFarIs
<1>3. EncodedValues(SubSeq(vs, 1, x)) = l /\ EncodedValues(vs) = a /\ e = EncodedValue(vs[x + 1])
  BY <1>2, ListsAre, Codes
<1>4. b \in Seq(Byte)
  BY NumberBytes
<1>5. EncodedTuple(n, SubSeq(vs, 1, x)) = b \o l /\ EncodedTuple(n, vs) = b \o a
  BY <1>3 DEF EncodedTuple
<1> HIDE DEF b, l, e, a
<1>6. Starts((b \o l) \o e, b \o a)
  BY <1>1, <1>4, StartsBehind
<1>7. b \o l \in Seq(Byte)
  BY <1>1, <1>4, BothAre
<1>8. QED
  BY <1>1, <1>2, <1>3, <1>5, <1>6, <1>7

\* The image of a list is bytes.
LEMMA ListType ==
  ASSUME NEW D, NEW f, IsCode(f, D), NEW s \in Seq(D)
  PROVE  Listed(f, s) \in Seq(Byte)
<1>1. MappedIs(Mapped(f, s), f, s)
  BY MappedType
<1>2. Mapped(f, s) \in Seq(Seq(Byte))
  BY <1>1 DEF MappedIs
<1>3. QED
  BY <1>2, FlattenSeqType DEF Listed

\* Of columns:
LEMMA ColumnsType ==
  ASSUME NEW cs \in Seq(Column)
  PROVE  EncodedColumns(cs) \in Seq(Byte)
<1>1. Listed(ColumnCode, cs) \in Seq(Byte)
  BY Codes, ListType
<1>2. QED
  BY <1>1, ListsAre

\* Of relation ids:
LEMMA IdsType ==
  ASSUME NEW ids \in Seq(Bytes(4))
  PROVE  FlattenSeq(ids) \in Seq(Byte)
<1>1. Listed(IdCode, ids) \in Seq(Byte)
  BY Codes, ListType
<1>2. QED
  BY <1>1, ListsAre

\* And what a tuple begins with.
LEMMA TupleBegins ==
  ASSUME NEW n \in Nat, n <= MaxInt16, NEW vs \in Seq(Cell)
  PROVE  Starts(Bytes16(n), EncodedTuple(n, vs))
<1> DEFINE l == Listed(ValueCode, vs)
<1>1. EncodedTuple(n, vs) = Bytes16(n) \o l
  BY ListsAre DEF EncodedTuple
<1>2. l \in Seq(Byte)
  BY Codes, ListType
<1> HIDE DEF l
<1>3. QED
  BY <1>1, <1>2, StartsIt

-----------------------------------------------------------------------------
(* Where the decoder is on its way.                                        *)

\* The work at the head tells how much of m is read.
LEMMA TowardIs ==
  ASSUME NEW m, Toward(m), todo # <<>>, NEW p, p = todo[1][1], NEW w, w = todo[1][2]
  PROVE  /\ p \in {"begin", "commit", "relation", "truncate", "row"} =>
              Body(m.kind) = p /\ msg = [kind |-> m.kind]
         /\ p = "column" =>
              /\ m \in Relations
              /\ \E x \in Nat : left = Len(m.columns) - x /\ left > 0 /\ msg = ColumnsSoFar(m, x)
         /\ p = "relation_id" =>
              /\ m \in Truncates
              /\ \E x \in Nat : left = Len(m.relation_ids) - x /\ left > 0 /\ msg = IdsSoFar(m, x)
         /\ p = "count" /\ w = "old" => WithOld(m) /\ msg = OldSoFar(m, 0)
         /\ p = "value" /\ w = "old" =>
              /\ WithOld(m)
              /\ \E x \in Nat : left = Len(m.old) - x /\ left > 0 /\ msg = OldSoFar(m, x)
         /\ p = "tag" => WithOld(m) /\ m.kind = Ascii.U /\ msg = OldSoFar(m, Len(m.old))
         /\ p = "count" /\ w = "new" => m \in NewRows /\ msg = NewSoFar(m, 0)
         /\ p = "value" /\ w = "new" =>
              /\ m \in NewRows
              /\ \E x \in Nat : left = Len(m.new) - x /\ left > 0 /\ msg = NewSoFar(m, x)
<1>1. ASSUME NEW a, NEW b, todo = << <<a, b>> >>
      PROVE  p = a /\ w = b
  <2>1. PICK x : x = <<a, b>>
    OBVIOUS
  <2>2. todo = <<x>>
    BY <1>1, <2>1
  <2>3. todo[1] = x
    BY <2>2, OneIs
  <2>4. QED
    BY <2>1, <2>3
<1>2. ASSUME NEW a, todo = << <<a, "old">> >> \o BehindOld(m)
      PROVE  p = a /\ w = "old"
  <2>1. todo[1] = <<a, "old">>
    BY <1>2, BehindIs
  <2>2. QED
    BY <2>1
<1>3. ASSUME todo = << <<"tag", "">>, <<"count", "new">> >>
      PROVE  p = "tag"
  <2>1. PICK x, y : x = <<"tag", "">> /\ y = <<"count", "new">>
    OBVIOUS
  <2>2. todo = <<x, y>>
    BY <1>3, <2>1
  <2>3. todo[1] = x
    BY <2>2, TwoAre
  <2>4. x[1] = "tag"
    BY <2>1
  <2>5. QED
    BY <2>3, <2>4
<1>4. Body(m.kind) \in {"begin", "commit", "relation", "truncate", "row"}
  BY DEF Body
<1>5. CASE todo = << <<"kind", "">> >>
  <2>1. p = "kind"
    BY <1>1, <1>5
  <2>2. QED
    BY <2>1
<1>6. CASE todo = << <<Body(m.kind), "">> >> /\ msg = [kind |-> m.kind]
  <2>1. p = Body(m.kind)
    BY <1>1, <1>6
  <2>2. QED
    BY <1>4, <1>6, <2>1
<1>7. CASE /\ todo = << <<"column", "">> >> /\ m \in Relations
           /\ \E x \in Nat : left = Len(m.columns) - x /\ left > 0 /\ msg = ColumnsSoFar(m, x)
  <2>1. p = "column"
    BY <1>1, <1>7
  <2>2. QED
    BY <1>7, <2>1
<1>8. CASE /\ todo = << <<"relation_id", "">> >> /\ m \in Truncates
           /\ \E x \in Nat : left = Len(m.relation_ids) - x /\ left > 0 /\ msg = IdsSoFar(m, x)
  <2>1. p = "relation_id"
    BY <1>1, <1>8
  <2>2. QED
    BY <1>8, <2>1
<1>9. CASE /\ todo = << <<"count", "old">> >> \o BehindOld(m) /\ WithOld(m)
           /\ msg = OldSoFar(m, 0)
  <2>1. p = "count" /\ w = "old"
    BY <1>2, <1>9
  <2>2. QED
    BY <1>9, <2>1
<1>10. CASE /\ todo = << <<"value", "old">> >> \o BehindOld(m) /\ WithOld(m)
            /\ \E x \in Nat : left = Len(m.old) - x /\ left > 0 /\ msg = OldSoFar(m, x)
  <2>1. p = "value" /\ w = "old"
    BY <1>2, <1>10
  <2>2. QED
    BY <1>10, <2>1
<1>11. CASE /\ todo = << <<"tag", "">>, <<"count", "new">> >> /\ WithOld(m) /\ m.kind = Ascii.U
            /\ msg = OldSoFar(m, Len(m.old))
  <2>1. p = "tag"
    BY <1>3, <1>11
  <2>2. QED
    BY <1>11, <2>1
<1>12. CASE todo = << <<"count", "new">> >> /\ m \in NewRows /\ msg = NewSoFar(m, 0)
  <2>1. p = "count" /\ w = "new"
    BY <1>1, <1>12
  <2>2. QED
    BY <1>12, <2>1
<1>13. CASE /\ todo = << <<"value", "new">> >> /\ m \in NewRows
            /\ \E x \in Nat : left = Len(m.new) - x /\ left > 0 /\ msg = NewSoFar(m, x)
  <2>1. p = "value" /\ w = "new"
    BY <1>1, <1>13
  <2>2. QED
    BY <1>13, <2>1
<1>14. QED
  BY <1>5, <1>6, <1>7, <1>8, <1>9, <1>10, <1>11, <1>12, <1>13 DEF Toward

\* What is known when a part of the image of m is read.
Goer(m, part) == Doer(part) /\ m \in Message /\ payload = Encoded(m) /\ Toward(m)

\* The kinds in the order of the parts that follow them.
LEMMA KindOf ==
  ASSUME NEW m \in Message
  PROVE  /\ Body(m.kind) = "begin" => m \in Begins
         /\ Body(m.kind) = "commit" => m \in Commits
         /\ Body(m.kind) = "relation" => m \in Relations
         /\ Body(m.kind) = "truncate" => m \in Truncates
         /\ Body(m.kind) = "row" => IsRow(m)
<1>1. m \in Begins => m.kind = Ascii.B
  BY DEF Begins
<1>2. m \in Commits => m.kind = Ascii.C
  BY DEF Commits
<1>3. m \in Relations => m.kind = Ascii.R
  BY DEF Relations
<1>4. m \in Truncates => m.kind = Ascii.T
  BY DEF Truncates
<1>5. IsRow(m) => m.kind \in {Ascii.I, Ascii.U, Ascii.D}
  BY RowIs
<1>6. QED
  BY <1>1, <1>2, <1>3, <1>4, <1>5, MessagesAre, BodyIs

\* What begins something begins it when it goes on.
LEMMA StartsLonger ==
  ASSUME NEW g \in Seq(Byte), NEW h \in Seq(Byte), Starts(g, h), NEW t \in Seq(Byte)
  PROVE  Starts(g, h \o t) /\ h \o t \in Seq(Byte)
<1>1. Starts(h, h \o t)
  BY StartsIt
<1>2. Starts(g, h \o t)
  BY <1>1, StartsOn
<1>3. QED
  BY <1>2, BothAre

\* The fields of a relation.
LEMMA RelationIs ==
  ASSUME NEW m \in Relations
  PROVE  /\ m.kind = Ascii.R /\ m.kind \in Byte /\ m.id \in Bytes(4) /\ m.id \in Seq(Byte)
         /\ Len(m.id) = 4
         /\ m.namespace \in Seq(Letters) /\ m.namespace \in Seq(Byte)
         /\ m.name \in Seq(Letters) /\ m.name \in Seq(Byte)
         /\ m.replica_identity \in Byte
         /\ m.columns \in Seq(Column) /\ Len(m.columns) <= MaxInt16 /\ Len(m.columns) \in Nat
         /\ m = [kind |-> m.kind, id |-> m.id, namespace |-> m.namespace, name |-> m.name,
                 replica_identity |-> m.replica_identity, columns |-> m.columns]
<1>1. /\ m.kind = Ascii.R /\ m.id \in Bytes(4) /\ m.namespace \in Seq(Letters)
      /\ m.name \in Seq(Letters) /\ m.replica_identity \in Byte /\ m.columns \in Columns
      /\ m = [kind |-> m.kind, id |-> m.id, namespace |-> m.namespace, name |-> m.name,
              replica_identity |-> m.replica_identity, columns |-> m.columns]
  BY DEF Relations
<1>2. m.kind \in Byte
  <2>1. Ascii.R \in Byte
    BY AsciiIs, ByteIs
  <2>2. QED
    BY <1>1, <2>1
<1>3. m.id \in Seq(Byte) /\ Len(m.id) = 4
  BY <1>1, BytesIs
<1>4. m.namespace \in Seq(Byte) /\ m.name \in Seq(Byte)
  BY <1>1, TextIsBytes
<1>5. m.columns \in Seq(Column) /\ Len(m.columns) <= MaxInt16
  BY <1>1 DEF Columns
<1>6. Len(m.columns) \in Nat
  BY <1>5
<1>7. QED
  BY <1>1, <1>2, <1>3, <1>4, <1>5, <1>6

\* The fields of a truncate.
LEMMA TruncateIs ==
  ASSUME NEW m \in Truncates
  PROVE  /\ m.kind = Ascii.T /\ m.kind \in Byte
         /\ m.relation_ids \in Seq(Bytes(4)) /\ Len(m.relation_ids) <= MaxInt32
         /\ Len(m.relation_ids) \in Nat
         /\ m = [kind |-> m.kind, relation_ids |-> m.relation_ids]
<1>1. /\ m.kind = Ascii.T
      /\ m.relation_ids \in Seq(Bytes(4)) /\ Len(m.relation_ids) <= MaxInt32
      /\ m = [kind |-> m.kind, relation_ids |-> m.relation_ids]
  BY DEF Truncates
<1>2. m.kind \in Byte
  BY <1>1, AsciiIs, ByteIs
<1>3. Len(m.relation_ids) \in Nat
  BY <1>1
<1>4. QED
  BY <1>1, <1>2, <1>3

\* Every message begins with its kind, and a relation or truncate with its head.
LEMMA MessageStarts ==
  ASSUME NEW m \in Message
  PROVE  m.kind \in Byte /\ m.kind \in Supported /\ Starts(<<m.kind>>, Encoded(m))
<1>1. \A k : k \in Byte => <<k>> \in Seq(Byte)
  OBVIOUS
<1>2. CASE m \in Begins
  <2> DEFINE a == m.final_lsn
             b == m.commit_timestamp
             c == m.xid
             k == <<m.kind>>
  <2>1. m.kind = Ascii.B /\ a \in Bytes(8) /\ b \in Bytes(8) /\ c \in Bytes(4)
    BY <1>2 DEF Begins
  <2>2. a \in Seq(Byte) /\ b \in Seq(Byte) /\ c \in Seq(Byte)
    BY <2>1, BytesIs
  <2>3. m.kind \in Byte
    BY <2>1, AsciiIs, ByteIs
  <2>4. k \in Seq(Byte)
    BY <1>1, <2>3
  <2>5. Encoded(m) = k \o a \o b \o c
    BY <2>1, EncodedKinds DEF EncodedBegin
  <2> HIDE DEF k, a, b, c
  <2>6. Starts(k, k \o a) /\ k \o a \in Seq(Byte)
    BY <2>2, <2>4, StartsIt, BothAre
  <2>7. Starts(k, k \o a \o b) /\ k \o a \o b \in Seq(Byte)
    BY <2>2, <2>4, <2>6, StartsLonger
  <2>8. Starts(k, k \o a \o b \o c)
    BY <2>2, <2>4, <2>7, StartsLonger
  <2>9. QED
    BY <2>1, <2>3, <2>5, <2>8, BodyIs DEF k
<1>3. CASE m \in Commits
  <2> DEFINE f == <<m.flags>>
             a == m.commit_lsn
             b == m.end_lsn
             c == m.commit_timestamp
             k == <<m.kind>>
  <2>1. /\ m.kind = Ascii.C /\ m.flags \in Byte
        /\ a \in Bytes(8) /\ b \in Bytes(8) /\ c \in Bytes(8)
    BY <1>3 DEF Commits
  <2>2. a \in Seq(Byte) /\ b \in Seq(Byte) /\ c \in Seq(Byte)
    BY <2>1, BytesIs
  <2>3. m.kind \in Byte
    BY <2>1, AsciiIs, ByteIs
  <2>4. k \in Seq(Byte) /\ f \in Seq(Byte)
    BY <1>1, <2>1, <2>3
  <2>5. Encoded(m) = k \o f \o a \o b \o c
    BY <2>1, EncodedKinds DEF EncodedCommit
  <2> HIDE DEF k, f, a, b, c
  <2>6. Starts(k, k \o f) /\ k \o f \in Seq(Byte)
    BY <2>4, StartsIt, BothAre
  <2>7. Starts(k, k \o f \o a) /\ k \o f \o a \in Seq(Byte)
    BY <2>2, <2>4, <2>6, StartsLonger
  <2>8. Starts(k, k \o f \o a \o b) /\ k \o f \o a \o b \in Seq(Byte)
    BY <2>2, <2>4, <2>7, StartsLonger
  <2>9. Starts(k, k \o f \o a \o b \o c)
    BY <2>2, <2>4, <2>8, StartsLonger
  <2>10. QED
    BY <2>1, <2>3, <2>5, <2>9, BodyIs DEF k
<1>4. CASE m \in Relations
  <2> DEFINE k == <<m.kind>>
             i == m.id
             ns == m.namespace
             nm == m.name
             z == <<0>>
             r == <<m.replica_identity>>
             b == Bytes16(Len(m.columns))
             cs == EncodedColumns(m.columns)
  <2>1. /\ m.kind = Ascii.R /\ m.kind \in Byte /\ m.replica_identity \in Byte
        /\ i \in Seq(Byte) /\ ns \in Seq(Byte) /\ nm \in Seq(Byte)
        /\ m.columns \in Seq(Column) /\ Len(m.columns) <= MaxInt16 /\ Len(m.columns) \in Nat
    BY <1>4, RelationIs
  <2>2. b \in Seq(Byte)
    BY <2>1, NumberBytes
  <2>3. k \in Seq(Byte) /\ z \in Seq(Byte) /\ r \in Seq(Byte)
    <3>1. 0 \in Byte
      BY ByteIs
    <3>2. z \in Seq(Byte)
      BY <1>1, <3>1
    <3>3. k \in Seq(Byte) /\ r \in Seq(Byte)
      BY <1>1, <2>1
    <3>4. QED
      BY <3>2, <3>3
  <2>4. cs \in Seq(Byte)
    BY <2>1, ColumnsType
  <2>5. Encoded(m) = k \o i \o ns \o z \o nm \o z \o r \o b \o cs
    BY <2>1, EncodedKinds DEF EncodedRelation, RelationHead
  <2> HIDE DEF k, i, ns, nm, z, r, b, cs
  <2>6. Starts(k, k \o i) /\ k \o i \in Seq(Byte)
    BY <2>1, <2>3, StartsIt, BothAre
  <2>7. Starts(k, k \o i \o ns) /\ k \o i \o ns \in Seq(Byte)
    BY <2>1, <2>3, <2>6, StartsLonger
  <2>8. Starts(k, k \o i \o ns \o z) /\ k \o i \o ns \o z \in Seq(Byte)
    BY <2>3, <2>7, StartsLonger
  <2>9. Starts(k, k \o i \o ns \o z \o nm) /\ k \o i \o ns \o z \o nm \in Seq(Byte)
    BY <2>1, <2>3, <2>8, StartsLonger
  <2>10. Starts(k, k \o i \o ns \o z \o nm \o z) /\ k \o i \o ns \o z \o nm \o z \in Seq(Byte)
    BY <2>3, <2>9, StartsLonger
  <2>11. /\ Starts(k, k \o i \o ns \o z \o nm \o z \o r)
         /\ k \o i \o ns \o z \o nm \o z \o r \in Seq(Byte)
    BY <2>3, <2>10, StartsLonger
  <2>12. /\ Starts(k, k \o i \o ns \o z \o nm \o z \o r \o b)
         /\ k \o i \o ns \o z \o nm \o z \o r \o b \in Seq(Byte)
    BY <2>2, <2>3, <2>11, StartsLonger
  <2>13. Starts(k, k \o i \o ns \o z \o nm \o z \o r \o b \o cs)
    BY <2>3, <2>4, <2>12, StartsLonger
  <2>14. QED
    BY <2>1, <2>5, <2>13, BodyIs DEF k
<1>5. CASE m \in Truncates
  <2> DEFINE k == <<m.kind>>
             z == <<0>>
             b == Bytes32(Len(m.relation_ids))
             is == FlattenSeq(m.relation_ids)
  <2>1. /\ m.kind = Ascii.T /\ m.kind \in Byte /\ m.relation_ids \in Seq(Bytes(4))
        /\ Len(m.relation_ids) <= MaxInt32 /\ Len(m.relation_ids) \in Nat
    BY <1>5, TruncateIs
  <2>2. b \in Seq(Byte)
    BY <2>1, NumberBytes
  <2>3. k \in Seq(Byte) /\ z \in Seq(Byte)
    BY <1>1, <2>1, ByteIs
  <2>4. is \in Seq(Byte)
    BY <2>1, IdsType
  <2>5. Encoded(m) = k \o b \o z \o is
    BY <2>1, EncodedKinds DEF EncodedTruncate, TruncateHead
  <2> HIDE DEF k, z, b, is
  <2>6. Starts(k, k \o b) /\ k \o b \in Seq(Byte)
    BY <2>2, <2>3, StartsIt, BothAre
  <2>7. Starts(k, k \o b \o z) /\ k \o b \o z \in Seq(Byte)
    BY <2>3, <2>6, StartsLonger
  <2>8. Starts(k, k \o b \o z \o is)
    BY <2>3, <2>4, <2>7, StartsLonger
  <2>9. QED
    BY <2>1, <2>5, <2>8, BodyIs DEF k
<1>6. CASE IsRow(m)
  <2> DEFINE k == <<m.kind>>
  <2>1. m.kind \in {Ascii.I, Ascii.U, Ascii.D} /\ m.kind \in Byte
    BY <1>6, RowIs
  <2>2. k \in Seq(Byte)
    BY <1>1, <2>1
  <2>3. /\ RowHead(m) \in Seq(Byte) /\ OldPart(m) \in Seq(Byte)
        /\ Starts(k, RowHead(m)) /\ Starts(RowHead(m), OldPart(m)) /\ Starts(OldPart(m), Encoded(m))
    BY <1>6, RowStarts
  <2> HIDE DEF k
  <2>4. Starts(k, OldPart(m))
    BY <2>2, <2>3, StartsOn
  <2>5. Starts(k, Encoded(m))
    BY <2>2, <2>3, <2>4, StartsOn
  <2>6. QED
    BY <2>1, <2>5, BodyIs DEF k
<1>7. QED
  BY <1>2, <1>3, <1>4, <1>5, <1>6, MessagesAre

-----------------------------------------------------------------------------
(* The steps stay on the way.                                              *)

\* The decoder is still reading, and on the way to m.
Onward(m) == payload' = payload /\ result' = "reading" /\ Toward(m)'

\* What begins with more begins with less.
LEMMA StartsLess ==
  ASSUME NEW h \in Seq(Byte), NEW t \in Seq(Byte), NEW s, Starts(h \o t, s)
  PROVE  Starts(h, s)
<1>1. Starts(h, h \o t)
  BY StartsIt
<1>2. QED
  BY <1>1, StartsOn

\* The payload has e from q to r, behind h.
Part(h, e, q, r) ==
    Spells(payload, q, e, {}) /\ h \o e \in Seq(Byte) /\ Len(h \o e) = r /\ r <= Len(payload)

\* It does if it begins with both.
LEMMA PartIs ==
  ASSUME Inside, NEW h \in Seq(Byte), NEW e \in Seq(Byte), Starts(h \o e, payload),
         NEW q \in Nat, Len(h) = q, NEW r, r = q + Len(e)
  PROVE  Part(h, e, q, r)
<1>1. payload \in Seq(Byte)
  BY DEF Inside
<1> DEFINE he == h \o e
<1>2. he \in Seq(Byte) /\ Len(he) = r
  BY BothAre
<1>3. he = h \o e
  OBVIOUS
<1> HIDE DEF he
<1>4. Starts(he, payload)
  BY <1>3
<1>5. Spells(payload, 0, he, {})
  BY <1>1, <1>2, <1>4, StartIsSpelled
<1>6. r <= Len(payload)
  BY <1>2, <1>5 DEF Spells
<1>7. Spells(payload, 0, h \o e, {})
  BY <1>3, <1>5
<1>8. Spells(payload, q, e, {})
  BY <1>1, <1>7, Peeled
<1>9. QED
  BY <1>2, <1>3, <1>6, <1>8 DEF Part

\* How far the decoder has come when one byte is read.
LEMMA OneRead ==
  ASSUME Inside, NEW k, Wrote(<<k>>)
  PROVE  at = 1
<1>1. Len(<<k>>) = 1
  OBVIOUS
<1>2. QED
  BY <1>1 DEF Wrote, Laid

\* The kind of m is read.
LEMMA KindGoes ==
  ASSUME NEW m, Goer(m, "kind"), ReadKind
  PROVE  Onward(m)
<1>1. /\ Doer("kind") /\ Inside /\ m \in Message /\ payload = Encoded(m)
      /\ result = "reading" /\ Somewhere /\ todo # <<>> /\ todo[1][1] = "kind"
  BY DEF Goer, Doer
<1>2. AtKind
  BY <1>1, WhereItIs
<1> DEFINE e == <<m.kind>>
           w == <<Body(m.kind), "">>
<1>3. m.kind \in Byte /\ m.kind \in Supported /\ Starts(e, payload)
  BY <1>1, MessageStarts
<1>4. e \in Seq(Byte)
  BY <1>3
<1>5. <<>> \o e = e
  BY NothingAround
<1>6. Starts(<<>> \o e, payload)
  BY <1>3, <1>5
<1>7. Wrote(<<>>)
  BY <1>2 DEF AtKind
<1> HIDE DEF e
<1>8. Spells(payload, at, e, {})
  BY <1>1, <1>4, <1>6, <1>7, NextIs
<1>9. Has(1) /\ U8(0) = m.kind
  <2>1. at = at + 0 /\ 0 \in Nat
    BY <1>1 DEF Inside
  <2>2. Has(0 + 1) /\ U8(0) = m.kind
    BY <1>1, <1>3, <1>8, <2>1, ByteFound DEF e
  <2>3. Has(1)
    BY <2>2
  <2>4. QED
    BY <2>2, <2>3
<1>10. Read(1, [kind |-> m.kind], <<w>>)
  BY <1>3, <1>9 DEF ReadKind
<1>11. Tail(todo) = <<>>
  BY <1>2, HeadsAre DEF NextUp
<1>12. /\ todo' = <<w>> /\ msg' = [kind |-> m.kind] /\ payload' = payload
       /\ result' = result
  BY <1>10, <1>11, NothingAround DEF Read
<1>13. Toward(m)'
  BY <1>12 DEF Toward
<1>14. QED
  BY <1>1, <1>12, <1>13 DEF Onward

\* A begin message is read.
LEMMA BeginGoes ==
  ASSUME NEW m, Goer(m, "begin"), ReadBegin
  PROVE  Onward(m)
<1>1. /\ Doer("begin") /\ Inside /\ m \in Message /\ payload = Encoded(m) /\ Toward(m)
      /\ result = "reading" /\ Somewhere /\ todo # <<>> /\ todo[1][1] = "begin"
  BY DEF Goer, Doer
<1>2. InBody(Ascii.B)
  BY <1>1, WhereItIs
<1>3. Body(m.kind) = "begin" /\ msg = [kind |-> m.kind]
  BY <1>1, TowardIs
<1>4. m \in Begins
  BY <1>1, <1>3, KindOf
<1>5. Inside /\ at = 1
  BY <1>1, <1>2, OneRead DEF InBody
<1> DEFINE k == <<m.kind>>
           a == m.final_lsn
           b == m.commit_timestamp
           c == m.xid
           h1 == k \o a
           h2 == h1 \o b
           h3 == h2 \o c
<1>6. /\ m.kind = Ascii.B /\ a \in Bytes(8) /\ b \in Bytes(8) /\ c \in Bytes(4)
      /\ m = [kind |-> m.kind, final_lsn |-> a, commit_timestamp |-> b, xid |-> c]
  BY <1>4 DEF Begins
<1>7. /\ a \in Seq(Byte) /\ b \in Seq(Byte) /\ c \in Seq(Byte)
      /\ Len(a) = 8 /\ Len(b) = 8 /\ Len(c) = 4
  BY <1>6, BytesIs
<1>8. k \in Seq(Byte) /\ Len(k) = 1
  <2>1. m.kind \in Byte
    BY <1>1, MessageStarts
  <2>2. QED
    BY <2>1
<1>9. payload = h3
  BY <1>1, <1>6, EncodedKinds DEF EncodedBegin
<1>10. /\ 0 \in Nat /\ 1 \in Nat /\ 4 \in Nat /\ 8 \in Nat /\ 9 \in Nat /\ 16 \in Nat /\ 17 \in Nat
       /\ 9 = 1 + Len(a) /\ 17 = 9 + Len(b) /\ 21 = 17 + Len(c)
       /\ 1 = at + 0 /\ 9 = at + 8 /\ 17 = at + 16
  BY <1>5, <1>7
<1> HIDE DEF k, a, b, c
<1>11. h1 \in Seq(Byte)
  BY <1>7, <1>8, BothAre
<1> HIDE DEF h1
<1>12. h2 \in Seq(Byte)
  BY <1>7, <1>11, BothAre
<1> HIDE DEF h2
<1>13. h3 \in Seq(Byte)
  BY <1>7, <1>12, BothAre
<1>14. Starts(h2 \o c, payload)
  BY <1>9, <1>13, StartsItself
<1>15. Starts(h2, payload)
  BY <1>7, <1>12, <1>14, StartsLess
<1>16. Starts(h1 \o b, payload)
  BY <1>15 DEF h2
<1>17. Starts(h1, payload)
  BY <1>7, <1>11, <1>16, StartsLess
<1>18. Starts(k \o a, payload)
  BY <1>17 DEF h1
<1>19. Part(k, a, 1, 9)
  BY <1>5, <1>7, <1>8, <1>18, <1>10, PartIs
<1>20. Part(h1, b, 9, 17)
  <2>1. Len(h1) = 9
    BY <1>19 DEF Part, h1
  <2>2. QED
    BY <1>5, <1>7, <1>11, <1>16, <2>1, <1>10, PartIs
<1>21. Part(h2, c, 17, 21)
  <2>1. Len(h2) = 17
    BY <1>20 DEF Part, h2
  <2>2. QED
    BY <1>5, <1>7, <1>12, <1>14, <2>1, <1>10, PartIs
<1>22. Take(0, 8) = a
  BY <1>5, <1>7, <1>19, <1>10, TakenAsWritten DEF Part
<1>23. Take(8, 8) = b
  BY <1>5, <1>7, <1>20, <1>10, TakenAsWritten DEF Part
<1>24. Take(16, 4) = c
  BY <1>5, <1>7, <1>21, <1>10, TakenAsWritten DEF Part
<1>25. Has(20)
  BY <1>5, <1>21 DEF Part, Has
<1>26. Read(20, m, <<>>)
  <2>1. msg.kind = m.kind
    BY <1>3
  <2>2. Read(20, [kind |-> msg.kind, final_lsn |-> Take(0, 8),
                  commit_timestamp |-> Take(8, 8), xid |-> Take(16, 4)], <<>>)
    BY <1>25 DEF ReadBegin
  <2>3. Read(20, [kind |-> m.kind, final_lsn |-> a, commit_timestamp |-> b, xid |-> c], <<>>)
    BY <1>22, <1>23, <1>24, <2>1, <2>2
  <2>4. QED
    BY <1>6, <2>3
<1>27. Tail(todo) = <<>>
  BY <1>2, HeadsAre DEF NextUp
<1>28. todo' = <<>> /\ msg' = m /\ payload' = payload /\ result' = result
  BY <1>26, <1>27, NothingAround DEF Read
<1>29. Toward(m)'
  BY <1>28 DEF Toward
<1>30. QED
  BY <1>1, <1>28, <1>29 DEF Onward

\* A commit message is read.
LEMMA CommitGoes ==
  ASSUME NEW m, Goer(m, "commit"), ReadCommit
  PROVE  Onward(m)
<1>1. /\ Doer("commit") /\ Inside /\ m \in Message /\ payload = Encoded(m) /\ Toward(m)
      /\ result = "reading" /\ Somewhere /\ todo # <<>> /\ todo[1][1] = "commit"
  BY DEF Goer, Doer
<1>2. InBody(Ascii.C)
  BY <1>1, WhereItIs
<1>3. Body(m.kind) = "commit" /\ msg = [kind |-> m.kind]
  BY <1>1, TowardIs
<1>4. m \in Commits
  BY <1>1, <1>3, KindOf
<1>5. Inside /\ at = 1
  BY <1>1, <1>2, OneRead DEF InBody
<1> DEFINE k == <<m.kind>>
           x == m.flags
           f == <<x>>
           a == m.commit_lsn
           b == m.end_lsn
           c == m.commit_timestamp
           h1 == k \o f
           h2 == h1 \o a
           h3 == h2 \o b
           h4 == h3 \o c
<1>6. /\ m.kind = Ascii.C /\ x \in Byte /\ a \in Bytes(8) /\ b \in Bytes(8) /\ c \in Bytes(8)
      /\ m = [kind |-> m.kind, flags |-> x, commit_lsn |-> a, end_lsn |-> b,
              commit_timestamp |-> c]
  BY <1>4 DEF Commits
<1>7. /\ a \in Seq(Byte) /\ b \in Seq(Byte) /\ c \in Seq(Byte)
      /\ Len(a) = 8 /\ Len(b) = 8 /\ Len(c) = 8
  BY <1>6, BytesIs
<1>8. k \in Seq(Byte) /\ Len(k) = 1 /\ f \in Seq(Byte) /\ Len(f) = 1
  <2>1. m.kind \in Byte
    BY <1>1, MessageStarts
  <2>2. k \in Seq(Byte) /\ Len(k) = 1
    BY <2>1
  <2>3. f \in Seq(Byte) /\ Len(f) = 1
    BY <1>6
  <2>4. QED
    BY <2>2, <2>3
<1>9. payload = h4
  BY <1>1, <1>6, EncodedKinds DEF EncodedCommit
<1>10. /\ 0 \in Nat /\ 1 \in Nat /\ 2 \in Nat /\ 8 \in Nat /\ 9 \in Nat /\ 10 \in Nat
       /\ 17 \in Nat /\ 18 \in Nat
       /\ 2 = 1 + Len(f) /\ 10 = 2 + Len(a) /\ 18 = 10 + Len(b) /\ 26 = 18 + Len(c)
       /\ 1 = at + 0 /\ 2 = at + 1 /\ 10 = at + 9 /\ 18 = at + 17
  BY <1>5, <1>7, <1>8
<1> HIDE DEF k, f, a, b, c, x
<1>11. h1 \in Seq(Byte)
  BY <1>8, BothAre
<1> HIDE DEF h1
<1>12. h2 \in Seq(Byte)
  BY <1>7, <1>11, BothAre
<1> HIDE DEF h2
<1>13. h3 \in Seq(Byte)
  BY <1>7, <1>12, BothAre
<1> HIDE DEF h3
<1>14. h4 \in Seq(Byte)
  BY <1>7, <1>13, BothAre
<1>15. Starts(h3 \o c, payload)
  BY <1>9, <1>14, StartsItself
<1>16. Starts(h3, payload)
  BY <1>7, <1>13, <1>15, StartsLess
<1>17. Starts(h2 \o b, payload)
  BY <1>16 DEF h3
<1>18. Starts(h2, payload)
  BY <1>7, <1>12, <1>17, StartsLess
<1>19. Starts(h1 \o a, payload)
  BY <1>18 DEF h2
<1>20. Starts(h1, payload)
  BY <1>7, <1>11, <1>19, StartsLess
<1>21. Starts(k \o f, payload)
  BY <1>20 DEF h1
<1>22. Part(k, f, 1, 2)
  BY <1>5, <1>8, <1>21, <1>10, PartIs
<1>23. Part(h1, a, 2, 10)
  <2>1. Len(h1) = 2
    BY <1>22 DEF Part, h1
  <2>2. QED
    BY <1>5, <1>7, <1>11, <1>19, <2>1, <1>10, PartIs
<1>24. Part(h2, b, 10, 18)
  <2>1. Len(h2) = 10
    BY <1>23 DEF Part, h2
  <2>2. QED
    BY <1>5, <1>7, <1>12, <1>17, <2>1, <1>10, PartIs
<1>25. Part(h3, c, 18, 26)
  <2>1. Len(h3) = 18
    BY <1>24 DEF Part, h3
  <2>2. QED
    BY <1>5, <1>7, <1>13, <1>15, <2>1, <1>10, PartIs
<1>26. U8(0) = x
  <2>1. Spells(payload, 1, <<x>>, {})
    BY <1>22 DEF Part, f
  <2>2. x \in Byte
    BY <1>6
  <2>3. QED
    BY <1>5, <1>10, <2>1, <2>2, ByteFound
<1>27. Take(1, 8) = a
  BY <1>5, <1>7, <1>23, <1>10, TakenAsWritten DEF Part
<1>28. Take(9, 8) = b
  BY <1>5, <1>7, <1>24, <1>10, TakenAsWritten DEF Part
<1>29. Take(17, 8) = c
  BY <1>5, <1>7, <1>25, <1>10, TakenAsWritten DEF Part
<1>30. Has(25)
  BY <1>5, <1>25 DEF Part, Has
<1>31. Read(25, m, <<>>)
  <2>1. msg.kind = m.kind
    BY <1>3
  <2>2. Read(25, [kind |-> msg.kind, flags |-> U8(0), commit_lsn |-> Take(1, 8),
                  end_lsn |-> Take(9, 8), commit_timestamp |-> Take(17, 8)], <<>>)
    BY <1>30 DEF ReadCommit
  <2>3. Read(25, [kind |-> m.kind, flags |-> x, commit_lsn |-> a, end_lsn |-> b,
                  commit_timestamp |-> c], <<>>)
    BY <1>26, <1>27, <1>28, <1>29, <2>1, <2>2
  <2>4. QED
    BY <1>6, <2>3
<1>32. Tail(todo) = <<>>
  BY <1>2, HeadsAre DEF NextUp
<1>33. todo' = <<>> /\ msg' = m /\ payload' = payload /\ result' = result
  BY <1>31, <1>32, NothingAround DEF Read
<1>34. Toward(m)'
  BY <1>33 DEF Toward
<1>35. QED
  BY <1>1, <1>33, <1>34 DEF Onward

\* A list is empty if it has no elements.
LEMMA NoneIs ==
  ASSUME NEW S, NEW s \in Seq(S), Len(s) = 0
  PROVE  s = <<>>
OBVIOUS

\* The head of a truncate message is read.
LEMMA TruncateGoes ==
  ASSUME NEW m, Goer(m, "truncate"), ReadTruncate
  PROVE  Onward(m)
<1>1. /\ Doer("truncate") /\ Inside /\ m \in Message /\ payload = Encoded(m) /\ Toward(m)
      /\ result = "reading" /\ Somewhere /\ todo # <<>> /\ todo[1][1] = "truncate"
  BY DEF Goer, Doer
<1>2. InBody(Ascii.T)
  BY <1>1, WhereItIs
<1>3. Body(m.kind) = "truncate" /\ msg = [kind |-> m.kind]
  BY <1>1, TowardIs
<1>4. m \in Truncates
  BY <1>1, <1>3, KindOf
<1>5. Inside /\ at = 1
  BY <1>1, <1>2, OneRead DEF InBody
<1> DEFINE k == <<m.kind>>
           ids == m.relation_ids
           n == Len(ids)
           b == Bytes32(n)
           z == <<0>>
           is == FlattenSeq(ids)
           h1 == k \o b
           h2 == h1 \o z
           h3 == h2 \o is
<1>6. /\ m.kind = Ascii.T /\ m.kind \in Byte /\ ids \in Seq(Bytes(4)) /\ n \in Nat
      /\ n <= MaxInt32 /\ m = [kind |-> m.kind, relation_ids |-> ids]
  BY <1>4, TruncateIs
<1>7. payload = h3
  BY <1>1, <1>6, EncodedKinds DEF EncodedTruncate, TruncateHead
<1>8. b \in Seq(Byte) /\ Len(b) = 4
  BY <1>6, NumberBytes
<1>9. k \in Seq(Byte) /\ Len(k) = 1 /\ z \in Seq(Byte) /\ Len(z) = 1
  <2>1. k \in Seq(Byte) /\ Len(k) = 1
    BY <1>6
  <2>2. 0 \in Byte
    BY ByteIs
  <2>3. z \in Seq(Byte) /\ Len(z) = 1
    BY <2>2
  <2>4. QED
    BY <2>1, <2>3
<1>10. is \in Seq(Byte)
  BY <1>6, IdsType
<1>11. /\ 0 \in Nat /\ 1 \in Nat /\ 5 \in Nat /\ 5 = 1 + Len(b) /\ 6 = 5 + Len(z) /\ 1 = at + 0
  BY <1>5, <1>8, <1>9
<1>12. SubSeq(ids, 1, 0) = <<>>
  BY <1>6, SoFarIs
<1> HIDE DEF k, b, z, is
<1>13. h1 \in Seq(Byte)
  BY <1>8, <1>9, BothAre
<1> HIDE DEF h1
<1>14. h2 \in Seq(Byte)
  BY <1>9, <1>13, BothAre
<1> HIDE DEF h2
<1>15. Starts(h2, payload)
  BY <1>7, <1>10, StartsIt
<1>16. Starts(h1 \o z, payload)
  BY <1>15 DEF h2
<1>17. Starts(h1, payload)
  BY <1>9, <1>13, <1>16, StartsLess
<1>18. Starts(k \o b, payload)
  BY <1>17 DEF h1
<1>19. Part(k, b, 1, 5)
  BY <1>5, <1>8, <1>9, <1>18, <1>11, PartIs
<1>20. Part(h1, z, 5, 6)
  <2>1. Len(h1) = 5
    BY <1>19 DEF Part, h1
  <2>2. QED
    BY <1>5, <1>9, <1>13, <1>16, <2>1, <1>11, PartIs
<1>21. I32(0) = n
  <2>1. Spells(payload, 1, Bytes32(n), {})
    BY <1>19 DEF Part, b
  <2> HIDE DEF n
  <2>2. QED
    BY <1>5, <1>6, <1>11, <2>1, LengthFound
<1>22. Has(5)
  BY <1>5, <1>20 DEF Part, Has
<1>23. I32(0) >= 0
  BY <1>6, <1>21
<1> DEFINE w == <<"relation_id", "">>
           e == [kind |-> m.kind, relation_ids |-> <<>>]
<1>24. left' = n /\ Read(5, e, IF left' = 0 THEN <<>> ELSE <<w>>)
  <2>1. msg.kind = m.kind
    BY <1>3
  <2>2. /\ left' = I32(0)
        /\ Read(5, [kind |-> msg.kind, relation_ids |-> <<>>], IF left' = 0 THEN <<>> ELSE <<w>>)
    BY <1>22, <1>23 DEF ReadTruncate
  <2>3. QED
    BY <1>21, <2>1, <2>2
<1>25. Tail(todo) = <<>>
  BY <1>2, HeadsAre DEF NextUp
<1>26. /\ todo' = IF n = 0 THEN <<>> ELSE <<w>>
       /\ msg' = e /\ payload' = payload /\ result' = result
  BY <1>24, <1>25, NothingAround DEF Read
<1>27. Toward(m)'
  <2>1. CASE n = 0
    <3>1. ids = <<>>
      BY <1>6, <2>1, NoneIs
    <3>2. e = m
      BY <1>6, <3>1
    <3>3. todo' = <<>> /\ msg' = m
      BY <1>26, <2>1, <3>2
    <3>4. QED
      BY <3>3 DEF Toward
  <2>2. CASE n # 0
    <3>1. e = IdsSoFar(m, 0)
      BY <1>6, <1>12 DEF IdsSoFar
    <3>2. 0 \in Nat /\ n = n - 0 /\ n > 0
      BY <1>6, <2>2
    <3>3. /\ todo' = <<w>> /\ m \in Truncates
          /\ \E x \in Nat : left' = Len(m.relation_ids) - x /\ left' > 0 /\ msg' = IdsSoFar(m, x)
      BY <1>4, <1>24, <1>26, <2>2, <3>1, <3>2
    <3>4. QED
      BY <3>3 DEF Toward
  <2>3. QED
    BY <2>1, <2>2
<1>28. QED
  BY <1>1, <1>26, <1>27 DEF Onward

\* The head of a relation message is read.
LEMMA RelationGoes ==
  ASSUME NEW m, Goer(m, "relation"), ReadRelation
  PROVE  Onward(m)
<1>1. /\ Doer("relation") /\ Inside /\ m \in Message /\ payload = Encoded(m) /\ Toward(m)
      /\ result = "reading" /\ Somewhere /\ todo # <<>> /\ todo[1][1] = "relation"
  BY DEF Goer, Doer
<1>2. InBody(Ascii.R)
  BY <1>1, WhereItIs
<1>3. Body(m.kind) = "relation" /\ msg = [kind |-> m.kind]
  BY <1>1, TowardIs
<1>4. m \in Relations
  BY <1>1, <1>3, KindOf
<1>5. Inside /\ at = 1
  BY <1>1, <1>2, OneRead DEF InBody
<1> DEFINE k == <<m.kind>>
           i == m.id
           ns == m.namespace
           nm == m.name
           z == <<0>>
           y == m.replica_identity
           r == <<y>>
           cols == m.columns
           n == Len(cols)
           b == Bytes16(n)
           cs == EncodedColumns(cols)
           h1 == k \o i
           h2 == h1 \o ns
           h3 == h2 \o z
           h4 == h3 \o nm
           h5 == h4 \o z
           h6 == h5 \o r
           h7 == h6 \o b
           h8 == h7 \o cs
           l1 == Len(ns)
           l2 == Len(nm)
           d == 4 + l1 + 1
           h == d + l2 + 1
           p1 == at + 4
           p2 == p1 + l1
           p3 == at + d
           p4 == p3 + l2
           p5 == at + h
           p6 == p5 + 1
           p7 == p6 + 2
<1>6. /\ m.kind = Ascii.R /\ m.kind \in Byte /\ i \in Bytes(4) /\ i \in Seq(Byte) /\ Len(i) = 4
      /\ ns \in Seq(Letters) /\ ns \in Seq(Byte) /\ nm \in Seq(Letters) /\ nm \in Seq(Byte)
      /\ y \in Byte /\ cols \in Seq(Column) /\ n <= MaxInt16 /\ n \in Nat
      /\ m = [kind |-> m.kind, id |-> i, namespace |-> ns, name |-> nm,
              replica_identity |-> y, columns |-> cols]
  BY <1>4, RelationIs
<1>7. payload = h8
  BY <1>1, <1>6, EncodedKinds DEF EncodedRelation, RelationHead
<1>8. b \in Seq(Byte) /\ Len(b) = 2
  BY <1>6, NumberBytes
<1>9. /\ k \in Seq(Byte) /\ Len(k) = 1 /\ z \in Seq(Byte) /\ Len(z) = 1
      /\ r \in Seq(Byte) /\ Len(r) = 1
  <2>1. k \in Seq(Byte) /\ Len(k) = 1
    BY <1>6
  <2>2. 0 \in Byte
    BY ByteIs
  <2>3. z \in Seq(Byte) /\ Len(z) = 1
    BY <2>2
  <2>4. r \in Seq(Byte) /\ Len(r) = 1
    BY <1>6
  <2>5. QED
    BY <2>1, <2>3, <2>4
<1>10. cs \in Seq(Byte)
  BY <1>6, ColumnsType
<1>11. SubSeq(cols, 1, 0) = <<>>
  BY <1>6, SoFarIs
<1>12. l1 \in Nat /\ l2 \in Nat
  BY <1>6
<1> HIDE DEF k, b, z, r, cs, i, ns, nm, y, l1, l2, cols
<1>13. /\ at \in Nat /\ 0 \in Nat /\ 1 \in Nat /\ 4 \in Nat /\ d \in Nat /\ h \in Nat
       /\ h + 1 \in Nat /\ p1 \in Nat /\ p2 \in Nat /\ p3 \in Nat /\ p4 \in Nat /\ p5 \in Nat
       /\ p6 \in Nat /\ p7 \in Nat
       /\ d = 4 + l1 + 1 /\ h = d + l2 + 1
       /\ p1 = 1 + Len(i) /\ p2 = p1 + l1 /\ p3 = p2 + Len(z) /\ p4 = p3 + l2
       /\ p5 = p4 + Len(z) /\ p6 = p5 + Len(r) /\ p7 = p6 + Len(b)
       /\ 1 = at + 0 /\ p1 = at + 4 /\ p2 = at + 4 + l1 /\ p3 = at + d /\ p4 = at + d + l2
       /\ p5 = at + h /\ p6 = at + (h + 1) /\ p7 = at + (h + 3)
  <2>1. at = 1 /\ l1 \in Nat /\ l2 \in Nat
    BY <1>5, <1>12
  <2>2. Len(i) = 4 /\ Len(z) = 1 /\ Len(r) = 1 /\ Len(b) = 2
    BY <1>6, <1>8, <1>9
  <2>3. /\ d \in Nat /\ h \in Nat /\ d = l1 + 5 /\ h = l1 + l2 + 6
        /\ p1 = 5 /\ p2 = l1 + 5 /\ p3 = l1 + 6 /\ p4 = l1 + l2 + 6 /\ p5 = l1 + l2 + 7
        /\ p6 = l1 + l2 + 8 /\ p7 = l1 + l2 + 10
    BY <2>1
  <2>4. d = 4 + l1 + 1 /\ h = d + l2 + 1
    OBVIOUS
  <2> HIDE DEF d, h, p1, p2, p3, p4, p5, p6, p7
  <2>5. /\ at \in Nat /\ 0 \in Nat /\ 1 \in Nat /\ 4 \in Nat /\ h + 1 \in Nat
        /\ p1 \in Nat /\ p2 \in Nat /\ p3 \in Nat /\ p4 \in Nat /\ p5 \in Nat
        /\ p6 \in Nat /\ p7 \in Nat
    BY <2>1, <2>3
  <2>6. /\ 1 = at + 0 /\ p1 = at + 4 /\ p2 = at + 4 + l1 /\ p3 = at + d /\ p4 = at + d + l2
        /\ p5 = at + h /\ p6 = at + (h + 1) /\ p7 = at + (h + 3)
    BY <2>1, <2>3
  <2>7. /\ p1 = 1 + Len(i) /\ p2 = p1 + l1 /\ p3 = p2 + Len(z) /\ p4 = p3 + l2
        /\ p5 = p4 + Len(z) /\ p6 = p5 + Len(r) /\ p7 = p6 + Len(b)
    BY <2>1, <2>2, <2>3
  <2>8. QED
    BY <2>3, <2>4, <2>5, <2>6, <2>7
<1> HIDE DEF d, h, p1, p2, p3, p4, p5, p6, p7
<1>14. h1 \in Seq(Byte)
  BY <1>6, <1>9, BothAre
<1> HIDE DEF h1
<1>15. h2 \in Seq(Byte)
  BY <1>6, <1>14, BothAre
<1> HIDE DEF h2
<1>16. h3 \in Seq(Byte)
  BY <1>9, <1>15, BothAre
<1> HIDE DEF h3
<1>17. h4 \in Seq(Byte)
  BY <1>6, <1>16, BothAre
<1> HIDE DEF h4
<1>18. h5 \in Seq(Byte)
  BY <1>9, <1>17, BothAre
<1> HIDE DEF h5
<1>19. h6 \in Seq(Byte)
  BY <1>9, <1>18, BothAre
<1> HIDE DEF h6
<1>20. h7 \in Seq(Byte)
  BY <1>8, <1>19, BothAre
<1> HIDE DEF h7
<1>21. Starts(h7, payload)
  BY <1>7, <1>10, StartsIt
<1>22. Starts(h6 \o b, payload)
  BY <1>21 DEF h7
<1>23. Starts(h6, payload)
  BY <1>8, <1>19, <1>22, StartsLess
<1>24. Starts(h5 \o r, payload)
  BY <1>23 DEF h6
<1>25. Starts(h5, payload)
  BY <1>9, <1>18, <1>24, StartsLess
<1>26. Starts(h4 \o z, payload)
  BY <1>25 DEF h5
<1>27. Starts(h4, payload)
  BY <1>9, <1>17, <1>26, StartsLess
<1>28. Starts(h3 \o nm, payload)
  BY <1>27 DEF h4
<1>29. Starts(h3, payload)
  BY <1>6, <1>16, <1>28, StartsLess
<1>30. Starts(h2 \o z, payload)
  BY <1>29 DEF h3
<1>31. Starts(h2, payload)
  BY <1>9, <1>15, <1>30, StartsLess
<1>32. Starts(h1 \o ns, payload)
  BY <1>31 DEF h2
<1>33. Starts(h1, payload)
  BY <1>6, <1>14, <1>32, StartsLess
<1>34. Starts(k \o i, payload)
  BY <1>33 DEF h1
<1>35. Part(k, i, 1, p1)
  BY <1>5, <1>6, <1>9, <1>13, <1>34, PartIs
<1>36. Part(h1, ns, p1, p2)
  <2>1. Len(h1) = p1
    BY <1>35 DEF Part, h1
  <2>2. p2 = p1 + Len(ns)
    BY <1>13 DEF l1
  <2>3. QED
    BY <1>5, <1>6, <1>13, <1>14, <1>32, <2>1, <2>2, PartIs
<1>37. Part(h2, z, p2, p3)
  <2>1. Len(h2) = p2
    BY <1>36 DEF Part, h2
  <2>2. QED
    BY <1>5, <1>9, <1>13, <1>15, <1>30, <2>1, PartIs
<1>38. Part(h3, nm, p3, p4)
  <2>1. Len(h3) = p3
    BY <1>37 DEF Part, h3
  <2>2. p4 = p3 + Len(nm)
    BY <1>13 DEF l2
  <2>3. QED
    BY <1>5, <1>6, <1>13, <1>16, <1>28, <2>1, <2>2, PartIs
<1>39. Part(h4, z, p4, p5)
  <2>1. Len(h4) = p4
    BY <1>38 DEF Part, h4
  <2>2. QED
    BY <1>5, <1>9, <1>13, <1>17, <1>26, <2>1, PartIs
<1>40. Part(h5, r, p5, p6)
  <2>1. Len(h5) = p5
    BY <1>39 DEF Part, h5
  <2>2. QED
    BY <1>5, <1>9, <1>13, <1>18, <1>24, <2>1, PartIs
<1>41. Part(h6, b, p6, p7)
  <2>1. Len(h6) = p6
    BY <1>40 DEF Part, h6
  <2>2. QED
    BY <1>5, <1>8, <1>13, <1>19, <1>22, <2>1, PartIs
<1>42. Take(0, 4) = i
  BY <1>5, <1>6, <1>13, <1>35, TakenAsWritten DEF Part
<1>43. IsCstr(4) /\ CstrLen(4) = l1 /\ Cstr(4) = ns
  <2>1. Spells(payload, p1, ns, {}) /\ Spells(payload, p2, z, {})
    BY <1>36, <1>37 DEF Part
  <2>2. p1 = at + 4 /\ p2 = at + 4 + Len(ns)
    BY <1>13 DEF l1
  <2>3. Spells(payload, at + 4, ns, {}) /\ Spells(payload, at + 4 + Len(ns), <<0>>, {})
    BY <2>1, <2>2 DEF z
  <2>4. IsCstr(4) /\ CstrLen(4) = Len(ns) /\ Cstr(4) = ns
    BY <1>5, <1>6, <1>13, <2>3, StringWritten
  <2>5. QED
    BY <2>4 DEF l1
<1>44. 4 + CstrLen(4) + 1 = d
  BY <1>13, <1>43
<1>45. IsCstr(d) /\ CstrLen(d) = l2 /\ Cstr(d) = nm
  <2>1. Spells(payload, p3, nm, {}) /\ Spells(payload, p4, z, {})
    BY <1>38, <1>39 DEF Part
  <2>2. p3 = at + d /\ p4 = at + d + Len(nm)
    BY <1>13 DEF l2
  <2>3. Spells(payload, at + d, nm, {}) /\ Spells(payload, at + d + Len(nm), <<0>>, {})
    BY <2>1, <2>2 DEF z
  <2>4. IsCstr(d) /\ CstrLen(d) = Len(nm) /\ Cstr(d) = nm
    BY <1>5, <1>6, <1>13, <2>3, StringWritten
  <2>5. QED
    BY <2>4 DEF l2
<1>46. HeaderLen = h
  BY <1>13, <1>44, <1>45 DEF HeaderLen
<1>47. U8(h) = y
  <2>1. Spells(payload, p5, <<y>>, {})
    BY <1>40 DEF Part, r
  <2>2. QED
    BY <1>5, <1>6, <1>13, <2>1, ByteFound
<1>48. I16(h + 1) = n
  <2>1. Spells(payload, p6, Bytes16(n), {})
    BY <1>41 DEF Part, b
  <2> DEFINE g == h + 1
  <2>2. g \in Nat /\ p6 = at + g
    BY <1>13
  <2> HIDE DEF g, n
  <2>3. I16(g) = n
    BY <1>5, <1>6, <2>1, <2>2, CountFound
  <2>4. QED
    BY <2>3 DEF g
<1>49. Has(h + 3) /\ Has(4)
  <2>1. p7 <= Len(payload) /\ Len(payload) \in Nat
    BY <1>5, <1>41 DEF Part, Inside
  <2>2. at + (h + 3) <= Len(payload)
    BY <1>13, <2>1
  <2>3. at + 4 <= Len(payload)
    BY <1>12, <1>13, <2>1
  <2>4. QED
    BY <2>2, <2>3 DEF Has
<1>50. HeaderIsThere
  <2>1. I16(HeaderLen + 1) >= 0
    BY <1>6, <1>46, <1>48
  <2>2. QED
    BY <1>43, <1>44, <1>45, <1>46, <1>49, <2>1 DEF HeaderIsThere
<1> DEFINE w == <<"column", "">>
           e == [kind |-> m.kind, id |-> i, namespace |-> ns, name |-> nm,
                 replica_identity |-> y, columns |-> <<>>]
<1>51. RelationRead = e
  <2>1. msg.kind = m.kind
    BY <1>3
  <2>2. QED
    BY <1>42, <1>43, <1>44, <1>45, <1>46, <1>47, <2>1 DEF RelationRead
<1>52. left' = n /\ Read(h + 3, e, IF left' = 0 THEN <<>> ELSE <<w>>)
  BY <1>46, <1>48, <1>50, <1>51 DEF ReadRelation
<1>53. Tail(todo) = <<>>
  BY <1>2, HeadsAre DEF NextUp
<1>54. /\ todo' = IF n = 0 THEN <<>> ELSE <<w>>
       /\ msg' = e /\ payload' = payload /\ result' = result
  BY <1>52, <1>53, NothingAround DEF Read
<1>55. Toward(m)'
  <2>1. CASE n = 0
    <3>1. cols = <<>>
      BY <1>6, <2>1, NoneIs
    <3>2. e = m
      BY <1>6, <3>1
    <3>3. todo' = <<>> /\ msg' = m
      BY <1>54, <2>1, <3>2
    <3>4. QED
      BY <3>3 DEF Toward
  <2>2. CASE n # 0
    <3>1. e = ColumnsSoFar(m, 0)
      <4>1. ColumnsSoFar(m, 0) = [m EXCEPT !.columns = <<>>]
        BY <1>11 DEF ColumnsSoFar, cols
      <4>2. QED
        BY <1>6, <4>1
    <3>2. 0 \in Nat /\ n = n - 0 /\ n > 0
      BY <1>6, <2>2
    <3>3. n = Len(m.columns)
      BY DEF cols
    <3>4. /\ todo' = <<w>> /\ m \in Relations
          /\ \E x \in Nat : left' = Len(m.columns) - x /\ left' > 0 /\ msg' = ColumnsSoFar(m, x)
      BY <1>4, <1>52, <1>54, <2>2, <3>1, <3>2, <3>3
    <3>5. QED
      BY <3>4 DEF Toward
  <2>3. QED
    BY <2>1, <2>2
<1>56. QED
  BY <1>1, <1>54, <1>55 DEF Onward

\* What a relation is when x of its columns are read.
LEMMA ColumnsSoFarAre ==
  ASSUME NEW m \in Relations, NEW x \in Nat, x < Len(m.columns)
  PROVE  /\ ColumnsSoFar(m, x).columns = SubSeq(m.columns, 1, x)
         /\ Len(ColumnsSoFar(m, x).columns) = x
         /\ \A n : RelationHead(ColumnsSoFar(m, x), n) = RelationHead(m, n)
         /\ [ColumnsSoFar(m, x) EXCEPT !.columns = Append(@, m.columns[x + 1])]
              = ColumnsSoFar(m, x + 1)
         /\ ColumnsSoFar(m, Len(m.columns)) = m
<1> DEFINE cs == m.columns
           s == SubSeq(cs, 1, x)
           t == SubSeq(cs, 1, x + 1)
           c == cs[x + 1]
           e == ColumnsSoFar(m, x)
<1>1. cs \in Seq(Column) /\ Len(cs) \in Nat
  BY RelationIs
<1>2. Len(s) = x /\ Append(s, c) = t /\ SubSeq(cs, 1, Len(cs)) = cs
  BY <1>1, SoFarIs
<1>3. e = [m EXCEPT !.columns = s]
  BY DEF ColumnsSoFar
<1>4. ColumnsSoFar(m, x + 1) = [m EXCEPT !.columns = t]
  BY DEF ColumnsSoFar
<1>5. ColumnsSoFar(m, Len(cs)) = [m EXCEPT !.columns = cs]
  BY <1>2 DEF ColumnsSoFar
<1> HIDE DEF s, t, c, e
<1>6. [m EXCEPT !.columns = cs] = m
  BY DEF Relations
<1>7. /\ e.columns = s /\ e.kind = m.kind /\ e.id = m.id
      /\ e.namespace = m.namespace /\ e.name = m.name /\ e.replica_identity = m.replica_identity
  BY <1>3 DEF Relations
<1>8. \A n : RelationHead(e, n) = RelationHead(m, n)
  BY <1>7 DEF RelationHead
<1>9. [e EXCEPT !.columns = Append(@, c)] = [m EXCEPT !.columns = t]
  BY <1>2, <1>3 DEF Relations
<1>10. QED
  BY <1>2, <1>4, <1>5, <1>6, <1>7, <1>8, <1>9 DEF s, t, c, e

\* A column is read.
LEMMA ColumnGoes ==
  ASSUME NEW m, Goer(m, "column"), ReadColumn
  PROVE  Onward(m)
<1>1. /\ Doer("column") /\ Inside /\ m \in Message /\ payload = Encoded(m) /\ Toward(m)
      /\ result = "reading" /\ Somewhere /\ todo # <<>> /\ todo[1][1] = "column"
  BY DEF Goer, Doer
<1>2. AtColumn
  BY <1>1, WhereItIs
<1>3. /\ m \in Relations
      /\ \E x \in Nat : left = Len(m.columns) - x /\ left > 0 /\ msg = ColumnsSoFar(m, x)
  BY <1>1, TowardIs
<1>4. PICK x \in Nat : left = Len(m.columns) - x /\ left > 0 /\ msg = ColumnsSoFar(m, x)
  BY <1>3
<1>5. /\ m.kind = Ascii.R /\ m.columns \in Seq(Column) /\ Len(m.columns) <= MaxInt16
      /\ Len(m.columns) \in Nat
  BY <1>3, RelationIs
<1>6. PICK n \in Nat : n = Len(m.columns)
  BY <1>5
<1>7. /\ x < n /\ x < Len(m.columns) /\ n <= MaxInt16 /\ x + left = n
      /\ left - 1 = n - (x + 1) /\ x + 1 \in Nat
  BY <1>4, <1>5, <1>6
<1>8. /\ msg.columns = SubSeq(m.columns, 1, x) /\ Len(msg.columns) = x
      /\ RelationHead(msg, n) = RelationHead(m, n)
      /\ [msg EXCEPT !.columns = Append(@, m.columns[x + 1])] = ColumnsSoFar(m, x + 1)
      /\ ColumnsSoFar(m, Len(m.columns)) = m
  <2>1. /\ ColumnsSoFar(m, x).columns = SubSeq(m.columns, 1, x)
        /\ Len(ColumnsSoFar(m, x).columns) = x
        /\ \A k : RelationHead(ColumnsSoFar(m, x), k) = RelationHead(m, k)
        /\ [ColumnsSoFar(m, x) EXCEPT !.columns = Append(@, m.columns[x + 1])]
             = ColumnsSoFar(m, x + 1)
        /\ ColumnsSoFar(m, Len(m.columns)) = m
    BY <1>3, <1>7, ColumnsSoFarAre
  <2>2. msg = ColumnsSoFar(m, x)
    BY <1>4
  <2>3. QED
    BY <2>1, <2>2
<1> DEFINE h == RelationHead(m, n)
           t == EncodedColumns(SubSeq(m.columns, 1, x))
           c == m.columns[x + 1]
           e == EncodedColumn(c)
           s == EncodedColumns(m.columns)
<1>9. t \in Seq(Byte) /\ e \in Seq(Byte) /\ c \in Column /\ Starts(t \o e, s)
  BY <1>5, <1>7, ColumnsStep
<1>10. h \in Seq(Byte)
  BY <1>3, <1>7, RelationHeadType
<1>11. payload = h \o s
  BY <1>1, <1>5, <1>6, EncodedKinds DEF EncodedRelation
<1>12. Wrote(h \o t)
  BY <1>2, <1>7, <1>8 DEF AtColumn
<1> HIDE DEF h, t, s
<1>13. Starts((h \o t) \o e, payload)
  BY <1>9, <1>10, <1>11, StartsBehind
<1>14. Spells(payload, at, e, {})
  BY <1>1, <1>9, <1>12, <1>13, NextIs
<1>15. ColumnIsThere /\ ColumnRead = c
  BY <1>1, <1>9, <1>14, ColumnFound
<1>16. /\ left' = left - 1
       /\ Read(ColumnLen, [msg EXCEPT !.columns = Append(@, c)],
               IF left' = 0 THEN <<>> ELSE << todo[1] >>)
  BY <1>15 DEF ReadColumn
<1> DEFINE w == <<"column", "">>
           u == ColumnsSoFar(m, x + 1)
<1>17. Tail(todo) = <<>> /\ todo[1] = w
  BY <1>2, HeadsAre DEF NextUp
<1>18. /\ todo' = IF left' = 0 THEN <<>> ELSE <<w>>
       /\ msg' = u /\ payload' = payload /\ result' = result
  BY <1>8, <1>16, <1>17, NothingAround DEF Read
<1>19. left' = n - (x + 1)
  BY <1>7, <1>16
<1>20. Toward(m)'
  <2>1. CASE left' = 0
    <3>1. x + 1 = Len(m.columns)
      BY <1>6, <1>7, <1>19, <2>1
    <3>2. todo' = <<>> /\ msg' = m
      BY <1>8, <1>18, <2>1, <3>1
    <3>3. QED
      BY <3>2 DEF Toward
  <2>2. CASE left' # 0
    <3>1. left' > 0 /\ left' = Len(m.columns) - (x + 1)
      BY <1>6, <1>7, <1>19, <2>2
    <3>2. /\ todo' = <<w>> /\ m \in Relations
          /\ \E j \in Nat : left' = Len(m.columns) - j /\ left' > 0 /\ msg' = ColumnsSoFar(m, j)
      BY <1>3, <1>7, <1>18, <2>2, <3>1
    <3>3. QED
      BY <3>2 DEF Toward
  <2>3. QED
    BY <2>1, <2>2
<1>21. QED
  BY <1>1, <1>18, <1>20 DEF Onward

\* What a truncate is when x of its relations are read.
LEMMA IdsSoFarAre ==
  ASSUME NEW m \in Truncates, NEW x \in Nat, x < Len(m.relation_ids)
  PROVE  /\ IdsSoFar(m, x).relation_ids = SubSeq(m.relation_ids, 1, x)
         /\ Len(IdsSoFar(m, x).relation_ids) = x
         /\ \A n : TruncateHead(IdsSoFar(m, x), n) = TruncateHead(m, n)
         /\ [IdsSoFar(m, x) EXCEPT !.relation_ids = Append(@, m.relation_ids[x + 1])]
              = IdsSoFar(m, x + 1)
         /\ IdsSoFar(m, Len(m.relation_ids)) = m
<1> DEFINE cs == m.relation_ids
           s == SubSeq(cs, 1, x)
           t == SubSeq(cs, 1, x + 1)
           c == cs[x + 1]
           e == IdsSoFar(m, x)
<1>1. cs \in Seq(Bytes(4)) /\ Len(cs) \in Nat
  BY TruncateIs
<1>2. Len(s) = x /\ Append(s, c) = t /\ SubSeq(cs, 1, Len(cs)) = cs
  BY <1>1, SoFarIs
<1>3. e = [m EXCEPT !.relation_ids = s]
  BY DEF IdsSoFar
<1>4. IdsSoFar(m, x + 1) = [m EXCEPT !.relation_ids = t]
  BY DEF IdsSoFar
<1>5. IdsSoFar(m, Len(cs)) = [m EXCEPT !.relation_ids = cs]
  BY <1>2 DEF IdsSoFar
<1> HIDE DEF s, t, c, e
<1>6. [m EXCEPT !.relation_ids = cs] = m
  BY DEF Truncates
<1>7. e.relation_ids = s /\ e.kind = m.kind
  BY <1>3 DEF Truncates
<1>8. \A n : TruncateHead(e, n) = TruncateHead(m, n)
  BY <1>7 DEF TruncateHead
<1>9. [e EXCEPT !.relation_ids = Append(@, c)] = [m EXCEPT !.relation_ids = t]
  BY <1>2, <1>3 DEF Truncates
<1>10. QED
  BY <1>2, <1>4, <1>5, <1>6, <1>7, <1>8, <1>9 DEF s, t, c, e

\* A relation id is read.
LEMMA RelationIdGoes ==
  ASSUME NEW m, Goer(m, "relation_id"), ReadRelationId
  PROVE  Onward(m)
<1>1. /\ Doer("relation_id") /\ Inside /\ m \in Message /\ payload = Encoded(m) /\ Toward(m)
      /\ result = "reading" /\ Somewhere /\ todo # <<>> /\ todo[1][1] = "relation_id"
  BY DEF Goer, Doer
<1>2. AtRelationId
  BY <1>1, WhereItIs
<1>3. /\ m \in Truncates
      /\ \E x \in Nat : left = Len(m.relation_ids) - x /\ left > 0 /\ msg = IdsSoFar(m, x)
  BY <1>1, TowardIs
<1>4. PICK x \in Nat : left = Len(m.relation_ids) - x /\ left > 0 /\ msg = IdsSoFar(m, x)
  BY <1>3
<1>5. /\ m.kind = Ascii.T /\ m.relation_ids \in Seq(Bytes(4)) /\ Len(m.relation_ids) <= MaxInt32
      /\ Len(m.relation_ids) \in Nat
  BY <1>3, TruncateIs
<1>6. PICK n \in Nat : n = Len(m.relation_ids)
  BY <1>5
<1>7. /\ x < n /\ x < Len(m.relation_ids) /\ n <= MaxInt32 /\ x + left = n
      /\ left - 1 = n - (x + 1) /\ x + 1 \in Nat
  <2>1. n <= MaxInt32
    BY <1>5, <1>6
  <2>2. left = n - x /\ left > 0
    BY <1>4, <1>6
  <2>3. x < n /\ x + left = n /\ left - 1 = n - (x + 1) /\ x + 1 \in Nat
    BY <2>2
  <2>4. QED
    BY <1>6, <2>1, <2>3
<1>8. /\ msg.relation_ids = SubSeq(m.relation_ids, 1, x) /\ Len(msg.relation_ids) = x
      /\ TruncateHead(msg, n) = TruncateHead(m, n)
      /\ [msg EXCEPT !.relation_ids = Append(@, m.relation_ids[x + 1])] = IdsSoFar(m, x + 1)
      /\ IdsSoFar(m, Len(m.relation_ids)) = m
  <2>1. /\ IdsSoFar(m, x).relation_ids = SubSeq(m.relation_ids, 1, x)
        /\ Len(IdsSoFar(m, x).relation_ids) = x
        /\ \A k : TruncateHead(IdsSoFar(m, x), k) = TruncateHead(m, k)
        /\ [IdsSoFar(m, x) EXCEPT !.relation_ids = Append(@, m.relation_ids[x + 1])]
             = IdsSoFar(m, x + 1)
        /\ IdsSoFar(m, Len(m.relation_ids)) = m
    BY <1>3, <1>7, IdsSoFarAre
  <2>2. msg = IdsSoFar(m, x)
    BY <1>4
  <2>3. QED
    BY <2>1, <2>2
<1> DEFINE h == TruncateHead(m, n)
           t == FlattenSeq(SubSeq(m.relation_ids, 1, x))
           e == m.relation_ids[x + 1]
           s == FlattenSeq(m.relation_ids)
<1>9. t \in Seq(Byte) /\ e \in Seq(Byte) /\ e \in Bytes(4) /\ Starts(t \o e, s)
  BY <1>5, <1>7, IdsStep
<1>10. h \in Seq(Byte)
  BY <1>3, <1>7, TruncateHeadType
<1>11. payload = h \o s
  BY <1>1, <1>5, <1>6, EncodedKinds DEF EncodedTruncate
<1>12. Wrote(h \o t)
  BY <1>2, <1>7, <1>8 DEF AtRelationId
<1> HIDE DEF h, t, s, e
<1>13. Starts((h \o t) \o e, payload)
  BY <1>9, <1>10, <1>11, StartsBehind
<1>14. Spells(payload, at, e, {}) /\ Len(e) = 4
  <2>1. Spells(payload, at, e, {})
    BY <1>1, <1>9, <1>12, <1>13, NextIs
  <2>2. Len(e) = 4
    BY <1>9, BytesIs
  <2>3. QED
    BY <2>1, <2>2
<1>15. Has(4) /\ Take(0, 4) = e
  <2>1. 0 \in Nat /\ 4 \in Nat /\ at = at + 0
    <3>1. at \in Nat
      BY <1>1 DEF Inside
    <3>2. QED
      BY <3>1
  <2>2. Take(0, 4) = e
    BY <1>1, <1>14, <2>1, TakenAsWritten
  <2>3. Has(4)
    BY <1>14 DEF Spells, Has
  <2>4. QED
    BY <2>2, <2>3
<1>16. /\ left' = left - 1
       /\ Read(4, [msg EXCEPT !.relation_ids = Append(@, e)],
               IF left' = 0 THEN <<>> ELSE << todo[1] >>)
  BY <1>15 DEF ReadRelationId
<1> DEFINE w == <<"relation_id", "">>
           u == IdsSoFar(m, x + 1)
<1>17. Tail(todo) = <<>> /\ todo[1] = w
  BY <1>2, HeadsAre DEF NextUp
<1>18. /\ todo' = IF left' = 0 THEN <<>> ELSE <<w>>
       /\ msg' = u /\ payload' = payload /\ result' = result
  <2>1. [msg EXCEPT !.relation_ids = Append(@, e)] = u
    BY <1>8 DEF e
  <2>2. QED
    BY <1>16, <1>17, <2>1, NothingAround DEF Read
<1>19. left' = n - (x + 1)
  BY <1>7, <1>16
<1>20. Toward(m)'
  <2>1. CASE left' = 0
    <3>1. x + 1 = Len(m.relation_ids)
      <4>1. x + 1 = n
        BY <1>19, <2>1
      <4>2. QED
        BY <1>6, <4>1
    <3>2. todo' = <<>> /\ msg' = m
      BY <1>8, <1>18, <2>1, <3>1
    <3>3. QED
      BY <3>2 DEF Toward
  <2>2. CASE left' # 0
    <3>1. left' > 0 /\ left' = Len(m.relation_ids) - (x + 1)
      <4>1. x < n
        BY <1>7
      <4>2. left' > 0
        BY <1>19, <2>2, <4>1
      <4>3. QED
        BY <1>6, <1>19, <4>2
    <3>2. /\ todo' = <<w>> /\ m \in Truncates
          /\ \E j \in Nat : /\ left' = Len(m.relation_ids) - j /\ left' > 0
                            /\ msg' = IdsSoFar(m, j)
      BY <1>3, <1>7, <1>18, <2>2, <3>1
    <3>3. QED
      BY <3>2 DEF Toward
  <2>3. QED
    BY <2>1, <2>2
<1>21. QED
  BY <1>1, <1>18, <1>20 DEF Onward

-----------------------------------------------------------------------------
(* Rows on the way.                                                        *)

\* The parts of a row, by its tag.
LEMMA RowParts ==
  ASSUME NEW m, IsRow(m)
  PROVE  /\ m.tag \in Tags(m.kind)
         /\ m.tag = Ascii.N => m \in NewRows /\ m.old = <<>> /\ m.kind \in {Ascii.I, Ascii.U}
         /\ m.tag # Ascii.N => WithOld(m)
         /\ m = [kind |-> m.kind, relation_id |-> m.relation_id, tag |-> m.tag,
                 old |-> m.old, new |-> m.new]
<1>1. m \in Rows({Ascii.I, Ascii.U}, {Ascii.N}, {<<>>}, Tuple) \/ WithOld(m)
  BY DEF IsRow, WithOld, NewRows
<1>2. ASSUME NEW kinds, NEW tags, NEW olds, NEW news, m \in Rows(kinds, tags, olds, news)
      PROVE  /\ m.kind \in kinds /\ m.tag \in tags /\ m.old \in olds
             /\ m = [kind |-> m.kind, relation_id |-> m.relation_id, tag |-> m.tag,
                     old |-> m.old, new |-> m.new]
  BY <1>2 DEF Rows
<1>3. /\ Tags(Ascii.I) = {Ascii.N} /\ Tags(Ascii.U) = {Ascii.N, Ascii.O, Ascii.K}
      /\ Tags(Ascii.D) = {Ascii.O, Ascii.K}
  BY KindsDiffer DEF Tags
<1>4. CASE m \in Rows({Ascii.I, Ascii.U}, {Ascii.N}, {<<>>}, Tuple)
  <2>1. /\ m.kind \in {Ascii.I, Ascii.U} /\ m.tag \in {Ascii.N} /\ m.old \in {<<>>}
        /\ m = [kind |-> m.kind, relation_id |-> m.relation_id, tag |-> m.tag,
                old |-> m.old, new |-> m.new]
    BY <1>2, <1>4
  <2>2. m \in NewRows
    BY <1>4 DEF NewRows
  <2>3. m.tag \in Tags(m.kind)
    BY <1>3, <2>1
  <2>4. QED
    BY <2>1, <2>2, <2>3
<1>5. CASE m \in Rows({Ascii.U}, {Ascii.O, Ascii.K}, Tuple, Tuple)
  <2>1. /\ m.kind \in {Ascii.U} /\ m.tag \in {Ascii.O, Ascii.K}
        /\ m = [kind |-> m.kind, relation_id |-> m.relation_id, tag |-> m.tag,
                old |-> m.old, new |-> m.new]
    BY <1>2, <1>5
  <2>2. m.tag \in Tags(m.kind)
    BY <1>3, <2>1
  <2>3. QED
    BY <1>5, <2>1, <2>2, KindsDiffer DEF WithOld
<1>6. CASE m \in Rows({Ascii.D}, {Ascii.O, Ascii.K}, Tuple, {<<>>})
  <2>1. /\ m.kind \in {Ascii.D} /\ m.tag \in {Ascii.O, Ascii.K}
        /\ m = [kind |-> m.kind, relation_id |-> m.relation_id, tag |-> m.tag,
                old |-> m.old, new |-> m.new]
    BY <1>2, <1>6
  <2>2. m.tag \in Tags(m.kind)
    BY <1>3, <2>1
  <2>3. QED
    BY <1>6, <2>1, <2>2, KindsDiffer DEF WithOld
<1>7. QED
  BY <1>1, <1>4, <1>5, <1>6 DEF WithOld

\* A row message, and the same with other tuples.
RowOf(k, r, g, o, n) == [kind |-> k, relation_id |-> r, tag |-> g, old |-> o, new |-> n]
WithOldNew(m, p, q) == [m EXCEPT !.old = p, !.new = q]
WithNew(m, q) == [m EXCEPT !.new = q]

\* What a row message is with other tuples.
LEMMA TuplesReplaced ==
  ASSUME NEW k, NEW r, NEW g, NEW o, NEW n, NEW p, NEW q, NEW m, m = RowOf(k, r, g, o, n)
  PROVE  /\ WithOldNew(m, p, q) = RowOf(k, r, g, p, q)
         /\ WithNew(m, q) = RowOf(k, r, g, o, q)
<1> DEFINE w == [m EXCEPT !.old = p]
<1>1. WithOldNew(m, p, q) = [w EXCEPT !.new = q]
  BY DEF WithOldNew
<1>2. w = RowOf(k, r, g, p, n)
  BY DEF RowOf
<1> HIDE DEF w
<1>3. [w EXCEPT !.new = q] = RowOf(k, r, g, p, q)
  BY <1>2 DEF RowOf
<1>4. WithNew(m, q) = RowOf(k, r, g, o, q)
  BY DEF RowOf, WithNew
<1>5. QED
  BY <1>1, <1>3, <1>4

\* What a row is when x values of its old tuple are read.
LEMMA OldSoFarAre ==
  ASSUME NEW m, WithOld(m), NEW x \in Nat
  PROVE  /\ m.old \in Seq(Cell) /\ Len(m.old) \in Nat /\ Len(m.old) <= MaxInt16
         /\ OldSoFar(m, x).old = SubSeq(m.old, 1, x) /\ OldSoFar(m, x).kind = m.kind
         /\ RowHead(OldSoFar(m, x)) = RowHead(m)
         /\ x < Len(m.old) => [OldSoFar(m, x) EXCEPT !.old = Append(@, m.old[x + 1])]
                                = OldSoFar(m, x + 1)
         /\ x <= Len(m.old) => Len(OldSoFar(m, x).old) = x
         /\ OldPart(OldSoFar(m, Len(m.old))) = OldPart(m)
         /\ OldPart(m) = RowHead(m) \o EncodedTuple(Len(m.old), m.old)
         /\ m.kind = Ascii.D => OldSoFar(m, Len(m.old)) = m
         /\ m.kind = Ascii.U => OldSoFar(m, Len(m.old)) = NewSoFar(m, 0)
<1> DEFINE vs == m.old
           s == SubSeq(vs, 1, x)
           t == SubSeq(vs, 1, x + 1)
           v == vs[x + 1]
           e == OldSoFar(m, x)
           a == OldSoFar(m, Len(vs))
<1>1. vs \in Seq(Cell) /\ Len(vs) <= MaxInt16 /\ Len(vs) \in Nat
  <2>1. IsRow(m)
    BY DEF IsRow
  <2>2. vs \in Tuple
    BY <2>1, RowIs
  <2>3. vs \in Seq(Cell) /\ Len(vs) <= MaxInt16
    BY <2>2, TupleIs
  <2>4. QED
    BY <2>3
<1>2. /\ x <= Len(vs) => Len(s) = x
      /\ x < Len(vs) => Append(s, v) = t
      /\ SubSeq(vs, 1, Len(vs)) = vs /\ SubSeq(m.new, 1, 0) = <<>>
  <2>1. IsRow(m)
    BY DEF IsRow
  <2>2. m.new \in Tuple
    BY <2>1, RowIs
  <2>3. m.new \in Seq(Cell)
    BY <2>2, TupleIs
  <2>4. SubSeq(m.new, 1, 0) = <<>>
    BY <2>3, SoFarIs
  <2>5. /\ SubSeq(vs, 1, Len(vs)) = vs
        /\ \A j \in Nat : j <= Len(vs) => SubSeq(vs, 1, j) \in Seq(Cell) /\ Len(SubSeq(vs, 1, j)) = j
        /\ \A j \in Nat : j < Len(vs) => /\ vs[j + 1] \in Cell
                                        /\ Append(SubSeq(vs, 1, j), vs[j + 1]) = SubSeq(vs, 1, j + 1)
    BY <1>1, SoFarIs
  <2>6. QED
    BY <2>4, <2>5
<1>3. /\ m = [kind |-> m.kind, relation_id |-> m.relation_id, tag |-> m.tag,
              old |-> vs, new |-> m.new]
      /\ m.tag # Ascii.N /\ (m.kind = Ascii.D => m.new = <<>>)
  <2>1. IsRow(m)
    BY DEF IsRow
  <2>2. QED
    BY <2>1, RowParts, RowIs
<1>4. e = [m EXCEPT !.old = s, !.new = <<>>]
  BY DEF OldSoFar
<1>5. OldSoFar(m, x + 1) = [m EXCEPT !.old = t, !.new = <<>>]
  BY DEF OldSoFar
<1>6. a = [m EXCEPT !.old = vs, !.new = <<>>]
  BY <1>2 DEF OldSoFar
<1>7. NewSoFar(m, 0) = [m EXCEPT !.new = <<>>]
  BY <1>2 DEF NewSoFar
<1> HIDE DEF s, t, v, e, a, vs
<1>8. /\ e.old = s /\ e.kind = m.kind /\ e.tag = m.tag /\ e.relation_id = m.relation_id
  BY <1>3, <1>4
<1>9. /\ a.old = vs /\ a.kind = m.kind /\ a.tag = m.tag /\ a.relation_id = m.relation_id
  BY <1>3, <1>6
<1>10. RowHead(e) = RowHead(m) /\ RowHead(a) = RowHead(m)
  BY <1>8, <1>9 DEF RowHead
<1>11. OldPart(a) = OldPart(m) /\ OldPart(m) = RowHead(m) \o EncodedTuple(Len(vs), vs)
  BY <1>3, <1>9, <1>10 DEF OldPart, vs
<1>12. x < Len(vs) => [e EXCEPT !.old = Append(@, v)] = OldSoFar(m, x + 1)
  <2>1. ASSUME x < Len(vs)
        PROVE  [e EXCEPT !.old = Append(@, v)] = [m EXCEPT !.old = t, !.new = <<>>]
    <3>1. Append(s, v) = t
      BY <1>2, <2>1
    <3>2. QED
      BY <1>3, <1>4, <1>8, <3>1
  <2>2. QED
    BY <1>5, <2>1
<1>13. /\ a = RowOf(m.kind, m.relation_id, m.tag, vs, <<>>)
       /\ NewSoFar(m, 0) = RowOf(m.kind, m.relation_id, m.tag, vs, <<>>)
  <2>1. m = RowOf(m.kind, m.relation_id, m.tag, vs, m.new)
    BY <1>3 DEF RowOf
  <2> DEFINE q == <<>>
  <2> HIDE DEF q
  <2>2. /\ WithOldNew(m, vs, q) = RowOf(m.kind, m.relation_id, m.tag, vs, q)
        /\ WithNew(m, q) = RowOf(m.kind, m.relation_id, m.tag, vs, q)
    BY <2>1, TuplesReplaced
  <2>3. a = WithOldNew(m, vs, q)
    BY <1>6 DEF q, WithOldNew
  <2>4. NewSoFar(m, 0) = WithNew(m, q)
    BY <1>7 DEF q, WithNew
  <2>5. QED
    BY <2>2, <2>3, <2>4 DEF q
<1>14. a = NewSoFar(m, 0)
  BY <1>13
<1>15. m.kind = Ascii.D => a = m
  <2>1. ASSUME m.kind = Ascii.D
        PROVE  a = m
    <3>1. m.new = <<>>
      BY <1>3, <2>1
    <3>2. m = [kind |-> m.kind, relation_id |-> m.relation_id, tag |-> m.tag,
               old |-> vs, new |-> m.new]
      BY <1>3
    <3>3. QED
      BY <1>13, <3>1, <3>2 DEF RowOf
  <2>2. QED
    BY <2>1
<1>16. QED
  BY <1>1, <1>2, <1>8, <1>10, <1>11, <1>12, <1>14, <1>15 DEF s, t, v, e, a, vs

\* What it is when x values of its new tuple are.
LEMMA NewSoFarAre ==
  ASSUME NEW m \in NewRows, NEW x \in Nat
  PROVE  /\ m.new \in Seq(Cell) /\ Len(m.new) \in Nat /\ Len(m.new) <= MaxInt16
         /\ NewSoFar(m, x).new = SubSeq(m.new, 1, x)
         /\ NewHead(NewSoFar(m, x)) = NewHead(m)
         /\ x < Len(m.new) => [NewSoFar(m, x) EXCEPT !.new = Append(@, m.new[x + 1])]
                                = NewSoFar(m, x + 1)
         /\ x <= Len(m.new) => Len(NewSoFar(m, x).new) = x
         /\ NewSoFar(m, Len(m.new)) = m
<1> DEFINE vs == m.new
           s == SubSeq(vs, 1, x)
           t == SubSeq(vs, 1, x + 1)
           v == vs[x + 1]
           e == NewSoFar(m, x)
           a == NewSoFar(m, Len(vs))
<1>1. vs \in Seq(Cell) /\ Len(vs) <= MaxInt16 /\ Len(vs) \in Nat
  <2>1. vs \in Tuple
    BY RowsAre
  <2>2. vs \in Seq(Cell) /\ Len(vs) <= MaxInt16
    BY <2>1, TupleIs
  <2>3. QED
    BY <2>2
<1>2. /\ x <= Len(vs) => Len(s) = x
      /\ x < Len(vs) => Append(s, v) = t
      /\ SubSeq(vs, 1, Len(vs)) = vs
  <2>1. /\ SubSeq(vs, 1, Len(vs)) = vs
        /\ \A j \in Nat : j <= Len(vs) => SubSeq(vs, 1, j) \in Seq(Cell) /\ Len(SubSeq(vs, 1, j)) = j
        /\ \A j \in Nat : j < Len(vs) => /\ vs[j + 1] \in Cell
                                        /\ Append(SubSeq(vs, 1, j), vs[j + 1]) = SubSeq(vs, 1, j + 1)
    BY <1>1, SoFarIs
  <2>2. QED
    BY <2>1
<1>3. m = [kind |-> m.kind, relation_id |-> m.relation_id, tag |-> m.tag,
           old |-> m.old, new |-> vs]
  <2>1. IsRow(m)
    BY DEF IsRow
  <2>2. QED
    BY <2>1, RowParts
<1>4. e = [m EXCEPT !.new = s]
  BY DEF NewSoFar
<1>5. NewSoFar(m, x + 1) = [m EXCEPT !.new = t]
  BY DEF NewSoFar
<1>6. a = [m EXCEPT !.new = vs]
  BY <1>2 DEF NewSoFar
<1> HIDE DEF s, t, v, e, a, vs
<1>7. /\ e.new = s /\ e.old = m.old /\ e.kind = m.kind /\ e.tag = m.tag
      /\ e.relation_id = m.relation_id
  BY <1>3, <1>4
<1>8. RowHead(e) = RowHead(m)
  BY <1>7 DEF RowHead
<1>9. OldPart(e) = OldPart(m)
  BY <1>7, <1>8 DEF OldPart
<1>10. NewHead(e) = NewHead(m)
  BY <1>7, <1>9 DEF NewHead
<1>11. x < Len(vs) => [e EXCEPT !.new = Append(@, v)] = NewSoFar(m, x + 1)
  <2>1. ASSUME x < Len(vs)
        PROVE  [e EXCEPT !.new = Append(@, v)] = [m EXCEPT !.new = t]
    <3>1. Append(s, v) = t
      BY <1>2, <2>1
    <3>2. QED
      BY <1>3, <1>4, <1>7, <3>1
  <2>2. QED
    BY <1>5, <2>1
<1>12. a = m
  BY <1>3, <1>6
<1>13. QED
  BY <1>1, <1>2, <1>7, <1>10, <1>11, <1>12 DEF s, t, v, e, a, vs

\* The same bytes in front of what begins with e.
LEMMA StartsAfter ==
  ASSUME NEW h \in Seq(Byte), NEW e \in Seq(Byte), NEW s, Starts(e, s)
  PROVE  Starts(h \o e, h \o s)
<1>1. PICK t \in Seq(Byte) : s = e \o t
  BY DEF Starts
<1>2. Associate(h, e, t)
  BY BytesAssociate
<1>3. h \o s = (h \o e) \o t
  BY <1>1, <1>2 DEF Associate
<1>4. QED
  BY <1>3 DEF Starts

\* Behind a complete old tuple the decoder is on the way.
LEMMA OldGoes ==
  ASSUME NEW m, WithOld(m), todo' = BehindOld(m), msg' = OldSoFar(m, Len(m.old))
  PROVE  Toward(m)'
<1>1. m.kind \in {Ascii.U, Ascii.D} /\ Ascii.U # Ascii.D
  BY RowIs, KindsDiffer DEF IsRow
<1>2. CASE m.kind = Ascii.D
  <2>1. OldSoFar(m, Len(m.old)) = m
    <3>1. 0 \in Nat
      OBVIOUS
    <3>2. QED
      BY <1>2, <3>1, OldSoFarAre
  <2>2. todo' = <<>> /\ msg' = m
    BY <1>2, <2>1 DEF BehindOld
  <2>3. QED
    BY <2>2 DEF Toward
<1>3. CASE m.kind = Ascii.U
  <2>1. todo' = << <<"tag", "">>, <<"count", "new">> >>
    BY <1>1, <1>3 DEF BehindOld
  <2>2. QED
    BY <1>3, <2>1 DEF Toward
<1>4. QED
  BY <1>1, <1>2, <1>3

\* The head of a row message is read.
LEMMA RowGoes ==
  ASSUME NEW m, Goer(m, "row"), ReadRow
  PROVE  Onward(m)
<1>1. /\ Doer("row") /\ Inside /\ m \in Message /\ payload = Encoded(m) /\ Toward(m)
      /\ result = "reading" /\ Somewhere /\ todo # <<>> /\ todo[1][1] = "row"
  BY DEF Goer, Doer
<1>2. PICK k \in {Ascii.I, Ascii.U, Ascii.D} : InBody(k)
  BY <1>1, WhereItIs
<1>3. Body(m.kind) = "row" /\ msg = [kind |-> m.kind]
  BY <1>1, TowardIs
<1>4. IsRow(m)
  BY <1>1, <1>3, KindOf
<1>5. Inside /\ at = 1
  <2>1. Wrote(<<k>>)
    BY <1>2 DEF InBody
  <2>2. QED
    BY <1>1, <2>1, OneRead
<1> DEFINE i == m.relation_id
           x == m.tag
           g == <<x>>
           h0 == <<m.kind>>
           h1 == h0 \o i
           h2 == h1 \o g
<1>6. m.kind \in {Ascii.I, Ascii.U, Ascii.D} /\ m.kind \in Byte /\ x \in Byte /\ i \in Bytes(4)
  BY <1>4, RowIs
<1>7. i \in Seq(Byte) /\ Len(i) = 4
  BY <1>6, BytesIs
<1>8. h0 \in Seq(Byte) /\ Len(h0) = 1 /\ g \in Seq(Byte) /\ Len(g) = 1
  <2>1. h0 \in Seq(Byte) /\ Len(h0) = 1
    BY <1>6
  <2>2. g \in Seq(Byte) /\ Len(g) = 1
    BY <1>6
  <2>3. QED
    BY <2>1, <2>2
<1>9. Starts(h2, payload)
  <2>1. /\ RowHead(m) \in Seq(Byte) /\ OldPart(m) \in Seq(Byte)
        /\ Starts(RowHead(m), OldPart(m)) /\ Starts(OldPart(m), Encoded(m))
    BY <1>4, RowStarts
  <2>2. Starts(RowHead(m), Encoded(m))
    BY <2>1, StartsOn
  <2>3. RowHead(m) = h2
    BY DEF RowHead
  <2>4. QED
    BY <1>1, <2>2, <2>3
<1>10. /\ 0 \in Nat /\ 1 \in Nat /\ 4 \in Nat /\ 5 \in Nat
       /\ 5 = 1 + Len(i) /\ 6 = 5 + Len(g) /\ 1 = at + 0 /\ 5 = at + 4
  BY <1>5, <1>7, <1>8
<1> HIDE DEF h0, i, g, x
<1>11. h1 \in Seq(Byte)
  BY <1>7, <1>8, BothAre
<1> HIDE DEF h1
<1>12. Starts(h1, payload)
  BY <1>8, <1>9, <1>11, StartsLess
<1>13. Starts(h0 \o i, payload)
  BY <1>12 DEF h1
<1>14. Part(h0, i, 1, 5)
  BY <1>5, <1>7, <1>8, <1>10, <1>13, PartIs
<1>15. Part(h1, g, 5, 6)
  <2>1. Len(h1) = 5
    BY <1>14 DEF Part, h1
  <2>2. QED
    BY <1>5, <1>8, <1>9, <1>10, <1>11, <2>1, PartIs
<1>16. Take(0, 4) = i
  BY <1>5, <1>7, <1>10, <1>14, TakenAsWritten DEF Part
<1>17. U8(4) = x
  <2>1. Spells(payload, 5, <<x>>, {})
    BY <1>15 DEF Part, g
  <2>2. QED
    BY <1>5, <1>6, <1>10, <2>1, ByteFound
<1>18. Has(5)
  BY <1>5, <1>15 DEF Part, Has
<1> DEFINE e == [kind |-> m.kind, relation_id |-> i, tag |-> x, old |-> <<>>, new |-> <<>>]
<1>19. Read(5, e, Tuples(m.kind, x))
  <2>1. msg.kind = m.kind
    BY <1>3
  <2>2. U8(4) \in Tags(msg.kind)
    BY <1>4, <1>17, <2>1, RowParts DEF x
  <2>3. Read(5, [kind |-> msg.kind, relation_id |-> Take(0, 4), tag |-> U8(4),
                 old |-> <<>>, new |-> <<>>], Tuples(msg.kind, U8(4)))
    BY <1>18, <2>2 DEF ReadRow
  <2>4. QED
    BY <1>16, <1>17, <2>1, <2>3
<1>20. Tail(todo) = <<>>
  BY <1>2, HeadsAre DEF NextUp
<1>21. todo' = Tuples(m.kind, x) \o <<>> /\ msg' = e /\ payload' = payload /\ result' = result
  BY <1>19, <1>20 DEF Read
<1>22. /\ m = [kind |-> m.kind, relation_id |-> i, tag |-> x, old |-> m.old, new |-> m.new]
       /\ x = Ascii.N => m \in NewRows /\ m.old = <<>>
       /\ x # Ascii.N => WithOld(m)
  BY <1>4, RowParts DEF x, i
<1>23. 0 \in Nat
  OBVIOUS
<1>24. Toward(m)'
  <2>1. CASE x = Ascii.N
    <3>1. todo' = << <<"count", "new">> >>
      BY <1>21, <2>1, NothingAround DEF Tuples, New
    <3>2. e = NewSoFar(m, 0)
      <4>1. m.new \in Seq(Cell)
        BY <1>22, <1>23, <2>1, NewSoFarAre
      <4>2. SubSeq(m.new, 1, 0) = <<>>
        BY <4>1, SoFarIs
      <4>3. NewSoFar(m, 0) = [m EXCEPT !.new = <<>>]
        BY <4>2 DEF NewSoFar
      <4>4. QED
        BY <1>22, <2>1, <4>3
    <3>3. QED
      BY <1>21, <1>22, <2>1, <3>1, <3>2 DEF Toward
  <2>2. CASE x # Ascii.N
    <3>1. WithOld(m)
      BY <1>22, <2>2
    <3>2. e = OldSoFar(m, 0)
      <4>1. m.old \in Seq(Cell)
        BY <1>23, <3>1, OldSoFarAre
      <4>2. SubSeq(m.old, 1, 0) = <<>>
        BY <4>1, SoFarIs
      <4>3. OldSoFar(m, 0) = [m EXCEPT !.old = <<>>, !.new = <<>>]
        BY <4>2 DEF OldSoFar
      <4> DEFINE q == <<>>
      <4>4. OldSoFar(m, 0) = WithOldNew(m, q, q)
        BY <4>3 DEF WithOldNew
      <4>5. m = RowOf(m.kind, i, x, m.old, m.new)
        BY <1>22 DEF RowOf
      <4> HIDE DEF q
      <4>6. WithOldNew(m, q, q) = RowOf(m.kind, i, x, q, q)
        BY <4>5, TuplesReplaced
      <4>7. QED
        BY <4>4, <4>6 DEF q, RowOf
    <3>3. todo' = << <<"count", "old">> >> \o BehindOld(m)
      <4> DEFINE a == <<"count", "old">>
                 y == <<"tag", "">>
                 z == <<"count", "new">>
      <4>1. m.kind \in {Ascii.U, Ascii.D}
        BY <3>1, RowIs DEF IsRow
      <4>2. CASE m.kind = Ascii.D
        BY <1>21, <2>2, <4>2, NothingAround DEF Tuples, Old, BehindOld
      <4>3. CASE m.kind = Ascii.U
        <5>1. Tuples(m.kind, x) = <<a>> \o <<y>> \o <<z>>
          BY <2>2, <4>3, KindsDiffer DEF Tuples, Old, New
        <5>2. BehindOld(m) = <<y, z>>
          BY <4>3, KindsDiffer DEF BehindOld
        <5> HIDE DEF a, y, z
        <5>3. (<<a>> \o <<y>> \o <<z>>) \o <<>> = <<a>> \o <<y, z>>
          BY ThreeParts
        <5>4. QED
          BY <1>21, <5>1, <5>2, <5>3 DEF a
      <4>4. QED
        BY <4>1, <4>2, <4>3
    <3>4. QED
      BY <1>21, <3>1, <3>2, <3>3 DEF Toward
  <2>3. QED
    BY <2>1, <2>2
<1>25. QED
  BY <1>1, <1>21, <1>24 DEF Onward

\* The tag of a new tuple is read.
LEMMA TagGoes ==
  ASSUME NEW m, Goer(m, "tag"), ReadTag
  PROVE  Onward(m)
<1>1. /\ Doer("tag") /\ Inside /\ m \in Message /\ payload = Encoded(m) /\ Toward(m)
      /\ result = "reading" /\ Somewhere /\ todo # <<>> /\ todo[1][1] = "tag"
  BY DEF Goer, Doer
<1>2. AtTag
  BY <1>1, WhereItIs
<1>3. WithOld(m) /\ m.kind = Ascii.U /\ msg = OldSoFar(m, Len(m.old))
  BY <1>1, TowardIs
<1>4. m \in NewRows /\ IsRow(m) /\ m.tag # Ascii.N
  BY <1>3, RowIs DEF IsRow
<1>5. 0 \in Nat
  OBVIOUS
<1>6. OldPart(msg) = OldPart(m) /\ msg = NewSoFar(m, 0)
  BY <1>3, <1>5, OldSoFarAre
<1> DEFINE h == OldPart(m)
           e == <<Ascii.N>>
           t == EncodedTuple(Len(m.new), m.new)
<1>7. h \in Seq(Byte) /\ Encoded(m) = EncodedNew(m)
  BY <1>4, RowStarts
<1>8. e \in Seq(Byte) /\ Ascii.N \in Byte
  <2>1. Ascii.N \in Byte
    BY AsciiIs, ByteIs
  <2>2. QED
    BY <2>1
<1>9. NewHead(m) = h \o e
  BY <1>3, <1>4 DEF NewHead
<1>10. t \in Seq(Byte)
  BY <1>4, <1>5, NewSoFarAre, TupleType
<1>11. payload = (h \o e) \o t
  BY <1>1, <1>7, <1>9 DEF EncodedNew
<1>12. Wrote(h)
  BY <1>2, <1>6 DEF AtTag
<1> HIDE DEF h, e, t
<1>13. Starts(h \o e, payload)
  BY <1>10, <1>11, StartsIt
<1>14. Spells(payload, at, e, {})
  BY <1>1, <1>8, <1>12, <1>13, NextIs
<1>15. Has(1) /\ U8(0) = Ascii.N
  <2>1. at \in Nat
    BY <1>1 DEF Inside
  <2>2. at = at + 0
    BY <2>1
  <2>3. Has(0 + 1) /\ U8(0) = Ascii.N
    BY <1>1, <1>5, <1>8, <1>14, <2>2, ByteFound DEF e
  <2>4. Has(1)
    BY <2>3
  <2>5. QED
    BY <2>3, <2>4
<1>16. Read(1, msg, <<>>)
  BY <1>15 DEF ReadTag
<1>17. Tail(todo) = << <<"count", "new">> >>
  BY <1>2, HeadsAre DEF NextUp
<1>18. /\ todo' = << <<"count", "new">> >> /\ msg' = msg /\ payload' = payload
       /\ result' = result
  BY <1>16, <1>17, NothingAround DEF Read
<1>19. msg' = NewSoFar(m, 0)
  BY <1>6, <1>18
<1>20. Toward(m)'
  BY <1>4, <1>18, <1>19 DEF Toward
<1>21. QED
  BY <1>1, <1>18, <1>20 DEF Onward

\* The count of a tuple of n values is at the cursor if what begins the payload
\* ends in front of the tuple.
LEMMA CountComes ==
  ASSUME Inside, NEW h \in Seq(Byte), Wrote(h), NEW vs \in Seq(Cell), NEW n \in Nat,
         n <= MaxInt16, Starts(h \o EncodedTuple(n, vs), payload)
  PROVE  Has(2) /\ I16(0) = n
<1> DEFINE e == Bytes16(n)
           t == EncodedTuple(n, vs)
<1>1. e \in Seq(Byte) /\ Starts(e, t)
  BY NumberBytes, TupleBegins
<1> HIDE DEF e, t
<1>2. Starts(h \o e, h \o t)
  BY <1>1, StartsAfter
<1>3. h \o e \in Seq(Byte)
  BY <1>1, BothAre
<1>4. Starts(h \o t, payload)
  BY DEF t
<1>5. Starts(h \o e, payload)
  BY <1>2, <1>3, <1>4, StartsOn
<1>6. Spells(payload, at, e, {})
  BY <1>1, <1>5, NextIs
<1>7. at \in Nat
  BY DEF Inside
<1>8. at = at + 0 /\ 0 \in Nat
  BY <1>7
<1>9. Has(0 + 2) /\ I16(0) = n
  BY <1>6, <1>8, CountFound DEF e
<1>10. Has(2)
  BY <1>9
<1>11. QED
  BY <1>9, <1>10

\* The payload begins with what leads to a tuple of m and the tuple.
LEMMA TuplesCome ==
  ASSUME NEW m
  PROVE  /\ WithOld(m) => /\ RowHead(m) \in Seq(Byte)
                          /\ Starts(RowHead(m) \o EncodedTuple(Len(m.old), m.old), Encoded(m))
         /\ m \in NewRows => /\ NewHead(m) \in Seq(Byte)
                             /\ Starts(NewHead(m) \o EncodedTuple(Len(m.new), m.new), Encoded(m))
<1>1. 0 \in Nat
  OBVIOUS
<1>2. ASSUME WithOld(m)
      PROVE  /\ RowHead(m) \in Seq(Byte)
             /\ Starts(RowHead(m) \o EncodedTuple(Len(m.old), m.old), Encoded(m))
  <2>1. IsRow(m)
    BY <1>2 DEF IsRow
  <2>2. RowHead(m) \in Seq(Byte) /\ Starts(OldPart(m), Encoded(m))
    BY <2>1, RowStarts
  <2>3. OldPart(m) = RowHead(m) \o EncodedTuple(Len(m.old), m.old)
    BY <1>1, <1>2, OldSoFarAre
  <2>4. QED
    BY <2>2, <2>3
<1>3. ASSUME m \in NewRows
      PROVE  /\ NewHead(m) \in Seq(Byte)
             /\ Starts(NewHead(m) \o EncodedTuple(Len(m.new), m.new), Encoded(m))
  <2>1. IsRow(m)
    BY <1>3 DEF IsRow
  <2> DEFINE h == NewHead(m)
             t == EncodedTuple(Len(m.new), m.new)
  <2>2. h \in Seq(Byte) /\ Encoded(m) = EncodedNew(m)
    BY <1>3, <2>1, RowStarts
  <2>3. m.new \in Seq(Cell) /\ Len(m.new) \in Nat /\ Len(m.new) <= MaxInt16
    BY <1>1, <1>3, NewSoFarAre
  <2>4. t \in Seq(Byte)
    BY <2>3, TupleType
  <2>5. Encoded(m) = h \o t
    BY <2>2 DEF EncodedNew
  <2> HIDE DEF h, t
  <2>6. h \o t \in Seq(Byte)
    BY <2>2, <2>4, BothAre
  <2>7. Starts(h \o t, Encoded(m))
    BY <2>5, <2>6, StartsItself
  <2>8. QED
    BY <2>2, <2>7 DEF h, t
<1>4. QED
  BY <1>2, <1>3

\* The count of a tuple is read.
LEMMA CountGoes ==
  ASSUME NEW m, Goer(m, "count"), ReadCount
  PROVE  Onward(m)
<1>1. /\ Doer("count") /\ Inside /\ m \in Message /\ payload = Encoded(m) /\ Toward(m)
      /\ result = "reading" /\ Somewhere /\ todo # <<>> /\ todo[1][1] = "count"
  BY DEF Goer, Doer
<1>2. AtOldCount \/ AtNewCount
  BY <1>1, WhereItIs
<1>3. 0 \in Nat
  OBVIOUS
<1>4. ASSUME NEW n, Has(2) /\ I16(0) = n, n \in Nat
      PROVE  /\ left' = n
             /\ Read(2, msg, IF n = 0 THEN <<>> ELSE << <<"value", todo[1][2]>> >>)
  <2>1. I16(0) >= 0
    BY <1>4
  <2>2. QED
    BY <1>4, <2>1 DEF ReadCount
<1>5. CASE AtOldCount
  <2>1. NextUp("count", "old", BehindOld(msg))
    BY <1>5, HeadsAre
  <2>2. todo[1][2] = "old" /\ Tail(todo) = BehindOld(msg)
    BY <2>1 DEF NextUp
  <2>3. WithOld(m) /\ msg = OldSoFar(m, 0)
    BY <1>1, <2>2, TowardIs
  <2>4. /\ m.old \in Seq(Cell) /\ Len(m.old) \in Nat /\ Len(m.old) <= MaxInt16
        /\ RowHead(msg) = RowHead(m) /\ msg.kind = m.kind
    BY <1>3, <2>3, OldSoFarAre
  <2>5. Wrote(RowHead(m))
    BY <1>5, <2>4 DEF AtOldCount
  <2>6. PICK n \in Nat : n = Len(m.old)
    BY <2>4
  <2>7. /\ RowHead(m) \in Seq(Byte)
        /\ Starts(RowHead(m) \o EncodedTuple(n, m.old), payload)
    BY <1>1, <2>3, <2>6, TuplesCome
  <2>8. Has(2) /\ I16(0) = n
    BY <1>1, <2>4, <2>5, <2>6, <2>7, CountComes
  <2>9. left' = n /\ Read(2, msg, IF n = 0 THEN <<>> ELSE << <<"value", todo[1][2]>> >>)
    BY <1>4, <2>8
  <2>10. BehindOld(msg) = BehindOld(m)
    BY <2>4 DEF BehindOld
  <2>11. /\ todo' = (IF n = 0 THEN <<>> ELSE << <<"value", "old">> >>) \o BehindOld(m)
         /\ msg' = OldSoFar(m, 0) /\ payload' = payload /\ result' = result
    BY <2>2, <2>3, <2>9, <2>10 DEF Read
  <2>12. Toward(m)'
    <3>1. CASE n = 0
      <4>1. todo' = BehindOld(m)
        BY <2>11, <3>1, NothingBefore
      <4>2. msg' = OldSoFar(m, Len(m.old))
        BY <2>6, <2>11, <3>1
      <4>3. QED
        BY <2>3, <4>1, <4>2, OldGoes
    <3>2. CASE n # 0
      <4>1. left' = Len(m.old) - 0 /\ left' > 0
        BY <2>6, <2>9, <3>2
      <4>2. todo' = << <<"value", "old">> >> \o BehindOld(m)
        BY <2>11, <3>2
      <4>3. /\ todo' = << <<"value", "old">> >> \o BehindOld(m) /\ WithOld(m)
            /\ \E x \in Nat : left' = Len(m.old) - x /\ left' > 0 /\ msg' = OldSoFar(m, x)
        BY <1>3, <2>3, <2>11, <4>1, <4>2
      <4>4. QED
        BY <4>3 DEF Toward
    <3>3. QED
      BY <3>1, <3>2
  <2>13. QED
    BY <1>1, <2>11, <2>12 DEF Onward
<1>6. CASE AtNewCount
  <2>1. NextUp("count", "new", <<>>)
    BY <1>6, HeadsAre
  <2>2. todo[1][2] = "new" /\ Tail(todo) = <<>>
    BY <2>1 DEF NextUp
  <2>3. m \in NewRows /\ msg = NewSoFar(m, 0)
    BY <1>1, <2>2, TowardIs
  <2>4. /\ m.new \in Seq(Cell) /\ Len(m.new) \in Nat /\ Len(m.new) <= MaxInt16
        /\ NewHead(msg) = NewHead(m) /\ NewSoFar(m, Len(m.new)) = m
    BY <1>3, <2>3, NewSoFarAre
  <2>5. Wrote(NewHead(m))
    BY <1>6, <2>4 DEF AtNewCount
  <2>6. PICK n \in Nat : n = Len(m.new)
    BY <2>4
  <2>7. /\ NewHead(m) \in Seq(Byte)
        /\ Starts(NewHead(m) \o EncodedTuple(n, m.new), payload)
    BY <1>1, <2>3, <2>6, TuplesCome
  <2>8. Has(2) /\ I16(0) = n
    BY <1>1, <2>4, <2>5, <2>6, <2>7, CountComes
  <2>9. left' = n /\ Read(2, msg, IF n = 0 THEN <<>> ELSE << <<"value", todo[1][2]>> >>)
    BY <1>4, <2>8
  <2>10. /\ todo' = IF n = 0 THEN <<>> ELSE << <<"value", "new">> >>
         /\ msg' = NewSoFar(m, 0) /\ payload' = payload /\ result' = result
    BY <2>2, <2>3, <2>9, NothingAround DEF Read
  <2>11. Toward(m)'
    <3>1. CASE n = 0
      <4>1. todo' = <<>> /\ msg' = m
        BY <2>4, <2>6, <2>10, <3>1
      <4>2. QED
        BY <4>1 DEF Toward
    <3>2. CASE n # 0
      <4>1. left' = Len(m.new) - 0 /\ left' > 0
        BY <2>6, <2>9, <3>2
      <4>2. todo' = << <<"value", "new">> >>
        BY <2>10, <3>2
      <4>3. /\ todo' = << <<"value", "new">> >> /\ m \in NewRows
            /\ \E x \in Nat : left' = Len(m.new) - x /\ left' > 0 /\ msg' = NewSoFar(m, x)
        BY <1>3, <2>3, <2>10, <4>1, <4>2
      <4>4. QED
        BY <4>3 DEF Toward
    <3>3. QED
      BY <3>1, <3>2
  <2>12. QED
    BY <1>1, <2>10, <2>11 DEF Onward
<1>7. QED
  BY <1>2, <1>5, <1>6

\* The next value of a tuple is at the cursor.
LEMMA ValueComes ==
  ASSUME Inside, NEW h \in Seq(Byte), NEW vs \in Seq(Cell), NEW n \in Nat, n <= MaxInt16,
         NEW x \in Nat, x < Len(vs), Wrote(h \o EncodedTuple(n, SubSeq(vs, 1, x))),
         Starts(h \o EncodedTuple(n, vs), payload)
  PROVE  ValueIsThere /\ ValueRead = vs[x + 1]
<1> DEFINE v == vs[x + 1]
           e == EncodedValue(v)
           t == EncodedTuple(n, SubSeq(vs, 1, x))
           s == EncodedTuple(n, vs)
<1>1. t \in Seq(Byte) /\ e \in Seq(Byte) /\ v \in Cell /\ Starts(t \o e, s)
  BY TupleStep
<1>2. Wrote(h \o t) /\ Starts(h \o s, payload)
  OBVIOUS
<1> HIDE DEF t, s, v
<1>3. Starts((h \o t) \o e, h \o s)
  BY <1>1, StartsBehind
<1>4. (h \o t) \o e \in Seq(Byte)
  <2>1. h \o t \in Seq(Byte)
    BY <1>1, BothAre
  <2>2. QED
    BY <1>1, <2>1, BothAre
<1>5. Starts((h \o t) \o e, payload)
  BY <1>2, <1>3, <1>4, StartsOn
<1>6. Spells(payload, at, e, {})
  BY <1>1, <1>2, <1>5, NextIs
<1>7. ValueIsThere /\ ValueRead = v
  BY <1>1, <1>6, ValueFound
<1>8. QED
  BY <1>7 DEF v

\* A value is read.
LEMMA ValueGoes ==
  ASSUME NEW m, Goer(m, "value"), ReadValue
  PROVE  Onward(m)
<1>1. /\ Doer("value") /\ Inside /\ m \in Message /\ payload = Encoded(m) /\ Toward(m)
      /\ result = "reading" /\ Somewhere /\ todo # <<>> /\ todo[1][1] = "value"
  BY DEF Goer, Doer
<1>2. AtOldValue \/ AtNewValue
  BY <1>1, WhereItIs
<1>3. ASSUME NEW v, ValueIsThere, ValueRead = v
      PROVE  /\ left' = left - 1
             /\ Read(ValueLen, [msg EXCEPT ![todo[1][2]] = Append(@, v)],
                     IF left' = 0 THEN <<>> ELSE << todo[1] >>)
  BY <1>3 DEF ReadValue
<1>4. CASE AtOldValue
  <2>1. NextUp("value", "old", BehindOld(msg))
    BY <1>4, HeadsAre
  <2>2. todo[1] = <<"value", "old">> /\ todo[1][2] = "old" /\ Tail(todo) = BehindOld(msg)
    BY <2>1 DEF NextUp
  <2>3. /\ WithOld(m)
        /\ \E x \in Nat : left = Len(m.old) - x /\ left > 0 /\ msg = OldSoFar(m, x)
    BY <1>1, <2>2, TowardIs
  <2>4. PICK x \in Nat : left = Len(m.old) - x /\ left > 0 /\ msg = OldSoFar(m, x)
    BY <2>3
  <2>5. /\ m.old \in Seq(Cell) /\ Len(m.old) \in Nat /\ Len(m.old) <= MaxInt16
        /\ RowHead(OldSoFar(m, x)) = RowHead(m) /\ OldSoFar(m, x).kind = m.kind
        /\ OldSoFar(m, x).old = SubSeq(m.old, 1, x)
        /\ x < Len(m.old) => [OldSoFar(m, x) EXCEPT !.old = Append(@, m.old[x + 1])]
                               = OldSoFar(m, x + 1)
        /\ x <= Len(m.old) => Len(OldSoFar(m, x).old) = x
    BY <2>3, OldSoFarAre
  <2>6. PICK n \in Nat : n = Len(m.old)
    BY <2>5
  <2>7. x < n /\ x <= n /\ left = n - x /\ x + left = n /\ x + 1 \in Nat
    BY <2>4, <2>6
  <2>8. /\ RowHead(msg) = RowHead(m) /\ msg.kind = m.kind /\ msg.old = SubSeq(m.old, 1, x)
        /\ [msg EXCEPT !.old = Append(@, m.old[x + 1])] = OldSoFar(m, x + 1)
        /\ Len(msg.old) = x
    BY <2>4, <2>5, <2>6, <2>7
  <2>9. Wrote(RowHead(m) \o EncodedTuple(n, SubSeq(m.old, 1, x)))
    BY <1>4, <2>7, <2>8 DEF AtOldValue
  <2>10. /\ RowHead(m) \in Seq(Byte)
         /\ Starts(RowHead(m) \o EncodedTuple(n, m.old), payload)
    BY <1>1, <2>3, <2>6, TuplesCome
  <2>11. ValueIsThere /\ ValueRead = m.old[x + 1]
    <3>1. x < Len(m.old) /\ n <= MaxInt16 /\ m.old \in Seq(Cell)
      BY <2>5, <2>6, <2>7
    <3>2. QED
      BY <1>1, <2>9, <2>10, <3>1, ValueComes
  <2>12. PICK v : v = m.old[x + 1]
    OBVIOUS
  <2>13. /\ left' = left - 1
         /\ Read(ValueLen, [msg EXCEPT !["old"] = Append(@, v)],
                 IF left' = 0 THEN <<>> ELSE << <<"value", "old">> >>)
    BY <1>3, <2>2, <2>11, <2>12
  <2>14. left' = n - (x + 1)
    BY <2>7, <2>13
  <2>15. BehindOld(msg) = BehindOld(m)
    BY <2>8 DEF BehindOld
  <2>16. [msg EXCEPT !["old"] = Append(@, v)] = OldSoFar(m, x + 1)
    BY <2>8, <2>12
  <2>17. /\ todo' = (IF left' = 0 THEN <<>> ELSE << <<"value", "old">> >>) \o BehindOld(m)
         /\ msg' = OldSoFar(m, x + 1) /\ payload' = payload /\ result' = result
    BY <2>2, <2>13, <2>15, <2>16 DEF Read
  <2>18. Toward(m)'
    <3>1. CASE left' = 0
      <4>1. x + 1 = n
        BY <2>7, <2>14, <3>1
      <4>2. todo' = BehindOld(m)
        BY <2>17, <3>1, NothingBefore
      <4>3. msg' = OldSoFar(m, Len(m.old))
        BY <2>6, <2>17, <4>1
      <4>4. QED
        BY <2>3, <4>2, <4>3, OldGoes
    <3>2. CASE left' # 0
      <4>1. left' > 0
        BY <2>7, <2>14, <3>2
      <4>2. left' = Len(m.old) - (x + 1)
        BY <2>6, <2>14
      <4>3. todo' = << <<"value", "old">> >> \o BehindOld(m)
        BY <2>17, <3>2
      <4>4. /\ todo' = << <<"value", "old">> >> \o BehindOld(m) /\ WithOld(m)
            /\ \E y \in Nat : left' = Len(m.old) - y /\ left' > 0 /\ msg' = OldSoFar(m, y)
        BY <2>3, <2>7, <2>17, <4>1, <4>2, <4>3
      <4>5. QED
        BY <4>4 DEF Toward
    <3>3. QED
      BY <3>1, <3>2
  <2>19. QED
    BY <1>1, <2>17, <2>18 DEF Onward
<1>5. CASE AtNewValue
  <2>1. NextUp("value", "new", <<>>)
    BY <1>5, HeadsAre
  <2>2. todo[1] = <<"value", "new">> /\ todo[1][2] = "new" /\ Tail(todo) = <<>>
    BY <2>1 DEF NextUp
  <2>3. /\ m \in NewRows
        /\ \E x \in Nat : left = Len(m.new) - x /\ left > 0 /\ msg = NewSoFar(m, x)
    BY <1>1, <2>2, TowardIs
  <2>4. PICK x \in Nat : left = Len(m.new) - x /\ left > 0 /\ msg = NewSoFar(m, x)
    BY <2>3
  <2>5. /\ m.new \in Seq(Cell) /\ Len(m.new) \in Nat /\ Len(m.new) <= MaxInt16
        /\ NewHead(NewSoFar(m, x)) = NewHead(m)
        /\ NewSoFar(m, x).new = SubSeq(m.new, 1, x)
        /\ x < Len(m.new) => [NewSoFar(m, x) EXCEPT !.new = Append(@, m.new[x + 1])]
                               = NewSoFar(m, x + 1)
        /\ x <= Len(m.new) => Len(NewSoFar(m, x).new) = x
        /\ NewSoFar(m, Len(m.new)) = m
    BY <2>3, NewSoFarAre
  <2>6. PICK n \in Nat : n = Len(m.new)
    BY <2>5
  <2>7. x < n /\ x <= n /\ left = n - x /\ x + left = n /\ x + 1 \in Nat
    BY <2>4, <2>6
  <2>8. /\ NewHead(msg) = NewHead(m) /\ msg.new = SubSeq(m.new, 1, x)
        /\ [msg EXCEPT !.new = Append(@, m.new[x + 1])] = NewSoFar(m, x + 1)
        /\ Len(msg.new) = x
    BY <2>4, <2>5, <2>6, <2>7
  <2>9. Wrote(NewHead(m) \o EncodedTuple(n, SubSeq(m.new, 1, x)))
    BY <1>5, <2>7, <2>8 DEF AtNewValue
  <2>10. /\ NewHead(m) \in Seq(Byte)
         /\ Starts(NewHead(m) \o EncodedTuple(n, m.new), payload)
    BY <1>1, <2>3, <2>6, TuplesCome
  <2>11. ValueIsThere /\ ValueRead = m.new[x + 1]
    <3>1. x < Len(m.new) /\ n <= MaxInt16 /\ m.new \in Seq(Cell)
      BY <2>5, <2>6, <2>7
    <3>2. QED
      BY <1>1, <2>9, <2>10, <3>1, ValueComes
  <2>12. PICK v : v = m.new[x + 1]
    OBVIOUS
  <2>13. /\ left' = left - 1
         /\ Read(ValueLen, [msg EXCEPT !["new"] = Append(@, v)],
                 IF left' = 0 THEN <<>> ELSE << <<"value", "new">> >>)
    BY <1>3, <2>2, <2>11, <2>12
  <2>14. left' = n - (x + 1)
    BY <2>7, <2>13
  <2>15. [msg EXCEPT !["new"] = Append(@, v)] = NewSoFar(m, x + 1)
    BY <2>8, <2>12
  <2>16. /\ todo' = IF left' = 0 THEN <<>> ELSE << <<"value", "new">> >>
         /\ msg' = NewSoFar(m, x + 1) /\ payload' = payload /\ result' = result
    BY <2>2, <2>13, <2>15, NothingAround DEF Read
  <2>17. Toward(m)'
    <3>1. CASE left' = 0
      <4>1. x + 1 = n
        BY <2>7, <2>14, <3>1
      <4>2. todo' = <<>> /\ msg' = m
        BY <2>5, <2>6, <2>16, <3>1, <4>1
      <4>3. QED
        BY <4>2 DEF Toward
    <3>2. CASE left' # 0
      <4>1. left' > 0
        BY <2>7, <2>14, <3>2
      <4>2. left' = Len(m.new) - (x + 1)
        BY <2>6, <2>14
      <4>3. todo' = << <<"value", "new">> >>
        BY <2>16, <3>2
      <4>4. /\ todo' = << <<"value", "new">> >> /\ m \in NewRows
            /\ \E y \in Nat : left' = Len(m.new) - y /\ left' > 0 /\ msg' = NewSoFar(m, y)
        BY <2>3, <2>7, <2>16, <4>1, <4>2, <4>3
      <4>5. QED
        BY <4>4 DEF Toward
    <3>3. QED
      BY <3>1, <3>2
  <2>18. QED
    BY <1>1, <2>16, <2>17 DEF Onward
<1>6. QED
  BY <1>2, <1>4, <1>5

\* When nothing is left to read, all of m is read.
LEMMA NothingLeft ==
  ASSUME NEW m, Toward(m), todo = <<>>
  PROVE  msg = m
<1>1. \A a : << <<a, "old">> >> \o BehindOld(m) # <<>>
  BY BehindIs
<1>2. \A a : <<a>> # <<>>
  OBVIOUS
<1>3. \A a, b : <<a, b>> # <<>>
  OBVIOUS
<1>4. todo # << <<"tag", "">>, <<"count", "new">> >>
  BY <1>3
<1>5. QED
  BY <1>1, <1>2, <1>4 DEF Toward

\* The decoder finishes with m.
LEMMA FinishGoes ==
  ASSUME NEW m, IInv, payload = Encoded(m), Toward(m), Finish
  PROVE  result' = "ok" /\ msg' = m /\ payload' = payload
<1>1. /\ InBounds /\ Somewhere /\ todo = <<>>
      /\ result' = (IF at = Len(payload) THEN "ok" ELSE "decode")
      /\ msg' = msg /\ payload' = payload
  BY DEF IInv, Finish
<1>2. AtEnd
  <2>1. \A a, b, rest : ~NextUp(a, b, rest)
    BY <1>1 DEF NextUp
  <2>2. ~AtBody
    BY <2>1, HeadsAre DEF AtBody
  <2>3. QED
    BY <1>1, <2>1, <2>2, HeadsAre DEF Somewhere
<1>3. msg = m
  BY <1>1, NothingLeft
<1>4. Len(Encoded(m)) = at
  BY <1>2, <1>3 DEF AtEnd, Wrote, Laid
<1>5. at = Len(payload)
  BY <1>4
<1>6. QED
  BY <1>1, <1>3, <1>5

\* No step touches the payload, and none is taken once there is a result.
LEMMA StepsAre ==
  ASSUME Next
  PROVE  payload' = payload /\ result = "reading"
<1>1. ASSUME NEW n, NEW m, NEW more, Read(n, m, more)
      PROVE  payload' = payload
  BY <1>1 DEF Read
<1>2. Refuse => payload' = payload
  BY DEF Refuse
<1>3. ASSUME NEW part, Doing(part)
      PROVE  result = "reading"
  BY <1>3 DEF Doing
<1>4. CASE ReadKind
  BY <1>1, <1>2, <1>3, <1>4 DEF ReadKind
<1>5. CASE ReadBegin
  BY <1>1, <1>2, <1>3, <1>5 DEF ReadBegin
<1>6. CASE ReadCommit
  BY <1>1, <1>2, <1>3, <1>6 DEF ReadCommit
<1>7. CASE ReadRelation
  BY <1>1, <1>2, <1>3, <1>7 DEF ReadRelation
<1>8. CASE ReadColumn
  BY <1>1, <1>2, <1>3, <1>8 DEF ReadColumn
<1>9. CASE ReadRow
  BY <1>1, <1>2, <1>3, <1>9 DEF ReadRow
<1>10. CASE ReadTag
  BY <1>1, <1>2, <1>3, <1>10 DEF ReadTag
<1>11. CASE ReadCount
  BY <1>1, <1>2, <1>3, <1>11 DEF ReadCount
<1>12. CASE ReadValue
  BY <1>1, <1>2, <1>3, <1>12 DEF ReadValue
<1>13. CASE ReadTruncate
  BY <1>1, <1>2, <1>3, <1>13 DEF ReadTruncate
<1>14. CASE ReadRelationId
  BY <1>1, <1>2, <1>3, <1>14 DEF ReadRelationId
<1>15. CASE Finish
  BY <1>15 DEF Finish
<1>16. QED
  BY <1>4, <1>5, <1>6, <1>7, <1>8, <1>9, <1>10, <1>11, <1>12, <1>13, <1>14, <1>15 DEF Next

\* The decoder starts on its way.
LEMMA WayHolds ==
  ASSUME Init
  PROVE  CInv
<1>1. result = "reading" /\ todo = << <<"kind", "">> >>
  BY DEF Init
<1>2. ASSUME NEW m \in Messages
      PROVE  OnTheWay(m)
  <2>1. Toward(m)
    BY <1>1 DEF Toward
  <2>2. QED
    BY <1>1, <2>1 DEF OnTheWay
<1>3. QED
  BY <1>2 DEF CInv

\* And stays on it.
LEMMA WayKept ==
  ASSUME IInv, NEW m \in Message, OnTheWay(m), [Next]_vars
  PROVE  OnTheWay(m)'
<1>1. CASE UNCHANGED vars
  <2>1. UNCHANGED <<payload, at, todo, left, msg, result, reserved, ignored, reads>>
    BY <1>1 DEF vars
  <2>2. payload' = payload /\ result' = result /\ msg' = msg /\ todo' = todo /\ left' = left
    BY <2>1
  <2>3. Toward(m)' <=> Toward(m)
    BY <2>2 DEF Toward
  <2>4. QED
    BY <2>2, <2>3 DEF OnTheWay
<1>2. CASE Next
  <2>1. payload' = payload /\ result = "reading"
    BY <1>2, StepsAre
  <2>2. CASE payload # Encoded(m)
    BY <2>1, <2>2 DEF OnTheWay
  <2>3. CASE payload = Encoded(m)
    <3>1. Toward(m)
      BY <2>1, <2>3 DEF OnTheWay
    <3>2. ASSUME NEW part, Doing(part)
          PROVE  Goer(m, part)
      <4>1. Doer(part)
        BY <3>2, DoerIs
      <4>2. QED
        BY <2>3, <3>1, <4>1 DEF Goer
    <3>3. Onward(m) => OnTheWay(m)'
      BY DEF Onward, OnTheWay
    <3>4. CASE ReadKind
      BY <3>2, <3>3, <3>4, KindGoes DEF ReadKind
    <3>5. CASE ReadBegin
      <4>1. Goer(m, "begin")
        BY <3>2, <3>5 DEF ReadBegin
      <4>2. QED
        BY <3>3, <3>5, <4>1, BeginGoes
    <3>6. CASE ReadCommit
      <4>1. Goer(m, "commit")
        BY <3>2, <3>6 DEF ReadCommit
      <4>2. QED
        BY <3>3, <3>6, <4>1, CommitGoes
    <3>7. CASE ReadRelation
      <4>1. Goer(m, "relation")
        BY <3>2, <3>7 DEF ReadRelation
      <4>2. QED
        BY <3>3, <3>7, <4>1, RelationGoes
    <3>8. CASE ReadColumn
      <4>1. Goer(m, "column")
        BY <3>2, <3>8 DEF ReadColumn
      <4>2. QED
        BY <3>3, <3>8, <4>1, ColumnGoes
    <3>9. CASE ReadRow
      <4>1. Goer(m, "row")
        BY <3>2, <3>9 DEF ReadRow
      <4>2. QED
        BY <3>3, <3>9, <4>1, RowGoes
    <3>10. CASE ReadTag
      <4>1. Goer(m, "tag")
        BY <3>2, <3>10 DEF ReadTag
      <4>2. QED
        BY <3>3, <3>10, <4>1, TagGoes
    <3>11. CASE ReadCount
      <4>1. Goer(m, "count")
        BY <3>2, <3>11 DEF ReadCount
      <4>2. QED
        BY <3>3, <3>11, <4>1, CountGoes
    <3>12. CASE ReadValue
      <4>1. Goer(m, "value")
        BY <3>2, <3>12 DEF ReadValue
      <4>2. QED
        BY <3>3, <3>12, <4>1, ValueGoes
    <3>13. CASE ReadTruncate
      <4>1. Goer(m, "truncate")
        BY <3>2, <3>13 DEF ReadTruncate
      <4>2. QED
        BY <3>3, <3>13, <4>1, TruncateGoes
    <3>14. CASE ReadRelationId
      <4>1. Goer(m, "relation_id")
        BY <3>2, <3>14 DEF ReadRelationId
      <4>2. QED
        BY <3>3, <3>14, <4>1, RelationIdGoes
    <3>15. CASE Finish
      <4>1. result' = "ok" /\ msg' = m /\ payload' = payload
        BY <2>3, <3>1, <3>15, FinishGoes
      <4>2. QED
        BY <4>1 DEF OnTheWay
    <3>16. QED
      BY <1>2, <3>4, <3>5, <3>6, <3>7, <3>8, <3>9, <3>10, <3>11, <3>12, <3>13, <3>14, <3>15
      DEF Next
  <2>4. QED
    BY <2>2, <2>3
<1>3. QED
  BY <1>1, <1>2

\* What the server can write is accepted, and read as what it was: no payload
\* that is the image of a message is refused, and the decoder ends with it.
THEOREM EveryMessageIsAccepted == Spec => []AcceptsEveryMessage
<1>1. Init => CInv
  BY WayHolds
<1>2. IInv /\ CInv /\ [Next]_vars => CInv'
  <2>1. SUFFICES ASSUME IInv, CInv, [Next]_vars, NEW m \in Messages
                 PROVE  OnTheWay(m)'
    BY DEF CInv
  <2>2. m \in Message /\ OnTheWay(m)
    BY <2>1, MessagesAssumption DEF CInv
  <2>3. QED
    BY <2>1, <2>2, WayKept
<1>3. CInv => AcceptsEveryMessage
  BY DEF CInv, OnTheWay, AcceptsEveryMessage
<1>4. QED
  BY <1>1, <1>2, <1>3, DecoderInvariant, PTL DEF Spec
=============================================================================
