-------------------------- MODULE WireCodec_proofs --------------------------
(***************************************************************************)
(* The codec reads what it wrote, for every offer, every value of every    *)
(* field and any damage (WireCodec, ControlPayload).                       *)
(*                                                                         *)
(* Holds(b, o, s) says that the bytes s stand in b behind the first o.  A  *)
(* number's bytes stand there exactly when the number is read from there   *)
(* (Holds16, Holds32, Holds64), and a concatenation when its parts stand   *)
(* one behind the other (HoldsBoth), so that an encoder's bytes stand in b *)
(* exactly when its parser reads the same record: HeaderHolds for the      *)
(* header, one lemma for each payload, DatagramHolds for the whole.        *)
(*                                                                         *)
(* The theorem needs both directions: WrittenIsRead for a datagram that    *)
(* arrives as it was sent, AcceptedWasWritten for whatever is accepted.    *)
(* The invariant, CodecInv, adds that what is on the wire is the bytes of  *)
(* the offer until it is damaged (Carried).                                *)
(*                                                                         *)
(* The second theorem is of the text of an error.  ValidUtf8 computes code *)
(* points, IsUnicode has the table of byte ranges; CharacterAt says that   *)
(* they see the same character at a place, and ValidIsWellFormed goes from *)
(* the end of the text backwards.  Judged ties the status to the text.     *)
(***************************************************************************)
EXTENDS WireCodec, Integers, FiniteSetTheorems, WellFoundedInduction, SequenceTheorems,
        TLAPS

\* The bytes s stand in b behind the first o.
Holds(b, o, s) == \A k \in 1 .. Len(s) : b[o + k] = s[k]

-----------------------------------------------------------------------------
(* Numbers and sequences of bytes. *)

\* A word is its two bytes.
LEMMA WordBytes ==
    ASSUME NEW w \in Word
    PROVE  /\ w \div 256 \in Byte /\ w % 256 \in Byte
           /\ 256 * (w \div 256) + (w % 256) = w
BY DEF Word, Byte

\* Two bytes make one word.
LEMMA Digits ==
    ASSUME NEW x \in Byte, NEW y \in Byte, NEW h \in Byte, NEW l \in Byte
    PROVE  256 * x + y = 256 * h + l <=> x = h /\ y = l
<1>1. ASSUME 256 * x + y = 256 * h + l PROVE x = h
  <2>1. CASE x < h
    BY <1>1, <2>1 DEF Byte
  <2>2. CASE h < x
    BY <1>1, <2>2 DEF Byte
  <2> QED BY <2>1, <2>2 DEF Byte
<1>2. ASSUME 256 * x + y = 256 * h + l PROVE y = l
  <2>1. x = h 
    BY <1>1, <1>2
  <2> QED BY <1>2, <2>1 DEF Byte
<1> QED BY <1>1, <1>2

LEMMA HoldsBoth ==
    ASSUME NEW S, NEW s \in Seq(S), NEW t \in Seq(S), NEW b, NEW o \in Nat
    PROVE  /\ s \o t \in Seq(S) /\ Len(s \o t) = Len(s) + Len(t)
           /\ Holds(b, o, s \o t) <=> Holds(b, o, s) /\ Holds(b, o + Len(s), t)
<1> DEFINE u == s \o t
           n == Len(s)
           m == Len(t)
<1>1. /\ u \in Seq(S) /\ Len(u) = n + m /\ n \in Nat /\ m \in Nat
      /\ \A k \in 1 .. n + m : u[k] = IF k <= n THEN s[k] ELSE t[k - n]
  BY ConcatProperties, LenProperties
<1> HIDE DEF u, n, m
<1>2. ASSUME Holds(b, o, u) PROVE Holds(b, o, s) /\ Holds(b, o + n, t)
  <2>1. ASSUME NEW k \in 1 .. n PROVE b[o + k] = s[k]
    <3>1. k \in 1 .. n + m /\ k <= n
      BY <1>1
    <3> QED BY <1>1, <1>2, <3>1 DEF Holds
  <2>2. ASSUME NEW k \in 1 .. m PROVE b[o + n + k] = t[k]
    <3>1. n + k \in 1 .. n + m /\ ~ n + k <= n /\ (n + k) - n = k /\ o + (n + k) = o + n + k
      BY <1>1
    <3> DEFINE j == n + k
    <3> HIDE DEF j
    <3>2. u[j] = t[k] /\ b[o + j] = u[j]
      BY <1>1, <1>2, <3>1 DEF Holds, j
    <3> QED BY <3>1, <3>2 DEF j
  <2> QED BY <2>1, <2>2 DEF Holds, n, m
<1>3. ASSUME Holds(b, o, s), Holds(b, o + n, t) PROVE Holds(b, o, u)
  <2>1. ASSUME NEW k \in 1 .. n + m PROVE b[o + k] = u[k]
    <3>1. CASE k <= n
      <4>1. k \in 1 .. n
        BY <1>1, <3>1
      <4> QED BY <1>1, <1>3, <3>1, <4>1 DEF Holds, n
    <3>2. CASE ~ k <= n
      <4> DEFINE j == k - n
      <4>1. j \in 1 .. m /\ o + n + j = o + k
        BY <1>1, <3>2
      <4>2. u[k] = t[j]
        BY <1>1, <3>2
      <4> HIDE DEF j
      <4>3. b[o + n + j] = t[j]
        BY <1>3, <4>1 DEF Holds, m
      <4> QED BY <4>1, <4>2, <4>3
    <3> QED BY <3>1, <3>2
  <2> QED BY <1>1, <2>1 DEF Holds
<1> QED BY <1>1, <1>2, <1>3 DEF u, n, m

\* Bytes that fill b are b.
LEMMA HoldsAll ==
    ASSUME NEW S, NEW b \in Seq(S), NEW s \in Seq(S), Len(b) = Len(s)
    PROVE  Holds(b, 0, s) <=> b = s
<1>1. ASSUME Holds(b, 0, s) PROVE b = s
  <2>1. Len(b) \in Nat
    BY LenProperties
  <2>2. ASSUME NEW k \in 1 .. Len(b) PROVE b[k] = s[k]
    <3>1. b[0 + k] = s[k] /\ 0 + k = k
      BY <1>1, <2>1 DEF Holds
    <3> QED BY <3>1
  <2> QED BY <2>2, SeqEqual
<1>2. ASSUME b = s PROVE Holds(b, 0, s)
  BY <1>2, LenProperties DEF Holds
<1> QED BY <1>1, <1>2

\* The bytes of a word stand where the word is read.
LEMMA Holds16 ==
    ASSUME NEW b, NEW o \in Nat, NEW w \in Word, b[o + 1] \in Byte, b[o + 2] \in Byte
    PROVE  /\ Bytes16(w) \in Seq(Byte) /\ Len(Bytes16(w)) = 2
           /\ Holds(b, o, Bytes16(w)) <=> Read16(b, o) = w
<1> DEFINE h == w \div 256
           l == w % 256
<1>1. h \in Byte /\ l \in Byte /\ 256 * h + l = w
  BY WordBytes
<1>2. Bytes16(w) = <<h, l>>
  BY DEF Bytes16
<1> HIDE DEF h, l
<1>3. Bytes16(w) \in Seq(Byte) /\ Len(Bytes16(w)) = 2
  BY <1>1, <1>2
<1>4. Holds(b, o, Bytes16(w)) <=> b[o + 1] = h /\ b[o + 2] = l
  <2>1. 1 .. 2 = {1, 2}
    OBVIOUS
  <2> QED BY <1>2, <1>3, <2>1 DEF Holds
<1>5. 256 * b[o + 1] + b[o + 2] = w <=> b[o + 1] = h /\ b[o + 2] = l
  <2> DEFINE x == b[o + 1]
             y == b[o + 2]
  <2> HIDE DEF x, y
  <2>1. x \in Byte /\ y \in Byte
    BY DEF x, y
  <2>2. 256 * x + y = 256 * h + l <=> x = h /\ y = l
    BY <1>1, <2>1, Digits
  <2> QED BY <1>1, <2>2 DEF x, y
<1> QED BY <1>3, <1>4, <1>5 DEF Read16

\* Two and four words flattened.
LEMMA Flatten2 ==
    ASSUME NEW s, NEW t
    PROVE FlattenSeq(<<s, t>>) = s \o t
<1> DEFINE q == <<s, t>>
           g == [i \in 1 .. 2 |-> IF i = 1 THEN s ELSE s \o t]
           P(f) == f = [i \in 1 .. Len(q) |-> IF i = 1 THEN q[i] ELSE f[i-1] \o q[i]]
<1>1. Len(q) = 2
  OBVIOUS
<1>2. P(g)
  BY <1>1
<1>3. P(CHOOSE f : P(f))
  <2> HIDE DEF g, P
  <2> QED BY <1>2
<1>4. FlattenSeq(q) = (CHOOSE f : P(f))[2]
  BY <1>1 DEF FlattenSeq
<1>5. ASSUME NEW f, P(f) PROVE f[2] = s \o t
  <2>1. q[1] = s /\ q[2] = t
    OBVIOUS
  <2> HIDE DEF q
  <2>2. f[1] = q[1]
    BY <1>1, <1>5
  <2>3. f[2] = f[2 - 1] \o q[2]
    BY <1>1, <1>5
  <2>4. f[2 - 1] = f[1]
    OBVIOUS
  <2> QED BY <2>1, <2>2, <2>3, <2>4
<1> HIDE DEF q
<1> HIDE DEF P
<1> QED BY <1>3, <1>4, <1>5 DEF q

\* HoldsBoth for bytes.
LEMMA Both ==
    ASSUME NEW s \in Seq(Byte), NEW t \in Seq(Byte), NEW b, NEW o \in Nat
    PROVE  /\ s \o t \in Seq(Byte) /\ Len(s \o t) = Len(s) + Len(t)
           /\ Holds(b, o, s \o t) <=> Holds(b, o, s) /\ Holds(b, o + Len(s), t)
BY HoldsBoth

LEMMA Flatten4 ==
    ASSUME NEW q, Len(q) = 4
    PROVE  FlattenSeq(q) = ((q[1] \o q[2]) \o q[3]) \o q[4]
<1> DEFINE s == q[1]
           t == q[2]
           u == q[3]
           v == q[4]
           g == [i \in 1 .. 4 |-> IF i = 1 THEN s
                                  ELSE IF i = 2 THEN s \o t
                                  ELSE IF i = 3 THEN (s \o t) \o u ELSE ((s \o t) \o u) \o v]
           P(f) == f = [i \in 1 .. Len(q) |-> IF i = 1 THEN q[i] ELSE f[i-1] \o q[i]]
<1>1. Len(q) = 4 /\ s = q[1] /\ t = q[2] /\ u = q[3] /\ v = q[4]
  OBVIOUS
<1>2. P(g)
  <2> HIDE DEF s, t, u, v
  <2>1. ASSUME NEW i \in 1 .. 4 PROVE g[i] = IF i = 1 THEN q[i] ELSE g[i-1] \o q[i]
    <3>1. CASE i = 1
      BY <1>1, <3>1
    <3>2. CASE i = 2
      BY <1>1, <3>2
    <3>3. CASE i = 3
      BY <1>1, <3>3
    <3>4. CASE i = 4
      BY <1>1, <3>4
    <3> QED BY <3>1, <3>2, <3>3, <3>4
  <2>2. g = [i \in 1 .. 4 |-> g[i]]
    OBVIOUS
  <2> HIDE DEF g
  <2> QED BY <1>1, <2>1, <2>2
<1>3. P(CHOOSE f : P(f))
  <2> HIDE DEF g, P
  <2> QED BY <1>2
<1>4. FlattenSeq(q) = (CHOOSE f : P(f))[4]
  BY <1>1 DEF FlattenSeq
<1>5. ASSUME NEW f, P(f) PROVE f[4] = ((s \o t) \o u) \o v
  <2>1. f[1] = q[1]
    BY <1>1, <1>5
  <2>2. ASSUME NEW i \in 1 .. 4, NEW j \in 1 .. 4, j = i - 1 PROVE f[i] = f[j] \o q[i]
    <3>1. f[i] = IF i = 1 THEN q[i] ELSE f[i-1] \o q[i]
      BY <1>1, <1>5
    <3>2. i # 1
      BY <2>2
    <3> QED BY <2>2, <3>1, <3>2
  <2>3. f[2] = f[1] \o q[2]
    <3>1. 1 = 2 - 1 /\ 1 \in 1 .. 4 /\ 2 \in 1 .. 4
      OBVIOUS
    <3> QED BY <2>2, <3>1
  <2>4. f[3] = f[2] \o q[3]
    <3>1. 2 = 3 - 1 /\ 2 \in 1 .. 4 /\ 3 \in 1 .. 4
      OBVIOUS
    <3> QED BY <2>2, <3>1
  <2>5. f[4] = f[3] \o q[4]
    <3>1. 3 = 4 - 1 /\ 3 \in 1 .. 4 /\ 4 \in 1 .. 4
      OBVIOUS
    <3> QED BY <2>2, <3>1
  <2> QED BY <1>1, <2>1, <2>3, <2>4, <2>5
<1> HIDE DEF P, s, t, u, v
<1> QED BY <1>3, <1>4, <1>5 DEF s, t, u, v

\* Two bytes are read as a word.
LEMMA ReadsWord ==
    ASSUME NEW b, NEW o \in Nat, b[o + 1] \in Byte, b[o + 2] \in Byte
    PROVE  Read16(b, o) \in Word
<1> DEFINE x == b[o + 1]
           y == b[o + 2]
<1>1. x \in Byte /\ y \in Byte
  OBVIOUS
<1> HIDE DEF x, y
<1>2. 256 * x + y \in Word
  BY <1>1 DEF Byte, Word
<1> QED BY <1>2 DEF Read16, x, y

\* The bytes of a number of 32 bits stand where the number is read.
LEMMA Holds32 ==
    ASSUME NEW b, NEW o \in Nat, NEW w \in Number32, \A k \in 1 .. 4 : b[o + k] \in Byte
    PROVE  /\ BytesOf(w) \in Seq(Byte) /\ Len(BytesOf(w)) = 4
           /\ Read32(b, o) \in Number32
           /\ Holds(b, o, BytesOf(w)) <=> Read32(b, o) = w
<1> DEFINE s == Bytes16(w[1])
           t == Bytes16(w[2])
<1>1. w = <<w[1], w[2]>> /\ w[1] \in Word /\ w[2] \in Word /\ Len(w) = 2
  BY DEF Number32
<1>2. BytesOf(w) = s \o t
  <2>1. [i \in 1 .. Len(w) |-> Bytes16(w[i])] = <<s, t>>
    <3> DEFINE B(i) == Bytes16(w[i])
    <3>1. [i \in 1 .. 2 |-> B(i)] = <<B(1), B(2)>>
      <4> HIDE DEF B
      <4> QED OBVIOUS
    <3> QED BY <1>1, <3>1
  <2> HIDE DEF s, t
  <2> QED BY <2>1, Flatten2 DEF BytesOf
<1>3. \A i \in 1 .. 4 : b[o + i] \in Byte
  OBVIOUS
<1>4. /\ b[o + 1] \in Byte /\ b[o + 2] \in Byte
      /\ b[(o + 2) + 1] \in Byte /\ b[(o + 2) + 2] \in Byte /\ o + 2 \in Nat
  <2>1. (o + 2) + 1 = o + 3 /\ (o + 2) + 2 = o + 4
    OBVIOUS
  <2> QED BY <1>3, <2>1
<1>5. /\ s \in Seq(Byte) /\ Len(s) = 2
      /\ Holds(b, o, s) <=> Read16(b, o) = w[1]
  BY <1>1, <1>4, Holds16
<1>6. /\ t \in Seq(Byte) /\ Len(t) = 2
      /\ Holds(b, o + 2, t) <=> Read16(b, o + 2) = w[2]
  BY <1>1, <1>4, Holds16
<1>7. Read16(b, o) \in Word /\ Read16(b, o + 2) \in Word
  BY <1>4, ReadsWord
<1>8. Read32(b, o) = w <=> Read16(b, o) = w[1] /\ Read16(b, o + 2) = w[2]
  <2> DEFINE x == Read16(b, o)
             y == Read16(b, o + 2)
  <2> HIDE DEF x, y
  <2>1. <<x, y>> = w <=> x = w[1] /\ y = w[2]
    BY <1>1
  <2> QED BY <2>1 DEF Read32, x, y
<1> HIDE DEF s, t
<1>9. Read32(b, o) \in Number32
  BY <1>7 DEF Read32, Number32
<1>10. /\ s \o t \in Seq(Byte) /\ Len(s \o t) = 2 + 2
       /\ Holds(b, o, s \o t) <=> Holds(b, o, s) /\ Holds(b, o + 2, t)
  BY <1>5, <1>6, HoldsBoth
<1> QED BY <1>2, <1>5, <1>6, <1>8, <1>9, <1>10

\* Two pairs of words are the four words of a longer number.
LEMMA PairsJoined ==
    ASSUME NEW a, NEW c, NEW d, NEW e
    PROVE  <<a, c>> \o <<d, e>> = <<a, c, d, e>>
<1> DEFINE T == {a, c, d, e}
           p == <<a, c>>
           q == <<d, e>>
           r == p \o q
<1>1. /\ p \in Seq(T) /\ q \in Seq(T) /\ Len(p) = 2 /\ Len(q) = 2
      /\ p[1] = a /\ p[2] = c /\ q[1] = d /\ q[2] = e
  OBVIOUS
<1> HIDE DEF p, q, T
<1>2. /\ p \o q \in Seq(T) /\ Len(p \o q) = Len(p) + Len(q)
      /\ \A i \in 1 .. Len(p) + Len(q) :
             (p \o q)[i] = IF i <= Len(p) THEN p[i] ELSE q[i - Len(p)]
  BY <1>1, ConcatProperties
<1>3. /\ r \in Seq(T) /\ Len(r) = 4
      /\ \A i \in 1 .. 4 : r[i] = IF i <= 2 THEN p[i] ELSE q[i - 2]
  BY <1>1, <1>2
<1> HIDE DEF r
<1>4. r[1] = a /\ r[2] = c /\ r[3] = d /\ r[4] = e
  <2>1. 3 - 2 = 1 /\ 4 - 2 = 2 /\ 3 \in 1 .. 4 /\ 4 \in 1 .. 4
    OBVIOUS
  <2> QED BY <1>1, <1>3, <2>1
<1>5. r = <<a, c, d, e>>
  <2> DEFINE x == <<a, c, d, e>>
  <2>1. x \in Seq(T) /\ Len(x) = 4 /\ x[1] = a /\ x[2] = c /\ x[3] = d /\ x[4] = e
    BY DEF T
  <2> HIDE DEF x
  <2>2. \A i \in 1 .. 4 : r[i] = x[i]
    BY <1>4, <2>1
  <2> QED BY <1>3, <2>1, <2>2, SeqEqual DEF x
<1> QED BY <1>5 DEF r, p, q

\* The bytes of a number of 64 bits stand where the number is read.
LEMMA Holds64 ==
    ASSUME NEW b, NEW o \in Nat, NEW w \in Number64, \A k \in 1 .. 8 : b[o + k] \in Byte
    PROVE  /\ BytesOf(w) \in Seq(Byte) /\ Len(BytesOf(w)) = 8
           /\ Read64(b, o) \in Number64
           /\ Holds(b, o, BytesOf(w)) <=> Read64(b, o) = w
<1> DEFINE B(i) == Bytes16(w[i])
           R(i) == Read16(b, o + 2 * (i - 1))
           c1   == B(1)
           c2   == B(2)
           c3   == B(3)
           c4   == B(4)
           c12  == c1 \o c2
           c123 == c12 \o c3
<1>1. /\ w = <<w[1], w[2], w[3], w[4]>> /\ Len(w) = 4
      /\ \A i \in 1 .. 4 : w[i] \in Word
  BY DEF Number64
<1>2. BytesOf(w) = c123 \o c4
  <2>1. [i \in 1 .. Len(w) |-> Bytes16(w[i])] = <<B(1), B(2), B(3), B(4)>>
    <3>1. [i \in 1 .. 4 |-> B(i)] = <<B(1), B(2), B(3), B(4)>>
      <4> HIDE DEF B
      <4> QED OBVIOUS
    <3> QED BY <1>1, <3>1
  <2>2. [i \in 1 .. Len(w) |-> Bytes16(w[i])] = <<c1, c2, c3, c4>>
    BY <2>1
  <2> HIDE DEF c1, c2, c3, c4
  <2> DEFINE q == <<c1, c2, c3, c4>>
  <2>4. Len(q) = 4 /\ q[1] = c1 /\ q[2] = c2 /\ q[3] = c3 /\ q[4] = c4
    OBVIOUS
  <2> HIDE DEF q
  <2>5. FlattenSeq(q) = ((q[1] \o q[2]) \o q[3]) \o q[4]
    BY <2>4, Flatten4
  <2>3. FlattenSeq(<<c1, c2, c3, c4>>) = ((c1 \o c2) \o c3) \o c4
    BY <2>4, <2>5 DEF q
  <2> QED BY <2>2, <2>3 DEF BytesOf
<1>3. ASSUME NEW i \in 1 .. 4
      PROVE  /\ B(i) \in Seq(Byte) /\ Len(B(i)) = 2
             /\ Holds(b, o + 2 * (i - 1), B(i)) <=> R(i) = w[i]
             /\ R(i) \in Word
  <2> DEFINE p == o + 2 * (i - 1)
  <2>1. p \in Nat /\ 2 * i - 1 \in 1 .. 8 /\ 2 * i \in 1 .. 8
        /\ p + 1 = o + (2 * i - 1) /\ p + 2 = o + 2 * i
    OBVIOUS
  <2>2. b[o + (2 * i - 1)] \in Byte /\ b[o + 2 * i] \in Byte
    BY <2>1
  <2>3. p \in Nat /\ b[p + 1] \in Byte /\ b[p + 2] \in Byte
    BY <2>1, <2>2
  <2> HIDE DEF p
  <2>4. /\ B(i) \in Seq(Byte) /\ Len(B(i)) = 2
        /\ Holds(b, p, B(i)) <=> Read16(b, p) = w[i]
        /\ Read16(b, p) \in Word
    BY <1>1, <2>3, Holds16, ReadsWord
  <2> QED BY <2>4 DEF p
<1>4. Read64(b, o) = <<R(1), R(2), R(3), R(4)>>
  <2>1. o + 2 * (1 - 1) = o /\ o + 2 * (2 - 1) = o + 2 /\ o + 2 * (3 - 1) = o + 4
        /\ o + 2 * (4 - 1) = (o + 4) + 2
    OBVIOUS
  <2>2. R(1) = Read16(b, o) /\ R(2) = Read16(b, o + 2) /\ R(3) = Read16(b, o + 4)
        /\ R(4) = Read16(b, (o + 4) + 2)
    BY <2>1
  <2> HIDE DEF R
  <2>3. Read64(b, o) = <<R(1), R(2)>> \o <<R(3), R(4)>>
    BY <2>2 DEF Read64, Read32
  <2>4. <<R(1), R(2)>> \o <<R(3), R(4)>> = <<R(1), R(2), R(3), R(4)>>
    BY PairsJoined
  <2> QED BY <2>3, <2>4
<1>5. Read64(b, o) = w <=> R(1) = w[1] /\ R(2) = w[2] /\ R(3) = w[3] /\ R(4) = w[4]
  <2> HIDE DEF R
  <2> QED BY <1>1, <1>4
<1>6. Read64(b, o) \in Number64
  <2>1. R(1) \in Word /\ R(2) \in Word /\ R(3) \in Word /\ R(4) \in Word
    BY <1>3
  <2> HIDE DEF R
  <2> QED BY <1>4, <2>1 DEF Number64
<1>7. /\ c1 \in Seq(Byte) /\ c2 \in Seq(Byte) /\ c3 \in Seq(Byte) /\ c4 \in Seq(Byte)
      /\ Len(c1) = 2 /\ Len(c2) = 2 /\ Len(c3) = 2 /\ Len(c4) = 2
  BY <1>3
<1>8. /\ Holds(b, o, c1) <=> R(1) = w[1]
      /\ Holds(b, o + 2, c2) <=> R(2) = w[2]
      /\ Holds(b, o + 4, c3) <=> R(3) = w[3]
      /\ Holds(b, o + 6, c4) <=> R(4) = w[4]
  <2>1. o + 2 * (1 - 1) = o /\ o + 2 * (2 - 1) = o + 2 /\ o + 2 * (3 - 1) = o + 4
        /\ o + 2 * (4 - 1) = o + 6
    OBVIOUS
  <2> HIDE DEF B
  <2>2. \A i \in 1 .. 4 : Holds(b, o + 2 * (i - 1), B(i)) <=> R(i) = w[i]
    BY <1>3
  <2> HIDE DEF R
  <2>3. /\ Holds(b, o + 2 * (1 - 1), B(1)) <=> R(1) = w[1]
        /\ Holds(b, o + 2 * (2 - 1), B(2)) <=> R(2) = w[2]
        /\ Holds(b, o + 2 * (3 - 1), B(3)) <=> R(3) = w[3]
        /\ Holds(b, o + 2 * (4 - 1), B(4)) <=> R(4) = w[4]
    BY <2>2
  <2> QED BY <2>1, <2>3
<1> HIDE DEF B, R, c1, c2, c3, c4, c12, c123
<1>9. /\ c12 \in Seq(Byte) /\ Len(c12) = 4
      /\ Holds(b, o, c12) <=> Holds(b, o, c1) /\ Holds(b, o + 2, c2)
  <2>1. c1 \in Seq(Byte) /\ c2 \in Seq(Byte) /\ Len(c1) = 2 /\ Len(c2) = 2
    BY <1>7
  <2>2. /\ c1 \o c2 \in Seq(Byte) /\ Len(c1 \o c2) = Len(c1) + Len(c2)
        /\ Holds(b, o, c1 \o c2) <=> Holds(b, o, c1) /\ Holds(b, o + Len(c1), c2)
    BY <2>1, Both, Zenon
  <2> QED BY <2>1, <2>2 DEF c12
<1>10. /\ c123 \in Seq(Byte) /\ Len(c123) = 6
       /\ Holds(b, o, c123) <=> Holds(b, o, c12) /\ Holds(b, o + 4, c3)
  <2>1. c12 \in Seq(Byte) /\ c3 \in Seq(Byte) /\ Len(c12) = 4 /\ Len(c3) = 2
    BY <1>7, <1>9
  <2>2. /\ c12 \o c3 \in Seq(Byte) /\ Len(c12 \o c3) = Len(c12) + Len(c3)
        /\ Holds(b, o, c12 \o c3) <=> Holds(b, o, c12) /\ Holds(b, o + Len(c12), c3)
    BY <2>1, Both, Zenon
  <2> QED BY <2>1, <2>2 DEF c123
<1>11. /\ c123 \o c4 \in Seq(Byte) /\ Len(c123 \o c4) = 8
       /\ Holds(b, o, c123 \o c4) <=> Holds(b, o, c123) /\ Holds(b, o + 6, c4)
  <2>1. c123 \in Seq(Byte) /\ c4 \in Seq(Byte) /\ Len(c123) = 6 /\ Len(c4) = 2
    BY <1>7, <1>10
  <2>2. /\ c123 \o c4 \in Seq(Byte) /\ Len(c123 \o c4) = Len(c123) + Len(c4)
        /\ Holds(b, o, c123 \o c4) <=> Holds(b, o, c123) /\ Holds(b, o + Len(c123), c4)
    BY <2>1, Both, Zenon
  <2> QED BY <2>1, <2>2
<1> DEFINE y == BytesOf(w)
<1> HIDE DEF y
<1>12. y = c123 \o c4
  BY <1>2 DEF y, c123, c12
<1>13. Holds(b, o, y) <=> Read64(b, o) = w
  <2>1. Holds(b, o, y) <=> /\ Holds(b, o, c1) /\ Holds(b, o + 2, c2)
                          /\ Holds(b, o + 4, c3) /\ Holds(b, o + 6, c4)
    BY <1>9, <1>10, <1>11, <1>12, Zenon
  <2> QED BY <1>5, <1>8, <2>1, Zenon
<1> QED BY <1>6, <1>11, <1>12, <1>13 DEF y

\* The same with the lengths for what they are.
LEMMA Joined ==
    ASSUME NEW b, NEW s \in Seq(Byte), NEW t \in Seq(Byte), NEW n \in Nat, n = 0 + Len(s)
    PROVE  /\ s \o t \in Seq(Byte) /\ Len(s \o t) = n + Len(t)
           /\ Holds(b, 0, s \o t) <=> Holds(b, 0, s) /\ Holds(b, n, t)
<1>1. n = Len(s)
  OBVIOUS
<1>2. /\ s \o t \in Seq(Byte) /\ Len(s \o t) = Len(s) + Len(t)
      /\ Holds(b, 0, s \o t) <=> Holds(b, 0, s) /\ Holds(b, 0 + Len(s), t)
  BY Both
<1> QED BY <1>1, <1>2

-----------------------------------------------------------------------------
(* The header. *)

\* The type of a packet and its code.
LEMMA Codes ==
    /\ \A t \in PacketTypes : TypeCode(t) \in Byte
    /\ \A t \in PacketTypes, c \in Byte : c = TypeCode(t) <=> TypeOf(c) = t
<1>1. /\ DOMAIN TypeOrder = 1 .. 6
      /\ TypeOrder[1] = "stream_start" /\ TypeOrder[2] = "stream_stop"
      /\ TypeOrder[3] = "audio" /\ TypeOrder[4] = "heartbeat"
      /\ TypeOrder[5] = "receiver_report" /\ TypeOrder[6] = "error"
  BY DEF TypeOrder
<1> HIDE DEF TypeOrder
<1>2. 1 .. 6 = {1, 2, 3, 4, 5, 6}
  OBVIOUS
<1>3. ASSUME NEW t \in PacketTypes PROVE \E k \in 1 .. 6 : TypeOrder[k] = t
  BY <1>1, <1>2 DEF PacketTypes, ControlTypes
<1>4. ASSUME NEW k \in 1 .. 6, NEW l \in 1 .. 6, TypeOrder[k] = TypeOrder[l] PROVE k = l
  BY <1>1, <1>2, <1>4
<1>5. UnknownType \notin PacketTypes
  BY DEF UnknownType, PacketTypes, ControlTypes
<1>6. ASSUME NEW t \in PacketTypes
      PROVE  TypeCode(t) \in 1 .. 6 /\ TypeOrder[TypeCode(t)] = t
  BY <1>1, <1>3 DEF TypeCode
<1>7. ASSUME NEW t \in PacketTypes, NEW c \in Byte
      PROVE  c = TypeCode(t) <=> TypeOf(c) = t
  <2>1. ASSUME c = TypeCode(t) PROVE TypeOf(c) = t
    BY <1>1, <1>6, <2>1 DEF TypeOf
  <2>2. ASSUME TypeOf(c) = t PROVE c = TypeCode(t)
    <3>1. c \in 1 .. 6 /\ TypeOrder[c] = t
      BY <1>1, <1>5, <2>2 DEF TypeOf
    <3> QED BY <1>4, <1>6, <3>1
  <2> QED BY <2>1, <2>2
<1>8. 1 .. 6 \subseteq Byte
  BY DEF Byte
<1> QED BY <1>6, <1>7, <1>8

\* Two fields of one byte each.
LEMMA HoldsPair ==
    ASSUME NEW b, NEW o \in Nat, NEW x \in Byte, NEW y \in Byte
    PROVE  /\ <<x, y>> \in Seq(Byte) /\ Len(<<x, y>>) = 2
           /\ Holds(b, o, <<x, y>>) <=> b[o + 1] = x /\ b[o + 2] = y
<1> DEFINE s == <<x, y>>
<1>1. s \in Seq(Byte) /\ Len(s) = 2 /\ s[1] = x /\ s[2] = y
  OBVIOUS
<1>2. 1 .. 2 = {1, 2}
  OBVIOUS
<1> HIDE DEF s
<1>3. Holds(b, o, s) <=> b[o + 1] = x /\ b[o + 2] = y
  BY <1>1, <1>2 DEF Holds
<1> QED BY <1>1, <1>3 DEF s

\* The mark at the beginning.
LEMMA HoldsMagic ==
    ASSUME NEW b \in Seq(Byte), Len(b) >= 4
    PROVE  /\ Magic \in Seq(Byte) /\ Len(Magic) = 4
           /\ Holds(b, 0, Magic) <=> SubSeq(b, 1, 4) = Magic
<1> DEFINE s == SubSeq(b, 1, 4)
<1>1. Magic \in Seq(Byte) /\ Len(Magic) = 4
  BY DEF Magic, Byte
<1>2. Len(b) \in Nat /\ 1 .. 4 \subseteq 1 .. Len(b)
  BY LenProperties
<1>3. \A k \in 1 .. 4 : b[k] \in Byte
  BY <1>2, ElementOfSeq
<1>4. /\ s \in Seq(Byte) /\ Len(s) = 4
      /\ \A k \in 1 .. 4 : s[k] = b[k]
  <2>1. /\ s \in Seq(Byte)
        /\ Len(s) = IF 1 <= 4 THEN 4 - 1 + 1 ELSE 0
        /\ \A k \in 1 .. 4 - 1 + 1 : s[k] = b[1 + k - 1]
    BY <1>3, SubSeqProperties
  <2>2. \A k \in 1 .. 4 : k \in 1 .. 4 - 1 + 1 /\ 1 + k - 1 = k
    OBVIOUS
  <2> HIDE DEF s
  <2> QED BY <2>1, <2>2
<1> HIDE DEF s
<1>5. ASSUME Holds(b, 0, Magic) PROVE s = Magic
  <2>1. ASSUME NEW k \in 1 .. 4 PROVE s[k] = Magic[k]
    <3>1. 0 + k = k /\ k \in 1 .. Len(Magic)
      BY <1>1
    <3>2. b[0 + k] = Magic[k]
      BY <1>5, <3>1 DEF Holds
    <3> QED BY <1>4, <3>1, <3>2
  <2> QED BY <1>1, <1>4, <2>1, SeqEqual
<1>6. ASSUME s = Magic PROVE Holds(b, 0, Magic)
  <2>1. ASSUME NEW k \in 1 .. 4 PROVE b[0 + k] = Magic[k]
    <3>1. 0 + k = k
      OBVIOUS
    <3> QED BY <1>4, <1>6, <3>1
  <2> QED BY <1>1, <2>1 DEF Holds
<1> QED BY <1>1, <1>5, <1>6 DEF s

\* What the header's encoder writes and what its parser reads: bytes that
\* begin with the mark hold a header exactly when that header is read.
LEMMA HeaderHolds ==
    ASSUME NEW b \in Seq(Byte), Len(b) >= 32, NEW h \in PacketHeader
    PROVE  /\ HeaderBytes(h) \in Seq(Byte) /\ Len(HeaderBytes(h)) = 32
           /\ Holds(b, 0, HeaderBytes(h)) <=> SubSeq(b, 1, 4) = Magic /\ HeaderRead(b) = h
<1> DEFINE q1 == Magic
           q2 == <<h.version, TypeCode(h.type)>>
           q3 == Bytes16(h.flags)
           q4 == BytesOf(h.stream_id)
           q5 == BytesOf(h.sequence_number)
           q6 == BytesOf(h.timestamp_samples)
           q7 == Bytes16(h.payload_size)
           q8 == <<h.fragment_index, h.fragment_count>>
           q9 == BytesOf(h.frame_id)
           j2 == q1 \o q2
           j3 == j2 \o q3
           j4 == j3 \o q4
           j5 == j4 \o q5
           j6 == j5 \o q6
           j7 == j6 \o q7
           j8 == j7 \o q8
           j9 == j8 \o q9
<1>1. /\ h.version \in Byte /\ h.type \in PacketTypes /\ h.flags \in Word
      /\ h.stream_id \in Number32 /\ h.sequence_number \in Number32
      /\ h.timestamp_samples \in Number64 /\ h.payload_size \in Word
      /\ h.fragment_index \in Byte /\ h.fragment_count \in Byte /\ h.frame_id \in Number32
      /\ TypeCode(h.type) \in Byte
  BY Codes DEF PacketHeader
<1>2. \A k \in 1 .. 32 : b[k] \in Byte
  <2>1. Len(b) \in Nat
    BY LenProperties
  <2> QED BY <2>1, ElementOfSeq
<1>3. /\ q1 \in Seq(Byte) /\ Len(q1) = 4
      /\ Holds(b, 0, q1) <=> SubSeq(b, 1, 4) = Magic
  BY HoldsMagic
<1>4. /\ q2 \in Seq(Byte) /\ Len(q2) = 2
      /\ Holds(b, 4, q2) <=> b[5] = h.version /\ TypeOf(b[6]) = h.type
  <2>1. /\ q2 \in Seq(Byte) /\ Len(q2) = 2
        /\ Holds(b, 4, q2) <=> b[4 + 1] = h.version /\ b[4 + 2] = TypeCode(h.type)
    BY <1>1, HoldsPair
  <2>2. 4 + 1 = 5 /\ 4 + 2 = 6 /\ b[6] \in Byte
    BY <1>2
  <2>3. b[6] = TypeCode(h.type) <=> TypeOf(b[6]) = h.type
    BY <1>1, <2>2, Codes
  <2> HIDE DEF q2
  <2> QED BY <2>1, <2>2, <2>3
<1>5. /\ q3 \in Seq(Byte) /\ Len(q3) = 2
      /\ Holds(b, 6, q3) <=> Read16(b, 6) = h.flags
  <2>1. b[6 + 1] \in Byte /\ b[6 + 2] \in Byte
    BY <1>2
  <2> QED BY <1>1, <2>1, Holds16
<1>6. /\ q4 \in Seq(Byte) /\ Len(q4) = 4
      /\ Holds(b, 8, q4) <=> Read32(b, 8) = h.stream_id
  <2>1. \A k \in 1 .. 4 : b[8 + k] \in Byte
    BY <1>2
  <2> QED BY <1>1, <2>1, Holds32
<1>7. /\ q5 \in Seq(Byte) /\ Len(q5) = 4
      /\ Holds(b, 12, q5) <=> Read32(b, 12) = h.sequence_number
  <2>1. \A k \in 1 .. 4 : b[12 + k] \in Byte
    BY <1>2
  <2> QED BY <1>1, <2>1, Holds32
<1>8. /\ q6 \in Seq(Byte) /\ Len(q6) = 8
      /\ Holds(b, 16, q6) <=> Read64(b, 16) = h.timestamp_samples
  <2>1. \A k \in 1 .. 8 : b[16 + k] \in Byte
    BY <1>2
  <2> QED BY <1>1, <2>1, Holds64
<1>9. /\ q7 \in Seq(Byte) /\ Len(q7) = 2
      /\ Holds(b, 24, q7) <=> Read16(b, 24) = h.payload_size
  <2>1. b[24 + 1] \in Byte /\ b[24 + 2] \in Byte
    BY <1>2
  <2> QED BY <1>1, <2>1, Holds16
<1>10. /\ q8 \in Seq(Byte) /\ Len(q8) = 2
       /\ Holds(b, 26, q8) <=> b[27] = h.fragment_index /\ b[28] = h.fragment_count
  <2>1. /\ q8 \in Seq(Byte) /\ Len(q8) = 2
        /\ Holds(b, 26, q8) <=> b[26 + 1] = h.fragment_index /\ b[26 + 2] = h.fragment_count
    BY <1>1, HoldsPair
  <2>2. 26 + 1 = 27 /\ 26 + 2 = 28
    OBVIOUS
  <2> HIDE DEF q8
  <2> QED BY <2>1, <2>2
<1>11. /\ q9 \in Seq(Byte) /\ Len(q9) = 4
       /\ Holds(b, 28, q9) <=> Read32(b, 28) = h.frame_id
  <2>1. \A k \in 1 .. 4 : b[28 + k] \in Byte
    BY <1>2
  <2> QED BY <1>1, <2>1, Holds32
<1> HIDE DEF q1, q2, q3, q4, q5, q6, q7, q8, q9, j2, j3, j4, j5, j6, j7, j8, j9
<1>12. /\ j2 \in Seq(Byte) /\ Len(j2) = 6
       /\ Holds(b, 0, j2) <=> Holds(b, 0, q1) /\ Holds(b, 4, q2)
  <2>1. q1 \in Seq(Byte) /\ q2 \in Seq(Byte) /\ 4 = 0 + Len(q1) /\ Len(q2) = 2
    BY <1>3, <1>4
  <2>2. /\ q1 \o q2 \in Seq(Byte) /\ Len(q1 \o q2) = 4 + Len(q2)
        /\ Holds(b, 0, q1 \o q2) <=> Holds(b, 0, q1) /\ Holds(b, 4, q2)
    BY <2>1, 4 \in Nat, Joined, Zenon
  <2> QED BY <2>1, <2>2 DEF j2
<1>13. /\ j3 \in Seq(Byte) /\ Len(j3) = 8
       /\ Holds(b, 0, j3) <=> Holds(b, 0, j2) /\ Holds(b, 6, q3)
  <2>1. j2 \in Seq(Byte) /\ q3 \in Seq(Byte) /\ 6 = 0 + Len(j2) /\ Len(q3) = 2
    BY <1>12, <1>5
  <2>2. /\ j2 \o q3 \in Seq(Byte) /\ Len(j2 \o q3) = 6 + Len(q3)
        /\ Holds(b, 0, j2 \o q3) <=> Holds(b, 0, j2) /\ Holds(b, 6, q3)
    BY <2>1, 6 \in Nat, Joined, Zenon
  <2> QED BY <2>1, <2>2 DEF j3
<1>14. /\ j4 \in Seq(Byte) /\ Len(j4) = 12
       /\ Holds(b, 0, j4) <=> Holds(b, 0, j3) /\ Holds(b, 8, q4)
  <2>1. j3 \in Seq(Byte) /\ q4 \in Seq(Byte) /\ 8 = 0 + Len(j3) /\ Len(q4) = 4
    BY <1>13, <1>6
  <2>2. /\ j3 \o q4 \in Seq(Byte) /\ Len(j3 \o q4) = 8 + Len(q4)
        /\ Holds(b, 0, j3 \o q4) <=> Holds(b, 0, j3) /\ Holds(b, 8, q4)
    BY <2>1, 8 \in Nat, Joined, Zenon
  <2> QED BY <2>1, <2>2 DEF j4
<1>15. /\ j5 \in Seq(Byte) /\ Len(j5) = 16
       /\ Holds(b, 0, j5) <=> Holds(b, 0, j4) /\ Holds(b, 12, q5)
  <2>1. j4 \in Seq(Byte) /\ q5 \in Seq(Byte) /\ 12 = 0 + Len(j4) /\ Len(q5) = 4
    BY <1>14, <1>7
  <2>2. /\ j4 \o q5 \in Seq(Byte) /\ Len(j4 \o q5) = 12 + Len(q5)
        /\ Holds(b, 0, j4 \o q5) <=> Holds(b, 0, j4) /\ Holds(b, 12, q5)
    BY <2>1, 12 \in Nat, Joined, Zenon
  <2> QED BY <2>1, <2>2 DEF j5
<1>16. /\ j6 \in Seq(Byte) /\ Len(j6) = 24
       /\ Holds(b, 0, j6) <=> Holds(b, 0, j5) /\ Holds(b, 16, q6)
  <2>1. j5 \in Seq(Byte) /\ q6 \in Seq(Byte) /\ 16 = 0 + Len(j5) /\ Len(q6) = 8
    BY <1>15, <1>8
  <2>2. /\ j5 \o q6 \in Seq(Byte) /\ Len(j5 \o q6) = 16 + Len(q6)
        /\ Holds(b, 0, j5 \o q6) <=> Holds(b, 0, j5) /\ Holds(b, 16, q6)
    BY <2>1, 16 \in Nat, Joined, Zenon
  <2> QED BY <2>1, <2>2 DEF j6
<1>17. /\ j7 \in Seq(Byte) /\ Len(j7) = 26
       /\ Holds(b, 0, j7) <=> Holds(b, 0, j6) /\ Holds(b, 24, q7)
  <2>1. j6 \in Seq(Byte) /\ q7 \in Seq(Byte) /\ 24 = 0 + Len(j6) /\ Len(q7) = 2
    BY <1>16, <1>9
  <2>2. /\ j6 \o q7 \in Seq(Byte) /\ Len(j6 \o q7) = 24 + Len(q7)
        /\ Holds(b, 0, j6 \o q7) <=> Holds(b, 0, j6) /\ Holds(b, 24, q7)
    BY <2>1, 24 \in Nat, Joined, Zenon
  <2> QED BY <2>1, <2>2 DEF j7
<1>18. /\ j8 \in Seq(Byte) /\ Len(j8) = 28
       /\ Holds(b, 0, j8) <=> Holds(b, 0, j7) /\ Holds(b, 26, q8)
  <2>1. j7 \in Seq(Byte) /\ q8 \in Seq(Byte) /\ 26 = 0 + Len(j7) /\ Len(q8) = 2
    BY <1>17, <1>10
  <2>2. /\ j7 \o q8 \in Seq(Byte) /\ Len(j7 \o q8) = 26 + Len(q8)
        /\ Holds(b, 0, j7 \o q8) <=> Holds(b, 0, j7) /\ Holds(b, 26, q8)
    BY <2>1, 26 \in Nat, Joined, Zenon
  <2> QED BY <2>1, <2>2 DEF j8
<1>19. /\ j9 \in Seq(Byte) /\ Len(j9) = 32
       /\ Holds(b, 0, j9) <=> Holds(b, 0, j8) /\ Holds(b, 28, q9)
  <2>1. j8 \in Seq(Byte) /\ q9 \in Seq(Byte) /\ 28 = 0 + Len(j8) /\ Len(q9) = 4
    BY <1>18, <1>11
  <2>2. /\ j8 \o q9 \in Seq(Byte) /\ Len(j8 \o q9) = 28 + Len(q9)
        /\ Holds(b, 0, j8 \o q9) <=> Holds(b, 0, j8) /\ Holds(b, 28, q9)
    BY <2>1, 28 \in Nat, Joined, Zenon
  <2> QED BY <2>1, <2>2 DEF j9
<1>20. HeaderBytes(h) = j9
  BY DEF HeaderBytes, j9, j8, j7, j6, j5, j4, j3, j2, q1, q2, q3, q4, q5, q6, q7, q8, q9
<1> DEFINE r == HeaderRead(b)
<1>21. /\ r.version = b[5] /\ r.type = TypeOf(b[6]) /\ r.flags = Read16(b, 6)
       /\ r.stream_id = Read32(b, 8) /\ r.sequence_number = Read32(b, 12)
       /\ r.timestamp_samples = Read64(b, 16) /\ r.payload_size = Read16(b, 24)
       /\ r.fragment_index = b[27] /\ r.fragment_count = b[28]
       /\ r.frame_id = Read32(b, 28)
  BY DEF HeaderRead
<1>22. r = h <=> /\ r.version = h.version /\ r.type = h.type /\ r.flags = h.flags
                 /\ r.stream_id = h.stream_id /\ r.sequence_number = h.sequence_number
                 /\ r.timestamp_samples = h.timestamp_samples
                 /\ r.payload_size = h.payload_size
                 /\ r.fragment_index = h.fragment_index
                 /\ r.fragment_count = h.fragment_count /\ r.frame_id = h.frame_id
  BY DEF HeaderRead, PacketHeader
<1> HIDE DEF r
<1>23. Holds(b, 0, j9) <=>
          /\ Holds(b, 0, q1) /\ Holds(b, 4, q2) /\ Holds(b, 6, q3) /\ Holds(b, 8, q4)
          /\ Holds(b, 12, q5) /\ Holds(b, 16, q6) /\ Holds(b, 24, q7)
          /\ Holds(b, 26, q8) /\ Holds(b, 28, q9)
  BY <1>12, <1>13, <1>14, <1>15, <1>16, <1>17, <1>18, <1>19, Zenon
<1>24. /\ Holds(b, 0, q1) <=> SubSeq(b, 1, 4) = Magic
       /\ Holds(b, 4, q2) <=> r.version = h.version /\ r.type = h.type
       /\ Holds(b, 6, q3) <=> r.flags = h.flags
       /\ Holds(b, 8, q4) <=> r.stream_id = h.stream_id
       /\ Holds(b, 12, q5) <=> r.sequence_number = h.sequence_number
       /\ Holds(b, 16, q6) <=> r.timestamp_samples = h.timestamp_samples
       /\ Holds(b, 24, q7) <=> r.payload_size = h.payload_size
       /\ Holds(b, 26, q8) <=> r.fragment_index = h.fragment_index
                              /\ r.fragment_count = h.fragment_count
       /\ Holds(b, 28, q9) <=> r.frame_id = h.frame_id
  BY <1>3, <1>4, <1>5, <1>6, <1>7, <1>8, <1>9, <1>10, <1>11, <1>21
<1>25. Holds(b, 0, j9) <=> SubSeq(b, 1, 4) = Magic /\ r = h
  BY <1>22, <1>23, <1>24, Zenon
<1> QED BY <1>19, <1>20, <1>25 DEF r

-----------------------------------------------------------------------------
(* The payloads. *)

\* What each encoder of a payload writes is what its parser reads (lines 131
\* to 315 of control_payload.cpp); a stream_start has two reserved bytes.
LEMMA StreamStartHolds ==
    ASSUME NEW b \in Seq(Byte), Len(b) = 16, NEW p \in StreamStartPayload
    PROVE  /\ StreamStartBytes(p) \in Seq(Byte) /\ Len(StreamStartBytes(p)) = 16
           /\ StreamStartBytes(p) = b <=> ReadStreamStart(b) = p /\ ReservedIsZero(b)
<1> DEFINE q1 == <<p.codec, p.channels>>
           q2 == Bytes16(p.frame_duration_ms)
           q3 == BytesOf(p.sample_rate)
           q4 == BytesOf(p.target_bitrate)
           q5 == Bytes16(p.pre_skip_samples)
           q6 == Bytes16(0)
           j2 == q1 \o q2
           j3 == j2 \o q3
           j4 == j3 \o q4
           j5 == j4 \o q5
           j6 == j5 \o q6
<1>1. /\ p.codec \in Byte
      /\ p.channels \in Byte
      /\ p.frame_duration_ms \in Word
      /\ p.sample_rate \in Number32
      /\ p.target_bitrate \in Number32
      /\ p.pre_skip_samples \in Word
  BY DEF StreamStartPayload
<1>2. \A k \in 1 .. 16 : b[k] \in Byte
  BY ElementOfSeq
<1>3. /\ q1 \in Seq(Byte) /\ Len(q1) = 2
      /\ Holds(b, 0, q1) <=> b[1] = p.codec /\ b[2] = p.channels
  <2>1. /\ q1 \in Seq(Byte) /\ Len(q1) = 2
        /\ Holds(b, 0, q1) <=> b[0 + 1] = p.codec /\ b[0 + 2] = p.channels
    BY <1>1, HoldsPair
  <2>2. 0 + 1 = 1 /\ 0 + 2 = 2
    OBVIOUS
  <2> HIDE DEF q1
  <2> QED BY <2>1, <2>2
<1>4. /\ q2 \in Seq(Byte) /\ Len(q2) = 2
      /\ Holds(b, 2, q2) <=> Read16(b, 2) = p.frame_duration_ms
  <2>1. b[2 + 1] \in Byte /\ b[2 + 2] \in Byte
    BY <1>2
  <2> QED BY <1>1, <2>1, Holds16
<1>5. /\ q3 \in Seq(Byte) /\ Len(q3) = 4
      /\ Holds(b, 4, q3) <=> Read32(b, 4) = p.sample_rate
  <2>1. \A k \in 1 .. 4 : b[4 + k] \in Byte
    BY <1>2
  <2> QED BY <1>1, <2>1, Holds32
<1>6. /\ q4 \in Seq(Byte) /\ Len(q4) = 4
      /\ Holds(b, 8, q4) <=> Read32(b, 8) = p.target_bitrate
  <2>1. \A k \in 1 .. 4 : b[8 + k] \in Byte
    BY <1>2
  <2> QED BY <1>1, <2>1, Holds32
<1>7. /\ q5 \in Seq(Byte) /\ Len(q5) = 2
      /\ Holds(b, 12, q5) <=> Read16(b, 12) = p.pre_skip_samples
  <2>1. b[12 + 1] \in Byte /\ b[12 + 2] \in Byte
    BY <1>2
  <2> QED BY <1>1, <2>1, Holds16
<1>8. /\ q6 \in Seq(Byte) /\ Len(q6) = 2
      /\ Holds(b, 14, q6) <=> Read16(b, 14) = 0
  <2>1. b[14 + 1] \in Byte /\ b[14 + 2] \in Byte /\ 0 \in Word
    BY <1>2 DEF Word
  <2> QED BY <1>1, <2>1, Holds16
<1> HIDE DEF q1, q2, q3, q4, q5, q6, j2, j3, j4, j5, j6
<1>9. /\ j2 \in Seq(Byte) /\ Len(j2) = 4
      /\ Holds(b, 0, j2) <=> Holds(b, 0, q1) /\ Holds(b, 2, q2)
  <2>1. q1 \in Seq(Byte) /\ q2 \in Seq(Byte) /\ 2 = 0 + Len(q1) /\ Len(q2) = 2
    BY <1>3, <1>4
  <2>2. /\ q1 \o q2 \in Seq(Byte) /\ Len(q1 \o q2) = 2 + Len(q2)
        /\ Holds(b, 0, q1 \o q2) <=> Holds(b, 0, q1) /\ Holds(b, 2, q2)
    BY <2>1, 2 \in Nat, Joined, Zenon
  <2> QED BY <2>1, <2>2 DEF j2
<1>10. /\ j3 \in Seq(Byte) /\ Len(j3) = 8
       /\ Holds(b, 0, j3) <=> Holds(b, 0, j2) /\ Holds(b, 4, q3)
  <2>1. j2 \in Seq(Byte) /\ q3 \in Seq(Byte) /\ 4 = 0 + Len(j2) /\ Len(q3) = 4
    BY <1>9, <1>5
  <2>2. /\ j2 \o q3 \in Seq(Byte) /\ Len(j2 \o q3) = 4 + Len(q3)
        /\ Holds(b, 0, j2 \o q3) <=> Holds(b, 0, j2) /\ Holds(b, 4, q3)
    BY <2>1, 4 \in Nat, Joined, Zenon
  <2> QED BY <2>1, <2>2 DEF j3
<1>11. /\ j4 \in Seq(Byte) /\ Len(j4) = 12
       /\ Holds(b, 0, j4) <=> Holds(b, 0, j3) /\ Holds(b, 8, q4)
  <2>1. j3 \in Seq(Byte) /\ q4 \in Seq(Byte) /\ 8 = 0 + Len(j3) /\ Len(q4) = 4
    BY <1>10, <1>6
  <2>2. /\ j3 \o q4 \in Seq(Byte) /\ Len(j3 \o q4) = 8 + Len(q4)
        /\ Holds(b, 0, j3 \o q4) <=> Holds(b, 0, j3) /\ Holds(b, 8, q4)
    BY <2>1, 8 \in Nat, Joined, Zenon
  <2> QED BY <2>1, <2>2 DEF j4
<1>12. /\ j5 \in Seq(Byte) /\ Len(j5) = 14
       /\ Holds(b, 0, j5) <=> Holds(b, 0, j4) /\ Holds(b, 12, q5)
  <2>1. j4 \in Seq(Byte) /\ q5 \in Seq(Byte) /\ 12 = 0 + Len(j4) /\ Len(q5) = 2
    BY <1>11, <1>7
  <2>2. /\ j4 \o q5 \in Seq(Byte) /\ Len(j4 \o q5) = 12 + Len(q5)
        /\ Holds(b, 0, j4 \o q5) <=> Holds(b, 0, j4) /\ Holds(b, 12, q5)
    BY <2>1, 12 \in Nat, Joined, Zenon
  <2> QED BY <2>1, <2>2 DEF j5
<1>13. /\ j6 \in Seq(Byte) /\ Len(j6) = 16
       /\ Holds(b, 0, j6) <=> Holds(b, 0, j5) /\ Holds(b, 14, q6)
  <2>1. j5 \in Seq(Byte) /\ q6 \in Seq(Byte) /\ 14 = 0 + Len(j5) /\ Len(q6) = 2
    BY <1>12, <1>8
  <2>2. /\ j5 \o q6 \in Seq(Byte) /\ Len(j5 \o q6) = 14 + Len(q6)
        /\ Holds(b, 0, j5 \o q6) <=> Holds(b, 0, j5) /\ Holds(b, 14, q6)
    BY <2>1, 14 \in Nat, Joined, Zenon
  <2> QED BY <2>1, <2>2 DEF j6
<1> DEFINE r == ReadStreamStart(b)
<1>14. StreamStartBytes(p) = j6
  BY DEF StreamStartBytes, q1, q2, q3, q4, q5, q6, j2, j3, j4, j5, j6
<1>15. /\ Holds(b, 0, q1) <=> r.codec = p.codec /\ r.channels = p.channels
       /\ Holds(b, 2, q2) <=> r.frame_duration_ms = p.frame_duration_ms
       /\ Holds(b, 4, q3) <=> r.sample_rate = p.sample_rate
       /\ Holds(b, 8, q4) <=> r.target_bitrate = p.target_bitrate
       /\ Holds(b, 12, q5) <=> r.pre_skip_samples = p.pre_skip_samples
       /\ Holds(b, 14, q6) <=> ReservedIsZero(b)
  BY <1>3, <1>4, <1>5, <1>6, <1>7, <1>8 DEF ReadStreamStart, ReservedIsZero
<1>16. r = p <=> /\ r.codec = p.codec
                 /\ r.channels = p.channels
                 /\ r.frame_duration_ms = p.frame_duration_ms
                 /\ r.sample_rate = p.sample_rate
                 /\ r.target_bitrate = p.target_bitrate
                 /\ r.pre_skip_samples = p.pre_skip_samples
  BY DEF ReadStreamStart, StreamStartPayload
<1> HIDE DEF r
<1>17. Holds(b, 0, j6) <=> r = p /\ ReservedIsZero(b)
  BY <1>9, <1>10, <1>11, <1>12, <1>13, <1>15, <1>16, Zenon
<1>18. Holds(b, 0, j6) <=> j6 = b
  BY <1>13, HoldsAll
<1> QED BY <1>13, <1>14, <1>17, <1>18 DEF r

LEMMA HeartbeatHolds ==
    ASSUME NEW b \in Seq(Byte), Len(b) = 8, NEW p \in HeartbeatPayload
    PROVE  /\ HeartbeatBytes(p) \in Seq(Byte) /\ Len(HeartbeatBytes(p)) = 8
           /\ HeartbeatBytes(p) = b <=> ReadHeartbeat(b) = p
<1> DEFINE q1 == BytesOf(p.sender_monotonic_time_us)
<1>1. /\ p.sender_monotonic_time_us \in Number64
  BY DEF HeartbeatPayload
<1>2. \A k \in 1 .. 8 : b[k] \in Byte
  BY ElementOfSeq
<1>3. /\ q1 \in Seq(Byte) /\ Len(q1) = 8
      /\ Holds(b, 0, q1) <=> Read64(b, 0) = p.sender_monotonic_time_us
  <2>1. \A k \in 1 .. 8 : b[0 + k] \in Byte
    BY <1>2
  <2> QED BY <1>1, <2>1, Holds64
<1> HIDE DEF q1
<1> DEFINE r == ReadHeartbeat(b)
<1>4. HeartbeatBytes(p) = q1
  BY DEF HeartbeatBytes, q1
<1>5. Holds(b, 0, q1) <=> r.sender_monotonic_time_us = p.sender_monotonic_time_us
  BY <1>3 DEF ReadHeartbeat
<1>6. r = p <=> r.sender_monotonic_time_us = p.sender_monotonic_time_us
  BY DEF ReadHeartbeat, HeartbeatPayload
<1> HIDE DEF r
<1>7. Holds(b, 0, q1) <=> r = p
  BY <1>5, <1>6, Zenon
<1>8. Holds(b, 0, q1) <=> q1 = b
  BY <1>3, HoldsAll
<1> QED BY <1>3, <1>4, <1>7, <1>8 DEF r

LEMMA ReceiverReportHolds ==
    ASSUME NEW b \in Seq(Byte), Len(b) = 20, NEW p \in ReceiverReportPayload
    PROVE  /\ ReceiverReportBytes(p) \in Seq(Byte) /\ Len(ReceiverReportBytes(p)) = 20
           /\ ReceiverReportBytes(p) = b <=> ReadReceiverReport(b) = p
<1> DEFINE q1 == BytesOf(p.highest_sequence_number_received)
           q2 == BytesOf(p.cumulative_missing_datagrams)
           q3 == BytesOf(p.cumulative_late_datagrams)
           q4 == BytesOf(p.estimated_network_jitter_us)
           q5 == Bytes16(p.buffered_audio_ms)
           q6 == Bytes16(p.cumulative_playback_underruns)
           j2 == q1 \o q2
           j3 == j2 \o q3
           j4 == j3 \o q4
           j5 == j4 \o q5
           j6 == j5 \o q6
<1>1. /\ p.highest_sequence_number_received \in Number32
      /\ p.cumulative_missing_datagrams \in Number32
      /\ p.cumulative_late_datagrams \in Number32
      /\ p.estimated_network_jitter_us \in Number32
      /\ p.buffered_audio_ms \in Word
      /\ p.cumulative_playback_underruns \in Word
  BY DEF ReceiverReportPayload
<1>2. \A k \in 1 .. 20 : b[k] \in Byte
  BY ElementOfSeq
<1>3. /\ q1 \in Seq(Byte) /\ Len(q1) = 4
      /\ Holds(b, 0, q1) <=> Read32(b, 0) = p.highest_sequence_number_received
  <2>1. \A k \in 1 .. 4 : b[0 + k] \in Byte
    BY <1>2
  <2> QED BY <1>1, <2>1, Holds32
<1>4. /\ q2 \in Seq(Byte) /\ Len(q2) = 4
      /\ Holds(b, 4, q2) <=> Read32(b, 4) = p.cumulative_missing_datagrams
  <2>1. \A k \in 1 .. 4 : b[4 + k] \in Byte
    BY <1>2
  <2> QED BY <1>1, <2>1, Holds32
<1>5. /\ q3 \in Seq(Byte) /\ Len(q3) = 4
      /\ Holds(b, 8, q3) <=> Read32(b, 8) = p.cumulative_late_datagrams
  <2>1. \A k \in 1 .. 4 : b[8 + k] \in Byte
    BY <1>2
  <2> QED BY <1>1, <2>1, Holds32
<1>6. /\ q4 \in Seq(Byte) /\ Len(q4) = 4
      /\ Holds(b, 12, q4) <=> Read32(b, 12) = p.estimated_network_jitter_us
  <2>1. \A k \in 1 .. 4 : b[12 + k] \in Byte
    BY <1>2
  <2> QED BY <1>1, <2>1, Holds32
<1>7. /\ q5 \in Seq(Byte) /\ Len(q5) = 2
      /\ Holds(b, 16, q5) <=> Read16(b, 16) = p.buffered_audio_ms
  <2>1. b[16 + 1] \in Byte /\ b[16 + 2] \in Byte
    BY <1>2
  <2> QED BY <1>1, <2>1, Holds16
<1>8. /\ q6 \in Seq(Byte) /\ Len(q6) = 2
      /\ Holds(b, 18, q6) <=> Read16(b, 18) = p.cumulative_playback_underruns
  <2>1. b[18 + 1] \in Byte /\ b[18 + 2] \in Byte
    BY <1>2
  <2> QED BY <1>1, <2>1, Holds16
<1> HIDE DEF q1, q2, q3, q4, q5, q6, j2, j3, j4, j5, j6
<1>9. /\ j2 \in Seq(Byte) /\ Len(j2) = 8
      /\ Holds(b, 0, j2) <=> Holds(b, 0, q1) /\ Holds(b, 4, q2)
  <2>1. q1 \in Seq(Byte) /\ q2 \in Seq(Byte) /\ 4 = 0 + Len(q1) /\ Len(q2) = 4
    BY <1>3, <1>4
  <2>2. /\ q1 \o q2 \in Seq(Byte) /\ Len(q1 \o q2) = 4 + Len(q2)
        /\ Holds(b, 0, q1 \o q2) <=> Holds(b, 0, q1) /\ Holds(b, 4, q2)
    BY <2>1, 4 \in Nat, Joined, Zenon
  <2> QED BY <2>1, <2>2 DEF j2
<1>10. /\ j3 \in Seq(Byte) /\ Len(j3) = 12
       /\ Holds(b, 0, j3) <=> Holds(b, 0, j2) /\ Holds(b, 8, q3)
  <2>1. j2 \in Seq(Byte) /\ q3 \in Seq(Byte) /\ 8 = 0 + Len(j2) /\ Len(q3) = 4
    BY <1>9, <1>5
  <2>2. /\ j2 \o q3 \in Seq(Byte) /\ Len(j2 \o q3) = 8 + Len(q3)
        /\ Holds(b, 0, j2 \o q3) <=> Holds(b, 0, j2) /\ Holds(b, 8, q3)
    BY <2>1, 8 \in Nat, Joined, Zenon
  <2> QED BY <2>1, <2>2 DEF j3
<1>11. /\ j4 \in Seq(Byte) /\ Len(j4) = 16
       /\ Holds(b, 0, j4) <=> Holds(b, 0, j3) /\ Holds(b, 12, q4)
  <2>1. j3 \in Seq(Byte) /\ q4 \in Seq(Byte) /\ 12 = 0 + Len(j3) /\ Len(q4) = 4
    BY <1>10, <1>6
  <2>2. /\ j3 \o q4 \in Seq(Byte) /\ Len(j3 \o q4) = 12 + Len(q4)
        /\ Holds(b, 0, j3 \o q4) <=> Holds(b, 0, j3) /\ Holds(b, 12, q4)
    BY <2>1, 12 \in Nat, Joined, Zenon
  <2> QED BY <2>1, <2>2 DEF j4
<1>12. /\ j5 \in Seq(Byte) /\ Len(j5) = 18
       /\ Holds(b, 0, j5) <=> Holds(b, 0, j4) /\ Holds(b, 16, q5)
  <2>1. j4 \in Seq(Byte) /\ q5 \in Seq(Byte) /\ 16 = 0 + Len(j4) /\ Len(q5) = 2
    BY <1>11, <1>7
  <2>2. /\ j4 \o q5 \in Seq(Byte) /\ Len(j4 \o q5) = 16 + Len(q5)
        /\ Holds(b, 0, j4 \o q5) <=> Holds(b, 0, j4) /\ Holds(b, 16, q5)
    BY <2>1, 16 \in Nat, Joined, Zenon
  <2> QED BY <2>1, <2>2 DEF j5
<1>13. /\ j6 \in Seq(Byte) /\ Len(j6) = 20
       /\ Holds(b, 0, j6) <=> Holds(b, 0, j5) /\ Holds(b, 18, q6)
  <2>1. j5 \in Seq(Byte) /\ q6 \in Seq(Byte) /\ 18 = 0 + Len(j5) /\ Len(q6) = 2
    BY <1>12, <1>8
  <2>2. /\ j5 \o q6 \in Seq(Byte) /\ Len(j5 \o q6) = 18 + Len(q6)
        /\ Holds(b, 0, j5 \o q6) <=> Holds(b, 0, j5) /\ Holds(b, 18, q6)
    BY <2>1, 18 \in Nat, Joined, Zenon
  <2> QED BY <2>1, <2>2 DEF j6
<1> DEFINE r == ReadReceiverReport(b)
<1>14. ReceiverReportBytes(p) = j6
  BY DEF ReceiverReportBytes, q1, q2, q3, q4, q5, q6, j2, j3, j4, j5, j6
<1>15. /\ Holds(b, 0, q1)
          <=> r.highest_sequence_number_received = p.highest_sequence_number_received
       /\ Holds(b, 4, q2) <=> r.cumulative_missing_datagrams = p.cumulative_missing_datagrams
       /\ Holds(b, 8, q3) <=> r.cumulative_late_datagrams = p.cumulative_late_datagrams
       /\ Holds(b, 12, q4) <=> r.estimated_network_jitter_us = p.estimated_network_jitter_us
       /\ Holds(b, 16, q5) <=> r.buffered_audio_ms = p.buffered_audio_ms
       /\ Holds(b, 18, q6) <=> r.cumulative_playback_underruns = p.cumulative_playback_underruns
  BY <1>3, <1>4, <1>5, <1>6, <1>7, <1>8 DEF ReadReceiverReport
<1>16. r = p <=> /\ r.highest_sequence_number_received = p.highest_sequence_number_received
                 /\ r.cumulative_missing_datagrams = p.cumulative_missing_datagrams
                 /\ r.cumulative_late_datagrams = p.cumulative_late_datagrams
                 /\ r.estimated_network_jitter_us = p.estimated_network_jitter_us
                 /\ r.buffered_audio_ms = p.buffered_audio_ms
                 /\ r.cumulative_playback_underruns = p.cumulative_playback_underruns
  BY DEF ReadReceiverReport, ReceiverReportPayload
<1> HIDE DEF r
<1>17. Holds(b, 0, j6) <=> r = p
  BY <1>9, <1>10, <1>11, <1>12, <1>13, <1>15, <1>16, Zenon
<1>18. Holds(b, 0, j6) <=> j6 = b
  BY <1>13, HoldsAll
<1> QED BY <1>13, <1>14, <1>17, <1>18 DEF r

LEMMA StreamStopHolds ==
    ASSUME NEW b \in Seq(Byte), Len(b) = 1, NEW p \in StreamStopPayload
    PROVE  /\ StreamStopBytes(p) \in Seq(Byte) /\ Len(StreamStopBytes(p)) = 1
           /\ StreamStopBytes(p) = b <=> ReadStreamStop(b) = p
<1> DEFINE s == <<p.reason>>
           r == ReadStreamStop(b)
<1>1. s \in Seq(Byte) /\ Len(s) = 1 /\ s[1] = p.reason
  BY DEF StreamStopPayload
<1>2. s = b <=> b[1] = p.reason
  <2> HIDE DEF s
  <2>1. ASSUME b[1] = p.reason PROVE s = b
    <3>1. \A k \in 1 .. 1 : s[k] = b[k]
      BY <1>1, <2>1
    <3> QED BY <1>1, <3>1, SeqEqual
  <2> QED BY <1>1, <2>1
<1>3. r = p <=> b[1] = p.reason
  BY DEF ReadStreamStop, StreamStopPayload
<1> HIDE DEF s, r
<1> QED BY <1>1, <1>2, <1>3 DEF s, r, StreamStopBytes

\* The checks of a datagram, over its bytes and the header read from them.
LEMMA ParsesAsRead ==
    ASSUME NEW b
    PROVE  DatagramParses(b) <=>
             /\ Len(b) >= PacketHeaderSize
             /\ Len(b) <= PacketHeaderSize + MaximumPayloadSize
             /\ SubSeq(b, 1, 4) = Magic
             /\ HeaderEncodes(HeaderRead(b))
             /\ Len(b) - PacketHeaderSize = HeaderRead(b).payload_size
<1> DEFINE d == AsDatagram(b)
           r == HeaderRead(b)
           h == Checked(r)
<1>1. /\ d.size = Len(b) /\ d.magic = (SubSeq(b, 1, 4) = Magic)
      /\ d.version = h.version /\ d.type = h.type /\ d.flags = h.flags
      /\ d.stream_id = h.stream_id /\ d.payload_size = h.payload_size
      /\ d.fragment_index = h.fragment_index /\ d.fragment_count = h.fragment_count
      /\ d.frame_id = h.frame_id
  BY DEF AsDatagram
<1>2. h.payload_size = r.payload_size
  BY DEF Checked, HeaderRead
<1> HIDE DEF d, r, h
<1>3. ValidHeader(d) <=> ValidHeader(h)
  BY <1>1 DEF ValidHeader, ValidAudioHeader, ValidControlHeader
<1>4. d.magic <=> SubSeq(b, 1, 4) = Magic
  BY <1>1, Zenon
<1>5. ParsesOk(d) <=> /\ Len(b) >= PacketHeaderSize
                      /\ Len(b) <= PacketHeaderSize + MaximumPayloadSize
                      /\ d.magic /\ ValidHeader(d)
                      /\ Len(b) - PacketHeaderSize = r.payload_size
  <2>1. d.size = Len(b) /\ d.payload_size = r.payload_size
    BY <1>1, <1>2
  <2> QED BY <2>1 DEF ParsesOk
<1> QED BY <1>3, <1>4, <1>5 DEF DatagramParses, HeaderEncodes, d, r, h

\* A sequence that begins with h and goes on with s.
LEMMA Cut ==
    ASSUME NEW b \in Seq(Byte), NEW h \in Seq(Byte), Len(h) <= Len(b), NEW s \in Seq(Byte)
    PROVE  LET rest == SubSeq(b, Len(h) + 1, Len(b))
           IN  /\ rest \in Seq(Byte) /\ Len(rest) = Len(b) - Len(h)
               /\ h \o s = b <=> Holds(b, 0, h) /\ rest = s
<1> DEFINE n     == Len(h)
           m     == Len(b)
           first == n + 1
           rest  == SubSeq(b, first, m)
           u     == h \o s
<1>1. n \in Nat /\ m \in Nat /\ n <= m /\ first \in Int /\ Len(s) \in Nat
  BY LenProperties
<1>2. ASSUME NEW i \in first .. m PROVE b[i] \in Byte
  <2>1. i \in 1 .. Len(b)
    BY <1>1
  <2> QED BY <2>1, ElementOfSeq
<1>3. \A k \in 1 .. m - n : k \in 1 .. m - first + 1 /\ first + k - 1 = n + k
  BY <1>1
<1>4. (IF first <= m THEN m - first + 1 ELSE 0) = m - n
  BY <1>1
<1>5. /\ u \in Seq(Byte) /\ Len(u) = n + Len(s)
      /\ Holds(b, 0, u) <=> Holds(b, 0, h) /\ Holds(b, n, s)
  <2>1. n = 0 + Len(h) /\ n \in Nat
    BY <1>1
  <2> QED BY <2>1, Joined, Zenon
<1> HIDE DEF n, m, first, u
<1>6. /\ rest \in Seq(Byte)
      /\ Len(rest) = IF first <= m THEN m - first + 1 ELSE 0
      /\ \A k \in 1 .. m - first + 1 : rest[k] = b[first + k - 1]
  BY <1>1, <1>2, SubSeqProperties
<1> HIDE DEF rest
<1>7. rest \in Seq(Byte) /\ Len(rest) = m - n /\ \A k \in 1 .. m - n : rest[k] = b[n + k]
  BY <1>3, <1>4, <1>6
<1>8. ASSUME u = b PROVE Holds(b, 0, h) /\ rest = s
  <2>1. Len(s) = m - n /\ Len(u) = Len(b)
    BY <1>1, <1>5, <1>8 DEF m
  <2>2. Holds(b, 0, u)
    BY <1>5, <1>8, HoldsAll
  <2>3. Holds(b, 0, h) /\ Holds(b, n, s)
    BY <1>5, <2>2
  <2>4. \A k \in 1 .. Len(rest) : rest[k] = s[k]
    BY <1>7, <2>1, <2>3 DEF Holds
  <2> QED BY <1>7, <2>1, <2>3, <2>4, SeqEqual
<1>9. ASSUME Holds(b, 0, h), rest = s PROVE u = b
  <2>1. Holds(b, n, s)
    BY <1>7, <1>9 DEF Holds
  <2>2. Len(u) = Len(b)
    BY <1>1, <1>5, <1>7, <1>9 DEF m
  <2>3. Holds(b, 0, u)
    BY <1>5, <1>9, <2>1
  <2> QED BY <1>5, <2>2, <2>3, HoldsAll
<1> QED BY <1>7, <1>8, <1>9 DEF rest, u, first, n, m

\* The message of an error takes the rest of the payload.
LEMMA ErrorHolds ==
    ASSUME NEW b \in Seq(Byte), Len(b) >= 2, NEW p \in ErrorPayload
    PROVE  /\ ErrorBytes(p) \in Seq(Byte)
           /\ ErrorBytes(p) = b <=> ReadError(b) = p
<1> DEFINE q == Bytes16(p.code)
           r == ReadError(b)
<1>1. p.code \in Word /\ p.message \in Seq(Byte)
  BY DEF ErrorPayload
<1>2. b[0 + 1] \in Byte /\ b[0 + 2] \in Byte
  <2>1. Len(b) \in Nat /\ 0 + 1 \in 1 .. Len(b) /\ 0 + 2 \in 1 .. Len(b)
    BY LenProperties
  <2> QED BY <2>1, ElementOfSeq
<1>3. /\ q \in Seq(Byte) /\ Len(q) = 2
      /\ Holds(b, 0, q) <=> Read16(b, 0) = p.code
  BY <1>1, <1>2, Holds16
<1> HIDE DEF q
<1>4. /\ q \o p.message \in Seq(Byte)
      /\ q \o p.message = b <=> Holds(b, 0, q) /\ Message(b) = p.message
  <2>1. Message(b) = SubSeq(b, Len(q) + 1, Len(b))
    BY <1>3 DEF Message
  <2>2. q \o p.message = b <=> /\ Holds(b, 0, q)
                               /\ SubSeq(b, Len(q) + 1, Len(b)) = p.message
    BY <1>1, <1>3, Cut
  <2>3. q \o p.message \in Seq(Byte)
    BY <1>1, <1>3, ConcatProperties
  <2> QED BY <2>1, <2>2, <2>3
<1>5. r = p <=> Read16(b, 0) = p.code /\ Message(b) = p.message
  BY DEF ReadError, ErrorPayload
<1>6. ErrorBytes(p) = q \o p.message
  BY DEF ErrorBytes, q
<1> HIDE DEF r
<1> QED BY <1>3, <1>4, <1>5, <1>6 DEF r

\* What the parser of an error reads, the size being right.
LEMMA ErrorRead ==
    ASSUME NEW b \in Seq(Byte), Len(b) >= 2
    PROVE  /\ ReadError(b) \in ErrorPayload
           /\ Len(Message(b)) = Len(b) - 2
<1> DEFINE h == <<b[1], b[2]>>
<1>1. b[0 + 1] \in Byte /\ b[0 + 2] \in Byte /\ b[1] \in Byte /\ b[2] \in Byte
  <2>1. Len(b) \in Nat /\ 0 + 1 = 1 /\ 0 + 2 = 2 /\ 1 \in 1 .. Len(b) /\ 2 \in 1 .. Len(b)
    BY LenProperties
  <2>2. b[1] \in Byte /\ b[2] \in Byte
    BY <2>1, ElementOfSeq
  <2> QED BY <2>1, <2>2
<1>2. h \in Seq(Byte) /\ Len(h) = 2
  BY <1>1
<1> HIDE DEF h
<1>3. /\ Message(b) \in Seq(Byte) /\ Len(Message(b)) = Len(b) - 2
  <2>1. Message(b) = SubSeq(b, Len(h) + 1, Len(b))
    BY <1>2 DEF Message
  <2>2. /\ SubSeq(b, Len(h) + 1, Len(b)) \in Seq(Byte)
        /\ Len(SubSeq(b, Len(h) + 1, Len(b))) = Len(b) - Len(h)
    BY <1>2, Cut
  <2> QED BY <1>2, <2>1, <2>2
<1>4. Read16(b, 0) \in Word
  BY <1>1, ReadsWord
<1> QED BY <1>3, <1>4 DEF ReadError, ErrorPayload

\* What the other parsers read, the size being right.
LEMMA FixedRead ==
    ASSUME NEW b \in Seq(Byte)
    PROVE  /\ Len(b) = 16 => ReadStreamStart(b) \in StreamStartPayload
           /\ Len(b) = 1 => ReadStreamStop(b) \in StreamStopPayload
           /\ Len(b) = 8 => ReadHeartbeat(b) \in HeartbeatPayload
           /\ Len(b) = 20 => ReadReceiverReport(b) \in ReceiverReportPayload
<1>1. \A k \in 1 .. Len(b) : b[k] \in Byte
  BY ElementOfSeq
<1> DEFINE zeros == <<0, 0, 0, 0>>
<1>2. <<0, 0>> \in Number32 /\ zeros \in Number64
  <2>1. 0 \in Word
    BY DEF Word
  <2>2. ASSUME NEW w \in Word PROVE <<w, w>> \in Number32 /\ <<w, w, w, w>> \in Number64
    BY <2>2 DEF Number32, Number64
  <2> QED BY <2>1, <2>2
<1>3. ASSUME NEW o \in Nat, o + 2 <= Len(b) PROVE Read16(b, o) \in Word
  <2>1. b[o + 1] \in Byte /\ b[o + 2] \in Byte
    BY <1>1, <1>3, LenProperties
  <2> QED BY <2>1, ReadsWord
<1>4. ASSUME NEW o \in Nat, o + 4 <= Len(b) PROVE Read32(b, o) \in Number32
  <2>1. \A k \in 1 .. 4 : b[o + k] \in Byte
    BY <1>1, <1>4, LenProperties
  <2> QED BY <1>2, <2>1, Holds32
<1>5. ASSUME NEW o \in Nat, o + 8 <= Len(b) PROVE Read64(b, o) \in Number64
  <2>1. \A k \in 1 .. 8 : b[o + k] \in Byte
    BY <1>1, <1>5, LenProperties
  <2> HIDE DEF zeros
  <2> QED BY <1>2, <2>1, Holds64
<1>6. ASSUME Len(b) = 16 PROVE ReadStreamStart(b) \in StreamStartPayload
  <2>1. b[1] \in Byte /\ b[2] \in Byte
    BY <1>1, <1>6
  <2>2. Read16(b, 2) \in Word /\ Read16(b, 12) \in Word
    BY <1>3, <1>6
  <2>3. Read32(b, 4) \in Number32 /\ Read32(b, 8) \in Number32
    BY <1>4, <1>6
  <2> QED BY <2>1, <2>2, <2>3 DEF ReadStreamStart, StreamStartPayload
<1>7. ASSUME Len(b) = 1 PROVE ReadStreamStop(b) \in StreamStopPayload
  BY <1>1, <1>7 DEF ReadStreamStop, StreamStopPayload
<1>8. ASSUME Len(b) = 8 PROVE ReadHeartbeat(b) \in HeartbeatPayload
  <2>1. Read64(b, 0) \in Number64
    BY <1>5, <1>8
  <2> QED BY <2>1 DEF ReadHeartbeat, HeartbeatPayload
<1>9. ASSUME Len(b) = 20 PROVE ReadReceiverReport(b) \in ReceiverReportPayload
  <2>1. /\ Read32(b, 0) \in Number32 /\ Read32(b, 4) \in Number32
        /\ Read32(b, 8) \in Number32 /\ Read32(b, 12) \in Number32
    BY <1>4, <1>9
  <2>2. Read16(b, 16) \in Word /\ Read16(b, 18) \in Word
    BY <1>3, <1>9
  <2> QED BY <2>1, <2>2 DEF ReadReceiverReport, ReceiverReportPayload
<1> QED BY <1>6, <1>7, <1>8, <1>9

\* The size that the parser of a type asks for.
LEMMA Sizes ==
    ASSUME NEW n
    PROVE  /\ n \in PayloadSizes("stream_start") <=> n = 16
           /\ n \in PayloadSizes("stream_stop") <=> n = 1
           /\ n \in PayloadSizes("heartbeat") <=> n = 8
           /\ n \in PayloadSizes("receiver_report") <=> n = 20
           /\ n \in PayloadSizes("error") <=> n \in 2 .. 2 + ErrorMessageMaximumSize
<1>1. /\ PayloadSizes("stream_start") = {16} /\ PayloadSizes("stream_stop") = {1}
      /\ PayloadSizes("heartbeat") = {8} /\ PayloadSizes("receiver_report") = {20}
      /\ PayloadSizes("error") = 2 .. 2 + ErrorMessageMaximumSize
  BY DEF PayloadSizes
<1> QED BY <1>1

\* The reserved bytes of a stream_start.
Reserved(p, b) == p.type = "stream_start" => ReservedIsZero(b)

\* An encoder writes bytes of the right size exactly when they are read back.
LEMMA PayloadHolds ==
    ASSUME NEW p \in ControlPayloads, NEW b \in Seq(Byte), Len(b) \in PayloadSizes(p.type)
    PROVE  PayloadBytes(p) = b <=> PayloadRead(p.type, b) = p /\ Reserved(p, b)
<1>1. CASE p \in StreamStartPayload
  <2>1. p.type = "stream_start"
    BY <1>1 DEF StreamStartPayload
  <2>2. Len(b) = 16
    BY <2>1, Sizes
  <2>3. PayloadBytes(p) = StreamStartBytes(p) /\ PayloadRead(p.type, b) = ReadStreamStart(b)
    BY <2>1 DEF PayloadBytes, PayloadRead
  <2>4. StreamStartBytes(p) = b <=> ReadStreamStart(b) = p /\ ReservedIsZero(b)
    BY <1>1, <2>2, StreamStartHolds
  <2> QED BY <2>1, <2>3, <2>4 DEF Reserved
<1>2. CASE p \in StreamStopPayload
  <2>1. p.type = "stream_stop"
    BY <1>2 DEF StreamStopPayload
  <2>2. Len(b) = 1
    BY <2>1, Sizes
  <2>3. PayloadBytes(p) = StreamStopBytes(p) /\ PayloadRead(p.type, b) = ReadStreamStop(b)
    BY <2>1 DEF PayloadBytes, PayloadRead
  <2>4. StreamStopBytes(p) = b <=> ReadStreamStop(b) = p
    BY <1>2, <2>2, StreamStopHolds
  <2> QED BY <2>1, <2>3, <2>4 DEF Reserved
<1>3. CASE p \in HeartbeatPayload
  <2>1. p.type = "heartbeat"
    BY <1>3 DEF HeartbeatPayload
  <2>2. Len(b) = 8
    BY <2>1, Sizes
  <2>3. PayloadBytes(p) = HeartbeatBytes(p) /\ PayloadRead(p.type, b) = ReadHeartbeat(b)
    BY <2>1 DEF PayloadBytes, PayloadRead
  <2>4. HeartbeatBytes(p) = b <=> ReadHeartbeat(b) = p
    BY <1>3, <2>2, HeartbeatHolds
  <2> QED BY <2>1, <2>3, <2>4 DEF Reserved
<1>4. CASE p \in ReceiverReportPayload
  <2>1. p.type = "receiver_report"
    BY <1>4 DEF ReceiverReportPayload
  <2>2. Len(b) = 20
    BY <2>1, Sizes
  <2>3. /\ PayloadBytes(p) = ReceiverReportBytes(p)
        /\ PayloadRead(p.type, b) = ReadReceiverReport(b)
    BY <2>1 DEF PayloadBytes, PayloadRead
  <2>4. ReceiverReportBytes(p) = b <=> ReadReceiverReport(b) = p
    BY <1>4, <2>2, ReceiverReportHolds
  <2> QED BY <2>1, <2>3, <2>4 DEF Reserved
<1>5. CASE p \in ErrorPayload
  <2>1. p.type = "error"
    BY <1>5 DEF ErrorPayload
  <2>2. Len(b) >= 2
    BY <2>1, Sizes, MessageAssumption
  <2>3. PayloadBytes(p) = ErrorBytes(p) /\ PayloadRead(p.type, b) = ReadError(b)
    BY <2>1 DEF PayloadBytes, PayloadRead
  <2>4. ErrorBytes(p) = b <=> ReadError(b) = p
    BY <1>5, <2>2, ErrorHolds
  <2> QED BY <2>1, <2>3, <2>4 DEF Reserved
<1> QED BY <1>1, <1>2, <1>3, <1>4, <1>5 DEF ControlPayloads

\* Every payload is encoded as bytes.
LEMMA PayloadIsBytes ==
    ASSUME NEW p \in ControlPayloads
    PROVE  PayloadBytes(p) \in Seq(Byte)
<1> DEFINE Zeros(n) == [k \in 1 .. n |-> 0]
<1>1. ASSUME NEW n \in Nat PROVE Zeros(n) \in Seq(Byte) /\ Len(Zeros(n)) = n
  BY <1>1 DEF Byte
<1> HIDE DEF Zeros
<1>2. CASE p \in StreamStartPayload
  <2>1. p.type = "stream_start"
    BY <1>2 DEF StreamStartPayload
  <2>2. StreamStartBytes(p) \in Seq(Byte)
    BY <1>1, <1>2, StreamStartHolds
  <2> QED BY <2>1, <2>2 DEF PayloadBytes
<1>3. CASE p \in StreamStopPayload
  <2>1. p.type = "stream_stop"
    BY <1>3 DEF StreamStopPayload
  <2>2. StreamStopBytes(p) \in Seq(Byte)
    BY <1>1, <1>3, StreamStopHolds
  <2> QED BY <2>1, <2>2 DEF PayloadBytes
<1>4. CASE p \in HeartbeatPayload
  <2>1. p.type = "heartbeat"
    BY <1>4 DEF HeartbeatPayload
  <2>2. HeartbeatBytes(p) \in Seq(Byte)
    BY <1>1, <1>4, HeartbeatHolds
  <2> QED BY <2>1, <2>2 DEF PayloadBytes
<1>5. CASE p \in ReceiverReportPayload
  <2>1. p.type = "receiver_report"
    BY <1>5 DEF ReceiverReportPayload
  <2>2. ReceiverReportBytes(p) \in Seq(Byte)
    BY <1>1, <1>5, ReceiverReportHolds
  <2> QED BY <2>1, <2>2 DEF PayloadBytes
<1>6. CASE p \in ErrorPayload
  <2>1. p.type = "error"
    BY <1>6 DEF ErrorPayload
  <2>2. Zeros(2) \in Seq(Byte) /\ Len(Zeros(2)) >= 2
    BY <1>1
  <2>3. ErrorBytes(p) \in Seq(Byte)
    BY <1>6, <2>2, ErrorHolds
  <2> QED BY <2>1, <2>3 DEF PayloadBytes
<1> QED BY <1>2, <1>3, <1>4, <1>5, <1>6 DEF ControlPayloads

\* What a parser reads is of its type.
LEMMA PayloadReadIsPayload ==
    ASSUME NEW type \in ControlTypes, NEW b \in Seq(Byte), Len(b) \in PayloadSizes(type)
    PROVE  PayloadRead(type, b) \in ControlPayloads /\ PayloadRead(type, b).type = type
<1>1. CASE type = "stream_start"
  <2>1. PayloadRead(type, b) = ReadStreamStart(b) /\ Len(b) = 16
    BY <1>1, Sizes DEF PayloadRead
  <2> QED BY <1>1, <2>1, FixedRead DEF ControlPayloads, ReadStreamStart
<1>2. CASE type = "stream_stop"
  <2>1. PayloadRead(type, b) = ReadStreamStop(b) /\ Len(b) = 1
    BY <1>2, Sizes DEF PayloadRead
  <2> QED BY <1>2, <2>1, FixedRead DEF ControlPayloads, ReadStreamStop
<1>3. CASE type = "heartbeat"
  <2>1. PayloadRead(type, b) = ReadHeartbeat(b) /\ Len(b) = 8
    BY <1>3, Sizes DEF PayloadRead
  <2> QED BY <1>3, <2>1, FixedRead DEF ControlPayloads, ReadHeartbeat
<1>4. CASE type = "receiver_report"
  <2>1. PayloadRead(type, b) = ReadReceiverReport(b) /\ Len(b) = 20
    BY <1>4, Sizes DEF PayloadRead
  <2> QED BY <1>4, <2>1, FixedRead DEF ControlPayloads, ReadReceiverReport
<1>5. CASE type = "error"
  <2>1. PayloadRead(type, b) = ReadError(b) /\ Len(b) >= 2
    BY <1>5, Sizes, MessageAssumption DEF PayloadRead
  <2> QED BY <1>5, <2>1, ErrorRead DEF ControlPayloads, ReadError
<1> QED BY <1>1, <1>2, <1>3, <1>4, <1>5 DEF ControlTypes

\* A header is encoded as 32 bytes.
LEMMA HeaderIsBytes ==
    ASSUME NEW h \in PacketHeader
    PROVE  HeaderBytes(h) \in Seq(Byte) /\ Len(HeaderBytes(h)) = 32
<1> DEFINE b == [k \in 1 .. 32 |-> 0]
<1>1. b \in Seq(Byte) /\ Len(b) >= 32
  BY DEF Byte
<1> HIDE DEF b
<1> QED BY <1>1, HeaderHolds

\* What is read of a known type is a header.
LEMMA HeaderReadIsHeader ==
    ASSUME NEW b \in Seq(Byte), Len(b) >= 32, HeaderRead(b).type \in PacketTypes
    PROVE  HeaderRead(b) \in PacketHeader
<1>1. \A k \in 1 .. 32 : b[k] \in Byte
  <2>1. Len(b) \in Nat
    BY LenProperties
  <2> QED BY <2>1, ElementOfSeq
<1>2. <<0, 0>> \in Number32 /\ <<0, 0, 0, 0>> \in Number64
  <2>1. 0 \in Word
    BY DEF Word
  <2>2. ASSUME NEW w \in Word PROVE <<w, w>> \in Number32 /\ <<w, w, w, w>> \in Number64
    BY <2>2 DEF Number32, Number64
  <2> QED BY <2>1, <2>2
<1>3. ASSUME NEW o \in 0 .. 30 PROVE Read16(b, o) \in Word
  <2>1. o + 1 \in 1 .. 32 /\ o + 2 \in 1 .. 32 /\ o \in Nat
    OBVIOUS
  <2>2. b[o + 1] \in Byte /\ b[o + 2] \in Byte
    BY <1>1, <2>1
  <2> QED BY <2>1, <2>2, ReadsWord
<1>4. ASSUME NEW o \in 0 .. 28 PROVE Read32(b, o) \in Number32
  <2>1. ASSUME NEW k \in 1 .. 4 PROVE b[o + k] \in Byte
    <3>1. o + k \in 1 .. 32
      OBVIOUS
    <3> QED BY <1>1, <3>1
  <2> QED BY <1>2, <2>1, Holds32
<1>5. Read64(b, 16) \in Number64
  <2>1. \A k \in 1 .. 8 : b[16 + k] \in Byte
    BY <1>1
  <2> QED BY <1>2, <2>1, Holds64
<1>6. /\ b[5] \in Byte /\ b[27] \in Byte /\ b[28] \in Byte
      /\ TypeOf(b[6]) \in PacketTypes
  BY <1>1 DEF HeaderRead
<1>7. Read16(b, 6) \in Word /\ Read16(b, 24) \in Word
  BY <1>3
<1>8. Read32(b, 8) \in Number32 /\ Read32(b, 12) \in Number32 /\ Read32(b, 28) \in Number32
  BY <1>4
<1> QED BY <1>5, <1>6, <1>7, <1>8 DEF HeaderRead, PacketHeader

\* What follows a header is bytes.
LEMMA BodyIsBytes ==
    ASSUME NEW p \in ControlPayloads \cup AudioPayload
    PROVE  BodyBytes(p) \in Seq(Byte) /\ (p.type = "audio" <=> p \in AudioPayload)
<1>1. CASE p \in AudioPayload
  BY <1>1 DEF AudioPayload, BodyBytes
<1>2. CASE p \in ControlPayloads
  <2>1. p.type # "audio"
    BY <1>2 DEF ControlPayloads, StreamStartPayload, StreamStopPayload, HeartbeatPayload,
       ReceiverReportPayload, ErrorPayload
  <2>2. p \notin AudioPayload
    BY <2>1 DEF AudioPayload
  <2> QED BY <1>2, <2>1, <2>2, PayloadIsBytes DEF BodyBytes
<1> QED BY <1>1, <1>2

-----------------------------------------------------------------------------
(* The datagram. *)

\* A datagram is the bytes of a header and a payload exactly when it begins
\* with the mark, the header is read from it, and the payload follows.
LEMMA DatagramHolds ==
    ASSUME NEW b \in Seq(Byte), Len(b) >= PacketHeaderSize, NEW h \in PacketHeader,
           NEW p, BodyBytes(p) \in Seq(Byte)
    PROVE  /\ Body(b) \in Seq(Byte) /\ Len(Body(b)) = Len(b) - PacketHeaderSize
           /\ DatagramBytes(h, p) = b <=>
                SubSeq(b, 1, 4) = Magic /\ HeaderRead(b) = h /\ Body(b) = BodyBytes(p)
<1> DEFINE q    == HeaderBytes(h)
           body == BodyBytes(p)
<1>1. PacketHeaderSize = 32
  BY CodecAssumption
<1>2. /\ q \in Seq(Byte) /\ Len(q) = 32
      /\ Holds(b, 0, q) <=> SubSeq(b, 1, 4) = Magic /\ HeaderRead(b) = h
  <2>1. Len(b) >= 32
    BY <1>1
  <2> QED BY <2>1, HeaderHolds
<1>3. body \in Seq(Byte)
  OBVIOUS
<1> HIDE DEF q, body
<1>4. /\ SubSeq(b, Len(q) + 1, Len(b)) \in Seq(Byte)
      /\ Len(SubSeq(b, Len(q) + 1, Len(b))) = Len(b) - Len(q)
      /\ q \o body = b <=> Holds(b, 0, q) /\ SubSeq(b, Len(q) + 1, Len(b)) = body
  <2>1. Len(q) <= Len(b)
    BY <1>1, <1>2
  <2> QED BY <1>2, <1>3, <2>1, Cut
<1>5. Body(b) = SubSeq(b, Len(q) + 1, Len(b))
  BY <1>1, <1>2 DEF Body
<1>6. q \o body = b <=> SubSeq(b, 1, 4) = Magic /\ HeaderRead(b) = h /\ Body(b) = body
  BY <1>2, <1>4, <1>5
<1> QED BY <1>1, <1>2, <1>4, <1>5, <1>6 DEF DatagramBytes, q, body

\* The size in a header that is sent or parsed.
LEMMA SizeIsValid ==
    ASSUME NEW h \in PacketHeader, HeaderEncodes(h)
    PROVE  /\ h.payload_size <= MaximumPayloadSize
           /\ h.type # "audio" => h.type \in ControlTypes
                                  /\ h.payload_size \in PayloadSizes(h.type)
<1> DEFINE c == Checked(h)
<1>1. c.type = h.type /\ c.payload_size = h.payload_size /\ h.type \in PacketTypes
  BY DEF Checked, PacketHeader
<1>2. ValidHeader(c)
  BY DEF HeaderEncodes
<1> HIDE DEF c
<1>3. ValidPayloadSize(h.type, h.payload_size)
  BY <1>1, <1>2 DEF ValidHeader
<1>4. CASE h.type = "audio"
  BY <1>3, <1>4 DEF ValidPayloadSize
<1>5. CASE h.type # "audio"
  <2>1. h.type \in ControlTypes /\ h.payload_size \in ControlSizes[h.type]
    BY <1>1, <1>3, <1>5 DEF ValidPayloadSize, PacketTypes
  <2> QED BY <2>1, CodecAssumption
<1> QED BY <1>4, <1>5

\* Whatever bytes the receiver accepts, it has read what a sender may send, and
\* these are the bytes a sender would write for it.
LEMMA AcceptedWasWritten ==
    ASSUME NEW b \in Seq(Byte), DatagramParses(b), BodyParses(HeaderRead(b).type, Body(b))
    PROVE  LET h == HeaderRead(b)
               p == BodyRead(h.type, Body(b))
           IN  /\ HeaderEncodes(h) /\ BodyEncodes(p, Len(b))
               /\ DatagramBytes(h, p) = b
<1> DEFINE h    == HeaderRead(b)
           body == Body(b)
           p    == BodyRead(h.type, body)
           t    == h.type
<1>1. /\ Len(b) >= PacketHeaderSize /\ SubSeq(b, 1, 4) = Magic /\ HeaderEncodes(h)
      /\ PacketHeaderSize = 32
  BY ParsesAsRead, CodecAssumption
<1>2. t \in PacketTypes
  BY <1>1 DEF HeaderEncodes, ValidHeader, Checked, HeaderRead
<1>3. h \in PacketHeader
  BY <1>1, <1>2, HeaderReadIsHeader
<1>4. \A m : BodyBytes(m) \in Seq(Byte) =>
                /\ body \in Seq(Byte) /\ Len(body) = Len(b) - PacketHeaderSize
                /\ DatagramBytes(h, m) = b <=> body = BodyBytes(m)
  BY <1>1, <1>3, DatagramHolds
<1>5. body \in Seq(Byte) /\ Len(body) = Len(b) - PacketHeaderSize
  <2> DEFINE m == [type |-> "audio", bytes |-> <<>>]
  <2>1. BodyBytes(m) \in Seq(Byte)
    BY DEF BodyBytes
  <2> HIDE DEF m, h, body
  <2> QED BY <1>4, <2>1
<1>6. BodyParses(t, body)
  OBVIOUS
<1>7. t = "audio" \/ t \in ControlTypes
  BY <1>2 DEF PacketTypes
<1> HIDE DEF body, t
<1>8. CASE t = "audio"
  <2>1. p = [type |-> "audio", bytes |-> body]
    BY <1>8 DEF BodyRead, t
  <2>2. p.type = "audio" /\ BodyBytes(p) = body
    BY <2>1 DEF BodyBytes
  <2> HIDE DEF p, h
  <2>3. BodyEncodes(p, Len(b))
    BY <2>2 DEF BodyEncodes
  <2>4. DatagramBytes(h, p) = b
    BY <1>4, <1>5, <2>2
  <2> QED BY <1>1, <2>3, <2>4 DEF p, h, t, body
<1>9. CASE t \in ControlTypes
  <2>1. t # "audio"
    BY <1>9 DEF ControlTypes
  <2>2. PayloadParses(t, body) /\ p = PayloadRead(t, body)
    BY <1>6, <2>1 DEF BodyParses, BodyRead, t
  <2> HIDE DEF p, h
  <2>3. Len(body) \in PayloadSizes(t)
    BY <2>2 DEF PayloadParses
  <2>4. p \in ControlPayloads /\ p.type = t
    BY <1>5, <1>9, <2>2, <2>3, PayloadReadIsPayload
  <2>5. Reserved(p, body)
    BY <2>2, <2>4 DEF PayloadParses, Reserved
  <2>6. PayloadBytes(p) = body
    BY <1>5, <2>2, <2>3, <2>4, <2>5, PayloadHolds
  <2>7. BodyBytes(p) = body
    BY <2>1, <2>4, <2>6 DEF BodyBytes
  <2>8. DatagramBytes(h, p) = b
    BY <1>4, <1>5, <2>7
  <2>9. t = "stream_start" => ValidStreamStart(p)
    BY <2>2 DEF PayloadParses, PayloadRead
  <2>10. t = "error" => ValidMessage(p.message)
    <3>1. SUFFICES ASSUME t = "error" PROVE ValidMessage(p.message)
      OBVIOUS
    <3>2. p.message = Message(body) /\ ValidUtf8(Message(body))
      BY <2>2, <3>1 DEF PayloadParses, PayloadRead, ReadError
    <3>3. Len(body) \in 2 .. 2 + ErrorMessageMaximumSize
      BY <2>3, <3>1, Sizes
    <3>4. Len(Message(body)) = Len(body) - 2
      BY <1>5, <3>3, ErrorRead, MessageAssumption
    <3>5. Len(Message(body)) <= ErrorMessageMaximumSize
      BY <3>3, <3>4, MessageAssumption
    <3> QED BY <3>2, <3>5 DEF ValidMessage
  <2>11. Len(b) >= Len(PayloadBytes(p))
    BY <1>1, <1>5, <2>6, LenProperties
  <2>12. BodyEncodes(p, Len(b))
    BY <2>4, <2>9, <2>10, <2>11 DEF BodyEncodes, PayloadEncodes
  <2> QED BY <1>1, <2>8, <2>12 DEF p, h, t, body
<1> QED BY <1>7, <1>8, <1>9

\* What a sender sends arrives as it was meant, if nothing happens to it.
LEMMA WrittenIsRead ==
    ASSUME NEW o \in Offers, HeaderEncodes(o.header), BodyEncodes(o.payload, o.room)
    PROVE  LET b == DatagramBytes(o.header, o.payload)
           IN  /\ b \in Seq(Byte) /\ DatagramParses(b)
               /\ BodyParses(HeaderRead(b).type, Body(b))
               /\ HeaderRead(b) = o.header
               /\ BodyRead(HeaderRead(b).type, Body(b)) = o.payload
<1> DEFINE h    == o.header
           p    == o.payload
           q    == HeaderBytes(h)
           body == BodyBytes(p)
           b    == DatagramBytes(h, p)
           t    == h.type
<1>1. /\ h \in PacketHeader /\ p \in ControlPayloads \cup AudioPayload
      /\ t = p.type /\ h.payload_size = Len(body)
  BY OffersAssumption
<1>2. q \in Seq(Byte) /\ Len(q) = 32 /\ PacketHeaderSize = 32
  BY <1>1, HeaderIsBytes, CodecAssumption
<1>3. body \in Seq(Byte) /\ (p.type = "audio" <=> p \in AudioPayload)
  BY <1>1, BodyIsBytes
<1>4. b = q \o body
  BY DEF DatagramBytes
<1>5. HeaderEncodes(h) /\ BodyEncodes(p, o.room)
  OBVIOUS
<1> HIDE DEF q, b
<1>6. /\ b \in Seq(Byte) /\ Len(b) = 32 + Len(body) /\ Len(body) \in Nat
      /\ Len(b) >= PacketHeaderSize
  <2> HIDE DEF body
  <2>1. Len(body) \in Nat
    BY <1>3, LenProperties
  <2>2. q \o body \in Seq(Byte) /\ Len(q \o body) = Len(q) + Len(body)
    BY <1>2, <1>3, ConcatProperties
  <2> QED BY <1>2, <1>4, <2>1, <2>2
<1>7. SubSeq(b, 1, 4) = Magic /\ HeaderRead(b) = h /\ Body(b) = body
  <2>1. DatagramBytes(h, p) = b
    BY DEF b
  <2> QED BY <1>1, <1>3, <1>6, <2>1, DatagramHolds
<1>8. /\ h.payload_size <= MaximumPayloadSize
      /\ t # "audio" => t \in ControlTypes /\ h.payload_size \in PayloadSizes(t)
  BY <1>1, <1>5, SizeIsValid
<1> HIDE DEF h, body, p, t
<1>9. DatagramParses(b)
  <2>1. /\ Len(b) <= PacketHeaderSize + MaximumPayloadSize
        /\ Len(b) - PacketHeaderSize = h.payload_size
    BY <1>1, <1>2, <1>6, <1>8, PacketAssumption
  <2>2. HeaderEncodes(HeaderRead(b))
    BY <1>5, <1>7
  <2> QED BY <1>6, <1>7, <2>1, <2>2, ParsesAsRead
<1>10. BodyParses(t, body) /\ BodyRead(t, body) = p
  <2>1. CASE t = "audio"
    <3>1. p \in AudioPayload
      BY <1>1, <1>3, <2>1
    <3>2. body = p.bytes
      BY <3>1 DEF body, BodyBytes, AudioPayload
    <3>3. p = [type |-> "audio", bytes |-> p.bytes]
      BY <3>1 DEF AudioPayload
    <3> QED BY <2>1, <3>2, <3>3 DEF BodyParses, BodyRead
  <2>2. CASE t # "audio"
    <3>1. p \in ControlPayloads /\ body = PayloadBytes(p)
      BY <1>1, <1>3, <2>2 DEF body, BodyBytes
    <3>2. Len(body) \in PayloadSizes(t)
      BY <1>1, <1>8, <2>2
    <3>3. PayloadRead(t, body) = p /\ Reserved(p, body)
      BY <1>1, <1>3, <3>1, <3>2, PayloadHolds
    <3>4. PayloadEncodes(p, o.room)
      BY <1>1, <1>5, <2>2 DEF BodyEncodes
    <3>5. t = "stream_start" => ReservedIsZero(body) /\ ValidStreamStart(ReadStreamStart(body))
      <4>1. SUFFICES ASSUME t = "stream_start"
                     PROVE  ReservedIsZero(body) /\ ValidStreamStart(ReadStreamStart(body))
        OBVIOUS
      <4>2. ReadStreamStart(body) = p
        BY <3>3, <4>1 DEF PayloadRead
      <4>3. ValidStreamStart(p)
        BY <1>1, <3>4, <4>1 DEF PayloadEncodes
      <4>4. ReservedIsZero(body)
        BY <1>1, <3>3, <4>1 DEF Reserved
      <4> QED BY <4>2, <4>3, <4>4
    <3>6. t = "error" => ValidUtf8(Message(body))
      <4>1. SUFFICES ASSUME t = "error" PROVE ValidUtf8(Message(body))
        OBVIOUS
      <4>2. ReadError(body) = p
        BY <3>3, <4>1 DEF PayloadRead
      <4>3. p.message = Message(body)
        BY <4>2 DEF ReadError
      <4>4. ValidMessage(p.message)
        BY <1>1, <3>4, <4>1 DEF PayloadEncodes
      <4> QED BY <4>3, <4>4 DEF ValidMessage
    <3>7. PayloadParses(t, body)
      BY <3>2, <3>5, <3>6 DEF PayloadParses
    <3> QED BY <2>2, <3>3, <3>7 DEF BodyParses, BodyRead
  <2> QED BY <2>1, <2>2
<1>11. HeaderRead(b).type = t
  BY <1>7 DEF t
<1> QED BY <1>6, <1>7, <1>9, <1>10, <1>11 DEF h, p, b

\* A byte cut off at the end leaves bytes.
LEMMA FrontIsBytes ==
    ASSUME NEW s \in Seq(Byte), s # <<>>
    PROVE  Front(s) \in Seq(Byte)
<1> DEFINE m == Len(s) - 1
<1>1. Len(s) \in Nat /\ m \in Int /\ 1 \in Int
  BY LenProperties
<1>2. \A i \in 1 .. m : s[i] \in Byte
  BY <1>1, ElementOfSeq
<1> HIDE DEF m
<1>3. SubSeq(s, 1, m) \in Seq(Byte)
  BY <1>1, <1>2, SubSeqProperties
<1> QED BY <1>3 DEF Front, m

-----------------------------------------------------------------------------
(* Texts: what valid_utf8 accepts, and the table of the standard. *)

\* A set of numbers up to n that is not empty has a least one.
LEMMA LeastOfInterval ==
    ASSUME NEW n \in Nat, NEW S, S \subseteq 0 .. n, S # {}
    PROVE  \E i \in S : \A j \in S : i <= j
<1> DEFINE Below(i) == {j \in S : j <= i}
           T == {Below(i) : i \in S}
<1>1. S \subseteq Nat /\ IsFiniteSet(S)
  <2>1. S \subseteq Nat
    OBVIOUS
  <2>2. IsFiniteSet(0 .. n)
    BY 0 \in Int, n \in Int, FS_Interval
  <2> QED BY <2>1, <2>2, FS_Subset
<1>2. T # {} /\ T \subseteq FiniteSubsetsOf(S)
  <2>1. \A i \in S : Below(i) \subseteq S /\ IsFiniteSet(Below(i))
    BY <1>1, FS_Subset
  <2> QED BY <2>1 DEF FiniteSubsetsOf
<1>3. PICK X \in T : \A Y \in T : ~ (<<Y, X>> \in StrictSubsetOrdering(S))
  BY <1>1, <1>2, FS_StrictSubsetOrderingWellFounded, WFMin
<1>4. PICK i \in S : X = Below(i)
  BY <1>3
<1>5. ASSUME NEW j \in S, ~ i <= j PROVE FALSE
  <2>1. i \in Nat /\ j \in Nat /\ j < i
    BY <1>1, <1>5
  <2>2. \A k \in S : k <= j => k <= i
    BY <1>1, <2>1
  <2>3. Below(j) \subseteq Below(i) /\ i \in Below(i) /\ i \notin Below(j)
    <3>1. i <= i /\ ~ i <= j
      BY <2>1
    <3> QED BY <2>2, <3>1
  <2>4. <<Below(j), Below(i)>> \in StrictSubsetOrdering(S)
    BY <2>3 DEF StrictSubsetOrdering
  <2> QED BY <1>3, <1>4, <2>4
<1> QED BY <1>5

\* What the table asks of the first two bytes of three or four, when all bytes
\* but the first are from 80 to BF.
ThreeByteStart(a, b) ==
    \/ a = 224 /\ b \in 160 .. 191
    \/ a \in 225 .. 236
    \/ a = 237 /\ b \in 128 .. 159
    \/ a \in 238 .. 239

FourByteStart(a, b) ==
    \/ a = 240 /\ b \in 144 .. 191
    \/ a \in 241 .. 243
    \/ a = 244 /\ b \in 128 .. 143

\* The table of characters, length by length.
LEMMA OneByte ==
    ASSUME NEW s, Len(s) = 1
    PROVE  IsCharacter(s) <=> s[1] \in 0 .. 127
BY DEF IsCharacter, Characters

LEMMA TwoBytes ==
    ASSUME NEW s, Len(s) = 2
    PROVE  IsCharacter(s) <=> s[1] \in 194 .. 223 /\ s[2] \in Tail80BF
BY DEF IsCharacter, Characters

LEMMA ThreeBytes ==
    ASSUME NEW s, Len(s) = 3
    PROVE  IsCharacter(s) <=> /\ ThreeByteStart(s[1], s[2])
                              /\ s[2] \in Tail80BF /\ s[3] \in Tail80BF
BY DEF IsCharacter, Characters, ThreeByteStart, Tail80BF

LEMMA FourBytes ==
    ASSUME NEW s, Len(s) = 4
    PROVE  IsCharacter(s) <=> /\ FourByteStart(s[1], s[2])
                              /\ s[2] \in Tail80BF /\ s[3] \in Tail80BF /\ s[4] \in Tail80BF
BY DEF IsCharacter, Characters, FourByteStart, Tail80BF

LEMMA CharacterLength ==
    ASSUME NEW s, IsCharacter(s)
    PROVE  Len(s) \in 1 .. 4
<1>1. PICK ranges \in Characters : Len(ranges) = Len(s)
  BY DEF IsCharacter
<1>2. \A a, b, c, d : /\ Len(<<a>>) = 1 /\ Len(<<a, b>>) = 2
                      /\ Len(<<a, b, c>>) = 3 /\ Len(<<a, b, c, d>>) = 4
  OBVIOUS
<1>3. Len(ranges) = 1 \/ Len(ranges) = 2 \/ Len(ranges) = 3 \/ Len(ranges) = 4
  BY <1>1, <1>2, Zenon DEF Characters
<1> QED BY <1>1, <1>3

\* The numbers: a first byte that announces one, two or three others, and what
\* makes the code point valid.
LEMMA TwoByteValues ==
    ASSUME NEW a \in 192 .. 223, NEW b \in Tail80BF
    PROVE  ValidCodePoint(64 * (a % 32) + (b % 64), 1) <=> a \in 194 .. 223
<1>1. a % 32 = a - 192 /\ b % 64 = b - 128
  BY DEF Tail80BF
<1> QED BY <1>1 DEF ValidCodePoint, MinimumCodePoint, Tail80BF

LEMMA ThreeByteValues ==
    ASSUME NEW a \in 224 .. 239, NEW b \in Tail80BF, NEW c \in Tail80BF
    PROVE  ValidCodePoint(64 * (64 * (a % 16) + (b % 64)) + (c % 64), 2) <=>
             ThreeByteStart(a, b)
<1>1. a % 16 = a - 224 /\ b % 64 = b - 128 /\ c % 64 = c - 128
  BY DEF Tail80BF
<1> QED BY <1>1 DEF ValidCodePoint, MinimumCodePoint, Tail80BF, ThreeByteStart

LEMMA FourByteValues ==
    ASSUME NEW a \in 240 .. 247, NEW b \in Tail80BF, NEW c \in Tail80BF, NEW d \in Tail80BF
    PROVE  ValidCodePoint(64 * (64 * (64 * (a % 8) + (b % 64)) + (c % 64)) + (d % 64), 3) <=>
             FourByteStart(a, b)
<1>1. a % 8 = a - 240 /\ b % 64 = b - 128 /\ c % 64 = c - 128 /\ d % 64 = d - 128
  BY DEF Tail80BF
<1> QED BY <1>1 DEF ValidCodePoint, MinimumCodePoint, Tail80BF, FourByteStart

\* The recursive definition of CodePoint is met.
LEMMA CodePointEquation ==
    ASSUME NEW text \in Seq(Byte), NEW i \in Nat, NEW count \in 1 .. 3
    PROVE  \E value :
             /\ CodePoint(text, i, count) = value[count]
             /\ value[0] = text[i + 1] % FirstByteValues(count)
             /\ \A k \in 1 .. count : value[k] = 64 * value[k - 1] + (text[i + 1 + k] % 64)
<1> DEFINE AtPlace(g, k) == IF k = 0 THEN text[i + 1] % FirstByteValues(count)
                            ELSE 64 * g[k - 1] + (text[i + 1 + k] % 64)
           v0 == text[i + 1] % FirstByteValues(count)
           v1 == 64 * v0 + (text[i + 1 + 1] % 64)
           v2 == 64 * v1 + (text[i + 1 + 2] % 64)
           v3 == 64 * v2 + (text[i + 1 + 3] % 64)
           h == [k \in 0 .. count |-> IF k = 0 THEN v0 ELSE IF k = 1 THEN v1
                                      ELSE IF k = 2 THEN v2 ELSE v3]
<1>1. ASSUME NEW k \in 0 .. count PROVE h[k] = AtPlace(h, k)
  <2>1. CASE k = 0
    BY <2>1
  <2>2. CASE k = 1
    <3>1. k - 1 = 0 /\ 0 \in 0 .. count /\ k # 0
      BY <2>2
    <3>2. h[k - 1] = v0 /\ h[k] = v1
      BY <2>2, <3>1
    <3> HIDE DEF h, v0
    <3> QED BY <2>2, <3>1, <3>2
  <2>3. CASE k = 2
    <3>1. k - 1 = 1 /\ 1 \in 0 .. count /\ k # 0 /\ k # 1 /\ 1 # 0
      BY <2>3
    <3>2. h[k - 1] = v1 /\ h[k] = v2
      BY <2>3, <3>1
    <3> HIDE DEF h, v1
    <3> QED BY <2>3, <3>1, <3>2
  <2>4. CASE k = 3
    <3>1. k - 1 = 2 /\ 2 \in 0 .. count /\ k # 0 /\ k # 1 /\ k # 2 /\ 2 # 0 /\ 2 # 1
      BY <2>4
    <3>2. h[k - 1] = v2 /\ h[k] = v3
      BY <2>4, <3>1
    <3> HIDE DEF h, v2
    <3> QED BY <2>4, <3>1, <3>2
  <2> QED BY <2>1, <2>2, <2>3, <2>4
<1>2. h = [k \in 0 .. count |-> AtPlace(h, k)]
  <2>1. h = [k \in 0 .. count |-> h[k]]
    OBVIOUS
  <2> HIDE DEF h, AtPlace
  <2> QED BY <1>1, <2>1
<1> DEFINE value == CHOOSE g : g = [k \in 0 .. count |-> AtPlace(g, k)]
<1> HIDE DEF h
<1>3. value = [k \in 0 .. count |-> AtPlace(value, k)]
  BY <1>2
<1>4. CodePoint(text, i, count) = value[count]
  BY DEF CodePoint
<1> HIDE DEF value
<1>5. 0 \in 0 .. count /\ \A k \in 1 .. count : k \in 0 .. count /\ k # 0
  OBVIOUS
<1>6. \A k \in 0 .. count : value[k] = AtPlace(value, k)
  BY <1>3
<1> QED BY <1>4, <1>5, <1>6
LEMMA Counts ==
    ASSUME NEW a \in Byte
    PROVE  /\ ContinuationCount(a) \in 0 .. 3
           /\ ContinuationCount(a) = 1 <=> a \in 192 .. 223
           /\ ContinuationCount(a) = 2 <=> a \in 224 .. 239
           /\ ContinuationCount(a) = 3 <=> a \in 240 .. 247
BY DEF ContinuationCount, Byte

\* What the code asks of the bytes of a character of two, three or four bytes.
LEMMA ValidTwoBytes ==
    ASSUME NEW text \in Seq(Byte), NEW i \in Nat, i + 2 <= Len(text)
    PROVE  ValidCharacter(text, i, 1) <=>
             /\ text[i + 1 + 1] \in Tail80BF
             /\ ValidCodePoint(64 * (text[i + 1] % 32) + (text[i + 1 + 1] % 64), 1)
<1>1. PICK value :
        /\ CodePoint(text, i, 1) = value[1]
        /\ value[0] = text[i + 1] % FirstByteValues(1)
        /\ \A k \in 1 .. 1 : value[k] = 64 * value[k - 1] + (text[i + 1 + k] % 64)
  BY 1 \in 1 .. 3, CodePointEquation
<1>2. 1 \in 1 .. 1 /\ 1 - 1 = 0 /\ FirstByteValues(1) = 32
  BY DEF FirstByteValues
<1>3. CodePoint(text, i, 1) = 64 * (text[i + 1] % 32) + (text[i + 1 + 1] % 64)
  BY <1>1, <1>2
<1>4. 1 > 0 /\ i + 1 < Len(text)
  BY LenProperties
<1>5. (\A k \in 1 .. 1 : Continuation(text[i + 1 + k])) <=> text[i + 1 + 1] \in Tail80BF
  BY DEF Continuation, Tail80BF
<1> QED BY <1>3, <1>4, <1>5 DEF ValidCharacter

LEMMA ValidThreeBytes ==
    ASSUME NEW text \in Seq(Byte), NEW i \in Nat, i + 3 <= Len(text)
    PROVE  ValidCharacter(text, i, 2) <=>
             /\ text[i + 1 + 1] \in Tail80BF /\ text[i + 1 + 2] \in Tail80BF
             /\ ValidCodePoint(64 * (64 * (text[i + 1] % 16) + (text[i + 1 + 1] % 64))
                                 + (text[i + 1 + 2] % 64), 2)
<1>1. PICK value :
        /\ CodePoint(text, i, 2) = value[2]
        /\ value[0] = text[i + 1] % FirstByteValues(2)
        /\ \A k \in 1 .. 2 : value[k] = 64 * value[k - 1] + (text[i + 1 + k] % 64)
  BY 2 \in 1 .. 3, CodePointEquation
<1>2. /\ 1 \in 1 .. 2 /\ 1 - 1 = 0 /\ 2 \in 1 .. 2 /\ 2 - 1 = 1
      /\ FirstByteValues(2) = 16
  BY DEF FirstByteValues
<1>3. CodePoint(text, i, 2) =
        64 * (64 * (text[i + 1] % 16) + (text[i + 1 + 1] % 64)) + (text[i + 1 + 2] % 64)
  BY <1>1, <1>2
<1>4. 2 > 0 /\ i + 2 < Len(text)
  BY LenProperties
<1>5. (\A k \in 1 .. 2 : Continuation(text[i + 1 + k]))
        <=> text[i + 1 + 1] \in Tail80BF /\ text[i + 1 + 2] \in Tail80BF
  BY DEF Continuation, Tail80BF
<1> QED BY <1>3, <1>4, <1>5 DEF ValidCharacter

LEMMA ValidFourBytes ==
    ASSUME NEW text \in Seq(Byte), NEW i \in Nat, i + 4 <= Len(text)
    PROVE  ValidCharacter(text, i, 3) <=>
             /\ text[i + 1 + 1] \in Tail80BF /\ text[i + 1 + 2] \in Tail80BF
             /\ text[i + 1 + 3] \in Tail80BF
             /\ ValidCodePoint(64 * (64 * (64 * (text[i + 1] % 8) + (text[i + 1 + 1] % 64))
                                       + (text[i + 1 + 2] % 64))
                                 + (text[i + 1 + 3] % 64), 3)
<1>1. PICK value :
        /\ CodePoint(text, i, 3) = value[3]
        /\ value[0] = text[i + 1] % FirstByteValues(3)
        /\ \A k \in 1 .. 3 : value[k] = 64 * value[k - 1] + (text[i + 1 + k] % 64)
  BY 3 \in 1 .. 3, CodePointEquation
<1>2. /\ 1 \in 1 .. 3 /\ 1 - 1 = 0 /\ 2 \in 1 .. 3 /\ 2 - 1 = 1
      /\ 3 \in 1 .. 3 /\ 3 - 1 = 2 /\ FirstByteValues(3) = 8
  BY DEF FirstByteValues
<1>3. CodePoint(text, i, 3) =
        64 * (64 * (64 * (text[i + 1] % 8) + (text[i + 1 + 1] % 64))
                + (text[i + 1 + 2] % 64)) + (text[i + 1 + 3] % 64)
  BY <1>1, <1>2
<1>4. 3 > 0 /\ i + 3 < Len(text)
  BY LenProperties
<1>5. (\A k \in 1 .. 3 : Continuation(text[i + 1 + k]))
        <=> /\ text[i + 1 + 1] \in Tail80BF /\ text[i + 1 + 2] \in Tail80BF
            /\ text[i + 1 + 3] \in Tail80BF
  BY DEF Continuation, Tail80BF
<1> QED BY <1>3, <1>4, <1>5 DEF ValidCharacter

\* The n bytes behind the first i are a character of the standard exactly when
\* the code takes n bytes there and finds nothing wrong with them.
LEMMA CharacterAt ==
    ASSUME NEW text \in Seq(Byte), NEW i \in Nat, NEW n \in Nat \ {0}, i + n <= Len(text)
    PROVE  LET count == ContinuationCount(text[i + 1])
           IN  IsCharacter(SubSeq(text, i + 1, i + n)) <=>
                 IF text[i + 1] < 128 THEN n = 1
                 ELSE n = count + 1 /\ ValidCharacter(text, i, count)
<1> DEFINE first == i + 1
           last  == i + n
           s     == SubSeq(text, first, last)
           count == ContinuationCount(text[i + 1])
<1>1. /\ first \in Int /\ last \in Int /\ Len(text) \in Nat
      /\ last - first + 1 = n /\ first <= last
      /\ \A k \in 1 .. n : first + k - 1 = i + k /\ i + k \in first .. last
      /\ \A k \in first .. last : k \in 1 .. Len(text)
  BY LenProperties
<1>2. \A k \in first .. last : text[k] \in Byte
  BY <1>1, ElementOfSeq
<1>3. Len(s) = n /\ \A k \in 1 .. n : s[k] = text[i + k]
  <2> HIDE DEF first, last
  <2>1. /\ Len(s) = IF first <= last THEN last - first + 1 ELSE 0
        /\ \A k \in 1 .. last - first + 1 : s[k] = text[first + k - 1]
    BY <1>1, <1>2, SubSeqProperties
  <2> HIDE DEF s
  <2> QED BY <1>1, <2>1
<1>4. /\ \A k \in 1 .. n : text[i + k] \in Byte
      /\ i + 1 + 1 = i + 2 /\ i + 1 + 2 = i + 3 /\ i + 1 + 3 = i + 4
  <2> HIDE DEF first, last
  <2> QED BY <1>1, <1>2
<1>5. text[i + 1] \in Byte
  BY <1>4
<1>6. /\ count \in 0 .. 3
      /\ count = 1 <=> text[i + 1] \in 192 .. 223
      /\ count = 2 <=> text[i + 1] \in 224 .. 239
      /\ count = 3 <=> text[i + 1] \in 240 .. 247
  BY <1>5, Counts
<1> HIDE DEF s, count, first, last
<1>7. CASE n = 1
  <2> DEFINE a == text[i + 1]
  <2>4. Len(s) = 1 /\ s[1] = a /\ a \in Byte
    BY <1>3, <1>5, <1>7
  <2> HIDE DEF a
  <2>1. IsCharacter(s) <=> a \in 0 .. 127
    BY <2>4, OneByte
  <2>2. a \in 0 .. 127 <=> a < 128
    BY <2>4 DEF Byte
  <2>3. n = count + 1 => ~ ValidCharacter(text, i, count)
    BY <1>6, <1>7 DEF ValidCharacter
  <2> QED BY <1>7, <2>1, <2>2, <2>3 DEF s, first, last, count, a
<1>8. CASE n = 2
  <2> DEFINE a == text[i + 1]
             b == text[i + 2]
  <2>1. IsCharacter(s) <=> a \in 194 .. 223 /\ b \in Tail80BF
    <3>1. Len(s) = 2 /\ s[1] = a /\ s[2] = b
      BY <1>3, <1>8
    <3> HIDE DEF a, b
    <3> QED BY <3>1, TwoBytes
  <2>2. ValidCharacter(text, i, 1) <=>
          b \in Tail80BF /\ ValidCodePoint(64 * (a % 32) + (b % 64), 1)
    BY <1>4, <1>8, ValidTwoBytes
  <2>3. n = count + 1 <=> a \in 192 .. 223
    BY <1>6, <1>8
  <2>4. a \in Byte
    BY <1>5
  <2> HIDE DEF a, b
  <2>5. a \in 192 .. 223 /\ b \in Tail80BF =>
          (ValidCodePoint(64 * (a % 32) + (b % 64), 1) <=> a \in 194 .. 223)
    BY TwoByteValues, Zenon
  <2>6. /\ a \in 192 .. 223 => ~ a < 128
        /\ a \in 194 .. 223 => a \in 192 .. 223
    BY <2>4 DEF Byte
  <2>7. n = count + 1 => count = 1
    BY <1>6, <1>8
  <2>8. IsCharacter(s) <=> n = count + 1 /\ ValidCharacter(text, i, count)
    BY <2>1, <2>2, <2>3, <2>5, <2>6, <2>7
  <2> QED BY <1>8, <2>3, <2>6, <2>8 DEF s, first, last, count, a
<1>9. CASE n = 3
  <2> DEFINE a == text[i + 1]
             b == text[i + 2]
             c == text[i + 3]
  <2>1. IsCharacter(s) <=> ThreeByteStart(a, b) /\ b \in Tail80BF /\ c \in Tail80BF
    <3>1. Len(s) = 3 /\ s[1] = a /\ s[2] = b /\ s[3] = c
      BY <1>3, <1>9
    <3> HIDE DEF a, b, c
    <3> QED BY <3>1, ThreeBytes
  <2>2. ValidCharacter(text, i, 2) <=>
          b \in Tail80BF /\ c \in Tail80BF /\ ValidCodePoint(64 * (64 * (a % 16) + (b % 64)) + (c % 64), 2)
    BY <1>4, <1>9, ValidThreeBytes
  <2>3. n = count + 1 <=> a \in 224 .. 239
    BY <1>6, <1>9
  <2>4. a \in Byte
    BY <1>5
  <2> HIDE DEF a, b, c
  <2>5. ASSUME a \in 224 .. 239, b \in Tail80BF, c \in Tail80BF
        PROVE  ValidCodePoint(64 * (64 * (a % 16) + (b % 64)) + (c % 64), 2) <=> ThreeByteStart(a, b)
    BY <2>5, ThreeByteValues
  <2>6. /\ a \in 224 .. 239 => ~ a < 128
        /\ ThreeByteStart(a, b) => a \in 224 .. 239
    BY <2>4 DEF Byte, ThreeByteStart
  <2>7. n = count + 1 => count = 2
    BY <1>6, <1>9
  <2>8. IsCharacter(s) <=> n = count + 1 /\ ValidCharacter(text, i, count)
    BY <2>1, <2>2, <2>3, <2>5, <2>6, <2>7
  <2> QED BY <1>9, <2>3, <2>6, <2>8 DEF s, first, last, count, a
<1>10. CASE n = 4
  <2> DEFINE a == text[i + 1]
             b == text[i + 2]
             c == text[i + 3]
             d == text[i + 4]
  <2>1. IsCharacter(s) <=> FourByteStart(a, b) /\ b \in Tail80BF /\ c \in Tail80BF /\ d \in Tail80BF
    <3>1. Len(s) = 4 /\ s[1] = a /\ s[2] = b /\ s[3] = c /\ s[4] = d
      BY <1>3, <1>10
    <3> HIDE DEF a, b, c, d
    <3> QED BY <3>1, FourBytes
  <2>2. ValidCharacter(text, i, 3) <=>
          b \in Tail80BF /\ c \in Tail80BF /\ d \in Tail80BF /\ ValidCodePoint(64 * (64 * (64 * (a % 8) + (b % 64)) + (c % 64)) + (d % 64), 3)
    BY <1>4, <1>10, ValidFourBytes
  <2>3. n = count + 1 <=> a \in 240 .. 247
    BY <1>6, <1>10
  <2>4. a \in Byte
    BY <1>5
  <2> HIDE DEF a, b, c, d
  <2>5. ASSUME a \in 240 .. 247, b \in Tail80BF, c \in Tail80BF, d \in Tail80BF
        PROVE  ValidCodePoint(64 * (64 * (64 * (a % 8) + (b % 64)) + (c % 64)) + (d % 64), 3) <=> FourByteStart(a, b)
    BY <2>5, FourByteValues
  <2>6. /\ a \in 240 .. 247 => ~ a < 128
        /\ FourByteStart(a, b) => a \in 240 .. 247
    BY <2>4 DEF Byte, FourByteStart
  <2>7. n = count + 1 => count = 3
    BY <1>6, <1>10
  <2>8. IsCharacter(s) <=> n = count + 1 /\ ValidCharacter(text, i, count)
    BY <2>1, <2>2, <2>3, <2>5, <2>6, <2>7
  <2> QED BY <1>10, <2>3, <2>6, <2>8 DEF s, first, last, count, a
<1>11. CASE n \notin 1 .. 4
  <2>1. ~ IsCharacter(s)
    BY <1>3, <1>11, CharacterLength
  <2>2. n # 1 /\ n # count + 1
    BY <1>6, <1>11
  <2> QED BY <2>1, <2>2 DEF s, first, last, count
<1>12. n = 1 \/ n = 2 \/ n = 3 \/ n = 4 \/ n \notin 1 .. 4
  OBVIOUS
<1> QED BY <1>7, <1>8, <1>9, <1>10, <1>11, <1>12
\* The cuts leave well-formed characters, and the text from byte i on can be
\* cut so.
Separates(cuts, text) ==
    \A from \in cuts, to \in cuts :
        (from < to /\ \A cut \in cuts : ~(from < cut /\ cut < to))
            => IsCharacter(SubSeq(text, from + 1, to))

WellFormedFrom(text, i) ==
    \E cuts \in SUBSET (i .. Len(text)) :
        {i, Len(text)} \subseteq cuts /\ Separates(cuts, text)

\* Nothing is a well-formed text.
LEMMA WellFormedAtEnd ==
    ASSUME NEW text \in Seq(Byte)
    PROVE  WellFormedFrom(text, Len(text))
<1> DEFINE l    == Len(text)
           cuts == {l}
<1>1. l \in Nat
  BY LenProperties
<1> HIDE DEF l
<1>2. cuts \in SUBSET (l .. l) /\ {l, l} \subseteq cuts
  BY <1>1
<1>3. Separates(cuts, text)
  BY <1>1 DEF Separates
<1> QED BY <1>2, <1>3 DEF WellFormedFrom, l

\* A text is well-formed if it is a character and a well-formed text.
LEMMA WellFormedStep ==
    ASSUME NEW text \in Seq(Byte), NEW i \in Nat, i < Len(text)
    PROVE  WellFormedFrom(text, i) <=>
             \E n \in 1 .. Len(text) - i :
                IsCharacter(SubSeq(text, i + 1, i + n)) /\ WellFormedFrom(text, i + n)
<1> DEFINE l == Len(text)
<1>1. l \in Nat /\ i < l
  BY LenProperties
<1> HIDE DEF l
<1>2. ASSUME WellFormedFrom(text, i)
      PROVE  \E n \in 1 .. l - i :
                IsCharacter(SubSeq(text, i + 1, i + n)) /\ WellFormedFrom(text, i + n)
  <2>1. PICK cuts \in SUBSET (i .. l) : {i, l} \subseteq cuts /\ Separates(cuts, text)
    BY <1>2 DEF WellFormedFrom, l
  <2> DEFINE later == {cut \in cuts : i < cut}
  <2>2. later # {} /\ later \subseteq 0 .. l /\ l \in later
    <3>1. l \in cuts /\ \A cut \in cuts : cut \in i .. l /\ cut \in 0 .. l
      BY <1>1, <2>1
    <3> QED BY <1>1, <3>1
  <2>3. PICK next \in later : \A cut \in later : next <= cut
    BY <1>1, <2>2, LeastOfInterval
  <2>4. /\ next \in cuts /\ i < next /\ next \in i .. l /\ i \in cuts
        /\ next - i \in 1 .. l - i /\ i + (next - i) = next
    BY <1>1, <2>1, <2>3
  <2>5. IsCharacter(SubSeq(text, i + 1, next))
    <3>1. \A cut \in cuts : ~ (i < cut /\ cut < next)
      BY <1>1, <2>1, <2>3
    <3> QED BY <2>1, <2>4, <3>1 DEF Separates
  <2>6. Separates(later, text)
    <3>1. ASSUME NEW from \in later, NEW to \in later, from < to,
                 \A cut \in later : ~ (from < cut /\ cut < to)
          PROVE  IsCharacter(SubSeq(text, from + 1, to))
      <4>1. from \in cuts /\ to \in cuts /\ i < from
        OBVIOUS
      <4>2. \A cut \in cuts : from < cut => cut \in later
        BY <1>1, <2>1, <4>1
      <4> QED BY <2>1, <3>1, <4>1, <4>2 DEF Separates
    <3> HIDE DEF later
    <3> QED BY <3>1 DEF Separates
  <2>7. later \in SUBSET (next .. l) /\ {next, l} \subseteq later
    <3>1. ASSUME NEW cut \in later PROVE cut \in next .. l
      BY <1>1, <2>1, <2>3, <2>4
    <3> HIDE DEF later
    <3> QED BY <2>2, <2>3, <3>1
  <2>8. WellFormedFrom(text, next)
    BY <2>6, <2>7 DEF WellFormedFrom, l
  <2> QED BY <2>4, <2>5, <2>8
<1>3. ASSUME NEW n \in 1 .. l - i,
             IsCharacter(SubSeq(text, i + 1, i + n)), WellFormedFrom(text, i + n)
      PROVE  WellFormedFrom(text, i)
  <2> DEFINE next == i + n
  <2>1. next \in Nat /\ i < next /\ next <= l
    BY <1>1
  <2>2. IsCharacter(SubSeq(text, i + 1, next)) /\ WellFormedFrom(text, next)
    BY <1>3
  <2> HIDE DEF next
  <2>3. PICK later \in SUBSET (next .. l) : {next, l} \subseteq later /\ Separates(later, text)
    BY <2>2 DEF WellFormedFrom, l
  <2> DEFINE cuts == later \cup {i}
  <2>4. cuts \in SUBSET (i .. l) /\ {i, l} \subseteq cuts
    BY <1>1, <2>1, <2>3
  <2>5. Separates(cuts, text)
    <3>1. ASSUME NEW from \in cuts, NEW to \in cuts, from < to,
                 \A cut \in cuts : ~ (from < cut /\ cut < to)
          PROVE  IsCharacter(SubSeq(text, from + 1, to))
      <4>1. to \in later
        BY <1>1, <2>1, <2>3, <2>4, <3>1
      <4>2. CASE from \in later
        BY <2>3, <3>1, <4>1, <4>2 DEF Separates
      <4>3. CASE from = i
        <5>1. ~ (i < next /\ next < to) /\ to \in next .. l
          BY <2>3, <3>1, <4>1, <4>3
        <5>2. to = next
          BY <1>1, <2>1, <5>1
        <5> QED BY <2>2, <4>3, <5>2
      <4> QED BY <4>2, <4>3
    <3> HIDE DEF cuts
    <3> QED BY <3>1 DEF Separates
  <2> HIDE DEF cuts
  <2> QED BY <2>4, <2>5 DEF WellFormedFrom, l
<1> QED BY <1>2, <1>3 DEF l

\* The code's step: what valid_utf8 finds at a byte, and the rest.
LEMMA WellFormedTurn ==
    ASSUME NEW text \in Seq(Byte), NEW i \in Nat, i < Len(text)
    PROVE  LET count == ContinuationCount(text[i + 1])
           IN  /\ count \in 0 .. 3
               /\ WellFormedFrom(text, i) <=>
                    IF text[i + 1] < 128 THEN WellFormedFrom(text, i + 1)
                    ELSE /\ ValidCharacter(text, i, count)
                         /\ WellFormedFrom(text, i + count + 1)
<1> DEFINE count == ContinuationCount(text[i + 1])
           l     == Len(text)
<1>1. l \in Nat /\ i < l
  BY LenProperties
<1>2. text[i + 1] \in Byte
  <2>1. i + 1 \in 1 .. Len(text)
    BY <1>1
  <2> QED BY <2>1, ElementOfSeq
<1>3. count \in 0 .. 3
  BY <1>2, Counts
<1>4. ASSUME NEW n \in 1 .. l - i
      PROVE  IsCharacter(SubSeq(text, i + 1, i + n)) <=>
                 IF text[i + 1] < 128 THEN n = 1
                 ELSE n = count + 1 /\ ValidCharacter(text, i, count)
  <2>1. n \in Nat \ {0} /\ i + n <= Len(text)
    BY <1>1
  <2> QED BY <2>1, CharacterAt
<1>5. WellFormedFrom(text, i) <=>
        \E n \in 1 .. l - i :
           IsCharacter(SubSeq(text, i + 1, i + n)) /\ WellFormedFrom(text, i + n)
  BY WellFormedStep
<1>6. ValidCharacter(text, i, count) => i + count < l
  BY DEF ValidCharacter
<1> HIDE DEF count, l
<1>7. CASE text[i + 1] < 128
  <2>1. 1 \in 1 .. l - i
    BY <1>1
  <2>2. WellFormedFrom(text, i) <=> WellFormedFrom(text, i + 1)
    BY <1>4, <1>5, <1>7, <2>1
  <2> QED BY <1>3, <1>7, <2>2 DEF count
<1>8. CASE ~ text[i + 1] < 128
  <2>1. ValidCharacter(text, i, count) =>
            count + 1 \in 1 .. l - i /\ i + (count + 1) = i + count + 1
    BY <1>1, <1>3, <1>6
  <2>2. WellFormedFrom(text, i) <=>
            ValidCharacter(text, i, count) /\ WellFormedFrom(text, i + count + 1)
    BY <1>3, <1>4, <1>5, <1>8, <2>1
  <2> QED BY <1>3, <1>8, <2>2 DEF count
<1> QED BY <1>7, <1>8

\* The loop of valid_utf8 accepts the well-formed texts and no other: from
\* every byte on, what is left is valid exactly when it is well-formed.  The
\* argument looks for the last byte where it is not.
LEMMA ValidIsWellFormed ==
    ASSUME NEW text \in Seq(Byte)
    PROVE  ValidUtf8(text) <=> WellFormed(text)
<1> DEFINE l == Len(text)
           Count(i) == ContinuationCount(text[i + 1])
           AtPlace(g, i) == IF i = l THEN TRUE
                            ELSE IF text[i + 1] < 128 THEN g[i + 1]
                            ELSE ValidCharacter(text, i, Count(i)) /\ g[i + Count(i) + 1]
           g == [i \in 0 .. l |-> WellFormedFrom(text, i)]
           validFrom == CHOOSE f : f = [i \in 0 .. l |-> AtPlace(f, i)]
<1>1. l \in Nat
  BY LenProperties
<1>2. ASSUME NEW i \in 0 .. l, i # l
      PROVE  /\ Count(i) \in 0 .. 3
             /\ WellFormedFrom(text, i) <=>
                  IF text[i + 1] < 128 THEN WellFormedFrom(text, i + 1)
                  ELSE /\ ValidCharacter(text, i, Count(i))
                       /\ WellFormedFrom(text, i + Count(i) + 1)
             /\ i + 1 \in 0 .. l
             /\ ValidCharacter(text, i, Count(i)) => i + Count(i) + 1 \in 0 .. l
  <2>1. i \in Nat /\ i < Len(text) /\ i + 1 \in 0 .. l
    BY <1>1, <1>2
  <2>2. /\ Count(i) \in 0 .. 3
        /\ WellFormedFrom(text, i) <=>
                  IF text[i + 1] < 128 THEN WellFormedFrom(text, i + 1)
                  ELSE /\ ValidCharacter(text, i, Count(i))
                       /\ WellFormedFrom(text, i + Count(i) + 1)
    BY <2>1, WellFormedTurn
  <2>3. ValidCharacter(text, i, Count(i)) => i + Count(i) < l
    BY DEF ValidCharacter
  <2> HIDE DEF Count, l
  <2>4. ValidCharacter(text, i, Count(i)) => i + Count(i) + 1 \in 0 .. l
    BY <1>1, <2>1, <2>2, <2>3
  <2> QED BY <2>1, <2>2, <2>4
<1> HIDE DEF Count
<1>3. WellFormedFrom(text, l)
  BY WellFormedAtEnd
<1> HIDE DEF l
<1>4. g = [i \in 0 .. l |-> AtPlace(g, i)]
  <2>1. ASSUME NEW i \in 0 .. l PROVE g[i] = AtPlace(g, i)
    <3>1. \A j \in 0 .. l : g[j] = WellFormedFrom(text, j)
      OBVIOUS
    <3> HIDE DEF g
    <3>2. CASE i = l
      BY <1>3, <3>1, <3>2
    <3>3. CASE i # l /\ text[i + 1] < 128
      <4>1. i + 1 \in 0 .. l /\ (WellFormedFrom(text, i) <=> WellFormedFrom(text, i + 1))
        BY <1>2, <3>3
      <4>2. WellFormedFrom(text, i) = WellFormedFrom(text, i + 1)
        BY <4>1 DEF WellFormedFrom
      <4> QED BY <3>1, <3>3, <4>1, <4>2
    <3>4. CASE i # l /\ ~ text[i + 1] < 128 /\ ValidCharacter(text, i, Count(i))
      <4>1. /\ i + Count(i) + 1 \in 0 .. l
            /\ WellFormedFrom(text, i) <=> WellFormedFrom(text, i + Count(i) + 1)
        BY <1>2, <3>4
      <4>2. WellFormedFrom(text, i) = WellFormedFrom(text, i + Count(i) + 1)
        BY <4>1 DEF WellFormedFrom
      <4>3. g[i] = g[i + Count(i) + 1] /\ g[i] \in BOOLEAN
        BY <3>1, <4>1, <4>2 DEF WellFormedFrom
      <4> QED BY <3>4, <4>3
    <3>5. CASE i # l /\ ~ text[i + 1] < 128 /\ ~ ValidCharacter(text, i, Count(i))
      <4>1. ~ WellFormedFrom(text, i)
        BY <1>2, <3>5
      <4>2. g[i] = FALSE
        BY <3>1, <4>1 DEF WellFormedFrom
      <4> QED BY <3>5, <4>2
    <3> QED BY <3>2, <3>3, <3>4, <3>5
  <2>2. g = [i \in 0 .. l |-> g[i]]
    OBVIOUS
  <2> HIDE DEF g, AtPlace
  <2> QED BY <2>1, <2>2
<1> HIDE DEF g
<1>5. validFrom = [i \in 0 .. l |-> AtPlace(validFrom, i)]
  BY <1>4
<1>6. ValidUtf8(text) = validFrom[0]
  BY DEF ValidUtf8, l, Count
<1> HIDE DEF validFrom
<1>7. \A i \in 0 .. l : validFrom[i] = g[i]
  <2> DEFINE Bad == {k \in 0 .. l : validFrom[l - k] # g[l - k]}
  <2>1. ASSUME Bad # {} PROVE FALSE
    <3>1. PICK k \in Bad : \A m \in Bad : k <= m
      BY <1>1, <2>1, LeastOfInterval
    <3> DEFINE i == l - k
    <3>2. i \in 0 .. l /\ validFrom[i] # g[i] /\ l - i = k
      BY <1>1, <3>1
    <3>3. ASSUME NEW j \in 0 .. l, i < j PROVE validFrom[j] = g[j]
      <4>1. l - j \in 0 .. l /\ l - (l - j) = j /\ ~ k <= l - j
        BY <1>1, <3>1, <3>2, <3>3
      <4> HIDE DEF i
      <4>2. l - j \notin Bad
        BY <3>1, <4>1
      <4> QED BY <4>1, <4>2
    <3> HIDE DEF i, Bad
    <3>4. /\ validFrom[i] = AtPlace(validFrom, i) /\ g[i] = AtPlace(g, i)
      BY <1>4, <1>5, <3>2
    <3>5. CASE i = l
      BY <3>2, <3>4, <3>5
    <3>6. CASE i # l /\ text[i + 1] < 128
      <4>1. i + 1 \in 0 .. l /\ i < i + 1
        BY <1>2, <3>2, <3>6
      <4> QED BY <3>2, <3>3, <3>4, <3>6, <4>1
    <3>7. CASE i # l /\ ~ text[i + 1] < 128 /\ ValidCharacter(text, i, Count(i))
      <4>1. i + Count(i) + 1 \in 0 .. l /\ i < i + Count(i) + 1
        BY <1>2, <3>2, <3>7
      <4> QED BY <3>2, <3>3, <3>4, <3>7, <4>1
    <3>8. CASE i # l /\ ~ text[i + 1] < 128 /\ ~ ValidCharacter(text, i, Count(i))
      BY <3>2, <3>4, <3>8
    <3> QED BY <3>5, <3>6, <3>7, <3>8
  <2>2. ASSUME NEW i \in 0 .. l PROVE validFrom[i] = g[i]
    <3>1. l - i \in 0 .. l /\ l - (l - i) = i
      BY <1>1
    <3>2. l - i \notin Bad
      BY <2>1, Zenon
    <3> QED BY <3>1, <3>2
  <2> QED BY <2>2
<1>8. 0 \in 0 .. l
  BY <1>1
<1>9. WellFormedFrom(text, 0) <=> WellFormed(text)
  BY DEF WellFormedFrom, WellFormed, Separates
<1>10. g[0] = WellFormedFrom(text, 0)
  BY <1>8 DEF g
<1> QED BY <1>6, <1>7, <1>8, <1>9, <1>10

\* An encoder takes the message of an error exactly when it is well-formed, the
\* header's size and the room for the payload being right.
LEMMA MessageEncodes ==
    ASSUME NEW o \in Offers, o.header.type = "error", HeaderEncodes(o.header),
           o.room >= Len(PayloadBytes(o.payload))
    PROVE  BodyEncodes(o.payload, o.room) <=> WellFormed(o.payload.message)
<1> DEFINE h == o.header
           p == o.payload
           b == PayloadBytes(p)
<1>1. /\ h \in PacketHeader /\ p \in ControlPayloads \cup AudioPayload
      /\ h.type = "error" /\ p.type = "error" /\ h.payload_size = Len(BodyBytes(p))
      /\ HeaderEncodes(h) /\ o.room >= Len(b)
  BY OffersAssumption
<1> HIDE DEF h, p
<1>2. p \in ControlPayloads /\ p \in ErrorPayload
  BY <1>1 DEF AudioPayload, ControlPayloads, StreamStartPayload, StreamStopPayload,
     HeartbeatPayload, ReceiverReportPayload
<1>3. BodyBytes(p) = b /\ b = ErrorBytes(p) /\ b \in Seq(Byte)
  BY <1>1, <1>2, PayloadIsBytes DEF BodyBytes, PayloadBytes
<1> HIDE DEF b
<1>4. Len(b) \in 2 .. 2 + ErrorMessageMaximumSize
  <2>1. Len(b) \in PayloadSizes("error")
    BY <1>1, <1>3, SizeIsValid
  <2> QED BY <2>1, Sizes
<1>5. p.message = Message(b) /\ Len(p.message) = Len(b) - 2
  <2>1. Len(b) >= 2
    BY <1>4, MessageAssumption
  <2>2. ReadError(b) = p
    BY <1>2, <1>3, <2>1, ErrorHolds
  <2>3. p.message = Message(b)
    BY <2>2 DEF ReadError
  <2> QED BY <1>3, <2>1, <2>3, ErrorRead
<1>6. p.message \in Seq(Byte) /\ Len(p.message) <= ErrorMessageMaximumSize
  BY <1>2, <1>4, <1>5, MessageAssumption DEF ErrorPayload
<1>7. BodyEncodes(p, o.room) <=> ValidUtf8(p.message)
  BY <1>1, <1>3, <1>6 DEF BodyEncodes, PayloadEncodes, ValidMessage, b
<1> QED BY <1>6, <1>7, ValidIsWellFormed DEF h, p

\* A parser takes the message of an error exactly when it is well-formed, the
\* header being right.
LEMMA MessageParses ==
    ASSUME NEW b \in Seq(Byte), DatagramParses(b), HeaderRead(b).type = "error"
    PROVE  BodyParses("error", Body(b)) <=> WellFormed(Message(Body(b)))
<1> DEFINE h    == HeaderRead(b)
           body == Body(b)
<1>1. /\ Len(b) >= PacketHeaderSize /\ SubSeq(b, 1, 4) = Magic /\ HeaderEncodes(h)
      /\ Len(b) - PacketHeaderSize = h.payload_size /\ PacketHeaderSize = 32
  BY ParsesAsRead, CodecAssumption
<1>2. h \in PacketHeader
  BY <1>1, HeaderReadIsHeader DEF PacketTypes, ControlTypes
<1>3. body \in Seq(Byte) /\ Len(body) = Len(b) - PacketHeaderSize
  <2> DEFINE m == [type |-> "audio", bytes |-> <<>>]
  <2>1. BodyBytes(m) \in Seq(Byte)
    BY DEF BodyBytes
  <2> HIDE DEF m, h
  <2> QED BY <1>1, <1>2, <2>1, DatagramHolds
<1>4. Len(body) \in PayloadSizes("error")
  <2>1. h.type = "error"
    OBVIOUS
  <2> HIDE DEF h, body
  <2> QED BY <1>1, <1>2, <1>3, <2>1, SizeIsValid
<1> HIDE DEF body
<1>5. Message(body) \in Seq(Byte)
  <2>1. Len(body) >= 2
    BY <1>4, Sizes, MessageAssumption
  <2> QED BY <1>3, <2>1, ErrorRead DEF ErrorPayload, ReadError
<1>6. BodyParses("error", body) <=> ValidUtf8(Message(body))
  BY <1>4 DEF BodyParses, PayloadParses
<1> QED BY <1>5, <1>6, ValidIsWellFormed DEF body

-----------------------------------------------------------------------------
(* The invariant. *)

\* What is sent is an offer that both encoders took, as bytes; it stays that
\* until it is damaged.
Carried ==
    status \in {"sent", "accepted", "refused"} =>
        /\ offer \in Offers
        /\ HeaderEncodes(offer.header) /\ BodyEncodes(offer.payload, offer.room)
        /\ wire \in Seq(Byte)
        /\ damage = 0 => wire = DatagramBytes(offer.header, offer.payload)

CodecInv == damage \in Nat /\ Carried /\ ReadsWhatWasWritten

\* The steps keep the invariant, action by action.
LEMMA EncodeKeeps ==
    ASSUME NEW o \in Offers, Encode(o)
    PROVE  CodecInv'
<1>1. CASE HeaderEncodes(o.header) /\ BodyEncodes(o.payload, o.room)
  <2>1. /\ status' = "sent" /\ damage' = 0 /\ offer' = o
        /\ wire' = DatagramBytes(o.header, o.payload)
    BY <1>1 DEF Encode
  <2>2. DatagramBytes(o.header, o.payload) \in Seq(Byte)
    BY <1>1, WrittenIsRead
  <2> QED BY <1>1, <2>1, <2>2 DEF CodecInv, Carried, ReadsWhatWasWritten
<1>2. CASE ~(HeaderEncodes(o.header) /\ BodyEncodes(o.payload, o.room))
  <2>1. status' = "unsent" /\ damage' = 0
    BY <1>2 DEF Encode
  <2> QED BY <2>1 DEF CodecInv, Carried, ReadsWhatWasWritten
<1> QED BY <1>1, <1>2

\* Damage: no longer what was sent, but bytes.
LEMMA DamageKeeps ==
    ASSUME CodecInv, Damage
    PROVE  CodecInv'
<1>1. /\ status = "sent" /\ status' = "sent" /\ offer' = offer
      /\ damage \in Nat /\ damage' = damage + 1
  BY DEF Damage, CodecInv
<1>2. wire \in Seq(Byte)
  BY <1>1 DEF CodecInv, Carried
<1>3. wire' \in Seq(Byte)
  <2>1. ASSUME NEW i \in 1 .. Len(wire), NEW b \in DamagedBytes, wire' = [wire EXCEPT ![i] = b]
        PROVE  wire' \in Seq(Byte)
    <3>1. b \in Byte
      BY CodecAssumption
    <3> QED BY <1>2, <2>1, <3>1, ExceptSeq
  <2>2. ASSUME wire # <<>>, wire' = Front(wire)
        PROVE  wire' \in Seq(Byte)
    BY <1>2, <2>2, FrontIsBytes
  <2>3. ASSUME NEW b \in DamagedBytes, wire' = Append(wire, b)
        PROVE  wire' \in Seq(Byte)
    <3>1. b \in Byte
      BY CodecAssumption
    <3> QED BY <1>2, <2>3, <3>1, AppendProperties
  <2> QED BY <2>1, <2>2, <2>3 DEF Damage
<1>4. damage' \in Nat /\ damage' # 0
  BY <1>1
<1>5. Carried'
  BY <1>1, <1>3, <1>4 DEF CodecInv, Carried
<1> QED BY <1>1, <1>4, <1>5 DEF CodecInv, ReadsWhatWasWritten

\* Receive: WrittenIsRead if nothing was damaged, AcceptedWasWritten always.
LEMMA ReceiveKeeps ==
    ASSUME CodecInv, Receive
    PROVE  CodecInv'
<1> DEFINE taken == DatagramParses(wire) /\ BodyParses(HeaderRead(wire).type, Body(wire))
<1>1. /\ status = "sent" /\ damage' = damage /\ offer' = offer /\ wire' = wire
      /\ damage \in Nat
  BY DEF Receive, CodecInv
<1>2. /\ offer \in Offers
      /\ HeaderEncodes(offer.header) /\ BodyEncodes(offer.payload, offer.room)
      /\ wire \in Seq(Byte)
      /\ damage = 0 => wire = DatagramBytes(offer.header, offer.payload)
  BY <1>1 DEF CodecInv, Carried
<1>3. ASSUME damage = 0
      PROVE  /\ taken
             /\ HeaderRead(wire) = offer.header
             /\ BodyRead(HeaderRead(wire).type, Body(wire)) = offer.payload
  <2>1. wire = DatagramBytes(offer.header, offer.payload)
    BY <1>2, <1>3
  <2> QED BY <1>2, <2>1, WrittenIsRead
<1>4. CASE taken
  <2> DEFINE h == HeaderRead(wire)
             p == BodyRead(h.type, Body(wire))
  <2>1. status' = "accepted" /\ received' = [header |-> h, payload |-> p]
    BY <1>4 DEF Receive
  <2>2. /\ HeaderEncodes(h) /\ BodyEncodes(p, Len(wire))
        /\ DatagramBytes(h, p) = wire
    BY <1>2, <1>4, AcceptedWasWritten
  <2>3. damage = 0 => h = offer.header /\ p = offer.payload
    BY <1>3
  <2> HIDE DEF h, p, taken
  <2>4. /\ received'.header = h /\ received'.payload = p
        /\ damage = 0 => received' = [header |-> offer.header, payload |-> offer.payload]
    BY <2>1, <2>3
  <2>5. ReadsWhatWasWritten'
    BY <1>1, <2>1, <2>2, <2>4 DEF ReadsWhatWasWritten
  <2>6. Carried'
    BY <1>1, <1>2 DEF Carried
  <2> QED BY <1>1, <2>5, <2>6 DEF CodecInv
<1>5. CASE ~taken
  <2>1. status' = "refused" /\ damage # 0
    BY <1>3, <1>5 DEF Receive
  <2> HIDE DEF taken
  <2>2. ReadsWhatWasWritten'
    BY <1>1, <2>1 DEF ReadsWhatWasWritten
  <2>3. Carried'
    BY <1>1, <1>2 DEF Carried
  <2> QED BY <1>1, <2>2, <2>3 DEF CodecInv
<1> QED BY <1>4, <1>5

\* The invariant is inductive.
LEMMA CodecInvInductive ==
    /\ Init => CodecInv
    /\ CodecInv /\ [Next]_vars => CodecInv'
<1>1. Init => CodecInv
  BY DEF Init, CodecInv, Carried, ReadsWhatWasWritten
<1>2. ASSUME CodecInv, [Next]_vars PROVE CodecInv'
  <2>1. CASE UNCHANGED vars
    BY <1>2, <2>1 DEF vars, CodecInv, Carried, ReadsWhatWasWritten
  <2>2. ASSUME NEW o \in Offers, Encode(o) PROVE CodecInv'
    BY <2>2, EncodeKeeps
  <2>3. CASE Damage
    BY <1>2, <2>3, DamageKeeps
  <2>4. CASE Receive
    BY <1>2, <2>4, ReceiveKeeps
  <2>5. CASE NextDatagram
    <3>1. status' = "idle" /\ damage' = 0
      BY <2>5 DEF NextDatagram
    <3> QED BY <3>1 DEF CodecInv, Carried, ReadsWhatWasWritten
  <2> QED BY <1>2, <2>1, <2>2, <2>3, <2>4, <2>5 DEF Next
<1> QED BY <1>1, <1>2

\* Encoders and parsers agree on every field and every check, for payloads and
\* damage of any kind: what was sent is read as it was meant, and what is
\* accepted is what a sender may send, byte for byte (encode_header,
\* parse_datagram, and the encoders and parsers of control_payload.cpp).
THEOREM WhatIsReadWasWritten == Spec => []ReadsWhatWasWritten
<1>1. CodecInv => ReadsWhatWasWritten
  BY DEF CodecInv
<1> QED BY <1>1, CodecInvInductive, PTL DEF Spec

-----------------------------------------------------------------------------
(* Messages. *)

\* What was not sent was refused by an encoder, and the receiver's answer is
\* what its parsers found.
Judged ==
    /\ status = "unsent" =>
           /\ offer \in Offers
           /\ ~ (HeaderEncodes(offer.header) /\ BodyEncodes(offer.payload, offer.room))
    /\ status \in {"accepted", "refused"} =>
           (status = "accepted"
              <=> DatagramParses(wire) /\ BodyParses(HeaderRead(wire).type, Body(wire)))

\* It holds at every step.
LEMMA JudgedInductive ==
    /\ Init => Judged
    /\ Judged /\ [Next]_vars => Judged'
<1>1. Init => Judged
  BY DEF Init, Judged
<1>2. ASSUME Judged, [Next]_vars PROVE Judged'
  <2>1. CASE UNCHANGED vars
    BY <1>2, <2>1 DEF vars, Judged
  <2>2. ASSUME NEW o \in Offers, Encode(o) PROVE Judged'
    <3>1. CASE HeaderEncodes(o.header) /\ BodyEncodes(o.payload, o.room)
      <4>1. status' = "sent"
        BY <2>2, <3>1 DEF Encode
      <4> QED BY <4>1 DEF Judged
    <3>2. CASE ~ (HeaderEncodes(o.header) /\ BodyEncodes(o.payload, o.room))
      <4>1. status' = "unsent" /\ offer' = o
        BY <2>2, <3>2 DEF Encode
      <4> QED BY <3>2, <4>1 DEF Judged
    <3> QED BY <3>1, <3>2
  <2>3. CASE Damage
    <3>1. status' = "sent"
      BY <2>3 DEF Damage
    <3> QED BY <3>1 DEF Judged
  <2>4. CASE Receive
    <3> DEFINE taken(b) == DatagramParses(b) /\ BodyParses(HeaderRead(b).type, Body(b))
    <3>1. wire' = wire /\ status' \in {"accepted", "refused"}
          /\ (status' = "accepted" <=> taken(wire))
      BY <2>4 DEF Receive
    <3> HIDE DEF taken
    <3>2. status' = "accepted" <=> taken(wire')
      BY <3>1
    <3> QED BY <3>1, <3>2 DEF Judged, taken
  <2>5. CASE NextDatagram
    <3>1. status' = "idle"
      BY <2>5 DEF NextDatagram
    <3> QED BY <3>1 DEF Judged
  <2> QED BY <1>2, <2>1, <2>2, <2>3, <2>4, <2>5 DEF Next
<1> QED BY <1>1, <1>2

LEMMA JudgedAsTheStandard ==
    CodecInv /\ Judged => TextIsUnicode
<1> SUFFICES ASSUME CodecInv, Judged PROVE TextIsUnicode
  OBVIOUS
<1>1. ASSUME status \in {"sent", "unsent"}, damage = 0, offer.header.type = "error",
             HeaderEncodes(offer.header), offer.room >= Len(PayloadBytes(offer.payload))
      PROVE  status = "sent" <=> WellFormed(offer.payload.message)
  <2>1. /\ offer \in Offers
        /\ status = "sent" <=> BodyEncodes(offer.payload, offer.room)
    BY <1>1 DEF CodecInv, Carried, Judged
  <2> QED BY <1>1, <2>1, MessageEncodes
<1>2. ASSUME status \in {"accepted", "refused"}, DatagramParses(wire),
             HeaderRead(wire).type = "error"
      PROVE  status = "accepted" <=> WellFormed(Message(Body(wire)))
  <2>1. /\ wire \in Seq(Byte)
        /\ status = "accepted" <=> BodyParses("error", Body(wire))
    BY <1>2 DEF CodecInv, Carried, Judged
  <2> QED BY <1>2, <2>1, MessageParses
<1> QED BY <1>1, <1>2 DEF TextIsUnicode

\* The message of an error is Unicode, for texts of any size: encode_error_payload
\* and parse_error_payload accept exactly the texts that can be cut into the
\* characters of the standard (valid_utf8), however the datagram was damaged.
THEOREM MessagesAreUnicode == Spec => []TextIsUnicode
<1> QED BY CodecInvInductive, JudgedInductive, JudgedAsTheStandard, PTL DEF Spec
=============================================================================
