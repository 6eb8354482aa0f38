--------------------------- MODULE FramingProofs ----------------------------
(***************************************************************************)
(* What the Writer sends the Reader reads, for every configuration of the  *)
(* two ends, every list of messages, objects and datagrams that encode can *)
(* be given, and every way to cut the bytes.  The first half is about the  *)
(* codecs: a buffer that agrees with an encoding as far as both go is read *)
(* as what was encoded once it is there whole, and asks for no more than   *)
(* is missing before that (Reads).  The loops over lists, parameters and   *)
(* fields are recursive functions; what they compute follows by induction  *)
(* (LeastNumber, Induction).  The second half is the inductive invariant   *)
(* FramingInv: the items lie on the wire one behind the other, each reader *)
(* stands between two of them, and what is next on the wire is what it is  *)
(* about to decode.  InStep alone is not inductive, for it says neither    *)
(* what lies behind the reader's place nor what the reader expects there.  *)
(***************************************************************************)
EXTENDS Framing, WellFoundedInduction, SequenceTheorems, FiniteSetTheorems, TLAPS

-----------------------------------------------------------------------------
(* Reading back *)

\* The numbers are well founded.
LEMMA LeastNumber ==
  ASSUME NEW T, T \subseteq Nat, T # {}
  PROVE  \E x \in T : \A y \in T : x <= y
<1>1. PICK R : IsWellFoundedOn(R, Nat) /\ \A x, y \in Nat : x < y => <<x, y>> \in R
  <2>1. \A x, y \in Nat : x < y => <<x, y>> \in OpToRel(<, Nat)
    BY Zenon DEF OpToRel
  <2>2. QED
    BY <2>1, NatLessThanWellFounded, Zenon
<1>2. PICK x \in T : \A y \in T : ~(<<y, x>> \in R)
  <2>1. IsWellFoundedOn(R, Nat)
    BY <1>1
  <2>2. \E x \in T : \A y \in T : ~(<<y, x>> \in R)
    BY <2>1, WFMin, Zenon
  <2>3. QED
    BY <2>2
<1>3. \A y \in T : x \in Nat /\ y \in Nat /\ ~(y < x)
  BY <1>1, <1>2, Zenon
<1>4. QED
  BY <1>3

\* Induction: a set that has 0, and with a number the next, has them all.
LEMMA Induction ==
  ASSUME NEW T, 0 \in T, \A n \in Nat : n \in T => n + 1 \in T
  PROVE  Nat \subseteq T
<1> SUFFICES ASSUME Nat \ T # {} PROVE FALSE
  OBVIOUS
<1>1. PICK x \in Nat \ T : \A y \in Nat \ T : x <= y
  BY LeastNumber
<1>2. x # 0 /\ x - 1 \in Nat /\ (x - 1) + 1 = x /\ x - 1 \in T
  BY <1>1
<1>3. QED
  BY <1>1, <1>2

\* The buffer and the encoding are the same as far as both go.
Agrees(b, e) == \A i \in 1 .. Len(b) : i <= Len(e) => b[i] = e[i]

\* What the decode d of the buffer b is to be, if e is the encoding of v: v and what is
\* behind it once e is there whole, and otherwise More(n), for no more than is missing
\* (or, with may, the missing field that a window is given up for).
Reads(d, b, e, v, may) ==
  IF Len(e) <= Len(b) THEN d = Ok(v, Drop(b, Len(e)))
  ELSE \/ \E n \in 1 .. (Len(e) - Len(b)) : d = More(n)
       \/ may /\ d = Err("MissingField")

\* What is left of a buffer.
LEMMA DropFacts ==
  ASSUME NEW b \in ByteSeq, NEW n \in Nat, n <= Len(b)
  PROVE  /\ Drop(b, n) \in ByteSeq /\ Len(Drop(b, n)) = Len(b) - n
         /\ \A i \in 1 .. (Len(b) - n) : Drop(b, n)[i] = b[n + i]
BY DEF Drop, ByteSeq

\* Where the parts of a concatenation are.
LEMMA ConcatFacts ==
  ASSUME NEW S, NEW s \in Seq(S), NEW t \in Seq(S)
  PROVE  /\ s \o t \in Seq(S) /\ Len(s) \in Nat /\ Len(t) \in Nat /\ Len(s \o t) = Len(s) + Len(t)
         /\ \A i \in 1 .. Len(s) : (s \o t)[i] = s[i]
         /\ \A i \in 1 .. Len(t) : (s \o t)[Len(s) + i] = t[i]
OBVIOUS

\* A buffer that agrees with two encodings agrees with each of them, in its place.
LEMMA AgreesParts ==
  ASSUME NEW b \in ByteSeq, NEW e1 \in ByteSeq, NEW e2 \in ByteSeq, Agrees(b, e1 \o e2)
  PROVE  /\ Agrees(b, e1)
         /\ Len(e1) <= Len(b) => Drop(b, Len(e1)) \in ByteSeq /\ Agrees(Drop(b, Len(e1)), e2)
<1>1. Len(b) \in Nat /\ Len(e1) \in Nat /\ Len(e2) \in Nat
  BY DEF ByteSeq
<1>2. Agrees(b, e1)
  <2> SUFFICES ASSUME NEW i \in 1 .. Len(b), i <= Len(e1) PROVE b[i] = e1[i]
    BY DEF Agrees
  <2>1. (e1 \o e2)[i] = e1[i] /\ Len(e1 \o e2) = Len(e1) + Len(e2)
    BY <1>1, ConcatFacts DEF ByteSeq
  <2>2. QED
    BY <1>1, <2>1 DEF Agrees
<1>3. ASSUME Len(e1) <= Len(b) PROVE Agrees(Drop(b, Len(e1)), e2)
  <2> SUFFICES ASSUME NEW i \in 1 .. (Len(b) - Len(e1)), i <= Len(e2)
               PROVE  Drop(b, Len(e1))[i] = e2[i]
    BY <1>1, <1>3, DropFacts DEF Agrees
  <2>1. Drop(b, Len(e1))[i] = b[Len(e1) + i]
    BY <1>1, <1>3, DropFacts
  <2>2. (e1 \o e2)[Len(e1) + i] = e2[i]
    BY <1>1, ConcatFacts DEF ByteSeq
  <2>3. b[Len(e1) + i] = (e1 \o e2)[Len(e1) + i]
    BY <1>1, <1>3, ConcatFacts DEF Agrees, ByteSeq
  <2>4. QED
    BY <2>1, <2>2, <2>3
<1>4. QED
  BY <1>1, <1>2, <1>3, DropFacts

\* To take m bytes and then n is to take m + n.
LEMMA DropTwice ==
  ASSUME NEW b \in ByteSeq, NEW m \in Nat, NEW n \in Nat, m + n <= Len(b)
  PROVE  Drop(Drop(b, m), n) = Drop(b, m + n)
<1>1. /\ Len(b) \in Nat /\ m <= Len(b) /\ Drop(b, m) \in ByteSeq /\ Len(Drop(b, m)) = Len(b) - m
      /\ n <= Len(Drop(b, m))
  BY DropFacts DEF ByteSeq
<1>2. /\ Drop(Drop(b, m), n) \in ByteSeq /\ Len(Drop(Drop(b, m), n)) = Len(b) - m - n
      /\ Drop(b, m + n) \in ByteSeq /\ Len(Drop(b, m + n)) = Len(b) - (m + n)
  <2>1. /\ Drop(Drop(b, m), n) \in ByteSeq /\ Len(Drop(Drop(b, m), n)) = Len(b) - m - n
    BY <1>1, DropFacts
  <2>2. Drop(b, m + n) \in ByteSeq /\ Len(Drop(b, m + n)) = Len(b) - (m + n)
    BY <1>1, DropFacts
  <2>3. QED
    BY <2>1, <2>2
<1>3. ASSUME NEW i \in 1 .. (Len(b) - m - n)
      PROVE  Drop(Drop(b, m), n)[i] = Drop(b, m + n)[i]
  <2>1. Drop(Drop(b, m), n)[i] = Drop(b, m)[n + i]
    <3> DEFINE c == Drop(b, m)
    <3>1. c \in ByteSeq /\ n <= Len(c) /\ i \in 1 .. (Len(c) - n)
      BY <1>1, <1>3
    <3> HIDE DEF c
    <3>2. Drop(c, n)[i] = c[n + i]
      BY <3>1, DropFacts
    <3>3. QED
      BY <3>2 DEF c
  <2>2. Drop(b, m)[n + i] = b[m + (n + i)]
    BY <1>1, <1>3, DropFacts
  <2>3. Drop(b, m + n)[i] = b[(m + n) + i]
    BY <1>1, <1>3, DropFacts
  <2>4. QED
    BY <2>1, <2>2, <2>3
<1> DEFINE d == Drop(Drop(b, m), n)
           e == Drop(b, m + n)
<1> HIDE DEF d, e
<1>4. d \in Seq(Byte) /\ e \in Seq(Byte) /\ Len(d) = Len(e)
  BY <1>1, <1>2 DEF ByteSeq, d, e
<1>5. \A i \in 1 .. Len(d) : d[i] = e[i]
  BY <1>2, <1>3 DEF d, e
<1>6. d = e
  BY <1>4, <1>5, SeqEqual
<1>7. QED
  BY <1>6 DEF d, e

\* A decoder that reads one part and then another reads both.
LEMMA ThenReads ==
  ASSUME NEW b \in ByteSeq, NEW e1 \in ByteSeq, NEW e2 \in ByteSeq, NEW v1, NEW v2, NEW may \in BOOLEAN,
         NEW d1, NEW d2, Reads(d1, b, e1, v1, may),
         Len(e1) <= Len(b) => Reads(d2, Drop(b, Len(e1)), e2, v2, may)
  PROVE  Reads(IF d1.st = "ok" THEN d2 ELSE d1, b, e1 \o e2, v2, may)
<1>1. Len(b) \in Nat /\ Len(e1) \in Nat /\ Len(e2) \in Nat /\ Len(e1 \o e2) = Len(e1) + Len(e2)
  BY DEF ByteSeq
<1>2. CASE Len(e1) <= Len(b)
  <2>1. d1.st = "ok" /\ Len(Drop(b, Len(e1))) = Len(b) - Len(e1)
    BY <1>1, <1>2, DropFacts DEF Reads, Ok
  <2>2. Reads(d2, Drop(b, Len(e1)), e2, v2, may)
    BY <1>2
  <2>3. CASE Len(e2) <= Len(b) - Len(e1)
    <3>1. d2 = Ok(v2, Drop(Drop(b, Len(e1)), Len(e2)))
      BY <1>1, <2>1, <2>2, <2>3 DEF Reads
    <3>2. QED
      BY <1>1, <2>1, <2>3, <3>1, DropTwice DEF Reads
  <2>4. CASE ~(Len(e2) <= Len(b) - Len(e1))
    BY <1>1, <2>1, <2>2, <2>4 DEF Reads
  <2>5. QED
    BY <2>3, <2>4
<1>3. CASE ~(Len(e1) <= Len(b))
  <2>1. d1.st # "ok"
    BY <1>3 DEF Reads, More, Err
  <2>2. QED
    BY <1>1, <1>3, <2>1 DEF Reads
<1>4. QED
  BY <1>2, <1>3

-----------------------------------------------------------------------------
(* Primitives *)

\* A decoder that never misses a field is one that may.
LEMMA WeakenReads ==
  ASSUME NEW b, NEW e, NEW v, NEW d, NEW may \in BOOLEAN, Reads(d, b, e, v, FALSE)
  PROVE  Reads(d, b, e, v, may)
BY DEF Reads

\* What is read of an encoding that is there whole.
LEMMA ReadsWhole ==
  ASSUME NEW b, NEW e, NEW v, NEW d, NEW may \in BOOLEAN, Reads(d, b, e, v, may), Len(e) <= Len(b)
  PROVE  d = Ok(v, Drop(b, Len(e))) /\ d.st = "ok" /\ d.val = v /\ d.rest = Drop(b, Len(e))
BY DEF Reads, Ok

\* Of an encoding that is not there whole nothing is read, whatever was encoded.
LEMMA ReadsShort ==
  ASSUME NEW b, NEW e, NEW v, NEW d, NEW may \in BOOLEAN, Reads(d, b, e, v, may), ~(Len(e) <= Len(b))
  PROVE  d.st # "ok" /\ \A w : Reads(d, b, e, w, may)
<1>1. \/ \E n \in 1 .. (Len(e) - Len(b)) : d = More(n)
      \/ may /\ d = Err("MissingField")
  BY DEF Reads
<1>2. d.st # "ok"
  BY <1>1 DEF More, Err
<1>3. QED
  BY <1>1, <1>2 DEF Reads

\* decode_remaining: as many bytes as the encoding has.
LEMMA RemainingReads ==
  ASSUME NEW b \in ByteSeq, NEW e \in ByteSeq, Agrees(b, e)
  PROVE  Reads(decode_remaining(b, Len(e)), b, e, e, FALSE)
<1>1. Len(b) \in Nat /\ Len(e) \in Nat
  BY DEF ByteSeq
<1>2. CASE Len(b) < Len(e)
  BY <1>1, <1>2 DEF Reads, decode_remaining
<1>3. CASE ~(Len(b) < Len(e))
  <2>1. /\ SubSeq(b, 1, Len(e)) \in Seq(Byte) /\ Len(SubSeq(b, 1, Len(e))) = Len(e)
        /\ \A i \in 1 .. Len(e) : SubSeq(b, 1, Len(e))[i] = b[i]
    BY <1>1, <1>3 DEF ByteSeq
  <2>2. SubSeq(b, 1, Len(e)) = e
    BY <1>1, <1>3, <2>1, SeqEqual DEF ByteSeq, Agrees
  <2>3. Len(e) <= Len(b)
    BY <1>1, <1>3
  <2>4. decode_remaining(b, Len(e)) = Ok(e, Drop(b, Len(e)))
    BY <1>3, <2>2, Zenon DEF decode_remaining
  <2>5. QED
    BY <2>3, <2>4 DEF Reads
<1>4. QED
  BY <1>2, <1>3

\* The width of a varint holds its number and leaves two bits for the tag.
LEMMA WidthFacts ==
  ASSUME NEW x \in U64Value
  PROVE  /\ Width(x) \in {1, 2, 4, 8}
         /\ \A i \in 1 .. (8 - Width(x)) : x[i] = 0
         /\ x[9 - Width(x)] < 64
         /\ x \in [1..8 -> Byte] /\ x \in Seq(Byte) /\ Len(x) = 8
<1>1. x \in [1..8 -> Byte] /\ x[1] < 64
  BY DEF U64Value
<1>2. x \in Seq(Byte) /\ Len(x) = 8
  <2>1. x \in Seq(Byte)
    BY <1>1, SeqDef
  <2>2. Len(x) \in Nat /\ DOMAIN x = 1 .. Len(x) /\ DOMAIN x = 1 .. 8
    BY <1>1, <2>1, LenProperties
  <2>3. 8 \in 1 .. Len(x) /\ 9 \notin 1 .. Len(x)
    <3>1. 8 \in 1 .. 8 /\ 9 \notin 1 .. 8
      OBVIOUS
    <3>2. QED
      BY <2>2, <3>1, Zenon
  <2>4. QED
    BY <2>1, <2>2, <2>3
<1>3. \/ Width(x) = 1 /\ (\A i \in 1..7 : x[i] = 0) /\ x[8] < 64
      \/ Width(x) = 2 /\ (\A i \in 1..6 : x[i] = 0) /\ x[7] < 64
      \/ Width(x) = 4 /\ (\A i \in 1..4 : x[i] = 0) /\ x[5] < 64
      \/ Width(x) = 8
  BY <1>1 DEF Width
<1>4. QED
  BY <1>1, <1>2, <1>3

\* The two top bits, by the width.
Tag(w) == CASE w = 1 -> 0 [] w = 2 -> 64 [] w = 4 -> 128 [] w = 8 -> 192

\* The bytes of a varint: the tag on the first one, and the number.
LEMMA EncVarIntFacts ==
  ASSUME NEW x \in U64Value
  PROVE  LET w == Width(x) e == EncVarInt(x) IN
         /\ e \in ByteSeq /\ Len(e) = w
         /\ e[1] = x[9 - w] + Tag(w)
         /\ \A i \in 2 .. w : e[i] = x[8 - w + i]
<1> DEFINE w == Width(x)
           s == SubSeq(x, 9 - w, 8)
           e == [s EXCEPT ![1] = s[1] + Tag(w)]
<1>1. /\ w \in {1, 2, 4, 8} /\ x[9 - w] < 64
      /\ x \in [1..8 -> Byte] /\ x \in Seq(Byte) /\ Len(x) = 8
  BY WidthFacts
<1>2. EncVarInt(x) = e
  BY DEF EncVarInt, Tag
<1> HIDE DEF w
<1>3. s \in Seq(Byte) /\ Len(s) = w /\ \A i \in 1 .. w : s[i] = x[8 - w + i]
  BY <1>1
<1> HIDE DEF s
<1>4. s[1] = x[9 - w] /\ x[9 - w] \in 0 .. 63 /\ Tag(w) \in {0, 64, 128, 192}
  <2>1. 9 - w \in 1 .. 8 /\ 1 \in 1 .. w /\ 8 - w + 1 = 9 - w
    BY <1>1
  <2>2. x[9 - w] \in Byte
    BY <1>1, <2>1
  <2>3. s[1] = x[9 - w]
    BY <1>3, <2>1
  <2>4. x[9 - w] \in 0 .. 63
    <3>1. \A a \in Byte : a < 64 => a \in 0 .. 63
      BY DEF Byte
    <3>2. QED
      BY <1>1, <2>2, <3>1, Zenon
  <2>5. Tag(w) \in {0, 64, 128, 192}
    BY <1>1 DEF Tag
  <2>6. QED
    BY <2>3, <2>4, <2>5
<1>5. s[1] + Tag(w) \in Byte
  BY <1>4 DEF Byte
<1>6. /\ e \in Seq(Byte) /\ Len(e) = w
      /\ \A j \in 1 .. w : e[j] = IF j = 1 THEN s[1] + Tag(w) ELSE s[j]
  BY <1>1, <1>3, <1>5, ExceptSeq
<1> HIDE DEF e
<1>7. e[1] = x[9 - w] + Tag(w) /\ \A i \in 2 .. w : e[i] = x[8 - w + i]
  BY <1>1, <1>3, <1>4, <1>6
<1>8. QED
  BY <1>1, <1>2, <1>6, <1>7 DEF w, ByteSeq

\* DecVarInt, its two reads by name.
LEMMA UnfoldVarInt ==
  ASSUME NEW r, NEW d1, d1 = decode_remaining(r, 1), NEW w, w = <<1, 2, 4, 8>>[d1.val[1] \div 64 + 1],
         NEW d2, d2 = decode_remaining(d1.rest, w - 1)
  PROVE  DecVarInt(r) =
           IF d1.st = "ok"
           THEN IF d2.st = "ok"
                THEN Ok([i \in 1..(8 - w) |-> 0] \o <<d1.val[1] % 64>> \o d2.val, d2.rest)
                ELSE d2
           ELSE d1
<1> DEFINE Made(v, x, y) == Ok([i \in 1..(8 - v) |-> 0] \o <<x.val[1] % 64>> \o y.val, y.rest)
           Of(x) == <<1, 2, 4, 8>>[x.val[1] \div 64 + 1]
           Inner(x) == CHOOSE out \in {IF y.st = "ok" THEN Made(Of(x), x, y) ELSE y :
                                       y \in {decode_remaining(x.rest, Of(x) - 1)}} : TRUE
<1>1. DecVarInt(r) = CHOOSE out \in {IF x.st = "ok" THEN Inner(x) ELSE x : x \in {decode_remaining(r, 1)}} : TRUE
  BY DEF DecVarInt, Then
<1>2. w = Of(d1)
  OBVIOUS
<1> HIDE DEF Made, Of
<1>3. Inner(d1) = IF d2.st = "ok" THEN Made(w, d1, d2) ELSE d2
  <2>1. decode_remaining(d1.rest, Of(d1) - 1) = d2
    BY <1>2
  <2>2. Inner(d1) = IF d2.st = "ok" THEN Made(Of(d1), d1, d2) ELSE d2
    BY <2>1
  <2>3. QED
    BY <1>2, <2>2
<1> HIDE DEF Inner
<1>4. DecVarInt(r) = IF d1.st = "ok" THEN Inner(d1) ELSE d1
  BY <1>1, Zenon
<1>5. QED
  BY <1>3, <1>4, Zenon DEF Made

\* A varint is read back, whatever bytes come after it.
LEMMA VarIntReads ==
  ASSUME NEW b \in ByteSeq, NEW x \in U64Value, Agrees(b, EncVarInt(x))
  PROVE  Reads(DecVarInt(b), b, EncVarInt(x), x, FALSE)
<1> DEFINE w == Width(x)
           e == EncVarInt(x)
           e1 == <<e[1]>>
           e2 == SubSeq(e, 2, w)
           d1 == decode_remaining(b, 1)
           d2 == decode_remaining(d1.rest, w - 1)
           d3 == IF d2.st = "ok" THEN Ok([i \in 1..(8 - w) |-> 0] \o <<e[1] % 64>> \o d2.val, d2.rest)
                 ELSE d2
<1>1. /\ w \in {1, 2, 4, 8} /\ x[9 - w] < 64 /\ \A i \in 1 .. (8 - w) : x[i] = 0
      /\ x \in [1..8 -> Byte] /\ x \in Seq(Byte) /\ Len(x) = 8
  BY WidthFacts
<1>2. /\ e \in Seq(Byte) /\ Len(e) = w /\ e[1] = x[9 - w] + Tag(w)
      /\ \A i \in 2 .. w : e[i] = x[8 - w + i]
  BY EncVarIntFacts DEF ByteSeq
<1> HIDE DEF w, e
<1>3. x[9 - w] \in 0 .. 63
  <2>1. 9 - w \in 1 .. 8
    BY <1>1
  <2>2. x[9 - w] \in Byte
    BY <1>1, <2>1
  <2>3. \A a \in Byte : a < 64 => a \in 0 .. 63
    BY DEF Byte
  <2>4. QED
    BY <1>1, <2>2, <2>3, Zenon
<1>4. e[1] % 64 = x[9 - w] /\ <<1, 2, 4, 8>>[e[1] \div 64 + 1] = w
  <2> DEFINE a == x[9 - w]
  <2> HIDE DEF a
  <2>0. a \in 0 .. 63 /\ e[1] = a + Tag(w)
    BY <1>2, <1>3 DEF a
  <2>1. CASE w = 1
    BY <2>0, <2>1 DEF Tag, a
  <2>2. CASE w = 2
    <3>1. e[1] = a + 64 /\ (a + 64) % 64 = a /\ (a + 64) \div 64 = 1
      BY <2>0, <2>2 DEF Tag
    <3>2. QED
      BY <2>2, <3>1 DEF a
  <2>3. CASE w = 4
    <3>1. e[1] = a + 128 /\ (a + 128) % 64 = a /\ (a + 128) \div 64 = 2
      BY <2>0, <2>3 DEF Tag
    <3>2. QED
      BY <2>3, <3>1 DEF a
  <2>4. CASE w = 8
    <3>1. e[1] = a + 192 /\ (a + 192) % 64 = a /\ (a + 192) \div 64 = 3
      BY <2>0, <2>4 DEF Tag
    <3>2. QED
      BY <2>4, <3>1 DEF a
  <2>5. QED
    BY <1>1, <2>1, <2>2, <2>3, <2>4
<1>5. e1 \in Seq(Byte) /\ e2 \in Seq(Byte) /\ Len(e1) = 1 /\ Len(e2) = w - 1 /\ e1[1] = e[1]
      /\ \A i \in 1 .. (w - 1) : e2[i] = e[i + 1]
  BY <1>1, <1>2
<1>6. e1 \o e2 = e
  BY <1>1, <1>2, <1>5
<1> HIDE DEF e1, e2
<1>7. Agrees(b, e1) /\ (1 <= Len(b) => Drop(b, 1) \in ByteSeq /\ Agrees(Drop(b, 1), e2))
  <2>1. Agrees(b, e1 \o e2)
    BY <1>6 DEF e
  <2>2. e1 \in ByteSeq /\ e2 \in ByteSeq /\ Len(e1) = 1
    BY <1>5 DEF ByteSeq
  <2>3. Agrees(b, e1) /\ (Len(e1) <= Len(b) => Drop(b, Len(e1)) \in ByteSeq /\ Agrees(Drop(b, Len(e1)), e2))
    BY <2>1, <2>2, AgreesParts
  <2>4. QED
    BY <2>2, <2>3
<1>8. Reads(d1, b, e1, e1, FALSE)
  BY <1>5, <1>7, RemainingReads DEF ByteSeq
<1>9. [i \in 1..(8 - w) |-> 0] \o <<e[1] % 64>> \o e2 = x
  <2> DEFINE z == [i \in 1..(8 - w) |-> 0]
             y == z \o <<e[1] % 64>>
  <2>1. z \in Seq(Byte) /\ Len(z) = 8 - w /\ \A i \in 1 .. (8 - w) : z[i] = 0
    BY <1>1 DEF Byte
  <2>2. e[1] % 64 \in Byte
    BY <1>3, <1>4 DEF Byte
  <2> HIDE DEF z
  <2>3. /\ y \in Seq(Byte) /\ Len(y) = 9 - w /\ y[9 - w] = e[1] % 64
        /\ \A i \in 1 .. (8 - w) : y[i] = 0
    BY <1>1, <2>1, <2>2
  <2> HIDE DEF y
  <2>4. /\ y \o e2 \in Seq(Byte) /\ Len(y \o e2) = 8
        /\ \A i \in 1 .. 8 : (y \o e2)[i] = IF i <= 9 - w THEN y[i] ELSE e2[i - (9 - w)]
    <3>1. Len(y) + Len(e2) = 8
      BY <1>1, <1>5, <2>3
    <3>2. \A i \in 1 .. (Len(y) + Len(e2)) : (y \o e2)[i] = IF i <= Len(y) THEN y[i] ELSE e2[i - Len(y)]
      <4>1. y \in Seq(Byte) /\ e2 \in Seq(Byte)
        BY <1>5, <2>3
      <4>2. QED
        BY <4>1, ConcatProperties
    <3>3. y \o e2 \in Seq(Byte) /\ Len(y \o e2) = 8
      BY <1>5, <2>3, <3>1, ConcatProperties
    <3>4. \A i \in 1 .. 8 : (y \o e2)[i] = IF i <= Len(y) THEN y[i] ELSE e2[i - Len(y)]
      BY <3>1, <3>2
    <3>5. QED
      BY <2>3, <3>3, <3>4, Zenon
  <2>5. \A i \in 1 .. 8 : (y \o e2)[i] = x[i]
    <3> SUFFICES ASSUME NEW i \in 1 .. 8 PROVE (y \o e2)[i] = x[i]
      OBVIOUS
    <3>1. CASE i <= 8 - w
      <4>1. i <= 9 - w /\ i \in 1 .. (8 - w)
        BY <1>1, <3>1
      <4>2. QED
        BY <1>1, <2>3, <2>4, <4>1
    <3>2. CASE i = 9 - w
      BY <1>1, <1>4, <2>3, <2>4, <3>2
    <3>3. CASE i > 9 - w
      <4>1. (y \o e2)[i] = e2[i - (9 - w)] /\ i - (9 - w) \in 1 .. (w - 1)
        <5>1. ~(i <= 9 - w) /\ i - (9 - w) \in 1 .. (w - 1)
          BY <1>1, <3>3
        <5>2. QED
          BY <2>4, <5>1
      <4>2. e2[i - (9 - w)] = e[i - (9 - w) + 1] /\ i - (9 - w) + 1 \in 2 .. w
        BY <1>1, <1>5, <4>1
      <4>3. e[i - (9 - w) + 1] = x[8 - w + (i - (9 - w) + 1)]
        BY <1>2, <4>2
      <4>4. 8 - w + (i - (9 - w) + 1) = i
        BY <1>1
      <4>5. QED
        BY <4>1, <4>2, <4>3, <4>4
    <3>4. i <= 8 - w \/ i = 9 - w \/ i > 9 - w
      BY <1>1
    <3>5. QED
      BY <3>1, <3>2, <3>3, <3>4, Zenon
  <2>6. y \o e2 = x
    BY <1>1, <2>4, <2>5, SeqEqual
  <2>7. QED
    BY <2>6 DEF y, z
<1>10. ASSUME Len(e1) <= Len(b) PROVE Reads(d3, Drop(b, Len(e1)), e2, x, FALSE)
  <2>1. d1.rest = Drop(b, 1)
    BY <1>5, <1>8, <1>10 DEF Reads, Ok
  <2>2. Reads(d2, Drop(b, 1), e2, e2, FALSE)
    BY <1>5, <1>7, <1>10, <2>1, RemainingReads DEF ByteSeq
  <2>3. CASE Len(e2) <= Len(Drop(b, 1))
    <3>1. d2 = Ok(e2, Drop(Drop(b, 1), Len(e2)))
      BY <2>2, <2>3 DEF Reads
    <3>2. d2.st = "ok" /\ d2.val = e2 /\ d2.rest = Drop(Drop(b, 1), Len(e2))
      BY <3>1 DEF Ok
    <3>3. d3 = Ok(x, Drop(Drop(b, 1), Len(e2)))
      BY <1>9, <3>2, Zenon
    <3>4. QED
      BY <1>5, <2>3, <3>3 DEF Reads
  <2>4. CASE ~(Len(e2) <= Len(Drop(b, 1)))
    <3>1. d2.st # "ok" /\ Reads(d2, Drop(b, 1), e2, x, FALSE)
      BY <2>2, <2>4, ReadsShort
    <3>2. d3 = d2 /\ Drop(b, Len(e1)) = Drop(b, 1)
      BY <1>5, <3>1, Zenon
    <3>3. QED
      BY <3>1, <3>2, Zenon
  <2>5. QED
    BY <2>3, <2>4
<1>11. Reads(IF d1.st = "ok" THEN d3 ELSE d1, b, e1 \o e2, x, FALSE)
  BY <1>5, <1>8, <1>10, ThenReads DEF ByteSeq
<1>12. DecVarInt(b) = IF d1.st = "ok" THEN d3 ELSE d1
  <2>1. CASE d1.st = "ok"
    <3>1. d1.val[1] = e[1]
      BY <1>5, <1>8, <2>1 DEF Reads, Ok, More, Err
    <3>2. QED
      BY <1>4, <2>1, <3>1, UnfoldVarInt
  <2>2. CASE d1.st # "ok"
    BY <2>2, UnfoldVarInt
  <2>3. QED
    BY <2>1, <2>2
<1>13. QED
  BY <1>6, <1>11, <1>12 DEF e

\* A decoder that makes a value of the last thing it read.
LEMMA LastReads ==
  ASSUME NEW b \in ByteSeq, NEW e \in ByteSeq, NEW v, NEW w, NEW may \in BOOLEAN, NEW d, NEW g,
         Reads(d, b, e, v, may), d.val = v => g = Ok(w, d.rest)
  PROVE  Reads(IF d.st = "ok" THEN g ELSE d, b, e, w, may)
<1>1. CASE Len(e) <= Len(b)
  <2>1. d.st = "ok" /\ d.val = v /\ d.rest = Drop(b, Len(e))
    BY <1>1, ReadsWhole
  <2>2. QED
    BY <1>1, <2>1 DEF Reads
<1>2. CASE ~(Len(e) <= Len(b))
  BY <1>2, ReadsShort
<1>3. QED
  BY <1>1, <1>2

\* A number below Limit survives the conversion to eight bytes and back.
LEMMA U64Facts ==
  ASSUME NEW n \in Nat, n < Limit
  PROVE  U64(n) \in U64Value /\ Number(U64(n)) = n
<1> DEFINE x == U64(n)
<1>1. n \div 65536 \in 0 .. 255 /\ (n \div 256) % 256 \in 0 .. 255 /\ n % 256 \in 0 .. 255
  BY SMT DEF Limit
<1>2. (n \div 65536) * 65536 + ((n \div 256) % 256) * 256 + (n % 256) = n
  BY SMT DEF Limit
<1>3. x = <<0, 0, 0, 0, 0, n \div 65536, (n \div 256) % 256, n % 256>>
  BY DEF U64
<1> HIDE DEF x
<1>4. /\ x \in [1..8 -> Byte]
      /\ x[1] = 0 /\ x[2] = 0 /\ x[3] = 0 /\ x[4] = 0 /\ x[5] = 0
      /\ x[6] = n \div 65536 /\ x[7] = (n \div 256) % 256 /\ x[8] = n % 256
  BY <1>1, <1>3 DEF Byte
<1>5. Number(x) = x[6] * 65536 + x[7] * 256 + x[8]
  BY <1>4 DEF Number
<1>6. QED
  BY <1>2, <1>4, <1>5 DEF U64Value, x

\* A varint is some bytes.
LEMMA VarIntBytes ==
  ASSUME NEW x \in U64Value
  PROVE  EncVarInt(x) \in ByteSeq /\ Len(EncVarInt(x)) \in Nat /\ Len(EncVarInt(x)) >= 1
BY EncVarIntFacts, WidthFacts

\* DecSize by the varint it reads.
LEMMA UnfoldSize ==
  ASSUME NEW r
  PROVE  DecSize(r) = IF DecVarInt(r).st = "ok" THEN Ok(Number(DecVarInt(r).val), DecVarInt(r).rest)
                      ELSE DecVarInt(r)
BY DEF DecSize, Then

\* A usize is read back.
LEMMA SizeReads ==
  ASSUME NEW b \in ByteSeq, NEW n \in Nat, n < Limit, Agrees(b, EncVarInt(U64(n)))
  PROVE  Reads(DecSize(b), b, EncVarInt(U64(n)), n, FALSE)
<1>1. U64(n) \in U64Value /\ Number(U64(n)) = n
  BY U64Facts
<1>2. Reads(DecVarInt(b), b, EncVarInt(U64(n)), U64(n), FALSE) /\ EncVarInt(U64(n)) \in ByteSeq
  BY <1>1, VarIntReads, VarIntBytes
<1> DEFINE d == DecVarInt(b)
           g == Ok(Number(d.val), d.rest)
<1>3. d.val = U64(n) => g = Ok(n, d.rest)
  BY <1>1
<1>4. DecSize(b) = IF d.st = "ok" THEN g ELSE d
  BY UnfoldSize
<1> HIDE DEF d, g
<1>5. Reads(IF d.st = "ok" THEN g ELSE d, b, EncVarInt(U64(n)), n, FALSE)
  BY <1>2, <1>3, LastReads DEF d
<1>6. QED
  BY <1>4, <1>5

\* The encoding of a usize is some bytes.
SizeBytes(n) == EncVarInt(U64(n)) \in ByteSeq /\ Len(EncVarInt(U64(n))) \in Nat /\ Len(EncVarInt(U64(n))) >= 1

\* That is so for every usize that encode is given.
LEMMA SizeFacts ==
  ASSUME NEW n \in Nat, n < Limit
  PROVE  SizeBytes(n)
BY U64Facts, VarIntBytes DEF SizeBytes

\* A byte is read back.
LEMMA U8Reads ==
  ASSUME NEW b \in ByteSeq, NEW x \in Byte, Agrees(b, <<x>>)
  PROVE  Reads(DecU8(b), b, <<x>>, x, FALSE)
<1> DEFINE d == decode_remaining(b, 1)
<1>1. <<x>> \in ByteSeq /\ Len(<<x>>) = 1 /\ <<x>>[1] = x
  BY DEF ByteSeq
<1>2. Reads(d, b, <<x>>, <<x>>, FALSE)
  BY <1>1, RemainingReads
<1>3. DecU8(b) = IF d.st = "ok" THEN Ok(d.val[1], d.rest) ELSE d
  BY DEF DecU8, Then
<1>4. d.val = <<x>> => Ok(d.val[1], d.rest) = Ok(x, d.rest)
  BY <1>1
<1> HIDE DEF d
<1>5. QED
  BY <1>1, <1>2, <1>3, <1>4, LastReads

\* A string, a length and that many bytes, is read back.
LEMMA BytesReads ==
  ASSUME NEW s \in StringValue
  PROVE  /\ EncBytes(s) \in ByteSeq /\ Len(EncBytes(s)) \in Nat /\ Len(EncBytes(s)) >= 1
         /\ \A b \in ByteSeq : Agrees(b, EncBytes(s)) => Reads(DecBytes(b), b, EncBytes(s), s, FALSE)
<1> DEFINE e1 == EncVarInt(U64(Len(s)))
<1>1. s \in ByteSeq /\ Len(s) \in Nat /\ Len(s) < Limit
  BY DEF StringValue, ByteSeq
<1>2. e1 \in ByteSeq /\ Len(e1) \in Nat /\ Len(e1) >= 1
  BY <1>1, SizeFacts DEF SizeBytes
<1>3. EncBytes(s) = e1 \o s
  BY DEF EncBytes
<1>4. EncBytes(s) \in ByteSeq /\ Len(EncBytes(s)) \in Nat /\ Len(EncBytes(s)) >= 1
  BY <1>1, <1>2, <1>3, ConcatFacts DEF ByteSeq
<1>5. ASSUME NEW b \in ByteSeq, Agrees(b, EncBytes(s))
      PROVE  Reads(DecBytes(b), b, EncBytes(s), s, FALSE)
  <2> DEFINE d1 == DecSize(b)
             d2 == decode_remaining(d1.rest, d1.val)
  <2>1. Agrees(b, e1) /\ (Len(e1) <= Len(b) => Drop(b, Len(e1)) \in ByteSeq /\ Agrees(Drop(b, Len(e1)), s))
    BY <1>1, <1>2, <1>3, <1>5, AgreesParts
  <2>2. Reads(d1, b, e1, Len(s), FALSE)
    BY <1>1, <2>1, SizeReads
  <2>4. DecBytes(b) = IF d1.st = "ok" THEN d2 ELSE d1
    BY DEF DecBytes, Then
  <2> HIDE DEF d1, e1
  <2>3. ASSUME Len(e1) <= Len(b) PROVE Reads(d2, Drop(b, Len(e1)), s, s, FALSE)
    <3>0. d1 = Ok(Len(s), Drop(b, Len(e1)))
      BY <2>2, <2>3 DEF Reads
    <3>1. d1.val = Len(s) /\ d1.rest = Drop(b, Len(e1))
      BY <3>0 DEF Ok
    <3>2. QED
      BY <1>1, <2>1, <2>3, <3>1, RemainingReads
  <2> HIDE DEF d2
  <2>5. Reads(IF d1.st = "ok" THEN d2 ELSE d1, b, e1 \o s, s, FALSE)
    BY <1>1, <1>2, <2>2, <2>3, ThenReads
  <2>6. QED
    BY <1>3, <2>4, <2>5
<1>6. QED
  BY <1>4, <1>5

\* A decoder that makes a value of two things it read.
LEMMA TwoReads ==
  ASSUME NEW b \in ByteSeq, NEW e1 \in ByteSeq, NEW e2 \in ByteSeq, NEW v1, NEW v2, NEW w,
         NEW may \in BOOLEAN, NEW d1, NEW d2, NEW g, Reads(d1, b, e1, v1, may),
         Len(e1) <= Len(b) => Reads(d2, Drop(b, Len(e1)), e2, v2, may),
         d1.val = v1 /\ d2.val = v2 => g = Ok(w, d2.rest)
  PROVE  Reads(IF d1.st = "ok" THEN (IF d2.st = "ok" THEN g ELSE d2) ELSE d1, b, e1 \o e2, w, may)
<1>1. CASE Len(e1) <= Len(b)
  <2>1. d1 = Ok(v1, Drop(b, Len(e1)))
    BY <1>1 DEF Reads
  <2>2. d1.val = v1
    BY <2>1 DEF Ok
  <2>3. Reads(IF d2.st = "ok" THEN g ELSE d2, Drop(b, Len(e1)), e2, w, may)
    <3>1. Drop(b, Len(e1)) \in ByteSeq
      BY <1>1, DropFacts DEF ByteSeq
    <3>2. d2.val = v2 => g = Ok(w, d2.rest)
      BY <2>2
    <3>3. QED
      BY <1>1, <3>1, <3>2, LastReads
  <2>4. QED
    BY <2>3, ThenReads
<1>2. CASE ~(Len(e1) <= Len(b))
  <2>1. d1.st # "ok"
    BY <1>2 DEF Reads, More, Err
  <2>2. Len(b) \in Nat /\ Len(e1) \in Nat /\ Len(e2) \in Nat /\ Len(e1 \o e2) = Len(e1) + Len(e2)
    BY DEF ByteSeq
  <2>3. QED
    BY <1>2, <2>1, <2>2 DEF Reads
<1>3. QED
  BY <1>1, <1>2

\* A check that the value is a known one lets a known one pass.
LEMMA EnumReads ==
  ASSUME NEW b \in ByteSeq, NEW e \in ByteSeq, NEW v, NEW values, v \in values, NEW d, NEW why,
         Reads(d, b, e, v, FALSE)
  PROVE  Reads(Enum(d, values, why), b, e, v, FALSE)
<1> DEFINE g == IF d.val \in values THEN Ok(d.val, d.rest) ELSE Err(why)
<1>1. Enum(d, values, why) = IF d.st = "ok" THEN g ELSE d
  BY DEF Enum, Then
<1>2. d.val = v => g = Ok(v, d.rest)
  OBVIOUS
<1> HIDE DEF g
<1>3. CASE Len(e) <= Len(b)
  <2>1. d = Ok(v, Drop(b, Len(e)))
    BY <1>3 DEF Reads
  <2>2. d.st = "ok" /\ g = Ok(v, Drop(b, Len(e)))
    BY <1>2, <2>1 DEF Ok
  <2>3. QED
    BY <1>1, <1>3, <2>2 DEF Reads
<1>4. CASE ~(Len(e) <= Len(b))
  <2>1. d.st # "ok"
    BY <1>4 DEF Reads, More, Err
  <2>2. QED
    BY <1>1, <1>4, <2>1 DEF Reads
<1>5. QED
  BY <1>3, <1>4

\* An encoding: some bytes.
Encoded(e) == e \in ByteSeq /\ Len(e) \in Nat /\ Len(e) >= 1

\* Two encodings in a row are one.
LEMMA TwoEncoded ==
  ASSUME NEW e1, NEW e2, Encoded(e1), Encoded(e2)
  PROVE  Encoded(e1 \o e2) /\ Len(e1 \o e2) = Len(e1) + Len(e2)
BY ConcatFacts DEF Encoded, ByteSeq

\* A usize has an encoding.
LEMMA SizeEncoded ==
  ASSUME NEW n \in Nat, n < Limit
  PROVE  Encoded(EncVarInt(U64(n)))
BY SizeFacts DEF SizeBytes, Encoded

\* A u64 has an encoding.
LEMMA VarIntEncoded ==
  ASSUME NEW x \in U64Value
  PROVE  Encoded(EncVarInt(x))
BY VarIntBytes DEF Encoded

\* Every code of an enum is below Limit.
LEMMA LimitFacts == 256 < Limit
BY SMT DEF Limit

\* A start or an end of a range is read back.
LEMMA LocationReads ==
  ASSUME NEW l \in LocationValue
  PROVE  /\ Encoded(EncLocation(l))
         /\ \A b \in ByteSeq : Agrees(b, EncLocation(l)) => Reads(DecLocation(b), b, EncLocation(l), l, FALSE)
<1>1. CASE l = None
  <2> DEFINE e == EncVarInt(U64(0))
  <2>1. EncLocation(l) = e
    BY <1>1 DEF EncLocation
  <2>2. 0 \in Nat /\ 0 < Limit
    BY LimitFacts, SMT DEF Limit
  <2>3. Encoded(e)
    BY <2>2, SizeEncoded
  <2>4. ASSUME NEW b \in ByteSeq, Agrees(b, e) PROVE Reads(DecLocation(b), b, e, l, FALSE)
    <3> DEFINE d == DecSize(b)
               g == DecLocation(b)
    <3>1. Reads(d, b, e, 0, FALSE)
      BY <2>2, <2>4, SizeReads
    <3>2. d.st # "ok" => g = d
      BY DEF DecLocation, Then
    <3>3. d.st = "ok" /\ d.val = 0 => g = Ok(None, d.rest)
      BY DEF DecLocation, Then
    <3> HIDE DEF d, g, e
    <3>4. ASSUME Len(e) <= Len(b) PROVE Reads(g, b, e, l, FALSE)
      <4>1. d = Ok(0, Drop(b, Len(e)))
        BY <3>1, <3>4 DEF Reads
      <4>2. g = Ok(None, Drop(b, Len(e)))
        BY <3>3, <4>1 DEF Ok
      <4>3. QED
        BY <1>1, <3>4, <4>2 DEF Reads
    <3>5. ASSUME ~(Len(e) <= Len(b)) PROVE Reads(g, b, e, l, FALSE)
      <4>1. d.st # "ok"
        BY <3>1, <3>5 DEF Reads, More, Err
      <4>2. QED
        BY <3>1, <3>2, <3>5, <4>1 DEF Reads
    <3>6. QED
      BY <3>4, <3>5 DEF g
  <2>5. QED
    BY <2>1, <2>3, <2>4
<1>2. CASE l # None
  <2> DEFINE e1 == EncVarInt(U64(l[1]))
             e2 == EncVarInt(l[2])
  <2>1. l[1] \in 1 .. 3 /\ l[2] \in U64Value /\ l = <<l[1], l[2]>>
    BY <1>2 DEF LocationValue
  <2>2. EncLocation(l) = e1 \o e2
    BY <1>2 DEF EncLocation
  <2>3. l[1] \in Nat /\ l[1] < Limit
    BY <2>1, LimitFacts, SMT DEF Limit
  <2>4. Encoded(e1) /\ Encoded(e2)
    BY <2>1, <2>3, SizeEncoded, VarIntEncoded
  <2>5. ASSUME NEW b \in ByteSeq, Agrees(b, e1 \o e2) PROVE Reads(DecLocation(b), b, e1 \o e2, l, FALSE)
    <3> DEFINE d1 == DecSize(b)
               d2 == DecVarInt(d1.rest)
               g == Ok(<<d1.val, d2.val>>, d2.rest)
    <3>1. Agrees(b, e1) /\ (Len(e1) <= Len(b) => Drop(b, Len(e1)) \in ByteSeq /\ Agrees(Drop(b, Len(e1)), e2))
      BY <2>4, <2>5, AgreesParts DEF Encoded
    <3>2. Reads(d1, b, e1, l[1], FALSE)
      BY <2>3, <3>1, SizeReads
    <3>3. ASSUME Len(e1) <= Len(b) PROVE Reads(d2, Drop(b, Len(e1)), e2, l[2], FALSE)
      <4>1. d1 = Ok(l[1], Drop(b, Len(e1)))
        BY <3>2, <3>3 DEF Reads
      <4>2. d1.rest = Drop(b, Len(e1))
        BY <4>1 DEF Ok
      <4>3. QED
        BY <2>1, <3>1, <3>3, <4>2, VarIntReads
    <3>4. d1.st # "ok" => DecLocation(b) = d1
      BY DEF DecLocation, Then
    <3>5. d1.st = "ok" /\ d1.val \in 1 .. 3 => DecLocation(b) = IF d2.st = "ok" THEN g ELSE d2
      BY DEF DecLocation, Then
    <3>6. d1.val = l[1] /\ d2.val = l[2] => g = Ok(l, d2.rest)
      BY <2>1
    <3> HIDE DEF d1, d2, g, e1, e2
    <3>7. Reads(IF d1.st = "ok" THEN (IF d2.st = "ok" THEN g ELSE d2) ELSE d1, b, e1 \o e2, l, FALSE)
      BY <2>4, <3>2, <3>3, <3>6, TwoReads DEF Encoded
    <3>8. d1.st = "ok" => d1.val \in 1 .. 3
      <4>1. CASE Len(e1) <= Len(b)
        BY <2>1, <3>2, <4>1 DEF Reads, Ok
      <4>2. CASE ~(Len(e1) <= Len(b))
        BY <3>2, <4>2 DEF Reads, More, Err
      <4>3. QED
        BY <4>1, <4>2
    <3>9. QED
      BY <3>4, <3>5, <3>7, <3>8
  <2>6. QED
    BY <2>2, <2>4, <2>5, TwoEncoded
<1>3. QED
  BY <1>1, <1>2

\* A pair, of group and object, is read back.
LEMMA PairReads ==
  ASSUME NEW p \in PairValue
  PROVE  /\ Encoded(EncPair(p)) /\ Len(EncPair(p)) >= 2
         /\ \A b \in ByteSeq : Agrees(b, EncPair(p)) => Reads(DecPair(b), b, EncPair(p), p, FALSE)
<1> DEFINE e1 == EncLocation(p[1])
           e2 == EncLocation(p[2])
<1>1. p[1] \in LocationValue /\ p[2] \in LocationValue /\ p = <<p[1], p[2]>>
  BY DEF PairValue
<1>2. Encoded(e1) /\ Encoded(e2) /\ EncPair(p) = e1 \o e2
  BY <1>1, LocationReads DEF EncPair
<1>3. ASSUME NEW b \in ByteSeq, Agrees(b, e1 \o e2) PROVE Reads(DecPair(b), b, e1 \o e2, p, FALSE)
  <2> DEFINE d1 == DecLocation(b)
             d2 == DecLocation(d1.rest)
             g == Ok(<<d1.val, d2.val>>, d2.rest)
  <2>1. Agrees(b, e1) /\ (Len(e1) <= Len(b) => Drop(b, Len(e1)) \in ByteSeq /\ Agrees(Drop(b, Len(e1)), e2))
    BY <1>2, <1>3, AgreesParts DEF Encoded
  <2>2. Reads(d1, b, e1, p[1], FALSE)
    BY <1>1, <2>1, LocationReads
  <2>3. ASSUME Len(e1) <= Len(b) PROVE Reads(d2, Drop(b, Len(e1)), e2, p[2], FALSE)
    <3>1. d1 = Ok(p[1], Drop(b, Len(e1)))
      BY <2>2, <2>3 DEF Reads
    <3>2. d1.rest = Drop(b, Len(e1))
      BY <3>1 DEF Ok
    <3>3. QED
      BY <1>1, <2>1, <2>3, <3>2, LocationReads
  <2>4. DecPair(b) = IF d1.st = "ok" THEN (IF d2.st = "ok" THEN g ELSE d2) ELSE d1
    BY DEF DecPair, Then
  <2>5. d1.val = p[1] /\ d2.val = p[2] => g = Ok(p, d2.rest)
    BY <1>1
  <2> HIDE DEF d1, d2, g, e1, e2
  <2>6. Reads(IF d1.st = "ok" THEN (IF d2.st = "ok" THEN g ELSE d2) ELSE d1, b, e1 \o e2, p, FALSE)
    BY <1>2, <2>2, <2>3, <2>5, TwoReads DEF Encoded
  <2>7. QED
    BY <2>4, <2>6
<1>4. Encoded(e1 \o e2) /\ Len(e1 \o e2) >= 2
  BY <1>2, TwoEncoded DEF Encoded
<1>5. QED
  BY <1>2, <1>3, <1>4

\* A byte is below Limit.
LEMMA SmallSize ==
  ASSUME NEW n \in 0 .. 255
  PROVE  n \in Nat /\ n < Limit
BY LimitFacts, SMT DEF Limit

\* A filter type is read back.
LEMMA FilterReads ==
  ASSUME NEW f \in 1 .. 4
  PROVE  /\ Encoded(EncVarInt(U64(f)))
         /\ \A b \in ByteSeq : Agrees(b, EncVarInt(U64(f)))
              => Reads(DecFilterType(b), b, EncVarInt(U64(f)), f, FALSE)
<1>1. f \in Nat /\ f < Limit
  BY SmallSize
<1>2. Encoded(EncVarInt(U64(f)))
  BY <1>1, SizeEncoded
<1>3. ASSUME NEW b \in ByteSeq, Agrees(b, EncVarInt(U64(f)))
      PROVE  Reads(DecFilterType(b), b, EncVarInt(U64(f)), f, FALSE)
  <2>1. Reads(DecSize(b), b, EncVarInt(U64(f)), f, FALSE)
    BY <1>1, <1>3, SizeReads
  <2>2. f \in LatestGroup .. AbsoluteRange
    BY DEF LatestGroup, AbsoluteRange
  <2>3. QED
    BY <1>2, <2>1, <2>2, EnumReads DEF DecFilterType, Encoded
<1>4. QED
  BY <1>2, <1>3

\* The two pairs of an absolute range, once there are four bytes.
LEMMA RangeReads ==
  ASSUME NEW s \in PairValue, NEW t \in PairValue, ~BadPair(s), ~BadPair(t),
         NEW b \in ByteSeq, Agrees(b, EncPair(s) \o EncPair(t)), NEW f, NEW d1, NEW d2,
         d1 = DecPair(b), d2 = DecPair(d1.rest)
  PROVE  Reads(IF d1.st = "ok" THEN (IF d2.st = "ok" THEN CheckWindow(<<f, d1.val, d2.val>>, d2.rest) ELSE d2) ELSE d1,
               b, EncPair(s) \o EncPair(t), <<f, s, t>>, FALSE)
<1> DEFINE e1 == EncPair(s)
           e2 == EncPair(t)
           g == CheckWindow(<<f, d1.val, d2.val>>, d2.rest)
<1>1. Encoded(e1) /\ Encoded(e2)
  BY PairReads
<1>2. Agrees(b, e1) /\ (Len(e1) <= Len(b) => Drop(b, Len(e1)) \in ByteSeq /\ Agrees(Drop(b, Len(e1)), e2))
  BY <1>1, AgreesParts DEF Encoded
<1>3. Reads(d1, b, e1, s, FALSE)
  BY <1>2, PairReads
<1>4. ASSUME Len(e1) <= Len(b) PROVE Reads(d2, Drop(b, Len(e1)), e2, t, FALSE)
  <2>1. d1 = Ok(s, Drop(b, Len(e1)))
    BY <1>3, <1>4 DEF Reads
  <2>2. d1.rest = Drop(b, Len(e1))
    BY <2>1 DEF Ok
  <2>3. QED
    BY <1>2, <1>4, <2>2, PairReads
<1>5. d1.val = s /\ d2.val = t => g = Ok(<<f, s, t>>, d2.rest)
  BY DEF CheckWindow
<1>6. e1 \in ByteSeq /\ e2 \in ByteSeq
  BY <1>1 DEF Encoded
<1> HIDE DEF e1, e2, g
<1>7. ASSUME NEW x1, NEW x2, x1 = d1, x2 = d2
      PROVE  Reads(IF x1.st = "ok" THEN (IF x2.st = "ok" THEN g ELSE x2) ELSE x1, b, e1 \o e2, <<f, s, t>>, FALSE)
  <2>1. /\ Reads(x1, b, e1, s, FALSE) /\ (Len(e1) <= Len(b) => Reads(x2, Drop(b, Len(e1)), e2, t, FALSE))
        /\ x1.val = s /\ x2.val = t => g = Ok(<<f, s, t>>, x2.rest)
    BY <1>3, <1>4, <1>5, <1>7
  <2>2. QED
    BY <1>6, <2>1, TwoReads, Zenon
<1>8. QED
  BY <1>7 DEF e1, e2, g

\* DecRange by the two pairs it reads.
LEMMA UnfoldRange ==
  ASSUME NEW f, NEW r, NEW d1, d1 = DecPair(r), NEW d2, d2 = DecPair(d1.rest)
  PROVE  DecRange(f, r) =
           IF Len(r) < 4 THEN Err("MissingField")
           ELSE IF d1.st = "ok" THEN (IF d2.st = "ok" THEN CheckWindow(<<f, d1.val, d2.val>>, d2.rest) ELSE d2)
                ELSE d1
<1>1. Then(DecPair(r), LAMBDA s, rest : Then(DecPair(rest), LAMBDA e, rest2 : CheckWindow(<<f, s, e>>, rest2)))
        = IF d1.st = "ok" THEN (IF d2.st = "ok" THEN CheckWindow(<<f, d1.val, d2.val>>, d2.rest) ELSE d2)
          ELSE d1
  BY DEF Then
<1>2. QED
  BY <1>1 DEF DecRange

\* A window is read back, but for AbsoluteStart; one that has not arrived whole may miss a field.
LEMMA WindowReads ==
  ASSUME NEW w \in WindowValue
  PROVE  /\ Encoded(EncWindow(w))
         /\ w[1] # AbsoluteStart => \A b \in ByteSeq : Agrees(b, EncWindow(w))
              => Reads(DecWindow(b), b, EncWindow(w), w, w[1] = AbsoluteRange)
<1> DEFINE f == w[1]
           e1 == EncVarInt(U64(f))
<1>1. CASE w \in {<<k, None, None>> : k \in {LatestGroup, LatestObject}}
  <2>1. f \in {1, 2} /\ w = <<f, None, None>>
    BY <1>1 DEF LatestGroup, LatestObject
  <2>2. f \notin {AbsoluteStart, AbsoluteRange} /\ f \in 1 .. 4
    BY <2>1 DEF AbsoluteStart, AbsoluteRange
  <2>3. Encoded(e1)
    BY <2>2, FilterReads
  <2>4. EncWindow(w) = e1
    <3>1. EncWindow(w) = e1 \o <<>>
      BY <2>2 DEF EncWindow
    <3>2. QED
      BY <2>3, <3>1, ConcatEmptySeq DEF Encoded, ByteSeq
  <2>5. ASSUME NEW b \in ByteSeq, Agrees(b, e1) PROVE Reads(DecWindow(b), b, e1, w, FALSE)
    <3> DEFINE d == DecFilterType(b)
               g == DecWindow(b)
    <3>1. Reads(d, b, e1, f, FALSE)
      BY <2>2, <2>5, FilterReads
    <3>2. d.st # "ok" => g = d
      BY DEF DecWindow, Then
    <3>3. d.st = "ok" /\ d.val \notin {AbsoluteStart, AbsoluteRange} => g = Ok(<<d.val, None, None>>, d.rest)
      BY DEF DecWindow, Then
    <3> HIDE DEF d, g, e1, f
    <3>4. ASSUME Len(e1) <= Len(b) PROVE Reads(g, b, e1, w, FALSE)
      <4>1. d = Ok(f, Drop(b, Len(e1)))
        BY <3>1, <3>4 DEF Reads
      <4>2. d.st = "ok" /\ d.val = f /\ d.rest = Drop(b, Len(e1))
        BY <4>1 DEF Ok
      <4>3. g = Ok(w, Drop(b, Len(e1)))
        BY <2>1, <2>2, <3>3, <4>2
      <4>4. QED
        BY <3>4, <4>3 DEF Reads
    <3>5. ASSUME ~(Len(e1) <= Len(b)) PROVE Reads(g, b, e1, w, FALSE)
      <4>1. d.st # "ok"
        BY <3>1, <3>5 DEF Reads, More, Err
      <4>2. QED
        BY <3>1, <3>2, <3>5, <4>1 DEF Reads
    <3>6. QED
      BY <3>4, <3>5 DEF g
  <2>6. (w[1] = AbsoluteRange) = FALSE
    BY <2>2
  <2>7. QED
    BY <2>3, <2>4, <2>5, <2>6
<1>2. CASE w \in {AbsoluteStart, AbsoluteRange} \X PairValue \X PairValue /\ ~BadPair(w[2]) /\ ~BadPair(w[3])
  <2> DEFINE s == w[2]
             t == w[3]
             e2 == EncPair(s) \o EncPair(t)
  <2>1. f \in {AbsoluteStart, AbsoluteRange} /\ s \in PairValue /\ t \in PairValue /\ w = <<f, s, t>>
    BY <1>2
  <2>2. f \in 1 .. 4
    BY <2>1 DEF AbsoluteStart, AbsoluteRange
  <2>3. Encoded(e1)
    BY <2>2, FilterReads
  <2>4. Encoded(e2) /\ Len(e2) >= 4
    <3>1. Encoded(EncPair(s)) /\ Encoded(EncPair(t)) /\ Len(EncPair(s)) >= 2 /\ Len(EncPair(t)) >= 2
      BY <2>1, PairReads
    <3>2. QED
      BY <3>1, TwoEncoded DEF Encoded
  <2>5. EncWindow(w) = e1 \o e2
    BY <2>1 DEF EncWindow
  <2>6. ASSUME NEW b \in ByteSeq, Agrees(b, e1 \o e2), f = AbsoluteRange
        PROVE  Reads(DecWindow(b), b, e1 \o e2, w, TRUE)
    <3> DEFINE d == DecFilterType(b)
               d1 == DecPair(d.rest)
               d2 == DecPair(d1.rest)
               g == IF d1.st = "ok" THEN (IF d2.st = "ok" THEN CheckWindow(<<f, d1.val, d2.val>>, d2.rest) ELSE d2) ELSE d1
               h == IF Len(d.rest) < 4 THEN Err("MissingField") ELSE g
    <3>1. Agrees(b, e1) /\ (Len(e1) <= Len(b) => Drop(b, Len(e1)) \in ByteSeq /\ Agrees(Drop(b, Len(e1)), e2))
      BY <2>3, <2>4, <2>6, AgreesParts DEF Encoded
    <3>2. Reads(d, b, e1, f, FALSE)
      BY <2>2, <3>1, FilterReads
    <3>3. Reads(d, b, e1, f, TRUE)
      BY <3>2 DEF Reads
    <3>4. ASSUME Len(e1) <= Len(b) PROVE Reads(h, Drop(b, Len(e1)), e2, w, TRUE)
      <4>1. d = Ok(f, Drop(b, Len(e1)))
        BY <3>2, <3>4 DEF Reads
      <4>2. d.rest = Drop(b, Len(e1))
        BY <4>1 DEF Ok
      <4>3. Reads(g, Drop(b, Len(e1)), e2, w, FALSE)
        BY <1>2, <2>1, <3>1, <3>4, <4>2, RangeReads
      <4> HIDE DEF g, e2, e1, d
      <4>4. Len(Drop(b, Len(e1))) \in Nat /\ Len(e2) \in Nat
        BY <2>4, <3>1, <3>4 DEF ByteSeq, Encoded
      <4>5. CASE Len(d.rest) < 4
        BY <2>4, <4>2, <4>4, <4>5 DEF Reads
      <4>6. CASE ~(Len(d.rest) < 4)
        BY <4>3, <4>6 DEF Reads
      <4>7. QED
        BY <4>5, <4>6
    <3>5. d.st # "ok" => DecWindow(b) = d
      BY DEF DecWindow, Then
    <3>6. d.st = "ok" /\ d.val = AbsoluteRange => DecWindow(b) = h
      <4> SUFFICES ASSUME d.st = "ok", d.val = AbsoluteRange PROVE DecWindow(b) = h
        OBVIOUS
      <4>1. AbsoluteRange # AbsoluteStart /\ d.val = f
        BY <2>6 DEF AbsoluteRange, AbsoluteStart
      <4>2. DecWindow(b) = DecRange(f, d.rest)
        BY <4>1, Zenon DEF DecWindow, Then
      <4>3. DecRange(f, d.rest) = h
        <5> HIDE DEF d
        <5>1. QED
          BY UnfoldRange, Zenon
      <4>4. QED
        BY <4>2, <4>3
    <3> HIDE DEF d, h, e1, e2, f
    <3>7. Reads(IF d.st = "ok" THEN h ELSE d, b, e1 \o e2, w, TRUE)
      BY <2>3, <2>4, <3>3, <3>4, ThenReads DEF Encoded
    <3>8. d.st = "ok" => d.val = f
      <4>1. CASE Len(e1) <= Len(b)
        BY <3>2, <4>1 DEF Reads, Ok
      <4>2. CASE ~(Len(e1) <= Len(b))
        BY <3>2, <4>2 DEF Reads, More, Err
      <4>3. QED
        BY <4>1, <4>2
    <3>9. QED
      BY <2>6, <3>5, <3>6, <3>7, <3>8
  <2>7. w[1] # AbsoluteStart => w[1] = AbsoluteRange
    BY <2>1
  <2>8. QED
    BY <2>3, <2>4, <2>5, <2>6, <2>7, TwoEncoded
<1>3. QED
  BY <1>1, <1>2 DEF WindowValue

\* A decoder that reads a first part and goes on with the rest.
LEMMA HeadReads ==
  ASSUME NEW b \in ByteSeq, NEW e1 \in ByteSeq, NEW e2 \in ByteSeq, NEW v, NEW w, NEW may \in BOOLEAN,
         NEW h, NEW d, Reads(h, b, e1, v, may), h.st # "ok" => d = h,
         Len(e1) <= Len(b) /\ h.st = "ok" /\ h.val = v /\ h.rest = Drop(b, Len(e1))
           => Reads(d, Drop(b, Len(e1)), e2, w, may)
  PROVE  Reads(d, b, e1 \o e2, w, may)
<1>1. CASE Len(e1) <= Len(b)
  <2>1. h = Ok(v, Drop(b, Len(e1)))
    BY <1>1 DEF Reads
  <2>2. h.st = "ok" /\ h.val = v /\ h.rest = Drop(b, Len(e1))
    BY <2>1 DEF Ok
  <2>3. Reads(d, Drop(b, Len(e1)), e2, w, may)
    BY <1>1, <2>2
  <2>4. Reads(IF h.st = "ok" THEN d ELSE h, b, e1 \o e2, w, may)
    BY <2>3, ThenReads
  <2>5. QED
    BY <2>2, <2>4
<1>2. CASE ~(Len(e1) <= Len(b))
  <2>1. h.st # "ok"
    BY <1>2 DEF Reads, More, Err
  <2>2. Len(b) \in Nat /\ Len(e1) \in Nat /\ Len(e2) \in Nat /\ Len(e1 \o e2) = Len(e1) + Len(e2)
    BY DEF ByteSeq
  <2>3. QED
    BY <1>2, <2>1, <2>2 DEF Reads
<1>3. QED
  BY <1>1, <1>2

\* A decoder that makes something of what it read.
LEMMA OnlyReads ==
  ASSUME NEW b \in ByteSeq, NEW e \in ByteSeq, NEW v, NEW w, NEW may \in BOOLEAN,
         NEW h, NEW d, Reads(h, b, e, v, may), h.st # "ok" => d = h,
         Len(e) <= Len(b) /\ h.st = "ok" /\ h.val = v /\ h.rest = Drop(b, Len(e))
           => d = Ok(w, Drop(b, Len(e)))
  PROVE  Reads(d, b, e, w, may)
<1>1. CASE Len(e) <= Len(b)
  <2>1. h = Ok(v, Drop(b, Len(e)))
    BY <1>1 DEF Reads
  <2>2. h.st = "ok" /\ h.val = v /\ h.rest = Drop(b, Len(e))
    BY <2>1 DEF Ok
  <2>3. QED
    BY <1>1, <2>2 DEF Reads
<1>2. CASE ~(Len(e) <= Len(b))
  <2>1. h.st # "ok"
    BY <1>2 DEF Reads, More, Err
  <2>2. QED
    BY <1>2, <2>1 DEF Reads
<1>3. QED
  BY <1>1, <1>2

\* The ids behind a flag are read back.
LEMMA IdsReads ==
  ASSUME NEW o \in IdsValue
  PROVE  /\ Encoded(EncIds(o))
         /\ \A b \in ByteSeq : Agrees(b, EncIds(o)) => Reads(DecIds(b), b, EncIds(o), o, FALSE)
<1> DEFINE e1 == EncVarInt(o[1])
           e2 == EncVarInt(o[2])
<1>1. o[1] \in U64Value /\ o[2] \in U64Value /\ o = <<o[1], o[2]>>
  BY DEF IdsValue
<1>2. Encoded(e1) /\ Encoded(e2) /\ EncIds(o) = e1 \o e2
  BY <1>1, VarIntEncoded DEF EncIds
<1>3. ASSUME NEW b \in ByteSeq, Agrees(b, e1 \o e2) PROVE Reads(DecIds(b), b, e1 \o e2, o, FALSE)
  <2> DEFINE d1 == DecVarInt(b)
             d2 == DecVarInt(d1.rest)
             g == Ok(<<d1.val, d2.val>>, d2.rest)
  <2>1. Agrees(b, e1) /\ (Len(e1) <= Len(b) => Drop(b, Len(e1)) \in ByteSeq /\ Agrees(Drop(b, Len(e1)), e2))
    BY <1>2, <1>3, AgreesParts DEF Encoded
  <2>2. Reads(d1, b, e1, o[1], FALSE)
    BY <1>1, <2>1, VarIntReads
  <2>3. ASSUME Len(e1) <= Len(b) PROVE Reads(d2, Drop(b, Len(e1)), e2, o[2], FALSE)
    <3>1. d1 = Ok(o[1], Drop(b, Len(e1)))
      BY <2>2, <2>3 DEF Reads
    <3>2. d1.rest = Drop(b, Len(e1))
      BY <3>1 DEF Ok
    <3>3. QED
      BY <1>1, <2>1, <2>3, <3>2, VarIntReads
  <2>4. DecIds(b) = IF d1.st = "ok" THEN (IF d2.st = "ok" THEN g ELSE d2) ELSE d1
    BY DEF DecIds, Then
  <2>5. d1.val = o[1] /\ d2.val = o[2] => g = Ok(o, d2.rest)
    BY <1>1
  <2> HIDE DEF d1, d2, g, e1, e2
  <2>6. Reads(IF d1.st = "ok" THEN (IF d2.st = "ok" THEN g ELSE d2) ELSE d1, b, e1 \o e2, o, FALSE)
    BY <1>2, <2>2, <2>3, <2>5, TwoReads DEF Encoded
  <2>7. QED
    BY <2>4, <2>6
<1>4. QED
  BY <1>2, <1>3, TwoEncoded

\* A byte is an encoding.
LEMMA ByteEncoded ==
  ASSUME NEW x \in Byte
  PROVE  Encoded(<<x>>) /\ <<x>> \in ByteSeq
BY DEF Encoded, ByteSeq

\* An option, the flag and what is behind it, is read back.
LEMMA OptionReads ==
  ASSUME NEW o \in OptionValue
  PROVE  /\ Encoded(EncOption(o))
         /\ \A b \in ByteSeq : Agrees(b, EncOption(o)) => Reads(DecOption(b), b, EncOption(o), o, FALSE)
<1>0. Encoded(<< 0 >>) /\ Encoded(<< 1 >>) /\ 0 \in Byte /\ 1 \in Byte
  <2>1. 0 \in Byte /\ 1 \in Byte
    BY DEF Byte
  <2>2. QED
    BY <2>1, ByteEncoded
<1>1. CASE o = None
  <2>1. EncOption(o) = << 0 >>
    BY <1>1 DEF EncOption
  <2>2. ASSUME NEW b \in ByteSeq, Agrees(b, << 0 >>) PROVE Reads(DecOption(b), b, << 0 >>, o, FALSE)
    <3> DEFINE h == DecU8(b)
               d == DecOption(b)
               e == << 0 >>
    <3>1. Reads(h, b, e, 0, FALSE) /\ e \in ByteSeq
      BY <1>0, <2>2, U8Reads, ByteEncoded
    <3>2. h.st # "ok" => d = h
      BY DEF DecOption, Then
    <3>3. h.st = "ok" /\ h.val = 0 => d = Ok(None, h.rest)
      BY DEF DecOption, Then
    <3> HIDE DEF h, d, e
    <3>4. Reads(d, b, e, o, FALSE)
      BY <1>1, <3>1, <3>2, <3>3, OnlyReads
    <3>5. QED
      BY <3>4 DEF d, e
  <2>3. QED
    BY <1>0, <2>1, <2>2
<1>2. CASE o # None
  <2> DEFINE e1 == << 1 >>
             e2 == EncIds(o)
  <2>1. o \in IdsValue
    BY <1>2 DEF OptionValue
  <2>2. Encoded(e1) /\ Encoded(e2) /\ EncOption(o) = e1 \o e2
    BY <1>0, <1>2, <2>1, IdsReads DEF EncOption
  <2>3. ASSUME NEW b \in ByteSeq, Agrees(b, e1 \o e2) PROVE Reads(DecOption(b), b, e1 \o e2, o, FALSE)
    <3> DEFINE h == DecU8(b)
               d == DecOption(b)
    <3>1. Agrees(b, e1) /\ (Len(e1) <= Len(b) => Drop(b, Len(e1)) \in ByteSeq /\ Agrees(Drop(b, Len(e1)), e2))
      BY <2>2, <2>3, AgreesParts DEF Encoded
    <3>2. Reads(h, b, e1, 1, FALSE)
      BY <1>0, <3>1, U8Reads
    <3>3. h.st # "ok" => d = h
      BY DEF DecOption, Then
    <3>4. h.st = "ok" /\ h.val = 1 => d = DecIds(h.rest)
      BY DEF DecOption, Then
    <3> HIDE DEF h, d, e1
    <3>5. Len(e1) <= Len(b) /\ h.st = "ok" /\ h.val = 1 /\ h.rest = Drop(b, Len(e1))
           => Reads(d, Drop(b, Len(e1)), e2, o, FALSE)
      BY <2>1, <3>1, <3>4, IdsReads
    <3> HIDE DEF e2
    <3>6. Reads(d, b, e1 \o e2, o, FALSE)
      BY <2>2, <3>2, <3>3, <3>5, HeadReads DEF Encoded
    <3>7. QED
      BY <3>6 DEF d
  <2>4. QED
    BY <2>2, <2>3, TwoEncoded
<1>3. QED
  BY <1>1, <1>2

\* An enum that is sent as a number.
LEMMA CodeReads ==
  ASSUME NEW n \in 0 .. 255, NEW values, n \in values, NEW why
  PROVE  /\ Encoded(EncVarInt(U64(n)))
         /\ \A b \in ByteSeq : Agrees(b, EncVarInt(U64(n)))
              => Reads(Enum(DecSize(b), values, why), b, EncVarInt(U64(n)), n, FALSE)
<1>1. n \in Nat /\ n < Limit
  BY SmallSize
<1>2. Encoded(EncVarInt(U64(n)))
  BY <1>1, SizeEncoded
<1>3. ASSUME NEW b \in ByteSeq, Agrees(b, EncVarInt(U64(n)))
      PROVE  Reads(Enum(DecSize(b), values, why), b, EncVarInt(U64(n)), n, FALSE)
  BY <1>1, <1>2, <1>3, SizeReads, EnumReads DEF Encoded
<1>4. QED
  BY <1>2, <1>3

\* The status of an object is read back.
LEMMA StatusReads ==
  ASSUME NEW st \in ObjectStatus
  PROVE  /\ Encoded(EncVarInt(U64(st)))
         /\ \A b \in ByteSeq : Agrees(b, EncVarInt(U64(st)))
              => Reads(DecStatus(b), b, EncVarInt(U64(st)), st, FALSE)
<1>1. st \in 0 .. 255
  BY DEF ObjectStatus
<1>2. QED
  BY <1>1, CodeReads DEF DecStatus

\* The size of an object, and its status if it is empty, are read back.
LEMMA SizedReads ==
  ASSUME NEW s \in SizedValue
  PROVE  /\ Encoded(EncSized(s))
         /\ \A b \in ByteSeq : Agrees(b, EncSized(s)) => Reads(DecSized(b), b, EncSized(s), s, FALSE)
<1> DEFINE e1 == EncVarInt(U64(s[1]))
<1>1. s[1] \in Nat /\ s[1] < Limit /\ s[2] \in ObjectStatus /\ s = <<s[1], s[2]>> /\ (s[1] > 0 => s[2] = 0)
  BY DEF SizedValue
<1>2. Encoded(e1)
  BY <1>1, SizeEncoded
<1>3. CASE s[1] > 0
  <2>1. EncSized(s) = e1
    <3>0. s[1] # 0
      BY <1>1, <1>3
    <3>1. EncSized(s) = e1 \o <<>>
      BY <3>0, Zenon DEF EncSized
    <3>2. QED
      BY <1>2, <3>1, ConcatEmptySeq DEF Encoded, ByteSeq
  <2>2. ASSUME NEW b \in ByteSeq, Agrees(b, e1) PROVE Reads(DecSized(b), b, e1, s, FALSE)
    <3> DEFINE h == DecSize(b)
               d == DecSized(b)
    <3>1. Reads(h, b, e1, s[1], FALSE) /\ e1 \in ByteSeq
      BY <1>1, <1>2, <2>2, SizeReads DEF Encoded
    <3>2. h.st # "ok" => d = h
      BY DEF DecSized, Then
    <3>3. h.st = "ok" /\ h.val > 0 => d = Ok(<<h.val, 0>>, h.rest)
      BY DEF DecSized, Then
    <3> HIDE DEF h, d, e1
    <3>4. Len(e1) <= Len(b) /\ h.st = "ok" /\ h.val = s[1] /\ h.rest = Drop(b, Len(e1))
           => d = Ok(s, Drop(b, Len(e1)))
      BY <1>1, <1>3, <3>3
    <3>5. Reads(d, b, e1, s, FALSE)
      BY <3>1, <3>2, <3>4, OnlyReads
    <3>6. QED
      BY <3>5 DEF d
  <2>3. QED
    BY <1>2, <2>1, <2>2
<1>4. CASE s[1] = 0
  <2> DEFINE e2 == EncVarInt(U64(s[2]))
  <2>1. Encoded(e2) /\ EncSized(s) = e1 \o e2
    BY <1>1, <1>4, StatusReads DEF EncSized
  <2>2. ASSUME NEW b \in ByteSeq, Agrees(b, e1 \o e2) PROVE Reads(DecSized(b), b, e1 \o e2, s, FALSE)
    <3> DEFINE d1 == DecSize(b)
               d2 == DecStatus(d1.rest)
               g == Ok(<<d1.val, d2.val>>, d2.rest)
               d == DecSized(b)
    <3>1. Agrees(b, e1) /\ (Len(e1) <= Len(b) => Drop(b, Len(e1)) \in ByteSeq /\ Agrees(Drop(b, Len(e1)), e2))
      BY <1>2, <2>1, <2>2, AgreesParts DEF Encoded
    <3>2. Reads(d1, b, e1, s[1], FALSE)
      BY <1>1, <3>1, SizeReads
    <3>3. d1.st # "ok" => d = d1
      BY DEF DecSized, Then
    <3>4. d1.st = "ok" /\ d1.val = 0 => d = IF d2.st = "ok" THEN g ELSE d2
      BY DEF DecSized, Then
    <3>5. d1.val = s[1] /\ d2.val = s[2] => g = Ok(s, d2.rest)
      BY <1>1
    <3>6. ASSUME Len(e1) <= Len(b), d1.rest = Drop(b, Len(e1)) PROVE Reads(d2, Drop(b, Len(e1)), e2, s[2], FALSE)
      BY <1>1, <3>1, <3>6, StatusReads
    <3> HIDE DEF d1, d, d2, g, e1, e2
    <3>7. ASSUME Len(e1) <= Len(b), d1.st = "ok", d1.val = s[1], d1.rest = Drop(b, Len(e1))
          PROVE  Reads(d, Drop(b, Len(e1)), e2, s, FALSE)
      <4>1. Reads(d2, Drop(b, Len(e1)), e2, s[2], FALSE)
        BY <3>6, <3>7
      <4>2. d2.val = s[2] => g = Ok(s, d2.rest)
        BY <3>5, <3>7
      <4>3. Reads(IF d2.st = "ok" THEN g ELSE d2, Drop(b, Len(e1)), e2, s, FALSE)
        BY <2>1, <3>1, <3>7, <4>1, <4>2, LastReads DEF Encoded
      <4>4. QED
        BY <1>4, <3>4, <3>7, <4>3
    <3>8. Reads(d, b, e1 \o e2, s, FALSE)
      BY <1>2, <2>1, <3>2, <3>3, <3>7, HeadReads DEF Encoded
    <3>9. QED
      BY <3>8 DEF d
  <2>3. QED
    BY <1>2, <2>1, <2>2, TwoEncoded
<1>5. s[1] > 0 \/ s[1] = 0
  BY <1>1
<1>6. QED
  BY <1>3, <1>4, <1>5

\* A group order is read back.
LEMMA OrderReads ==
  ASSUME NEW x \in GroupOrder
  PROVE  /\ Encoded(<<x>>)
         /\ \A b \in ByteSeq : Agrees(b, <<x>>)
              => Reads(Enum(DecU8(b), GroupOrder, "InvalidGroupOrder"), b, <<x>>, x, FALSE)
<1>1. x \in Byte
  BY DEF GroupOrder, Byte
<1>2. QED
  BY <1>1, ByteEncoded, U8Reads, EnumReads

-----------------------------------------------------------------------------
(* Lists *)

\* The first i of the parts, joined.
Joined(f, seqs) ==
  /\ f \in [0 .. Len(seqs) -> ByteSeq] /\ f[0] = <<>>
  /\ \A i \in 1 .. Len(seqs) : f[i] = f[i - 1] \o seqs[i]

\* The function by which FlattenSeq joins sequences exists.
LEMMA FlattenExists ==
  ASSUME NEW seqs, seqs \in Seq(ByteSeq)
  PROVE  \E f : f = [i \in 1 .. Len(seqs) |-> IF i = 1 THEN seqs[i] ELSE f[i - 1] \o seqs[i]]
<1> DEFINE Good(f, k) == /\ f \in [1 .. k -> ByteSeq]
                         /\ \A i \in 1 .. k : f[i] = IF i = 1 THEN seqs[i] ELSE f[i - 1] \o seqs[i]
           T == {k \in Nat : k <= Len(seqs) => \E f : Good(f, k)}
<1>0. Len(seqs) \in Nat /\ \A i \in 1 .. Len(seqs) : seqs[i] \in ByteSeq
  OBVIOUS
<1>1. 0 \in T
  <2>1. Good([i \in 1 .. 0 |-> <<>>], 0)
    OBVIOUS
  <2>2. QED
    BY <2>1, Zenon
<1>2. ASSUME NEW k \in Nat, k \in T PROVE k + 1 \in T
  <2> SUFFICES ASSUME k + 1 <= Len(seqs) PROVE \E f : Good(f, k + 1)
    BY <1>0
  <2>1. PICK f : Good(f, k)
    BY <1>0, <1>2
  <2>2. k + 1 \in 1 .. Len(seqs) /\ seqs[k + 1] \in ByteSeq
    BY <1>0
  <2> DEFINE last == IF k = 0 THEN seqs[1] ELSE f[k] \o seqs[k + 1]
             g == [i \in 1 .. (k + 1) |-> IF i <= k THEN f[i] ELSE last]
  <2>3. last \in ByteSeq
    <3>1. CASE k = 0
      BY <2>2, <3>1
    <3>2. CASE k # 0
      <4>1. f[k] \in ByteSeq
        BY <2>1, <3>2
      <4>2. QED
        BY <2>2, <3>2, <4>1, ConcatFacts DEF ByteSeq
    <3>3. QED
      BY <3>1, <3>2
  <2>4. last = IF k + 1 = 1 THEN seqs[k + 1] ELSE f[k] \o seqs[k + 1]
    OBVIOUS
  <2> HIDE DEF last
  <2>5. g \in [1 .. (k + 1) -> ByteSeq]
    BY <2>1, <2>3
  <2>6. ASSUME NEW i \in 1 .. (k + 1) PROVE g[i] = IF i = 1 THEN seqs[i] ELSE g[i - 1] \o seqs[i]
    <3>1. CASE i <= k
      <4>1. i \in 1 .. k /\ g[i] = f[i] /\ (i # 1 => g[i - 1] = f[i - 1])
        BY <3>1
      <4>2. f[i] = IF i = 1 THEN seqs[i] ELSE f[i - 1] \o seqs[i]
        BY <2>1, <4>1
      <4>3. QED
        BY <4>1, <4>2
    <3>2. CASE ~(i <= k)
      <4>1. i = k + 1 /\ g[i] = last /\ (i # 1 => g[i - 1] = f[k])
        BY <3>2
      <4>2. QED
        BY <2>4, <4>1
    <3>3. QED
      BY <3>1, <3>2
  <2>7. Good(g, k + 1)
    BY <2>5, <2>6
  <2>8. QED
    BY <2>7
<1> HIDE DEF T
<1>3. Len(seqs) \in T
  BY <1>0, <1>1, <1>2, Induction
<1>4. PICK f : Good(f, Len(seqs))
  BY <1>0, <1>3 DEF T
<1>5. f = [i \in 1 .. Len(seqs) |-> IF i = 1 THEN seqs[i] ELSE f[i - 1] \o seqs[i]]
  BY <1>4
<1>6. QED
  BY <1>4, <1>5

\* FlattenSeq is the last value of that function.
LEMMA FlattenParts ==
  ASSUME NEW seqs, seqs \in Seq(ByteSeq)
  PROVE  \E f : Joined(f, seqs) /\ FlattenSeq(seqs) = f[Len(seqs)]
<1> DEFINE n == Len(seqs)
           Is(g) == g = [i \in 1 .. n |-> IF i = 1 THEN seqs[i] ELSE g[i - 1] \o seqs[i]]
           fl == CHOOSE g : Is(g)
<1>0. n \in Nat /\ \A i \in 1 .. n : seqs[i] \in ByteSeq
  OBVIOUS
<1>1. CASE n = 0
  <2>1. seqs = <<>> /\ FlattenSeq(seqs) = seqs
    BY <1>1, EmptySeq DEF FlattenSeq
  <2>2. <<>> \in ByteSeq
    BY DEF ByteSeq
  <2>3. Joined([i \in 0 .. 0 |-> <<>>], seqs)
    BY <1>1, <2>2 DEF Joined
  <2>4. QED
    BY <1>1, <2>1, <2>3
<1>2. CASE n # 0
  <2>1. \E g : Is(g)
    BY FlattenExists, Zenon
  <2>2. Is(fl)
    BY <2>1, Zenon
  <2>3. FlattenSeq(seqs) = fl[n]
    BY <1>2, Zenon DEF FlattenSeq
  <2> HIDE DEF fl
  <2>4. \A i \in 1 .. n : fl[i] = IF i = 1 THEN seqs[i] ELSE fl[i - 1] \o seqs[i]
    <3>1. ASSUME NEW i \in 1 .. n
          PROVE  [j \in 1 .. n |-> IF j = 1 THEN seqs[j] ELSE fl[j - 1] \o seqs[j]][i] =
                   IF i = 1 THEN seqs[i] ELSE fl[i - 1] \o seqs[i]
      BY <3>1, Zenon
    <3>2. QED
      BY <2>2, <3>1, Zenon
  <2> HIDE DEF Is
  <2> DEFINE T == {k \in Nat : k + 1 <= n => fl[k + 1] \in ByteSeq}
             f == [i \in 0 .. n |-> IF i = 0 THEN <<>> ELSE fl[i]]
  <2>5. \A k \in 1 .. n : fl[k] \in ByteSeq
    <3>1. 0 \in T
      <4>1. 1 \in 1 .. n /\ fl[1] = seqs[1]
        BY <1>0, <1>2, <2>4
      <4>2. QED
        BY <1>0, <4>1
    <3>2. ASSUME NEW k \in Nat, k \in T PROVE k + 1 \in T
      <4> SUFFICES ASSUME (k + 1) + 1 <= n PROVE fl[(k + 1) + 1] \in ByteSeq
        OBVIOUS
      <4>1. k + 1 <= n /\ (k + 1) + 1 \in 1 .. n /\ (k + 1) + 1 # 1 /\ ((k + 1) + 1) - 1 = k + 1
        BY <1>0
      <4>2. fl[(k + 1) + 1] = fl[k + 1] \o seqs[(k + 1) + 1]
        BY <2>4, <4>1
      <4>3. fl[k + 1] \in ByteSeq /\ seqs[(k + 1) + 1] \in ByteSeq
        BY <1>0, <3>2, <4>1
      <4>4. QED
        BY <4>2, <4>3, ConcatFacts DEF ByteSeq
    <3> HIDE DEF T
    <3>3. Nat \subseteq T
      BY <3>1, <3>2, Induction
    <3>4. ASSUME NEW k \in 1 .. n PROVE fl[k] \in ByteSeq
      <4>1. k - 1 \in Nat /\ (k - 1) + 1 = k /\ k <= n
        BY <1>0
      <4>2. k - 1 \in T
        BY <3>3, <4>1
      <4>3. QED
        BY <4>1, <4>2 DEF T
    <3>5. QED
      BY <3>4
  <2>6. <<>> \in ByteSeq
    BY DEF ByteSeq
  <2>7. f \in [0 .. n -> ByteSeq] /\ f[0] = <<>> /\ f[n] = fl[n] /\ \A i \in 1 .. n : f[i] = fl[i]
    BY <1>0, <1>2, <2>5, <2>6
  <2>8. ASSUME NEW i \in 1 .. n PROVE f[i] = f[i - 1] \o seqs[i]
    <3>1. CASE i = 1
      <4>1. f[i] = seqs[i] /\ f[i - 1] = <<>> /\ seqs[i] \in Seq(Byte)
        BY <1>0, <2>4, <2>7, <3>1 DEF ByteSeq
      <4>2. QED
        BY <4>1, ConcatEmptySeq
    <3>2. CASE i # 1
      <4>1. i - 1 \in 1 .. n
        BY <1>0, <3>2
      <4>2. QED
        BY <2>4, <2>7, <3>2, <4>1
    <3>3. QED
      BY <3>1, <3>2
  <2> HIDE DEF f
  <2>9. Joined(f, seqs)
    BY <2>7, <2>8 DEF Joined
  <2>10. QED
    BY <2>3, <2>7, <2>9
<1>3. QED
  BY <1>1, <1>2

\* The parts in front are a prefix, and every part is a byte at least.
LEMMA JoinedFacts ==
  ASSUME NEW seqs, seqs \in Seq(ByteSeq), \A i \in 1 .. Len(seqs) : Len(seqs[i]) >= 1,
         NEW f, Joined(f, seqs), NEW i \in 0 .. Len(seqs), NEW j \in 0 .. Len(seqs), i <= j
  PROVE  /\ f[i] \in ByteSeq /\ f[j] \in ByteSeq /\ Len(f[i]) + (j - i) <= Len(f[j])
         /\ \A k \in 1 .. Len(f[i]) : f[j][k] = f[i][k]
<1> DEFINE n == Len(seqs)
           Good(k) == Len(f[i]) + k <= Len(f[i + k]) /\ \A l \in 1 .. Len(f[i]) : f[i + k][l] = f[i][l]
           T == {k \in Nat : i + k <= n => Good(k)}
<1>0. n \in Nat /\ i \in Nat /\ j \in Nat /\ \A k \in 1 .. n : seqs[k] \in ByteSeq
  OBVIOUS
<1>1. \A k \in 0 .. n : f[k] \in ByteSeq /\ Len(f[k]) \in Nat
  BY DEF Joined, ByteSeq
<1>2. 0 \in T
  BY <1>0, <1>1
<1>3. ASSUME NEW k \in Nat, k \in T PROVE k + 1 \in T
  <2> SUFFICES ASSUME i + (k + 1) <= n PROVE Good(k + 1)
    <3>1. k + 1 \in Nat
      OBVIOUS
    <3>2. QED
      BY <3>1, Zenon
  <2>1. Good(k)
    BY <1>0, <1>3
  <2>2. /\ i + (k + 1) \in 1 .. n /\ (i + (k + 1)) - 1 = i + k /\ i + k \in 0 .. n
    BY <1>0
  <2> DEFINE a == f[i + k]
             c == seqs[i + (k + 1)]
  <2>3. f[i + (k + 1)] = a \o c
    BY <2>2 DEF Joined
  <2>4. a \in Seq(Byte) /\ c \in Seq(Byte) /\ Len(c) >= 1
    BY <1>0, <1>1, <2>2 DEF ByteSeq
  <2>5. Len(f[i]) \in Nat
    BY <1>0, <1>1
  <2>6. Len(f[i]) + k <= Len(a) /\ \A l \in 1 .. Len(f[i]) : a[l] = f[i][l]
    BY <2>1
  <2> HIDE DEF a, c
  <2>7. Len(a \o c) = Len(a) + Len(c) /\ Len(a) \in Nat /\ Len(c) \in Nat /\ \A l \in 1 .. Len(a) : (a \o c)[l] = a[l]
    BY <2>4, ConcatFacts
  <2>8. Len(f[i]) + (k + 1) <= Len(a \o c) /\ \A l \in 1 .. Len(f[i]) : (a \o c)[l] = f[i][l]
    <3>1. Len(f[i]) + (k + 1) <= Len(a \o c)
      <4>1. \A x, y, z \in Nat : x + k <= y /\ z >= 1 => x + (k + 1) <= y + z
        OBVIOUS
      <4>2. QED
        BY <2>4, <2>5, <2>6, <2>7, <4>1, Zenon
    <3>2. ASSUME NEW l \in 1 .. Len(f[i]) PROVE (a \o c)[l] = f[i][l]
      <4>1. l \in 1 .. Len(a)
        BY <2>5, <2>6, <2>7
      <4>2. QED
        BY <2>6, <2>7, <4>1
    <3>3. QED
      BY <3>1, <3>2
  <2>9. QED
    BY <2>3, <2>8
<1> HIDE DEF T
<1>4. Nat \subseteq T
  BY <1>2, <1>3, Induction
<1>5. j - i \in Nat /\ i + (j - i) = j /\ j <= n
  BY <1>0
<1>6. Good(j - i)
  BY <1>4, <1>5 DEF T
<1>7. QED
  BY <1>1, <1>5, <1>6

\* A value more is read back behind the ones before it.
LEMMA AppendReads ==
  ASSUME NEW b \in ByteSeq, NEW e1 \in ByteSeq, NEW e2 \in ByteSeq, NEW vs, NEW v, NEW may \in BOOLEAN,
         NEW acc, NEW h, NEW d, Reads(acc, b, e1, vs, may), acc.st # "ok" => d = acc,
         Len(e1) <= Len(b) /\ acc.st = "ok" /\ acc.val = vs /\ acc.rest = Drop(b, Len(e1))
           => /\ Reads(h, Drop(b, Len(e1)), e2, v, may)
              /\ d = IF h.st = "ok" THEN Ok(Append(vs, h.val), h.rest) ELSE h
  PROVE  Reads(d, b, e1 \o e2, Append(vs, v), may)
<1>1. ASSUME Len(e1) <= Len(b), acc.st = "ok", acc.val = vs, acc.rest = Drop(b, Len(e1))
      PROVE  Reads(d, Drop(b, Len(e1)), e2, Append(vs, v), may)
  <2> DEFINE g == Ok(Append(vs, h.val), h.rest)
             r == Drop(b, Len(e1))
  <2>1. Reads(h, r, e2, v, may) /\ d = IF h.st = "ok" THEN g ELSE h
    BY <1>1
  <2>2. h.val = v => g = Ok(Append(vs, v), h.rest)
    OBVIOUS
  <2>3. r \in ByteSeq
    BY <1>1, DropFacts DEF ByteSeq
  <2> HIDE DEF g, r
  <2>4. Reads(IF h.st = "ok" THEN g ELSE h, r, e2, Append(vs, v), may)
    BY <2>1, <2>2, <2>3, LastReads
  <2>5. QED
    BY <2>1, <2>4 DEF r
<1>2. QED
  BY <1>1, HeadReads

\* u is the loop that reads one value after the other.
Looped(u, kind, base, n) ==
  u = [i \in 0 .. n |-> IF i = 0 THEN base ELSE AndOne(kind, u[i - 1])]

\* The recursive function of the loop over values exists.
LEMMA ManyExists ==
  ASSUME NEW kind, NEW base, NEW n \in Nat
  PROVE  \E u : Looped(u, kind, base, n)
<1> DEFINE Good(u, k) == u = [i \in 0 .. k |-> IF i = 0 THEN base ELSE AndOne(kind, u[i - 1])]
           T == {k \in Nat : \E u : Good(u, k)}
<1>1. 0 \in T
  <2>1. Good([i \in 0 .. 0 |-> base], 0)
    OBVIOUS
  <2>2. QED
    BY <2>1, Zenon
<1>2. ASSUME NEW k \in Nat, k \in T PROVE k + 1 \in T
  <2>1. PICK u : Good(u, k)
    BY <1>2
  <2> DEFINE g == [i \in 0 .. (k + 1) |-> IF i <= k THEN u[i] ELSE AndOne(kind, u[k])]
  <2>2. \A i \in 0 .. k : u[i] = IF i = 0 THEN base ELSE AndOne(kind, u[i - 1])
    BY <2>1
  <2>3. ASSUME NEW i \in 0 .. (k + 1) PROVE g[i] = IF i = 0 THEN base ELSE AndOne(kind, g[i - 1])
    <3>1. CASE i <= k
      <4>1. i \in 0 .. k /\ g[i] = u[i] /\ (i # 0 => g[i - 1] = u[i - 1])
        BY <3>1
      <4>2. QED
        BY <2>2, <4>1
    <3>2. CASE ~(i <= k)
      <4>1. i # 0 /\ g[i] = AndOne(kind, u[k]) /\ g[i - 1] = u[k]
        BY <3>2
      <4>2. QED
        BY <4>1
    <3>3. QED
      BY <3>1, <3>2
  <2>4. Good(g, k + 1)
    <3>1. g = [i \in 0 .. (k + 1) |-> g[i]]
      OBVIOUS
    <3> HIDE DEF g
    <3>2. QED
      BY <2>3, <3>1
  <2> HIDE DEF g, Good
  <2>5. k + 1 \in Nat
    OBVIOUS
  <2>6. QED
    BY <2>4, <2>5, Zenon
<1> HIDE DEF T
<1>3. n \in T
  BY <1>1, <1>2, Induction
<1>4. QED
  BY <1>3, Zenon DEF T, Looped

\* Many, as the values that its loop runs through.
LEMMA ManyUpto ==
  ASSUME NEW kind, NEW r \in ByteSeq, NEW n \in Nat
  PROVE  /\ Upto(n, r) \in Nat
         /\ \E u : /\ u[0] = Ok(<<>>, r) /\ Many(kind, n, r) = u[Upto(n, r)]
                   /\ \A i \in 1 .. Upto(n, r) : u[i] = AndOne(kind, u[i - 1])
<1> DEFINE m == Upto(n, r)
           base == Ok(<<>>, r)
           Is(u) == u = [i \in 0 .. m |-> IF i = 0 THEN base ELSE AndOne(kind, u[i - 1])]
           upto == CHOOSE u : Is(u)
<1>1. m \in Nat
  BY DEF Upto, ByteSeq
<1>2. Many(kind, n, r) = upto[m]
  BY Zenon DEF Many
<1> HIDE DEF m, base
<1>3. \E u : Is(u)
  <2>1. PICK u : Looped(u, kind, base, m)
    BY <1>1, ManyExists
  <2>2. Is(u)
    BY <2>1, Zenon DEF Looped
  <2>3. QED
    BY <2>2
<1>4. Is(upto)
  BY <1>3, Zenon
<1> HIDE DEF upto
<1>5. \A i \in 0 .. m : upto[i] = IF i = 0 THEN base ELSE AndOne(kind, upto[i - 1])
  BY <1>4
<1>6. 0 \in 0 .. m /\ \A i \in 1 .. m : i \in 0 .. m /\ i # 0
  BY <1>1
<1>7. upto[0] = base /\ \A i \in 1 .. m : upto[i] = AndOne(kind, upto[i - 1])
  BY <1>5, <1>6
<1>8. QED
  BY <1>1, <1>2, <1>7, Zenon DEF m, base

\* One turn of the loop over values.
LEMMA UnfoldOne ==
  ASSUME NEW kind, NEW acc, NEW h, h = DecOne(kind, acc.val, acc.rest)
  PROVE  /\ acc.st # "ok" => AndOne(kind, acc) = acc
         /\ acc.st = "ok" => AndOne(kind, acc) = IF h.st = "ok" THEN Ok(Append(acc.val, h.val), h.rest) ELSE h
BY DEF AndOne, Then

\* The i-th of the values is read back behind the ones before it.
OneReads(kind, vs, i) ==
  /\ Encoded(EncOne(kind, vs[i]))
  /\ \A b \in ByteSeq : Agrees(b, EncOne(kind, vs[i]))
       => Reads(DecOne(kind, SubSeq(vs, 1, i - 1), b), b, EncOne(kind, vs[i]), vs[i], FALSE)

\* What is not enough for an encoding is not enough for a longer one.
LEMMA ReadsLonger ==
  ASSUME NEW b \in ByteSeq, NEW e \in ByteSeq, NEW e2 \in ByteSeq, NEW v, NEW w, NEW d,
         Reads(d, b, e, v, FALSE), Len(b) < Len(e), Len(e) <= Len(e2)
  PROVE  Reads(d, b, e2, w, FALSE)
<1>1. Len(b) \in Nat /\ Len(e) \in Nat /\ Len(e2) \in Nat
  BY DEF ByteSeq
<1>2. ~(Len(e) <= Len(b)) /\ ~(Len(e2) <= Len(b))
  BY <1>1
<1>3. PICK n \in 1 .. (Len(e) - Len(b)) : d = More(n)
  BY <1>2 DEF Reads
<1>4. n \in 1 .. (Len(e2) - Len(b))
  BY <1>1
<1>5. QED
  BY <1>2, <1>3, <1>4 DEF Reads

\* The loop reads the values back, one behind the other.
LEMMA ManyReads ==
  ASSUME NEW kind, NEW S, NEW vs \in Seq(S), \A i \in 1 .. Len(vs) : OneReads(kind, vs, i), NEW e,
         e = FlattenSeq([i \in 1 .. Len(vs) |-> EncOne(kind, vs[i])])
  PROVE  /\ e \in ByteSeq /\ Len(e) >= Len(vs)
         /\ \A b \in ByteSeq : Agrees(b, e) => Reads(Many(kind, Len(vs), b), b, e, vs, FALSE)
<1> DEFINE n == Len(vs)
           seqs == [i \in 1 .. n |-> EncOne(kind, vs[i])]
<1>0. n \in Nat
  OBVIOUS
<1>1. seqs \in Seq(ByteSeq) /\ Len(seqs) = n /\ \A i \in 1 .. n : seqs[i] = EncOne(kind, vs[i])
  <2>1. \A i \in 1 .. n : EncOne(kind, vs[i]) \in ByteSeq
    BY DEF OneReads, Encoded
  <2>2. QED
    BY <1>0, <2>1
<1>2. \A i \in 1 .. n : seqs[i] \in ByteSeq /\ Len(seqs[i]) >= 1
  BY <1>1 DEF OneReads, Encoded
<1> HIDE DEF seqs
<1>3. PICK f : Joined(f, seqs) /\ FlattenSeq(seqs) = f[n]
  BY <1>1, FlattenParts
<1>4. e = f[n] /\ e \in ByteSeq
  BY <1>0, <1>1, <1>3 DEF Joined, seqs
<1>5. f[0] = <<>> /\ \A i \in 1 .. n : f[i] = f[i - 1] \o seqs[i] /\ f[i] \in ByteSeq /\ f[i - 1] \in ByteSeq
  BY <1>0, <1>1, <1>3 DEF Joined
<1>6. \A i \in 0 .. n : /\ Len(f[i]) + (n - i) <= Len(f[n]) /\ f[i] \in ByteSeq
                        /\ \A k \in 1 .. Len(f[i]) : f[n][k] = f[i][k]
  BY <1>0, <1>1, <1>2, <1>3, JoinedFacts
<1>7. \A i \in 0 .. n : Len(f[i]) >= i
  <2> SUFFICES ASSUME NEW i \in 0 .. n PROVE Len(f[i]) >= i
    OBVIOUS
  <2>1. Len(f[0]) + (i - 0) <= Len(f[i]) /\ f[0] \in ByteSeq /\ f[i] \in ByteSeq
    BY <1>0, <1>1, <1>2, <1>3, JoinedFacts
  <2>2. Len(f[0]) = 0
    BY <1>5
  <2>3. QED
    BY <2>1, <2>2 DEF ByteSeq
<1>8. ASSUME NEW b \in ByteSeq, Agrees(b, e) PROVE Reads(Many(kind, n, b), b, e, vs, FALSE)
  <2> DEFINE m == Upto(n, b)
  <2>1. m \in Nat
    BY <1>0, ManyUpto
  <2>2. PICK u : /\ u[0] = Ok(<<>>, b) /\ Many(kind, n, b) = u[m]
                 /\ \A i \in 1 .. m : u[i] = AndOne(kind, u[i - 1])
    BY <1>0, ManyUpto
  <2>3. Len(b) \in Nat /\ m <= n /\ (m < n => m = Len(b) + 1)
    BY <1>0 DEF Upto, ByteSeq
  <2> HIDE DEF m
  <2> DEFINE Good(i) == Agrees(b, f[i]) => Reads(u[i], b, f[i], SubSeq(vs, 1, i), FALSE)
             T == {i \in Nat : i <= m => Good(i)}
  <2>4. 0 \in T
    <3>1. SubSeq(vs, 1, 0) = <<>> /\ Len(f[0]) = 0 /\ Drop(b, 0) = b
      BY <1>5 DEF ByteSeq, Drop
    <3>2. Reads(u[0], b, f[0], SubSeq(vs, 1, 0), FALSE)
      <4>1. Len(f[0]) <= Len(b)
        BY <2>3, <3>1
      <4>2. u[0] = Ok(SubSeq(vs, 1, 0), Drop(b, Len(f[0])))
        BY <2>2, <3>1
      <4>3. QED
        BY <4>1, <4>2 DEF Reads
    <3>3. QED
      BY <3>2
  <2>5. ASSUME NEW k \in Nat, k \in T PROVE k + 1 \in T
    <3> DEFINE i == k + 1
    <3>1. i \in Nat
      OBVIOUS
    <3> SUFFICES ASSUME i <= m, Agrees(b, f[i]) PROVE Reads(u[i], b, f[i], SubSeq(vs, 1, i), FALSE)
      BY <3>1, Zenon
    <3>2. i \in 1 .. m /\ i \in 1 .. n /\ i - 1 = k /\ k <= m
      BY <1>0, <2>1, <2>3
    <3> DEFINE e1 == f[k]
               e2 == EncOne(kind, vs[i])
               acc == u[k]
               done == SubSeq(vs, 1, k)
               h == DecOne(kind, acc.val, acc.rest)
               d == AndOne(kind, acc)
    <3>3. f[i] = e1 \o e2 /\ e1 \in ByteSeq /\ e2 \in ByteSeq /\ u[i] = d
      BY <1>1, <1>2, <1>5, <2>2, <3>2
    <3>4. Agrees(b, e1) /\ (Len(e1) <= Len(b) => Drop(b, Len(e1)) \in ByteSeq /\ Agrees(Drop(b, Len(e1)), e2))
      BY <3>3, AgreesParts
    <3>5. Reads(acc, b, e1, done, FALSE)
      BY <2>5, <3>2, <3>4
    <3>6. acc.st # "ok" => d = acc
      BY UnfoldOne
    <3>7. acc.st = "ok" => d = IF h.st = "ok" THEN Ok(Append(acc.val, h.val), h.rest) ELSE h
      BY UnfoldOne
    <3>8. ASSUME Len(e1) <= Len(b), acc.st = "ok", acc.val = done, acc.rest = Drop(b, Len(e1))
          PROVE  /\ Reads(h, Drop(b, Len(e1)), e2, vs[i], FALSE)
                 /\ d = IF h.st = "ok" THEN Ok(Append(done, h.val), h.rest) ELSE h
      <4>1. OneReads(kind, vs, i)
        BY <3>2
      <4>2. h = DecOne(kind, SubSeq(vs, 1, i - 1), Drop(b, Len(e1)))
        BY <3>2, <3>8
      <4>3. Reads(h, Drop(b, Len(e1)), e2, vs[i], FALSE)
        BY <3>4, <3>8, <4>1, <4>2 DEF OneReads
      <4>4. QED
        BY <3>7, <3>8, <4>3
    <3> HIDE DEF e1, e2, acc, h, d, done
    <3>9. Reads(d, b, e1 \o e2, Append(done, vs[i]), FALSE)
      BY <3>3, <3>5, <3>6, <3>8, AppendReads
    <3>10. Append(done, vs[i]) = SubSeq(vs, 1, i)
      BY <3>2 DEF done
    <3>11. QED
      BY <3>3, <3>9, <3>10
  <2> HIDE DEF T
  <2>6. m \in T
    BY <2>1, <2>4, <2>5, Induction
  <2>7. Good(m)
    <3>1. m <= m
      BY <2>1
    <3>2. QED
      BY <2>6, <3>1, Zenon DEF T
  <2>8. CASE m = n
    <3>1. SubSeq(vs, 1, n) = vs
      OBVIOUS
    <3>2. QED
      BY <1>4, <1>8, <2>2, <2>7, <2>8, <3>1
  <2>9. CASE m < n
    <3>1. m = Len(b) + 1 /\ m \in 0 .. n
      BY <1>0, <2>1, <2>3, <2>9
    <3>2. Len(f[m]) >= m /\ Len(f[m]) <= Len(e) /\ f[m] \in ByteSeq /\ \A k \in 1 .. Len(f[m]) : e[k] = f[m][k]
      <4>1. Len(f[m]) + (n - m) <= Len(f[n]) /\ f[m] \in ByteSeq /\ \A k \in 1 .. Len(f[m]) : f[n][k] = f[m][k]
        BY <1>6, <3>1
      <4>2. Len(f[m]) \in Nat /\ Len(f[n]) \in Nat
        BY <1>4, <4>1 DEF ByteSeq
      <4>3. QED
        <5>1. Len(f[m]) <= Len(f[n])
          BY <1>0, <2>1, <2>9, <4>1, <4>2
        <5>2. QED
          BY <1>4, <1>7, <3>1, <4>1, <5>1, Zenon
    <3>3. Len(f[m]) \in Nat /\ Len(e) \in Nat
      BY <1>4, <3>2 DEF ByteSeq
    <3>4. Agrees(b, f[m])
      BY <1>8, <2>3, <3>2, <3>3 DEF Agrees
    <3>5. Reads(u[m], b, f[m], SubSeq(vs, 1, m), FALSE)
      BY <2>7, <3>4
    <3>6. Len(b) < Len(f[m])
      BY <2>3, <3>1, <3>2, <3>3
    <3>7. Reads(u[m], b, e, vs, FALSE)
      BY <1>4, <3>2, <3>5, <3>6, ReadsLonger
    <3>8. QED
      BY <2>2, <3>7
  <2>10. m = n \/ m < n
    BY <1>0, <2>1, <2>3
  <2>11. QED
    BY <2>8, <2>9, <2>10
<1>9. Len(e) >= n
  BY <1>0, <1>4, <1>7
<1>10. QED
  BY <1>4, <1>8, <1>9

\* A list is read back when each of its values is.
LEMMA ListReads ==
  ASSUME NEW kind, NEW S, NEW vs \in Seq(S), Len(vs) < Limit, \A i \in 1 .. Len(vs) : OneReads(kind, vs, i)
  PROVE  /\ Encoded(EncMany(kind, vs))
         /\ \A b \in ByteSeq : Agrees(b, EncMany(kind, vs)) => Reads(DecMany(kind, b), b, EncMany(kind, vs), vs, FALSE)
<1> DEFINE n == Len(vs)
           e1 == EncVarInt(U64(n))
           e2 == FlattenSeq([i \in 1 .. n |-> EncOne(kind, vs[i])])
<1>0. n \in Nat
  OBVIOUS
<1>1. Encoded(e1)
  BY <1>0, SizeEncoded
<1>2. /\ e2 \in ByteSeq
      /\ \A b \in ByteSeq : Agrees(b, e2) => Reads(Many(kind, n, b), b, e2, vs, FALSE)
  BY ManyReads
<1>3. EncMany(kind, vs) = e1 \o e2
  BY DEF EncMany
<1> HIDE DEF e2
<1>4. ASSUME NEW b \in ByteSeq, Agrees(b, e1 \o e2) PROVE Reads(DecMany(kind, b), b, e1 \o e2, vs, FALSE)
  <2> DEFINE h == DecSize(b)
             d == DecMany(kind, b)
  <2>1. Agrees(b, e1) /\ (Len(e1) <= Len(b) => Drop(b, Len(e1)) \in ByteSeq /\ Agrees(Drop(b, Len(e1)), e2))
    BY <1>1, <1>2, <1>4, AgreesParts DEF Encoded
  <2>2. Reads(h, b, e1, n, FALSE)
    BY <1>0, <2>1, SizeReads
  <2>3. h.st # "ok" => d = h
    BY DEF DecMany, Then
  <2>4. h.st = "ok" => d = Many(kind, h.val, h.rest)
    BY DEF DecMany, Then
  <2> HIDE DEF h, d, e1, n
  <2>5. Len(e1) <= Len(b) /\ h.st = "ok" /\ h.val = n /\ h.rest = Drop(b, Len(e1))
           => Reads(d, Drop(b, Len(e1)), e2, vs, FALSE)
    BY <1>2, <2>1, <2>4
  <2>6. Reads(d, b, e1 \o e2, vs, FALSE)
    BY <1>1, <1>2, <2>2, <2>3, <2>5, HeadReads DEF Encoded
  <2>7. QED
    BY <2>6 DEF d
<1>5. Encoded(e1 \o e2)
  <2> HIDE DEF e1
  <2>1. e1 \in Seq(Byte) /\ e2 \in Seq(Byte) /\ Len(e1) >= 1
    BY <1>1, <1>2 DEF Encoded, ByteSeq
  <2>2. QED
    BY <2>1, ConcatFacts DEF Encoded, ByteSeq
<1>6. QED
  BY <1>3, <1>4, <1>5

\* A tuple of strings is read back.
LEMMA TupleReads ==
  ASSUME NEW t \in TupleValue
  PROVE  /\ Encoded(EncTuple(t))
         /\ \A b \in ByteSeq : Agrees(b, EncTuple(t)) => Reads(DecTuple(b), b, EncTuple(t), t, FALSE)
<1>1. t \in Seq(StringValue) /\ Len(t) < Limit
  BY DEF TupleValue
<1>2. ASSUME NEW i \in 1 .. Len(t) PROVE OneReads("field", t, i)
  <2>1. t[i] \in StringValue
    BY <1>1
  <2>2. EncOne("field", t[i]) = EncBytes(t[i]) /\ \A b : DecOne("field", SubSeq(t, 1, i - 1), b) = DecBytes(b)
    BY DEF EncOne, DecOne
  <2>3. Encoded(EncBytes(t[i]))
    BY <2>1, BytesReads DEF Encoded
  <2>4. \A b \in ByteSeq : Agrees(b, EncBytes(t[i])) => Reads(DecBytes(b), b, EncBytes(t[i]), t[i], FALSE)
    BY <2>1, BytesReads
  <2>5. QED
    BY <2>2, <2>3, <2>4, Zenon DEF OneReads
<1>3. QED
  BY <1>1, <1>2, ListReads DEF EncTuple, DecTuple

\* The list of versions is read back.
LEMMA VersionsRead ==
  ASSUME NEW vs \in Seq(U64Value), Len(vs) < Limit
  PROVE  /\ Encoded(EncMany("version", vs))
         /\ \A b \in ByteSeq : Agrees(b, EncMany("version", vs))
              => Reads(DecMany("version", b), b, EncMany("version", vs), vs, FALSE)
<1>2. ASSUME NEW i \in 1 .. Len(vs) PROVE OneReads("version", vs, i)
  <2>1. vs[i] \in U64Value
    OBVIOUS
  <2>2. EncOne("version", vs[i]) = EncVarInt(vs[i]) /\ \A b : DecOne("version", SubSeq(vs, 1, i - 1), b) = DecVarInt(b)
    BY DEF EncOne, DecOne
  <2>3. Encoded(EncVarInt(vs[i]))
    BY <2>1, VarIntEncoded
  <2>4. \A b \in ByteSeq : Agrees(b, EncVarInt(vs[i])) => Reads(DecVarInt(b), b, EncVarInt(vs[i]), vs[i], FALSE)
    BY <2>1, VarIntReads
  <2>5. QED
    BY <2>2, <2>3, <2>4, Zenon DEF OneReads
<1>3. QED
  BY <1>2, ListReads

\* A parameter is read back unless its kind was there before.
LEMMA ParamReads ==
  ASSUME NEW p \in U64Value \X StringValue, NEW ps, \A i \in DOMAIN ps : ps[i][1] # p[1]
  PROVE  /\ Encoded(EncVarInt(p[1]) \o EncBytes(p[2]))
         /\ \A b \in ByteSeq : Agrees(b, EncVarInt(p[1]) \o EncBytes(p[2]))
              => Reads(DecParam(ps, b), b, EncVarInt(p[1]) \o EncBytes(p[2]), p, FALSE)
<1> DEFINE e1 == EncVarInt(p[1])
           e2 == EncBytes(p[2])
<1>1. p[1] \in U64Value /\ p[2] \in StringValue /\ p = <<p[1], p[2]>>
  OBVIOUS
<1>2. Encoded(e1) /\ Encoded(e2)
  BY <1>1, VarIntEncoded, BytesReads DEF Encoded
<1>3. ASSUME NEW b \in ByteSeq, Agrees(b, e1 \o e2) PROVE Reads(DecParam(ps, b), b, e1 \o e2, p, FALSE)
  <2> DEFINE d1 == DecVarInt(b)
             d2 == DecBytes(d1.rest)
             g == Ok(<<d1.val, d2.val>>, d2.rest)
             d == DecParam(ps, b)
  <2>1. Agrees(b, e1) /\ (Len(e1) <= Len(b) => Drop(b, Len(e1)) \in ByteSeq /\ Agrees(Drop(b, Len(e1)), e2))
    BY <1>2, <1>3, AgreesParts DEF Encoded
  <2>2. Reads(d1, b, e1, p[1], FALSE)
    BY <1>1, <2>1, VarIntReads
  <2>3. ASSUME Len(e1) <= Len(b), d1.rest = Drop(b, Len(e1)) PROVE Reads(d2, Drop(b, Len(e1)), e2, p[2], FALSE)
    BY <1>1, <2>1, <2>3, BytesReads
  <2>4. d1.st # "ok" => d = d1
    BY DEF DecParam, Then
  <2>5. d1.st = "ok" /\ (\A i \in DOMAIN ps : ps[i][1] # d1.val) => d = IF d2.st = "ok" THEN g ELSE d2
    BY DEF DecParam, Then
  <2>6. d1.val = p[1] /\ d2.val = p[2] => g = Ok(p, d2.rest)
    BY <1>1
  <2> HIDE DEF d1, d2, g, d, e1, e2
  <2>7. ASSUME Len(e1) <= Len(b), d1.st = "ok", d1.val = p[1], d1.rest = Drop(b, Len(e1))
        PROVE  Reads(d, Drop(b, Len(e1)), e2, p, FALSE)
    <3>1. Reads(d2, Drop(b, Len(e1)), e2, p[2], FALSE)
      BY <2>3, <2>7
    <3>2. d2.val = p[2] => g = Ok(p, d2.rest)
      BY <2>6, <2>7
    <3>3. Reads(IF d2.st = "ok" THEN g ELSE d2, Drop(b, Len(e1)), e2, p, FALSE)
      BY <1>2, <2>1, <2>7, <3>1, <3>2, LastReads DEF Encoded
    <3>4. QED
      BY <2>5, <2>7, <3>3
  <2>8. Reads(d, b, e1 \o e2, p, FALSE)
    BY <1>2, <2>2, <2>4, <2>7, HeadReads DEF Encoded
  <2>9. QED
    BY <2>8 DEF d
<1>4. QED
  BY <1>2, <1>3, TwoEncoded

\* A set written down in some order: each of its members once.
LEMMA Listed ==
  ASSUME NEW S, IsFiniteSet(S), NEW q, q = SetToSeq(S)
  PROVE  /\ q \in Seq(S) /\ Len(q) = Cardinality(S) /\ ToSet(q) = S
         /\ \A i, j \in 1 .. Len(q) : q[i] = q[j] => i = j
<1> DEFINE n == Cardinality(S)
<1>1. n \in Nat /\ ExistsBijection(1 .. n, S)
  BY FS_CardinalityType
<1> HIDE DEF n
<1>2. \E f \in [1 .. n -> S] : IsInjective(f)
  BY <1>1 DEF ExistsBijection, Bijection, Injection
<1>3. q \in [1 .. n -> S] /\ IsInjective(q)
  BY <1>2, Zenon DEF SetToSeq, n
<1>4. q \in Injection(1 .. n, S)
  BY <1>3 DEF Injection
<1>5. IsFiniteSet(1 .. n) /\ Cardinality(1 .. n) = n
  BY <1>1, FS_Interval
<1>6. q \in Surjection(1 .. n, S)
  BY <1>4, <1>5, FS_Injection DEF n
<1>7. \A t \in S : \E i \in 1 .. n : q[i] = t
  BY <1>6 DEF Surjection
<1>8. q \in Seq(S) /\ Len(q) = n /\ DOMAIN q = 1 .. n
  <2>1. q \in Seq(S)
    BY <1>1, <1>3, SeqDef
  <2>2. QED
    BY <1>1, <1>3, <2>1, LenProperties
<1>9. ToSet(q) = S
  BY <1>3, <1>7, <1>8 DEF ToSet
<1>10. QED
  BY <1>3, <1>8, <1>9 DEF IsInjective, n

\* The parameters, a map from kinds to values, are read back.
LEMMA ParamsRead ==
  ASSUME NEW ps, IsParams(ps)
  PROVE  /\ Encoded(EncParams(ps))
         /\ \A b \in ByteSeq : Agrees(b, EncParams(ps)) => Reads(DecParams(b), b, EncParams(ps), ps, FALSE)
<1> DEFINE vs == SetToSeq(ps)
           e == EncMany("param", vs)
<1>1. /\ vs \in Seq(ps) /\ Len(vs) < Limit /\ ToSet(vs) = ps
      /\ \A i, j \in 1 .. Len(vs) : vs[i] = vs[j] => i = j
  BY Listed DEF IsParams
<1>2. EncParams(ps) = e
  BY DEF EncParams
<1> HIDE DEF vs
<1>3. ASSUME NEW i \in 1 .. Len(vs) PROVE OneReads("param", vs, i)
  <2> DEFINE p == vs[i]
             qs == SubSeq(vs, 1, i - 1)
  <2>1. p \in ps /\ p \in U64Value \X StringValue
    BY <1>1 DEF IsParams
  <2>2. Len(vs) \in Nat /\ DOMAIN qs = 1 .. (i - 1) /\ \A j \in 1 .. (i - 1) : qs[j] = vs[j] /\ vs[j] \in ps /\ j # i /\ j \in 1 .. Len(vs)
    BY <1>1
  <2>3. ASSUME NEW j \in DOMAIN qs PROVE qs[j][1] # p[1]
    BY <1>1, <2>1, <2>2 DEF IsParams
  <2>4. EncOne("param", p) = EncVarInt(p[1]) \o EncBytes(p[2]) /\ \A b : DecOne("param", qs, b) = DecParam(qs, b)
    BY DEF EncOne, DecOne
  <2> HIDE DEF p, qs
  <2>5. /\ Encoded(EncVarInt(p[1]) \o EncBytes(p[2]))
        /\ \A b \in ByteSeq : Agrees(b, EncVarInt(p[1]) \o EncBytes(p[2]))
             => Reads(DecParam(qs, b), b, EncVarInt(p[1]) \o EncBytes(p[2]), p, FALSE)
    BY <2>1, <2>3, ParamReads
  <2>6. QED
    BY <2>4, <2>5, Zenon DEF OneReads, p, qs
<1>4. /\ Encoded(e)
      /\ \A b \in ByteSeq : Agrees(b, e) => Reads(DecMany("param", b), b, e, vs, FALSE)
  BY <1>1, <1>3, ListReads
<1>5. ASSUME NEW b \in ByteSeq, Agrees(b, e) PROVE Reads(DecParams(b), b, e, ps, FALSE)
  <2> DEFINE h == DecMany("param", b)
             d == DecParams(b)
  <2>1. Reads(h, b, e, vs, FALSE)
    BY <1>4, <1>5
  <2>2. h.st # "ok" => d = h
    BY DEF DecParams, Then
  <2>3. h.st = "ok" => d = Ok(ToSet(h.val), h.rest)
    BY DEF DecParams, Then
  <2> HIDE DEF h, d, e
  <2>4. Reads(d, b, e, ps, FALSE)
    BY <1>1, <1>4, <2>1, <2>2, <2>3, OnlyReads DEF Encoded
  <2>5. QED
    BY <2>4 DEF d
<1>6. QED
  BY <1>2, <1>4, <1>5

-----------------------------------------------------------------------------
(* Fields *)

\* A window with AbsoluteStart.
OneSided(kind, v) == kind = "window" /\ v[1] = AbsoluteStart

\* A window with AbsoluteRange.
Ranged(kind, v) == kind = "window" /\ v[1] = AbsoluteRange

\* Every field is read back, but for the window with AbsoluteStart.
LEMMA FieldReads ==
  ASSUME NEW kind \in Kinds, NEW v, IsField(kind, v)
  PROVE  /\ Encoded(Enc(kind, v))
         /\ ~OneSided(kind, v) => \A b \in ByteSeq : Agrees(b, Enc(kind, v))
              => Reads(Dec(kind, b), b, Enc(kind, v), v, Ranged(kind, v))
<1> DEFINE Fine(e, may) ==
             /\ Encoded(e)
             /\ \A b \in ByteSeq : Agrees(b, e) => Reads(Dec(kind, b), b, e, v, may)
<1>1. ASSUME kind # "window", Fine(Enc(kind, v), FALSE)
      PROVE  /\ Encoded(Enc(kind, v))
             /\ ~OneSided(kind, v) => \A b \in ByteSeq : Agrees(b, Enc(kind, v))
                  => Reads(Dec(kind, b), b, Enc(kind, v), v, Ranged(kind, v))
  <2>1. Ranged(kind, v) = FALSE
    BY <1>1 DEF Ranged
  <2>2. QED
    BY <1>1, <2>1
<1>2. CASE kind = "u64"
  <2>1. v \in U64Value /\ Enc(kind, v) = EncVarInt(v) /\ \A b : Dec(kind, b) = DecVarInt(b)
    BY <1>2 DEF IsField, Enc, Dec
  <2>2. Fine(Enc(kind, v), FALSE)
    BY <2>1, VarIntReads, VarIntEncoded
  <2>3. QED
    BY <1>1, <1>2, <2>2
<1>3. CASE kind = "u8"
  <2>1. v \in Byte /\ Enc(kind, v) = <<v>> /\ \A b : Dec(kind, b) = DecU8(b)
    BY <1>3 DEF IsField, Enc, Dec
  <2>2. Fine(Enc(kind, v), FALSE)
    BY <2>1, U8Reads, ByteEncoded
  <2>3. QED
    BY <1>1, <1>3, <2>2
<1>4. CASE kind = "string"
  <2>1. v \in StringValue /\ Enc(kind, v) = EncBytes(v) /\ \A b : Dec(kind, b) = DecBytes(b)
    BY <1>4 DEF IsField, Enc, Dec
  <2>2. Fine(Enc(kind, v), FALSE)
    BY <2>1, BytesReads DEF Encoded
  <2>3. QED
    BY <1>1, <1>4, <2>2
<1>5. CASE kind = "tuple"
  <2>1. v \in TupleValue /\ Enc(kind, v) = EncTuple(v) /\ \A b : Dec(kind, b) = DecTuple(b)
    BY <1>5 DEF IsField, Enc, Dec
  <2>2. Fine(Enc(kind, v), FALSE)
    BY <2>1, TupleReads
  <2>3. QED
    BY <1>1, <1>5, <2>2
<1>6. CASE kind = "params"
  <2>1. IsParams(v) /\ Enc(kind, v) = EncParams(v) /\ \A b : Dec(kind, b) = DecParams(b)
    BY <1>6 DEF IsField, Enc, Dec
  <2>2. Fine(Enc(kind, v), FALSE)
    BY <2>1, ParamsRead
  <2>3. QED
    BY <1>1, <1>6, <2>2
<1>7. CASE kind = "order"
  <2>1. v \in GroupOrder /\ Enc(kind, v) = <<v>>
        /\ \A b : Dec(kind, b) = Enum(DecU8(b), GroupOrder, "InvalidGroupOrder")
    BY <1>7 DEF IsField, Enc, Dec
  <2>2. Fine(Enc(kind, v), FALSE)
    BY <2>1, OrderReads
  <2>3. QED
    BY <1>1, <1>7, <2>2
<1>8. CASE kind = "track_status"
  <2>1. v \in TrackStatusCode /\ Enc(kind, v) = EncVarInt(U64(v))
        /\ \A b : Dec(kind, b) = Enum(DecSize(b), TrackStatusCode, "InvalidTrackStatusCode")
    BY <1>8 DEF IsField, Enc, Dec
  <2>2. v \in 0 .. 255
    BY <2>1 DEF TrackStatusCode
  <2>3. Fine(Enc(kind, v), FALSE)
    BY <2>1, <2>2, CodeReads
  <2>4. QED
    BY <1>1, <1>8, <2>3
<1>9. CASE kind = "status"
  <2>1. v \in ObjectStatus /\ Enc(kind, v) = EncVarInt(U64(v)) /\ \A b : Dec(kind, b) = DecStatus(b)
    BY <1>9 DEF IsField, Enc, Dec
  <2>2. Fine(Enc(kind, v), FALSE)
    BY <2>1, StatusReads
  <2>3. QED
    BY <1>1, <1>9, <2>2
<1>10. CASE kind = "option"
  <2>1. v \in OptionValue /\ Enc(kind, v) = EncOption(v) /\ \A b : Dec(kind, b) = DecOption(b)
    BY <1>10 DEF IsField, Enc, Dec
  <2>2. Fine(Enc(kind, v), FALSE)
    BY <2>1, OptionReads
  <2>3. QED
    BY <1>1, <1>10, <2>2
<1>11. CASE kind = "sized"
  <2>1. v \in SizedValue /\ Enc(kind, v) = EncSized(v) /\ \A b : Dec(kind, b) = DecSized(b)
    BY <1>11 DEF IsField, Enc, Dec
  <2>2. Fine(Enc(kind, v), FALSE)
    BY <2>1, SizedReads
  <2>3. QED
    BY <1>1, <1>11, <2>2
<1>12. CASE kind = "window"
  <2>1. v \in WindowValue /\ Enc(kind, v) = EncWindow(v) /\ \A b : Dec(kind, b) = DecWindow(b)
    BY <1>12 DEF IsField, Enc, Dec
  <2>2. Ranged(kind, v) = (v[1] = AbsoluteRange) /\ (~OneSided(kind, v) => v[1] # AbsoluteStart)
    BY <1>12 DEF Ranged, OneSided
  <2>3. QED
    BY <2>1, <2>2, WindowReads
<1>13. QED
  BY <1>2, <1>3, <1>4, <1>5, <1>6, <1>7, <1>8, <1>9, <1>10, <1>11, <1>12, Zenon DEF Kinds

\* u is the loop that reads one field after the other.
Walked(u, kinds, base, n) ==
  u = [i \in 0 .. n |-> IF i = 0 THEN base ELSE AndField(kinds[i], u[i - 1])]

\* The recursive function of the loop over fields exists.
LEMMA WalkExists ==
  ASSUME NEW kinds, NEW base, NEW n \in Nat
  PROVE  \E u : Walked(u, kinds, base, n)
<1> DEFINE Good(u, k) == u = [i \in 0 .. k |-> IF i = 0 THEN base ELSE AndField(kinds[i], u[i - 1])]
           T == {k \in Nat : \E u : Good(u, k)}
<1>1. 0 \in T
  <2>1. Good([i \in 0 .. 0 |-> base], 0)
    OBVIOUS
  <2>2. QED
    BY <2>1, Zenon
<1>2. ASSUME NEW k \in Nat, k \in T PROVE k + 1 \in T
  <2>1. PICK u : Good(u, k)
    BY <1>2
  <2> DEFINE g == [i \in 0 .. (k + 1) |-> IF i <= k THEN u[i] ELSE AndField(kinds[k + 1], u[k])]
  <2>2. \A i \in 0 .. k : u[i] = IF i = 0 THEN base ELSE AndField(kinds[i], u[i - 1])
    BY <2>1
  <2>3. ASSUME NEW i \in 0 .. (k + 1) PROVE g[i] = IF i = 0 THEN base ELSE AndField(kinds[i], g[i - 1])
    <3>1. CASE i <= k
      <4>1. i \in 0 .. k /\ g[i] = u[i] /\ (i # 0 => g[i - 1] = u[i - 1])
        BY <3>1
      <4>2. QED
        BY <2>2, <4>1
    <3>2. CASE ~(i <= k)
      <4>1. i # 0 /\ i = k + 1 /\ g[i] = AndField(kinds[k + 1], u[k]) /\ g[i - 1] = u[k]
        BY <3>2
      <4>2. QED
        BY <4>1
    <3>3. QED
      BY <3>1, <3>2
  <2>4. Good(g, k + 1)
    <3>1. g = [i \in 0 .. (k + 1) |-> g[i]]
      OBVIOUS
    <3> HIDE DEF g
    <3>2. QED
      BY <2>3, <3>1
  <2> HIDE DEF g, Good
  <2>5. k + 1 \in Nat
    OBVIOUS
  <2>6. QED
    BY <2>4, <2>5, Zenon
<1> HIDE DEF T
<1>3. n \in T
  BY <1>1, <1>2, Induction
<1>4. QED
  BY <1>3, Zenon DEF T, Walked

\* DecFields, as the values that its loop runs through.
LEMMA WalkUpto ==
  ASSUME NEW kinds, NEW r, Len(kinds) \in Nat
  PROVE  \E u : /\ u[0] = Ok(<<>>, r) /\ DecFields(kinds, r) = u[Len(kinds)]
                /\ \A i \in 1 .. Len(kinds) : u[i] = AndField(kinds[i], u[i - 1])
<1> DEFINE m == Len(kinds)
           base == Ok(<<>>, r)
           Is(u) == u = [i \in 0 .. m |-> IF i = 0 THEN base ELSE AndField(kinds[i], u[i - 1])]
           upto == CHOOSE u : Is(u)
<1>1. m \in Nat
  OBVIOUS
<1>2. DecFields(kinds, r) = upto[m]
  BY Zenon DEF DecFields
<1> HIDE DEF m, base
<1>3. \E u : Is(u)
  <2>1. PICK u : Walked(u, kinds, base, m)
    BY <1>1, WalkExists
  <2>2. Is(u)
    BY <2>1, Zenon DEF Walked
  <2>3. QED
    BY <2>2
<1>4. Is(upto)
  BY <1>3, Zenon
<1> HIDE DEF upto
<1>5. \A i \in 0 .. m : upto[i] = IF i = 0 THEN base ELSE AndField(kinds[i], upto[i - 1])
  BY <1>4
<1>6. 0 \in 0 .. m /\ \A i \in 1 .. m : i \in 0 .. m /\ i # 0
  BY <1>1
<1>7. upto[0] = base /\ \A i \in 1 .. m : upto[i] = AndField(kinds[i], upto[i - 1])
  BY <1>5, <1>6
<1>8. QED
  BY <1>1, <1>2, <1>7, Zenon DEF m, base

\* One turn of the loop over fields.
LEMMA UnfoldField ==
  ASSUME NEW kind, NEW acc, NEW h, h = Dec(kind, acc.rest)
  PROVE  /\ acc.st # "ok" => AndField(kind, acc) = acc
         /\ acc.st = "ok" => AndField(kind, acc) = IF h.st = "ok" THEN Ok(Append(acc.val, h.val), h.rest) ELSE h
BY DEF AndField, Then

\* The first i of the fields, encoded.
Parted(f, kinds, vs) ==
  /\ f \in [0 .. Len(kinds) -> ByteSeq] /\ f[0] = <<>> /\ EncFields(kinds, vs) = f[Len(kinds)]
  /\ \A i \in 1 .. Len(kinds) : f[i] = f[i - 1] \o Enc(kinds[i], vs[i])

\* The fields of a message have an encoding, a byte each at least.
LEMMA FieldsEncoded ==
  ASSUME NEW kinds \in Seq(Kinds), NEW vs, IsFields(kinds, vs)
  PROVE  /\ EncFields(kinds, vs) \in ByteSeq /\ Len(EncFields(kinds, vs)) \in Nat
         /\ Len(EncFields(kinds, vs)) >= Len(kinds)
         /\ \E f : Parted(f, kinds, vs)
<1> DEFINE n == Len(kinds)
           seqs == [i \in 1 .. n |-> Enc(kinds[i], vs[i])]
<1>0. n \in Nat /\ \A i \in 1 .. n : kinds[i] \in Kinds
  OBVIOUS
<1>1. \A i \in 1 .. n : Encoded(Enc(kinds[i], vs[i]))
  BY <1>0, FieldReads DEF IsFields
<1>2. seqs \in Seq(ByteSeq) /\ Len(seqs) = n /\ \A i \in 1 .. n : seqs[i] = Enc(kinds[i], vs[i]) /\ Len(seqs[i]) >= 1
  <2>1. \A i \in 1 .. n : Enc(kinds[i], vs[i]) \in ByteSeq /\ Len(Enc(kinds[i], vs[i])) >= 1
    BY <1>1 DEF Encoded
  <2>2. QED
    BY <1>0, <2>1
<1>3. EncFields(kinds, vs) = FlattenSeq(seqs)
  BY DEF EncFields
<1> HIDE DEF seqs
<1>4. PICK f : Joined(f, seqs) /\ FlattenSeq(seqs) = f[n]
  BY <1>2, FlattenParts
<1>5. /\ f \in [0 .. n -> ByteSeq] /\ f[0] = <<>>
      /\ \A i \in 1 .. n : f[i] = f[i - 1] \o Enc(kinds[i], vs[i])
  BY <1>2, <1>4 DEF Joined
<1>6. f[n] \in ByteSeq /\ Len(f[n]) \in Nat
  BY <1>0, <1>5 DEF ByteSeq
<1>7. Len(f[n]) >= n
  <2>1. 0 \in 0 .. Len(seqs) /\ n \in 0 .. Len(seqs) /\ 0 <= n
    BY <1>0, <1>2
  <2>2. Len(f[0]) + (n - 0) <= Len(f[n])
    BY <1>2, <1>4, <2>1, JoinedFacts
  <2>3. Len(f[0]) = 0
    BY <1>5
  <2>4. QED
    BY <1>0, <1>6, <2>2, <2>3
<1>8. Parted(f, kinds, vs)
  BY <1>3, <1>4, <1>5 DEF Parted
<1>9. QED
  BY <1>3, <1>4, <1>6, <1>7, <1>8

\* A whole format is read back.
LEMMA FieldsRead ==
  ASSUME NEW kinds \in Seq(Kinds), NEW vs, IsFields(kinds, vs), NEW may \in BOOLEAN,
         \A i \in 1 .. Len(kinds) : ~OneSided(kinds[i], vs[i]) /\ (Ranged(kinds[i], vs[i]) => may),
         NEW b \in ByteSeq, Agrees(b, EncFields(kinds, vs))
  PROVE  Reads(DecFields(kinds, b), b, EncFields(kinds, vs), vs, may)
<1> DEFINE n == Len(kinds)
           e == EncFields(kinds, vs)
           S == {vs[i] : i \in 1 .. n}
<1>0. n \in Nat /\ (\A i \in 1 .. n : kinds[i] \in Kinds) /\ Len(b) \in Nat
  BY DEF ByteSeq
<1>1. vs \in Seq(S) /\ Len(vs) = n
  <2>1. vs \in [1 .. n -> S]
    BY Zenon DEF IsFields
  <2>2. vs \in Seq(S)
    BY <1>0, <2>1, SeqDef
  <2>3. QED
    BY <1>0, <2>1, <2>2, LenProperties
<1>2. PICK f : /\ f \in [0 .. n -> ByteSeq] /\ f[0] = <<>> /\ e = f[n]
               /\ \A i \in 1 .. n : f[i] = f[i - 1] \o Enc(kinds[i], vs[i])
  <2>1. PICK f : Parted(f, kinds, vs)
    BY FieldsEncoded
  <2>2. QED
    BY <2>1, Zenon DEF Parted
<1>3. PICK u : /\ u[0] = Ok(<<>>, b) /\ DecFields(kinds, b) = u[n]
               /\ \A i \in 1 .. n : u[i] = AndField(kinds[i], u[i - 1])
  BY <1>0, WalkUpto
<1> DEFINE Good(i) == Agrees(b, f[i]) => Reads(u[i], b, f[i], SubSeq(vs, 1, i), may)
           T == {i \in Nat : i <= n => Good(i)}
<1>4. 0 \in T
  <2>1. SubSeq(vs, 1, 0) = <<>> /\ Len(f[0]) = 0 /\ Drop(b, 0) = b
    BY <1>1, <1>2 DEF ByteSeq, Drop
  <2>2. Len(f[0]) <= Len(b)
    BY <1>0, <2>1
  <2>3. u[0] = Ok(SubSeq(vs, 1, 0), Drop(b, Len(f[0])))
    BY <1>3, <2>1
  <2>4. Reads(u[0], b, f[0], SubSeq(vs, 1, 0), may)
    BY <2>2, <2>3 DEF Reads
  <2>5. QED
    BY <2>4
<1>5. ASSUME NEW k \in Nat, k \in T PROVE k + 1 \in T
  <2> DEFINE i == k + 1
  <2>1. i \in Nat
    OBVIOUS
  <2> SUFFICES ASSUME i <= n, Agrees(b, f[i]) PROVE Reads(u[i], b, f[i], SubSeq(vs, 1, i), may)
    BY <2>1, Zenon
  <2>2. i \in 1 .. n /\ i - 1 = k /\ k <= n /\ k \in 0 .. n
    BY <1>0
  <2> DEFINE e1 == f[k]
             e2 == Enc(kinds[i], vs[i])
             acc == u[k]
             done == SubSeq(vs, 1, k)
             h == Dec(kinds[i], acc.rest)
             d == AndField(kinds[i], acc)
  <2>3. IsField(kinds[i], vs[i]) /\ kinds[i] \in Kinds /\ ~OneSided(kinds[i], vs[i]) /\ (Ranged(kinds[i], vs[i]) => may)
    BY <1>0, <2>2 DEF IsFields
  <2>4. Encoded(e2) /\ \A c \in ByteSeq : Agrees(c, e2) => Reads(Dec(kinds[i], c), c, e2, vs[i], Ranged(kinds[i], vs[i]))
    BY <2>3, FieldReads
  <2>5. f[i] = e1 \o e2 /\ e1 \in ByteSeq /\ e2 \in ByteSeq /\ u[i] = d
    BY <1>2, <1>3, <2>2, <2>4 DEF Encoded
  <2>6. Agrees(b, e1) /\ (Len(e1) <= Len(b) => Drop(b, Len(e1)) \in ByteSeq /\ Agrees(Drop(b, Len(e1)), e2))
    BY <2>5, AgreesParts
  <2>7. Reads(acc, b, e1, done, may)
    BY <1>5, <2>2, <2>6
  <2>8. acc.st # "ok" => d = acc
    BY UnfoldField
  <2>9. acc.st = "ok" => d = IF h.st = "ok" THEN Ok(Append(acc.val, h.val), h.rest) ELSE h
    BY UnfoldField
  <2>10. ASSUME Len(e1) <= Len(b), acc.st = "ok", acc.val = done, acc.rest = Drop(b, Len(e1))
        PROVE  /\ Reads(h, Drop(b, Len(e1)), e2, vs[i], may)
               /\ d = IF h.st = "ok" THEN Ok(Append(done, h.val), h.rest) ELSE h
    <3>1. Reads(h, Drop(b, Len(e1)), e2, vs[i], Ranged(kinds[i], vs[i]))
      BY <2>4, <2>6, <2>10
    <3>2. Reads(h, Drop(b, Len(e1)), e2, vs[i], may)
      <4> HIDE DEF h, e1, e2
      <4>1. QED
        BY <2>3, <3>1 DEF Reads
    <3>3. QED
      BY <2>9, <2>10, <3>2
  <2> HIDE DEF e1, e2, acc, h, d, done
  <2>11. Reads(d, b, e1 \o e2, Append(done, vs[i]), may)
    BY <2>5, <2>7, <2>8, <2>10, AppendReads
  <2>12. Append(done, vs[i]) = SubSeq(vs, 1, i)
    BY <1>1, <2>2 DEF done
  <2>13. QED
    BY <2>5, <2>11, <2>12
<1> HIDE DEF T
<1>6. n \in T
  BY <1>0, <1>4, <1>5, Induction
<1>7. Good(n)
  <2>1. n <= n
    BY <1>0
  <2>2. QED
    BY <1>6, <2>1, Zenon DEF T
<1>8. SubSeq(vs, 1, n) = vs
  BY <1>1
<1>9. QED
  BY <1>2, <1>3, <1>7, <1>8

-----------------------------------------------------------------------------
(* Formats *)

\* A list of kinds of fields.
IsFormat(s) == s \in Seq(Kinds)

\* Every message and header is such a list.
LEMMA KindsFacts ==
  /\ IsFormat(SubscribeFields) /\ IsFormat(SubscribeUpdateFields)
  /\ IsFormat(UnsubscribeFields) /\ IsFormat(AnnounceOkFields)
  /\ IsFormat(AnnounceErrorFields) /\ IsFormat(AnnounceCancelFields)
  /\ IsFormat(TrackStatusRequestFields) /\ IsFormat(SubscribeNamespaceFields)
  /\ IsFormat(SubscribeNamespaceOkFields) /\ IsFormat(SubscribeNamespaceErrorFields)
  /\ IsFormat(UnsubscribeNamespaceFields) /\ IsFormat(FetchFields)
  /\ IsFormat(FetchCancelFields)
  /\ IsFormat(SubscribeOkFields) /\ IsFormat(SubscribeErrorFields)
  /\ IsFormat(SubscribeDoneFields) /\ IsFormat(MaxSubscribeIdFields)
  /\ IsFormat(AnnounceFields) /\ IsFormat(UnannounceFields)
  /\ IsFormat(TrackStatusFields) /\ IsFormat(FetchOkFields)
  /\ IsFormat(FetchErrorFields) /\ IsFormat(GoAwayFields)
  /\ IsFormat(TrackHeaderFields) /\ IsFormat(SubgroupHeaderFields)
  /\ IsFormat(TrackObjectFields) /\ IsFormat(SubgroupObjectFields)
  /\ IsFormat(DatagramFields)
BY DEF IsFormat, Kinds, SubscribeFields, SubscribeUpdateFields, UnsubscribeFields, AnnounceOkFields,
       AnnounceErrorFields, AnnounceCancelFields, TrackStatusRequestFields, SubscribeNamespaceFields,
       SubscribeNamespaceOkFields, SubscribeNamespaceErrorFields, UnsubscribeNamespaceFields, FetchFields,
       FetchCancelFields, SubscribeOkFields, SubscribeErrorFields, SubscribeDoneFields, MaxSubscribeIdFields,
       AnnounceFields, UnannounceFields, TrackStatusFields, FetchOkFields, FetchErrorFields, GoAwayFields,
       TrackHeaderFields, SubgroupHeaderFields, TrackObjectFields, SubgroupObjectFields, DatagramFields

\* The messages behind SETUP.
MessageNames ==
  {"SubscribeUpdate", "Subscribe", "Unsubscribe", "SubscribeOk", "SubscribeError", "SubscribeDone",
   "MaxSubscribeId", "Announce", "Unannounce", "AnnounceOk", "AnnounceError", "AnnounceCancel",
   "TrackStatusRequest", "TrackStatus", "GoAway", "SubscribeNamespace", "SubscribeNamespaceOk",
   "SubscribeNamespaceError", "UnsubscribeNamespace", "Fetch", "FetchCancel", "FetchOk", "FetchError"}

\* Every message has a type of its own, and it is a byte.
LEMMA TypeFacts ==
  /\ DOMAIN Type = MessageNames
  /\ \A n \in MessageNames : Type[n] \in 0 .. 255
  /\ \A m, n \in MessageNames : Type[m] = Type[n] => m = n
<1>1. DOMAIN Type = MessageNames
  BY DEF Type, MessageNames
<1>2. \A n \in MessageNames : Type[n] \in 0 .. 255
  BY DEF Type, MessageNames
<1>3. \A m, n \in MessageNames : Type[m] = Type[n] => m = n
  BY DEF Type, MessageNames
<1>4. QED
  BY <1>1, <1>2, <1>3

\* Every message has a format.
LEMMA FormatFacts ==
  ASSUME NEW n \in MessageNames
  PROVE  Fields[n] \in Seq(Kinds)
<1>1. IsFormat(Fields[n])
  BY KindsFacts DEF Fields, MessageNames
<1>2. QED
  BY <1>1 DEF IsFormat

\* Only SUBSCRIBE and SUBSCRIBE_UPDATE have a window, as their seventh field.
LEMMA WindowFacts ==
  ASSUME NEW n \in MessageNames, NEW i \in 1 .. Len(Fields[n]), Fields[n][i] = "window"
  PROVE  n \in {"Subscribe", "SubscribeUpdate"} /\ i = 7
<1> DEFINE Free(s) == \A k \in 1 .. Len(s) : s[k] # "window"
<1>1. /\ Free(UnsubscribeFields) /\ Free(AnnounceOkFields) /\ Free(AnnounceErrorFields)
      /\ Free(AnnounceCancelFields) /\ Free(TrackStatusRequestFields) /\ Free(SubscribeNamespaceFields)
      /\ Free(SubscribeNamespaceOkFields) /\ Free(SubscribeNamespaceErrorFields)
      /\ Free(UnsubscribeNamespaceFields) /\ Free(FetchCancelFields)
  BY DEF UnsubscribeFields, AnnounceOkFields,
       AnnounceErrorFields, AnnounceCancelFields, TrackStatusRequestFields, SubscribeNamespaceFields,
       SubscribeNamespaceOkFields, SubscribeNamespaceErrorFields, UnsubscribeNamespaceFields, 
       FetchCancelFields
<1>2. Free(FetchFields)
  BY DEF FetchFields
<1>3. /\ Free(SubscribeOkFields) /\ Free(SubscribeErrorFields)
      /\ Free(SubscribeDoneFields) /\ Free(MaxSubscribeIdFields) /\ Free(AnnounceFields) /\ Free(UnannounceFields)
      /\ Free(TrackStatusFields) /\ Free(FetchOkFields) /\ Free(FetchErrorFields) /\ Free(GoAwayFields)
  BY DEF SubscribeOkFields, SubscribeErrorFields, SubscribeDoneFields, MaxSubscribeIdFields,
       AnnounceFields, UnannounceFields, TrackStatusFields, FetchOkFields, FetchErrorFields, GoAwayFields
<1>4. /\ \A k \in 1 .. Len(SubscribeFields) : SubscribeFields[k] = "window" => k = 7
      /\ \A k \in 1 .. Len(SubscribeUpdateFields) : SubscribeUpdateFields[k] = "window" => k = 7
  BY DEF SubscribeFields, SubscribeUpdateFields
<1> HIDE DEF Free
<1>5. n \notin {"Subscribe", "SubscribeUpdate"} => Free(Fields[n])
  BY <1>1, <1>2, <1>3 DEF Fields, MessageNames
<1>6. n \in {"Subscribe", "SubscribeUpdate"}
  BY <1>5 DEF Free
<1>7. Fields["Subscribe"] = SubscribeFields /\ Fields["SubscribeUpdate"] = SubscribeUpdateFields
  BY DEF Fields
<1>8. QED
  BY <1>4, <1>6, <1>7

\* The types and formats of the data streams.
LEMMA DataFacts ==
  /\ DOMAIN HeaderType = {"Track", "Subgroup"} /\ HeaderType["Track"] = 2 /\ HeaderType["Subgroup"] = 4
  /\ HeaderFields["Track"] = TrackHeaderFields /\ HeaderFields["Subgroup"] = SubgroupHeaderFields
  /\ ObjectFields["TrackObject"] = TrackObjectFields /\ ObjectFields["SubgroupObject"] = SubgroupObjectFields
BY DEF HeaderType, HeaderFields, ObjectFields

\* What is behind a type and a length is read back.
LEMMA FramedReads ==
  ASSUME NEW b \in ByteSeq, NEW type \in 0 .. 255, NEW body \in ByteSeq, Len(body) < Limit,
         Agrees(b, Framed(type, body)), NEW w, NEW may \in BOOLEAN,
         NEW h1, h1 = DecSize(b), NEW h2, h2 = DecVarInt(h1.rest), NEW d,
         h1.st # "ok" => d = h1,
         h1.st = "ok" /\ h1.val = type /\ h2.st # "ok" => d = h2,
         \A c \in ByteSeq : Agrees(c, body) /\ h1.st = "ok" /\ h1.val = type /\ h2.st = "ok" /\ h2.rest = c
                              => Reads(d, c, body, w, may)
  PROVE  Reads(d, b, Framed(type, body), w, may)
<1> DEFINE e1 == EncVarInt(U64(type))
           e2 == EncVarInt(U64(Len(body)))
           e == e1 \o e2
           h == IF h1.st = "ok" THEN h2 ELSE h1
           v == U64(Len(body))
<1>1. type \in Nat /\ type < Limit /\ Len(body) \in Nat
  <2>1. Len(body) \in Nat
    BY DEF ByteSeq
  <2>2. QED
    BY <2>1, SmallSize
<1>2. Encoded(e1) /\ Encoded(e2) /\ Encoded(e1 \o e2) /\ v \in U64Value
  BY <1>1, SizeEncoded, TwoEncoded, U64Facts
<1>3. Framed(type, body) = (e1 \o e2) \o body
  BY DEF Framed
<1>4. /\ Agrees(b, e1 \o e2)
      /\ Len(e1 \o e2) <= Len(b) => Drop(b, Len(e1 \o e2)) \in ByteSeq /\ Agrees(Drop(b, Len(e1 \o e2)), body)
  BY <1>2, <1>3, AgreesParts DEF Encoded
<1>5. Agrees(b, e1) /\ (Len(e1) <= Len(b) => Drop(b, Len(e1)) \in ByteSeq /\ Agrees(Drop(b, Len(e1)), e2))
  BY <1>2, <1>4, AgreesParts DEF Encoded
<1>6. Reads(h1, b, e1, type, FALSE)
  BY <1>1, <1>5, SizeReads
<1>7. ASSUME Len(e1) <= Len(b) PROVE Reads(h2, Drop(b, Len(e1)), e2, v, FALSE)
  <2>1. h1 = Ok(type, Drop(b, Len(e1)))
    BY <1>6, <1>7 DEF Reads
  <2>2. h1.rest = Drop(b, Len(e1))
    BY <2>1 DEF Ok
  <2>3. QED
    BY <1>2, <1>5, <1>7, <2>2, VarIntReads
<1>8. h1.st = "ok" => h1.val = type
  <2> HIDE DEF e1
  <2>1. CASE Len(e1) <= Len(b)
    BY <1>6, <2>1 DEF Reads, Ok
  <2>2. CASE ~(Len(e1) <= Len(b))
    BY <1>6, <2>2 DEF Reads, More, Err
  <2>3. QED
    BY <2>1, <2>2
<1> HIDE DEF e1, e2, v
<1>9. Reads(h, b, e1 \o e2, v, FALSE)
  BY <1>2, <1>6, <1>7, ThenReads DEF Encoded
<1>10. Reads(h, b, e1 \o e2, v, may)
  BY <1>9, WeakenReads
<1>11. h.st # "ok" => d = h
  BY <1>8
<1>12. ASSUME Len(e1 \o e2) <= Len(b), h.st = "ok", h.val = v, h.rest = Drop(b, Len(e1 \o e2))
       PROVE  Reads(d, Drop(b, Len(e1 \o e2)), body, w, may)
  <2>1. h1.st = "ok" /\ h2.st = "ok" /\ h2.rest = Drop(b, Len(e1 \o e2)) /\ h1.val = type
    BY <1>8, <1>12
  <2>2. QED
    BY <1>4, <1>12, <2>1
<1> HIDE DEF h
<1>13. Reads(d, b, e \o body, w, may)
  <2>1. e \in ByteSeq /\ Reads(h, b, e, v, may)
    BY <1>2, <1>10 DEF Encoded
  <2>2. Len(e) <= Len(b) /\ h.st = "ok" /\ h.val = v /\ h.rest = Drop(b, Len(e))
          => Reads(d, Drop(b, Len(e)), body, w, may)
    BY <1>12
  <2> HIDE DEF e
  <2>3. QED
    BY <1>11, <2>1, <2>2, HeadReads
<1>14. QED
  BY <1>3, <1>13

\* A type, a length and a body are an encoding.
LEMMA FramedEncoded ==
  ASSUME NEW type \in 0 .. 255, NEW body \in ByteSeq, Len(body) < Limit
  PROVE  Encoded(Framed(type, body))
<1> DEFINE e1 == EncVarInt(U64(type))
           e2 == EncVarInt(U64(Len(body)))
<1>1. type \in Nat /\ type < Limit /\ Len(body) \in Nat
  <2>1. Len(body) \in Nat
    BY DEF ByteSeq
  <2>2. QED
    BY <2>1, SmallSize
<1>2. Encoded(e1 \o e2)
  BY <1>1, SizeEncoded, TwoEncoded
<1>3. Framed(type, body) = (e1 \o e2) \o body
  BY DEF Framed
<1> HIDE DEF e1, e2
<1>4. QED
  BY <1>1, <1>2, <1>3, ConcatFacts DEF Encoded, ByteSeq

\* DecNamed by the fields it reads.
LEMMA UnfoldNamed ==
  ASSUME NEW name, NEW kinds, NEW b, NEW h, h = DecFields(kinds, b)
  PROVE  DecNamed(name, kinds, b) = IF h.st = "ok" THEN Ok(<<name, h.val>>, h.rest) ELSE h
BY DEF DecNamed, Then

\* The fields behind a type that is known.
LEMMA TypedReads ==
  ASSUME NEW types, NEW fields, NEW name \in DOMAIN types,
         \A n \in DOMAIN types : types[n] = types[name] => n = name,
         fields[name] \in Seq(Kinds), NEW vs, IsFields(fields[name], vs), NEW may \in BOOLEAN,
         \A i \in 1 .. Len(fields[name]) : /\ ~OneSided(fields[name][i], vs[i])
                                           /\ Ranged(fields[name][i], vs[i]) => may,
         NEW b \in ByteSeq, Agrees(b, EncFields(fields[name], vs))
  PROVE  Reads(DecTyped(types, fields, types[name], b), b, EncFields(fields[name], vs), <<name, vs>>, may)
<1> DEFINE kinds == fields[name]
           e == EncFields(kinds, vs)
           h == DecFields(kinds, b)
           d == DecTyped(types, fields, types[name], b)
           names == {n \in DOMAIN types : types[n] = types[name]}
<1>1. names = {name} /\ names # {} /\ (CHOOSE n \in names : TRUE) = name
  <2>1. names = {name}
    OBVIOUS
  <2>2. QED
    BY <2>1
<1>2. Reads(h, b, e, vs, may) /\ e \in ByteSeq
  BY FieldsRead, FieldsEncoded
<1>3. d = IF h.st = "ok" THEN Ok(<<name, h.val>>, h.rest) ELSE h
  <2>1. d = DecNamed(name, kinds, b)
    BY <1>1, Zenon DEF DecTyped
  <2>2. QED
    BY <2>1, UnfoldNamed
<1> HIDE DEF h, d, e
<1>4. Reads(d, b, e, <<name, vs>>, may)
  BY <1>2, <1>3, OnlyReads
<1>5. QED
  BY <1>4 DEF d, e

\* Message::decode of any bytes that agree with what Message::encode wrote, as far as both go,
\* gives the message back once it is there whole, leaving what is behind it, and asks for no
\* more than is missing before that; a message with an absolute range may instead be refused
\* for a missing field (message/mod.rs, subscribe.rs).  AbsoluteStart is excepted.
THEOREM MessageReads ==
  ASSUME NEW m, IsMessage(m)
  PROVE  /\ Encoded(EncMessage(m))
         /\ ~Lopsided(m) => \A b \in ByteSeq : Agrees(b, EncMessage(m))
              => Reads(DecMessage(b), b, EncMessage(m), m, Absolute(m))
<1> DEFINE name == m[1]
           vs == m[2]
           kinds == Fields[name]
           body == EncFields(kinds, vs)
           may == Absolute(m)
<1>1. /\ m = <<name, vs>> /\ name \in MessageNames /\ name \in DOMAIN Type /\ Type[name] \in 0 .. 255
      /\ \A n \in DOMAIN Type : Type[n] = Type[name] => n = name
      /\ kinds \in Seq(Kinds) /\ IsFields(kinds, vs) /\ Len(body) < Limit
  BY TypeFacts, FormatFacts DEF IsMessage
<1>2. body \in ByteSeq
  BY <1>1, FieldsEncoded
<1>3. EncMessage(m) = Framed(Type[name], body)
  BY DEF EncMessage
<1>4. Encoded(EncMessage(m))
  BY <1>1, <1>2, <1>3, FramedEncoded
<1>5. ASSUME ~Lopsided(m), NEW i \in 1 .. Len(kinds)
      PROVE  ~OneSided(kinds[i], vs[i]) /\ (Ranged(kinds[i], vs[i]) => may)
  <2>1. CASE kinds[i] = "window"
    <3>1. name \in {"Subscribe", "SubscribeUpdate"} /\ i = 7
      BY <1>1, <2>1, WindowFacts
    <3>2. vs[7][1] # AbsoluteStart /\ (vs[7][1] = AbsoluteRange => Absolute(m))
      BY <1>5, <3>1 DEF Lopsided, Absolute
    <3>3. QED
      BY <2>1, <3>1, <3>2 DEF OneSided, Ranged
  <2>2. CASE kinds[i] # "window"
    BY <2>2 DEF OneSided, Ranged
  <2>3. QED
    BY <2>1, <2>2
<1>6. may \in BOOLEAN
  BY DEF Absolute
<1>7. ASSUME ~Lopsided(m), NEW b \in ByteSeq, Agrees(b, EncMessage(m))
      PROVE  Reads(DecMessage(b), b, EncMessage(m), m, may)
  <2> DEFINE h1 == DecSize(b)
             h2 == DecVarInt(h1.rest)
             d == DecMessage(b)
  <2>1. h1.st # "ok" => d = h1
    BY DEF DecMessage, Then
  <2>2. h1.st = "ok" => d = IF h2.st = "ok" THEN DecTyped(Type, Fields, h1.val, h2.rest) ELSE h2
    BY DEF DecMessage, Then
  <2> HIDE DEF d, may, name, body
  <2>3. ASSUME NEW c \in ByteSeq, Agrees(c, body), h1.st = "ok", h1.val = Type[name], h2.st = "ok", h2.rest = c
        PROVE  Reads(d, c, body, m, may)
    <3>1. d = DecTyped(Type, Fields, Type[name], c)
      BY <2>2, <2>3
    <3>2. Reads(DecTyped(Type, Fields, Type[name], c), c, body, <<name, vs>>, may)
      BY <1>1, <1>5, <1>6, <1>7, <2>3, TypedReads DEF body
    <3>3. QED
      BY <1>1, <3>1, <3>2
  <2>4. Reads(d, b, Framed(Type[name], body), m, may)
    <3>1. Agrees(b, Framed(Type[name], body))
      BY <1>3, <1>7
    <3> DEFINE g1 == h1
               g2 == h2
    <3>2. h1.st = "ok" /\ h1.val = Type[name] /\ h2.st # "ok" => d = h2
      BY <2>2
    <3>3. QED
      BY <1>1, <1>2, <1>6, <2>1, <2>3, <3>1, <3>2, FramedReads
  <2>5. QED
    BY <1>3, <2>4 DEF d
<1>8. QED
  BY <1>4, <1>7

\* Formats without a window.
LEMMA PlainFacts ==
  ASSUME NEW kinds \in {TrackHeaderFields, SubgroupHeaderFields, TrackObjectFields, SubgroupObjectFields,
                        DatagramFields}
  PROVE  /\ kinds \in Seq(Kinds) /\ Len(kinds) >= 1 /\ kinds[1] = "u64"
         /\ \A i \in 1 .. Len(kinds) : kinds[i] # "window"
<1>1. kinds \in Seq(Kinds)
  BY KindsFacts DEF IsFormat
<1>2. Len(kinds) >= 1 /\ kinds[1] = "u64"
  BY DEF TrackHeaderFields, SubgroupHeaderFields, TrackObjectFields, SubgroupObjectFields, DatagramFields
<1>3. \A i \in 1 .. Len(kinds) : kinds[i] # "window"
  <2>1. CASE kinds = TrackHeaderFields
    BY <2>1 DEF TrackHeaderFields
  <2>2. CASE kinds = SubgroupHeaderFields
    BY <2>2 DEF SubgroupHeaderFields
  <2>3. CASE kinds = TrackObjectFields
    BY <2>3 DEF TrackObjectFields
  <2>4. CASE kinds = SubgroupObjectFields
    BY <2>4 DEF SubgroupObjectFields
  <2>5. CASE kinds = DatagramFields
    BY <2>5 DEF DatagramFields
  <2>6. QED
    BY <2>1, <2>2, <2>3, <2>4, <2>5
<1>4. QED
  BY <1>1, <1>2, <1>3

\* The fields of a header, an object or a datagram are read back.
LEMMA PlainRead ==
  ASSUME NEW kinds \in {TrackHeaderFields, SubgroupHeaderFields, TrackObjectFields, SubgroupObjectFields,
                        DatagramFields},
         NEW vs, IsFields(kinds, vs)
  PROVE  /\ Encoded(EncFields(kinds, vs))
         /\ \A b \in ByteSeq : Agrees(b, EncFields(kinds, vs))
              => Reads(DecFields(kinds, b), b, EncFields(kinds, vs), vs, FALSE)
<1>1. /\ kinds \in Seq(Kinds) /\ Len(kinds) >= 1 /\ Len(kinds) \in Nat
      /\ \A i \in 1 .. Len(kinds) : ~OneSided(kinds[i], vs[i]) /\ (Ranged(kinds[i], vs[i]) => FALSE)
  BY PlainFacts DEF OneSided, Ranged
<1>2. Encoded(EncFields(kinds, vs))
  <2>1. EncFields(kinds, vs) \in ByteSeq /\ Len(EncFields(kinds, vs)) \in Nat /\ Len(EncFields(kinds, vs)) >= Len(kinds)
    BY <1>1, FieldsEncoded
  <2>2. QED
    BY <1>1, <2>1 DEF Encoded
<1>3. QED
  BY <1>1, <1>2, FieldsRead

\* The header of a data stream is read back.
LEMMA HeaderReads ==
  ASSUME NEW h, IsHeader(h)
  PROVE  /\ Encoded(EncHeader(h))
         /\ \A b \in ByteSeq : Agrees(b, EncHeader(h)) => Reads(DecHeader(b), b, EncHeader(h), h, FALSE)
<1> DEFINE name == h[1]
           vs == h[2]
           kinds == HeaderFields[name]
           e1 == EncVarInt(U64(HeaderType[name]))
           e2 == EncFields(kinds, vs)
<1>1. /\ h = <<name, vs>> /\ name \in DOMAIN HeaderType /\ IsFields(kinds, vs) /\ HeaderType[name] \in 0 .. 255
      /\ kinds \in {TrackHeaderFields, SubgroupHeaderFields}
      /\ \A n \in DOMAIN HeaderType : HeaderType[n] = HeaderType[name] => n = name
  BY DataFacts DEF IsHeader
<1>2. /\ kinds \in Seq(Kinds)
      /\ \A i \in 1 .. Len(kinds) : ~OneSided(kinds[i], vs[i]) /\ (Ranged(kinds[i], vs[i]) => FALSE)
  BY <1>1, PlainFacts DEF OneSided, Ranged
<1>3. HeaderType[name] \in Nat /\ HeaderType[name] < Limit
  BY <1>1, SmallSize
<1>4. Encoded(e1) /\ Encoded(e2)
  BY <1>1, <1>3, SizeEncoded, PlainRead
<1>5. EncHeader(h) = e1 \o e2
  BY DEF EncHeader
<1>6. ASSUME NEW b \in ByteSeq, Agrees(b, e1 \o e2) PROVE Reads(DecHeader(b), b, e1 \o e2, h, FALSE)
  <2> DEFINE h1 == DecSize(b)
             d == DecHeader(b)
  <2>1. Agrees(b, e1) /\ (Len(e1) <= Len(b) => Drop(b, Len(e1)) \in ByteSeq /\ Agrees(Drop(b, Len(e1)), e2))
    BY <1>4, <1>6, AgreesParts DEF Encoded
  <2>2. Reads(h1, b, e1, HeaderType[name], FALSE)
    BY <1>3, <2>1, SizeReads
  <2>3. h1.st # "ok" => d = h1
    BY DEF DecHeader, Then
  <2>4. h1.st = "ok" => d = DecTyped(HeaderType, HeaderFields, h1.val, h1.rest)
    BY DEF DecHeader, Then
  <2> HIDE DEF h1, d, e1, e2
  <2>5. ASSUME Len(e1) <= Len(b), h1.st = "ok", h1.val = HeaderType[name], h1.rest = Drop(b, Len(e1))
        PROVE  Reads(d, Drop(b, Len(e1)), e2, h, FALSE)
    <3>1. Reads(DecTyped(HeaderType, HeaderFields, HeaderType[name], Drop(b, Len(e1))), Drop(b, Len(e1)), e2,
                <<name, vs>>, FALSE)
      BY <1>1, <1>2, <2>1, <2>5, TypedReads DEF e2
    <3>2. QED
      BY <1>1, <2>4, <2>5, <3>1
  <2> HIDE DEF name
  <2>6. Reads(d, b, e1 \o e2, h, FALSE)
    BY <1>4, <2>2, <2>3, <2>5, HeadReads DEF Encoded
  <2>7. QED
    BY <2>6 DEF d
<1>7. QED
  BY <1>4, <1>5, <1>6, TwoEncoded

\* The header of an object is read back.
LEMMA ObjectReads ==
  ASSUME NEW o, IsObject(o)
  PROVE  /\ Encoded(EncObject(o)) /\ ObjectSize(o) \in Nat
         /\ \A b \in ByteSeq : Agrees(b, EncObject(o)) => Reads(DecObject(o[1], b), b, EncObject(o), o, FALSE)
<1> DEFINE name == o[1]
           vs == o[2]
           kinds == ObjectFields[name]
           e == EncFields(kinds, vs)
<1>1. o = <<name, vs>> /\ IsFields(kinds, vs) /\ kinds \in {TrackObjectFields, SubgroupObjectFields}
  <2>1. DOMAIN ObjectFields = Objects
    BY DEF ObjectFields, Objects
  <2>2. QED
    BY <2>1, DataFacts DEF IsObject, Objects
<1>2. EncObject(o) = e
  BY DEF EncObject
<1>3. Encoded(e) /\ \A b \in ByteSeq : Agrees(b, e) => Reads(DecFields(kinds, b), b, e, vs, FALSE)
  BY <1>1, PlainRead
<1>4. ASSUME NEW b \in ByteSeq, Agrees(b, e) PROVE Reads(DecObject(name, b), b, e, o, FALSE)
  <2> DEFINE h == DecFields(kinds, b)
             d == DecObject(name, b)
  <2>1. Reads(h, b, e, vs, FALSE)
    BY <1>3, <1>4
  <2>2. d = IF h.st = "ok" THEN Ok(<<name, h.val>>, h.rest) ELSE h
    BY UnfoldNamed DEF DecObject
  <2>3. h.val = vs => <<name, h.val>> = o
    BY <1>1
  <2> HIDE DEF h, d, e, name, vs
  <2>4. Reads(d, b, e, o, FALSE)
    <3>1. e \in ByteSeq
      BY <1>3 DEF Encoded
    <3>2. h.st # "ok" => d = h
      BY <2>2
    <3>3. h.st = "ok" /\ h.val = vs => d = Ok(o, h.rest)
      BY <2>2, <2>3
    <3>4. QED
      BY <2>1, <3>1, <3>2, <3>3, OnlyReads
  <2>5. QED
    BY <2>4 DEF d
<1>5. ObjectSize(o) \in Nat
  <2> DEFINE n == Len(kinds)
  <2>1. n \in {2, 3} /\ kinds[n] = "sized"
    <3> HIDE DEF kinds
    <3>1. CASE kinds = TrackObjectFields
      BY <3>1 DEF TrackObjectFields
    <3>2. CASE kinds = SubgroupObjectFields
      BY <3>2 DEF SubgroupObjectFields
    <3>3. QED
      BY <1>1, <3>1, <3>2
  <2>2. vs = [i \in 1 .. n |-> vs[i]] /\ IsField(kinds[n], vs[n])
    <3>1. vs = [i \in 1 .. n |-> vs[i]] /\ \A i \in 1 .. n : IsField(kinds[i], vs[i])
      BY <1>1, Zenon DEF IsFields
    <3>2. n \in 1 .. n
      <4> HIDE DEF n
      <4>1. QED
        BY <2>1
    <3>3. QED
      BY <3>1, <3>2, Zenon
  <2>3. vs[n] \in SizedValue
    BY <2>1, <2>2 DEF IsField
  <2>4. vs[n][1] \in Nat
    BY <2>3 DEF SizedValue
  <2>5. Len(vs) = n
    <3> HIDE DEF n, vs
    <3>1. n \in Nat
      BY <2>1
    <3>2. Len([i \in 1 .. n |-> vs[i]]) = n
      BY <3>1
    <3>3. QED
      BY <2>2, <3>2
  <2>6. QED
    BY <2>4, <2>5 DEF ObjectSize, Last
<1>6. QED
  BY <1>2, <1>3, <1>4, <1>5

-----------------------------------------------------------------------------
(* SETUP *)

\* Every role has a code of its own.
LEMMA RoleFacts ==
  /\ DOMAIN RoleCode = {"Publisher", "Subscriber", "Both"}
  /\ \A r \in DOMAIN RoleCode : RoleCode[r] \in 1 .. 3
  /\ \A r, q \in DOMAIN RoleCode : RoleCode[r] = RoleCode[q] => r = q
BY DEF RoleCode

\* A varint has eight bytes at most.
LEMMA VarIntShort ==
  ASSUME NEW x \in U64Value
  PROVE  EncVarInt(x) \in ByteSeq /\ Len(EncVarInt(x)) \in 1 .. 8
<1>1. EncVarInt(x) \in ByteSeq /\ Len(EncVarInt(x)) = Width(x) /\ Width(x) \in {1, 2, 4, 8}
  BY EncVarIntFacts, WidthFacts
<1>2. QED
  BY <1>1

\* So has a code.
LEMMA SizeShort ==
  ASSUME NEW n \in 0 .. 255
  PROVE  /\ EncVarInt(U64(n)) \in ByteSeq /\ Len(EncVarInt(U64(n))) \in 1 .. 8
         /\ Len(EncVarInt(U64(n))) \in Nat /\ Len(EncVarInt(U64(n))) <= 8
<1>1. EncVarInt(U64(n)) \in ByteSeq /\ Len(EncVarInt(U64(n))) \in 1 .. 8
  BY SmallSize, U64Facts, VarIntShort
<1>2. \A k \in 1 .. 8 : k \in Nat /\ k <= 8
  OBVIOUS
<1>3. QED
  BY <1>1, <1>2, Zenon

\* The length of two parts in a row.
LEMMA ShortConcat ==
  ASSUME NEW e1 \in ByteSeq, NEW e2 \in ByteSeq, NEW m \in Nat, NEW n \in Nat, Len(e1) <= m, Len(e2) <= n
  PROVE  e1 \o e2 \in ByteSeq /\ Len(e1 \o e2) \in Nat /\ Len(e1 \o e2) <= m + n
<1>1. e1 \o e2 \in ByteSeq /\ Len(e1) \in Nat /\ Len(e2) \in Nat /\ Len(e1 \o e2) = Len(e1) + Len(e2)
  BY ConcatFacts DEF ByteSeq
<1>2. QED
  BY <1>1

\* A list of one value.
LEMMA OneMany ==
  ASSUME NEW kind, NEW v, EncOne(kind, v) \in ByteSeq
  PROVE  EncMany(kind, <<v>>) = EncVarInt(U64(1)) \o EncOne(kind, v)
<1> DEFINE vs == <<v>>
           seqs == [i \in 1 .. Len(vs) |-> EncOne(kind, vs[i])]
<1>1. Len(vs) = 1 /\ vs[1] = v
  OBVIOUS
<1>2. EncMany(kind, vs) = EncVarInt(U64(1)) \o FlattenSeq(seqs)
  BY <1>1, Zenon DEF EncMany
<1>3. seqs \in Seq(ByteSeq) /\ Len(seqs) = 1 /\ seqs[1] = EncOne(kind, v)
  <2> HIDE DEF vs
  <2>1. \A i \in 1 .. 1 : EncOne(kind, vs[i]) \in ByteSeq
    BY <1>1
  <2>2. QED
    BY <1>1, <2>1
<1> HIDE DEF seqs, vs
<1>4. PICK f : Joined(f, seqs) /\ FlattenSeq(seqs) = f[1]
  BY <1>3, FlattenParts
<1>5. f[1] = f[0] \o seqs[1] /\ f[0] = <<>>
  <2>1. 1 \in 1 .. Len(seqs) /\ 1 - 1 = 0
    BY <1>3
  <2>2. QED
    BY <1>4, <2>1 DEF Joined
<1>6. f[1] = EncOne(kind, v)
  BY <1>3, <1>5, ConcatEmptySeq DEF ByteSeq
<1>7. QED
  BY <1>2, <1>4, <1>6 DEF vs

\* The parameters of a SETUP with a role are short.
LEMMA RoleParamsFacts ==
  ASSUME NEW offer \in DOMAIN RoleCode
  PROVE  /\ IsParams(RoleParams(offer)) /\ EncParams(RoleParams(offer)) \in ByteSeq
         /\ Len(EncParams(RoleParams(offer))) \in Nat /\ Len(EncParams(RoleParams(offer))) <= 32
<1> DEFINE c == RoleCode[offer]
           s == EncVarInt(U64(c))
           p == <<U64(0), s>>
           ps == {p}
<1>1. RoleParams(offer) = ps
  BY DEF RoleParams
<1>2. c \in 0 .. 255 /\ 0 \in 0 .. 255 /\ 1 \in 0 .. 255
  BY RoleFacts
<1>3. s \in ByteSeq /\ Len(s) <= 8 /\ Len(s) \in 0 .. 255
  <2>1. s \in ByteSeq /\ Len(s) \in Nat /\ Len(s) <= 8
    BY <1>2, SizeShort
  <2>2. \A k \in Nat : k <= 8 => k \in 0 .. 255
    OBVIOUS
  <2>3. QED
    BY <2>1, <2>2, Zenon
<1>4. s \in StringValue
  BY <1>3, SmallSize DEF StringValue
<1>5. U64(0) \in U64Value
  BY <1>2, SmallSize, U64Facts
<1>6. IsFiniteSet(ps) /\ Cardinality(ps) = 1 /\ 1 < Limit
  <2>1. 1 < Limit
    BY <1>2, SmallSize
  <2>2. QED
    BY <2>1, FS_Singleton
<1>7. IsParams(ps)
  BY <1>4, <1>5, <1>6 DEF IsParams
<1>8. SetToSeq(ps) = <<p>>
  <2> DEFINE q == SetToSeq(ps)
  <2>1. q \in Seq(ps) /\ Len(q) = 1
    <3> HIDE DEF ps
    <3>1. q \in Seq(ps) /\ Len(q) = Cardinality(ps)
      BY <1>6, Listed
    <3>2. QED
      BY <1>6, <3>1
  <2> HIDE DEF q
  <2>2. q[1] = p
    BY <2>1
  <2>3. <<p>> \in Seq(ps) /\ Len(<<p>>) = 1 /\ <<p>>[1] = p
    OBVIOUS
  <2> HIDE DEF p
  <2>4. q = <<p>>
    BY <2>1, <2>2, <2>3, SeqEqual
  <2>5. QED
    BY <2>4 DEF q
<1> DEFINE e1 == EncVarInt(U64(1))
           e2 == EncVarInt(U64(0))
           e3 == EncVarInt(U64(Len(s)))
<1>9. EncOne("param", p) = e2 \o (e3 \o s)
  BY DEF EncOne, EncBytes
<1>10. /\ e1 \in ByteSeq /\ e2 \in ByteSeq /\ e3 \in ByteSeq
       /\ Len(e1) <= 8 /\ Len(e2) <= 8 /\ Len(e3) <= 8
  BY <1>2, <1>3, SizeShort
<1> HIDE DEF e1, e2, e3, s, ps, p
<1>11. e3 \o s \in ByteSeq /\ Len(e3 \o s) <= 16
  BY <1>3, <1>10, ShortConcat
<1> DEFINE e4 == e3 \o s
           e == e2 \o e4
<1> HIDE DEF e4
<1>12. e \in ByteSeq /\ Len(e) <= 24
  BY <1>10, <1>11, ShortConcat DEF e4
<1>13. EncParams(ps) = e1 \o e
  BY <1>8, <1>9, <1>12, OneMany DEF EncParams, e1, e4
<1> HIDE DEF e
<1>14. EncParams(ps) \in ByteSeq /\ Len(EncParams(ps)) \in Nat /\ Len(EncParams(ps)) <= 32
  BY <1>10, <1>12, <1>13, ShortConcat
<1>15. QED
  BY <1>1, <1>7, <1>14

\* The role is read back from its parameters.
LEMMA RoleReads ==
  ASSUME NEW offer \in DOMAIN RoleCode, NEW d, d = DecRole(RoleParams(offer))
  PROVE  d.st = "ok" /\ d.val = offer
<1> DEFINE c == RoleCode[offer]
           s == EncVarInt(U64(c))
           ps == RoleParams(offer)
           h == DecSize(s)
<1>1. c \in 1 .. 3 /\ c \in Nat /\ c < Limit /\ c \in 0 .. 255
  BY RoleFacts, SmallSize
<1>2. U64(0) # U64(1)
  BY DEF U64
<1> DEFINE p == <<U64(0), s>>
<1>0. ps = {p} /\ p[1] = U64(0) /\ p[2] = s
  BY DEF RoleParams
<1> HIDE DEF ps, p, s
<1>3. ParamGet(ps, U64(0)) = {s}
  BY <1>0 DEF ParamGet
<1>4. ParamGet(ps, U64(1)) = {}
  BY <1>0, <1>2 DEF ParamGet
<1>5. h.st = "ok" /\ h.val = c
  <2>1. s \in ByteSeq /\ Len(s) \in Nat
    BY <1>1, SizeShort DEF s
  <2>2. Agrees(s, s)
    BY DEF Agrees
  <2>3. Reads(h, s, s, c, FALSE)
    BY <1>1, <2>1, <2>2, SizeReads DEF s
  <2> HIDE DEF h, s, c
  <2>4. h = Ok(c, Drop(s, Len(s)))
    BY <2>1, <2>3 DEF Reads
  <2>5. QED
    BY <2>4 DEF Ok
<1>6. (CHOOSE r \in DOMAIN RoleCode : RoleCode[r] = c) = offer
  BY RoleFacts
<1>7. (CHOOSE v \in {s} : TRUE) = s
  OBVIOUS
<1>8. DecRole(ps) = Ok(offer, h.rest)
  <2> HIDE DEF ps, s, c
  <2>1. DecRole(ps) = Then(h, LAMBDA n, rest :
         CASE n \notin 1..3 -> Err("InvalidRole")
           [] ParamGet(ps, U64(1)) # {} -> Err("InvalidParameter")
           [] OTHER -> Ok(CHOOSE r \in DOMAIN RoleCode : RoleCode[r] = n, rest))
    BY <1>3, <1>7 DEF DecRole
  <2>2. QED
    BY <1>1, <1>4, <1>5, <1>6, <2>1 DEF Then
<1>9. QED
  BY <1>8 DEF Ok, ps

\* DecSetup by the parameters and the role it reads.
LEMMA UnfoldSetup ==
  ASSUME NEW name, NEW h, NEW p, p = DecParams(h.rest), NEW q, q = DecRole(p.val)
  PROVE  /\ h.st # "ok" => DecSetup(name, h) = h
         /\ h.st = "ok" /\ p.st # "ok" => DecSetup(name, h) = p
         /\ h.st = "ok" /\ p.st = "ok" /\ q.st = "ok"
              => DecSetup(name, h) = Ok(<<name, <<h.val, q.val>>>>, p.rest)
<1>1. h.st # "ok" => DecSetup(name, h) = h
  BY DEF DecSetup, Then
<1>2. h.st = "ok" /\ p.st # "ok" => DecSetup(name, h) = p
  BY DEF DecSetup, Then
<1>3. h.st = "ok" /\ p.st = "ok" /\ q.st = "ok"
              => DecSetup(name, h) = Ok(<<name, <<h.val, q.val>>>>, p.rest)
  BY DEF DecSetup, Then
<1>4. QED
  BY <1>1, <1>2, <1>3

\* What is common to the two SETUP messages is read back.
LEMMA SetupReads ==
  ASSUME NEW b \in ByteSeq, NEW e1 \in ByteSeq, NEW vs, NEW offer \in DOMAIN RoleCode, NEW name,
         NEW h, Reads(h, b, e1, vs, FALSE), Agrees(b, e1 \o EncParams(RoleParams(offer)))
  PROVE  Reads(DecSetup(name, h), b, e1 \o EncParams(RoleParams(offer)), <<name, <<vs, offer>>>>, FALSE)
<1> DEFINE ps == RoleParams(offer)
           e2 == EncParams(ps)
           p == DecParams(h.rest)
           q == DecRole(p.val)
           d == DecSetup(name, h)
           w == <<name, <<vs, offer>>>>
<1>1. IsParams(ps) /\ e2 \in ByteSeq
  BY RoleParamsFacts
<1>2. Len(e1) <= Len(b) => Drop(b, Len(e1)) \in ByteSeq /\ Agrees(Drop(b, Len(e1)), e2)
  BY <1>1, AgreesParts
<1>3. /\ h.st # "ok" => d = h
      /\ h.st = "ok" /\ p.st # "ok" => d = p
      /\ h.st = "ok" /\ p.st = "ok" /\ q.st = "ok" => d = Ok(<<name, <<h.val, q.val>>>>, p.rest)
  BY UnfoldSetup
<1>4. p.val = ps => q.st = "ok" /\ q.val = offer
  BY RoleReads
<1>5. ASSUME Len(e1) <= Len(b), h.rest = Drop(b, Len(e1)) PROVE Reads(p, Drop(b, Len(e1)), e2, ps, FALSE)
  BY <1>1, <1>2, <1>5, ParamsRead
<1> HIDE DEF ps, e2, p, q, d, w
<1>6. ASSUME Len(e1) <= Len(b), h.st = "ok", h.val = vs, h.rest = Drop(b, Len(e1))
      PROVE  Reads(d, Drop(b, Len(e1)), e2, w, FALSE)
  <2>1. Reads(p, Drop(b, Len(e1)), e2, ps, FALSE)
    BY <1>5, <1>6
  <2>2. p.st # "ok" => d = p
    BY <1>3, <1>6
  <2>3. p.st = "ok" /\ p.val = ps => d = Ok(w, p.rest)
    BY <1>3, <1>4, <1>6 DEF w
  <2>4. QED
    BY <1>1, <1>2, <1>6, <2>1, <2>2, <2>3, OnlyReads
<1>7. Reads(d, b, e1 \o e2, w, FALSE)
  BY <1>1, <1>3, <1>6, HeadReads
<1>8. QED
  BY <1>7 DEF d, e2, w, ps

\* The client's SETUP.
ClientItem(offer) == <<"Client", <<<<DRAFT_07>>, offer>>>>

\* The server's SETUP.
ServerItem(offer) == <<"Server", <<DRAFT_07, offer>>>>

\* The version is short.
LEMMA VersionFacts ==
  /\ DRAFT_07 \in U64Value /\ EncMany("version", <<DRAFT_07>>) \in ByteSeq
  /\ Len(EncMany("version", <<DRAFT_07>>)) <= 16
  /\ EncVarInt(DRAFT_07) \in ByteSeq /\ Len(EncVarInt(DRAFT_07)) <= 8
  /\ <<DRAFT_07>> \in Seq(U64Value) /\ Len(<<DRAFT_07>>) < Limit
<1> DEFINE e1 == EncVarInt(U64(1))
           e2 == EncVarInt(DRAFT_07)
<1>1. DRAFT_07 \in U64Value
  BY DEF DRAFT_07, U64Value, Byte
<1>2. e2 \in ByteSeq /\ Len(e2) <= 8
  <2>1. e2 \in ByteSeq /\ Len(e2) \in 1 .. 8
    BY <1>1, VarIntShort
  <2>2. \A k \in 1 .. 8 : k <= 8
    OBVIOUS
  <2>3. QED
    BY <2>1, <2>2, Zenon
<1>3. EncOne("version", DRAFT_07) = e2
  BY DEF EncOne
<1>4. EncMany("version", <<DRAFT_07>>) = e1 \o e2
  BY <1>2, <1>3, OneMany
<1>5. 1 \in 0 .. 255
  OBVIOUS
<1>6. e1 \in ByteSeq /\ Len(e1) <= 8
  BY <1>5, SizeShort
<1> HIDE DEF e1, e2
<1>7. e1 \o e2 \in ByteSeq /\ Len(e1 \o e2) <= 16
  BY <1>2, <1>6, ShortConcat
<1>8. <<DRAFT_07>> \in Seq(U64Value) /\ Len(<<DRAFT_07>>) < Limit
  <2>1. 1 < Limit
    BY <1>5, SmallSize
  <2>2. Len(<<DRAFT_07>>) = 1
    OBVIOUS
  <2>3. QED
    BY <1>1, <2>1, <2>2
<1>9. QED
  BY <1>1, <1>2, <1>4, <1>7, <1>8 DEF e2

\* So the body of a SETUP has a length that can be sent.
LEMMA ShortBody ==
  ASSUME NEW e \in ByteSeq, Len(e) <= 48
  PROVE  Len(e) < Limit
<1>1. Len(e) \in Nat
  BY DEF ByteSeq
<1>2. \A k \in Nat : k <= 48 => k \in 0 .. 255
  OBVIOUS
<1>3. Len(e) \in 0 .. 255
  BY <1>1, <1>2, Zenon
<1>4. QED
  BY <1>3, SmallSize

\* The client's SETUP is read back.
LEMMA ClientReads ==
  ASSUME NEW offer \in DOMAIN RoleCode
  PROVE  LET item == ClientItem(offer) IN
         /\ Encoded(EncClient(item))
         /\ \A b \in ByteSeq : Agrees(b, EncClient(item)) => Reads(DecClient(b), b, EncClient(item), item, FALSE)
<1> DEFINE item == ClientItem(offer)
           vs == <<DRAFT_07>>
           e1 == EncMany("version", vs)
           e2 == EncParams(RoleParams(offer))
           body == e1 \o e2
<1>1. e1 \in ByteSeq /\ Len(e1) <= 16 /\ e2 \in ByteSeq /\ Len(e2) <= 32
  BY VersionFacts, RoleParamsFacts
<1>2. EncClient(item) = Framed(64, body)
  <2>1. item[2][1] = vs /\ item[2][2] = offer
    BY DEF ClientItem
  <2>2. QED
    BY <2>1, Zenon DEF EncClient
<1> HIDE DEF e1, e2
<1>3. body \in ByteSeq /\ Len(body) < Limit
  <2>1. body \in ByteSeq /\ Len(body) <= 48
    BY <1>1, ShortConcat
  <2> HIDE DEF body
  <2>2. QED
    BY <2>1, ShortBody
<1>4. 64 \in 0 .. 255
  OBVIOUS
<1>5. ASSUME NEW b \in ByteSeq, Agrees(b, Framed(64, body)) PROVE Reads(DecClient(b), b, Framed(64, body), item, FALSE)
  <2> DEFINE h1 == DecSize(b)
             h2 == DecVarInt(h1.rest)
             h == DecMany("version", h2.rest)
             d == DecClient(b)
  <2>1. h1.st # "ok" => d = h1
    BY DEF DecClient, Then
  <2>2. h1.st = "ok" /\ h1.val = 64 => d = IF h2.st = "ok" THEN DecSetup("Client", h) ELSE h2
    BY DEF DecClient, Then
  <2>3. ASSUME NEW c \in ByteSeq, Agrees(c, body), h1.st = "ok", h1.val = 64, h2.st = "ok", h2.rest = c
        PROVE  Reads(d, c, body, item, FALSE)
    <3>1. Agrees(c, e1)
      BY <1>1, <2>3, AgreesParts
    <3>2. Reads(DecMany("version", c), c, e1, vs, FALSE)
      BY <3>1, VersionFacts, VersionsRead DEF e1
    <3> DEFINE g == DecMany("version", c)
    <3>3. d = DecSetup("Client", g)
      BY <2>2, <2>3
    <3> HIDE DEF d, g
    <3>4. Reads(DecSetup("Client", g), c, body, <<"Client", <<vs, offer>>>>, FALSE)
      BY <1>1, <2>3, <3>2, SetupReads DEF e2, g
    <3>5. QED
      BY <3>3, <3>4 DEF ClientItem
  <2>4. h1.st = "ok" /\ h1.val = 64 /\ h2.st # "ok" => d = h2
    BY <2>2
  <2> DEFINE may == FALSE
  <2>5. may \in BOOLEAN
    OBVIOUS
  <2> HIDE DEF d, body, item
  <2>6. \A c \in ByteSeq : Agrees(c, body) /\ h1.st = "ok" /\ h1.val = 64 /\ h2.st = "ok" /\ h2.rest = c
                            => Reads(d, c, body, item, may)
    BY <2>3
  <2> HIDE DEF may
  <2>7. Reads(d, b, Framed(64, body), item, may)
    BY <1>3, <1>4, <1>5, <2>1, <2>4, <2>5, <2>6, FramedReads
  <2>8. QED
    BY <2>7 DEF d, may
<1>6. Encoded(Framed(64, body))
  BY <1>3, <1>4, FramedEncoded
<1>7. QED
  BY <1>2, <1>5, <1>6

\* The server's SETUP is read back.
LEMMA ServerReads ==
  ASSUME NEW offer \in DOMAIN RoleCode
  PROVE  LET item == ServerItem(offer) IN
         /\ Encoded(EncServer(item))
         /\ \A b \in ByteSeq : Agrees(b, EncServer(item)) => Reads(DecServer(b), b, EncServer(item), item, FALSE)
<1> DEFINE item == ServerItem(offer)
           vs == DRAFT_07
           e1 == EncVarInt(vs)
           e2 == EncParams(RoleParams(offer))
           body == e1 \o e2
<1>1. e1 \in ByteSeq /\ Len(e1) <= 8 /\ e2 \in ByteSeq /\ Len(e2) <= 32
  BY VersionFacts, RoleParamsFacts
<1>2. EncServer(item) = Framed(65, body)
  <2>1. item[2][1] = vs /\ item[2][2] = offer
    BY DEF ServerItem
  <2>2. QED
    BY <2>1, Zenon DEF EncServer
<1> HIDE DEF e1, e2
<1>3. body \in ByteSeq /\ Len(body) < Limit
  <2>1. body \in ByteSeq /\ Len(body) <= 40 /\ Len(body) \in Nat
    BY <1>1, ShortConcat
  <2> HIDE DEF body
  <2>2. Len(body) <= 48
    BY <2>1
  <2>3. QED
    BY <2>1, <2>2, ShortBody
<1>4. 65 \in 0 .. 255
  OBVIOUS
<1>5. ASSUME NEW b \in ByteSeq, Agrees(b, Framed(65, body)) PROVE Reads(DecServer(b), b, Framed(65, body), item, FALSE)
  <2> DEFINE h1 == DecSize(b)
             h2 == DecVarInt(h1.rest)
             h == DecVarInt(h2.rest)
             d == DecServer(b)
  <2>1. h1.st # "ok" => d = h1
    BY DEF DecServer, Then
  <2>2. h1.st = "ok" /\ h1.val = 65 => d = IF h2.st = "ok" THEN DecSetup("Server", h) ELSE h2
    BY DEF DecServer, Then
  <2>3. ASSUME NEW c \in ByteSeq, Agrees(c, body), h1.st = "ok", h1.val = 65, h2.st = "ok", h2.rest = c
        PROVE  Reads(d, c, body, item, FALSE)
    <3>1. Agrees(c, e1)
      BY <1>1, <2>3, AgreesParts
    <3>2. Reads(DecVarInt(c), c, e1, vs, FALSE)
      BY <3>1, VersionFacts, VarIntReads DEF e1
    <3> DEFINE g == DecVarInt(c)
    <3>3. d = DecSetup("Server", g)
      BY <2>2, <2>3
    <3> HIDE DEF d, g
    <3>4. Reads(DecSetup("Server", g), c, body, <<"Server", <<vs, offer>>>>, FALSE)
      BY <1>1, <2>3, <3>2, SetupReads DEF e2, g
    <3>5. QED
      BY <3>3, <3>4 DEF ServerItem
  <2>4. h1.st = "ok" /\ h1.val = 65 /\ h2.st # "ok" => d = h2
    BY <2>2
  <2> DEFINE may == FALSE
  <2>5. may \in BOOLEAN
    OBVIOUS
  <2> HIDE DEF d, body, item
  <2>6. \A c \in ByteSeq : Agrees(c, body) /\ h1.st = "ok" /\ h1.val = 65 /\ h2.st = "ok" /\ h2.rest = c
                            => Reads(d, c, body, item, may)
    BY <2>3
  <2> HIDE DEF may
  <2>7. Reads(d, b, Framed(65, body), item, may)
    BY <1>3, <1>4, <1>5, <2>1, <2>4, <2>5, <2>6, FramedReads
  <2>8. QED
    BY <2>7 DEF d, may
<1>6. Encoded(Framed(65, body))
  BY <1>3, <1>4, FramedEncoded
<1>7. QED
  BY <1>2, <1>5, <1>6

\* A datagram that arrived is read back.
LEMMA DatagramReads ==
  ASSUME NEW g, IsDatagram(g)
  PROVE  Encoded(EncDatagram(g)) /\ DecDatagram(EncDatagram(g)) = Ok(g, <<>>)
<1> DEFINE vs == g[2]
           t == g[3]
           e1 == EncFields(DatagramFields, vs)
           b == e1 \o t
           h == DecFields(DatagramFields, b)
<1>1. g = <<"Datagram", vs, t>> /\ IsFields(DatagramFields, vs) /\ t \in ByteSeq /\ Number(Last(vs)) = Len(t)
  BY DEF IsDatagram
<1>2. Encoded(e1) /\ \A c \in ByteSeq : Agrees(c, e1) => Reads(DecFields(DatagramFields, c), c, e1, vs, FALSE)
  BY <1>1, PlainRead
<1>3. EncDatagram(g) = b
  BY DEF EncDatagram
<1>4. DecDatagram(b) = IF h.st = "ok"
                       THEN IF Number(Last(h.val)) # Len(h.rest) THEN Err("InvalidLength")
                            ELSE Ok(<<"Datagram", h.val, h.rest>>, <<>>)
                       ELSE h
  BY DEF DecDatagram, Then
<1> HIDE DEF e1, vs, t
<1>5. b \in ByteSeq /\ Len(b) \in Nat /\ Len(b) = Len(e1) + Len(t) /\ Len(b) >= 1 /\ Len(t) \in Nat
  BY <1>1, <1>2, ConcatFacts DEF Encoded, ByteSeq
<1>6. Agrees(b, e1)
  <2>1. \A i \in 1 .. Len(e1) : b[i] = e1[i]
    BY <1>1, <1>2, ConcatFacts DEF Encoded, ByteSeq
  <2> HIDE DEF b
  <2>2. QED
    BY <1>2, <1>5, <2>1 DEF Agrees, Encoded
<1>7. Drop(b, Len(e1)) = t
  <2>1. /\ Drop(b, Len(e1)) \in ByteSeq /\ Len(Drop(b, Len(e1))) = Len(t)
        /\ \A i \in 1 .. Len(t) : Drop(b, Len(e1))[i] = b[Len(e1) + i]
    <3> HIDE DEF b
    <3>1. Len(e1) \in Nat /\ Len(e1) <= Len(b) /\ Len(b) - Len(e1) = Len(t)
      BY <1>2, <1>5 DEF Encoded
    <3>2. /\ Drop(b, Len(e1)) \in ByteSeq /\ Len(Drop(b, Len(e1))) = Len(b) - Len(e1)
          /\ \A i \in 1 .. (Len(b) - Len(e1)) : Drop(b, Len(e1))[i] = b[Len(e1) + i]
      BY <1>5, <3>1, DropFacts
    <3>3. QED
      BY <3>1, <3>2
  <2>2. \A i \in 1 .. Len(t) : b[Len(e1) + i] = t[i]
    BY <1>1, <1>2, ConcatFacts DEF Encoded, ByteSeq
  <2>3. QED
    BY <1>1, <2>1, <2>2, SeqEqual DEF ByteSeq
<1>8. h = Ok(vs, t)
  <2>1. Reads(h, b, e1, vs, FALSE)
    BY <1>2, <1>5, <1>6
  <2> HIDE DEF h, b
  <2>2. Len(e1) <= Len(b)
    BY <1>2, <1>5 DEF Encoded
  <2>3. QED
    BY <1>7, <2>1, <2>2 DEF Reads
<1> HIDE DEF h, b
<1>9. h.st = "ok" /\ h.val = vs /\ h.rest = t
  BY <1>8 DEF Ok
<1>10. QED
  BY <1>1, <1>3, <1>4, <1>5, <1>9 DEF Encoded

-----------------------------------------------------------------------------
(* Nothing to read *)

\* Of nothing a varint asks for a byte.
LEMMA NoVarInt == DecVarInt(<<>>) = More(1) /\ DecSize(<<>>) = More(1)
<1> DEFINE d1 == decode_remaining(<<>>, 1)
<1>1. d1 = More(1)
  BY DEF decode_remaining
<1>2. d1.st # "ok"
  BY <1>1 DEF More
<1>3. DecVarInt(<<>>) = d1
  BY <1>2, UnfoldVarInt
<1>4. DecSize(<<>>) = DecVarInt(<<>>)
  BY <1>2, <1>3, UnfoldSize
<1>5. QED
  BY <1>1, <1>3, <1>4

\* What More(n) says.
LEMMA MoreFacts == \A n : More(n).st = "more" /\ More(n).n = n
BY DEF More

\* Of nothing a format that begins with a number asks for a byte.
LEMMA NoFields ==
  ASSUME NEW kinds \in Seq(Kinds), Len(kinds) >= 1, kinds[1] = "u64"
  PROVE  DecFields(kinds, <<>>) = More(1)
<1> DEFINE n == Len(kinds)
<1>0. n \in Nat /\ n >= 1
  OBVIOUS
<1>1. PICK u : /\ u[0] = Ok(<<>>, <<>>) /\ DecFields(kinds, <<>>) = u[n]
               /\ \A i \in 1 .. n : u[i] = AndField(kinds[i], u[i - 1])
  BY <1>0, WalkUpto
<1> DEFINE T == {k \in Nat : k + 1 <= n => u[k + 1] = More(1)}
<1>2. 0 \in T
  <2>1. 1 \in 1 .. n /\ 1 - 1 = 0
    BY <1>0
  <2>2. u[1] = AndField("u64", u[0])
    BY <1>1, <2>1
  <2>3. u[0].st = "ok" /\ u[0].rest = <<>>
    BY <1>1 DEF Ok
  <2>4. Dec("u64", u[0].rest) = More(1)
    BY <2>3, NoVarInt DEF Dec
  <2>5. u[1] = More(1)
    BY <2>2, <2>3, <2>4, UnfoldField, MoreFacts
  <2>6. QED
    BY <2>5
<1>3. ASSUME NEW k \in Nat, k \in T PROVE k + 1 \in T
  <2> SUFFICES ASSUME (k + 1) + 1 <= n PROVE u[(k + 1) + 1] = More(1)
    OBVIOUS
  <2>1. (k + 1) + 1 \in 1 .. n /\ ((k + 1) + 1) - 1 = k + 1 /\ k + 1 <= n
    BY <1>0
  <2>2. u[(k + 1) + 1] = AndField(kinds[(k + 1) + 1], u[k + 1])
    BY <1>1, <2>1
  <2>3. u[k + 1] = More(1)
    BY <1>3, <2>1
  <2>4. QED
    BY <2>2, <2>3, UnfoldField, MoreFacts
<1> HIDE DEF T
<1>4. n - 1 \in T
  BY <1>0, <1>2, <1>3, Induction
<1>5. u[n] = More(1)
  <2>1. (n - 1) + 1 = n /\ n <= n
    BY <1>0
  <2>2. QED
    BY <1>4, <2>1 DEF T
<1>6. QED
  BY <1>1, <1>5

\* Of nothing every decoder asks for a byte.
LEMMA NoItem ==
  /\ DecClient(<<>>) = More(1) /\ DecServer(<<>>) = More(1) /\ DecMessage(<<>>) = More(1)
  /\ DecHeader(<<>>) = More(1) /\ DecDatagram(<<>>) = More(1)
<1> DEFINE h == DecSize(<<>>)
<1>1. h = More(1) /\ h.st # "ok"
  BY NoVarInt, MoreFacts
<1>2. DecClient(<<>>) = h /\ DecServer(<<>>) = h /\ DecMessage(<<>>) = h /\ DecHeader(<<>>) = h
  <2>1. h.st # "ok" => DecClient(<<>>) = h
    BY DEF DecClient, Then
  <2>2. h.st # "ok" => DecServer(<<>>) = h
    BY DEF DecServer, Then
  <2>3. h.st # "ok" => DecMessage(<<>>) = h
    BY DEF DecMessage, Then
  <2>4. h.st # "ok" => DecHeader(<<>>) = h
    BY DEF DecHeader, Then
  <2>5. QED
    BY <1>1, <2>1, <2>2, <2>3, <2>4
<1>3. DecDatagram(<<>>) = More(1)
  <2> DEFINE g == DecFields(DatagramFields, <<>>)
  <2>1. g = More(1)
    BY PlainFacts, NoFields
  <2>2. g.st # "ok" => DecDatagram(<<>>) = g
    BY DEF DecDatagram, Then
  <2> HIDE DEF g
  <2>3. QED
    BY <2>1, <2>2, MoreFacts
<1>4. QED
  BY <1>1, <1>2, <1>3

-----------------------------------------------------------------------------
(* What lies on a stream *)

\* A sequence of whatever it holds.
IsSeq(q) == q \in Seq(ToSet(q))

\* A function of the streams.
OnStreams(f) == f = [s \in Streams |-> f[s]]

\* Where the n-th item ends.
EndOf(q, n) == IF n = 0 THEN 0 ELSE q[n].end

\* The item at i lies in the bytes between the end of the last one and its own.
LiesAt(w, q, i) ==
  LET e == EncItem(q[i].item)
      c == EndOf(q, i - 1)
  IN  /\ Encoded(e) /\ c \in Nat /\ q[i].end = c + Len(e) /\ q[i].end <= Len(w)
      /\ \A k \in 1 .. Len(e) : w[c + k] = e[k]

\* The wire is the items that were sent, one behind the other.
Laid(w, q) ==
  /\ w \in ByteSeq /\ IsSeq(q) /\ Len(w) = EndOf(q, Len(q))
  /\ \A i \in 1 .. Len(q) : LiesAt(w, q, i)

\* One of the first n items is one that is read as something else.
Lost(q, n) == \E i \in 1 .. AtMost(n, Len(q)) : Lopsided(q[i].item)

\* A reader that has got g stands at c, between two items, or is lost.
Placed(w, q, a, c, g) ==
  /\ IsSeq(g) /\ a \in 0 .. Len(w)
  /\ \/ Lost(q, Len(g))
     \/ /\ Len(g) <= Len(q) /\ c = EndOf(q, Len(g)) /\ c <= a
        /\ \A i \in 1 .. Len(g) : g[i] = q[i].item

\* What it waits for is not there yet, and belongs to the next item.
Patient(q, a, c, g, x) ==
  LET n == Len(g) + 1 IN
  \/ Lost(q, n)
  \/ x \in Nat /\ (x > 0 => x > a /\ IF n <= Len(q) THEN x <= q[n].end ELSE x = c + 1)

\* What is known of any sequence.
LEMMA SeqFacts ==
  ASSUME NEW q, IsSeq(q)
  PROVE  Len(q) \in Nat /\ DOMAIN q = 1 .. Len(q)
BY DEF IsSeq

\* Every sequence is one of what it holds.
LEMMA AnySeq ==
  ASSUME NEW S, NEW q \in Seq(S)
  PROVE  IsSeq(q)
<1>1. \A i \in 1 .. Len(q) : q[i] \in ToSet(q)
  BY DEF ToSet
<1>2. QED
  BY <1>1 DEF IsSeq

\* Where a new item is.
LEMMA AppendOne ==
  ASSUME NEW q, IsSeq(q), NEW x
  PROVE  /\ IsSeq(Append(q, x)) /\ Len(Append(q, x)) = Len(q) + 1 /\ Append(q, x)[Len(q) + 1] = x
         /\ \A i \in 1 .. Len(q) : Append(q, x)[i] = q[i]
<1> DEFINE S == ToSet(q) \cup {x}
<1>1. q \in Seq(ToSet(q))
  BY DEF IsSeq
<1>2. q \in Seq(S) /\ x \in S
  <2>1. \A i \in 1 .. Len(q) : q[i] \in S
    BY <1>1
  <2>2. QED
    BY <1>1, <2>1
<1> HIDE DEF S
<1>3. Append(q, x) \in Seq(S)
  BY <1>2
<1>4. IsSeq(Append(q, x))
  BY <1>3, AnySeq
<1>5. QED
  BY <1>2, <1>4

\* Where the items of two sequences are.
LEMMA ConcatTwo ==
  ASSUME NEW p, IsSeq(p), NEW q, IsSeq(q)
  PROVE  /\ IsSeq(p \o q) /\ Len(p \o q) = Len(p) + Len(q)
         /\ \A i \in 1 .. Len(p) : (p \o q)[i] = p[i]
         /\ \A i \in 1 .. Len(q) : (p \o q)[Len(p) + i] = q[i]
<1> DEFINE S == ToSet(p) \cup ToSet(q)
<1>1. p \in Seq(S)
  <2>1. p \in Seq(ToSet(p))
    BY DEF IsSeq
  <2>2. QED
    BY <2>1
<1>2. q \in Seq(S)
  <2>1. q \in Seq(ToSet(q))
    BY DEF IsSeq
  <2>2. QED
    BY <2>1
<1> HIDE DEF S
<1>3. p \o q \in Seq(S)
  BY <1>1, <1>2
<1>4. IsSeq(p \o q)
  BY <1>3, AnySeq
<1>5. QED
  BY <1>1, <1>2, <1>4

\* What is lost stays lost, and what is not does not become so by what is
\* written behind it.
LEMMA LostFacts ==
  ASSUME NEW q, IsSeq(q), NEW x, NEW n \in Nat
  PROVE  /\ Lost(q, n) => Lost(Append(q, x), n)
         /\ n <= Len(q) => (Lost(Append(q, x), n) <=> Lost(q, n))
         /\ Lost(q, n) => Lost(q, n + 1)
<1> DEFINE q2 == Append(q, x)
<1>1. Len(q) \in Nat /\ Len(q2) = Len(q) + 1 /\ \A i \in 1 .. Len(q) : q2[i] = q[i]
  BY AppendOne, SeqFacts
<1> HIDE DEF q2
<1>2. /\ \A i \in 1 .. AtMost(n, Len(q)) : i \in 1 .. AtMost(n, Len(q2)) /\ i \in 1 .. Len(q)
      /\ \A i \in 1 .. AtMost(n, Len(q)) : i \in 1 .. AtMost(n + 1, Len(q))
      /\ n <= Len(q) => AtMost(n, Len(q2)) = AtMost(n, Len(q))
  BY <1>1 DEF AtMost
<1>3. Lost(q, n) => Lost(q2, n)
  BY <1>1, <1>2, Zenon DEF Lost
<1>4. n <= Len(q) => (Lost(q2, n) <=> Lost(q, n))
  BY <1>1, <1>2, Zenon DEF Lost
<1>5. Lost(q, n) => Lost(q, n + 1)
  BY <1>2, Zenon DEF Lost
<1>6. QED
  BY <1>3, <1>4, <1>5 DEF q2

\* One step further the reader is lost only if it was, or by that item.
LEMMA LostNext ==
  ASSUME NEW q, IsSeq(q), NEW n \in Nat
  PROVE  /\ Lost(q, n + 1) => Lost(q, n) \/ (n + 1 <= Len(q) /\ Lopsided(q[n + 1].item))
         /\ n + 1 <= Len(q) /\ Lopsided(q[n + 1].item) => Lost(q, n + 1)
         /\ ~Lost(q, 0)
<1>1. Len(q) \in Nat
  BY SeqFacts
<1>2. /\ \A i \in 1 .. AtMost(n + 1, Len(q)) : i \in 1 .. AtMost(n, Len(q)) \/ (i = n + 1 /\ n + 1 <= Len(q))
      /\ n + 1 <= Len(q) => n + 1 \in 1 .. AtMost(n + 1, Len(q))
      /\ \A i \in 1 .. AtMost(0, Len(q)) : FALSE
  BY <1>1 DEF AtMost
<1>3. QED
  BY <1>2, Zenon DEF Lost

\* What is written behind the rest lies where its bytes are.
LEMMA LaidNext ==
  ASSUME NEW w, NEW q, Laid(w, q), NEW it, Encoded(EncItem(it)),
         NEW w2, w2 = w \o EncItem(it), NEW q2, q2 = Append(q, [item |-> it, end |-> Len(w2)])
  PROVE  Laid(w2, q2) /\ Len(w2) \in Nat /\ Len(w) \in Nat /\ Len(w) + 1 <= Len(w2)
<1> DEFINE e == EncItem(it)
           n == Len(q)
<1>1. w \in ByteSeq /\ IsSeq(q) /\ Len(w) = EndOf(q, n) /\ \A i \in 1 .. n : LiesAt(w, q, i)
  BY DEF Laid
<1>2. e \in ByteSeq /\ Len(e) \in Nat /\ Len(e) >= 1 /\ Len(w) \in Nat
  BY <1>1 DEF Encoded, ByteSeq
<1>3. /\ n \in Nat /\ IsSeq(q2) /\ Len(q2) = n + 1 /\ q2[n + 1] = [item |-> it, end |-> Len(w2)]
      /\ \A i \in 1 .. n : q2[i] = q[i]
  BY <1>1, AppendOne, SeqFacts
<1> HIDE DEF n
<1>4. /\ w2 \in ByteSeq /\ Len(w2) = Len(w) + Len(e) /\ \A k \in 1 .. Len(w) : w2[k] = w[k]
      /\ \A k \in 1 .. Len(e) : w2[Len(w) + k] = e[k]
  <2>1. w2 = w \o e
    OBVIOUS
  <2> HIDE DEF e
  <2>2. w \in Seq(Byte) /\ e \in Seq(Byte)
    BY <1>1, <1>2 DEF ByteSeq
  <2>3. /\ w \o e \in Seq(Byte) /\ Len(w \o e) = Len(w) + Len(e) /\ \A k \in 1 .. Len(w) : (w \o e)[k] = w[k]
        /\ \A k \in 1 .. Len(e) : (w \o e)[Len(w) + k] = e[k]
    BY <2>2, ConcatFacts
  <2>4. QED
    BY <2>1, <2>3, Zenon DEF ByteSeq
<1> HIDE DEF e
<1>5. \A i \in 0 .. n : EndOf(q2, i) = EndOf(q, i)
  BY <1>3 DEF EndOf
<1>6. ASSUME NEW i \in 1 .. n PROVE LiesAt(w2, q2, i)
  <2> DEFINE f == EncItem(q[i].item)
             c == EndOf(q, i - 1)
  <2>1. /\ Encoded(f) /\ c \in Nat /\ q[i].end = c + Len(f) /\ q[i].end <= Len(w)
        /\ \A k \in 1 .. Len(f) : w[c + k] = f[k]
    BY <1>1, <1>6 DEF LiesAt
  <2>2. q2[i] = q[i] /\ EndOf(q2, i - 1) = c
    BY <1>3, <1>5, <1>6
  <2> HIDE DEF f, c
  <2>3. q[i].end <= Len(w2) /\ Len(f) \in Nat
    BY <1>2, <1>4, <2>1 DEF Encoded
  <2>4. \A k \in 1 .. Len(f) : w2[c + k] = f[k]
    <3>1. \A k \in 1 .. Len(f) : c + k \in 1 .. Len(w)
      BY <1>2, <2>1, <2>3
    <3>2. QED
      BY <1>4, <2>1, <3>1
  <2>5. QED
    BY <2>1, <2>2, <2>3, <2>4 DEF LiesAt, f, c
<1>7. LiesAt(w2, q2, n + 1)
  <2>1. q2[n + 1].item = it /\ q2[n + 1].end = Len(w) + Len(e) /\ (n + 1) - 1 = n
    BY <1>3, <1>4
  <2>2. EndOf(q2, n) = Len(w)
    <3>1. n \in 0 .. n
      BY <1>3
    <3>2. QED
      BY <1>1, <1>5, <3>1
  <2>3. Len(w) + Len(e) <= Len(w2)
    BY <1>2, <1>4
  <2>4. QED
    <3>1. EncItem(q2[n + 1].item) = e /\ EndOf(q2, (n + 1) - 1) = Len(w)
      BY <2>1, <2>2 DEF e
    <3> HIDE DEF e
    <3>2. QED
      BY <1>2, <1>4, <2>1, <2>3, <3>1, Zenon DEF LiesAt, Encoded
<1>8. \A i \in 1 .. Len(q2) : LiesAt(w2, q2, i)
  <2>1. \A i \in 1 .. (n + 1) : i \in 1 .. n \/ i = n + 1
    BY <1>3
  <2>2. QED
    BY <1>3, <1>6, <1>7, <2>1, Zenon
<1>9. Len(w2) = EndOf(q2, Len(q2))
  BY <1>3 DEF EndOf
<1>10. QED
  BY <1>2, <1>3, <1>4, <1>8, <1>9 DEF Laid

\* A reader stays where it is while more is written.
LEMMA PlacedKept ==
  ASSUME NEW w, NEW q, Laid(w, q), NEW a, NEW c, NEW g, Placed(w, q, a, c, g), NEW x,
         NEW w2, Len(w2) \in Nat, Len(w) <= Len(w2), NEW q2, q2 = Append(q, x)
  PROVE  Placed(w2, q2, a, c, g)
<1>1. IsSeq(q) /\ Len(w) \in Nat /\ IsSeq(g) /\ a \in 0 .. Len(w)
  BY DEF Laid, Placed, ByteSeq
<1>2. Len(q) \in Nat /\ Len(g) \in Nat
  BY <1>1, SeqFacts
<1>3. Len(q2) = Len(q) + 1 /\ \A i \in 1 .. Len(q) : q2[i] = q[i]
  BY <1>1, AppendOne
<1>4. a \in 0 .. Len(w2)
  BY <1>1
<1>5. Lost(q, Len(g)) => Lost(q2, Len(g))
  BY <1>1, <1>2, LostFacts
<1>6. ASSUME ~Lost(q, Len(g))
      PROVE  /\ Len(g) <= Len(q2) /\ c = EndOf(q2, Len(g)) /\ c <= a
             /\ \A i \in 1 .. Len(g) : g[i] = q2[i].item
  <2>1. /\ Len(g) <= Len(q) /\ c = EndOf(q, Len(g)) /\ c <= a
        /\ \A i \in 1 .. Len(g) : g[i] = q[i].item
    BY <1>6 DEF Placed
  <2>2. \A i \in 1 .. Len(g) : i \in 1 .. Len(q)
    BY <1>2, <2>1
  <2>3. EndOf(q2, Len(g)) = EndOf(q, Len(g))
    BY <1>2, <1>3, <2>1 DEF EndOf
  <2>4. Len(g) <= Len(q2)
    BY <1>2, <1>3, <2>1
  <2>5. QED
    BY <1>3, <2>1, <2>2, <2>3, <2>4
<1>7. QED
  BY <1>1, <1>4, <1>5, <1>6 DEF Placed

\* What the reader waits for is still part of the next item.
LEMMA PatientKept ==
  ASSUME NEW w, NEW q, Laid(w, q), NEW a, NEW c, NEW g, Placed(w, q, a, c, g), NEW x,
         Patient(q, a, c, g, x), NEW it, Encoded(EncItem(it)),
         NEW w2, w2 = w \o EncItem(it), NEW q2, q2 = Append(q, [item |-> it, end |-> Len(w2)])
  PROVE  Patient(q2, a, c, g, x)
<1> DEFINE n == Len(g) + 1
<1>1. IsSeq(q) /\ Len(w) \in Nat /\ IsSeq(g) /\ a \in 0 .. Len(w) /\ Len(w) = EndOf(q, Len(q))
  BY DEF Laid, Placed, ByteSeq
<1>2. Len(q) \in Nat /\ Len(g) \in Nat /\ n \in Nat
  BY <1>1, SeqFacts
<1>3. /\ Len(q2) = Len(q) + 1 /\ \A i \in 1 .. Len(q) : q2[i] = q[i]
      /\ q2[Len(q) + 1] = [item |-> it, end |-> Len(w2)]
  BY <1>1, AppendOne
<1>4. Lost(q, n) => Lost(q2, n)
  BY <1>1, <1>2, LostFacts
<1>5. ASSUME ~Lost(q, n)
      PROVE  x \in Nat /\ (x > 0 => x > a /\ IF n <= Len(q2) THEN x <= q2[n].end ELSE x = c + 1)
  <2>1. x \in Nat /\ (x > 0 => x > a /\ IF n <= Len(q) THEN x <= q[n].end ELSE x = c + 1)
    BY <1>5 DEF Patient
  <2>2. ~Lost(q, Len(g))
    BY <1>1, <1>2, <1>5, LostFacts
  <2>3. Len(g) <= Len(q) /\ c = EndOf(q, Len(g))
    BY <2>2 DEF Placed
  <2>4. CASE n <= Len(q)
    BY <1>2, <1>3, <2>1, <2>4
  <2>5. CASE ~(n <= Len(q))
    <3>1. n = Len(q) + 1 /\ Len(g) = Len(q)
      BY <1>2, <2>3, <2>5
    <3>2. c = Len(w) /\ q2[n].end = Len(w2)
      BY <1>1, <1>3, <2>3, <3>1
    <3>3. Len(w) + 1 <= Len(w2)
      BY LaidNext
    <3>4. QED
      BY <1>1, <1>2, <1>3, <2>1, <2>5, <3>1, <3>2, <3>3
  <2>6. QED
    BY <2>4, <2>5
<1>6. QED
  BY <1>4, <1>5 DEF Patient

-----------------------------------------------------------------------------
(* What an attempt leads to *)

\* The bytes between c and a.
LEMMA SliceFacts ==
  ASSUME NEW w \in ByteSeq, NEW c \in Nat, NEW a \in 0 .. Len(w), c <= a
  PROVE  LET b == SubSeq(w, c + 1, a) IN
         b \in ByteSeq /\ Len(b) = a - c /\ Len(b) \in Nat /\ \A i \in 1 .. Len(b) : b[i] = w[c + i]
<1> DEFINE b == SubSeq(w, c + 1, a)
<1>1. w \in Seq(Byte) /\ Len(w) \in Nat /\ a \in Nat /\ a <= Len(w)
  BY DEF ByteSeq
<1>2. b \in Seq(Byte) /\ Len(b) = a - c /\ \A i \in 1 .. (a - c) : b[i] = w[c + i]
  BY <1>1
<1> HIDE DEF b
<1>3. Len(b) \in Nat
  BY <1>1, <1>2
<1>4. QED
  BY <1>2, <1>3 DEF b, ByteSeq

\* Where a reader stands that is not lost.
LEMMA Standing ==
  ASSUME NEW w, NEW q, Laid(w, q), NEW a, NEW c, NEW g, Placed(w, q, a, c, g), ~Lost(q, Len(g))
  PROVE  /\ Len(g) \in Nat /\ Len(q) \in Nat /\ Len(w) \in Nat /\ Len(g) <= Len(q)
         /\ c \in Nat /\ a \in Nat /\ c <= a /\ a <= Len(w) /\ c = EndOf(q, Len(g))
         /\ \A i \in 1 .. Len(g) : g[i] = q[i].item
         /\ IsSeq(q) /\ IsSeq(g)
<1>1. IsSeq(q) /\ w \in ByteSeq /\ IsSeq(g) /\ a \in 0 .. Len(w) /\ Len(w) = EndOf(q, Len(q))
  BY DEF Laid, Placed
<1>2. Len(q) \in Nat /\ Len(g) \in Nat /\ Len(w) \in Nat
  BY <1>1, SeqFacts DEF ByteSeq
<1>3. /\ Len(g) <= Len(q) /\ c = EndOf(q, Len(g)) /\ c <= a
      /\ \A i \in 1 .. Len(g) : g[i] = q[i].item
  BY DEF Placed
<1>4. EndOf(q, Len(g)) \in Nat
  <2>1. CASE Len(g) = Len(q)
    BY <1>1, <1>2, <2>1
  <2>2. CASE Len(g) # Len(q)
    <3>1. Len(g) + 1 \in 1 .. Len(q) /\ (Len(g) + 1) - 1 = Len(g)
      BY <1>2, <1>3, <2>2
    <3>2. LiesAt(w, q, Len(g) + 1)
      BY <3>1 DEF Laid
    <3>3. QED
      BY <3>1, <3>2 DEF LiesAt
  <2>3. QED
    BY <2>1, <2>2
<1>5. a \in Nat /\ a <= Len(w)
  BY <1>1, <1>2
<1>6. QED
  BY <1>1, <1>2, <1>3, <1>4, <1>5

\* Behind the last item there is nothing.
LEMMA NothingBehind ==
  ASSUME NEW w, NEW q, Laid(w, q), NEW a, NEW c, NEW g, Placed(w, q, a, c, g), ~Lost(q, Len(g)),
         Len(g) = Len(q)
  PROVE  a = c /\ c = Len(w) /\ SubSeq(w, c + 1, a) = <<>>
<1>1. /\ Len(w) \in Nat /\ c \in Nat /\ a \in Nat /\ c <= a /\ a <= Len(w) /\ c = EndOf(q, Len(q))
  BY Standing
<1>2. w \in Seq(Byte) /\ Len(w) = EndOf(q, Len(q))
  BY DEF Laid, ByteSeq
<1>3. a = c /\ c = Len(w)
  BY <1>1, <1>2
<1>4. SubSeq(w, c + 1, a) = <<>>
  BY <1>1, <1>2, <1>3
<1>5. QED
  BY <1>3, <1>4

\* The buffer of a reader that is not lost begins with the next item.
LEMMA AtItem ==
  ASSUME NEW w, NEW q, Laid(w, q), NEW a, NEW c, NEW g, Placed(w, q, a, c, g), ~Lost(q, Len(g)),
         Len(g) + 1 <= Len(q), NEW b, b = SubSeq(w, c + 1, a), NEW e, e = EncItem(q[Len(g) + 1].item)
  PROVE  /\ b \in ByteSeq /\ Len(b) = a - c /\ Encoded(e) /\ Agrees(b, e)
         /\ q[Len(g) + 1].end = c + Len(e) /\ q[Len(g) + 1].end <= Len(w)
<1> DEFINE n == Len(g) + 1
<1>1. /\ Len(g) \in Nat /\ Len(q) \in Nat /\ Len(w) \in Nat /\ c \in Nat /\ a \in Nat /\ c <= a /\ a <= Len(w)
      /\ c = EndOf(q, Len(g))
  BY Standing
<1>2. n \in 1 .. Len(q) /\ n - 1 = Len(g)
  BY <1>1
<1>3. LiesAt(w, q, n) /\ w \in ByteSeq
  BY <1>2 DEF Laid
<1> HIDE DEF n
<1>4. /\ Encoded(e) /\ q[n].end = c + Len(e) /\ q[n].end <= Len(w) /\ \A k \in 1 .. Len(e) : w[c + k] = e[k]
  BY <1>1, <1>2, <1>3 DEF LiesAt
<1>5. b \in ByteSeq /\ Len(b) = a - c /\ Len(b) \in Nat /\ \A i \in 1 .. Len(b) : b[i] = w[c + i]
  <2>1. a \in 0 .. Len(w)
    BY <1>1
  <2>2. QED
    BY <1>1, <1>3, <2>1, SliceFacts
<1>6. Agrees(b, e)
  <2>1. Len(e) \in Nat
    BY <1>4 DEF Encoded
  <2>2. ASSUME NEW i \in 1 .. Len(b), i <= Len(e) PROVE b[i] = e[i]
    <3>1. i \in 1 .. Len(e)
      BY <1>5, <2>1, <2>2
    <3>2. QED
      BY <1>4, <1>5, <2>2, <3>1
  <2>3. QED
    BY <2>2 DEF Agrees
<1>7. QED
  BY <1>4, <1>5, <1>6 DEF n

\* The next item ends within what was written.
LEMMA NextEnds ==
  ASSUME NEW w, NEW q, Laid(w, q), NEW a, NEW c, NEW g, Placed(w, q, a, c, g), ~Lost(q, Len(g)),
         Len(g) + 1 <= Len(q)
  PROVE  q[Len(g) + 1].end \in Nat /\ c < q[Len(g) + 1].end /\ q[Len(g) + 1].end <= Len(w)
<1>0. PICK b, e : b = SubSeq(w, c + 1, a) /\ e = EncItem(q[Len(g) + 1].item)
  OBVIOUS
<1>1. a \in Nat /\ c \in Nat /\ Len(g) \in Nat /\ Len(w) \in Nat
  BY Standing
<1>2. Encoded(e)
  BY <1>0, AtItem
<1>3. Len(e) \in Nat /\ Len(e) >= 1
  BY <1>2 DEF Encoded
<1>4. q[Len(g) + 1].end = c + Len(e)
  BY <1>0, <1>1, <1>3, AtItem
<1>5. q[Len(g) + 1].end <= Len(w)
  BY <1>0, AtItem
<1>6. QED
  BY <1>1, <1>3, <1>4, <1>5

\* What the decode d of a part of the item, up to a, can be: it ends at end.
Outcomes(d, a, end, item, may) ==
  \/ d.st = "more" /\ a + d.n \in Nat /\ a + d.n > a /\ a + d.n <= end
  \/ d.st = "err" /\ may /\ d.why = "MissingField" /\ a < end
  \/ d.st = "ok" /\ d.val = item /\ a - Len(d.rest) = end /\ a - Len(d.rest) <= a

\* What an attempt on the next item leads to.
LEMMA Outcome ==
  ASSUME NEW w, NEW q, Laid(w, q), NEW a, NEW c, NEW g, Placed(w, q, a, c, g), ~Lost(q, Len(g)),
         Len(g) + 1 <= Len(q), NEW b, b = SubSeq(w, c + 1, a), NEW e, e = EncItem(q[Len(g) + 1].item),
         NEW d, NEW may \in BOOLEAN, Reads(d, b, e, q[Len(g) + 1].item, may)
  PROVE  Outcomes(d, a, q[Len(g) + 1].end, q[Len(g) + 1].item, may)
<1> DEFINE m == q[Len(g) + 1].item
           end == q[Len(g) + 1].end
<1>1. a \in Nat /\ c \in Nat /\ c <= a /\ Len(g) \in Nat
  BY Standing
<1>2. b \in ByteSeq /\ Len(b) = a - c /\ Encoded(e) /\ end = c + Len(e)
  <2>1. b \in ByteSeq
    BY AtItem
  <2>2. Len(b) = a - c
    BY <1>1, AtItem
  <2>3. Encoded(e)
    BY AtItem
  <2>4. Len(e) \in Nat
    BY <2>3 DEF Encoded
  <2>5. q[Len(g) + 1].end = c + Len(e)
    BY <1>1, <2>4, AtItem
  <2>6. QED
    BY <2>1, <2>2, <2>3, <2>5
<1>3. Reads(d, b, e, m, may)
  OBVIOUS
<1>4. Len(e) \in Nat /\ Len(b) \in Nat
  BY <1>2 DEF Encoded, ByteSeq
<1> HIDE DEF m, end
<1>5. CASE Len(e) <= Len(b)
  <2>1. d = Ok(m, Drop(b, Len(e)))
    BY <1>3, <1>5 DEF Reads
  <2>2. Len(Drop(b, Len(e))) = Len(b) - Len(e)
    BY <1>2, <1>4, <1>5, DropFacts
  <2>3. d.st = "ok" /\ d.val = m /\ d.rest = Drop(b, Len(e))
    BY <2>1 DEF Ok
  <2>4. a - Len(d.rest) = end /\ a - Len(d.rest) <= a
    <3>1. a - (Len(b) - Len(e)) = end /\ end <= a
      <4>1. \A x, y, z, u \in Nat : u = x - y /\ z <= u => x - (u - z) = y + z /\ y + z <= x
        OBVIOUS
      <4>2. Len(b) = a - c /\ end = c + Len(e)
        BY <1>2
      <4>3. a - (Len(b) - Len(e)) = c + Len(e) /\ c + Len(e) <= a
        BY <1>1, <1>4, <1>5, <4>1, <4>2, Zenon
      <4>4. QED
        BY <4>2, <4>3, Zenon
    <3>2. QED
      BY <2>2, <2>3, <3>1
  <2>5. QED
    BY <2>3, <2>4 DEF m, end, Outcomes
<1>6. CASE ~(Len(e) <= Len(b))
  <2>1. (\E n \in 1 .. (Len(e) - Len(b)) : d = More(n)) \/ (may /\ d = Err("MissingField"))
    BY <1>3, <1>6 DEF Reads
  <2>2. CASE \E n \in 1 .. (Len(e) - Len(b)) : d = More(n)
    <3>1. PICK n \in 1 .. (Len(e) - Len(b)) : d = More(n)
      BY <2>2
    <3>2. d.st = "more" /\ d.n = n
      BY <3>1, MoreFacts
    <3>3. a + n \in Nat /\ a + n > a /\ a + n <= end
      BY <1>1, <1>2, <1>4, <1>6
    <3>4. QED
      BY <3>2, <3>3 DEF end, Outcomes
  <2>3. CASE may /\ d = Err("MissingField")
    <3>1. d.st = "err" /\ d.why = "MissingField"
      BY <2>3 DEF Err
    <3>2. a < end
      BY <1>1, <1>2, <1>4, <1>6
    <3>3. QED
      BY <2>3, <3>1, <3>2 DEF end, Outcomes
  <2>4. QED
    BY <2>1, <2>2, <2>3
<1>7. QED
  BY <1>5, <1>6

\* The reader that took the next item stands behind it.
LEMMA Taken ==
  ASSUME NEW w, NEW q, Laid(w, q), NEW a, NEW c, NEW g, Placed(w, q, a, c, g), ~Lost(q, Len(g)),
         Len(g) + 1 <= Len(q), q[Len(g) + 1].end <= a
  PROVE  Placed(w, q, a, q[Len(g) + 1].end, Append(g, q[Len(g) + 1].item))
<1> DEFINE n == Len(g) + 1
           c2 == q[n].end
           g2 == Append(g, q[n].item)
<1>1. /\ Len(g) \in Nat /\ Len(q) \in Nat /\ IsSeq(g) /\ a \in 0 .. Len(w)
      /\ \A i \in 1 .. Len(g) : g[i] = q[i].item
  BY Standing DEF Placed
<1>2. IsSeq(g2) /\ Len(g2) = n /\ g2[n] = q[n].item /\ \A i \in 1 .. Len(g) : g2[i] = g[i]
  BY <1>1, AppendOne
<1>3. c2 = EndOf(q, n)
  BY <1>1 DEF EndOf
<1>4. \A i \in 1 .. n : i \in 1 .. Len(g) \/ i = n
  BY <1>1
<1>5. n <= Len(q)
  OBVIOUS
<1> HIDE DEF n, g2
<1>6. \A i \in 1 .. n : g2[i] = q[i].item
  BY <1>1, <1>2, <1>4, Zenon
<1>7. c2 <= a
  BY DEF n
<1> HIDE DEF c2
<1>8. Placed(w, q, a, c2, g2)
  BY <1>1, <1>2, <1>3, <1>5, <1>6, <1>7 DEF Placed
<1>9. QED
  BY <1>8 DEF n, c2, g2

\* A reader that does not wait, or waits for a byte of the next item, or for
\* the first byte behind the last one.
LEMMA PatientFacts ==
  ASSUME NEW q, NEW a, NEW c, NEW g
  PROVE  /\ Patient(q, a, c, g, 0)
         /\ \A x \in Nat : x > a /\ Len(g) + 1 <= Len(q) /\ x <= q[Len(g) + 1].end => Patient(q, a, c, g, x)
         /\ \A x \in Nat : x > a /\ ~(Len(g) + 1 <= Len(q)) /\ x = c + 1 => Patient(q, a, c, g, x)
<1>1. Patient(q, a, c, g, 0)
  BY DEF Patient
<1>2. \A x \in Nat : x > a /\ Len(g) + 1 <= Len(q) /\ x <= q[Len(g) + 1].end => Patient(q, a, c, g, x)
  BY Zenon DEF Patient
<1>3. \A x \in Nat : x > a /\ ~(Len(g) + 1 <= Len(q)) /\ x = c + 1 => Patient(q, a, c, g, x)
  BY Zenon DEF Patient
<1>4. QED
  BY <1>1, <1>2, <1>3

-----------------------------------------------------------------------------
(* Scripts *)

\* An item goes by its name.
LEMMA EncItemFacts ==
  ASSUME NEW it
  PROVE  /\ it[1] = "Client" => EncItem(it) = EncClient(it)
         /\ it[1] = "Server" => EncItem(it) = EncServer(it)
         /\ IsMessage(it) => EncItem(it) = EncMessage(it)
         /\ IsHeader(it) => EncItem(it) = EncHeader(it) /\ it[1] \in {"Track", "Subgroup"}
         /\ IsObject(it) => EncItem(it) = EncObject(it) /\ it[1] \in Objects
         /\ IsByte(it) => EncItem(it) = it[2]
         /\ IsDatagram(it) => EncItem(it) = EncDatagram(it) /\ it[1] = "Datagram"
<1> DEFINE name == it[1]
<1>1. DOMAIN ObjectFields = Objects
  BY DEF ObjectFields, Objects
<1>2. /\ IsMessage(it) => name \in MessageNames
      /\ IsHeader(it) => name \in {"Track", "Subgroup"}
      /\ IsObject(it) => name \in Objects
  BY <1>1, TypeFacts, DataFacts DEF IsMessage, IsHeader, IsObject
<1>3. IsByte(it) => name = "byte"
  BY DEF IsByte
<1>4. IsDatagram(it) => name = "Datagram"
  <2> SUFFICES ASSUME IsDatagram(it) PROVE name = "Datagram"
    OBVIOUS
  <2>1. it = <<"Datagram", it[2], it[3]>>
    BY DEF IsDatagram
  <2> DEFINE x == it[2]
             y == it[3]
  <2> HIDE DEF x, y
  <2>2. <<"Datagram", x, y>>[1] = "Datagram"
    OBVIOUS
  <2>3. QED
    BY <2>1, <2>2 DEF x, y
<1> HIDE DEF name
<1>5. EncItem(it) =
        CASE name = "Client" -> EncClient(it)
          [] name = "Server" -> EncServer(it)
          [] name \in MessageNames -> EncMessage(it)
          [] name \in {"Track", "Subgroup"} -> EncHeader(it)
          [] name \in Objects -> EncObject(it)
          [] name = "byte" -> it[2]
          [] name = "Datagram" -> EncDatagram(it)
  BY TypeFacts, DataFacts DEF EncItem, name
<1>6. /\ name = "Client" => EncItem(it) = EncClient(it)
      /\ name = "Server" => EncItem(it) = EncServer(it)
      /\ name \in MessageNames => EncItem(it) = EncMessage(it)
      /\ name \in {"Track", "Subgroup"} => EncItem(it) = EncHeader(it)
      /\ name \in Objects => EncItem(it) = EncObject(it)
      /\ name = "byte" => EncItem(it) = it[2]
      /\ name = "Datagram" => EncItem(it) = EncDatagram(it)
  BY <1>5 DEF MessageNames, Objects
<1>7. QED
  BY <1>2, <1>3, <1>4, <1>6 DEF name

\* A byte of payload is one byte on the wire.
LEMMA ByteFacts ==
  ASSUME NEW it, IsByte(it)
  PROVE  /\ Encoded(EncItem(it)) /\ Len(EncItem(it)) = 1 /\ it = <<"byte", <<EncItem(it)[1]>>>>
         /\ it[1] = "byte"
<1> DEFINE x == it[2][1]
<1>1. it = <<"byte", it[2]>> /\ it[2] = <<x>> /\ x \in Byte
  BY DEF IsByte
<1> HIDE DEF x
<1>2. EncItem(it) = <<x>>
  BY <1>1, EncItemFacts
<1>3. it = <<"byte", <<x>>>>
  BY <1>1, Zenon
<1>4. <<x>> \in ByteSeq /\ Len(<<x>>) = 1 /\ <<x>>[1] = x
  BY <1>1 DEF ByteSeq
<1>5. it[1] = "byte"
  BY <1>3
<1>6. QED
  BY <1>2, <1>3, <1>4, <1>5 DEF Encoded

\* Only messages can be read as something else than what was written.
LEMMA AbsoluteFacts ==
  ASSUME NEW it
  PROVE  /\ Absolute(it) \in BOOLEAN /\ (Lopsided(it) => Absolute(it))
         /\ Absolute(it) => it[1] \in {"Subscribe", "SubscribeUpdate"}
<1>1. Absolute(it) \in BOOLEAN
  BY DEF Absolute
<1>2. QED
  BY <1>1 DEF Absolute, Lopsided

\* What the rules for a script say of each item.
LEMMA ScriptFacts ==
  ASSUME NEW sc \in Scripts
  PROVE  /\ sc.client \in DOMAIN RoleCode /\ sc.server \in DOMAIN RoleCode /\ sc.on \in Streams
         /\ IsSeq(sc.items) /\ Len(sc.items) \in Nat
         /\ sc.on \in Control => \A i \in 1 .. Len(sc.items) : IsMessage(sc.items[i])
         /\ sc.on = "data" => /\ Len(sc.items) >= 1 /\ IsHeader(sc.items[1])
                              /\ \A i \in 2 .. Len(sc.items) : IsByte(sc.items[i]) \/ IsObject(sc.items[i])
         /\ sc.on = "dgram" => Len(sc.items) = 1 /\ IsDatagram(sc.items[1])
<1>1. IsScript(sc)
  BY ScriptsAssumption
<1>2. IsSeq(sc.items) /\ Len(sc.items) \in Nat
  BY <1>1, SeqFacts DEF IsScript, IsSeq
<1>3. sc.on = "data" => /\ Len(sc.items) >= 1 /\ IsHeader(sc.items[1])
                        /\ \A i \in 2 .. Len(sc.items) : IsByte(sc.items[i]) \/ IsObject(sc.items[i])
  BY <1>1, Zenon DEF IsScript, IsDataStream, IsObjectOf
<1>4. QED
  BY <1>1, <1>2, <1>3, Zenon DEF IsScript

\* What a script has to send has an encoding.
LEMMA ScriptEncoded ==
  ASSUME NEW sc \in Scripts, NEW i \in 1 .. Len(sc.items)
  PROVE  /\ Encoded(EncItem(sc.items[i]))
         /\ sc.on \notin Control => ~Lopsided(sc.items[i])
<1> DEFINE it == sc.items[i]
<1>0. sc.on \in Streams /\ Len(sc.items) \in Nat
  BY ScriptFacts
<1>1. CASE sc.on \in Control
  <2>1. IsMessage(it)
    BY <1>1, ScriptFacts
  <2> HIDE DEF it
  <2>2. EncItem(it) = EncMessage(it) /\ Encoded(EncMessage(it))
    BY <2>1, EncItemFacts, MessageReads
  <2>3. QED
    BY <1>1, <2>2 DEF it
<1>2. CASE sc.on = "data"
  <2>1. IsHeader(it) \/ IsByte(it) \/ IsObject(it)
    <3>1. i = 1 \/ i \in 2 .. Len(sc.items)
      BY <1>0
    <3>2. QED
      BY <1>2, <3>1, ScriptFacts
  <2> HIDE DEF it
  <2>2. IsHeader(it) => Encoded(EncItem(it)) /\ it[1] \in {"Track", "Subgroup"}
    BY EncItemFacts, HeaderReads
  <2>3. IsByte(it) => Encoded(EncItem(it)) /\ it[1] = "byte"
    BY ByteFacts
  <2>4. IsObject(it) => Encoded(EncItem(it)) /\ it[1] \in Objects
    BY EncItemFacts, ObjectReads
  <2>5. it[1] \notin {"Subscribe", "SubscribeUpdate"}
    BY <2>1, <2>2, <2>3, <2>4 DEF Objects
  <2>6. QED
    BY <2>1, <2>2, <2>3, <2>4, <2>5, AbsoluteFacts DEF it
<1>3. CASE sc.on = "dgram"
  <2>1. i = 1
    BY <1>0, <1>3, ScriptFacts
  <2>2. IsDatagram(it)
    BY <1>3, <2>1, ScriptFacts
  <2> HIDE DEF it
  <2>3. EncItem(it) = EncDatagram(it) /\ Encoded(EncDatagram(it)) /\ it[1] = "Datagram"
    BY <2>2, EncItemFacts, DatagramReads
  <2>4. QED
    BY <2>3, AbsoluteFacts DEF it
<1>4. QED
  BY <1>0, <1>1, <1>2, <1>3 DEF Streams

-----------------------------------------------------------------------------
(* The inductive invariant *)

\* What the server lowers its role to.
Agreed == Downgrade(script.server, script.client)

\* How many items, the SETUP, come before those of the script.
Before(s) == IF s \in Control THEN 1 ELSE 0

\* The i-th item of a stream.
ItemAt(s, i) ==
  IF i > Before(s) THEN script.items[i - Before(s)]
  ELSE IF s = "c2s" THEN ClientItem(script.client) ELSE ServerItem(Agreed)

\* Which variables are functions of the streams and of the ends.
Maps ==
  /\ OnStreams(wire) /\ OnStreams(ended) /\ OnStreams(sent) /\ OnStreams(arrived) /\ OnStreams(consumed)
  /\ OnStreams(need) /\ OnStreams(pc) /\ OnStreams(got) /\ OnStreams(fate)
  /\ role = [e \in {Client, Server} |-> role[e]] /\ up = [e \in {Client, Server} |-> up[e]]

\* What was sent on s is what the script says, by an end that has the half for it.
Sends(s) ==
  /\ IF s = script.on /\ next > 1 THEN Len(sent[s]) = next - 1 + Before(s) ELSE Len(sent[s]) <= Before(s)
  /\ \A i \in 1 .. Len(sent[s]) :
       /\ sent[s][i].item = ItemAt(s, i)
       /\ i > Before(s) => up[From[s]] = "up" /\ MaySend(From[s], sent[s][i].item)

\* That is so on every stream.
Scripted ==
  /\ script \in Scripts /\ next \in 1 .. (Len(script.items) + 1)
  /\ \A s \in Streams : Sends(s)

\* How far the two ends are: what they sent and got, their roles, and what is read next.
Handshake ==
  /\ up[Client] \in {"idle", "setup", "up"} /\ up[Server] \in {"setup", "up", "failed"}
  /\ role[Client] = IF up[Client] = "up" THEN Downgrade(script.client, Agreed) ELSE script.client
  /\ role[Server] = IF up[Server] = "up" THEN Agreed ELSE script.server
  /\ IF up[Server] = "up" THEN Agreed \in DOMAIN RoleCode /\ Len(sent["s2c"]) >= 1 ELSE Len(sent["s2c"]) = 0
  /\ IF up[Client] = "up" THEN up[Server] = "up" /\ Len(got["s2c"]) >= 1 /\ pc["s2c"] \in {"message", "failed"}
     ELSE Len(got["s2c"]) = 0 /\ pc["s2c"] = "server"
  /\ IF up[Server] = "setup" THEN Len(got["c2s"]) = 0 /\ pc["c2s"] = "client"
     ELSE Len(got["c2s"]) >= 1 /\ pc["c2s"] \in {"message", "failed"}
  /\ (up[Client] = "idle") <=> (Len(sent["c2s"]) = 0)

\* The data stream is read as a header, then objects, each with its payload.
InData ==
  LET n == Len(got["data"])
      items == script.items
  IN  /\ pc["data"] \in {"header", "payload", "end", "failed"} \cup Objects
      /\ pc["data"] = "header" => n = 0
      /\ pc["data"] \in Objects \cup {"payload"} => n >= 1
      /\ pc["data"] \in Objects => /\ pc["data"] = ObjectOf(items[1][1]) /\ Closed(items, n)
                                   /\ need["data"] > 0 => arrived["data"] > consumed["data"]
      /\ pc["data"] = "payload" =>
           /\ need["data"] = 0 /\ remain \in 1 .. (Len(items) - n) /\ Closed(items, n + remain)
           /\ \A i \in (n + 1) .. (n + remain) : IsByte(items[i])

\* A datagram arrives whole.
InDatagram ==
  /\ pc["dgram"] \in {"datagram", "end", "failed"} /\ (pc["dgram"] = "datagram" => Len(got["dgram"]) = 0)
  /\ arrived["dgram"] \in {0, Len(wire["dgram"])}

\* Only the data stream ends, and is reset only half way.
Ends ==
  /\ \A s \in Streams \ {"data"} : ended[s] = "open"
  /\ ended["data"] \in {"open", "fin", "reset"}
  /\ ended["data"] # "open" => script.on = "data" /\ next >= 2
  /\ ended["data"] = "reset" => next <= Len(script.items)

\* Why a reader failed.
Cause(sc, nx, q, a, g, e, f) ==
  LET n == Len(g) IN
  \/ f \in {"More", "WrongSize", "transport"} /\ e # "open" /\ nx <= Len(sc.items)
  \/ f = "setup" /\ sc.client = sc.server /\ sc.client # "Both"
  \/ f = "unimplemented" /\ g[n][1] \in Unimplemented
  \/ f = "MissingField" /\ n + 1 <= Len(q) /\ Absolute(q[n + 1].item) /\ a < q[n + 1].end

\* The reader of s stands between two items, waits for no more than the next one,
\* and failed only for a cause.
Well(s) ==
  /\ Laid(wire[s], sent[s])
  /\ Placed(wire[s], sent[s], arrived[s], consumed[s], got[s])
  /\ Patient(sent[s], arrived[s], consumed[s], got[s], need[s])
  /\ pc[s] = "failed" => \/ Lost(sent[s], Len(got[s]) + 1)
                         \/ Cause(script, next, sent[s], arrived[s], got[s], ended[s], fate[s])

\* The inductive invariant.
FramingInv ==
  /\ Maps /\ Scripted /\ Handshake /\ InData /\ InDatagram /\ Ends
  /\ \A s \in Streams : Well(s)

-----------------------------------------------------------------------------
(* The invariant implies the properties *)

\* The streams and their two ends.
LEMMA NamesOfStreams ==
  /\ Streams = {"c2s", "s2c", "data", "dgram"} /\ Control = {"c2s", "s2c"}
  /\ To["c2s"] = Server /\ To["s2c"] = Client /\ To["data"] = Client /\ To["dgram"] = Client
  /\ From["c2s"] = Client /\ From["s2c"] = Server /\ From["data"] = Server /\ From["dgram"] = Server
  /\ Client # Server
<1>1. Streams = {"c2s", "s2c", "data", "dgram"} /\ Control = {"c2s", "s2c"}
  BY DEF Streams, Control
<1>2. /\ To["c2s"] = Server /\ To["s2c"] = Client /\ To["data"] = Client /\ To["dgram"] = Client
      /\ From["c2s"] = Client /\ From["s2c"] = Server /\ From["data"] = Server /\ From["dgram"] = Server
  BY DEF To, From
<1>3. QED
  BY <1>1, <1>2 DEF Client, Server

\* The server lowers its role to what the client offers, and the client its
\* own to what is left: then one has a half exactly if the other has its peer.
LEMMA RolesMatch ==
  ASSUME NEW c \in DOMAIN RoleCode, NEW v \in DOMAIN RoleCode, NEW r, r = Downgrade(v, c)
  PROVE  /\ r = "none" <=> c = v /\ c # "Both"
         /\ r # "none" => /\ r \in DOMAIN RoleCode /\ Downgrade(c, r) \in DOMAIN RoleCode
                          /\ Downgrade(c, r) # "none" /\ is_compatible(Downgrade(c, r), r)
<1>1. DOMAIN RoleCode = {"Publisher", "Subscriber", "Both"}
  BY RoleFacts
<1>2. /\ r = "none" <=> c = v /\ c # "Both"
      /\ r # "none" => r \in DOMAIN RoleCode
  BY <1>1 DEF Downgrade
<1>3. ASSUME r # "none"
      PROVE  Downgrade(c, r) \in DOMAIN RoleCode /\ is_compatible(Downgrade(c, r), r)
  <2>1. CASE c = "Both" /\ v = "Both"
    BY <1>1, <1>3, <2>1 DEF Downgrade, is_compatible, IsPublisher, IsSubscriber
  <2>2. CASE c = "Both" /\ v # "Both"
    BY <1>1, <1>3, <2>2 DEF Downgrade, is_compatible, IsPublisher, IsSubscriber
  <2>3. CASE c # "Both"
    BY <1>1, <1>3, <2>3 DEF Downgrade, is_compatible, IsPublisher, IsSubscriber
  <2>4. QED
    BY <2>1, <2>2, <2>3
<1>4. QED
  BY <1>1, <1>2, <1>3

\* The four properties are parts of the invariant, or follow from the handshake.
LEMMA InvImplies ==
  ASSUME FramingInv
  PROVE  InStep /\ NeverOverwaits /\ FailsForCause /\ RolesFit
<1>1. \A s \in Streams : \A n : Derailed(s, n) <=> Lost(sent[s], n)
  BY DEF Derailed, Lost
<1>2. InStep
  <2> SUFFICES ASSUME NEW s \in Streams, ~Lost(sent[s], Len(got[s]))
               PROVE  /\ Len(got[s]) <= Len(sent[s])
                      /\ \A i \in 1 .. Len(got[s]) : got[s][i] = sent[s][i].item
                      /\ consumed[s] = IF Len(got[s]) = 0 THEN 0 ELSE sent[s][Len(got[s])].end
    BY <1>1, Zenon DEF InStep
  <2>1. Placed(wire[s], sent[s], arrived[s], consumed[s], got[s])
    BY DEF FramingInv, Well
  <2>2. QED
    BY <2>1 DEF Placed, EndOf
<1>3. NeverOverwaits
  <2> SUFFICES ASSUME NEW s \in Streams, need[s] > 0, Len(got[s]) + 1 <= Len(sent[s]),
                      ~Lost(sent[s], Len(got[s]) + 1)
               PROVE  need[s] <= sent[s][Len(got[s]) + 1].end
    BY <1>1, Zenon DEF NeverOverwaits
  <2>1. Patient(sent[s], arrived[s], consumed[s], got[s], need[s])
    BY DEF FramingInv, Well
  <2>2. QED
    BY <2>1 DEF Patient
<1>4. FailsForCause
  <2> SUFFICES ASSUME NEW s \in Streams, pc[s] = "failed", ~Lost(sent[s], Len(got[s]) + 1)
               PROVE  LET n == Len(got[s]) IN
                      CASE fate[s] \in {"More", "WrongSize", "transport"} -> ended[s] # "open" /\ next <= Len(script.items)
                        [] fate[s] = "setup" -> script.client = script.server /\ script.client # "Both"
                        [] fate[s] = "unimplemented" -> got[s][n][1] \in Unimplemented
                        [] fate[s] = "MissingField" -> /\ Absolute(sent[s][n + 1].item)
                                                       /\ arrived[s] < sent[s][n + 1].end
                        [] OTHER -> FALSE
    BY <1>1, Zenon DEF FailsForCause
  <2>1. Cause(script, next, sent[s], arrived[s], got[s], ended[s], fate[s])
    BY DEF FramingInv, Well
  <2>2. QED
    BY <2>1 DEF Cause
<1>5. RolesFit
  <2> SUFFICES ASSUME up[Client] = "up", up[Server] = "up" PROVE is_compatible(role[Client], role[Server])
    BY DEF RolesFit
  <2>1. /\ role[Client] = Downgrade(script.client, Agreed) /\ role[Server] = Agreed
        /\ Agreed \in DOMAIN RoleCode /\ script \in Scripts
    BY DEF FramingInv, Handshake, Scripted
  <2>2. script.client \in DOMAIN RoleCode /\ script.server \in DOMAIN RoleCode /\ Agreed # "none"
    BY <2>1, ScriptFacts, RoleFacts
  <2>3. QED
    BY <2>1, <2>2, RolesMatch DEF Agreed
<1>6. QED
  BY <1>2, <1>3, <1>4, <1>5

\* Nothing is written and nothing is read.
LEMMA NothingYet ==
  /\ Laid(<<>>, <<>>) /\ Placed(<<>>, <<>>, 0, 0, <<>>) /\ Patient(<<>>, 0, 0, <<>>, 0)
  /\ IsSeq(<<>>) /\ Len(<<>>) = 0
<1>1. <<>> \in ByteSeq /\ <<>> \in Seq({}) /\ Len(<<>>) = 0
  BY DEF ByteSeq
<1>2. IsSeq(<<>>)
  BY <1>1, AnySeq
<1>3. EndOf(<<>>, 0) = 0
  BY DEF EndOf
<1>4. Laid(<<>>, <<>>)
  BY <1>1, <1>2, <1>3 DEF Laid
<1>5. Placed(<<>>, <<>>, 0, 0, <<>>)
  BY <1>1, <1>2, <1>3 DEF Placed
<1>6. QED
  BY <1>1, <1>2, <1>4, <1>5, PatientFacts

\* The invariant holds at the start.
LEMMA InitFramingInv ==
  ASSUME FramingInit
  PROVE  FramingInv
<1>0. "c2s" \in Streams /\ "s2c" \in Streams /\ "data" \in Streams /\ "dgram" \in Streams
  BY NamesOfStreams
<1>1. /\ script \in Scripts /\ next = 1 /\ IsSeq(script.items) /\ Len(script.items) \in Nat
      /\ \A s \in Streams : /\ wire[s] = <<>> /\ ended[s] = "open" /\ sent[s] = <<>> /\ arrived[s] = 0
                            /\ consumed[s] = 0 /\ need[s] = 0 /\ got[s] = <<>> /\ fate[s] = ""
  BY ScriptFacts DEF FramingInit
<1>2. pc["c2s"] = "client" /\ pc["s2c"] = "server" /\ pc["data"] = "header" /\ pc["dgram"] = "datagram"
  BY DEF FramingInit
<1>3. up[Client] = "idle" /\ up[Server] = "setup" /\ role[Client] = script.client /\ role[Server] = script.server
  BY DEF FramingInit, Client, Server
<1>4. Maps
  <2>1. /\ OnStreams(wire) /\ OnStreams(ended) /\ OnStreams(sent) /\ OnStreams(arrived) /\ OnStreams(consumed)
        /\ OnStreams(need) /\ OnStreams(got) /\ OnStreams(fate)
    BY DEF FramingInit, OnStreams
  <2>2. OnStreams(pc)
    BY DEF FramingInit, OnStreams, Streams, Control
  <2>3. role = [e \in {Client, Server} |-> role[e]] /\ up = [e \in {Client, Server} |-> up[e]]
    BY DEF FramingInit, Client, Server
  <2>4. QED
    BY <2>1, <2>2, <2>3 DEF Maps
<1>5. Scripted
  <2>1. 1 \in 1 .. (Len(script.items) + 1) /\ ~(next > 1)
    <3>1. \A k \in Nat : 1 \in 1 .. (k + 1)
      OBVIOUS
    <3>2. 1 \in 1 .. (Len(script.items) + 1)
      BY <1>1, <3>1, Zenon
    <3>3. ~(1 > 1)
      OBVIOUS
    <3>4. QED
      BY <1>1, <3>2, <3>3, Zenon
  <2>2. \A s \in Streams : Len(sent[s]) = 0 /\ 0 <= Before(s)
    <3>1. \A s \in Streams : 0 <= Before(s)
      BY DEF Before
    <3>2. QED
      BY <1>1, <3>1, NothingYet, Zenon
  <2>3. \A i \in 1 .. 0 : FALSE
    OBVIOUS
  <2>4. QED
    BY <1>1, <2>1, <2>2, <2>3 DEF Scripted, Sends
<1>6. Handshake
  <2>1. Len(sent["c2s"]) = 0 /\ Len(sent["s2c"]) = 0 /\ Len(got["c2s"]) = 0 /\ Len(got["s2c"]) = 0
    BY <1>0, <1>1, NothingYet, Zenon
  <2>2. QED
    BY <1>2, <1>3, <2>1 DEF Handshake
<1>7. InData /\ InDatagram
  <2>1. Len(got["data"]) = 0 /\ Len(got["dgram"]) = 0 /\ arrived["dgram"] = 0
    BY <1>0, <1>1, NothingYet, Zenon
  <2>2. QED
    BY <1>2, <2>1 DEF InData, InDatagram, Objects
<1>8. Ends
  BY <1>1, NamesOfStreams DEF Ends
<1>9. ASSUME NEW s \in Streams PROVE Well(s)
  <2>1. pc[s] # "failed"
    BY <1>2, NamesOfStreams
  <2>2. QED
    BY <1>1, <2>1, NothingYet DEF Well
<1>10. QED
  BY <1>4, <1>5, <1>6, <1>7, <1>8, <1>9 DEF FramingInv

-----------------------------------------------------------------------------
(* Steps of the writers *)

\* Readers that nothing happens to.
LEMMA WellKept ==
  ASSUME NEW s \in Streams, Well(s), UNCHANGED <<script, next>>,
         wire'[s] = wire[s], sent'[s] = sent[s], arrived'[s] = arrived[s], consumed'[s] = consumed[s],
         got'[s] = got[s], need'[s] = need[s], pc'[s] = pc[s], ended'[s] = ended[s], fate'[s] = fate[s]
  PROVE  Well(s)'
BY DEF Well

\* A cause stays one while more is written.
LEMMA CauseKept ==
  ASSUME NEW sc, NEW nx, NEW q, IsSeq(q), NEW a, NEW g, IsSeq(g), NEW e, NEW f, NEW x, NEW ny,
         Cause(sc, nx, q, a, g, e, f), e # "open" => ny = nx
  PROVE  Cause(sc, ny, Append(q, x), a, g, e, f)
<1>1. /\ Len(q) \in Nat /\ Len(g) \in Nat /\ Len(Append(q, x)) = Len(q) + 1
      /\ \A i \in 1 .. Len(q) : Append(q, x)[i] = q[i]
  BY AppendOne, SeqFacts
<1>2. Len(g) + 1 <= Len(q) => Append(q, x)[Len(g) + 1] = q[Len(g) + 1] /\ Len(g) + 1 <= Len(Append(q, x))
  BY <1>1
<1>3. QED
  BY <1>2, Zenon DEF Cause

\* An item is written on s.
LEMMA WriteInv ==
  ASSUME FramingInv, NEW s \in Streams, NEW it, Encoded(EncItem(it)), Write(s, it),
         UNCHANGED <<script, ended, arrived, consumed, need, pc, remain, got, fate>>,
         next' # next => \A t \in Streams : ended[t] = "open",
         s = "dgram" => Len(sent[s]) = 0
  PROVE  /\ OnStreams(wire') /\ OnStreams(sent') /\ \A t \in Streams : Well(t)'
         /\ sent'[s] = Append(sent[s], [item |-> it, end |-> Len(wire'[s])])
         /\ \A t \in Streams : t # s => sent'[t] = sent[t]
         /\ InDatagram' /\ InData'
<1> DEFINE w2 == wire[s] \o EncItem(it)
           q2 == Append(sent[s], [item |-> it, end |-> Len(w2)])
<1>1. OnStreams(wire) /\ OnStreams(sent)
  BY DEF FramingInv, Maps
<1>2. wire' = [wire EXCEPT ![s] = w2] /\ sent' = [sent EXCEPT ![s] = q2]
  BY DEF Write
<1> HIDE DEF w2, q2
<1>3. OnStreams(wire') /\ wire'[s] = w2 /\ \A t \in Streams : t # s => wire'[t] = wire[t]
  BY <1>1, <1>2 DEF OnStreams
<1>4. OnStreams(sent') /\ sent'[s] = q2 /\ \A t \in Streams : t # s => sent'[t] = sent[t]
  BY <1>1, <1>2 DEF OnStreams
<1>5. ASSUME NEW t \in Streams PROVE Well(t)'
  <2>1. Well(t)
    BY DEF FramingInv
  <2>2. CASE t # s
    <3>1. wire'[t] = wire[t] /\ sent'[t] = sent[t]
      BY <1>3, <1>4, <2>2
    <3>2. pc[t] = "failed" /\ ~Lost(sent[t], Len(got[t]) + 1)
            => Cause(script, next', sent[t], arrived[t], got[t], ended[t], fate[t])
      BY <2>1 DEF Well, Cause
    <3>3. QED
      BY <2>1, <3>1, <3>2 DEF Well
  <2>3. CASE t = s
    <3> DEFINE w == wire[s]
               q == sent[s]
               a == arrived[s]
               c == consumed[s]
               g == got[s]
               x == need[s]
    <3>1. Laid(w, q) /\ Placed(w, q, a, c, g) /\ Patient(q, a, c, g, x)
      BY <2>1, <2>3 DEF Well
    <3>2. w2 = w \o EncItem(it) /\ q2 = Append(q, [item |-> it, end |-> Len(w2)])
      BY DEF w2, q2
    <3>3. IsSeq(q) /\ IsSeq(g)
      BY <3>1 DEF Laid, Placed
    <3>4. pc[s] = "failed" => \/ Lost(q, Len(g) + 1)
                              \/ Cause(script, next, q, a, g, ended[s], fate[s])
      BY <2>1, <2>3 DEF Well
    <3> HIDE DEF w, q, a, c, g, x
    <3>5. Laid(w2, q2) /\ Len(w2) \in Nat /\ Len(w) <= Len(w2)
      <4>1. Laid(w2, q2) /\ Len(w2) \in Nat /\ Len(w) \in Nat /\ Len(w) + 1 <= Len(w2)
        BY <3>1, <3>2, LaidNext
      <4>2. QED
        BY <4>1
    <3>6. Placed(w2, q2, a, c, g)
      BY <3>1, <3>2, <3>5, PlacedKept
    <3>7. Patient(q2, a, c, g, x)
      BY <3>1, <3>2, PatientKept
    <3>8. Lost(q, Len(g) + 1) => Lost(q2, Len(g) + 1)
      <4>1. Len(g) + 1 \in Nat
        BY <3>3, SeqFacts
      <4>2. QED
        BY <3>2, <3>3, <4>1, LostFacts
    <3>9. Cause(script, next, q, a, g, ended[s], fate[s]) => Cause(script, next', q2, a, g, ended[s], fate[s])
      BY <3>2, <3>3, CauseKept
    <3>10. wire'[s] = w2 /\ sent'[s] = q2
      BY <1>3, <1>4
    <3>11. QED
      BY <2>3, <3>4, <3>5, <3>6, <3>7, <3>8, <3>9, <3>10 DEF Well, a, c, g, x
  <2>4. QED
    BY <2>2, <2>3
<1>6. InData'
  BY DEF FramingInv, InData
<1>7. InDatagram'
  <2>0. InDatagram /\ "dgram" \in Streams
    BY NamesOfStreams DEF FramingInv
  <2>1. CASE s # "dgram"
    BY <1>3, <2>0, <2>1 DEF InDatagram
  <2>2. CASE s = "dgram"
    <3>1. Laid(wire[s], sent[s])
      BY DEF FramingInv, Well
    <3>2. Len(wire[s]) = 0
      BY <2>2, <3>1 DEF Laid, EndOf
    <3>3. arrived["dgram"] = 0
      BY <2>0, <2>2, <3>2 DEF InDatagram
    <3>4. QED
      BY <2>0, <3>3 DEF InDatagram
  <2>3. QED
    BY <2>1, <2>2
<1>8. QED
  BY <1>3, <1>4, <1>5, <1>6, <1>7 DEF q2

\* What the invariant says about types.
LEMMA InvFacts ==
  ASSUME FramingInv
  PROVE  /\ script \in Scripts /\ next \in Nat /\ next >= 1 /\ next <= Len(script.items) + 1
         /\ Len(script.items) \in Nat /\ IsSeq(script.items)
         /\ \A s \in Streams : /\ IsSeq(sent[s]) /\ Len(sent[s]) \in Nat /\ IsSeq(got[s]) /\ Len(got[s]) \in Nat
                               /\ Len(wire[s]) \in Nat /\ wire[s] \in ByteSeq /\ arrived[s] \in 0 .. Len(wire[s])
         /\ "c2s" \in Streams /\ "s2c" \in Streams /\ "data" \in Streams /\ "dgram" \in Streams
<1>1. script \in Scripts /\ next \in 1 .. (Len(script.items) + 1)
  BY DEF FramingInv, Scripted
<1>2. Len(script.items) \in Nat /\ IsSeq(script.items)
  BY <1>1, ScriptFacts
<1>3. next \in Nat /\ next >= 1 /\ next <= Len(script.items) + 1
  BY <1>1, <1>2
<1>4. \A s \in Streams : IsSeq(sent[s]) /\ IsSeq(got[s]) /\ wire[s] \in ByteSeq /\ arrived[s] \in 0 .. Len(wire[s])
  BY DEF FramingInv, Well, Laid, Placed
<1>5. \A s \in Streams : Len(sent[s]) \in Nat /\ Len(got[s]) \in Nat /\ Len(wire[s]) \in Nat
  BY <1>4, SeqFacts DEF ByteSeq
<1>6. QED
  BY <1>1, <1>2, <1>3, <1>4, <1>5, NamesOfStreams

\* Connect keeps it.
LEMMA ConnectInv ==
  ASSUME FramingInv, Connect
  PROVE  FramingInv'
<1> DEFINE it == ClientItem(script.client)
<1>1. /\ up[Client] = "idle" /\ role[Client] = script.client /\ Len(sent["c2s"]) = 0
  BY DEF Connect, FramingInv, Handshake
<1>2. Write("c2s", it)
  BY <1>1 DEF Connect, ClientItem
<1>3. /\ up' = [up EXCEPT ![Client] = "setup"]
      /\ UNCHANGED <<script, next, role, ended, arrived, consumed, need, pc, remain, got, fate>>
  BY DEF Connect
<1>4. script.client \in DOMAIN RoleCode
  BY InvFacts, ScriptFacts
<1>5. Encoded(EncItem(it))
  <2>1. it[1] = "Client"
    BY DEF ClientItem
  <2>2. Encoded(EncClient(it))
    BY <1>4, ClientReads
  <2> HIDE DEF it
  <2>3. QED
    BY <2>1, <2>2, EncItemFacts
<1> HIDE DEF it
<1>6. /\ OnStreams(wire') /\ OnStreams(sent') /\ \A t \in Streams : Well(t)'
      /\ sent'["c2s"] = Append(sent["c2s"], [item |-> it, end |-> Len(wire'["c2s"])])
      /\ \A t \in Streams : t # "c2s" => sent'[t] = sent[t]
      /\ InDatagram' /\ InData'
  BY <1>2, <1>3, <1>5, InvFacts, WriteInv
<1>7. up'[Client] = "setup" /\ up'[Server] = up[Server] /\ up' = [e \in {Client, Server} |-> up'[e]]
  BY <1>3, NamesOfStreams DEF FramingInv, Maps
<1>8. Len(sent'["c2s"]) = 1 /\ sent'["c2s"][1].item = it
  <2>1. Len(sent'["c2s"]) = 0 + 1 /\ sent'["c2s"][0 + 1] = [item |-> it, end |-> Len(wire'["c2s"])]
    BY <1>1, <1>6, InvFacts, AppendOne
  <2>2. QED
    BY <2>1
<1>9. Maps'
  BY <1>3, <1>6, <1>7 DEF FramingInv, Maps
<1>10. Sends("c2s")'
  <2>1. Sends("c2s")
    BY InvFacts DEF FramingInv, Scripted
  <2>2. Before("c2s") = 1
    BY NamesOfStreams DEF Before
  <2>3. ~("c2s" = script.on /\ next > 1)
    <3>1. next > 1 => next - 1 + 1 # 0
      BY InvFacts
    <3>2. QED
      BY <1>1, <2>1, <2>2, <3>1 DEF Sends
  <2>4. ItemAt("c2s", 1) = it
    BY <2>2 DEF ItemAt, it
  <2>5. ItemAt("c2s", 1)' = ItemAt("c2s", 1)
    BY <1>3 DEF ItemAt, Agreed
  <2>6. \A i \in 1 .. 1 : i = 1 /\ ~(i > 1)
    OBVIOUS
  <2>7. 1 <= 1
    OBVIOUS
  <2>8. QED
    BY <1>3, <1>8, <2>2, <2>3, <2>4, <2>5, <2>6, <2>7 DEF Sends
<1>11. ASSUME NEW t \in Streams, t # "c2s" PROVE Sends(t)'
  <2>1. Sends(t) /\ sent'[t] = sent[t]
    BY <1>6, <1>11 DEF FramingInv, Scripted
  <2>2. up[From[t]] = "up" => up'[From[t]] = "up"
    BY <1>1, <1>7, NamesOfStreams
  <2>3. \A i : ItemAt(t, i)' = ItemAt(t, i)
    BY <1>3 DEF ItemAt, Agreed
  <2>4. \A x : MaySend(From[t], x)' <=> MaySend(From[t], x)
    BY <1>3 DEF MaySend
  <2>5. QED
    BY <1>3, <2>1, <2>2, <2>3, <2>4 DEF Sends
<1>12. Scripted'
  BY <1>3, <1>10, <1>11 DEF FramingInv, Scripted
<1>13. Handshake'
  <2>1. Agreed' = Agreed
    BY <1>3 DEF Agreed
  <2>2. sent'["s2c"] = sent["s2c"]
    BY <1>6, InvFacts
  <2>3. QED
    BY <1>1, <1>3, <1>7, <1>8, <2>1, <2>2 DEF FramingInv, Handshake
<1>14. Ends'
  BY <1>3 DEF FramingInv, Ends
<1>15. QED
  BY <1>6, <1>9, <1>12, <1>13, <1>14 DEF FramingInv

\* Send keeps it.
LEMMA SendInv ==
  ASSUME FramingInv, NEW s \in Streams, Send(s)
  PROVE  FramingInv'
<1> DEFINE it == script.items[next]
<1>1. /\ script.on = s /\ next <= Len(script.items) /\ ended[s] = "open"
      /\ up[From[s]] = "up" /\ MaySend(From[s], it) /\ next' = next + 1 /\ Write(s, it)
      /\ UNCHANGED <<script, role, up, ended, arrived, consumed, need, pc, remain, got, fate>>
  BY DEF Send
<1>2. next \in 1 .. Len(script.items) /\ next \in Nat /\ next + 1 \in 1 .. (Len(script.items) + 1) /\ next + 1 > 1
  BY <1>1, InvFacts
<1>3. Encoded(EncItem(it))
  BY <1>2, InvFacts, ScriptEncoded
<1> HIDE DEF it
<1>4. Sends(s) /\ (s \in Control => Len(sent[s]) >= 1)
  <2>1. Sends(s)
    BY DEF FramingInv, Scripted
  <2>2. s \in Control => Len(sent[s]) >= 1
    <3>1. up[Client] = "up" => Len(sent["c2s"]) # 0
      BY DEF FramingInv, Handshake
    <3>2. up[Server] = "up" => Len(sent["s2c"]) >= 1
      BY DEF FramingInv, Handshake
    <3>3. Len(sent["c2s"]) # 0 => Len(sent["c2s"]) >= 1
      BY InvFacts
    <3>4. QED
      BY <1>1, <3>1, <3>2, <3>3, NamesOfStreams
  <2>3. QED
    BY <2>1, <2>2 DEF Sends
<1>5. Len(sent[s]) = next - 1 + Before(s)
  <2>1. CASE next > 1
    BY <1>1, <1>4, <2>1 DEF Sends
  <2>2. CASE ~(next > 1)
    <3>1. next = 1 /\ Len(sent[s]) <= Before(s) /\ Len(sent[s]) \in Nat
      BY <1>2, <1>4, <2>2, InvFacts DEF Sends
    <3>2. Len(sent[s]) = Before(s)
      BY <1>4, <3>1 DEF Before
    <3>3. QED
      BY <3>1, <3>2
  <2>3. QED
    BY <2>1, <2>2
<1>6. /\ OnStreams(wire') /\ OnStreams(sent') /\ \A t \in Streams : Well(t)'
      /\ sent'[s] = Append(sent[s], [item |-> it, end |-> Len(wire'[s])])
      /\ \A t \in Streams : t # s => sent'[t] = sent[t]
      /\ InDatagram' /\ InData'
  <2>1. \A t \in Streams : ended[t] = "open"
    BY <1>1, NamesOfStreams DEF FramingInv, Ends
  <2>2. s = "dgram" => Len(sent[s]) = 0
    <3> SUFFICES ASSUME s = "dgram" PROVE Len(sent[s]) = 0
      OBVIOUS
    <3>1. Len(script.items) = 1
      BY <1>1, InvFacts, ScriptFacts
    <3>2. next = 1
      BY <1>2, <3>1
    <3>3. Before(s) = 0
      BY NamesOfStreams DEF Before
    <3>4. QED
      BY <1>5, <3>2, <3>3
  <2>3. QED
    BY <1>1, <1>3, <2>1, <2>2, WriteInv
<1>7. Maps'
  BY <1>1, <1>6 DEF FramingInv, Maps
<1>8. Sends(s)'
  <2> DEFINE n == Len(sent[s])
  <2>1. n \in Nat /\ IsSeq(sent[s]) /\ Before(s) \in Nat
    BY InvFacts DEF Before
  <2>2. /\ Len(sent'[s]) = n + 1 /\ \A i \in 1 .. n : sent'[s][i] = sent[s][i]
        /\ sent'[s][n + 1].item = it
    BY <1>6, <2>1, AppendOne
  <2>3. ItemAt(s, n + 1) = it
    <3>1. n + 1 > Before(s) /\ (n + 1) - Before(s) = next
      BY <1>2, <1>5, <2>1
    <3>2. QED
      BY <3>1 DEF ItemAt, it
  <2>4. \A i : ItemAt(s, i)' = ItemAt(s, i)
    BY <1>1 DEF ItemAt, Agreed
  <2>5. \A x : MaySend(From[s], x)' <=> MaySend(From[s], x)
    BY <1>1 DEF MaySend
  <2>6. Len(sent'[s]) = next' - 1 + Before(s)
    BY <1>1, <1>2, <1>5, <2>1, <2>2
  <2>7. \A i \in 1 .. (n + 1) : i \in 1 .. n \/ i = n + 1
    BY <2>1
  <2>8. \A i \in 1 .. n : /\ sent[s][i].item = ItemAt(s, i)
                          /\ i > Before(s) => up[From[s]] = "up" /\ MaySend(From[s], sent[s][i].item)
    BY <1>4 DEF Sends
  <2> HIDE DEF n
  <2>9. \A i \in 1 .. (n + 1) : /\ sent'[s][i].item = ItemAt(s, i)
                                /\ i > Before(s) => up[From[s]] = "up" /\ MaySend(From[s], sent'[s][i].item)
    BY <1>1, <2>2, <2>3, <2>7, <2>8, Zenon
  <2>10. next' > 1
    BY <1>1, <1>2
  <2>11. QED
    BY <1>1, <2>2, <2>4, <2>5, <2>6, <2>9, <2>10 DEF Sends
<1>9. ASSUME NEW t \in Streams, t # s PROVE Sends(t)'
  <2>1. Sends(t) /\ sent'[t] = sent[t] /\ t # script.on
    BY <1>1, <1>6, <1>9 DEF FramingInv, Scripted
  <2>2. \A i : ItemAt(t, i)' = ItemAt(t, i)
    BY <1>1 DEF ItemAt, Agreed
  <2>3. \A x : MaySend(From[t], x)' <=> MaySend(From[t], x)
    BY <1>1 DEF MaySend
  <2>4. QED
    BY <1>1, <2>1, <2>2, <2>3 DEF Sends
<1>10. Scripted'
  BY <1>1, <1>2, <1>8, <1>9 DEF FramingInv, Scripted
<1>11. Handshake'
  <2>1. Agreed' = Agreed
    BY <1>1 DEF Agreed
  <2>2. /\ \A t \in Streams : Len(sent[t]) >= 1 => Len(sent'[t]) >= 1
        /\ s # "c2s" => sent'["c2s"] = sent["c2s"]
        /\ s # "s2c" => sent'["s2c"] = sent["s2c"]
        /\ Len(sent'[s]) >= 1
    <3>1. Len(sent'[s]) = Len(sent[s]) + 1
      BY <1>6, InvFacts, AppendOne
    <3>2. Len(sent'[s]) >= 1
      BY <3>1, InvFacts
    <3>3. QED
      BY <1>6, <3>2, InvFacts
  <2>3. s \in Control => Len(sent[s]) # 0
    BY <1>4, InvFacts
  <2>4. (Len(sent'["c2s"]) = 0) <=> (Len(sent["c2s"]) = 0)
    <3>1. CASE s = "c2s"
      <4>1. Len(sent'["c2s"]) # 0
        BY <2>2, <3>1, InvFacts
      <4>2. QED
        BY <2>3, <3>1, <4>1, NamesOfStreams
    <3>2. CASE s # "c2s"
      BY <2>2, <3>2
    <3>3. QED
      BY <3>1, <3>2
  <2>5. IF up[Server] = "up" THEN Len(sent'["s2c"]) >= 1 ELSE Len(sent'["s2c"]) = 0
    <3>1. CASE s = "s2c"
      BY <1>1, <2>2, <3>1, NamesOfStreams
    <3>2. CASE s # "s2c"
      BY <2>2, <3>2 DEF FramingInv, Handshake
    <3>3. QED
      BY <3>1, <3>2
  <2>6. QED
    BY <1>1, <2>1, <2>4, <2>5 DEF FramingInv, Handshake
<1>12. Ends'
  <2>1. \A t \in Streams : ended'[t] = "open"
    BY <1>1, NamesOfStreams DEF FramingInv, Ends
  <2>2. QED
    BY <2>1, NamesOfStreams DEF Ends
<1>13. QED
  BY <1>6, <1>7, <1>10, <1>11, <1>12 DEF FramingInv

\* The data stream ends.
LEMMA EndInv ==
  ASSUME FramingInv, Finish \/ Abandon
  PROVE  FramingInv'
<1>1. /\ script.on = "data" /\ ended["data"] = "open"
      /\ UNCHANGED <<script, next, role, up, wire, sent, arrived, consumed, need, pc, remain, got, fate>>
  BY DEF Finish, Abandon
<1>2. PICK how \in {"fin", "reset"} : ended' = [ended EXCEPT !["data"] = how] /\ (how = "reset" => next <= Len(script.items))
  <2>1. CASE Finish
    BY <2>1 DEF Finish
  <2>2. CASE Abandon
    <3>1. next <= Len(script.items)
      BY <2>2, InvFacts DEF Abandon
    <3>2. QED
      BY <2>2, <3>1 DEF Abandon
  <2>3. QED
    BY <2>1, <2>2
<1>3. next >= 2
  <2>1. CASE Finish
    <3>1. Len(script.items) >= 1 /\ next > Len(script.items)
      BY <1>1, <2>1, InvFacts, ScriptFacts DEF Finish
    <3>2. QED
      BY <3>1, InvFacts
  <2>2. CASE Abandon
    BY <2>2, InvFacts DEF Abandon
  <2>3. QED
    BY <2>1, <2>2
<1>4. OnStreams(ended') /\ ended'["data"] = how /\ \A t \in Streams : t # "data" => ended'[t] = ended[t]
  BY <1>2, InvFacts DEF FramingInv, Maps, OnStreams
<1>5. Maps'
  BY <1>1, <1>4 DEF FramingInv, Maps
<1>6. Scripted'
  <2>1. ASSUME NEW t \in Streams PROVE Sends(t)'
    <3>1. Sends(t)
      BY DEF FramingInv, Scripted
    <3>2. \A i : ItemAt(t, i)' = ItemAt(t, i)
      BY <1>1 DEF ItemAt, Agreed
    <3>3. \A x : MaySend(From[t], x)' <=> MaySend(From[t], x)
      BY <1>1 DEF MaySend
    <3>4. QED
      BY <1>1, <3>1, <3>2, <3>3 DEF Sends
  <2>2. QED
    BY <1>1, <2>1 DEF FramingInv, Scripted
<1>7. Handshake' /\ InData' /\ InDatagram'
  <2>1. Handshake'
    BY <1>1 DEF FramingInv, Handshake, Agreed
  <2>2. InData' /\ InDatagram'
    BY <1>1 DEF FramingInv, InData, InDatagram
  <2>3. QED
    BY <2>1, <2>2
<1>8. Ends'
  BY <1>1, <1>2, <1>3, <1>4 DEF FramingInv, Ends
<1>9. ASSUME NEW t \in Streams PROVE Well(t)'
  <2>1. Well(t)
    BY DEF FramingInv
  <2>2. ended[t] # "open" => ended'[t] = ended[t]
    BY <1>1, <1>4
  <2>3. Cause(script, next, sent[t], arrived[t], got[t], ended[t], fate[t])
          => Cause(script, next, sent[t], arrived[t], got[t], ended'[t], fate[t])
    BY <2>2 DEF Cause
  <2>4. QED
    BY <1>1, <2>1, <2>3 DEF Well
<1>10. QED
  BY <1>5, <1>6, <1>7, <1>8, <1>9 DEF FramingInv

-----------------------------------------------------------------------------
(* Steps of the readers *)

\* What was sent behind SETUP is what the script says.
LEMMA SentFacts ==
  ASSUME FramingInv, NEW s \in Streams, NEW i \in 1 .. Len(sent[s]), i > Before(s)
  PROVE  /\ script.on = s /\ next > 1 /\ Len(sent[s]) = next - 1 + Before(s)
         /\ i - Before(s) \in 1 .. Len(script.items)
         /\ sent[s][i].item = script.items[i - Before(s)]
         /\ up[From[s]] = "up" /\ MaySend(From[s], sent[s][i].item)
<1>1. Sends(s) /\ Len(sent[s]) \in Nat /\ Before(s) \in Nat
  BY InvFacts DEF FramingInv, Scripted, Before
<1>2. ~(Len(sent[s]) <= Before(s))
  BY <1>1
<1>3. script.on = s /\ next > 1 /\ Len(sent[s]) = next - 1 + Before(s)
  BY <1>1, <1>2 DEF Sends
<1>4. i - Before(s) \in 1 .. Len(script.items)
  <2>1. \A b, k, n, m \in Nat : k > b /\ k >= 1 /\ k <= n - 1 + b /\ n <= m + 1 => k - b \in 1 .. m
    OBVIOUS
  <2>2. i \in Nat /\ i >= 1 /\ i <= next - 1 + Before(s)
    BY <1>1, <1>3
  <2>3. QED
    BY <1>1, <2>1, <2>2, InvFacts
<1>5. sent[s][i].item = ItemAt(s, i) /\ up[From[s]] = "up" /\ MaySend(From[s], sent[s][i].item)
  BY <1>1 DEF Sends
<1>6. QED
  BY <1>3, <1>4, <1>5 DEF ItemAt

\* On these two every item is read as it was written.
LEMMA NeverLost ==
  ASSUME FramingInv, NEW s \in {"data", "dgram"}, NEW n \in Nat
  PROVE  ~Lost(sent[s], n)
<1>1. s \in Streams /\ s \notin Control /\ Before(s) = 0
  BY NamesOfStreams DEF Before
<1>2. ASSUME NEW i \in 1 .. AtMost(n, Len(sent[s])) PROVE ~Lopsided(sent[s][i].item)
  <2>1. i \in 1 .. Len(sent[s]) /\ i > 0 /\ i - 0 = i
    BY <1>1, InvFacts DEF AtMost
  <2>2. script.on = s /\ i \in 1 .. Len(script.items) /\ sent[s][i].item = script.items[i]
    BY <1>1, <2>1, SentFacts
  <2>3. QED
    BY <1>1, <2>2, InvFacts, ScriptEncoded
<1>3. QED
  BY <1>2 DEF Lost

\* A step of the reader of s.
ReaderStep(s) ==
  /\ UNCHANGED sendVars /\ Maps' /\ (s # "data" => remain' = remain)
  /\ \A t \in Streams : t # s =>
       /\ arrived'[t] = arrived[t] /\ consumed'[t] = consumed[t] /\ need'[t] = need[t]
       /\ pc'[t] = pc[t] /\ got'[t] = got[t] /\ fate'[t] = fate[t]

\* A step of one reader keeps the invariant if it keeps the reader's own part.
LEMMA ReaderInv ==
  ASSUME FramingInv, NEW s \in Streams, ReaderStep(s), Well(s)',
         s \in Control => \/ Len(got'[s]) = Len(got[s]) /\ pc'[s] = pc[s]
                          \/ Len(got[s]) >= 1 /\ Len(got'[s]) >= 1 /\ pc'[s] \in {"message", "failed"},
         s = "data" => InData', s = "dgram" => InDatagram'
  PROVE  FramingInv'
<1>1. UNCHANGED <<script, next, role, up, wire, ended, sent>>
  BY DEF ReaderStep, sendVars
<1>2. \A t \in Streams : t # s =>
        /\ arrived'[t] = arrived[t] /\ consumed'[t] = consumed[t] /\ need'[t] = need[t]
        /\ pc'[t] = pc[t] /\ got'[t] = got[t] /\ fate'[t] = fate[t]
  BY DEF ReaderStep
<1>3. Maps'
  BY DEF ReaderStep
<1>4. Scripted'
  <2>1. ASSUME NEW t \in Streams PROVE Sends(t)'
    <3>1. Sends(t)
      BY DEF FramingInv, Scripted
    <3>2. \A i : ItemAt(t, i)' = ItemAt(t, i)
      BY <1>1 DEF ItemAt, Agreed
    <3>3. \A x : MaySend(From[t], x)' <=> MaySend(From[t], x)
      BY <1>1 DEF MaySend
    <3>4. QED
      BY <1>1, <3>1, <3>2, <3>3 DEF Sends
  <2>2. QED
    BY <1>1, <2>1 DEF FramingInv, Scripted
<1>5. Handshake'
  <2>1. Agreed' = Agreed
    BY <1>1 DEF Agreed
  <2>2. /\ IF up[Client] = "up" THEN Len(got'["s2c"]) >= 1 /\ pc'["s2c"] \in {"message", "failed"}
           ELSE Len(got'["s2c"]) = 0 /\ pc'["s2c"] = "server"
    <3>1. IF up[Client] = "up" THEN Len(got["s2c"]) >= 1 /\ pc["s2c"] \in {"message", "failed"}
          ELSE Len(got["s2c"]) = 0 /\ pc["s2c"] = "server"
      BY DEF FramingInv, Handshake
    <3>2. CASE s # "s2c"
      BY <1>2, <3>1, <3>2, InvFacts
    <3>3. CASE s = "s2c"
      <4>1. ~(Len(got["s2c"]) = 0 /\ Len(got["s2c"]) >= 1)
        BY InvFacts
      <4>2. QED
        BY <3>1, <3>3, <4>1, NamesOfStreams
    <3>4. QED
      BY <3>2, <3>3
  <2>3. /\ IF up[Server] = "setup" THEN Len(got'["c2s"]) = 0 /\ pc'["c2s"] = "client"
           ELSE Len(got'["c2s"]) >= 1 /\ pc'["c2s"] \in {"message", "failed"}
    <3>1. IF up[Server] = "setup" THEN Len(got["c2s"]) = 0 /\ pc["c2s"] = "client"
          ELSE Len(got["c2s"]) >= 1 /\ pc["c2s"] \in {"message", "failed"}
      BY DEF FramingInv, Handshake
    <3>2. CASE s # "c2s"
      BY <1>2, <3>1, <3>2, InvFacts
    <3>3. CASE s = "c2s"
      <4>1. ~(Len(got["c2s"]) = 0 /\ Len(got["c2s"]) >= 1)
        BY InvFacts
      <4>2. QED
        BY <3>1, <3>3, <4>1, NamesOfStreams
    <3>4. QED
      BY <3>2, <3>3
  <2>4. QED
    BY <1>1, <2>1, <2>2, <2>3 DEF FramingInv, Handshake
<1>6. InData'
  <2>1. CASE s # "data"
    <3>1. remain' = remain
      BY <2>1 DEF ReaderStep
    <3>2. QED
      BY <1>1, <1>2, <2>1, <3>1, InvFacts DEF FramingInv, InData
  <2>2. QED
    BY <2>1
<1>7. InDatagram'
  <2>1. CASE s # "dgram"
    BY <1>1, <1>2, <2>1, InvFacts DEF FramingInv, InDatagram
  <2>2. QED
    BY <2>1
<1>8. Ends'
  BY <1>1 DEF FramingInv, Ends
<1>9. \A t \in Streams : Well(t)'
  <2>1. ASSUME NEW t \in Streams, t # s PROVE Well(t)'
    BY <1>1, <1>2, <2>1, WellKept DEF FramingInv
  <2>2. QED
    BY <2>1
<1>10. QED
  BY <1>3, <1>4, <1>5, <1>6, <1>7, <1>8, <1>9 DEF FramingInv

\* Where the reader of the data stream, or of the datagram, stands.
LEMMA DataAt ==
  ASSUME FramingInv, NEW s \in {"data", "dgram"}
  PROVE  /\ ~Lost(sent[s], Len(got[s])) /\ ~Lost(sent[s], Len(got[s]) + 1)
         /\ Laid(wire[s], sent[s]) /\ Placed(wire[s], sent[s], arrived[s], consumed[s], got[s])
         /\ need[s] \in Nat /\ consumed[s] \in Nat /\ arrived[s] \in Nat /\ consumed[s] <= arrived[s]
         /\ need[s] > 0 => /\ need[s] > arrived[s]
                           /\ Len(got[s]) + 1 <= Len(sent[s]) => need[s] <= sent[s][Len(got[s]) + 1].end
         /\ Len(got[s]) <= Len(sent[s])
<1>1. Len(got[s]) + 1 \in Nat /\ Len(got[s]) \in Nat /\ s \in Streams
  BY InvFacts
<1>2. ~Lost(sent[s], Len(got[s]) + 1) /\ ~Lost(sent[s], Len(got[s]))
  BY <1>1, NeverLost
<1>3. /\ Laid(wire[s], sent[s])
      /\ Placed(wire[s], sent[s], arrived[s], consumed[s], got[s])
      /\ Patient(sent[s], arrived[s], consumed[s], got[s], need[s])
  BY <1>1 DEF FramingInv, Well
<1>4. /\ need[s] \in Nat
      /\ need[s] > 0 => /\ need[s] > arrived[s]
                        /\ Len(got[s]) + 1 <= Len(sent[s]) => need[s] <= sent[s][Len(got[s]) + 1].end
  BY <1>2, <1>3 DEF Patient
<1>5. consumed[s] \in Nat /\ arrived[s] \in Nat /\ consumed[s] <= arrived[s] /\ Len(got[s]) <= Len(sent[s])
  BY <1>2, <1>3, Standing
<1>6. QED
  BY <1>2, <1>3, <1>4, <1>5

\* Bytes are read into the buffer.
LEMMA ReadBufInv ==
  ASSUME FramingInv, NEW s \in Streams, ReadBuf(s)
  PROVE  FramingInv'
<1>1. PICK a \in (arrived[s] + 1) .. Len(wire[s]) :
        /\ s = "dgram" => a = Len(wire[s])
        /\ arrived' = [arrived EXCEPT ![s] = a]
        /\ need' = [need EXCEPT ![s] = IF a >= need[s] THEN 0 ELSE need[s]]
  BY DEF ReadBuf
<1> DEFINE x == IF a >= need[s] THEN 0 ELSE need[s]
<1>2. Reading(s) /\ (need[s] > 0 \/ pc[s] \in Objects) /\ UNCHANGED <<sendVars, consumed, pc, remain, got, fate>>
  BY DEF ReadBuf, Filling
<1>3. OnStreams(arrived') /\ arrived'[s] = a /\ \A t \in Streams : t # s => arrived'[t] = arrived[t]
  BY <1>1 DEF FramingInv, Maps, OnStreams
<1>4. OnStreams(need') /\ need'[s] = x /\ \A t \in Streams : t # s => need'[t] = need[t]
  BY <1>1 DEF FramingInv, Maps, OnStreams
<1>5. ReaderStep(s)
  <2>1. Maps'
    BY <1>2, <1>3, <1>4 DEF FramingInv, Maps, sendVars
  <2>2. QED
    BY <1>2, <1>3, <1>4, <2>1 DEF ReaderStep
<1>6. /\ arrived[s] \in Nat /\ Len(wire[s]) \in Nat /\ a \in 0 .. Len(wire[s]) /\ a \in Nat /\ arrived[s] < a
  BY InvFacts
<1>7. pc[s] # "failed"
  BY <1>2 DEF Reading
<1>8. Well(s)'
  <2> DEFINE w == wire[s]
             q == sent[s]
             c == consumed[s]
             g == got[s]
  <2>1. Laid(w, q) /\ Placed(w, q, arrived[s], c, g) /\ Patient(q, arrived[s], c, g, need[s])
    BY DEF FramingInv, Well
  <2>2. Placed(w, q, a, c, g)
    <3>1. Lost(q, Len(g)) \/ (c \in Nat /\ c <= arrived[s])
      BY <2>1, Standing
    <3>2. Lost(q, Len(g)) \/ c <= a
      BY <1>6, <3>1
    <3>3. QED
      BY <1>6, <2>1, <3>2 DEF Placed
  <2>3. Patient(q, a, c, g, x)
    <3>1. CASE Lost(q, Len(g) + 1)
      BY <3>1 DEF Patient
    <3>2. CASE ~Lost(q, Len(g) + 1)
      <4>1. need[s] \in Nat /\ (need[s] > 0 => IF Len(g) + 1 <= Len(q) THEN need[s] <= q[Len(g) + 1].end ELSE need[s] = c + 1)
        BY <2>1, <3>2 DEF Patient
      <4>2. x \in Nat /\ (x > 0 => x = need[s] /\ need[s] > 0 /\ x > a)
        BY <1>6, <4>1
      <4> HIDE DEF x
      <4>3. x \in Nat /\ (x > 0 => x > a /\ IF Len(g) + 1 <= Len(q) THEN x <= q[Len(g) + 1].end ELSE x = c + 1)
        BY <4>1, <4>2, Zenon
      <4>4. QED
        BY <4>3, Zenon DEF Patient
    <3>3. QED
      BY <3>1, <3>2
  <2> HIDE DEF x
  <2>4. UNCHANGED <<script, next, wire, ended, sent>>
    BY <1>2 DEF sendVars
  <2>5. QED
    BY <1>2, <1>3, <1>4, <1>7, <2>1, <2>2, <2>3, <2>4 DEF Well
<1>9. ASSUME s = "data" PROVE InData'
  <2>0. InData
    BY DEF FramingInv
  <2>1. need["data"] \in Nat /\ consumed["data"] \in Nat /\ consumed["data"] <= arrived["data"]
    BY DataAt
  <2>2. pc["data"] # "payload"
    <3>1. "payload" \notin Objects /\ ~(0 > 0)
      BY DEF Objects
    <3>2. QED
      BY <1>2, <1>9, <2>0, <3>1 DEF InData
  <2>3. need'["data"] > 0 => arrived'["data"] > consumed'["data"]
    BY <1>2, <1>3, <1>6, <1>9, <2>1
  <2>4. script' = script /\ got' = got /\ pc' = pc
    BY <1>2 DEF sendVars
  <2>5. QED
    BY <2>0, <2>2, <2>3, <2>4 DEF InData
<1>10. ASSUME s = "dgram" PROVE InDatagram'
  <2>1. a = Len(wire["dgram"]) /\ wire' = wire /\ pc' = pc /\ got' = got
    BY <1>1, <1>2, <1>10 DEF sendVars
  <2>2. QED
    BY <1>3, <1>10, <2>1 DEF FramingInv, InDatagram
<1>11. QED
  BY <1>2, <1>5, <1>8, <1>9, <1>10, ReaderInv

\* A reader that fails for a cause.
LEMMA FailInv ==
  ASSUME FramingInv, NEW s \in Streams, NEW why, Fail(s, why),
         UNCHANGED <<sendVars, arrived, consumed, need, remain, got>>,
         \/ Lost(sent[s], Len(got[s]) + 1)
         \/ Cause(script, next, sent[s], arrived[s], got[s], ended[s], why),
         s \in Control => Len(got[s]) >= 1
  PROVE  FramingInv'
<1>1. OnStreams(pc') /\ pc'[s] = "failed" /\ \A t \in Streams : t # s => pc'[t] = pc[t]
  BY DEF Fail, FramingInv, Maps, OnStreams
<1>2. OnStreams(fate') /\ fate'[s] = why /\ \A t \in Streams : t # s => fate'[t] = fate[t]
  BY DEF Fail, FramingInv, Maps, OnStreams
<1>3. UNCHANGED <<script, next, role, up, wire, ended, sent>>
  BY DEF sendVars
<1>4. ReaderStep(s)
  <2>1. Maps'
    BY <1>1, <1>2, <1>3 DEF FramingInv, Maps
  <2>2. QED
    BY <1>1, <1>2, <2>1 DEF ReaderStep
<1>5. Well(s)'
  BY <1>2, <1>3 DEF FramingInv, Well
<1>6. s = "data" => InData'
  BY <1>1 DEF InData, Objects
<1>7. s = "dgram" => InDatagram'
  BY <1>1, <1>3 DEF FramingInv, InDatagram
<1>8. QED
  BY <1>1, <1>4, <1>5, <1>6, <1>7, ReaderInv

\* Only the data stream ends.
LEMMA EndedFacts ==
  ASSUME FramingInv, NEW s \in Streams, ended[s] # "open"
  PROVE  /\ s = "data" /\ script.on = "data" /\ next >= 2 /\ Len(sent[s]) >= 1 /\ Len(sent[s]) = next - 1
         /\ ended[s] = "reset" => next <= Len(script.items)
<1>1. /\ s = "data" /\ script.on = "data" /\ next >= 2
      /\ ended[s] = "reset" => next <= Len(script.items)
  BY DEF FramingInv, Ends
<1>2. next > 1 /\ next \in Nat
  BY <1>1, InvFacts
<1>3. Before("data") = 0
  BY NamesOfStreams DEF Before
<1>4. Len(sent[s]) = next - 1 + 0
  BY <1>1, <1>2, <1>3 DEF FramingInv, Scripted, Sends
<1>5. QED
  BY <1>1, <1>2, <1>4

\* A stream that ends between two items is not waited for.
LEMMA ReadEndInv ==
  ASSUME FramingInv, NEW s \in Streams, ReadEnd(s)
  PROVE  FramingInv'
<1>1. /\ Reading(s) /\ ended[s] = "fin" /\ arrived[s] = Len(wire[s])
      /\ UNCHANGED <<sendVars, arrived, consumed, need, remain, got>>
  BY DEF ReadEnd, Filling
<1>2. s = "data" /\ Len(sent[s]) >= 1
  BY <1>1, EndedFacts
<1>3. ~(need[s] > 0)
  <2> SUFFICES ASSUME need[s] > 0 PROVE FALSE
    OBVIOUS
  <2> DEFINE w == wire[s]
             q == sent[s]
             a == arrived[s]
             c == consumed[s]
             g == got[s]
  <2>1. /\ ~Lost(q, Len(g)) /\ Laid(w, q) /\ Placed(w, q, a, c, g)
        /\ need[s] \in Nat /\ need[s] > a /\ a \in Nat /\ c \in Nat /\ Len(g) <= Len(q)
        /\ Len(g) + 1 <= Len(q) => need[s] <= q[Len(g) + 1].end
    BY <1>2, DataAt
  <2>2. Len(q) \in Nat /\ Len(g) \in Nat /\ a = Len(w)
    BY <1>1, InvFacts
  <2>3. Len(g) + 1 <= Len(q)
    <3>1. InData /\ pc[s] \notin {"end", "failed"}
      BY <1>1 DEF FramingInv, Reading
    <3>2. CASE pc[s] = "header"
      BY <1>2, <2>2, <3>1, <3>2 DEF InData
    <3>3. CASE pc[s] \in Objects
      <4>1. a > c
        BY <1>2, <3>1, <3>3 DEF InData
      <4>2. Len(g) # Len(q)
        <5>1. a # c
          BY <2>1, <4>1
        <5> HIDE DEF w, q, a, c, g
        <5>2. QED
          BY <2>1, <5>1, NothingBehind
      <4>3. QED
        BY <2>1, <2>2, <4>2
    <3>4. CASE pc[s] = "payload"
      <4>1. need[s] = 0
        BY <1>2, <3>1, <3>4 DEF InData
      <4>2. QED
        BY <4>1
    <3>5. QED
      BY <1>2, <3>1, <3>2, <3>3, <3>4 DEF InData
  <2> HIDE DEF w, q, a, c, g
  <2>4. q[Len(g) + 1].end \in Nat /\ q[Len(g) + 1].end <= Len(w) /\ need[s] <= q[Len(g) + 1].end
    BY <2>1, <2>3, NextEnds
  <2>5. QED
    BY <2>1, <2>2, <2>4
<1>4. pc' = [pc EXCEPT ![s] = "end"] /\ UNCHANGED fate
  BY <1>3 DEF ReadEnd
<1>5. OnStreams(pc') /\ pc'[s] = "end" /\ \A t \in Streams : t # s => pc'[t] = pc[t]
  BY <1>4 DEF FramingInv, Maps, OnStreams
<1>6. UNCHANGED <<script, next, role, up, wire, ended, sent>>
  BY <1>1 DEF sendVars
<1>7. ReaderStep(s)
  <2>1. Maps'
    BY <1>1, <1>4, <1>5, <1>6 DEF FramingInv, Maps
  <2>2. QED
    BY <1>1, <1>4, <1>5, <2>1 DEF ReaderStep
<1>8. Well(s)'
  BY <1>1, <1>5, <1>6 DEF FramingInv, Well
<1>9. InData'
  BY <1>2, <1>5 DEF InData, Objects
<1>10. s \notin Control /\ s # "dgram"
  BY <1>2, NamesOfStreams
<1>11. QED
  BY <1>7, <1>8, <1>9, <1>10, ReaderInv

\* A reset is a cause to fail.
LEMMA ReadResetInv ==
  ASSUME FramingInv, NEW s \in Streams, ReadReset(s)
  PROVE  FramingInv'
<1>1. /\ ended[s] = "reset" /\ Fail(s, "transport")
      /\ UNCHANGED <<sendVars, arrived, consumed, need, remain, got>>
  BY DEF ReadReset
<1>2. s = "data" /\ next <= Len(script.items)
  BY <1>1, EndedFacts
<1>3. Cause(script, next, sent[s], arrived[s], got[s], ended[s], "transport")
  BY <1>1, <1>2 DEF Cause
<1>4. s \notin Control
  BY <1>2, NamesOfStreams
<1>5. QED
  BY <1>1, <1>3, <1>4, FailInv

\* A payload that is not complete was not sent to its end.
LEMMA ReadChunkEndInv ==
  ASSUME FramingInv, ReadChunkEnd
  PROVE  FramingInv'
<1> DEFINE s == "data"
           w == wire[s]
           q == sent[s]
           a == arrived[s]
           c == consumed[s]
           g == got[s]
<1>1. /\ pc[s] = "payload" /\ SubSeq(w, c + 1, a) = <<>> /\ ended[s] = "fin" /\ a = Len(w) /\ Fail(s, "WrongSize")
      /\ UNCHANGED <<sendVars, arrived, consumed, need, remain, got>>
  BY DEF ReadChunkEnd, Buffer
<1>2. /\ ~Lost(q, Len(g)) /\ Laid(w, q) /\ Placed(w, q, a, c, g) /\ a \in Nat /\ c \in Nat /\ c <= a
      /\ Len(g) <= Len(q)
  BY DataAt
<1>3. /\ Len(q) \in Nat /\ Len(g) \in Nat /\ Len(w) \in Nat /\ w \in ByteSeq /\ Len(script.items) \in Nat /\ s \in Streams
  BY InvFacts
<1>4. remain \in 1 .. (Len(script.items) - Len(g))
  BY <1>1 DEF FramingInv, InData
<1>5. Len(q) = next - 1 /\ next \in Nat
  BY <1>1, <1>3, EndedFacts, InvFacts
<1> HIDE DEF w, q, a, c, g
<1>6. a = c
  <2> DEFINE b == SubSeq(w, c + 1, a)
  <2>1. a \in 0 .. Len(w)
    BY <1>1, <1>3
  <2>2. Len(b) = a - c
    BY <1>2, <1>3, <2>1, SliceFacts
  <2>3. Len(b) = 0
    BY <1>1
  <2> HIDE DEF b
  <2>4. QED
    BY <1>2, <2>2, <2>3
<1>7. Len(g) = Len(q)
  <2> SUFFICES ASSUME Len(g) # Len(q) PROVE FALSE
    OBVIOUS
  <2>1. Len(g) + 1 <= Len(q)
    BY <1>2, <1>3
  <2>2. q[Len(g) + 1].end \in Nat /\ c < q[Len(g) + 1].end /\ q[Len(g) + 1].end <= Len(w)
    BY <1>2, <2>1, NextEnds
  <2>3. QED
    BY <1>1, <1>2, <1>3, <1>6, <2>2
<1>8. next <= Len(script.items)
  BY <1>3, <1>4, <1>5, <1>7
<1>9. Cause(script, next, sent[s], arrived[s], got[s], ended[s], "WrongSize")
  BY <1>1, <1>8 DEF Cause
<1>10. s \notin Control
  BY NamesOfStreams
<1>11. QED
  BY <1>1, <1>3, <1>9, <1>10, FailInv

-----------------------------------------------------------------------------
(* Decoding *)

\* What a reader is about to decode, by the stream it reads.
Expects(s, n, it) ==
  \/ pc[s] = "client" /\ s = "c2s" /\ n = 0 /\ it = ClientItem(script.client) /\ up[Server] = "setup"
  \/ pc[s] = "server" /\ s = "s2c" /\ n = 0 /\ it = ServerItem(Agreed) /\ Agreed \in DOMAIN RoleCode
       /\ up[Client] # "up" /\ up[Server] = "up"
  \/ pc[s] = "message" /\ s \in Control /\ n >= 1 /\ IsMessage(it)
  \/ pc[s] = "header" /\ s = "data" /\ n = 0 /\ IsHeader(it) /\ it = script.items[1] /\ script.on = "data"
  \/ /\ pc[s] \in Objects /\ s = "data" /\ n >= 1 /\ IsObject(it) /\ it[1] = pc[s]
     /\ it = script.items[n + 1] /\ script.on = "data" /\ n + 1 <= Len(script.items)
  \/ pc[s] = "datagram" /\ s = "dgram" /\ n = 0 /\ IsDatagram(it)

\* The next item on a stream is one of those that its reader is about to decode.
LEMMA NextItem ==
  ASSUME FramingInv, NEW s \in Streams, Reading(s), pc[s] # "payload",
         Len(got[s]) + 1 <= Len(sent[s]), NEW it, it = sent[s][Len(got[s]) + 1].item
  PROVE  Expects(s, Len(got[s]), it)
<1> DEFINE n == Len(got[s])
<1>1. n \in Nat /\ Len(sent[s]) \in Nat /\ n + 1 \in 1 .. Len(sent[s])
  BY InvFacts
<1>2. pc[s] \notin {"end", "failed", "payload"}
  BY DEF Reading
<1>3. ASSUME n + 1 > Before(s), Before(s) \in {0, 1}
      PROVE  /\ script.on = s /\ it = script.items[n + 1 - Before(s)] /\ n + 1 - Before(s) \in 1 .. Len(script.items)
             /\ up[From[s]] = "up"
  BY <1>1, <1>3, SentFacts
<1>4. Before(s) = IF s \in Control THEN 1 ELSE 0
  BY DEF Before
<1>5. script \in Scripts
  BY InvFacts
<1>6. CASE s \in Control /\ n = 0
  <2>1. it = ItemAt(s, 1)
    <3>1. n + 1 = 1 /\ 1 \in 1 .. Len(sent[s])
      BY <1>1, <1>6
    <3>2. QED
      BY <3>1 DEF FramingInv, Scripted, Sends
  <2>2. ~(1 > Before(s))
    BY <1>4, <1>6
  <2>3. CASE s = "c2s"
    <3>1. it = ClientItem(script.client)
      BY <2>1, <2>2, <2>3 DEF ItemAt
    <3>2. ~(Len(got["c2s"]) >= 1)
      BY <1>6, <2>3
    <3>3. pc[s] = "client" /\ up[Server] = "setup"
      BY <2>3, <3>2 DEF FramingInv, Handshake
    <3>4. QED
      BY <1>6, <2>3, <3>1, <3>3 DEF Expects
  <2>4. CASE s = "s2c"
    <3>1. it = ServerItem(Agreed)
      BY <2>1, <2>2, <2>4 DEF ItemAt
    <3>2. ~(Len(got["s2c"]) >= 1)
      BY <1>6, <2>4
    <3>3. pc[s] = "server" /\ up[Client] # "up"
      BY <2>4, <3>2 DEF FramingInv, Handshake
    <3>4. Len(sent["s2c"]) # 0
      BY <1>1, <2>4
    <3>5. Agreed \in DOMAIN RoleCode /\ up[Server] = "up"
      BY <3>4 DEF FramingInv, Handshake
    <3>6. QED
      BY <1>6, <2>4, <3>1, <3>3, <3>5 DEF Expects
  <2>5. QED
    BY <1>6, <2>3, <2>4, NamesOfStreams
<1>7. CASE s \in Control /\ n # 0
  <2>1. n >= 1 /\ n + 1 > 1 /\ n + 1 - 1 = n
    BY <1>1, <1>7
  <2>2. script.on = s /\ it = script.items[n] /\ n \in 1 .. Len(script.items)
    BY <1>3, <1>4, <1>7, <2>1
  <2>3. IsMessage(it)
    BY <1>5, <1>7, <2>2, ScriptFacts
  <2>4. pc[s] = "message"
    <3>1. s = "c2s" => pc[s] \in {"message", "failed"}
      BY <1>7 DEF FramingInv, Handshake
    <3>2. s = "s2c" => pc[s] \in {"message", "failed"}
      BY <1>7 DEF FramingInv, Handshake
    <3>3. QED
      BY <1>2, <1>7, <3>1, <3>2, NamesOfStreams
  <2>5. QED
    BY <1>7, <2>1, <2>3, <2>4 DEF Expects
<1>8. CASE s \notin Control
  <2>1. n + 1 > 0 /\ n + 1 - 0 = n + 1
    BY <1>1
  <2>2. script.on = s /\ it = script.items[n + 1] /\ n + 1 \in 1 .. Len(script.items)
    BY <1>3, <1>4, <1>8, <2>1
  <2>3. CASE s = "dgram"
    <3>1. pc[s] = "datagram" /\ n = 0
      BY <1>2, <2>3 DEF FramingInv, InDatagram
    <3>2. it = script.items[1]
      BY <2>2, <3>1
    <3>3. IsDatagram(it)
      BY <1>5, <2>2, <2>3, <3>2, ScriptFacts
    <3>4. QED
      BY <2>3, <3>1, <3>3 DEF Expects
  <2>4. CASE s = "data" /\ pc[s] = "header"
    <3>1. n = 0
      BY <2>4 DEF FramingInv, InData
    <3>2. it = script.items[1]
      BY <2>2, <3>1
    <3>3. IsHeader(it)
      BY <1>5, <2>2, <2>4, <3>2, ScriptFacts
    <3>4. QED
      BY <2>2, <2>4, <3>1, <3>2, <3>3 DEF Expects
  <2>5. CASE s = "data" /\ pc[s] \in Objects
    <3>1. n >= 1 /\ pc[s] = ObjectOf(script.items[1][1]) /\ Closed(script.items, n)
      BY <2>5 DEF FramingInv, InData
    <3>2. n < Len(script.items) /\ n + 1 <= Len(script.items)
      BY <1>1, <2>2, InvFacts
    <3>3. IsObject(it) /\ it[1] = pc[s]
      BY <2>2, <3>1, <3>2 DEF Closed, IsObjectOf
    <3>4. QED
      BY <2>2, <2>5, <3>1, <3>2, <3>3 DEF Expects
  <2>6. QED
    <3>1. s = "data" => pc[s] = "header" \/ pc[s] \in Objects
      BY <1>2 DEF FramingInv, InData
    <3>2. QED
      BY <1>8, <2>3, <2>4, <2>5, <3>1, NamesOfStreams
<1>9. QED
  BY <1>6, <1>7, <1>8

\* An attempt on the next item reads it, but for a lopsided one.
LEMMA AttemptReads ==
  ASSUME FramingInv, NEW s \in Streams, NEW n, NEW it, Expects(s, n, it), s # "dgram", ~Lopsided(it),
         NEW b \in ByteSeq, b = Buffer(s), NEW e, e = EncItem(it), Agrees(b, e)
  PROVE  Reads(Attempt(s), b, e, it, Absolute(it))
<1> DEFINE may == Absolute(it)
<1>0. may \in BOOLEAN
  BY AbsoluteFacts
<1>1. CASE pc[s] = "client" /\ it = ClientItem(script.client)
  <2>1. script.client \in DOMAIN RoleCode
    BY InvFacts, ScriptFacts
  <2>2. it[1] = "Client"
    BY <1>1 DEF ClientItem
  <2>3. e = EncClient(it)
    BY <2>2, EncItemFacts
  <2>4. Reads(DecClient(b), b, e, it, FALSE)
    BY <1>1, <2>1, <2>3, ClientReads
  <2>5. Attempt(s) = DecClient(b)
    BY <1>1 DEF Attempt
  <2> HIDE DEF may
  <2>6. Reads(DecClient(b), b, e, it, may)
    BY <1>0, <2>4, WeakenReads
  <2>7. QED
    BY <2>5, <2>6 DEF may
<1>2. CASE pc[s] = "server" /\ it = ServerItem(Agreed) /\ Agreed \in DOMAIN RoleCode
  <2>1. it[1] = "Server"
    BY <1>2 DEF ServerItem
  <2>2. e = EncServer(it)
    BY <2>1, EncItemFacts
  <2>3. Reads(DecServer(b), b, e, it, FALSE)
    BY <1>2, <2>2, ServerReads
  <2>4. Attempt(s) = DecServer(b)
    BY <1>2 DEF Attempt
  <2> HIDE DEF may
  <2>5. Reads(DecServer(b), b, e, it, may)
    BY <1>0, <2>3, WeakenReads
  <2>6. QED
    BY <2>4, <2>5 DEF may
<1>3. CASE pc[s] = "message" /\ IsMessage(it)
  <2>1. e = EncMessage(it)
    BY <1>3, EncItemFacts
  <2>2. Reads(DecMessage(b), b, e, it, may)
    BY <1>3, <2>1, MessageReads
  <2>3. Attempt(s) = DecMessage(b)
    BY <1>3 DEF Attempt
  <2>4. QED
    BY <2>2, <2>3
<1>4. CASE pc[s] = "header" /\ IsHeader(it)
  <2>1. e = EncHeader(it)
    BY <1>4, EncItemFacts
  <2>2. Reads(DecHeader(b), b, e, it, FALSE)
    BY <1>4, <2>1, HeaderReads
  <2>3. Attempt(s) = DecHeader(b)
    BY <1>4 DEF Attempt
  <2> HIDE DEF may
  <2>4. Reads(DecHeader(b), b, e, it, may)
    BY <1>0, <2>2, WeakenReads
  <2>5. QED
    BY <2>3, <2>4 DEF may
<1>5. CASE pc[s] \in Objects /\ IsObject(it) /\ it[1] = pc[s]
  <2>1. e = EncObject(it)
    BY <1>5, EncItemFacts
  <2>2. Reads(DecObject(pc[s], b), b, e, it, FALSE)
    BY <1>5, <2>1, ObjectReads
  <2>3. Attempt(s) = DecObject(pc[s], b)
    BY <1>5 DEF Attempt, Objects
  <2> HIDE DEF may
  <2>4. Reads(DecObject(pc[s], b), b, e, it, may)
    BY <1>0, <2>2, WeakenReads
  <2>5. QED
    BY <2>3, <2>4 DEF may
<1>6. QED
  BY <1>1, <1>2, <1>3, <1>4, <1>5 DEF Expects

\* Of nothing there is more to come.
LEMMA AttemptNothing ==
  ASSUME NEW s \in Streams, Buffer(s) = <<>>, pc[s] \in {"client", "server", "message", "header", "datagram"}
  PROVE  Attempt(s) = More(1)
<1>1. CASE pc[s] = "client"
  BY <1>1, NoItem DEF Attempt
<1>2. CASE pc[s] = "server"
  BY <1>2, NoItem DEF Attempt
<1>3. CASE pc[s] = "message"
  BY <1>3, NoItem DEF Attempt
<1>4. CASE pc[s] = "header"
  BY <1>4, NoItem DEF Attempt
<1>5. CASE pc[s] = "datagram"
  BY <1>5, NoItem DEF Attempt
<1>6. QED
  BY <1>1, <1>2, <1>3, <1>4, <1>5

\* A datagram is there as a whole, or not at all.
LEMMA DatagramAttempt ==
  ASSUME FramingInv, NEW s \in Streams, NEW it, Expects(s, Len(got[s]), it), s = "dgram",
         Len(got[s]) + 1 <= Len(sent[s]), it = sent[s][Len(got[s]) + 1].item,
         NEW b, b = Buffer(s), NEW e, e = EncItem(it)
  PROVE  Reads(Attempt(s), b, e, it, FALSE) /\ (Attempt(s).st = "more" => ~(arrived[s] > 0))
<1> DEFINE w == wire[s]
           q == sent[s]
           a == arrived[s]
           c == consumed[s]
           g == got[s]
<1>1. pc[s] = "datagram" /\ Len(g) = 0 /\ IsDatagram(it)
  <2>1. "dgram" \notin Control /\ "dgram" # "data"
    BY NamesOfStreams
  <2>2. QED
    BY <2>1 DEF Expects
<1>2. /\ ~Lost(q, Len(g)) /\ Laid(w, q) /\ Placed(w, q, a, c, g) /\ b = SubSeq(w, c + 1, a)
      /\ e = EncItem(q[Len(g) + 1].item)
  BY DataAt DEF Buffer
<1>3. Len(q) = 1
  <2>1. Len(q) \in Nat /\ Len(g) + 1 = 1 /\ 1 <= Len(q)
    BY <1>1, InvFacts
  <2>2. 1 \in 1 .. Len(q) /\ 1 > Before(s) /\ Before(s) = 0
    BY <2>1, NamesOfStreams DEF Before
  <2>3. script.on = "dgram" /\ Len(q) = next - 1 + 0
    BY <2>2, SentFacts
  <2>4. Len(script.items) = 1
    BY <2>3, InvFacts, ScriptFacts
  <2>5. QED
    BY <2>1, <2>3, <2>4, InvFacts
<1>4. e = EncDatagram(it) /\ Encoded(e) /\ DecDatagram(e) = Ok(it, <<>>)
  BY <1>1, EncItemFacts, DatagramReads
<1>5. a \in {0, Len(w)}
  BY DEF FramingInv, InDatagram
<1>6. /\ c = EndOf(q, Len(g)) /\ a \in Nat /\ Len(w) \in Nat
  <2> HIDE DEF w, q, a, c, g
  <2>1. QED
    BY <1>2, Standing
<1>7. c = 0 /\ Len(w) = q[1].end
  <2>1. Len(w) = EndOf(q, Len(q))
    BY <1>2 DEF Laid
  <2>2. QED
    BY <1>1, <1>3, <1>6, <2>1 DEF EndOf
<1>8. Attempt(s) = DecDatagram(b)
  BY <1>1 DEF Attempt
<1>9. b \in ByteSeq /\ Len(b) = a - c /\ Agrees(b, e) /\ q[Len(g) + 1].end = c + Len(e)
  <2>1. Len(g) + 1 <= Len(q)
    OBVIOUS
  <2> HIDE DEF w, q, a, c, g
  <2>2. QED
    BY <1>2, <2>1, AtItem
<1>10. Len(e) \in Nat /\ Len(e) >= 1 /\ Len(w) = Len(e) /\ Len(b) = a /\ e \in ByteSeq
  <2>1. Len(e) \in Nat /\ Len(e) >= 1 /\ e \in ByteSeq
    BY <1>4 DEF Encoded
  <2>2. q[1].end = 0 + Len(e) /\ Len(b) = a - 0
    BY <1>1, <1>7, <1>9
  <2> HIDE DEF w, q, a, c, g
  <2>3. QED
    BY <1>6, <1>7, <2>1, <2>2
<1> HIDE DEF w, q, a, c, g
<1>11. CASE a = 0
  <2>1. b = <<>>
    BY <1>9, <1>10, <1>11 DEF ByteSeq
  <2>2. Attempt(s) = More(1)
    BY <1>8, <2>1, NoItem
  <2>3. ~(Len(e) <= Len(b)) /\ 1 \in 1 .. (Len(e) - Len(b)) /\ ~(0 > 0)
    BY <1>10, <1>11
  <2>4. QED
    BY <1>11, <2>2, <2>3 DEF Reads, a
<1>12. CASE a = Len(w)
  <2>1. Len(b) = Len(e) /\ \A i \in 1 .. Len(b) : b[i] = e[i]
    BY <1>9, <1>10, <1>12 DEF Agrees
  <2>2. b = e
    BY <1>9, <1>10, <2>1 DEF ByteSeq
  <2>3. Attempt(s) = Ok(it, <<>>)
    BY <1>4, <1>8, <2>2
  <2>4. Drop(b, Len(e)) = <<>> /\ Len(e) <= Len(b)
    <3>1. Len(e) <= Len(b)
      BY <1>10, <2>1
    <3>2. Drop(b, Len(e)) \in ByteSeq /\ Len(Drop(b, Len(e))) = 0
      BY <1>9, <1>10, <2>1, <3>1, DropFacts
    <3>3. QED
      BY <3>1, <3>2 DEF ByteSeq
  <2>5. Attempt(s).st = "ok"
    BY <2>3 DEF Ok
  <2>6. QED
    BY <2>3, <2>4, <2>5 DEF Reads
<1>13. QED
  BY <1>5, <1>11, <1>12

\* A reader that is about to take, or has taken, a lopsided message.
LEMMA LostReader ==
  ASSUME FramingInv, NEW s \in Streams, Lost(sent[s], Len(got[s]) + 1), Reading(s)
  PROVE  s \in Control /\ Len(got[s]) >= 1 /\ pc[s] = "message"
<1> DEFINE n == Len(got[s])
<1>1. n \in Nat /\ IsSeq(sent[s])
  BY InvFacts
<1>2. s \in Control
  <2>1. s \in {"data", "dgram"} => FALSE
    BY DataAt
  <2>2. QED
    BY <2>1, NamesOfStreams
<1>3. n # 0
  <2> SUFFICES ASSUME n = 0 PROVE FALSE
    OBVIOUS
  <2>1. 0 + 1 <= Len(sent[s]) /\ Lopsided(sent[s][0 + 1].item)
    BY <1>1, LostNext
  <2>2. sent[s][1].item = ItemAt(s, 1)
    <3>1. 1 \in 1 .. Len(sent[s])
      BY <1>1, <2>1, InvFacts
    <3>2. QED
      BY <3>1 DEF FramingInv, Scripted, Sends
  <2>3. Before(s) = 1 /\ ~(1 > 1)
    BY <1>2 DEF Before
  <2>4. ItemAt(s, 1)[1] \in {"Client", "Server"}
    BY <2>3 DEF ItemAt, ClientItem, ServerItem
  <2>5. sent[s][1].item[1] \in {"Client", "Server"} /\ Lopsided(sent[s][1].item)
    BY <2>1, <2>2, <2>4
  <2>6. QED
    BY <2>5, AbsoluteFacts
<1>4. pc[s] = "message"
  <2>1. s = "c2s" => pc[s] \in {"message", "failed"}
    BY <1>3 DEF FramingInv, Handshake
  <2>2. s = "s2c" => pc[s] \in {"message", "failed"}
    BY <1>3 DEF FramingInv, Handshake
  <2>3. QED
    BY <1>2, <2>1, <2>2, NamesOfStreams DEF Reading
<1>5. QED
  BY <1>1, <1>2, <1>3, <1>4

\* What an attempt of a reader that is not lost leads to: it is told to wait,
\* or fails half way into an absolute filter, or takes the next item.
LEMMA AttemptFacts ==
  ASSUME FramingInv, NEW s \in Streams, Reading(s), need[s] = 0, pc[s] # "payload",
         pc[s] \in Objects => Buffer(s) # <<>>, ~Lost(sent[s], Len(got[s]) + 1)
  PROVE  LET n == Len(got[s])
             d == Attempt(s)
         IN  \/ /\ d.st = "more" /\ ~(s = "dgram" /\ arrived[s] > 0)
                /\ Patient(sent[s], arrived[s], consumed[s], got[s], arrived[s] + d.n)
             \/ /\ d.st = "err" /\ Cause(script, next, sent[s], arrived[s], got[s], ended[s], d.why)
                /\ s \in Control => n >= 1
             \/ /\ d.st = "ok" /\ n + 1 <= Len(sent[s]) /\ d.val = sent[s][n + 1].item
                /\ Expects(s, n, d.val)
                /\ arrived[s] - Len(d.rest) = sent[s][n + 1].end /\ arrived[s] - Len(d.rest) <= arrived[s]
<1> DEFINE w == wire[s]
           q == sent[s]
           a == arrived[s]
           c == consumed[s]
           g == got[s]
           n == Len(g)
           d == Attempt(s)
<1>1. n \in Nat /\ IsSeq(q) /\ Len(q) \in Nat
  BY InvFacts
<1>2. ~Lost(q, n) /\ ~Lost(q, n + 1)
  BY <1>1, LostFacts
<1>3. Laid(w, q) /\ Placed(w, q, a, c, g)
  BY DEF FramingInv, Well
<1>4. a \in Nat /\ c \in Nat /\ n <= Len(q)
  <2> HIDE DEF w, q, a, c, g
  <2>1. QED
    BY <1>2, <1>3, Standing
<1>5. CASE n + 1 <= Len(q)
  <2> DEFINE it == q[n + 1].item
             may == Absolute(it)
  <2>1. Expects(s, n, it)
    BY <1>5, NextItem
  <2>2. PICK b, e : b = Buffer(s) /\ e = EncItem(it)
    OBVIOUS
  <2>3. b = SubSeq(w, c + 1, a)
    BY <2>2 DEF Buffer
  <2>4. b \in ByteSeq /\ Agrees(b, e)
    <3> HIDE DEF w, q, a, c, g
    <3>1. e = EncItem(q[Len(g) + 1].item) /\ Len(g) + 1 <= Len(q) /\ ~Lost(q, Len(g))
      BY <1>2, <1>5, <2>2
    <3> HIDE DEF n, it
    <3>2. QED
      BY <1>3, <2>3, <3>1, AtItem
  <2>5. ~Lopsided(it)
    BY <1>1, <1>2, <1>5, LostNext
  <2>6. may \in BOOLEAN
    BY AbsoluteFacts
  <2>7. Reads(d, b, e, it, may) /\ (s = "dgram" /\ d.st = "more" => ~(a > 0))
    <3>1. CASE s # "dgram"
      BY <2>1, <2>2, <2>4, <2>5, <3>1, AttemptReads
    <3>2. CASE s = "dgram"
      <4>1. Reads(d, b, e, it, FALSE) /\ (d.st = "more" => ~(a > 0))
        BY <1>5, <2>1, <2>2, <3>2, DatagramAttempt
      <4> HIDE DEF d, it, may
      <4>2. Reads(d, b, e, it, may)
        BY <2>6, <4>1, WeakenReads
      <4>3. QED
        BY <4>1, <4>2
    <3>3. QED
      BY <3>1, <3>2
  <2>8. \/ /\ d.st = "more" /\ a + d.n \in Nat /\ a + d.n > a /\ a + d.n <= q[n + 1].end
        \/ /\ d.st = "err" /\ may /\ d.why = "MissingField" /\ a < q[n + 1].end
        \/ /\ d.st = "ok" /\ d.val = it
           /\ a - Len(d.rest) = q[n + 1].end /\ a - Len(d.rest) <= a
    <3> HIDE DEF w, q, a, c, g, d, may
    <3>1. Reads(d, b, e, q[Len(g) + 1].item, may) /\ e = EncItem(q[Len(g) + 1].item)
      BY <2>2, <2>7
    <3>2. ~Lost(q, Len(g)) /\ Len(g) + 1 <= Len(q)
      BY <1>2, <1>5
    <3> HIDE DEF n, it
    <3>3. Outcomes(d, a, q[Len(g) + 1].end, q[Len(g) + 1].item, may)
      BY <1>3, <2>3, <2>6, <3>1, <3>2, Outcome
    <3>4. QED
      BY <3>3 DEF n, it, Outcomes
  <2>9. CASE d.st = "more" /\ a + d.n \in Nat /\ a + d.n > a /\ a + d.n <= q[n + 1].end
    <3>1. Patient(q, a, c, g, a + d.n)
      <4> HIDE DEF q, a, c, g, d
      <4>1. QED
        BY <1>5, <2>9, PatientFacts
    <3>2. QED
      BY <2>7, <2>9, <3>1
  <2>10. CASE d.st = "err" /\ may /\ d.why = "MissingField" /\ a < q[n + 1].end
    <3>1. Cause(script, next, q, a, g, ended[s], d.why)
      <4> HIDE DEF q, a, g, d
      <4>1. QED
        BY <1>5, <2>10 DEF Cause
    <3>2. s \in Control => n >= 1
      <4> SUFFICES ASSUME s \in Control, ~(n >= 1) PROVE FALSE
        OBVIOUS
      <4>1. s # "data" /\ s # "dgram"
        BY NamesOfStreams
      <4>2. it = ClientItem(script.client) \/ it = ServerItem(Agreed)
        BY <2>1, <4>1 DEF Expects
      <4>3. it[1] \in {"Client", "Server"}
        BY <4>2 DEF ClientItem, ServerItem
      <4>4. QED
        BY <2>10, <4>3, AbsoluteFacts
    <3>3. QED
      BY <2>10, <3>1, <3>2
  <2>11. CASE /\ d.st = "ok" /\ d.val = it
              /\ a - Len(d.rest) = q[n + 1].end /\ a - Len(d.rest) <= a
    BY <1>5, <2>1, <2>11
  <2>12. QED
    BY <2>8, <2>9, <2>10, <2>11
<1>6. CASE ~(n + 1 <= Len(q))
  <2>1. n = Len(q)
    BY <1>1, <1>4, <1>6
  <2>2. a = c /\ c = Len(w) /\ SubSeq(w, c + 1, a) = <<>>
    <3> HIDE DEF w, q, a, c, g
    <3>1. QED
      BY <1>2, <1>3, <2>1, NothingBehind DEF n
  <2>3. Buffer(s) = <<>>
    BY <2>2 DEF Buffer
  <2>4. pc[s] \in {"client", "server", "message", "header", "datagram"}
    <3>1. pc[s] \notin {"end", "failed", "payload"} /\ pc[s] \notin Objects
      BY <2>3 DEF Reading
    <3>2. CASE s = "c2s"
      BY <3>1, <3>2 DEF FramingInv, Handshake
    <3>3. CASE s = "s2c"
      BY <3>1, <3>3 DEF FramingInv, Handshake
    <3>4. CASE s = "data"
      BY <3>1, <3>4 DEF FramingInv, InData
    <3>5. CASE s = "dgram"
      BY <3>1, <3>5 DEF FramingInv, InDatagram
    <3>6. QED
      BY <3>2, <3>3, <3>4, <3>5, NamesOfStreams
  <2>5. d.st = "more" /\ d.n = 1
    BY <2>3, <2>4, AttemptNothing, MoreFacts
  <2>6. Patient(q, a, c, g, a + d.n)
    <3>1. a + 1 \in Nat /\ a + 1 > a /\ a + 1 = c + 1
      BY <1>4, <2>2
    <3> HIDE DEF q, a, c, g, d
    <3>2. QED
      BY <1>6, <2>5, <3>1, PatientFacts
  <2>7. ~(s = "dgram" /\ a > 0)
    <3> SUFFICES ASSUME s = "dgram" PROVE a = 0
      OBVIOUS
    <3>1. n = 0
      BY <2>4 DEF FramingInv, InDatagram, Objects
    <3>2. c = EndOf(q, n)
      <4> HIDE DEF w, q, a, c, g
      <4>1. QED
        BY <1>2, <1>3, Standing DEF n
    <3>3. QED
      BY <2>2, <3>1, <3>2 DEF EndOf
  <2>8. QED
    BY <2>5, <2>6, <2>7
<1>7. QED
  BY <1>5, <1>6

\* A buffer that is not empty.
LEMMA SomeBuffer ==
  ASSUME NEW s \in Streams, wire[s] \in ByteSeq, consumed[s] \in Nat, arrived[s] \in 0 .. Len(wire[s]),
         consumed[s] <= arrived[s]
  PROVE  /\ Len(Buffer(s)) = arrived[s] - consumed[s]
         /\ Buffer(s) # <<>> <=> arrived[s] > consumed[s]
<1> DEFINE b == SubSeq(wire[s], consumed[s] + 1, arrived[s])
<1>1. b \in ByteSeq /\ Len(b) = arrived[s] - consumed[s]
  BY SliceFacts
<1>2. Buffer(s) = b
  BY DEF Buffer
<1> HIDE DEF b
<1>3. arrived[s] \in Nat
  BY DEF ByteSeq
<1>4. Len(b) = 0 <=> b = <<>>
  BY <1>1 DEF ByteSeq
<1>5. QED
  BY <1>1, <1>2, <1>3, <1>4

\* A reader that is told to wait.
LEMMA WaitInv ==
  ASSUME FramingInv, NEW s \in Streams, pc[s] \notin {"payload", "failed"},
         pc[s] \in Objects => Buffer(s) # <<>>,
         NEW x, Patient(sent[s], arrived[s], consumed[s], got[s], x),
         need' = [need EXCEPT ![s] = x],
         UNCHANGED <<sendVars, arrived, consumed, pc, remain, got, fate>>
  PROVE  FramingInv'
<1>1. OnStreams(need') /\ need'[s] = x /\ \A t \in Streams : t # s => need'[t] = need[t]
  BY DEF FramingInv, Maps, OnStreams
<1>2. UNCHANGED <<script, next, role, up, wire, ended, sent>>
  BY DEF sendVars
<1>3. ReaderStep(s)
  <2>1. Maps'
    BY <1>1, <1>2 DEF FramingInv, Maps
  <2>2. QED
    BY <1>1, <2>1 DEF ReaderStep
<1>4. Well(s)'
  BY <1>1, <1>2 DEF FramingInv, Well
<1>5. ASSUME s = "data" PROVE InData'
  <2>1. pc["data"] \in Objects => arrived["data"] > consumed["data"]
    BY <1>5, DataAt, InvFacts, SomeBuffer
  <2>2. QED
    BY <1>2, <1>5, <2>1 DEF FramingInv, InData
<1>6. s = "dgram" => InDatagram'
  BY <1>2 DEF FramingInv, InDatagram
<1>7. QED
  BY <1>3, <1>4, <1>5, <1>6, ReaderInv

\* What Accept does to the two maps.
LEMMA AcceptFacts ==
  ASSUME FramingInv, NEW s \in Streams, NEW it, NEW rest, Accept(s, it, rest)
  PROVE  /\ OnStreams(got') /\ got'[s] = Append(got[s], it) /\ \A t \in Streams : t # s => got'[t] = got[t]
         /\ OnStreams(consumed') /\ consumed'[s] = arrived[s] - Len(rest)
         /\ \A t \in Streams : t # s => consumed'[t] = consumed[t]
         /\ Len(got'[s]) = Len(got[s]) + 1 /\ IsSeq(got'[s]) /\ got'[s][Len(got[s]) + 1] = it
<1>1. OnStreams(got') /\ got'[s] = Append(got[s], it) /\ \A t \in Streams : t # s => got'[t] = got[t]
  BY DEF Accept, FramingInv, Maps, OnStreams
<1>2. /\ OnStreams(consumed') /\ consumed'[s] = arrived[s] - Len(rest)
      /\ \A t \in Streams : t # s => consumed'[t] = consumed[t]
  BY DEF Accept, FramingInv, Maps, OnStreams
<1>3. /\ Len(Append(got[s], it)) = Len(got[s]) + 1 /\ IsSeq(Append(got[s], it))
      /\ Append(got[s], it)[Len(got[s]) + 1] = it
  BY InvFacts, AppendOne
<1>4. QED
  BY <1>1, <1>2, <1>3

\* The reader of s, not lost, takes the next item.
Takes(s, d) ==
  LET n == Len(got[s]) IN
  /\ ~Lost(sent[s], n + 1) /\ need[s] = 0 /\ n + 1 <= Len(sent[s]) /\ d.val = sent[s][n + 1].item
  /\ Expects(s, n, d.val) /\ arrived[s] - Len(d.rest) = sent[s][n + 1].end /\ arrived[s] - Len(d.rest) <= arrived[s]

\* Having taken the next item the reader stands behind it.
LEMMA TakesFacts ==
  ASSUME FramingInv, NEW s \in Streams, NEW d, Takes(s, d)
  PROVE  LET c2 == arrived[s] - Len(d.rest)
             g2 == Append(got[s], d.val)
         IN  /\ Laid(wire[s], sent[s]) /\ Placed(wire[s], sent[s], arrived[s], c2, g2)
             /\ Patient(sent[s], arrived[s], c2, g2, need[s])
<1> DEFINE w == wire[s]
           q == sent[s]
           a == arrived[s]
           c == consumed[s]
           g == got[s]
           c2 == arrived[s] - Len(d.rest)
           g2 == Append(got[s], d.val)
<1>1. Laid(w, q) /\ Placed(w, q, a, c, g)
  BY DEF FramingInv, Well
<1>2. ~Lost(q, Len(g))
  BY InvFacts, LostFacts DEF Takes
<1>3. /\ Len(g) + 1 <= Len(q) /\ c2 = q[Len(g) + 1].end /\ c2 <= a
      /\ g2 = Append(g, q[Len(g) + 1].item) /\ need[s] = 0
  BY DEF Takes
<1> HIDE DEF w, q, a, c, g, c2, g2
<1>4. Placed(w, q, a, c2, g2)
  BY <1>1, <1>2, <1>3, Taken
<1>5. Patient(q, a, c2, g2, 0)
  BY PatientFacts
<1>6. QED
  BY <1>1, <1>3, <1>4, <1>5 DEF w, q, a, c2, g2

\* What is read behind a lopsided message.
LEMMA LostMessageInv ==
  ASSUME FramingInv, NEW s \in Streams, NEW d, Lost(sent[s], Len(got[s]) + 1), Reading(s), RecvMessage(s, d)
  PROVE  FramingInv'
<1>1. /\ Accept(s, d.val, d.rest) /\ UNCHANGED <<sendVars, arrived, need, remain>>
      /\ \/ UNCHANGED <<pc, fate>>
         \/ Fail(s, Refused(To[s], d.val[1]))
  BY DEF RecvMessage
<1>2. UNCHANGED <<script, next, role, up, wire, ended, sent>>
  BY <1>1 DEF sendVars
<1>3. s \in Control /\ Len(got[s]) >= 1 /\ pc[s] = "message" /\ s \notin {"data", "dgram"}
  BY LostReader, NamesOfStreams
<1>4. OnStreams(pc') /\ pc'[s] \in {"message", "failed"} /\ \A t \in Streams : t # s => pc'[t] = pc[t]
  BY <1>1, <1>3 DEF Fail, FramingInv, Maps, OnStreams
<1>5. OnStreams(fate') /\ \A t \in Streams : t # s => fate'[t] = fate[t]
  BY <1>1 DEF Fail, FramingInv, Maps, OnStreams
<1>6. /\ OnStreams(got') /\ \A t \in Streams : t # s => got'[t] = got[t]
      /\ OnStreams(consumed') /\ \A t \in Streams : t # s => consumed'[t] = consumed[t]
      /\ Len(got'[s]) = Len(got[s]) + 1 /\ IsSeq(got'[s])
  BY <1>1, AcceptFacts
<1>7. ReaderStep(s)
  <2>1. Maps'
    BY <1>1, <1>2, <1>4, <1>5, <1>6 DEF FramingInv, Maps
  <2>2. QED
    BY <1>1, <1>4, <1>5, <1>6, <2>1 DEF ReaderStep
<1>8. Lost(sent[s], Len(got'[s])) /\ Lost(sent[s], Len(got'[s]) + 1) /\ Len(got'[s]) >= 1
  <2>1. Len(got'[s]) \in Nat /\ Len(got'[s]) >= 1
    BY <1>6, InvFacts
  <2>2. Lost(sent[s], Len(got'[s]))
    BY <1>6
  <2>3. QED
    BY <2>1, <2>2, InvFacts, LostFacts
<1>9. Well(s)'
  <2>1. Laid(wire[s], sent[s])
    BY DEF FramingInv, Well
  <2>2. Placed(wire[s], sent[s], arrived[s], consumed'[s], got'[s])
    BY <1>6, <1>8, InvFacts DEF Placed
  <2>3. Patient(sent[s], arrived[s], consumed'[s], got'[s], need[s])
    BY <1>8 DEF Patient
  <2>4. QED
    BY <1>1, <1>2, <1>8, <2>1, <2>2, <2>3 DEF Well
<1>10. QED
  BY <1>3, <1>4, <1>7, <1>8, <1>9, ReaderInv

\* The reader takes an item and nothing but the reader of s is concerned.
LEMMA TakenInv ==
  ASSUME FramingInv, NEW s \in Streams, NEW d, Takes(s, d), Accept(s, d.val, d.rest),
         UNCHANGED <<sendVars, arrived, need>>, s # "data" => remain' = remain,
         OnStreams(pc'), \A t \in Streams : t # s => pc'[t] = pc[t],
         OnStreams(fate'), \A t \in Streams : t # s => fate'[t] = fate[t],
         pc'[s] = "failed" => Cause(script, next, sent[s], arrived[s], got'[s], ended[s], fate'[s]),
         s \in Control => Len(got[s]) >= 1 /\ pc'[s] \in {"message", "failed"},
         s = "data" => InData', s = "dgram" => pc'[s] = "end"
  PROVE  FramingInv'
<1>1. UNCHANGED <<script, next, role, up, wire, ended, sent>>
  BY DEF sendVars
<1>2. /\ OnStreams(got') /\ \A t \in Streams : t # s => got'[t] = got[t]
      /\ OnStreams(consumed') /\ \A t \in Streams : t # s => consumed'[t] = consumed[t]
      /\ Len(got'[s]) = Len(got[s]) + 1
      /\ got'[s] = Append(got[s], d.val) /\ consumed'[s] = arrived[s] - Len(d.rest)
  BY AcceptFacts
<1>3. ReaderStep(s)
  <2>1. Maps'
    BY <1>1, <1>2 DEF FramingInv, Maps
  <2>2. QED
    BY <1>2, <2>1 DEF ReaderStep
<1>4. /\ Laid(wire[s], sent[s]) /\ Placed(wire[s], sent[s], arrived[s], consumed'[s], got'[s])
      /\ Patient(sent[s], arrived[s], consumed'[s], got'[s], need[s])
  BY <1>2, TakesFacts
<1>5. Well(s)'
  BY <1>1, <1>4 DEF Well
<1>6. Len(got'[s]) >= 1
  BY <1>2, InvFacts
<1>7. s = "dgram" => InDatagram'
  BY <1>1 DEF FramingInv, InDatagram
<1>8. QED
  BY <1>3, <1>5, <1>6, <1>7, ReaderInv

\* A message is for a half that the receiving end has.
LEMMA NotRefused ==
  ASSUME FramingInv, NEW s \in Control, Reading(s), Len(got[s]) >= 1, NEW name,
         up[From[s]] = "up", name \in Publisher => IsPublisher(role[From[s]]),
         name \in Subscriber => IsSubscriber(role[From[s]])
  PROVE  Refused(To[s], name) = IF name \in Unimplemented THEN "unimplemented" ELSE ""
<1>1. s \in {"c2s", "s2c"} /\ up[To[s]] \in {"up", "setup"}
  BY NamesOfStreams DEF Reading
<1>2. up[Client] = "up" /\ up[Server] = "up"
  <2>1. CASE s = "c2s"
    <3>1. ~(Len(got["c2s"]) = 0)
      BY <2>1
    <3>2. up[Server] # "setup"
      BY <3>1 DEF FramingInv, Handshake
    <3>3. QED
      BY <1>1, <2>1, <3>2, NamesOfStreams
  <2>2. CASE s = "s2c"
    <3>1. ~(Len(got["s2c"]) = 0)
      BY <2>2
    <3>2. up[Client] = "up"
      BY <3>1 DEF FramingInv, Handshake
    <3>3. QED
      BY <2>2, <3>2, NamesOfStreams
  <2>3. QED
    BY <1>1, <2>1, <2>2
<1>3. is_compatible(role[Client], role[Server])
  BY <1>2, InvImplies DEF RolesFit
<1>4. /\ IsPublisher(role[From[s]]) => IsSubscriber(role[To[s]])
      /\ IsSubscriber(role[From[s]]) => IsPublisher(role[To[s]])
  BY <1>1, <1>3, NamesOfStreams DEF is_compatible
<1>5. QED
  BY <1>4 DEF Refused

\* A message that was taken.
LEMMA RecvMessageInv ==
  ASSUME FramingInv, NEW s \in Streams, NEW d, Reading(s), Takes(s, d), pc[s] = "message", RecvMessage(s, d)
  PROVE  FramingInv'
<1> DEFINE n == Len(got[s])
           why == Refused(To[s], d.val[1])
<1>1. /\ Accept(s, d.val, d.rest) /\ UNCHANGED <<sendVars, arrived, need, remain>>
      /\ IF why = "" THEN UNCHANGED <<pc, fate>> ELSE Fail(s, why)
  BY DEF RecvMessage
<1>2. s \in Control /\ n >= 1 /\ s \notin {"data", "dgram"}
  BY NamesOfStreams DEF Takes, Expects, Objects
<1>3. d.val = sent[s][n + 1].item /\ n + 1 \in 1 .. Len(sent[s]) /\ n + 1 > Before(s) /\ n \in Nat
  BY <1>2, InvFacts DEF Takes, Before
<1>4. up[From[s]] = "up" /\ MaySend(From[s], d.val)
  BY <1>3, SentFacts
<1>5. why = IF d.val[1] \in Unimplemented THEN "unimplemented" ELSE ""
  <2>1. /\ d.val[1] \in Publisher => IsPublisher(role[From[s]])
        /\ d.val[1] \in Subscriber => IsSubscriber(role[From[s]])
    BY <1>4 DEF MaySend
  <2>2. QED
    BY <1>2, <1>4, <2>1, NotRefused
<1> HIDE DEF why
<1>6. /\ OnStreams(pc') /\ \A t \in Streams : t # s => pc'[t] = pc[t]
      /\ pc'[s] = IF why = "" THEN "message" ELSE "failed"
  BY <1>1 DEF Fail, FramingInv, Maps, OnStreams
<1>7. /\ OnStreams(fate') /\ \A t \in Streams : t # s => fate'[t] = fate[t]
      /\ why # "" => fate'[s] = why
  BY <1>1 DEF Fail, FramingInv, Maps, OnStreams
<1>8. pc'[s] = "failed" => Cause(script, next, sent[s], arrived[s], got'[s], ended[s], fate'[s])
  <2>1. Len(got'[s]) = n + 1 /\ got'[s][n + 1] = d.val
    BY <1>1, AcceptFacts
  <2>2. pc'[s] = "failed" => fate'[s] = "unimplemented" /\ d.val[1] \in Unimplemented
    BY <1>5, <1>6, <1>7
  <2>3. QED
    BY <2>1, <2>2 DEF Cause
<1>9. pc'[s] \in {"message", "failed"}
  BY <1>6
<1>10. QED
  BY <1>1, <1>2, <1>6, <1>7, <1>8, <1>9, TakenInv

\* What follows an object in the script of a data stream.
LEMMA DataScript ==
  ASSUME NEW sc \in Scripts, sc.on = "data"
  PROVE  /\ Closed(sc.items, 1)
         /\ \A j \in 2 .. Len(sc.items) : IsObject(sc.items[j]) =>
              LET k == ObjectSize(sc.items[j]) IN
              /\ k \in Nat /\ j + k <= Len(sc.items) /\ Closed(sc.items, j + k)
              /\ \A i \in (j + 1) .. (j + k) : IsByte(sc.items[i])
<1>1. IsDataStream(sc.items)
  BY ScriptsAssumption DEF IsScript
<1>2. ASSUME NEW j \in 2 .. Len(sc.items), IsObject(sc.items[j])
      PROVE  LET k == ObjectSize(sc.items[j]) IN
             /\ k \in Nat /\ j + k <= Len(sc.items) /\ Closed(sc.items, j + k)
             /\ \A i \in (j + 1) .. (j + k) : IsByte(sc.items[i])
  <2>1. ObjectSize(sc.items[j]) \in Nat
    BY <1>2, ObjectReads
  <2>2. ~IsByte(sc.items[j])
    <3>1. sc.items[j][1] \in Objects /\ "byte" \notin Objects
      BY <1>2, EncItemFacts DEF Objects
    <3>2. QED
      BY <3>1, ByteFacts
  <2>3. QED
    BY <1>1, <2>1, <2>2, Zenon DEF IsDataStream
<1>3. QED
  BY <1>1, <1>2 DEF IsDataStream

\* A header that was taken.
LEMMA RecvHeaderInv ==
  ASSUME FramingInv, NEW s \in Streams, NEW d, Takes(s, d), pc[s] = "header", RecvHeader(d)
  PROVE  FramingInv'
<1>1. s = "data" /\ Len(got[s]) = 0 /\ d.val = script.items[1] /\ script.on = "data" /\ need[s] = 0
  BY DEF Takes, Expects, Objects
<1>2. /\ Accept(s, d.val, d.rest) /\ UNCHANGED <<sendVars, arrived, need, remain, fate>>
      /\ pc' = [pc EXCEPT ![s] = ObjectOf(d.val[1])]
  BY <1>1 DEF RecvHeader
<1>3. /\ OnStreams(pc') /\ \A t \in Streams : t # s => pc'[t] = pc[t]
      /\ pc'[s] = ObjectOf(d.val[1])
  BY <1>2 DEF FramingInv, Maps, OnStreams
<1>4. pc'[s] \in Objects /\ pc'[s] \notin {"header", "payload", "failed", "end"}
  BY <1>3 DEF ObjectOf, Objects
<1>5. Len(got'[s]) = 1
  <2>1. Len(got'[s]) = 0 + 1
    BY <1>1, <1>2, AcceptFacts
  <2>2. QED
    BY <2>1
<1>6. Closed(script.items, 1)
  BY <1>1, InvFacts, DataScript
<1>7. InData'
  <2>1. script' = script /\ need'[s] = 0
    BY <1>1, <1>2 DEF sendVars
  <2>2. QED
    BY <1>1, <1>3, <1>4, <1>5, <1>6, <2>1 DEF InData
<1>8. s \notin Control /\ OnStreams(fate') /\ s # "dgram" /\ \A t \in Streams : fate'[t] = fate[t]
  BY <1>1, <1>2, NamesOfStreams DEF FramingInv, Maps
<1>9. QED
  BY <1>2, <1>3, <1>4, <1>7, <1>8, TakenInv

\* An object that was taken: its payload is behind it.
LEMMA RecvObjectInv ==
  ASSUME FramingInv, NEW s \in Streams, NEW d, Takes(s, d), pc[s] \in Objects, RecvObject(d)
  PROVE  FramingInv'
<1> DEFINE n == Len(got[s])
           k == ObjectSize(d.val)
<1>1. /\ s = "data" /\ n >= 1 /\ IsObject(d.val) /\ d.val = script.items[n + 1] /\ script.on = "data"
      /\ n + 1 <= Len(script.items) /\ need[s] = 0
  BY DEF Takes, Expects, Objects
<1>2. /\ Accept(s, d.val, d.rest) /\ UNCHANGED <<sendVars, arrived, need, fate>> /\ remain' = k
      /\ pc' = [pc EXCEPT ![s] = IF k = 0 THEN pc[s] ELSE "payload"]
  BY <1>1 DEF RecvObject
<1>3. /\ k \in Nat /\ n + 1 + k <= Len(script.items) /\ Closed(script.items, n + 1 + k)
      /\ \A i \in (n + 1 + 1) .. (n + 1 + k) : IsByte(script.items[i])
  <2>1. n + 1 \in 2 .. Len(script.items)
    BY <1>1, InvFacts
  <2>2. QED
    BY <1>1, <2>1, InvFacts, DataScript
<1> HIDE DEF k
<1>4. /\ OnStreams(pc') /\ \A t \in Streams : t # s => pc'[t] = pc[t]
      /\ pc'[s] = IF k = 0 THEN pc[s] ELSE "payload"
  BY <1>2 DEF FramingInv, Maps, OnStreams
<1>5. Len(got'[s]) = n + 1 /\ n \in Nat /\ n + 1 >= 1
  BY <1>2, InvFacts, AcceptFacts
<1>6. script' = script /\ need'[s] = 0
  BY <1>1, <1>2 DEF sendVars
<1>7. InData'
  <2>1. CASE k = 0
    <3>1. Closed(script.items, n + 1)
      BY <1>3, <1>5, <2>1
    <3>2. pc'[s] \in Objects /\ pc'[s] \notin {"header", "payload"}
      BY <1>4, <2>1 DEF Objects
    <3>3. pc'[s] = ObjectOf(script.items[1][1])
      BY <1>1, <1>4, <2>1 DEF FramingInv, InData
    <3>4. QED
      <4> DEFINE items == script.items
                 m == Len(got'["data"])
      <4>1. /\ pc'["data"] = ObjectOf(items[1][1]) /\ Closed(items, m) /\ ~(need'["data"] > 0)
        BY <1>1, <1>5, <1>6, <3>1, <3>3
      <4>2. pc'["data"] \in Objects /\ pc'["data"] \notin {"header", "payload"} /\ m >= 1 /\ items' = items
        BY <1>1, <1>5, <1>6, <3>2
      <4> HIDE DEF m
      <4>3. QED
        BY <4>1, <4>2 DEF InData, m
  <2>2. CASE k # 0
    <3>1. k \in 1 .. (Len(script.items) - (n + 1))
      <4>1. \A i, j, m \in Nat : j # 0 /\ i + 1 + j <= m => j \in 1 .. (m - (i + 1))
        OBVIOUS
      <4> HIDE DEF n
      <4>2. QED
        BY <1>3, <1>5, <2>2, <4>1, InvFacts
    <3>2. pc'[s] = "payload" /\ "payload" \notin Objects
      BY <1>4, <2>2 DEF Objects
    <3>3. QED
      <4> DEFINE items == script.items
                 m == Len(got'["data"])
      <4>1. /\ need'["data"] = 0 /\ remain' \in 1 .. (Len(items) - m) /\ Closed(items, m + remain')
            /\ \A i \in (m + 1) .. (m + remain') : IsByte(items[i])
        BY <1>1, <1>2, <1>3, <1>5, <1>6, <3>1
      <4>2. pc'["data"] = "payload" /\ m >= 1 /\ items' = items
        BY <1>1, <1>5, <1>6, <3>2
      <4> HIDE DEF m
      <4>3. QED
        BY <3>2, <4>1, <4>2 DEF InData, m
  <2>3. QED
    BY <2>1, <2>2
<1>8. s \notin Control /\ OnStreams(fate') /\ s # "dgram" /\ \A t \in Streams : fate'[t] = fate[t]
  BY <1>1, <1>2, NamesOfStreams DEF FramingInv, Maps
<1>9. pc'[s] # "failed"
  BY <1>4 DEF Objects
<1>10. QED
  BY <1>1, <1>2, <1>4, <1>7, <1>8, <1>9, TakenInv

\* A datagram that was taken.
LEMMA RecvDatagramInv ==
  ASSUME FramingInv, NEW s \in Streams, NEW d, Takes(s, d), pc[s] = "datagram", RecvDatagram(d)
  PROVE  FramingInv'
<1>1. s = "dgram"
  BY DEF Takes, Expects, Objects
<1>2. /\ Accept(s, d.val, d.rest) /\ UNCHANGED <<sendVars, arrived, need, remain, fate>>
      /\ pc' = [pc EXCEPT ![s] = "end"]
  BY <1>1 DEF RecvDatagram
<1>3. /\ OnStreams(pc') /\ pc'[s] = "end" /\ \A t \in Streams : t # s => pc'[t] = pc[t]
  BY <1>2 DEF FramingInv, Maps, OnStreams
<1>4. s \notin Control /\ OnStreams(fate') /\ s # "data" /\ \A t \in Streams : fate'[t] = fate[t]
  BY <1>1, <1>2, NamesOfStreams DEF FramingInv, Maps
<1>5. QED
  BY <1>2, <1>3, <1>4, TakenInv

\* The client's reader of the server's SETUP.
LEMMA ConnectSetupInv ==
  ASSUME FramingInv, NEW s \in Streams, NEW d, Reading(s), Takes(s, d), pc[s] = "server", ConnectSetup(d)
  PROVE  FramingInv'
<1> DEFINE r == Downgrade(script.client, Agreed)
<1>1. /\ s = "s2c" /\ Len(got[s]) = 0 /\ d.val = ServerItem(Agreed) /\ Agreed \in DOMAIN RoleCode
      /\ up[Client] # "up" /\ up[Server] = "up"
  BY DEF Takes, Expects, Objects
<1>2. role[Client] = script.client /\ role[Server] = Agreed
  BY <1>1 DEF FramingInv, Handshake
<1>3. r # "none" /\ r \in DOMAIN RoleCode
  <2>1. script.client \in DOMAIN RoleCode /\ script.server \in DOMAIN RoleCode /\ Agreed # "none"
    BY <1>1, InvFacts, ScriptFacts, RoleFacts
  <2>2. QED
    BY <2>1, RolesMatch DEF Agreed
<1>4. /\ Accept(s, d.val, d.rest) /\ UNCHANGED <<script, next, wire, ended, sent, arrived, need, remain, fate>>
      /\ role' = [role EXCEPT ![Client] = r] /\ up' = [up EXCEPT ![Client] = "up"]
      /\ pc' = [pc EXCEPT ![s] = "message"]
  <2>1. d.val[2][2] = Agreed
    BY <1>1 DEF ServerItem
  <2>2. QED
    BY <1>1, <1>2, <1>3, <2>1 DEF ConnectSetup
<1> HIDE DEF r
<1>5. /\ role'[Client] = r /\ role'[Server] = role[Server] /\ role' = [e \in {Client, Server} |-> role'[e]]
      /\ up'[Client] = "up" /\ up'[Server] = up[Server] /\ up' = [e \in {Client, Server} |-> up'[e]]
  BY <1>4, NamesOfStreams DEF FramingInv, Maps
<1>6. OnStreams(pc') /\ pc'[s] = "message" /\ \A t \in Streams : t # s => pc'[t] = pc[t]
  BY <1>4 DEF FramingInv, Maps, OnStreams
<1>7. /\ OnStreams(got') /\ \A t \in Streams : t # s => got'[t] = got[t]
      /\ OnStreams(consumed') /\ \A t \in Streams : t # s => consumed'[t] = consumed[t]
      /\ Len(got'[s]) = Len(got[s]) + 1
      /\ got'[s] = Append(got[s], d.val) /\ consumed'[s] = arrived[s] - Len(d.rest)
  BY <1>4, AcceptFacts
<1>8. Maps'
  BY <1>4, <1>5, <1>6, <1>7 DEF FramingInv, Maps
<1>9. Agreed' = Agreed
  BY <1>4 DEF Agreed
<1>10. Scripted'
  <2>1. ASSUME NEW t \in Streams PROVE Sends(t)'
    <3>1. Sends(t)
      BY DEF FramingInv, Scripted
    <3>2. \A i : ItemAt(t, i)' = ItemAt(t, i)
      BY <1>4, <1>9 DEF ItemAt
    <3>3. CASE t = "c2s"
      <4>1. From[t] = Client
        BY <3>3, NamesOfStreams
      <4>2. \A i \in 1 .. Len(sent[t]) : ~(i > Before(t))
        BY <1>1, <3>1, <4>1 DEF Sends
      <4>3. QED
        BY <1>4, <3>1, <3>2, <4>2 DEF Sends
    <3>4. CASE t # "c2s"
      <4>1. From[t] = Server
        BY <3>4, NamesOfStreams
      <4>2. \A x : MaySend(From[t], x)' <=> MaySend(From[t], x)
        BY <1>5, <4>1 DEF MaySend
      <4>3. up'[From[t]] = up[From[t]]
        BY <1>5, <4>1
      <4>4. QED
        BY <1>4, <3>1, <3>2, <4>2, <4>3 DEF Sends
    <3>5. QED
      BY <3>3, <3>4
  <2>2. QED
    BY <1>4, <2>1 DEF FramingInv, Scripted
<1>11. Handshake'
  <2>1. Len(got'["s2c"]) >= 1 /\ pc'["s2c"] = "message" /\ got'["c2s"] = got["c2s"] /\ pc'["c2s"] = pc["c2s"]
    BY <1>1, <1>6, <1>7, InvFacts
  <2>2. Len(sent["c2s"]) # 0
    BY <1>1, NamesOfStreams DEF FramingInv, Handshake, Reading
  <2>3. role'[Client] = Downgrade(script.client, Agreed)
    BY <1>5 DEF r
  <2>4. up'[Client] = "up" /\ up'[Server] = "up" /\ role'[Server] = Agreed /\ Len(sent["s2c"]) >= 1
    BY <1>1, <1>2, <1>5 DEF FramingInv, Handshake
  <2>5. up[Server] # "setup" /\ Len(got["c2s"]) >= 1 /\ pc["c2s"] \in {"message", "failed"}
    BY <1>1 DEF FramingInv, Handshake
  <2>6. QED
    BY <1>1, <1>4, <1>9, <2>1, <2>2, <2>3, <2>4, <2>5 DEF Handshake
<1>12. InData' /\ InDatagram'
  <2>1. /\ got'["data"] = got["data"] /\ pc'["data"] = pc["data"] /\ consumed'["data"] = consumed["data"]
        /\ got'["dgram"] = got["dgram"] /\ pc'["dgram"] = pc["dgram"]
    BY <1>1, <1>6, <1>7, InvFacts
  <2>2. InData'
    BY <1>4, <2>1 DEF FramingInv, InData
  <2>3. InDatagram'
    BY <1>4, <2>1 DEF FramingInv, InDatagram
  <2>4. QED
    BY <2>2, <2>3
<1>13. Ends'
  BY <1>4 DEF FramingInv, Ends
<1>14. ASSUME NEW t \in Streams PROVE Well(t)'
  <2>1. CASE t # s
    BY <1>4, <1>6, <1>7, <2>1, WellKept DEF FramingInv
  <2>2. CASE t = s
    <3>1. /\ Laid(wire[s], sent[s]) /\ Placed(wire[s], sent[s], arrived[s], consumed'[s], got'[s])
          /\ Patient(sent[s], arrived[s], consumed'[s], got'[s], need[s])
      BY <1>7, TakesFacts
    <3>2. QED
      BY <1>4, <1>6, <2>2, <3>1 DEF Well
  <2>3. QED
    BY <2>1, <2>2
<1>15. QED
  BY <1>8, <1>10, <1>11, <1>12, <1>13, <1>14 DEF FramingInv

\* What the server's reader of the client's SETUP leaves as it was.
LEMMA AcceptSetupInv ==
  ASSUME FramingInv, NEW s \in Streams, NEW d, Reading(s), Takes(s, d), pc[s] = "client", AcceptSetup(d)
  PROVE  FramingInv'
<1> DEFINE it == ServerItem(Agreed)
           fits == Agreed # "none"
<1>1. /\ s = "c2s" /\ Len(got[s]) = 0 /\ d.val = ClientItem(script.client) /\ up[Server] = "setup"
  BY DEF Takes, Expects, Objects
<1>2. /\ role[Server] = script.server /\ Len(sent["s2c"]) = 0 /\ up[Client] # "up"
      /\ Len(got["s2c"]) = 0 /\ pc["s2c"] = "server"
  BY <1>1 DEF FramingInv, Handshake
<1>3. /\ script.client \in DOMAIN RoleCode /\ script.server \in DOMAIN RoleCode
      /\ fits => Agreed \in DOMAIN RoleCode
      /\ ~fits => script.client = script.server /\ script.client # "Both"
  <2>1. script.client \in DOMAIN RoleCode /\ script.server \in DOMAIN RoleCode
    BY InvFacts, ScriptFacts
  <2>2. QED
    BY <2>1, RolesMatch DEF Agreed
<1>4. /\ Accept(s, d.val, d.rest) /\ UNCHANGED <<script, next, ended, arrived, need, remain>>
      /\ IF fits
         THEN /\ role' = [role EXCEPT ![Server] = Agreed] /\ up' = [up EXCEPT ![Server] = "up"]
              /\ Write("s2c", it) /\ pc' = [pc EXCEPT ![s] = "message"] /\ UNCHANGED fate
         ELSE /\ Fail(s, "setup") /\ up' = [up EXCEPT ![Server] = "failed"]
              /\ UNCHANGED <<role, wire, sent>>
  <2>1. d.val[2][2] = script.client /\ d.val[2][1] = <<DRAFT_07>>
    BY <1>1 DEF ClientItem
  <2>2. DRAFT_07 \in ToSet(<<DRAFT_07>>)
    <3>1. 1 \in DOMAIN <<DRAFT_07>> /\ <<DRAFT_07>>[1] = DRAFT_07
      OBVIOUS
    <3>2. QED
      BY <3>1 DEF ToSet
  <2>3. Downgrade(role[Server], d.val[2][2]) = Agreed
    BY <1>2, <2>1 DEF Agreed
  <2>4. QED
    BY <1>1, <2>1, <2>2, <2>3 DEF AcceptSetup, ServerItem
<1>5. /\ role'[Client] = role[Client] /\ role'[Server] = IF fits THEN Agreed ELSE script.server
      /\ role' = [e \in {Client, Server} |-> role'[e]]
  BY <1>2, <1>4, NamesOfStreams DEF FramingInv, Maps
<1>6. /\ up'[Client] = up[Client] /\ up'[Server] = IF fits THEN "up" ELSE "failed"
      /\ up' = [e \in {Client, Server} |-> up'[e]]
  BY <1>4, NamesOfStreams DEF FramingInv, Maps
<1>7. /\ OnStreams(pc') /\ pc'[s] = (IF fits THEN "message" ELSE "failed")
      /\ \A t \in Streams : t # s => pc'[t] = pc[t]
  BY <1>4 DEF Fail, FramingInv, Maps, OnStreams
<1>8. /\ OnStreams(fate') /\ (~fits => fate'[s] = "setup") /\ \A t \in Streams : t # s => fate'[t] = fate[t]
  BY <1>4 DEF Fail, FramingInv, Maps, OnStreams
<1>9. /\ OnStreams(got') /\ \A t \in Streams : t # s => got'[t] = got[t]
      /\ OnStreams(consumed') /\ \A t \in Streams : t # s => consumed'[t] = consumed[t]
      /\ Len(got'[s]) = Len(got[s]) + 1
      /\ got'[s] = Append(got[s], d.val) /\ consumed'[s] = arrived[s] - Len(d.rest)
  BY <1>4, AcceptFacts
<1> DEFINE w2 == wire["s2c"] \o EncItem(it)
           q2 == Append(sent["s2c"], [item |-> it, end |-> Len(w2)])
<1>10. /\ OnStreams(wire') /\ OnStreams(sent')
       /\ \A t \in Streams : t # "s2c" => wire'[t] = wire[t] /\ sent'[t] = sent[t]
       /\ IF fits THEN wire'["s2c"] = w2 /\ sent'["s2c"] = q2
          ELSE wire'["s2c"] = wire["s2c"] /\ sent'["s2c"] = sent["s2c"]
  <2>1. OnStreams(wire) /\ OnStreams(sent) /\ "s2c" \in Streams
    BY InvFacts DEF FramingInv, Maps
  <2>2. CASE fits
    <3>1. wire' = [wire EXCEPT !["s2c"] = w2] /\ sent' = [sent EXCEPT !["s2c"] = q2]
      BY <1>4, <2>2 DEF Write
    <3> HIDE DEF w2, q2
    <3>2. OnStreams(wire') /\ wire'["s2c"] = w2 /\ \A t \in Streams : t # "s2c" => wire'[t] = wire[t]
      BY <2>1, <3>1 DEF OnStreams
    <3>3. OnStreams(sent') /\ sent'["s2c"] = q2 /\ \A t \in Streams : t # "s2c" => sent'[t] = sent[t]
      BY <2>1, <3>1 DEF OnStreams
    <3>4. QED
      BY <2>2, <3>2, <3>3
  <2>3. CASE ~fits
    BY <1>4, <2>1, <2>3
  <2>4. QED
    BY <2>2, <2>3
<1>11. Agreed' = Agreed
  BY <1>4 DEF Agreed
<1>12. fits => Encoded(EncItem(it))
  <2>1. it[1] = "Server"
    BY DEF ServerItem
  <2>2. fits => Encoded(EncServer(it))
    BY <1>3, ServerReads
  <2> HIDE DEF it
  <2>3. QED
    BY <2>1, <2>2, EncItemFacts
<1>13. fits => Len(sent'["s2c"]) = 1 /\ sent'["s2c"][1].item = it
  <2>1. Len(q2) = 0 + 1 /\ q2[0 + 1] = [item |-> it, end |-> Len(w2)]
    <3>1. PICK q : q = sent["s2c"]
      OBVIOUS
    <3>2. IsSeq(q) /\ Len(q) = 0
      BY <1>2, <3>1, InvFacts
    <3>3. \A x : Len(Append(q, x)) = Len(q) + 1 /\ Append(q, x)[Len(q) + 1] = x
      BY <3>2, AppendOne
    <3>4. QED
      BY <3>1, <3>2, <3>3, Zenon
  <2>2. Len(q2) = 1 /\ q2[1].item = it
    BY <2>1
  <2> HIDE DEF q2, it
  <2>3. QED
    BY <1>10, <2>2
<1> HIDE DEF w2, q2, it, fits
<1>14. Maps'
  BY <1>4, <1>5, <1>6, <1>7, <1>8, <1>9, <1>10 DEF FramingInv, Maps
<1>15. ASSUME NEW t \in Streams PROVE Sends(t)'
  <2>1. Sends(t)
    BY DEF FramingInv, Scripted
  <2>2. \A i : ItemAt(t, i)' = ItemAt(t, i)
    BY <1>4, <1>11 DEF ItemAt
  <2>3. CASE t = "c2s"
    <3>1. From[t] = Client /\ sent'[t] = sent[t]
      BY <1>10, <2>3, NamesOfStreams
    <3>2. \A x : MaySend(From[t], x)' <=> MaySend(From[t], x)
      BY <1>5, <3>1 DEF MaySend
    <3>3. QED
      BY <1>4, <1>6, <2>1, <2>2, <3>1, <3>2 DEF Sends
  <2>4. CASE t # "c2s" /\ sent'[t] = sent[t]
    <3>1. From[t] = Server
      BY <2>4, NamesOfStreams
    <3>2. \A i \in 1 .. Len(sent[t]) : ~(i > Before(t))
      BY <1>1, <2>1, <3>1 DEF Sends
    <3>3. QED
      BY <1>4, <2>1, <2>2, <2>4, <3>2 DEF Sends
  <2>5. CASE t = "s2c" /\ fits
    <3>1. Before("s2c") = 1 /\ ~(1 > 1) /\ 1 <= 1
      BY NamesOfStreams DEF Before
    <3>2. ~("s2c" = script.on /\ next > 1)
      <4>1. next > 1 => next - 1 + 1 # 0
        BY InvFacts
      <4>2. QED
        BY <1>2, <2>1, <2>5, <3>1, <4>1 DEF Sends
    <3>3. ItemAt("s2c", 1) = it
      BY <3>1 DEF ItemAt, it
    <3>4. \A i \in 1 .. 1 : i = 1 /\ ~(i > 1)
      OBVIOUS
    <3>5. QED
      BY <1>4, <1>13, <2>2, <2>5, <3>1, <3>2, <3>3, <3>4 DEF Sends
  <2>6. QED
    <3>1. t # "s2c" => sent'[t] = sent[t]
      BY <1>10
    <3>2. ~fits => sent'["s2c"] = sent["s2c"]
      BY <1>10
    <3>3. QED
      BY <2>3, <2>4, <2>5, <3>1, <3>2
<1>16. Scripted'
  BY <1>4, <1>15 DEF FramingInv, Scripted
<1>17. Handshake'
  <2>1. Len(got'["c2s"]) >= 1 /\ pc'["c2s"] \in {"message", "failed"} /\ got'["s2c"] = got["s2c"] /\ pc'["s2c"] = pc["s2c"]
    BY <1>1, <1>7, <1>9, InvFacts
  <2>2. sent'["c2s"] = sent["c2s"]
    BY <1>10, InvFacts
  <2>3. up'[Server] # "setup" /\ (up'[Server] = "up" <=> fits) /\ up'[Server] \in {"up", "failed"}
    BY <1>6
  <2>4. fits => Len(sent'["s2c"]) >= 1 /\ Agreed \in DOMAIN RoleCode
    BY <1>3, <1>13
  <2>5. ~fits => Len(sent'["s2c"]) = 0
    BY <1>2, <1>10
  <2>6. /\ up[Client] \in {"idle", "setup", "up"} /\ role[Client] = script.client
        /\ (up[Client] = "idle") <=> (Len(sent["c2s"]) = 0)
    BY <1>2 DEF FramingInv, Handshake
  <2>7. QED
    BY <1>2, <1>4, <1>5, <1>6, <1>11, <2>1, <2>2, <2>3, <2>4, <2>5, <2>6 DEF Handshake
<1>18. InData' /\ InDatagram'
  <2>1. /\ got'["data"] = got["data"] /\ pc'["data"] = pc["data"] /\ consumed'["data"] = consumed["data"]
        /\ got'["dgram"] = got["dgram"] /\ pc'["dgram"] = pc["dgram"] /\ wire'["dgram"] = wire["dgram"]
    BY <1>1, <1>7, <1>9, <1>10, InvFacts
  <2>2. InData'
    BY <1>4, <2>1 DEF FramingInv, InData
  <2>3. InDatagram'
    BY <1>4, <2>1 DEF FramingInv, InDatagram
  <2>4. QED
    BY <2>2, <2>3
<1>19. Ends'
  BY <1>4 DEF FramingInv, Ends
<1>20. ASSUME NEW t \in Streams PROVE Well(t)'
  <2>1. CASE t = "c2s"
    <3>1. /\ Laid(wire[s], sent[s]) /\ Placed(wire[s], sent[s], arrived[s], consumed'[s], got'[s])
          /\ Patient(sent[s], arrived[s], consumed'[s], got'[s], need[s])
      BY <1>9, TakesFacts
    <3>2. pc'[s] = "failed" => Cause(script, next, sent[s], arrived[s], got'[s], ended[s], fate'[s])
      BY <1>3, <1>7, <1>8 DEF Cause
    <3>3. wire'[s] = wire[s] /\ sent'[s] = sent[s]
      BY <1>1, <1>10
    <3>4. QED
      BY <1>1, <1>4, <2>1, <3>1, <3>2, <3>3 DEF Well
  <2>2. CASE t # "c2s" /\ wire'[t] = wire[t] /\ sent'[t] = sent[t]
    BY <1>1, <1>4, <1>7, <1>8, <1>9, <2>2, WellKept DEF FramingInv
  <2>3. CASE t = "s2c" /\ fits
    <3> DEFINE w == wire[t]
               q == sent[t]
               a == arrived[t]
               c == consumed[t]
               g == got[t]
               x == need[t]
    <3>1. Laid(w, q) /\ Placed(w, q, a, c, g) /\ Patient(q, a, c, g, x)
      BY DEF FramingInv, Well
    <3>2. w2 = w \o EncItem(it) /\ q2 = Append(q, [item |-> it, end |-> Len(w2)])
      BY <2>3 DEF w2, q2
    <3> HIDE DEF w, q, a, c, g, x
    <3>3. Laid(w2, q2) /\ Len(w2) \in Nat /\ Len(w) <= Len(w2)
      <4>1. Laid(w2, q2) /\ Len(w2) \in Nat /\ Len(w) \in Nat /\ Len(w) + 1 <= Len(w2)
        BY <1>12, <2>3, <3>1, <3>2, LaidNext
      <4>2. QED
        BY <4>1
    <3>4. Placed(w2, q2, a, c, g)
      BY <3>1, <3>2, <3>3, PlacedKept
    <3>5. Patient(q2, a, c, g, x)
      BY <1>12, <2>3, <3>1, <3>2, PatientKept
    <3>6. wire'[t] = w2 /\ sent'[t] = q2
      BY <1>10, <2>3
    <3>7. got'[t] = g /\ consumed'[t] = c /\ pc'[t] = "server" /\ arrived'[t] = a /\ need'[t] = x
      BY <1>1, <1>2, <1>4, <1>7, <1>9, <2>3 DEF g, c, a, x
    <3>8. QED
      BY <3>3, <3>4, <3>5, <3>6, <3>7 DEF Well
  <2>4. QED
    <3>1. t # "s2c" => wire'[t] = wire[t] /\ sent'[t] = sent[t]
      BY <1>10
    <3>2. ~fits => wire'["s2c"] = wire["s2c"] /\ sent'["s2c"] = sent["s2c"]
      BY <1>10
    <3>3. QED
      BY <2>1, <2>2, <2>3, <3>1, <3>2
<1>21. QED
  BY <1>14, <1>16, <1>17, <1>18, <1>19, <1>20 DEF FramingInv

\* What follows a decoded item goes by what was to be decoded.
LEMMA HandleFacts ==
  ASSUME NEW s, NEW d, Handle(s, d)
  PROVE  /\ pc[s] = "client" => AcceptSetup(d)
         /\ pc[s] = "server" => ConnectSetup(d)
         /\ pc[s] = "message" => RecvMessage(s, d)
         /\ pc[s] = "header" => RecvHeader(d)
         /\ pc[s] = "datagram" => RecvDatagram(d)
         /\ pc[s] \in Objects => RecvObject(d)
BY DEF Handle, Objects

\* An attempt to decode, whatever it leads to.
LEMMA DecodeInv ==
  ASSUME FramingInv, NEW s \in Streams, Decode(s)
  PROVE  FramingInv'
<1>1. /\ Reading(s) /\ need[s] = 0 /\ pc[s] # "payload" /\ pc[s] \notin {"payload", "failed"}
      /\ pc[s] \in Objects => Buffer(s) # <<>>
  BY DEF Decode, Reading
<1>2. PICK d : /\ d = Attempt(s)
               /\ CASE d.st = "more" ->
                         /\ IF s = "dgram" /\ arrived[s] > 0 THEN Fail(s, "More") /\ UNCHANGED need
                            ELSE need' = [need EXCEPT ![s] = arrived[s] + d.n] /\ UNCHANGED <<pc, fate>>
                         /\ UNCHANGED <<sendVars, arrived, consumed, remain, got>>
                    [] d.st = "err" ->
                         /\ Fail(s, d.why)
                         /\ UNCHANGED <<sendVars, arrived, consumed, need, remain, got>>
                    [] OTHER -> Handle(s, d)
  BY DEF Decode
<1>3. CASE Lost(sent[s], Len(got[s]) + 1)
  <2>1. s \in Control /\ Len(got[s]) >= 1 /\ pc[s] = "message" /\ s # "dgram"
    BY <1>1, <1>3, LostReader, NamesOfStreams
  <2>2. CASE d.st = "more"
    <3>1. /\ need' = [need EXCEPT ![s] = arrived[s] + d.n]
          /\ UNCHANGED <<sendVars, arrived, consumed, pc, remain, got, fate>>
      BY <1>2, <2>1, <2>2
    <3>2. Patient(sent[s], arrived[s], consumed[s], got[s], arrived[s] + d.n)
      BY <1>3 DEF Patient
    <3>3. QED
      BY <1>1, <3>1, <3>2, WaitInv
  <2>3. CASE d.st = "err"
    BY <1>2, <1>3, <2>1, <2>3, FailInv
  <2>4. CASE d.st \notin {"more", "err"}
    <3>1. RecvMessage(s, d)
      BY <1>2, <2>1, <2>4, HandleFacts
    <3>2. QED
      BY <1>1, <1>3, <3>1, LostMessageInv
  <2>5. QED
    BY <2>2, <2>3, <2>4
<1>4. CASE ~Lost(sent[s], Len(got[s]) + 1)
  <2> DEFINE n == Len(got[s])
  <2>1. \/ /\ d.st = "more" /\ ~(s = "dgram" /\ arrived[s] > 0)
           /\ Patient(sent[s], arrived[s], consumed[s], got[s], arrived[s] + d.n)
        \/ /\ d.st = "err" /\ Cause(script, next, sent[s], arrived[s], got[s], ended[s], d.why)
           /\ s \in Control => n >= 1
        \/ /\ d.st = "ok" /\ n + 1 <= Len(sent[s]) /\ d.val = sent[s][n + 1].item
           /\ Expects(s, n, d.val)
           /\ arrived[s] - Len(d.rest) = sent[s][n + 1].end /\ arrived[s] - Len(d.rest) <= arrived[s]
    BY <1>1, <1>2, <1>4, AttemptFacts
  <2>2. CASE /\ d.st = "more" /\ ~(s = "dgram" /\ arrived[s] > 0)
             /\ Patient(sent[s], arrived[s], consumed[s], got[s], arrived[s] + d.n)
    <3>1. /\ need' = [need EXCEPT ![s] = arrived[s] + d.n]
          /\ UNCHANGED <<sendVars, arrived, consumed, pc, remain, got, fate>>
      BY <1>2, <2>2
    <3>2. QED
      BY <1>1, <2>2, <3>1, WaitInv
  <2>3. CASE /\ d.st = "err" /\ Cause(script, next, sent[s], arrived[s], got[s], ended[s], d.why)
             /\ s \in Control => n >= 1
    BY <1>2, <2>3, FailInv
  <2>4. CASE /\ d.st = "ok" /\ n + 1 <= Len(sent[s]) /\ d.val = sent[s][n + 1].item
             /\ Expects(s, n, d.val)
             /\ arrived[s] - Len(d.rest) = sent[s][n + 1].end /\ arrived[s] - Len(d.rest) <= arrived[s]
    <3>1. Takes(s, d) /\ Handle(s, d)
      BY <1>1, <1>2, <1>4, <2>4 DEF Takes
    <3>2. CASE pc[s] = "client"
      BY <1>1, <3>1, <3>2, AcceptSetupInv, HandleFacts
    <3>3. CASE pc[s] = "server"
      BY <1>1, <3>1, <3>3, ConnectSetupInv, HandleFacts
    <3>4. CASE pc[s] = "message"
      BY <1>1, <3>1, <3>4, RecvMessageInv, HandleFacts
    <3>5. CASE pc[s] = "header"
      BY <3>1, <3>5, RecvHeaderInv, HandleFacts
    <3>6. CASE pc[s] \in Objects
      <4>1. RecvObject(d)
        BY <3>1, <3>6, HandleFacts
      <4>2. QED
        BY <3>1, <3>6, <4>1, RecvObjectInv
    <3>7. CASE pc[s] = "datagram"
      BY <3>1, <3>7, RecvDatagramInv, HandleFacts
    <3>8. QED
      BY <2>4, <3>2, <3>3, <3>4, <3>5, <3>6, <3>7 DEF Expects
  <2>5. QED
    BY <2>1, <2>2, <2>3, <2>4
<1>5. QED
  BY <1>3, <1>4

-----------------------------------------------------------------------------
(* Payload *)

\* The k items behind the n-th, which ends at c, are the k bytes behind c.
Run(w, q, n, c, k) ==
  \A i \in Nat : i <= k => /\ n + i <= Len(q) /\ EndOf(q, n + i) = c + i
                           /\ i >= 1 => q[n + i].item = <<"byte", <<w[c + i]>>>>

\* Behind the n-th item lie bytes of payload: each one ends where it stands.
LEMMA PayloadLies ==
  ASSUME NEW w, NEW q, Laid(w, q), NEW n \in Nat, n <= Len(q), NEW c \in Nat, c = EndOf(q, n),
         NEW k \in Nat, c + k <= Len(w),
         \A i \in 1 .. k : n + i <= Len(q) => IsByte(q[n + i].item)
  PROVE  Run(w, q, n, c, k)
<1> DEFINE P(i) == i <= k => /\ n + i <= Len(q) /\ EndOf(q, n + i) = c + i
                             /\ i >= 1 => q[n + i].item = <<"byte", <<w[c + i]>>>>
           T == {i \in Nat : P(i)}
<1>1. Len(q) \in Nat /\ Len(w) \in Nat /\ Len(w) = EndOf(q, Len(q))
  BY SeqFacts DEF Laid, ByteSeq
<1>2. P(0)
  <2>1. n + 0 = n /\ c + 0 = c /\ ~(0 >= 1)
    OBVIOUS
  <2>2. QED
    BY <2>1
<1>3. ASSUME NEW i \in Nat, P(i), i + 1 <= k PROVE P(i + 1)
  <2>1. i <= k /\ n + i <= Len(q) /\ EndOf(q, n + i) = c + i
    BY <1>3
  <2>2. n + i # Len(q)
    <3>1. c + i # Len(w)
      BY <1>1, <1>3
    <3>2. QED
      BY <1>1, <2>1, <3>1
  <2> DEFINE m == n + i + 1
             it == q[m].item
             e == EncItem(it)
  <2>3. m \in 1 .. Len(q) /\ m - 1 = n + i /\ m = n + (i + 1) /\ m # 0
    BY <1>1, <2>1, <2>2
  <2>4. IsByte(it)
    <3>1. i + 1 \in 1 .. k /\ n + (i + 1) <= Len(q)
      BY <1>3, <2>3
    <3>2. IsByte(q[n + (i + 1)].item)
      BY <3>1
    <3>3. QED
      BY <2>3, <3>2
  <2>5. Len(e) = 1 /\ it = <<"byte", <<e[1]>>>>
    BY <2>4, ByteFacts
  <2>6. LiesAt(w, q, m)
    BY <2>3 DEF Laid
  <2> HIDE DEF m
  <2>7. q[m].end = c + i + Len(e) /\ \A j \in 1 .. Len(e) : w[c + i + j] = e[j]
    BY <2>1, <2>3, <2>6 DEF LiesAt
  <2> HIDE DEF e, it
  <2>8. q[m].end = c + (i + 1) /\ w[c + (i + 1)] = e[1]
    <3>1. 1 \in 1 .. Len(e) /\ c + i + 1 = c + (i + 1)
      BY <2>5
    <3>2. w[c + i + 1] = e[1] /\ q[m].end = c + i + 1
      BY <2>5, <2>7, <3>1
    <3>3. QED
      BY <3>1, <3>2
  <2>9. EndOf(q, m) = c + (i + 1)
    BY <2>3, <2>8 DEF EndOf
  <2>10. q[m].item = <<"byte", <<w[c + (i + 1)]>>>>
    BY <2>5, <2>8 DEF it
  <2>11. m <= Len(q)
    BY <1>1, <2>3
  <2>12. QED
    BY <2>3, <2>9, <2>10, <2>11
<1>4. 0 \in T
  BY <1>2
<1>5. \A i \in Nat : i \in T => i + 1 \in T
  <2>1. ASSUME NEW i \in Nat, P(i), ~(i + 1 <= k) PROVE P(i + 1)
    BY <2>1
  <2> HIDE DEF P
  <2>2. QED
    BY <1>3, <2>1
<1> HIDE DEF P
<1>6. Nat \subseteq T
  <2> HIDE DEF T
  <2>1. QED
    BY <1>4, <1>5, Induction
<1>7. \A i \in Nat : P(i)
  BY <1>6
<1>8. QED
  BY <1>7 DEF P, Run

\* The bytes of a slice, as items.
LEMMA BytesFacts ==
  ASSUME NEW w \in ByteSeq, NEW c \in Nat, NEW k \in Nat, c + k <= Len(w)
  PROVE  LET bs == Bytes(SubSeq(w, c + 1, c + k)) IN
         /\ IsSeq(bs) /\ Len(bs) = k
         /\ \A i \in 1 .. k : bs[i] = <<"byte", <<w[c + i]>>>>
<1> DEFINE b == SubSeq(w, c + 1, c + k)
           S == {<<"byte", <<b[i]>>>> : i \in 1 .. k}
<1>1. Len(w) \in Nat /\ c + k \in 0 .. Len(w) /\ c <= c + k
  BY DEF ByteSeq
<1>2. Len(b) = k /\ \A i \in 1 .. k : b[i] = w[c + i]
  <2>1. Len(b) = (c + k) - c /\ \A i \in 1 .. Len(b) : b[i] = w[c + i]
    BY <1>1, SliceFacts
  <2>2. (c + k) - c = k
    OBVIOUS
  <2>3. QED
    BY <2>1, <2>2
<1> HIDE DEF b
<1>3. Bytes(b) = [i \in 1 .. k |-> <<"byte", <<b[i]>>>>]
  BY <1>2 DEF Bytes
<1>4. Bytes(b) \in Seq(S) /\ Len(Bytes(b)) = k
  <2>1. \A i \in 1 .. k : <<"byte", <<b[i]>>>> \in S
    OBVIOUS
  <2> HIDE DEF S
  <2>2. QED
    BY <1>3, <2>1
<1> HIDE DEF S
<1>5. IsSeq(Bytes(b))
  BY <1>4, AnySeq
<1>6. \A i \in 1 .. k : Bytes(b)[i] = <<"byte", <<w[c + i]>>>>
  BY <1>2, <1>3
<1>7. QED
  BY <1>4, <1>5, <1>6 DEF b

\* The reader takes k bytes of payload, from the buffer or past it.
LEMMA PayloadInv ==
  ASSUME FramingInv, NEW k \in Nat, k >= 1, k <= remain, consumed["data"] + k <= Len(wire["data"]),
         pc["data"] = "payload", Payload(k), UNCHANGED <<sendVars, need, fate>>
  PROVE  FramingInv'
<1> DEFINE s == "data"
           w == wire[s]
           q == sent[s]
           a == arrived[s]
           c == consumed[s]
           g == got[s]
           n == Len(g)
           items == script.items
           bs == Bytes(SubSeq(w, c + 1, c + k))
           a2 == IF a < c + k THEN c + k ELSE a
           g2 == g \o bs
           ob == ObjectOf(g[1][1])
<1>1. /\ got' = [got EXCEPT ![s] = g2] /\ consumed' = [consumed EXCEPT ![s] = c + k]
      /\ arrived' = [arrived EXCEPT ![s] = a2] /\ remain' = remain - k
      /\ pc' = [pc EXCEPT ![s] = IF remain > k THEN pc[s] ELSE ob]
  BY DEF Payload
<1>2. /\ ~Lost(q, n) /\ Laid(w, q) /\ Placed(w, q, a, c, g) /\ a \in Nat /\ c \in Nat /\ c <= a /\ n <= Len(q)
  BY DataAt
<1>3. /\ Len(q) \in Nat /\ n \in Nat /\ Len(w) \in Nat /\ w \in ByteSeq /\ Len(items) \in Nat /\ s \in Streams
      /\ IsSeq(g) /\ a <= Len(w)
  BY InvFacts
<1>4. /\ need[s] = 0 /\ remain \in 1 .. (Len(items) - n) /\ Closed(items, n + remain) /\ n >= 1
      /\ \A i \in (n + 1) .. (n + remain) : IsByte(items[i])
  BY DEF FramingInv, InData
<1>5. remain \in Nat /\ n + remain <= Len(items)
  BY <1>3, <1>4
<1>6. \A i \in 1 .. Len(q) : q[i].item = items[i]
  <2>1. Before(s) = 0
    BY NamesOfStreams DEF Before
  <2>2. ASSUME NEW i \in 1 .. Len(q) PROVE q[i].item = items[i]
    <3>1. i > 0 /\ i - 0 = i
      BY <1>3
    <3>2. QED
      BY <1>3, <2>1, <3>1, SentFacts
  <2>3. QED
    BY <2>2
<1>7. /\ c = EndOf(q, n) /\ g[1] = q[1].item
  <2>1. c = EndOf(q, n) /\ \A i \in 1 .. n : g[i] = q[i].item
    <3> HIDE DEF w, q, a, c, g
    <3>1. QED
      BY <1>2, Standing DEF n
  <2>2. 1 \in 1 .. n
    BY <1>3, <1>4
  <2>3. QED
    BY <2>1, <2>2
<1>8. ob = ObjectOf(items[1][1]) /\ ob \in Objects
  <2>1. 1 \in 1 .. Len(q)
    BY <1>2, <1>3, <1>4
  <2>2. QED
    BY <1>6, <1>7, <2>1 DEF ObjectOf, Objects
<1>9. \A i \in 1 .. k : n + i <= Len(q) => IsByte(q[n + i].item)
  <2>1. ASSUME NEW i \in 1 .. k, n + i <= Len(q) PROVE IsByte(q[n + i].item)
    <3>1. n + i \in (n + 1) .. (n + remain) /\ n + i \in 1 .. Len(q)
      BY <1>3, <1>5, <2>1
    <3>2. QED
      BY <1>4, <1>6, <3>1
  <2>2. QED
    BY <2>1
<1>10. IsSeq(bs) /\ Len(bs) = k /\ \A i \in 1 .. k : bs[i] = <<"byte", <<w[c + i]>>>>
  BY <1>2, <1>3, BytesFacts
<1> HIDE DEF bs
<1>11. /\ OnStreams(got') /\ got'[s] = g2 /\ \A t \in Streams : t # s => got'[t] = got[t]
  BY <1>1, <1>3 DEF FramingInv, Maps, OnStreams
<1>12. /\ OnStreams(consumed') /\ consumed'[s] = c + k /\ \A t \in Streams : t # s => consumed'[t] = consumed[t]
  BY <1>1, <1>3 DEF FramingInv, Maps, OnStreams
<1>13. /\ OnStreams(arrived') /\ arrived'[s] = a2 /\ \A t \in Streams : t # s => arrived'[t] = arrived[t]
  BY <1>1, <1>3 DEF FramingInv, Maps, OnStreams
<1>14. /\ OnStreams(pc') /\ pc'[s] = (IF remain > k THEN "payload" ELSE ob)
       /\ \A t \in Streams : t # s => pc'[t] = pc[t]
  BY <1>1, <1>3 DEF FramingInv, Maps, OnStreams
<1>15. UNCHANGED <<script, next, role, up, wire, ended, sent>>
  BY DEF sendVars
<1>16. ReaderStep(s)
  <2>1. Maps'
    BY <1>11, <1>12, <1>13, <1>14, <1>15 DEF FramingInv, Maps
  <2>2. QED
    BY <1>11, <1>12, <1>13, <1>14, <2>1 DEF ReaderStep
<1>17. /\ IsSeq(g2) /\ Len(g2) = n + k /\ \A i \in 1 .. n : g2[i] = g[i]
       /\ \A i \in 1 .. k : g2[n + i] = bs[i]
  <2>1. PICK p, r : p = g /\ r = bs
    OBVIOUS
  <2>2. IsSeq(p) /\ IsSeq(r) /\ Len(r) = k
    BY <1>3, <1>10, <2>1
  <2>3. IsSeq(p \o r) /\ Len(p \o r) = Len(p) + Len(r)
    BY <2>2, ConcatTwo, Zenon
  <2>4. \A i \in 1 .. Len(p) : (p \o r)[i] = p[i]
    BY <2>2, ConcatTwo, Zenon
  <2>5. \A i \in 1 .. Len(r) : (p \o r)[Len(p) + i] = r[i]
    BY <2>2, ConcatTwo
  <2>6. QED
    BY <2>1, <2>2, <2>3, <2>4, <2>5, Zenon
<1> HIDE DEF g2
<1>18. Placed(w, q, a2, c + k, g2)
  <2>1. Run(w, q, n, c, k)
    <3>1. c + k <= Len(w)
      OBVIOUS
    <3> HIDE DEF w, q, c, n
    <3>2. QED
      BY <1>2, <1>3, <1>7, <1>9, <3>1, PayloadLies
  <2>2. n + k <= Len(q) /\ EndOf(q, n + k) = c + k
    <3>1. k <= k
      OBVIOUS
    <3>2. QED
      BY <2>1, <3>1 DEF Run
  <2>3. a2 \in 0 .. Len(w) /\ c + k <= a2
    BY <1>2, <1>3
  <2>4. ASSUME NEW i \in 1 .. (n + k) PROVE g2[i] = q[i].item
    <3>1. CASE i \in 1 .. n
      <4>1. g[i] = q[i].item
        BY <1>2, <3>1 DEF Placed
      <4>2. QED
        BY <1>17, <3>1, <4>1
    <3>2. CASE i \notin 1 .. n
      <4>1. i - n \in 1 .. k /\ i - n \in Nat /\ i - n <= k /\ i - n >= 1 /\ n + (i - n) = i
        BY <1>3, <3>2
      <4>2. g2[n + (i - n)] = <<"byte", <<w[c + (i - n)]>>>>
        BY <1>10, <1>17, <4>1
      <4>3. q[n + (i - n)].item = <<"byte", <<w[c + (i - n)]>>>>
        BY <2>1, <4>1 DEF Run
      <4>4. QED
        BY <4>1, <4>2, <4>3
    <3>3. QED
      BY <3>1, <3>2
  <2> HIDE DEF w, q, a2, c, g, n
  <2>5. QED
    BY <1>17, <2>2, <2>3, <2>4 DEF Placed
<1>19. Well(s)'
  <2>1. Patient(q, a2, c + k, g2, 0)
    BY PatientFacts
  <2>2. pc'[s] # "failed"
    BY <1>8, <1>14 DEF Objects
  <2> HIDE DEF a2
  <2>3. QED
    BY <1>2, <1>4, <1>11, <1>12, <1>13, <1>15, <1>18, <2>1, <2>2 DEF Well
<1>20. InData'
  <2>1. need'[s] = 0 /\ Len(got'[s]) = n + k /\ n + k >= 1 /\ items' = items
    BY <1>3, <1>4, <1>11, <1>15, <1>17
  <2>2. CASE remain > k
    <3>1. pc'["data"] = "payload" /\ "payload" \notin Objects
      BY <1>14, <2>2 DEF Objects
    <3>2. remain' \in 1 .. (Len(items) - (n + k)) /\ (n + k) + remain' = n + remain
      <4>1. \A x, y, z, m \in Nat : x > y /\ z + x <= m => x - y \in 1 .. (m - (z + y)) /\ (z + y) + (x - y) = z + x
        OBVIOUS
      <4> HIDE DEF n, items
      <4>2. QED
        BY <1>1, <1>3, <1>5, <2>2, <4>1
    <3>3. \A i \in (n + k + 1) .. ((n + k) + remain') : IsByte(items[i])
      <4>1. \A i \in (n + k + 1) .. (n + remain) : i \in (n + 1) .. (n + remain)
        BY <1>3, <1>5
      <4> HIDE DEF n, items
      <4>2. QED
        BY <1>4, <3>2, <4>1
    <3>4. Closed(items, (n + k) + remain')
      BY <1>4, <3>2
    <3> DEFINE m == Len(got'["data"])
    <3>5. /\ need'["data"] = 0 /\ remain' \in 1 .. (Len(items) - m) /\ Closed(items, m + remain') /\ m >= 1
          /\ \A i \in (m + 1) .. (m + remain') : IsByte(items[i])
      BY <2>1, <3>2, <3>3, <3>4
    <3> HIDE DEF m
    <3>6. QED
      BY <2>1, <3>1, <3>5 DEF InData, m
  <2>3. CASE ~(remain > k)
    <3>1. remain = k
      BY <1>5, <2>3
    <3> DEFINE m == Len(got'["data"])
    <3>2. /\ pc'["data"] = ObjectOf(items[1][1]) /\ Closed(items, m) /\ ~(need'["data"] > 0)
      BY <1>4, <1>8, <1>14, <2>1, <2>3, <3>1
    <3>3. pc'["data"] \in Objects /\ pc'["data"] \notin {"header", "payload"} /\ m >= 1
      BY <1>8, <1>14, <2>1, <2>3 DEF Objects
    <3> HIDE DEF m
    <3>4. QED
      BY <2>1, <3>2, <3>3 DEF InData, m
  <2>4. QED
    BY <2>2, <2>3
<1>21. s \notin Control /\ s # "dgram"
  BY NamesOfStreams
<1>22. QED
  BY <1>3, <1>16, <1>19, <1>20, <1>21, ReaderInv

\* A chunk of payload, from the buffer or from the stream.
LEMMA ReadChunkInv ==
  ASSUME FramingInv, ReadChunk
  PROVE  FramingInv'
<1> DEFINE s == "data"
           a == arrived[s]
           c == consumed[s]
<1>1. pc[s] = "payload" /\ UNCHANGED <<sendVars, need, fate>>
  BY DEF ReadChunk
<1>2. a \in Nat /\ c \in Nat /\ c <= a /\ Len(wire[s]) \in Nat /\ a <= Len(wire[s])
  BY DataAt, InvFacts
<1>3. Len(Buffer(s)) = a - c /\ (Buffer(s) # <<>> <=> a > c)
  BY <1>2, InvFacts, SomeBuffer
<1>4. remain \in Nat /\ remain >= 1
  BY <1>1, InvFacts DEF FramingInv, InData
<1>5. CASE Buffer(s) # <<>>
  <2> DEFINE k == AtMost(remain, Len(Buffer(s)))
  <2>1. Payload(k)
    BY <1>5 DEF ReadChunk
  <2>2. k \in Nat /\ k >= 1 /\ k <= remain /\ c + k <= Len(wire[s])
    BY <1>2, <1>3, <1>4, <1>5 DEF AtMost
  <2> HIDE DEF k
  <2>3. QED
    BY <1>1, <2>1, <2>2, PayloadInv
<1>6. CASE ~(Buffer(s) # <<>>)
  <2>1. PICK k \in 1 .. AtMost(remain, Len(wire[s]) - a) : Payload(k)
    BY <1>6 DEF ReadChunk
  <2>2. k \in Nat /\ k >= 1 /\ k <= remain /\ c + k <= Len(wire[s])
    BY <1>2, <1>3, <1>4, <1>6 DEF AtMost
  <2>3. QED
    BY <1>1, <2>1, <2>2, PayloadInv
<1>7. QED
  BY <1>5, <1>6

\* A step that changes nothing.
LEMMA StutterInv ==
  ASSUME FramingInv, UNCHANGED framingVars
  PROVE  FramingInv'
<1>1. UNCHANGED <<script, next, role, up, wire, ended, sent, arrived, consumed, need, pc, remain, got, fate>>
  BY DEF framingVars
<1>2. Maps'
  BY <1>1 DEF FramingInv, Maps, OnStreams
<1>3. "c2s" \in Streams
  BY InvFacts
<1>4. Well("c2s")' /\ ReaderStep("c2s")
  <2>1. Well("c2s")'
    BY <1>1, <1>3, WellKept DEF FramingInv
  <2>2. QED
    BY <1>1, <1>2, <2>1 DEF ReaderStep, sendVars
<1>5. QED
  BY <1>1, <1>3, <1>4, ReaderInv

\* FramingInv is an invariant, for every set of scripts that the rules for what is sent
\* allow: however the bytes are cut, and wherever the data stream is given up.
THEOREM FramingInvariant == FramingSpec => []FramingInv
<1>1. FramingInit => FramingInv
  BY InitFramingInv
<1>2. FramingInv /\ [FramingNext]_framingVars => FramingInv'
  <2> SUFFICES ASSUME FramingInv, [FramingNext]_framingVars PROVE FramingInv'
    OBVIOUS
  <2>1. CASE Connect
    BY <2>1, ConnectInv
  <2>2. CASE Finish \/ Abandon
    BY <2>2, EndInv
  <2>3. ASSUME NEW s \in Streams, Send(s) PROVE FramingInv'
    BY <2>3, SendInv
  <2>4. ASSUME NEW s \in Streams, Read(s) PROVE FramingInv'
    BY <2>4, ReadBufInv, ReadEndInv, ReadResetInv, DecodeInv DEF Read
  <2>5. CASE ReadChunk
    BY <2>5, ReadChunkInv
  <2>6. CASE ReadChunkEnd
    BY <2>6, ReadChunkEndInv
  <2>7. CASE UNCHANGED framingVars
    BY <2>7, StutterInv
  <2>8. QED
    BY <2>1, <2>2, <2>3, <2>4, <2>5, <2>6, <2>7 DEF FramingNext
<1>3. QED
  BY <1>1, <1>2, PTL DEF FramingSpec

\* What every reader returns is what its writer was given, item by item, and it stands
\* between two items whenever it starts on one (reader.rs, writer.rs and the Encode and
\* Decode of coding, message, data and setup).
THEOREM ReaderInStep == FramingSpec => []InStep
<1>1. FramingInv => InStep
  BY InvImplies
<1>2. QED
  BY <1>1, FramingInvariant, PTL

\* No reader waits for bytes beyond the item it is decoding: Reader::decode is told More(n)
\* for no more than is missing of it (reader.rs:29-52).
THEOREM ReaderNeverOverwaits == FramingSpec => []NeverOverwaits
<1>1. FramingInv => NeverOverwaits
  BY InvImplies
<1>2. QED
  BY <1>1, FramingInvariant, PTL

\* A reader fails only because the stream was cut, because the message has no handler, because
\* the roles exclude each other, or for an absolute filter that had not arrived whole; no
\* message meets the wrong half (Reader::decode, run_recv, accept_role).
THEOREM ReaderFailsForCause == FramingSpec => []FailsForCause
<1>1. FramingInv => FailsForCause
  BY InvImplies
<1>2. QED
  BY <1>1, FramingInvariant, PTL

\* Two ends that are up have roles that fit, whatever they were configured with: the server
\* lowers its role to the client's offer, and the client to the server's answer
\* (connect_role, accept_role, Role::is_compatible).
THEOREM NegotiatedRolesFit == FramingSpec => []RolesFit
<1>1. FramingInv => RolesFit
  BY InvImplies
<1>2. QED
  BY <1>1, FramingInvariant, PTL

=============================================================================
