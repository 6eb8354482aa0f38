-------------------------------- MODULE Wire --------------------------------
(***************************************************************************)
(* The byte formats of moq-transport: the primitives of coding/, the       *)
(* messages of message/, the stream and object headers of data/ and the    *)
(* SETUP of setup/.  A byte is a number below 256.  A u64 is its eight     *)
(* bytes, most significant first, so that the whole range is exact.  What  *)
(* a message holds is the sequence of its fields; its format is the        *)
(* sequence of their kinds, which both Encode and Decode walk.             *)
(*                                                                         *)
(* A decoder is given the bytes that are in the buffer and returns a value *)
(* and the bytes after it, More(n), or an error.  Text is a sequence of    *)
(* bytes; that it is UTF-8 is not modelled.                                *)
(***************************************************************************)
EXTENDS Naturals, Sequences, SequencesExt, FiniteSets

Ok(v, rest) == [st |-> "ok", val |-> v, rest |-> rest]
More(n) == [st |-> "more", n |-> n]
Err(why) == [st |-> "err", why |-> why]

\* The `?' operator: go on with what was decoded, or stop with the error.
\* (The result is bound by a set so that TLC evaluates it once.)
Then(res, Op(_, _)) ==
  CHOOSE out \in {IF r.st = "ok" THEN Op(r.val, r.rest) ELSE r : r \in {res}} : TRUE

\* A number below 2^24 as a u64, and the number a u64 is; beyond, only "huge".
Huge == 1073741824
U64(n) == <<0, 0, 0, 0, 0, n \div 65536, (n \div 256) % 256, n % 256>>
Number(x) == IF \A i \in 1..5 : x[i] = 0
             THEN x[6] * 65536 + x[7] * 256 + x[8] ELSE Huge

Drop(r, n) == SubSeq(r, n + 1, Len(r))

\* Fault: all of it is asked for again, not what is missing.
decode_remaining_all(r, n) ==
  IF Len(r) < n THEN More(n) ELSE Ok(SubSeq(r, 1, n), Drop(r, n))

\* Decode::decode_remaining and the read after it.
decode_remaining(r, n) ==
  IF Len(r) < n THEN More(n - Len(r)) ELSE Ok(SubSeq(r, 1, n), Drop(r, n))

-----------------------------------------------------------------------------
(* Primitives *)

\* Fault: a value of exactly 2^14 still takes two bytes.
WidthOff(x) ==
  IF x = U64(16384) THEN 2
  ELSE LET zero(k) == \A i \in 1..k : x[i] = 0 IN
    IF zero(7) /\ x[8] < 64 THEN 1 ELSE IF zero(6) /\ x[7] < 64 THEN 2
    ELSE IF zero(4) /\ x[5] < 64 THEN 4 ELSE IF x[1] < 64 THEN 8 ELSE 0

\* The bytes a varint takes: the two top bits are the tag.  0 is BoundsExceeded.
Width(x) ==
  LET zero(k) == \A i \in 1..k : x[i] = 0 IN
  IF zero(7) /\ x[8] < 64 THEN 1 ELSE IF zero(6) /\ x[7] < 64 THEN 2
  ELSE IF zero(4) /\ x[5] < 64 THEN 4 ELSE IF x[1] < 64 THEN 8 ELSE 0

\* VarInt::encode, for a value that TryFrom<u64> accepts.
EncVarInt(x) ==
  LET w == Width(x)
      tag == CASE w = 1 -> 0 [] w = 2 -> 64 [] w = 4 -> 128 [] w = 8 -> 192
  IN  [SubSeq(x, 9 - w, 8) EXCEPT ![1] = @ + tag]

\* VarInt::decode.
DecVarInt(r) ==
  Then(decode_remaining(r, 1), LAMBDA b, rest :
    LET w == <<1, 2, 4, 8>>[b[1] \div 64 + 1] IN
    Then(decode_remaining(rest, w - 1), LAMBDA t, rest2 :
      Ok([i \in 1..(8 - w) |-> 0] \o <<b[1] % 64>> \o t, rest2)))

\* usize and u64 counts and lengths.
DecSize(r) == Then(DecVarInt(r), LAMBDA x, rest : Ok(Number(x), rest))

DecU8(r) == Then(decode_remaining(r, 1), LAMBDA b, rest : Ok(b[1], rest))

\* String, TupleField and the value of a parameter: a length and the bytes.
EncBytes(s) == EncVarInt(U64(Len(s))) \o s
DecBytes(r) == Then(DecSize(r), LAMBDA n, rest : decode_remaining(rest, n))

\* An enum that is sent as a number: the ones decode accepts, or an error.
Enum(res, values, why) ==
  Then(res, LAMBDA n, rest : IF n \in values THEN Ok(n, rest) ELSE Err(why))

\* What a list on the wire holds: versions, the fields of a namespace, and
\* parameters <<kind, value>>.
EncOne(kind, v) ==
  CASE kind = "version" -> EncVarInt(v)
    [] kind = "field" -> EncBytes(v)
    [] kind = "param" -> EncVarInt(v[1]) \o EncBytes(v[2])

\* DuplicateParameter is seen at the second kind, before the bytes after it.
DecParam(ps, r) ==
  Then(DecVarInt(r), LAMBDA k, rest :
    IF \E i \in DOMAIN ps : ps[i][1] = k THEN Err("DuplicateParameter")
    ELSE Then(DecBytes(rest), LAMBDA v, rest2 : Ok(<<k, v>>, rest2)))

DecOne(kind, vs, r) ==
  CASE kind = "version" -> DecVarInt(r)
    [] kind = "field" -> DecBytes(r)
    [] kind = "param" -> DecParam(vs, r)

\* One value more behind the ones there are.
AndOne(kind, acc) ==
  Then(acc, LAMBDA vs, rest :
    Then(DecOne(kind, vs, rest), LAMBDA v, rest2 : Ok(Append(vs, v), rest2)))

\* A count and that many values.  Every value takes a byte at least, so the
\* decoder of a count beyond the buffer stops with More before it is through.
Upto(n, r) == IF n > Len(r) THEN Len(r) + 1 ELSE n
Many(kind, n, r) ==
  LET upto[i \in 0..Upto(n, r)] == IF i = 0 THEN Ok(<<>>, r) ELSE AndOne(kind, upto[i - 1])
  IN  upto[Upto(n, r)]

EncMany(kind, vs) ==
  EncVarInt(U64(Len(vs))) \o FlattenSeq([i \in 1..Len(vs) |-> EncOne(kind, vs[i])])
DecMany(kind, r) == Then(DecSize(r), LAMBDA n, rest : Many(kind, n, rest))

EncTuple(t) == EncMany("field", t)
DecTuple(r) == DecMany("field", r)

(***************************************************************************)
(* Params, a map: the set of its <<kind, value>> pairs.  The order of a    *)
(* HashMap's iteration is some order of the set.                           *)
(***************************************************************************)
EncParams(ps) == EncMany("param", SetToSeq(ps))
DecParams(r) == Then(DecMany("param", r), LAMBDA ps, rest : Ok(ToSet(ps), rest))

ParamGet(ps, k) == {p[2] : p \in {q \in ps : q[1] = k}}

-----------------------------------------------------------------------------
(* Composite fields *)

None == <<>>

\* SubscribeLocation: None, or its kind (Absolute 1, Latest 2, Future 3) and
\* a value.  A SubscribePair is <<group, object>>.
EncLocation(l) == IF l = None THEN EncVarInt(U64(0)) ELSE EncVarInt(U64(l[1])) \o EncVarInt(l[2])
DecLocation(r) ==
  Then(DecSize(r), LAMBDA k, rest :
    CASE k = 0 -> Ok(None, rest)
      [] k \in 1..3 -> Then(DecVarInt(rest), LAMBDA v, rest2 : Ok(<<k, v>>, rest2))
      [] OTHER -> Err("InvalidSubscribeLocation"))

EncPair(p) == EncLocation(p[1]) \o EncLocation(p[2])
DecPair(r) ==
  Then(DecLocation(r), LAMBDA g, rest :
    Then(DecLocation(rest), LAMBDA o, rest2 : Ok(<<g, o>>, rest2)))

\* You can't have an object without a group.
BadPair(p) == p # None /\ p[1] = None /\ p[2] # None

LatestGroup == 1
LatestObject == 2
AbsoluteStart == 3
AbsoluteRange == 4

DecFilterType(r) == Enum(DecSize(r), LatestGroup..AbsoluteRange, "InvalidFilterType")

(***************************************************************************)
(* The filter type with the start and end that belong to it, of SUBSCRIBE  *)
(* and SUBSCRIBE_UPDATE: <<filter, start, end>>.  encode writes a start    *)
(* and an end for both absolute filters; decode reads the end for          *)
(* AbsoluteRange alone, and takes bytes that have not arrived yet for a    *)
(* field that is missing.                                                  *)
(***************************************************************************)
EncWindow(w) ==
  EncVarInt(U64(w[1]))
    \o IF w[1] \in {AbsoluteStart, AbsoluteRange} THEN EncPair(w[2]) \o EncPair(w[3]) ELSE <<>>

CheckWindow(w, rest) ==
  IF BadPair(w[2]) \/ BadPair(w[3]) THEN Err("InvalidSubscribeLocation") ELSE Ok(w, rest)

DecStart(f, r) ==
  IF Len(r) < 2 THEN Err("MissingField")
  ELSE Then(DecPair(r), LAMBDA s, rest : CheckWindow(<<f, s, None>>, rest))
DecRange(f, r) ==
  IF Len(r) < 4 THEN Err("MissingField")
  ELSE Then(DecPair(r), LAMBDA s, rest :
         Then(DecPair(rest), LAMBDA e, rest2 : CheckWindow(<<f, s, e>>, rest2)))

DecWindow(r) ==
  Then(DecFilterType(r), LAMBDA f, rest :
    CASE f = AbsoluteStart -> DecStart(f, rest)
      [] f = AbsoluteRange -> DecRange(f, rest)
      [] OTHER -> Ok(<<f, None, None>>, rest))

\* Option<(u64, u64)> behind a flag byte: SubscribeOk.latest, SubscribeDone.last.
EncIds(o) == EncVarInt(o[1]) \o EncVarInt(o[2])
DecIds(r) ==
  Then(DecVarInt(r), LAMBDA g, rest :
    Then(DecVarInt(rest), LAMBDA o, rest2 : Ok(<<g, o>>, rest2)))
EncOption(o) == IF o = None THEN <<0>> ELSE <<1>> \o EncIds(o)
DecOption(r) ==
  Then(DecU8(r), LAMBDA flag, rest :
    CASE flag = 0 -> Ok(None, rest)
      [] flag = 1 -> DecIds(rest)
      [] OTHER -> Err("InvalidValue"))

ObjectStatus == {0, 1, 3, 4, 5}
TrackStatusCode == 0..4
GroupOrder == 0..2

DecStatus(r) == Enum(DecSize(r), ObjectStatus, "InvalidObjectStatus")

\* Fault: the status is expected behind every size.
DecSizedAlways(r) ==
  Then(DecSize(r), LAMBDA n, rest :
    Then(DecStatus(rest), LAMBDA st, rest2 : Ok(<<n, st>>, rest2)))

\* The size of an object and, when it is 0, its status: <<size, status>>.
EncSized(s) == EncVarInt(U64(s[1])) \o IF s[1] = 0 THEN EncVarInt(U64(s[2])) ELSE <<>>
DecSized(r) ==
  Then(DecSize(r), LAMBDA n, rest :
    IF n > 0 THEN Ok(<<n, 0>>, rest)
    ELSE Then(DecStatus(rest), LAMBDA st, rest2 : Ok(<<n, st>>, rest2)))

Enc(kind, v) ==
  CASE kind = "u64" -> EncVarInt(v)
    [] kind = "u8" -> <<v>>
    [] kind = "string" -> EncBytes(v)
    [] kind = "tuple" -> EncTuple(v)
    [] kind = "params" -> EncParams(v)
    [] kind = "order" -> <<v>>
    [] kind \in {"track_status", "status"} -> EncVarInt(U64(v))
    [] kind = "window" -> EncWindow(v)
    [] kind = "option" -> EncOption(v)
    [] kind = "sized" -> EncSized(v)

Dec(kind, r) ==
  CASE kind = "u64" -> DecVarInt(r)
    [] kind = "u8" -> DecU8(r)
    [] kind = "string" -> DecBytes(r)
    [] kind = "tuple" -> DecTuple(r)
    [] kind = "params" -> DecParams(r)
    [] kind = "order" -> Enum(DecU8(r), GroupOrder, "InvalidGroupOrder")
    [] kind = "track_status" -> Enum(DecSize(r), TrackStatusCode, "InvalidTrackStatusCode")
    [] kind = "status" -> DecStatus(r)
    [] kind = "window" -> DecWindow(r)
    [] kind = "option" -> DecOption(r)
    [] kind = "sized" -> DecSized(r)

EncFields(kinds, vs) == FlattenSeq([i \in 1..Len(kinds) |-> Enc(kinds[i], vs[i])])

\* One field more behind the ones there are.
AndField(kind, acc) ==
  Then(acc, LAMBDA vs, rest :
    Then(Dec(kind, rest), LAMBDA v, rest2 : Ok(Append(vs, v), rest2)))
DecFields(kinds, r) ==
  LET upto[i \in 0..Len(kinds)] == IF i = 0 THEN Ok(<<>>, r) ELSE AndField(kinds[i], upto[i - 1])
  IN  upto[Len(kinds)]

-----------------------------------------------------------------------------
(* What encode is given *)

Byte == 0..255
ByteSeq == Seq(Byte)

\* What VarInt holds, below 2^62; lengths and counts are below 2^24.
U64Value == {x \in [1..8 -> Byte] : x[1] < 64}
Limit == 16777216

StringValue == {s \in ByteSeq : Len(s) < Limit}
TupleValue == {t \in Seq(StringValue) : Len(t) < Limit}
IsParams(ps) ==
  /\ IsFiniteSet(ps) /\ Cardinality(ps) < Limit /\ ps \subseteq (U64Value \X StringValue)
  /\ \A p, q \in ps : p[1] = q[1] => p = q

LocationValue == {None} \cup ((1..3) \X U64Value)
PairValue == LocationValue \X LocationValue

\* encode does not check that an object is named along with its group; decode does.
WindowValue ==
  {<<f, None, None>> : f \in {LatestGroup, LatestObject}}
  \cup {w \in {AbsoluteStart, AbsoluteRange} \X PairValue \X PairValue : ~BadPair(w[2]) /\ ~BadPair(w[3])}

IdsValue == U64Value \X U64Value
OptionValue == {None} \cup IdsValue
SizedValue == {s \in Nat \X ObjectStatus : s[1] < Limit /\ (s[1] > 0 => s[2] = 0)}

Kinds == {"u64", "u8", "string", "tuple", "params", "order", "track_status", "status", "window",
          "option", "sized"}

IsField(kind, v) ==
  CASE kind = "u64" -> v \in U64Value
    [] kind = "u8" -> v \in Byte
    [] kind = "string" -> v \in StringValue
    [] kind = "tuple" -> v \in TupleValue
    [] kind = "params" -> IsParams(v)
    [] kind = "order" -> v \in GroupOrder
    [] kind = "track_status" -> v \in TrackStatusCode
    [] kind = "status" -> v \in ObjectStatus
    [] kind = "window" -> v \in WindowValue
    [] kind = "option" -> v \in OptionValue
    [] kind = "sized" -> v \in SizedValue

\* As many values as the format has kinds, each of its kind.
IsFields(kinds, vs) ==
  /\ vs = [i \in 1 .. Len(kinds) |-> vs[i]]
  /\ \A i \in 1 .. Len(kinds) : IsField(kinds[i], vs[i])

=============================================================================
