------------------------------ MODULE Messages ------------------------------
(***************************************************************************)
(* What travels on the streams of a session: the messages of the control   *)
(* stream behind their type and length, the SETUP of each end, the headers *)
(* of the data streams and the objects on them.  An item is <<name,        *)
(* fields>>; every format below is the sequence of kinds that both encode  *)
(* and decode of that type walk, in the order of the source.               *)
(***************************************************************************)
EXTENDS Wire

\* Sent by the subscriber's half of a session.
SubscribeFields == <<"u64", "u64", "tuple", "string", "u8", "order", "window", "params">>
SubscribeUpdateFields == <<"u64", "u64", "tuple", "string", "u8", "order", "window", "params">>
UnsubscribeFields == <<"u64">>
AnnounceOkFields == <<"tuple">>
AnnounceErrorFields == <<"tuple", "u64", "string">>
AnnounceCancelFields == <<"tuple", "u64", "string">>
TrackStatusRequestFields == <<"tuple", "string">>
SubscribeNamespaceFields == <<"tuple", "params">>
SubscribeNamespaceOkFields == <<"tuple">>
SubscribeNamespaceErrorFields == <<"tuple", "u64", "string">>
UnsubscribeNamespaceFields == <<"tuple">>
FetchFields ==
  <<"u64", "tuple", "string", "u8", "order", "u64", "u64", "u64", "u64", "params">>
FetchCancelFields == <<"u64">>

\* Sent by the publisher's half.  An expires of 0 is None; the last byte of
\* SUBSCRIBE_OK is an empty parameter list that decode skips.
SubscribeOkFields == <<"u64", "u64", "order", "option", "u8">>
SubscribeErrorFields == <<"u64", "u64", "string", "u64">>
SubscribeDoneFields == <<"u64", "u64", "string", "option">>
MaxSubscribeIdFields == <<"u64">>
AnnounceFields == <<"tuple", "params">>
UnannounceFields == <<"tuple">>
TrackStatusFields == <<"tuple", "string", "track_status", "u64", "u64">>
FetchOkFields == <<"u64", "u8", "u8", "u64", "u64", "params">>
FetchErrorFields == <<"u64", "u64", "string">>

\* Sent by nobody.
GoAwayFields == <<"string">>

\* message::Subscriber and message::Publisher: whose messages they are.
Subscriber ==
  {"AnnounceOk", "AnnounceError", "AnnounceCancel", "Subscribe", "Unsubscribe",
   "SubscribeUpdate", "TrackStatusRequest", "SubscribeNamespace", "SubscribeNamespaceOk",
   "SubscribeNamespaceError", "UnsubscribeNamespace", "Fetch", "FetchCancel"}
Publisher ==
  {"Announce", "Unannounce", "SubscribeOk", "SubscribeError", "SubscribeDone",
   "MaxSubscribeId", "TrackStatus", "FetchOk", "FetchError"}

\* message_types!: the type of each message.
Type ==
  [SubscribeUpdate |-> 2, Subscribe |-> 3, Unsubscribe |-> 10, SubscribeOk |-> 4,
   SubscribeError |-> 5, SubscribeDone |-> 11, MaxSubscribeId |-> 21, Announce |-> 6,
   Unannounce |-> 9, AnnounceOk |-> 7, AnnounceError |-> 8, AnnounceCancel |-> 12,
   TrackStatusRequest |-> 13, TrackStatus |-> 14, GoAway |-> 16,
   SubscribeNamespace |-> 17, SubscribeNamespaceOk |-> 18, SubscribeNamespaceError |-> 19,
   UnsubscribeNamespace |-> 20, Fetch |-> 22, FetchCancel |-> 23, FetchOk |-> 24,
   FetchError |-> 25]

Fields ==
  [SubscribeUpdate |-> SubscribeUpdateFields, Subscribe |-> SubscribeFields,
   Unsubscribe |-> UnsubscribeFields, SubscribeOk |-> SubscribeOkFields,
   SubscribeError |-> SubscribeErrorFields, SubscribeDone |-> SubscribeDoneFields,
   MaxSubscribeId |-> MaxSubscribeIdFields, Announce |-> AnnounceFields,
   Unannounce |-> UnannounceFields, AnnounceOk |-> AnnounceOkFields,
   AnnounceError |-> AnnounceErrorFields, AnnounceCancel |-> AnnounceCancelFields,
   TrackStatusRequest |-> TrackStatusRequestFields, TrackStatus |-> TrackStatusFields,
   GoAway |-> GoAwayFields, SubscribeNamespace |-> SubscribeNamespaceFields,
   SubscribeNamespaceOk |-> SubscribeNamespaceOkFields,
   SubscribeNamespaceError |-> SubscribeNamespaceErrorFields,
   UnsubscribeNamespace |-> UnsubscribeNamespaceFields, Fetch |-> FetchFields,
   FetchCancel |-> FetchCancelFields, FetchOk |-> FetchOkFields,
   FetchError |-> FetchErrorFields]

\* A type, a length and a body, as Message and SETUP both have them.
Framed(type, body) == EncVarInt(U64(type)) \o EncVarInt(U64(Len(body))) \o body

\* Message::encode.
EncMessage(m) == Framed(Type[m[1]], EncFields(Fields[m[1]], m[2]))

\* The fields of a name, as an item.
DecNamed(name, kinds, r) == Then(DecFields(kinds, r), LAMBDA vs, rest : Ok(<<name, vs>>, rest))

\* The fields behind a type that is one of those in types.
DecTyped(types, fields, t, r) ==
  LET names == {n \in DOMAIN types : types[n] = t} IN
  IF names = {} THEN Err("InvalidMessage")
  ELSE LET name == CHOOSE n \in names : TRUE IN DecNamed(name, fields[name], r)

\* Message::decode: the length is read and not looked at.
DecMessage(r) ==
  Then(DecSize(r), LAMBDA t, rest :
    Then(DecVarInt(rest), LAMBDA len, body : DecTyped(Type, Fields, t, body)))

-----------------------------------------------------------------------------
(* SETUP *)

RoleCode == [Publisher |-> 1, Subscriber |-> 2, Both |-> 3]
IsPublisher(role) == role \in {"Publisher", "Both"}
IsSubscriber(role) == role \in {"Subscriber", "Both"}
is_compatible(a, b) ==
  IsPublisher(a) = IsSubscriber(b) /\ IsSubscriber(a) = IsPublisher(b)

DRAFT_07 == <<0, 0, 0, 0, 255, 0, 0, 7>>

\* setup::Client is <<"Client", <<versions, role>>>>, setup::Server has one version.
RoleParams(role) == {<<U64(0), EncVarInt(U64(RoleCode[role]))>>}
EncClient(s) == Framed(64, EncMany("version", s[2][1]) \o EncParams(RoleParams(s[2][2])))
EncServer(s) == Framed(65, EncVarInt(s[2][1]) \o EncParams(RoleParams(s[2][2])))

\* The ROLE parameter must be there, the PATH parameter must not.
DecRole(ps) ==
  LET vs == ParamGet(ps, U64(0)) IN
  IF vs = {} THEN Err("MissingParameter")
  ELSE Then(DecSize(CHOOSE v \in vs : TRUE), LAMBDA n, rest :
         CASE n \notin 1..3 -> Err("InvalidRole")
           [] ParamGet(ps, U64(1)) # {} -> Err("InvalidParameter")
           [] OTHER -> Ok(CHOOSE role \in DOMAIN RoleCode : RoleCode[role] = n, rest))

\* A SETUP behind its type and length: the versions, or the version, and the parameters.
DecSetup(name, versions) ==
  Then(versions, LAMBDA vs, rest :
    Then(DecParams(rest), LAMBDA ps, rest2 :
      Then(DecRole(ps), LAMBDA role, none : Ok(<<name, <<vs, role>>>>, rest2))))

DecClient(r) ==
  Then(DecSize(r), LAMBDA t, rest :
    IF t # 64 THEN Err("InvalidMessage")
    ELSE Then(DecVarInt(rest), LAMBDA len, body : DecSetup("Client", DecMany("version", body))))

DecServer(r) ==
  Then(DecSize(r), LAMBDA t, rest :
    IF t # 65 THEN Err("InvalidMessage")
    ELSE Then(DecVarInt(rest), LAMBDA len, body : DecSetup("Server", DecVarInt(body))))

-----------------------------------------------------------------------------
(* Data streams *)

TrackHeaderFields == <<"u64", "u64", "u8">>
SubgroupHeaderFields == <<"u64", "u64", "u64", "u64", "u8">>
TrackObjectFields == <<"u64", "u64", "sized">>
SubgroupObjectFields == <<"u64", "sized">>

\* header_types!.
HeaderType == [Track |-> 2, Subgroup |-> 4]
HeaderFields == [Track |-> TrackHeaderFields, Subgroup |-> SubgroupHeaderFields]

EncHeader(h) == EncVarInt(U64(HeaderType[h[1]])) \o EncFields(HeaderFields[h[1]], h[2])
DecHeader(r) ==
  Then(DecSize(r), LAMBDA t, rest : DecTyped(HeaderType, HeaderFields, t, rest))

ObjectFields == [TrackObject |-> TrackObjectFields, SubgroupObject |-> SubgroupObjectFields]
EncObject(o) == EncFields(ObjectFields[o[1]], o[2])
DecObject(name, r) == DecNamed(name, ObjectFields[name], r)
ObjectSize(o) == Last(o[2])[1]

\* Datagram: the payload is what is left of it, and its length must say so.
DatagramFields == <<"u64", "u64", "u64", "u64", "u8", "status", "u64">>
EncDatagram(d) == EncFields(DatagramFields, d[2]) \o d[3]
DecDatagram(r) ==
  Then(DecFields(DatagramFields, r), LAMBDA vs, payload :
    IF Number(Last(vs)) # Len(payload) THEN Err("InvalidLength")
    ELSE Ok(<<"Datagram", vs, payload>>, <<>>))

-----------------------------------------------------------------------------
(* What encode is given *)

IsMessage(m) ==
  /\ m = <<m[1], m[2]>> /\ m[1] \in DOMAIN Type
  /\ IsFields(Fields[m[1]], m[2]) /\ Len(EncFields(Fields[m[1]], m[2])) < Limit
IsHeader(h) ==
  h = <<h[1], h[2]>> /\ h[1] \in DOMAIN HeaderType /\ IsFields(HeaderFields[h[1]], h[2])
IsObject(o) ==
  o = <<o[1], o[2]>> /\ o[1] \in DOMAIN ObjectFields /\ IsFields(ObjectFields[o[1]], o[2])
IsDatagram(d) ==
  /\ d = <<"Datagram", d[2], d[3]>> /\ IsFields(DatagramFields, d[2]) /\ d[3] \in ByteSeq
  /\ Number(Last(d[2])) = Len(d[3])

=============================================================================
