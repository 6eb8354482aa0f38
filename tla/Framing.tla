------------------------------- MODULE Framing ------------------------------
(***************************************************************************)
(* The streams of one session as bytes: the control stream in each         *)
(* direction, a data stream and a datagram.  The Writer appends encoded    *)
(* items; the transport hands the bytes over in pieces of any size; the    *)
(* Reader decodes from its buffer and, when told More(n), reads until it   *)
(* has n bytes more and starts over.  On the control stream the two ends   *)
(* exchange SETUP, lower their roles to what the other offers, and then    *)
(* exchange messages; on the data stream a header is followed by objects   *)
(* and their payload.                                                      *)
(***************************************************************************)
EXTENDS Messages

CONSTANT Scripts   \* what the two ends are configured with and go on to send

Control == {"c2s", "s2c"}
Streams == Control \cup {"data", "dgram"}
Objects == {"TrackObject", "SubgroupObject"}

\* The objects that are behind a header of this name.
ObjectOf(name) == IF name = "Track" THEN "TrackObject" ELSE "SubgroupObject"

IsObjectOf(name, item) == IsObject(item) /\ item[1] = ObjectOf(name)
IsByte(item) == item = <<"byte", item[2]>> /\ item[2] = <<item[2][1]>> /\ item[2][1] \in Byte

\* After the item at j an object comes, or nothing.
Closed(items, j) == j < Len(items) => IsObjectOf(items[1][1], items[j + 1])

\* A header and objects, each with as many bytes of payload as it says.
IsDataStream(items) ==
  /\ Len(items) >= 1 /\ IsHeader(items[1]) /\ Closed(items, 1)
  /\ \A j \in 2 .. Len(items) :
       \/ IsByte(items[j])
       \/ LET k == ObjectSize(items[j]) IN
          /\ IsObjectOf(items[1][1], items[j]) /\ j + k <= Len(items) /\ Closed(items, j + k)
          /\ \A i \in (j + 1) .. (j + k) : IsByte(items[i])

\* The ends are configured with a role, and send on one of the streams what
\* is sent on it.
IsScript(sc) ==
  /\ sc.client \in DOMAIN RoleCode /\ sc.server \in DOMAIN RoleCode /\ sc.on \in Streams
  /\ sc.items \in Seq(ToSet(sc.items))
  /\ sc.on \in Control => \A i \in 1 .. Len(sc.items) : IsMessage(sc.items[i])
  /\ sc.on = "data" => IsDataStream(sc.items)
  /\ sc.on = "dgram" => Len(sc.items) = 1 /\ IsDatagram(sc.items[1])
ASSUME ScriptsAssumption == \A sc \in Scripts : IsScript(sc)

VARIABLES
  script,    \* the one of this behaviour
  next,      \* the item of the script to be sent next
  role,      \* of each end: as configured, and once up as negotiated
  up,        \* of each end: setup, up, failed
  wire,      \* the bytes written on each stream
  ended,     \* open, fin (finished, or dropped half way) or reset
  sent,      \* the items written, and where each one ends
  arrived,   \* bytes of the stream that were read into the buffer
  consumed,  \* bytes of the stream that were taken from the buffer
  need,      \* what Reader::decode waits for, 0: try to decode
  pc,        \* what the reader is about to decode, or end, or failed
  remain,    \* payload bytes of the current object still to be read
  got,       \* the items decoded
  fate       \* why the reader failed

framingVars == <<script, next, role, up, wire, ended, sent, arrived, consumed, need,
                 pc, remain, got, fate>>
sendVars == <<script, next, role, up, wire, ended, sent>>

Client == "client"
Server == "server"
To == [c2s |-> Server, s2c |-> Client, data |-> Client, dgram |-> Client]

FramingInit ==
  /\ script \in Scripts /\ next = 1
  /\ role = [client |-> script.client, server |-> script.server]
  /\ up = [client |-> "idle", server |-> "setup"]
  /\ wire = [s \in Streams |-> <<>>] /\ ended = [s \in Streams |-> "open"]
  /\ sent = [s \in Streams |-> <<>>]
  /\ arrived = [s \in Streams |-> 0] /\ consumed = [s \in Streams |-> 0]
  /\ need = [s \in Streams |-> 0]
  /\ pc = [c2s |-> "client", s2c |-> "server", data |-> "header", dgram |-> "datagram"]
  /\ remain = 0
  /\ got = [s \in Streams |-> <<>>] /\ fate = [s \in Streams |-> ""]

-----------------------------------------------------------------------------
(* Writing *)

EncItem(item) ==
  CASE item[1] = "Client" -> EncClient(item)
    [] item[1] = "Server" -> EncServer(item)
    [] item[1] \in DOMAIN Type -> EncMessage(item)
    [] item[1] \in DOMAIN HeaderType -> EncHeader(item)
    [] item[1] \in Objects -> EncObject(item)
    [] item[1] = "byte" -> item[2]
    [] item[1] = "Datagram" -> EncDatagram(item)

\* Writer::encode and Writer::write: all of it, however the transport cuts it.
Write(s, item) ==
  LET bytes == wire[s] \o EncItem(item) IN
  /\ wire' = [wire EXCEPT ![s] = bytes]
  /\ sent' = [sent EXCEPT ![s] = Append(@, [item |-> item, end |-> Len(bytes)])]

\* Session::connect_role, up to the answer.
Connect ==
  /\ up[Client] = "idle"
  /\ up' = [up EXCEPT ![Client] = "setup"]
  /\ Write("c2s", <<"Client", <<<<DRAFT_07>>, role[Client]>>>>)
  /\ UNCHANGED <<script, next, role, ended, arrived, consumed, need, pc, remain, got, fate>>

\* The halves an end has: it sends the messages of those alone.
MaySend(e, item) ==
  /\ item[1] \in Publisher \cup DOMAIN HeaderType \cup Objects \cup {"byte", "Datagram"}
       => IsPublisher(role[e])
  /\ item[1] \in Subscriber => IsSubscriber(role[e])

From == [c2s |-> Client, s2c |-> Server, data |-> Server, dgram |-> Server]

\* run_send, serve_track, serve_subgroup, serve_datagrams: the next item.
Send(s) ==
  /\ script.on = s /\ next <= Len(script.items) /\ ended[s] = "open"
  /\ up[From[s]] = "up" /\ MaySend(From[s], script.items[next])
  /\ next' = next + 1
  /\ Write(s, script.items[next])
  /\ UNCHANGED <<script, role, up, ended, arrived, consumed, need, pc, remain, got, fate>>

\* Writer::finish after the last object.
Finish ==
  /\ script.on = "data" /\ next > Len(script.items) /\ ended["data"] = "open"
  /\ ended' = [ended EXCEPT !["data"] = "fin"]
  /\ UNCHANGED <<script, next, role, up, wire, sent, arrived, consumed, need, pc, remain,
                 got, fate>>

(***************************************************************************)
(* The sending task ends half way and drops the stream: a transport resets *)
(* it or, as web-transport-ws does, finishes it.                           *)
(***************************************************************************)
Abandon ==
  /\ script.on = "data" /\ next \in 2..Len(script.items) /\ ended["data"] = "open"
  /\ \E how \in {"fin", "reset"} : ended' = [ended EXCEPT !["data"] = how]
  /\ UNCHANGED <<script, next, role, up, wire, sent, arrived, consumed, need, pc, remain,
                 got, fate>>

-----------------------------------------------------------------------------
(* Reading *)

Buffer(s) == SubSeq(wire[s], consumed[s] + 1, arrived[s])
Reading(s) ==
  /\ pc[s] \notin {"end", "failed"}
  /\ up[To[s]] = "up" \/ (s \in Control /\ up[To[s]] = "setup")

\* Reader::done and the loop of Reader::decode: the buffer is to be filled.
Filling(s) ==
  /\ Reading(s)
  /\ \/ need[s] > 0
     \/ pc[s] \in Objects /\ Buffer(s) = <<>>

\* read_buf: some bytes more.  A datagram arrives whole.
ReadBuf(s) ==
  /\ Filling(s) /\ ended[s] # "reset"
  /\ \E a \in (arrived[s] + 1)..Len(wire[s]) :
       /\ s = "dgram" => a = Len(wire[s])
       /\ arrived' = [arrived EXCEPT ![s] = a]
       /\ need' = [need EXCEPT ![s] = IF a >= @ THEN 0 ELSE @]
  /\ UNCHANGED <<sendVars, consumed, pc, remain, got, fate>>

Fail(s, why) ==
  /\ pc' = [pc EXCEPT ![s] = "failed"]
  /\ fate' = [fate EXCEPT ![s] = why]

\* read_buf returns false: Reader::done is true, or Reader::decode gives up.
ReadEnd(s) ==
  /\ Filling(s) /\ ended[s] = "fin" /\ arrived[s] = Len(wire[s])
  /\ IF need[s] > 0 THEN Fail(s, "More")
     ELSE pc' = [pc EXCEPT ![s] = "end"] /\ UNCHANGED fate
  /\ UNCHANGED <<sendVars, arrived, consumed, need, remain, got>>

\* A read of a stream that was reset.
ReadReset(s) ==
  /\ Reading(s) /\ ended[s] = "reset"
  /\ Filling(s) \/ (pc[s] = "payload" /\ Buffer(s) = <<>>)
  /\ Fail(s, "transport")
  /\ UNCHANGED <<sendVars, arrived, consumed, need, remain, got>>

Attempt(s) ==
  LET r == Buffer(s) IN
  CASE pc[s] = "client" -> DecClient(r)
    [] pc[s] = "server" -> DecServer(r)
    [] pc[s] = "message" -> DecMessage(r)
    [] pc[s] = "header" -> DecHeader(r)
    [] pc[s] = "datagram" -> DecDatagram(r)
    [] OTHER -> DecObject(pc[s], r)

\* Fault: an end that can do both keeps both.
DowngradeNot(mine, theirs) == IF mine = theirs /\ mine # "Both" THEN "none" ELSE mine

(***************************************************************************)
(* The role of an end, lowered to what the other end offers; "none" when   *)
(* both can only publish or only subscribe.                                *)
(***************************************************************************)
Downgrade(mine, theirs) ==
  CASE theirs = "Both" -> mine
    [] mine = theirs /\ theirs # "Both" -> "none"
    [] theirs = "Publisher" /\ mine # theirs -> "Subscriber"
    [] theirs = "Subscriber" /\ mine # theirs -> "Publisher"

\* run_recv: messages with no handler panic in the receiving task.
Unimplemented ==
  {"GoAway", "SubscribeNamespace", "SubscribeNamespaceOk", "SubscribeNamespaceError",
   "UnsubscribeNamespace", "Fetch", "FetchCancel", "FetchOk", "FetchError"}

\* What run_recv does with a message: "" if it is handed to one of the halves.
Refused(e, name) ==
  IF \/ name \in Publisher /\ ~IsSubscriber(role[e])
     \/ name \in Subscriber /\ ~IsPublisher(role[e])
  THEN "RoleViolation"
  ELSE IF name \in Unimplemented THEN "unimplemented" ELSE ""

Accept(s, item, rest) ==
  /\ got' = [got EXCEPT ![s] = Append(@, item)]
  /\ consumed' = [consumed EXCEPT ![s] = arrived[s] - Len(rest)]

\* accept_role, from the client's SETUP to the answer.
AcceptSetup(d) ==
  LET agreed == Downgrade(role[Server], d.val[2][2]) IN
  /\ Accept("c2s", d.val, d.rest)
  /\ IF DRAFT_07 \in ToSet(d.val[2][1]) /\ agreed # "none"
     THEN /\ role' = [role EXCEPT ![Server] = agreed]
          /\ up' = [up EXCEPT ![Server] = "up"]
          /\ Write("s2c", <<"Server", <<DRAFT_07, agreed>>>>)
          /\ pc' = [pc EXCEPT !["c2s"] = "message"] /\ UNCHANGED fate
     ELSE /\ Fail("c2s", "setup") /\ up' = [up EXCEPT ![Server] = "failed"]
          /\ UNCHANGED <<role, wire, sent>>
  /\ UNCHANGED <<script, next, ended, arrived, need, remain>>

\* connect_role, from the server's SETUP on.
ConnectSetup(d) ==
  LET agreed == Downgrade(role[Client], d.val[2][2]) IN
  /\ Accept("s2c", d.val, d.rest)
  /\ IF agreed # "none"
     THEN /\ role' = [role EXCEPT ![Client] = agreed]
          /\ up' = [up EXCEPT ![Client] = "up"]
          /\ pc' = [pc EXCEPT !["s2c"] = "message"] /\ UNCHANGED fate
     ELSE Fail("s2c", "setup") /\ up' = [up EXCEPT ![Client] = "failed"] /\ UNCHANGED role
  /\ UNCHANGED <<script, next, wire, ended, sent, arrived, need, remain>>

\* run_recv: one message, given to the half it is for.
RecvMessage(s, d) ==
  LET why == Refused(To[s], d.val[1]) IN
  /\ Accept(s, d.val, d.rest)
  /\ IF why = "" THEN UNCHANGED <<pc, fate>> ELSE Fail(s, why)
  /\ UNCHANGED <<sendVars, arrived, need, remain>>

\* recv_stream: the header says how the rest is read.
RecvHeader(d) ==
  /\ Accept("data", d.val, d.rest)
  /\ pc' = [pc EXCEPT !["data"] = ObjectOf(d.val[1])]
  /\ UNCHANGED <<sendVars, arrived, need, remain, fate>>

\* recv_track and recv_subgroup: an object, and then its payload.
RecvObject(d) ==
  /\ Accept("data", d.val, d.rest)
  /\ remain' = ObjectSize(d.val)
  /\ pc' = [pc EXCEPT !["data"] = IF ObjectSize(d.val) = 0 THEN @ ELSE "payload"]
  /\ UNCHANGED <<sendVars, arrived, need, fate>>

\* Subscriber::recv_datagram.
RecvDatagram(d) ==
  /\ Accept("dgram", d.val, d.rest)
  /\ pc' = [pc EXCEPT !["dgram"] = "end"]
  /\ UNCHANGED <<sendVars, arrived, need, remain, fate>>

\* What follows once an item was decoded.
Handle(s, d) ==
  CASE pc[s] = "client" -> AcceptSetup(d)
    [] pc[s] = "server" -> ConnectSetup(d)
    [] pc[s] = "message" -> RecvMessage(s, d)
    [] pc[s] = "header" -> RecvHeader(d)
    [] pc[s] = "datagram" -> RecvDatagram(d)
    [] pc[s] \in Objects -> RecvObject(d)

\* Reader::decode: an attempt on what the buffer holds.
Decode(s) ==
  /\ Reading(s) /\ need[s] = 0 /\ pc[s] # "payload"
  /\ pc[s] \in Objects => Buffer(s) # <<>>
  /\ \E d \in {Attempt(s)} :
     CASE d.st = "more" ->
            /\ IF s = "dgram" /\ arrived[s] > 0 THEN Fail(s, "More") /\ UNCHANGED need
               ELSE need' = [need EXCEPT ![s] = arrived[s] + d.n] /\ UNCHANGED <<pc, fate>>
            /\ UNCHANGED <<sendVars, arrived, consumed, remain, got>>
       [] d.st = "err" ->
            /\ Fail(s, d.why)
            /\ UNCHANGED <<sendVars, arrived, consumed, need, remain, got>>
       [] OTHER -> Handle(s, d)

Bytes(bs) == [i \in 1..Len(bs) |-> <<"byte", <<bs[i]>>>>]

\* k bytes of payload taken from the stream, the buffer or what lies beyond it.
Payload(k) ==
  LET c == consumed["data"] IN
  /\ got' = [got EXCEPT !["data"] = @ \o Bytes(SubSeq(wire["data"], c + 1, c + k))]
  /\ consumed' = [consumed EXCEPT !["data"] = c + k]
  /\ arrived' = [arrived EXCEPT !["data"] = IF @ < c + k THEN c + k ELSE @]
  /\ remain' = remain - k
  /\ pc' = [pc EXCEPT !["data"] =
              IF remain > k THEN @ ELSE ObjectOf(got["data"][1][1])]

AtMost(a, b) == IF a < b THEN a ELSE b

\* Reader::read_chunk(remain): first what the buffer still holds.
ReadChunk ==
  /\ Reading("data") /\ pc["data"] = "payload"
  /\ IF Buffer("data") # <<>> THEN Payload(AtMost(remain, Len(Buffer("data"))))
     ELSE /\ ended["data"] # "reset"
          /\ \E k \in 1..AtMost(remain, Len(wire["data"]) - arrived["data"]) : Payload(k)
  /\ UNCHANGED <<sendVars, need, fate>>

\* The stream is over and the payload is not: WrongSize.
ReadChunkEnd ==
  /\ Reading("data") /\ pc["data"] = "payload" /\ Buffer("data") = <<>>
  /\ ended["data"] = "fin" /\ arrived["data"] = Len(wire["data"])
  /\ Fail("data", "WrongSize")
  /\ UNCHANGED <<sendVars, arrived, consumed, need, remain, got>>

Read(s) == ReadBuf(s) \/ ReadEnd(s) \/ ReadReset(s) \/ Decode(s)

FramingNext ==
  \/ Connect \/ Finish \/ Abandon
  \/ \E s \in Streams : Send(s) \/ Read(s)
  \/ ReadChunk \/ ReadChunkEnd

FramingSpec == FramingInit /\ [][FramingNext]_framingVars

-----------------------------------------------------------------------------
(* Properties *)

\* A SUBSCRIBE or SUBSCRIBE_UPDATE with one of the filters that name a range.
Absolute(item) ==
  item[1] \in {"Subscribe", "SubscribeUpdate"} /\ item[2][7][1] \in {AbsoluteStart, AbsoluteRange}

\* What encode and decode do not agree on: AbsoluteStart has an end on the
\* wire that decode does not take.  Nothing is promised after one.
Lopsided(item) == Absolute(item) /\ item[2][7][1] = AbsoluteStart
Derailed(s, n) == \E i \in 1..AtMost(n, Len(sent[s])) : Lopsided(sent[s][i].item)

(***************************************************************************)
(* Whatever the pieces in which the bytes arrive, what the Reader returns  *)
(* is what the Writer was given, item by item, and it stands exactly       *)
(* between two items whenever it starts on one (reader.rs, every           *)
(* Encode/Decode pair of coding, message, data and setup).                 *)
(***************************************************************************)
InStep ==
  \A s \in Streams :
    LET n == Len(got[s]) IN
    Derailed(s, n) \/
      /\ n <= Len(sent[s])
      /\ \A i \in 1..n : got[s][i] = sent[s][i].item
      /\ consumed[s] = IF n = 0 THEN 0 ELSE sent[s][n].end

(***************************************************************************)
(* The Reader never waits for bytes beyond the item it is decoding, so a   *)
(* message that was sent whole is never held back until the next one comes *)
(* (reader.rs:29-52, DecodeError::More).                                   *)
(***************************************************************************)
NeverOverwaits ==
  \A s \in Streams :
    LET n == Len(got[s]) + 1 IN
    (need[s] > 0 /\ n <= Len(sent[s]) /\ ~Derailed(s, n) /\ pc[s] # "failed")
      => need[s] <= sent[s][n].end

(***************************************************************************)
(* What this code sends, this code can read: a reader fails only because   *)
(* the stream was cut, because the message has no handler, because the two *)
(* roles exclude each other, or, for an absolute filter, because the       *)
(* message did not arrive whole and the missing bytes were taken for a     *)
(* missing field.  In particular no message meets the wrong half.          *)
(***************************************************************************)
FailsForCause ==
  \A s \in Streams :
    LET n == Len(got[s]) IN
    (pc[s] = "failed" /\ ~Derailed(s, n + 1)) =>
      CASE fate[s] \in {"More", "WrongSize", "transport"} -> ended[s] # "open" /\ next <= Len(script.items)
        [] fate[s] = "setup" -> script.client = script.server /\ script.client # "Both"
        [] fate[s] = "unimplemented" -> got[s][n][1] \in Unimplemented
        [] fate[s] = "MissingField" -> /\ Absolute(sent[s][n + 1].item)
                                       /\ arrived[s] < sent[s][n + 1].end
        [] OTHER -> FALSE

(***************************************************************************)
(* Once both ends are up, each one has a publisher exactly if the other    *)
(* has a subscriber (Role::is_compatible; connect_role, accept_role).      *)
(***************************************************************************)
RolesFit ==
  (up[Client] = "up" /\ up[Server] = "up") => is_compatible(role[Client], role[Server])

=============================================================================
