---------------------------- MODULE WsMuxProofs -----------------------------
(***************************************************************************)
(* Proofs about web-transport-ws, for any streams, any number of chunks    *)
(* and any room in the channels: a RecvStream is given what was written,   *)
(* in order and up to the end, unless it is that of a stream which its     *)
(* initiator sent on before the creation was in the tables; a stream is    *)
(* accepted a second time only when it was cut short, and data is ignored  *)
(* only in these two cases.                                                *)
(*                                                                         *)
(* The invariant follows the frames of a half from the outbound channel    *)
(* over the socket to the first RecvStream: they are in order, the chunks  *)
(* that it was not given are all on their way, and once it is out of the   *)
(* table without a cut, nothing is.                                        *)
(***************************************************************************)
EXTENDS WsMux, SequencesExt, TLAPS

-----------------------------------------------------------------------------
(* The invariant *)

DataFrame == [t : {"stream"}, s : Stream, d : Nat]
Frame == DataFrame \cup [t : {"reset", "stop"}, s : Stream] \cup {Close}
Queued == [s : Stream, i : Incarnation]

WsTypeOK ==
  /\ creating \in [Ends -> SUBSET Stream] /\ spilled \in [Ends -> SUBSET Stream]
  /\ outbound \in [Ends -> Seq(DataFrame)]
  /\ prio \in [Ends -> Seq(Frame)] /\ wire \in [Ends -> Seq(Frame)]
  /\ recvTab \in [Ends -> [Stream -> 0 .. 2]]
  /\ accept \in [Ends -> [{"uni", "bi"} -> Seq(Queued)]]
  /\ send \in [Half -> {"none", "open", "fin", "closed"}] /\ stop \in [Half -> BOOLEAN]
  /\ recv \in [Half -> [Incarnation -> {"none", "queued", "open", "end", "failed"}]]
  /\ inbox \in [Half -> [Incarnation -> Seq(Nat)]]
  /\ log \in [Half -> [Incarnation -> Seq(Nat)]]
  /\ written \in [Half -> Nat]

\* Of one stream, chunks go in the order they were written and FIN goes last.
Before(f, g) ==
  f.t = "stream" /\ g.t = "stream" /\ f.s = g.s => f.d # FIN /\ (g.d = FIN \/ f.d < g.d)

InOrder(q) == \A j, k \in 1 .. Len(q) : j < k => Before(q[j], q[k])

\* What an end has sent or will send, apart from priority frames.
Pipe(e) == ToSet(wire[e]) \cup ToSet(outbound[e])

\* The frames of a half that were not received.
OnItsWay(h) == {f \in Pipe(h[1]) : f.t = "stream" /\ f.s = h[2]}

OrderOK(e) ==
  /\ InOrder(wire[e]) /\ InOrder(outbound[e])
  /\ \A f \in ToSet(wire[e]), g \in ToSet(outbound[e]) : Before(f, g)

\* Frames are of streams that were written to; what was sent is of streams the backend knows.
FramesOK(e) ==
  /\ \A f \in Pipe(e) :
       f.t = "stream" =>
         /\ <<e, f.s>> \in Half /\ f.d <= written[<<e, f.s>>] /\ send[<<e, f.s>>] # "none"
         /\ f.d = FIN => send[<<e, f.s>>] = "fin" /\ f.s \notin spilled[e]
  /\ \A s \in spilled[e] : <<e, s>> \in Half /\ send[<<e, s>>] = "fin"
  /\ \A f \in ToSet(wire[e]) :
       f.t = "stream" /\ f.s \in Bi => f.s \notin creating[e] \/ f.s \in early

\* A stream is reset or stopped only when it was cut.
CutOK ==
  /\ \A e \in Ends : \A f \in ToSet(wire[e]) \cup ToSet(prio[e]) :
       /\ f.t = "reset" => <<e, f.s>> \in cut
       /\ f.t = "stop" => <<Peer(e), f.s>> \in cut
  /\ \A e \in Ends : \A f \in ToSet(prio[e]) : f.t # "stream"
  /\ \A h \in Half : stop[h] => h \in cut

\* A stream exists for its peer once it was sent something; only then is it answered.
OpenOK ==
  \A e \in Ends, s \in Stream :
    Initiator[s] = e =>
      /\ s \notin creating[Peer(e)]
      /\ s \in creating[e] => send[<<e, s>>] # "none"
      /\ s \in Bi \cap creating[e] => recv[<<e, s>>][1] = "none" \/ s \in early
      /\ send[<<e, s>>] = "none" => recv[<<e, s>>][1] = "none"
      /\ s \in Bi =>
           /\ send[<<e, s>>] # "none" <=> recv[<<Peer(e), s>>][1] # "none"
           /\ recv[<<e, s>>][1] \in {"none", "queued"} => send[<<Peer(e), s>>] = "none"

\* A RecvStream is accepted once.
AcceptOK ==
  \A e \in Ends, k \in {"uni", "bi"} :
    /\ \A a \in ToSet(accept[e][k]) :
         /\ Initiator[a.s] = Peer(e) /\ Kind(a.s) = k
         /\ recv[<<Peer(e), a.s>>][a.i] # "none"
         /\ a.i = 1 => recv[<<Peer(e), a.s>>][1] = "queued"
    /\ \A m, n \in 1 .. Len(accept[e][k]) :
         accept[e][k][m] = accept[e][k][n] /\ accept[e][k][m].i = 1 => m = n

\* The first RecvStream of a half may still get what is sent.
Live(h) ==
  recvTab[Reader(h)][h[2]] = 1 \/ recv[h][1] = "none" \/ h[2] \in creating[Reader(h)]

\* What it was given.
Got(h) == Len(log[h][1]) + Len(inbox[h][1])

\* It was given the first chunks, and perhaps the end.
GotOK(h) ==
  /\ \A n \in 1 .. Len(log[h][1]) : log[h][1][n] = n
  /\ \A n \in 1 .. Len(inbox[h][1]) :
       \/ inbox[h][1][n] = Len(log[h][1]) + n
       \/ /\ inbox[h][1][n] = FIN /\ n = Len(inbox[h][1])
          /\ (Len(log[h][1]) + n) - 1 = written[h] /\ send[h] = "fin"
  /\ recv[h][1] = "end" => Len(log[h][1]) = written[h] /\ send[h] = "fin"

\* What it still may get is the rest.
LiveOK(h) ==
  Live(h) =>
    /\ Got(h) <= written[h]
    /\ \A n \in 1 .. Len(inbox[h][1]) : inbox[h][1][n] # FIN
    /\ \A d \in (Got(h) + 1) .. written[h] : Data(h[2], d) \in OnItsWay(h)
    /\ \A f \in OnItsWay(h) : f.d # FIN => f.d > Got(h)

\* Unless it was cut, nothing comes after it has got all.
QuietOK(h) ==
  ~Live(h) /\ recvTab[Reader(h)][h[2]] = 0 /\ h \notin cut =>
    send[h] = "fin" /\ h[2] \notin spilled[h[1]] /\ OnItsWay(h) = {}

TabOK(h) ==
  /\ recv[h][1] = "none" => log[h][1] = <<>> /\ inbox[h][1] = <<>>
  /\ recvTab[Reader(h)][h[2]] # 0 => recv[h][1] # "none" /\ h[2] \notin creating[Reader(h)]
  /\ recvTab[Reader(h)][h[2]] = 2 => recv[h][2] # "none"
  /\ recv[h][2] # "none" => h \in cut
  /\ send[h] = "none" => written[h] = 0

HalfOK(h) == (Gap(h) \/ (GotOK(h) /\ LiveOK(h))) /\ QuietOK(h) /\ TabOK(h)

WsInv ==
  /\ WsTypeOK /\ CutOK /\ OpenOK /\ AcceptOK
  /\ \A e \in Ends : OrderOK(e) /\ FramesOK(e)
  /\ \A h \in Half : HalfOK(h)
  /\ NothingIgnored

-----------------------------------------------------------------------------
(* Ends, halves, frames and sequences *)

\* The two ends of a session.
LEMMA EndFacts ==
  \A e \in Ends : /\ Peer(e) \in Ends /\ Peer(e) # e /\ Peer(Peer(e)) = e
                  /\ \A x \in Ends : x = e \/ x = Peer(e)
BY DEF Ends, Peer

\* A bidirectional stream has two halves, the other one that of its initiator.
LEMMA HalfFacts ==
  /\ \A h \in Half : /\ h = <<h[1], h[2]>> /\ h[1] \in Ends /\ h[2] \in Stream
                     /\ Reader(h) = Peer(h[1]) /\ Reader(h) \in Ends /\ Reader(h) # h[1]
                     /\ Initiator[h[2]] # h[1] => h[2] \in Bi
  /\ \A e \in Ends, s \in Stream : /\ Initiator[s] = e \/ s \in Bi => <<e, s>> \in Half
                                   /\ <<e, s>>[1] = e /\ <<e, s>>[2] = s
                                   /\ Reader(<<e, s>>) = Peer(e)
                                   /\ Initiator[s] \in Ends
BY EndFacts, WsAssumption DEF Half, Reader, Stream

\* The frames of the protocol.
LEMMA FrameFacts ==
  /\ \A s \in Stream, d \in Nat : /\ Data(s, d) \in DataFrame
                                  /\ Data(s, d).t = "stream" /\ Data(s, d).s = s /\ Data(s, d).d = d
  /\ \A s \in Stream : /\ Reset(s) \in Frame /\ Reset(s).t = "reset" /\ Reset(s).s = s
                       /\ Stop(s) \in Frame /\ Stop(s).t = "stop" /\ Stop(s).s = s
  /\ Close \in Frame /\ Close.t = "close"
  /\ DataFrame \subseteq Frame
  /\ \A f \in DataFrame : f.t = "stream"
  /\ \A f \in Frame : f.t = "stream" => f \in DataFrame
  /\ \A f \in Frame : f.t \in {"reset", "stop"} => f.s \in Stream
  /\ \A f \in DataFrame : f.s \in Stream /\ f.d \in Nat /\ f = Data(f.s, f.d)
BY DEF Frame, DataFrame, Data, Reset, Stop, Close

\* A channel that something is put in.
LEMMA AppendFrames ==
  ASSUME NEW S, NEW q \in Seq(S), NEW x \in S
  PROVE  /\ Append(q, x) \in Seq(S) /\ ToSet(Append(q, x)) = ToSet(q) \cup {x}
         /\ Len(q) \in Nat /\ Len(Append(q, x)) = Len(q) + 1
         /\ \A k \in 1 .. Len(q) : Append(q, x)[k] = q[k]
         /\ Append(q, x)[Len(q) + 1] = x
<1>1. /\ Append(q, x) \in Seq(S) /\ Len(Append(q, x)) = Len(q) + 1 /\ Len(q) \in Nat
      /\ \A k \in 1 .. Len(q) : Append(q, x)[k] = q[k]
      /\ Append(q, x)[Len(q) + 1] = x
      /\ DOMAIN q = 1 .. Len(q) /\ DOMAIN Append(q, x) = 1 .. (Len(q) + 1)
  OBVIOUS
<1>2. /\ Len(q) + 1 \in 1 .. (Len(q) + 1)
      /\ \A k \in 1 .. Len(q) : k \in 1 .. (Len(q) + 1)
      /\ \A k \in 1 .. (Len(q) + 1) : k \in 1 .. Len(q) \/ k = Len(q) + 1
  BY <1>1
<1>3. ToSet(Append(q, x)) = ToSet(q) \cup {x}
  BY <1>1, <1>2 DEF ToSet
<1>4. QED
  BY <1>1, <1>3

\* A channel that something is taken from.
LEMMA TailFrames ==
  ASSUME NEW S, NEW q \in Seq(S), q # <<>>
  PROVE  /\ Tail(q) \in Seq(S) /\ ToSet(q) = ToSet(Tail(q)) \cup {Head(q)} /\ Head(q) \in S
         /\ Len(q) \in Nat \ {0} /\ Len(Tail(q)) = Len(q) - 1 /\ Head(q) = q[1]
         /\ \A k \in 1 .. (Len(q) - 1) : Tail(q)[k] = q[k + 1]
<1>1. /\ Tail(q) \in Seq(S) /\ Len(q) \in Nat \ {0} /\ Len(Tail(q)) = Len(q) - 1
      /\ Head(q) = q[1] /\ Head(q) \in S
      /\ \A k \in 1 .. (Len(q) - 1) : Tail(q)[k] = q[k + 1]
      /\ DOMAIN q = 1 .. Len(q) /\ DOMAIN Tail(q) = 1 .. (Len(q) - 1)
  OBVIOUS
<1>2. /\ 1 \in 1 .. Len(q)
      /\ \A k \in 1 .. (Len(q) - 1) : k + 1 \in 1 .. Len(q)
      /\ \A k \in 1 .. Len(q) : k = 1 \/ (k - 1 \in 1 .. (Len(q) - 1) /\ (k - 1) + 1 = k)
  BY <1>1
<1>3. ToSet(Tail(q)) \cup {Head(q)} \subseteq ToSet(q)
  BY <1>1, <1>2 DEF ToSet
<1>4. ToSet(q) \subseteq ToSet(Tail(q)) \cup {Head(q)}
  <2> SUFFICES ASSUME NEW k \in 1 .. Len(q) PROVE q[k] \in ToSet(Tail(q)) \cup {Head(q)}
    BY <1>1 DEF ToSet
  <2>1. CASE k = 1
    BY <1>1, <2>1
  <2>2. CASE k # 1
    <3>1. k - 1 \in DOMAIN Tail(q) /\ Tail(q)[k - 1] = q[k]
      BY <1>1, <1>2, <2>2
    <3>2. QED
      BY <3>1 DEF ToSet
  <2>3. QED
    BY <2>1, <2>2
<1>5. QED
  BY <1>1, <1>3, <1>4

\* What is put behind a sequence in order must come after all in it.
LEMMA AppendInOrder ==
  ASSUME NEW S, NEW q \in Seq(S), NEW x \in S, InOrder(q), \A f \in ToSet(q) : Before(f, x)
  PROVE  InOrder(Append(q, x))
<1>1. /\ Len(q) \in Nat /\ Len(Append(q, x)) = Len(q) + 1
      /\ \A k \in 1 .. Len(q) : Append(q, x)[k] = q[k] /\ q[k] \in ToSet(q)
      /\ Append(q, x)[Len(q) + 1] = x
  BY AppendFrames DEF ToSet
<1> DEFINE a == Append(q, x)
<1> SUFFICES ASSUME NEW j \in 1 .. Len(a), NEW k \in 1 .. Len(a), j < k PROVE Before(a[j], a[k])
  BY DEF InOrder
<1>2. j \in 1 .. Len(q) /\ a[j] = q[j]
  BY <1>1
<1>3. CASE k \in 1 .. Len(q)
  BY <1>1, <1>2, <1>3 DEF InOrder
<1>4. CASE k = Len(q) + 1
  BY <1>1, <1>2, <1>4
<1>5. QED
  BY <1>1, <1>3, <1>4

\* The first of a sequence in order comes before all others.
LEMMA TailInOrder ==
  ASSUME NEW S, NEW q \in Seq(S), q # <<>>, InOrder(q)
  PROVE  InOrder(Tail(q)) /\ \A f \in ToSet(Tail(q)) : Before(Head(q), f)
<1>1. /\ Len(q) \in Nat \ {0} /\ Len(Tail(q)) = Len(q) - 1 /\ Head(q) = q[1]
      /\ \A k \in 1 .. (Len(q) - 1) : Tail(q)[k] = q[k + 1]
      /\ DOMAIN Tail(q) = 1 .. (Len(q) - 1)
  BY TailFrames
<1>2. InOrder(Tail(q))
  <2> SUFFICES ASSUME NEW j \in 1 .. Len(Tail(q)), NEW k \in 1 .. Len(Tail(q)), j < k
               PROVE  Before(Tail(q)[j], Tail(q)[k])
    BY DEF InOrder
  <2>1. /\ j + 1 \in 1 .. Len(q) /\ k + 1 \in 1 .. Len(q) /\ j + 1 < k + 1
        /\ Tail(q)[j] = q[j + 1] /\ Tail(q)[k] = q[k + 1]
    BY <1>1
  <2>2. QED
    BY <2>1 DEF InOrder
<1>3. ASSUME NEW k \in 1 .. (Len(q) - 1) PROVE Before(Head(q), Tail(q)[k])
  <2>1. 1 \in 1 .. Len(q) /\ k + 1 \in 1 .. Len(q) /\ 1 < k + 1
    BY <1>1
  <2>2. QED
    BY <1>1, <2>1 DEF InOrder
<1>4. QED
  BY <1>1, <1>2, <1>3 DEF ToSet

\* An update of one place of a table of tables.
LEMMA Update ==
  ASSUME NEW A, NEW B, NEW V, NEW f \in [A -> [B -> V]], NEW a \in A, NEW b \in B, NEW v \in V
  PROVE  LET g == [f EXCEPT ![a][b] = v]
         IN  /\ g \in [A -> [B -> V]] /\ g[a][b] = v
             /\ \A y \in B : y # b => g[a][y] = f[a][y]
             /\ \A x \in A : x # a => g[x] = f[x]
OBVIOUS

-----------------------------------------------------------------------------
(* What is on its way *)

\* The types of the channels at an end.
LEMMA ChannelTypes ==
  ASSUME WsTypeOK, NEW e \in Ends
  PROVE  /\ wire[e] \in Seq(Frame) /\ prio[e] \in Seq(Frame) /\ outbound[e] \in Seq(DataFrame)
         /\ \A f \in ToSet(wire[e]) : f \in Frame
         /\ \A f \in ToSet(prio[e]) : f \in Frame
         /\ \A f \in ToSet(outbound[e]) : f \in DataFrame
<1>1. wire[e] \in Seq(Frame) /\ prio[e] \in Seq(Frame) /\ outbound[e] \in Seq(DataFrame)
  BY DEF WsTypeOK
<1>2. ASSUME NEW S, NEW q \in Seq(S) PROVE \A f \in ToSet(q) : f \in S
  BY DEF ToSet
<1>3. QED
  BY <1>1, <1>2

\* Frames on their way are data.
LEMMA WayTypes ==
  ASSUME WsTypeOK, NEW h \in Half
  PROVE  \A f \in OnItsWay(h) : f \in DataFrame /\ f.s = h[2] /\ f.d \in Nat /\ f = Data(h[2], f.d)
<1>1. h[1] \in Ends
  BY HalfFacts
<1>2. QED
  BY <1>1, ChannelTypes, FrameFacts DEF OnItsWay, Pipe

\* A frame is queued behind what was written before.
LEMMA QueueFrame ==
  ASSUME WsTypeOK, \A x \in Ends : OrderOK(x), NEW h \in Half, NEW d \in Nat,
         outbound' = [outbound EXCEPT ![h[1]] = Append(@, Data(h[2], d))], UNCHANGED wire,
         \A f \in OnItsWay(h) : f.d # FIN /\ (d = FIN \/ f.d < d)
  PROVE  /\ outbound' \in [Ends -> Seq(DataFrame)] /\ \A x \in Ends : OrderOK(x)'
         /\ \A f \in Pipe(h[1])' : f \in Pipe(h[1]) \/ f = Data(h[2], d)
         /\ Pipe(Reader(h))' = Pipe(Reader(h))
         /\ OnItsWay(h)' = OnItsWay(h) \cup {Data(h[2], d)}
         /\ \A g \in Half : g # h => OnItsWay(g)' = OnItsWay(g)
<1> DEFINE e == h[1]
           f == Data(h[2], d)
<1>1. /\ e \in Ends /\ h[2] \in Stream /\ f \in DataFrame /\ f.t = "stream" /\ f.s = h[2] /\ f.d = d
      /\ h = <<e, h[2]>> /\ Reader(h) \in Ends /\ Reader(h) # e
  BY HalfFacts, FrameFacts
<1> HIDE DEF f
<1>2. /\ outbound'[e] = Append(outbound[e], f) /\ outbound[e] \in Seq(DataFrame)
      /\ outbound' \in [Ends -> Seq(DataFrame)]
      /\ \A x \in Ends : x # e => outbound'[x] = outbound[x]
  BY <1>1 DEF WsTypeOK, f
<1>3. ToSet(outbound'[e]) = ToSet(outbound[e]) \cup {f}
  BY <1>1, <1>2, AppendFrames
<1>4. \A g \in ToSet(outbound[e]) \cup ToSet(wire[e]) : Before(g, f)
  <2> SUFFICES ASSUME NEW g \in Pipe(e) PROVE Before(g, f)
    BY DEF Pipe
  <2>1. g.t = "stream" /\ g.s = h[2] => g \in OnItsWay(h)
    BY DEF OnItsWay
  <2>2. QED
    BY <1>1, <2>1 DEF Before
<1>5. OrderOK(e)'
  <2>1. InOrder(outbound'[e])
    BY <1>1, <1>2, <1>4, AppendInOrder DEF OrderOK
  <2>2. QED
    BY <1>1, <1>3, <1>4, <2>1 DEF OrderOK
<1>6. \A x \in Ends : OrderOK(x)'
  BY <1>2, <1>5 DEF OrderOK
<1>7. Pipe(e)' = Pipe(e) \cup {f} /\ \A x \in Ends : x # e => Pipe(x)' = Pipe(x)
  BY <1>2, <1>3 DEF Pipe
<1>8. OnItsWay(h)' = OnItsWay(h) \cup {f}
  BY <1>1, <1>7 DEF OnItsWay
<1>9. ASSUME NEW g \in Half, g # h PROVE OnItsWay(g)' = OnItsWay(g)
  <2>1. g = <<g[1], g[2]>> /\ g[1] \in Ends
    BY HalfFacts
  <2>2. CASE g[1] # e
    BY <1>7, <2>1, <2>2 DEF OnItsWay
  <2>3. CASE g[1] = e /\ g[2] # h[2]
    BY <1>1, <1>7, <2>3 DEF OnItsWay
  <2>4. QED
    BY <1>1, <1>9, <2>1, <2>2, <2>3
<1>10. QED
  BY <1>1, <1>2, <1>6, <1>7, <1>8, <1>9 DEF f

\* The frame in front is taken from the socket.
LEMMA TakeFrame ==
  ASSUME WsTypeOK, \A x \in Ends : OrderOK(x), NEW q \in Ends, wire[q] # <<>>,
         wire' = [wire EXCEPT ![q] = Tail(@)], UNCHANGED outbound
  PROVE  /\ wire' \in [Ends -> Seq(Frame)] /\ \A x \in Ends : OrderOK(x)'
         /\ Head(wire[q]) \in Frame /\ Head(wire[q]) \in ToSet(wire[q])
         /\ \A x \in Ends : Pipe(x)' \subseteq Pipe(x) /\ ToSet(wire[x])' \subseteq ToSet(wire[x])
         /\ \A g \in Half :
              IF g[1] = q /\ Head(wire[q]).t = "stream" /\ Head(wire[q]).s = g[2]
              THEN /\ OnItsWay(g) = OnItsWay(g)' \cup {Head(wire[q])}
                   /\ \A f \in OnItsWay(g)' : Before(Head(wire[q]), f)
              ELSE OnItsWay(g)' = OnItsWay(g)
<1> DEFINE f == Head(wire[q])
<1>1. /\ wire[q] \in Seq(Frame) /\ Tail(wire[q]) \in Seq(Frame) /\ f \in Frame
      /\ ToSet(wire[q]) = ToSet(Tail(wire[q])) \cup {f}
  BY ChannelTypes, TailFrames
<1>2. /\ wire' \in [Ends -> Seq(Frame)] /\ wire'[q] = Tail(wire[q])
      /\ \A x \in Ends : x # q => wire'[x] = wire[x]
  BY <1>1 DEF WsTypeOK
<1>3. InOrder(wire'[q]) /\ \A g \in ToSet(wire'[q]) : Before(f, g)
  BY <1>1, <1>2, TailInOrder DEF OrderOK
<1> HIDE DEF f
<1>4. \A x \in Ends : ToSet(wire[x])' \subseteq ToSet(wire[x])
  BY <1>1, <1>2
<1>5. \A x \in Ends : OrderOK(x)'
  <2> SUFFICES ASSUME NEW x \in Ends PROVE OrderOK(x)'
    OBVIOUS
  <2>1. CASE x = q
    BY <1>1, <1>2, <1>3, <2>1 DEF OrderOK
  <2>2. CASE x # q
    BY <1>2, <2>2 DEF OrderOK
  <2>3. QED
    BY <2>1, <2>2
<1>6. Pipe(q) = Pipe(q)' \cup {f} /\ \A x \in Ends : x # q => Pipe(x)' = Pipe(x)
  BY <1>1, <1>2 DEF Pipe
<1>7. \A g \in Pipe(q)' : Before(f, g)
  BY <1>1, <1>3 DEF Pipe, OrderOK
<1>8. ASSUME NEW g \in Half
      PROVE  IF g[1] = q /\ f.t = "stream" /\ f.s = g[2]
             THEN /\ OnItsWay(g) = OnItsWay(g)' \cup {f}
                  /\ \A x \in OnItsWay(g)' : Before(f, x)
             ELSE OnItsWay(g)' = OnItsWay(g)
  <2>1. g[1] \in Ends
    BY HalfFacts
  <2>2. CASE g[1] # q
    BY <1>6, <2>1, <2>2 DEF OnItsWay
  <2>3. CASE g[1] = q
    BY <1>6, <1>7, <2>3 DEF OnItsWay
  <2>4. QED
    BY <2>2, <2>3
<1>9. QED
  BY <1>1, <1>2, <1>4, <1>5, <1>6, <1>8 DEF f

-----------------------------------------------------------------------------
(* SendStream *)

\* What the first RecvStream of a half was given.
LEMMA GotType ==
  ASSUME WsTypeOK, NEW h \in Half
  PROVE  /\ log[h][1] \in Seq(Nat) /\ inbox[h][1] \in Seq(Nat)
         /\ Len(log[h][1]) \in Nat /\ Len(inbox[h][1]) \in Nat /\ Got(h) \in Nat
<1>1. 1 \in Incarnation
  BY DEF Incarnation
<1>2. log[h][1] \in Seq(Nat) /\ inbox[h][1] \in Seq(Nat)
  BY <1>1 DEF WsTypeOK
<1>3. ASSUME NEW q \in Seq(Nat) PROVE Len(q) \in Nat
  OBVIOUS
<1>4. Len(log[h][1]) \in Nat /\ Len(inbox[h][1]) \in Nat
  BY <1>2, <1>3
<1>5. \A a, b \in Nat : a + b \in Nat
  OBVIOUS
<1>6. Got(h) \in Nat
  BY <1>4, <1>5, Zenon DEF Got
<1>7. QED
  BY <1>2, <1>4, <1>6

\* A half is not disturbed by what happens to the others.
LEMMA HalfKept ==
  ASSUME NEW h \in Half, HalfOK(h), OnItsWay(h)' = OnItsWay(h),
         log'[h][1] = log[h][1], inbox'[h][1] = inbox[h][1],
         recv'[h][1] = "end" => recv[h][1] = "end",
         \A i \in Incarnation : recv'[h][i] = "none" <=> recv[h][i] = "none",
         recvTab'[Reader(h)][h[2]] = recvTab[Reader(h)][h[2]],
         written'[h] = written[h], send'[h] = send[h] \/ send[h] = "none",
         h[2] \in creating'[Reader(h)] <=> h[2] \in creating[Reader(h)],
         h[2] \in spilled'[h[1]] => h[2] \in spilled[h[1]], cut \subseteq cut',
         early \subseteq early'
  PROVE  HalfOK(h)'
<1>1. /\ recv'[h][1] = "none" <=> recv[h][1] = "none"
      /\ recv'[h][2] = "none" <=> recv[h][2] = "none"
  BY DEF Incarnation
<1>2. (Live(h)' <=> Live(h)) /\ Got(h)' = Got(h)
  BY <1>1 DEF Live, Got
<1>3. GotOK(h) => GotOK(h)'
  BY DEF GotOK
<1>4. LiveOK(h) => LiveOK(h)'
  BY <1>2 DEF LiveOK
<1>5. QuietOK(h)'
  BY <1>2 DEF HalfOK, QuietOK
<1>6. TabOK(h)'
  BY <1>1 DEF HalfOK, TabOK
<1>7. Gap(h) => Gap(h)'
  BY DEF Gap
<1>8. QED
  BY <1>3, <1>4, <1>5, <1>6, <1>7 DEF HalfOK

\* The RecvStreams that wait after a step.
LEMMA AcceptStep ==
  ASSUME \A e \in Ends, k \in {"uni", "bi"} : \A a \in ToSet(accept'[e][k]) :
           /\ Initiator[a.s] = Peer(e) /\ Kind(a.s) = k
           /\ recv'[<<Peer(e), a.s>>][a.i] # "none"
           /\ a.i = 1 => recv'[<<Peer(e), a.s>>][1] = "queued",
         \A e \in Ends, k \in {"uni", "bi"} : \A m, n \in 1 .. Len(accept'[e][k]) :
           accept'[e][k][m] = accept'[e][k][n] /\ accept'[e][k][m].i = 1 => m = n
  PROVE  AcceptOK'
<1> SUFFICES ASSUME NEW e \in Ends, NEW k \in {"uni", "bi"}
             PROVE  /\ \A a \in ToSet(accept'[e][k]) :
                         /\ Initiator[a.s] = Peer(e) /\ Kind(a.s) = k
                         /\ recv'[<<Peer(e), a.s>>][a.i] # "none"
                         /\ a.i = 1 => recv'[<<Peer(e), a.s>>][1] = "queued"
                    /\ \A m, n \in 1 .. Len(accept'[e][k]) :
                         accept'[e][k][m] = accept'[e][k][n] /\ accept'[e][k][m].i = 1 => m = n
  BY Zenon DEF AcceptOK
<1> QED
  BY Zenon

\* A stream in use is neither opened nor queued for acceptance.
LEMMA OpenKept ==
  ASSUME WsInv, UNCHANGED <<creating, accept>>, early \subseteq early',
         \A g \in Half : send'[g] = "none" <=> send[g] = "none",
         \A g \in Half : /\ \A i \in Incarnation : recv'[g][i] = "none" <=> recv[g][i] = "none"
                         /\ recv'[g][1] = "queued" <=> recv[g][1] = "queued"
  PROVE  OpenOK' /\ AcceptOK'
<1>1. OpenOK'
  <2> SUFFICES ASSUME NEW e \in Ends, NEW s \in Stream, Initiator[s] = e
               PROVE  /\ s \notin creating[Peer(e)]
                      /\ s \in creating[e] => send'[<<e, s>>] # "none"
                      /\ s \in Bi \cap creating[e] => recv'[<<e, s>>][1] = "none" \/ s \in early'
                      /\ send'[<<e, s>>] = "none" => recv'[<<e, s>>][1] = "none"
                      /\ s \in Bi =>
                           /\ send'[<<e, s>>] # "none" <=> recv'[<<Peer(e), s>>][1] # "none"
                           /\ recv'[<<e, s>>][1] \in {"none", "queued"} => send'[<<Peer(e), s>>] = "none"
    BY DEF OpenOK
  <2>1. <<e, s>> \in Half /\ (s \in Bi => <<Peer(e), s>> \in Half) /\ 1 \in Incarnation
    BY HalfFacts, EndFacts DEF Incarnation
  <2>2. QED
    BY <2>1 DEF WsInv, OpenOK
<1>2. AcceptOK'
  <2>1. ASSUME NEW e \in Ends, NEW k \in {"uni", "bi"}, NEW a \in ToSet(accept'[e][k])
        PROVE  /\ Initiator[a.s] = Peer(e) /\ Kind(a.s) = k
               /\ recv'[<<Peer(e), a.s>>][a.i] # "none"
               /\ a.i = 1 => recv'[<<Peer(e), a.s>>][1] = "queued"
    <3>1. a \in ToSet(accept[e][k]) /\ a \in Queued
      BY DEF WsInv, WsTypeOK, ToSet
    <3>2. /\ Initiator[a.s] = Peer(e) /\ Kind(a.s) = k /\ recv[<<Peer(e), a.s>>][a.i] # "none"
          /\ a.i = 1 => recv[<<Peer(e), a.s>>][1] = "queued"
      BY <3>1 DEF WsInv, AcceptOK
    <3>3. <<Peer(e), a.s>> \in Half /\ a.i \in Incarnation
      BY <3>1, <3>2, HalfFacts, EndFacts DEF Queued
    <3>4. QED
      BY <3>2, <3>3
  <2>2. \A e \in Ends, k \in {"uni", "bi"} : \A a \in ToSet(accept'[e][k]) :
          /\ Initiator[a.s] = Peer(e) /\ Kind(a.s) = k
          /\ recv'[<<Peer(e), a.s>>][a.i] # "none"
          /\ a.i = 1 => recv'[<<Peer(e), a.s>>][1] = "queued"
    BY <2>1
  <2>3. \A e \in Ends, k \in {"uni", "bi"} : \A m, n \in 1 .. Len(accept'[e][k]) :
          accept'[e][k][m] = accept'[e][k][n] /\ accept'[e][k][m].i = 1 => m = n
    BY DEF WsInv, AcceptOK
  <2>4. QED
    BY <2>2, <2>3, AcceptStep, Zenon
<1>3. QED
  BY <1>1, <1>2

\* write_buf: the next chunk.
LEMMA WriteBufInv ==
  ASSUME WsInv, NEW h \in Half, WriteBuf(h)
  PROVE  WsInv'
<1> DEFINE d == written[h] + 1
<1>1. /\ send[h] = "open" /\ written' = [written EXCEPT ![h] = d]
      /\ outbound' = [outbound EXCEPT ![h[1]] = Append(@, Data(h[2], d))]
      /\ UNCHANGED <<creating, prio, spilled, wire, recvTab, accept, send, stop, recv, inbox, log,
                     cut, ignored, early>>
  BY DEF WriteBuf, tableVars, recvVars, ghostVars
<1>2. /\ h[1] \in Ends /\ h[2] \in Stream /\ h = <<h[1], h[2]>> /\ Reader(h) \in Ends
      /\ written[h] \in Nat /\ d \in Nat /\ d # FIN
      /\ \A x \in Ends : x = h[1] \/ x = Reader(h)
  BY HalfFacts, EndFacts DEF WsInv, WsTypeOK, FIN
<1>3. written'[h] = d /\ written' \in [Half -> Nat] /\ \A g \in Half : g # h => written'[g] = written[g]
  BY <1>1, <1>2 DEF WsInv, WsTypeOK
<1>4. \A f \in OnItsWay(h) : f.d # FIN /\ f.d < d /\ f.d <= written[h]
  <2>1. \A f \in OnItsWay(h) : f.d \in Nat
    BY WayTypes DEF WsInv
  <2>2. \A f \in OnItsWay(h) : f.d # FIN /\ f.d <= written[h]
    BY <1>1, <1>2 DEF WsInv, FramesOK, OnItsWay
  <2>3. QED
    BY <1>2, <2>1, <2>2
<1> HIDE DEF d
<1>5. /\ outbound' \in [Ends -> Seq(DataFrame)] /\ \A x \in Ends : OrderOK(x)'
      /\ \A f \in Pipe(h[1])' : f \in Pipe(h[1]) \/ f = Data(h[2], d)
      /\ Pipe(Reader(h))' = Pipe(Reader(h))
      /\ OnItsWay(h)' = OnItsWay(h) \cup {Data(h[2], d)}
      /\ \A g \in Half : g # h => OnItsWay(g)' = OnItsWay(g)
  BY <1>1, <1>2, <1>4, QueueFrame DEF WsInv
<1>6. Data(h[2], d).s = h[2] /\ Data(h[2], d).d = d
  BY <1>2, FrameFacts
<1>7. FramesOK(h[1])'
  <2>1. ASSUME NEW f \in Pipe(h[1])', f.t = "stream"
        PROVE  /\ <<h[1], f.s>> \in Half /\ f.d <= written'[<<h[1], f.s>>] /\ send[<<h[1], f.s>>] # "none"
               /\ f.d = FIN => send[<<h[1], f.s>>] = "fin" /\ f.s \notin spilled[h[1]]
    <3>1. CASE f = Data(h[2], d)
      BY <1>1, <1>2, <1>3, <1>6, <3>1
    <3>2. CASE f \in Pipe(h[1])
      <4>1. /\ <<h[1], f.s>> \in Half /\ f.d <= written[<<h[1], f.s>>] /\ send[<<h[1], f.s>>] # "none"
            /\ f.d = FIN => send[<<h[1], f.s>>] = "fin" /\ f.s \notin spilled[h[1]]
        BY <1>2, <2>1, <3>2 DEF WsInv, FramesOK
      <4>2. f.s = h[2] => f \in OnItsWay(h) /\ f.d \in Nat
        BY <2>1, <3>2, WayTypes DEF OnItsWay, WsInv
      <4>3. CASE f.s = h[2]
        BY <1>2, <1>3, <1>4, <4>1, <4>2, <4>3
      <4>4. CASE f.s # h[2]
        BY <1>2, <1>3, <4>1, <4>4
      <4>5. QED
        BY <4>3, <4>4
    <3>3. QED
      BY <1>5, <3>1, <3>2
  <2>2. QED
    BY <1>1, <1>2, <2>1 DEF WsInv, FramesOK
<1>8. FramesOK(Reader(h))'
  <2>1. ASSUME NEW s PROVE <<Reader(h), s>> # h
    BY <1>2, HalfFacts
  <2>2. QED
    BY <1>1, <1>2, <1>3, <1>5, <2>1 DEF WsInv, FramesOK
<1>9. HalfOK(h)'
  <2>1. HalfOK(h) /\ Got(h)' = Got(h)
    BY <1>1 DEF WsInv, Got
  <2>2. (Gap(h) => Gap(h)') /\ (GotOK(h) => GotOK(h)')
    BY <1>1 DEF Gap, GotOK
  <2>3. LiveOK(h) => LiveOK(h)'
    <3> SUFFICES ASSUME LiveOK(h), Live(h)' PROVE LiveOK(h)'
      BY DEF LiveOK
    <3>1. /\ Live(h) /\ Got(h) <= written[h] /\ Got(h) \in Nat
          /\ \A c \in (Got(h) + 1) .. written[h] : Data(h[2], c) \in OnItsWay(h)
          /\ \A f \in OnItsWay(h) : f.d # FIN => f.d > Got(h)
          /\ \A n \in 1 .. Len(inbox[h][1]) : inbox[h][1][n] # FIN
      <4>1. Live(h)
        BY <1>1 DEF Live
      <4>2. Got(h) \in Nat
        BY GotType DEF WsInv
      <4>3. QED
        BY <4>1, <4>2 DEF LiveOK
    <3>2. \A c \in (Got(h) + 1) .. d : c = d \/ c \in (Got(h) + 1) .. written[h]
      BY <1>2, <3>1 DEF d
    <3>3. Got(h) <= d /\ d > Got(h)
      BY <1>2, <3>1 DEF d
    <3>4. QED
      BY <1>1, <1>3, <1>5, <1>6, <2>1, <3>1, <3>2, <3>3 DEF LiveOK
  <2>4. QuietOK(h)'
    BY <1>1, <2>1 DEF HalfOK, QuietOK, Live
  <2>5. TabOK(h)'
    BY <1>1, <2>1 DEF HalfOK, TabOK
  <2>6. QED
    BY <2>1, <2>2, <2>3, <2>4, <2>5 DEF HalfOK
<1>10. \A g \in Half : HalfOK(g)'
  <2>1. ASSUME NEW g \in Half, g # h PROVE HalfOK(g)'
    BY <1>1, <1>3, <1>5, <2>1, HalfKept DEF WsInv
  <2>2. QED
    BY <1>9, <2>1
<1>11. WsTypeOK'
  BY <1>1, <1>3, <1>5 DEF WsInv, WsTypeOK
<1>12. CutOK' /\ OpenOK' /\ AcceptOK'
  BY <1>1, OpenKept DEF WsInv, CutOK
<1>13. QED
  BY <1>1, <1>2, <1>5, <1>7, <1>8, <1>10, <1>11, <1>12 DEF WsInv, NothingIgnored, Gap

\* The FIN of a finished stream goes out, behind all chunks.
LEMMA QueueFin ==
  ASSUME WsInv, NEW h \in Half, send[h] = "open" \/ h[2] \in spilled[h[1]],
         send' = [send EXCEPT ![h] = "fin"],
         outbound' = [outbound EXCEPT ![h[1]] = Append(@, Data(h[2], FIN))],
         spilled' = [spilled EXCEPT ![h[1]] = @ \ {h[2]}],
         UNCHANGED <<creating, prio, wire, recvTab, accept, stop, recv, inbox, log, written, cut,
                     ignored, early>>
  PROVE  WsInv'
<1>1. /\ h[1] \in Ends /\ h[2] \in Stream /\ h = <<h[1], h[2]>> /\ Reader(h) \in Ends
      /\ written[h] \in Nat /\ FIN \in Nat /\ FIN <= written[h]
      /\ \A x \in Ends : x = h[1] \/ x = Reader(h)
  BY HalfFacts, EndFacts DEF WsInv, WsTypeOK, FIN
<1>2. /\ send[h] \in {"open", "fin"} /\ send[h] # "none"
      /\ \A f \in OnItsWay(h) : f.d # FIN
  BY <1>1 DEF WsInv, FramesOK, OnItsWay
<1>3. /\ send' \in [Half -> {"none", "open", "fin", "closed"}] /\ send'[h] = "fin"
      /\ \A g \in Half : g # h => send'[g] = send[g]
      /\ spilled' \in [Ends -> SUBSET Stream] /\ spilled'[h[1]] = spilled[h[1]] \ {h[2]}
      /\ spilled'[Reader(h)] = spilled[Reader(h)]
  BY <1>1, HalfFacts DEF WsInv, WsTypeOK
<1>4. /\ outbound' \in [Ends -> Seq(DataFrame)] /\ \A x \in Ends : OrderOK(x)'
      /\ \A f \in Pipe(h[1])' : f \in Pipe(h[1]) \/ f = Data(h[2], FIN)
      /\ Pipe(Reader(h))' = Pipe(Reader(h))
      /\ OnItsWay(h)' = OnItsWay(h) \cup {Data(h[2], FIN)}
      /\ \A g \in Half : g # h => OnItsWay(g)' = OnItsWay(g)
  BY <1>1, <1>2, QueueFrame DEF WsInv
<1>5. Data(h[2], FIN).s = h[2] /\ Data(h[2], FIN).d = FIN
  BY <1>1, FrameFacts
<1>6. FramesOK(h[1])'
  <2>1. ASSUME NEW f \in Pipe(h[1])', f.t = "stream"
        PROVE  /\ <<h[1], f.s>> \in Half /\ f.d <= written[<<h[1], f.s>>] /\ send'[<<h[1], f.s>>] # "none"
               /\ f.d = FIN => send'[<<h[1], f.s>>] = "fin" /\ f.s \notin spilled'[h[1]]
    <3>1. CASE f = Data(h[2], FIN)
      BY <1>1, <1>3, <1>5, <3>1
    <3>2. CASE f \in Pipe(h[1])
      <4>1. /\ <<h[1], f.s>> \in Half /\ f.d <= written[<<h[1], f.s>>] /\ send[<<h[1], f.s>>] # "none"
            /\ f.d = FIN => send[<<h[1], f.s>>] = "fin" /\ f.s \notin spilled[h[1]]
        BY <1>1, <2>1, <3>2 DEF WsInv, FramesOK
      <4>2. QED
        BY <1>1, <1>3, <4>1
    <3>3. QED
      BY <1>4, <3>1, <3>2
  <2>2. \A s \in spilled'[h[1]] : <<h[1], s>> \in Half /\ send'[<<h[1], s>>] = "fin"
    BY <1>1, <1>3 DEF WsInv, FramesOK
  <2>3. QED
    BY <1>1, <2>1, <2>2 DEF WsInv, FramesOK
<1>7. FramesOK(Reader(h))'
  <2>1. ASSUME NEW s PROVE <<Reader(h), s>> # h
    BY <1>1, HalfFacts
  <2>2. QED
    BY <1>1, <1>3, <1>4, <2>1 DEF WsInv, FramesOK
<1>8. HalfOK(h)'
  <2>1. HalfOK(h) /\ Got(h)' = Got(h) /\ (Live(h)' <=> Live(h))
    BY DEF WsInv, Got, Live
  <2>2. (Gap(h) => Gap(h)') /\ (GotOK(h) => GotOK(h)')
    BY <1>3 DEF Gap, GotOK
  <2>3. LiveOK(h) => LiveOK(h)'
    BY <1>4, <1>5, <2>1 DEF LiveOK
  <2>4. QuietOK(h)'
    BY <2>1 DEF HalfOK, QuietOK
  <2>5. TabOK(h)'
    BY <1>3, <2>1 DEF HalfOK, TabOK
  <2>6. QED
    BY <2>1, <2>2, <2>3, <2>4, <2>5 DEF HalfOK
<1>9. \A g \in Half : HalfOK(g)'
  <2>1. ASSUME NEW g \in Half, g # h PROVE HalfOK(g)'
    <3>1. g[2] \in spilled'[g[1]] => g[2] \in spilled[g[1]]
      BY <1>1, <1>3, HalfFacts
    <3>2. QED
      BY <1>3, <1>4, <2>1, <3>1, HalfKept DEF WsInv
  <2>2. QED
    BY <1>8, <2>1
<1>10. WsTypeOK'
  BY <1>3, <1>4 DEF WsInv, WsTypeOK
<1>11. CutOK' /\ OpenOK' /\ AcceptOK'
  BY <1>2, <1>3, OpenKept DEF WsInv, CutOK
<1>12. QED
  BY <1>1, <1>4, <1>6, <1>7, <1>9, <1>10, <1>11 DEF WsInv, NothingIgnored, Gap

\* A SendStream ends without a frame of its own: the FIN waits or is lost, or it is reset.
LEMMA LeaveOpen ==
  ASSUME WsInv, NEW h \in Half, send[h] = "open", NEW v \in {"fin", "closed"},
         send' = [send EXCEPT ![h] = v], cut \subseteq cut', v = "closed" => h \in cut',
         \/ UNCHANGED spilled
         \/ v = "fin" /\ spilled' = [spilled EXCEPT ![h[1]] = @ \cup {h[2]}],
         CutOK', prio' \in [Ends -> Seq(Frame)], stop' \in [Half -> BOOLEAN],
         UNCHANGED <<creating, outbound, wire, recvTab, accept, recv, inbox, log, written, ignored, early>>
  PROVE  WsInv'
<1>1. /\ h[1] \in Ends /\ h[2] \in Stream /\ h = <<h[1], h[2]>> /\ Reader(h) \in Ends
      /\ \A x \in Ends : x = h[1] \/ x = Reader(h)
  BY HalfFacts, EndFacts DEF WsInv, WsTypeOK
<1>2. \A f \in OnItsWay(h) : f.d # FIN
  BY <1>1 DEF WsInv, FramesOK, OnItsWay
<1>3. /\ send' \in [Half -> {"none", "open", "fin", "closed"}] /\ send'[h] = v
      /\ \A g \in Half : g # h => send'[g] = send[g]
      /\ spilled' \in [Ends -> SUBSET Stream] /\ spilled'[Reader(h)] = spilled[Reader(h)]
      /\ \A s \in spilled'[h[1]] : s \in spilled[h[1]] \/ (s = h[2] /\ v = "fin")
  <2>1. CASE UNCHANGED spilled
    BY <1>1, <2>1, HalfFacts DEF WsInv, WsTypeOK
  <2>2. CASE v = "fin" /\ spilled' = [spilled EXCEPT ![h[1]] = @ \cup {h[2]}]
    BY <1>1, <2>2, HalfFacts DEF WsInv, WsTypeOK
  <2>3. QED
    BY <2>1, <2>2
<1>4. \A x \in Half : OnItsWay(x)' = OnItsWay(x)
  BY DEF OnItsWay, Pipe
<1>5. \A x \in Ends : OrderOK(x)' /\ Pipe(x)' = Pipe(x)
  BY DEF WsInv, OrderOK, Pipe
<1>6. h[2] \notin spilled[h[1]]
  BY <1>1 DEF WsInv, FramesOK
<1>7. FramesOK(h[1])'
  <2>1. ASSUME NEW f \in Pipe(h[1]), f.t = "stream"
        PROVE  /\ <<h[1], f.s>> \in Half /\ f.d <= written[<<h[1], f.s>>] /\ send'[<<h[1], f.s>>] # "none"
               /\ f.d = FIN => send'[<<h[1], f.s>>] = "fin" /\ f.s \notin spilled'[h[1]]
    <3>1. /\ <<h[1], f.s>> \in Half /\ f.d <= written[<<h[1], f.s>>] /\ send[<<h[1], f.s>>] # "none"
          /\ f.d = FIN => send[<<h[1], f.s>>] = "fin" /\ f.s \notin spilled[h[1]]
      BY <1>1, <2>1 DEF WsInv, FramesOK
    <3>2. f.s = h[2] => f.d # FIN
      BY <1>2, <2>1 DEF OnItsWay
    <3>3. f.s # h[2] => <<h[1], f.s>> # h
      BY <1>1
    <3>4. QED
      BY <1>1, <1>3, <3>1, <3>2, <3>3
  <2>2. ASSUME NEW s \in spilled'[h[1]] PROVE <<h[1], s>> \in Half /\ send'[<<h[1], s>>] = "fin"
    <3>1. CASE s = h[2] /\ v = "fin"
      BY <1>1, <1>3, <3>1
    <3>2. CASE s \in spilled[h[1]]
      <4>1. <<h[1], s>> \in Half /\ send[<<h[1], s>>] = "fin"
        BY <1>1, <3>2 DEF WsInv, FramesOK
      <4>2. QED
        BY <1>3, <4>1
    <3>3. QED
      BY <1>3, <3>1, <3>2
  <2>3. QED
    BY <1>1, <1>5, <2>1, <2>2 DEF WsInv, FramesOK
<1>8. FramesOK(Reader(h))'
  <2>1. ASSUME NEW s PROVE <<Reader(h), s>> # h
    BY <1>1, HalfFacts
  <2>2. QED
    BY <1>1, <1>3, <1>5, <2>1 DEF WsInv, FramesOK
<1>9. HalfOK(h)'
  <2>1. HalfOK(h) /\ Got(h)' = Got(h) /\ (Live(h)' <=> Live(h))
    BY DEF WsInv, Got, Live
  <2>2. (Gap(h) => Gap(h)') /\ (GotOK(h) => GotOK(h)')
    BY <1>3 DEF Gap, GotOK
  <2>3. LiveOK(h) => LiveOK(h)'
    BY <1>4, <2>1 DEF LiveOK
  <2>4. QuietOK(h)'
    BY <2>1 DEF HalfOK, QuietOK
  <2>5. TabOK(h)'
    BY <1>3, <2>1 DEF HalfOK, TabOK
  <2>6. QED
    BY <2>1, <2>2, <2>3, <2>4, <2>5 DEF HalfOK
<1>10. \A g \in Half : HalfOK(g)'
  <2>1. ASSUME NEW g \in Half, g # h PROVE HalfOK(g)'
    <3>1. g[2] \in spilled'[g[1]] => g[2] \in spilled[g[1]]
      <4>1. g = <<g[1], g[2]>> /\ g[1] \in Ends
        BY HalfFacts
      <4>2. CASE g[1] = h[1]
        <5>1. g[2] # h[2]
          BY <1>1, <2>1, <4>1, <4>2
        <5>2. QED
          BY <1>3, <4>2, <5>1
      <4>3. CASE g[1] = Reader(h)
        BY <1>3, <4>3
      <4>4. QED
        BY <1>1, <4>1, <4>2, <4>3
    <3>2. QED
      BY <1>3, <1>4, <2>1, <3>1, HalfKept DEF WsInv
  <2>2. QED
    BY <1>9, <2>1
<1>11. WsTypeOK'
  BY <1>3 DEF WsInv, WsTypeOK
<1>12. OpenOK' /\ AcceptOK'
  BY <1>3, OpenKept
<1>13. QED
  BY <1>1, <1>5, <1>7, <1>8, <1>10, <1>11, <1>12 DEF WsInv, NothingIgnored, Gap

\* A frame in the priority channel.
LEMMA PrioritiseInv ==
  ASSUME WsInv, NEW e \in Ends, NEW f \in Frame, Prioritise(e, f), cut \subseteq cut', UNCHANGED wire,
         f.t # "stream", f.t = "reset" => <<e, f.s>> \in cut', f.t = "stop" => <<Peer(e), f.s>> \in cut',
         \A h \in Half : stop'[h] => stop[h]
  PROVE  prio' \in [Ends -> Seq(Frame)] /\ CutOK'
<1>1. /\ prio' \in [Ends -> Seq(Frame)] /\ \A x \in Ends : x # e => prio'[x] = prio[x]
      /\ \A g \in ToSet(prio'[e]) : g \in ToSet(prio[e]) \/ g = f
  <2>1. CASE Alive(e)
    <3>1. prio'[e] = Append(prio[e], f) /\ prio[e] \in Seq(Frame)
      BY <2>1 DEF Prioritise, WsInv, WsTypeOK
    <3>2. QED
      BY <2>1, <3>1, AppendFrames DEF Prioritise, WsInv, WsTypeOK
  <2>2. CASE ~Alive(e)
    BY <2>2 DEF Prioritise, WsInv, WsTypeOK
  <2>3. QED
    BY <2>1, <2>2
<1>2. \A x \in Ends : \A g \in ToSet(prio'[x]) : g \in ToSet(prio[x]) \/ (x = e /\ g = f)
  BY <1>1
<1>3. QED
  BY <1>1, <1>2 DEF WsInv, CutOK

\* The steps of a SendStream: finish, drop, reset, and the answer to STOP_SENDING.
LEMMA SendStreamInv ==
  ASSUME WsInv, NEW h \in Half, RecvStop(h) \/ Finish(h) \/ DropSend(h) \/ ResetSend(h)
  PROVE  WsInv'
<1> DEFINE e == h[1]
           s == h[2]
<1>1. /\ e \in Ends /\ s \in Stream /\ h = <<e, s>>
      /\ send[h] = "open" /\ s \notin spilled[e] /\ spilled \in [Ends -> SUBSET Stream]
  <2>1. e \in Ends /\ s \in Stream /\ h = <<e, s>>
    BY HalfFacts
  <2>2. send[h] = "open"
    BY DEF RecvStop, Finish, DropSend, ResetSend
  <2>3. spilled \in [Ends -> SUBSET Stream] /\ FramesOK(e)
    BY <2>1 DEF WsInv, WsTypeOK
  <2> HIDE DEF e, s
  <2>4. s \notin spilled[e]
    BY <2>1, <2>2, <2>3 DEF FramesOK
  <2>5. QED
    BY <2>1, <2>2, <2>3, <2>4
<1>2. Reset(s) \in Frame /\ Reset(s).t = "reset" /\ Reset(s).s = s
  BY <1>1, FrameFacts
<1>3. CASE RecvStop(h)
  <2>1. h \in cut /\ \A g \in Half : stop'[g] => stop[g]
    BY <1>3 DEF RecvStop, WsInv, CutOK, WsTypeOK
  <2>2. stop' \in [Half -> BOOLEAN]
    BY <1>3 DEF RecvStop, WsInv, WsTypeOK
  <2>3. prio' \in [Ends -> Seq(Frame)] /\ CutOK'
    <3>1. Prioritise(e, Reset(s)) /\ UNCHANGED <<wire, cut>>
      BY <1>3 DEF RecvStop, ghostVars
    <3> HIDE DEF e, s
    <3>2. QED
      BY <1>1, <1>2, <2>1, <3>1, PrioritiseInv
  <2>4. QED
    BY <1>1, <1>3, <2>1, <2>2, <2>3, LeaveOpen DEF RecvStop, tableVars, recvVars, ghostVars
<1>4. CASE ResetSend(h)
  <2>1. prio' \in [Ends -> Seq(Frame)] /\ CutOK'
    BY <1>1, <1>2, <1>4, PrioritiseInv DEF ResetSend
  <2>2. stop' \in [Half -> BOOLEAN]
    BY <1>4 DEF ResetSend, WsInv, WsTypeOK
  <2>3. QED
    BY <1>1, <1>4, <2>1, <2>2, LeaveOpen DEF ResetSend, tableVars, recvVars, ghostVars
<1>5. CASE (Finish(h) \/ DropSend(h)) /\ Room(e)
  <2>1. [spilled EXCEPT ![e] = @ \ {s}] = spilled
    BY <1>1
  <2>2. QED
    BY <1>1, <1>5, <2>1, QueueFin DEF Finish, DropSend, tableVars, recvVars, ghostVars
<1>6. CASE (Finish(h) \/ DropSend(h)) /\ ~Room(e)
  <2>1. \/ UNCHANGED spilled
        \/ spilled' = [spilled EXCEPT ![e] = @ \cup {s}]
    BY <1>1, <1>6 DEF Finish, DropSend
  <2>2. /\ UNCHANGED <<creating, outbound, prio, stop, wire, recvTab, accept, recv, inbox, log,
                       written, ghostVars>>
        /\ send' = [send EXCEPT ![h] = "fin"]
    BY <1>6 DEF Finish, DropSend, tableVars, recvVars, ghostVars
  <2>3. CutOK' /\ prio' \in [Ends -> Seq(Frame)] /\ stop' \in [Half -> BOOLEAN]
    BY <2>2 DEF WsInv, CutOK, WsTypeOK, ghostVars
  <2>4. QED
    BY <1>1, <2>1, <2>2, <2>3, LeaveOpen DEF ghostVars
<1>7. QED
  BY <1>3, <1>4, <1>5, <1>6

\* The task that finish spawned queues the FIN.
LEMMA SpillInv ==
  ASSUME WsInv, NEW e \in Ends, Spill(e)
  PROVE  WsInv'
<1>1. PICK s \in spilled[e] :
        /\ outbound' = [outbound EXCEPT ![e] = Append(@, Data(s, FIN))]
        /\ spilled' = [spilled EXCEPT ![e] = @ \ {s}]
  BY DEF Spill
<1>2. s \in Stream /\ <<e, s>> \in Half /\ send[<<e, s>>] = "fin"
  BY <1>1 DEF WsInv, FramesOK, WsTypeOK
<1> DEFINE h == <<e, s>>
<1>3. h[1] = e /\ h[2] = s /\ h \in Half
  BY <1>2
<1>4. [send EXCEPT ![h] = "fin"] = send
  BY <1>2 DEF WsInv, WsTypeOK
<1>5. /\ send' = [send EXCEPT ![h] = "fin"]
      /\ UNCHANGED <<creating, prio, wire, recvTab, accept, stop, recv, inbox, log, written, cut,
                     ignored, early>>
  BY <1>4 DEF Spill, tableVars, sendVars, recvVars, ghostVars
<1>6. QED
  BY <1>1, <1>3, <1>5, QueueFin

-----------------------------------------------------------------------------
(* RecvStream and Session *)

\* Frames that stay where they are stay in order.
LEMMA FramesKept ==
  ASSUME WsInv, UNCHANGED <<wire, outbound, spilled, written>>, early \subseteq early',
         \A g \in Half : send'[g] = send[g] \/ send[g] = "none",
         \A x \in Ends : \A s \in creating'[x] : s \in creating[x] \/ send[<<x, s>>] = "none"
  PROVE  /\ \A x \in Ends : OrderOK(x)' /\ FramesOK(x)'
         /\ \A g \in Half : OnItsWay(g)' = OnItsWay(g)
<1>1. \A x \in Ends : OrderOK(x)'
  BY DEF WsInv, OrderOK
<1>2. \A g \in Half : OnItsWay(g)' = OnItsWay(g)
  BY DEF OnItsWay, Pipe
<1>3. ASSUME NEW x \in Ends PROVE FramesOK(x)'
  <2>1. Pipe(x)' = Pipe(x) /\ ToSet(wire[x]) \subseteq Pipe(x)
    BY DEF Pipe
  <2>2. FramesOK(x)
    BY DEF WsInv
  <2>3. ASSUME NEW f \in Pipe(x), f.t = "stream"
        PROVE  /\ <<x, f.s>> \in Half /\ f.d <= written[<<x, f.s>>] /\ send'[<<x, f.s>>] # "none"
               /\ f.d = FIN => send'[<<x, f.s>>] = "fin" /\ f.s \notin spilled[x]
    BY <2>2, <2>3 DEF FramesOK
  <2>4. \A s \in spilled[x] : <<x, s>> \in Half /\ send'[<<x, s>>] = "fin"
    BY <2>2 DEF FramesOK
  <2>5. ASSUME NEW f \in ToSet(wire[x]), f.t = "stream", f.s \in Bi
        PROVE  f.s \notin creating'[x] \/ f.s \in early'
    <3>1. (f.s \notin creating[x] \/ f.s \in early) /\ send[<<x, f.s>>] # "none"
      BY <2>1, <2>2, <2>5 DEF FramesOK
    <3>2. QED
      BY <3>1
  <2>6. QED
    BY <2>1, <2>3, <2>4, <2>5 DEF FramesOK
<1>4. QED
  BY <1>1, <1>2, <1>3

\* A RecvStream is given up: reset, stopped, dropped, or without a backend.
LEMMA GiveUp ==
  ASSUME WsInv, NEW h \in Half, NEW i \in Incarnation, recv[h][i] = "open",
         recv' = [recv EXCEPT ![h][i] = "failed"], cut \subseteq cut',
         CutOK', prio' \in [Ends -> Seq(Frame)],
         UNCHANGED <<creating, outbound, spilled, wire, recvTab, accept, send, stop, inbox, log,
                     written, ignored, early>>
  PROVE  WsInv'
<1>1. /\ recv' \in [Half -> [Incarnation -> {"none", "queued", "open", "end", "failed"}]]
      /\ recv'[h][i] = "failed" /\ \A j \in Incarnation : j # i => recv'[h][j] = recv[h][j]
      /\ \A g \in Half : g # h => recv'[g] = recv[g]
  BY Update DEF WsInv, WsTypeOK
<1>2. \A g \in Half : \A j \in Incarnation :
        recv'[g][j] = recv[g][j] \/ (recv'[g][j] = "failed" /\ recv[g][j] = "open")
  BY <1>1
<1>3. 1 \in Incarnation
  BY DEF Incarnation
<1>4. OpenOK' /\ AcceptOK'
  <2>1. \A g \in Half : /\ \A j \in Incarnation : recv'[g][j] = "none" <=> recv[g][j] = "none"
                        /\ recv'[g][1] = "queued" <=> recv[g][1] = "queued"
    BY <1>2, <1>3
  <2>2. QED
    BY <2>1, OpenKept
<1>5. /\ \A x \in Ends : OrderOK(x)' /\ FramesOK(x)'
      /\ \A g \in Half : OnItsWay(g)' = OnItsWay(g)
  BY FramesKept
<1>6. ASSUME NEW g \in Half PROVE HalfOK(g)'
  <2>1. /\ recv'[g][1] = "end" => recv[g][1] = "end"
        /\ \A j \in Incarnation : recv'[g][j] = "none" <=> recv[g][j] = "none"
    BY <1>2, <1>3
  <2>2. QED
    BY <1>5, <2>1, HalfKept DEF WsInv
<1>7. WsTypeOK'
  BY <1>1 DEF WsInv, WsTypeOK
<1>8. QED
  BY <1>4, <1>5, <1>6, <1>7 DEF WsInv, NothingIgnored, Gap

\* read_chunk that fails, stop and drop.
LEMMA GiveUpInv ==
  ASSUME WsInv, NEW h \in Half, NEW i \in Incarnation,
         ReadFail(h, i) \/ StopRecv(h, i) \/ DropRecv(h, i)
  PROVE  WsInv'
<1>1. CASE ReadFail(h, i) \/ DropRecv(h, i)
  <2>1. /\ recv[h][i] = "open" /\ recv' = [recv EXCEPT ![h][i] = "failed"]
        /\ UNCHANGED <<creating, outbound, prio, spilled, wire, recvTab, accept, send, stop, inbox,
                       log, written, cut, ignored, early>>
    BY <1>1 DEF ReadFail, DropRecv, queueVars, tableVars, sendVars, ghostVars
  <2>2. CutOK' /\ prio' \in [Ends -> Seq(Frame)]
    BY <2>1 DEF WsInv, CutOK, WsTypeOK
  <2>3. QED
    BY <2>1, <2>2, GiveUp
<1>2. CASE StopRecv(h, i)
  <2>1. /\ recv[h][i] = "open" /\ recv' = [recv EXCEPT ![h][i] = "failed"]
        /\ Prioritise(Reader(h), Stop(h[2])) /\ cut' = cut \cup {h}
        /\ UNCHANGED <<creating, outbound, spilled, wire, recvTab, accept, send, stop, inbox,
                       log, written, ignored, early>>
    BY <1>2 DEF StopRecv, tableVars, sendVars, ghostVars
  <2>2. /\ Stop(h[2]) \in Frame /\ Stop(h[2]).t = "stop" /\ Stop(h[2]).s = h[2]
        /\ Reader(h) \in Ends /\ <<Peer(Reader(h)), h[2]>> = h
    BY HalfFacts, FrameFacts, EndFacts
  <2>3. CutOK' /\ prio' \in [Ends -> Seq(Frame)]
    BY <2>1, <2>2, PrioritiseInv
  <2>4. QED
    BY <2>1, <2>3, GiveUp
<1>3. QED
  BY <1>1, <1>2

\* read_chunk of the first RecvStream: its half.
LEMMA ReadHalf ==
  ASSUME WsInv, NEW h \in Half, Read(h, 1), GotOK(h), LiveOK(h)
  PROVE  HalfOK(h)'
<1> DEFINE q == inbox[h][1]
           l == log[h][1]
<1>1. /\ q \in Seq(Nat) /\ l \in Seq(Nat) /\ Len(q) \in Nat /\ Len(l) \in Nat
      /\ 1 \in Incarnation /\ HalfOK(h) /\ recv[h][1] = "open"
  BY GotType DEF WsInv, Incarnation, Read
<1>2. /\ q # <<>> /\ Head(q) = q[1] /\ Tail(q) \in Seq(Nat) /\ Len(q) # 0 /\ Head(q) \in Nat
      /\ Len(Tail(q)) = Len(q) - 1 /\ \A m \in 1 .. (Len(q) - 1) : Tail(q)[m] = q[m + 1]
  <2>1. q # <<>>
    BY DEF Read
  <2>2. QED
    BY <1>1, <2>1, TailFrames
<1>3. inbox'[h][1] = Tail(q)
  BY <1>1 DEF Read, WsInv, WsTypeOK
<1>4. /\ OnItsWay(h)' = OnItsWay(h)
      /\ UNCHANGED <<creating, spilled, recvTab, send, written, cut>>
  BY DEF Read, OnItsWay, Pipe, queueVars, tableVars, sendVars, ghostVars
<1>5. /\ \A n \in 1 .. Len(l) : l[n] = n
      /\ \A n \in 1 .. Len(q) :
           \/ q[n] = Len(l) + n
           \/ /\ q[n] = FIN /\ n = Len(q)
              /\ (Len(l) + n) - 1 = written[h] /\ send[h] = "fin"
  BY DEF GotOK
<1>6. 1 \in 1 .. Len(q)
  BY <1>1, <1>2
<1>7. CASE Head(q) = FIN
  <2>1. log'[h][1] = l /\ recv'[h][1] = "end" /\ recv'[h][2] = recv[h][2]
    BY <1>1, <1>7 DEF Read, WsInv, WsTypeOK, Incarnation
  <2>2. Len(q) = 1 /\ Len(l) = written[h] /\ send[h] = "fin"
    <3>1. q[1] = FIN /\ q[1] # Len(l) + 1
      BY <1>1, <1>2, <1>7 DEF FIN
    <3>2. 1 = Len(q) /\ (Len(l) + 1) - 1 = written[h] /\ send[h] = "fin"
      BY <1>5, <1>6, <3>1
    <3>3. QED
      BY <1>1, <3>2
  <2>3. ~Live(h) /\ ~Live(h)'
    <3>1. ~Live(h)
      BY <1>2, <1>6, <1>7 DEF LiveOK
    <3>2. QED
      BY <1>1, <1>4, <2>1, <3>1 DEF Live
  <2>4. GotOK(h)'
    <3>1. Len(Tail(q)) = 0 /\ 1 .. 0 = {}
      BY <1>2, <2>2
    <3>2. QED
      BY <1>3, <1>4, <1>5, <2>1, <2>2, <3>1 DEF GotOK
  <2>5. LiveOK(h)' /\ QuietOK(h)' /\ TabOK(h)'
    BY <1>1, <1>4, <2>1, <2>3 DEF HalfOK, LiveOK, QuietOK, TabOK
  <2>6. QED
    BY <2>4, <2>5 DEF HalfOK
<1>8. CASE Head(q) # FIN
  <2>1. log'[h][1] = Append(l, Head(q)) /\ recv' = recv
    BY <1>1, <1>8 DEF Read, WsInv, WsTypeOK
  <2>2. Head(q) = Len(l) + 1
    BY <1>2, <1>5, <1>6, <1>8
  <2>3. /\ Len(Append(l, Head(q))) = Len(l) + 1 /\ Append(l, Head(q))[Len(l) + 1] = Len(l) + 1
        /\ \A n \in 1 .. Len(l) : Append(l, Head(q))[n] = l[n]
    BY <1>1, <1>2, <2>2, AppendFrames
  <2> HIDE DEF q, l
  <2>4. \A n \in 1 .. (Len(l) + 1) : Append(l, Head(q))[n] = n
    BY <1>1, <1>5, <2>3
  <2>5. ASSUME NEW n \in 1 .. (Len(q) - 1)
        PROVE  \/ Tail(q)[n] = (Len(l) + 1) + n
               \/ /\ Tail(q)[n] = FIN /\ n = Len(q) - 1
                  /\ ((Len(l) + 1) + n) - 1 = written[h] /\ send[h] = "fin"
    <3>1. n + 1 \in 1 .. Len(q) /\ Tail(q)[n] = q[n + 1]
      BY <1>1, <1>2
    <3>2. CASE q[n + 1] = Len(l) + (n + 1)
      BY <1>1, <3>1, <3>2
    <3>3. CASE /\ q[n + 1] = FIN /\ n + 1 = Len(q)
               /\ (Len(l) + (n + 1)) - 1 = written[h] /\ send[h] = "fin"
      BY <1>1, <3>1, <3>3
    <3>4. QED
      BY <1>5, <3>1, <3>2, <3>3
  <2>6. GotOK(h)'
    <3>1. \A n \in 1 .. Len(log'[h][1]) : log'[h][1][n] = n
      BY <2>1, <2>3, <2>4
    <3>2. \A n \in 1 .. Len(inbox'[h][1]) :
            \/ inbox'[h][1][n] = Len(log'[h][1]) + n
            \/ /\ inbox'[h][1][n] = FIN /\ n = Len(inbox'[h][1])
               /\ (Len(log'[h][1]) + n) - 1 = written'[h] /\ send'[h] = "fin"
      BY <1>2, <1>3, <1>4, <2>1, <2>3, <2>5
    <3>3. recv'[h][1] = "open"
      BY <1>1, <2>1
    <3>4. QED
      BY <3>1, <3>2, <3>3 DEF GotOK
  <2>7. Got(h)' = Got(h) /\ (Live(h)' <=> Live(h))
    <3>1. Got(h)' = (Len(l) + 1) + (Len(q) - 1) /\ Got(h) = Len(l) + Len(q)
      BY <1>2, <1>3, <2>1, <2>3 DEF Got, q, l
    <3>2. QED
      BY <1>1, <1>4, <2>1, <3>1 DEF Live
  <2>8. LiveOK(h)'
    <3>1. Live(h) => \A n \in 1 .. (Len(q) - 1) : Tail(q)[n] # FIN
      <4>1. \A n \in 1 .. (Len(q) - 1) : n + 1 \in 1 .. Len(q)
        BY <1>1
      <4>2. Live(h) => \A n \in 1 .. Len(q) : q[n] # FIN
        BY DEF LiveOK, q
      <4>3. QED
        BY <1>2, <4>1, <4>2
    <3>2. QED
      BY <1>2, <1>3, <1>4, <2>7, <3>1 DEF LiveOK
  <2>9. QuietOK(h)' /\ TabOK(h)'
    BY <1>1, <1>4, <2>1, <2>7 DEF HalfOK, QuietOK, TabOK
  <2>10. QED
    BY <2>6, <2>8, <2>9 DEF HalfOK
<1>9. QED
  BY <1>7, <1>8

\* read_chunk: the chunk in front, or the end.
LEMMA ReadInv ==
  ASSUME WsInv, NEW h \in Half, NEW i \in Incarnation, Read(h, i)
  PROVE  WsInv'
<1>1. /\ UNCHANGED <<creating, outbound, prio, spilled, wire, recvTab, accept, send, stop, written,
                     cut, ignored, early>>
      /\ recv[h][i] = "open" /\ inbox[h][i] # <<>>
  BY DEF Read, queueVars, tableVars, sendVars, ghostVars
<1>2. inbox[h][i] \in Seq(Nat) /\ log[h][i] \in Seq(Nat)
  BY DEF WsInv, WsTypeOK
<1>3. /\ Tail(inbox[h][i]) \in Seq(Nat) /\ Head(inbox[h][i]) \in Nat
      /\ Append(log[h][i], Head(inbox[h][i])) \in Seq(Nat)
  BY <1>1, <1>2
<1>4. /\ inbox' \in [Half -> [Incarnation -> Seq(Nat)]]
      /\ \A j \in Incarnation : j # i => inbox'[h][j] = inbox[h][j]
      /\ \A g \in Half : g # h => inbox'[g] = inbox[g]
  BY <1>3, Update DEF Read, WsInv, WsTypeOK
<1>5. /\ log' \in [Half -> [Incarnation -> Seq(Nat)]]
      /\ \A j \in Incarnation : j # i => log'[h][j] = log[h][j]
      /\ \A g \in Half : g # h => log'[g] = log[g]
  <2>1. CASE Head(inbox[h][i]) = FIN
    BY <2>1 DEF Read, WsInv, WsTypeOK
  <2>2. CASE Head(inbox[h][i]) # FIN
    <3>1. log' = [log EXCEPT ![h][i] = Append(log[h][i], Head(inbox[h][i]))]
      BY <2>2 DEF Read, WsInv, WsTypeOK
    <3>2. QED
      BY <1>3, <3>1, Update DEF WsInv, WsTypeOK
  <2>3. QED
    BY <2>1, <2>2
<1>6. /\ recv' \in [Half -> [Incarnation -> {"none", "queued", "open", "end", "failed"}]]
      /\ recv'[h][i] \in {"open", "end"} /\ \A j \in Incarnation : j # i => recv'[h][j] = recv[h][j]
      /\ \A g \in Half : g # h => recv'[g] = recv[g]
  <2>1. CASE Head(inbox[h][i]) = FIN
    <3>1. recv' = [recv EXCEPT ![h][i] = "end"]
      BY <2>1 DEF Read
    <3>2. QED
      BY <3>1, Update DEF WsInv, WsTypeOK
  <2>2. CASE Head(inbox[h][i]) # FIN
    BY <1>1, <2>2 DEF Read, WsInv, WsTypeOK
  <2>3. QED
    BY <2>1, <2>2
<1>7. 1 \in Incarnation
  BY DEF Incarnation
<1>8. \A g \in Half : /\ \A j \in Incarnation : recv'[g][j] = "none" <=> recv[g][j] = "none"
                      /\ recv'[g][1] = "queued" <=> recv[g][1] = "queued"
  BY <1>1, <1>6, <1>7
<1>9. OpenOK' /\ AcceptOK'
  BY <1>1, <1>8, OpenKept
<1>10. /\ \A x \in Ends : OrderOK(x)' /\ FramesOK(x)'
       /\ \A g \in Half : OnItsWay(g)' = OnItsWay(g)
  BY <1>1, FramesKept
<1>11. ASSUME NEW g \in Half PROVE HalfOK(g)'
  <2>1. CASE g = h /\ i = 1
    <3>1. HalfOK(h)
      BY DEF WsInv
    <3>2. CASE GotOK(h) /\ LiveOK(h)
      BY <2>1, <3>2, ReadHalf
    <3>3. CASE Gap(h)
      <4>1. recv'[h][1] # "none" /\ (Live(h)' <=> Live(h)) /\ OnItsWay(h)' = OnItsWay(h)
        BY <1>1, <1>6, <1>10, <2>1 DEF Live
      <4>2. recv[h][1] # "none" /\ recv'[h][2] = recv[h][2]
        BY <1>1, <1>6, <2>1 DEF Incarnation
      <4>3. Gap(h)' /\ QuietOK(h)' /\ TabOK(h)'
        BY <1>1, <3>1, <3>3, <4>1, <4>2 DEF HalfOK, Gap, QuietOK, TabOK
      <4>4. QED
        BY <2>1, <4>3 DEF HalfOK
    <3>4. QED
      BY <3>1, <3>2, <3>3 DEF HalfOK
  <2>2. CASE g # h \/ i # 1
    <3>1. inbox'[g][1] = inbox[g][1] /\ log'[g][1] = log[g][1] /\ recv'[g][1] = recv[g][1]
      BY <1>4, <1>5, <1>6, <1>7, <2>2
    <3>2. QED
      BY <1>1, <1>8, <1>10, <3>1, HalfKept DEF WsInv
  <2>3. QED
    BY <2>1, <2>2
<1>12. WsTypeOK' /\ CutOK'
  BY <1>1, <1>4, <1>5, <1>6 DEF WsInv, WsTypeOK, CutOK
<1>13. QED
  BY <1>1, <1>9, <1>10, <1>11, <1>12 DEF WsInv, NothingIgnored, Gap

\* The RecvStreams that wait to be accepted.
LEMMA QueuedFacts ==
  ASSUME WsInv, NEW e \in Ends, NEW k \in {"uni", "bi"}
  PROVE  /\ accept[e][k] \in Seq(Queued)
         /\ \A a \in ToSet(accept[e][k]) :
              /\ a \in Queued /\ a.s \in Stream /\ a.i \in Incarnation /\ <<Peer(e), a.s>> \in Half
              /\ Initiator[a.s] = Peer(e) /\ Kind(a.s) = k
              /\ recv[<<Peer(e), a.s>>][a.i] # "none"
              /\ a.i = 1 => recv[<<Peer(e), a.s>>][1] = "queued"
<1>1. accept[e][k] \in Seq(Queued)
  BY DEF WsInv, WsTypeOK
<1>2. ASSUME NEW a \in ToSet(accept[e][k])
      PROVE  a \in Queued /\ a.s \in Stream /\ a.i \in Incarnation
  <2>1. a \in Queued
    BY <1>1, <1>2 DEF ToSet
  <2>2. QED
    BY <2>1 DEF Queued
<1>3. ASSUME NEW a \in ToSet(accept[e][k])
      PROVE  /\ Initiator[a.s] = Peer(e) /\ Kind(a.s) = k
             /\ recv[<<Peer(e), a.s>>][a.i] # "none"
             /\ a.i = 1 => recv[<<Peer(e), a.s>>][1] = "queued"
  BY <1>3 DEF WsInv, AcceptOK
<1>4. QED
  BY <1>1, <1>2, <1>3, HalfFacts, EndFacts

\* accept_uni and accept_bi: the RecvStream in front, which no later entry names.
LEMMA AcceptInv ==
  ASSUME WsInv, NEW e \in Ends, NEW k \in {"uni", "bi"}, Accept(e, k)
  PROVE  WsInv'
<1> DEFINE q == accept[e][k]
           a == Head(q)
           h == <<Peer(e), a.s>>
           r == <<e, a.s>>
<1>1. /\ q # <<>> /\ recv' = [recv EXCEPT ![h][a.i] = "open"]
      /\ accept' = [accept EXCEPT ![e][k] = Tail(q)]
      /\ send' = IF k = "bi" /\ a.i = 1 THEN [send EXCEPT ![r] = "open"] ELSE send
      /\ UNCHANGED <<creating, outbound, prio, spilled, wire, recvTab, stop, written, inbox, log,
                     cut, ignored, early>>
  BY DEF Accept, queueVars, WsInv, WsTypeOK, ghostVars
<1>2. /\ q \in Seq(Queued) /\ Tail(q) \in Seq(Queued) /\ ToSet(q) = ToSet(Tail(q)) \cup {a}
      /\ Len(q) \in Nat \ {0} /\ Len(Tail(q)) = Len(q) - 1 /\ a = q[1]
      /\ \A n \in 1 .. (Len(q) - 1) : Tail(q)[n] = q[n + 1]
  BY <1>1, QueuedFacts, TailFrames
<1>3. /\ a \in Queued /\ a.s \in Stream /\ a.i \in Incarnation /\ h \in Half
      /\ Initiator[a.s] = Peer(e) /\ Kind(a.s) = k /\ recv[h][a.i] # "none"
      /\ a.i = 1 => recv[h][1] = "queued"
  <2>1. a \in ToSet(q)
    BY <1>2
  <2> HIDE DEF a
  <2>2. QED
    BY <2>1, QueuedFacts, Zenon
<1>4. /\ Peer(e) \in Ends /\ Peer(e) # e /\ Peer(Peer(e)) = e /\ 1 \in Incarnation
      /\ k = "bi" => a.s \in Bi /\ r \in Half
  BY <1>3, EndFacts, HalfFacts DEF Kind, Stream, Incarnation
<1>5. k = "bi" /\ a.i = 1 => send[r] = "none"
  <2> SUFFICES ASSUME k = "bi", a.i = 1 PROVE send[r] = "none"
    OBVIOUS
  <2>1. recv[h][1] = "queued" /\ a.s \in Bi
    BY <1>3, <1>4
  <2> HIDE DEF a
  <2>2. QED
    BY <1>3, <1>4, <2>1 DEF WsInv, OpenOK
<1> HIDE DEF a, q
<1>6. /\ recv' \in [Half -> [Incarnation -> {"none", "queued", "open", "end", "failed"}]]
      /\ recv'[h][a.i] = "open" /\ \A j \in Incarnation : j # a.i => recv'[h][j] = recv[h][j]
      /\ \A g \in Half : g # h => recv'[g] = recv[g]
  <2> HIDE DEF h
  <2>1. recv \in [Half -> [Incarnation -> {"none", "queued", "open", "end", "failed"}]]
    BY DEF WsInv, WsTypeOK
  <2>2. QED
    BY <1>1, <1>3, <2>1, Update
<1>7. /\ send' \in [Half -> {"none", "open", "fin", "closed"}]
      /\ \A g \in Half : g # r => send'[g] = send[g]
      /\ \A g \in Half : send'[g] = send[g] \/ (send[g] = "none" /\ g = r /\ a.i = 1)
  <2>1. CASE k = "bi" /\ a.i = 1
    BY <1>1, <1>4, <1>5, <2>1 DEF WsInv, WsTypeOK
  <2>2. CASE ~(k = "bi" /\ a.i = 1)
    BY <1>1, <2>2 DEF WsInv, WsTypeOK
  <2>3. QED
    BY <2>1, <2>2
<1>8. /\ accept' \in [Ends -> [{"uni", "bi"} -> Seq(Queued)]] /\ accept'[e][k] = Tail(q)
      /\ \A y \in {"uni", "bi"} : y # k => accept'[e][y] = accept[e][y]
      /\ \A x \in Ends : x # e => accept'[x] = accept[x]
  BY <1>1, <1>2, Update DEF WsInv, WsTypeOK
<1>9. ASSUME NEW x \in Ends, NEW y \in {"uni", "bi"}, NEW b \in ToSet(accept'[x][y])
      PROVE  /\ Initiator[b.s] = Peer(x) /\ Kind(b.s) = y
             /\ recv'[<<Peer(x), b.s>>][b.i] # "none"
             /\ b.i = 1 => recv'[<<Peer(x), b.s>>][1] = "queued"
  <2>1. b \in ToSet(accept[x][y])
    BY <1>2, <1>8, <1>9 DEF q
  <2>2. /\ b \in Queued /\ b.s \in Stream /\ b.i \in Incarnation /\ <<Peer(x), b.s>> \in Half
        /\ Initiator[b.s] = Peer(x) /\ Kind(b.s) = y
        /\ recv[<<Peer(x), b.s>>][b.i] # "none"
        /\ b.i = 1 => recv[<<Peer(x), b.s>>][1] = "queued"
    BY <2>1, QueuedFacts
  <2>3. recv'[<<Peer(x), b.s>>][b.i] # "none"
    BY <1>6, <2>2
  <2>4. ASSUME b.i = 1, a.i = 1, <<Peer(x), b.s>> = h PROVE FALSE
    <3>1. b.s = a.s /\ x = e /\ y = k
      BY <1>3, <1>4, <2>2, <2>4, EndFacts
    <3>2. b = a
      BY <1>3, <2>2, <2>4, <3>1 DEF Queued
    <3>3. PICK n \in 1 .. (Len(q) - 1) : q[n + 1] = a
      <4>1. a \in ToSet(Tail(q)) /\ DOMAIN Tail(q) = 1 .. (Len(q) - 1)
        <5>1. a \in ToSet(Tail(q))
          BY <1>8, <1>9, <3>1, <3>2
        <5>2. QED
          BY <1>2, <5>1
      <4>2. QED
        BY <1>2, <4>1 DEF ToSet
    <3>4. 1 \in 1 .. Len(q) /\ n + 1 \in 1 .. Len(q) /\ n + 1 # 1
      BY <1>2
    <3>5. \A m, l \in 1 .. Len(q) : q[m] = q[l] /\ q[m].i = 1 => m = l
      BY DEF WsInv, AcceptOK, q
    <3>6. QED
      BY <1>2, <2>4, <3>3, <3>4, <3>5
  <2>5. b.i = 1 => recv'[<<Peer(x), b.s>>][1] = "queued"
    BY <1>4, <1>6, <2>2, <2>4
  <2>6. QED
    BY <2>2, <2>3, <2>5
<1>10. ASSUME NEW x \in Ends, NEW y \in {"uni", "bi"},
              NEW m \in 1 .. Len(accept'[x][y]), NEW n \in 1 .. Len(accept'[x][y]),
              accept'[x][y][m] = accept'[x][y][n], accept'[x][y][m].i = 1
       PROVE  m = n
  <2>1. \A u, v \in 1 .. Len(accept[x][y]) :
          accept[x][y][u] = accept[x][y][v] /\ accept[x][y][u].i = 1 => u = v
    BY DEF WsInv, AcceptOK
  <2>2. CASE x = e /\ y = k
    <3>1. /\ m + 1 \in 1 .. Len(q) /\ n + 1 \in 1 .. Len(q)
          /\ Tail(q)[m] = q[m + 1] /\ Tail(q)[n] = q[n + 1]
      BY <1>2, <1>8, <2>2
    <3>2. m + 1 = n + 1
      <4>1. q[m + 1] = q[n + 1] /\ q[m + 1].i = 1
        BY <1>8, <1>10, <2>2, <3>1
      <4>2. \A u, v \in 1 .. Len(q) : q[u] = q[v] /\ q[u].i = 1 => u = v
        BY <2>1, <2>2 DEF q
      <4>3. QED
        BY <3>1, <4>1, <4>2
    <3>3. QED
      BY <1>2, <1>8, <2>2, <3>2
  <2>3. CASE ~(x = e /\ y = k)
    <3>1. accept'[x][y] = accept[x][y]
      BY <1>8, <2>3
    <3>2. QED
      BY <1>10, <2>1, <3>1, Zenon
  <2>4. QED
    BY <2>2, <2>3
<1>11. AcceptOK'
  BY <1>9, <1>10, AcceptStep, Zenon
<1>12. OpenOK'
  <2> SUFFICES ASSUME NEW x \in Ends, NEW s \in Stream, Initiator[s] = x
               PROVE  /\ s \notin creating[Peer(x)]
                      /\ s \in creating[x] => send'[<<x, s>>] # "none"
                      /\ s \in Bi \cap creating[x] => recv'[<<x, s>>][1] = "none" \/ s \in early
                      /\ send'[<<x, s>>] = "none" => recv'[<<x, s>>][1] = "none"
                      /\ s \in Bi =>
                           /\ send'[<<x, s>>] # "none" <=> recv'[<<Peer(x), s>>][1] # "none"
                           /\ recv'[<<x, s>>][1] \in {"none", "queued"} => send'[<<Peer(x), s>>] = "none"
    BY <1>1 DEF OpenOK
  <2>1. <<x, s>> \in Half /\ (s \in Bi => <<Peer(x), s>> \in Half)
    BY HalfFacts, EndFacts
  <2>2. send'[<<x, s>>] = send[<<x, s>>]
    BY <1>3, <1>4, <1>7, <2>1
  <2>3. \A g \in Half : recv'[g][1] = "none" <=> recv[g][1] = "none"
    BY <1>3, <1>4, <1>6
  <2>4. s \in Bi /\ recv'[<<x, s>>][1] \in {"none", "queued"} => send'[<<Peer(x), s>>] = "none"
    <3> SUFFICES ASSUME s \in Bi, recv'[<<x, s>>][1] \in {"none", "queued"}
                 PROVE  send'[<<Peer(x), s>>] = "none"
      OBVIOUS
    <3>1. recv'[<<x, s>>][1] = recv[<<x, s>>][1] /\ ~(<<x, s>> = h /\ a.i = 1)
      BY <1>4, <1>6, <2>1
    <3>2. send[<<Peer(x), s>>] = "none"
      BY <3>1 DEF WsInv, OpenOK
    <3>3. ~(<<Peer(x), s>> = r /\ a.i = 1)
      BY <3>1, EndFacts
    <3>4. QED
      BY <1>7, <2>1, <3>2, <3>3
  <2>5. QED
    BY <2>1, <2>2, <2>3, <2>4 DEF WsInv, OpenOK
<1>13. /\ \A x \in Ends : OrderOK(x)' /\ FramesOK(x)'
       /\ \A g \in Half : OnItsWay(g)' = OnItsWay(g)
  BY <1>1, <1>7, FramesKept
<1>14. ASSUME NEW g \in Half PROVE HalfOK(g)'
  <2>1. /\ recv'[g][1] = "end" => recv[g][1] = "end"
        /\ \A j \in Incarnation : recv'[g][j] = "none" <=> recv[g][j] = "none"
    BY <1>3, <1>4, <1>6
  <2>2. send'[g] = send[g] \/ send[g] = "none"
    BY <1>7
  <2>3. QED
    BY <1>1, <1>13, <2>1, <2>2, HalfKept DEF WsInv
<1>15. WsTypeOK' /\ CutOK'
  BY <1>1, <1>6, <1>7, <1>8 DEF WsInv, WsTypeOK, CutOK
<1>16. QED
  BY <1>1, <1>11, <1>12, <1>13, <1>14, <1>15 DEF WsInv, NothingIgnored, Gap

\* open_uni and open_bi: nothing was sent or answered yet.
LEMMA OpenInv ==
  ASSUME WsInv, NEW e \in Ends, NEW s \in Stream, Open(e, s)
  PROVE  WsInv'
<1> DEFINE h == <<e, s>>
           r == <<Peer(e), s>>
<1>1. /\ Initiator[s] = e /\ send[h] = "none"
      /\ creating' = [creating EXCEPT ![e] = @ \cup {s}]
      /\ send' = [send EXCEPT ![h] = "open"]
      /\ recv' = IF s \in Bi THEN [recv EXCEPT ![r][1] = "open"] ELSE recv
      /\ UNCHANGED <<outbound, prio, spilled, wire, recvTab, accept, stop, written, inbox, log, cut,
                     ignored, early>>
  BY DEF Open, tableVars, ghostVars
<1>2. /\ Peer(e) \in Ends /\ Peer(e) # e /\ Peer(Peer(e)) = e /\ h \in Half /\ (s \in Bi => r \in Half)
      /\ 1 \in Incarnation /\ h # r /\ (r \in Half => s \in Bi)
      /\ h[1] = e /\ h[2] = s /\ Reader(h) = Peer(e) /\ r[1] = Peer(e) /\ r[2] = s /\ Reader(r) = e
  BY <1>1, EndFacts, HalfFacts DEF Incarnation
<1>3. /\ recv[h][1] = "none" /\ s \notin creating[Peer(e)]
      /\ s \in Bi => recv[r][1] = "none" /\ send[r] = "none"
  BY <1>1, <1>2 DEF WsInv, OpenOK
<1>4. /\ send' \in [Half -> {"none", "open", "fin", "closed"}] /\ send'[h] = "open"
      /\ \A g \in Half : g # h => send'[g] = send[g]
  BY <1>1, <1>2 DEF WsInv, WsTypeOK
<1>5. /\ creating' \in [Ends -> SUBSET Stream] /\ creating'[e] = creating[e] \cup {s}
      /\ creating'[Peer(e)] = creating[Peer(e)]
      /\ \A x \in Ends : x # e => creating'[x] = creating[x]
  BY <1>1, <1>2 DEF WsInv, WsTypeOK
<1>6. /\ recv' \in [Half -> [Incarnation -> {"none", "queued", "open", "end", "failed"}]]
      /\ s \in Bi => recv'[r][1] = "open" /\ \A j \in Incarnation : j # 1 => recv'[r][j] = recv[r][j]
      /\ \A g \in Half : g # r => recv'[g] = recv[g]
  <2> HIDE DEF r
  <2>1. recv \in [Half -> [Incarnation -> {"none", "queued", "open", "end", "failed"}]]
    BY DEF WsInv, WsTypeOK
  <2>2. CASE s \in Bi
    BY <1>1, <1>2, <2>1, <2>2, Update
  <2>3. CASE s \notin Bi
    BY <1>1, <2>1, <2>3
  <2>4. QED
    BY <2>2, <2>3
<1>7. /\ \A x \in Ends : OrderOK(x)' /\ FramesOK(x)'
      /\ \A g \in Half : OnItsWay(g)' = OnItsWay(g)
  <2>1. \A x \in Ends : \A y \in creating'[x] : y \in creating[x] \/ send[<<x, y>>] = "none"
    BY <1>1, <1>5
  <2>2. \A g \in Half : send'[g] = send[g] \/ send[g] = "none"
    BY <1>1, <1>4
  <2>3. QED
    BY <1>1, <2>1, <2>2, FramesKept
<1>8. OpenOK'
  <2> SUFFICES ASSUME NEW x \in Ends, NEW y \in Stream, Initiator[y] = x
               PROVE  /\ y \notin creating'[Peer(x)]
                      /\ y \in creating'[x] => send'[<<x, y>>] # "none"
                      /\ y \in Bi \cap creating'[x] => recv'[<<x, y>>][1] = "none" \/ y \in early
                      /\ send'[<<x, y>>] = "none" => recv'[<<x, y>>][1] = "none"
                      /\ y \in Bi =>
                           /\ send'[<<x, y>>] # "none" <=> recv'[<<Peer(x), y>>][1] # "none"
                           /\ recv'[<<x, y>>][1] \in {"none", "queued"} => send'[<<Peer(x), y>>] = "none"
    BY <1>1 DEF OpenOK
  <2>1. <<x, y>> \in Half /\ (y \in Bi => <<Peer(x), y>> \in Half) /\ Peer(x) \in Ends
    BY HalfFacts, EndFacts
  <2>2. CASE y = s
    <3>1. x = e /\ <<x, y>> = h /\ <<Peer(x), y>> = r
      BY <1>1, <2>2
    <3>2. recv'[h][1] = "none" /\ send'[h] = "open" /\ s \notin creating'[Peer(e)]
      BY <1>2, <1>3, <1>4, <1>5, <1>6
    <3>3. s \in Bi => recv'[r][1] = "open" /\ send'[r] = "none"
      BY <1>2, <1>3, <1>4, <1>6
    <3> HIDE DEF h, r
    <3>4. QED
      BY <2>2, <3>1, <3>2, <3>3
  <2>3. CASE y # s
    <3>1. /\ send'[<<x, y>>] = send[<<x, y>>] /\ recv'[<<x, y>>] = recv[<<x, y>>]
          /\ y \in Bi => /\ send'[<<Peer(x), y>>] = send[<<Peer(x), y>>]
                         /\ recv'[<<Peer(x), y>>] = recv[<<Peer(x), y>>]
          /\ y \in creating'[x] <=> y \in creating[x]
          /\ y \in creating'[Peer(x)] <=> y \in creating[Peer(x)]
      BY <1>4, <1>5, <1>6, <2>1, <2>3
    <3>2. QED
      BY <3>1 DEF WsInv, OpenOK
  <2>4. QED
    BY <2>2, <2>3
<1>9. AcceptOK'
  <2>1. ASSUME NEW x \in Ends, NEW k \in {"uni", "bi"}, NEW a \in ToSet(accept'[x][k])
        PROVE  /\ Initiator[a.s] = Peer(x) /\ Kind(a.s) = k
               /\ recv'[<<Peer(x), a.s>>][a.i] # "none"
               /\ a.i = 1 => recv'[<<Peer(x), a.s>>][1] = "queued"
    <3>1. /\ a.s \in Stream /\ a.i \in Incarnation /\ <<Peer(x), a.s>> \in Half
          /\ Initiator[a.s] = Peer(x) /\ Kind(a.s) = k
          /\ recv[<<Peer(x), a.s>>][a.i] # "none"
          /\ a.i = 1 => recv[<<Peer(x), a.s>>][1] = "queued"
      <4>1. a \in ToSet(accept[x][k])
        BY <1>1
      <4>2. QED
        BY <4>1, QueuedFacts, Zenon
    <3>2. <<Peer(x), a.s>> # r
      BY <1>1, <1>2, <3>1
    <3>3. QED
      BY <1>6, <3>1, <3>2
  <2>2. \A x \in Ends, k \in {"uni", "bi"} : \A m, n \in 1 .. Len(accept'[x][k]) :
          accept'[x][k][m] = accept'[x][k][n] /\ accept'[x][k][m].i = 1 => m = n
    BY <1>1 DEF WsInv, AcceptOK
  <2>3. QED
    BY <2>1, <2>2, AcceptStep, Zenon
<1>10. ASSUME NEW g \in Half PROVE HalfOK(g)'
  <2>1. HalfOK(g) /\ OnItsWay(g)' = OnItsWay(g)
    BY <1>7 DEF WsInv
  <2>2. /\ g = <<g[1], g[2]>> /\ g[1] \in Ends /\ Reader(g) \in Ends /\ Reader(g) = Peer(g[1])
        /\ Reader(g) # g[1]
    BY HalfFacts
  <2>3. CASE g = r
    <3>1. /\ s \in Bi /\ recv[g][1] = "none" /\ recv'[g][1] = "open" /\ s \in creating'[Reader(g)]
          /\ recv'[g][2] = recv[g][2] /\ send'[g] = send[g]
      BY <1>2, <1>3, <1>4, <1>5, <1>6, <2>3 DEF Incarnation
    <3>2. Live(g) /\ Live(g)' /\ Got(g)' = Got(g)
      BY <1>1, <1>2, <2>3, <3>1 DEF Live, Got
    <3>3. recvTab[Reader(g)][g[2]] = 0
      BY <2>1, <3>1 DEF HalfOK, TabOK
    <3>4. (Gap(g) => Gap(g)') /\ (GotOK(g) => GotOK(g)') /\ QuietOK(g)'
      BY <1>1, <3>1, <3>2 DEF Gap, GotOK, QuietOK
    <3>5. LiveOK(g) => LiveOK(g)'
      BY <1>1, <2>1, <3>2 DEF LiveOK
    <3>6. TabOK(g)'
      BY <1>1, <2>1, <3>1, <3>3 DEF HalfOK, TabOK
    <3>7. QED
      BY <2>1, <3>4, <3>5, <3>6 DEF HalfOK
  <2>4. CASE g # r
    <3>1. recv'[g] = recv[g] /\ (send'[g] = send[g] \/ send[g] = "none")
      BY <1>1, <1>4, <1>6, <2>4
    <3>2. g[2] \in creating'[Reader(g)] <=> g[2] \in creating[Reader(g)]
      <4>1. CASE Reader(g) = e /\ g[2] = s
        BY <2>2, <2>4, <4>1, EndFacts
      <4>2. CASE ~(Reader(g) = e /\ g[2] = s)
        BY <1>5, <2>2, <4>2
      <4>3. QED
        BY <4>1, <4>2
    <3>3. QED
      BY <1>1, <2>1, <3>1, <3>2, HalfKept
  <2>5. QED
    BY <2>3, <2>4
<1>11. WsTypeOK' /\ CutOK'
  BY <1>1, <1>4, <1>5, <1>6 DEF WsInv, WsTypeOK, CutOK
<1>12. QED
  BY <1>1, <1>7, <1>8, <1>9, <1>10, <1>11 DEF WsInv, NothingIgnored, Gap

-----------------------------------------------------------------------------
(* The backend *)

\* A creation is entered in the tables before anything is sent on the stream.
LEMMA TakeCreateInv ==
  ASSUME WsInv, NEW e \in Ends, TakeCreate(e)
  PROVE  WsInv'
<1>1. PICK s \in creating[e] :
        /\ creating' = [creating EXCEPT ![e] = @ \ {s}]
        /\ recvTab' = [recvTab EXCEPT ![e][s] = IF s \in Bi THEN 1 ELSE @]
  BY DEF TakeCreate
<1>2. UNCHANGED <<outbound, prio, spilled, wire, accept, send, stop, written, recv, inbox, log, cut,
                  ignored, early>>
  BY DEF TakeCreate, sendVars, recvVars, ghostVars
<1>3. /\ s \in Stream /\ Peer(e) \in Ends /\ Peer(e) # e /\ Peer(Peer(e)) = e
  BY <1>1, EndFacts DEF WsInv, WsTypeOK
<1>4. Initiator[s] = e /\ send[<<e, s>>] # "none" /\ (s \in Bi => recv[<<Peer(e), s>>][1] # "none")
  <2>1. Initiator[s] = e
    <3>1. Initiator[s] \in Ends /\ (Initiator[s] = e \/ Initiator[s] = Peer(e))
      BY <1>3, HalfFacts, EndFacts
    <3>2. QED
      BY <1>1, <1>3, <3>1 DEF WsInv, OpenOK
  <2>2. QED
    BY <1>1, <1>3, <2>1 DEF WsInv, OpenOK
<1>5. /\ creating' \in [Ends -> SUBSET Stream] /\ creating'[e] = creating[e] \ {s}
      /\ \A x \in Ends : x # e => creating'[x] = creating[x]
      /\ \A x \in Ends : creating'[x] \subseteq creating[x]
  BY <1>1 DEF WsInv, WsTypeOK
<1>6. /\ recvTab' \in [Ends -> [Stream -> 0 .. 2]] /\ (s \in Bi => recvTab'[e][s] = 1)
      /\ \A y \in Stream : y # s => recvTab'[e][y] = recvTab[e][y]
      /\ \A x \in Ends : x # e => recvTab'[x] = recvTab[x]
  <2>1. recvTab \in [Ends -> [Stream -> 0 .. 2]] /\ recvTab[e][s] \in 0 .. 2 /\ 1 \in 0 .. 2
    BY <1>3 DEF WsInv, WsTypeOK
  <2>2. CASE s \in Bi
    <3>1. recvTab' = [recvTab EXCEPT ![e][s] = 1]
      BY <1>1, <2>2
    <3>2. QED
      BY <1>3, <2>1, <3>1, Update
  <2>3. CASE s \notin Bi
    <3>1. recvTab' = recvTab
      BY <1>1, <2>1, <2>3
    <3>2. QED
      BY <2>1, <2>3, <3>1
  <2>4. QED
    BY <2>2, <2>3
<1>7. /\ \A x \in Ends : OrderOK(x)' /\ FramesOK(x)'
      /\ \A g \in Half : OnItsWay(g)' = OnItsWay(g)
  BY <1>2, <1>5, FramesKept
<1>8. OpenOK'
  <2> SUFFICES ASSUME NEW x \in Ends, NEW y \in Stream, Initiator[y] = x
               PROVE  /\ y \notin creating'[Peer(x)]
                      /\ y \in creating'[x] => send[<<x, y>>] # "none"
                      /\ y \in Bi \cap creating'[x] => recv[<<x, y>>][1] = "none" \/ y \in early
                      /\ send[<<x, y>>] = "none" => recv[<<x, y>>][1] = "none"
                      /\ y \in Bi =>
                           /\ send[<<x, y>>] # "none" <=> recv[<<Peer(x), y>>][1] # "none"
                           /\ recv[<<x, y>>][1] \in {"none", "queued"} => send[<<Peer(x), y>>] = "none"
    BY <1>2 DEF OpenOK
  <2>1. Peer(x) \in Ends
    BY EndFacts
  <2>2. QED
    BY <1>5, <2>1 DEF WsInv, OpenOK
<1>9. ASSUME NEW g \in Half PROVE HalfOK(g)'
  <2>1. HalfOK(g) /\ OnItsWay(g)' = OnItsWay(g)
    BY <1>7 DEF WsInv
  <2>2. /\ g = <<g[1], g[2]>> /\ g[1] \in Ends /\ g[2] \in Stream /\ Reader(g) \in Ends
        /\ Reader(g) = Peer(g[1]) /\ Peer(Reader(g)) = g[1] /\ (Initiator[g[2]] # g[1] => g[2] \in Bi)
    BY HalfFacts, EndFacts
  <2>3. CASE Reader(g) = e /\ g[2] = s
    <3>1. /\ s \in Bi /\ recv[g][1] # "none" /\ recvTab'[Reader(g)][g[2]] = 1
          /\ s \notin creating'[Reader(g)] /\ s \in creating[Reader(g)]
      BY <1>1, <1>3, <1>4, <1>5, <1>6, <2>2, <2>3
    <3>2. Live(g) /\ Live(g)' /\ Got(g)' = Got(g)
      BY <1>2, <2>3, <3>1 DEF Live, Got
    <3>3. (Gap(g) => Gap(g)') /\ (GotOK(g) => GotOK(g)') /\ QuietOK(g)'
      BY <1>2, <3>2 DEF Gap, GotOK, QuietOK
    <3>4. LiveOK(g) => LiveOK(g)'
      BY <1>2, <2>1, <3>2 DEF LiveOK
    <3>5. TabOK(g)'
      BY <1>2, <2>1, <2>3, <3>1 DEF HalfOK, TabOK
    <3>6. QED
      BY <2>1, <3>3, <3>4, <3>5 DEF HalfOK
  <2>4. CASE ~(Reader(g) = e /\ g[2] = s)
    <3>1. /\ recvTab'[Reader(g)][g[2]] = recvTab[Reader(g)][g[2]]
          /\ g[2] \in creating'[Reader(g)] <=> g[2] \in creating[Reader(g)]
      BY <1>5, <1>6, <2>2, <2>4
    <3>2. QED
      BY <1>2, <2>1, <3>1, HalfKept
  <2>5. QED
    BY <2>3, <2>4
<1>10. WsTypeOK' /\ CutOK'
  BY <1>2, <1>5, <1>6 DEF WsInv, WsTypeOK, CutOK
<1>11. AcceptOK'
  BY <1>2, SMTT(30) DEF WsInv, AcceptOK
<1>12. QED
  BY <1>2, <1>7, <1>8, <1>9, <1>10, <1>11 DEF WsInv, NothingIgnored, Gap

\* A half that was cut may be forgotten by its reader's backend.
LEMMA Forget ==
  ASSUME NEW h \in Half, HalfOK(h), h \in cut', OnItsWay(h)' = OnItsWay(h),
         recvTab'[Reader(h)][h[2]] = 0,
         UNCHANGED <<creating, spilled, send, recv, inbox, log, written>>, early \subseteq early'
  PROVE  HalfOK(h)'
<1>1. Got(h)' = Got(h) /\ (Live(h)' => Live(h))
  BY DEF Got, Live
<1>2. (Gap(h) => Gap(h)') /\ (GotOK(h) => GotOK(h)') /\ TabOK(h)' /\ QuietOK(h)'
  BY DEF HalfOK, Gap, GotOK, TabOK, QuietOK
<1>3. LiveOK(h) => LiveOK(h)'
  BY <1>1 DEF LiveOK
<1>4. QED
  BY <1>2, <1>3 DEF HalfOK

\* A priority frame goes out; STOP_SENDING makes the backend forget the stream.
LEMMA SendPriorityInv ==
  ASSUME WsInv, NEW e \in Ends, SendPriority(e)
  PROVE  WsInv'
<1> DEFINE f == Head(prio[e])
<1>1. /\ prio[e] # <<>> /\ wire' = [wire EXCEPT ![e] = Append(@, f)]
      /\ prio' = [prio EXCEPT ![e] = Tail(@)]
      /\ recvTab' = IF f.t = "stop" THEN [recvTab EXCEPT ![e][f.s] = 0] ELSE recvTab
      /\ early' = early \cup {y \in creating[e] \cap Bi : f.t = "stream" /\ f.s = y}
      /\ UNCHANGED <<creating, outbound, spilled, accept, send, stop, written, recv, inbox, log, cut,
                     ignored>>
  BY DEF SendPriority, SendFrame, sendVars, recvVars, ghostVars
<1>2. /\ f \in Frame /\ f \in ToSet(prio[e]) /\ Tail(prio[e]) \in Seq(Frame)
      /\ ToSet(Tail(prio[e])) \subseteq ToSet(prio[e])
  BY <1>1, ChannelTypes, TailFrames DEF WsInv
<1>3. /\ f.t # "stream" /\ (f.t = "reset" => <<e, f.s>> \in cut)
      /\ f.t = "stop" => <<Peer(e), f.s>> \in cut /\ f.s \in Stream
  BY <1>2, FrameFacts DEF WsInv, CutOK
<1>4. early' = early
  BY <1>1, <1>3
<1> HIDE DEF f
<1>5. /\ wire' \in [Ends -> Seq(Frame)] /\ wire'[e] = Append(wire[e], f) /\ wire[e] \in Seq(Frame)
      /\ \A x \in Ends : x # e => wire'[x] = wire[x]
      /\ prio' \in [Ends -> Seq(Frame)] /\ prio'[e] = Tail(prio[e])
      /\ \A x \in Ends : x # e => prio'[x] = prio[x]
  BY <1>1, <1>2 DEF WsInv, WsTypeOK
<1>6. ToSet(wire'[e]) = ToSet(wire[e]) \cup {f}
  BY <1>2, <1>5, AppendFrames
<1>7. Pipe(e)' = Pipe(e) \cup {f} /\ \A x \in Ends : x # e => Pipe(x)' = Pipe(x)
  BY <1>1, <1>5, <1>6 DEF Pipe
<1>8. ASSUME NEW g \in Half PROVE OnItsWay(g)' = OnItsWay(g)
  <2>1. g[1] \in Ends
    BY HalfFacts
  <2>2. QED
    BY <1>3, <1>7, <2>1 DEF OnItsWay
<1>9. ASSUME NEW x \in Ends PROVE OrderOK(x)'
  <2>1. OrderOK(x)
    BY DEF WsInv
  <2>2. CASE x = e
    <3>1. \A g : Before(g, f) /\ Before(f, g)
      BY <1>3 DEF Before
    <3>2. InOrder(Append(wire[e], f))
      BY <1>2, <1>5, <2>1, <2>2, <3>1, AppendInOrder DEF OrderOK
    <3>3. QED
      BY <1>1, <1>5, <1>6, <2>1, <2>2, <3>1, <3>2 DEF OrderOK
  <2>3. CASE x # e
    BY <1>1, <1>5, <2>1, <2>3 DEF OrderOK
  <2>4. QED
    BY <2>2, <2>3
<1>10. ASSUME NEW x \in Ends PROVE FramesOK(x)'
  <2>1. FramesOK(x)
    BY DEF WsInv
  <2>2. \A g \in Pipe(x)' : g.t = "stream" => g \in Pipe(x)
    BY <1>3, <1>7
  <2>3. \A g \in ToSet(wire[x])' : g.t = "stream" => g \in ToSet(wire[x])
    BY <1>3, <1>5, <1>6
  <2>4. QED
    BY <1>4, <1>1, <2>1, <2>2, <2>3 DEF FramesOK
<1>11. CutOK'
  <2>1. \A x \in Ends : \A g \in ToSet(wire'[x]) \cup ToSet(prio'[x]) :
          g \in ToSet(wire[x]) \cup ToSet(prio[x]) /\ (g \in ToSet(prio'[x]) => g \in ToSet(prio[x]))
    BY <1>2, <1>5, <1>6
  <2>2. QED
    BY <1>1, <2>1 DEF WsInv, CutOK
<1>12. /\ recvTab' \in [Ends -> [Stream -> 0 .. 2]]
       /\ f.t = "stop" => recvTab'[e][f.s] = 0
       /\ \A x \in Ends, y \in Stream :
            recvTab'[x][y] = recvTab[x][y] \/ (x = e /\ y = f.s /\ f.t = "stop")
  <2>1. recvTab \in [Ends -> [Stream -> 0 .. 2]] /\ 0 \in 0 .. 2
    BY DEF WsInv, WsTypeOK
  <2>2. CASE f.t = "stop"
    <3>1. recvTab' = [recvTab EXCEPT ![e][f.s] = 0] /\ f.s \in Stream
      BY <1>1, <1>3, <2>2
    <3>2. QED
      BY <2>1, <2>2, <3>1, Update
  <2>3. CASE f.t # "stop"
    BY <1>1, <2>1, <2>3
  <2>4. QED
    BY <2>2, <2>3
<1>13. ASSUME NEW g \in Half PROVE HalfOK(g)'
  <2>1. /\ HalfOK(g) /\ OnItsWay(g)' = OnItsWay(g) /\ g = <<g[1], g[2]>> /\ g[2] \in Stream
        /\ Reader(g) \in Ends /\ Peer(Reader(g)) = g[1]
    BY <1>8, HalfFacts, EndFacts DEF WsInv
  <2>2. CASE Reader(g) = e /\ g[2] = f.s /\ f.t = "stop"
    BY <1>4, <1>1, <1>3, <1>12, <2>1, <2>2, Forget
  <2>3. CASE ~(Reader(g) = e /\ g[2] = f.s /\ f.t = "stop")
    <3>1. recvTab'[Reader(g)][g[2]] = recvTab[Reader(g)][g[2]]
      BY <1>12, <2>1, <2>3
    <3>2. QED
      BY <1>4, <1>1, <2>1, <3>1, HalfKept
  <2>4. QED
    BY <2>2, <2>3
<1>14. WsTypeOK'
  BY <1>1, <1>5, <1>12 DEF WsInv, WsTypeOK
<1>15. OpenOK' /\ AcceptOK'
  BY <1>4, <1>1, OpenKept
<1>16. QED
  BY <1>4, <1>1, <1>9, <1>10, <1>11, <1>13, <1>14, <1>15 DEF WsInv, NothingIgnored, Gap

\* The oldest data frame goes out.
LEMMA SendOutboundInv ==
  ASSUME WsInv, NEW e \in Ends, SendOutbound(e)
  PROVE  WsInv'
<1> DEFINE f == Head(outbound[e])
<1>1. /\ outbound[e] # <<>> /\ wire' = [wire EXCEPT ![e] = Append(@, f)]
      /\ outbound' = [outbound EXCEPT ![e] = Tail(@)]
      /\ early' = early \cup {y \in creating[e] \cap Bi : f.t = "stream" /\ f.s = y}
      /\ recvTab' = IF f.t = "stop" THEN [recvTab EXCEPT ![e][f.s] = 0] ELSE recvTab
      /\ UNCHANGED <<creating, prio, spilled, accept, send, stop, written, recv, inbox, log, cut,
                     ignored>>
  BY DEF SendOutbound, SendFrame, sendVars, recvVars, ghostVars
<1>2. /\ f \in DataFrame /\ f \in ToSet(outbound[e]) /\ outbound[e] \in Seq(DataFrame)
      /\ Tail(outbound[e]) \in Seq(DataFrame)
      /\ ToSet(outbound[e]) = ToSet(Tail(outbound[e])) \cup {f}
  BY <1>1, ChannelTypes, TailFrames DEF WsInv
<1>3. f.t = "stream" /\ recvTab' = recvTab /\ f \in Frame
  BY <1>1, <1>2, FrameFacts
<1>4. /\ InOrder(Tail(outbound[e])) /\ \A g \in ToSet(Tail(outbound[e])) : Before(f, g)
  <2>1. OrderOK(e)
    BY DEF WsInv
  <2>2. QED
    BY <1>1, <1>2, <2>1, TailInOrder DEF OrderOK
<1> HIDE DEF f
<1>5. /\ wire' \in [Ends -> Seq(Frame)] /\ wire'[e] = Append(wire[e], f) /\ wire[e] \in Seq(Frame)
      /\ \A x \in Ends : x # e => wire'[x] = wire[x]
      /\ outbound' \in [Ends -> Seq(DataFrame)] /\ outbound'[e] = Tail(outbound[e])
      /\ \A x \in Ends : x # e => outbound'[x] = outbound[x]
  BY <1>1, <1>2, <1>3 DEF WsInv, WsTypeOK
<1>6. ToSet(wire'[e]) = ToSet(wire[e]) \cup {f}
  BY <1>3, <1>5, AppendFrames
<1>7. \A x \in Ends : Pipe(x)' = Pipe(x)
  BY <1>2, <1>5, <1>6 DEF Pipe
<1>8. \A g \in Half : OnItsWay(g)' = OnItsWay(g)
  BY <1>7, HalfFacts DEF OnItsWay
<1>9. ASSUME NEW x \in Ends PROVE OrderOK(x)'
  <2>1. OrderOK(x)
    BY DEF WsInv
  <2>2. CASE x = e
    <3>1. \A g \in ToSet(wire[e]) : Before(g, f)
      BY <1>2, <2>1, <2>2 DEF OrderOK
    <3>2. InOrder(Append(wire[e], f))
      BY <1>3, <1>5, <2>1, <2>2, <3>1, AppendInOrder DEF OrderOK
    <3>3. \A g \in ToSet(wire'[e]), y \in ToSet(Tail(outbound[e])) : Before(g, y)
      BY <1>2, <1>4, <1>6, <2>1, <2>2 DEF OrderOK
    <3>4. QED
      BY <1>4, <1>5, <2>2, <3>2, <3>3 DEF OrderOK
  <2>3. CASE x # e
    BY <1>5, <2>1, <2>3 DEF OrderOK
  <2>4. QED
    BY <2>2, <2>3
<1>10. ASSUME NEW x \in Ends PROVE FramesOK(x)'
  <2>1. FramesOK(x)
    BY DEF WsInv
  <2>2. \A g \in ToSet(wire'[x]) :
          g.t = "stream" /\ g.s \in Bi => g.s \notin creating[x] \/ g.s \in early'
    <3>1. CASE x = e
      BY <1>1, <1>3, <1>6, <2>1, <3>1 DEF FramesOK
    <3>2. CASE x # e
      BY <1>1, <1>5, <2>1, <3>2 DEF FramesOK
    <3>3. QED
      BY <3>1, <3>2
  <2>3. QED
    BY <1>1, <1>7, <2>1, <2>2 DEF FramesOK
<1>11. CutOK'
  <2>1. \A x \in Ends : \A g \in ToSet(wire'[x]) : g \in ToSet(wire[x]) \/ g.t = "stream"
    BY <1>3, <1>5, <1>6
  <2>2. QED
    BY <1>1, <2>1 DEF WsInv, CutOK
<1>12. ASSUME NEW g \in Half PROVE HalfOK(g)'
  BY <1>1, <1>3, <1>8, HalfKept DEF WsInv
<1>13. WsTypeOK'
  BY <1>1, <1>3, <1>5 DEF WsInv, WsTypeOK
<1>14. OpenOK' /\ AcceptOK'
  BY <1>1, OpenKept
<1>15. QED
  BY <1>1, <1>9, <1>10, <1>11, <1>12, <1>13, <1>14 DEF WsInv, NothingIgnored, Gap

\* A frame is taken from the socket: what it leaves behind.
LEMMA TakeInv ==
  ASSUME WsInv, NEW e \in Ends, wire[Peer(e)] # <<>>, Taken(e),
         UNCHANGED <<creating, outbound, prio, spilled, send, written, cut, early>>,
         \A h \in Half : stop'[h] => h \in cut
  PROVE  LET f == Head(wire[Peer(e)])
         IN  /\ wire' \in [Ends -> Seq(Frame)] /\ f \in ToSet(wire[Peer(e)]) /\ f \in Frame
             /\ f \in Pipe(Peer(e))
             /\ \A x \in Ends : OrderOK(x)' /\ FramesOK(x)'
             /\ CutOK'
             /\ \A g \in Half :
                  IF g[1] = Peer(e) /\ f.t = "stream" /\ f.s = g[2]
                  THEN /\ OnItsWay(g) = OnItsWay(g)' \cup {f}
                       /\ \A x \in OnItsWay(g)' : Before(f, x)
                  ELSE OnItsWay(g)' = OnItsWay(g)
<1> DEFINE f == Head(wire[Peer(e)])
<1>1. /\ wire' \in [Ends -> Seq(Frame)] /\ \A x \in Ends : OrderOK(x)'
      /\ f \in ToSet(wire[Peer(e)]) /\ f \in Frame
      /\ \A x \in Ends : Pipe(x)' \subseteq Pipe(x) /\ ToSet(wire[x])' \subseteq ToSet(wire[x])
      /\ \A g \in Half :
           IF g[1] = Peer(e) /\ f.t = "stream" /\ f.s = g[2]
           THEN /\ OnItsWay(g) = OnItsWay(g)' \cup {f}
                /\ \A x \in OnItsWay(g)' : Before(f, x)
           ELSE OnItsWay(g)' = OnItsWay(g)
  <2>1. Peer(e) \in Ends /\ wire' = [wire EXCEPT ![Peer(e)] = Tail(@)]
    BY EndFacts DEF Taken
  <2>2. QED
    BY <2>1, TakeFrame DEF WsInv
<1> HIDE DEF f
<1>2. ASSUME NEW x \in Ends PROVE FramesOK(x)'
  <2>1. FramesOK(x)
    BY DEF WsInv
  <2>2. QED
    BY <1>1, <2>1 DEF FramesOK
<1>3. CutOK'
  BY <1>1 DEF WsInv, CutOK
<1>4. f \in Pipe(Peer(e))
  BY <1>1 DEF Pipe
<1>5. QED
  BY <1>1, <1>2, <1>3, <1>4 DEF f

\* The first RecvStream of a half is given the frame in front: the next chunk, or the
\* end behind the last one.
LEMMA Deliver ==
  ASSUME WsInv, NEW h \in Half, NEW d \in Nat, Live(h), early \subseteq early',
         OnItsWay(h) = OnItsWay(h)' \cup {Data(h[2], d)},
         \A x \in OnItsWay(h)' : Before(Data(h[2], d), x),
         inbox'[h][1] = Append(inbox[h][1], d), log'[h][1] = log[h][1],
         recv'[h][1] # "none", recv'[h][1] = "end" => recv[h][1] = "end", recv'[h][2] = recv[h][2],
         recvTab'[Reader(h)][h[2]] = IF d = FIN THEN 0 ELSE 1,
         h[2] \notin creating'[Reader(h)], UNCHANGED <<spilled, send, written, cut>>
  PROVE  HalfOK(h)'
<1> DEFINE f == Data(h[2], d)
           q == inbox[h][1]
           l == log[h][1]
<1>1. /\ q \in Seq(Nat) /\ l \in Seq(Nat) /\ Len(q) \in Nat /\ Len(l) \in Nat
      /\ Got(h) \in Nat /\ Got(h) = Len(l) + Len(q) /\ HalfOK(h)
      /\ h = <<h[1], h[2]>> /\ h[1] \in Ends /\ h[2] \in Stream /\ written[h] \in Nat
  BY GotType, HalfFacts DEF WsInv, Got, WsTypeOK
<1>2. /\ f.t = "stream" /\ f.s = h[2] /\ f.d = d
      /\ \A c \in Nat : /\ Data(h[2], c).t = "stream" /\ Data(h[2], c).s = h[2]
                        /\ Data(h[2], c).d = c
  BY <1>1, FrameFacts
<1>3. /\ d <= written[h] /\ (d = FIN => send[h] = "fin" /\ h[2] \notin spilled[h[1]])
  <2>1. f \in Pipe(h[1])
    BY DEF OnItsWay
  <2>2. FramesOK(h[1])
    BY <1>1 DEF WsInv
  <2> HIDE DEF f
  <2>3. QED
    BY <1>1, <1>2, <2>1, <2>2 DEF FramesOK
<1>4. \A x \in OnItsWay(h)' : d # FIN /\ x.t = "stream" /\ x.s = h[2] /\ (x.d = FIN \/ d < x.d)
  <2>1. \A x \in OnItsWay(h)' : x.t = "stream" /\ x.s = h[2]
    BY DEF OnItsWay
  <2>2. QED
    BY <1>2, <2>1 DEF Before
<1>5. TabOK(h)'
  <2>1. recvTab'[Reader(h)][h[2]] # 2
    OBVIOUS
  <2>2. TabOK(h)
    BY <1>1 DEF HalfOK
  <2>3. QED
    BY <2>1, <2>2 DEF TabOK
<1>6. QuietOK(h)'
  <2>1. CASE d = FIN
    BY <1>3, <1>4, <2>1 DEF QuietOK
  <2>2. CASE d # FIN
    BY <2>2 DEF QuietOK, Live
  <2>3. QED
    BY <2>1, <2>2
<1>7. HalfOK(h) /\ (Gap(h) => Gap(h)')
  BY <1>1 DEF Gap
<1> SUFFICES ASSUME GotOK(h), LiveOK(h) PROVE GotOK(h)' /\ LiveOK(h)'
  BY <1>5, <1>6, <1>7 DEF HalfOK
<1>8. /\ Got(h) <= written[h] /\ \A n \in 1 .. Len(q) : q[n] # FIN
      /\ \A c \in (Got(h) + 1) .. written[h] : Data(h[2], c) \in OnItsWay(h)
      /\ \A x \in OnItsWay(h) : x.d # FIN => x.d > Got(h)
  BY DEF LiveOK
<1>9. \A c \in Nat : Data(h[2], c) \in OnItsWay(h) /\ c # d => Data(h[2], c) \in OnItsWay(h)'
  BY <1>2
<1>10. /\ Len(Append(q, d)) = Len(q) + 1 /\ Append(q, d)[Len(q) + 1] = d
       /\ \A n \in 1 .. Len(q) : Append(q, d)[n] = q[n]
  BY <1>1, AppendFrames
<1>11. /\ \A n \in 1 .. Len(l) : l[n] = n
       /\ \A n \in 1 .. Len(q) : q[n] = Len(l) + n
       /\ recv[h][1] = "end" => Len(l) = written[h] /\ send[h] = "fin"
  BY <1>1, <1>8 DEF GotOK
<1> HIDE DEF f
<1>12. Got(h)' = Got(h) + 1
  <2>1. Got(h)' = Len(l) + Len(Append(q, d))
    BY DEF Got
  <2>2. \A m, n \in Nat : m + (n + 1) = (m + n) + 1
    OBVIOUS
  <2> HIDE DEF q, l
  <2>3. QED
    BY <1>1, <1>10, <2>1, <2>2
<1> HIDE DEF q, l
<1>13. ASSUME d = FIN \/ d = Got(h) + 1, d = FIN => Got(h) = written[h]
       PROVE  GotOK(h)'
  <2>1. ASSUME NEW n \in 1 .. (Len(q) + 1)
        PROVE  \/ Append(q, d)[n] = Len(l) + n
               \/ /\ Append(q, d)[n] = FIN /\ n = Len(q) + 1
                  /\ (Len(l) + n) - 1 = written[h] /\ send[h] = "fin"
    <3>1. CASE n \in 1 .. Len(q)
      BY <1>10, <1>11, <3>1
    <3>2. CASE n = Len(q) + 1
      BY <1>1, <1>3, <1>10, <1>13, <3>2
    <3>3. QED
      BY <1>1, <3>1, <3>2
  <2>2. QED
    BY <1>10, <1>11, <2>1 DEF GotOK, q, l
<1>14. CASE d = FIN
  <2>1. OnItsWay(h)' = {} /\ ~Live(h)'
    BY <1>4, <1>14 DEF Live
  <2>2. Got(h) = written[h]
    <3>1. \A g, w \in Nat : g <= w => g = w \/ (g + 1 \in (g + 1) .. w /\ g + 1 \in Nat /\ g + 1 # FIN)
      BY DEF FIN
    <3>2. Got(h) + 1 \in Nat /\ Got(h) + 1 # FIN => Data(h[2], Got(h) + 1) \notin OnItsWay(h)
      BY <1>9, <1>14, <2>1
    <3>3. QED
      BY <1>1, <1>8, <3>1, <3>2
  <2>3. GotOK(h)'
    BY <1>13, <1>14, <2>2
  <2>4. LiveOK(h)'
    BY <2>1 DEF LiveOK
  <2>5. QED
    BY <2>3, <2>4
<1>15. CASE d # FIN
  <2>1. d > Got(h)
    BY <1>2, <1>8, <1>15 DEF f
  <2>2. d = Got(h) + 1
    <3>1. SUFFICES ASSUME d # Got(h) + 1, Got(h) + 1 \in (Got(h) + 1) .. written[h],
                          Got(h) + 1 \in Nat, Got(h) + 1 # FIN, ~(d < Got(h) + 1)
                   PROVE  FALSE
      BY <1>1, <1>8, <1>3, <2>1 DEF FIN
    <3>2. Data(h[2], Got(h) + 1) \in OnItsWay(h)' /\ Data(h[2], Got(h) + 1).d = Got(h) + 1
      BY <1>2, <1>8, <1>9, <3>1
    <3>3. QED
      BY <1>4, <3>1, <3>2
  <2>3. GotOK(h)'
    BY <1>13, <1>15, <2>2
  <2>4. Live(h)' /\ Got(h)' <= written[h]
    BY <1>3, <1>12, <1>15, <2>2 DEF Live
  <2>5. \A n \in 1 .. (Len(q) + 1) : Append(q, d)[n] # FIN
    BY <1>1, <1>8, <1>10, <1>15
  <2>6. ASSUME NEW c \in (Got(h)' + 1) .. written[h] PROVE Data(h[2], c) \in OnItsWay(h)'
    <3>1. c \in (Got(h) + 1) .. written[h] /\ c # d /\ c \in Nat
      BY <1>1, <1>12, <2>2
    <3>2. QED
      BY <1>8, <1>9, <3>1
  <2>7. \A x \in OnItsWay(h)' : x.d # FIN => x.d > Got(h)'
    <3>1. \A x \in OnItsWay(h)' : x.d \in Nat
      BY WayTypes DEF WsInv
    <3>2. QED
      BY <1>1, <1>4, <1>12, <2>2, <3>1
  <2>8. LiveOK(h)'
    BY <1>10, <2>4, <2>5, <2>6, <2>7 DEF LiveOK, q
  <2>9. QED
    BY <2>3, <2>8
<1>16. QED
  BY <1>14, <1>15

\* What comes after a cut is not for the first RecvStream any more.
LEMMA AfterCut ==
  ASSUME NEW h \in Half, HalfOK(h), h \in cut, ~Live(h), UNCHANGED <<creating, send, written, cut, early>>,
         inbox'[h][1] = inbox[h][1], log'[h][1] = log[h][1], recv'[h][1] = recv[h][1],
         recvTab'[Reader(h)][h[2]] \in {0, 2}, recv[h][2] # "none" => recv'[h][2] # "none",
         recvTab'[Reader(h)][h[2]] = 2 => recv'[h][2] # "none"
  PROVE  HalfOK(h)'
<1>1. ~Live(h)' /\ recv[h][1] # "none" /\ h[2] \notin creating[Reader(h)]
  BY DEF Live
<1>2. (Gap(h) => Gap(h)') /\ (GotOK(h) => GotOK(h)')
  BY DEF Gap, GotOK
<1>3. LiveOK(h)' /\ QuietOK(h)' /\ TabOK(h)'
  BY <1>1 DEF HalfOK, LiveOK, QuietOK, TabOK
<1>4. QED
  BY <1>2, <1>3 DEF HalfOK

\* A half of which a frame is received.
LEMMA IncomingFacts ==
  ASSUME WsInv, NEW e \in Ends, NEW s \in Stream, NEW d \in Nat, Incoming(e, Data(s, d))
  PROVE  /\ wire[Peer(e)] # <<>> /\ Head(wire[Peer(e)]) = Data(s, d)
         /\ <<Peer(e), s>> \in Half /\ send[<<Peer(e), s>>] # "none"
         /\ s \in Bi => s \notin creating[Peer(e)] \/ s \in early
         /\ Data(s, d) \in OnItsWay(<<Peer(e), s>>)
         /\ <<Peer(e), s>>[1] = Peer(e) /\ <<Peer(e), s>>[2] = s /\ Reader(<<Peer(e), s>>) = e
         /\ Peer(e) \in Ends /\ Peer(e) # e
<1> DEFINE q == Peer(e)
           f == Data(s, d)
<1>1. q \in Ends /\ q # e /\ Peer(q) = e /\ wire[q] # <<>> /\ f = Head(wire[q])
  BY EndFacts DEF Incoming
<1>2. f \in ToSet(wire[q]) /\ f \in Pipe(q)
  BY <1>1, ChannelTypes, TailFrames DEF WsInv, Pipe
<1>3. f.t = "stream" /\ f.s = s
  BY FrameFacts
<1> HIDE DEF f, q
<1>4. /\ <<q, s>> \in Half /\ send[<<q, s>>] # "none"
      /\ s \in Bi => s \notin creating[q] \/ s \in early
  <2>1. FramesOK(q)
    BY <1>1 DEF WsInv
  <2>2. QED
    BY <1>2, <1>3, <2>1 DEF FramesOK
<1>5. <<q, s>>[1] = q /\ <<q, s>>[2] = s /\ Reader(<<q, s>>) = e
  BY <1>1 DEF Reader
<1>6. f \in OnItsWay(<<q, s>>)
  BY <1>2, <1>3, <1>5 DEF OnItsWay
<1>7. QED
  BY <1>1, <1>4, <1>5, <1>6 DEF f, q

\* recv_frame, STREAM, occupied.
LEMMA RecvKnownInv ==
  ASSUME WsInv, NEW e \in Ends, RecvKnown(e)
  PROVE  WsInv'
<1>1. PICK s \in Stream, d \in Nat :
        /\ Incoming(e, Data(s, d)) /\ recvTab[e][s] # 0
        /\ inbox' = [inbox EXCEPT ![<<Peer(e), s>>][recvTab[e][s]] = Append(@, d)]
        /\ recvTab' = [recvTab EXCEPT ![e][s] = IF d = FIN THEN 0 ELSE @]
  <2>1. PICK s \in Stream : \E d \in 0 .. Write[s] :
          /\ Incoming(e, Data(s, d)) /\ recvTab[e][s] # 0
          /\ inbox' = [inbox EXCEPT ![<<Peer(e), s>>][recvTab[e][s]] = Append(@, d)]
          /\ recvTab' = [recvTab EXCEPT ![e][s] = IF d = FIN THEN 0 ELSE @]
    BY DEF RecvKnown
  <2>2. 0 .. Write[s] \subseteq Nat
    BY WsAssumption
  <2>3. QED
    BY <2>1, <2>2
<1>2. /\ Taken(e)
      /\ UNCHANGED <<creating, outbound, prio, spilled, accept, send, stop, written, recv, log, cut,
                     ignored, early>>
  BY DEF RecvKnown, queueVars, sendVars, ghostVars
<1>3. Data(s, d).t = "stream" /\ Data(s, d).s = s
  BY FrameFacts
<1> DEFINE h == <<Peer(e), s>>
           i == recvTab[e][s]
<1>4. /\ wire[Peer(e)] # <<>> /\ Head(wire[Peer(e)]) = Data(s, d) /\ h \in Half
      /\ Data(s, d) \in OnItsWay(h) /\ h[1] = Peer(e) /\ h[2] = s /\ Reader(h) = e
      /\ Peer(e) \in Ends /\ Peer(e) # e
  BY <1>1, IncomingFacts
<1>5. \A x \in Half : stop'[x] => x \in cut
  BY <1>2 DEF WsInv, CutOK
<1>6. /\ wire' \in [Ends -> Seq(Frame)]
      /\ \A x \in Ends : OrderOK(x)' /\ FramesOK(x)'
      /\ CutOK'
      /\ \A g \in Half :
           IF g[1] = Peer(e) /\ g[2] = s
           THEN /\ OnItsWay(g) = OnItsWay(g)' \cup {Data(s, d)}
                /\ \A x \in OnItsWay(g)' : Before(Data(s, d), x)
           ELSE OnItsWay(g)' = OnItsWay(g)
  BY <1>2, <1>3, <1>4, <1>5, TakeInv
<1>7. i \in {1, 2} /\ i \in Incarnation
  <2>1. i \in 0 .. 2
    BY DEF WsInv, WsTypeOK
  <2>2. QED
    BY <1>1, <2>1 DEF Incarnation
<1> HIDE DEF h, i
<1>8. /\ inbox' \in [Half -> [Incarnation -> Seq(Nat)]] /\ inbox'[h][i] = Append(inbox[h][i], d)
      /\ \A j \in Incarnation : j # i => inbox'[h][j] = inbox[h][j]
      /\ \A g \in Half : g # h => inbox'[g] = inbox[g]
  <2>1. inbox \in [Half -> [Incarnation -> Seq(Nat)]] /\ inbox[h][i] \in Seq(Nat)
    BY <1>4, <1>7 DEF WsInv, WsTypeOK
  <2>2. Append(inbox[h][i], d) \in Seq(Nat)
    BY <2>1
  <2>3. inbox' = [inbox EXCEPT ![h][i] = Append(inbox[h][i], d)]
    BY <1>1, <1>4, <1>7, <2>1 DEF h, i
  <2>4. QED
    BY <1>4, <1>7, <2>1, <2>2, <2>3, Update
<1>9. /\ recvTab' \in [Ends -> [Stream -> 0 .. 2]] /\ recvTab'[e][s] = (IF d = FIN THEN 0 ELSE i)
      /\ \A y \in Stream : y # s => recvTab'[e][y] = recvTab[e][y]
      /\ \A x \in Ends : x # e => recvTab'[x] = recvTab[x]
  <2>1. recvTab \in [Ends -> [Stream -> 0 .. 2]] /\ (IF d = FIN THEN 0 ELSE i) \in 0 .. 2
    BY <1>7 DEF WsInv, WsTypeOK
  <2>2. recvTab' = [recvTab EXCEPT ![e][s] = IF d = FIN THEN 0 ELSE i]
    BY <1>1, <2>1 DEF i
  <2>3. QED
    BY <2>1, <2>2, Update
<1>10. HalfOK(h)'
  <2>1. /\ HalfOK(h) /\ recv[h][1] # "none" /\ s \notin creating[e]
        /\ i = 2 => recv[h][2] # "none" /\ h \in cut
    <3>1. HalfOK(h)
      BY <1>4 DEF WsInv
    <3>2. QED
      BY <1>1, <1>4, <3>1 DEF HalfOK, TabOK, i
  <2>2. CASE i = 1
    <3>1. Live(h)
      BY <1>4, <2>2 DEF Live, i
    <3>2. /\ inbox'[h][1] = Append(inbox[h][1], d) /\ log'[h][1] = log[h][1]
          /\ OnItsWay(h) = OnItsWay(h)' \cup {Data(h[2], d)}
          /\ \A x \in OnItsWay(h)' : Before(Data(h[2], d), x)
      BY <1>2, <1>4, <1>6, <1>8, <2>2
    <3>3. recvTab'[Reader(h)][h[2]] = IF d = FIN THEN 0 ELSE 1
      BY <1>4, <1>9, <2>2
    <3>4. QED
      BY <1>2, <1>4, <2>1, <3>1, <3>2, <3>3, Deliver
  <2>3. CASE i = 2
    <3>1. ~Live(h)
      BY <1>4, <2>1, <2>3 DEF Live, i
    <3>2. inbox'[h][1] = inbox[h][1] /\ recvTab'[Reader(h)][h[2]] \in {0, 2}
      BY <1>4, <1>8, <1>9, <2>3 DEF Incarnation
    <3>3. QED
      BY <1>2, <1>4, <2>1, <2>3, <3>1, <3>2, AfterCut
  <2>4. QED
    BY <1>7, <2>2, <2>3
<1>11. ASSUME NEW g \in Half, g # h PROVE HalfOK(g)'
  <2>1. g = <<g[1], g[2]>> /\ g[2] \in Stream /\ Reader(g) \in Ends /\ Peer(Reader(g)) = g[1]
    BY HalfFacts, EndFacts
  <2>2. ~(Reader(g) = e /\ g[2] = s) /\ ~(g[1] = Peer(e) /\ g[2] = s)
    BY <1>11, <2>1 DEF h
  <2>3. /\ recvTab'[Reader(g)][g[2]] = recvTab[Reader(g)][g[2]] /\ OnItsWay(g)' = OnItsWay(g)
        /\ inbox'[g] = inbox[g]
    BY <1>6, <1>8, <1>9, <1>11, <2>1, <2>2
  <2>4. QED
    BY <1>2, <2>3, HalfKept DEF WsInv
<1>12. WsTypeOK'
  BY <1>2, <1>6, <1>8, <1>9 DEF WsInv, WsTypeOK
<1>13. OpenOK' /\ AcceptOK'
  BY <1>2, OpenKept
<1>14. QED
  BY <1>2, <1>6, <1>10, <1>11, <1>12, <1>13 DEF WsInv, NothingIgnored, Gap

\* recv_frame, STREAM, vacant, of a stream that this end opened: it was cut.
LEMMA RecvIgnoredInv ==
  ASSUME WsInv, NEW e \in Ends, RecvIgnored(e)
  PROVE  WsInv'
<1>1. PICK s \in Stream, d \in Nat :
        /\ Incoming(e, Data(s, d)) /\ recvTab[e][s] = 0 /\ Initiator[s] = e
        /\ ignored' = ignored \cup {<<Peer(e), s>>}
  BY WsAssumption DEF RecvIgnored
<1>2. /\ Taken(e)
      /\ UNCHANGED <<creating, outbound, prio, spilled, recvTab, accept, send, stop, written, recv,
                     inbox, log, cut, early>>
  BY DEF RecvIgnored, queueVars, tableVars, sendVars, recvVars, ghostVars
<1>3. Data(s, d).t = "stream" /\ Data(s, d).s = s
  BY FrameFacts
<1> DEFINE h == <<Peer(e), s>>
<1>4. /\ wire[Peer(e)] # <<>> /\ Head(wire[Peer(e)]) = Data(s, d) /\ h \in Half /\ send[h] # "none"
      /\ Data(s, d) \in OnItsWay(h) /\ h[1] = Peer(e) /\ h[2] = s /\ Reader(h) = e
      /\ Peer(e) \in Ends /\ Peer(e) # e
  BY <1>1, IncomingFacts
<1>5. \A x \in Half : stop'[x] => x \in cut
  BY <1>2 DEF WsInv, CutOK
<1>6. /\ wire' \in [Ends -> Seq(Frame)]
      /\ \A x \in Ends : OrderOK(x)' /\ FramesOK(x)'
      /\ CutOK'
      /\ \A g \in Half : ~(g[1] = Peer(e) /\ g[2] = s) => OnItsWay(g)' = OnItsWay(g)
  BY <1>2, <1>3, <1>4, <1>5, TakeInv
<1>7. \/ ~Live(h) /\ h \in cut
      \/ Live(h) /\ Gap(h) /\ s \in creating[e]
  <2>1. s \in Bi
    BY <1>1, <1>4, HalfFacts
  <2>2. /\ recv[<<e, s>>][1] \notin {"none", "queued"} /\ send[<<e, s>>] # "none"
        /\ recv[h][1] # "none"
    BY <1>1, <1>4, <2>1 DEF WsInv, OpenOK
  <2>3. CASE s \in creating[e]
    <3>1. s \in early
      BY <1>1, <2>1, <2>2, <2>3 DEF WsInv, OpenOK
    <3>2. QED
      BY <1>1, <1>4, <2>3, <3>1 DEF Live, Gap
  <2>4. CASE s \notin creating[e]
    <3>1. ~Live(h)
      BY <1>1, <1>4, <2>2, <2>4 DEF Live
    <3>2. HalfOK(h)
      BY <1>4 DEF WsInv
    <3>3. QED
      BY <1>1, <1>4, <3>1, <3>2 DEF HalfOK, QuietOK
  <2>5. QED
    BY <2>3, <2>4
<1>8. HalfOK(h)'
  <2>1. HalfOK(h) /\ recvTab'[Reader(h)][h[2]] = 0
    BY <1>1, <1>2, <1>4 DEF WsInv
  <2> HIDE DEF h
  <2>2. CASE ~Live(h) /\ h \in cut
    BY <1>2, <1>4, <2>1, <2>2, AfterCut
  <2>3. CASE Live(h) /\ Gap(h) /\ s \in creating[e]
    <3>1. Gap(h)' /\ Live(h)'
      BY <1>2, <1>4, <2>3 DEF Gap, Live
    <3>2. TabOK(h)'
      BY <1>2, <2>1 DEF HalfOK, TabOK
    <3>3. QED
      BY <3>1, <3>2 DEF HalfOK, QuietOK
  <2>4. QED
    BY <1>7, <2>2, <2>3
<1>9. ASSUME NEW g \in Half, g # h PROVE HalfOK(g)'
  <2>1. g = <<g[1], g[2]>>
    BY HalfFacts
  <2>2. OnItsWay(g)' = OnItsWay(g)
    BY <1>6, <1>9, <2>1
  <2>3. QED
    BY <1>2, <2>2, HalfKept DEF WsInv
<1>10. WsTypeOK'
  BY <1>2, <1>6 DEF WsInv, WsTypeOK
<1>11. OpenOK' /\ AcceptOK'
  BY <1>2, OpenKept
<1>12. NothingIgnored'
  BY <1>1, <1>2, <1>7 DEF WsInv, NothingIgnored, Gap
<1>13. QED
  BY <1>6, <1>8, <1>9, <1>10, <1>11, <1>12 DEF WsInv

\* recv_frame, RESET_STREAM: the stream was cut.
LEMMA RecvResetInv ==
  ASSUME WsInv, NEW e \in Ends, RecvReset(e)
  PROVE  WsInv'
<1>1. PICK s \in Stream : Incoming(e, Reset(s)) /\ recvTab' = [recvTab EXCEPT ![e][s] = 0]
  BY DEF RecvReset
<1>2. /\ Taken(e)
      /\ UNCHANGED <<creating, outbound, prio, spilled, accept, send, stop, written, recv,
                     inbox, log, cut, ignored, early>>
  BY DEF RecvReset, queueVars, sendVars, ghostVars
<1>3. /\ wire[Peer(e)] # <<>> /\ Head(wire[Peer(e)]) = Reset(s) /\ Peer(e) \in Ends
      /\ Reset(s).t = "reset" /\ Reset(s).s = s
  BY <1>1, EndFacts, FrameFacts DEF Incoming
<1>4. \A x \in Half : stop'[x] => x \in cut
  BY <1>2 DEF WsInv, CutOK
<1>5. /\ wire' \in [Ends -> Seq(Frame)] /\ Reset(s) \in ToSet(wire[Peer(e)])
      /\ \A x \in Ends : OrderOK(x)' /\ FramesOK(x)'
      /\ CutOK'
      /\ \A g \in Half : OnItsWay(g)' = OnItsWay(g)
  BY <1>2, <1>3, <1>4, TakeInv
<1>6. <<Peer(e), s>> \in cut
  BY <1>3, <1>5 DEF WsInv, CutOK
<1>7. /\ recvTab' \in [Ends -> [Stream -> 0 .. 2]] /\ recvTab'[e][s] = 0
      /\ \A y \in Stream : y # s => recvTab'[e][y] = recvTab[e][y]
      /\ \A x \in Ends : x # e => recvTab'[x] = recvTab[x]
  <2>1. recvTab \in [Ends -> [Stream -> 0 .. 2]] /\ 0 \in 0 .. 2
    BY DEF WsInv, WsTypeOK
  <2>2. QED
    BY <1>1, <2>1, Update
<1>8. ASSUME NEW g \in Half PROVE HalfOK(g)'
  <2>1. /\ HalfOK(g) /\ g = <<g[1], g[2]>> /\ g[2] \in Stream /\ Reader(g) \in Ends
        /\ Peer(Reader(g)) = g[1]
    BY HalfFacts, EndFacts DEF WsInv
  <2>2. CASE Reader(g) = e /\ g[2] = s
    BY <1>2, <1>5, <1>6, <1>7, <2>1, <2>2, Forget
  <2>3. CASE ~(Reader(g) = e /\ g[2] = s)
    <3>1. recvTab'[Reader(g)][g[2]] = recvTab[Reader(g)][g[2]]
      BY <1>7, <2>1, <2>3
    <3>2. QED
      BY <1>2, <1>5, <2>1, <3>1, HalfKept
  <2>4. QED
    BY <2>2, <2>3
<1>9. WsTypeOK'
  BY <1>2, <1>5, <1>7 DEF WsInv, WsTypeOK
<1>10. OpenOK' /\ AcceptOK'
  BY <1>2, OpenKept
<1>11. QED
  BY <1>2, <1>5, <1>8, <1>9, <1>10 DEF WsInv, NothingIgnored, Gap

\* recv_frame, STOP_SENDING and CONNECTION_CLOSE.
LEMMA RecvOtherInv ==
  ASSUME WsInv, NEW e \in Ends, RecvStopFrame(e) \/ RecvClose(e)
  PROVE  WsInv'
<1>1. /\ Taken(e)
      /\ UNCHANGED <<creating, outbound, prio, spilled, recvTab, accept, send, written, recv, inbox,
                     log, cut, ignored, early>>
  BY DEF RecvStopFrame, RecvClose, queueVars, tableVars, recvVars, sendVars, ghostVars
<1>2. /\ wire[Peer(e)] # <<>> /\ Head(wire[Peer(e)]).t # "stream" /\ Peer(e) \in Ends
      /\ Peer(Peer(e)) = e /\ Head(wire[Peer(e)]) \in ToSet(wire[Peer(e)])
  <2>1. PICK f : Incoming(e, f) /\ f.t # "stream"
    BY FrameFacts DEF RecvStopFrame, RecvClose
  <2>2. QED
    BY <2>1, EndFacts, ChannelTypes, TailFrames DEF Incoming, WsInv
<1>3. stop' \in [Half -> BOOLEAN] /\ \A x \in Half : stop'[x] => x \in cut
  <2>1. stop \in [Half -> BOOLEAN] /\ \A x \in Half : stop[x] => x \in cut
    BY DEF WsInv, WsTypeOK, CutOK
  <2>2. CASE RecvClose(e)
    BY <2>1, <2>2 DEF RecvClose, sendVars, ghostVars
  <2>3. CASE RecvStopFrame(e)
    <3>1. PICK s \in Stream :
            /\ Incoming(e, Stop(s))
            /\ stop' = IF s \in sendTab[e] THEN [stop EXCEPT ![<<e, s>>] = TRUE] ELSE stop
      BY <2>3 DEF RecvStopFrame
    <3>2. Head(wire[Peer(e)]).t = "stop" /\ Head(wire[Peer(e)]).s = s
      BY <3>1, FrameFacts DEF Incoming
    <3>3. <<e, s>> \in cut
      BY <1>2, <3>2 DEF WsInv, CutOK
    <3>4. QED
      BY <2>1, <3>1, <3>3
  <2>4. QED
    BY <2>2, <2>3
<1>4. /\ wire' \in [Ends -> Seq(Frame)]
      /\ \A x \in Ends : OrderOK(x)' /\ FramesOK(x)'
      /\ CutOK'
      /\ \A g \in Half : OnItsWay(g)' = OnItsWay(g)
  BY <1>1, <1>2, <1>3, TakeInv
<1>5. ASSUME NEW g \in Half PROVE HalfOK(g)'
  BY <1>1, <1>4, HalfKept DEF WsInv
<1>6. WsTypeOK'
  BY <1>1, <1>3, <1>4 DEF WsInv, WsTypeOK
<1>7. OpenOK' /\ AcceptOK'
  BY <1>1, OpenKept
<1>8. QED
  BY <1>1, <1>4, <1>5, <1>6, <1>7 DEF WsInv, NothingIgnored, Gap

\* The frontends and the channels of a session: a backend that waits, starts or ends.
LEMMA Unseen ==
  ASSUME WsInv,
         UNCHANGED <<creating, outbound, spilled, wire, recvTab, accept, send, stop, recv, inbox, log,
                     written, cut, ignored, early>>,
         CutOK', prio' \in [Ends -> Seq(Frame)]
  PROVE  WsInv'
<1>1. /\ \A x \in Ends : OrderOK(x)' /\ FramesOK(x)'
      /\ \A g \in Half : OnItsWay(g)' = OnItsWay(g)
  BY FramesKept
<1>2. ASSUME NEW g \in Half PROVE HalfOK(g)'
  BY <1>1, HalfKept DEF WsInv
<1>3. OpenOK' /\ AcceptOK'
  BY OpenKept
<1>4. WsTypeOK'
  BY DEF WsInv, WsTypeOK
<1>5. QED
  BY <1>1, <1>2, <1>3, <1>4 DEF WsInv, NothingIgnored, Gap

\* What recv_frame does for a new RecvStream, once there is room to have it accepted.
NewRecvStream(e, s, d, i) ==
  /\ accept' = [accept EXCEPT ![e][Kind(s)] = Append(@, [s |-> s, i |-> i])]
  /\ recv' = [recv EXCEPT ![<<Peer(e), s>>][i] = "queued"]
  /\ inbox' = [inbox EXCEPT ![<<Peer(e), s>>][i] = <<d>>]
  /\ log' = [log EXCEPT ![<<Peer(e), s>>][i] = <<>>]
  /\ recvTab' = [recvTab EXCEPT ![e][s] = IF d = FIN THEN 0 ELSE i]
  /\ Taken(e)
  /\ UNCHANGED <<creating, outbound, prio, spilled, send, stop, written, cut, ignored, early>>

\* A second RecvStream, whose frames were on their way when the first was forgotten, is of
\* a stream that was cut; the first is given the first frame.
LEMMA NewRecvStreamInv ==
  ASSUME WsInv, NEW e \in Ends, NEW s \in Stream, NEW d \in Nat, NEW i,
         Incoming(e, Data(s, d)), recvTab[e][s] = 0, Initiator[s] # e,
         i = Newest(<<Peer(e), s>>), NewRecvStream(e, s, d, i)
  PROVE  WsInv'
<1> DEFINE h == <<Peer(e), s>>
           k == Kind(s)
           a == [s |-> s, i |-> i]
<1>1. UNCHANGED <<creating, outbound, prio, spilled, send, stop, written, cut, ignored, early>> /\ Taken(e)
  BY DEF NewRecvStream
<1>2. Data(s, d).t = "stream" /\ Data(s, d).s = s
  BY FrameFacts
<1>3. /\ wire[Peer(e)] # <<>> /\ Head(wire[Peer(e)]) = Data(s, d) /\ h \in Half /\ send[h] # "none"
      /\ s \in Bi => s \notin creating[Peer(e)] \/ s \in early
      /\ Data(s, d) \in OnItsWay(h) /\ h[1] = Peer(e) /\ h[2] = s /\ Reader(h) = e
      /\ Peer(e) \in Ends /\ Peer(e) # e
  BY IncomingFacts
<1>4. \A x \in Half : stop'[x] => x \in cut
  BY <1>1 DEF WsInv, CutOK
<1>5. /\ wire' \in [Ends -> Seq(Frame)]
      /\ \A x \in Ends : OrderOK(x)' /\ FramesOK(x)'
      /\ CutOK'
      /\ \A g \in Half :
           IF g[1] = Peer(e) /\ g[2] = s
           THEN /\ OnItsWay(g) = OnItsWay(g)' \cup {Data(s, d)}
                /\ \A x \in OnItsWay(g)' : Before(Data(s, d), x)
           ELSE OnItsWay(g)' = OnItsWay(g)
  BY <1>1, <1>2, <1>3, <1>4, TakeInv
<1>6. /\ Initiator[s] = Peer(e) /\ Peer(Peer(e)) = e /\ k \in {"uni", "bi"}
      /\ i \in {1, 2} /\ i \in Incarnation /\ 1 \in Incarnation /\ 2 \in Incarnation /\ a \in Queued
      /\ i = 1 <=> recv[h][1] = "none"
  <2>1. i \in {1, 2} /\ i \in Incarnation /\ (i = 1 <=> recv[h][1] = "none")
    BY DEF Newest, Incarnation
  <2>2. a \in Queued
    BY <2>1 DEF Queued
  <2>3. Initiator[s] = Peer(e) /\ Peer(Peer(e)) = e
    BY HalfFacts, EndFacts
  <2>4. QED
    BY <2>1, <2>2, <2>3 DEF Kind, Incarnation
<1>7. s \notin creating[e] /\ HalfOK(h)
  BY <1>3, <1>6 DEF WsInv, OpenOK
<1>8. i = 2 => ~Live(h) /\ h \in cut
  <2> SUFFICES ASSUME i = 2 PROVE ~Live(h) /\ h \in cut
    OBVIOUS
  <2>1. ~Live(h)
    BY <1>3, <1>6, <1>7 DEF Live
  <2>2. QED
    BY <1>3, <1>7, <2>1 DEF HalfOK, QuietOK
<1> HIDE DEF h, k, a
<1>9. /\ recv' \in [Half -> [Incarnation -> {"none", "queued", "open", "end", "failed"}]]
      /\ recv'[h][i] = "queued" /\ \A j \in Incarnation : j # i => recv'[h][j] = recv[h][j]
      /\ \A g \in Half : g # h => recv'[g] = recv[g]
  <2>1. /\ recv \in [Half -> [Incarnation -> {"none", "queued", "open", "end", "failed"}]]
        /\ recv' = [recv EXCEPT ![h][i] = "queued"]
    BY DEF WsInv, WsTypeOK, h, NewRecvStream
  <2>2. QED
    BY <1>3, <1>6, <2>1, Update
<1>10. /\ inbox' \in [Half -> [Incarnation -> Seq(Nat)]]
       /\ inbox'[h][i] = <<d>> /\ \A j \in Incarnation : j # i => inbox'[h][j] = inbox[h][j]
       /\ \A g \in Half : g # h => inbox'[g] = inbox[g]
  <2> DEFINE o == <<d>>
  <2>1. /\ inbox \in [Half -> [Incarnation -> Seq(Nat)]] /\ o \in Seq(Nat)
        /\ inbox' = [inbox EXCEPT ![h][i] = o]
    BY DEF WsInv, WsTypeOK, h, NewRecvStream
  <2> HIDE DEF o
  <2>2. /\ inbox' \in [Half -> [Incarnation -> Seq(Nat)]]
        /\ inbox'[h][i] = o /\ \A j \in Incarnation : j # i => inbox'[h][j] = inbox[h][j]
        /\ \A g \in Half : g # h => inbox'[g] = inbox[g]
    BY <1>3, <1>6, <2>1, Update
  <2>3. QED
    BY <2>2 DEF o
<1>11. /\ log' \in [Half -> [Incarnation -> Seq(Nat)]]
       /\ log'[h][i] = <<>> /\ \A j \in Incarnation : j # i => log'[h][j] = log[h][j]
       /\ \A g \in Half : g # h => log'[g] = log[g]
  <2>1. /\ log \in [Half -> [Incarnation -> Seq(Nat)]] /\ <<>> \in Seq(Nat)
        /\ log' = [log EXCEPT ![h][i] = <<>>]
    BY DEF WsInv, WsTypeOK, h, NewRecvStream
  <2>2. QED
    BY <1>3, <1>6, <2>1, Update
<1>12. /\ recvTab' \in [Ends -> [Stream -> 0 .. 2]] /\ recvTab'[e][s] = (IF d = FIN THEN 0 ELSE i)
       /\ \A y \in Stream : y # s => recvTab'[e][y] = recvTab[e][y]
       /\ \A x \in Ends : x # e => recvTab'[x] = recvTab[x]
  <2>1. recvTab \in [Ends -> [Stream -> 0 .. 2]] /\ (IF d = FIN THEN 0 ELSE i) \in 0 .. 2
    BY <1>6 DEF WsInv, WsTypeOK
  <2>2. recvTab' = [recvTab EXCEPT ![e][s] = IF d = FIN THEN 0 ELSE i]
    BY DEF NewRecvStream
  <2>3. QED
    BY <2>1, <2>2, Update
<1>13. /\ accept' \in [Ends -> [{"uni", "bi"} -> Seq(Queued)]]
       /\ accept'[e][k] = Append(accept[e][k], a) /\ accept[e][k] \in Seq(Queued)
       /\ \A y \in {"uni", "bi"} : y # k => accept'[e][y] = accept[e][y]
       /\ \A x \in Ends : x # e => accept'[x] = accept[x]
  <2>1. /\ accept \in [Ends -> [{"uni", "bi"} -> Seq(Queued)]] /\ accept[e][k] \in Seq(Queued)
    BY <1>6 DEF WsInv, WsTypeOK
  <2>2. accept' = [accept EXCEPT ![e][k] = Append(accept[e][k], a)]
    BY <1>6, <2>1 DEF k, a, NewRecvStream
  <2>3. Append(accept[e][k], a) \in Seq(Queued)
    BY <1>6, <2>1
  <2>4. QED
    BY <1>6, <2>1, <2>2, <2>3, Update
<1>14. HalfOK(h)'
  <2>1. CASE i = 1
    <3>1. recv[h][1] = "none" /\ log[h][1] = <<>> /\ inbox[h][1] = <<>> /\ Live(h)
      BY <1>6, <1>7, <2>1 DEF HalfOK, TabOK, Live
    <3>2. /\ inbox'[h][1] = Append(inbox[h][1], d) /\ log'[h][1] = log[h][1]
          /\ recv'[h][1] = "queued" /\ recv'[h][2] = recv[h][2]
      <4>1. inbox'[h][1] = <<d>> /\ log'[h][1] = <<>> /\ recv'[h][1] = "queued"
        BY <1>9, <1>10, <1>11, <2>1
      <4>2. recv'[h][2] = recv[h][2] /\ Append(<<>>, d) = <<d>>
        BY <1>6, <1>9, <2>1
      <4>3. QED
        BY <3>1, <4>1, <4>2
    <3>3. /\ OnItsWay(h) = OnItsWay(h)' \cup {Data(h[2], d)}
          /\ \A x \in OnItsWay(h)' : Before(Data(h[2], d), x)
          /\ recvTab'[Reader(h)][h[2]] = (IF d = FIN THEN 0 ELSE 1)
          /\ h[2] \notin creating'[Reader(h)]
      BY <1>1, <1>3, <1>5, <1>7, <1>12, <2>1
    <3>4. QED
      BY <1>1, <1>3, <3>1, <3>2, <3>3, Deliver
  <2>2. CASE i = 2
    <3>1. /\ inbox'[h][1] = inbox[h][1] /\ log'[h][1] = log[h][1] /\ recv'[h][1] = recv[h][1]
          /\ recv'[h][2] = "queued" /\ recvTab'[Reader(h)][h[2]] \in {0, 2}
      <4>1. inbox'[h][1] = inbox[h][1] /\ log'[h][1] = log[h][1] /\ recv'[h][1] = recv[h][1]
        <5>1. 1 \in Incarnation /\ 1 # i
          BY <1>6, <2>2
        <5>2. inbox'[h][1] = inbox[h][1]
          BY <1>10, <5>1
        <5>3. log'[h][1] = log[h][1]
          BY <1>11, <5>1
        <5>4. recv'[h][1] = recv[h][1]
          BY <1>9, <5>1
        <5>5. QED
          BY <5>2, <5>3, <5>4
      <4>2. recv'[h][2] = "queued" /\ recvTab'[Reader(h)][h[2]] \in {0, 2}
        BY <1>3, <1>9, <1>12, <2>2
      <4>3. QED
        BY <4>1, <4>2
    <3>2. QED
      BY <1>1, <1>3, <1>7, <1>8, <2>2, <3>1, AfterCut
  <2>3. QED
    BY <1>6, <2>1, <2>2
<1>15. ASSUME NEW g \in Half, g # h PROVE HalfOK(g)'
  <2>1. g = <<g[1], g[2]>> /\ g[2] \in Stream /\ Reader(g) \in Ends /\ Peer(Reader(g)) = g[1]
    BY HalfFacts, EndFacts
  <2>2. ~(Reader(g) = e /\ g[2] = s) /\ ~(g[1] = Peer(e) /\ g[2] = s)
    BY <1>15, <2>1 DEF h
  <2>3. /\ recvTab'[Reader(g)][g[2]] = recvTab[Reader(g)][g[2]] /\ OnItsWay(g)' = OnItsWay(g)
        /\ inbox'[g] = inbox[g] /\ log'[g] = log[g] /\ recv'[g] = recv[g]
    BY <1>5, <1>9, <1>10, <1>11, <1>12, <1>15, <2>1, <2>2
  <2>4. QED
    BY <1>1, <2>3, HalfKept DEF WsInv
<1>16. AcceptOK'
  <2>1. ASSUME NEW x \in Ends, NEW y \in {"uni", "bi"}, NEW b \in ToSet(accept'[x][y])
        PROVE  /\ Initiator[b.s] = Peer(x) /\ Kind(b.s) = y
               /\ recv'[<<Peer(x), b.s>>][b.i] # "none"
               /\ b.i = 1 => recv'[<<Peer(x), b.s>>][1] = "queued"
    <3>1. CASE b \in ToSet(accept[x][y])
      <4>1. /\ b.i \in Incarnation /\ <<Peer(x), b.s>> \in Half
            /\ Initiator[b.s] = Peer(x) /\ Kind(b.s) = y
            /\ recv[<<Peer(x), b.s>>][b.i] # "none"
            /\ b.i = 1 => recv[<<Peer(x), b.s>>][1] = "queued"
        BY <3>1, QueuedFacts
      <4>2. QED
        BY <1>6, <1>9, <4>1
    <3>2. CASE b = a /\ x = e /\ y = k
      <4>1. b.s = s /\ b.i = i /\ h = <<Peer(x), b.s>>
        BY <3>2 DEF a, h
      <4>2. QED
        BY <1>6, <1>9, <3>2, <4>1 DEF k
    <3>3. b \in ToSet(accept[x][y]) \/ (b = a /\ x = e /\ y = k)
      <4>1. ToSet(accept'[e][k]) = ToSet(accept[e][k]) \cup {a}
        BY <1>6, <1>13, AppendFrames
      <4>2. CASE x = e /\ y = k
        BY <2>1, <4>1, <4>2
      <4>3. CASE ~(x = e /\ y = k)
        BY <1>13, <2>1, <4>3
      <4>4. QED
        BY <4>2, <4>3
    <3>4. QED
      BY <3>1, <3>2, <3>3
  <2>2. ASSUME NEW x \in Ends, NEW y \in {"uni", "bi"},
               NEW m \in 1 .. Len(accept'[x][y]), NEW n \in 1 .. Len(accept'[x][y]),
               accept'[x][y][m] = accept'[x][y][n], accept'[x][y][m].i = 1
        PROVE  m = n
    <3>1. \A u, v \in 1 .. Len(accept[x][y]) :
            accept[x][y][u] = accept[x][y][v] /\ accept[x][y][u].i = 1 => u = v
      BY DEF WsInv, AcceptOK
    <3>2. CASE x = e /\ y = k
      <4> DEFINE q == accept[e][k]
      <4>1. /\ Len(q) \in Nat /\ Len(accept'[x][y]) = Len(q) + 1 /\ accept'[x][y][Len(q) + 1] = a
            /\ \A u \in 1 .. Len(q) : accept'[x][y][u] = q[u]
        <5>1. accept'[x][y] = Append(q, a) /\ q \in Seq(Queued) /\ a \in Queued
          BY <1>6, <1>13, <3>2
        <5> HIDE DEF q
        <5>2. QED
          BY <5>1, AppendFrames
      <4>2. ASSUME NEW u \in 1 .. Len(q), q[u] = a, a.i = 1 PROVE FALSE
        <5>1. a \in ToSet(q) /\ a.s = s
          BY <1>13, <4>2 DEF ToSet, a
        <5>2. recv[h][1] = "queued"
          BY <1>6, <4>2, <5>1, QueuedFacts DEF h
        <5>3. i = 1
          BY <4>2 DEF a
        <5>4. QED
          BY <1>6, <5>2, <5>3
      <4> HIDE DEF q
      <4>3. m \in 1 .. (Len(q) + 1) /\ n \in 1 .. (Len(q) + 1)
        BY <4>1
      <4>4. CASE m \in 1 .. Len(q) /\ n \in 1 .. Len(q)
        <5>1. \A u, v \in 1 .. Len(q) : q[u] = q[v] /\ q[u].i = 1 => u = v
          BY <3>1, <3>2 DEF q
        <5>2. q[m] = q[n] /\ q[m].i = 1
          BY <2>2, <4>1, <4>4
        <5>3. QED
          BY <4>4, <5>1, <5>2
      <4>5. CASE m \in 1 .. Len(q) /\ n = Len(q) + 1
        BY <2>2, <4>1, <4>2, <4>5
      <4>6. CASE m = Len(q) + 1 /\ n \in 1 .. Len(q)
        BY <2>2, <4>1, <4>2, <4>6
      <4>7. QED
        BY <4>1, <4>3, <4>4, <4>5, <4>6
    <3>3. CASE ~(x = e /\ y = k)
      <4>1. accept'[x][y] = accept[x][y]
        BY <1>13, <3>3
      <4>2. QED
        BY <2>2, <3>1, <4>1, Zenon
    <3>4. QED
      BY <3>2, <3>3
  <2>3. \A x \in Ends, y \in {"uni", "bi"} : \A b \in ToSet(accept'[x][y]) :
          /\ Initiator[b.s] = Peer(x) /\ Kind(b.s) = y
          /\ recv'[<<Peer(x), b.s>>][b.i] # "none"
          /\ b.i = 1 => recv'[<<Peer(x), b.s>>][1] = "queued"
    BY <2>1
  <2>4. \A x \in Ends, y \in {"uni", "bi"} : \A m, n \in 1 .. Len(accept'[x][y]) :
          accept'[x][y][m] = accept'[x][y][n] /\ accept'[x][y][m].i = 1 => m = n
    BY <2>2
  <2>5. QED
    BY <2>3, <2>4, AcceptStep, Zenon
<1>17. OpenOK'
  <2> SUFFICES ASSUME NEW x \in Ends, NEW y \in Stream, Initiator[y] = x
               PROVE  /\ y \notin creating[Peer(x)]
                      /\ y \in creating[x] => send[<<x, y>>] # "none"
                      /\ y \in Bi \cap creating[x] => recv'[<<x, y>>][1] = "none" \/ y \in early
                      /\ send[<<x, y>>] = "none" => recv'[<<x, y>>][1] = "none"
                      /\ y \in Bi =>
                           /\ send[<<x, y>>] # "none" <=> recv'[<<Peer(x), y>>][1] # "none"
                           /\ recv'[<<x, y>>][1] \in {"none", "queued"} => send[<<Peer(x), y>>] = "none"
    BY <1>1 DEF OpenOK
  <2>1. <<x, y>> \in Half /\ (y \in Bi => <<Peer(x), y>> \in Half) /\ Peer(Peer(x)) = x
    BY HalfFacts, EndFacts
  <2>2. <<Peer(x), y>> # h
    BY <1>6, <2>1, EndFacts DEF h
  <2>3. CASE <<x, y>> = h /\ i = 1
    <3>1. x = Peer(e) /\ y = s /\ recv[<<x, y>>][1] = "none"
      BY <1>6, <2>3 DEF h
    <3>2. QED
      BY <1>3, <1>9, <2>1, <2>2, <2>3, <3>1 DEF WsInv, OpenOK
  <2>4. CASE ~(<<x, y>> = h /\ i = 1)
    <3>1. recv'[<<x, y>>][1] = recv[<<x, y>>][1]
      BY <1>6, <1>9, <2>1, <2>4
    <3>2. QED
      BY <1>9, <2>1, <2>2, <3>1 DEF WsInv, OpenOK
  <2>5. QED
    BY <2>3, <2>4
<1>18. WsTypeOK'
  BY <1>1, <1>5, <1>9, <1>10, <1>11, <1>12, <1>13 DEF WsInv, WsTypeOK
<1>19. QED
  BY <1>1, <1>5, <1>14, <1>15, <1>16, <1>17, <1>18 DEF WsInv, NothingIgnored, Gap

\* recv_frame, STREAM, vacant, of a stream that the peer opened.
LEMMA RecvNewInv ==
  ASSUME WsInv, NEW e \in Ends, RecvNew(e)
  PROVE  WsInv'
<1>1. PICK s \in Stream : \E d \in 0 .. Write[s] :
        /\ Incoming(e, Data(s, d)) /\ recvTab[e][s] = 0 /\ Initiator[s] # e
        /\ \/ NewRecvStream(e, s, d, Newest(<<Peer(e), s>>))
           \/ UNCHANGED <<poll, wire, accept, recvVars, recvTab, sendTab>>
  BY DEF RecvNew, NewRecvStream, queueVars, sendVars, ghostVars
<1>2. PICK d \in 0 .. Write[s] :
        /\ Incoming(e, Data(s, d)) /\ recvTab[e][s] = 0 /\ Initiator[s] # e
        /\ \/ NewRecvStream(e, s, d, Newest(<<Peer(e), s>>))
           \/ UNCHANGED <<poll, wire, accept, recvVars, recvTab, sendTab>>
  BY <1>1
<1>3. d \in Nat /\ UNCHANGED <<creating, outbound, prio, spilled, send, stop, written, cut, ignored, early>>
  BY WsAssumption DEF RecvNew, queueVars, sendVars, ghostVars
<1>4. CASE UNCHANGED <<poll, wire, accept, recvVars, recvTab, sendTab>>
  <2>1. CutOK' /\ prio' \in [Ends -> Seq(Frame)]
    BY <1>3, <1>4 DEF WsInv, CutOK, WsTypeOK
  <2>2. QED
    BY <1>3, <1>4, <2>1, Unseen DEF recvVars, ghostVars
<1>5. CASE NewRecvStream(e, s, d, Newest(<<Peer(e), s>>))
  BY <1>2, <1>3, <1>5, NewRecvStreamInv
<1>6. QED
  BY <1>2, <1>4, <1>5

\* The backend starts or ends, and close tells the peer.
LEMMA SessionInv ==
  ASSUME WsInv, NEW e \in Ends, Start(e) \/ Pass(e) \/ EndClosed(e) \/ EndGone(e) \/ CloseSession(e)
  PROVE  WsInv'
<1>1. UNCHANGED <<creating, outbound, spilled, wire, recvTab, accept, send, stop, recv, inbox, log,
                  written, cut, ignored, early>>
  BY DEF Start, Pass, EndClosed, EndGone, CloseSession, queueVars, tableVars, sendVars, recvVars, ghostVars
<1>2. CASE CloseSession(e)
  <2>1. CutOK' /\ prio' \in [Ends -> Seq(Frame)]
    BY <1>1, <1>2, FrameFacts, PrioritiseInv DEF CloseSession
  <2>2. QED
    BY <1>1, <2>1, Unseen
<1>3. CASE Start(e) \/ Pass(e) \/ EndClosed(e) \/ EndGone(e)
  <2>1. prio' = prio
    BY <1>3 DEF Start, Pass, EndClosed, EndGone, queueVars, ghostVars
  <2>2. CutOK' /\ prio' \in [Ends -> Seq(Frame)]
    BY <1>1, <2>1 DEF WsInv, CutOK, WsTypeOK
  <2>3. QED
    BY <1>1, <2>2, Unseen
<1>4. QED
  BY <1>2, <1>3

-----------------------------------------------------------------------------
(* The theorems *)

\* A session begins with nothing opened or sent.
LEMMA WsInit == Init => WsInv
<1> SUFFICES ASSUME Init PROVE WsInv
  OBVIOUS
<1>1. /\ \A e \in Ends : /\ creating[e] = {} /\ spilled[e] = {} /\ outbound[e] = <<>>
                         /\ prio[e] = <<>> /\ wire[e] = <<>>
                         /\ \A s \in Stream : recvTab[e][s] = 0
                         /\ \A k \in {"uni", "bi"} : accept[e][k] = <<>>
      /\ \A h \in Half : /\ send[h] = "none" /\ ~stop[h] /\ written[h] = 0
                         /\ \A i \in Incarnation : recv[h][i] = "none" /\ inbox[h][i] = <<>>
                                                   /\ log[h][i] = <<>>
      /\ ignored = {}
  BY DEF Init
<1>2. WsTypeOK
  <2>1. \A S : <<>> \in Seq(S)
    OBVIOUS
  <2>2. 0 \in 0 .. 2 /\ 0 \in Nat
    OBVIOUS
  <2>3. /\ creating \in [Ends -> SUBSET Stream] /\ spilled \in [Ends -> SUBSET Stream]
        /\ outbound \in [Ends -> Seq(DataFrame)]
        /\ prio \in [Ends -> Seq(Frame)] /\ wire \in [Ends -> Seq(Frame)]
    BY <2>1 DEF Init
  <2>4. /\ recvTab \in [Ends -> [Stream -> 0 .. 2]]
        /\ accept \in [Ends -> [{"uni", "bi"} -> Seq(Queued)]]
    BY <2>1, <2>2 DEF Init
  <2>5. /\ send \in [Half -> {"none", "open", "fin", "closed"}] /\ stop \in [Half -> BOOLEAN]
        /\ recv \in [Half -> [Incarnation -> {"none", "queued", "open", "end", "failed"}]]
        /\ written \in [Half -> Nat]
    BY <2>2 DEF Init
  <2>6. inbox \in [Half -> [Incarnation -> Seq(Nat)]] /\ log \in [Half -> [Incarnation -> Seq(Nat)]]
    BY <2>1 DEF Init
  <2>7. QED
    BY <2>3, <2>4, <2>5, <2>6 DEF WsTypeOK
<1>3. ToSet(<<>>) = {} /\ Len(<<>>) = 0 /\ 1 .. 0 = {} /\ 1 \in Incarnation /\ 2 \in Incarnation
  BY DEF ToSet, Incarnation
<1>4. CutOK /\ AcceptOK
  BY <1>1, <1>3 DEF CutOK, AcceptOK
<1>5. OpenOK
  <2> SUFFICES ASSUME NEW e \in Ends, NEW s \in Stream, Initiator[s] = e
               PROVE  /\ s \notin creating[Peer(e)] /\ s \notin creating[e]
                      /\ send[<<e, s>>] = "none" /\ recv[<<e, s>>][1] = "none"
                      /\ s \in Bi => recv[<<Peer(e), s>>][1] = "none" /\ send[<<Peer(e), s>>] = "none"
    BY DEF OpenOK
  <2>1. <<e, s>> \in Half /\ (s \in Bi => <<Peer(e), s>> \in Half) /\ Peer(e) \in Ends
    BY HalfFacts, EndFacts
  <2>2. QED
    BY <1>1, <1>3, <2>1
<1>6. ASSUME NEW e \in Ends PROVE OrderOK(e) /\ FramesOK(e) /\ Pipe(e) = {}
  <2>1. Pipe(e) = {}
    BY <1>1, <1>3 DEF Pipe
  <2>2. QED
    BY <1>1, <1>3, <2>1 DEF OrderOK, InOrder, FramesOK
<1>7. ASSUME NEW h \in Half PROVE HalfOK(h)
  <2>1. /\ h[1] \in Ends /\ h[2] \in Stream /\ Reader(h) \in Ends
        /\ recv[h][1] = "none" /\ recv[h][2] = "none" /\ inbox[h][1] = <<>> /\ log[h][1] = <<>>
        /\ recvTab[Reader(h)][h[2]] = 0 /\ written[h] = 0
    BY <1>1, <1>3, HalfFacts
  <2>2. Live(h) /\ Got(h) = 0 /\ OnItsWay(h) = {}
    BY <1>3, <1>6, <2>1 DEF Live, Got, OnItsWay
  <2>3. GotOK(h) /\ QuietOK(h) /\ TabOK(h)
    BY <1>3, <2>1, <2>2 DEF GotOK, QuietOK, TabOK
  <2>4. LiveOK(h)
    BY <1>3, <2>1, <2>2 DEF LiveOK
  <2>5. QED
    BY <2>3, <2>4 DEF HalfOK
<1>8. QED
  BY <1>1, <1>2, <1>4, <1>5, <1>6, <1>7 DEF WsInv, NothingIgnored, Gap

\* Every step of the frontends and of the backends keeps the invariant.
LEMMA WsStep == WsInv /\ [Next]_vars => WsInv'
<1> SUFFICES ASSUME WsInv, [Next]_vars PROVE WsInv'
  OBVIOUS
<1>1. CASE \E e \in Ends, s \in Stream : Open(e, s)
  BY <1>1, OpenInv
<1>2. CASE \E h \in Half : WriteBuf(h) \/ RecvStop(h) \/ Finish(h) \/ DropSend(h) \/ ResetSend(h)
  BY <1>2, WriteBufInv, SendStreamInv
<1>3. CASE \E e \in Ends : Spill(e) \/ CloseSession(e) \/ Backend(e)
  <2>1. PICK e \in Ends : Spill(e) \/ CloseSession(e) \/ Backend(e)
    BY <1>3
  <2>2. CASE Spill(e)
    BY <2>2, SpillInv
  <2>3. CASE CloseSession(e) \/ Start(e) \/ Pass(e) \/ EndClosed(e) \/ EndGone(e)
    BY <2>3, SessionInv
  <2>4. CASE TakeCreate(e)
    BY <2>4, TakeCreateInv
  <2>5. CASE SendPriority(e)
    BY <2>5, SendPriorityInv
  <2>6. CASE SendOutbound(e)
    BY <2>6, SendOutboundInv
  <2>7. CASE RecvKnown(e)
    BY <2>7, RecvKnownInv
  <2>8. CASE RecvIgnored(e)
    BY <2>8, RecvIgnoredInv
  <2>9. CASE RecvNew(e)
    BY <2>9, RecvNewInv
  <2>10. CASE RecvReset(e)
    BY <2>10, RecvResetInv
  <2>11. CASE RecvStopFrame(e) \/ RecvClose(e)
    BY <2>11, RecvOtherInv
  <2>12. QED
    BY <2>1, <2>2, <2>3, <2>4, <2>5, <2>6, <2>7, <2>8, <2>9, <2>10, <2>11 DEF Backend
<1>4. CASE \E e \in Ends, k \in {"uni", "bi"} : Accept(e, k)
  BY <1>4, AcceptInv
<1>5. CASE \E h \in Half, i \in Incarnation :
             Read(h, i) \/ ReadFail(h, i) \/ StopRecv(h, i) \/ DropRecv(h, i)
  BY <1>5, ReadInv, GiveUpInv
<1>6. CASE UNCHANGED vars
  <2>1. /\ UNCHANGED <<creating, outbound, spilled, wire, recvTab, accept, send, stop, recv, inbox,
                       log, written, cut, ignored, early>>
        /\ UNCHANGED prio
    BY <1>6 DEF vars
  <2>2. CutOK' /\ prio' \in [Ends -> Seq(Frame)]
    BY <2>1 DEF WsInv, CutOK, WsTypeOK
  <2>3. QED
    BY <2>1, <2>2, Unseen
<1>7. QED
  BY <1>1, <1>2, <1>3, <1>4, <1>5, <1>6 DEF Next

\* The frames of every half stay in order and complete until they are given to its reader.
THEOREM FramesInOrder == Spec => []WsInv
BY WsInit, WsStep, PTL DEF Spec

\* read_chunk gives what was written, in order and without a gap, and finds the end of the
\* stream only behind the last chunk; the answers on a stream whose creation was overtaken
\* by its data are left out.
THEOREM StreamsReadInOrder == Spec => []ReadInOrder
<1>1. WsInv => ReadInOrder
  <2> SUFFICES ASSUME WsInv, NEW h \in Half, ~Gap(h)
               PROVE  /\ \A n \in DOMAIN log[h][1] : log[h][1][n] = n
                      /\ recv[h][1] = "end" => Len(log[h][1]) = written[h]
    BY DEF ReadInOrder
  <2>1. log[h][1] \in Seq(Nat) /\ (~Gap(h) => GotOK(h))
    BY GotType DEF WsInv, HalfOK
  <2>2. DOMAIN log[h][1] = 1 .. Len(log[h][1])
    BY <2>1
  <2>3. QED
    BY <2>1, <2>2 DEF GotOK
<1>2. QED
  BY <1>1, FramesInOrder, PTL

\* recv_frame makes a second RecvStream of a stream only when the stream was cut short.
THEOREM SecondOnlyAfterCut == Spec => []AcceptedOnce
<1>1. WsInv => AcceptedOnce
  BY DEF WsInv, HalfOK, TabOK, AcceptedOnce
<1>2. QED
  BY <1>1, FramesInOrder, PTL

\* recv_frame ignores the data of a stream, as already closed, only when the stream was cut
\* short, or was sent on before its creation was in the tables.
THEOREM IgnoredForCause == Spec => []NothingIgnored
<1>1. WsInv => NothingIgnored
  BY DEF WsInv
<1>2. QED
  BY <1>1, FramesInOrder, PTL
=============================================================================
