-------------------------------- MODULE WsMux -------------------------------
(***************************************************************************)
(* web-transport-ws: the streams of a session multiplexed over one         *)
(* WebSocket.  Each end has a backend task, which owns the socket and the  *)
(* tables of live streams, and frontends: a SendStream or RecvStream per   *)
(* half, used by the application.  They talk through channels: creations,  *)
(* outbound data (bounded), outbound priority frames (RESET_STREAM,        *)
(* STOP_SENDING, CONNECTION_CLOSE; unbounded), and one channel per stream  *)
(* for what comes in.  The backend's select polls its branches in turn -   *)
(* socket, creations, priority, outbound, closed - while the application's *)
(* threads go on: what is queued on a branch that was just polled waits    *)
(* until the select has taken one behind it.                               *)
(*                                                                         *)
(* A half <<e, s>> is the direction of stream s that end e sends.  A       *)
(* chunk of data is its number; FIN is 0.  The receiver of a half may come *)
(* to life more than once: i counts its incarnations.  Frames stay in      *)
(* order on the socket; pings, text and stray pongs are not modelled, nor  *)
(* are datagrams, which the transport does not have.                       *)
(***************************************************************************)
EXTENDS Naturals, Sequences, FiniteSets

CONSTANTS
  Uni, Bi,      \* the streams the client and the server may open
  Initiator,    \* who opens each
  Write,        \* chunks an application writes at most on a half of each stream
  OutCap,       \* room in the outbound channel (8)
  AcceptCap,    \* room in an accept channel (1024)
  MayBreak,     \* halves whose SendStream is also reset or dropped
  MayStop,      \* halves whose RecvStream is also stopped or dropped
  MayClose      \* ends whose application closes the session

Ends == {"client", "server"}
Stream == Uni \cup Bi
Peer(e) == IF e = "client" THEN "server" ELSE "client"
Half == {h \in Ends \X Stream : h[2] \in Uni => h[1] = Initiator[h[2]]}
Incarnation == 1..2
FIN == 0

ASSUME WsAssumption ==
  /\ Uni \cap Bi = {}
  /\ Initiator \in [Stream -> Ends]
  /\ Write \in [Stream -> Nat] /\ OutCap \in Nat \ {0} /\ AcceptCap \in Nat \ {0}
  /\ MayBreak \subseteq Half /\ MayStop \subseteq Half /\ MayClose \subseteq Ends
  \* Nobody cuts what the initiator of a bidirectional stream sends, so that such a stream
  \* is accepted once: a second SendStream for it, which recv_frame would make, is not modelled.
  /\ \A h \in MayBreak \cup MayStop : h[2] \in Bi => h[1] # Initiator[h[2]]

VARIABLES
  poll,      \* the branch that the backend's select polls next
  creating,  \* streams opened, not yet in the backend's tables
  outbound, prio,  \* frames waiting in the backend's channels
  spilled,   \* FINs that a spawned task is still trying to queue
  wire,      \* frames sent by an end and not yet received
  stuck,     \* the backend waits for room in an accept channel
  sendTab,   \* send_streams
  recvTab,   \* recv_streams: the incarnation, 0: vacant
  accept,    \* the accept channels
  send,      \* SendStream: none, open, fin, closed
  stop,      \* STOP_SENDING waits in inbound_stopped
  recv,      \* RecvStream: none, queued, open, end, failed
  inbox, reset,  \* inbound_data, inbound_reset
  log,       \* the chunks read
  written,   \* chunks written on each half
  lostFin,   \* halves whose drop could not queue its FIN
  cut,       \* halves that were reset, or whose reader asked them to stop
  ignored,   \* halves of which data met the "already closed" branch
  early,     \* bidirectional streams sent on before their creation was in the tables
  closed,    \* the watch channel: "", local, peer
  backend    \* new: spawned, not yet polled; run; ended; gone: ended with the socket

vars == <<poll, creating, outbound, prio, spilled, wire, stuck, sendTab, recvTab, accept, send,
          stop, recv, inbox, reset, log, written, lostFin, cut, ignored, early, closed, backend>>
queueVars == <<creating, outbound, prio, spilled>>
tableVars == <<sendTab, recvTab, accept, stuck>>
sendVars == <<send, stop, written, lostFin>>
recvVars == <<recv, inbox, reset, log>>
ghostVars == <<cut, ignored, early>>

Kind(s) == IF s \in Uni THEN "uni" ELSE "bi"
Data(s, d) == [t |-> "stream", s |-> s, d |-> d]
Reset(s) == [t |-> "reset", s |-> s]
Stop(s) == [t |-> "stop", s |-> s]
Close == [t |-> "close"]

\* Session::new, at both ends.
Init ==
  /\ poll = [e \in Ends |-> "create"]
  /\ creating = [e \in Ends |-> {}]
  /\ outbound = [e \in Ends |-> <<>>] /\ prio = [e \in Ends |-> <<>>]
  /\ spilled = [e \in Ends |-> {}]
  /\ wire = [e \in Ends |-> <<>>] /\ stuck = [e \in Ends |-> FALSE]
  /\ sendTab = [e \in Ends |-> {}]
  /\ recvTab = [e \in Ends |-> [s \in Stream |-> 0]]
  /\ accept = [e \in Ends |-> [k \in {"uni", "bi"} |-> <<>>]]
  /\ send = [h \in Half |-> "none"] /\ stop = [h \in Half |-> FALSE]
  /\ recv = [h \in Half |-> [i \in Incarnation |-> "none"]]
  /\ inbox = [h \in Half |-> [i \in Incarnation |-> <<>>]]
  /\ reset = [h \in Half |-> [i \in Incarnation |-> FALSE]]
  /\ log = [h \in Half |-> [i \in Incarnation |-> <<>>]]
  /\ written = [h \in Half |-> 0] /\ lostFin = {}
  /\ cut = {} /\ ignored = {} /\ early = {}
  /\ closed = [e \in Ends |-> ""] /\ backend = [e \in Ends |-> "new"]

-----------------------------------------------------------------------------
(* The application's side: Session and SendStream *)

\* The backend still owns the receiving ends of the channels.
Alive(e) == backend[e] \in {"new", "run"}

\* A frame for the priority channel, lost when the backend is no more.
Prioritise(e, f) == prio' = IF Alive(e) THEN [prio EXCEPT ![e] = Append(@, f)] ELSE prio

\* open_uni and open_bi; the frontend is handed out once the creation is queued.
Open(e, s) ==
  /\ Initiator[s] = e /\ send[<<e, s>>] = "none" /\ Alive(e)
  /\ creating' = [creating EXCEPT ![e] = @ \cup {s}]
  /\ send' = [send EXCEPT ![<<e, s>>] = "open"]
  /\ IF s \in Bi THEN recv' = [recv EXCEPT ![<<Peer(e), s>>][1] = "open"] ELSE UNCHANGED recv
  /\ UNCHANGED <<poll, outbound, prio, spilled, wire, tableVars, stop, written, lostFin, inbox,
                 reset, log, ghostVars, closed, backend>>

Room(e) == Alive(e) /\ Len(outbound[e]) < OutCap

\* write_buf: the data is queued.
WriteBuf(h) ==
  /\ send[h] = "open" /\ written[h] < Write[h[2]] /\ Room(h[1])
  /\ written' = [written EXCEPT ![h] = @ + 1]
  /\ outbound' = [outbound EXCEPT ![h[1]] = Append(@, Data(h[2], written[h] + 1))]
  /\ UNCHANGED <<poll, creating, prio, spilled, wire, tableVars, send, stop, lostFin, recvVars,
                 ghostVars, closed, backend>>

\* write_buf or closed(): the peer wants no more; the stream is reset.
RecvStop(h) ==
  /\ send[h] = "open" /\ stop[h]
  /\ stop' = [stop EXCEPT ![h] = FALSE]
  /\ send' = [send EXCEPT ![h] = "closed"]
  /\ Prioritise(h[1], Reset(h[2]))
  /\ UNCHANGED <<poll, creating, outbound, spilled, wire, tableVars, written, lostFin, recvVars,
                 ghostVars, closed, backend>>

\* Fault: the FIN goes through the priority channel.
FinishFirst(h) ==
  /\ send[h] = "open"
  /\ send' = [send EXCEPT ![h] = "fin"]
  /\ Prioritise(h[1], Data(h[2], FIN))
  /\ UNCHANGED <<poll, creating, outbound, spilled, wire, tableVars, stop, written, lostFin,
                 recvVars, ghostVars, closed, backend>>

\* Fault: the FIN is given up when the channel is full.
FinishOrNot(h) ==
  /\ send[h] = "open"
  /\ send' = [send EXCEPT ![h] = "fin"]
  /\ outbound' = IF Room(h[1]) THEN [outbound EXCEPT ![h[1]] = Append(@, Data(h[2], FIN))]
                 ELSE outbound
  /\ UNCHANGED <<poll, creating, spilled, prio, wire, tableVars, stop, written, lostFin,
                 recvVars, ghostVars, closed, backend>>

\* finish: queued at once or, when the channel is full, by a spawned task.
Finish(h) ==
  /\ send[h] = "open"
  /\ send' = [send EXCEPT ![h] = "fin"]
  /\ IF Room(h[1])
     THEN /\ outbound' = [outbound EXCEPT ![h[1]] = Append(@, Data(h[2], FIN))]
          /\ UNCHANGED spilled
     ELSE /\ spilled' = [spilled EXCEPT ![h[1]] = IF Alive(h[1]) THEN @ \cup {h[2]} ELSE @]
          /\ UNCHANGED outbound
  /\ UNCHANGED <<poll, creating, prio, wire, tableVars, stop, written, lostFin, recvVars,
                 ghostVars, closed, backend>>

\* Fault: the frame is queued and then tried again.
SpillAgain(e) ==
  /\ \E s \in spilled[e] :
       Room(e) /\ outbound' = [outbound EXCEPT ![e] = Append(@, Data(s, FIN))]
  /\ UNCHANGED <<poll, creating, spilled, prio, wire, tableVars, sendVars, recvVars, ghostVars,
                 closed, backend>>

\* The task that finish spawned.
Spill(e) ==
  /\ \E s \in spilled[e] :
       /\ Room(e)
       /\ outbound' = [outbound EXCEPT ![e] = Append(@, Data(s, FIN))]
       /\ spilled' = [spilled EXCEPT ![e] = @ \ {s}]
  /\ UNCHANGED <<poll, creating, prio, wire, tableVars, sendVars, recvVars, ghostVars, closed,
                 backend>>

\* Drop of a SendStream that was not finished: a FIN, if there is room.
DropSend(h) ==
  /\ h \in MayBreak /\ send[h] = "open"
  /\ send' = [send EXCEPT ![h] = "fin"]
  /\ IF Room(h[1])
     THEN /\ outbound' = [outbound EXCEPT ![h[1]] = Append(@, Data(h[2], FIN))]
          /\ UNCHANGED lostFin
     ELSE lostFin' = lostFin \cup {h} /\ UNCHANGED outbound
  /\ UNCHANGED <<poll, creating, prio, spilled, wire, tableVars, stop, written, recvVars,
                 ghostVars, closed, backend>>

\* SendStream::reset.
ResetSend(h) ==
  /\ h \in MayBreak /\ send[h] = "open"
  /\ send' = [send EXCEPT ![h] = "closed"]
  /\ Prioritise(h[1], Reset(h[2]))
  /\ cut' = cut \cup {h}
  /\ UNCHANGED <<poll, creating, outbound, spilled, wire, tableVars, stop, written, lostFin,
                 recvVars, ignored, early, closed, backend>>

(***************************************************************************)
(* close: the peer is told, and everyone here: a watch channel without a   *)
(* receiver keeps its value, and the backend is the receiver, once it      *)
(* runs.  An application closes a session once.                            *)
(***************************************************************************)
CloseSession(e) ==
  /\ e \in MayClose /\ closed[e] = "" /\ Alive(e)
  /\ \A n \in DOMAIN prio[e] : prio[e][n] # Close
  /\ Prioritise(e, Close)
  /\ closed' = IF backend[e] = "run" THEN [closed EXCEPT ![e] = "local"] ELSE closed
  /\ UNCHANGED <<poll, creating, outbound, spilled, wire, tableVars, sendVars, recvVars,
                 ghostVars, backend>>

-----------------------------------------------------------------------------
(* The application's side: RecvStream *)

Reader(h) == Peer(h[1])

(***************************************************************************)
(* accept_bi, once for the control stream; accept_uni by a task that reads *)
(* one stream to its end before it accepts the next (session/mod.rs,       *)
(* run_streams).                                                           *)
(***************************************************************************)
Accept(e, k) ==
  /\ accept[e][k] # <<>>
  /\ k = "uni" =>
       \A h \in Half, i \in Incarnation : Reader(h) = e /\ h[2] \in Uni => recv[h][i] # "open"
  /\ LET a == Head(accept[e][k]) IN recv' = [recv EXCEPT ![<<Peer(e), a.s>>][a.i] = "open"]
  /\ accept' = [accept EXCEPT ![e][k] = Tail(@)]
  /\ IF k = "bi" /\ Head(accept[e][k]).i = 1
     THEN send' = [send EXCEPT ![<<e, Head(accept[e][k]).s>>] = "open"] ELSE UNCHANGED send
  /\ UNCHANGED <<poll, queueVars, wire, sendTab, recvTab, stuck, stop, written, lostFin, inbox,
                 reset, log, ghostVars, closed, backend>>

\* read_chunk: data or FIN.
Read(h, i) ==
  /\ recv[h][i] = "open" /\ inbox[h][i] # <<>>
  /\ inbox' = [inbox EXCEPT ![h][i] = Tail(@)]
  /\ IF Head(inbox[h][i]) = FIN
     THEN recv' = [recv EXCEPT ![h][i] = "end"] /\ UNCHANGED log
     ELSE log' = [log EXCEPT ![h][i] = Append(@, Head(inbox[h][i]))] /\ UNCHANGED recv
  /\ UNCHANGED <<poll, queueVars, wire, tableVars, sendVars, reset, ghostVars, closed, backend>>

\* read_chunk: a reset, which may win over data that came before it; or the
\* backend is gone and the channels are empty.
ReadFail(h, i) ==
  /\ recv[h][i] = "open"
  /\ reset[h][i] \/ (inbox[h][i] = <<>> /\ ~Alive(Reader(h)))
  /\ recv' = [recv EXCEPT ![h][i] = "failed"]
  /\ UNCHANGED <<poll, queueVars, wire, tableVars, sendVars, inbox, reset, log, ghostVars,
                 closed, backend>>

\* RecvStream::stop, which asks the peer to reset.
StopRecv(h, i) ==
  /\ h \in MayStop /\ recv[h][i] = "open" /\ i = 1
  /\ recv' = [recv EXCEPT ![h][i] = "failed"]
  /\ Prioritise(Reader(h), Stop(h[2]))
  /\ cut' = cut \cup {h}
  /\ UNCHANGED <<poll, creating, outbound, spilled, wire, tableVars, sendVars, inbox, reset,
                 log, ignored, early, closed, backend>>

\* The drop of a RecvStream tells nobody.
DropRecv(h, i) ==
  /\ h \in MayStop /\ recv[h][i] = "open"
  /\ recv' = [recv EXCEPT ![h][i] = "failed"]
  /\ UNCHANGED <<poll, queueVars, wire, tableVars, sendVars, inbox, reset, log, ghostVars,
                 closed, backend>>

-----------------------------------------------------------------------------
(* The backend *)

Running(e) == backend[e] = "run" /\ ~stuck[e]

\* run: it subscribes to closed, then loops.
Start(e) ==
  /\ backend[e] = "new"
  /\ backend' = [backend EXCEPT ![e] = "run"]
  /\ UNCHANGED <<poll, queueVars, wire, tableVars, sendVars, recvVars, ghostVars, closed>>

\* A branch was taken: the select starts over with its first one.
Loop(e) == poll' = [poll EXCEPT ![e] = "create"]

(***************************************************************************)
(* The select polls a branch that has nothing, and goes on to the next;    *)
(* after the last it waits to be woken.  The socket and the creations may  *)
(* be taken at any time, as if the select had not moved on before they     *)
(* came; what is behind them only when the branches before it were found   *)
(* empty when they were polled, which they need not be any more.           *)
(***************************************************************************)
Pass(e) ==
  /\ Running(e)
  /\ \/ poll[e] = "create" /\ creating[e] = {} /\ poll' = [poll EXCEPT ![e] = "priority"]
     \/ poll[e] = "priority" /\ prio[e] = <<>> /\ poll' = [poll EXCEPT ![e] = "outbound"]
     \/ poll[e] = "outbound" /\ outbound[e] = <<>> /\ poll' = [poll EXCEPT ![e] = "closed"]
     \/ /\ poll[e] = "closed" /\ closed[e] = ""
        /\ prio[e] # <<>> \/ outbound[e] # <<>>
        /\ Loop(e)
  /\ UNCHANGED <<queueVars, wire, tableVars, sendVars, recvVars, ghostVars, closed, backend>>

\* Fault: the RecvState of a bidirectional stream is not entered.
TakeCreateSend(e) ==
  /\ Running(e)
  /\ \E s \in creating[e] :
       /\ creating' = [creating EXCEPT ![e] = @ \ {s}]
       /\ sendTab' = [sendTab EXCEPT ![e] = @ \cup {s}]
  /\ Loop(e)
  /\ UNCHANGED <<outbound, prio, spilled, wire, recvTab, accept, stuck, sendVars, recvVars,
                 ghostVars, closed, backend>>

\* create_uni.recv and create_bi.recv.
TakeCreate(e) ==
  /\ Running(e)
  /\ \E s \in creating[e] :
       /\ creating' = [creating EXCEPT ![e] = @ \ {s}]
       /\ sendTab' = [sendTab EXCEPT ![e] = @ \cup {s}]
       /\ recvTab' = [recvTab EXCEPT ![e][s] = IF s \in Bi THEN 1 ELSE @]
  /\ Loop(e)
  /\ UNCHANGED <<outbound, prio, spilled, wire, accept, stuck, sendVars, recvVars, ghostVars,
                 closed, backend>>

\* send_frame: the tables first, then the socket.
SendFrame(e, f) ==
  /\ wire' = [wire EXCEPT ![e] = Append(@, f)]
  /\ sendTab' = [sendTab EXCEPT ![e] =
       IF f.t = "reset" \/ (f.t = "stream" /\ f.d = FIN) THEN @ \ {f.s} ELSE @]
  /\ recvTab' = IF f.t = "stop" THEN [recvTab EXCEPT ![e][f.s] = 0] ELSE recvTab
  /\ early' = early \cup {s \in creating[e] \cap Bi : f.t = "stream" /\ f.s = s}
  /\ UNCHANGED <<accept, stuck>>

SendPriority(e) ==
  /\ Running(e) /\ poll[e] = "priority" /\ prio[e] # <<>>
  /\ SendFrame(e, Head(prio[e]))
  /\ prio' = [prio EXCEPT ![e] = Tail(@)]
  /\ Loop(e)
  /\ UNCHANGED <<creating, outbound, spilled, sendVars, recvVars, cut, ignored, closed, backend>>

SendOutbound(e) ==
  /\ Running(e) /\ poll[e] = "outbound" /\ outbound[e] # <<>>
  /\ SendFrame(e, Head(outbound[e]))
  /\ outbound' = [outbound EXCEPT ![e] = Tail(@)]
  /\ Loop(e)
  /\ UNCHANGED <<creating, prio, spilled, sendVars, recvVars, cut, ignored, closed, backend>>

\* The frame the socket has for this end.
Incoming(e, f) == wire[Peer(e)] # <<>> /\ f = Head(wire[Peer(e)])
Taken(e) == wire' = [wire EXCEPT ![Peer(e)] = Tail(@)] /\ Loop(e)

\* The incarnation that a new receiver of the half would be.
Newest(h) == IF recv[h][1] = "none" THEN 1 ELSE 2

\* recv_frame, STREAM, occupied: to the stream's channel, and forgotten on FIN.
RecvKnown(e) ==
  /\ Running(e)
  /\ \E s \in Stream : \E d \in 0..Write[s] :
       LET h == <<Peer(e), s>> IN
       /\ Incoming(e, Data(s, d)) /\ recvTab[e][s] # 0
       /\ inbox' = [inbox EXCEPT ![h][recvTab[e][s]] = Append(@, d)]
       /\ recvTab' = [recvTab EXCEPT ![e][s] = IF d = FIN THEN 0 ELSE @]
  /\ Taken(e)
  /\ UNCHANGED <<queueVars, sendTab, accept, stuck, sendVars, recv, reset, log, ghostVars,
                 closed, backend>>

\* recv_frame, STREAM, vacant, of a stream that this end opened.
RecvIgnored(e) ==
  /\ Running(e)
  /\ \E s \in Stream : \E d \in 0..Write[s] :
       /\ Incoming(e, Data(s, d)) /\ recvTab[e][s] = 0 /\ Initiator[s] = e
       /\ ignored' = ignored \cup {<<Peer(e), s>>}
  /\ Taken(e)
  /\ UNCHANGED <<queueVars, tableVars, sendVars, recvVars, cut, early, closed, backend>>

(***************************************************************************)
(* recv_frame, STREAM, vacant, of a stream that the peer opened: a new     *)
(* RecvStream (and for a bidirectional stream a SendStream) goes to the    *)
(* accept channel.  The backend waits there, doing nothing else, until     *)
(* there is room.                                                          *)
(***************************************************************************)
RecvNew(e) ==
  /\ backend[e] = "run"
  /\ \E s \in Stream : \E d \in 0..Write[s] :
       LET h == <<Peer(e), s>>
           i == Newest(h)
       IN
       /\ Incoming(e, Data(s, d)) /\ recvTab[e][s] = 0 /\ Initiator[s] # e
       /\ IF Len(accept[e][Kind(s)]) < AcceptCap
          THEN /\ accept' = [accept EXCEPT ![e][Kind(s)] = Append(@, [s |-> s, i |-> i])]
               /\ recv' = [recv EXCEPT ![h][i] = "queued"]
               /\ inbox' = [inbox EXCEPT ![h][i] = <<d>>]
               /\ reset' = [reset EXCEPT ![h][i] = FALSE]
               /\ log' = [log EXCEPT ![h][i] = <<>>]
               /\ recvTab' = [recvTab EXCEPT ![e][s] = IF d = FIN THEN 0 ELSE i]
               /\ sendTab' = [sendTab EXCEPT ![e] = IF s \in Bi THEN @ \cup {s} ELSE @]
               /\ stuck' = [stuck EXCEPT ![e] = FALSE]
               /\ Taken(e)
          ELSE /\ ~stuck[e] /\ stuck' = [stuck EXCEPT ![e] = TRUE]
               /\ UNCHANGED <<poll, wire, accept, recvVars, recvTab, sendTab>>
  /\ UNCHANGED <<queueVars, sendVars, ghostVars, closed, backend>>

\* recv_frame, RESET_STREAM: to the stream if it is known, and forgotten.
RecvReset(e) ==
  /\ Running(e)
  /\ \E s \in Stream :
       LET h == <<Peer(e), s>> IN
       /\ Incoming(e, Reset(s))
       /\ reset' = IF recvTab[e][s] = 0 THEN reset
                   ELSE [reset EXCEPT ![h][recvTab[e][s]] = TRUE]
       /\ recvTab' = [recvTab EXCEPT ![e][s] = 0]
  /\ Taken(e)
  /\ UNCHANGED <<queueVars, sendTab, accept, stuck, sendVars, recv, inbox, log, ghostVars,
                 closed, backend>>

\* recv_frame, STOP_SENDING: to the stream if it is still known.
RecvStopFrame(e) ==
  /\ Running(e)
  /\ \E s \in Stream :
       /\ Incoming(e, Stop(s))
       /\ stop' = IF s \in sendTab[e] THEN [stop EXCEPT ![<<e, s>>] = TRUE] ELSE stop
  /\ Taken(e)
  /\ UNCHANGED <<queueVars, tableVars, send, written, lostFin, recvVars, ghostVars, closed,
                 backend>>

\* recv_frame, CONNECTION_CLOSE.
RecvClose(e) ==
  /\ Running(e) /\ Incoming(e, Close)
  /\ closed' = [closed EXCEPT ![e] = "peer"]
  /\ Taken(e)
  /\ UNCHANGED <<queueVars, tableVars, sendVars, recvVars, ghostVars, backend>>

\* The last branch: the session was closed.
EndClosed(e) ==
  /\ Running(e) /\ poll[e] = "closed" /\ closed[e] # ""
  /\ backend' = [backend EXCEPT ![e] = "ended"]
  /\ UNCHANGED <<poll, queueVars, wire, tableVars, sendVars, recvVars, ghostVars, closed>>

(***************************************************************************)
(* The peer's socket is gone, which a read or a write finds out.  The      *)
(* error is sent to a watch channel whose receiver went with run: unless   *)
(* someone waits in closed(), which nobody here does, it is lost.          *)
(***************************************************************************)
EndGone(e) ==
  /\ Running(e) /\ ~Alive(Peer(e))
  /\ \/ wire[Peer(e)] = <<>>
     \/ poll[e] = "priority" /\ prio[e] # <<>>
     \/ poll[e] = "outbound" /\ outbound[e] # <<>>
  /\ backend' = [backend EXCEPT ![e] = "gone"]
  /\ UNCHANGED <<poll, queueVars, wire, tableVars, sendVars, recvVars, ghostVars, closed>>

Backend(e) ==
  \/ Start(e) \/ Pass(e) \/ TakeCreate(e) \/ SendPriority(e) \/ SendOutbound(e)
  \/ RecvKnown(e) \/ RecvIgnored(e) \/ RecvNew(e) \/ RecvReset(e) \/ RecvStopFrame(e)
  \/ RecvClose(e) \/ EndClosed(e) \/ EndGone(e)

Next ==
  \/ \E e \in Ends, s \in Stream : Open(e, s)
  \/ \E h \in Half : WriteBuf(h) \/ RecvStop(h) \/ Finish(h) \/ DropSend(h) \/ ResetSend(h)
  \/ \E e \in Ends : Spill(e) \/ CloseSession(e) \/ Backend(e)
  \/ \E e \in Ends, k \in {"uni", "bi"} : Accept(e, k)
  \/ \E h \in Half, i \in Incarnation :
       Read(h, i) \/ ReadFail(h, i) \/ StopRecv(h, i) \/ DropRecv(h, i)

\* What the application at e does with the streams that come in.
Reading(e) ==
  \/ \E k \in {"uni", "bi"} : Accept(e, k)
  \/ \E h \in Half, i \in Incarnation : Reader(h) = e /\ (Read(h, i) \/ ReadFail(h, i))

(***************************************************************************)
(* The runtime never stops while a task can make progress: a backend, one  *)
(* that finish spawned, or a reader of the application.  What these tasks  *)
(* do is bounded by what the application writes, so no stronger fairness   *)
(* is needed; what the application writes, and when, is its own affair.    *)
(***************************************************************************)
Fairness == WF_vars(\E e \in Ends : Backend(e) \/ Spill(e) \/ Reading(e))

Spec == Init /\ [][Next]_vars /\ Fairness

-----------------------------------------------------------------------------
(* Properties *)

\* The answers to a bidirectional stream may be lost when its first frame was sent before
\* its creation was in the tables.
Gap(h) == h[1] # Initiator[h[2]] /\ h[2] \in early

(***************************************************************************)
(* A reader is given what was written, in order, without a gap, and finds  *)
(* the end of the stream only behind the last chunk (read_chunk and the    *)
(* one outbound channel that data and FIN share) - except the initiator of *)
(* a bidirectional stream whose creation was overtaken by its data.        *)
(***************************************************************************)
ReadInOrder ==
  \A h \in Half : ~Gap(h) =>
    /\ \A n \in DOMAIN log[h][1] : log[h][1][n] = n
    /\ recv[h][1] = "end" => Len(log[h][1]) = written[h]

(***************************************************************************)
(* recv_frame makes a second RecvStream for a stream it has forgotten only *)
(* when the stream was cut short: reset by its writer, or stopped by its   *)
(* reader, whose frames overtake the data in the priority channel.         *)
(***************************************************************************)
AcceptedOnce == \A h \in Half : recv[h][2] # "none" => h \in cut

(***************************************************************************)
(* The branch "Already closed, ignore it" (recv_frame) meets data only of  *)
(* a stream that was cut short or whose creation was overtaken: a stream   *)
(* in the tables stays there until its FIN.                                *)
(***************************************************************************)
NothingIgnored == \A h \in ignored : h \in cut \/ Gap(h)

\* Nothing interfered with the half: no reset, stop, lost FIN, drop, close or gap.
Undisturbed(h) ==
  /\ h \notin cut \cup lostFin /\ recv[h][1] # "failed" /\ ~Gap(h)
  /\ \A e \in Ends : Alive(e)

\* The reader of the half is busy with a unidirectional stream that was not finished.
Held(h) ==
  \E g \in Half, i \in Incarnation :
    /\ g # h /\ g[1] = h[1] /\ g[2] \in Uni /\ recv[g][i] = "open"
    /\ send[g] = "open" \/ g \in cut \cup lostFin

\* Its sender has more unidirectional streams in progress than can be read and accepted.
Crowded(h) ==
  Cardinality({g \in Half : /\ g[1] = h[1] /\ g[2] \in Uni /\ send[g] # "none"
                            /\ recv[g][1] \notin {"end", "failed"}}) > AcceptCap + 1

(***************************************************************************)
(* A stream that was finished is read to its end by the peer, whatever     *)
(* other streams are open: also when the outbound channel was full at      *)
(* finish or the backend had to wait for room in the accept channel        *)
(* (finish, Spill, recv_frame) - unless the application's one reader of    *)
(* unidirectional streams never comes to an end of another, or too many    *)
(* are in progress: the backend then waits for room that only the frames   *)
(* behind the one it holds could make.                                     *)
(***************************************************************************)
FinishReaches ==
  \A h \in Half :
    send[h] = "fin" ~> \/ recv[h][1] = "end" \/ ~Undisturbed(h)
                       \/ [](Held(h) \/ Crowded(h))

=============================================================================
