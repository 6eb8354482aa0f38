------------------------------ MODULE Datagrams -----------------------------
(***************************************************************************)
(* A subscription to a track of datagrams, from the writer of the track    *)
(* (serve::Datagrams) over serve_datagrams and the transport to the        *)
(* subscriber (recv_datagram, recv_stream and SubscribeRecv).  A datagram  *)
(* the transport refuses makes serve_datagrams use a stream for it and for *)
(* all that follow.  The WebSocket transport refuses all of them; the      *)
(* QUIC one accepts and then discards each, which is LoseDatagram, so that *)
(* those which arrive come from another implementation.  Datagrams are     *)
(* lost, and both may be reordered.                                        *)
(***************************************************************************)
EXTENDS Naturals, Sequences

CONSTANTS DatagramGroup, MaxDatagrams  \* the group ids in use; a bound on writes

ASSUME DatagramsAssumption == DatagramGroup \subseteq Nat /\ MaxDatagrams \in Nat

VARIABLES
  latest, written,  \* DatagramsState: latest and epoch, the number of writes
  dgEnded,          \* the writer was dropped or closed
  readEpoch,      \* DatagramsReader.epoch
  serving,        \* serve_datagrams: datagrams, streams, over
  flying,         \* datagrams on their way
  streams,        \* streams on their way
  writer,         \* Subscribe.writer: track, subgroups, or none
  newest,         \* the group of the subscriber's latest subgroup
  dgReader,       \* the TrackReader of the subscription, or what it handed out, exists
  subscription,   \* the entry in Subscriber.subscribes: open, ended by an error, done
  session,        \* the subscriber's session: up, down
  applied,        \* what reached the subscription
  shown           \* what the subscriber's application can see

datagramsVars == <<latest, written, dgEnded, readEpoch, serving, flying, streams, writer, newest,
                   dgReader, subscription, session, applied, shown>>
dgServeVars == <<latest, written, dgEnded, readEpoch, serving>>
dgRecvVars == <<writer, newest, dgReader, subscription, session, applied, shown>>

DatagramsInit ==
  /\ latest = [n |-> 0, g |-> 0] /\ written = 0 /\ dgEnded = FALSE
  /\ readEpoch = 0 /\ serving = "datagrams" /\ flying = {} /\ streams = {}
  /\ writer = "track" /\ newest = 0 /\ dgReader = TRUE
  /\ subscription = "open" /\ session = "up"
  /\ applied = <<>> /\ shown = <<>>

-----------------------------------------------------------------------------
(* The publisher *)

\* DatagramsWriter::write: only the latest is kept.
WriteDatagram(g) ==
  /\ ~dgEnded /\ written < MaxDatagrams
  /\ latest' = [n |-> written + 1, g |-> g] /\ written' = written + 1
  /\ UNCHANGED <<dgEnded, readEpoch, serving, flying, streams, dgRecvVars>>

\* close, or the drop of the writer.
EndDatagrams ==
  /\ ~dgEnded /\ dgEnded' = TRUE
  /\ UNCHANGED <<latest, written, readEpoch, serving, flying, streams, dgRecvVars>>

\* serve_datagrams: read the latest and send it, as a datagram or as a stream.
ServeDatagram ==
  /\ serving # "over" /\ readEpoch < written
  /\ readEpoch' = written
  /\ \/ serving = "datagrams" /\ flying' = flying \cup {latest} /\ UNCHANGED <<streams, serving>>
     \/ serving' = "streams" /\ streams' = streams \cup {latest} /\ UNCHANGED flying
  /\ UNCHANGED <<latest, written, dgEnded, dgRecvVars>>

\* read: the end, once the latest was read; or, behind one that was sent, UNSUBSCRIBE
\* has taken the other half of the state away.
ServeEnds ==
  /\ serving # "over"
  /\ (readEpoch = written /\ dgEnded) \/ readEpoch > 0
  /\ serving' = "over"
  /\ UNCHANGED <<latest, written, dgEnded, readEpoch, flying, streams, dgRecvVars>>

\* On the way, or in send_datagram.
LoseDatagram ==
  /\ \E d \in flying : flying' = flying \ {d}
  /\ UNCHANGED <<dgServeVars, streams, dgRecvVars>>

-----------------------------------------------------------------------------
(* The subscriber *)

\* The application lets go of the track.
DropTrackReader ==
  /\ dgReader /\ dgReader' = FALSE
  /\ UNCHANGED <<dgServeVars, flying, streams, writer, newest, subscription, session, applied,
                 shown>>

Arrives(kind, d) == applied' = Append(applied, [kind |-> kind, g |-> d.g, read |-> dgReader])

\* recv_datagram and SubscribeRecv::datagram, which takes the writer and keeps it; an error
\* - the writer is gone or in another mode, or nobody reads - ends run_datagrams and with
\* it the session.
ApplyDatagram ==
  /\ session = "up" /\ subscription = "open"
  /\ \E d \in flying :
       /\ flying' = flying \ {d}
       /\ Arrives("datagram", d)
       /\ IF writer = "track" /\ dgReader THEN shown' = Append(shown, d.n) /\ UNCHANGED session
          ELSE session' = "down" /\ UNCHANGED shown
  /\ writer' = "none"
  /\ UNCHANGED <<dgServeVars, streams, newest, dgReader, subscription>>

\* A datagram for a subscription that is not there is ignored, a stream refused.
IgnoreArrival ==
  /\ session = "up" /\ subscription # "open"
  /\ \/ \E d \in flying : flying' = flying \ {d} /\ UNCHANGED streams
     \/ \E d \in streams : streams' = streams \ {d} /\ UNCHANGED flying
  /\ UNCHANGED <<dgServeVars, dgRecvVars>>

\* Fault: the writer is not put back.
NotBack == "none"

\* SubscribeRecv::subgroup puts the writer back.
PutBack == "subgroups"

\* recv_stream: a subgroup of one object.  An error - the writer is gone, nobody reads, or
\* the group is not newer - ends the subscription, and its writer goes with it.
RecvStream ==
  /\ session = "up" /\ subscription = "open"
  /\ \E d \in streams :
        /\ Arrives("stream", d)
        /\ streams' = streams \ {d}
        /\ IF dgReader /\ (writer = "track" \/ (writer = "subgroups" /\ d.g > newest))
           THEN /\ writer' = PutBack /\ newest' = d.g /\ shown' = Append(shown, d.n)
                /\ UNCHANGED subscription
           ELSE subscription' = "ended" /\ writer' = "none" /\ UNCHANGED <<newest, shown>>
  /\ UNCHANGED <<dgServeVars, flying, dgReader, session>>

\* SUBSCRIBE_DONE is not ordered with what was sent before it.
RecvDone ==
  /\ session = "up" /\ subscription = "open" /\ serving = "over"
  /\ subscription' = "done" /\ writer' = "none"
  /\ UNCHANGED <<dgServeVars, flying, streams, newest, dgReader, session, applied, shown>>

DatagramsNext ==
  \/ \E g \in DatagramGroup : WriteDatagram(g)
  \/ EndDatagrams \/ ServeDatagram \/ ServeEnds
  \/ LoseDatagram \/ DropTrackReader
  \/ ApplyDatagram \/ IgnoreArrival \/ RecvStream \/ RecvDone

DatagramsSpec == DatagramsInit /\ [][DatagramsNext]_datagramsVars

(***************************************************************************)
(* Which arrivals end what, exactly.  The session ends over a datagram     *)
(* that is not the first thing to arrive for the subscription, or that     *)
(* nobody reads; the subscription over a stream that nobody reads, that    *)
(* comes after a datagram, or whose group is not newer than that of a      *)
(* stream before (SubscribeRecv::datagram and subgroup, run_datagrams,     *)
(* recv_stream, the fallback of serve_datagrams).                          *)
(***************************************************************************)
EndsSession(i) == applied[i].kind = "datagram" /\ (i > 1 \/ ~applied[i].read)

EndsSubscription(j) ==
  /\ applied[j].kind = "stream"
  /\ \/ ~applied[j].read
     \/ \E i \in 1..(j - 1) : applied[i].kind = "datagram" \/ applied[i].g >= applied[j].g

EndsForCause ==
  /\ session = "down" <=> \E i \in DOMAIN applied : EndsSession(i)
  /\ subscription = "ended" <=> \E j \in DOMAIN applied : EndsSubscription(j)

=============================================================================
