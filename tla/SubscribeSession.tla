-------------------------- MODULE SubscribeSession --------------------------
(***************************************************************************)
(* The life of subscriptions across one MoQ session: the subscriber's side *)
(* (session/subscriber.rs, session/subscribe.rs), the publisher's side     *)
(* (session/publisher.rs, session/subscribed.rs) and the two directions of *)
(* the control stream between them (session/mod.rs: run_send, run_recv).   *)
(*                                                                         *)
(* The outgoing queue and the control stream of a direction are both FIFO  *)
(* and are one sequence here.  Whatever is done while a lock is held is    *)
(* one action; code that releases a lock, or awaits, in between is split   *)
(* there: subscribe() sends SUBSCRIBE before it stores the entry that the  *)
(* answer is looked up in, and Subscribed::drop removes its entry before   *)
(* it queues the last message.                                             *)
(*                                                                         *)
(* The publisher answers a SUBSCRIBE through the announce of the namespace *)
(* when there is one (Publisher::announce), and through the queue of       *)
(* unknown subscriptions otherwise (the relay's Producer::run).  One       *)
(* announce of one namespace is modelled; tracks are left to Tracks.tla,   *)
(* what is streamed to the data plane.                                     *)
(***************************************************************************)
EXTENDS Naturals, Sequences

CONSTANT Id    \* subscribe ids; subscribe_next never repeats one

VARIABLES
  session,    \* "up", or "down" once the transport failed
  toPub,      \* control messages towards the publisher
  toSub,      \* control messages towards the subscriber
  caller,     \* Subscriber::subscribe: none, sent, waiting or gone
  subscribes, \* Subscriber.subscribes: the ids with a SubscribeRecv
  subOk,      \* SubscribeState.ok
  subState,   \* what Subscribe::closed() finds: open, error or dropped
  streamed,   \* history: the publisher reached the streaming of an id
  lost,       \* history: last answers handled before their entry existed
  phase,      \* where the publisher's Subscribed is
  viaAnnounce,\* the Subscribed is owned by the announce, not by Producer::run
  subscribed, \* Publisher.subscribed: the ids with a SubscribedRecv
  pubOk,      \* Subscribed.ok: SUBSCRIBE_OK was sent
  pubClosed,  \* SubscribedState.closed
  mode,       \* how the track is streamed, once known
  annQueue,   \* AnnounceState.subscribers
  unknown,    \* Publisher.unknown
  annEntry,   \* Publisher.announces has the namespace
  annLoop,    \* Publisher::announce is running
  sent        \* history: the answers sent for an id

vars == <<session, toPub, toSub, caller, subscribes, subOk, subState, streamed, lost, phase,
          viaAnnounce, subscribed, pubOk, pubClosed, mode, annQueue, unknown, annEntry, annLoop,
          sent>>

subscriberVars == <<caller, subscribes, subOk, subState, streamed, lost>>
servedVars     == <<phase, viaAnnounce, subscribed, pubOk, pubClosed, mode>>
announceVars   == <<annQueue, unknown, annEntry, annLoop>>

Msg(type, i) == [type |-> type, id |-> i]

\* The answers that end a subscription.
Terminal == {"SUBSCRIBE_ERROR", "SUBSCRIBE_DONE"}

\* A Subscribed in the hands of a task, as opposed to a queue.
InTask == {"accepted", "serving", "streaming"}

Init ==
  /\ session = "up"
  /\ toPub = <<>> /\ toSub = <<>>
  /\ caller = [i \in Id |-> "none"]
  /\ subscribes = {}
  /\ subOk = [i \in Id |-> FALSE]
  /\ subState = [i \in Id |-> "open"]
  /\ streamed = {} /\ lost = {}
  /\ phase = [i \in Id |-> "none"]
  /\ viaAnnounce = [i \in Id |-> FALSE]
  /\ subscribed = {}
  /\ pubOk = [i \in Id |-> FALSE]
  /\ pubClosed = [i \in Id |-> "none"]
  /\ mode = [i \in Id |-> "unknown"]
  /\ annQueue = <<>> /\ unknown = <<>>
  /\ annEntry \in BOOLEAN
  /\ annLoop = annEntry
  /\ sent = [i \in Id |-> <<>>]

\* run_recv takes the next message; it stops with the transport.
Delivers(channel, types) ==
  /\ session = "up"
  /\ channel # <<>>
  /\ Head(channel).type \in types

-----------------------------------------------------------------------------
\* The subscriber

\* subscribe: a fresh id, and Subscribe::new sends SUBSCRIBE.
SendSubscribe(i) ==
  /\ caller[i] = "none"
  /\ caller' = [caller EXCEPT ![i] = "sent"]
  /\ toPub' = Append(toPub, Msg("SUBSCRIBE", i))
  /\ UNCHANGED <<session, toSub, subscribes, subOk, subState, streamed, lost, servedVars,
                 announceVars, sent>>

\* subscribe: only now is the entry stored; then closed() is awaited.
InsertEntry(i) ==
  /\ caller[i] = "sent"
  /\ caller' = [caller EXCEPT ![i] = "waiting"]
  /\ subscribes' = subscribes \cup {i}
  /\ UNCHANGED <<session, toPub, toSub, subOk, subState, streamed, lost, servedVars, announceVars,
                 sent>>

(***************************************************************************)
(* subscribe returns or its future is dropped: Subscribe::drop sends       *)
(* UNSUBSCRIBE in every case and leaves the entry in the map.              *)
(***************************************************************************)
DropSubscribe(i) ==
  /\ caller[i] = "waiting"
  /\ caller' = [caller EXCEPT ![i] = "gone"]
  /\ toPub' = Append(toPub, Msg("UNSUBSCRIBE", i))
  /\ UNCHANGED <<session, toSub, subscribes, subOk, subState, streamed, lost, servedVars,
                 announceVars, sent>>

(***************************************************************************)
(* SubscribeRecv::error: the entry is out of the map and its half of the   *)
(* state goes.  Closing the track's writer may fail (all its readers are   *)
(* gone, or it is closed already); the error is then not stored and the    *)
(* caller finds the state dropped.                                         *)
(***************************************************************************)
EndSubscribe(i) ==
  /\ subscribes' = subscribes \ {i}
  /\ \E found \in {"error", "dropped"} : subState' = [subState EXCEPT ![i] = found]

\* recv_subscribe_ok: stored unless it is a repeat or the caller is gone.
RecvSubscribeOk ==
  /\ Delivers(toSub, {"SUBSCRIBE_OK"})
  /\ LET i == Head(toSub).id
     IN subOk' = [subOk EXCEPT ![i] = @ \/ (i \in subscribes /\ caller[i] # "gone")]
  /\ toSub' = Tail(toSub)
  /\ UNCHANGED <<session, toPub, caller, subscribes, subState, streamed, lost, servedVars,
                 announceVars, sent>>

\* Fault: recv_subscribe_done looks the entry up and does not remove it.
RecvLastKeepsEntry ==
  /\ Delivers(toSub, Terminal)
  /\ LET i == Head(toSub).id
     IN /\ IF i \in subscribes THEN subState' = [subState EXCEPT ![i] = "error"]
                               ELSE UNCHANGED subState
        /\ lost' = IF caller[i] = "sent" THEN lost \cup {i} ELSE lost
  /\ toSub' = Tail(toSub)
  /\ UNCHANGED <<session, toPub, caller, subscribes, subOk, streamed, servedVars, announceVars,
                 sent>>

\* Fault: recv_subscribe_done removes the entry and does not tell the caller.
RecvLastSilent ==
  /\ Delivers(toSub, Terminal)
  /\ LET i == Head(toSub).id
     IN /\ subscribes' = subscribes \ {i}
        /\ lost' = IF caller[i] = "sent" THEN lost \cup {i} ELSE lost
  /\ toSub' = Tail(toSub)
  /\ UNCHANGED <<session, toPub, caller, subOk, subState, streamed, servedVars, announceVars, sent>>

\* recv_subscribe_error and recv_subscribe_done; without an entry, ignored.
RecvLast ==
  /\ Delivers(toSub, Terminal)
  /\ LET i == Head(toSub).id
     IN /\ IF i \in subscribes THEN EndSubscribe(i) ELSE UNCHANGED <<subscribes, subState>>
        /\ lost' = IF caller[i] = "sent" THEN lost \cup {i} ELSE lost
  /\ toSub' = Tail(toSub)
  /\ UNCHANGED <<session, toPub, caller, subOk, streamed, servedVars, announceVars, sent>>

\* recv_stream: a stream of the subscription fails with a ServeError.
RecvStreamFails(i) ==
  /\ session = "up"
  /\ i \in streamed \cap subscribes
  /\ EndSubscribe(i)
  /\ UNCHANGED <<session, toPub, toSub, caller, subOk, streamed, lost, servedVars, announceVars,
                 sent>>

-----------------------------------------------------------------------------
\* The publisher

(***************************************************************************)
(* recv_subscribe: store the SubscribedRecv (a known id is refused), then  *)
(* route to the announce or to the queue of unknown subscriptions.         *)
(***************************************************************************)
RecvSubscribe ==
  /\ Delivers(toPub, {"SUBSCRIBE"})
  /\ LET i == Head(toPub).id
     IN IF i \in subscribed
          THEN UNCHANGED <<phase, viaAnnounce, subscribed, annQueue, unknown>>
          ELSE /\ subscribed' = subscribed \cup {i}
               /\ phase' = [phase EXCEPT ![i] = "queued"]
               /\ viaAnnounce' = [viaAnnounce EXCEPT ![i] = annEntry]
               /\ annQueue' = IF annEntry THEN Append(annQueue, i) ELSE annQueue
               /\ unknown' = IF annEntry THEN unknown ELSE Append(unknown, i)
  /\ toPub' = Tail(toPub)
  /\ UNCHANGED <<session, toSub, subscriberVars, pubOk, pubClosed, mode, annEntry, annLoop, sent>>

\* Fault: recv_unsubscribe only drops the entry.
RecvUnsubscribeForgets ==
  /\ Delivers(toPub, {"UNSUBSCRIBE"})
  /\ subscribed' = subscribed \ {Head(toPub).id}
  /\ toPub' = Tail(toPub)
  /\ UNCHANGED <<session, toSub, subscriberVars, phase, viaAnnounce, pubOk, pubClosed, mode,
                 announceVars, sent>>

\* recv_unsubscribe: closed with Cancel unless it is closed already.
RecvUnsubscribe ==
  /\ Delivers(toPub, {"UNSUBSCRIBE"})
  /\ LET i == Head(toPub).id
     IN pubClosed' = IF i \in subscribed /\ pubClosed[i] = "none"
                       THEN [pubClosed EXCEPT ![i] = "cancel"] ELSE pubClosed
  /\ toPub' = Tail(toPub)
  /\ UNCHANGED <<session, toSub, subscriberVars, phase, viaAnnounce, subscribed, pubOk, mode,
                 announceVars, sent>>

(***************************************************************************)
(* Announce::subscribed hands the next one to a task of Publisher::announce*)
(* and returns None, queue or no queue, once the peer refused the announce.*)
(***************************************************************************)
PopAnnounce ==
  /\ annLoop /\ annEntry
  /\ annQueue # <<>>
  /\ phase' = [phase EXCEPT ![Head(annQueue)] = "accepted"]
  /\ annQueue' = Tail(annQueue)
  /\ UNCHANGED <<session, toPub, toSub, subscriberVars, viaAnnounce, subscribed, pubOk, pubClosed,
                 mode, unknown, annEntry, annLoop, sent>>

\* Publisher::subscribed, popped by the relay's Producer::run.
PopUnknown ==
  /\ unknown # <<>>
  /\ phase' = [phase EXCEPT ![Head(unknown)] = "accepted"]
  /\ unknown' = Tail(unknown)
  /\ UNCHANGED <<session, toPub, toSub, subscriberVars, viaAnnounce, subscribed, pubOk, pubClosed,
                 mode, annQueue, annEntry, annLoop, sent>>

\* serve_inner: SUBSCRIBE_OK goes out, then track.mode() is awaited.
Serve(i) ==
  /\ phase[i] = "accepted"
  /\ phase' = [phase EXCEPT ![i] = "serving"]
  /\ pubOk' = [pubOk EXCEPT ![i] = TRUE]
  /\ toSub' = Append(toSub, Msg("SUBSCRIBE_OK", i))
  /\ sent' = [sent EXCEPT ![i] = Append(@, "SUBSCRIBE_OK")]
  /\ UNCHANGED <<session, toPub, subscriberVars, viaAnnounce, subscribed, pubClosed, mode,
                 announceVars>>

\* track.mode() returns: serve_subgroups, or serve_track / serve_datagrams.
Stream(i, m) ==
  /\ phase[i] = "serving"
  /\ phase' = [phase EXCEPT ![i] = "streaming"]
  /\ mode' = [mode EXCEPT ![i] = m]
  /\ streamed' = streamed \cup {i}
  /\ UNCHANGED <<session, toPub, toSub, caller, subscribes, subOk, subState, lost, viaAnnounce,
                 subscribed, pubOk, pubClosed, announceVars, sent>>

(***************************************************************************)
(* Subscribed::drop, first half: read the state, then send_message removes *)
(* the SubscribedRecv.  The Subscribed is closed with err first, unless    *)
(* err is "none" or it is closed already.                                  *)
(***************************************************************************)
BeginDrop(i, err) ==
  /\ phase' = [phase EXCEPT ![i] = "dropping"]
  /\ subscribed' = subscribed \ {i}
  /\ pubClosed' = IF pubClosed[i] = "none" THEN [pubClosed EXCEPT ![i] = err] ELSE pubClosed
  /\ UNCHANGED <<session, toPub, toSub, subscriberVars, viaAnnounce, pubOk, mode, sent>>

\* Fault: the last message is always SUBSCRIBE_DONE.
EndDropAlwaysDone(i) ==
  /\ phase[i] = "dropping"
  /\ phase' = [phase EXCEPT ![i] = "gone"]
  /\ toSub' = Append(toSub, Msg("SUBSCRIBE_DONE", i))
  /\ sent' = [sent EXCEPT ![i] = Append(@, "SUBSCRIBE_DONE")]
  /\ UNCHANGED <<session, toPub, subscriberVars, viaAnnounce, subscribed, pubOk, pubClosed, mode,
                 announceVars>>

\* Subscribed::drop, second half: queue the last message.
EndDrop(i) ==
  /\ phase[i] = "dropping"
  /\ phase' = [phase EXCEPT ![i] = "gone"]
  /\ LET type == IF pubOk[i] THEN "SUBSCRIBE_DONE" ELSE "SUBSCRIBE_ERROR"
     IN /\ toSub' = Append(toSub, Msg(type, i))
        /\ sent' = [sent EXCEPT ![i] = Append(@, type)]
  /\ UNCHANGED <<session, toPub, subscriberVars, viaAnnounce, subscribed, pubOk, pubClosed, mode,
                 announceVars>>

\* serve_subscribe and Producer::serve: there is no such track.
Refuse(i) ==
  /\ phase[i] = "accepted"
  /\ \E err \in {"notfound", "none"} : BeginDrop(i, err)
  /\ UNCHANGED announceVars

\* track.mode() fails.
ModeFails(i) ==
  /\ phase[i] = "serving"
  /\ BeginDrop(i, "error")
  /\ UNCHANGED announceVars

\* The track ends, or streaming it fails.
StreamEnds(i) ==
  /\ phase[i] = "streaming"
  /\ \E err \in {"none", "error"} : BeginDrop(i, err)
  /\ UNCHANGED announceVars

\* Only serve_subgroups selects on closed().
StreamCancelled(i) ==
  /\ phase[i] = "streaming"
  /\ mode[i] = "subgroups"
  /\ pubClosed[i] # "none"
  /\ BeginDrop(i, "none")
  /\ UNCHANGED announceVars

-----------------------------------------------------------------------------
\* The announce that subscriptions are routed to

\* recv_announce_error / recv_announce_cancel take the entry away.
AnnounceRefused ==
  /\ session = "up"
  /\ annEntry
  /\ annEntry' = FALSE
  /\ UNCHANGED <<session, toPub, toSub, subscriberVars, servedVars, annQueue, unknown, annLoop, sent>>

\* Publisher::announce returns, or its future is dropped.
AnnounceStops ==
  /\ annLoop
  /\ annLoop' = FALSE
  /\ UNCHANGED <<session, toPub, toSub, subscriberVars, servedVars, annQueue, unknown, annEntry, sent>>

\* Its subscribe_tasks are dropped with it ...
DropTask(i) ==
  /\ ~annLoop
  /\ viaAnnounce[i] /\ phase[i] \in InTask
  /\ BeginDrop(i, "none")
  /\ UNCHANGED announceVars

TasksDropped == \A i \in Id : viaAnnounce[i] => phase[i] \notin InTask

\* ... then Announce::drop removes the entry, unless the peer did ...
Unannounce ==
  /\ ~annLoop /\ TasksDropped
  /\ annEntry
  /\ annEntry' = FALSE
  /\ UNCHANGED <<session, toPub, toSub, subscriberVars, servedVars, annQueue, unknown, annLoop, sent>>

\* ... and AnnounceState::drop closes what is still queued.
FreeAnnounceQueue ==
  /\ ~annLoop /\ TasksDropped
  /\ ~annEntry
  /\ annQueue # <<>>
  /\ BeginDrop(Head(annQueue), "notfound")
  /\ annQueue' = Tail(annQueue)
  /\ UNCHANGED <<unknown, annEntry, annLoop>>

\* The transport fails: run_recv, run_send and run_streams return.
Disconnect ==
  /\ session = "up"
  /\ session' = "down"
  /\ UNCHANGED <<toPub, toSub, subscriberVars, servedVars, announceVars, sent>>

-----------------------------------------------------------------------------
Next ==
  \/ \E i \in Id :
       \/ SendSubscribe(i)
       \/ InsertEntry(i)
       \/ DropSubscribe(i)
       \/ RecvStreamFails(i)
       \/ Serve(i)
       \/ \E m \in {"subgroups", "other"} : Stream(i, m)
       \/ Refuse(i)
       \/ ModeFails(i)
       \/ StreamEnds(i)
       \/ StreamCancelled(i)
       \/ DropTask(i)
       \/ EndDrop(i)
  \/ RecvSubscribeOk
  \/ RecvLast
  \/ RecvSubscribe
  \/ RecvUnsubscribe
  \/ PopAnnounce
  \/ PopUnknown
  \/ AnnounceRefused
  \/ AnnounceStops
  \/ Unannounce
  \/ FreeAnnounceQueue
  \/ Disconnect

Spec == Init /\ [][Next]_vars

(***************************************************************************)
(* Tasks that can run are run and messages of a live session arrive.  The  *)
(* application answers what it popped, a track's mode becomes known or the *)
(* track closes, and a caller whose subscription ended returns.  A track   *)
(* need never end, and no one has to unsubscribe.                          *)
(***************************************************************************)
Fairness ==
  /\ WF_vars(RecvSubscribeOk) /\ WF_vars(RecvLast)
  /\ WF_vars(RecvSubscribe) /\ WF_vars(RecvUnsubscribe)
  /\ WF_vars(PopAnnounce) /\ WF_vars(PopUnknown)
  /\ WF_vars(~annEntry /\ AnnounceStops)
  /\ WF_vars(Unannounce) /\ WF_vars(FreeAnnounceQueue)
  /\ \A i \in Id :
       /\ WF_vars(InsertEntry(i))
       /\ WF_vars(subState[i] # "open" /\ DropSubscribe(i))
       /\ WF_vars(Serve(i) \/ Refuse(i))
       /\ WF_vars(ModeFails(i) \/ \E m \in {"subgroups", "other"} : Stream(i, m))
       /\ WF_vars(StreamCancelled(i))
       /\ WF_vars(DropTask(i))
       /\ WF_vars(EndDrop(i))

FairSpec == Spec /\ Fairness

-----------------------------------------------------------------------------
\* Type correctness.
TypeOK ==
  /\ session \in {"up", "down"}
  /\ toPub \in Seq([type : {"SUBSCRIBE", "UNSUBSCRIBE"}, id : Id])
  /\ toSub \in Seq([type : {"SUBSCRIBE_OK"} \cup Terminal, id : Id])
  /\ caller \in [Id -> {"none", "sent", "waiting", "gone"}]
  /\ subscribes \subseteq Id /\ subscribed \subseteq Id
  /\ subOk \in [Id -> BOOLEAN] /\ pubOk \in [Id -> BOOLEAN]
  /\ subState \in [Id -> {"open", "error", "dropped"}]
  /\ streamed \subseteq Id /\ lost \subseteq Id
  /\ phase \in [Id -> {"none", "queued", "accepted", "serving", "streaming", "dropping", "gone"}]
  /\ viaAnnounce \in [Id -> BOOLEAN]
  /\ pubClosed \in [Id -> {"none", "cancel", "notfound", "error"}]
  /\ mode \in [Id -> {"unknown", "subgroups", "other"}]
  /\ annQueue \in Seq(Id) /\ unknown \in Seq(Id)
  /\ annEntry \in BOOLEAN /\ annLoop \in BOOLEAN
  /\ sent \in [Id -> Seq({"SUBSCRIBE_OK"} \cup Terminal)]

(***************************************************************************)
(* The publisher's lookup table is exact: an id is in it from the arrival  *)
(* of its SUBSCRIBE until its Subscribed is dropped, so that no dropped    *)
(* subscription leaks and UNSUBSCRIBE finds every one that is served.      *)
(***************************************************************************)
PublisherTableExact ==
  \A i \in Id : i \in subscribed <=> phase[i] \in {"queued", "accepted", "serving", "streaming"}

(***************************************************************************)
(* A queued Subscribed is in one of the two queues, once; nothing else is. *)
(***************************************************************************)
QueuedOnce ==
  /\ \A k \in 1 .. Len(annQueue) : phase[annQueue[k]] = "queued"
  /\ \A k \in 1 .. Len(unknown) : phase[unknown[k]] = "queued"
  /\ \A j, k \in 1 .. Len(annQueue) : annQueue[j] = annQueue[k] => j = k
  /\ \A j, k \in 1 .. Len(unknown) : unknown[j] = unknown[k] => j = k
  /\ \A j \in 1 .. Len(annQueue), k \in 1 .. Len(unknown) : annQueue[j] # unknown[k]

(***************************************************************************)
(* subscribe_next repeats no id: a SUBSCRIBE on its way is the only one of *)
(* its id, and the publisher has not met that id.                          *)
(***************************************************************************)
AskedOnce ==
  /\ \A k \in 1 .. Len(toPub) :
       toPub[k].type = "SUBSCRIBE" =>
         phase[toPub[k].id] = "none" /\ caller[toPub[k].id] # "none"
  /\ \A j, k \in 1 .. Len(toPub) :
       toPub[j].type = "SUBSCRIBE" /\ toPub[k].type = "SUBSCRIBE" /\ toPub[j].id = toPub[k].id
         => j = k
  /\ \A i \in Id : caller[i] = "none" => phase[i] = "none"

\* What was answered at each stage of a Subscribed.
AnsweredByPhase ==
  \A i \in Id :
    /\ phase[i] \in {"none", "queued", "accepted"} => sent[i] = <<>> /\ ~pubOk[i]
    /\ phase[i] \in {"serving", "streaming"} => sent[i] = <<"SUBSCRIBE_OK">> /\ pubOk[i]
    /\ phase[i] = "dropping" => sent[i] = IF pubOk[i] THEN <<"SUBSCRIBE_OK">> ELSE <<>>
    /\ phase[i] = "gone" =>
         sent[i] \in {<<"SUBSCRIBE_ERROR">>, <<"SUBSCRIBE_OK", "SUBSCRIBE_DONE">>}

\* The last answer to a subscription has not reached the subscriber.
LastOnItsWay(i) == \E k \in 1 .. Len(toSub) : toSub[k].id = i /\ toSub[k].type \in Terminal

(***************************************************************************)
(* An entry belongs to a caller that stored it, and an entry that exists   *)
(* or is about to be stored for a finished subscription still has its last *)
(* answer coming, or the answer was lost before.                           *)
(***************************************************************************)
EntryAwaitsLast ==
  \A i \in Id :
    /\ i \in subscribes => caller[i] \in {"waiting", "gone"}
    /\ phase[i] = "gone" /\ (i \in subscribes \/ caller[i] = "sent")
         => i \in lost \/ LastOnItsWay(i)

SubscribeInv ==
  /\ TypeOK
  /\ PublisherTableExact
  /\ QueuedOnce
  /\ AskedOnce
  /\ AnsweredByPhase
  /\ EntryAwaitsLast

(***************************************************************************)
(* The answers to one SUBSCRIBE, whichever task drops the Subscribed and   *)
(* when: nothing, SUBSCRIBE_ERROR alone, or SUBSCRIBE_OK and then at most  *)
(* one SUBSCRIBE_DONE.                                                     *)
(***************************************************************************)
AnswersWellFormed ==
  \A i \in Id :
    sent[i] \in {<<>>, <<"SUBSCRIBE_ERROR">>, <<"SUBSCRIBE_OK">>,
                 <<"SUBSCRIBE_OK", "SUBSCRIBE_DONE">>}

(***************************************************************************)
(* Once the last answer to a subscription was handled, the subscriber has  *)
(* forgotten its id, except when the answer overtook the entry: subscribe  *)
(* sends SUBSCRIBE before it stores the entry.                             *)
(***************************************************************************)
LastAnswerClearsEntry ==
  \A i \in Id :
    (sent[i] # <<>> /\ sent[i][Len(sent[i])] \in Terminal /\ i \in subscribes)
      => i \in lost \/ LastOnItsWay(i)

(***************************************************************************)
(* A caller whose subscription the publisher has ended returns, unless the *)
(* session fails first or the last answer overtook the entry.              *)
(***************************************************************************)
CallerReleased ==
  \A i \in Id :
    (caller[i] = "waiting" /\ phase[i] = "gone")
      ~> (caller[i] = "gone" \/ i \in lost \/ session = "down")

(***************************************************************************)
(* An abandoned subscription is ended by the publisher and forgotten by    *)
(* both, in every mode that listens to UNSUBSCRIBE, while the session is   *)
(* up: whether UNSUBSCRIBE finds it queued, waiting for the track's mode,  *)
(* streaming, or already dropped.                                          *)
(***************************************************************************)
UnsubscribeEnds ==
  \A i \in Id :
    caller[i] = "gone"
      ~> \/ phase[i] = "gone" /\ (i \notin subscribes \/ i \in lost)
         \/ mode[i] = "other"
         \/ session = "down"

(***************************************************************************)
(* What session/mod.rs:227 expects when the connection closes, "let them   *)
(* fail naturally when connection closes", and the relay's session.rs:46   *)
(* of the tasks it leaves running, "They will detect the closed connection *)
(* and clean up on their own time": no caller and no served subscription   *)
(* outlives the session for ever.                                          *)
(***************************************************************************)
CleanedUpAfterClose ==
  session = "down" ~>
    \A i \in Id : caller[i] \in {"none", "gone"} /\ phase[i] \in {"none", "gone"}
=============================================================================
