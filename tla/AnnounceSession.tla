--------------------------- MODULE AnnounceSession ---------------------------
(***************************************************************************)
(* Announces across one MoQ session: the publisher's side                  *)
(* (session/publisher.rs, session/announce.rs), the subscriber's side      *)
(* (session/subscriber.rs, session/announced.rs) and the control stream.   *)
(*                                                                         *)
(* Both sides keep a table from a namespace to the receiving half of an    *)
(* Announce or Announced; the messages carry the namespace and nothing     *)
(* else.  A publisher may announce a namespace again, so that a message or *)
(* a drop of an earlier announce can meet the entry of a later one.  Each  *)
(* announce has a number here, which the messages of the model carry so    *)
(* that the properties can tell announces apart: the handlers only look at *)
(* the namespace it stands for.                                            *)
(*                                                                         *)
(* A handler that holds the table's lock is one action.  The two drops are *)
(* split where the code releases it: after the state was checked, and      *)
(* after the entry was removed and before the message is queued.           *)
(***************************************************************************)
EXTENDS Naturals, Sequences, SequencesExt

CONSTANTS
  Namespace,     \* namespaces the publisher may announce
  MaxAnnounces,  \* bound on the announces of the session
  NoAnnounce     \* a vacant entry of a table

ASSUME AnnouncesAssumption == MaxAnnounces \in Nat \ {0}

Announcement == 1 .. MaxAnnounces

ASSUME NoAnnounceAssumption == NoAnnounce \notin Announcement

VARIABLES
  session,   \* "up", "down", or "duplicate": ended by a repeated ANNOUNCE
  toSub,     \* control messages towards the subscriber
  toPub,     \* control messages towards the publisher
  used,      \* how many announces were made
  ns,        \* the namespace of an announce
  announces, \* Publisher.announces
  pub,       \* where the Announce is: none, open, checked, removed or gone
  pubOk,     \* AnnounceState.ok
  pubClosed, \* AnnounceState.closed is an error
  announced, \* Subscriber.announced
  incoming,  \* Subscriber.announced_queue
  sub,       \* where the Announced is: none, queued, held, removed or gone
  subOk,     \* Announced.ok
  clean      \* history: namespaces never announced over an earlier announce

vars == <<session, toSub, toPub, used, ns, announces, pub, pubOk, pubClosed, announced, incoming,
          sub, subOk, clean>>

publisherVars  == <<used, ns, announces, pub, pubOk, pubClosed, clean>>
subscriberVars == <<announced, incoming, sub, subOk>>

Init ==
  /\ session = "up"
  /\ toSub = <<>> /\ toPub = <<>>
  /\ used = 0
  /\ ns \in [Announcement -> Namespace]
  /\ announces = [n \in Namespace |-> NoAnnounce]
  /\ pub = [a \in Announcement |-> "none"]
  /\ pubOk = [a \in Announcement |-> FALSE]
  /\ pubClosed = [a \in Announcement |-> FALSE]
  /\ announced = [n \in Namespace |-> NoAnnounce]
  /\ incoming = <<>>
  /\ sub = [a \in Announcement |-> "none"]
  /\ subOk = [a \in Announcement |-> FALSE]
  /\ clean = Namespace

Msg(type, a) == [type |-> type, announce |-> a]

\* run_recv takes the next message of a live session.
Delivers(channel, types) ==
  /\ session = "up"
  /\ channel # <<>>
  /\ Head(channel).type \in types

\* The namespace the next message of a channel is about.
Subject(channel) == ns[Head(channel).announce]

\* Something of an announce of n is still around, on either side or on the way.
Leftover(n) ==
  \/ \E a \in Announcement : ns[a] = n /\ ~(pub[a] \in {"none", "gone"} /\ sub[a] \in {"none", "gone"})
  \/ \E m \in ToSet(toSub) \cup ToSet(toPub) : ns[m.announce] = n

-----------------------------------------------------------------------------
\* The publisher

(***************************************************************************)
(* Publisher::announce.  ANNOUNCE is queued while the table is locked.  A  *)
(* namespace that has an entry is refused with ServeError::Duplicate and   *)
(* changes nothing.                                                        *)
(***************************************************************************)
Announce(a) ==
  /\ a = used + 1
  /\ announces[ns[a]] = NoAnnounce
  /\ used' = a
  /\ announces' = [announces EXCEPT ![ns[a]] = a]
  /\ pub' = [pub EXCEPT ![a] = "open"]
  /\ toSub' = Append(toSub, Msg("ANNOUNCE", a))
  /\ clean' = IF Leftover(ns[a]) THEN clean \ {ns[a]} ELSE clean
  /\ UNCHANGED <<session, toPub, ns, pubOk, pubClosed, subscriberVars>>

\* Announce::drop: nothing more to do if the peer closed it.
DropAnnounce(a) ==
  /\ pub[a] = "open"
  /\ pub' = [pub EXCEPT ![a] = IF pubClosed[a] THEN "gone" ELSE "checked"]
  /\ UNCHANGED <<session, toSub, toPub, used, ns, announces, pubOk, pubClosed, clean,
                 subscriberVars>>

\* Fault: send_message does not remove the entry.
RemoveAnnounceKeeps(a) ==
  /\ pub[a] = "checked"
  /\ pub' = [pub EXCEPT ![a] = "removed"]
  /\ UNCHANGED <<session, toSub, toPub, used, ns, announces, pubOk, pubClosed, clean,
                 subscriberVars>>

\* Announce::drop, send_message: drop_announce removes whatever the namespace has.
RemoveAnnounce(a) ==
  /\ pub[a] = "checked"
  /\ pub' = [pub EXCEPT ![a] = "removed"]
  /\ announces' = [announces EXCEPT ![ns[a]] = NoAnnounce]
  /\ UNCHANGED <<session, toSub, toPub, used, ns, pubOk, pubClosed, clean, subscriberVars>>

\* Announce::drop, send_message: the lock is released, UNANNOUNCE is queued.
PushUnannounce(a) ==
  /\ pub[a] = "removed"
  /\ pub' = [pub EXCEPT ![a] = "gone"]
  /\ toSub' = Append(toSub, Msg("UNANNOUNCE", a))
  /\ UNCHANGED <<session, toPub, used, ns, announces, pubOk, pubClosed, clean, subscriberVars>>

\* recv_announce_ok: for whichever announce the namespace has now.
RecvAnnounceOk ==
  /\ Delivers(toPub, {"ANNOUNCE_OK"})
  /\ LET a == announces[Subject(toPub)]
     IN pubOk' = IF a = NoAnnounce THEN pubOk ELSE [pubOk EXCEPT ![a] = TRUE]
  /\ toPub' = Tail(toPub)
  /\ UNCHANGED <<session, toSub, used, ns, announces, pub, pubClosed, clean, subscriberVars>>

\* Fault: the entry goes, the Announce is not told.
RecvAnnounceEndSilent ==
  /\ Delivers(toPub, {"ANNOUNCE_ERROR", "ANNOUNCE_CANCEL"})
  /\ announces' = [announces EXCEPT ![Subject(toPub)] = NoAnnounce]
  /\ toPub' = Tail(toPub)
  /\ UNCHANGED <<session, toSub, used, ns, pub, pubOk, pubClosed, clean, subscriberVars>>

\* recv_announce_error, recv_announce_cancel: remove the entry, close the Announce.
RecvAnnounceEnd ==
  /\ Delivers(toPub, {"ANNOUNCE_ERROR", "ANNOUNCE_CANCEL"})
  /\ LET a == announces[Subject(toPub)]
     IN pubClosed' = IF a = NoAnnounce THEN pubClosed ELSE [pubClosed EXCEPT ![a] = TRUE]
  /\ announces' = [announces EXCEPT ![Subject(toPub)] = NoAnnounce]
  /\ toPub' = Tail(toPub)
  /\ UNCHANGED <<session, toSub, used, ns, pub, pubOk, clean, subscriberVars>>

-----------------------------------------------------------------------------
\* The subscriber

\* recv_announce: a namespace that has an entry ends the session.
RecvAnnounce ==
  /\ Delivers(toSub, {"ANNOUNCE"})
  /\ toSub' = Tail(toSub)
  /\ LET a == Head(toSub).announce
     IN IF announced[ns[a]] # NoAnnounce
          THEN /\ session' = "duplicate"
               /\ UNCHANGED subscriberVars
          ELSE /\ announced' = [announced EXCEPT ![ns[a]] = a]
               /\ incoming' = Append(incoming, a)
               /\ sub' = [sub EXCEPT ![a] = "queued"]
               /\ UNCHANGED <<session, subOk>>
  /\ UNCHANGED <<toPub, publisherVars>>

\* Fault: UNANNOUNCE leaves the entry, and the Announced open.
RecvUnannounceIgnored ==
  /\ Delivers(toSub, {"UNANNOUNCE"})
  /\ toSub' = Tail(toSub)
  /\ UNCHANGED <<session, toPub, publisherVars, subscriberVars>>

\* recv_unannounce: the entry goes, and with it the half that kept closed() waiting.
RecvUnannounce ==
  /\ Delivers(toSub, {"UNANNOUNCE"})
  /\ announced' = [announced EXCEPT ![Subject(toSub)] = NoAnnounce]
  /\ toSub' = Tail(toSub)
  /\ UNCHANGED <<session, toPub, publisherVars, incoming, sub, subOk>>

\* Subscriber::announced
PopAnnounced ==
  /\ incoming # <<>>
  /\ sub' = [sub EXCEPT ![Head(incoming)] = "held"]
  /\ incoming' = Tail(incoming)
  /\ UNCHANGED <<session, toSub, toPub, publisherVars, announced, subOk>>

\* Announced::ok
AcceptAnnounced(a) ==
  /\ sub[a] = "held"
  /\ ~subOk[a]
  /\ subOk' = [subOk EXCEPT ![a] = TRUE]
  /\ toPub' = Append(toPub, Msg("ANNOUNCE_OK", a))
  /\ UNCHANGED <<session, toSub, publisherVars, announced, incoming, sub>>

\* Announced::closed returns: its half in the table is gone.
PeerClosed(a) == announced[ns[a]] # a

\* Fault: the terminal message is sent without removing the entry.
DropAnnouncedKeeps(a) ==
  /\ sub[a] = "held"
  /\ sub' = [sub EXCEPT ![a] = "removed"]
  /\ UNCHANGED <<session, toSub, toPub, publisherVars, announced, incoming, subOk>>

\* Announced::drop, send_message: remove whatever the namespace has.
DropAnnounced(a) ==
  /\ sub[a] = "held"
  /\ sub' = [sub EXCEPT ![a] = "removed"]
  /\ announced' = [announced EXCEPT ![ns[a]] = NoAnnounce]
  /\ UNCHANGED <<session, toSub, toPub, publisherVars, incoming, subOk>>

\* Announced::drop, send_message: queue the message that ends the announce.
PushAnnounceEnd(a) ==
  /\ sub[a] = "removed"
  /\ sub' = [sub EXCEPT ![a] = "gone"]
  /\ toPub' = Append(toPub, Msg(IF subOk[a] THEN "ANNOUNCE_CANCEL" ELSE "ANNOUNCE_ERROR", a))
  /\ UNCHANGED <<session, toSub, publisherVars, announced, incoming, subOk>>

\* The transport fails.
Disconnect ==
  /\ session = "up"
  /\ session' = "down"
  /\ UNCHANGED <<toSub, toPub, publisherVars, subscriberVars>>

-----------------------------------------------------------------------------
Next ==
  \/ \E a \in Announcement :
       \/ Announce(a)
       \/ DropAnnounce(a)
       \/ RemoveAnnounce(a)
       \/ PushUnannounce(a)
       \/ AcceptAnnounced(a)
       \/ DropAnnounced(a)
       \/ PushAnnounceEnd(a)
  \/ RecvAnnounceOk
  \/ RecvAnnounceEnd
  \/ RecvAnnounce
  \/ RecvUnannounce
  \/ PopAnnounced
  \/ Disconnect

Spec == Init /\ [][Next]_vars

(***************************************************************************)
(* Messages of a live session arrive, a drop that began runs to its end,   *)
(* and the application reads announced() and gives up an Announced whose   *)
(* closed() returned, as the relay's Consumer does.  Publisher::announce   *)
(* returns once the peer closed the announce; otherwise it may go on for   *)
(* ever, with the tasks of its subscriptions.                              *)
(***************************************************************************)
Fairness ==
  /\ WF_vars(RecvAnnounceOk) /\ WF_vars(RecvAnnounceEnd)
  /\ WF_vars(RecvAnnounce) /\ WF_vars(RecvUnannounce)
  /\ WF_vars(PopAnnounced)
  /\ \A a \in Announcement :
       /\ WF_vars(pubClosed[a] /\ DropAnnounce(a))
       /\ WF_vars(RemoveAnnounce(a)) /\ WF_vars(PushUnannounce(a))
       /\ WF_vars(PeerClosed(a) /\ DropAnnounced(a))
       /\ WF_vars(PushAnnounceEnd(a))

FairSpec == Spec /\ Fairness

-----------------------------------------------------------------------------
\* Type correctness.
TypeOK ==
  /\ session \in {"up", "down", "duplicate"}
  /\ toSub \in Seq([type : {"ANNOUNCE", "UNANNOUNCE"}, announce : Announcement])
  /\ toPub \in Seq([type : {"ANNOUNCE_OK", "ANNOUNCE_ERROR", "ANNOUNCE_CANCEL"},
                    announce : Announcement])
  /\ used \in 0 .. MaxAnnounces
  /\ ns \in [Announcement -> Namespace]
  /\ announces \in [Namespace -> Announcement \cup {NoAnnounce}]
  /\ announced \in [Namespace -> Announcement \cup {NoAnnounce}]
  /\ pub \in [Announcement -> {"none", "open", "checked", "removed", "gone"}]
  /\ sub \in [Announcement -> {"none", "queued", "held", "removed", "gone"}]
  /\ pubOk \in [Announcement -> BOOLEAN] /\ pubClosed \in [Announcement -> BOOLEAN]
  /\ subOk \in [Announcement -> BOOLEAN]
  /\ incoming \in Seq(Announcement)
  /\ clean \subseteq Namespace

(***************************************************************************)
(* No table holds the entry of an announce that was dropped, or of another *)
(* namespace, in whatever order drops, messages and new announces of the   *)
(* same namespace interleave.                                              *)
(***************************************************************************)
TablesLive ==
  \A n \in Namespace :
    /\ announces[n] # NoAnnounce =>
         ns[announces[n]] = n /\ pub[announces[n]] \in {"open", "checked"}
    /\ announced[n] # NoAnnounce =>
         ns[announced[n]] = n /\ sub[announced[n]] \in {"queued", "held"}

\* An announce the peer closed has left the table, and one not made yet is blank.
ClosedIsOut ==
  \A a \in Announcement :
    /\ pubClosed[a] => announces[ns[a]] # a
    /\ a > used => pub[a] = "none" /\ ~pubClosed[a]

TablesInv == TypeOK /\ TablesLive /\ ClosedIsOut

\* A message of one of these types about an announce is in a channel.
Carries(channel, types, a) ==
  \E k \in 1 .. Len(channel) : channel[k].announce = a /\ channel[k].type \in types

(***************************************************************************)
(* What a message on its way tells of both sides: its announce has not     *)
(* arrived, or was dropped, or was accepted, or was given up; an ANNOUNCE  *)
(* is sent once and before its UNANNOUNCE.                                 *)
(***************************************************************************)
ToSubInv ==
  /\ \A k \in 1 .. Len(toSub) :
       /\ toSub[k].type = "ANNOUNCE" =>
            sub[toSub[k].announce] = "none" /\ toSub[k].announce <= used
       /\ toSub[k].type = "UNANNOUNCE" => pub[toSub[k].announce] = "gone"
  /\ \A j, k \in 1 .. Len(toSub) :
       toSub[k].type = "ANNOUNCE" /\ toSub[j].announce = toSub[k].announce
         => j = k \/ (k < j /\ toSub[j].type = "UNANNOUNCE")

ToPubInv ==
  \A k \in 1 .. Len(toPub) :
    /\ toPub[k].type = "ANNOUNCE_OK" => subOk[toPub[k].announce]
    /\ toPub[k].type # "ANNOUNCE_OK" => sub[toPub[k].announce] = "gone"

\* The queue of announced() holds each Announced once; one not announced yet is blank.
QueueInv ==
  /\ \A k \in 1 .. Len(incoming) : sub[incoming[k]] = "queued"
  /\ \A j, k \in 1 .. Len(incoming) : incoming[j] = incoming[k] => j = k
  /\ \A a \in Announcement : a > used => sub[a] = "none" /\ ~subOk[a] /\ ~pubOk[a]

\* Something of an announce is still around, on either side or on the way.
Around(a) ==
  \/ pub[a] \notin {"none", "gone"} \/ sub[a] \notin {"none", "gone"}
  \/ Carries(toSub, {"ANNOUNCE", "UNANNOUNCE"}, a)
  \/ Carries(toPub, {"ANNOUNCE_OK", "ANNOUNCE_ERROR", "ANNOUNCE_CANCEL"}, a)

\* Of the announces of a namespace at most one is around.
OneAround(a) == \A b \in Announcement : ns[b] = ns[a] /\ Around(a) /\ Around(b) => a = b

\* Where the tables differ about an announce, what makes them agree is under way.
DifferenceUnderWay(a) ==
  /\ announces[ns[a]] = a =>
       \/ announced[ns[a]] = a \/ Carries(toSub, {"ANNOUNCE"}, a)
       \/ sub[a] = "removed" \/ Carries(toPub, {"ANNOUNCE_ERROR", "ANNOUNCE_CANCEL"}, a)
  /\ announced[ns[a]] = a \/ Carries(toSub, {"ANNOUNCE"}, a) =>
       \/ announces[ns[a]] = a
       \/ pub[a] = "removed" \/ Carries(toSub, {"UNANNOUNCE"}, a)
  /\ announces[ns[a]] = a /\ subOk[a] => pubOk[a] \/ Carries(toPub, {"ANNOUNCE_OK"}, a)
  /\ pubOk[a] => subOk[a]

\* The announces of a clean namespace follow one another, each with its differences under way.
CleanInv ==
  session = "up" =>
    \A a \in Announcement : ns[a] \in clean => OneAround(a) /\ DifferenceUnderWay(a)

AnnounceInv == TablesInv /\ ToSubInv /\ ToPubInv /\ QueueInv /\ CleanInv

(***************************************************************************)
(* A session is only ended by a duplicate ANNOUNCE when some namespace was *)
(* announced again before all traces of the earlier announce were gone;    *)
(* announcing one after the other is safe.                                 *)
(***************************************************************************)
DuplicateNeedsOverlap == session = "duplicate" => clean # Namespace

(***************************************************************************)
(* When nothing about a namespace is on the way or being dropped, both     *)
(* tables hold the same announce of it, or none, and agree on whether it   *)
(* was accepted (same proviso).                                            *)
(***************************************************************************)
TablesAgree ==
  \A n \in clean :
    LET settled ==
          /\ session = "up"
          /\ \A m \in ToSet(toSub) \cup ToSet(toPub) : ns[m.announce] # n
          /\ \A a \in Announcement : ns[a] = n => pub[a] # "removed" /\ sub[a] # "removed"
    IN settled => /\ announces[n] = announced[n]
                  /\ announces[n] # NoAnnounce => pubOk[announces[n]] = subOk[announces[n]]

(***************************************************************************)
(* An announce that is given up by one side is given up by the other,      *)
(* while the session lasts (same proviso): UNANNOUNCE reaches the          *)
(* Announced, and ANNOUNCE_ERROR or ANNOUNCE_CANCEL the Announce.          *)
(***************************************************************************)
UnannounceReaches ==
  \A a \in Announcement :
    pub[a] = "gone" ~> sub[a] = "gone" \/ ns[a] \notin clean \/ session # "up"

CancelReaches ==
  \A a \in Announcement :
    sub[a] = "gone" ~> pub[a] = "gone" \/ ns[a] \notin clean \/ session # "up"

(***************************************************************************)
(* What subscriber.rs:75 says of a terminal message, "Remove our entry on  *)
(* terminal state": the drop of an Announced removes no other's entry.     *)
(***************************************************************************)
RemovesOwnEntry ==
  [][\A a \in Announcement :
       DropAnnounced(a) => announced[ns[a]] \in {a, NoAnnounce}]_vars
=============================================================================
