---------------------------- MODULE AnnounceProofs ----------------------------
(***************************************************************************)
(* The announces of a session, for every set of namespaces and every       *)
(* number of announces.                                                    *)
(*                                                                         *)
(* TablesInv: no table holds the entry of an announce that was dropped,    *)
(* although both drops remove by namespace and may hit the entry of        *)
(* another announce.  TablesLive alone is not inductive: an Announce that  *)
(* the peer closed is dropped without touching the table, so one must know *)
(* that its entry was removed when it was closed (ClosedIsOut).            *)
(*                                                                         *)
(* CleanInv: of a namespace announced only when nothing is left of its     *)
(* last announce, at most one announce is around (OneAround), and where    *)
(* the two tables differ about it, the message or the drop that makes them *)
(* agree is under way (DifferenceUnderWay).  The two need each other, and  *)
(* what ToSubInv, ToPubInv and QueueInv say of messages and queue: a       *)
(* message taken must be about the announce that the entry it meets is of. *)
(***************************************************************************)
EXTENDS AnnounceSession, TLAPS

\* The tables are empty when the session starts.
LEMMA InitTablesInv == Init => TablesInv
BY NoAnnounceAssumption, AnnouncesAssumption
   DEF Init, TablesInv, TypeOK, TablesLive, ClosedIsOut, Announcement

\* The next message is about an announce of some namespace.
LEMMA SubjectType ==
  ASSUME TypeOK
  PROVE  /\ toSub # <<>> => Head(toSub).announce \in Announcement /\ Subject(toSub) \in Namespace
         /\ toPub # <<>> => Head(toPub).announce \in Announcement /\ Subject(toPub) \in Namespace
<1> DEFINE ToSub == [type : {"ANNOUNCE", "UNANNOUNCE"}, announce : Announcement]
           ToPub == [type : {"ANNOUNCE_OK", "ANNOUNCE_ERROR", "ANNOUNCE_CANCEL"},
                     announce : Announcement]
<1>1. \A m : m \in ToSub \/ m \in ToPub => m.announce \in Announcement
  OBVIOUS
<1>2. toSub \in Seq(ToSub) /\ toPub \in Seq(ToPub) /\ ns \in [Announcement -> Namespace]
  BY DEF TypeOK
<1> HIDE DEF ToSub, ToPub
<1>3. toSub # <<>> => Head(toSub) \in ToSub
  BY <1>2
<1>4. toPub # <<>> => Head(toPub) \in ToPub
  BY <1>2
<1>5. QED
  BY <1>1, <1>2, <1>3, <1>4 DEF Subject

\* Every step of either side preserves the invariant.
LEMMA NextTablesInv == TablesInv /\ [Next]_vars => TablesInv'
<1> SUFFICES ASSUME TablesInv, [Next]_vars
             PROVE  TablesInv'
  OBVIOUS
<1> USE NoAnnounceAssumption, AnnouncesAssumption
<1> USE DEF TablesInv
<1>1. ASSUME NEW a \in Announcement, Announce(a)
      PROVE  TablesInv'
  <2>1. TypeOK'
    BY <1>1 DEF Announce, TypeOK, Msg, subscriberVars, Announcement
  <2>2. TablesLive'
    BY <1>1 DEF Announce, TypeOK, TablesLive, subscriberVars
  <2>3. ClosedIsOut'
    BY <1>1 DEF Announce, TypeOK, ClosedIsOut, subscriberVars, Announcement
  <2>4. QED
    BY <2>1, <2>2, <2>3
<1>2. ASSUME NEW a \in Announcement, DropAnnounce(a)
      PROVE  TablesInv'
  <2>1. TypeOK'
    BY <1>2 DEF DropAnnounce, TypeOK, subscriberVars
  <2>2. TablesLive'
    BY <1>2 DEF DropAnnounce, TypeOK, TablesLive, ClosedIsOut, subscriberVars
  <2>3. ClosedIsOut'
    BY <1>2 DEF DropAnnounce, TypeOK, ClosedIsOut, subscriberVars
  <2>4. QED
    BY <2>1, <2>2, <2>3
<1>3. ASSUME NEW a \in Announcement, RemoveAnnounce(a)
      PROVE  TablesInv'
  <2>1. TypeOK'
    BY <1>3 DEF RemoveAnnounce, TypeOK, subscriberVars
  <2>2. TablesLive'
    BY <1>3 DEF RemoveAnnounce, TypeOK, TablesLive, subscriberVars
  <2>3. ClosedIsOut'
    BY <1>3 DEF RemoveAnnounce, TypeOK, ClosedIsOut, subscriberVars
  <2>4. QED
    BY <2>1, <2>2, <2>3
<1>4. ASSUME NEW a \in Announcement, PushUnannounce(a)
      PROVE  TablesInv'
  <2>1. TypeOK'
    BY <1>4 DEF PushUnannounce, TypeOK, Msg, subscriberVars
  <2>2. TablesLive'
    BY <1>4 DEF PushUnannounce, TypeOK, TablesLive, subscriberVars
  <2>3. ClosedIsOut'
    BY <1>4 DEF PushUnannounce, TypeOK, ClosedIsOut, subscriberVars
  <2>4. QED
    BY <2>1, <2>2, <2>3
<1>5. ASSUME NEW a \in Announcement, AcceptAnnounced(a)
      PROVE  TablesInv'
  <2>1. TypeOK'
    BY <1>5 DEF AcceptAnnounced, TypeOK, Msg, publisherVars
  <2>2. TablesLive' /\ ClosedIsOut'
    BY <1>5 DEF AcceptAnnounced, TablesLive, ClosedIsOut, publisherVars
  <2>3. QED
    BY <2>1, <2>2
<1>6. ASSUME NEW a \in Announcement, DropAnnounced(a)
      PROVE  TablesInv'
  <2>1. TypeOK'
    BY <1>6 DEF DropAnnounced, TypeOK, publisherVars
  <2>2. TablesLive'
    BY <1>6 DEF DropAnnounced, TypeOK, TablesLive, publisherVars
  <2>3. ClosedIsOut'
    BY <1>6 DEF DropAnnounced, ClosedIsOut, publisherVars
  <2>4. QED
    BY <2>1, <2>2, <2>3
<1>7. ASSUME NEW a \in Announcement, PushAnnounceEnd(a)
      PROVE  TablesInv'
  <2>1. TypeOK'
    BY <1>7 DEF PushAnnounceEnd, TypeOK, Msg, publisherVars
  <2>2. TablesLive'
    BY <1>7 DEF PushAnnounceEnd, TypeOK, TablesLive, publisherVars
  <2>3. ClosedIsOut'
    BY <1>7 DEF PushAnnounceEnd, ClosedIsOut, publisherVars
  <2>4. QED
    BY <2>1, <2>2, <2>3
<1>8. ASSUME RecvAnnounceOk
      PROVE  TablesInv'
  <2>1. Subject(toPub) \in Namespace
    BY <1>8, SubjectType DEF RecvAnnounceOk, Delivers
  <2>2. TypeOK'
    BY <1>8, <2>1 DEF RecvAnnounceOk, Delivers, TypeOK, subscriberVars
  <2>3. TablesLive' /\ ClosedIsOut'
    BY <1>8 DEF RecvAnnounceOk, TablesLive, ClosedIsOut, subscriberVars
  <2>4. QED
    BY <2>2, <2>3
<1>9. ASSUME RecvAnnounceEnd
      PROVE  TablesInv'
  <2> DEFINE n == Subject(toPub)
  <2>1. n \in Namespace
    BY <1>9, SubjectType DEF RecvAnnounceEnd, Delivers
  <2> HIDE DEF n
  <2>2. /\ pubClosed' = IF announces[n] = NoAnnounce THEN pubClosed
                                          ELSE [pubClosed EXCEPT ![announces[n]] = TRUE]
        /\ announces' = [announces EXCEPT ![n] = NoAnnounce]
        /\ toPub' = Tail(toPub) /\ toPub # <<>>
        /\ UNCHANGED <<session, toSub, used, ns, pub, pubOk, clean, subscriberVars>>
    BY <1>9 DEF RecvAnnounceEnd, Delivers, n
  <2>3. TypeOK'
    BY <2>1, <2>2 DEF TypeOK, subscriberVars
  <2>4. TablesLive'
    BY <2>1, <2>2 DEF TypeOK, TablesLive, subscriberVars
  <2>5. ASSUME NEW a \in Announcement
        PROVE  /\ pubClosed'[a] => announces'[ns'[a]] # a
               /\ a > used' => pub'[a] = "none" /\ ~pubClosed'[a]
    <3>1. CASE announces[n] = a
      BY <3>1, <2>1, <2>2, SMTT(30) DEF TypeOK, TablesLive, ClosedIsOut
    <3>2. CASE announces[n] # a
      BY <3>2, <2>1, <2>2 DEF TypeOK, ClosedIsOut
    <3>3. QED
      BY <3>1, <3>2
  <2>6. ClosedIsOut'
    BY <2>5 DEF ClosedIsOut
  <2>7. QED
    BY <2>3, <2>4, <2>6
<1>10. ASSUME RecvAnnounce
       PROVE  TablesInv'
  <2> DEFINE a == Head(toSub).announce
  <2>1. a \in Announcement
    BY <1>10, SubjectType DEF RecvAnnounce, Delivers
  <2>2. /\ toSub # <<>> /\ toSub' = Tail(toSub)
        /\ UNCHANGED <<toPub, publisherVars>>
        /\ \/ session' = "duplicate" /\ UNCHANGED subscriberVars
           \/ /\ announced' = [announced EXCEPT ![ns[a]] = a]
              /\ incoming' = Append(incoming, a)
              /\ sub' = [sub EXCEPT ![a] = "queued"]
              /\ UNCHANGED <<session, subOk>>
    BY <1>10 DEF RecvAnnounce, Delivers
  <2> HIDE DEF a
  <2>3. TypeOK'
    <3>1. CASE session' = "duplicate" /\ UNCHANGED subscriberVars
      BY <3>1, <2>2 DEF TypeOK, publisherVars, subscriberVars
    <3>2. CASE ~(session' = "duplicate" /\ UNCHANGED subscriberVars)
      <4>1. announced' \in [Namespace -> Announcement \cup {NoAnnounce}]
        BY <3>2, <2>1, <2>2 DEF TypeOK
      <4>2. incoming' \in Seq(Announcement)
        <5>1. incoming \in Seq(Announcement) /\ incoming' = Append(incoming, a)
          BY <3>2, <2>2 DEF TypeOK
        <5>2. QED
          BY <5>1, <2>1
      <4>3. sub' \in [Announcement -> {"none", "queued", "held", "removed", "gone"}]
        BY <3>2, <2>1, <2>2 DEF TypeOK
      <4>4. toSub' \in Seq([type : {"ANNOUNCE", "UNANNOUNCE"}, announce : Announcement])
        BY <2>2 DEF TypeOK
      <4>5. QED
        BY <4>1, <4>2, <4>3, <4>4, <3>2, <2>2 DEF TypeOK, publisherVars
    <3>3. QED
      BY <3>1, <3>2
  <2>4. TablesLive'
    BY <2>1, <2>2 DEF TypeOK, TablesLive, publisherVars, subscriberVars
  <2>5. ClosedIsOut'
    BY <2>2 DEF ClosedIsOut, publisherVars
  <2>6. QED
    BY <2>3, <2>4, <2>5
<1>11. ASSUME RecvUnannounce
       PROVE  TablesInv'
  <2>1. Subject(toSub) \in Namespace
    BY <1>11, SubjectType DEF RecvUnannounce, Delivers
  <2>2. TypeOK'
    BY <1>11, <2>1 DEF RecvUnannounce, Delivers, TypeOK, publisherVars
  <2>3. TablesLive' /\ ClosedIsOut'
    BY <1>11, <2>1 DEF RecvUnannounce, TypeOK, TablesLive, ClosedIsOut, publisherVars
  <2>4. QED
    BY <2>2, <2>3
<1>12. ASSUME PopAnnounced
       PROVE  TablesInv'
  <2>1. Head(incoming) \in Announcement
    BY <1>12 DEF PopAnnounced, TypeOK
  <2>2. TypeOK'
    BY <1>12, <2>1 DEF PopAnnounced, TypeOK, publisherVars
  <2>3. TablesLive' /\ ClosedIsOut'
    BY <1>12, <2>1 DEF PopAnnounced, TypeOK, TablesLive, ClosedIsOut, publisherVars
  <2>4. QED
    BY <2>2, <2>3
<1>13. ASSUME Disconnect
       PROVE  TablesInv'
  BY <1>13 DEF Disconnect, TypeOK, TablesLive, ClosedIsOut, publisherVars, subscriberVars
<1>14. CASE UNCHANGED vars
  BY <1>14 DEF vars, TypeOK, TablesLive, ClosedIsOut
<1>15. QED
  BY <1>1, <1>2, <1>3, <1>4, <1>5, <1>6, <1>7, <1>8, <1>9, <1>10, <1>11, <1>12, <1>13, <1>14
     DEF Next

-----------------------------------------------------------------------------
(* The channels *)

\* A message queued is carried, with those that were.
LEMMA AppendCarries ==
  ASSUME NEW S, NEW c \in Seq(S), NEW m \in S
  PROVE  /\ Append(c, m) \in Seq(S) /\ Len(c) \in Nat /\ Len(Append(c, m)) = Len(c) + 1
         /\ \A k \in 1 .. Len(c) : Append(c, m)[k] = c[k]
         /\ Append(c, m)[Len(c) + 1] = m
         /\ \A types, a : Carries(Append(c, m), types, a) <=>
                            Carries(c, types, a) \/ (m.announce = a /\ m.type \in types)
<1>1. /\ Append(c, m) \in Seq(S) /\ Len(c) \in Nat /\ Len(Append(c, m)) = Len(c) + 1
      /\ \A k \in 1 .. Len(c) : Append(c, m)[k] = c[k]
      /\ Append(c, m)[Len(c) + 1] = m
  OBVIOUS
<1>2. ASSUME NEW types, NEW a
      PROVE  Carries(Append(c, m), types, a) <=>
               Carries(c, types, a) \/ (m.announce = a /\ m.type \in types)
  BY <1>1 DEF Carries
<1>3. QED
  BY <1>1, <1>2

\* Of the messages carried, one taken is the first.
LEMMA TailCarries ==
  ASSUME NEW S, NEW c \in Seq(S), c # <<>>
  PROVE  /\ Tail(c) \in Seq(S) /\ Len(c) \in Nat /\ Len(c) >= 1 /\ Len(Tail(c)) = Len(c) - 1
         /\ Head(c) = c[1] /\ Head(c) \in S
         /\ \A k \in 1 .. (Len(c) - 1) : k + 1 \in 1 .. Len(c) /\ Tail(c)[k] = c[k + 1]
         /\ \A types, a : Carries(c, types, a) <=>
                            \/ Head(c).announce = a /\ Head(c).type \in types
                            \/ Carries(Tail(c), types, a)
<1>1. /\ Tail(c) \in Seq(S) /\ Len(c) \in Nat /\ Len(c) >= 1 /\ Len(Tail(c)) = Len(c) - 1
      /\ Head(c) = c[1] /\ Head(c) \in S
      /\ \A k \in 1 .. (Len(c) - 1) : k + 1 \in 1 .. Len(c) /\ Tail(c)[k] = c[k + 1]
  OBVIOUS
<1>2. ASSUME NEW types, NEW a, Carries(c, types, a),
             ~(Head(c).announce = a /\ Head(c).type \in types)
      PROVE  Carries(Tail(c), types, a)
  <2>1. PICK k \in 1 .. Len(c) : c[k].announce = a /\ c[k].type \in types
    BY <1>2 DEF Carries
  <2>2. k - 1 \in 1 .. (Len(c) - 1) /\ (k - 1) + 1 = k
    BY <1>1, <1>2, <2>1
  <2>3. Tail(c)[k - 1] = c[k]
    BY <1>1, <2>2
  <2>4. QED
    BY <1>1, <2>1, <2>2, <2>3 DEF Carries
<1>3. ASSUME NEW types, NEW a, Carries(Tail(c), types, a)
      PROVE  Carries(c, types, a)
  <2>1. PICK k \in 1 .. (Len(c) - 1) : Tail(c)[k].announce = a /\ Tail(c)[k].type \in types
    BY <1>1, <1>3 DEF Carries
  <2>2. QED
    BY <1>1, <2>1 DEF Carries
<1>4. ASSUME NEW types, NEW a, Head(c).announce = a, Head(c).type \in types
      PROVE  Carries(c, types, a)
  BY <1>1, <1>4 DEF Carries
<1>5. QED
  BY <1>1, <1>2, <1>3, <1>4

ToSubMsg == [type : {"ANNOUNCE", "UNANNOUNCE"}, announce : Announcement]
ToPubMsg == [type : {"ANNOUNCE_OK", "ANNOUNCE_ERROR", "ANNOUNCE_CANCEL"}, announce : Announcement]

\* A message is of its channel's type.
LEMMA MsgTypes ==
  ASSUME NEW a \in Announcement
  PROVE  /\ Msg("ANNOUNCE", a) \in ToSubMsg /\ Msg("UNANNOUNCE", a) \in ToSubMsg
         /\ \A type \in {"ANNOUNCE_OK", "ANNOUNCE_ERROR", "ANNOUNCE_CANCEL"} :
              Msg(type, a) \in ToPubMsg
         /\ \A type : Msg(type, a).type = type /\ Msg(type, a).announce = a
BY DEF Msg, ToSubMsg, ToPubMsg

\* The next message towards the subscriber, and what is left behind it.
LEMMA TakeToSub ==
  ASSUME TypeOK, toSub # <<>>, toSub' = Tail(toSub)
  PROVE  /\ Len(toSub) \in Nat /\ Len(toSub) >= 1 /\ Len(toSub') = Len(toSub) - 1
         /\ Head(toSub) = toSub[1] /\ Head(toSub) \in ToSubMsg /\ Head(toSub).announce \in Announcement
         /\ \A k \in 1 .. (Len(toSub) - 1) : k + 1 \in 1 .. Len(toSub) /\ toSub'[k] = toSub[k + 1]
         /\ \A types, a : Carries(toSub, types, a) <=>
                            \/ Head(toSub).announce = a /\ Head(toSub).type \in types
                            \/ Carries(toSub', types, a)
<1>1. toSub \in Seq(ToSubMsg)
  BY DEF TypeOK, ToSubMsg
<1>2. Head(toSub).announce \in Announcement
  BY SubjectType
<1>3. QED
  BY <1>1, <1>2, TailCarries

\* The next message towards the publisher, and what is left behind it.
LEMMA TakeToPub ==
  ASSUME TypeOK, toPub # <<>>, toPub' = Tail(toPub)
  PROVE  /\ Len(toPub) \in Nat /\ Len(toPub) >= 1 /\ Len(toPub') = Len(toPub) - 1
         /\ Head(toPub) = toPub[1] /\ Head(toPub) \in ToPubMsg /\ Head(toPub).announce \in Announcement
         /\ \A k \in 1 .. (Len(toPub) - 1) : k + 1 \in 1 .. Len(toPub) /\ toPub'[k] = toPub[k + 1]
         /\ \A types, a : Carries(toPub, types, a) <=>
                            \/ Head(toPub).announce = a /\ Head(toPub).type \in types
                            \/ Carries(toPub', types, a)
<1>1. toPub \in Seq(ToPubMsg)
  BY DEF TypeOK, ToPubMsg
<1>2. Head(toPub).announce \in Announcement
  BY SubjectType
<1>3. QED
  BY <1>1, <1>2, TailCarries

\* A message queued towards the subscriber.
LEMMA QueueToSub ==
  ASSUME TypeOK, NEW a \in Announcement, NEW type \in {"ANNOUNCE", "UNANNOUNCE"},
         toSub' = Append(toSub, Msg(type, a))
  PROVE  /\ Len(toSub) \in Nat /\ Len(toSub') = Len(toSub) + 1
         /\ \A k \in 1 .. Len(toSub) : toSub'[k] = toSub[k]
         /\ toSub'[Len(toSub) + 1].type = type /\ toSub'[Len(toSub) + 1].announce = a
         /\ \A types, b : Carries(toSub', types, b) <=>
                            Carries(toSub, types, b) \/ (a = b /\ type \in types)
<1>1. toSub \in Seq(ToSubMsg) /\ Msg(type, a) \in ToSubMsg
  BY MsgTypes DEF TypeOK, ToSubMsg
<1>2. Msg(type, a).type = type /\ Msg(type, a).announce = a
  BY MsgTypes
<1>3. QED
  BY <1>1, <1>2, AppendCarries

\* A message queued towards the publisher.
LEMMA QueueToPub ==
  ASSUME TypeOK, NEW a \in Announcement,
         NEW type \in {"ANNOUNCE_OK", "ANNOUNCE_ERROR", "ANNOUNCE_CANCEL"},
         toPub' = Append(toPub, Msg(type, a))
  PROVE  /\ Len(toPub) \in Nat /\ Len(toPub') = Len(toPub) + 1
         /\ \A k \in 1 .. Len(toPub) : toPub'[k] = toPub[k]
         /\ toPub'[Len(toPub) + 1].type = type /\ toPub'[Len(toPub) + 1].announce = a
         /\ \A types, b : Carries(toPub', types, b) <=>
                            Carries(toPub, types, b) \/ (a = b /\ type \in types)
<1>1. toPub \in Seq(ToPubMsg) /\ Msg(type, a) \in ToPubMsg
  BY MsgTypes DEF TypeOK, ToPubMsg
<1>2. Msg(type, a).type = type /\ Msg(type, a).announce = a
  BY MsgTypes
<1>3. QED
  BY <1>1, <1>2, AppendCarries

\* Every message on its way is about an announce, and of one of its channel's types.
LEMMA OnTheWay ==
  ASSUME TypeOK
  PROVE  /\ \A k \in 1 .. Len(toSub) : /\ toSub[k].announce \in Announcement
                                       /\ toSub[k].type \in {"ANNOUNCE", "UNANNOUNCE"}
         /\ \A k \in 1 .. Len(toPub) : toPub[k].announce \in Announcement
<1>1. toSub \in Seq(ToSubMsg) /\ toPub \in Seq(ToPubMsg)
  BY DEF TypeOK, ToSubMsg, ToPubMsg
<1>2. /\ \A m \in ToSubMsg : m.announce \in Announcement /\ m.type \in {"ANNOUNCE", "UNANNOUNCE"}
      /\ \A m \in ToPubMsg : m.announce \in Announcement
  BY DEF ToSubMsg, ToPubMsg
<1>3. QED
  BY <1>1, <1>2

\* What a message towards the subscriber tells stays true while both sides only move on.
LEMMA ToSubKept ==
  ASSUME TypeOK, ToSubInv, UNCHANGED toSub, used' \in Nat, used <= used',
         \A b \in Announcement : /\ pub[b] = "gone" => pub'[b] = "gone"
                                 /\ sub[b] = "none" => sub'[b] = "none"
  PROVE  ToSubInv'
<1>1. \A k \in 1 .. Len(toSub) : toSub[k].announce \in Announcement /\ toSub[k].announce \in Nat
  BY OnTheWay, AnnouncesAssumption DEF Announcement
<1>2. used \in Nat
  BY AnnouncesAssumption DEF TypeOK
<1>3. QED
  BY <1>1, <1>2 DEF ToSubInv

\* So for a message towards the publisher.
LEMMA ToPubKept ==
  ASSUME TypeOK, ToPubInv, UNCHANGED toPub,
         \A b \in Announcement : /\ sub[b] = "gone" => sub'[b] = "gone"
                                 /\ subOk[b] => subOk'[b]
  PROVE  ToPubInv'
<1>1. \A k \in 1 .. Len(toPub) : toPub[k].announce \in Announcement
  BY OnTheWay
<1>2. QED
  BY <1>1 DEF ToPubInv

\* No announce was made.
LEMMA InitWireInv == Init => ToSubInv /\ ToPubInv /\ QueueInv
BY AnnouncesAssumption DEF Init, ToSubInv, ToPubInv, QueueInv, Announcement

\* Announce numbers.
LEMMA Numbers ==
  /\ NoAnnounce \notin Announcement
  /\ \A a \in Announcement : a \in Nat /\ a <= MaxAnnounces
  /\ MaxAnnounces \in Nat
BY NoAnnounceAssumption, AnnouncesAssumption DEF Announcement

\* The messages on their way follow what each side does.
LEMMA NextWireInv ==
  ASSUME TablesInv, ToSubInv, ToPubInv, QueueInv, [Next]_vars
  PROVE  ToSubInv' /\ ToPubInv'
<1> USE Numbers DEF TablesInv, subscriberVars, publisherVars
<1>0. used \in Nat
  BY DEF TypeOK
<1>1. ASSUME NEW a \in Announcement, Announce(a) PROVE ToSubInv' /\ ToPubInv'
  <2>1. a > used /\ used' = a /\ UNCHANGED <<toPub, sub, subOk>> /\ pub[a] = "none"
    BY <1>0, <1>1 DEF Announce, ClosedIsOut
  <2>2. /\ Len(toSub) \in Nat /\ Len(toSub') = Len(toSub) + 1
        /\ \A k \in 1 .. Len(toSub) : toSub'[k] = toSub[k]
        /\ toSub'[Len(toSub) + 1].type = "ANNOUNCE" /\ toSub'[Len(toSub) + 1].announce = a
    BY <1>1, QueueToSub DEF Announce
  <2>3. \A k \in 1 .. Len(toSub) : /\ toSub[k].announce # a
                                   /\ toSub[k].announce \in Announcement
                                   /\ toSub[k].type \in {"ANNOUNCE", "UNANNOUNCE"}
    BY <1>0, <2>1, OnTheWay DEF ToSubInv
  <2>4. sub[a] = "none"
    BY <2>1 DEF QueueInv
  <2>5. ToSubInv'
    <3>1. \A b \in Announcement : b # a => pub'[b] = pub[b]
      BY <1>1 DEF Announce, TypeOK
    <3>2. ASSUME NEW k \in 1 .. Len(toSub')
          PROVE  /\ toSub'[k].type = "ANNOUNCE" =>
                      sub'[toSub'[k].announce] = "none" /\ toSub'[k].announce <= used'
                 /\ toSub'[k].type = "UNANNOUNCE" => pub'[toSub'[k].announce] = "gone"
      <4>1. CASE k \in 1 .. Len(toSub)
        BY <1>0, <2>1, <2>2, <2>3, <3>1, <4>1 DEF ToSubInv
      <4>2. CASE k = Len(toSub) + 1
        BY <2>1, <2>2, <2>4, <4>2
      <4>3. QED
        BY <2>2, <4>1, <4>2
    <3>3. ASSUME NEW j \in 1 .. Len(toSub'), NEW k \in 1 .. Len(toSub'),
                 toSub'[k].type = "ANNOUNCE", toSub'[j].announce = toSub'[k].announce
          PROVE  j = k \/ (k < j /\ toSub'[j].type = "UNANNOUNCE")
      BY <2>2, <2>3, <3>3 DEF ToSubInv
    <3>4. QED
      BY <3>2, <3>3 DEF ToSubInv
  <2>6. QED
    BY <2>1, <2>5, ToPubKept
<1>2. ASSUME NEW a \in Announcement, DropAnnounce(a) \/ RemoveAnnounce(a)
      PROVE  ToSubInv' /\ ToPubInv'
  <2>1. /\ UNCHANGED <<toSub, toPub, used, sub, subOk>>
        /\ \A b \in Announcement : pub[b] = "gone" => pub'[b] = "gone"
    BY <1>2 DEF DropAnnounce, RemoveAnnounce, TypeOK
  <2>2. QED
    BY <1>0, <2>1, ToSubKept, ToPubKept
<1>3. ASSUME NEW a \in Announcement, PushUnannounce(a) PROVE ToSubInv' /\ ToPubInv'
  <2>1. /\ UNCHANGED <<toPub, used, sub, subOk>> /\ pub[a] = "removed" /\ pub'[a] = "gone"
        /\ \A b \in Announcement : pub[b] = "gone" => pub'[b] = "gone"
    BY <1>3 DEF PushUnannounce, TypeOK
  <2>2. /\ Len(toSub) \in Nat /\ Len(toSub') = Len(toSub) + 1
        /\ \A k \in 1 .. Len(toSub) : toSub'[k] = toSub[k]
        /\ toSub'[Len(toSub) + 1].type = "UNANNOUNCE" /\ toSub'[Len(toSub) + 1].announce = a
    BY <1>3, QueueToSub DEF PushUnannounce
  <2>3. \A k \in 1 .. Len(toSub) : toSub[k].announce \in Announcement
    BY OnTheWay
  <2>4. ToSubInv'
    BY <2>1, <2>2, <2>3, SMTT(30) DEF ToSubInv
  <2>5. QED
    BY <2>1, <2>4, ToPubKept
<1>4. ASSUME RecvAnnounceOk \/ RecvAnnounceEnd PROVE ToSubInv' /\ ToPubInv'
  <2>1. /\ toPub # <<>> /\ toPub' = Tail(toPub) /\ UNCHANGED <<toSub, used, pub, sub, subOk>>
    BY <1>4 DEF RecvAnnounceOk, RecvAnnounceEnd, Delivers
  <2>2. /\ Len(toPub) \in Nat /\ Len(toPub') = Len(toPub) - 1
        /\ \A k \in 1 .. (Len(toPub) - 1) : k + 1 \in 1 .. Len(toPub) /\ toPub'[k] = toPub[k + 1]
    BY <2>1, TakeToPub
  <2>3. ToPubInv'
    BY <2>1, <2>2 DEF ToPubInv
  <2>4. QED
    BY <1>0, <2>1, <2>3, ToSubKept
<1>5. CASE RecvAnnounce \/ RecvUnannounce
  <2>1. /\ toSub # <<>> /\ toSub' = Tail(toSub) /\ UNCHANGED <<toPub, used, pub, subOk>>
        /\ \A b \in Announcement : b # Head(toSub).announce => sub'[b] = sub[b]
        /\ Head(toSub).type # "ANNOUNCE" => sub' = sub
    BY <1>5 DEF RecvAnnounce, RecvUnannounce, Delivers, TypeOK
  <2>2. /\ Len(toSub) \in Nat /\ Len(toSub) >= 1 /\ Len(toSub') = Len(toSub) - 1
        /\ \A k \in 1 .. (Len(toSub) - 1) : k + 1 \in 1 .. Len(toSub) /\ toSub'[k] = toSub[k + 1]
        /\ Head(toSub) = toSub[1] /\ Head(toSub).announce \in Announcement
        /\ 1 \in 1 .. Len(toSub)
    BY <2>1, TakeToSub
  <2>3. \A k \in 1 .. Len(toSub) : toSub[k].announce \in Announcement
    BY OnTheWay
  <2>4. ASSUME NEW k \in 1 .. Len(toSub'), toSub'[k].type = "ANNOUNCE"
        PROVE  sub'[toSub'[k].announce] = "none"
    <3>1. k + 1 \in 1 .. Len(toSub) /\ toSub'[k] = toSub[k + 1] /\ k + 1 # 1
      BY <2>2
    <3>2. CASE Head(toSub).type = "ANNOUNCE"
      <4>1. toSub[k + 1].announce # toSub[1].announce
        BY <2>2, <2>4, <3>1, <3>2 DEF ToSubInv
      <4>2. QED
        BY <2>1, <2>2, <2>3, <2>4, <3>1, <4>1 DEF ToSubInv
    <3>3. CASE Head(toSub).type # "ANNOUNCE"
      BY <2>1, <2>4, <3>1, <3>3 DEF ToSubInv
    <3>4. QED
      BY <3>2, <3>3
  <2>5. ASSUME NEW j \in 1 .. Len(toSub'), NEW k \in 1 .. Len(toSub'),
               toSub'[k].type = "ANNOUNCE", toSub'[j].announce = toSub'[k].announce
        PROVE  j = k \/ (k < j /\ toSub'[j].type = "UNANNOUNCE")
    <3>1. j + 1 = k + 1 \/ (k + 1 < j + 1 /\ toSub[j + 1].type = "UNANNOUNCE")
      BY <2>2, <2>5 DEF ToSubInv
    <3>2. QED
      BY <2>2, <3>1
  <2>6. ToSubInv'
    BY <2>1, <2>2, <2>4, <2>5 DEF ToSubInv
  <2>7. ToPubInv'
    <3>1. \A b \in Announcement : sub[b] = "gone" => sub'[b] = "gone"
      BY <2>1, <2>2 DEF ToSubInv
    <3>2. QED
      BY <2>1, <3>1, ToPubKept
  <2>8. QED
    BY <2>6, <2>7
<1>6. ASSUME NEW a \in Announcement, AcceptAnnounced(a) \/ PushAnnounceEnd(a)
      PROVE  ToSubInv' /\ ToPubInv'
  <2>1. PICK type \in {"ANNOUNCE_OK", "ANNOUNCE_ERROR", "ANNOUNCE_CANCEL"} :
          /\ toPub' = Append(toPub, Msg(type, a))
          /\ type = "ANNOUNCE_OK" => subOk'[a]
          /\ type # "ANNOUNCE_OK" => sub'[a] = "gone"
    BY <1>6 DEF AcceptAnnounced, PushAnnounceEnd, TypeOK
  <2>2. /\ UNCHANGED <<toSub, used, pub>>
        /\ \A b \in Announcement : /\ sub[b] = "none" => sub'[b] = "none"
                                   /\ sub[b] = "gone" => sub'[b] = "gone"
                                   /\ subOk[b] => subOk'[b]
    BY <1>6 DEF AcceptAnnounced, PushAnnounceEnd, TypeOK
  <2>3. /\ Len(toPub) \in Nat /\ Len(toPub') = Len(toPub) + 1
        /\ \A k \in 1 .. Len(toPub) : toPub'[k] = toPub[k]
        /\ toPub'[Len(toPub) + 1].type = type /\ toPub'[Len(toPub) + 1].announce = a
    BY <2>1, QueueToPub
  <2>4. \A k \in 1 .. Len(toPub) : toPub[k].announce \in Announcement
    BY OnTheWay
  <2>5. ToPubInv'
    BY <2>1, <2>2, <2>3, <2>4 DEF ToPubInv
  <2>6. QED
    BY <1>0, <2>2, <2>5, ToSubKept
<1>7. ASSUME \/ PopAnnounced \/ Disconnect \/ UNCHANGED vars
             \/ \E a \in Announcement : DropAnnounced(a)
      PROVE  ToSubInv' /\ ToPubInv'
  <2>1. UNCHANGED <<toSub, toPub, used, pub, subOk>>
    BY <1>7 DEF PopAnnounced, Disconnect, vars, DropAnnounced
  <2>2. \A b \in Announcement : /\ sub[b] = "none" => sub'[b] = "none"
                                /\ sub[b] = "gone" => sub'[b] = "gone"
    <3>1. CASE PopAnnounced
      <4>1. sub[Head(incoming)] = "queued" /\ sub' = [sub EXCEPT ![Head(incoming)] = "held"]
        BY <3>1 DEF PopAnnounced, QueueInv, TypeOK
      <4>2. QED
        BY <4>1 DEF TypeOK
    <3>2. CASE Disconnect \/ UNCHANGED vars \/ \E a \in Announcement : DropAnnounced(a)
      BY <3>2 DEF Disconnect, vars, DropAnnounced, TypeOK
    <3>3. QED
      BY <1>7, <3>1, <3>2
  <2>3. QED
    BY <1>0, <2>1, <2>2, ToSubKept, ToPubKept
<1>8. QED
  BY <1>1, <1>2, <1>3, <1>4, <1>5, <1>6, <1>7 DEF Next

\* The queue of announced() follows recv_announce, announced() and the drops.
LEMMA NextQueueInv ==
  ASSUME TablesInv, ToSubInv, QueueInv, [Next]_vars
  PROVE  QueueInv'
<1> USE Numbers DEF TablesInv, subscriberVars, publisherVars
<1>0. used \in Nat
  BY DEF TypeOK
<1>1. ASSUME NEW a \in Announcement, Announce(a) PROVE QueueInv'
  BY <1>0, <1>1 DEF Announce, QueueInv
<1>2. CASE \/ \E a \in Announcement : DropAnnounce(a) \/ RemoveAnnounce(a) \/ PushUnannounce(a)
           \/ RecvAnnounceEnd \/ RecvUnannounce \/ Disconnect \/ UNCHANGED vars
  <2>1. UNCHANGED <<used, incoming, sub, subOk, pubOk>>
    BY <1>2 DEF DropAnnounce, RemoveAnnounce, PushUnannounce, RecvAnnounceEnd, RecvUnannounce,
                Disconnect, vars
  <2>2. QED
    BY <2>1 DEF QueueInv
<1>3. CASE RecvAnnounceOk
  <2>1. UNCHANGED <<used, incoming, sub, subOk>> /\ Subject(toPub) \in Namespace
    BY <1>3, SubjectType DEF RecvAnnounceOk, Delivers
  <2>2. ASSUME NEW a \in Announcement, a > used PROVE pubOk'[a] = pubOk[a]
    <3> DEFINE x == announces[Subject(toPub)]
    <3>1. /\ x \in Announcement \cup {NoAnnounce}
          /\ x # NoAnnounce => pub[x] \in {"open", "checked"}
      BY <2>1 DEF TypeOK, TablesLive
    <3>2. pubOk' = IF x = NoAnnounce THEN pubOk ELSE [pubOk EXCEPT ![x] = TRUE]
      BY <1>3 DEF RecvAnnounceOk
    <3>3. pub[a] = "none"
      BY <2>2 DEF ClosedIsOut
    <3> HIDE DEF x
    <3>4. x # NoAnnounce => a # x
      BY <3>1, <3>3
    <3>5. QED
      BY <3>1, <3>2, <3>4 DEF TypeOK
  <2>3. QED
    BY <2>1, <2>2 DEF QueueInv
<1>4. CASE RecvAnnounce
  <2> DEFINE h == Head(toSub).announce
  <2>1. /\ toSub # <<>> /\ toSub' = Tail(toSub) /\ UNCHANGED <<used, pubOk>>
        /\ Head(toSub).type = "ANNOUNCE"
    BY <1>4 DEF RecvAnnounce, Delivers
  <2>2. h \in Announcement /\ sub[h] = "none" /\ h <= used
    <3>1. 1 \in 1 .. Len(toSub) /\ Head(toSub) = toSub[1] /\ h \in Announcement
      BY <2>1, TakeToSub
    <3>2. QED
      BY <2>1, <3>1 DEF ToSubInv
  <2>3. CASE announced[ns[h]] # NoAnnounce
    BY <1>4, <2>1, <2>3 DEF RecvAnnounce, QueueInv
  <2>4. CASE announced[ns[h]] = NoAnnounce
    <3>1. /\ incoming' = Append(incoming, h) /\ sub' = [sub EXCEPT ![h] = "queued"]
          /\ UNCHANGED subOk
      BY <1>4, <2>4 DEF RecvAnnounce
    <3> HIDE DEF h
    <3>2. /\ Len(incoming) \in Nat /\ Len(incoming') = Len(incoming) + 1
          /\ \A k \in 1 .. Len(incoming) : incoming'[k] = incoming[k] /\ incoming[k] \in Announcement
          /\ incoming'[Len(incoming) + 1] = h
      BY <2>2, <3>1, AppendCarries DEF TypeOK
    <3>3. /\ sub'[h] = "queued" /\ \A b \in Announcement : b # h => sub'[b] = sub[b]
      BY <2>2, <3>1 DEF TypeOK
    <3>4. \A k \in 1 .. Len(incoming) : incoming[k] # h
      BY <2>2 DEF QueueInv
    <3>5. \A a \in Announcement : a > used => a # h
      BY <1>0, <2>2
    <3>6. QED
      BY <2>1, <3>1, <3>2, <3>3, <3>4, <3>5 DEF QueueInv
  <2>5. QED
    BY <2>3, <2>4
<1>5. CASE PopAnnounced
  <2>1. /\ incoming # <<>> /\ incoming' = Tail(incoming) /\ UNCHANGED <<used, subOk, pubOk>>
        /\ sub' = [sub EXCEPT ![Head(incoming)] = "held"]
    BY <1>5 DEF PopAnnounced
  <2>2. /\ Len(incoming) \in Nat /\ Len(incoming) >= 1 /\ Len(incoming') = Len(incoming) - 1
        /\ Head(incoming) = incoming[1] /\ Head(incoming) \in Announcement
        /\ \A k \in 1 .. (Len(incoming) - 1) :
             k + 1 \in 1 .. Len(incoming) /\ incoming'[k] = incoming[k + 1]
    BY <2>1, TailCarries DEF TypeOK
  <2>3. /\ sub[Head(incoming)] = "queued"
        /\ \A b \in Announcement : b # Head(incoming) => sub'[b] = sub[b]
    BY <2>1, <2>2 DEF QueueInv, TypeOK
  <2>4. ASSUME NEW k \in 1 .. Len(incoming') PROVE sub'[incoming'[k]] = "queued"
    <3>1. /\ k + 1 \in 1 .. Len(incoming) /\ incoming'[k] = incoming[k + 1] /\ k + 1 # 1
          /\ incoming[k + 1] \in Announcement
      BY <2>2 DEF TypeOK
    <3>2. incoming[k + 1] # Head(incoming) /\ sub[incoming[k + 1]] = "queued"
      BY <2>2, <3>1 DEF QueueInv
    <3>3. QED
      BY <2>3, <3>1, <3>2
  <2>5. ASSUME NEW j \in 1 .. Len(incoming'), NEW k \in 1 .. Len(incoming'),
               incoming'[j] = incoming'[k]
        PROVE  j = k
    <3>1. j + 1 = k + 1
      BY <2>2, <2>5 DEF QueueInv
    <3>2. QED
      BY <2>2, <3>1
  <2>6. \A a \in Announcement : a > used => sub'[a] = "none" /\ ~subOk'[a] /\ ~pubOk'[a]
    BY <2>1, <2>3 DEF QueueInv
  <2>7. QED
    BY <2>1, <2>4, <2>5, <2>6 DEF QueueInv
<1>6. ASSUME NEW a \in Announcement,
             AcceptAnnounced(a) \/ DropAnnounced(a) \/ PushAnnounceEnd(a)
      PROVE  QueueInv'
  <2>1. /\ UNCHANGED <<used, incoming, pubOk>> /\ sub[a] \in {"held", "removed"}
        /\ \A b \in Announcement : b # a => sub'[b] = sub[b] /\ subOk'[b] = subOk[b]
    BY <1>6 DEF AcceptAnnounced, DropAnnounced, PushAnnounceEnd, TypeOK
  <2>2. \A k \in 1 .. Len(incoming) : incoming[k] # a /\ incoming[k] \in Announcement
    BY <2>1 DEF QueueInv, TypeOK
  <2>3. QED
    BY <2>1, <2>2 DEF QueueInv
<1>7. QED
  BY <1>1, <1>2, <1>3, <1>4, <1>5, <1>6 DEF Next

-----------------------------------------------------------------------------
(* Announces of a namespace one after the other *)

\* Nothing was announced and no message is on its way.
LEMMA InitCleanInv == Init => CleanInv
<1> SUFFICES ASSUME Init PROVE CleanInv
  OBVIOUS
<1>1. \A types, a : ~Carries(toSub, types, a) /\ ~Carries(toPub, types, a)
  BY DEF Init, Carries
<1>2. QED
  BY <1>1, Numbers DEF Init, CleanInv, OneAround, Around, DifferenceUnderWay

\* Publisher::announce of a namespace nothing is left of: no announce of it is around.
LEMMA NotLeftover ==
  ASSUME TypeOK, NEW a \in Announcement, ~Leftover(ns[a])
  PROVE  ~Around(a)
<1>1. /\ \A k \in 1 .. Len(toSub) : toSub[k] \in ToSet(toSub)
      /\ \A k \in 1 .. Len(toPub) : toPub[k] \in ToSet(toPub)
  <2>1. toSub \in Seq(ToSubMsg) /\ toPub \in Seq(ToPubMsg)
    BY DEF TypeOK, ToSubMsg, ToPubMsg
  <2>2. DOMAIN toSub = 1 .. Len(toSub) /\ DOMAIN toPub = 1 .. Len(toPub)
    BY <2>1
  <2>3. QED
    BY <2>2 DEF ToSet
<1>2. \A types : ~Carries(toSub, types, a) /\ ~Carries(toPub, types, a)
  BY <1>1 DEF Leftover, Carries
<1>3. QED
  BY <1>2 DEF Leftover, Around

\* While no announce comes to be around, there is still at most one.
LEMMA OneAroundKept ==
  ASSUME NEW a \in Announcement, OneAround(a), UNCHANGED ns,
         \A b \in Announcement : Around(b)' => Around(b)
  PROVE  OneAround(a)'
BY DEF OneAround

\* Steps of the publisher: an entry it removes leaves a drop behind.
LEMMA PublisherClean ==
  ASSUME TablesInv, ToSubInv, ToPubInv, QueueInv,
         NEW a \in Announcement, OneAround(a), DifferenceUnderWay(a),
         NEW b \in Announcement, DropAnnounce(b) \/ RemoveAnnounce(b) \/ PushUnannounce(b)
  PROVE  OneAround(a)' /\ DifferenceUnderWay(a)'
<1> USE Numbers DEF TablesInv, subscriberVars
<1>1. /\ UNCHANGED <<ns, toPub, pubOk, announced, sub, subOk>>
      /\ ns[a] \in Namespace /\ ns[b] \in Namespace
  BY DEF DropAnnounce, RemoveAnnounce, PushUnannounce, TypeOK
<1>2. \A c \in Announcement : c # b => pub'[c] = pub[c]
  BY DEF DropAnnounce, RemoveAnnounce, PushUnannounce, TypeOK
<1>3. pub[b] \in {"open", "checked", "removed"} /\ Around(b)
  BY DEF DropAnnounce, RemoveAnnounce, PushUnannounce, Around
<1>4. \A types, c : Carries(toPub', types, c) <=> Carries(toPub, types, c)
  BY <1>1
<1>5. announced[ns[a]] = a \/ Carries(toSub, {"ANNOUNCE"}, a) => Around(a)
  <2>1. Carries(toSub, {"ANNOUNCE"}, a) => Carries(toSub, {"ANNOUNCE", "UNANNOUNCE"}, a)
    BY DEF Carries
  <2>2. QED
    BY <1>1, <2>1 DEF Around, TablesLive
<1>6. CASE DropAnnounce(b)
  <2>1. UNCHANGED <<toSub, announces>> /\ pub[b] = "open"
    BY <1>6 DEF DropAnnounce
  <2>2. \A types, c : Carries(toSub', types, c) <=> Carries(toSub, types, c)
    BY <2>1
  <2>3. OneAround(a)'
    BY <1>1, <1>2, <1>3, <1>4, <2>2, OneAroundKept DEF Around
  <2>4. DifferenceUnderWay(a)'
    BY <1>1, <1>2, <1>4, <2>1, <2>2 DEF DifferenceUnderWay
  <2>5. QED
    BY <2>3, <2>4
<1>7. CASE RemoveAnnounce(b)
  <2>1. /\ UNCHANGED toSub /\ pub'[b] = "removed"
        /\ announces'[ns[b]] = NoAnnounce
        /\ ns[a] # ns[b] => announces'[ns[a]] = announces[ns[a]]
    BY <1>1, <1>7 DEF RemoveAnnounce, TypeOK
  <2>2. \A types, c : Carries(toSub', types, c) <=> Carries(toSub, types, c)
    BY <2>1
  <2>3. OneAround(a)'
    BY <1>1, <1>2, <1>3, <1>4, <2>2, OneAroundKept DEF Around
  <2>4. CASE ns[a] = ns[b]
    <3>1. announced[ns[a]] = a \/ Carries(toSub, {"ANNOUNCE"}, a) => a = b
      BY <1>3, <1>5, <2>4 DEF OneAround
    <3>2. QED
      BY <1>1, <1>4, <2>1, <2>2, <2>3, <2>4, <3>1 DEF DifferenceUnderWay
  <2>5. CASE ns[a] # ns[b]
    BY <1>1, <1>2, <1>4, <2>1, <2>2, <2>3, <2>5 DEF DifferenceUnderWay
  <2>6. QED
    BY <2>4, <2>5
<1>8. CASE PushUnannounce(b)
  <2>1. /\ toSub' = Append(toSub, Msg("UNANNOUNCE", b)) /\ UNCHANGED announces
    BY <1>8 DEF PushUnannounce
  <2>2. \A types, c : Carries(toSub', types, c) <=>
                       Carries(toSub, types, c) \/ (b = c /\ "UNANNOUNCE" \in types)
    BY <2>1, QueueToSub
  <2>3. OneAround(a)'
    BY <1>1, <1>2, <1>3, <1>4, <2>2, OneAroundKept DEF Around
  <2>4. DifferenceUnderWay(a)'
    BY <1>1, <1>2, <1>4, <2>1, <2>2 DEF DifferenceUnderWay
  <2>5. QED
    BY <2>3, <2>4
<1>9. QED
  BY <1>6, <1>7, <1>8

\* Publisher::announce of a namespace that stays clean.
LEMMA AnnounceClean ==
  ASSUME TablesInv, ToSubInv, ToPubInv, QueueInv,
         NEW a \in Announcement, OneAround(a), DifferenceUnderWay(a),
         NEW b \in Announcement, Announce(b), ns[a] \in clean'
  PROVE  OneAround(a)' /\ DifferenceUnderWay(a)'
<1> USE Numbers DEF TablesInv, subscriberVars
<1>0. used \in Nat
  BY DEF TypeOK
<1>1. /\ UNCHANGED <<ns, toPub, pubOk, announced, sub, subOk>>
      /\ ns[a] \in Namespace /\ ns[b] \in Namespace
      /\ announces'[ns[b]] = b
      /\ ns[a] # ns[b] => announces'[ns[a]] = announces[ns[a]]
      /\ \A c \in Announcement : c # b => pub'[c] = pub[c]
      /\ ~subOk[b] /\ ~pubOk[b]
  BY <1>0 DEF Announce, TypeOK, QueueInv
<1>2. \A types, c : Carries(toSub', types, c) <=>
                     Carries(toSub, types, c) \/ (b = c /\ "ANNOUNCE" \in types)
  BY QueueToSub DEF Announce
<1>3. \A types, c : Carries(toPub', types, c) <=> Carries(toPub, types, c)
  BY <1>1
<1>4. \A c \in Announcement : c # b => (Around(c)' <=> Around(c))
  BY <1>1, <1>2, <1>3 DEF Around
<1>5. CASE ns[a] = ns[b]
  <2>1. \A c \in Announcement : ns[c] = ns[b] => ~Around(c)
    <3>1. ~Leftover(ns[b])
      BY <1>5 DEF Announce
    <3>2. QED
      BY <3>1, NotLeftover
  <2>2. OneAround(a)'
    BY <1>1, <1>4, <1>5, <2>1 DEF OneAround
  <2>3. ~(announced[ns[a]] = a) /\ ~Carries(toSub, {"ANNOUNCE"}, a)
    <3>1. Carries(toSub, {"ANNOUNCE"}, a) => Carries(toSub, {"ANNOUNCE", "UNANNOUNCE"}, a)
      BY DEF Carries
    <3>2. QED
      BY <1>1, <1>5, <2>1, <3>1 DEF Around, TablesLive
  <2>4. QED
    BY <1>1, <1>2, <1>3, <1>5, <2>2, <2>3 DEF DifferenceUnderWay
<1>6. CASE ns[a] # ns[b]
  <2>1. OneAround(a)'
    BY <1>1, <1>4, <1>6 DEF OneAround
  <2>2. QED
    BY <1>1, <1>2, <1>3, <1>6, <2>1 DEF DifferenceUnderWay
<1>7. QED
  BY <1>5, <1>6

\* Steps of the subscriber's application: an entry it removes leaves a drop behind.
LEMMA SubscriberClean ==
  ASSUME TablesInv, ToSubInv, ToPubInv, QueueInv,
         NEW a \in Announcement, OneAround(a), DifferenceUnderWay(a),
         \/ PopAnnounced
         \/ \E b \in Announcement : AcceptAnnounced(b) \/ DropAnnounced(b) \/ PushAnnounceEnd(b)
  PROVE  OneAround(a)' /\ DifferenceUnderWay(a)'
<1> USE Numbers DEF TablesInv, publisherVars
<1>1. /\ UNCHANGED <<ns, toSub, pub, pubOk, announces>> /\ ns[a] \in Namespace
  BY DEF PopAnnounced, AcceptAnnounced, DropAnnounced, PushAnnounceEnd, TypeOK
<1>2. \A types, c : Carries(toSub', types, c) <=> Carries(toSub, types, c)
  BY <1>1
<1>3. CASE PopAnnounced
  <2>1. UNCHANGED <<toPub, announced, subOk>>
    BY <1>3 DEF PopAnnounced
  <2>2. \A types, c : Carries(toPub', types, c) <=> Carries(toPub, types, c)
    BY <2>1
  <2>3. /\ \A c \in Announcement : sub'[c] # sub[c] => sub[c] = "queued" /\ sub'[c] = "held"
    <3>1. sub[Head(incoming)] = "queued" /\ sub' = [sub EXCEPT ![Head(incoming)] = "held"]
      BY <1>3 DEF PopAnnounced, QueueInv, TypeOK
    <3>2. QED
      BY <3>1 DEF TypeOK
  <2>4. OneAround(a)'
    BY <1>1, <1>2, <2>2, <2>3, OneAroundKept DEF Around
  <2>5. QED
    BY <1>1, <1>2, <2>1, <2>2, <2>3, <2>4 DEF DifferenceUnderWay
<1>4. ASSUME NEW b \in Announcement, AcceptAnnounced(b)
      PROVE  OneAround(a)' /\ DifferenceUnderWay(a)'
  <2>1. /\ UNCHANGED <<announced, sub>> /\ sub[b] = "held"
        /\ subOk'[b] /\ \A c \in Announcement : c # b => subOk'[c] = subOk[c]
    BY <1>4 DEF AcceptAnnounced, TypeOK
  <2>2. \A types, c : Carries(toPub', types, c) <=>
                       Carries(toPub, types, c) \/ (b = c /\ "ANNOUNCE_OK" \in types)
    BY <1>4, QueueToPub DEF AcceptAnnounced
  <2>3. OneAround(a)'
    BY <1>1, <1>2, <2>1, <2>2, OneAroundKept DEF Around
  <2>4. QED
    BY <1>1, <1>2, <2>1, <2>2, <2>3 DEF DifferenceUnderWay
<1>5. ASSUME NEW b \in Announcement, DropAnnounced(b)
      PROVE  OneAround(a)' /\ DifferenceUnderWay(a)'
  <2>1. /\ UNCHANGED <<toPub, subOk>> /\ sub[b] = "held" /\ sub'[b] = "removed"
        /\ \A c \in Announcement : c # b => sub'[c] = sub[c]
        /\ ns[b] \in Namespace /\ announced'[ns[b]] = NoAnnounce
        /\ ns[a] # ns[b] => announced'[ns[a]] = announced[ns[a]]
    BY <1>1, <1>5 DEF DropAnnounced, TypeOK
  <2>2. \A types, c : Carries(toPub', types, c) <=> Carries(toPub, types, c)
    BY <2>1
  <2>3. OneAround(a)'
    BY <1>1, <1>2, <2>1, <2>2, OneAroundKept DEF Around
  <2>4. CASE ns[a] = ns[b]
    <3>1. announces[ns[a]] = a => a = b
      BY <1>1, <2>1, <2>4 DEF OneAround, Around, TablesLive
    <3>2. QED
      BY <1>1, <1>2, <2>1, <2>2, <2>3, <2>4, <3>1 DEF DifferenceUnderWay
  <2>5. CASE ns[a] # ns[b]
    BY <1>1, <1>2, <2>1, <2>2, <2>3, <2>5 DEF DifferenceUnderWay
  <2>6. QED
    BY <2>4, <2>5
<1>6. ASSUME NEW b \in Announcement, PushAnnounceEnd(b)
      PROVE  OneAround(a)' /\ DifferenceUnderWay(a)'
  <2>1. /\ UNCHANGED <<announced, subOk>> /\ sub[b] = "removed" /\ sub'[b] = "gone"
        /\ \A c \in Announcement : c # b => sub'[c] = sub[c]
    BY <1>6 DEF PushAnnounceEnd, TypeOK
  <2>2. PICK type \in {"ANNOUNCE_ERROR", "ANNOUNCE_CANCEL"} : toPub' = Append(toPub, Msg(type, b))
    BY <1>6 DEF PushAnnounceEnd
  <2>3. \A types, c : Carries(toPub', types, c) <=>
                       Carries(toPub, types, c) \/ (b = c /\ type \in types)
    BY <2>2, QueueToPub
  <2>4. OneAround(a)'
    BY <1>1, <1>2, <2>1, <2>3, OneAroundKept DEF Around
  <2>5. QED
    BY <1>1, <1>2, <2>1, <2>3, <2>4 DEF DifferenceUnderWay
<1>7. QED
  BY <1>3, <1>4, <1>5, <1>6

\* Answers of the peer: of a clean namespace they are about the announce the table has.
LEMMA AnswersClean ==
  ASSUME TablesInv, ToSubInv, ToPubInv,
         NEW a \in Announcement, OneAround(a), DifferenceUnderWay(a),
         RecvAnnounceOk \/ RecvAnnounceEnd
  PROVE  OneAround(a)' /\ DifferenceUnderWay(a)'
<1> USE Numbers DEF TablesInv, subscriberVars
<1> DEFINE h == Head(toPub).announce
<1>1. /\ toPub # <<>> /\ toPub' = Tail(toPub)
      /\ UNCHANGED <<ns, toSub, pub, announced, sub, subOk>>
      /\ Head(toPub).type \in {"ANNOUNCE_OK", "ANNOUNCE_ERROR", "ANNOUNCE_CANCEL"}
  BY DEF RecvAnnounceOk, RecvAnnounceEnd, Delivers
<1>2. /\ h \in Announcement /\ ns[h] \in Namespace /\ ns[a] \in Namespace
      /\ Subject(toPub) = ns[h]
  BY <1>1, TakeToPub DEF TypeOK, Subject
<1>3. /\ Head(toPub).type = "ANNOUNCE_OK" => subOk[h]
      /\ Head(toPub).type # "ANNOUNCE_OK" => sub[h] = "gone"
  <2>1. 1 \in 1 .. Len(toPub) /\ Head(toPub) = toPub[1]
    BY <1>1, TakeToPub
  <2>2. QED
    BY <2>1 DEF ToPubInv
<1>4. \A types, c : Carries(toPub, types, c) <=>
                     (h = c /\ Head(toPub).type \in types) \/ Carries(toPub', types, c)
  BY <1>1, TakeToPub
<1>5. \A types, c : Carries(toSub', types, c) <=> Carries(toSub, types, c)
  BY <1>1
<1>6. Around(h)
  BY <1>1, <1>4 DEF Around
<1>7. OneAround(a)'
  BY <1>1, <1>4, <1>5, OneAroundKept DEF Around
<1>8. CASE RecvAnnounceOk
  <2> DEFINE x == announces[ns[h]]
  <2>1. /\ Head(toPub).type = "ANNOUNCE_OK" /\ UNCHANGED announces
        /\ pubOk' = IF x = NoAnnounce THEN pubOk ELSE [pubOk EXCEPT ![x] = TRUE]
    BY <1>2, <1>8 DEF RecvAnnounceOk, Delivers
  <2> HIDE DEF h
  <2>2. /\ x \in Announcement \cup {NoAnnounce}
        /\ x # NoAnnounce => ns[x] = ns[h] /\ x \in Announcement /\ Around(x)
    <3>1. x \in Announcement \cup {NoAnnounce}
      BY <1>2 DEF TypeOK
    <3>2. x # NoAnnounce => ns[x] = ns[h] /\ pub[x] \in {"open", "checked"}
      BY <1>2 DEF TablesLive
    <3>3. QED
      BY <3>1, <3>2 DEF Around
  <2>3. CASE x = a
    <3>1. a = h
      BY <1>2, <1>6, <2>2, <2>3 DEF OneAround
    <3>2. pubOk'[a] /\ subOk[a]
      BY <1>3, <2>1, <2>3, <3>1 DEF TypeOK
    <3>3. QED
      BY <1>1, <1>4, <1>5, <1>7, <2>1, <3>2 DEF DifferenceUnderWay
  <2>4. CASE x # a
    <3>1. pubOk'[a] = pubOk[a]
      BY <2>1, <2>2, <2>4 DEF TypeOK
    <3>2. announces[ns[a]] = a => h # a
      BY <2>4
    <3>3. QED
      BY <1>1, <1>4, <1>5, <1>7, <2>1, <3>1, <3>2 DEF DifferenceUnderWay
  <2>5. QED
    BY <2>3, <2>4
<1>9. CASE RecvAnnounceEnd
  <2>1. /\ Head(toPub).type # "ANNOUNCE_OK" /\ UNCHANGED pubOk
        /\ announces'[ns[h]] = NoAnnounce
        /\ ns[a] # ns[h] => announces'[ns[a]] = announces[ns[a]]
    BY <1>2, <1>9 DEF RecvAnnounceEnd, Delivers, TypeOK
  <2> HIDE DEF h
  <2>2. CASE ns[a] = ns[h]
    <3>1. ~(announced[ns[a]] = a) /\ ~Carries(toSub, {"ANNOUNCE"}, a)
      <4>1. Carries(toSub, {"ANNOUNCE"}, a) =>
              Carries(toSub, {"ANNOUNCE", "UNANNOUNCE"}, a) /\ sub[a] = "none"
        BY DEF Carries, ToSubInv
      <4>2. announced[ns[a]] = a \/ Carries(toSub, {"ANNOUNCE"}, a) => Around(a)
        BY <1>2, <4>1 DEF Around, TablesLive
      <4>3. announced[ns[a]] = a \/ Carries(toSub, {"ANNOUNCE"}, a) => sub[a] = "gone"
        BY <1>2, <1>3, <1>6, <2>1, <2>2, <4>2 DEF OneAround
      <4>4. QED
        BY <1>2, <4>1, <4>3 DEF TablesLive
    <3>2. QED
      BY <1>1, <1>5, <1>7, <2>1, <2>2, <3>1 DEF DifferenceUnderWay
  <2>3. CASE ns[a] # ns[h]
    BY <1>1, <1>4, <1>5, <1>7, <2>1, <2>3 DEF DifferenceUnderWay
  <2>4. QED
    BY <2>2, <2>3
<1>10. QED
  BY <1>8, <1>9

\* recv_announce and recv_unannounce: of a clean namespace they are about its one announce.
LEMMA ArrivalsClean ==
  ASSUME TablesInv, ToSubInv, ToPubInv,
         NEW a \in Announcement, OneAround(a), DifferenceUnderWay(a),
         RecvAnnounce \/ RecvUnannounce, session' = "up"
  PROVE  OneAround(a)' /\ DifferenceUnderWay(a)'
<1> USE Numbers DEF TablesInv, publisherVars
<1> DEFINE h == Head(toSub).announce
<1>1. /\ toSub # <<>> /\ toSub' = Tail(toSub)
      /\ UNCHANGED <<ns, toPub, pub, pubOk, announces, subOk>>
      /\ Head(toSub).type \in {"ANNOUNCE", "UNANNOUNCE"}
  BY DEF RecvAnnounce, RecvUnannounce, Delivers, subscriberVars
<1>2. /\ h \in Announcement /\ ns[h] \in Namespace /\ ns[a] \in Namespace
      /\ Subject(toSub) = ns[h]
  BY <1>1, TakeToSub DEF TypeOK, Subject
<1>3. 1 \in 1 .. Len(toSub) /\ Head(toSub) = toSub[1]
  BY <1>1, TakeToSub
<1>4. \A types, c : Carries(toSub, types, c) <=>
                     (h = c /\ Head(toSub).type \in types) \/ Carries(toSub', types, c)
  BY <1>1, TakeToSub
<1>5. \A types, c : Carries(toPub', types, c) <=> Carries(toPub, types, c)
  BY <1>1
<1>6. Around(h)
  BY <1>1, <1>4 DEF Around
<1>7. CASE RecvAnnounce
  <2>1. /\ Head(toSub).type = "ANNOUNCE" /\ announced[ns[h]] = NoAnnounce
        /\ announced' = [announced EXCEPT ![ns[h]] = h]
        /\ sub' = [sub EXCEPT ![h] = "queued"]
    BY <1>7 DEF RecvAnnounce, Delivers
  <2> HIDE DEF h
  <2>2. /\ announced'[ns[h]] = h
        /\ ns[a] # ns[h] => announced'[ns[a]] = announced[ns[a]]
        /\ \A c \in Announcement : c # h => sub'[c] = sub[c]
    BY <1>2, <2>1 DEF TypeOK
  <2>3. OneAround(a)'
    <3>1. \A c \in Announcement : Around(c)' => Around(c)
      BY <1>1, <1>4, <1>5, <1>6, <2>2 DEF Around
    <3>2. QED
      BY <1>1, <3>1, OneAroundKept
  <2>4. CASE a = h
    BY <1>1, <1>4, <1>5, <2>1, <2>2, <2>3, <2>4 DEF DifferenceUnderWay
  <2>5. CASE a # h
    BY <1>1, <1>2, <1>4, <1>5, <2>1, <2>2, <2>3, <2>5 DEF DifferenceUnderWay
  <2>6. QED
    BY <2>4, <2>5
<1>8. CASE RecvUnannounce
  <2>1. /\ Head(toSub).type = "UNANNOUNCE" /\ UNCHANGED sub
        /\ announced'[ns[h]] = NoAnnounce
        /\ ns[a] # ns[h] => announced'[ns[a]] = announced[ns[a]]
    BY <1>2, <1>8 DEF RecvUnannounce, Delivers, TypeOK
  <2>2. pub[h] = "gone"
    BY <1>3, <2>1 DEF ToSubInv
  <2>3. ~Carries(toSub', {"ANNOUNCE"}, h)
    <3>1. SUFFICES ASSUME NEW k \in 1 .. Len(toSub'), toSub'[k].announce = h,
                          toSub'[k].type = "ANNOUNCE"
                   PROVE  FALSE
      BY DEF Carries
    <3>2. k + 1 \in 1 .. Len(toSub) /\ toSub'[k] = toSub[k + 1] /\ k \in Nat /\ k >= 1
      BY <1>1, TakeToSub
    <3>3. 1 = k + 1 \/ k + 1 < 1
      BY <1>3, <3>1, <3>2 DEF ToSubInv
    <3>4. QED
      BY <3>2, <3>3
  <2> HIDE DEF h
  <2>4. OneAround(a)'
    <3>1. \A c \in Announcement : Around(c)' => Around(c)
      BY <1>1, <1>4, <1>5, <2>1 DEF Around
    <3>2. QED
      BY <1>1, <3>1, OneAroundKept
  <2>5. CASE ns[a] = ns[h]
    <3>1. announces[ns[a]] # a
      BY <1>2, <1>6, <2>2, <2>5 DEF OneAround, Around, TablesLive
    <3>2. ~Carries(toSub', {"ANNOUNCE"}, a)
      <4>1. SUFFICES ASSUME Carries(toSub', {"ANNOUNCE"}, a) PROVE FALSE
        OBVIOUS
      <4>2. Carries(toSub, {"ANNOUNCE"}, a)
        BY <1>4, <4>1
      <4>3. Around(a)
        BY <4>2 DEF Carries, Around
      <4>4. QED
        BY <1>2, <1>6, <2>3, <2>5, <4>1, <4>3 DEF OneAround
    <3>3. QED
      BY <1>1, <2>1, <2>4, <2>5, <3>1, <3>2 DEF DifferenceUnderWay
  <2>6. CASE ns[a] # ns[h]
    BY <1>1, <1>4, <1>5, <2>1, <2>4, <2>6 DEF DifferenceUnderWay
  <2>7. QED
    BY <2>5, <2>6
<1>9. QED
  BY <1>7, <1>8

\* The announces of a clean namespace keep following one another.
LEMMA NextCleanInv ==
  ASSUME TablesInv, ToSubInv, ToPubInv, QueueInv, CleanInv, [Next]_vars
  PROVE  CleanInv'
<1>1. SUFFICES ASSUME NEW a \in Announcement, session' = "up", ns'[a] \in clean'
               PROVE  OneAround(a)' /\ DifferenceUnderWay(a)'
  BY DEF CleanInv
<1>2. session = "up" /\ ns' = ns /\ clean' \subseteq clean
  BY <1>1 DEF Next, vars, publisherVars, subscriberVars, Announce, DropAnnounce, RemoveAnnounce,
              PushUnannounce, AcceptAnnounced, DropAnnounced, PushAnnounceEnd, RecvAnnounceOk,
              RecvAnnounceEnd, RecvAnnounce, RecvUnannounce, PopAnnounced, Disconnect, Delivers
<1>3. OneAround(a) /\ DifferenceUnderWay(a) /\ ns[a] \in clean'
  BY <1>1, <1>2 DEF CleanInv
<1>4. ASSUME NEW b \in Announcement, Announce(b) PROVE OneAround(a)' /\ DifferenceUnderWay(a)'
  BY <1>3, <1>4, AnnounceClean
<1>5. ASSUME NEW b \in Announcement, DropAnnounce(b) \/ RemoveAnnounce(b) \/ PushUnannounce(b)
      PROVE  OneAround(a)' /\ DifferenceUnderWay(a)'
  BY <1>3, <1>5, PublisherClean
<1>6. CASE \/ PopAnnounced
           \/ \E b \in Announcement : AcceptAnnounced(b) \/ DropAnnounced(b) \/ PushAnnounceEnd(b)
  BY <1>3, <1>6, SubscriberClean
<1>7. CASE RecvAnnounceOk \/ RecvAnnounceEnd
  BY <1>3, <1>7, AnswersClean
<1>8. CASE RecvAnnounce \/ RecvUnannounce
  BY <1>1, <1>3, <1>8, ArrivalsClean
<1>9. CASE Disconnect
  BY <1>1, <1>9 DEF Disconnect
<1>10. CASE UNCHANGED vars
  BY <1>3, <1>10 DEF vars, OneAround, Around, DifferenceUnderWay, Carries
<1>11. QED
  BY <1>4, <1>5, <1>6, <1>7, <1>8, <1>9, <1>10 DEF Next

-----------------------------------------------------------------------------
(***************************************************************************)
(* In every reachable state no table of the session holds the entry of an  *)
(* announce that was dropped, a message tells the truth about the side it  *)
(* comes from, and the announces of a namespace that is announced only     *)
(* when nothing is left of the last one are around one at a time: whatever *)
(* the two drops, the two handlers and announced() interleave to.          *)
(***************************************************************************)
THEOREM AnnounceInvariant == Spec => []AnnounceInv
<1>1. Init => AnnounceInv
  BY InitTablesInv, InitWireInv, InitCleanInv DEF AnnounceInv
<1>2. AnnounceInv /\ [Next]_vars => AnnounceInv'
  BY NextTablesInv, NextWireInv, NextQueueInv, NextCleanInv DEF AnnounceInv
<1>3. QED
  BY <1>1, <1>2, PTL DEF Spec

(***************************************************************************)
(* recv_announce ends the session over a duplicate ANNOUNCE only when some *)
(* namespace was announced over what was left of an earlier announce: of a *)
(* clean namespace an entry in the way would be of the announce that just  *)
(* arrives, which has none yet.                                            *)
(***************************************************************************)
THEOREM OnlyOverlapsDuplicate == Spec => []DuplicateNeedsOverlap
<1>1. Init => DuplicateNeedsOverlap
  BY DEF Init, DuplicateNeedsOverlap
<1>2. AnnounceInv /\ DuplicateNeedsOverlap /\ [Next]_vars => DuplicateNeedsOverlap'
  <2> SUFFICES ASSUME AnnounceInv, DuplicateNeedsOverlap, [Next]_vars, session' = "duplicate"
               PROVE  clean' # Namespace
    BY DEF DuplicateNeedsOverlap
  <2> USE DEF AnnounceInv, TablesInv
  <2>1. clean' \subseteq clean /\ clean \subseteq Namespace
    BY DEF TypeOK, Next, vars, publisherVars, Announce, DropAnnounce, RemoveAnnounce,
           PushUnannounce, AcceptAnnounced, DropAnnounced, PushAnnounceEnd, RecvAnnounceOk,
           RecvAnnounceEnd, RecvAnnounce, RecvUnannounce, PopAnnounced, Disconnect
  <2>2. CASE session = "duplicate"
    BY <2>1, <2>2 DEF DuplicateNeedsOverlap
  <2>3. CASE session # "duplicate"
    <3> DEFINE h == Head(toSub).announce
               b == announced[ns[h]]
    <3>1. RecvAnnounce
      BY <2>3 DEF Next, vars, Announce, DropAnnounce, RemoveAnnounce, PushUnannounce,
                  AcceptAnnounced, DropAnnounced, PushAnnounceEnd, RecvAnnounceOk,
                  RecvAnnounceEnd, RecvUnannounce, PopAnnounced, Disconnect
    <3>2. /\ session = "up" /\ toSub # <<>> /\ toSub' = Tail(toSub)
          /\ Head(toSub).type = "ANNOUNCE" /\ b # NoAnnounce
      BY <2>3, <3>1 DEF RecvAnnounce, Delivers
    <3>3. /\ h \in Announcement /\ 1 \in 1 .. Len(toSub) /\ Head(toSub) = toSub[1]
      BY <3>2, TakeToSub
    <3>4. ns[h] \in Namespace /\ sub[h] = "none" /\ Around(h)
      BY <3>2, <3>3 DEF TypeOK, ToSubInv, Around, Carries
    <3>5. b \in Announcement /\ ns[b] = ns[h] /\ sub[b] \in {"queued", "held"} /\ Around(b)
      BY <3>2, <3>4 DEF TypeOK, TablesLive, Around
    <3>6. ns[h] \notin clean
      BY <3>2, <3>3, <3>4, <3>5 DEF CleanInv, OneAround
    <3>7. QED
      BY <2>1, <3>4, <3>6
  <2>4. QED
    BY <2>2, <2>3
<1>3. QED
  BY <1>1, <1>2, AnnounceInvariant, PTL DEF Spec

(***************************************************************************)
(* When nothing about a clean namespace is on the way or being dropped,    *)
(* Publisher.announces and Subscriber.announced hold the same announce of  *)
(* it, or none, and both sides agree on whether it was accepted.           *)
(***************************************************************************)
THEOREM SettledTablesAgree == Spec => []TablesAgree
<1>1. AnnounceInv => TablesAgree
  <2> SUFFICES ASSUME AnnounceInv, NEW n \in clean, session = "up",
                      \A m \in ToSet(toSub) \cup ToSet(toPub) : ns[m.announce] # n,
                      \A a \in Announcement : ns[a] = n => pub[a] # "removed" /\ sub[a] # "removed"
               PROVE  /\ announces[n] = announced[n]
                      /\ announces[n] # NoAnnounce => pubOk[announces[n]] = subOk[announces[n]]
    BY DEF TablesAgree
  <2> USE Numbers DEF AnnounceInv, TablesInv
  <2>1. /\ n \in Namespace
        /\ announces[n] \in Announcement \cup {NoAnnounce}
        /\ announced[n] \in Announcement \cup {NoAnnounce}
        /\ announces[n] # NoAnnounce => ns[announces[n]] = n
        /\ announced[n] # NoAnnounce => ns[announced[n]] = n
    BY DEF TypeOK, TablesLive
  <2>2. \A a \in Announcement : ns[a] = n => DifferenceUnderWay(a)
    BY DEF CleanInv
  <2>3. ASSUME NEW a \in Announcement, ns[a] = n, NEW types
        PROVE  ~Carries(toSub, types, a) /\ ~Carries(toPub, types, a)
    <3>1. DOMAIN toSub = 1 .. Len(toSub) /\ DOMAIN toPub = 1 .. Len(toPub)
      <4>1. toSub \in Seq(ToSubMsg) /\ toPub \in Seq(ToPubMsg)
        BY DEF TypeOK, ToSubMsg, ToPubMsg
      <4>2. QED
        BY <4>1
    <3>2. QED
      BY <2>3, <3>1 DEF Carries, ToSet
  <2>4. ASSUME NEW a \in Announcement, ns[a] = n
        PROVE  /\ announces[n] = a <=> announced[n] = a
               /\ announces[n] = a => (pubOk[a] <=> subOk[a])
    BY <2>2, <2>3, <2>4 DEF DifferenceUnderWay
  <2>5. pubOk \in [Announcement -> BOOLEAN] /\ subOk \in [Announcement -> BOOLEAN]
    BY DEF TypeOK
  <2>6. QED
    BY <2>1, <2>4, <2>5
<1>2. QED
  BY <1>1, AnnounceInvariant, PTL
===============================================================================
