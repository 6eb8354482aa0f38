-------------------------- MODULE SubscribeProofs ---------------------------
(***************************************************************************)
(* Proofs about SubscribeSession, for any number of subscriptions: the     *)
(* publisher's table is exact, the answers to a SUBSCRIBE are well-formed, *)
(* and an entry of the subscriber outlives the last answer only if that    *)
(* answer overtook it.                                                     *)
(***************************************************************************)
EXTENDS SubscribeSession, TLAPS

\* Queueing a message or a Subscribed adds it behind the others.
LEMMA AppendElems ==
  ASSUME NEW S, NEW s \in Seq(S), NEW e \in S
  PROVE  /\ Append(s, e) \in Seq(S) /\ Len(s) \in Nat /\ Len(Append(s, e)) = Len(s) + 1
         /\ \A k \in 1 .. Len(s) : Append(s, e)[k] = s[k]
         /\ Append(s, e)[Len(s) + 1] = e
OBVIOUS

\* Taking the first one moves the others up.
LEMMA TailElems ==
  ASSUME NEW S, NEW s \in Seq(S), s # <<>>
  PROVE  /\ Tail(s) \in Seq(S) /\ Len(s) \in Nat /\ Len(s) >= 1 /\ Len(Tail(s)) = Len(s) - 1
         /\ Head(s) = s[1] /\ Head(s) \in S
         /\ \A k \in 1 .. (Len(s) - 1) : Tail(s)[k] = s[k + 1]
OBVIOUS

\* Sequences of one length with the same elements are equal.
LEMMA SeqEqual ==
  ASSUME NEW S, NEW s \in Seq(S), NEW t \in Seq(S), Len(s) = Len(t),
         \A k \in 1 .. Len(s) : s[k] = t[k]
  PROVE  s = t
OBVIOUS

\* The answers that send_message can have queued, one after the other.
LEMMA AnswerSeqs ==
  /\ Append(<<>>, "SUBSCRIBE_OK") = <<"SUBSCRIBE_OK">>
  /\ Append(<<>>, "SUBSCRIBE_ERROR") = <<"SUBSCRIBE_ERROR">>
  /\ Append(<<"SUBSCRIBE_OK">>, "SUBSCRIBE_DONE") = <<"SUBSCRIBE_OK", "SUBSCRIBE_DONE">>
<1>1. Append(<<>>, "SUBSCRIBE_OK") = <<"SUBSCRIBE_OK">>
  OBVIOUS
<1>2. Append(<<>>, "SUBSCRIBE_ERROR") = <<"SUBSCRIBE_ERROR">>
  OBVIOUS
<1>3. Append(<<"SUBSCRIBE_OK">>, "SUBSCRIBE_DONE") = <<"SUBSCRIBE_OK", "SUBSCRIBE_DONE">>
  <2> DEFINE a == Append(<<"SUBSCRIBE_OK">>, "SUBSCRIBE_DONE")
             b == <<"SUBSCRIBE_OK", "SUBSCRIBE_DONE">>
  <2>1. /\ a \in Seq({"SUBSCRIBE_OK", "SUBSCRIBE_DONE"}) /\ Len(a) = 2
        /\ a[1] = "SUBSCRIBE_OK" /\ a[2] = "SUBSCRIBE_DONE"
    OBVIOUS
  <2>2. /\ b \in Seq({"SUBSCRIBE_OK", "SUBSCRIBE_DONE"}) /\ Len(b) = 2
        /\ b[1] = "SUBSCRIBE_OK" /\ b[2] = "SUBSCRIBE_DONE"
    OBVIOUS
  <2> HIDE DEF a, b
  <2>3. a = b
    <3>1. \A k \in 1 .. Len(a) : a[k] = b[k]
      BY <2>1, <2>2
    <3>2. QED
      BY <2>1, <2>2, <3>1, SeqEqual
  <2>4. QED
    BY <2>3 DEF a, b
<1>4. QED
  BY <1>1, <1>2, <1>3

ToPubMsg == [type : {"SUBSCRIBE", "UNSUBSCRIBE"}, id : Id]
ToSubMsg == [type : {"SUBSCRIBE_OK"} \cup Terminal, id : Id]

\* A message is of its channel's type.
LEMMA MsgTypes ==
  ASSUME NEW i \in Id
  PROVE  /\ Msg("SUBSCRIBE", i) \in ToPubMsg /\ Msg("UNSUBSCRIBE", i) \in ToPubMsg
         /\ \A type \in {"SUBSCRIBE_OK"} \cup Terminal : Msg(type, i) \in ToSubMsg
         /\ \A type : Msg(type, i).type = type /\ Msg(type, i).id = i
BY DEF Msg, ToPubMsg, ToSubMsg, Terminal

\* No id was asked for.
LEMMA InitSubscribeInv == Init => SubscribeInv
<1> SUFFICES ASSUME Init PROVE SubscribeInv
  OBVIOUS
<1> USE DEF Init
<1>1. TypeOK
  <2>1. annEntry \in BOOLEAN /\ annLoop \in BOOLEAN
    OBVIOUS
  <2>2. /\ toPub \in Seq([type : {"SUBSCRIBE", "UNSUBSCRIBE"}, id : Id])
        /\ toSub \in Seq([type : {"SUBSCRIBE_OK"} \cup Terminal, id : Id])
        /\ annQueue \in Seq(Id) /\ unknown \in Seq(Id)
    OBVIOUS
  <2>3. sent \in [Id -> Seq({"SUBSCRIBE_OK"} \cup Terminal)]
    OBVIOUS
  <2>4. QED
    BY <2>1, <2>2, <2>3 DEF TypeOK
<1>2. PublisherTableExact /\ QueuedOnce /\ AskedOnce
  BY DEF PublisherTableExact, QueuedOnce, AskedOnce
<1>3. AnsweredByPhase
  BY DEF AnsweredByPhase
<1>4. EntryAwaitsLast
  BY DEF EntryAwaitsLast
<1>5. QED
  BY <1>1, <1>2, <1>3, <1>4 DEF SubscribeInv

\* What a step leaves alone keeps its part of the invariant.
LEMMA Frame ==
  ASSUME SubscribeInv
  PROVE  /\ UNCHANGED <<subscribed, phase>> => PublisherTableExact'
         /\ UNCHANGED <<annQueue, unknown, phase>> => QueuedOnce'
         /\ UNCHANGED <<toPub, phase, caller>> => AskedOnce'
         /\ UNCHANGED <<phase, sent, pubOk>> => AnsweredByPhase'
         /\ UNCHANGED <<subscribes, caller, phase, lost, toSub>> => EntryAwaitsLast'
<1> USE DEF SubscribeInv
<1>1. ASSUME UNCHANGED <<subscribed, phase>> PROVE PublisherTableExact'
  BY <1>1 DEF PublisherTableExact
<1>2. ASSUME UNCHANGED <<annQueue, unknown, phase>> PROVE QueuedOnce'
  BY <1>2 DEF QueuedOnce
<1>3. ASSUME UNCHANGED <<toPub, phase, caller>> PROVE AskedOnce'
  BY <1>3 DEF AskedOnce
<1>4. ASSUME UNCHANGED <<phase, sent, pubOk>> PROVE AnsweredByPhase'
  BY <1>4 DEF AnsweredByPhase
<1>5. ASSUME UNCHANGED <<subscribes, caller, phase, lost, toSub>> PROVE EntryAwaitsLast'
  BY <1>5 DEF EntryAwaitsLast, LastOnItsWay
<1>6. QED
  BY <1>1, <1>2, <1>3, <1>4, <1>5

\* The calls of Subscriber::subscribe and Subscribe::drop.
LEMMA CallerInv ==
  ASSUME SubscribeInv, NEW i \in Id, SendSubscribe(i) \/ InsertEntry(i) \/ DropSubscribe(i)
  PROVE  SubscribeInv'
<1> USE DEF SubscribeInv, servedVars, announceVars
<1>0. /\ UNCHANGED <<phase, subscribed, annQueue, unknown, sent, pubOk, toSub, lost, streamed>>
      /\ UNCHANGED <<session, subOk, subState, viaAnnounce, pubClosed, mode, annEntry, annLoop>>
  BY DEF SendSubscribe, InsertEntry, DropSubscribe
<1>1. CASE SendSubscribe(i)
  <2> USE <1>1 DEF SendSubscribe
  <2>1. /\ toPub' \in Seq(ToPubMsg) /\ Len(toPub) \in Nat /\ Len(toPub') = Len(toPub) + 1
        /\ \A k \in 1 .. Len(toPub) : toPub'[k] = toPub[k]
        /\ toPub'[Len(toPub) + 1].type = "SUBSCRIBE" /\ toPub'[Len(toPub) + 1].id = i
    BY AppendElems, MsgTypes DEF TypeOK, ToPubMsg
  <2>2. TypeOK'
    BY <1>0, <2>1 DEF TypeOK, ToPubMsg
  <2>3. AskedOnce'
    <3>1. \A k \in 1 .. Len(toPub) : toPub[k].type = "SUBSCRIBE" => toPub[k].id # i
      BY DEF AskedOnce
    <3>2. QED
      BY <1>0, <2>1, <3>1, SMTT(30) DEF AskedOnce, TypeOK
  <2>4. EntryAwaitsLast'
    <3>1. phase[i] = "none" /\ i \notin subscribes
      BY DEF AskedOnce, EntryAwaitsLast
    <3>2. QED
      BY <1>0, <3>1 DEF EntryAwaitsLast, LastOnItsWay, TypeOK
  <2>5. QED
    BY <1>0, <2>2, <2>3, <2>4, Frame
<1>2. CASE InsertEntry(i)
  <2> USE <1>2 DEF InsertEntry
  <2>1. TypeOK'
    BY <1>0 DEF TypeOK
  <2>2. AskedOnce'
    BY <1>0 DEF AskedOnce, TypeOK
  <2>3. EntryAwaitsLast'
    BY <1>0 DEF EntryAwaitsLast, LastOnItsWay, TypeOK
  <2>4. QED
    BY <1>0, <2>1, <2>2, <2>3, Frame
<1>3. CASE DropSubscribe(i)
  <2> USE <1>3 DEF DropSubscribe
  <2>1. /\ toPub' \in Seq(ToPubMsg) /\ Len(toPub) \in Nat /\ Len(toPub') = Len(toPub) + 1
        /\ \A k \in 1 .. Len(toPub) : toPub'[k] = toPub[k]
        /\ toPub'[Len(toPub) + 1].type = "UNSUBSCRIBE"
    BY AppendElems, MsgTypes DEF TypeOK, ToPubMsg
  <2>2. TypeOK'
    BY <1>0, <2>1 DEF TypeOK, ToPubMsg
  <2>3. AskedOnce'
    BY <1>0, <2>1, SMTT(30) DEF AskedOnce, TypeOK
  <2>4. EntryAwaitsLast'
    BY <1>0 DEF EntryAwaitsLast, LastOnItsWay, TypeOK
  <2>5. QED
    BY <1>0, <2>2, <2>3, <2>4, Frame
<1>4. QED
  BY <1>1, <1>2, <1>3

\* SubscribeRecv::error takes the entry away and leaves the answers on their way.
LEMMA EndSubscribeInv ==
  ASSUME SubscribeInv, NEW i \in Id, EndSubscribe(i)
  PROVE  /\ subscribes' = subscribes \ {i}
         /\ subState' \in [Id -> {"open", "error", "dropped"}]
BY DEF SubscribeInv, TypeOK, EndSubscribe

\* The answers as the subscriber handles them, and a stream that fails.
LEMMA SubscriberInv ==
  ASSUME SubscribeInv, RecvSubscribeOk \/ RecvLast \/ \E i \in Id : RecvStreamFails(i)
  PROVE  SubscribeInv'
<1> USE DEF SubscribeInv, servedVars, announceVars
<1>0. /\ UNCHANGED <<phase, subscribed, annQueue, unknown, sent, pubOk, toPub, streamed>>
      /\ UNCHANGED <<session, caller, viaAnnounce, pubClosed, mode, annEntry, annLoop>>
  BY DEF RecvSubscribeOk, RecvLast, RecvStreamFails
<1>1. ASSUME toSub # <<>>, toSub' = Tail(toSub)
      PROVE  /\ toSub' \in Seq(ToSubMsg) /\ Head(toSub).id \in Id
             /\ \A j \in Id : LastOnItsWay(j) =>
                  \/ LastOnItsWay(j)'
                  \/ Head(toSub).id = j /\ Head(toSub).type \in Terminal
  <2>1. /\ Tail(toSub) \in Seq(ToSubMsg) /\ Len(toSub) \in Nat /\ Len(toSub) >= 1
        /\ Len(Tail(toSub)) = Len(toSub) - 1
        /\ Head(toSub) = toSub[1] /\ Head(toSub) \in ToSubMsg
        /\ \A k \in 1 .. (Len(toSub) - 1) : Tail(toSub)[k] = toSub[k + 1]
    BY <1>1, TailElems DEF TypeOK, ToSubMsg
  <2>2. ASSUME NEW j \in Id, LastOnItsWay(j),
               ~(Head(toSub).id = j /\ Head(toSub).type \in Terminal)
        PROVE  LastOnItsWay(j)'
    <3>1. PICK k \in 1 .. Len(toSub) : toSub[k].id = j /\ toSub[k].type \in Terminal
      BY <2>2 DEF LastOnItsWay
    <3>2. k - 1 \in 1 .. (Len(toSub) - 1) /\ (k - 1) + 1 = k
      BY <2>1, <2>2, <3>1
    <3>3. Tail(toSub)[k - 1] = toSub[k]
      BY <2>1, <3>2
    <3>4. QED
      BY <1>1, <2>1, <3>1, <3>2, <3>3 DEF LastOnItsWay
  <2>3. QED
    BY <1>1, <2>1, <2>2 DEF ToSubMsg
<1>2. CASE RecvSubscribeOk
  <2>1. /\ toSub # <<>> /\ toSub' = Tail(toSub) /\ Head(toSub).type = "SUBSCRIBE_OK"
        /\ UNCHANGED <<subscribes, subState, lost>>
    BY <1>2 DEF RecvSubscribeOk, Delivers
  <2>2. subOk' \in [Id -> BOOLEAN]
    BY <1>2 DEF RecvSubscribeOk, TypeOK
  <2>3. TypeOK'
    BY <1>0, <1>1, <2>1, <2>2 DEF TypeOK, ToSubMsg
  <2>4. EntryAwaitsLast'
    BY <1>0, <1>1, <2>1 DEF EntryAwaitsLast, Terminal
  <2>5. QED
    BY <1>0, <2>3, <2>4, Frame
<1>3. CASE RecvLast
  <2> DEFINE i == Head(toSub).id
  <2>1. /\ toSub # <<>> /\ toSub' = Tail(toSub) /\ Head(toSub).type \in Terminal
        /\ UNCHANGED subOk
        /\ lost' = IF caller[i] = "sent" THEN lost \cup {i} ELSE lost
    BY <1>3 DEF RecvLast, Delivers
  <2>2. i \in Id
    BY <1>1, <2>1
  <2>3. /\ subscribes' = subscribes \ {i}
        /\ subState' \in [Id -> {"open", "error", "dropped"}]
    <3>1. CASE i \in subscribes
      BY <1>3, <2>2, <3>1, EndSubscribeInv DEF RecvLast
    <3>2. CASE i \notin subscribes
      BY <1>3, <3>2 DEF RecvLast, TypeOK
    <3>3. QED
      BY <3>1, <3>2
  <2> HIDE DEF i
  <2>4. TypeOK'
    BY <1>0, <1>1, <2>1, <2>2, <2>3 DEF TypeOK, ToSubMsg
  <2>5. EntryAwaitsLast'
    <3>1. \A j \in Id : LastOnItsWay(j) => LastOnItsWay(j)' \/ i = j
      BY <1>1, <2>1 DEF i
    <3>2. QED
      BY <1>0, <2>1, <2>2, <2>3, <3>1 DEF EntryAwaitsLast
  <2>6. QED
    BY <1>0, <2>4, <2>5, Frame
<1>4. ASSUME NEW i \in Id, RecvStreamFails(i) PROVE SubscribeInv'
  <2>1. /\ subscribes' = subscribes \ {i}
        /\ subState' \in [Id -> {"open", "error", "dropped"}]
        /\ UNCHANGED <<toSub, subOk, lost>>
    BY <1>4, EndSubscribeInv DEF RecvStreamFails
  <2>2. TypeOK'
    BY <1>0, <2>1 DEF TypeOK
  <2>3. EntryAwaitsLast'
    BY <1>0, <2>1 DEF EntryAwaitsLast, LastOnItsWay
  <2>4. QED
    BY <1>0, <2>2, <2>3, Frame
<1>5. QED
  BY <1>2, <1>3, <1>4

\* The two requests as the publisher receives them.
LEMMA ReceiveInv ==
  ASSUME SubscribeInv, RecvSubscribe \/ RecvUnsubscribe
  PROVE  SubscribeInv'
<1> USE DEF SubscribeInv, subscriberVars, announceVars
<1> DEFINE i == Head(toPub).id
<1>1. /\ toPub # <<>> /\ toPub' = Tail(toPub)
      /\ UNCHANGED <<session, toSub, caller, subscribes, subOk, subState, streamed, lost>>
      /\ UNCHANGED <<pubOk, mode, annEntry, annLoop, sent>>
  BY DEF RecvSubscribe, RecvUnsubscribe, Delivers
<1>2. /\ toPub' \in Seq(ToPubMsg) /\ Len(toPub) \in Nat /\ Len(toPub) >= 1
      /\ Len(toPub') = Len(toPub) - 1
      /\ Head(toPub) = toPub[1] /\ i \in Id
      /\ \A k \in 1 .. (Len(toPub) - 1) : toPub'[k] = toPub[k + 1]
  <2>1. toPub \in Seq(ToPubMsg)
    BY DEF TypeOK, ToPubMsg
  <2>2. Head(toPub) \in ToPubMsg
    BY <1>1, <2>1, TailElems
  <2>3. i \in Id
    BY <2>2 DEF ToPubMsg
  <2>4. QED
    BY <1>1, <2>1, <2>3, TailElems
<1>3. ASSUME UNCHANGED phase PROVE AskedOnce'
  BY <1>1, <1>2, <1>3 DEF AskedOnce
<1>4. CASE RecvUnsubscribe
  <2>1. /\ UNCHANGED <<phase, viaAnnounce, subscribed, annQueue, unknown>>
        /\ pubClosed' = IF i \in subscribed /\ pubClosed[i] = "none"
                          THEN [pubClosed EXCEPT ![i] = "cancel"] ELSE pubClosed
    BY <1>4 DEF RecvUnsubscribe
  <2>2. TypeOK'
    BY <1>1, <1>2, <2>1 DEF TypeOK, ToPubMsg
  <2>3. QED
    BY <1>1, <1>3, <2>1, <2>2, Frame
<1>5. CASE RecvSubscribe /\ i \in subscribed
  <2>1. UNCHANGED <<phase, viaAnnounce, subscribed, annQueue, unknown, pubClosed>>
    BY <1>5 DEF RecvSubscribe
  <2>2. TypeOK'
    BY <1>1, <1>2, <2>1 DEF TypeOK, ToPubMsg
  <2>3. QED
    BY <1>1, <1>3, <2>1, <2>2, Frame
<1>6. CASE RecvSubscribe /\ i \notin subscribed
  <2>1. /\ subscribed' = subscribed \cup {i}
        /\ phase' = [phase EXCEPT ![i] = "queued"]
        /\ viaAnnounce' = [viaAnnounce EXCEPT ![i] = annEntry]
        /\ annQueue' = IF annEntry THEN Append(annQueue, i) ELSE annQueue
        /\ unknown' = IF annEntry THEN unknown ELSE Append(unknown, i)
        /\ UNCHANGED pubClosed
        /\ Head(toPub).type = "SUBSCRIBE"
    BY <1>6 DEF RecvSubscribe, Delivers
  <2>2. phase[i] = "none" /\ caller[i] # "none"
    BY <1>2, <2>1 DEF AskedOnce
  <2> HIDE DEF i
  <2>3. viaAnnounce' \in [Id -> BOOLEAN]
    BY <2>1 DEF TypeOK
  <2>4. /\ annQueue' \in Seq(Id) /\ unknown' \in Seq(Id)
        /\ Append(annQueue, i) \in Seq(Id) /\ Append(unknown, i) \in Seq(Id)
    BY <1>2, <2>1 DEF TypeOK
  <2>5. TypeOK'
    BY <1>1, <1>2, <2>1, <2>3, <2>4 DEF TypeOK, ToPubMsg
  <2>6. PublisherTableExact'
    BY <1>2, <2>1 DEF PublisherTableExact, TypeOK
  <2>7. QueuedOnce'
    <3>0. /\ \A k \in 1 .. Len(annQueue) : annQueue[k] # i
          /\ \A k \in 1 .. Len(unknown) : unknown[k] # i
      BY <2>2 DEF QueuedOnce
    <3>1. /\ phase'[i] = "queued"
          /\ \A k \in 1 .. Len(annQueue) : phase'[annQueue[k]] = "queued"
          /\ \A k \in 1 .. Len(unknown) : phase'[unknown[k]] = "queued"
      <4>1. /\ phase'[i] = "queued"
            /\ \A j \in Id : j # i => phase'[j] = phase[j]
        BY <1>2, <2>1 DEF TypeOK
      <4>2. /\ \A k \in 1 .. Len(annQueue) : annQueue[k] \in Id
            /\ \A k \in 1 .. Len(unknown) : unknown[k] \in Id
        BY DEF TypeOK
      <4>3. QED
        BY <3>0, <4>1, <4>2 DEF QueuedOnce
    <3>2. CASE annEntry
      <4>1. /\ Len(annQueue) \in Nat /\ Len(annQueue') = Len(annQueue) + 1
            /\ \A k \in 1 .. Len(annQueue) : annQueue'[k] = annQueue[k]
            /\ annQueue'[Len(annQueue) + 1] = i
            /\ unknown' = unknown
        BY <1>2, <2>1, <3>2, AppendElems DEF TypeOK
      <4>2. QED
        BY <3>0, <3>1, <4>1 DEF QueuedOnce
    <3>3. CASE ~annEntry
      <4>1. /\ Len(unknown) \in Nat /\ Len(unknown') = Len(unknown) + 1
            /\ \A k \in 1 .. Len(unknown) : unknown'[k] = unknown[k]
            /\ unknown'[Len(unknown) + 1] = i
            /\ annQueue' = annQueue
        BY <1>2, <2>1, <3>3, AppendElems DEF TypeOK
      <4>2. QED
        BY <3>0, <3>1, <4>1 DEF QueuedOnce
    <3>4. QED
      BY <3>2, <3>3
  <2>8. AskedOnce'
    <3>1. \A k \in 1 .. Len(toPub') : toPub'[k].type = "SUBSCRIBE" => toPub'[k].id # i
      BY <1>2, <2>1 DEF AskedOnce, i
    <3>2. QED
      BY <1>1, <1>2, <2>1, <2>2, <3>1 DEF AskedOnce, TypeOK
  <2>9. AnsweredByPhase'
    BY <1>1, <1>2, <2>1, <2>2 DEF AnsweredByPhase, TypeOK
  <2>10. EntryAwaitsLast'
    BY <1>1, <2>1 DEF EntryAwaitsLast, LastOnItsWay, TypeOK
  <2>11. QED
    BY <2>5, <2>6, <2>7, <2>8, <2>9, <2>10
<1>7. QED
  BY <1>4, <1>5, <1>6

\* A Subscribed that moves on to another stage before its end.
LEMMA StageInv ==
  ASSUME SubscribeInv, NEW i \in Id, phase[i] \notin {"none", "gone"},
         NEW next \in {"accepted", "serving", "streaming", "dropping", "gone"},
         phase' = [phase EXCEPT ![i] = next]
  PROVE  /\ phase' \in [Id -> {"none", "queued", "accepted", "serving", "streaming", "dropping",
                               "gone"}]
         /\ UNCHANGED <<toPub, caller>> => AskedOnce'
         /\ next # "gone" /\ UNCHANGED <<subscribes, caller, lost>>
              /\ (\A j \in Id : LastOnItsWay(j) => LastOnItsWay(j)') => EntryAwaitsLast'
         /\ phase[i] # "queued" /\ UNCHANGED <<annQueue, unknown>> => QueuedOnce'
<1> USE DEF SubscribeInv
<1>1. /\ phase' \in [Id -> {"none", "queued", "accepted", "serving", "streaming", "dropping",
                            "gone"}]
      /\ \A j \in Id : phase'[j] = "none" <=> phase[j] = "none"
      /\ \A j \in Id \ {i} : phase'[j] = phase[j]
      /\ phase'[i] = next
  BY DEF TypeOK
<1>2. ASSUME UNCHANGED <<toPub, caller>> PROVE AskedOnce'
  BY <1>1, <1>2 DEF AskedOnce, TypeOK
<1>3. ASSUME next # "gone", UNCHANGED <<subscribes, caller, lost>>,
             \A j \in Id : LastOnItsWay(j) => LastOnItsWay(j)'
      PROVE  EntryAwaitsLast'
  BY <1>1, <1>3 DEF EntryAwaitsLast
<1>4. ASSUME phase[i] # "queued", UNCHANGED <<annQueue, unknown>> PROVE QueuedOnce'
  BY <1>1, <1>4 DEF QueuedOnce, TypeOK
<1>5. QED
  BY <1>1, <1>2, <1>3, <1>4

\* The queues after the first of one of them was taken out.
LEMMA PopInv ==
  ASSUME SubscribeInv, NEW next \in {"accepted", "dropping"},
         \/ /\ annQueue # <<>> /\ annQueue' = Tail(annQueue) /\ unknown' = unknown
            /\ phase' = [phase EXCEPT ![Head(annQueue)] = next]
         \/ /\ unknown # <<>> /\ unknown' = Tail(unknown) /\ annQueue' = annQueue
            /\ phase' = [phase EXCEPT ![Head(unknown)] = next]
  PROVE  QueuedOnce' /\ annQueue' \in Seq(Id) /\ unknown' \in Seq(Id)
<1> USE DEF SubscribeInv
<1>1. CASE /\ annQueue # <<>> /\ annQueue' = Tail(annQueue) /\ unknown' = unknown
           /\ phase' = [phase EXCEPT ![Head(annQueue)] = next]
  <2>1. /\ annQueue' \in Seq(Id) /\ Len(annQueue) \in Nat /\ Len(annQueue) >= 1
        /\ Len(annQueue') = Len(annQueue) - 1
        /\ Head(annQueue) = annQueue[1] /\ Head(annQueue) \in Id
        /\ \A k \in 1 .. (Len(annQueue) - 1) : annQueue'[k] = annQueue[k + 1]
    BY <1>1, TailElems DEF TypeOK
  <2>2. /\ \A k \in 1 .. Len(annQueue') : annQueue'[k] # Head(annQueue)
        /\ \A k \in 1 .. Len(unknown) : unknown[k] # Head(annQueue)
    BY <2>1 DEF QueuedOnce
  <2>3. /\ \A k \in 1 .. Len(annQueue') : phase'[annQueue'[k]] = "queued"
        /\ \A k \in 1 .. Len(unknown) : phase'[unknown[k]] = "queued"
    <3>1. \A j \in Id \ {Head(annQueue)} : phase'[j] = phase[j]
      BY <1>1 DEF TypeOK
    <3>2. ASSUME NEW k \in 1 .. Len(annQueue') PROVE phase'[annQueue'[k]] = "queued"
      <4>1. k + 1 \in 1 .. Len(annQueue) /\ annQueue'[k] = annQueue[k + 1]
        BY <2>1
      <4>2. annQueue[k + 1] \in Id /\ phase[annQueue[k + 1]] = "queued"
        BY <4>1 DEF QueuedOnce, TypeOK
      <4>3. QED
        BY <2>2, <3>1, <4>1, <4>2
    <3>3. ASSUME NEW k \in 1 .. Len(unknown) PROVE phase'[unknown[k]] = "queued"
      BY <2>2, <3>1 DEF QueuedOnce, TypeOK
    <3>4. QED
      BY <3>2, <3>3
  <2>4. \A j, k \in 1 .. Len(annQueue') : annQueue'[j] = annQueue'[k] => j = k
    <3> SUFFICES ASSUME NEW j \in 1 .. Len(annQueue'), NEW k \in 1 .. Len(annQueue'),
                        annQueue'[j] = annQueue'[k]
                 PROVE  j = k
      OBVIOUS
    <3>1. j + 1 = k + 1
      BY <2>1 DEF QueuedOnce
    <3>2. QED
      BY <2>1, <3>1
  <2>5. \A j \in 1 .. Len(annQueue'), k \in 1 .. Len(unknown) : annQueue'[j] # unknown[k]
    <3> SUFFICES ASSUME NEW j \in 1 .. Len(annQueue'), NEW k \in 1 .. Len(unknown)
                 PROVE  annQueue'[j] # unknown[k]
      OBVIOUS
    <3>1. j + 1 \in 1 .. Len(annQueue) /\ annQueue'[j] = annQueue[j + 1]
      BY <2>1
    <3>2. QED
      BY <3>1 DEF QueuedOnce
  <2>6. unknown' \in Seq(Id)
    BY <1>1 DEF TypeOK
  <2>7. \A j, k \in 1 .. Len(unknown') : unknown'[j] = unknown'[k] => j = k
    BY <1>1 DEF QueuedOnce
  <2>8. QED
    BY <1>1, <2>1, <2>3, <2>4, <2>5, <2>6, <2>7 DEF QueuedOnce
<1>2. CASE /\ unknown # <<>> /\ unknown' = Tail(unknown) /\ annQueue' = annQueue
           /\ phase' = [phase EXCEPT ![Head(unknown)] = next]
  <2>1. /\ unknown' \in Seq(Id) /\ Len(unknown) \in Nat /\ Len(unknown) >= 1
        /\ Len(unknown') = Len(unknown) - 1
        /\ Head(unknown) = unknown[1] /\ Head(unknown) \in Id
        /\ \A k \in 1 .. (Len(unknown) - 1) : unknown'[k] = unknown[k + 1]
    BY <1>2, TailElems DEF TypeOK
  <2>2. /\ \A k \in 1 .. Len(unknown') : unknown'[k] # Head(unknown)
        /\ \A k \in 1 .. Len(annQueue) : annQueue[k] # Head(unknown)
    BY <2>1 DEF QueuedOnce
  <2>3. /\ \A k \in 1 .. Len(unknown') : phase'[unknown'[k]] = "queued"
        /\ \A k \in 1 .. Len(annQueue) : phase'[annQueue[k]] = "queued"
    <3>1. \A j \in Id \ {Head(unknown)} : phase'[j] = phase[j]
      BY <1>2 DEF TypeOK
    <3>2. ASSUME NEW k \in 1 .. Len(unknown') PROVE phase'[unknown'[k]] = "queued"
      <4>1. k + 1 \in 1 .. Len(unknown) /\ unknown'[k] = unknown[k + 1]
        BY <2>1
      <4>2. unknown[k + 1] \in Id /\ phase[unknown[k + 1]] = "queued"
        BY <4>1 DEF QueuedOnce, TypeOK
      <4>3. QED
        BY <2>2, <3>1, <4>1, <4>2
    <3>3. ASSUME NEW k \in 1 .. Len(annQueue) PROVE phase'[annQueue[k]] = "queued"
      BY <2>2, <3>1 DEF QueuedOnce, TypeOK
    <3>4. QED
      BY <3>2, <3>3
  <2>4. \A j, k \in 1 .. Len(unknown') : unknown'[j] = unknown'[k] => j = k
    <3> SUFFICES ASSUME NEW j \in 1 .. Len(unknown'), NEW k \in 1 .. Len(unknown'),
                        unknown'[j] = unknown'[k]
                 PROVE  j = k
      OBVIOUS
    <3>1. j + 1 = k + 1
      BY <2>1 DEF QueuedOnce
    <3>2. QED
      BY <2>1, <3>1
  <2>5. \A j \in 1 .. Len(unknown'), k \in 1 .. Len(annQueue) : unknown'[j] # annQueue[k]
    <3> SUFFICES ASSUME NEW j \in 1 .. Len(unknown'), NEW k \in 1 .. Len(annQueue)
                 PROVE  unknown'[j] # annQueue[k]
      OBVIOUS
    <3>1. j + 1 \in 1 .. Len(unknown) /\ unknown'[j] = unknown[j + 1]
      BY <2>1
    <3>2. QED
      BY <3>1 DEF QueuedOnce
  <2>6. annQueue' \in Seq(Id)
    BY <1>2 DEF TypeOK
  <2>7. \A j, k \in 1 .. Len(annQueue') : annQueue'[j] = annQueue'[k] => j = k
    BY <1>2 DEF QueuedOnce
  <2>8. QED
    BY <1>2, <2>1, <2>3, <2>4, <2>5, <2>6, <2>7 DEF QueuedOnce
<1>3. QED
  BY <1>1, <1>2

\* Subscribed::drop, first half, by whichever task or queue held the Subscribed.
LEMMA BeginDropInv ==
  ASSUME SubscribeInv, NEW i \in Id, NEW err \in {"none", "notfound", "error"},
         phase[i] \in {"queued", "accepted", "serving", "streaming"}, BeginDrop(i, err),
         QueuedOnce', annQueue' \in Seq(Id), unknown' \in Seq(Id),
         annEntry' = annEntry, annLoop' = annLoop
  PROVE  SubscribeInv'
<1> USE DEF SubscribeInv, BeginDrop, subscriberVars
<1>1. TypeOK'
  BY DEF TypeOK
<1>2. PublisherTableExact'
  BY DEF PublisherTableExact, TypeOK
<1>3. AskedOnce' /\ EntryAwaitsLast'
  BY StageInv DEF LastOnItsWay
<1>4. AnsweredByPhase'
  BY DEF AnsweredByPhase, TypeOK
<1>5. QED
  BY <1>1, <1>2, <1>3, <1>4

\* The steps that end in BeginDrop.
LEMMA DropInv ==
  ASSUME SubscribeInv,
         \/ \E i \in Id : \/ Refuse(i) \/ ModeFails(i) \/ StreamEnds(i)
                          \/ StreamCancelled(i) \/ DropTask(i)
         \/ FreeAnnounceQueue
  PROVE  SubscribeInv'
<1>1. ASSUME NEW i \in Id,
             \/ Refuse(i) \/ ModeFails(i) \/ StreamEnds(i)
             \/ StreamCancelled(i) \/ DropTask(i)
      PROVE  SubscribeInv'
  <2>1. /\ phase[i] \in {"accepted", "serving", "streaming"}
        /\ \E err \in {"none", "notfound", "error"} : BeginDrop(i, err)
        /\ UNCHANGED <<annQueue, unknown, annEntry, annLoop>>
    BY <1>1 DEF Refuse, ModeFails, StreamEnds, StreamCancelled, DropTask, InTask, announceVars
  <2>2. PICK err \in {"none", "notfound", "error"} : BeginDrop(i, err)
    BY <2>1
  <2>3. QueuedOnce'
    BY <2>1, <2>2, StageInv DEF BeginDrop
  <2>4. annQueue' \in Seq(Id) /\ unknown' \in Seq(Id)
    BY <2>1 DEF SubscribeInv, TypeOK
  <2>5. QED
    BY <2>1, <2>2, <2>3, <2>4, BeginDropInv
<1>2. CASE FreeAnnounceQueue
  <2>1. /\ annQueue # <<>> /\ annQueue' = Tail(annQueue) /\ BeginDrop(Head(annQueue), "notfound")
        /\ UNCHANGED <<unknown, annEntry, annLoop>>
    BY <1>2 DEF FreeAnnounceQueue
  <2>2. Head(annQueue) \in Id /\ phase[Head(annQueue)] = "queued"
    BY <2>1, TailElems DEF SubscribeInv, QueuedOnce, TypeOK
  <2>3. QueuedOnce' /\ annQueue' \in Seq(Id) /\ unknown' \in Seq(Id)
    BY <2>1, PopInv DEF BeginDrop
  <2>4. QED
    BY <2>1, <2>2, <2>3, BeginDropInv
<1>3. QED
  BY <1>1, <1>2

\* The steps of a Subscribed between its arrival and its drop.
LEMMA PublisherInv ==
  ASSUME SubscribeInv,
         \/ PopAnnounce \/ PopUnknown
         \/ \E i \in Id : \/ Serve(i) \/ EndDrop(i)
                          \/ \E m \in {"subgroups", "other"} : Stream(i, m)
  PROVE  SubscribeInv'
<1> USE DEF SubscribeInv, subscriberVars, announceVars
<1>1. CASE PopAnnounce \/ PopUnknown
  <2>1. PICK i \in Id :
          /\ phase[i] = "queued" /\ phase' = [phase EXCEPT ![i] = "accepted"]
    BY <1>1, TailElems DEF PopAnnounce, PopUnknown, QueuedOnce, TypeOK
  <2>2. QueuedOnce' /\ annQueue' \in Seq(Id) /\ unknown' \in Seq(Id)
    BY <1>1, PopInv DEF PopAnnounce, PopUnknown
  <2>3. /\ UNCHANGED <<session, toPub, toSub, caller, subscribes, subOk, subState, streamed, lost>>
        /\ UNCHANGED <<viaAnnounce, subscribed, pubOk, pubClosed, mode, annEntry, annLoop, sent>>
    BY <1>1 DEF PopAnnounce, PopUnknown
  <2>4. TypeOK'
    BY <2>1, <2>2, <2>3 DEF TypeOK
  <2>5. PublisherTableExact'
    BY <2>1, <2>3 DEF PublisherTableExact, TypeOK
  <2>6. AskedOnce' /\ EntryAwaitsLast'
    BY <2>1, <2>3, StageInv DEF LastOnItsWay
  <2>7. AnsweredByPhase'
    BY <2>1, <2>3 DEF AnsweredByPhase, TypeOK
  <2>8. QED
    BY <2>2, <2>4, <2>5, <2>6, <2>7
<1>2. ASSUME NEW i \in Id, NEW type \in {"SUBSCRIBE_OK"} \cup Terminal,
             toSub' = Append(toSub, Msg(type, i)),
             sent' = [sent EXCEPT ![i] = Append(@, type)]
      PROVE  /\ toSub' \in Seq(ToSubMsg)
             /\ \A j \in Id : LastOnItsWay(j) => LastOnItsWay(j)'
             /\ type \in Terminal => LastOnItsWay(i)'
             /\ sent' \in [Id -> Seq({"SUBSCRIBE_OK"} \cup Terminal)]
             /\ sent'[i] = Append(sent[i], type) /\ \A j \in Id \ {i} : sent'[j] = sent[j]
  <2>1. /\ toSub' \in Seq(ToSubMsg) /\ Len(toSub) \in Nat /\ Len(toSub') = Len(toSub) + 1
        /\ \A k \in 1 .. Len(toSub) : toSub'[k] = toSub[k]
        /\ toSub'[Len(toSub) + 1].type = type /\ toSub'[Len(toSub) + 1].id = i
    BY <1>2, AppendElems, MsgTypes DEF TypeOK, ToSubMsg
  <2>2. \A j \in Id : LastOnItsWay(j) => LastOnItsWay(j)'
    BY <2>1 DEF LastOnItsWay
  <2>3. type \in Terminal => LastOnItsWay(i)'
    BY <2>1 DEF LastOnItsWay
  <2>4. /\ sent' \in [Id -> Seq({"SUBSCRIBE_OK"} \cup Terminal)]
        /\ sent'[i] = Append(sent[i], type) /\ \A j \in Id \ {i} : sent'[j] = sent[j]
    <3>1. sent[i] \in Seq({"SUBSCRIBE_OK"} \cup Terminal)
      BY DEF TypeOK
    <3>2. Append(sent[i], type) \in Seq({"SUBSCRIBE_OK"} \cup Terminal)
      BY <3>1
    <3>3. QED
      BY <1>2, <3>2 DEF TypeOK
  <2>5. QED
    BY <2>1, <2>2, <2>3, <2>4
<1>3. ASSUME NEW i \in Id, Serve(i) PROVE SubscribeInv'
  <2>1. /\ phase[i] = "accepted" /\ phase' = [phase EXCEPT ![i] = "serving"]
        /\ pubOk' = [pubOk EXCEPT ![i] = TRUE]
        /\ toSub' = Append(toSub, Msg("SUBSCRIBE_OK", i))
        /\ sent' = [sent EXCEPT ![i] = Append(@, "SUBSCRIBE_OK")]
        /\ UNCHANGED <<session, toPub, caller, subscribes, subOk, subState, streamed, lost>>
        /\ UNCHANGED <<viaAnnounce, subscribed, pubClosed, mode, annQueue, unknown, annEntry>>
        /\ UNCHANGED annLoop
    BY <1>3 DEF Serve
  <2>2. /\ toSub' \in Seq(ToSubMsg)
        /\ \A j \in Id : LastOnItsWay(j) => LastOnItsWay(j)'
        /\ sent' \in [Id -> Seq({"SUBSCRIBE_OK"} \cup Terminal)]
        /\ sent'[i] = Append(sent[i], "SUBSCRIBE_OK") /\ \A j \in Id \ {i} : sent'[j] = sent[j]
    BY <1>2, <2>1
  <2>3. TypeOK'
    BY <2>1, <2>2 DEF TypeOK, ToSubMsg
  <2>4. PublisherTableExact'
    BY <2>1 DEF PublisherTableExact, TypeOK
  <2>5. AskedOnce' /\ EntryAwaitsLast' /\ QueuedOnce'
    BY <2>1, <2>2, StageInv
  <2>6. AnsweredByPhase'
    <3>1. sent'[i] = <<"SUBSCRIBE_OK">> /\ phase'[i] = "serving" /\ pubOk'[i]
      <4>1. sent[i] = <<>>
        BY <2>1 DEF AnsweredByPhase
      <4>2. sent'[i] = <<"SUBSCRIBE_OK">>
        BY <2>2, <4>1, AnswerSeqs
      <4>3. phase'[i] = "serving" /\ pubOk'[i]
        BY <2>1 DEF TypeOK
      <4>4. QED
        BY <4>2, <4>3
    <3>2. \A j \in Id \ {i} : sent'[j] = sent[j] /\ phase'[j] = phase[j] /\ pubOk'[j] = pubOk[j]
      BY <2>1, <2>2 DEF TypeOK
    <3>3. QED
      BY <3>1, <3>2 DEF AnsweredByPhase
  <2>7. QED
    BY <2>3, <2>4, <2>5, <2>6
<1>4. ASSUME NEW i \in Id, EndDrop(i) PROVE SubscribeInv'
  <2> DEFINE type == IF pubOk[i] THEN "SUBSCRIBE_DONE" ELSE "SUBSCRIBE_ERROR"
  <2>1. /\ phase[i] = "dropping" /\ phase' = [phase EXCEPT ![i] = "gone"]
        /\ toSub' = Append(toSub, Msg(type, i))
        /\ sent' = [sent EXCEPT ![i] = Append(@, type)]
        /\ UNCHANGED <<session, toPub, caller, subscribes, subOk, subState, streamed, lost>>
        /\ UNCHANGED <<viaAnnounce, subscribed, pubOk, pubClosed, mode, annQueue, unknown>>
        /\ UNCHANGED <<annEntry, annLoop>>
    BY <1>4 DEF EndDrop
  <2>2. /\ toSub' \in Seq(ToSubMsg)
        /\ \A j \in Id : LastOnItsWay(j) => LastOnItsWay(j)'
        /\ LastOnItsWay(i)'
        /\ sent' \in [Id -> Seq({"SUBSCRIBE_OK"} \cup Terminal)]
        /\ sent'[i] = Append(sent[i], type) /\ \A j \in Id \ {i} : sent'[j] = sent[j]
    <3>1. type \in Terminal /\ type \in {"SUBSCRIBE_OK"} \cup Terminal
      BY DEF Terminal
    <3> HIDE DEF type
    <3>2. QED
      BY <1>2, <2>1, <3>1
  <2>3. TypeOK'
    BY <2>1, <2>2 DEF TypeOK, ToSubMsg
  <2>4. PublisherTableExact'
    BY <2>1 DEF PublisherTableExact, TypeOK
  <2>5. AskedOnce' /\ QueuedOnce'
    BY <2>1, StageInv
  <2>6. EntryAwaitsLast'
    BY <2>1, <2>2 DEF EntryAwaitsLast, TypeOK
  <2>7. AnsweredByPhase'
    <3>1. sent'[i] \in {<<"SUBSCRIBE_ERROR">>, <<"SUBSCRIBE_OK", "SUBSCRIBE_DONE">>}
      <4>1. sent[i] = IF pubOk[i] THEN <<"SUBSCRIBE_OK">> ELSE <<>>
        BY <2>1 DEF AnsweredByPhase
      <4>2. CASE pubOk[i]
        BY <2>2, <4>1, <4>2, AnswerSeqs
      <4>3. CASE ~pubOk[i]
        BY <2>2, <4>1, <4>3, AnswerSeqs
      <4>4. QED
        BY <4>2, <4>3
    <3>2. phase'[i] = "gone" /\ \A j \in Id \ {i} : sent'[j] = sent[j] /\ phase'[j] = phase[j]
      BY <2>1, <2>2 DEF TypeOK
    <3>3. QED
      BY <2>1, <3>1, <3>2 DEF AnsweredByPhase
  <2>8. QED
    BY <2>3, <2>4, <2>5, <2>6, <2>7
<1>5. ASSUME NEW i \in Id, NEW m \in {"subgroups", "other"}, Stream(i, m) PROVE SubscribeInv'
  <2>1. /\ phase[i] = "serving" /\ phase' = [phase EXCEPT ![i] = "streaming"]
        /\ mode' = [mode EXCEPT ![i] = m] /\ streamed' = streamed \cup {i}
        /\ UNCHANGED <<session, toPub, toSub, caller, subscribes, subOk, subState, lost>>
        /\ UNCHANGED <<viaAnnounce, subscribed, pubOk, pubClosed, annQueue, unknown, annEntry>>
        /\ UNCHANGED <<annLoop, sent>>
    BY <1>5 DEF Stream
  <2>2. TypeOK'
    BY <2>1 DEF TypeOK
  <2>3. PublisherTableExact'
    BY <2>1 DEF PublisherTableExact, TypeOK
  <2>4. AskedOnce' /\ EntryAwaitsLast' /\ QueuedOnce'
    BY <2>1, StageInv DEF LastOnItsWay
  <2>5. AnsweredByPhase'
    BY <2>1 DEF AnsweredByPhase, TypeOK
  <2>6. QED
    BY <2>2, <2>3, <2>4, <2>5
<1>6. QED
  BY <1>1, <1>3, <1>4, <1>5

\* Every step keeps the invariant.
LEMMA NextSubscribeInv == SubscribeInv /\ [Next]_vars => SubscribeInv'
<1> SUFFICES ASSUME SubscribeInv, [Next]_vars PROVE SubscribeInv'
  OBVIOUS
<1>1. CASE \E i \in Id : SendSubscribe(i) \/ InsertEntry(i) \/ DropSubscribe(i)
  BY <1>1, CallerInv
<1>2. CASE RecvSubscribeOk \/ RecvLast \/ \E i \in Id : RecvStreamFails(i)
  BY <1>2, SubscriberInv
<1>3. CASE RecvSubscribe \/ RecvUnsubscribe
  BY <1>3, ReceiveInv
<1>4. CASE \/ PopAnnounce \/ PopUnknown
           \/ \E i \in Id : \/ Serve(i) \/ EndDrop(i)
                            \/ \E m \in {"subgroups", "other"} : Stream(i, m)
  BY <1>4, PublisherInv
<1>5. CASE \/ \E i \in Id : \/ Refuse(i) \/ ModeFails(i) \/ StreamEnds(i)
                            \/ StreamCancelled(i) \/ DropTask(i)
           \/ FreeAnnounceQueue
  BY <1>5, DropInv
<1>6. CASE AnnounceRefused \/ AnnounceStops \/ Unannounce \/ Disconnect \/ UNCHANGED vars
  <2>1. /\ UNCHANGED <<toPub, toSub, caller, subscribes, subOk, subState, streamed, lost, phase>>
        /\ UNCHANGED <<viaAnnounce, subscribed, pubOk, pubClosed, mode, annQueue, unknown, sent>>
    BY <1>6 DEF AnnounceRefused, AnnounceStops, Unannounce, Disconnect, vars, subscriberVars,
                servedVars, announceVars
  <2>2. session' \in {"up", "down"} /\ annEntry' \in BOOLEAN /\ annLoop' \in BOOLEAN
    BY <1>6 DEF SubscribeInv, TypeOK, AnnounceRefused, AnnounceStops, Unannounce, Disconnect, vars,
                announceVars
  <2>3. TypeOK'
    BY <2>1, <2>2 DEF SubscribeInv, TypeOK
  <2>4. QED
    BY <2>1, <2>3, Frame DEF SubscribeInv
<1>7. QED
  BY <1>1, <1>2, <1>3, <1>4, <1>5, <1>6 DEF Next

(***************************************************************************)
(* For any number of subscriptions: the publisher's table holds exactly    *)
(* the ids from the arrival of their SUBSCRIBE to the drop of their        *)
(* Subscribed, each queued Subscribed is in one queue once, and a caller's *)
(* entry waits for an answer that is still coming.                         *)
(***************************************************************************)
THEOREM SubscribeInvariant == Spec => []SubscribeInv
BY InitSubscribeInv, NextSubscribeInv, PTL DEF Spec

(***************************************************************************)
(* Subscribed::drop and serve, in whichever task they run: the answers to  *)
(* a SUBSCRIBE are an error, or an OK and at most one DONE after it.       *)
(***************************************************************************)
THEOREM AnswersAreWellFormed == Spec => []AnswersWellFormed
<1>1. SubscribeInv => AnswersWellFormed
  <2> SUFFICES ASSUME SubscribeInv, NEW i \in Id
               PROVE  sent[i] \in {<<>>, <<"SUBSCRIBE_ERROR">>, <<"SUBSCRIBE_OK">>,
                                   <<"SUBSCRIBE_OK", "SUBSCRIBE_DONE">>}
    BY DEF AnswersWellFormed
  <2>1. phase[i] \in {"none", "queued", "accepted", "serving", "streaming", "dropping", "gone"}
    BY DEF SubscribeInv, TypeOK
  <2>2. QED
    BY <2>1 DEF SubscribeInv, AnsweredByPhase
<1>2. QED
  BY <1>1, SubscribeInvariant, PTL

(***************************************************************************)
(* recv_subscribe_error and recv_subscribe_done forget the id, unless the  *)
(* answer arrived between the SUBSCRIBE and the insertion of its entry.    *)
(***************************************************************************)
THEOREM OnlyOvertakenEntriesStay == Spec => []LastAnswerClearsEntry
<1>1. SubscribeInv => LastAnswerClearsEntry
  <2> SUFFICES ASSUME SubscribeInv, NEW i \in Id, sent[i] # <<>>,
                      sent[i][Len(sent[i])] \in Terminal, i \in subscribes
               PROVE  i \in lost \/ LastOnItsWay(i)
    BY DEF LastAnswerClearsEntry
  <2>1. sent[i] # <<"SUBSCRIBE_OK">>
    <3>1. Len(<<"SUBSCRIBE_OK">>) = 1 /\ <<"SUBSCRIBE_OK">>[1] = "SUBSCRIBE_OK"
      OBVIOUS
    <3>2. QED
      BY <3>1 DEF Terminal
  <2>2. phase[i] = "gone"
    <3>1. phase[i] \in {"none", "queued", "accepted", "serving", "streaming", "dropping", "gone"}
      BY DEF SubscribeInv, TypeOK
    <3>2. QED
      BY <2>1, <3>1 DEF SubscribeInv, AnsweredByPhase
  <2>3. QED
    BY <2>2 DEF SubscribeInv, EntryAwaitsLast
<1>2. QED
  BY <1>1, SubscribeInvariant, PTL
=============================================================================
