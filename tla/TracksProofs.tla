---------------------------- MODULE TracksProofs ----------------------------
(***************************************************************************)
(* Proofs about Tracks, for any names, readers and number of tracks: no    *)
(* TrackWriter is lost or doubled, concurrent subscribes to a name share   *)
(* one track, and only requests queued after the drain of Queue::close can *)
(* be stranded.                                                            *)
(***************************************************************************)
EXTENDS Tracks, TLAPS

\* A track is a number between 1 and the bound, and NoTrack is none.
LEMMA Numbers ==
  /\ MaxTracks \in Nat
  /\ \A t : t \in Track <=> t \in Nat /\ 1 <= t /\ t <= MaxTracks
  /\ NoTrack \notin Track
BY TracksAssumption, NoTrackAssumption DEF Track

\* VecDeque::push_back adds its element and no other; a new one leaves the queue injective.
LEMMA AppendSet ==
  ASSUME NEW S, NEW s \in Seq(S), NEW e \in S
  PROVE  /\ Append(s, e) \in Seq(S)
         /\ ToSet(Append(s, e)) = ToSet(s) \cup {e}
         /\ IsInjective(s) /\ e \notin ToSet(s) => IsInjective(Append(s, e))
<1>1. /\ Append(s, e) \in Seq(S) /\ Len(Append(s, e)) = Len(s) + 1 /\ Len(s) \in Nat
      /\ \A i \in 1 .. Len(s) : Append(s, e)[i] = s[i]
      /\ Append(s, e)[Len(s) + 1] = e
      /\ DOMAIN Append(s, e) = 1 .. (Len(s) + 1) /\ DOMAIN s = 1 .. Len(s)
  OBVIOUS
<1>2. ToSet(Append(s, e)) = ToSet(s) \cup {e}
  BY <1>1 DEF ToSet
<1>3. ASSUME IsInjective(s), e \notin ToSet(s) PROVE IsInjective(Append(s, e))
  BY <1>1, <1>3 DEF ToSet, IsInjective
<1>4. QED
  BY <1>1, <1>2, <1>3

\* VecDeque::pop_front takes the front, and of an injective queue nothing else.
LEMMA TailSet ==
  ASSUME NEW S, NEW s \in Seq(S), s # <<>>
  PROVE  /\ Tail(s) \in Seq(S) /\ Head(s) \in ToSet(s) /\ Head(s) \in S
         /\ ToSet(Tail(s)) \subseteq ToSet(s)
         /\ IsInjective(s) =>
              IsInjective(Tail(s)) /\ ToSet(Tail(s)) = ToSet(s) \ {Head(s)}
<1>1. /\ Tail(s) \in Seq(S) /\ Len(Tail(s)) = Len(s) - 1 /\ Len(s) \in Nat /\ Len(s) >= 1
      /\ Head(s) = s[1] /\ s[1] \in S
      /\ \A i \in 1 .. (Len(s) - 1) : Tail(s)[i] = s[i + 1]
      /\ DOMAIN Tail(s) = 1 .. (Len(s) - 1) /\ DOMAIN s = 1 .. Len(s)
  OBVIOUS
<1>2. Head(s) \in ToSet(s)
  BY <1>1 DEF ToSet
<1>3. ToSet(Tail(s)) \subseteq ToSet(s)
  BY <1>1 DEF ToSet
<1>4. ASSUME IsInjective(s) PROVE IsInjective(Tail(s))
  BY <1>1, <1>4 DEF IsInjective
<1>5. ASSUME IsInjective(s) PROVE ToSet(Tail(s)) = ToSet(s) \ {Head(s)}
  <2>1. ASSUME NEW x \in ToSet(s), x # Head(s) PROVE x \in ToSet(Tail(s))
    <3>1. PICK i \in 1 .. Len(s) : s[i] = x
      BY <1>1 DEF ToSet
    <3>2. i - 1 \in 1 .. (Len(s) - 1) /\ (i - 1) + 1 = i
      BY <1>1, <2>1, <3>1
    <3>3. QED
      BY <1>1, <3>1, <3>2 DEF ToSet
  <2>2. Head(s) \notin ToSet(Tail(s))
    BY <1>1, <1>5 DEF ToSet, IsInjective
  <2>3. QED
    BY <1>3, <2>1, <2>2
<1>6. QED
  BY <1>1, <1>2, <1>3, <1>4, <1>5

\* An empty queue holds nothing.
LEMMA EmptySet == ASSUME NEW S PROVE <<>> \in Seq(S) /\ ToSet(<<>>) = {} /\ IsInjective(<<>>)
BY DEF ToSet, IsInjective

\* Tracks::produce: no track, empty map, empty queue.
LEMMA InitTracksInv == Init => TracksInv
<1> SUFFICES ASSUME Init PROVE TracksInv
  OBVIOUS
<1> USE Numbers, EmptySet DEF Init
<1>1. TypeOK
  <2>1. stateDropped \in BOOLEAN /\ queueDropped \in BOOLEAN /\ writer \in BOOLEAN
    OBVIOUS
  <2>2. QED
    BY <2>1 DEF TypeOK, Outcome
<1>2. WriterAccounted
  BY DEF WriterAccounted
<1>3. MapFollowsProduce
  BY DEF MapFollowsProduce
<1>4. QueueLetGo
  BY DEF QueueLetGo
<1>5. QED
  BY <1>1, <1>2, <1>3, <1>4 DEF TracksInv

\* Track::produce: the next track, unknown before, gets its name and its place.
LEMMA ProduceNew ==
  ASSUME TracksInv, NEW n \in Name, NEW t \in Track, NEW where \in {"queued", "held"},
         Produce(n, t, where)
  PROVE  /\ t > used /\ place[t] = "none" /\ outcome[t] = "open"
         /\ t \notin ToSet(queue) /\ t \notin drained
         /\ used' = t /\ used' \in 0 .. MaxTracks
         /\ name' \in [Track -> Name \cup {NoTrack}] /\ name'[t] = n
         /\ place' \in [Track -> {"none", "queued", "held", "drained", "done"}]
         /\ place'[t] = where
         /\ \A s \in Track \ {t} : name'[s] = name[s] /\ place'[s] = place[s]
         /\ \A s \in Track : s <= t /\ s # t => s <= used
<1> USE Numbers DEF TracksInv, TypeOK, WriterAccounted, MapFollowsProduce, Produce
<1>1. t > used /\ used' = t /\ used' \in 0 .. MaxTracks /\ used \in Nat
  OBVIOUS
<1>2. place[t] = "none"
  BY <1>1
<1>3. outcome[t] = "open" /\ t \notin ToSet(queue) /\ t \notin drained
  BY <1>2
<1>4. name' \in [Track -> Name \cup {NoTrack}] /\ name'[t] = n
  OBVIOUS
<1>5. place' \in [Track -> {"none", "queued", "held", "drained", "done"}] /\ place'[t] = where
  OBVIOUS
<1>6. \A s \in Track \ {t} : name'[s] = name[s] /\ place'[s] = place[s]
  OBVIOUS
<1>7. \A s \in Track : s <= t /\ s # t => s <= used
  BY <1>1
<1>8. QED
  BY <1>1, <1>2, <1>3, <1>4, <1>5, <1>6, <1>7

\* Steps of the TracksWriter.
LEMMA WriterInv ==
  ASSUME TracksInv, (\E n \in Name : CreateTrack(n) \/ RemoveTrack(n)) \/ DropWriter
  PROVE  TracksInv'
<1> USE Numbers DEF TracksInv, readerVars, trackVars, historyVars
<1>1. ASSUME NEW n \in Name, CreateTrack(n) PROVE TracksInv'
  <2>1. PICK t \in Track : Produce(n, t, "held") /\ tracks' = [tracks EXCEPT ![n] = t]
    BY <1>1 DEF CreateTrack
  <2> USE <1>1, <2>1 DEF CreateTrack
  <2>2. /\ t > used /\ place[t] = "none" /\ outcome[t] = "open"
        /\ t \notin ToSet(queue) /\ t \notin drained
        /\ used' = t /\ used' \in 0 .. MaxTracks
        /\ name' \in [Track -> Name \cup {NoTrack}] /\ name'[t] = n
        /\ place' \in [Track -> {"none", "queued", "held", "drained", "done"}]
        /\ place'[t] = "held"
        /\ \A s \in Track \ {t} : name'[s] = name[s] /\ place'[s] = place[s]
        /\ \A s \in Track : s <= t /\ s # t => s <= used
    BY ProduceNew
  <2>3. outcome' = outcome
    BY DEF Produce
  <2>4. TypeOK'
    BY <2>2, <2>3 DEF TypeOK
  <2>5. WriterAccounted'
    BY <2>2, <2>3 DEF WriterAccounted, TypeOK
  <2>6. MapFollowsProduce'
    BY <2>2 DEF MapFollowsProduce, TypeOK
  <2>7. QueueLetGo'
    BY DEF QueueLetGo
  <2>8. QED
    BY <2>4, <2>5, <2>6, <2>7
<1>2. ASSUME NEW n \in Name, RemoveTrack(n) PROVE TracksInv'
  <2> USE <1>2 DEF RemoveTrack
  <2>1. TypeOK'
    BY DEF TypeOK
  <2>2. WriterAccounted'
    BY DEF WriterAccounted
  <2>3. MapFollowsProduce'
    BY DEF MapFollowsProduce, TypeOK
  <2>4. QueueLetGo'
    BY DEF QueueLetGo
  <2>5. QED
    BY <2>1, <2>2, <2>3, <2>4
<1>3. CASE DropWriter
  <2> USE <1>3 DEF DropWriter
  <2>1. stateDropped' \in BOOLEAN /\ writer' \in BOOLEAN
    OBVIOUS
  <2>2. TypeOK'
    BY <2>1 DEF TypeOK
  <2>3. WriterAccounted' /\ QueueLetGo'
    BY DEF WriterAccounted, QueueLetGo
  <2>4. MapFollowsProduce'
    BY DEF MapFollowsProduce
  <2>5. QED
    BY <2>2, <2>3, <2>4
<1>4. QED
  BY <1>1, <1>2, <1>3

\* Steps of a reader that leave the queue and the tracks alone.
LEMMA ReaderOnlyInv ==
  ASSUME TracksInv, NEW r \in Reader,
         (\E n \in Name : SubscribeCached(r, n) \/ SubscribeRefused(r, n)) \/ Answered(r)
  PROVE  TracksInv'
<1> USE DEF TracksInv, trackVars, historyVars, Wait
<1>1. TypeOK'
  BY Numbers DEF TypeOK, SubscribeCached, SubscribeRefused, Answered
<1>2. /\ UNCHANGED <<tracks, queue, queueDropped, request, drained, readers, used, name>>
      /\ UNCHANGED <<place, outcome, late, touched>>
  BY DEF SubscribeCached, SubscribeRefused, Answered
<1>3. WriterAccounted' /\ QueueLetGo'
  BY <1>2 DEF WriterAccounted, QueueLetGo
<1>4. MapFollowsProduce'
  BY <1>2 DEF MapFollowsProduce
<1>5. QED
  BY <1>1, <1>3, <1>4

\* A subscribe to a new name queues one new track and remembers it.
LEMMA SubscribeNewInv ==
  ASSUME TracksInv, NEW r \in Reader, NEW n \in Name, SubscribeNew(r, n)
  PROVE  TracksInv'
<1> USE Numbers DEF TracksInv
<1>1. PICK t \in Track :
        /\ Produce(n, t, "queued")
        /\ queue' = Append(queue, t)
        /\ tracks' = [tracks EXCEPT ![n] = t]
        /\ Wait(r, t)
        /\ late' = IF request = "drained" THEN late \cup {t} ELSE late
  BY DEF SubscribeNew
<1>2. /\ tracks[n] = NoTrack /\ ~queueDropped
      /\ UNCHANGED <<stateDropped, queueDropped, writer, request, drained, touched, outcome>>
  BY <1>1 DEF SubscribeNew, Produce
<1>3. /\ t > used /\ place[t] = "none" /\ outcome[t] = "open"
      /\ t \notin ToSet(queue) /\ t \notin drained
      /\ used' = t /\ used' \in 0 .. MaxTracks
      /\ name' \in [Track -> Name \cup {NoTrack}] /\ name'[t] = n
      /\ place' \in [Track -> {"none", "queued", "held", "drained", "done"}]
      /\ place'[t] = "queued"
      /\ \A s \in Track \ {t} : name'[s] = name[s] /\ place'[s] = place[s]
      /\ \A s \in Track : s <= t /\ s # t => s <= used
  BY <1>1, ProduceNew
<1>4. /\ queue' \in Seq(Track) /\ ToSet(queue') = ToSet(queue) \cup {t}
      /\ IsInjective(queue')
  BY <1>1, <1>3, AppendSet DEF TypeOK, WriterAccounted
<1>5. TypeOK'
  BY <1>1, <1>2, <1>3, <1>4 DEF TypeOK, Wait
<1>6. WriterAccounted'
  BY <1>2, <1>3, <1>4 DEF WriterAccounted, TypeOK
<1>7. MapFollowsProduce'
  <2>1. \A s \in Track : s <= used /\ name[s] = n => n \in touched
    BY <1>2 DEF MapFollowsProduce
  <2>2. QED
    BY <1>1, <1>2, <1>3, <2>1 DEF MapFollowsProduce, TypeOK
<1>8. QueueLetGo'
  BY <1>1, <1>2, <1>4 DEF QueueLetGo, Wait
<1>9. QED
  BY <1>5, <1>6, <1>7, <1>8

\* A queue that nobody holds any more takes its TrackWriters with it.
LEMMA FreeQueueAccounted ==
  ASSUME TracksInv, NEW freed \in BOOLEAN, FreeQueue(freed)
  PROVE  /\ queue' \in Seq(Track) /\ IsInjective(queue') /\ ToSet(queue') \subseteq ToSet(queue)
         /\ place' \in [Track -> {"none", "queued", "held", "drained", "done"}]
         /\ outcome' \in [Track -> Outcome \cup {"open"}]
         /\ \A t \in Track : /\ place'[t] = "queued"  <=> t \in ToSet(queue')
                             /\ place'[t] = "drained" <=> place[t] = "drained"
                             /\ place'[t] = "none"    <=> place[t] = "none"
                             /\ place'[t] = "done"    <=> outcome'[t] # "open"
<1> USE DEF TracksInv, TypeOK, WriterAccounted, FreeQueue, Outcome
<1>1. CASE freed
  BY <1>1, EmptySet
<1>2. CASE ~freed
  BY <1>2
<1>3. QED
  BY <1>1, <1>2

\* A reader goes away, with the last one the reading halves of map and queue.
LEMMA DropReaderInv ==
  ASSUME TracksInv, NEW r \in Reader, DropReader(r)
  PROVE  TracksInv'
<1> USE DEF TracksInv, historyVars
<1>1. FreeQueue(readers' = {} /\ request \in {"released", "gone"})
  BY DEF DropReader
<1>2. /\ queue' \in Seq(Track) /\ IsInjective(queue') /\ ToSet(queue') \subseteq ToSet(queue)
      /\ place' \in [Track -> {"none", "queued", "held", "drained", "done"}]
      /\ outcome' \in [Track -> Outcome \cup {"open"}]
      /\ \A t \in Track : /\ place'[t] = "queued"  <=> t \in ToSet(queue')
                          /\ place'[t] = "drained" <=> place[t] = "drained"
                          /\ place'[t] = "none"    <=> place[t] = "none"
                          /\ place'[t] = "done"    <=> outcome'[t] # "open"
  BY <1>1, FreeQueueAccounted
<1>3. stateDropped' \in BOOLEAN /\ queueDropped' \in BOOLEAN
  BY DEF DropReader
<1>4. TypeOK'
  BY <1>2, <1>3 DEF TypeOK, DropReader
<1>5. WriterAccounted'
  BY <1>2 DEF WriterAccounted, DropReader
<1>6. MapFollowsProduce'
  BY <1>2 DEF MapFollowsProduce, DropReader
<1>7. QueueLetGo'
  BY <1>2 DEF QueueLetGo, DropReader
<1>8. QED
  BY <1>4, <1>5, <1>6, <1>7

\* Steps of the handler of requests and of the holders of TrackWriters.
LEMMA HandlerInv ==
  ASSUME TracksInv, NEW t \in Track, NEW how \in Outcome,
         NextTrack \/ NextNone \/ Finish(t, how)
  PROVE  TracksInv'
<1> USE DEF TracksInv, readerVars, trackVars, historyVars
<1>1. CASE NextTrack
  <2> USE <1>1 DEF NextTrack
  <2>1. /\ queue' \in Seq(Track) /\ Head(queue) \in ToSet(queue) /\ Head(queue) \in Track
        /\ IsInjective(queue') /\ ToSet(queue') = ToSet(queue) \ {Head(queue)}
    BY TailSet DEF TypeOK, WriterAccounted
  <2>2. TypeOK'
    BY <2>1 DEF TypeOK
  <2>3. WriterAccounted'
    BY <2>1 DEF WriterAccounted, TypeOK
  <2>4. MapFollowsProduce'
    <3>1. \A s \in Track : place'[s] = "none" <=> place[s] = "none"
      BY <2>1 DEF TypeOK, WriterAccounted
    <3>2. QED
      BY <3>1 DEF MapFollowsProduce
  <2>5. QueueLetGo'
    BY <2>1 DEF QueueLetGo
  <2>6. QED
    BY <2>2, <2>3, <2>4, <2>5
<1>2. CASE NextNone
  <2> USE <1>2 DEF NextNone
  <2>1. TypeOK'
    BY DEF TypeOK
  <2>2. WriterAccounted' /\ QueueLetGo'
    BY DEF WriterAccounted, QueueLetGo
  <2>3. MapFollowsProduce'
    BY DEF MapFollowsProduce
  <2>4. QED
    BY <2>1, <2>2, <2>3
<1>3. CASE Finish(t, how)
  <2> USE <1>3 DEF Finish
  <2>1. TypeOK'
    BY DEF TypeOK
  <2>2. WriterAccounted'
    BY DEF WriterAccounted, TypeOK, Outcome
  <2>3. MapFollowsProduce'
    <3>1. \A s \in Track : place'[s] = "none" <=> place[s] = "none"
      BY DEF TypeOK
    <3>2. QED
      BY <3>1 DEF MapFollowsProduce
  <2>4. QueueLetGo'
    BY DEF QueueLetGo
  <2>5. QED
    BY <2>1, <2>2, <2>3, <2>4
<1>4. QED
  BY <1>1, <1>2, <1>3

\* The three steps of dropping the TracksRequest.
LEMMA DropRequestInv ==
  ASSUME TracksInv, Drain \/ ReleaseQueue \/ CloseDrained
  PROVE  TracksInv'
<1> USE DEF TracksInv, readerVars, historyVars
<1>1. CASE Drain /\ ~queueDropped
  <2> USE <1>1, EmptySet DEF Drain
  <2>0. drained = {}
    BY DEF QueueLetGo
  <2>1. TypeOK'
    BY DEF TypeOK, ToSet
  <2>2. WriterAccounted'
    BY <2>0 DEF WriterAccounted, TypeOK
  <2>3. MapFollowsProduce'
    <3>1. \A s \in Track : place'[s] = "none" <=> place[s] = "none"
      BY DEF TypeOK, WriterAccounted
    <3>2. QED
      BY <3>1 DEF MapFollowsProduce
  <2>4. QueueLetGo'
    BY DEF QueueLetGo
  <2>5. QED
    BY <2>1, <2>2, <2>3, <2>4
<1>2. CASE Drain /\ queueDropped
  <2> USE <1>2 DEF Drain
  <2>1. TypeOK'
    BY DEF TypeOK
  <2>2. WriterAccounted' /\ QueueLetGo'
    BY DEF WriterAccounted, QueueLetGo
  <2>3. MapFollowsProduce'
    BY DEF MapFollowsProduce
  <2>4. QED
    BY <2>1, <2>2, <2>3
<1>3. CASE ReleaseQueue
  <2> USE <1>3 DEF ReleaseQueue
  <2>1. /\ queue' \in Seq(Track) /\ IsInjective(queue') /\ ToSet(queue') \subseteq ToSet(queue)
        /\ place' \in [Track -> {"none", "queued", "held", "drained", "done"}]
        /\ outcome' \in [Track -> Outcome \cup {"open"}]
        /\ \A t \in Track : /\ place'[t] = "queued"  <=> t \in ToSet(queue')
                            /\ place'[t] = "drained" <=> place[t] = "drained"
                            /\ place'[t] = "none"    <=> place[t] = "none"
                            /\ place'[t] = "done"    <=> outcome'[t] # "open"
    BY FreeQueueAccounted
  <2>2. TypeOK'
    BY <2>1 DEF TypeOK
  <2>3. WriterAccounted'
    BY <2>1 DEF WriterAccounted
  <2>4. MapFollowsProduce'
    BY <2>1 DEF MapFollowsProduce
  <2>5. QueueLetGo'
    BY <2>1 DEF QueueLetGo
  <2>6. QED
    BY <2>2, <2>3, <2>4, <2>5
<1>4. CASE CloseDrained
  <2> USE <1>4 DEF CloseDrained
  <2>1. stateDropped' \in BOOLEAN
    OBVIOUS
  <2>2. TypeOK'
    BY <2>1 DEF TypeOK, Outcome
  <2>3. WriterAccounted'
    BY DEF WriterAccounted, TypeOK
  <2>4. MapFollowsProduce'
    <3>1. \A s \in Track : place'[s] = "none" <=> place[s] = "none"
      BY DEF TypeOK, WriterAccounted
    <3>2. QED
      BY <3>1 DEF MapFollowsProduce
  <2>5. QueueLetGo'
    BY DEF QueueLetGo
  <2>6. QED
    BY <2>2, <2>3, <2>4, <2>5
<1>5. QED
  BY <1>1, <1>2, <1>3, <1>4

\* The invariant is kept by every step.
LEMMA NextTracksInv == TracksInv /\ [Next]_vars => TracksInv'
<1> SUFFICES ASSUME TracksInv, [Next]_vars PROVE TracksInv'
  OBVIOUS
<1>1. CASE (\E n \in Name : CreateTrack(n) \/ RemoveTrack(n)) \/ DropWriter
  BY <1>1, WriterInv
<1>2. CASE \E r \in Reader : \/ \E n \in Name : SubscribeCached(r, n) \/ SubscribeRefused(r, n)
                             \/ Answered(r)
  BY <1>2, ReaderOnlyInv
<1>3. CASE \E r \in Reader, n \in Name : SubscribeNew(r, n)
  BY <1>3, SubscribeNewInv
<1>4. CASE \E r \in Reader : DropReader(r)
  BY <1>4, DropReaderInv
<1>5. CASE NextTrack \/ NextNone \/ \E t \in Track, how \in Outcome : Finish(t, how)
  <2>1. 1 \in Track /\ "mode" \in Outcome
    BY TracksAssumption DEF Track, Outcome
  <2>2. QED
    BY <1>5, <2>1, HandlerInv
<1>6. CASE Drain \/ ReleaseQueue \/ CloseDrained
  BY <1>6, DropRequestInv
<1>7. CASE UNCHANGED vars
  <2> USE <1>7 DEF vars, TracksInv
  <2>1. TypeOK'
    BY DEF TypeOK
  <2>2. WriterAccounted' /\ QueueLetGo'
    BY DEF WriterAccounted, QueueLetGo
  <2>3. MapFollowsProduce'
    BY DEF MapFollowsProduce
  <2>4. QED
    BY <2>1, <2>2, <2>3
<1>8. QED
  BY <1>1, <1>2, <1>3, <1>4, <1>5, <1>6, <1>7 DEF Next

(***************************************************************************)
(* Types, and the account of every TrackWriter of a broadcast: in the      *)
(* queue once, with a holder, in the drained batch, or done with.          *)
(***************************************************************************)
THEOREM TracksInvariant == Spec => []TracksInv
BY InitTracksInv, NextTracksInv, PTL DEF Spec

(***************************************************************************)
(* TracksReader::subscribe deduplicates: of a name the TracksWriter left   *)
(* alone at most one track is ever produced, whatever the readers' order.  *)
(***************************************************************************)
THEOREM SubscribesShareOneTrack == Spec => []RequestedOnce
<1>1. TracksInv => RequestedOnce
  BY DEF TracksInv, MapFollowsProduce, RequestedOnce
<1>2. QED
  BY <1>1, TracksInvariant, PTL

(***************************************************************************)
(* TracksRequest::drop: what stays in the queue once its handle is gone    *)
(* was queued between Queue::close's drain and its drop of the handle.     *)
(***************************************************************************)
THEOREM OnlyTheGapStrands == Spec => []OnlyLateStranded
<1>1. TracksInv => OnlyLateStranded
  BY DEF TracksInv, QueueLetGo, OnlyLateStranded
<1>2. QED
  BY <1>1, TracksInvariant, PTL
=============================================================================
