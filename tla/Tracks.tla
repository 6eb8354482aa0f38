------------------------------- MODULE Tracks -------------------------------
(***************************************************************************)
(* A broadcast: moq-transport/src/serve/tracks.rs, the queue of requests   *)
(* it uses (watch/queue.rs) and the life of one track (serve/track.rs).    *)
(*                                                                         *)
(* Readers ask for a track by name.  A name that is not in the shared map  *)
(* makes a new track, whose TrackWriter is queued for the TracksRequest;   *)
(* the handler of requests pops it and publishes, closes or drops it.  The *)
(* reader meanwhile waits in TrackReader::mode().  TracksWriter, the       *)
(* handler and the readers run in tasks of their own.                      *)
(*                                                                         *)
(* subscribe() holds the map's lock from its first look to its insertion   *)
(* and is one action.  Dropping the TracksRequest is three: Queue::close   *)
(* drains under the queue's lock, releases it, and then drops its handle;  *)
(* the drained tracks are closed last.                                     *)
(***************************************************************************)
EXTENDS Naturals, Sequences, FiniteSets, SequencesExt

CONSTANTS
  Name,       \* track names
  Reader,     \* owners of a TracksReader, each waiting for one track at a time
  MaxTracks,  \* bound on the tracks ever produced
  NoTrack     \* no entry in the map, no track at hand, or no name yet

ASSUME TracksAssumption == MaxTracks \in Nat \ {0}

Track == 1 .. MaxTracks

ASSUME NoTrackAssumption == NoTrack \notin Track

VARIABLES
  tracks,        \* TracksState.tracks: the reader a name maps to
  stateDropped,  \* the map's State has lost one of its halves
  queue,         \* the requests, as a queue of TrackWriters
  queueDropped,  \* the queue's State has lost one of its halves
  writer,        \* the TracksWriter exists
  request,       \* the TracksRequest: alive, finished, drained, released or gone
  drained,       \* what Queue::close took out, held by the dropping task
  readers,       \* the TracksReader handles that exist
  phase,         \* what the owner of a reader handle is doing
  asked,         \* the track it waits for
  used,          \* how many tracks were produced
  name,          \* the name a track was produced under
  place,         \* where the track's TrackWriter is
  outcome,       \* what TrackReader::mode() finds
  late,          \* history: tracks queued after the drain
  touched        \* history: names the TracksWriter created or removed

vars == <<tracks, stateDropped, queue, queueDropped, writer, request, drained, readers, phase,
          asked, used, name, place, outcome, late, touched>>

trackVars  == <<used, name, place, outcome>>
readerVars == <<readers, phase, asked>>
historyVars == <<late, touched>>

\* Tracks::produce: a writer, a request handle and one or more readers.
Init ==
  /\ tracks = [n \in Name |-> NoTrack]
  /\ stateDropped = FALSE
  /\ queue = <<>>
  /\ queueDropped = FALSE
  /\ writer = TRUE
  /\ request = "alive"
  /\ drained = {}
  /\ readers = Reader
  /\ phase = [r \in Reader |-> "idle"]
  /\ asked = [r \in Reader |-> NoTrack]
  /\ used = 0
  /\ name = [t \in Track |-> NoTrack]
  /\ place = [t \in Track |-> "none"]
  /\ outcome = [t \in Track |-> "open"]
  /\ late = {}
  /\ touched = {}

\* Track::produce, the writer end going to a given place.
Produce(n, t, where) ==
  /\ used < MaxTracks
  /\ t = used + 1
  /\ used' = t
  /\ name' = [name EXCEPT ![t] = n]
  /\ place' = [place EXCEPT ![t] = where]
  /\ UNCHANGED outcome

-----------------------------------------------------------------------------
\* TracksWriter

\* create: an existing entry is overwritten.
CreateTrack(n) ==
  /\ writer
  /\ ~stateDropped
  /\ \E t \in Track : Produce(n, t, "held") /\ tracks' = [tracks EXCEPT ![n] = t]
  /\ touched' = touched \cup {n}
  /\ UNCHANGED <<stateDropped, queue, queueDropped, writer, request, drained, readerVars, late>>

\* remove
RemoveTrack(n) ==
  /\ writer
  /\ ~stateDropped
  /\ tracks[n] # NoTrack
  /\ tracks' = [tracks EXCEPT ![n] = NoTrack]
  /\ touched' = touched \cup {n}
  /\ UNCHANGED <<stateDropped, queue, queueDropped, writer, request, drained, readerVars,
                 trackVars, late>>

\* The writer shares its half of the map's State with the TracksRequest.
DropWriter ==
  /\ writer
  /\ writer' = FALSE
  /\ stateDropped' = (stateDropped \/ request = "gone")
  /\ UNCHANGED <<tracks, queue, queueDropped, request, drained, readerVars, trackVars, historyVars>>

-----------------------------------------------------------------------------
\* TracksReader and TrackReader

Wait(r, t) ==
  /\ phase' = [phase EXCEPT ![r] = "waiting"]
  /\ asked' = [asked EXCEPT ![r] = t]
  /\ UNCHANGED readers

\* subscribe, the name is in the map.
SubscribeCached(r, n) ==
  /\ r \in readers /\ phase[r] = "idle"
  /\ tracks[n] # NoTrack
  /\ Wait(r, tracks[n])
  /\ UNCHANGED <<tracks, stateDropped, queue, queueDropped, writer, request, drained, trackVars,
                 historyVars>>

\* Fault: the requested track is queued but not remembered.
SubscribeNewUnshared(r, n) ==
  /\ r \in readers /\ phase[r] = "idle"
  /\ tracks[n] = NoTrack
  /\ ~stateDropped /\ ~queueDropped
  /\ \E t \in Track :
       /\ Produce(n, t, "queued")
       /\ queue' = Append(queue, t)
       /\ Wait(r, t)
       /\ late' = IF request = "drained" THEN late \cup {t} ELSE late
  /\ UNCHANGED <<tracks, stateDropped, queueDropped, writer, request, drained, touched>>

\* subscribe, the name is new: queue the request, remember its reader.
SubscribeNew(r, n) ==
  /\ r \in readers /\ phase[r] = "idle"
  /\ tracks[n] = NoTrack
  /\ ~stateDropped /\ ~queueDropped
  /\ \E t \in Track :
       /\ Produce(n, t, "queued")
       /\ queue' = Append(queue, t)
       /\ tracks' = [tracks EXCEPT ![n] = t]
       /\ Wait(r, t)
       /\ late' = IF request = "drained" THEN late \cup {t} ELSE late
  /\ UNCHANGED <<stateDropped, queueDropped, writer, request, drained, touched>>

\* subscribe, None: into_mut or the push is refused.
SubscribeRefused(r, n) ==
  /\ r \in readers /\ phase[r] = "idle"
  /\ tracks[n] = NoTrack
  /\ stateDropped \/ queueDropped
  /\ phase' = [phase EXCEPT ![r] = "refused"]
  /\ UNCHANGED <<tracks, stateDropped, queue, queueDropped, writer, request, drained, readers,
                 asked, trackVars, historyVars>>

\* The reader has its answer (mode() returned, or subscribe() was None) and goes on.
Answered(r) ==
  /\ \/ phase[r] = "refused"
     \/ phase[r] = "waiting" /\ outcome[asked[r]] # "open"
  /\ phase' = [phase EXCEPT ![r] = "idle"]
  /\ asked' = [asked EXCEPT ![r] = NoTrack]
  /\ UNCHANGED <<tracks, stateDropped, queue, queueDropped, writer, request, drained, readers,
                 trackVars, historyVars>>

\* TrackWriters still in a queue that nobody holds any more are dropped with it.
FreeQueue(freed) ==
  /\ outcome' = [t \in Track |-> IF freed /\ place[t] = "queued" THEN "dropped" ELSE outcome[t]]
  /\ place' = [t \in Track |-> IF freed /\ place[t] = "queued" THEN "done" ELSE place[t]]
  /\ queue' = IF freed THEN <<>> ELSE queue

(***************************************************************************)
(* A TracksReader goes away (its owner may still wait for a track).  With  *)
(* the last one, the reading halves of the map and of the queue go too.    *)
(***************************************************************************)
DropReader(r) ==
  /\ r \in readers
  /\ readers' = readers \ {r}
  /\ stateDropped' = (stateDropped \/ readers' = {})
  /\ queueDropped' = (queueDropped \/ readers' = {})
  /\ FreeQueue(readers' = {} /\ request \in {"released", "gone"})
  /\ UNCHANGED <<tracks, writer, request, drained, phase, asked, used, name, historyVars>>

-----------------------------------------------------------------------------
\* TracksRequest and its handler

\* Fault: the front of the queue is handed out but not removed.
NextTrackPeek ==
  /\ request = "alive"
  /\ queue # <<>>
  /\ ~queueDropped
  /\ place' = [place EXCEPT ![Head(queue)] = "held"]
  /\ UNCHANGED <<tracks, stateDropped, queue, queueDropped, writer, request, drained, readerVars,
                 used, name, outcome, historyVars>>

\* next: Queue::pop finds a request.
NextTrack ==
  /\ request = "alive"
  /\ queue # <<>>
  /\ ~queueDropped
  /\ place' = [place EXCEPT ![Head(queue)] = "held"]
  /\ queue' = Tail(queue)
  /\ UNCHANGED <<tracks, stateDropped, queueDropped, writer, request, drained, readerVars, used,
                 name, outcome, historyVars>>

\* next: None, whether or not requests are queued.
NextNone ==
  /\ request = "alive"
  /\ queueDropped
  /\ request' = "finished"
  /\ UNCHANGED <<tracks, stateDropped, queue, queueDropped, writer, drained, readerVars, trackVars,
                 historyVars>>

\* The holder of a TrackWriter publishes a mode, closes the track or drops it.
Finish(t, how) ==
  /\ place[t] = "held"
  /\ place' = [place EXCEPT ![t] = "done"]
  /\ outcome' = [outcome EXCEPT ![t] = how]
  /\ UNCHANGED <<tracks, stateDropped, queue, queueDropped, writer, request, drained, readerVars,
                 used, name, historyVars>>

\* Fault: the remaining requests are forgotten instead of collected.
DrainForgetful ==
  /\ request \in {"alive", "finished"}
  /\ request' = "drained"
  /\ drained' = {}
  /\ queue' = <<>>
  /\ place' = [t \in Track |-> IF place[t] = "queued" THEN "drained" ELSE place[t]]
  /\ UNCHANGED <<tracks, stateDropped, queueDropped, writer, readerVars, used, name, outcome,
                 historyVars>>

\* Fault: the drop of the request does not drain.
DrainNothing ==
  /\ request \in {"alive", "finished"}
  /\ request' = "drained"
  /\ UNCHANGED <<tracks, stateDropped, queue, queueDropped, writer, drained, readerVars, trackVars,
                 historyVars>>

\* drop, Queue::close: take what is queued, unless the queue is already dropped.
Drain ==
  /\ request \in {"alive", "finished"}
  /\ request' = "drained"
  /\ IF queueDropped
       THEN UNCHANGED <<queue, drained, place>>
       ELSE /\ drained' = ToSet(queue)
            /\ queue' = <<>>
            /\ place' = [t \in Track |-> IF t \in ToSet(queue) THEN "drained" ELSE place[t]]
  /\ UNCHANGED <<tracks, stateDropped, queueDropped, writer, readerVars, used, name, outcome,
                 historyVars>>

\* drop, Queue::close: drop(self.state), the lock having been released before.
ReleaseQueue ==
  /\ request = "drained"
  /\ request' = "released"
  /\ queueDropped' = TRUE
  /\ FreeQueue(readers = {})
  /\ UNCHANGED <<tracks, stateDropped, writer, drained, readerVars, used, name, historyVars>>

\* drop: close the drained tracks with NotFound, then drop the half of the map.
CloseDrained ==
  /\ request = "released"
  /\ request' = "gone"
  /\ outcome' = [t \in Track |-> IF t \in drained THEN "closed" ELSE outcome[t]]
  /\ place' = [t \in Track |-> IF t \in drained THEN "done" ELSE place[t]]
  /\ drained' = {}
  /\ stateDropped' = (stateDropped \/ ~writer)
  /\ UNCHANGED <<tracks, queue, queueDropped, writer, readerVars, used, name, historyVars>>

-----------------------------------------------------------------------------
Outcome == {"mode", "closed", "dropped"}

Next ==
  \/ \E n \in Name :
       \/ CreateTrack(n)
       \/ RemoveTrack(n)
       \/ \E r \in Reader : \/ SubscribeCached(r, n)
                            \/ SubscribeNew(r, n)
                            \/ SubscribeRefused(r, n)
  \/ \E r \in Reader : Answered(r) \/ DropReader(r)
  \/ \E t \in Track, how \in Outcome : Finish(t, how)
  \/ DropWriter
  \/ NextTrack
  \/ NextNone
  \/ Drain
  \/ ReleaseQueue
  \/ CloseDrained

Spec == Init /\ [][Next]_vars

(***************************************************************************)
(* The handler keeps calling next() (relay: the loop of Consumer::serve),  *)
(* whoever holds a TrackWriter publishes or releases it in the end, a drop *)
(* that began runs to its end, and a woken reader is polled.  Dropping the *)
(* request, the writer or a reader is the application's choice.            *)
(***************************************************************************)
Fairness ==
  /\ WF_vars(NextTrack)
  /\ WF_vars(NextNone)
  /\ WF_vars(request = "finished" /\ Drain)
  /\ WF_vars(ReleaseQueue)
  /\ WF_vars(CloseDrained)
  /\ \A t \in Track : WF_vars(\E how \in Outcome : Finish(t, how))
  /\ \A r \in Reader : WF_vars(Answered(r))

FairSpec == Spec /\ Fairness

-----------------------------------------------------------------------------

\* Type correctness.
TypeOK ==
  /\ tracks \in [Name -> Track \cup {NoTrack}]
  /\ stateDropped \in BOOLEAN /\ queueDropped \in BOOLEAN /\ writer \in BOOLEAN
  /\ queue \in Seq(Track)
  /\ request \in {"alive", "finished", "drained", "released", "gone"}
  /\ drained \subseteq Track
  /\ readers \subseteq Reader
  /\ phase \in [Reader -> {"idle", "waiting", "refused"}]
  /\ asked \in [Reader -> Track \cup {NoTrack}]
  /\ used \in 0 .. MaxTracks
  /\ name \in [Track -> Name \cup {NoTrack}]
  /\ place \in [Track -> {"none", "queued", "held", "drained", "done"}]
  /\ outcome \in [Track -> Outcome \cup {"open"}]
  /\ late \subseteq Track /\ touched \subseteq Name

(***************************************************************************)
(* Every TrackWriter whose track is undecided is in exactly one place: the *)
(* queue, the hands of a holder, or the drained batch; a decided track has *)
(* no writer left anywhere.                                                *)
(***************************************************************************)
WriterAccounted ==
  /\ IsInjective(queue)
  /\ \A t \in Track :
       /\ place[t] = "queued"  <=> t \in ToSet(queue)
       /\ place[t] = "drained" <=> t \in drained
       /\ place[t] = "done"    <=> outcome[t] # "open"

(***************************************************************************)
(* A track is the produced one of its name: nothing is known of a track    *)
(* before it is produced, an entry of the map leads to a track of that     *)
(* name, and a name the TracksWriter left alone keeps its entry.           *)
(***************************************************************************)
MapFollowsProduce ==
  /\ \A t \in Track : t > used => place[t] = "none"
  /\ \A t \in Track : t <= used => name[t] \in Name
  /\ \A n \in Name : tracks[n] # NoTrack => tracks[n] <= used /\ name[tracks[n]] = n
  /\ \A t \in Track : t <= used /\ name[t] \notin touched => tracks[name[t]] = t

(***************************************************************************)
(* Who may have marked the queue dropped, and what the drain left in it:   *)
(* while a reader exists only Queue::close does so, after it drained; what *)
(* it took out is held until the drop has closed it.                       *)
(***************************************************************************)
QueueLetGo ==
  /\ drained # {} => request \in {"drained", "released"}
  /\ request \in {"released", "gone"} => queueDropped
  /\ queueDropped => readers = {} \/ request \in {"released", "gone"}
  /\ request \in {"drained", "released", "gone"} /\ readers # {} => ToSet(queue) \subseteq late

TracksInv == TypeOK /\ WriterAccounted /\ MapFollowsProduce /\ QueueLetGo

(***************************************************************************)
(* While its name is left alone by the TracksWriter, a track is produced   *)
(* at most once for all readers: concurrent subscribes are deduplicated.   *)
(***************************************************************************)
RequestedOnce ==
  \A s, t \in Track :
    s <= used /\ t <= used /\ name[s] = name[t] /\ name[s] \notin touched => s = t

(***************************************************************************)
(* Once the TracksRequest has let go of the queue, the only requests left  *)
(* in it are those that were queued between the drain and the drop.        *)
(***************************************************************************)
OnlyLateStranded ==
  request \in {"released", "gone"} /\ readers # {} => ToSet(queue) \subseteq late

(***************************************************************************)
(* Who waits for a track is answered in the end, unless the track was      *)
(* queued between the drain and the drop of Queue::close.                  *)
(***************************************************************************)
ReaderAnswered ==
  \A r \in Reader : phase[r] = "waiting" ~> phase[r] # "waiting" \/ asked[r] \in late

(***************************************************************************)
(* What tracks.rs:123 says of the drop, "Close any tracks still in the     *)
(* Queue": when the TracksRequest is gone, no request is left behind.      *)
(***************************************************************************)
NoneLeftQueued == request = "gone" /\ readers # {} => queue = <<>>
=============================================================================
