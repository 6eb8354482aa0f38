------------------------------- MODULE Remotes ------------------------------
(***************************************************************************)
(* How a relay serves a subscription whose broadcast it does not have:     *)
(* Producer::serve asks moq-api which relay has the namespace              *)
(* (RemotesConsumer::route), shares or makes the Remote of that relay, and *)
(* shares or requests the track there (RemoteConsumer::subscribe).  The    *)
(* task of RemotesProducer::run connects each Remote and serves its        *)
(* requests (RemoteProducer::run).                                         *)
(*                                                                         *)
(* A Remote and a track are numbered as they are made; a track's name      *)
(* stands for its namespace too.  A track is dropped in two steps: the     *)
(* last RemoteTrackReader goes, and RemoteTrackDrop::drop takes the lock   *)
(* of the Remote.  Between them the weak reference cannot be upgraded.     *)
(*                                                                         *)
(* Subscriber::subscribe moves the TrackWriter into the table of           *)
(* subscribes, which every task of the session shares.  Session::run       *)
(* returns when one of its tasks does and leaves the others to themselves: *)
(* the table, and the writers in it, live until the last of them has       *)
(* failed, for which the connection must be closed.                        *)
(***************************************************************************)
EXTENDS Naturals, Sequences

CONSTANTS
  Sub,          \* subscriptions
  Name,         \* the track each asks for
  Url,          \* relays
  MaxRemote, MaxTrack,  \* bounds: Remotes and tracks made
  HasUpstream   \* the relay forwards announces to an upstream relay

RemoteId == 1..MaxRemote
TrackId == 1..MaxTrack
Names == {Name[s] : s \in Sub}

ASSUME RemotesAssumption ==
  /\ MaxRemote \in Nat /\ MaxTrack \in Nat /\ 0 \notin Url
  /\ HasUpstream \in BOOLEAN

VARIABLES
  pc,        \* Producer::serve: none, asking, routed, have, waiting; local, served,
             \* fallback, upstream, failed, left
  url,       \* the origin that was looked up
  remote, track,  \* what serve holds: 0, none
  lookup,    \* RemotesState.lookup
  requested, \* RemotesState.requested
  phase,     \* each Remote: none, requested, connecting, running, returned, reaped
  peer,      \* its url
  link,      \* its connection: none, up, down
  tracks,    \* RemoteState.tracks: the track of each name, 0: none
  queue,     \* RemoteState.requested
  writer,    \* each TrackWriter: none, queued, task (subscribed), live, closed
  parent,    \* the Remote of each track
  handles,   \* who holds a RemoteTrackReader
  dropping,  \* tracks whose last handle is gone and whose drop has not run
  unlisted   \* tracks whose entry was removed by another track's drop

remotesVars == <<pc, url, remote, track, lookup, requested, phase, peer, link, tracks, queue,
                 writer, parent, handles, dropping, unlisted>>
serveVars == <<pc, url, remote, track>>
remoteVars == <<lookup, requested, phase, peer, link>>
trackVars == <<tracks, queue, writer, parent, handles, dropping, unlisted>>

RemotesInit ==
  /\ pc = [s \in Sub |-> "none"] /\ url = [s \in Sub |-> 0]
  /\ remote = [s \in Sub |-> 0] /\ track = [s \in Sub |-> 0]
  /\ lookup = [u \in Url |-> 0] /\ requested = <<>>
  /\ phase = [k \in RemoteId |-> "none"] /\ peer = [k \in RemoteId |-> 0]
  /\ link = [k \in RemoteId |-> "none"]
  /\ tracks = [k \in RemoteId |-> [n \in Names |-> 0]]
  /\ queue = [k \in RemoteId |-> <<>>]
  /\ writer = [t \in TrackId |-> "none"] /\ parent = [t \in TrackId |-> 0]
  /\ handles = [t \in TrackId |-> {}] /\ dropping = {} /\ unlisted = {}

\* The RemoteProducer has not been dropped.
Produced(k) == phase[k] \in {"requested", "connecting", "running"}

-----------------------------------------------------------------------------
(* Producer::serve *)

\* From the local broadcasts when they have the track, otherwise on to route.
Serve(s) ==
  /\ pc[s] = "none"
  /\ \E next \in {"local", "asking"} : pc' = [pc EXCEPT ![s] = next]
  /\ UNCHANGED <<url, remote, track, remoteVars, trackVars>>

\* route, get_origin: an error, no origin, or one.
GetOrigin(s) ==
  /\ pc[s] = "asking"
  /\ \/ \E next \in {"failed", "fallback"} : pc' = [pc EXCEPT ![s] = next] /\ UNCHANGED url
     \/ \E u \in Url : pc' = [pc EXCEPT ![s] = "routed"] /\ url' = [url EXCEPT ![s] = u]
  /\ UNCHANGED <<remote, track, remoteVars, trackVars>>

Fresh(k) == phase[k] = "none" /\ \A j \in 1..(k - 1) : phase[j] # "none"

\* route, after the await: the Remote in the table, whatever became of it, or a new one.
Route(s) ==
  /\ pc[s] = "routed"
  /\ pc' = [pc EXCEPT ![s] = "have"]
  /\ IF lookup[url[s]] # 0
     THEN remote' = [remote EXCEPT ![s] = lookup[url[s]]] /\ UNCHANGED remoteVars
     ELSE \E k \in RemoteId :
            /\ Fresh(k)
            /\ remote' = [remote EXCEPT ![s] = k]
            /\ phase' = [phase EXCEPT ![k] = "requested"]
            /\ peer' = [peer EXCEPT ![k] = url[s]]
            /\ requested' = Append(requested, k)
            /\ lookup' = [lookup EXCEPT ![url[s]] = k]
            /\ UNCHANGED link
  /\ UNCHANGED <<url, track, trackVars>>

\* Fault: only tracks that were answered are shared.
UpgradesLive(t) == t # 0 /\ handles[t] # {} /\ writer[t] = "live"

\* RemoteTrackWeak::upgrade.
Upgrades(t) == t # 0 /\ handles[t] # {}

\* RemoteConsumer::subscribe: the track in the table if it can be upgraded, a
\* new one if the Remote is still produced, else serve tries the next source.
SubscribeTrack(s) ==
  /\ pc[s] = "have"
  /\ LET k == remote[s]
         old == tracks[k][Name[s]]
     IN CASE Upgrades(old) ->
               /\ track' = [track EXCEPT ![s] = old]
               /\ handles' = [handles EXCEPT ![old] = @ \cup {s}]
               /\ pc' = [pc EXCEPT ![s] = "waiting"]
               /\ UNCHANGED <<tracks, queue, writer, parent, dropping, unlisted>>
          [] ~Upgrades(old) /\ Produced(k) ->
               \E t \in TrackId :
                 /\ writer[t] = "none" /\ \A j \in 1..(t - 1) : writer[j] # "none"
                 /\ track' = [track EXCEPT ![s] = t]
                 /\ handles' = [handles EXCEPT ![t] = {s}]
                 /\ writer' = [writer EXCEPT ![t] = "queued"]
                 /\ parent' = [parent EXCEPT ![t] = k]
                 /\ tracks' = [tracks EXCEPT ![k][Name[s]] = t]
                 /\ queue' = [queue EXCEPT ![k] = Append(@, [t |-> t, n |-> Name[s]])]
                 /\ pc' = [pc EXCEPT ![s] = "waiting"]
                 /\ UNCHANGED <<dropping, unlisted>>
          [] OTHER -> pc' = [pc EXCEPT ![s] = "fallback"] /\ UNCHANGED <<track, trackVars>>
  /\ UNCHANGED <<url, remote, remoteVars>>

\* The upstream relay, if there is one; otherwise NotFound.
Fallback(s) ==
  /\ pc[s] = "fallback"
  /\ pc' = [pc EXCEPT ![s] = IF HasUpstream THEN "upstream" ELSE "failed"]
  /\ UNCHANGED <<url, remote, track, remoteVars, trackVars>>

\* subscribe.serve(track): the mode is known, or the writer is gone.
Answered(s) ==
  /\ pc[s] = "waiting" /\ writer[track[s]] \in {"live", "closed"}
  /\ pc' = [pc EXCEPT ![s] = IF writer[track[s]] = "live" THEN "served" ELSE "failed"]
  /\ UNCHANGED <<url, remote, track, remoteVars, trackVars>>

\* serve returns, or the subscriber went away: the handle is dropped.
Leave(s) ==
  /\ pc[s] \in {"waiting", "served", "failed"} /\ track[s] # 0
  /\ LET t == track[s]
     IN /\ handles' = [handles EXCEPT ![t] = @ \ {s}]
        /\ dropping' = IF handles[t] = {s} THEN dropping \cup {[t |-> t, n |-> Name[s]]}
                       ELSE dropping
  /\ track' = [track EXCEPT ![s] = 0]
  /\ pc' = [pc EXCEPT ![s] = "left"]
  /\ UNCHANGED <<url, remote, remoteVars, tracks, queue, writer, parent, unlisted>>

\* RemoteTrackDrop::drop: by name, whichever track has the entry.
DropTrack ==
  \E d \in dropping :
    LET k == parent[d.t]
    IN /\ dropping' = dropping \ {d}
       /\ IF Produced(k)
          THEN /\ tracks' = [tracks EXCEPT ![k][d.n] = 0]
               /\ unlisted' = unlisted \cup ({tracks[k][d.n]} \ {0, d.t})
          ELSE UNCHANGED <<tracks, unlisted>>
       /\ UNCHANGED <<serveVars, remoteVars, queue, writer, parent, handles>>

-----------------------------------------------------------------------------
(* RemotesProducer::run and RemoteProducer::run *)

\* next: a task for the Remote that was requested, which connects.
NextRemote ==
  /\ requested # <<>>
  /\ phase' = [phase EXCEPT ![Head(requested)] = "connecting"]
  /\ requested' = Tail(requested)
  /\ UNCHANGED <<serveVars, lookup, peer, link, trackVars>>

Connected(k) ==
  /\ phase[k] = "connecting"
  /\ phase' = [phase EXCEPT ![k] = "running"]
  /\ link' = [link EXCEPT ![k] = "up"]
  /\ UNCHANGED <<serveVars, lookup, requested, peer, trackVars>>

\* A requested track gets a task that subscribes at the peer.
NextTrack(k) ==
  /\ phase[k] = "running" /\ queue[k] # <<>>
  /\ writer' = [writer EXCEPT ![Head(queue[k]).t] = "task"]
  /\ queue' = [queue EXCEPT ![k] = Tail(@)]
  /\ UNCHANGED <<serveVars, remoteVars, tracks, parent, handles, dropping, unlisted>>

\* The peer answers; once the Remote has returned, to a task that was left to itself.
TrackAnswer(t) ==
  /\ writer[t] = "task" /\ link[parent[t]] = "up"
  /\ \E next \in {"live", "closed"} : writer' = [writer EXCEPT ![t] = next]
  /\ UNCHANGED <<serveVars, remoteVars, tracks, queue, parent, handles, dropping, unlisted>>

\* The subscription at the peer ends.
TrackEnds(t) ==
  /\ writer[t] = "live" /\ link[parent[t]] = "up"
  /\ writer' = [writer EXCEPT ![t] = "closed"]
  /\ UNCHANGED <<serveVars, remoteVars, tracks, queue, parent, handles, dropping, unlisted>>

\* The connection is lost, or the peer closes it.
LinkFails(k) ==
  /\ link[k] = "up" /\ link' = [link EXCEPT ![k] = "down"]
  /\ UNCHANGED <<serveVars, lookup, requested, phase, peer, trackVars>>

\* run returns.  Dropping its tasks does no more to their writers than to queue
\* an UNSUBSCRIBE for each.
Returns(k) ==
  /\ phase' = [phase EXCEPT ![k] = "returned"]
  /\ UNCHANGED <<serveVars, lookup, requested, peer, link, trackVars>>

ConnectFailed(k) == phase[k] = "connecting" /\ Returns(k)

\* One of the session's tasks returns or panics: the connection is down, or a message
\* could not be decoded or handled.
SessionEnded(k) == phase[k] = "running" /\ Returns(k)

\* Fault: the table of subscribes is leaked.
NoneInTable(k) == {}

\* The writers in the table of subscribes of a Remote's session: not the ones still in
\* the Remote's queue.
InTable(k) == {t \in TrackId : parent[t] = k /\ writer[t] \in {"task", "live"}}

\* The tasks that Session::run left behind have all failed: the table goes with the last.
TasksEnd(k) ==
  /\ phase[k] \in {"returned", "reaped"} /\ link[k] = "down" /\ InTable(k) # {}
  /\ writer' = [t \in TrackId |-> IF t \in InTable(k) THEN "closed" ELSE writer[t]]
  /\ UNCHANGED <<serveVars, remoteVars, tracks, queue, parent, handles, dropping, unlisted>>

\* Fault: forgets every Remote of the url as soon as one is connecting.
ReapEarly(k) ==
  /\ phase[k] \in {"connecting", "returned"}
  /\ phase' = [phase EXCEPT ![k] = IF @ = "returned" THEN "reaped" ELSE @]
  /\ lookup' = [lookup EXCEPT ![peer[k]] = 0]
  /\ UNCHANGED <<serveVars, requested, peer, link, trackVars>>

\* tasks.next: the Remote is forgotten.
Reap(k) ==
  /\ phase[k] = "returned"
  /\ phase' = [phase EXCEPT ![k] = "reaped"]
  /\ lookup' = [lookup EXCEPT ![peer[k]] = 0]
  /\ UNCHANGED <<serveVars, requested, peer, link, trackVars>>

ServeStep(s) ==
  GetOrigin(s) \/ Route(s) \/ SubscribeTrack(s) \/ Fallback(s) \/ Answered(s)

RemoteStep(k) == Connected(k) \/ ConnectFailed(k) \/ NextTrack(k) \/ Reap(k) \/ TasksEnd(k)

RemotesNext ==
  \/ \E s \in Sub : Serve(s) \/ ServeStep(s) \/ Leave(s)
  \/ \E k \in RemoteId : RemoteStep(k) \/ SessionEnded(k) \/ LinkFails(k)
  \/ \E t \in TrackId : TrackAnswer(t) \/ TrackEnds(t)
  \/ NextRemote \/ DropTrack

(***************************************************************************)
(* The runtime polls every task; a connection attempt ends, one way or the *)
(* other, a session whose connection is down ends, and a peer answers the  *)
(* subscriptions of a session that runs.  Nothing is asked of a connection *)
(* that is up, nor of a peer whose answers nobody may read any more.       *)
(***************************************************************************)
RemotesFairness ==
  /\ \A s \in Sub : WF_remotesVars(ServeStep(s))
  /\ \A k \in RemoteId : /\ WF_remotesVars(RemoteStep(k))
                         /\ WF_remotesVars(link[k] = "down" /\ SessionEnded(k))
  /\ \A t \in TrackId :
       WF_remotesVars(writer[t] = "task" /\ phase[parent[t]] = "running" /\ TrackAnswer(t))
  /\ WF_remotesVars(NextRemote) /\ WF_remotesVars(DropTrack)

RemotesSpec == RemotesInit /\ [][RemotesNext]_remotesVars /\ RemotesFairness

-----------------------------------------------------------------------------
(* Properties *)

(***************************************************************************)
(* There is one Remote per relay at a time, and the table names it from    *)
(* the request until its task has ended: the removal by url never takes    *)
(* away a newer one (route, RemotesProducer::run).                         *)
(***************************************************************************)
OneRemotePerUrl ==
  \A k \in RemoteId :
    phase[k] \notin {"none", "reaped"} <=> \E u \in Url : lookup[u] = k /\ peer[k] = u

(***************************************************************************)
(* Subscriptions of the same track at the same Remote share one upstream   *)
(* subscription, except when the drop of an older track, running late,     *)
(* removed the entry of its successor (subscribe, RemoteTrackDrop).        *)
(***************************************************************************)
SharedUnlessUnlisted ==
  \A r, s \in Sub :
    /\ track[r] # 0 /\ track[s] # 0 /\ track[r] # track[s]
    /\ Name[r] = Name[s] /\ parent[track[r]] = parent[track[s]]
    => track[r] \in unlisted \/ track[s] \in unlisted

\* The request was never taken from the queue of a Remote that has returned.
Stranded(s) == writer[track[s]] = "queued" /\ ~Produced(parent[track[s]])

\* The writer is kept by the session of a Remote that has returned, with the connection
\* up: Session::run was left by a task other than the ones that hold the connection.
Kept(s) ==
  LET t == track[s]
  IN /\ writer[t] = "task" /\ link[parent[t]] = "up"
     /\ phase[parent[t]] \in {"returned", "reaped"}

(***************************************************************************)
(* A subscription that was sent to a Remote is answered, although the      *)
(* connection attempt, the session or the connection may fail at any time. *)
(* The two ways to wait for good: its request was still in the queue when  *)
(* the Remote returned, which nobody drains (RemoteProducer::run), or the  *)
(* session ended and left its tasks on a connection that stays up          *)
(* (Session::run).                                                         *)
(***************************************************************************)
AnsweredOrStranded ==
  \A s \in Sub : pc[s] = "waiting" ~> (pc[s] # "waiting" \/ Stranded(s) \/ []Kept(s))

=============================================================================
