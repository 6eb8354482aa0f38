---------------------------- MODULE RelayProofs -----------------------------
(***************************************************************************)
(* Proofs about the relay cluster, for any relays, announces, expiry,      *)
(* subscriptions and origins: what Origins says of the table of local      *)
(* namespaces and of the refreshed entry, and what Remotes says of the     *)
(* tables of Remotes and of their tracks.                                  *)
(***************************************************************************)
EXTENDS Origins, Remotes, TLAPS

-----------------------------------------------------------------------------
(* Origins *)

OriginsTypeOK ==
  /\ stage \in [Announce -> {"none", "setting", "registering", "serving", "ended"}]
  /\ refresh \in [Announce -> {"none", "idle", "get", "set", "deleting", "gone"}]
  /\ locals \in [Relay -> Announce \cup {None}]
  /\ entry \in Relay \cup {None}

\* An entry that is there was seen in this period, and so was the one a Refresh found or stored.
SeenInPeriod ==
  /\ entry # None => seen = TRUE
  /\ (\E a \in Announce : refresh[a] = "idle") => seen = TRUE

OriginsInv == OriginsTypeOK /\ RegisteredIsServed /\ SeenInPeriod

\* No announce, no entry, no Refresh.
LEMMA InitOriginsInv == OriginsInit => OriginsInv
BY OriginsAssumption
DEF OriginsInit, OriginsInv, OriginsTypeOK, RegisteredIsServed, SeenInPeriod

\* A step of a request moves its Refresh and keeps who is served and registered.
LEMMA RequestInv ==
  ASSUME OriginsInv, NEW a \in Announce, Request(a) \/ SetOrigin(a)
  PROVE  OriginsInv'
<1> USE OriginsAssumption DEF OriginsInv
<1>1. CASE SetOrigin(a)
  BY <1>1 DEF SetOrigin, OriginsTypeOK, RegisteredIsServed, SeenInPeriod
<1>2. CASE GetEntry(a)
  <2>1. CASE entry = None
    BY <1>2, <2>1 DEF GetEntry, OriginsTypeOK, RegisteredIsServed, SeenInPeriod
  <2>2. CASE entry # None /\ entry = Home[a]
    BY <1>2, <2>2 DEF GetEntry, UpdateOk, OriginsTypeOK, RegisteredIsServed, SeenInPeriod
  <2>3. CASE entry # None /\ entry # Home[a]
    BY <1>2, <2>3 DEF GetEntry, UpdateFailed, OriginsTypeOK, RegisteredIsServed, SeenInPeriod
  <2>4. QED
    BY <2>1, <2>2, <2>3
<1>3. CASE SetEntry(a)
  BY <1>3 DEF SetEntry, StoreEntry, UpdateOk, UpdateFailed, OriginsTypeOK, RegisteredIsServed,
              SeenInPeriod
<1>4. CASE UpdateLost(a)
  BY <1>4 DEF UpdateLost, StoreEntry, UpdateFailed, OriginsTypeOK, RegisteredIsServed,
              SeenInPeriod
<1>5. CASE DeleteEntry(a) \/ DeleteLost(a)
  BY <1>5 DEF DeleteEntry, DeleteLost, OriginsTypeOK, RegisteredIsServed, SeenInPeriod
<1>6. QED
  BY <1>1, <1>2, <1>3, <1>4, <1>5 DEF Request

\* Registering, ending and crashing move a relay's entry together with its announce.
LEMMA LocalsInv ==
  ASSUME OriginsInv,
         \/ \E a \in Announce : Register(a) \/ AnnounceClosed(a)
         \/ \E r \in Relay : Crash(r)
  PROVE  OriginsInv'
<1> USE OriginsAssumption DEF OriginsInv
<1>1. ASSUME NEW a \in Announce, Register(a) PROVE OriginsInv'
  BY <1>1 DEF Register, OriginsTypeOK, RegisteredIsServed, SeenInPeriod
<1>2. ASSUME NEW a \in Announce, AnnounceClosed(a) PROVE OriginsInv'
  BY <1>2 DEF AnnounceClosed, OriginsTypeOK, RegisteredIsServed, SeenInPeriod
<1>3. ASSUME NEW r \in Relay, Crash(r) PROVE OriginsInv'
  BY <1>3 DEF Crash, OriginsTypeOK, RegisteredIsServed, SeenInPeriod
<1>4. QED
  BY <1>1, <1>2, <1>3

\* The invariant is kept by every step.
LEMMA NextOriginsInv == OriginsInv /\ [OriginsNext]_originsVars => OriginsInv'
<1> SUFFICES ASSUME OriginsInv, [OriginsNext]_originsVars PROVE OriginsInv'
  OBVIOUS
<1> USE OriginsAssumption
<1>1. CASE \E a \in Announce : Request(a) \/ SetOrigin(a)
  BY <1>1, RequestInv
<1>2. CASE \/ \E a \in Announce : Register(a) \/ AnnounceClosed(a)
           \/ \E r \in Relay : Crash(r)
  BY <1>2, LocalsInv
<1>3. CASE Expire
  BY <1>3 DEF Expire, OriginsInv, OriginsTypeOK, RegisteredIsServed, SeenInPeriod
<1>4. CASE Tick
  BY <1>4 DEF Tick, OriginsInv, OriginsTypeOK, RegisteredIsServed, SeenInPeriod
<1>5. CASE UNCHANGED originsVars
  BY <1>5 DEF originsVars, OriginsInv, OriginsTypeOK, RegisteredIsServed, SeenInPeriod
<1>6. QED
  BY <1>1, <1>2, <1>3, <1>4, <1>5 DEF OriginsNext

(***************************************************************************)
(* Locals names an announce exactly while Consumer::serve serves it, for   *)
(* any relays and announces: no drop of a Registration hits another one.   *)
(***************************************************************************)
THEOREM LocalsFollowServe == OriginsSpec => []RegisteredIsServed
<1>1. OriginsInv => RegisteredIsServed
  BY DEF OriginsInv
<1>2. QED
  BY <1>1, InitOriginsInv, NextOriginsInv, PTL DEF OriginsSpec

(***************************************************************************)
(* While a Refresh goes on, moq-api has the namespace at some time of each *)
(* period, whatever expires, is deleted by others, is lost or crashes.     *)
(***************************************************************************)
THEOREM RefreshRepairs == OriginsSpec => []RepairedEachPeriod
<1>1. OriginsInv => RepairedEachPeriod
  BY DEF OriginsInv, SeenInPeriod, RepairedEachPeriod
<1>2. QED
  BY <1>1, InitOriginsInv, NextOriginsInv, PTL DEF OriginsSpec

-----------------------------------------------------------------------------
(* Remotes *)

\* What Producer::serve holds at each of its stages.
ServeOK ==
  /\ pc \in [Sub -> {"none", "asking", "routed", "have", "waiting", "local", "served",
                     "fallback", "upstream", "failed", "left"}]
  /\ url \in [Sub -> Url \cup {0}]
  /\ remote \in [Sub -> RemoteId \cup {0}]
  /\ track \in [Sub -> TrackId \cup {0}]
  /\ \A s \in Sub : /\ pc[s] = "routed" => url[s] \in Url
                    /\ pc[s] = "have" => remote[s] \in RemoteId
                    /\ track[s] # 0 => pc[s] \in {"waiting", "served", "failed"}

Known(k) == phase[k] \notin {"none", "reaped"}

\* The table names exactly the Remotes whose task has not been reaped, and the
\* requests name each new one once.
RemotesOK ==
  /\ lookup \in [Url -> RemoteId \cup {0}]
  /\ phase \in [RemoteId -> {"none", "requested", "connecting", "running", "returned", "reaped"}]
  /\ peer \in [RemoteId -> Url \cup {0}]
  /\ requested \in Seq(RemoteId)
  /\ \A i \in 1 .. Len(requested) : phase[requested[i]] = "requested"
  /\ \A i, j \in 1 .. Len(requested) : requested[i] = requested[j] => i = j
  /\ \A k \in RemoteId : Known(k) => peer[k] \in Url /\ lookup[peer[k]] = k
  /\ \A u \in Url : lookup[u] # 0 => Known(lookup[u]) /\ peer[lookup[u]] = u

(***************************************************************************)
(* A handle is held by the subscription that has the track; a track in use *)
(* is the one its Remote lists unless it was unlisted; a track without a   *)
(* handle stays without one.                                               *)
(***************************************************************************)
TracksOK ==
  /\ tracks \in [RemoteId -> [Names -> TrackId \cup {0}]]
  /\ writer \in [TrackId -> {"none", "queued", "task", "live", "closed"}]
  /\ parent \in [TrackId -> RemoteId \cup {0}]
  /\ handles \in [TrackId -> SUBSET Sub]
  /\ \A t \in TrackId : writer[t] = "none" => handles[t] = {}
  /\ \A k \in RemoteId, n \in Names :
       tracks[k][n] # 0 => writer[tracks[k][n]] # "none" /\ parent[tracks[k][n]] = k
  /\ \A d \in dropping : d.t \in TrackId /\ d.n \in Names /\ writer[d.t] # "none"
                         /\ handles[d.t] = {}

HandlesOK ==
  /\ \A s \in Sub, t \in TrackId : s \in handles[t] <=> track[s] = t
  /\ \A s \in Sub : track[s] # 0 => parent[track[s]] \in RemoteId
  /\ \A s \in Sub : track[s] # 0 /\ track[s] \notin unlisted =>
                      tracks[parent[track[s]]][Name[s]] = track[s]

RemotesInv == ServeOK /\ RemotesOK /\ TracksOK /\ HandlesOK

\* Remotes and tracks are numbered from 1, and 0 is none of them.
LEMMA RemoteNumbers ==
  /\ 0 \notin RemoteId /\ 0 \notin TrackId /\ 0 \notin Url
  /\ RemoteId \subseteq Nat /\ TrackId \subseteq Nat
BY RemotesAssumption DEF RemoteId, TrackId

\* Nothing has been asked for.
LEMMA InitRemotesInv == RemotesInit => RemotesInv
<1> SUFFICES ASSUME RemotesInit PROVE RemotesInv
  OBVIOUS
<1> USE RemoteNumbers DEF RemotesInit
<1>1. ServeOK
  BY DEF ServeOK
<1>2. RemotesOK
  BY DEF RemotesOK, Known
<1>3. TracksOK
  BY DEF TracksOK
<1>4. HandlesOK
  BY DEF HandlesOK
<1>5. QED
  BY <1>1, <1>2, <1>3, <1>4 DEF RemotesInv

\* What a step leaves alone keeps its part of the invariant.
LEMMA RemotesFrame ==
  ASSUME RemotesInv
  PROVE  /\ UNCHANGED serveVars => ServeOK'
         /\ UNCHANGED remoteVars => RemotesOK'
         /\ UNCHANGED <<tracks, writer, parent, handles, dropping>> => TracksOK'
         /\ UNCHANGED <<track, tracks, parent, handles, unlisted>> => HandlesOK'
<1> USE DEF RemotesInv
<1>1. ASSUME UNCHANGED serveVars PROVE ServeOK'
  BY <1>1 DEF serveVars, ServeOK
<1>2. ASSUME UNCHANGED remoteVars PROVE RemotesOK'
  BY <1>2 DEF remoteVars, RemotesOK, Known
<1>3. ASSUME UNCHANGED <<tracks, writer, parent, handles, dropping>> PROVE TracksOK'
  BY <1>3 DEF TracksOK
<1>4. ASSUME UNCHANGED <<track, tracks, parent, handles, unlisted>> PROVE HandlesOK'
  BY <1>4 DEF HandlesOK
<1>5. QED
  BY <1>1, <1>2, <1>3, <1>4

\* The steps of Producer::serve that touch neither table.
LEMMA ServeInv ==
  ASSUME RemotesInv, NEW s \in Sub, Serve(s) \/ GetOrigin(s) \/ Fallback(s) \/ Answered(s)
  PROVE  RemotesInv'
<1>1. UNCHANGED <<track, remoteVars, trackVars>>
  BY DEF Serve, GetOrigin, Fallback, Answered
<1>2. ServeOK'
  BY RemoteNumbers DEF RemotesInv, ServeOK, Serve, GetOrigin, Fallback, Answered
<1>3. QED
  BY <1>1, <1>2, RemotesFrame DEF RemotesInv, trackVars

\* route: an entry is shared; without one, a new Remote is named by its url.
LEMMA RouteInv ==
  ASSUME RemotesInv, NEW s \in Sub, Route(s)
  PROVE  RemotesInv'
<1> USE RemoteNumbers DEF RemotesInv
<1>1. url[s] \in Url /\ UNCHANGED <<track, trackVars>>
  BY DEF Route, ServeOK
<1>2. CASE lookup[url[s]] # 0
  <2>1. ServeOK'
    BY <1>1, <1>2 DEF Route, ServeOK, RemotesOK
  <2>2. UNCHANGED remoteVars
    BY <1>2 DEF Route
  <2>3. QED
    BY <1>1, <2>1, <2>2, RemotesFrame DEF trackVars
<1>3. CASE lookup[url[s]] = 0
  <2>1. PICK k \in RemoteId :
          /\ phase[k] = "none"
          /\ remote' = [remote EXCEPT ![s] = k]
          /\ phase' = [phase EXCEPT ![k] = "requested"]
          /\ peer' = [peer EXCEPT ![k] = url[s]]
          /\ requested' = Append(requested, k)
          /\ lookup' = [lookup EXCEPT ![url[s]] = k]
    BY <1>3 DEF Route, Fresh
  <2>2. ServeOK'
    BY <1>1, <2>1 DEF Route, ServeOK
  <2>3. /\ requested' \in Seq(RemoteId)
        /\ \A i \in 1 .. Len(requested') : phase'[requested'[i]] = "requested"
        /\ \A i, j \in 1 .. Len(requested') : requested'[i] = requested'[j] => i = j
    <3>1. \A i \in 1 .. Len(requested) : requested[i] # k
      BY <2>1 DEF RemotesOK
    <3>2. QED
      BY <2>1, <3>1 DEF RemotesOK
  <2>4. /\ \A j \in RemoteId : Known(j)' => peer'[j] \in Url /\ lookup'[peer'[j]] = j
        /\ \A u \in Url : lookup'[u] # 0 => Known(lookup[u])' /\ peer'[lookup'[u]] = u
    <3>1. /\ phase'[k] = "requested" /\ peer'[k] = url[s] /\ lookup'[url[s]] = k
          /\ \A j \in RemoteId \ {k} : phase'[j] = phase[j] /\ peer'[j] = peer[j]
          /\ \A u \in Url \ {url[s]} : lookup'[u] = lookup[u]
      BY <1>1, <2>1 DEF RemotesOK
    <3>2. ASSUME NEW j \in RemoteId, Known(j)' PROVE peer'[j] \in Url /\ lookup'[peer'[j]] = j
      BY <1>1, <1>3, <3>1, <3>2 DEF RemotesOK, Known
    <3>3. ASSUME NEW u \in Url, lookup'[u] # 0
          PROVE  Known(lookup[u])' /\ peer'[lookup'[u]] = u
      <4>1. CASE u = url[s]
        BY <3>1, <4>1 DEF Known
      <4>2. CASE u # url[s]
        <5>1. /\ lookup'[u] = lookup[u] /\ lookup[u] \in RemoteId
              /\ phase[lookup[u]] \notin {"none", "reaped"} /\ peer[lookup[u]] = u
          BY <3>1, <3>3, <4>2 DEF RemotesOK, Known
        <5>2. lookup[u] # k
          BY <2>1, <5>1
        <5>3. QED
          BY <3>1, <5>1, <5>2 DEF Known
      <4>3. QED
        BY <4>1, <4>2
    <3>4. QED
      BY <3>2, <3>3
  <2>5. RemotesOK'
    BY <1>1, <2>1, <2>3, <2>4 DEF RemotesOK, Known
  <2>6. QED
    BY <1>1, <2>2, <2>5, RemotesFrame DEF trackVars
<1>4. QED
  BY <1>2, <1>3

\* subscribe, the listed track is in use: the subscription joins its handles.
LEMMA JoinTrackInv ==
  ASSUME RemotesInv, NEW s \in Sub, SubscribeTrack(s), Upgrades(tracks[remote[s]][Name[s]])
  PROVE  RemotesInv'
<1> DEFINE k == remote[s]
           old == tracks[k][Name[s]]
<1> USE RemoteNumbers DEF RemotesInv
<1>1. /\ pc[s] = "have" /\ k \in RemoteId /\ Name[s] \in Names /\ track[s] = 0
      /\ old \in TrackId /\ writer[old] # "none" /\ parent[old] = k /\ handles[old] # {}
  <2>1. pc[s] = "have" /\ k \in RemoteId /\ Name[s] \in Names /\ track[s] = 0
    BY DEF SubscribeTrack, ServeOK, Names
  <2>2. old # 0 /\ handles[old] # {}
    BY DEF Upgrades
  <2>3. old \in TrackId \cup {0}
    <3>1. tracks[k] \in [Names -> TrackId \cup {0}]
      BY <2>1 DEF TracksOK
    <3>2. QED
      BY <2>1, <3>1
  <2>4. writer[old] # "none" /\ parent[old] = k
    BY <2>1, <2>2 DEF TracksOK
  <2>5. QED
    BY <2>1, <2>2, <2>3, <2>4
<1>2. /\ track' = [track EXCEPT ![s] = old]
      /\ handles' = [handles EXCEPT ![old] = @ \cup {s}]
      /\ pc' = [pc EXCEPT ![s] = "waiting"]
      /\ UNCHANGED <<tracks, queue, writer, parent, dropping, unlisted>>
      /\ UNCHANGED <<url, remote, remoteVars>>
  BY DEF SubscribeTrack
<1> HIDE DEF k, old
<1>3. ServeOK'
  BY <1>1, <1>2 DEF ServeOK
<1>4. TracksOK'
  BY <1>1, <1>2 DEF TracksOK
<1>5. HandlesOK'
  <2>1. old = tracks[k][Name[s]]
    BY DEF old
  <2>2. QED
    BY <1>1, <1>2, <2>1 DEF HandlesOK, ServeOK, TracksOK
<1>6. QED
  BY <1>2, <1>3, <1>4, <1>5, RemotesFrame

\* subscribe, a new track: it takes the entry of one that nobody holds.
LEMMA NewTrackInv ==
  ASSUME RemotesInv, NEW s \in Sub, SubscribeTrack(s),
         ~Upgrades(tracks[remote[s]][Name[s]]), Produced(remote[s])
  PROVE  RemotesInv'
<1> DEFINE k == remote[s]
           old == tracks[k][Name[s]]
<1> USE RemoteNumbers DEF RemotesInv
<1>1. /\ pc[s] = "have" /\ k \in RemoteId /\ Name[s] \in Names /\ track[s] = 0
      /\ old # 0 => handles[old] = {}
  BY DEF SubscribeTrack, ServeOK, Names, Upgrades
<1>2. PICK t \in TrackId :
        /\ writer[t] = "none"
        /\ track' = [track EXCEPT ![s] = t]
        /\ handles' = [handles EXCEPT ![t] = {s}]
        /\ writer' = [writer EXCEPT ![t] = "queued"]
        /\ parent' = [parent EXCEPT ![t] = k]
        /\ tracks' = [tracks EXCEPT ![k][Name[s]] = t]
        /\ pc' = [pc EXCEPT ![s] = "waiting"]
        /\ UNCHANGED <<dropping, unlisted>>
  BY DEF SubscribeTrack
<1>3. UNCHANGED <<url, remote, remoteVars>>
  BY DEF SubscribeTrack
<1>4. old = tracks[k][Name[s]]
  OBVIOUS
<1> HIDE DEF k, old
<1>5. ServeOK'
  BY <1>1, <1>2, <1>3 DEF ServeOK
<1>6. /\ handles[t] = {} /\ \A r \in Sub : track[r] # t
      /\ \A j \in RemoteId, n \in Names : tracks[j][n] # t
      /\ \A d \in dropping : d.t # t
  BY <1>2 DEF TracksOK, HandlesOK
<1>7. TracksOK'
  <2>1. tracks' \in [RemoteId -> [Names -> TrackId \cup {0}]]
    BY <1>1, <1>2 DEF TracksOK
  <2>2. /\ writer' \in [TrackId -> {"none", "queued", "task", "live", "closed"}]
        /\ parent' \in [TrackId -> RemoteId \cup {0}]
        /\ handles' \in [TrackId -> SUBSET Sub]
        /\ \A x \in TrackId : writer'[x] = "none" => handles'[x] = {}
    BY <1>1, <1>2 DEF TracksOK
  <2>3. ASSUME NEW j \in RemoteId, NEW n \in Names, tracks'[j][n] # 0
        PROVE  writer'[tracks'[j][n]] # "none" /\ parent'[tracks'[j][n]] = j
    <3>1. CASE j = k /\ n = Name[s]
      BY <1>1, <1>2, <3>1 DEF TracksOK
    <3>2. CASE ~(j = k /\ n = Name[s])
      <4>1. tracks'[j][n] = tracks[j][n]
        BY <1>1, <1>2, <3>2 DEF TracksOK
      <4>2. QED
        BY <1>2, <1>6, <2>3, <4>1 DEF TracksOK
    <3>3. QED
      BY <3>1, <3>2
  <2>4. \A d \in dropping' : d.t \in TrackId /\ d.n \in Names /\ writer'[d.t] # "none"
                             /\ handles'[d.t] = {}
    BY <1>2, <1>6 DEF TracksOK
  <2>5. QED
    BY <2>1, <2>2, <2>3, <2>4 DEF TracksOK
<1>8. HandlesOK'
  <2>1. \A r \in Sub, x \in TrackId : r \in handles'[x] <=> track'[r] = x
    BY <1>1, <1>2, <1>6 DEF HandlesOK, TracksOK, ServeOK
  <2>2. \A r \in Sub : track'[r] # 0 => parent'[track'[r]] \in RemoteId
    BY <1>1, <1>2, <1>6 DEF HandlesOK, TracksOK, ServeOK
  <2>3. ASSUME NEW r \in Sub, track'[r] # 0, track'[r] \notin unlisted'
        PROVE  tracks'[parent'[track'[r]]][Name[r]] = track'[r]
    <3>1. CASE r = s
      <4>1. track'[r] = t /\ parent'[t] = k
        BY <1>2, <3>1 DEF TracksOK, ServeOK
      <4>2. tracks'[k][Name[r]] = t
        BY <1>1, <1>2, <3>1 DEF TracksOK
      <4>3. QED
        BY <4>1, <4>2
    <3>2. CASE r # s
      <4>0. track'[r] = track[r] /\ track[r] \in TrackId /\ track[r] # t
        BY <1>2, <1>6, <2>3, <3>2 DEF ServeOK
      <4>1. /\ track'[r] = track[r] /\ track[r] \in TrackId /\ track[r] # t
            /\ parent'[track[r]] = parent[track[r]] /\ parent[track[r]] \in RemoteId
            /\ tracks[parent[track[r]]][Name[r]] = track[r] /\ r \in handles[track[r]]
            /\ Name[r] \in Names
        <5>1. parent'[track[r]] = parent[track[r]]
          BY <1>2, <4>0 DEF TracksOK
        <5>2. Name[r] \in Names
          BY DEF Names
        <5>3. /\ parent[track[r]] \in RemoteId /\ r \in handles[track[r]]
              /\ tracks[parent[track[r]]][Name[r]] = track[r]
          BY <1>2, <2>3, <4>0 DEF HandlesOK
        <5>4. QED
          BY <4>0, <5>1, <5>2, <5>3
      <4>2. ~(parent[track[r]] = k /\ Name[r] = Name[s])
        BY <1>1, <1>4, <4>1
      <4>3. tracks'[parent[track[r]]][Name[r]] = tracks[parent[track[r]]][Name[r]]
        BY <1>1, <1>2, <4>1, <4>2 DEF TracksOK
      <4>4. QED
        BY <4>1, <4>3
    <3>3. QED
      BY <3>1, <3>2
  <2>4. QED
    BY <2>1, <2>2, <2>3 DEF HandlesOK
<1>9. QED
  BY <1>3, <1>5, <1>7, <1>8, RemotesFrame

\* subscribe, whichever of its outcomes.
LEMMA SubscribeTrackInv ==
  ASSUME RemotesInv, NEW s \in Sub, SubscribeTrack(s)
  PROVE  RemotesInv'
<1>1. CASE Upgrades(tracks[remote[s]][Name[s]])
  BY <1>1, JoinTrackInv
<1>2. CASE ~Upgrades(tracks[remote[s]][Name[s]]) /\ Produced(remote[s])
  BY <1>2, NewTrackInv
<1>3. CASE ~Upgrades(tracks[remote[s]][Name[s]]) /\ ~Produced(remote[s])
  <2>1. /\ pc[s] = "have" /\ pc' = [pc EXCEPT ![s] = "fallback"]
        /\ UNCHANGED <<track, trackVars>> /\ UNCHANGED <<url, remote, remoteVars>>
    BY <1>3 DEF SubscribeTrack
  <2>2. ServeOK'
    BY <2>1 DEF RemotesInv, ServeOK
  <2>3. QED
    BY <2>1, <2>2, RemotesFrame DEF RemotesInv, trackVars
<1>4. QED
  BY <1>1, <1>2, <1>3

\* The handle is dropped: the last one leaves a track that nobody can upgrade again.
LEMMA LeaveInv ==
  ASSUME RemotesInv, NEW s \in Sub, Leave(s)
  PROVE  RemotesInv'
<1> DEFINE t == track[s]
<1> USE RemoteNumbers DEF RemotesInv
<1>1. /\ t \in TrackId /\ s \in handles[t] /\ writer[t] # "none" /\ Name[s] \in Names
      /\ pc[s] \in {"waiting", "served", "failed"}
  <2>1. /\ t \in TrackId /\ Name[s] \in Names /\ pc[s] \in {"waiting", "served", "failed"}
    BY DEF Leave, ServeOK, Names
  <2>2. s \in handles[t]
    BY <2>1 DEF HandlesOK
  <2>3. writer[t] # "none"
    BY <2>1, <2>2 DEF TracksOK
  <2>4. QED
    BY <2>1, <2>2, <2>3
<1>2. /\ handles' = [handles EXCEPT ![t] = @ \ {s}]
      /\ dropping' = IF handles[t] = {s} THEN dropping \cup {[t |-> t, n |-> Name[s]]}
                     ELSE dropping
      /\ track' = [track EXCEPT ![s] = 0]
      /\ pc' = [pc EXCEPT ![s] = "left"]
      /\ UNCHANGED <<url, remote, remoteVars, tracks, queue, writer, parent, unlisted>>
  BY DEF Leave
<1> HIDE DEF t
<1>3. ServeOK'
  BY <1>2 DEF ServeOK
<1>4. TracksOK'
  <2>1. /\ handles' \in [TrackId -> SUBSET Sub]
        /\ \A x \in TrackId : handles'[x] \subseteq handles[x]
    BY <1>1, <1>2 DEF TracksOK
  <2>2. \A d \in dropping' : d.t \in TrackId /\ d.n \in Names /\ writer'[d.t] # "none"
                             /\ handles'[d.t] = {}
    <3>1. ASSUME NEW d \in dropping
          PROVE  d.t \in TrackId /\ d.n \in Names /\ writer'[d.t] # "none" /\ handles'[d.t] = {}
      BY <1>2, <2>1 DEF TracksOK
    <3>2. handles[t] = {s} => handles'[t] = {}
      BY <1>1, <1>2 DEF TracksOK
    <3>3. QED
      BY <1>1, <1>2, <3>1, <3>2
  <2>3. QED
    BY <1>2, <2>1, <2>2 DEF TracksOK
<1>5. HandlesOK'
  <2>1. track[s] = t
    BY DEF t
  <2>2. QED
    BY <1>1, <1>2, <2>1 DEF HandlesOK, ServeOK, TracksOK
<1>6. QED
  BY <1>2, <1>3, <1>4, <1>5, RemotesFrame

\* The drop of a track frees the entry of its name, and whose it was is unlisted.
LEMMA DropTrackInv ==
  ASSUME RemotesInv, DropTrack
  PROVE  RemotesInv'
<1> USE RemoteNumbers DEF RemotesInv
<1>1. PICK d \in dropping :
        /\ dropping' = dropping \ {d}
        /\ IF Produced(parent[d.t])
           THEN /\ tracks' = [tracks EXCEPT ![parent[d.t]][d.n] = 0]
                /\ unlisted' = unlisted \cup ({tracks[parent[d.t]][d.n]} \ {0, d.t})
           ELSE UNCHANGED <<tracks, unlisted>>
        /\ UNCHANGED <<serveVars, remoteVars, queue, writer, parent, handles>>
  BY DEF DropTrack
<1>2. d.t \in TrackId /\ d.n \in Names /\ handles[d.t] = {}
  BY DEF TracksOK
<1>3. /\ tracks' \in [RemoteId -> [Names -> TrackId \cup {0}]]
      /\ \A k \in RemoteId, n \in Names : tracks'[k][n] \in {0, tracks[k][n]}
  BY <1>1, <1>2 DEF TracksOK
<1>4. TracksOK'
  BY <1>1, <1>3 DEF TracksOK
<1>5. HandlesOK'
  <2>1. /\ \A s \in Sub, t \in TrackId : s \in handles'[t] <=> track'[s] = t
        /\ \A s \in Sub : track'[s] # 0 => parent'[track'[s]] \in RemoteId
    BY <1>1 DEF HandlesOK, serveVars
  <2>2. ASSUME NEW s \in Sub, track'[s] # 0, track'[s] \notin unlisted'
        PROVE  tracks'[parent'[track'[s]]][Name[s]] = track'[s]
    <3>1. /\ track' = track /\ parent' = parent /\ track[s] \in TrackId /\ s \in handles[track[s]]
          /\ parent[track[s]] \in RemoteId /\ Name[s] \in Names
      BY <1>1, <2>2 DEF serveVars, ServeOK, HandlesOK, Names
    <3>2. track[s] # d.t /\ track[s] \notin unlisted
      BY <1>1, <1>2, <2>2, <3>1
    <3>3. tracks[parent[track[s]]][Name[s]] = track[s]
      BY <3>1, <3>2, <2>2 DEF HandlesOK
    <3>4. CASE Produced(parent[d.t])
      <4>1. ~(parent[track[s]] = parent[d.t] /\ Name[s] = d.n)
        BY <1>1, <2>2, <3>1, <3>2, <3>3, <3>4
      <4>2. tracks'[parent[track[s]]][Name[s]] = tracks[parent[track[s]]][Name[s]]
        <5>1. tracks' = [tracks EXCEPT ![parent[d.t]][d.n] = 0]
          BY <1>1, <3>4
        <5>2. CASE parent[track[s]] # parent[d.t]
          BY <3>1, <5>1, <5>2 DEF TracksOK
        <5>3. CASE parent[track[s]] = parent[d.t]
          <6>1. /\ tracks'[parent[d.t]] = [tracks[parent[d.t]] EXCEPT ![d.n] = 0]
                /\ tracks[parent[d.t]] \in [Names -> TrackId \cup {0}]
            BY <3>1, <5>1, <5>3 DEF TracksOK
          <6>2. QED
            BY <3>1, <4>1, <5>3, <6>1
        <5>4. QED
          BY <5>2, <5>3
      <4>3. QED
        BY <3>1, <3>3, <4>2
    <3>5. CASE ~Produced(parent[d.t])
      BY <1>1, <3>1, <3>3, <3>5
    <3>6. QED
      BY <3>4, <3>5
  <2>3. QED
    BY <2>1, <2>2 DEF HandlesOK
<1>6. QED
  BY <1>1, <1>4, <1>5, RemotesFrame

\* The steps of RemotesProducer::run and of the tasks of a Remote.
LEMMA ProducerInv ==
  ASSUME RemotesInv, NEW k \in RemoteId, RemoteStep(k) \/ SessionEnded(k) \/ LinkFails(k) \/ NextRemote
  PROVE  RemotesInv'
<1> USE RemoteNumbers DEF RemotesInv
<1>1. CASE NextRemote
  <2>1. /\ requested # <<>> /\ phase' = [phase EXCEPT ![Head(requested)] = "connecting"]
        /\ requested' = Tail(requested)
        /\ UNCHANGED <<serveVars, lookup, peer, trackVars>>
    BY <1>1 DEF NextRemote
  <2>2. Head(requested) \in RemoteId /\ phase[Head(requested)] = "requested"
    BY <2>1 DEF RemotesOK
  <2>3. /\ requested' \in Seq(RemoteId) /\ Len(requested') = Len(requested) - 1
        /\ \A i \in 1 .. Len(requested') : i + 1 \in 1 .. Len(requested)
                                           /\ requested'[i] = requested[i + 1]
        /\ 1 \in 1 .. Len(requested) /\ Head(requested) = requested[1]
    BY <2>1 DEF RemotesOK
  <2>4. /\ \A i, j \in 1 .. Len(requested') : requested'[i] = requested'[j] => i = j
        /\ \A i \in 1 .. Len(requested') : requested'[i] # Head(requested)
    <3>1. ASSUME NEW i \in 1 .. Len(requested'), NEW j \in 1 .. Len(requested'),
                 requested'[i] = requested'[j]
          PROVE  i = j
      <4>1. i + 1 = j + 1
        BY <2>3, <3>1 DEF RemotesOK
      <4>2. QED
        BY <4>1, <2>3
    <3>2. ASSUME NEW i \in 1 .. Len(requested'), requested'[i] = Head(requested) PROVE FALSE
      <4>1. i + 1 = 1
        BY <2>3, <3>2 DEF RemotesOK
      <4>2. QED
        BY <4>1, <2>3
    <3>3. QED
      BY <3>1, <3>2
  <2>5. \A i \in 1 .. Len(requested') : phase'[requested'[i]] = "requested"
    BY <2>1, <2>3, <2>4 DEF RemotesOK
  <2>6. RemotesOK'
    BY <2>1, <2>2, <2>3, <2>4, <2>5 DEF RemotesOK, Known
  <2>7. QED
    BY <2>1, <2>6, RemotesFrame DEF serveVars, trackVars
<1>2. CASE Connected(k)
  <2>1. RemotesOK'
    BY <1>2 DEF Connected, RemotesOK, Known
  <2>2. QED
    BY <1>2, <2>1, RemotesFrame DEF Connected, serveVars, trackVars
<1>3. CASE ConnectFailed(k) \/ SessionEnded(k)
  <2>1. /\ phase[k] \in {"connecting", "running"}
        /\ phase' = [phase EXCEPT ![k] = "returned"]
        /\ UNCHANGED <<serveVars, lookup, requested, peer, trackVars>>
    BY <1>3 DEF ConnectFailed, SessionEnded, Returns
  <2>2. RemotesOK'
    BY <2>1 DEF RemotesOK, Known
  <2>3. QED
    BY <2>1, <2>2, RemotesFrame DEF serveVars, trackVars
<1>4. CASE NextTrack(k)
  <2>1. TracksOK'
    <3>1. /\ writer' \in [TrackId -> {"none", "queued", "task", "live", "closed"}]
          /\ \A t \in TrackId : writer'[t] = "none" => writer[t] = "none"
      BY <1>4 DEF NextTrack, TracksOK
    <3>2. UNCHANGED <<tracks, parent, handles, dropping>>
      BY <1>4 DEF NextTrack
    <3>3. ASSUME NEW j \in RemoteId, NEW n \in Names, tracks[j][n] # 0
          PROVE  writer'[tracks[j][n]] # "none" /\ parent[tracks[j][n]] = j
      <4>1. tracks[j] \in [Names -> TrackId \cup {0}]
        BY DEF TracksOK
      <4>2. tracks[j][n] \in TrackId
        BY <3>3, <4>1
      <4>3. QED
        BY <3>1, <3>3, <4>2 DEF TracksOK
    <3>4. /\ \A d \in dropping : writer'[d.t] # "none"
          /\ \A t \in TrackId : writer'[t] = "none" => handles[t] = {}
      BY <3>1 DEF TracksOK
    <3>5. QED
      BY <3>1, <3>2, <3>3, <3>4 DEF TracksOK
  <2>2. QED
    BY <1>4, <2>1, RemotesFrame DEF NextTrack, serveVars
<1>5. CASE Reap(k)
  <2>1. /\ phase[k] = "returned" /\ peer[k] \in Url /\ lookup[peer[k]] = k
        /\ phase' = [phase EXCEPT ![k] = "reaped"]
        /\ lookup' = [lookup EXCEPT ![peer[k]] = 0]
        /\ UNCHANGED <<serveVars, requested, peer, trackVars>>
    BY <1>5 DEF Reap, RemotesOK, Known
  <2>2. RemotesOK'
    BY <2>1 DEF RemotesOK, Known
  <2>3. QED
    BY <2>1, <2>2, RemotesFrame DEF serveVars, trackVars
<1>6. CASE TasksEnd(k)
  <2>1. TracksOK'
    <3>1. /\ writer' \in [TrackId -> {"none", "queued", "task", "live", "closed"}]
          /\ \A t \in TrackId : writer'[t] = "none" => writer[t] = "none"
      BY <1>6 DEF TasksEnd, TracksOK, InTable
    <3>2. UNCHANGED <<tracks, parent, handles, dropping>>
      BY <1>6 DEF TasksEnd
    <3>3. ASSUME NEW j \in RemoteId, NEW n \in Names, tracks[j][n] # 0
          PROVE  writer'[tracks[j][n]] # "none" /\ parent[tracks[j][n]] = j
      <4>1. tracks[j] \in [Names -> TrackId \cup {0}]
        BY DEF TracksOK
      <4>2. tracks[j][n] \in TrackId
        BY <3>3, <4>1
      <4>3. QED
        BY <3>1, <3>3, <4>2 DEF TracksOK
    <3>4. /\ \A d \in dropping : writer'[d.t] # "none"
          /\ \A t \in TrackId : writer'[t] = "none" => handles[t] = {}
      BY <3>1 DEF TracksOK
    <3>5. QED
      BY <3>1, <3>2, <3>3, <3>4 DEF TracksOK
  <2>2. QED
    BY <1>6, <2>1, RemotesFrame DEF TasksEnd, serveVars
<1>7. CASE LinkFails(k)
  <2>1. RemotesOK'
    BY <1>7 DEF LinkFails, RemotesOK, Known
  <2>2. QED
    BY <1>7, <2>1, RemotesFrame DEF LinkFails, serveVars, trackVars
<1>8. QED
  BY <1>1, <1>2, <1>3, <1>4, <1>5, <1>6, <1>7 DEF RemoteStep

\* A peer answers a track, or ends it.
LEMMA WriterInv ==
  ASSUME RemotesInv, NEW t \in TrackId, TrackAnswer(t) \/ TrackEnds(t)
  PROVE  RemotesInv'
<1>1. TracksOK'
  BY DEF RemotesInv, TrackAnswer, TrackEnds, TracksOK
<1>2. QED
  BY <1>1, RemotesFrame DEF RemotesInv, TrackAnswer, TrackEnds, serveVars

\* The invariant is kept by every step.
LEMMA NextRemotesInv == RemotesInv /\ [RemotesNext]_remotesVars => RemotesInv'
<1> SUFFICES ASSUME RemotesInv, [RemotesNext]_remotesVars PROVE RemotesInv'
  OBVIOUS
<1>1. ASSUME NEW s \in Sub, Serve(s) \/ ServeStep(s) \/ Leave(s) PROVE RemotesInv'
  BY <1>1, ServeInv, RouteInv, SubscribeTrackInv, LeaveInv DEF ServeStep
<1>2. ASSUME NEW k \in RemoteId, RemoteStep(k) \/ SessionEnded(k) \/ LinkFails(k) PROVE RemotesInv'
  BY <1>2, ProducerInv
<1>3. ASSUME NEW t \in TrackId, TrackAnswer(t) \/ TrackEnds(t) PROVE RemotesInv'
  BY <1>3, WriterInv
<1>4. CASE NextRemote
  <2>1. \E k : k \in RemoteId
    BY <1>4 DEF NextRemote, RemotesInv, RemotesOK
  <2>2. QED
    BY <1>4, <2>1, ProducerInv
<1>5. CASE DropTrack
  BY <1>5, DropTrackInv
<1>6. CASE UNCHANGED remotesVars
  BY <1>6, RemotesFrame DEF RemotesInv, remotesVars, serveVars, remoteVars
<1>7. QED
  BY <1>1, <1>2, <1>3, <1>4, <1>5, <1>6 DEF RemotesNext

(***************************************************************************)
(* route and RemotesProducer::run: for any number of relays and Remotes,   *)
(* the table names the one Remote of a relay from its request until its    *)
(* task is reaped, and the removal by url never takes another one away.    *)
(***************************************************************************)
THEOREM TableNamesTheRemote == RemotesSpec => []OneRemotePerUrl
<1>1. RemotesInv => OneRemotePerUrl
  BY RemoteNumbers DEF RemotesInv, RemotesOK, Known, OneRemotePerUrl
<1>2. QED
  BY <1>1, InitRemotesInv, NextRemotesInv, PTL DEF RemotesSpec

(***************************************************************************)
(* RemoteConsumer::subscribe: two subscriptions hold different tracks of   *)
(* one name at one Remote only if a late RemoteTrackDrop removed an entry  *)
(* that was no longer its own.                                             *)
(***************************************************************************)
THEOREM OnlyLateDropsSplit == RemotesSpec => []SharedUnlessUnlisted
<1>1. RemotesInv => SharedUnlessUnlisted
  BY DEF RemotesInv, HandlesOK, SharedUnlessUnlisted
<1>2. QED
  BY <1>1, InitRemotesInv, NextRemotesInv, PTL DEF RemotesSpec
=============================================================================
