----------------------------- MODULE Subgroups -----------------------------
(***************************************************************************)
(* The data of one subscription, from the publisher's track to the reader  *)
(* of the subscriber's copy: serve/subgroup.rs on both sides, and between  *)
(* them Subscribed::serve_subgroups with a task and a stream per subgroup  *)
(* (session/subscribed.rs), and run_streams with recv_stream, which takes  *)
(* the streams one at a time (session/mod.rs, session/subscriber.rs).      *)
(*                                                                         *)
(* A subgroup is a number: SubgroupsWriter::create compares the group ids  *)
(* and then the subgroup ids, which is the order of the numbers.  Streams  *)
(* are opened by tasks of their own and so arrive in any order; what is in *)
(* one stream arrives in order.  An object counts when all of it is there: *)
(* its chunks follow the same protocol as the objects of a subgroup.       *)
(***************************************************************************)
EXTENDS Naturals, Sequences, FiniteSets

CONSTANTS
  MaxSubgroups,  \* bound on the subgroups of the track
  MaxObjects,    \* bound on the objects of a subgroup
  MaxErrors      \* MAX_CONSECUTIVE_ERRORS of run_streams

ASSUME SubgroupsAssumption ==
  MaxSubgroups \in Nat \ {0} /\ MaxObjects \in Nat \ {0} /\ MaxErrors \in Nat \ {0}

Subgroup == 1 .. MaxSubgroups

VARIABLES
  track,     \* the publisher's SubgroupsWriter: open, or ended (closed or dropped)
  latest,    \* publisher: SubgroupsState.latest, 0 for None
  written,   \* objects written to each subgroup
  writing,   \* the subgroups whose SubgroupWriter exists
  fault,     \* how one was broken off: none, in an object (short) or closed
  server,    \* serve_subgroups: serving or done
  served,    \* SubgroupsReader.epoch, as the latest subgroup it was handed
  task,      \* serve_subgroup: none, spawned, sending or over
  opened,    \* streams in the order they were opened, not accepted yet
  sent,      \* objects sent on each stream
  ending,    \* how a stream ended: open, fin or cut
  session,   \* up, or closed by run_streams
  current,   \* the stream run_streams is serving, 0 for none
  stage,     \* idle, header, reading, or orphan: its reader was dropped at once
  errors,    \* consecutive_errors
  entry,     \* the SubscribeRecv is in Subscriber.subscribes
  copied,    \* objects received of each subgroup
  newest,    \* subscriber: SubgroupsState.latest, 0 for None
  reader,    \* the subscriber's SubgroupsReader exists
  handed,    \* the subgroups it was handed; its epoch is the last of them
  read,      \* objects read of each
  overtaken  \* history: a stream came after one of a later subgroup

vars == <<track, latest, written, writing, fault, server, served, task, opened, sent, ending,
          session, current, stage, errors, entry, copied, newest, reader, handed, read, overtaken>>

trackVars  == <<track, latest, written, writing, fault>>
serverVars == <<server, served, task, opened, sent, ending>>
recvVars   == <<session, current, stage, errors, entry, copied, newest, overtaken>>
readerVars == <<reader, handed, read>>

Init ==
  /\ track = "open" /\ latest = 0
  /\ written = [g \in Subgroup |-> 0] /\ writing = {}
  /\ fault = [g \in Subgroup |-> "none"]
  /\ server = "serving" /\ served = 0
  /\ task = [g \in Subgroup |-> "none"]
  /\ opened = <<>>
  /\ sent = [g \in Subgroup |-> 0]
  /\ ending = [g \in Subgroup |-> "open"]
  /\ session = "up" /\ current = 0 /\ stage = "idle" /\ errors = 0
  /\ entry = TRUE
  /\ copied = [g \in Subgroup |-> 0] /\ newest = 0
  /\ reader = TRUE /\ handed = {}
  /\ read = [g \in Subgroup |-> 0]
  /\ overtaken = FALSE

-----------------------------------------------------------------------------
\* The publisher's track

\* SubgroupsWriter::append: the next group becomes the latest.
AppendSubgroup(g) ==
  /\ track = "open"
  /\ g = latest + 1
  /\ latest' = g
  /\ writing' = writing \cup {g}
  /\ UNCHANGED <<track, written, fault, serverVars, recvVars, readerVars>>

\* A subgroup somebody can still read: it is the latest, or a task has it.
Readable(g) ==
  \/ g = latest
  \/ task[g] \in {"spawned", "sending"}

\* SubgroupWriter::write; refused with Cancel when nobody can read it.
WriteObject(g) ==
  /\ g \in writing
  /\ Readable(g)
  /\ written[g] < MaxObjects
  /\ written' = [written EXCEPT ![g] = @ + 1]
  /\ UNCHANGED <<track, latest, writing, fault, serverVars, recvVars, readerVars>>

\* The SubgroupWriter is dropped: the subgroup is complete.
FinishSubgroup(g) ==
  /\ g \in writing
  /\ writing' = writing \ {g}
  /\ UNCHANGED <<track, latest, written, fault, serverVars, recvVars, readerVars>>

(***************************************************************************)
(* The subgroup is broken off: a SubgroupObjectWriter is dropped before    *)
(* all of its object is written, as in a relay when the stream it copies   *)
(* breaks off, or the SubgroupWriter is closed with an error.              *)
(***************************************************************************)
BreakSubgroup(g) ==
  /\ g \in writing
  /\ writing' = writing \ {g}
  /\ \E f \in {"short", "closed"} : fault' = [fault EXCEPT ![g] = f]
  /\ UNCHANGED <<track, latest, written, serverVars, recvVars, readerVars>>

\* SubgroupsWriter::close, or its drop.
EndTrack ==
  /\ track = "open"
  /\ track' = "ended"
  /\ UNCHANGED <<latest, written, writing, fault, serverVars, recvVars, readerVars>>

-----------------------------------------------------------------------------
\* The publisher's session

\* serve_subgroups: next() returns the latest subgroup, and a task is spawned for it.
NextSubgroup ==
  /\ server = "serving"
  /\ served # latest
  /\ served' = latest
  /\ task' = [task EXCEPT ![latest] = "spawned"]
  /\ UNCHANGED <<trackVars, server, opened, sent, ending, recvVars, readerVars>>

(***************************************************************************)
(* serve_subgroups returns: the track has ended (a closed one after three  *)
(* failing reads) or UNSUBSCRIBE came.  The Subscribed is dropped, and the *)
(* other half of its state with it.                                        *)
(***************************************************************************)
ServeEnds ==
  /\ server = "serving"
  /\ (track = "ended" /\ served = latest) \/ ~entry
  /\ server' = "done"
  /\ UNCHANGED <<trackVars, served, task, opened, sent, ending, recvVars, readerVars>>

\* serve_subgroup: open_uni and the header.
OpenStream(g) ==
  /\ task[g] = "spawned"
  /\ task' = [task EXCEPT ![g] = "sending"]
  /\ opened' = Append(opened, g)
  /\ UNCHANGED <<trackVars, server, served, sent, ending, recvVars, readerVars>>

\* Fault: an object is sent before it is there.
SendObjectAhead(g) ==
  /\ task[g] = "sending"
  /\ server = "serving"
  /\ sent[g] < MaxObjects
  /\ sent' = [sent EXCEPT ![g] = @ + 1]
  /\ UNCHANGED <<trackVars, server, served, task, opened, ending, recvVars, readerVars>>

\* serve_subgroup: the next object; the state still takes its group id.
SendObject(g) ==
  /\ task[g] = "sending"
  /\ server = "serving"
  /\ sent[g] < written[g]
  /\ sent' = [sent EXCEPT ![g] = @ + 1]
  /\ UNCHANGED <<trackVars, server, served, task, opened, ending, recvVars, readerVars>>

\* An object's header is on the stream and its payload is not: the stream breaks off in it.
HeaderOnly(g) == sent[g] < written[g] \/ fault[g] = "short"

(***************************************************************************)
(* serve_subgroup fails and gives up its stream: behind the header of an   *)
(* object, as the Subscribed is gone or the rest of the object is not      *)
(* coming, or behind the last object of a subgroup closed with an error.   *)
(* Both transports end a stream that is dropped as if it were finished, so *)
(* the last of these need not look like a failure at the other end.        *)
(***************************************************************************)
CutStream(g) ==
  /\ task[g] = "sending"
  /\ \/ server = "done" /\ sent[g] < written[g]
     \/ fault[g] # "none" /\ sent[g] = written[g]
  /\ task' = [task EXCEPT ![g] = "over"]
  /\ \E how \in {"fin", "cut"} :
       /\ how = "fin" => ~HeaderOnly(g)
       /\ ending' = [ending EXCEPT ![g] = how]
  /\ UNCHANGED <<trackVars, server, served, opened, sent, recvVars, readerVars>>

\* serve_subgroup: all objects sent and the SubgroupWriter gone, finish().
FinishStream(g) ==
  /\ task[g] = "sending"
  /\ sent[g] = written[g] /\ g \notin writing /\ fault[g] = "none"
  /\ task' = [task EXCEPT ![g] = "over"]
  /\ ending' = [ending EXCEPT ![g] = "fin"]
  /\ UNCHANGED <<trackVars, server, served, opened, sent, recvVars, readerVars>>

-----------------------------------------------------------------------------
\* The subscriber's session

\* run_streams: accept_uni.
AcceptStream ==
  /\ session = "up"
  /\ current = 0 /\ opened # <<>>
  /\ current' = Head(opened)
  /\ opened' = Tail(opened)
  /\ stage' = "header"
  /\ UNCHANGED <<trackVars, server, served, task, sent, ending, session, errors, entry, copied,
                 newest, overtaken, readerVars>>

\* run_streams: the stream was served.
StreamOk ==
  /\ current' = 0 /\ stage' = "idle" /\ errors' = 0
  /\ UNCHANGED <<session, entry>>

\* run_streams and recv_stream: a ServeError ends the subscription too.
StreamFailed(serve) ==
  /\ current' = 0 /\ stage' = "idle" /\ errors' = errors + 1
  /\ session' = IF errors' >= MaxErrors THEN "closed" ELSE session
  /\ entry' = (entry /\ ~serve)

\* Fault: the comparison is the wrong way round.
CreateCopySwapped(g) ==
  /\ stage' = IF newest = 0 \/ g < newest THEN "reading" ELSE "orphan"
  /\ newest' = IF newest = 0 \/ g < newest THEN g ELSE newest
  /\ overtaken' = (overtaken \/ g < newest)

\* Fault: create takes whatever comes as the latest.
CreateCopyAny(g) ==
  /\ stage' = "reading"
  /\ newest' = g
  /\ UNCHANGED overtaken

(***************************************************************************)
(* SubgroupsWriter::create at the subscriber.  A later subgroup becomes    *)
(* the latest; for an earlier one the reader is dropped at once and the    *)
(* writer returned all the same.                                           *)
(***************************************************************************)
CreateCopy(g) ==
  /\ stage' = IF g > newest THEN "reading" ELSE "orphan"
  /\ newest' = IF g > newest THEN g ELSE newest
  /\ overtaken' = (overtaken \/ g < newest)

\* recv_stream_inner: find the subscription, create the subgroup.
RecvHeader ==
  /\ session = "up" /\ stage = "header"
  /\ entry /\ reader /\ current # newest
  /\ CreateCopy(current)
  /\ UNCHANGED <<trackVars, serverVars, session, current, errors, entry, copied, readerVars>>

\* recv_stream_inner: NotFound, Cancel (no reader is left) or Duplicate.
RejectHeader ==
  /\ session = "up" /\ stage = "header"
  /\ ~entry \/ ~reader \/ current = newest
  /\ StreamFailed(TRUE)
  /\ UNCHANGED <<trackVars, serverVars, copied, newest, overtaken, readerVars>>

\* The subgroup's reading half exists: the copy's state holds it as the latest.
CopyReadable == stage = "reading" /\ (entry \/ reader)

\* recv_subgroup: the next object.
RecvObject ==
  /\ session = "up" /\ CopyReadable
  /\ copied[current] < sent[current]
  /\ copied' = [copied EXCEPT ![current] = @ + 1]
  /\ UNCHANGED <<trackVars, serverVars, session, current, stage, errors, entry, newest, overtaken,
                 readerVars>>

\* recv_subgroup: nobody can read the object, Cancel.
RejectObject ==
  /\ session = "up" /\ stage \in {"reading", "orphan"} /\ ~CopyReadable
  /\ copied[current] < sent[current]
  /\ StreamFailed(TRUE)
  /\ UNCHANGED <<trackVars, serverVars, copied, newest, overtaken, readerVars>>

\* Fault: the end of the stream is not noticed.
RecvFinMissed ==
  /\ session = "up" /\ CopyReadable
  /\ ending[current] = "fin" /\ copied[current] < sent[current]
  /\ StreamOk
  /\ UNCHANGED <<trackVars, serverVars, copied, newest, overtaken, readerVars>>

\* recv_subgroup: the stream is done.
RecvFin ==
  /\ session = "up" /\ stage \in {"reading", "orphan"}
  /\ ending[current] = "fin" /\ copied[current] = sent[current]
  /\ StreamOk
  /\ UNCHANGED <<trackVars, serverVars, copied, newest, overtaken, readerVars>>

(***************************************************************************)
(* The stream breaks off, with a reset that may overtake what was sent or  *)
(* with the header of an object and no payload.  That is no ServeError,    *)
(* unless the object of that header was refused first.                     *)
(***************************************************************************)
RecvCut ==
  /\ session = "up" /\ stage # "idle"
  /\ ending[current] = "cut"
  /\ \E serve \in BOOLEAN :
       /\ serve => stage # "header" /\ ~CopyReadable /\ HeaderOnly(current)
       /\ StreamFailed(serve)
  /\ UNCHANGED <<trackVars, serverVars, copied, newest, overtaken, readerVars>>

\* recv_subscribe_done: the control stream is not ordered with the others.
RecvSubscribeDone ==
  /\ session = "up"
  /\ server = "done" /\ entry
  /\ entry' = FALSE
  /\ UNCHANGED <<trackVars, serverVars, session, current, stage, errors, copied, newest, overtaken,
                 readerVars>>

-----------------------------------------------------------------------------
\* The reader of the subscriber's copy

Last == IF handed = {} THEN 0 ELSE CHOOSE g \in handed : \A h \in handed : h <= g

\* SubgroupsReader::next
ReaderNext ==
  /\ reader
  /\ Last # newest
  /\ handed' = handed \cup {newest}
  /\ UNCHANGED <<trackVars, serverVars, recvVars, reader, read>>

\* SubgroupReader::next
ReadObject(g) ==
  /\ reader
  /\ g \in handed
  /\ read[g] < copied[g]
  /\ read' = [read EXCEPT ![g] = @ + 1]
  /\ UNCHANGED <<trackVars, serverVars, recvVars, reader, handed>>

DropReader ==
  /\ reader
  /\ reader' = FALSE
  /\ UNCHANGED <<trackVars, serverVars, recvVars, handed, read>>

-----------------------------------------------------------------------------
Next ==
  \/ \E g \in Subgroup :
       \/ AppendSubgroup(g)
       \/ WriteObject(g)
       \/ FinishSubgroup(g)
       \/ BreakSubgroup(g)
       \/ OpenStream(g)
       \/ SendObject(g)
       \/ CutStream(g)
       \/ FinishStream(g)
       \/ ReadObject(g)
  \/ EndTrack
  \/ NextSubgroup
  \/ ServeEnds
  \/ AcceptStream
  \/ RecvHeader
  \/ RejectHeader
  \/ RecvObject
  \/ RejectObject
  \/ RecvFin
  \/ RecvCut
  \/ RecvSubscribeDone
  \/ ReaderNext
  \/ DropReader

Spec == Init /\ [][Next]_vars

(***************************************************************************)
(* Tasks run, streams of a live session are delivered, the reader reads,   *)
(* and the publisher drops the writer of a subgroup once it has started    *)
(* the next one (moq-pub keeps one).  The latest subgroup need not end,    *)
(* and none need break off.                                                *)
(***************************************************************************)
Fairness ==
  /\ WF_vars(NextSubgroup)
  /\ WF_vars(AcceptStream)
  /\ WF_vars(RecvHeader) /\ WF_vars(RejectHeader)
  /\ WF_vars(RecvObject) /\ WF_vars(RejectObject)
  /\ WF_vars(RecvFin) /\ WF_vars(RecvCut)
  /\ WF_vars(ReaderNext)
  /\ \A g \in Subgroup :
       /\ WF_vars(g < latest /\ FinishSubgroup(g))
       /\ WF_vars(OpenStream(g)) /\ WF_vars(SendObject(g))
       /\ WF_vars(CutStream(g)) /\ WF_vars(FinishStream(g))
       /\ WF_vars(ReadObject(g))

FairSpec == Spec /\ Fairness

-----------------------------------------------------------------------------
TrackTypeOK ==
  /\ track \in {"open", "ended"} /\ latest \in 0 .. MaxSubgroups
  /\ written \in [Subgroup -> 0 .. MaxObjects] /\ writing \subseteq Subgroup
  /\ fault \in [Subgroup -> {"none", "short", "closed"}]

ServerTypeOK ==
  /\ server \in {"serving", "done"} /\ served \in 0 .. MaxSubgroups
  /\ task \in [Subgroup -> {"none", "spawned", "sending", "over"}]
  /\ opened \in Seq(Subgroup)
  /\ sent \in [Subgroup -> 0 .. MaxObjects]
  /\ ending \in [Subgroup -> {"open", "fin", "cut"}]

RecvTypeOK ==
  /\ session \in {"up", "closed"} /\ current \in 0 .. MaxSubgroups
  /\ stage \in {"idle", "header", "reading", "orphan"}
  /\ errors \in 0 .. MaxErrors /\ entry \in BOOLEAN
  /\ copied \in [Subgroup -> 0 .. MaxObjects] /\ newest \in 0 .. MaxSubgroups
  /\ overtaken \in BOOLEAN

ReaderTypeOK ==
  /\ reader \in BOOLEAN /\ handed \subseteq Subgroup
  /\ read \in [Subgroup -> 0 .. MaxObjects]

\* Type correctness.
TypeOK == TrackTypeOK /\ ServerTypeOK /\ RecvTypeOK /\ ReaderTypeOK

(***************************************************************************)
(* At every hop a subgroup holds a prefix of what the hop before holds,    *)
(* whichever streams were cut, refused or overtaken, and no side is ahead  *)
(* of the one it reads from.                                               *)
(***************************************************************************)
PrefixAtEveryHop ==
  /\ served <= latest /\ newest <= served
  /\ \A g \in handed : g <= newest
  /\ \A g \in Subgroup : read[g] <= copied[g] /\ copied[g] <= sent[g] /\ sent[g] <= written[g]

(***************************************************************************)
(* Tasks and streams are of subgroups serve_subgroups was handed, a stream *)
(* is being served whenever run_streams is past accept_uni, and the count  *)
(* of failures never passes its limit in a session that is up.             *)
(***************************************************************************)
StreamsOfServed ==
  /\ \A g \in Subgroup : task[g] # "none" => g <= served
  /\ \A i \in DOMAIN opened : opened[i] <= served
  /\ current <= served
  /\ stage # "idle" => current # 0
  /\ session = "up" => errors < MaxErrors

SubgroupsInv == TypeOK /\ PrefixAtEveryHop /\ StreamsOfServed

(***************************************************************************)
(* Streams that arrive in order never end their subscription while the     *)
(* publisher serves and somebody reads: not even those that break off,     *)
(* which cost the session only when there are MAX_CONSECUTIVE_ERRORS of    *)
(* them.                                                                   *)
(***************************************************************************)
Excused == server = "done" \/ overtaken \/ ~reader

Cut == {g \in Subgroup : ending[g] = "cut"}

TooManyCut == Cardinality(Cut) >= MaxErrors

SurvivesInOrder ==
  /\ ~entry => Excused
  /\ session = "closed" => Excused \/ TooManyCut

(***************************************************************************)
(* The latest subgroup reaches the far reader, with all that was written   *)
(* to it, or a later one does, or the one that is the latest by then is    *)
(* broken off (same proviso).                                              *)
(***************************************************************************)
LatestReaches ==
  \A g \in Subgroup :
    latest = g ~> \/ g \in handed /\ read[g] = written[g]
                  \/ \E h \in handed : h > g
                  \/ latest >= g /\ fault[latest] # "none"
                  \/ Excused \/ TooManyCut

(***************************************************************************)
(* The far reader sees what GroupFeed promises: later and later subgroups, *)
(* of each an unbroken beginning of what the publisher wrote.              *)
(***************************************************************************)
Feed == INSTANCE GroupFeed WITH created <- 1 .. latest

ImplementsFeed == Feed!Spec
=============================================================================
