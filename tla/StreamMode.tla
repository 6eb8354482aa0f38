------------------------------ MODULE StreamMode ----------------------------
(***************************************************************************)
(* A subscription to a track in stream mode, from the writer of the track  *)
(* (serve::Stream) over serve_track and one QUIC stream to the             *)
(* subscriber's copy of the track (recv_track).                            *)
(*                                                                         *)
(* An object is its place in its group; the chunks of its payload are left *)
(* out: it is open, done, or short (its writer was dropped before all of   *)
(* it was written).  StreamGroupReader::next advances its index and then   *)
(* looks up the object there, which panics at the end of what was written, *)
(* with the lock of the group held.                                        *)
(***************************************************************************)
EXTENDS Naturals, Sequences

CONSTANTS MaxGroup, MaxObject  \* bounds: groups, and objects in each

ASSUME StreamAssumption == MaxGroup \in Nat /\ MaxObject \in Nat

VARIABLES
  objs,      \* the objects of each group, up to the latest
  open,      \* the StreamGroupWriters that were not dropped
  streamLive, \* the StreamWriter: TRUE until it is dropped
  poisoned,  \* groups whose lock a panic has poisoned
  crashed,   \* the writer ran into such a lock, or the process was aborted
  step,      \* serve_track: track, group, object, done, failed
  streamEpoch, at, index, \* its StreamReader and StreamGroupReader
  line,      \* what is on the stream
  recv,      \* recv_track: object, payload, over
  far, farGroup  \* the subscriber's copy: the objects of its groups, the latest of them

streamVars == <<objs, open, streamLive, poisoned, crashed, step, streamEpoch, at, index, line, recv, far, farGroup>>
writeVars == <<objs, open, streamLive, poisoned, crashed>>
serveVars == <<step, streamEpoch, at, index>>
farVars == <<recv, far, farGroup>>

GroupId == 1..MaxGroup
HeaderOf(g, n) == [t |-> "head", g |-> g, n |-> n]
Body(s) == [t |-> s]

StreamInit ==
  /\ objs = <<>> /\ open = {} /\ streamLive = TRUE /\ poisoned = {} /\ crashed = FALSE
  /\ step = "track" /\ streamEpoch = 0 /\ at = 0 /\ index = 0 /\ line = <<>>
  /\ recv = "object" /\ far = [g \in GroupId |-> <<>>] /\ farGroup = 0

-----------------------------------------------------------------------------
(* The writers *)

\* append: the next group; the reader of the one before goes, which takes its lock.
AppendGroup ==
  /\ streamLive /\ ~crashed /\ Len(objs) < MaxGroup
  /\ IF Len(objs) \in poisoned THEN crashed' = TRUE /\ UNCHANGED <<objs, open>>
     ELSE /\ objs' = Append(objs, <<>>) /\ open' = open \cup {Len(objs) + 1}
          /\ UNCHANGED crashed
  /\ UNCHANGED <<streamLive, poisoned, serveVars, line, farVars>>

\* StreamGroupWriter::create.
CreateObject(g) ==
  /\ g \in open /\ ~crashed /\ Len(objs[g]) < MaxObject
  /\ IF g \in poisoned THEN crashed' = TRUE /\ UNCHANGED objs
     ELSE objs' = [objs EXCEPT ![g] = Append(@, "open")] /\ UNCHANGED crashed
  /\ UNCHANGED <<open, streamLive, poisoned, serveVars, line, farVars>>

\* StreamObjectWriter: all of it is written, or it is dropped before.
WriteObject(g) ==
  /\ g \in 1..Len(objs) /\ ~crashed
  /\ \E n \in DOMAIN objs[g], s \in {"done", "short"} :
       objs[g][n] = "open" /\ objs' = [objs EXCEPT ![g][n] = s]
  /\ UNCHANGED <<open, streamLive, poisoned, crashed, serveVars, line, farVars>>

\* StateDrop takes the lock as well.
DropGroup(g) ==
  /\ g \in open /\ ~crashed
  /\ open' = open \ {g}
  /\ crashed' = (g \in poisoned)
  /\ UNCHANGED <<objs, streamLive, poisoned, serveVars, line, farVars>>

DropStream ==
  /\ streamLive /\ ~crashed /\ streamLive' = FALSE
  /\ UNCHANGED <<objs, open, poisoned, crashed, serveVars, line, farVars>>

-----------------------------------------------------------------------------
(* serve_track *)

\* StreamReader::next: the latest group, whatever came before it.
NextGroup ==
  /\ step = "track" /\ streamEpoch < Len(objs)
  /\ streamEpoch' = Len(objs) /\ at' = Len(objs) /\ index' = 0 /\ step' = "group"
  /\ UNCHANGED <<writeVars, line, farVars>>

\* ... or the end of the track, and the stream is finished.
NoMoreGroups ==
  /\ step = "track" /\ streamEpoch = Len(objs) /\ ~streamLive
  /\ step' = "done" /\ line' = Append(line, Body("fin"))
  /\ UNCHANGED <<writeVars, streamEpoch, at, index, farVars>>

\* StreamGroupReader::next: one further than the index.
NextObject ==
  /\ step = "group" /\ index + 1 < Len(objs[at])
  /\ index' = index + 1 /\ step' = "object"
  /\ line' = Append(line, HeaderOf(at, index + 2))
  /\ UNCHANGED <<writeVars, streamEpoch, at, farVars>>

\* ... which panics when that is the end; the stream is dropped.  A group that is not
\* the latest is dropped with its last reader, whose StateDrop panics again: an abort.
Panic ==
  /\ step = "group" /\ index + 1 = Len(objs[at])
  /\ step' = "failed" /\ poisoned' = poisoned \cup {at}
  /\ line' = Append(line, Body("cut"))
  /\ crashed' = (crashed \/ at # Len(objs))
  /\ UNCHANGED <<objs, open, streamLive, streamEpoch, at, index, farVars>>

\* ... or the end of the group.
GroupEnds ==
  /\ step = "group" /\ index = Len(objs[at]) /\ at \notin open
  /\ step' = "track"
  /\ UNCHANGED <<writeVars, streamEpoch, at, index, line, farVars>>

\* The payload, to its end or to the error of an object that was cut short.
SendPayload ==
  /\ step = "object" /\ objs[at][index + 1] # "open"
  /\ IF objs[at][index + 1] = "done"
     THEN step' = "group" /\ line' = Append(line, Body("done"))
     ELSE step' = "failed" /\ line' = Append(line, Body("cut"))
  /\ UNCHANGED <<writeVars, streamEpoch, at, index, farVars>>

-----------------------------------------------------------------------------
(* recv_track *)

\* Fault: a group for every object.
SameGroupNever(g) == FALSE
\* The object's group is the one of the object before.
SameGroup(g) == farGroup = g

\* An object's header: its group, made if it is another one, and the object.
RecvHead ==
  /\ recv = "object" /\ line # <<>> /\ Head(line).t = "head"
  /\ LET m == Head(line)
     IN /\ farGroup' = m.g
        /\ far' = [far EXCEPT ![m.g] =
             Append(IF SameGroup(m.g) THEN @ ELSE <<>>, [n |-> m.n, s |-> "open"])]
  /\ recv' = "payload" /\ line' = Tail(line)
  /\ UNCHANGED <<writeVars, serveVars>>

\* Its payload, or the end of the stream, which leaves it short.
RecvPayload ==
  /\ recv = "payload" /\ line # <<>>
  /\ far' = [far EXCEPT ![farGroup][Len(far[farGroup])].s =
       IF Head(line).t = "done" THEN "done" ELSE "short"]
  /\ recv' = IF Head(line).t = "done" THEN "object" ELSE "over"
  /\ line' = Tail(line)
  /\ UNCHANGED <<writeVars, serveVars, farGroup>>

RecvEnd ==
  /\ recv = "object" /\ line # <<>> /\ Head(line).t \in {"fin", "cut"}
  /\ recv' = "over" /\ line' = Tail(line)
  /\ UNCHANGED <<writeVars, serveVars, far, farGroup>>

StreamNext ==
  \/ AppendGroup \/ DropStream
  \/ \E g \in GroupId : CreateObject(g) \/ WriteObject(g) \/ DropGroup(g)
  \/ NextGroup \/ NoMoreGroups \/ NextObject \/ Panic \/ GroupEnds \/ SendPayload
  \/ RecvHead \/ RecvPayload \/ RecvEnd

StreamSpec == StreamInit /\ [][StreamNext]_streamVars

-----------------------------------------------------------------------------
(* Properties *)

(***************************************************************************)
(* What the subscriber has of a group are the publisher's objects in order *)
(* and without a gap from the second on - StreamGroupReader::next never    *)
(* returns the first - each of them whole only if it was written whole,    *)
(* and all of them whole but for the one it received last (serve_track,    *)
(* recv_track).                                                            *)
(***************************************************************************)
StreamFaithful ==
  \A g \in GroupId : \A i \in DOMAIN far[g] :
    /\ far[g][i].n = i + 1
    /\ far[g][i].s = "done" => objs[g][i + 1] = "done"
    /\ far[g][i].s # "done" => g = farGroup /\ i = Len(far[g])

=============================================================================
