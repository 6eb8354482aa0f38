---------------------------- MODULE ModesProofs -----------------------------
(***************************************************************************)
(* Proofs about the watch cell, about the other ways to serve a track that *)
(* are built on it - objects, datagrams and one stream - and about the     *)
(* listing of moq-dir.                                                     *)
(*                                                                         *)
(* The cell: for every set of handles, every way to divide them between    *)
(* the halves, every set of values and every bound on the epoch, no wakeup *)
(* is lost and the last value is never hidden.  NoLostWakeup is not        *)
(* inductive: it says nothing of a task that is about to be polled.        *)
(* WatchInv adds what the epoch in a future is worth (it is current only   *)
(* while the value is the one the task saw and the cell is not dropped)    *)
(* and what parking leaves behind (a registered waker and a current        *)
(* epoch).                                                                 *)
(*                                                                         *)
(* The modes and the listing: for any groups, priorities, names and        *)
(* numbers of writes.                                                      *)
(***************************************************************************)
EXTENDS WatchState, Listing, Objects, Datagrams, StreamMode, TLAPS

-----------------------------------------------------------------------------
(* The watch cell *)

\* What notify does to the tasks, whatever else the step writes: types are
\* kept, nobody is left parked, and every future is out of date.
LEMMA NotifyReleases ==
  ASSUME TypeOK, EpochGuardsSnapshot, ParkedIsRegistered, Notify
  PROVE  /\ epoch' \in Nat
         /\ wakers' \subseteq Handle
         /\ phase' \in [Handle -> Phase]
         /\ \A h \in Handle : phase'[h] # "parked"
         /\ \A h \in Handle : Waiting(h)' => seen[h] <= epoch /\ seen[h] # epoch'
         /\ \A h \in Handle : phase'[h] = "ended" <=> phase[h] = "ended"
  BY DEF Notify, TypeOK, Phase, EpochGuardsSnapshot, ParkedIsRegistered, Waiting

\* The invariant holds when the cell is created.
LEMMA InitWatchInv == Init => WatchInv
<1> SUFFICES ASSUME Init
             PROVE  WatchInv
  OBVIOUS
<1>1. TypeOK
  BY DEF Init, TypeOK, Phase
<1>2. \A h \in Handle : phase[h] \in {"running", "gone"}
  BY DEF Init
<1>3. QED
  BY <1>1, <1>2 DEF WatchInv, EpochGuardsSnapshot, ParkedIsRegistered, EndedIsFinal, Waiting

\* Every critical section of the cell preserves the invariant.
LEMMA NextWatchInv == WatchInv /\ [Next]_vars => WatchInv'
<1> SUFFICES ASSUME WatchInv, [Next]_vars
             PROVE  WatchInv'
  OBVIOUS
<1> USE DEF WatchInv
<1>1. ASSUME NEW h \in Handle, Observe(h)
      PROVE  WatchInv'
  BY <1>1 DEF Observe, TypeOK, Phase, EpochGuardsSnapshot, ParkedIsRegistered, EndedIsFinal, Waiting
<1>2. ASSUME NEW h \in Handle, Modified(h)
      PROVE  WatchInv'
  BY <1>2 DEF Modified, TypeOK, Phase, EpochGuardsSnapshot, ParkedIsRegistered, EndedIsFinal, Waiting
<1>3. ASSUME NEW h \in Handle, ModifiedNone(h)
      PROVE  WatchInv'
  BY <1>3 DEF ModifiedNone, TypeOK, Phase, EpochGuardsSnapshot, ParkedIsRegistered, EndedIsFinal,
              Waiting
<1>4. ASSUME NEW h \in Handle, PollReady(h)
      PROVE  WatchInv'
  BY <1>4 DEF PollReady, TypeOK, Phase, EpochGuardsSnapshot, ParkedIsRegistered, EndedIsFinal,
              Waiting
<1>5. ASSUME NEW h \in Handle, PollPending(h)
      PROVE  WatchInv'
  BY <1>5 DEF PollPending, TypeOK, Phase, EpochGuardsSnapshot, ParkedIsRegistered, EndedIsFinal,
              Waiting
<1>6. ASSUME NEW h \in Handle, Cancel(h)
      PROVE  WatchInv'
  BY <1>6 DEF Cancel, TypeOK, Phase, EpochGuardsSnapshot, ParkedIsRegistered, EndedIsFinal, Waiting
<1>7. ASSUME NEW h \in Handle, DropHandle(h)
      PROVE  WatchInv'
  <2>1. TypeOK'
    BY <1>7 DEF DropHandle, TypeOK, Phase, Side, SideOf
  <2>2. QED
    BY <1>7, <2>1 DEF DropHandle, TypeOK, EpochGuardsSnapshot, ParkedIsRegistered, EndedIsFinal,
                      Waiting
<1>8. ASSUME NEW h \in Handle, NEW v \in Value, LockMut(h, v)
      PROVE  WatchInv'
  <2>1. /\ epoch' \in Nat
        /\ wakers' \subseteq Handle
        /\ phase' \in [Handle -> Phase]
        /\ \A g \in Handle : phase'[g] # "parked"
        /\ \A g \in Handle : Waiting(g)' => seen[g] <= epoch /\ seen[g] # epoch'
        /\ \A g \in Handle : phase'[g] = "ended" <=> phase[g] = "ended"
    BY <1>8, NotifyReleases DEF LockMut
  <2>2. /\ TypeOK'
        /\ ParkedIsRegistered'
    BY <1>8, <2>1 DEF LockMut, TypeOK, ParkedIsRegistered
  <2>3. EpochGuardsSnapshot'
    <3>1. epoch' = epoch + 1 /\ seen' = seen
      BY <1>8 DEF LockMut, Notify
    <3>2. QED
      BY <2>1, <3>1 DEF EpochGuardsSnapshot, TypeOK
  <2>4. EndedIsFinal'
    BY <1>8, <2>1 DEF LockMut, EndedIsFinal
  <2>5. QED
    BY <2>2, <2>3, <2>4
<1>9. ASSUME NEW g \in Handle, NEW h \in Handle, Clone(g, h)
      PROVE  WatchInv'
  BY <1>9 DEF Clone, TypeOK, Phase, EpochGuardsSnapshot, ParkedIsRegistered, EndedIsFinal, Waiting
<1>10. ASSUME NEW s \in Side, StateDrop(s)
       PROVE  WatchInv'
  <2>1. /\ epoch' \in Nat
        /\ wakers' \subseteq Handle
        /\ phase' \in [Handle -> Phase]
        /\ \A g \in Handle : phase'[g] # "parked"
        /\ \A g \in Handle : Waiting(g)' => seen[g] <= epoch /\ seen[g] # epoch'
        /\ \A g \in Handle : phase'[g] = "ended" <=> phase[g] = "ended"
    BY <1>10, NotifyReleases DEF StateDrop
  <2>2. /\ TypeOK'
        /\ ParkedIsRegistered'
    BY <1>10, <2>1 DEF StateDrop, TypeOK, ParkedIsRegistered
  <2>3. EpochGuardsSnapshot'
    <3>1. epoch' = epoch + 1 /\ seen' = seen
      BY <1>10 DEF StateDrop, Notify
    <3>2. QED
      BY <2>1, <3>1 DEF EpochGuardsSnapshot, TypeOK
  <2>4. EndedIsFinal'
    BY <1>10, <2>1 DEF StateDrop, EndedIsFinal
  <2>5. QED
    BY <2>2, <2>3, <2>4
<1>11. CASE UNCHANGED vars
  BY <1>11 DEF vars, TypeOK, Phase, EpochGuardsSnapshot, ParkedIsRegistered, EndedIsFinal, Waiting
<1>12. QED
  BY <1>1, <1>2, <1>3, <1>4, <1>5, <1>6, <1>7, <1>8, <1>9, <1>10, <1>11 DEF Next

\* The inductive invariant of the cell, for every value of the constants.
THEOREM WatchInvariant == Spec => []WatchInv
<1>1. QED
  BY InitWatchInv, NextWatchInv, PTL DEF Spec

\* The cell and its tasks keep their types.
THEOREM TypeCorrect == Spec => []TypeOK
<1>1. WatchInv => TypeOK
  BY DEF WatchInv
<1>2. QED
  BY WatchInvariant, <1>1, PTL

\* No task sleeps through a write or a drop: StateChanged::poll compares the
\* epoch and registers the waker under the one lock that notify takes.
THEOREM WakeupSafety == Spec => []NoLostWakeup
<1>1. WatchInv => NoLostWakeup
  BY DEF WatchInv, EpochGuardsSnapshot, ParkedIsRegistered, NoLostWakeup, Waiting, TypeOK
<1>2. QED
  BY WatchInvariant, <1>1, PTL

\* A task that modified() turns away has acted on the last value written.
THEOREM NothingHiddenByDrop == Spec => []EndedSawLast
<1>1. WatchInv => EndedSawLast
  BY DEF WatchInv, EndedIsFinal, EndedSawLast
<1>2. QED
  BY WatchInvariant, <1>1, PTL

\* A dropped cell is read-only: once StateDrop::drop ran, no step writes the
\* value or brings the cell back.
DroppedIsFrozen == [][dropped => dropped' /\ value' = value]_vars

\* lock_mut and into_mut refuse a dropped cell, and nothing else writes it.
THEOREM FrozenOnceDropped == Spec => DroppedIsFrozen
<1>1. [Next]_vars => [dropped => dropped' /\ value' = value]_vars
  BY DEF Next, vars, Observe, Modified, ModifiedNone, PollReady, PollPending, Cancel, DropHandle,
         LockMut, Clone, StateDrop
<1>2. QED
  BY <1>1, PTL DEF Spec, DroppedIsFrozen

-----------------------------------------------------------------------------
(* Sequences *)

\* What Append does to a sequence.
LEMMA AppendFacts ==
  ASSUME NEW S, NEW s \in Seq(S), NEW x \in S
  PROVE  /\ Append(s, x) \in Seq(S) /\ Len(s) \in Nat /\ Len(Append(s, x)) = Len(s) + 1
         /\ DOMAIN s = 1 .. Len(s) /\ DOMAIN Append(s, x) = 1 .. (Len(s) + 1)
         /\ \A i \in 1 .. Len(s) : Append(s, x)[i] = s[i] /\ s[i] \in S
         /\ Append(s, x)[Len(s) + 1] = x
OBVIOUS

\* What Tail does to a sequence.
LEMMA TailFacts ==
  ASSUME NEW S, NEW s \in Seq(S), s # <<>>
  PROVE  /\ Tail(s) \in Seq(S) /\ Len(s) \in Nat \ {0} /\ Len(Tail(s)) = Len(s) - 1
         /\ Head(s) = s[1] /\ Head(s) \in S
         /\ \A i \in 1 .. (Len(s) - 1) : Tail(s)[i] = s[i + 1]
OBVIOUS

\* A sequence is empty when its length is 0.
LEMMA EmptyFacts ==
  ASSUME NEW S, NEW s \in Seq(S)
  PROVE  Len(s) \in Nat /\ (s = <<>> <=> Len(s) = 0)
OBVIOUS

-----------------------------------------------------------------------------
(* Objects *)

Object == [g : Nat, o : Nat, p : Nat]

ObjectsTypeOK ==
  /\ objects \in Seq(Object) /\ taken \in Seq(Object) /\ pending \subseteq Object
  /\ pushed \in Nat /\ seenEpoch \in Nat /\ seenEpoch <= pushed /\ produced \in Nat

\* An object's number is one that was written.
Numbered ==
  /\ \A i \in 1 .. Len(objects) : objects[i].o <= produced
  /\ \A i \in 1 .. Len(taken) : taken[i].o <= produced
  /\ \A o \in pending : o.o <= produced

\* What the reader returned is not to be returned again; what it has seen, it has or returned.
Shared ==
  /\ \A i, j \in 1 .. Len(taken) : taken[i] = taken[j] => i = j
  /\ \A i \in 1 .. Len(taken) : taken[i] \notin pending \cup Unseen
  /\ \A i \in 1 .. Len(objects) :
       i <= FirstUnseen => objects[i] \in pending \/ \E j \in 1 .. Len(taken) : taken[j] = objects[i]

ObjectsInv == ObjectsTypeOK /\ Numbered /\ Shared

\* Nothing was written.
LEMMA InitObjectsInv == ObjectsInit => ObjectsInv
BY DEF ObjectsInit, ObjectsInv, ObjectsTypeOK, Numbered, Shared, Unseen, FirstUnseen

\* create: the new object has a new number, and the reader finds it unseen.
LEMMA PushObjectInv ==
  ASSUME ObjectsInv, NEW g \in ObjectGroup, NEW p \in Priority, PushObject(g, p)
  PROVE  ObjectsInv'
<1> USE DEF ObjectsInv
<1> DEFINE o == [g |-> g, o |-> produced + 1, p |-> p]
<1>1. o \in Object /\ o.o = produced + 1 /\ produced \in Nat /\ produced' = produced + 1
  BY ObjectsAssumption DEF Object, ObjectsTypeOK, PushObject
<1>2. UNCHANGED <<seenEpoch, pending, taken>>
  BY DEF PushObject
<1>3. \/ UNCHANGED <<objects, pushed>>
      \/ objects' = <<o>> /\ pushed' = pushed + 1
      \/ objects' = Append(objects, o) /\ pushed' = pushed + 1
  BY DEF PushObject
<1> HIDE DEF o
<1>4. /\ Len(objects) \in Nat /\ Len(taken) \in Nat
      /\ \A i \in 1 .. Len(objects) : objects[i] \in Object
      /\ \A i \in 1 .. Len(taken) : taken[i] \in Object
      /\ \A x \in Object : x.o \in Nat
  <2>1. \A x \in Object : x.o \in Nat
    BY DEF Object
  <2>2. QED
    BY <2>1 DEF ObjectsTypeOK
<1>5. o \notin pending /\ \A i \in 1 .. Len(taken) : taken[i] # o
  BY <1>1, <1>4 DEF Numbered, ObjectsTypeOK
<1>6. CASE UNCHANGED <<objects, pushed>>
  <2>1. FirstUnseen' = FirstUnseen /\ Unseen' = Unseen
    BY <1>2, <1>6 DEF Unseen, FirstUnseen
  <2>2. ObjectsTypeOK'
    BY <1>1, <1>2, <1>6 DEF ObjectsTypeOK
  <2>3. Numbered'
    BY <1>1, <1>2, <1>4, <1>6 DEF Numbered, ObjectsTypeOK
  <2>4. Shared'
    BY <1>2, <1>6, <2>1 DEF Shared
  <2>5. QED
    BY <2>2, <2>3, <2>4
<1>7. CASE objects' = <<o>> /\ pushed' = pushed + 1
  <2>1. objects' \in Seq(Object) /\ Len(objects') = 1 /\ objects'[1] = o
    BY <1>1, <1>7
  <2>2. ObjectsTypeOK'
    BY <1>1, <1>2, <1>7, <2>1 DEF ObjectsTypeOK
  <2>3. Numbered'
    BY <1>1, <1>2, <1>4, <2>1 DEF Numbered, ObjectsTypeOK
  <2>4. FirstUnseen' = 0
    BY <1>2, <1>7, <2>1 DEF FirstUnseen, ObjectsTypeOK
  <2>5. Unseen' = {o}
    BY <2>1, <2>4 DEF Unseen
  <2>6. Shared'
    BY <1>2, <1>5, <2>1, <2>4, <2>5 DEF Shared
  <2>7. QED
    BY <2>2, <2>3, <2>6
<1>8. CASE objects' = Append(objects, o) /\ pushed' = pushed + 1
  <2>1. /\ objects' \in Seq(Object) /\ Len(objects') = Len(objects) + 1
        /\ \A i \in 1 .. Len(objects) : objects'[i] = objects[i]
        /\ objects'[Len(objects) + 1] = o
    BY <1>1, <1>8, AppendFacts DEF ObjectsTypeOK
  <2>2. ObjectsTypeOK'
    BY <1>1, <1>2, <1>8, <2>1 DEF ObjectsTypeOK
  <2>3. Numbered'
    <3>1. \A i \in 1 .. Len(objects') : objects'[i].o <= produced'
      BY <1>1, <1>4, <2>1, SMTT(30) DEF Numbered
    <3>2. QED
      BY <1>1, <1>2, <1>4, <3>1 DEF Numbered, ObjectsTypeOK
  <2>4. FirstUnseen' = FirstUnseen /\ FirstUnseen \in 0 .. Len(objects)
    <3>1. \A n, m, e \in Nat : e <= m => (n + 1) - ((m + 1) - e) = n - (m - e)
      OBVIOUS
    <3>2. Len(objects) \in Nat /\ pushed \in Nat /\ seenEpoch \in Nat /\ seenEpoch <= pushed /\ seenEpoch' = seenEpoch
      BY <1>2, <1>4 DEF ObjectsTypeOK
    <3>3. QED
      BY <1>8, <2>1, <3>1, <3>2 DEF FirstUnseen
  <2>5. Unseen' = Unseen \cup {o}
    BY <1>4, <2>1, <2>4, SMTT(30) DEF Unseen
  <2>6. Shared'
    <3>1. \A i \in 1 .. Len(taken) : taken[i] \notin pending \cup Unseen'
      BY <1>5, <2>5 DEF Shared
    <3>2. \A i \in 1 .. Len(objects') : i <= FirstUnseen =>
            objects'[i] \in pending \/ \E j \in 1 .. Len(taken) : taken[j] = objects'[i]
      <4>1. \A i \in 1 .. Len(objects') : i <= FirstUnseen => i \in 1 .. Len(objects)
        BY <1>4, <2>1, <2>4 DEF ObjectsTypeOK
      <4>2. QED
        BY <1>4, <2>1, <4>1, Zenon DEF Shared
    <3>3. QED
      BY <1>2, <2>4, <3>1, <3>2 DEF Shared
  <2>7. QED
    BY <2>2, <2>3, <2>6
<1>9. QED
  BY <1>3, <1>6, <1>7, <1>8

\* next: what is new joins the heap, and one object leaves it.
LEMMA PopObjectInv ==
  ASSUME ObjectsInv, PopObject
  PROVE  ObjectsInv'
<1> USE DEF ObjectsInv
<1> DEFINE heap == pending \cup Unseen
<1>1. PICK o \in heap : pending' = heap \ {o} /\ taken' = Append(taken, o)
  BY DEF PopObject
<1>2. UNCHANGED <<objects, pushed, produced>> /\ seenEpoch' = pushed
  BY DEF PopObject
<1>3. /\ Len(objects) \in Nat /\ Len(taken) \in Nat
      /\ \A i \in 1 .. Len(objects) : objects[i] \in Object
      /\ FirstUnseen \in 0 .. Len(objects)
  BY DEF ObjectsTypeOK, FirstUnseen
<1>4. Unseen \subseteq {objects[i] : i \in 1 .. Len(objects)}
      /\ \A i \in 1 .. Len(objects) : i <= FirstUnseen \/ objects[i] \in Unseen
  BY <1>3 DEF Unseen
<1>5. heap \subseteq Object /\ \A x \in heap : x.o <= produced
  BY <1>3, <1>4 DEF ObjectsTypeOK, Numbered
<1>6. /\ taken' \in Seq(Object) /\ Len(taken') = Len(taken) + 1
      /\ \A i \in 1 .. Len(taken) : taken'[i] = taken[i]
      /\ taken'[Len(taken) + 1] = o
  BY <1>1, <1>5, AppendFacts DEF ObjectsTypeOK
<1>7. FirstUnseen' = Len(objects) /\ Unseen' = {}
  BY <1>2, <1>3 DEF FirstUnseen, Unseen, ObjectsTypeOK
<1>8. \A i \in 1 .. Len(taken) : taken[i] \notin heap
  BY DEF Shared
<1> HIDE DEF heap
<1>9. ObjectsTypeOK'
  BY <1>1, <1>2, <1>5, <1>6 DEF ObjectsTypeOK
<1>10. Numbered'
  BY <1>1, <1>2, <1>3, <1>5, <1>6 DEF Numbered
<1>11. /\ \A i, j \in 1 .. Len(taken') : taken'[i] = taken'[j] => i = j
       /\ \A i \in 1 .. Len(taken') : taken'[i] \notin pending' \cup Unseen'
  BY <1>1, <1>3, <1>6, <1>7, <1>8 DEF Shared
<1>12. ASSUME NEW i \in 1 .. Len(objects)
       PROVE  objects[i] \in pending' \/ \E j \in 1 .. Len(taken') : taken'[j] = objects[i]
  <2>1. objects[i] \in heap \/ \E j \in 1 .. Len(taken) : taken[j] = objects[i]
    BY <1>3, <1>4 DEF Shared, heap
  <2>2. CASE objects[i] = o
    BY <1>3, <1>6, <2>2
  <2>3. CASE objects[i] # o
    BY <1>1, <1>3, <1>6, <2>1, <2>3
  <2>4. QED
    BY <2>2, <2>3
<1>13. Shared'
  BY <1>2, <1>11, <1>12 DEF Shared
<1>14. QED
  BY <1>9, <1>10, <1>13

(***************************************************************************)
(* However many groups go by between two reads, ObjectsReader::next        *)
(* returns no object twice and, once it has nothing more, has returned     *)
(* every object of the latest group: the difference of the two epochs      *)
(* finds just the objects that it has not seen.                            *)
(***************************************************************************)
THEOREM ObjectsReadOnce == ObjectsSpec => []ObjectsOnce
<1>1. ObjectsInv /\ [ObjectsNext]_objectsVars => ObjectsInv'
  <2> SUFFICES ASSUME ObjectsInv, [ObjectsNext]_objectsVars PROVE ObjectsInv'
    OBVIOUS
  <2>1. CASE EndObjects \/ UNCHANGED objectsVars
    <3>1. UNCHANGED <<objects, pushed, produced, seenEpoch, pending, taken>>
      BY <2>1 DEF EndObjects, objectsVars
    <3>2. FirstUnseen' = FirstUnseen /\ Unseen' = Unseen
      BY <3>1 DEF Unseen, FirstUnseen
    <3>3. QED
      BY <3>1, <3>2 DEF ObjectsInv, ObjectsTypeOK, Numbered, Shared
  <2>2. QED
    BY <2>1, PushObjectInv, PopObjectInv DEF ObjectsNext
<1>2. ObjectsInv => ObjectsOnce
  <2> SUFFICES ASSUME ObjectsInv PROVE ObjectsOnce
    OBVIOUS
  <2>1. /\ DOMAIN taken = 1 .. Len(taken) /\ DOMAIN objects = 1 .. Len(objects)
        /\ Len(objects) \in Nat /\ FirstUnseen \in Nat
    BY DEF ObjectsInv, ObjectsTypeOK, FirstUnseen
  <2>2. Unseen = {} => \A i \in 1 .. Len(objects) : i <= FirstUnseen
    <3>1. \A i \in 1 .. Len(objects) : i <= FirstUnseen \/ objects[i] \in Unseen
      BY <2>1 DEF Unseen
    <3>2. QED
      BY <3>1
  <2>3. QED
    BY <2>1, <2>2 DEF ObjectsInv, Shared, ObjectsOnce
<1>3. QED
  BY <1>1, <1>2, InitObjectsInv, PTL DEF ObjectsSpec

-----------------------------------------------------------------------------
(* Datagrams *)

Datagram == [n : Nat, g : Nat]
Arrival == [kind : {"datagram", "stream"}, g : Nat, read : BOOLEAN]

DatagramsTypeOK ==
  /\ latest \in Datagram /\ written \in Nat
  /\ flying \subseteq Datagram /\ streams \subseteq Datagram
  /\ newest \in Nat /\ dgReader \in BOOLEAN
  /\ applied \in Seq(Arrival)

(***************************************************************************)
(* What the writer of an open subscription tells of what has arrived:      *)
(* nothing, or one datagram, or streams of newer and newer groups, and     *)
(* each of them was read.                                                  *)
(***************************************************************************)
WriterTells ==
  \/ writer = "track" /\ applied = <<>>
  \/ /\ writer = "none" /\ Len(applied) = 1
     /\ applied[1].kind = "datagram" /\ applied[1].read
  \/ /\ writer = "subgroups"
     /\ \A i \in 1 .. Len(applied) :
          applied[i].kind = "stream" /\ applied[i].read /\ applied[i].g <= newest
     /\ \E i \in 1 .. Len(applied) : applied[i].g = newest

DatagramsInv ==
  /\ DatagramsTypeOK
  /\ session = "up" /\ subscription = "open" => WriterTells
  /\ EndsForCause

\* What has arrived is kept, and one more behind it.
LEMMA ArrivesFacts ==
  ASSUME DatagramsTypeOK, NEW kind \in {"datagram", "stream"}, NEW d \in Datagram, Arrives(kind, d)
  PROVE  /\ applied' \in Seq(Arrival) /\ Len(applied) \in Nat /\ Len(applied') = Len(applied) + 1
         /\ DOMAIN applied = 1 .. Len(applied) /\ DOMAIN applied' = 1 .. Len(applied) + 1
         /\ \A i \in 1 .. Len(applied) : applied'[i] = applied[i] /\ applied[i].g \in Nat
         /\ applied'[Len(applied) + 1] = [kind |-> kind, g |-> d.g, read |-> dgReader]
         /\ d.g \in Nat
<1>1. /\ [kind |-> kind, g |-> d.g, read |-> dgReader] \in Arrival
      /\ applied \in Seq(Arrival) /\ d.g \in Nat
      /\ \A m \in Arrival : m.g \in Nat
  BY DEF DatagramsTypeOK, Arrival, Datagram
<1>2. QED
  BY <1>1, AppendFacts DEF Arrives

\* What arrives behind a cause, or behind what is none, does not change it.
LEMMA CauseKept ==
  ASSUME DatagramsTypeOK, EndsForCause, session = "up", subscription = "open",
         NEW kind \in {"datagram", "stream"}, NEW d \in Datagram, Arrives(kind, d),
         NEW n \in Nat, n = Len(applied) + 1
  PROVE  /\ (\E i \in DOMAIN applied' : EndsSession(i)') <=> EndsSession(n)'
         /\ (\E j \in DOMAIN applied' : EndsSubscription(j)') <=> EndsSubscription(n)'
<1>1. /\ Len(applied) \in Nat
      /\ DOMAIN applied = 1 .. Len(applied) /\ DOMAIN applied' = 1 .. Len(applied) + 1
      /\ \A i \in 1 .. Len(applied) : applied'[i] = applied[i]
  BY ArrivesFacts
<1>2. \A i \in 1 .. Len(applied) : ~EndsSession(i) /\ ~EndsSubscription(i)
  BY <1>1 DEF EndsForCause
<1>3. ASSUME NEW i \in 1 .. Len(applied) PROVE ~EndsSession(i)'
  BY <1>1, <1>2 DEF EndsSession
<1>4. ASSUME NEW j \in 1 .. Len(applied) PROVE ~EndsSubscription(j)'
  <2>1. \A i \in 1 .. (j - 1) : i \in 1 .. Len(applied)
    BY <1>1
  <2>2. \A i \in 1 .. (j - 1) : applied'[i] = applied[i]
    BY <1>1, <2>1
  <2>3. applied'[j] = applied[j] /\ ~EndsSubscription(j)
    BY <1>1, <1>2
  <2>4. QED
    BY <2>2, <2>3 DEF EndsSubscription
<1>5. \A i \in DOMAIN applied' : i \in 1 .. Len(applied) \/ i = n
  BY <1>1
<1>6. n \in DOMAIN applied'
  BY <1>1
<1>7. QED
  BY <1>3, <1>4, <1>5, <1>6

\* recv_datagram.
LEMMA ApplyDatagramInv ==
  ASSUME DatagramsInv, ApplyDatagram
  PROVE  DatagramsInv'
<1> USE DEF DatagramsInv
<1>1. PICK d \in flying :
        /\ flying' = flying \ {d}
        /\ Arrives("datagram", d)
        /\ IF writer = "track" /\ dgReader THEN UNCHANGED session ELSE session' = "down"
  BY DEF ApplyDatagram
<1>2. /\ writer' = "none" /\ UNCHANGED <<latest, written, streams, newest, dgReader, subscription>>
      /\ session = "up" /\ subscription = "open" /\ WriterTells
  BY DEF ApplyDatagram, dgServeVars
<1>3. d \in Datagram
  BY DEF DatagramsTypeOK
<1>4. /\ applied' \in Seq(Arrival) /\ Len(applied) \in Nat /\ Len(applied') = Len(applied) + 1
      /\ \A i \in 1 .. Len(applied) : applied'[i] = applied[i] /\ applied[i].g \in Nat
      /\ applied'[Len(applied) + 1] = [kind |-> "datagram", g |-> d.g, read |-> dgReader]
  BY <1>1, <1>3, ArrivesFacts
<1>5. DatagramsTypeOK'
  BY <1>1, <1>2, <1>4 DEF DatagramsTypeOK
<1>6. writer = "track" <=> Len(applied) = 0
  <2>1. writer = "track" => Len(applied) = 0
    BY <1>2 DEF WriterTells
  <2>2. writer # "track" => Len(applied) # 0
    BY <1>2, <1>4 DEF WriterTells
  <2>3. QED
    BY <2>1, <2>2
<1>7. session' = "up" => WriterTells'
  <2>1. session' = "up" => writer = "track" /\ dgReader
    BY <1>1
  <2>2. session' = "up" => /\ Len(applied') = 1
                           /\ applied'[1] = [kind |-> "datagram", g |-> d.g, read |-> TRUE]
    BY <1>4, <1>6, <2>1 DEF DatagramsTypeOK
  <2>3. QED
    BY <1>2, <2>2 DEF WriterTells
<1>8. PICK n \in Nat : n = Len(applied) + 1
  BY <1>4
<1>9. EndsForCause'
  <2>1. EndsSession(n)' <=> session' = "down"
    <3>1. EndsSession(n)' <=> (Len(applied) + 1 > 1 \/ ~dgReader)
      BY <1>4, <1>8 DEF EndsSession
    <3>2. Len(applied) + 1 > 1 <=> writer # "track"
      BY <1>4, <1>6
    <3>3. session' = "down" <=> ~(writer = "track" /\ dgReader)
      BY <1>1, <1>2
    <3>4. QED
      BY <3>1, <3>2, <3>3
  <2>2. ~EndsSubscription(n)'
    BY <1>4, <1>8 DEF EndsSubscription
  <2>3. QED
    BY <1>1, <1>2, <1>3, <1>8, <2>1, <2>2, CauseKept DEF EndsForCause
<1>10. QED
  BY <1>5, <1>7, <1>9

\* recv_stream.
LEMMA RecvStreamInv ==
  ASSUME DatagramsInv, RecvStream
  PROVE  DatagramsInv'
<1> USE DEF DatagramsInv
<1> DEFINE fits(d) == dgReader /\ (writer = "track" \/ (writer = "subgroups" /\ d.g > newest))
<1>1. PICK d \in streams :
        /\ Arrives("stream", d) /\ streams' = streams \ {d}
        /\ fits(d) => writer' = "subgroups" /\ newest' = d.g /\ UNCHANGED subscription
        /\ ~fits(d) => subscription' = "ended" /\ UNCHANGED newest
  BY DEF RecvStream, PutBack
<1>2. /\ UNCHANGED <<latest, written, flying, dgReader, session>>
      /\ session = "up" /\ subscription = "open" /\ WriterTells
  BY DEF RecvStream, dgServeVars
<1>3. d \in Datagram
  BY DEF DatagramsTypeOK
<1>4. /\ applied' \in Seq(Arrival) /\ Len(applied) \in Nat /\ Len(applied') = Len(applied) + 1
      /\ \A i \in 1 .. Len(applied) : applied'[i] = applied[i] /\ applied[i].g \in Nat
      /\ applied'[Len(applied) + 1] = [kind |-> "stream", g |-> d.g, read |-> dgReader]
      /\ d.g \in Nat
  BY <1>1, <1>3, ArrivesFacts
<1>5. DatagramsTypeOK'
  BY <1>1, <1>2, <1>4 DEF DatagramsTypeOK
<1>6. ASSUME fits(d) PROVE WriterTells'
  <2>1. /\ writer' = "subgroups" /\ newest' = d.g
        /\ applied'[Len(applied) + 1] = [kind |-> "stream", g |-> d.g, read |-> TRUE]
    BY <1>1, <1>4, <1>6 DEF DatagramsTypeOK
  <2>2. ASSUME NEW i \in 1 .. Len(applied)
        PROVE  applied[i].kind = "stream" /\ applied[i].read /\ applied[i].g <= d.g
    <3>1. writer = "subgroups" /\ newest \in Nat /\ d.g > newest
      BY <1>2, <1>6, <2>2 DEF WriterTells, DatagramsTypeOK
    <3>2. QED
      BY <1>2, <1>4, <2>2, <3>1 DEF WriterTells
  <2>3. \A i \in 1 .. Len(applied') : i \in 1 .. Len(applied) \/ i = Len(applied) + 1
    BY <1>4
  <2>4. \A i \in 1 .. Len(applied') :
          applied'[i].kind = "stream" /\ applied'[i].read /\ applied'[i].g <= d.g
    BY <1>4, <2>1, <2>2, <2>3
  <2>5. Len(applied) + 1 \in 1 .. Len(applied') /\ applied'[Len(applied) + 1].g = d.g
    BY <1>4, <2>1
  <2>6. QED
    BY <2>1, <2>4, <2>5 DEF WriterTells
<1>7. PICK n \in Nat : n = Len(applied) + 1
  BY <1>4
<1>8. EndsForCause'
  <2>1. ~EndsSession(n)'
    BY <1>4, <1>7 DEF EndsSession
  <2>2. EndsSubscription(n)' <=>
          \/ ~dgReader
          \/ \E i \in 1 .. Len(applied) : applied[i].kind = "datagram" \/ applied[i].g >= d.g
    <3>1. 1 .. (n - 1) = 1 .. Len(applied)
      BY <1>4, <1>7
    <3>2. QED
      BY <1>4, <1>7, <3>1 DEF EndsSubscription
  <2>3. ASSUME dgReader
        PROVE  fits(d) <=>
                 ~\E i \in 1 .. Len(applied) : applied[i].kind = "datagram" \/ applied[i].g >= d.g
    <3>1. CASE writer = "track" /\ applied = <<>>
      BY <2>3, <3>1
    <3>2. CASE writer = "none" /\ Len(applied) = 1 /\ applied[1].kind = "datagram"
      BY <2>3, <3>2
    <3>3. CASE /\ writer = "subgroups"
               /\ \A i \in 1 .. Len(applied) : applied[i].kind = "stream" /\ applied[i].g <= newest
               /\ \E i \in 1 .. Len(applied) : applied[i].g = newest
      BY <1>4, <2>3, <3>3 DEF DatagramsTypeOK
    <3>4. QED
      BY <1>2, <3>1, <3>2, <3>3 DEF WriterTells
  <2>4. EndsSubscription(n)' <=> subscription' = "ended"
    BY <1>1, <1>2, <2>2, <2>3
  <2>5. QED
    BY <1>1, <1>2, <1>3, <1>7, <2>1, <2>4, CauseKept DEF EndsForCause
<1>9. subscription' = "open" => fits(d)
  BY <1>1, <1>2
<1>10. QED
  BY <1>5, <1>6, <1>8, <1>9

(***************************************************************************)
(* A subscriber's session and its subscription end over the arrivals that  *)
(* EndsForCause names and over no others: whatever is lost or reordered,   *)
(* whenever serve_datagrams falls back to streams and whenever the reader  *)
(* of the track goes.                                                      *)
(***************************************************************************)
THEOREM DatagramsEndForCause == DatagramsSpec => []EndsForCause
<1>1. DatagramsInit => DatagramsInv
  BY DEF DatagramsInit, DatagramsInv, DatagramsTypeOK, WriterTells, EndsForCause, Datagram, Arrival
<1>2. DatagramsInv /\ [DatagramsNext]_datagramsVars => DatagramsInv'
  <2> SUFFICES ASSUME DatagramsInv, [DatagramsNext]_datagramsVars PROVE DatagramsInv'
    OBVIOUS
  <2> USE DEF DatagramsInv
  <2>1. ASSUME UNCHANGED <<applied, session>>,
               subscription' = subscription \/ (subscription = "open" /\ subscription' = "done"),
               UNCHANGED <<writer, newest>> \/ subscription' = "done"
        PROVE  EndsForCause' /\ (session' = "up" /\ subscription' = "open" => WriterTells')
    BY <2>1 DEF EndsForCause, EndsSession, EndsSubscription, WriterTells
  <2>2. ASSUME NEW g \in DatagramGroup, WriteDatagram(g) PROVE DatagramsInv'
    <3>1. DatagramsTypeOK'
      BY <2>2, DatagramsAssumption DEF WriteDatagram, dgRecvVars, DatagramsTypeOK, Datagram
    <3>2. UNCHANGED <<applied, session, subscription, writer, newest>>
      BY <2>2 DEF WriteDatagram, dgRecvVars
    <3>3. QED
      BY <2>1, <3>1, <3>2
  <2>3. CASE \/ EndDatagrams \/ ServeDatagram \/ ServeEnds \/ LoseDatagram \/ DropTrackReader
             \/ IgnoreArrival \/ RecvDone \/ UNCHANGED datagramsVars
    <3>1. DatagramsTypeOK'
      BY <2>3 DEF EndDatagrams, ServeDatagram, ServeEnds, LoseDatagram, DropTrackReader,
                  IgnoreArrival, RecvDone, dgServeVars, dgRecvVars, datagramsVars, DatagramsTypeOK
    <3>2. /\ UNCHANGED <<applied, session>>
          /\ subscription' = subscription \/ (subscription = "open" /\ subscription' = "done")
          /\ UNCHANGED <<writer, newest>> \/ subscription' = "done"
      BY <2>3 DEF EndDatagrams, ServeDatagram, ServeEnds, LoseDatagram, DropTrackReader,
                  IgnoreArrival, RecvDone, dgServeVars, dgRecvVars, datagramsVars
    <3>3. QED
      BY <2>1, <3>1, <3>2
  <2>4. QED
    BY <2>2, <2>3, ApplyDatagramInv, RecvStreamInv DEF DatagramsNext
<1>3. DatagramsInv => EndsForCause
  BY DEF DatagramsInv
<1>4. QED
  BY <1>1, <1>2, <1>3, PTL DEF DatagramsSpec

-----------------------------------------------------------------------------
(* One stream *)

StreamObject == {"open", "done", "short"}
FarObject == [n : Nat, s : StreamObject]
StreamMsg == [t : {"head"}, g : GroupId, n : Nat] \cup [t : {"done", "cut", "fin"}]

StreamTypeOK ==
  /\ objs \in Seq(Seq(StreamObject)) /\ Len(objs) <= MaxGroup
  /\ open \subseteq 1 .. Len(objs) /\ poisoned \subseteq 1 .. Len(objs)
  /\ step \in {"track", "group", "object", "done", "failed"}
  /\ at \in 0 .. Len(objs) /\ streamEpoch = at /\ index \in Nat
  /\ step \in {"group", "object"} => at # 0
  /\ line \in Seq(StreamMsg)
  /\ recv \in {"object", "payload", "over"}
  /\ far \in [GroupId -> Seq(FarObject)] /\ farGroup \in 0 .. MaxGroup

\* The object whose header was received last.
Received == [g |-> farGroup, n |-> IF farGroup = 0 THEN 1 ELSE Len(far[farGroup]) + 1]

\* The header before the message in place k: two places before it, or received already.
Previous(k) == IF k <= 2 THEN Received ELSE line[k - 2]

\* The header that was sent last.
LastSent == Previous(IF step = "object" THEN Len(line) + 2 ELSE Len(line) + 1)

\* An object's header comes after the one before it in its group, or is the first of a later group.
Follows(p, q) == \/ q.g = p.g /\ q.n = p.n + 1
                 \/ q.g > p.g /\ q.n = 2

\* The object of a header was written whole.
Whole(h) ==
  h.g \in 1 .. Len(objs) /\ h.n \in 1 .. Len(objs[h.g]) /\ objs[h.g][h.n] = "done"

\* Headers and payloads alternate up to the end of the stream.
LineShape ==
  /\ recv = "over" => line = <<>> /\ step \in {"done", "failed"}
  /\ line # <<>> => line[1].t \in IF recv = "payload" THEN {"done", "cut"} ELSE {"head", "fin", "cut"}
  /\ \A k \in 1 .. Len(line) :
       k + 1 <= Len(line) => \/ line[k].t = "head" /\ line[k + 1].t \in {"done", "cut"}
                             \/ line[k].t = "done" /\ line[k + 1].t \in {"head", "fin", "cut"}
  /\ step = "object" => IF line = <<>> THEN recv = "payload" ELSE line[Len(line)].t = "head"
  /\ step \in {"track", "group"} =>
       IF line = <<>> THEN recv = "object" ELSE line[Len(line)].t = "done"

\* The headers follow one another, up to the reader's index, and a payload is one that was written.
LineChain ==
  /\ \A k \in 1 .. Len(line) :
       /\ line[k].t = "head" =>
            /\ Follows(Previous(k), line[k])
            /\ line[k].g <= Len(objs) /\ line[k].n <= Len(objs[line[k].g])
       /\ line[k].t = "done" => Whole(Previous(k + 1))
  /\ step \in {"track", "group", "object"} =>
       /\ LastSent.g <= at
       /\ LastSent.g = at => LastSent.n = index + 1
       /\ LastSent.g < at => index = 0 /\ step # "object"

\* What the subscriber has, and where the locks are poisoned.
FarOK ==
  /\ \A g \in GroupId :
       /\ g > farGroup => far[g] = <<>>
       /\ \A i \in 1 .. Len(far[g]) :
            /\ far[g][i].n = i + 1
            /\ g <= Len(objs) /\ i + 1 <= Len(objs[g])
            /\ far[g][i].s = "done" => objs[g][i + 1] = "done"
  /\ recv = "payload" => farGroup # 0 /\ far[farGroup] # <<>>
  /\ \A g \in poisoned : Len(objs[g]) >= 1

\* Only the object received last may be without its end, and no other comes before it has one.
FarWhole ==
  \A g \in GroupId : \A i \in 1 .. Len(far[g]) :
    far[g][i].s # "done" => recv # "object" /\ g = farGroup /\ i = Len(far[g])

StreamInv == StreamTypeOK /\ LineShape /\ LineChain /\ FarOK

\* The messages of the stream.
LEMMA StreamMsgs ==
  /\ \A m \in StreamMsg : /\ m.t \in {"head", "done", "cut", "fin"}
                          /\ m.t = "head" => m.g \in GroupId /\ m.g \in Nat \ {0} /\ m.n \in Nat
  /\ \A g \in GroupId, n \in Nat :
       /\ HeaderOf(g, n) \in StreamMsg
       /\ HeaderOf(g, n).t = "head" /\ HeaderOf(g, n).g = g /\ HeaderOf(g, n).n = n
  /\ \A s \in {"done", "cut", "fin"} : Body(s) \in StreamMsg /\ Body(s).t = s
BY StreamAssumption DEF StreamMsg, HeaderOf, Body, GroupId

\* The parts of the state that the steps below look into.
LEMMA StreamTypes ==
  ASSUME StreamTypeOK
  PROVE  /\ Len(objs) \in Nat /\ Len(line) \in Nat /\ at \in Nat /\ index \in Nat
         /\ MaxGroup \in Nat /\ farGroup \in Nat
         /\ \A g \in 1 .. Len(objs) : g \in GroupId /\ objs[g] \in Seq(StreamObject)
                                      /\ Len(objs[g]) \in Nat
         /\ \A g \in GroupId : g \in Nat \ {0} /\ far[g] \in Seq(FarObject) /\ Len(far[g]) \in Nat
         /\ farGroup # 0 => farGroup \in GroupId
         /\ Received.g \in Nat /\ Received.n \in Nat /\ Received.g = farGroup
         /\ \A k \in 1 .. Len(line) : line[k] \in StreamMsg
         /\ line # <<>> <=> Len(line) # 0
<1>1. /\ Len(objs) \in Nat /\ Len(line) \in Nat /\ at \in Nat /\ index \in Nat /\ MaxGroup \in Nat
      /\ \A k \in 1 .. Len(line) : line[k] \in StreamMsg
      /\ line # <<>> <=> Len(line) # 0
  BY StreamAssumption DEF StreamTypeOK
<1>2. \A g \in 1 .. Len(objs) : g \in GroupId /\ objs[g] \in Seq(StreamObject) /\ Len(objs[g]) \in Nat
  BY <1>1 DEF StreamTypeOK, GroupId
<1>3. \A g \in GroupId : g \in Nat \ {0} /\ far[g] \in Seq(FarObject) /\ Len(far[g]) \in Nat
  BY <1>1 DEF StreamTypeOK, GroupId
<1>4. farGroup \in Nat /\ (farGroup # 0 => farGroup \in GroupId)
  BY <1>1 DEF StreamTypeOK, GroupId
<1>5. Received.g = farGroup /\ Received.n \in Nat
  BY <1>3, <1>4 DEF Received
<1>6. QED
  BY <1>1, <1>2, <1>3, <1>4, <1>5

\* A header on the stream is of a group and an object, and so is the one before it.
LEMMA HeadersBefore ==
  ASSUME StreamTypeOK, LineShape
  PROVE  /\ \A k \in 1 .. Len(line) :
              line[k].t = "head" /\ k > 2 => line[k - 1].t = "done" /\ line[k - 2].t = "head"
         /\ \A k \in 1 .. Len(line) : line[k].t = "done" /\ k > 1 => line[k - 1].t = "head"
<1>1. Len(line) \in Nat
  BY StreamTypes
<1>2. ASSUME NEW k \in 1 .. Len(line), k > 1
      PROVE  /\ k - 1 \in 1 .. Len(line)
             /\ \/ line[k - 1].t = "head" /\ line[k].t \in {"done", "cut"}
                \/ line[k - 1].t = "done" /\ line[k].t \in {"head", "fin", "cut"}
  <2>1. k - 1 \in 1 .. Len(line) /\ (k - 1) + 1 = k /\ (k - 1) + 1 <= Len(line)
    BY <1>1, <1>2
  <2>2. QED
    BY <2>1 DEF LineShape
<1>3. ASSUME NEW k \in 1 .. Len(line), line[k].t = "head", k > 2
      PROVE  line[k - 1].t = "done" /\ line[k - 2].t = "head"
  <2>1. line[k - 1].t = "done" /\ k - 1 \in 1 .. Len(line) /\ k - 1 > 1 /\ (k - 1) - 1 = k - 2
    BY <1>1, <1>2, <1>3
  <2>2. line[(k - 1) - 1].t = "head"
    BY <1>2, <2>1
  <2>3. QED
    BY <2>1, <2>2
<1>4. QED
  BY <1>2, <1>3

\* The writers of the track only add objects, and finish them.
LEMMA WritersInv ==
  ASSUME StreamInv, objs' \in Seq(Seq(StreamObject)), Len(objs') <= MaxGroup, Len(objs) <= Len(objs'),
         open' \subseteq 1 .. Len(objs'), UNCHANGED <<poisoned, serveVars, line, farVars>>,
         \A g \in 1 .. Len(objs) :
           /\ Len(objs'[g]) >= Len(objs[g])
           /\ \A i \in 1 .. Len(objs[g]) : objs[g][i] = "done" => objs'[g][i] = "done"
  PROVE  StreamInv'
<1> USE DEF StreamInv, serveVars, farVars
<1>1. /\ Len(objs) \in Nat /\ Len(objs') \in Nat
      /\ \A g \in 1 .. Len(objs) : g \in 1 .. Len(objs') /\ Len(objs[g]) \in Nat /\ Len(objs'[g]) \in Nat
  BY StreamTypes
<1>2. StreamTypeOK'
  BY <1>1 DEF StreamTypeOK
<1>3. LineShape'
  BY DEF LineShape
<1>4. \A h : Whole(h) => Whole(h)'
  BY <1>1 DEF Whole
<1>5. \A k : Previous(k)' = Previous(k)
  BY DEF Previous, Received
<1>6. LineChain'
  <2>1. ASSUME NEW k \in 1 .. Len(line), line[k].t = "head"
        PROVE  line[k].g <= Len(objs') /\ line[k].n <= Len(objs'[line[k].g])
    <3>1. line[k].g \in Nat \ {0} /\ line[k].n \in Nat
      BY <2>1, StreamTypes, StreamMsgs
    <3>2. QED
      BY <1>1, <2>1, <3>1, SMTT(30) DEF LineChain
  <2>2. LastSent' = LastSent
    BY <1>5 DEF LastSent
  <2>3. QED
    BY <1>4, <1>5, <2>1, <2>2 DEF LineChain
<1>7. FarOK'
  <2>1. \A g \in GroupId : Len(far[g]) \in Nat /\ g \in Nat \ {0}
    BY StreamTypes
  <2>2. ASSUME NEW g \in GroupId, NEW i \in 1 .. Len(far[g])
        PROVE  /\ g <= Len(objs') /\ i + 1 <= Len(objs'[g])
               /\ far[g][i].s = "done" => objs'[g][i + 1] = "done"
    <3>1. g \in 1 .. Len(objs) /\ i + 1 \in 1 .. Len(objs[g])
      BY <1>1, <2>1 DEF FarOK
    <3>2. /\ Len(objs'[g]) >= Len(objs[g]) /\ g \in 1 .. Len(objs')
          /\ objs[g][i + 1] = "done" => objs'[g][i + 1] = "done"
      BY <1>1, <3>1
    <3>3. far[g][i].s = "done" => objs[g][i + 1] = "done"
      BY DEF FarOK
    <3>4. QED
      BY <1>1, <3>1, <3>2, <3>3
  <2>3. ASSUME NEW g \in poisoned PROVE Len(objs'[g]) >= 1
    <3>1. g \in 1 .. Len(objs) /\ Len(objs[g]) >= 1
      BY DEF FarOK, StreamTypeOK
    <3>2. Len(objs'[g]) >= Len(objs[g])
      BY <3>1
    <3>3. Len(objs[g]) \in Nat /\ Len(objs'[g]) \in Nat
      BY <1>1, <3>1, StreamTypes
    <3>4. QED
      BY <3>1, <3>2, <3>3
  <2>4. QED
    BY <2>2, <2>3 DEF FarOK
<1>8. QED
  BY <1>2, <1>3, <1>6, <1>7

\* Every step of the writers is of that kind.
LEMMA WriterStepsInv ==
  ASSUME StreamInv,
         \/ AppendGroup \/ DropStream
         \/ \E g \in GroupId : CreateObject(g) \/ WriteObject(g) \/ DropGroup(g)
  PROVE  StreamInv'
<1> USE DEF StreamInv
<1>1. /\ Len(objs) \in Nat
      /\ objs \in Seq(Seq(StreamObject)) /\ Len(objs) <= MaxGroup /\ open \subseteq 1 .. Len(objs)
      /\ \A g \in 1 .. Len(objs) : objs[g] \in Seq(StreamObject) /\ Len(objs[g]) \in Nat
  BY StreamTypes DEF StreamTypeOK
<1>2. CASE AppendGroup
  <2>1. CASE Len(objs) \in poisoned
    <3>1. UNCHANGED <<objs, open, poisoned, serveVars, line, farVars>>
      BY <1>2, <2>1 DEF AppendGroup
    <3>2. QED
      BY <1>1, <3>1, WritersInv
  <2>2. CASE Len(objs) \notin poisoned
    <3>1. /\ objs' = Append(objs, <<>>) /\ open' = open \cup {Len(objs) + 1}
          /\ UNCHANGED <<poisoned, serveVars, line, farVars>> /\ Len(objs) < MaxGroup
      BY <1>2, <2>2 DEF AppendGroup
    <3>2. <<>> \in Seq(StreamObject)
      OBVIOUS
    <3>3. /\ objs' \in Seq(Seq(StreamObject)) /\ Len(objs') = Len(objs) + 1
          /\ \A g \in 1 .. Len(objs) : objs'[g] = objs[g]
      BY <1>1, <3>1, <3>2, AppendFacts
    <3>4. Len(objs') <= MaxGroup /\ open' \subseteq 1 .. Len(objs')
      <4>1. MaxGroup \in Nat
        BY StreamAssumption
      <4>2. Len(objs') <= MaxGroup
        BY <1>1, <3>1, <3>3, <4>1
      <4>3. \A g \in open' : g \in 1 .. Len(objs')
        BY <1>1, <3>1, <3>3
      <4>4. QED
        BY <4>2, <4>3
    <3>5. QED
      BY <1>1, <3>1, <3>3, <3>4, WritersInv
  <2>3. QED
    BY <2>1, <2>2
<1>3. CASE DropStream \/ \E g \in GroupId : DropGroup(g)
  <2>1. /\ UNCHANGED <<objs, poisoned, serveVars, line, farVars>> /\ open' \subseteq open
    BY <1>3 DEF DropStream, DropGroup
  <2>2. QED
    BY <1>1, <2>1, WritersInv
<1>4. ASSUME NEW g \in GroupId, CreateObject(g) PROVE StreamInv'
  <2>1. g \in 1 .. Len(objs) /\ UNCHANGED <<open, poisoned, serveVars, line, farVars>>
    BY <1>1, <1>4 DEF CreateObject
  <2>2. CASE g \in poisoned
    <3>1. UNCHANGED objs
      BY <1>4, <2>2 DEF CreateObject
    <3>2. QED
      BY <1>1, <2>1, <3>1, WritersInv
  <2>3. CASE g \notin poisoned
    <3>1. objs' = [objs EXCEPT ![g] = Append(objs[g], "open")]
      BY <1>4, <2>3 DEF CreateObject
    <3>2. /\ Append(objs[g], "open") \in Seq(StreamObject)
          /\ Len(Append(objs[g], "open")) = Len(objs[g]) + 1
          /\ \A i \in 1 .. Len(objs[g]) : Append(objs[g], "open")[i] = objs[g][i]
      BY <1>1, <2>1, AppendFacts DEF StreamObject
    <3>3. /\ objs' \in Seq(Seq(StreamObject)) /\ Len(objs') = Len(objs)
          /\ objs'[g] = Append(objs[g], "open")
          /\ \A h \in 1 .. Len(objs) : h # g => objs'[h] = objs[h]
      BY <1>1, <2>1, <3>1, <3>2
    <3>4. \A h \in 1 .. Len(objs) :
            /\ Len(objs'[h]) >= Len(objs[h])
            /\ \A i \in 1 .. Len(objs[h]) : objs[h][i] = "done" => objs'[h][i] = "done"
      <4> DEFINE new == Append(objs[g], "open")
      <4> HIDE DEF new
      <4>1. /\ Len(objs[g]) \in Nat /\ Len(new) = Len(objs[g]) + 1 /\ objs'[g] = new
            /\ \A i \in 1 .. Len(objs[g]) : new[i] = objs[g][i]
        BY <1>1, <2>1, <3>2, <3>3 DEF new
      <4>2. /\ Len(objs'[g]) >= Len(objs[g])
            /\ \A i \in 1 .. Len(objs[g]) : objs[g][i] = "done" => objs'[g][i] = "done"
        BY <4>1
      <4>3. ASSUME NEW h \in 1 .. Len(objs), h # g
            PROVE  objs'[h] = objs[h] /\ Len(objs'[h]) >= Len(objs[h])
        BY <1>1, <3>3, <4>3
      <4>4. QED
        BY <4>2, <4>3
    <3>5. QED
      BY <1>1, <2>1, <3>3, <3>4, WritersInv
  <2>4. QED
    BY <2>2, <2>3
<1>5. ASSUME NEW g \in GroupId, WriteObject(g) PROVE StreamInv'
  <2>1. g \in 1 .. Len(objs) /\ UNCHANGED <<open, poisoned, serveVars, line, farVars>>
    BY <1>5 DEF WriteObject
  <2>2. PICK n \in DOMAIN objs[g], s \in {"done", "short"} :
          objs[g][n] = "open" /\ objs' = [objs EXCEPT ![g] = [objs[g] EXCEPT ![n] = s]]
    BY <1>5 DEF WriteObject
  <2> DEFINE new == [objs[g] EXCEPT ![n] = s]
  <2>3. /\ new \in Seq(StreamObject) /\ Len(new) = Len(objs[g])
        /\ \A i \in 1 .. Len(objs[g]) : objs[g][i] = "done" => new[i] = "done"
    <3>1. n \in 1 .. Len(objs[g]) /\ s \in StreamObject
      BY <1>1, <2>1, <2>2 DEF StreamObject
    <3>2. QED
      BY <1>1, <2>1, <2>2, <3>1
  <2> HIDE DEF new
  <2>4. objs' = [objs EXCEPT ![g] = new]
    BY <2>2 DEF new
  <2>5. /\ objs' \in Seq(Seq(StreamObject)) /\ Len(objs') = Len(objs)
        /\ objs'[g] = new
        /\ \A h \in 1 .. Len(objs) : h # g => objs'[h] = objs[h]
    BY <1>1, <2>1, <2>3, <2>4
  <2>6. \A h \in 1 .. Len(objs) :
          /\ Len(objs'[h]) >= Len(objs[h])
          /\ \A i \in 1 .. Len(objs[h]) : objs[h][i] = "done" => objs'[h][i] = "done"
    <3>1. /\ Len(objs'[g]) >= Len(objs[g])
          /\ \A i \in 1 .. Len(objs[g]) : objs[g][i] = "done" => objs'[g][i] = "done"
      BY <1>1, <2>1, <2>3, <2>5
    <3>2. ASSUME NEW h \in 1 .. Len(objs), h # g
          PROVE  objs'[h] = objs[h] /\ Len(objs'[h]) >= Len(objs[h])
      BY <1>1, <2>5, <3>2
    <3>3. QED
      BY <3>1, <3>2
  <2>7. QED
    BY <1>1, <2>1, <2>5, <2>6, WritersInv
<1>6. QED
  BY <1>2, <1>3, <1>4, <1>5
\* A message that fits is sent: the shape of the line is kept, and which header comes before which.
LEMMA SendLine ==
  ASSUME StreamTypeOK, LineShape, NEW m \in StreamMsg, line' = Append(line, m),
         UNCHANGED <<recv, far, farGroup>>,
         \/ step = "object" /\ m.t \in {"done", "cut"}
         \/ step \in {"track", "group"} /\ m.t \in {"head", "fin", "cut"}
  PROVE  /\ line' \in Seq(StreamMsg) /\ Len(line) \in Nat /\ Len(line') = Len(line) + 1
         /\ line' # <<>> /\ recv # "over"
         /\ \A k \in 1 .. Len(line) : line'[k] = line[k]
         /\ line'[Len(line) + 1] = m
         /\ line'[1].t \in IF recv = "payload" THEN {"done", "cut"} ELSE {"head", "fin", "cut"}
         /\ \A k \in 1 .. Len(line') :
              k + 1 <= Len(line') =>
                \/ line'[k].t = "head" /\ line'[k + 1].t \in {"done", "cut"}
                \/ line'[k].t = "done" /\ line'[k + 1].t \in {"head", "fin", "cut"}
         /\ \A k \in 1 .. (Len(line) + 2) : Previous(k)' = Previous(k)
<1>1. /\ line' \in Seq(StreamMsg) /\ Len(line) \in Nat /\ Len(line') = Len(line) + 1
      /\ line' # <<>>
      /\ \A k \in 1 .. Len(line) : line'[k] = line[k]
      /\ line'[Len(line) + 1] = m
  <2>1. line \in Seq(StreamMsg)
    BY DEF StreamTypeOK
  <2>2. /\ line' \in Seq(StreamMsg) /\ Len(line) \in Nat /\ Len(line') = Len(line) + 1
        /\ \A k \in 1 .. Len(line) : line'[k] = line[k]
        /\ line'[Len(line) + 1] = m
    BY <2>1, AppendFacts
  <2>3. QED
    BY <2>2
<1>2. recv \in {"object", "payload"} /\ (line = <<>> <=> Len(line) = 0)
  BY StreamTypes DEF LineShape, StreamTypeOK
<1>3. line'[1].t \in IF recv = "payload" THEN {"done", "cut"} ELSE {"head", "fin", "cut"}
  <2>1. CASE line = <<>>
    BY <1>1, <1>2, <2>1 DEF LineShape
  <2>2. CASE line # <<>>
    BY <1>1, <1>2, <2>2 DEF LineShape
  <2>3. QED
    BY <2>1, <2>2
<1>4. ASSUME NEW k \in 1 .. Len(line'), k + 1 <= Len(line')
      PROVE  \/ line'[k].t = "head" /\ line'[k + 1].t \in {"done", "cut"}
             \/ line'[k].t = "done" /\ line'[k + 1].t \in {"head", "fin", "cut"}
  <2>1. CASE k = Len(line)
    BY <1>1, <1>2, <2>1 DEF LineShape
  <2>2. CASE k # Len(line)
    <3>1. k \in 1 .. Len(line) /\ k + 1 \in 1 .. Len(line) /\ k + 1 <= Len(line)
      BY <1>1, <1>4, <2>2
    <3>2. QED
      BY <1>1, <3>1 DEF LineShape
  <2>3. QED
    BY <2>1, <2>2
<1>5. \A k \in 1 .. (Len(line) + 2) : Previous(k)' = Previous(k)
  <2>1. Received' = Received
    BY DEF Received
  <2>2. \A k \in 1 .. (Len(line) + 2) : k <= 2 \/ k - 2 \in 1 .. Len(line)
    BY <1>1
  <2>3. QED
    BY <1>1, <2>1, <2>2 DEF Previous
<1>6. QED
  BY <1>1, <1>2, <1>3, <1>4, <1>5

\* What was on the line before is as true as it was.
LEMMA ChainKept ==
  ASSUME LineChain, UNCHANGED objs, NEW k \in 1 .. Len(line), line'[k] = line[k],
         Previous(k)' = Previous(k), Previous(k + 1)' = Previous(k + 1)
  PROVE  /\ line'[k].t = "head" =>
              /\ Follows(Previous(k)', line'[k])
              /\ line'[k].g <= Len(objs') /\ line'[k].n <= Len(objs'[line'[k].g])
         /\ line'[k].t = "done" => Whole(Previous(k + 1))'
BY DEF LineChain, Whole

\* The header that was sent last, as long as serve_track goes on.
LEMMA LastSentType ==
  ASSUME StreamTypeOK, LineShape, step \in {"track", "group", "object"}
  PROVE  LastSent.g \in Nat /\ LastSent.n \in Nat
<1> DEFINE k == IF step = "object" THEN Len(line) + 2 ELSE Len(line) + 1
<1>1. Len(line) \in Nat /\ (line # <<>> <=> Len(line) # 0) /\ k \in Nat /\ LastSent = Previous(k)
  BY StreamTypes DEF LastSent
<1>2. CASE k <= 2
  BY <1>1, <1>2, StreamTypes DEF Previous
<1>3. CASE ~(k <= 2)
  <2>1. k - 2 \in 1 .. Len(line) /\ line[k - 2].t = "head"
    <3>1. CASE step = "object"
      BY <1>1, <1>3, <3>1 DEF LineShape
    <3>2. CASE step # "object"
      <4>1. /\ Len(line) \in 1 .. Len(line) /\ Len(line) > 1 /\ line[Len(line)].t = "done"
            /\ k - 2 = Len(line) - 1 /\ k - 2 \in 1 .. Len(line)
        BY <1>1, <1>3, <3>2 DEF LineShape
      <4>2. QED
        BY <4>1, HeadersBefore
    <3>3. QED
      BY <3>1, <3>2
  <2>2. line[k - 2].g \in Nat /\ line[k - 2].n \in Nat
    BY <2>1, StreamTypes, StreamMsgs
  <2>3. QED
    BY <1>1, <1>3, <2>2 DEF Previous
<1>4. QED
  BY <1>2, <1>3

\* StreamReader::next.
LEMMA NextGroupInv == StreamInv /\ NextGroup => StreamInv'
<1> SUFFICES ASSUME StreamInv, NextGroup PROVE StreamInv'
  OBVIOUS
<1> USE DEF StreamInv, writeVars, farVars
<1>1. /\ Len(objs) \in Nat /\ at \in Nat /\ at < Len(objs) /\ Received.g \in Nat
      /\ step = "track" /\ step' = "group" /\ at' = Len(objs) /\ streamEpoch' = Len(objs) /\ index' = 0
      /\ UNCHANGED <<objs, open, poisoned, line, recv, far, farGroup>>
  BY StreamTypes DEF NextGroup, StreamTypeOK
<1>2. StreamTypeOK' /\ LineShape' /\ FarOK'
  BY <1>1 DEF StreamTypeOK, LineShape, FarOK
<1>3. \A k : Previous(k)' = Previous(k)
  BY <1>1 DEF Previous, Received
<1>4. LastSent' = LastSent /\ LastSent.g \in Nat
  BY <1>1, <1>3, LastSentType DEF LastSent
<1>5. LineChain'
  <2>1. \A k \in 1 .. Len(line) :
         /\ line'[k].t = "head" =>
              /\ Follows(Previous(k)', line'[k])
              /\ line'[k].g <= Len(objs') /\ line'[k].n <= Len(objs'[line'[k].g])
         /\ line'[k].t = "done" => Whole(Previous(k + 1))'
    BY <1>1, <1>3, ChainKept
  <2>2. LastSent.g < at'
    BY <1>1, <1>4 DEF LineChain
  <2>3. QED
    BY <1>1, <1>4, <2>1, <2>2 DEF LineChain, Follows
<1>6. QED
  BY <1>2, <1>5

\* StreamGroupReader::next at the end of a group.
LEMMA GroupEndsInv == StreamInv /\ GroupEnds => StreamInv'
<1> SUFFICES ASSUME StreamInv, GroupEnds PROVE StreamInv'
  OBVIOUS
<1> USE DEF StreamInv, writeVars, farVars
<1>1. /\ step = "group" /\ step' = "track"
      /\ UNCHANGED <<objs, open, poisoned, streamEpoch, at, index, line, recv, far, farGroup>>
  BY DEF GroupEnds
<1>2. StreamTypeOK' /\ LineShape' /\ FarOK'
  BY <1>1 DEF StreamTypeOK, LineShape, FarOK
<1>3. \A k : Previous(k)' = Previous(k)
  BY <1>1 DEF Previous, Received
<1>4. LastSent' = LastSent
  BY <1>1, <1>3 DEF LastSent
<1>5. \A k \in 1 .. Len(line) :
         /\ line'[k].t = "head" =>
              /\ Follows(Previous(k)', line'[k])
              /\ line'[k].g <= Len(objs') /\ line'[k].n <= Len(objs'[line'[k].g])
         /\ line'[k].t = "done" => Whole(Previous(k + 1))'
  BY <1>1, <1>3, ChainKept
<1>6. LineChain'
  BY <1>1, <1>4, <1>5 DEF LineChain, Follows
<1>7. QED
  BY <1>2, <1>6

\* StreamGroupReader::next: the header follows the last one.
LEMMA NextObjectInv == StreamInv /\ NextObject => StreamInv'
<1> SUFFICES ASSUME StreamInv, NextObject PROVE StreamInv'
  OBVIOUS
<1> USE DEF StreamInv, writeVars, farVars
<1> DEFINE m == HeaderOf(at, index + 2)
<1>1. /\ step = "group" /\ step' = "object" /\ index + 1 < Len(objs[at]) /\ index' = index + 1
      /\ line' = Append(line, m)
      /\ UNCHANGED <<objs, open, poisoned, streamEpoch, at, recv, far, farGroup>>
  BY DEF NextObject
<1>2. /\ at \in 1 .. Len(objs) /\ at \in GroupId /\ index \in Nat /\ Len(objs[at]) \in Nat
      /\ Len(objs) \in Nat
  BY <1>1, StreamTypes DEF StreamTypeOK
<1>3. m \in StreamMsg /\ m.t = "head" /\ m.g = at /\ m.n = index + 2
  BY <1>2, StreamMsgs
<1> HIDE DEF m
<1>4. /\ line' \in Seq(StreamMsg) /\ Len(line) \in Nat /\ Len(line') = Len(line) + 1
      /\ line' # <<>> /\ recv # "over"
      /\ \A k \in 1 .. Len(line) : line'[k] = line[k]
      /\ line'[Len(line) + 1] = m
      /\ line'[1].t \in IF recv = "payload" THEN {"done", "cut"} ELSE {"head", "fin", "cut"}
      /\ \A k \in 1 .. Len(line') :
           k + 1 <= Len(line') =>
             \/ line'[k].t = "head" /\ line'[k + 1].t \in {"done", "cut"}
             \/ line'[k].t = "done" /\ line'[k + 1].t \in {"head", "fin", "cut"}
      /\ \A k \in 1 .. (Len(line) + 2) : Previous(k)' = Previous(k)
  BY <1>1, <1>3, SendLine
<1>5. StreamTypeOK'
  BY <1>1, <1>2, <1>4 DEF StreamTypeOK
<1>6. LineShape'
  BY <1>1, <1>3, <1>4 DEF LineShape
<1>7. FarOK'
  BY <1>1 DEF FarOK
<1>8. LineChain'
  <2>1. ASSUME NEW k \in 1 .. Len(line)
        PROVE  /\ line'[k].t = "head" =>
                    /\ Follows(Previous(k)', line'[k])
                    /\ line'[k].g <= Len(objs') /\ line'[k].n <= Len(objs'[line'[k].g])
               /\ line'[k].t = "done" => Whole(Previous(k + 1))'
    <3>1. k \in 1 .. (Len(line) + 2) /\ k + 1 \in 1 .. (Len(line) + 2)
      BY <1>4
    <3>2. line'[k] = line[k] /\ Previous(k)' = Previous(k) /\ Previous(k + 1)' = Previous(k + 1)
      BY <1>4, <3>1
    <3>3. QED
      BY <1>1, <3>2, ChainKept
  <2>2. (LastSent.g = at /\ LastSent.n = index + 1) \/ (LastSent.g < at /\ index = 0)
    <3>1. /\ LastSent.g <= at /\ (LastSent.g = at => LastSent.n = index + 1)
          /\ (LastSent.g < at => index = 0)
      BY <1>1 DEF LineChain
    <3>2. LastSent.g \in Nat /\ at \in Nat
      BY <1>1, <1>2, LastSentType
    <3>3. QED
      BY <3>1, <3>2
  <2>3. ASSUME NEW k, k = Len(line) + 1 PROVE Follows(Previous(k)', line'[k])
    <3>1. LastSent = Previous(k) /\ Previous(k)' = Previous(k)
      BY <1>1, <1>4, <2>3 DEF LastSent
    <3>2. QED
      BY <1>2, <1>3, <1>4, <2>2, <2>3, <3>1 DEF Follows
  <2>4. LastSent' = m
    <3>1. LastSent' = line'[Len(line')]
      BY <1>1, <1>4 DEF LastSent, Previous
    <3>2. QED
      BY <1>4, <3>1
  <2>5. ASSUME NEW k \in 1 .. Len(line')
        PROVE  /\ line'[k].t = "head" =>
                    /\ Follows(Previous(k)', line'[k])
                    /\ line'[k].g <= Len(objs') /\ line'[k].n <= Len(objs'[line'[k].g])
               /\ line'[k].t = "done" => Whole(Previous(k + 1))'
    <3>1. CASE k \in 1 .. Len(line)
      BY <2>1, <3>1
    <3>2. CASE k = Len(line) + 1
      <4>1. line'[k].t = "head" /\ line'[k].g = at /\ line'[k].n = index + 2
        BY <1>3, <1>4, <3>2
      <4>2. QED
        BY <1>1, <1>2, <2>3, <3>2, <4>1
    <3>3. QED
      BY <1>4, <3>1, <3>2
  <2>6. LastSent'.g = at' /\ LastSent'.n = index' + 1
    BY <1>1, <1>2, <1>3, <2>4
  <2>7. QED
    BY <1>1, <1>2, <2>5, <2>6 DEF LineChain, Follows
<1>9. QED
  BY <1>5, <1>6, <1>7, <1>8

\* The stream ends: it is finished, or dropped.
LEMMA EndLineInv ==
  ASSUME StreamInv, NEW s \in {"cut", "fin"}, line' = Append(line, Body(s)),
         (step = "object" /\ s = "cut") \/ step \in {"track", "group"}, step' \in {"done", "failed"},
         UNCHANGED <<objs, open, streamEpoch, at, index, recv, far, farGroup>>,
         poisoned' \subseteq 1 .. Len(objs), \A g \in poisoned' : Len(objs[g]) >= 1
  PROVE  StreamInv'
<1> USE DEF StreamInv
<1> DEFINE m == Body(s)
<1>1. m \in StreamMsg /\ m.t = s
  BY StreamMsgs
<1> HIDE DEF m
<1>2. /\ line' \in Seq(StreamMsg) /\ Len(line) \in Nat /\ Len(line') = Len(line) + 1
      /\ line' # <<>> /\ recv # "over"
      /\ \A k \in 1 .. Len(line) : line'[k] = line[k]
      /\ line'[Len(line) + 1] = m
      /\ line'[1].t \in IF recv = "payload" THEN {"done", "cut"} ELSE {"head", "fin", "cut"}
      /\ \A k \in 1 .. Len(line') :
           k + 1 <= Len(line') =>
             \/ line'[k].t = "head" /\ line'[k + 1].t \in {"done", "cut"}
             \/ line'[k].t = "done" /\ line'[k + 1].t \in {"head", "fin", "cut"}
      /\ \A k \in 1 .. (Len(line) + 2) : Previous(k)' = Previous(k)
  <2>1. line' = Append(line, m)
    BY DEF m
  <2>2. QED
    BY <1>1, <2>1, SendLine
<1>3. StreamTypeOK'
  BY <1>2 DEF StreamTypeOK
<1>4. LineShape'
  BY <1>2 DEF LineShape
<1>5. FarOK'
  BY DEF FarOK
<1>6. ASSUME NEW k \in 1 .. Len(line')
      PROVE  /\ line'[k].t = "head" =>
                  /\ Follows(Previous(k)', line'[k])
                  /\ line'[k].g <= Len(objs') /\ line'[k].n <= Len(objs'[line'[k].g])
             /\ line'[k].t = "done" => Whole(Previous(k + 1))'
  <2>1. CASE k \in 1 .. Len(line)
    <3>1. k \in 1 .. (Len(line) + 2) /\ k + 1 \in 1 .. (Len(line) + 2)
      BY <1>2, <2>1
    <3>2. line'[k] = line[k] /\ Previous(k)' = Previous(k) /\ Previous(k + 1)' = Previous(k + 1)
      BY <1>2, <2>1, <3>1
    <3>3. QED
      BY <2>1, <3>2, ChainKept
  <2>2. CASE k = Len(line) + 1
    BY <1>1, <1>2, <2>2
  <2>3. QED
    BY <1>2, <2>1, <2>2
<1>7. LineChain'
  BY <1>6 DEF LineChain, Follows
<1>8. QED
  BY <1>3, <1>4, <1>5, <1>7

\* A whole payload is sent behind its header.
LEMMA SendDoneInv ==
  ASSUME StreamInv, step = "object", objs[at][index + 1] = "done", step' = "group",
         line' = Append(line, Body("done")),
         UNCHANGED <<objs, open, poisoned, streamEpoch, at, index, recv, far, farGroup>>
  PROVE  StreamInv'
<1> USE DEF StreamInv
<1> DEFINE m == Body("done")
<1>1. m \in StreamMsg /\ m.t = "done"
  BY StreamMsgs
<1> HIDE DEF m
<1>2. /\ line' \in Seq(StreamMsg) /\ Len(line) \in Nat /\ Len(line') = Len(line) + 1
      /\ line' # <<>> /\ recv # "over"
      /\ \A k \in 1 .. Len(line) : line'[k] = line[k]
      /\ line'[Len(line) + 1] = m
      /\ line'[1].t \in IF recv = "payload" THEN {"done", "cut"} ELSE {"head", "fin", "cut"}
      /\ \A k \in 1 .. Len(line') :
           k + 1 <= Len(line') =>
             \/ line'[k].t = "head" /\ line'[k + 1].t \in {"done", "cut"}
             \/ line'[k].t = "done" /\ line'[k + 1].t \in {"head", "fin", "cut"}
      /\ \A k \in 1 .. (Len(line) + 2) : Previous(k)' = Previous(k)
  <2>1. line' = Append(line, m)
    BY DEF m
  <2>2. QED
    BY <1>1, <2>1, SendLine
<1>3. StreamTypeOK'
  BY <1>2 DEF StreamTypeOK
<1>4. LineShape'
  BY <1>1, <1>2 DEF LineShape
<1>5. FarOK'
  BY DEF FarOK
<1>6. LastSent.g = at /\ LastSent.n = index + 1
  <2>1. LastSent.g \in Nat /\ at \in Nat
    BY LastSentType, StreamTypes
  <2>2. QED
    BY <2>1 DEF LineChain
<1>7. Whole(LastSent)
  <2>1. at \in 1 .. Len(objs) /\ index \in Nat
    BY StreamTypes DEF StreamTypeOK
  <2>2. index + 1 <= Len(objs[at])
    <3>1. CASE line = <<>>
      <4>1. LastSent = Received /\ recv = "payload"
        BY <3>1, StreamTypes DEF LastSent, Previous, LineShape
      <4>2. farGroup = at /\ far[farGroup] # <<>> /\ farGroup \in GroupId
        BY <1>6, <2>1, <4>1, StreamTypes DEF FarOK
      <4>3. Len(far[farGroup]) \in 1 .. Len(far[farGroup]) /\ index = Len(far[farGroup])
        BY <1>6, <2>1, <4>1, <4>2, StreamTypes DEF Received
      <4>4. QED
        BY <4>2, <4>3 DEF FarOK
    <3>2. CASE line # <<>>
      <4>1. /\ Len(line) \in 1 .. Len(line) /\ line[Len(line)].t = "head"
            /\ LastSent = line[Len(line)]
        BY <1>2, <3>2, StreamTypes DEF LastSent, Previous, LineShape
      <4>2. QED
        BY <1>6, <4>1 DEF LineChain
    <3>3. QED
      BY <3>1, <3>2
  <2>3. Len(objs[at]) \in Nat
    BY <2>1, StreamTypes
  <2>4. QED
    BY <1>6, <2>1, <2>2, <2>3 DEF Whole
<1>8. ASSUME NEW k \in 1 .. Len(line')
      PROVE  /\ line'[k].t = "head" =>
                  /\ Follows(Previous(k)', line'[k])
                  /\ line'[k].g <= Len(objs') /\ line'[k].n <= Len(objs'[line'[k].g])
             /\ line'[k].t = "done" => Whole(Previous(k + 1))'
  <2>1. CASE k \in 1 .. Len(line)
    <3>1. k \in 1 .. (Len(line) + 2) /\ k + 1 \in 1 .. (Len(line) + 2)
      BY <1>2, <2>1
    <3>2. line'[k] = line[k] /\ Previous(k)' = Previous(k) /\ Previous(k + 1)' = Previous(k + 1)
      BY <1>2, <2>1, <3>1
    <3>3. QED
      BY <2>1, <3>2, ChainKept
  <2>2. CASE k = Len(line) + 1
    <3>1. Previous(k + 1)' = Previous(k + 1) /\ LastSent = Previous(k + 1)
      <4>1. k + 1 \in 1 .. (Len(line) + 2) /\ k + 1 = Len(line) + 2
        BY <1>2, <2>2
      <4>2. QED
        BY <1>2, <4>1 DEF LastSent
    <3>2. Whole(Previous(k + 1))'
      BY <1>7, <3>1 DEF Whole
    <3>3. QED
      BY <1>1, <1>2, <2>2, <3>2
  <2>3. QED
    BY <1>2, <2>1, <2>2
<1>9. LastSent' = LastSent
  <2>1. ASSUME NEW k, k = Len(line) + 2 PROVE LastSent' = LastSent
    <3>1. LastSent = Previous(k) /\ Previous(k)' = Previous(k)
      BY <1>2, <2>1 DEF LastSent
    <3>2. LastSent' = Previous(k)'
      BY <1>2, <2>1 DEF LastSent, Previous
    <3>3. QED
      BY <3>1, <3>2
  <2>2. QED
    BY <2>1
<1>10. LineChain'
  <2>1. at \in Nat
    BY StreamTypes
  <2>2. QED
    BY <1>6, <1>8, <1>9, <2>1 DEF LineChain, Follows
<1>11. QED
  BY <1>3, <1>4, <1>5, <1>10

\* Every step of serve_track.
LEMMA ServeTrackInv ==
  ASSUME StreamInv, NextGroup \/ NoMoreGroups \/ NextObject \/ Panic \/ GroupEnds \/ SendPayload
  PROVE  StreamInv'
<1> USE DEF StreamInv, writeVars, farVars
<1>1. CASE NoMoreGroups
  <2>1. /\ step = "track" /\ step' = "done" /\ line' = Append(line, Body("fin"))
        /\ UNCHANGED <<objs, open, poisoned, streamEpoch, at, index, recv, far, farGroup>>
    BY <1>1 DEF NoMoreGroups
  <2>2. poisoned' \subseteq 1 .. Len(objs) /\ \A g \in poisoned' : Len(objs[g]) >= 1
    BY <2>1 DEF StreamTypeOK, FarOK
  <2>3. QED
    BY <2>1, <2>2, EndLineInv
<1>2. CASE Panic
  <2>1. /\ step = "group" /\ step' = "failed" /\ line' = Append(line, Body("cut"))
        /\ poisoned' = poisoned \cup {at} /\ index + 1 = Len(objs[at])
        /\ UNCHANGED <<objs, open, streamEpoch, at, index, recv, far, farGroup>>
    BY <1>2 DEF Panic
  <2>2. at \in 1 .. Len(objs) /\ Len(objs[at]) >= 1
    <3>1. at \in 1 .. Len(objs) /\ index \in Nat
      BY <2>1, StreamTypes DEF StreamTypeOK
    <3>2. QED
      BY <2>1, <3>1
  <2>3. poisoned' \subseteq 1 .. Len(objs) /\ \A g \in poisoned' : Len(objs[g]) >= 1
    BY <2>1, <2>2 DEF StreamTypeOK, FarOK
  <2>4. QED
    BY <2>1, <2>3, EndLineInv
<1>3. CASE SendPayload
  <2>1. /\ step = "object" /\ UNCHANGED <<objs, open, poisoned, streamEpoch, at, index, recv, far, farGroup>>
        /\ \/ objs[at][index + 1] = "done" /\ step' = "group" /\ line' = Append(line, Body("done"))
           \/ step' = "failed" /\ line' = Append(line, Body("cut"))
    BY <1>3 DEF SendPayload
  <2>2. poisoned' \subseteq 1 .. Len(objs) /\ \A g \in poisoned' : Len(objs[g]) >= 1
    BY <2>1 DEF StreamTypeOK, FarOK
  <2>3. QED
    BY <2>1, <2>2, EndLineInv, SendDoneInv
<1>4. QED
  BY <1>1, <1>2, <1>3, NextGroupInv, NextObjectInv, GroupEndsInv

\* Where the last message, the next one and the one after it are on a line that is shortened.
LEMMA Places ==
  \A n \in Nat \ {0} : /\ n \in 1 .. (n + 1) /\ n + 1 \in 1 .. (n + 1)
                       /\ (n - 1) + 1 = n /\ (n - 1) + 2 = n + 1 /\ (n + 1) + 1 = n + 2
OBVIOUS

\* A line of two messages or more has a second one.
LEMMA SecondPlace == \A n \in Nat : n # 0 /\ n # 1 => 1 \in 1 .. n /\ 1 + 1 <= n
OBVIOUS


\* A header or a whole payload is taken off the line.
LEMMA TakeLine ==
  ASSUME StreamTypeOK, LineShape, LineChain, line # <<>>, line' = Tail(line),
         line[1].t \in {"head", "done"}, UNCHANGED <<objs, step, at, index>>,
         recv' = IF line[1].t = "head" THEN "payload" ELSE "object",
         Received'.g = IF line[1].t = "head" THEN line[1].g ELSE Received.g,
         Received'.n = IF line[1].t = "head" THEN line[1].n ELSE Received.n
  PROVE  LineShape' /\ LineChain'
<1>1. /\ Len(line) \in Nat \ {0} /\ Len(line') = Len(line) - 1
      /\ \A k \in 1 .. (Len(line) - 1) : k + 1 \in 1 .. Len(line) /\ line'[k] = line[k + 1]
      /\ line' = <<>> <=> Len(line) = 1
  <2>1. line \in Seq(StreamMsg)
    BY DEF StreamTypeOK
  <2>2. line' \in Seq(StreamMsg) /\ Len(line') = Len(line) - 1 /\ Len(line) \in Nat \ {0}
        /\ \A k \in 1 .. (Len(line) - 1) : line'[k] = line[k + 1]
    BY <2>1, TailFacts
  <2>3. line' = <<>> <=> Len(line') = 0
    BY <2>2, EmptyFacts
  <2>4. QED
    BY <2>2, <2>3
<1>2. ASSUME NEW k \in 1 .. (Len(line) - 1)
      PROVE  \/ line[k].t = "head" /\ line[k + 1].t \in {"done", "cut"}
             \/ line[k].t = "done" /\ line[k + 1].t \in {"head", "fin", "cut"}
  <2>1. k \in 1 .. Len(line) /\ k + 1 <= Len(line)
    BY <1>1
  <2>2. QED
    BY <2>1 DEF LineShape
<1>3. LineShape'
  <2>1. line' # <<>> => line'[1].t \in IF recv' = "payload" THEN {"done", "cut"}
                                       ELSE {"head", "fin", "cut"}
    <3>1. line' # <<>> => 1 \in 1 .. (Len(line) - 1) /\ line'[1] = line[1 + 1]
      BY <1>1
    <3>2. QED
      BY <1>2, <3>1
  <2>2. ASSUME NEW k \in 1 .. Len(line'), k + 1 <= Len(line')
        PROVE  \/ line'[k].t = "head" /\ line'[k + 1].t \in {"done", "cut"}
               \/ line'[k].t = "done" /\ line'[k + 1].t \in {"head", "fin", "cut"}
    <3>1. /\ k \in 1 .. (Len(line) - 1) /\ k + 1 \in 1 .. (Len(line) - 1)
          /\ line'[k] = line[k + 1] /\ line'[k + 1] = line[(k + 1) + 1]
      BY <1>1, <2>2
    <3>2. QED
      BY <1>2, <3>1
  <2>3. line' # <<>> => line'[Len(line')] = line[Len(line)]
    <3>1. line' # <<>> => Len(line') \in 1 .. (Len(line) - 1) /\ Len(line') + 1 = Len(line)
      BY <1>1
    <3>2. QED
      BY <1>1, <3>1
  <2>4. line' = <<>> => line[Len(line)] = line[1]
    BY <1>1
  <2>5. /\ step = "object" => IF line' = <<>> THEN recv' = "payload" ELSE line'[Len(line')].t = "head"
        /\ step \in {"track", "group"} =>
             IF line' = <<>> THEN recv' = "object" ELSE line'[Len(line')].t = "done"
    BY <2>3, <2>4 DEF LineShape
  <2>6. recv' # "over"
    OBVIOUS
  <2>7. QED
    BY <2>1, <2>2, <2>5, <2>6 DEF LineShape
<1>4. ASSUME NEW k \in 1 .. (Len(line) + 1),
             k = 1 => line[1].t = "done", k = 2 => line[1].t = "head"
      PROVE  Previous(k)'.g = Previous(k + 1).g /\ Previous(k)'.n = Previous(k + 1).n
  <2>1. CASE k = 1
    BY <1>4, <2>1 DEF Previous
  <2>2. CASE k = 2
    BY <1>4, <2>2 DEF Previous
  <2>3. CASE k > 2
    <3>1. /\ ~(k <= 2) /\ ~(k + 1 <= 2) /\ k - 2 \in 1 .. (Len(line) - 1) /\ (k - 2) + 1 = (k + 1) - 2
      BY <1>1, <2>3
    <3>2. line'[k - 2] = line[(k + 1) - 2]
      BY <1>1, <3>1
    <3>3. QED
      BY <3>1, <3>2 DEF Previous
  <2>4. QED
    BY <1>1, <2>1, <2>2, <2>3
<1>5. ASSUME NEW k \in 1 .. Len(line')
      PROVE  /\ line'[k].t = "head" =>
                  /\ Follows(Previous(k)', line'[k])
                  /\ line'[k].g <= Len(objs') /\ line'[k].n <= Len(objs'[line'[k].g])
             /\ line'[k].t = "done" => Whole(Previous(k + 1))'
  <2>1. /\ k \in 1 .. (Len(line) - 1) /\ k + 1 \in 1 .. Len(line) /\ line'[k] = line[k + 1]
        /\ k \in 1 .. (Len(line) + 1) /\ k + 1 \in 1 .. (Len(line) + 1)
    BY <1>1
  <2>2. ASSUME line[k + 1].t = "head"
        PROVE  Previous(k)'.g = Previous(k + 1).g /\ Previous(k)'.n = Previous(k + 1).n
    <3>1. k = 1 => line[1].t = "done"
      BY <1>2, <2>1, <2>2
    <3>2. k = 2 => line[1].t = "head"
      <4>1. k = 2 => 2 + 1 > 2 /\ (2 + 1) - 2 = 1
        OBVIOUS
      <4>2. QED
        BY <2>1, <2>2, <4>1, HeadersBefore
    <3>3. QED
      BY <1>4, <2>1, <3>1, <3>2
  <2>3. ASSUME line[k + 1].t = "done"
        PROVE  Previous(k + 1)'.g = Previous((k + 1) + 1).g /\ Previous(k + 1)'.n = Previous((k + 1) + 1).n
    <3>1. k + 1 # 1 /\ (k + 1 = 2 => line[1].t = "head")
      BY <1>2, <2>1, <2>3
    <3>2. QED
      BY <1>4, <2>1, <3>1
  <2>4. line[k + 1].t = "done" => Whole(Previous(k + 1))'
    <3>1. line[k + 1].t = "done" => Whole(Previous((k + 1) + 1))
      BY <2>1 DEF LineChain
    <3>2. QED
      BY <2>3, <3>1 DEF Whole
  <2>5. line[k + 1].t = "head" =>
          /\ Follows(Previous(k)', line[k + 1])
          /\ line[k + 1].g <= Len(objs) /\ line[k + 1].n <= Len(objs[line[k + 1].g])
    BY <2>1, <2>2 DEF LineChain, Follows
  <2>6. QED
    BY <2>1, <2>4, <2>5
<1>6. ASSUME step \in {"track", "group", "object"}
      PROVE  LastSent'.g = LastSent.g /\ LastSent'.n = LastSent.n
  <2>1. ASSUME NEW k, k = IF step = "object" THEN Len(line) + 1 ELSE Len(line)
        PROVE  LastSent'.g = LastSent.g /\ LastSent'.n = LastSent.n
    <3>0. /\ Len(line) \in Nat \ {0} /\ Len(line') = Len(line) - 1 /\ step' = step
      BY <1>1
    <3>1. /\ k \in 1 .. (Len(line) + 1)
          /\ k + 1 = IF step = "object" THEN Len(line) + 2 ELSE Len(line) + 1
      <4>1. CASE step = "object"
        BY <2>1, <3>0, <4>1, Places
      <4>2. CASE step # "object"
        BY <2>1, <3>0, <4>2, Places
      <4>3. QED
        BY <4>1, <4>2
    <3>2. LastSent = Previous(k + 1)
      BY <3>1 DEF LastSent
    <3>3. LastSent' = Previous(k)'
      <4>1. k = IF step' = "object" THEN Len(line') + 2 ELSE Len(line') + 1
        <5>1. CASE step = "object"
          BY <2>1, <3>0, <5>1, Places
        <5>2. CASE step # "object"
          BY <2>1, <3>0, <5>2, Places
        <5>3. QED
          BY <5>1, <5>2
      <4>2. QED
        BY <4>1 DEF LastSent, Previous
    <3>4. k = 1 => line[1].t = "done"
      BY <1>1, <1>6, <2>1 DEF LineShape
    <3>5. k = 2 => line[1].t = "head"
      <4>1. CASE step = "object"
        BY <1>1, <2>1, <4>1 DEF LineShape
      <4>2. CASE step # "object"
        <5>1. k = 2 => Len(line) = 2 /\ line[Len(line)].t = "done"
          BY <1>1, <1>6, <2>1, <4>2 DEF LineShape
        <5>2. k = 2 => 1 \in 1 .. (Len(line) - 1) /\ 1 + 1 = 2
          BY <1>1, <5>1
        <5>3. QED
          BY <1>2, <5>1, <5>2
      <4>3. QED
        BY <4>1, <4>2
    <3>6. QED
      BY <1>4, <3>1, <3>2, <3>3, <3>4, <3>5
  <2>2. QED
    BY <2>1
<1>7. LineChain'
  BY <1>5, <1>6 DEF LineChain, Follows
<1>8. QED
  BY <1>3, <1>7

\* recv_track, an object's header: the next object of its group.
LEMMA RecvHeadInv == StreamInv /\ RecvHead => StreamInv'
<1> SUFFICES ASSUME StreamInv, RecvHead PROVE StreamInv'
  OBVIOUS
<1> USE DEF StreamInv, writeVars, serveVars
<1> DEFINE m == line[1]
<1>1. /\ line \in Seq(StreamMsg) /\ line # <<>> /\ Head(line) = line[1] /\ 1 \in 1 .. Len(line)
      /\ line' \in Seq(StreamMsg)
  BY TailFacts DEF RecvHead, StreamTypeOK
<1>2. /\ recv = "object" /\ recv' = "payload" /\ line' = Tail(line) /\ m.t = "head"
      /\ farGroup' = m.g
      /\ far' = [far EXCEPT ![m.g] =
                   Append(IF farGroup = m.g THEN far[m.g] ELSE <<>>, [n |-> m.n, s |-> "open"])]
      /\ UNCHANGED <<objs, open, poisoned, step, streamEpoch, at, index>>
  BY <1>1 DEF RecvHead, SameGroup
<1>3. m.g \in GroupId /\ m.g \in Nat \ {0} /\ m.n \in Nat
  BY <1>1, <1>2, StreamTypes, StreamMsgs
<1>4. Follows(Received, m) /\ m.g <= Len(objs) /\ m.n <= Len(objs[m.g])
  BY <1>1, <1>2 DEF LineChain, Previous
<1> HIDE DEF m
<1>5. /\ farGroup \in Nat /\ Received.g = farGroup /\ farGroup <= m.g
      /\ far[m.g] \in Seq(FarObject) /\ Len(far[m.g]) \in Nat
  BY <1>3, <1>4, StreamTypes DEF Follows
<1>6. (farGroup # m.g => far[m.g] = <<>>) /\ m.n = Len(far[m.g]) + 2
  <2>1. CASE farGroup = m.g
    <3>1. Received.n = Len(far[m.g]) + 1 /\ m.n = Received.n + 1
      BY <1>3, <1>4, <1>5, <2>1 DEF Received, Follows
    <3>2. QED
      BY <1>5, <2>1, <3>1
  <2>2. CASE farGroup # m.g
    <3>1. m.g > farGroup /\ m.n = 2
      BY <1>3, <1>4, <1>5, <2>2 DEF Follows
    <3>2. far[m.g] = <<>>
      BY <1>3, <3>1 DEF FarOK
    <3>3. QED
      BY <3>1, <3>2
  <2>3. QED
    BY <2>1, <2>2
<1> DEFINE o == [n |-> m.n, s |-> "open"]
           new == Append(far[m.g], o)
<1>7. /\ new \in Seq(FarObject) /\ Len(new) = Len(far[m.g]) + 1
      /\ \A i \in 1 .. Len(far[m.g]) : new[i] = far[m.g][i]
      /\ new[Len(far[m.g]) + 1].n = m.n /\ new[Len(far[m.g]) + 1].s = "open"
  <2>1. o \in FarObject /\ o.n = m.n /\ o.s = "open"
    BY <1>3 DEF FarObject, StreamObject
  <2> HIDE DEF o
  <2>2. QED
    BY <1>5, <2>1, AppendFacts
<1>8. far' = [far EXCEPT ![m.g] = new]
  <2>1. Append(IF farGroup = m.g THEN far[m.g] ELSE <<>>, o) = new
    BY <1>6
  <2>2. QED
    BY <1>2, <2>1
<1> HIDE DEF new, o
<1>9. /\ far' \in [GroupId -> Seq(FarObject)] /\ far'[m.g] = new
      /\ \A g \in GroupId : g # m.g => far'[g] = far[g]
  BY <1>3, <1>7, <1>8 DEF StreamTypeOK
<1>10. StreamTypeOK'
  <2>1. farGroup' \in 0 .. MaxGroup
    BY <1>2, <1>3, StreamAssumption DEF GroupId
  <2>2. QED
    BY <1>1, <1>2, <1>9, <2>1 DEF StreamTypeOK
<1>11. Received'.g = m.g /\ Received'.n = m.n
  BY <1>2, <1>3, <1>5, <1>6, <1>7, <1>9 DEF Received
<1>12. LineShape' /\ LineChain'
  BY <1>1, <1>2, <1>11, TakeLine DEF m
<1>13. FarOK'
  <2>1. ASSUME NEW g \in GroupId, g > farGroup' PROVE far'[g] = <<>>
    BY <1>2, <1>3, <1>5, <1>9, <2>1, StreamTypes DEF FarOK
  <2>2. ASSUME NEW g \in GroupId, NEW i \in 1 .. Len(far'[g])
        PROVE  /\ far'[g][i].n = i + 1
               /\ g <= Len(objs) /\ i + 1 <= Len(objs[g])
               /\ far'[g][i].s = "done" => objs[g][i + 1] = "done"
    <3>1. CASE g # m.g
      BY <1>9, <3>1 DEF FarOK
    <3>2. CASE g = m.g /\ i \in 1 .. Len(far[m.g])
      <4>1. far'[g][i] = far[m.g][i]
        BY <1>7, <1>9, <3>2
      <4>2. /\ far[m.g][i].n = i + 1
            /\ m.g <= Len(objs) /\ i + 1 <= Len(objs[m.g])
            /\ far[m.g][i].s = "done" => objs[m.g][i + 1] = "done"
        BY <1>3, <3>2 DEF FarOK
      <4>3. QED
        BY <3>2, <4>1, <4>2
    <3>3. CASE g = m.g /\ i = Len(far[m.g]) + 1
      BY <1>4, <1>5, <1>6, <1>7, <1>9, <3>3
    <3>4. QED
      BY <1>5, <1>7, <1>9, <3>1, <3>2, <3>3
  <2>3. farGroup' # 0 /\ far'[farGroup'] # <<>>
    BY <1>2, <1>3, <1>5, <1>7, <1>9
  <2>4. QED
    BY <1>2, <2>1, <2>2, <2>3 DEF FarOK
<1>14. QED
  BY <1>10, <1>12, <1>13

\* What comes last on the line is all there is on it.
LEMMA LastOnLine ==
  ASSUME StreamTypeOK, LineShape, line # <<>>, line[1].t \in {"cut", "fin"}
  PROVE  Tail(line) = <<>> /\ step \in {"done", "failed"}
<1>1. Len(line) \in Nat /\ Len(line) # 0 /\ line \in Seq(StreamMsg)
  BY StreamTypes DEF StreamTypeOK
<1>2. Len(line) = 1
  <2>1. ASSUME Len(line) # 1 PROVE FALSE
    <3>1. 1 \in 1 .. Len(line) /\ 1 + 1 <= Len(line)
      <4>1. Len(line) \in Nat /\ Len(line) # 0 /\ Len(line) # 1
        BY <1>1, <2>1
      <4>2. QED
        BY <4>1, SecondPlace
    <3>2. QED
      BY <3>1 DEF LineShape
  <2>2. QED
    BY <2>1
<1>3. Tail(line) = <<>>
  <2>1. Tail(line) \in Seq(StreamMsg) /\ Len(Tail(line)) = 0
    BY <1>1, <1>2, TailFacts
  <2>2. QED
    BY <2>1, EmptyFacts
<1>4. QED
  BY <1>2, <1>3 DEF LineShape, StreamTypeOK

\* recv_track, the payload of the last object, or the end in its place.
LEMMA RecvPayloadInv == StreamInv /\ RecvPayload => StreamInv'
<1> SUFFICES ASSUME StreamInv, RecvPayload PROVE StreamInv'
  OBVIOUS
<1> USE DEF StreamInv, writeVars, serveVars
<1> DEFINE f == far[farGroup]
           l == Len(far[farGroup])
           v == IF line[1].t = "done" THEN "done" ELSE "short"
           new == [f EXCEPT ![l] = [f[l] EXCEPT !.s = v]]
<1>1. /\ line \in Seq(StreamMsg) /\ line # <<>> /\ Head(line) = line[1] /\ 1 \in 1 .. Len(line)
      /\ line' \in Seq(StreamMsg)
  BY TailFacts DEF RecvPayload, StreamTypeOK
<1>2. /\ recv = "payload" /\ line' = Tail(line) /\ line[1].t \in {"done", "cut"}
      /\ far' = [far EXCEPT ![farGroup] = new]
      /\ recv' = IF line[1].t = "done" THEN "object" ELSE "over"
      /\ UNCHANGED <<objs, open, poisoned, step, streamEpoch, at, index, farGroup>>
  BY <1>1 DEF RecvPayload, LineShape
<1>3. farGroup \in GroupId /\ f \in Seq(FarObject) /\ l \in Nat \ {0} /\ farGroup \in Nat \ {0}
  BY <1>2, StreamTypes DEF FarOK
<1>4. v \in StreamObject /\ v \in {"done", "short"}
  BY DEF StreamObject
<1> HIDE DEF v
<1>5. /\ new \in Seq(FarObject) /\ Len(new) = l
      /\ \A i \in 1 .. l : new[i].n = f[i].n
      /\ \A i \in 1 .. l : i # l => new[i] = f[i]
      /\ new[l].s = v
  <2> DEFINE o == [f[l] EXCEPT !.s = v]
  <2>1. l \in 1 .. l /\ f[l] \in FarObject
    BY <1>3
  <2>2. o \in FarObject /\ o.n = f[l].n /\ o.s = v
    BY <1>4, <2>1 DEF FarObject
  <2> HIDE DEF o
  <2>3. new = [f EXCEPT ![l] = o]
    BY DEF o
  <2> HIDE DEF new
  <2>4. new \in Seq(FarObject) /\ Len(new) = l /\ new[l] = o /\ \A i \in 1 .. l : i # l => new[i] = f[i]
    BY <1>3, <2>1, <2>2, <2>3
  <2>5. QED
    BY <2>2, <2>4
<1> HIDE DEF new
<1>6. /\ far' \in [GroupId -> Seq(FarObject)] /\ far'[farGroup] = new
      /\ \A g \in GroupId : g # farGroup => far'[g] = far[g]
  BY <1>2, <1>3, <1>5 DEF StreamTypeOK
<1>7. StreamTypeOK'
  BY <1>1, <1>2, <1>6 DEF StreamTypeOK
<1>8. Received' = Received
  BY <1>2, <1>5, <1>6 DEF Received
<1>9. LineShape' /\ LineChain'
  <2>1. CASE line[1].t = "done"
    <3>1. recv' = "object" /\ Received'.g = Received.g /\ Received'.n = Received.n
      BY <1>2, <1>8, <2>1
    <3>2. QED
      BY <1>1, <1>2, <2>1, <3>1, TakeLine
  <2>2. CASE line[1].t = "cut"
    <3>1. line' = <<>> /\ step \in {"done", "failed"} /\ recv' = "over"
      BY <1>1, <1>2, <2>2, LastOnLine
    <3>2. QED
      BY <1>2, <3>1 DEF LineShape, LineChain
  <2>3. QED
    BY <1>2, <2>1, <2>2
<1>10. FarOK'
  <2>1. v = "done" => objs[farGroup][l + 1] = "done"
    <3>1. line[1].t = "done" => Whole(Previous(1 + 1))
      BY <1>1 DEF LineChain
    <3>2. Previous(1 + 1) = Received /\ Received.g = farGroup /\ Received.n = l + 1
      BY <1>3 DEF Previous, Received
    <3>3. QED
      BY <3>1, <3>2 DEF v, Whole
  <2>2. ASSUME NEW g \in GroupId, g > farGroup PROVE far'[g] = <<>>
    BY <1>3, <1>6, <2>2, StreamTypes DEF FarOK
  <2>3. ASSUME NEW g \in GroupId, NEW i \in 1 .. Len(far'[g])
        PROVE  /\ far'[g][i].n = i + 1
               /\ g <= Len(objs) /\ i + 1 <= Len(objs[g])
               /\ far'[g][i].s = "done" => objs[g][i + 1] = "done"
    <3>1. CASE g # farGroup
      BY <1>6, <3>1 DEF FarOK
    <3>2. CASE g = farGroup
      <4>1. i \in 1 .. l /\ far'[g][i] = new[i] /\ far[g] = f
        BY <1>5, <1>6, <3>2
      <4>2. /\ f[i].n = i + 1 /\ g <= Len(objs) /\ i + 1 <= Len(objs[g])
            /\ f[i].s = "done" => objs[g][i + 1] = "done"
        BY <4>1 DEF FarOK
      <4>3. QED
        BY <1>5, <2>1, <3>2, <4>1, <4>2
    <3>3. QED
      BY <3>1, <3>2
  <2>4. far'[farGroup] # <<>>
    BY <1>3, <1>5, <1>6
  <2>5. QED
    BY <1>2, <1>3, <2>2, <2>3, <2>4 DEF FarOK
<1>11. QED
  BY <1>7, <1>9, <1>10

\* recv_track, the end of the stream.
LEMMA RecvEndInv == StreamInv /\ RecvEnd => StreamInv'
<1> SUFFICES ASSUME StreamInv, RecvEnd PROVE StreamInv'
  OBVIOUS
<1> USE DEF StreamInv, writeVars, serveVars
<1>1. /\ line \in Seq(StreamMsg) /\ line # <<>> /\ Head(line) = line[1] /\ line' \in Seq(StreamMsg)
  BY TailFacts DEF RecvEnd, StreamTypeOK
<1>2. /\ line' = <<>> /\ step \in {"done", "failed"} /\ recv' = "over"
      /\ UNCHANGED <<objs, open, poisoned, step, streamEpoch, at, index, far, farGroup>>
  BY <1>1, LastOnLine DEF RecvEnd
<1>3. StreamTypeOK' /\ LineShape' /\ LineChain' /\ FarOK'
  BY <1>1, <1>2 DEF StreamTypeOK, LineShape, LineChain, FarOK
<1>4. QED
  BY <1>3

\* What is received in a step keeps all objects but the last whole.
LEMMA FarWholeInv ==
  ASSUME StreamInv, FarWhole, StreamNext
  PROVE  FarWhole'
<1> USE DEF StreamInv
<1>1. CASE RecvHead
  <2>0. /\ line \in Seq(StreamMsg) /\ line # <<>> /\ Head(line).t = "head"
    BY <1>1 DEF RecvHead, StreamTypeOK
  <2>1. PICK m : m = Head(line) /\ m \in StreamMsg /\ m.t = "head"
    <3>1. Head(line) \in StreamMsg
      BY <2>0
    <3>2. QED
      BY <2>0, <3>1
  <2> DEFINE old == IF SameGroup(m.g) THEN far[m.g] ELSE <<>>
             new == [n |-> m.n, s |-> "open"]
  <2>2. /\ m.g \in GroupId /\ farGroup' = m.g /\ recv' = "payload" /\ recv = "object"
        /\ far' = [far EXCEPT ![m.g] = Append(old, new)] /\ far \in [GroupId -> Seq(FarObject)]
    BY <1>1, <2>1, StreamMsgs DEF RecvHead, StreamTypeOK
  <2>3. \A g \in GroupId : \A i \in 1 .. Len(far[g]) : far[g][i].s = "done"
    BY <2>2 DEF FarWhole
  <2>4. /\ old \in Seq(FarObject) /\ Len(old) \in Nat
        /\ \A i \in 1 .. Len(old) : old[i].s = "done"
    BY <2>2, <2>3
  <2>5. \A g \in GroupId \ {m.g} : far'[g] = far[g]
    BY <2>2
  <2> HIDE DEF old, new
  <2>6. /\ far'[m.g] = Append(old, new) /\ Len(far'[m.g]) = Len(old) + 1
        /\ \A i \in 1 .. Len(old) : far'[m.g][i] = old[i]
    BY <2>2, <2>4
  <2>7. QED
    BY <2>2, <2>3, <2>4, <2>5, <2>6 DEF FarWhole
<1>2. CASE RecvPayload
  <2> DEFINE f == far[farGroup]
             last == Len(far[farGroup])
             end == IF Head(line).t = "done" THEN "done" ELSE "short"
             new == [f EXCEPT ![last] = [f[last] EXCEPT !.s = end]]
  <2>1. /\ recv = "payload" /\ farGroup' = farGroup
        /\ far' = [far EXCEPT ![farGroup] = new]
        /\ recv' = "object" <=> end = "done"
    BY <1>2 DEF RecvPayload
  <2>2. /\ far \in [GroupId -> Seq(FarObject)] /\ farGroup \in GroupId /\ f \in Seq(FarObject)
        /\ last \in Nat /\ last \in 1 .. last
    BY <2>1, StreamTypes DEF StreamTypeOK, FarOK
  <2> HIDE DEF end
  <2>3. /\ Len(new) = last /\ new[last].s = end
        /\ \A i \in 1 .. last : i # last => new[i] = f[i]
    <3>1. f[last] \in FarObject
      BY <2>2
    <3>2. QED
      BY <2>2, <3>1 DEF FarObject
  <2> HIDE DEF new
  <2>4. far'[farGroup] = new /\ \A g \in GroupId \ {farGroup} : far'[g] = far[g]
    BY <2>1, <2>2
  <2>5. QED
    BY <2>1, <2>2, <2>3, <2>4 DEF FarWhole
<1>3. CASE ~RecvHead /\ ~RecvPayload
  <2>1. far' = far /\ farGroup' = farGroup /\ (recv' = recv \/ recv' = "over")
    BY <1>3 DEF StreamNext, AppendGroup, DropStream, CreateObject, WriteObject, DropGroup, NextGroup,
                NoMoreGroups, NextObject, Panic, GroupEnds, SendPayload, RecvEnd, farVars
  <2>2. QED
    BY <2>1 DEF FarWhole
<1>4. QED
  BY <1>1, <1>2, <1>3

(***************************************************************************)
(* However a track in stream mode is written while serve_track and         *)
(* recv_track run, the subscriber has of each group the publisher's        *)
(* objects from the second on, in order and without a gap, whole only if   *)
(* they were written whole, and all whole but for the last.                *)
(***************************************************************************)
THEOREM StreamIsFaithful == StreamSpec => []StreamFaithful
<1>1. StreamInit => StreamInv /\ FarWhole
  <2> SUFFICES ASSUME StreamInit PROVE StreamInv /\ FarWhole
    OBVIOUS
  <2>1. StreamTypeOK
    BY StreamAssumption DEF StreamInit, StreamTypeOK, GroupId
  <2>2. LineShape /\ FarOK
    BY StreamAssumption DEF StreamInit, LineShape, FarOK, GroupId
  <2>3. LineChain
    BY DEF StreamInit, LineChain, LastSent, Previous, Received
  <2>4. FarWhole
    BY DEF StreamInit, FarWhole
  <2>5. QED
    BY <2>1, <2>2, <2>3, <2>4 DEF StreamInv
<1>2. StreamInv /\ FarWhole /\ [StreamNext]_streamVars => (StreamInv /\ FarWhole)'
  <2> SUFFICES ASSUME StreamInv, FarWhole, [StreamNext]_streamVars PROVE (StreamInv /\ FarWhole)'
    OBVIOUS
  <2>1. CASE UNCHANGED streamVars
    BY <2>1 DEF streamVars, StreamInv, StreamTypeOK, LineShape, LineChain, FarOK, FarWhole, LastSent,
                Previous, Received, Follows, Whole
  <2>2. CASE StreamNext
    BY <2>2, WriterStepsInv, ServeTrackInv, RecvHeadInv, RecvPayloadInv, RecvEndInv, FarWholeInv
       DEF StreamNext
  <2>3. QED
    BY <2>1, <2>2
<1>3. StreamInv /\ FarWhole => StreamFaithful
  <2> SUFFICES ASSUME StreamInv, FarWhole, NEW g \in GroupId, NEW i \in DOMAIN far[g]
               PROVE  /\ far[g][i].n = i + 1
                      /\ far[g][i].s = "done" => objs[g][i + 1] = "done"
                      /\ far[g][i].s # "done" => g = farGroup /\ i = Len(far[g])
    BY DEF StreamFaithful
  <2>1. DOMAIN far[g] = 1 .. Len(far[g])
    BY StreamTypes DEF StreamInv
  <2>2. QED
    BY <2>1 DEF StreamInv, FarOK, FarWhole
<1>4. QED
  BY <1>1, <1>2, <1>3, PTL DEF StreamSpec

-----------------------------------------------------------------------------
(* The listing *)

\* The names an application may come to list.
ReadNames == Names \cup {EmptyName}

Delta == [op : {"+", "-"}, n : ReadNames]
Snapshot == [op : {"*"}, set : SUBSET Names]
Subgroup == Seq(Delta \cup Snapshot)

ListingTypeOK ==
  /\ served \in [Announcer -> {"none", "listed", "ignored", "refused"}]
  /\ current \subseteq Names
  /\ groups \in Seq(Subgroup)
  /\ gen \in Nat /\ from \in Nat /\ from <= gen /\ sub \in Nat /\ pos \in Nat
  /\ known \subseteq ReadNames /\ deltas \subseteq Delta
  /\ view \subseteq ReadNames /\ touched \subseteq Names

\* A subgroup is a snapshot and the deltas after it; a name was listed once there is a track.
GroupOK(group) ==
  /\ Len(group) >= 1 /\ group[1] \in Snapshot
  /\ \A i \in 1 .. Len(group) : i # 1 => group[i] \in Delta /\ group[i].n \in Names

GroupsOK ==
  /\ \A k \in 1 .. Len(groups) : GroupOK(groups[k])
  /\ gen = 0 => current = {} /\ \A s \in Announcer : served[s] # "listed"
  /\ gen # 0 => groups # <<>>

\* Whether the first p objects of a subgroup list a name.
Holds(group, p, n) ==
  \/ n \in group[1].set /\ \A i \in 2 .. p : group[i].n # n
  \/ \E i \in 2 .. p : group[i] = Add(n) /\ \A j \in (i + 1) .. p : group[j].n # n

\* ... and whether a reader of them lists it: the empty name comes with the snapshot.
Reads(group, p, n) ==
  Holds(group, p, n) \/ (n = EmptyName /\ \A i \in 2 .. p : group[i].n # n)

\* What is published is what is listed.
Published ==
  gen # 0 => \A n \in Names :
               n \in current <=> Holds(groups[Len(groups)], Len(groups[Len(groups)]), n)

\* What the application will list when it was given the deltas that wait.
Expected(n) == Add(n) \in deltas \/ (n \in view /\ Rem(n) \notin deltas)

\* A reader follows the objects it has read, but for the names in deltas before its snapshot.
ReaderOK ==
  /\ from = 0 => known = {} /\ deltas = {} /\ view = {} /\ touched = {}
  /\ (from = gen /\ from # 0) =>
       /\ sub \in 1 .. Len(groups) /\ pos <= Len(groups[sub])
       /\ deltas # {} => pos = 1
       /\ \A n \in ReadNames : Add(n) \notin deltas \/ Rem(n) \notin deltas
       /\ pos # 0 => known = ReadSnapshot(groups[sub][1])
       /\ \A n \in ReadNames \ touched :
            Expected(n) <=> IF pos = 0 THEN n \in known ELSE Reads(groups[sub], pos, n)

ListingInv == ListingTypeOK /\ GroupsOK /\ Published /\ ReaderOK

\* The three kinds of objects of a listing's track.
LEMMA ListingObjects ==
  /\ \A n \in ReadNames : /\ Add(n) \in Delta /\ Add(n).op = "+" /\ Add(n).n = n
                          /\ Rem(n) \in Delta /\ Rem(n).op = "-" /\ Rem(n).n = n
  /\ \A d \in Delta : /\ d.n \in ReadNames /\ d.op \in {"+", "-"}
                      /\ \A n : d = Add(n) <=> d.op = "+" /\ d.n = n
                      /\ \A n : d = Rem(n) <=> d.op = "-" /\ d.n = n
  /\ \A set \in SUBSET Names : Full(set) \in Snapshot /\ Full(set).set = set
  /\ \A o \in Snapshot : o.set \subseteq Names
<1>1. \A d \in Delta : d = [op |-> d.op, n |-> d.n] /\ d.n \in ReadNames /\ d.op \in {"+", "-"}
  BY DEF Delta
<1>2. \A n \in ReadNames : /\ Add(n) \in Delta /\ Add(n).op = "+" /\ Add(n).n = n
                           /\ Rem(n) \in Delta /\ Rem(n).op = "-" /\ Rem(n).n = n
  BY DEF Delta, Add, Rem
<1>3. ASSUME NEW d \in Delta, NEW n
      PROVE  (d = Add(n) <=> d.op = "+" /\ d.n = n) /\ (d = Rem(n) <=> d.op = "-" /\ d.n = n)
  BY <1>1 DEF Add, Rem
<1>4. \A set \in SUBSET Names : Full(set) \in Snapshot /\ Full(set).set = set
  BY DEF Full, Snapshot
<1>5. \A o \in Snapshot : o.set \subseteq Names
  BY DEF Snapshot
<1>6. QED
  BY <1>1, <1>2, <1>3, <1>4, <1>5

\* A snapshot lists its names.
LEMMA HoldsFirst ==
  ASSUME NEW group, NEW n
  PROVE  Holds(group, 1, n) <=> n \in group[1].set
BY DEF Holds

\* A delta decides about its own name and leaves the others alone.
LEMMA HoldsNext ==
  ASSUME NEW group, NEW p \in Nat \ {0}, NEW n, group[p + 1] \in Delta
  PROVE  Holds(group, p + 1, n) <=>
           IF group[p + 1].n = n THEN group[p + 1].op = "+" ELSE Holds(group, p, n)
<1>1. /\ p + 1 \in 2 .. (p + 1) /\ (\A i \in 2 .. (p + 1) : i \in 2 .. p \/ i = p + 1)
      /\ (\A i \in 2 .. p : i \in 2 .. (p + 1) /\ p + 1 \in (i + 1) .. (p + 1))
      /\ (\A i \in 2 .. p : \A j \in (i + 1) .. (p + 1) : j \in (i + 1) .. p \/ j = p + 1)
      /\ (\A i \in 2 .. p : \A j \in (i + 1) .. p : j \in (i + 1) .. (p + 1))
      /\ (\A j \in ((p + 1) + 1) .. (p + 1) : FALSE)
  OBVIOUS
<1>2. group[p + 1] = Add(n) <=> group[p + 1].op = "+" /\ group[p + 1].n = n
  BY ListingObjects
<1>3. CASE group[p + 1].n = n
  BY <1>1, <1>2, <1>3 DEF Holds
<1>4. CASE group[p + 1].n # n
  BY <1>1, <1>2, <1>4 DEF Holds
<1>5. QED
  BY <1>3, <1>4

\* What was read of a subgroup lists the same whatever is written after it.
LEMMA HoldsKept ==
  ASSUME NEW f, NEW g, NEW p \in Nat \ {0}, NEW n, \A i \in 1 .. p : f[i] = g[i]
  PROVE  Holds(f, p, n) <=> Holds(g, p, n)
<1>1. 1 \in 1 .. p /\ \A i \in 2 .. p : i \in 1 .. p /\ \A j \in (i + 1) .. p : j \in 1 .. p
  OBVIOUS
<1>2. QED
  BY <1>1 DEF Holds

\* The same for what a reader lists: a snapshot lists the empty name too, ...
LEMMA ReadsFirst ==
  ASSUME NEW group, NEW n
  PROVE  Reads(group, 1, n) <=> n \in ReadSnapshot(group[1])
BY HoldsFirst DEF Reads, ReadSnapshot

\* ... a delta decides about its own name, ...
LEMMA ReadsNext ==
  ASSUME NEW group, NEW p \in Nat \ {0}, NEW n, group[p + 1] \in Delta
  PROVE  Reads(group, p + 1, n) <=>
           IF group[p + 1].n = n THEN group[p + 1].op = "+" ELSE Reads(group, p, n)
<1>1. Holds(group, p + 1, n) <=>
        IF group[p + 1].n = n THEN group[p + 1].op = "+" ELSE Holds(group, p, n)
  BY HoldsNext
<1>2. (\A i \in 2 .. (p + 1) : group[i].n # n) <=>
        group[p + 1].n # n /\ \A i \in 2 .. p : group[i].n # n
  <2>1. p + 1 \in 2 .. (p + 1) /\ (\A i \in 2 .. (p + 1) : i \in 2 .. p \/ i = p + 1)
        /\ (\A i \in 2 .. p : i \in 2 .. (p + 1))
    OBVIOUS
  <2>2. QED
    BY <2>1
<1>3. QED
  BY <1>1, <1>2 DEF Reads

\* ... and what is written later changes nothing.
LEMMA ReadsKept ==
  ASSUME NEW f, NEW g, NEW p \in Nat \ {0}, NEW n, \A i \in 1 .. p : f[i] = g[i]
  PROVE  Reads(f, p, n) <=> Reads(g, p, n)
<1>1. \A i \in 2 .. p : i \in 1 .. p
  OBVIOUS
<1>2. QED
  BY <1>1, HoldsKept DEF Reads

\* A reader is not disturbed by what is written after what it has read.
LEMMA ReaderKept ==
  ASSUME ListingInv, UNCHANGED readerVars, UNCHANGED gen, Len(groups') \in Nat,
         Len(groups') >= Len(groups),
         \A k \in 1 .. Len(groups) :
           /\ Len(groups'[k]) \in Nat /\ Len(groups'[k]) >= Len(groups[k])
           /\ \A i \in 1 .. Len(groups[k]) : groups'[k][i] = groups[k][i]
  PROVE  ReaderOK'
<1> USE DEF ListingInv, readerVars
<1>1. Len(groups) \in Nat /\ pos \in Nat /\ \A k \in 1 .. Len(groups) : Len(groups[k]) \in Nat
  BY DEF ListingTypeOK, Subgroup
<1>2. from = 0 => known = {} /\ deltas = {} /\ view = {} /\ touched = {}
  BY DEF ReaderOK
<1>3. ASSUME from = gen, from # 0
      PROVE  /\ sub \in 1 .. Len(groups') /\ pos <= Len(groups'[sub])
             /\ deltas # {} => pos = 1
             /\ \A n \in ReadNames : Add(n) \notin deltas \/ Rem(n) \notin deltas
             /\ pos # 0 => known = ReadSnapshot(groups'[sub][1])
             /\ \A n \in ReadNames \ touched :
                  Expected(n) <=> IF pos = 0 THEN n \in known ELSE Reads(groups'[sub], pos, n)
  <2>1. /\ sub \in 1 .. Len(groups) /\ pos <= Len(groups[sub])
        /\ deltas # {} => pos = 1
        /\ \A n \in ReadNames : Add(n) \notin deltas \/ Rem(n) \notin deltas
        /\ pos # 0 => known = ReadSnapshot(groups[sub][1])
        /\ \A n \in ReadNames \ touched :
             Expected(n) <=> IF pos = 0 THEN n \in known ELSE Reads(groups[sub], pos, n)
    BY <1>3 DEF ReaderOK
  <2>2. sub \in 1 .. Len(groups') /\ pos <= Len(groups'[sub])
    BY <1>1, <2>1
  <2>3. ASSUME pos # 0
        PROVE  /\ groups'[sub][1] = groups[sub][1]
               /\ \A i \in 1 .. pos : groups'[sub][i] = groups[sub][i]
    BY <1>1, <2>1, <2>3
  <2>4. ASSUME NEW n, pos # 0 PROVE Reads(groups'[sub], pos, n) <=> Reads(groups[sub], pos, n)
    BY <1>1, <2>3, <2>4, ReadsKept
  <2>5. QED
    BY <2>1, <2>2, <2>3, <2>4
<1>4. QED
  BY <1>2, <1>3 DEF ReaderOK, Expected

\* ListingWriter::insert and remove: a delta after the last object or a snapshot in a new
\* subgroup, and either lists what is current.
LEMMA PublishInv ==
  ASSUME ListingInv, gen # 0, NEW set \in SUBSET Names, NEW d \in Delta, d.n \in Names,
         Publish(set, d),
         \A n \in Names : n \in set <=> IF d.n = n THEN d.op = "+" ELSE n \in current,
         UNCHANGED <<gen, readerVars>>,
         served' \in [Announcer -> {"none", "listed", "ignored", "refused"}]
  PROVE  ListingInv'
<1> USE DEF ListingInv
<1> DEFINE l == Len(groups)
           last == groups[l]
           more == Append(last, d)
<1>1. /\ groups # <<>> /\ groups \in Seq(Subgroup) /\ l \in Nat \ {0} /\ l \in 1 .. l
      /\ \A k \in 1 .. l : groups[k] \in Subgroup /\ Len(groups[k]) \in Nat
  BY DEF ListingTypeOK, GroupsOK, Subgroup
<1>2. \A k \in 1 .. l : GroupOK(groups[k])
  BY DEF GroupsOK
<1>3. /\ current' = set
      /\ \/ groups' = [groups EXCEPT ![l] = more]
         \/ groups' = Append(groups, <<Full(set)>>)
  BY <1>1 DEF Publish
<1> DEFINE Grown == /\ groups' \in Seq(Subgroup) /\ Len(groups') \in Nat /\ Len(groups') >= l
                    /\ \A k \in 1 .. Len(groups') : GroupOK(groups'[k])
                    /\ \A k \in 1 .. l :
                         /\ Len(groups'[k]) \in Nat /\ Len(groups'[k]) >= Len(groups[k])
                         /\ \A i \in 1 .. Len(groups[k]) : groups'[k][i] = groups[k][i]
                    /\ \A n \in Names :
                         n \in set <=> Holds(groups'[Len(groups')], Len(groups'[Len(groups')]), n)
<1>4. ASSUME groups' = [groups EXCEPT ![l] = more] PROVE Grown
  <2>1. last \in Subgroup /\ Len(last) \in Nat \ {0} /\ GroupOK(last)
    BY <1>1, <1>2 DEF GroupOK
  <2>2. /\ more \in Subgroup /\ Len(more) = Len(last) + 1 /\ more[Len(last) + 1] = d
        /\ \A i \in 1 .. Len(last) : more[i] = last[i]
    <3>1. d \in Delta \cup Snapshot
      OBVIOUS
    <3>2. QED
      BY <2>1, <3>1, AppendFacts DEF Subgroup
  <2> HIDE DEF more
  <2>3. /\ groups' \in Seq(Subgroup) /\ Len(groups') = l /\ groups'[l] = more
        /\ \A k \in 1 .. l : k # l => groups'[k] = groups[k]
    BY <1>1, <1>4, <2>2
  <2> HIDE DEF last
  <2>4. GroupOK(more)
    <3>1. Len(more) >= 1 /\ more[1] = last[1]
      BY <2>1, <2>2
    <3>2. ASSUME NEW i \in 1 .. Len(more), i # 1 PROVE more[i] \in Delta /\ more[i].n \in Names
      <4>1. CASE i = Len(last) + 1
        BY <2>2, <4>1
      <4>2. CASE i \in 1 .. Len(last)
        BY <2>1, <2>2, <3>2, <4>2 DEF GroupOK
      <4>3. QED
        BY <2>1, <2>2, <4>1, <4>2
    <3>3. QED
      BY <2>1, <3>1, <3>2 DEF GroupOK
  <2>5. \A k \in 1 .. Len(groups') : GroupOK(groups'[k])
    BY <1>2, <2>3, <2>4
  <2>6. ASSUME NEW k \in 1 .. l
        PROVE  /\ Len(groups'[k]) \in Nat /\ Len(groups'[k]) >= Len(groups[k])
               /\ \A i \in 1 .. Len(groups[k]) : groups'[k][i] = groups[k][i]
    <3>1. CASE k = l
      BY <2>1, <2>2, <2>3, <3>1 DEF last
    <3>2. CASE k # l
      BY <1>1, <2>3, <3>2
    <3>3. QED
      BY <3>1, <3>2
  <2>7. ASSUME NEW n \in Names PROVE n \in set <=> Holds(more, Len(more), n)
    <3>1. n \in current <=> Holds(last, Len(last), n)
      BY DEF Published, last
    <3>2. Holds(more, Len(last), n) <=> Holds(last, Len(last), n)
      BY <2>1, <2>2, HoldsKept
    <3>3. Holds(more, Len(last) + 1, n) <=> IF d.n = n THEN d.op = "+" ELSE Holds(more, Len(last), n)
      BY <2>1, <2>2, HoldsNext
    <3>4. QED
      BY <2>2, <3>1, <3>2, <3>3
  <2>8. \A n \in Names : n \in set <=> Holds(groups'[Len(groups')], Len(groups'[Len(groups')]), n)
    BY <2>3, <2>7
  <2>9. QED
    BY <1>1, <2>3, <2>5, <2>6, <2>8
<1>5. ASSUME groups' = Append(groups, <<Full(set)>>) PROVE Grown
  <2> DEFINE fresh == <<Full(set)>>
  <2>1. fresh \in Subgroup /\ Len(fresh) = 1 /\ fresh[1] = Full(set) /\ Full(set) \in Snapshot
        /\ Full(set).set = set
    BY ListingObjects DEF Subgroup
  <2> HIDE DEF fresh
  <2>2. /\ groups' \in Seq(Subgroup) /\ Len(groups') = l + 1 /\ groups'[l + 1] = fresh
        /\ \A k \in 1 .. l : groups'[k] = groups[k]
    BY <1>1, <1>5, <2>1, AppendFacts DEF fresh
  <2>3. GroupOK(fresh)
    BY <2>1 DEF GroupOK
  <2>4. ASSUME NEW n \in Names PROVE n \in set <=> Holds(fresh, 1, n)
    BY <2>1, HoldsFirst
  <2>5. \A k \in 1 .. Len(groups') : GroupOK(groups'[k])
    BY <1>1, <1>2, <2>2, <2>3
  <2>6. \A n \in Names : n \in set <=> Holds(groups'[Len(groups')], Len(groups'[Len(groups')]), n)
    BY <2>1, <2>2, <2>4
  <2>7. \A k \in 1 .. l : /\ Len(groups'[k]) \in Nat /\ Len(groups'[k]) >= Len(groups[k])
                         /\ \A i \in 1 .. Len(groups[k]) : groups'[k][i] = groups[k][i]
    BY <1>1, <2>2
  <2>8. QED
    BY <1>1, <2>2, <2>5, <2>6, <2>7
<1>6. Grown
  BY <1>3, <1>4, <1>5
<1>7. ListingTypeOK'
  BY <1>3, <1>6 DEF ListingTypeOK, readerVars
<1>8. GroupsOK'
  <2>1. groups' # <<>>
    BY <1>1, <1>6
  <2>2. QED
    BY <1>6, <2>1 DEF GroupsOK
<1>9. Published'
  BY <1>3, <1>6 DEF Published
<1>10. ReaderOK'
  BY <1>6, ReaderKept
<1>11. QED
  BY <1>7, <1>8, <1>9, <1>10

\* serve_announce: ignored, refused, the first name of a new track, or one more name.
LEMMA AnnouncedInv ==
  ASSUME ListingInv, NEW s \in Announcer, Announced(s)
  PROVE  ListingInv'
<1> USE DEF ListingInv
<1> DEFINE n == Base[s]
<1>1. n \in Names /\ n = Base[s]
  BY DEF Names
<1> HIDE DEF n
<1>2. CASE s \notin Inside \/ n \in current
  <2>1. /\ served' \in [Announcer -> {"none", "listed", "ignored", "refused"}]
        /\ \A t \in Announcer : served'[t] = "listed" => served[t] = "listed"
        /\ UNCHANGED <<current, groups, gen, ops, readerVars>>
    <3>1. CASE s \notin Inside
      BY <1>1, <3>1 DEF Announced, ListingTypeOK
    <3>2. CASE s \in Inside /\ n \in current
      BY <1>1, <3>2 DEF Announced, ListingTypeOK
    <3>3. QED
      BY <1>2, <3>1, <3>2
  <2>2. ListingTypeOK' /\ GroupsOK' /\ Published'
    BY <2>1 DEF ListingTypeOK, GroupsOK, Published, readerVars
  <2>3. ReaderOK'
    BY <2>1 DEF ReaderOK, Expected, readerVars
  <2>4. QED
    BY <2>2, <2>3
<1>3. CASE s \in Inside /\ n \notin current /\ current = {}
  <2>1. /\ served' = [served EXCEPT ![s] = "listed"] /\ groups' = <<<<Full({n})>>>>
        /\ current' = {n} /\ gen' = gen + 1 /\ UNCHANGED readerVars
    BY <1>1, <1>3 DEF Announced
  <2> DEFINE fresh == <<Full({n})>>
  <2>2. /\ fresh \in Subgroup /\ Len(fresh) = 1 /\ fresh[1] = Full({n}) /\ Full({n}) \in Snapshot
        /\ Full({n}).set = {n}
    BY <1>1, ListingObjects DEF Subgroup
  <2>3. groups' = <<fresh>>
    BY <2>1
  <2> HIDE DEF fresh
  <2>4. groups' \in Seq(Subgroup) /\ Len(groups') = 1 /\ groups'[1] = fresh /\ groups' # <<>>
    BY <2>2, <2>3
  <2>5. gen' # 0 /\ gen' \in Nat /\ from' <= gen' /\ from' # gen'
    BY <2>1 DEF ListingTypeOK, readerVars
  <2>6. ListingTypeOK'
    <3>1. served' \in [Announcer -> {"none", "listed", "ignored", "refused"}] /\ current' \subseteq Names
      BY <1>1, <2>1 DEF ListingTypeOK
    <3>2. QED
      BY <2>1, <2>4, <2>5, <3>1 DEF ListingTypeOK, readerVars
  <2>7. GroupsOK'
    <3>1. GroupOK(fresh)
      BY <2>2 DEF GroupOK
    <3>2. QED
      BY <2>4, <2>5, <3>1 DEF GroupsOK
  <2>8. Published'
    <3>1. \A m \in Names : m \in {n} <=> Holds(fresh, 1, m)
      BY <2>2, HoldsFirst
    <3>2. QED
      BY <2>1, <2>2, <2>4, <3>1 DEF Published
  <2>9. ReaderOK'
    BY <2>1, <2>5 DEF ReaderOK, readerVars
  <2>10. QED
    BY <2>6, <2>7, <2>8, <2>9
<1>4. CASE s \in Inside /\ n \notin current /\ current # {}
  <2>1. /\ served' = [served EXCEPT ![s] = "listed"] /\ UNCHANGED <<gen, readerVars>>
        /\ Publish(current \cup {n}, Add(n))
    BY <1>1, <1>4 DEF Announced
  <2>2. /\ served' \in [Announcer -> {"none", "listed", "ignored", "refused"}]
        /\ current \cup {n} \in SUBSET Names /\ gen # 0
    BY <1>1, <1>4, <2>1 DEF ListingTypeOK, GroupsOK
  <2>3. Add(n) \in Delta /\ Add(n).n = n /\ Add(n).op = "+"
    BY <1>1, ListingObjects DEF ReadNames
  <2>4. \A m \in Names : m \in current \cup {n} <=> IF Add(n).n = m THEN Add(n).op = "+" ELSE m \in current
    BY <2>3
  <2>5. QED
    BY <1>1, <2>1, <2>2, <2>3, <2>4, PublishInv
<1>5. QED
  BY <1>2, <1>3, <1>4

\* The announce ends: its name is removed and the removal is published.
LEMMA UnlistedInv ==
  ASSUME ListingInv, NEW s \in Announcer, Unlisted(s)
  PROVE  ListingInv'
<1> USE DEF ListingInv
<1> DEFINE n == Base[s]
<1>1. n \in Names
  BY DEF Names
<1>2. /\ served[s] = "listed" /\ served' = [served EXCEPT ![s] = "none"]
      /\ Publish(current \ {n}, Rem(n)) /\ UNCHANGED <<gen, readerVars>>
  BY DEF Unlisted, Removal
<1> HIDE DEF n
<1>3. /\ served' \in [Announcer -> {"none", "listed", "ignored", "refused"}]
      /\ current \ {n} \in SUBSET Names /\ gen # 0
  BY <1>1, <1>2 DEF ListingTypeOK, GroupsOK
<1>4. Rem(n) \in Delta /\ Rem(n).n = n /\ Rem(n).op = "-"
  BY <1>1, ListingObjects DEF ReadNames
<1>5. \A m \in Names : m \in current \ {n} <=> IF Rem(n).n = m THEN Rem(n).op = "+" ELSE m \in current
  BY <1>4
<1>6. QED
  BY <1>1, <1>2, <1>3, <1>4, <1>5, PublishInv

\* The reader's steps leave what is published alone.
LEMMA PublishedKept ==
  ASSUME ListingInv, UNCHANGED <<served, current, groups, gen>>
  PROVE  GroupsOK' /\ Published'
BY DEF ListingInv, GroupsOK, Published

\* A subscription, and the end of the track.
LEMMA FollowInv ==
  ASSUME ListingInv, Follow \/ EndOfTrack
  PROVE  ListingInv'
<1> USE DEF ListingInv
<1>1. UNCHANGED <<served, current, groups, gen>>
  BY DEF Follow, EndOfTrack
<1>2. Len(groups) \in Nat /\ (gen # 0 => Len(groups) # 0)
  BY DEF ListingTypeOK, GroupsOK
<1>3. CASE Follow
  <2>1. /\ from = 0 /\ gen # 0 /\ from' = gen /\ sub' = Len(groups) /\ pos' = 0
        /\ known' = {} /\ deltas' = {} /\ view' = {} /\ touched' = {}
    BY <1>3 DEF Follow, ReaderOK, GroupsOK
  <2>2. ListingTypeOK'
    BY <1>1, <1>2, <2>1 DEF ListingTypeOK
  <2>3. sub' \in 1 .. Len(groups') /\ pos' <= Len(groups'[sub'])
    <3>1. Len(groups[Len(groups)]) \in Nat
      BY <1>2, <2>1 DEF ListingTypeOK, Subgroup
    <3>2. QED
      BY <1>1, <1>2, <2>1, <3>1
  <2>4. ReaderOK'
    BY <1>1, <2>1, <2>3 DEF ReaderOK, Expected
  <2>5. QED
    BY <1>1, <2>2, <2>4, PublishedKept
<1>4. CASE EndOfTrack
  <2>1. ListingTypeOK'
    BY <1>1, <1>4 DEF ListingTypeOK, EndOfTrack
  <2>2. ReaderOK'
    BY <1>4 DEF ReaderOK, EndOfTrack
  <2>3. QED
    BY <1>1, <2>1, <2>2, PublishedKept
<1>5. QED
  BY <1>3, <1>4

\* A delta that waited is handed out: the application will list the same as before.
LEMMA DeliverInv ==
  ASSUME ListingInv, Deliver
  PROVE  ListingInv'
<1> USE DEF ListingInv
<1>1. UNCHANGED <<served, current, groups, gen, from, sub, pos, known, touched>>
  BY DEF Deliver
<1>2. PICK d \in deltas :
        /\ view' = IF d.op = "+" THEN view \cup {d.n} ELSE view \ {d.n}
        /\ deltas' = deltas \ {d}
  BY DEF Deliver, Apply
<1>3. d \in Delta /\ deltas' \subseteq deltas
  BY <1>2 DEF ListingTypeOK
<1>4. ListingTypeOK'
  <2>1. d.n \in ReadNames
    BY <1>3, ListingObjects
  <2>2. view' \subseteq ReadNames
    BY <1>2, <2>1 DEF ListingTypeOK
  <2>3. QED
    BY <1>1, <1>3, <2>2 DEF ListingTypeOK
<1>5. from # 0
  BY <1>2 DEF ReaderOK
<1>6. ASSUME from = gen
      PROVE  /\ sub \in 1 .. Len(groups) /\ pos <= Len(groups[sub])
             /\ deltas # {} => pos = 1
             /\ \A n \in ReadNames : Add(n) \notin deltas \/ Rem(n) \notin deltas
             /\ pos # 0 => known = ReadSnapshot(groups[sub][1])
             /\ \A n \in ReadNames \ touched :
                  Expected(n) <=> IF pos = 0 THEN n \in known ELSE Reads(groups[sub], pos, n)
  BY <1>5, <1>6 DEF ReaderOK
<1>7. ASSUME from = gen, NEW n \in ReadNames PROVE Expected(n)' <=> Expected(n)
  <2>1. /\ d = Add(n) <=> d.op = "+" /\ d.n = n
        /\ d = Rem(n) <=> d.op = "-" /\ d.n = n
        /\ d.op = "+" \/ d.op = "-"
    BY <1>3, ListingObjects
  <2>2. Add(n) \notin deltas \/ Rem(n) \notin deltas
    BY <1>6, <1>7
  <2>3. CASE d.n = n /\ d.op = "+"
    <3>1. Add(n) \in deltas /\ n \in view' /\ Rem(n) \notin deltas'
      BY <1>2, <2>1, <2>2, <2>3
    <3>2. QED
      BY <3>1 DEF Expected
  <2>4. CASE d.n = n /\ d.op = "-"
    <3>1. Add(n) \notin deltas /\ Rem(n) \in deltas /\ n \notin view' /\ Add(n) \notin deltas'
      BY <1>2, <2>1, <2>2, <2>4
    <3>2. QED
      BY <3>1 DEF Expected
  <2>5. CASE d.n # n
    <3>1. /\ Add(n) \in deltas' <=> Add(n) \in deltas
          /\ Rem(n) \in deltas' <=> Rem(n) \in deltas
          /\ n \in view' <=> n \in view
      BY <1>2, <2>1, <2>5
    <3>2. QED
      BY <3>1 DEF Expected
  <2>6. QED
    BY <2>1, <2>3, <2>4, <2>5
<1>8. ReaderOK'
  <2>1. deltas' # {} => deltas # {}
    BY <1>2
  <2>2. ASSUME from = gen, NEW n \in ReadNames PROVE Add(n) \notin deltas' \/ Rem(n) \notin deltas'
    BY <1>3, <1>6, <2>2
  <2>3. QED
    BY <1>1, <1>5, <1>6, <1>7, <2>1, <2>2 DEF ReaderOK
<1>9. QED
  BY <1>1, <1>4, <1>8, PublishedKept

\* A newer subgroup: what no delta of the old one named is listed as its snapshot said.
LEMMA NextSubgroupInv ==
  ASSUME ListingInv, NextSubgroup
  PROVE  ListingInv'
<1> USE DEF ListingInv
<1>1. /\ UNCHANGED <<served, current, groups, gen, from, known, deltas, view>>
      /\ from = gen /\ from # 0 /\ deltas = {} /\ sub' = Len(groups) /\ pos' = 0
      /\ sub < Len(groups) /\ touched' = touched \cup ReadDeltas(sub, pos)
  BY DEF NextSubgroup
<1>2. /\ Len(groups) \in Nat \ {0} /\ sub \in Nat /\ pos \in Nat
      /\ \A k \in 1 .. Len(groups) : Len(groups[k]) \in Nat
  BY <1>1 DEF ListingTypeOK, Subgroup
<1>3. ListingTypeOK'
  <2>1. sub \in 1 .. Len(groups) /\ pos <= Len(groups[sub])
    BY <1>1 DEF ReaderOK
  <2>2. ASSUME NEW i \in 2 .. pos PROVE groups[sub][i].n \in Names
    BY <1>2, <2>1, <2>2 DEF GroupsOK, GroupOK
  <2>3. ReadDeltas(sub, pos) \subseteq Names
    BY <2>2 DEF ReadDeltas
  <2>4. QED
    BY <1>1, <1>2, <2>3 DEF ListingTypeOK
<1>4. ASSUME NEW n \in ReadNames \ touched' PROVE n \in view <=> n \in known
  <2>1. /\ n \in ReadNames \ touched /\ (pos # 0 => known = ReadSnapshot(groups[sub][1]))
        /\ Expected(n) <=> IF pos = 0 THEN n \in known ELSE Reads(groups[sub], pos, n)
    BY <1>1, <1>4 DEF ReaderOK
  <2>2. Expected(n) <=> n \in view
    BY <1>1 DEF Expected
  <2>3. ASSUME NEW i \in 2 .. pos PROVE groups[sub][i].n # n /\ groups[sub][i] # Add(n)
    <3>1. groups[sub][i].n # n
      BY <1>1, <1>4, <2>3 DEF ReadDeltas
    <3>2. QED
      BY <1>4, <3>1, ListingObjects
  <2>4. Reads(groups[sub], pos, n) <=> n \in ReadSnapshot(groups[sub][1])
    BY <2>3 DEF Holds, Reads, ReadSnapshot
  <2>5. QED
    BY <2>1, <2>2, <2>4
<1>5. ASSUME NEW n PROVE Expected(n)' <=> n \in view
  BY <1>1 DEF Expected
<1>6. sub' \in 1 .. Len(groups') /\ pos' <= Len(groups'[sub'])
  <2>1. Len(groups) \in 1 .. Len(groups) /\ Len(groups[Len(groups)]) \in Nat
    BY <1>2
  <2>2. QED
    BY <1>1, <2>1
<1>7. ReaderOK'
  BY <1>1, <1>4, <1>5, <1>6 DEF ReaderOK
<1>8. QED
  BY <1>1, <1>3, <1>7, PublishedKept

\* The next object: a snapshot becomes the deltas against the last one, a delta is passed on.
LEMMA ReadObjectInv ==
  ASSUME ListingInv, ReadObject
  PROVE  ListingInv'
<1> USE DEF ListingInv
<1> DEFINE group == groups[sub]
           o == groups[sub][pos + 1]
           names == ReadSnapshot(o)
<1>1. /\ UNCHANGED <<served, current, groups, gen, from, sub, touched>>
      /\ from = gen /\ from # 0 /\ deltas = {} /\ pos < Len(group) /\ pos' = pos + 1
      /\ pos = 0 => /\ known' = names /\ view' = view
                    /\ deltas' = {Add(n) : n \in names \ known} \cup {Rem(n) : n \in known \ names}
      /\ pos # 0 => /\ view' = IF o.op = "+" THEN view \cup {o.n} ELSE view \ {o.n}
                    /\ UNCHANGED <<known, deltas>>
  BY DEF ReadObject, Apply
<1>2. /\ sub \in 1 .. Len(groups) /\ group \in Subgroup /\ Len(group) \in Nat /\ pos \in Nat
      /\ pos + 1 \in 1 .. Len(group) /\ GroupOK(group)
      /\ known \subseteq ReadNames /\ view \subseteq ReadNames
      /\ pos # 0 => known = ReadSnapshot(group[1])
      /\ \A n \in ReadNames \ touched :
           Expected(n) <=> IF pos = 0 THEN n \in known ELSE Reads(group, pos, n)
  <2>1. /\ sub \in 1 .. Len(groups) /\ pos \in Nat
        /\ known \subseteq ReadNames /\ view \subseteq ReadNames
    BY <1>1 DEF ReaderOK, ListingTypeOK
  <2>2. group \in Subgroup /\ Len(group) \in Nat /\ GroupOK(group)
    BY <2>1 DEF ListingTypeOK, GroupsOK, Subgroup
  <2>3. QED
    BY <1>1, <2>1, <2>2 DEF ReaderOK
<1>3. ASSUME NEW n PROVE Expected(n) <=> n \in view
  BY <1>1 DEF Expected
<1> HIDE DEF group
<1>4. CASE pos = 0
  <2>1. o \in Snapshot /\ o = group[1] /\ names \subseteq ReadNames
    BY <1>2, <1>4, ListingObjects DEF GroupOK, group, ReadSnapshot, ReadNames
  <2> HIDE DEF o, names
  <2>2. ASSUME NEW n \in ReadNames
        PROVE  /\ Add(n) \in deltas' <=> n \in names \ known
               /\ Rem(n) \in deltas' <=> n \in known \ names
    <3>1. \A m : /\ Add(n) = Add(m) <=> n = m
                 /\ Rem(n) = Rem(m) <=> n = m
                 /\ Add(n) # Rem(m) /\ Rem(n) # Add(m)
      BY DEF Add, Rem
    <3>2. deltas' = {Add(m) : m \in names \ known} \cup {Rem(m) : m \in known \ names}
      BY <1>1, <1>4
    <3>3. QED
      BY <3>1, <3>2
  <2>3. deltas' \subseteq Delta
    BY <1>1, <1>2, <1>4, <2>1, ListingObjects
  <2>4. ListingTypeOK'
    BY <1>1, <1>2, <1>4, <2>1, <2>3 DEF ListingTypeOK
  <2>5. ASSUME NEW n \in ReadNames \ touched
        PROVE  Expected(n)' <=> Reads(group, 1, n)
    <3>1. n \in view <=> n \in known
      BY <1>2, <1>3, <1>4
    <3>2. Reads(group, 1, n) <=> n \in names
      BY <2>1, ReadsFirst DEF names
    <3>3. Expected(n)' <=> n \in names
      BY <1>1, <1>4, <2>2, <3>1 DEF Expected
    <3>4. QED
      BY <3>2, <3>3
  <2>6. pos' = 1 /\ groups' = groups /\ sub' = sub /\ pos' <= Len(group)
    BY <1>1, <1>2, <1>4
  <2>7. ReaderOK'
    <3>1. known' = ReadSnapshot(groups'[sub'][1])
      BY <1>1, <1>4, <2>1, <2>6 DEF group, names
    <3>2. \A n \in ReadNames : Add(n) \notin deltas' \/ Rem(n) \notin deltas'
      BY <2>2
    <3>3. QED
      BY <1>1, <1>2, <2>5, <2>6, <3>1, <3>2 DEF ReaderOK, group
  <2>8. QED
    BY <1>1, <2>4, <2>7, PublishedKept
<1>5. CASE pos # 0
  <2>1. o \in Delta /\ o = group[pos + 1] /\ pos + 1 # 1
    BY <1>2, <1>5 DEF GroupOK, group
  <2> HIDE DEF o
  <2>2. ListingTypeOK'
    <3>1. o.n \in ReadNames
      BY <2>1, ListingObjects
    <3>2. view' \subseteq ReadNames
      BY <1>1, <1>2, <1>5, <3>1
    <3>3. QED
      BY <1>1, <1>2, <1>5, <3>2 DEF ListingTypeOK
  <2>3. ASSUME NEW n \in ReadNames \ touched
        PROVE  Expected(n)' <=> Reads(group, pos + 1, n)
    <3>1. n \in view <=> Reads(group, pos, n)
      BY <1>2, <1>3, <1>5
    <3>2. Reads(group, pos + 1, n) <=> IF o.n = n THEN o.op = "+" ELSE Reads(group, pos, n)
      BY <1>2, <1>5, <2>1, ReadsNext
    <3>3. n \in view' <=> IF o.n = n THEN o.op = "+" ELSE n \in view
      BY <1>1, <1>5, <2>1, ListingObjects
    <3>4. Expected(n)' <=> n \in view'
      BY <1>1, <1>5 DEF Expected
    <3>5. QED
      BY <3>1, <3>2, <3>3, <3>4
  <2>4. pos' = pos + 1 /\ pos' # 0 /\ groups' = groups /\ sub' = sub /\ pos' <= Len(group)
    BY <1>1, <1>2, <1>5
  <2>5. ReaderOK'
    <3>1. known' = ReadSnapshot(groups'[sub'][1]) /\ deltas' = {}
      BY <1>1, <1>2, <1>5, <2>4 DEF group
    <3>2. QED
      BY <1>1, <1>2, <2>3, <2>4, <3>1 DEF ReaderOK, group
  <2>6. QED
    BY <1>1, <2>2, <2>5, PublishedKept
<1>6. QED
  BY <1>4, <1>5

(***************************************************************************)
(* ListingReader, with ListingWriter at the other end: an application that *)
(* has read all there is lists what is announced and the empty name, but   *)
(* for the names that came or went in a delta of an earlier subgroup -     *)
(* whatever the announces do, and wherever the reader skips to a newer     *)
(* subgroup.                                                               *)
(***************************************************************************)
THEOREM ListingIsFollowed == ListingSpec => []ListingFollows
<1>1. ListingInit => ListingInv
  BY DEF ListingInit, ListingInv, ListingTypeOK, GroupsOK, Published, ReaderOK
<1>2. ListingInv /\ [ListingNext]_listingVars => ListingInv'
  <2> SUFFICES ASSUME ListingInv, [ListingNext]_listingVars PROVE ListingInv'
    OBVIOUS
  <2>1. CASE UNCHANGED listingVars
    BY <2>1 DEF listingVars, ListingInv, ListingTypeOK, GroupsOK, Published, ReaderOK, Expected
  <2>2. QED
    BY <2>1, AnnouncedInv, UnlistedInv, FollowInv, DeliverInv, NextSubgroupInv, ReadObjectInv
       DEF ListingNext
<1>3. ListingInv => ListingFollows
  <2> SUFFICES ASSUME ListingInv, CaughtUp
               PROVE  /\ \A n \in Names \ touched : n \in current => n \in view
                      /\ \A n \in view \ touched : n \in current \/ n = EmptyName
                      /\ EmptyName \notin Names => EmptyName \in view
    BY DEF ListingFollows
  <2> USE DEF ListingInv, CaughtUp
  <2>1. sub \in 1 .. Len(groups) /\ gen # 0 /\ GroupOK(groups[sub])
    BY DEF ReaderOK, GroupsOK
  <2>2. pos # 0 /\ pos = Len(groups[sub])
    BY <2>1 DEF GroupOK
  <2>3. ASSUME NEW n \in ReadNames \ touched PROVE n \in view <=> Reads(groups[sub], pos, n)
    <3>1. Expected(n) <=> Reads(groups[sub], pos, n)
      BY <2>2 DEF ReaderOK
    <3>2. QED
      BY <3>1 DEF Expected
  <2>4. ASSUME NEW n \in Names PROVE n \in current <=> Holds(groups[sub], pos, n)
    BY <2>1 DEF Published
  <2>5. view \subseteq ReadNames /\ touched \subseteq Names
    BY DEF ListingTypeOK
  <2>6. ASSUME NEW n \in Names \ touched, n \in current PROVE n \in view
    BY <2>3, <2>4, <2>6 DEF Reads, ReadNames
  <2>7. ASSUME NEW n \in view \ touched PROVE n \in current \/ n = EmptyName
    BY <2>3, <2>4, <2>5, <2>7 DEF Reads, ReadNames
  <2>8. ASSUME EmptyName \notin Names PROVE EmptyName \in view
    <3>1. \A i \in 2 .. pos : groups[sub][i].n # EmptyName
      <4>1. ASSUME NEW i \in 2 .. pos PROVE i \in 1 .. Len(groups[sub]) /\ i # 1
        BY <2>2
      <4>2. QED
        BY <2>1, <2>8, <4>1 DEF GroupOK
    <3>2. EmptyName \in ReadNames \ touched
      BY <2>5, <2>8 DEF ReadNames
    <3>3. QED
      BY <2>3, <3>1, <3>2 DEF Reads
  <2>9. QED
    BY <2>6, <2>7, <2>8
<1>4. QED
  BY <1>1, <1>2, <1>3, PTL DEF ListingSpec
=============================================================================
