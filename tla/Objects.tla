------------------------------- MODULE Objects ------------------------------
(***************************************************************************)
(* serve::Objects: the objects of a track's latest group in any order, and *)
(* a reader that takes them by priority.  The writer keeps the objects of  *)
(* one group and counts them; a reader finds the ones it has not seen from *)
(* the difference of the epochs.                                           *)
(***************************************************************************)
EXTENDS Naturals, Sequences, FiniteSets

CONSTANTS ObjectGroup, Priority,  \* the numbers an application uses
          MaxObjects        \* bound on the objects it writes

ASSUME ObjectsAssumption ==
  ObjectGroup \subseteq Nat /\ Priority \subseteq Nat /\ MaxObjects \in Nat

VARIABLES
  objects, pushed,  \* ObjectsState: objects and epoch
  produced,        \* objects written so far, kept or not: their number is their object_id
  writerGone,      \* the writer was dropped or closed
  seenEpoch, pending,  \* ObjectsReader
  taken            \* what the reader returned

objectsVars == <<objects, pushed, produced, writerGone, seenEpoch, pending, taken>>

ObjectsInit ==
  /\ objects = <<>> /\ pushed = 0 /\ produced = 0 /\ writerGone = FALSE
  /\ seenEpoch = 0 /\ pending = {} /\ taken = <<>>

\* ObjectsWriter::create: an older group is dropped, a newer one replaces what is there.
PushObject(g, p) ==
  /\ ~writerGone /\ produced < MaxObjects
  /\ produced' = produced + 1
  /\ LET o == [g |-> g, o |-> produced + 1, p |-> p]
     IN IF objects # <<>> /\ g < objects[1].g
        THEN UNCHANGED <<objects, pushed>>
        ELSE /\ objects' = IF objects # <<>> /\ g > objects[1].g THEN <<o>> ELSE Append(objects, o)
             /\ pushed' = pushed + 1
  /\ UNCHANGED <<writerGone, seenEpoch, pending, taken>>

\* close, or the drop of the writer.
EndObjects ==
  /\ ~writerGone /\ writerGone' = TRUE
  /\ UNCHANGED <<objects, pushed, produced, seenEpoch, pending, taken>>

\* Fault: the reader's epoch is taken for an index.
SeenBefore == seenEpoch

\* len().saturating_sub(state.epoch - self.epoch)
FirstUnseen == IF pushed - seenEpoch < Len(objects) THEN Len(objects) - (pushed - seenEpoch) ELSE 0

Unseen == {objects[i] : i \in (FirstUnseen + 1)..Len(objects)}

\* Ord: by priority, then the newest group, then the lowest object.
Before(a, b) ==
  \/ a.p < b.p
  \/ a.p = b.p /\ (a.g > b.g \/ (a.g = b.g /\ a.o <= b.o))

\* ObjectsReader::next: what is new joins the heap, and the first of it is returned.
PopObject ==
  LET heap == pending \cup Unseen
  IN /\ \E o \in heap :
          /\ \A other \in heap : Before(o, other)
          /\ pending' = heap \ {o}
          /\ taken' = Append(taken, o)
     /\ seenEpoch' = pushed
     /\ UNCHANGED <<objects, pushed, produced, writerGone>>

ObjectsNext ==
  \/ \E g \in ObjectGroup, p \in Priority : PushObject(g, p)
  \/ EndObjects \/ PopObject

ObjectsSpec == ObjectsInit /\ [][ObjectsNext]_objectsVars

(***************************************************************************)
(* A reader returns no object twice, and once it finds nothing more it has *)
(* returned every object of the latest group, however many groups went by  *)
(* between two of its reads (ObjectsReader::next).                         *)
(***************************************************************************)
ObjectsOnce ==
  /\ \A i, j \in DOMAIN taken : taken[i] = taken[j] => i = j
  /\ (pending = {} /\ Unseen = {}) =>
       \A i \in DOMAIN objects : \E j \in DOMAIN taken : taken[j] = objects[i]

=============================================================================
