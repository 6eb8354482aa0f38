------------------------------- MODULE Listing ------------------------------
(***************************************************************************)
(* moq-dir: the listing of the broadcasts under one prefix, kept by the    *)
(* sessions that announce them (serve_announce, Listings), published as a  *)
(* track of snapshots and deltas (ListingWriter) and followed by a reader  *)
(* that turns both into deltas for its application (ListingReader).        *)
(*                                                                         *)
(* Prefixes have nothing in common, so there is one; a session is one      *)
(* announce.  A subgroup is the sequence of its objects: the snapshot and  *)
(* the deltas after it.  The track of a listing that became empty is       *)
(* removed, and a later announce makes a new one: gen counts them.         *)
(*                                                                         *)
(* A snapshot is written with a newline behind every name and read by      *)
(* splitting it at the newlines, so that what is behind the last one is    *)
(* read as a name too: the empty one, which an announce may also have.     *)
(* Names have no newline in them.                                          *)
(***************************************************************************)
EXTENDS Naturals, Sequences, FiniteSets

CONSTANTS
  Announcer, Base,  \* announces, and the name each is listed by
  EmptyName,        \* the empty string
  Inside,           \* the announces of a namespace under ours
  MaxOps            \* bound on changes of the listing

Names == {Base[s] : s \in Announcer}

ASSUME ListingAssumption == Inside \subseteq Announcer /\ MaxOps \in Nat

VARIABLES
  served,   \* serve_announce: none, listed, ignored, refused, over
  current,  \* ListingWriter.current; empty: no track
  groups,   \* the subgroups of the track, as SubgroupsReader hands them out
  gen,      \* the track
  ops,
  from,     \* the track a reader follows, 0: none yet
  sub, pos,  \* its subgroup and the objects it has read of it
  known,    \* ListingReader.current
  deltas,   \* ListingReader.deltas
  view,     \* what its application makes of the deltas
  touched   \* names of the deltas it has read in earlier subgroups

listingVars == <<served, current, groups, gen, ops, from, sub, pos, known, deltas, view, touched>>
readerVars == <<from, sub, pos, known, deltas, view, touched>>

Add(n) == [op |-> "+", n |-> n]
Rem(n) == [op |-> "-", n |-> n]
Full(set) == [op |-> "*", set |-> set]

\* The names the reader finds in a snapshot of a set.
ReadSnapshot(snapshot) == snapshot.set \cup {EmptyName}

ListingInit ==
  /\ served = [s \in Announcer |-> "none"]
  /\ current = {} /\ groups = <<>> /\ gen = 0 /\ ops = 0
  /\ from = 0 /\ sub = 0 /\ pos = 0 /\ known = {} /\ deltas = {} /\ view = {} /\ touched = {}

-----------------------------------------------------------------------------
(* Listings and ListingWriter *)

\* A delta while the subgroup is small enough, otherwise a snapshot in a new one.
Publish(set, delta) ==
  /\ current' = set
  /\ LET last == IF groups = <<>> THEN <<>> ELSE groups[Len(groups)]
     IN groups' = IF Cardinality(set) < 2 * Len(last)
                  THEN [groups EXCEPT ![Len(groups)] = Append(@, delta)]
                  ELSE Append(groups, <<Full(set)>>)
  /\ ops' = ops + 1

\* serve_announce and register: ignored, a duplicate, or listed; the first name makes
\* the track.
Announced(s) ==
  /\ served[s] = "none" /\ ops < MaxOps
  /\ LET n == Base[s]
     IN CASE s \notin Inside ->
               served' = [served EXCEPT ![s] = "ignored"] /\ UNCHANGED <<current, groups, gen, ops>>
          [] s \in Inside /\ n \in current ->
               served' = [served EXCEPT ![s] = "refused"] /\ UNCHANGED <<current, groups, gen, ops>>
          [] OTHER ->
               /\ served' = [served EXCEPT ![s] = "listed"]
               /\ IF current = {}
                  THEN /\ groups' = <<<<Full({n})>>>> /\ current' = {n} /\ ops' = ops + 1
                       /\ gen' = gen + 1
                  ELSE Publish(current \cup {n}, Add(n)) /\ UNCHANGED gen
  /\ UNCHANGED readerVars

\* Fault: a removal publishes an addition.
WrongSign(n) == Add(n)

\* What a removal publishes.
Removal(n) == Rem(n)

\* The announce ends: Registration's drop, and remove; the last name takes the track along.
Unlisted(s) ==
  /\ served[s] = "listed" /\ ops < MaxOps
  /\ served' = [served EXCEPT ![s] = "none"]
  /\ Publish(current \ {Base[s]}, Removal(Base[s]))
  /\ UNCHANGED <<gen, readerVars>>

-----------------------------------------------------------------------------
(* ListingReader::next *)

\* A subscription to the listing's track.
Follow ==
  /\ from = 0 /\ current # {}
  /\ from' = gen /\ sub' = Len(groups) /\ pos' = 0
  /\ UNCHANGED <<served, current, groups, gen, ops, known, deltas, view, touched>>

\* A delta that was found before is returned first.
Apply(d) == view' = IF d.op = "+" THEN view \cup {d.n} ELSE view \ {d.n}

Deliver ==
  /\ \E d \in deltas : Apply(d) /\ deltas' = deltas \ {d}
  /\ UNCHANGED <<served, current, groups, gen, ops, from, sub, pos, known, touched>>

\* The deltas among the objects that were read.
ReadDeltas(k, p) == {groups[k][i].n : i \in 2..p}

\* select: a newer subgroup, read to the end or not.
NextSubgroup ==
  /\ from = gen /\ from # 0 /\ deltas = {} /\ sub < Len(groups)
  /\ touched' = touched \cup ReadDeltas(sub, pos)
  /\ sub' = Len(groups) /\ pos' = 0
  /\ UNCHANGED <<served, current, groups, gen, ops, from, known, deltas, view>>

\* select: the next object.  A snapshot becomes the deltas against the last
\* snapshot; a delta is passed on as it is.
ReadObject ==
  /\ from = gen /\ from # 0 /\ deltas = {} /\ pos < Len(groups[sub])
  /\ LET o == groups[sub][pos + 1]
     IN IF pos = 0
        THEN /\ known' = ReadSnapshot(o)
             /\ deltas' = {Add(n) : n \in ReadSnapshot(o) \ known}
                            \cup {Rem(n) : n \in known \ ReadSnapshot(o)}
             /\ UNCHANGED view
        ELSE Apply(o) /\ UNCHANGED <<known, deltas>>
  /\ pos' = pos + 1
  /\ UNCHANGED <<served, current, groups, gen, ops, from, sub, touched>>

\* The track is gone: None.  The application starts afresh with the next one, so
\* what it might still read of the old one is left out.
EndOfTrack ==
  /\ from # 0 /\ deltas = {} /\ (from # gen \/ current = {})
  /\ from' = 0 /\ sub' = 0 /\ pos' = 0 /\ known' = {} /\ view' = {} /\ touched' = {}
  /\ UNCHANGED <<served, current, groups, gen, ops, deltas>>

ListingNext ==
  \/ \E s \in Announcer : Announced(s) \/ Unlisted(s)
  \/ Follow \/ Deliver \/ NextSubgroup \/ ReadObject \/ EndOfTrack

ListingSpec == ListingInit /\ [][ListingNext]_listingVars

-----------------------------------------------------------------------------
(* Properties *)

CaughtUp ==
  /\ from = gen /\ from # 0 /\ deltas = {}
  /\ sub = Len(groups) /\ pos = Len(groups[sub])

(***************************************************************************)
(* An application that has read all there is lists the broadcasts that are *)
(* announced and the empty name, which it lists although nobody announces  *)
(* it - except for names that came or went in a delta of an earlier        *)
(* subgroup, which ListingReader passes on without noting it in current,   *)
(* so that the next snapshot is compared with the wrong set.               *)
(***************************************************************************)
ListingFollows ==
  CaughtUp =>
    /\ \A n \in Names \ touched : n \in current => n \in view
    /\ \A n \in view \ touched : n \in current \/ n = EmptyName
    /\ EmptyName \notin Names => EmptyName \in view

=============================================================================
