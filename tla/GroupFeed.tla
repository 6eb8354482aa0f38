----------------------------- MODULE GroupFeed -----------------------------
(***************************************************************************)
(* What a live track promises the reader at the far end of a subscription, *)
(* whatever happens to the streams in between: it is handed subgroups that *)
(* exist, each later than all it was handed before, and of each of them    *)
(* the objects that were written, in order and without a gap.  Subgroups   *)
(* may be skipped and the end of one may be missing.                       *)
(***************************************************************************)
EXTENDS Naturals

CONSTANT Subgroup   \* positions of subgroups, by group and then by subgroup id

VARIABLES
  created,  \* the subgroups the publisher has created
  written,  \* how many objects were written to each
  handed,   \* the subgroups the reader was handed
  read      \* how many objects it read of each

vars == <<created, written, handed, read>>

Init ==
  /\ created = {} /\ handed = {}
  /\ written = [g \in Subgroup |-> 0]
  /\ read = [g \in Subgroup |-> 0]

Create(g) ==
  /\ g \notin created
  /\ created' = created \cup {g}
  /\ UNCHANGED <<written, handed, read>>

Write(g) ==
  /\ g \in created
  /\ written' = [written EXCEPT ![g] = @ + 1]
  /\ UNCHANGED <<created, handed, read>>

Hand(g) ==
  /\ g \in created
  /\ \A h \in handed : h < g
  /\ handed' = handed \cup {g}
  /\ UNCHANGED <<created, written, read>>

Read(g) ==
  /\ g \in handed
  /\ read[g] < written[g]
  /\ read' = [read EXCEPT ![g] = @ + 1]
  /\ UNCHANGED <<created, written, handed>>

Next == \E g \in Subgroup : Create(g) \/ Write(g) \/ Hand(g) \/ Read(g)

Spec == Init /\ [][Next]_vars
=============================================================================
