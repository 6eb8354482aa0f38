------------------------------- MODULE MCModes ------------------------------
(***************************************************************************)
(* The components whose hazard is a sequence of calls or of bytes: the     *)
(* formats on the wire, the ways other than subgroups to serve a track -   *)
(* objects, datagrams and one stream - and the listing of moq-dir.  They   *)
(* share no state: a behaviour moves one of the five.                      *)
(***************************************************************************)
EXTENDS MCFraming, Listing, Objects, Datagrams, StreamMode

VARIABLE side

CONSTANTS s1, s2, s3, s4, s5, x, y, z

\* s1 and s2 announce the same name; s5 announces in a namespace of its own.
MCBase == [s \in Announcer |-> CASE s = s3 -> y [] s \in {s4, s5} -> z [] OTHER -> x]

vars == <<framingVars, listingVars, objectsVars, datagramsVars, streamVars, side>>

Init ==
  /\ FramingInit /\ ListingInit /\ ObjectsInit /\ DatagramsInit /\ StreamInit
  /\ side \in {"framing", "listing", "objects", "datagrams", "stream"}
  /\ side # "framing" => script = CHOOSE s \in Scripts : TRUE

Next ==
  /\ \/ side = "framing" /\ FramingNext
        /\ UNCHANGED <<listingVars, objectsVars, datagramsVars, streamVars>>
     \/ side = "listing" /\ ListingNext
        /\ UNCHANGED <<framingVars, objectsVars, datagramsVars, streamVars>>
     \/ side = "objects" /\ ObjectsNext
        /\ UNCHANGED <<framingVars, listingVars, datagramsVars, streamVars>>
     \/ side = "datagrams" /\ DatagramsNext
        /\ UNCHANGED <<framingVars, listingVars, objectsVars, streamVars>>
     \/ side = "stream" /\ StreamNext
        /\ UNCHANGED <<framingVars, listingVars, objectsVars, datagramsVars>>
  /\ UNCHANGED side

Spec == Init /\ [][Next]_vars
=============================================================================
