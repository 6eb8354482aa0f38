------------------------------ MODULE MCTracks ------------------------------
(* Tracks for TLC: two names, two readers and two tracks, so that readers  *)
(* share a track, ask for different ones, or ask again after a removal.    *)
EXTENDS Tracks

CONSTANTS n1, n2, r1, r2

MCName == {n1, n2}
MCReader == {r1, r2}
=============================================================================
