--------------------------- MODULE MCWatchState ---------------------------
(* WatchState for TLC: two handles on one half (so that a clone outlives   *)
(* its original), one on the other, two values.                            *)
EXTENDS WatchState, TLC

CONSTANTS l1, l2, r1

MCHandle == {l1, l2, r1}
MCLeft == {l1, l2}
=============================================================================
