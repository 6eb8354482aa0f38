------------------------- MODULE MCSubscribeSession -------------------------
(* SubscribeSession for TLC.  Ids are compared for equality only, so that  *)
(* the safety run may take them as symmetric.                              *)
EXTENDS SubscribeSession, TLC

CONSTANTS i1, i2

TwoIds == {i1, i2}
OneId == {i1}
Symmetry == Permutations(TwoIds)
=============================================================================
