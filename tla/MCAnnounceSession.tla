-------------------------- MODULE MCAnnounceSession --------------------------
(* AnnounceSession for TLC: two announces, of the same namespace or of two *)
(* different ones.  Namespaces do not interact, and two announces of one   *)
(* are enough for every overlap of a pair, the fatal duplicate included.   *)
EXTENDS AnnounceSession

CONSTANTS n1, n2

MCNamespace == {n1, n2}
=============================================================================
