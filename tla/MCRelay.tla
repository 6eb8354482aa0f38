------------------------------- MODULE MCRelay ------------------------------
(***************************************************************************)
(* The two sides of the relay cluster in one run: the relays that have the *)
(* broadcasts (Origins) and a relay that fetches them (Remotes).  All that *)
(* goes from one side to the other is the answer to get_origin, which      *)
(* Remotes takes to be any; a behaviour therefore moves one side only.     *)
(* Remotes is taken twice: three subscriptions while the Remote works, for *)
(* the tracks that they share; and two while Remotes come and go.          *)
(***************************************************************************)
EXTENDS Origins, Remotes

VARIABLE side

CONSTANTS a, b, a1, a2, b1, s1, s2, s3, u, n
MCHome == [x \in Announce |-> IF x = b1 THEN b ELSE a]
MCName == [s \in Sub |-> n]

vars == <<originsVars, remotesVars, side>>

Init == OriginsInit /\ RemotesInit /\ side \in {"origins", "tracks", "remotes"}

\* Neither keeps back a step that fairness would ask for without an alternative.
Works == \A k \in RemoteId : phase'[k] \notin {"returned", "reaped"} /\ link'[k] # "down"
TwoOnly == pc'[s3] = "none"

Next ==
  \/ side = "origins" /\ OriginsNext /\ UNCHANGED <<remotesVars, side>>
  \/ side = "tracks" /\ RemotesNext /\ Works /\ UNCHANGED <<originsVars, side>>
  \/ side = "remotes" /\ RemotesNext /\ TwoOnly /\ UNCHANGED <<originsVars, side>>

\* The side that does not move has no step that fairness would ask for.
Spec == Init /\ [][Next]_vars /\ OriginsFairness /\ RemotesFairness
=============================================================================
