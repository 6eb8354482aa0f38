------------------------------- MODULE MCWsMux ------------------------------
(***************************************************************************)
(* The control stream of the client (b) and data streams of the server.  A *)
(* behaviour opens the streams of one scene only; opening is nothing that  *)
(* fairness asks for.                                                      *)
(***************************************************************************)
EXTENDS WsMux

CONSTANTS u, v, w, x, b, Scenes

VARIABLE scene

MCInitiator == [s \in Stream |-> IF s = b THEN "client" ELSE "server"]

\* Which streams carry a chunk at most; the others only their FIN.
MCWriteAll == [s \in Stream |-> 1]
MCWriteData == [s \in Stream |-> IF s = u THEN 1 ELSE 0]

\* The halves that the server sends: all, or the data streams.
MCNone == {}
MCServer == {<<"server", s>> : s \in Stream}
MCData == {<<"server", s>> : s \in Uni}

\* Halves are cut and the session is closed, on the control stream or on a data stream.
MCCut == {{b}, {u}}

\* More data streams than can be read and accepted, or one beside the control stream.
MCCrowd == {{v, w, x}, {u, b}}

MCInit == Init /\ scene \in Scenes

MCNext ==
  /\ Next
  /\ \A h \in Half : send'[h] # "none" => h[2] \in scene
  /\ UNCHANGED scene

MCSpec == MCInit /\ [][MCNext]_<<vars, scene>> /\ Fairness
=============================================================================
