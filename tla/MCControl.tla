------------------------------ MODULE MCControl -----------------------------
(***************************************************************************)
(* The two protocols of the control stream, each with its fairness: the    *)
(* announces of a session, and one subscription (SubscribeSession with a   *)
(* single id; what two do to each other is the run of that module).  They  *)
(* share no state, so that a behaviour moves one of them only.             *)
(***************************************************************************)
EXTENDS AnnounceSession

CONSTANTS n1, n2, i1

MCNamespace == {n1, n2}

VARIABLES
  side,
  session_s, toPub_s, toSub_s, subOk_s, pubOk_s, pubClosed_s,
  caller, subscribes, subState, streamed, lost, phase, viaAnnounce, subscribed, mode, annQueue,
  unknown, annEntry, annLoop, sent

subscribeVars ==
  <<session_s, toPub_s, toSub_s, subOk_s, pubOk_s, pubClosed_s, caller, subscribes, subState,
    streamed, lost, phase, viaAnnounce, subscribed, mode, annQueue, unknown, annEntry, annLoop,
    sent>>

S == INSTANCE SubscribeSession WITH
       Id <- {i1}, session <- session_s, toPub <- toPub_s, toSub <- toSub_s, subOk <- subOk_s,
       pubOk <- pubOk_s, pubClosed <- pubClosed_s

MCInit == Init /\ S!Init /\ side \in {"announce", "subscribe"}

MCNext ==
  \/ side = "announce" /\ Next /\ UNCHANGED <<subscribeVars, side>>
  \/ side = "subscribe" /\ S!Next /\ UNCHANGED <<vars, side>>

\* The side that does not move has no step that fairness would ask for.
MCSpec == MCInit /\ [][MCNext]_<<vars, subscribeVars, side>> /\ Fairness /\ S!Fairness

\* A caller whose subscription has ended returns (see SubscribeSession: run_control,
\* SubscribeRecv).
CallerReleased == S!CallerReleased

\* An abandoned subscription is ended and forgotten (see SubscribeSession: Subscribe::drop,
\* recv_unsubscribe).
UnsubscribeEnds == S!UnsubscribeEnds
=============================================================================
