------------------------------- MODULE Origins ------------------------------
(***************************************************************************)
(* How the relays of a cluster say which of them has a namespace: the      *)
(* announces a relay serves (Consumer::serve), its table of local          *)
(* namespaces (Locals), the entry of the namespace at moq-api and the      *)
(* Refresh tasks that keep it.                                             *)
(*                                                                         *)
(* There is one namespace: the tables of different namespaces have nothing *)
(* in common.  An announce is an attempt of a broadcaster to announce it   *)
(* at a relay.  moq-api serves a request in the commands it sends to       *)
(* redis, each of them atomic; a request or its answer may be lost.  Time  *)
(* is counted in periods of 300 s, the interval of a Refresh; a request    *)
(* takes less.                                                             *)
(***************************************************************************)
EXTENDS Naturals

CONSTANTS
  Relay, Announce,
  Home,      \* the relay of each announce
  TTL,       \* periods an entry lives (600 s: 2)
  None

ASSUME OriginsAssumption ==
  /\ Home \in [Announce -> Relay]
  /\ TTL \in Nat \ {0}
  /\ None \notin Relay \cup Announce

VARIABLES
  stage,     \* Consumer::serve: none, setting, registering, serving, ended
  refresh,   \* Refresh: none, idle, get or set (a request, by its next command), deleting, gone
  locals,    \* Locals.lookup: the announce whose tracks a relay has
  entry,     \* the value in redis
  ttl,       \* periods left; at 0 it expires before the period ends
  seen       \* the entry was there at some time in this period

originsVars == <<stage, refresh, locals, entry, ttl, seen>>

OriginsInit ==
  /\ stage = [a \in Announce |-> "none"]
  /\ refresh = [a \in Announce |-> "none"]
  /\ locals = [r \in Relay |-> None]
  /\ entry = None /\ ttl = 0 /\ seen = FALSE

-----------------------------------------------------------------------------
(* Api, Refresh and the server of moq-api *)

\* Consumer::serve, set_origin: the first update of a new Refresh.
SetOrigin(a) ==
  /\ stage[a] = "none"
  /\ stage' = [stage EXCEPT ![a] = "setting"]
  /\ refresh' = [refresh EXCEPT ![a] = "get"]
  /\ UNCHANGED <<locals, entry, ttl, seen>>

\* The update is done; the first one lets serve go on.
UpdateOk(a) ==
  /\ refresh' = [refresh EXCEPT ![a] = "idle"]
  /\ stage' = [stage EXCEPT ![a] = IF @ = "setting" THEN "registering" ELSE @]

\* Fault: the failure of a refresh is only logged.
UpdateForgiven(a) ==
  /\ refresh' = [refresh EXCEPT ![a] = IF stage[a] = "setting" THEN "deleting" ELSE "idle"]
  /\ stage' = [stage EXCEPT ![a] = IF @ = "setting" THEN "ended" ELSE @]

\* The update failed: the Refresh is dropped, and its drop deletes the origin.
UpdateFailed(a) ==
  /\ refresh' = [refresh EXCEPT ![a] = "deleting"]
  /\ stage' = [stage EXCEPT ![a] = IF @ = "setting" THEN "ended" ELSE @]

\* set_origin at the server: GET, and an entry that is there is left as it is.
GetEntry(a) ==
  /\ refresh[a] = "get"
  /\ CASE entry = None -> refresh' = [refresh EXCEPT ![a] = "set"] /\ UNCHANGED stage
       [] entry = Home[a] -> UpdateOk(a)
       [] OTHER -> UpdateFailed(a)
  /\ UNCHANGED <<locals, entry, ttl, seen>>

\* Fault: SET without EX.
StoreForEver(r) == entry' = r /\ ttl' = TTL + 1 /\ seen' = TRUE

\* Its second half: SET NX EX 600.
StoreEntry(r) == entry' = r /\ ttl' = TTL /\ seen' = TRUE

SetEntry(a) ==
  /\ refresh[a] = "set"
  /\ IF entry = None THEN StoreEntry(Home[a]) /\ UpdateOk(a)
     ELSE UpdateFailed(a) /\ UNCHANGED <<entry, ttl, seen>>
  /\ UNCHANGED locals

\* A request that does not arrive, or whose answer does not.
UpdateLost(a) ==
  /\ refresh[a] \in {"get", "set"}
  /\ \/ UNCHANGED <<entry, ttl, seen>>
     \/ refresh[a] = "set" /\ entry = None /\ StoreEntry(Home[a])
  /\ UpdateFailed(a)
  /\ UNCHANGED locals

\* delete_origin, whoever's entry it is by now.
DeleteEntry(a) ==
  /\ refresh[a] = "deleting"
  /\ refresh' = [refresh EXCEPT ![a] = "gone"]
  /\ entry' = None
  /\ UNCHANGED <<stage, locals, ttl, seen>>

DeleteLost(a) ==
  /\ refresh[a] = "deleting"
  /\ refresh' = [refresh EXCEPT ![a] = "gone"]
  /\ UNCHANGED <<stage, locals, entry, ttl, seen>>

\* redis: the time to live of the entry is over.
Expire ==
  /\ entry # None /\ ttl = 0
  /\ entry' = None
  /\ UNCHANGED <<stage, refresh, locals, ttl, seen>>

NoRequest == \A a \in Announce : refresh[a] \notin {"get", "set", "deleting"}

\* 300 s go by, and every Refresh starts an update.
Tick ==
  /\ NoRequest /\ ~(entry # None /\ ttl = 0)
  /\ refresh' = [a \in Announce |-> IF refresh[a] = "idle" THEN "get" ELSE refresh[a]]
  /\ ttl' = IF ttl \in 1..TTL THEN ttl - 1 ELSE ttl
  /\ seen' = (entry # None)
  /\ UNCHANGED <<stage, locals, entry>>

-----------------------------------------------------------------------------
(* Locals and the rest of Consumer::serve *)

\* Fault: a refused announce also drops a Registration.
RegisterOrDrop(a) ==
  /\ stage[a] = "registering"
  /\ locals' = [locals EXCEPT ![Home[a]] = IF @ = None THEN a ELSE None]
  /\ stage' = [stage EXCEPT ![a] = IF locals[Home[a]] = None THEN "serving" ELSE "ended"]
  /\ UNCHANGED <<refresh, entry, ttl, seen>>

\* register and announce.ok(); a second announce at the same relay is refused.
\* Its Refresh, a task of its own, goes on.
Register(a) ==
  /\ stage[a] = "registering"
  /\ IF locals[Home[a]] = None
     THEN locals' = [locals EXCEPT ![Home[a]] = a] /\ stage' = [stage EXCEPT ![a] = "serving"]
     ELSE stage' = [stage EXCEPT ![a] = "ended"] /\ UNCHANGED locals
  /\ UNCHANGED <<refresh, entry, ttl, seen>>

\* announce.closed(): serve returns, which drops the Registration.
AnnounceClosed(a) ==
  /\ stage[a] = "serving"
  /\ stage' = [stage EXCEPT ![a] = "ended"]
  /\ locals' = [locals EXCEPT ![Home[a]] = None]
  /\ UNCHANGED <<refresh, entry, ttl, seen>>

\* The relay's process ends, without any of its drops.
Crash(r) ==
  /\ \E a \in Announce : Home[a] = r /\ stage[a] # "none" /\ refresh[a] # "gone"
  /\ LET here == {a \in Announce : Home[a] = r /\ stage[a] # "none"}
     IN /\ stage' = [a \in Announce |-> IF a \in here THEN "ended" ELSE stage[a]]
        /\ refresh' = [a \in Announce |-> IF a \in here THEN "gone" ELSE refresh[a]]
  /\ locals' = [locals EXCEPT ![r] = None]
  /\ UNCHANGED <<entry, ttl, seen>>

Request(a) ==
  GetEntry(a) \/ SetEntry(a) \/ UpdateLost(a) \/ DeleteEntry(a) \/ DeleteLost(a)

OriginsNext ==
  \/ \E a \in Announce : SetOrigin(a) \/ Request(a) \/ Register(a) \/ AnnounceClosed(a)
  \/ \E r \in Relay : Crash(r)
  \/ Expire \/ Tick

\* Requests end, one way or the other, entries expire and time goes by.
OriginsFairness ==
  /\ \A a \in Announce : WF_originsVars(Request(a))
  /\ WF_originsVars(Expire) /\ WF_originsVars(Tick)

OriginsSpec == OriginsInit /\ [][OriginsNext]_originsVars /\ OriginsFairness

-----------------------------------------------------------------------------
(* Properties *)

(***************************************************************************)
(* A relay's table names an announce exactly while that announce is being  *)
(* served: neither the end of another announce nor the refusal of one      *)
(* takes it away (Registration's drop, which goes by the namespace).       *)
(***************************************************************************)
RegisteredIsServed ==
  \A a \in Announce : stage[a] = "serving" <=> locals[Home[a]] = a

(***************************************************************************)
(* While some relay keeps refreshing, no period passes in which the entry  *)
(* was never there, although a refresh does not prolong it, an entry may   *)
(* expire right after it and other relays may delete it (Refresh::run,     *)
(* set_origin).                                                            *)
(***************************************************************************)
RepairedEachPeriod == NoRequest /\ (\E a \in Announce : refresh[a] = "idle") => seen

Silent(r) == \A a \in Announce : Home[a] = r => refresh[a] \in {"none", "gone"}

(***************************************************************************)
(* The entry of a relay that crashed or gave up does not outlive it for    *)
(* ever (the expiry that set_origin gives it).                             *)
(***************************************************************************)
StaleExpires ==
  \A r \in Relay : entry = r /\ Silent(r) ~> (entry # r \/ ~Silent(r))

=============================================================================
