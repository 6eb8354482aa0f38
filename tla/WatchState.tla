----------------------------- MODULE WatchState -----------------------------
(***************************************************************************)
(* The shared cell State<T> of moq-transport/src/watch/state.rs.  Every    *)
(* queue, cache and subscription of the transport is built on it.          *)
(*                                                                         *)
(* A cell holds a value, an epoch that every notification increments, the  *)
(* wakers of the tasks that wait for the next change, and a flag saying    *)
(* that one of the two halves made by split() has lost its last handle.    *)
(* Each critical section (everything done between taking the Mutex and     *)
(* releasing it) is one action; a task that waits goes through several of  *)
(* them: it inspects the value and takes an epoch, releases the lock, is   *)
(* polled later, registers its waker, and is woken and polled again.       *)
(***************************************************************************)
EXTENDS Naturals

CONSTANTS
  Handle,    \* the owners of a State handle, each a task of its own
  Left,      \* the handles that descend from the first half of split()
  Value,     \* what the cell may contain
  MaxEpoch   \* bound on the notifications caused by writes

ASSUME LeftAssumption  == Left \subseteq Handle
ASSUME EpochAssumption == MaxEpoch \in Nat

VARIABLES
  value,     \* StateInner.value
  epoch,     \* StateInner.epoch
  wakers,    \* StateInner.wakers, one per task (register replaces)
  dropped,   \* StateInner.dropped is None
  live,      \* the handles that exist
  dropping,  \* the halves whose last Arc is gone, StateDrop::drop not yet run
  phase,     \* what the task that owns a handle is doing
  seen,      \* the epoch inside the task's StateChanged future
  saw        \* the value the task last acted on

vars == <<value, epoch, wakers, dropped, live, dropping, phase, seen, saw>>

Side == {"left", "right"}

\* The handles that share one Arc<StateDrop>.
HandlesOf(s) == IF s = "left" THEN Left ELSE Handle \ Left

SideOf(h) == IF h \in Left THEN "left" ELSE "right"

(***************************************************************************)
(* "running": executing; "polling": holds a StateChanged the executor is   *)
(* about to poll; "parked": that poll returned Pending; "ended": modified  *)
(* returned None; "gone": the handle does not exist.                       *)
(***************************************************************************)
Phase == {"running", "polling", "parked", "ended", "gone"}

Waiting(h) == phase[h] \in {"polling", "parked"}

\* Fault: notify neither wakes nor drains the registered wakers.
NotifyWithoutWake ==
  /\ epoch' = epoch + 1
  /\ UNCHANGED <<wakers, phase>>

\* StateInner::notify: bump the epoch, drain the wakers and wake each task.
Notify ==
  /\ epoch' = epoch + 1
  /\ wakers' = {}
  /\ phase' = [h \in Handle |->
                 IF h \in wakers /\ phase[h] = "parked" THEN "polling" ELSE phase[h]]

\* State::new followed by split: one handle on each half that is used.
Init ==
  /\ value \in Value
  /\ epoch = 0
  /\ wakers = {}
  /\ dropped = FALSE
  /\ live \in SUBSET Handle
  /\ \A s \in Side : HandlesOf(s) # {} => \E h \in HandlesOf(s) : live \cap HandlesOf(s) = {h}
  /\ dropping = {}
  /\ phase = [h \in Handle |-> IF h \in live THEN "running" ELSE "gone"]
  /\ seen = [h \in Handle |-> 0]
  /\ saw = [h \in Handle |-> value]

\* lock(): the caller finds a value it has not acted on yet and returns it.
Observe(h) ==
  /\ phase[h] = "running"
  /\ saw[h] # value
  /\ saw' = [saw EXCEPT ![h] = value]
  /\ UNCHANGED <<value, epoch, wakers, dropped, live, dropping, phase, seen>>

\* lock() and nothing new: modified() hands out a future with today's epoch.
Modified(h) ==
  /\ phase[h] = "running"
  /\ saw[h] = value
  /\ ~dropped
  /\ seen' = [seen EXCEPT ![h] = epoch]
  /\ phase' = [phase EXCEPT ![h] = "polling"]
  /\ UNCHANGED <<value, epoch, wakers, dropped, live, dropping, saw>>

\* lock() and nothing new, but the cell was dropped: modified() is None.
ModifiedNone(h) ==
  /\ phase[h] = "running"
  /\ saw[h] = value
  /\ dropped
  /\ phase' = [phase EXCEPT ![h] = "ended"]
  /\ UNCHANGED <<value, epoch, wakers, dropped, live, dropping, seen, saw>>

(***************************************************************************)
(* StateChanged::poll.  A parked task may be polled too: another branch of *)
(* its select! woke it.                                                    *)
(***************************************************************************)
PollReady(h) ==
  /\ Waiting(h)
  /\ epoch > seen[h]
  /\ phase' = [phase EXCEPT ![h] = "running"]
  /\ UNCHANGED <<value, epoch, wakers, dropped, live, dropping, seen, saw>>

\* Fault: poll parks without comparing the epochs.
PollPendingUnchecked(h) ==
  /\ Waiting(h)
  /\ wakers' = wakers \cup {h}
  /\ phase' = [phase EXCEPT ![h] = "parked"]
  /\ UNCHANGED <<value, epoch, dropped, live, dropping, seen, saw>>

PollPending(h) ==
  /\ Waiting(h)
  /\ ~(epoch > seen[h])
  /\ wakers' = wakers \cup {h}
  /\ phase' = [phase EXCEPT ![h] = "parked"]
  /\ UNCHANGED <<value, epoch, dropped, live, dropping, seen, saw>>

\* The future is dropped by a select!; its waker stays registered.
Cancel(h) ==
  /\ Waiting(h)
  /\ phase' = [phase EXCEPT ![h] = "running"]
  /\ UNCHANGED <<value, epoch, wakers, dropped, live, dropping, seen, saw>>

\* Fault: lock_mut does not look at dropped.
LockMutUnchecked(h, v) ==
  /\ phase[h] = "running"
  /\ epoch < MaxEpoch
  /\ value' = v
  /\ Notify
  /\ UNCHANGED <<dropped, live, dropping, seen, saw>>

\* lock_mut() or into_mut(), a write (perhaps of the same value), StateMut's drop.
LockMut(h, v) ==
  /\ phase[h] = "running"
  /\ ~dropped
  /\ epoch < MaxEpoch
  /\ value' = v
  /\ Notify
  /\ UNCHANGED <<dropped, live, dropping, seen, saw>>

\* State::clone, or StateWeak::upgrade while a strong handle g of the half exists.
Clone(g, h) ==
  /\ g \in live
  /\ h \notin live
  /\ SideOf(g) = SideOf(h)
  /\ live' = live \cup {h}
  /\ phase' = [phase EXCEPT ![h] = "running"]
  /\ saw' = [saw EXCEPT ![h] = saw[g]]
  /\ UNCHANGED <<value, epoch, wakers, dropped, dropping, seen>>

\* A handle goes away; with the last one of its half, so does the Arc<StateDrop>.
DropHandle(h) ==
  /\ phase[h] \in {"running", "ended"}
  /\ live' = live \ {h}
  /\ phase' = [phase EXCEPT ![h] = "gone"]
  /\ dropping' = IF live' \cap HandlesOf(SideOf(h)) = {}
                   THEN dropping \cup {SideOf(h)} ELSE dropping
  /\ UNCHANGED <<value, epoch, wakers, dropped, seen, saw>>

\* Fault: StateDrop::drop sets the flag and does not notify.
StateDropSilent(s) ==
  /\ s \in dropping
  /\ dropping' = dropping \ {s}
  /\ dropped' = TRUE
  /\ UNCHANGED <<value, epoch, wakers, phase, live, seen, saw>>

\* StateDrop::drop, which takes the lock on its own.
StateDrop(s) ==
  /\ s \in dropping
  /\ dropping' = dropping \ {s}
  /\ dropped' = TRUE
  /\ Notify
  /\ UNCHANGED <<value, live, seen, saw>>

Next ==
  \/ \E h \in Handle :
       \/ Observe(h)
       \/ Modified(h)
       \/ ModifiedNone(h)
       \/ PollReady(h)
       \/ PollPending(h)
       \/ Cancel(h)
       \/ DropHandle(h)
       \/ \E v \in Value : LockMut(h, v)
       \/ \E g \in Handle : Clone(g, h)
  \/ \E s \in Side : StateDrop(s)

Spec == Init /\ [][Next]_vars

(***************************************************************************)
(* The executor polls a task that was woken, and a drop that has begun     *)
(* runs to its end.  Nothing makes a parked task run again by itself.      *)
(***************************************************************************)
Fairness ==
  /\ \A h \in Handle : WF_vars(phase[h] = "polling" /\ (PollReady(h) \/ PollPending(h)))
  /\ \A s \in Side : WF_vars(StateDrop(s))

FairSpec == Spec /\ Fairness

-----------------------------------------------------------------------------

\* Type correctness of the cell and of the tasks around it.
TypeOK ==
  /\ value \in Value
  /\ epoch \in Nat
  /\ wakers \subseteq Handle
  /\ dropped \in BOOLEAN
  /\ live \subseteq Handle
  /\ dropping \subseteq Side
  /\ phase \in [Handle -> Phase]
  /\ seen \in [Handle -> Nat]
  /\ saw \in [Handle -> Value]

(***************************************************************************)
(* No wakeup is lost between modified() and the poll that parks: a task    *)
(* that sleeps has acted on the current value and the cell is not dropped. *)
(***************************************************************************)
NoLostWakeup ==
  \A h \in Handle : phase[h] = "parked" => saw[h] = value /\ ~dropped

(***************************************************************************)
(* A task that is told the cell is dropped has acted on its last value:    *)
(* closing a cell hides nothing that was written before.                   *)
(***************************************************************************)
EndedSawLast ==
  \A h \in Handle : phase[h] = "ended" => saw[h] = value

(***************************************************************************)
(* A waiting task whose value is out of date, or whose cell was dropped,   *)
(* is released in the end.                                                 *)
(***************************************************************************)
WaiterReleased ==
  \A h \in Handle : (Waiting(h) /\ (saw[h] # value \/ dropped)) ~> ~Waiting(h)

(***************************************************************************)
(* The inductive invariant.  A future knows whether the cell is unchanged  *)
(* since its task looked at it: its epoch is never ahead, and while it is  *)
(* current the value is the one the task saw and the cell is not dropped.  *)
(* A parked task's future is current and its waker is registered.          *)
(***************************************************************************)
EpochGuardsSnapshot ==
  \A h \in Handle :
    Waiting(h) => /\ seen[h] <= epoch
                  /\ seen[h] = epoch => saw[h] = value /\ ~dropped

ParkedIsRegistered ==
  \A h \in Handle : phase[h] = "parked" => h \in wakers /\ seen[h] = epoch

EndedIsFinal ==
  \A h \in Handle : phase[h] = "ended" => dropped /\ saw[h] = value

WatchInv == TypeOK /\ EpochGuardsSnapshot /\ ParkedIsRegistered /\ EndedIsFinal

=============================================================================
