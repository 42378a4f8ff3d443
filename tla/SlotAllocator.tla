--------------------------- MODULE SlotAllocator ---------------------------
(***************************************************************************)
(* What OrderPool promises its callers: a slot has one owner at a time, and *)
(* a call answers nullptr only if there was an instant, during the call,    *)
(* at which every slot was taken.  OrderPool is shown to implement this.    *)
(***************************************************************************)
EXTENDS FiniteSets

CONSTANTS Threads, Slots

VARIABLES
  held,     \* thread -> the slots it owns
  refused   \* the threads whose call has seen the pool empty

vars == <<held, refused>>

FreeSlots == Slots \ UNION {held[t] : t \in Threads}

Init ==
  /\ held = [t \in Threads |-> {}]
  /\ refused = {}

Allocate(t) ==
  /\ t \notin refused
  /\ \E s \in FreeSlots : held' = [held EXCEPT ![t] = @ \cup {s}]
  /\ UNCHANGED refused

Deallocate(t) ==
  /\ \E s \in held[t] : held' = [held EXCEPT ![t] = @ \ {s}]
  /\ UNCHANGED refused

\* The instant at which the pool is empty, and the answer that follows it.
Exhausted(t) ==
  /\ FreeSlots = {}
  /\ refused' = refused \cup {t}
  /\ UNCHANGED held
Refuse(t) ==
  /\ t \in refused
  /\ refused' = refused \ {t}
  /\ UNCHANGED held

Next == \E t \in Threads : Allocate(t) \/ Deallocate(t) \/ Exhausted(t) \/ Refuse(t)
Spec == Init /\ [][Next]_vars
=============================================================================
