----------------------------- MODULE OrderPool -----------------------------
(***************************************************************************)
(* OrderPool (exchange/order_pool.h): the fixed array of Order slots with a *)
(* Treiber stack of free slots, shared without locks by the books of        *)
(* different locates.  free_head_ packs a tag and an index; the tag goes up *)
(* with every successful compare-exchange.                                  *)
(*                                                                          *)
(* One action per atomic access: the load of free_head_, the load or store  *)
(* of pool_next_free, the compare-exchange, the update of size_.  The weak  *)
(* compare-exchange may fail for no reason.  The tag has 32 bits in the     *)
(* code; here it is bounded by MaxTag and never wraps: callers stop asking  *)
(* when the bound is near.                                                  *)
(***************************************************************************)
EXTENDS Integers, Sequences, FiniteSets, SequencesExt

CONSTANTS
  Threads,   \* callers, each driving locates of its own
  Capacity,  \* capacity_, the number of slots
  Null,      \* UINT32_MAX, the index of no slot
  MaxTag     \* bound on the number of successful compare-exchanges

Slots == 0..(Capacity - 1)

\* At least one slot (initFreeList writes the last one); UINT32_MAX is no slot.
ASSUME PoolConstants ==
  /\ IsFiniteSet(Threads)
  /\ Capacity \in Nat \ {0}
  /\ Null \notin Slots
  /\ MaxTag \in Nat

VARIABLES
  head,   \* free_head_
  next,   \* pool_next_free of every slot
  size,   \* size_
  owned,  \* thread -> the slots allocate gave it and it has not given back
  pc,     \* thread -> the access it is about to make
  fh,     \* thread -> its local fh
  nxt,    \* thread -> its local next, in allocate
  arg     \* thread -> the slot being given back, or just obtained

vars == <<head, next, size, owned, pc, fh, nxt, arg>>

FreeSlots == Slots \ UNION {owned[t] : t \in Threads}
Busy == {t \in Threads : pc[t] # "idle"}

Go(t, to) == pc' = [pc EXCEPT ![t] = to]

\* Fault: the tag does not move.
Swapped_SameTag(i) == [tag |-> head.tag, idx |-> i]
\* The word a successful compare-exchange writes.
Swapped(i) == [tag |-> head.tag + 1, idx |-> i]
-----------------------------------------------------------------------------
(* allocate.                                                               *)

\* free_head_ is loaded: an empty stack is the answer nullptr.
LoadHead(t) ==
  /\ fh' = [fh EXCEPT ![t] = head]
  /\ Go(t, IF head.idx = Null THEN "refuse" ELSE "readNext")

StartAllocate(t) ==
  /\ pc[t] = "idle"
  /\ head.tag + Cardinality(Busy) < MaxTag
  /\ LoadHead(t)
  /\ UNCHANGED <<head, next, size, owned, nxt, arg>>

Refuse(t) ==
  /\ pc[t] = "refuse"
  /\ Go(t, "idle")
  /\ UNCHANGED <<head, next, size, owned, fh, nxt, arg>>

ReadNext(t) ==
  /\ pc[t] = "readNext"
  /\ nxt' = [nxt EXCEPT ![t] = next[fh[t].idx]]
  /\ Go(t, "casPop")
  /\ UNCHANGED <<head, next, size, owned, fh, arg>>

PopSucceeds(t) ==
  /\ pc[t] = "casPop" /\ head = fh[t]
  /\ head' = Swapped(nxt[t])
  /\ owned' = [owned EXCEPT ![t] = @ \cup {fh[t].idx}]
  /\ arg' = [arg EXCEPT ![t] = fh[t].idx]
  /\ Go(t, "addSize")
  /\ UNCHANGED <<next, size, fh, nxt>>

\* Fault: the loop goes round without the value the exchange found.
PopFails_Stale(t) ==
  /\ pc[t] = "casPop"
  /\ Go(t, "readNext")
  /\ UNCHANGED <<head, next, size, owned, fh, nxt, arg>>
\* The exchange fails, if only spuriously, and fh is what it found.
PopFails(t) ==
  /\ pc[t] = "casPop"
  /\ LoadHead(t)
  /\ UNCHANGED <<head, next, size, owned, nxt, arg>>

CountUp(t) ==
  /\ pc[t] = "addSize"
  /\ size' = size + 1
  /\ Go(t, "fill")
  /\ UNCHANGED <<head, next, owned, fh, nxt, arg>>

\* OrderBook::addOrder assigns the caller's Order to the new slot, with it the
\* pool_next_free of an order that was never free.
Fill(t) ==
  /\ pc[t] = "fill"
  /\ next' = [next EXCEPT ![arg[t]] = Null]
  /\ Go(t, "idle")
  /\ UNCHANGED <<head, size, owned, fh, nxt, arg>>
-----------------------------------------------------------------------------
(* deallocate.                                                             *)

StartDeallocate(t) ==
  /\ pc[t] = "idle"
  /\ head.tag + Cardinality(Busy) < MaxTag
  /\ \E s \in owned[t] : arg' = [arg EXCEPT ![t] = s]
  /\ fh' = [fh EXCEPT ![t] = head]
  /\ Go(t, "writeNext")
  /\ UNCHANGED <<head, next, size, owned, nxt>>

WriteNext(t) ==
  /\ pc[t] = "writeNext"
  /\ next' = [next EXCEPT ![arg[t]] = fh[t].idx]
  /\ Go(t, "casPush")
  /\ UNCHANGED <<head, size, owned, fh, nxt, arg>>

PushSucceeds(t) ==
  /\ pc[t] = "casPush" /\ head = fh[t]
  /\ head' = Swapped(arg[t])
  /\ owned' = [owned EXCEPT ![t] = @ \ {arg[t]}]
  /\ Go(t, "subSize")
  /\ UNCHANGED <<next, size, fh, nxt, arg>>

PushFails(t) ==
  /\ pc[t] = "casPush"
  /\ fh' = [fh EXCEPT ![t] = head]
  /\ Go(t, "writeNext")
  /\ UNCHANGED <<head, next, size, owned, nxt, arg>>

CountDown(t) ==
  /\ pc[t] = "subSize"
  /\ size' = size - 1
  /\ Go(t, "idle")
  /\ UNCHANGED <<head, next, owned, fh, nxt, arg>>
-----------------------------------------------------------------------------
\* initFreeList and rebuildFreelist: all slots are free, linked in index order.
Init ==
  /\ head = [tag |-> 0, idx |-> 0]
  /\ next = [i \in Slots |-> IF i = Capacity - 1 THEN Null ELSE i + 1]
  /\ size = 0
  /\ owned = [t \in Threads |-> {}]
  /\ pc = [t \in Threads |-> "idle"]
  /\ fh = [t \in Threads |-> head]
  /\ nxt = [t \in Threads |-> Null]
  /\ arg = [t \in Threads |-> 0]

Continue(t) ==
  \/ Refuse(t) \/ ReadNext(t) \/ PopSucceeds(t) \/ PopFails(t) \/ CountUp(t) \/ Fill(t)
  \/ WriteNext(t) \/ PushSucceeds(t) \/ PushFails(t) \/ CountDown(t)
Next == \E t \in Threads : StartAllocate(t) \/ StartDeallocate(t) \/ Continue(t)

\* A thread inside a call keeps running, and an exchange that finds what it
\* expects again and again does not fail spuriously for ever.
Fairness ==
  \A t \in Threads : WF_vars(Continue(t)) /\ SF_vars(PopSucceeds(t) \/ PushSucceeds(t))

Spec == Init /\ [][Next]_vars
FairSpec == Spec /\ Fairness
-----------------------------------------------------------------------------
(* Properties.                                                             *)

\* The links from free_head_ run through the slots of s, in this order.
Chains(s) ==
  /\ head.idx = IF s = <<>> THEN Null ELSE s[1]
  /\ \A i \in DOMAIN s : next[s[i]] = IF i = Len(s) THEN Null ELSE s[i+1]

\* No slot is lost and none is free twice: at every instant, in the middle of any
\* calls, the free list runs once through exactly the slots nobody owns.
FreeListExact == \E s \in SetToSeqs(FreeSlots) : Chains(s)

\* Lock freedom: a call can only be kept from returning by others' successful
\* exchanges, and here there are at most MaxTag of them.
CallsReturn == \A t \in Threads : pc[t] # "idle" ~> pc[t] = "idle"

\* The promise to the callers: slots are handed out one at a time, and nullptr
\* is answered only if the pool was empty at some instant of the call.
Allocator == INSTANCE SlotAllocator
  WITH held <- owned, refused <- {t \in Threads : pc[t] = "refuse"}
AllocatorSpec == Allocator!Spec
=============================================================================
