-------------------------- MODULE PriceLevelTable --------------------------
(***************************************************************************)
(* OrderBook::PriceLevelTable (market/book/order_book.h): the levels of one *)
(* side in an open-addressing hash table with tombstones, that doubles when *)
(* it has no empty slot left, and the cached best price.                    *)
(*                                                                          *)
(* The hash is any function of the price: Init takes every one of them,     *)
(* given by its leading bits, of which a table of cap slots looks at the    *)
(* first log2(cap).  What callers keep in a level is abstracted to a        *)
(* counter that a visit raises, so that a level that is lost, kept too long *)
(* or not reset shows.                                                      *)
(***************************************************************************)
EXTENDS Integers

CONSTANTS
  Prices,    \* prices, positive
  Infinite,  \* INT64_MAX, above every price
  InitCap,   \* kInitCapacity
  MaxCap,    \* bound on the capacity: a call that would grow past it is not made
  MaxLevel   \* bound on the counter of a level

Empty == -2       \* kEmpty: never used
Tombstone == -1   \* kTombstone: erased

\* No price is a sentinel.  Capacities are powers of two; nothing here depends on it.
ASSUME TableConstants ==
  /\ Infinite \in Nat /\ Prices \subseteq 1..(Infinite - 1)
  /\ InitCap \in Nat \ {0} /\ MaxCap \in Nat /\ InitCap <= MaxCap

VARIABLES
  isBid,   \* is_bid_, fixed: the best price is the highest
  hash,    \* the leading bits of price * 0x9E37..., fixed
  cap,     \* cap_
  slots,   \* slots_
  count,   \* count_
  best     \* best_

vars == <<isBid, hash, cap, slots, count, best>>

FreshSlots(c) == [i \in 0..(c - 1) |-> [price |-> Empty, lvl |-> 0]]
\* best_ of a table without levels: INT64_MIN or INT64_MAX.
None == IF isBid THEN 0 ELSE Infinite
Better(p, q) == IF isBid THEN p > q ELSE p < q
-----------------------------------------------------------------------------
\* The n-th slot of the probe sequence of p in a table of c slots.
Probe(c, p, n) == ((hash[p] \div (MaxCap \div c)) + n) % c

\* Where a search for p may stop: at p itself or at an empty slot.
Ends(p) == {n \in 0..(cap - 1) : slots[Probe(cap, p, n)].price \in {p, Empty}}
Full(p) == Ends(p) = {}
End(p) == Probe(cap, p, CHOOSE n \in Ends(p) : \A k \in Ends(p) : n <= k)
Found(p) == ~Full(p) /\ slots[End(p)].price = p

\* find: the level of p, if there is one.
Find(p) == slots[End(p)].lvl

\* The first tombstone on the way to the end of the search, else that end.
Tombs(p) == {n \in 0..(cap - 1) :
               /\ slots[Probe(cap, p, n)].price = Tombstone
               /\ \A k \in Ends(p) : n < k}
InsertionSlot(p) ==
  IF Tombs(p) = {} THEN End(p)
  ELSE Probe(cap, p, CHOOSE n \in Tombs(p) : \A k \in Tombs(p) : n <= k)

\* The first empty slot of table t for price p.
Vacant(t, c, p) ==
  LET free == {n \in 0..(c - 1) : t[Probe(c, p, n)].price = Empty}
  IN  Probe(c, p, CHOOSE n \in free : \A k \in free : n <= k)

Placed(t, c, s) == [t EXCEPT ![Vacant(t, c, s.price)] = s]

\* grow: the levels are placed again, in slot order; tombstones are dropped.
Grown ==
  LET moved[n \in 0..cap] ==    \* the new table with what was in the first n slots
        IF n = 0 THEN FreshSlots(2 * cap)
        ELSE IF slots[n - 1].price \in {Empty, Tombstone} THEN moved[n - 1]
        ELSE Placed(moved[n - 1], 2 * cap, slots[n - 1])
  IN  moved[cap]

\* Fault: an inserted level keeps what the tombstone's held.
NewLevel_Residue(i) == slots[i].lvl
\* The level a new price starts with.
NewLevel(i) == 0

BestWith(p) == IF Better(p, best) THEN p ELSE best

\* operator[], and the caller's change to the level it refers to.
VisitExisting(p) ==
  /\ Found(p)
  /\ Find(p) < MaxLevel
  /\ slots' = [slots EXCEPT ![End(p)].lvl = @ + 1]
  /\ best' = BestWith(p)
  /\ UNCHANGED <<isBid, hash, cap, count>>

VisitNew(p) ==
  /\ ~Found(p) /\ ~Full(p)
  /\ LET i == InsertionSlot(p)
     IN  slots' = [slots EXCEPT ![i] = [price |-> p, lvl |-> NewLevel(i) + 1]]
  /\ count' = count + 1
  /\ best' = BestWith(p)
  /\ UNCHANGED <<isBid, hash, cap>>

VisitGrowing(p) ==
  /\ Full(p)
  /\ 2 * cap <= MaxCap
  /\ cap' = 2 * cap
  /\ slots' = [Grown EXCEPT ![Vacant(Grown, 2 * cap, p)] = [price |-> p, lvl |-> 1]]
  /\ count' = count + 1
  /\ best' = BestWith(p)
  /\ UNCHANGED <<isBid, hash>>

\* rescan_best over table t.
Rescan(t) ==
  LET ps == {t[i].price : i \in DOMAIN t} \ {Empty, Tombstone}
  IN  IF ps = {} THEN None ELSE CHOOSE p \in ps : \A q \in ps : ~Better(q, p)

\* Faults: the slot is made empty; the best price stays.
Erased_Emptied(i) == [slots EXCEPT ![i].price = Empty]
BestWithout_Stale(p, t) == best
Erased(i) == [slots EXCEPT ![i].price = Tombstone]
CountDown == count - 1
BestWithout(p, t) == IF p = best THEN Rescan(t) ELSE best

\* erase: nothing happens for a price that is not there.
Erase(p) ==
  /\ Found(p)
  /\ slots' = Erased(End(p))
  /\ count' = CountDown
  /\ best' = BestWithout(p, slots')
  /\ UNCHANGED <<isBid, hash, cap>>
-----------------------------------------------------------------------------
Init ==
  /\ isBid \in BOOLEAN
  /\ hash \in [Prices -> 0..(MaxCap - 1)]
  /\ cap = InitCap
  /\ slots = FreshSlots(InitCap)
  /\ count = 0
  /\ best = None

Next ==
  \E p \in Prices : VisitExisting(p) \/ VisitNew(p) \/ VisitGrowing(p) \/ Erase(p)
Spec == Init /\ [][Next]_vars
-----------------------------------------------------------------------------
(* Properties.                                                             *)

\* A price has one slot, and a search finds it there, whichever prices were
\* inserted, erased and rehashed before: tombstones break no probe sequence.
EveryLevelFound ==
  \A i \in DOMAIN slots :
    slots[i].price \in Prices =>
      Found(slots[i].price) /\ End(slots[i].price) = i

\* The cached top of book is the best price there is a level for, after every
\* insertion and erasure: a stale one would be quoted to the strategies.
BestIsExtreme ==
  /\ best = None <=> \A p \in Prices : ~Found(p)
  /\ best # None => Found(best) /\ \A p \in Prices : Found(p) => ~Better(p, best)

\* Read through find, the table is a map from prices to levels.
Map == INSTANCE LevelMap WITH levels <- [p \in {q \in Prices : Found(q)} |-> Find(p)]
MapSpec == Map!Spec
=============================================================================
