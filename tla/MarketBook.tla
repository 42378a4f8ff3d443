----------------------------- MODULE MarketBook -----------------------------
(***************************************************************************)
(* The strategies' market book (market/book/order_book.h), one per locate   *)
(* on a shared pool and index, and the consumer that feeds it the events    *)
(* the exchange broadcasts (market/book/order_book_consumer.cpp).           *)
(*                                                                          *)
(* The table of levels of a side is a function from prices, as LevelMap     *)
(* promises, with its best price derived (PriceLevelTable!BestIsExtreme).   *)
(* The counters of a level are unsigned 32-bit words, here modulo Word.     *)
(* The lists of orders inside a level are left out: nothing walks them.     *)
(***************************************************************************)
EXTENDS Integers, FiniteSets, FiniteSetsExt

CONSTANTS
  Locates,     \* stock locates
  Refs,        \* order references, each added once (ITCH: globally unique)
  Prices,      \* prices, positive
  Quantities,  \* share counts that occur, positive
  PoolSize,    \* slots of the shared pool
  Word         \* 2^32, the number of values of a level's counters

\* The pool's slots are numbered by such words too.
ASSUME MarketConstants ==
  /\ Prices \subseteq Nat \ {0}
  /\ Quantities \subseteq Nat \ {0}
  /\ PoolSize \in Nat
  /\ Word \in Nat /\ PoolSize < Word
  /\ IsFiniteSet(Refs)

VARIABLES
  live,     \* the shared index and its slots: ref -> OrderSlot
  levels,   \* <<locate, side>> -> price -> PriceLevel: bids_ and asks_
  used,     \* references the market has used
  tick,     \* last_tick_.last_price, 0 before the first one
  reduced   \* history: the levels a partial cancel or an execution has touched

vars == <<live, levels, used, tick, reduced>>

Sides == {"BUY", "SELL"}
Tables == Locates \X Sides
Table(o) == <<o.locate, o.side>>
-----------------------------------------------------------------------------
(* Levels.  An operator takes a table and returns the table it leaves.     *)

\* operator[] gives a price that has no level a fresh one.
LevelAt(t, p) == IF p \in DOMAIN t THEN t[p] ELSE [count |-> 0, total |-> 0]
With(t, p, level) == [q \in DOMAIN t \cup {p} |-> IF q = p THEN level ELSE t[q]]
Without(t, p) == [q \in DOMAIN t \ {p} |-> t[q]]

\* add, on the level.
Linked(t, o) ==
  With(t, o.price, [count |-> (LevelAt(t, o.price).count + 1) % Word,
                    total |-> (LevelAt(t, o.price).total + o.shares) % Word])

\* Fault: the level of an order is kept when it is the last.
Unlinked_Kept(t, o) ==
  With(t, o.price, [count |-> (LevelAt(t, o.price).count - 1) % Word,
                    total |-> (LevelAt(t, o.price).total - o.shares) % Word])
\* unlink_and_free, on the level: the order's original shares are taken off it.
Unlinked(t, o) ==
  LET count == (LevelAt(t, o.price).count - 1) % Word
      total == (LevelAt(t, o.price).total - o.shares) % Word
  IN  IF count = 0 THEN Without(t, o.price)
      ELSE With(t, o.price, [count |-> count, total |-> total])

\* dec_level_qty: a level whose total comes to 0 is erased.
Decreased(t, p, shares) ==
  LET total == (LevelAt(t, p).total - shares) % Word
  IN  IF total = 0 THEN Without(t, p)
      ELSE With(t, p, [count |-> LevelAt(t, p).count, total |-> total])

Drop(f, ref) == [r \in DOMAIN f \ {ref} |-> f[r]]
Put(f, o) == [r \in DOMAIN f \cup {o.ref} |-> IF r = o.ref THEN o ELSE f[r]]
Slot(ref, loc, side, price, shares) ==
  [ref |-> ref, locate |-> loc, side |-> side, price |-> price,
   shares |-> shares, rem |-> shares]

\* Fault: a replacement takes its slot before the replaced order gives its own.
PoolHasRoom_Early(orders) == Cardinality(DOMAIN live) < PoolSize
PoolHasRoom(orders) == Cardinality(DOMAIN orders) < PoolSize

\* add(), on an index and the tables; a full pool drops the order.
AddTo(orders, tables, o) ==
  IF PoolHasRoom(orders)
  THEN /\ live' = Put(orders, o)
       /\ levels' = [tables EXCEPT ![Table(o)] = Linked(@, o)]
  ELSE live' = orders /\ levels' = tables
-----------------------------------------------------------------------------
(* The events.                                                             *)

HandleAdd(loc, ref, side, price, shares) ==
  /\ ref \notin used
  /\ used' = used \cup {ref}
  /\ AddTo(live, levels, Slot(ref, loc, side, price, shares))
  /\ UNCHANGED <<tick, reduced>>

\* D and X of an unknown order are ignored.
HandleDelete(ref) ==
  /\ ref \in DOMAIN live
  /\ LET o == live[ref]
     IN  levels' = [levels EXCEPT ![Table(o)] = Unlinked(@, o)]
  /\ live' = Drop(live, ref)
  /\ UNCHANGED <<used, tick, reduced>>

Amount(o, shares) == IF shares > o.rem THEN o.rem ELSE shares

\* cancel() and execute(): the same reduction, never of more than remains.
Reduce(ref, shares) ==
  LET o == live[ref]
      amount == Amount(o, shares)
      after == Decreased(levels[Table(o)], o.price, amount)
  IN  /\ reduced' = reduced \cup {<<o.locate, o.side, o.price>>}
      /\ IF amount = o.rem
         THEN /\ live' = Drop(live, ref)
              /\ levels' = [levels EXCEPT ![Table(o)] = Unlinked(after, o)]
         ELSE /\ live' = [live EXCEPT ![ref].rem = @ - amount]
              /\ levels' = [levels EXCEPT ![Table(o)] = after]

HandleCancel(ref, shares) ==
  /\ ref \in DOMAIN live
  /\ Reduce(ref, shares)
  /\ UNCHANGED <<used, tick>>

\* E has no price: the tick takes the order's, looked up before the reduction;
\* of an unknown order it keeps the price it has.
HandleExecute(ref, shares) ==
  /\ ref \in DOMAIN live
  /\ Reduce(ref, shares)
  /\ tick' = live[ref].price
  /\ UNCHANGED used

\* P has a price, and its tick is produced whether the order is known or not.
HandleTrade(ref, shares, price) ==
  /\ tick' = price
  /\ IF ref \in DOMAIN live THEN Reduce(ref, shares) ELSE UNCHANGED <<live, levels, reduced>>
  /\ UNCHANGED used

\* U: the old order goes, the new one has its side; ignored if it is unknown.
HandleReplace(old, new, price, shares) ==
  /\ old \in DOMAIN live
  /\ new \notin used
  /\ used' = used \cup {new}
  /\ LET o == live[old]
     IN  AddTo(Drop(live, old), [levels EXCEPT ![Table(o)] = Unlinked(@, o)],
               Slot(new, o.locate, o.side, price, shares))
  /\ UNCHANGED <<tick, reduced>>
-----------------------------------------------------------------------------
Init ==
  /\ live = [r \in {} |-> {}]
  /\ levels = [t \in Tables |-> [p \in {} |-> {}]]
  /\ used = {}
  /\ tick = 0
  /\ reduced = {}

Add == \E loc \in Locates, ref \in Refs, side \in Sides, price \in Prices, shares \in Quantities :
         HandleAdd(loc, ref, side, price, shares)
Delete == \E ref \in Refs : HandleDelete(ref)
Cancel == \E ref \in Refs, shares \in Quantities : HandleCancel(ref, shares)
Execute == \E ref \in Refs, shares \in Quantities : HandleExecute(ref, shares)
Trade == \E ref \in Refs, shares \in Quantities, price \in Prices : HandleTrade(ref, shares, price)
Replace == \E old, new \in Refs, price \in Prices, shares \in Quantities :
             HandleReplace(old, new, price, shares)

Next == Add \/ Delete \/ Cancel \/ Execute \/ Trade \/ Replace
Spec == Init /\ [][Next]_vars
-----------------------------------------------------------------------------
(* Properties.                                                             *)

OrdersAt(t, p) == {r \in DOMAIN live : Table(live[r]) = t /\ live[r].price = p}
Resting(t, p) == MapThenSumSet(LAMBDA r : live[r].rem, OrdersAt(t, p))

\* Without reductions the book is exact: a level that only additions, deletions
\* and replaces have touched is there if and only if an order rests at its price,
\* with the number of those orders and, as long as they fit its word, their shares.
UntouchedLevelsExact ==
  \A t \in Tables, p \in Prices :
    <<t[1], t[2], p>> \notin reduced =>
      /\ p \in DOMAIN levels[t] <=> OrdersAt(t, p) # {}
      /\ p \in DOMAIN levels[t] =>
           levels[t][p] = [count |-> Cardinality(OrdersAt(t, p)),
                           total |-> Resting(t, p) % Word]

\* A known order is never lost to a full pool by a replace: the new one takes its
\* slot.
ReplacementTakesSlot ==
  [][\A new \in used' \ used, old \in DOMAIN live \ DOMAIN live' : new \in DOMAIN live']_vars

\* Documented of unlink_and_free: an empty level is removed.
EmptyLevelRemoved == \A t \in Tables : \A p \in DOMAIN levels[t] : OrdersAt(t, p) # {}
=============================================================================
