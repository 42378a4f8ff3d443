--------------------------- MODULE MatchingEngine ---------------------------
(***************************************************************************)
(* The authoritative matching engine (exchange/matching_engine.cpp) with   *)
(* the order books it owns (exchange/order_book.cpp): one book per locate, *)
(* one OrderPool and one OrderMap shared by all of them.                   *)
(*                                                                         *)
(* A command is one call of processAdd / processCancel /                   *)
(* processCancelShares / processReplace.  The calls on one engine are      *)
(* serial, so a call is modelled as its entry step (validation, removal of *)
(* the replaced order), one step per iteration of the matching loop and    *)
(* one settling step; `phase' lets no other command in between.            *)
(***************************************************************************)
EXTENDS Integers, Sequences, FiniteSets, SequencesExt

CONSTANTS
  Locates,      \* locates below kMaxLocate
  BadLocate,    \* a locate book_for refuses
  Refs,         \* order references, each supplied once (ITCH: globally unique)
  Clients,      \* user ids that may own several orders (kStrategyUserId, TCP users)
  Prices,       \* limit prices that occur, all positive
  MaxPrice,     \* UINT32_MAX, the price a market buy order is given
  Quantities,   \* quantities that occur, all positive
  PoolSize,     \* slots of the shared OrderPool
  NoOrder       \* no local Order: the last command was not matched

\* The constants a book can be built from: prices lie strictly between the two
\* extreme market prices, quantities are positive, 0 is neither a reference nor
\* a user.
ASSUME EngineConstants ==
  /\ Prices \subseteq Nat \ {0}
  /\ MaxPrice \in Nat /\ \A p \in Prices : p < MaxPrice
  /\ Quantities \subseteq Nat \ {0}
  /\ PoolSize \in Nat
  /\ BadLocate \notin Locates
  /\ 0 \notin Refs /\ 0 \notin Clients
  /\ IsFiniteSet(Refs)

VARIABLES
  orders,    \* the shared index and the slots it points to: resting ref -> Order
  queue,     \* PriceLevel: the intrusive FIFO list of refs
  total,     \* PriceLevel.total_qty (0: the level is not in the map)
  poolUsed,  \* OrderPool::size()
  nextSeq,   \* next_sequence_
  used,      \* references already supplied by the callers
  phase,     \* "idle", or "matching" inside matchBuyOrder/matchSellOrder
  cmd,       \* the running or last command: which handler, which TIF
  order,     \* its local Order, NoOrder if it has none
  out        \* its out_responses vector

book == <<orders, queue, total, poolUsed>>
vars == <<orders, queue, total, poolUsed, nextSeq, used, phase, cmd, order, out>>
-----------------------------------------------------------------------------
Sides == {"BUY", "SELL"}
Tifs  == {"DAY", "IOC", "FOK"}
Users == Clients \cup Refs          \* a historical order is owned by its own ref
Levels == Locates \X Sides \X Prices

\* struct Order; `status' is left out, it is a function of filled and remaining.
Order == [ref: Refs, user: Users, locate: Locates, side: Sides,
          price: Prices \cup {0, MaxPrice}, orig: Nat, rem: Nat, filled: Nat, seq: Nat]

NewOrder(ref, user, loc, side, price, qty) ==
  [ref |-> ref, user |-> user, locate |-> loc, side |-> side, price |-> price,
   orig |-> qty, rem |-> qty, filled |-> 0, seq |-> nextSeq]

Level(o) == <<o.locate, o.side, o.price>>
Opposite(side) == IF side = "BUY" THEN "SELL" ELSE "BUY"

\* Fault: the limit price itself does not trade.
Crosses_Strict(side, price, p) == IF side = "BUY" THEN p < price ELSE p > price

\* An order of `side' limited to `price' may trade with a resting price p.
Crosses(side, price, p) == IF side = "BUY" THEN p <= price ELSE p >= price

\* bids_ is sorted by std::greater, asks_ by std::less.
Better(side, p, q) == IF side = "BUY" THEN p > q ELSE p < q

\* A market order is given the extreme price of its side.
MarketPrice(side) == IF side = "BUY" THEN MaxPrice ELSE 0
IsMarket(tif, price) == tif \in {"IOC", "FOK"} /\ price = 0
-----------------------------------------------------------------------------
(* Responses (BinaryResponse).                                             *)

ErrorCodes == {"INVALID_COMMAND_TYPE", "INVALID_SIDE", "INVALID_PRICE_QTY_USER",
               "FOK_NO_FULL_FILL", "MKT_NO_LIQUIDITY", "POOL_FULL", "ORDER_NOT_FOUND"}
Error(code) == [type |-> "ERROR", code |-> code]
Ack(type, ref) == [type |-> type, ref |-> ref]
Trade(maker, qty) ==
  [type |-> "TRADE", ref |-> maker.ref, side |-> maker.side,
   price |-> maker.price, qty |-> qty]
IsTrade(r) == r.type = "TRADE"
-----------------------------------------------------------------------------
(* OrderBook operations.                                                   *)

\* Linking at the tail, unlinking wherever the order is in the list.
\* Fault: the head is unlinked, whatever the order.
Linked(q, ref) == Append(q, ref)
Unlinked_Head(q, ref) == Tail(q)
Unlinked(q, ref) == RemoveAt(q, CHOOSE i \in DOMAIN q : q[i] = ref)

\* OrderMap::insert and erase.  Fault: the entry of a removed order stays.
Indexed(o) == [r \in DOMAIN orders \cup {o.ref} |-> IF r = o.ref THEN o ELSE orders[r]]
Unindexed_Stays(ref) == orders
Unindexed(ref) == [r \in DOMAIN orders \ {ref} |-> orders[r]]

\* OrderPool::deallocate.  Fault: the slot is lost.
SlotFreed_Lost == poolUsed
SlotFreed == poolUsed - 1

\* addOrder: append to the level's list, count it in, index it.
Rest(o) ==
  /\ queue' = [queue EXCEPT ![Level(o)] = Linked(@, o.ref)]
  /\ total' = [total EXCEPT ![Level(o)] = @ + o.rem]
  /\ orders' = Indexed(o)
  /\ poolUsed' = poolUsed + 1

\* removeOrder(Order*), for an order whose level still counts `counted' of it:
\* unlink, erase an emptied level, drop the index entry, give the slot back.
RemoveCounted(ref, counted) ==
  LET l == Level(orders[ref])
      rest == Unlinked(queue[l], ref)
  IN  /\ queue' = [queue EXCEPT ![l] = rest]
      /\ total' = [total EXCEPT ![l] = IF rest = <<>> THEN 0 ELSE @ - counted]
      /\ orders' = Unindexed(ref)
      /\ poolUsed' = SlotFreed
RemoveOrder(ref) == RemoveCounted(ref, orders[ref].rem)

\* Both faults were once in the code (order_book.h): the level reduced twice, a
\* partial cancel counted as a fill.
LevelReduced_Twice(l, amount) == total[l] - 2 * amount
LevelReduced(l, amount) == total[l] - amount
FillCredit_Always(amount, isTrade) == amount
FillCredit(amount, isTrade) == IF isTrade THEN amount ELSE 0

\* reduceOrderQty (a trade) and reduceQtyCancel (no trade).
Reduce(ref, amount, isTrade) ==
  LET l == Level(orders[ref])
  IN  /\ orders' = [orders EXCEPT ![ref].rem = @ - amount,
                                 ![ref].filled = @ + FillCredit(amount, isTrade)]
      /\ total' = [total EXCEPT ![l] = LevelReduced(l, amount)]
      /\ UNCHANGED <<queue, poolUsed>>

SharesLeft(ords, refs) == MapThenSumSet(LAMBDA r : ords[r].rem, refs)

\* Fault: the limit price is not a bound of the scan.
AvailableQty_AnyPrice(loc, side, price) ==
  SharesLeft(orders,
    {r \in DOMAIN orders : orders[r].locate = loc /\ orders[r].side = Opposite(side)})

\* availableQty: everything on the other side within the price, whoever owns it.
AvailableQty(loc, side, price) ==
  SharesLeft(orders,
    {r \in DOMAIN orders : /\ orders[r].locate = loc
                           /\ orders[r].side = Opposite(side)
                           /\ Crosses(side, price, orders[r].price)})

\* getBestBid/getBestAsk(exclude_user_id): the first order of another user, level
\* by level in price order, and within a level from the head of its list.
Others(l, user) == {i \in DOMAIN queue[l] : orders[queue[l][i]].user # user}
\* Fault: a level is searched from its tail.
IsBest_FromTail(l, i, loc, side, user) ==
  /\ l[1] = loc /\ l[2] = side
  /\ i \in Others(l, user)
  /\ \A j \in Others(l, user) : i >= j
  /\ \A m \in Levels : /\ m[1] = loc /\ m[2] = side
                       /\ Better(side, m[3], l[3])
                       => Others(m, user) = {}
IsBest(l, i, loc, side, user) ==
  /\ l[1] = loc /\ l[2] = side
  /\ i \in Others(l, user)
  /\ \A j \in Others(l, user) : i <= j
  /\ \A m \in Levels : /\ m[1] = loc /\ m[2] = side
                       /\ Better(side, m[3], l[3])
                       => Others(m, user) = {}
-----------------------------------------------------------------------------
(* processAdd.                                                             *)

\* The price of an order that may have none only as IOC or FOK.
LimitPrice(tif, side, price) == IF IsMarket(tif, price) THEN MarketPrice(side) ELSE price

\* Every order needs a positive quantity, an owner, a reference and, unless it is
\* a market order, a price.
WellFormed(ref, price, qty, user, tif) ==
  /\ price = 0 => IsMarket(tif, price)
  /\ qty # 0 /\ user # 0 /\ ref # 0

\* The validations in their order; "NONE" when the order goes on to match.
AddError(loc, ref, side, price, qty, user, tif) ==
  IF loc \notin Locates THEN "INVALID_COMMAND_TYPE"
  ELSE IF side \notin Sides THEN "INVALID_SIDE"
  ELSE IF ~WellFormed(ref, price, qty, user, tif) THEN "INVALID_PRICE_QTY_USER"
  ELSE IF /\ tif = "FOK"
          /\ AvailableQty(loc, side, LimitPrice(tif, side, price)) < qty
       THEN "FOK_NO_FULL_FILL"
  ELSE "NONE"

\* The call returns without a matching loop; `tif' is only recorded.
Reply(op, tif, response) ==
  /\ cmd' = [op |-> op, tif |-> tif]
  /\ order' = NoOrder
  /\ out' = <<response>>
  /\ phase' = "idle"
  /\ UNCHANGED nextSeq

\* The local Order is built and matchBuyOrder/matchSellOrder is entered.
EnterMatching(op, tif, o) ==
  /\ cmd' = [op |-> op, tif |-> tif]
  /\ order' = o
  /\ out' = <<>>
  /\ phase' = "matching"
  /\ nextSeq' = nextSeq + 1

ProcessAdd(loc, ref, side, price, qty, user, tif) ==
  /\ phase = "idle"
  /\ ref \notin used
  /\ used' = used \cup ({ref} \cap Refs)
  /\ UNCHANGED book
  /\ LET err == AddError(loc, ref, side, price, qty, user, tif)
     IN  IF err # "NONE"
         THEN Reply("ADD", tif, Error(err))
         ELSE EnterMatching("ADD", tif,
                NewOrder(ref, user, loc, side, LimitPrice(tif, side, price), qty))
-----------------------------------------------------------------------------
(* matchBuyOrder / matchSellOrder, one iteration, and what follows them.    *)

\* The loop goes on while the order has shares left and crosses the best price.
MayTrade(l, i) ==
  /\ order.rem > 0
  /\ IsBest(l, i, order.locate, Opposite(order.side), order.user)
  /\ Crosses(order.side, order.price, l[3])

TradeQty(taker, maker) == IF taker.rem < maker.rem THEN taker.rem ELSE maker.rem

MatchStep ==
  /\ phase = "matching"
  /\ \E l \in Levels : \E i \in DOMAIN queue[l] :
       /\ MayTrade(l, i)
       /\ LET maker == orders[queue[l][i]]
              qty == TradeQty(order, maker)
          IN  /\ order' = [order EXCEPT !.rem = @ - qty, !.filled = @ + qty]
              /\ out' = Append(out, Trade(maker, qty))
              /\ IF qty = maker.rem
                 THEN RemoveCounted(maker.ref, qty)
                 ELSE Reduce(maker.ref, qty, TRUE)
  /\ UNCHANGED <<nextSeq, used, phase, cmd>>

MatchingDone ==
  /\ phase = "matching"
  /\ ~ \E l \in Levels : \E i \in DOMAIN queue[l] : MayTrade(l, i)

\* A response is added, or none, and the call returns.
Finish(responses) ==
  /\ MatchingDone
  /\ phase' = "idle"
  /\ out' = out \o responses
  /\ UNCHANGED <<nextSeq, used, cmd, order>>

SettleFilled ==
  /\ order.rem = 0
  /\ Finish(<<Ack("FILLED", order.ref)>>)
  /\ UNCHANGED book

\* IOC: the rest is void; an error only if nothing at all was traded.
SettleIOC ==
  /\ order.rem > 0 /\ cmd.tif = "IOC"
  /\ Finish(IF order.filled = 0 THEN <<Error("MKT_NO_LIQUIDITY")>> ELSE <<>>)
  /\ UNCHANGED book

SettleFOK ==
  /\ order.rem > 0 /\ cmd.tif = "FOK"
  /\ Finish(<<Error("FOK_NO_FULL_FILL")>>)
  /\ UNCHANGED book

\* Fault: the result of addOrder is not looked at.
SettleRest_Unchecked ==
  /\ order.rem > 0 /\ cmd.tif = "DAY"
  /\ Finish(<<Ack("OK", order.ref)>>)
  /\ IF poolUsed < PoolSize THEN Rest(order) ELSE UNCHANGED book
\* DAY: the rest goes into the book, if the pool has a slot.
SettleRest ==
  /\ order.rem > 0 /\ cmd.tif = "DAY"
  /\ IF poolUsed < PoolSize
     THEN Finish(<<Ack("OK", order.ref)>>) /\ Rest(order)
     ELSE Finish(<<Error("POOL_FULL")>>) /\ UNCHANGED book

Settle == phase = "matching" /\ (SettleFilled \/ SettleIOC \/ SettleFOK \/ SettleRest)
-----------------------------------------------------------------------------
(* processCancel, processCancelShares, processReplace.                     *)

\* A known reference is used with the locate it rests in.
Owns(loc, ref, user) ==
  /\ loc \in Locates
  /\ ref \in DOMAIN orders
  /\ orders[ref].user = user
Addressed(loc, ref) ==
  ref \in DOMAIN orders /\ loc \in Locates => orders[ref].locate = loc

ProcessCancel(loc, ref, user) ==
  /\ phase = "idle"
  /\ Addressed(loc, ref)
  /\ UNCHANGED used
  /\ IF Owns(loc, ref, user)
     THEN RemoveOrder(ref) /\ Reply("CANCEL", "DAY", Ack("CANCELLED", ref))
     ELSE UNCHANGED book /\ Reply("CANCEL", "DAY", Error("ORDER_NOT_FOUND"))

\* The request asks for all that is left.
CancelsAll(ref, shares) == shares >= orders[ref].rem

ProcessCancelShares(loc, ref, shares, user) ==
  /\ phase = "idle"
  /\ Addressed(loc, ref)
  /\ UNCHANGED used
  /\ CASE ~Owns(loc, ref, user) ->
            UNCHANGED book /\ Reply("CANCEL", "DAY", Error("ORDER_NOT_FOUND"))
       [] Owns(loc, ref, user) /\ CancelsAll(ref, shares) ->
            RemoveOrder(ref) /\ Reply("CANCEL", "DAY", Ack("CANCELLED", ref))
       [] OTHER ->
            Reduce(ref, shares, FALSE) /\ Reply("CANCEL", "DAY", Ack("OK", ref))

\* The side is that of the old order, looked up by the caller; the new order is
\* owned by its own reference.
ProcessReplace(loc, old, new, price, qty, user) ==
  /\ phase = "idle"
  /\ Addressed(loc, old)
  /\ new \notin used
  /\ used' = used \cup {new}
  /\ IF Owns(loc, old, user)
     THEN /\ RemoveOrder(old)
          /\ EnterMatching("REPLACE", "DAY",
                           NewOrder(new, new, loc, orders[old].side, price, qty))
     ELSE UNCHANGED book /\ Reply("REPLACE", "DAY", Error("ORDER_NOT_FOUND"))
-----------------------------------------------------------------------------
Init ==
  /\ orders = [r \in {} |-> NoOrder]
  /\ queue = [l \in Levels |-> <<>>]
  /\ total = [l \in Levels |-> 0]
  /\ poolUsed = 0
  /\ nextSeq = 1
  /\ used = {}
  /\ phase = "idle"
  /\ cmd = [op |-> "NONE", tif |-> "DAY"]
  /\ order = NoOrder
  /\ out = <<>>

AnyLocate == Locates \cup {BadLocate}

Add ==
  \E loc \in Locates, ref \in Refs, side \in Sides, price \in Prices \cup {0},
     qty \in Quantities, tif \in Tifs :
    \E user \in Clients \cup {ref} :
      ProcessAdd(loc, ref, side, price, qty, user, tif)

\* Adds the validations refuse: one argument at a time is out of range.
AddMalformed ==
  \E bad \in {"locate", "ref", "side", "qty", "user"}, ref \in Refs,
     price \in Prices, qty \in Quantities, tif \in Tifs :
    ProcessAdd(IF bad = "locate" THEN BadLocate ELSE CHOOSE loc \in Locates : TRUE,
               IF bad = "ref" THEN 0 ELSE ref,
               IF bad = "side" THEN "INVALID" ELSE "BUY",
               price,
               IF bad = "qty" THEN 0 ELSE qty,
               IF bad = "user" THEN 0 ELSE ref, tif)

Cancel ==
  \E loc \in AnyLocate, ref \in Refs : \E user \in Clients \cup {ref} :
    ProcessCancel(loc, ref, user)
CancelShares ==
  \E loc \in AnyLocate, ref \in Refs, shares \in Quantities :
    \E user \in Clients \cup {ref} : ProcessCancelShares(loc, ref, shares, user)
Replace ==
  \E loc \in AnyLocate, old \in Refs, new \in Refs, price \in Prices,
     qty \in Quantities :
    \E user \in Clients \cup {old} : ProcessReplace(loc, old, new, price, qty, user)

Next == Add \/ AddMalformed \/ Cancel \/ CancelShares \/ Replace \/ MatchStep \/ Settle

Spec == Init /\ [][Next]_vars
-----------------------------------------------------------------------------
(* Properties.                                                             *)

\* The types of the state.  Resting prices are limit prices; the local Order of a
\* market order has one of the two extreme prices.
BookTypeOK ==
  /\ DOMAIN orders \subseteq Refs
  /\ \A r \in DOMAIN orders : /\ orders[r] \in Order
                             /\ orders[r].ref = r
                             /\ orders[r].price \in Prices
  /\ queue \in [Levels -> Seq(Refs)]
  /\ total \in [Levels -> Int]
  /\ poolUsed \in Int
Response == [type : {"ERROR"}, code : ErrorCodes]
            \cup [type : {"OK", "FILLED", "CANCELLED"}, ref : Refs]
            \cup [type : {"TRADE"}, ref : Refs, side : Sides, price : Prices, qty : Nat]
CallTypeOK ==
  /\ nextSeq \in Nat
  /\ used \subseteq Refs
  /\ phase \in {"idle", "matching"}
  /\ cmd \in [op : {"NONE", "ADD", "REPLACE", "CANCEL"}, tif : Tifs]
  /\ order \in Order \cup {NoOrder}
  /\ out \in Seq(Response)
TypeOK == BookTypeOK /\ CallTypeOK

\* The three views of the resting orders agree: every indexed order is linked
\* exactly once, in the list of its own level (addOrder, removeOrder), and owns
\* the only pool slots in use.
ViewsAgree ==
  /\ \A r \in DOMAIN orders : \E i \in DOMAIN queue[Level(orders[r])] :
        queue[Level(orders[r])][i] = r
  /\ \A l \in Levels : \A i \in DOMAIN queue[l] :
        queue[l][i] \in DOMAIN orders /\ Level(orders[queue[l][i]]) = l
  /\ \A l \in Levels : \A i, j \in DOMAIN queue[l] : queue[l][i] = queue[l][j] => i = j
  /\ poolUsed = Cardinality(DOMAIN orders)
  /\ poolUsed <= PoolSize

\* A level's list is in the order of arrival: fills and partial cancels keep an
\* order's place, a replace gives it a new sequence number and the last place.
InSequence ==
  \A l \in Levels : \A i, j \in DOMAIN queue[l] :
    i < j => orders[queue[l][i]].seq < orders[queue[l][j]].seq

\* PriceLevel.total_qty, which getTopOfBook publishes, is what rests there,
\* whichever mix of fills, partial cancels and removals led to it.
LevelTotals ==
  \A l \in Levels :
    total[l] = SharesLeft(orders, {r \in DOMAIN orders : Level(orders[r]) = l})

\* Not even during a call is the book crossed, except by two orders of one user,
\* which matchBuyOrder/matchSellOrder let pass each other.
Uncrossed ==
  \A b, a \in DOMAIN orders :
    /\ orders[b].side = "BUY" /\ orders[a].side = "SELL"
    /\ orders[b].locate = orders[a].locate
    /\ orders[b].price >= orders[a].price
    => orders[b].user = orders[a].user

\* Resting orders always have shares left: none lingers after its last fill.
NoEmptyOrder == \A r \in DOMAIN orders : orders[r].rem > 0

\* The local Order inside a call is not in the book, is younger than all that is,
\* has its shares split into filled and remaining, and rests only at a limit
\* price; a replace has the slot of the order it removed.
InFlight ==
  /\ DOMAIN orders \subseteq used
  /\ \A r \in DOMAIN orders : orders[r].seq < nextSeq
  /\ phase = "matching" =>
       /\ order \in Order
       /\ order.ref \in used \ DOMAIN orders
       /\ order.seq < nextSeq
       /\ \A r \in DOMAIN orders : orders[r].seq < order.seq
       /\ order.filled + order.rem = order.orig /\ order.orig > 0
       /\ cmd.op \in {"ADD", "REPLACE"}
       /\ cmd.tif = "DAY" => order.price \in Prices
       /\ cmd.op = "REPLACE" => cmd.tif = "DAY" /\ poolUsed < PoolSize
       /\ \A i \in DOMAIN out : IsTrade(out[i])

\* A replace is never refused for want of a slot: the order it removes frees one.
ReplaceNeverPoolFull ==
  cmd.op = "REPLACE" => \A i \in DOMAIN out : out[i] # Error("POOL_FULL")

\* The inductive invariant of the engine.
BookInv == BookTypeOK /\ ViewsAgree /\ InSequence /\ NoEmptyOrder /\ Uncrossed
EngineInv == BookInv /\ CallTypeOK /\ InFlight /\ ReplaceNeverPoolFull

TradedIn(responses) ==
  MapThenSumSet(LAMBDA i : responses[i].qty,
                {i \in DOMAIN responses : IsTrade(responses[i])})

\* What the caller can conclude from out_responses is true: the TRADE frames
\* add up to the fills of the order, FILLED and OK mean what they say, and an
\* order answered otherwise (IOC, FOK, POOL_FULL) does not rest.
ResponsesAccount ==
  (phase = "idle" /\ order # NoOrder) =>
    LET final == IF out # <<>> /\ ~IsTrade(Last(out)) THEN Last(out).type ELSE "NONE"
    IN  /\ TradedIn(out) = order.filled
        /\ order.filled + order.rem = order.orig
        /\ final = "FILLED" <=> order.rem = 0
        /\ final = "OK" <=> order.ref \in DOMAIN orders
        /\ final = "OK" => orders[order.ref] = order
        /\ final = "NONE" => cmd.tif = "IOC" /\ order.filled > 0

\* A FOK order that passed canFullFill and still could not be filled was stopped
\* by its own user's orders, which availableQty counts and matching skips.
FokFailsOnOwnOrders ==
  (phase = "idle" /\ order # NoOrder /\ cmd.tif = "FOK" /\ order.rem > 0) =>
    \E r \in DOMAIN orders :
      /\ orders[r].user = order.user /\ orders[r].locate = order.locate
      /\ orders[r].side # order.side
      /\ Crosses(order.side, order.price, orders[r].price)

TradeAdded == Len(out') > Len(out) /\ IsTrade(Last(out'))

\* The maker of a new trade belongs to another user, at a price the taker accepts,
\* and every other candidate is at a worse price or came later.
TradeWithBest ==
  TradeAdded =>
    LET maker == orders[Last(out').ref]
    IN  /\ maker.user # order.user
        /\ Crosses(order.side, order.price, maker.price)
        /\ Last(out').price = maker.price
        /\ \A r \in DOMAIN orders \ {maker.ref} :
              /\ orders[r].locate = order.locate /\ orders[r].side # order.side
              /\ orders[r].user # order.user
              => \/ Better(maker.side, maker.price, orders[r].price)
                 \/ maker.price = orders[r].price /\ maker.seq < orders[r].seq

\* Every trade is with the resting order that has price-time priority among
\* those of other users, whatever was cancelled, reduced or replaced before it.
PriceTimePriority == [][TradeWithBest]_vars

\* An order in the book gains fills only by a reported trade of exactly that
\* quantity, and a partial cancel never counts as a fill.
FillsAreReported ==
  [][\A r \in DOMAIN orders :
       LET reported == IF TradeAdded /\ Last(out').ref = r THEN Last(out').qty ELSE 0
       IN  IF r \in DOMAIN orders'
           THEN /\ orders'[r].filled = orders[r].filled + reported
                /\ orders'[r].rem <= orders[r].rem - reported
           ELSE reported \in {0, orders[r].rem}
    ]_vars
=============================================================================
