-------------------------- MODULE ExecutionEngine --------------------------
(***************************************************************************)
(* The trading side (execution/execution_engine.h): signals become orders,   *)
(* checked by RiskManager, registered by OrderManager and sent to the        *)
(* exchange; fills come back at once (active) or later, when historical      *)
(* orders trade with a resting order of the strategy (passive).              *)
(*                                                                           *)
(* The exchange (exchange/exchange_simulator.cpp on MatchingEngine) is       *)
(* abstracted to what it tells the trading side: any fills an order may get, *)
(* which of the strategy's orders rest, and strategy_refs_.                  *)
(*                                                                           *)
(* There is one thread; calls nest.  `call' is the call that holds mtx_, in  *)
(* steps; between the reports of one on_market_order the mutex is free.      *)
(***************************************************************************)
EXTENDS OrderManager, FiniteSets, SequencesExt, FiniteSetsExt

CONSTANTS
  Prices,       \* prices, positive
  Types,        \* order types in use: MARKET, as sim_main sends, and LIMIT
  MaxPosition, MaxDailyLoss, PauseAt, FlattenAt   \* RiskManager's limits

ASSUME ExecutionConstants ==
  /\ IsFiniteSet(Symbols)
  /\ Types \subseteq {"MARKET", "LIMIT"}
  /\ Prices \subseteq Nat \ {0}
  /\ MaxPosition \in Nat /\ MaxDailyLoss \in Nat /\ PauseAt \in Nat /\ FlattenAt \in Nat

VARIABLES
  risk,      \* RiskManager
  resting,   \* exchange: the strategy's orders in its book, id -> shares left
  refs,      \* strategy_refs_
  reports,   \* the fills on_market_order has still to route
  issued,    \* flatten_issued_
  call,      \* the call that holds mtx_
  executed,  \* history: id -> shares the exchange has traded for it
  cash       \* history: what the booked fills have paid, sales minus purchases

vars == <<entries, risk, resting, refs, reports, issued, call, executed, cash>>

RM == INSTANCE RiskManager

Sides == {"BUY", "SELL"}
Fill(most) == [qty : 1..most, price : Prices]
Idle == [at |-> "idle", id |-> 0, fills |-> <<>>, todo |-> {}]
Quiet == call = Idle /\ reports = <<>>

TotalQty(fs) == MapThenSumSet(LAMBDA i : fs[i].qty, DOMAIN fs)
\* The orders flatten_on_drawdown and cancel_order take.
LiveIds == {id \in DOMAIN entries : Live(entries[id])}
Drop(f, id) == [i \in DOMAIN f \ {id} |-> f[i]]
-----------------------------------------------------------------------------
(* The exchange, as submit answers.                                        *)

\* An order trades within its limit, if it has one.
Acceptable(side, type, limit, price) ==
  type = "MARKET" \/ (IF side = "BUY" THEN price <= limit ELSE price >= limit)
\* One fill for each maker it meets, of a share at least.
FillsOf(side, type, limit, qty) ==
  {fs \in SeqOf(Fill(qty), qty) :
     /\ TotalQty(fs) <= qty
     /\ \A i \in DOMAIN fs : Acceptable(side, type, limit, fs[i].price)}

WithRef(id) == refs \cup {id}

\* The rest of a LIMIT order (DAY) rests, or is lost to a full pool; the rest of
\* a MARKET order (IOC) is void.
Submit(id, type, qty, fs, rests) ==
  /\ rests => type = "LIMIT" /\ TotalQty(fs) < qty
  /\ resting' = IF rests THEN [i \in DOMAIN resting \cup {id} |->
                                 IF i = id THEN qty - TotalQty(fs) ELSE resting[i]]
                ELSE resting
  /\ refs' = IF rests THEN WithRef(id) ELSE refs
  /\ executed' = Append(executed, TotalQty(fs))
-----------------------------------------------------------------------------
(* submit_signal.                                                          *)

\* Refused by check_order: the order is registered and rejected, and that is all.
SubmitRefused(s, side, qty, price) ==
  /\ ~RM!CheckOrder(risk, s, side, qty)
  /\ entries' = Append(entries, Rejected(Registered(s, side, price, qty)))
  /\ executed' = Append(executed, 0)
  /\ UNCHANGED <<risk, resting, refs, reports, issued, call, cash>>

\* Sent: accepted when something traded or rests.  With trades, the exchange has
\* broadcast them and the workers may mark prices before the fills are booked.
SubmitSent(s, side, type, qty, price) ==
  /\ RM!CheckOrder(risk, s, side, qty)
  /\ LET id == Len(entries) + 1
         e == Registered(s, side, price, qty)
     IN  \E fs \in FillsOf(side, type, price, qty), rests \in BOOLEAN :
           /\ Submit(id, type, qty, fs, rests)
           /\ entries' = Append(entries, IF rests \/ fs # <<>> THEN Accepted(e)
                                         ELSE Rejected(e))
           /\ call' = [at |-> IF fs = <<>> THEN "flatten" ELSE "matched",
                       id |-> id, fills |-> fs, todo |-> {}]
  /\ UNCHANGED <<risk, reports, issued, cash>>

SubmitSignal ==
  /\ Quiet
  /\ Len(entries) < MaxOrders
  /\ \E s \in Symbols, side \in Sides, type \in Types, qty \in Quantities, p \in Prices :
       LET price == IF type = "LIMIT" THEN p ELSE 0
       IN  SubmitRefused(s, side, qty, price) \/ SubmitSent(s, side, type, qty, price)

\* A fill in OMS and in the risk manager, at its real price.
Book(id, fill) ==
  /\ entries' = [entries EXCEPT ![id] = Filled(@, fill.qty)]
  /\ risk' = RM!OnFill(risk, entries[id].symbol, entries[id].side, fill.price, fill.qty)
  /\ cash' = IF entries[id].side = "BUY" THEN cash - fill.price * fill.qty
             ELSE cash + fill.price * fill.qty

\* Fault: only the first of the fills is booked.
BookActiveFill_OnlyFirst ==
  /\ call.at \in {"matched", "booking"}
  /\ Book(call.id, Head(call.fills))
  /\ call' = [call EXCEPT !.at = "flatten", !.fills = <<>>]
  /\ UNCHANGED <<resting, refs, reports, issued, executed>>
BookActiveFill ==
  /\ call.at \in {"matched", "booking"}
  /\ Book(call.id, Head(call.fills))
  /\ call' = [call EXCEPT !.at = IF Len(call.fills) = 1 THEN "flatten" ELSE "booking",
                          !.fills = Tail(@)]
  /\ UNCHANGED <<resting, refs, reports, issued, executed>>
-----------------------------------------------------------------------------
(* Passive fills.                                                          *)

StillResting(left) == [i \in {j \in DOMAIN left : left[j] > 0} |-> left[i]]

\* A historical order trades with the strategy's orders of one side of one book:
\* each whole, but perhaps the last.  The engine has done this before the first
\* of the reports is made.
MarketOrder ==
  /\ Quiet
  /\ \E ids \in SeqOf(DOMAIN resting, Cardinality(DOMAIN resting)) \ {<<>>} :
       /\ IsInjective(ids)
       /\ \A i, j \in Range(ids) : /\ entries[i].symbol = entries[j].symbol
                                   /\ entries[i].side = entries[j].side
       /\ \E last \in 1..resting[Last(ids)] :
            LET traded == [i \in Range(ids) |-> IF i = Last(ids) THEN last ELSE resting[i]]
                left == [i \in DOMAIN resting |->
                           resting[i] - IF i \in Range(ids) THEN traded[i] ELSE 0]
            IN  /\ resting' = StillResting(left)
                /\ executed' = [i \in DOMAIN executed |->
                                  executed[i] + IF i \in Range(ids) THEN traded[i] ELSE 0]
                /\ reports' = [n \in DOMAIN ids |->
                     [id |-> ids[n], qty |-> traded[ids[n]], price |-> entries[ids[n]].price]]
  /\ UNCHANGED <<entries, risk, refs, issued, call, cash>>

\* on_order_report('E') of a maker the exchange knows for the strategy's.
ReportExecuted ==
  /\ call = Idle
  /\ reports # <<>>
  /\ Head(reports).id \in refs
  /\ Book(Head(reports).id, Head(reports))
  /\ reports' = Tail(reports)
  /\ call' = [Idle EXCEPT !.at = "flatten", !.id = Head(reports).id]
  /\ UNCHANGED <<resting, refs, issued, executed>>

\* SimWorker marks the mid price on every broadcast event: between calls, between
\* the reports of a market order, and inside submit.
MarkPrice ==
  /\ call.at \in {"idle", "matched"}
  /\ \E s \in Symbols, p \in Prices : risk' = RM!Mark(risk, s, p)
  /\ UNCHANGED <<entries, resting, refs, reports, issued, call, executed, cash>>
-----------------------------------------------------------------------------
(* flatten_on_drawdown and cancel_order.                                   *)

\* Fault: an order that is gone from the book stays registered.
Unregistered_Not(id) == refs
\* unregister_if_gone.
Unregistered(id) == IF id \in DOMAIN resting THEN refs ELSE refs \ {id}

\* The end of a call: the mutex is released.
Return ==
  /\ call' = Idle
  /\ refs' = Unregistered(call.id)
  /\ UNCHANGED <<entries, risk, resting, reports, executed, cash>>

\* flatten_on_drawdown: once, and only past the second threshold.
FlattenNot ==
  /\ call.at = "flatten"
  /\ issued \/ ~RM!Flatten(risk)
  /\ Return
  /\ UNCHANGED issued
FlattenStart ==
  /\ call.at = "flatten"
  /\ ~issued /\ RM!Flatten(risk)
  /\ issued' = TRUE
  /\ call' = [call EXCEPT !.at = "cancel", !.todo = LiveIds]
  /\ UNCHANGED <<entries, risk, resting, refs, reports, executed, cash>>

CancelOrder ==
  /\ Quiet
  /\ \E id \in LiveIds : call' = [Idle EXCEPT !.at = "cancel", !.todo = {id}]
  /\ UNCHANGED <<entries, risk, resting, refs, reports, issued, executed, cash>>

\* request_cancel, then the exchange's cancel: it knows nothing of an order that
\* does not rest and reports nothing.
CancelUnknown ==
  /\ call.at = "cancel"
  /\ \E id \in call.todo \ DOMAIN resting :
       /\ entries' = [entries EXCEPT ![id] = CancelRequested(@)]
       /\ call' = [call EXCEPT !.todo = @ \ {id}]
  /\ UNCHANGED <<risk, resting, refs, reports, issued, executed, cash>>
\* A resting order is removed and reported 'C', for which on_order_report locks
\* the mutex that this very call holds.
CancelResting ==
  /\ call.at = "cancel"
  /\ \E id \in call.todo \cap DOMAIN resting :
       /\ entries' = [entries EXCEPT ![id] = CancelRequested(@)]
       /\ resting' = Drop(resting, id)
       /\ refs' = refs \ {id}
       /\ call' = [call EXCEPT !.at = "blocked", !.id = id]
  /\ UNCHANGED <<risk, reports, issued, executed, cash>>
CancelsDone ==
  /\ call.at = "cancel" /\ call.todo = {}
  /\ Return
  /\ UNCHANGED issued
-----------------------------------------------------------------------------
TradingInit ==
  /\ entries = <<>>
  /\ risk = RM!Fresh
  /\ resting = [i \in {} |-> 0]
  /\ refs = {}
  /\ reports = <<>>
  /\ issued = FALSE
  /\ call = Idle
  /\ executed = <<>>
  /\ cash = 0

\* The steps of a call in progress, and of a market order in progress.
Continue == \/ BookActiveFill \/ ReportExecuted \/ FlattenNot \/ FlattenStart
            \/ CancelUnknown \/ CancelResting \/ CancelsDone
TradingNext == SubmitSignal \/ MarketOrder \/ MarkPrice \/ CancelOrder \/ Continue

\* The thread inside a call goes on.
Fairness == WF_vars(Continue)
TradingSpec == TradingInit /\ [][TradingNext]_vars
FairSpec == TradingSpec /\ Fairness
-----------------------------------------------------------------------------
(* Properties.                                                             *)

\* Between calls the exchange and the trading side agree on what rests: such an
\* order is registered for routing, live in OMS, and has there the remainder the
\* book has; no other order is registered.
RestingAgrees ==
  Quiet => /\ refs = DOMAIN resting
           /\ \A id \in DOMAIN resting :
                /\ Live(entries[id])
                /\ entries[id].qty - entries[id].filled = resting[id]

\* OMS never has to clamp a fill: those not yet booked fit what is left.
PendingFillsFit ==
  /\ call.at \in {"matched", "booking"} =>
       TotalQty(call.fills) <= entries[call.id].qty - entries[call.id].filled
  /\ \A n \in DOMAIN reports :
       reports[n].qty <= entries[reports[n].id].qty - entries[reports[n].id].filled

Net(s) == MapThenSumSet(
  LAMBDA id : IF entries[id].side = "BUY" THEN executed[id] ELSE -executed[id],
  {id \in DOMAIN entries : entries[id].symbol = s})

\* Only market orders so far, as sim_main sends them.
MarketOnly == \A id \in DOMAIN entries : entries[id].price = 0

\* With market orders the position is what the exchange has traded for the
\* strategy, never beyond max_position_ and never short.  (Limit orders that rest
\* are not counted by check_order and can break both limits.)
PositionExact ==
  Quiet /\ MarketOnly => \A s \in Symbols : /\ risk.qty[s] = Net(s)
                                          /\ Net(s) \in 0..MaxPosition

\* Documented of passive fills: between calls OMS has booked every fill.
FillsReachOms == Quiet => \A id \in DOMAIN entries : entries[id].filled = executed[id]
\* It has, passive fills included, unless a flatten was started while limit orders
\* rested.
FillsReachOmsUnlessFlattened == MarketOnly \/ ~issued => FillsReachOms

\* The shares the exchange has bought for the strategy.
SharesBought == MapThenSumSet(LAMBDA id : executed[id],
                              {id \in DOMAIN entries : entries[id].side = "BUY"})

\* The truncated average cost errs to one side: profit on the books is never below
\* what the fills have really paid, and above it by less than one cent per share
\* held at each fill that buys, of which there are no more than shares bought.
RoundingOneSided ==
  MarketOnly =>
    /\ risk.realized - RM!Cost(risk) >= cash
    /\ risk.realized - RM!Cost(risk) <= cash + SharesBought * MaxPosition

\* Documented of cancel_order: the exchange cancels and reports 'C', so that the
\* call ends.
CancelReturns == call.at = "cancel" ~> call = Idle
=============================================================================
