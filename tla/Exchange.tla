------------------------------ MODULE Exchange ------------------------------
(***************************************************************************)
(* ExchangeSimulator (exchange/exchange_simulator.cpp): MatchingEngine and  *)
(* the strategies' MarketBook, composed.  A request runs the engine, whose   *)
(* steps are those of MatchingEngine; then the event and the trades go out   *)
(* one by one: to the market book, or, for a resting order of the strategy,  *)
(* to its OMS.                                                              *)
(*                                                                          *)
(* Historical orders are owned by their references; the strategy's, by the  *)
(* one client there is.  Its references come from a range of their own       *)
(* (order_id_base), here from the same set but never used twice.            *)
(***************************************************************************)
EXTENDS MatchingEngine

CONSTANT Word   \* values of a counter of the market book's levels

\* There is a client for the strategy, kStrategyUserId.
ASSUME ExchangeConstants == Clients # {}

VARIABLES
  live, levels, known, tick, reduced,  \* MarketBook; known: references it was given
  strategyRefs,  \* strategy_refs_: orders of the strategy that rest
  request,       \* the event or order being processed
  feed,          \* what is still to be sent out for it
  mine,          \* history: the strategy's references
  told           \* history: ref -> shares the trading side was told the order has traded

marketVars == <<live, levels, known, tick, reduced>>
allVars == <<vars, marketVars, strategyRefs, request, feed, mine, told>>

Market == INSTANCE MarketBook WITH used <- known

Strategy == CHOOSE c \in Clients : TRUE    \* kStrategyUserId
None == [type |-> "NONE"]
Quiet == request = None /\ feed = <<>>
-----------------------------------------------------------------------------
(* What a request sends out, once the engine has answered with out.         *)

\* The TRADE frames: of a call all responses but the last, and the last perhaps.
Trades == IF out # <<>> /\ ~IsTrade(Last(out)) THEN Front(out) ELSE out
\* The fills of the taker itself, known only from its makers' frames.
TakerFill == TradedIn(out)
Execute(ref, qty) == [type |-> "EXECUTE", ref |-> ref, qty |-> qty]

\* Fault: a replacing order is taken for the one it replaced.
TakerRef_Old(ev) == ev.ref
TakerRef(ev) == IF ev.type = "REPLACE" THEN ev.new ELSE ev.ref

\* on_market_order: the event itself, whatever the engine made of it; the trades, each
\* naming its maker; and the taker's own fills in one execution.
MarketFeed(ev) ==
  <<ev>> \o [i \in DOMAIN Trades |-> [type |-> "TRADE", ref |-> Trades[i].ref, qty |-> Trades[i].qty]]
         \o IF TakerFill > 0 THEN <<Execute(TakerRef(ev), TakerFill)>> ELSE <<>>

\* submit: the makers' executions, and the registration of an order that rests.
\* cancel: the order leaves the registry.
StrategyFeed(ev) ==
  [i \in DOMAIN Trades |-> Execute(Trades[i].ref, Trades[i].qty)]
  \o IF out # <<>> /\ Last(out).type \in {"OK", "CANCELLED"}
     THEN <<[type |-> Last(out).type, ref |-> ev.ref]>> ELSE <<>>

Publish ==
  /\ request # None /\ phase = "idle" /\ feed = <<>>
  /\ feed' = IF request.type \in {"SUBMIT", "WITHDRAW"} THEN StrategyFeed(request)
             ELSE MarketFeed(request)
  /\ request' = None
  /\ told' = IF request.type = "SUBMIT" THEN [told EXCEPT ![request.ref] = TakerFill] ELSE told
  /\ UNCHANGED <<vars, marketVars, strategyRefs, mine>>
-----------------------------------------------------------------------------
(* The requests.                                                           *)

Begin(ev) ==
  /\ Quiet
  /\ request' = ev
  /\ UNCHANGED <<marketVars, strategyRefs, feed, told>>

OnMarketAdd ==
  \E loc \in Locates, ref \in Refs, side \in Sides, price \in Prices, qty \in Quantities :
    /\ Begin([type |-> "ADD", locate |-> loc, ref |-> ref, side |-> side, price |-> price,
              qty |-> qty])
    /\ ProcessAdd(loc, ref, side, price, qty, ref, "DAY")
    /\ UNCHANGED mine

\* Later events name orders the market has added.
OnMarketDelete ==
  \E loc \in Locates, ref \in used \ mine :
    /\ Begin([type |-> "DELETE", ref |-> ref])
    /\ ProcessCancel(loc, ref, ref)
    /\ UNCHANGED mine
OnMarketCancel ==
  \E loc \in Locates, ref \in used \ mine, qty \in Quantities :
    /\ Begin([type |-> "CANCEL", ref |-> ref, qty |-> qty])
    /\ ProcessCancelShares(loc, ref, qty, ref)
    /\ UNCHANGED mine
OnMarketReplace ==
  \E loc \in Locates, old \in used \ mine, new \in Refs, price \in Prices, qty \in Quantities :
    /\ Begin([type |-> "REPLACE", ref |-> old, new |-> new, price |-> price, qty |-> qty])
    /\ ProcessReplace(loc, old, new, price, qty, old)
    /\ UNCHANGED mine

\* LIMIT is sent as DAY, MARKET as IOC without a price.
Submit ==
  \E loc \in Locates, ref \in Refs, side \in Sides, qty \in Quantities,
     limit \in Prices \cup {0} :
    /\ Begin([type |-> "SUBMIT", ref |-> ref])
    /\ ProcessAdd(loc, ref, side, limit, qty, Strategy, IF limit = 0 THEN "IOC" ELSE "DAY")
    /\ mine' = mine \cup {ref}
Withdraw ==
  \E loc \in Locates, ref \in mine :
    /\ Begin([type |-> "WITHDRAW", ref |-> ref])
    /\ ProcessCancel(loc, ref, Strategy)
    /\ UNCHANGED mine

EngineStep ==
  /\ MatchStep \/ Settle
  /\ UNCHANGED <<marketVars, strategyRefs, request, feed, mine, told>>
-----------------------------------------------------------------------------
(* One item of the feed.                                                   *)

\* The market book ignores events of orders it does not know.
IgnoredBy(ev) ==
  ev.type \in {"DELETE", "CANCEL", "REPLACE", "EXECUTE"} /\ ev.ref \notin DOMAIN live
\* An order whose replacement the book ignores leaves the new reference unknown.
MarketHears(ev) ==
  IF IgnoredBy(ev) THEN UNCHANGED marketVars
  ELSE CASE ev.type = "ADD" ->
              Market!HandleAdd(ev.locate, ev.ref, ev.side, ev.price, ev.qty)
         [] ev.type = "DELETE" -> Market!HandleDelete(ev.ref)
         [] ev.type = "CANCEL" -> Market!HandleCancel(ev.ref, ev.qty)
         [] ev.type = "REPLACE" -> Market!HandleReplace(ev.ref, ev.new, ev.price, ev.qty)
         [] ev.type = "EXECUTE" -> Market!HandleExecute(ev.ref, ev.qty)

\* Faults: a maker that is gone from the book stays registered; one that is not is
\* unregistered.
Unregistered_Never(ref) == strategyRefs
Unregistered_Always(ref) == strategyRefs \ {ref}
\* unregister_if_gone.
Unregistered(ref) == IF ref \in DOMAIN orders THEN strategyRefs ELSE strategyRefs \ {ref}

Broadcast ==
  /\ feed # <<>>
  /\ LET ev == Head(feed)
     IN  /\ ev.type \notin {"OK", "CANCELLED"}
         /\ ~ (ev.type = "TRADE" /\ ev.ref \in strategyRefs)
         /\ MarketHears(IF ev.type = "TRADE" THEN Execute(ev.ref, ev.qty) ELSE ev)
  /\ feed' = Tail(feed)
  /\ UNCHANGED <<vars, strategyRefs, request, mine, told>>

\* on_strategy_maker_fill: to OMS instead of the market.
ReportPassiveFill ==
  /\ feed # <<>>
  /\ Head(feed).type = "TRADE" /\ Head(feed).ref \in strategyRefs
  /\ told' = [told EXCEPT ![Head(feed).ref] = @ + Head(feed).qty]
  /\ strategyRefs' = Unregistered(Head(feed).ref)
  /\ feed' = Tail(feed)
  /\ UNCHANGED <<vars, marketVars, request, mine>>

Register ==
  /\ feed # <<>> /\ Head(feed).type \in {"OK", "CANCELLED"}
  /\ strategyRefs' = IF Head(feed).type = "OK" THEN strategyRefs \cup {Head(feed).ref}
                     ELSE strategyRefs \ {Head(feed).ref}
  /\ feed' = Tail(feed)
  /\ UNCHANGED <<vars, marketVars, request, mine, told>>
-----------------------------------------------------------------------------
ExchangeInit ==
  /\ Init
  /\ Market!Init
  /\ strategyRefs = {}
  /\ request = None
  /\ feed = <<>>
  /\ mine = {}
  /\ told = [r \in Refs |-> 0]

ExchangeNext ==
  \/ OnMarketAdd \/ OnMarketDelete \/ OnMarketCancel \/ OnMarketReplace
  \/ Submit \/ Withdraw \/ EngineStep
  \/ Publish \/ Broadcast \/ ReportPassiveFill \/ Register
ExchangeSpec == ExchangeInit /\ [][ExchangeNext]_allVars
-----------------------------------------------------------------------------
(* Properties.                                                             *)

Resting(r) == [locate |-> orders[r].locate, side |-> orders[r].side,
               price |-> orders[r].price, rem |-> orders[r].rem]
Shown(r) == [locate |-> live[r].locate, side |-> live[r].side,
             price |-> live[r].price, rem |-> live[r].rem]

\* Documented of the market book (DESIGN.md, decision 2): between requests it shows
\* the historical orders that rest in the engine's book, with what is left of each,
\* and none of the strategy's.
MirrorsMarket ==
  Quiet =>
    /\ DOMAIN live = DOMAIN orders \ mine
    /\ \A r \in DOMAIN live : Shown(r) = Resting(r)

\* The registry that routes fills is the set of the strategy's resting orders.
RegistryExact == Quiet => strategyRefs = DOMAIN orders \cap mine

\* A trade is reported to OMS if and only if its maker is the strategy's: no fill is
\* taken for the market's, none of the market's for one of the strategy's.
TradesAreRouted ==
  \A n \in DOMAIN feed :
    feed[n].type = "TRADE" => (feed[n].ref \in strategyRefs <=> feed[n].ref \in mine)

\* Of every fill of a resting order, active or passive, the trading side has been
\* told exactly once before the next request.
FillsTold == Quiet => \A r \in DOMAIN orders \cap mine : told[r] = orders[r].filled
=============================================================================
