--------------------------- MODULE ExchangeProofs ---------------------------
(***************************************************************************)
(* Theorems about Exchange, for any references, prices, quantities and      *)
(* pools: whatever it is asked, the engine inside it behaves as              *)
(* MatchingEngine; between requests strategy_refs_ is exact, and every fill  *)
(* of the strategy is reported to it once and to nobody else.  And, where    *)
(* the pools have a slot for every order, the market book shows between      *)
(* requests the historical orders that rest in the engine's book.           *)
(***************************************************************************)
EXTENDS Exchange, MatchingEngineProofs

MarketTypes == {"ADD", "DELETE", "CANCEL", "REPLACE"}
StrategyTypes == {"SUBMIT", "WITHDRAW"}
-----------------------------------------------------------------------------
(* The engine inside the exchange.                                         *)

LEMMA StrategyIsClient == Strategy \in Clients
BY ExchangeConstants DEF Strategy

\* A step of the exchange is a step of the engine, or leaves it alone.
LEMMA EngineSteps ==
  ASSUME used \subseteq Refs, mine \subseteq used, [ExchangeNext]_allVars
  PROVE  /\ [Next]_vars
         /\ mine' \subseteq used'
<1>1. CASE OnMarketAdd
  <2>1. PICK loc \in Locates, ref \in Refs, side \in Sides, price \in Prices, qty \in Quantities :
          ProcessAdd(loc, ref, side, price, qty, ref, "DAY")
    BY <1>1 DEF OnMarketAdd
  <2>2. Add
    <3>1. \E user \in Clients \cup {ref} : ProcessAdd(loc, ref, side, price, qty, user, "DAY")
      BY <2>1
    <3>2. price \in Prices \cup {0} /\ "DAY" \in Tifs
      BY DEF Tifs
    <3> QED
      BY <3>1, <3>2 DEF Add
  <2>3. mine' = mine /\ used \subseteq used'
    BY <1>1, <2>1 DEF OnMarketAdd, ProcessAdd
  <2> QED
    BY <2>2, <2>3 DEF Next
<1>2. CASE OnMarketDelete
  <2>1. PICK loc \in Locates, ref \in used \ mine : ProcessCancel(loc, ref, ref)
    BY <1>2 DEF OnMarketDelete
  <2>2. Cancel
    BY <2>1 DEF Cancel, AnyLocate
  <2>3. mine' = mine /\ used' = used
    BY <1>2, <2>1 DEF OnMarketDelete, ProcessCancel
  <2> QED
    BY <2>2, <2>3 DEF Next
<1>3. CASE OnMarketCancel
  <2>1. PICK loc \in Locates, ref \in used \ mine, qty \in Quantities :
          ProcessCancelShares(loc, ref, qty, ref)
    BY <1>3 DEF OnMarketCancel
  <2>2. CancelShares
    BY <2>1 DEF CancelShares, AnyLocate
  <2>3. mine' = mine /\ used' = used
    BY <1>3, <2>1 DEF OnMarketCancel, ProcessCancelShares
  <2> QED
    BY <2>2, <2>3 DEF Next
<1>4. CASE OnMarketReplace
  <2>1. PICK loc \in Locates, old \in used \ mine, new \in Refs, price \in Prices,
             qty \in Quantities : ProcessReplace(loc, old, new, price, qty, old)
    BY <1>4 DEF OnMarketReplace
  <2>2. Replace
    BY <2>1 DEF Replace, AnyLocate
  <2>3. mine' = mine /\ used \subseteq used'
    BY <1>4, <2>1 DEF OnMarketReplace, ProcessReplace
  <2> QED
    BY <2>2, <2>3 DEF Next
<1>5. CASE Submit
  <2>1. PICK loc \in Locates, ref \in Refs, side \in Sides, qty \in Quantities,
             limit \in Prices \cup {0} :
          /\ ProcessAdd(loc, ref, side, limit, qty, Strategy, IF limit = 0 THEN "IOC" ELSE "DAY")
          /\ mine' = mine \cup {ref}
    BY <1>5 DEF Submit
  <2>2. Add
    <3> DEFINE tif == IF limit = 0 THEN "IOC" ELSE "DAY"
    <3>1. tif \in Tifs /\ ProcessAdd(loc, ref, side, limit, qty, Strategy, tif)
      BY <2>1 DEF Tifs
    <3> HIDE DEF tif
    <3>2. \E user \in Clients \cup {ref} : ProcessAdd(loc, ref, side, limit, qty, user, tif)
      BY <3>1, StrategyIsClient
    <3> QED
      BY <3>1, <3>2 DEF Add
  <2>3. used' = used \cup {ref}
    BY <2>1 DEF ProcessAdd
  <2> QED
    BY <2>1, <2>2, <2>3 DEF Next
<1>6. CASE Withdraw
  <2>1. PICK loc \in Locates, ref \in mine : ProcessCancel(loc, ref, Strategy)
    BY <1>6 DEF Withdraw
  <2>2. Cancel
    BY <2>1, StrategyIsClient DEF Cancel, AnyLocate
  <2>3. mine' = mine /\ used' = used
    BY <1>6, <2>1 DEF Withdraw, ProcessCancel
  <2> QED
    BY <2>2, <2>3 DEF Next
<1>7. CASE EngineStep
  <2>1. used' = used /\ mine' = mine /\ (MatchStep \/ Settle)
    BY <1>7 DEF EngineStep, MatchStep, Settle, SettleFilled, SettleIOC, SettleFOK, SettleRest,
                Finish
  <2> QED
    BY <2>1 DEF Next
<1>8. CASE Publish \/ Broadcast \/ ReportPassiveFill \/ Register \/ UNCHANGED allVars
  <2>1. UNCHANGED vars /\ mine' = mine
    BY <1>8 DEF Publish, Broadcast, ReportPassiveFill, Register, allVars
  <2> QED
    BY <2>1 DEF vars
<1> QED
  BY <1>1, <1>2, <1>3, <1>4, <1>5, <1>6, <1>7, <1>8 DEF ExchangeNext

\* Whatever the market and the strategy ask of the exchange, its engine behaves as
\* MatchingEngine specifies.
THEOREM ExchangeRunsEngine == ExchangeSpec => Spec
<1>1. ExchangeInit => Init /\ EngineInv /\ mine \subseteq used
  <2>1. ExchangeInit => Init /\ mine \subseteq used
    BY DEF ExchangeInit
  <2> QED
    BY <2>1, InitKeepsInv
<1>2. /\ EngineInv /\ mine \subseteq used
      /\ [ExchangeNext]_allVars
      => [Next]_vars /\ EngineInv' /\ (mine \subseteq used)'
  <2> SUFFICES ASSUME EngineInv, mine \subseteq used, [ExchangeNext]_allVars
               PROVE  [Next]_vars /\ EngineInv' /\ (mine \subseteq used)'
    OBVIOUS
  <2>1. used \subseteq Refs
    BY DEF EngineInv, CallTypeOK
  <2>2. [Next]_vars /\ (mine \subseteq used)'
    BY <2>1, EngineSteps
  <2>3. EngineInv'
    BY <2>2, NextKeepsInv
  <2> QED
    BY <2>2, <2>3
<1> QED
  BY <1>1, <1>2, PTL DEF ExchangeSpec, Spec
-----------------------------------------------------------------------------
(* Why strategy_refs_ is exact: at any moment at most one frame that routes *)
(* a fill or changes the registry is under way for an order of the strategy,  *)
(* and it is just what the registry and the trading side lack of the book.     *)

MarketEvent ==
  [type : {"ADD"}, locate : Locates, ref : Refs, side : Sides, price : Prices, qty : Quantities]
  \cup [type : {"DELETE"}, ref : Refs] \cup [type : {"CANCEL"}, ref : Refs, qty : Quantities]
  \cup [type : {"REPLACE"}, ref : Refs, new : Refs, price : Prices, qty : Quantities]
StrategyRequest == [type : StrategyTypes, ref : Refs]
Frame == MarketEvent \cup [type : {"TRADE", "EXECUTE"}, ref : Refs, qty : Int]
                     \cup [type : {"OK", "CANCELLED"}, ref : Refs]

\* What is not yet sent out: the feed, or the responses it will be made of.
Pending == IF request = None THEN feed ELSE out
Routed(f) == f.type \in {"TRADE", "OK", "CANCELLED"}
FramesOf(fs, r) == {n \in DOMAIN fs : Routed(fs[n]) /\ fs[n].ref = r}

Told(r) == /\ r \in strategyRefs <=> r \in DOMAIN orders
           /\ r \in DOMAIN orders => told[r] = orders[r].filled
\* What frame f is about to make true of order r.
Awaits(r, f) ==
  /\ f.type = "TRADE" =>
       r \in strategyRefs /\ (r \in DOMAIN orders => told[r] + f.qty = orders[r].filled)
  /\ f.type = "OK" =>
       r \in DOMAIN orders /\ (request.type # "SUBMIT" => told[r] = orders[r].filled)
  /\ f.type = "CANCELLED" => r \notin DOMAIN orders
Tracked(r) == \/ FramesOf(Pending, r) = {} /\ Told(r)
              \/ \E n \in DOMAIN Pending : FramesOf(Pending, r) = {n} /\ Awaits(r, Pending[n])

RequestOK ==
  /\ request \in MarketEvent \cup StrategyRequest \cup {None}
  /\ request = None \/ request.type = "WITHDRAW" => phase = "idle"
  /\ request # None => feed = <<>>
  /\ request.type \in StrategyTypes => request.ref \in mine
FeedOK ==
  /\ feed \in Seq(Frame)
  /\ \A n \in DOMAIN feed : feed[n].type \in {"OK", "CANCELLED"} => feed[n].ref \in mine
\* The strategy's orders are its own, the local order of a call included.
OwnersOK ==
  /\ \A r \in DOMAIN orders \cap mine : orders[r].user = Strategy
  /\ phase = "matching" =>
       IF request.type = "SUBMIT" THEN order.ref = request.ref /\ order.user = Strategy
       ELSE order.ref \notin mine
\* The responses of a running request: trades, each with another maker, then one
\* answer; no order of the strategy trades with another, and no answer to the market
\* is about an order of the strategy.
AnswersOK ==
  request # None =>
    /\ \A i \in DOMAIN out :
         /\ i < Len(out) => IsTrade(out[i])
         /\ IsTrade(out[i]) /\ request.type \in StrategyTypes => out[i].ref \notin mine
         /\ IsTrade(out[i]) /\ phase = "matching" /\ order.rem > 0 => out[i].ref \notin DOMAIN orders
         /\ out[i].type \in {"OK", "CANCELLED"} =>
              IF request.type \in StrategyTypes THEN out[i].ref = request.ref
              ELSE out[i].ref \notin mine
    /\ request.type = "SUBMIT" /\ phase = "idle" /\ request.ref \in DOMAIN orders =>
         orders[request.ref].filled = TradedIn(out)
RegistryOK ==
  /\ strategyRefs \subseteq mine /\ mine \subseteq used /\ told \in [Refs -> Int]
  /\ \A r \in mine : Tracked(r)
ExchangeInv == RequestOK /\ FeedOK /\ OwnersOK /\ AnswersOK /\ RegistryOK

LEMMA InitKeepsRegistry == ExchangeInit => ExchangeInv
<1> SUFFICES ASSUME ExchangeInit PROVE ExchangeInv
  OBVIOUS
<1>1. /\ strategyRefs = {} /\ request = None /\ feed = <<>> /\ mine = {}
      /\ told = [r \in Refs |-> 0] /\ phase = "idle"
  BY DEF ExchangeInit, Init
<1>2. RequestOK /\ FeedOK /\ OwnersOK
  BY <1>1 DEF RequestOK, FeedOK, OwnersOK, None, StrategyTypes
<1>3. AnswersOK /\ RegistryOK
  BY <1>1 DEF AnswersOK, RegistryOK
<1> QED
  BY <1>2, <1>3 DEF ExchangeInv

\* Between requests nothing is under way.
LEMMA QuietIsTold ==
  ASSUME ExchangeInv, Quiet, NEW r \in mine
  PROVE  Told(r)
<1>1. Pending = <<>>
  BY DEF Quiet, Pending
<1>2. FramesOf(Pending, r) = {} /\ Tracked(r)
  BY <1>1 DEF FramesOf, ExchangeInv, RegistryOK
<1> QED
  BY <1>2 DEF Tracked

\* A request is answered at once, and then no order of the strategy is touched but
\* the one it cancels; or it enters the matching loop.
Spared(r) == /\ r \in DOMAIN orders' <=> r \in DOMAIN orders
             /\ r \in DOMAIN orders => orders'[r] = orders[r]
Answered(ev) == \E response \in Response :
  /\ phase' = "idle" /\ out' = <<response>> /\ ~IsTrade(response)
  /\ response.type \in {"OK", "CANCELLED"} =>
       IF ev.type \in StrategyTypes
       THEN response.type = "CANCELLED" /\ response.ref = ev.ref /\ ev.ref \notin DOMAIN orders'
       ELSE response.ref \notin mine
  /\ \A r \in mine : Spared(r) \/ (response.type = "CANCELLED" /\ response.ref = r)
Entered(ev) ==
  /\ ev.type # "WITHDRAW" /\ phase' = "matching" /\ out' = <<>>
  /\ IF ev.type = "SUBMIT" THEN order'.ref = ev.ref /\ order'.user = Strategy
     ELSE order'.ref \notin mine
  /\ \A r \in mine : Spared(r)
Received(ev) ==
  /\ Begin(ev)
  /\ used \subseteq used'
  /\ IF ev.type = "SUBMIT"
     THEN mine' = mine \cup {ev.ref} /\ ev.ref \in used' \ used /\ orders' = orders
     ELSE mine' = mine /\ (ev.type = "WITHDRAW" => ev.ref \in mine)
  /\ Answered(ev) \/ Entered(ev)

LEMMA EventIsRequest ==
  ASSUME NEW ev \in MarketEvent \cup StrategyRequest
  PROVE  ev # None /\ ev.type \in MarketTypes \cup StrategyTypes
<1>1. ev.type \in MarketTypes \cup StrategyTypes
  BY DEF MarketEvent, StrategyRequest, MarketTypes
<1>2. None.type = "NONE"
  BY DEF None
<1> QED
  BY <1>1, <1>2 DEF MarketTypes, StrategyTypes

LEMMA ReceivedKeepsRegistry ==
  ASSUME EngineInv, ExchangeInv, NEW ev \in MarketEvent \cup StrategyRequest, Received(ev)
  PROVE  ExchangeInv'
<1>1. /\ Quiet /\ request' = ev /\ feed = <<>> /\ feed' = feed
      /\ strategyRefs' = strategyRefs /\ told' = told
  BY DEF Received, Begin, Quiet
<1>2. ev # None /\ ev.type \in MarketTypes \cup StrategyTypes
  BY EventIsRequest
<1>3. /\ DOMAIN orders \subseteq used /\ strategyRefs \subseteq mine /\ mine \subseteq used
      /\ used \subseteq used' /\ told \in [Refs -> Int]
      /\ \A r \in DOMAIN orders \cap mine : orders[r].user = Strategy
  BY DEF Received, EngineInv, InFlight, ExchangeInv, RegistryOK, OwnersOK
<1>4. /\ mine' \subseteq used' /\ mine \subseteq mine'
      /\ ev.type \in StrategyTypes => ev.ref \in mine'
      /\ \A r \in mine' \ mine : ev.type = "SUBMIT" /\ r = ev.ref /\ r \notin DOMAIN orders'
                                  /\ r \notin strategyRefs
  BY <1>3 DEF Received, StrategyTypes
<1>5. RequestOK' /\ FeedOK'
  BY <1>1, <1>2, <1>4 DEF RequestOK, FeedOK, ExchangeInv, Received, Answered, Entered
<1>6. Pending' = out'
  BY <1>1, <1>2 DEF Pending
<1>7. ASSUME NEW r \in mine', r \in mine => Spared(r)
      PROVE  /\ Told(r)'
             /\ r \in DOMAIN orders' => orders'[r].user = Strategy
  <2>1. CASE r \in mine
    <3>1. Told(r)
      BY <1>1, <2>1, QuietIsTold
    <3> QED
      BY <1>1, <1>3, <1>7, <2>1, <3>1 DEF Told, Spared
  <2>2. CASE r \notin mine
    BY <1>1, <1>4, <2>2 DEF Told
  <2> QED
    BY <2>1, <2>2
<1>8. CASE Answered(ev)
  <2>1. PICK response \in Response :
          /\ phase' = "idle" /\ out' = <<response>> /\ ~IsTrade(response)
          /\ response.type \in {"OK", "CANCELLED"} =>
               IF ev.type \in StrategyTypes
               THEN response.type = "CANCELLED" /\ response.ref = ev.ref /\ ev.ref \notin DOMAIN orders'
               ELSE response.ref \notin mine
          /\ \A r \in mine : Spared(r) \/ (response.type = "CANCELLED" /\ response.ref = r)
    BY <1>8 DEF Answered
  <2>2. DOMAIN out' = {1} /\ out'[1] = response /\ Len(out') = 1
    BY <2>1
  <2>3. ASSUME NEW r \in mine', r \in DOMAIN orders'
        PROVE  r \in mine => Spared(r)
    BY <1>2, <2>1, <2>3 DEF MarketTypes, StrategyTypes
  <2>4. OwnersOK'
    BY <1>7, <2>1, <2>3 DEF OwnersOK
  <2>5. AnswersOK'
    <3>1. ev.type = "SUBMIT" => ev.ref \notin DOMAIN orders'
      BY <1>3 DEF Received
    <3>2. ev.type \notin StrategyTypes => mine' = mine
      BY DEF Received, StrategyTypes
    <3> QED
      BY <1>1, <2>1, <2>2, <3>1, <3>2 DEF AnswersOK
  <2>6. ASSUME NEW r \in mine'
        PROVE  Tracked(r)'
    <3>1. CASE Routed(response) /\ response.ref = r
      <4>1. FramesOf(Pending', r) = {1} /\ Pending'[1] = response /\ 1 \in DOMAIN Pending'
        BY <1>6, <2>2, <3>1 DEF FramesOf
      <4>2. response.type = "CANCELLED" /\ r \notin DOMAIN orders'
        <5>1. response.type \in {"OK", "CANCELLED"}
          BY <2>1, <3>1 DEF Routed, IsTrade
        <5>2. ev.type \notin StrategyTypes => mine' = mine
          BY DEF Received, StrategyTypes
        <5> QED
          BY <2>1, <3>1, <5>1, <5>2
      <4>3. Awaits(r, Pending[1])'
        BY <4>1, <4>2 DEF Awaits
      <4> QED
        BY <4>1, <4>3 DEF Tracked
    <3>2. CASE ~(Routed(response) /\ response.ref = r)
      <4>1. FramesOf(Pending', r) = {}
        BY <1>6, <2>2, <3>2 DEF FramesOf
      <4>2. r \in mine => Spared(r)
        BY <2>1, <3>2 DEF Routed
      <4> QED
        BY <1>7, <4>1, <4>2 DEF Tracked
    <3> QED
      BY <3>1, <3>2
  <2> QED
    BY <1>1, <1>3, <1>4, <1>5, <2>4, <2>5, <2>6 DEF ExchangeInv, RegistryOK
<1>9. CASE Entered(ev)
  <2>1. phase' = "matching" /\ out' = <<>> /\ \A r \in mine : Spared(r)
    BY <1>9 DEF Entered
  <2>2. OwnersOK'
    <3>1. ev.type # "SUBMIT" => mine' = mine
      BY DEF Received
    <3> QED
      BY <1>1, <1>7, <1>9, <2>1, <3>1 DEF OwnersOK, Entered
  <2>3. AnswersOK'
    BY <2>1 DEF AnswersOK
  <2>4. \A r \in mine' : FramesOf(Pending', r) = {}
    BY <1>6, <2>1 DEF FramesOf
  <2>5. \A r \in mine' : Tracked(r)'
    BY <1>7, <2>1, <2>4 DEF Tracked
  <2> QED
    BY <1>1, <1>3, <1>4, <1>5, <2>2, <2>3, <2>5 DEF ExchangeInv, RegistryOK
<1> QED
  BY <1>8, <1>9 DEF Received

\* An addition, of the market or of the strategy, is refused or enters the loop.
LEMMA AddIsReceived ==
  ASSUME EngineInv, ExchangeInv, NEW ev, Begin(ev), ev.type \in {"ADD", "SUBMIT"},
         NEW loc, NEW ref \in Refs, NEW side, NEW price, NEW qty, NEW user, NEW tif,
         ProcessAdd(loc, ref, side, price, qty, user, tif),
         ev.type = "SUBMIT" => ev.ref = ref /\ user = Strategy,
         mine' = IF ev.type = "SUBMIT" THEN mine \cup {ref} ELSE mine
  PROVE  Received(ev)
<1> DEFINE err == AddError(loc, ref, side, price, qty, user, tif)
           limit == LimitPrice(tif, side, price)
           o == NewOrder(ref, user, loc, side, limit, qty)
<1>1. /\ ref \notin used /\ used' = used \cup {ref} /\ orders' = orders
      /\ IF err # "NONE" THEN Reply("ADD", tif, Error(err)) ELSE EnterMatching("ADD", tif, o)
  BY DEF ProcessAdd, book
<1>2. err \in ErrorCodes \cup {"NONE"}
  BY AddErrorMeaning
<1>3. o.ref = ref /\ o.user = user
  BY DEF NewOrder
<1> HIDE DEF err, o
<1>4. ref \notin mine
  BY <1>1 DEF ExchangeInv, RegistryOK
<1>5. \A r \in mine : Spared(r)
  BY <1>1 DEF Spared
<1>6. CASE err # "NONE"
  <2>1. /\ Error(err) \in Response /\ ~IsTrade(Error(err))
        /\ Error(err).type \notin {"OK", "CANCELLED"}
    BY <1>2, <1>6 DEF Error, Response, IsTrade
  <2>2. phase' = "idle" /\ out' = <<Error(err)>>
    BY <1>1, <1>6 DEF Reply
  <2>3. Answered(ev)
    BY <1>5, <2>1, <2>2 DEF Answered
  <2> QED
    BY <1>1, <2>3 DEF Received
<1>7. CASE err = "NONE"
  <2>1. phase' = "matching" /\ out' = <<>> /\ order' = o
    BY <1>1, <1>7 DEF EnterMatching
  <2>2. Entered(ev)
    BY <1>3, <1>4, <1>5, <2>1 DEF Entered
  <2> QED
    BY <1>1, <2>2 DEF Received
<1> QED
  BY <1>6, <1>7

\* What the other handlers answer when they refuse.
LEMMA RefusalIsAnswer ==
  ASSUME NEW ev, NEW op, NEW tif, Reply(op, tif, Error("ORDER_NOT_FOUND")), UNCHANGED book
  PROVE  Answered(ev)
<1> DEFINE e == Error("ORDER_NOT_FOUND")
<1>1. e \in Response /\ e.type = "ERROR"
  BY DEF Error, Response, ErrorCodes
<1>2. phase' = "idle" /\ out' = <<e>> /\ orders' = orders
  BY DEF Reply, book
<1> HIDE DEF e
<1> QED
  BY <1>1, <1>2 DEF Answered, Spared, IsTrade

LEMMA RemovalSpares ==
  ASSUME NEW ref, RemoveOrder(ref)
  PROVE  ref \notin DOMAIN orders' /\ \A r \in mine \ {ref} : Spared(r)
BY DEF RemoveOrder, RemoveCounted, Unindexed, Spared

\* A cancel removes the order it names and answers so.
LEMMA CancelIsReceived ==
  ASSUME NEW ev, Begin(ev), NEW loc, NEW ref \in Refs, NEW user, ProcessCancel(loc, ref, user),
         \/ ev.type = "WITHDRAW" /\ ev.ref = ref /\ ref \in mine
         \/ ev.type = "DELETE" /\ ref \notin mine,
         mine' = mine
  PROVE  Received(ev)
<1>1. used' = used
  BY DEF ProcessCancel
<1>2. Answered(ev)
  <2>1. CASE Owns(loc, ref, user)
    <3> DEFINE a == Ack("CANCELLED", ref)
    <3>1. RemoveOrder(ref) /\ phase' = "idle" /\ out' = <<a>>
      BY <2>1 DEF ProcessCancel, Reply
    <3>2. a \in Response /\ a.type = "CANCELLED" /\ a.ref = ref
      BY ResponsesTyped DEF Ack
    <3> HIDE DEF a
    <3>3. ref \notin DOMAIN orders' /\ \A r \in mine \ {ref} : Spared(r)
      BY <3>1, RemovalSpares
    <3> QED
      BY <3>1, <3>2, <3>3 DEF Answered, IsTrade, StrategyTypes
  <2>2. CASE ~Owns(loc, ref, user)
    BY <2>2, RefusalIsAnswer DEF ProcessCancel
  <2> QED
    BY <2>1, <2>2
<1> QED
  BY <1>1, <1>2 DEF Received

\* The market's cancels and replaces touch its own orders only.
LEMMA CancelSharesIsReceived ==
  ASSUME EngineInv, NEW ev, Begin(ev), ev.type = "CANCEL",
         NEW loc, NEW ref \in Refs \ mine, NEW shares, NEW user,
         ProcessCancelShares(loc, ref, shares, user), mine' = mine
  PROVE  Received(ev)
<1>1. used' = used
  BY DEF ProcessCancelShares
<1>2. Answered(ev)
  <2>1. CASE ~Owns(loc, ref, user)
    BY <2>1, RefusalIsAnswer DEF ProcessCancelShares
  <2>2. CASE Owns(loc, ref, user) /\ CancelsAll(ref, shares)
    <3> DEFINE a == Ack("CANCELLED", ref)
    <3>1. RemoveOrder(ref) /\ phase' = "idle" /\ out' = <<a>>
      BY <2>2 DEF ProcessCancelShares, Reply
    <3>2. a \in Response /\ a.type = "CANCELLED" /\ a.ref = ref
      BY ResponsesTyped DEF Ack
    <3> HIDE DEF a
    <3>3. \A r \in mine \ {ref} : Spared(r)
      BY <3>1, RemovalSpares
    <3> QED
      BY <3>1, <3>2, <3>3 DEF Answered, IsTrade, StrategyTypes
  <2>3. CASE Owns(loc, ref, user) /\ ~CancelsAll(ref, shares)
    <3> DEFINE a == Ack("OK", ref)
    <3>1. Reduce(ref, shares, FALSE) /\ phase' = "idle" /\ out' = <<a>>
      BY <2>3 DEF ProcessCancelShares, Reply
    <3>2. a \in Response /\ a.type = "OK" /\ a.ref = ref
      BY ResponsesTyped DEF Ack
    <3> HIDE DEF a
    <3>3. \A r \in mine : Spared(r)
      BY <3>1 DEF Reduce, Spared
    <3> QED
      BY <3>1, <3>2, <3>3 DEF Answered, IsTrade, StrategyTypes
  <2> QED
    BY <2>1, <2>2, <2>3
<1> QED
  BY <1>1, <1>2 DEF Received

LEMMA ReplaceIsReceived ==
  ASSUME ExchangeInv, NEW ev, Begin(ev), ev.type = "REPLACE",
         NEW loc, NEW old \in Refs \ mine, NEW new \in Refs, NEW price, NEW qty, NEW user,
         ProcessReplace(loc, old, new, price, qty, user), mine' = mine
  PROVE  Received(ev)
<1>1. new \notin used /\ used' = used \cup {new}
  BY DEF ProcessReplace
<1>2. CASE Owns(loc, old, user)
  <2> DEFINE o == NewOrder(new, new, loc, orders[old].side, price, qty)
  <2>1. RemoveOrder(old) /\ phase' = "matching" /\ out' = <<>> /\ order' = o
    BY <1>2 DEF ProcessReplace, EnterMatching
  <2>2. o.ref = new
    BY DEF NewOrder
  <2>3. new \notin mine
    BY <1>1 DEF ExchangeInv, RegistryOK
  <2>4. \A r \in mine : Spared(r)
    BY <2>1, RemovalSpares
  <2>5. Entered(ev)
    BY <2>1, <2>2, <2>3, <2>4 DEF Entered
  <2> QED
    BY <1>1, <2>5 DEF Received
<1>3. CASE ~Owns(loc, old, user)
  <2>1. Answered(ev)
    BY <1>3, RefusalIsAnswer DEF ProcessReplace
  <2> QED
    BY <1>1, <2>1 DEF Received
<1> QED
  BY <1>2, <1>3

Requests == OnMarketAdd \/ OnMarketDelete \/ OnMarketCancel \/ OnMarketReplace
            \/ Submit \/ Withdraw
LEMMA RequestIsReceived ==
  ASSUME EngineInv, ExchangeInv, Requests
  PROVE  \E ev \in MarketEvent \cup StrategyRequest : Received(ev)
<1>1. used \subseteq Refs /\ mine \subseteq used
  BY DEF EngineInv, CallTypeOK, ExchangeInv, RegistryOK
<1>2. CASE OnMarketAdd
  <2>1. PICK loc \in Locates, ref \in Refs, side \in Sides, price \in Prices, qty \in Quantities :
          /\ Begin([type |-> "ADD", locate |-> loc, ref |-> ref, side |-> side,
                    price |-> price, qty |-> qty])
          /\ ProcessAdd(loc, ref, side, price, qty, ref, "DAY")
          /\ UNCHANGED mine
    BY <1>2 DEF OnMarketAdd
  <2> DEFINE ev == [type |-> "ADD", locate |-> loc, ref |-> ref, side |-> side,
                    price |-> price, qty |-> qty]
  <2>2. ev.type = "ADD" /\ ev \in MarketEvent
    BY DEF MarketEvent
  <2>3. Begin(ev)
    BY <2>1
  <2> HIDE DEF ev
  <2>4. Received(ev)
    BY <2>1, <2>2, <2>3, AddIsReceived
  <2> QED
    BY <2>2, <2>4
<1>3. CASE OnMarketDelete
  <2>1. PICK loc \in Locates, ref \in used \ mine :
          Begin([type |-> "DELETE", ref |-> ref]) /\ ProcessCancel(loc, ref, ref) /\ UNCHANGED mine
    BY <1>3 DEF OnMarketDelete
  <2> DEFINE ev == [type |-> "DELETE", ref |-> ref]
  <2>2. ev.type = "DELETE" /\ ev \in MarketEvent
    BY <1>1 DEF MarketEvent
  <2>3. Begin(ev)
    BY <2>1
  <2> HIDE DEF ev
  <2>4. Received(ev)
    BY <1>1, <2>1, <2>2, <2>3, CancelIsReceived
  <2> QED
    BY <2>2, <2>4
<1>4. CASE OnMarketCancel
  <2>1. PICK loc \in Locates, ref \in used \ mine, qty \in Quantities :
          /\ Begin([type |-> "CANCEL", ref |-> ref, qty |-> qty])
          /\ ProcessCancelShares(loc, ref, qty, ref)
          /\ UNCHANGED mine
    BY <1>4 DEF OnMarketCancel
  <2> DEFINE ev == [type |-> "CANCEL", ref |-> ref, qty |-> qty]
  <2>2. ev.type = "CANCEL" /\ ev \in MarketEvent
    BY <1>1 DEF MarketEvent
  <2>3. Begin(ev)
    BY <2>1
  <2> HIDE DEF ev
  <2>4. Received(ev)
    BY <1>1, <2>1, <2>2, <2>3, CancelSharesIsReceived
  <2> QED
    BY <2>2, <2>4
<1>5. CASE OnMarketReplace
  <2>1. PICK loc \in Locates, old \in used \ mine, new \in Refs, price \in Prices,
             qty \in Quantities :
          /\ Begin([type |-> "REPLACE", ref |-> old, new |-> new, price |-> price, qty |-> qty])
          /\ ProcessReplace(loc, old, new, price, qty, old)
          /\ UNCHANGED mine
    BY <1>5 DEF OnMarketReplace
  <2> DEFINE ev == [type |-> "REPLACE", ref |-> old, new |-> new, price |-> price, qty |-> qty]
  <2>2. ev.type = "REPLACE" /\ ev \in MarketEvent
    BY <1>1 DEF MarketEvent
  <2>3. Begin(ev)
    BY <2>1
  <2> HIDE DEF ev
  <2>4. Received(ev)
    BY <1>1, <2>1, <2>2, <2>3, ReplaceIsReceived
  <2> QED
    BY <2>2, <2>4
<1>6. CASE Submit
  <2>1. PICK loc \in Locates, ref \in Refs, side \in Sides, qty \in Quantities,
             limit \in Prices \cup {0} :
          /\ Begin([type |-> "SUBMIT", ref |-> ref])
          /\ ProcessAdd(loc, ref, side, limit, qty, Strategy, IF limit = 0 THEN "IOC" ELSE "DAY")
          /\ mine' = mine \cup {ref}
    BY <1>6 DEF Submit
  <2> DEFINE ev == [type |-> "SUBMIT", ref |-> ref]
  <2>2. ev.type = "SUBMIT" /\ ev.ref = ref /\ ev \in StrategyRequest
    BY DEF StrategyRequest, StrategyTypes
  <2>3. Begin(ev)
    BY <2>1
  <2> HIDE DEF ev
  <2>4. Received(ev)
    BY <2>1, <2>2, <2>3, AddIsReceived
  <2> QED
    BY <2>2, <2>4
<1>7. CASE Withdraw
  <2>1. PICK loc \in Locates, ref \in mine :
          /\ Begin([type |-> "WITHDRAW", ref |-> ref])
          /\ ProcessCancel(loc, ref, Strategy)
          /\ UNCHANGED mine
    BY <1>7 DEF Withdraw
  <2> DEFINE ev == [type |-> "WITHDRAW", ref |-> ref]
  <2>2. ev.type = "WITHDRAW" /\ ev.ref = ref /\ ev \in StrategyRequest
    BY <1>1 DEF StrategyRequest, StrategyTypes
  <2>3. Begin(ev)
    BY <2>1
  <2> HIDE DEF ev
  <2>4. Received(ev)
    BY <1>1, <2>1, <2>2, <2>3, CancelIsReceived
  <2> QED
    BY <2>2, <2>4
<1> QED
  BY <1>2, <1>3, <1>4, <1>5, <1>6, <1>7 DEF Requests

\* In the loop a frame is added for the maker; it tells just what the maker gained.
LEMMA MatchKeepsRegistry ==
  ASSUME EngineInv, ExchangeInv, MatchStep,
         UNCHANGED <<strategyRefs, request, feed, mine, told>>
  PROVE  ExchangeInv'
<1>1. /\ BookTypeOK /\ order \in Order /\ out \in Seq(Response) /\ used \subseteq Refs
      /\ phase = "matching" /\ phase' = phase /\ used' = used
  BY MatchStepTrades DEF EngineInv, BookInv, CallTypeOK, InFlight
<1>2. PICK ref \in DOMAIN orders, qty \in Nat : TradesWith(ref, qty)
  BY MatchStepTrades
<1>3. /\ \A r \in DOMAIN orders : orders[r] \in Order /\ orders[r].ref = r
      /\ order.rem \in Nat /\ orders[ref].rem \in Nat /\ orders[ref].filled \in Nat
  BY <1>1 DEF BookTypeOK, Order
<1>4. /\ order'.rem = order.rem - qty /\ order'.ref = order.ref /\ order'.user = order.user
      /\ 0 < qty /\ qty <= order.rem
      /\ orders[ref].user # order.user
      /\ qty = order.rem \/ qty = orders[ref].rem
  BY <1>1, <1>2 DEF TradesWith, Order
<1>5. PICK t : /\ t = Trade(orders[ref], qty)
               /\ t.type = "TRADE" /\ t.ref = ref /\ t.qty = qty /\ IsTrade(t)
  <2> DEFINE t == Trade(orders[ref], qty)
  <2>1. t.type = "TRADE" /\ t.ref = ref /\ t.qty = qty /\ IsTrade(t)
    BY <1>3 DEF Trade, IsTrade
  <2> QED
    BY <2>1
<1>6. PICK n \in Nat :
        /\ DOMAIN out' = DOMAIN out \cup {n} /\ n \notin DOMAIN out /\ out'[n] = t
        /\ Len(out') = n /\ \A i \in DOMAIN out : out'[i] = out[i] /\ i < n
        /\ DOMAIN out \subseteq Nat
  <2> DEFINE n == Len(out) + 1
  <2>1. /\ DOMAIN out' = DOMAIN out \cup {n} /\ n \notin DOMAIN out /\ out'[n] = t
        /\ Len(out') = n /\ \A i \in DOMAIN out : out'[i] = out[i] /\ i < n
        /\ DOMAIN out \subseteq Nat /\ n \in Nat
    BY <1>1, <1>2, <1>5 DEF TradesWith
  <2> QED
    BY <2>1
<1>7. /\ \A r \in DOMAIN orders \ {ref} : r \in DOMAIN orders' /\ orders'[r] = orders[r]
      /\ DOMAIN orders' \subseteq DOMAIN orders
      /\ ref \in DOMAIN orders' => /\ qty # orders[ref].rem
                                  /\ orders'[ref].filled = orders[ref].filled + qty
                                  /\ orders'[ref].user = orders[ref].user
  <2>1. CASE qty = orders[ref].rem /\ RemoveOrder(ref)
    <3>1. orders' = [r \in DOMAIN orders \ {ref} |-> orders[r]]
      BY <2>1 DEF RemoveOrder, RemoveCounted, Unindexed
    <3> QED
      BY <3>1
  <2>2. CASE qty < orders[ref].rem /\ Reduce(ref, qty, TRUE)
    <3>1. orders' = [orders EXCEPT ![ref].rem = @ - qty,
                                   ![ref].filled = @ + FillCredit(qty, TRUE)]
      BY <2>2 DEF Reduce
    <3>2. FillCredit(qty, TRUE) = qty
      BY DEF FillCredit
    <3>3. orders' = [orders EXCEPT ![ref] = [orders[ref] EXCEPT
                       !.rem = orders[ref].rem - qty, !.filled = orders[ref].filled + qty]]
      BY <3>1, <3>2
    <3> DEFINE left == [orders[ref] EXCEPT !.rem = orders[ref].rem - qty,
                                         !.filled = orders[ref].filled + qty]
    <3>4. left.filled = orders[ref].filled + qty /\ left.user = orders[ref].user
      BY <1>3 DEF Order
    <3>5. orders' = [orders EXCEPT ![ref] = left]
      BY <3>3
    <3> HIDE DEF left
    <3> QED
      BY <1>3, <2>2, <3>4, <3>5
  <2> QED
    BY <1>2, <2>1, <2>2 DEF TradesWith
<1>8. request # None /\ feed = <<>> /\ mine' = mine /\ request' = request /\ feed' = feed
  BY <1>1 DEF ExchangeInv, RequestOK
<1>9. RequestOK' /\ FeedOK'
  BY <1>1, <1>8 DEF ExchangeInv, RequestOK, FeedOK
<1>10. OwnersOK'
  BY <1>1, <1>4, <1>7, <1>8 DEF ExchangeInv, OwnersOK
\* The maker has no frame yet, and with a request of the strategy it is not its own.
<1>11. /\ \A i \in DOMAIN out : /\ IsTrade(out[i]) /\ out[i].ref # ref
                                 /\ out[i].ref \notin DOMAIN orders
       /\ request.type \in StrategyTypes => ref \notin mine
  <2>1. \A i \in DOMAIN out : IsTrade(out[i])
    BY <1>1 DEF EngineInv, InFlight
  <2>2. order.rem > 0
    BY <1>3, <1>4
  <2>3. \A i \in DOMAIN out : out[i].ref \notin DOMAIN orders
    BY <1>1, <1>8, <2>1, <2>2 DEF ExchangeInv, AnswersOK
  <2>4. request.type = "SUBMIT" => ref \notin mine
    BY <1>1, <1>4 DEF ExchangeInv, OwnersOK
  <2>5. request.type # "WITHDRAW"
    BY <1>1 DEF ExchangeInv, RequestOK
  <2> QED
    BY <2>1, <2>3, <2>4, <2>5 DEF StrategyTypes
<1>12. AnswersOK'
  BY <1>1, <1>3, <1>4, <1>5, <1>6, <1>7, <1>8, <1>11 DEF ExchangeInv, AnswersOK, IsTrade
<1>13. ASSUME NEW r \in mine
       PROVE  Tracked(r)'
  <2>1. Tracked(r) /\ Pending = out /\ Pending' = out'
    BY <1>8 DEF ExchangeInv, RegistryOK, Pending
  <2>2. CASE r = ref
    <3>1. FramesOf(out, r) = {}
      BY <1>11, <2>2 DEF FramesOf
    <3>2. Told(r)
      BY <2>1, <3>1 DEF Tracked
    <3>3. FramesOf(out', r) = {n} /\ n \in DOMAIN out'
      BY <1>5, <1>6, <2>2, <3>1 DEF FramesOf, Routed
    <3>4. Awaits(r, t)'
      BY <1>2, <1>5, <1>7, <2>2, <3>2 DEF Told, Awaits
    <3> QED
      BY <1>6, <2>1, <3>3, <3>4 DEF Tracked
  <2>3. CASE r # ref
    <3>1. FramesOf(out', r) = FramesOf(out, r)
      BY <1>5, <1>6, <2>3 DEF FramesOf
    <3>2. Told(r) => Told(r)'
      BY <1>7, <2>3 DEF Told
    <3>3. ASSUME NEW f, Awaits(r, f)
          PROVE  Awaits(r, f)'
      BY <1>7, <1>8, <2>3, <3>3 DEF Awaits
    <3> QED
      BY <1>6, <2>1, <3>1, <3>2, <3>3 DEF Tracked
  <2> QED
    BY <2>2, <2>3
<1>14. RegistryOK'
  BY <1>1, <1>8, <1>13 DEF ExchangeInv, RegistryOK
<1> QED
  BY <1>9, <1>10, <1>12, <1>14 DEF ExchangeInv

\* A call that leaves the loop answers OK exactly when its order rests.
LEMMA SettleAnswers ==
  ASSUME EngineInv, Accounted, Settle
  PROVE  /\ phase = "matching" /\ phase' = "idle" /\ UNCHANGED <<used, order>>
         /\ \/ out' = out /\ orders' = orders
            \/ \E a \in Response :
                 /\ out' = Append(out, a) /\ ~IsTrade(a) /\ a.type # "CANCELLED"
                 /\ IF a.type = "OK"
                    THEN a.ref = order.ref /\ orders' = Indexed(order) /\ TradedIn(out') = order.filled
                    ELSE orders' = orders
<1>1. /\ out \in Seq(Response) /\ order \in Order /\ order.ref \in Refs /\ phase = "matching"
  BY DEF Settle, EngineInv, CallTypeOK, InFlight, Order
<1>2. phase' = "idle" /\ UNCHANGED <<used, order>>
  BY DEF Settle, SettleFilled, SettleIOC, SettleFOK, SettleRest, Finish
<1>3. ASSUME NEW a \in Response, Finish(<<a>>), ~IsTrade(a), a.type # "CANCELLED",
             IF a.type = "OK" THEN a.ref = order.ref /\ orders' = Indexed(order)
             ELSE orders' = orders
      PROVE  /\ out' = Append(out, a)
             /\ a.type = "OK" => TradedIn(out') = order.filled
  <2>1. out' = Append(out, a)
    BY <1>1, <1>3 DEF Finish
  <2>2. TradedIn(out') = order.filled
    BY <1>1, <1>3, FinishAccounts
  <2> QED
    BY <2>1, <2>2
<1>4. ASSUME NEW a \in Response, a.type \in {"FILLED", "ERROR"}, Finish(<<a>>), orders' = orders
      PROVE  \E b \in Response :
               /\ out' = Append(out, b) /\ ~IsTrade(b) /\ b.type # "CANCELLED"
               /\ b.type # "OK" /\ orders' = orders
  BY <1>3, <1>4 DEF IsTrade
<1>5. /\ Error("MKT_NO_LIQUIDITY") \in Response /\ Error("MKT_NO_LIQUIDITY").type = "ERROR"
      /\ Error("FOK_NO_FULL_FILL") \in Response /\ Error("FOK_NO_FULL_FILL").type = "ERROR"
      /\ Error("POOL_FULL") \in Response /\ Error("POOL_FULL").type = "ERROR"
      /\ Ack("FILLED", order.ref) \in Response /\ Ack("FILLED", order.ref).type = "FILLED"
      /\ Ack("OK", order.ref) \in Response /\ Ack("OK", order.ref).type = "OK"
      /\ Ack("OK", order.ref).ref = order.ref
  BY <1>1, ResponsesTyped DEF Error, Ack
<1>6. CASE SettleFilled
  BY <1>2, <1>1, <1>4, <1>5, <1>6 DEF SettleFilled, book
<1>7. CASE SettleIOC
  <2>1. orders' = orders
    BY <1>7 DEF SettleIOC, book
  <2>2. CASE order.filled = 0
    BY <1>1, <1>2, <1>4, <1>5, <1>7, <2>1, <2>2 DEF SettleIOC
  <2>3. CASE order.filled # 0
    <3>1. Finish(<<>>)
      BY <1>7, <2>3 DEF SettleIOC
    <3>2. out' = out
      BY <1>1, <3>1 DEF Finish
    <3> QED
      BY <1>1, <1>2, <2>1, <3>2
  <2> QED
    BY <2>2, <2>3
<1>8. CASE SettleFOK
  BY <1>2, <1>1, <1>4, <1>5, <1>8 DEF SettleFOK, book
<1>9. CASE SettleRest /\ poolUsed < PoolSize
  <2> DEFINE a == Ack("OK", order.ref)
  <2>1. Finish(<<a>>) /\ orders' = Indexed(order)
    BY <1>9 DEF SettleRest, Rest
  <2>2. a \in Response /\ a.type = "OK" /\ a.ref = order.ref /\ ~IsTrade(a)
    BY <1>5 DEF IsTrade
  <2> HIDE DEF a
  <2>3. out' = Append(out, a) /\ TradedIn(out') = order.filled
    BY <1>3, <2>1, <2>2
  <2> QED
    BY <1>1, <1>2, <2>1, <2>2, <2>3
<1>10. CASE SettleRest /\ ~(poolUsed < PoolSize)
  <2>1. Finish(<<Error("POOL_FULL")>>) /\ orders' = orders
    BY <1>10 DEF SettleRest, book
  <2> QED
    BY <1>1, <1>2, <1>4, <1>5, <2>1
<1> QED
  BY <1>6, <1>7, <1>8, <1>9, <1>10 DEF Settle

LEMMA SettleKeepsRegistry ==
  ASSUME EngineInv, Accounted, ExchangeInv, Settle,
         UNCHANGED <<strategyRefs, request, feed, mine, told>>
  PROVE  ExchangeInv'
<1>1. /\ order \in Order /\ out \in Seq(Response) /\ phase = "matching" /\ phase' = "idle"
      /\ order.ref \notin DOMAIN orders
      /\ \A i \in DOMAIN out : IsTrade(out[i])
      /\ used' = used /\ order' = order
  BY SettleAnswers DEF EngineInv, CallTypeOK, InFlight
<1>2. /\ request # None /\ request.type # "WITHDRAW"
      /\ feed = <<>> /\ mine' = mine /\ request' = request /\ feed' = feed
      /\ IF request.type = "SUBMIT" THEN order.ref = request.ref /\ order.user = Strategy
         ELSE order.ref \notin mine
  BY <1>1 DEF ExchangeInv, RequestOK, OwnersOK
<1>3. RequestOK' /\ FeedOK'
  BY <1>1, <1>2 DEF ExchangeInv, RequestOK, FeedOK
<1>4. Pending = out /\ Pending' = out'
  BY <1>2 DEF Pending
<1>5. CASE out' = out /\ orders' = orders
  <2>1. OwnersOK' /\ AnswersOK'
    BY <1>1, <1>2, <1>5 DEF ExchangeInv, OwnersOK, AnswersOK
  <2>2. \A r \in mine : Tracked(r)'
    BY <1>2, <1>4, <1>5 DEF ExchangeInv, RegistryOK, Tracked, FramesOf, Told, Awaits
  <2> QED
    BY <1>1, <1>2, <1>3, <2>1, <2>2 DEF ExchangeInv, RegistryOK
<1>6. ASSUME NEW a \in Response,
             out' = Append(out, a), ~IsTrade(a), a.type # "CANCELLED",
             IF a.type = "OK"
             THEN a.ref = order.ref /\ orders' = Indexed(order) /\ TradedIn(out') = order.filled
             ELSE orders' = orders
      PROVE  ExchangeInv'
  <2>1. PICK n \in Nat :
          /\ DOMAIN out' = DOMAIN out \cup {n} /\ n \notin DOMAIN out /\ out'[n] = a
          /\ Len(out') = n /\ \A i \in DOMAIN out : out'[i] = out[i]
    <3> DEFINE n == Len(out) + 1
    <3>1. /\ DOMAIN out' = DOMAIN out \cup {n} /\ n \notin DOMAIN out /\ out'[n] = a
          /\ Len(out') = n /\ \A i \in DOMAIN out : out'[i] = out[i]
          /\ n \in Nat
      BY <1>1, <1>6
    <3> QED
      BY <3>1
  <2>2. \A r \in Refs \ {order.ref} : Spared(r)
    BY <1>6 DEF Spared, Indexed
  <2>3. a.type = "OK" => order.ref \in DOMAIN orders' /\ orders'[order.ref] = order
    BY <1>6 DEF Indexed
  <2>4. a.type # "OK" => order.ref \notin DOMAIN orders'
    BY <1>1, <1>6
  <2>5. /\ mine \subseteq Refs
        /\ \A r \in DOMAIN orders \cap mine : orders[r].user = Strategy
    BY DEF EngineInv, CallTypeOK, ExchangeInv, RegistryOK, OwnersOK
  <2>6. OwnersOK'
    <3>1. ASSUME NEW r \in DOMAIN orders' \cap mine
          PROVE  orders'[r].user = Strategy
      <4>1. CASE r = order.ref
        BY <1>2, <2>3, <2>4, <4>1
      <4>2. CASE r # order.ref
        BY <2>2, <2>5, <4>2 DEF Spared
      <4> QED
        BY <4>1, <4>2
    <3> QED
      BY <1>1, <1>2, <3>1 DEF OwnersOK
  <2>7. AnswersOK'
    <3>1. \A i \in DOMAIN out : out'[i] = out[i] /\ IsTrade(out[i]) /\ out[i].type = "TRADE"
      BY <1>1, <2>1 DEF IsTrade
    <3>2. \A i \in DOMAIN out : request.type \in StrategyTypes => out[i].ref \notin mine
      BY <1>1, <1>2 DEF ExchangeInv, AnswersOK
    <3>4. a.type \in {"OK", "CANCELLED"} =>
            IF request.type \in StrategyTypes THEN a.ref = request.ref ELSE a.ref \notin mine
      BY <1>2, <1>6 DEF StrategyTypes
    <3>5. request.type = "SUBMIT" /\ request.ref \in DOMAIN orders' =>
            orders'[request.ref].filled = TradedIn(out')
      BY <1>2, <1>6, <2>3, <2>4
    <3> QED
      BY <1>1, <1>2, <1>6, <2>1, <3>1, <3>2, <3>4, <3>5 DEF AnswersOK
  <2>8. ASSUME NEW r \in mine
        PROVE  Tracked(r)'
    <3>1. Tracked(r)
      BY DEF ExchangeInv, RegistryOK
    <3>2. CASE r # order.ref
      <4>1. FramesOf(out', r) = FramesOf(out, r)
        BY <1>6, <2>1, <3>2 DEF FramesOf, Routed, IsTrade
      <4>2. Spared(r)
        BY <2>2, <2>5, <3>2
      <4>3. Told(r) => Told(r)'
        BY <4>2 DEF Told, Spared
      <4>4. ASSUME NEW f, Awaits(r, f)
            PROVE  Awaits(r, f)'
        BY <1>2, <4>2, <4>4 DEF Awaits, Spared
      <4> QED
        BY <1>4, <2>1, <3>1, <4>1, <4>3, <4>4 DEF Tracked
    <3>3. CASE r = order.ref
      <4>1. request.type = "SUBMIT"
        BY <1>2, <3>3
      <4>2. FramesOf(out, r) = {}
        BY <1>1, <1>2, <4>1 DEF ExchangeInv, AnswersOK, FramesOf, StrategyTypes
      <4>3. Told(r)
        BY <1>4, <3>1, <4>2 DEF Tracked
      <4>4. CASE a.type = "OK"
        <5>1. FramesOf(out', r) = {n} /\ n \in DOMAIN out'
          BY <1>6, <2>1, <3>3, <4>2, <4>4 DEF FramesOf, Routed
        <5>2. Awaits(r, a)'
          BY <1>2, <2>3, <3>3, <4>1, <4>4 DEF Awaits
        <5> QED
          BY <1>4, <2>1, <5>1, <5>2 DEF Tracked
      <4>5. CASE a.type # "OK"
        <5>1. FramesOf(out', r) = {}
          BY <1>6, <2>1, <4>2, <4>5 DEF FramesOf, Routed, IsTrade
        <5>2. Told(r)'
          BY <1>6, <4>3, <4>5 DEF Told
        <5> QED
          BY <1>4, <5>1, <5>2 DEF Tracked
      <4> QED
        BY <4>4, <4>5
    <3> QED
      BY <3>2, <3>3
  <2> QED
    BY <1>1, <1>2, <1>3, <2>6, <2>7, <2>8 DEF ExchangeInv, RegistryOK
<1> QED
  BY <1>5, <1>6, SettleAnswers

\* The trades of the responses are all but the answer, at their places.
LEMMA TradesArePlaced ==
  ASSUME out \in Seq(Response), ExchangeInv, request # None
  PROVE  /\ Trades \in Seq(Response)
         /\ DOMAIN Trades = {i \in DOMAIN out : IsTrade(out[i])}
         /\ \A i \in DOMAIN Trades : Trades[i] = out[i]
         /\ out # <<>> /\ ~IsTrade(Last(out)) =>
              Last(out) = out[Len(out)] /\ Len(Trades) = Len(out) - 1 /\ Len(out) \in DOMAIN out
         /\ out = <<>> \/ IsTrade(Last(out)) => Trades = out
<1>1. \A i \in DOMAIN out : i < Len(out) => IsTrade(out[i])
  BY DEF ExchangeInv, AnswersOK
<1>2. CASE out # <<>> /\ ~IsTrade(Last(out))
  <2>1. Trades = Front(out)
    BY <1>2 DEF Trades
  <2>2. Trades = [i \in 1..(Len(out) - 1) |-> out[i]]
    BY <2>1 DEF Front, SubSeq
  <2>3. Len(out) \in Nat /\ Len(out) > 0 /\ DOMAIN out = 1..Len(out)
    BY <1>2
  <2>4. Trades \in Seq(Response) /\ Len(Trades) = Len(out) - 1
    BY <2>2, <2>3
  <2>5. Last(out) = out[Len(out)]
    BY DEF Last
  <2>6. \A i \in DOMAIN out : IsTrade(out[i]) <=> i < Len(out)
    BY <1>1, <1>2, <2>3, <2>5
  <2>7. DOMAIN Trades = {i \in DOMAIN out : IsTrade(out[i])}
    BY <2>2, <2>3, <2>6
  <2>8. \A i \in DOMAIN Trades : Trades[i] = out[i]
    BY <2>2
  <2>9. Len(out) \in DOMAIN out
    BY <2>3
  <2> QED
    BY <1>2, <2>4, <2>5, <2>7, <2>8, <2>9
<1>3. CASE out = <<>> \/ IsTrade(Last(out))
  <2>1. Trades = out
    BY <1>3 DEF Trades
  <2>2. \A i \in DOMAIN out : IsTrade(out[i])
    BY <1>1, <1>3 DEF Last
  <2> QED
    BY <1>3, <2>1, <2>2
<1> QED
  BY <1>2, <1>3

\* The feed for the market: the event, then every trade, one place later than in
\* the responses.
LEMMA MarketFeedFrames ==
  ASSUME out \in Seq(Response), ExchangeInv, NEW ev \in MarketEvent, request = ev, ev # None
  PROVE  /\ MarketFeed(ev) \in Seq(Frame)
         /\ \A n \in DOMAIN MarketFeed(ev) :
              Routed(MarketFeed(ev)[n]) =>
                /\ n - 1 \in DOMAIN out /\ IsTrade(out[n - 1])
                /\ MarketFeed(ev)[n].type = "TRADE"
                /\ MarketFeed(ev)[n].ref = out[n - 1].ref
                /\ MarketFeed(ev)[n].qty = out[n - 1].qty
         /\ \A i \in DOMAIN out :
              IsTrade(out[i]) => i + 1 \in DOMAIN MarketFeed(ev) /\ Routed(MarketFeed(ev)[i + 1])
<1> DEFINE middle == [i \in DOMAIN Trades |-> [type |-> "TRADE", ref |-> Trades[i].ref,
                                              qty |-> Trades[i].qty]]
           last == IF TakerFill > 0 THEN <<Execute(TakerRef(ev), TakerFill)>> ELSE <<>>
           fs == MarketFeed(ev)
<1>1. /\ Trades \in Seq(Response) /\ DOMAIN Trades = {i \in DOMAIN out : IsTrade(out[i])}
      /\ \A i \in DOMAIN Trades : Trades[i] = out[i]
  BY TradesArePlaced
<1>2. \A i \in DOMAIN out : IsTrade(out[i]) => out[i].ref \in Refs /\ out[i].qty \in Int
  BY DEF Response, IsTrade
<1>3. /\ ev \in Frame /\ ~Routed(ev) /\ TakerRef(ev) \in Refs
  BY DEF Frame, MarketEvent, Routed, TakerRef
<1>4. middle \in Seq(Frame) /\ DOMAIN middle = DOMAIN Trades /\ Len(middle) = Len(Trades)
  <2>1. \A i \in DOMAIN Trades : middle[i] \in Frame
    BY <1>1, <1>2 DEF Frame
  <2>2. DOMAIN Trades = 1..Len(Trades) /\ Len(Trades) \in Nat
    BY <1>1, LenProperties
  <2> QED
    BY <2>1, <2>2
<1>5. /\ last \in Seq(Frame) /\ \A i \in DOMAIN last : ~Routed(last[i])
  <2> DEFINE e == Execute(TakerRef(ev), TakerFill)
  <2>1. TakerFill \in Int
    BY TradedIsSum, SumType DEF TakerFill
  <2>2. e \in Frame /\ ~Routed(e)
    BY <1>3, <2>1 DEF Execute, Frame, Routed
  <2>3. last = IF TakerFill > 0 THEN <<e>> ELSE <<>>
    OBVIOUS
  <2> HIDE DEF e, last
  <2>4. CASE TakerFill > 0
    BY <2>2, <2>3, <2>4
  <2>5. CASE ~(TakerFill > 0)
    BY <2>3, <2>5
  <2> QED
    BY <2>4, <2>5
<1>6. fs = <<ev>> \o middle \o last
  BY DEF MarketFeed
<1>7. \A i \in DOMAIN middle : middle[i] = [type |-> "TRADE", ref |-> out[i].ref, qty |-> out[i].qty]
  BY <1>1, <1>4
<1> HIDE DEF middle, last, fs
<1>8. /\ fs \in Seq(Frame) /\ Len(fs) = 1 + Len(middle) + Len(last)
      /\ fs[1] = ev
      /\ \A i \in DOMAIN middle : i + 1 \in DOMAIN fs /\ fs[i + 1] = middle[i]
      /\ \A n \in DOMAIN fs : n = 1 \/ n - 1 \in DOMAIN middle
                              \/ \E i \in DOMAIN last : fs[n] = last[i]
  <2> DEFINE start == <<ev>> \o middle
  <2>1. /\ start \in Seq(Frame) /\ Len(start) = 1 + Len(middle) /\ start[1] = ev
        /\ \A i \in DOMAIN middle : i + 1 \in DOMAIN start /\ start[i + 1] = middle[i]
    BY <1>3, <1>4
  <2>0. fs = start \o last
    BY <1>6
  <2> HIDE DEF start
  <2>2. /\ fs \in Seq(Frame) /\ Len(fs) = Len(start) + Len(last)
        /\ \A i \in DOMAIN start : i \in DOMAIN fs /\ fs[i] = start[i]
        /\ \A i \in DOMAIN last : fs[Len(start) + i] = last[i]
    <3>1. /\ fs \in Seq(Frame) /\ Len(fs) = Len(start) + Len(last)
          /\ \A i \in 1..(Len(start) + Len(last)) :
               fs[i] = IF i <= Len(start) THEN start[i] ELSE last[i - Len(start)]
      <4>1. start \in Seq(Frame) /\ last \in Seq(Frame)
        BY <1>5, <2>1
      <4>2. /\ start \o last \in Seq(Frame) /\ Len(start \o last) = Len(start) + Len(last)
            /\ \A i \in 1..(Len(start) + Len(last)) :
                 (start \o last)[i] = IF i <= Len(start) THEN start[i] ELSE last[i - Len(start)]
        BY <4>1, ConcatProperties, Zenon
      <4> QED
        BY <2>0, <4>2
    <3>2. /\ Len(start) \in Nat /\ DOMAIN start = 1..Len(start)
          /\ Len(last) \in Nat /\ DOMAIN last = 1..Len(last) /\ DOMAIN fs = 1..Len(fs)
      BY <1>5, <2>1, <3>1, LenProperties
    <3>3. ASSUME NEW i \in DOMAIN last PROVE fs[Len(start) + i] = last[i]
      <4>1. Len(start) + i \in 1..(Len(start) + Len(last)) /\ ~(Len(start) + i <= Len(start))
        BY <3>2
      <4>2. (Len(start) + i) - Len(start) = i
        BY <3>2
      <4> QED
        BY <3>1, <4>1, <4>2
    <3> QED
      BY <3>1, <3>2, <3>3
  <2>3. fs[1] = ev /\ \A i \in DOMAIN middle : i + 1 \in DOMAIN fs /\ fs[i + 1] = middle[i]
    BY <1>4, <2>1, <2>2
  <2>4. ASSUME NEW n \in DOMAIN fs, n # 1, n - 1 \notin DOMAIN middle
        PROVE  \E i \in DOMAIN last : fs[n] = last[i]
    <3> DEFINE i == n - 1 - Len(middle)
    <3>1. n \in Nat /\ n > 1 + Len(middle) /\ n <= 1 + Len(middle) + Len(last)
      BY <1>4, <1>5, <2>1, <2>2, <2>4
    <3>2. i \in DOMAIN last
      BY <1>4, <1>5, <3>1
    <3>3. fs[n] = last[i]
      <4>1. Len(start) + i = n
        BY <1>4, <2>1, <3>1
      <4> HIDE DEF i
      <4> QED
        BY <2>2, <3>2, <4>1
    <3> QED
      BY <3>2, <3>3
  <2>5. Len(fs) = 1 + Len(middle) + Len(last)
    BY <1>4, <1>5, <2>1, <2>2
  <2> QED
    BY <2>2, <2>3, <2>4, <2>5
<1>9. ASSUME NEW n \in DOMAIN fs, Routed(fs[n])
      PROVE  /\ n - 1 \in DOMAIN out /\ IsTrade(out[n - 1]) /\ fs[n].type = "TRADE"
             /\ fs[n].ref = out[n - 1].ref /\ fs[n].qty = out[n - 1].qty
  <2>1. n - 1 \in DOMAIN middle /\ n \in Nat
    BY <1>3, <1>5, <1>8, <1>9
  <2>2. fs[n] = middle[n - 1]
    BY <1>8, <2>1
  <2> QED
    BY <1>1, <1>4, <1>7, <2>1, <2>2
<1>10. ASSUME NEW i \in DOMAIN out, IsTrade(out[i])
       PROVE  i + 1 \in DOMAIN fs /\ Routed(fs[i + 1])
  <2>1. i \in DOMAIN middle
    BY <1>1, <1>4, <1>10
  <2> QED
    BY <1>7, <1>8, <2>1 DEF Routed
<1> QED
  BY <1>8, <1>9, <1>10 DEF fs

\* The feed for the strategy's own request: the trades as executions, and the answer
\* that changes the registry where it is in the responses.
LEMMA StrategyFeedFrames ==
  ASSUME out \in Seq(Response), ExchangeInv, NEW ev \in StrategyRequest, request = ev, ev # None
  PROVE  /\ StrategyFeed(ev) \in Seq(Frame)
         /\ \A n \in DOMAIN StrategyFeed(ev) :
              Routed(StrategyFeed(ev)[n]) =>
                /\ n \in DOMAIN out /\ out[n].type \in {"OK", "CANCELLED"}
                /\ StrategyFeed(ev)[n].type = out[n].type /\ StrategyFeed(ev)[n].ref = ev.ref
         /\ \A n \in DOMAIN out :
              out[n].type \in {"OK", "CANCELLED"} =>
                n \in DOMAIN StrategyFeed(ev) /\ Routed(StrategyFeed(ev)[n])
<1> DEFINE first == [i \in DOMAIN Trades |-> Execute(Trades[i].ref, Trades[i].qty)]
           answers == out # <<>> /\ Last(out).type \in {"OK", "CANCELLED"}
           a == [type |-> Last(out).type, ref |-> ev.ref]
           fs == StrategyFeed(ev)
<1>1. /\ Trades \in Seq(Response) /\ DOMAIN Trades = {i \in DOMAIN out : IsTrade(out[i])}
      /\ \A i \in DOMAIN Trades : Trades[i] = out[i]
      /\ out # <<>> /\ ~IsTrade(Last(out)) =>
           Last(out) = out[Len(out)] /\ Len(Trades) = Len(out) - 1 /\ Len(out) \in DOMAIN out
  BY TradesArePlaced
<1>2. \A i \in DOMAIN out : IsTrade(out[i]) => out[i].ref \in Refs /\ out[i].qty \in Int
  BY DEF Response, IsTrade
<1>3. /\ first \in Seq(Frame) /\ Len(first) = Len(Trades)
      /\ \A i \in DOMAIN first : ~Routed(first[i])
  <2>1. \A i \in DOMAIN Trades : first[i] \in Frame /\ ~Routed(first[i])
    BY <1>1, <1>2 DEF Execute, Frame, Routed
  <2>2. DOMAIN Trades = 1..Len(Trades) /\ Len(Trades) \in Nat
    BY <1>1, LenProperties
  <2> QED
    BY <2>1, <2>2
<1>4. ev.ref \in Refs
  BY DEF StrategyRequest
<1>5. CASE answers
  <2>1. ~IsTrade(Last(out))
    BY <1>5 DEF IsTrade
  <2>2. /\ Last(out) = out[Len(out)] /\ Len(first) = Len(out) - 1 /\ Len(out) \in DOMAIN out
    BY <1>1, <1>3, <1>5, <2>1
  <2>3. a \in Frame /\ a.type = Last(out).type /\ a.ref = ev.ref
    BY <1>4, <1>5 DEF Frame
  <2>4. fs = first \o <<a>>
    BY <1>5 DEF StrategyFeed
  <2> HIDE DEF first, fs, a
  <2>5. /\ fs \in Seq(Frame) /\ DOMAIN fs = DOMAIN out
        /\ fs[Len(out)] = a /\ \A i \in DOMAIN out : i # Len(out) => i \in DOMAIN first /\ fs[i] = first[i]
    <3>1. fs = Append(first, a)
      BY <1>3, <2>3, <2>4
    <3> QED
      BY <1>3, <2>2, <2>3, <3>1
  <2>6. \A n \in DOMAIN out : out[n].type \in {"OK", "CANCELLED"} => n = Len(out)
    BY DEF ExchangeInv, AnswersOK, IsTrade
  <2>7. Routed(a)
    BY <1>5, <2>3 DEF Routed
  <2>8. \A n \in DOMAIN fs : Routed(fs[n]) => n = Len(out)
    BY <1>3, <2>5
  <2> QED
    BY <1>5, <2>2, <2>3, <2>5, <2>6, <2>7, <2>8 DEF fs
<1>6. CASE ~answers
  <2>1. fs = first
    <3>1. fs = first \o <<>>
      BY <1>6 DEF StrategyFeed
    <3> HIDE DEF first, fs
    <3> QED
      BY <1>3, <3>1
  <2>2. \A n \in DOMAIN out : out[n].type \notin {"OK", "CANCELLED"}
    <3>1. \A n \in DOMAIN out : n < Len(out) => out[n].type = "TRADE"
      BY DEF ExchangeInv, AnswersOK, IsTrade
    <3>2. out # <<>> => Last(out) = out[Len(out)]
      BY DEF Last
    <3>3. \A n \in DOMAIN out : n = Len(out) \/ n < Len(out)
      OBVIOUS
    <3> QED
      BY <1>6, <3>1, <3>2, <3>3
  <2> HIDE DEF first, fs
  <2> QED
    BY <1>3, <2>1, <2>2 DEF fs
<1> QED
  BY <1>5, <1>6

\* When a request is published its responses become the feed, frame for frame.
LEMMA PublishKeepsRegistry ==
  ASSUME EngineInv, ExchangeInv, Publish
  PROVE  ExchangeInv'
<1>1. /\ request # None /\ phase = "idle" /\ phase' = phase /\ request' = None
      /\ orders' = orders /\ out' = out /\ order' = order /\ used' = used
      /\ strategyRefs' = strategyRefs /\ mine' = mine
  BY DEF Publish, vars
<1>2. /\ out \in Seq(Response) /\ used \subseteq Refs
      /\ request \in MarketEvent \cup StrategyRequest
      /\ mine \subseteq used /\ told \in [Refs -> Int]
      /\ \A r \in mine : Tracked(r)
  BY <1>1 DEF EngineInv, CallTypeOK, ExchangeInv, RequestOK, RegistryOK
<1>3. Pending = out /\ Pending' = feed'
  BY <1>1 DEF Pending
<1>4. None.type = "NONE" /\ None.type \notin StrategyTypes
  BY DEF None, StrategyTypes
<1>5. RequestOK' /\ OwnersOK' /\ AnswersOK'
  BY <1>1, <1>4 DEF ExchangeInv, RequestOK, OwnersOK, AnswersOK
<1>6. CASE request \in MarketEvent
  <2>1. request.type \notin StrategyTypes
    BY <1>6 DEF MarketEvent, StrategyTypes
  <2>2. feed' = MarketFeed(request) /\ told' = told
    BY <2>1 DEF Publish, StrategyTypes
  <2>3. /\ feed' \in Seq(Frame)
        /\ \A n \in DOMAIN feed' :
             Routed(feed'[n]) =>
               /\ n - 1 \in DOMAIN out /\ IsTrade(out[n - 1])
               /\ feed'[n].type = "TRADE"
               /\ feed'[n].ref = out[n - 1].ref /\ feed'[n].qty = out[n - 1].qty
        /\ \A i \in DOMAIN out : IsTrade(out[i]) => i + 1 \in DOMAIN feed' /\ Routed(feed'[i + 1])
    BY <1>1, <1>2, <1>6, <2>2, MarketFeedFrames
  <2>4. \A n \in DOMAIN feed' : n \in Nat /\ \A i \in DOMAIN out : i \in Nat
    BY <1>2, <2>3
  <2>5. FeedOK'
    BY <2>3 DEF FeedOK, Routed
  <2>6. ASSUME NEW r \in mine
        PROVE  Tracked(r)'
    <3>1. \A i \in DOMAIN out : Routed(out[i]) /\ out[i].ref = r => IsTrade(out[i])
      BY <1>1, <2>1 DEF ExchangeInv, AnswersOK, Routed, IsTrade
    <3>2. \A n \in FramesOf(feed', r) : n - 1 \in FramesOf(out, r)
      BY <2>3 DEF FramesOf, Routed, IsTrade
    <3>3. \A i \in FramesOf(out, r) : i + 1 \in FramesOf(feed', r)
      <4> TAKE i \in FramesOf(out, r)
      <4>1. IsTrade(out[i]) /\ out[i].ref = r /\ i \in DOMAIN out /\ i \in Nat
        BY <1>2, <3>1 DEF FramesOf
      <4>2. i + 1 \in DOMAIN feed' /\ Routed(feed'[i + 1]) /\ (i + 1) - 1 = i
        BY <2>3, <4>1
      <4>3. feed'[i + 1].ref = r
        BY <2>3, <4>1, <4>2
      <4> QED
        BY <4>2, <4>3 DEF FramesOf
    <3>4. CASE FramesOf(out, r) = {} /\ Told(r)
      <4>1. FramesOf(feed', r) = {} /\ Told(r)'
        BY <1>1, <2>2, <3>2, <3>4 DEF Told
      <4> QED
        BY <1>3, <4>1 DEF Tracked
    <3>5. ASSUME NEW i \in DOMAIN out, FramesOf(out, r) = {i}, Awaits(r, out[i])
          PROVE  Tracked(r)'
      <4>1. PICK n \in Nat : n = i + 1
        BY <1>2
      <4>2. FramesOf(feed', r) = {n} /\ n \in DOMAIN feed'
        <5>1. \A m \in FramesOf(feed', r) : m \in Nat
          BY <2>3 DEF FramesOf
        <5>2. n \in FramesOf(feed', r)
          BY <3>3, <3>5, <4>1
        <5>3. \A m \in FramesOf(feed', r) : m = n
          BY <1>2, <3>2, <3>5, <4>1, <5>1
        <5> QED
          BY <5>2, <5>3 DEF FramesOf
      <4>3. /\ feed'[n].type = "TRADE" /\ feed'[n].qty = out[i].qty /\ out[i].type = "TRADE"
        <5>1. Routed(feed'[n]) /\ n - 1 = i
          BY <1>2, <4>1, <4>2 DEF FramesOf
        <5> QED
          BY <2>3, <4>2, <5>1 DEF IsTrade
      <4> QED
        BY <1>1, <1>3, <2>2, <3>5, <4>2, <4>3 DEF Tracked, Awaits
    <3> QED
      BY <1>2, <1>3, <3>4, <3>5 DEF Tracked
  <2>7. RegistryOK'
    BY <1>1, <1>2, <2>2, <2>6 DEF ExchangeInv, RegistryOK
  <2> QED
    BY <1>5, <2>5, <2>7 DEF ExchangeInv
<1>7. CASE request \in StrategyRequest
  <2>1. request.type \in StrategyTypes /\ request.ref \in Refs /\ request.ref \in mine
    BY <1>7 DEF StrategyRequest, ExchangeInv, RequestOK
  <2>2. /\ feed' = StrategyFeed(request)
        /\ told' = IF request.type = "SUBMIT" THEN [told EXCEPT ![request.ref] = TradedIn(out)]
                   ELSE told
    BY <2>1 DEF Publish, StrategyTypes, TakerFill
  <2>3. /\ feed' \in Seq(Frame)
        /\ \A n \in DOMAIN feed' :
             Routed(feed'[n]) =>
               /\ n \in DOMAIN out /\ out[n].type \in {"OK", "CANCELLED"}
               /\ feed'[n].type = out[n].type /\ feed'[n].ref = request.ref
        /\ \A n \in DOMAIN out :
             out[n].type \in {"OK", "CANCELLED"} => n \in DOMAIN feed' /\ Routed(feed'[n])
    BY <1>1, <1>2, <1>7, <2>2, StrategyFeedFrames
  <2>4. \A n \in DOMAIN out :
          /\ out[n].type \in {"OK", "CANCELLED"} => out[n].ref = request.ref
          /\ IsTrade(out[n]) => out[n].ref \notin mine
    BY <1>1, <2>1 DEF ExchangeInv, AnswersOK
  <2>5. FeedOK'
    BY <1>1, <2>1, <2>3 DEF FeedOK, Routed
  <2>6. told' \in [Refs -> Int]
    <3>1. TradedIn(out) \in Int
      BY <1>2, TradedIsSum, SumType
    <3> QED
      BY <1>2, <2>2, <3>1
  <2>7. ASSUME NEW r \in mine, r \in DOMAIN orders, r = request.ref \/ told[r] = orders[r].filled
        PROVE  request.type = "SUBMIT" \/ told[r] = orders[r].filled => told'[r] = orders[r].filled
    <3>1. r \in Refs
      BY <1>2
    <3>2. CASE r = request.ref
      BY <1>1, <1>2, <2>2, <2>7, <3>1, <3>2 DEF ExchangeInv, AnswersOK
    <3>3. CASE r # request.ref
      BY <1>2, <2>2, <2>7, <3>1, <3>3
    <3> QED
      BY <3>2, <3>3
  <2>8. ASSUME NEW r \in mine
        PROVE  Tracked(r)'
    <3>1. FramesOf(feed', r) = FramesOf(out, r)
      BY <2>3, <2>4 DEF FramesOf, Routed, IsTrade
    <3>2. CASE FramesOf(out, r) = {} /\ Told(r)
      <4>1. Told(r)'
        BY <1>1, <2>7, <3>2 DEF Told
      <4> QED
        BY <1>3, <3>1, <3>2, <4>1 DEF Tracked
    <3>3. ASSUME NEW i \in DOMAIN out, FramesOf(out, r) = {i}, Awaits(r, out[i])
          PROVE  Tracked(r)'
      <4>1. Routed(out[i]) /\ out[i].ref = r
        BY <3>3 DEF FramesOf
      <4>2. out[i].type \in {"OK", "CANCELLED"} /\ r = request.ref
        BY <2>4, <4>1 DEF Routed, IsTrade
      <4>3. FramesOf(feed', r) = {i} /\ i \in DOMAIN feed' /\ feed'[i].type = out[i].type
        BY <2>3, <3>1, <3>3, <4>2
      <4>4. out[i].type = "OK" => r \in DOMAIN orders /\ told'[r] = orders[r].filled
        BY <2>7, <3>3, <4>2 DEF Awaits
      <4> QED
        BY <1>1, <1>3, <3>3, <4>2, <4>3, <4>4 DEF Tracked, Awaits
    <3> QED
      BY <1>2, <1>3, <3>2, <3>3 DEF Tracked
  <2>9. RegistryOK'
    BY <1>1, <1>2, <2>6, <2>8 DEF ExchangeInv, RegistryOK
  <2> QED
    BY <1>5, <2>5, <2>9 DEF ExchangeInv
<1> QED
  BY <1>2, <1>6, <1>7

\* Sending out the head moves every other frame one place forward.
LEMMA TailFrames ==
  ASSUME feed \in Seq(Frame), feed # <<>>, feed' = Tail(feed)
  PROVE  /\ Head(feed) \in Frame /\ 1 \in DOMAIN feed /\ feed[1] = Head(feed)
         /\ feed' \in Seq(Frame)
         /\ \A n \in DOMAIN feed' : n \in Nat \ {0} /\ n + 1 \in DOMAIN feed /\ feed'[n] = feed[n + 1]
         /\ \A n \in DOMAIN feed : n \in Nat /\ (n # 1 => n - 1 \in DOMAIN feed')
<1>1. Len(feed) \in Nat /\ Len(feed) > 0 /\ DOMAIN feed = 1..Len(feed)
  OBVIOUS
<1>2. Tail(feed) \in Seq(Frame) /\ Len(Tail(feed)) = Len(feed) - 1
  OBVIOUS
<1>3. \A n \in 1..(Len(feed) - 1) : Tail(feed)[n] = feed[n + 1]
  OBVIOUS
<1>4. DOMAIN Tail(feed) = 1..(Len(feed) - 1)
  BY <1>1, <1>2
<1>5. feed[1] = Head(feed) /\ feed[1] \in Frame
  BY <1>1
<1> QED
  BY <1>1, <1>2, <1>3, <1>4, <1>5

\* A step that sends out the head keeps what is under way for every other order.
LEMMA SendKeepsTracked ==
  ASSUME ExchangeInv, request = None, request' = request, feed # <<>>, feed' = Tail(feed),
         orders' = orders, NEW r \in mine, ~(Routed(Head(feed)) /\ Head(feed).ref = r),
         told'[r] = told[r], r \in strategyRefs' <=> r \in strategyRefs
  PROVE  Tracked(r)'
<1>1. Tracked(r) /\ Pending = feed /\ Pending' = feed' /\ feed \in Seq(Frame)
  BY DEF Pending, ExchangeInv, RegistryOK, FeedOK
<1>2. /\ 1 \in DOMAIN feed /\ feed[1] = Head(feed)
      /\ \A n \in DOMAIN feed' : n \in Nat \ {0} /\ n + 1 \in DOMAIN feed /\ feed'[n] = feed[n + 1]
      /\ \A n \in DOMAIN feed : n \in Nat /\ (n # 1 => n - 1 \in DOMAIN feed')
  BY <1>1, TailFrames
<1>3. \A n \in FramesOf(feed', r) : n + 1 \in FramesOf(feed, r)
  BY <1>2 DEF FramesOf
<1>4. \A n \in FramesOf(feed, r) : n # 1 /\ n - 1 \in FramesOf(feed', r) /\ feed'[n - 1] = feed[n]
  <2> TAKE n \in FramesOf(feed, r)
  <2>1. n # 1 /\ n \in DOMAIN feed /\ n \in Nat
    BY <1>2 DEF FramesOf
  <2>2. n - 1 \in DOMAIN feed' /\ (n - 1) + 1 = n
    BY <1>2, <2>1
  <2>3. feed'[n - 1] = feed[n]
    BY <1>2, <2>2
  <2> QED
    BY <2>1, <2>2, <2>3 DEF FramesOf
<1>5. CASE FramesOf(feed, r) = {} /\ Told(r)
  <2>1. FramesOf(feed', r) = {}
    BY <1>3, <1>5
  <2> QED
    BY <1>1, <1>5, <2>1 DEF Tracked, Told
<1>6. ASSUME NEW n \in DOMAIN feed, FramesOf(feed, r) = {n}, Awaits(r, feed[n])
      PROVE  Tracked(r)'
  <2>1. PICK m \in Nat : n = m + 1
    BY <1>2, <1>4, <1>6
  <2>2. m \in FramesOf(feed', r) /\ feed'[m] = feed[n]
    BY <1>2, <1>4, <1>6, <2>1
  <2>3. \A k \in FramesOf(feed', r) : k = m
    BY <1>2, <1>3, <1>6, <2>1 DEF FramesOf
  <2>4. FramesOf(feed', r) = {m} /\ m \in DOMAIN feed'
    BY <2>2, <2>3 DEF FramesOf
  <2>5. Awaits(r, Pending[m])'
    <3>1. feed'[m] = feed[n]
      BY <2>2
    <3> QED
      BY <1>1, <1>6, <3>1 DEF Awaits
  <2> QED
    BY <1>1, <2>4, <2>5 DEF Tracked
<1> QED
  BY <1>1, <1>5, <1>6 DEF Tracked

\* The frame at the head is the only one for its order.
LEMMA HeadIsLast ==
  ASSUME ExchangeInv, request = None, feed # <<>>, feed' = Tail(feed),
         NEW r \in mine, Routed(Head(feed)), Head(feed).ref = r
  PROVE  Awaits(r, Head(feed)) /\ FramesOf(feed', r) = {}
<1>1. Tracked(r) /\ Pending = feed /\ feed \in Seq(Frame)
  BY DEF Pending, ExchangeInv, RegistryOK, FeedOK
<1>2. /\ 1 \in DOMAIN feed /\ feed[1] = Head(feed)
      /\ \A n \in DOMAIN feed' : n \in Nat \ {0} /\ n + 1 \in DOMAIN feed /\ feed'[n] = feed[n + 1]
  BY <1>1, TailFrames
<1>3. 1 \in FramesOf(feed, r)
  BY <1>2 DEF FramesOf
<1>4. FramesOf(feed, r) = {1} /\ Awaits(r, feed[1])
  BY <1>1, <1>3 DEF Tracked
<1>5. \A n \in FramesOf(feed', r) : n \in Nat \ {0} /\ n + 1 \in FramesOf(feed, r)
  BY <1>2 DEF FramesOf
<1>6. FramesOf(feed', r) = {}
  BY <1>4, <1>5
<1> QED
  BY <1>2, <1>4, <1>6

\* What all the sending steps leave alone.
LEMMA SendKeepsRest ==
  ASSUME ExchangeInv, feed # <<>>, feed' = Tail(feed), UNCHANGED <<vars, request, mine>>
  PROVE  /\ request = None /\ feed \in Seq(Frame)
         /\ RequestOK' /\ FeedOK' /\ OwnersOK' /\ AnswersOK'
<1>1. /\ request = None /\ feed \in Seq(Frame) /\ request' = request /\ mine' = mine
      /\ orders' = orders /\ phase' = phase /\ order' = order
  BY DEF ExchangeInv, RequestOK, FeedOK, vars
<1>2. /\ feed' \in Seq(Frame)
      /\ \A n \in DOMAIN feed' : n + 1 \in DOMAIN feed /\ feed'[n] = feed[n + 1]
  BY <1>1, TailFrames
<1>3. FeedOK'
  BY <1>1, <1>2 DEF ExchangeInv, FeedOK
<1>4. RequestOK' /\ OwnersOK' /\ AnswersOK'
  BY <1>1 DEF ExchangeInv, RequestOK, OwnersOK, AnswersOK
<1> QED
  BY <1>1, <1>3, <1>4

LEMMA BroadcastKeepsRegistry ==
  ASSUME ExchangeInv, Broadcast
  PROVE  ExchangeInv'
<1>1. /\ feed # <<>> /\ feed' = Tail(feed) /\ UNCHANGED <<vars, request, mine>>
      /\ strategyRefs' = strategyRefs /\ told' = told /\ mine' = mine /\ request' = request
      /\ orders' = orders /\ used' = used
      /\ Head(feed).type \notin {"OK", "CANCELLED"}
      /\ ~(Head(feed).type = "TRADE" /\ Head(feed).ref \in strategyRefs)
  BY DEF Broadcast, vars
<1>2. /\ request = None /\ RequestOK' /\ FeedOK' /\ OwnersOK' /\ AnswersOK'
  BY <1>1, SendKeepsRest
<1>3. ASSUME NEW r \in mine
      PROVE  Tracked(r)'
  <2>1. ASSUME Routed(Head(feed)), Head(feed).ref = r
        PROVE  FALSE
    <3>1. Awaits(r, Head(feed))
      BY <1>1, <1>2, <2>1, HeadIsLast
    <3> QED
      BY <1>1, <2>1, <3>1 DEF Awaits, Routed
  <2> QED
    BY <1>1, <1>2, <2>1, SendKeepsTracked
<1>4. RegistryOK'
  BY <1>1, <1>3 DEF ExchangeInv, RegistryOK
<1> QED
  BY <1>2, <1>4 DEF ExchangeInv

LEMMA ReportKeepsRegistry ==
  ASSUME EngineInv, ExchangeInv, ReportPassiveFill
  PROVE  ExchangeInv'
<1>1. PICK r0 : r0 = Head(feed).ref
  OBVIOUS
<1>2. /\ feed # <<>> /\ feed' = Tail(feed) /\ UNCHANGED <<vars, request, mine>>
      /\ mine' = mine /\ request' = request /\ orders' = orders /\ used' = used
      /\ Head(feed).type = "TRADE" /\ r0 \in strategyRefs
      /\ told' = [told EXCEPT ![r0] = told[r0] + Head(feed).qty]
      /\ strategyRefs' = IF r0 \in DOMAIN orders THEN strategyRefs ELSE strategyRefs \ {r0}
  BY <1>1 DEF ReportPassiveFill, Unregistered, vars
<1>3. /\ request = None /\ RequestOK' /\ FeedOK' /\ OwnersOK' /\ AnswersOK'
  BY <1>2, SendKeepsRest
<1>4. /\ strategyRefs \subseteq mine /\ mine \subseteq Refs /\ told \in [Refs -> Int]
      /\ Head(feed) \in Frame
  BY <1>2, TailFrames DEF ExchangeInv, RegistryOK, FeedOK, EngineInv, CallTypeOK
<1>5. told' \in [Refs -> Int]
  <2>1. Head(feed).qty \in Int
    BY <1>2, <1>4 DEF Frame, MarketEvent
  <2> QED
    BY <1>2, <1>4, <2>1
<1>6. ASSUME NEW r \in mine
      PROVE  Tracked(r)'
  <2>1. CASE r = r0
    <3>1. Awaits(r, Head(feed)) /\ FramesOf(feed', r) = {}
      BY <1>1, <1>2, <1>3, <2>1, HeadIsLast DEF Routed
    <3>2. Told(r)'
      BY <1>2, <1>4, <2>1, <3>1 DEF Told, Awaits
    <3>3. Pending' = feed'
      BY <1>2, <1>3 DEF Pending
    <3> QED
      BY <3>1, <3>2, <3>3 DEF Tracked
  <2>2. CASE r # r0
    <3>1. told'[r] = told[r] /\ (r \in strategyRefs' <=> r \in strategyRefs)
      BY <1>2, <1>4, <2>2
    <3> QED
      BY <1>1, <1>2, <1>3, <2>2, <3>1, SendKeepsTracked
  <2> QED
    BY <2>1, <2>2
<1>7. RegistryOK'
  BY <1>2, <1>4, <1>5, <1>6 DEF ExchangeInv, RegistryOK
<1> QED
  BY <1>3, <1>7 DEF ExchangeInv

LEMMA RegisterKeepsRegistry ==
  ASSUME ExchangeInv, Register
  PROVE  ExchangeInv'
<1>1. PICK r0 : r0 = Head(feed).ref
  OBVIOUS
<1>2. /\ feed # <<>> /\ feed' = Tail(feed) /\ UNCHANGED <<vars, request, mine>>
      /\ mine' = mine /\ request' = request /\ orders' = orders /\ told' = told /\ used' = used
      /\ Head(feed).type \in {"OK", "CANCELLED"}
      /\ strategyRefs' = IF Head(feed).type = "OK" THEN strategyRefs \cup {r0}
                         ELSE strategyRefs \ {r0}
  BY <1>1 DEF Register, vars
<1>3. /\ request = None /\ RequestOK' /\ FeedOK' /\ OwnersOK' /\ AnswersOK'
  BY <1>2, SendKeepsRest
<1>4. r0 \in mine
  BY <1>1, <1>2, TailFrames DEF ExchangeInv, FeedOK
<1>5. ASSUME NEW r \in mine
      PROVE  Tracked(r)'
  <2>1. CASE r = r0
    <3>1. Awaits(r, Head(feed)) /\ FramesOf(feed', r) = {}
      BY <1>1, <1>2, <1>3, <2>1, HeadIsLast DEF Routed
    <3>2. request.type # "SUBMIT"
      BY <1>3 DEF None
    <3>3. Told(r)'
      BY <1>2, <2>1, <3>1, <3>2 DEF Told, Awaits
    <3>4. Pending' = feed'
      BY <1>2, <1>3 DEF Pending
    <3> QED
      BY <3>1, <3>3, <3>4 DEF Tracked
  <2>2. CASE r # r0
    <3>1. told'[r] = told[r] /\ (r \in strategyRefs' <=> r \in strategyRefs)
      BY <1>2, <2>2
    <3> QED
      BY <1>1, <1>2, <1>3, <2>2, <3>1, SendKeepsTracked
  <2> QED
    BY <2>1, <2>2
<1>6. RegistryOK'
  BY <1>2, <1>4, <1>5 DEF ExchangeInv, RegistryOK
<1> QED
  BY <1>3, <1>6 DEF ExchangeInv

\* The registry's invariant, kept by every step of the composition.
ExchangeIInv == EngineInv /\ CallsAccount /\ ExchangeInv
THEOREM RegistryInvariant == ExchangeSpec => []ExchangeIInv
<1>1. ExchangeInit => ExchangeInv
  BY InitKeepsRegistry
<1>2. EngineInv /\ CallsAccount /\ ExchangeInv /\ [ExchangeNext]_allVars => ExchangeInv'
  <2> SUFFICES ASSUME EngineInv, CallsAccount, ExchangeInv, [ExchangeNext]_allVars
               PROVE  ExchangeInv'
    OBVIOUS
  <2>1. CASE Requests
    BY <2>1, RequestIsReceived, ReceivedKeepsRegistry
  <2>2. CASE EngineStep
    <3>1. (MatchStep \/ Settle) /\ UNCHANGED <<strategyRefs, request, feed, mine, told>>
      BY <2>2 DEF EngineStep
    <3>2. Accounted
      BY DEF CallsAccount
    <3> QED
      BY <3>1, <3>2, MatchKeepsRegistry, SettleKeepsRegistry
  <2>3. CASE Publish
    BY <2>3, PublishKeepsRegistry
  <2>4. CASE Broadcast
    BY <2>4, BroadcastKeepsRegistry
  <2>5. CASE ReportPassiveFill
    BY <2>5, ReportKeepsRegistry
  <2>6. CASE Register
    BY <2>6, RegisterKeepsRegistry
  <2>7. CASE UNCHANGED allVars
    <3>1. UNCHANGED <<orders, used, phase, order, out, strategyRefs, request, feed, mine, told>>
      BY <2>7 DEF allVars, vars
    <3>2. RequestOK' /\ FeedOK' /\ OwnersOK' /\ AnswersOK'
      BY <3>1 DEF ExchangeInv, RequestOK, FeedOK, OwnersOK, AnswersOK
    <3>3. Pending' = Pending
      BY <3>1 DEF Pending
    <3>4. RegistryOK'
      BY <3>1, <3>3 DEF ExchangeInv, RegistryOK, Tracked, Told, Awaits
    <3> QED
      BY <3>2, <3>4 DEF ExchangeInv
  <2> QED
    BY <2>1, <2>2, <2>3, <2>4, <2>5, <2>6, <2>7 DEF ExchangeNext, Requests
<1>3. ExchangeSpec => []EngineInv /\ []CallsAccount
  BY ExchangeRunsEngine, EngineInvariant, CallsAlwaysAccount, PTL
<1> QED
  BY <1>1, <1>2, <1>3, PTL DEF ExchangeSpec, ExchangeIInv

\* strategy_refs_, kept in four places, is between requests just the set of the
\* strategy's resting orders.
THEOREM RegistryAlwaysExact == ExchangeSpec => []RegistryExact
<1>1. ExchangeIInv => RegistryExact
  <2> SUFFICES ASSUME ExchangeIInv, Quiet PROVE strategyRefs = DOMAIN orders \cap mine
    BY DEF RegistryExact
  <2>1. \A r \in mine : Told(r)
    BY QuietIsTold DEF ExchangeIInv
  <2>2. strategyRefs \subseteq mine
    BY DEF ExchangeIInv, ExchangeInv, RegistryOK
  <2> QED
    BY <2>1, <2>2 DEF Told
<1> QED
  BY <1>1, RegistryInvariant, PTL

\* on_strategy_maker_fill gets the fills of the strategy's orders and no others,
\* although the registry is looked up long after the engine has changed its book.
THEOREM TradesAlwaysRouted == ExchangeSpec => []TradesAreRouted
<1>1. ExchangeIInv => TradesAreRouted
  <2> SUFFICES ASSUME ExchangeIInv, NEW n \in DOMAIN feed, feed[n].type = "TRADE"
               PROVE  feed[n].ref \in strategyRefs <=> feed[n].ref \in mine
    BY DEF TradesAreRouted
  <2>1. request = None
    BY DEF ExchangeIInv, ExchangeInv, RequestOK
  <2>2. strategyRefs \subseteq mine /\ Pending = feed
    BY <2>1 DEF ExchangeIInv, ExchangeInv, RegistryOK, Pending
  <2>3. ASSUME NEW r \in mine, feed[n].ref = r
        PROVE  r \in strategyRefs
    <3>1. n \in FramesOf(feed, r)
      BY <2>3 DEF FramesOf, Routed
    <3>2. Tracked(r)
      BY DEF ExchangeIInv, ExchangeInv, RegistryOK
    <3>3. FramesOf(feed, r) = {n} /\ Awaits(r, feed[n])
      BY <2>2, <3>1, <3>2 DEF Tracked
    <3> QED
      BY <3>3 DEF Awaits
  <2> QED
    BY <2>2, <2>3
<1> QED
  BY <1>1, RegistryInvariant, PTL

\* No fill of a resting order of the strategy is lost, told twice or told to the
\* market: between requests it has been told just what the engine has counted.
THEOREM FillsAlwaysTold == ExchangeSpec => []FillsTold
<1>1. ExchangeIInv => FillsTold
  BY QuietIsTold DEF ExchangeIInv, FillsTold, Told
<1> QED
  BY <1>1, RegistryInvariant, PTL
-----------------------------------------------------------------------------
(* What the market book shows once all that is under way has reached it.   *)
(* A view has for every reference the order that is shown, or Gone.          *)

Gone == [rem |-> 0]
Less(s, qty) == IF s.rem = 0 \/ qty >= s.rem THEN Gone ELSE [s EXCEPT !.rem = @ - qty]
\* The view after frame f has been heard in view v.
Hears(v, f) ==
  CASE f.type = "ADD" ->
         [v EXCEPT ![f.ref] = [locate |-> f.locate, side |-> f.side, price |-> f.price,
                               rem |-> f.qty]]
    [] f.type = "DELETE" -> [v EXCEPT ![f.ref] = Gone]
    [] f.type = "REPLACE" ->
         IF v[f.ref].rem = 0 THEN v
         ELSE [v EXCEPT ![f.ref] = Gone,
                        ![f.new] = [locate |-> v[f.ref].locate, side |-> v[f.ref].side,
                                    price |-> f.price, rem |-> f.qty]]
    [] f.type \in {"CANCEL", "TRADE", "EXECUTE"} -> [v EXCEPT ![f.ref] = Less(@, f.qty)]
    [] OTHER -> v
\* Hearing the frames fs one by one leads from view v to view w.
Leads(v, fs, w) ==
  \E g : /\ g[0] = v /\ g[Len(fs)] = w
         /\ \A n \in 1..Len(fs) : g[n] = Hears(g[n - 1], fs[n])

LEMMA LeadsNowhere == \A v, w : Leads(v, <<>>, w) <=> v = w
<1> SUFFICES ASSUME NEW v, NEW w PROVE Leads(v, <<>>, w) <=> v = w
  OBVIOUS
<1>1. Len(<<>>) = 0
  OBVIOUS
<1>2. Leads(v, <<>>, w) => v = w
  BY <1>1 DEF Leads
<1>3. ASSUME v = w PROVE Leads(v, <<>>, w)
  <2> DEFINE g == [n \in {0} |-> v]
  <2>1. g[0] = v /\ g[Len(<<>>)] = w
    BY <1>1, <1>3
  <2>2. \A n \in 1..Len(<<>>) : g[n] = Hears(g[n - 1], <<>>[n])
    BY <1>1
  <2> QED
    BY <2>1, <2>2 DEF Leads
<1> QED
  BY <1>2, <1>3

LEMMA LeadsOn ==
  ASSUME NEW S, NEW fs \in Seq(S), NEW f \in S, NEW v, NEW w, Leads(v, fs, w)
  PROVE  Leads(v, Append(fs, f), Hears(w, f))
<1>1. PICK g : /\ g[0] = v /\ g[Len(fs)] = w
               /\ \A n \in 1..Len(fs) : g[n] = Hears(g[n - 1], fs[n])
  BY DEF Leads
<1> DEFINE more == Append(fs, f)
           h == [n \in 0..Len(more) |-> IF n = Len(more) THEN Hears(w, f) ELSE g[n]]
<1>2. /\ Len(fs) \in Nat /\ Len(more) = Len(fs) + 1 /\ more[Len(more)] = f
      /\ \A n \in 1..Len(fs) : more[n] = fs[n]
  OBVIOUS
<1> HIDE DEF more
<1>3. /\ h[0] = v /\ h[Len(more)] = Hears(w, f)
      /\ \A n \in 0..Len(fs) : h[n] = g[n]
  BY <1>1, <1>2
<1> HIDE DEF h
<1>4. ASSUME NEW n \in 1..Len(more)
      PROVE  h[n] = Hears(h[n - 1], more[n])
  <2>1. CASE n = Len(more)
    BY <1>1, <1>2, <1>3, <2>1
  <2>2. CASE n # Len(more)
    <3>1. n \in 1..Len(fs) /\ n \in 0..Len(fs) /\ n - 1 \in 0..Len(fs)
      BY <1>2, <2>2
    <3> QED
      BY <1>1, <1>2, <1>3, <3>1
  <2> QED
    BY <2>1, <2>2
<1>5. Leads(v, more, Hears(w, f))
  BY <1>3, <1>4 DEF Leads
<1> QED
  BY <1>5 DEF more

LEMMA LeadsFrom ==
  ASSUME NEW S, NEW fs \in Seq(S), fs # <<>>, NEW v, NEW w, Leads(v, fs, w)
  PROVE  Leads(Hears(v, Head(fs)), Tail(fs), w)
<1>1. PICK g : /\ g[0] = v /\ g[Len(fs)] = w
               /\ \A n \in 1..Len(fs) : g[n] = Hears(g[n - 1], fs[n])
  BY DEF Leads
<1> DEFINE rest == Tail(fs)
           h == [n \in 0..Len(rest) |-> g[n + 1]]
<1>2. /\ Len(rest) \in Nat /\ Len(fs) = Len(rest) + 1 /\ Head(fs) = fs[1]
      /\ \A n \in 1..Len(rest) : rest[n] = fs[n + 1]
  OBVIOUS
<1> HIDE DEF rest
<1>3. \A n \in 0..Len(rest) : h[n] = g[n + 1]
  OBVIOUS
<1> HIDE DEF h
<1>4. h[0] = Hears(v, Head(fs)) /\ h[Len(rest)] = w
  <2>1. 0 \in 0..Len(rest) /\ Len(rest) \in 0..Len(rest) /\ 1 \in 1..Len(fs)
    BY <1>2
  <2>2. g[1] = Hears(g[0], fs[1])
    <3>1. g[1] = Hears(g[1 - 1], fs[1])
      BY <1>1, <2>1
    <3> QED
      BY <3>1
  <2> QED
    BY <1>1, <1>2, <1>3, <2>1, <2>2
<1>5. ASSUME NEW n \in 1..Len(rest)
      PROVE  h[n] = Hears(h[n - 1], rest[n])
  <2>1. n + 1 \in 1..Len(fs) /\ (n + 1) - 1 = n /\ (n - 1) + 1 = n
        /\ n \in 0..Len(rest) /\ n - 1 \in 0..Len(rest)
    BY <1>2
  <2>2. g[n + 1] = Hears(g[n], fs[n + 1])
    BY <1>1, <2>1
  <2> QED
    BY <1>2, <1>3, <2>1, <2>2
<1>6. Leads(Hears(v, Head(fs)), rest, w)
  BY <1>4, <1>5 DEF Leads
<1> QED
  BY <1>6 DEF rest

LEMMA LeadsThrough ==
  ASSUME NEW S, NEW fs \in Seq(S), NEW gs \in Seq(S), NEW u, NEW v, NEW w,
         Leads(u, fs, v), Leads(v, gs, w)
  PROVE  Leads(u, fs \o gs, w)
<1>1. PICK f : /\ f[0] = u /\ f[Len(fs)] = v
               /\ \A n \in 1..Len(fs) : f[n] = Hears(f[n - 1], fs[n])
  BY DEF Leads
<1>2. PICK g : /\ g[0] = v /\ g[Len(gs)] = w
               /\ \A n \in 1..Len(gs) : g[n] = Hears(g[n - 1], gs[n])
  BY DEF Leads
<1> DEFINE all == fs \o gs
           h == [n \in 0..Len(all) |-> IF n <= Len(fs) THEN f[n] ELSE g[n - Len(fs)]]
<1>3. /\ Len(fs) \in Nat /\ Len(gs) \in Nat /\ Len(all) = Len(fs) + Len(gs)
      /\ \A n \in 1..Len(fs) : all[n] = fs[n]
      /\ \A n \in 1..Len(all) : n > Len(fs) => all[n] = gs[n - Len(fs)]
  OBVIOUS
<1> HIDE DEF all
<1>4. /\ \A n \in 0..Len(all) : n <= Len(fs) => h[n] = f[n]
      /\ \A n \in 0..Len(all) : n >= Len(fs) => h[n] = g[n - Len(fs)]
  <2>1. \A n \in 0..Len(all) : h[n] = IF n <= Len(fs) THEN f[n] ELSE g[n - Len(fs)]
    OBVIOUS
  <2> HIDE DEF h
  <2>2. ASSUME NEW n \in 0..Len(all), n >= Len(fs)
        PROVE  h[n] = g[n - Len(fs)]
    <3>1. CASE n = Len(fs)
      <4>1. n - Len(fs) = 0 /\ n <= Len(fs)
        BY <1>3, <3>1
      <4> QED
        BY <1>1, <1>2, <2>1, <3>1, <4>1
    <3>2. CASE n # Len(fs)
      <4>1. ~(n <= Len(fs))
        BY <1>3, <2>2, <3>2
      <4> QED
        BY <2>1, <4>1
    <3> QED
      BY <3>1, <3>2
  <2> QED
    BY <2>1, <2>2
<1> HIDE DEF h
<1>5. h[0] = u /\ h[Len(all)] = w
  BY <1>1, <1>2, <1>3, <1>4
<1>6. ASSUME NEW n \in 1..Len(all)
      PROVE  h[n] = Hears(h[n - 1], all[n])
  <2>1. CASE n <= Len(fs)
    <3>1. n \in 1..Len(fs) /\ n \in 0..Len(all) /\ n - 1 \in 0..Len(all) /\ n - 1 <= Len(fs)
      BY <1>3, <2>1
    <3>2. h[n] = f[n] /\ h[n - 1] = f[n - 1] /\ all[n] = fs[n]
      BY <1>3, <1>4, <2>1, <3>1
    <3> QED
      BY <1>1, <3>1, <3>2
  <2>2. CASE n > Len(fs)
    <3> DEFINE m == n - Len(fs)
    <3>1. /\ m \in 1..Len(gs) /\ n \in 0..Len(all) /\ n - 1 \in 0..Len(all)
          /\ n - 1 >= Len(fs) /\ n >= Len(fs) /\ (n - 1) - Len(fs) = m - 1
      BY <1>3, <2>2
    <3>2. h[n] = g[m] /\ h[n - 1] = g[m - 1] /\ all[n] = gs[m]
      BY <1>3, <1>4, <2>2, <3>1
    <3> HIDE DEF m
    <3> QED
      BY <1>2, <3>1, <3>2
  <2> QED
    BY <1>3, <2>1, <2>2
<1>7. Leads(u, all, w)
  BY <1>5, <1>6 DEF Leads
<1> QED
  BY <1>7 DEF all
-----------------------------------------------------------------------------
(* The market book's own part.                                             *)

\* Both pools hold every order.
PoolsSuffice == Cardinality(Refs) <= PoolSize

MarketOrder == [ref : Refs, locate : Locates, side : Sides, price : Prices, shares : Quantities,
                rem : Nat \ {0}]
LiveOK ==
  /\ DOMAIN live \subseteq (known \cap Refs) \ mine
  /\ \A r \in DOMAIN live : live[r] \in MarketOrder
Seen == [r \in Refs |-> IF r \in DOMAIN live THEN Shown(r) ELSE Gone]

\* What remains of a set of references leaves room in the pool.
LEMMA PoolHasSlot ==
  ASSUME PoolsSuffice, NEW S \in SUBSET Refs, NEW r \in Refs \ S
  PROVE  Cardinality(S) < PoolSize
<1>1. IsFiniteSet(Refs) /\ PoolSize \in Nat
  BY EngineConstants
<1>2. /\ IsFiniteSet(S) /\ Cardinality(S) \in Nat
      /\ Cardinality(S \cup {r}) = Cardinality(S) + 1
  BY <1>1, FS_Subset, FS_CardinalityType, FS_AddElement
<1>3. Cardinality(S \cup {r}) <= Cardinality(Refs) /\ Cardinality(Refs) \in Nat
  BY <1>1, FS_Subset, FS_CardinalityType
<1> QED
  BY <1>1, <1>2, <1>3 DEF PoolsSuffice

\* The market book counts as the engine does.
LEMMA SameCardinality == \A S : Market!Cardinality(S) = Cardinality(S)
BY DEF Market!Cardinality, Cardinality

\* Whatever happens to the live orders, the rest is seen as before.
LEMMA SeenChanges ==
  ASSUME NEW r \in Refs, NEW s,
         \A x \in Refs \ {r} : /\ x \in DOMAIN live' <=> x \in DOMAIN live
                               /\ x \in DOMAIN live => live'[x] = live[x],
         s = IF r \in DOMAIN live' THEN Shown(r)' ELSE Gone
  PROVE  Seen' = [Seen EXCEPT ![r] = s]
<1> DEFINE t == [Seen EXCEPT ![r] = s]
<1>1. t = [x \in Refs |-> IF x = r THEN s ELSE Seen[x]]
  BY DEF Seen
<1>2. ASSUME NEW x \in Refs
      PROVE  Seen'[x] = IF x = r THEN s ELSE Seen[x]
  <2>1. CASE x = r
    BY <2>1 DEF Seen
  <2>2. CASE x # r
    BY <2>2 DEF Seen, Shown
  <2> QED
    BY <2>1, <2>2
<1>3. Seen' = [x \in Refs |-> Seen'[x]]
  BY DEF Seen
<1> QED
  BY <1>1, <1>2, <1>3

LEMMA SeenIs ==
  ASSUME LiveOK, NEW r \in Refs
  PROVE  /\ r \in DOMAIN live => Seen[r] = Shown(r) /\ Seen[r].rem = live[r].rem /\ live[r].rem > 0
         /\ r \notin DOMAIN live => Seen[r] = Gone /\ Seen[r].rem = 0
         /\ Seen[r].rem = 0 <=> r \notin DOMAIN live
<1>1. CASE r \in DOMAIN live
  <2>1. Seen[r] = Shown(r)
    BY <1>1 DEF Seen
  <2>2. live[r].rem \in Nat \ {0}
    BY <1>1 DEF LiveOK, MarketOrder
  <2>3. Shown(r).rem = live[r].rem
    BY DEF Shown
  <2> QED
    BY <1>1, <2>1, <2>2, <2>3
<1>2. CASE r \notin DOMAIN live
  BY <1>2 DEF Seen, Gone
<1> QED
  BY <1>1, <1>2

LEMMA SlotIsMarketOrder ==
  ASSUME NEW loc \in Locates, NEW ref \in Refs, NEW side \in Sides, NEW price \in Prices,
         NEW qty \in Quantities
  PROVE  LET o == Market!Slot(ref, loc, side, price, qty)
         IN  /\ o \in MarketOrder
             /\ o.ref = ref /\ o.locate = loc /\ o.side = side /\ o.price = price /\ o.rem = qty
<1>1. qty \in Nat \ {0}
  BY EngineConstants
<1> QED
  BY <1>1 DEF Market!Slot, MarketOrder

LEMMA AddIsHeard ==
  ASSUME LiveOK, PoolsSuffice, UNCHANGED mine,
         NEW loc \in Locates, NEW ref \in Refs \ mine, NEW side \in Sides, NEW price \in Prices,
         NEW qty \in Quantities, Market!HandleAdd(loc, ref, side, price, qty)
  PROVE  /\ LiveOK'
         /\ Seen' = [Seen EXCEPT ![ref] = [locate |-> loc, side |-> side, price |-> price,
                                           rem |-> qty]]
<1> DEFINE o == Market!Slot(ref, loc, side, price, qty)
<1>1. /\ o \in MarketOrder
      /\ o.ref = ref /\ o.locate = loc /\ o.side = side /\ o.price = price /\ o.rem = qty
  BY SlotIsMarketOrder
<1>2. /\ ref \notin known /\ known' = known \cup {ref}
      /\ Market!AddTo(live, levels, o)
  BY DEF Market!HandleAdd
<1> HIDE DEF o
<1>3. ref \notin DOMAIN live /\ DOMAIN live \subseteq Refs
  BY <1>2 DEF LiveOK
<1>4. Cardinality(DOMAIN live) < PoolSize
  BY <1>3, PoolHasSlot
<1>5. live' = Market!Put(live, o)
  BY <1>2, <1>4, SameCardinality DEF Market!AddTo, Market!PoolHasRoom
<1>6. live' = [r \in DOMAIN live \cup {ref} |-> IF r = ref THEN o ELSE live[r]]
  BY <1>1, <1>5 DEF Market!Put
<1>7. LiveOK'
  BY <1>1, <1>2, <1>6 DEF LiveOK
<1>8. Shown(ref)' = [locate |-> loc, side |-> side, price |-> price, rem |-> qty]
  BY <1>1, <1>6 DEF Shown
<1> QED
  BY <1>6, <1>7, <1>8, SeenChanges

LEMMA DropIsHeard ==
  ASSUME LiveOK, UNCHANGED <<known, mine>>, NEW ref \in DOMAIN live, live' = Market!Drop(live, ref)
  PROVE  LiveOK' /\ Seen' = [Seen EXCEPT ![ref] = Gone]
<1>1. live' = [r \in DOMAIN live \ {ref} |-> live[r]]
  BY DEF Market!Drop
<1>2. LiveOK' /\ ref \in Refs
  BY <1>1 DEF LiveOK
<1> QED
  BY <1>1, <1>2, SeenChanges

\* cancel() and execute() of any number of shares.
LEMMA ReduceIsHeard ==
  ASSUME LiveOK, UNCHANGED <<known, mine>>, NEW ref \in DOMAIN live, NEW qty \in Int,
         Market!Reduce(ref, qty)
  PROVE  LiveOK' /\ Seen' = [Seen EXCEPT ![ref] = Less(Seen[ref], qty)]
<1>1. /\ ref \in Refs /\ live[ref] \in MarketOrder /\ live[ref].rem \in Nat \ {0}
      /\ Seen[ref] = Shown(ref) /\ Seen[ref].rem = live[ref].rem
  BY SeenIs DEF LiveOK, MarketOrder
<1>2. CASE qty >= live[ref].rem
  <2>1. Market!Amount(live[ref], qty) = live[ref].rem
    BY <1>1, <1>2 DEF Market!Amount
  <2>2. live' = Market!Drop(live, ref)
    BY <2>1 DEF Market!Reduce
  <2>3. Less(Seen[ref], qty) = Gone
    BY <1>1, <1>2 DEF Less
  <2> QED
    BY <2>2, <2>3, DropIsHeard
<1>3. CASE qty < live[ref].rem
  <2> DEFINE left == [live[ref] EXCEPT !.rem = live[ref].rem - qty]
  <2>1. Market!Amount(live[ref], qty) = qty /\ qty # live[ref].rem
    BY <1>1, <1>3 DEF Market!Amount
  <2>2. live' = [live EXCEPT ![ref].rem = @ - qty]
    BY <2>1 DEF Market!Reduce
  <2>3. live' = [live EXCEPT ![ref] = left]
    BY <2>2
  <2>4. /\ left \in MarketOrder
        /\ left.rem = live[ref].rem - qty /\ left.locate = live[ref].locate
        /\ left.side = live[ref].side /\ left.price = live[ref].price
    BY <1>1, <1>3 DEF MarketOrder
  <2> HIDE DEF left
  <2>5. DOMAIN live' = DOMAIN live /\ live'[ref] = left
        /\ \A r \in DOMAIN live \ {ref} : live'[r] = live[r]
    BY <2>3
  <2>6. LiveOK'
    BY <2>4, <2>5 DEF LiveOK
  <2>7. Less(Seen[ref], qty) = [Shown(ref) EXCEPT !.rem = live[ref].rem - qty]
    BY <1>1, <1>3 DEF Less
  <2>8. Shown(ref)' = [Shown(ref) EXCEPT !.rem = live[ref].rem - qty]
    BY <2>4, <2>5 DEF Shown
  <2> QED
    BY <1>1, <2>5, <2>6, <2>7, <2>8, SeenChanges
<1> QED
  BY <1>1, <1>2, <1>3

LEMMA ReplaceIsHeard ==
  ASSUME LiveOK, PoolsSuffice, UNCHANGED mine,
         NEW ref \in DOMAIN live, NEW new \in Refs \ mine, NEW price \in Prices,
         NEW qty \in Quantities, Market!HandleReplace(ref, new, price, qty)
  PROVE  /\ LiveOK'
         /\ Seen' = [Seen EXCEPT ![ref] = Gone,
                                 ![new] = [locate |-> Seen[ref].locate, side |-> Seen[ref].side,
                                           price |-> price, rem |-> qty]]
<1> DEFINE o == Market!Slot(new, live[ref].locate, live[ref].side, price, qty)
           rest == Market!Drop(live, ref)
<1>1. live[ref] \in MarketOrder /\ ref \in Refs /\ Seen[ref] = Shown(ref)
  BY SeenIs DEF LiveOK
<1>2. /\ o \in MarketOrder /\ o.ref = new
      /\ o.locate = live[ref].locate /\ o.side = live[ref].side /\ o.price = price /\ o.rem = qty
  BY <1>1, SlotIsMarketOrder DEF MarketOrder
<1>3. /\ new \notin known /\ known' = known \cup {new}
      /\ \E tables : Market!AddTo(rest, tables, o)
  BY DEF Market!HandleReplace
<1>4. /\ DOMAIN rest = DOMAIN live \ {ref} /\ \A r \in DOMAIN rest : rest[r] = live[r]
  BY DEF Market!Drop
<1> HIDE DEF o, rest
<1>5. new \notin DOMAIN live /\ DOMAIN rest \subseteq Refs /\ new \notin DOMAIN rest
  BY <1>3, <1>4 DEF LiveOK
<1>6. Cardinality(DOMAIN rest) < PoolSize
  BY <1>5, PoolHasSlot
<1>7. live' = Market!Put(rest, o)
  BY <1>3, <1>6, SameCardinality DEF Market!AddTo, Market!PoolHasRoom
<1>8. live' = [r \in DOMAIN rest \cup {new} |-> IF r = new THEN o ELSE rest[r]]
  BY <1>2, <1>7 DEF Market!Put
<1>9. LiveOK'
  BY <1>2, <1>3, <1>4, <1>8 DEF LiveOK
<1>10. ref # new
  BY <1>5
<1> DEFINE s == [locate |-> Seen[ref].locate, side |-> Seen[ref].side, price |-> price,
                 rem |-> qty]
           t == [Seen EXCEPT ![ref] = Gone, ![new] = s]
<1>11. Seen' = [r \in Refs |-> IF r = new THEN s ELSE IF r = ref THEN Gone ELSE Seen[r]]
  <2>1. Shown(new)' = s
    BY <1>1, <1>2, <1>8 DEF Shown
  <2>2. ASSUME NEW r \in Refs
        PROVE  Seen'[r] = IF r = new THEN s ELSE IF r = ref THEN Gone ELSE Seen[r]
    <3>1. CASE r = new
      BY <1>8, <2>1, <3>1 DEF Seen
    <3>2. CASE r = ref
      BY <1>4, <1>8, <1>10, <3>2 DEF Seen
    <3>3. CASE r # ref /\ r # new
      BY <1>4, <1>8, <3>3 DEF Seen, Shown
    <3> QED
      BY <1>10, <3>1, <3>2, <3>3
  <2>3. Seen' = [r \in Refs |-> Seen'[r]]
    BY DEF Seen
  <2> HIDE DEF s
  <2> QED
    BY <2>2, <2>3
<1>12. t = [r \in Refs |-> IF r = new THEN s ELSE IF r = ref THEN Gone ELSE Seen[r]]
  <2> HIDE DEF s
  <2> QED
    BY <1>10 DEF Seen
<1> QED
  BY <1>9, <1>11, <1>12
-----------------------------------------------------------------------------
(* The engine's book as the market book is to show it, and what is under    *)
(* way between the two.                                                     *)

Truth == [r \in Refs |-> IF r \in DOMAIN orders \ mine THEN Resting(r) ELSE Gone]

\* A call of the market enters the engine with all its shares; what it fills of them
\* the market book hears last.
FromMarket == request.type \in MarketTypes
Start == IF FromMarket THEN Hears(Seen, request) ELSE Seen
Arrived == [locate |-> order.locate, side |-> order.side, price |-> order.price,
            rem |-> order.orig]
Entering == IF FromMarket THEN [Truth EXCEPT ![order.ref] = Arrived] ELSE Truth
Settled(w) == IF FromMarket /\ TakerFill > 0
              THEN Hears(w, Execute(TakerRef(request), TakerFill)) ELSE w

\* What has been sent out and what is still to be sent make of the market book's view
\* the truth.
Mirrored ==
  /\ request = None => Leads(Seen, feed, Truth)
  /\ request # None /\ phase = "matching" => Leads(Start, out, Entering)
  /\ request # None /\ phase = "idle" => \E w : Leads(Start, out, w) /\ Truth = Settled(w)
\* The market's orders are owned by their references, and the local order of its call
\* is a day order.
MarketOwn ==
  /\ \A r \in DOMAIN orders \ mine : orders[r].user = r
  /\ FromMarket =>
       /\ request.ref \notin mine /\ TakerRef(request) \notin mine
       /\ phase = "matching" =>
            order.ref = TakerRef(request) /\ order.user = order.ref /\ cmd.tif = "DAY"
  /\ \A n \in DOMAIN feed : /\ feed[n].type = "ADD" => feed[n].ref \notin mine
                            /\ feed[n].type = "REPLACE" => feed[n].new \notin mine
MirrorInv == LiveOK /\ MarketOwn /\ Mirrored

LEMMA TypeOfFrame ==
  ASSUME NEW f \in Frame
  PROVE  /\ f.type \in MarketTypes \cup {"TRADE", "EXECUTE", "OK", "CANCELLED"}
         /\ f.ref \in Refs
         /\ f.type = "ADD" => f.locate \in Locates /\ f.side \in Sides /\ f.price \in Prices
                              /\ f.qty \in Quantities
         /\ f.type \in {"CANCEL", "TRADE", "EXECUTE"} => f.qty \in Int
         /\ f.type = "REPLACE" => f.new \in Refs /\ f.price \in Prices /\ f.qty \in Quantities
<1>1. Quantities \subseteq Int
  BY EngineConstants
<1> QED
  BY <1>1 DEF Frame, MarketEvent, MarketTypes

\* An event reaches the market book.
LEMMA EventIsHeard ==
  ASSUME LiveOK, PoolsSuffice, UNCHANGED mine, NEW ev \in Frame,
         ev.type \in {"ADD", "DELETE", "CANCEL", "REPLACE", "EXECUTE"},
         ev.type = "ADD" => ev.ref \notin mine,
         ev.type = "REPLACE" => ev.new \notin mine,
         MarketHears(ev)
  PROVE  LiveOK' /\ Seen' = Hears(Seen, ev)
<1>1. /\ ev.ref \in Refs
      /\ ev.type = "ADD" => ev.locate \in Locates /\ ev.side \in Sides /\ ev.price \in Prices
                              /\ ev.qty \in Quantities
      /\ ev.type \in {"CANCEL", "EXECUTE"} => ev.qty \in Int
      /\ ev.type = "REPLACE" => ev.new \in Refs /\ ev.price \in Prices /\ ev.qty \in Quantities
  BY TypeOfFrame
<1>2. Seen = [r \in Refs |-> Seen[r]]
  BY DEF Seen
<1>3. CASE IgnoredBy(ev)
  <2>1. Seen[ev.ref] = Gone /\ Seen[ev.ref].rem = 0 /\ ev.type # "ADD"
    BY <1>1, <1>3, SeenIs DEF IgnoredBy
  <2>2. Hears(Seen, ev) = Seen
    <3>1. [Seen EXCEPT ![ev.ref] = Gone] = Seen
      BY <1>2, <2>1
    <3>2. ev.type \in {"CANCEL", "EXECUTE"} => Less(Seen[ev.ref], ev.qty) = Gone
      BY <2>1 DEF Less
    <3> QED
      BY <2>1, <3>1, <3>2 DEF Hears
  <2>3. UNCHANGED <<live, known>>
    BY <1>3 DEF MarketHears, marketVars
  <2> QED
    BY <2>2, <2>3 DEF LiveOK, Seen, Shown
<1>4. CASE ~IgnoredBy(ev) /\ ev.type = "ADD"
  <2>1. Market!HandleAdd(ev.locate, ev.ref, ev.side, ev.price, ev.qty)
    BY <1>4 DEF MarketHears
  <2>2. ev.ref \in Refs \ mine
    BY <1>1, <1>4
  <2> QED
    BY <1>1, <1>4, <2>1, <2>2, AddIsHeard DEF Hears
<1>5. CASE ~IgnoredBy(ev) /\ ev.type # "ADD"
  <2>0. ev.ref \in DOMAIN live
    BY <1>5 DEF IgnoredBy
  <2>1. CASE ev.type = "DELETE"
    <3>1. Market!HandleDelete(ev.ref)
      BY <1>5, <2>1 DEF MarketHears
    <3>2. live' = Market!Drop(live, ev.ref) /\ known' = known
      BY <3>1 DEF Market!HandleDelete
    <3> QED
      BY <2>0, <2>1, <3>2, DropIsHeard DEF Hears
  <2>2. CASE ev.type = "CANCEL"
    <3>1. Market!HandleCancel(ev.ref, ev.qty)
      BY <1>5, <2>2 DEF MarketHears
    <3>2. Market!Reduce(ev.ref, ev.qty) /\ known' = known
      BY <3>1 DEF Market!HandleCancel
    <3> QED
      BY <1>1, <2>0, <2>2, <3>2, ReduceIsHeard DEF Hears
  <2>3. CASE ev.type = "EXECUTE"
    <3>1. Market!HandleExecute(ev.ref, ev.qty)
      BY <1>5, <2>3 DEF MarketHears
    <3>2. Market!Reduce(ev.ref, ev.qty) /\ known' = known
      BY <3>1 DEF Market!HandleExecute
    <3> QED
      BY <1>1, <2>0, <2>3, <3>2, ReduceIsHeard DEF Hears
  <2>4. CASE ev.type = "REPLACE"
    <3>1. Market!HandleReplace(ev.ref, ev.new, ev.price, ev.qty)
      BY <1>5, <2>4 DEF MarketHears
    <3>2. Seen[ev.ref].rem # 0 /\ ev.new \in Refs \ mine
      BY <1>1, <2>0, <2>4, SeenIs
    <3> QED
      BY <1>1, <2>0, <2>4, <3>1, <3>2, ReplaceIsHeard DEF Hears
  <2> QED
    BY <1>5, <2>1, <2>2, <2>3, <2>4
<1> QED
  BY <1>3, <1>4, <1>5

\* A frame that has been sent out has made its difference.
LEMMA SendKeepsMirror ==
  ASSUME ExchangeInv, MirrorInv, feed # <<>>, feed' = Tail(feed),
         UNCHANGED <<vars, request, mine>>, LiveOK', Seen' = Hears(Seen, Head(feed))
  PROVE  MirrorInv'
<1>1. /\ request = None /\ feed \in Seq(Frame) /\ request' = None
      /\ orders' = orders /\ mine' = mine
  BY DEF ExchangeInv, RequestOK, FeedOK, vars
<1>2. /\ \A n \in DOMAIN feed' : n + 1 \in DOMAIN feed /\ feed'[n] = feed[n + 1]
  BY <1>1, TailFrames
<1>3. ~FromMarket'
  BY <1>1 DEF FromMarket, MarketTypes, None
<1>4. MarketOwn'
  BY <1>1, <1>2, <1>3 DEF MirrorInv, MarketOwn
<1>5. Leads(Seen', feed', Truth)
  BY <1>1, LeadsFrom DEF MirrorInv, Mirrored
<1>6. Truth' = Truth
  BY <1>1 DEF Truth, Resting
<1> QED
  BY <1>1, <1>4, <1>5, <1>6 DEF MirrorInv, Mirrored

LEMMA SendingKeepsMirror ==
  ASSUME ExchangeInv, MirrorInv, PoolsSuffice, Broadcast \/ ReportPassiveFill \/ Register
  PROVE  MirrorInv'
<1>1. /\ feed # <<>> /\ feed' = Tail(feed) /\ UNCHANGED <<vars, request, mine>>
      /\ mine' = mine
  BY DEF Broadcast, ReportPassiveFill, Register
<1> DEFINE ev == Head(feed)
<1>2. ev \in Frame /\ 1 \in DOMAIN feed /\ feed[1] = ev
  BY <1>1, TailFrames DEF ExchangeInv, FeedOK
<1>3. /\ LiveOK /\ strategyRefs \subseteq mine
      /\ ev.type = "ADD" => ev.ref \notin mine
      /\ ev.type = "REPLACE" => ev.new \notin mine
  BY <1>2 DEF MirrorInv, MarketOwn, ExchangeInv, RegistryOK
<1>4. CASE Broadcast /\ ev.type # "TRADE"
  <2>1. MarketHears(ev) /\ ev.type \notin {"OK", "CANCELLED"}
    BY <1>4 DEF Broadcast
  <2>2. ev.type \in {"ADD", "DELETE", "CANCEL", "REPLACE", "EXECUTE"}
    BY <1>2, <1>4, <2>1, TypeOfFrame DEF MarketTypes
  <2> HIDE DEF ev
  <2>3. LiveOK' /\ Seen' = Hears(Seen, ev)
    BY <1>1, <1>2, <1>3, <2>1, <2>2, EventIsHeard
  <2> QED
    BY <1>1, <2>3, SendKeepsMirror DEF ev
<1>5. CASE Broadcast /\ ev.type = "TRADE"
  <2> DEFINE exec == Execute(ev.ref, ev.qty)
  <2>1. MarketHears(exec)
    BY <1>5 DEF Broadcast
  <2>2. ev.ref \in Refs /\ ev.qty \in Int
    BY <1>2, <1>5, TypeOfFrame
  <2>3. exec.type = "EXECUTE" /\ exec.ref = ev.ref /\ exec.qty = ev.qty /\ exec \in Frame
    BY <2>2 DEF Execute, Frame
  <2> HIDE DEF exec, ev
  <2>4. LiveOK' /\ Seen' = Hears(Seen, exec)
    BY <1>1, <1>3, <2>1, <2>3, EventIsHeard
  <2>5. Hears(Seen, exec) = Hears(Seen, ev)
    BY <1>5, <2>3 DEF Hears
  <2> QED
    BY <1>1, <2>4, <2>5, SendKeepsMirror DEF ev
\* The market book knows no order of the strategy, and hears no answer.
<1>6. CASE ReportPassiveFill \/ Register
  <2>1. /\ UNCHANGED <<live, known>>
        /\ ev.type \in {"OK", "CANCELLED"} \/ (ev.type = "TRADE" /\ ev.ref \in strategyRefs)
    BY <1>6 DEF ReportPassiveFill, Register, marketVars
  <2>2. LiveOK' /\ Seen' = Seen
    BY <1>1, <1>3, <2>1 DEF LiveOK, Seen, Shown
  <2>3. Hears(Seen, ev) = Seen
    <3>1. CASE ev.type \in {"OK", "CANCELLED"}
      BY <3>1 DEF Hears
    <3>2. CASE ev.type = "TRADE" /\ ev.ref \in strategyRefs
      <4>1. ev.ref \notin DOMAIN live /\ ev.ref \in Refs
        BY <1>2, <1>3, <3>2, TypeOfFrame DEF LiveOK
      <4>2. Seen[ev.ref] = Gone /\ Seen[ev.ref].rem = 0
        BY <1>3, <4>1, SeenIs
      <4>3. Less(Seen[ev.ref], ev.qty) = Gone
        BY <4>2 DEF Less
      <4>4. [Seen EXCEPT ![ev.ref] = Gone] = Seen
        BY <4>2 DEF Seen
      <4> QED
        BY <3>2, <4>3, <4>4 DEF Hears
    <3> QED
      BY <2>1, <3>1, <3>2
  <2> QED
    BY <1>1, <2>2, <2>3, SendKeepsMirror
<1> QED
  BY <1>4, <1>5, <1>6
-----------------------------------------------------------------------------
(* Publish: the feed says what the responses say.                          *)

\* The frames of fs without the last one, if that says nothing.
LEMMA LeadsWithout ==
  ASSUME NEW fs, NEW gs, Len(fs) \in Nat, Len(gs) \in Nat,
         Len(gs) = Len(fs) \/ (Len(fs) = Len(gs) + 1 /\ \A u : Hears(u, fs[Len(fs)]) = u),
         \A n \in 1..Len(gs) : \A u : Hears(u, gs[n]) = Hears(u, fs[n]),
         NEW v, NEW w, Leads(v, fs, w)
  PROVE  Leads(v, gs, w)
<1>1. PICK g : /\ g[0] = v /\ g[Len(fs)] = w
               /\ \A n \in 1..Len(fs) : g[n] = Hears(g[n - 1], fs[n])
  BY DEF Leads
<1>2. ASSUME NEW n \in 1..Len(gs)
      PROVE  g[n] = Hears(g[n - 1], gs[n])
  <2>1. n \in 1..Len(fs)
    OBVIOUS
  <2>2. g[n] = Hears(g[n - 1], fs[n])
    BY <1>1, <2>1
  <2>3. Hears(g[n - 1], gs[n]) = Hears(g[n - 1], fs[n])
    OBVIOUS
  <2> QED
    BY <2>2, <2>3
<1>3. g[Len(gs)] = w
  <2>1. CASE Len(gs) = Len(fs)
    BY <1>1, <2>1
  <2>2. CASE Len(fs) = Len(gs) + 1 /\ \A u : Hears(u, fs[Len(fs)]) = u
    <3>1. Len(fs) \in 1..Len(fs) /\ Len(fs) - 1 = Len(gs)
      BY <2>2
    <3>2. g[Len(fs)] = Hears(g[Len(gs)], fs[Len(fs)])
      BY <1>1, <3>1
    <3> QED
      BY <1>1, <2>2, <3>2
  <2> QED
    BY <2>1, <2>2
<1> QED
  BY <1>1, <1>2, <1>3 DEF Leads

\* Only trades are heard of the responses.
LEMMA AnswersSayNothing ==
  ASSUME NEW a \in Response, ~IsTrade(a)
  PROVE  \A u : Hears(u, a) = u
<1>1. a.type \in {"ERROR", "OK", "FILLED", "CANCELLED"}
  BY DEF Response, IsTrade
<1> QED
  BY <1>1 DEF Hears

TradeFrame == [type : {"TRADE", "EXECUTE"}, ref : Refs, qty : Int]
TradesAs(type) == [i \in DOMAIN Trades |-> [type |-> type, ref |-> Trades[i].ref,
                                           qty |-> Trades[i].qty]]
LEMMA TradesAreHeard ==
  ASSUME out \in Seq(Response), ExchangeInv, request # None, NEW type \in {"TRADE", "EXECUTE"},
         NEW v, NEW w, Leads(v, out, w)
  PROVE  TradesAs(type) \in Seq(TradeFrame) /\ Leads(v, TradesAs(type), w)
<1> DEFINE fs == TradesAs(type)
<1>1. /\ Trades \in Seq(Response) /\ DOMAIN Trades = {i \in DOMAIN out : IsTrade(out[i])}
      /\ \A i \in DOMAIN Trades : Trades[i] = out[i]
      /\ out # <<>> /\ ~IsTrade(Last(out)) =>
           Last(out) = out[Len(out)] /\ Len(Trades) = Len(out) - 1 /\ Len(out) \in DOMAIN out
      /\ out = <<>> \/ IsTrade(Last(out)) => Trades = out
  BY TradesArePlaced
<1>2. \A i \in DOMAIN out : IsTrade(out[i]) => /\ out[i].ref \in Refs /\ out[i].qty \in Int
                                              /\ out[i].type = "TRADE"
  BY DEF Response, IsTrade
<1>3. /\ DOMAIN Trades = 1..Len(Trades) /\ Len(Trades) \in Nat /\ Len(out) \in Nat
      /\ DOMAIN out = 1..Len(out)
  BY <1>1, LenProperties
<1>4. \A i \in 1..Len(Trades) :
        /\ fs[i] \in TradeFrame
        /\ fs[i].type = type /\ fs[i].ref = out[i].ref /\ fs[i].qty = out[i].qty
        /\ out[i].type = "TRADE"
  BY <1>1, <1>2, <1>3 DEF TradesAs, TradeFrame
<1>5. fs \in Seq(TradeFrame) /\ Len(fs) = Len(Trades)
  <2>1. fs = [i \in 1..Len(Trades) |-> fs[i]]
    BY <1>3 DEF TradesAs
  <2> HIDE DEF fs
  <2> QED
    BY <1>3, <1>4, <2>1
<1> HIDE DEF fs
<1>6. \A n \in 1..Len(fs) : \A u : Hears(u, fs[n]) = Hears(u, out[n])
  <2> SUFFICES ASSUME NEW n \in 1..Len(fs), NEW u PROVE Hears(u, fs[n]) = Hears(u, out[n])
    OBVIOUS
  <2>1. /\ fs[n].type \in {"TRADE", "EXECUTE"} /\ out[n].type = "TRADE"
        /\ fs[n].ref = out[n].ref /\ fs[n].qty = out[n].qty
    BY <1>4, <1>5
  <2>2. Hears(u, fs[n]) = [u EXCEPT ![fs[n].ref] = Less(u[fs[n].ref], fs[n].qty)]
    BY <2>1 DEF Hears
  <2>3. Hears(u, out[n]) = [u EXCEPT ![out[n].ref] = Less(u[out[n].ref], out[n].qty)]
    BY <2>1 DEF Hears
  <2> QED
    BY <2>1, <2>2, <2>3
<1>7. Len(fs) = Len(out) \/ (Len(out) = Len(fs) + 1 /\ \A u : Hears(u, out[Len(out)]) = u)
  <2>1. CASE out # <<>> /\ ~IsTrade(Last(out))
    <3>1. out[Len(out)] \in Response /\ ~IsTrade(out[Len(out)])
      BY <1>1, <2>1
    <3>2. Len(out) = Len(fs) + 1
      BY <1>1, <1>3, <1>5, <2>1
    <3> QED
      BY <3>1, <3>2, AnswersSayNothing
  <2>2. CASE out = <<>> \/ IsTrade(Last(out))
    BY <1>1, <1>5, <2>2
  <2> QED
    BY <2>1, <2>2
<1>8. Len(fs) \in Nat /\ Len(out) \in Nat
  BY <1>3, <1>5
<1>9. Leads(v, fs, w)
  BY <1>6, <1>7, <1>8, LeadsWithout
<1> QED
  BY <1>5, <1>9 DEF fs

\* Frames that do not show an order of the strategy.
OwnFrame == {f \in Frame : /\ f.type = "ADD" => f.ref \notin mine
                           /\ f.type = "REPLACE" => f.new \notin mine}
LEMMA TradeFramesAreOwn ==
  /\ TradeFrame \subseteq OwnFrame
  /\ \A fs \in Seq(TradeFrame) : fs \in Seq(OwnFrame)
<1>1. TradeFrame \subseteq OwnFrame
  BY DEF TradeFrame, OwnFrame, Frame
<1> QED
  BY <1>1

LEMMA PublishKeepsMirror ==
  ASSUME EngineInv, ExchangeInv, MirrorInv, Publish
  PROVE  MirrorInv'
<1>1. /\ request # None /\ phase = "idle" /\ request' = None
      /\ UNCHANGED <<live, known>>
      /\ orders' = orders /\ mine' = mine
  BY DEF Publish, vars, marketVars
<1>2. /\ out \in Seq(Response) /\ request \in MarketEvent \cup StrategyRequest
      /\ LiveOK /\ MarketOwn
  BY <1>1 DEF EngineInv, CallTypeOK, ExchangeInv, RequestOK, MirrorInv
<1>3. PICK w : Leads(Start, out, w) /\ Truth = Settled(w)
  BY <1>1 DEF MirrorInv, Mirrored
<1>4. /\ TradesAs("TRADE") \in Seq(TradeFrame) /\ Leads(Start, TradesAs("TRADE"), w)
      /\ TradesAs("EXECUTE") \in Seq(TradeFrame) /\ Leads(Start, TradesAs("EXECUTE"), w)
  BY <1>1, <1>2, <1>3, TradesAreHeard
<1>5. LiveOK' /\ Seen' = Seen /\ Truth' = Truth /\ ~FromMarket'
  BY <1>1, <1>2 DEF LiveOK, Seen, Shown, Truth, Resting, FromMarket, MarketTypes, None
<1>6. feed' \in Seq(OwnFrame) /\ Leads(Seen, feed', Truth)
  <2>1. CASE request \in MarketEvent
    <3>1. FromMarket /\ request \in OwnFrame
      <4>1. FromMarket
        BY <2>1 DEF FromMarket, MarketEvent, MarketTypes
      <4>2. request.ref \notin mine /\ TakerRef(request) \notin mine
        BY <1>2, <4>1 DEF MarketOwn
      <4> QED
        BY <2>1, <4>1, <4>2 DEF OwnFrame, Frame, TakerRef
    <3> DEFINE ev == request
               fs == TradesAs("TRADE")
               e == Execute(TakerRef(request), TakerFill)
    <3>2. feed' = <<ev>> \o fs \o IF TakerFill > 0 THEN <<e>> ELSE <<>>
      <4>1. request.type \notin {"SUBMIT", "WITHDRAW"}
        BY <3>1 DEF FromMarket, MarketTypes
      <4>2. feed' = MarketFeed(request)
        BY <4>1 DEF Publish
      <4> QED
        BY <4>2 DEF MarketFeed, TradesAs
    <3>3. e \in TradeFrame
      <4>1. TakerFill \in Int
        BY <1>2, TradedIsSum, SumType DEF TakerFill
      <4>2. TakerRef(request) \in Refs
        BY <2>1 DEF MarketEvent, TakerRef
      <4> QED
        BY <4>1, <4>2 DEF Execute, TradeFrame
    <3>4. Start = Hears(Seen, ev) /\ Settled(w) = IF TakerFill > 0 THEN Hears(w, e) ELSE w
      BY <3>1 DEF Start, Settled
    <3>5. fs \in Seq(OwnFrame) /\ e \in OwnFrame /\ ev \in OwnFrame
      BY <1>4, <3>1, <3>3, TradeFramesAreOwn
    <3> HIDE DEF ev, e, fs
    <3>6. <<ev>> \in Seq(OwnFrame) /\ Leads(Seen, <<ev>>, Start)
      <4>1. <<ev>> = Append(<<>>, ev) /\ <<>> \in Seq(OwnFrame)
        BY <3>5
      <4>2. Leads(Seen, Append(<<>>, ev), Hears(Seen, ev))
        BY <3>5, <4>1, LeadsNowhere, LeadsOn
      <4> QED
        BY <3>4, <3>5, <4>1, <4>2
    <3>7. <<ev>> \o fs \in Seq(OwnFrame) /\ Leads(Seen, <<ev>> \o fs, w)
      <4>1. Leads(Start, fs, w)
        BY <1>4 DEF fs
      <4>2. Leads(Seen, <<ev>> \o fs, w)
        BY <3>5, <3>6, <4>1, LeadsThrough
      <4>3. <<ev>> \o fs \in Seq(OwnFrame)
        BY <3>5, <3>6
      <4> QED
        BY <4>2, <4>3
    <3> DEFINE start == <<ev>> \o fs
    <3>8. start \in Seq(OwnFrame) /\ Leads(Seen, start, w)
      BY <3>7
    <3>9. feed' = start \o IF TakerFill > 0 THEN <<e>> ELSE <<>>
      BY <3>2
    <3> HIDE DEF start
    <3>10. CASE TakerFill > 0
      <4>1. feed' = Append(start, e)
        BY <3>5, <3>8, <3>9, <3>10
      <4>2. Leads(Seen, Append(start, e), Hears(w, e))
        BY <3>5, <3>8, LeadsOn
      <4> QED
        BY <1>3, <3>4, <3>5, <3>8, <3>10, <4>1, <4>2
    <3>11. CASE ~(TakerFill > 0)
      <4>1. feed' = start
        BY <3>8, <3>9, <3>11
      <4> QED
        BY <1>3, <3>4, <3>8, <3>11, <4>1
    <3> QED
      BY <3>10, <3>11
  <2>2. CASE request \in StrategyRequest
    <3>1. ~FromMarket /\ request.type \in {"SUBMIT", "WITHDRAW"} /\ request.ref \in Refs
      BY <2>2 DEF FromMarket, StrategyRequest, StrategyTypes, MarketTypes
    <3>2. Start = Seen /\ Truth = w
      BY <1>3, <3>1 DEF Start, Settled
    <3> DEFINE fs == TradesAs("EXECUTE")
               answers == out # <<>> /\ Last(out).type \in {"OK", "CANCELLED"}
               a == [type |-> Last(out).type, ref |-> request.ref]
    <3>3. feed' = fs \o IF answers THEN <<a>> ELSE <<>>
      BY <3>1 DEF Publish, StrategyFeed, TradesAs, Execute
    <3>4. fs \in Seq(OwnFrame) /\ Leads(Seen, fs, Truth)
      BY <1>4, <3>2, TradeFramesAreOwn
    <3>5. CASE answers
      <4>1. a.type \in {"OK", "CANCELLED"} /\ a \in OwnFrame
        BY <3>1, <3>5 DEF OwnFrame, Frame
      <4>2. Hears(Truth, a) = Truth
        BY <4>1 DEF Hears
      <4> HIDE DEF a, fs, answers
      <4>3. feed' = Append(fs, a)
        BY <3>3, <3>4, <3>5, <4>1
      <4>4. Leads(Seen, Append(fs, a), Hears(Truth, a))
        BY <3>4, <4>1, LeadsOn
      <4> QED
        BY <3>4, <4>1, <4>2, <4>3, <4>4
    <3>6. CASE ~answers
      <4> HIDE DEF fs, answers
      <4>1. feed' = fs
        BY <3>3, <3>4, <3>6
      <4> QED
        BY <3>4, <4>1
    <3> QED
      BY <3>5, <3>6
  <2> QED
    BY <1>2, <2>1, <2>2
<1>7. MarketOwn'
  <2>1. \A n \in DOMAIN feed' : feed'[n] \in OwnFrame
    BY <1>6
  <2> QED
    BY <1>1, <1>2, <1>5, <2>1 DEF MarketOwn, OwnFrame
<1> QED
  BY <1>1, <1>5, <1>6, <1>7 DEF MirrorInv, Mirrored
-----------------------------------------------------------------------------
(* The engine's own part.                                                  *)

\* Whatever happens to an order, the truth about the others is as before.
LEMMA TruthChanges ==
  ASSUME mine' = mine, NEW r \in Refs, NEW s,
         \A x \in Refs \ {r} : Spared(x),
         s = IF r \in DOMAIN orders' \ mine THEN Resting(r)' ELSE Gone
  PROVE  Truth' = [Truth EXCEPT ![r] = s]
<1>1. [Truth EXCEPT ![r] = s] = [x \in Refs |-> IF x = r THEN s ELSE Truth[x]]
  BY DEF Truth
<1>2. ASSUME NEW x \in Refs
      PROVE  Truth'[x] = IF x = r THEN s ELSE Truth[x]
  <2>1. CASE x = r
    BY <2>1 DEF Truth
  <2>2. CASE x # r
    BY <2>2 DEF Truth, Resting, Spared
  <2> QED
    BY <2>1, <2>2
<1>3. Truth' = [x \in Refs |-> Truth'[x]]
  BY DEF Truth
<1> QED
  BY <1>1, <1>2, <1>3

LEMMA TruthIs ==
  ASSUME BookInv, NEW r \in Refs
  PROVE  /\ r \in DOMAIN orders \ mine =>
              /\ Truth[r] = Resting(r) /\ Truth[r].rem = orders[r].rem
              /\ orders[r] \in Order /\ orders[r].rem \in Nat \ {0}
         /\ r \notin DOMAIN orders \ mine => Truth[r] = Gone /\ Truth[r].rem = 0
<1>1. CASE r \in DOMAIN orders \ mine
  <2>1. Truth[r] = Resting(r) /\ Resting(r).rem = orders[r].rem
    BY <1>1 DEF Truth, Resting
  <2>2. orders[r] \in Order /\ orders[r].rem > 0
    BY <1>1 DEF BookInv, BookTypeOK, NoEmptyOrder
  <2>3. orders[r].rem \in Nat
    BY <2>2 DEF Order
  <2> QED
    BY <1>1, <2>1, <2>2, <2>3
<1>2. CASE r \notin DOMAIN orders \ mine
  BY <1>2 DEF Truth, Gone
<1> QED
  BY <1>1, <1>2

\* Of what is gone there is nothing left to take.
LEMMA GoneStays == \A qty : Less(Gone, qty) = Gone
BY DEF Less, Gone

LEMMA RemovalIsTrue ==
  ASSUME mine' = mine, NEW ref \in Refs, RemoveOrder(ref)
  PROVE  Truth' = [Truth EXCEPT ![ref] = Gone]
<1>1. orders' = [r \in DOMAIN orders \ {ref} |-> orders[r]]
  BY DEF RemoveOrder, RemoveCounted, Unindexed
<1> QED
  BY <1>1, TruthChanges DEF Spared

\* An order that loses shares, all of them or some, loses them in truth.
LEMMA LossIsTrue ==
  ASSUME BookInv, mine' = mine, NEW ref \in DOMAIN orders, NEW qty \in Nat, NEW isTrade,
         \/ qty >= orders[ref].rem /\ RemoveOrder(ref)
         \/ qty < orders[ref].rem /\ Reduce(ref, qty, isTrade)
  PROVE  Truth' = [Truth EXCEPT ![ref] = Less(Truth[ref], qty)]
<1>1. /\ ref \in Refs /\ orders[ref] \in Order /\ orders[ref].rem \in Nat
  BY DEF BookInv, BookTypeOK, Order
<1>2. CASE qty >= orders[ref].rem /\ RemoveOrder(ref)
  <2>1. Less(Truth[ref], qty) = Gone
    BY <1>1, <1>2, TruthIs, GoneStays DEF Less
  <2> QED
    BY <1>1, <1>2, <2>1, RemovalIsTrue
<1>3. CASE qty < orders[ref].rem /\ Reduce(ref, qty, isTrade)
  <2> DEFINE left == [orders[ref] EXCEPT !.rem = orders[ref].rem - qty,
                                       !.filled = orders[ref].filled + FillCredit(qty, isTrade)]
  <2>1. orders' = [orders EXCEPT ![ref] = left]
    BY <1>3 DEF Reduce
  <2>2. /\ left.rem = orders[ref].rem - qty /\ left.locate = orders[ref].locate
        /\ left.side = orders[ref].side /\ left.price = orders[ref].price
    BY <1>1 DEF Order
  <2> HIDE DEF left
  <2>3. DOMAIN orders' = DOMAIN orders /\ orders'[ref] = left /\ \A r \in Refs \ {ref} : Spared(r)
    BY <2>1 DEF Spared
  <2>4. CASE ref \in mine
    <3>1. Less(Truth[ref], qty) = Gone
      BY <1>1, <2>4, TruthIs, GoneStays
    <3> QED
      BY <1>1, <2>3, <2>4, <3>1, TruthChanges
  <2>5. CASE ref \notin mine
    <3>1. Truth[ref] = Resting(ref) /\ Truth[ref].rem = orders[ref].rem
      BY <1>1, <2>5, TruthIs
    <3>2. Less(Truth[ref], qty) = [Resting(ref) EXCEPT !.rem = orders[ref].rem - qty]
      BY <1>1, <1>3, <3>1 DEF Less
    <3>3. Resting(ref)' = [Resting(ref) EXCEPT !.rem = orders[ref].rem - qty]
      BY <2>2, <2>3 DEF Resting
    <3> QED
      BY <1>1, <2>3, <2>5, <3>2, <3>3, TruthChanges
  <2> QED
    BY <2>4, <2>5
<1> QED
  BY <1>2, <1>3

\* What a trade takes from its maker is heard in its frame.
LEMMA MatchKeepsMirror ==
  ASSUME EngineInv, ExchangeInv, MirrorInv, MatchStep,
         UNCHANGED <<marketVars, request, feed, mine>>
  PROVE  MirrorInv'
<1>1. /\ BookInv /\ order \in Order /\ out \in Seq(Response) /\ order.ref \notin DOMAIN orders
      /\ phase = "matching" /\ phase' = phase /\ cmd' = cmd
      /\ order.ref \in Refs /\ DOMAIN orders \subseteq Refs
  BY MatchStepTrades DEF EngineInv, BookInv, BookTypeOK, CallTypeOK, InFlight, Order
<1>2. PICK ref \in DOMAIN orders, qty \in Nat : TradesWith(ref, qty)
  BY MatchStepTrades
<1>3. /\ request # None /\ live' = live /\ known' = known /\ request' = request
      /\ feed' = feed /\ mine' = mine /\ LiveOK /\ MarketOwn /\ Leads(Start, out, Entering)
  BY <1>1 DEF marketVars, ExchangeInv, RequestOK, MirrorInv, Mirrored
<1>4. /\ order'.ref = order.ref /\ order'.user = order.user /\ order'.locate = order.locate
      /\ order'.side = order.side /\ order'.price = order.price /\ order'.orig = order.orig
  BY <1>1, <1>2 DEF TradesWith, Order
<1>5. /\ orders[ref] \in Order /\ orders[ref].ref = ref /\ orders[ref].price \in Prices
      /\ orders[ref].rem \in Nat /\ orders[ref].side \in Sides
  BY <1>1 DEF BookInv, BookTypeOK, Order
<1>6. PICK t \in Response : /\ out' = Append(out, t)
                            /\ t.type = "TRADE" /\ t.ref = ref /\ t.qty = qty
  <2> DEFINE t == Trade(orders[ref], qty)
  <2>1. t \in Response /\ t.type = "TRADE" /\ t.ref = ref /\ t.qty = qty
    BY <1>1, <1>5 DEF Trade, Response
  <2> QED
    BY <1>2, <2>1 DEF TradesWith
<1>7. \/ qty >= orders[ref].rem /\ RemoveOrder(ref)
      \/ qty < orders[ref].rem /\ Reduce(ref, qty, TRUE)
  BY <1>2, <1>5 DEF TradesWith
<1>8. Truth' = [Truth EXCEPT ![ref] = Less(Truth[ref], qty)]
  BY <1>1, <1>3, <1>7, LossIsTrue
<1>9. Entering' = Hears(Entering, t)
  <2>1. Hears(Entering, t) = [Entering EXCEPT ![ref] = Less(Entering[ref], qty)]
    BY <1>6 DEF Hears
  <2>2. CASE ~FromMarket
    BY <1>3, <1>8, <2>1, <2>2 DEF Entering, FromMarket
  <2>3. CASE FromMarket
    <3> DEFINE a == Arrived
    <3>1. Entering = [Truth EXCEPT ![order.ref] = a] /\ Arrived' = a
      BY <1>4, <2>3 DEF Entering, Arrived
    <3>2. Entering' = [Truth' EXCEPT ![order.ref] = a]
      BY <1>3, <1>4, <2>3, <3>1 DEF Entering, FromMarket
    <3>3. order.ref # ref /\ Truth = [r \in Refs |-> Truth[r]]
      BY <1>1 DEF Truth
    <3> HIDE DEF a
    <3>4. PICK b : b = Less(Truth[ref], qty)
      OBVIOUS
    <3>5. Entering[ref] = Truth[ref]
      BY <3>1, <3>3
    <3>6. Entering' = [[Truth EXCEPT ![ref] = b] EXCEPT ![order.ref] = a]
      BY <1>8, <3>2, <3>4
    <3>7. Hears(Entering, t) = [[Truth EXCEPT ![order.ref] = a] EXCEPT ![ref] = b]
      BY <2>1, <3>1, <3>4, <3>5
    <3> QED
      BY <3>3, <3>6, <3>7
  <2> QED
    BY <2>2, <2>3
<1>10. Start' = Start /\ LiveOK'
  BY <1>3 DEF Start, FromMarket, Seen, Shown, LiveOK
<1>11. Leads(Start', out', Entering')
  BY <1>1, <1>3, <1>6, <1>9, <1>10, LeadsOn
<1>12. \A r \in DOMAIN orders' : r \in DOMAIN orders /\ orders'[r].user = orders[r].user
  <2>1. CASE RemoveOrder(ref)
    BY <2>1 DEF RemoveOrder, RemoveCounted, Unindexed
  <2>2. CASE Reduce(ref, qty, TRUE)
    <3>1. orders' = [orders EXCEPT ![ref] = [orders[ref] EXCEPT
                       !.rem = @ - qty, !.filled = @ + FillCredit(qty, TRUE)]]
      BY <2>2 DEF Reduce
    <3> DEFINE left == [orders[ref] EXCEPT !.rem = @ - qty, !.filled = @ + FillCredit(qty, TRUE)]
    <3>2. left.user = orders[ref].user
      BY <1>5 DEF Order
    <3>3. orders' = [orders EXCEPT ![ref] = left]
      BY <3>1
    <3> HIDE DEF left
    <3> QED
      BY <3>2, <3>3
  <2> QED
    BY <1>7, <2>1, <2>2
<1>13. MarketOwn'
  BY <1>1, <1>3, <1>4, <1>12 DEF MarketOwn, FromMarket, TakerRef
<1> QED
  BY <1>1, <1>3, <1>10, <1>11, <1>13 DEF MirrorInv, Mirrored

\* What the call of the market has filled is heard last: with it the order is gone,
\* or what rests of it is what is left.
LEMMA SettleKeepsMirror ==
  ASSUME EngineInv, Accounted, ExchangeInv, MirrorInv, PoolsSuffice, Settle,
         UNCHANGED <<marketVars, request, feed, mine>>
  PROVE  MirrorInv'
<1>1. /\ BookInv /\ order \in Order /\ out \in Seq(Response) /\ order.ref \notin DOMAIN orders
      /\ order.ref \in Refs /\ DOMAIN orders \subseteq Refs
      /\ phase = "matching" /\ phase' = "idle" /\ order' = order
      /\ order.filled + order.rem = order.orig /\ order.orig > 0
      /\ order.filled \in Nat /\ order.rem \in Nat /\ order.orig \in Nat
      /\ poolUsed = Cardinality(DOMAIN orders)
  BY SettleAnswers DEF EngineInv, BookInv, BookTypeOK, ViewsAgree, CallTypeOK, InFlight, Order
<1>2. /\ request # None /\ live' = live /\ known' = known /\ request' = request
      /\ feed' = feed /\ mine' = mine /\ LiveOK /\ MarketOwn /\ Leads(Start, out, Entering)
  BY <1>1 DEF marketVars, ExchangeInv, RequestOK, MirrorInv, Mirrored
<1>3. Start' = Start /\ LiveOK' /\ (FromMarket' <=> FromMarket)
  BY <1>2 DEF Start, FromMarket, Seen, Shown, LiveOK
<1>4. PICK w : w = Entering
  OBVIOUS
<1>5. /\ Leads(Start', out', w) /\ TakerFill' = order.filled
      /\ orders' = orders \/ orders' = Indexed(order)
  <2>1. CASE out' = out /\ orders' = orders
    <3>1. TradedIn(out') = order.filled
      BY <1>1, <2>1 DEF Accounted
    <3> QED
      BY <1>2, <1>3, <1>4, <2>1, <3>1 DEF TakerFill
  <2>2. ASSUME NEW a \in Response, out' = Append(out, a), ~IsTrade(a),
               orders' = orders \/ orders' = Indexed(order)
        PROVE  /\ Leads(Start', out', w) /\ TakerFill' = order.filled
               /\ orders' = orders \/ orders' = Indexed(order)
    <3>1. TradedIn(out') = TradedIn(out) + 0 /\ TradedIn(out) \in Int
      BY <1>1, <2>2, TradedGrows
    <3>2. TradedIn(out') = order.filled
      BY <1>1, <3>1 DEF Accounted
    <3>3. Hears(w, a) = w
      BY <2>2, AnswersSayNothing
    <3>4. Leads(Start, out', w)
      BY <1>1, <1>2, <1>4, <2>2, <3>3, LeadsOn
    <3> QED
      BY <1>3, <2>2, <3>2, <3>4 DEF TakerFill
  <2> QED
    BY <2>1, <2>2, SettleAnswers
<1>6. Truth[order.ref] = Gone /\ Truth = [r \in Refs |-> Truth[r]]
  BY <1>1, TruthIs DEF Truth
<1>7. ASSUME Truth' = Settled(w)', \A r \in DOMAIN orders' \ mine : orders'[r].user = r
      PROVE  MirrorInv'
  <2>1. MarketOwn'
    BY <1>1, <1>2, <1>3, <1>7 DEF MarketOwn
  <2> QED
    BY <1>1, <1>2, <1>3, <1>5, <1>7, <2>1 DEF MirrorInv, Mirrored
<1>8. CASE ~FromMarket
  <2>1. order.ref \in mine
    <3>1. request.type \in StrategyTypes
      BY <1>2, <1>8
      DEF ExchangeInv, RequestOK, FromMarket, MarketEvent, MarketTypes, StrategyRequest
    <3>2. request.type = "SUBMIT" /\ request.ref \in mine
      BY <1>1, <3>1 DEF ExchangeInv, RequestOK, StrategyTypes
    <3> QED
      BY <1>1, <3>2 DEF ExchangeInv, OwnersOK
  <2>2. Truth' = Truth
    <3>1. CASE orders' = orders
      BY <1>2, <3>1 DEF Truth, Resting
    <3>2. CASE orders' = Indexed(order)
      <4>1. order.ref \notin DOMAIN orders' \ mine /\ \A r \in Refs \ {order.ref} : Spared(r)
        BY <2>1, <3>2 DEF Indexed, Spared
      <4>2. Truth' = [Truth EXCEPT ![order.ref] = Gone]
        BY <1>1, <1>2, <4>1, TruthChanges
      <4> QED
        BY <1>6, <4>2
    <3> QED
      BY <1>5, <3>1, <3>2
  <2>3. Settled(w)' = w /\ w = Truth
    BY <1>3, <1>4, <1>8 DEF Settled, Entering
  <2>4. \A r \in DOMAIN orders' \ mine : orders'[r].user = r
    BY <1>2, <1>5, <2>1 DEF MarketOwn, Indexed
  <2> QED
    BY <1>7, <2>2, <2>3, <2>4
<1>9. CASE FromMarket
  <2>1. /\ order.ref = TakerRef(request) /\ order.user = order.ref /\ cmd.tif = "DAY"
        /\ order.ref \notin mine
    BY <1>1, <1>2, <1>9 DEF MarketOwn
  <2> DEFINE a == Arrived
             e == Execute(TakerRef(request), order.filled)
  <2>2. /\ a = [locate |-> order.locate, side |-> order.side, price |-> order.price,
                rem |-> order.orig]
        /\ a.rem = order.orig
    BY DEF Arrived
  <2>3. e.type = "EXECUTE" /\ e.ref = order.ref /\ e.qty = order.filled
    BY <2>1 DEF Execute
  <2>4. PICK s : s = IF order.filled > 0 THEN Less(a, order.filled) ELSE a
    OBVIOUS
  <2>5. Settled(w)' = [Truth EXCEPT ![order.ref] = s]
    <3>1. Settled(w)' = IF order.filled > 0 THEN Hears(w, e) ELSE w
      BY <1>2, <1>3, <1>5, <1>9 DEF Settled
    <3>2. w = [Truth EXCEPT ![order.ref] = a]
      BY <1>4, <1>9 DEF Entering
    <3> HIDE DEF a, e
    <3>3. w[order.ref] = a
      BY <1>1, <1>6, <3>2
    <3>4. Hears(w, e) = [w EXCEPT ![order.ref] = Less(a, order.filled)]
      BY <2>3, <3>3 DEF Hears
    <3> QED
      BY <1>1, <1>6, <2>4, <3>1, <3>2, <3>4
  <2> HIDE DEF a, e
  <2>6. CASE order.rem = 0
    <3>1. SettleFilled
      BY <1>1, <2>6 DEF Settle, SettleIOC, SettleFOK, SettleRest
    <3>2. orders' = orders
      BY <3>1 DEF SettleFilled, book
    <3>3. s = Gone
      BY <1>1, <2>2, <2>4, <2>6 DEF Less
    <3>4. Truth' = Truth /\ [Truth EXCEPT ![order.ref] = Gone] = Truth
      BY <1>2, <1>6, <3>2 DEF Truth, Resting
    <3>5. \A r \in DOMAIN orders' \ mine : orders'[r].user = r
      BY <1>2, <3>2 DEF MarketOwn
    <3> QED
      BY <1>7, <2>5, <3>3, <3>4, <3>5
  <2>7. CASE order.rem > 0
    <3>1. SettleRest
      BY <2>1, <2>7 DEF Settle, SettleFilled, SettleIOC, SettleFOK
    <3>2. poolUsed < PoolSize
      BY <1>1, PoolHasSlot
    <3>3. orders' = Indexed(order)
      BY <3>1, <3>2 DEF SettleRest, Rest
    <3>4. /\ order.ref \in DOMAIN orders' \ mine /\ orders'[order.ref] = order
          /\ \A r \in Refs \ {order.ref} : Spared(r)
      BY <2>1, <3>3 DEF Indexed, Spared
    <3>5. Resting(order.ref)' = [locate |-> order.locate, side |-> order.side,
                                 price |-> order.price, rem |-> order.rem]
      BY <1>1, <3>4 DEF Resting
    <3>6. s = Resting(order.ref)'
      <4>1. CASE order.filled = 0
        BY <1>1, <2>2, <2>4, <3>5, <4>1
      <4>2. CASE order.filled > 0
        <5>1. order.orig # 0 /\ ~(order.filled >= order.orig)
              /\ order.orig - order.filled = order.rem
          BY <1>1, <2>7
        <5>2. Less(a, order.filled) = [a EXCEPT !.rem = order.rem]
          BY <2>2, <5>1 DEF Less
        <5> QED
          BY <2>2, <2>4, <3>5, <4>2, <5>2
      <4> QED
        BY <1>1, <4>1, <4>2
    <3>7. Truth' = [Truth EXCEPT ![order.ref] = s]
      BY <1>1, <1>2, <3>4, <3>6, TruthChanges
    <3>8. \A r \in DOMAIN orders' \ mine : orders'[r].user = r
      BY <1>2, <2>1, <3>3, <3>4 DEF MarketOwn, Indexed
    <3> QED
      BY <1>7, <2>5, <3>7, <3>8
  <2> QED
    BY <1>1, <2>6, <2>7
<1> QED
  BY <1>8, <1>9

\* A request begins when the market book shows the truth, and does not change it yet.
LEMMA BeginFromTruth ==
  ASSUME MirrorInv, NEW ev, Begin(ev)
  PROVE  /\ LiveOK /\ MarketOwn /\ Seen = Truth /\ Seen' = Seen
         /\ request' = ev /\ feed' = <<>> /\ live' = live /\ known' = known
         /\ Start' = IF ev.type \in MarketTypes THEN Hears(Truth, ev) ELSE Truth
         /\ FromMarket' <=> ev.type \in MarketTypes
<1>1. /\ request = None /\ feed = <<>> /\ request' = ev /\ feed' = feed
      /\ live' = live /\ known' = known
  BY DEF Begin, Quiet, marketVars
<1>2. Seen' = Seen
  BY <1>1 DEF Seen, Shown
<1>3. Seen = Truth /\ LiveOK /\ MarketOwn
  BY <1>1, LeadsNowhere DEF MirrorInv, Mirrored
<1>4. FromMarket' <=> ev.type \in MarketTypes
  BY <1>1 DEF FromMarket
<1>5. Start' = IF ev.type \in MarketTypes THEN Hears(Truth, ev) ELSE Truth
  BY <1>1, <1>2, <1>3, <1>4 DEF Start
<1> QED
  BY <1>1, <1>2, <1>3, <1>4, <1>5

\* It keeps the mirror if the book then is what the event will make of the view, but
\* for the shares of an order that enters the loop.
LEMMA ReceivedKeepsMirror ==
  ASSUME EngineInv, ExchangeInv, MirrorInv, NEW ev \in MarketEvent \cup StrategyRequest,
         Received(ev), LiveOK', MarketOwn',
         phase' = "idle" => Truth' = Start',
         phase' = "matching" => Entering' = Start'
  PROVE  MirrorInv'
<1>1. request' = ev /\ request' # None
  BY BeginFromTruth, EventIsRequest DEF Received
<1>2. CASE Answered(ev)
  <2>1. PICK a \in Response : phase' = "idle" /\ out' = <<a>> /\ ~IsTrade(a)
    BY <1>2 DEF Answered
  <2>2. PICK w : w = Start'
    OBVIOUS
  <2>3. <<a>> = Append(<<>>, a) /\ <<>> \in Seq(Response)
    OBVIOUS
  <2>4. Leads(w, out', w)
    <3>1. Leads(w, <<>>, w)
      BY LeadsNowhere
    <3>2. Leads(w, Append(<<>>, a), Hears(w, a))
      BY <2>3, <3>1, LeadsOn
    <3>3. Hears(w, a) = w
      BY <2>1, AnswersSayNothing
    <3> QED
      BY <2>1, <2>3, <3>2, <3>3
  <2>5. TakerFill' = 0
    <3>1. TradedIn(Append(<<>>, a)) = TradedIn(<<>>) + 0 /\ TradedIn(<<>>) = 0
      BY <2>1, <2>3, TradedGrows, NothingTraded
    <3>2. TradedIn(out') = 0
      BY <2>1, <2>3, <3>1
    <3> QED
      BY <3>2 DEF TakerFill
  <2>6. Settled(w)' = w
    BY <2>5 DEF Settled
  <2>7. Mirrored'
    BY <1>1, <2>1, <2>2, <2>4, <2>6 DEF Mirrored
  <2> QED
    BY <2>7 DEF MirrorInv
<1>3. CASE Entered(ev)
  <2>1. phase' = "matching" /\ out' = <<>>
    BY <1>3 DEF Entered
  <2>2. Leads(Start', out', Entering')
    BY <2>1, LeadsNowhere
  <2>3. Mirrored'
    BY <1>1, <2>1, <2>2 DEF Mirrored
  <2> QED
    BY <2>3 DEF MirrorInv
<1> QED
  BY <1>2, <1>3 DEF Received

\* What the market's requests have in common.
LEMMA MarketKeepsOwn ==
  ASSUME EngineInv, MirrorInv, NEW ev, Begin(ev), mine' = mine, ev.ref \notin mine,
         TakerRef(ev) \notin mine,
         \A r \in DOMAIN orders' : r \in DOMAIN orders /\ orders'[r].user = orders[r].user,
         phase' = "matching" =>
           order'.ref = TakerRef(ev) /\ order'.user = order'.ref /\ cmd'.tif = "DAY"
  PROVE  LiveOK' /\ MarketOwn'
<1>1. LiveOK /\ MarketOwn /\ request' = ev /\ feed' = <<>> /\ live' = live /\ known' = known
  BY BeginFromTruth
<1>2. LiveOK'
  BY <1>1 DEF LiveOK
<1>3. MarketOwn'
  BY <1>1 DEF MarketOwn
<1> QED
  BY <1>2, <1>3

\* An order of the market that is not found is not there.
LEMMA NotFoundIsGone ==
  ASSUME EngineInv, MirrorInv, NEW loc \in Locates, NEW ref \in Refs \ mine,
         ~Owns(loc, ref, ref)
  PROVE  Truth[ref] = Gone /\ Truth[ref].rem = 0 /\ [Truth EXCEPT ![ref] = Gone] = Truth
<1>1. ref \notin DOMAIN orders
  BY DEF MirrorInv, MarketOwn, Owns
<1>2. Truth[ref] = Gone /\ Truth[ref].rem = 0
  BY <1>1, TruthIs DEF EngineInv
<1>3. Truth = [r \in Refs |-> Truth[r]]
  BY DEF Truth
<1> QED
  BY <1>2, <1>3

LEMMA MarketAddKeepsMirror ==
  ASSUME EngineInv, ExchangeInv, MirrorInv, OnMarketAdd
  PROVE  MirrorInv'
<1>1. PICK loc \in Locates, ref \in Refs, side \in Sides, price \in Prices, qty \in Quantities :
        /\ Begin([type |-> "ADD", locate |-> loc, ref |-> ref, side |-> side,
                  price |-> price, qty |-> qty])
        /\ ProcessAdd(loc, ref, side, price, qty, ref, "DAY")
        /\ UNCHANGED mine
  BY DEF OnMarketAdd
<1> DEFINE ev == [type |-> "ADD", locate |-> loc, ref |-> ref, side |-> side,
                  price |-> price, qty |-> qty]
           o == NewOrder(ref, ref, loc, side, LimitPrice("DAY", side, price), qty)
<1>2. /\ ev.type = "ADD" /\ ev.ref = ref /\ ev.locate = loc /\ ev.side = side
      /\ ev.price = price /\ ev.qty = qty /\ ev \in MarketEvent
      /\ ev.type \in MarketTypes /\ TakerRef(ev) = ref
  BY DEF MarketEvent, MarketTypes, TakerRef
<1>3. Begin(ev) /\ mine' = mine
  BY <1>1
<1>4. o.ref = ref /\ o.user = ref /\ o.locate = loc /\ o.side = side /\ o.orig = qty
      /\ o.price = price
  BY DEF NewOrder, LimitPrice, IsMarket
<1>5. AddError(loc, ref, side, price, qty, ref, "DAY") = "NONE"
  <2>1. price # 0 /\ qty # 0 /\ ref # 0
    BY EngineConstants
  <2> QED
    BY <2>1 DEF AddError, WellFormed
<1>6. ref \notin used /\ orders' = orders /\ EnterMatching("ADD", "DAY", o)
  BY <1>1, <1>5 DEF ProcessAdd, book
<1> HIDE DEF ev, o
<1>7. phase' = "matching" /\ order' = o /\ cmd'.tif = "DAY"
  BY <1>6 DEF EnterMatching
<1>8. ref \notin mine
  BY <1>6 DEF ExchangeInv, RegistryOK
<1>9. Received(ev)
  BY <1>1, <1>2, <1>3, AddIsReceived
<1>10. LiveOK' /\ MarketOwn'
  BY <1>2, <1>3, <1>4, <1>6, <1>7, <1>8, MarketKeepsOwn
<1>11. Entering' = Start'
  <2>1. Truth' = Truth
    BY <1>3, <1>6 DEF Truth, Resting
  <2>2. Start' = Hears(Truth, ev) /\ FromMarket'
    BY <1>2, <1>3, BeginFromTruth
  <2>3. Arrived' = [locate |-> loc, side |-> side, price |-> price, rem |-> qty]
    BY <1>4, <1>7 DEF Arrived
  <2>4. Entering' = [Truth EXCEPT ![ref] = [locate |-> loc, side |-> side, price |-> price,
                                             rem |-> qty]]
    BY <1>4, <1>7, <2>1, <2>2, <2>3 DEF Entering
  <2> QED
    BY <1>2, <2>2, <2>4 DEF Hears
<1> QED
  BY <1>2, <1>7, <1>9, <1>10, <1>11, ReceivedKeepsMirror

LEMMA MarketDeleteKeepsMirror ==
  ASSUME EngineInv, ExchangeInv, MirrorInv, OnMarketDelete
  PROVE  MirrorInv'
<1>1. PICK loc \in Locates, ref \in used \ mine :
        Begin([type |-> "DELETE", ref |-> ref]) /\ ProcessCancel(loc, ref, ref) /\ UNCHANGED mine
  BY DEF OnMarketDelete
<1> DEFINE ev == [type |-> "DELETE", ref |-> ref]
<1>2. /\ ref \in Refs \ mine
      /\ ev.type = "DELETE" /\ ev.ref = ref /\ ev \in MarketEvent
      /\ ev.type \in MarketTypes /\ TakerRef(ev) = ref
  BY DEF MarketEvent, MarketTypes, TakerRef, EngineInv, CallTypeOK
<1>3. Begin(ev) /\ mine' = mine
  BY <1>1
<1> HIDE DEF ev
<1>4. Received(ev)
  BY <1>1, <1>2, <1>3, CancelIsReceived
<1>5. Start' = [Truth EXCEPT ![ref] = Gone]
  BY <1>2, <1>3, BeginFromTruth DEF Hears
<1>6. phase' = "idle" /\ Truth' = Start'
      /\ \A r \in DOMAIN orders' : r \in DOMAIN orders /\ orders'[r].user = orders[r].user
  <2>1. CASE Owns(loc, ref, ref)
    <3>1. RemoveOrder(ref) /\ phase' = "idle"
      BY <1>1, <2>1 DEF ProcessCancel, Reply
    <3>2. Truth' = Start'
      BY <1>2, <1>3, <1>5, <3>1, RemovalIsTrue
    <3> QED
      BY <3>1, <3>2 DEF RemoveOrder, RemoveCounted, Unindexed
  <2>2. CASE ~Owns(loc, ref, ref)
    <3>1. orders' = orders /\ phase' = "idle"
      BY <1>1, <2>2 DEF ProcessCancel, Reply, book
    <3>2. Truth' = Truth
      BY <1>3, <3>1 DEF Truth, Resting
    <3> QED
      BY <1>2, <1>5, <2>2, <3>1, <3>2, NotFoundIsGone
  <2> QED
    BY <2>1, <2>2
<1>7. LiveOK' /\ MarketOwn'
  BY <1>2, <1>3, <1>6, MarketKeepsOwn
<1> QED
  BY <1>2, <1>4, <1>6, <1>7, ReceivedKeepsMirror

LEMMA MarketCancelKeepsMirror ==
  ASSUME EngineInv, ExchangeInv, MirrorInv, OnMarketCancel
  PROVE  MirrorInv'
<1>1. PICK loc \in Locates, ref \in used \ mine, qty \in Quantities :
        /\ Begin([type |-> "CANCEL", ref |-> ref, qty |-> qty])
        /\ ProcessCancelShares(loc, ref, qty, ref)
        /\ UNCHANGED mine
  BY DEF OnMarketCancel
<1> DEFINE ev == [type |-> "CANCEL", ref |-> ref, qty |-> qty]
<1>2. /\ ref \in Refs \ mine /\ qty \in Nat
      /\ ev.type = "CANCEL" /\ ev.ref = ref /\ ev.qty = qty /\ ev \in MarketEvent
      /\ ev.type \in MarketTypes /\ TakerRef(ev) = ref
  BY EngineConstants DEF MarketEvent, MarketTypes, TakerRef, EngineInv, CallTypeOK
<1>3. Begin(ev) /\ mine' = mine
  BY <1>1
<1> HIDE DEF ev
<1>4. Received(ev)
  BY <1>1, <1>2, <1>3, CancelSharesIsReceived
<1>5. Start' = [Truth EXCEPT ![ref] = Less(Truth[ref], qty)]
  BY <1>2, <1>3, BeginFromTruth DEF Hears
<1>6. phase' = "idle" /\ Truth' = Start'
      /\ \A r \in DOMAIN orders' : r \in DOMAIN orders /\ orders'[r].user = orders[r].user
  <2>1. CASE Owns(loc, ref, ref)
    <3>1. ref \in DOMAIN orders /\ orders[ref] \in Order /\ orders[ref].rem \in Nat
      BY <2>1 DEF Owns, EngineInv, BookInv, BookTypeOK, Order
    <3>2. CASE CancelsAll(ref, qty)
      <4>1. RemoveOrder(ref) /\ phase' = "idle" /\ qty >= orders[ref].rem
        BY <1>1, <2>1, <3>2 DEF ProcessCancelShares, Reply, CancelsAll
      <4>2. Truth' = Start'
        BY <1>2, <1>3, <1>5, <3>1, <4>1, LossIsTrue DEF EngineInv
      <4> QED
        BY <4>1, <4>2 DEF RemoveOrder, RemoveCounted, Unindexed
    <3>3. CASE ~CancelsAll(ref, qty)
      <4>1. Reduce(ref, qty, FALSE) /\ phase' = "idle" /\ qty < orders[ref].rem
        <5>1. Reduce(ref, qty, FALSE) /\ phase' = "idle"
          BY <1>1, <2>1, <3>3 DEF ProcessCancelShares, Reply
        <5>2. qty < orders[ref].rem
          BY <1>2, <3>1, <3>3 DEF CancelsAll
        <5> QED
          BY <5>1, <5>2
      <4>2. Truth' = Start'
        BY <1>2, <1>3, <1>5, <3>1, <4>1, LossIsTrue DEF EngineInv
      <4>3. \A r \in DOMAIN orders' : r \in DOMAIN orders /\ orders'[r].user = orders[r].user
        <5> DEFINE left == [orders[ref] EXCEPT !.rem = @ - qty, !.filled = @ + FillCredit(qty, FALSE)]
        <5>1. left.user = orders[ref].user
          BY <3>1 DEF Order
        <5>2. orders' = [orders EXCEPT ![ref] = left]
          BY <4>1 DEF Reduce
        <5> HIDE DEF left
        <5> QED
          BY <5>1, <5>2
      <4> QED
        BY <4>1, <4>2, <4>3
    <3> QED
      BY <3>2, <3>3
  <2>2. CASE ~Owns(loc, ref, ref)
    <3>1. orders' = orders /\ phase' = "idle"
      BY <1>1, <2>2 DEF ProcessCancelShares, Reply, book
    <3>2. Truth' = Truth
      BY <1>3, <3>1 DEF Truth, Resting
    <3>3. Start' = [Truth EXCEPT ![ref] = Gone]
      BY <1>2, <1>5, <2>2, NotFoundIsGone, GoneStays
    <3> QED
      BY <1>2, <2>2, <3>1, <3>2, <3>3, NotFoundIsGone
  <2> QED
    BY <2>1, <2>2
<1>7. LiveOK' /\ MarketOwn'
  BY <1>2, <1>3, <1>6, MarketKeepsOwn
<1> QED
  BY <1>2, <1>4, <1>6, <1>7, ReceivedKeepsMirror

LEMMA MarketReplaceKeepsMirror ==
  ASSUME EngineInv, ExchangeInv, MirrorInv, OnMarketReplace
  PROVE  MirrorInv'
<1>1. PICK loc \in Locates, old \in used \ mine, new \in Refs, price \in Prices,
           qty \in Quantities :
        /\ Begin([type |-> "REPLACE", ref |-> old, new |-> new, price |-> price, qty |-> qty])
        /\ ProcessReplace(loc, old, new, price, qty, old)
        /\ UNCHANGED mine
  BY DEF OnMarketReplace
<1> DEFINE ev == [type |-> "REPLACE", ref |-> old, new |-> new, price |-> price, qty |-> qty]
<1>2. /\ old \in Refs \ mine
      /\ ev.type = "REPLACE" /\ ev.ref = old /\ ev.new = new /\ ev.price = price /\ ev.qty = qty
      /\ ev \in MarketEvent /\ ev.type \in MarketTypes /\ TakerRef(ev) = new
  BY DEF MarketEvent, MarketTypes, TakerRef, EngineInv, CallTypeOK
<1>3. Begin(ev) /\ mine' = mine
  BY <1>1
<1> HIDE DEF ev
<1>4. Received(ev)
  BY <1>1, <1>2, <1>3, ReplaceIsReceived
<1>5. new \notin used /\ new \notin mine /\ DOMAIN orders \subseteq used
  BY <1>1 DEF ProcessReplace, ExchangeInv, RegistryOK, EngineInv, InFlight
<1>6. Start' = Hears(Truth, ev) /\ FromMarket'
  BY <1>2, <1>3, BeginFromTruth
<1>7. CASE ~Owns(loc, old, old)
  <2>1. orders' = orders /\ phase' = "idle"
    BY <1>1, <1>7 DEF ProcessReplace, Reply, book
  <2>2. Truth' = Truth
    BY <1>3, <2>1 DEF Truth, Resting
  <2>3. Start' = Truth
    BY <1>2, <1>6, <1>7, NotFoundIsGone DEF Hears
  <2>4. LiveOK' /\ MarketOwn'
    BY <1>2, <1>3, <1>5, <2>1, MarketKeepsOwn
  <2> QED
    BY <1>2, <1>4, <2>1, <2>2, <2>3, <2>4, ReceivedKeepsMirror
<1>8. CASE Owns(loc, old, old)
  <2> DEFINE o == NewOrder(new, new, loc, orders[old].side, price, qty)
             a == [locate |-> loc, side |-> orders[old].side, price |-> price, rem |-> qty]
  <2>1. o.ref = new /\ o.user = new /\ o.locate = loc /\ o.side = orders[old].side
        /\ o.orig = qty /\ o.price = price
    BY DEF NewOrder
  <2>2. RemoveOrder(old) /\ EnterMatching("REPLACE", "DAY", o)
    BY <1>1, <1>8 DEF ProcessReplace
  <2> HIDE DEF o
  <2>3. phase' = "matching" /\ order' = o /\ cmd'.tif = "DAY"
    BY <2>2 DEF EnterMatching
  <2>4. /\ old \in DOMAIN orders \ mine /\ old # new
        /\ orders[old].locate = loc
    BY <1>1, <1>2, <1>5, <1>8 DEF Owns, ProcessReplace, Addressed
  <2>5. /\ Truth[old] = Resting(old) /\ Truth[old].rem # 0
        /\ Truth[old].locate = loc /\ Truth[old].side = orders[old].side
    BY <1>2, <2>4, TruthIs DEF Resting, EngineInv
  <2>6. Truth' = [Truth EXCEPT ![old] = Gone]
    BY <1>2, <1>3, <2>2, RemovalIsTrue
  <2>7. Arrived' = a
    BY <2>1, <2>3 DEF Arrived
  <2>8. Entering' = [Truth EXCEPT ![old] = Gone, ![new] = a]
    <3>1. Entering' = [Truth' EXCEPT ![new] = a]
      BY <1>6, <2>1, <2>3, <2>7 DEF Entering
    <3> HIDE DEF a
    <3> QED
      BY <2>6, <3>1
  <2>9. Start' = [Truth EXCEPT ![old] = Gone, ![new] = a]
    BY <1>2, <1>6, <2>5 DEF Hears
  <2>10. \A r \in DOMAIN orders' : r \in DOMAIN orders /\ orders'[r].user = orders[r].user
    BY <2>2 DEF RemoveOrder, RemoveCounted, Unindexed
  <2>11. LiveOK' /\ MarketOwn'
    BY <1>2, <1>3, <1>5, <2>1, <2>3, <2>10, MarketKeepsOwn
  <2> HIDE DEF a
  <2> QED
    BY <1>2, <1>4, <2>3, <2>8, <2>9, <2>11, ReceivedKeepsMirror
<1> QED
  BY <1>7, <1>8

\* The strategy's own requests show nothing by themselves.
LEMMA SubmitKeepsMirror ==
  ASSUME EngineInv, ExchangeInv, MirrorInv, Submit
  PROVE  MirrorInv'
<1>1. PICK loc \in Locates, ref \in Refs, side \in Sides, qty \in Quantities,
           limit \in Prices \cup {0} :
        /\ Begin([type |-> "SUBMIT", ref |-> ref])
        /\ ProcessAdd(loc, ref, side, limit, qty, Strategy, IF limit = 0 THEN "IOC" ELSE "DAY")
        /\ mine' = mine \cup {ref}
  BY DEF Submit
<1> DEFINE ev == [type |-> "SUBMIT", ref |-> ref]
<1>2. ev.type = "SUBMIT" /\ ev.ref = ref /\ ev \in StrategyRequest /\ ev.type \notin MarketTypes
  BY DEF StrategyRequest, StrategyTypes, MarketTypes
<1>3. Begin(ev)
  BY <1>1
<1> HIDE DEF ev
<1>4. Received(ev)
  BY <1>1, <1>2, <1>3, AddIsReceived
<1>5. /\ LiveOK /\ MarketOwn /\ Seen = Truth /\ feed' = <<>> /\ live' = live /\ known' = known
      /\ Start' = Truth /\ ~FromMarket'
  BY <1>2, <1>3, BeginFromTruth
<1>6. orders' = orders /\ ref \notin DOMAIN orders
  BY <1>1 DEF ProcessAdd, book, EngineInv, InFlight
<1>7. Truth' = Truth /\ Entering' = Truth'
  BY <1>1, <1>5, <1>6 DEF Truth, Resting, Entering
<1>8. ref \notin DOMAIN live
  BY <1>5, <1>6, TruthIs, SeenIs DEF EngineInv
<1>9. LiveOK'
  BY <1>1, <1>5, <1>8 DEF LiveOK
<1>10. MarketOwn'
  BY <1>1, <1>5, <1>6 DEF MarketOwn
<1> QED
  BY <1>2, <1>4, <1>5, <1>7, <1>9, <1>10, ReceivedKeepsMirror

LEMMA WithdrawKeepsMirror ==
  ASSUME EngineInv, ExchangeInv, MirrorInv, Withdraw
  PROVE  MirrorInv'
<1>1. PICK loc \in Locates, ref \in mine :
        /\ Begin([type |-> "WITHDRAW", ref |-> ref])
        /\ ProcessCancel(loc, ref, Strategy)
        /\ UNCHANGED mine
  BY DEF Withdraw
<1> DEFINE ev == [type |-> "WITHDRAW", ref |-> ref]
<1>2. /\ ref \in Refs
      /\ ev.type = "WITHDRAW" /\ ev.ref = ref /\ ev \in StrategyRequest /\ ev.type \notin MarketTypes
  BY DEF StrategyRequest, StrategyTypes, MarketTypes, ExchangeInv, RegistryOK, EngineInv, CallTypeOK
<1>3. Begin(ev) /\ mine' = mine
  BY <1>1
<1> HIDE DEF ev
<1>4. Received(ev)
  BY <1>1, <1>2, <1>3, CancelIsReceived
<1>5. /\ LiveOK /\ MarketOwn /\ feed' = <<>> /\ live' = live /\ known' = known
      /\ Start' = Truth /\ ~FromMarket'
  BY <1>2, <1>3, BeginFromTruth
<1>6. phase' = "idle" /\ (orders' = orders \/ RemoveOrder(ref))
  BY <1>1 DEF ProcessCancel, Reply, book
<1>7. Truth' = Truth /\ \A r \in DOMAIN orders' : r \in DOMAIN orders /\ orders'[r] = orders[r]
  <2>1. CASE orders' = orders
    BY <1>3, <2>1 DEF Truth, Resting
  <2>2. CASE RemoveOrder(ref)
    <3>1. Truth' = [Truth EXCEPT ![ref] = Gone]
      BY <1>2, <1>3, <2>2, RemovalIsTrue
    <3>2. Truth[ref] = Gone /\ Truth = [r \in Refs |-> Truth[r]]
      BY <1>1, <1>2, TruthIs DEF Truth, EngineInv
    <3>3. Truth' = Truth
      BY <3>1, <3>2
    <3> QED
      BY <2>2, <3>3 DEF RemoveOrder, RemoveCounted, Unindexed
  <2> QED
    BY <1>6, <2>1, <2>2
<1>8. LiveOK' /\ MarketOwn'
  BY <1>3, <1>5, <1>7 DEF LiveOK, MarketOwn
<1> QED
  BY <1>2, <1>4, <1>5, <1>6, <1>7, <1>8, ReceivedKeepsMirror
-----------------------------------------------------------------------------
\* The invariant of the mirror: with pools that hold every order, what has been sent
\* out and what is still to be sent lead from the market book to the engine's book,
\* whatever partial fills, cancels and replacements there are on the way.
THEOREM MirrorInvariant == ASSUME PoolsSuffice PROVE ExchangeSpec => []MirrorInv
<1>1. ExchangeInit => MirrorInv
  <2> SUFFICES ASSUME ExchangeInit PROVE MirrorInv
    OBVIOUS
  <2>1. /\ request = None /\ feed = <<>> /\ mine = {} /\ DOMAIN orders = {} /\ DOMAIN live = {}
    BY DEF ExchangeInit, Init, Market!Init
  <2>2. LiveOK /\ Seen = Truth
    BY <2>1 DEF LiveOK, Seen, Truth
  <2>3. ~FromMarket
    BY <2>1 DEF FromMarket, MarketTypes, None
  <2>4. MarketOwn
    BY <2>1, <2>3 DEF MarketOwn
  <2>5. Leads(Seen, feed, Truth)
    BY <2>1, <2>2, LeadsNowhere
  <2> QED
    BY <2>1, <2>2, <2>4, <2>5 DEF MirrorInv, Mirrored
<1>2. ExchangeIInv /\ MirrorInv /\ [ExchangeNext]_allVars => MirrorInv'
  <2> SUFFICES ASSUME ExchangeIInv, MirrorInv, [ExchangeNext]_allVars PROVE MirrorInv'
    OBVIOUS
  <2>0. EngineInv /\ ExchangeInv /\ Accounted
    BY DEF ExchangeIInv, CallsAccount
  <2>1. CASE OnMarketAdd
    BY <2>0, <2>1, MarketAddKeepsMirror
  <2>2. CASE OnMarketDelete
    BY <2>0, <2>2, MarketDeleteKeepsMirror
  <2>3. CASE OnMarketCancel
    BY <2>0, <2>3, MarketCancelKeepsMirror
  <2>4. CASE OnMarketReplace
    BY <2>0, <2>4, MarketReplaceKeepsMirror
  <2>5. CASE Submit
    BY <2>0, <2>5, SubmitKeepsMirror
  <2>6. CASE Withdraw
    BY <2>0, <2>6, WithdrawKeepsMirror
  <2>7. CASE EngineStep
    <3>1. (MatchStep \/ Settle) /\ UNCHANGED <<marketVars, request, feed, mine>>
      BY <2>7 DEF EngineStep
    <3> QED
      BY <2>0, <3>1, MatchKeepsMirror, SettleKeepsMirror
  <2>8. CASE Publish
    BY <2>0, <2>8, PublishKeepsMirror
  <2>9. CASE Broadcast \/ ReportPassiveFill \/ Register
    BY <2>0, <2>9, SendingKeepsMirror
  <2>10. CASE UNCHANGED allVars
    <3>1. UNCHANGED <<orders, phase, cmd, order, out, live, known, request, feed, mine>>
      BY <2>10 DEF allVars, vars, marketVars
    <3>2. LiveOK' /\ MarketOwn'
      BY <3>1 DEF MirrorInv, LiveOK, MarketOwn, FromMarket
    <3>3. /\ Seen' = Seen /\ Truth' = Truth /\ Start' = Start /\ Entering' = Entering
          /\ \A w : Settled(w)' = Settled(w)
      BY <3>1 DEF Seen, Shown, Truth, Resting, Start, Entering, Arrived, Settled, FromMarket,
                  TakerFill
    <3>4. Mirrored'
      BY <3>1, <3>3 DEF MirrorInv, Mirrored
    <3> QED
      BY <3>2, <3>4 DEF MirrorInv
  <2> QED
    BY <2>1, <2>2, <2>3, <2>4, <2>5, <2>6, <2>7, <2>8, <2>9, <2>10 DEF ExchangeNext
<1> QED
  BY <1>1, <1>2, RegistryInvariant, PTL DEF ExchangeSpec

\* Between requests the strategies' book shows just the historical orders that rest in
\* the engine's, with what is left of each, and none of the strategy's (DESIGN.md,
\* decision 2), as long as the pools have a slot for every order.
THEOREM MarketAlwaysMirrored == ASSUME PoolsSuffice PROVE ExchangeSpec => []MirrorsMarket
<1>1. ExchangeIInv /\ MirrorInv => MirrorsMarket
  <2> SUFFICES ASSUME ExchangeIInv, MirrorInv, Quiet
               PROVE  /\ DOMAIN live = DOMAIN orders \ mine
                      /\ \A r \in DOMAIN live : Shown(r) = Resting(r)
    BY DEF MirrorsMarket
  <2>1. Seen = Truth /\ LiveOK /\ BookInv
    BY LeadsNowhere DEF Quiet, MirrorInv, Mirrored, ExchangeIInv, EngineInv
  <2>2. ASSUME NEW r \in Refs
        PROVE  /\ r \in DOMAIN live <=> r \in DOMAIN orders \ mine
               /\ r \in DOMAIN live => Shown(r) = Resting(r)
    BY <2>1, SeenIs, TruthIs
  <2>3. DOMAIN live \subseteq Refs /\ DOMAIN orders \subseteq Refs
    BY <2>1 DEF LiveOK, BookInv, BookTypeOK
  <2> QED
    BY <2>2, <2>3
<1> QED
  BY <1>1, RegistryInvariant, MirrorInvariant, PTL
=============================================================================
