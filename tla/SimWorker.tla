----------------------------- MODULE SimWorker -----------------------------
(***************************************************************************)
(* The replay and the strategies it drives: ReplayEngine feeds messages to   *)
(* the exchange and opens a window for orders at the end of every segment     *)
(* (replay/replay_engine.cpp); each SimWorker follows the broadcast events    *)
(* of its locates with two strategies, order flow (OFI) and book imbalance    *)
(* (OBI), and in the window turns their votes into an order (sim/sim_worker.h,*)
(* strategy/).                                                               *)
(*                                                                           *)
(* One thread runs all of it: a message with the events it causes is a step,  *)
(* and so is a worker's window with the fills its order gets.                 *)
(*                                                                           *)
(* Around it: the exchange decides what trades, with one maker at most per    *)
(* order; the market view keeps the orders it knows, and the best volumes it  *)
(* quotes are any (MarketBook says how far they can be from those orders);    *)
(* the exchange and the risk manager's loss limits may refuse any order.      *)
(* Marks, mid prices and the tags of trade records are left out.             *)
(***************************************************************************)
EXTENDS Integers, Sequences, FiniteSets, SequencesExt

CONSTANTS
  Locates, MaxOrders,   \* stock locates; bound on the market's orders
  Quantities,           \* shares of an order event
  Quotes,               \* best bid and ask volumes; <<0, 0>> when a side has none
  NWorkers,             \* workers
  SegmentSize, MaxMessages,  \* of the replay; the input may end before
  Window,               \* kWindow
  FlowThreshold, Saturate,   \* OFI: threshold_ and kSaturate
  BookThreshold,        \* OBI: threshold_ in units of Scale
  Weights, Primary,     \* of <<OFI, OBI>>: weight_bp_ and primary_idx_
  VoteThreshold,        \* threshold_bp_
  Scale, StrengthStep,  \* kStrengthScale and kStrengthStep
  BaseQty, MaxPosition  \* base_qty_ and max_position_

ASSUME WorkerConstants ==
  /\ Locates \subseteq Nat \ {0} /\ NWorkers \in Nat \ {0} /\ MaxOrders \in Nat
  /\ Quantities \subseteq Nat \ {0} /\ Quotes \subseteq Nat \X Nat
  /\ SegmentSize \in Nat \ {0} /\ MaxMessages \in Nat \ {0} /\ Window \in Nat \ {0}
  /\ FlowThreshold \in Nat \ {0} /\ Saturate \in Nat \ {0, 1} /\ BookThreshold \in Nat
  /\ Weights \in Seq(Nat) /\ Len(Weights) = 2 /\ Primary \in {1, 2} /\ VoteThreshold \in Nat
  /\ Scale \in Nat \ {0} /\ StrengthStep \in Nat \ {0}
  /\ BaseQty \in Nat /\ MaxPosition \in Nat

VARIABLES
  stage,     \* of the replay: "feeding", "window", "tail" (the last window), "done"
  total, segMsg, segments,   \* ReplayEngine's counters
  turn,      \* in a window: the next worker to arbitrate
  orders,    \* the market view: ref -> its order, refs counting from 1; rem = 0 once gone
  flow,      \* worker -> its OFI strategy
  imbalance, \* worker -> its OBI strategy
  last,      \* worker -> last_side_ and last_str_
  pos,       \* RiskManager: locate -> position
  tally,     \* history: what OFI has counted, and how far that is off (FlowDrift)
  recent,    \* history: worker -> the last Window contributions, in order
  climb      \* history: worker -> since its direction last changed, the orders sent
             \* and the strength of the first

replayVars == <<stage, total, segMsg, segments, turn>>
marketVars == <<orders, flow, imbalance, tally, recent>>
windowVars == <<last, pos, climb>>
vars == <<replayVars, marketVars, windowVars>>

Workers == 0..(NWorkers - 1)
Sides == {"BUY", "SELL"}
Opposite(side) == IF side = "BUY" THEN "SELL" ELSE "BUY"
Sign(side) == CASE side = "BUY" -> 1 [] side = "SELL" -> -1 [] OTHER -> 0
Lesser(a, b) == IF a < b THEN a ELSE b
\* f(1) + ... + f(n); a recursive function, which TLC evaluates faster than a fold.
SumTo(n, f(_)) == LET sum[i \in 0..n] == IF i = 0 THEN 0 ELSE sum[i - 1] + f(i) IN sum[n]
-----------------------------------------------------------------------------
(* The order flow strategy.                                                *)

\* What an event adds to the flow: an order entered weighs with its side, one
\* reduced against it.
Contribution(e, side) ==
  Sign(side) * IF e.type \in {"ADD", "REPLACE"} THEN e.shares ELSE -e.shares

\* Fault: a full window forgets the entry after the oldest.
Slid_OffByOne(f, d) ==
  LET i == f.written % Window
      oldest == IF f.written < Window THEN 0 ELSE f.win[(i + 1) % Window]
  IN  [f EXCEPT !.win[i] = d, !.sum = @ + d - oldest, !.written = @ + 1]
\* The window is a ring: a full one loses its oldest entry.
Slid(f, d) ==
  LET i == f.written % Window
      oldest == IF f.written < Window THEN 0 ELSE f.win[i]
  IN  [f EXCEPT !.win[i] = d, !.sum = @ + d - oldest, !.written = @ + 1]

\* The signal: linear from the threshold on, full at Saturate times the threshold.
Voted(f, locate) ==
  LET over == (IF f.sum > 0 THEN f.sum ELSE -f.sum) - FlowThreshold
      span == FlowThreshold * (Saturate - 1)
  IN  [f EXCEPT !.locate = locate,
                !.side = IF over <= 0 THEN "NONE" ELSE IF f.sum > 0 THEN "BUY" ELSE "SELL",
                !.strength = IF over <= 0 THEN 0
                             ELSE IF over >= span THEN Scale ELSE (over * Scale) \div span]

\* The book imbalance strategy: the side with more volume at its best price.
Imbalance(locate, quote) ==
  LET sum == quote[1] + quote[2]
      diff == quote[1] - quote[2]
      size == IF sum = 0 THEN 0 ELSE ((IF diff > 0 THEN diff ELSE -diff) * Scale) \div sum
  IN  [locate |-> locate,
       side |-> IF size <= BookThreshold THEN "NONE" ELSE IF diff > 0 THEN "BUY" ELSE "SELL",
       strength |-> IF sum = 0 THEN 0
                    ELSE IF size >= BookThreshold THEN Scale
                    ELSE (size * Scale) \div (BookThreshold + 1)]
-----------------------------------------------------------------------------
(* Events.                                                                 *)

Resting(book) == {r \in DOMAIN book : book[r].rem > 0}
\* The shares of these orders, buys less sells.
Net(book, refs) ==
  SumTo(Len(book), LAMBDA r : IF r \in refs THEN Sign(book[r].side) * book[r].rem ELSE 0)
Reduced(book, ref, shares) ==
  [book EXCEPT ![ref].rem = @ - Lesser(shares, @)]
Entered(book, locate, side, shares) ==
  Append(book, [locate |-> locate, side |-> side, rem |-> shares])

\* OrderBookConsumer::on_event.  A replace of an order the view does not know is
\* ignored; its new order stays unknown.
Viewed(book, e) ==
  CASE e.type = "ADD" -> Entered(book, e.locate, e.side, e.shares)
    [] e.type = "DELETE" -> [book EXCEPT ![e.ref].rem = 0]
    [] e.type \in {"CANCEL", "EXECUTE"} -> Reduced(book, e.ref, e.shares)
    [] e.type = "REPLACE" ->
         Entered([book EXCEPT ![e.ref].rem = 0], e.locate, book[e.ref].side,
                 IF book[e.ref].rem > 0 THEN e.shares ELSE 0)

\* Fault: the side is looked up before the view has taken the event.
EventSide_Before(before, after, e) ==
  CASE e.type = "ADD" -> e.side
    [] e.type = "REPLACE" -> "BUY"
    [] OTHER -> IF before[e.ref].rem > 0 THEN before[e.ref].side ELSE "NONE"
\* The side an event counts for.  A replace carries none, and an unset side is 0,
\* BUY; the others are looked up in the view, which has taken the event already:
\* NONE when the order is gone.
EventSide(before, after, e) ==
  CASE e.type = "ADD" -> e.side
    [] e.type = "REPLACE" -> "BUY"
    [] OTHER -> IF after[e.ref].rem > 0 THEN after[e.ref].side ELSE "NONE"

\* locate % nworkers_ == id_.
Owns(w, locate) == NWorkers = 1 \/ locate % NWorkers = w

\* History: what the flow should have lost with the orders that left, and what a
\* replace counts beyond the order it enters.
Missed(before, after, e) ==
  Net(before, Resting(before) \ Resting(after))
  + IF e.type # "REPLACE" THEN 0
    ELSE e.shares - Sign(Last(after).side) * Last(after).rem

Now == [book |-> orders, flow |-> flow, tally |-> tally, recent |-> recent]

\* broadcast: the view, then on_market_event of the worker that owns the locate,
\* as far as OFI goes.
Broadcast(s, e) ==
  LET book == Viewed(s.book, e)
      side == EventSide(s.book, book, e)
      d == Contribution(e, side)
      feeds(w) == Owns(w, e.locate) /\ side # "NONE"
  IN  [book |-> book,
       flow |-> [w \in Workers |-> IF feeds(w) THEN Voted(Slid(s.flow[w], d), e.locate)
                                   ELSE s.flow[w]],
       recent |-> [w \in Workers |->
                     IF ~feeds(w) THEN s.recent[w]
                     ELSE LET all == Append(s.recent[w], d)
                          IN  IF Len(all) > Window THEN Tail(all) ELSE all],
       tally |-> [counted |-> s.tally.counted + d * Cardinality({w \in Workers : feeds(w)}),
                  missed |-> s.tally.missed + Missed(s.book, book, e)]]

\* The events of one message or order, all of one locate; OBI keeps what it makes
\* of the last quote.
Deliver(events, quote) ==
  LET after[n \in 0..Len(events)] ==
        IF n = 0 THEN Now ELSE Broadcast(after[n - 1], events[n])
      s == after[Len(events)]
      locate == events[1].locate
  IN  /\ orders' = s.book
      /\ flow' = s.flow
      /\ tally' = s.tally
      /\ recent' = s.recent
      /\ imbalance' = [w \in Workers |-> IF Owns(w, locate) THEN Imbalance(locate, quote)
                                         ELSE imbalance[w]]

Event(type, ref, locate, side, shares) ==
  [type |-> type, ref |-> ref, locate |-> locate, side |-> side, shares |-> shares]
\* make_execute.
Executed(ref, locate, shares) == Event("EXECUTE", ref, locate, "NONE", shares)
\* The reference of the order an event enters.
NewRef == Len(orders) + 1

\* The orders that can trade with one of this side.
Makers(locate, side) ==
  {r \in Resting(orders) : orders[r].locate = locate /\ orders[r].side = Opposite(side)}

\* What follows the entry of an order: nothing, or a trade, which the exchange
\* broadcasts for the maker and for the order itself.
Trades(locate, side, shares) ==
  {<<>>} \cup
  {LET q == Lesser(shares, orders[m].rem)
   IN  <<Executed(m, locate, q), Executed(NewRef, locate, q)>> : m \in Makers(locate, side)}
-----------------------------------------------------------------------------
(* The replay.                                                             *)

\* Fault: the count of a segment starts at 1.
NextSegment_OffByOne == segMsg' = IF stage = "window" THEN 1 ELSE segMsg
NextSegment == segMsg' = IF stage = "window" THEN 0 ELSE segMsg

\* A message is counted, and after the last of a segment the window opens.
Counted ==
  /\ stage = "feeding" /\ total < MaxMessages
  /\ total' = total + 1
  /\ segMsg' = segMsg + 1
  /\ stage' = IF segMsg + 1 >= SegmentSize THEN "window" ELSE "feeding"
  /\ turn' = 0
  /\ UNCHANGED <<segments, windowVars>>

Add ==
  /\ Counted
  /\ Len(orders) < MaxOrders
  /\ \E locate \in Locates, side \in Sides, shares \in Quantities :
       \E trade \in Trades(locate, side, shares), quote \in Quotes :
         Deliver(<<Event("ADD", NewRef, locate, side, shares)>> \o trade, quote)

\* D and X of an order that rests or is long gone.
Withdraw ==
  /\ Counted
  /\ \E ref \in DOMAIN orders, type \in {"DELETE", "CANCEL"}, quote \in Quotes :
       \E shares \in IF type = "DELETE" THEN {0} ELSE Quantities :
         Deliver(<<Event(type, ref, orders[ref].locate, "NONE", shares)>>, quote)

Replace ==
  /\ Counted
  /\ Len(orders) < MaxOrders
  /\ \E old \in DOMAIN orders, shares \in Quantities :
       \E trade \in IF orders[old].rem = 0 THEN {<<>>}
                    ELSE Trades(orders[old].locate, orders[old].side, shares),
          quote \in Quotes :
         Deliver(<<Event("REPLACE", old, orders[old].locate, "NONE", shares)>> \o trade, quote)

\* A message that is no order event.
Other == Counted /\ UNCHANGED marketVars

\* The end of the input, or of max_messages: the last, short segment gets its
\* window too.
EndInput ==
  /\ stage = "feeding"
  /\ stage' = IF segMsg > 0 THEN "tail" ELSE "done"
  /\ turn' = 0
  /\ UNCHANGED <<total, segMsg, segments, marketVars, windowVars>>

EndWindow ==
  /\ stage \in {"window", "tail"} /\ turn = NWorkers
  /\ segments' = segments + 1
  /\ NextSegment
  /\ stage' = IF stage = "window" THEN "feeding" ELSE "done"
  /\ UNCHANGED <<total, turn, marketVars, windowVars>>
-----------------------------------------------------------------------------
(* A worker's window: arbitrate.                                           *)

Signals(w) == <<flow[w], imbalance[w]>>
Voters(w, side) == {i \in 1..2 : Signals(w)[i].side = side}
SumOver(voters, f(_)) == SumTo(2, LAMBDA i : IF i \in voters THEN f(i) ELSE 0)
WeightOf(voters) == SumOver(voters, LAMBDA i : Weights[i])

\* arbitrate_decide: the side with the weight, by more than the threshold.
Direction(w) ==
  LET net == WeightOf(Voters(w, "BUY")) - WeightOf(Voters(w, "SELL"))
  IN  IF net > VoteThreshold THEN "BUY" ELSE IF net < -VoteThreshold THEN "SELL" ELSE "NONE"

\* Fault: the strength is averaged over all strategies.
Strength_All(w) ==
  SumOver(1..2, LAMBDA i : Signals(w)[i].strength * Weights[i]) \div WeightOf(1..2)
\* The weighted average of those who voted for it.
Strength(w) ==
  LET voters == Voters(w, Direction(w))
  IN  SumOver(voters, LAMBDA i : Signals(w)[i].strength * Weights[i]) \div WeightOf(voters)

\* The primary strategy names the locate: 0 before its first signal.
Target(w) == Signals(w)[Primary].locate
Position(locate) == IF locate \in Locates THEN pos[locate] ELSE 0

Blocked(w) == \/ Direction(w) = "BUY" /\ Position(Target(w)) >= MaxPosition
              \/ Direction(w) = "SELL" /\ Position(Target(w)) = 0
\* Fault: the same strength is enough to send again.
Fresh_NoStep(w) == Direction(w) # last[w].side \/ Strength(w) >= last[w].strength
\* A new direction, or a strength a step above the last.
Fresh(w) == Direction(w) # last[w].side \/ Strength(w) >= last[w].strength + StrengthStep

\* submit_signal turns the strength into shares; none, and nothing is sent.
Shares(w) == (BaseQty * Strength(w)) \div Scale
Sends(w) == Direction(w) # "NONE" /\ ~Blocked(w) /\ Fresh(w) /\ Shares(w) > 0

MyTurn(w) ==
  /\ stage \in {"window", "tail"} /\ turn = w
  /\ turn' = turn + 1
  /\ UNCHANGED <<stage, total, segMsg, segments>>

Hold(w) == MyTurn(w) /\ ~Sends(w) /\ UNCHANGED <<marketVars, windowVars>>

\* An order sent is remembered, rejected or not.
Remembered(w) ==
  /\ last' = [last EXCEPT ![w] = [side |-> Direction(w), strength |-> Strength(w)]]
  /\ climb' = [climb EXCEPT ![w] =
                 IF Direction(w) = last[w].side THEN [climb[w] EXCEPT !.orders = @ + 1]
                 ELSE [orders |-> 1, from |-> Strength(w)]]

\* Refused by the risk manager, or by the exchange for want of a maker.
SendInVain(w) ==
  /\ MyTurn(w) /\ Sends(w)
  /\ Remembered(w)
  /\ UNCHANGED <<pos, marketVars>>

\* It trades, the workers see the trade, and then the position has it; an IOC
\* order's rest is void.
SendAndTrade(w) ==
  /\ MyTurn(w) /\ Sends(w)
  /\ IF Direction(w) = "BUY" THEN Position(Target(w)) + Shares(w) <= MaxPosition
                             ELSE Shares(w) <= Position(Target(w))
  /\ \E m \in Makers(Target(w), Direction(w)), quote \in Quotes :
       LET q == Lesser(Shares(w), orders[m].rem)
       IN  /\ Deliver(<<Executed(m, Target(w), q)>>, quote)
           /\ pos' = [pos EXCEPT ![Target(w)] = @ + Sign(Direction(w)) * q]
  /\ Remembered(w)

Arbitrate == \E w \in Workers : Hold(w) \/ SendInVain(w) \/ SendAndTrade(w)
-----------------------------------------------------------------------------
Init ==
  /\ stage = "feeding" /\ total = 0 /\ segMsg = 0 /\ segments = 0 /\ turn = 0
  /\ orders = <<>>
  /\ flow = [w \in Workers |-> [win |-> [i \in 0..(Window - 1) |-> 0], sum |-> 0, written |-> 0,
                                locate |-> 0, side |-> "NONE", strength |-> 0]]
  /\ imbalance = [w \in Workers |-> [locate |-> 0, side |-> "NONE", strength |-> 0]]
  /\ last = [w \in Workers |-> [side |-> "NONE", strength |-> -1]]
  /\ pos = [l \in Locates |-> 0]
  /\ tally = [counted |-> 0, missed |-> 0]
  /\ recent = [w \in Workers |-> <<>>]
  /\ climb = [w \in Workers |-> [orders |-> 0, from |-> 0]]

Next == Add \/ Withdraw \/ Replace \/ Other \/ EndInput \/ EndWindow \/ Arbitrate
Spec == Init /\ [][Next]_vars
-----------------------------------------------------------------------------
(* Properties.                                                             *)

\* OFI's running sum, kept by adding and subtracting over the ring, is the sum of
\* its last Window contributions.
OfiIsWindowSum == \A w \in Workers : flow[w].sum = SumTo(Len(recent[w]), LAMBDA i : recent[w][i])

\* The flow all events have added up to differs from the shares that rest in the
\* view, buys less sells, by exactly what orders still had when they left it (a
\* removal is broadcast after the view forgot the side) and by the replaces, all
\* counted as buys.
FlowDrift ==
  tally.counted = Net(orders, Resting(orders)) + tally.missed

\* An order's side has the support of a strategy, outweighs the other side, and its
\* strength is one its supporters can have given it.
DecisionIsBacked ==
  [][\A w \in Workers :
       last'[w] # last[w] =>
         LET side == last'[w].side
             given == {Signals(w)[i].strength : i \in Voters(w, side)}
         IN  /\ given # {} /\ WeightOf(Voters(w, side)) > WeightOf(Voters(w, Opposite(side)))
             /\ \E s \in given : s <= last'[w].strength
             /\ \E s \in given : s >= last'[w].strength]_vars

\* A worker that keeps its direction climbs by a step at least with each order, so
\* that it sends no more than steps fit in the scale: votes that stay the same do not
\* repeat the order, rejected or not.
ClimbIsBounded ==
  \A w \in Workers : climb[w].orders > 0 =>
    /\ (climb[w].orders - 1) * StrengthStep <= last[w].strength - climb[w].from
    /\ last[w].strength <= Scale

\* Every message is in one segment, all segments but a last one have SegmentSize
\* messages, and each has had its window.
SegmentsTile ==
  /\ stage \in {"feeding", "window"} => total = segments * SegmentSize + segMsg
  /\ stage = "done" => segments = (total + SegmentSize - 1) \div SegmentSize
=============================================================================
