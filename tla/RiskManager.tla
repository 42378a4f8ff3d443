---------------------------- MODULE RiskManager ----------------------------
(***************************************************************************)
(* The risk manager (risk/risk_manager.h): position, integer average cost,  *)
(* realised profit, mark price and the high-water mark of the equity.  The   *)
(* operators take and return its state, a record; money is in cents.         *)
(***************************************************************************)
EXTENDS Integers, FiniteSetsExt

CONSTANTS
  Symbols,      \* locates below kMaxLocate
  MaxPosition,  \* max_position_
  MaxDailyLoss, \* max_daily_loss_
  PauseAt,      \* max_drawdown_pause_
  FlattenAt     \* max_drawdown_flatten_

\* initial_equity_ is the origin of the equity, here 0.
Fresh == [qty |-> [s \in Symbols |-> 0], avg |-> [s \in Symbols |-> 0],
          mark |-> [s \in Symbols |-> 0], realized |-> 0, peak |-> 0]
-----------------------------------------------------------------------------
\* equity: the realised profit and the paper profit of marked positions.
Equity(r) ==
  r.realized + MapThenSumSet(
    LAMBDA s : IF r.qty[s] > 0 /\ r.mark[s] > 0 THEN r.qty[s] * (r.mark[s] - r.avg[s]) ELSE 0,
    Symbols)
Drawdown(r) == r.peak - Equity(r)
Paused(r) == Drawdown(r) > PauseAt
Flatten(r) == Drawdown(r) > FlattenAt

\* update_equity.
UpdateEquity(r) == IF Equity(r) > r.peak THEN [r EXCEPT !.peak = Equity(r)] ELSE r

\* Fault: a position below the limit may be added to by any quantity.
CheckOrder_BelowLimit(r, s, side, qty) ==
  IF side = "BUY" THEN r.qty[s] < MaxPosition ELSE qty <= r.qty[s]
\* check_order.
CheckOrder(r, s, side, qty) ==
  /\ qty # 0
  /\ r.realized > -MaxDailyLoss
  /\ ~Paused(r)
  /\ IF side = "BUY" THEN r.qty[s] + qty <= MaxPosition ELSE qty <= r.qty[s]

\* Fault: the average is rounded up.
AverageCost_RoundedUp(total, qty) == (total + qty - 1) \div qty
\* The weighted average cost, an integer division.
AverageCost(total, qty) == total \div qty

\* on_fill of a BUY.
Bought(r, s, price, qty) ==
  LET held == r.qty[s] + qty
  IN  UpdateEquity([r EXCEPT !.qty[s] = held,
                             !.avg[s] = AverageCost(r.avg[s] * r.qty[s] + price * qty, held)])

\* on_fill of a SELL: no more than is held; an emptied position has no cost.
Sold(r, s, price, qty) ==
  LET sold == IF qty < r.qty[s] THEN qty ELSE r.qty[s]
      left == r.qty[s] - sold
  IN  UpdateEquity([r EXCEPT !.realized = @ + (price - r.avg[s]) * sold,
                             !.qty[s] = left,
                             !.avg[s] = IF left = 0 THEN 0 ELSE @])

OnFill(r, s, side, price, qty) ==
  IF side = "BUY" THEN Bought(r, s, price, qty) ELSE Sold(r, s, price, qty)

Mark(r, s, price) == UpdateEquity([r EXCEPT !.mark[s] = price])

\* What the positions have cost, by the average.
Cost(r) == MapThenSumSet(LAMBDA s : r.qty[s] * r.avg[s], Symbols)
=============================================================================
