---------------------------- MODULE OrderManager ----------------------------
(***************************************************************************)
(* The strategy's order register (oms/order_manager.h): the life cycle of    *)
(* every order it has sent.  An operator is one callback on one entry; each  *)
(* is called under ExecutionEngine's mutex, so a callback is one step.       *)
(* Average price, time stamps and exchange_ref are left out: nothing in the  *)
(* program decides by them.                                                  *)
(*                                                                           *)
(* The specification lets the reports arrive in any order, repeated or for   *)
(* orders in any status; unknown ids are ignored by every callback.          *)
(***************************************************************************)
EXTENDS Integers, Sequences

CONSTANTS
  Symbols,     \* symbols (locates) traded
  Quantities,  \* order and report quantities, positive
  MaxOrders    \* bound on the number of orders registered

ASSUME OrderConstants == Quantities \subseteq Nat \ {0} /\ MaxOrders \in Nat

VARIABLE entries   \* orders_ and its two indexes: entries[id], ids count from 1

OrderSides == {"BUY", "SELL"}
LiveStatus == {"SUBMITTED", "PARTIAL_FILL"}
FinalStatus == {"FILLED", "CANCELLED", "REJECTED"}
Status == LiveStatus \cup FinalStatus \cup {"PENDING", "PENDING_CANCEL"}

\* `open': the id is in sym_orders_ and strat_orders_.
Entry == [symbol : Symbols, side : OrderSides, price : Nat, qty : Nat, filled : Nat,
          status : Status, open : BOOLEAN]
Live(e) == e.status \in LiveStatus
-----------------------------------------------------------------------------
\* new_order.
Registered(symbol, side, price, qty) ==
  [symbol |-> symbol, side |-> side, price |-> price, qty |-> qty, filled |-> 0,
   status |-> "PENDING", open |-> TRUE]

\* on_accept: only a pending order is accepted.
Accepted(e) == IF e.status = "PENDING" THEN [e EXCEPT !.status = "SUBMITTED"] ELSE e

\* Faults: more is filled than was ordered; a fill counts twice.
FilledQty_Unclamped(e, qty) == e.filled + qty
FilledQty_Twice(e, qty) == e.filled + 2 * qty
FilledQty(e, qty) == IF e.filled + qty > e.qty THEN e.qty ELSE e.filled + qty

\* on_fill: only a live order is filled; complete, it leaves the indexes.
Filled(e, qty) ==
  LET filled == FilledQty(e, qty)
  IN  IF ~Live(e) THEN e
      ELSE IF filled >= e.qty
      THEN [e EXCEPT !.filled = filled, !.status = "FILLED", !.open = FALSE]
      ELSE [e EXCEPT !.filled = filled, !.status = "PARTIAL_FILL"]

\* request_cancel: only a live order.
CancelRequested(e) == IF Live(e) THEN [e EXCEPT !.status = "PENDING_CANCEL"] ELSE e

\* Fault: the report of a cancel nobody asked for is taken.
Cancelled_Unasked(e) ==
  IF e.status \in {"PENDING_CANCEL", "SUBMITTED", "PARTIAL_FILL"}
  THEN [e EXCEPT !.status = "CANCELLED", !.open = FALSE] ELSE e
\* on_cancel: only after request_cancel.
Cancelled(e) ==
  IF e.status = "PENDING_CANCEL" THEN [e EXCEPT !.status = "CANCELLED", !.open = FALSE] ELSE e

\* Fault: a rejected order stays in the indexes.
Rejected_StaysOpen(e) == IF e.status = "PENDING" THEN [e EXCEPT !.status = "REJECTED"] ELSE e
\* on_reject: only a pending order.
Rejected(e) ==
  IF e.status = "PENDING" THEN [e EXCEPT !.status = "REJECTED", !.open = FALSE] ELSE e
-----------------------------------------------------------------------------
Init == entries = <<>>

NewOrder ==
  /\ Len(entries) < MaxOrders
  /\ \E s \in Symbols, side \in OrderSides, qty \in Quantities :
       entries' = Append(entries, Registered(s, side, 0, qty))
OnAccept == \E id \in DOMAIN entries : entries' = [entries EXCEPT ![id] = Accepted(@)]
OnFill == \E id \in DOMAIN entries, qty \in Quantities :
            entries' = [entries EXCEPT ![id] = Filled(@, qty)]
RequestCancel == \E id \in DOMAIN entries : entries' = [entries EXCEPT ![id] = CancelRequested(@)]
OnCancel == \E id \in DOMAIN entries : entries' = [entries EXCEPT ![id] = Cancelled(@)]
OnReject == \E id \in DOMAIN entries : entries' = [entries EXCEPT ![id] = Rejected(@)]

Next == NewOrder \/ OnAccept \/ OnFill \/ RequestCancel \/ OnCancel \/ OnReject
Spec == Init /\ [][Next]_entries
-----------------------------------------------------------------------------
(* Properties.                                                             *)

\* Status and quantity tell the same story, whatever the order of the reports.
StatusMatchesFills ==
  \A id \in DOMAIN entries :
    LET e == entries[id]
    IN  /\ e \in Entry
        /\ e.filled <= e.qty
        /\ e.status = "FILLED" <=> e.filled = e.qty
        /\ e.status \in {"PENDING", "SUBMITTED", "REJECTED"} => e.filled = 0
        /\ e.status = "PARTIAL_FILL" => e.filled > 0

\* The indexes behind open_orders hold exactly the orders without a final status.
IndexExact ==
  \A id \in DOMAIN entries : entries[id].open <=> entries[id].status \notin FinalStatus

\* The documented state machine, with the direct step of a first fill that is
\* also the last.
Diagram ==
  {<<"PENDING", "SUBMITTED">>, <<"PENDING", "REJECTED">>,
   <<"SUBMITTED", "PARTIAL_FILL">>, <<"SUBMITTED", "FILLED">>,
   <<"PARTIAL_FILL", "FILLED">>,
   <<"SUBMITTED", "PENDING_CANCEL">>, <<"PARTIAL_FILL", "PENDING_CANCEL">>,
   <<"PENDING_CANCEL", "CANCELLED">>}

\* A status changes only along the diagram, and shares filled are never unfilled:
\* late, repeated and unasked reports change nothing.
FollowsDiagram ==
  [][\A id \in DOMAIN entries :
       /\ entries'[id].status # entries[id].status =>
            <<entries[id].status, entries'[id].status>> \in Diagram
       /\ entries'[id].filled >= entries[id].filled
       /\ entries[id].status \in FinalStatus => entries'[id] = entries[id]]_entries
=============================================================================
