------------------------ MODULE ExecutionEngineProofs ------------------------
(***************************************************************************)
(* Theorems about ExecutionEngine, for any symbols, quantities, prices,     *)
(* limits and number of orders: the exchange's book, the registry and OMS   *)
(* agree between calls, no fill is lost but by a flatten, and of market     *)
(* orders the position is exact and the profit rounded to one side.         *)
(* Last, about the order register by itself (OrderManager).                 *)
(***************************************************************************)
EXTENDS ExecutionEngine, SetSums

Ats == {"idle", "matched", "booking", "flatten", "cancel", "blocked"}
AnyFill == [qty : Nat \ {0}, price : Nat \ {0}]
FillSeqs == Seq(AnyFill)
Report == [id : Nat, qty : Nat \ {0}, price : Nat]
IsBooking(c) == c.at \in {"matched", "booking"}

\* What rests of an order, and what of it has traded and is not booked yet.
RestOf(left, id) == IF id \in DOMAIN left THEN left[id] ELSE 0
Reported(rs, id) == \E n \in DOMAIN rs : rs[n].id = id
Distinct(rs) == \A m, n \in DOMAIN rs : rs[m].id = rs[n].id => m = n
ReportOf(rs, id) == CHOOSE n \in DOMAIN rs : rs[n].id = id
Due(c, rs, id) ==
  IF IsBooking(c) THEN IF id = c.id THEN TotalQty(c.fills) ELSE 0
  ELSE IF Reported(rs, id) THEN rs[ReportOf(rs, id)].qty ELSE 0

\* One order in OMS (e) and in the exchange, that has rest of it in the book and has
\* traded done, of which due is not booked yet.  Only an order with a limit rests.
\* No fill is lost unless a flatten has been issued and the order has a limit.
Agrees(e, rest, due, done, flattened) ==
  /\ e \in Entry
  /\ rest \in Nat /\ due \in Nat /\ done \in Nat
  /\ Live(e) => e.filled < e.qty
  /\ rest + due <= e.qty - e.filled
  /\ rest > 0 => rest + due = e.qty - e.filled /\ Live(e) /\ e.price > 0
  /\ e.price = 0 \/ ~flattened => e.filled + due = done /\ (due > 0 => Live(e))

TypesOK ==
  /\ entries \in Seq(Entry)
  /\ executed \in Seq(Nat) /\ Len(executed) = Len(entries)
  /\ resting = [i \in DOMAIN resting |-> resting[i]]
  /\ DOMAIN resting \subseteq DOMAIN entries
  /\ \A id \in DOMAIN resting : resting[id] \in Nat \ {0}
CallOK ==
  /\ call \in [at : Ats, id : Nat, fills : FillSeqs, todo : SUBSET DOMAIN entries]
  /\ IF IsBooking(call) THEN /\ call.id \in DOMAIN entries
                             /\ call.fills # <<>> /\ reports = <<>>
     ELSE call.fills = <<>>
  /\ call.at = "cancel" /\ reports # <<>> => issued
ReportsOK ==
  /\ reports \in Seq(Report)
  /\ \A n \in DOMAIN reports :
       reports[n].id \in DOMAIN entries /\ entries[reports[n].id].price > 0
  /\ Distinct(reports)
OrdersAgree ==
  \A id \in DOMAIN entries :
    Agrees(entries[id], RestOf(resting, id), Due(call, reports, id), executed[id], issued)
\* An order stays registered while it rests, its fills are reported or its call goes on;
\* of a call that is blocked for ever nothing is said.
RefsOK ==
  /\ DOMAIN resting \subseteq refs
  /\ refs \subseteq DOMAIN entries
  /\ call.at # "blocked" =>
       \A id \in refs : id \in DOMAIN resting \/ Reported(reports, id) \/ id = call.id

EngineInv == TypesOK /\ CallOK /\ ReportsOK /\ OrdersAgree /\ RefsOK
-----------------------------------------------------------------------------
(* Positions, of market orders.                                            *)

Signed(ents, amount) ==
  [id \in DOMAIN ents |-> IF ents[id].side = "BUY" THEN amount[id] ELSE -amount[id]]
Booked(ents) == [id \in DOMAIN ents |-> ents[id].filled]
Of(ents, s) == {id \in DOMAIN ents : ents[id].symbol = s}
Costs(r) == [s \in Symbols |-> r.qty[s] * r.avg[s]]

RiskOK(r) ==
  /\ DOMAIN r = {"qty", "avg", "mark", "realized", "peak"}
  /\ r.qty \in [Symbols -> Nat] /\ r.avg \in [Symbols -> Nat]
  /\ r.realized \in Int

\* What is still to be booked of the order of the call fits the position.
Fits(side, held, due) == IF side = "BUY" THEN held + due <= MaxPosition ELSE due <= held
FitsPosition(e, r, due) == Fits(e.side, r.qty[e.symbol], due)
\* One cent per share held for each share that is bought and booked.
BuyIds(ents) == {id \in DOMAIN ents : ents[id].side = "BUY"}
BookedBuys(ents) == SumOf(Booked(ents), BuyIds(ents))
Slack(ents) == BookedBuys(ents) * MaxPosition

Position(ents, s) == SumOf(Signed(ents, Booked(ents)), Of(ents, s))
PositionsExact(ents, r) ==
  \A s \in Symbols : r.qty[s] = Position(ents, s) /\ r.qty[s] <= MaxPosition
\* Profit at cost, against what the fills have paid.
Profit(r) == r.realized - SumOf(Costs(r), Symbols)
Balanced(ents, r, paid) == Profit(r) >= paid /\ Profit(r) <= paid + Slack(ents)

PositionInv ==
  /\ RiskOK(risk) /\ cash \in Int
  /\ MarketOnly =>
       /\ PositionsExact(entries, risk)
       /\ IsBooking(call) => FitsPosition(entries[call.id], risk, TotalQty(call.fills))
       /\ Balanced(entries, risk, cash)
-----------------------------------------------------------------------------
(* The fills of an order.                                                  *)

Qtys(fs) == [i \in DOMAIN fs |-> fs[i].qty]

LEMMA QuantityTypes == Quantities \subseteq Nat \ {0} /\ Prices \subseteq Nat \ {0}
BY OrderConstants, ExecutionConstants

\* What submit answers is a sequence of fills, that is all the bookings need of it.
LEMMA FillsOfTypes ==
  ASSUME NEW side, NEW type, NEW limit, NEW qty \in Quantities,
         NEW fs \in FillsOf(side, type, limit, qty)
  PROVE  fs \in FillSeqs /\ TotalQty(fs) <= qty
<1>1. Fill(qty) \subseteq AnyFill
  <2> SUFFICES ASSUME NEW f \in Fill(qty) PROVE f \in AnyFill
    OBVIOUS
  <2>1. f = [qty |-> f.qty, price |-> f.price] /\ f.qty \in 1..qty /\ f.price \in Prices
    BY DEF Fill
  <2>2. f.qty \in Nat \ {0} /\ f.price \in Nat \ {0}
    BY <2>1, QuantityTypes
  <2> QED
    BY <2>1, <2>2 DEF AnyFill
<1>2. PICK m \in 0..qty : fs \in [1..m -> Fill(qty)]
  BY DEF FillsOf, SeqOf
<1>3. m \in Nat
  BY QuantityTypes
<1>4. fs \in Seq(AnyFill)
  BY <1>1, <1>2, <1>3
<1> QED
  BY <1>4 DEF FillsOf, FillSeqs

LEMMA QtysAreSum ==
  ASSUME NEW fs, NEW S, S \subseteq DOMAIN fs, Summable(Qtys(fs), S)
  PROVE  MapThenSumSet(LAMBDA i : fs[i].qty, S) = SumOf(Qtys(fs), S)
<1> DEFINE sum == SumOf(Qtys(fs), S)
<1>1. PICK g : Unfolds(g, Qtys(fs), S)
  BY SumUnfolds
<1>2. \A h : Unfolds(h, Qtys(fs), S) => h[S] = sum
  BY SumUnfolds
<1>3. ASSUME NEW h
      PROVE  h = [s \in SUBSET S |-> IF s = {} THEN 0
                    ELSE fs[CHOOSE x \in s : TRUE].qty + h[s \ {CHOOSE x \in s : TRUE}]]
             <=> Unfolds(h, Qtys(fs), S)
  <2>1. ASSUME NEW s \in SUBSET S, s # {}
        PROVE  Qtys(fs)[AnyOf(s)] = fs[CHOOSE x \in s : TRUE].qty
    <3>1. AnyOf(s) \in DOMAIN fs
      BY <2>1, AnyOfIsIn
    <3> QED
      BY <3>1 DEF Qtys, AnyOf
  <2> QED
    BY <2>1 DEF Unfolds, AnyOf
<1> HIDE DEF sum
<1>4. \A h : h = [s \in SUBSET S |-> IF s = {} THEN 0
                    ELSE fs[CHOOSE x \in s : TRUE].qty + h[s \ {CHOOSE x \in s : TRUE}]]
             => h[S] = sum
  BY <1>2, <1>3
<1>5. g = [s \in SUBSET S |-> IF s = {} THEN 0
             ELSE fs[CHOOSE x \in s : TRUE].qty + g[s \ {CHOOSE x \in s : TRUE}]]
  BY <1>1, <1>3
<1>6. MapThenSumSet(LAMBDA i : fs[i].qty, S) = sum
  BY <1>4, <1>5 DEF MapThenSumSet, MapThenFoldSet
<1> QED
  BY <1>6 DEF sum

LEMMA TotalIsSum ==
  ASSUME NEW fs \in FillSeqs
  PROVE  /\ DOMAIN fs = 1..Len(fs) /\ Len(fs) \in Nat
         /\ \A i \in DOMAIN fs : Qtys(fs)[i] = fs[i].qty /\ fs[i].qty \in Nat \ {0}
         /\ Summable(Qtys(fs), DOMAIN fs)
         /\ TotalQty(fs) = SumOf(Qtys(fs), DOMAIN fs) /\ TotalQty(fs) \in Nat
<1>1. DOMAIN fs = 1..Len(fs) /\ Len(fs) \in Nat /\ \A i \in DOMAIN fs : fs[i] \in AnyFill
  BY DEF FillSeqs
<1>2. \A i \in DOMAIN fs : Qtys(fs)[i] = fs[i].qty /\ fs[i].qty \in Nat \ {0}
  BY <1>1 DEF Qtys, AnyFill
<1>3. IsFiniteSet(DOMAIN fs)
  BY <1>1, FS_Interval
<1>4. Summable(Qtys(fs), DOMAIN fs) /\ SumOf(Qtys(fs), DOMAIN fs) \in Nat
  BY <1>2, <1>3, SumOfNaturals
<1> QED
  BY <1>1, <1>2, <1>4, QtysAreSum DEF TotalQty

LEMMA TotalNone == TotalQty(<<>>) = 0
<1>1. <<>> \in FillSeqs /\ DOMAIN <<>> = {}
  BY DEF FillSeqs
<1> QED
  BY <1>1, TotalIsSum, SumEmpty

\* What booking the first of the fills leaves to be booked.
Shrinks(fs) ==
  /\ Head(fs).qty \in Nat \ {0} /\ Head(fs).price \in Nat \ {0}
  /\ Tail(fs) \in FillSeqs
  /\ Len(fs) = 1 <=> Tail(fs) = <<>>
  /\ TotalQty(fs) = Head(fs).qty + TotalQty(Tail(fs))
  /\ TotalQty(Tail(fs)) \in Nat

LEMMA FillsTotal ==
  ASSUME NEW fs \in FillSeqs
  PROVE  /\ TotalQty(fs) \in Nat
         /\ fs # <<>> => Shrinks(fs) /\ TotalQty(fs) > 0
<1>1. TotalQty(fs) \in Nat
  BY TotalIsSum
<1> SUFFICES ASSUME fs # <<>>
             PROVE  Shrinks(fs) /\ TotalQty(fs) > 0
  BY <1>1
<1> DEFINE rest == Tail(fs)
           n == Len(rest)
           q == Qtys(fs)
           p == Qtys(rest)
           S == 1..(n + 1)
           one == 1
<1>2. /\ fs \in Seq(AnyFill) /\ rest \in Seq(AnyFill)
      /\ Head(fs) = fs[1] /\ Head(fs) \in AnyFill
      /\ n \in Nat /\ Len(fs) = n + 1 /\ (n = 0 <=> rest = <<>>)
      /\ \A i \in 1..n : rest[i] = fs[i + 1]
  <2>1. fs \in Seq(AnyFill) /\ fs # <<>>
    BY DEF FillSeqs
  <2>2. rest \in Seq(AnyFill) /\ Head(fs) = fs[1] /\ n = Len(fs) - 1 /\ Len(fs) \in Nat \ {0}
    BY <2>1
  <2>3. \A i \in 1..n : rest[i] = fs[i + 1]
    BY <2>1
  <2>4. n = 0 <=> rest = <<>>
    <3> HIDE DEF rest
    <3>1. Len(rest) = 0 => rest = <<>>
      BY <2>2
    <3>2. rest = <<>> => Len(rest) = 0
      OBVIOUS
    <3> QED
      BY <3>1, <3>2
  <2>5. Head(fs) \in AnyFill
    BY <2>1, <2>2
  <2> HIDE DEF rest, n
  <2> QED
    BY <2>1, <2>2, <2>3, <2>4, <2>5
<1>3. rest \in FillSeqs
  BY <1>2 DEF FillSeqs
<1>4. /\ DOMAIN fs = S /\ Summable(q, S) /\ TotalQty(fs) = SumOf(q, S)
      /\ \A i \in S : q[i] = fs[i].qty /\ fs[i].qty \in Nat \ {0}
  BY <1>2, TotalIsSum
<1>5. /\ TotalQty(rest) = SumOf(p, 1..n) /\ TotalQty(rest) \in Nat
      /\ \A i \in 1..n : p[i] = rest[i].qty
  BY <1>2, <1>3, TotalIsSum
<1>6. one \in S /\ S \ {one} = 2..(n + 1)
  BY <1>2
<1> HIDE DEF rest, n, q, p, S, one
<1>7. SumOf(q, S) = q[one] + SumOf(q, S \ {one}) /\ Summable(q, S \ {one})
  BY <1>4, <1>6, SumWithout
<1>8. SumOf(q, 2..(n + 1)) = SumOf(p, 1..n)
  <2>1. Summable(q, 2..(n + 1))
    BY <1>6, <1>7
  <2>2. \A i \in 1..n : p[i] = q[i + 1]
    <3> SUFFICES ASSUME NEW i \in 1..n PROVE p[i] = q[i + 1]
      OBVIOUS
    <3>1. i + 1 \in S
      BY <1>2 DEF S
    <3>2. p[i] = rest[i].qty /\ rest[i] = fs[i + 1] /\ q[i + 1] = fs[i + 1].qty
      BY <1>2, <1>4, <1>5, <3>1
    <3> QED
      BY <3>2
  <2> QED
    BY <1>2, <2>1, <2>2, SumShifted
<1>9. q[one] = Head(fs).qty /\ q[one] \in Nat \ {0}
  BY <1>2, <1>4, <1>6 DEF one
<1>10. TotalQty(fs) = Head(fs).qty + TotalQty(rest)
  BY <1>4, <1>5, <1>6, <1>7, <1>8, <1>9
<1>11. Head(fs).price \in Nat \ {0}
  BY <1>2 DEF AnyFill
<1>12. Len(fs) = 1 <=> rest = <<>>
  BY <1>2
<1> QED
  BY <1>3, <1>5, <1>9, <1>10, <1>11, <1>12 DEF Shrinks, rest
-----------------------------------------------------------------------------
(* One order.                                                              *)

\* What identifies an order is never changed.
Same(e, f) == f.symbol = e.symbol /\ f.side = e.side /\ f.price = e.price /\ f.qty = e.qty

LEMMA EntryTypes ==
  ASSUME NEW e \in Entry
  PROVE  /\ e.symbol \in Symbols /\ e.side \in Sides
         /\ e.price \in Nat /\ e.qty \in Nat /\ e.filled \in Nat
BY DEF Entry, OrderSides, Sides

\* What a callback makes of an entry.
Becomes(e, f, n, status) ==
  f \in Entry /\ Same(e, f) /\ f.filled = n /\ f.status = status

LEMMA EntryBecomes ==
  ASSUME NEW e \in Entry, NEW n \in Nat, NEW status \in Status, NEW f,
         \/ f = [e EXCEPT !.filled = n, !.status = status]
         \/ f = [e EXCEPT !.filled = n, !.status = status, !.open = FALSE]
         \/ n = e.filled /\ f = [e EXCEPT !.status = status]
         \/ n = e.filled /\ f = [e EXCEPT !.status = status, !.open = FALSE]
  PROVE  Becomes(e, f, n, status)
<1>1. CASE f = [e EXCEPT !.filled = n, !.status = status]
  BY <1>1 DEF Entry, Becomes, Same
<1>2. CASE f = [e EXCEPT !.filled = n, !.status = status, !.open = FALSE]
  BY <1>2 DEF Entry, Becomes, Same
<1>3. CASE n = e.filled /\ f = [e EXCEPT !.status = status]
  BY <1>3 DEF Entry, Becomes, Same
<1>4. CASE n = e.filled /\ f = [e EXCEPT !.status = status, !.open = FALSE]
  BY <1>4 DEF Entry, Becomes, Same
<1> QED
  BY <1>1, <1>2, <1>3, <1>4

LEMMA StatusTypes ==
  /\ {"PENDING", "SUBMITTED", "PARTIAL_FILL", "FILLED", "PENDING_CANCEL", "REJECTED"}
       \subseteq Status
  /\ \A e : Live(e) <=> e.status \in {"SUBMITTED", "PARTIAL_FILL"}
BY DEF Status, LiveStatus, FinalStatus, Live

\* on_fill of shares that were traded; it is lost on an order that is not live.
LEMMA FilledAgrees ==
  ASSUME NEW e, NEW rest, NEW due, NEW done, NEW flattened,
         Agrees(e, rest, due, done, flattened), NEW q \in Nat \ {0}, q <= due
  PROVE  /\ Agrees(Filled(e, q), rest, due - q, done, flattened)
         /\ Same(e, Filled(e, q))
         /\ Live(e) => Filled(e, q).filled = e.filled + q
<1> DEFINE f == Filled(e, q)
<1>1. /\ e \in Entry /\ e.filled \in Nat /\ e.qty \in Nat
      /\ rest \in Nat /\ due \in Nat /\ done \in Nat
      /\ e.filled + q <= e.qty
  BY EntryTypes DEF Agrees
<1>2. CASE ~Live(e)
  <2>1. f = e
    BY <1>2 DEF Filled
  <2> HIDE DEF f
  <2>2. Agrees(f, rest, due - q, done, flattened)
    BY <1>1, <1>2, <2>1 DEF Agrees
  <2> QED
    BY <1>2, <2>1, <2>2 DEF f, Same
<1>3. CASE Live(e)
  <2>1. /\ f \in Entry /\ f.filled = e.filled + q /\ Same(e, f)
        /\ Live(f) <=> e.filled + q < e.qty
    <3> DEFINE n == e.filled + q
    <3>0. n \in Nat
      BY <1>1
    <3>1. CASE n = e.qty
      <4>1. f = [e EXCEPT !.filled = n, !.status = "FILLED", !.open = FALSE]
        BY <1>1, <1>3, <3>1 DEF Filled, FilledQty
      <4> HIDE DEF f, n
      <4>2. Becomes(e, f, n, "FILLED")
        BY <1>1, <3>0, <4>1, StatusTypes, EntryBecomes
      <4> QED
        BY <1>1, <3>1, <4>2, StatusTypes DEF Becomes, n
    <3>2. CASE n < e.qty
      <4>1. f = [e EXCEPT !.filled = n, !.status = "PARTIAL_FILL"]
        <5>1. FilledQty(e, q) = n /\ ~(n >= e.qty)
          BY <1>1, <3>2 DEF FilledQty
        <5> QED
          BY <1>3, <5>1 DEF Filled
      <4> HIDE DEF f, n
      <4>2. Becomes(e, f, n, "PARTIAL_FILL")
        BY <1>1, <3>0, <4>1, StatusTypes, EntryBecomes
      <4> QED
        BY <1>1, <3>2, <4>2, StatusTypes DEF Becomes, n
    <3> QED
      BY <1>1, <3>1, <3>2
  <2> HIDE DEF f
  <2>2. Agrees(f, rest, due - q, done, flattened)
    BY <1>1, <1>3, <2>1 DEF Agrees, Same
  <2> QED
    BY <2>1, <2>2 DEF f
<1> QED
  BY <1>2, <1>3

\* request_cancel of an order that does not rest.
LEMMA CancelAgrees ==
  ASSUME NEW e, NEW rest, NEW due, NEW done, NEW flattened,
         Agrees(e, rest, due, done, flattened),
         e.price = 0 \/ ~flattened => due = 0
  PROVE  /\ Agrees(CancelRequested(e), 0, due, done, flattened)
         /\ Same(e, CancelRequested(e))
         /\ CancelRequested(e).filled = e.filled
<1> DEFINE f == CancelRequested(e)
<1>1. /\ e \in Entry /\ e.filled \in Nat /\ e.qty \in Nat
      /\ rest \in Nat /\ due \in Nat /\ done \in Nat
  BY EntryTypes DEF Agrees
<1>2. /\ f \in Entry /\ Same(e, f) /\ f.filled = e.filled
      /\ Live(f) => Live(e)
  <2>1. CASE Live(e)
    <3>1. f = [e EXCEPT !.status = "PENDING_CANCEL"]
      BY <2>1 DEF CancelRequested
    <3> HIDE DEF f
    <3>2. Becomes(e, f, e.filled, "PENDING_CANCEL")
      BY <1>1, <3>1, StatusTypes, EntryBecomes
    <3> QED
      BY <2>1, <3>2 DEF Becomes
  <2>2. CASE ~Live(e)
    <3>1. f = e
      BY <2>2 DEF CancelRequested
    <3> QED
      BY <1>1, <2>2, <3>1 DEF Same
  <2> QED
    BY <2>1, <2>2
<1> HIDE DEF f
<1>3. Agrees(f, 0, due, done, flattened)
  BY <1>1, <1>2 DEF Agrees, Same
<1> QED
  BY <1>2, <1>3 DEF f

\* Part of what rests is traded by a market order.
LEMMA TradedAgrees ==
  ASSUME NEW e, NEW rest, NEW done, NEW flattened, Agrees(e, rest, 0, done, flattened),
         NEW t \in Nat, t <= rest
  PROVE  Agrees(e, rest - t, t, done + t, flattened)
BY EntryTypes DEF Agrees

\* A flatten only weakens what is known of an order.
LEMMA FlattenedAgrees ==
  ASSUME NEW e, NEW rest, NEW due, NEW done, NEW flattened,
         Agrees(e, rest, due, done, flattened)
  PROVE  Agrees(e, rest, due, done, TRUE)
BY DEF Agrees

\* A new order: refused, or sent and answered.
LEMMA RefusedAgrees ==
  ASSUME NEW s \in Symbols, NEW side \in Sides, NEW price \in Nat, NEW qty \in Nat \ {0},
         NEW flattened
  PROVE  LET e == Registered(s, side, price, qty)
         IN  /\ Agrees(Rejected(e), 0, 0, 0, flattened)
             /\ Same(e, Rejected(e)) /\ Rejected(e).filled = 0
<1> DEFINE e == Registered(s, side, price, qty)
           f == Rejected(e)
<1>1. /\ e \in Entry /\ e.filled = 0 /\ e.qty = qty /\ e.price = price
      /\ f = [e EXCEPT !.status = "REJECTED", !.open = FALSE]
  BY StatusTypes DEF Registered, Rejected, Entry, OrderSides, Sides
<1> HIDE DEF e, f
<1>2. Becomes(e, f, e.filled, "REJECTED")
  <2>1. e.filled \in Nat
    BY <1>1
  <2> QED
    BY <1>1, <2>1, StatusTypes, EntryBecomes
<1>3. /\ f \in Entry /\ ~Live(f) /\ f.filled = 0 /\ Same(e, f)
      /\ f.qty = qty /\ f.price = price
  BY <1>1, <1>2, StatusTypes DEF Becomes, Same
<1>4. Agrees(f, 0, 0, 0, flattened)
  BY <1>3 DEF Agrees
<1> QED
  BY <1>3, <1>4 DEF e, f

LEMMA SentAgrees ==
  ASSUME NEW s \in Symbols, NEW side \in Sides, NEW price \in Nat, NEW qty \in Nat \ {0},
         NEW flattened, NEW due \in Nat, due <= qty, NEW rest \in Nat,
         rest > 0 => price > 0 /\ rest + due = qty
  PROVE  LET e == Registered(s, side, price, qty)
         IN  /\ Agrees(Accepted(e), rest, due, due, flattened)
             /\ Same(e, Accepted(e)) /\ Accepted(e).filled = 0
<1> DEFINE e == Registered(s, side, price, qty)
           f == Accepted(e)
<1>1. /\ e \in Entry /\ e.filled = 0 /\ e.qty = qty /\ e.price = price
      /\ f = [e EXCEPT !.status = "SUBMITTED"]
  BY StatusTypes DEF Registered, Accepted, Entry, OrderSides, Sides
<1> HIDE DEF e, f
<1>2. Becomes(e, f, e.filled, "SUBMITTED")
  <2>1. e.filled \in Nat
    BY <1>1
  <2> QED
    BY <1>1, <2>1, StatusTypes, EntryBecomes
<1>3. /\ f \in Entry /\ Live(f) /\ f.filled = 0 /\ Same(e, f)
      /\ f.qty = qty /\ f.price = price
  BY <1>1, <1>2, StatusTypes DEF Becomes, Same
<1>4. Agrees(f, rest, due, due, flattened)
  BY <1>3 DEF Agrees
<1> QED
  BY <1>3, <1>4 DEF e, f
-----------------------------------------------------------------------------
(* What is due.                                                            *)

LEMMA DueNone ==
  ASSUME NEW c, ~IsBooking(c), NEW id
  PROVE  Due(c, <<>>, id) = 0
BY DEF Due, Reported

LEMMA DueReport ==
  ASSUME NEW c, ~IsBooking(c), NEW rs, Distinct(rs), NEW n \in DOMAIN rs
  PROVE  Due(c, rs, rs[n].id) = rs[n].qty
<1>1. Reported(rs, rs[n].id)
  BY DEF Reported
<1>2. ReportOf(rs, rs[n].id) \in DOMAIN rs /\ rs[ReportOf(rs, rs[n].id)].id = rs[n].id
  BY DEF ReportOf
<1>3. ReportOf(rs, rs[n].id) = n
  BY <1>2 DEF Distinct
<1> QED
  BY <1>1, <1>3 DEF Due

\* The first of the reports is made.
LEMMA DueTail ==
  ASSUME NEW c, ~IsBooking(c), NEW d, ~IsBooking(d),
         NEW rs \in Seq(Report), rs # <<>>, Distinct(rs)
  PROVE  /\ Distinct(Tail(rs)) /\ Tail(rs) \in Seq(Report)
         /\ \A n \in DOMAIN Tail(rs) : \E m \in DOMAIN rs : Tail(rs)[n] = rs[m]
         /\ Due(c, rs, Head(rs).id) = Head(rs).qty
         /\ \A id : Due(d, Tail(rs), id) = IF id = Head(rs).id THEN 0 ELSE Due(c, rs, id)
         /\ \A id : Reported(rs, id) <=> Reported(Tail(rs), id) \/ id = Head(rs).id
<1> DEFINE t == Tail(rs)
<1>1. /\ t \in Seq(Report) /\ Head(rs) = rs[1] /\ 1 \in DOMAIN rs
      /\ DOMAIN rs = 1..Len(rs) /\ DOMAIN t = 1..(Len(rs) - 1) /\ Len(rs) \in Nat \ {0}
      /\ \A n \in DOMAIN t : t[n] = rs[n + 1]
  OBVIOUS
<1> HIDE DEF t
<1>2. \A n \in DOMAIN t : n + 1 \in DOMAIN rs /\ n + 1 # 1 /\ t[n] = rs[n + 1] /\ n \in Nat
  BY <1>1
<1>3. Distinct(t)
  BY <1>1, <1>2 DEF Distinct
<1>4. \A n \in DOMAIN t : t[n].id # rs[1].id
  BY <1>1, <1>2 DEF Distinct
<1>5. ASSUME NEW n \in DOMAIN rs, n # 1
      PROVE  \E m \in DOMAIN t : t[m] = rs[n]
  <2>1. n - 1 \in DOMAIN t /\ (n - 1) + 1 = n
    BY <1>1, <1>5
  <2>2. t[n - 1] = rs[(n - 1) + 1]
    BY <1>1, <2>1
  <2> QED
    BY <2>1, <2>2
<1>6. \A id : Reported(rs, id) <=> Reported(t, id) \/ id = rs[1].id
  <2>1. ASSUME NEW id, Reported(rs, id), id # rs[1].id
        PROVE  Reported(t, id)
    BY <1>5, <2>1 DEF Reported
  <2>2. ASSUME NEW id, Reported(t, id)
        PROVE  Reported(rs, id)
    BY <1>2, <2>2 DEF Reported
  <2>3. Reported(rs, rs[1].id)
    BY <1>1 DEF Reported
  <2> QED
    BY <2>1, <2>2, <2>3
<1>7. \A n \in DOMAIN rs : Due(c, rs, rs[n].id) = rs[n].qty
  BY DueReport
<1>8. \A n \in DOMAIN t : Due(d, t, t[n].id) = t[n].qty
  BY <1>3, DueReport
<1>9. ASSUME NEW id
      PROVE  Due(d, t, id) = IF id = rs[1].id THEN 0 ELSE Due(c, rs, id)
  <2>1. CASE Reported(t, id)
    <3>1. PICK n \in DOMAIN t : t[n].id = id
      BY <2>1 DEF Reported
    <3> QED
      BY <1>2, <1>4, <1>7, <1>8, <3>1
  <2>2. CASE ~Reported(t, id)
    <3>1. Due(d, t, id) = 0
      BY <2>2 DEF Due
    <3>2. id # rs[1].id => Due(c, rs, id) = 0
      BY <1>6, <2>2 DEF Due
    <3> QED
      BY <3>1, <3>2
  <2> QED
    BY <2>1, <2>2
<1> QED
  BY <1>1, <1>2, <1>3, <1>6, <1>7, <1>9 DEF t
-----------------------------------------------------------------------------
(* Steps that change one order.                                            *)

\* One entry is replaced by one of the same order that agrees.
LEMMA OneEntryStep ==
  ASSUME TypesOK, NEW i \in DOMAIN entries, NEW f \in Entry, Same(entries[i], f),
         entries' = [entries EXCEPT ![i] = f]
  PROVE  /\ entries' \in Seq(Entry) /\ Len(entries') = Len(entries)
         /\ DOMAIN entries' = DOMAIN entries
         /\ \A id \in DOMAIN entries : /\ entries'[id] = IF id = i THEN f ELSE entries[id]
                                       /\ Same(entries[id], entries'[id])
<1>1. /\ entries' \in Seq(Entry) /\ Len(entries') = Len(entries)
      /\ DOMAIN entries' = DOMAIN entries
  BY DEF TypesOK
<1>2. \A id \in DOMAIN entries : entries'[id] = IF id = i THEN f ELSE entries[id]
  OBVIOUS
<1>3. \A id \in DOMAIN entries : Same(entries[id], entries[id])
  BY DEF Same
<1> QED
  BY <1>1, <1>2, <1>3

LEMMA ReportsStay ==
  ASSUME ReportsOK, reports' = reports, DOMAIN entries' = DOMAIN entries,
         \A id \in DOMAIN entries : Same(entries[id], entries'[id])
  PROVE  ReportsOK'
BY DEF ReportsOK, Same

\* Shares that were traded and are due are booked in OMS.
LEMMA BookStep ==
  ASSUME TypesOK, OrdersAgree, NEW i \in DOMAIN entries, NEW q \in Nat \ {0},
         q <= Due(call, reports, i),
         entries' = [entries EXCEPT ![i] = Filled(entries[i], q)],
         UNCHANGED <<resting, executed, issued>>,
         \A id \in DOMAIN entries :
           Due(call', reports', id) = Due(call, reports, id) - IF id = i THEN q ELSE 0
  PROVE  /\ TypesOK' /\ OrdersAgree' /\ DOMAIN entries' = DOMAIN entries
         /\ \A id \in DOMAIN entries : Same(entries[id], entries'[id])
<1> DEFINE f == Filled(entries[i], q)
           due(id) == Due(call, reports, id)
           after(id) == Due(call', reports', id)
           rest(id) == RestOf(resting, id)
<1>1. \A id \in DOMAIN entries : /\ Agrees(entries[id], rest(id), due(id), executed[id], issued)
                                 /\ due(id) \in Nat
  BY DEF OrdersAgree, Agrees
<1>2. Agrees(f, rest(i), due(i) - q, executed[i], issued) /\ Same(entries[i], f)
  BY <1>1, FilledAgrees
<1>3. f \in Entry
  BY <1>2 DEF Agrees
<1>4. \A id \in DOMAIN entries : after(id) = IF id = i THEN due(id) - q ELSE due(id)
  BY <1>1
<1>5. \A id : RestOf(resting', id) = rest(id)
  BY DEF RestOf
<1> HIDE DEF f, due, after, rest
<1>6. /\ entries' \in Seq(Entry) /\ Len(entries') = Len(entries)
      /\ DOMAIN entries' = DOMAIN entries
      /\ \A id \in DOMAIN entries : /\ entries'[id] = IF id = i THEN f ELSE entries[id]
                                    /\ Same(entries[id], entries'[id])
  BY <1>2, <1>3, OneEntryStep DEF f
<1>7. \A id \in DOMAIN entries : Agrees(entries'[id], rest(id), after(id), executed[id], issued)
  BY <1>1, <1>2, <1>4, <1>6
<1>8. OrdersAgree'
  BY <1>5, <1>6, <1>7 DEF OrdersAgree, after
<1> QED
  BY <1>6, <1>8 DEF TypesOK
-----------------------------------------------------------------------------
(* The actions, one by one.                                                *)

LEMMA CallTypes ==
  ASSUME CallOK
  PROVE  /\ call.at \in Ats /\ call.id \in Nat /\ call.fills \in FillSeqs
         /\ call.todo \subseteq DOMAIN entries
         /\ DOMAIN call = {"at", "id", "fills", "todo"}
BY DEF CallOK

LEMMA IdleTypes ==
  /\ Idle.at = "idle" /\ Idle.fills = <<>> /\ Idle.todo = {} /\ Idle.id = 0
  /\ ~IsBooking(Idle) /\ <<>> \in FillSeqs /\ "idle" \in Ats
BY DEF Idle, IsBooking, FillSeqs, Ats

\* Between calls nothing is due.
LEMMA QuietDue ==
  ASSUME Quiet
  PROVE  ~IsBooking(call) /\ \A id : Due(call, reports, id) = 0
<1>1. call = Idle /\ reports = <<>>
  BY DEF Quiet
<1> QED
  BY <1>1, IdleTypes, DueNone

\* A new order, with what it makes of the call and of the book.
LEMMA NewOrderStep ==
  ASSUME EngineInv, Quiet, NEW e, NEW rest, NEW done \in Nat,
         Agrees(e, rest, Due(call', reports', Len(entries) + 1), done, issued),
         entries' = Append(entries, e), executed' = Append(executed, done),
         \A id \in DOMAIN entries : Due(call', reports', id) = 0,
         UNCHANGED <<reports, issued>>,
         resting' = IF rest > 0 THEN [i \in DOMAIN resting \cup {Len(entries) + 1} |->
                                        IF i = Len(entries) + 1 THEN rest ELSE resting[i]]
                    ELSE resting,
         refs' = IF rest > 0 THEN refs \cup {Len(entries) + 1} ELSE refs
  PROVE  /\ TypesOK' /\ ReportsOK' /\ OrdersAgree' /\ RefsOK'
         /\ DOMAIN entries' = DOMAIN entries \cup {Len(entries) + 1}
<1> DEFINE new == Len(entries) + 1
           due(id) == Due(call', reports', id)
<1>1. /\ entries \in Seq(Entry) /\ executed \in Seq(Nat) /\ Len(executed) = Len(entries)
      /\ DOMAIN resting \subseteq DOMAIN entries
      /\ resting = [i \in DOMAIN resting |-> resting[i]]
      /\ \A id \in DOMAIN resting : resting[id] \in Nat \ {0}
  BY DEF EngineInv, TypesOK
<1>2. e \in Entry /\ rest \in Nat
  BY DEF Agrees
<1>3. /\ entries' \in Seq(Entry) /\ executed' \in Seq(Nat) /\ Len(executed') = Len(entries')
      /\ DOMAIN entries' = DOMAIN entries \cup {new} /\ new \notin DOMAIN entries
      /\ entries'[new] = e /\ executed'[new] = done
      /\ \A id \in DOMAIN entries : entries'[id] = entries[id] /\ executed'[id] = executed[id]
  BY <1>1, <1>2
<1> HIDE DEF new, due
<1>4. /\ resting' = [i \in DOMAIN resting' |-> resting'[i]]
      /\ DOMAIN resting' = IF rest > 0 THEN DOMAIN resting \cup {new} ELSE DOMAIN resting
      /\ \A id \in DOMAIN resting : resting'[id] = resting[id]
      /\ rest > 0 => resting'[new] = rest
  <2>1. CASE rest > 0
    <3>1. resting' = [i \in DOMAIN resting \cup {new} |-> IF i = new THEN rest ELSE resting[i]]
      BY <2>1 DEF new
    <3>2. new \notin DOMAIN resting
      BY <1>1, <1>3
    <3> QED
      BY <2>1, <3>1, <3>2
  <2>2. CASE ~(rest > 0)
    BY <1>1, <2>2
  <2> QED
    BY <2>1, <2>2
<1>5. TypesOK'
  BY <1>1, <1>2, <1>3, <1>4 DEF TypesOK
<1>6. /\ \A id \in DOMAIN entries : RestOf(resting', id) = RestOf(resting, id)
      /\ RestOf(resting', new) = rest
  BY <1>1, <1>2, <1>3, <1>4 DEF RestOf
<1>7. \A id \in DOMAIN entries : Agrees(entries[id], RestOf(resting, id), 0, executed[id], issued)
  BY QuietDue DEF EngineInv, OrdersAgree
<1>8. Agrees(e, rest, due(new), done, issued) /\ \A id \in DOMAIN entries : due(id) = 0
  BY DEF new, due
<1>9. \A id \in DOMAIN entries' :
        Agrees(entries'[id], RestOf(resting', id), due(id), executed'[id], issued)
  BY <1>3, <1>6, <1>7, <1>8
<1>10. OrdersAgree'
  BY <1>9 DEF OrdersAgree, due
<1>11. reports' = <<>> /\ reports = <<>> /\ call.at = "idle" /\ call.id = 0
  BY IdleTypes DEF Quiet
<1>12. ReportsOK'
  BY <1>11 DEF ReportsOK, Distinct
<1>13. RefsOK'
  <2>1. /\ DOMAIN resting \subseteq refs /\ refs \subseteq DOMAIN entries
        /\ \A id \in refs : id \in DOMAIN resting \/ Reported(reports, id) \/ id = 0
    BY <1>11 DEF EngineInv, RefsOK
  <2>2. refs \subseteq DOMAIN resting
    BY <1>1, <1>11, <2>1 DEF Reported
  <2>3. refs' = IF rest > 0 THEN refs \cup {new} ELSE refs
    BY DEF new
  <2> QED
    BY <1>3, <1>4, <2>1, <2>2, <2>3 DEF RefsOK
<1> QED
  BY <1>3, <1>5, <1>10, <1>12, <1>13 DEF new

\* submit_signal, refused by check_order.
LEMMA RefusedKeeps ==
  ASSUME EngineInv, Quiet, NEW s \in Symbols, NEW side \in Sides, NEW qty \in Quantities,
         NEW price \in Nat, SubmitRefused(s, side, qty, price)
  PROVE  EngineInv'
<1> DEFINE e == Rejected(Registered(s, side, price, qty))
           none == 0
<1>1. /\ entries' = Append(entries, e) /\ executed' = Append(executed, none)
      /\ UNCHANGED <<resting, refs, reports, issued, call>>
  BY DEF SubmitRefused
<1>2. \A id : Due(call', reports', id) = none
  BY <1>1, QuietDue
<1>3. qty \in Nat \ {0}
  BY QuantityTypes
<1>4. Agrees(e, none, none, none, issued) /\ none \in Nat /\ ~(none > 0)
  BY <1>3, RefusedAgrees
<1> HIDE DEF e, none
<1>5. /\ resting' = IF none > 0 THEN [i \in DOMAIN resting \cup {Len(entries) + 1} |->
                                        IF i = Len(entries) + 1 THEN none ELSE resting[i]]
                    ELSE resting
      /\ refs' = IF none > 0 THEN refs \cup {Len(entries) + 1} ELSE refs
  BY <1>1, <1>4
<1>6. \A id \in DOMAIN entries : Due(call', reports', id) = 0
  BY <1>2 DEF none
<1>7. Agrees(e, none, Due(call', reports', Len(entries) + 1), none, issued)
  BY <1>2, <1>4
<1>8. /\ TypesOK' /\ ReportsOK' /\ OrdersAgree' /\ RefsOK'
      /\ DOMAIN entries' = DOMAIN entries \cup {Len(entries) + 1}
  BY <1>1, <1>4, <1>5, <1>6, <1>7, NewOrderStep
<1>9. CallOK'
  BY <1>1, <1>8 DEF EngineInv, CallOK
<1> QED
  BY <1>8, <1>9 DEF EngineInv

\* submit_signal, sent to the exchange.
LEMMA SentKeeps ==
  ASSUME EngineInv, Quiet, NEW s \in Symbols, NEW side \in Sides, NEW type \in Types,
         NEW qty \in Quantities, NEW price \in Nat, type = "LIMIT" => price > 0,
         SubmitSent(s, side, type, qty, price)
  PROVE  EngineInv'
<1> DEFINE id == Len(entries) + 1
           o == Registered(s, side, price, qty)
<1>1. PICK fs \in FillsOf(side, type, price, qty), rests \in BOOLEAN :
        /\ Submit(id, type, qty, fs, rests)
        /\ entries' = Append(entries, IF rests \/ fs # <<>> THEN Accepted(o)
                                      ELSE Rejected(o))
        /\ call' = [at |-> IF fs = <<>> THEN "flatten" ELSE "matched",
                    id |-> id, fills |-> fs, todo |-> {}]
  BY DEF SubmitSent
<1>2. UNCHANGED <<reports, issued>>
  BY DEF SubmitSent
<1>3. /\ fs \in FillSeqs /\ TotalQty(fs) \in Nat /\ TotalQty(fs) <= qty
      /\ fs # <<>> => TotalQty(fs) > 0
      /\ qty \in Nat \ {0}
  <2>1. fs \in FillSeqs /\ TotalQty(fs) <= qty
    BY FillsOfTypes
  <2> QED
    BY <2>1, FillsTotal, QuantityTypes
<1> DEFINE total == TotalQty(fs)
           rest == IF rests THEN qty - total ELSE 0
           e == IF rests \/ fs # <<>> THEN Accepted(o) ELSE Rejected(o)
<1>4. /\ resting' = IF rests THEN [i \in DOMAIN resting \cup {id} |->
                                     IF i = id THEN qty - total ELSE resting[i]]
                    ELSE resting
      /\ refs' = IF rests THEN refs \cup {id} ELSE refs
      /\ executed' = Append(executed, total)
      /\ rests => type = "LIMIT" /\ total < qty
  BY <1>1 DEF Submit, WithRef
<1>5. /\ rest \in Nat /\ (rest > 0 <=> rests) /\ total \in Nat /\ total <= qty
      /\ rest > 0 => price > 0 /\ rest + total = qty
  BY <1>3, <1>4
<1>6. Due(call', reports', id) = total /\ \A i : i # id => Due(call', reports', i) = 0
  <2>1. CASE fs = <<>>
    <3>1. ~IsBooking(call') /\ reports' = <<>>
      BY <1>1, <1>2, <2>1 DEF IsBooking, Quiet
    <3> QED
      BY <2>1, <3>1, DueNone, TotalNone
  <2>2. CASE fs # <<>>
    <3>1. call'.at = "matched" /\ call'.id = id /\ call'.fills = fs
      BY <1>1, <2>2
    <3> QED
      BY <3>1 DEF Due, IsBooking
  <2> QED
    BY <2>1, <2>2
<1>7. Agrees(e, rest, total, total, issued)
  <2>1. CASE rests \/ fs # <<>>
    BY <1>3, <1>5, <2>1, SentAgrees
  <2>2. CASE ~(rests \/ fs # <<>>)
    <3>1. rest = 0 /\ total = 0
      BY <2>2, TotalNone
    <3> QED
      BY <1>3, <2>2, <3>1, RefusedAgrees
  <2> QED
    BY <2>1, <2>2
<1>8. entries \in Seq(Entry) /\ id \notin DOMAIN entries /\ id \in Nat
  BY DEF EngineInv, TypesOK
<1> HIDE DEF total, e, o
<1>9. entries' = Append(entries, e)
  BY <1>1 DEF e
<1>10. /\ resting' = IF rest > 0 THEN [i \in DOMAIN resting \cup {id} |->
                                        IF i = id THEN rest ELSE resting[i]]
                     ELSE resting
       /\ refs' = IF rest > 0 THEN refs \cup {id} ELSE refs
  BY <1>4, <1>5
<1> HIDE DEF rest
<1>11. /\ TypesOK' /\ ReportsOK' /\ OrdersAgree' /\ RefsOK'
       /\ DOMAIN entries' = DOMAIN entries \cup {id}
  <2>1. Agrees(e, rest, Due(call', reports', id), total, issued)
    BY <1>6, <1>7
  <2>2. \A i \in DOMAIN entries : Due(call', reports', i) = 0
    BY <1>6, <1>8
  <2> QED
    BY <1>2, <1>4, <1>5, <1>9, <1>10, <2>1, <2>2, NewOrderStep
<1>12. CallOK'
  <2>1. reports' = <<>>
    BY <1>2 DEF Quiet
  <2> HIDE DEF id
  <2>2. /\ call' \in [at : Ats, id : Nat, fills : FillSeqs, todo : SUBSET DOMAIN entries']
        /\ call'.at \in {"flatten", "matched"} /\ (call'.at = "matched" <=> fs # <<>>)
        /\ call'.id = id /\ call'.fills = fs
    BY <1>1, <1>3, <1>8 DEF Ats
  <2> QED
    BY <1>11, <2>1, <2>2 DEF CallOK, IsBooking
<1> QED
  BY <1>11, <1>12 DEF EngineInv

\* A fill of the order that was sent.
LEMMA BookActiveKeeps ==
  ASSUME EngineInv, BookActiveFill
  PROVE  EngineInv'
<1> DEFINE fs == call.fills
           q == Head(fs).qty
           i == call.id
<1>1. /\ IsBooking(call) /\ Book(i, Head(fs))
      /\ call' = [call EXCEPT !.at = IF Len(fs) = 1 THEN "flatten" ELSE "booking",
                              !.fills = Tail(@)]
      /\ UNCHANGED <<resting, refs, reports, issued, executed>>
  BY DEF BookActiveFill, IsBooking
<1>2. TypesOK /\ CallOK /\ ReportsOK /\ OrdersAgree /\ RefsOK
  BY DEF EngineInv
<1>3. i \in DOMAIN entries /\ fs # <<>> /\ reports = <<>> /\ fs \in FillSeqs
  BY <1>1, <1>2 DEF CallOK
<1>4. Shrinks(fs)
  BY <1>3, FillsTotal
<1>5. /\ call'.at = IF Len(fs) = 1 THEN "flatten" ELSE "booking"
      /\ call'.fills = Tail(fs) /\ call'.id = i /\ call'.todo = call.todo
      /\ call' \in [at : Ats, id : Nat, fills : FillSeqs, todo : SUBSET DOMAIN entries]
  <2>1. Tail(fs) \in FillSeqs
    BY <1>4 DEF Shrinks
  <2> QED
    BY <1>1, <1>2, <2>1 DEF CallOK, Ats
<1> HIDE DEF fs, q, i
<1>6. IsBooking(call') <=> Tail(fs) # <<>>
  BY <1>4, <1>5 DEF IsBooking, Shrinks
<1>7. /\ Due(call, reports, i) = TotalQty(fs)
      /\ Due(call', reports', i) = TotalQty(Tail(fs))
      /\ \A id : id # i => Due(call, reports, id) = 0 /\ Due(call', reports', id) = 0
  <2>1. /\ Due(call, reports, i) = TotalQty(fs)
        /\ \A id : id # i => Due(call, reports, id) = 0
    BY <1>1 DEF Due, fs, i
  <2>2. CASE Tail(fs) # <<>>
    BY <1>5, <1>6, <2>1, <2>2 DEF Due
  <2>3. CASE Tail(fs) = <<>>
    BY <1>1, <1>3, <1>6, <2>1, <2>3, DueNone, TotalNone
  <2> QED
    BY <2>2, <2>3
<1>8. /\ q \in Nat \ {0} /\ q <= Due(call, reports, i)
      /\ \A id \in DOMAIN entries :
           Due(call', reports', id) = Due(call, reports, id) - IF id = i THEN q ELSE 0
  BY <1>4, <1>7 DEF Shrinks, q
<1>9. entries' = [entries EXCEPT ![i] = Filled(entries[i], q)]
  BY <1>1, <1>3 DEF Book, q
<1>10. /\ TypesOK' /\ OrdersAgree' /\ DOMAIN entries' = DOMAIN entries
       /\ \A id \in DOMAIN entries : Same(entries[id], entries'[id])
  BY <1>1, <1>2, <1>3, <1>8, <1>9, BookStep
<1>11. ReportsOK'
  BY <1>1, <1>2, <1>10, ReportsStay
<1>12. RefsOK'
  BY <1>1, <1>2, <1>5, <1>10 DEF RefsOK, i, IsBooking
<1>13. CallOK'
  BY <1>1, <1>3, <1>5, <1>6, <1>10 DEF CallOK
<1> QED
  BY <1>10, <1>11, <1>12, <1>13 DEF EngineInv

\* on_order_report of a passive fill.
LEMMA ReportKeeps ==
  ASSUME EngineInv, ReportExecuted
  PROVE  /\ EngineInv' /\ DOMAIN entries' = DOMAIN entries
         /\ \A id \in DOMAIN entries : Same(entries[id], entries'[id])
<1> DEFINE r == Head(reports)
           q == r.qty
           i == r.id
<1>1. /\ call = Idle /\ reports # <<>> /\ Book(i, r) /\ reports' = Tail(reports)
      /\ call' = [Idle EXCEPT !.at = "flatten", !.id = i]
      /\ UNCHANGED <<resting, refs, issued, executed>>
  BY DEF ReportExecuted
<1>2. TypesOK /\ CallOK /\ ReportsOK /\ OrdersAgree /\ RefsOK
  BY DEF EngineInv
<1>3. /\ reports \in Seq(Report) /\ Distinct(reports)
      /\ \A n \in DOMAIN reports :
           reports[n].id \in DOMAIN entries /\ entries[reports[n].id].price > 0
  BY <1>2 DEF ReportsOK
<1>4. r = reports[1] /\ 1 \in DOMAIN reports /\ r \in Report
  BY <1>1, <1>3
<1>5. i \in DOMAIN entries /\ q \in Nat \ {0} /\ i \in Nat
  BY <1>3, <1>4 DEF Report
<1>6. /\ ~IsBooking(call) /\ ~IsBooking(call') /\ call'.at = "flatten"
      /\ call'.id = i /\ call'.fills = <<>> /\ call.id = 0
      /\ call' \in [at : Ats, id : Nat, fills : FillSeqs, todo : SUBSET DOMAIN entries]
  <2>1. call' = [at |-> "flatten", id |-> i, fills |-> <<>>, todo |-> {}]
    BY <1>1 DEF Idle
  <2> QED
    BY <1>1, <1>5, <2>1, IdleTypes DEF IsBooking, Ats
<1> HIDE DEF q, i, r
<1>7. /\ Distinct(reports') /\ reports' \in Seq(Report)
      /\ \A n \in DOMAIN reports' : \E m \in DOMAIN reports : reports'[n] = reports[m]
      /\ Due(call, reports, i) = q
      /\ \A id : Due(call', reports', id) = IF id = i THEN 0 ELSE Due(call, reports, id)
      /\ \A id : Reported(reports, id) <=> Reported(reports', id) \/ id = i
  BY <1>1, <1>3, <1>6, DueTail DEF q, i, r
<1>8. \A id \in DOMAIN entries :
        Due(call', reports', id) = Due(call, reports, id) - IF id = i THEN q ELSE 0
  <2>1. \A id \in DOMAIN entries : Due(call, reports, id) \in Nat
    BY <1>2 DEF OrdersAgree, Agrees
  <2> QED
    BY <1>5, <1>7, <2>1
<1>9. entries' = [entries EXCEPT ![i] = Filled(entries[i], q)] /\ q <= Due(call, reports, i)
  BY <1>1, <1>5, <1>7 DEF Book, q
<1>10. /\ TypesOK' /\ OrdersAgree' /\ DOMAIN entries' = DOMAIN entries
       /\ \A id \in DOMAIN entries : Same(entries[id], entries'[id])
  BY <1>1, <1>2, <1>5, <1>8, <1>9, BookStep
<1>11. ReportsOK'
  BY <1>3, <1>7, <1>10 DEF ReportsOK, Same
<1>12. RefsOK'
  <2>1. /\ DOMAIN resting \subseteq refs /\ refs \subseteq DOMAIN entries
        /\ \A id \in refs : id \in DOMAIN resting \/ Reported(reports, id) \/ id = 0
    BY <1>1, <1>2, <1>6 DEF RefsOK, Idle
  <2>2. 0 \notin DOMAIN entries
    BY <1>2 DEF TypesOK
  <2> QED
    BY <1>1, <1>6, <1>7, <1>10, <2>1, <2>2 DEF RefsOK
<1>13. CallOK'
  BY <1>6, <1>10 DEF CallOK
<1> QED
  BY <1>10, <1>11, <1>12, <1>13 DEF EngineInv

\* What every step keeps that changes nothing in OMS, in the book or in the reports.
LEMMA OrdersStay ==
  ASSUME EngineInv, UNCHANGED <<entries, resting, reports, executed>>,
         issued' = issued \/ issued' = TRUE,
         ~IsBooking(call), ~IsBooking(call')
  PROVE  TypesOK' /\ ReportsOK' /\ OrdersAgree'
<1>1. TypesOK /\ ReportsOK /\ OrdersAgree
  BY DEF EngineInv
<1>2. TypesOK' /\ ReportsOK'
  BY <1>1 DEF TypesOK, ReportsOK
<1>3. \A id : Due(call', reports', id) = Due(call, reports, id)
  BY DEF Due
<1>4. \A id \in DOMAIN entries :
        Agrees(entries[id], RestOf(resting, id), Due(call, reports, id), executed[id], issued')
  BY <1>1, FlattenedAgrees DEF OrdersAgree
<1>5. OrdersAgree'
  BY <1>3, <1>4 DEF OrdersAgree
<1> QED
  BY <1>2, <1>5

\* The end of a call.
LEMMA ReturnKeeps ==
  ASSUME EngineInv, Return, call.at \in {"flatten", "cancel"}, issued' = issued
  PROVE  EngineInv'
<1>1. /\ call' = Idle /\ refs' = Unregistered(call.id)
      /\ UNCHANGED <<entries, resting, reports, executed>>
  BY DEF Return
<1>2. ~IsBooking(call) /\ ~IsBooking(call')
  BY <1>1, IdleTypes DEF IsBooking
<1>3. TypesOK' /\ ReportsOK' /\ OrdersAgree'
  BY <1>1, <1>2, OrdersStay
<1>4. CallOK'
  BY <1>1, <1>2 DEF CallOK, Idle, Ats, FillSeqs
<1>5. RefsOK'
  BY <1>1 DEF EngineInv, RefsOK, Unregistered
<1> QED
  BY <1>3, <1>4, <1>5 DEF EngineInv

LEMMA FlattenStartKeeps ==
  ASSUME EngineInv, FlattenStart
  PROVE  EngineInv'
<1>1. /\ call.at = "flatten" /\ issued' = TRUE
      /\ call' = [call EXCEPT !.at = "cancel", !.todo = LiveIds]
      /\ UNCHANGED <<entries, resting, refs, reports, executed>>
  BY DEF FlattenStart
<1>2. LiveIds \subseteq DOMAIN entries
  BY DEF LiveIds
<1>3. CallOK
  BY DEF EngineInv
<1>4. /\ ~IsBooking(call) /\ ~IsBooking(call') /\ call'.at = "cancel" /\ call'.id = call.id
      /\ call'.fills = <<>>
      /\ call' \in [at : Ats, id : Nat, fills : FillSeqs, todo : SUBSET DOMAIN entries]
  BY <1>1, <1>2, <1>3 DEF CallOK, IsBooking, Ats
<1>5. TypesOK' /\ ReportsOK' /\ OrdersAgree'
  BY <1>1, <1>4, OrdersStay
<1>6. CallOK'
  BY <1>1, <1>4 DEF CallOK
<1>7. RefsOK'
  BY <1>1, <1>4 DEF EngineInv, RefsOK
<1> QED
  BY <1>5, <1>6, <1>7 DEF EngineInv

LEMMA CancelOrderKeeps ==
  ASSUME EngineInv, CancelOrder
  PROVE  EngineInv'
<1>1. PICK id \in LiveIds : call' = [Idle EXCEPT !.at = "cancel", !.todo = {id}]
  BY DEF CancelOrder
<1>2. UNCHANGED <<entries, resting, refs, reports, issued, executed>> /\ Quiet
  BY DEF CancelOrder
<1>3. id \in DOMAIN entries /\ call = Idle /\ reports = <<>>
  BY <1>2 DEF LiveIds, Quiet
<1>4. /\ ~IsBooking(call) /\ ~IsBooking(call') /\ call'.at = "cancel" /\ call'.id = call.id
      /\ call'.fills = <<>> /\ call.at = "idle"
      /\ call' \in [at : Ats, id : Nat, fills : FillSeqs, todo : SUBSET DOMAIN entries]
  <2>1. call' = [at |-> "cancel", id |-> 0, fills |-> <<>>, todo |-> {id}]
    BY <1>1 DEF Idle
  <2> QED
    BY <1>1, <1>3, <2>1, IdleTypes DEF IsBooking, Ats
<1>5. TypesOK' /\ ReportsOK' /\ OrdersAgree'
  BY <1>2, <1>4, OrdersStay
<1>6. CallOK'
  BY <1>2, <1>3, <1>4 DEF CallOK
<1>7. RefsOK'
  BY <1>2, <1>4 DEF EngineInv, RefsOK
<1> QED
  BY <1>5, <1>6, <1>7 DEF EngineInv

\* No order is another one, and nothing is booked.
SameFills ==
  \A id \in DOMAIN entries : /\ Same(entries[id], entries'[id])
                             /\ entries'[id].filled = entries[id].filled

\* request_cancel of an order, and what the exchange makes of it.
LEMMA CancelStep ==
  ASSUME EngineInv, call.at = "cancel", NEW i \in DOMAIN entries,
         entries' = [entries EXCEPT ![i] = CancelRequested(entries[i])],
         UNCHANGED <<reports, issued, executed>>,
         (resting' = resting /\ i \notin DOMAIN resting) \/ resting' = Drop(resting, i),
         ~IsBooking(call')
  PROVE  /\ TypesOK' /\ ReportsOK' /\ OrdersAgree'
         /\ DOMAIN entries' = DOMAIN entries /\ SameFills
<1> DEFINE f == CancelRequested(entries[i])
           due(id) == Due(call, reports, id)
<1>1. TypesOK /\ CallOK /\ ReportsOK /\ OrdersAgree
  BY DEF EngineInv
<1>2. ~IsBooking(call) /\ (reports # <<>> => issued)
  BY <1>1 DEF IsBooking, CallOK
<1>3. \A id : Due(call', reports', id) = due(id)
  BY <1>2 DEF Due
<1>4. Agrees(entries[i], RestOf(resting, i), due(i), executed[i], issued)
  BY <1>1 DEF OrdersAgree
\* A fill of an order with a limit is still to be booked only if there are reports.
<1>5. entries[i].price = 0 \/ ~issued => due(i) = 0
  <2>1. CASE Reported(reports, i)
    <3>1. entries[i].price > 0
      BY <1>1, <2>1 DEF ReportsOK, Reported
    <3>2. reports # <<>>
      BY <2>1 DEF Reported
    <3> QED
      BY <1>2, <3>1, <3>2
  <2>2. CASE ~Reported(reports, i)
    BY <1>2, <2>2 DEF Due
  <2> QED
    BY <2>1, <2>2
<1> HIDE DEF f, due
<1>6. Agrees(f, 0, due(i), executed[i], issued) /\ Same(entries[i], f)
      /\ f.filled = entries[i].filled
  BY <1>4, <1>5, CancelAgrees DEF f
<1>7. f \in Entry
  BY <1>6 DEF Agrees
<1>8. /\ entries' \in Seq(Entry) /\ Len(entries') = Len(entries)
      /\ DOMAIN entries' = DOMAIN entries
      /\ \A id \in DOMAIN entries : /\ entries'[id] = IF id = i THEN f ELSE entries[id]
                                    /\ Same(entries[id], entries'[id])
  BY <1>1, <1>6, <1>7, OneEntryStep DEF f
<1>9. /\ resting' = [id \in DOMAIN resting' |-> resting'[id]]
      /\ DOMAIN resting' = DOMAIN resting \ {i}
      /\ \A id \in DOMAIN resting' : resting'[id] = resting[id]
  BY <1>1 DEF Drop, TypesOK
<1>10. TypesOK'
  BY <1>1, <1>8, <1>9 DEF TypesOK
<1>11. RestOf(resting', i) = 0 /\ \A id : id # i => RestOf(resting', id) = RestOf(resting, id)
  BY <1>9 DEF RestOf
<1>12. \A id \in DOMAIN entries :
         Agrees(entries[id], RestOf(resting, id), due(id), executed[id], issued)
  BY <1>1 DEF OrdersAgree, due
<1>13. \A id \in DOMAIN entries :
         Agrees(entries'[id], RestOf(resting', id), due(id), executed[id], issued)
  BY <1>6, <1>8, <1>11, <1>12
<1>14. OrdersAgree'
  BY <1>3, <1>8, <1>13 DEF OrdersAgree
<1>15. ReportsOK'
  BY <1>1, <1>8, ReportsStay
<1>16. SameFills
  <2>1. \A id \in DOMAIN entries : entries'[id].filled = entries[id].filled
    BY <1>6, <1>8
  <2> QED
    BY <1>8, <2>1 DEF SameFills
<1> QED
  BY <1>16, <1>8, <1>10, <1>14, <1>15

LEMMA CancelUnknownKeeps ==
  ASSUME EngineInv, CancelUnknown
  PROVE  /\ EngineInv' /\ DOMAIN entries' = DOMAIN entries /\ SameFills
         /\ call'.fills = call.fills /\ ~IsBooking(call')
<1>1. PICK id \in call.todo \ DOMAIN resting :
        /\ entries' = [entries EXCEPT ![id] = CancelRequested(@)]
        /\ call' = [call EXCEPT !.todo = @ \ {id}]
  BY DEF CancelUnknown
<1>2. call.at = "cancel" /\ UNCHANGED <<resting, refs, reports, issued, executed>>
  BY DEF CancelUnknown
<1>3. CallOK
  BY DEF EngineInv
<1>4. id \in DOMAIN entries
  BY <1>3 DEF CallOK
<1>5. /\ ~IsBooking(call') /\ call'.at = "cancel" /\ call'.id = call.id /\ call'.fills = <<>>
      /\ call' \in [at : Ats, id : Nat, fills : FillSeqs, todo : SUBSET DOMAIN entries]
  BY <1>1, <1>2, <1>3 DEF CallOK, IsBooking
<1>6. entries' = [entries EXCEPT ![id] = CancelRequested(entries[id])]
  BY <1>1, <1>4
<1>7. /\ TypesOK' /\ ReportsOK' /\ OrdersAgree'
      /\ DOMAIN entries' = DOMAIN entries /\ SameFills
  BY <1>2, <1>4, <1>5, <1>6, CancelStep
<1>8. CallOK'
  BY <1>2, <1>3, <1>5, <1>7 DEF CallOK
<1>9. RefsOK'
  BY <1>2, <1>5, <1>7 DEF EngineInv, RefsOK
<1>10. call.fills = <<>>
  BY <1>2, <1>3 DEF CallOK, IsBooking
<1> QED
  BY <1>5, <1>10, <1>7, <1>8, <1>9 DEF EngineInv

LEMMA CancelRestingKeeps ==
  ASSUME EngineInv, CancelResting
  PROVE  /\ EngineInv' /\ DOMAIN entries' = DOMAIN entries /\ SameFills
         /\ call'.fills = call.fills /\ ~IsBooking(call')
<1>1. PICK id \in call.todo \cap DOMAIN resting :
        /\ entries' = [entries EXCEPT ![id] = CancelRequested(@)]
        /\ resting' = Drop(resting, id)
        /\ refs' = refs \ {id}
        /\ call' = [call EXCEPT !.at = "blocked", !.id = id]
  BY DEF CancelResting
<1>2. call.at = "cancel" /\ UNCHANGED <<reports, issued, executed>>
  BY DEF CancelResting
<1>3. CallOK /\ RefsOK /\ TypesOK
  BY DEF EngineInv
<1>4. id \in DOMAIN entries /\ id \in Nat
  BY <1>3 DEF CallOK, TypesOK
<1>5. /\ ~IsBooking(call') /\ call'.at = "blocked" /\ call'.fills = <<>>
      /\ call' \in [at : Ats, id : Nat, fills : FillSeqs, todo : SUBSET DOMAIN entries]
  BY <1>1, <1>2, <1>3, <1>4 DEF CallOK, IsBooking, Ats
<1>6. entries' = [entries EXCEPT ![id] = CancelRequested(entries[id])]
  BY <1>1, <1>4
<1>7. /\ TypesOK' /\ ReportsOK' /\ OrdersAgree'
      /\ DOMAIN entries' = DOMAIN entries /\ SameFills
  BY <1>1, <1>2, <1>4, <1>5, <1>6, CancelStep
<1>8. CallOK'
  BY <1>5, <1>7 DEF CallOK
<1>9. RefsOK'
  BY <1>1, <1>3, <1>5, <1>7 DEF RefsOK, Drop
<1>10. call.fills = <<>>
  BY <1>2, <1>3 DEF CallOK, IsBooking
<1> QED
  BY <1>5, <1>10, <1>7, <1>8, <1>9 DEF EngineInv

\* What a market order does to one resting order: t shares of it are traded.
Traded(i, t) ==
  /\ t \in Nat /\ t <= RestOf(resting, i)
  /\ RestOf(resting', i) = RestOf(resting, i) - t
  /\ executed'[i] = executed[i] + t
  /\ Due(call', reports', i) = t

\* The trades of a market order, before the first of its reports.
LEMMA MarketOrderKeeps ==
  ASSUME EngineInv, MarketOrder
  PROVE  EngineInv'
<1>1. /\ TypesOK /\ CallOK /\ ReportsOK /\ OrdersAgree /\ RefsOK
      /\ Quiet /\ UNCHANGED <<entries, refs, issued, call>>
  BY DEF EngineInv, MarketOrder
<1>2. /\ entries \in Seq(Entry) /\ executed \in Seq(Nat) /\ Len(executed) = Len(entries)
      /\ resting = [i \in DOMAIN resting |-> resting[i]]
      /\ DOMAIN resting \subseteq DOMAIN entries
      /\ \A id \in DOMAIN resting : resting[id] \in Nat \ {0}
  BY <1>1 DEF TypesOK
<1>3. PICK ids \in SeqOf(DOMAIN resting, Cardinality(DOMAIN resting)) \ {<<>>} :
        /\ IsInjective(ids)
        /\ \E last \in 1..resting[Last(ids)] :
             LET traded == [i \in Range(ids) |-> IF i = Last(ids) THEN last ELSE resting[i]]
                 left == [i \in DOMAIN resting |->
                            resting[i] - IF i \in Range(ids) THEN traded[i] ELSE 0]
             IN  /\ resting' = StillResting(left)
                 /\ executed' = [i \in DOMAIN executed |->
                                   executed[i] + IF i \in Range(ids) THEN traded[i] ELSE 0]
                 /\ reports' = [n \in DOMAIN ids |->
                      [id |-> ids[n], qty |-> traded[ids[n]], price |-> entries[ids[n]].price]]
  BY DEF MarketOrder
<1>4. PICK last \in 1..resting[Last(ids)] :
        LET traded == [i \in Range(ids) |-> IF i = Last(ids) THEN last ELSE resting[i]]
            left == [i \in DOMAIN resting |->
                       resting[i] - IF i \in Range(ids) THEN traded[i] ELSE 0]
        IN  /\ resting' = StillResting(left)
            /\ executed' = [i \in DOMAIN executed |->
                              executed[i] + IF i \in Range(ids) THEN traded[i] ELSE 0]
            /\ reports' = [n \in DOMAIN ids |->
                 [id |-> ids[n], qty |-> traded[ids[n]], price |-> entries[ids[n]].price]]
  BY <1>3
<1> DEFINE S == Range(ids)
           traded == [i \in S |-> IF i = Last(ids) THEN last ELSE resting[i]]
           t(i) == IF i \in S THEN traded[i] ELSE 0
           left == [i \in DOMAIN resting |-> resting[i] - t(i)]
<1>5. /\ ids \in Seq(DOMAIN resting) /\ DOMAIN ids = 1..Len(ids) /\ Len(ids) \in Nat
      /\ \A n \in DOMAIN ids : ids[n] \in DOMAIN resting
      /\ \A m, n \in DOMAIN ids : ids[m] = ids[n] => m = n
      /\ Last(ids) \in DOMAIN resting
  <2>1. PICK m \in 0..Cardinality(DOMAIN resting) : ids \in [1..m -> DOMAIN resting]
    BY DEF SeqOf
  <2>2. m \in Nat
    <3>1. IsFiniteSet(DOMAIN entries)
      <4>1. DOMAIN entries = 1..Len(entries) /\ Len(entries) \in Nat
        BY <1>2
      <4> QED
        BY <4>1, FS_Interval
    <3>2. Cardinality(DOMAIN resting) \in Nat
      BY <1>2, <3>1, FS_Subset, FS_CardinalityType
    <3> QED
      BY <3>2
  <2>3. /\ ids \in Seq(DOMAIN resting) /\ Len(ids) = m /\ DOMAIN ids = 1..m
        /\ \A n \in DOMAIN ids : ids[n] \in DOMAIN resting
    BY <2>1, <2>2
  <2>4. m \in DOMAIN ids
    BY <2>2, <2>3
  <2>5. \A k, n \in DOMAIN ids : ids[k] = ids[n] => k = n
    BY <1>3 DEF IsInjective
  <2> QED
    BY <2>2, <2>3, <2>4, <2>5 DEF Last
<1>6. S = {ids[n] : n \in DOMAIN ids} /\ S \subseteq DOMAIN resting
  BY <1>5 DEF Range
<1>7. \A i \in S : traded[i] \in Nat \ {0} /\ traded[i] <= resting[i]
  <2>1. resting[Last(ids)] \in Nat \ {0}
    BY <1>2, <1>5
  <2>2. last \in Nat \ {0} /\ last <= resting[Last(ids)]
    BY <2>1
  <2> QED
    BY <1>2, <1>6, <2>2
<1>8. /\ resting' = StillResting(left)
      /\ executed' = [i \in DOMAIN executed |-> executed[i] + t(i)]
      /\ reports' = [n \in DOMAIN ids |->
           [id |-> ids[n], qty |-> traded[ids[n]], price |-> entries[ids[n]].price]]
  BY <1>4
<1> HIDE DEF S, traded
<1>9. \A i \in DOMAIN resting : t(i) \in Nat /\ t(i) <= resting[i] /\ left[i] = resting[i] - t(i)
  BY <1>2, <1>7
<1>10. \A i : i \notin DOMAIN resting => t(i) = 0
  BY <1>6
<1> HIDE DEF t, left
<1>11. /\ DOMAIN left = DOMAIN resting
       /\ resting' = [i \in {j \in DOMAIN left : left[j] > 0} |-> left[i]]
  BY <1>8 DEF StillResting, left
<1>12. /\ DOMAIN resting' = {j \in DOMAIN resting : left[j] > 0}
       /\ \A i \in DOMAIN resting' : resting'[i] = left[i]
       /\ resting' = [i \in DOMAIN resting' |-> resting'[i]]
  BY <1>11
<1>13. executed' \in Seq(Nat) /\ Len(executed') = Len(entries)
  <2>1. ASSUME NEW i \in DOMAIN executed
        PROVE  executed[i] + t(i) \in Nat
    <3>1. executed[i] \in Nat
      BY <1>2
    <3>2. t(i) \in Nat
      BY <1>9, <1>10
    <3> QED
      BY <3>1, <3>2
  <2>2. /\ DOMAIN executed = 1..Len(executed) /\ Len(executed) \in Nat
        /\ executed' = [i \in 1..Len(executed) |-> executed[i] + t(i)]
    BY <1>2, <1>8
  <2> QED
    BY <1>2, <2>1, <2>2
<1>14. TypesOK'
  <2>1. ASSUME NEW i \in DOMAIN resting'
        PROVE  resting'[i] \in Nat \ {0}
    <3>1. i \in DOMAIN resting /\ left[i] > 0 /\ resting'[i] = left[i]
      BY <1>12
    <3>2. left[i] = resting[i] - t(i) /\ t(i) \in Nat /\ resting[i] \in Nat
      BY <1>2, <1>9, <3>1
    <3> QED
      BY <3>1, <3>2
  <2>2. DOMAIN resting' \subseteq DOMAIN entries
    BY <1>2, <1>12
  <2> QED
    BY <1>1, <1>2, <1>12, <1>13, <2>1, <2>2, SMTT(30) DEF TypesOK
<1>15. ~IsBooking(call) /\ ~IsBooking(call') /\ call.at = "idle"
  BY <1>1, QuietDue DEF Quiet, Idle
<1>16. \A n \in DOMAIN ids : /\ reports'[n].id = ids[n] /\ reports'[n].qty = traded[ids[n]]
                             /\ reports'[n].price = entries[ids[n]].price
  BY <1>8
<1>17. DOMAIN reports' = DOMAIN ids /\ Distinct(reports')
  BY <1>5, <1>8, <1>16 DEF Distinct
<1>18. \A i \in DOMAIN entries : Agrees(entries[i], RestOf(resting, i), 0, executed[i], issued)
  BY <1>1, QuietDue DEF OrdersAgree
<1>19. ReportsOK'
  <2>1. \A n \in DOMAIN ids : /\ ids[n] \in DOMAIN entries /\ ids[n] \in Nat
                              /\ entries[ids[n]].price \in Nat \ {0}
    <3> SUFFICES ASSUME NEW n \in DOMAIN ids
                 PROVE  /\ ids[n] \in DOMAIN entries /\ ids[n] \in Nat
                        /\ entries[ids[n]].price \in Nat \ {0}
      OBVIOUS
    <3>1. ids[n] \in DOMAIN entries /\ ids[n] \in Nat /\ RestOf(resting, ids[n]) > 0
      <4>1. ids[n] \in DOMAIN resting
        BY <1>5
      <4>2. ids[n] \in DOMAIN entries /\ resting[ids[n]] \in Nat \ {0}
        BY <1>2, <4>1
      <4>3. DOMAIN entries = 1..Len(entries) /\ Len(entries) \in Nat
        BY <1>2
      <4>4. ids[n] \in Nat
        BY <4>2, <4>3
      <4> QED
        BY <4>1, <4>2, <4>4 DEF RestOf
    <3>2. Agrees(entries[ids[n]], RestOf(resting, ids[n]), 0, executed[ids[n]], issued)
      BY <1>18, <3>1
    <3> QED
      BY <3>1, <3>2, EntryTypes DEF Agrees
  <2>2. \A n \in DOMAIN ids : traded[ids[n]] \in Nat \ {0}
    BY <1>6, <1>7
  <2>3. \A n \in DOMAIN ids : reports'[n] \in Report
    BY <1>8, <2>1, <2>2 DEF Report
  <2>4. reports' \in Seq(Report)
    BY <1>5, <1>8, <2>3
  <2> QED
    BY <1>1, <1>16, <1>17, <2>1, <2>4 DEF ReportsOK
<1>20. \A i \in DOMAIN entries : Traded(i, t(i))
  <2> SUFFICES ASSUME NEW i \in DOMAIN entries
               PROVE  Traded(i, t(i))
    OBVIOUS
  <2>1. /\ t(i) \in Nat /\ t(i) <= RestOf(resting, i)
        /\ RestOf(resting', i) = RestOf(resting, i) - t(i)
    <3>1. CASE i \in DOMAIN resting
      <4>1. /\ resting[i] \in Nat /\ t(i) \in Nat /\ t(i) <= resting[i]
            /\ left[i] = resting[i] - t(i) /\ RestOf(resting, i) = resting[i]
        BY <1>2, <1>9, <3>1 DEF RestOf
      <4>2. CASE left[i] > 0
        <5>1. RestOf(resting', i) = left[i]
          BY <1>12, <3>1, <4>2 DEF RestOf
        <5> QED
          BY <4>1, <5>1
      <4>3. CASE ~(left[i] > 0)
        <5>1. RestOf(resting', i) = 0
          BY <1>12, <4>3 DEF RestOf
        <5> QED
          BY <4>1, <4>3, <5>1
      <4> QED
        BY <4>2, <4>3
    <3>2. CASE i \notin DOMAIN resting
      <4>1. t(i) = 0 /\ RestOf(resting, i) = 0 /\ RestOf(resting', i) = 0
        BY <1>10, <1>12, <3>2 DEF RestOf
      <4> QED
        BY <4>1
    <3> QED
      BY <3>1, <3>2
  <2>2. executed'[i] = executed[i] + t(i)
    BY <1>2, <1>8
  <2>3. CASE i \in S
    <3>1. PICK n \in DOMAIN ids : ids[n] = i
      BY <1>6, <2>3
    <3>2. Due(call', reports', reports'[n].id) = reports'[n].qty
      BY <1>15, <1>17, DueReport
    <3>3. t(i) = traded[i]
      BY <2>3 DEF t
    <3> QED
      BY <1>16, <2>1, <2>2, <3>1, <3>2, <3>3 DEF Traded
  <2>4. CASE i \notin S
    <3>1. ~Reported(reports', i)
      BY <1>6, <1>16, <1>17, <2>4 DEF Reported
    <3>2. t(i) = 0
      BY <2>4 DEF t
    <3> QED
      BY <1>15, <2>1, <2>2, <3>1, <3>2 DEF Traded, Due
  <2> QED
    BY <2>3, <2>4
<1>21. \A i \in DOMAIN entries :
         Agrees(entries[i], RestOf(resting', i), Due(call', reports', i), executed'[i], issued)
  <2> SUFFICES ASSUME NEW i \in DOMAIN entries
               PROVE  Agrees(entries[i], RestOf(resting', i), Due(call', reports', i),
                             executed'[i], issued)
    OBVIOUS
  <2>1. Traded(i, t(i))
    BY <1>20
  <2>2. Agrees(entries[i], RestOf(resting, i), 0, executed[i], issued)
    BY <1>18
  <2>3. Agrees(entries[i], RestOf(resting, i) - t(i), t(i), executed[i] + t(i), issued)
    BY <2>1, <2>2, TradedAgrees DEF Traded
  <2> QED
    BY <2>1, <2>3 DEF Traded
<1>22. OrdersAgree'
  BY <1>1, <1>21 DEF OrdersAgree
<1>23. RefsOK'
  <2>1. \A id \in refs : id \in DOMAIN resting
    BY <1>1, <1>2 DEF RefsOK, Quiet, Idle, Reported
  <2>2. ASSUME NEW id \in DOMAIN resting, id \notin DOMAIN resting'
        PROVE  Reported(reports', id)
    <3>1. t(id) # 0
      BY <1>2, <1>9, <1>12, <2>2
    <3>2. PICK n \in DOMAIN ids : ids[n] = id
      BY <1>6, <3>1 DEF t
    <3> QED
      BY <1>16, <1>17, <3>2 DEF Reported
  <2> QED
    BY <1>1, <1>12, <2>1, <2>2 DEF RefsOK
<1>24. CallOK'
  BY <1>1, <1>15 DEF CallOK
<1> QED
  BY <1>14, <1>19, <1>22, <1>23, <1>24 DEF EngineInv
-----------------------------------------------------------------------------
(* The theorems about orders.                                              *)

LEMMA NextKeeps ==
  ASSUME EngineInv, TradingNext
  PROVE  EngineInv'
<1>1. CASE SubmitSignal
  <2>1. PICK s \in Symbols, side \in Sides, type \in Types, qty \in Quantities, p \in Prices :
          LET price == IF type = "LIMIT" THEN p ELSE 0
          IN  SubmitRefused(s, side, qty, price) \/ SubmitSent(s, side, type, qty, price)
    BY <1>1 DEF SubmitSignal
  <2> DEFINE price == IF type = "LIMIT" THEN p ELSE 0
  <2>2. price \in Nat /\ (type = "LIMIT" => price > 0)
    BY QuantityTypes
  <2>3. SubmitRefused(s, side, qty, price) \/ SubmitSent(s, side, type, qty, price)
    BY <2>1
  <2>4. Quiet
    BY <1>1 DEF SubmitSignal
  <2> HIDE DEF price
  <2> QED
    BY <2>2, <2>3, <2>4, RefusedKeeps, SentKeeps
<1>2. CASE MarkPrice
  BY <1>2 DEF MarkPrice, EngineInv, TypesOK, CallOK, ReportsOK, OrdersAgree, RefsOK
<1>3. CASE FlattenNot \/ CancelsDone
  BY <1>3, ReturnKeeps DEF FlattenNot, CancelsDone
<1> QED
  BY <1>1, <1>2, <1>3, MarketOrderKeeps, CancelOrderKeeps, BookActiveKeeps, ReportKeeps,
     FlattenStartKeeps, CancelUnknownKeeps, CancelRestingKeeps DEF TradingNext, Continue

LEMMA InitAgrees == TradingInit => EngineInv
<1> SUFFICES ASSUME TradingInit PROVE EngineInv
  OBVIOUS
<1>1. /\ entries = <<>> /\ executed = <<>> /\ reports = <<>> /\ refs = {}
      /\ resting = [i \in {} |-> 0] /\ call = Idle
  BY DEF TradingInit
<1>2. TypesOK
  BY <1>1 DEF TypesOK
<1>3. CallOK
  <2>1. Idle = [at |-> "idle", id |-> 0, fills |-> <<>>, todo |-> {}]
    BY DEF Idle
  <2> QED
    BY <1>1, <2>1, IdleTypes DEF CallOK
<1> QED
  BY <1>1, <1>2, <1>3 DEF EngineInv, ReportsOK, Distinct, OrdersAgree, RefsOK

\* The calls of execution_engine.h keep OMS, the exchange's book, its registry and the
\* fills on their way in agreement.
THEOREM EngineInvariant == TradingSpec => []EngineInv
<1>1. EngineInv /\ [TradingNext]_vars => EngineInv'
  <2>1. EngineInv /\ UNCHANGED vars => EngineInv'
    BY DEF vars, EngineInv, TypesOK, CallOK, ReportsOK, OrdersAgree, RefsOK
  <2> QED
    BY <2>1, NextKeeps
<1> QED
  BY <1>1, InitAgrees, PTL DEF TradingSpec

\* RestingAgrees for every instance: between calls the registry (strategy_refs_) holds
\* exactly the orders that rest, and OMS has the remainder the book has.
THEOREM RestingAlwaysAgrees == TradingSpec => []RestingAgrees
<1>1. EngineInv => RestingAgrees
  <2> SUFFICES ASSUME EngineInv, Quiet
               PROVE  /\ refs = DOMAIN resting
                      /\ \A id \in DOMAIN resting :
                           /\ Live(entries[id])
                           /\ entries[id].qty - entries[id].filled = resting[id]
    BY DEF RestingAgrees
  <2>1. call = Idle /\ reports = <<>>
    BY DEF Quiet
  <2>2. refs = DOMAIN resting
    <3>1. 0 \notin DOMAIN entries
      BY DEF EngineInv, TypesOK
    <3>2. call.at # "blocked" /\ call.id = 0
      BY <2>1, IdleTypes
    <3>3. \A id : ~Reported(reports, id)
      BY <2>1 DEF Reported
    <3>4. RefsOK
      BY DEF EngineInv
    <3> QED
      BY <3>1, <3>2, <3>3, <3>4 DEF RefsOK
  <2>3. ASSUME NEW id \in DOMAIN resting
        PROVE  /\ Live(entries[id])
               /\ entries[id].qty - entries[id].filled = resting[id]
    <3>1. id \in DOMAIN entries /\ resting[id] \in Nat \ {0} /\ RestOf(resting, id) = resting[id]
      BY DEF EngineInv, TypesOK, RestOf
    <3>2. Agrees(entries[id], resting[id], 0, executed[id], issued)
      BY <3>1, QuietDue DEF EngineInv, OrdersAgree
    <3> QED
      BY <3>1, <3>2 DEF Agrees
  <2> QED
    BY <2>2, <2>3
<1> QED
  BY <1>1, EngineInvariant, PTL

\* PendingFillsFit for every instance: on_fill never has to clamp what it is told.
THEOREM PendingAlwaysFits == TradingSpec => []PendingFillsFit
<1>1. EngineInv => PendingFillsFit
  <2> SUFFICES ASSUME EngineInv PROVE PendingFillsFit
    OBVIOUS
  <2>1. \A id \in DOMAIN entries :
          Due(call, reports, id) <= entries[id].qty - entries[id].filled
    BY EntryTypes DEF EngineInv, OrdersAgree, Agrees
  <2>2. ASSUME IsBooking(call)
        PROVE  TotalQty(call.fills) <= entries[call.id].qty - entries[call.id].filled
    <3>1. call.id \in DOMAIN entries
      BY <2>2 DEF EngineInv, CallOK
    <3>2. Due(call, reports, call.id) = TotalQty(call.fills)
      BY <2>2 DEF Due
    <3> QED
      BY <2>1, <3>1, <3>2
  <2>3. ASSUME NEW n \in DOMAIN reports
        PROVE  reports[n].qty <= entries[reports[n].id].qty - entries[reports[n].id].filled
    <3>1. ~IsBooking(call)
      BY <2>3 DEF EngineInv, CallOK
    <3>2. reports[n].id \in DOMAIN entries /\ Distinct(reports)
      BY DEF EngineInv, ReportsOK
    <3>3. Due(call, reports, reports[n].id) = reports[n].qty
      BY <3>1, <3>2, DueReport
    <3> QED
      BY <2>1, <3>2, <3>3
  <2> QED
    BY <2>2, <2>3 DEF PendingFillsFit, IsBooking
<1> QED
  BY <1>1, EngineInvariant, PTL

\* FillsReachOmsUnlessFlattened for every instance: a fill is lost only to a flatten
\* that was issued while orders with a limit rested.
THEOREM FillsAlwaysReachOms == TradingSpec => []FillsReachOmsUnlessFlattened
<1>1. EngineInv => FillsReachOmsUnlessFlattened
  <2> SUFFICES ASSUME EngineInv, MarketOnly \/ ~issued, Quiet, NEW id \in DOMAIN entries
               PROVE  entries[id].filled = executed[id]
    BY DEF FillsReachOmsUnlessFlattened, FillsReachOms
  <2>1. Agrees(entries[id], RestOf(resting, id), 0, executed[id], issued)
    BY QuietDue DEF EngineInv, OrdersAgree
  <2>2. entries[id].price = 0 \/ ~issued
    BY DEF MarketOnly
  <2> QED
    BY <2>1, <2>2, EntryTypes DEF Agrees
<1> QED
  BY <1>1, EngineInvariant, PTL
-----------------------------------------------------------------------------
(* The risk manager.                                                       *)

\* What the positions, their costs and the realised profit of two states have in common.
SameBooks(r, u) == u.qty = r.qty /\ u.avg = r.avg /\ u.realized = r.realized

LEMMA UpdateEquityKeeps ==
  ASSUME NEW r, RiskOK(r)
  PROVE  RiskOK(RM!UpdateEquity(r)) /\ SameBooks(r, RM!UpdateEquity(r))
<1> DEFINE equity == RM!Equity(r)
           u == [r EXCEPT !.peak = equity]
<1>1. RM!UpdateEquity(r) = u \/ RM!UpdateEquity(r) = r
  BY DEF RM!UpdateEquity
<1> HIDE DEF equity
<1>2. DOMAIN u = DOMAIN r /\ SameBooks(r, u) /\ SameBooks(r, r)
  BY DEF RiskOK, SameBooks
<1> HIDE DEF u
<1>3. RiskOK(u)
  BY <1>2 DEF RiskOK, SameBooks
<1> QED
  BY <1>1, <1>2, <1>3

LEMMA MarkKeeps ==
  ASSUME NEW r, RiskOK(r), NEW s, NEW price
  PROVE  RiskOK(RM!Mark(r, s, price)) /\ SameBooks(r, RM!Mark(r, s, price))
<1> DEFINE u == [r EXCEPT !.mark[s] = price]
<1>1. DOMAIN u = DOMAIN r /\ SameBooks(r, u)
  BY DEF RiskOK, SameBooks
<1>2. RM!Mark(r, s, price) = RM!UpdateEquity(u)
  BY DEF RM!Mark
<1> HIDE DEF u
<1>3. RiskOK(u)
  BY <1>1 DEF RiskOK, SameBooks
<1> QED
  BY <1>1, <1>2, <1>3, UpdateEquityKeeps DEF SameBooks

\* A position of s is changed.
Moves(r, b, s, qty, realized) ==
  /\ RiskOK(b)
  /\ b.qty[s] = qty /\ b.realized = realized
  /\ \A t \in Symbols \ {s} : b.qty[t] = r.qty[t] /\ b.avg[t] = r.avg[t]

LEMMA MovesIs ==
  ASSUME NEW r, RiskOK(r), NEW s \in Symbols, NEW qty \in Nat, NEW avg \in Nat,
         NEW realized \in Int, NEW u,
         DOMAIN u = DOMAIN r, u.realized = realized,
         u.qty = [r.qty EXCEPT ![s] = qty], u.avg = [r.avg EXCEPT ![s] = avg]
  PROVE  /\ Moves(r, RM!UpdateEquity(u), s, qty, realized)
         /\ RM!UpdateEquity(u).avg[s] = avg
<1>1. RiskOK(u)
  BY DEF RiskOK
<1>2. RiskOK(RM!UpdateEquity(u)) /\ SameBooks(u, RM!UpdateEquity(u))
  BY <1>1, UpdateEquityKeeps
<1> QED
  BY <1>2 DEF SameBooks, Moves, RiskOK

LEMMA RiskTypes ==
  ASSUME NEW r, RiskOK(r), NEW s \in Symbols
  PROVE  r.qty[s] \in Nat /\ r.avg[s] \in Nat /\ r.realized \in Int
BY DEF RiskOK

\* on_fill of a BUY: the cost grows by what was paid, less than a cent per share held
\* less of it.
Buys(r, b, s, price, n) ==
  LET held == r.qty[s] + n
      paid == r.qty[s] * r.avg[s] + price * n
  IN  /\ Moves(r, b, s, held, r.realized)
      /\ b.qty[s] * b.avg[s] \in (paid - held)..paid

LEMMA BoughtMoves ==
  ASSUME NEW r, RiskOK(r), NEW s \in Symbols, NEW price \in Nat, NEW n \in Nat \ {0}
  PROVE  Buys(r, RM!Bought(r, s, price, n), s, price, n)
<1> DEFINE held == r.qty[s] + n
           paid == r.avg[s] * r.qty[s] + price * n
           avg == paid \div held
           u == [r EXCEPT !.qty[s] = held, !.avg[s] = avg]
           b == RM!UpdateEquity(u)
<1>1. r.qty[s] \in Nat /\ r.avg[s] \in Nat /\ r.realized \in Int
  BY RiskTypes
<1>2. held \in Nat \ {0} /\ paid \in Nat
  BY <1>1
<1>3. RM!Bought(r, s, price, n) = b
  BY DEF RM!Bought, RM!AverageCost
<1> HIDE DEF held, paid
<1>4. paid % held \in 0..(held - 1) /\ paid = held * avg + (paid % held) /\ avg \in Nat
  BY <1>2, Euclid
<1> HIDE DEF avg
<1>5. /\ DOMAIN u = DOMAIN r /\ u.realized = r.realized
      /\ u.qty = [r.qty EXCEPT ![s] = held] /\ u.avg = [r.avg EXCEPT ![s] = avg]
  BY DEF RiskOK
<1> HIDE DEF u
<1>6. Moves(r, b, s, held, r.realized) /\ b.avg[s] = avg
  <2>1. held \in Nat /\ avg \in Nat /\ r.realized \in Int
    BY <1>1, <1>2, <1>4
  <2> QED
    BY <1>5, <2>1, MovesIs
<1>7. b.qty[s] * b.avg[s] = held * avg
  BY <1>6 DEF Moves
<1>8. held * avg \in (paid - held)..paid
  <2>1. held * avg \in Int
    BY <1>2, <1>4
  <2> QED
    BY <1>2, <1>4, <2>1
<1>9. paid = r.qty[s] * r.avg[s] + price * n
  BY <1>1 DEF paid
<1>10. Moves(r, b, s, held, r.realized) /\ b.qty[s] * b.avg[s] \in (paid - held)..paid
  BY <1>6, <1>7, <1>8
<1> HIDE DEF b
<1> QED
  BY <1>3, <1>9, <1>10, Zenon DEF held, Buys

\* on_fill of a SELL, of no more than is held: the cost of what was sold is taken off.
LEMMA SoldMoves ==
  ASSUME NEW r, RiskOK(r), NEW s \in Symbols, NEW price \in Nat, NEW n \in Nat
  PROVE  LET b == RM!Sold(r, s, price, n)
         IN  /\ RiskOK(b)
             /\ n <= r.qty[s] =>
                  /\ Moves(r, b, s, r.qty[s] - n, r.realized + (price - r.avg[s]) * n)
                  /\ b.qty[s] * b.avg[s] = r.qty[s] * r.avg[s] - r.avg[s] * n
<1> DEFINE sold == IF n < r.qty[s] THEN n ELSE r.qty[s]
           left == r.qty[s] - sold
           realized == r.realized + (price - r.avg[s]) * sold
           avg == IF left = 0 THEN 0 ELSE r.avg[s]
           u == [r EXCEPT !.realized = @ + (price - r.avg[s]) * sold,
                          !.qty[s] = left,
                          !.avg[s] = IF left = 0 THEN 0 ELSE @]
           b == RM!UpdateEquity(u)
<1>1. r.qty[s] \in Nat /\ r.avg[s] \in Nat /\ r.realized \in Int
  BY RiskTypes
<1>2. sold \in Nat /\ left \in Nat /\ realized \in Int /\ avg \in Nat
  BY <1>1
<1>3. RM!Sold(r, s, price, n) = b
  BY DEF RM!Sold
<1>4. /\ DOMAIN u = DOMAIN r /\ u.realized = realized
      /\ u.qty = [r.qty EXCEPT ![s] = left] /\ u.avg = [r.avg EXCEPT ![s] = avg]
  BY DEF RiskOK
<1> HIDE DEF u, realized, left, avg
<1>5. Moves(r, b, s, left, realized) /\ b.avg[s] = avg
  BY <1>1, <1>2, <1>4, MovesIs
<1>6. ASSUME n <= r.qty[s]
      PROVE  /\ left = r.qty[s] - n
             /\ realized = r.realized + (price - r.avg[s]) * n
             /\ b.qty[s] * b.avg[s] = r.qty[s] * r.avg[s] - r.avg[s] * n
  <2>1. sold = n
    BY <1>1, <1>6
  <2>2. left = r.qty[s] - n /\ realized = r.realized + (price - r.avg[s]) * n
    BY <2>1 DEF left, realized
  <2>3. b.qty[s] * b.avg[s] = left * avg
    BY <1>5 DEF Moves
  <2>4. left * avg = left * r.avg[s]
    BY <1>1, <1>2 DEF avg
  <2>5. (r.qty[s] - n) * r.avg[s] = r.qty[s] * r.avg[s] - r.avg[s] * n
    BY <1>1
  <2> QED
    BY <2>2, <2>3, <2>4, <2>5
<1> HIDE DEF b
<1>7. RiskOK(b)
  BY <1>5 DEF Moves
<1> QED
  BY <1>3, <1>5, <1>6, <1>7
-----------------------------------------------------------------------------
(* Positions as sums over orders.                                          *)

LEMMA OfIsSummable ==
  ASSUME NEW ents \in Seq(Entry), NEW amount, \A id \in DOMAIN ents : amount[id] \in Int,
         NEW s
  PROVE  Summable(Signed(ents, amount), Of(ents, s)) /\ Of(ents, s) \subseteq DOMAIN ents
<1> DEFINE one == 1
           n == Len(ents)
<1>1. DOMAIN ents = one..n /\ one \in Int /\ n \in Int
  OBVIOUS
<1> HIDE DEF one, n
<1>2. IsFiniteSet(one..n)
  BY <1>1, FS_Interval
<1>3. Of(ents, s) \subseteq DOMAIN ents
  BY DEF Of
<1>4. IsFiniteSet(Of(ents, s))
  BY <1>1, <1>2, <1>3, FS_Subset
<1> QED
  BY <1>3, <1>4 DEF Summable, Signed

LEMMA BookedTypes ==
  ASSUME NEW ents \in Seq(Entry), NEW id \in DOMAIN ents
  PROVE  /\ Booked(ents)[id] \in Nat /\ Booked(ents)[id] = ents[id].filled
         /\ ents[id] \in Entry
BY EntryTypes DEF Booked

\* Steps that book nothing.
LEMMA PositionStays ==
  ASSUME NEW ents \in Seq(Entry), NEW news \in Seq(Entry),
         DOMAIN news = DOMAIN ents,
         \A id \in DOMAIN ents : Same(ents[id], news[id]) /\ news[id].filled = ents[id].filled,
         NEW s
  PROVE  Position(news, s) = Position(ents, s)
<1>1. Of(news, s) = Of(ents, s)
  BY DEF Of, Same
<1>2. \A id \in DOMAIN ents : Signed(news, Booked(news))[id] = Signed(ents, Booked(ents))[id]
  BY DEF Signed, Booked, Same
<1>3. Summable(Signed(ents, Booked(ents)), Of(ents, s)) /\ Of(ents, s) \subseteq DOMAIN ents
  BY BookedTypes, OfIsSummable
<1> QED
  BY <1>1, <1>2, <1>3, SumSame DEF Position

\* A new order has nothing filled.
LEMMA PositionNew ==
  ASSUME NEW ents \in Seq(Entry), NEW e \in Entry, e.filled = 0, NEW s
  PROVE  Position(Append(ents, e), s) = Position(ents, s)
<1> DEFINE news == Append(ents, e)
           new == Len(ents) + 1
           f == Signed(ents, Booked(ents))
           g == Signed(news, Booked(news))
<1>1. /\ news \in Seq(Entry) /\ DOMAIN news = DOMAIN ents \cup {new}
      /\ new \notin DOMAIN ents /\ news[new] = e
      /\ \A id \in DOMAIN ents : news[id] = ents[id]
  OBVIOUS
<1> HIDE DEF news, new
<1>2. g[new] = 0 /\ \A id \in DOMAIN ents : g[id] = f[id]
  BY <1>1 DEF Signed, Booked
<1>3. Summable(f, Of(ents, s)) /\ Of(ents, s) \subseteq DOMAIN ents
  BY BookedTypes, OfIsSummable
<1> HIDE DEF f, g
<1>4. SumOf(g, Of(ents, s)) = SumOf(f, Of(ents, s)) /\ Summable(g, Of(ents, s))
  BY <1>2, <1>3, SumSame DEF Summable
<1>5. Of(news, s) = Of(ents, s) \/ Of(news, s) = Of(ents, s) \cup {new}
  BY <1>1 DEF Of
<1>6. SumOf(g, Of(ents, s) \cup {new}) = SumOf(g, Of(ents, s))
  <2>1. new \notin Of(ents, s) /\ g[new] \in Int
    BY <1>1, <1>2, <1>3
  <2>2. SumOf(g, Of(ents, s) \cup {new}) = g[new] + SumOf(g, Of(ents, s))
    BY <1>4, <2>1, SumWith
  <2>3. SumOf(g, Of(ents, s)) \in Int
    BY <1>4, SumType
  <2> QED
    BY <1>2, <2>2, <2>3
<1> QED
  BY <1>4, <1>5, <1>6 DEF Position, f, g, news

\* A fill of q shares moves the position of its symbol.
Shift(e, s, q) == IF e.symbol # s THEN 0 ELSE IF e.side = "BUY" THEN q ELSE -q
Shifts(ents, news, i, q, s) == Position(news, s) = Position(ents, s) + Shift(ents[i], s, q)

LEMMA PositionFilled ==
  ASSUME NEW ents \in Seq(Entry), NEW i \in DOMAIN ents, NEW q \in Nat,
         NEW news \in Seq(Entry), DOMAIN news = DOMAIN ents,
         \A id \in DOMAIN ents : Same(ents[id], news[id]),
         \A id \in DOMAIN ents : id # i => news[id].filled = ents[id].filled,
         news[i].filled = ents[i].filled + q,
         NEW s
  PROVE  Shifts(ents, news, i, q, s)
<1> DEFINE f == Signed(ents, Booked(ents))
           g == Signed(news, Booked(news))
<1>1. Of(news, s) = Of(ents, s)
  BY DEF Of, Same
<1>2. Summable(f, Of(ents, s)) /\ Of(ents, s) \subseteq DOMAIN ents
  <2>1. \A id \in DOMAIN ents : Booked(ents)[id] \in Int
    BY BookedTypes
  <2> QED
    BY <2>1, OfIsSummable
<1>3. \A id \in DOMAIN ents : id # i => g[id] = f[id]
  BY DEF Signed, Booked, Same
<1>4. /\ ents[i].filled \in Nat /\ ents[i].side \in Sides
      /\ f[i] = IF ents[i].side = "BUY" THEN ents[i].filled ELSE -ents[i].filled
      /\ g[i] = IF ents[i].side = "BUY" THEN ents[i].filled + q ELSE -(ents[i].filled + q)
  BY BookedTypes, EntryTypes DEF Signed, Booked, Same
<1> HIDE DEF f, g
<1>5. SumOf(f, Of(ents, s)) \in Int
  BY <1>2, SumType
<1>6. CASE ents[i].symbol # s
  <2>1. i \notin Of(ents, s)
    BY <1>6 DEF Of
  <2>2. SumOf(g, Of(ents, s)) = SumOf(f, Of(ents, s))
    BY <1>2, <1>3, <2>1, SumSame
  <2> QED
    BY <1>1, <1>5, <1>6, <2>2 DEF Shifts, Shift, Position, f, g
<1>7. CASE ents[i].symbol = s
  <2>1. i \in Of(ents, s)
    BY <1>7 DEF Of
  <2>2. SumOf(g, Of(ents, s)) = SumOf(f, Of(ents, s)) - f[i] + g[i]
    <3> DEFINE S == Of(ents, s)
    <3>1. /\ g[i] \in Int /\ f[i] \in Int
          /\ \A id \in S \ {i} : g[id] = f[id]
          /\ Summable(f, S) /\ i \in S
      BY <1>2, <1>3, <1>4, <2>1
    <3> HIDE DEF S
    <3>2. Summable(g, S) /\ SumOf(g, S) = SumOf(f, S) - f[i] + g[i]
      BY <3>1, SumChanged, SMTT(30)
    <3> QED
      BY <3>2 DEF S
  <2>3. SumOf(g, Of(ents, s)) =
          SumOf(f, Of(ents, s)) + IF ents[i].side = "BUY" THEN q ELSE -q
    BY <1>4, <1>5, <2>2
  <2> QED
    BY <1>1, <1>7, <2>3 DEF Shifts, Shift, Position, f, g
<1> QED
  BY <1>6, <1>7

LEMMA CostsAreSummable ==
  ASSUME NEW r, RiskOK(r)
  PROVE  Summable(Costs(r), Symbols) /\ SumOf(Costs(r), Symbols) \in Int
<1>1. \A s \in Symbols : Costs(r)[s] \in Int
  <2> SUFFICES ASSUME NEW s \in Symbols PROVE Costs(r)[s] \in Int
    OBVIOUS
  <2>1. r.qty[s] \in Nat /\ r.avg[s] \in Nat
    BY RiskTypes
  <2> QED
    BY <2>1 DEF Costs
<1>2. Summable(Costs(r), Symbols)
  BY <1>1, ExecutionConstants DEF Summable
<1> QED
  BY <1>2, SumType

\* Only the cost of the position that moves changes.
LEMMA CostsMove ==
  ASSUME NEW r, RiskOK(r), NEW s \in Symbols, NEW b, NEW qty, NEW realized,
         Moves(r, b, s, qty, realized)
  PROVE  SumOf(Costs(b), Symbols) =
           SumOf(Costs(r), Symbols) - r.qty[s] * r.avg[s] + b.qty[s] * b.avg[s]
<1> DEFINE f == Costs(r)
           e == Costs(b)
           S == Symbols
<1>1. Summable(f, S) /\ Summable(e, S)
  BY CostsAreSummable DEF Moves
<1>2. \A t \in S \ {s} : e[t] = f[t]
  BY DEF Costs, Moves
<1>3. f[s] = r.qty[s] * r.avg[s] /\ e[s] = b.qty[s] * b.avg[s]
  BY DEF Costs
<1>4. s \in S
  OBVIOUS
<1> HIDE DEF e, f, S
<1>5. e[s] \in Int /\ f[s] \in Int
  BY <1>1, <1>4 DEF Summable
<1>6. Summable(e, S) /\ SumOf(e, S) = SumOf(f, S) - f[s] + e[s]
  BY <1>1, <1>2, <1>4, <1>5, SumChanged
<1> QED
  BY <1>3, <1>6 DEF e, f, S

LEMMA CostsStay ==
  ASSUME NEW r, NEW u, SameBooks(r, u)
  PROVE  Costs(u) = Costs(r)
BY DEF Costs, SameBooks

\* Shares bought are counted like those of a position, whatever the symbol.
LEMMA BuysAreSummable ==
  ASSUME NEW ents \in Seq(Entry)
  PROVE  /\ Summable(Booked(ents), BuyIds(ents)) /\ BookedBuys(ents) \in Nat
         /\ IsFiniteSet(BuyIds(ents)) /\ BuyIds(ents) \subseteq DOMAIN ents
<1>1. BuyIds(ents) \subseteq DOMAIN ents /\ IsFiniteSet(DOMAIN ents)
  <2>1. DOMAIN ents = 1..Len(ents) /\ Len(ents) \in Nat
    OBVIOUS
  <2> QED
    BY <2>1, FS_Interval DEF BuyIds
<1>2. IsFiniteSet(BuyIds(ents)) /\ \A id \in BuyIds(ents) : Booked(ents)[id] \in Nat
  BY <1>1, FS_Subset, BookedTypes DEF Booked
<1> QED
  BY <1>1, <1>2, SumOfNaturals DEF BookedBuys

LEMMA BuysStay ==
  ASSUME NEW ents \in Seq(Entry), NEW news \in Seq(Entry), DOMAIN news = DOMAIN ents,
         \A id \in DOMAIN ents : Same(ents[id], news[id]) /\ news[id].filled = ents[id].filled
  PROVE  Slack(news) = Slack(ents)
<1>1. BuyIds(news) = BuyIds(ents)
  BY DEF BuyIds, Same
<1>2. \A id \in BuyIds(ents) : Booked(news)[id] = Booked(ents)[id]
  BY DEF BuyIds, Booked
<1> QED
  BY <1>1, <1>2, BuysAreSummable, SumSame DEF Slack, BookedBuys

LEMMA BuysNew ==
  ASSUME NEW ents \in Seq(Entry), NEW e \in Entry, e.filled = 0
  PROVE  Slack(Append(ents, e)) = Slack(ents)
<1> DEFINE news == Append(ents, e)
           new == Len(ents) + 1
           f == Booked(ents)
           g == Booked(news)
           S == BuyIds(ents)
<1>1. /\ DOMAIN news = DOMAIN ents \cup {new} /\ new \notin DOMAIN ents /\ news[new] = e
      /\ \A id \in DOMAIN ents : news[id] = ents[id]
  OBVIOUS
<1>2. /\ BuyIds(news) = IF e.side = "BUY" THEN S \cup {new} ELSE S
      /\ new \notin S /\ S \subseteq DOMAIN ents
  BY <1>1 DEF BuyIds
<1>3. Summable(f, S) /\ SumOf(f, S) \in Nat
  BY BuysAreSummable DEF BookedBuys
<1>4. g[new] = 0 /\ \A id \in S : g[id] = f[id]
  BY <1>1, <1>2 DEF Booked
<1> HIDE DEF news, new, f, g, S
<1>5. Summable(g, S) /\ SumOf(g, S) = SumOf(f, S)
  BY <1>3, <1>4, SumSame DEF Summable
<1>6. SumOf(g, BuyIds(news)) = SumOf(f, S)
  <2>1. CASE e.side = "BUY"
    <3>1. SumOf(g, S \cup {new}) = g[new] + SumOf(g, S)
      BY <1>2, <1>4, <1>5, SumWith
    <3> QED
      BY <1>2, <1>3, <1>4, <1>5, <2>1, <3>1
  <2>2. CASE e.side # "BUY"
    BY <1>2, <1>5, <2>2
  <2> QED
    BY <2>1, <2>2
<1> QED
  BY <1>6 DEF Slack, BookedBuys, news, f, g, S

\* A fill of at least one share that buys widens the slack by a cent per share.
LEMMA SlackGrows ==
  ASSUME NEW ents \in Seq(Entry), NEW i \in DOMAIN ents, NEW q \in Nat \ {0},
         NEW news \in Seq(Entry), DOMAIN news = DOMAIN ents,
         \A id \in DOMAIN ents : Same(ents[id], news[id]),
         \A id \in DOMAIN ents : id # i => news[id].filled = ents[id].filled,
         news[i].filled = ents[i].filled + q
  PROVE  /\ Slack(ents) \in Int /\ Slack(news) \in Int
         /\ Slack(ents) + (IF ents[i].side = "BUY" THEN MaxPosition ELSE 0) <= Slack(news)
<1> DEFINE f == Booked(ents)
           g == Booked(news)
           S == BuyIds(ents)
           x == BookedBuys(ents)
           m == MaxPosition
<1>1. BuyIds(news) = S /\ S \subseteq DOMAIN ents /\ (i \in S <=> ents[i].side = "BUY")
  BY DEF BuyIds, Same
<1>2. Summable(f, S) /\ x = SumOf(f, S) /\ x \in Nat /\ m \in Nat
  BY BuysAreSummable, ExecutionConstants DEF BookedBuys
<1>3. /\ f[i] \in Nat /\ g[i] = f[i] + q
      /\ \A id \in DOMAIN ents : id # i => g[id] = f[id]
  BY BookedTypes DEF Booked
<1>4. Slack(ents) = x * m /\ Slack(news) = SumOf(g, S) * m
  BY <1>1 DEF Slack, BookedBuys
<1> HIDE DEF f, g, S, x, m
<1>5. x * m \in Int
  BY <1>2
<1>6. CASE i \notin S
  <2>1. SumOf(g, S) = SumOf(f, S)
    BY <1>1, <1>2, <1>3, <1>6, SumSame
  <2> QED
    BY <1>1, <1>2, <1>4, <1>5, <1>6, <2>1
<1>7. CASE i \in S
  <2>1. g[i] \in Int /\ \A id \in S \ {i} : g[id] = f[id]
    BY <1>1, <1>3
  <2>2. SumOf(g, S) = SumOf(f, S) - f[i] + g[i]
    <3>1. /\ g[i] \in Int /\ f[i] \in Int
          /\ \A id \in S \ {i} : g[id] = f[id]
          /\ Summable(f, S) /\ i \in S
      BY <1>2, <1>3, <1>7, <2>1
    <3>2. Summable(g, S) /\ SumOf(g, S) = SumOf(f, S) - f[i] + g[i]
      BY <3>1, SumChanged, SMTT(30)
    <3> QED
      BY <3>2
  <2>3. SumOf(g, S) = x + q
    BY <1>2, <1>3, <2>2
  <2> DEFINE more == (q - 1) * m
             before == x * m
             after == (x + q) * m
  <2>4. more \in Nat /\ before \in Int /\ after = before + m + more
    <3>1. (x + q) * m = x * m + q * m /\ q * m = m + (q - 1) * m /\ (q - 1) * m \in Nat
      BY <1>2
    <3>2. x * m \in Int /\ q * m \in Int
      BY <1>2
    <3> QED
      BY <1>2, <3>1, <3>2
  <2>5. Slack(ents) = before /\ Slack(news) = after
    BY <1>4, <2>3
  <2> HIDE DEF more, before, after
  <2>6. before \in Int /\ after \in Int /\ before + m <= after
    BY <1>2, <2>4
  <2> QED
    BY <1>1, <1>7, <2>5, <2>6 DEF m
<1> QED
  BY <1>6, <1>7
-----------------------------------------------------------------------------
(* The actions, on positions.                                              *)

LEMMA ProfitType ==
  ASSUME NEW r, RiskOK(r)
  PROVE  Profit(r) \in Int
BY CostsAreSummable DEF RiskOK, Profit

\* Two orders of the same kind, two risk managers with the same books.
LEMMA FitsStays ==
  ASSUME NEW e, NEW f, Same(e, f), NEW r, NEW u, SameBooks(r, u), NEW due,
         FitsPosition(e, r, due)
  PROVE  FitsPosition(f, u, due)
BY DEF FitsPosition, Same, SameBooks

\* Steps that book nothing.
LEMMA NothingBooked ==
  ASSUME EngineInv, EngineInv', PositionInv,
         DOMAIN entries' = DOMAIN entries, SameFills,
         RiskOK(risk'), SameBooks(risk, risk'), cash' = cash,
         call'.fills = call.fills,
         IsBooking(call') => IsBooking(call) /\ call'.id = call.id
  PROVE  PositionInv'
<1>1. entries \in Seq(Entry) /\ entries' \in Seq(Entry) /\ Len(entries') = Len(entries)
  BY DEF EngineInv, TypesOK
<1>0. \A id \in DOMAIN entries : /\ Same(entries[id], entries'[id])
                                 /\ entries'[id].filled = entries[id].filled
  BY DEF SameFills
<1>2. SUFFICES ASSUME MarketOnly'
               PROVE  /\ PositionsExact(entries', risk')
                      /\ IsBooking(call') =>
                           FitsPosition(entries'[call'.id], risk', TotalQty(call'.fills))
                      /\ Balanced(entries', risk', cash')
  BY DEF PositionInv
<1>3. MarketOnly
  BY <1>0, <1>2 DEF MarketOnly, Same
<1>4. PositionsExact(entries', risk')
  <2>1. \A s \in Symbols : Position(entries', s) = Position(entries, s)
    BY <1>0, <1>1, PositionStays
  <2> QED
    BY <1>3, <2>1 DEF PositionInv, PositionsExact, SameBooks
<1>5. ASSUME IsBooking(call')
      PROVE  FitsPosition(entries'[call'.id], risk', TotalQty(call'.fills))
  <2>1. IsBooking(call) /\ call'.id = call.id /\ call.id \in DOMAIN entries
    BY <1>5 DEF EngineInv, CallOK
  <2>2. FitsPosition(entries[call.id], risk, TotalQty(call.fills))
    BY <1>3, <2>1 DEF PositionInv
  <2> QED
    BY <1>0, <2>1, <2>2, FitsStays
<1>6. Balanced(entries', risk', cash')
  <2>1. Profit(risk') = Profit(risk)
    BY CostsStay DEF Profit, SameBooks
  <2>2. Slack(entries') = Slack(entries)
    BY <1>0, <1>1, BuysStay
  <2> QED
    BY <1>3, <2>1, <2>2 DEF PositionInv, Balanced
<1> QED
  BY <1>4, <1>5, <1>6

\* A new order, whose fills check_order has found room for.
LEMMA NewOrderBooked ==
  ASSUME EngineInv, EngineInv', PositionInv, Quiet, NEW e,
         entries' = Append(entries, e), e.filled = 0, UNCHANGED <<risk, cash>>,
         IsBooking(call') => /\ call'.id = Len(entries) + 1
                             /\ FitsPosition(e, risk, TotalQty(call'.fills))
  PROVE  PositionInv'
<1> DEFINE new == Len(entries) + 1
<1>1. entries \in Seq(Entry) /\ entries' \in Seq(Entry)
  BY DEF EngineInv, TypesOK
<1>2. /\ Len(entries) \in Nat /\ Len(entries') = new /\ entries'[new] = e
      /\ \A id \in DOMAIN entries : entries'[id] = entries[id]
      /\ DOMAIN entries' = DOMAIN entries \cup {new}
  <2>1. entries \in Seq(Entry \cup {e})
    BY <1>1
  <2> QED
    BY <2>1
<1>3. e \in Entry
  BY <1>1, <1>2
<1>4. SUFFICES ASSUME MarketOnly'
               PROVE  /\ PositionsExact(entries', risk')
                      /\ IsBooking(call') =>
                           FitsPosition(entries'[call'.id], risk', TotalQty(call'.fills))
                      /\ Balanced(entries', risk', cash')
  BY DEF PositionInv
<1>5. MarketOnly
  BY <1>2, <1>4 DEF MarketOnly
<1>6. PositionsExact(entries', risk')
  <2>1. \A s \in Symbols : Position(entries', s) = Position(entries, s)
    BY <1>1, <1>3, PositionNew
  <2> QED
    BY <1>5, <2>1 DEF PositionInv, PositionsExact
<1>7. Balanced(entries', risk', cash')
  <2>1. Slack(entries') = Slack(entries)
    BY <1>1, <1>3, BuysNew
  <2> QED
    BY <1>5, <2>1 DEF PositionInv, Balanced
<1> QED
  BY <1>2, <1>6, <1>7

LEMMA RefusedPositions ==
  ASSUME EngineInv, EngineInv', PositionInv, Quiet, NEW s \in Symbols, NEW side \in Sides,
         NEW qty \in Quantities, NEW price \in Nat, SubmitRefused(s, side, qty, price)
  PROVE  PositionInv'
<1> DEFINE e == Rejected(Registered(s, side, price, qty))
<1>1. entries' = Append(entries, e) /\ call' = call /\ UNCHANGED <<risk, cash>>
  BY DEF SubmitRefused
<1>2. e.filled = 0
  BY QuantityTypes, RefusedAgrees
<1> HIDE DEF e
<1>3. ~IsBooking(call')
  BY <1>1, QuietDue
<1> QED
  BY <1>1, <1>2, <1>3, NewOrderBooked

LEMMA SentPositions ==
  ASSUME EngineInv, EngineInv', PositionInv, Quiet, NEW s \in Symbols, NEW side \in Sides,
         NEW type \in Types, NEW qty \in Quantities, NEW price \in Nat,
         SubmitSent(s, side, type, qty, price)
  PROVE  PositionInv'
<1> DEFINE o == Registered(s, side, price, qty)
           new == Len(entries) + 1
<1>1. PICK fs \in FillsOf(side, type, price, qty), rests \in BOOLEAN :
        /\ entries' = Append(entries, IF rests \/ fs # <<>> THEN Accepted(o)
                                      ELSE Rejected(o))
        /\ call' = [at |-> IF fs = <<>> THEN "flatten" ELSE "matched",
                    id |-> new, fills |-> fs, todo |-> {}]
  BY DEF SubmitSent
<1> DEFINE e == IF rests \/ fs # <<>> THEN Accepted(o) ELSE Rejected(o)
<1>2. UNCHANGED <<risk, cash>> /\ RM!CheckOrder(risk, s, side, qty)
  BY DEF SubmitSent
<1>3. qty \in Nat \ {0} /\ TotalQty(fs) \in Nat /\ TotalQty(fs) <= qty
  <2>1. fs \in FillSeqs /\ TotalQty(fs) <= qty
    BY FillsOfTypes
  <2> QED
    BY <2>1, FillsTotal, QuantityTypes
<1>4. e.filled = 0 /\ Same(o, e)
  <2>1. 0 \in Nat /\ 0 <= qty /\ ~(0 > 0)
    BY <1>3
  <2>2. /\ Accepted(o).filled = 0 /\ Same(o, Accepted(o))
    BY <1>3, <2>1, SentAgrees
  <2>3. /\ Rejected(o).filled = 0 /\ Same(o, Rejected(o))
    BY <1>3, RefusedAgrees
  <2> QED
    BY <2>2, <2>3
<1>5. e.symbol = s /\ e.side = side
  BY <1>4 DEF Same, Registered
<1>6. FitsPosition(e, risk, TotalQty(fs))
  <2>1. risk.qty[s] \in Nat
    BY RiskTypes DEF PositionInv
  <2>2. IF side = "BUY" THEN risk.qty[s] + qty <= MaxPosition ELSE qty <= risk.qty[s]
    BY <1>2 DEF RM!CheckOrder
  <2> HIDE DEF e
  <2> QED
    BY <1>3, <1>5, <2>1, <2>2, ExecutionConstants DEF FitsPosition, Fits
<1>7. entries' = Append(entries, e) /\ call'.id = new /\ call'.fills = fs
  BY <1>1
<1> HIDE DEF e, o
<1> QED
  BY <1>2, <1>4, <1>6, <1>7, NewOrderBooked

\* A fill in the risk manager.
LEMMA BookTypes ==
  ASSUME PositionInv, NEW i \in DOMAIN entries, entries[i] \in Entry, NEW f,
         f.qty \in Nat \ {0}, f.price \in Nat, Book(i, f)
  PROVE  RiskOK(risk') /\ cash' \in Int
<1> DEFINE s == entries[i].symbol
<1>1. s \in Symbols /\ RiskOK(risk) /\ cash \in Int
  BY EntryTypes DEF PositionInv
<1>2. risk' = IF entries[i].side = "BUY" THEN RM!Bought(risk, s, f.price, f.qty)
              ELSE RM!Sold(risk, s, f.price, f.qty)
  BY DEF Book, RM!OnFill
<1>3. RiskOK(RM!Bought(risk, s, f.price, f.qty))
  BY <1>1, BoughtMoves DEF Buys, Moves
<1>4. RiskOK(RM!Sold(risk, s, f.price, f.qty))
  BY <1>1, SoldMoves
<1>5. cash' \in Int
  <2>1. f.price * f.qty \in Int
    OBVIOUS
  <2> DEFINE paid == f.price * f.qty
  <2>2. cash' = cash - paid \/ cash' = cash + paid
    BY DEF Book
  <2> HIDE DEF paid
  <2> QED
    BY <1>1, <2>1, <2>2 DEF paid
<1> QED
  BY <1>2, <1>3, <1>4, <1>5

\* A passive fill is of an order with a limit.
LEMMA ReportPositions ==
  ASSUME EngineInv, EngineInv', PositionInv, ReportExecuted,
         DOMAIN entries' = DOMAIN entries,
         \A id \in DOMAIN entries : Same(entries[id], entries'[id])
  PROVE  PositionInv'
<1> DEFINE r == Head(reports)
<1>1. reports # <<>> /\ Book(r.id, r)
  BY DEF ReportExecuted
<1>2. /\ reports \in Seq(Report)
      /\ \A n \in DOMAIN reports :
           reports[n].id \in DOMAIN entries /\ entries[reports[n].id].price > 0
  BY DEF EngineInv, ReportsOK
<1>3. r = reports[1] /\ 1 \in DOMAIN reports /\ r \in Report
  BY <1>1, <1>2
<1>4. r.id \in DOMAIN entries /\ r.qty \in Nat \ {0} /\ r.price \in Nat /\ entries[r.id].price > 0
  BY <1>2, <1>3 DEF Report
<1>5. entries[r.id] \in Entry
  BY <1>4 DEF EngineInv, TypesOK
<1> HIDE DEF r
<1>6. RiskOK(risk') /\ cash' \in Int
  BY <1>1, <1>4, <1>5, BookTypes
<1>7. ~MarketOnly'
  <2>1. entries'[r.id].price > 0 /\ r.id \in DOMAIN entries'
    BY <1>4 DEF Same
  <2> QED
    BY <2>1 DEF MarketOnly
<1> QED
  BY <1>6, <1>7 DEF PositionInv

\* A fill of q shares at price p of an order of symbol s, in the position and the profit.
FillDone(r, b, s, side, p, q, due) ==
  /\ RiskOK(b)
  /\ b.qty[s] = r.qty[s] + IF side = "BUY" THEN q ELSE -q
  /\ \A t \in Symbols \ {s} : b.qty[t] = r.qty[t]
  /\ b.qty[s] <= MaxPosition
  /\ Fits(side, b.qty[s], due)
  /\ LET paid == IF side = "BUY" THEN -(p * q) ELSE p * q
         slack == IF side = "BUY" THEN MaxPosition ELSE 0
     IN  Profit(b) >= Profit(r) + paid /\ Profit(b) <= Profit(r) + paid + slack

LEMMA FillBalances ==
  ASSUME NEW r, RiskOK(r), NEW b, NEW s \in Symbols, NEW side \in Sides,
         NEW p \in Nat, NEW q \in Nat \ {0}, NEW due \in Nat,
         b = RM!OnFill(r, s, side, p, q),
         Fits(side, r.qty[s], q + due),
         r.qty[s] <= MaxPosition
  PROVE  FillDone(r, b, s, side, p, q, due)
<1> DEFINE qty == r.qty[s]
           cost == qty * r.avg[s]
           after == b.qty[s] * b.avg[s]
           sum == SumOf(Costs(r), Symbols)
           amount == p * q
<1>1. qty \in Nat /\ r.avg[s] \in Nat /\ r.realized \in Int /\ sum \in Int /\ MaxPosition \in Nat
  BY RiskTypes, CostsAreSummable, ExecutionConstants
<1>2. cost \in Nat /\ amount \in Nat
  BY <1>1
<1>3. Profit(r) = r.realized - sum
  BY DEF Profit
<1>4. CASE side = "BUY"
  <2>1. b = RM!Bought(r, s, p, q)
    BY <1>4 DEF RM!OnFill
  <2>2. /\ Moves(r, b, s, qty + q, r.realized)
        /\ after \in ((cost + amount) - (qty + q))..(cost + amount)
    <3>1. Buys(r, b, s, p, q)
      BY <2>1, BoughtMoves
    <3> QED
      BY <3>1, Zenon DEF Buys
  <2>3. SumOf(Costs(b), Symbols) = sum - cost + after
    BY <2>2, CostsMove
  <2>4. b.qty[s] = qty + q /\ RiskOK(b) /\ b.realized = r.realized
        /\ \A t \in Symbols \ {s} : b.qty[t] = r.qty[t]
    BY <2>2 DEF Moves
  <2>5. Profit(b) = r.realized - (sum - cost + after)
    BY <2>3, <2>4 DEF Profit
  <2>6. qty + (q + due) <= MaxPosition
    BY <1>4 DEF Fits
  <2> HIDE DEF qty, cost, after, sum, amount
  <2>7. Profit(b) >= Profit(r) - amount /\ Profit(b) <= Profit(r) - amount + MaxPosition
    BY <1>1, <1>2, <1>3, <2>2, <2>5, <2>6
  <2>8. b.qty[s] <= MaxPosition /\ b.qty[s] + due <= MaxPosition
    BY <1>1, <2>4, <2>6
  <2>9. Profit(r) - amount = Profit(r) + (-amount)
    BY <1>1, <1>2, <1>3
  <2> QED
    BY <1>4, <2>4, <2>7, <2>8, <2>9 DEF qty, amount, FillDone, Fits
<1>5. CASE side # "BUY"
  <2>1. b = RM!Sold(r, s, p, q) /\ q + due <= qty
    BY <1>5 DEF RM!OnFill, Fits
  <2> DEFINE realized == r.realized + (p - r.avg[s]) * q
             sold == r.avg[s] * q
  <2>2. q <= qty
    BY <1>1, <2>1
  <2>3. Moves(r, b, s, qty - q, realized) /\ after = cost - sold
    BY <2>1, <2>2, SoldMoves
  <2>4. SumOf(Costs(b), Symbols) = sum - cost + after
    BY <2>3, CostsMove
  <2>5. b.qty[s] = qty - q /\ RiskOK(b) /\ b.realized = realized
        /\ \A t \in Symbols \ {s} : b.qty[t] = r.qty[t]
    BY <2>3 DEF Moves
  <2>6. realized = r.realized + amount - sold /\ sold \in Nat
    <3>1. \A x, y, z \in Int : (x - y) * z = x * z - y * z
      OBVIOUS
    <3>2. (p - r.avg[s]) * q = amount - sold /\ sold \in Nat
      BY <1>1, <3>1
    <3> HIDE DEF amount, sold
    <3> QED
      BY <1>1, <1>2, <3>2
  <2>7. Profit(b) = realized - (sum - cost + after)
    BY <2>4, <2>5 DEF Profit
  <2> HIDE DEF qty, cost, after, sum, amount, realized, sold
  <2>8. Profit(b) = Profit(r) + amount /\ Profit(r) \in Int
    BY <1>1, <1>2, <1>3, <2>3, <2>6, <2>7
  <2>9. b.qty[s] <= MaxPosition /\ due <= b.qty[s] /\ b.qty[s] = qty + (-q)
    BY <1>1, <2>1, <2>5 DEF qty
  <2>10. Profit(b) >= Profit(r) + amount /\ Profit(b) <= Profit(r) + amount + 0
    BY <1>1, <1>2, <2>8
  <2> QED
    BY <1>5, <2>5, <2>9, <2>10 DEF qty, amount, FillDone, Fits
<1> QED
  BY <1>4, <1>5

\* A fill of the order that was sent.
LEMMA ActivePositions ==
  ASSUME EngineInv, EngineInv', PositionInv, BookActiveFill
  PROVE  PositionInv'
<1> DEFINE fs == call.fills
           rest == Tail(fs)
           q == Head(fs).qty
           p == Head(fs).price
           i == call.id
           e == entries[i]
           f == Filled(e, q)
           s == e.symbol
           amount == p * q
<1>1. /\ IsBooking(call) /\ Book(i, Head(fs)) /\ call'.fills = rest /\ call'.id = i
      /\ IsBooking(call') => rest # <<>>
  <2>1. /\ call.at \in {"matched", "booking"} /\ Book(i, Head(fs))
        /\ call' = [call EXCEPT !.at = IF Len(fs) = 1 THEN "flatten" ELSE "booking",
                                !.fills = Tail(@)]
    BY DEF BookActiveFill
  <2>2. CallOK /\ CallOK'
    BY DEF EngineInv
  <2>3. call'.fills = rest /\ call'.id = i
    BY <2>1, <2>2, CallTypes
  <2> QED
    BY <2>1, <2>2, <2>3 DEF IsBooking, CallOK
<1>2. /\ i \in DOMAIN entries /\ fs # <<>> /\ fs \in FillSeqs
      /\ entries \in Seq(Entry) /\ entries' \in Seq(Entry)
  BY <1>1 DEF EngineInv, CallOK, TypesOK
<1>3. Shrinks(fs) /\ TotalQty(fs) \in Nat
  BY <1>2, FillsTotal
<1>4. /\ q \in Nat \ {0} /\ p \in Nat /\ TotalQty(fs) = q + TotalQty(rest)
      /\ TotalQty(rest) \in Nat
  BY <1>3 DEF Shrinks
<1>5. e \in Entry /\ s \in Symbols /\ e.side \in Sides
  BY <1>2, EntryTypes
<1>6. RiskOK(risk) /\ cash \in Int
  BY DEF PositionInv
<1>7. RiskOK(risk') /\ cash' \in Int
  BY <1>1, <1>2, <1>4, <1>5, BookTypes
<1>8. /\ entries' = [entries EXCEPT ![i] = f]
      /\ risk' = RM!OnFill(risk, s, e.side, p, q)
      /\ cash' = IF e.side = "BUY" THEN cash - amount ELSE cash + amount
  BY <1>1, <1>2 DEF Book
<1>9. Due(call, reports, i) = TotalQty(fs)
  BY <1>1 DEF Due
<1>10. Agrees(e, RestOf(resting, i), TotalQty(fs), executed[i], issued)
  BY <1>2, <1>9 DEF EngineInv, OrdersAgree
<1>11. /\ q <= TotalQty(fs) /\ TotalQty(fs) > 0
  BY <1>4
<1>12. /\ Same(e, f) /\ f \in Entry
       /\ Live(e) => f.filled = e.filled + q
  <2> HIDE DEF q, fs, e
  <2>1. Agrees(f, RestOf(resting, i), TotalQty(fs) - q, executed[i], issued) /\ Same(e, f)
        /\ (Live(e) => f.filled = e.filled + q)
    BY <1>4, <1>10, <1>11, FilledAgrees
  <2> HIDE DEF f
  <2> QED
    BY <2>1 DEF Agrees
<1> HIDE DEF fs, rest, q, p, i, e, f, s, amount
<1>13. /\ DOMAIN entries' = DOMAIN entries /\ Len(entries') = Len(entries)
       /\ entries'[i] = f
       /\ \A id \in DOMAIN entries : /\ Same(entries[id], entries'[id])
                                     /\ id # i => entries'[id] = entries[id]
  <2>1. TypesOK /\ e = entries[i]
    BY DEF EngineInv, e
  <2> QED
    BY <1>2, <1>8, <1>12, <2>1, OneEntryStep
<1> SUFFICES ASSUME MarketOnly'
             PROVE  /\ PositionsExact(entries', risk')
                    /\ IsBooking(call') =>
                         FitsPosition(entries'[call'.id], risk', TotalQty(call'.fills))
                    /\ Balanced(entries', risk', cash')
  BY <1>7 DEF PositionInv
<1>14. MarketOnly /\ e.price = 0
  BY <1>2, <1>13 DEF MarketOnly, Same, e
<1>15. f.filled = e.filled + q
  BY <1>4, <1>10, <1>11, <1>12, <1>14 DEF Agrees
<1>16. /\ PositionsExact(entries, risk) /\ Balanced(entries, risk, cash)
       /\ FitsPosition(e, risk, TotalQty(fs))
  BY <1>1, <1>14 DEF PositionInv, fs, e, i
<1>17. Fits(e.side, risk.qty[s], q + TotalQty(rest)) /\ risk.qty[s] <= MaxPosition
  BY <1>4, <1>5, <1>16 DEF FitsPosition, PositionsExact, s
<1>18. FillDone(risk, risk', s, e.side, p, q, TotalQty(rest))
  BY <1>4, <1>5, <1>6, <1>8, <1>17, FillBalances
<1>19. PositionsExact(entries', risk')
  <2> SUFFICES ASSUME NEW t \in Symbols
               PROVE  risk'.qty[t] = Position(entries', t) /\ risk'.qty[t] <= MaxPosition
    BY DEF PositionsExact
  <2>1. risk.qty[t] = Position(entries, t) /\ risk.qty[t] <= MaxPosition /\ risk.qty[t] \in Nat
    BY <1>6, <1>16, RiskTypes DEF PositionsExact
  <2>2. Position(entries', t) = Position(entries, t) + Shift(entries[i], t, q)
    <3>1. /\ \A id \in DOMAIN entries : Same(entries[id], entries'[id])
          /\ \A id \in DOMAIN entries : id # i => entries'[id].filled = entries[id].filled
          /\ entries'[i].filled = entries[i].filled + q
      BY <1>13, <1>15 DEF e
    <3>2. q \in Nat
      BY <1>4
    <3>3. Shifts(entries, entries', i, q, t)
      BY <1>2, <1>13, <3>1, <3>2, PositionFilled
    <3> QED
      BY <3>3 DEF Shifts
  <2>3. entries[i].symbol = s /\ entries[i].side = e.side
    BY DEF s, e
  <2>4. CASE t = s
    BY <1>4, <1>18, <2>1, <2>2, <2>3, <2>4 DEF FillDone, Shift
  <2>5. CASE t # s
    BY <1>18, <2>1, <2>2, <2>3, <2>5 DEF FillDone, Shift
  <2> QED
    BY <2>4, <2>5
<1>20. FitsPosition(entries'[call'.id], risk', TotalQty(call'.fills))
  <2>1. call'.id = i /\ call'.fills = rest
    BY <1>1
  <2>2. f.symbol = s /\ f.side = e.side
    BY <1>12 DEF Same, s
  <2> QED
    BY <1>13, <1>18, <2>1, <2>2 DEF FillDone, FitsPosition
<1>21. Balanced(entries', risk', cash')
  <2> DEFINE slack == IF e.side = "BUY" THEN MaxPosition ELSE 0
             paid == IF e.side = "BUY" THEN -amount ELSE amount
  <2>1. /\ Slack(entries) \in Int /\ Slack(entries') \in Int
        /\ Slack(entries) + slack <= Slack(entries')
    <3>1. /\ \A id \in DOMAIN entries : Same(entries[id], entries'[id])
          /\ \A id \in DOMAIN entries : id # i => entries'[id].filled = entries[id].filled
          /\ entries'[i].filled = entries[i].filled + q
      BY <1>13, <1>15 DEF e
    <3> QED
      BY <1>2, <1>4, <1>13, <3>1, SlackGrows DEF e
  <2>2. Profit(risk) \in Int /\ Profit(risk') \in Int /\ amount \in Nat
    BY <1>4, <1>6, <1>7, ProfitType DEF amount
  <2>3. Profit(risk) >= cash /\ Profit(risk) <= cash + Slack(entries)
    BY <1>16 DEF Balanced
  <2>4. /\ Profit(risk') >= Profit(risk) + paid /\ Profit(risk') <= Profit(risk) + paid + slack
        /\ paid \in Int /\ cash' = cash + paid
    BY <1>6, <1>8, <1>18, <2>2 DEF FillDone, amount
  <2>5. slack \in Int
    BY ExecutionConstants
  <2> HIDE DEF paid, slack
  <2>6. Profit(risk') >= cash' /\ Profit(risk') <= cash' + Slack(entries')
    BY <1>6, <2>1, <2>2, <2>3, <2>4, <2>5
  <2> QED
    BY <2>6 DEF Balanced
<1> QED
  BY <1>19, <1>20, <1>21

\* Steps that change no order at all.
LEMMA OrdersUntouched ==
  ASSUME EngineInv, EngineInv', PositionInv, UNCHANGED <<entries, cash>>,
         RiskOK(risk'), SameBooks(risk, risk'),
         call'.fills = call.fills,
         IsBooking(call') => IsBooking(call) /\ call'.id = call.id
  PROVE  PositionInv'
<1>1. SameFills /\ DOMAIN entries' = DOMAIN entries
  BY DEF SameFills, Same
<1> QED
  BY <1>1, NothingBooked

LEMMA NextPositions ==
  ASSUME EngineInv, EngineInv', PositionInv, TradingNext
  PROVE  PositionInv'
<1>1. RiskOK(risk) /\ SameBooks(risk, risk)
  BY DEF PositionInv, SameBooks
<1>2. CASE SubmitSignal
  <2>1. PICK s \in Symbols, side \in Sides, type \in Types, qty \in Quantities, p \in Prices :
          LET price == IF type = "LIMIT" THEN p ELSE 0
          IN  SubmitRefused(s, side, qty, price) \/ SubmitSent(s, side, type, qty, price)
    BY <1>2 DEF SubmitSignal
  <2> DEFINE price == IF type = "LIMIT" THEN p ELSE 0
  <2>2. price \in Nat
    BY QuantityTypes
  <2>3. SubmitRefused(s, side, qty, price) \/ SubmitSent(s, side, type, qty, price)
    BY <2>1
  <2>4. Quiet
    BY <1>2 DEF SubmitSignal
  <2> HIDE DEF price
  <2> QED
    BY <2>2, <2>3, <2>4, RefusedPositions, SentPositions
<1>3. CASE MarketOrder
  <2>1. UNCHANGED <<entries, risk, cash, call>>
    BY <1>3 DEF MarketOrder
  <2> QED
    BY <1>1, <2>1, OrdersUntouched
<1>4. CASE MarkPrice
  <2>1. UNCHANGED <<entries, cash, call>> /\ \E s \in Symbols, p \in Prices : risk' = RM!Mark(risk, s, p)
    BY <1>4 DEF MarkPrice
  <2>2. RiskOK(risk') /\ SameBooks(risk, risk')
    BY <1>1, <2>1, MarkKeeps
  <2> QED
    BY <2>1, <2>2, OrdersUntouched
<1>5. CASE CancelOrder
  <2>1. PICK id \in LiveIds : call' = [Idle EXCEPT !.at = "cancel", !.todo = {id}]
    BY <1>5 DEF CancelOrder
  <2>2. UNCHANGED <<entries, risk, cash>> /\ call = Idle
    BY <1>5 DEF CancelOrder, Quiet
  <2>3. call' = [at |-> "cancel", id |-> 0, fills |-> <<>>, todo |-> {id}]
    BY <2>1 DEF Idle
  <2>4. call'.fills = call.fills /\ ~IsBooking(call')
    BY <2>2, <2>3, IdleTypes DEF IsBooking
  <2> QED
    BY <1>1, <2>2, <2>4, OrdersUntouched
<1>6. CASE FlattenNot \/ CancelsDone
  <2>1. UNCHANGED <<entries, risk, cash>> /\ call' = Idle /\ ~IsBooking(call)
    BY <1>6 DEF FlattenNot, CancelsDone, Return, IsBooking
  <2>2. call'.fills = call.fills /\ ~IsBooking(call')
    BY <2>1, IdleTypes DEF EngineInv, CallOK
  <2> QED
    BY <1>1, <2>1, <2>2, OrdersUntouched
<1>7. CASE FlattenStart
  <2>1. /\ UNCHANGED <<entries, risk, cash>> /\ call.at = "flatten"
        /\ call' = [call EXCEPT !.at = "cancel", !.todo = LiveIds]
    BY <1>7 DEF FlattenStart
  <2>2. call'.fills = call.fills /\ ~IsBooking(call')
    BY <2>1, CallTypes DEF EngineInv, IsBooking
  <2> QED
    BY <1>1, <2>1, <2>2, OrdersUntouched
<1>8. CASE CancelUnknown
  <2>1. UNCHANGED <<risk, cash>>
    BY <1>8 DEF CancelUnknown
  <2> QED
    BY <1>1, <1>8, <2>1, CancelUnknownKeeps, NothingBooked
<1>9. CASE CancelResting
  <2>1. UNCHANGED <<risk, cash>>
    BY <1>9 DEF CancelResting
  <2> QED
    BY <1>1, <1>9, <2>1, CancelRestingKeeps, NothingBooked
<1> QED
  BY <1>2, <1>3, <1>4, <1>5, <1>6, <1>7, <1>8, <1>9, ActivePositions, ReportPositions, ReportKeeps
     DEF TradingNext, Continue

LEMMA InitPositions == TradingInit => PositionInv
<1> SUFFICES ASSUME TradingInit PROVE PositionInv
  OBVIOUS
<1>1. entries = <<>> /\ risk = RM!Fresh /\ cash = 0 /\ call = Idle
  BY DEF TradingInit
<1>2. /\ RiskOK(risk) /\ risk.realized = 0
      /\ \A s \in Symbols : risk.qty[s] = 0 /\ risk.avg[s] = 0
  BY <1>1 DEF RM!Fresh, RiskOK
<1>3. \A s : Position(entries, s) = 0
  <2> SUFFICES ASSUME NEW s PROVE Position(entries, s) = 0
    OBVIOUS
  <2>1. Of(entries, s) = {}
    BY <1>1 DEF Of
  <2> QED
    BY <2>1, SumEmpty DEF Position
<1>4. SumOf(Costs(risk), Symbols) = 0
  <2>1. ASSUME NEW s \in Symbols PROVE Costs(risk)[s] = 0
    <3>1. Costs(risk)[s] = risk.qty[s] * risk.avg[s]
      BY DEF Costs
    <3>2. risk.qty[s] = 0 /\ risk.avg[s] = 0
      BY <1>2
    <3> QED
      BY <3>1, <3>2
  <2> QED
    BY <2>1, ExecutionConstants, SumZero
<1>5. Profit(risk) = 0
  BY <1>2, <1>4 DEF Profit
<1>6. PositionsExact(entries, risk)
  <2>1. MaxPosition >= 0
    BY ExecutionConstants
  <2>2. ASSUME NEW s \in Symbols
        PROVE  risk.qty[s] = Position(entries, s) /\ risk.qty[s] <= MaxPosition
    <3>1. risk.qty[s] = 0 /\ Position(entries, s) = 0
      BY <1>2, <1>3
    <3> QED
      BY <2>1, <3>1
  <2> QED
    BY <2>2 DEF PositionsExact
<1>7. Slack(entries) = 0
  <2>1. BuyIds(entries) = {}
    BY <1>1 DEF BuyIds
  <2> QED
    BY <2>1, SumEmpty, ExecutionConstants DEF Slack, BookedBuys
<1>8. ~IsBooking(call)
  BY <1>1, IdleTypes
<1> QED
  BY <1>1, <1>2, <1>5, <1>6, <1>7, <1>8 DEF PositionInv, Balanced

\* RiskManager's positions and costs, and OMS's fills, against what the exchange has
\* traded and what the trades have paid.
THEOREM PositionInvariant == TradingSpec => [](EngineInv /\ PositionInv)
<1>1. TradingInit => EngineInv /\ PositionInv
  BY InitAgrees, InitPositions
<1>2. EngineInv /\ PositionInv /\ [TradingNext]_vars => (EngineInv /\ PositionInv)'
  <2>1. ASSUME EngineInv, PositionInv, UNCHANGED vars
        PROVE  EngineInv' /\ PositionInv'
    <3>1. UNCHANGED <<entries, risk, resting, refs, reports, issued, call, executed, cash>>
      BY <2>1 DEF vars
    <3>2. EngineInv'
      BY <2>1, <3>1 DEF EngineInv, TypesOK, CallOK, ReportsOK, OrdersAgree, RefsOK
    <3>3. PositionInv'
      BY <2>1, <3>1 DEF PositionInv, MarketOnly
    <3> QED
      BY <3>2, <3>3
  <2> QED
    BY <2>1, NextKeeps, NextPositions
<1> QED
  BY <1>1, <1>2, PTL DEF TradingSpec
-----------------------------------------------------------------------------
(* What the positions and the profit are.                                  *)

LEMMA NetIsSum ==
  ASSUME NEW S, S \subseteq DOMAIN entries, Summable(Signed(entries, executed), S)
  PROVE  MapThenSumSet(LAMBDA id : IF entries[id].side = "BUY" THEN executed[id]
                                   ELSE -executed[id], S)
           = SumOf(Signed(entries, executed), S)
<1> DEFINE f == Signed(entries, executed)
           sum == SumOf(f, S)
<1>1. PICK g : Unfolds(g, f, S)
  BY SumUnfolds
<1>2. \A h : Unfolds(h, f, S) => h[S] = sum
  BY SumUnfolds
<1>3. ASSUME NEW h
      PROVE  h = [s \in SUBSET S |-> IF s = {} THEN 0
                    ELSE (IF entries[CHOOSE x \in s : TRUE].side = "BUY"
                          THEN executed[CHOOSE x \in s : TRUE]
                          ELSE -executed[CHOOSE x \in s : TRUE])
                         + h[s \ {CHOOSE x \in s : TRUE}]]
             <=> Unfolds(h, f, S)
  <2>1. ASSUME NEW s \in SUBSET S, s # {}
        PROVE  f[AnyOf(s)] = IF entries[CHOOSE x \in s : TRUE].side = "BUY"
                             THEN executed[CHOOSE x \in s : TRUE]
                             ELSE -executed[CHOOSE x \in s : TRUE]
    <3>1. AnyOf(s) \in DOMAIN entries
      BY <2>1, AnyOfIsIn
    <3> QED
      BY <3>1 DEF Signed, AnyOf
  <2> HIDE DEF f
  <2> QED
    BY <2>1 DEF Unfolds, AnyOf
<1> HIDE DEF sum
<1>4. \A h : h = [s \in SUBSET S |-> IF s = {} THEN 0
                    ELSE (IF entries[CHOOSE x \in s : TRUE].side = "BUY"
                          THEN executed[CHOOSE x \in s : TRUE]
                          ELSE -executed[CHOOSE x \in s : TRUE])
                         + h[s \ {CHOOSE x \in s : TRUE}]]
             => h[S] = sum
  BY <1>2, <1>3
<1>5. g = [s \in SUBSET S |-> IF s = {} THEN 0
             ELSE (IF entries[CHOOSE x \in s : TRUE].side = "BUY"
                   THEN executed[CHOOSE x \in s : TRUE]
                   ELSE -executed[CHOOSE x \in s : TRUE])
                  + g[s \ {CHOOSE x \in s : TRUE}]]
  BY <1>1, <1>3
<1> DEFINE net == MapThenSumSet(LAMBDA id : IF entries[id].side = "BUY" THEN executed[id]
                                            ELSE -executed[id], S)
<1>6. net = sum
  BY <1>4, <1>5 DEF MapThenSumSet, MapThenFoldSet
<1> QED
  BY <1>6 DEF sum

LEMMA CostIsSum ==
  ASSUME NEW r, NEW S, S \subseteq Symbols, Summable(Costs(r), S)
  PROVE  RM!MapThenSumSet(LAMBDA s : r.qty[s] * r.avg[s], S) = SumOf(Costs(r), S)
<1> DEFINE f == Costs(r)
           sum == SumOf(f, S)
<1>1. PICK g : Unfolds(g, f, S)
  BY SumUnfolds
<1>2. \A h : Unfolds(h, f, S) => h[S] = sum
  BY SumUnfolds
<1>3. ASSUME NEW h
      PROVE  h = [s \in SUBSET S |-> IF s = {} THEN 0
                    ELSE r.qty[CHOOSE x \in s : TRUE] * r.avg[CHOOSE x \in s : TRUE]
                         + h[s \ {CHOOSE x \in s : TRUE}]]
             <=> Unfolds(h, f, S)
  <2>1. ASSUME NEW s \in SUBSET S, s # {}
        PROVE  f[AnyOf(s)] = r.qty[CHOOSE x \in s : TRUE] * r.avg[CHOOSE x \in s : TRUE]
    <3>1. AnyOf(s) \in Symbols
      BY <2>1, AnyOfIsIn
    <3> QED
      BY <3>1 DEF Costs, AnyOf
  <2> HIDE DEF f
  <2> QED
    BY <2>1 DEF Unfolds, AnyOf
<1> HIDE DEF sum
<1>4. \A h : h = [s \in SUBSET S |-> IF s = {} THEN 0
                    ELSE r.qty[CHOOSE x \in s : TRUE] * r.avg[CHOOSE x \in s : TRUE]
                         + h[s \ {CHOOSE x \in s : TRUE}]]
             => h[S] = sum
  BY <1>2, <1>3
<1>5. g = [s \in SUBSET S |-> IF s = {} THEN 0
             ELSE r.qty[CHOOSE x \in s : TRUE] * r.avg[CHOOSE x \in s : TRUE]
                  + g[s \ {CHOOSE x \in s : TRUE}]]
  BY <1>1, <1>3
<1> DEFINE cost == RM!MapThenSumSet(LAMBDA s : r.qty[s] * r.avg[s], S)
<1>6. cost = sum
  BY <1>4, <1>5 DEF RM!MapThenSumSet, RM!MapThenFoldSet
<1> QED
  BY <1>6 DEF sum

\* PositionExact for every instance: with market orders the position is what the
\* exchange has traded, never short and never beyond max_position_.
THEOREM PositionsAlwaysExact == TradingSpec => []PositionExact
<1>1. EngineInv /\ PositionInv => PositionExact
  <2> SUFFICES ASSUME EngineInv, PositionInv, Quiet, MarketOnly, NEW s \in Symbols
               PROVE  risk.qty[s] = Net(s) /\ Net(s) \in 0..MaxPosition
    BY DEF PositionExact
  <2>1. entries \in Seq(Entry) /\ executed \in Seq(Nat) /\ Len(executed) = Len(entries)
    BY DEF EngineInv, TypesOK
  <2>2. \A id \in DOMAIN entries : executed[id] \in Int /\ executed[id] = Booked(entries)[id]
    <3> SUFFICES ASSUME NEW id \in DOMAIN entries
                 PROVE  executed[id] \in Int /\ executed[id] = Booked(entries)[id]
      OBVIOUS
    <3>1. Agrees(entries[id], RestOf(resting, id), 0, executed[id], issued)
      BY QuietDue DEF EngineInv, OrdersAgree
    <3>2. entries[id].price = 0
      BY DEF MarketOnly
    <3>3. entries[id].filled \in Nat /\ Booked(entries)[id] = entries[id].filled
      BY <2>1, BookedTypes
    <3> QED
      BY <3>1, <3>2, <3>3 DEF Agrees
  <2>3. /\ Summable(Signed(entries, Booked(entries)), Of(entries, s))
        /\ Of(entries, s) \subseteq DOMAIN entries
    BY <2>1, BookedTypes, OfIsSummable
  <2>4. /\ Summable(Signed(entries, executed), Of(entries, s))
        /\ SumOf(Signed(entries, executed), Of(entries, s)) = Position(entries, s)
    <3>1. Summable(Signed(entries, executed), Of(entries, s))
      BY <2>1, <2>2, OfIsSummable
    <3>2. \A id \in Of(entries, s) :
            Signed(entries, executed)[id] = Signed(entries, Booked(entries))[id]
      BY <2>2, <2>3 DEF Signed
    <3> QED
      BY <2>3, <3>1, <3>2, SumSame DEF Position
  <2>5. Net(s) = Position(entries, s)
    <3> DEFINE S == Of(entries, s)
    <3>1. Net(s) = MapThenSumSet(LAMBDA id : IF entries[id].side = "BUY" THEN executed[id]
                                             ELSE -executed[id], S)
      BY DEF Net, Of
    <3>2. S \subseteq DOMAIN entries /\ Summable(Signed(entries, executed), S)
      BY <2>3, <2>4
    <3> HIDE DEF S
    <3>3. Net(s) = SumOf(Signed(entries, executed), S)
      BY <3>1, <3>2, NetIsSum
    <3> QED
      BY <2>4, <3>3 DEF S
  <2>6. risk.qty[s] = Position(entries, s) /\ risk.qty[s] <= MaxPosition /\ risk.qty[s] \in Nat
    BY RiskTypes DEF PositionInv, PositionsExact
  <2> QED
    BY <2>5, <2>6, ExecutionConstants
<1> QED
  BY <1>1, PositionInvariant, PTL

\* What is booked of an order with no limit has traded.
LEMMA BookedHasTraded ==
  ASSUME EngineInv, MarketOnly
  PROVE  \A id \in DOMAIN entries :
           executed[id] \in Nat /\ Booked(entries)[id] <= executed[id]
<1> SUFFICES ASSUME NEW id \in DOMAIN entries
             PROVE  executed[id] \in Nat /\ Booked(entries)[id] <= executed[id]
  OBVIOUS
<1>1. Agrees(entries[id], RestOf(resting, id), Due(call, reports, id), executed[id], issued)
  BY DEF EngineInv, OrdersAgree
<1>2. entries \in Seq(Entry) /\ entries[id].price = 0
  BY DEF EngineInv, TypesOK, MarketOnly
<1>3. entries[id].filled \in Nat /\ Booked(entries)[id] = entries[id].filled
  BY <1>2, BookedTypes
<1> QED
  BY <1>1, <1>2, <1>3 DEF Agrees

\* RoundingOneSided for every instance, with any number of fills: the integer average
\* cost never shows less profit than the fills have paid, nor more than a cent per share
\* held for each of the shares bought.
THEOREM RoundingAlwaysOneSided == TradingSpec => []RoundingOneSided
<1>1. EngineInv /\ PositionInv => RoundingOneSided
  <2> SUFFICES ASSUME EngineInv, PositionInv, MarketOnly
               PROVE  /\ risk.realized - RM!Cost(risk) >= cash
                      /\ risk.realized - RM!Cost(risk) <= cash + SharesBought * MaxPosition
    BY DEF RoundingOneSided
  <2>1. RM!Cost(risk) = SumOf(Costs(risk), Symbols)
    <3> DEFINE S == Symbols
               cost == RM!MapThenSumSet(LAMBDA s : risk.qty[s] * risk.avg[s], S)
    <3>1. RM!Cost(risk) = cost
      BY DEF RM!Cost
    <3>2. S \subseteq Symbols /\ Summable(Costs(risk), S)
      BY CostsAreSummable DEF PositionInv
    <3> HIDE DEF S
    <3>3. cost = SumOf(Costs(risk), S)
      BY <3>2, CostIsSum
    <3> QED
      BY <3>1, <3>3 DEF S
  <2>2. risk.realized - RM!Cost(risk) = Profit(risk)
    BY <2>1 DEF Profit
  <2>3. Profit(risk) \in Int /\ cash \in Int /\ Balanced(entries, risk, cash)
    BY ProfitType DEF PositionInv
  <2>4. Slack(entries) <= SharesBought * MaxPosition
        /\ Slack(entries) \in Int /\ SharesBought * MaxPosition \in Int
    <3> DEFINE S == BuyIds(entries)
               x == BookedBuys(entries)
               y == SumOf(executed, S)
               m == MaxPosition
    <3>1. entries \in Seq(Entry)
      BY DEF EngineInv, TypesOK
    <3>2. /\ Summable(Booked(entries), S) /\ x = SumOf(Booked(entries), S) /\ x \in Nat
          /\ IsFiniteSet(S) /\ S \subseteq DOMAIN entries
      BY <3>1, BuysAreSummable DEF BookedBuys
    <3>3. SharesBought = y
      BY DEF SharesBought, BuyIds, SumOf
    <3> HIDE DEF S, x
    <3>4. Summable(executed, S) /\ y \in Nat
      BY <3>2, BookedHasTraded, SumOfNaturals
    <3>5. x <= y
      BY <3>2, <3>4, BookedHasTraded, SumAtMost
    <3>6. Slack(entries) = x * m /\ m \in Nat
      BY ExecutionConstants DEF Slack, x
    <3> HIDE DEF y, m
    <3>7. (y - x) * m \in Nat /\ (y - x) * m = y * m - x * m /\ x * m \in Int /\ y * m \in Int
      BY <3>2, <3>4, <3>5, <3>6
    <3> QED
      BY <3>3, <3>6, <3>7 DEF m
  <2> QED
    BY <2>2, <2>3, <2>4 DEF Balanced
<1> QED
  BY <1>1, PositionInvariant, PTL
-----------------------------------------------------------------------------
(* The order register by itself (OrderManager): whatever                     *)
(* callbacks come, in whatever order, every entry keeps its status, its fills *)
(* and its place in the indexes consistent.  All callbacks act on one entry,  *)
(* so the proofs are about one entry and one callback.                        *)

\* What StatusMatchesFills says of one entry, and what IndexExact does.
Sound(e) ==
  /\ e \in Entry
  /\ e.filled <= e.qty
  /\ e.status = "FILLED" <=> e.filled = e.qty
  /\ e.status \in {"PENDING", "SUBMITTED", "REJECTED"} => e.filled = 0
  /\ e.status = "PARTIAL_FILL" => e.filled > 0
Listed(e) == e.open <=> e.status \notin FinalStatus
Consistent(e) == Sound(e) /\ Listed(e)

\* The inductive invariant; a quantity is positive, so a new order is not FILLED.
RegisterInv ==
  /\ entries \in Seq(Entry)
  /\ \A id \in DOMAIN entries : Consistent(entries[id])

\* What a callback may do to one entry: FollowsDiagram of one entry.
Follows(e, f) ==
  /\ f.status # e.status => <<e.status, f.status>> \in Diagram
  /\ f.filled >= e.filled
  /\ e.status \in FinalStatus => f = e

\* A new order is consistent: new_order starts it PENDING with nothing filled.
LEMMA RegisteredConsistent ==
  ASSUME NEW s \in Symbols, NEW side \in OrderSides, NEW qty \in Quantities
  PROVE  Consistent(Registered(s, side, 0, qty))
<1>1. qty \in Nat /\ qty > 0
  BY OrderConstants
<1>2. QED
  BY <1>1 DEF Consistent, Sound, Listed, Registered, Entry, Status, LiveStatus,
       FinalStatus

\* An entry that stays unfinished stays in the indexes.
LEMMA StaysListed ==
  ASSUME NEW e, Listed(e), e.status \notin FinalStatus,
         NEW f, f.open = e.open, f.status \notin FinalStatus
  PROVE  Listed(f)
BY Zenon DEF Listed

\* An entry that is finished and taken out of the indexes is rightly not in them.
LEMMA Unlisted ==
  ASSUME NEW f, f.open = FALSE, f.status \in FinalStatus
  PROVE  Listed(f)
BY Zenon DEF Listed

\* An entry a callback leaves alone.
LEMMA Untouched ==
  ASSUME NEW e, Consistent(e)
  PROVE  Follows(e, e)
BY DEF Consistent, Sound, Follows, Entry

\* on_accept and on_reject, which act on a PENDING order.
LEMMA AnswerSound ==
  ASSUME NEW e, Consistent(e)
  PROVE  /\ Consistent(Accepted(e)) /\ Follows(e, Accepted(e))
         /\ Consistent(Rejected(e)) /\ Follows(e, Rejected(e))
<1>1. CASE e.status # "PENDING"
  BY <1>1, Untouched DEF Accepted, Rejected
<1>2. CASE e.status = "PENDING"
  <2> DEFINE a == [e EXCEPT !.status = "SUBMITTED"]
             r == [e EXCEPT !.status = "REJECTED", !.open = FALSE]
  <2>1. e \in Entry /\ Accepted(e) = a /\ Rejected(e) = r
    BY <1>2 DEF Accepted, Rejected, Consistent, Sound
  <2>2. Sound(a) /\ Follows(e, a)
    BY <1>2, <2>1 DEF Consistent, Sound, Follows, Entry, Status, LiveStatus,
         FinalStatus, Diagram
  <2>3. Sound(r) /\ Follows(e, r)
    <3>1. r \in Entry /\ r.status = "REJECTED" /\ r.filled = e.filled /\ r.qty = e.qty
      BY <2>1 DEF Entry, Status, FinalStatus
    <3>2. QED
      BY <1>2, <2>1, <3>1 DEF Consistent, Sound, Follows, Entry, FinalStatus, Diagram
  <2>4. Listed(a)
    <3>1. a.open = e.open /\ a.status \notin FinalStatus /\ e.status \notin FinalStatus
      BY <1>2, <2>1 DEF Entry, FinalStatus
    <3>2. QED
      BY <3>1, StaysListed DEF Consistent
  <2>5. Listed(r)
    <3>1. r.open = FALSE /\ r.status \in FinalStatus
      BY <2>1 DEF Entry, FinalStatus
    <3>2. QED
      BY <3>1, Unlisted
  <2>6. QED
    BY <2>1, <2>2, <2>3, <2>4, <2>5 DEF Consistent
<1>3. QED
  BY <1>1, <1>2

\* request_cancel, which acts on a live order.
LEMMA CancelRequestSound ==
  ASSUME NEW e, Consistent(e)
  PROVE  Consistent(CancelRequested(e)) /\ Follows(e, CancelRequested(e))
<1>1. CASE ~Live(e)
  BY <1>1, Untouched DEF CancelRequested
<1>2. CASE Live(e)
  <2> DEFINE f == [e EXCEPT !.status = "PENDING_CANCEL"]
  <2>1. e \in Entry /\ CancelRequested(e) = f
    BY <1>2 DEF CancelRequested, Consistent, Sound
  <2>2. Sound(f) /\ Follows(e, f)
    BY <1>2, <2>1 DEF Consistent, Live, Sound, Follows, Entry, Status,
         LiveStatus, FinalStatus, Diagram
  <2>3. f.open = e.open /\ f.status \notin FinalStatus /\ e.status \notin FinalStatus
    BY <1>2, <2>1 DEF Live, LiveStatus, Entry, FinalStatus
  <2>4. Listed(f)
    BY <2>3, StaysListed DEF Consistent
  <2>5. QED
    BY <2>1, <2>2, <2>4 DEF Consistent
<1>3. QED
  BY <1>1, <1>2

\* on_cancel, which acts on an order whose cancel was requested.
LEMMA CancelSound ==
  ASSUME NEW e, Consistent(e)
  PROVE  Consistent(Cancelled(e)) /\ Follows(e, Cancelled(e))
<1>1. CASE e.status # "PENDING_CANCEL"
  BY <1>1, Untouched DEF Cancelled
<1>2. CASE e.status = "PENDING_CANCEL"
  <2> DEFINE f == [e EXCEPT !.status = "CANCELLED", !.open = FALSE]
  <2>1. e \in Entry /\ Cancelled(e) = f
    BY <1>2 DEF Cancelled, Consistent, Sound
  <2>2. Sound(f) /\ Follows(e, f)
    <3>1. f \in Entry /\ f.status = "CANCELLED" /\ f.filled = e.filled /\ f.qty = e.qty
      BY <2>1 DEF Entry, Status, FinalStatus
    <3>2. QED
      BY <1>2, <2>1, <3>1 DEF Consistent, Sound, Follows, Entry, FinalStatus, Diagram
  <2>3. f.open = FALSE /\ f.status \in FinalStatus
    BY <2>1 DEF Entry, FinalStatus
  <2>4. Listed(f)
    BY <2>3, Unlisted
  <2>5. QED
    BY <2>1, <2>2, <2>4 DEF Consistent
<1>3. QED
  BY <1>1, <1>2

\* on_fill: a clamped fill of positive quantity keeps a live entry consistent.
LEMMA FillSound ==
  ASSUME NEW e, Consistent(e), NEW qty \in Quantities
  PROVE  Consistent(Filled(e, qty)) /\ Follows(e, Filled(e, qty))
<1>1. /\ e \in Entry /\ e.filled \in Nat /\ e.qty \in Nat /\ e.filled <= e.qty
      /\ qty \in Nat /\ qty > 0
  BY OrderConstants DEF Consistent, Sound, Entry
<1>2. CASE ~Live(e)
  BY <1>2, Untouched DEF Filled
<1>3. CASE Live(e) /\ FilledQty(e, qty) >= e.qty
  <2> DEFINE f == [e EXCEPT !.filled = FilledQty(e, qty), !.status = "FILLED", !.open = FALSE]
  <2>1. Filled(e, qty) = f /\ FilledQty(e, qty) = e.qty
    BY <1>1, <1>3 DEF Filled, FilledQty
  <2>2. Sound(f) /\ Follows(e, f)
    BY <1>1, <1>3, <2>1 DEF Consistent, Live, Sound, Follows, Entry, Status,
         LiveStatus, FinalStatus, Diagram
  <2>3. f.open = FALSE /\ f.status \in FinalStatus
    BY <1>1 DEF Entry, FinalStatus
  <2>4. Listed(f)
    BY <2>3, Unlisted
  <2>5. QED
    BY <2>1, <2>2, <2>4 DEF Consistent
<1>4. CASE Live(e) /\ ~(FilledQty(e, qty) >= e.qty)
  <2> DEFINE f == [e EXCEPT !.filled = FilledQty(e, qty), !.status = "PARTIAL_FILL"]
  <2>1. /\ Filled(e, qty) = f
        /\ FilledQty(e, qty) \in Nat
        /\ FilledQty(e, qty) < e.qty /\ FilledQty(e, qty) > e.filled
    BY <1>1, <1>4 DEF Filled, FilledQty
  <2>2. Sound(f) /\ Follows(e, f)
    <3>1. /\ f \in Entry /\ f.status = "PARTIAL_FILL" /\ f.qty = e.qty
          /\ f.filled = FilledQty(e, qty)
      BY <1>1, <2>1 DEF Entry, Status, LiveStatus
    <3>2. /\ e.status \notin FinalStatus
          /\ e.status = f.status \/ <<e.status, f.status>> \in Diagram
      BY <1>4, <3>1 DEF Live, LiveStatus, FinalStatus, Diagram
    <3>3. QED
      BY <1>1, <1>4, <2>1, <3>1, <3>2 DEF Sound, Follows, Live, LiveStatus, FinalStatus
  <2>3. f.open = e.open /\ f.status \notin FinalStatus /\ e.status \notin FinalStatus
    BY <1>1, <1>4 DEF Live, LiveStatus, Entry, FinalStatus
  <2>4. Listed(f)
    BY <2>3, StaysListed DEF Consistent
  <2>5. QED
    BY <2>1, <2>2, <2>4 DEF Consistent
<1>5. QED
  BY <1>2, <1>3, <1>4

\* A callback on one entry that is sound for it keeps the register sound.
LEMMA OneCallbackStep ==
  ASSUME RegisterInv, NEW id \in DOMAIN entries, NEW f,
         Consistent(f), Follows(entries[id], f),
         entries' = [entries EXCEPT ![id] = f]
  PROVE  RegisterInv' /\ \A i \in DOMAIN entries : Follows(entries[i], entries'[i])
<1>1. f \in Entry
  BY DEF Consistent, Sound
<1>2. entries' \in Seq(Entry) /\ DOMAIN entries' = DOMAIN entries
  BY <1>1 DEF RegisterInv
<1>3. \A i \in DOMAIN entries : entries'[i] = IF i = id THEN f ELSE entries[i]
  OBVIOUS
<1>4. \A i \in DOMAIN entries : entries[i] \in Entry /\ Follows(entries[i], entries[i])
  BY Untouched DEF RegisterInv, Consistent, Sound
<1>5. QED
  BY <1>2, <1>3, <1>4 DEF RegisterInv

\* Every step keeps the invariant and follows the diagram.
LEMMA StepSound ==
  ASSUME RegisterInv, [Next]_entries
  PROVE  RegisterInv' /\ \A i \in DOMAIN entries : Follows(entries[i], entries'[i])
<1>1. \A i \in DOMAIN entries : entries[i] \in Entry /\ Follows(entries[i], entries[i])
  BY Untouched DEF RegisterInv, Consistent, Sound
<1>2. CASE NewOrder
  <2>1. PICK s \in Symbols, side \in OrderSides, qty \in Quantities :
          entries' = Append(entries, Registered(s, side, 0, qty))
    BY <1>2 DEF NewOrder
  <2>2. Consistent(Registered(s, side, 0, qty)) /\ Registered(s, side, 0, qty) \in Entry
    BY RegisteredConsistent DEF Consistent, Sound
  <2>3. QED
    BY <1>1, <2>1, <2>2 DEF RegisterInv
<1>3. CASE OnAccept
  <2>1. PICK id \in DOMAIN entries : entries' = [entries EXCEPT ![id] = Accepted(entries[id])]
    BY <1>3 DEF OnAccept
  <2>2. Consistent(entries[id])
    BY DEF RegisterInv
  <2>3. Consistent(Accepted(entries[id])) /\ Follows(entries[id], Accepted(entries[id]))
    BY <2>2, AnswerSound
  <2>4. QED
    BY <2>1, <2>3, OneCallbackStep
<1>4. CASE OnFill
  <2>1. PICK id \in DOMAIN entries, qty \in Quantities :
          entries' = [entries EXCEPT ![id] = Filled(entries[id], qty)]
    BY <1>4 DEF OnFill
  <2>2. Consistent(entries[id])
    BY DEF RegisterInv
  <2>3. Consistent(Filled(entries[id], qty))
        /\ Follows(entries[id], Filled(entries[id], qty))
    BY <2>2, FillSound
  <2>4. QED
    BY <2>1, <2>3, OneCallbackStep
<1>5. CASE RequestCancel
  <2>1. PICK id \in DOMAIN entries :
          entries' = [entries EXCEPT ![id] = CancelRequested(entries[id])]
    BY <1>5 DEF RequestCancel
  <2>2. Consistent(entries[id])
    BY DEF RegisterInv
  <2>3. Consistent(CancelRequested(entries[id]))
        /\ Follows(entries[id], CancelRequested(entries[id]))
    BY <2>2, CancelRequestSound
  <2>4. QED
    BY <2>1, <2>3, OneCallbackStep
<1>6. CASE OnCancel
  <2>1. PICK id \in DOMAIN entries : entries' = [entries EXCEPT ![id] = Cancelled(entries[id])]
    BY <1>6 DEF OnCancel
  <2>2. Consistent(entries[id])
    BY DEF RegisterInv
  <2>3. Consistent(Cancelled(entries[id])) /\ Follows(entries[id], Cancelled(entries[id]))
    BY <2>2, CancelSound
  <2>4. QED
    BY <2>1, <2>3, OneCallbackStep
<1>7. CASE OnReject
  <2>1. PICK id \in DOMAIN entries : entries' = [entries EXCEPT ![id] = Rejected(entries[id])]
    BY <1>7 DEF OnReject
  <2>2. Consistent(entries[id])
    BY DEF RegisterInv
  <2>3. Consistent(Rejected(entries[id])) /\ Follows(entries[id], Rejected(entries[id]))
    BY <2>2, AnswerSound
  <2>4. QED
    BY <2>1, <2>3, OneCallbackStep
<1>8. CASE UNCHANGED entries
  BY <1>1, <1>8 DEF RegisterInv
<1>9. QED
  BY <1>2, <1>3, <1>4, <1>5, <1>6, <1>7, <1>8 DEF Next

\* The register is consistent in every reachable state, whatever callbacks came
\* in whatever order.
THEOREM RegisterInvariant == Spec => []RegisterInv
<1>1. Init => RegisterInv
  BY DEF Init, RegisterInv
<1>2. RegisterInv /\ [Next]_entries => RegisterInv'
  BY StepSound
<1>3. QED
  BY <1>1, <1>2, PTL DEF Spec

\* Status and filled quantity of every order tell the same story, however late,
\* repeated or unasked the reports to on_fill, on_cancel and on_reject are.
THEOREM StatusAlwaysMatchesFills == Spec => []StatusMatchesFills
<1>1. RegisterInv => StatusMatchesFills
  BY DEF RegisterInv, Consistent, Sound, StatusMatchesFills
<1>2. QED
  BY <1>1, RegisterInvariant, PTL

\* The indexes behind open_orders always hold exactly the unfinished orders.
THEOREM IndexAlwaysExact == Spec => []IndexExact
<1>1. RegisterInv => IndexExact
  BY DEF RegisterInv, Consistent, Listed, IndexExact
<1>2. QED
  BY <1>1, RegisterInvariant, PTL

\* Every change of a status is an arrow of the documented state machine, and no
\* callback takes back a fill or touches a finished order.
THEOREM DiagramFollowed == Spec => FollowsDiagram
<1>1. RegisterInv /\ [Next]_entries =>
        [\A id \in DOMAIN entries :
           /\ entries'[id].status # entries[id].status =>
                <<entries[id].status, entries'[id].status>> \in Diagram
           /\ entries'[id].filled >= entries[id].filled
           /\ entries[id].status \in FinalStatus => entries'[id] = entries[id]]_entries
  BY StepSound DEF Follows
<1>2. QED
  BY <1>1, RegisterInvariant, PTL DEF Spec, FollowsDiagram
=============================================================================
