--------------------------- MODULE SimWorkerProofs ---------------------------
(***************************************************************************)
(* Theorems about SimWorker, for any locates, quantities, thresholds,       *)
(* weights and number of workers: the replay's segments, the sums and the   *)
(* drift of the order flow, what backs an order and how often it is sent.   *)
(***************************************************************************)
EXTENDS SimWorker, SetSums

\* s holds the running sums of g: the recursive function inside SumTo.
RunsTo(s, g, n) == s = [i \in 0..n |-> IF i = 0 THEN 0 ELSE s[i - 1] + g[i]]

\* A running sum is a sum over a set, in whatever order.
LEMMA RunningSum ==
  ASSUME NEW n \in Nat, NEW g, \A i \in 1..n : g[i] \in Int
  PROVE  /\ Summable(g, 1..n)
         /\ \E s : RunsTo(s, g, n)
         /\ \A s : RunsTo(s, g, n) => s[n] = SumOf(g, 1..n)
<1>1. \A i \in 0..n : Summable(g, 1..i)
  <2>1. \A i \in 0..n : IsFiniteSet(1..i)
    BY FS_Interval
  <2> QED
    BY <2>1 DEF Summable
<1>2. ASSUME NEW i \in 1..n
      PROVE  SumOf(g, 1..i) = SumOf(g, 1..(i - 1)) + g[i] /\ SumOf(g, 1..(i - 1)) \in Int
  <2>1. i - 1 \in 0..n /\ 1..i = (1..(i - 1)) \cup {i} /\ i \notin 1..(i - 1)
    OBVIOUS
  <2>2. Summable(g, 1..(i - 1))
    BY <1>1, <2>1
  <2>3. g[i] \in Int
    OBVIOUS
  <2>4. SumOf(g, (1..(i - 1)) \cup {i}) = g[i] + SumOf(g, 1..(i - 1))
    BY <2>1, <2>2, <2>3, SumWith
  <2>5. SumOf(g, 1..(i - 1)) \in Int
    BY <2>2, SumType
  <2>6. SumOf(g, 1..i) = SumOf(g, (1..(i - 1)) \cup {i})
    BY <2>1
  <2> QED
    BY <2>3, <2>4, <2>5, <2>6
<1>3. SumOf(g, 1..0) = 0
  <2>1. 1..0 = {}
    OBVIOUS
  <2> QED
    BY <2>1, SumEmpty
<1>4. \E s : RunsTo(s, g, n)
  <2> DEFINE s == [i \in 0..n |-> SumOf(g, 1..i)]
  <2>1. \A i \in 0..n : SumOf(g, 1..i) = IF i = 0 THEN 0 ELSE s[i - 1] + g[i]
    BY <1>2, <1>3
  <2>2. RunsTo(s, g, n)
    BY <2>1 DEF RunsTo
  <2> QED
    BY <2>2
<1>5. ASSUME NEW s, RunsTo(s, g, n), s[n] # SumOf(g, 1..n)
      PROVE  FALSE
  <2> DEFINE Bad == {i \in 0..n : s[i] # SumOf(g, 1..i)}
  <2>1. Bad \in SUBSET Nat /\ Bad # {}
    BY <1>5
  <2>2. PICK i \in Bad : \A j \in Bad : i <= j
    BY <2>1, LeastNat
  <2>3. s[0] = 0 /\ \A j \in 1..n : s[j] = s[j - 1] + g[j]
    BY <1>5 DEF RunsTo
  <2>4. i # 0
    BY <1>3, <2>3
  <2>5. i \in 1..n /\ i - 1 \in 0..n /\ i - 1 \notin Bad
    BY <2>2, <2>4
  <2>6. s[i - 1] = SumOf(g, 1..(i - 1))
    BY <2>5
  <2> QED
    BY <1>2, <2>3, <2>5, <2>6
<1>6. n \in 0..n
  OBVIOUS
<1> QED
  BY <1>1, <1>4, <1>5, <1>6

\* The contributions of a window, summed.
SeqSum(q) == SumTo(Len(q), LAMBDA i : q[i])

LEMMA SeqSumIsSum ==
  ASSUME NEW q \in Seq(Int)
  PROVE  SeqSum(q) = SumOf(q, 1..Len(q)) /\ Summable(q, 1..Len(q)) /\ SeqSum(q) \in Int
<1>1. Len(q) \in Nat /\ \A i \in 1..Len(q) : q[i] \in Int
  OBVIOUS
<1>2. PICK s : RunsTo(s, q, Len(q))
  BY <1>1, RunningSum
<1> DEFINE t == CHOOSE t : RunsTo(t, q, Len(q))
<1>3. RunsTo(t, q, Len(q))
  BY <1>2
<1>4. SeqSum(q) = t[Len(q)]
  BY DEF SeqSum, SumTo, RunsTo
<1> HIDE DEF t
<1>5. t[Len(q)] = SumOf(q, 1..Len(q)) /\ Summable(q, 1..Len(q))
  BY <1>1, <1>3, RunningSum
<1> QED
  BY <1>4, <1>5, SumType

\* A contribution more.
LEMMA SumOfAppended ==
  ASSUME NEW q \in Seq(Int), NEW d \in Int
  PROVE  Append(q, d) \in Seq(Int) /\ SeqSum(Append(q, d)) = SeqSum(q) + d
<1> DEFINE a == Append(q, d)
           n == Len(q)
<1>1. a \in Seq(Int) /\ Len(a) = n + 1 /\ a[n + 1] = d /\ n \in Nat
      /\ \A i \in 1..n : a[i] = q[i]
  OBVIOUS
<1>2. SeqSum(a) = SumOf(a, 1..Len(a)) /\ Summable(a, 1..Len(a)) /\ SeqSum(a) \in Int
  BY <1>1, SeqSumIsSum
<1>3. SeqSum(q) = SumOf(q, 1..n) /\ Summable(q, 1..n) /\ SeqSum(q) \in Int
  BY SeqSumIsSum
<1> HIDE DEF a, n
<1>4. n + 1 \in 1..Len(a) /\ (1..Len(a)) \ {n + 1} = 1..n
  BY <1>1
<1>5. SumOf(a, 1..Len(a)) = a[n + 1] + SumOf(a, (1..Len(a)) \ {n + 1})
  BY <1>2, <1>4, SumWithout
<1>6. SumOf(a, 1..n) = SumOf(q, 1..n)
  BY <1>1, <1>3, SumSame
<1>7. SeqSum(a) = a[n + 1] + SumOf(a, 1..n)
  BY <1>2, <1>4, <1>5
<1>8. SeqSum(a) = SeqSum(q) + d
  BY <1>1, <1>3, <1>6, <1>7
<1> QED
  BY <1>1, <1>8 DEF a

\* The oldest contribution less: the running sums behind it all lack it.
LEMMA SumOfTail ==
  ASSUME NEW q \in Seq(Int), q # <<>>
  PROVE  Tail(q) \in Seq(Int) /\ SeqSum(Tail(q)) = SeqSum(q) - q[1]
<1> DEFINE t == Tail(q)
           n == Len(t)
<1>1. /\ t \in Seq(Int) /\ n \in Nat /\ Len(q) = n + 1 /\ q[1] \in Int
      /\ \A i \in 1..n : t[i] = q[i + 1]
      /\ \A i \in 1..(n + 1) : q[i] \in Int
  OBVIOUS
<1> HIDE DEF t
<1>2. SeqSum(t) = SumOf(t, 1..n) /\ \A i \in 1..n : t[i] \in Int
  BY <1>1, SeqSumIsSum
<1>3. SeqSum(q) = SumOf(q, 1..(n + 1)) /\ SeqSum(q) \in Int
  BY <1>1, SeqSumIsSum
<1> HIDE DEF n
<1>4. PICK s : RunsTo(s, q, n + 1)
  BY <1>1, RunningSum, n + 1 \in Nat
<1>5. s[n + 1] = SumOf(q, 1..(n + 1))
  BY <1>1, <1>4, RunningSum, n + 1 \in Nat
<1> DEFINE r == [i \in 0..n |-> s[i + 1] - q[1]]
<1>6. s[0] = 0 /\ \A i \in 1..(n + 1) : s[i] = s[i - 1] + q[i]
  BY <1>1, <1>4 DEF RunsTo
<1>7. \A i \in 0..(n + 1) : s[i] \in Int
  <2> SUFFICES ASSUME NEW k \in 0..(n + 1), s[k] \notin Int PROVE FALSE
    OBVIOUS
  <2> DEFINE Bad == {i \in 0..(n + 1) : s[i] \notin Int}
  <2>1. Bad \in SUBSET Nat /\ Bad # {}
    OBVIOUS
  <2>2. PICK i \in Bad : \A j \in Bad : i <= j
    BY <2>1, LeastNat
  <2>3. i # 0
    BY <1>6
  <2>4. i \in 1..(n + 1) /\ i - 1 \in 0..(n + 1) /\ i - 1 \notin Bad
    BY <1>1, <2>2, <2>3
  <2> QED
    BY <1>1, <1>6, <2>4
<1>8. RunsTo(r, t, n)
  <2>1. s[1] = q[1]
    <3>1. 1 \in 1..(n + 1) /\ 1 - 1 = 0
      BY <1>1
    <3>2. s[1] = s[1 - 1] + q[1]
      BY <1>6, <3>1
    <3> QED
      BY <1>1, <1>6, <3>1, <3>2
  <2>2. ASSUME NEW i \in 0..n
        PROVE  s[i + 1] - q[1] = IF i = 0 THEN 0 ELSE r[i - 1] + t[i]
    <3>1. CASE i = 0
      BY <1>1, <2>1, <3>1
    <3>2. CASE i # 0
      <4>1. i \in 1..n /\ i + 1 \in 1..(n + 1) /\ i - 1 \in 0..n /\ (i + 1) - 1 = i
            /\ (i - 1) + 1 = i /\ i \in 0..(n + 1)
        BY <1>1, <3>2
      <4>2. s[i + 1] = s[(i + 1) - 1] + q[i + 1]
        BY <1>6, <4>1
      <4>3. r[i - 1] = s[(i - 1) + 1] - q[1]
        BY <4>1
      <4>4. s[i + 1] = s[i] + t[i] /\ r[i - 1] = s[i] - q[1] /\ t[i] \in Int /\ s[i] \in Int
        BY <1>1, <1>2, <1>7, <4>1, <4>2, <4>3
      <4> QED
        BY <1>1, <3>2, <4>4
    <3> QED
      BY <3>1, <3>2
  <2> QED
    BY <2>2 DEF RunsTo
<1>9. r[n] = s[n + 1] - q[1]
  BY <1>1
<1> HIDE DEF r
<1>10. r[n] = SumOf(t, 1..n)
  BY <1>1, <1>2, <1>8, RunningSum
<1>11. SeqSum(t) = SeqSum(q) - q[1]
  BY <1>2, <1>3, <1>5, <1>9, <1>10
<1> QED
  BY <1>1, <1>11 DEF t

\* The sums over the two strategies, which are only the voters'.
LEMMA SumOverTwo ==
  ASSUME NEW V \in SUBSET (1..2), NEW w \in Workers,
         \A i \in 1..2 : Signals(w)[i].strength \in Int
  PROVE  /\ WeightOf(V) = (IF 1 \in V THEN Weights[1] ELSE 0)
                          + (IF 2 \in V THEN Weights[2] ELSE 0)
         /\ SumOver(V, LAMBDA i : Signals(w)[i].strength * Weights[i])
              = (IF 1 \in V THEN Signals(w)[1].strength * Weights[1] ELSE 0)
                + (IF 2 \in V THEN Signals(w)[2].strength * Weights[2] ELSE 0)
<1>1. Weights[1] \in Nat /\ Weights[2] \in Nat
  BY WorkerConstants
<1> DEFINE g == [i \in 1..2 |-> IF i \in V THEN Weights[i] ELSE 0]
           h == [i \in 1..2 |-> IF i \in V THEN Signals(w)[i].strength * Weights[i] ELSE 0]
<1>2. WeightOf(V) = (IF 1 \in V THEN Weights[1] ELSE 0) + (IF 2 \in V THEN Weights[2] ELSE 0)
  <2> DEFINE t == CHOOSE s : s = [i \in 0..2 |->
                    IF i = 0 THEN 0 ELSE s[i - 1] + IF i \in V THEN Weights[i] ELSE 0]
  <2>1. WeightOf(V) = t[2]
    BY DEF WeightOf, SumOver, SumTo
  <2>2. \A i \in 1..2 : g[i] \in Int
    BY <1>1
  <2>3. PICK s : RunsTo(s, g, 2)
    BY <2>2, RunningSum
  <2>4. s = [i \in 0..2 |-> IF i = 0 THEN 0 ELSE s[i - 1] + IF i \in V THEN Weights[i] ELSE 0]
    BY <2>3 DEF RunsTo
  <2>5. t = [i \in 0..2 |-> IF i = 0 THEN 0 ELSE t[i - 1] + IF i \in V THEN Weights[i] ELSE 0]
    BY <2>4
  <2> HIDE DEF t
  <2>6. t[0] = 0 /\ t[1] = t[0] + (IF 1 \in V THEN Weights[1] ELSE 0)
        /\ t[2] = t[1] + (IF 2 \in V THEN Weights[2] ELSE 0)
    BY <2>5
  <2> QED
    BY <1>1, <2>1, <2>6
<1>3. SumOver(V, LAMBDA i : Signals(w)[i].strength * Weights[i])
        = (IF 1 \in V THEN Signals(w)[1].strength * Weights[1] ELSE 0)
          + (IF 2 \in V THEN Signals(w)[2].strength * Weights[2] ELSE 0)
  <2> DEFINE t == CHOOSE s : s = [i \in 0..2 |->
                    IF i = 0 THEN 0
                    ELSE s[i - 1] + IF i \in V THEN Signals(w)[i].strength * Weights[i] ELSE 0]
  <2>1. SumOver(V, LAMBDA i : Signals(w)[i].strength * Weights[i]) = t[2]
    BY DEF SumOver, SumTo
  <2>2. \A i \in 1..2 : h[i] \in Int
    BY <1>1
  <2>3. PICK s : RunsTo(s, h, 2)
    BY <2>2, RunningSum
  <2>4. s = [i \in 0..2 |->
              IF i = 0 THEN 0
              ELSE s[i - 1] + IF i \in V THEN Signals(w)[i].strength * Weights[i] ELSE 0]
    BY <2>3 DEF RunsTo
  <2>5. t = [i \in 0..2 |->
              IF i = 0 THEN 0
              ELSE t[i - 1] + IF i \in V THEN Signals(w)[i].strength * Weights[i] ELSE 0]
    BY <2>4
  <2> HIDE DEF t
  <2> DEFINE p == IF 1 \in V THEN Signals(w)[1].strength * Weights[1] ELSE 0
             q == IF 2 \in V THEN Signals(w)[2].strength * Weights[2] ELSE 0
  <2>6. t[0] = 0 /\ t[1] = t[0] + p /\ t[2] = t[1] + q
    BY <2>5
  <2>7. p \in Int /\ q \in Int
    BY <1>1
  <2> HIDE DEF p, q
  <2>8. t[2] = p + q
    BY <2>6, <2>7
  <2> QED
    BY <2>1, <2>8 DEF p, q
<1> QED
  BY <1>2, <1>3
-----------------------------------------------------------------------------
\* A quotient lies where its dividend does.
LEMMA DivBetween ==
  ASSUME NEW c \in Nat \ {0}, NEW n \in Nat, NEW lo \in Nat, NEW hi \in Nat,
         lo * c <= n, n <= hi * c
  PROVE  n \div c \in Nat /\ lo <= n \div c /\ n \div c <= hi
<1> DEFINE q == n \div c
           r == n % c
<1>1. q \in Nat /\ r \in 0..(c - 1) /\ n = c * q + r
  BY Euclid
<1> HIDE DEF q, r
<1>2. CASE q < lo
  <2>1. c * (lo - q) >= c
    BY <1>1, <1>2
  <2>2. c * (lo - q) = lo * c - c * q
    BY <1>1
  <2> QED
    BY <1>1, <2>1, <2>2
<1>3. CASE q > hi
  <2>1. c * (q - hi) >= c
    BY <1>1, <1>3
  <2>2. c * (q - hi) = c * q - hi * c
    BY <1>1
  <2> QED
    BY <1>1, <2>1, <2>2
<1> QED
  BY <1>1, <1>2, <1>3 DEF q

\* The signals a strategy can give.
Signal(s) == s.side \in Sides \cup {"NONE"} /\ s.strength \in 0..Scale

\* arbitrate_decide, whatever the weights: a side that is chosen has voters, outweighs
\* the other, and gets a strength between those of its voters.
LEMMA DecisionBacked ==
  ASSUME NEW w \in Workers, Signal(flow[w]), Signal(imbalance[w]), Direction(w) # "NONE"
  PROVE  LET side == Direction(w)
             given == {Signals(w)[i].strength : i \in Voters(w, side)}
         IN  /\ side \in Sides /\ given # {}
             /\ WeightOf(Voters(w, side)) > WeightOf(Voters(w, Opposite(side)))
             /\ \E s \in given : s <= Strength(w)
             /\ \E s \in given : s >= Strength(w)
             /\ Strength(w) \in 0..Scale
<1> DEFINE side == Direction(w)
           V == Voters(w, side)
           O == Voters(w, Opposite(side))
           a == Signals(w)[1].strength
           b == Signals(w)[2].strength
           x == Weights[1]
           y == Weights[2]
<1>1. x \in Nat /\ y \in Nat /\ VoteThreshold \in Nat /\ Scale \in Nat
  BY WorkerConstants
<1>2. a \in 0..Scale /\ b \in 0..Scale /\ \A i \in 1..2 : Signals(w)[i].strength \in Int
  BY <1>1 DEF Signals, Signal
<1>3. \A U \in SUBSET (1..2) :
        WeightOf(U) = (IF 1 \in U THEN x ELSE 0) + (IF 2 \in U THEN y ELSE 0)
  BY <1>2, SumOverTwo
<1>4. \A d : Voters(w, d) \in SUBSET (1..2)
  BY DEF Voters
<1>5. \A d : WeightOf(Voters(w, d)) \in Nat
  BY <1>1, <1>3, <1>4
<1>6. side \in Sides /\ WeightOf(V) > WeightOf(O)
  <2> DEFINE B == WeightOf(Voters(w, "BUY"))
             S == WeightOf(Voters(w, "SELL"))
  <2>1. B \in Nat /\ S \in Nat
    BY <1>5
  <2>2. Direction(w) = IF B - S > VoteThreshold THEN "BUY"
                       ELSE IF B - S < -VoteThreshold THEN "SELL" ELSE "NONE"
    BY DEF Direction
  <2>3. CASE B - S > VoteThreshold
    <3>1. side = "BUY" /\ Opposite(side) = "SELL"
      BY <2>2, <2>3 DEF Opposite
    <3>2. B > S
      BY <1>1, <2>1, <2>3
    <3> QED
      BY <3>1, <3>2 DEF Sides
  <2>4. CASE ~(B - S > VoteThreshold) /\ B - S < -VoteThreshold
    <3>1. side = "SELL" /\ Opposite(side) = "BUY"
      BY <2>2, <2>4 DEF Opposite
    <3>2. S > B
      BY <1>1, <2>1, <2>4
    <3> QED
      BY <3>1, <3>2 DEF Sides
  <2> QED
    BY <2>2, <2>3, <2>4
<1>7. WeightOf(V) > 0 /\ V \in SUBSET (1..2) /\ WeightOf(V) \in Nat
  BY <1>4, <1>5, <1>6
<1>8. Strength(w) = ((IF 1 \in V THEN a * x ELSE 0) + (IF 2 \in V THEN b * y ELSE 0)) \div WeightOf(V)
  BY <1>2, <1>7, SumOverTwo DEF Strength
<1>9. \A i \in V : Signals(w)[i].strength \in {Signals(w)[j].strength : j \in Voters(w, side)}
  OBVIOUS
<1> HIDE DEF V, O, a, b, x, y, side
<1>10. \E s, t \in {Signals(w)[i].strength : i \in V} :
         s <= Strength(w) /\ Strength(w) <= t /\ Strength(w) \in 0..Scale
  <2>1. CASE V = {1}
    <3>1. Strength(w) = (a * x) \div x /\ x \in Nat \ {0}
      <4>1. WeightOf(V) = x /\ (IF 1 \in V THEN a * x ELSE 0) + (IF 2 \in V THEN b * y ELSE 0) = a * x
        BY <1>1, <1>2, <1>3, <1>7, <2>1
      <4> QED
        BY <1>1, <1>7, <1>8, <4>1
    <3>2. a * x \in Nat /\ a \in Nat /\ a * x <= a * x
      BY <1>1, <1>2
    <3>3. Strength(w) \in Nat /\ a <= Strength(w) /\ Strength(w) <= a
      BY <3>1, <3>2, DivBetween
    <3>4. a \in {Signals(w)[i].strength : i \in V}
      BY <2>1 DEF a
    <3> QED
      BY <1>1, <1>2, <3>3, <3>4
  <2>2. CASE V = {2}
    <3>1. Strength(w) = (b * y) \div y /\ y \in Nat \ {0}
      <4>1. WeightOf(V) = y /\ (IF 1 \in V THEN a * x ELSE 0) + (IF 2 \in V THEN b * y ELSE 0) = b * y
        BY <1>1, <1>2, <1>3, <1>7, <2>2
      <4> QED
        BY <1>1, <1>7, <1>8, <4>1
    <3>2. b * y \in Nat /\ b \in Nat /\ b * y <= b * y
      BY <1>1, <1>2
    <3>3. Strength(w) \in Nat /\ b <= Strength(w) /\ Strength(w) <= b
      BY <3>1, <3>2, DivBetween
    <3>4. b \in {Signals(w)[i].strength : i \in V}
      BY <2>2 DEF b
    <3> QED
      BY <1>1, <1>2, <3>3, <3>4
  <2>3. CASE V = {1, 2}
    <3>1. Strength(w) = (a * x + b * y) \div (x + y) /\ x + y \in Nat \ {0}
      BY <1>1, <1>3, <1>7, <1>8, <2>3
    <3>2. a * x + b * y \in Nat /\ a \in Nat /\ b \in Nat
      BY <1>1, <1>2
    <3>3. a \in {Signals(w)[i].strength : i \in V} /\ b \in {Signals(w)[i].strength : i \in V}
      BY <2>3 DEF a, b
    <3>4. CASE a <= b
      <4>1. a * (x + y) <= a * x + b * y /\ a * x + b * y <= b * (x + y)
        <5>1. (b - a) * y >= 0 /\ (b - a) * x >= 0
          BY <1>1, <3>2, <3>4
        <5> QED
          BY <1>1, <3>2, <5>1
      <4>2. Strength(w) \in Nat /\ a <= Strength(w) /\ Strength(w) <= b
        BY <3>1, <3>2, <4>1, DivBetween
      <4> QED
        BY <1>1, <1>2, <3>3, <4>2
    <3>5. CASE b <= a
      <4>1. b * (x + y) <= a * x + b * y /\ a * x + b * y <= a * (x + y)
        <5>1. (a - b) * y >= 0 /\ (a - b) * x >= 0
          BY <1>1, <3>2, <3>5
        <5> QED
          BY <1>1, <3>2, <5>1
      <4>2. Strength(w) \in Nat /\ b <= Strength(w) /\ Strength(w) <= a
        BY <3>1, <3>2, <4>1, DivBetween
      <4> QED
        BY <1>1, <1>2, <3>3, <4>2
    <3> QED
      BY <3>2, <3>4, <3>5
  <2>4. V # {}
    BY <1>1, <1>3, <1>7
  <2>5. V = {1} \/ V = {2} \/ V = {1, 2}
    <3>1. 1..2 = {1, 2}
      OBVIOUS
    <3> QED
      BY <1>7, <2>4, <3>1
  <2> QED
    BY <2>1, <2>2, <2>3, <2>5
<1> QED
  BY <1>6, <1>10 DEF V, O, side
-----------------------------------------------------------------------------
(* The replay's segments.                                                  *)

\* The counters of ReplayEngine::run, at every stage.
ReplayInv ==
  /\ stage \in {"feeding", "window", "tail", "done"}
  /\ total \in Nat /\ segMsg \in Nat /\ segments \in Nat
  /\ stage = "feeding" => segMsg < SegmentSize
  /\ stage = "window" => segMsg = SegmentSize
  /\ stage = "tail" => 0 < segMsg /\ segMsg < SegmentSize
  /\ stage # "done" => total = segments * SegmentSize + segMsg
  /\ stage = "done" => segments = (total + SegmentSize - 1) \div SegmentSize

\* A number of full segments and a rest fill as many segments, and one if there is a
\* rest.
LEMMA SegmentsNeeded ==
  ASSUME NEW n \in Nat, NEW r \in 0..(SegmentSize - 1)
  PROVE  (n * SegmentSize + r + SegmentSize - 1) \div SegmentSize = IF r = 0 THEN n ELSE n + 1
<1> DEFINE c == SegmentSize
           k == IF r = 0 THEN n ELSE n + 1
           m == n * c + r + c - 1
<1>1. c \in Nat \ {0}
  BY WorkerConstants
<1>2. m \in Nat /\ k \in Nat
  BY <1>1
<1>3. m = c * (m \div c) + (m % c) /\ m % c \in 0..(c - 1) /\ m \div c \in Nat
  BY <1>1, <1>2, Euclid
<1>4. \E s \in 0..(c - 1) : m = c * k + s
  <2>1. CASE r = 0
    <3>1. m = c * n + (c - 1) /\ c - 1 \in 0..(c - 1)
      BY <1>1, <2>1
    <3> QED
      BY <2>1, <3>1
  <2>2. CASE r # 0
    <3>1. c * (n + 1) = c * n + c
      BY <1>1
    <3>2. m = c * (n + 1) + (r - 1) /\ r - 1 \in 0..(c - 1)
      BY <1>1, <2>2, <3>1
    <3> QED
      BY <2>2, <3>2
  <2> QED
    BY <2>1, <2>2
<1>5. PICK s \in 0..(c - 1) : m = c * k + s
  BY <1>4
<1> DEFINE d == m \div c
           t == m % c
<1> HIDE DEF m, k, d, t
<1>6. d = k
  <2>1. m = c * d + t /\ t \in 0..(c - 1) /\ d \in Nat
    BY <1>3 DEF d, t
  <2>2. CASE d < k
    <3>1. c * (k - d) >= c /\ c * (k - d) = c * k - c * d
      BY <1>1, <1>2, <2>1, <2>2
    <3> QED
      BY <1>1, <1>2, <1>5, <2>1, <3>1
  <2>3. CASE d > k
    <3>1. c * (d - k) >= c /\ c * (d - k) = c * d - c * k
      BY <1>1, <1>2, <2>1, <2>3
    <3> QED
      BY <1>1, <1>2, <1>5, <2>1, <3>1
  <2> QED
    BY <1>2, <2>1, <2>2, <2>3
<1> QED
  BY <1>6 DEF m, k, d

\* Each step keeps the counters right.
LEMMA ReplayStep ==
  ASSUME ReplayInv, [Next]_vars
  PROVE  ReplayInv'
<1>1. SegmentSize \in Nat \ {0}
  BY WorkerConstants
<1>2. CASE Counted
  BY <1>1, <1>2 DEF ReplayInv, Counted
<1>3. CASE EndInput
  <2>1. total' = total /\ segMsg' = segMsg /\ segments' = segments /\ stage = "feeding"
        /\ stage' = IF segMsg > 0 THEN "tail" ELSE "done"
    BY <1>3 DEF EndInput
  <2>2. CASE segMsg > 0
    BY <1>1, <2>1, <2>2 DEF ReplayInv
  <2>3. CASE segMsg = 0
    <3>1. segments = (segments * SegmentSize + 0 + SegmentSize - 1) \div SegmentSize
      BY <1>1, <2>3, SegmentsNeeded DEF ReplayInv
    <3>2. total = segments * SegmentSize + 0
      BY <2>1, <2>3 DEF ReplayInv
    <3>3. stage' = "done"
      BY <2>1, <2>3
    <3> QED
      BY <2>1, <3>1, <3>2, <3>3 DEF ReplayInv
  <2> QED
    BY <2>2, <2>3 DEF ReplayInv
<1>4. CASE EndWindow
  <2>1. /\ total' = total /\ segments' = segments + 1 /\ stage \in {"window", "tail"}
        /\ segMsg' = IF stage = "window" THEN 0 ELSE segMsg
        /\ stage' = IF stage = "window" THEN "feeding" ELSE "done"
    BY <1>4 DEF EndWindow, NextSegment
  <2>2. CASE stage = "window"
    <3>1. total = segments * SegmentSize + SegmentSize /\ segments \in Nat
      BY <2>2 DEF ReplayInv
    <3>2. (segments + 1) * SegmentSize = segments * SegmentSize + SegmentSize
      BY <1>1, <3>1
    <3> QED
      BY <1>1, <2>1, <2>2, <3>1, <3>2 DEF ReplayInv
  <2>3. CASE stage = "tail"
    <3>1. segMsg \in 0..(SegmentSize - 1) /\ segMsg # 0 /\ segments \in Nat
          /\ total = segments * SegmentSize + segMsg
      BY <1>1, <2>3 DEF ReplayInv
    <3>2. (segments * SegmentSize + segMsg + SegmentSize - 1) \div SegmentSize = segments + 1
      BY <3>1, SegmentsNeeded
    <3>3. stage' = "done" /\ segMsg' = segMsg
      BY <2>1, <2>3
    <3> QED
      BY <2>1, <3>1, <3>2, <3>3 DEF ReplayInv
  <2> QED
    BY <2>1, <2>2, <2>3
<1>5. CASE UNCHANGED <<stage, total, segMsg, segments>>
  BY <1>5 DEF ReplayInv
<1>6. Add \/ Withdraw \/ Replace \/ Other => Counted
  BY DEF Add, Withdraw, Replace, Other
<1>7. Arbitrate => UNCHANGED <<stage, total, segMsg, segments>>
  BY DEF Arbitrate, Hold, SendInVain, SendAndTrade, MyTurn
<1> QED
  BY <1>2, <1>3, <1>4, <1>5, <1>6, <1>7 DEF Next, vars, replayVars

\* However long the input, each of its messages is in one segment, every segment has
\* had its window when the replay is over, and a short last one is no exception
\* (ReplayEngine::run).
THEOREM SegmentsAlwaysTile == Spec => []SegmentsTile
<1>1. Init => ReplayInv
  BY WorkerConstants DEF Init, ReplayInv
<1>2. ReplayInv /\ [Next]_vars => ReplayInv'
  BY ReplayStep
<1>3. ReplayInv => SegmentsTile
  BY DEF ReplayInv, SegmentsTile
<1> QED
  BY <1>1, <1>2, <1>3, PTL DEF Spec
-----------------------------------------------------------------------------
(* The events of a step, one after the other.                              *)

\* An order of the market view, and an event of it: D, X and E name an order the view
\* has had, and so does a replace.
MarketOrder == [locate : Locates, side : Sides, rem : Nat]
Valid(book, e) ==
  /\ e.locate \in Locates /\ e.shares \in Nat
  /\ e.type \in {"ADD", "DELETE", "CANCEL", "EXECUTE", "REPLACE"}
  /\ e.type = "ADD" => e.side \in Sides
  /\ e.type # "ADD" => e.ref \in DOMAIN book

\* An order flow strategy.
Flow == [win : [0..(Window - 1) -> Int], sum : Int, written : Nat, locate : Nat,
         side : Sides \cup {"NONE"}, strength : 0..Scale]

\* A strategy's window: the ring holds the recent contributions, and the sum is theirs.
WindowOK(f, q) ==
  /\ f \in Flow /\ q \in Seq(Int)
  /\ Len(q) = Lesser(f.written, Window)
  /\ \A k \in 1..Len(q) : q[k] = f.win[(f.written - Len(q) + k - 1) % Window]
  /\ f.sum = SeqSum(q)

\* What the broadcast events keep: s is a state of the view and the strategies.
MarketOK(s) ==
  /\ s.book \in Seq(MarketOrder)
  /\ s.tally.counted \in Int /\ s.tally.missed \in Int
  /\ s.tally.counted = Net(s.book, Resting(s.book)) + s.tally.missed
  /\ s.flow = [w \in Workers |-> s.flow[w]]
  /\ s.recent = [w \in Workers |-> s.recent[w]]
  /\ \A w \in Workers : WindowOK(s.flow[w], s.recent[w])

\* The ring: the slot of a contribution still in the window is not the next to be
\* written.
LEMMA SlotsDiffer ==
  ASSUME NEW n \in Nat, NEW k \in 1..(Window - 1), k <= n
  PROVE  (n - k) % Window # n % Window
<1> DEFINE c == Window
<1>1. c \in Nat \ {0} /\ n - k \in Nat
  BY WorkerConstants
<1>2. /\ n % c \in 0..(c - 1) /\ n = c * (n \div c) + (n % c) /\ n \div c \in Nat
      /\ (n - k) % c \in 0..(c - 1) /\ n - k = c * ((n - k) \div c) + ((n - k) % c)
      /\ (n - k) \div c \in Nat
  BY <1>1, Euclid
<1> SUFFICES ASSUME (n - k) % c = n % c PROVE FALSE
  OBVIOUS
<1> DEFINE p == n \div c
           q == (n - k) \div c
<1> HIDE DEF p, q
<1>3. p \in Nat /\ q \in Nat /\ k = c * p - c * q
  <2> DEFINE a == n % c
             b == (n - k) % c
  <2>1. a = b /\ n = c * p + a /\ n - k = c * q + b /\ a \in Nat /\ p \in Nat /\ q \in Nat
    BY <1>1, <1>2 DEF p, q
  <2> HIDE DEF a, b
  <2> QED
    BY <1>1, <2>1
<1>4. k = c * (p - q)
  BY <1>1, <1>3
<1>5. CASE p <= q
  <2>1. c * (q - p) >= 0
    BY <1>1, <1>3, <1>5
  <2>2. c * (q - p) = c * q - c * p
    BY <1>1, <1>3
  <2> QED
    BY <1>1, <1>3, <2>1, <2>2
<1>6. CASE p > q
  <2>1. c * (p - q) >= c
    BY <1>1, <1>3, <1>6
  <2> QED
    BY <1>1, <1>4, <2>1
<1> QED
  BY <1>3, <1>5, <1>6

LEMMA SmallRemainder ==
  ASSUME NEW c \in Nat \ {0}, NEW x \in 0..(c - 1)
  PROVE  x % c = x
<1>1. x % c \in 0..(c - 1) /\ x = c * (x \div c) + (x % c) /\ x \div c \in Nat
  <2>1. x \in Nat
    OBVIOUS
  <2> QED
    BY <2>1, Euclid
<1>2. c * 0 + x = c * (x \div c) + (x % c)
  BY <1>1
<1> QED
  BY <1>1, <1>2, RemainderUnique

LEMMA ShiftedRemainder ==
  ASSUME NEW c \in Nat \ {0}, NEW x \in Nat, x >= c
  PROVE  (x - c) % c = x % c
<1> DEFINE p == x \div c
           a == x % c
           q == (x - c) \div c
           b == (x - c) % c
<1>1. p \in Nat /\ a \in 0..(c - 1) /\ x = c * p + a
  BY Euclid
<1>2. q \in Nat /\ b \in 0..(c - 1) /\ x - c = c * q + b
  <2>1. x - c \in Nat
    OBVIOUS
  <2> QED
    BY <2>1, Euclid
<1> HIDE DEF p, a, q, b
<1>3. c * (q + 1) + b = c * p + a
  <2>1. c * (q + 1) = c * q + c
    BY <1>2
  <2> QED
    BY <1>1, <1>2, <2>1
<1>4. q + 1 \in Int
  BY <1>2
<1>5. a = b
  BY <1>1, <1>2, <1>3, <1>4, RemainderUnique
<1> QED
  BY <1>5 DEF a, b

\* One contribution more: a full ring loses the oldest it holds, at the very slot the
\* new one takes.
LEMMA WindowSlides ==
  ASSUME NEW f, NEW q, WindowOK(f, q), NEW d \in Int
  PROVE  LET all == Append(q, d)
         IN  WindowOK(Slid(f, d), IF Len(all) > Window THEN Tail(all) ELSE all)
<1> DEFINE i == f.written % Window
           oldest == IF f.written < Window THEN 0 ELSE f.win[i]
           g == Slid(f, d)
           all == Append(q, d)
           r == IF Len(all) > Window THEN Tail(all) ELSE all
           n == f.written
           l == Len(q)
<1>1. Window \in Nat \ {0} /\ f \in Flow /\ n \in Nat /\ f.sum \in Int /\ q \in Seq(Int) /\ l \in Nat
      /\ f.win \in [0..(Window - 1) -> Int]
  BY WorkerConstants DEF WindowOK, Flow
<1>2. i \in 0..(Window - 1) /\ oldest \in Int
  <2>1. i \in 0..(Window - 1)
    BY <1>1, Euclid
  <2> QED
    BY <1>1, <2>1
<1>3. g \in Flow /\ g.written = n + 1 /\ g.sum = f.sum + d - oldest /\ g.win = [f.win EXCEPT ![i] = d]
  <2>1. g = [f EXCEPT !.win[i] = d, !.sum = @ + d - oldest, !.written = @ + 1]
    BY DEF Slid
  <2> DEFINE W == [f.win EXCEPT ![i] = d]
             S == f.sum + d - oldest
             N == n + 1
  <2>2. W \in [0..(Window - 1) -> Int]
    BY <1>1, <1>2
  <2>3. S \in Int /\ N \in Nat
    <3>1. oldest \in Int
      BY <1>2
    <3> HIDE DEF oldest
    <3> QED
      BY <1>1, <3>1
  <2>4. g = [f EXCEPT !.win = W, !.sum = S, !.written = N]
    BY <2>1
  <2> HIDE DEF g, W, S, N
  <2>5. g \in Flow /\ g.win = W /\ g.sum = S /\ g.written = N
    <3> HIDE DEF n
    <3> QED
      BY <1>1, <2>2, <2>3, <2>4 DEF Flow
  <2> QED
    BY <2>5 DEF W, S, N
<1>4. /\ \A k \in 1..l : q[k] = f.win[(n - l + k - 1) % Window] /\ q[k] \in Int
      /\ l = (IF n < Window THEN n ELSE Window) /\ f.sum = SeqSum(q)
  BY <1>1 DEF WindowOK, Lesser
<1>5. all \in Seq(Int) /\ SeqSum(all) = SeqSum(q) + d /\ Len(all) = l + 1 /\ all[l + 1] = d
      /\ \A k \in 1..l : all[k] = q[k]
  BY <1>1, SumOfAppended
<1> HIDE DEF g, i, all
<1>6. CASE n < Window
  <2>1. r = all /\ l = n /\ Len(all) = n + 1 /\ oldest = 0
    BY <1>1, <1>4, <1>5, <1>6
  <2>2. i = n
    <3>1. n \in 0..(Window - 1)
      BY <1>1, <1>6
    <3> QED
      BY <1>1, <3>1, SmallRemainder DEF i
  <2>3. ASSUME NEW k \in 1..(n + 1)
        PROVE  all[k] = g.win[((n + 1) - (n + 1) + k - 1) % Window]
    <3> DEFINE j == k - 1
    <3>1. (n + 1) - (n + 1) + k - 1 = j /\ j \in 0..(Window - 1)
      BY <1>1, <1>6
    <3>2. j % Window = j
      BY <1>1, <3>1, SmallRemainder
    <3> SUFFICES all[k] = g.win[j]
      BY <3>1, <3>2
    <3>3. CASE k = n + 1
      <4>1. j = i /\ k = l + 1
        BY <1>1, <2>1, <2>2, <3>3
      <4> QED
        BY <1>1, <1>2, <1>3, <1>5, <4>1
    <3>4. CASE k # n + 1
      <4>1. k \in 1..l /\ n - l + k - 1 = j /\ j # i
        BY <1>1, <2>1, <2>2, <3>4
      <4>2. q[k] = f.win[j]
        BY <1>4, <3>2, <4>1
      <4>3. g.win[j] = f.win[j]
        BY <1>1, <1>3, <3>1, <4>1
      <4> QED
        BY <1>5, <4>1, <4>2, <4>3
    <3> QED
      BY <3>3, <3>4
  <2>4. Len(all) = Lesser(g.written, Window)
    BY <1>1, <1>3, <1>6, <2>1 DEF Lesser
  <2>5. g.sum = SeqSum(all)
    BY <1>1, <1>3, <1>4, <1>5, <2>1
  <2>6. WindowOK(g, all)
    BY <1>3, <1>5, <2>1, <2>3, <2>4, <2>5 DEF WindowOK
  <2> QED
    BY <2>1, <2>6 DEF all, g
<1>7. CASE n >= Window
  <2>1. r = Tail(all) /\ l = Window /\ Len(all) = Window + 1 /\ oldest = f.win[i] /\ all # <<>>
    BY <1>1, <1>4, <1>5, <1>7
  <2>2. /\ Tail(all) \in Seq(Int) /\ SeqSum(Tail(all)) = SeqSum(all) - all[1]
        /\ Len(Tail(all)) = Window
        /\ \A k \in 1..Window : Tail(all)[k] = all[k + 1]
    BY <1>1, <1>5, <2>1, SumOfTail
  <2>3. all[1] = f.win[i]
    <3>1. 1 \in 1..l /\ all[1] = q[1]
      BY <1>1, <1>5, <2>1
    <3>2. q[1] = f.win[(n - Window + 1 - 1) % Window]
      BY <1>4, <2>1, <3>1
    <3>3. (n - Window + 1 - 1) % Window = n % Window
      <4>1. n - Window + 1 - 1 = n - Window
        BY <1>1
      <4> QED
        BY <1>1, <1>7, <4>1, ShiftedRemainder
    <3> QED
      BY <3>1, <3>2, <3>3 DEF i
  <2>4. ASSUME NEW k \in 1..Window
        PROVE  Tail(all)[k] = g.win[((n + 1) - Window + k - 1) % Window]
    <3>1. (n + 1) - Window + k - 1 = n - (Window - k) /\ n - (Window - k) \in Nat
      BY <1>1, <1>7
    <3>2. CASE k = Window
      <4>1. n - (Window - k) = n /\ Tail(all)[k] = all[l + 1]
        <5>1. n - (Window - k) = n
          <6>1. Window \in Nat /\ n \in Nat
            BY <1>1
          <6> HIDE DEF n
          <6> QED
            BY <6>1, <3>2
        <5>2. l = k
          BY <2>1, <3>2
        <5>3. Tail(all)[k] = all[k + 1]
          BY <2>2
        <5> QED
          BY <5>1, <5>2, <5>3
      <4> QED
        BY <1>1, <1>2, <1>3, <1>5, <3>1, <4>1 DEF i
    <3>3. CASE k # Window
      <4>1. Window - k \in 1..(Window - 1) /\ Window - k <= n /\ k + 1 \in 1..l
        <5>1. l = Window
          BY <2>1
        <5>2. Window \in Nat /\ n \in Nat /\ Window <= n
          BY <1>1, <1>7
        <5>3. k \in Nat /\ k >= 1 /\ k < Window
          BY <5>2, <3>3
        <5> HIDE DEF n, l
        <5> QED
          BY <5>1, <5>2, <5>3
      <4>2. (n - (Window - k)) % Window # i
        BY <1>1, <4>1, SlotsDiffer DEF i
      <4>3. Tail(all)[k] = q[k + 1]
        BY <1>5, <2>2, <4>1
      <4>4. q[k + 1] = f.win[(n - l + (k + 1) - 1) % Window]
        BY <1>4, <4>1
      <4>5. n - l + (k + 1) - 1 = n - (Window - k)
        BY <1>1, <2>1
      <4>6. q[k + 1] = f.win[(n - (Window - k)) % Window]
        BY <4>4, <4>5
      <4>7. (n - (Window - k)) % Window \in 0..(Window - 1)
        BY <1>1, <3>1, Euclid
      <4> QED
        BY <1>1, <1>3, <3>1, <4>2, <4>3, <4>6, <4>7
    <3> QED
      BY <3>2, <3>3
  <2>5. Len(Tail(all)) = Lesser(g.written, Window)
    <3>1. ~(n + 1 < Window)
      BY <1>1, <1>7
    <3>2. g.written = n + 1
      BY <1>3
    <3> QED
      BY <2>2, <3>1, <3>2 DEF Lesser
  <2>6. g.sum = SeqSum(Tail(all))
    <3>1. SeqSum(q) \in Int
      BY <1>1, SeqSumIsSum
    <3> QED
      BY <1>2, <1>3, <1>4, <1>5, <2>1, <2>2, <2>3, <3>1
  <2>7. WindowOK(g, Tail(all))
    BY <1>3, <2>2, <2>4, <2>5, <2>6 DEF WindowOK
  <2> QED
    BY <2>1, <2>7 DEF all, g
<1> QED
  BY <1>1, <1>6, <1>7

\* The vote does not touch the window, and its strength is at most full.
LEMMA VoteKeepsWindow ==
  ASSUME NEW f, NEW q, WindowOK(f, q), NEW locate \in Nat
  PROVE  WindowOK(Voted(f, locate), q)
<1> DEFINE over == (IF f.sum > 0 THEN f.sum ELSE -f.sum) - FlowThreshold
           span == FlowThreshold * (Saturate - 1)
           side == IF over <= 0 THEN "NONE" ELSE IF f.sum > 0 THEN "BUY" ELSE "SELL"
           size == IF over <= 0 THEN 0 ELSE IF over >= span THEN Scale ELSE (over * Scale) \div span
<1>1. f \in Flow /\ f.sum \in Int /\ FlowThreshold \in Nat \ {0} /\ Saturate \in Nat \ {0, 1}
      /\ Scale \in Nat \ {0}
  BY WorkerConstants DEF WindowOK, Flow
<1>2. over \in Int /\ span \in Nat \ {0}
  BY <1>1
<1>3. side \in Sides \cup {"NONE"}
  BY DEF Sides
<1> HIDE DEF over, span
<1>4. size \in 0..Scale
  <2>1. CASE over <= 0 \/ over >= span
    BY <1>1, <2>1
  <2>2. CASE over > 0 /\ over < span
    <3>1. over * Scale \in Nat /\ 0 * span <= over * Scale
      BY <1>1, <1>2, <2>2
    <3>2. over * Scale <= Scale * span
      <4>1. Scale * (span - over) >= 0 /\ Scale * (span - over) = Scale * span - over * Scale
        BY <1>1, <1>2, <2>2
      <4> QED
        BY <1>1, <1>2, <4>1
    <3>3. (over * Scale) \div span \in Nat /\ (over * Scale) \div span <= Scale
      BY <1>1, <1>2, <3>1, <3>2, DivBetween
    <3> QED
      BY <1>1, <1>2, <2>2, <3>3
  <2> QED
    BY <1>2, <2>1, <2>2
<1>5. Voted(f, locate) = [f EXCEPT !.locate = locate, !.side = side, !.strength = size]
  BY DEF Voted, over, span
<1> HIDE DEF side, size
<1>6. /\ Voted(f, locate) \in Flow
      /\ Voted(f, locate).win = f.win /\ Voted(f, locate).sum = f.sum
      /\ Voted(f, locate).written = f.written
  BY <1>1, <1>3, <1>4, <1>5 DEF Flow
<1> QED
  BY <1>6 DEF WindowOK

\* The book imbalance strategy gives a signal, whatever the quote.
LEMMA ImbalanceIsSignal ==
  ASSUME NEW locate \in Nat, NEW quote \in Quotes
  PROVE  Signal(Imbalance(locate, quote))
<1> DEFINE sum == quote[1] + quote[2]
           diff == quote[1] - quote[2]
           size == IF sum = 0 THEN 0 ELSE ((IF diff > 0 THEN diff ELSE -diff) * Scale) \div sum
           strength == IF sum = 0 THEN 0 ELSE IF size >= BookThreshold THEN Scale
                       ELSE (size * Scale) \div (BookThreshold + 1)
<1>1. quote[1] \in Nat /\ quote[2] \in Nat /\ BookThreshold \in Nat /\ Scale \in Nat \ {0}
  BY WorkerConstants
<1>2. size \in Nat
  <2>1. CASE sum = 0
    BY <2>1
  <2>2. CASE sum # 0
    <3> DEFINE m == IF diff > 0 THEN diff ELSE -diff
    <3>1. sum \in Nat \ {0} /\ m \in Nat
      BY <1>1, <2>2
    <3>2. m * Scale \in Nat
      BY <1>1, <3>1
    <3>3. (m * Scale) \div sum \in Nat
      BY <3>1, <3>2, Euclid
    <3> QED
      BY <2>2, <3>3
  <2> QED
    BY <2>1, <2>2
<1> HIDE DEF size
<1>3. strength \in 0..Scale
  <2>1. CASE sum = 0 \/ size >= BookThreshold
    BY <1>1, <2>1
  <2>2. CASE sum # 0 /\ size < BookThreshold
    <3>1. size * Scale \in Nat /\ 0 * (BookThreshold + 1) <= size * Scale
          /\ BookThreshold + 1 \in Nat \ {0}
      BY <1>1, <1>2
    <3>2. size * Scale <= Scale * (BookThreshold + 1)
      <4>1. Scale * (BookThreshold + 1 - size) >= 0
            /\ Scale * (BookThreshold + 1 - size) = Scale * (BookThreshold + 1) - size * Scale
        BY <1>1, <1>2, <2>2
      <4> QED
        BY <1>1, <1>2, <4>1
    <3>3. (size * Scale) \div (BookThreshold + 1) \in Nat
          /\ (size * Scale) \div (BookThreshold + 1) <= Scale
      BY <1>1, <3>1, <3>2, DivBetween
    <3> QED
      BY <1>1, <1>2, <2>2, <3>3
  <2> QED
    BY <1>1, <1>2, <2>1, <2>2
<1>4. Imbalance(locate, quote).strength = strength
  BY DEF Imbalance, size
<1>5. Imbalance(locate, quote).side \in {"NONE", "BUY", "SELL"}
  BY DEF Imbalance
<1> QED
  BY <1>3, <1>4, <1>5 DEF Signal, Sides
-----------------------------------------------------------------------------
(* What the market view holds, buys less sells.                            *)

NetOf(book) == Net(book, Resting(book))
SignedOrder(o) == Sign(o.side) * o.rem
Held(book, refs) == [r \in 1..Len(book) |-> IF r \in refs THEN SignedOrder(book[r]) ELSE 0]
Signed(book) == [r \in 1..Len(book) |-> SignedOrder(book[r])]

LEMMA SignValues ==
  /\ Sign("BUY") = 1 /\ Sign("SELL") = -1 /\ Sign("NONE") = 0
  /\ \A side \in Sides \cup {"NONE"} : Sign(side) \in Int
BY DEF Sign, Sides

LEMMA SignedTyped ==
  ASSUME NEW o \in MarketOrder
  PROVE  SignedOrder(o) \in Int /\ (o.rem = 0 => SignedOrder(o) = 0)
<1>1. o.side \in Sides /\ o.rem \in Nat
  BY DEF MarketOrder
<1>2. Sign(o.side) = 1 \/ Sign(o.side) = -1
  BY <1>1, SignValues DEF Sides
<1> QED
  BY <1>1, <1>2 DEF SignedOrder

LEMMA NetIsSum ==
  ASSUME NEW book \in Seq(MarketOrder), NEW refs
  PROVE  /\ Net(book, refs) = SumOf(Held(book, refs), 1..Len(book))
         /\ Summable(Held(book, refs), 1..Len(book))
         /\ Net(book, refs) \in Int
<1> DEFINE n == Len(book)
           g == Held(book, refs)
           t == CHOOSE s : s = [i \in 0..n |->
                  IF i = 0 THEN 0
                  ELSE s[i - 1] + IF i \in refs THEN Sign(book[i].side) * book[i].rem ELSE 0]
<1>1. n \in Nat /\ \A r \in 1..n : book[r] \in MarketOrder
  OBVIOUS
<1>2. \A r \in 1..n : SignedOrder(book[r]) \in Int
  BY <1>1, SignedTyped
<1>3. \A r \in 1..n : g[r] \in Int
  BY <1>2 DEF Held
<1>4. Net(book, refs) = t[n]
  BY DEF Net, SumTo
<1>5. PICK s : RunsTo(s, g, n)
  BY <1>1, <1>3, RunningSum
<1>6. \A i \in 1..n : g[i] = IF i \in refs THEN Sign(book[i].side) * book[i].rem ELSE 0
  BY DEF Held, SignedOrder
<1> HIDE DEF g
<1>7. \A e : RunsTo(e, g, n) <=> e = [i \in 0..n |->
               IF i = 0 THEN 0
               ELSE e[i - 1] + IF i \in refs THEN Sign(book[i].side) * book[i].rem ELSE 0]
  <2> SUFFICES ASSUME NEW e
               PROVE  [i \in 0..n |-> IF i = 0 THEN 0 ELSE e[i - 1] + g[i]]
                      = [i \in 0..n |->
                          IF i = 0 THEN 0
                          ELSE e[i - 1] + IF i \in refs THEN Sign(book[i].side) * book[i].rem ELSE 0]
    BY DEF RunsTo
  <2>1. \A i \in 0..n : i # 0 => i \in 1..n
    BY <1>1
  <2> QED
    BY <1>6, <2>1
<1>8. RunsTo(t, g, n)
  BY <1>5, <1>7
<1> HIDE DEF t
<1>9. t[n] = SumOf(g, 1..n) /\ Summable(g, 1..n)
  BY <1>1, <1>3, <1>8, RunningSum
<1>10. SumOf(g, 1..n) \in Int
  BY <1>9, SumType
<1> QED
  BY <1>4, <1>9, <1>10 DEF g

\* All that rests, and what a single order adds to it.
LEMMA NetOfResting ==
  ASSUME NEW book \in Seq(MarketOrder)
  PROVE  /\ Net(book, Resting(book)) = SumOf(Signed(book), 1..Len(book))
         /\ Summable(Signed(book), 1..Len(book))
         /\ Net(book, {}) = 0
         /\ \A r \in 1..Len(book) : Net(book, {r}) = SignedOrder(book[r])
<1> DEFINE n == Len(book)
<1>1. n \in Nat /\ IsFiniteSet(1..n) /\ DOMAIN book = 1..n
      /\ \A r \in 1..n : book[r] \in MarketOrder
  BY FS_Interval
<1>2. \A r \in 1..n : SignedOrder(book[r]) \in Int
  BY <1>1, SignedTyped
<1>3. Summable(Signed(book), 1..n)
  BY <1>1, <1>2 DEF Summable, Signed
<1>4. \A r \in 1..n : Held(book, Resting(book))[r] = Signed(book)[r]
  <2> SUFFICES ASSUME NEW r \in 1..n
               PROVE  (IF r \in Resting(book) THEN SignedOrder(book[r]) ELSE 0) = SignedOrder(book[r])
    BY DEF Held, Signed
  <2>1. r \in Resting(book) \/ book[r].rem = 0
    BY <1>1 DEF Resting, MarketOrder
  <2> QED
    BY <1>1, <2>1, SignedTyped
<1>5. Net(book, Resting(book)) = SumOf(Signed(book), 1..n)
  BY <1>3, <1>4, NetIsSum, SumSame
<1>6. Net(book, {}) = 0
  <2>1. \A r \in 1..n : Held(book, {})[r] = 0
    BY DEF Held
  <2> QED
    BY <1>1, <2>1, NetIsSum, SumZero
<1>7. ASSUME NEW r \in 1..n PROVE Net(book, {r}) = SignedOrder(book[r])
  <2>1. Held(book, {r})[r] = SignedOrder(book[r]) /\ \A y \in (1..n) \ {r} : Held(book, {r})[y] = 0
    BY DEF Held
  <2>2. Net(book, {r}) = SumOf(Held(book, {r}), 1..n) /\ Summable(Held(book, {r}), 1..n)
    BY NetIsSum
  <2>3. SumOf(Held(book, {r}), 1..n) = Held(book, {r})[r] + SumOf(Held(book, {r}), (1..n) \ {r})
        /\ Summable(Held(book, {r}), (1..n) \ {r})
    BY <2>2, SumWithout
  <2>4. SumOf(Held(book, {r}), (1..n) \ {r}) = 0
    BY <2>1, <2>3, SumZero DEF Summable
  <2> QED
    BY <1>2, <2>1, <2>2, <2>3, <2>4
<1> QED
  BY <1>3, <1>5, <1>6, <1>7

\* An order entered.
HasOneMore(book, side, shares, after) ==
  /\ after \in Seq(MarketOrder) /\ Len(after) = Len(book) + 1
  /\ \A r \in DOMAIN book : after[r] = book[r]
  /\ Last(after).side = side /\ Last(after).rem = shares
  /\ NetOf(after) = NetOf(book) + Sign(side) * shares
  /\ Resting(book) \ Resting(after) = {}

LEMMA NetEntered ==
  ASSUME NEW book \in Seq(MarketOrder), NEW locate \in Locates, NEW side \in Sides, NEW shares \in Nat,
         NEW after, after = Entered(book, locate, side, shares)
  PROVE  HasOneMore(book, side, shares, after)
<1> DEFINE o == [locate |-> locate, side |-> side, rem |-> shares]
           n == Len(book)
<1>0. after = Append(book, o)
  BY DEF Entered
<1>1. o \in MarketOrder /\ SignedOrder(o) = Sign(side) * shares
  BY DEF MarketOrder, SignedOrder
<1> HIDE DEF o
<1>2. /\ after \in Seq(MarketOrder) /\ Len(after) = n + 1 /\ n \in Nat /\ after[n + 1] = o
      /\ \A r \in 1..n : after[r] = book[r]
      /\ DOMAIN book = 1..n /\ DOMAIN after = 1..(n + 1)
  BY <1>0, <1>1
<1>3. Last(after) = o
  BY <1>2 DEF Last
<1>4. Resting(book) \ Resting(after) = {}
  BY <1>2 DEF Resting
<1>5. /\ Net(after, Resting(after)) = SumOf(Signed(after), 1..(n + 1))
      /\ Summable(Signed(after), 1..(n + 1))
      /\ Net(book, Resting(book)) = SumOf(Signed(book), 1..n)
      /\ Summable(Signed(book), 1..n)
  BY <1>2, NetOfResting
<1>6. n + 1 \in 1..(n + 1) /\ (1..(n + 1)) \ {n + 1} = 1..n
  BY <1>2
<1>7. SumOf(Signed(after), 1..(n + 1)) = Signed(after)[n + 1] + SumOf(Signed(after), (1..(n + 1)) \ {n + 1})
  BY <1>5, <1>6, SumWithout
<1>8. Signed(after)[n + 1] = Sign(side) * shares /\ \A r \in 1..n : Signed(after)[r] = Signed(book)[r]
  BY <1>1, <1>2, <1>6 DEF Signed
<1>9. SumOf(Signed(after), 1..n) = SumOf(Signed(book), 1..n)
  BY <1>5, <1>8, SumSame
<1>10. SumOf(Signed(book), 1..n) \in Int /\ Sign(side) * shares \in Int
  BY <1>1, <1>5, SumType, SignedTyped
<1>11. Net(after, Resting(after)) = Sign(side) * shares + SumOf(Signed(book), 1..n)
  BY <1>5, <1>6, <1>7, <1>8, <1>9
<1>12. Net(after, Resting(after)) = Net(book, Resting(book)) + Sign(side) * shares
  BY <1>5, <1>10, <1>11
<1>13. Last(after).side = side /\ Last(after).rem = shares
  BY <1>3 DEF o
<1> QED
  BY <1>2, <1>4, <1>12, <1>13 DEF NetOf, HasOneMore

LEMMA SignedChanged ==
  ASSUME NEW book, NEW after, NEW S, NEW r \in S, Summable(Signed(book), S),
         Signed(after)[r] \in Int, \A i \in S \ {r} : Signed(after)[i] = Signed(book)[i]
  PROVE  SumOf(Signed(after), S) = SumOf(Signed(book), S) - Signed(book)[r] + Signed(after)[r]
<1>1. PICK f, e : f = Signed(book) /\ e = Signed(after)
  OBVIOUS
<1>2. Summable(f, S) /\ e[r] \in Int /\ \A i \in S \ {r} : e[i] = f[i]
  BY <1>1
<1>3. Summable(e, S) /\ SumOf(e, S) = SumOf(f, S) - f[r] + e[r]
  BY <1>2, SumChanged
<1> QED
  BY <1>1, <1>3

\* An order left with less.
HasLess(book, r, rem, after) ==
  /\ after \in Seq(MarketOrder) /\ Len(after) = Len(book) /\ DOMAIN after = DOMAIN book
  /\ after[r].rem = rem /\ after[r].side = book[r].side
  /\ \A i \in DOMAIN book : after[i].locate = book[i].locate
  /\ NetOf(after) = NetOf(book) - Sign(book[r].side) * book[r].rem + Sign(book[r].side) * rem
  /\ rem = 0 /\ book[r].rem > 0 => Resting(book) \ Resting(after) = {r}
  /\ ~(rem = 0 /\ book[r].rem > 0) => Resting(book) \ Resting(after) = {}
Lessened(book, r, rem) == [book EXCEPT ![r].rem = rem]

LEMMA NetLessened ==
  ASSUME NEW book \in Seq(MarketOrder), NEW r \in DOMAIN book, NEW rem \in Nat, rem <= book[r].rem,
         NEW after, after = Lessened(book, r, rem)
  PROVE  HasLess(book, r, rem, after)
<1> DEFINE o == [book[r] EXCEPT !.rem = rem]
           n == Len(book)
<1>1. /\ n \in Nat /\ DOMAIN book = 1..n /\ r \in 1..n
      /\ \A i \in 1..n : book[i] \in MarketOrder
  OBVIOUS
<1>2. o \in MarketOrder /\ o.rem = rem /\ o.side = book[r].side /\ o.locate = book[r].locate
  BY <1>1 DEF MarketOrder
<1>3. after = [book EXCEPT ![r] = o]
  BY DEF Lessened
<1> HIDE DEF o
<1>4. /\ after \in Seq(MarketOrder) /\ Len(after) = n /\ DOMAIN after = 1..n
      /\ after[r] = o /\ \A i \in (1..n) \ {r} : after[i] = book[i]
  BY <1>1, <1>2, <1>3
<1>5. Resting(book) \ Resting(after) = IF rem = 0 /\ book[r].rem > 0 THEN {r} ELSE {}
  <2>1. \A i \in (1..n) \ {r} : i \in Resting(book) <=> i \in Resting(after)
    BY <1>1, <1>4 DEF Resting
  <2>2. r \in Resting(book) <=> book[r].rem > 0
    BY <1>1 DEF Resting
  <2>3. r \in Resting(after) <=> rem > 0
    BY <1>1, <1>2, <1>4 DEF Resting
  <2>4. Resting(book) \subseteq 1..n
    BY <1>1 DEF Resting
  <2>5. r \in Resting(book) \ Resting(after) <=> rem = 0 /\ book[r].rem > 0
    BY <2>2, <2>3
  <2>6. Resting(book) \ Resting(after) \subseteq {r}
    BY <2>1, <2>4
  <2> QED
    BY <2>5, <2>6
<1>6. /\ Net(after, Resting(after)) = SumOf(Signed(after), 1..n)
      /\ Net(book, Resting(book)) = SumOf(Signed(book), 1..n)
      /\ Summable(Signed(book), 1..n)
  BY <1>4, NetOfResting
<1>7. /\ Signed(after)[r] = Sign(book[r].side) * rem /\ Signed(book)[r] = Sign(book[r].side) * book[r].rem
      /\ \A i \in (1..n) \ {r} : Signed(after)[i] = Signed(book)[i]
  BY <1>1, <1>2, <1>4 DEF Signed, SignedOrder
<1>8. Signed(after)[r] \in Int
  BY <1>1, <1>2, <1>4, SignedTyped DEF Signed
<1>9. SumOf(Signed(after), 1..n) = SumOf(Signed(book), 1..n) - Signed(book)[r] + Signed(after)[r]
  <2>1. PICK S : S = 1..n
    OBVIOUS
  <2>2. r \in S /\ Summable(Signed(book), S) /\ \A i \in S \ {r} : Signed(after)[i] = Signed(book)[i]
    BY <1>1, <1>6, <1>7, <2>1
  <2>3. SumOf(Signed(after), S) = SumOf(Signed(book), S) - Signed(book)[r] + Signed(after)[r]
    BY <1>8, <2>2, SignedChanged
  <2> QED
    BY <2>1, <2>3
<1>10. NetOf(after) = NetOf(book) - Sign(book[r].side) * book[r].rem + Sign(book[r].side) * rem
  BY <1>6, <1>7, <1>9 DEF NetOf
<1>11. \A i \in DOMAIN book : after[i].locate = book[i].locate
  BY <1>1, <1>2, <1>4
<1> QED
  BY <1>1, <1>2, <1>4, <1>5, <1>10, <1>11 DEF HasLess
-----------------------------------------------------------------------------
(* An event broadcast.                                                     *)

\* The view takes an event, and the flow counts what that changes of the book, but for
\* what it misses: nothing at all of an order whose side is not known any more.
Accounts(before, e, after, side) ==
  /\ after \in Seq(MarketOrder)
  /\ Len(after) = Len(before) + IF e.type \in {"ADD", "REPLACE"} THEN 1 ELSE 0
  /\ \A r \in DOMAIN before : after[r].locate = before[r].locate
  /\ side \in Sides \cup {"NONE"} /\ Missed(before, after, e) \in Int
  /\ NetOf(after) + Missed(before, after, e)
       = NetOf(before) + IF side = "NONE" THEN 0 ELSE Contribution(e, side)

\* An order added counts with its side.
LEMMA AddAccounts ==
  ASSUME NEW before \in Seq(MarketOrder), NEW e, Valid(before, e), e.type = "ADD",
         NEW after, after = Viewed(before, e), NEW side, side = EventSide(before, after, e)
  PROVE  Accounts(before, e, after, side)
<1>1. e.locate \in Locates /\ e.shares \in Nat /\ e.side \in Sides /\ side = e.side
      /\ after = Entered(before, e.locate, e.side, e.shares)
  BY DEF Valid, Viewed, EventSide
<1>2. HasOneMore(before, e.side, e.shares, after)
  BY <1>1, NetEntered
<1> USE <1>2 DEF HasOneMore
<1>3. Missed(before, after, e) = 0
  <2>1. Net(before, {}) = 0 /\ Resting(before) \ Resting(after) = {}
    BY NetOfResting
  <2>2. Missed(before, after, e) = Net(before, {}) + 0
    BY <2>1 DEF Missed
  <2> QED
    BY <2>1, <2>2
<1>4. side # "NONE" /\ Contribution(e, side) = Sign(e.side) * e.shares
  BY <1>1 DEF Sides, Contribution
<1>5. Sign(e.side) * e.shares \in Int /\ NetOf(before) \in Int
  <2>1. Sign(e.side) \in Int
    BY <1>1, SignValues
  <2> QED
    BY <1>1, <2>1, NetIsSum DEF NetOf
<1>6. NetOf(after) + Missed(before, after, e) = NetOf(before) + Contribution(e, side)
  <2>1. NetOf(after) \in Int
    BY <1>2, NetIsSum DEF NetOf
  <2> QED
    BY <1>2, <1>3, <1>4, <2>1
<1>7. \A r \in DOMAIN before : after[r].locate = before[r].locate
  BY <1>2
<1> QED
  BY <1>1, <1>2, <1>3, <1>4, <1>6, <1>7 DEF Accounts

\* An order deleted, cancelled or executed: what is left of it decides.
LEMMA LessAccounts ==
  ASSUME NEW before \in Seq(MarketOrder), NEW e, Valid(before, e),
         e.type \in {"DELETE", "CANCEL", "EXECUTE"},
         NEW after, after = Viewed(before, e), NEW side, side = EventSide(before, after, e)
  PROVE  Accounts(before, e, after, side)
<1>1. PICK r \in DOMAIN before : r = e.ref
  BY DEF Valid
<1>2. PICK o \in MarketOrder : o = before[r]
  OBVIOUS
<1>3. e.shares \in Nat /\ o.rem \in Nat /\ o.side \in Sides
  BY DEF Valid, MarketOrder
<1>4. PICK rem \in Nat : /\ rem <= o.rem /\ after = Lessened(before, r, rem)
                         /\ rem > 0 => rem = o.rem - e.shares
  <2>1. CASE e.type = "DELETE"
    <3>1. after = Lessened(before, r, 0)
      BY <1>1, <2>1 DEF Viewed, Lessened
    <3> QED
      BY <1>3, <3>1
  <2>2. CASE e.type # "DELETE"
    <3> DEFINE m == o.rem - Lesser(e.shares, o.rem)
    <3>1. m \in Nat /\ m <= o.rem /\ (m > 0 => m = o.rem - e.shares)
      BY <1>3 DEF Lesser
    <3>2. after = Lessened(before, r, m)
      BY <1>1, <1>2, <2>2 DEF Viewed, Reduced, Lessened
    <3> HIDE DEF m
    <3> QED
      BY <3>1, <3>2
  <2> QED
    BY <2>1, <2>2
<1>5. HasLess(before, r, rem, after)
  BY <1>2, <1>4, NetLessened
<1>51. /\ after \in Seq(MarketOrder) /\ Len(after) = Len(before)
      /\ after[r].rem = rem /\ after[r].side = o.side
      /\ \A i \in DOMAIN before : after[i].locate = before[i].locate
      /\ NetOf(after) = NetOf(before) - Sign(o.side) * o.rem + Sign(o.side) * rem
  BY <1>2, <1>5 DEF HasLess
<1> DEFINE gone == Resting(before) \ Resting(after)
<1>52. (rem = 0 /\ o.rem > 0 => gone = {r}) /\ (~(rem = 0 /\ o.rem > 0) => gone = {})
  BY <1>2, <1>5 DEF HasLess
<1>6. side = IF rem > 0 THEN o.side ELSE "NONE"
  BY <1>1, <1>51 DEF EventSide
<1>7. PICK x \in Int : x = Sign(o.side) /\ (x = 1 \/ x = -1)
  BY <1>3, SignValues DEF Sides
<1>8. Net(before, {r}) = x * o.rem /\ Net(before, {}) = 0 /\ NetOf(before) \in Int
  BY <1>2, <1>7, NetOfResting, NetIsSum DEF SignedOrder, NetOf
<1>9. Missed(before, after, e) = Net(before, gone)
  <2>1. Net(before, Resting(before) \ Resting(after)) \in Int
    BY NetIsSum
  <2>2. e.type # "REPLACE"
    OBVIOUS
  <2> QED
    BY <2>1, <2>2 DEF Missed
<1> HIDE DEF gone
<1>10. CASE rem > 0
  <2>1. Missed(before, after, e) = 0
    <3>1. gone = {}
      BY <1>52, <1>10
    <3> QED
      BY <1>8, <1>9, <3>1
  <2>2. side = o.side /\ side # "NONE"
    BY <1>3, <1>6, <1>10 DEF Sides
  <2>3. Contribution(e, side) = x * (-e.shares)
    BY <1>7, <2>2 DEF Contribution
  <2>4. NetOf(after) + Missed(before, after, e) = NetOf(before) + Contribution(e, side)
    <3>1. NetOf(after) = NetOf(before) - x * o.rem + x * rem /\ rem = o.rem - e.shares
      BY <1>4, <1>51, <1>7, <1>10
    <3>2. PICK k \in Nat, s \in Nat, z \in Int : k = o.rem /\ s = e.shares /\ z = NetOf(before)
      BY <1>3, <1>8
    <3>3. z - x * k + x * (k - s) + 0 = z + x * (-s)
      BY <1>7
    <3> QED
      BY <2>1, <2>3, <3>1, <3>2, <3>3
  <2> QED
    BY <1>3, <1>51, <2>1, <2>2, <2>4 DEF Accounts
<1>11. CASE rem = 0
  <2>1. Missed(before, after, e) = x * o.rem
    <3>1. CASE o.rem > 0
      BY <1>52, <1>8, <1>9, <1>11, <3>1
    <3>2. CASE o.rem = 0
      <4>1. gone = {} /\ x * 0 = 0
        BY <1>52, <1>7, <3>2
      <4> QED
        BY <1>8, <1>9, <3>2, <4>1
    <3> QED
      BY <1>3, <3>1, <3>2
  <2>2. side = "NONE"
    BY <1>6, <1>11
  <2>3. NetOf(after) = NetOf(before) - x * o.rem
    BY <1>3, <1>51, <1>7, <1>8, <1>11
  <2>4. NetOf(after) + Missed(before, after, e) = NetOf(before) /\ x * o.rem \in Int
    BY <1>3, <1>7, <1>8, <2>1, <2>3
  <2>5. NetOf(after) + Missed(before, after, e) = NetOf(before) + 0
    BY <1>8, <2>4
  <2> QED
    BY <1>51, <2>1, <2>2, <2>4, <2>5 DEF Accounts
<1> QED
  BY <1>10, <1>11

\* An order replaced: counted as a buy of all the new one should have.
LEMMA ReplaceAccounts ==
  ASSUME NEW before \in Seq(MarketOrder), NEW e, Valid(before, e), e.type = "REPLACE",
         NEW after, after = Viewed(before, e), NEW side, side = EventSide(before, after, e)
  PROVE  Accounts(before, e, after, side)
<1>1. PICK r \in DOMAIN before : r = e.ref
  BY DEF Valid
<1>2. PICK o \in MarketOrder : o = before[r]
  OBVIOUS
<1>3. e.locate \in Locates /\ e.shares \in Nat /\ o.rem \in Nat /\ o.side \in Sides
  BY DEF Valid, MarketOrder
<1>4. PICK new \in Nat : new = IF o.rem > 0 THEN e.shares ELSE 0
  BY <1>3
<1>5. PICK cut : cut = Lessened(before, r, 0)
  OBVIOUS
<1>6. after = Entered(cut, e.locate, o.side, new) /\ side = "BUY"
  BY <1>1, <1>2, <1>4, <1>5 DEF Viewed, EventSide, Lessened
<1>7. /\ cut \in Seq(MarketOrder) /\ Len(cut) = Len(before) /\ DOMAIN cut = DOMAIN before
      /\ \A i \in DOMAIN before : cut[i].locate = before[i].locate
      /\ NetOf(cut) = NetOf(before) - Sign(o.side) * o.rem + Sign(o.side) * 0
      /\ o.rem > 0 => Resting(before) \ Resting(cut) = {r}
      /\ ~(o.rem > 0) => Resting(before) \ Resting(cut) = {}
  <2>1. HasLess(before, r, 0, cut)
    BY <1>2, <1>3, <1>5, NetLessened
  <2> QED
    BY <1>2, <2>1 DEF HasLess
<1>8. /\ after \in Seq(MarketOrder) /\ Len(after) = Len(cut) + 1
      /\ \A i \in DOMAIN cut : after[i] = cut[i]
      /\ Last(after).side = o.side /\ Last(after).rem = new
      /\ NetOf(after) = NetOf(cut) + Sign(o.side) * new
  <2>1. HasOneMore(cut, o.side, new, after)
    BY <1>3, <1>6, <1>7, NetEntered
  <2> QED
    BY <2>1 DEF HasOneMore
<1>9. Len(before) \in Nat /\ DOMAIN before = 1..Len(before) /\ DOMAIN after = 1..(Len(before) + 1)
  BY <1>7, <1>8
<1> DEFINE gone == Resting(before) \ Resting(after)
<1>10. (o.rem > 0 => gone = {r}) /\ (~(o.rem > 0) => gone = {})
  <2>1. \A i \in DOMAIN before : i \in Resting(after) <=> i \in Resting(cut)
    BY <1>7, <1>8, <1>9 DEF Resting
  <2>2. Resting(before) \subseteq DOMAIN before
    BY DEF Resting
  <2>3. Resting(before) \ Resting(after) = Resting(before) \ Resting(cut)
    BY <2>1, <2>2
  <2> QED
    BY <1>7, <2>3
<1>11. PICK x \in Int : x = Sign(o.side) /\ (x = 1 \/ x = -1)
  BY <1>3, SignValues DEF Sides
<1>12. Net(before, {r}) = x * o.rem /\ Net(before, {}) = 0 /\ NetOf(before) \in Int
  BY <1>2, <1>11, NetOfResting, NetIsSum DEF SignedOrder, NetOf
<1>13. Missed(before, after, e) = Net(before, gone) + (e.shares - x * new)
  BY <1>8, <1>11 DEF Missed
<1> HIDE DEF gone
<1>14. Net(before, gone) = x * o.rem
  <2>1. CASE o.rem > 0
    BY <1>10, <1>12, <2>1
  <2>2. CASE o.rem = 0
    <3>1. gone = {} /\ x * 0 = 0
      BY <1>10, <1>11, <2>2
    <3> QED
      BY <1>12, <2>2, <3>1
  <2> QED
    BY <1>3, <2>1, <2>2
<1>15. Contribution(e, side) = e.shares
  <2>1. Contribution(e, side) = Sign("BUY") * e.shares
    BY <1>6 DEF Contribution
  <2> QED
    BY <1>3, <2>1, SignValues
<1>16. NetOf(after) = NetOf(before) - x * o.rem + x * new
  <2>1. NetOf(cut) = NetOf(before) - x * o.rem
    BY <1>3, <1>7, <1>11, <1>12
  <2> QED
    BY <1>8, <1>11, <2>1
<1>17. NetOf(after) + Missed(before, after, e) = NetOf(before) + Contribution(e, side)
       /\ Missed(before, after, e) \in Int
  <2>1. PICK y \in Int : y = x * o.rem
    BY <1>3, <1>11
  <2>2. PICK z \in Int : z = x * new
    BY <1>4, <1>11
  <2>3. PICK n \in Int, s \in Int : n = NetOf(before) /\ s = e.shares
    BY <1>3, <1>12
  <2>4. Missed(before, after, e) = y + (s - z) /\ NetOf(after) = n - y + z
        /\ Contribution(e, side) = s
    BY <1>13, <1>14, <1>15, <1>16, <2>1, <2>2, <2>3
  <2>5. (n - y + z) + (y + (s - z)) = n + s /\ y + (s - z) \in Int
    OBVIOUS
  <2> QED
    BY <2>3, <2>4, <2>5
<1>18. \A i \in DOMAIN before : after[i].locate = before[i].locate
  BY <1>7, <1>8, <1>9
<1> QED
  BY <1>6, <1>7, <1>8, <1>9, <1>17, <1>18 DEF Accounts, Sides

LEMMA EventAccounts ==
  ASSUME NEW before \in Seq(MarketOrder), NEW e, Valid(before, e),
         NEW after, after = Viewed(before, e), NEW side, side = EventSide(before, after, e)
  PROVE  Accounts(before, e, after, side) /\ Contribution(e, side) \in Int
<1>1. Accounts(before, e, after, side)
  BY AddAccounts, LessAccounts, ReplaceAccounts DEF Valid
<1>2. Sign(side) \in Int /\ e.shares \in Nat
  BY <1>1, SignValues DEF Accounts, Valid
<1> QED
  BY <1>1, <1>2 DEF Contribution

\* One worker owns a locate.
LEMMA OneOwner ==
  ASSUME NEW locate \in Nat
  PROVE  Cardinality({w \in Workers : Owns(w, locate)}) = 1
<1>1. NWorkers \in Nat \ {0} /\ locate % NWorkers \in 0..(NWorkers - 1)
  BY WorkerConstants, Euclid
<1>2. \E w : {v \in Workers : Owns(v, locate)} = {w}
  <2>1. CASE NWorkers = 1
    <3>1. Workers = {0}
      BY <2>1 DEF Workers
    <3> QED
      BY <2>1, <3>1 DEF Owns
  <2>2. CASE NWorkers # 1
    <3>1. \A v \in Workers : Owns(v, locate) <=> v = locate % NWorkers
      BY <2>2 DEF Owns
    <3>2. locate % NWorkers \in Workers
      BY <1>1 DEF Workers
    <3> QED
      BY <3>1, <3>2
  <2> QED
    BY <2>1, <2>2
<1> QED
  BY <1>2, FS_Singleton

\* What one event does to the view, the strategies and the tally.
LEMMA BroadcastKeeps ==
  ASSUME NEW s, MarketOK(s), NEW e, Valid(s.book, e), NEW t, t = Broadcast(s, e)
  PROVE  /\ MarketOK(t) /\ t.book = Viewed(s.book, e)
         /\ Len(t.book) = Len(s.book) + IF e.type \in {"ADD", "REPLACE"} THEN 1 ELSE 0
<1>1. PICK book : book = Viewed(s.book, e)
  OBVIOUS
<1>2. PICK side : side = EventSide(s.book, book, e)
  OBVIOUS
<1>3. PICK d : d = Contribution(e, side)
  OBVIOUS
<1> DEFINE feeds(w) == Owns(w, e.locate) /\ side # "NONE"
           next(q) == LET all == Append(q, d) IN IF Len(all) > Window THEN Tail(all) ELSE all
           fed == {w \in Workers : feeds(w)}
<1>4. /\ t.book = book
      /\ t.flow = [w \in Workers |-> IF feeds(w) THEN Voted(Slid(s.flow[w], d), e.locate)
                                     ELSE s.flow[w]]
      /\ t.recent = [w \in Workers |-> IF ~feeds(w) THEN s.recent[w] ELSE next(s.recent[w])]
      /\ t.tally.counted = s.tally.counted + d * Cardinality(fed)
      /\ t.tally.missed = s.tally.missed + Missed(s.book, book, e)
  BY <1>1, <1>2, <1>3 DEF Broadcast
<1> HIDE DEF next
<1>5. s.book \in Seq(MarketOrder) /\ e.locate \in Nat
  BY WorkerConstants DEF MarketOK, Valid
<1>6. Accounts(s.book, e, book, side) /\ d \in Int
  BY <1>1, <1>2, <1>3, <1>5, EventAccounts
<1>7. ASSUME NEW w \in Workers
      PROVE  WindowOK(t.flow[w], t.recent[w])
  <2>1. WindowOK(s.flow[w], s.recent[w])
    BY DEF MarketOK
  <2>2. CASE feeds(w)
    <3>1. PICK f, q : f = s.flow[w] /\ q = s.recent[w]
      OBVIOUS
    <3>2. WindowOK(Slid(f, d), next(q))
      BY <1>6, <2>1, <3>1, WindowSlides DEF next
    <3>3. WindowOK(Voted(Slid(f, d), e.locate), next(q))
      BY <1>5, <3>2, VoteKeepsWindow
    <3> QED
      BY <1>4, <2>2, <3>1, <3>3
  <2>3. CASE ~feeds(w)
    BY <1>4, <2>1, <2>3
  <2> QED
    BY <2>2, <2>3
<1>8. d * Cardinality(fed) = IF side = "NONE" THEN 0 ELSE d
  <2>1. CASE side = "NONE"
    <3>1. fed = {} /\ Cardinality({}) = 0
      BY <2>1, FS_EmptySet
    <3>2. Cardinality(fed) = 0
      BY <3>1
    <3> QED
      BY <1>6, <2>1, <3>2
  <2>2. CASE side # "NONE"
    <3>1. fed = {w \in Workers : Owns(w, e.locate)}
      BY <2>2
    <3>2. Cardinality(fed) = 1
      BY <1>5, <3>1, OneOwner
    <3> QED
      BY <1>6, <2>2, <3>2
  <2> QED
    BY <2>1, <2>2
<1>9. /\ t.tally.counted \in Int /\ t.tally.missed \in Int
      /\ t.tally.counted = Net(t.book, Resting(t.book)) + t.tally.missed
  <2>1. PICK x \in Int : x = IF side = "NONE" THEN 0 ELSE d
    BY <1>6
  <2>2. PICK m \in Int : m = Missed(s.book, book, e)
    BY <1>6 DEF Accounts
  <2>3. PICK a \in Int, b \in Int : a = NetOf(s.book) /\ b = NetOf(book)
    BY <1>5, <1>6, NetIsSum DEF NetOf, Accounts
  <2>4. b + m = a + x
    BY <1>3, <1>6, <2>1, <2>2, <2>3 DEF Accounts
  <2>5. PICK c \in Int, g \in Int : c = s.tally.counted /\ g = s.tally.missed /\ c = a + g
    BY <2>3 DEF MarketOK, NetOf
  <2>6. t.tally.counted = c + x /\ t.tally.missed = g + m /\ Net(t.book, Resting(t.book)) = b
    BY <1>4, <1>8, <2>1, <2>2, <2>3, <2>5 DEF NetOf
  <2>7. c + x = b + (g + m) /\ c + x \in Int /\ g + m \in Int
    BY <2>4, <2>5
  <2> QED
    BY <2>6, <2>7
<1>10. t.flow = [w \in Workers |-> t.flow[w]] /\ t.recent = [w \in Workers |-> t.recent[w]]
  BY <1>4
<1>11. t.book \in Seq(MarketOrder)
  BY <1>4, <1>6 DEF Accounts
<1> QED
  BY <1>1, <1>4, <1>6, <1>7, <1>9, <1>10, <1>11 DEF MarketOK, Accounts
-----------------------------------------------------------------------------
(* The events of a step.                                                   *)

MarketInv ==
  /\ MarketOK(Now)
  /\ imbalance = [w \in Workers |-> imbalance[w]]
  /\ \A w \in Workers : Signal(imbalance[w])

\* The market is left in state s.
Leaves(s, locate, quote) ==
  /\ orders' = s.book /\ flow' = s.flow /\ tally' = s.tally /\ recent' = s.recent
  /\ imbalance' = [w \in Workers |-> IF Owns(w, locate) THEN Imbalance(locate, quote)
                                     ELSE imbalance[w]]

LEMMA LeavesSound ==
  ASSUME MarketInv, NEW s, MarketOK(s), NEW locate \in Nat, NEW quote \in Quotes,
         Leaves(s, locate, quote)
  PROVE  MarketInv'
<1>1. MarketOK(Now)'
  BY DEF Leaves, MarketOK, Now
<1>2. Signal(Imbalance(locate, quote))
  BY ImbalanceIsSignal
<1>3. \A w \in Workers : imbalance'[w] = Imbalance(locate, quote) \/ imbalance'[w] = imbalance[w]
  BY DEF Leaves
<1>4. ASSUME NEW w \in Workers PROVE Signal(imbalance[w])'
  <2>1. Signal(imbalance[w])
    BY DEF MarketInv
  <2> QED
    BY <1>2, <1>3, <2>1 DEF Signal
<1>5. (imbalance = [w \in Workers |-> imbalance[w]])'
  BY DEF Leaves
<1> QED
  BY <1>1, <1>4, <1>5 DEF MarketInv

\* The recursive function inside Deliver, for the lists of events there are.
LEMMA DeliverOne ==
  ASSUME NEW a, NEW quote, Deliver(<<a>>, quote)
  PROVE  Leaves(Broadcast(Now, a), a.locate, quote)
<1> DEFINE f == CHOOSE f : f = [n \in 0..Len(<<a>>) |->
                                  IF n = 0 THEN Now ELSE Broadcast(f[n - 1], <<a>>[n])]
<1>1. Leaves(f[Len(<<a>>)], <<a>>[1].locate, quote)
  BY DEF Deliver, Leaves
<1>2. Len(<<a>>) = 1 /\ <<a>>[1] = a
  OBVIOUS
<1> DEFINE g == [n \in 0..Len(<<a>>) |-> IF n = 0 THEN Now ELSE Broadcast(Now, a)]
<1>3. g[0] = Now
  BY <1>2
<1>4. g = [n \in 0..Len(<<a>>) |-> IF n = 0 THEN Now ELSE Broadcast(g[n - 1], <<a>>[n])]
  <2>1. \A n \in 0..Len(<<a>>) : n = 0 \/ n = 1
    BY <1>2
  <2>2. \A n \in 0..Len(<<a>>) :
          (IF n = 0 THEN Now ELSE Broadcast(Now, a))
          = (IF n = 0 THEN Now ELSE Broadcast(g[n - 1], <<a>>[n]))
    BY <1>2, <1>3, <2>1
  <2> QED
    BY <2>2
<1> HIDE DEF g
<1>5. f = [n \in 0..Len(<<a>>) |-> IF n = 0 THEN Now ELSE Broadcast(f[n - 1], <<a>>[n])]
  BY <1>4
<1> HIDE DEF f
<1>6. f[0] = Now /\ f[1] = Broadcast(f[0], a)
  BY <1>2, <1>5
<1> QED
  BY <1>1, <1>2, <1>6

LEMMA DeliverThree ==
  ASSUME NEW a, NEW b, NEW c, NEW quote, Deliver(<<a, b, c>>, quote)
  PROVE  Leaves(Broadcast(Broadcast(Broadcast(Now, a), b), c), a.locate, quote)
<1> DEFINE q == <<a, b, c>>
           f == CHOOSE f : f = [n \in 0..Len(q) |->
                                  IF n = 0 THEN Now ELSE Broadcast(f[n - 1], q[n])]
           s == Broadcast(Now, a)
           t == Broadcast(s, b)
           u == Broadcast(t, c)
<1>1. Leaves(f[Len(q)], q[1].locate, quote)
  BY DEF Deliver, Leaves
<1>2. Len(q) = 3 /\ q[1] = a /\ q[2] = b /\ q[3] = c
  OBVIOUS
<1> HIDE DEF q
<1> DEFINE g == [n \in 0..Len(q) |-> IF n = 0 THEN Now ELSE IF n = 1 THEN s ELSE IF n = 2 THEN t ELSE u]
<1>3. g[0] = Now /\ g[1] = s /\ g[2] = t
  BY <1>2
<1>4. g = [n \in 0..Len(q) |-> IF n = 0 THEN Now ELSE Broadcast(g[n - 1], q[n])]
  <2>1. \A n \in 0..Len(q) : n = 0 \/ n = 1 \/ n = 2 \/ n = 3
    BY <1>2
  <2>2. \A n \in 0..Len(q) :
          (IF n = 0 THEN Now ELSE IF n = 1 THEN s ELSE IF n = 2 THEN t ELSE u)
          = (IF n = 0 THEN Now ELSE Broadcast(g[n - 1], q[n]))
    BY <1>2, <1>3, <2>1
  <2> QED
    BY <2>2
<1> HIDE DEF g
<1>5. f = [n \in 0..Len(q) |-> IF n = 0 THEN Now ELSE Broadcast(f[n - 1], q[n])]
  BY <1>4
<1> HIDE DEF f
<1>6. f[0] = Now /\ f[1] = Broadcast(f[0], a) /\ f[2] = Broadcast(f[1], b)
      /\ f[3] = Broadcast(f[2], c)
  BY <1>2, <1>5
<1>7. f[3] = u
  BY <1>6
<1> QED
  BY <1>1, <1>2, <1>7

LEMMA OneKept ==
  ASSUME MarketInv, NEW e, Valid(orders, e), NEW quote \in Quotes, Deliver(<<e>>, quote)
  PROVE  MarketInv'
<1>1. PICK s : s = Broadcast(Now, e)
  OBVIOUS
<1>2. Now.book = orders /\ MarketOK(Now) /\ e.locate \in Nat
  BY WorkerConstants DEF Now, MarketInv, Valid
<1>3. MarketOK(s)
  BY <1>1, <1>2, BroadcastKeeps
<1>4. Leaves(s, e.locate, quote)
  BY <1>1, DeliverOne
<1> QED
  BY <1>2, <1>3, <1>4, LeavesSound

\* An order that enters and trades: the maker's execution, then its own.
LEMMA TradeKept ==
  ASSUME MarketInv, NEW e, Valid(orders, e), e.type \in {"ADD", "REPLACE"},
         NEW m \in DOMAIN orders, NEW locate \in Locates, NEW q \in Nat, NEW quote \in Quotes,
         Deliver(<<e, Executed(m, locate, q), Executed(NewRef, locate, q)>>, quote)
  PROVE  MarketInv'
<1>1. PICK b, c : b = Executed(m, locate, q) /\ c = Executed(NewRef, locate, q)
  OBVIOUS
<1>2. /\ b.type = "EXECUTE" /\ b.ref = m /\ b.locate = locate /\ b.shares = q
      /\ c.type = "EXECUTE" /\ c.ref = NewRef /\ c.locate = locate /\ c.shares = q
  BY <1>1 DEF Executed, Event
<1>3. PICK s, t, u : s = Broadcast(Now, e) /\ t = Broadcast(s, b) /\ u = Broadcast(t, c)
  OBVIOUS
<1>4. Now.book = orders /\ MarketOK(Now) /\ e.locate \in Nat /\ orders \in Seq(MarketOrder)
  BY WorkerConstants DEF Now, MarketInv, MarketOK, Valid
<1>5. MarketOK(s) /\ Len(s.book) = Len(orders) + 1
  BY <1>3, <1>4, BroadcastKeeps
<1>6. DOMAIN s.book = 1..Len(s.book) /\ DOMAIN orders = 1..Len(orders) /\ Len(orders) \in Nat
  BY <1>4, <1>5 DEF MarketOK
<1>7. Valid(s.book, b)
  BY <1>2, <1>5, <1>6 DEF Valid
<1>8. MarketOK(t) /\ Len(t.book) = Len(s.book) + 0
  BY <1>2, <1>3, <1>5, <1>7, BroadcastKeeps
<1>9. Valid(t.book, c)
  <2>1. DOMAIN t.book = 1..Len(t.book) /\ Len(t.book) = Len(orders) + 1
    BY <1>5, <1>6, <1>8 DEF MarketOK
  <2>2. NewRef \in DOMAIN t.book
    BY <1>6, <2>1 DEF NewRef
  <2> QED
    BY <1>2, <2>2 DEF Valid
<1>10. MarketOK(u)
  BY <1>3, <1>8, <1>9, BroadcastKeeps
<1>11. Leaves(u, e.locate, quote)
  BY <1>1, <1>3, DeliverThree
<1> QED
  BY <1>4, <1>10, <1>11, LeavesSound

\* What a message or a window needs to know of the market.
LEMMA MarketFacts ==
  ASSUME MarketInv
  PROVE  /\ orders \in Seq(MarketOrder) /\ DOMAIN orders = 1..Len(orders)
         /\ \A r \in DOMAIN orders : orders[r].locate \in Locates /\ orders[r].rem \in Nat
                                     /\ orders[r].side \in Sides
         /\ \A w \in Workers : Signal(flow[w]) /\ Signal(imbalance[w])
<1>1. orders \in Seq(MarketOrder)
  BY DEF MarketInv, MarketOK, Now
<1>2. \A r \in DOMAIN orders : orders[r] \in MarketOrder
  BY <1>1
<1>3. \A w \in Workers : flow[w] \in Flow
  BY DEF MarketInv, MarketOK, Now, WindowOK
<1>4. \A w \in Workers : Signal(flow[w]) /\ Signal(imbalance[w])
  BY <1>3 DEF MarketInv, Flow, Signal
<1> QED
  BY <1>1, <1>2, <1>4 DEF MarketOrder

LEMMA OneThenTwo ==
  ASSUME NEW a, NEW b, NEW c
  PROVE  <<a>> \o <<b, c>> = <<a, b, c>>
<1> DEFINE s == <<a>> \o <<b, c>>
           t == <<a, b, c>>
<1>1. PICK S : S = {a, b, c}
  OBVIOUS
<1>2. <<a>> \in Seq(S) /\ <<b, c>> \in Seq(S) /\ t \in Seq(S) /\ Len(t) = 3
  BY <1>1
<1>3. s \in Seq(S) /\ Len(s) = 3
  BY <1>2
<1>4. s[1] = a /\ s[2] = b /\ s[3] = c /\ t[1] = a /\ t[2] = b /\ t[3] = c
  BY <1>2
<1> HIDE DEF s, t
<1>5. \A i \in 1..3 : s[i] = t[i]
  BY <1>4
<1>6. s = t
  BY <1>2, <1>3, <1>5
<1> QED
  BY <1>6 DEF s, t

LEMMA EntryKept ==
  ASSUME MarketInv, NEW e, Valid(orders, e), e.type \in {"ADD", "REPLACE"},
         NEW locate \in Locates, NEW side, NEW shares \in Nat,
         NEW trade \in Trades(locate, side, shares), NEW quote \in Quotes,
         Deliver(<<e>> \o trade, quote)
  PROVE  MarketInv'
<1>1. CASE trade = <<>>
  <2>1. <<e>> \o trade = <<e>>
    BY <1>1
  <2>2. Deliver(<<e>>, quote)
    BY <2>1
  <2> QED
    BY <2>2, OneKept
<1>2. CASE trade # <<>>
  <2>1. PICK m \in Makers(locate, side) :
          trade = <<Executed(m, locate, Lesser(shares, orders[m].rem)),
                    Executed(NewRef, locate, Lesser(shares, orders[m].rem))>>
    BY <1>2 DEF Trades
  <2>2. m \in DOMAIN orders
    BY DEF Makers, Resting
  <2>3. PICK q \in Nat : q = Lesser(shares, orders[m].rem)
    BY <2>2, MarketFacts DEF Lesser
  <2>4. PICK b, c : b = Executed(m, locate, q) /\ c = Executed(NewRef, locate, q)
    OBVIOUS
  <2>5. trade = <<b, c>>
    BY <2>1, <2>3, <2>4
  <2>6. <<e>> \o <<b, c>> = <<e, b, c>>
    BY OneThenTwo
  <2>7. Deliver(<<e, b, c>>, quote)
    BY <2>5, <2>6
  <2> QED
    BY <2>2, <2>4, <2>7, TradeKept
<1> QED
  BY <1>1, <1>2

LEMMA MarketStep ==
  ASSUME MarketInv, [Next]_vars
  PROVE  MarketInv'
<1>1. Quantities \subseteq Nat
  BY WorkerConstants
<1>2. CASE Add
  <2>1. PICK locate \in Locates, side \in Sides, shares \in Quantities :
          \E trade \in Trades(locate, side, shares), quote \in Quotes :
            Deliver(<<Event("ADD", NewRef, locate, side, shares)>> \o trade, quote)
    BY <1>2 DEF Add
  <2>2. PICK trade \in Trades(locate, side, shares), quote \in Quotes :
          Deliver(<<Event("ADD", NewRef, locate, side, shares)>> \o trade, quote)
    BY <2>1
  <2>3. PICK e : e = Event("ADD", NewRef, locate, side, shares)
    OBVIOUS
  <2>4. Valid(orders, e) /\ e.type = "ADD"
    BY <1>1, <2>3 DEF Valid, Event
  <2>5. Deliver(<<e>> \o trade, quote)
    BY <2>2, <2>3
  <2> QED
    BY <1>1, <2>4, <2>5, EntryKept
<1>3. CASE Withdraw
  <2>1. PICK ref \in DOMAIN orders, type \in {"DELETE", "CANCEL"}, quote \in Quotes :
          \E shares \in IF type = "DELETE" THEN {0} ELSE Quantities :
            Deliver(<<Event(type, ref, orders[ref].locate, "NONE", shares)>>, quote)
    BY <1>3 DEF Withdraw
  <2>2. PICK shares \in IF type = "DELETE" THEN {0} ELSE Quantities :
          Deliver(<<Event(type, ref, orders[ref].locate, "NONE", shares)>>, quote)
    BY <2>1
  <2>3. PICK e : e = Event(type, ref, orders[ref].locate, "NONE", shares)
    OBVIOUS
  <2>4. Valid(orders, e)
    BY <1>1, <2>3, MarketFacts DEF Valid, Event
  <2>5. Deliver(<<e>>, quote)
    BY <2>2, <2>3
  <2> QED
    BY <2>4, <2>5, OneKept
<1>4. CASE Replace
  <2>1. PICK old \in DOMAIN orders, shares \in Quantities :
          \E trade \in IF orders[old].rem = 0 THEN {<<>>}
                       ELSE Trades(orders[old].locate, orders[old].side, shares),
             quote \in Quotes :
            Deliver(<<Event("REPLACE", old, orders[old].locate, "NONE", shares)>> \o trade, quote)
    BY <1>4 DEF Replace
  <2>2. PICK trade \in IF orders[old].rem = 0 THEN {<<>>}
                       ELSE Trades(orders[old].locate, orders[old].side, shares),
             quote \in Quotes :
          Deliver(<<Event("REPLACE", old, orders[old].locate, "NONE", shares)>> \o trade, quote)
    BY <2>1
  <2>3. trade \in Trades(orders[old].locate, orders[old].side, shares)
    BY <2>2 DEF Trades
  <2>4. PICK e : e = Event("REPLACE", old, orders[old].locate, "NONE", shares)
    OBVIOUS
  <2>5. Valid(orders, e) /\ e.type = "REPLACE"
    BY <1>1, <2>4, MarketFacts DEF Valid, Event
  <2>6. Deliver(<<e>> \o trade, quote)
    BY <2>2, <2>4
  <2>7. PICK locate \in Locates : locate = orders[old].locate
    BY MarketFacts
  <2>8. PICK side : side = orders[old].side
    OBVIOUS
  <2> QED
    BY <1>1, <2>3, <2>5, <2>6, <2>7, <2>8, EntryKept
<1>5. CASE UNCHANGED marketVars
  BY <1>5 DEF MarketInv, MarketOK, Now, marketVars
<1>6. ASSUME NEW w \in Workers, SendAndTrade(w)
      PROVE  MarketInv'
  <2>1. PICK m \in Makers(Target(w), Direction(w)), quote \in Quotes :
          Deliver(<<Executed(m, Target(w), Lesser(Shares(w), orders[m].rem))>>, quote)
    BY <1>6 DEF SendAndTrade
  <2>2. m \in DOMAIN orders /\ Target(w) = orders[m].locate
    BY DEF Makers, Resting
  <2>3. Direction(w) # "NONE"
    BY <1>6 DEF SendAndTrade, Sends
  <2>4. Strength(w) \in 0..Scale
    BY <2>3, MarketFacts, DecisionBacked
  <2>5. Shares(w) \in Nat
    <3>1. PICK b \in Nat, s \in Nat, c \in Nat \ {0} : b = BaseQty /\ s = Strength(w) /\ c = Scale
      BY <2>4, WorkerConstants
    <3>2. b * s \in Nat
      OBVIOUS
    <3>3. (b * s) \div c \in Nat
      BY <3>2, Euclid
    <3> QED
      BY <3>1, <3>3 DEF Shares
  <2>6. PICK q \in Nat : q = Lesser(Shares(w), orders[m].rem)
    BY <2>2, <2>5, MarketFacts DEF Lesser
  <2>7. PICK e : e = Executed(m, Target(w), q)
    OBVIOUS
  <2>8. Valid(orders, e)
    BY <2>2, <2>6, <2>7, MarketFacts DEF Valid, Executed, Event
  <2>9. Deliver(<<e>>, quote)
    BY <2>1, <2>6, <2>7
  <2> QED
    BY <2>8, <2>9, OneKept
<1>7. ASSUME NEW w \in Workers, Hold(w) \/ SendInVain(w)
      PROVE  UNCHANGED marketVars
  BY <1>7 DEF Hold, SendInVain
<1>8. Other \/ EndInput \/ EndWindow \/ UNCHANGED vars => UNCHANGED marketVars
  BY DEF Other, EndInput, EndWindow, vars, marketVars
<1> QED
  BY <1>2, <1>3, <1>4, <1>5, <1>6, <1>7, <1>8 DEF Next, Arbitrate

LEMMA MarketInit ==
  ASSUME Init
  PROVE  MarketInv
<1>1. Window \in Nat \ {0} /\ Scale \in Nat \ {0}
  BY WorkerConstants
<1>2. orders \in Seq(MarketOrder) /\ orders = <<>> /\ Len(orders) = 0 /\ DOMAIN orders = {}
  BY DEF Init
<1>3. Net(orders, Resting(orders)) = 0
  <2>1. Resting(orders) = {}
    BY <1>2 DEF Resting
  <2>2. Net(orders, {}) = 0
    BY <1>2, NetOfResting
  <2> QED
    BY <2>1, <2>2
<1>4. \A w \in Workers : WindowOK(flow[w], recent[w])
  <2> SUFFICES ASSUME NEW w \in Workers PROVE WindowOK(flow[w], recent[w])
    OBVIOUS
  <2>1. flow[w] \in Flow /\ flow[w].sum = 0 /\ flow[w].written = 0 /\ recent[w] = <<>>
    BY <1>1 DEF Init, Flow
  <2>2. SeqSum(<<>>) = 0
    <3>1. <<>> \in Seq(Int) /\ Len(<<>>) = 0 /\ 1..0 = {}
      OBVIOUS
    <3>2. SeqSum(<<>>) = SumOf(<<>>, 1..Len(<<>>))
      BY <3>1, SeqSumIsSum
    <3> QED
      BY <3>1, <3>2, SumEmpty
  <2>3. Lesser(0, Window) = 0
    BY <1>1 DEF Lesser
  <2> QED
    BY <2>1, <2>2, <2>3 DEF WindowOK
<1>5. \A w \in Workers : Signal(imbalance[w])
  BY <1>1 DEF Init, Signal
<1>6. /\ flow = [w \in Workers |-> flow[w]] /\ recent = [w \in Workers |-> recent[w]]
      /\ imbalance = [w \in Workers |-> imbalance[w]]
      /\ tally.counted = 0 /\ tally.missed = 0
  BY DEF Init
<1> QED
  BY <1>2, <1>3, <1>4, <1>5, <1>6 DEF MarketInv, MarketOK, Now

\* OFI's running sum is that of its last Window contributions, whatever has slid through
\* the ring (OfiStrategy::on_market_event).
THEOREM OfiAlwaysWindowSum == Spec => []OfiIsWindowSum
<1>1. MarketInv => OfiIsWindowSum
  <2> SUFFICES ASSUME MarketInv, NEW w \in Workers
               PROVE  flow[w].sum = SumTo(Len(recent[w]), LAMBDA i : recent[w][i])
    BY DEF OfiIsWindowSum
  <2>1. WindowOK(Now.flow[w], Now.recent[w])
    BY DEF MarketInv, MarketOK
  <2>2. WindowOK(flow[w], recent[w])
    BY <2>1 DEF Now
  <2>3. flow[w].sum = SeqSum(recent[w])
    BY <2>2 DEF WindowOK
  <2> QED
    BY <2>3 DEF SeqSum
<1> QED
  BY <1>1, MarketInit, MarketStep, PTL DEF Spec

\* What the order flow strategies have counted is the shares that rest, buys less sells,
\* and what they are known to miss: nothing else gets lost (OfiStrategy::on_market_event,
\* after OrderBookConsumer::on_event).
THEOREM FlowDriftIsKnown == Spec => []FlowDrift
<1>1. MarketInv => FlowDrift
  BY DEF MarketInv, MarketOK, Now, FlowDrift
<1> QED
  BY <1>1, MarketInit, MarketStep, PTL DEF Spec
-----------------------------------------------------------------------------
(* What is sent, and how often.                                            *)

\* A worker with no order behind it has no direction; one with some has climbed a step
\* with each after the first.
ClimbInv ==
  /\ last = [w \in Workers |-> last[w]] /\ climb = [w \in Workers |-> climb[w]]
  /\ \A w \in Workers :
       /\ last[w] \in [side : Sides \cup {"NONE"}, strength : Int]
       /\ climb[w] \in [orders : Nat, from : Int]
       /\ climb[w].orders = 0 => last[w].side = "NONE"
       /\ climb[w].orders > 0 =>
            /\ (climb[w].orders - 1) * StrengthStep <= last[w].strength - climb[w].from
            /\ last[w].strength <= Scale

\* Every step that sends remembers what it sent; no other touches what was.
LEMMA SentOrNot ==
  ASSUME [Next]_vars
  PROVE  \/ UNCHANGED <<last, climb>>
         \/ \E w \in Workers : Sends(w) /\ Remembered(w)
<1>1. Add \/ Withdraw \/ Replace \/ Other \/ EndInput \/ EndWindow => UNCHANGED <<last, climb>>
  BY DEF Add, Withdraw, Replace, Other, Counted, EndInput, EndWindow, windowVars
<1>2. ASSUME NEW w \in Workers, Hold(w) \/ SendInVain(w) \/ SendAndTrade(w)
      PROVE  UNCHANGED <<last, climb>> \/ (Sends(w) /\ Remembered(w))
  BY <1>2 DEF Hold, SendInVain, SendAndTrade, windowVars
<1>3. UNCHANGED vars => UNCHANGED <<last, climb>>
  BY DEF vars, windowVars
<1> QED
  BY <1>1, <1>2, <1>3 DEF Next, Arbitrate

LEMMA ClimbStep ==
  ASSUME MarketInv, ClimbInv, [Next]_vars
  PROVE  ClimbInv'
<1>1. CASE UNCHANGED <<last, climb>>
  BY <1>1 DEF ClimbInv
<1>2. ASSUME NEW w \in Workers, Sends(w), Remembered(w)
      PROVE  ClimbInv'
  <2>1. PICK side, n : side = Direction(w) /\ n = Strength(w)
    OBVIOUS
  <2>2. side \in Sides /\ n \in 0..Scale /\ n \in Int /\ Scale \in Nat /\ StrengthStep \in Nat \ {0}
    <3>1. Direction(w) # "NONE"
      BY <1>2 DEF Sends
    <3> QED
      BY <2>1, <3>1, MarketFacts, DecisionBacked, WorkerConstants
  <2>3. PICK a \in [side : Sides \cup {"NONE"}, strength : Int], c \in [orders : Nat, from : Int] :
          a = last[w] /\ c = climb[w]
    BY DEF ClimbInv
  <2>4. /\ c.orders = 0 => a.side = "NONE"
        /\ c.orders > 0 => (c.orders - 1) * StrengthStep <= a.strength - c.from
    BY <2>3 DEF ClimbInv
  <2>5. side # a.side \/ n >= a.strength + StrengthStep
    BY <1>2, <2>1, <2>3 DEF Sends, Fresh
  <2>6. PICK b, d : /\ b = [side |-> side, strength |-> n]
                    /\ d = IF side = a.side THEN [c EXCEPT !.orders = @ + 1]
                           ELSE [orders |-> 1, from |-> n]
    OBVIOUS
  <2>7. last' = [last EXCEPT ![w] = b] /\ climb' = [climb EXCEPT ![w] = d]
    BY <1>2, <2>1, <2>3, <2>6 DEF Remembered
  <2>8. /\ b \in [side : Sides \cup {"NONE"}, strength : Int] /\ b.strength <= Scale
        /\ d \in [orders : Nat, from : Int] /\ d.orders > 0
    BY <2>2, <2>3, <2>6
  <2>9. (d.orders - 1) * StrengthStep <= b.strength - d.from
    <3>1. CASE side = a.side
      <4>1. PICK k \in Nat, f \in Int, m \in Int, e \in Nat :
              k = c.orders /\ f = c.from /\ m = a.strength /\ e = StrengthStep
        BY <2>2, <2>3
      <4>2. k > 0 /\ (k - 1) * e <= m - f /\ n >= m + e
        BY <2>2, <2>3, <2>4, <2>5, <3>1, <4>1 DEF Sides
      <4>3. k * e = (k - 1) * e + e /\ (k - 1) * e \in Int
        BY <4>1
      <4>4. k * e <= n - f
        BY <2>2, <4>1, <4>2, <4>3
      <4>5. d.orders - 1 = k /\ d.from = f /\ b.strength = n
        BY <2>3, <2>6, <3>1, <4>1
      <4> QED
        BY <4>1, <4>4, <4>5
    <3>2. CASE side # a.side
      <4>1. d.orders = 1 /\ d.from = n /\ b.strength = n /\ 0 * StrengthStep = 0
        BY <2>2, <2>6, <3>2
      <4> QED
        BY <2>2, <4>1
    <3> QED
      BY <3>1, <3>2
  <2>10. last'[w] = b /\ climb'[w] = d
    BY <2>7 DEF ClimbInv
  <2>11. \A v \in Workers \ {w} : last'[v] = last[v] /\ climb'[v] = climb[v]
    BY <2>7 DEF ClimbInv
  <2>12. (last = [v \in Workers |-> last[v]] /\ climb = [v \in Workers |-> climb[v]])'
    BY <2>7 DEF ClimbInv
  <2>13. ASSUME NEW v \in Workers
         PROVE  (/\ last[v] \in [side : Sides \cup {"NONE"}, strength : Int]
                 /\ climb[v] \in [orders : Nat, from : Int]
                 /\ climb[v].orders = 0 => last[v].side = "NONE"
                 /\ climb[v].orders > 0 =>
                      /\ (climb[v].orders - 1) * StrengthStep <= last[v].strength - climb[v].from
                      /\ last[v].strength <= Scale)'
    <3>1. CASE v = w
      BY <2>8, <2>9, <2>10, <3>1
    <3>2. CASE v # w
      BY <2>11, <3>2 DEF ClimbInv
    <3> QED
      BY <3>1, <3>2
  <2> QED
    BY <2>12, <2>13 DEF ClimbInv
<1> QED
  BY <1>1, <1>2, SentOrNot

LEMMA ClimbInit ==
  ASSUME Init
  PROVE  ClimbInv
BY DEF Init, ClimbInv

\* As long as a worker keeps its direction, each of its orders is a step stronger than
\* the one before, taken or refused, so that there are never more of them than steps in
\* the scale (SimWorker::arbitrate, last_str_).
THEOREM ClimbAlwaysBounded == Spec => []ClimbIsBounded
<1>1. Init => MarketInv /\ ClimbInv
  BY MarketInit, ClimbInit
<1>2. MarketInv /\ ClimbInv /\ [Next]_vars => MarketInv' /\ ClimbInv'
  BY MarketStep, ClimbStep
<1>3. ClimbInv => ClimbIsBounded
  BY DEF ClimbInv, ClimbIsBounded
<1> QED
  BY <1>1, <1>2, <1>3, PTL DEF Spec

\* What the step that sends says of the votes.
Backed ==
  \A w \in Workers :
    last'[w] # last[w] =>
      LET side == last'[w].side
          given == {Signals(w)[i].strength : i \in Voters(w, side)}
      IN  /\ given # {} /\ WeightOf(Voters(w, side)) > WeightOf(Voters(w, Opposite(side)))
          /\ \E s \in given : s <= last'[w].strength
          /\ \E s \in given : s >= last'[w].strength

LEMMA BackedStep ==
  ASSUME MarketInv, ClimbInv, [Next]_vars
  PROVE  Backed
<1>1. CASE UNCHANGED <<last, climb>>
  BY <1>1 DEF Backed
<1>2. ASSUME NEW w \in Workers, Sends(w), Remembered(w)
      PROVE  Backed
  <2>1. Direction(w) # "NONE" /\ Signal(flow[w]) /\ Signal(imbalance[w])
    BY <1>2, MarketFacts DEF Sends
  <2>2. last' = [last EXCEPT ![w] = [side |-> Direction(w), strength |-> Strength(w)]]
    BY <1>2 DEF Remembered
  <2>3. last'[w].side = Direction(w) /\ last'[w].strength = Strength(w)
    BY <2>2 DEF ClimbInv
  <2>4. \A v \in Workers \ {w} : last'[v] = last[v]
    BY <2>2 DEF ClimbInv
  <2>5. LET side == Direction(w)
            given == {Signals(w)[i].strength : i \in Voters(w, side)}
        IN  /\ given # {} /\ WeightOf(Voters(w, side)) > WeightOf(Voters(w, Opposite(side)))
            /\ \E s \in given : s <= Strength(w)
            /\ \E s \in given : s >= Strength(w)
    BY <2>1, DecisionBacked
  <2>6. LET side == last'[w].side
            given == {Signals(w)[i].strength : i \in Voters(w, side)}
        IN  /\ given # {} /\ WeightOf(Voters(w, side)) > WeightOf(Voters(w, Opposite(side)))
            /\ \E s \in given : s <= last'[w].strength
            /\ \E s \in given : s >= last'[w].strength
    BY <2>3, <2>5
  <2> QED
    BY <2>4, <2>6 DEF Backed
<1> QED
  BY <1>1, <1>2, SentOrNot

\* Whatever the weights and the threshold, an order goes to the side whose voters
\* outweigh the other's, with a strength none of them exceeds and not all do
\* (arbitrate_decide).
THEOREM DecisionAlwaysBacked == Spec => DecisionIsBacked
<1>1. Init => MarketInv /\ ClimbInv
  BY MarketInit, ClimbInit
<1>2. MarketInv /\ ClimbInv /\ [Next]_vars => MarketInv' /\ ClimbInv'
  BY MarketStep, ClimbStep
<1>3. MarketInv /\ ClimbInv /\ [Next]_vars => [Backed]_vars
  BY BackedStep
<1> QED
  BY <1>1, <1>2, <1>3, PTL DEF Spec, DecisionIsBacked, Backed
=============================================================================
