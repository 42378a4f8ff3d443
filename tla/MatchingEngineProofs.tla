------------------------ MODULE MatchingEngineProofs ------------------------
(***************************************************************************)
(* Theorems about MatchingEngine, for every value of its constants, and,   *)
(* at the end, about Recovery, the same engine with its log, its snapshots *)
(* and its restarts.                                                       *)
(***************************************************************************)
EXTENDS Recovery, SetSums, SequenceTheorems

\* Unlinking an element of a list without duplicates closes the gap it leaves.
LEMMA UnlinkedShape ==
  ASSUME NEW S, NEW q \in Seq(S), NEW k \in DOMAIN q,
         \A i, j \in DOMAIN q : q[i] = q[j] => i = j
  PROVE  /\ Unlinked(q, q[k]) \in Seq(S)
         /\ Len(Unlinked(q, q[k])) = Len(q) - 1
         /\ \A j \in DOMAIN Unlinked(q, q[k]) :
              Unlinked(q, q[k])[j] = IF j < k THEN q[j] ELSE q[j+1]
<1> DEFINE a == SubSeq(q, 1, k-1)
           b == SubSeq(q, k+1, Len(q))
<1>1. (CHOOSE i \in DOMAIN q : q[i] = q[k]) = k
  OBVIOUS
<1>2. Unlinked(q, q[k]) = a \o b
  BY <1>1 DEF Unlinked, RemoveAt
<1>3. k \in 1..Len(q) /\ Len(q) \in Nat /\ DOMAIN q = 1..Len(q)
  OBVIOUS
<1>4. /\ a \in Seq(S) /\ Len(a) = k-1
      /\ \A i \in 1..(k-1) : a[i] = q[i]
  BY <1>3, SubSeqProperties
<1>5. /\ b \in Seq(S) /\ Len(b) = Len(q) - k
      /\ \A i \in 1..(Len(q) - k) : b[i] = q[k + i]
  BY <1>3, SubSeqProperties
<1> HIDE DEF a, b
<1>6. /\ a \o b \in Seq(S)
      /\ Len(a \o b) = Len(q) - 1
      /\ \A i \in 1..Len(q)-1 : (a \o b)[i] = IF i < k THEN a[i] ELSE b[i - (k-1)]
  <2>0. a \in Seq(S) /\ b \in Seq(S)
    BY <1>4, <1>5
  <2>1. /\ a \o b \in Seq(S)
        /\ Len(a \o b) = Len(a) + Len(b)
        /\ \A i \in 1..Len(a)+Len(b) :
             (a \o b)[i] = IF i <= Len(a) THEN a[i] ELSE b[i - Len(a)]
    BY <2>0, ConcatProperties
  <2>2. Len(a) + Len(b) = Len(q) - 1 /\ Len(a) = k - 1
    BY <1>3, <1>4, <1>5
  <2> HIDE DEF a, b
  <2>3. \A i \in 1..Len(q)-1 : i <= k - 1 <=> i < k
    BY <1>3
  <2> QED
    BY <2>1, <2>2, <2>3, Zenon
<1>7. ASSUME NEW j \in DOMAIN (a \o b)
      PROVE  (a \o b)[j] = IF j < k THEN q[j] ELSE q[j+1]
  <2>1. j \in 1..Len(q)-1
    BY <1>6
  <2>2. CASE j < k
    BY <2>1, <2>2, <1>3, <1>4, <1>6
  <2>3. CASE ~(j < k)
    <3>1. j - (k-1) \in 1..(Len(q) - k) /\ k + (j - (k-1)) = j + 1
      BY <2>1, <2>3, <1>3
    <3> QED
      BY <2>1, <2>3, <3>1, <1>5, <1>6
  <2> QED
    BY <2>2, <2>3
<1> QED
  BY <1>2, <1>6, <1>7

\* The list of an order is a list of an existing level.
LEMMA LevelTyped ==
  ASSUME BookTypeOK, NEW r \in DOMAIN orders
  PROVE  Level(orders[r]) \in Levels
BY DEF BookTypeOK, Order, Level, Levels
-----------------------------------------------------------------------------
\* What holds of the book whatever the numbers and quantities of its orders are; the
\* rest of BookInv, the order of the lists and that no order is empty, hangs on them.
SoundBook == BookTypeOK /\ ViewsAgree /\ Uncrossed

\* Writing new quantities into an order keeps the book in order: lists, levels and
\* users stay.
LEMMA QuantitiesKeepSound ==
  ASSUME SoundBook, queue' = queue, poolUsed' = poolUsed, total' \in [Levels -> Int],
         DOMAIN orders' = DOMAIN orders,
         \A r \in DOMAIN orders :
           /\ orders'[r] \in Order
           /\ orders'[r].ref = orders[r].ref
           /\ orders'[r].user = orders[r].user
           /\ orders'[r].locate = orders[r].locate
           /\ orders'[r].side = orders[r].side
           /\ orders'[r].price = orders[r].price
           /\ orders'[r].seq = orders[r].seq
  PROVE  SoundBook' /\ (InSequence => InSequence')
<1>1. \A r \in DOMAIN orders : Level(orders'[r]) = Level(orders[r])
  BY DEF Level
<1>2. BookTypeOK'
  BY DEF SoundBook, BookTypeOK
<1>3. ViewsAgree'
  BY <1>1 DEF SoundBook, ViewsAgree
<1>4. ASSUME InSequence PROVE InSequence'
  BY <1>4 DEF SoundBook, ViewsAgree, InSequence
<1>5. Uncrossed'
  BY DEF SoundBook, Uncrossed
<1> QED
  BY <1>2, <1>3, <1>4, <1>5 DEF SoundBook

\* Reducing an order below what is left of it.
LEMMA ReduceKeepsSound ==
  ASSUME SoundBook, NEW ref \in DOMAIN orders, NEW amount \in Nat, NEW isTrade \in BOOLEAN,
         amount < orders[ref].rem, Reduce(ref, amount, isTrade)
  PROVE  /\ SoundBook'
         /\ InSequence => InSequence'
         /\ DOMAIN orders' = DOMAIN orders /\ poolUsed' = poolUsed
         /\ \A r \in DOMAIN orders :
              /\ orders'[r].seq = orders[r].seq /\ orders'[r].locate = orders[r].locate
              /\ orders'[r].rem > 0 \/ orders'[r].rem = orders[r].rem
<1>1. /\ orders[ref] \in Order
      /\ Level(orders[ref]) \in Levels
      /\ FillCredit(amount, isTrade) \in Nat
  BY LevelTyped DEF SoundBook, BookTypeOK, FillCredit
<1>2. /\ DOMAIN orders' = DOMAIN orders
      /\ queue' = queue /\ poolUsed' = poolUsed
      /\ \A r \in DOMAIN orders : r # ref => orders'[r] = orders[r]
      /\ orders'[ref] = [orders[ref] EXCEPT !.rem = @ - amount,
                                           !.filled = @ + FillCredit(amount, isTrade)]
  BY DEF Reduce
<1>3. ASSUME NEW r \in DOMAIN orders
      PROVE  /\ orders'[r] \in Order
             /\ orders'[r].ref = orders[r].ref
             /\ orders'[r].user = orders[r].user
             /\ orders'[r].locate = orders[r].locate
             /\ orders'[r].side = orders[r].side
             /\ orders'[r].price = orders[r].price
             /\ orders'[r].seq = orders[r].seq
             /\ orders'[r].rem > 0 \/ orders'[r].rem = orders[r].rem
  <2>1. orders[ref].rem - amount \in Nat /\ orders[ref].rem - amount > 0
    BY <1>1 DEF Order
  <2>2. orders[ref].filled + FillCredit(amount, isTrade) \in Nat
    BY <1>1 DEF Order
  <2>3. CASE r # ref
    BY <1>2, <2>3 DEF SoundBook, BookTypeOK
  <2>4. CASE r = ref
    BY <1>1, <1>2, <2>1, <2>2, <2>4 DEF Order
  <2> QED
    BY <2>3, <2>4
<1>4. total' \in [Levels -> Int]
  BY <1>1 DEF Reduce, LevelReduced, SoundBook, BookTypeOK
<1>5. SoundBook' /\ (InSequence => InSequence')
  BY <1>2, <1>3, <1>4, QuantitiesKeepSound
<1> QED
  BY <1>2, <1>3, <1>5

LEMMA ReduceKeepsBook ==
  ASSUME BookInv, NEW ref \in DOMAIN orders, NEW amount \in Nat, NEW isTrade \in BOOLEAN,
         amount < orders[ref].rem, Reduce(ref, amount, isTrade)
  PROVE  /\ BookInv'
         /\ DOMAIN orders' = DOMAIN orders /\ poolUsed' = poolUsed
         /\ \A r \in DOMAIN orders : orders'[r].seq = orders[r].seq
<1>1. SoundBook /\ InSequence /\ NoEmptyOrder
  BY DEF BookInv, SoundBook
<1>2. /\ SoundBook' /\ InSequence'
      /\ DOMAIN orders' = DOMAIN orders /\ poolUsed' = poolUsed
      /\ \A r \in DOMAIN orders :
           /\ orders'[r].seq = orders[r].seq
           /\ orders'[r].rem > 0 \/ orders'[r].rem = orders[r].rem
  BY <1>1, ReduceKeepsSound
<1>3. NoEmptyOrder'
  BY <1>1, <1>2 DEF NoEmptyOrder
<1> QED
  BY <1>2, <1>3 DEF BookInv, SoundBook

\* Removing an order keeps the book in order: its list loses exactly that order,
\* the index its entry, the pool its slot.
LEMMA RemoveKeepsSound ==
  ASSUME SoundBook, NEW ref \in DOMAIN orders, NEW counted \in Int,
         RemoveCounted(ref, counted)
  PROVE  /\ SoundBook'
         /\ InSequence => InSequence'
         /\ DOMAIN orders' = DOMAIN orders \ {ref} /\ poolUsed' = poolUsed - 1
         /\ \A r \in DOMAIN orders' : orders'[r] = orders[r]
<1> DEFINE l == Level(orders[ref])
           q == queue[l]
           rest == Unlinked(q, ref)
<1>1. l \in Levels /\ queue \in [Levels -> Seq(Refs)]
  BY LevelTyped DEF SoundBook, BookTypeOK
<1>2. PICK k \in DOMAIN q : q[k] = ref
  BY <1>1 DEF SoundBook, ViewsAgree
<1>3. q \in Seq(Refs) /\ \A i, j \in DOMAIN q : q[i] = q[j] => i = j
  BY <1>1 DEF SoundBook, ViewsAgree
<1>4. /\ rest \in Seq(Refs)
      /\ Len(rest) = Len(q) - 1
      /\ \A j \in DOMAIN rest : rest[j] = IF j < k THEN q[j] ELSE q[j+1]
  <2>1. rest = Unlinked(q, q[k])
    BY <1>2
  <2> HIDE DEF rest, q, l
  <2>2. /\ Unlinked(q, q[k]) \in Seq(Refs)
        /\ Len(Unlinked(q, q[k])) = Len(q) - 1
        /\ \A j \in DOMAIN Unlinked(q, q[k]) :
             Unlinked(q, q[k])[j] = IF j < k THEN q[j] ELSE q[j+1]
    BY <1>3, UnlinkedShape
  <2> QED
    BY <2>1, <2>2
<1>5. /\ DOMAIN orders' = DOMAIN orders \ {ref}
      /\ \A r \in DOMAIN orders' : orders'[r] = orders[r]
      /\ poolUsed' = poolUsed - 1
      /\ queue' = [queue EXCEPT ![l] = rest]
      /\ total' = [total EXCEPT ![l] = IF rest = <<>> THEN 0 ELSE @ - counted]
  BY DEF RemoveCounted, Unindexed, SlotFreed
<1> HIDE DEF rest, q, l
<1>6. /\ queue' \in [Levels -> Seq(Refs)]
      /\ queue'[l] = rest
      /\ \A m \in Levels : m # l => queue'[m] = queue[m]
  BY <1>1, <1>4, <1>5
<1>7. DOMAIN q = 1..Len(q) /\ DOMAIN rest = 1..(Len(q)-1) /\ Len(q) \in Nat /\ k \in 1..Len(q)
  BY <1>2, <1>3, <1>4
\* Every place of the new list comes from one of the old, never from k.
<1>8. \A j \in DOMAIN rest : \E i \in DOMAIN q :
        /\ i # k /\ rest[j] = q[i]
        /\ i = IF j < k THEN j ELSE j + 1
  BY <1>4, <1>7
<1>9. BookTypeOK'
  <2>1. total' \in [Levels -> Int]
    BY <1>1, <1>5 DEF SoundBook, BookTypeOK
  <2>2. poolUsed' \in Int
    BY <1>5 DEF SoundBook, BookTypeOK
  <2> QED
    BY <1>5, <1>6, <2>1, <2>2 DEF SoundBook, BookTypeOK
<1>10. ViewsAgree'
  <2>1. ASSUME NEW r \in DOMAIN orders'
        PROVE  \E i \in DOMAIN queue'[Level(orders'[r])] :
                 queue'[Level(orders'[r])][i] = r
    <3>1. r \in DOMAIN orders /\ r # ref /\ orders'[r] = orders[r]
      BY <1>5
    <3>2. PICK i \in DOMAIN queue[Level(orders[r])] : queue[Level(orders[r])][i] = r
      BY <3>1 DEF SoundBook, ViewsAgree
    <3>3. CASE Level(orders[r]) = l
      <4>1. i \in DOMAIN q /\ q[i] = r /\ i # k
        BY <1>2, <3>1, <3>2, <3>3 DEF q
      <4>2. (IF i < k THEN i ELSE i-1) \in DOMAIN rest
        BY <1>7, <4>1
      <4>3. rest[IF i < k THEN i ELSE i-1] = r
        BY <1>4, <1>7, <4>1, <4>2
      <4> QED
        BY <1>6, <3>1, <3>3, <4>2, <4>3
    <3>4. CASE Level(orders[r]) # l
      BY <1>5, <1>6, <3>1, <3>2, <3>4, LevelTyped DEF SoundBook
    <3> QED
      BY <3>3, <3>4
  <2>2. ASSUME NEW m \in Levels, NEW i \in DOMAIN queue'[m]
        PROVE  queue'[m][i] \in DOMAIN orders' /\ Level(orders'[queue'[m][i]]) = m
    <3>1. CASE m = l
      <4>1. i \in DOMAIN rest /\ queue'[m][i] = rest[i]
        BY <1>6, <3>1
      <4>2. PICK h \in DOMAIN q : h # k /\ rest[i] = q[h]
        BY <4>1, <1>8
      <4>3. q[h] # ref /\ q[h] \in DOMAIN orders /\ Level(orders[q[h]]) = l
        BY <1>1, <1>2, <1>3, <4>2 DEF SoundBook, ViewsAgree, q
      <4> QED
        BY <1>5, <3>1, <4>1, <4>2, <4>3
    <3>2. CASE m # l
      <4>1. i \in DOMAIN queue[m] /\ queue'[m][i] = queue[m][i]
        BY <1>6, <3>2
      <4>2. queue[m][i] \in DOMAIN orders /\ Level(orders[queue[m][i]]) = m
        BY <4>1 DEF SoundBook, ViewsAgree
      <4>3. queue[m][i] # ref
        BY <3>2, <4>2 DEF l
      <4> QED
        BY <1>5, <4>1, <4>2, <4>3
    <3> QED
      BY <3>1, <3>2
  <2>3. ASSUME NEW m \in Levels, NEW i \in DOMAIN queue'[m], NEW j \in DOMAIN queue'[m],
               queue'[m][i] = queue'[m][j]
        PROVE  i = j
    <3>1. CASE m = l
      <4>1. i \in DOMAIN rest /\ j \in DOMAIN rest /\ rest[i] = rest[j]
        BY <1>6, <2>3, <3>1
      <4>2. PICK h \in DOMAIN q : rest[i] = q[h] /\ h = IF i < k THEN i ELSE i + 1
        BY <4>1, <1>8
      <4>3. PICK g \in DOMAIN q : rest[j] = q[g] /\ g = IF j < k THEN j ELSE j + 1
        BY <4>1, <1>8
      <4>4. h = g
        BY <1>3, <4>1, <4>2, <4>3
      <4> QED
        BY <1>7, <4>1, <4>2, <4>3, <4>4
    <3>2. CASE m # l
      BY <1>6, <2>3, <3>2 DEF SoundBook, ViewsAgree
    <3> QED
      BY <3>1, <3>2
  <2>4. poolUsed' = Cardinality(DOMAIN orders') /\ poolUsed' <= PoolSize
    <3>1. IsFiniteSet(DOMAIN orders)
      BY EngineConstants, FS_Subset DEF SoundBook, BookTypeOK
    <3>2. Cardinality(DOMAIN orders \ {ref}) = Cardinality(DOMAIN orders) - 1
      BY <3>1, FS_RemoveElement
    <3>3. poolUsed \in Int /\ PoolSize \in Int
      BY EngineConstants DEF SoundBook, BookTypeOK
    <3> QED
      BY <1>5, <3>2, <3>3 DEF SoundBook, ViewsAgree
  <2> QED
    BY <2>1, <2>2, <2>3, <2>4 DEF ViewsAgree
<1>11. ASSUME InSequence PROVE InSequence'
  <2> SUFFICES ASSUME NEW m \in Levels, NEW i \in DOMAIN queue'[m],
                      NEW j \in DOMAIN queue'[m], i < j
               PROVE  orders'[queue'[m][i]].seq < orders'[queue'[m][j]].seq
    BY DEF InSequence
  <2>1. /\ queue'[m][i] \in DOMAIN orders' /\ queue'[m][j] \in DOMAIN orders'
    BY <1>10 DEF ViewsAgree
  <2>2. CASE m = l
    <3>1. i \in DOMAIN rest /\ j \in DOMAIN rest
      BY <1>6, <2>2
    <3>2. PICK h \in DOMAIN q : rest[i] = q[h] /\ h = IF i < k THEN i ELSE i + 1
      BY <3>1, <1>8
    <3>3. PICK g \in DOMAIN q : rest[j] = q[g] /\ g = IF j < k THEN j ELSE j + 1
      BY <3>1, <1>8
    <3>4. h < g
      BY <1>7, <3>1, <3>2, <3>3
    <3>5. orders[q[h]].seq < orders[q[g]].seq
      BY <1>1, <1>11, <3>4 DEF InSequence, q
    <3> QED
      BY <1>5, <1>6, <2>1, <2>2, <3>2, <3>3, <3>5
  <2>3. CASE m # l
    <3>1. i \in DOMAIN queue[m] /\ j \in DOMAIN queue[m] /\ queue'[m] = queue[m]
      BY <1>6, <2>3
    <3>2. orders[queue[m][i]].seq < orders[queue[m][j]].seq
      BY <1>11, <3>1 DEF InSequence
    <3> QED
      BY <1>5, <2>1, <3>1, <3>2
  <2> QED
    BY <2>2, <2>3
<1>12. Uncrossed'
  BY <1>5 DEF SoundBook, Uncrossed
<1> QED
  BY <1>5, <1>9, <1>10, <1>11, <1>12 DEF SoundBook

LEMMA RemoveKeepsBook ==
  ASSUME BookInv, NEW ref \in DOMAIN orders, NEW counted \in Int,
         RemoveCounted(ref, counted)
  PROVE  /\ BookInv'
         /\ DOMAIN orders' = DOMAIN orders \ {ref} /\ poolUsed' = poolUsed - 1
         /\ \A r \in DOMAIN orders' : orders'[r] = orders[r]
<1>1. SoundBook /\ InSequence /\ NoEmptyOrder
  BY DEF BookInv, SoundBook
<1>2. /\ SoundBook' /\ InSequence'
      /\ DOMAIN orders' = DOMAIN orders \ {ref} /\ poolUsed' = poolUsed - 1
      /\ \A r \in DOMAIN orders' : orders'[r] = orders[r]
  BY <1>1, RemoveKeepsSound
<1>3. NoEmptyOrder'
  BY <1>1, <1>2 DEF NoEmptyOrder
<1> QED
  BY <1>2, <1>3 DEF BookInv, SoundBook

\* An order without a trade left in it can be linked at the tail of its level.
LEMMA RestKeepsSound ==
  ASSUME SoundBook, NEW o \in Order, Rest(o),
         o.price \in Prices, o.ref \notin DOMAIN orders,
         poolUsed < PoolSize,
         \A r \in DOMAIN orders :
           /\ orders[r].locate = o.locate /\ orders[r].side = Opposite(o.side)
           /\ Crosses(o.side, o.price, orders[r].price)
           => orders[r].user = o.user
  PROVE  /\ SoundBook'
         /\ InSequence /\ (\A r \in DOMAIN orders :
                            Level(orders[r]) = Level(o) => orders[r].seq < o.seq)
              => InSequence'
         /\ queue' = [queue EXCEPT ![Level(o)] = Append(@, o.ref)]
         /\ poolUsed' = poolUsed + 1
         /\ DOMAIN orders' = DOMAIN orders \cup {o.ref}
         /\ orders'[o.ref] = o
         /\ \A r \in DOMAIN orders : orders'[r] = orders[r]
<1> DEFINE l == Level(o)
           q == queue[l]
           n == Len(q)
<1>1. l \in Levels /\ queue \in [Levels -> Seq(Refs)] /\ o.ref \in Refs
  BY DEF SoundBook, BookTypeOK, Order, Level, Levels
<1>2. /\ DOMAIN orders' = DOMAIN orders \cup {o.ref}
      /\ orders'[o.ref] = o
      /\ \A r \in DOMAIN orders : orders'[r] = orders[r]
      /\ poolUsed' = poolUsed + 1
      /\ queue' = [queue EXCEPT ![l] = Append(q, o.ref)]
      /\ total' = [total EXCEPT ![l] = @ + o.rem]
  BY DEF Rest, Indexed, Linked
<1>3. /\ Append(q, o.ref) \in Seq(Refs)
      /\ DOMAIN q = 1..n /\ n \in Nat
      /\ DOMAIN Append(q, o.ref) = 1..(n+1)
      /\ Append(q, o.ref)[n+1] = o.ref
      /\ \A i \in 1..n : Append(q, o.ref)[i] = q[i]
  BY <1>1
<1>4. /\ queue' \in [Levels -> Seq(Refs)]
      /\ queue'[l] = Append(q, o.ref)
      /\ \A m \in Levels : m # l => queue'[m] = queue[m]
  BY <1>1, <1>2, <1>3
<1> HIDE DEF l, n
<1>5. BookTypeOK'
  <2>1. total' \in [Levels -> Int]
    BY <1>1, <1>2 DEF SoundBook, BookTypeOK, Order
  <2>2. poolUsed' \in Int
    BY <1>2 DEF SoundBook, BookTypeOK
  <2> QED
    BY <1>1, <1>2, <1>4, <2>1, <2>2 DEF SoundBook, BookTypeOK
\* Every place of every list is an old one, or the new last one of level l.
<1>6. ASSUME NEW m \in Levels, NEW i \in DOMAIN queue'[m]
      PROVE  \/ /\ i \in DOMAIN queue[m] /\ queue'[m][i] = queue[m][i]
                /\ queue[m][i] \in DOMAIN orders
                /\ Level(orders[queue[m][i]]) = m
                /\ queue[m][i] # o.ref
             \/ m = l /\ i = n + 1 /\ queue'[m][i] = o.ref
  <2>1. CASE m = l /\ i = n + 1
    BY <1>3, <1>4, <2>1
  <2>2. CASE ~(m = l /\ i = n + 1)
    <3>1. CASE m # l
      BY <1>4, <3>1 DEF SoundBook, ViewsAgree
    <3>2. CASE m = l
      <4>1. i \in 1..(n+1) /\ i # n + 1
        BY <1>3, <1>4, <2>2, <3>2
      <4>3. i \in 1..n
        BY <1>3, <4>1
      <4>2. i \in DOMAIN q /\ queue'[m][i] = q[i]
        BY <1>3, <1>4, <3>2, <4>3
      <4> QED
        BY <3>2, <4>2 DEF SoundBook, ViewsAgree
    <3> QED
      BY <3>1, <3>2
  <2> QED
    BY <2>1, <2>2
<1>7. ViewsAgree'
  <2>1. ASSUME NEW r \in DOMAIN orders'
        PROVE  \E i \in DOMAIN queue'[Level(orders'[r])] :
                 queue'[Level(orders'[r])][i] = r
    <3>1. CASE r = o.ref
      <4>1. Level(orders'[r]) = l
        BY <1>2, <3>1 DEF l
      <4> QED
        BY <1>3, <1>4, <3>1, <4>1
    <3>2. CASE r # o.ref
      <4>1. r \in DOMAIN orders /\ orders'[r] = orders[r]
        BY <1>2, <3>2
      <4>2. PICK i \in DOMAIN queue[Level(orders[r])] : queue[Level(orders[r])][i] = r
        BY <4>1 DEF SoundBook, ViewsAgree
      <4>3. Level(orders[r]) \in Levels
        BY <4>1, LevelTyped DEF SoundBook
      <4>4. CASE Level(orders[r]) = l
        <5>1. i \in 1..n /\ queue'[l][i] = r /\ i \in DOMAIN queue'[l]
          BY <1>3, <1>4, <4>2, <4>4
        <5> QED
          BY <4>1, <4>4, <5>1
      <4>5. CASE Level(orders[r]) # l
        BY <1>4, <4>1, <4>2, <4>3, <4>5
      <4> QED
        BY <4>4, <4>5
    <3> QED
      BY <3>1, <3>2
  <2>2. ASSUME NEW m \in Levels, NEW i \in DOMAIN queue'[m]
        PROVE  queue'[m][i] \in DOMAIN orders' /\ Level(orders'[queue'[m][i]]) = m
    BY <1>2, <1>6 DEF l
  <2>3. ASSUME NEW m \in Levels, NEW i \in DOMAIN queue'[m], NEW j \in DOMAIN queue'[m],
               queue'[m][i] = queue'[m][j]
        PROVE  i = j
    <3>1. \A a, b \in DOMAIN queue[m] : queue[m][a] = queue[m][b] => a = b
      BY DEF SoundBook, ViewsAgree
    <3> QED
      BY <1>6, <2>3, <3>1
  <2>4. poolUsed' = Cardinality(DOMAIN orders') /\ poolUsed' <= PoolSize
    <3>1. IsFiniteSet(DOMAIN orders)
      BY EngineConstants, FS_Subset DEF SoundBook, BookTypeOK
    <3>2. Cardinality(DOMAIN orders \cup {o.ref}) = Cardinality(DOMAIN orders) + 1
      BY <3>1, FS_AddElement
    <3>3. poolUsed \in Int /\ PoolSize \in Int
      BY EngineConstants DEF SoundBook, BookTypeOK
    <3> QED
      BY <1>2, <3>2, <3>3 DEF SoundBook, ViewsAgree
  <2> QED
    BY <2>1, <2>2, <2>3, <2>4 DEF ViewsAgree
<1>8. ASSUME InSequence,
             \A r \in DOMAIN orders : Level(orders[r]) = Level(o) => orders[r].seq < o.seq
      PROVE  InSequence'
  <2> SUFFICES ASSUME NEW m \in Levels, NEW i \in DOMAIN queue'[m],
                      NEW j \in DOMAIN queue'[m], i < j
               PROVE  orders'[queue'[m][i]].seq < orders'[queue'[m][j]].seq
    BY DEF InSequence
  <2>0. DOMAIN queue'[l] = 1..(n+1)
    BY <1>3, <1>4
  <2>1. i \in DOMAIN queue[m] /\ queue'[m][i] = queue[m][i] /\ queue[m][i] \in DOMAIN orders
    BY <1>3, <1>6, <2>0
  <2>2. CASE m = l /\ j = n + 1
    <3>1. queue[m][i] \in DOMAIN orders /\ Level(orders[queue[m][i]]) = l
      BY <2>1, <2>2 DEF SoundBook, ViewsAgree
    <3>2. orders[queue[m][i]].seq < o.seq
      BY <1>8, <3>1 DEF l
    <3>3. queue'[m][j] = o.ref
      BY <1>3, <1>4, <2>2
    <3> QED
      BY <1>2, <2>1, <3>2, <3>3
  <2>3. CASE ~(m = l /\ j = n + 1)
    <3>1. j \in DOMAIN queue[m] /\ queue'[m][j] = queue[m][j] /\ queue[m][j] \in DOMAIN orders
      BY <1>6, <2>3
    <3>2. orders[queue[m][i]].seq < orders[queue[m][j]].seq
      BY <1>8, <2>1, <3>1 DEF InSequence
    <3> QED
      BY <1>2, <2>1, <3>1, <3>2
  <2> QED
    BY <2>2, <2>3
<1>10. Uncrossed'
  <2> SUFFICES ASSUME NEW b \in DOMAIN orders', NEW a \in DOMAIN orders',
                      orders'[b].side = "BUY", orders'[a].side = "SELL",
                      orders'[b].locate = orders'[a].locate,
                      orders'[b].price >= orders'[a].price
               PROVE  orders'[b].user = orders'[a].user
    BY DEF Uncrossed
  <2>1. CASE b \in DOMAIN orders /\ a \in DOMAIN orders
    BY <1>2, <2>1 DEF SoundBook, Uncrossed
  <2>2. CASE b = o.ref /\ a \in DOMAIN orders
    <3>1. orders'[b] = o /\ orders'[a] = orders[a] /\ o.price \in Nat /\ orders[a].price \in Nat
      BY <1>2, <2>2, EngineConstants DEF SoundBook, BookTypeOK
    <3>2. Crosses(o.side, o.price, orders[a].price) /\ orders[a].side = Opposite(o.side)
      BY <3>1 DEF Crosses, Opposite
    <3> QED
      BY <2>2, <3>1, <3>2
  <2>3. CASE a = o.ref /\ b \in DOMAIN orders
    <3>1. orders'[a] = o /\ orders'[b] = orders[b] /\ o.price \in Nat /\ orders[b].price \in Nat
      BY <1>2, <2>3, EngineConstants DEF SoundBook, BookTypeOK
    <3>2. Crosses(o.side, o.price, orders[b].price) /\ orders[b].side = Opposite(o.side)
      BY <3>1 DEF Crosses, Opposite
    <3> QED
      BY <2>3, <3>1, <3>2
  <2>4. CASE b = o.ref /\ a = o.ref
    BY <2>4
  <2> QED
    BY <1>2, <2>1, <2>2, <2>3, <2>4
<1> QED
  BY <1>2, <1>5, <1>7, <1>8, <1>10 DEF SoundBook, l
LEMMA RestKeepsBook ==
  ASSUME BookInv, NEW o \in Order, Rest(o),
         o.price \in Prices, o.rem > 0, o.ref \notin DOMAIN orders,
         poolUsed < PoolSize,
         \A r \in DOMAIN orders : orders[r].seq < o.seq,
         \A r \in DOMAIN orders :
           /\ orders[r].locate = o.locate /\ orders[r].side = Opposite(o.side)
           /\ Crosses(o.side, o.price, orders[r].price)
           => orders[r].user = o.user
  PROVE  /\ BookInv'
         /\ DOMAIN orders' = DOMAIN orders \cup {o.ref}
         /\ orders'[o.ref] = o
         /\ \A r \in DOMAIN orders : orders'[r] = orders[r]
<1>1. SoundBook /\ InSequence /\ NoEmptyOrder
  BY DEF BookInv, SoundBook
<1>2. /\ SoundBook' /\ InSequence'
      /\ DOMAIN orders' = DOMAIN orders \cup {o.ref} /\ orders'[o.ref] = o
      /\ \A r \in DOMAIN orders : orders'[r] = orders[r]
  BY <1>1, RestKeepsSound
<1>3. NoEmptyOrder'
  BY <1>1, <1>2 DEF NoEmptyOrder
<1> QED
  BY <1>2, <1>3 DEF BookInv, SoundBook
-----------------------------------------------------------------------------
\* getBestBid/getBestAsk find an order whenever another user has one there, and
\* none they pass over has a better price: if the loop may not go on, no order of
\* another user crosses the local one.
LEMMA NothingCrossesWhenDone ==
  ASSUME SoundBook, order \in Order, order.rem > 0,
         ~ \E l \in Levels : \E i \in DOMAIN queue[l] : MayTrade(l, i),
         NEW r \in DOMAIN orders,
         orders[r].locate = order.locate, orders[r].side = Opposite(order.side),
         Crosses(order.side, order.price, orders[r].price)
  PROVE  orders[r].user = order.user
<1> DEFINE side == Opposite(order.side)
           lev(p) == <<order.locate, side, p>>
           P == {p \in Prices : Others(lev(p), order.user) # {}}
<1> SUFFICES ASSUME orders[r].user # order.user PROVE FALSE
  OBVIOUS
<1>1. Prices \subseteq Nat /\ MaxPrice \in Nat /\ \A p \in Prices : p <= MaxPrice
  BY EngineConstants
<1>2. order.locate \in Locates /\ order.side \in Sides /\ side \in Sides
  BY DEF Order, Sides, Opposite
<1>3. orders[r].price \in P
  <2>1. Level(orders[r]) = lev(orders[r].price) /\ orders[r].price \in Prices
    BY DEF Level, SoundBook, BookTypeOK
  <2>2. PICK i \in DOMAIN queue[Level(orders[r])] : queue[Level(orders[r])][i] = r
    BY DEF SoundBook, ViewsAgree
  <2>3. i \in Others(Level(orders[r]), order.user)
    BY <2>2 DEF Others
  <2> QED
    BY <2>1, <2>3
<1>4. P \in SUBSET Nat /\ P # {} /\ \A p \in P : p <= MaxPrice
  BY <1>1, <1>3
<1> HIDE DEF P
<1>5. PICK p \in P : \A m \in P : ~Better(side, m, p)
  <2>1. CASE side = "BUY"
    <3>1. PICK p \in P : \A m \in P : m <= p
      BY <1>1, <1>4, GreatestNat
    <3> QED
      BY <1>4, <2>1, <3>1 DEF Better
  <2>2. CASE side # "BUY"
    <3>1. PICK p \in P : \A m \in P : p <= m
      BY <1>4, LeastNat
    <3> QED
      BY <1>4, <2>2, <3>1 DEF Better
  <2> QED
    BY <2>1, <2>2
<1>6. p \in Prices /\ lev(p) \in Levels /\ Others(lev(p), order.user) # {}
  BY <1>2, <1>5 DEF P, Levels
<1>7. queue[lev(p)] \in Seq(Refs)
  BY <1>6 DEF SoundBook, BookTypeOK
<1>8. Others(lev(p), order.user) \in SUBSET Nat
  BY <1>7 DEF Others
<1>9. PICK i \in Others(lev(p), order.user) : \A j \in Others(lev(p), order.user) : i <= j
  BY <1>6, <1>8, LeastNat
<1>10. ASSUME NEW m \in Levels, m[1] = order.locate, m[2] = side, Better(side, m[3], p)
       PROVE  Others(m, order.user) = {}
  <2>1. m = lev(m[3]) /\ m[3] \in Prices
    BY <1>10 DEF Levels
  <2> HIDE DEF lev
  <2>2. m[3] \notin P
    BY <1>5, <1>10
  <2> QED
    BY <2>1, <2>2 DEF P
<1>11. IsBest(lev(p), i, order.locate, side, order.user)
  BY <1>6, <1>9, <1>10 DEF IsBest
<1>12. Crosses(order.side, order.price, p)
  <2>1. ~Better(side, orders[r].price, p) /\ orders[r].price \in Nat /\ p \in Nat
    BY <1>1, <1>3, <1>4, <1>5, <1>6
  <2>2. order.price \in Nat
    <3>1. order.price \in Prices \/ order.price = 0 \/ order.price = MaxPrice
      BY DEF Order
    <3>2. CASE order.price \in Prices
      BY <1>1, <3>2
    <3> QED
      BY <1>1, <3>1, <3>2
  <2> QED
    BY <1>2, <2>1, <2>2 DEF Better, Crosses, Opposite, Sides
<1>13. MayTrade(lev(p), i)
  BY <1>11, <1>12 DEF MayTrade
<1> QED
  BY <1>6, <1>9, <1>13 DEF Others
-----------------------------------------------------------------------------
\* The invariant says nothing of the future: a step that changes no variable
\* keeps it, and one that leaves the book alone keeps BookInv.
LEMMA SameBook ==
  ASSUME BookInv, UNCHANGED book
  PROVE  BookInv' /\ orders' = orders /\ poolUsed' = poolUsed
<1> USE DEF book
<1>1. orders' = orders /\ queue' = queue /\ total' = total /\ poolUsed' = poolUsed
  OBVIOUS
<1>2. BookTypeOK'
  BY <1>1 DEF BookInv, BookTypeOK
<1>3. ViewsAgree'
  BY <1>1 DEF BookInv, ViewsAgree
<1>4. InSequence' /\ NoEmptyOrder' /\ Uncrossed'
  BY <1>1 DEF BookInv, InSequence, NoEmptyOrder, Uncrossed
<1> QED
  BY <1>1, <1>2, <1>3, <1>4 DEF BookInv

\* What the validations of processAdd let through, and what they answer.
LEMMA AddErrorMeaning ==
  ASSUME NEW loc, NEW ref, NEW side, NEW price, NEW qty, NEW user, NEW tif
  PROVE  /\ AddError(loc, ref, side, price, qty, user, tif) \in ErrorCodes \cup {"NONE"}
         /\ AddError(loc, ref, side, price, qty, user, tif) = "NONE" =>
              /\ loc \in Locates /\ side \in Sides
              /\ WellFormed(ref, price, qty, user, tif)
<1> DEFINE err == AddError(loc, ref, side, price, qty, user, tif)
           valid == loc \in Locates /\ side \in Sides /\ WellFormed(ref, price, qty, user, tif)
<1>1. err \in {"INVALID_COMMAND_TYPE", "INVALID_SIDE", "INVALID_PRICE_QTY_USER",
              "FOK_NO_FULL_FILL", "NONE"}
  BY Zenon DEF AddError
<1>2. ASSUME ~valid
      PROVE  err \in {"INVALID_COMMAND_TYPE", "INVALID_SIDE", "INVALID_PRICE_QTY_USER"}
  BY <1>2, Zenon DEF AddError
<1> HIDE DEF err
<1>3. err \in ErrorCodes \cup {"NONE"}
  BY <1>1 DEF ErrorCodes
<1>4. err = "NONE" => valid
  BY <1>2
<1> QED
  BY <1>3, <1>4 DEF err

\* A call that is answered without matching keeps the invariant.
LEMMA ReplyKeepsInv ==
  ASSUME EngineInv, BookInv', DOMAIN orders' \subseteq DOMAIN orders,
         \A r \in DOMAIN orders' : orders'[r].seq = orders[r].seq,
         NEW op \in {"ADD", "REPLACE", "CANCEL"}, NEW tif \in Tifs, NEW response \in Response,
         op = "REPLACE" => response # Error("POOL_FULL"),
         Reply(op, tif, response), used \subseteq used', used' \subseteq Refs
  PROVE  EngineInv'
<1>1. CallTypeOK'
  BY DEF Reply, EngineInv, CallTypeOK
<1>2. InFlight'
  BY DEF Reply, EngineInv, InFlight
<1>3. ReplaceNeverPoolFull'
  BY DEF Reply, ReplaceNeverPoolFull
<1> QED
  BY <1>1, <1>2, <1>3 DEF EngineInv

\* A call that enters the matching loop with a well-formed order keeps it.
LEMMA EnterKeepsInv ==
  ASSUME EngineInv, BookInv', DOMAIN orders' \subseteq DOMAIN orders,
         \A r \in DOMAIN orders' : orders'[r].seq = orders[r].seq,
         NEW op \in {"ADD", "REPLACE"}, NEW tif \in Tifs, NEW o \in Order,
         o.seq = nextSeq, o.filled = 0, o.rem = o.orig, o.orig > 0,
         tif = "DAY" => o.price \in Prices,
         op = "REPLACE" => tif = "DAY" /\ poolUsed' < PoolSize,
         EnterMatching(op, tif, o),
         o.ref \notin used, used' = used \cup {o.ref}
  PROVE  EngineInv'
<1>1. /\ phase' = "matching" /\ cmd' = [op |-> op, tif |-> tif] /\ order' = o
      /\ out' = <<>> /\ nextSeq' = nextSeq + 1
  BY DEF EnterMatching
<1>2. /\ nextSeq \in Nat /\ used \subseteq Refs /\ DOMAIN orders \subseteq used
      /\ \A r \in DOMAIN orders : orders[r].seq < nextSeq
      /\ o.ref \in Refs /\ o.orig \in Nat
  BY DEF EngineInv, CallTypeOK, InFlight, Order
<1>3. CallTypeOK'
  BY <1>1, <1>2 DEF CallTypeOK
<1>4. \A r \in DOMAIN orders' : orders'[r] \in Order
  BY DEF BookInv, BookTypeOK
<1>5. \A r \in DOMAIN orders' : orders'[r].seq < o.seq /\ orders'[r].seq < nextSeq'
  <2> TAKE r \in DOMAIN orders'
  <2>1. orders'[r].seq \in Nat
    BY <1>4 DEF Order
  <2> QED
    BY <1>1, <1>2, <2>1
<1>6. InFlight'
  <2>1. DOMAIN orders' \subseteq used'
    BY <1>2
  <2>2. o.ref \in used' \ DOMAIN orders'
    BY <1>2
  <2>3. o.seq < nextSeq' /\ o.filled + o.rem = o.orig
    BY <1>1, <1>2
  <2> QED
    BY <1>1, <1>5, <2>1, <2>2, <2>3 DEF InFlight
<1>7. ReplaceNeverPoolFull'
  BY <1>1 DEF ReplaceNeverPoolFull
<1> QED
  BY <1>3, <1>6, <1>7 DEF EngineInv

-----------------------------------------------------------------------------
\* One lemma per handler: it keeps the invariant, for arguments of these types.
LEMMA InitKeepsInv == Init => EngineInv
<1> SUFFICES ASSUME Init PROVE EngineInv
  OBVIOUS
<1>1. DOMAIN orders = {} /\ poolUsed = 0 /\ PoolSize \in Nat
  BY EngineConstants DEF Init
<1>2. BookTypeOK
  BY <1>1 DEF Init, BookTypeOK
<1>3. \A l \in Levels : queue[l] = <<>> /\ DOMAIN queue[l] = {}
  BY DEF Init
<1>4. ViewsAgree
  BY <1>1, <1>3, FS_EmptySet DEF ViewsAgree
<1>5. InSequence /\ NoEmptyOrder /\ Uncrossed
  BY <1>1, <1>3 DEF InSequence, NoEmptyOrder, Uncrossed
<1>6. CallTypeOK
  BY DEF Init, CallTypeOK, Tifs
<1>7. InFlight /\ ReplaceNeverPoolFull
  BY <1>1 DEF Init, InFlight, ReplaceNeverPoolFull
<1> QED
  BY <1>2, <1>4, <1>5, <1>6, <1>7 DEF EngineInv, BookInv

\* A market order's price is the extreme one of its side, any other's its limit.
LEMMA LimitPriceTyped ==
  ASSUME NEW tif \in Tifs, NEW side \in Sides, NEW price \in Prices \cup {0},
         price = 0 => IsMarket(tif, price)
  PROVE  /\ LimitPrice(tif, side, price) \in Prices \cup {0, MaxPrice}
         /\ tif = "DAY" => LimitPrice(tif, side, price) \in Prices
BY DEF LimitPrice, IsMarket, MarketPrice, Tifs

\* The first step of processAdd: a refusal, or entering the matching.
LEMMA ProcessAddKeepsInv ==
  ASSUME EngineInv,
         NEW loc, NEW ref \in Refs \cup {0}, NEW side, NEW price \in Prices \cup {0},
         NEW qty \in Nat, NEW user \in Users \cup {0}, NEW tif \in Tifs,
         ProcessAdd(loc, ref, side, price, qty, user, tif)
  PROVE  EngineInv'
<1> DEFINE err == AddError(loc, ref, side, price, qty, user, tif)
           o == NewOrder(ref, user, loc, side, LimitPrice(tif, side, price), qty)
<1>1. BookInv /\ used \subseteq Refs /\ nextSeq \in Nat
  BY DEF EngineInv, CallTypeOK
<1>2. /\ ref \notin used /\ used' = used \cup ({ref} \cap Refs) /\ UNCHANGED book
      /\ IF err # "NONE" THEN Reply("ADD", tif, Error(err)) ELSE EnterMatching("ADD", tif, o)
  BY DEF ProcessAdd
<1>3. BookInv' /\ orders' = orders
  BY <1>1, <1>2, SameBook
<1>4. /\ err \in ErrorCodes \cup {"NONE"}
      /\ err = "NONE" => /\ loc \in Locates /\ side \in Sides
                       /\ WellFormed(ref, price, qty, user, tif)
  BY AddErrorMeaning
<1> HIDE DEF err
<1>5. CASE err # "NONE"
  <2>1. Error(err) \in Response
    BY <1>4, <1>5 DEF Error, Response
  <2> QED
    BY <1>1, <1>2, <1>3, <1>5, <2>1, ReplyKeepsInv
<1>6. CASE err = "NONE"
  <2>1. /\ loc \in Locates /\ side \in Sides /\ qty > 0
        /\ ref \in Refs /\ user \in Users
        /\ price = 0 => IsMarket(tif, price)
    BY <1>4, <1>6 DEF WellFormed
  <2>2. /\ LimitPrice(tif, side, price) \in Prices \cup {0, MaxPrice}
        /\ tif = "DAY" => LimitPrice(tif, side, price) \in Prices
    BY <2>1, LimitPriceTyped
  <2>3. /\ o \in Order /\ o.seq = nextSeq /\ o.filled = 0 /\ o.rem = o.orig
        /\ o.orig > 0 /\ o.ref = ref /\ o.price = LimitPrice(tif, side, price)
    BY <1>1, <2>1, <2>2 DEF NewOrder, Order
  <2> HIDE DEF o
  <2> QED
    BY <1>2, <1>3, <1>6, <2>1, <2>2, <2>3, EnterKeepsInv
<1> QED
  BY <1>5, <1>6

\* The answers of the cancelling handlers.
LEMMA ResponsesTyped ==
  ASSUME NEW ref \in Refs
  PROVE  /\ Error("ORDER_NOT_FOUND") \in Response
         /\ Error("MKT_NO_LIQUIDITY") \in Response
         /\ Error("FOK_NO_FULL_FILL") \in Response
         /\ Error("POOL_FULL") \in Response
         /\ Ack("CANCELLED", ref) \in Response
         /\ Ack("OK", ref) \in Response
         /\ Ack("FILLED", ref) \in Response
         /\ Error("ORDER_NOT_FOUND") # Error("POOL_FULL")
BY DEF Error, Ack, Response, ErrorCodes

\* processCancel removes an order of its user, or answers ORDER_NOT_FOUND.
LEMMA ProcessCancelKeepsInv ==
  ASSUME EngineInv, NEW loc, NEW ref \in Refs, NEW user, ProcessCancel(loc, ref, user)
  PROVE  EngineInv'
<1>1. BookInv /\ used' = used /\ used \subseteq Refs
  BY DEF EngineInv, CallTypeOK, ProcessCancel
<1>2. "DAY" \in Tifs
  BY DEF Tifs
<1>3. CASE Owns(loc, ref, user)
  <2>1. /\ RemoveCounted(ref, orders[ref].rem)
        /\ Reply("CANCEL", "DAY", Ack("CANCELLED", ref))
    BY <1>3 DEF ProcessCancel, RemoveOrder
  <2>2. ref \in DOMAIN orders /\ orders[ref].rem \in Int
    BY <1>1, <1>3 DEF Owns, BookInv, BookTypeOK, Order
  <2>3. /\ BookInv' /\ DOMAIN orders' = DOMAIN orders \ {ref}
        /\ \A r \in DOMAIN orders' : orders'[r] = orders[r]
    BY <1>1, <2>1, <2>2, RemoveKeepsBook
  <2> QED
    BY <1>1, <1>2, <2>1, <2>3, ReplyKeepsInv, ResponsesTyped
<1>4. CASE ~Owns(loc, ref, user)
  <2>1. UNCHANGED book /\ Reply("CANCEL", "DAY", Error("ORDER_NOT_FOUND"))
    BY <1>4 DEF ProcessCancel
  <2>2. BookInv' /\ orders' = orders
    BY <1>1, <2>1, SameBook
  <2> QED
    BY <1>1, <1>2, <2>1, <2>2, ReplyKeepsInv, ResponsesTyped
<1> QED
  BY <1>3, <1>4

\* processCancelShares removes the order or takes shares off it.
LEMMA ProcessCancelSharesKeepsInv ==
  ASSUME EngineInv, NEW loc, NEW ref \in Refs, NEW shares \in Nat, NEW user,
         ProcessCancelShares(loc, ref, shares, user)
  PROVE  EngineInv'
<1>1. BookInv /\ used' = used /\ used \subseteq Refs /\ "DAY" \in Tifs
  BY DEF EngineInv, CallTypeOK, ProcessCancelShares, Tifs
<1>2. CASE ~Owns(loc, ref, user)
  <2>1. UNCHANGED book /\ Reply("CANCEL", "DAY", Error("ORDER_NOT_FOUND"))
    BY <1>2 DEF ProcessCancelShares
  <2>2. BookInv' /\ orders' = orders
    BY <1>1, <2>1, SameBook
  <2> QED
    BY <1>1, <2>1, <2>2, ReplyKeepsInv, ResponsesTyped
<1>3. CASE Owns(loc, ref, user)
  <2>1. ref \in DOMAIN orders /\ orders[ref].rem \in Nat /\ orders[ref].rem \in Int
    BY <1>1, <1>3 DEF Owns, BookInv, BookTypeOK, Order
  <2>2. CASE CancelsAll(ref, shares)
    <3>1. /\ RemoveCounted(ref, orders[ref].rem)
          /\ Reply("CANCEL", "DAY", Ack("CANCELLED", ref))
      BY <1>3, <2>2 DEF ProcessCancelShares, RemoveOrder
    <3>2. /\ BookInv' /\ DOMAIN orders' = DOMAIN orders \ {ref}
          /\ \A r \in DOMAIN orders' : orders'[r] = orders[r]
      BY <1>1, <2>1, <3>1, RemoveKeepsBook
    <3> QED
      BY <1>1, <3>1, <3>2, ReplyKeepsInv, ResponsesTyped
  <2>3. CASE ~CancelsAll(ref, shares)
    <3>1. /\ Reduce(ref, shares, FALSE)
          /\ Reply("CANCEL", "DAY", Ack("OK", ref))
      BY <1>3, <2>3 DEF ProcessCancelShares
    <3>2. shares < orders[ref].rem
      BY <2>1, <2>3 DEF CancelsAll
    <3>3. /\ BookInv' /\ DOMAIN orders' = DOMAIN orders
          /\ \A r \in DOMAIN orders : orders'[r].seq = orders[r].seq
      BY <1>1, <2>1, <3>1, <3>2, ReduceKeepsBook
    <3> QED
      BY <1>1, <3>1, <3>3, ReplyKeepsInv, ResponsesTyped
  <2> QED
    BY <2>2, <2>3
<1> QED
  BY <1>2, <1>3

\* processReplace frees the slot its new order needs, before it matches that order.
LEMMA ProcessReplaceKeepsInv ==
  ASSUME EngineInv, NEW loc, NEW old \in Refs, NEW new \in Refs, NEW price \in Prices,
         NEW qty \in Nat \ {0}, NEW user, ProcessReplace(loc, old, new, price, qty, user)
  PROVE  EngineInv'
<1>1. /\ BookInv /\ used \subseteq Refs /\ "DAY" \in Tifs /\ nextSeq \in Nat
      /\ new \notin used /\ used' = used \cup {new}
  BY DEF EngineInv, CallTypeOK, ProcessReplace, Tifs
<1>2. CASE ~Owns(loc, old, user)
  <2>1. UNCHANGED book /\ Reply("REPLACE", "DAY", Error("ORDER_NOT_FOUND"))
    BY <1>2 DEF ProcessReplace
  <2>2. BookInv' /\ orders' = orders
    BY <1>1, <2>1, SameBook
  <2> QED
    BY <1>1, <2>1, <2>2, ReplyKeepsInv, ResponsesTyped
<1>3. CASE Owns(loc, old, user)
  <2> DEFINE o == NewOrder(new, new, loc, orders[old].side, price, qty)
  <2>1. /\ RemoveCounted(old, orders[old].rem)
        /\ EnterMatching("REPLACE", "DAY", o)
    BY <1>3 DEF ProcessReplace, RemoveOrder
  <2>2. /\ old \in DOMAIN orders /\ orders[old].rem \in Int
        /\ orders[old].side \in Sides /\ loc \in Locates
    BY <1>1, <1>3 DEF Owns, BookInv, BookTypeOK, Order
  <2>3. /\ BookInv' /\ DOMAIN orders' = DOMAIN orders \ {old}
        /\ poolUsed' = poolUsed - 1
        /\ \A r \in DOMAIN orders' : orders'[r] = orders[r]
    BY <1>1, <2>1, <2>2, RemoveKeepsBook
  <2>4. poolUsed' < PoolSize
    BY <1>1, <2>3, EngineConstants DEF BookInv, BookTypeOK, ViewsAgree
  <2>5. /\ o \in Order /\ o.seq = nextSeq /\ o.filled = 0 /\ o.rem = o.orig
        /\ o.orig > 0 /\ o.ref = new /\ o.price = price
    BY <1>1, <2>2 DEF NewOrder, Order, Users
  <2> HIDE DEF o
  <2> QED
    BY <1>1, <2>1, <2>3, <2>4, <2>5, EnterKeepsInv
<1> QED
  BY <1>2, <1>3

\* One round of the matching loop: the best maker is reduced, or removed when empty.
LEMMA MatchStepKeepsInv ==
  ASSUME EngineInv, MatchStep
  PROVE  EngineInv'
<1>1. /\ BookInv /\ CallTypeOK /\ InFlight /\ phase = "matching"
      /\ UNCHANGED <<nextSeq, used, phase, cmd>>
  BY DEF EngineInv, MatchStep
<1> DEFINE TradesWith(l, i) ==
        /\ MayTrade(l, i)
        /\ LET maker == orders[queue[l][i]]
               qty == TradeQty(order, maker)
           IN  /\ order' = [order EXCEPT !.rem = @ - qty, !.filled = @ + qty]
               /\ out' = Append(out, Trade(maker, qty))
               /\ IF qty = maker.rem
                  THEN RemoveCounted(maker.ref, qty)
                  ELSE Reduce(maker.ref, qty, TRUE)
<1>0. PICK l \in Levels : \E i \in DOMAIN queue[l] : TradesWith(l, i)
  BY DEF MatchStep
<1>2. PICK i \in DOMAIN queue[l] : TradesWith(l, i)
  BY <1>0
<1> DEFINE ref == queue[l][i]
           maker == orders[ref]
           qty == TradeQty(order, maker)
<1>3. /\ order' = [order EXCEPT !.rem = @ - qty, !.filled = @ + qty]
      /\ out' = Append(out, Trade(maker, qty))
      /\ IF qty = maker.rem
         THEN RemoveCounted(maker.ref, qty)
         ELSE Reduce(maker.ref, qty, TRUE)
  BY <1>2
<1>4. ref \in DOMAIN orders /\ ref \in Refs
  BY <1>1 DEF BookInv, BookTypeOK, ViewsAgree
<1> HIDE DEF ref
<1>5. maker \in Order /\ maker.ref = ref /\ maker.price \in Prices /\ maker.rem > 0
  BY <1>1, <1>4 DEF BookInv, BookTypeOK, NoEmptyOrder
<1>6. order \in Order /\ order.rem > 0 /\ order.ref \in used \ DOMAIN orders
  BY <1>1, <1>2 DEF InFlight, MayTrade
<1>7. maker.rem \in Nat /\ order.rem \in Nat /\ order.filled \in Nat
  BY <1>5, <1>6 DEF Order
<1>8. qty \in Nat /\ qty > 0 /\ qty <= order.rem /\ qty <= maker.rem
  BY <1>5, <1>6, <1>7 DEF TradeQty
<1> HIDE DEF qty, maker
<1>9. /\ BookInv' /\ DOMAIN orders' \subseteq DOMAIN orders /\ poolUsed' <= poolUsed
      /\ \A r \in DOMAIN orders' : orders'[r].seq = orders[r].seq
  <2>1. poolUsed \in Int
    BY <1>1 DEF BookInv, BookTypeOK
  <2>2. CASE qty = maker.rem
    <3>1. RemoveCounted(ref, qty) /\ qty \in Int
      BY <1>3, <1>5, <1>8, <2>2
    <3>2. /\ BookInv' /\ DOMAIN orders' = DOMAIN orders \ {ref}
          /\ poolUsed' = poolUsed - 1
          /\ \A r \in DOMAIN orders' : orders'[r] = orders[r]
      BY <1>1, <1>4, <3>1, RemoveKeepsBook
    <3> QED
      BY <2>1, <3>2
  <2>3. CASE qty # maker.rem
    <3>1. Reduce(ref, qty, TRUE)
      BY <1>3, <1>5, <2>3
    <3>2. qty < orders[ref].rem
      BY <1>7, <1>8, <2>3 DEF maker
    <3>3. /\ BookInv' /\ DOMAIN orders' = DOMAIN orders /\ poolUsed' = poolUsed
          /\ \A r \in DOMAIN orders : orders'[r].seq = orders[r].seq
      BY <1>1, <1>4, <1>8, <3>1, <3>2, ReduceKeepsBook
    <3> QED
      BY <2>1, <3>3
  <2> QED
    BY <2>2, <2>3
<1>10. /\ order' \in Order /\ order'.ref = order.ref /\ order'.seq = order.seq
       /\ order'.price = order.price /\ order'.orig = order.orig
       /\ order'.filled + order'.rem = order.filled + order.rem
  <2>1. order.rem - qty \in Nat /\ order.filled + qty \in Nat
    BY <1>7, <1>8
  <2>2. order' = [order EXCEPT !.rem = order.rem - qty, !.filled = order.filled + qty]
    BY <1>3
  <2>3. /\ order' \in Order /\ order'.ref = order.ref /\ order'.seq = order.seq
        /\ order'.price = order.price /\ order'.orig = order.orig
        /\ order'.rem = order.rem - qty /\ order'.filled = order.filled + qty
    BY <1>6, <2>1, <2>2 DEF Order
  <2> QED
    BY <1>7, <1>8, <2>3
<1>11. /\ out' \in Seq(Response)
       /\ \A k \in DOMAIN out' : IsTrade(out'[k])
  <2>1. Trade(maker, qty) \in Response /\ IsTrade(Trade(maker, qty))
    BY <1>4, <1>5, <1>8 DEF Trade, Response, IsTrade, Order
  <2>2. out \in Seq(Response) /\ \A k \in DOMAIN out : IsTrade(out[k])
    BY <1>1 DEF CallTypeOK, InFlight
  <2> HIDE DEF IsTrade
  <2> QED
    BY <1>3, <2>1, <2>2
<1>12. CallTypeOK'
  BY <1>1, <1>10, <1>11 DEF CallTypeOK
<1>13. InFlight'
  <2>1. DOMAIN orders' \subseteq used' /\ order'.ref \in used' \ DOMAIN orders'
    BY <1>1, <1>6, <1>9, <1>10 DEF InFlight
  <2>2. \A r \in DOMAIN orders' : orders'[r].seq < nextSeq' /\ orders'[r].seq < order'.seq
    BY <1>1, <1>9, <1>10 DEF InFlight
  <2>3. /\ order'.seq < nextSeq'
        /\ order'.filled + order'.rem = order'.orig /\ order'.orig > 0
        /\ cmd'.op \in {"ADD", "REPLACE"}
        /\ cmd'.tif = "DAY" => order'.price \in Prices
    BY <1>1, <1>10 DEF InFlight
  <2>4. cmd'.op = "REPLACE" => cmd'.tif = "DAY" /\ poolUsed' < PoolSize
    <3>1. poolUsed \in Int /\ poolUsed' \in Int /\ PoolSize \in Int
      BY <1>1, <1>9, EngineConstants DEF BookInv, BookTypeOK
    <3> QED
      BY <1>1, <1>9, <3>1 DEF InFlight
  <2> QED
    BY <1>10, <1>11, <2>1, <2>2, <2>3, <2>4 DEF InFlight
<1>14. ReplaceNeverPoolFull'
  BY <1>11 DEF ReplaceNeverPoolFull, IsTrade, Error
<1> QED
  BY <1>9, <1>12, <1>13, <1>14 DEF EngineInv

\* The response that ends a matched call, and the state the call leaves.
LEMMA FinishKeepsInv ==
  ASSUME EngineInv, phase = "matching", BookInv',
         NEW responses \in Seq(Response), Len(responses) <= 1, Finish(responses),
         cmd.op = "REPLACE" => \A i \in DOMAIN responses : responses[i] # Error("POOL_FULL"),
         DOMAIN orders' \subseteq DOMAIN orders \cup {order.ref},
         \A r \in DOMAIN orders' : \/ r \in DOMAIN orders /\ orders'[r] = orders[r]
                                   \/ r = order.ref /\ orders'[r] = order
  PROVE  EngineInv'
<1>1. /\ CallTypeOK /\ InFlight /\ UNCHANGED <<nextSeq, used, cmd, order>>
      /\ phase' = "idle" /\ out' = out \o responses
  BY DEF EngineInv, Finish
<1>2. out \in Seq(Response) /\ \A i \in DOMAIN out : IsTrade(out[i])
  BY <1>1 DEF CallTypeOK, InFlight
<1>3. CallTypeOK'
  <2>1. out' \in Seq(Response)
    BY <1>1, <1>2
  <2> QED
    BY <1>1, <2>1 DEF CallTypeOK
<1>4. InFlight'
  BY <1>1 DEF InFlight
<1>5. ReplaceNeverPoolFull'
  <2> SUFFICES ASSUME cmd.op = "REPLACE", NEW i \in DOMAIN out'
               PROVE  out'[i] # Error("POOL_FULL")
    BY <1>1 DEF ReplaceNeverPoolFull
  <2>1. CASE i \in DOMAIN out
    <3>1. out'[i] = out[i]
      BY <1>1, <1>2, <2>1
    <3> QED
      BY <1>2, <2>1, <3>1 DEF IsTrade, Error
  <2>2. CASE i \notin DOMAIN out
    <3>1. i - Len(out) \in DOMAIN responses /\ out'[i] = responses[i - Len(out)]
      BY <1>1, <1>2, <2>2
    <3> QED
      BY <3>1
  <2> QED
    BY <2>1, <2>2
<1> QED
  BY <1>3, <1>4, <1>5 DEF EngineInv

\* Nothing that is left of another user's crosses what is left of the order.
LEMMA SettleRestKeepsInv ==
  ASSUME EngineInv, phase = "matching", SettleRest
  PROVE  EngineInv'
<1>1. /\ BookInv /\ InFlight /\ order \in Order /\ order.rem > 0 /\ cmd.tif = "DAY"
      /\ order.ref \in Refs /\ order.price \in Prices /\ order.ref \notin DOMAIN orders
      /\ \A r \in DOMAIN orders : orders[r].seq < order.seq
      /\ cmd.op = "REPLACE" => poolUsed < PoolSize
  BY DEF EngineInv, InFlight, SettleRest, Order
<1>2. CASE poolUsed < PoolSize
  <2>1. Finish(<<Ack("OK", order.ref)>>) /\ Rest(order)
    BY <1>2 DEF SettleRest
  <2>2. ~ \E l \in Levels : \E i \in DOMAIN queue[l] : MayTrade(l, i)
    BY <2>1 DEF Finish, MatchingDone
  <2>3. \A r \in DOMAIN orders :
          /\ orders[r].locate = order.locate /\ orders[r].side = Opposite(order.side)
          /\ Crosses(order.side, order.price, orders[r].price)
          => orders[r].user = order.user
    BY <1>1, <2>2, NothingCrossesWhenDone DEF BookInv, SoundBook
  <2>4. /\ BookInv' /\ DOMAIN orders' = DOMAIN orders \cup {order.ref}
        /\ orders'[order.ref] = order
        /\ \A r \in DOMAIN orders : orders'[r] = orders[r]
    BY <1>1, <1>2, <2>1, <2>3, RestKeepsBook
  <2> DEFINE responses == <<Ack("OK", order.ref)>>
  <2>5. responses \in Seq(Response) /\ Len(responses) = 1
    BY <1>1, ResponsesTyped
  <2>6. \A i \in DOMAIN responses : responses[i] # Error("POOL_FULL")
    BY DEF Ack, Error
  <2>7. Finish(responses)
    BY <2>1
  <2> HIDE DEF responses
  <2>8. Len(responses) <= 1
    BY <2>5
  <2> QED
    BY <2>4, <2>5, <2>6, <2>7, <2>8, FinishKeepsInv
<1>3. CASE ~(poolUsed < PoolSize)
  <2> DEFINE responses == <<Error("POOL_FULL")>>
  <2>1. Finish(responses) /\ UNCHANGED book
    BY <1>3 DEF SettleRest
  <2>2. BookInv' /\ orders' = orders
    BY <1>1, <2>1, SameBook
  <2>3. responses \in Seq(Response) /\ Len(responses) <= 1
    BY <1>1, ResponsesTyped
  <2> HIDE DEF responses
  <2> QED
    BY <1>1, <1>3, <2>1, <2>2, <2>3, FinishKeepsInv
<1> QED
  BY <1>2, <1>3

\* After the loop: filled, an IOC or FOK rest dropped, or the rest put in the book.
LEMMA SettleKeepsInv ==
  ASSUME EngineInv, Settle
  PROVE  EngineInv'
<1>1. phase = "matching" /\ BookInv /\ order.ref \in Refs
  BY DEF EngineInv, InFlight, Settle, Order
<1>2. ASSUME UNCHANGED book PROVE BookInv' /\ orders' = orders
  BY <1>1, <1>2, SameBook
<1>3. \A c \in {"MKT_NO_LIQUIDITY", "FOK_NO_FULL_FILL"} :
        /\ Error(c) \in Response /\ Error(c) # Error("POOL_FULL")
        /\ <<Error(c)>> \in Seq(Response) /\ Len(<<Error(c)>>) <= 1
        /\ \A i \in DOMAIN <<Error(c)>> : <<Error(c)>>[i] = Error(c)
  <2> TAKE c \in {"MKT_NO_LIQUIDITY", "FOK_NO_FULL_FILL"}
  <2>1. Error(c) \in Response /\ Error(c) # Error("POOL_FULL")
    BY DEF Error, Response, ErrorCodes
  <2> QED
    BY <2>1
<1>4. CASE SettleFilled
  <2> DEFINE responses == <<Ack("FILLED", order.ref)>>
  <2>1. Finish(responses) /\ UNCHANGED book
    BY <1>4 DEF SettleFilled
  <2>2. responses \in Seq(Response) /\ Len(responses) <= 1
    BY <1>1, ResponsesTyped
  <2>3. \A i \in DOMAIN responses : responses[i] # Error("POOL_FULL")
    BY DEF Ack, Error
  <2> HIDE DEF responses
  <2> QED
    BY <1>1, <1>2, <2>1, <2>2, <2>3, FinishKeepsInv
<1>5. CASE SettleIOC
  <2> DEFINE responses == IF order.filled = 0 THEN <<Error("MKT_NO_LIQUIDITY")>> ELSE <<>>
  <2>1. Finish(responses) /\ UNCHANGED book
    BY <1>5 DEF SettleIOC
  <2>2. CASE order.filled = 0
    <3>1. responses = <<Error("MKT_NO_LIQUIDITY")>>
      BY <2>2
    <3> HIDE DEF responses
    <3> QED
      BY <1>1, <1>2, <1>3, <2>1, <3>1, FinishKeepsInv
  <2>3. CASE order.filled # 0
    <3>1. responses = <<>>
      BY <2>3
    <3> HIDE DEF responses
    <3>2. responses \in Seq(Response) /\ Len(responses) <= 1 /\ DOMAIN responses = {}
      BY <3>1
    <3> QED
      BY <1>1, <1>2, <2>1, <3>2, FinishKeepsInv
  <2> QED
    BY <2>2, <2>3
<1>6. CASE SettleFOK
  <2>1. Finish(<<Error("FOK_NO_FULL_FILL")>>) /\ UNCHANGED book
    BY <1>6 DEF SettleFOK
  <2> QED
    BY <1>1, <1>2, <1>3, <2>1, FinishKeepsInv
<1>7. CASE SettleRest
  BY <1>1, <1>7, SettleRestKeepsInv
<1> QED
  BY <1>4, <1>5, <1>6, <1>7 DEF Settle

-----------------------------------------------------------------------------
\* A step that changes nothing.
LEMMA StutterKeepsInv ==
  ASSUME EngineInv, UNCHANGED vars
  PROVE  EngineInv'
<1>1. BookInv' /\ orders' = orders /\ poolUsed' = poolUsed
  BY SameBook DEF vars, book, EngineInv
<1>2. UNCHANGED <<nextSeq, used, phase, cmd, order, out>>
  BY DEF vars
<1>3. CallTypeOK' /\ ReplaceNeverPoolFull'
  BY <1>2 DEF EngineInv, CallTypeOK, ReplaceNeverPoolFull
<1>4. InFlight'
  BY <1>1, <1>2 DEF EngineInv, InFlight
<1> QED
  BY <1>1, <1>3, <1>4 DEF EngineInv

\* Every operation, and every step inside one, keeps the invariant.
LEMMA NextKeepsInv ==
  ASSUME EngineInv, [Next]_vars
  PROVE  EngineInv'
<1>0. Quantities \subseteq Nat /\ Quantities \subseteq Nat \ {0}
  BY EngineConstants
<1>1. CASE Add
  <2>1. PICK loc \in Locates, ref \in Refs, side \in Sides, price \in Prices \cup {0},
             qty \in Quantities, tif \in Tifs :
          \E user \in Clients \cup {ref} : ProcessAdd(loc, ref, side, price, qty, user, tif)
    BY <1>1 DEF Add
  <2>2. PICK user \in Clients \cup {ref} : ProcessAdd(loc, ref, side, price, qty, user, tif)
    BY <2>1
  <2>3. qty \in Nat /\ user \in Users \cup {0} /\ ref \in Refs \cup {0}
    BY <1>0 DEF Users
  <2> QED
    BY <2>2, <2>3, ProcessAddKeepsInv
<1>2. CASE AddMalformed
  <2>1. PICK bad \in {"locate", "ref", "side", "qty", "user"}, r \in Refs,
             price \in Prices, q \in Quantities, tif \in Tifs :
          ProcessAdd(IF bad = "locate" THEN BadLocate ELSE CHOOSE loc \in Locates : TRUE,
                     IF bad = "ref" THEN 0 ELSE r,
                     IF bad = "side" THEN "INVALID" ELSE "BUY",
                     price,
                     IF bad = "qty" THEN 0 ELSE q,
                     IF bad = "user" THEN 0 ELSE r, tif)
    BY <1>2 DEF AddMalformed
  <2> DEFINE loc == IF bad = "locate" THEN BadLocate ELSE CHOOSE loc \in Locates : TRUE
             ref == IF bad = "ref" THEN 0 ELSE r
             side == IF bad = "side" THEN "INVALID" ELSE "BUY"
             qty == IF bad = "qty" THEN 0 ELSE q
             user == IF bad = "user" THEN 0 ELSE r
  <2>2. ProcessAdd(loc, ref, side, price, qty, user, tif)
    BY <2>1
  <2>3. /\ ref \in Refs \cup {0} /\ qty \in Nat /\ user \in Users \cup {0}
        /\ price \in Prices \cup {0}
    BY <1>0 DEF Users
  <2> HIDE DEF loc, ref, side, qty, user
  <2> QED
    BY <2>2, <2>3, ProcessAddKeepsInv
<1>3. CASE Cancel
  BY <1>3, ProcessCancelKeepsInv DEF Cancel
<1>4. CASE CancelShares
  BY <1>0, <1>4, ProcessCancelSharesKeepsInv DEF CancelShares
<1>5. CASE Replace
  BY <1>0, <1>5, ProcessReplaceKeepsInv DEF Replace
<1>6. CASE MatchStep
  BY <1>6, MatchStepKeepsInv
<1>7. CASE Settle
  BY <1>7, SettleKeepsInv
<1>8. CASE UNCHANGED vars
  BY <1>8, StutterKeepsInv
<1> QED
  BY <1>1, <1>2, <1>3, <1>4, <1>5, <1>6, <1>7, <1>8 DEF Next

\* The inductive invariant of the engine, for every set of references, users,
\* prices and quantities and every pool size: what processAdd, processCancel,
\* processCancelShares, processReplace and the matching loop maintain together.
THEOREM EngineInvariant == Spec => []EngineInv
<1>1. Init => EngineInv
  BY InitKeepsInv
<1>2. EngineInv /\ [Next]_vars => EngineInv'
  BY NextKeepsInv
<1> QED
  BY <1>1, <1>2, PTL DEF Spec

\* The types of the book and of the call in progress.
THEOREM TypesHold == Spec => []TypeOK
<1>1. EngineInv => TypeOK
  BY DEF EngineInv, BookInv, TypeOK
<1> QED
  BY <1>1, EngineInvariant, PTL

\* The index, the price levels and the pool never disagree about what rests
\* (addOrder, removeOrder, OrderPool::allocate and deallocate).
THEOREM ViewsAlwaysAgree == Spec => []ViewsAgree
<1>1. EngineInv => ViewsAgree
  BY DEF EngineInv, BookInv
<1> QED
  BY <1>1, EngineInvariant, PTL

\* No two users' orders are ever left crossed, not even in the middle of a match
\* (matchBuyOrder, matchSellOrder, getBestBid and getBestAsk with an excluded user).
THEOREM NeverCrossed == Spec => []Uncrossed
<1>1. EngineInv => Uncrossed
  BY DEF EngineInv, BookInv
<1> QED
  BY <1>1, EngineInvariant, PTL

\* An order that rests has shares left (reduceOrderQty, processCancelShares).
THEOREM NoOrderIsEmpty == Spec => []NoEmptyOrder
<1>1. EngineInv => NoEmptyOrder
  BY DEF EngineInv, BookInv
<1> QED
  BY <1>1, EngineInvariant, PTL

\* processReplace frees the slot its new order needs.
THEOREM ReplaceHasASlot == Spec => []ReplaceNeverPoolFull
<1>1. EngineInv => ReplaceNeverPoolFull
  BY DEF EngineInv
<1> QED
  BY <1>1, EngineInvariant, PTL

-----------------------------------------------------------------------------
\* Only an iteration of the matching loop adds a trade to the responses.
LEMMA OnlyMatchStepTrades ==
  ASSUME EngineInv, [Next]_vars, TradeAdded
  PROVE  MatchStep
<1>1. out \in Seq(Response) /\ Len(out) \in Nat
  BY DEF EngineInv, CallTypeOK
<1>2. ASSUME NEW op, NEW tif, NEW response, Reply(op, tif, response), ~IsTrade(response)
      PROVE  FALSE
  <2>1. out' = <<response>>
    BY <1>2 DEF Reply
  <2>2. Last(out') = response
    BY <2>1 DEF Last
  <2> QED
    BY <1>2, <2>2 DEF TradeAdded
<1>3. ASSUME NEW op, NEW tif, NEW o, EnterMatching(op, tif, o) PROVE FALSE
  BY <1>1, <1>3 DEF EnterMatching, TradeAdded
<1>4. ASSUME NEW response, Finish(<<response>>), ~IsTrade(response) PROVE FALSE
  <2>1. out' = Append(out, response)
    BY <1>1, <1>4 DEF Finish
  <2>2. Last(out') = response
    BY <1>1, <2>1 DEF Last
  <2> QED
    BY <1>4, <2>2 DEF TradeAdded
<1>5. ASSUME Finish(<<>>) PROVE FALSE
  BY <1>1, <1>5 DEF Finish, TradeAdded
<1>6. /\ \A c : ~IsTrade(Error(c))
      /\ \A r : \A t \in {"OK", "FILLED", "CANCELLED"} : ~IsTrade(Ack(t, r))
  BY DEF IsTrade, Error, Ack
<1>7. ~ (Add \/ AddMalformed)
  <2>1. ASSUME NEW loc, NEW ref, NEW side, NEW price, NEW qty, NEW user, NEW tif,
               ProcessAdd(loc, ref, side, price, qty, user, tif)
        PROVE  FALSE
    BY <1>2, <1>3, <1>6, <2>1, Zenon DEF ProcessAdd
  <2>2. ~Add
    BY <2>1, Zenon DEF Add
  <2>3. ASSUME AddMalformed PROVE FALSE
    <3>1. PICK bad \in {"locate", "ref", "side", "qty", "user"}, ref \in Refs, price \in Prices,
               qty \in Quantities, tif \in Tifs :
            ProcessAdd(IF bad = "locate" THEN BadLocate ELSE CHOOSE loc \in Locates : TRUE,
                       IF bad = "ref" THEN 0 ELSE ref,
                       IF bad = "side" THEN "INVALID" ELSE "BUY",
                       price,
                       IF bad = "qty" THEN 0 ELSE qty,
                       IF bad = "user" THEN 0 ELSE ref, tif)
      BY <2>3 DEF AddMalformed
    <3> QED
      BY <2>1, <3>1
  <2> QED
    BY <2>2, <2>3
<1>8. ~ Cancel
  BY <1>2, <1>6, Zenon DEF Cancel, ProcessCancel
<1>9. ~ CancelShares
  <2> SUFFICES ASSUME NEW loc, NEW ref, NEW shares, NEW user,
                      ProcessCancelShares(loc, ref, shares, user)
               PROVE  FALSE
    BY Zenon DEF CancelShares
  <2>1. \E response : Reply("CANCEL", "DAY", response) /\ ~IsTrade(response)
    <3>1. CASE ~Owns(loc, ref, user)
      BY <1>6, <3>1, Zenon DEF ProcessCancelShares
    <3>2. CASE Owns(loc, ref, user) /\ CancelsAll(ref, shares)
      BY <1>6, <3>2, Zenon DEF ProcessCancelShares
    <3>3. CASE Owns(loc, ref, user) /\ ~CancelsAll(ref, shares)
      BY <1>6, <3>3, Zenon DEF ProcessCancelShares
    <3> QED
      BY <3>1, <3>2, <3>3
  <2> QED
    BY <1>2, <2>1
<1>10. ~ Replace
  BY <1>2, <1>3, <1>6, Zenon DEF Replace, ProcessReplace
<1>11. ~ Settle
  BY <1>4, <1>5, <1>6 DEF Settle, SettleFilled, SettleIOC, SettleFOK, SettleRest
<1>12. out' # out
  BY <1>1 DEF TradeAdded
<1> QED
  BY <1>7, <1>8, <1>9, <1>10, <1>11, <1>12 DEF Next, vars

\* The order getBestBid/getBestAsk return has price-time priority: its level is the
\* best that holds another user's order, and its place the first of them.
LEMMA MatchStepTradesBest ==
  ASSUME EngineInv, MatchStep
  PROVE  TradeWithBest
<1>1. /\ BookInv /\ order \in Order /\ out \in Seq(Response)
  BY DEF EngineInv, CallTypeOK, InFlight, MatchStep
<1> DEFINE qty(l, i) == TradeQty(order, orders[queue[l][i]])
<1>2. PICK l \in Levels :
        \E i \in DOMAIN queue[l] :
          MayTrade(l, i) /\ out' = Append(out, Trade(orders[queue[l][i]], qty(l, i)))
  BY DEF MatchStep
<1>3. PICK i \in DOMAIN queue[l] :
        MayTrade(l, i) /\ out' = Append(out, Trade(orders[queue[l][i]], qty(l, i)))
  BY <1>2
<1> DEFINE ref == queue[l][i]
           maker == orders[ref]
<1>4. /\ ref \in DOMAIN orders /\ maker.ref = ref /\ maker \in Order
      /\ maker.price \in Prices /\ Level(maker) = l
  BY <1>1 DEF BookInv, BookTypeOK, ViewsAgree
<1>5. Last(out').ref = ref /\ Last(out').price = maker.price
  <2>1. Last(out') = Trade(maker, qty(l, i))
    BY <1>1, <1>3 DEF Last
  <2> QED
    BY <1>4, <2>1 DEF Trade
<1>6. /\ maker.locate = l[1] /\ maker.side = l[2] /\ maker.price = l[3]
      /\ l[1] = order.locate /\ l[2] = Opposite(order.side)
      /\ maker.user # order.user
      /\ Crosses(order.side, order.price, maker.price)
  BY <1>3, <1>4 DEF MayTrade, IsBest, Others, Level
<1>7. ASSUME NEW r \in DOMAIN orders \ {ref},
             orders[r].locate = order.locate, orders[r].side # order.side,
             orders[r].user # order.user
      PROVE  \/ Better(maker.side, maker.price, orders[r].price)
             \/ maker.price = orders[r].price /\ maker.seq < orders[r].seq
  <2> DEFINE m == Level(orders[r])
  <2>1. /\ orders[r] \in Order /\ m \in Levels /\ orders[r].price \in Prices
        /\ m[1] = orders[r].locate /\ m[2] = orders[r].side /\ m[3] = orders[r].price
    BY <1>1, LevelTyped DEF BookInv, BookTypeOK, Level
  <2>2. m[1] = order.locate /\ m[2] = Opposite(order.side)
    BY <1>1, <1>7, <2>1 DEF Order, Sides, Opposite
  <2>3. PICK j \in DOMAIN queue[m] : queue[m][j] = r
    BY <1>1, <1>7 DEF BookInv, ViewsAgree
  <2>4. j \in Others(m, order.user)
    BY <1>7, <2>3 DEF Others
  <2> HIDE DEF m
  <2>5. ~Better(Opposite(order.side), m[3], l[3])
    BY <1>3, <2>1, <2>2, <2>4 DEF MayTrade, IsBest
  <2>6. maker.price \in Nat /\ orders[r].price \in Nat
    BY <1>4, <2>1, EngineConstants
  <2>7. CASE maker.price # orders[r].price
    BY <1>6, <2>1, <2>5, <2>6, <2>7 DEF Better
  <2>8. CASE maker.price = orders[r].price
    <3>1. m = l
      <4>1. \A a, b \in Levels : a[1] = b[1] /\ a[2] = b[2] /\ a[3] = b[3] => a = b
        BY DEF Levels
      <4>2. m[1] = l[1] /\ m[2] = l[2] /\ m[3] = l[3]
        BY <1>6, <2>1, <2>2, <2>8
      <4> QED
        BY <2>1, <4>1, <4>2
    <3>2. i <= j /\ i # j
      BY <1>3, <1>7, <2>3, <2>4, <3>1 DEF MayTrade, IsBest
    <3>3. DOMAIN queue[l] \subseteq Nat
      BY <1>1 DEF BookInv, BookTypeOK
    <3>4. i < j
      BY <2>3, <3>1, <3>2, <3>3
    <3>5. maker.seq < orders[r].seq
      BY <1>1, <2>3, <3>1, <3>4 DEF BookInv, InSequence
    <3> QED
      BY <2>8, <3>5
  <2> QED
    BY <2>7, <2>8
<1> HIDE DEF ref
<1> QED
  BY <1>4, <1>5, <1>6, <1>7 DEF TradeWithBest

\* Price-time priority with the exclusion of the taker's own orders, for every
\* book the engine can reach.
THEOREM PriceTimePriorityHolds == Spec => PriceTimePriority
<1>1. EngineInv /\ [Next]_vars => TradeWithBest
  <2> SUFFICES ASSUME EngineInv, [Next]_vars, TradeAdded PROVE TradeWithBest
    BY DEF TradeWithBest
  <2> QED
    BY OnlyMatchStepTrades, MatchStepTradesBest
<1>2. Spec => []EngineInv
  BY EngineInvariant
<1> QED
  BY <1>1, <1>2, PTL DEF Spec, PriceTimePriority
-----------------------------------------------------------------------------
(* What rests at a level, in shares.                                       *)

RemOf(ords) == [r \in DOMAIN ords |-> ords[r].rem]
RestingAt(ords, l) == {r \in DOMAIN ords : Level(ords[r]) = l}

\* A number of shares is the sum of what is left of the orders.
LEMMA SharesAreSum ==
  ASSUME NEW ords, NEW S \in SUBSET DOMAIN ords, Summable(RemOf(ords), S)
  PROVE  SharesLeft(ords, S) = SumOf(RemOf(ords), S)
<1>1. PICK g : Unfolds(g, RemOf(ords), S)
  BY SumUnfolds
<1>2. ASSUME NEW h
      PROVE  h = [s \in SUBSET S |-> IF s = {} THEN 0
                    ELSE ords[CHOOSE x \in s : TRUE].rem + h[s \ {CHOOSE x \in s : TRUE}]]
             <=> Unfolds(h, RemOf(ords), S)
  <2>1. ASSUME NEW s \in SUBSET S, s # {}
        PROVE  RemOf(ords)[AnyOf(s)] = ords[CHOOSE x \in s : TRUE].rem
    <3>1. AnyOf(s) \in DOMAIN ords
      BY <2>1, AnyOfIsIn
    <3> QED
      BY <3>1 DEF RemOf, AnyOf
  <2> QED
    BY <2>1 DEF Unfolds, AnyOf
<1> DEFINE sum == SumOf(RemOf(ords), S)
<1>3. \A h : Unfolds(h, RemOf(ords), S) => h[S] = sum
  BY SumUnfolds
<1> HIDE DEF sum
<1>4. \A h : h = [s \in SUBSET S |-> IF s = {} THEN 0
                    ELSE ords[CHOOSE x \in s : TRUE].rem + h[s \ {CHOOSE x \in s : TRUE}]]
             => h[S] = sum
  BY <1>2, <1>3
<1>5. g = [s \in SUBSET S |-> IF s = {} THEN 0
             ELSE ords[CHOOSE x \in s : TRUE].rem + g[s \ {CHOOSE x \in s : TRUE}]]
  BY <1>1, <1>2
<1>6. SharesLeft(ords, S) = sum
  BY <1>4, <1>5 DEF SharesLeft, MapThenSumSet, MapThenFoldSet
<1> QED
  BY <1>6 DEF sum

LEMMA BookIsSummable ==
  ASSUME BookTypeOK, NEW S \in SUBSET DOMAIN orders
  PROVE  /\ Summable(RemOf(orders), S)
         /\ SharesLeft(orders, S) = SumOf(RemOf(orders), S)
<1>1. IsFiniteSet(S)
  BY EngineConstants, FS_Subset DEF BookTypeOK
<1>2. Summable(RemOf(orders), S)
  BY <1>1 DEF Summable, RemOf, BookTypeOK, Order
<1> QED
  BY <1>2, SharesAreSum
LEMMA BookIsSummableNext ==
  ASSUME BookTypeOK', NEW S \in SUBSET DOMAIN orders'
  PROVE  /\ Summable(RemOf(orders'), S)
         /\ SharesLeft(orders', S) = SumOf(RemOf(orders'), S)
<1>1. IsFiniteSet(S)
  BY EngineConstants, FS_Subset DEF BookTypeOK
<1>2. Summable(RemOf(orders'), S)
  BY <1>1 DEF Summable, RemOf, BookTypeOK, Order
<1> QED
  BY <1>2, SharesAreSum

\* An order whose quantity is reduced changes a sum of shares by the reduction.
LEMMA SharesReduced ==
  ASSUME BookInv, NEW ref \in DOMAIN orders, NEW amount \in Nat, NEW isTrade \in BOOLEAN,
         amount < orders[ref].rem, Reduce(ref, amount, isTrade),
         NEW S \in SUBSET DOMAIN orders
  PROVE  SharesLeft(orders', S) = SharesLeft(orders, S) - IF ref \in S THEN amount ELSE 0
<1>1. BookTypeOK /\ BookTypeOK' /\ DOMAIN orders' = DOMAIN orders
  BY ReduceKeepsBook DEF BookInv
<1>2. /\ Summable(RemOf(orders), S) /\ SharesLeft(orders, S) = SumOf(RemOf(orders), S)
      /\ Summable(RemOf(orders'), S) /\ SharesLeft(orders', S) = SumOf(RemOf(orders'), S)
  BY <1>1, BookIsSummable, BookIsSummableNext
<1>3. /\ \A r \in S \ {ref} : RemOf(orders')[r] = RemOf(orders)[r]
      /\ RemOf(orders')[ref] = RemOf(orders)[ref] - amount
      /\ RemOf(orders)[ref] \in Int /\ RemOf(orders')[ref] \in Int
  <2>1. orders'[ref].rem = orders[ref].rem - amount /\ orders[ref].rem \in Int
    BY <1>1 DEF Reduce, BookTypeOK, Order
  <2>2. \A r \in DOMAIN orders \ {ref} : orders'[r] = orders[r]
    BY DEF Reduce
  <2> QED
    BY <1>1, <2>1, <2>2 DEF RemOf
<1>4. CASE ref \in S
  <2>1. SumOf(RemOf(orders'), S)
          = SumOf(RemOf(orders), S) - RemOf(orders)[ref] + RemOf(orders')[ref]
    BY <1>2, <1>3, <1>4, SumChanged
  <2>2. SumOf(RemOf(orders), S) \in Int
    BY <1>2, SumType
  <2> QED
    BY <1>2, <1>3, <1>4, <2>1, <2>2
<1>5. CASE ref \notin S
  <2>1. SumOf(RemOf(orders'), S) = SumOf(RemOf(orders), S) /\ SumOf(RemOf(orders), S) \in Int
    BY <1>2, <1>3, <1>5, SumSame, SumType
  <2> QED
    BY <1>2, <1>5, <2>1
<1> QED
  BY <1>4, <1>5

\* Removing an order takes what is left of it out of a sum of shares.
LEMMA SharesRemoved ==
  ASSUME BookInv, NEW ref \in DOMAIN orders, NEW counted \in Int, RemoveCounted(ref, counted),
         NEW S \in SUBSET DOMAIN orders
  PROVE  /\ SharesLeft(orders', S \ {ref})
              = SharesLeft(orders, S) - IF ref \in S THEN orders[ref].rem ELSE 0
<1>1. /\ BookTypeOK /\ BookTypeOK' /\ DOMAIN orders' = DOMAIN orders \ {ref}
      /\ \A r \in DOMAIN orders' : orders'[r] = orders[r]
  BY RemoveKeepsBook DEF BookInv
<1>2. S \ {ref} \in SUBSET DOMAIN orders' /\ S \ {ref} \in SUBSET DOMAIN orders
  BY <1>1
<1>3. /\ Summable(RemOf(orders), S) /\ SharesLeft(orders, S) = SumOf(RemOf(orders), S)
      /\ Summable(RemOf(orders), S \ {ref})
      /\ SharesLeft(orders', S \ {ref}) = SumOf(RemOf(orders'), S \ {ref})
  BY <1>1, <1>2, BookIsSummable, BookIsSummableNext
<1>4. \A r \in S \ {ref} : RemOf(orders')[r] = RemOf(orders)[r]
  BY <1>1, <1>2 DEF RemOf
<1>5. SumOf(RemOf(orders'), S \ {ref}) = SumOf(RemOf(orders), S \ {ref})
  BY <1>3, <1>4, SumSame
<1>6. SumOf(RemOf(orders), S \ {ref}) \in Int
  BY <1>3, SumType
<1>7. RemOf(orders)[ref] = orders[ref].rem /\ orders[ref].rem \in Int
  BY <1>1 DEF RemOf, BookTypeOK, Order
<1>8. CASE ref \in S
  <2>1. SumOf(RemOf(orders), S) = RemOf(orders)[ref] + SumOf(RemOf(orders), S \ {ref})
    BY <1>3, <1>8, SumWithout
  <2> QED
    BY <1>3, <1>5, <1>6, <1>7, <1>8, <2>1
<1>9. CASE ref \notin S
  <2>1. S \ {ref} = S
    BY <1>9
  <2> QED
    BY <1>3, <1>5, <1>6, <1>9, <2>1
<1> QED
  BY <1>8, <1>9

LEMMA ReduceKeepsTotals ==
  ASSUME BookInv, LevelTotals, NEW ref \in DOMAIN orders, NEW amount \in Nat,
         NEW isTrade \in BOOLEAN, amount < orders[ref].rem, Reduce(ref, amount, isTrade)
  PROVE  LevelTotals'
<1> DEFINE m == Level(orders[ref])
<1>1. DOMAIN orders' = DOMAIN orders /\ m \in Levels /\ total \in [Levels -> Int]
  BY ReduceKeepsBook, LevelTyped DEF BookInv, BookTypeOK
<1>2. ASSUME NEW r \in DOMAIN orders
      PROVE  Level(orders'[r]) = Level(orders[r])
  <2>1. orders[ref] \in Order
    BY DEF BookInv, BookTypeOK
  <2> QED
    BY <2>1 DEF Reduce, Level, Order
<1>3. ASSUME NEW l \in Levels
      PROVE  total'[l] = SharesLeft(orders', RestingAt(orders', l))
  <2>1. RestingAt(orders', l) = RestingAt(orders, l)
    BY <1>1, <1>2 DEF RestingAt
  <2>2. SharesLeft(orders', RestingAt(orders, l))
          = SharesLeft(orders, RestingAt(orders, l)) - IF ref \in RestingAt(orders, l) THEN amount ELSE 0
    BY SharesReduced DEF RestingAt
  <2>3. total[l] = SharesLeft(orders, RestingAt(orders, l)) /\ total[l] \in Int
    BY <1>1 DEF LevelTotals, RestingAt
  <2>4. ref \in RestingAt(orders, l) <=> l = m
    BY DEF RestingAt
  <2>5. total'[l] = IF l = m THEN total[l] - amount ELSE total[l]
    BY <1>1 DEF Reduce, LevelReduced
  <2> QED
    BY <2>1, <2>2, <2>3, <2>4, <2>5
<1> QED
  BY <1>3 DEF LevelTotals, RestingAt

LEMMA RemoveKeepsTotals ==
  ASSUME BookInv, LevelTotals, NEW ref \in DOMAIN orders, RemoveOrder(ref)
  PROVE  LevelTotals'
<1> DEFINE m == Level(orders[ref])
           counted == orders[ref].rem
           rest == Unlinked(queue[m], ref)
<1>1. /\ m \in Levels /\ total \in [Levels -> Int] /\ queue \in [Levels -> Seq(Refs)]
      /\ counted \in Int /\ RemoveCounted(ref, counted)
  BY LevelTyped DEF BookInv, BookTypeOK, Order, RemoveOrder
<1>2. /\ BookInv'
      /\ DOMAIN orders' = DOMAIN orders \ {ref}
      /\ \A r \in DOMAIN orders' : orders'[r] = orders[r]
  BY <1>1, RemoveKeepsBook
<1>3. queue'[m] = rest
  BY <1>1 DEF RemoveCounted
<1>4. ASSUME NEW l \in Levels
      PROVE  total'[l] = SharesLeft(orders', RestingAt(orders', l))
  <2>1. RestingAt(orders', l) = RestingAt(orders, l) \ {ref}
    BY <1>2 DEF RestingAt
  <2>2. SharesLeft(orders', RestingAt(orders, l) \ {ref})
          = SharesLeft(orders, RestingAt(orders, l)) - IF ref \in RestingAt(orders, l) THEN counted ELSE 0
    BY <1>1, SharesRemoved DEF RestingAt
  <2>3. total[l] = SharesLeft(orders, RestingAt(orders, l)) /\ total[l] \in Int
    BY <1>1 DEF LevelTotals, RestingAt
  <2>4. ref \in RestingAt(orders, l) <=> l = m
    BY DEF RestingAt
  <2>5. CASE l = m /\ rest = <<>>
    <3>1. RestingAt(orders', l) = {}
      <4>1. \A r \in DOMAIN orders' : \E i \in DOMAIN queue'[Level(orders'[r])] : TRUE
        BY <1>2 DEF BookInv, ViewsAgree
      <4> QED
        BY <1>3, <2>5, <4>1 DEF RestingAt
    <3>2. BookTypeOK' /\ RestingAt(orders', l) \in SUBSET DOMAIN orders'
      BY <1>2 DEF BookInv, RestingAt
    <3>3. SharesLeft(orders', RestingAt(orders', l)) = SumOf(RemOf(orders'), RestingAt(orders', l))
      BY <3>2, BookIsSummableNext
    <3>4. SharesLeft(orders', RestingAt(orders', l)) = 0
      BY <3>1, <3>3, SumEmpty
    <3>5. total'[l] = 0
      BY <1>1, <2>5 DEF RemoveCounted
    <3> QED
      BY <3>4, <3>5
  <2>6. CASE l = m /\ rest # <<>>
    <3>1. total'[l] = total[l] - counted
      BY <1>1, <2>6 DEF RemoveCounted
    <3> QED
      BY <2>1, <2>2, <2>3, <2>4, <2>6, <3>1
  <2>7. CASE l # m
    <3>1. total'[l] = total[l]
      BY <1>1, <2>7 DEF RemoveCounted
    <3> QED
      BY <2>1, <2>2, <2>3, <2>4, <2>7, <3>1
  <2> QED
    BY <2>5, <2>6, <2>7
<1> QED
  BY <1>4 DEF LevelTotals, RestingAt

LEMMA RestKeepsTotals ==
  ASSUME BookInv, BookInv', LevelTotals, NEW o \in Order, Rest(o), o.ref \notin DOMAIN orders,
         Level(o) \in Levels
  PROVE  LevelTotals'
<1> DEFINE m == Level(o)
<1>1. /\ DOMAIN orders' = DOMAIN orders \cup {o.ref}
      /\ orders'[o.ref] = o /\ \A r \in DOMAIN orders : orders'[r] = orders[r]
      /\ total' = [total EXCEPT ![m] = @ + o.rem]
      /\ BookTypeOK /\ BookTypeOK' /\ total \in [Levels -> Int]
  BY DEF Rest, Indexed, BookInv, BookTypeOK
<1>2. ASSUME NEW l \in Levels
      PROVE  total'[l] = SharesLeft(orders', RestingAt(orders', l))
  <2> DEFINE old == RestingAt(orders, l)
  <2>1. old \in SUBSET DOMAIN orders /\ old \in SUBSET DOMAIN orders' /\ o.ref \notin old
    BY <1>1 DEF RestingAt
  <2>2. RestingAt(orders', l) = IF l = m THEN old \cup {o.ref} ELSE old
    BY <1>1 DEF RestingAt
  <2>3. total[l] = SharesLeft(orders, old) /\ total[l] \in Int
    BY <1>1 DEF LevelTotals, RestingAt
  <2> HIDE DEF old
  <2>4. /\ Summable(RemOf(orders), old) /\ SharesLeft(orders, old) = SumOf(RemOf(orders), old)
        /\ Summable(RemOf(orders'), old) /\ SharesLeft(orders', old) = SumOf(RemOf(orders'), old)
    BY <1>1, <2>1, BookIsSummable, BookIsSummableNext
  <2>5. \A r \in old : RemOf(orders')[r] = RemOf(orders)[r]
    BY <1>1, <2>1 DEF RemOf
  <2>6. SumOf(RemOf(orders'), old) = SumOf(RemOf(orders), old)
    BY <2>4, <2>5, SumSame
  <2>7. CASE l # m
    BY <1>1, <2>2, <2>3, <2>4, <2>6, <2>7
  <2>8. CASE l = m
    <3>1. RemOf(orders')[o.ref] = o.rem /\ o.rem \in Int
      BY <1>1 DEF RemOf, Order
    <3>2. SumOf(RemOf(orders'), old \cup {o.ref}) = RemOf(orders')[o.ref] + SumOf(RemOf(orders'), old)
      BY <2>1, <2>4, <3>1, SumWith
    <3>3. SharesLeft(orders', old \cup {o.ref}) = SumOf(RemOf(orders'), old \cup {o.ref})
      <4>1. old \cup {o.ref} \in SUBSET DOMAIN orders'
        BY <1>1, <2>1
      <4> QED
        BY <1>1, <4>1, BookIsSummableNext
    <3>4. total'[l] = total[l] + o.rem
      BY <1>1, <2>8
    <3> QED
      BY <2>2, <2>3, <2>4, <2>6, <2>8, <3>1, <3>2, <3>3, <3>4
  <2> QED
    BY <2>7, <2>8
<1> QED
  BY <1>2 DEF LevelTotals, RestingAt
-----------------------------------------------------------------------------
(* What a step may do to the book.                                         *)

Removes == \E ref \in DOMAIN orders : RemoveOrder(ref)
Reduces == \E ref \in DOMAIN orders, shares \in Nat :
             shares < orders[ref].rem /\ Reduce(ref, shares, FALSE)
Rests == /\ phase = "matching" /\ order \in Order /\ order.ref \notin DOMAIN orders
         /\ Level(order) \in Levels
         /\ Rest(order)

\* An iteration of the matching loop trades, with an order of another user that
\* crosses the local one, all that one of them has left.
TradesWith(ref, qty) ==
  /\ 0 < qty /\ qty <= order.rem /\ qty <= orders[ref].rem
  /\ qty = order.rem \/ qty = orders[ref].rem
  /\ orders[ref].user # order.user /\ orders[ref].locate = order.locate
  /\ orders[ref].side = Opposite(order.side)
  /\ Crosses(order.side, order.price, orders[ref].price)
  /\ order' = [order EXCEPT !.rem = order.rem - qty, !.filled = order.filled + qty]
  /\ out' = Append(out, Trade(orders[ref], qty))
  /\ \/ qty = orders[ref].rem /\ RemoveOrder(ref)
     \/ qty < orders[ref].rem /\ Reduce(ref, qty, TRUE)
LEMMA MatchStepTrades ==
  ASSUME EngineInv, MatchStep
  PROVE  /\ \E ref \in DOMAIN orders, qty \in Nat : TradesWith(ref, qty)
         /\ phase = "matching" /\ UNCHANGED <<nextSeq, used, phase, cmd>>
<1>1. /\ BookInv /\ order \in Order /\ phase = "matching"
      /\ UNCHANGED <<nextSeq, used, phase, cmd>>
  BY DEF EngineInv, InFlight, MatchStep
<1> DEFINE Steps(l, i) ==
        /\ MayTrade(l, i)
        /\ LET maker == orders[queue[l][i]]
               qty == TradeQty(order, maker)
           IN  /\ order' = [order EXCEPT !.rem = @ - qty, !.filled = @ + qty]
               /\ out' = Append(out, Trade(maker, qty))
               /\ IF qty = maker.rem
                  THEN RemoveCounted(maker.ref, qty)
                  ELSE Reduce(maker.ref, qty, TRUE)
<1>0. PICK l \in Levels : \E i \in DOMAIN queue[l] : Steps(l, i)
  BY DEF MatchStep
<1>2. PICK i \in DOMAIN queue[l] : Steps(l, i)
  BY <1>0
<1> DEFINE ref == queue[l][i]
           maker == orders[ref]
           qty == TradeQty(order, maker)
<1>3. /\ order' = [order EXCEPT !.rem = order.rem - qty, !.filled = order.filled + qty]
      /\ out' = Append(out, Trade(maker, qty))
      /\ IF qty = maker.rem
         THEN RemoveCounted(maker.ref, qty)
         ELSE Reduce(maker.ref, qty, TRUE)
  BY <1>2
<1>4. /\ ref \in DOMAIN orders /\ maker.ref = ref /\ maker \in Order
      /\ maker.rem > 0 /\ Level(maker) = l
  BY <1>1 DEF BookInv, BookTypeOK, ViewsAgree, NoEmptyOrder
<1>5. /\ maker.locate = order.locate /\ maker.side = Opposite(order.side)
      /\ maker.user # order.user /\ order.rem > 0
      /\ Crosses(order.side, order.price, maker.price)
  BY <1>2, <1>4 DEF MayTrade, IsBest, Others, Level
<1>6. maker.rem \in Nat /\ order.rem \in Nat
  BY <1>1, <1>4 DEF Order
<1> HIDE DEF ref
<1>7. /\ qty \in Nat /\ qty > 0 /\ qty <= order.rem /\ qty <= maker.rem
      /\ qty = order.rem \/ qty = maker.rem
  BY <1>4, <1>5, <1>6 DEF TradeQty
<1> HIDE DEF qty
<1>8. \/ qty = maker.rem /\ RemoveOrder(ref)
      \/ qty < maker.rem /\ Reduce(ref, qty, TRUE)
  <2>1. CASE qty = maker.rem
    <3>1. RemoveCounted(ref, qty)
      BY <1>3, <1>4, <2>1
    <3>2. RemoveOrder(ref)
      BY <2>1, <3>1 DEF RemoveOrder
    <3> QED
      BY <2>1, <3>2
  <2>2. CASE qty # maker.rem
    <3>1. Reduce(ref, qty, TRUE)
      BY <1>3, <1>4, <2>2
    <3>2. qty < maker.rem
      BY <1>6, <1>7, <2>2
    <3> QED
      BY <3>1, <3>2
  <2> QED
    BY <2>1, <2>2
<1>9. TradesWith(ref, qty)
  BY <1>3, <1>5, <1>7, <1>8 DEF TradesWith
<1> QED
  BY <1>1, <1>4, <1>7, <1>9

\* Outside the loop an order is removed or reduced, the local one is linked, or
\* the book stays as it is.
LEMMA BookSteps ==
  ASSUME EngineInv, [Next]_vars, ~MatchStep
  PROVE  UNCHANGED book \/ Removes \/ Reduces \/ Rests
<1>0. /\ BookInv /\ Quantities \subseteq Nat
      /\ phase = "matching" => order \in Order /\ order.ref \notin DOMAIN orders
  BY EngineConstants DEF EngineInv, InFlight
<1>1. ASSUME NEW loc, NEW ref, NEW side, NEW price, NEW qty, NEW user, NEW tif,
             ProcessAdd(loc, ref, side, price, qty, user, tif)
      PROVE  UNCHANGED book
  BY <1>1 DEF ProcessAdd
<1>2. CASE Add
  BY <1>1, <1>2, Zenon DEF Add
<1>3. CASE AddMalformed
  <2>1. PICK bad \in {"locate", "ref", "side", "qty", "user"}, ref \in Refs, price \in Prices,
             qty \in Quantities, tif \in Tifs :
          ProcessAdd(IF bad = "locate" THEN BadLocate ELSE CHOOSE loc \in Locates : TRUE,
                     IF bad = "ref" THEN 0 ELSE ref,
                     IF bad = "side" THEN "INVALID" ELSE "BUY",
                     price,
                     IF bad = "qty" THEN 0 ELSE qty,
                     IF bad = "user" THEN 0 ELSE ref, tif)
    BY <1>3 DEF AddMalformed
  <2> QED
    BY <1>1, <2>1
<1>4. CASE Cancel
  <2>1. PICK loc \in AnyLocate, ref \in Refs : \E user \in Clients \cup {ref} :
          ProcessCancel(loc, ref, user)
    BY <1>4 DEF Cancel
  <2> QED
    BY <2>1 DEF ProcessCancel, Owns, Removes
<1>5. CASE CancelShares
  <2>1. PICK loc \in AnyLocate, ref \in Refs, shares \in Quantities :
          \E user \in Clients \cup {ref} : ProcessCancelShares(loc, ref, shares, user)
    BY <1>5 DEF CancelShares
  <2>2. PICK user \in Clients \cup {ref} : ProcessCancelShares(loc, ref, shares, user)
    BY <2>1
  <2>3. CASE ~Owns(loc, ref, user)
    BY <2>2, <2>3 DEF ProcessCancelShares
  <2>4. CASE Owns(loc, ref, user) /\ CancelsAll(ref, shares)
    BY <2>2, <2>4 DEF ProcessCancelShares, Owns, Removes
  <2>5. CASE Owns(loc, ref, user) /\ ~CancelsAll(ref, shares)
    <3>1. ref \in DOMAIN orders /\ Reduce(ref, shares, FALSE)
      BY <2>2, <2>5 DEF ProcessCancelShares, Owns
    <3>2. shares \in Nat /\ shares < orders[ref].rem
      BY <1>0, <2>5, <3>1 DEF CancelsAll, BookInv, BookTypeOK, Order
    <3> QED
      BY <3>1, <3>2 DEF Reduces
  <2> QED
    BY <2>3, <2>4, <2>5
<1>6. CASE Replace
  <2>1. PICK loc \in AnyLocate, old \in Refs, new \in Refs, price \in Prices, qty \in Quantities :
          \E user \in Clients \cup {old} : ProcessReplace(loc, old, new, price, qty, user)
    BY <1>6 DEF Replace
  <2> QED
    BY <2>1 DEF ProcessReplace, Owns, Removes
<1>7. CASE Settle
  <2>1. CASE SettleRest /\ poolUsed < PoolSize
    <3>1. Rest(order) /\ cmd.tif = "DAY" /\ phase = "matching"
      BY <1>7, <2>1 DEF SettleRest, Settle
    <3>2. order.price \in Prices /\ order \in Order
      BY <3>1 DEF EngineInv, InFlight
    <3>3. Level(order) \in Levels
      BY <3>2 DEF Level, Levels, Order
    <3> QED
      BY <1>0, <3>1, <3>3 DEF Rests
  <2>2. CASE ~ (SettleRest /\ poolUsed < PoolSize)
    BY <1>7, <2>2 DEF Settle, SettleFilled, SettleIOC, SettleFOK, SettleRest
  <2> QED
    BY <2>1, <2>2
<1>8. CASE UNCHANGED vars
  BY <1>8 DEF vars, book
<1> QED
  BY <1>2, <1>3, <1>4, <1>5, <1>6, <1>7, <1>8 DEF Next

\* The published quantity of a price level, for every book the engine can reach:
\* the counter kept by addOrder, reduceOrderQty, reduceQtyCancel and removeOrder is
\* the sum of what is left of the orders that rest there.
THEOREM LevelTotalsExact == Spec => []LevelTotals
<1>1. Init => LevelTotals
  <2> SUFFICES ASSUME Init, NEW l \in Levels PROVE total[l] = SharesLeft(orders, RestingAt(orders, l))
    BY DEF LevelTotals, RestingAt
  <2>1. EngineInv
    BY InitKeepsInv
  <2>2. RestingAt(orders, l) = {} /\ RestingAt(orders, l) \in SUBSET DOMAIN orders
    BY DEF Init, RestingAt
  <2>3. SharesLeft(orders, RestingAt(orders, l)) = SumOf(RemOf(orders), RestingAt(orders, l))
    BY <2>1, <2>2, BookIsSummable DEF EngineInv, BookInv
  <2> QED
    BY <2>2, <2>3, SumEmpty DEF Init
<1>2. EngineInv /\ EngineInv' /\ LevelTotals /\ [Next]_vars => LevelTotals'
  <2> SUFFICES ASSUME EngineInv, EngineInv', LevelTotals, [Next]_vars PROVE LevelTotals'
    OBVIOUS
  <2>0. BookInv /\ BookInv' /\ \A r \in DOMAIN orders : orders[r].rem \in Nat
    BY DEF EngineInv, BookInv, BookTypeOK, Order
  <2>1. CASE MatchStep
    <3>1. PICK ref \in DOMAIN orders, qty \in Nat : TradesWith(ref, qty)
      BY <2>1, MatchStepTrades
    <3>2. RemoveOrder(ref) \/ (qty < orders[ref].rem /\ Reduce(ref, qty, TRUE))
      BY <3>1 DEF TradesWith
    <3> QED
      BY <2>0, <3>2, RemoveKeepsTotals, ReduceKeepsTotals
  <2>2. CASE ~MatchStep
    <3>1. UNCHANGED book \/ Removes \/ Reduces \/ Rests
      BY <2>2, BookSteps
    <3>2. CASE UNCHANGED book
      BY <3>2 DEF book, LevelTotals
    <3>3. CASE Removes
      BY <2>0, <3>3, RemoveKeepsTotals DEF Removes
    <3>4. CASE Reduces
      BY <2>0, <3>4, ReduceKeepsTotals DEF Reduces
    <3>5. CASE Rests
      BY <2>0, <3>5, RestKeepsTotals DEF Rests
    <3> QED
      BY <3>1, <3>2, <3>3, <3>4, <3>5
  <2> QED
    BY <2>1, <2>2
<1>3. Spec => []EngineInv
  BY EngineInvariant
<1> QED
  BY <1>1, <1>2, <1>3, PTL DEF Spec

Reported(r) == IF TradeAdded /\ Last(out').ref = r THEN Last(out').qty ELSE 0
Credited(r) ==
  IF r \in DOMAIN orders'
  THEN /\ orders'[r].filled = orders[r].filled + Reported(r)
       /\ orders'[r].rem <= orders[r].rem - Reported(r)
  ELSE Reported(r) \in {0, orders[r].rem}

LEMMA TradeIsCredited ==
  ASSUME EngineInv, MatchStep, NEW r \in DOMAIN orders
  PROVE  Credited(r)
<1>1. /\ BookInv /\ out \in Seq(Response)
      /\ \A x \in DOMAIN orders : /\ orders[x] \in Order /\ orders[x].ref = x
                                 /\ orders[x].rem \in Nat /\ orders[x].filled \in Nat
  BY DEF EngineInv, CallTypeOK, BookInv, BookTypeOK, Order
<1>2. PICK ref \in DOMAIN orders, qty \in Nat : TradesWith(ref, qty)
  BY MatchStepTrades
<1>3. Reported(r) = IF ref = r THEN qty ELSE 0
  <2>1. out' = Append(out, Trade(orders[ref], qty))
    BY <1>2 DEF TradesWith
  <2>2. Len(out') = Len(out) + 1 /\ Last(out') = Trade(orders[ref], qty) /\ Len(out) \in Nat
    BY <1>1, <2>1 DEF Last
  <2>3. IsTrade(Last(out')) /\ Last(out').ref = ref /\ Last(out').qty = qty
    BY <1>1, <2>2 DEF Trade, IsTrade
  <2> QED
    BY <2>2, <2>3 DEF Reported, TradeAdded
<1>4. CASE qty = orders[ref].rem /\ RemoveOrder(ref)
  <2>1. /\ DOMAIN orders' = DOMAIN orders \ {ref}
        /\ \A x \in DOMAIN orders' : orders'[x] = orders[x]
    BY <1>4 DEF RemoveOrder, RemoveCounted, Unindexed
  <2>2. CASE r = ref
    BY <1>3, <1>4, <2>1, <2>2 DEF Credited
  <2>3. CASE r # ref
    BY <1>1, <1>3, <2>1, <2>3 DEF Credited
  <2> QED
    BY <2>2, <2>3
<1>5. CASE qty < orders[ref].rem /\ Reduce(ref, qty, TRUE)
  <2>1. /\ DOMAIN orders' = DOMAIN orders
        /\ \A x \in DOMAIN orders \ {ref} : orders'[x] = orders[x]
    BY <1>5 DEF Reduce
  <2>2. orders'[ref].filled = orders[ref].filled + qty /\ orders'[ref].rem = orders[ref].rem - qty
    BY <1>1, <1>5 DEF Reduce, FillCredit, Order
  <2>3. CASE r = ref
    BY <1>1, <1>3, <2>1, <2>2, <2>3 DEF Credited
  <2>4. CASE r # ref
    BY <1>1, <1>3, <2>1, <2>4 DEF Credited
  <2> QED
    BY <2>3, <2>4
<1> QED
  BY <1>2, <1>4, <1>5 DEF TradesWith

LEMMA NothingElseIsCredited ==
  ASSUME EngineInv, [Next]_vars, ~MatchStep, NEW r \in DOMAIN orders
  PROVE  Credited(r)
<1>1. Reported(r) = 0
  BY OnlyMatchStepTrades DEF Reported
<1>2. \A x \in DOMAIN orders : orders[x] \in Order /\ orders[x].rem \in Nat /\ orders[x].filled \in Nat
  BY DEF EngineInv, BookInv, BookTypeOK, Order
<1>3. ASSUME r \in DOMAIN orders' => orders'[r] = orders[r] PROVE Credited(r)
  BY <1>1, <1>2, <1>3 DEF Credited
<1>4. CASE UNCHANGED book
  BY <1>3, <1>4 DEF book
<1>5. CASE Removes
  <2>1. PICK ref \in DOMAIN orders : RemoveOrder(ref)
    BY <1>5 DEF Removes
  <2> QED
    BY <1>3, <2>1 DEF RemoveOrder, RemoveCounted, Unindexed
<1>6. CASE Reduces
  <2>1. PICK ref \in DOMAIN orders, shares \in Nat :
          shares < orders[ref].rem /\ Reduce(ref, shares, FALSE)
    BY <1>6 DEF Reduces
  <2>2. DOMAIN orders' = DOMAIN orders /\ \A x \in DOMAIN orders \ {ref} : orders'[x] = orders[x]
    BY <2>1 DEF Reduce
  <2>3. CASE r = ref
    <3>1. orders'[ref] = [orders[ref] EXCEPT !.rem = @ - shares,
                                            !.filled = @ + FillCredit(shares, FALSE)]
      BY <2>1 DEF Reduce
    <3>2. orders[ref].filled + FillCredit(shares, FALSE) = orders[ref].filled
      BY <1>2 DEF FillCredit
    <3>4. orders[ref] \in Order
      BY <1>2
    <3>3. orders'[r].filled = orders[r].filled /\ orders'[r].rem = orders[r].rem - shares
      BY <2>3, <3>1, <3>2, <3>4 DEF Order
    <3> QED
      BY <1>1, <1>2, <2>2, <2>3, <3>3 DEF Credited
  <2>4. CASE r # ref
    BY <1>3, <2>2, <2>4
  <2> QED
    BY <2>3, <2>4
<1>7. CASE Rests
  <2>1. orders'[r] = orders[r]
    BY <1>7 DEF Rests, Rest, Indexed
  <2> QED
    BY <1>3, <2>1
<1> QED
  BY <1>4, <1>5, <1>6, <1>7, BookSteps

\* An order in the book is credited with a fill exactly when its trade is reported
\* (reduceOrderQty), never for a partial cancel (reduceQtyCancel) or anything else,
\* and leaves the book by a trade only when that trade took all it had.
THEOREM FillsAlwaysReported == Spec => FillsAreReported
<1>1. EngineInv /\ [Next]_vars => \A r \in DOMAIN orders : Credited(r)
  BY TradeIsCredited, NothingElseIsCredited
<1>2. Spec => []EngineInv
  BY EngineInvariant
<1>3. FillsAreReported <=> [][\A r \in DOMAIN orders : Credited(r)]_vars
  BY DEF FillsAreReported, Credited, Reported
<1> QED
  BY <1>1, <1>2, <1>3, PTL DEF Spec
-----------------------------------------------------------------------------
(* What a call does to its local order and its responses.                  *)

TradesIn(responses) == {i \in DOMAIN responses : IsTrade(responses[i])}
QtyIn(responses) == [i \in TradesIn(responses) |-> responses[i].qty]

LEMMA TradedIsSum ==
  ASSUME NEW responses \in Seq(Response)
  PROVE  /\ Summable(QtyIn(responses), TradesIn(responses))
         /\ TradedIn(responses) = SumOf(QtyIn(responses), TradesIn(responses))
<1> DEFINE S == TradesIn(responses)
           f == QtyIn(responses)
           sum == SumOf(f, S)
<1>1. IsFiniteSet(S)
  <2>1. DOMAIN responses = 1..Len(responses) /\ Len(responses) \in Nat
    OBVIOUS
  <2>2. IsFiniteSet(DOMAIN responses)
    BY <2>1, FS_Interval
  <2> QED
    BY <2>2, FS_Subset DEF TradesIn
<1>2. Summable(f, S)
  <2>1. \A i \in S : responses[i] \in Response /\ IsTrade(responses[i])
    BY DEF TradesIn
  <2>2. \A x \in Response : IsTrade(x) => x.qty \in Int
    BY DEF Response, IsTrade
  <2> QED
    BY <1>1, <2>1, <2>2 DEF Summable, QtyIn
<1>3. PICK g : Unfolds(g, f, S)
  BY <1>2, SumUnfolds
<1>4. ASSUME NEW h
      PROVE  h = [s \in SUBSET S |-> IF s = {} THEN 0
                    ELSE responses[CHOOSE x \in s : TRUE].qty + h[s \ {CHOOSE x \in s : TRUE}]]
             <=> Unfolds(h, f, S)
  <2>1. ASSUME NEW s \in SUBSET S, s # {}
        PROVE  f[AnyOf(s)] = responses[CHOOSE x \in s : TRUE].qty
    <3>1. AnyOf(s) \in S
      BY <2>1, AnyOfIsIn
    <3> QED
      BY <3>1 DEF QtyIn, AnyOf
  <2> HIDE DEF S, f
  <2> QED
    BY <2>1 DEF Unfolds, AnyOf
<1>5. \A h : Unfolds(h, f, S) => h[S] = sum
  BY <1>2, SumUnfolds
<1> HIDE DEF sum, f
<1>6. \A h : h = [s \in SUBSET S |-> IF s = {} THEN 0
                    ELSE responses[CHOOSE x \in s : TRUE].qty + h[s \ {CHOOSE x \in s : TRUE}]]
             => h[S] = sum
  BY <1>4, <1>5
<1>7. g = [s \in SUBSET S |-> IF s = {} THEN 0
             ELSE responses[CHOOSE x \in s : TRUE].qty + g[s \ {CHOOSE x \in s : TRUE}]]
  BY <1>3, <1>4
<1>8. TradedIn(responses) = sum
  BY <1>6, <1>7 DEF TradedIn, TradesIn, MapThenSumSet, MapThenFoldSet
<1> QED
  BY <1>2, <1>8 DEF sum, f

\* A further trade adds its quantity, any other response nothing.
LEMMA TradedGrows ==
  ASSUME NEW responses \in Seq(Response), NEW r \in Response
  PROVE  /\ TradedIn(responses) \in Int
         /\ TradedIn(Append(responses, r)) = TradedIn(responses) + IF IsTrade(r) THEN r.qty ELSE 0
<1> DEFINE more == Append(responses, r)
           n == Len(responses) + 1
<1>1. /\ more \in Seq(Response) /\ DOMAIN more = DOMAIN responses \cup {n}
      /\ n \notin DOMAIN responses /\ more[n] = r
      /\ \A i \in DOMAIN responses : more[i] = responses[i]
  OBVIOUS
<1>2. /\ Summable(QtyIn(responses), TradesIn(responses))
      /\ TradedIn(responses) = SumOf(QtyIn(responses), TradesIn(responses))
      /\ Summable(QtyIn(more), TradesIn(more))
      /\ TradedIn(more) = SumOf(QtyIn(more), TradesIn(more))
  BY <1>1, TradedIsSum
<1> HIDE DEF more, n
<1>3. TradesIn(more) = IF IsTrade(r) THEN TradesIn(responses) \cup {n} ELSE TradesIn(responses)
  BY <1>1 DEF TradesIn
<1>4. \A i \in TradesIn(responses) : QtyIn(more)[i] = QtyIn(responses)[i]
  BY <1>1, <1>3 DEF QtyIn, TradesIn
<1>5. SumOf(QtyIn(more), TradesIn(responses)) = SumOf(QtyIn(responses), TradesIn(responses))
  BY <1>2, <1>4, SumSame
<1>6. TradedIn(responses) \in Int
  BY <1>2, SumType
<1>7. CASE ~IsTrade(r)
  BY <1>2, <1>3, <1>5, <1>6, <1>7 DEF more
<1>8. CASE IsTrade(r)
  <2>1. n \in TradesIn(more) /\ TradesIn(more) \ {n} = TradesIn(responses)
    BY <1>1, <1>3, <1>8 DEF TradesIn
  <2>2. SumOf(QtyIn(more), TradesIn(more)) = QtyIn(more)[n] + SumOf(QtyIn(more), TradesIn(responses))
    BY <1>2, <2>1, SumWithout
  <2>3. QtyIn(more)[n] = r.qty /\ r.qty \in Int
    BY <1>1, <1>2, <1>8, <2>1 DEF QtyIn, Summable
  <2> QED
    BY <1>2, <1>5, <1>6, <1>8, <2>2, <2>3 DEF more
<1> QED
  BY <1>6, <1>7, <1>8

LEMMA NothingTraded == TradedIn(<<>>) = 0
<1>1. <<>> \in Seq(Response) /\ TradesIn(<<>>) = {}
  BY DEF TradesIn
<1>2. TradedIn(<<>>) = SumOf(QtyIn(<<>>), TradesIn(<<>>))
  BY <1>1, TradedIsSum
<1> QED
  BY <1>1, <1>2, SumEmpty

\* The orders availableQty adds up.
Scanned(ords, loc, side, price) ==
  {r \in DOMAIN ords : /\ ords[r].locate = loc /\ ords[r].side = Opposite(side)
                       /\ Crosses(side, price, ords[r].price)}
LEMMA AvailableIsScanned ==
  \A loc, side, price :
    AvailableQty(loc, side, price) = SharesLeft(orders, Scanned(orders, loc, side, price))
BY DEF AvailableQty, Scanned

\* In the loop the trades reported so far add up to the local order's fills, and
\* the book still holds what canFullFill found for a FOK order.
Accounted == phase = "matching" => TradedIn(out) = order.filled
Fillable ==
  phase = "matching" /\ cmd.tif = "FOK" =>
    AvailableQty(order.locate, order.side, order.price) >= order.rem

LEMMA MatchStepAccounts ==
  ASSUME EngineInv, MatchStep, Accounted, Fillable
  PROVE  Accounted' /\ Fillable'
<1>1. /\ BookInv /\ BookTypeOK /\ BookTypeOK' /\ order \in Order /\ out \in Seq(Response)
      /\ phase = "matching" /\ phase' = phase /\ cmd' = cmd
  BY MatchStepTrades, MatchStepKeepsInv DEF EngineInv, BookInv, CallTypeOK, InFlight
<1>2. PICK ref \in DOMAIN orders, qty \in Nat : TradesWith(ref, qty)
  BY MatchStepTrades
<1>3. /\ orders[ref] \in Order /\ orders[ref].ref = ref /\ orders[ref].price \in Prices
      /\ orders[ref].rem \in Nat
      /\ order.rem \in Nat /\ order.filled \in Nat
  BY <1>1 DEF BookTypeOK, Order
<1>4. /\ order'.rem = order.rem - qty /\ order'.filled = order.filled + qty
      /\ order'.locate = order.locate /\ order'.side = order.side /\ order'.price = order.price
  BY <1>1, <1>2 DEF TradesWith, Order
<1>5. Accounted'
  <2>1. Trade(orders[ref], qty) \in Response /\ IsTrade(Trade(orders[ref], qty))
        /\ Trade(orders[ref], qty).qty = qty
    <3>1. ref \in Refs
      BY <1>1 DEF BookTypeOK
    <3> QED
      BY <1>3, <3>1 DEF Trade, Response, IsTrade, Order
  <2>2. out' = Append(out, Trade(orders[ref], qty))
    BY <1>2 DEF TradesWith
  <2>3. TradedIn(out') = TradedIn(out) + qty
    BY <1>1, <2>1, <2>2, TradedGrows
  <2> QED
    BY <1>1, <1>4, <2>3 DEF Accounted
<1>6. Fillable'
  <2> SUFFICES ASSUME cmd.tif = "FOK"
               PROVE  AvailableQty(order.locate, order.side, order.price)' >= order'.rem
    BY <1>1 DEF Fillable
  <2> DEFINE S == Scanned(orders, order.locate, order.side, order.price)
             T == Scanned(orders', order.locate, order.side, order.price)
  <2>1. S \in SUBSET DOMAIN orders /\ ref \in S
    BY <1>2 DEF Scanned, TradesWith
  <2>2. /\ AvailableQty(order.locate, order.side, order.price) = SharesLeft(orders, S)
        /\ AvailableQty(order.locate, order.side, order.price)' = SharesLeft(orders', T)
    BY <1>4 DEF AvailableQty, Scanned
  <2>3. SharesLeft(orders, S) >= order.rem
    BY <1>1, <2>2 DEF Fillable
  <2>4. SharesLeft(orders, S) \in Int
    BY <1>1, <2>1, BookIsSummable, SumType
  <2>5. CASE qty = orders[ref].rem /\ RemoveOrder(ref)
    <3>1. RemoveCounted(ref, qty) /\ qty \in Int
      BY <2>5 DEF RemoveOrder
    <3>2. SharesLeft(orders', S \ {ref}) = SharesLeft(orders, S) - qty
      BY <1>1, <2>1, <2>5, <3>1, SharesRemoved
    <3>3. T = S \ {ref}
      <4>1. /\ DOMAIN orders' = DOMAIN orders \ {ref}
            /\ \A x \in DOMAIN orders' : orders'[x] = orders[x]
        BY <3>1 DEF RemoveCounted, Unindexed
      <4> QED
        BY <4>1 DEF Scanned
    <3> HIDE DEF S, T
    <3> QED
      BY <1>2, <1>3, <1>4, <2>2, <2>3, <2>4, <3>2, <3>3
  <2>6. CASE qty < orders[ref].rem /\ Reduce(ref, qty, TRUE)
    <3>0. SharesLeft(orders', S) = SharesLeft(orders, S) - IF ref \in S THEN qty ELSE 0
      <4> HIDE DEF S, T
      <4>1. TRUE \in BOOLEAN /\ qty < orders[ref].rem /\ Reduce(ref, qty, TRUE)
        BY <2>6
      <4> QED
        BY <1>1, <2>1, <4>1, SharesReduced, Zenon
    <3>1. SharesLeft(orders', S) = SharesLeft(orders, S) - qty
      BY <2>1, <3>0
    <3>2. T = S
      <4>1. DOMAIN orders' = DOMAIN orders /\ \A x \in DOMAIN orders \ {ref} : orders'[x] = orders[x]
        BY <2>6 DEF Reduce
      <4>2. /\ orders'[ref].locate = orders[ref].locate /\ orders'[ref].side = orders[ref].side
            /\ orders'[ref].price = orders[ref].price
        BY <1>3, <2>6 DEF Reduce, Order
      <4> QED
        BY <4>1, <4>2 DEF Scanned
    <3> HIDE DEF S, T
    <3> QED
      BY <1>2, <1>3, <1>4, <2>2, <2>3, <2>4, <3>1, <3>2
  <2> QED
    BY <1>2, <2>5, <2>6 DEF TradesWith
<1> QED
  BY <1>5, <1>6

\* A call is answered at once, or enters the loop with an order nothing is filled
\* of yet, which as FOK the book can fill.
Answers == \E op, tif, response : Reply(op, tif, response)
Enters == \E op, tif, o :
  /\ EnterMatching(op, tif, o)
  /\ o.filled = 0
  /\ tif = "FOK" => /\ UNCHANGED orders
                    /\ AvailableQty(o.locate, o.side, o.price) >= o.rem
LEMMA CallSteps ==
  ASSUME EngineInv, [Next]_vars, ~MatchStep, ~Settle
  PROVE  Answers \/ Enters \/ UNCHANGED vars
<1>1. BookTypeOK /\ Quantities \subseteq Nat
  BY EngineConstants DEF EngineInv, BookInv
<1>2. ASSUME NEW loc, NEW ref, NEW side, NEW price, NEW qty \in Nat, NEW user, NEW tif,
             ProcessAdd(loc, ref, side, price, qty, user, tif)
      PROVE  Answers \/ Enters
  <2> DEFINE err == AddError(loc, ref, side, price, qty, user, tif)
             limit == LimitPrice(tif, side, price)
             o == NewOrder(ref, user, loc, side, limit, qty)
  <2>1. UNCHANGED orders
    BY <1>2 DEF ProcessAdd, book
  <2>2. CASE err # "NONE"
    BY <1>2, <2>2 DEF ProcessAdd, Answers
  <2>3. CASE err = "NONE"
    <3>1. EnterMatching("ADD", tif, o)
      BY <1>2, <2>3 DEF ProcessAdd
    <3>2. o.filled = 0 /\ o.locate = loc /\ o.side = side /\ o.price = limit /\ o.rem = qty
      BY DEF NewOrder
    <3>3. AvailableQty(loc, side, limit) \in Int
      <4>1. Scanned(orders, loc, side, limit) \in SUBSET DOMAIN orders
        BY DEF Scanned
      <4> QED
        BY <1>1, <4>1, AvailableIsScanned, BookIsSummable, SumType
    <3>4. tif = "FOK" => ~(AvailableQty(loc, side, limit) < qty)
      BY <2>3, Zenon DEF AddError
    <3> HIDE DEF o, limit, err
    <3>5. tif = "FOK" => AvailableQty(o.locate, o.side, o.price) >= o.rem
      BY <3>2, <3>3, <3>4
    <3> QED
      BY <2>1, <3>1, <3>2, <3>5 DEF Enters
  <2> QED
    BY <2>2, <2>3
<1>3. CASE Add
  <2>1. PICK loc \in Locates, ref \in Refs, side \in Sides, price \in Prices \cup {0},
             qty \in Quantities, tif \in Tifs :
          \E user \in Clients \cup {ref} : ProcessAdd(loc, ref, side, price, qty, user, tif)
    BY <1>3 DEF Add
  <2> QED
    BY <1>1, <1>2, <2>1
<1>4. CASE AddMalformed
  <2>1. PICK bad \in {"locate", "ref", "side", "qty", "user"}, r \in Refs,
             price \in Prices, q \in Quantities, tif \in Tifs :
          ProcessAdd(IF bad = "locate" THEN BadLocate ELSE CHOOSE loc \in Locates : TRUE,
                     IF bad = "ref" THEN 0 ELSE r,
                     IF bad = "side" THEN "INVALID" ELSE "BUY",
                     price,
                     IF bad = "qty" THEN 0 ELSE q,
                     IF bad = "user" THEN 0 ELSE r, tif)
    BY <1>4 DEF AddMalformed
  <2> DEFINE qty == IF bad = "qty" THEN 0 ELSE q
  <2>2. qty \in Nat
    BY <1>1
  <2>3. \E loc, ref, side, user : ProcessAdd(loc, ref, side, price, qty, user, tif)
    BY <2>1
  <2> HIDE DEF qty
  <2> QED
    BY <1>2, <2>2, <2>3
<1>5. CASE Cancel
  BY <1>5, Zenon DEF Cancel, ProcessCancel, Answers
<1>6. CASE CancelShares
  <2>1. PICK loc \in AnyLocate, ref \in Refs, shares \in Quantities, user \in Users :
          ProcessCancelShares(loc, ref, shares, user)
    BY <1>6 DEF CancelShares, Users
  <2>2. CASE ~Owns(loc, ref, user)
    BY <2>1, <2>2 DEF ProcessCancelShares, Answers
  <2>3. CASE Owns(loc, ref, user) /\ CancelsAll(ref, shares)
    BY <2>1, <2>3 DEF ProcessCancelShares, Answers
  <2>4. CASE Owns(loc, ref, user) /\ ~CancelsAll(ref, shares)
    BY <2>1, <2>4 DEF ProcessCancelShares, Answers
  <2> QED
    BY <2>2, <2>3, <2>4
<1>7. CASE Replace
  <2>1. PICK loc \in AnyLocate, old \in Refs, new \in Refs, price \in Prices,
             qty \in Quantities, user \in Users :
          ProcessReplace(loc, old, new, price, qty, user)
    BY <1>7 DEF Replace, Users
  <2>2. CASE ~Owns(loc, old, user)
    BY <2>1, <2>2 DEF ProcessReplace, Answers
  <2>3. CASE Owns(loc, old, user)
    <3> DEFINE o == NewOrder(new, new, loc, orders[old].side, price, qty)
    <3>1. EnterMatching("REPLACE", "DAY", o)
      BY <2>1, <2>3 DEF ProcessReplace
    <3>2. o.filled = 0
      BY DEF NewOrder
    <3> HIDE DEF o
    <3> QED
      BY <3>1, <3>2 DEF Enters
  <2> QED
    BY <2>2, <2>3
<1> QED
  BY <1>3, <1>4, <1>5, <1>6, <1>7 DEF Next

\* The response that ends a call is no trade.
LEMMA FinishAccounts ==
  ASSUME EngineInv, Accounted, phase = "matching",
         NEW r \in Response, ~IsTrade(r), Finish(<<r>>)
  PROVE  /\ TradedIn(out') = order.filled /\ out' # <<>> /\ Last(out') = r
<1>1. out \in Seq(Response)
  BY DEF EngineInv, CallTypeOK
<1>2. out' = Append(out, r)
  BY <1>1 DEF Finish
<1>3. TradedIn(out') = TradedIn(out) + 0 /\ TradedIn(out) \in Int
  BY <1>1, <1>2, TradedGrows
<1>4. TradedIn(out') = order.filled
  BY <1>3 DEF Accounted
<1> QED
  BY <1>1, <1>2, <1>4 DEF Last

LEMMA SettleAccounts ==
  ASSUME EngineInv, Settle, Accounted, Fillable
  PROVE  ResponsesAccount' /\ FokFailsOnOwnOrders'
<1>1. /\ BookInv /\ BookTypeOK /\ order \in Order /\ out \in Seq(Response) /\ phase = "matching"
      /\ order.filled + order.rem = order.orig /\ order.ref \notin DOMAIN orders
      /\ order.ref \in Refs /\ order.rem \in Nat /\ order.filled \in Nat
      /\ \A i \in DOMAIN out : IsTrade(out[i])
  BY DEF Settle, EngineInv, BookInv, CallTypeOK, InFlight, Order
<1>2. order' = order /\ cmd' = cmd /\ MatchingDone
  BY DEF Settle, SettleFilled, SettleIOC, SettleFOK, SettleRest, Finish
<1> DEFINE final == IF out' # <<>> /\ ~IsTrade(Last(out')) THEN Last(out').type ELSE "NONE"
<1>3. ASSUME /\ TradedIn(out') = order.filled
             /\ final = "FILLED" <=> order.rem = 0
             /\ final = "OK" <=> order.ref \in DOMAIN orders'
             /\ final = "OK" => orders'[order.ref] = order
             /\ final = "NONE" => cmd.tif = "IOC" /\ order.filled > 0
      PROVE  ResponsesAccount'
  BY <1>1, <1>2, <1>3 DEF ResponsesAccount
<1>4. CASE SettleFilled
  <2> DEFINE r == Ack("FILLED", order.ref)
  <2>1. r \in Response /\ ~IsTrade(r) /\ r.type = "FILLED"
    BY <1>1, ResponsesTyped DEF Ack, IsTrade
  <2>2. Finish(<<r>>) /\ order.rem = 0 /\ orders' = orders
    BY <1>4 DEF SettleFilled, book
  <2> HIDE DEF r
  <2>3. TradedIn(out') = order.filled /\ final = "FILLED"
    BY <1>1, <2>1, <2>2, FinishAccounts
  <2>4. ResponsesAccount'
    BY <1>1, <1>3, <2>2, <2>3
  <2> QED
    BY <1>2, <2>2, <2>4 DEF FokFailsOnOwnOrders
<1>5. CASE SettleIOC
  <2>1. order.rem > 0 /\ cmd.tif = "IOC" /\ orders' = orders
    BY <1>5 DEF SettleIOC, book
  <2>2. CASE order.filled = 0
    <3> DEFINE r == Error("MKT_NO_LIQUIDITY")
    <3>1. r \in Response /\ ~IsTrade(r) /\ r.type = "ERROR"
      BY <1>1, ResponsesTyped DEF Error, IsTrade
    <3>2. Finish(<<r>>)
      BY <1>5, <2>2 DEF SettleIOC
    <3> HIDE DEF r
    <3>3. TradedIn(out') = order.filled /\ final = "ERROR"
      BY <1>1, <3>1, <3>2, FinishAccounts
    <3>4. ResponsesAccount'
      BY <1>1, <1>3, <2>1, <3>3
    <3> QED
      BY <1>2, <2>1, <3>4 DEF FokFailsOnOwnOrders
  <2>3. CASE order.filled # 0
    <3>1. Finish(<<>>)
      BY <1>5, <2>3 DEF SettleIOC
    <3>2. out' = out
      BY <1>1, <3>1 DEF Finish
    <3>3. final = "NONE"
      <4>1. ASSUME out # <<>> PROVE IsTrade(Last(out))
        <5>1. Len(out) \in DOMAIN out
          BY <1>1, <4>1
        <5> QED
          BY <1>1, <5>1 DEF Last
      <4> QED
        BY <3>2, <4>1
    <3>4. TradedIn(out') = order.filled /\ order.filled > 0
      BY <1>1, <2>3, <3>2 DEF Accounted
    <3>5. ResponsesAccount'
      BY <1>1, <1>3, <2>1, <3>3, <3>4
    <3> QED
      BY <1>2, <2>1, <3>5 DEF FokFailsOnOwnOrders
  <2> QED
    BY <2>2, <2>3
<1>6. CASE SettleFOK
  <2> DEFINE r == Error("FOK_NO_FULL_FILL")
             S == Scanned(orders, order.locate, order.side, order.price)
  <2>1. r \in Response /\ ~IsTrade(r) /\ r.type = "ERROR"
    BY <1>1, ResponsesTyped DEF Error, IsTrade
  <2>2. Finish(<<r>>) /\ order.rem > 0 /\ orders' = orders /\ cmd.tif = "FOK"
    BY <1>6 DEF SettleFOK, book
  <2> HIDE DEF r
  <2>3. TradedIn(out') = order.filled /\ final = "ERROR"
    BY <1>1, <2>1, <2>2, FinishAccounts
  <2>4. ResponsesAccount'
    BY <1>1, <1>3, <2>2, <2>3
  <2>5. SharesLeft(orders, S) >= order.rem
    BY <1>1, <2>2, AvailableIsScanned DEF Fillable
  <2>6. S # {}
    <3>1. S \in SUBSET DOMAIN orders
      BY DEF Scanned
    <3>2. SharesLeft(orders, S) = SumOf(RemOf(orders), S)
      BY <1>1, <3>1, BookIsSummable
    <3> HIDE DEF S
    <3>3. S = {} => SharesLeft(orders, S) = 0
      BY <3>2, SumEmpty, Zenon
    <3>4. SharesLeft(orders, S) # 0
      BY <1>1, <2>2, <2>5
    <3> QED
      BY <3>3, <3>4
  <2>7. PICK x \in DOMAIN orders :
          /\ orders[x].locate = order.locate /\ orders[x].side = Opposite(order.side)
          /\ Crosses(order.side, order.price, orders[x].price)
    BY <2>6 DEF Scanned
  <2>8. orders[x].user = order.user
    BY <1>1, <1>2, <2>2, <2>7, NothingCrossesWhenDone
       DEF MatchingDone, BookInv, SoundBook
  <2>9. orders[x].side # order.side
    BY <2>7 DEF Opposite
  <2> QED
    BY <1>2, <2>2, <2>4, <2>7, <2>8, <2>9 DEF FokFailsOnOwnOrders
<1>7. CASE SettleRest /\ poolUsed < PoolSize
  <2> DEFINE r == Ack("OK", order.ref)
  <2>1. r \in Response /\ ~IsTrade(r) /\ r.type = "OK"
    BY <1>1, ResponsesTyped DEF Ack, IsTrade
  <2>2. Finish(<<r>>) /\ Rest(order) /\ order.rem > 0 /\ cmd.tif = "DAY"
    BY <1>7 DEF SettleRest
  <2>3. order.ref \in DOMAIN orders' /\ orders'[order.ref] = order
    BY <2>2 DEF Rest, Indexed
  <2> HIDE DEF r
  <2>4. TradedIn(out') = order.filled /\ final = "OK"
    BY <1>1, <2>1, <2>2, FinishAccounts
  <2>5. ResponsesAccount'
    BY <1>1, <1>3, <2>2, <2>3, <2>4
  <2> QED
    BY <1>2, <2>2, <2>5 DEF FokFailsOnOwnOrders
<1>8. CASE SettleRest /\ ~(poolUsed < PoolSize)
  <2> DEFINE r == Error("POOL_FULL")
  <2>1. r \in Response /\ ~IsTrade(r) /\ r.type = "ERROR"
    BY <1>1, ResponsesTyped DEF Error, IsTrade
  <2>2. Finish(<<r>>) /\ orders' = orders /\ order.rem > 0 /\ cmd.tif = "DAY"
    BY <1>8 DEF SettleRest, book
  <2> HIDE DEF r
  <2>3. TradedIn(out') = order.filled /\ final = "ERROR"
    BY <1>1, <2>1, <2>2, FinishAccounts
  <2>4. ResponsesAccount'
    BY <1>1, <1>3, <2>2, <2>3
  <2> QED
    BY <1>2, <2>2, <2>4 DEF FokFailsOnOwnOrders
<1> QED
  BY <1>4, <1>5, <1>6, <1>7, <1>8 DEF Settle

\* What the caller is told and what canFullFill promised, between and inside calls.
CallsAccount == Accounted /\ Fillable /\ ResponsesAccount /\ FokFailsOnOwnOrders
LEMMA CallsAlwaysAccount == Spec => []CallsAccount
<1>1. Init => CallsAccount
  BY DEF Init, CallsAccount, Accounted, Fillable, ResponsesAccount, FokFailsOnOwnOrders
<1>2. EngineInv /\ CallsAccount /\ [Next]_vars => CallsAccount'
  <2> SUFFICES ASSUME EngineInv, CallsAccount, [Next]_vars PROVE CallsAccount'
    OBVIOUS
  <2>1. CASE MatchStep
    <3>1. Accounted' /\ Fillable'
      BY <2>1, MatchStepAccounts DEF CallsAccount
    <3>2. phase' = "matching"
      BY <2>1, MatchStepTrades
    <3> QED
      BY <3>1, <3>2 DEF CallsAccount, ResponsesAccount, FokFailsOnOwnOrders
  <2>2. CASE Settle
    <3>1. ResponsesAccount' /\ FokFailsOnOwnOrders'
      BY <2>2, SettleAccounts DEF CallsAccount
    <3>2. phase' = "idle"
      BY <2>2 DEF Settle, SettleFilled, SettleIOC, SettleFOK, SettleRest, Finish
    <3> QED
      BY <3>1, <3>2 DEF CallsAccount, Accounted, Fillable
  <2>3. CASE Answers
    <3>1. phase' = "idle" /\ order' = NoOrder
      BY <2>3 DEF Answers, Reply
    <3> QED
      BY <3>1 DEF CallsAccount, Accounted, Fillable, ResponsesAccount, FokFailsOnOwnOrders
  <2>4. CASE Enters
    <3>1. PICK op, tif, o :
            /\ EnterMatching(op, tif, o)
            /\ o.filled = 0
            /\ tif = "FOK" => /\ UNCHANGED orders
                              /\ AvailableQty(o.locate, o.side, o.price) >= o.rem
      BY <2>4 DEF Enters
    <3>2. phase' = "matching" /\ order' = o /\ out' = <<>> /\ cmd'.tif = tif
      BY <3>1 DEF EnterMatching
    <3>3. Accounted'
      BY <3>1, <3>2, NothingTraded DEF Accounted
    <3>4. Fillable'
      BY <3>1, <3>2 DEF Fillable, AvailableQty
    <3> QED
      BY <3>2, <3>3, <3>4 DEF CallsAccount, ResponsesAccount, FokFailsOnOwnOrders
  <2>5. CASE UNCHANGED vars
    BY <2>5 DEF vars, CallsAccount, Accounted, Fillable, AvailableQty, ResponsesAccount,
                FokFailsOnOwnOrders
  <2> QED
    BY <2>1, <2>2, <2>3, <2>4, <2>5, CallSteps
<1>3. Spec => []EngineInv
  BY EngineInvariant
<1> QED
  BY <1>1, <1>2, <1>3, PTL DEF Spec

\* out_responses never misleads the caller of processAdd or processReplace: the
\* TRADE frames add up to the order's fills whatever their number, and FILLED, OK and
\* the errors say where the rest of it is.
THEOREM ResponsesAlwaysAccount == Spec => []ResponsesAccount
<1>1. CallsAccount => ResponsesAccount
  BY DEF CallsAccount
<1> QED
  BY <1>1, CallsAlwaysAccount, PTL

\* Only its own user's orders can stop a FOK order that passed canFullFill.
THEOREM FokFailsOnlyOnOwnOrders == Spec => []FokFailsOnOwnOrders
<1>1. CallsAccount => FokFailsOnOwnOrders
  BY DEF CallsAccount
<1> QED
  BY <1>1, CallsAlwaysAccount, PTL
-----------------------------------------------------------------------------
(* The log, the snapshots and the restarts (Recovery).                     *)

\* A step that leaves the book as it is or takes from it: orders that stay keep their
\* numbers, their locates and their places.
Shrinks ==
  /\ SoundBook' /\ (InSequence => InSequence')
  /\ DOMAIN orders' \subseteq DOMAIN orders
  /\ \A r \in DOMAIN orders' : /\ orders'[r].seq = orders[r].seq
                               /\ orders'[r].locate = orders[r].locate

LEMMA SameBookShrinks ==
  ASSUME SoundBook, UNCHANGED book
  PROVE  Shrinks
<1>1. orders' = orders /\ queue' = queue /\ total' = total /\ poolUsed' = poolUsed
  BY DEF book
<1>2. SoundBook' /\ (InSequence => InSequence')
  BY <1>1 DEF SoundBook, BookTypeOK, ViewsAgree, Uncrossed, InSequence
<1> QED
  BY <1>1, <1>2 DEF Shrinks

LEMMA RemoveShrinks ==
  ASSUME SoundBook, NEW ref \in DOMAIN orders, RemoveOrder(ref)
  PROVE  Shrinks
<1>1. orders[ref].rem \in Int /\ RemoveCounted(ref, orders[ref].rem)
  BY DEF SoundBook, BookTypeOK, Order, RemoveOrder
<1>2. /\ SoundBook' /\ (InSequence => InSequence')
      /\ DOMAIN orders' = DOMAIN orders \ {ref}
      /\ \A r \in DOMAIN orders' : orders'[r] = orders[r]
  BY <1>1, RemoveKeepsSound
<1> QED
  BY <1>2 DEF Shrinks

LEMMA ReduceShrinks ==
  ASSUME SoundBook, NEW ref \in DOMAIN orders, NEW amount \in Nat, NEW isTrade \in BOOLEAN,
         amount < orders[ref].rem, Reduce(ref, amount, isTrade)
  PROVE  Shrinks
<1>1. /\ SoundBook' /\ (InSequence => InSequence')
      /\ DOMAIN orders' = DOMAIN orders
      /\ \A r \in DOMAIN orders : /\ orders'[r].seq = orders[r].seq
                                  /\ orders'[r].locate = orders[r].locate
  BY ReduceKeepsSound
<1> QED
  BY <1>1 DEF Shrinks

\* A trade takes from the book and from the order that came in, whatever is left of
\* the maker.
LEMMA MatchStepShrinks ==
  ASSUME SoundBook, order \in Order, MatchStep
  PROVE  /\ Shrinks
         /\ order' \in Order /\ order'.ref = order.ref /\ order'.seq = order.seq
         /\ order'.price = order.price /\ order'.locate = order.locate
<1> DEFINE TakesFrom(l, i) ==
        /\ MayTrade(l, i)
        /\ LET maker == orders[queue[l][i]]
               qty == TradeQty(order, maker)
           IN  /\ order' = [order EXCEPT !.rem = @ - qty, !.filled = @ + qty]
               /\ out' = Append(out, Trade(maker, qty))
               /\ IF qty = maker.rem
                  THEN RemoveCounted(maker.ref, qty)
                  ELSE Reduce(maker.ref, qty, TRUE)
<1>0. PICK l \in Levels : \E i \in DOMAIN queue[l] : TakesFrom(l, i)
  BY DEF MatchStep
<1>1. PICK i \in DOMAIN queue[l] : TakesFrom(l, i)
  BY <1>0
<1> DEFINE ref == queue[l][i]
           maker == orders[ref]
           qty == TradeQty(order, maker)
<1>2. /\ order' = [order EXCEPT !.rem = @ - qty, !.filled = @ + qty]
      /\ IF qty = maker.rem THEN RemoveCounted(maker.ref, qty) ELSE Reduce(maker.ref, qty, TRUE)
  BY <1>1
<1>3. ref \in DOMAIN orders
  BY DEF SoundBook, ViewsAgree
<1> HIDE DEF ref
<1>4. maker \in Order /\ maker.ref = ref
  BY <1>3 DEF SoundBook, BookTypeOK
<1>5. maker.rem \in Nat /\ order.rem \in Nat /\ order.filled \in Nat
  BY <1>4 DEF Order
<1>6. qty \in Nat /\ qty <= order.rem /\ qty <= maker.rem
  BY <1>5 DEF TradeQty
<1> HIDE DEF qty, maker
<1>7. ASSUME qty = maker.rem PROVE Shrinks
  <2>1. RemoveCounted(ref, qty) /\ qty \in Int
    BY <1>2, <1>4, <1>6, <1>7
  <2>2. /\ SoundBook' /\ (InSequence => InSequence')
        /\ DOMAIN orders' = DOMAIN orders \ {ref}
        /\ \A r \in DOMAIN orders' : orders'[r] = orders[r]
    BY <1>3, <2>1, RemoveKeepsSound
  <2> QED
    BY <2>2 DEF Shrinks
<1>8. ASSUME qty # maker.rem PROVE Shrinks
  <2>1. Reduce(ref, qty, TRUE)
    BY <1>2, <1>4, <1>8
  <2>2. qty < orders[ref].rem
    BY <1>5, <1>6, <1>8 DEF maker
  <2> QED
    BY <1>3, <1>6, <2>1, <2>2, ReduceShrinks
<1>9. /\ order' \in Order /\ order'.ref = order.ref /\ order'.seq = order.seq
      /\ order'.price = order.price /\ order'.locate = order.locate
  <2>1. order.rem - qty \in Nat /\ order.filled + qty \in Nat
    BY <1>5, <1>6
  <2>2. order' = [order EXCEPT !.rem = order.rem - qty, !.filled = order.filled + qty]
    BY <1>2
  <2> QED
    BY <2>1, <2>2 DEF Order
<1> QED
  BY <1>7, <1>8, <1>9 DEF Shrinks
-----------------------------------------------------------------------------
\* A command that replay can carry out names what the callers have named.
EntryOK(e, refs) ==
  /\ e.seq \in Nat
  /\ e.type = "SHARES" => e.qty \in Nat
  /\ e.type = "NEW" =>
       /\ e.ref \in refs /\ e.user \in Users /\ e.locate \in Locates /\ e.side \in Sides
       /\ e.price \in Prices /\ e.qty \in Nat

LogInv ==
  /\ written \in Nat /\ at \in Nat
  /\ mode \in {"running", "replaying", "loading", "astray"}
  /\ ~Running => written = WalEntries
  /\ DOMAIN wal = Slots
  /\ \A s \in Slots : EntryOK(wal[s], used)

CallInv ==
  /\ nextSeq \in Nat /\ used \subseteq Refs /\ DOMAIN orders \subseteq used
  /\ phase \in {"idle", "matching"}
  /\ phase = "matching" =>
       /\ mode # "loading"
       /\ order \in Order /\ order.price \in Prices
       /\ order.ref \in used \ DOMAIN orders

\* Numbers given are behind next_sequence_, but while a snapshot is being loaded.
NumbersInv ==
  /\ mode # "loading" => \A r \in DOMAIN orders : orders[r].seq < nextSeq
  /\ Running /\ phase = "matching" =>
       /\ order.seq < nextSeq
       /\ \A r \in DOMAIN orders : orders[r].seq < order.seq

\* The entries of new orders are in the order of their numbers, as long as none has
\* been overwritten: the writer of the first process goes up the file once, that of
\* a later one begins again with slot 0.
IsNew(s) == wal[s].type = "NEW"
Increasing ==
  \A s, t \in Slots : s < t /\ IsNew(s) /\ IsNew(t) => wal[s].seq < wal[t].seq
LogInOrder ==
  /\ written < WalEntries =>
       \A s \in Slots : /\ s >= written => ~IsNew(s)
                        /\ IsNew(s) => wal[s].seq <= nextSeq
  /\ faithful /\ written <= WalEntries => Increasing

\* What is replayed is younger than what has been.
FaithfulInv ==
  faithful =>
    /\ InSequence
    /\ mode = "replaying" =>
         /\ \A s \in Slots : s >= at /\ IsNew(s) =>
              \A r \in DOMAIN orders : orders[r].seq < wal[s].seq
         /\ phase = "matching" => at \in Slots /\ IsNew(at) /\ order.seq = wal[at].seq

\* What SoundBook and InSequence say of a book, of the one that was lost.
BookSoundOf(os, q) ==
  /\ \A r \in DOMAIN os : os[r] \in Order /\ os[r].ref = r /\ os[r].price \in Prices
  /\ \A r \in DOMAIN os : \E i \in DOMAIN q[Level(os[r])] : q[Level(os[r])][i] = r
  /\ \A l \in Levels : /\ q[l] \in Seq(Refs)
                       /\ \A i \in DOMAIN q[l] : q[l][i] \in DOMAIN os /\ Level(os[q[l][i]]) = l
                       /\ \A i, j \in DOMAIN q[l] : q[l][i] = q[l][j] => i = j
  /\ \A b, a \in DOMAIN os :
       /\ os[b].side = "BUY" /\ os[a].side = "SELL" /\ os[b].locate = os[a].locate
       /\ os[b].price >= os[a].price
       => os[b].user = os[a].user
InSequenceOf(os, q) ==
  \A l \in Levels : \A i, j \in DOMAIN q[l] : i < j => os[q[l][i]].seq < os[q[l][j]].seq

\* f has every order of the book that a snapshot saves, once, and those of a level
\* in the order of its list.
IsSnapshotOf(f, os, q) ==
  /\ f \in Seq(Order) /\ Len(f) <= PoolSize
  /\ \A i \in DOMAIN f : /\ f[i].ref \in DOMAIN os /\ f[i] = os[f[i].ref]
                         /\ f[i].locate = SnapshotLocate
  /\ \A r \in DOMAIN os : os[r].locate = SnapshotLocate => \E i \in DOMAIN f : f[i].ref = r
  /\ \A i, j \in DOMAIN f : i < j =>
       /\ f[i].ref # f[j].ref
       /\ \A l \in Levels : \A m, n \in DOMAIN q[l] :
            q[l][m] = f[i].ref /\ q[l][n] = f[j].ref => m < n

\* The orders loaded so far are the first of the snapshot, and a level has the first
\* of those it had.
LoadedSoFar ==
  /\ at \in 0..Len(file) /\ poolUsed = at
  /\ DOMAIN orders = {file[i].ref : i \in 1..at}
  /\ \A i \in 1..at : orders[file[i].ref] = file[i]
  /\ \A l \in Levels : l[1] = SnapshotLocate =>
       \A k \in DOMAIN queue[l] : k \in DOMAIN lost.queue[l] /\ queue[l][k] = lost.queue[l][k]

LoadInv ==
  mode = "loading" =>
    /\ BookSoundOf(lost.orders, lost.queue) /\ DOMAIN lost.orders \subseteq used
    /\ \A r \in DOMAIN lost.orders : lost.orders[r].locate = home[r]
    /\ IsSnapshotOf(file, lost.orders, lost.queue)
    /\ LoadedSoFar
    /\ faithful => InSequenceOf(lost.orders, lost.queue)

\* Every reference in use has a locate of its own, the one its order was logged with ...
HomeInv ==
  /\ used \subseteq Refs /\ DOMAIN home = used
  /\ \A s \in Slots : IsNew(s) => wal[s].locate = home[wal[s].ref]

\* ... and rests or is matched in, so that only an entry with another one strays.
AtHome ==
  /\ \A r \in DOMAIN orders : orders[r].locate = home[r]
  /\ phase = "matching" => order.locate = home[order.ref]

WalInv ==
  /\ LogInv /\ LogInOrder /\ HomeInv
  /\ mode = "astray" => phase = "idle" /\ ~WellAddressed
  /\ mode # "astray" =>
       SoundBook /\ CallInv /\ NumbersInv /\ FaithfulInv /\ LoadInv /\ AtHome
-----------------------------------------------------------------------------
LEMMA SlotFacts ==
  /\ WalEntries \in Nat \ {0} /\ Uint32 \in Nat \ {0}
  /\ Slots = 0..(WalEntries - 1) /\ Slots \subseteq Nat
BY RecoveryConstants DEF Slots

\* An entry is appended: until the file is full for the first time, after all others.
LEMMA LogKeeps ==
  ASSUME LogInv, LogInOrder, HomeInv, Running, NEW entry, Log(entry),
         nextSeq \in Nat, nextSeq' \in Nat, nextSeq <= nextSeq',
         used' = used \cup {entry.ref}, used' \subseteq Refs, EntryOK(entry, used'),
         entry.type = "NEW" => /\ entry.seq = nextSeq' /\ nextSeq < nextSeq'
                               /\ entry.ref \notin used,
         faithful' => faithful
  PROVE  /\ LogInv' /\ LogInOrder' /\ HomeInv' /\ Running' /\ at' = at
         /\ \A r \in used : home'[r] = home[r]
         /\ entry.ref \notin used => home'[entry.ref] = entry.locate
<1>1. /\ wal' = [wal EXCEPT ![written % WalEntries] = entry]
      /\ written' = written + 1
      /\ home' = [r \in DOMAIN home \cup {entry.ref} |->
                    IF r \in DOMAIN home THEN home[r] ELSE entry.locate]
      /\ mode' = mode /\ at' = at
  BY DEF Log, restartVars
<1>2. /\ written \in Nat /\ at \in Nat /\ DOMAIN wal = Slots /\ mode = "running"
      /\ \A s \in Slots : EntryOK(wal[s], used)
  BY DEF LogInv, Running
<1>3. written % WalEntries \in Slots
  BY <1>2, SlotFacts, Euclid
<1>4. /\ DOMAIN wal' = Slots
      /\ \A s \in Slots : wal'[s] = IF s = written % WalEntries THEN entry ELSE wal[s]
  BY <1>1, <1>2
<1>5. \A s \in Slots : EntryOK(wal'[s], used')
  <2>1. ASSUME NEW s \in Slots, EntryOK(wal[s], used) PROVE EntryOK(wal[s], used')
    BY <2>1 DEF EntryOK
  <2> QED
    BY <1>2, <1>4, <2>1
<1>6. LogInv' /\ Running'
  <2>1. written' \in Nat /\ at' \in Nat /\ mode' = "running"
    BY <1>1, <1>2
  <2> QED
    BY <1>4, <1>5, <2>1 DEF LogInv, Running
<1>7. ASSUME written < WalEntries
      PROVE  /\ written \in Slots /\ written % WalEntries = written
             /\ \A s \in Slots : s >= written => ~IsNew(s)
             /\ \A s \in Slots : IsNew(s) => wal[s].seq <= nextSeq
  <2>1. written \in 0..(WalEntries - 1)
    BY <1>2, <1>7, SlotFacts
  <2>2. written % WalEntries = written
    BY <2>1, SlotFacts
  <2> QED
    BY <1>7, <2>1, <2>2, SlotFacts DEF LogInOrder
<1>8. ASSUME written < WalEntries, NEW s \in Slots, IsNew(s)'
      PROVE  /\ s <= written /\ wal'[s].seq <= nextSeq'
             /\ s < written => IsNew(s) /\ wal'[s] = wal[s]
             /\ s = written => wal'[s].seq = nextSeq' /\ nextSeq < nextSeq'
  <2>1. CASE s = written
    BY <1>2, <1>4, <1>7, <1>8, <2>1 DEF IsNew
  <2>2. CASE s # written
    <3>1. wal'[s] = wal[s] /\ IsNew(s)
      BY <1>4, <1>7, <1>8, <2>2 DEF IsNew
    <3>2. wal[s].seq \in Nat /\ wal[s].seq <= nextSeq /\ ~(s >= written) /\ s \in Nat
      BY <1>2, <1>7, <1>8, <3>1, SlotFacts DEF EntryOK
    <3> QED
      BY <1>2, <2>2, <3>1, <3>2
  <2> QED
    BY <2>1, <2>2
<1>9. ASSUME faithful', written' <= WalEntries PROVE Increasing'
  <2>1. written < WalEntries /\ written <= WalEntries /\ faithful
    BY <1>1, <1>2, <1>9, SlotFacts
  <2>2. Increasing
    BY <2>1 DEF LogInOrder
  <2> SUFFICES ASSUME NEW s \in Slots, NEW t \in Slots, s < t, IsNew(s)', IsNew(t)'
               PROVE  wal'[s].seq < wal'[t].seq
    BY DEF Increasing
  <2>3. s < written /\ IsNew(s) /\ wal'[s] = wal[s]
    <3>1. s \in Nat /\ t \in Nat /\ t <= written /\ s <= written
      BY <1>8, <2>1, SlotFacts
    <3> QED
      BY <1>2, <1>8, <2>1, <3>1
  <2>4. CASE t = written
    <3>1. wal'[t].seq = nextSeq' /\ nextSeq < nextSeq'
      BY <1>8, <2>1, <2>4
    <3>2. wal[s].seq <= nextSeq /\ wal[s].seq \in Nat
      BY <1>2, <1>7, <2>1, <2>3 DEF EntryOK
    <3> QED
      BY <2>3, <3>1, <3>2
  <2>5. CASE t # written
    <3>1. t < written
      BY <1>2, <1>8, <2>1, <2>5, SlotFacts
    <3>2. IsNew(t) /\ wal'[t] = wal[t]
      BY <1>8, <2>1, <3>1
    <3> QED
      BY <2>2, <2>3, <3>2 DEF Increasing
  <2> QED
    BY <2>4, <2>5
<1>10. ASSUME written' < WalEntries, NEW s \in Slots
       PROVE  /\ s >= written' => ~IsNew(s)'
              /\ IsNew(s)' => wal'[s].seq <= nextSeq'
  <2>1. written < WalEntries
    BY <1>1, <1>2, <1>10, SlotFacts
  <2>2. IsNew(s)' => s <= written /\ wal'[s].seq <= nextSeq'
    BY <1>8, <2>1
  <2> QED
    BY <1>1, <1>2, <2>2, SlotFacts
<1>11. LogInOrder'
  BY <1>9, <1>10 DEF LogInOrder, IsNew
<1>12. /\ DOMAIN home' = used'
       /\ \A r \in used : home'[r] = home[r]
       /\ entry.ref \notin used => home'[entry.ref] = entry.locate
  BY <1>1 DEF HomeInv
<1>13. ASSUME NEW s \in Slots, IsNew(s)' PROVE wal'[s].locate = home'[wal'[s].ref]
  <2>1. CASE wal'[s] = entry
    BY <1>12, <1>13, <2>1 DEF IsNew
  <2>2. CASE wal'[s] = wal[s]
    BY <1>2, <1>12, <1>13, <2>2 DEF IsNew, EntryOK, HomeInv
  <2> QED
    BY <1>4, <2>1, <2>2
<1>14. HomeInv'
  BY <1>12, <1>13 DEF HomeInv
<1> QED
  BY <1>1, <1>6, <1>11, <1>12, <1>14

LEMMA EmptyBookSound ==
  ASSUME orders = [r \in {} |-> NoOrder], queue = [l \in Levels |-> <<>>],
         total = [l \in Levels |-> 0], poolUsed = 0
  PROVE  SoundBook /\ InSequence
<1>1. DOMAIN orders = {} /\ \A l \in Levels : queue[l] = <<>> /\ DOMAIN queue[l] = {}
  OBVIOUS
<1>2. BookTypeOK
  <2>1. queue \in [Levels -> Seq(Refs)]
    OBVIOUS
  <2> QED
    BY <1>1, <2>1 DEF BookTypeOK
<1>3. ViewsAgree
  BY <1>1, FS_EmptySet, EngineConstants DEF ViewsAgree
<1>4. Uncrossed /\ InSequence
  BY <1>1 DEF Uncrossed, InSequence
<1> QED
  BY <1>2, <1>3, <1>4 DEF SoundBook

LEMMA WalInitKeepsInv == WalInit => WalInv
<1> SUFFICES ASSUME WalInit PROVE WalInv
  OBVIOUS
<1>1. /\ orders = [r \in {} |-> NoOrder] /\ queue = [l \in Levels |-> <<>>]
      /\ total = [l \in Levels |-> 0] /\ poolUsed = 0
      /\ nextSeq = 1 /\ used = {} /\ phase = "idle"
      /\ wal = [s \in Slots |-> Blank] /\ written = 0 /\ at = 0 /\ mode = "running"
      /\ home = [r \in {} |-> 0]
  BY DEF WalInit, Init
<1>2. SoundBook /\ InSequence /\ DOMAIN orders = {}
  BY <1>1, EmptyBookSound
<1>3. \A s \in Slots : wal[s] = Blank /\ ~IsNew(s) /\ EntryOK(wal[s], used)
  BY <1>1 DEF IsNew, Blank, Entry, EntryOK
<1>4. LogInv
  BY <1>1, <1>3 DEF LogInv, Running
<1>5. CallInv /\ NumbersInv
  BY <1>1, <1>2 DEF CallInv, NumbersInv, Running
<1>6. LogInOrder
  BY <1>3 DEF LogInOrder, Increasing
<1>7. FaithfulInv /\ LoadInv
  BY <1>1, <1>2 DEF FaithfulInv, LoadInv
<1>8. HomeInv /\ AtHome
  BY <1>1, <1>2, <1>3 DEF HomeInv, AtHome
<1> QED
  BY <1>1, <1>2, <1>4, <1>5, <1>6, <1>7, <1>8 DEF WalInv
-----------------------------------------------------------------------------
(* Commands.                                                               *)

\* What is left of WalInv while the process is in service.
LEMMA InService ==
  ASSUME SoundBook, LogInv, CallInv, NumbersInv, LogInOrder, HomeInv, AtHome, Running,
         faithful => InSequence
  PROVE  WalInv
BY DEF WalInv, FaithfulInv, LoadInv, Running

\* A command that is carried out at once, logged as it may be.
LEMMA LoggedShrinks ==
  ASSUME WalInv, Running, NEW entry, Log(entry), EntryOK(entry, used'), entry.type # "NEW",
         faithful' => faithful, Shrinks, used' = used \cup {entry.ref}, used' \subseteq Refs,
         \/ phase' = "idle" /\ nextSeq' = nextSeq
         \/ /\ phase' = "matching" /\ nextSeq' = nextSeq + 1
            /\ order' \in Order /\ order'.price \in Prices
            /\ order'.ref \in used' \ DOMAIN orders'
            /\ order'.seq = nextSeq
            /\ order'.ref = entry.ref /\ order'.locate = entry.locate /\ entry.ref \notin used
  PROVE  WalInv'
<1>0. /\ LogInv /\ LogInOrder /\ HomeInv /\ mode = "running"
      /\ SoundBook /\ CallInv /\ NumbersInv /\ FaithfulInv /\ AtHome
      /\ nextSeq \in Nat /\ nextSeq' \in Nat /\ nextSeq <= nextSeq'
  BY DEF WalInv, CallInv, Running
<1>1. /\ LogInv' /\ LogInOrder' /\ HomeInv' /\ Running'
      /\ \A r \in used : home'[r] = home[r]
      /\ entry.ref \notin used => home'[entry.ref] = entry.locate
  BY <1>0, LogKeeps
<1>2. mode' = "running"
  BY <1>1 DEF Running
<1>3. /\ DOMAIN orders' \subseteq used'
      /\ \A r \in DOMAIN orders' : orders'[r].seq \in Nat /\ orders'[r].seq < nextSeq
  <2>1. \A r \in DOMAIN orders : orders[r].seq \in Nat /\ orders[r].seq < nextSeq
    BY <1>0 DEF SoundBook, BookTypeOK, Order, NumbersInv
  <2> QED
    BY <1>0, <2>1 DEF CallInv, Shrinks
<1>4. CallInv' /\ AtHome'
  <2>1. CallInv'
    BY <1>0, <1>2, <1>3 DEF CallInv
  <2>2. AtHome'
    BY <1>0, <1>1 DEF CallInv, AtHome, Shrinks
  <2> QED
    BY <2>1, <2>2
<1>5. NumbersInv'
  <2>1. \A r \in DOMAIN orders' : orders'[r].seq < nextSeq'
    BY <1>0, <1>3
  <2>2. phase' = "matching" => /\ order'.seq < nextSeq'
                               /\ \A r \in DOMAIN orders' : orders'[r].seq < order'.seq
    BY <1>0, <1>3
  <2> QED
    BY <2>1, <2>2 DEF NumbersInv
<1>6. SoundBook' /\ (faithful' => InSequence')
  BY <1>0 DEF Shrinks, FaithfulInv
<1> QED
  BY <1>1, <1>4, <1>5, <1>6, InService, PTL

LEMMA LoggedAddKeepsInv ==
  ASSUME WalInv, LoggedAdd
  PROVE  WalInv'
<1>0. /\ SoundBook /\ LogInv /\ CallInv /\ NumbersInv /\ LogInOrder /\ FaithfulInv
      /\ HomeInv /\ AtHome /\ Running /\ nextSeq \in Nat /\ used \subseteq Refs
  BY DEF WalInv, CallInv, LoggedAdd, Running
<1> DEFINE entry == Entry("NEW", order'.locate, order'.side, order'.price, order'.orig,
                          order'.user, order'.ref, nextSeq')
<1>1. phase' = "matching" /\ order'.price \in Prices /\ LogAs(entry, TRUE) /\ Add
  BY DEF LoggedAdd
<1>2. PICK loc \in Locates, ref \in Refs, side \in Sides, price \in Prices \cup {0},
           qty \in Quantities, tif \in Tifs, user \in Clients \cup Refs :
        ProcessAdd(loc, ref, side, price, qty, user, tif)
  BY <1>1 DEF Add
<1> DEFINE o == NewOrder(ref, user, loc, side, LimitPrice(tif, side, price), qty)
<1>3. /\ used' = used \cup {ref} /\ ref \notin used /\ UNCHANGED book
      /\ EnterMatching("ADD", tif, o)
  <2>1. ref \notin used /\ UNCHANGED book /\ used' = used \cup ({ref} \cap Refs)
    BY <1>2 DEF ProcessAdd
  <2>2. AddError(loc, ref, side, price, qty, user, tif) = "NONE"
    BY <1>1, <1>2 DEF ProcessAdd, Reply
  <2> QED
    BY <1>2, <2>1, <2>2 DEF ProcessAdd
<1>4. order' = o /\ nextSeq' = nextSeq + 1
  BY <1>3 DEF EnterMatching
<1>5. /\ order' \in Order /\ order'.ref = ref /\ order'.seq = nextSeq /\ order'.locate = loc
      /\ order'.side = side /\ order'.user = user /\ order'.orig = qty /\ qty \in Nat
  <2>1. LimitPrice(tif, side, price) \in Prices \cup {0, MaxPrice}
    BY DEF LimitPrice, MarketPrice
  <2>2. user \in Users /\ qty \in Nat
    BY EngineConstants DEF Users
  <2> DEFINE limit == LimitPrice(tif, side, price)
  <2>3. limit \in Prices \cup {0, MaxPrice} /\ order' = NewOrder(ref, user, loc, side, limit, qty)
    BY <1>4, <2>1
  <2> HIDE DEF limit
  <2> QED
    BY <1>0, <2>2, <2>3 DEF NewOrder, Order
<1>6. Shrinks /\ orders' = orders
  BY <1>0, <1>3, SameBookShrinks DEF book
<1>7. /\ Log(entry) /\ (faithful' => faithful)
      /\ entry.type = "NEW" /\ entry.seq = nextSeq' /\ EntryOK(entry, used')
      /\ entry.ref = ref /\ entry.locate = loc
  <2>1. Log(entry) /\ (faithful' => faithful)
    BY <1>1 DEF LogAs
  <2>2. /\ entry.type = "NEW" /\ entry.seq = nextSeq' /\ entry.locate = loc
        /\ entry.side = side /\ entry.price = order'.price /\ entry.qty = qty
        /\ entry.user = user /\ entry.ref = ref
    BY <1>5 DEF Entry
  <2> HIDE DEF entry, o
  <2>3. nextSeq' \in Nat /\ user \in Users /\ ref \in used'
    BY <1>0, <1>3, <1>4 DEF Users
  <2> QED
    BY <1>1, <1>5, <2>1, <2>2, <2>3 DEF EntryOK
<1> HIDE DEF entry, o
<1>8. /\ LogInv' /\ LogInOrder' /\ HomeInv' /\ Running'
      /\ \A r \in used : home'[r] = home[r]
      /\ home'[ref] = loc
  <2>1. nextSeq' \in Nat /\ nextSeq < nextSeq' /\ nextSeq <= nextSeq'
    BY <1>0, <1>4
  <2>2. used' \subseteq Refs /\ used' = used \cup {entry.ref} /\ entry.ref \notin used
    BY <1>0, <1>3, <1>7
  <2> QED
    BY <1>0, <1>7, <2>1, <2>2, LogKeeps
<1>9. CallInv' /\ NumbersInv' /\ AtHome' /\ SoundBook' /\ (faithful' => InSequence')
  <2>1. \A r \in DOMAIN orders : orders[r].seq \in Nat /\ orders[r].seq < nextSeq
    BY <1>0 DEF SoundBook, BookTypeOK, Order, NumbersInv, Running
  <2>2. CallInv'
    BY <1>0, <1>1, <1>3, <1>4, <1>5, <1>6, <1>8 DEF CallInv, Running
  <2>3. NumbersInv'
    BY <1>0, <1>4, <1>5, <1>6, <2>1 DEF NumbersInv
  <2>4. AtHome'
    BY <1>0, <1>5, <1>6, <1>8 DEF AtHome, CallInv
  <2> QED
    BY <1>0, <1>6, <1>7, <2>2, <2>3, <2>4 DEF Shrinks, FaithfulInv
<1> QED
  BY <1>8, <1>9, InService, PTL

\* An order that is taken out is one of the book.
LEMMA OwnedIsThere ==
  ASSUME NEW loc, NEW ref, NEW user, Owns(loc, ref, user)
  PROVE  ref \in DOMAIN orders
BY DEF Owns

LEMMA LoggedCancelKeepsInv ==
  ASSUME WalInv, LoggedCancel
  PROVE  WalInv'
<1>0. SoundBook /\ CallInv /\ Running /\ nextSeq \in Nat /\ used \subseteq Refs
  BY DEF WalInv, CallInv, LoggedCancel, Running
<1>1. PICK loc \in Locates, ref \in used, user \in Clients \cup used :
        /\ ProcessCancel(loc, ref, user)
        /\ LogAs(Entry("CANCEL", loc, "INVALID", 0, 0, user, ref, nextSeq), TRUE)
  BY DEF LoggedCancel
<1> DEFINE entry == Entry("CANCEL", loc, "INVALID", 0, 0, user, ref, nextSeq)
<1>2. phase' = "idle" /\ nextSeq' = nextSeq /\ used' = used
  BY <1>1 DEF ProcessCancel, Reply
<1>3. Shrinks
  <2>1. CASE Owns(loc, ref, user)
    BY <1>0, <1>1, <2>1, RemoveShrinks, OwnedIsThere DEF ProcessCancel
  <2>2. CASE ~Owns(loc, ref, user)
    BY <1>0, <1>1, <2>2, SameBookShrinks DEF ProcessCancel
  <2> QED
    BY <2>1, <2>2
<1>4. /\ Log(entry) /\ entry.type # "NEW" /\ EntryOK(entry, used') /\ (faithful' => faithful)
      /\ entry.ref = ref
  BY <1>0, <1>1 DEF LogAs, Entry, EntryOK
<1> HIDE DEF entry
<1>5. used' = used \cup {entry.ref} /\ used' \subseteq Refs
  BY <1>0, <1>1, <1>2, <1>4
<1> QED
  BY <1>0, <1>2, <1>3, <1>4, <1>5, LoggedShrinks

LEMMA LoggedCancelSharesKeepsInv ==
  ASSUME WalInv, LoggedCancelShares
  PROVE  WalInv'
<1>0. SoundBook /\ CallInv /\ Running /\ nextSeq \in Nat /\ used \subseteq Refs
  BY DEF WalInv, CallInv, LoggedCancelShares, Running
<1>1. PICK loc \in Locates, ref \in used, shares \in Quantities, user \in Clients \cup used :
        /\ ProcessCancelShares(loc, ref, shares, user)
        /\ LogAs(Entry("SHARES", loc, "INVALID", 0, shares, user, ref, nextSeq),
                 ref \in DOMAIN orders => Owns(loc, ref, user) /\ CancelsAll(ref, shares))
  BY DEF LoggedCancelShares
<1> DEFINE entry == Entry("SHARES", loc, "INVALID", 0, shares, user, ref, nextSeq)
<1>2. shares \in Nat
  BY EngineConstants
<1>3. phase' = "idle" /\ nextSeq' = nextSeq /\ used' = used
  BY <1>1 DEF ProcessCancelShares, Reply
<1>4. Shrinks
  <2>1. CASE ~Owns(loc, ref, user)
    BY <1>0, <1>1, <2>1, SameBookShrinks DEF ProcessCancelShares
  <2>2. CASE Owns(loc, ref, user) /\ CancelsAll(ref, shares)
    BY <1>0, <1>1, <2>2, RemoveShrinks, OwnedIsThere DEF ProcessCancelShares
  <2>3. CASE Owns(loc, ref, user) /\ ~CancelsAll(ref, shares)
    <3>1. Reduce(ref, shares, FALSE) /\ ref \in DOMAIN orders
      BY <1>1, <2>3, OwnedIsThere DEF ProcessCancelShares
    <3>2. orders[ref].rem \in Nat
      BY <1>0, <3>1 DEF SoundBook, BookTypeOK, Order
    <3>3. shares < orders[ref].rem
      BY <1>2, <2>3, <3>2 DEF CancelsAll
    <3> QED
      BY <1>0, <1>2, <3>1, <3>3, ReduceShrinks
  <2> QED
    BY <2>1, <2>2, <2>3
<1>5. /\ Log(entry) /\ entry.type # "NEW" /\ EntryOK(entry, used') /\ (faithful' => faithful)
      /\ entry.ref = ref
  BY <1>0, <1>1, <1>2 DEF LogAs, Entry, EntryOK
<1> HIDE DEF entry
<1>6. used' = used \cup {entry.ref} /\ used' \subseteq Refs
  BY <1>0, <1>1, <1>3, <1>5
<1> QED
  BY <1>0, <1>3, <1>4, <1>5, <1>6, LoggedShrinks

LEMMA LoggedReplaceKeepsInv ==
  ASSUME WalInv, LoggedReplace
  PROVE  WalInv'
<1>0. SoundBook /\ CallInv /\ Running /\ nextSeq \in Nat /\ used \subseteq Refs
  BY DEF WalInv, CallInv, LoggedReplace, Running
<1>1. PICK loc \in Locates, old \in used, new \in Refs, price \in Prices,
           qty \in Quantities, user \in Clients \cup used :
        /\ ProcessReplace(loc, old, new, price, qty, user)
        /\ LogAs(Entry("REPLACE", loc, "INVALID", price, qty, user, new, nextSeq),
                 ~Owns(loc, old, user))
  BY DEF LoggedReplace
<1> DEFINE entry == Entry("REPLACE", loc, "INVALID", price, qty, user, new, nextSeq)
<1>2. /\ Log(entry) /\ entry.type # "NEW" /\ EntryOK(entry, used') /\ (faithful' => faithful)
      /\ entry.ref = new /\ entry.locate = loc
  BY <1>0, <1>1 DEF LogAs, Entry, EntryOK
<1> HIDE DEF entry
<1>3. used' = used \cup {new} /\ new \notin used
  BY <1>1 DEF ProcessReplace
<1>4. CASE Owns(loc, old, user)
  <2> DEFINE o == NewOrder(new, new, loc, orders[old].side, price, qty)
  <2>1. old \in DOMAIN orders /\ RemoveOrder(old) /\ EnterMatching("REPLACE", "DAY", o)
    BY <1>1, <1>4, OwnedIsThere DEF ProcessReplace
  <2>2. Shrinks
    BY <1>0, <2>1, RemoveShrinks
  <2>3. o \in Order /\ o.ref = new /\ o.seq = nextSeq /\ o.price \in Prices /\ o.locate = loc
    <3>1. orders[old].side \in Sides /\ new \in Users /\ qty \in Nat
      BY <1>0, <2>1, EngineConstants DEF SoundBook, BookTypeOK, Order, Users
    <3> DEFINE side == orders[old].side
    <3>2. side \in Sides
      BY <3>1
    <3> HIDE DEF side
    <3>3. NewOrder(new, new, loc, side, price, qty) \in Order
      BY <1>0, <3>1, <3>2 DEF NewOrder, Order
    <3>4. o.ref = new /\ o.seq = nextSeq /\ o.price = price /\ o.locate = loc
      BY DEF NewOrder
    <3> QED
      BY <3>3, <3>4 DEF side
  <2> HIDE DEF o
  <2>4. phase' = "matching" /\ nextSeq' = nextSeq + 1 /\ order' = o
    BY <2>1 DEF EnterMatching
  <2>5. new \in used' \ DOMAIN orders'
    BY <1>0, <1>3, <2>2 DEF CallInv, Shrinks
  <2>6. used' = used \cup {entry.ref} /\ used' \subseteq Refs /\ entry.ref \notin used
    BY <1>0, <1>2, <1>3
  <2> QED
    BY <1>0, <1>2, <2>2, <2>3, <2>4, <2>5, <2>6, LoggedShrinks
<1>5. CASE ~Owns(loc, old, user)
  <2>1. Shrinks
    BY <1>0, <1>1, <1>5, SameBookShrinks DEF ProcessReplace
  <2>2. phase' = "idle" /\ nextSeq' = nextSeq
    BY <1>1, <1>5 DEF ProcessReplace, Reply
  <2>3. used' = used \cup {entry.ref} /\ used' \subseteq Refs
    BY <1>0, <1>2, <1>3
  <2> QED
    BY <1>0, <1>2, <2>1, <2>2, <2>3, LoggedShrinks
<1> QED
  BY <1>4, <1>5

\* A step that does not write to the log.
LEMMA LogUntouched ==
  ASSUME LogInv, LogInOrder, HomeInv, wal' = wal, written' = written, home' = home,
         mode' = mode \/ (~Running /\ mode' = "astray"), at' \in Nat,
         nextSeq \in Nat, nextSeq' \in Nat, nextSeq <= nextSeq', used' = used,
         faithful' => faithful
  PROVE  LogInv' /\ LogInOrder' /\ HomeInv'
<1>1. LogInv' /\ HomeInv'
  BY DEF LogInv, HomeInv, IsNew, Running
<1>2. ASSUME written < WalEntries, NEW s \in Slots
      PROVE  /\ s >= written => ~IsNew(s)
             /\ IsNew(s) => wal[s].seq <= nextSeq'
  <2>1. wal[s].seq \in Nat
    BY DEF LogInv, EntryOK
  <2> QED
    BY <1>2, <2>1 DEF LogInOrder
<1>3. LogInOrder'
  BY <1>2 DEF LogInOrder, Increasing, IsNew
<1> QED
  BY <1>1, <1>3

LEMMA LoggedMatchKeepsInv ==
  ASSUME WalInv, LoggedMatch
  PROVE  WalInv'
<1>1. /\ MatchStep /\ UNCHANGED recoveryVars /\ phase = "matching"
      /\ nextSeq' = nextSeq /\ used' = used /\ phase' = phase
  BY DEF LoggedMatch, MatchStep
<1>2. /\ SoundBook /\ LogInv /\ CallInv /\ NumbersInv /\ LogInOrder /\ FaithfulInv
      /\ HomeInv /\ AtHome /\ mode # "astray" /\ nextSeq \in Nat /\ at \in Nat
  BY <1>1 DEF WalInv, CallInv, LogInv
<1>3. /\ wal' = wal /\ written' = written /\ mode' = mode /\ at' = at /\ faithful' = faithful
      /\ home' = home
  BY <1>1 DEF recoveryVars, logVars, restartVars
<1>4. mode # "loading" /\ order \in Order /\ order.price \in Prices
  BY <1>2, <1>1 DEF CallInv
<1>5. /\ Shrinks /\ order' \in Order /\ order'.ref = order.ref /\ order'.seq = order.seq
      /\ order'.price = order.price /\ order'.locate = order.locate
  BY <1>2, <1>1, <1>4, MatchStepShrinks
<1>6. LogInv' /\ LogInOrder' /\ HomeInv'
  BY <1>2, <1>1, <1>3, LogUntouched
<1>7. CallInv'
  BY <1>2, <1>1, <1>3, <1>4, <1>5 DEF CallInv, Shrinks
<1>8. NumbersInv'
  BY <1>2, <1>1, <1>3, <1>5 DEF NumbersInv, Shrinks, Running
<1>9. FaithfulInv'
  BY <1>2, <1>1, <1>3, <1>5 DEF FaithfulInv, Shrinks, IsNew
<1>10. LoadInv' /\ AtHome'
  BY <1>2, <1>1, <1>3, <1>4, <1>5 DEF LoadInv, AtHome, Shrinks
<1> QED
  BY <1>2, <1>3, <1>5, <1>6, <1>7, <1>8, <1>9, <1>10 DEF WalInv, Shrinks

\* What is left of an order is linked at the tail of its level, behind older ones.
LEMMA RestOfCall ==
  ASSUME SoundBook, CallInv, phase = "matching", MatchingDone, order.rem > 0,
         poolUsed < PoolSize, Rest(order)
  PROVE  /\ SoundBook'
         /\ InSequence /\ (\A r \in DOMAIN orders : orders[r].seq < order.seq) => InSequence'
         /\ DOMAIN orders' = DOMAIN orders \cup {order.ref}
         /\ orders'[order.ref] = order
         /\ \A r \in DOMAIN orders : orders'[r] = orders[r]
<1>1. /\ order \in Order /\ order.price \in Prices /\ order.ref \notin DOMAIN orders
      /\ ~ \E l \in Levels : \E i \in DOMAIN queue[l] : MayTrade(l, i)
  BY DEF CallInv, MatchingDone
<1>2. \A r \in DOMAIN orders :
        /\ orders[r].locate = order.locate /\ orders[r].side = Opposite(order.side)
        /\ Crosses(order.side, order.price, orders[r].price)
        => orders[r].user = order.user
  BY <1>1, NothingCrossesWhenDone
<1> QED
  BY <1>1, <1>2, RestKeepsSound

LEMMA LoggedSettleKeepsInv ==
  ASSUME WalInv, LoggedSettle
  PROVE  WalInv'
<1>0. /\ SoundBook /\ LogInv /\ CallInv /\ NumbersInv /\ LogInOrder /\ FaithfulInv /\ Running
      /\ HomeInv /\ AtHome /\ nextSeq \in Nat /\ at \in Nat
  BY DEF WalInv, CallInv, LogInv, LoggedSettle, Running
<1>1. /\ Settle /\ phase = "matching" /\ (faithful' => faithful)
      /\ wal' = wal /\ written' = written /\ mode' = mode /\ at' = at /\ home' = home
  BY DEF LoggedSettle, Settle, logVars, restartVars
<1>2. /\ MatchingDone /\ nextSeq' = nextSeq /\ used' = used /\ phase' = "idle"
      /\ \/ UNCHANGED book
         \/ order.rem > 0 /\ poolUsed < PoolSize /\ Rest(order)
  BY <1>1 DEF Settle, SettleFilled, SettleIOC, SettleFOK, SettleRest, Finish
<1>3. LogInv' /\ LogInOrder' /\ HomeInv' /\ Running'
  BY <1>0, <1>1, <1>2, LogUntouched DEF Running
<1>4. order.seq < nextSeq /\ (\A r \in DOMAIN orders : orders[r].seq < order.seq)
  BY <1>0, <1>1 DEF NumbersInv
<1>5. /\ SoundBook' /\ (InSequence => InSequence')
      /\ DOMAIN orders' \subseteq used
      /\ \A r \in DOMAIN orders' : orders'[r].seq < nextSeq /\ orders'[r].locate = home[r]
  <2>0. /\ DOMAIN orders \subseteq used /\ order.ref \in used
        /\ \A r \in DOMAIN orders : orders[r].seq < nextSeq /\ orders[r].locate = home[r]
        /\ order.locate = home[order.ref]
    BY <1>0, <1>1 DEF CallInv, NumbersInv, AtHome, Running
  <2>1. CASE UNCHANGED book
    <3>1. Shrinks /\ orders' = orders
      BY <1>0, <2>1, SameBookShrinks DEF book
    <3> QED
      BY <2>0, <3>1 DEF Shrinks
  <2>2. CASE order.rem > 0 /\ poolUsed < PoolSize /\ Rest(order)
    <3>1. /\ SoundBook' /\ (InSequence => InSequence')
          /\ DOMAIN orders' = DOMAIN orders \cup {order.ref}
          /\ orders'[order.ref] = order
          /\ \A r \in DOMAIN orders : orders'[r] = orders[r]
      BY <1>0, <1>1, <1>2, <1>4, <2>2, RestOfCall
    <3> QED
      BY <1>4, <2>0, <3>1
  <2> QED
    BY <1>2, <2>1, <2>2
<1>6. CallInv' /\ AtHome'
  BY <1>0, <1>1, <1>2, <1>5 DEF CallInv, AtHome
<1>7. NumbersInv'
  BY <1>2, <1>5 DEF NumbersInv
<1>8. faithful' => InSequence'
  BY <1>0, <1>1, <1>5 DEF FaithfulInv
<1> QED
  BY <1>3, <1>5, <1>6, <1>7, <1>8, InService, PTL
-----------------------------------------------------------------------------
(* Replay.                                                                 *)

LEMMA SeqAfterIsAbove ==
  ASSUME NEW seq \in Nat, nextSeq \in Nat
  PROVE  SeqAfter(seq) \in Nat /\ seq < SeqAfter(seq) /\ nextSeq <= SeqAfter(seq)
BY DEF SeqAfter

LEMMA DueFacts ==
  ASSUME LogInv, NEW type, NEW e \in Due(type)
  PROVE  /\ mode = "replaying" /\ phase = "idle"
         /\ at \in Slots /\ e = wal[at] /\ e.type = type
         /\ EntryOK(e, used) /\ e.seq \in Nat
<1>1. mode = "replaying" /\ phase = "idle" /\ at \in Slots /\ e = wal[at] /\ e.type = type
  BY DEF Due
<1> QED
  BY <1>1 DEF LogInv, EntryOK

\* An entry that takes from the book, or does nothing.
LEMMA ReplayShrinks ==
  ASSUME WalInv, mode = "replaying", phase = "idle", NEW seq \in Nat, Replayed(seq), Shrinks,
         mode' = mode
  PROVE  WalInv'
<1>0. /\ LogInv /\ CallInv /\ NumbersInv /\ LogInOrder /\ FaithfulInv /\ HomeInv /\ AtHome
      /\ SoundBook /\ nextSeq \in Nat /\ at \in Nat
  BY DEF WalInv, CallInv, LogInv
<1>1. /\ at' = at + 1 /\ nextSeq' = SeqAfter(seq) /\ used' = used /\ phase' = "idle"
      /\ wal' = wal /\ written' = written /\ mode' = "replaying" /\ faithful' = faithful
      /\ home' = home
  BY DEF Replayed, logVars
<1>2. nextSeq' \in Nat /\ nextSeq <= nextSeq' /\ at' \in Nat
  BY <1>0, <1>1, SeqAfterIsAbove
<1>3. LogInv' /\ LogInOrder' /\ HomeInv'
  BY <1>0, <1>1, <1>2, LogUntouched
<1>4. CallInv' /\ AtHome'
  BY <1>0, <1>1, <1>2 DEF CallInv, AtHome, Shrinks
<1>5. NumbersInv'
  <2>1. \A r \in DOMAIN orders : orders[r].seq \in Nat /\ orders[r].seq < nextSeq
    BY <1>0 DEF SoundBook, BookTypeOK, Order, NumbersInv
  <2>2. \A r \in DOMAIN orders' : orders'[r].seq < nextSeq'
    BY <1>0, <1>2, <2>1 DEF Shrinks
  <2> QED
    BY <1>1, <2>2 DEF NumbersInv
<1>6. FaithfulInv'
  <2>1. \A s \in Slots : s >= at' => s >= at
    BY <1>0, <1>1, SlotFacts
  <2> QED
    BY <1>0, <1>1, <2>1 DEF FaithfulInv, Shrinks, IsNew
<1>7. LoadInv'
  BY <1>1 DEF LoadInv
<1> QED
  BY <1>1, <1>3, <1>4, <1>5, <1>6, <1>7 DEF WalInv, Shrinks

\* A replay strays only by an entry with another locate than the one its order was
\* logged with.
LEMMA StrayingKeepsInv ==
  ASSUME WalInv, NEW type \in {"CANCEL", "SHARES", "REPLACE"}, NEW e \in Due(type),
         e.ref \in DOMAIN orders, Misrouted(e), Replayed(e.seq), mode' = "astray"
  PROVE  WalInv'
<1>1. mode = "replaying" /\ phase = "idle" /\ LogInv
  BY DEF Due, WalInv
<1>2. /\ LogInOrder /\ HomeInv /\ AtHome /\ nextSeq \in Nat /\ at \in Nat
  BY <1>1 DEF WalInv, CallInv, LogInv
<1>3. at \in Slots /\ e = wal[at] /\ e.type = type /\ e.seq \in Nat
  BY <1>1, DueFacts
<1>4. /\ at' = at + 1 /\ nextSeq' = SeqAfter(e.seq) /\ used' = used /\ phase' = "idle"
      /\ wal' = wal /\ written' = written /\ faithful' = faithful /\ home' = home
  BY <1>1 DEF Replayed, logVars
<1>5. nextSeq' \in Nat /\ nextSeq <= nextSeq' /\ at' \in Nat
  BY <1>2, <1>3, <1>4, SeqAfterIsAbove
<1>6. LogInv' /\ LogInOrder' /\ HomeInv'
  BY <1>1, <1>2, <1>4, <1>5, LogUntouched DEF Running
<1>7. ~WellAddressed'
  <2>1. e # Blank
    BY <1>3 DEF Blank, Entry
  <2>2. e.locate # home[e.ref]
    BY <1>2 DEF AtHome, Misrouted
  <2> QED
    BY <1>3, <1>4, <2>1, <2>2 DEF WellAddressed
<1> QED
  BY <1>4, <1>6, <1>7 DEF WalInv

LEMMA ReplayRemoveOutcome ==
  ASSUME SoundBook, NEW e, e.ref \in DOMAIN orders, ReplayRemove(e)
  PROVE  (Shrinks /\ mode' = mode) \/ (Misrouted(e) /\ mode' = "astray")
<1>1. CASE ~Misrouted(e) /\ RemoveOrder(e.ref) /\ UNCHANGED mode
  BY <1>1, RemoveShrinks
<1>2. CASE UNCHANGED <<book, mode>>
  BY <1>2, SameBookShrinks
<1>3. CASE Misrouted(e) /\ RemoveAstray(e)
  BY <1>3 DEF RemoveAstray
<1> QED
  BY <1>1, <1>2, <1>3 DEF ReplayRemove

LEMMA ReplayNothingKeepsInv ==
  ASSUME WalInv, ReplayBlank \/ ReplayKnown
  PROVE  WalInv'
<1>1. mode = "replaying" /\ phase = "idle"
  BY DEF ReplayBlank, ReplayKnown, Due
<1>2. SoundBook /\ LogInv
  BY <1>1 DEF WalInv
<1>3. UNCHANGED <<book, mode>> /\ \E seq \in Nat : Replayed(seq)
  <2>1. CASE ReplayBlank
    BY <1>2, <2>1, DueFacts DEF ReplayBlank
  <2>2. CASE ReplayKnown
    BY <1>2, <2>2, DueFacts DEF ReplayKnown
  <2> QED
    BY <2>1, <2>2
<1> QED
  BY <1>2, <1>1, <1>3, SameBookShrinks, ReplayShrinks

LEMMA ReplayCancelKeepsInv ==
  ASSUME WalInv, ReplayCancel \/ ReplayReplace
  PROVE  WalInv'
<1> DEFINE Carried(e) == /\ IF Cancels(e) THEN ReplayRemove(e) ELSE UNCHANGED <<book, mode>>
                         /\ Replayed(e.seq)
<1>1. PICK type \in {"CANCEL", "REPLACE"} : \E e \in Due(type) : Carried(e)
  BY DEF ReplayCancel, ReplayReplace
<1>2. PICK e \in Due(type) : Carried(e)
  BY <1>1
<1>3. SoundBook /\ LogInv
  BY <1>2 DEF Due, WalInv
<1>4. mode = "replaying" /\ phase = "idle" /\ e.seq \in Nat
  BY <1>3, DueFacts
<1>5. CASE Cancels(e)
  <2>1. e.ref \in DOMAIN orders
    BY <1>5, OwnedIsThere DEF Cancels
  <2>2. (Shrinks /\ mode' = mode) \/ (Misrouted(e) /\ mode' = "astray")
    BY <1>3, <1>2, <1>5, <2>1, ReplayRemoveOutcome
  <2> QED
    BY <1>2, <1>4, <2>1, <2>2, ReplayShrinks, StrayingKeepsInv
<1>6. CASE ~Cancels(e)
  BY <1>3, <1>2, <1>4, <1>6, SameBookShrinks, ReplayShrinks
<1> QED
  BY <1>5, <1>6

LEMMA ReplaySharesKeepsInv ==
  ASSUME WalInv, ReplayShares
  PROVE  WalInv'
<1>1. PICK e \in Due("SHARES") :
        /\ IF e.ref \notin DOMAIN orders THEN UNCHANGED <<book, mode>>
           ELSE IF CancelsAll(e.ref, e.qty) THEN ReplayRemove(e)
           ELSE ReplayReduce(e)
        /\ Replayed(e.seq)
  BY DEF ReplayShares
<1>2. SoundBook /\ LogInv
  BY <1>1 DEF Due, WalInv
<1>3. mode = "replaying" /\ phase = "idle" /\ e.seq \in Nat /\ e.qty \in Nat
  BY <1>2, DueFacts DEF EntryOK
<1>4. CASE e.ref \notin DOMAIN orders
  BY <1>2, <1>1, <1>3, <1>4, SameBookShrinks, ReplayShrinks
<1>5. CASE e.ref \in DOMAIN orders /\ CancelsAll(e.ref, e.qty)
  <2>1. (Shrinks /\ mode' = mode) \/ (Misrouted(e) /\ mode' = "astray")
    BY <1>2, <1>1, <1>5, ReplayRemoveOutcome
  <2> QED
    BY <1>1, <1>3, <1>5, <2>1, ReplayShrinks, StrayingKeepsInv
<1>6. CASE e.ref \in DOMAIN orders /\ ~CancelsAll(e.ref, e.qty)
  <2> DEFINE o == orders[e.ref]
  <2>1. /\ orders' = [orders EXCEPT ![e.ref].rem = (@ - 2 * e.qty) % Uint32,
                                   ![e.ref].filled = @ + e.qty]
        /\ total' = [total EXCEPT ![LevelOf(e)] = @ - e.qty]
        /\ mode' = IF queue[LevelOf(e)] = <<>> THEN "astray" ELSE mode
        /\ queue' = queue /\ poolUsed' = poolUsed
    BY <1>1, <1>6 DEF ReplayReduce
  <2>2. o \in Order /\ o.rem \in Nat /\ o.filled \in Nat /\ Level(o) \in Levels
    BY <1>2, <1>6, LevelTyped DEF SoundBook, BookTypeOK, Order
  <2>3. (o.rem - 2 * e.qty) % Uint32 \in Nat /\ o.filled + e.qty \in Nat
    <3>1. \A x \in Int : x % Uint32 \in Nat
      BY SlotFacts, EuclidInt
    <3>2. o.rem - 2 * e.qty \in Int
      BY <1>3, <2>2
    <3> QED
      BY <1>3, <2>2, <3>1, <3>2
  <2>4. /\ DOMAIN orders' = DOMAIN orders
        /\ \A r \in DOMAIN orders : r # e.ref => orders'[r] = orders[r]
        /\ orders'[e.ref] = [o EXCEPT !.rem = (o.rem - 2 * e.qty) % Uint32,
                                      !.filled = o.filled + e.qty]
    BY <1>6, <2>1
  <2>5. total' \in [Levels -> Int]
    <3>1. total \in [Levels -> Int] /\ \A l \in Levels : total[l] - e.qty \in Int
      BY <1>2, <1>3 DEF SoundBook, BookTypeOK
    <3> QED
      BY <2>1, <3>1
  <2>6. ASSUME NEW r \in DOMAIN orders
        PROVE  /\ orders'[r] \in Order
               /\ orders'[r].ref = orders[r].ref
               /\ orders'[r].user = orders[r].user
               /\ orders'[r].locate = orders[r].locate
               /\ orders'[r].side = orders[r].side
               /\ orders'[r].price = orders[r].price
               /\ orders'[r].seq = orders[r].seq
    <3>1. CASE r = e.ref
      BY <2>2, <2>3, <2>4, <3>1 DEF Order
    <3>2. CASE r # e.ref
      BY <1>2, <2>4, <3>2 DEF SoundBook, BookTypeOK
    <3> QED
      BY <3>1, <3>2
  <2>7. SoundBook' /\ (InSequence => InSequence')
    BY <1>2, <2>1, <2>4, <2>5, <2>6, QuantitiesKeepSound
  <2>8. Shrinks
    BY <2>4, <2>6, <2>7 DEF Shrinks
  <2>9. ASSUME mode' # mode PROVE Misrouted(e) /\ mode' = "astray"
    <3>1. queue[Level(o)] # <<>>
      BY <1>2, <1>6 DEF SoundBook, ViewsAgree
    <3>2. queue[LevelOf(e)] = <<>> /\ mode' = "astray"
      BY <2>1, <2>9
    <3>3. Level(o) # LevelOf(e)
      BY <3>1, <3>2
    <3> QED
      BY <3>2, <3>3 DEF Level, LevelOf, Misrouted
  <2> QED
    BY <1>1, <1>3, <1>6, <2>8, <2>9, ReplayShrinks, StrayingKeepsInv
<1> QED
  BY <1>4, <1>5, <1>6

LEMMA ReplayNewKeepsInv ==
  ASSUME WalInv, ReplayNew
  PROVE  WalInv'
<1>1. PICK e \in Due("NEW") :
        /\ e.ref \notin DOMAIN orders
        /\ phase' = "matching"
        /\ order' = [NewOrder(e.ref, e.user, e.locate, e.side, e.price, e.qty) EXCEPT !.seq = e.seq]
        /\ UNCHANGED <<book, nextSeq, used, recoveryVars>>
  BY DEF ReplayNew
<1>2. /\ SoundBook /\ LogInv /\ CallInv /\ NumbersInv /\ LogInOrder /\ FaithfulInv
      /\ HomeInv /\ AtHome /\ nextSeq \in Nat /\ at \in Nat /\ used \subseteq Refs
  BY <1>1 DEF Due, WalInv, CallInv, LogInv
<1>3. /\ mode = "replaying" /\ at \in Slots /\ e = wal[at] /\ e.type = "NEW" /\ e.seq \in Nat
      /\ e.ref \in used /\ e.ref \in Refs /\ e.user \in Users /\ e.locate \in Locates
      /\ e.side \in Sides /\ e.price \in Prices /\ e.qty \in Nat
  BY <1>2, DueFacts DEF EntryOK
<1>4. /\ wal' = wal /\ written' = written /\ mode' = mode /\ at' = at /\ faithful' = faithful
      /\ nextSeq' = nextSeq /\ used' = used /\ orders' = orders /\ home' = home
  BY <1>1 DEF recoveryVars, logVars, restartVars, book
<1>5. /\ order' \in Order /\ order'.ref = e.ref /\ order'.seq = e.seq /\ order'.price \in Prices
      /\ order'.locate = e.locate
  BY <1>2, <1>1, <1>3 DEF NewOrder, Order
<1>6. Shrinks
  BY <1>2, <1>1, SameBookShrinks
<1>7. LogInv' /\ LogInOrder' /\ HomeInv'
  BY <1>2, <1>4, LogUntouched
<1>8. CallInv'
  BY <1>2, <1>1, <1>3, <1>4, <1>5 DEF CallInv
<1>9. NumbersInv'
  BY <1>2, <1>3, <1>4 DEF NumbersInv, Running
<1>10. FaithfulInv'
  BY <1>2, <1>3, <1>4, <1>5, <1>6 DEF FaithfulInv, Shrinks, IsNew
<1>11. LoadInv' /\ AtHome'
  BY <1>2, <1>3, <1>4, <1>5 DEF LoadInv, AtHome, HomeInv, IsNew
<1> QED
  BY <1>3, <1>4, <1>6, <1>7, <1>8, <1>9, <1>10, <1>11 DEF WalInv, Shrinks

LEMMA ReplaySettleKeepsInv ==
  ASSUME WalInv, ReplaySettle
  PROVE  WalInv'
<1>0. /\ SoundBook /\ LogInv /\ CallInv /\ NumbersInv /\ LogInOrder /\ FaithfulInv
      /\ HomeInv /\ AtHome /\ nextSeq \in Nat /\ at \in Nat
  BY DEF ReplaySettle, WalInv, CallInv, LogInv
<1>1. /\ mode = "replaying" /\ phase = "matching" /\ MatchingDone
      /\ IF order.rem > 0 /\ poolUsed < PoolSize THEN Rest(order) ELSE UNCHANGED book
      /\ phase' = "idle" /\ at' = at + 1 /\ nextSeq' = SeqAfter(order.seq)
      /\ used' = used /\ wal' = wal /\ written' = written /\ mode' = mode /\ faithful' = faithful
      /\ home' = home
  BY DEF ReplaySettle, MatchingDone, logVars
<1>2. order \in Order /\ order.seq \in Nat /\ order.ref \in used
  BY <1>0, <1>1 DEF CallInv, Order
<1>3. nextSeq' \in Nat /\ order.seq < nextSeq' /\ nextSeq <= nextSeq'
  BY <1>0, <1>1, <1>2, SeqAfterIsAbove
<1>4. LogInv' /\ LogInOrder' /\ HomeInv'
  <2>1. at' \in Nat
    BY <1>0, <1>1
  <2> QED
    BY <1>0, <1>1, <1>3, <2>1, LogUntouched
\* What the book has afterwards is what it had, and the order perhaps.
<1>5. /\ SoundBook'
      /\ InSequence /\ (\A r \in DOMAIN orders : orders[r].seq < order.seq) => InSequence'
      /\ \A r \in DOMAIN orders' : \/ /\ r \in DOMAIN orders /\ orders'[r].seq = orders[r].seq
                                      /\ orders'[r].locate = orders[r].locate
                                   \/ r = order.ref /\ orders'[r] = order
  <2>1. CASE order.rem > 0 /\ poolUsed < PoolSize
    <3>1. /\ SoundBook'
          /\ InSequence /\ (\A r \in DOMAIN orders : orders[r].seq < order.seq) => InSequence'
          /\ DOMAIN orders' = DOMAIN orders \cup {order.ref}
          /\ orders'[order.ref] = order
          /\ \A r \in DOMAIN orders : orders'[r] = orders[r]
      BY <1>0, <1>1, <2>1, RestOfCall
    <3> QED
      BY <1>2, <3>1
  <2>2. CASE ~(order.rem > 0 /\ poolUsed < PoolSize)
    <3>1. Shrinks
      BY <1>0, <1>1, <2>2, SameBookShrinks
    <3> QED
      BY <3>1 DEF Shrinks
  <2> QED
    BY <2>1, <2>2
<1>6. CallInv' /\ AtHome'
  BY <1>0, <1>1, <1>2, <1>3, <1>5 DEF CallInv, AtHome
<1>7. NumbersInv'
  <2>1. \A r \in DOMAIN orders : orders[r].seq \in Nat /\ orders[r].seq < nextSeq
    BY <1>0, <1>1 DEF SoundBook, BookTypeOK, Order, NumbersInv
  <2>2. \A r \in DOMAIN orders' : orders'[r].seq < nextSeq'
    BY <1>0, <1>3, <1>5, <2>1
  <2> QED
    BY <1>1, <2>2 DEF NumbersInv
<1>8. FaithfulInv'
  <2> SUFFICES ASSUME faithful
               PROVE  /\ InSequence'
                      /\ \A s \in Slots : s >= at' /\ IsNew(s)' =>
                           \A r \in DOMAIN orders' : orders'[r].seq < wal'[s].seq
    BY <1>1 DEF FaithfulInv
  <2>1. /\ at \in Slots /\ IsNew(at) /\ order.seq = wal[at].seq /\ InSequence
        /\ \A r \in DOMAIN orders : orders[r].seq < wal[at].seq
    BY <1>0, <1>1, SlotFacts DEF FaithfulInv
  <2>2. InSequence'
    BY <1>5, <2>1
  <2>3. Increasing
    <3>1. written = WalEntries
      BY <1>0, <1>1 DEF LogInv, Running
    <3> QED
      BY <1>0, <3>1, SlotFacts DEF LogInOrder
  <2>4. ASSUME NEW s \in Slots, s >= at', IsNew(s)', NEW r \in DOMAIN orders'
        PROVE  orders'[r].seq < wal'[s].seq
    <3>1. IsNew(s) /\ at < s /\ s >= at /\ wal'[s] = wal[s]
      BY <1>0, <1>1, <2>4, SlotFacts DEF IsNew
    <3>2. wal[at].seq < wal[s].seq
      BY <2>1, <2>3, <3>1 DEF Increasing
    <3>3. \A q \in DOMAIN orders : orders[q].seq < wal[s].seq
      BY <1>0, <1>1, <3>1 DEF FaithfulInv
    <3> QED
      BY <1>5, <2>1, <3>1, <3>2, <3>3
  <2> QED
    BY <2>2, <2>4
<1>9. LoadInv'
  BY <1>1 DEF LoadInv
<1> QED
  BY <1>1, <1>4, <1>5, <1>6, <1>7, <1>8, <1>9 DEF WalInv

LEMMA ReplayDoneKeepsInv ==
  ASSUME WalInv, ReplayDone
  PROVE  WalInv'
<1>0. /\ SoundBook /\ LogInv /\ CallInv /\ NumbersInv /\ LogInOrder /\ FaithfulInv
      /\ HomeInv /\ AtHome /\ nextSeq \in Nat
  BY DEF ReplayDone, WalInv, CallInv
<1>1. /\ mode = "replaying" /\ phase = "idle" /\ mode' = "running" /\ at' = 0 /\ UNCHANGED book
      /\ nextSeq' = nextSeq /\ used' = used /\ phase' = phase
      /\ wal' = wal /\ written' = written /\ faithful' = faithful /\ home' = home
  BY DEF ReplayDone, BackInService, logVars
<1>2. written = WalEntries
  BY <1>0, <1>1 DEF LogInv, Running
<1>3. Shrinks
  BY <1>0, <1>1, SameBookShrinks
<1>4. LogInv' /\ HomeInv'
  BY <1>0, <1>1 DEF LogInv, HomeInv, IsNew, Running
<1>5. LogInOrder'
  BY <1>0, <1>1, <1>2, SlotFacts DEF LogInOrder, Increasing, IsNew
<1>6. CallInv' /\ NumbersInv' /\ AtHome'
  BY <1>0, <1>1, <1>3 DEF CallInv, NumbersInv, AtHome, Shrinks
<1>7. SoundBook' /\ (faithful' => InSequence')
  BY <1>0, <1>1, <1>3 DEF Shrinks, FaithfulInv
<1>8. Running'
  BY <1>1 DEF Running
<1> QED
  BY <1>4, <1>5, <1>6, <1>7, <1>8, InService, PTL
-----------------------------------------------------------------------------
(* Crashes and shutdowns.                                                  *)

LEMMA FreshKeepsInv ==
  ASSUME WalInv, FreshProcess, mode' \in {"loading", "replaying"}, faithful' => StillFaithful,
         mode' = "loading" =>
           /\ BookSoundOf(lost'.orders, lost'.queue) /\ DOMAIN lost'.orders \subseteq used
           /\ \A r \in DOMAIN lost'.orders : lost'.orders[r].locate = home[r]
           /\ IsSnapshotOf(file', lost'.orders, lost'.queue)
           /\ faithful' => InSequenceOf(lost'.orders, lost'.queue)
  PROVE  WalInv'
<1>0. /\ LogInv /\ LogInOrder /\ HomeInv
  BY DEF WalInv
<1>1. /\ orders' = [r \in {} |-> NoOrder] /\ queue' = [l \in Levels |-> <<>>]
      /\ total' = [l \in Levels |-> 0] /\ poolUsed' = 0
      /\ nextSeq' = 1 /\ phase' = "idle" /\ written' = WalEntries /\ at' = 0
      /\ used' = used /\ wal' = wal /\ home' = home
  BY DEF FreshProcess
<1>2. SoundBook' /\ InSequence' /\ DOMAIN orders' = {} /\ \A l \in Levels : queue'[l] = <<>>
  <2>1. (/\ orders = [r \in {} |-> NoOrder] /\ queue = [l \in Levels |-> <<>>]
         /\ total = [l \in Levels |-> 0] /\ poolUsed = 0)'
    BY <1>1
  <2>2. SoundBook' /\ InSequence'
    BY <2>1, EmptyBookSound, PTL
  <2> QED
    BY <1>1, <2>2
<1>3. LogInv' /\ HomeInv'
  BY <1>0, <1>1, SlotFacts DEF LogInv, HomeInv, IsNew, Running
<1>4. CallInv' /\ AtHome'
  BY <1>0, <1>1, <1>2 DEF CallInv, AtHome, HomeInv
<1>5. NumbersInv'
  BY <1>1, <1>2 DEF NumbersInv, Running
<1>6. LogInOrder'
  <2>1. ~(written' < WalEntries)
    BY <1>1, SlotFacts
  <2>2. ASSUME faithful' PROVE Increasing'
    BY <1>0, <1>1, <2>2 DEF StillFaithful, LogInOrder, Increasing, IsNew
  <2> QED
    BY <2>1, <2>2 DEF LogInOrder
<1>7. FaithfulInv'
  BY <1>1, <1>2 DEF FaithfulInv
<1>8. ASSUME mode' = "loading" PROVE LoadedSoFar'
  <2>1. file' \in Seq(Order) /\ Len(file') \in Nat
    BY <1>8 DEF IsSnapshotOf
  <2>2. 1..at' = {} /\ at' \in 0..Len(file')
    BY <1>1, <2>1
  <2>3. \A l \in Levels : DOMAIN queue'[l] = {}
    BY <1>2
  <2> QED
    BY <1>1, <1>2, <2>2, <2>3 DEF LoadedSoFar
<1>9. LoadInv'
  BY <1>1, <1>8 DEF LoadInv
<1> QED
  BY <1>2, <1>3, <1>4, <1>5, <1>6, <1>7, <1>9 DEF WalInv

LEMMA CrashKeepsInv ==
  ASSUME WalInv, Crash
  PROVE  WalInv'
<1>1. /\ FreshProcess
      /\ mode' = IF mode = "loading" THEN "loading" ELSE "replaying"
      /\ lost' = IF Running THEN Book ELSE lost
      /\ faithful' = StillFaithful /\ file' = file
  BY DEF Crash
<1>2. ASSUME mode' = "loading"
      PROVE  /\ BookSoundOf(lost'.orders, lost'.queue) /\ DOMAIN lost'.orders \subseteq used
             /\ \A r \in DOMAIN lost'.orders : lost'.orders[r].locate = home[r]
             /\ IsSnapshotOf(file', lost'.orders, lost'.queue)
             /\ faithful' => InSequenceOf(lost'.orders, lost'.queue)
  <2>1. mode = "loading" /\ lost' = lost
    BY <1>1, <1>2 DEF Running
  <2>2. /\ BookSoundOf(lost.orders, lost.queue) /\ DOMAIN lost.orders \subseteq used
        /\ \A r \in DOMAIN lost.orders : lost.orders[r].locate = home[r]
        /\ IsSnapshotOf(file, lost.orders, lost.queue)
        /\ faithful => InSequenceOf(lost.orders, lost.queue)
    BY <2>1 DEF WalInv, LoadInv
  <2>3. faithful' => faithful
    BY <1>1 DEF StillFaithful
  <2> QED
    BY <1>1, <2>1, <2>2, <2>3
<1> QED
  BY <1>1, <1>2, FreshKeepsInv
-----------------------------------------------------------------------------
(* Snapshots.                                                              *)

LEMMA PlaceFacts ==
  ASSUME SoundBook, NEW r \in DOMAIN orders
  PROVE  /\ Level(orders[r]) \in Levels
         /\ Place(r) \in DOMAIN queue[Level(orders[r])] /\ Place(r) \in Nat
         /\ queue[Level(orders[r])][Place(r)] = r
         /\ \A i \in DOMAIN queue[Level(orders[r])] :
              queue[Level(orders[r])][i] = r => i = Place(r)
<1> DEFINE l == Level(orders[r])
<1>1. l \in Levels /\ queue[l] \in Seq(Refs)
  BY LevelTyped DEF SoundBook, BookTypeOK
<1>2. \E i \in DOMAIN queue[l] : queue[l][i] = r
  BY DEF SoundBook, ViewsAgree
<1>3. Place(r) \in DOMAIN queue[l] /\ queue[l][Place(r)] = r
  BY <1>2 DEF Place
<1>4. DOMAIN queue[l] \subseteq Nat
  BY <1>1
<1> QED
  BY <1>1, <1>3, <1>4 DEF SoundBook, ViewsAgree

LEMMA BeforeOrders ==
  ASSUME SoundBook
  PROVE  StrictlyOrders({p \in InSnapshot \X InSnapshot : Before(p[1], p[2])}, InSnapshot)
<1> DEFINE side(r) == orders[r].side
           price(r) == orders[r].price
           SameLevel(r, s) == side(r) = side(s) /\ price(r) = price(s)
<1>1. ASSUME NEW r \in InSnapshot
      PROVE  /\ r \in DOMAIN orders /\ side(r) \in Sides /\ price(r) \in Nat
             /\ orders[r].locate = SnapshotLocate /\ Place(r) \in Nat
  BY PlaceFacts, EngineConstants DEF InSnapshot, SoundBook, BookTypeOK, Order
<1>2. ASSUME NEW r \in InSnapshot, NEW s \in InSnapshot
      PROVE  /\ Level(orders[r]) = Level(orders[s]) <=> SameLevel(r, s)
             /\ SameLevel(r, s) /\ Place(r) = Place(s) => r = s
  <2>1. Level(orders[r]) = Level(orders[s]) <=> SameLevel(r, s)
    BY <1>1 DEF Level
  <2>2. ASSUME SameLevel(r, s), Place(r) = Place(s) PROVE r = s
    BY <1>1, <2>1, <2>2, PlaceFacts
  <2> QED
    BY <2>1, <2>2
<1>3. ASSUME NEW r \in InSnapshot, NEW s \in InSnapshot
      PROVE  Before(r, s) <=> \/ side(r) = "BUY" /\ side(s) = "SELL"
                              \/ /\ side(r) = side(s)
                                 /\ IF side(r) = "BUY" THEN price(r) > price(s)
                                                       ELSE price(r) < price(s)
                              \/ SameLevel(r, s) /\ Place(r) < Place(s)
  BY <1>2 DEF Before, Better
<1> HIDE DEF side, price
<1>4. ASSUME NEW r \in InSnapshot PROVE ~Before(r, r)
  BY <1>1, <1>3
<1>5. ASSUME NEW r \in InSnapshot, NEW s \in InSnapshot, NEW t \in InSnapshot,
             Before(r, s), Before(s, t)
      PROVE  Before(r, t)
  BY <1>1, <1>3, <1>5 DEF Sides
<1>6. ASSUME NEW r \in InSnapshot, NEW s \in InSnapshot, r # s
      PROVE  Before(r, s) \/ Before(s, r)
  BY <1>1, <1>2, <1>3, <1>6 DEF Sides
<1> QED
  BY <1>4, <1>5, <1>6 DEF StrictlyOrders

LEMMA SavedIsSnapshot ==
  ASSUME SoundBook
  PROVE  IsSnapshotOf(Saved, orders, queue)
<1> DEFINE n == Cardinality(InSnapshot)
           SortedRefs(q) == \A i, j \in DOMAIN q : i < j => Before(q[i], q[j])
           refs == CHOOSE q \in [1..n -> InSnapshot] : SortedRefs(q)
<1>1. /\ IsFiniteSet(InSnapshot) /\ n \in Nat /\ n <= PoolSize
  <2>1. IsFiniteSet(DOMAIN orders)
    BY EngineConstants, FS_Subset DEF SoundBook, BookTypeOK
  <2>2. InSnapshot \subseteq DOMAIN orders
    BY DEF InSnapshot
  <2>3. IsFiniteSet(InSnapshot) /\ n \in Nat /\ Cardinality(DOMAIN orders) \in Nat
        /\ n <= Cardinality(DOMAIN orders)
    BY <2>1, <2>2, FS_Subset, FS_CardinalityType
  <2> QED
    BY <2>3, EngineConstants DEF SoundBook, ViewsAgree
<1> DEFINE R == {p \in InSnapshot \X InSnapshot : Before(p[1], p[2])}
<1>2. \E q \in [1..n -> InSnapshot] : SortedRefs(q)
  <2>1. PICK q \in [1..n -> InSnapshot] : \A i, j \in DOMAIN q : i < j => <<q[i], q[j]>> \in R
    <3>1. StrictlyOrders(R, InSnapshot)
      BY BeforeOrders
    <3> HIDE DEF R
    <3> QED
      BY <1>1, <3>1, SortedEnumeration
  <2> QED
    BY <2>1
<1>3. refs \in [1..n -> InSnapshot] /\ SortedRefs(refs)
  BY <1>2
<1>4. Saved = [i \in DOMAIN refs |-> orders[refs[i]]]
  BY DEF Saved
<1> HIDE DEF refs
<1>5. \A i, j \in 1..n : i < j => refs[i] # refs[j] /\ Before(refs[i], refs[j])
  <2>1. \A r \in InSnapshot : ~Before(r, r)
    <3>1. StrictlyOrders(R, InSnapshot)
      BY BeforeOrders
    <3>2. \A r \in InSnapshot : <<r, r>> \notin R
      BY <3>1 DEF StrictlyOrders
    <3> QED
      BY <3>2
  <2> QED
    BY <1>3, <2>1
<1>6. \A r \in InSnapshot : \E i \in 1..n : refs[i] = r
  <2>1. \A i, j \in 1..n : refs[i] = refs[j] => i = j
    <3> SUFFICES ASSUME NEW i \in 1..n, NEW j \in 1..n, refs[i] = refs[j], i # j PROVE FALSE
      OBVIOUS
    <3>1. i < j \/ j < i
      BY <1>1
    <3> QED
      BY <1>5, <3>1
  <2>2. refs \in Injection(1..n, InSnapshot)
    BY <1>3, <2>1 DEF Injection, IsInjective
  <2>3. Cardinality(1..n) = n
    BY <1>1, FS_Interval
  <2>4. refs \in Surjection(1..n, InSnapshot)
    BY <1>1, <2>2, <2>3, FS_Injection
  <2> QED
    BY <2>4 DEF Surjection
<1>7. \A r \in InSnapshot : /\ r \in DOMAIN orders /\ orders[r] \in Order /\ orders[r].ref = r
                            /\ orders[r].locate = SnapshotLocate
  BY DEF InSnapshot, SoundBook, BookTypeOK
<1>8. /\ Saved \in Seq(Order) /\ Len(Saved) = n /\ DOMAIN Saved = 1..n
      /\ \A i \in 1..n : Saved[i] = orders[refs[i]] /\ Saved[i].ref = refs[i] /\ refs[i] \in InSnapshot
  BY <1>1, <1>3, <1>4, <1>7
<1>9. ASSUME NEW i \in 1..n, NEW j \in 1..n, i < j, NEW l \in Levels,
             NEW h \in DOMAIN queue[l], NEW k \in DOMAIN queue[l],
             queue[l][h] = refs[i], queue[l][k] = refs[j]
      PROVE  h < k
  <2>1. Level(orders[refs[i]]) = l /\ Level(orders[refs[j]]) = l
    BY <1>9 DEF SoundBook, ViewsAgree
  <2>2. refs[i] \in DOMAIN orders /\ refs[j] \in DOMAIN orders /\ Before(refs[i], refs[j])
    BY <1>5, <1>7, <1>8, <1>9
  <2>3. h = Place(refs[i]) /\ k = Place(refs[j])
    BY <1>9, <2>1, <2>2, PlaceFacts
  <2>4. /\ orders[refs[i]].side = orders[refs[j]].side
        /\ orders[refs[i]].price = orders[refs[j]].price /\ orders[refs[i]].price \in Nat
    <3>1. Level(orders[refs[i]]) = Level(orders[refs[j]])
      BY <2>1
    <3>2. orders[refs[i]].price \in Nat
      BY <2>2, EngineConstants DEF SoundBook, BookTypeOK
    <3> QED
      BY <3>1, <3>2 DEF Level
  <2>5. Place(refs[i]) < Place(refs[j])
    BY <2>2, <2>4 DEF Before, Better
  <2> QED
    BY <2>3, <2>5
<1> HIDE DEF n
<1>10. ASSUME NEW r \in DOMAIN orders, orders[r].locate = SnapshotLocate
       PROVE  \E i \in DOMAIN Saved : Saved[i].ref = r
  <2>1. r \in InSnapshot
    BY <1>10 DEF InSnapshot
  <2> QED
    BY <2>1, <1>6, <1>8
<1>11. \A i, j \in DOMAIN Saved : i < j => Saved[i].ref # Saved[j].ref
  BY <1>5, <1>8
<1>12. \A i, j \in DOMAIN Saved : i < j =>
         \A l \in Levels : \A h, k \in DOMAIN queue[l] :
           queue[l][h] = Saved[i].ref /\ queue[l][k] = Saved[j].ref => h < k
  BY <1>8, <1>9
<1>13. Len(Saved) <= PoolSize
  BY <1>1, <1>8
<1>14. \A i \in DOMAIN Saved : /\ Saved[i].ref \in DOMAIN orders /\ Saved[i] = orders[Saved[i].ref]
                              /\ Saved[i].locate = SnapshotLocate
  BY <1>7, <1>8
<1> QED
  BY <1>8, <1>10, <1>11, <1>12, <1>13, <1>14 DEF IsSnapshotOf

LEMMA ShutdownKeepsInv ==
  ASSUME WalInv, Shutdown
  PROVE  WalInv'
<1>0. /\ SoundBook /\ DOMAIN orders \subseteq used /\ FaithfulInv
      /\ \A r \in DOMAIN orders : orders[r].locate = home[r]
  BY DEF Shutdown, WalInv, CallInv, AtHome, Running
<1>1. /\ FreshProcess /\ mode' = "loading" /\ lost' = Book /\ file' = Saved
      /\ faithful' => StillFaithful
  BY DEF Shutdown
<1>2. lost'.orders = orders /\ lost'.queue = queue
  BY <1>1 DEF Book
<1>3. BookSoundOf(orders, queue)
  <2>1. \A l \in Levels : queue[l] \in Seq(Refs)
    BY <1>0 DEF SoundBook, BookTypeOK
  <2> QED
    BY <1>0, <2>1 DEF SoundBook, BookTypeOK, ViewsAgree, Uncrossed, BookSoundOf
<1>4. IsSnapshotOf(Saved, orders, queue)
  BY <1>0, SavedIsSnapshot
<1>5. faithful' => InSequenceOf(orders, queue)
  BY <1>0, <1>1 DEF StillFaithful, FaithfulInv, InSequence, InSequenceOf
<1> QED
  BY <1>0, <1>1, <1>2, <1>3, <1>4, <1>5, FreshKeepsInv

\* The next order of the snapshot belongs right behind those its level has got back.
LEMMA NextIsInPlace ==
  ASSUME SoundBook, BookSoundOf(lost.orders, lost.queue),
         IsSnapshotOf(file, lost.orders, lost.queue), LoadedSoFar, at < Len(file),
         NEW o, o = file[at + 1], NEW l, l = Level(o)
  PROVE  /\ o \in Order /\ o.price \in Prices /\ o.locate = SnapshotLocate
         /\ o.ref \in DOMAIN lost.orders /\ lost.orders[o.ref] = o
         /\ o.ref \notin DOMAIN orders
         /\ l \in Levels
         /\ Len(queue[l]) + 1 \in DOMAIN lost.queue[l]
         /\ lost.queue[l][Len(queue[l]) + 1] = o.ref
<1> DEFINE x == o.ref
           L == lost.queue[l]
           m == Len(queue[l])
<1>1. /\ at \in Nat /\ Len(file) \in Nat /\ file \in Seq(Order) /\ DOMAIN file = 1..Len(file)
      /\ at + 1 \in DOMAIN file /\ 1..at \subseteq DOMAIN file
  BY DEF LoadedSoFar, IsSnapshotOf
<1>2. /\ o \in Order /\ o.locate = SnapshotLocate
      /\ x \in DOMAIN lost.orders /\ lost.orders[x] = o /\ o.price \in Prices
  BY <1>1 DEF IsSnapshotOf, BookSoundOf
<1>3. x \notin DOMAIN orders
  <2> SUFFICES ASSUME NEW j \in 1..at, file[j].ref = x PROVE FALSE
    BY DEF LoadedSoFar
  <2>1. j \in DOMAIN file /\ j < at + 1
    BY <1>1
  <2> QED
    BY <1>1, <2>1 DEF IsSnapshotOf
<1>4. /\ l \in Levels /\ l[1] = SnapshotLocate
      /\ L \in Seq(Refs) /\ queue[l] \in Seq(Refs) /\ m \in Nat
      /\ DOMAIN queue[l] = 1..m /\ DOMAIN L = 1..Len(L) /\ Len(L) \in Nat
  <2>1. l \in Levels /\ l[1] = SnapshotLocate
    BY <1>2 DEF Level, Levels, Order
  <2>2. L \in Seq(Refs) /\ queue[l] \in Seq(Refs)
    BY <2>1 DEF BookSoundOf, SoundBook, BookTypeOK
  <2> QED
    BY <2>1, <2>2
<1>5. PICK p \in DOMAIN L : L[p] = x
  BY <1>2 DEF BookSoundOf
<1>6. \A k \in DOMAIN queue[l] : /\ k \in DOMAIN L /\ queue[l][k] = L[k]
                                 /\ queue[l][k] \in DOMAIN orders
  <2>1. \A k \in DOMAIN queue[l] : k \in DOMAIN L /\ queue[l][k] = L[k]
    BY <1>4 DEF LoadedSoFar
  <2>2. \A k \in DOMAIN queue[l] : queue[l][k] \in DOMAIN orders
    BY <1>4 DEF SoundBook, ViewsAgree
  <2> QED
    BY <2>1, <2>2
<1>7. p > m
  <2> SUFFICES ASSUME p <= m PROVE FALSE
    BY <1>4, <1>5
  <2>1. p \in DOMAIN queue[l]
    BY <1>4, <1>5
  <2> QED
    BY <1>3, <1>5, <1>6, <2>1
<1>8. p <= m + 1
  <2> SUFFICES ASSUME p > m + 1 PROVE FALSE
    BY <1>4, <1>5
  <2> DEFINE y == L[m + 1]
  <2>1. m + 1 \in DOMAIN L
    BY <1>4, <1>5
  <2>2. y \in DOMAIN lost.orders /\ Level(lost.orders[y]) = l /\ y # x
    BY <1>4, <1>5, <2>1 DEF BookSoundOf
  <2>3. lost.orders[y].locate = SnapshotLocate
    BY <1>4, <2>2 DEF Level
  <2>4. PICK j \in DOMAIN file : file[j].ref = y
    BY <2>2, <2>3 DEF IsSnapshotOf
  <2> HIDE DEF y
  <2>5. CASE j <= at
    <3>1. j \in 1..at /\ y \in DOMAIN orders /\ orders[y] = file[j]
      BY <1>1, <2>4, <2>5 DEF LoadedSoFar
    <3>2. Level(orders[y]) = l
      BY <2>2, <2>4, <3>1 DEF IsSnapshotOf
    <3>3. PICK k \in DOMAIN queue[l] : queue[l][k] = y
      BY <3>1, <3>2 DEF SoundBook, ViewsAgree
    <3>4. k \in DOMAIN L /\ L[k] = L[m + 1] /\ k # m + 1
      BY <1>4, <1>6, <3>3 DEF y
    <3> QED
      BY <1>4, <2>1, <3>4 DEF BookSoundOf
  <2>6. CASE j = at + 1
    BY <2>2, <2>4, <2>6
  <2>7. CASE j > at + 1
    <3>1. L[p] = file[at + 1].ref /\ L[m + 1] = file[j].ref
      BY <1>5, <2>4 DEF y
    <3>2. \A h, k \in DOMAIN L : L[h] = file[at + 1].ref /\ L[k] = file[j].ref => h < k
      <4>1. at + 1 \in DOMAIN file /\ at + 1 < j /\ l \in Levels
        BY <1>1, <1>4, <2>7
      <4> QED
        BY <4>1 DEF IsSnapshotOf
    <3>3. p < m + 1
      BY <1>5, <2>1, <3>1, <3>2
    <3> QED
      BY <1>4, <1>5, <3>3
  <2> QED
    BY <1>1, <2>5, <2>6, <2>7
<1>9. p = m + 1
  BY <1>4, <1>5, <1>7, <1>8
<1> QED
  BY <1>2, <1>3, <1>4, <1>5, <1>9

LEMMA LoadOrderKeepsInv ==
  ASSUME WalInv, LoadOrder
  PROVE  WalInv'
<1>0. /\ SoundBook /\ LogInv /\ CallInv /\ LogInOrder /\ FaithfulInv /\ HomeInv /\ AtHome
      /\ nextSeq \in Nat /\ mode = "loading" /\ phase = "idle"
      /\ \A r \in DOMAIN lost.orders : lost.orders[r].locate = home[r]
      /\ BookSoundOf(lost.orders, lost.queue) /\ DOMAIN lost.orders \subseteq used
      /\ IsSnapshotOf(file, lost.orders, lost.queue) /\ LoadedSoFar
      /\ faithful => InSequenceOf(lost.orders, lost.queue)
  BY DEF WalInv, CallInv, LoadInv, LoadOrder
<1>1. /\ at < Len(file) /\ at' = at + 1
      /\ IF poolUsed < PoolSize THEN Rest(file[at + 1]) ELSE UNCHANGED book
      /\ nextSeq' = nextSeq /\ used' = used /\ phase' = "idle"
      /\ wal' = wal /\ written' = written /\ mode' = "loading" /\ file' = file /\ lost' = lost
      /\ faithful' = faithful /\ home' = home
  BY <1>0 DEF LoadOrder, logVars
<1> DEFINE o == file[at + 1]
           l == Level(o)
           m == Len(queue[l])
<1>2. /\ o \in Order /\ o.price \in Prices /\ o.locate = SnapshotLocate
      /\ o.ref \in DOMAIN lost.orders /\ lost.orders[o.ref] = o
      /\ o.ref \notin DOMAIN orders
      /\ l \in Levels
      /\ m + 1 \in DOMAIN lost.queue[l] /\ lost.queue[l][m + 1] = o.ref
  BY <1>0, <1>1, NextIsInPlace
<1> HIDE DEF l, o
<1>3. /\ at \in Nat /\ Len(file) \in Nat /\ Len(file) <= PoolSize /\ poolUsed = at
      /\ DOMAIN orders = {file[i].ref : i \in 1..at}
      /\ \A i \in 1..at : orders[file[i].ref] = file[i] /\ i \in DOMAIN file
      /\ PoolSize \in Nat
  BY <1>0, EngineConstants DEF LoadedSoFar, IsSnapshotOf
<1>4. poolUsed < PoolSize /\ Rest(o)
  BY <1>1, <1>3 DEF o
<1>5. \A r \in DOMAIN orders : r \in DOMAIN lost.orders /\ orders[r] = lost.orders[r]
                               /\ orders[r].side \in Sides
  <2>1. ASSUME NEW r \in DOMAIN orders
        PROVE  r \in DOMAIN lost.orders /\ orders[r] = lost.orders[r]
    <3>1. PICK i \in 1..at : r = file[i].ref
      BY <1>3
    <3>2. i \in DOMAIN file /\ orders[r] = file[i]
      BY <1>3, <3>1
    <3> QED
      BY <1>0, <3>1, <3>2 DEF IsSnapshotOf
  <2>2. \A r \in DOMAIN orders : orders[r].side \in Sides
    BY <1>0 DEF SoundBook, BookTypeOK, Order
  <2> QED
    BY <2>1, <2>2
<1>6. ASSUME NEW r \in DOMAIN orders, orders[r].locate = o.locate,
             orders[r].side = Opposite(o.side), Crosses(o.side, o.price, orders[r].price)
      PROVE  orders[r].user = o.user
  <2>1. orders[r] = lost.orders[r] /\ o = lost.orders[o.ref] /\ o.side \in Sides
        /\ r \in DOMAIN lost.orders /\ o.ref \in DOMAIN lost.orders
    BY <1>2, <1>5 DEF Order
  <2>2. orders[r].price \in Nat /\ o.price \in Nat
    BY <1>0, <1>2, EngineConstants DEF SoundBook, BookTypeOK
  <2> HIDE DEF o
  <2>3. CASE o.side = "BUY"
    <3>1. orders[r].side = "SELL" /\ o.price >= orders[r].price
      BY <1>6, <2>2, <2>3 DEF Opposite, Crosses
    <3> QED
      BY <1>0, <1>6, <2>1, <2>3, <3>1 DEF BookSoundOf
  <2>4. CASE o.side = "SELL"
    <3>1. orders[r].side = "BUY" /\ orders[r].price >= o.price
      BY <1>6, <2>2, <2>4 DEF Opposite, Crosses
    <3> QED
      BY <1>0, <1>6, <2>1, <2>4, <3>1 DEF BookSoundOf
  <2> QED
    BY <2>1, <2>3, <2>4 DEF Sides
<1>7. /\ SoundBook'
      /\ InSequence /\ (\A r \in DOMAIN orders : Level(orders[r]) = l => orders[r].seq < o.seq)
           => InSequence'
      /\ queue' = [queue EXCEPT ![l] = Append(@, o.ref)]
      /\ poolUsed' = poolUsed + 1
      /\ DOMAIN orders' = DOMAIN orders \cup {o.ref}
      /\ orders'[o.ref] = o
      /\ \A r \in DOMAIN orders : orders'[r] = orders[r]
  BY <1>0, <1>2, <1>4, <1>6, RestKeepsSound DEF l
<1>8. /\ queue \in [Levels -> Seq(Refs)] /\ queue[l] \in Seq(Refs) /\ m \in Nat
      /\ DOMAIN queue[l] = 1..m
      /\ \A k \in DOMAIN queue[l] : k \in DOMAIN lost.queue[l] /\ queue[l][k] = lost.queue[l][k]
  <2>1. queue \in [Levels -> Seq(Refs)] /\ queue[l] \in Seq(Refs)
    BY <1>0, <1>2 DEF SoundBook, BookTypeOK
  <2>2. l[1] = SnapshotLocate
    BY <1>2 DEF l, Level
  <2> QED
    BY <1>0, <1>2, <2>1, <2>2 DEF LoadedSoFar
<1>9. ASSUME faithful PROVE InSequence'
  <2>1. ASSUME NEW r \in DOMAIN orders, Level(orders[r]) = l PROVE orders[r].seq < o.seq
    <3>1. PICK k \in DOMAIN queue[l] : queue[l][k] = r
      BY <1>0, <2>1 DEF SoundBook, ViewsAgree
    <3>2. k \in DOMAIN lost.queue[l] /\ lost.queue[l][k] = r /\ k < m + 1
      BY <1>8, <3>1
    <3>3. lost.orders[r].seq < lost.orders[o.ref].seq
      BY <1>0, <1>2, <1>9, <3>2 DEF InSequenceOf
    <3> QED
      BY <1>2, <1>5, <3>3
  <2>2. InSequence
    BY <1>0, <1>9 DEF FaithfulInv
  <2> QED
    BY <1>7, <2>1, <2>2
<1>10. LoadedSoFar'
  <2>1. at' \in 0..Len(file') /\ poolUsed' = at'
    BY <1>1, <1>3, <1>7
  <2>2. 1..at' = 1..at \cup {at + 1}
    BY <1>1, <1>3
  <2>3. DOMAIN orders' = {file'[i].ref : i \in 1..at'}
    BY <1>1, <1>3, <1>7, <2>2 DEF o
  <2>4. \A i \in 1..at' : orders'[file'[i].ref] = file'[i]
    BY <1>1, <1>3, <1>7, <2>2 DEF o
  <2>5. ASSUME NEW k \in Levels, k[1] = SnapshotLocate, NEW i \in DOMAIN queue'[k]
        PROVE  i \in DOMAIN lost.queue[k] /\ queue'[k][i] = lost.queue[k][i]
    <3>1. CASE k = l
      <4>1. queue'[l] = Append(queue[l], o.ref)
        BY <1>2, <1>7, <1>8
      <4>2. i \in 1..(m + 1) /\ queue'[l][i] = IF i = m + 1 THEN o.ref ELSE queue[l][i]
        BY <1>2, <1>8, <2>5, <3>1, <4>1 DEF Order
      <4>3. i # m + 1 => i \in DOMAIN queue[l]
        BY <1>8, <4>2
      <4> QED
        BY <1>2, <1>8, <3>1, <4>2, <4>3
    <3>2. CASE k # l
      <4>1. queue'[k] = queue[k]
        BY <1>7, <1>8, <3>2
      <4> QED
        BY <1>0, <2>5, <4>1 DEF LoadedSoFar
    <3> QED
      BY <3>1, <3>2
  <2> QED
    BY <1>1, <2>1, <2>3, <2>4, <2>5 DEF LoadedSoFar
<1>11. LogInv' /\ LogInOrder' /\ HomeInv'
  <2>1. at' \in Nat
    BY <1>1, <1>3
  <2> QED
    BY <1>0, <1>1, <2>1, LogUntouched
<1>12. CallInv' /\ NumbersInv' /\ AtHome'
  <2>1. CallInv' /\ NumbersInv'
    BY <1>0, <1>1, <1>2, <1>7 DEF CallInv, NumbersInv, Running
  <2>2. AtHome'
    BY <1>0, <1>1, <1>2, <1>7 DEF AtHome
  <2> QED
    BY <2>1, <2>2
<1>13. FaithfulInv'
  BY <1>1, <1>9 DEF FaithfulInv
<1>14. LoadInv'
  BY <1>0, <1>1, <1>10 DEF LoadInv
<1> QED
  BY <1>1, <1>7, <1>11, <1>12, <1>13, <1>14 DEF WalInv

\* The numbers to come are above all that were loaded.
LEMMA LoadedNumbers ==
  ASSUME WalInv, Loaded
  PROVE  nextSeq' \in Nat /\ \A r \in DOMAIN orders : orders[r].seq < nextSeq'
<1>0. /\ nextSeq \in Nat /\ mode = "loading" /\ at = Len(file)
      /\ IsSnapshotOf(file, lost.orders, lost.queue) /\ LoadedSoFar
      /\ nextSeq' = IF file = <<>> THEN nextSeq
                    ELSE 1 + Max({file[i].seq : i \in DOMAIN file})
  BY DEF WalInv, CallInv, LoadInv, Loaded
<1> DEFINE n == Len(file)
           S == {file[i].seq : i \in 1..n}
<1>1. file \in Seq(Order) /\ n \in Nat /\ DOMAIN file = 1..n
  BY <1>0 DEF IsSnapshotOf
<1>2. \A i \in 1..n : file[i] \in Order /\ file[i].seq \in Nat
  <2>1. \A i \in 1..n : file[i] \in Order
    BY <1>1
  <2> QED
    BY <2>1 DEF Order
<1>3. \A r \in DOMAIN orders : \E i \in 1..n : orders[r].seq = file[i].seq
  BY <1>0 DEF LoadedSoFar
<1>4. CASE file = <<>>
  <2>1. n = 0
    BY <1>4
  <2>2. DOMAIN orders = {}
    BY <1>3, <2>1
  <2> QED
    BY <1>0, <1>4, <2>2
<1>5. CASE file # <<>>
  <2>1. S \in SUBSET Nat /\ S # {}
    <3>1. n # 0
      BY <1>1, <1>5, EmptySeq
    <3> QED
      BY <1>1, <1>2, <3>1
  <2>2. IsFiniteSet(S)
    <3> DEFINE f == [i \in 1..n |-> file[i].seq]
    <3>1. f \in Surjection(1..n, S)
      BY DEF Surjection
    <3>2. IsFiniteSet(1..n)
      BY <1>1, FS_Interval
    <3> HIDE DEF f, S
    <3> QED
      BY <3>1, <3>2, FS_Surjection
  <2> HIDE DEF S
  <2>3. PICK x \in S : \A y \in S : x >= y
    BY <2>1, <2>2, GreatestNumber
  <2>4. \A y \in S : y \in Nat
    BY <2>1
  <2>5. Max(S) \in S /\ \A y \in S : Max(S) >= y
    BY <2>3 DEF Max
  <2>6. nextSeq' = 1 + Max(S)
    BY <1>0, <1>1, <1>5 DEF S
  <2>7. \A r \in DOMAIN orders : orders[r].seq \in S
    BY <1>3 DEF S
  <2> DEFINE max == Max(S)
  <2>8. max \in Nat /\ nextSeq' = 1 + max /\ \A y \in S : y \in Nat /\ max >= y
    BY <2>4, <2>5, <2>6
  <2> HIDE DEF max
  <2> QED
    BY <2>7, <2>8
<1> QED
  BY <1>4, <1>5

LEMMA LoadDoneKeepsInv ==
  ASSUME WalInv, LoadDone \/ ReplayOver
  PROVE  WalInv'
<1>0. /\ SoundBook /\ LogInv /\ CallInv /\ LogInOrder /\ FaithfulInv /\ HomeInv /\ AtHome
      /\ mode = "loading" /\ phase = "idle"
      /\ nextSeq' \in Nat /\ \A r \in DOMAIN orders : orders[r].seq < nextSeq'
  BY LoadedNumbers DEF WalInv, CallInv, LoadDone, ReplayOver, Loaded
<1>1. /\ mode' \in {"running", "replaying"} /\ at' = 0 /\ UNCHANGED book
      /\ used' = used /\ phase' = phase /\ wal' = wal /\ written' = written /\ home' = home
      /\ faithful' => (faithful /\ mode' = "running")
  BY DEF LoadDone, ReplayOver, BackInService, logVars
<1>2. written = WalEntries
  BY <1>0 DEF LogInv, Running
<1>3. Shrinks /\ orders' = orders
  BY <1>0, <1>1, SameBookShrinks DEF book
<1>4. LogInv' /\ HomeInv'
  BY <1>0, <1>1, <1>2 DEF LogInv, HomeInv, IsNew, Running
<1>5. LogInOrder'
  BY <1>0, <1>1, <1>2, SlotFacts DEF LogInOrder, Increasing, IsNew
<1>6. CallInv' /\ AtHome'
  BY <1>0, <1>1, <1>3 DEF CallInv, AtHome
<1>7. NumbersInv'
  BY <1>0, <1>1, <1>3 DEF NumbersInv
<1>8. FaithfulInv'
  BY <1>0, <1>1, <1>3 DEF FaithfulInv, Shrinks
<1>9. LoadInv'
  BY <1>1 DEF LoadInv
<1> QED
  BY <1>1, <1>3, <1>4, <1>5, <1>6, <1>7, <1>8, <1>9 DEF WalInv, Shrinks
-----------------------------------------------------------------------------
LEMMA WalStutterKeepsInv ==
  ASSUME WalInv, UNCHANGED walVars
  PROVE  WalInv'
<1>1. /\ orders' = orders /\ queue' = queue /\ total' = total /\ poolUsed' = poolUsed
      /\ nextSeq' = nextSeq /\ used' = used /\ phase' = phase /\ order' = order
      /\ wal' = wal /\ written' = written /\ mode' = mode /\ at' = at /\ file' = file
      /\ home' = home /\ faithful' = faithful /\ lost' = lost
  BY DEF walVars, vars, recoveryVars, logVars, restartVars
<1>2. (SoundBook => SoundBook') /\ (InSequence => InSequence')
  BY <1>1 DEF SoundBook, BookTypeOK, ViewsAgree, Uncrossed, InSequence
<1>3. /\ LogInv => LogInv'
      /\ CallInv => CallInv'
      /\ NumbersInv => NumbersInv'
      /\ HomeInv => HomeInv'
      /\ AtHome => AtHome'
      /\ WellAddressed' => WellAddressed
  BY <1>1 DEF LogInv, CallInv, NumbersInv, HomeInv, IsNew, AtHome, WellAddressed, Running
<1>4. LogInOrder => LogInOrder'
  BY <1>1 DEF LogInOrder, Increasing, IsNew
<1>5. FaithfulInv => FaithfulInv'
  BY <1>1, <1>2 DEF FaithfulInv, IsNew
<1>6. LoadInv => LoadInv'
  <2>1. LoadedSoFar => LoadedSoFar'
    BY <1>1 DEF LoadedSoFar
  <2> QED
    BY <1>1, <2>1 DEF LoadInv
<1> QED
  BY <1>1, <1>2, <1>3, <1>4, <1>5, <1>6 DEF WalInv

LEMMA WalNextKeepsInv == WalInv /\ [WalNext]_walVars => WalInv'
<1> SUFFICES ASSUME WalInv, [WalNext]_walVars PROVE WalInv'
  OBVIOUS
<1>1. CASE LoggedAdd
  BY <1>1, LoggedAddKeepsInv
<1>2. CASE LoggedCancel
  BY <1>2, LoggedCancelKeepsInv
<1>3. CASE LoggedCancelShares
  BY <1>3, LoggedCancelSharesKeepsInv
<1>4. CASE LoggedReplace
  BY <1>4, LoggedReplaceKeepsInv
<1>5. CASE LoggedMatch
  BY <1>5, LoggedMatchKeepsInv
<1>6. CASE LoggedSettle
  BY <1>6, LoggedSettleKeepsInv
<1>7. CASE Crash
  BY <1>7, CrashKeepsInv
<1>8. CASE Replay
  BY <1>8, ReplayNothingKeepsInv, ReplayNewKeepsInv, ReplaySettleKeepsInv, ReplayCancelKeepsInv,
     ReplaySharesKeepsInv, ReplayDoneKeepsInv DEF Replay
<1>9. CASE Shutdown
  BY <1>9, ShutdownKeepsInv
<1>10. CASE LoadOrder
  BY <1>10, LoadOrderKeepsInv
<1>11. CASE LoadDone \/ ReplayOver
  BY <1>11, LoadDoneKeepsInv
<1>12. CASE UNCHANGED walVars
  BY <1>12, WalStutterKeepsInv
<1> QED
  BY <1>1, <1>2, <1>3, <1>4, <1>5, <1>6, <1>7, <1>8, <1>9, <1>10, <1>11, <1>12
  DEF WalNext, Command

\* The log, the local order and the book of a process that may crash between any two
\* steps and be restarted from its log or from a snapshot fit together always.
THEOREM WalInvariant == WalSpec => []WalInv
<1>1. WalInit => WalInv
  BY WalInitKeepsInv
<1>2. WalInv /\ [WalNext]_walVars => WalInv'
  BY WalNextKeepsInv
<1> QED
  BY <1>1, <1>2, PTL DEF WalSpec

\* Whatever was replayed over whatever (recoverFromWal, loadSnapshot), also if that was
\* cut short itself, lists, index and pool agree and the book is not crossed, unless an
\* entry with another locate than its order's took it out through a level of the other
\* book; and as long as every entry in the log has the locate of its order, no replay
\* comes to that.  After a faithful replay the lists are in the order of arrival.
THEOREM BookAlwaysSound == WalSpec => []BookSound
<1>1. WalInv => BookSound
  BY DEF WalInv, SoundBook, FaithfulInv, BookSound
<1> QED
  BY <1>1, WalInvariant, PTL

\* A level that has got back the orders of the snapshot is the level that was saved.
LEMMA LoadedIsRestored == WalInv => SnapshotRestores
<1> SUFFICES ASSUME WalInv, mode = "loading", at = Len(file)
             PROVE  /\ \A l \in Levels : l[1] = SnapshotLocate => queue[l] = lost.queue[l]
                    /\ \A r \in DOMAIN lost.orders :
                          lost.orders[r].locate = SnapshotLocate =>
                            r \in DOMAIN orders /\ orders[r] = lost.orders[r]
  BY DEF SnapshotRestores
<1>0. /\ SoundBook /\ BookSoundOf(lost.orders, lost.queue)
      /\ IsSnapshotOf(file, lost.orders, lost.queue) /\ LoadedSoFar
  BY DEF WalInv, LoadInv
<1>1. file \in Seq(Order) /\ Len(file) \in Nat /\ DOMAIN file = 1..at
  BY <1>0 DEF IsSnapshotOf
<1>2. ASSUME NEW r \in DOMAIN lost.orders, lost.orders[r].locate = SnapshotLocate
      PROVE  r \in DOMAIN orders /\ orders[r] = lost.orders[r]
  <2>1. PICK i \in DOMAIN file : file[i].ref = r
    BY <1>0, <1>2 DEF IsSnapshotOf
  <2>2. i \in 1..at /\ file[i] = lost.orders[r]
    BY <1>0, <1>1, <2>1 DEF IsSnapshotOf
  <2> QED
    BY <1>0, <2>1, <2>2 DEF LoadedSoFar
<1>3. ASSUME NEW l \in Levels, l[1] = SnapshotLocate PROVE queue[l] = lost.queue[l]
  <2> DEFINE L == lost.queue[l]
             m == Len(queue[l])
  <2>1. /\ L \in Seq(Refs) /\ queue[l] \in Seq(Refs) /\ m \in Nat /\ Len(L) \in Nat
        /\ DOMAIN L = 1..Len(L) /\ DOMAIN queue[l] = 1..m
    BY <1>0 DEF BookSoundOf, SoundBook, BookTypeOK
  <2>2. \A k \in DOMAIN queue[l] : k \in DOMAIN L /\ queue[l][k] = L[k]
    BY <1>0, <1>3 DEF LoadedSoFar
  <2>3. ASSUME NEW k \in DOMAIN L PROVE k \in DOMAIN queue[l]
    <3> DEFINE r == L[k]
    <3>1. r \in DOMAIN lost.orders /\ Level(lost.orders[r]) = l
      BY <1>0 DEF BookSoundOf
    <3>2. lost.orders[r].locate = SnapshotLocate
      BY <1>3, <3>1 DEF Level
    <3>3. r \in DOMAIN orders /\ Level(orders[r]) = l
      BY <1>2, <3>1, <3>2
    <3>4. PICK h \in DOMAIN queue[l] : queue[l][h] = r
      BY <1>0, <3>3 DEF SoundBook, ViewsAgree
    <3>5. h \in DOMAIN L /\ L[h] = L[k]
      BY <2>2, <3>4
    <3>6. h = k
      BY <1>0, <3>5 DEF BookSoundOf
    <3> QED
      BY <3>4, <3>6
  <2>4. m = Len(L)
    <3>1. 1..m = 1..Len(L)
      BY <2>1, <2>2, <2>3
    <3> QED
      BY <2>1, <3>1
  <2> QED
    BY <2>1, <2>2, <2>4
<1> QED
  BY <1>2, <1>3

\* loadSnapshot brings back what saveSnapshot was given: the lists of the saved book, in
\* their order, and its orders as they were, numbers and all, although the file has the
\* orders one by one and each is linked at the tail of a level.
THEOREM SnapshotAlwaysRestores == WalSpec => []SnapshotRestores
<1> QED
  BY LoadedIsRestored, WalInvariant, PTL
=============================================================================
