-------------------------- MODULE MarketBookProofs --------------------------
(***************************************************************************)
(* Theorems about MarketBook, for any number of books, references, prices,  *)
(* quantities and slots: levels that no partial cancel and no execution has *)
(* touched are exact, and a replace always finds room for its order.        *)
(***************************************************************************)
EXTENDS MarketBook, SetSums

Orders == [ref : Refs, locate : Locates, side : Sides, price : Prices,
           shares : Quantities, rem : Nat]
LevelOf(o) == <<o.locate, o.side, o.price>>

\* ords is an index the pool can hold; an order that no reduction has touched is whole.
OrdersOK(ords, red) ==
  /\ ords = [r \in DOMAIN ords |-> ords[r]]
  /\ \A r \in DOMAIN ords : ords[r] \in Orders
  /\ DOMAIN ords \subseteq Refs
  /\ Cardinality(DOMAIN ords) <= PoolSize
  /\ \A r \in DOMAIN ords : LevelOf(ords[r]) \notin red => ords[r].rem = ords[r].shares
TablesOK(tables) == tables = [t \in Tables |-> tables[t]]

\* A level at p of a table counts the orders S, total shares together.
Counts(table, p, S, total) ==
  /\ p \in DOMAIN table <=> S # {}
  /\ p \in DOMAIN table => table[p] = [count |-> Cardinality(S), total |-> total % Word]

At(ords, t, p) == {r \in DOMAIN ords : Table(ords[r]) = t /\ ords[r].price = p}
Rems(ords) == [r \in DOMAIN ords |-> ords[r].rem]
Exact(table, ords, t, p) == Counts(table, p, At(ords, t, p), SumOf(Rems(ords), At(ords, t, p)))
AllExact(ords, tables, red) ==
  \A t \in Tables, p \in Prices : <<t[1], t[2], p>> \notin red => Exact(tables[t], ords, t, p)

MarketInv ==
  /\ OrdersOK(live, reduced) /\ TablesOK(levels)
  /\ DOMAIN live \subseteq used
  /\ AllExact(live, levels, reduced)
-----------------------------------------------------------------------------
(* Counters.                                                               *)

\* A counter may be taken modulo its word before or after something is added.
LEMMA ModAdd ==
  ASSUME NEW w \in Nat \ {0}, NEW x \in Int, NEW s \in Int
  PROVE  ((x % w) + s) % w = (x + s) % w
<1> DEFINE r == x % w
           q == x \div w
           y == r + s
           ry == y % w
           qy == y \div w
           rz == (x + s) % w
           qz == (x + s) \div w
<1>1. r \in 0..(w - 1) /\ x = w * q + r /\ q \in Int
  BY EuclidInt
<1>2. y \in Int
  BY <1>1
<1>3. ry \in 0..(w - 1) /\ y = w * qy + ry /\ qy \in Int
  BY <1>2, EuclidInt
<1>4. x + s \in Int
  OBVIOUS
<1>5. rz \in 0..(w - 1) /\ x + s = w * qz + rz /\ qz \in Int
  BY <1>4, EuclidInt
<1> HIDE DEF r, q, ry, qy, rz, qz
<1>6. x + s = w * q + (w * qy + ry)
  BY <1>1, <1>3
<1>7. w * q + w * qy = w * (q + qy) /\ q + qy \in Int
  BY <1>1, <1>3
<1>8. w * (q + qy) + ry = w * qz + rz
  BY <1>1, <1>3, <1>5, <1>6, <1>7
<1>9. ry = rz
  BY <1>3, <1>5, <1>7, <1>8, RemainderUnique
<1> QED
  BY <1>9 DEF r, ry, rz

\* A counter that fits its word is not changed by it.
LEMMA ModSmall ==
  ASSUME NEW w \in Nat \ {0}, NEW n \in Nat, n < w
  PROVE  n % w = n
<1>1. n % w \in 0..(w - 1) /\ n = w * (n \div w) + (n % w) /\ n \div w \in Nat
  BY Euclid
<1> DEFINE r == n % w
           q == n \div w
<1>2. w * q + r = w * 0 + n /\ n \in 0..(w - 1) /\ q \in Int
  BY <1>1
<1> HIDE DEF r, q
<1>3. r = n
  BY <1>1, <1>2, RemainderUnique DEF r
<1> QED
  BY <1>3 DEF r

LEMMA WordType == Word \in Nat \ {0} /\ PoolSize \in Nat /\ PoolSize < Word
BY MarketConstants

LEMMA OrderTypes ==
  ASSUME NEW o \in Orders
  PROVE  /\ o.shares \in Nat /\ o.rem \in Nat /\ o.price \in Prices
         /\ Table(o) \in Tables /\ LevelOf(o) = <<o.locate, o.side, o.price>>
<1>1. Quantities \subseteq Nat
  BY MarketConstants
<1> QED
  BY <1>1 DEF Orders, Table, Tables, LevelOf

\* An order is linked to its level.
LEMMA LinkedCounts ==
  ASSUME NEW table, NEW S, IsFiniteSet(S), NEW total \in Int, S = {} => total = 0,
         NEW o \in Orders, Counts(table, o.price, S, total),
         NEW r, r \notin S, Cardinality(S) + 1 < Word
  PROVE  Counts(Linked(table, o), o.price, S \cup {r}, total + o.shares)
<1> DEFINE p == o.price
           l == LevelAt(table, p)
<1>1. Word \in Nat \ {0} /\ o.shares \in Nat
  BY WordType, OrderTypes
<1>2. /\ Cardinality(S) \in Nat /\ Cardinality(S \cup {r}) = Cardinality(S) + 1
      /\ S = {} => Cardinality(S) = 0
  BY FS_CardinalityType, FS_AddElement, FS_EmptySet
<1>3. l.count = Cardinality(S) /\ l.total = total % Word
  <2>1. CASE p \in DOMAIN table
    BY <2>1 DEF Counts, LevelAt
  <2>2. CASE p \notin DOMAIN table
    <3>1. S = {} /\ total = 0
      BY <2>2 DEF Counts
    <3>2. 0 % Word = 0
      BY <1>1, ModSmall
    <3> QED
      BY <1>2, <2>2, <3>1, <3>2 DEF LevelAt
  <2> QED
    BY <2>1, <2>2
<1>4. (l.count + 1) % Word = Cardinality(S \cup {r})
  <2>1. Cardinality(S) + 1 \in Nat /\ Cardinality(S) + 1 < Word
    BY <1>2
  <2> QED
    BY <1>1, <1>2, <1>3, <2>1, ModSmall
<1>5. (l.total + o.shares) % Word = (total + o.shares) % Word
  <2>1. o.shares \in Int
    BY <1>1
  <2>2. ((total % Word) + o.shares) % Word = (total + o.shares) % Word
    BY <1>1, <2>1, ModAdd
  <2> QED
    BY <1>3, <2>2
<1>6. Linked(table, o) = [q \in DOMAIN table \cup {p} |->
        IF q = p THEN [count |-> (l.count + 1) % Word, total |-> (l.total + o.shares) % Word]
        ELSE table[q]]
  BY DEF Linked, With
<1> HIDE DEF l, p
<1>7. /\ p \in DOMAIN Linked(table, o)
      /\ Linked(table, o)[p] = [count |-> (l.count + 1) % Word, total |-> (l.total + o.shares) % Word]
  BY <1>6
<1> QED
  BY <1>4, <1>5, <1>7 DEF Counts, p

\* An order is taken off its level.
LEMMA UnlinkedCounts ==
  ASSUME NEW table, NEW S, IsFiniteSet(S), NEW total \in Int,
         NEW o \in Orders, Counts(table, o.price, S, total),
         NEW r \in S, Cardinality(S) < Word
  PROVE  Counts(Unlinked(table, o), o.price, S \ {r}, total - o.shares)
<1> DEFINE p == o.price
           l == LevelAt(table, p)
           count == (l.count - 1) % Word
           sum == (l.total - o.shares) % Word
<1>1. Word \in Nat \ {0} /\ o.shares \in Nat
  BY WordType, OrderTypes
<1>2. /\ Cardinality(S) \in Nat /\ Cardinality(S \ {r}) = Cardinality(S) - 1
      /\ IsFiniteSet(S \ {r}) /\ Cardinality(S \ {r}) \in Nat
  BY FS_CardinalityType, FS_RemoveElement
<1>3. l.count = Cardinality(S) /\ l.total = total % Word
  BY DEF Counts, LevelAt
<1>4. count = Cardinality(S \ {r})
  <2>1. Cardinality(S) - 1 \in Nat /\ Cardinality(S) - 1 < Word
    BY <1>1, <1>2
  <2> QED
    BY <1>1, <1>2, <1>3, <2>1, ModSmall
<1>5. sum = (total - o.shares) % Word
  <2> DEFINE less == 0 - o.shares
             rest == total % Word
  <2>1. less \in Int /\ rest \in Int
    BY <1>1, EuclidInt
  <2>2. (rest + less) % Word = (total + less) % Word
    BY <1>1, <2>1, ModAdd
  <2>3. rest - o.shares = rest + less /\ total - o.shares = total + less
    BY <1>1, <2>1
  <2>4. l.total = rest
    BY <1>3
  <2> HIDE DEF less, rest, l
  <2> QED
    BY <2>2, <2>3, <2>4
<1>6. Unlinked(table, o) =
        IF count = 0 THEN [q \in DOMAIN table \ {p} |-> table[q]]
        ELSE [q \in DOMAIN table \cup {p} |->
                IF q = p THEN [count |-> count, total |-> sum] ELSE table[q]]
  BY DEF Unlinked, With, Without
<1>7. count = 0 <=> S \ {r} = {}
  BY <1>2, <1>4, FS_EmptySet
<1> HIDE DEF l, p, count, sum
<1>8. CASE count = 0
  BY <1>6, <1>7, <1>8 DEF Counts, p
<1>9. CASE count # 0
  BY <1>4, <1>5, <1>6, <1>7, <1>9 DEF Counts, p
<1> QED
  BY <1>8, <1>9
-----------------------------------------------------------------------------
(* What the operations on the index do to a level.                         *)

LEMMA OrdersAreFinite ==
  ASSUME NEW ords, NEW red, OrdersOK(ords, red)
  PROVE  /\ IsFiniteSet(DOMAIN ords)
         /\ \A t \in Tables, p \in Prices :
              /\ At(ords, t, p) \subseteq DOMAIN ords /\ IsFiniteSet(At(ords, t, p))
              /\ Cardinality(At(ords, t, p)) \in Nat
              /\ Cardinality(At(ords, t, p)) <= Cardinality(DOMAIN ords)
              /\ Cardinality(At(ords, t, p)) <= PoolSize
              /\ Summable(Rems(ords), At(ords, t, p))
              /\ SumOf(Rems(ords), At(ords, t, p)) \in Int
<1>1. IsFiniteSet(DOMAIN ords)
  BY MarketConstants, FS_Subset DEF OrdersOK
<1>2. ASSUME NEW t \in Tables, NEW p \in Prices
      PROVE  /\ At(ords, t, p) \subseteq DOMAIN ords /\ IsFiniteSet(At(ords, t, p))
             /\ Cardinality(At(ords, t, p)) \in Nat
             /\ Cardinality(At(ords, t, p)) <= Cardinality(DOMAIN ords)
             /\ Cardinality(At(ords, t, p)) <= PoolSize
             /\ Summable(Rems(ords), At(ords, t, p))
             /\ SumOf(Rems(ords), At(ords, t, p)) \in Int
  <2>1. At(ords, t, p) \subseteq DOMAIN ords
    BY DEF At
  <2>2. /\ IsFiniteSet(At(ords, t, p))
        /\ Cardinality(At(ords, t, p)) <= Cardinality(DOMAIN ords)
    BY <1>1, <2>1, FS_Subset
  <2>3. Cardinality(At(ords, t, p)) \in Nat /\ Cardinality(DOMAIN ords) \in Nat
    BY <1>1, <2>2, FS_CardinalityType
  <2>4. Cardinality(At(ords, t, p)) <= PoolSize
    BY <2>2, <2>3, WordType DEF OrdersOK
  <2>5. \A r \in At(ords, t, p) : Rems(ords)[r] \in Int
    BY <2>1, OrderTypes DEF Rems, OrdersOK
  <2>6. Summable(Rems(ords), At(ords, t, p))
    BY <2>2, <2>5 DEF Summable
  <2> QED
    BY <2>1, <2>2, <2>3, <2>4, <2>6, SumType
<1> QED
  BY <1>1, <1>2

\* A level no operation reaches stays exact.
LEMMA ExactElsewhere ==
  ASSUME NEW ords, NEW red, OrdersOK(ords, red), NEW ords2, NEW table, NEW table2,
         NEW t \in Tables, NEW p \in Prices, Exact(table, ords, t, p),
         At(ords2, t, p) = At(ords, t, p),
         \A r \in At(ords, t, p) : Rems(ords2)[r] = Rems(ords)[r],
         p \in DOMAIN table2 <=> p \in DOMAIN table,
         p \in DOMAIN table => table2[p] = table[p]
  PROVE  Exact(table2, ords2, t, p)
<1> DEFINE S == At(ords, t, p)
           f == Rems(ords)
           e == Rems(ords2)
<1>1. Summable(f, S)
  BY OrdersAreFinite
<1>2. \A r \in S : e[r] = f[r]
  OBVIOUS
<1> HIDE DEF S, f, e
<1>3. SumOf(e, S) = SumOf(f, S)
  BY <1>1, <1>2, SumSame
<1> QED
  BY <1>3 DEF S, f, e, Exact, Counts

\* Linking and unlinking reach the level of the order's price alone.
LEMMA OnlyItsLevel ==
  ASSUME NEW table, NEW o, NEW p, p # o.price
  PROVE  /\ p \in DOMAIN Linked(table, o) <=> p \in DOMAIN table
         /\ p \in DOMAIN table => Linked(table, o)[p] = table[p]
         /\ p \in DOMAIN Unlinked(table, o) <=> p \in DOMAIN table
         /\ p \in DOMAIN table => Unlinked(table, o)[p] = table[p]
BY DEF Linked, Unlinked, With, Without

LEMMA OnlyDecreased ==
  ASSUME NEW table, NEW price, NEW shares, NEW p, p # price
  PROVE  /\ p \in DOMAIN Decreased(table, price, shares) <=> p \in DOMAIN table
         /\ p \in DOMAIN table => Decreased(table, price, shares)[p] = table[p]
BY DEF Decreased, With, Without

\* rest is the index without r.
WithoutOrder(ords, red, r, rest) ==
  /\ DOMAIN rest = DOMAIN ords \ {r}
  /\ \A x \in DOMAIN ords \ {r} : rest[x] = ords[x]
  /\ OrdersOK(rest, red)
  /\ Cardinality(DOMAIN rest) < PoolSize
  /\ \A t \in Tables, p \in Prices : At(rest, t, p) = At(ords, t, p) \ {r}
  /\ \A x \in DOMAIN ords \ {r} : Rems(rest)[x] = Rems(ords)[x]
\* more is the index with o.
WithOrder(ords, red, o, more) ==
  /\ DOMAIN more = DOMAIN ords \cup {o.ref}
  /\ more[o.ref] = o
  /\ OrdersOK(more, red)
  /\ \A t \in Tables, p \in Prices :
       At(more, t, p) = IF Table(o) = t /\ o.price = p
                        THEN At(ords, t, p) \cup {o.ref} ELSE At(ords, t, p)
  /\ \A x \in DOMAIN ords : Rems(more)[x] = Rems(ords)[x]

LEMMA DropIs ==
  ASSUME NEW ords, NEW red, OrdersOK(ords, red), NEW r \in DOMAIN ords
  PROVE  WithoutOrder(ords, red, r, Drop(ords, r))
<1> DEFINE rest == Drop(ords, r)
<1>1. /\ DOMAIN rest = DOMAIN ords \ {r}
      /\ \A x \in DOMAIN ords \ {r} : rest[x] = ords[x]
      /\ rest = [x \in DOMAIN rest |-> rest[x]]
  BY DEF Drop
<1>2. /\ Cardinality(DOMAIN ords \ {r}) = Cardinality(DOMAIN ords) - 1
      /\ Cardinality(DOMAIN ords) \in Nat
  BY OrdersAreFinite, FS_RemoveElement, FS_CardinalityType
<1> HIDE DEF rest
<1>3. Cardinality(DOMAIN rest) < PoolSize /\ Cardinality(DOMAIN rest) <= PoolSize
  BY <1>1, <1>2, WordType DEF OrdersOK
<1>4. OrdersOK(rest, red)
  BY <1>1, <1>3 DEF OrdersOK
<1>5. \A t \in Tables, p \in Prices : At(rest, t, p) = At(ords, t, p) \ {r}
  BY <1>1 DEF At
<1>6. \A x \in DOMAIN ords \ {r} : Rems(rest)[x] = Rems(ords)[x]
  BY <1>1 DEF Rems
<1> QED
  BY <1>1, <1>3, <1>4, <1>5, <1>6 DEF rest, WithoutOrder

LEMMA PutIs ==
  ASSUME NEW ords, NEW red, OrdersOK(ords, red), NEW o \in Orders, o.rem = o.shares,
         o.ref \notin DOMAIN ords, Cardinality(DOMAIN ords) < PoolSize
  PROVE  WithOrder(ords, red, o, Put(ords, o))
<1> DEFINE more == Put(ords, o)
<1>1. /\ DOMAIN more = DOMAIN ords \cup {o.ref}
      /\ more[o.ref] = o
      /\ \A x \in DOMAIN ords : more[x] = ords[x]
      /\ more = [x \in DOMAIN more |-> more[x]]
  BY DEF Put
<1>2. /\ Cardinality(DOMAIN ords \cup {o.ref}) = Cardinality(DOMAIN ords) + 1
      /\ Cardinality(DOMAIN ords) \in Nat
  BY OrdersAreFinite, FS_AddElement, FS_CardinalityType
<1>3. o.ref \in Refs
  BY DEF Orders
<1> HIDE DEF more
<1>4. Cardinality(DOMAIN more) <= PoolSize
  BY <1>1, <1>2, WordType
<1>5. OrdersOK(more, red)
  BY <1>1, <1>3, <1>4 DEF OrdersOK
<1>6. \A t \in Tables, p \in Prices :
        At(more, t, p) = IF Table(o) = t /\ o.price = p
                         THEN At(ords, t, p) \cup {o.ref} ELSE At(ords, t, p)
  <2> SUFFICES ASSUME NEW t \in Tables, NEW p \in Prices
               PROVE  At(more, t, p) = IF Table(o) = t /\ o.price = p
                                       THEN At(ords, t, p) \cup {o.ref} ELSE At(ords, t, p)
    OBVIOUS
  <2>1. \A r : r \in At(more, t, p) <=>
               r \in At(ords, t, p) \/ (r = o.ref /\ Table(o) = t /\ o.price = p)
    BY <1>1 DEF At
  <2> QED
    BY <2>1
<1>7. \A x \in DOMAIN ords : Rems(more)[x] = Rems(ords)[x]
  BY <1>1 DEF Rems
<1> QED
  BY <1>1, <1>5, <1>6, <1>7 DEF more, WithOrder

\* remove(), and the removal a replace begins with: every level untouched so far is
\* as exact as before.
LEMMA RemoveKeepsExact ==
  ASSUME NEW ords, NEW red, OrdersOK(ords, red), NEW tables, TablesOK(tables),
         AllExact(ords, tables, red), NEW r \in DOMAIN ords, NEW tables2,
         tables2 = [tables EXCEPT ![Table(ords[r])] = Unlinked(@, ords[r])]
  PROVE  TablesOK(tables2) /\ AllExact(Drop(ords, r), tables2, red)
<1> DEFINE o == ords[r]
<1>0. WithoutOrder(ords, red, r, Drop(ords, r))
  BY DropIs
<1>1. o \in Orders /\ Table(o) \in Tables
  BY OrderTypes DEF OrdersOK
<1>2. /\ TablesOK(tables2)
      /\ \A t \in Tables :
           tables2[t] = IF t = Table(o) THEN Unlinked(tables[t], o) ELSE tables[t]
  BY <1>1 DEF TablesOK
<1>3. ASSUME NEW t \in Tables, NEW p \in Prices, <<t[1], t[2], p>> \notin red
      PROVE  Exact(tables2[t], Drop(ords, r), t, p)
  <2> DEFINE S == At(ords, t, p)
             f == Rems(ords)
             e == Rems(Drop(ords, r))
  <2>1. Exact(tables[t], ords, t, p)
    BY <1>3 DEF AllExact
  <2>2. At(Drop(ords, r), t, p) = S \ {r} /\ \A x \in S \ {r} : e[x] = f[x]
    <3>1. S \subseteq DOMAIN ords
      BY DEF At
    <3>2. /\ At(Drop(ords, r), t, p) = S \ {r}
          /\ \A x \in DOMAIN ords \ {r} : e[x] = f[x]
      BY <1>0 DEF WithoutOrder
    <3> QED
      BY <3>1, <3>2
  <2>3. CASE t = Table(o) /\ p = o.price
    <3>1. r \in S /\ f[r] = o.rem
      BY <2>3 DEF At, Rems
    <3>2. o.rem = o.shares
      <4>1. LevelOf(o) = <<t[1], t[2], p>>
        BY <2>3 DEF LevelOf, Table
      <4> QED
        BY <1>3, <4>1 DEF OrdersOK
    <3>3. /\ IsFiniteSet(S) /\ Cardinality(S) \in Nat /\ Cardinality(S) <= PoolSize
          /\ Summable(f, S) /\ SumOf(f, S) \in Int
      BY OrdersAreFinite
    <3>4. Counts(tables[t], p, S, SumOf(f, S))
      BY <2>1 DEF Exact
    <3> HIDE DEF o, S, f, e
    <3>5. Cardinality(S) < Word
      BY <3>3, WordType
    <3>6. Counts(Unlinked(tables[t], o), p, S \ {r}, SumOf(f, S) - o.shares)
      BY <1>1, <2>3, <3>1, <3>3, <3>4, <3>5, UnlinkedCounts
    <3>7. Summable(f, S \ {r}) /\ SumOf(f, S) = f[r] + SumOf(f, S \ {r})
      BY <3>1, <3>3, SumWithout
    <3>8. SumOf(f, S \ {r}) \in Int /\ SumOf(e, S \ {r}) = SumOf(f, S \ {r})
      BY <2>2, <3>7, SumType, SumSame
    <3>9. SumOf(f, S) - o.shares = SumOf(e, S \ {r})
      BY <1>1, <3>1, <3>2, <3>7, <3>8, OrderTypes
    <3> QED
      BY <1>2, <2>2, <2>3, <3>6, <3>9 DEF Exact, e
  <2>4. CASE ~(t = Table(o) /\ p = o.price)
    <3>1. r \notin S
      BY <2>4 DEF At
    <3>2. At(Drop(ords, r), t, p) = S
      BY <2>2, <3>1
    <3>3. /\ p \in DOMAIN tables2[t] <=> p \in DOMAIN tables[t]
          /\ p \in DOMAIN tables[t] => tables2[t][p] = tables[t][p]
      BY <1>2, <2>4, OnlyItsLevel
    <3> QED
      BY <2>1, <2>2, <3>1, <3>2, <3>3, ExactElsewhere
  <2> QED
    BY <2>3, <2>4
<1> QED
  BY <1>2, <1>3 DEF AllExact

\* add(), where the pool has a slot.
LEMMA AddKeepsExact ==
  ASSUME NEW ords, NEW red, OrdersOK(ords, red), NEW tables, TablesOK(tables),
         AllExact(ords, tables, red), NEW o \in Orders, o.rem = o.shares,
         o.ref \notin DOMAIN ords, Cardinality(DOMAIN ords) < PoolSize, NEW tables2,
         tables2 = [tables EXCEPT ![Table(o)] = Linked(@, o)]
  PROVE  TablesOK(tables2) /\ AllExact(Put(ords, o), tables2, red)
<1>0. WithOrder(ords, red, o, Put(ords, o))
  BY PutIs
<1>1. Table(o) \in Tables /\ o.shares \in Nat
  BY OrderTypes
<1>2. /\ TablesOK(tables2)
      /\ \A t \in Tables :
           tables2[t] = IF t = Table(o) THEN Linked(tables[t], o) ELSE tables[t]
  BY <1>1 DEF TablesOK
<1>3. ASSUME NEW t \in Tables, NEW p \in Prices, <<t[1], t[2], p>> \notin red
      PROVE  Exact(tables2[t], Put(ords, o), t, p)
  <2> DEFINE S == At(ords, t, p)
             f == Rems(ords)
             e == Rems(Put(ords, o))
             r == o.ref
  <2>1. Exact(tables[t], ords, t, p)
    BY <1>3 DEF AllExact
  <2>2. /\ At(Put(ords, o), t, p) = IF Table(o) = t /\ o.price = p THEN S \cup {r} ELSE S
        /\ \A x \in S : e[x] = f[x]
    <3>1. S \subseteq DOMAIN ords
      BY DEF At
    <3>2. /\ At(Put(ords, o), t, p) = IF Table(o) = t /\ o.price = p THEN S \cup {r} ELSE S
          /\ \A x \in DOMAIN ords : e[x] = f[x]
      BY <1>0 DEF WithOrder
    <3> QED
      BY <3>1, <3>2
  <2>3. CASE t = Table(o) /\ p = o.price
    <3>1. r \notin S /\ e[r] = o.rem
      <4>1. r \notin S
        BY DEF At
      <4>2. r \in DOMAIN Put(ords, o) /\ Put(ords, o)[r] = o
        BY <1>0 DEF WithOrder
      <4> QED
        BY <4>1, <4>2 DEF Rems
    <3>2. At(Put(ords, o), t, p) = S \cup {r}
      BY <2>2, <2>3
    <3>3. /\ IsFiniteSet(S) /\ Cardinality(S) \in Nat
          /\ Cardinality(S) <= Cardinality(DOMAIN ords) /\ IsFiniteSet(DOMAIN ords)
          /\ Summable(f, S) /\ SumOf(f, S) \in Int
      BY OrdersAreFinite
    <3>4. Counts(tables[t], p, S, SumOf(f, S))
      BY <2>1 DEF Exact
    <3>5. S = {} => SumOf(f, S) = 0
      BY SumEmpty
    <3>6. Cardinality(S) + 1 < Word
      BY <3>3, WordType, FS_CardinalityType
    <3> HIDE DEF S, f, e, r
    <3>7. Counts(Linked(tables[t], o), p, S \cup {r}, SumOf(f, S) + o.shares)
      BY <2>3, <3>1, <3>3, <3>4, <3>5, <3>6, LinkedCounts
    <3>8. SumOf(e, S) = SumOf(f, S) /\ Summable(e, S)
      BY <2>2, <3>3, SumSame DEF Summable
    <3>9. e[r] \in Int
      BY <1>1, <3>1
    <3>10. SumOf(e, S \cup {r}) = e[r] + SumOf(e, S)
      BY <3>1, <3>8, <3>9, SumWith
    <3>11. SumOf(f, S) + o.shares = SumOf(e, S \cup {r})
      BY <1>1, <3>1, <3>3, <3>8, <3>10
    <3> QED
      BY <1>2, <2>3, <3>2, <3>7, <3>11 DEF Exact, e
  <2>4. CASE ~(t = Table(o) /\ p = o.price)
    <3>1. At(Put(ords, o), t, p) = S
      BY <2>2, <2>4
    <3>2. /\ p \in DOMAIN tables2[t] <=> p \in DOMAIN tables[t]
          /\ p \in DOMAIN tables[t] => tables2[t][p] = tables[t][p]
      BY <1>2, <2>4, OnlyItsLevel
    <3> QED
      BY <2>1, <2>2, <3>1, <3>2, ExactElsewhere
  <2> QED
    BY <2>3, <2>4
<1> QED
  BY <1>2, <1>3 DEF AllExact
-----------------------------------------------------------------------------
(* The handlers.                                                           *)

\* cancel() and execute() spoil the level they reach, and no other.
LEMMA ReduceKeepsExact ==
  ASSUME MarketInv, NEW ref \in DOMAIN live, NEW shares \in Nat, Reduce(ref, shares)
  PROVE  /\ OrdersOK(live', reduced') /\ TablesOK(levels')
         /\ DOMAIN live' \subseteq DOMAIN live
         /\ AllExact(live', levels', reduced')
<1> DEFINE o == live[ref]
           amount == Amount(o, shares)
           T == Table(o)
           after == Decreased(levels[T], o.price, amount)
<1>1. /\ OrdersOK(live, reduced) /\ TablesOK(levels)
      /\ AllExact(live, levels, reduced)
  BY DEF MarketInv
<1>2. o \in Orders /\ T \in Tables /\ LevelOf(o) = <<T[1], T[2], o.price>>
      /\ o.rem \in Nat /\ o.price \in Prices
  BY <1>1, OrderTypes DEF OrdersOK, Table
<1>3. amount \in Nat /\ amount <= o.rem
  BY <1>2 DEF Amount
<1>4. reduced' = reduced \cup {LevelOf(o)}
  BY DEF Reduce, LevelOf
<1>5. /\ \A t \in Tables : t # T => levels'[t] = levels[t]
      /\ \A p \in Prices : p # o.price =>
           /\ p \in DOMAIN levels'[T] <=> p \in DOMAIN levels[T]
           /\ p \in DOMAIN levels[T] => levels'[T][p] = levels[T][p]
      /\ TablesOK(levels')
  <2>1. ASSUME NEW table, levels' = [levels EXCEPT ![T] = table],
               \A p \in Prices : p # o.price =>
                 /\ p \in DOMAIN table <=> p \in DOMAIN levels[T]
                 /\ p \in DOMAIN levels[T] => table[p] = levels[T][p]
        PROVE  <1>5!1 /\ <1>5!2 /\ <1>5!3
    <3>1. /\ levels' = [t \in Tables |-> levels'[t]]
          /\ \A t \in Tables : levels'[t] = IF t = T THEN table ELSE levels[t]
      BY <1>1, <1>2, <2>1 DEF TablesOK
    <3> QED
      BY <1>2, <2>1, <3>1 DEF TablesOK
  <2>2. CASE amount = o.rem
    <3>1. levels' = [levels EXCEPT ![T] = Unlinked(after, o)]
      BY <2>2 DEF Reduce
    <3>2. \A p \in Prices : p # o.price =>
            /\ p \in DOMAIN Unlinked(after, o) <=> p \in DOMAIN levels[T]
            /\ p \in DOMAIN levels[T] => Unlinked(after, o)[p] = levels[T][p]
      BY OnlyItsLevel, OnlyDecreased
    <3> HIDE DEF after, T
    <3> QED
      BY <2>1, <3>1, <3>2
  <2>3. CASE amount # o.rem
    <3>1. levels' = [levels EXCEPT ![T] = after]
      BY <2>3 DEF Reduce
    <3>2. \A p \in Prices : p # o.price =>
            /\ p \in DOMAIN after <=> p \in DOMAIN levels[T]
            /\ p \in DOMAIN levels[T] => after[p] = levels[T][p]
      BY OnlyDecreased
    <3> HIDE DEF after, T
    <3> QED
      BY <2>1, <3>1, <3>2
  <2> QED
    BY <2>2, <2>3
<1>6. /\ OrdersOK(live', reduced) \/ ~(amount = o.rem)
      /\ OrdersOK(live', reduced') /\ DOMAIN live' \subseteq DOMAIN live
      /\ \A t \in Tables, p \in Prices : <<t[1], t[2], p>> # LevelOf(o) =>
           /\ At(live', t, p) = At(live, t, p)
           /\ \A r \in At(live, t, p) : Rems(live')[r] = Rems(live)[r]
  <2>1. \A t \in Tables, p \in Prices : <<t[1], t[2], p>> # LevelOf(o) => ref \notin At(live, t, p)
    BY <1>2 DEF At
  <2>2. CASE amount = o.rem
    <3>1. live' = Drop(live, ref)
      BY <2>2 DEF Reduce
    <3>2. WithoutOrder(live, reduced, ref, live')
      BY <1>1, <3>1, DropIs
    <3>3. OrdersOK(live', reduced) /\ DOMAIN live' \subseteq DOMAIN live
      BY <3>2 DEF WithoutOrder
    <3>4. OrdersOK(live', reduced')
      BY <1>4, <3>3 DEF OrdersOK
    <3>5. \A t \in Tables, p \in Prices : <<t[1], t[2], p>> # LevelOf(o) =>
            /\ At(live', t, p) = At(live, t, p)
            /\ \A r \in At(live, t, p) : Rems(live')[r] = Rems(live)[r]
      BY <2>1, <3>2 DEF WithoutOrder, At
    <3> QED
      BY <3>3, <3>4, <3>5
  <2>3. CASE amount # o.rem
    <3> DEFINE left == [o EXCEPT !.rem = o.rem - amount]
    <3>1. live' = [live EXCEPT ![ref] = left]
      BY <2>3 DEF Reduce
    <3>2. left \in Orders /\ Table(left) = Table(o) /\ left.price = o.price
          /\ LevelOf(left) = LevelOf(o)
      <4> HIDE DEF o, amount
      <4>1. o.rem - amount \in Nat
        BY <1>2, <1>3
      <4> QED
        BY <1>2, <4>1 DEF Orders, Table, LevelOf
    <3> HIDE DEF left
    <3>3. /\ live' = [r \in DOMAIN live' |-> live'[r]] /\ DOMAIN live' = DOMAIN live
          /\ \A r \in DOMAIN live : live'[r] = IF r = ref THEN left ELSE live[r]
      BY <1>1, <3>1 DEF OrdersOK
    <3>4. OrdersOK(live', reduced')
      BY <1>1, <1>4, <3>2, <3>3 DEF OrdersOK
    <3>5. \A t \in Tables, p \in Prices : At(live', t, p) = At(live, t, p)
      BY <3>2, <3>3 DEF At
    <3>6. \A r \in DOMAIN live \ {ref} : Rems(live')[r] = Rems(live)[r]
      BY <3>3 DEF Rems
    <3>7. \A t \in Tables, p \in Prices : <<t[1], t[2], p>> # LevelOf(o) =>
            /\ At(live', t, p) = At(live, t, p)
            /\ \A r \in At(live, t, p) : Rems(live')[r] = Rems(live)[r]
      BY <2>1, <3>5, <3>6 DEF At
    <3> QED
      BY <2>3, <3>3, <3>4, <3>7
  <2> QED
    BY <2>2, <2>3
<1>7. ASSUME NEW t \in Tables, NEW p \in Prices, <<t[1], t[2], p>> \notin reduced'
      PROVE  Exact(levels'[t], live', t, p)
  <2>1. <<t[1], t[2], p>> # LevelOf(o) /\ <<t[1], t[2], p>> \notin reduced
    BY <1>4, <1>7
  <2>2. Exact(levels[t], live, t, p)
    BY <1>1, <2>1 DEF AllExact
  <2>3. t # T \/ p # o.price
    BY <1>2, <2>1
  <2>4. /\ p \in DOMAIN levels'[t] <=> p \in DOMAIN levels[t]
        /\ p \in DOMAIN levels[t] => levels'[t][p] = levels[t][p]
    BY <1>5, <2>3
  <2>5. /\ At(live', t, p) = At(live, t, p)
        /\ \A r \in At(live, t, p) : Rems(live')[r] = Rems(live)[r]
    BY <1>6, <2>1
  <2> HIDE DEF o
  <2> QED
    BY <1>1, <2>2, <2>4, <2>5, ExactElsewhere
<1> QED
  BY <1>5, <1>6, <1>7 DEF AllExact

\* add() puts the order where there is room and drops it where there is none.
LEMMA AddToKeepsExact ==
  ASSUME NEW ords, NEW red, OrdersOK(ords, red), NEW tables, TablesOK(tables),
         AllExact(ords, tables, red), NEW o \in Orders, o.rem = o.shares,
         o.ref \notin DOMAIN ords, AddTo(ords, tables, o)
  PROVE  /\ OrdersOK(live', red) /\ TablesOK(levels')
         /\ DOMAIN live' \subseteq DOMAIN ords \cup {o.ref}
         /\ AllExact(live', levels', red)
         /\ Cardinality(DOMAIN ords) < PoolSize => o.ref \in DOMAIN live'
<1>1. CASE Cardinality(DOMAIN ords) < PoolSize
  <2>1. live' = Put(ords, o) /\ levels' = [tables EXCEPT ![Table(o)] = Linked(@, o)]
    BY <1>1 DEF AddTo, PoolHasRoom
  <2>2. TablesOK(levels') /\ AllExact(live', levels', red)
    BY <1>1, <2>1, AddKeepsExact
  <2>3. WithOrder(ords, red, o, live')
    BY <1>1, <2>1, PutIs
  <2> QED
    BY <2>2, <2>3 DEF WithOrder
<1>2. CASE ~(Cardinality(DOMAIN ords) < PoolSize)
  BY <1>2 DEF AddTo, PoolHasRoom
<1> QED
  BY <1>1, <1>2

LEMMA SlotIsOrder ==
  ASSUME NEW ref \in Refs, NEW loc \in Locates, NEW side \in Sides, NEW price \in Prices,
         NEW shares \in Quantities
  PROVE  LET o == Slot(ref, loc, side, price, shares)
         IN  o \in Orders /\ o.rem = o.shares /\ o.ref = ref
<1>1. shares \in Nat
  BY MarketConstants
<1> QED
  BY <1>1 DEF Slot, Orders

\* A replace removes before it adds, so that its order finds a slot.
LEMMA ReplaceKeepsExact ==
  ASSUME MarketInv, NEW old \in Refs, NEW new \in Refs, NEW price \in Prices,
         NEW shares \in Quantities, HandleReplace(old, new, price, shares)
  PROVE  MarketInv' /\ new \in DOMAIN live'
<1> DEFINE o == live[old]
           rest == Drop(live, old)
           tables == [levels EXCEPT ![Table(o)] = Unlinked(@, o)]
           s == Slot(new, o.locate, o.side, price, shares)
<1>1. /\ old \in DOMAIN live /\ new \notin used /\ used' = used \cup {new}
      /\ UNCHANGED reduced
      /\ AddTo(rest, tables, s)
  BY DEF HandleReplace
<1>2. /\ OrdersOK(live, reduced) /\ TablesOK(levels) /\ DOMAIN live \subseteq used
      /\ AllExact(live, levels, reduced)
  BY DEF MarketInv
<1>3. o \in Orders
  BY <1>1, <1>2 DEF OrdersOK
<1>4. s \in Orders /\ s.rem = s.shares /\ s.ref = new
  BY <1>3, SlotIsOrder DEF Orders
<1>5. TablesOK(tables) /\ AllExact(rest, tables, reduced)
  BY <1>1, <1>2, RemoveKeepsExact
<1>6. /\ OrdersOK(rest, reduced) /\ Cardinality(DOMAIN rest) < PoolSize
      /\ DOMAIN rest \subseteq DOMAIN live
  <2>1. WithoutOrder(live, reduced, old, rest)
    BY <1>1, <1>2, DropIs
  <2> HIDE DEF rest
  <2> QED
    BY <2>1 DEF WithoutOrder
<1>7. new \notin DOMAIN rest
  BY <1>1, <1>2, <1>6
<1> HIDE DEF o, rest, tables, s
<1>8. /\ OrdersOK(live', reduced) /\ TablesOK(levels')
      /\ DOMAIN live' \subseteq DOMAIN rest \cup {new}
      /\ AllExact(live', levels', reduced)
      /\ new \in DOMAIN live'
  BY <1>1, <1>4, <1>5, <1>6, <1>7, AddToKeepsExact
<1> QED
  BY <1>1, <1>2, <1>6, <1>8 DEF MarketInv

LEMMA HandlerKeeps ==
  ASSUME MarketInv, Next
  PROVE  MarketInv'
<1>0. /\ OrdersOK(live, reduced) /\ TablesOK(levels) /\ DOMAIN live \subseteq used
      /\ AllExact(live, levels, reduced) /\ Quantities \subseteq Nat
  BY MarketConstants DEF MarketInv
<1>1. ASSUME NEW loc \in Locates, NEW ref \in Refs, NEW side \in Sides, NEW price \in Prices,
             NEW shares \in Quantities, HandleAdd(loc, ref, side, price, shares)
      PROVE  MarketInv'
  <2> DEFINE s == Slot(ref, loc, side, price, shares)
  <2>1. /\ ref \notin used /\ used' = used \cup {ref} /\ UNCHANGED reduced
        /\ AddTo(live, levels, s)
    BY <1>1 DEF HandleAdd
  <2>2. s \in Orders /\ s.rem = s.shares /\ s.ref = ref
    BY SlotIsOrder
  <2>3. ref \notin DOMAIN live
    BY <1>0, <2>1
  <2> HIDE DEF s
  <2>4. /\ OrdersOK(live', reduced) /\ TablesOK(levels')
        /\ DOMAIN live' \subseteq DOMAIN live \cup {ref}
        /\ AllExact(live', levels', reduced)
    BY <1>0, <2>1, <2>2, <2>3, AddToKeepsExact
  <2> QED
    BY <1>0, <2>1, <2>4 DEF MarketInv
<1>2. ASSUME NEW ref \in Refs, HandleDelete(ref)
      PROVE  MarketInv'
  <2>1. /\ ref \in DOMAIN live /\ live' = Drop(live, ref) /\ UNCHANGED <<used, reduced>>
        /\ levels' = [levels EXCEPT ![Table(live[ref])] = Unlinked(@, live[ref])]
    BY <1>2 DEF HandleDelete
  <2>2. TablesOK(levels') /\ AllExact(live', levels', reduced)
    BY <1>0, <2>1, RemoveKeepsExact
  <2>3. OrdersOK(live', reduced) /\ DOMAIN live' \subseteq DOMAIN live
    <3>1. WithoutOrder(live, reduced, ref, live')
      BY <1>0, <2>1, DropIs
    <3> QED
      BY <3>1 DEF WithoutOrder
  <2> QED
    BY <1>0, <2>1, <2>2, <2>3 DEF MarketInv
<1>3. ASSUME NEW ref \in DOMAIN live, NEW shares \in Quantities, Reduce(ref, shares), used' = used
      PROVE  MarketInv'
  BY <1>0, <1>3, ReduceKeepsExact DEF MarketInv
<1>4. CASE UNCHANGED <<live, levels, reduced>> /\ used' = used
  BY <1>4 DEF MarketInv
<1>5. CASE Add \/ Delete \/ Replace
  BY <1>1, <1>2, <1>5, ReplaceKeepsExact DEF Add, Delete, Replace
<1>6. CASE Cancel \/ Execute
  BY <1>3, <1>6 DEF Cancel, HandleCancel, Execute, HandleExecute
<1>7. CASE Trade
  BY <1>3, <1>4, <1>7 DEF Trade, HandleTrade
<1> QED
  BY <1>5, <1>6, <1>7 DEF Next
-----------------------------------------------------------------------------
(* The theorems.                                                           *)

\* What rests at a level is the sum of what is left of its orders.
LEMMA RestingIsSum ==
  ASSUME OrdersOK(live, reduced), NEW t \in Tables, NEW p \in Prices
  PROVE  Resting(t, p) = SumOf(Rems(live), At(live, t, p))
<1> DEFINE sum == SumOf(Rems(live), OrdersAt(t, p))
<1>1. At(live, t, p) = OrdersAt(t, p) /\ OrdersAt(t, p) \subseteq DOMAIN live
  BY DEF At, OrdersAt
<1>2. Summable(Rems(live), OrdersAt(t, p))
  <2>1. IsFiniteSet(OrdersAt(t, p))
    BY <1>1, MarketConstants, FS_Subset DEF OrdersOK
  <2> QED
    BY <1>1, <2>1 DEF Summable, Rems, OrdersOK, Orders
<1>3. PICK g : Unfolds(g, Rems(live), OrdersAt(t, p))
  BY <1>2, SumUnfolds
<1>4. \A h : Unfolds(h, Rems(live), OrdersAt(t, p)) => h[OrdersAt(t, p)] = sum
  BY <1>2, SumUnfolds
<1>5. ASSUME NEW h
      PROVE  h = [s \in SUBSET OrdersAt(t, p) |-> IF s = {} THEN 0
                    ELSE live[CHOOSE x \in s : TRUE].rem + h[s \ {CHOOSE x \in s : TRUE}]]
             <=> Unfolds(h, Rems(live), OrdersAt(t, p))
  <2>1. ASSUME NEW s \in SUBSET OrdersAt(t, p), s # {}
        PROVE  Rems(live)[AnyOf(s)] = live[CHOOSE x \in s : TRUE].rem
    <3>1. AnyOf(s) \in DOMAIN live
      BY <1>1, <2>1, AnyOfIsIn
    <3> QED
      BY <3>1 DEF Rems, AnyOf
  <2> QED
    BY <2>1 DEF Unfolds, AnyOf
<1> HIDE DEF sum
<1>6. \A h : h = [s \in SUBSET OrdersAt(t, p) |-> IF s = {} THEN 0
                    ELSE live[CHOOSE x \in s : TRUE].rem + h[s \ {CHOOSE x \in s : TRUE}]]
             => h[OrdersAt(t, p)] = sum
  BY <1>4, <1>5
<1>7. g = [s \in SUBSET OrdersAt(t, p) |-> IF s = {} THEN 0
             ELSE live[CHOOSE x \in s : TRUE].rem + g[s \ {CHOOSE x \in s : TRUE}]]
  BY <1>3, <1>5
<1>8. Resting(t, p) = sum
  BY <1>6, <1>7 DEF Resting, MapThenSumSet, MapThenFoldSet
<1> QED
  BY <1>1, <1>8 DEF sum

LEMMA InitIsExact == Init => MarketInv
<1> SUFFICES ASSUME Init PROVE MarketInv
  OBVIOUS
<1>1. DOMAIN live = {} /\ live = [r \in {} |-> {}]
  BY DEF Init
<1>2. OrdersOK(live, reduced) /\ DOMAIN live \subseteq used
  <2>1. Cardinality(DOMAIN live) <= PoolSize
    BY <1>1, WordType, FS_EmptySet
  <2> QED
    BY <1>1, <2>1 DEF OrdersOK
<1>3. TablesOK(levels)
  BY DEF Init, TablesOK
<1>4. AllExact(live, levels, reduced)
  <2> SUFFICES ASSUME NEW t \in Tables, NEW p \in Prices
               PROVE  Exact(levels[t], live, t, p)
    BY DEF AllExact
  <2>1. At(live, t, p) = {}
    BY <1>1 DEF At
  <2>2. p \notin DOMAIN levels[t]
    BY DEF Init
  <2> QED
    BY <2>1, <2>2 DEF Exact, Counts
<1> QED
  BY <1>2, <1>3, <1>4 DEF MarketInv

\* The handlers of order_book.h keep the index within the pool, and with it the
\* count and the total of every level that no reduction has touched.
THEOREM MarketInvariant == Spec => []MarketInv
<1>1. MarketInv /\ [Next]_vars => MarketInv'
  <2>1. MarketInv /\ UNCHANGED vars => MarketInv'
    BY DEF vars, MarketInv
  <2> QED
    BY <2>1, HandlerKeeps
<1> QED
  BY <1>1, InitIsExact, PTL DEF Spec

\* UntouchedLevelsExact for every instance: without partial cancels and executions
\* the strategies' book is the market's, level by level (add, unlink_and_free).
THEOREM UntouchedAlwaysExact == Spec => []UntouchedLevelsExact
<1>1. MarketInv => UntouchedLevelsExact
  <2> SUFFICES ASSUME MarketInv, NEW t \in Tables, NEW p \in Prices,
                      <<t[1], t[2], p>> \notin reduced
               PROVE  /\ p \in DOMAIN levels[t] <=> OrdersAt(t, p) # {}
                      /\ p \in DOMAIN levels[t] =>
                           levels[t][p] = [count |-> Cardinality(OrdersAt(t, p)),
                                           total |-> Resting(t, p) % Word]
    BY DEF UntouchedLevelsExact
  <2>1. Exact(levels[t], live, t, p)
    BY DEF MarketInv, AllExact
  <2>2. Resting(t, p) = SumOf(Rems(live), At(live, t, p)) /\ OrdersAt(t, p) = At(live, t, p)
    BY RestingIsSum DEF MarketInv, At, OrdersAt
  <2> QED
    BY <2>1, <2>2 DEF Exact, Counts
<1> QED
  BY <1>1, MarketInvariant, PTL

\* ReplacementTakesSlot for every instance: replace() frees the slot of the old order
\* before it asks for one, so that a full pool cannot lose the order.
THEOREM ReplacementAlwaysTakesSlot == Spec => ReplacementTakesSlot
<1> DEFINE Taken == \A new \in used' \ used, old \in DOMAIN live \ DOMAIN live' :
                      new \in DOMAIN live'
<1>1. MarketInv /\ [Next]_vars => [Taken]_vars
  <2> SUFFICES ASSUME MarketInv, Next, NEW new \in used' \ used,
                      NEW old \in DOMAIN live \ DOMAIN live'
               PROVE  new \in DOMAIN live'
    BY DEF vars
  <2>1. Add \/ Replace
    BY DEF Next, Delete, HandleDelete, Cancel, HandleCancel, Execute, HandleExecute,
           Trade, HandleTrade
  <2>2. ASSUME NEW loc \in Locates, NEW ref \in Refs, NEW side \in Sides, NEW price \in Prices,
               NEW shares \in Quantities, HandleAdd(loc, ref, side, price, shares)
        PROVE  FALSE
    <3> DEFINE s == Slot(ref, loc, side, price, shares)
    <3>1. live' = Put(live, s) \/ live' = live
      BY <2>2 DEF HandleAdd, AddTo
    <3> QED
      BY <3>1 DEF Put
  <2>3. ASSUME NEW o \in Refs, NEW n \in Refs, NEW price \in Prices,
               NEW shares \in Quantities, HandleReplace(o, n, price, shares)
        PROVE  new \in DOMAIN live'
    <3>1. n \in DOMAIN live'
      BY <2>3, ReplaceKeepsExact
    <3>2. used' = used \cup {n}
      BY <2>3 DEF HandleReplace
    <3> QED
      BY <3>1, <3>2
  <2> QED
    BY <2>1, <2>2, <2>3 DEF Add, Replace
<1> QED
  BY <1>1, MarketInvariant, PTL DEF Spec, ReplacementTakesSlot
=============================================================================
