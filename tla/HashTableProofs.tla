-------------------------- MODULE HashTableProofs --------------------------
(***************************************************************************)
(* Theorems about the two hash structures of the books.  PriceLevelTable,   *)
(* for any set of prices, any hash of them, any capacity and either side:   *)
(* every level is found where it is, the cached best price is the best, and *)
(* the table implements a map.  OrderMap, for any number of threads, ids,   *)
(* nodes and buckets, any hash and any interleaving of the accesses: no     *)
(* node is given out twice, and a bucket whose ids one thread has to itself *)
(* answers every lookup rightly and loses no node.                          *)
(***************************************************************************)
EXTENDS PriceLevelTable, OrderMap, SetSums

\* The n-th slot of the probe sequence of p under the hash h (Probe under the state's).
ProbeOf(h, c, p, n) == ((h[p] \div (MaxCap \div c)) + n) % c

Hashes == [Prices -> 0..(MaxCap - 1)]
Capacities == {c \in Nat : 0 < c /\ c <= MaxCap}
SlotValues == [price : Prices \cup {Empty, Tombstone}, lvl : Int]
Indices(c) == 0..(c - 1)
Tables(c) == [Indices(c) -> SlotValues]

\* A price has at most one slot.
Once(t, c) ==
  \A i, j \in Indices(c) : t[i].price \in Prices /\ t[i].price = t[j].price => i = j
\* No empty slot lies on the way to a level.
Reached(h, t, c) ==
  \A p \in Prices : \A n \in Indices(c) :
    t[ProbeOf(h, c, p, n)].price = p =>
      \A k \in Indices(n) : t[ProbeOf(h, c, p, k)].price # Empty
Sound(h, t, c) ==
  /\ h \in Hashes /\ c \in Capacities /\ t \in Tables(c)
  /\ Once(t, c) /\ Reached(h, t, c)

\* The prices of table t, and the map it stands for.
Held(t, c) == {t[i].price : i \in Indices(c)} \ {Empty, Tombstone}
LevelIn(t, c, p) == t[CHOOSE i \in Indices(c) : t[i].price = p].lvl
Contents(t, c) == [p \in Held(t, c) |-> LevelIn(t, c, p)]

\* b is the best price of ps for a side that prefers what Better says.
BestAmong(b, ps) ==
  IF ps = {} THEN b = None ELSE b \in ps /\ \A q \in ps : ~Better(q, b)

TableInv ==
  /\ isBid \in BOOLEAN
  /\ Sound(hash, slots, cap)
  /\ BestAmong(best, Held(slots, cap))
-----------------------------------------------------------------------------
(* Arithmetic of the probe sequence.                                       *)

\* A probe sequence starts somewhere and wraps round at the end of the table.
LEMMA Wraps ==
  ASSUME NEW c \in Nat \ {0}, NEW x \in Nat, NEW n \in Indices(c)
  PROVE  (x + n) % c = IF (x % c) + n < c THEN (x % c) + n ELSE (x % c) + n - c
<1> USE DEF Indices
<1> DEFINE q == x \div c
           r == x % c
           p == (x + n) \div c
           s == (x + n) % c
<1>1. r \in Indices(c) /\ x = c * q + r /\ q \in Int
  BY Euclid
<1>2. s \in Indices(c) /\ x + n = c * p + s /\ p \in Int
  BY Euclid
<1> HIDE DEF q, r, p, s
<1>3. CASE r + n < c
  <2>1. c * p + s = c * q + (r + n)
    BY <1>1, <1>2
  <2>2. r + n \in Indices(c)
    BY <1>1, <1>3
  <2>3. s = r + n
    BY <2>1, <2>2, <1>1, <1>2, RemainderUnique
  <2> QED
    BY <2>3, <1>3 DEF s, r
<1>4. CASE ~(r + n < c)
  <2>1. c * (q + 1) = c * q + c
    BY <1>1
  <2>2. c * p + s = c * (q + 1) + (r + n - c)
    BY <1>1, <1>2, <2>1
  <2>3. r + n - c \in Indices(c) /\ q + 1 \in Int
    BY <1>1, <1>4
  <2>4. s = r + n - c
    BY <2>2, <2>3, <1>1, <1>2, RemainderUnique
  <2> QED
    BY <2>4, <1>4 DEF s, r
<1> QED
  BY <1>3, <1>4 DEF r

\* The probe sequence of a price runs once through all slots.
LEMMA ProbesAllOnce ==
  ASSUME NEW h \in Hashes, NEW c \in Capacities, NEW p \in Prices
  PROVE  /\ \A n \in Indices(c) : ProbeOf(h, c, p, n) \in Indices(c)
         /\ \A n, k \in Indices(c) : ProbeOf(h, c, p, n) = ProbeOf(h, c, p, k) => n = k
         /\ \A i \in Indices(c) : \E n \in Indices(c) : ProbeOf(h, c, p, n) = i
<1> DEFINE start == h[p] \div (MaxCap \div c)
           r == start % c
<1>1. c \in Nat \ {0} /\ MaxCap \div c \in Nat \ {0}
  <2>1. c \in Nat \ {0} /\ c <= MaxCap /\ MaxCap \in Nat
    BY TableConstants DEF Capacities
  <2>2. MaxCap \div c \in Nat /\ MaxCap % c \in Indices(c)
        /\ MaxCap = c * (MaxCap \div c) + (MaxCap % c)
    BY <2>1, Euclid DEF Indices
  <2>3. CASE MaxCap \div c = 0
    <3>1. MaxCap = MaxCap % c
      BY <2>1, <2>2, <2>3
    <3> QED
      BY <2>1, <2>2, <3>1 DEF Indices
  <2> QED
    BY <2>1, <2>2, <2>3
<1>2. start \in Nat
  <2>1. h[p] \in Nat
    BY TableConstants DEF Hashes
  <2> QED
    BY <1>1, <2>1, Euclid
<1>3. r \in Indices(c)
  BY <1>1, <1>2, Euclid DEF Indices
<1>4. \A n \in Indices(c) : ProbeOf(h, c, p, n) = IF r + n < c THEN r + n ELSE r + n - c
  BY <1>1, <1>2, Wraps DEF ProbeOf
<1> HIDE DEF r
<1>5. ASSUME NEW i \in Indices(c)
      PROVE  \E n \in Indices(c) : ProbeOf(h, c, p, n) = i
  <2>1. CASE i >= r
    <3>1. i - r \in Indices(c) /\ r + (i - r) = i
      BY <1>1, <1>3, <2>1 DEF Indices
    <3> QED
      BY <1>1, <1>4, <3>1 DEF Indices
  <2>2. CASE ~(i >= r)
    <3>1. i - r + c \in Indices(c) /\ r + (i - r + c) - c = i /\ ~(r + (i - r + c) < c)
      BY <1>1, <1>3, <2>2 DEF Indices
    <3> QED
      BY <1>1, <1>4, <3>1
  <2> QED
    BY <2>1, <2>2
<1>6. ASSUME NEW n \in Indices(c), NEW k \in Indices(c),
             ProbeOf(h, c, p, n) = ProbeOf(h, c, p, k)
      PROVE  n = k
  BY <1>1, <1>3, <1>4, <1>6 DEF Indices
<1>7. \A n \in Indices(c) : ProbeOf(h, c, p, n) \in Indices(c)
  BY <1>1, <1>3, <1>4 DEF Indices
<1> QED
  BY <1>5, <1>6, <1>7
-----------------------------------------------------------------------------
(* What a search finds.                                                    *)

LEMMA ProbeIsProbeOf ==
  \A n \in Indices(cap), p \in Prices : Probe(cap, p, n) = ProbeOf(hash, cap, p, n)
BY DEF Probe, ProbeOf

\* A search that ends has gone through nothing but other prices and tombstones.
LEMMA EndIsFirst ==
  ASSUME Sound(hash, slots, cap), NEW p \in Prices, ~Full(p)
  PROVE  \E n \in Indices(cap) :
           /\ End(p) = ProbeOf(hash, cap, p, n)
           /\ slots[End(p)].price \in {p, Empty}
           /\ \A k \in Indices(n) : slots[ProbeOf(hash, cap, p, k)].price \notin {p, Empty}
<1> DEFINE n == CHOOSE n \in Ends(p) : \A k \in Ends(p) : n <= k
<1>1. cap \in Nat \ {0}
  BY DEF Sound, Capacities
<1>2. Ends(p) \in SUBSET Nat /\ Ends(p) # {} /\ Ends(p) \subseteq Indices(cap)
  BY <1>1 DEF Full, Ends, Indices
<1>3. n \in Ends(p) /\ \A k \in Ends(p) : n <= k
  <2> HIDE DEF n
  <2>1. \E m \in Ends(p) : \A k \in Ends(p) : m <= k
    BY <1>2, LeastNat
  <2> QED
    BY <2>1 DEF n
<1>4. End(p) = Probe(cap, p, n)
  BY DEF End
<1> HIDE DEF n
<1>5. ASSUME NEW k \in Indices(n)
      PROVE  slots[ProbeOf(hash, cap, p, k)].price \notin {p, Empty}
  <2>1. k \in Indices(cap) /\ ~(n <= k)
    BY <1>1, <1>2, <1>3 DEF Indices
  <2>2. k \notin Ends(p)
    BY <1>3, <2>1
  <2> QED
    BY <2>1, <2>2, ProbeIsProbeOf DEF Ends, Indices
<1>6. slots[End(p)].price \in {p, Empty}
  BY <1>3, <1>4 DEF Ends
<1> QED
  BY <1>2, <1>3, <1>4, <1>5, <1>6, ProbeIsProbeOf

\* A level is found where it is.
LEMMA HeldIsFound ==
  ASSUME Sound(hash, slots, cap), NEW p \in Prices, NEW i \in Indices(cap), slots[i].price = p
  PROVE  Found(p) /\ End(p) = i
<1>1. PICK n \in Indices(cap) : ProbeOf(hash, cap, p, n) = i
  BY ProbesAllOnce DEF Sound
<1>2. ~Full(p)
  BY <1>1, ProbeIsProbeOf DEF Full, Ends, Indices
<1>3. PICK m \in Indices(cap) :
        /\ End(p) = ProbeOf(hash, cap, p, m)
        /\ slots[End(p)].price \in {p, Empty}
        /\ \A k \in Indices(m) : slots[ProbeOf(hash, cap, p, k)].price \notin {p, Empty}
  BY <1>2, EndIsFirst
<1>4. cap \in Nat
  BY DEF Sound, Capacities
<1>5. ~(n < m)
  BY <1>1, <1>3, <1>4 DEF Indices
<1>6. CASE m < n
  <2>1. m \in Indices(n)
    BY <1>4, <1>6 DEF Indices
  <2>2. slots[End(p)].price # Empty
    BY <1>1, <1>3, <2>1 DEF Sound, Reached
  <2>3. slots[End(p)].price = p /\ End(p) \in Indices(cap)
    BY <1>3, <2>2, ProbesAllOnce DEF Sound
  <2>4. End(p) = i
    BY <2>3 DEF Sound, Once
  <2> QED
    BY <1>2, <2>3, <2>4 DEF Found
<1>7. CASE m = n
  BY <1>1, <1>2, <1>3, <1>7 DEF Found
<1> QED
  BY <1>4, <1>5, <1>6, <1>7 DEF Indices

LEMMA FoundIsHeld ==
  ASSUME Sound(hash, slots, cap), NEW p \in Prices, Found(p)
  PROVE  End(p) \in Indices(cap) /\ slots[End(p)].price = p
<1>1. ~Full(p) /\ slots[End(p)].price = p
  BY DEF Found
<1>2. PICK n \in Indices(cap) : End(p) = ProbeOf(hash, cap, p, n)
  BY <1>1, EndIsFirst
<1> QED
  BY <1>1, <1>2, ProbesAllOnce DEF Sound

\* No price is one of the marks of a slot without a level.
LEMMA NoPriceIsAMark == Empty \notin Prices /\ Tombstone \notin Prices /\ Prices \subseteq Nat
BY TableConstants DEF Empty, Tombstone

LEMMA HeldPrices ==
  ASSUME NEW c \in Capacities, NEW t \in Tables(c)
  PROVE  /\ Held(t, c) \subseteq Prices
         /\ \A p \in Prices : p \in Held(t, c) <=> \E i \in Indices(c) : t[i].price = p
BY NoPriceIsAMark DEF Held, Tables, SlotValues

LEMMA LevelInSlot ==
  ASSUME NEW c \in Capacities, NEW t \in Tables(c), Once(t, c),
         NEW i \in Indices(c), t[i].price \in Prices
  PROVE  LevelIn(t, c, t[i].price) = t[i].lvl
<1> DEFINE j == CHOOSE j \in Indices(c) : t[j].price = t[i].price
<1>1. j \in Indices(c) /\ t[j].price = t[i].price
  OBVIOUS
<1>2. LevelIn(t, c, t[i].price) = t[j].lvl
  BY DEF LevelIn
<1> HIDE DEF j
<1>3. j = i
  BY <1>1 DEF Once
<1> QED
  BY <1>2, <1>3

\* What is read through find is the map the table stands for.
LEMMA ReadsContents ==
  Sound(hash, slots, cap) =>
    /\ \A p \in Prices : Found(p) <=> p \in Held(slots, cap)
    /\ \A i \in Indices(cap) : slots[i].price \in Prices =>
         Found(slots[i].price) /\ End(slots[i].price) = i
    /\ \A p \in Held(slots, cap) : Find(p) = Contents(slots, cap)[p]
    /\ DOMAIN slots = Indices(cap)
<1> SUFFICES ASSUME Sound(hash, slots, cap)
             PROVE  /\ \A p \in Prices : Found(p) <=> p \in Held(slots, cap)
                    /\ \A i \in Indices(cap) : slots[i].price \in Prices =>
                         Found(slots[i].price) /\ End(slots[i].price) = i
                    /\ \A p \in Held(slots, cap) : Find(p) = Contents(slots, cap)[p]
                    /\ DOMAIN slots = Indices(cap)
  OBVIOUS
<1>1. cap \in Capacities /\ slots \in Tables(cap) /\ Once(slots, cap)
  BY DEF Sound
<1>2. \A p \in Prices : Found(p) <=> p \in Held(slots, cap)
  BY <1>1, HeldPrices, HeldIsFound, FoundIsHeld
<1>3. ASSUME NEW p \in Held(slots, cap)
      PROVE  Find(p) = Contents(slots, cap)[p]
  <2>1. p \in Prices /\ End(p) \in Indices(cap) /\ slots[End(p)].price = p
    BY <1>1, <1>2, HeldPrices, FoundIsHeld
  <2>2. LevelIn(slots, cap, p) = slots[End(p)].lvl
    BY <1>1, <2>1, LevelInSlot
  <2> QED
    BY <2>2 DEF Find, Contents
<1> QED
  BY <1>1, <1>2, <1>3, HeldIsFound DEF Tables
-----------------------------------------------------------------------------
(* What placing and erasing a level do to a table.                         *)

\* The map at a price held.
LEMMA ContentsOf ==
  ASSUME NEW c \in Capacities, NEW t \in Tables(c), Once(t, c),
         NEW i \in Indices(c), t[i].price \in Prices
  PROVE  t[i].price \in Held(t, c) /\ Contents(t, c)[t[i].price] = t[i].lvl
<1>1. t[i].price \in Held(t, c)
  BY HeldPrices
<1> QED
  BY <1>1, LevelInSlot DEF Contents

\* Slot i of t may take a level of p: it holds nothing or p, p has no other slot, and
\* no empty slot comes before it.
MayPut(h, c, t, p, i) ==
  /\ t[i].price \in Prices => t[i].price = p
  /\ \A j \in Indices(c) : t[j].price = p => j = i
  /\ \E n \in Indices(c) :
       /\ i = ProbeOf(h, c, p, n)
       /\ \A k \in Indices(n) : t[ProbeOf(h, c, p, k)].price # Empty
\* Table u holds what t does, with l for p.
HasPut(h, c, t, p, l, u) ==
  /\ Sound(h, u, c)
  /\ Held(u, c) = Held(t, c) \cup {p}
  /\ Contents(u, c) =
       [q \in Held(t, c) \cup {p} |-> IF q = p THEN l ELSE Contents(t, c)[q]]

LEMMA PutKeeps ==
  ASSUME NEW h, NEW c, NEW t, Sound(h, t, c), NEW p \in Prices, NEW l \in Int,
         NEW i, MayPut(h, c, t, p, i),
         NEW u, u = [t EXCEPT ![i] = [price |-> p, lvl |-> l]]
  PROVE  HasPut(h, c, t, p, l, u)
<1> USE DEF MayPut
<1> PICK n \in Indices(c) :
      /\ i = ProbeOf(h, c, p, n)
      /\ \A k \in Indices(n) : t[ProbeOf(h, c, p, k)].price # Empty
  OBVIOUS
<1>1. h \in Hashes /\ c \in Capacities /\ t \in Tables(c) /\ Once(t, c) /\ Reached(h, t, c)
  BY DEF Sound
<1>2. i \in Indices(c)
  BY <1>1, ProbesAllOnce
<1>3. /\ u \in Tables(c)
      /\ \A j \in Indices(c) : u[j] = IF j = i THEN [price |-> p, lvl |-> l] ELSE t[j]
  BY <1>1, <1>2 DEF Tables, SlotValues
<1>4. \A j \in Indices(c) : u[j].price = IF j = i THEN p ELSE t[j].price
  BY <1>3
<1>5. Once(u, c)
  BY <1>1, <1>2, <1>4 DEF Once
<1>6. ASSUME NEW q \in Prices, NEW m \in Indices(c), u[ProbeOf(h, c, q, m)].price = q,
             NEW k \in Indices(m)
      PROVE  u[ProbeOf(h, c, q, k)].price # Empty
  <2>1. c \in Nat /\ k \in Indices(c)
    BY <1>1 DEF Indices, Capacities
  <2>2. ProbeOf(h, c, q, m) \in Indices(c) /\ ProbeOf(h, c, q, k) \in Indices(c)
    BY <1>1, <2>1, ProbesAllOnce
  <2>3. CASE ProbeOf(h, c, q, m) = i
    <3>1. q = p
      BY <1>2, <1>4, <1>6, <2>3
    <3>2. m = n
      BY <1>1, <2>3, <3>1, ProbesAllOnce
    <3> QED
      BY <1>4, <2>2, <3>1, <3>2, NoPriceIsAMark
  <2>4. CASE ProbeOf(h, c, q, m) # i
    <3>1. t[ProbeOf(h, c, q, m)].price = q
      BY <1>4, <1>6, <2>2, <2>4
    <3>2. t[ProbeOf(h, c, q, k)].price # Empty
      BY <1>1, <3>1 DEF Reached
    <3> QED
      BY <1>4, <2>2, <3>2, NoPriceIsAMark
  <2> QED
    BY <2>3, <2>4
<1>7. Sound(h, u, c)
  BY <1>1, <1>3, <1>5, <1>6 DEF Sound, Reached
<1>21. /\ Held(u, c) \subseteq Prices
      /\ \A q \in Prices : q \in Held(u, c) <=> \E j \in Indices(c) : u[j].price = q
  BY <1>1, <1>3, HeldPrices, Zenon
<1>22. /\ Held(t, c) \subseteq Prices
      /\ \A q \in Prices : q \in Held(t, c) <=> \E j \in Indices(c) : t[j].price = q
  BY <1>1, HeldPrices, Zenon
<1>8. ASSUME NEW q \in Prices
      PROVE  q \in Held(u, c) <=> q \in Held(t, c) \cup {p}
  <2>1. (\E j \in Indices(c) : u[j].price = q) <=> q = p \/ \E j \in Indices(c) : t[j].price = q
    <3>1. CASE q = p
      BY <1>2, <1>4, <3>1
    <3>2. ASSUME q # p, NEW j \in Indices(c), u[j].price = q PROVE t[j].price = q
      BY <1>4, <3>2
    <3>3. ASSUME q # p, NEW j \in Indices(c), t[j].price = q PROVE u[j].price = q
      BY <1>4, <3>3 DEF MayPut
    <3> QED
      BY <3>1, <3>2, <3>3, Zenon
  <2> QED
    BY <1>21, <1>22, <2>1, Zenon
<1>9. Held(u, c) = Held(t, c) \cup {p}
  <2>1. Held(t, c) \cup {p} \subseteq Prices
    BY <1>22, Zenon
  <2> QED
    BY <1>21, <1>8, <2>1, Zenon
<1> DEFINE f == [q \in Held(t, c) \cup {p} |-> IF q = p THEN l ELSE Contents(t, c)[q]]
<1>10. ASSUME NEW j \in Indices(c), u[j].price \in Prices
       PROVE  f[u[j].price] = u[j].lvl
  <2>1. CASE j = i
    BY <1>3, <2>1
  <2>2. CASE j # i
    <3>1. u[j] = t[j] /\ t[j].price \in Prices /\ t[j].price # p
      BY <1>3, <1>10, <2>2
    <3>2. t[j].price \in Held(t, c) /\ Contents(t, c)[t[j].price] = t[j].lvl
      BY <1>1, <3>1, ContentsOf
    <3> QED
      BY <3>1, <3>2
  <2> QED
    BY <2>1, <2>2
<1> HIDE DEF f
<1>12. ASSUME NEW q \in Held(u, c)
       PROVE  Contents(u, c)[q] = f[q]
  <2>1. PICK j \in Indices(c) : u[j].price = q /\ q \in Prices
    BY <1>21, Zenon
  <2> QED
    BY <1>1, <1>3, <1>5, <1>10, <2>1, ContentsOf
<1> QED
  BY <1>7, <1>9, <1>12 DEF f, Contents, HasPut

\* Table u holds what t does without p.
HasRemoved(h, c, t, p, u) ==
  /\ Sound(h, u, c)
  /\ Held(u, c) = Held(t, c) \ {p}
  /\ Contents(u, c) = [q \in Held(t, c) \ {p} |-> Contents(t, c)[q]]

\* A tombstone breaks no probe sequence.
LEMMA MarkKeeps ==
  ASSUME NEW h, NEW c, NEW t, Sound(h, t, c), NEW p \in Prices,
         NEW i \in Indices(c), t[i].price = p,
         NEW u, u = [t EXCEPT ![i] = [price |-> Tombstone, lvl |-> t[i].lvl]]
  PROVE  HasRemoved(h, c, t, p, u)
<1>1. h \in Hashes /\ c \in Capacities /\ t \in Tables(c) /\ Once(t, c) /\ Reached(h, t, c)
  BY DEF Sound
<1>2. t[i] \in SlotValues
  BY <1>1 DEF Tables
<1>3. [price |-> Tombstone, lvl |-> t[i].lvl] \in SlotValues
  BY <1>2 DEF SlotValues
<1>4. /\ u \in Tables(c)
      /\ \A j \in Indices(c) :
           u[j] = IF j = i THEN [price |-> Tombstone, lvl |-> t[i].lvl] ELSE t[j]
  BY <1>1, <1>3 DEF Tables
<1>5. \A j \in Indices(c) : u[j].price = IF j = i THEN Tombstone ELSE t[j].price
  BY <1>4
<1>6. Once(u, c)
  BY <1>1, <1>5, NoPriceIsAMark DEF Once
<1>7. ASSUME NEW q \in Prices, NEW m \in Indices(c), u[ProbeOf(h, c, q, m)].price = q,
             NEW k \in Indices(m)
      PROVE  u[ProbeOf(h, c, q, k)].price # Empty
  <2>1. c \in Nat /\ k \in Indices(c)
    BY <1>1 DEF Indices, Capacities
  <2>2. ProbeOf(h, c, q, m) \in Indices(c) /\ ProbeOf(h, c, q, k) \in Indices(c)
    BY <1>1, <2>1, ProbesAllOnce
  <2>3. t[ProbeOf(h, c, q, m)].price = q
    BY <1>5, <1>7, <2>2, NoPriceIsAMark
  <2>4. t[ProbeOf(h, c, q, k)].price # Empty
    BY <1>1, <2>3 DEF Reached
  <2> QED
    BY <1>5, <2>2, <2>4 DEF Empty, Tombstone
<1>8. Sound(h, u, c)
  BY <1>1, <1>4, <1>6, <1>7 DEF Sound, Reached
<1>21. /\ Held(u, c) \subseteq Prices
      /\ \A q \in Prices : q \in Held(u, c) <=> \E j \in Indices(c) : u[j].price = q
  BY <1>1, <1>4, HeldPrices, Zenon
<1>22. /\ Held(t, c) \subseteq Prices
      /\ \A q \in Prices : q \in Held(t, c) <=> \E j \in Indices(c) : t[j].price = q
  BY <1>1, HeldPrices, Zenon
<1>9. ASSUME NEW q \in Prices
      PROVE  q \in Held(u, c) <=> q \in Held(t, c) \ {p}
  <2>1. \A j \in Indices(c) : t[j].price = p => j = i
    BY <1>1 DEF Once
  <2>2. (\E j \in Indices(c) : u[j].price = q) <=> q # p /\ \E j \in Indices(c) : t[j].price = q
    <3>1. ASSUME NEW j \in Indices(c), u[j].price = q PROVE q # p /\ t[j].price = q
      BY <1>5, <2>1, <3>1, NoPriceIsAMark
    <3>2. ASSUME q # p, NEW j \in Indices(c), t[j].price = q PROVE u[j].price = q
      BY <1>5, <3>2
    <3> QED
      BY <3>1, <3>2, Zenon
  <2> QED
    BY <1>21, <1>22, <2>2, Zenon
<1>10. Held(u, c) = Held(t, c) \ {p}
  BY <1>21, <1>22, <1>9
<1> DEFINE f == [q \in Held(t, c) \ {p} |-> Contents(t, c)[q]]
<1>11. ASSUME NEW j \in Indices(c), u[j].price \in Prices
       PROVE  f[u[j].price] = u[j].lvl
  <2>1. j # i /\ u[j] = t[j]
    BY <1>4, <1>5, <1>11, NoPriceIsAMark
  <2>2. t[j].price \in Prices /\ t[j].price # p
    BY <1>1, <1>11, <2>1 DEF Once
  <2>3. t[j].price \in Held(t, c) /\ Contents(t, c)[t[j].price] = t[j].lvl
    BY <1>1, <2>2, ContentsOf
  <2> QED
    BY <2>1, <2>2, <2>3
<1> HIDE DEF f
<1>13. ASSUME NEW q \in Held(u, c)
       PROVE  Contents(u, c)[q] = f[q]
  <2>1. PICK j \in Indices(c) : u[j].price = q /\ q \in Prices
    BY <1>21, Zenon
  <2> QED
    BY <1>1, <1>4, <1>6, <1>11, <2>1, ContentsOf
<1> QED
  BY <1>8, <1>10, <1>13 DEF f, Contents, HasRemoved
-----------------------------------------------------------------------------
(* Growing.                                                                *)

\* The values of a loop over 1..N: from a, by F[n] in turn n.
Iteration(g, N, X, a, F) ==
  /\ g \in [0..N -> X]
  /\ \A n \in 0..N : g[n] = IF n = 0 THEN a ELSE F[n][g[n - 1]]

LEMMA Iterates ==
  ASSUME NEW N \in Nat, NEW X, NEW a \in X, NEW F, F \in [1..N -> [X -> X]]
  PROVE  \E g : Iteration(g, N, X, a, F)
<1> DEFINE Upto(g, m) == \A n \in 0..m : g[n] = IF n = 0 THEN a ELSE F[n][g[n - 1]]
           Fails == {m \in 0..N : ~ \E g \in [0..m -> X] : Upto(g, m)}
<1>1. 0 \notin Fails
  <2>1. [n \in 0..0 |-> a] \in [0..0 -> X] /\ Upto([n \in 0..0 |-> a], 0)
    OBVIOUS
  <2> QED
    BY <2>1
<1>2. ASSUME NEW m \in 0..N, m + 1 \in 0..N, m \notin Fails
      PROVE  m + 1 \notin Fails
  <2>1. PICK g \in [0..m -> X] : Upto(g, m)
    BY <1>2
  <2> DEFINE h == [n \in 0..(m + 1) |-> IF n = m + 1 THEN F[m + 1][g[m]] ELSE g[n]]
  <2>2. F[m + 1][g[m]] \in X
    <3>1. m + 1 \in 1..N /\ m \in 0..m
      BY <1>2
    <3>2. F[m + 1] \in [X -> X] /\ g[m] \in X
      BY <3>1
    <3> QED
      BY <3>2
  <2>3. \A n \in 0..m : n \in 0..(m + 1) /\ n # m + 1 /\ g[n] \in X
    OBVIOUS
  <2>4. \A n \in 0..(m + 1) : n # m + 1 => n \in 0..m
    OBVIOUS
  <2>5. h \in [0..(m + 1) -> X]
    BY <2>2, <2>3, <2>4
  <2>6. ASSUME NEW n \in 0..(m + 1)
        PROVE  h[n] = IF n = 0 THEN a ELSE F[n][h[n - 1]]
    <3>1. CASE n = m + 1
      <4>1. n # 0 /\ n - 1 = m /\ m \in 0..(m + 1) /\ m # m + 1
        BY <3>1
      <4>2. h[n] = F[m + 1][g[m]] /\ h[m] = g[m]
        BY <3>1, <4>1
      <4> QED
        BY <3>1, <4>1, <4>2
    <3>2. CASE n # m + 1
      <4>1. n \in 0..m /\ h[n] = g[n]
        BY <2>4, <3>2
      <4>2. g[n] = IF n = 0 THEN a ELSE F[n][g[n - 1]]
        BY <2>1, <4>1
      <4>3. n # 0 => n - 1 \in 0..(m + 1) /\ n - 1 # m + 1
        BY <4>1
      <4> HIDE <2>1
      <4>4. n # 0 => h[n - 1] = g[n - 1]
        BY <4>3
      <4> QED
        BY <4>1, <4>2, <4>4
    <3> QED
      BY <3>1, <3>2
  <2> QED
    BY <2>5, <2>6
<1> HIDE DEF Fails
<1>3. Fails = {}
  <2> SUFFICES ASSUME Fails # {}
               PROVE  FALSE
    OBVIOUS
  <2>1. Fails \in SUBSET Nat /\ Fails \subseteq 0..N
    BY DEF Fails
  <2>2. PICK n \in Fails : \A m \in Fails : n <= m
    BY <2>1, LeastNat
  <2>3. n # 0 /\ n \in 0..N
    BY <1>1, <2>1, <2>2
  <2>4. n - 1 \in 0..N /\ n - 1 \notin Fails /\ (n - 1) + 1 = n
    BY <2>1, <2>2, <2>3
  <2> QED
    BY <1>2, <2>2, <2>3, <2>4
<1> QED
  BY <1>3 DEF Fails, Iteration

\* One turn of grow's loop on the new table u.
Turn(n, u) ==
  IF slots[n - 1].price \in {Empty, Tombstone} THEN u ELSE Placed(u, 2 * cap, slots[n - 1])

\* u holds the levels of the first n slots and nothing else.
Moved(u, n) ==
  /\ Sound(hash, u, 2 * cap)
  /\ \A j \in Indices(2 * cap) : u[j].price # Tombstone
  /\ \A j \in Indices(2 * cap) : u[j].price # Empty => \E i \in Indices(n) : slots[i] = u[j]
  /\ \A i \in Indices(n) : slots[i].price \in Prices =>
       \E j \in Indices(2 * cap) : u[j] = slots[i]

LEMMA LoopOfGrow ==
  ASSUME Sound(hash, slots, cap)
  PROVE  \E g : /\ Grown = g[cap]
                /\ g[0] = FreshSlots(2 * cap)
                /\ \A n \in 1..cap : g[n] = Turn(n, g[n - 1])
<1> DEFINE a == FreshSlots(2 * cap)
           X == Tables(2 * cap)
           F == [n \in 1..cap |-> [u \in X |-> Turn(n, u)]]
           body(g) == [n \in 0..cap |->
             IF n = 0 THEN FreshSlots(2 * cap)
             ELSE IF slots[n - 1].price \in {Empty, Tombstone} THEN g[n - 1]
             ELSE Placed(g[n - 1], 2 * cap, slots[n - 1])]
<1>1. cap \in Nat /\ 2 * cap \in Nat /\ slots \in Tables(cap)
  BY DEF Sound, Capacities
<1>2. a \in X
  BY <1>1 DEF FreshSlots, Tables, Indices, SlotValues
<1>3. ASSUME NEW n \in 1..cap, NEW u \in X
      PROVE  Turn(n, u) \in X
  <2>1. slots[n - 1] \in SlotValues
    <3>1. n - 1 \in Indices(cap)
      BY <1>1 DEF Indices
    <3> QED
      BY <1>1, <3>1 DEF Tables
  <2> QED
    BY <2>1 DEF Turn, Placed, Tables
<1>4. F \in [1..cap -> [X -> X]]
  BY <1>3
<1> HIDE DEF X, a, F
<1>5. PICK g : Iteration(g, cap, X, a, F)
  BY <1>1, <1>2, <1>4, Iterates
<1>6. ASSUME NEW n \in 1..cap
      PROVE  g[n] = Turn(n, g[n - 1])
  <2>1. n \in 0..cap /\ n - 1 \in 0..cap /\ n # 0
    BY <1>1
  <2>2. g[n - 1] \in X /\ g[n] = F[n][g[n - 1]]
    BY <1>5, <2>1 DEF Iteration
  <2> QED
    BY <2>2 DEF F
<1>7. g[0] = FreshSlots(2 * cap)
  <2>1. 0 \in 0..cap
    BY <1>1
  <2> QED
    BY <1>5, <2>1 DEF Iteration, a
<1>8. g = body(g)
  <2>1. ASSUME NEW n \in 0..cap
        PROVE  g[n] = IF n = 0 THEN FreshSlots(2 * cap)
                      ELSE IF slots[n - 1].price \in {Empty, Tombstone} THEN g[n - 1]
                      ELSE Placed(g[n - 1], 2 * cap, slots[n - 1])
    <3>1. n # 0 => n \in 1..cap
      BY <1>1
    <3> QED
      BY <1>6, <1>7, <3>1 DEF Turn
  <2> QED
    BY <1>5, <2>1 DEF Iteration
<1> DEFINE m == CHOOSE f : f = body(f)
<1>9. Grown = m[cap]
  BY DEF Grown
<1>10. m = body(m)
  BY <1>8
<1> HIDE DEF m
<1>11. m[0] = FreshSlots(2 * cap) /\ \A n \in 1..cap : m[n] = Turn(n, m[n - 1])
  BY <1>1, <1>10 DEF Turn
<1> QED
  BY <1>9, <1>11

\* The slot a price is placed in is empty, and no empty slot comes before it.
LEMMA VacantIsFirst ==
  ASSUME NEW u, NEW c \in Capacities, hash \in Hashes, NEW p \in Prices,
         \E i \in Indices(c) : u[i].price = Empty
  PROVE  \E n \in Indices(c) :
           /\ Vacant(u, c, p) = ProbeOf(hash, c, p, n)
           /\ u[Vacant(u, c, p)].price = Empty
           /\ \A k \in Indices(n) : u[ProbeOf(hash, c, p, k)].price # Empty
<1> DEFINE vacant == {n \in 0..(c - 1) : u[Probe(c, p, n)].price = Empty}
           n == CHOOSE n \in vacant : \A k \in vacant : n <= k
<1>1. \A k \in Indices(c) : Probe(c, p, k) = ProbeOf(hash, c, p, k)
  BY DEF Probe, ProbeOf
<1>2. vacant \in SUBSET Nat /\ vacant # {} /\ vacant \subseteq Indices(c)
  <2>1. PICK i \in Indices(c) : u[i].price = Empty
    OBVIOUS
  <2>2. PICK k \in Indices(c) : ProbeOf(hash, c, p, k) = i
    BY ProbesAllOnce
  <2>3. c \in Nat /\ Indices(c) = 0..(c - 1) /\ Indices(c) \subseteq Nat
    BY DEF Capacities, Indices
  <2> QED
    BY <1>1, <2>1, <2>2, <2>3
<1>3. \A k \in Indices(c) : k \in vacant <=> u[ProbeOf(hash, c, p, k)].price = Empty
  BY <1>1 DEF Indices
<1>4. Vacant(u, c, p) = Probe(c, p, n)
  BY DEF Vacant
<1> HIDE DEF vacant
<1>5. n \in vacant /\ \A k \in vacant : n <= k
  <2> HIDE DEF n
  <2>1. \E m \in vacant : \A k \in vacant : m <= k
    BY <1>2, LeastNat
  <2> QED
    BY <2>1 DEF n
<1> HIDE DEF n
<1>6. ASSUME NEW k \in Indices(n)
      PROVE  u[ProbeOf(hash, c, p, k)].price # Empty
  <2>1. k \in Indices(c) /\ ~(n <= k)
    BY <1>2, <1>5 DEF Capacities, Indices
  <2> QED
    BY <1>3, <1>5, <2>1
<1> QED
  BY <1>1, <1>2, <1>3, <1>4, <1>5, <1>6

\* The new table has room: it is larger than the one it is filled from.
LEMMA RoomWhileMoving ==
  ASSUME Sound(hash, slots, cap), NEW u, NEW n \in 0..cap, Moved(u, n)
  PROVE  \E j \in Indices(2 * cap) : u[j].price = Empty
<1> SUFFICES ASSUME \A j \in Indices(2 * cap) : u[j].price # Empty
             PROVE  FALSE
  OBVIOUS
<1> DEFINE f == [j \in Indices(2 * cap) |-> CHOOSE i \in Indices(n) : slots[i] = u[j]]
<1>1. cap \in Nat \ {0} /\ n \in Nat /\ n < 2 * cap
  BY DEF Sound, Capacities
<1>2. \A j \in Indices(2 * cap) : f[j] \in Indices(n) /\ slots[f[j]] = u[j]
  BY DEF Moved
<1>3. f \in [Indices(2 * cap) -> Indices(n)]
  BY <1>2
<1> HIDE DEF f
<1>4. /\ IsFiniteSet(Indices(2 * cap)) /\ IsFiniteSet(Indices(n))
      /\ Cardinality(Indices(n)) < Cardinality(Indices(2 * cap))
  <2>1. IsFiniteSet(Indices(2 * cap)) /\ Cardinality(Indices(2 * cap)) = 2 * cap
    BY <1>1, FS_Interval DEF Indices
  <2>2. IsFiniteSet(Indices(n)) /\ Cardinality(Indices(n)) = n
    <3>1. n - 1 \in Int /\ 0 \in Int
      BY <1>1
    <3>2. /\ IsFiniteSet(Indices(n))
          /\ Cardinality(Indices(n)) = IF 0 > n - 1 THEN 0 ELSE (n - 1) - 0 + 1
      BY <3>1, FS_Interval DEF Indices
    <3> QED
      BY <1>1, <3>2
  <2> QED
    BY <1>1, <2>1, <2>2
<1>5. PICK j, k \in Indices(2 * cap) : j # k /\ f[j] = f[k]
  BY <1>3, <1>4, FS_PigeonHole
<1>6. u[j].price = u[k].price /\ u[j].price \in Prices
  <2>1. u[j] = u[k]
    BY <1>2, <1>5
  <2>2. u[j].price \in Prices \cup {Empty, Tombstone}
    BY DEF Moved, Sound, Tables, SlotValues
  <2> QED
    BY <2>1, <2>2 DEF Moved
<1> QED
  BY <1>5, <1>6 DEF Moved, Sound, Once

\* A turn of the loop moves one slot.
LEMMA TurnMovesOne ==
  ASSUME Sound(hash, slots, cap), NEW u, NEW n \in 1..cap, Moved(u, n - 1)
  PROVE  Moved(Turn(n, u), n)
<1> DEFINE s == slots[n - 1]
           c == 2 * cap
<1>1. cap \in Nat \ {0} /\ n - 1 \in Indices(cap) /\ n - 1 \in 0..cap
      /\ Indices(n) = Indices(n - 1) \cup {n - 1} /\ Indices(n) \subseteq Indices(cap)
  BY DEF Sound, Capacities, Indices
<1>2. s \in SlotValues
  BY <1>1 DEF Sound, Tables
<1>3. CASE s.price \in {Empty, Tombstone}
  <2>1. Turn(n, u) = u
    BY <1>3 DEF Turn
  <2> QED
    BY <1>1, <1>3, <2>1, NoPriceIsAMark DEF Moved
<1>4. CASE s.price \notin {Empty, Tombstone}
  <2>1. s.price \in Prices /\ s.lvl \in Int /\ s = [price |-> s.price, lvl |-> s.lvl]
    BY <1>2, <1>4 DEF SlotValues
  <2> DEFINE p == s.price
             i == Vacant(u, c, p)
             v == [u EXCEPT ![i] = s]
  <2>2. Turn(n, u) = v
    BY <1>4 DEF Turn, Placed
  <2>3. Sound(hash, u, c) /\ hash \in Hashes /\ c \in Capacities /\ u \in Tables(c)
    BY DEF Moved, Sound
  <2>4. \E j \in Indices(c) : u[j].price = Empty
    BY <1>1, RoomWhileMoving
  <2> HIDE DEF c, s
  <2>5. PICK m \in Indices(c) :
          /\ i = ProbeOf(hash, c, p, m)
          /\ u[i].price = Empty
          /\ \A k \in Indices(m) : u[ProbeOf(hash, c, p, k)].price # Empty
    BY <2>1, <2>3, <2>4, VacantIsFirst
  <2>6. i \in Indices(c)
    BY <2>1, <2>3, <2>5, ProbesAllOnce
  <2> HIDE DEF i
  <2>7. ASSUME NEW j \in Indices(c)
        PROVE  u[j].price # p
    <3> SUFFICES ASSUME u[j].price = p
                 PROVE  FALSE
      OBVIOUS
    <3>1. PICK k \in Indices(n - 1) : slots[k] = u[j]
      BY <2>1, NoPriceIsAMark DEF Moved, c
    <3>2. k \in Indices(cap) /\ k # n - 1 /\ slots[k].price = p
      BY <1>1, <3>1 DEF Indices
    <3>3. slots[n - 1].price = p
      BY DEF s
    <3> QED
      BY <1>1, <2>1, <3>2, <3>3 DEF Sound, Once
  <2>8. v = [u EXCEPT ![i] = [price |-> p, lvl |-> s.lvl]]
    BY <2>1
  <2>9. Sound(hash, v, c)
    <3>1. MayPut(hash, c, u, p, i)
      BY <2>5, <2>7, NoPriceIsAMark DEF MayPut
    <3> HIDE DEF v, p
    <3> QED
      BY <2>1, <2>3, <2>8, <3>1, PutKeeps DEF p, HasPut
  <2>10. \A j \in Indices(c) : v[j] = IF j = i THEN s ELSE u[j]
    BY <2>3, <2>6 DEF Tables
  <2> HIDE DEF v
  <2>11. \A j \in Indices(c) : v[j].price # Tombstone
    BY <2>1, <2>10, NoPriceIsAMark DEF Moved, c
  <2>12. ASSUME NEW j \in Indices(c), v[j].price # Empty
         PROVE  \E k \in Indices(n) : slots[k] = v[j]
    <3>1. CASE j = i
      BY <1>1, <2>10, <3>1 DEF s
    <3>2. CASE j # i
      <4>1. u[j].price # Empty /\ v[j] = u[j]
        BY <2>10, <2>12, <3>2
      <4>2. PICK k \in Indices(n - 1) : slots[k] = u[j]
        BY <4>1 DEF Moved, c
      <4> QED
        BY <1>1, <4>1, <4>2
    <3> QED
      BY <3>1, <3>2
  <2>13. ASSUME NEW k \in Indices(n), slots[k].price \in Prices
         PROVE  \E j \in Indices(c) : v[j] = slots[k]
    <3>1. CASE k = n - 1
      BY <2>6, <2>10, <3>1 DEF s
    <3>2. CASE k # n - 1
      <4>1. PICK j \in Indices(c) : u[j] = slots[k]
        BY <1>1, <2>13, <3>2 DEF Moved, c
      <4>2. j # i
        BY <2>5, <2>13, <4>1, NoPriceIsAMark
      <4> QED
        BY <2>10, <4>1, <4>2
    <3> QED
      BY <3>1, <3>2
  <2> QED
    BY <2>2, <2>9, <2>11, <2>12, <2>13 DEF Moved, c
<1> QED
  BY <1>3, <1>4

\* The grown table holds what the full one held, and has room.
LEMMA GrownKeeps ==
  ASSUME Sound(hash, slots, cap), 2 * cap <= MaxCap
  PROVE  /\ Sound(hash, Grown, 2 * cap)
         /\ Held(Grown, 2 * cap) = Held(slots, cap)
         /\ Contents(Grown, 2 * cap) = Contents(slots, cap)
         /\ \E j \in Indices(2 * cap) : Grown[j].price = Empty
<1> DEFINE c == 2 * cap
<1>1. PICK g : /\ Grown = g[cap]
               /\ g[0] = FreshSlots(c)
               /\ \A n \in 1..cap : g[n] = Turn(n, g[n - 1])
  BY LoopOfGrow
<1>2. cap \in Nat \ {0} /\ cap \in Capacities /\ c \in Capacities
  BY DEF Sound, Capacities
<1>3. Moved(g[0], 0)
  <2>1. g[0] \in Tables(c) /\ \A j \in Indices(c) : g[0][j].price = Empty
    BY <1>1, <1>2 DEF FreshSlots, Tables, Indices, SlotValues
  <2>2. Once(g[0], c)
    BY <2>1, NoPriceIsAMark DEF Once
  <2>3. Reached(hash, g[0], c)
    <3>1. \A p \in Prices, n \in Indices(c) : g[0][ProbeOf(hash, c, p, n)].price = Empty
      BY <1>2, <2>1, ProbesAllOnce DEF Sound
    <3> QED
      BY <3>1, NoPriceIsAMark DEF Reached
  <2>4. Sound(hash, g[0], c)
    BY <1>2, <2>1, <2>2, <2>3 DEF Sound
  <2>5. Indices(0) = {} /\ Empty # Tombstone
    BY DEF Indices, Empty, Tombstone
  <2> QED
    BY <2>1, <2>4, <2>5 DEF Moved
<1> DEFINE Fails == {n \in 0..cap : ~Moved(g[n], n)}
<1>4. Fails = {}
  <2> SUFFICES ASSUME Fails # {}
               PROVE  FALSE
    OBVIOUS
  <2>1. Fails \in SUBSET Nat /\ Fails \subseteq 0..cap
    BY <1>2
  <2> HIDE DEF Fails
  <2>2. PICK n \in Fails : \A m \in Fails : n <= m
    BY <2>1, LeastNat
  <2>3. n # 0
    BY <1>3, <2>2 DEF Fails
  <2>4. n \in 1..cap /\ n - 1 \in 0..cap /\ n - 1 \notin Fails
    BY <1>2, <2>1, <2>2, <2>3
  <2>5. Moved(g[n - 1], n - 1)
    BY <2>4 DEF Fails
  <2>6. Moved(g[n], n)
    BY <1>1, <2>4, <2>5, TurnMovesOne
  <2> QED
    BY <2>2, <2>6 DEF Fails
<1>5. Moved(Grown, cap)
  BY <1>1, <1>2, <1>4
<1>6. \E j \in Indices(c) : Grown[j].price = Empty
  <2>1. cap \in 0..cap
    BY <1>2
  <2> QED
    BY <1>5, <2>1, RoomWhileMoving
<1>7. /\ Sound(hash, Grown, c) /\ Grown \in Tables(c) /\ Once(Grown, c)
      /\ slots \in Tables(cap) /\ Once(slots, cap)
  BY <1>5 DEF Moved, Sound
<1>8. ASSUME NEW i \in Indices(cap), slots[i].price \in Prices
      PROVE  \E j \in Indices(c) : Grown[j] = slots[i]
  BY <1>5, <1>8 DEF Moved
<1>9. ASSUME NEW j \in Indices(c), Grown[j].price \in Prices
      PROVE  \E i \in Indices(cap) : Grown[j] = slots[i]
  BY <1>5, <1>9, NoPriceIsAMark DEF Moved
<1>10. Held(Grown, c) = Held(slots, cap)
  <2> HIDE DEF c
  <2>1. \A p \in Prices : p \in Held(Grown, c) <=> p \in Held(slots, cap)
    BY <1>2, <1>7, <1>8, <1>9, HeldPrices
  <2> QED
    BY <1>2, <1>7, <2>1, HeldPrices
<1>11. ASSUME NEW p \in Held(slots, cap)
       PROVE  LevelIn(Grown, c, p) = LevelIn(slots, cap, p)
  <2> HIDE DEF c
  <2>1. p \in Prices
    BY <1>2, <1>7, HeldPrices
  <2>2. PICK i \in Indices(cap) : slots[i].price = p
    BY <1>2, <1>7, <2>1, HeldPrices
  <2>3. PICK j \in Indices(c) : Grown[j] = slots[i]
    BY <1>8, <2>1, <2>2
  <2>4. LevelIn(slots, cap, p) = slots[i].lvl
    BY <1>2, <1>7, <2>1, <2>2, LevelInSlot
  <2>5. LevelIn(Grown, c, p) = Grown[j].lvl
    BY <1>2, <1>7, <2>1, <2>2, <2>3, LevelInSlot
  <2> QED
    BY <2>3, <2>4, <2>5
<1> QED
  BY <1>6, <1>7, <1>10, <1>11 DEF Contents
-----------------------------------------------------------------------------
(* The cached best price.                                                  *)

\* A price visited is the best if it is better than the best so far.
LEMMA BestAfterVisit ==
  ASSUME isBid \in BOOLEAN, NEW ps \in SUBSET Prices, BestAmong(best, ps), NEW p \in Prices
  PROVE  BestAmong(BestWith(p), ps \cup {p})
<1>1. Prices \subseteq Nat /\ p \in Nat /\ p > 0 /\ p < Infinite /\ Infinite \in Nat
  BY TableConstants
<1>2. CASE ps = {}
  <2>1. best = None
    BY <1>2 DEF BestAmong
  <2>2. Better(p, best) /\ ~Better(p, p)
    BY <1>1, <2>1 DEF Better, None
  <2> QED
    BY <1>2, <2>2 DEF BestAmong, BestWith
<1>3. CASE ps # {}
  <2>1. best \in ps /\ \A q \in ps : ~Better(q, best)
    BY <1>3 DEF BestAmong
  <2>2. ps \subseteq Nat /\ best \in Nat
    BY <1>1, <2>1
  <2>3. CASE Better(p, best)
    <3>1. \A q \in ps \cup {p} : ~Better(q, p)
      <4>1. CASE isBid
        BY <1>1, <2>1, <2>2, <2>3, <4>1 DEF Better
      <4>2. CASE ~isBid
        BY <1>1, <2>1, <2>2, <2>3, <4>2 DEF Better
      <4> QED
        BY <4>1, <4>2
    <3> QED
      BY <2>3, <3>1 DEF BestAmong, BestWith
  <2>4. CASE ~Better(p, best)
    BY <2>1, <2>4 DEF BestAmong, BestWith
  <2> QED
    BY <2>3, <2>4
<1> QED
  BY <1>2, <1>3

\* The rescan finds the best price there is.
LEMMA RescanFindsBest ==
  ASSUME isBid \in BOOLEAN, NEW c \in Capacities, NEW t \in Tables(c)
  PROVE  BestAmong(Rescan(t), Held(t, c))
<1> DEFINE ps == Held(t, c)
<1>1. Rescan(t) = IF ps = {} THEN None ELSE CHOOSE p \in ps : \A q \in ps : ~Better(q, p)
  <2>1. DOMAIN t = Indices(c)
    BY DEF Tables
  <2> QED
    BY <2>1 DEF Rescan, Held
<1>2. ps \in SUBSET Nat /\ \A p \in ps : p <= Infinite
  <2>1. Prices \subseteq Nat /\ \A p \in Prices : p <= Infinite
    BY TableConstants
  <2> QED
    BY <2>1, HeldPrices
<1> HIDE DEF ps
<1>3. CASE ps = {}
  BY <1>1, <1>3 DEF BestAmong, ps
<1>4. CASE ps # {}
  <2>1. Infinite \in Nat
    BY TableConstants
  <2>2. \E p \in ps : \A q \in ps : ~Better(q, p)
    <3>1. CASE isBid
      <4>1. PICK p \in ps : \A q \in ps : q <= p
        BY <1>2, <1>4, <2>1, GreatestNat
      <4> QED
        BY <1>2, <3>1, <4>1 DEF Better
    <3>2. CASE ~isBid
      <4>1. PICK p \in ps : \A q \in ps : p <= q
        BY <1>2, <1>4, LeastNat
      <4> QED
        BY <1>2, <3>2, <4>1 DEF Better
    <3> QED
      BY <3>1, <3>2
  <2> DEFINE b == CHOOSE p \in ps : \A q \in ps : ~Better(q, p)
  <2>3. b \in ps /\ \A q \in ps : ~Better(q, b)
    BY <2>2
  <2>4. Rescan(t) = b
    BY <1>1, <1>4
  <2> HIDE DEF b
  <2> QED
    BY <1>4, <2>3, <2>4 DEF BestAmong, ps
<1> QED
  BY <1>3, <1>4
-----------------------------------------------------------------------------
(* What the steps do to the map.                                           *)

Count(p) == IF p \in Held(slots, cap) THEN Contents(slots, cap)[p] ELSE 0
Visits(p) ==
  /\ Sound(hash, slots', cap')
  /\ Held(slots', cap') = Held(slots, cap) \cup {p}
  /\ Contents(slots', cap') = [q \in Held(slots, cap) \cup {p} |->
       IF q = p THEN Count(p) + 1 ELSE Contents(slots, cap)[q]]
  /\ BestAmong(best', Held(slots', cap'))
  /\ UNCHANGED <<isBid, hash>>
Removes(p) ==
  /\ p \in Held(slots, cap)
  /\ Sound(hash, slots', cap')
  /\ Held(slots', cap') = Held(slots, cap) \ {p}
  /\ Contents(slots', cap') = [q \in Held(slots, cap) \ {p} |-> Contents(slots, cap)[q]]
  /\ BestAmong(best', Held(slots', cap'))
  /\ UNCHANGED <<isBid, hash>>

LEMMA InvFacts ==
  ASSUME TableInv
  PROVE  /\ hash \in Hashes /\ cap \in Capacities /\ slots \in Tables(cap)
         /\ Once(slots, cap) /\ Reached(hash, slots, cap) /\ Sound(hash, slots, cap)
         /\ isBid \in BOOLEAN /\ BestAmong(best, Held(slots, cap))
         /\ Held(slots, cap) \in SUBSET Prices
BY HeldPrices DEF TableInv, Sound

LEMMA ExistingStep ==
  ASSUME TableInv, NEW p \in Prices, VisitExisting(p)
  PROVE  Visits(p)
<1> USE InvFacts
<1> DEFINE i == End(p)
           l == slots[i].lvl + 1
<1>1. i \in Indices(cap) /\ slots[i].price = p /\ slots[i] \in SlotValues
  <2>1. i \in Indices(cap) /\ slots[i].price = p
    BY FoundIsHeld DEF VisitExisting
  <2> QED
    BY <2>1 DEF Tables
<1>2. slots' = [slots EXCEPT ![i].lvl = @ + 1] /\ cap' = cap /\ UNCHANGED <<isBid, hash>>
  BY DEF VisitExisting
<1> HIDE DEF i
<1>3. slots' = [slots EXCEPT ![i] = [price |-> p, lvl |-> l]] /\ l \in Int
  <2> DEFINE r == slots[i]
  <2>1. r \in SlotValues /\ r.price = p
    BY <1>1
  <2>2. slots' = [slots EXCEPT ![i] = [r EXCEPT !.lvl = r.lvl + 1]]
    BY <1>2
  <2> HIDE DEF r
  <2>3. [r EXCEPT !.lvl = r.lvl + 1] = [price |-> p, lvl |-> r.lvl + 1] /\ r.lvl + 1 \in Int
    BY <2>1 DEF SlotValues
  <2> QED
    BY <2>2, <2>3 DEF r
<1>4. PICK n \in Indices(cap) : i = ProbeOf(hash, cap, p, n)
  BY <1>1, ProbesAllOnce
<1>5. \A k \in Indices(n) : slots[ProbeOf(hash, cap, p, k)].price # Empty
  BY <1>1, <1>4 DEF Reached
<1>6. \A j \in Indices(cap) : slots[j].price = p => j = i
  BY <1>1 DEF Once
<1>7. p \in Held(slots, cap) /\ Contents(slots, cap)[p] = slots[i].lvl
  BY <1>1, ContentsOf
<1>8. Count(p) + 1 = l
  BY <1>7 DEF Count
<1> HIDE DEF l
<1>9. HasPut(hash, cap, slots, p, l, slots')
  <2>1. MayPut(hash, cap, slots, p, i)
    BY <1>1, <1>4, <1>5, <1>6 DEF MayPut
  <2> QED
    BY <1>3, <2>1, PutKeeps
<1>10. BestAmong(best', Held(slots', cap'))
  <2>1. BestAmong(BestWith(p), Held(slots, cap) \cup {p}) /\ best' = BestWith(p)
    BY BestAfterVisit DEF VisitExisting
  <2> QED
    BY <1>2, <1>9, <2>1 DEF HasPut, BestAmong, None, Better
<1> QED
  BY <1>2, <1>8, <1>9, <1>10 DEF Visits, HasPut

\* The slot of a new price: the first tombstone on the way, else the empty slot at its end.
LEMMA InsertionSlotIsFree ==
  ASSUME TableInv, NEW p \in Prices, ~Found(p), ~Full(p)
  PROVE  \E n \in Indices(cap) :
           /\ InsertionSlot(p) = ProbeOf(hash, cap, p, n)
           /\ slots[InsertionSlot(p)].price \notin Prices
           /\ \A k \in Indices(n) : slots[ProbeOf(hash, cap, p, k)].price # Empty
<1> USE InvFacts
<1>1. PICK m \in Indices(cap) :
        /\ End(p) = ProbeOf(hash, cap, p, m)
        /\ slots[End(p)].price \in {p, Empty}
        /\ \A k \in Indices(m) : slots[ProbeOf(hash, cap, p, k)].price \notin {p, Empty}
  BY EndIsFirst
<1>2. slots[End(p)].price = Empty
  BY <1>1 DEF Found
<1>3. cap \in Nat \ {0} /\ Indices(cap) \subseteq Nat
  BY DEF Capacities, Indices
<1>4. CASE Tombs(p) = {}
  BY <1>1, <1>2, <1>4, NoPriceIsAMark DEF InsertionSlot
<1>5. CASE Tombs(p) # {}
  <2> DEFINE n == CHOOSE n \in Tombs(p) : \A k \in Tombs(p) : n <= k
  <2>1. Tombs(p) \in SUBSET Nat /\ Tombs(p) \subseteq Indices(cap)
    BY <1>3 DEF Tombs, Indices
  <2>2. \E k \in Tombs(p) : \A j \in Tombs(p) : k <= j
    BY <1>5, <2>1, LeastNat
  <2>3. n \in Tombs(p)
    BY <2>2
  <2>4. InsertionSlot(p) = Probe(cap, p, n)
    BY <1>5 DEF InsertionSlot
  <2> HIDE DEF n
  <2>5. n \in Indices(cap) /\ InsertionSlot(p) = ProbeOf(hash, cap, p, n)
    BY <2>1, <2>3, <2>4, ProbeIsProbeOf
  <2>6. slots[InsertionSlot(p)].price = Tombstone /\ \A k \in Ends(p) : n < k
    BY <2>3, <2>4 DEF Tombs
  <2>7. ASSUME NEW k \in Indices(n)
        PROVE  slots[ProbeOf(hash, cap, p, k)].price # Empty
    <3>1. k \in Indices(cap) /\ ~(n < k)
      BY <1>3, <2>5 DEF Indices
    <3>2. k \notin Ends(p)
      BY <2>6, <3>1
    <3> QED
      BY <3>1, <3>2, ProbeIsProbeOf DEF Ends, Indices
  <2> QED
    BY <2>5, <2>6, <2>7, NoPriceIsAMark
<1> QED
  BY <1>4, <1>5

LEMMA NewStep ==
  ASSUME TableInv, NEW p \in Prices, VisitNew(p)
  PROVE  Visits(p)
<1> USE InvFacts
<1> DEFINE i == InsertionSlot(p)
<1>1. ~Found(p) /\ ~Full(p) /\ cap' = cap /\ UNCHANGED <<isBid, hash>>
  BY DEF VisitNew
<1>2. slots' = [slots EXCEPT ![i] = [price |-> p, lvl |-> 1]]
  BY DEF VisitNew, NewLevel
<1>3. PICK n \in Indices(cap) :
        /\ i = ProbeOf(hash, cap, p, n)
        /\ slots[i].price \notin Prices
        /\ \A k \in Indices(n) : slots[ProbeOf(hash, cap, p, k)].price # Empty
  BY <1>1, InsertionSlotIsFree
<1> HIDE DEF i
<1>4. p \notin Held(slots, cap) /\ \A j \in Indices(cap) : slots[j].price # p
  BY <1>1, HeldPrices, HeldIsFound
<1>5. HasPut(hash, cap, slots, p, 1, slots')
  <2>1. MayPut(hash, cap, slots, p, i)
    BY <1>3, <1>4 DEF MayPut
  <2> DEFINE one == 1
  <2>2. one \in Int /\ slots' = [slots EXCEPT ![i] = [price |-> p, lvl |-> one]]
    BY <1>2
  <2> HIDE DEF one
  <2>3. HasPut(hash, cap, slots, p, one, slots')
    BY <2>1, <2>2, PutKeeps
  <2> QED
    BY <2>3 DEF one
<1>6. BestAmong(best', Held(slots', cap'))
  <2>1. BestAmong(BestWith(p), Held(slots, cap) \cup {p}) /\ best' = BestWith(p)
    BY BestAfterVisit DEF VisitNew
  <2> QED
    BY <1>1, <1>5, <2>1 DEF HasPut, BestAmong, None, Better
<1>7. Count(p) + 1 = 1
  BY <1>4 DEF Count
<1> QED
  BY <1>1, <1>5, <1>6, <1>7 DEF Visits, HasPut

LEMMA GrowingStep ==
  ASSUME TableInv, NEW p \in Prices, VisitGrowing(p)
  PROVE  Visits(p)
<1> USE InvFacts
<1> DEFINE c == 2 * cap
           i == Vacant(Grown, c, p)
<1>1. Full(p) /\ c <= MaxCap /\ cap' = c /\ UNCHANGED <<isBid, hash>>
      /\ slots' = [Grown EXCEPT ![i] = [price |-> p, lvl |-> 1]]
  BY DEF VisitGrowing
<1>2. /\ Sound(hash, Grown, c)
      /\ Held(Grown, c) = Held(slots, cap)
      /\ Contents(Grown, c) = Contents(slots, cap)
      /\ \E j \in Indices(c) : Grown[j].price = Empty
  BY <1>1, GrownKeeps
<1>3. c \in Capacities /\ Grown \in Tables(c)
  BY <1>2 DEF Sound
<1>4. PICK n \in Indices(c) :
        /\ i = ProbeOf(hash, c, p, n)
        /\ Grown[i].price = Empty
        /\ \A k \in Indices(n) : Grown[ProbeOf(hash, c, p, k)].price # Empty
  BY <1>2, <1>3, VacantIsFirst
<1> HIDE DEF c, i
<1>5. p \notin Held(slots, cap)
  BY <1>1, HeldPrices, HeldIsFound DEF Found
<1>6. \A j \in Indices(c) : Grown[j].price # p
  BY <1>2, <1>3, <1>5, HeldPrices
<1>7. HasPut(hash, c, Grown, p, 1, slots')
  <2>1. MayPut(hash, c, Grown, p, i)
    BY <1>4, <1>6, NoPriceIsAMark DEF MayPut
  <2> DEFINE one == 1
  <2>2. one \in Int /\ slots' = [Grown EXCEPT ![i] = [price |-> p, lvl |-> one]]
    BY <1>1
  <2> HIDE DEF one
  <2>3. HasPut(hash, c, Grown, p, one, slots')
    BY <1>2, <2>1, <2>2, PutKeeps
  <2> QED
    BY <2>3 DEF one
<1>8. BestAmong(best', Held(slots', cap'))
  <2>1. BestAmong(BestWith(p), Held(slots, cap) \cup {p}) /\ best' = BestWith(p)
    BY BestAfterVisit DEF VisitGrowing
  <2> QED
    BY <1>1, <1>2, <1>7, <2>1 DEF HasPut, BestAmong, None, Better
<1>9. Count(p) + 1 = 1
  BY <1>5 DEF Count
<1> QED
  BY <1>1, <1>2, <1>7, <1>8, <1>9 DEF Visits, HasPut

LEMMA EraseStep ==
  ASSUME TableInv, NEW p \in Prices, Erase(p)
  PROVE  Removes(p)
<1> USE InvFacts
<1> DEFINE i == End(p)
<1>1. i \in Indices(cap) /\ slots[i].price = p /\ slots[i] \in SlotValues
  <2>1. i \in Indices(cap) /\ slots[i].price = p
    BY FoundIsHeld DEF Erase
  <2> QED
    BY <2>1 DEF Tables
<1>2. slots' = [slots EXCEPT ![i].price = Tombstone] /\ cap' = cap
      /\ best' = BestWithout(p, slots') /\ UNCHANGED <<isBid, hash>>
  BY DEF Erase, Erased
<1> HIDE DEF i
<1>3. slots' = [slots EXCEPT ![i] = [price |-> Tombstone, lvl |-> slots[i].lvl]]
  <2> DEFINE r == slots[i]
  <2>1. r \in SlotValues
    BY <1>1
  <2>2. slots' = [slots EXCEPT ![i] = [r EXCEPT !.price = Tombstone]]
    BY <1>2
  <2> HIDE DEF r
  <2>3. [r EXCEPT !.price = Tombstone] = [price |-> Tombstone, lvl |-> r.lvl]
    BY <2>1 DEF SlotValues
  <2> QED
    BY <2>2, <2>3 DEF r
<1>4. p \in Held(slots, cap)
  BY <1>1, HeldPrices
<1>5. HasRemoved(hash, cap, slots, p, slots')
  BY <1>1, <1>3, MarkKeeps
<1>6. BestAmong(best', Held(slots', cap))
  <2>1. CASE p = best
    <3>1. BestAmong(Rescan(slots'), Held(slots', cap))
      BY <1>5, RescanFindsBest DEF Sound, HasRemoved
    <3> QED
      BY <1>2, <2>1, <3>1 DEF BestWithout
  <2>2. CASE p # best
    BY <1>2, <1>4, <1>5, <2>2 DEF BestWithout, BestAmong, HasRemoved
  <2> QED
    BY <2>1, <2>2
<1> QED
  BY <1>2, <1>4, <1>5, <1>6 DEF Removes, HasRemoved, BestAmong, None, Better
-----------------------------------------------------------------------------
(* The theorems.                                                           *)

LEMMA InitSound == Init => TableInv
<1> SUFFICES ASSUME Init
             PROVE  TableInv
  OBVIOUS
<1> USE DEF Init
<1>1. InitCap \in Capacities /\ cap = InitCap /\ hash \in Hashes
  BY TableConstants DEF Capacities, Hashes
<1>2. slots \in Tables(cap) /\ \A i \in Indices(cap) : slots[i].price = Empty
  BY <1>1 DEF FreshSlots, Tables, Indices, SlotValues, Capacities
<1>3. Once(slots, cap)
  BY <1>2, NoPriceIsAMark DEF Once
<1>4. \A p \in Prices, n \in Indices(cap) : slots[ProbeOf(hash, cap, p, n)].price = Empty
  BY <1>1, <1>2, ProbesAllOnce
<1>5. Reached(hash, slots, cap)
  BY <1>4, NoPriceIsAMark DEF Reached
<1>6. Held(slots, cap) = {}
  BY <1>2 DEF Held
<1>7. BestAmong(best, Held(slots, cap))
  BY <1>6 DEF BestAmong
<1> QED
  BY <1>1, <1>2, <1>3, <1>5, <1>7 DEF TableInv, Sound

LEMMA EachStep ==
  TableInv /\ Next => \E p \in Prices : Visits(p) \/ Removes(p)
BY ExistingStep, NewStep, GrowingStep, EraseStep DEF Next

LEMMA StepSound == TableInv /\ [Next]_vars => TableInv'
<1> SUFFICES ASSUME TableInv, [Next]_vars
             PROVE  TableInv'
  OBVIOUS
<1>1. CASE Next
  <2>1. PICK p \in Prices : Visits(p) \/ Removes(p)
    BY <1>1, EachStep
  <2>2. /\ Sound(hash, slots', cap') /\ BestAmong(best', Held(slots', cap'))
        /\ UNCHANGED <<isBid, hash>>
    BY <2>1 DEF Visits, Removes
  <2>3. isBid' \in BOOLEAN
    BY <2>2 DEF TableInv
  <2>4. Sound(hash, slots, cap)'
    BY <2>2
  <2>5. BestAmong(best, Held(slots, cap))'
    BY <2>2 DEF BestAmong, None, Better
  <2> QED
    BY <2>3, <2>4, <2>5 DEF TableInv
<1>2. CASE UNCHANGED vars
  BY <1>2 DEF vars, TableInv, BestAmong, None, Better
<1> QED
  BY <1>1, <1>2

\* At every instant the table is sound and its cached best price is the best it holds.
THEOREM TableInvariant == Spec => []TableInv
BY InitSound, StepSound, PTL DEF Spec

\* A search finds every level where it is, through tombstones, wrap-arounds and growths
\* (operator[], erase, find).
THEOREM LevelsAlwaysFound == Spec => []EveryLevelFound
<1>1. TableInv => EveryLevelFound
  BY ReadsContents DEF TableInv, EveryLevelFound
<1> QED
  BY <1>1, TableInvariant, PTL

\* best_ is the best price there is a level for, and the sentinel only when there is
\* none (operator[]'s updates, erase's rescan).
THEOREM BestAlwaysExtreme == Spec => []BestIsExtreme
<1>1. ASSUME TableInv
      PROVE  BestIsExtreme
  <2>1. /\ Held(slots, cap) \in SUBSET Prices /\ BestAmong(best, Held(slots, cap))
        /\ isBid \in BOOLEAN
    BY <1>1, InvFacts
  <2>2. \A p \in Prices : Found(p) <=> p \in Held(slots, cap)
    BY <1>1, ReadsContents DEF TableInv
  <2>3. None \notin Prices
    <3>1. Infinite \in Nat /\ Prices \subseteq 1..(Infinite - 1)
      BY TableConstants
    <3> QED
      BY <3>1 DEF None
  <2> QED
    BY <2>1, <2>2, <2>3 DEF BestAmong, BestIsExtreme
<1> QED
  BY <1>1, TableInvariant, PTL

\* The table implements a map from prices to levels: what LevelMap promises of
\* std::map holds of the open-addressing table, whatever the hash.
THEOREM TableImplementsMap == Spec => MapSpec
<1> DEFINE levels == [p \in {q \in Prices : Found(q)} |-> Find(p)]
           contents == Contents(slots, cap)
<1>1. TableInv => levels = contents /\ DOMAIN contents = Held(slots, cap)
  <2> SUFFICES ASSUME TableInv
               PROVE  levels = contents /\ DOMAIN contents = Held(slots, cap)
    OBVIOUS
  <2>1. {q \in Prices : Found(q)} = Held(slots, cap)
    BY InvFacts, ReadsContents
  <2>2. \A p \in Held(slots, cap) : Find(p) = contents[p]
    BY InvFacts, ReadsContents
  <2> HIDE DEF contents
  <2>3. levels = [p \in Held(slots, cap) |-> contents[p]]
    BY <2>1, <2>2
  <2> QED
    BY <2>3 DEF contents, Contents
<1>2. (TableInv => levels = contents /\ DOMAIN contents = Held(slots, cap))'
  BY <1>1, PTL
<1>3. Init => Map!Init
  <2> SUFFICES ASSUME Init
               PROVE  Map!Init
    OBVIOUS
  <2>1. TableInv
    BY InitSound
  <2>2. \A i \in Indices(cap) : slots[i].price = Empty
    BY TableConstants DEF Init, FreshSlots, Indices
  <2>3. Held(slots, cap) = {}
    BY <2>2 DEF Held
  <2>4. levels = [p \in {} |-> 0]
    BY <1>1, <2>1, <2>3 DEF Contents
  <2> QED
    BY <2>4 DEF Map!Init
<1>4. TableInv /\ TableInv' /\ [Next]_vars => [Map!Next]_(levels)
  <2> SUFFICES ASSUME TableInv, TableInv', [Next]_vars
               PROVE  Map!Next \/ levels' = levels
    OBVIOUS
  <2> DEFINE held == Held(slots, cap)
             after == Held(slots', cap')
  <2>1. levels = contents /\ DOMAIN contents = held
    BY <1>1
  <2>2. levels' = contents' /\ DOMAIN contents' = after
    BY <1>2
  <2>3. CASE Next
    <3>1. PICK p \in Prices : Visits(p) \/ Removes(p)
      BY <2>3, EachStep
    <3>2. CASE Visits(p)
      <4>1. contents' = [q \in DOMAIN contents \cup {p} |->
                           IF q = p THEN (IF p \in DOMAIN contents THEN contents[p] ELSE 0) + 1
                           ELSE contents[q]]
        BY <2>1, <3>2 DEF Visits, Count
      <4> HIDE DEF contents, levels
      <4>2. levels' = [q \in DOMAIN levels \cup {p} |->
                           IF q = p THEN (IF p \in DOMAIN levels THEN levels[p] ELSE 0) + 1
                           ELSE levels[q]]
        BY <2>1, <2>2, <4>1
      <4>3. Map!Visit(p)
        BY <4>2 DEF Map!Visit, Map!Value, levels
      <4> QED
        BY <3>1, <4>3 DEF Map!Next
    <3>3. CASE Removes(p)
      <4>1. p \in DOMAIN contents /\ contents' = [q \in DOMAIN contents \ {p} |-> contents[q]]
        BY <2>1, <3>3 DEF Removes
      <4> HIDE DEF contents, levels
      <4>2. p \in DOMAIN levels /\ levels' = [q \in DOMAIN levels \ {p} |-> levels[q]]
        BY <2>1, <2>2, <4>1
      <4>3. Map!Erase(p)
        BY <4>2 DEF Map!Erase, levels
      <4> QED
        BY <3>1, <4>3 DEF Map!Next
    <3> QED
      BY <3>1, <3>2, <3>3
  <2>4. CASE UNCHANGED vars
    <3>1. contents' = contents
      BY <2>4 DEF vars
    <3> QED
      BY <2>1, <2>2, <3>1
  <2> QED
    BY <2>3, <2>4
<1> QED
  BY <1>3, <1>4, TableInvariant, PTL DEF Spec, MapSpec, Map!Spec
-----------------------------------------------------------------------------
(***************************************************************************)
(* OrderMap.  The invariant MapInv has four layers. (1) An id is in one     *)
(* node, a node is free once, in one hand or in its place. (2) Knows: what  *)
(* a call says of its key, its node and its bucket, which only calls on the *)
(* same key could make false, and a key has one thread. (3) In a private    *)
(* bucket: the nodes in place are those of one list s, from first to Null   *)
(* along next; the one call that works on the bucket stands at a known      *)
(* position of s and has not passed its key. (4) Every id that the index    *)
(* answers for is where a lookup will look: in the list, or in overflow_    *)
(* once the bucket is a tree.                                               *)
(***************************************************************************)

\* Where a call has a node in hand, where it has filled it, and where it walks.
AtFilled == {"recheck", "readFirst", "link", "publish", "retry", "giveBack", "free"}
AtHand == AtFilled \cup {"fill"}
AtHead == {"isFirst", "readSecond", "unlinkFirst", "stillFirst"}
AtNext == {"isNext", "readAfter", "unlinkNext"}
AtWalk == AtNext \cup {"walk", "readNext"}
AtFind == {"sameBucket", "compare", "advance"}
AtTree == {"giveBack", "treeAdd", "treeFind", "treeErase"}
AtTreeify == {"lock", "copy"}
AtOther == {"idle", "insert", "find", "erase", "length", "alloc", "eraseFirst", "findFirst",
            "count", "lengthAgain", "claim", "uncount", "astray"}
Accesses == AtHand \cup AtHead \cup AtWalk \cup AtFind \cup AtTree \cup AtTreeify
            \cup AtOther \cup Returned

Links == Nodes \cup {Null}
Calls == [at : Accesses, key : Ids \cup {NoId}, idx : Links, nxt : Links, aft : Links]

MapTypeOK ==
  /\ first \in [Buckets -> Links] /\ len \in [Buckets -> Int]
  /\ state \in [Buckets -> {"chain", "converting", "tree"}]
  /\ next \in [Nodes -> Links] /\ id \in [Nodes -> Ids \cup {NoId}]
  /\ bucket \in [Nodes -> Buckets]
  /\ free \in Seq(Nodes)
  /\ used \subseteq Ids /\ live \subseteq used
  /\ call \in [Threads -> Calls]

\* Neither free nor in a call's hands.
Holds(t) == call[t].at \in AtHand
InPlace(i) == i \notin FreeNodes /\ \A t \in Threads : Holds(t) => call[t].idx # i
HasNode(k) == \E i \in Nodes : id[i] = k
OnlyInPlace(k) == \A i \in Nodes : id[i] = k => InPlace(i)

\* Calls that insert: before the id is in a node, after that, and when it is in its place.
Treeing(c) == c.at \in AtTreeify \cup {"claim"}
Before(c) ==
  \/ c.at \in {"insert", "length", "alloc", "fill"}
  \/ Treeing(c) /\ c.idx = Null
Settled(c) ==
  \/ c.at \in {"count", "lengthAgain", "inserted"}
  \/ Treeing(c) /\ c.idx # Null
InsertsOn(c) == Before(c) \/ Settled(c) \/ c.at \in (AtFilled \ {"free"}) \cup {"treeAdd"}
\* Calls that erase: before the id is out, and after.
ErasesInChain(c) == c.at \in AtHead \cup AtWalk \cup {"eraseFirst"}
TookOut(c) == c.at \in {"free", "uncount", "erased"}

Place(c) == BucketOf[c.key]
Places(c) ==
  \/ ErasesInChain(c) \/ c.at \in {"count", "lengthAgain"}
  \/ c.at = "inserted" /\ state[Place(c)] = "chain"

\* What the call c of a thread says of its key, its node and its bucket.
Knows(t, c) ==
  /\ IF c.at = "idle" THEN c.key = NoId ELSE c.key \in Ids /\ OwnerOf[c.key] = t
  /\ c.at \in AtHand \cup AtHead \cup AtWalk \cup AtFind => c.idx \in Nodes
  /\ c.at \in AtNext => c.nxt \in Nodes
  /\ c.at \in {"insert", "length"} => c.idx = Null
  /\ c.at \in {"count", "lengthAgain"} => c.idx \in Nodes
  /\ c.at \in AtFilled \cup {"readSecond", "unlinkFirst"} => id[c.idx] = c.key
  /\ c.at \in {"readAfter", "unlinkNext"} => id[c.nxt] = c.key
  /\ c.at \in AtTree => state[Place(c)] # "chain"
  /\ c.at \in AtTreeify => state[Place(c)] = "converting"
  /\ InsertsOn(c) => c.key \in used \ live
  /\ Before(c) => ~HasNode(c.key)
  /\ Places(c) => OnlyInPlace(c.key)
  /\ ErasesInChain(c) \/ c.at \in {"erase", "free", "uncount", "treeErase"} => c.key \in live

\* An id is in one node, which is of its bucket.
IdsOK ==
  /\ \A i, j \in Nodes : id[i] = id[j] /\ id[i] # NoId => i = j
  /\ \A i \in Nodes : id[i] # NoId => bucket[i] = BucketOf[id[i]] /\ id[i] \in used

\* A node is free once or in one hand.
PlacesOK ==
  /\ \A k, l \in DOMAIN free : free[k] = free[l] => k = l
  /\ \A t \in Threads : Holds(t) => call[t].idx \notin FreeNodes
  /\ \A t, u \in Threads : Holds(t) /\ Holds(u) /\ call[t].idx = call[u].idx => t = u

\* The id is in the index, and no call has taken it out.
OnCall(k) == call[OwnerOf[k]].key = k
In(k) == k \in live /\ ~(OnCall(k) /\ TookOut(call[OwnerOf[k]]))
LiveOK == \A k \in live : In(k) /\ state[BucketOf[k]] = "chain" => OnlyInPlace(k)

\* The nodes of a bucket; what follows the p-th node of list s; s has the nodes of b in
\* the order of their links.
NodesOf(b) == {i \in Nodes : InPlace(i) /\ bucket[i] = b}
Follow(s, p) == IF p = Len(s) THEN Null ELSE s[p + 1]
Lists(s, b) ==
  /\ s \in Seq(Nodes)
  /\ \A p \in DOMAIN s : s[p] \in NodesOf(b) /\ next[s[p]] = Follow(s, p)
  /\ \A i \in NodesOf(b) : \E p \in DOMAIN s : s[p] = i
  /\ \A p, q \in DOMAIN s : s[p] = s[q] => p = q
  /\ first[b] = Follow(s, 0)

\* The id is where a lookup will look for it.
Present(k) ==
  \/ state[BucketOf[k]] = "tree" /\ k \in overflow
  \/ state[BucketOf[k]] # "tree" /\ \E i \in Nodes : id[i] = k /\ InPlace(i)
Inserting(k) == OnCall(k) /\ Settled(call[OwnerOf[k]])
Known(k) == k \in Ids /\ (k \in live \/ Inserting(k))

\* In a private bucket: what is in the index is present, a node's id is in the index or
\* on its way, and who converts goes on.
PrivateOK(b) ==
  /\ \A k \in Ids : BucketOf[k] = b /\ (In(k) \/ Inserting(k)) => Present(k)
  /\ state[b] # "tree" =>
       \A i \in NodesOf(b) : Known(id[i])
  /\ state[b] = "converting" => \E t \in Threads : call[t].at \in AtTreeify /\ Place(call[t]) = b

\* A walk is at position p of the list, and has not passed its key.
Passed(k, s, p) == \A q \in 1..p : id[s[q]] # k
StandsAt(c, s, p) ==
  /\ s[p] = c.idx
  /\ Passed(c.key, s, p - 1)
  /\ c.at \notin {"sameBucket", "compare"} => id[s[p]] # c.key
  /\ c.at \in AtNext => c.nxt = Follow(s, p)
  /\ c.at = "unlinkNext" => p < Len(s) /\ c.aft = Follow(s, p + 1)
Copied(c, s, p) == c.nxt = Follow(s, p) /\ \A q \in 1..p : id[s[q]] \in overflow
Walks(c, s) ==
  /\ c.at \in {"link", "publish", "retry"} => c.nxt = Follow(s, 0)
  /\ c.at = "publish" => next[c.idx] = c.nxt
  /\ c.at \in AtHead => s # <<>> /\ c.idx = s[1]
  /\ c.at = "unlinkFirst" => c.nxt = Follow(s, 1)
  /\ c.at \in AtFind \cup AtWalk => \E p \in DOMAIN s : StandsAt(c, s, p)
  /\ c.at = "copy" => \E p \in 0..Len(s) : Copied(c, s, p)

\* What a call says of a bucket that no other thread works on.
AtChain == (AtHand \ {"giveBack"}) \cup AtHead \cup AtWalk \cup AtFind
           \cup {"length", "alloc", "findFirst", "eraseFirst", "count", "lengthAgain", "claim",
                 "uncount"}
KnowsAlone(c) ==
  /\ c.at \in AtChain => state[Place(c)] = "chain"
  /\ c.at \notin AtTreeify => state[Place(c)] # "converting"
  /\ c.at = "found" /\ state[Place(c)] = "chain" => c.key \in live
  /\ c.at = "missing" => c.key \notin live
  /\ TookOut(c) /\ state[Place(c)] # "tree" => \A i \in NodesOf(Place(c)) : id[i] # c.key
  /\ c.at \notin {"astray", "giveBack"}
On(t, b) == call[t].at # "idle" /\ Place(call[t]) = b
ChainOK(b) ==
  \E s \in Seq(Nodes) :
    Lists(s, b) /\ \A t \in Threads : On(t, b) => Walks(call[t], s) /\ KnowsAlone(call[t])

\* A bucket is converted by one call.
Converts(t, b) == call[t].at \in AtTreeify /\ Place(call[t]) = b
ConvertsOK == \A b \in Buckets, t, u \in Threads : Converts(t, b) /\ Converts(u, b) => t = u

MapInv ==
  /\ MapTypeOK /\ IdsOK /\ PlacesOK /\ LiveOK /\ ConvertsOK
  /\ \A t \in Threads : Knows(t, call[t])
  /\ \A b \in Private : PrivateOK(b) /\ ChainOK(b)
-----------------------------------------------------------------------------
LEMMA MapFacts ==
  /\ Capacity \in Nat \ {0} /\ Nodes = 0..(Capacity - 1)
  /\ Null \notin Nodes /\ NoId \notin Ids
  /\ BucketOf \in [Ids -> Buckets] /\ OwnerOf \in [Ids -> Threads]
BY MapConstants DEF Nodes

\* A private bucket is worked on by one call.
LEMMA Alone ==
  ASSUME MapInv, NEW b \in Private, NEW t \in Threads, On(t, b)
  PROVE  /\ \A u \in Threads : On(u, b) => u = t
         /\ \A k \in Ids : BucketOf[k] = b => OwnerOf[k] = t
<1>1. \A u \in Threads : On(u, b) => /\ call[u].key \in Ids /\ OwnerOf[call[u].key] = u
                                     /\ BucketOf[call[u].key] = b
  BY DEF MapInv, Knows, On, Place
<1> QED
  BY <1>1 DEF Private

\* What a step of one thread has to leave alone for what the others know to stay true.
Spares(t) ==
  /\ \A u \in Threads \ {t} : call'[u] = call[u]
  /\ \A b \in Buckets : state'[b] = state[b] \/ (state[b] = "chain" /\ state'[b] = "converting")
                        \/ (call[t].at = "copy" /\ b = Place(call[t]) /\ state'[b] = "tree")
  /\ \A i \in Nodes : id'[i] # id[i] =>
       Holds(t) /\ call[t].idx = i /\ id'[i] = call[t].key
  /\ used \subseteq used'
  /\ \A k \in Ids : k # call[t].key => (k \in live' <=> k \in live)
  /\ \A i \in Nodes : InPlace(i) => InPlace(i)' \/ id[i] = call[t].key

LEMMA OthersOK ==
  ASSUME MapInv, NEW t \in Threads, Spares(t), NEW u \in Threads, u # t,
         call[u].at \in AtTreeify => state'[Place(call[u])] = state[Place(call[u])]
  PROVE  Knows(u, call[u])'
<1>1. Knows(u, call[u]) /\ Knows(t, call[t]) /\ call'[u] = call[u] /\ IdsOK /\ PlacesOK
  BY DEF MapInv, Spares
<1>2. /\ call[u].at \in Accesses /\ call[u].idx \in Links /\ call[u].nxt \in Links
      /\ call[u].key \in Ids \cup {NoId} /\ id \in [Nodes -> Ids \cup {NoId}]
  BY DEF MapInv, MapTypeOK, Calls
<1>3. call[u].at # "idle" => /\ call[u].key \in Ids /\ OwnerOf[call[u].key] = u
                        /\ Place(call[u]) \in Buckets
                        /\ call[t].key # call[u].key
  BY <1>1, MapFacts DEF Knows, Place
<1>4. ASSUME NEW i \in Nodes, call[u].at # "idle", id'[i] # id[i]
      PROVE  id'[i] # call[u].key /\ ~InPlace(i) /\ ~(Holds(u) /\ call[u].idx = i)
  <2>1. Holds(t) /\ call[t].idx = i /\ id'[i] = call[t].key
    BY <1>4 DEF Spares
  <2>2. call[t].at # "idle"
    BY <2>1 DEF Holds, AtHand, AtFilled
  <2> QED
    BY <1>1, <1>3, <1>4, <2>1, <2>2 DEF InPlace, PlacesOK
<1>5. /\ Place(call[u])' = Place(call[u])
      /\ InsertsOn(call[u])' = InsertsOn(call[u]) /\ Before(call[u])' = Before(call[u])
      /\ ErasesInChain(call[u])' = ErasesInChain(call[u])
  BY <1>1 DEF Place, InsertsOn, Before, Treeing, Settled, ErasesInChain
<1>6. call[u].at # "idle" => (~HasNode(call[u].key) => ~HasNode(call[u].key)')
  BY <1>1, <1>4 DEF HasNode
<1>7. call[u].at # "idle" => (OnlyInPlace(call[u].key) => OnlyInPlace(call[u].key)')
  <2>1. ASSUME call[u].at # "idle", OnlyInPlace(call[u].key), NEW i \in Nodes, id'[i] = call'[u].key
        PROVE  InPlace(i)'
    <3>1. id[i] = call[u].key /\ InPlace(i)
      BY <1>1, <1>4, <2>1 DEF OnlyInPlace
    <3> QED
      BY <1>3, <2>1, <3>1 DEF Spares
  <2> QED
    BY <2>1 DEF OnlyInPlace
<1>8. Places(call[u])' => Places(call[u])
  <2>1. call[u].at = "inserted" => (state'[Place(call[u])] = "chain" => state[Place(call[u])] = "chain")
    BY <1>3 DEF Spares
  <2> QED
    BY <1>1, <1>5, <2>1 DEF Places
<1>9. /\ call[u].at # "idle" /\ call[u].key \in used \ live => call[u].key \in used' \ live'
      /\ call[u].at # "idle" /\ call[u].key \in live => call[u].key \in live'
  BY <1>3 DEF Spares
<1>10. call[u].at \in AtFilled \cup {"readSecond", "unlinkFirst"} => id'[call[u].idx] = call[u].key
  <2>1. CASE call[u].at \in AtFilled
    <3>1. Holds(u) /\ call[u].at # "idle" /\ call[u].idx \in Nodes /\ id[call[u].idx] = call[u].key
      BY <1>1, <2>1 DEF Holds, AtHand, AtFilled, Knows
    <3> QED
      BY <1>4, <3>1
  <2>2. CASE call[u].at \in {"readSecond", "unlinkFirst"}
    <3>1. /\ call[u].at # "idle" /\ call[u].idx \in Nodes /\ id[call[u].idx] = call[u].key
          /\ OnlyInPlace(call[u].key)
      BY <1>1, <2>2 DEF Knows, AtHead, Places, ErasesInChain
    <3> QED
      BY <1>4, <3>1 DEF OnlyInPlace
  <2> QED
    BY <2>1, <2>2
<1>11. call[u].at \in {"readAfter", "unlinkNext"} => id'[call[u].nxt] = call[u].key
  <2> SUFFICES ASSUME call[u].at \in {"readAfter", "unlinkNext"}
               PROVE  id'[call[u].nxt] = call[u].key
    OBVIOUS
  <2>1. /\ call[u].at # "idle" /\ call[u].nxt \in Nodes /\ id[call[u].nxt] = call[u].key
        /\ OnlyInPlace(call[u].key)
    BY <1>1 DEF Knows, AtWalk, AtNext, Places, ErasesInChain
  <2> QED
    BY <1>4, <2>1 DEF OnlyInPlace
<1>12. call[u].at \in AtTree => state'[Place(call[u])] # "chain"
  <2>1. call[u].at \in AtTree => call[u].at # "idle" /\ state[Place(call[u])] # "chain"
    BY <1>1 DEF Knows, AtTree
  <2> QED
    BY <1>3, <2>1 DEF Spares
<1>13. InsertsOn(call[u]) \/ Before(call[u]) \/ ErasesInChain(call[u]) \/ Places(call[u]) => call[u].at # "idle"
  BY DEF InsertsOn, Before, ErasesInChain, Places, Treeing, Settled, AtTreeify, AtFilled,
         AtHead, AtWalk, AtNext
<1>14. /\ InsertsOn(call[u])' => call'[u].key \in used' \ live'
       /\ Before(call[u])' => ~HasNode(call[u].key)'
       /\ Places(call[u])' => OnlyInPlace(call[u].key)'
       /\ ErasesInChain(call[u])' \/ call'[u].at \in {"erase", "free", "uncount", "treeErase"} =>
            call'[u].key \in live'
  BY <1>1, <1>5, <1>6, <1>7, <1>8, <1>9, <1>13 DEF Knows
<1>15. call[u].at \in AtTreeify => state'[Place(call[u])] = "converting"
  BY <1>1 DEF Knows
<1> QED
  BY <1>1, <1>5, <1>10, <1>11, <1>12, <1>14, <1>15 DEF Knows

LEMMA LiveKept ==
  ASSUME MapInv, MapTypeOK', NEW t \in Threads, Spares(t),
         \A k \in Ids : k = call[t].key /\ In(k)' /\ state'[BucketOf[k]] = "chain"
                        => OnlyInPlace(k)'
  PROVE  LiveOK'
<1> SUFFICES ASSUME NEW k \in live', In(k)', state'[BucketOf[k]] = "chain"
             PROVE  OnlyInPlace(k)'
  BY DEF LiveOK
<1>1. k \in Ids /\ BucketOf[k] \in Buckets /\ OwnerOf[k] \in Threads
  BY MapFacts DEF MapTypeOK
<1>2. CASE k = call[t].key
  BY <1>1, <1>2
<1>3. CASE k # call[t].key
  <2>1. k \in live /\ state[BucketOf[k]] = "chain"
    BY <1>1, <1>3 DEF Spares
  <2>2. In(k)
    BY <1>1, <1>3, <2>1 DEF In, OnCall, Spares
  <2>3. OnlyInPlace(k)
    BY <2>1, <2>2 DEF MapInv, LiveOK
  <2> SUFFICES ASSUME NEW i \in Nodes, id'[i] = k PROVE InPlace(i)'
    BY DEF OnlyInPlace
  <2>4. id[i] = k
    BY <1>3 DEF Spares
  <2> QED
    BY <1>3, <2>3, <2>4 DEF OnlyInPlace, Spares
<1> QED
  BY <1>2, <1>3

\* What a step of one thread has to leave alone of a private bucket it is not on.
SparesBucket(t, b) ==
  /\ ~On(t, b) /\ ~On(t, b)'
  /\ state'[b] = state[b] /\ first'[b] = first[b]
  /\ \A i \in Nodes : i \in NodesOf(b)' <=> i \in NodesOf(b)
  /\ \A i \in NodesOf(b) : next'[i] = next[i]
  /\ \A u \in Threads : On(u, b) /\ call[u].at = "publish" => next'[call[u].idx] = next[call[u].idx]
  /\ \A k \in overflow : k \in Ids /\ BucketOf[k] = b => k \in overflow'

LEMMA OtherBucket ==
  ASSUME MapInv, NEW t \in Threads, Spares(t), NEW b \in Private, SparesBucket(t, b)
  PROVE  PrivateOK(b)' /\ ChainOK(b)'
<1>1. PrivateOK(b) /\ ChainOK(b) /\ IdsOK /\ b \in Buckets
  BY DEF MapInv, Private
<1>2. \A i \in NodesOf(b) : i \in Nodes /\ id'[i] = id[i]
  BY DEF NodesOf, InPlace, Spares
<1>3. \A k \in Ids : BucketOf[k] = b =>
        /\ k # call[t].key \/ call[t].at = "idle"
        /\ OnCall(k)' /\ OwnerOf[k] = t => call'[t].at = "idle"
        /\ OwnerOf[k] \in Threads
  BY MapFacts DEF SparesBucket, On, Place, OnCall
<1>4. call[t].at = "idle" => call[t].key \notin Ids
  BY MapFacts DEF MapInv, Knows
<1>5. ASSUME NEW k \in Ids, BucketOf[k] = b
      PROVE  /\ k # call[t].key /\ (k \in live' <=> k \in live)
             /\ In(k)' <=> In(k)
             /\ Inserting(k)' <=> Inserting(k)
  <2>1. k # call[t].key /\ (k \in live' <=> k \in live)
    BY <1>3, <1>4, <1>5 DEF Spares
  <2>2. OwnerOf[k] \in Threads
    BY <1>3, <1>5
  <2>3. CASE OwnerOf[k] = t
    <3>1. ~(OnCall(k) /\ TookOut(call[OwnerOf[k]])) /\ ~Inserting(k)
      BY <2>1, <2>3 DEF OnCall, Inserting
    <3>2. ~(OnCall(k)' /\ TookOut(call'[OwnerOf[k]])) /\ ~Inserting(k)'
      BY <1>3, <1>5, <2>3 DEF TookOut, Settled, Treeing, Inserting, AtTreeify
    <3> QED
      BY <2>1, <3>1, <3>2 DEF In
  <2>4. CASE OwnerOf[k] # t
    <3>1. call'[OwnerOf[k]] = call[OwnerOf[k]]
      BY <2>2, <2>4 DEF Spares
    <3> QED
      BY <2>1, <3>1 DEF In, OnCall, Inserting
  <2> QED
    BY <2>1, <2>3, <2>4
<1>6. ASSUME NEW i \in NodesOf(b), state[b] # "tree"
      PROVE  id[i] \in Ids /\ BucketOf[id[i]] = b
  <2>1. id[i] \in Ids
    BY <1>1, <1>6 DEF PrivateOK, Known
  <2> QED
    BY <1>1, <1>2, <1>6, <2>1, MapFacts DEF IdsOK, NodesOf
<1>7. ASSUME NEW k \in Ids, BucketOf[k] = b
      PROVE  Present(k) => Present(k)'
  <2>1. state'[b] = state[b]
    BY DEF SparesBucket
  <2>2. CASE state[b] = "tree"
    BY <1>7, <2>1, <2>2 DEF Present, SparesBucket
  <2>3. CASE state[b] # "tree"
    <3>1. SUFFICES ASSUME NEW i \in Nodes, id[i] = k, InPlace(i)
                   PROVE  id'[i] = k /\ InPlace(i)'
      BY <1>7, <2>1, <2>3 DEF Present
    <3>2. i \in NodesOf(b)
      BY <1>1, <1>7, <3>1, MapFacts DEF IdsOK, NodesOf
    <3> QED
      BY <1>2, <3>1, <3>2 DEF SparesBucket, NodesOf
  <2> QED
    BY <2>2, <2>3
<1>8. \A u \in Threads : On(u, b)' <=> On(u, b)
  BY DEF SparesBucket, Spares, On, Place
<1>9. \A u \in Threads : On(u, b) => u # t /\ call'[u] = call[u]
  BY DEF SparesBucket, Spares
<1>10. PrivateOK(b)'
  <2>1. \A k \in Ids : BucketOf[k] = b /\ (In(k)' \/ Inserting(k)') => Present(k)'
    BY <1>1, <1>5, <1>7 DEF PrivateOK
  <2>2. ASSUME state'[b] # "tree", NEW i \in NodesOf(b)'
        PROVE  Known(id[i])'
    <3>1. i \in NodesOf(b) /\ id'[i] = id[i] /\ state[b] # "tree"
      BY <1>2, <2>2 DEF SparesBucket, NodesOf
    <3>2. PICK k \in Ids : k = id[i] /\ BucketOf[k] = b /\ (k \in live \/ Inserting(k))
      BY <1>1, <1>6, <3>1 DEF PrivateOK, Known
    <3>3. k \in live' \/ Inserting(k)'
      BY <1>5, <3>2
    <3> QED
      BY <3>1, <3>2, <3>3 DEF Known, Inserting, OnCall
  <2>3. state'[b] = "converting" => \E u \in Threads : call'[u].at \in AtTreeify /\ Place(call[u])' = b
    <3>1. ASSUME NEW u \in Threads, call[u].at \in AtTreeify, Place(call[u]) = b
          PROVE  call'[u].at \in AtTreeify /\ Place(call[u])' = b
      <4>1. On(u, b)
        BY <3>1 DEF On, AtTreeify
      <4> QED
        BY <1>9, <3>1, <4>1 DEF Place
    <3> QED
      BY <1>1, <3>1 DEF PrivateOK, SparesBucket
  <2>4. \A i \in Nodes : i \in NodesOf(b)' <=> i \in NodesOf(b)
    BY DEF SparesBucket
  <2> QED
    BY <2>1, <2>2, <2>3 DEF PrivateOK
<1>11. PICK s \in Seq(Nodes) :
         Lists(s, b) /\ \A u \in Threads : On(u, b) => Walks(call[u], s) /\ KnowsAlone(call[u])
  BY <1>1 DEF ChainOK
<1>12. \A p \in DOMAIN s : s[p] \in NodesOf(b) /\ id'[s[p]] = id[s[p]]
  BY <1>2, <1>11 DEF Lists
<1>13. Lists(s, b)'
  <2>1. \A p \in DOMAIN s : s[p] \in NodesOf(b)' /\ next'[s[p]] = Follow(s, p)
    BY <1>11, <1>12 DEF Lists, SparesBucket, NodesOf
  <2>2. \A i \in NodesOf(b)' : \E p \in DOMAIN s : s[p] = i
    BY <1>11 DEF Lists, SparesBucket, NodesOf
  <2> QED
    BY <1>11, <2>1, <2>2 DEF Lists, SparesBucket, Follow
<1>14. ASSUME NEW u \in Threads, On(u, b)
       PROVE  Walks(call[u], s)' /\ KnowsAlone(call[u])'
  <2>1. /\ Walks(call[u], s) /\ KnowsAlone(call[u]) /\ call'[u] = call[u] /\ u # t /\ Knows(u, call[u])
        /\ Place(call[u]) = b /\ call[u].key \in Ids
    BY <1>9, <1>11, <1>14 DEF MapInv, Knows, On
  <2>2. \A p \in DOMAIN s : StandsAt(call[u], s, p) => StandsAt(call[u], s, p)'
    BY <1>12, <2>1 DEF StandsAt, Passed, Follow
  <2>3. \A p \in 0..Len(s) : call[u].at = "copy" /\ Copied(call[u], s, p) => Copied(call[u], s, p)'
    <3> SUFFICES ASSUME NEW p \in 0..Len(s), call[u].at = "copy", Copied(call[u], s, p), NEW q \in 1..p
                 PROVE  id'[s[q]] \in overflow'
      BY <2>1 DEF Copied, Follow
    <3>1. q \in DOMAIN s /\ state[b] # "tree"
      BY <2>1 DEF Knows, AtTreeify
    <3> QED
      BY <1>6, <1>12, <3>1 DEF Copied, SparesBucket
  <2>4. Walks(call[u], s)'
    BY <1>14, <2>1, <2>2, <2>3 DEF Walks, SparesBucket, Follow
  <2>5. KnowsAlone(call[u])'
    <3>1. \A i \in NodesOf(b)' : i \in NodesOf(b) /\ id'[i] = id[i]
      BY <1>1, <1>2 DEF SparesBucket, NodesOf
    <3>2. /\ Place(call[u])' = b /\ NodesOf(Place(call[u]))' = NodesOf(b)' /\ state'[b] = state[b]
          /\ call[u].key \in live' <=> call[u].key \in live
      BY <1>5, <2>1 DEF Place, SparesBucket
    <3>3. TookOut(call[u])' /\ state'[b] # "tree" => \A i \in NodesOf(b)' : id'[i] # call[u].key
      BY <2>1, <3>1, <3>2 DEF KnowsAlone
    <3> QED
      BY <2>1, <3>2, <3>3 DEF KnowsAlone
  <2> QED
    BY <2>4, <2>5
<1>15. ChainOK(b)'
  BY <1>8, <1>13, <1>14 DEF ChainOK
<1> QED
  BY <1>10, <1>15

\* A step that changes nothing but its own call: lengths and the lock do not count.
Quiet(t, c) ==
  /\ call' = [call EXCEPT ![t] = c] /\ c \in Calls
  /\ UNCHANGED <<nodeVars, first, state, overflow, history>>
  /\ len' \in [Buckets -> Int]
  /\ call[t].at # "idle" /\ c.at # "idle" /\ c.key = call[t].key
  /\ c.at \in AtHand <=> call[t].at \in AtHand
  /\ c.at \in AtHand => c.idx = call[t].idx
  /\ TookOut(call[t]) => TookOut(c)
  /\ Settled(c) <=> Settled(call[t])
  /\ c.at \in AtTreeify <=> call[t].at \in AtTreeify

LEMMA QuietStep ==
  ASSUME MapInv, NEW t \in Threads, NEW c, Quiet(t, c), Knows(t, c),
         Place(c) \in Private =>
           \A s \in Seq(Nodes) :
             Lists(s, Place(c)) /\ Walks(call[t], s) /\ KnowsAlone(call[t]) =>
               Walks(c, s) /\ KnowsAlone(c)
  PROVE  MapInv'
<1> USE DEF nodeVars, history
<1>1. /\ MapTypeOK /\ IdsOK /\ PlacesOK /\ LiveOK /\ Knows(t, call[t])
      /\ call[t].key \in Ids /\ Place(c) \in Buckets /\ Place(call[t]) = Place(c)
      /\ OwnerOf[call[t].key] = t /\ call'[t] = c /\ Place(call[t])' = Place(c)
  <2>1. MapTypeOK /\ IdsOK /\ PlacesOK /\ LiveOK /\ Knows(t, call[t])
    BY DEF MapInv
  <2>2. call'[t] = c /\ c.key = call[t].key /\ c.at # "idle"
    BY <2>1 DEF MapTypeOK, Quiet
  <2>3. c.key \in Ids /\ OwnerOf[c.key] = t
    BY <2>2 DEF Knows
  <2> QED
    BY <2>1, <2>2, <2>3, MapFacts DEF Place
<1>2. MapTypeOK'
  BY <1>1 DEF MapTypeOK, Quiet
<1>3. /\ \A u \in Threads : Holds(u)' = Holds(u) /\ (Holds(u) => call'[u].idx = call[u].idx)
      /\ FreeNodes' = FreeNodes
  BY <1>1 DEF Quiet, Holds, FreeNodes, MapTypeOK
<1>4. /\ \A i \in Nodes : InPlace(i)' <=> InPlace(i)
      /\ \A b \in Buckets, i \in Nodes : i \in NodesOf(b)' <=> i \in NodesOf(b)
  BY <1>3 DEF InPlace, NodesOf, Quiet
<1>5. IdsOK' /\ PlacesOK'
  BY <1>1, <1>3 DEF IdsOK, PlacesOK, Quiet
<1>6. Spares(t) /\ ConvertsOK'
  <2>1. Spares(t)
    BY <1>1, <1>4 DEF Spares, Quiet, MapTypeOK
  <2>2. \A u \in Threads, b \in Buckets : Converts(u, b)' <=> Converts(u, b)
    BY <1>1, <2>1 DEF Converts, Spares, Quiet, Place
  <2> QED
    BY <2>1, <2>2 DEF MapInv, ConvertsOK
<1>7. \A u \in Threads : Knows(u, call[u])'
  <2>1. ASSUME NEW u \in Threads, u # t PROVE Knows(u, call[u])'
    BY <1>6, <2>1, OthersOK DEF Quiet
  <2>2. Knows(t, call[t])'
    <3>1. /\ \A k : HasNode(k)' <=> HasNode(k)
          /\ \A k : OnlyInPlace(k)' <=> OnlyInPlace(k)
          /\ Places(call[t])' <=> Places(c)
          /\ InsertsOn(call[t])' <=> InsertsOn(c)
          /\ Before(call[t])' <=> Before(c)
          /\ ErasesInChain(call[t])' <=> ErasesInChain(c)
      BY <1>1, <1>4 DEF Quiet, HasNode, OnlyInPlace, Places, InsertsOn, Before, ErasesInChain, Settled, Treeing
    <3> QED
      BY <1>1, <3>1 DEF Quiet, Knows
  <2> QED
    BY <2>1, <2>2
<1>8. \A k \in Ids : k = call[t].key => (In(k)' => In(k)) /\ (Inserting(k)' <=> Inserting(k))
  BY <1>1 DEF Quiet, In, OnCall, Inserting
<1>9. \A k \in Ids : k # call[t].key => (In(k)' <=> In(k)) /\ (Inserting(k)' <=> Inserting(k))
  <2> SUFFICES ASSUME NEW k \in Ids, k # call[t].key
               PROVE  (In(k)' <=> In(k)) /\ (Inserting(k)' <=> Inserting(k))
    OBVIOUS
  <2>1. OwnerOf[k] \in Threads
    BY MapFacts
  <2>2. OnCall(k)' <=> OnCall(k)
    BY <1>6, <2>1 DEF OnCall, Spares, Quiet
  <2>3. OnCall(k) => call'[OwnerOf[k]] = call[OwnerOf[k]]
    BY <1>6, <2>1 DEF OnCall, Spares
  <2> QED
    BY <2>2, <2>3 DEF In, Inserting, Quiet
<1>10. LiveOK'
  <2>1. \A k \in Ids : OnlyInPlace(k)' <=> OnlyInPlace(k)
    BY <1>4 DEF OnlyInPlace, Quiet
  <2>2. \A k \in Ids : k = call[t].key /\ In(k)' /\ state'[BucketOf[k]] = "chain" => OnlyInPlace(k)'
    BY <1>1, <1>8, <2>1 DEF LiveOK, Quiet, In
  <2> QED
    BY <1>2, <1>6, <2>2, LiveKept
<1>11. ASSUME NEW b \in Private, Place(c) # b
       PROVE  PrivateOK(b)' /\ ChainOK(b)'
  <2>1. SparesBucket(t, b)
    BY <1>1, <1>4, <1>11 DEF SparesBucket, On, Quiet, Private
  <2> QED
    BY <1>6, <2>1, OtherBucket
<1>12. ASSUME NEW b \in Private, Place(c) = b
       PROVE  PrivateOK(b)' /\ ChainOK(b)'
  <2>1. PrivateOK(b) /\ ChainOK(b) /\ b \in Buckets
    BY <1>12 DEF MapInv, Private
  <2>2. \A k \in Ids : (Known(k)' <=> Known(k)) /\ (Present(k)' <=> Present(k))
    BY <1>4, <1>8, <1>9 DEF Known, Present, Quiet
  <2>3. state'[b] = "converting" => \E u \in Threads : call'[u].at \in AtTreeify /\ Place(call[u])' = b
    <3>1. \A u \in Threads : call[u].at \in AtTreeify /\ Place(call[u]) = b =>
                               call'[u].at \in AtTreeify /\ Place(call[u])' = b
      BY <1>1, <1>6 DEF Quiet, Spares, Place
    <3> QED
      BY <2>1, <3>1 DEF PrivateOK, Quiet
  <2>4. PrivateOK(b)'
    <3>1. \A k \in Ids : BucketOf[k] = b /\ (In(k)' \/ Inserting(k)') => Present(k)'
      BY <1>8, <1>9, <2>1, <2>2 DEF PrivateOK
    <3>2. state'[b] # "tree" => \A i \in NodesOf(b)' : Known(id[i])'
      <4>1. \A i \in NodesOf(b) : id'[i] = id[i]
        BY DEF Quiet
      <4>2. ASSUME state'[b] # "tree", NEW i \in NodesOf(b)'
            PROVE  Known(id[i])'
        <5>1. i \in NodesOf(b)
          BY <1>4, <2>1, <4>2 DEF NodesOf
        <5>2. PICK k \in Ids : k = id[i] /\ Known(k)
          BY <2>1, <4>2, <5>1 DEF PrivateOK, Quiet, Known
        <5>3. Known(k)'
          BY <2>2, <5>2
        <5> QED
          BY <4>1, <5>1, <5>2, <5>3 DEF Known, Inserting, OnCall
      <4> QED
        BY <4>2
    <3> QED
      BY <2>3, <3>1, <3>2 DEF PrivateOK
  <2>5. PICK s \in Seq(Nodes) :
          Lists(s, b) /\ \A u \in Threads : On(u, b) => Walks(call[u], s) /\ KnowsAlone(call[u])
    BY <2>1 DEF ChainOK
  <2>6. On(t, b) /\ \A u \in Threads : On(u, b)' => u = t
    <3>1. On(t, b)
      BY <1>1, <1>12 DEF On, Quiet
    <3>2. \A u \in Threads : On(u, b)' => On(u, b)
      BY <1>6, <3>1 DEF On, Spares, At, Place
    <3> QED
      BY <3>1, <3>2, Alone
  <2>7. Lists(s, b)'
    <3>1. \A p \in DOMAIN s : s[p] \in NodesOf(b)' /\ next'[s[p]] = Follow(s, p)
      BY <1>4, <2>1, <2>5 DEF Lists, NodesOf, Quiet
    <3>2. \A i \in NodesOf(b)' : \E p \in DOMAIN s : s[p] = i
      BY <1>4, <2>1, <2>5 DEF Lists, NodesOf
    <3> QED
      BY <2>5, <3>1, <3>2 DEF Lists, Quiet, Follow
  <2>8. Walks(call[t], s)' /\ KnowsAlone(call[t])'
    <3>1. Walks(c, s) /\ KnowsAlone(c)
      BY <1>12, <2>5, <2>6
    <3>2. \A p \in DOMAIN s : StandsAt(call[t], s, p)' <=> StandsAt(c, s, p)
      BY <1>1 DEF Quiet, StandsAt, Passed, Follow
    <3>3. \A p \in 0..Len(s) : Copied(call[t], s, p)' <=> Copied(c, s, p)
      BY <1>1 DEF Quiet, Copied, Follow
    <3>4. Walks(call[t], s)'
      BY <1>1, <3>1, <3>2, <3>3 DEF Quiet, Walks, Follow
    <3>5. TookOut(call[t])' <=> TookOut(c)
      BY <1>1 DEF TookOut
    <3>6. KnowsAlone(call[t])'
      BY <1>1, <1>4, <3>1, <3>5 DEF Quiet, KnowsAlone, NodesOf
    <3> QED
      BY <3>4, <3>6
  <2>9. ChainOK(b)'
    BY <2>6, <2>7, <2>8 DEF ChainOK
  <2> QED
    BY <2>4, <2>9
<1> QED
  BY <1>2, <1>5, <1>6, <1>7, <1>10, <1>11, <1>12 DEF MapInv
-----------------------------------------------------------------------------
(* Steps that only read.                                                   *)

LEMMA ListFacts ==
  ASSUME NEW s \in Seq(Nodes)
  PROVE  /\ DOMAIN s = 1..Len(s) /\ Len(s) \in Nat
         /\ \A p \in 0..Len(s) : /\ Follow(s, p) = Null <=> p = Len(s)
                                 /\ Follow(s, p) \in Links
         /\ \A p \in 0..Len(s) : p # Len(s) => p + 1 \in DOMAIN s /\ Follow(s, p) = s[p + 1]
<1>1. DOMAIN s = 1..Len(s) /\ Len(s) \in Nat /\ \A p \in DOMAIN s : s[p] \in Nodes
  OBVIOUS
<1>2. ASSUME NEW p \in 0..Len(s), p # Len(s)
      PROVE  p + 1 \in DOMAIN s /\ Follow(s, p) = s[p + 1] /\ s[p + 1] \in Nodes
  <2>1. Len(s) \in Nat
    BY <1>1
  <2>2. p + 1 \in 1..Len(s)
    BY <1>2, <2>1
  <2> QED
    BY <1>1, <1>2, <2>2 DEF Follow
<1>3. Follow(s, Len(s)) = Null
  BY DEF Follow
<1> QED
  BY <1>1, <1>2, <1>3, MapFacts DEF Links

\* An id that is in no node of the list is not in the index.
LEMMA NotInList ==
  ASSUME MapInv, NEW b \in Private, NEW s, Lists(s, b), state[b] # "tree",
         NEW k \in Ids, BucketOf[k] = b, \A q \in DOMAIN s : id[s[q]] # k
  PROVE  ~In(k) /\ ~Inserting(k)
<1> SUFFICES ASSUME In(k) \/ Inserting(k) PROVE FALSE
  OBVIOUS
<1>1. PICK i \in Nodes : id[i] = k /\ InPlace(i)
  BY DEF MapInv, PrivateOK, Present
<1>2. i \in NodesOf(b)
  BY <1>1, MapFacts DEF MapInv, IdsOK, NodesOf
<1> QED
  BY <1>1, <1>2 DEF Lists

\* What is known of a call in progress.
LEMMA CallFacts ==
  ASSUME MapInv, NEW t \in Threads, call[t].at # "idle"
  PROVE  /\ call[t].key \in Ids /\ OwnerOf[call[t].key] = t /\ Place(call[t]) \in Buckets
         /\ call[t] \in Calls /\ call \in [Threads -> Calls] /\ Knows(t, call[t])
         /\ state \in [Buckets -> {"chain", "converting", "tree"}]
         /\ first \in [Buckets -> Links] /\ next \in [Nodes -> Links]
         /\ id \in [Nodes -> Ids \cup {NoId}] /\ len \in [Buckets -> Int]
         /\ bucket \in [Nodes -> Buckets]
         /\ call[t].idx \in Links /\ call[t].nxt \in Links /\ call[t].aft \in Links
BY MapFacts DEF MapInv, MapTypeOK, Knows, Place, Calls

\* The new record of a call whose step or locals are changed.
Step(t, c, x, i, j, l) ==
  /\ c \in Calls /\ call' = [call EXCEPT ![t] = c]
  /\ c.key = call[t].key /\ c.at = x /\ c.idx = i /\ c.nxt = j /\ c.aft = l

LEMMA Steps ==
  ASSUME NEW t \in Threads, call \in [Threads -> Calls], NEW x \in Accesses,
         NEW i \in Links, NEW j \in Links, NEW l \in Links
  PROVE  /\ call' = [call EXCEPT ![t].at = x] =>
              \E c : Step(t, c, x, call[t].idx, call[t].nxt, call[t].aft)
         /\ call' = [call EXCEPT ![t].idx = i, ![t].at = x] =>
              \E c : Step(t, c, x, i, call[t].nxt, call[t].aft)
         /\ call' = [call EXCEPT ![t].nxt = j, ![t].at = x] =>
              \E c : Step(t, c, x, call[t].idx, j, call[t].aft)
         /\ call' = [call EXCEPT ![t].aft = l, ![t].at = x] =>
              \E c : Step(t, c, x, call[t].idx, call[t].nxt, l)
         /\ call' = [call EXCEPT ![t].idx = i, ![t].nxt = j, ![t].at = x] =>
              \E c : Step(t, c, x, i, j, call[t].aft)
         /\ call' = [call EXCEPT ![t] = [Idle EXCEPT !.at = x, !.key = call[t].key]] =>
              \E c : Step(t, c, x, Null, Null, Null)
         /\ call' = [call EXCEPT ![t] = [Idle EXCEPT !.at = x, !.key = call[t].key, !.idx = i]] =>
              \E c : Step(t, c, x, i, Null, Null)
<1>1. call[t] \in Calls /\ Null \in Links
  BY DEF Links
<1>2. ASSUME call' = [call EXCEPT ![t].at = x]
      PROVE  Step(t, call'[t], x, call[t].idx, call[t].nxt, call[t].aft)
  BY <1>1, <1>2 DEF Step, Calls
<1>3. ASSUME call' = [call EXCEPT ![t].idx = i, ![t].at = x]
      PROVE  Step(t, call'[t], x, i, call[t].nxt, call[t].aft)
  BY <1>1, <1>3 DEF Step, Calls
<1>4. ASSUME call' = [call EXCEPT ![t].nxt = j, ![t].at = x]
      PROVE  Step(t, call'[t], x, call[t].idx, j, call[t].aft)
  BY <1>1, <1>4 DEF Step, Calls
<1>5. ASSUME call' = [call EXCEPT ![t].aft = l, ![t].at = x]
      PROVE  Step(t, call'[t], x, call[t].idx, call[t].nxt, l)
  BY <1>1, <1>5 DEF Step, Calls
<1>6. ASSUME call' = [call EXCEPT ![t].idx = i, ![t].nxt = j, ![t].at = x]
      PROVE  Step(t, call'[t], x, i, j, call[t].aft)
  BY <1>1, <1>6 DEF Step, Calls
<1>7. ASSUME call' = [call EXCEPT ![t] = [Idle EXCEPT !.at = x, !.key = call[t].key]]
      PROVE  Step(t, call'[t], x, Null, Null, Null)
  BY <1>1, <1>7 DEF Step, Calls, Idle
<1>8. ASSUME call' = [call EXCEPT ![t] = [Idle EXCEPT !.at = x, !.key = call[t].key, !.idx = i]]
      PROVE  Step(t, call'[t], x, i, Null, Null)
  BY <1>1, <1>8 DEF Step, Calls, Idle
<1> QED
  BY <1>2, <1>3, <1>4, <1>5, <1>6, <1>7, <1>8, Zenon

-----------------------------------------------------------------------------
\* One lemma for each access.  Most change nothing but what their own call knows, which
\* the state of the bucket and the list its walk stands on justify.
LEMMA GateInsert ==
  ASSUME MapInv, NEW t \in Threads, Gate(t, "insert", "treeAdd", "length")
  PROVE  MapInv'
<1> DEFINE k == call[t].key
           b == Place(call[t])
           x == IF state[b] # "chain" THEN "treeAdd" ELSE "length"
<1>1. /\ call[t].at = "insert" /\ UNCHANGED <<nodeVars, first, state, overflow, history>>
      /\ len' \in [Buckets -> Int]
  <2>1. call[t].at = "insert"
    BY DEF Gate, At
  <2> QED
    BY <2>1, CallFacts DEF Gate, Bkt, Place, nodeVars, bucketVars, history
<1>2. /\ call \in [Threads -> Calls] /\ Knows(t, call[t]) /\ b \in Buckets /\ k \in Ids
      /\ call[t].idx \in Links /\ call[t].nxt \in Links /\ call[t].aft \in Links
      /\ state[b] \in {"chain", "converting", "tree"} /\ OwnerOf[k] = t
  BY <1>1, CallFacts
<1>3. PICK c : Step(t, c, x, call[t].idx, call[t].nxt, call[t].aft)
  <2>1. call' = [call EXCEPT ![t].at = x]
    BY <1>1 DEF Gate, ToIf, To, At, Bkt, Place
  <2>2. x \in Accesses
    BY DEF Accesses, Returned, AtHand, AtFilled, AtHead, AtWalk, AtNext, AtFind, AtTree,
           AtTreeify, AtOther
  <2> HIDE DEF x
  <2> QED
    BY <1>2, <2>1, <2>2, Steps
<1>4. /\ c \in Calls /\ c.key = k /\ c.at = x /\ Place(c) = b
      /\ c.idx = call[t].idx /\ c.nxt = call[t].nxt /\ c.aft = call[t].aft
  BY <1>3 DEF Step, Place
<1>5. Quiet(t, c)
  BY <1>1, <1>2, <1>3, <1>4 DEF Step, Quiet, TookOut, Settled, Treeing, AtTreeify, AtHand, AtFilled,
     nodeVars, bucketVars, history
<1>6. Knows(t, c)
  BY <1>1, <1>2, <1>4 DEF Knows, AtTreeify, AtHand, AtFilled, AtHead, AtWalk, AtNext, AtFind,
     AtTree, Place, InsertsOn, Before, Treeing, Settled, Places, ErasesInChain
<1>7. ASSUME b \in Private, NEW s \in Seq(Nodes), Lists(s, b), Walks(call[t], s), KnowsAlone(call[t])
      PROVE  Walks(c, s) /\ KnowsAlone(c)
  <2>8. Walks(c, s)
    BY <1>1, <1>2, <1>4, <1>7 DEF Walks, AtTreeify, AtHand, AtFilled, AtHead, AtWalk, AtNext, AtFind, AtTree, Place
  <2>9. KnowsAlone(c)
    BY <1>1, <1>2, <1>4, <1>7 DEF KnowsAlone, AtTreeify, AtHand, AtFilled, AtHead, AtWalk, AtNext, AtFind,
         AtTree, AtChain, Place, TookOut
  <2> QED
    BY <2>8, <2>9
<1> QED
  BY <1>4, <1>5, <1>6, <1>7, QuietStep

LEMMA GateRecheck ==
  ASSUME MapInv, NEW t \in Threads, Gate(t, "recheck", "giveBack", "readFirst")
  PROVE  MapInv'
<1> DEFINE k == call[t].key
           b == Place(call[t])
           x == IF state[b] # "chain" THEN "giveBack" ELSE "readFirst"
<1>1. /\ call[t].at = "recheck" /\ UNCHANGED <<nodeVars, first, state, overflow, history>>
      /\ len' \in [Buckets -> Int]
  <2>1. call[t].at = "recheck"
    BY DEF Gate, At
  <2> QED
    BY <2>1, CallFacts DEF Gate, Bkt, Place, nodeVars, bucketVars, history
<1>2. /\ call \in [Threads -> Calls] /\ Knows(t, call[t]) /\ b \in Buckets /\ k \in Ids
      /\ call[t].idx \in Links /\ call[t].nxt \in Links /\ call[t].aft \in Links
      /\ state[b] \in {"chain", "converting", "tree"} /\ OwnerOf[k] = t
  BY <1>1, CallFacts
<1>3. PICK c : Step(t, c, x, call[t].idx, call[t].nxt, call[t].aft)
  <2>1. call' = [call EXCEPT ![t].at = x]
    BY <1>1 DEF Gate, ToIf, To, At, Bkt, Place
  <2>2. x \in Accesses
    BY DEF Accesses, Returned, AtHand, AtFilled, AtHead, AtWalk, AtNext, AtFind, AtTree,
           AtTreeify, AtOther
  <2> HIDE DEF x
  <2> QED
    BY <1>2, <2>1, <2>2, Steps
<1>4. /\ c \in Calls /\ c.key = k /\ c.at = x /\ Place(c) = b
      /\ c.idx = call[t].idx /\ c.nxt = call[t].nxt /\ c.aft = call[t].aft
  BY <1>3 DEF Step, Place
<1>5. Quiet(t, c)
  BY <1>1, <1>2, <1>3, <1>4 DEF Step, Quiet, TookOut, Settled, Treeing, AtTreeify, AtHand, AtFilled,
     nodeVars, bucketVars, history
<1>6. Knows(t, c)
  BY <1>1, <1>2, <1>4 DEF Knows, AtTreeify, AtHand, AtFilled, AtHead, AtWalk, AtNext, AtFind,
     AtTree, Place, InsertsOn, Before, Treeing, Settled, Places, ErasesInChain
<1>7. ASSUME b \in Private, NEW s \in Seq(Nodes), Lists(s, b), Walks(call[t], s), KnowsAlone(call[t])
      PROVE  Walks(c, s) /\ KnowsAlone(c)
  <2>8. Walks(c, s)
    BY <1>1, <1>2, <1>4, <1>7 DEF Walks, AtTreeify, AtHand, AtFilled, AtHead, AtWalk, AtNext, AtFind, AtTree, Place
  <2>9. KnowsAlone(c)
    BY <1>1, <1>2, <1>4, <1>7 DEF KnowsAlone, AtTreeify, AtHand, AtFilled, AtHead, AtWalk, AtNext, AtFind,
         AtTree, AtChain, Place, TookOut
  <2> QED
    BY <2>8, <2>9
<1> QED
  BY <1>4, <1>5, <1>6, <1>7, QuietStep

LEMMA GateRetry ==
  ASSUME MapInv, NEW t \in Threads, Gate(t, "retry", "giveBack", "link")
  PROVE  MapInv'
<1> DEFINE k == call[t].key
           b == Place(call[t])
           x == IF state[b] # "chain" THEN "giveBack" ELSE "link"
<1>1. /\ call[t].at = "retry" /\ UNCHANGED <<nodeVars, first, state, overflow, history>>
      /\ len' \in [Buckets -> Int]
  <2>1. call[t].at = "retry"
    BY DEF Gate, At
  <2> QED
    BY <2>1, CallFacts DEF Gate, Bkt, Place, nodeVars, bucketVars, history
<1>2. /\ call \in [Threads -> Calls] /\ Knows(t, call[t]) /\ b \in Buckets /\ k \in Ids
      /\ call[t].idx \in Links /\ call[t].nxt \in Links /\ call[t].aft \in Links
      /\ state[b] \in {"chain", "converting", "tree"} /\ OwnerOf[k] = t
  BY <1>1, CallFacts
<1>3. PICK c : Step(t, c, x, call[t].idx, call[t].nxt, call[t].aft)
  <2>1. call' = [call EXCEPT ![t].at = x]
    BY <1>1 DEF Gate, ToIf, To, At, Bkt, Place
  <2>2. x \in Accesses
    BY DEF Accesses, Returned, AtHand, AtFilled, AtHead, AtWalk, AtNext, AtFind, AtTree,
           AtTreeify, AtOther
  <2> HIDE DEF x
  <2> QED
    BY <1>2, <2>1, <2>2, Steps
<1>4. /\ c \in Calls /\ c.key = k /\ c.at = x /\ Place(c) = b
      /\ c.idx = call[t].idx /\ c.nxt = call[t].nxt /\ c.aft = call[t].aft
  BY <1>3 DEF Step, Place
<1>5. Quiet(t, c)
  BY <1>1, <1>2, <1>3, <1>4 DEF Step, Quiet, TookOut, Settled, Treeing, AtTreeify, AtHand, AtFilled,
     nodeVars, bucketVars, history
<1>6. Knows(t, c)
  BY <1>1, <1>2, <1>4 DEF Knows, AtTreeify, AtHand, AtFilled, AtHead, AtWalk, AtNext, AtFind,
     AtTree, Place, InsertsOn, Before, Treeing, Settled, Places, ErasesInChain
<1>7. ASSUME b \in Private, NEW s \in Seq(Nodes), Lists(s, b), Walks(call[t], s), KnowsAlone(call[t])
      PROVE  Walks(c, s) /\ KnowsAlone(c)
  <2>8. Walks(c, s)
    BY <1>1, <1>2, <1>4, <1>7 DEF Walks, AtTreeify, AtHand, AtFilled, AtHead, AtWalk, AtNext, AtFind, AtTree, Place
  <2>9. KnowsAlone(c)
    BY <1>1, <1>2, <1>4, <1>7 DEF KnowsAlone, AtTreeify, AtHand, AtFilled, AtHead, AtWalk, AtNext, AtFind,
         AtTree, AtChain, Place, TookOut
  <2> QED
    BY <2>8, <2>9
<1> QED
  BY <1>4, <1>5, <1>6, <1>7, QuietStep

LEMMA GateFind ==
  ASSUME MapInv, NEW t \in Threads, Gate(t, "find", "treeFind", "findFirst")
  PROVE  MapInv'
<1> DEFINE k == call[t].key
           b == Place(call[t])
           x == IF state[b] # "chain" THEN "treeFind" ELSE "findFirst"
<1>1. /\ call[t].at = "find" /\ UNCHANGED <<nodeVars, first, state, overflow, history>>
      /\ len' \in [Buckets -> Int]
  <2>1. call[t].at = "find"
    BY DEF Gate, At
  <2> QED
    BY <2>1, CallFacts DEF Gate, Bkt, Place, nodeVars, bucketVars, history
<1>2. /\ call \in [Threads -> Calls] /\ Knows(t, call[t]) /\ b \in Buckets /\ k \in Ids
      /\ call[t].idx \in Links /\ call[t].nxt \in Links /\ call[t].aft \in Links
      /\ state[b] \in {"chain", "converting", "tree"} /\ OwnerOf[k] = t
  BY <1>1, CallFacts
<1>3. PICK c : Step(t, c, x, call[t].idx, call[t].nxt, call[t].aft)
  <2>1. call' = [call EXCEPT ![t].at = x]
    BY <1>1 DEF Gate, ToIf, To, At, Bkt, Place
  <2>2. x \in Accesses
    BY DEF Accesses, Returned, AtHand, AtFilled, AtHead, AtWalk, AtNext, AtFind, AtTree,
           AtTreeify, AtOther
  <2> HIDE DEF x
  <2> QED
    BY <1>2, <2>1, <2>2, Steps
<1>4. /\ c \in Calls /\ c.key = k /\ c.at = x /\ Place(c) = b
      /\ c.idx = call[t].idx /\ c.nxt = call[t].nxt /\ c.aft = call[t].aft
  BY <1>3 DEF Step, Place
<1>5. Quiet(t, c)
  BY <1>1, <1>2, <1>3, <1>4 DEF Step, Quiet, TookOut, Settled, Treeing, AtTreeify, AtHand, AtFilled,
     nodeVars, bucketVars, history
<1>6. Knows(t, c)
  BY <1>1, <1>2, <1>4 DEF Knows, AtTreeify, AtHand, AtFilled, AtHead, AtWalk, AtNext, AtFind,
     AtTree, Place, InsertsOn, Before, Treeing, Settled, Places, ErasesInChain
<1>7. ASSUME b \in Private, NEW s \in Seq(Nodes), Lists(s, b), Walks(call[t], s), KnowsAlone(call[t])
      PROVE  Walks(c, s) /\ KnowsAlone(c)
  <2>8. Walks(c, s)
    BY <1>1, <1>2, <1>4, <1>7 DEF Walks, AtTreeify, AtHand, AtFilled, AtHead, AtWalk, AtNext, AtFind, AtTree, Place
  <2>9. KnowsAlone(c)
    BY <1>1, <1>2, <1>4, <1>7 DEF KnowsAlone, AtTreeify, AtHand, AtFilled, AtHead, AtWalk, AtNext, AtFind,
         AtTree, AtChain, Place, TookOut
  <2> QED
    BY <2>8, <2>9
<1> QED
  BY <1>4, <1>5, <1>6, <1>7, QuietStep

LEMMA GateErase ==
  ASSUME MapInv, NEW t \in Threads, Gate(t, "erase", "treeErase", "eraseFirst")
  PROVE  MapInv'
<1> DEFINE k == call[t].key
           b == Place(call[t])
           x == IF state[b] # "chain" THEN "treeErase" ELSE "eraseFirst"
<1>1. /\ call[t].at = "erase" /\ UNCHANGED <<nodeVars, first, state, overflow, history>>
      /\ len' \in [Buckets -> Int]
  <2>1. call[t].at = "erase"
    BY DEF Gate, At
  <2> QED
    BY <2>1, CallFacts DEF Gate, Bkt, Place, nodeVars, bucketVars, history
<1>2. /\ call \in [Threads -> Calls] /\ Knows(t, call[t]) /\ b \in Buckets /\ k \in Ids
      /\ call[t].idx \in Links /\ call[t].nxt \in Links /\ call[t].aft \in Links
      /\ state[b] \in {"chain", "converting", "tree"} /\ OwnerOf[k] = t
  BY <1>1, CallFacts
<1>3. PICK c : Step(t, c, x, call[t].idx, call[t].nxt, call[t].aft)
  <2>1. call' = [call EXCEPT ![t].at = x]
    BY <1>1 DEF Gate, ToIf, To, At, Bkt, Place
  <2>2. x \in Accesses
    BY DEF Accesses, Returned, AtHand, AtFilled, AtHead, AtWalk, AtNext, AtFind, AtTree,
           AtTreeify, AtOther
  <2> HIDE DEF x
  <2> QED
    BY <1>2, <2>1, <2>2, Steps
<1>4. /\ c \in Calls /\ c.key = k /\ c.at = x /\ Place(c) = b
      /\ c.idx = call[t].idx /\ c.nxt = call[t].nxt /\ c.aft = call[t].aft
  BY <1>3 DEF Step, Place
<1>5. Quiet(t, c)
  BY <1>1, <1>2, <1>3, <1>4 DEF Step, Quiet, TookOut, Settled, Treeing, AtTreeify, AtHand, AtFilled,
     nodeVars, bucketVars, history
<1>6. Knows(t, c)
  <2>1. state[b] = "chain" => OnlyInPlace(k)
    BY <1>1, <1>2 DEF MapInv, LiveOK, Knows, In, TookOut, Place, OnCall
  <2> QED
    BY <1>1, <1>2, <1>4, <2>1 DEF Knows, AtTreeify, AtHand, AtFilled, AtHead, AtWalk, AtNext, AtFind,
       AtTree, Place, InsertsOn, Before, Treeing, Settled, Places, ErasesInChain
<1>7. ASSUME b \in Private, NEW s \in Seq(Nodes), Lists(s, b), Walks(call[t], s), KnowsAlone(call[t])
      PROVE  Walks(c, s) /\ KnowsAlone(c)
  <2>8. Walks(c, s)
    BY <1>1, <1>2, <1>4, <1>7 DEF Walks, AtTreeify, AtHand, AtFilled, AtHead, AtWalk, AtNext, AtFind, AtTree, Place
  <2>9. KnowsAlone(c)
    BY <1>1, <1>2, <1>4, <1>7 DEF KnowsAlone, AtTreeify, AtHand, AtFilled, AtHead, AtWalk, AtNext, AtFind,
         AtTree, AtChain, Place, TookOut
  <2> QED
    BY <2>8, <2>9
<1> QED
  BY <1>4, <1>5, <1>6, <1>7, QuietStep

LEMMA CheckLengthStep ==
  ASSUME MapInv, NEW t \in Threads, CheckLength(t)
  PROVE  MapInv'
<1> DEFINE k == call[t].key
           b == Place(call[t])
           x == IF len[b] >= Threshold THEN "claim" ELSE "alloc"
<1>1. /\ call[t].at = "length" /\ UNCHANGED <<nodeVars, first, state, overflow, history>>
      /\ len' \in [Buckets -> Int]
  <2>1. call[t].at = "length"
    BY DEF CheckLength, At
  <2> QED
    BY <2>1, CallFacts DEF CheckLength, Bkt, Place, nodeVars, bucketVars, history
<1>2. /\ call \in [Threads -> Calls] /\ Knows(t, call[t]) /\ b \in Buckets /\ k \in Ids
      /\ call[t].idx \in Links /\ call[t].nxt \in Links /\ call[t].aft \in Links
      /\ state[b] \in {"chain", "converting", "tree"} /\ OwnerOf[k] = t
      /\ call[t].idx = Null
  <2>1. /\ call \in [Threads -> Calls] /\ Knows(t, call[t]) /\ b \in Buckets /\ k \in Ids
        /\ call[t].idx \in Links /\ call[t].nxt \in Links /\ call[t].aft \in Links
        /\ state[b] \in {"chain", "converting", "tree"} /\ OwnerOf[k] = t
        /\ first \in [Buckets -> Links] /\ next \in [Nodes -> Links]
    BY <1>1, CallFacts
  <2>2. call[t].idx = Null
    BY <1>1, <2>1, MapFacts DEF Knows, AtHand, AtFilled, AtHead, AtWalk, AtNext, AtFind, Links
  <2> QED
    BY <2>1, <2>2
<1>3. PICK c : Step(t, c, x, call[t].idx, call[t].nxt, call[t].aft)
  <2>1. call' = [call EXCEPT ![t].at = x]
    BY <1>1 DEF CheckLength, ToIf, To, At, Bkt, Place
  <2>2. x \in Accesses
    BY DEF Accesses, Returned, AtHand, AtFilled, AtHead, AtWalk, AtNext, AtFind, AtTree,
           AtTreeify, AtOther
  <2> HIDE DEF x
  <2> QED
    BY <1>2, <2>1, <2>2, Steps
<1>4. /\ c \in Calls /\ c.key = k /\ c.at = x /\ Place(c) = b
      /\ c.idx = call[t].idx /\ c.nxt = call[t].nxt /\ c.aft = call[t].aft
  BY <1>3 DEF Step, Place
<1>5. Quiet(t, c)
  BY <1>1, <1>2, <1>3, <1>4 DEF Step, Quiet, TookOut, Settled, Treeing, AtTreeify, AtHand, AtFilled,
     nodeVars, bucketVars, history
<1>6. Knows(t, c)
  BY <1>1, <1>2, <1>4 DEF Knows, AtTreeify, AtHand, AtFilled, AtHead, AtWalk, AtNext, AtFind,
     AtTree, Place, InsertsOn, Before, Treeing, Settled, Places, ErasesInChain
<1>7. ASSUME b \in Private, NEW s \in Seq(Nodes), Lists(s, b), Walks(call[t], s), KnowsAlone(call[t])
      PROVE  Walks(c, s) /\ KnowsAlone(c)
  <2>8. Walks(c, s)
    BY <1>1, <1>2, <1>4, <1>7 DEF Walks, AtTreeify, AtHand, AtFilled, AtHead, AtWalk, AtNext, AtFind, AtTree, Place
  <2>9. KnowsAlone(c)
    BY <1>1, <1>2, <1>4, <1>7 DEF KnowsAlone, AtTreeify, AtHand, AtFilled, AtHead, AtWalk, AtNext, AtFind,
         AtTree, AtChain, Place, TookOut
  <2> QED
    BY <2>8, <2>9
<1> QED
  BY <1>4, <1>5, <1>6, <1>7, QuietStep

LEMMA CheckLengthAgainStep ==
  ASSUME MapInv, NEW t \in Threads, CheckLengthAgain(t)
  PROVE  MapInv'
<1> DEFINE k == call[t].key
           b == Place(call[t])
           x == IF len[b] >= Threshold THEN "claim" ELSE "inserted"
<1>1. /\ call[t].at = "lengthAgain" /\ UNCHANGED <<nodeVars, first, state, overflow, history>>
      /\ len' \in [Buckets -> Int]
  <2>1. call[t].at = "lengthAgain"
    BY DEF CheckLengthAgain, At
  <2> QED
    BY <2>1, CallFacts DEF CheckLengthAgain, Bkt, Place, nodeVars, bucketVars, history
<1>2. /\ call \in [Threads -> Calls] /\ Knows(t, call[t]) /\ b \in Buckets /\ k \in Ids
      /\ call[t].idx \in Links /\ call[t].nxt \in Links /\ call[t].aft \in Links
      /\ state[b] \in {"chain", "converting", "tree"} /\ OwnerOf[k] = t
      /\ call[t].idx # Null
  <2>1. /\ call \in [Threads -> Calls] /\ Knows(t, call[t]) /\ b \in Buckets /\ k \in Ids
        /\ call[t].idx \in Links /\ call[t].nxt \in Links /\ call[t].aft \in Links
        /\ state[b] \in {"chain", "converting", "tree"} /\ OwnerOf[k] = t
        /\ first \in [Buckets -> Links] /\ next \in [Nodes -> Links]
    BY <1>1, CallFacts
  <2>2. call[t].idx # Null
    BY <1>1, <2>1, MapFacts DEF Knows, AtHand, AtFilled, AtHead, AtWalk, AtNext, AtFind, Links
  <2> QED
    BY <2>1, <2>2
<1>3. PICK c : Step(t, c, x, call[t].idx, call[t].nxt, call[t].aft)
  <2>1. call' = [call EXCEPT ![t].at = x]
    BY <1>1 DEF CheckLengthAgain, ToIf, To, At, Bkt, Place
  <2>2. x \in Accesses
    BY DEF Accesses, Returned, AtHand, AtFilled, AtHead, AtWalk, AtNext, AtFind, AtTree,
           AtTreeify, AtOther
  <2> HIDE DEF x
  <2> QED
    BY <1>2, <2>1, <2>2, Steps
<1>4. /\ c \in Calls /\ c.key = k /\ c.at = x /\ Place(c) = b
      /\ c.idx = call[t].idx /\ c.nxt = call[t].nxt /\ c.aft = call[t].aft
  BY <1>3 DEF Step, Place
<1>5. Quiet(t, c)
  BY <1>1, <1>2, <1>3, <1>4 DEF Step, Quiet, TookOut, Settled, Treeing, AtTreeify, AtHand, AtFilled,
     nodeVars, bucketVars, history
<1>6. Knows(t, c)
  BY <1>1, <1>2, <1>4 DEF Knows, AtTreeify, AtHand, AtFilled, AtHead, AtWalk, AtNext, AtFind,
     AtTree, Place, InsertsOn, Before, Treeing, Settled, Places, ErasesInChain
<1>7. ASSUME b \in Private, NEW s \in Seq(Nodes), Lists(s, b), Walks(call[t], s), KnowsAlone(call[t])
      PROVE  Walks(c, s) /\ KnowsAlone(c)
  <2>8. Walks(c, s)
    BY <1>1, <1>2, <1>4, <1>7 DEF Walks, AtTreeify, AtHand, AtFilled, AtHead, AtWalk, AtNext, AtFind, AtTree, Place
  <2>9. KnowsAlone(c)
    BY <1>1, <1>2, <1>4, <1>7 DEF KnowsAlone, AtTreeify, AtHand, AtFilled, AtHead, AtWalk, AtNext, AtFind,
         AtTree, AtChain, Place, TookOut
  <2> QED
    BY <2>8, <2>9
<1> QED
  BY <1>4, <1>5, <1>6, <1>7, QuietStep

LEMMA SameBucketStep ==
  ASSUME MapInv, NEW t \in Threads, SameBucket(t)
  PROVE  MapInv'
<1> DEFINE k == call[t].key
           b == Place(call[t])
           x == IF bucket[call[t].idx] # b THEN "findFirst" ELSE "compare"
<1>1. /\ call[t].at = "sameBucket" /\ UNCHANGED <<nodeVars, first, state, overflow, history>>
      /\ len' \in [Buckets -> Int]
  <2>1. call[t].at = "sameBucket"
    BY DEF SameBucket, At
  <2> QED
    BY <2>1, CallFacts DEF SameBucket, Bkt, Place, nodeVars, bucketVars, history
<1>2. /\ call \in [Threads -> Calls] /\ Knows(t, call[t]) /\ b \in Buckets /\ k \in Ids
      /\ call[t].idx \in Links /\ call[t].nxt \in Links /\ call[t].aft \in Links
      /\ state[b] \in {"chain", "converting", "tree"} /\ OwnerOf[k] = t
  BY <1>1, CallFacts
<1>3. PICK c : Step(t, c, x, call[t].idx, call[t].nxt, call[t].aft)
  <2>1. call' = [call EXCEPT ![t].at = x]
    BY <1>1 DEF SameBucket, ToIf, To, At, Bkt, Place
  <2>2. x \in Accesses
    BY DEF Accesses, Returned, AtHand, AtFilled, AtHead, AtWalk, AtNext, AtFind, AtTree,
           AtTreeify, AtOther
  <2> HIDE DEF x
  <2> QED
    BY <1>2, <2>1, <2>2, Steps
<1>4. /\ c \in Calls /\ c.key = k /\ c.at = x /\ Place(c) = b
      /\ c.idx = call[t].idx /\ c.nxt = call[t].nxt /\ c.aft = call[t].aft
  BY <1>3 DEF Step, Place
<1>5. Quiet(t, c)
  BY <1>1, <1>2, <1>3, <1>4 DEF Step, Quiet, TookOut, Settled, Treeing, AtTreeify, AtHand, AtFilled,
     nodeVars, bucketVars, history
<1>6. Knows(t, c)
  BY <1>1, <1>2, <1>4 DEF Knows, AtTreeify, AtHand, AtFilled, AtHead, AtWalk, AtNext, AtFind,
     AtTree, Place, InsertsOn, Before, Treeing, Settled, Places, ErasesInChain
<1>7. ASSUME b \in Private, NEW s \in Seq(Nodes), Lists(s, b), Walks(call[t], s), KnowsAlone(call[t])
      PROVE  Walks(c, s) /\ KnowsAlone(c)
  <2>8. Walks(c, s)
    BY <1>1, <1>2, <1>4, <1>7 DEF Walks, AtTreeify, AtHand, AtFilled, AtHead, AtWalk, AtNext, AtFind, AtTree, Place, StandsAt
  <2>9. KnowsAlone(c)
    BY <1>1, <1>2, <1>4, <1>7 DEF KnowsAlone, AtTreeify, AtHand, AtFilled, AtHead, AtWalk, AtNext, AtFind,
         AtTree, AtChain, Place, TookOut
  <2> QED
    BY <2>8, <2>9
<1> QED
  BY <1>4, <1>5, <1>6, <1>7, QuietStep

LEMMA ReadFirstStep ==
  ASSUME MapInv, NEW t \in Threads, ReadFirst(t)
  PROVE  MapInv'
<1> DEFINE k == call[t].key
           b == Place(call[t])
           x == "link"
<1>1. /\ call[t].at = "readFirst" /\ UNCHANGED <<nodeVars, first, state, overflow, history>>
      /\ len' \in [Buckets -> Int]
  <2>1. call[t].at = "readFirst"
    BY DEF ReadFirst, At
  <2> QED
    BY <2>1, CallFacts DEF ReadFirst, Bkt, Place, nodeVars, bucketVars, history
<1>2. /\ call \in [Threads -> Calls] /\ Knows(t, call[t]) /\ b \in Buckets /\ k \in Ids
      /\ call[t].idx \in Links /\ call[t].nxt \in Links /\ call[t].aft \in Links
      /\ state[b] \in {"chain", "converting", "tree"} /\ OwnerOf[k] = t
  BY <1>1, CallFacts
<1>3. PICK c : Step(t, c, x, call[t].idx, first[b], call[t].aft)
  <2>1. call' = [call EXCEPT ![t].nxt = first[b], ![t].at = x]
    BY <1>1 DEF ReadFirst, At, Bkt, Place
  <2>2. x \in Accesses
    BY DEF Accesses, Returned, AtHand, AtFilled, AtHead, AtWalk, AtNext, AtFind, AtTree,
           AtTreeify, AtOther
  <2>3. first[b] \in Links
    BY <1>1, <1>2, MapFacts, CallFacts DEF Knows, AtHand, AtFilled, AtHead, AtWalk, AtNext, AtFind, Links
  <2> HIDE DEF x
  <2> QED
    BY <1>2, <2>1, <2>2, <2>3, Steps
<1>4. /\ c \in Calls /\ c.key = k /\ c.at = x /\ Place(c) = b
      /\ c.idx = call[t].idx /\ c.nxt = first[b] /\ c.aft = call[t].aft
  BY <1>3 DEF Step, Place
<1>5. Quiet(t, c)
  BY <1>1, <1>2, <1>3, <1>4 DEF Step, Quiet, TookOut, Settled, Treeing, AtTreeify, AtHand, AtFilled,
     nodeVars, bucketVars, history
<1>6. Knows(t, c)
  BY <1>1, <1>2, <1>4 DEF Knows, AtTreeify, AtHand, AtFilled, AtHead, AtWalk, AtNext, AtFind,
     AtTree, Place, InsertsOn, Before, Treeing, Settled, Places, ErasesInChain
<1>7. ASSUME b \in Private, NEW s \in Seq(Nodes), Lists(s, b), Walks(call[t], s), KnowsAlone(call[t])
      PROVE  Walks(c, s) /\ KnowsAlone(c)
  <2>8. Walks(c, s)
    BY <1>1, <1>2, <1>4, <1>7 DEF Walks, AtTreeify, AtHand, AtFilled, AtHead, AtWalk, AtNext, AtFind, AtTree, Place, Lists
  <2>9. KnowsAlone(c)
    BY <1>1, <1>2, <1>4, <1>7 DEF KnowsAlone, AtTreeify, AtHand, AtFilled, AtHead, AtWalk, AtNext, AtFind,
         AtTree, AtChain, Place, TookOut
  <2> QED
    BY <2>8, <2>9
<1> QED
  BY <1>4, <1>5, <1>6, <1>7, QuietStep

LEMMA PublishFailsStep ==
  ASSUME MapInv, NEW t \in Threads, PublishFails(t)
  PROVE  MapInv'
<1> DEFINE k == call[t].key
           b == Place(call[t])
           x == "retry"
<1>1. /\ call[t].at = "publish" /\ UNCHANGED <<nodeVars, first, state, overflow, history>>
      /\ len' \in [Buckets -> Int]
  <2>1. call[t].at = "publish"
    BY DEF PublishFails, At
  <2> QED
    BY <2>1, CallFacts DEF PublishFails, Bkt, Place, nodeVars, bucketVars, history
<1>2. /\ call \in [Threads -> Calls] /\ Knows(t, call[t]) /\ b \in Buckets /\ k \in Ids
      /\ call[t].idx \in Links /\ call[t].nxt \in Links /\ call[t].aft \in Links
      /\ state[b] \in {"chain", "converting", "tree"} /\ OwnerOf[k] = t
  BY <1>1, CallFacts
<1>3. PICK c : Step(t, c, x, call[t].idx, first[b], call[t].aft)
  <2>1. call' = [call EXCEPT ![t].nxt = first[b], ![t].at = x]
    BY <1>1 DEF PublishFails, At, Bkt, Place
  <2>2. x \in Accesses
    BY DEF Accesses, Returned, AtHand, AtFilled, AtHead, AtWalk, AtNext, AtFind, AtTree,
           AtTreeify, AtOther
  <2>3. first[b] \in Links
    BY <1>1, <1>2, MapFacts, CallFacts DEF Knows, AtHand, AtFilled, AtHead, AtWalk, AtNext, AtFind, Links
  <2> HIDE DEF x
  <2> QED
    BY <1>2, <2>1, <2>2, <2>3, Steps
<1>4. /\ c \in Calls /\ c.key = k /\ c.at = x /\ Place(c) = b
      /\ c.idx = call[t].idx /\ c.nxt = first[b] /\ c.aft = call[t].aft
  BY <1>3 DEF Step, Place
<1>5. Quiet(t, c)
  BY <1>1, <1>2, <1>3, <1>4 DEF Step, Quiet, TookOut, Settled, Treeing, AtTreeify, AtHand, AtFilled,
     nodeVars, bucketVars, history
<1>6. Knows(t, c)
  BY <1>1, <1>2, <1>4 DEF Knows, AtTreeify, AtHand, AtFilled, AtHead, AtWalk, AtNext, AtFind,
     AtTree, Place, InsertsOn, Before, Treeing, Settled, Places, ErasesInChain
<1>7. ASSUME b \in Private, NEW s \in Seq(Nodes), Lists(s, b), Walks(call[t], s), KnowsAlone(call[t])
      PROVE  Walks(c, s) /\ KnowsAlone(c)
  <2>8. Walks(c, s)
    BY <1>1, <1>2, <1>4, <1>7 DEF Walks, AtTreeify, AtHand, AtFilled, AtHead, AtWalk, AtNext, AtFind, AtTree, Place, Lists
  <2>9. KnowsAlone(c)
    BY <1>1, <1>2, <1>4, <1>7 DEF KnowsAlone, AtTreeify, AtHand, AtFilled, AtHead, AtWalk, AtNext, AtFind,
         AtTree, AtChain, Place, TookOut
  <2> QED
    BY <2>8, <2>9
<1> QED
  BY <1>4, <1>5, <1>6, <1>7, QuietStep

LEMMA CountInStep ==
  ASSUME MapInv, NEW t \in Threads, CountIn(t)
  PROVE  MapInv'
<1> DEFINE k == call[t].key
           b == Place(call[t])
           x == "lengthAgain"
<1>1. /\ call[t].at = "count" /\ UNCHANGED <<nodeVars, first, state, overflow, history>>
      /\ len' \in [Buckets -> Int]
  <2>1. call[t].at = "count"
    BY DEF CountIn, At
  <2> QED
    BY <2>1, CallFacts DEF CountIn, Bkt, Place, nodeVars, bucketVars, history
<1>2. /\ call \in [Threads -> Calls] /\ Knows(t, call[t]) /\ b \in Buckets /\ k \in Ids
      /\ call[t].idx \in Links /\ call[t].nxt \in Links /\ call[t].aft \in Links
      /\ state[b] \in {"chain", "converting", "tree"} /\ OwnerOf[k] = t
  BY <1>1, CallFacts
<1>3. PICK c : Step(t, c, x, call[t].idx, call[t].nxt, call[t].aft)
  <2>1. call' = [call EXCEPT ![t].at = x]
    BY <1>1 DEF CountIn, To, At, Bkt, Place
  <2>2. x \in Accesses
    BY DEF Accesses, Returned, AtHand, AtFilled, AtHead, AtWalk, AtNext, AtFind, AtTree,
           AtTreeify, AtOther
  <2> HIDE DEF x
  <2> QED
    BY <1>2, <2>1, <2>2, Steps
<1>4. /\ c \in Calls /\ c.key = k /\ c.at = x /\ Place(c) = b
      /\ c.idx = call[t].idx /\ c.nxt = call[t].nxt /\ c.aft = call[t].aft
  BY <1>3 DEF Step, Place
<1>5. Quiet(t, c)
  BY <1>1, <1>2, <1>3, <1>4 DEF Step, Quiet, TookOut, Settled, Treeing, AtTreeify, AtHand, AtFilled,
     nodeVars, bucketVars, history
<1>6. Knows(t, c)
  BY <1>1, <1>2, <1>4 DEF Knows, AtTreeify, AtHand, AtFilled, AtHead, AtWalk, AtNext, AtFind,
     AtTree, Place, InsertsOn, Before, Treeing, Settled, Places, ErasesInChain
<1>7. ASSUME b \in Private, NEW s \in Seq(Nodes), Lists(s, b), Walks(call[t], s), KnowsAlone(call[t])
      PROVE  Walks(c, s) /\ KnowsAlone(c)
  <2>8. Walks(c, s)
    BY <1>1, <1>2, <1>4, <1>7 DEF Walks, AtTreeify, AtHand, AtFilled, AtHead, AtWalk, AtNext, AtFind, AtTree, Place
  <2>9. KnowsAlone(c)
    BY <1>1, <1>2, <1>4, <1>7 DEF KnowsAlone, AtTreeify, AtHand, AtFilled, AtHead, AtWalk, AtNext, AtFind,
         AtTree, AtChain, Place, TookOut
  <2> QED
    BY <2>8, <2>9
<1> QED
  BY <1>4, <1>5, <1>6, <1>7, QuietStep

LEMMA CountOutStep ==
  ASSUME MapInv, NEW t \in Threads, CountOut(t)
  PROVE  MapInv'
<1> DEFINE k == call[t].key
           b == Place(call[t])
           x == "erased"
<1>1. /\ call[t].at = "uncount" /\ UNCHANGED <<nodeVars, first, state, overflow, history>>
      /\ len' \in [Buckets -> Int]
  <2>1. call[t].at = "uncount"
    BY DEF CountOut, At
  <2> QED
    BY <2>1, CallFacts DEF CountOut, Bkt, Place, nodeVars, bucketVars, history
<1>2. /\ call \in [Threads -> Calls] /\ Knows(t, call[t]) /\ b \in Buckets /\ k \in Ids
      /\ call[t].idx \in Links /\ call[t].nxt \in Links /\ call[t].aft \in Links
      /\ state[b] \in {"chain", "converting", "tree"} /\ OwnerOf[k] = t
  BY <1>1, CallFacts
<1>3. PICK c : Step(t, c, x, call[t].idx, call[t].nxt, call[t].aft)
  <2>1. call' = [call EXCEPT ![t].at = x]
    BY <1>1 DEF CountOut, To, At, Bkt, Place
  <2>2. x \in Accesses
    BY DEF Accesses, Returned, AtHand, AtFilled, AtHead, AtWalk, AtNext, AtFind, AtTree,
           AtTreeify, AtOther
  <2> HIDE DEF x
  <2> QED
    BY <1>2, <2>1, <2>2, Steps
<1>4. /\ c \in Calls /\ c.key = k /\ c.at = x /\ Place(c) = b
      /\ c.idx = call[t].idx /\ c.nxt = call[t].nxt /\ c.aft = call[t].aft
  BY <1>3 DEF Step, Place
<1>5. Quiet(t, c)
  BY <1>1, <1>2, <1>3, <1>4 DEF Step, Quiet, TookOut, Settled, Treeing, AtTreeify, AtHand, AtFilled,
     nodeVars, bucketVars, history
<1>6. Knows(t, c)
  BY <1>1, <1>2, <1>4 DEF Knows, AtTreeify, AtHand, AtFilled, AtHead, AtWalk, AtNext, AtFind,
     AtTree, Place, InsertsOn, Before, Treeing, Settled, Places, ErasesInChain
<1>7. ASSUME b \in Private, NEW s \in Seq(Nodes), Lists(s, b), Walks(call[t], s), KnowsAlone(call[t])
      PROVE  Walks(c, s) /\ KnowsAlone(c)
  <2>8. Walks(c, s)
    BY <1>1, <1>2, <1>4, <1>7 DEF Walks, AtTreeify, AtHand, AtFilled, AtHead, AtWalk, AtNext, AtFind, AtTree, Place
  <2>9. KnowsAlone(c)
    BY <1>1, <1>2, <1>4, <1>7 DEF KnowsAlone, AtTreeify, AtHand, AtFilled, AtHead, AtWalk, AtNext, AtFind,
         AtTree, AtChain, Place, TookOut
  <2> QED
    BY <2>8, <2>9
<1> QED
  BY <1>4, <1>5, <1>6, <1>7, QuietStep

LEMMA LockStep ==
  ASSUME MapInv, NEW t \in Threads, Lock(t)
  PROVE  MapInv'
<1> DEFINE k == call[t].key
           b == Place(call[t])
           x == "copy"
<1>1. /\ call[t].at = "lock" /\ UNCHANGED <<nodeVars, first, state, overflow, history>>
      /\ len' \in [Buckets -> Int]
  <2>1. call[t].at = "lock"
    BY DEF Lock, At
  <2> QED
    BY <2>1, CallFacts DEF Lock, Bkt, Place, nodeVars, bucketVars, history
<1>2. /\ call \in [Threads -> Calls] /\ Knows(t, call[t]) /\ b \in Buckets /\ k \in Ids
      /\ call[t].idx \in Links /\ call[t].nxt \in Links /\ call[t].aft \in Links
      /\ state[b] \in {"chain", "converting", "tree"} /\ OwnerOf[k] = t
  BY <1>1, CallFacts
<1>3. PICK c : Step(t, c, x, call[t].idx, first[b], call[t].aft)
  <2>1. call' = [call EXCEPT ![t].nxt = first[b], ![t].at = x]
    BY <1>1 DEF Lock, At, Bkt, Place
  <2>2. x \in Accesses
    BY DEF Accesses, Returned, AtHand, AtFilled, AtHead, AtWalk, AtNext, AtFind, AtTree,
           AtTreeify, AtOther
  <2>3. first[b] \in Links
    BY <1>1, <1>2, MapFacts, CallFacts DEF Knows, AtHand, AtFilled, AtHead, AtWalk, AtNext, AtFind, Links
  <2> HIDE DEF x
  <2> QED
    BY <1>2, <2>1, <2>2, <2>3, Steps
<1>4. /\ c \in Calls /\ c.key = k /\ c.at = x /\ Place(c) = b
      /\ c.idx = call[t].idx /\ c.nxt = first[b] /\ c.aft = call[t].aft
  BY <1>3 DEF Step, Place
<1>5. Quiet(t, c)
  BY <1>1, <1>2, <1>3, <1>4 DEF Step, Quiet, TookOut, Settled, Treeing, AtTreeify, AtHand, AtFilled,
     nodeVars, bucketVars, history
<1>6. Knows(t, c)
  BY <1>1, <1>2, <1>4 DEF Knows, AtTreeify, AtHand, AtFilled, AtHead, AtWalk, AtNext, AtFind,
     AtTree, Place, InsertsOn, Before, Treeing, Settled, Places, ErasesInChain
<1>7. ASSUME b \in Private, NEW s \in Seq(Nodes), Lists(s, b), Walks(call[t], s), KnowsAlone(call[t])
      PROVE  Walks(c, s) /\ KnowsAlone(c)
  <2>1. 0 \in 0..Len(s) /\ Copied(c, s, 0)
    BY <1>4, <1>7 DEF Lists, Copied
  <2>8. Walks(c, s)
    BY <1>1, <1>2, <1>4, <1>7, <2>1 DEF Walks, AtTreeify, AtHand, AtFilled, AtHead, AtWalk, AtNext, AtFind, AtTree, Place
  <2>9. KnowsAlone(c)
    BY <1>1, <1>2, <1>4, <1>7 DEF KnowsAlone, AtTreeify, AtHand, AtFilled, AtHead, AtWalk, AtNext, AtFind,
         AtTree, AtChain, Place, TookOut
  <2> QED
    BY <2>8, <2>9
<1> QED
  BY <1>4, <1>5, <1>6, <1>7, QuietStep

LEMMA FindFirstStep ==
  ASSUME MapInv, NEW t \in Threads, FindFirst(t)
  PROVE  MapInv'
<1> DEFINE k == call[t].key
           b == Place(call[t])
           x == IF first[b] = Null THEN "missing" ELSE "sameBucket"
<1>1. /\ call[t].at = "findFirst" /\ UNCHANGED <<nodeVars, first, state, overflow, history>>
      /\ len' \in [Buckets -> Int]
  <2>1. call[t].at = "findFirst"
    BY DEF FindFirst, At
  <2> QED
    BY <2>1, CallFacts DEF FindFirst, Bkt, Place, nodeVars, bucketVars, history
<1>2. /\ call \in [Threads -> Calls] /\ Knows(t, call[t]) /\ b \in Buckets /\ k \in Ids
      /\ call[t].idx \in Links /\ call[t].nxt \in Links /\ call[t].aft \in Links
      /\ state[b] \in {"chain", "converting", "tree"} /\ OwnerOf[k] = t
      /\ first[b] \in Nodes \cup {Null}
  <2>1. /\ call \in [Threads -> Calls] /\ Knows(t, call[t]) /\ b \in Buckets /\ k \in Ids
        /\ call[t].idx \in Links /\ call[t].nxt \in Links /\ call[t].aft \in Links
        /\ state[b] \in {"chain", "converting", "tree"} /\ OwnerOf[k] = t
        /\ first \in [Buckets -> Links] /\ next \in [Nodes -> Links]
    BY <1>1, CallFacts
  <2>2. first[b] \in Nodes \cup {Null}
    BY <1>1, <2>1, MapFacts DEF Knows, AtHand, AtFilled, AtHead, AtWalk, AtNext, AtFind, Links
  <2> QED
    BY <2>1, <2>2
<1>3. PICK c : Step(t, c, x, first[b], call[t].nxt, call[t].aft)
  <2>1. call' = [call EXCEPT ![t].idx = first[b], ![t].at = x]
    BY <1>1 DEF FindFirst, Visit, At, Bkt, Place
  <2>2. x \in Accesses
    BY DEF Accesses, Returned, AtHand, AtFilled, AtHead, AtWalk, AtNext, AtFind, AtTree,
           AtTreeify, AtOther
  <2>3. first[b] \in Links
    BY <1>1, <1>2, MapFacts, CallFacts DEF Knows, AtHand, AtFilled, AtHead, AtWalk, AtNext, AtFind, Links
  <2> HIDE DEF x
  <2> QED
    BY <1>2, <2>1, <2>2, <2>3, Steps
<1>4. /\ c \in Calls /\ c.key = k /\ c.at = x /\ Place(c) = b
      /\ c.idx = first[b] /\ c.nxt = call[t].nxt /\ c.aft = call[t].aft
  BY <1>3 DEF Step, Place
<1>5. Quiet(t, c)
  BY <1>1, <1>2, <1>3, <1>4 DEF Step, Quiet, TookOut, Settled, Treeing, AtTreeify, AtHand, AtFilled,
     nodeVars, bucketVars, history
<1>6. Knows(t, c)
  BY <1>1, <1>2, <1>4 DEF Knows, AtTreeify, AtHand, AtFilled, AtHead, AtWalk, AtNext, AtFind,
     AtTree, Place, InsertsOn, Before, Treeing, Settled, Places, ErasesInChain
<1>7. ASSUME b \in Private, NEW s \in Seq(Nodes), Lists(s, b), Walks(call[t], s), KnowsAlone(call[t])
      PROVE  Walks(c, s) /\ KnowsAlone(c)
  <2>1. first[b] = Follow(s, 0) /\ DOMAIN s = 1..Len(s) /\ Len(s) \in Nat
    BY <1>7, ListFacts DEF Lists
  <2>2. first[b] # Null => s # <<>> /\ 1 \in DOMAIN s /\ s[1] = first[b]
    BY <2>1 DEF Follow
  <2>3. first[b] = Null => DOMAIN s = {}
    BY <2>1, ListFacts
  <2>4. first[b] # Null => 1 \in DOMAIN s /\ StandsAt(c, s, 1)
    BY <1>4, <2>1, <2>2 DEF StandsAt, Passed, AtNext
  <2>5. c.at = "missing" => k \notin live
    <3>1. ASSUME c.at = "missing" PROVE \A q \in DOMAIN s : id[s[q]] # k
      BY <1>1, <1>4, <3>1, <2>3
    <3>2. c.at = "missing" => ~In(k)
      BY <1>1, <1>2, <1>7, <3>1, NotInList DEF KnowsAlone, AtChain, AtFind, Place
    <3> QED
      BY <1>1, <1>2, <3>2 DEF In, TookOut
  <2>8. Walks(c, s)
    BY <1>1, <1>2, <1>4, <1>7, <2>4 DEF Walks, AtTreeify, AtHand, AtFilled, AtHead, AtWalk, AtNext, AtFind, AtTree, Place
  <2>9. KnowsAlone(c)
    BY <1>1, <1>2, <1>4, <1>7, <2>5 DEF KnowsAlone, AtTreeify, AtHand, AtFilled, AtHead, AtWalk, AtNext, AtFind,
         AtTree, AtChain, Place, TookOut
  <2> QED
    BY <2>8, <2>9
<1> QED
  BY <1>4, <1>5, <1>6, <1>7, QuietStep

LEMMA CompareStep ==
  ASSUME MapInv, NEW t \in Threads, Compare(t)
  PROVE  MapInv'
<1> DEFINE k == call[t].key
           b == Place(call[t])
           x == IF id[call[t].idx] = k THEN "found" ELSE "advance"
<1>1. /\ call[t].at = "compare" /\ UNCHANGED <<nodeVars, first, state, overflow, history>>
      /\ len' \in [Buckets -> Int]
  <2>1. call[t].at = "compare"
    BY DEF Compare, At
  <2> QED
    BY <2>1, CallFacts DEF Compare, Bkt, Place, nodeVars, bucketVars, history
<1>2. /\ call \in [Threads -> Calls] /\ Knows(t, call[t]) /\ b \in Buckets /\ k \in Ids
      /\ call[t].idx \in Links /\ call[t].nxt \in Links /\ call[t].aft \in Links
      /\ state[b] \in {"chain", "converting", "tree"} /\ OwnerOf[k] = t
  BY <1>1, CallFacts
<1>3. PICK c : Step(t, c, x, call[t].idx, call[t].nxt, call[t].aft)
  <2>1. call' = [call EXCEPT ![t].at = x]
    BY <1>1 DEF Compare, ToIf, To, At, Bkt, Place
  <2>2. x \in Accesses
    BY DEF Accesses, Returned, AtHand, AtFilled, AtHead, AtWalk, AtNext, AtFind, AtTree,
           AtTreeify, AtOther
  <2> HIDE DEF x
  <2> QED
    BY <1>2, <2>1, <2>2, Steps
<1>4. /\ c \in Calls /\ c.key = k /\ c.at = x /\ Place(c) = b
      /\ c.idx = call[t].idx /\ c.nxt = call[t].nxt /\ c.aft = call[t].aft
  BY <1>3 DEF Step, Place
<1>5. Quiet(t, c)
  BY <1>1, <1>2, <1>3, <1>4 DEF Step, Quiet, TookOut, Settled, Treeing, AtTreeify, AtHand, AtFilled,
     nodeVars, bucketVars, history
<1>6. Knows(t, c)
  BY <1>1, <1>2, <1>4 DEF Knows, AtTreeify, AtHand, AtFilled, AtHead, AtWalk, AtNext, AtFind,
     AtTree, Place, InsertsOn, Before, Treeing, Settled, Places, ErasesInChain
<1>7. ASSUME b \in Private, NEW s \in Seq(Nodes), Lists(s, b), Walks(call[t], s), KnowsAlone(call[t])
      PROVE  Walks(c, s) /\ KnowsAlone(c)
  <2>1. PICK p \in DOMAIN s : StandsAt(call[t], s, p)
    BY <1>1, <1>7 DEF Walks, AtFind
  <2>2. c.at = "advance" => StandsAt(c, s, p)
    BY <1>1, <1>4, <2>1 DEF StandsAt, AtNext
  <2>3. c.at = "found" => k \in live
    <3>1. call[t].idx \in NodesOf(b) /\ state[b] # "tree"
      BY <1>1, <1>7, <2>1 DEF Lists, StandsAt, KnowsAlone, AtChain, AtFind, Place
    <3>2. Known(id[call[t].idx])
      BY <1>7, <3>1 DEF MapInv, PrivateOK
    <3>3. ~Inserting(k)
      BY <1>1, <1>2 DEF Inserting, Settled, Treeing, AtTreeify
    <3> QED
      BY <1>1, <1>4, <3>2, <3>3 DEF Known
  <2>8. Walks(c, s)
    BY <1>1, <1>2, <1>4, <1>7, <2>1, <2>2 DEF Walks, AtTreeify, AtHand, AtFilled, AtHead, AtWalk, AtNext, AtFind, AtTree, Place
  <2>9. KnowsAlone(c)
    BY <1>1, <1>2, <1>4, <1>7, <2>3 DEF KnowsAlone, AtTreeify, AtHand, AtFilled, AtHead, AtWalk, AtNext, AtFind,
         AtTree, AtChain, Place, TookOut
  <2> QED
    BY <2>8, <2>9
<1> QED
  BY <1>4, <1>5, <1>6, <1>7, QuietStep

LEMMA AdvanceStep ==
  ASSUME MapInv, NEW t \in Threads, Advance(t)
  PROVE  MapInv'
<1> DEFINE k == call[t].key
           b == Place(call[t])
           x == IF next[call[t].idx] = Null THEN "missing" ELSE "sameBucket"
<1>1. /\ call[t].at = "advance" /\ UNCHANGED <<nodeVars, first, state, overflow, history>>
      /\ len' \in [Buckets -> Int]
  <2>1. call[t].at = "advance"
    BY DEF Advance, At
  <2> QED
    BY <2>1, CallFacts DEF Advance, Bkt, Place, nodeVars, bucketVars, history
<1>2. /\ call \in [Threads -> Calls] /\ Knows(t, call[t]) /\ b \in Buckets /\ k \in Ids
      /\ call[t].idx \in Links /\ call[t].nxt \in Links /\ call[t].aft \in Links
      /\ state[b] \in {"chain", "converting", "tree"} /\ OwnerOf[k] = t
      /\ next[call[t].idx] \in Nodes \cup {Null}
  <2>1. /\ call \in [Threads -> Calls] /\ Knows(t, call[t]) /\ b \in Buckets /\ k \in Ids
        /\ call[t].idx \in Links /\ call[t].nxt \in Links /\ call[t].aft \in Links
        /\ state[b] \in {"chain", "converting", "tree"} /\ OwnerOf[k] = t
        /\ first \in [Buckets -> Links] /\ next \in [Nodes -> Links]
    BY <1>1, CallFacts
  <2>2. next[call[t].idx] \in Nodes \cup {Null}
    BY <1>1, <2>1, MapFacts DEF Knows, AtHand, AtFilled, AtHead, AtWalk, AtNext, AtFind, Links
  <2> QED
    BY <2>1, <2>2
<1>3. PICK c : Step(t, c, x, next[call[t].idx], call[t].nxt, call[t].aft)
  <2>1. call' = [call EXCEPT ![t].idx = next[call[t].idx], ![t].at = x]
    BY <1>1 DEF Advance, Visit, At, Bkt, Place
  <2>2. x \in Accesses
    BY DEF Accesses, Returned, AtHand, AtFilled, AtHead, AtWalk, AtNext, AtFind, AtTree,
           AtTreeify, AtOther
  <2>3. next[call[t].idx] \in Links
    BY <1>1, <1>2, MapFacts, CallFacts DEF Knows, AtHand, AtFilled, AtHead, AtWalk, AtNext, AtFind, Links
  <2> HIDE DEF x
  <2> QED
    BY <1>2, <2>1, <2>2, <2>3, Steps
<1>4. /\ c \in Calls /\ c.key = k /\ c.at = x /\ Place(c) = b
      /\ c.idx = next[call[t].idx] /\ c.nxt = call[t].nxt /\ c.aft = call[t].aft
  BY <1>3 DEF Step, Place
<1>5. Quiet(t, c)
  BY <1>1, <1>2, <1>3, <1>4 DEF Step, Quiet, TookOut, Settled, Treeing, AtTreeify, AtHand, AtFilled,
     nodeVars, bucketVars, history
<1>6. Knows(t, c)
  BY <1>1, <1>2, <1>4 DEF Knows, AtTreeify, AtHand, AtFilled, AtHead, AtWalk, AtNext, AtFind,
     AtTree, Place, InsertsOn, Before, Treeing, Settled, Places, ErasesInChain
<1>7. ASSUME b \in Private, NEW s \in Seq(Nodes), Lists(s, b), Walks(call[t], s), KnowsAlone(call[t])
      PROVE  Walks(c, s) /\ KnowsAlone(c)
  <2>1. PICK p \in DOMAIN s : StandsAt(call[t], s, p)
    BY <1>1, <1>7 DEF Walks, AtFind, AtWalk, AtNext
  <2>2. /\ p \in Nat /\ p <= Len(s) /\ next[call[t].idx] = Follow(s, p) /\ Len(s) \in Nat
        /\ Follow(s, p) = Null <=> p = Len(s)
        /\ p # Len(s) => p + 1 \in DOMAIN s /\ Follow(s, p) = s[p + 1]
    BY <1>7, <2>1, ListFacts DEF Lists, StandsAt
  <2>3. \A q \in 1..p : id[s[q]] # k
    BY <1>1, <2>1, <2>2 DEF StandsAt, Passed
  <2>4. p # Len(s) => p + 1 \in DOMAIN s /\ StandsAt(c, s, p + 1)
    BY <1>1, <1>4, <2>2, <2>3 DEF StandsAt, Passed, AtNext
  <2>5. c.at = "missing" => k \notin live
    <3>1. ASSUME c.at = "missing" PROVE \A q \in DOMAIN s : id[s[q]] # k
      BY <1>1, <1>4, <3>1, <2>2, <2>3, ListFacts
    <3>2. c.at = "missing" => ~In(k)
      BY <1>1, <1>2, <1>7, <3>1, NotInList DEF KnowsAlone, AtChain, AtFind, Place
    <3> QED
      BY <1>1, <1>2, <3>2 DEF In, TookOut
  <2>8. Walks(c, s)
    BY <1>1, <1>2, <1>4, <1>7, <2>2, <2>4 DEF Walks, AtTreeify, AtHand, AtFilled, AtHead, AtWalk, AtNext, AtFind, AtTree, Place
  <2>9. KnowsAlone(c)
    BY <1>1, <1>2, <1>4, <1>7, <2>5 DEF KnowsAlone, AtTreeify, AtHand, AtFilled, AtHead, AtWalk, AtNext, AtFind,
         AtTree, AtChain, Place, TookOut
  <2> QED
    BY <2>8, <2>9
<1> QED
  BY <1>4, <1>5, <1>6, <1>7, QuietStep

LEMMA TreeFindStep ==
  ASSUME MapInv, NEW t \in Threads, TreeFind(t)
  PROVE  MapInv'
<1> DEFINE k == call[t].key
           b == Place(call[t])
           x == IF k \in overflow THEN "found" ELSE "missing"
<1>1. /\ call[t].at = "treeFind" /\ UNCHANGED <<nodeVars, first, state, overflow, history>>
      /\ len' \in [Buckets -> Int]
  <2>1. call[t].at = "treeFind"
    BY DEF TreeFind, At
  <2> QED
    BY <2>1, CallFacts DEF TreeFind, Bkt, Place, nodeVars, bucketVars, history
<1>2. /\ call \in [Threads -> Calls] /\ Knows(t, call[t]) /\ b \in Buckets /\ k \in Ids
      /\ call[t].idx \in Links /\ call[t].nxt \in Links /\ call[t].aft \in Links
      /\ state[b] \in {"chain", "converting", "tree"} /\ OwnerOf[k] = t
  BY <1>1, CallFacts
<1>3. PICK c : Step(t, c, x, call[t].idx, call[t].nxt, call[t].aft)
  <2>1. call' = [call EXCEPT ![t].at = x]
    BY <1>1 DEF TreeFind, ToIf, To, At, Bkt, Place
  <2>2. x \in Accesses
    BY DEF Accesses, Returned, AtHand, AtFilled, AtHead, AtWalk, AtNext, AtFind, AtTree,
           AtTreeify, AtOther
  <2> HIDE DEF x
  <2> QED
    BY <1>2, <2>1, <2>2, Steps
<1>4. /\ c \in Calls /\ c.key = k /\ c.at = x /\ Place(c) = b
      /\ c.idx = call[t].idx /\ c.nxt = call[t].nxt /\ c.aft = call[t].aft
  BY <1>3 DEF Step, Place
<1>5. Quiet(t, c)
  BY <1>1, <1>2, <1>3, <1>4 DEF Step, Quiet, TookOut, Settled, Treeing, AtTreeify, AtHand, AtFilled,
     nodeVars, bucketVars, history
<1>6. Knows(t, c)
  BY <1>1, <1>2, <1>4 DEF Knows, AtTreeify, AtHand, AtFilled, AtHead, AtWalk, AtNext, AtFind,
     AtTree, Place, InsertsOn, Before, Treeing, Settled, Places, ErasesInChain
<1>7. ASSUME b \in Private, NEW s \in Seq(Nodes), Lists(s, b), Walks(call[t], s), KnowsAlone(call[t])
      PROVE  Walks(c, s) /\ KnowsAlone(c)
  <2>1. state[b] = "tree" /\ (c.at = "missing" => k \notin live)
    <3>1. state[b] = "tree"
      BY <1>1, <1>2, <1>7 DEF KnowsAlone, Knows, AtTree, AtTreeify, Place
    <3>2. In(k) => k \in overflow
      BY <1>2, <1>7, <3>1 DEF MapInv, PrivateOK, Present, Place
    <3> QED
      BY <1>1, <1>2, <1>4, <3>1, <3>2 DEF In, TookOut
  <2>8. Walks(c, s)
    BY <1>1, <1>2, <1>4, <1>7 DEF Walks, AtTreeify, AtHand, AtFilled, AtHead, AtWalk, AtNext, AtFind, AtTree, Place
  <2>9. KnowsAlone(c)
    BY <1>1, <1>2, <1>4, <1>7, <2>1 DEF KnowsAlone, AtTreeify, AtHand, AtFilled, AtHead, AtWalk, AtNext, AtFind,
         AtTree, AtChain, Place, TookOut
  <2> QED
    BY <2>8, <2>9
<1> QED
  BY <1>4, <1>5, <1>6, <1>7, QuietStep

LEMMA EraseFirstStep ==
  ASSUME MapInv, NEW t \in Threads, EraseFirst(t)
  PROVE  MapInv'
<1> DEFINE k == call[t].key
           b == Place(call[t])
           x == IF first[b] = Null THEN "erased" ELSE "isFirst"
<1>1. /\ call[t].at = "eraseFirst" /\ UNCHANGED <<nodeVars, first, state, overflow, history>>
      /\ len' \in [Buckets -> Int]
  <2>1. call[t].at = "eraseFirst"
    BY DEF EraseFirst, At
  <2> QED
    BY <2>1, CallFacts DEF EraseFirst, Bkt, Place, nodeVars, bucketVars, history
<1>2. /\ call \in [Threads -> Calls] /\ Knows(t, call[t]) /\ b \in Buckets /\ k \in Ids
      /\ call[t].idx \in Links /\ call[t].nxt \in Links /\ call[t].aft \in Links
      /\ state[b] \in {"chain", "converting", "tree"} /\ OwnerOf[k] = t
      /\ first[b] \in Nodes \cup {Null}
  <2>1. /\ call \in [Threads -> Calls] /\ Knows(t, call[t]) /\ b \in Buckets /\ k \in Ids
        /\ call[t].idx \in Links /\ call[t].nxt \in Links /\ call[t].aft \in Links
        /\ state[b] \in {"chain", "converting", "tree"} /\ OwnerOf[k] = t
        /\ first \in [Buckets -> Links] /\ next \in [Nodes -> Links]
    BY <1>1, CallFacts
  <2>2. first[b] \in Nodes \cup {Null}
    BY <1>1, <2>1, MapFacts DEF Knows, AtHand, AtFilled, AtHead, AtWalk, AtNext, AtFind, Links
  <2> QED
    BY <2>1, <2>2
<1>3. PICK c : Step(t, c, x, first[b], call[t].nxt, call[t].aft)
  <2>1. call' = [call EXCEPT ![t].idx = first[b], ![t].at = x]
    BY <1>1 DEF EraseFirst, Visit, At, Bkt, Place
  <2>2. x \in Accesses
    BY DEF Accesses, Returned, AtHand, AtFilled, AtHead, AtWalk, AtNext, AtFind, AtTree,
           AtTreeify, AtOther
  <2>3. first[b] \in Links
    BY <1>1, <1>2, MapFacts, CallFacts DEF Knows, AtHand, AtFilled, AtHead, AtWalk, AtNext, AtFind, Links
  <2> HIDE DEF x
  <2> QED
    BY <1>2, <2>1, <2>2, <2>3, Steps
<1>4. /\ c \in Calls /\ c.key = k /\ c.at = x /\ Place(c) = b
      /\ c.idx = first[b] /\ c.nxt = call[t].nxt /\ c.aft = call[t].aft
  BY <1>3 DEF Step, Place
<1>5. Quiet(t, c)
  BY <1>1, <1>2, <1>3, <1>4 DEF Step, Quiet, TookOut, Settled, Treeing, AtTreeify, AtHand, AtFilled,
     nodeVars, bucketVars, history
<1>6. Knows(t, c)
  BY <1>1, <1>2, <1>4 DEF Knows, AtTreeify, AtHand, AtFilled, AtHead, AtWalk, AtNext, AtFind,
     AtTree, Place, InsertsOn, Before, Treeing, Settled, Places, ErasesInChain
<1>7. ASSUME b \in Private, NEW s \in Seq(Nodes), Lists(s, b), Walks(call[t], s), KnowsAlone(call[t])
      PROVE  Walks(c, s) /\ KnowsAlone(c)
  <2>1. first[b] = Follow(s, 0) /\ DOMAIN s = 1..Len(s) /\ Len(s) \in Nat
    BY <1>7, ListFacts DEF Lists
  <2>2. first[b] # Null => s # <<>> /\ 1 \in DOMAIN s /\ s[1] = first[b]
    BY <2>1 DEF Follow
  <2>3. first[b] = Null => DOMAIN s = {}
    BY <2>1, ListFacts
  <2>4. c.at = "erased" => \A i \in NodesOf(b) : id[i] # k
    BY <1>4, <1>7, <2>3 DEF Lists
  <2>8. Walks(c, s)
    BY <1>1, <1>2, <1>4, <1>7, <2>2 DEF Walks, AtTreeify, AtHand, AtFilled, AtHead, AtWalk, AtNext, AtFind, AtTree, Place
  <2>9. KnowsAlone(c)
    BY <1>1, <1>2, <1>4, <1>7, <2>4 DEF KnowsAlone, AtTreeify, AtHand, AtFilled, AtHead, AtWalk, AtNext, AtFind,
         AtTree, AtChain, Place, TookOut
  <2> QED
    BY <2>8, <2>9
<1> QED
  BY <1>4, <1>5, <1>6, <1>7, QuietStep

LEMMA IsFirstStep ==
  ASSUME MapInv, NEW t \in Threads, IsFirst(t)
  PROVE  MapInv'
<1> DEFINE k == call[t].key
           b == Place(call[t])
           x == IF id[call[t].idx] = k THEN "readSecond" ELSE "walk"
<1>1. /\ call[t].at = "isFirst" /\ UNCHANGED <<nodeVars, first, state, overflow, history>>
      /\ len' \in [Buckets -> Int]
  <2>1. call[t].at = "isFirst"
    BY DEF IsFirst, At
  <2> QED
    BY <2>1, CallFacts DEF IsFirst, Bkt, Place, nodeVars, bucketVars, history
<1>2. /\ call \in [Threads -> Calls] /\ Knows(t, call[t]) /\ b \in Buckets /\ k \in Ids
      /\ call[t].idx \in Links /\ call[t].nxt \in Links /\ call[t].aft \in Links
      /\ state[b] \in {"chain", "converting", "tree"} /\ OwnerOf[k] = t
  BY <1>1, CallFacts
<1>3. PICK c : Step(t, c, x, call[t].idx, call[t].nxt, call[t].aft)
  <2>1. call' = [call EXCEPT ![t].at = x]
    BY <1>1 DEF IsFirst, ToIf, To, At, Bkt, Place
  <2>2. x \in Accesses
    BY DEF Accesses, Returned, AtHand, AtFilled, AtHead, AtWalk, AtNext, AtFind, AtTree,
           AtTreeify, AtOther
  <2> HIDE DEF x
  <2> QED
    BY <1>2, <2>1, <2>2, Steps
<1>4. /\ c \in Calls /\ c.key = k /\ c.at = x /\ Place(c) = b
      /\ c.idx = call[t].idx /\ c.nxt = call[t].nxt /\ c.aft = call[t].aft
  BY <1>3 DEF Step, Place
<1>5. Quiet(t, c)
  BY <1>1, <1>2, <1>3, <1>4 DEF Step, Quiet, TookOut, Settled, Treeing, AtTreeify, AtHand, AtFilled,
     nodeVars, bucketVars, history
<1>6. Knows(t, c)
  BY <1>1, <1>2, <1>4 DEF Knows, AtTreeify, AtHand, AtFilled, AtHead, AtWalk, AtNext, AtFind,
     AtTree, Place, InsertsOn, Before, Treeing, Settled, Places, ErasesInChain
<1>7. ASSUME b \in Private, NEW s \in Seq(Nodes), Lists(s, b), Walks(call[t], s), KnowsAlone(call[t])
      PROVE  Walks(c, s) /\ KnowsAlone(c)
  <2>1. 1 \in DOMAIN s /\ call[t].idx = s[1]
    BY <1>1, <1>7, ListFacts DEF Walks, AtHead
  <2>2. c.at = "walk" => StandsAt(c, s, 1)
    BY <1>1, <1>4, <2>1 DEF StandsAt, Passed, AtNext
  <2>8. Walks(c, s)
    BY <1>1, <1>2, <1>4, <1>7, <2>1, <2>2 DEF Walks, AtTreeify, AtHand, AtFilled, AtHead, AtWalk, AtNext, AtFind, AtTree, Place
  <2>9. KnowsAlone(c)
    BY <1>1, <1>2, <1>4, <1>7 DEF KnowsAlone, AtTreeify, AtHand, AtFilled, AtHead, AtWalk, AtNext, AtFind,
         AtTree, AtChain, Place, TookOut
  <2> QED
    BY <2>8, <2>9
<1> QED
  BY <1>4, <1>5, <1>6, <1>7, QuietStep

LEMMA ReadSecondStep ==
  ASSUME MapInv, NEW t \in Threads, ReadSecond(t)
  PROVE  MapInv'
<1> DEFINE k == call[t].key
           b == Place(call[t])
           x == "unlinkFirst"
<1>1. /\ call[t].at = "readSecond" /\ UNCHANGED <<nodeVars, first, state, overflow, history>>
      /\ len' \in [Buckets -> Int]
  <2>1. call[t].at = "readSecond"
    BY DEF ReadSecond, At
  <2> QED
    BY <2>1, CallFacts DEF ReadSecond, Bkt, Place, nodeVars, bucketVars, history
<1>2. /\ call \in [Threads -> Calls] /\ Knows(t, call[t]) /\ b \in Buckets /\ k \in Ids
      /\ call[t].idx \in Links /\ call[t].nxt \in Links /\ call[t].aft \in Links
      /\ state[b] \in {"chain", "converting", "tree"} /\ OwnerOf[k] = t
      /\ call[t].idx \in Nodes /\ next[call[t].idx] \in Links
  <2>1. /\ call \in [Threads -> Calls] /\ Knows(t, call[t]) /\ b \in Buckets /\ k \in Ids
        /\ call[t].idx \in Links /\ call[t].nxt \in Links /\ call[t].aft \in Links
        /\ state[b] \in {"chain", "converting", "tree"} /\ OwnerOf[k] = t
        /\ first \in [Buckets -> Links] /\ next \in [Nodes -> Links]
    BY <1>1, CallFacts
  <2>2. call[t].idx \in Nodes /\ next[call[t].idx] \in Links
    BY <1>1, <2>1, MapFacts DEF Knows, AtHand, AtFilled, AtHead, AtWalk, AtNext, AtFind, Links
  <2> QED
    BY <2>1, <2>2
<1>3. PICK c : Step(t, c, x, call[t].idx, next[call[t].idx], call[t].aft)
  <2>1. call' = [call EXCEPT ![t].nxt = next[call[t].idx], ![t].at = x]
    BY <1>1 DEF ReadSecond, At, Bkt, Place
  <2>2. x \in Accesses
    BY DEF Accesses, Returned, AtHand, AtFilled, AtHead, AtWalk, AtNext, AtFind, AtTree,
           AtTreeify, AtOther
  <2>3. next[call[t].idx] \in Links
    BY <1>1, <1>2, MapFacts, CallFacts DEF Knows, AtHand, AtFilled, AtHead, AtWalk, AtNext, AtFind, Links
  <2> HIDE DEF x
  <2> QED
    BY <1>2, <2>1, <2>2, <2>3, Steps
<1>4. /\ c \in Calls /\ c.key = k /\ c.at = x /\ Place(c) = b
      /\ c.idx = call[t].idx /\ c.nxt = next[call[t].idx] /\ c.aft = call[t].aft
  BY <1>3 DEF Step, Place
<1>5. Quiet(t, c)
  BY <1>1, <1>2, <1>3, <1>4 DEF Step, Quiet, TookOut, Settled, Treeing, AtTreeify, AtHand, AtFilled,
     nodeVars, bucketVars, history
<1>6. Knows(t, c)
  BY <1>1, <1>2, <1>4 DEF Knows, AtTreeify, AtHand, AtFilled, AtHead, AtWalk, AtNext, AtFind,
     AtTree, Place, InsertsOn, Before, Treeing, Settled, Places, ErasesInChain
<1>7. ASSUME b \in Private, NEW s \in Seq(Nodes), Lists(s, b), Walks(call[t], s), KnowsAlone(call[t])
      PROVE  Walks(c, s) /\ KnowsAlone(c)
  <2>1. call[t].idx = s[1] /\ s # <<>> /\ next[call[t].idx] = Follow(s, 1)
    BY <1>1, <1>7, ListFacts DEF Walks, AtHead, Lists
  <2>8. Walks(c, s)
    BY <1>1, <1>2, <1>4, <1>7, <2>1 DEF Walks, AtTreeify, AtHand, AtFilled, AtHead, AtWalk, AtNext, AtFind, AtTree, Place
  <2>9. KnowsAlone(c)
    BY <1>1, <1>2, <1>4, <1>7 DEF KnowsAlone, AtTreeify, AtHand, AtFilled, AtHead, AtWalk, AtNext, AtFind,
         AtTree, AtChain, Place, TookOut
  <2> QED
    BY <2>8, <2>9
<1> QED
  BY <1>4, <1>5, <1>6, <1>7, QuietStep

LEMMA UnlinkFirstFailsStep ==
  ASSUME MapInv, NEW t \in Threads, UnlinkFirstFails(t)
  PROVE  MapInv'
<1> DEFINE k == call[t].key
           b == Place(call[t])
           x == IF first[b] = Null THEN "astray" ELSE "stillFirst"
<1>1. /\ call[t].at = "unlinkFirst" /\ UNCHANGED <<nodeVars, first, state, overflow, history>>
      /\ len' \in [Buckets -> Int]
  <2>1. call[t].at = "unlinkFirst"
    BY DEF UnlinkFirstFails, At
  <2> QED
    BY <2>1, CallFacts DEF UnlinkFirstFails, Bkt, Place, nodeVars, bucketVars, history
<1>2. /\ call \in [Threads -> Calls] /\ Knows(t, call[t]) /\ b \in Buckets /\ k \in Ids
      /\ call[t].idx \in Links /\ call[t].nxt \in Links /\ call[t].aft \in Links
      /\ state[b] \in {"chain", "converting", "tree"} /\ OwnerOf[k] = t
      /\ first[b] \in Nodes \cup {Null}
  <2>1. /\ call \in [Threads -> Calls] /\ Knows(t, call[t]) /\ b \in Buckets /\ k \in Ids
        /\ call[t].idx \in Links /\ call[t].nxt \in Links /\ call[t].aft \in Links
        /\ state[b] \in {"chain", "converting", "tree"} /\ OwnerOf[k] = t
        /\ first \in [Buckets -> Links] /\ next \in [Nodes -> Links]
    BY <1>1, CallFacts
  <2>2. first[b] \in Nodes \cup {Null}
    BY <1>1, <2>1, MapFacts DEF Knows, AtHand, AtFilled, AtHead, AtWalk, AtNext, AtFind, Links
  <2> QED
    BY <2>1, <2>2
<1>3. PICK c : Step(t, c, x, first[b], call[t].nxt, call[t].aft)
  <2>1. call' = [call EXCEPT ![t].idx = first[b], ![t].at = x]
    BY <1>1 DEF UnlinkFirstFails, Visit, At, Bkt, Place
  <2>2. x \in Accesses
    BY DEF Accesses, Returned, AtHand, AtFilled, AtHead, AtWalk, AtNext, AtFind, AtTree,
           AtTreeify, AtOther
  <2>3. first[b] \in Links
    BY <1>1, <1>2, MapFacts, CallFacts DEF Knows, AtHand, AtFilled, AtHead, AtWalk, AtNext, AtFind, Links
  <2> HIDE DEF x
  <2> QED
    BY <1>2, <2>1, <2>2, <2>3, Steps
<1>4. /\ c \in Calls /\ c.key = k /\ c.at = x /\ Place(c) = b
      /\ c.idx = first[b] /\ c.nxt = call[t].nxt /\ c.aft = call[t].aft
  BY <1>3 DEF Step, Place
<1>5. Quiet(t, c)
  BY <1>1, <1>2, <1>3, <1>4 DEF Step, Quiet, TookOut, Settled, Treeing, AtTreeify, AtHand, AtFilled,
     nodeVars, bucketVars, history
<1>6. Knows(t, c)
  BY <1>1, <1>2, <1>4 DEF Knows, AtTreeify, AtHand, AtFilled, AtHead, AtWalk, AtNext, AtFind,
     AtTree, Place, InsertsOn, Before, Treeing, Settled, Places, ErasesInChain
<1>7. ASSUME b \in Private, NEW s \in Seq(Nodes), Lists(s, b), Walks(call[t], s), KnowsAlone(call[t])
      PROVE  Walks(c, s) /\ KnowsAlone(c)
  <2>1. first[b] = Follow(s, 0) /\ DOMAIN s = 1..Len(s) /\ Len(s) \in Nat
    BY <1>7, ListFacts DEF Lists
  <2>2. first[b] # Null => s # <<>> /\ 1 \in DOMAIN s /\ s[1] = first[b]
    BY <2>1 DEF Follow
  <2>3. first[b] = Null => DOMAIN s = {}
    BY <2>1, ListFacts
  <2>4. first[b] # Null
    <3>1. s # <<>>
      BY <1>1, <1>7 DEF Walks, AtHead
    <3> QED
      BY <1>7, <2>1, <2>3, <3>1, ListFacts
  <2>8. Walks(c, s)
    BY <1>1, <1>2, <1>4, <1>7, <2>2, <2>4 DEF Walks, AtTreeify, AtHand, AtFilled, AtHead, AtWalk, AtNext, AtFind, AtTree, Place
  <2>9. KnowsAlone(c)
    BY <1>1, <1>2, <1>4, <1>7, <2>4 DEF KnowsAlone, AtTreeify, AtHand, AtFilled, AtHead, AtWalk, AtNext, AtFind,
         AtTree, AtChain, Place, TookOut
  <2> QED
    BY <2>8, <2>9
<1> QED
  BY <1>4, <1>5, <1>6, <1>7, QuietStep

LEMMA StillFirstStep ==
  ASSUME MapInv, NEW t \in Threads, StillFirst(t)
  PROVE  MapInv'
<1> DEFINE k == call[t].key
           b == Place(call[t])
           x == IF id[call[t].idx] # k THEN "eraseFirst" ELSE "readSecond"
<1>1. /\ call[t].at = "stillFirst" /\ UNCHANGED <<nodeVars, first, state, overflow, history>>
      /\ len' \in [Buckets -> Int]
  <2>1. call[t].at = "stillFirst"
    BY DEF StillFirst, At
  <2> QED
    BY <2>1, CallFacts DEF StillFirst, Bkt, Place, nodeVars, bucketVars, history
<1>2. /\ call \in [Threads -> Calls] /\ Knows(t, call[t]) /\ b \in Buckets /\ k \in Ids
      /\ call[t].idx \in Links /\ call[t].nxt \in Links /\ call[t].aft \in Links
      /\ state[b] \in {"chain", "converting", "tree"} /\ OwnerOf[k] = t
  BY <1>1, CallFacts
<1>3. PICK c : Step(t, c, x, call[t].idx, call[t].nxt, call[t].aft)
  <2>1. call' = [call EXCEPT ![t].at = x]
    BY <1>1 DEF StillFirst, ToIf, To, At, Bkt, Place
  <2>2. x \in Accesses
    BY DEF Accesses, Returned, AtHand, AtFilled, AtHead, AtWalk, AtNext, AtFind, AtTree,
           AtTreeify, AtOther
  <2> HIDE DEF x
  <2> QED
    BY <1>2, <2>1, <2>2, Steps
<1>4. /\ c \in Calls /\ c.key = k /\ c.at = x /\ Place(c) = b
      /\ c.idx = call[t].idx /\ c.nxt = call[t].nxt /\ c.aft = call[t].aft
  BY <1>3 DEF Step, Place
<1>5. Quiet(t, c)
  BY <1>1, <1>2, <1>3, <1>4 DEF Step, Quiet, TookOut, Settled, Treeing, AtTreeify, AtHand, AtFilled,
     nodeVars, bucketVars, history
<1>6. Knows(t, c)
  BY <1>1, <1>2, <1>4 DEF Knows, AtTreeify, AtHand, AtFilled, AtHead, AtWalk, AtNext, AtFind,
     AtTree, Place, InsertsOn, Before, Treeing, Settled, Places, ErasesInChain
<1>7. ASSUME b \in Private, NEW s \in Seq(Nodes), Lists(s, b), Walks(call[t], s), KnowsAlone(call[t])
      PROVE  Walks(c, s) /\ KnowsAlone(c)
  <2>8. Walks(c, s)
    BY <1>1, <1>2, <1>4, <1>7 DEF Walks, AtTreeify, AtHand, AtFilled, AtHead, AtWalk, AtNext, AtFind, AtTree, Place
  <2>9. KnowsAlone(c)
    BY <1>1, <1>2, <1>4, <1>7 DEF KnowsAlone, AtTreeify, AtHand, AtFilled, AtHead, AtWalk, AtNext, AtFind,
         AtTree, AtChain, Place, TookOut
  <2> QED
    BY <2>8, <2>9
<1> QED
  BY <1>4, <1>5, <1>6, <1>7, QuietStep

LEMMA WalkStep ==
  ASSUME MapInv, NEW t \in Threads, Walk(t)
  PROVE  MapInv'
<1> DEFINE k == call[t].key
           b == Place(call[t])
           x == IF bucket[call[t].idx] # b THEN "eraseFirst" ELSE "readNext"
<1>1. /\ call[t].at = "walk" /\ UNCHANGED <<nodeVars, first, state, overflow, history>>
      /\ len' \in [Buckets -> Int]
  <2>1. call[t].at = "walk"
    BY DEF Walk, At
  <2> QED
    BY <2>1, CallFacts DEF Walk, Bkt, Place, nodeVars, bucketVars, history
<1>2. /\ call \in [Threads -> Calls] /\ Knows(t, call[t]) /\ b \in Buckets /\ k \in Ids
      /\ call[t].idx \in Links /\ call[t].nxt \in Links /\ call[t].aft \in Links
      /\ state[b] \in {"chain", "converting", "tree"} /\ OwnerOf[k] = t
  BY <1>1, CallFacts
<1>3. PICK c : Step(t, c, x, call[t].idx, call[t].nxt, call[t].aft)
  <2>1. call' = [call EXCEPT ![t].at = x]
    BY <1>1 DEF Walk, ToIf, To, At, Bkt, Place
  <2>2. x \in Accesses
    BY DEF Accesses, Returned, AtHand, AtFilled, AtHead, AtWalk, AtNext, AtFind, AtTree,
           AtTreeify, AtOther
  <2> HIDE DEF x
  <2> QED
    BY <1>2, <2>1, <2>2, Steps
<1>4. /\ c \in Calls /\ c.key = k /\ c.at = x /\ Place(c) = b
      /\ c.idx = call[t].idx /\ c.nxt = call[t].nxt /\ c.aft = call[t].aft
  BY <1>3 DEF Step, Place
<1>5. Quiet(t, c)
  BY <1>1, <1>2, <1>3, <1>4 DEF Step, Quiet, TookOut, Settled, Treeing, AtTreeify, AtHand, AtFilled,
     nodeVars, bucketVars, history
<1>6. Knows(t, c)
  BY <1>1, <1>2, <1>4 DEF Knows, AtTreeify, AtHand, AtFilled, AtHead, AtWalk, AtNext, AtFind,
     AtTree, Place, InsertsOn, Before, Treeing, Settled, Places, ErasesInChain
<1>7. ASSUME b \in Private, NEW s \in Seq(Nodes), Lists(s, b), Walks(call[t], s), KnowsAlone(call[t])
      PROVE  Walks(c, s) /\ KnowsAlone(c)
  <2>8. Walks(c, s)
    BY <1>1, <1>2, <1>4, <1>7 DEF Walks, AtTreeify, AtHand, AtFilled, AtHead, AtWalk, AtNext, AtFind, AtTree, Place, StandsAt
  <2>9. KnowsAlone(c)
    BY <1>1, <1>2, <1>4, <1>7 DEF KnowsAlone, AtTreeify, AtHand, AtFilled, AtHead, AtWalk, AtNext, AtFind,
         AtTree, AtChain, Place, TookOut
  <2> QED
    BY <2>8, <2>9
<1> QED
  BY <1>4, <1>5, <1>6, <1>7, QuietStep

LEMMA ReadNextStep ==
  ASSUME MapInv, NEW t \in Threads, ReadNext(t)
  PROVE  MapInv'
<1> DEFINE k == call[t].key
           b == Place(call[t])
           x == IF next[call[t].idx] = Null THEN "erased" ELSE "isNext"
<1>1. /\ call[t].at = "readNext" /\ UNCHANGED <<nodeVars, first, state, overflow, history>>
      /\ len' \in [Buckets -> Int]
  <2>1. call[t].at = "readNext"
    BY DEF ReadNext, At
  <2> QED
    BY <2>1, CallFacts DEF ReadNext, Bkt, Place, nodeVars, bucketVars, history
<1>2. /\ call \in [Threads -> Calls] /\ Knows(t, call[t]) /\ b \in Buckets /\ k \in Ids
      /\ call[t].idx \in Links /\ call[t].nxt \in Links /\ call[t].aft \in Links
      /\ state[b] \in {"chain", "converting", "tree"} /\ OwnerOf[k] = t
      /\ call[t].idx \in Nodes /\ next[call[t].idx] \in Nodes \cup {Null}
  <2>1. /\ call \in [Threads -> Calls] /\ Knows(t, call[t]) /\ b \in Buckets /\ k \in Ids
        /\ call[t].idx \in Links /\ call[t].nxt \in Links /\ call[t].aft \in Links
        /\ state[b] \in {"chain", "converting", "tree"} /\ OwnerOf[k] = t
        /\ first \in [Buckets -> Links] /\ next \in [Nodes -> Links]
    BY <1>1, CallFacts
  <2>2. call[t].idx \in Nodes /\ next[call[t].idx] \in Nodes \cup {Null}
    BY <1>1, <2>1, MapFacts DEF Knows, AtHand, AtFilled, AtHead, AtWalk, AtNext, AtFind, Links
  <2> QED
    BY <2>1, <2>2
<1>3. PICK c : Step(t, c, x, call[t].idx, next[call[t].idx], call[t].aft)
  <2>1. call' = [call EXCEPT ![t].nxt = next[call[t].idx], ![t].at = x]
    BY <1>1 DEF ReadNext, At, Bkt, Place
  <2>2. x \in Accesses
    BY DEF Accesses, Returned, AtHand, AtFilled, AtHead, AtWalk, AtNext, AtFind, AtTree,
           AtTreeify, AtOther
  <2>3. next[call[t].idx] \in Links
    BY <1>1, <1>2, MapFacts, CallFacts DEF Knows, AtHand, AtFilled, AtHead, AtWalk, AtNext, AtFind, Links
  <2> HIDE DEF x
  <2> QED
    BY <1>2, <2>1, <2>2, <2>3, Steps
<1>4. /\ c \in Calls /\ c.key = k /\ c.at = x /\ Place(c) = b
      /\ c.idx = call[t].idx /\ c.nxt = next[call[t].idx] /\ c.aft = call[t].aft
  BY <1>3 DEF Step, Place
<1>5. Quiet(t, c)
  BY <1>1, <1>2, <1>3, <1>4 DEF Step, Quiet, TookOut, Settled, Treeing, AtTreeify, AtHand, AtFilled,
     nodeVars, bucketVars, history
<1>6. Knows(t, c)
  BY <1>1, <1>2, <1>4 DEF Knows, AtTreeify, AtHand, AtFilled, AtHead, AtWalk, AtNext, AtFind,
     AtTree, Place, InsertsOn, Before, Treeing, Settled, Places, ErasesInChain
<1>7. ASSUME b \in Private, NEW s \in Seq(Nodes), Lists(s, b), Walks(call[t], s), KnowsAlone(call[t])
      PROVE  Walks(c, s) /\ KnowsAlone(c)
  <2>1. PICK p \in DOMAIN s : StandsAt(call[t], s, p)
    BY <1>1, <1>7 DEF Walks, AtFind, AtWalk, AtNext
  <2>2. /\ p \in Nat /\ p <= Len(s) /\ next[call[t].idx] = Follow(s, p) /\ Len(s) \in Nat
        /\ Follow(s, p) = Null <=> p = Len(s)
        /\ p # Len(s) => p + 1 \in DOMAIN s /\ Follow(s, p) = s[p + 1]
    BY <1>7, <2>1, ListFacts DEF Lists, StandsAt
  <2>3. \A q \in 1..p : id[s[q]] # k
    BY <1>1, <2>1, <2>2 DEF StandsAt, Passed
  <2>4. c.at = "isNext" => StandsAt(c, s, p)
    BY <1>1, <1>4, <2>1, <2>2, <2>3 DEF StandsAt, Passed
  <2>5. c.at = "erased" => \A i \in NodesOf(b) : id[i] # k
    <3>1. c.at = "erased" => \A q \in DOMAIN s : id[s[q]] # k
      BY <1>4, <1>7, <2>2, <2>3, ListFacts
    <3> QED
      BY <1>7, <3>1 DEF Lists
  <2>8. Walks(c, s)
    BY <1>1, <1>2, <1>4, <1>7, <2>1, <2>4 DEF Walks, AtTreeify, AtHand, AtFilled, AtHead, AtWalk, AtNext, AtFind, AtTree, Place
  <2>9. KnowsAlone(c)
    BY <1>1, <1>2, <1>4, <1>7, <2>5 DEF KnowsAlone, AtTreeify, AtHand, AtFilled, AtHead, AtWalk, AtNext, AtFind,
         AtTree, AtChain, Place, TookOut
  <2> QED
    BY <2>8, <2>9
<1> QED
  BY <1>4, <1>5, <1>6, <1>7, QuietStep

LEMMA ReadAfterStep ==
  ASSUME MapInv, NEW t \in Threads, ReadAfter(t)
  PROVE  MapInv'
<1> DEFINE k == call[t].key
           b == Place(call[t])
           x == "unlinkNext"
<1>1. /\ call[t].at = "readAfter" /\ UNCHANGED <<nodeVars, first, state, overflow, history>>
      /\ len' \in [Buckets -> Int]
  <2>1. call[t].at = "readAfter"
    BY DEF ReadAfter, At
  <2> QED
    BY <2>1, CallFacts DEF ReadAfter, Bkt, Place, nodeVars, bucketVars, history
<1>2. /\ call \in [Threads -> Calls] /\ Knows(t, call[t]) /\ b \in Buckets /\ k \in Ids
      /\ call[t].idx \in Links /\ call[t].nxt \in Links /\ call[t].aft \in Links
      /\ state[b] \in {"chain", "converting", "tree"} /\ OwnerOf[k] = t
      /\ call[t].nxt \in Nodes /\ next[call[t].nxt] \in Links
  <2>1. /\ call \in [Threads -> Calls] /\ Knows(t, call[t]) /\ b \in Buckets /\ k \in Ids
        /\ call[t].idx \in Links /\ call[t].nxt \in Links /\ call[t].aft \in Links
        /\ state[b] \in {"chain", "converting", "tree"} /\ OwnerOf[k] = t
        /\ first \in [Buckets -> Links] /\ next \in [Nodes -> Links]
    BY <1>1, CallFacts
  <2>2. call[t].nxt \in Nodes /\ next[call[t].nxt] \in Links
    BY <1>1, <2>1, MapFacts DEF Knows, AtHand, AtFilled, AtHead, AtWalk, AtNext, AtFind, Links
  <2> QED
    BY <2>1, <2>2
<1>3. PICK c : Step(t, c, x, call[t].idx, call[t].nxt, next[call[t].nxt])
  <2>1. call' = [call EXCEPT ![t].aft = next[call[t].nxt], ![t].at = x]
    BY <1>1 DEF ReadAfter, At, Bkt, Place
  <2>2. x \in Accesses
    BY DEF Accesses, Returned, AtHand, AtFilled, AtHead, AtWalk, AtNext, AtFind, AtTree,
           AtTreeify, AtOther
  <2>3. next[call[t].nxt] \in Links
    BY <1>1, <1>2, MapFacts, CallFacts DEF Knows, AtHand, AtFilled, AtHead, AtWalk, AtNext, AtFind, Links
  <2> HIDE DEF x
  <2> QED
    BY <1>2, <2>1, <2>2, <2>3, Steps
<1>4. /\ c \in Calls /\ c.key = k /\ c.at = x /\ Place(c) = b
      /\ c.idx = call[t].idx /\ c.nxt = call[t].nxt /\ c.aft = next[call[t].nxt]
  BY <1>3 DEF Step, Place
<1>5. Quiet(t, c)
  BY <1>1, <1>2, <1>3, <1>4 DEF Step, Quiet, TookOut, Settled, Treeing, AtTreeify, AtHand, AtFilled,
     nodeVars, bucketVars, history
<1>6. Knows(t, c)
  BY <1>1, <1>2, <1>4 DEF Knows, AtTreeify, AtHand, AtFilled, AtHead, AtWalk, AtNext, AtFind,
     AtTree, Place, InsertsOn, Before, Treeing, Settled, Places, ErasesInChain
<1>7. ASSUME b \in Private, NEW s \in Seq(Nodes), Lists(s, b), Walks(call[t], s), KnowsAlone(call[t])
      PROVE  Walks(c, s) /\ KnowsAlone(c)
  <2>1. PICK p \in DOMAIN s : StandsAt(call[t], s, p)
    BY <1>1, <1>7 DEF Walks, AtWalk, AtNext
  <2>2. call[t].nxt = Follow(s, p) /\ p \in 1..Len(s) /\ p # Len(s) /\ Len(s) \in Nat
    <3>1. call[t].nxt = Follow(s, p) /\ call[t].nxt # Null
      BY <1>1, <1>2, <2>1, MapFacts DEF StandsAt, AtNext
    <3> QED
      BY <1>7, <2>1, <3>1, ListFacts
  <2>3. p + 1 \in DOMAIN s /\ call[t].nxt = s[p + 1] /\ next[s[p + 1]] = Follow(s, p + 1)
    BY <1>7, <2>2, ListFacts DEF Lists
  <2>4. StandsAt(c, s, p)
    BY <1>1, <1>4, <2>1, <2>2, <2>3 DEF StandsAt, AtNext
  <2>8. Walks(c, s)
    BY <1>1, <1>2, <1>4, <1>7, <2>1, <2>4 DEF Walks, AtTreeify, AtHand, AtFilled, AtHead, AtWalk, AtNext, AtFind, AtTree, Place
  <2>9. KnowsAlone(c)
    BY <1>1, <1>2, <1>4, <1>7 DEF KnowsAlone, AtTreeify, AtHand, AtFilled, AtHead, AtWalk, AtNext, AtFind,
         AtTree, AtChain, Place, TookOut
  <2> QED
    BY <2>8, <2>9
<1> QED
  BY <1>4, <1>5, <1>6, <1>7, QuietStep

LEMMA UnlinkNextFailsStep ==
  ASSUME MapInv, NEW t \in Threads, UnlinkNextFails(t)
  PROVE  MapInv'
<1> DEFINE k == call[t].key
           b == Place(call[t])
           x == "eraseFirst"
<1>1. /\ call[t].at = "unlinkNext" /\ UNCHANGED <<nodeVars, first, state, overflow, history>>
      /\ len' \in [Buckets -> Int]
  <2>1. call[t].at = "unlinkNext"
    BY DEF UnlinkNextFails, At
  <2> QED
    BY <2>1, CallFacts DEF UnlinkNextFails, Bkt, Place, nodeVars, bucketVars, history
<1>2. /\ call \in [Threads -> Calls] /\ Knows(t, call[t]) /\ b \in Buckets /\ k \in Ids
      /\ call[t].idx \in Links /\ call[t].nxt \in Links /\ call[t].aft \in Links
      /\ state[b] \in {"chain", "converting", "tree"} /\ OwnerOf[k] = t
  BY <1>1, CallFacts
<1>3. PICK c : Step(t, c, x, Null, Null, Null)
  <2>1. call' = [call EXCEPT ![t] = [Idle EXCEPT !.at = x, !.key = call[t].key]]
    BY <1>1 DEF UnlinkNextFails, Again, At, Bkt, Place
  <2>2. x \in Accesses
    BY DEF Accesses, Returned, AtHand, AtFilled, AtHead, AtWalk, AtNext, AtFind, AtTree,
           AtTreeify, AtOther
  <2> HIDE DEF x
  <2> QED
    BY <1>2, <2>1, <2>2, Steps
<1>4. /\ c \in Calls /\ c.key = k /\ c.at = x /\ Place(c) = b
      /\ c.idx = Null /\ c.nxt = Null /\ c.aft = Null
  BY <1>3 DEF Step, Place
<1>5. Quiet(t, c)
  BY <1>1, <1>2, <1>3, <1>4 DEF Step, Quiet, TookOut, Settled, Treeing, AtTreeify, AtHand, AtFilled,
     nodeVars, bucketVars, history
<1>6. Knows(t, c)
  BY <1>1, <1>2, <1>4 DEF Knows, AtTreeify, AtHand, AtFilled, AtHead, AtWalk, AtNext, AtFind,
     AtTree, Place, InsertsOn, Before, Treeing, Settled, Places, ErasesInChain
<1>7. ASSUME b \in Private, NEW s \in Seq(Nodes), Lists(s, b), Walks(call[t], s), KnowsAlone(call[t])
      PROVE  Walks(c, s) /\ KnowsAlone(c)
  <2>8. Walks(c, s)
    BY <1>1, <1>2, <1>4, <1>7 DEF Walks, AtTreeify, AtHand, AtFilled, AtHead, AtWalk, AtNext, AtFind, AtTree, Place
  <2>9. KnowsAlone(c)
    BY <1>1, <1>2, <1>4, <1>7 DEF KnowsAlone, AtTreeify, AtHand, AtFilled, AtHead, AtWalk, AtNext, AtFind,
         AtTree, AtChain, Place, TookOut
  <2> QED
    BY <2>8, <2>9
<1> QED
  BY <1>4, <1>5, <1>6, <1>7, QuietStep

LEMMA IsNextHit ==
  ASSUME MapInv, NEW t \in Threads, IsNext(t), id[call[t].nxt] = call[t].key
  PROVE  MapInv'
<1> DEFINE k == call[t].key
           b == Place(call[t])
           x == "readAfter"
<1>1. /\ call[t].at = "isNext" /\ UNCHANGED <<nodeVars, first, state, overflow, history>>
      /\ len' \in [Buckets -> Int]
  <2>1. call[t].at = "isNext"
    BY DEF IsNext, At
  <2> QED
    BY <2>1, CallFacts DEF IsNext, Bkt, Place, nodeVars, bucketVars, history
<1>2. /\ call \in [Threads -> Calls] /\ Knows(t, call[t]) /\ b \in Buckets /\ k \in Ids
      /\ call[t].idx \in Links /\ call[t].nxt \in Links /\ call[t].aft \in Links
      /\ state[b] \in {"chain", "converting", "tree"} /\ OwnerOf[k] = t
  BY <1>1, CallFacts
<1>3. PICK c : Step(t, c, x, call[t].idx, call[t].nxt, call[t].aft)
  <2>1. call' = [call EXCEPT ![t].at = x]
    BY <1>1 DEF IsNext, To, At, Bkt, Place
  <2>2. x \in Accesses
    BY DEF Accesses, Returned, AtHand, AtFilled, AtHead, AtWalk, AtNext, AtFind, AtTree,
           AtTreeify, AtOther
  <2> HIDE DEF x
  <2> QED
    BY <1>2, <2>1, <2>2, Steps
<1>4. /\ c \in Calls /\ c.key = k /\ c.at = x /\ Place(c) = b
      /\ c.idx = call[t].idx /\ c.nxt = call[t].nxt /\ c.aft = call[t].aft
  BY <1>3 DEF Step, Place
<1>5. Quiet(t, c)
  BY <1>1, <1>2, <1>3, <1>4 DEF Step, Quiet, TookOut, Settled, Treeing, AtTreeify, AtHand, AtFilled,
     nodeVars, bucketVars, history
<1>6. Knows(t, c)
  BY <1>1, <1>2, <1>4 DEF Knows, AtTreeify, AtHand, AtFilled, AtHead, AtWalk, AtNext, AtFind,
     AtTree, Place, InsertsOn, Before, Treeing, Settled, Places, ErasesInChain
<1>7. ASSUME b \in Private, NEW s \in Seq(Nodes), Lists(s, b), Walks(call[t], s), KnowsAlone(call[t])
      PROVE  Walks(c, s) /\ KnowsAlone(c)
  <2>8. Walks(c, s)
    BY <1>1, <1>2, <1>4, <1>7 DEF Walks, AtTreeify, AtHand, AtFilled, AtHead, AtWalk, AtNext, AtFind, AtTree, Place, StandsAt
  <2>9. KnowsAlone(c)
    BY <1>1, <1>2, <1>4, <1>7 DEF KnowsAlone, AtTreeify, AtHand, AtFilled, AtHead, AtWalk, AtNext, AtFind,
         AtTree, AtChain, Place, TookOut
  <2> QED
    BY <2>8, <2>9
<1> QED
  BY <1>4, <1>5, <1>6, <1>7, QuietStep

LEMMA IsNextMiss ==
  ASSUME MapInv, NEW t \in Threads, IsNext(t), id[call[t].nxt] # call[t].key
  PROVE  MapInv'
<1> DEFINE k == call[t].key
           b == Place(call[t])
           x == "walk"
<1>1. /\ call[t].at = "isNext" /\ UNCHANGED <<nodeVars, first, state, overflow, history>>
      /\ len' \in [Buckets -> Int]
  <2>1. call[t].at = "isNext"
    BY DEF IsNext, At
  <2> QED
    BY <2>1, CallFacts DEF IsNext, Bkt, Place, nodeVars, bucketVars, history
<1>2. /\ call \in [Threads -> Calls] /\ Knows(t, call[t]) /\ b \in Buckets /\ k \in Ids
      /\ call[t].idx \in Links /\ call[t].nxt \in Links /\ call[t].aft \in Links
      /\ state[b] \in {"chain", "converting", "tree"} /\ OwnerOf[k] = t
      /\ call[t].nxt \in Nodes /\ call[t].nxt \in Links
  <2>1. /\ call \in [Threads -> Calls] /\ Knows(t, call[t]) /\ b \in Buckets /\ k \in Ids
        /\ call[t].idx \in Links /\ call[t].nxt \in Links /\ call[t].aft \in Links
        /\ state[b] \in {"chain", "converting", "tree"} /\ OwnerOf[k] = t
        /\ first \in [Buckets -> Links] /\ next \in [Nodes -> Links]
    BY <1>1, CallFacts
  <2>2. call[t].nxt \in Nodes /\ call[t].nxt \in Links
    BY <1>1, <2>1, MapFacts DEF Knows, AtHand, AtFilled, AtHead, AtWalk, AtNext, AtFind, Links
  <2> QED
    BY <2>1, <2>2
<1>3. PICK c : Step(t, c, x, call[t].nxt, Null, call[t].aft)
  <2>1. call' = [call EXCEPT ![t].idx = call[t].nxt, ![t].nxt = Null, ![t].at = x]
    BY <1>1 DEF IsNext, At, Bkt, Place
  <2>2. x \in Accesses
    BY DEF Accesses, Returned, AtHand, AtFilled, AtHead, AtWalk, AtNext, AtFind, AtTree,
           AtTreeify, AtOther
  <2>3. call[t].nxt \in Links /\ Null \in Links
    BY <1>1, <1>2, MapFacts, CallFacts DEF Knows, AtHand, AtFilled, AtHead, AtWalk, AtNext, AtFind, Links
  <2> HIDE DEF x
  <2> QED
    BY <1>2, <2>1, <2>2, <2>3, Steps
<1>4. /\ c \in Calls /\ c.key = k /\ c.at = x /\ Place(c) = b
      /\ c.idx = call[t].nxt /\ c.nxt = Null /\ c.aft = call[t].aft
  BY <1>3 DEF Step, Place
<1>5. Quiet(t, c)
  BY <1>1, <1>2, <1>3, <1>4 DEF Step, Quiet, TookOut, Settled, Treeing, AtTreeify, AtHand, AtFilled,
     nodeVars, bucketVars, history
<1>6. Knows(t, c)
  BY <1>1, <1>2, <1>4 DEF Knows, AtTreeify, AtHand, AtFilled, AtHead, AtWalk, AtNext, AtFind,
     AtTree, Place, InsertsOn, Before, Treeing, Settled, Places, ErasesInChain
<1>7. ASSUME b \in Private, NEW s \in Seq(Nodes), Lists(s, b), Walks(call[t], s), KnowsAlone(call[t])
      PROVE  Walks(c, s) /\ KnowsAlone(c)
  <2>1. PICK p \in DOMAIN s : StandsAt(call[t], s, p)
    BY <1>1, <1>7 DEF Walks, AtWalk, AtNext
  <2>2. call[t].nxt = Follow(s, p) /\ p \in 1..Len(s) /\ p # Len(s) /\ Len(s) \in Nat
    <3>1. call[t].nxt = Follow(s, p) /\ call[t].nxt # Null
      BY <1>1, <1>2, <2>1, MapFacts DEF StandsAt, AtNext
    <3> QED
      BY <1>7, <2>1, <3>1, ListFacts
  <2>3. /\ p + 1 \in DOMAIN s /\ call[t].nxt = s[p + 1]
        /\ \A q \in 1..p : id[s[q]] # k
    BY <1>1, <1>7, <2>1, <2>2, ListFacts DEF StandsAt, Passed
  <2>4. p + 1 \in DOMAIN s /\ StandsAt(c, s, p + 1)
    BY <1>1, <1>4, <2>2, <2>3 DEF StandsAt, Passed, AtNext
  <2>8. Walks(c, s)
    BY <1>1, <1>2, <1>4, <1>7, <2>4 DEF Walks, AtTreeify, AtHand, AtFilled, AtHead, AtWalk, AtNext, AtFind, AtTree, Place
  <2>9. KnowsAlone(c)
    BY <1>1, <1>2, <1>4, <1>7 DEF KnowsAlone, AtTreeify, AtHand, AtFilled, AtHead, AtWalk, AtNext, AtFind,
         AtTree, AtChain, Place, TookOut
  <2> QED
    BY <2>8, <2>9
<1> QED
  BY <1>4, <1>5, <1>6, <1>7, QuietStep

LEMMA ClaimTaken ==
  ASSUME MapInv, NEW t \in Threads, Claim(t), state[Place(call[t])] # "chain"
  PROVE  MapInv'
<1> DEFINE k == call[t].key
           b == Place(call[t])
           x == IF call[t].idx = Null THEN "treeAdd" ELSE "inserted"
<1>1. /\ call[t].at = "claim" /\ UNCHANGED <<nodeVars, first, state, overflow, history>>
      /\ len' \in [Buckets -> Int]
  <2>1. call[t].at = "claim"
    BY DEF Claim, At
  <2> QED
    BY <2>1, CallFacts DEF Claim, Bkt, Place, nodeVars, bucketVars, history
<1>2. /\ call \in [Threads -> Calls] /\ Knows(t, call[t]) /\ b \in Buckets /\ k \in Ids
      /\ call[t].idx \in Links /\ call[t].nxt \in Links /\ call[t].aft \in Links
      /\ state[b] \in {"chain", "converting", "tree"} /\ OwnerOf[k] = t
  BY <1>1, CallFacts
<1>3. PICK c : Step(t, c, x, call[t].idx, call[t].nxt, call[t].aft)
  <2>1. call' = [call EXCEPT ![t].at = x]
    BY <1>1 DEF Claim, AfterTreeify, To, At, Bkt, Place
  <2>2. x \in Accesses
    BY DEF Accesses, Returned, AtHand, AtFilled, AtHead, AtWalk, AtNext, AtFind, AtTree,
           AtTreeify, AtOther
  <2> HIDE DEF x
  <2> QED
    BY <1>2, <2>1, <2>2, Steps
<1>4. /\ c \in Calls /\ c.key = k /\ c.at = x /\ Place(c) = b
      /\ c.idx = call[t].idx /\ c.nxt = call[t].nxt /\ c.aft = call[t].aft
  BY <1>3 DEF Step, Place
<1>5. Quiet(t, c)
  BY <1>1, <1>2, <1>3, <1>4 DEF Step, Quiet, TookOut, Settled, Treeing, AtTreeify, AtHand, AtFilled,
     nodeVars, bucketVars, history
<1>6. Knows(t, c)
  BY <1>1, <1>2, <1>4 DEF Knows, AtTreeify, AtHand, AtFilled, AtHead, AtWalk, AtNext, AtFind,
     AtTree, Place, InsertsOn, Before, Treeing, Settled, Places, ErasesInChain
<1>7. ASSUME b \in Private, NEW s \in Seq(Nodes), Lists(s, b), Walks(call[t], s), KnowsAlone(call[t])
      PROVE  Walks(c, s) /\ KnowsAlone(c)
  <2>8. Walks(c, s)
    BY <1>1, <1>2, <1>4, <1>7 DEF Walks, AtTreeify, AtHand, AtFilled, AtHead, AtWalk, AtNext, AtFind, AtTree, Place
  <2>9. KnowsAlone(c)
    BY <1>1, <1>2, <1>4, <1>7 DEF KnowsAlone, AtTreeify, AtHand, AtFilled, AtHead, AtWalk, AtNext, AtFind,
         AtTree, AtChain, Place, TookOut
  <2> QED
    BY <2>8, <2>9
<1> QED
  BY <1>4, <1>5, <1>6, <1>7, QuietStep

-----------------------------------------------------------------------------
(* Steps that write.                                                       *)

\* What is left to show of a step of one thread.
LEMMA OneMoves ==
  ASSUME MapInv, NEW t \in Threads, Spares(t), MapTypeOK', IdsOK', PlacesOK', Knows(t, call[t])',
         \A u \in Threads \ {t}, b \in Buckets :
           Converts(u, b) => state'[b] = state[b] /\ ~Converts(t, b)',
         \A k \in Ids : k = call[t].key /\ In(k)' /\ state'[BucketOf[k]] = "chain"
                        => OnlyInPlace(k)',
         \A b \in Private : SparesBucket(t, b) \/ (PrivateOK(b)' /\ ChainOK(b)')
  PROVE  MapInv'
<1>1. LiveOK'
  BY LiveKept
<1>2. ASSUME NEW u \in Threads, u # t PROVE Knows(u, call[u])'
  <2>1. call[u].at \in AtTreeify => Place(call[u]) \in Buckets
    BY CallFacts DEF AtTreeify
  <2> QED
    BY <1>2, <2>1, OthersOK DEF Converts
<1>3. ConvertsOK'
  <2>1. \A u \in Threads \ {t}, b \in Buckets : Converts(u, b)' <=> Converts(u, b)
    BY DEF Converts, Spares, Place
  <2> QED
    BY <2>1 DEF MapInv, ConvertsOK
<1>4. \A b \in Private : PrivateOK(b)' /\ ChainOK(b)'
  BY OtherBucket
<1> QED
  BY <1>1, <1>2, <1>3, <1>4 DEF MapInv

\* The ids that the step is not about.
LEMMA OtherIds ==
  ASSUME MapInv, NEW t \in Threads, Spares(t), call[t].at # "idle",
         call'[t].key \in {call[t].key, NoId}, NEW k \in Ids, k # call[t].key
  PROVE  (In(k)' <=> In(k)) /\ (Inserting(k)' <=> Inserting(k)) /\ (Known(k)' <=> Known(k))
<1>1. OwnerOf[k] \in Threads /\ NoId \notin Ids
  BY MapFacts
<1>2. k \in live' <=> k \in live
  BY DEF Spares
<1>3. CASE OwnerOf[k] = t
  BY <1>1, <1>2, <1>3 DEF In, Inserting, Known, OnCall
<1>4. CASE OwnerOf[k] # t
  <2>1. call'[OwnerOf[k]] = call[OwnerOf[k]]
    BY <1>1, <1>4 DEF Spares
  <2> QED
    BY <1>2, <2>1 DEF In, Inserting, Known, OnCall
<1> QED
  BY <1>3, <1>4

\* The step's own bucket, when no other thread works on it.
LEMMA OwnBucket ==
  ASSUME MapInv, NEW t \in Threads, Spares(t), call[t].at # "idle",
         NEW b \in Private, b = Place(call[t])
  PROVE  /\ \A u \in Threads : On(u, b)' => u = t
         /\ PrivateOK(b)
         /\ \E s \in Seq(Nodes) : Lists(s, b) /\ Walks(call[t], s) /\ KnowsAlone(call[t])
<1>1. On(t, b)
  BY DEF On
<1>2. \A u \in Threads : On(u, b)' => u = t
  <2>1. \A u \in Threads \ {t} : On(u, b)' => On(u, b)
    BY DEF On, Spares, Place
  <2> QED
    BY <1>1, <2>1, Alone
<1>3. PrivateOK(b) /\ ChainOK(b)
  BY DEF MapInv
<1> QED
  BY <1>1, <1>2, <1>3 DEF ChainOK

\* A bucket of which the step changes nothing but what its own call knows.
LEMMA SameNodes ==
  ASSUME NEW b \in Buckets, NEW s, first'[b] = first[b],
         \A i \in Nodes : i \in NodesOf(b)' <=> i \in NodesOf(b),
         \A i \in NodesOf(b) : next'[i] = next[i]
  PROVE  Lists(s, b)' <=> Lists(s, b)
<1>1. \A i : i \in NodesOf(b)' <=> i \in NodesOf(b)
  BY DEF NodesOf
<1>2. Follow(s, 0)' = Follow(s, 0) /\ \A p : Follow(s, p)' = Follow(s, p)
  BY DEF Follow
<1> QED
  BY <1>1, <1>2 DEF Lists

LEMMA ChainAfter ==
  ASSUME NEW t \in Threads, NEW b, NEW s \in Seq(Nodes), Lists(s, b)',
         \A u \in Threads : On(u, b)' => u = t,
         On(t, b)' => Walks(call[t], s)' /\ KnowsAlone(call[t])'
  PROVE  ChainOK(b)'
BY DEF ChainOK

\* A step on the node in the call's hands and on the free list.
Local(t, c) ==
  /\ call' = [call EXCEPT ![t] = c] /\ c \in Calls
  /\ UNCHANGED <<first, len, state, overflow, history>>
  /\ next' \in [Nodes -> Links] /\ id' \in [Nodes -> Ids \cup {NoId}]
  /\ bucket' \in [Nodes -> Buckets] /\ free' \in Seq(Nodes)
  /\ \A i \in Nodes : (next'[i] # next[i] \/ id'[i] # id[i] \/ bucket'[i] # bucket[i]) =>
       Holds(t) /\ call[t].idx = i
  /\ \A i \in Nodes : id'[i] # id[i] => id'[i] = call[t].key /\ call[t].key \notin live
  /\ \A i \in Nodes : InPlace(i)' <=> InPlace(i)
  /\ call[t].at # "idle" /\ c.at # "idle" /\ c.key = call[t].key
  /\ TookOut(call[t]) => TookOut(c)
  /\ Settled(c) <=> Settled(call[t])
  /\ c.at \notin AtTreeify /\ call[t].at \notin AtTreeify

LEMMA LocalStep ==
  ASSUME MapInv, NEW t \in Threads, NEW c, Local(t, c), IdsOK', PlacesOK', Knows(t, call[t])',
         Place(c) \in Private =>
           \A s \in Seq(Nodes) :
             Lists(s, Place(c)) /\ Walks(call[t], s) /\ KnowsAlone(call[t]) =>
               Walks(call[t], s)' /\ KnowsAlone(call[t])'
  PROVE  MapInv'
<1> USE DEF history
<1>1. /\ call[t].key \in Ids /\ Place(c) \in Buckets /\ Place(call[t]) = Place(c)
      /\ call'[t] = c /\ call \in [Threads -> Calls] /\ MapTypeOK
  BY CallFacts DEF Local, Place, MapInv, MapTypeOK
<1>2. MapTypeOK'
  BY <1>1 DEF MapTypeOK, Local
<1>3. Spares(t)
  BY <1>1 DEF Spares, Local
<1>4. \A i \in Nodes : InPlace(i) => id'[i] = id[i] /\ bucket'[i] = bucket[i] /\ next'[i] = next[i]
  BY DEF Local, InPlace
<1>5. \A b, i : i \in NodesOf(b)' <=> i \in NodesOf(b)
  BY <1>4 DEF NodesOf, Local
<1>6. \A k \in Ids : (In(k)' => In(k)) /\ (Inserting(k)' <=> Inserting(k)) /\ (Known(k)' <=> Known(k))
  <2>1. CASE OwnerOf[call[t].key] = t
    <3>1. \A k \in Ids : k = call[t].key =>
            (In(k)' => In(k)) /\ (Inserting(k)' <=> Inserting(k)) /\ (Known(k)' <=> Known(k))
      BY <1>1, <2>1 DEF Local, In, OnCall, Inserting, Known
    <3>2. \A k \in Ids : k # call[t].key =>
            (In(k)' => In(k)) /\ (Inserting(k)' <=> Inserting(k)) /\ (Known(k)' <=> Known(k))
      BY <1>1, <1>3, OtherIds DEF Local
    <3> QED
      BY <3>1, <3>2
  <2> QED
    BY <2>1, CallFacts DEF Local
<1>7. \A k \in Ids : k = call[t].key /\ In(k)' /\ state'[BucketOf[k]] = "chain" => OnlyInPlace(k)'
  BY <1>6 DEF Local, MapInv, LiveOK, OnlyInPlace, In
<1>8. \A u \in Threads \ {t}, b \in Buckets :
        Converts(u, b) => state'[b] = state[b] /\ ~Converts(t, b)'
  BY <1>1 DEF Local, Converts
<1>9. ASSUME NEW b \in Private, b # Place(c)
      PROVE  SparesBucket(t, b)
  <2>1. \A u \in Threads : On(u, b) /\ call[u].at = "publish" => next'[call[u].idx] = next[call[u].idx]
    <3> SUFFICES ASSUME NEW u \in Threads, On(u, b), call[u].at = "publish", call[u].idx \in Nodes
                 PROVE  next'[call[u].idx] = next[call[u].idx]
      BY CallFacts DEF Knows, AtHand, AtFilled
    <3>1. u # t /\ Holds(u)
      BY <1>1, <1>9 DEF On, Holds, AtHand, AtFilled
    <3> QED
      BY <3>1 DEF Local, MapInv, PlacesOK
  <2>2. ~On(t, b) /\ ~On(t, b)'
    BY <1>1, <1>9 DEF On, Local, Place
  <2>3. \A i \in NodesOf(b) : next'[i] = next[i]
    BY <1>4 DEF NodesOf
  <2> QED
    BY <1>5, <2>1, <2>2, <2>3 DEF SparesBucket, Local
<1>10. ASSUME NEW b \in Private, b = Place(c)
       PROVE  PrivateOK(b)' /\ ChainOK(b)'
  <2>1. PICK s \in Seq(Nodes) : Lists(s, b) /\ Walks(call[t], s) /\ KnowsAlone(call[t])
    BY <1>1, <1>3, <1>10, OwnBucket DEF Local
  <2>2. Lists(s, b)'
    BY <1>1, <1>4, <1>5, <1>10, <2>1, SameNodes DEF Local, NodesOf
  <2>3. PrivateOK(b) /\ \A u \in Threads : On(u, b)' => u = t
    BY <1>1, <1>3, <1>10, OwnBucket DEF Local
  <2>4. ChainOK(b)'
    BY <1>10, <2>1, <2>2, <2>3, ChainAfter
  <2>5. \A k \in Ids : Present(k) => Present(k)'
    BY <1>4 DEF Present, Local
  <2>6. state'[b] # "converting"
    BY <1>1, <1>10, <2>1 DEF Local, KnowsAlone
  <2>7. ASSUME state'[b] # "tree", NEW i \in NodesOf(b)' PROVE Known(id[i])'
    <3>1. i \in NodesOf(b) /\ id'[i] = id[i] /\ Known(id[i])
      BY <1>4, <1>5, <2>3, <2>7 DEF PrivateOK, NodesOf, Local
    <3>2. PICK k \in Ids : k = id[i] /\ Known(k)
      BY <3>1 DEF Known
    <3>3. Known(k)'
      BY <1>6, <3>2
    <3> QED
      BY <3>1, <3>2, <3>3 DEF Known, Inserting, OnCall
  <2>8. \A k \in Ids : BucketOf[k] = b /\ (In(k)' \/ Inserting(k)') => Present(k)'
    BY <1>6, <2>3, <2>5 DEF PrivateOK
  <2> QED
    BY <2>4, <2>6, <2>7, <2>8 DEF PrivateOK
<1> QED
  BY <1>2, <1>3, <1>7, <1>8, <1>9, <1>10, OneMoves

\* The free list, a node taken from it or put on it.
NodesIn(f) == {f[k] : k \in DOMAIN f}
Distinct(f) == \A k, l \in DOMAIN f : f[k] = f[l] => k = l

LEMMA Taking ==
  ASSUME NEW f \in Seq(Nodes), Distinct(f), f # <<>>
  PROVE  /\ Head(f) \in NodesIn(f) /\ Head(f) \in Nodes /\ Tail(f) \in Seq(Nodes)
         /\ NodesIn(Tail(f)) = NodesIn(f) \ {Head(f)} /\ Distinct(Tail(f))
<1>1. /\ Len(f) \in Nat \ {0} /\ DOMAIN f = 1..Len(f) /\ Head(f) = f[1]
      /\ Tail(f) \in Seq(Nodes) /\ Len(Tail(f)) = Len(f) - 1
      /\ DOMAIN Tail(f) = 1..(Len(f) - 1)
      /\ \A k \in 1..(Len(f) - 1) : Tail(f)[k] = f[k + 1]
  OBVIOUS
<1>2. Distinct(Tail(f))
  BY <1>1 DEF Distinct
<1>3. \A i : i \in NodesIn(f) <=> i = Head(f) \/ i \in NodesIn(Tail(f))
  <2>1. ASSUME NEW k \in DOMAIN f, k # 1 PROVE f[k] \in NodesIn(Tail(f))
    <3>1. k - 1 \in DOMAIN Tail(f) /\ Tail(f)[k - 1] = f[k]
      BY <1>1, <2>1
    <3> QED
      BY <3>1 DEF NodesIn
  <2>2. ASSUME NEW k \in DOMAIN Tail(f) PROVE Tail(f)[k] \in NodesIn(f)
    <3>1. k + 1 \in DOMAIN f /\ Tail(f)[k] = f[k + 1]
      BY <1>1, <2>2
    <3> QED
      BY <3>1 DEF NodesIn
  <2> QED
    BY <1>1, <2>1, <2>2 DEF NodesIn
<1>4. Head(f) \notin NodesIn(Tail(f))
  <2> SUFFICES ASSUME NEW k \in DOMAIN Tail(f), Tail(f)[k] = Head(f) PROVE FALSE
    BY DEF NodesIn
  <2>1. k + 1 \in DOMAIN f /\ f[k + 1] = f[1] /\ k + 1 # 1 /\ 1 \in DOMAIN f
    BY <1>1
  <2> QED
    BY <2>1 DEF Distinct
<1>5. NodesIn(Tail(f)) = NodesIn(f) \ {Head(f)}
  BY <1>3, <1>4
<1>6. Head(f) \in Nodes
  BY <1>1
<1> QED
  BY <1>1, <1>2, <1>3, <1>5, <1>6

LEMMA Putting ==
  ASSUME NEW f \in Seq(Nodes), Distinct(f), NEW i \in Nodes, i \notin NodesIn(f)
  PROVE  /\ <<i>> \o f \in Seq(Nodes) /\ Distinct(<<i>> \o f)
         /\ NodesIn(<<i>> \o f) = NodesIn(f) \cup {i}
<1> DEFINE g == <<i>> \o f
<1>1. /\ g \in Seq(Nodes) /\ Len(f) \in Nat /\ Len(g) = Len(f) + 1
      /\ DOMAIN g = 1..(Len(f) + 1) /\ DOMAIN f = 1..Len(f)
      /\ g[1] = i /\ \A k \in 1..Len(f) : g[k + 1] = f[k]
  OBVIOUS
<1> HIDE DEF g
<1>2. \A k \in DOMAIN g : k # 1 => k - 1 \in DOMAIN f /\ g[k] = f[k - 1]
  BY <1>1
<1>3. Distinct(g)
  BY <1>1, <1>2 DEF Distinct, NodesIn
<1>4. \A j : j \in NodesIn(g) <=> j \in NodesIn(f) \/ j = i
  <2>1. ASSUME NEW k \in DOMAIN f PROVE f[k] \in NodesIn(g)
    <3>1. k + 1 \in DOMAIN g /\ g[k + 1] = f[k]
      BY <1>1, <2>1
    <3> QED
      BY <3>1 DEF NodesIn
  <2>2. ASSUME NEW k \in DOMAIN g PROVE g[k] = i \/ g[k] \in NodesIn(f)
    BY <1>1, <1>2 DEF NodesIn
  <2>3. i \in NodesIn(g)
    <3>1. 1 \in DOMAIN g
      BY <1>1
    <3> QED
      BY <1>1, <3>1 DEF NodesIn
  <2> QED
    BY <2>1, <2>2, <2>3 DEF NodesIn
<1> QED
  BY <1>1, <1>3, <1>4 DEF g

LEMMA FreeFacts ==
  ASSUME MapInv
  PROVE  free \in Seq(Nodes) /\ Distinct(free) /\ FreeNodes = NodesIn(free) /\ FreeNodes' = NodesIn(free')
BY DEF MapInv, MapTypeOK, PlacesOK, Distinct, NodesIn, FreeNodes

\* freeNode puts the node in hand on the list.
LEMMA GivesNode ==
  ASSUME MapInv, NEW t \in Threads, Holds(t), NEW c, c.at \notin AtHand,
         call' = [call EXCEPT ![t] = c], free' = <<call[t].idx>> \o free
  PROVE  /\ free' \in Seq(Nodes) /\ PlacesOK' /\ \A i \in Nodes : InPlace(i)' <=> InPlace(i)
<1>1. /\ call[t].idx \in Nodes /\ call[t].idx \notin FreeNodes /\ call \in [Threads -> Calls]
      /\ call'[t] = c /\ \A u \in Threads \ {t} : call'[u] = call[u]
  BY DEF MapInv, MapTypeOK, Knows, Holds, AtHand, PlacesOK
<1>2. free' \in Seq(Nodes) /\ Distinct(free') /\ FreeNodes' = FreeNodes \cup {call[t].idx}
  BY <1>1, FreeFacts, Putting
<1>3. ~Holds(t)' /\ \A u \in Threads \ {t} : Holds(u)' <=> Holds(u)
  BY <1>1 DEF Holds
<1>4. PlacesOK'
  BY <1>1, <1>2, <1>3 DEF MapInv, PlacesOK, Distinct
<1>5. \A i \in Nodes : InPlace(i)' <=> InPlace(i)
  BY <1>1, <1>2, <1>3 DEF InPlace
<1> QED
  BY <1>2, <1>4, <1>5

LEMMA TakesNode ==
  ASSUME MapInv, NEW t \in Threads, ~Holds(t), NEW c, c.at \in AtHand, free # <<>>,
         c.idx = Head(free), call' = [call EXCEPT ![t] = c], free' = Tail(free)
  PROVE  /\ free' \in Seq(Nodes) /\ PlacesOK' /\ \A i \in Nodes : InPlace(i)' <=> InPlace(i)
         /\ c.idx \in Nodes
<1>1. /\ call \in [Threads -> Calls] /\ call'[t] = c
      /\ \A u \in Threads \ {t} : call'[u] = call[u]
  BY DEF MapInv, MapTypeOK
<1>2. /\ free' \in Seq(Nodes) /\ Distinct(free') /\ FreeNodes' = FreeNodes \ {c.idx}
      /\ c.idx \in FreeNodes /\ c.idx \in Nodes
  BY FreeFacts, Taking
<1>3. Holds(t)' /\ \A u \in Threads \ {t} : Holds(u)' <=> Holds(u)
  BY <1>1 DEF Holds
<1>4. PlacesOK'
  BY <1>1, <1>2, <1>3 DEF MapInv, PlacesOK, Distinct
<1>5. \A i \in Nodes : InPlace(i)' <=> InPlace(i)
  BY <1>1, <1>2, <1>3 DEF InPlace
<1> QED
  BY <1>2, <1>4, <1>5

LEMMA AllocNone ==
  ASSUME MapInv, NEW t \in Threads, AllocNode(t), free = <<>>
  PROVE  MapInv'
<1> DEFINE k == call[t].key
           b == Place(call[t])
           x == "refused"
<1>1. /\ call[t].at = "alloc" /\ UNCHANGED <<nodeVars, first, state, overflow, history>>
      /\ len' \in [Buckets -> Int]
  <2>1. call[t].at = "alloc"
    BY DEF AllocNode, At
  <2> QED
    BY <2>1, CallFacts DEF AllocNode, Bkt, Place, nodeVars, bucketVars, history
<1>2. /\ call \in [Threads -> Calls] /\ Knows(t, call[t]) /\ b \in Buckets /\ k \in Ids
      /\ call[t].idx \in Links /\ call[t].nxt \in Links /\ call[t].aft \in Links
      /\ state[b] \in {"chain", "converting", "tree"} /\ OwnerOf[k] = t
  BY <1>1, CallFacts
<1>3. PICK c : Step(t, c, x, Null, call[t].nxt, call[t].aft)
  <2>1. call' = [call EXCEPT ![t].idx = Null, ![t].at = x]
    BY <1>1 DEF AllocNode, Visit, Top, At, Bkt, Place
  <2>2. x \in Accesses
    BY DEF Accesses, Returned, AtHand, AtFilled, AtHead, AtWalk, AtNext, AtFind, AtTree,
           AtTreeify, AtOther
  <2>3. Null \in Links
    BY <1>1, <1>2, MapFacts, CallFacts DEF Knows, AtHand, AtFilled, AtHead, AtWalk, AtNext, AtFind, Links
  <2> HIDE DEF x
  <2> QED
    BY <1>2, <2>1, <2>2, <2>3, Steps
<1>4. /\ c \in Calls /\ c.key = k /\ c.at = x /\ Place(c) = b
      /\ c.idx = Null /\ c.nxt = call[t].nxt /\ c.aft = call[t].aft
  BY <1>3 DEF Step, Place
<1>5. Quiet(t, c)
  BY <1>1, <1>2, <1>3, <1>4 DEF Step, Quiet, TookOut, Settled, Treeing, AtTreeify, AtHand, AtFilled,
     nodeVars, bucketVars, history
<1>6. Knows(t, c)
  BY <1>1, <1>2, <1>4 DEF Knows, AtTreeify, AtHand, AtFilled, AtHead, AtWalk, AtNext, AtFind,
     AtTree, Place, InsertsOn, Before, Treeing, Settled, Places, ErasesInChain
<1>7. ASSUME b \in Private, NEW s \in Seq(Nodes), Lists(s, b), Walks(call[t], s), KnowsAlone(call[t])
      PROVE  Walks(c, s) /\ KnowsAlone(c)
  <2>8. Walks(c, s)
    BY <1>1, <1>2, <1>4, <1>7 DEF Walks, AtTreeify, AtHand, AtFilled, AtHead, AtWalk, AtNext, AtFind, AtTree, Place
  <2>9. KnowsAlone(c)
    BY <1>1, <1>2, <1>4, <1>7 DEF KnowsAlone, AtTreeify, AtHand, AtFilled, AtHead, AtWalk, AtNext, AtFind,
         AtTree, AtChain, Place, TookOut
  <2> QED
    BY <2>8, <2>9
<1> QED
  BY <1>4, <1>5, <1>6, <1>7, QuietStep

LEMMA AllocTaken ==
  ASSUME MapInv, NEW t \in Threads, AllocNode(t), free # <<>>
  PROVE  MapInv'
<1> DEFINE k == call[t].key
           b == Place(call[t])
           h == call[t].idx
<1>1. call[t].at = "alloc"
  BY DEF AllocNode, At
<1>2. /\ call \in [Threads -> Calls] /\ Knows(t, call[t]) /\ b \in Buckets /\ k \in Ids
      /\ call[t].idx \in Links /\ call[t].nxt \in Links /\ call[t].aft \in Links /\ Null \in Links
      /\ state[b] \in {"chain", "converting", "tree"} /\ OwnerOf[k] = t /\ b = BucketOf[k]
  BY <1>1, CallFacts DEF Links, Place
<1>3. /\ next \in [Nodes -> Links] /\ id \in [Nodes -> Ids \cup {NoId}] /\ free \in Seq(Nodes)
      /\ bucket \in [Nodes -> Buckets] /\ first \in [Buckets -> Links] /\ IdsOK /\ PlacesOK
      /\ Top \in Links
  BY <1>1, CallFacts, FreeFacts DEF MapInv, Links, Top
<1>4. PICK c : Step(t, c, "fill", Head(free), call[t].nxt, call[t].aft)
  <2>1. call' = [call EXCEPT ![t].idx = Head(free), ![t].at = "fill"]
    BY <1>3, FreeFacts, Taking, MapFacts DEF AllocNode, Visit, Top
  <2>2. "fill" \in Accesses
    BY DEF Accesses, Returned, AtHand, AtFilled, AtHead, AtWalk, AtNext, AtFind, AtTree,
           AtTreeify, AtOther
  <2> QED
    BY <1>2, <1>3, <2>1, <2>2, FreeFacts, Taking, Steps DEF Links
<1>5. /\ c \in Calls /\ c.key = k /\ c.at = "fill" /\ Place(c) = b /\ call'[t] = c
      /\ c.idx = Head(free) /\ c.nxt = call[t].nxt /\ c.aft = call[t].aft /\ call' = [call EXCEPT ![t] = c]
  BY <1>2, <1>4 DEF Step, Place
<1>6. Local(t, c) /\ IdsOK' /\ UNCHANGED <<next, id, bucket, first, state, bucketVars>>
  <2>1. /\ free' = Tail(free) /\ UNCHANGED <<next, id, bucket, first, state, bucketVars>>
    BY DEF AllocNode, bucketVars
  <2>2. /\ free' \in Seq(Nodes) /\ \A i \in Nodes : InPlace(i)' <=> InPlace(i)
    BY <1>1, <1>5, <2>1, TakesNode DEF Holds, AtHand, AtFilled
  <2> QED
    BY <1>1, <1>3, <1>5, <2>1, <2>2 DEF IdsOK, Local, Holds, TookOut, Settled, Treeing, AtTreeify, AtHand, AtFilled, bucketVars, history
<1>7. PlacesOK' /\ c.idx \in Nodes
  BY <1>1, <1>5, TakesNode DEF AllocNode, Holds, AtHand, AtFilled
<1>8. Knows(t, call[t])'
  BY <1>1, <1>2, <1>5, <1>6, <1>7 DEF HasNode, bucketVars, history, Knows, AtTreeify, AtHand, AtFilled, AtHead, AtWalk, AtNext, AtFind, AtTree, Place,
     InsertsOn, Before, Treeing, Settled, Places, ErasesInChain
<1>9. ASSUME b \in Private, NEW s \in Seq(Nodes), Lists(s, b), Walks(call[t], s), KnowsAlone(call[t])
      PROVE  Walks(call[t], s)' /\ KnowsAlone(call[t])'
  <2>8. Walks(call[t], s)'
    BY <1>1, <1>2, <1>3, <1>5, <1>9 DEF Local, Walks, AtTreeify, AtHand, AtFilled, AtHead, AtWalk, AtNext, AtFind, AtTree, Place
  <2>9. KnowsAlone(call[t])'
    BY <1>1, <1>2, <1>5, <1>6, <1>9 DEF Local, KnowsAlone, AtTreeify, AtHand, AtFilled, AtHead, AtWalk, AtNext, AtFind,
         AtTree, AtChain, Place, TookOut, NodesOf, bucketVars, history
  <2> QED
    BY <2>8, <2>9
<1> QED
  BY <1>5, <1>6, <1>7, <1>8, <1>9, LocalStep

LEMMA FillStep ==
  ASSUME MapInv, NEW t \in Threads, Fill(t)
  PROVE  MapInv'
<1> DEFINE k == call[t].key
           b == Place(call[t])
           h == call[t].idx
<1>1. call[t].at = "fill"
  BY DEF Fill, At
<1>2. /\ call \in [Threads -> Calls] /\ Knows(t, call[t]) /\ b \in Buckets /\ k \in Ids
      /\ call[t].idx \in Links /\ call[t].nxt \in Links /\ call[t].aft \in Links /\ Null \in Links
      /\ state[b] \in {"chain", "converting", "tree"} /\ OwnerOf[k] = t /\ b = BucketOf[k]
  BY <1>1, CallFacts DEF Links, Place
<1>3. /\ next \in [Nodes -> Links] /\ id \in [Nodes -> Ids \cup {NoId}] /\ free \in Seq(Nodes)
      /\ bucket \in [Nodes -> Buckets] /\ first \in [Buckets -> Links] /\ IdsOK /\ PlacesOK
      /\ Top \in Links
  BY <1>1, CallFacts, FreeFacts DEF MapInv, Links, Top
<1>4. PICK c : Step(t, c, "recheck", call[t].idx, call[t].nxt, call[t].aft)
  <2>1. call' = [call EXCEPT ![t].at = "recheck"]
    BY <1>1 DEF Fill, To, Bkt, Place
  <2>2. "recheck" \in Accesses
    BY DEF Accesses, Returned, AtHand, AtFilled, AtHead, AtWalk, AtNext, AtFind, AtTree,
           AtTreeify, AtOther
  <2> QED
    BY <1>2, <1>3, <2>1, <2>2, Steps
<1>5. /\ c \in Calls /\ c.key = k /\ c.at = "recheck" /\ Place(c) = b /\ call'[t] = c
      /\ c.idx = call[t].idx /\ c.nxt = call[t].nxt /\ c.aft = call[t].aft /\ call' = [call EXCEPT ![t] = c]
  BY <1>2, <1>4 DEF Step, Place
<1>6. /\ h \in Nodes /\ Holds(t) /\ ~HasNode(k) /\ k \in used \ live
      /\ id' = [id EXCEPT ![h] = k] /\ bucket' = [bucket EXCEPT ![h] = b]
      /\ UNCHANGED <<next, free, first, len, state, bucketVars>>
  BY <1>1, <1>2 DEF Fill, Bkt, Holds, Knows, AtHand, InsertsOn, Before, Place, bucketVars
<1>7. Local(t, c) /\ IdsOK' /\ PlacesOK'
  <2>1. \A u \in Threads : Holds(u)' = Holds(u) /\ call'[u].idx = call[u].idx
    BY <1>1, <1>2, <1>5 DEF Holds, AtHand, AtFilled
  <2>2. PlacesOK' /\ \A i \in Nodes : InPlace(i)' <=> InPlace(i)
    BY <1>3, <1>6, <2>1 DEF PlacesOK, InPlace, FreeNodes
  <2>3. IdsOK'
    <3>1. used' = used
      BY <1>6 DEF bucketVars, history
    <3>2. ASSUME NEW i \in Nodes, id'[i] # NoId
          PROVE  bucket'[i] = BucketOf[id'[i]] /\ id'[i] \in used'
      BY <1>2, <1>3, <1>6, <3>1, <3>2 DEF IdsOK
    <3>3. ASSUME NEW i \in Nodes, NEW j \in Nodes, id'[i] = id'[j], id'[i] # NoId
          PROVE  i = j
      BY <1>3, <1>6, <3>3 DEF IdsOK, HasNode
    <3> QED
      BY <3>2, <3>3 DEF IdsOK
  <2>4. \A i \in Nodes : i # h => id'[i] = id[i] /\ bucket'[i] = bucket[i]
    BY <1>3, <1>6
  <2>5. /\ id' \in [Nodes -> Ids \cup {NoId}] /\ bucket' \in [Nodes -> Buckets]
        /\ id'[h] = k
    BY <1>2, <1>3, <1>6
  <2> QED
    BY <1>1, <1>2, <1>3, <1>5, <1>6, <2>2, <2>3, <2>4, <2>5 DEF Local, Holds, TookOut, Settled, Treeing, AtTreeify, AtHand, AtFilled, bucketVars, history
<1>8. Knows(t, call[t])'
  <2>1. id'[h] = k
    BY <1>3, <1>6
  <2> QED
    BY <1>1, <1>2, <1>5, <1>6, <2>1 DEF bucketVars, history, Knows, AtTreeify, AtHand, AtFilled, AtHead, AtWalk, AtNext, AtFind, AtTree, Place,
     InsertsOn, Before, Treeing, Settled, Places, ErasesInChain
<1>9. ASSUME b \in Private, NEW s \in Seq(Nodes), Lists(s, b), Walks(call[t], s), KnowsAlone(call[t])
      PROVE  Walks(call[t], s)' /\ KnowsAlone(call[t])'
  <2>8. Walks(call[t], s)'
    BY <1>1, <1>2, <1>3, <1>5, <1>9 DEF Local, Walks, AtTreeify, AtHand, AtFilled, AtHead, AtWalk, AtNext, AtFind, AtTree, Place
  <2>9. KnowsAlone(call[t])'
    BY <1>1, <1>2, <1>5, <1>6, <1>9 DEF Local, KnowsAlone, AtTreeify, AtHand, AtFilled, AtHead, AtWalk, AtNext, AtFind,
         AtTree, AtChain, Place, TookOut, NodesOf, bucketVars, history
  <2> QED
    BY <2>8, <2>9
<1> QED
  BY <1>5, <1>7, <1>8, <1>9, LocalStep

LEMMA LinkStep ==
  ASSUME MapInv, NEW t \in Threads, Link(t)
  PROVE  MapInv'
<1> DEFINE k == call[t].key
           b == Place(call[t])
           h == call[t].idx
<1>1. call[t].at = "link"
  BY DEF Link, At
<1>2. /\ call \in [Threads -> Calls] /\ Knows(t, call[t]) /\ b \in Buckets /\ k \in Ids
      /\ call[t].idx \in Links /\ call[t].nxt \in Links /\ call[t].aft \in Links /\ Null \in Links
      /\ state[b] \in {"chain", "converting", "tree"} /\ OwnerOf[k] = t /\ b = BucketOf[k]
  BY <1>1, CallFacts DEF Links, Place
<1>3. /\ next \in [Nodes -> Links] /\ id \in [Nodes -> Ids \cup {NoId}] /\ free \in Seq(Nodes)
      /\ bucket \in [Nodes -> Buckets] /\ first \in [Buckets -> Links] /\ IdsOK /\ PlacesOK
      /\ Top \in Links
  BY <1>1, CallFacts, FreeFacts DEF MapInv, Links, Top
<1>4. PICK c : Step(t, c, "publish", call[t].idx, call[t].nxt, call[t].aft)
  <2>1. call' = [call EXCEPT ![t].at = "publish"]
    BY <1>1 DEF Link, To, Bkt, Place
  <2>2. "publish" \in Accesses
    BY DEF Accesses, Returned, AtHand, AtFilled, AtHead, AtWalk, AtNext, AtFind, AtTree,
           AtTreeify, AtOther
  <2> QED
    BY <1>2, <1>3, <2>1, <2>2, Steps
<1>5. /\ c \in Calls /\ c.key = k /\ c.at = "publish" /\ Place(c) = b /\ call'[t] = c
      /\ c.idx = call[t].idx /\ c.nxt = call[t].nxt /\ c.aft = call[t].aft /\ call' = [call EXCEPT ![t] = c]
  BY <1>2, <1>4 DEF Step, Place
<1>6. /\ h \in Nodes /\ Holds(t) /\ next' = [next EXCEPT ![h] = call[t].nxt]
      /\ UNCHANGED <<id, bucket, free, first, len, state, bucketVars>>
  BY <1>1, <1>2 DEF Link, Holds, Knows, AtHand, AtFilled, bucketVars
<1>7. Local(t, c) /\ IdsOK' /\ PlacesOK'
  <2>1. \A u \in Threads : Holds(u)' = Holds(u) /\ call'[u].idx = call[u].idx
    BY <1>1, <1>2, <1>5 DEF Holds, AtHand, AtFilled
  <2>2. PlacesOK' /\ \A i \in Nodes : InPlace(i)' <=> InPlace(i)
    BY <1>3, <1>6, <2>1 DEF PlacesOK, InPlace, FreeNodes
  <2>3. \A i \in Nodes : i # h => next'[i] = next[i]
    BY <1>3, <1>6
  <2> QED
    BY <1>1, <1>2, <1>3, <1>5, <1>6, <2>2, <2>3 DEF IdsOK, Local, Holds, TookOut, Settled, Treeing, AtTreeify, AtHand, AtFilled, bucketVars, history
<1>8. Knows(t, call[t])'
  BY <1>1, <1>2, <1>5, <1>6 DEF bucketVars, history, Knows, AtTreeify, AtHand, AtFilled, AtHead, AtWalk, AtNext, AtFind, AtTree, Place,
     InsertsOn, Before, Treeing, Settled, Places, ErasesInChain
<1>9. ASSUME b \in Private, NEW s \in Seq(Nodes), Lists(s, b), Walks(call[t], s), KnowsAlone(call[t])
      PROVE  Walks(call[t], s)' /\ KnowsAlone(call[t])'
  <2>1. next'[h] = call[t].nxt /\ call[t].nxt = Follow(s, 0)
    BY <1>1, <1>3, <1>6, <1>9 DEF Walks
  <2>8. Walks(call[t], s)'
    BY <1>1, <1>2, <1>3, <1>5, <1>9, <2>1 DEF Local, Walks, AtTreeify, AtHand, AtFilled, AtHead, AtWalk, AtNext, AtFind, AtTree, Place, Follow
  <2>9. KnowsAlone(call[t])'
    BY <1>1, <1>2, <1>5, <1>6, <1>9 DEF Local, KnowsAlone, AtTreeify, AtHand, AtFilled, AtHead, AtWalk, AtNext, AtFind,
         AtTree, AtChain, Place, TookOut, NodesOf, bucketVars, history
  <2> QED
    BY <2>8, <2>9
<1> QED
  BY <1>5, <1>7, <1>8, <1>9, LocalStep

LEMMA GiveBackStep ==
  ASSUME MapInv, NEW t \in Threads, GiveBack(t)
  PROVE  MapInv'
<1> DEFINE k == call[t].key
           b == Place(call[t])
           h == call[t].idx
<1>1. call[t].at = "giveBack"
  BY DEF GiveBack, At
<1>2. /\ call \in [Threads -> Calls] /\ Knows(t, call[t]) /\ b \in Buckets /\ k \in Ids
      /\ call[t].idx \in Links /\ call[t].nxt \in Links /\ call[t].aft \in Links /\ Null \in Links
      /\ state[b] \in {"chain", "converting", "tree"} /\ OwnerOf[k] = t /\ b = BucketOf[k]
  BY <1>1, CallFacts DEF Links, Place
<1>3. /\ next \in [Nodes -> Links] /\ id \in [Nodes -> Ids \cup {NoId}] /\ free \in Seq(Nodes)
      /\ bucket \in [Nodes -> Buckets] /\ first \in [Buckets -> Links] /\ IdsOK /\ PlacesOK
      /\ Top \in Links
  BY <1>1, CallFacts, FreeFacts DEF MapInv, Links, Top
<1>4. PICK c : Step(t, c, "treeAdd", Null, Null, Null)
  <2>1. call' = [call EXCEPT ![t] = [Idle EXCEPT !.at = "treeAdd", !.key = call[t].key]]
    BY <1>1 DEF GiveBack, Again, Bkt, Place
  <2>2. "treeAdd" \in Accesses
    BY DEF Accesses, Returned, AtHand, AtFilled, AtHead, AtWalk, AtNext, AtFind, AtTree,
           AtTreeify, AtOther
  <2> QED
    BY <1>2, <1>3, <2>1, <2>2, Steps
<1>5. /\ c \in Calls /\ c.key = k /\ c.at = "treeAdd" /\ Place(c) = b /\ call'[t] = c
      /\ c.idx = Null /\ c.nxt = Null /\ c.aft = Null /\ call' = [call EXCEPT ![t] = c]
  BY <1>2, <1>4 DEF Step, Place
<1>6. /\ h \in Nodes /\ Holds(t) /\ next' = [next EXCEPT ![h] = Top] /\ free' = <<h>> \o free
      /\ UNCHANGED <<id, bucket, first, len, state, bucketVars>>
  BY <1>1, <1>2 DEF GiveBack, FreeNode, Holds, Knows, AtHand, AtFilled, bucketVars
<1>7. Local(t, c) /\ IdsOK' /\ PlacesOK'
  <2>1. /\ free' \in Seq(Nodes) /\ PlacesOK' /\ \A i \in Nodes : InPlace(i)' <=> InPlace(i)
    BY <1>5, <1>6, GivesNode DEF AtHand, AtFilled
  <2>2. \A i \in Nodes : i # h => next'[i] = next[i]
    BY <1>3, <1>6
  <2> QED
    BY <1>1, <1>2, <1>3, <1>5, <1>6, <2>1, <2>2 DEF IdsOK, Local, Holds, TookOut, Settled, Treeing, AtTreeify, AtHand, AtFilled, bucketVars, history
<1>8. Knows(t, call[t])'
  BY <1>1, <1>2, <1>5, <1>6 DEF bucketVars, history, Knows, AtTreeify, AtHand, AtFilled, AtHead, AtWalk, AtNext, AtFind, AtTree, Place,
     InsertsOn, Before, Treeing, Settled, Places, ErasesInChain
<1>9. ASSUME b \in Private, NEW s \in Seq(Nodes), Lists(s, b), Walks(call[t], s), KnowsAlone(call[t])
      PROVE  Walks(call[t], s)' /\ KnowsAlone(call[t])'
  <2>8. Walks(call[t], s)'
    BY <1>1, <1>2, <1>3, <1>5, <1>9 DEF Local, Walks, AtTreeify, AtHand, AtFilled, AtHead, AtWalk, AtNext, AtFind, AtTree, Place
  <2>9. KnowsAlone(call[t])'
    BY <1>1, <1>2, <1>5, <1>6, <1>9 DEF Local, KnowsAlone, AtTreeify, AtHand, AtFilled, AtHead, AtWalk, AtNext, AtFind,
         AtTree, AtChain, Place, TookOut, NodesOf, bucketVars, history
  <2> QED
    BY <2>8, <2>9
<1> QED
  BY <1>5, <1>7, <1>8, <1>9, LocalStep

LEMMA FreeErasedStep ==
  ASSUME MapInv, NEW t \in Threads, FreeErased(t)
  PROVE  MapInv'
<1> DEFINE k == call[t].key
           b == Place(call[t])
           h == call[t].idx
<1>1. call[t].at = "free"
  BY DEF FreeErased, At
<1>2. /\ call \in [Threads -> Calls] /\ Knows(t, call[t]) /\ b \in Buckets /\ k \in Ids
      /\ call[t].idx \in Links /\ call[t].nxt \in Links /\ call[t].aft \in Links /\ Null \in Links
      /\ state[b] \in {"chain", "converting", "tree"} /\ OwnerOf[k] = t /\ b = BucketOf[k]
  BY <1>1, CallFacts DEF Links, Place
<1>3. /\ next \in [Nodes -> Links] /\ id \in [Nodes -> Ids \cup {NoId}] /\ free \in Seq(Nodes)
      /\ bucket \in [Nodes -> Buckets] /\ first \in [Buckets -> Links] /\ IdsOK /\ PlacesOK
      /\ Top \in Links
  BY <1>1, CallFacts, FreeFacts DEF MapInv, Links, Top
<1>4. PICK c : Step(t, c, "uncount", Null, Null, Null)
  <2>1. call' = [call EXCEPT ![t] = [Idle EXCEPT !.at = "uncount", !.key = call[t].key]]
    BY <1>1 DEF FreeErased, Again, Bkt, Place
  <2>2. "uncount" \in Accesses
    BY DEF Accesses, Returned, AtHand, AtFilled, AtHead, AtWalk, AtNext, AtFind, AtTree,
           AtTreeify, AtOther
  <2> QED
    BY <1>2, <1>3, <2>1, <2>2, Steps
<1>5. /\ c \in Calls /\ c.key = k /\ c.at = "uncount" /\ Place(c) = b /\ call'[t] = c
      /\ c.idx = Null /\ c.nxt = Null /\ c.aft = Null /\ call' = [call EXCEPT ![t] = c]
  BY <1>2, <1>4 DEF Step, Place
<1>6. /\ h \in Nodes /\ Holds(t) /\ next' = [next EXCEPT ![h] = Top] /\ free' = <<h>> \o free
      /\ UNCHANGED <<id, bucket, first, len, state, bucketVars>>
  BY <1>1, <1>2 DEF FreeErased, FreeNode, Holds, Knows, AtHand, AtFilled, bucketVars
<1>7. Local(t, c) /\ IdsOK' /\ PlacesOK'
  <2>1. /\ free' \in Seq(Nodes) /\ PlacesOK' /\ \A i \in Nodes : InPlace(i)' <=> InPlace(i)
    BY <1>5, <1>6, GivesNode DEF AtHand, AtFilled
  <2>2. \A i \in Nodes : i # h => next'[i] = next[i]
    BY <1>3, <1>6
  <2> QED
    BY <1>1, <1>2, <1>3, <1>5, <1>6, <2>1, <2>2 DEF IdsOK, Local, Holds, TookOut, Settled, Treeing, AtTreeify, AtHand, AtFilled, bucketVars, history
<1>8. Knows(t, call[t])'
  BY <1>1, <1>2, <1>5, <1>6 DEF bucketVars, history, Knows, AtTreeify, AtHand, AtFilled, AtHead, AtWalk, AtNext, AtFind, AtTree, Place,
     InsertsOn, Before, Treeing, Settled, Places, ErasesInChain
<1>9. ASSUME b \in Private, NEW s \in Seq(Nodes), Lists(s, b), Walks(call[t], s), KnowsAlone(call[t])
      PROVE  Walks(call[t], s)' /\ KnowsAlone(call[t])'
  <2>8. Walks(call[t], s)'
    BY <1>1, <1>2, <1>3, <1>5, <1>9 DEF Local, Walks, AtTreeify, AtHand, AtFilled, AtHead, AtWalk, AtNext, AtFind, AtTree, Place
  <2>9. KnowsAlone(call[t])'
    <3>1. state[b] = "chain" /\ \A i \in NodesOf(b) : id[i] # k
      BY <1>1, <1>9 DEF KnowsAlone, TookOut, AtChain, AtHand, AtFilled
    <3>2. \A i \in NodesOf(b)' : id'[i] # k
      BY <1>2, <1>5, <1>6, <1>7, <3>1 DEF Local, NodesOf, Place
    <3> QED
      BY <1>2, <1>5, <1>6, <3>1, <3>2 DEF KnowsAlone, TookOut, AtTreeify
  <2> QED
    BY <2>8, <2>9
<1> QED
  BY <1>5, <1>7, <1>8, <1>9, LocalStep

\* A step that changes the state of the call's bucket or overflow_, and no node.
Still(t, c) ==
  /\ call' = [call EXCEPT ![t] = c] /\ c \in Calls
  /\ call[t].at # "idle" /\ c.at # "idle" /\ c.key = call[t].key
  /\ ~Holds(t) /\ c.at \notin AtHand
  /\ UNCHANGED <<nodeVars, first, len, history>>
  /\ state' \in [Buckets -> {"chain", "converting", "tree"}]
  /\ \A b \in Buckets : b # Place(c) => state'[b] = state[b]
  /\ \/ state'[Place(c)] = state[Place(c)] /\ ~(c.at \in AtTreeify /\ ~Converts(t, Place(c)))
     \/ state[Place(c)] = "chain" /\ state'[Place(c)] = "converting"
     \/ call[t].at = "copy" /\ state'[Place(c)] = "tree"
  /\ \A k \in overflow : k \in Ids /\ k # call[t].key => k \in overflow'
  /\ call[t].key \in live => TookOut(c) \/ state'[Place(c)] # "chain"

LEMMA StillStep ==
  ASSUME MapInv, NEW t \in Threads, NEW c, Still(t, c), Knows(t, call[t])',
         Place(c) \in Private =>
           \A s \in Seq(Nodes) :
             Lists(s, Place(c)) /\ Walks(call[t], s) /\ KnowsAlone(call[t]) =>
               Walks(call[t], s)' /\ KnowsAlone(call[t])' /\ PrivateOK(Place(c))'
  PROVE  MapInv'
<1> USE DEF history, nodeVars
<1>1. /\ call[t].key \in Ids /\ Place(c) \in Buckets /\ Place(call[t]) = Place(c)
      /\ OwnerOf[call[t].key] = t
      /\ call'[t] = c /\ call \in [Threads -> Calls] /\ MapTypeOK
  BY CallFacts DEF Still, Place, MapInv, MapTypeOK
<1>2. MapTypeOK'
  BY <1>1 DEF MapTypeOK, Still
<1>3. \A u \in Threads \ {t} : call'[u] = call[u] /\ (Holds(u)' <=> Holds(u))
  BY <1>1 DEF Still, Holds
<1>4. ~Holds(t) /\ ~Holds(t)'
  BY <1>1 DEF Still, Holds
<1>5. \A i \in Nodes : InPlace(i)' <=> InPlace(i)
  BY <1>3, <1>4 DEF InPlace, Still, FreeNodes
<1>6. Spares(t)
  BY <1>1, <1>3, <1>5 DEF Spares, Still
<1>7. IdsOK' /\ PlacesOK'
  BY <1>3, <1>4 DEF MapInv, IdsOK, PlacesOK, Still, FreeNodes
<1>8. \A u \in Threads \ {t}, b \in Buckets :
        Converts(u, b) => state'[b] = state[b] /\ ~Converts(t, b)'
  <2> SUFFICES ASSUME NEW u \in Threads \ {t}, NEW b \in Buckets, Converts(u, b)
               PROVE  state'[b] = state[b] /\ ~Converts(t, b)'
    OBVIOUS
  <2>1. state[b] = "converting" /\ ~Converts(t, b)
    <3>1. Knows(u, call[u])
      BY DEF MapInv
    <3> QED
      BY <3>1 DEF Converts, Knows, MapInv, ConvertsOK
  <2>2. call[t].at = "copy" => Converts(t, Place(c))
    BY <1>1 DEF Converts, AtTreeify
  <2> QED
    BY <1>1, <2>1, <2>2 DEF Still, Converts, Place
<1>9. \A k \in Ids : k = call[t].key /\ In(k)' /\ state'[BucketOf[k]] = "chain" => OnlyInPlace(k)'
  BY <1>1 DEF Still, In, OnCall, Place
<1>10. \A b, i : i \in NodesOf(b)' <=> i \in NodesOf(b)
  BY <1>5 DEF NodesOf, Still
<1>11. ASSUME NEW b \in Private, b # Place(c)
       PROVE  SparesBucket(t, b)
  <2>1. ~On(t, b) /\ ~On(t, b)'
    BY <1>1, <1>11 DEF On, Still, Place
  <2>2. b \in Buckets /\ \A k \in overflow : k \in Ids /\ BucketOf[k] = b => k \in overflow'
    BY <1>1, <1>11 DEF Still, Place, Private
  <2> QED
    BY <1>10, <1>11, <2>1, <2>2 DEF SparesBucket, Still
<1>12. ASSUME NEW b \in Private, b = Place(c)
       PROVE  PrivateOK(b)' /\ ChainOK(b)'
  <2>1. PICK s \in Seq(Nodes) : Lists(s, b) /\ Walks(call[t], s) /\ KnowsAlone(call[t])
    BY <1>1, <1>6, <1>12, OwnBucket DEF Still
  <2>2. Lists(s, b)'
    BY <1>1, <1>10, <1>12, <2>1, SameNodes DEF Still
  <2>3. \A u \in Threads : On(u, b)' => u = t
    BY <1>1, <1>6, <1>12, OwnBucket DEF Still
  <2>4. Walks(call[t], s)' /\ KnowsAlone(call[t])' /\ PrivateOK(b)'
    BY <1>12, <2>1
  <2> QED
    BY <2>2, <2>3, <2>4, ChainAfter
<1> QED
  BY <1>2, <1>6, <1>7, <1>8, <1>9, <1>11, <1>12, OneMoves

\* What a still step leaves of a private bucket.
LEMMA StillFacts ==
  ASSUME MapInv, NEW t \in Threads, NEW c, Still(t, c)
  PROVE  /\ call'[t] = c /\ call[t].key \in Ids /\ OwnerOf[call[t].key] = t
         /\ Place(c) = Place(call[t]) /\ Place(c) \in Buckets
         /\ \A i \in Nodes : id'[i] = id[i] /\ (InPlace(i)' <=> InPlace(i))
         /\ \A i, b : i \in NodesOf(b)' <=> i \in NodesOf(b)
         /\ \A k \in Ids : k # call[t].key =>
              (In(k)' <=> In(k)) /\ (Inserting(k)' <=> Inserting(k)) /\ (Known(k)' <=> Known(k))
<1> USE DEF history, nodeVars
<1>1. /\ call[t].key \in Ids /\ Place(c) \in Buckets /\ Place(call[t]) = Place(c)
      /\ OwnerOf[call[t].key] = t
      /\ call'[t] = c /\ call \in [Threads -> Calls]
  BY CallFacts DEF Still, Place, MapInv, MapTypeOK
<1>3. \A u \in Threads \ {t} : call'[u] = call[u] /\ (Holds(u)' <=> Holds(u))
  BY <1>1 DEF Still, Holds
<1>4. ~Holds(t) /\ ~Holds(t)'
  BY <1>1 DEF Still, Holds
<1>5. \A i \in Nodes : InPlace(i)' <=> InPlace(i)
  BY <1>3, <1>4 DEF InPlace, Still, FreeNodes
<1>6. Spares(t)
  BY <1>1, <1>3, <1>5 DEF Spares, Still
<1>7. \A i, b : i \in NodesOf(b)' <=> i \in NodesOf(b)
  BY <1>5 DEF NodesOf, Still
<1> QED
  BY <1>1, <1>5, <1>6, <1>7, OtherIds DEF Still

LEMMA ClaimStep ==
  ASSUME MapInv, NEW t \in Threads, Claim(t), state[Bkt(t)] = "chain"
  PROVE  MapInv'
<1> DEFINE k == call[t].key
           b == Place(call[t])
           h == call[t].idx
<1>1. call[t].at = "claim"
  BY DEF Claim, At
<1>2. /\ call \in [Threads -> Calls] /\ Knows(t, call[t]) /\ b \in Buckets /\ k \in Ids
      /\ call[t].idx \in Links /\ call[t].nxt \in Links /\ call[t].aft \in Links /\ Null \in Links
      /\ state[b] \in {"chain", "converting", "tree"} /\ OwnerOf[k] = t /\ b = BucketOf[k]
  BY <1>1, CallFacts DEF Links, Place
<1>3. /\ next \in [Nodes -> Links] /\ id \in [Nodes -> Ids \cup {NoId}] /\ free \in Seq(Nodes)
      /\ bucket \in [Nodes -> Buckets] /\ first \in [Buckets -> Links] /\ IdsOK /\ PlacesOK
      /\ Top \in Links
  BY <1>1, CallFacts, FreeFacts DEF MapInv, Links, Top
<1>4. PICK c : Step(t, c, "lock", call[t].idx, call[t].nxt, call[t].aft)
  <2>1. call' = [call EXCEPT ![t].at = "lock"]
    BY <1>1 DEF Claim, To, Bkt, Place
  <2>2. "lock" \in Accesses
    BY DEF Accesses, Returned, AtHand, AtFilled, AtHead, AtWalk, AtNext, AtFind, AtTree,
           AtTreeify, AtOther
  <2> QED
    BY <1>2, <1>3, <2>1, <2>2, Steps
<1>5. /\ c \in Calls /\ c.key = k /\ c.at = "lock" /\ Place(c) = b /\ call'[t] = c
      /\ c.idx = call[t].idx /\ c.nxt = call[t].nxt /\ c.aft = call[t].aft /\ call' = [call EXCEPT ![t] = c]
  BY <1>2, <1>4 DEF Step, Place
<1>6. /\ state' = [state EXCEPT ![b] = "converting"] /\ UNCHANGED overflow
      /\ UNCHANGED <<nodeVars, first, len, history>>
  BY <1>1, <1>2 DEF Claim, Bkt, Place, history
<1>10. state[b] = "chain" /\ state'[b] = "converting" /\ \A x \in Buckets : x # b => state'[x] = state[x]
  BY <1>2, <1>6, CallFacts, <1>1 DEF Bkt, Place, MapInv, MapTypeOK
<1>7. Still(t, c)
  <2>1. state' \in [Buckets -> {"chain", "converting", "tree"}]
    BY <1>6 DEF MapInv, MapTypeOK
  <2> QED
    BY <1>1, <1>5, <1>6, <1>10, <2>1 DEF Still, Holds, AtHand, AtFilled
<1>8. Knows(t, call[t])'
  BY <1>1, <1>2, <1>3, <1>5, <1>6, <1>10 DEF history, nodeVars, HasNode, Knows, AtTreeify, AtHand, AtFilled, AtHead, AtWalk, AtNext, AtFind, AtTree, Place,
     InsertsOn, Before, Treeing, Settled, Places, ErasesInChain
<1>9. ASSUME Place(c) \in Private, NEW s \in Seq(Nodes), Lists(s, Place(c)),
             Walks(call[t], s), KnowsAlone(call[t])
      PROVE  Walks(call[t], s)' /\ KnowsAlone(call[t])' /\ PrivateOK(Place(c))'
  <2>1. PrivateOK(Place(c))
    BY <1>9 DEF MapInv
  <2>2. \A i \in Ids : i = k => OnCall(i)' /\ OnCall(i)
    BY <1>2, <1>5 DEF OnCall
  <2>7. Walks(call[t], s)'
    BY <1>1, <1>5, <1>9 DEF Walks, AtTreeify, AtHand, AtFilled, AtHead, AtWalk, AtNext, AtFind, AtTree
  <2>8. KnowsAlone(call[t])'
    BY <1>1, <1>2, <1>5, <1>6, <1>9, <1>10 DEF KnowsAlone, AtTreeify, AtHand, AtFilled, AtHead, AtWalk, AtNext,
         AtFind, AtTree, AtChain, Place, TookOut
  <2>9. PrivateOK(Place(c))'
    <3>1. \A i \in Ids : (In(i)' => In(i)) /\ (Inserting(i)' <=> Inserting(i)) /\ (Known(i) => Known(i)')
      <4>1. \A i \in Ids : i = k => (In(i)' => In(i))
        BY <1>1, <1>2, <1>5, <1>6 DEF In, OnCall, TookOut, history
      <4>2. \A i \in Ids : i = k => (Inserting(i)' <=> Inserting(i))
        <5>1. Settled(c) <=> Settled(call[t])
          BY <1>1, <1>5 DEF Settled, Treeing, AtTreeify
        <5> QED
          BY <1>2, <1>5, <5>1 DEF Inserting, OnCall
      <4>3. \A i \in Ids : i = k => (Known(i) => Known(i)')
        BY <1>2, <1>6, <4>2 DEF Known, history
      <4> QED
        BY <1>7, <4>1, <4>2, <4>3, StillFacts
    <3>2. \A i \in Ids : BucketOf[i] = Place(c) /\ Present(i) => Present(i)'
      BY <1>5, <1>7, <1>10, StillFacts DEF Present
    <3>3. ASSUME NEW i \in NodesOf(Place(c))' PROVE Known(id[i])'
      <4>1. i \in NodesOf(Place(c)) /\ i \in Nodes /\ id'[i] = id[i] /\ Known(id[i])
        <5>1. i \in NodesOf(Place(c))
          BY <1>7, <3>3, StillFacts
        <5>2. i \in Nodes /\ id'[i] = id[i]
          BY <1>7, <5>1, StillFacts DEF NodesOf
        <5> QED
          BY <1>5, <1>10, <2>1, <5>1, <5>2 DEF PrivateOK
      <4>2. PICK l \in Ids : l = id[i] /\ Known(l)
        BY <4>1 DEF Known
      <4>3. Known(l)'
        BY <3>1, <4>2
      <4> QED
        BY <4>1, <4>2, <4>3 DEF Known, Inserting, OnCall
    <3>4. call'[t].at \in AtTreeify /\ Place(call[t])' = Place(c)
      BY <1>5 DEF AtTreeify, Place
    <3> QED
      BY <2>1, <3>1, <3>2, <3>3, <3>4 DEF PrivateOK
  <2> QED
    BY <2>7, <2>8, <2>9
<1> QED
  BY <1>5, <1>7, <1>8, <1>9, StillStep

LEMMA CopyStep ==
  ASSUME MapInv, NEW t \in Threads, Copy(t)
  PROVE  MapInv'
<1> DEFINE k == call[t].key
           b == Place(call[t])
           h == call[t].idx
<1>1. call[t].at = "copy"
  BY DEF Copy, At
<1>2. /\ call \in [Threads -> Calls] /\ Knows(t, call[t]) /\ b \in Buckets /\ k \in Ids
      /\ call[t].idx \in Links /\ call[t].nxt \in Links /\ call[t].aft \in Links /\ Null \in Links
      /\ state[b] \in {"chain", "converting", "tree"} /\ OwnerOf[k] = t /\ b = BucketOf[k]
  BY <1>1, CallFacts DEF Links, Place
<1>3. /\ next \in [Nodes -> Links] /\ id \in [Nodes -> Ids \cup {NoId}] /\ free \in Seq(Nodes)
      /\ bucket \in [Nodes -> Buckets] /\ first \in [Buckets -> Links] /\ IdsOK /\ PlacesOK
      /\ Top \in Links
  BY <1>1, CallFacts, FreeFacts DEF MapInv, Links, Top
<1>4. PICK c : Step(t, c, "copy", call[t].idx, next[call[t].nxt], call[t].aft)
  <2>1. call' = [call EXCEPT ![t].nxt = next[call[t].nxt], ![t].at = "copy"]
    BY <1>1, <1>2 DEF Copy
  <2>2. "copy" \in Accesses
    BY DEF Accesses, Returned, AtHand, AtFilled, AtHead, AtWalk, AtNext, AtFind, AtTree,
           AtTreeify, AtOther
  <2>3. next[call[t].nxt] \in Links
    BY <1>2, <1>3 DEF Copy, Links
  <2> QED
    BY <1>2, <1>3, <2>1, <2>2, <2>3, Steps
<1>5. /\ c \in Calls /\ c.key = k /\ c.at = "copy" /\ Place(c) = b /\ call'[t] = c
      /\ c.idx = call[t].idx /\ c.nxt = next[call[t].nxt] /\ c.aft = call[t].aft /\ call' = [call EXCEPT ![t] = c]
  BY <1>2, <1>4 DEF Step, Place
<1>6. /\ overflow' = overflow \cup {id[call[t].nxt]} /\ call[t].nxt # Null
      /\ UNCHANGED <<nodeVars, first, len, state, history>>
  BY DEF Copy, history
<1>10. state[b] = "converting"
  BY <1>1, <1>2 DEF Knows, AtTreeify
<1>7. Still(t, c)
  BY <1>1, <1>2, <1>3, <1>5, <1>6, <1>10, CallFacts DEF Still, Converts, Holds, TookOut, AtTreeify, AtHand, AtFilled, Bkt, Place
<1>8. Knows(t, call[t])'
  BY <1>1, <1>2, <1>3, <1>5, <1>6, <1>10 DEF history, nodeVars, HasNode, Knows, AtTreeify, AtHand, AtFilled, AtHead, AtWalk, AtNext, AtFind, AtTree, Place,
     InsertsOn, Before, Treeing, Settled, Places, ErasesInChain
<1>9. ASSUME Place(c) \in Private, NEW s \in Seq(Nodes), Lists(s, Place(c)),
             Walks(call[t], s), KnowsAlone(call[t])
      PROVE  Walks(call[t], s)' /\ KnowsAlone(call[t])' /\ PrivateOK(Place(c))'
  <2>1. PrivateOK(Place(c))
    BY <1>9 DEF MapInv
  <2>2. \A i \in Ids : i = k => OnCall(i)' /\ OnCall(i)
    BY <1>2, <1>5 DEF OnCall
  <2>3. PICK p \in 0..Len(s) : Copied(call[t], s, p)
    BY <1>1, <1>9 DEF Walks
  <2>4. Walks(call[t], s)'
    <3>1. p + 1 \in DOMAIN s /\ call[t].nxt = s[p + 1] /\ s[p + 1] \in Nodes
      BY <1>6, <2>3 DEF Copied, Follow
    <3>2. next[s[p + 1]] = Follow(s, p + 1)
      BY <1>9, <3>1 DEF Lists
    <3>3. Copied(call[t], s, p + 1)'
      <4>1. \A q \in 1..(p + 1) : id[s[q]] \in overflow'
        BY <1>6, <2>3, <3>1 DEF Copied
      <4> QED
        BY <1>5, <1>6, <3>1, <3>2, <4>1 DEF Copied, Follow, nodeVars
    <3> QED
      BY <1>5, <3>1, <3>3 DEF Walks, AtTreeify, AtHand, AtFilled, AtHead, AtWalk, AtNext, AtFind, AtTree
  <2>7. Walks(call[t], s)'
    BY <2>4
  <2>8. KnowsAlone(call[t])'
    BY <1>1, <1>2, <1>5, <1>6, <1>9, <1>10 DEF KnowsAlone, AtTreeify, AtHand, AtFilled, AtHead, AtWalk, AtNext,
         AtFind, AtTree, AtChain, Place, TookOut
  <2>9. PrivateOK(Place(c))'
    <3>1. \A i \in Ids : (In(i)' => In(i)) /\ (Inserting(i)' <=> Inserting(i)) /\ (Known(i) => Known(i)')
      <4>1. \A i \in Ids : i = k => (In(i)' => In(i)) /\ (Inserting(i)' <=> Inserting(i)) /\ (Known(i) => Known(i)')
        BY <1>1, <1>2, <1>5, <1>6 DEF In, Inserting, Known, OnCall, TookOut, Settled, Treeing, AtTreeify, history
      <4> QED
        BY <1>7, <4>1, StillFacts
    <3>2. \A i \in Ids : BucketOf[i] = Place(c) /\ Present(i) => Present(i)'
      BY <1>5, <1>7, <1>10, <2>1, <1>6, StillFacts DEF Present
    <3>3. ASSUME NEW i \in NodesOf(Place(c))' PROVE Known(id[i])'
      <4>1. i \in NodesOf(Place(c)) /\ i \in Nodes /\ id'[i] = id[i] /\ Known(id[i])
        <5>1. i \in NodesOf(Place(c))
          BY <1>7, <3>3, StillFacts
        <5>2. i \in Nodes /\ id'[i] = id[i]
          BY <1>7, <5>1, StillFacts DEF NodesOf
        <5> QED
          BY <1>5, <1>10, <2>1, <5>1, <5>2 DEF PrivateOK
      <4>2. PICK l \in Ids : l = id[i] /\ Known(l)
        BY <4>1 DEF Known
      <4>3. Known(l)'
        BY <3>1, <4>2
      <4> QED
        BY <4>1, <4>2, <4>3 DEF Known, Inserting, OnCall
    <3>4. call'[t].at \in AtTreeify /\ Place(call[t])' = Place(c)
      BY <1>5 DEF AtTreeify, Place
    <3> QED
      BY <2>1, <3>1, <3>2, <3>3, <3>4 DEF PrivateOK
  <2> QED
    BY <2>7, <2>8, <2>9
<1> QED
  BY <1>5, <1>7, <1>8, <1>9, StillStep

LEMMA CopyEndsStep ==
  ASSUME MapInv, NEW t \in Threads, CopyEnds(t)
  PROVE  MapInv'
<1> DEFINE k == call[t].key
           b == Place(call[t])
           h == call[t].idx
<1>1. call[t].at = "copy"
  BY DEF CopyEnds, At
<1>2. /\ call \in [Threads -> Calls] /\ Knows(t, call[t]) /\ b \in Buckets /\ k \in Ids
      /\ call[t].idx \in Links /\ call[t].nxt \in Links /\ call[t].aft \in Links /\ Null \in Links
      /\ state[b] \in {"chain", "converting", "tree"} /\ OwnerOf[k] = t /\ b = BucketOf[k]
  BY <1>1, CallFacts DEF Links, Place
<1>3. /\ next \in [Nodes -> Links] /\ id \in [Nodes -> Ids \cup {NoId}] /\ free \in Seq(Nodes)
      /\ bucket \in [Nodes -> Buckets] /\ first \in [Buckets -> Links] /\ IdsOK /\ PlacesOK
      /\ Top \in Links
  BY <1>1, CallFacts, FreeFacts DEF MapInv, Links, Top
<1>4. PICK c : Step(t, c, AfterTreeify(t), call[t].idx, call[t].nxt, call[t].aft)
  <2>1. call' = [call EXCEPT ![t].at = AfterTreeify(t)]
    BY <1>1 DEF CopyEnds, To, Bkt, Place
  <2>2. AfterTreeify(t) \in Accesses
    BY DEF AfterTreeify, Accesses, Returned, AtHand, AtFilled, AtHead, AtWalk, AtNext, AtFind, AtTree,
           AtTreeify, AtOther
  <2> QED
    BY <1>2, <1>3, <2>1, <2>2, Steps
<1>5. /\ c \in Calls /\ c.key = k /\ c.at = AfterTreeify(t) /\ Place(c) = b /\ call'[t] = c
      /\ c.idx = call[t].idx /\ c.nxt = call[t].nxt /\ c.aft = call[t].aft /\ call' = [call EXCEPT ![t] = c]
  BY <1>2, <1>4 DEF Step, Place
<1>6. /\ state' = [state EXCEPT ![b] = "tree"] /\ UNCHANGED overflow /\ call[t].nxt = Null
      /\ UNCHANGED <<nodeVars, first, len, history>>
  BY DEF CopyEnds, Bkt, Place, history
<1>10. state[b] = "converting" /\ state'[b] = "tree" /\ \A x \in Buckets : x # b => state'[x] = state[x]
  BY <1>1, <1>2, <1>6, CallFacts DEF Knows, AtTreeify, MapInv, MapTypeOK
<1>11. c.at \in {"treeAdd", "inserted"} /\ (c.at = "treeAdd" <=> call[t].idx = Null)
  BY <1>5 DEF AfterTreeify
<1>7. Still(t, c)
  <2>1. state' \in [Buckets -> {"chain", "converting", "tree"}]
    BY <1>6 DEF MapInv, MapTypeOK
  <2> QED
    BY <1>1, <1>2, <1>3, <1>5, <1>6, <1>10, <1>11, <2>1 DEF Still, Converts, Holds, TookOut, AtTreeify, AtHand, AtFilled, Place
<1>8. Knows(t, call[t])'
  BY <1>1, <1>2, <1>3, <1>5, <1>6, <1>10, <1>11 DEF history, nodeVars, HasNode, Knows, AtTreeify, AtHand, AtFilled, AtHead, AtWalk, AtNext, AtFind, AtTree, Place,
     InsertsOn, Before, Treeing, Settled, Places, ErasesInChain
<1>9. ASSUME Place(c) \in Private, NEW s \in Seq(Nodes), Lists(s, Place(c)),
             Walks(call[t], s), KnowsAlone(call[t])
      PROVE  Walks(call[t], s)' /\ KnowsAlone(call[t])' /\ PrivateOK(Place(c))'
  <2>1. PrivateOK(Place(c))
    BY <1>9 DEF MapInv
  <2>2. \A i \in Ids : i = k => OnCall(i)' /\ OnCall(i)
    BY <1>2, <1>5 DEF OnCall
  <2>7. Walks(call[t], s)'
    BY <1>1, <1>5, <1>9, <1>11 DEF Walks, AtTreeify, AtHand, AtFilled, AtHead, AtWalk, AtNext, AtFind, AtTree
  <2>8. KnowsAlone(call[t])'
    BY <1>1, <1>2, <1>5, <1>6, <1>9, <1>10, <1>11 DEF KnowsAlone, AtTreeify, AtHand, AtFilled, AtHead, AtWalk, AtNext,
         AtFind, AtTree, AtChain, Place, TookOut
  <2>9. PrivateOK(Place(c))'
    <3>1. \A i \in Ids : (In(i)' => In(i)) /\ (Inserting(i)' <=> Inserting(i))
      <4>1. \A i \in Ids : i = k => (In(i)' => In(i)) /\ (Inserting(i)' <=> Inserting(i))
        BY <1>1, <1>2, <1>5, <1>6, <1>11 DEF In, Inserting, OnCall, TookOut, Settled, Treeing, AtTreeify, history
      <4> QED
        BY <1>7, <4>1, StillFacts
    <3>2. PICK p \in 0..Len(s) : Copied(call[t], s, p)
      BY <1>1, <1>9 DEF Walks
    <3>3. \A q \in DOMAIN s : id[s[q]] \in overflow
      <4>1. \A q \in DOMAIN s : s[q] \in Nodes
        BY <1>9
      <4>2. p = Len(s)
        BY <1>6, <3>2, <4>1, MapFacts DEF Copied, Follow
      <4> QED
        BY <3>2, <4>2 DEF Copied
    <3>4. ASSUME NEW i \in Ids, BucketOf[i] = Place(c), Present(i) PROVE Present(i)'
      <4>1. PICK n \in Nodes : id[n] = i /\ InPlace(n)
        BY <1>5, <1>10, <3>4 DEF Present
      <4>2. n \in NodesOf(Place(c))
        BY <1>3, <3>4, <4>1, MapFacts DEF IdsOK, NodesOf
      <4> QED
        BY <1>5, <1>6, <1>9, <1>10, <3>3, <3>4, <4>1, <4>2 DEF Present, Lists
    <3> QED
      BY <1>5, <1>10, <2>1, <3>1, <3>4 DEF PrivateOK
  <2> QED
    BY <2>7, <2>8, <2>9
<1> QED
  BY <1>5, <1>7, <1>8, <1>9, StillStep

LEMMA TreeAddStep ==
  ASSUME MapInv, NEW t \in Threads, TreeAdd(t)
  PROVE  MapInv'
<1> DEFINE k == call[t].key
           b == Place(call[t])
           h == call[t].idx
<1>1. call[t].at = "treeAdd"
  BY DEF TreeAdd, At
<1>2. /\ call \in [Threads -> Calls] /\ Knows(t, call[t]) /\ b \in Buckets /\ k \in Ids
      /\ call[t].idx \in Links /\ call[t].nxt \in Links /\ call[t].aft \in Links /\ Null \in Links
      /\ state[b] \in {"chain", "converting", "tree"} /\ OwnerOf[k] = t /\ b = BucketOf[k]
  BY <1>1, CallFacts DEF Links, Place
<1>3. /\ next \in [Nodes -> Links] /\ id \in [Nodes -> Ids \cup {NoId}] /\ free \in Seq(Nodes)
      /\ bucket \in [Nodes -> Buckets] /\ first \in [Buckets -> Links] /\ IdsOK /\ PlacesOK
      /\ Top \in Links
  BY <1>1, CallFacts, FreeFacts DEF MapInv, Links, Top
<1>4. PICK c : Step(t, c, "inserted", call[t].idx, call[t].nxt, call[t].aft)
  <2>1. call' = [call EXCEPT ![t].at = "inserted"]
    BY <1>1 DEF TreeAdd, To, Bkt, Place
  <2>2. "inserted" \in Accesses
    BY DEF Accesses, Returned, AtHand, AtFilled, AtHead, AtWalk, AtNext, AtFind, AtTree,
           AtTreeify, AtOther
  <2> QED
    BY <1>2, <1>3, <2>1, <2>2, Steps
<1>5. /\ c \in Calls /\ c.key = k /\ c.at = "inserted" /\ Place(c) = b /\ call'[t] = c
      /\ c.idx = call[t].idx /\ c.nxt = call[t].nxt /\ c.aft = call[t].aft /\ call' = [call EXCEPT ![t] = c]
  BY <1>2, <1>4 DEF Step, Place
<1>6. /\ overflow' = overflow \cup {k}
      /\ UNCHANGED <<nodeVars, first, len, state, history>>
  BY DEF TreeAdd, history
<1>10. state[b] # "chain" /\ k \notin live
  BY <1>1, <1>2 DEF Knows, AtTree, InsertsOn
<1>7. Still(t, c)
  BY <1>1, <1>2, <1>3, <1>5, <1>6, <1>10, CallFacts DEF Still, Converts, Holds, TookOut, AtTreeify, AtHand, AtFilled, Place
<1>8. Knows(t, call[t])'
  BY <1>1, <1>2, <1>3, <1>5, <1>6, <1>10 DEF history, nodeVars, HasNode, Knows, AtTreeify, AtHand, AtFilled, AtHead, AtWalk, AtNext, AtFind, AtTree, Place,
     InsertsOn, Before, Treeing, Settled, Places, ErasesInChain
<1>9. ASSUME Place(c) \in Private, NEW s \in Seq(Nodes), Lists(s, Place(c)),
             Walks(call[t], s), KnowsAlone(call[t])
      PROVE  Walks(call[t], s)' /\ KnowsAlone(call[t])' /\ PrivateOK(Place(c))'
  <2>1. PrivateOK(Place(c))
    BY <1>9 DEF MapInv
  <2>2. \A i \in Ids : i = k => OnCall(i)' /\ OnCall(i)
    BY <1>2, <1>5 DEF OnCall
  <2>7. Walks(call[t], s)'
    BY <1>1, <1>5, <1>9 DEF Walks, AtTreeify, AtHand, AtFilled, AtHead, AtWalk, AtNext, AtFind, AtTree
  <2>8. KnowsAlone(call[t])'
    BY <1>1, <1>2, <1>5, <1>6, <1>9, <1>10 DEF KnowsAlone, AtTreeify, AtHand, AtFilled, AtHead, AtWalk, AtNext,
         AtFind, AtTree, AtChain, Place, TookOut
  <2>9. PrivateOK(Place(c))'
    <3>1. \A i \in Ids : i # k => (In(i)' => In(i)) /\ (Inserting(i)' <=> Inserting(i))
      BY <1>7, StillFacts
    <3>2. state'[Place(c)] = "tree"
      BY <1>1, <1>2, <1>5, <1>6, <1>9, <1>10 DEF KnowsAlone, AtTreeify
    <3>3. \A i \in Ids : BucketOf[i] = Place(c) /\ (Present(i) \/ i = k) => Present(i)'
      BY <1>5, <1>6, <3>2 DEF Present
    <3> QED
      BY <2>1, <3>1, <3>2, <3>3 DEF PrivateOK
  <2> QED
    BY <2>7, <2>8, <2>9
<1> QED
  BY <1>5, <1>7, <1>8, <1>9, StillStep

LEMMA TreeEraseStep ==
  ASSUME MapInv, NEW t \in Threads, TreeErase(t)
  PROVE  MapInv'
<1> DEFINE k == call[t].key
           b == Place(call[t])
           h == call[t].idx
<1>1. call[t].at = "treeErase"
  BY DEF TreeErase, At
<1>2. /\ call \in [Threads -> Calls] /\ Knows(t, call[t]) /\ b \in Buckets /\ k \in Ids
      /\ call[t].idx \in Links /\ call[t].nxt \in Links /\ call[t].aft \in Links /\ Null \in Links
      /\ state[b] \in {"chain", "converting", "tree"} /\ OwnerOf[k] = t /\ b = BucketOf[k]
  BY <1>1, CallFacts DEF Links, Place
<1>3. /\ next \in [Nodes -> Links] /\ id \in [Nodes -> Ids \cup {NoId}] /\ free \in Seq(Nodes)
      /\ bucket \in [Nodes -> Buckets] /\ first \in [Buckets -> Links] /\ IdsOK /\ PlacesOK
      /\ Top \in Links
  BY <1>1, CallFacts, FreeFacts DEF MapInv, Links, Top
<1>4. PICK c : Step(t, c, "erased", call[t].idx, call[t].nxt, call[t].aft)
  <2>1. call' = [call EXCEPT ![t].at = "erased"]
    BY <1>1 DEF TreeErase, To, Bkt, Place
  <2>2. "erased" \in Accesses
    BY DEF Accesses, Returned, AtHand, AtFilled, AtHead, AtWalk, AtNext, AtFind, AtTree,
           AtTreeify, AtOther
  <2> QED
    BY <1>2, <1>3, <2>1, <2>2, Steps
<1>5. /\ c \in Calls /\ c.key = k /\ c.at = "erased" /\ Place(c) = b /\ call'[t] = c
      /\ c.idx = call[t].idx /\ c.nxt = call[t].nxt /\ c.aft = call[t].aft /\ call' = [call EXCEPT ![t] = c]
  BY <1>2, <1>4 DEF Step, Place
<1>6. /\ overflow' = overflow \ {k}
      /\ UNCHANGED <<nodeVars, first, len, state, history>>
  BY DEF TreeErase, history
<1>10. state[b] # "chain" /\ k \in live
  BY <1>1, <1>2 DEF Knows, AtTree
<1>7. Still(t, c)
  BY <1>1, <1>2, <1>3, <1>5, <1>6, <1>10, CallFacts DEF Still, Converts, Holds, TookOut, AtTreeify, AtHand, AtFilled, Place
<1>8. Knows(t, call[t])'
  BY <1>1, <1>2, <1>3, <1>5, <1>6, <1>10 DEF history, nodeVars, HasNode, Knows, AtTreeify, AtHand, AtFilled, AtHead, AtWalk, AtNext, AtFind, AtTree, Place,
     InsertsOn, Before, Treeing, Settled, Places, ErasesInChain
<1>9. ASSUME Place(c) \in Private, NEW s \in Seq(Nodes), Lists(s, Place(c)),
             Walks(call[t], s), KnowsAlone(call[t])
      PROVE  Walks(call[t], s)' /\ KnowsAlone(call[t])' /\ PrivateOK(Place(c))'
  <2>1. PrivateOK(Place(c))
    BY <1>9 DEF MapInv
  <2>2. state[Place(c)] = "tree" /\ state'[Place(c)] = "tree"
    BY <1>1, <1>2, <1>5, <1>6, <1>9, <1>10 DEF KnowsAlone, AtTreeify
  <2>7. Walks(call[t], s)'
    BY <1>1, <1>5, <1>9 DEF Walks, AtTreeify, AtHand, AtFilled, AtHead, AtWalk, AtNext, AtFind, AtTree
  <2>8. KnowsAlone(call[t])'
    BY <1>1, <1>2, <1>5, <1>6, <1>9, <1>10, <2>2 DEF KnowsAlone, AtTreeify, AtHand, AtFilled, AtHead, AtWalk, AtNext,
         AtFind, AtTree, AtChain, Place, TookOut
  <2>9. PrivateOK(Place(c))'
    <3>1. \A i \in Ids : i # k => (In(i)' => In(i)) /\ (Inserting(i)' <=> Inserting(i))
      BY <1>7, StillFacts
    <3>2. \A i \in Ids : i = k => ~In(i)' /\ ~Inserting(i)'
      BY <1>2, <1>5 DEF In, Inserting, OnCall, TookOut, Settled, Treeing, AtTreeify
    <3>3. \A i \in Ids : BucketOf[i] = Place(c) /\ Present(i) /\ i # k => Present(i)'
      BY <1>5, <1>6, <2>2 DEF Present
    <3> QED
      BY <2>1, <2>2, <3>1, <3>2, <3>3 DEF PrivateOK
  <2> QED
    BY <2>7, <2>8, <2>9
<1> QED
  BY <1>5, <1>7, <1>8, <1>9, StillStep

\* Only the call changes, and the history.
LEMMA StartStep ==
  ASSUME MapInv, NEW t \in Threads, NEW op \in {"insert", "find", "erase"}, NEW i \in Ids,
         Start(t, op, i)
  PROVE  MapInv'
<1> DEFINE c == [Idle EXCEPT !.at = op, !.key = i]
<1>1. /\ call[t].at = "idle" /\ call[t].key = NoId /\ NoId \notin Ids /\ OwnerOf[i] = t
      /\ call \in [Threads -> Calls] /\ MapTypeOK /\ BucketOf[i] \in Buckets
      /\ UNCHANGED <<nodeVars, first, len, state, overflow, lock, live>>
      /\ used' = IF op = "insert" THEN used \cup {i} ELSE used
      /\ (op = "insert" => i \notin used) /\ (op = "erase" => i \in live)
      /\ call' = [call EXCEPT ![t] = c]
  BY MapFacts DEF Start, At, MapInv, Knows, MapTypeOK
<1>2. /\ c \in Calls /\ c.at = op /\ c.key = i /\ c.idx = Null /\ c.nxt = Null /\ c.aft = Null
      /\ Place(c) = BucketOf[i]
  BY MapFacts DEF Calls, Links, Idle, Accesses, AtOther, Place
<1> HIDE DEF c
<1>3. call'[t] = c /\ \A u \in Threads \ {t} : call'[u] = call[u]
  BY <1>1
<1>4. ~Holds(t) /\ ~Holds(t)' /\ \A u \in Threads \ {t} : Holds(u)' <=> Holds(u)
  BY <1>1, <1>2, <1>3 DEF Holds, AtHand, AtFilled
<1>5. \A n \in Nodes : InPlace(n)' <=> InPlace(n)
  BY <1>1, <1>3, <1>4 DEF InPlace, FreeNodes, nodeVars
<1>6. MapTypeOK'
  BY <1>1, <1>2 DEF MapTypeOK, nodeVars
<1>7. Spares(t)
  BY <1>1, <1>3, <1>5 DEF Spares, nodeVars
<1>8. IdsOK' /\ PlacesOK'
  BY <1>1, <1>3, <1>4 DEF MapInv, IdsOK, PlacesOK, FreeNodes, nodeVars
<1>9. Knows(t, call[t])'
  <2>1. op = "insert" => i \in used' \ live' /\ ~HasNode(i)'
    BY <1>1 DEF MapInv, MapTypeOK, IdsOK, HasNode, nodeVars
  <2> QED
    BY <1>1, <1>2, <1>3, <2>1 DEF Knows, AtTreeify, AtHand, AtFilled, AtHead, AtWalk, AtNext,
       AtFind, AtTree, InsertsOn, Before, Treeing, Settled, Places, ErasesInChain
<1>10. \A u \in Threads \ {t}, b \in Buckets : Converts(u, b) => state'[b] = state[b] /\ ~Converts(t, b)'
  BY <1>1, <1>2, <1>3 DEF Converts, AtTreeify
<1>11. \A x, b : x \in NodesOf(b)' <=> x \in NodesOf(b)
  BY <1>1, <1>5 DEF NodesOf, nodeVars
<1>12. ASSUME NEW k \in Ids
       PROVE  (In(k)' <=> In(k)) /\ (Inserting(k)' <=> Inserting(k)) /\ (Known(k)' <=> Known(k))
  <2>1. OwnerOf[k] \in Threads
    BY MapFacts
  <2>2. CASE OwnerOf[k] = t
    BY <1>1, <1>2, <1>3, <2>2 DEF In, Inserting, Known, OnCall, TookOut, Settled, Treeing, AtTreeify
  <2>3. CASE OwnerOf[k] # t
    BY <1>1, <1>3, <2>1, <2>3 DEF In, Inserting, Known, OnCall
  <2> QED
    BY <2>2, <2>3
<1>13. ASSUME NEW b \in Private, b # BucketOf[i]
       PROVE  SparesBucket(t, b)
  <2>1. ~On(t, b) /\ ~On(t, b)'
    BY <1>1, <1>2, <1>3, <1>13 DEF On, Place
  <2> QED
    BY <1>1, <1>11, <2>1 DEF SparesBucket, nodeVars
<1>14. ASSUME NEW b \in Private, b = BucketOf[i]
       PROVE  PrivateOK(b)' /\ ChainOK(b)'
  <2>1. \A u \in Threads : ~On(u, b)
    <3> SUFFICES ASSUME NEW u \in Threads, On(u, b) PROVE FALSE
      OBVIOUS
    <3>1. call[u].key \in Ids /\ OwnerOf[call[u].key] = u /\ BucketOf[call[u].key] = b
      BY DEF On, MapInv, Knows, Place
    <3>2. u = t
      BY <1>1, <1>14, <3>1 DEF Private
    <3> QED
      BY <1>1, <3>2 DEF On
  <2>2. \A u \in Threads : On(u, b)' => u = t
    BY <1>3, <2>1 DEF On, Place
  <2>3. PrivateOK(b) /\ ChainOK(b)
    BY DEF MapInv
  <2>4. state[b] # "converting"
    BY <2>1, <2>3 DEF PrivateOK, On, AtTreeify
  <2>5. \A k \in Ids : Present(k) => Present(k)'
    BY <1>1, <1>5 DEF Present, nodeVars
  <2>6. ASSUME state'[b] # "tree", NEW n \in NodesOf(b)' PROVE Known(id[n])'
    <3>1. n \in NodesOf(b) /\ id'[n] = id[n] /\ Known(id[n])
      BY <1>1, <1>11, <2>3, <2>6 DEF PrivateOK, nodeVars
    <3>2. PICK l \in Ids : l = id[n] /\ Known(l)
      BY <3>1 DEF Known
    <3>3. Known(l)'
      BY <1>12, <3>2
    <3> QED
      BY <3>1, <3>2, <3>3 DEF Known, Inserting, OnCall
  <2>7. PrivateOK(b)'
    BY <1>1, <1>12, <2>3, <2>4, <2>5, <2>6 DEF PrivateOK
  <2>8. PICK s \in Seq(Nodes) : Lists(s, b)
    BY <2>3 DEF ChainOK
  <2>9. Lists(s, b)'
    BY <1>1, <1>11, <1>14, <2>8, SameNodes DEF nodeVars
  <2>10. Walks(call[t], s)' /\ KnowsAlone(call[t])'
    BY <1>1, <1>2, <1>3, <1>14, <2>4 DEF Walks, KnowsAlone, AtTreeify, AtHand, AtFilled, AtHead,
       AtWalk, AtNext, AtFind, AtTree, AtChain, TookOut
  <2> QED
    BY <2>2, <2>7, <2>9, <2>10, ChainAfter
<1> QED
  BY <1>1, <1>6, <1>7, <1>8, <1>9, <1>10, <1>13, <1>14, OneMoves

LEMMA ReturnStep ==
  ASSUME MapInv, NEW t \in Threads, Return(t)
  PROVE  MapInv'
<1>0. PICK k \in Ids : k = call[t].key
  BY MapFacts DEF Return, Returned, MapInv, Knows
<1>1. /\ call[t].key = k /\ call[t].at \in Returned /\ call[t].at # "idle" /\ call \in [Threads -> Calls] /\ MapTypeOK
      /\ Knows(t, call[t]) /\ k \in Ids /\ OwnerOf[k] = t /\ BucketOf[k] \in Buckets
      /\ Place(call[t]) = BucketOf[k] /\ NoId \notin Ids
      /\ UNCHANGED <<nodeVars, first, len, state, overflow, lock, used>>
      /\ call' = [call EXCEPT ![t] = Idle]
  BY <1>0, MapFacts DEF Return, Returned, MapInv, Knows, MapTypeOK, Place
<1>2. /\ live' = CASE call[t].at = "inserted" -> live \cup {k}
                   [] call[t].at = "erased" -> live \ {k}
                   [] OTHER -> live
      /\ (call[t].at = "inserted" => k \in used \ live)
  BY <1>1 DEF Return, At, Knows, InsertsOn, Settled
<1>3. /\ call'[t] = Idle /\ Idle \in Calls /\ Idle.at = "idle" /\ Idle.key = NoId
      /\ \A u \in Threads \ {t} : call'[u] = call[u]
  BY <1>1, MapFacts DEF Calls, Links, Idle, Accesses, AtOther
<1>4. ~Holds(t) /\ ~Holds(t)' /\ \A u \in Threads \ {t} : Holds(u)' <=> Holds(u)
  BY <1>1, <1>3 DEF Holds, AtHand, AtFilled, Returned
<1>5. \A n \in Nodes : InPlace(n)' <=> InPlace(n)
  BY <1>1, <1>3, <1>4 DEF InPlace, FreeNodes, nodeVars
<1>6. MapTypeOK'
  <2>1. live' \subseteq used'
    BY <1>1, <1>2 DEF MapTypeOK
  <2> QED
    BY <1>1, <1>3, <2>1 DEF MapTypeOK, nodeVars
<1>7. Spares(t)
  BY <1>1, <1>2, <1>3, <1>5 DEF Spares, nodeVars
<1>8. IdsOK' /\ PlacesOK'
  BY <1>1, <1>3, <1>4 DEF MapInv, IdsOK, PlacesOK, FreeNodes, nodeVars
<1>9. Knows(t, call[t])'
  BY <1>3 DEF Knows, AtTreeify, AtHand, AtFilled, AtHead, AtWalk, AtNext,
       AtFind, AtTree, InsertsOn, Before, Treeing, Settled, Places, ErasesInChain
<1>10. \A u \in Threads \ {t}, b \in Buckets : Converts(u, b) => state'[b] = state[b] /\ ~Converts(t, b)'
  BY <1>1, <1>3 DEF Converts, AtTreeify
<1>11. \A x, b : x \in NodesOf(b)' <=> x \in NodesOf(b)
  BY <1>1, <1>5 DEF NodesOf, nodeVars
<1>12. In(k)' => (In(k) \/ Inserting(k))
  BY <1>1, <1>2 DEF In, Inserting, OnCall, TookOut, Settled, Returned
<1>13. ~Inserting(k)' /\ (Known(k) => Known(k)' \/ call[t].at = "erased")
  BY <1>1, <1>2, <1>3 DEF Inserting, Known, OnCall, Settled, Treeing, AtTreeify, Returned
<1>14. OnlyInPlace(k)' <=> OnlyInPlace(k)
  BY <1>1, <1>5 DEF OnlyInPlace, nodeVars
<1>15. In(k)' /\ state'[BucketOf[k]] = "chain" => OnlyInPlace(k)'
  <2>1. call[t].at = "inserted" /\ state[BucketOf[k]] = "chain" => OnlyInPlace(k)
    BY <1>1 DEF Knows, Places
  <2>2. In(k) /\ state[BucketOf[k]] = "chain" => OnlyInPlace(k)
    BY DEF MapInv, LiveOK, In
  <2>3. In(k)' => In(k) \/ call[t].at = "inserted"
    BY <1>1, <1>2 DEF In, OnCall, TookOut, Returned
  <2> QED
    BY <1>1, <1>14, <2>1, <2>2, <2>3
<1>16. ASSUME NEW l \in Ids, l # k
       PROVE  (In(l)' <=> In(l)) /\ (Inserting(l)' <=> Inserting(l)) /\ (Known(l)' <=> Known(l))
  BY <1>1, <1>3, <1>7, <1>16, OtherIds
<1>17. ASSUME NEW b \in Private, b # BucketOf[k]
       PROVE  SparesBucket(t, b)
  <2>1. ~On(t, b) /\ ~On(t, b)'
    BY <1>1, <1>3, <1>17 DEF On
  <2> QED
    BY <1>1, <1>11, <2>1 DEF SparesBucket, nodeVars
<1>18. ASSUME NEW b \in Private, b = BucketOf[k]
       PROVE  PrivateOK(b)' /\ ChainOK(b)'
  <2>1. PICK s \in Seq(Nodes) : Lists(s, b) /\ Walks(call[t], s) /\ KnowsAlone(call[t])
    BY <1>1, <1>7, <1>18, OwnBucket
  <2>2. PrivateOK(b) /\ \A u \in Threads : On(u, b)' => u = t
    BY <1>1, <1>7, <1>18, OwnBucket
  <2>3. Lists(s, b)'
    BY <1>1, <1>11, <1>18, <2>1, SameNodes DEF nodeVars
  <2>4. ~On(t, b)'
    BY <1>3 DEF On
  <2>5. ChainOK(b)'
    BY <2>2, <2>3, <2>4, ChainAfter
  <2>6. /\ state[b] # "converting"
        /\ call[t].at = "erased" /\ state[b] # "tree" => \A n \in NodesOf(b) : id[n] # k
    BY <1>1, <1>18, <2>1 DEF KnowsAlone, AtTreeify, Returned, TookOut
  <2>7. \A l \in Ids : Present(l) => Present(l)'
    BY <1>1, <1>5 DEF Present, nodeVars
  <2>8. ASSUME state'[b] # "tree", NEW n \in NodesOf(b)' PROVE Known(id[n])'
    <3>1. n \in NodesOf(b) /\ id'[n] = id[n] /\ Known(id[n])
      BY <1>1, <1>11, <2>2, <2>8 DEF PrivateOK, nodeVars
    <3>2. PICK l \in Ids : l = id[n] /\ Known(l)
      BY <3>1 DEF Known
    <3>3. Known(l)'
      BY <1>1, <1>13, <1>16, <2>6, <2>8, <3>1, <3>2
    <3> QED
      BY <3>1, <3>2, <3>3 DEF Known, Inserting, OnCall
  <2>9. \A l \in Ids : BucketOf[l] = b /\ (In(l)' \/ Inserting(l)') => Present(l)'
    BY <1>12, <1>13, <1>16, <2>2, <2>7 DEF PrivateOK
  <2> QED
    BY <1>1, <2>5, <2>6, <2>8, <2>9 DEF PrivateOK
<1> QED
  BY <1>1, <1>6, <1>7, <1>8, <1>9, <1>10, <1>15, <1>17, <1>18, OneMoves

\* The list with a node in front, without its first, without one behind the first.
LEMMA InFront ==
  ASSUME NEW s \in Seq(Nodes), NEW h \in Nodes
  PROVE  /\ <<h>> \o s \in Seq(Nodes) /\ Len(<<h>> \o s) = Len(s) + 1
         /\ \A p \in 0..Len(s) : (<<h>> \o s)[p + 1] = IF p = 0 THEN h ELSE s[p]
         /\ \A p \in 0..Len(s) : Follow(<<h>> \o s, p + 1) = Follow(s, p)
<1> DEFINE g == <<h>> \o s
<1>1. Len(s) \in Nat /\ g \in Seq(Nodes) /\ Len(g) = Len(s) + 1
  OBVIOUS
<1>2. \A p \in 0..Len(s) : g[p + 1] = IF p = 0 THEN h ELSE s[p]
  OBVIOUS
<1> HIDE DEF g
<1>3. \A p \in 0..Len(s) : Follow(g, p + 1) = Follow(s, p)
  <2> SUFFICES ASSUME NEW p \in 0..Len(s) PROVE Follow(g, p + 1) = Follow(s, p)
    OBVIOUS
  <2>1. CASE p = Len(s)
    BY <1>1, <2>1 DEF Follow
  <2>2. CASE p # Len(s)
    <3>1. p + 1 \in 0..Len(s) /\ p + 1 # 0 /\ p + 1 # Len(g)
      BY <1>1, <2>2
    <3> QED
      BY <1>2, <2>2, <3>1 DEF Follow
  <2> QED
    BY <2>1, <2>2
<1> QED
  BY <1>1, <1>2, <1>3 DEF g

LEMMA WithoutFirst ==
  ASSUME NEW s \in Seq(Nodes), s # <<>>
  PROVE  /\ Tail(s) \in Seq(Nodes) /\ Len(Tail(s)) = Len(s) - 1 /\ Len(s) \in Nat \ {0}
         /\ \A p \in 1..(Len(s) - 1) : Tail(s)[p] = s[p + 1]
         /\ \A p \in 0..(Len(s) - 1) : Follow(Tail(s), p) = Follow(s, p + 1)
<1> DEFINE g == Tail(s)
<1>1. /\ Len(s) \in Nat \ {0} /\ g \in Seq(Nodes) /\ Len(g) = Len(s) - 1
      /\ \A p \in 1..(Len(s) - 1) : g[p] = s[p + 1]
  OBVIOUS
<1> HIDE DEF g
<1>2. \A p \in 0..(Len(s) - 1) : Follow(g, p) = Follow(s, p + 1)
  <2> SUFFICES ASSUME NEW p \in 0..(Len(s) - 1) PROVE Follow(g, p) = Follow(s, p + 1)
    OBVIOUS
  <2>1. CASE p = Len(s) - 1
    BY <1>1, <2>1 DEF Follow
  <2>2. CASE p # Len(s) - 1
    <3>1. p + 1 \in 1..(Len(s) - 1) /\ p + 1 # Len(s) /\ p # Len(g)
      BY <1>1, <2>2
    <3>2. g[p + 1] = s[(p + 1) + 1]
      BY <1>1, <3>1
    <3> QED
      BY <3>1, <3>2 DEF Follow
  <2> QED
    BY <2>1, <2>2
<1> QED
  BY <1>1, <1>2 DEF g

Cut(s, p) == [q \in 1..(Len(s) - 1) |-> IF q <= p THEN s[q] ELSE s[q + 1]]
LEMMA WithoutOne ==
  ASSUME NEW s \in Seq(Nodes), NEW p \in 1..(Len(s) - 1)
  PROVE  /\ Cut(s, p) \in Seq(Nodes) /\ Len(Cut(s, p)) = Len(s) - 1 /\ Len(s) \in Nat
         /\ \A q \in 1..(Len(s) - 1) : Cut(s, p)[q] = IF q <= p THEN s[q] ELSE s[q + 1]
         /\ \A q \in 0..(Len(s) - 1) :
              Follow(Cut(s, p), q) = IF q < p THEN Follow(s, q) ELSE Follow(s, q + 1)
<1> DEFINE g == Cut(s, p)
<1>1. /\ Len(s) \in Nat /\ DOMAIN s = 1..Len(s) /\ \A q \in 1..Len(s) : s[q] \in Nodes
  OBVIOUS
<1>2. \A q \in 1..(Len(s) - 1) : g[q] = IF q <= p THEN s[q] ELSE s[q + 1]
  BY DEF Cut
<1>3. g \in [1..(Len(s) - 1) -> Nodes]
  BY <1>1 DEF Cut
<1>4. g \in Seq(Nodes) /\ Len(g) = Len(s) - 1
  <2>1. Len(s) - 1 \in Nat
    BY <1>1
  <2> HIDE DEF g
  <2>2. g \in Seq(Nodes)
    BY <1>3, <2>1
  <2> QED
    BY <1>3, <2>1, <2>2
<1> HIDE DEF g
<1>5. ASSUME NEW q \in 0..(Len(s) - 1)
      PROVE  Follow(g, q) = IF q < p THEN Follow(s, q) ELSE Follow(s, q + 1)
  <2>0. PICK n \in Nat : n = Len(s) /\ q \in 0..(n - 1) /\ p \in 1..(n - 1) /\ Len(g) = n - 1
    BY <1>1, <1>4
  <2>1. CASE q = Len(s) - 1
    <3>1. q = n - 1 /\ ~(q < p) /\ q + 1 = n
      BY <2>0, <2>1
    <3> QED
      BY <2>0, <3>1 DEF Follow
  <2>2. CASE q # Len(s) - 1
    <3>1. q + 1 \in 1..(Len(s) - 1) /\ q # Len(g) /\ q # Len(s) /\ q + 1 # Len(s)
      BY <2>0, <2>2
    <3>2. g[q + 1] = IF q + 1 <= p THEN s[q + 1] ELSE s[(q + 1) + 1]
      BY <1>2, <3>1
    <3>3. q < p <=> q + 1 <= p
      BY <2>0
    <3> QED
      BY <3>1, <3>2, <3>3 DEF Follow
  <2> QED
    BY <2>1, <2>2
<1> QED
  BY <1>1, <1>2, <1>4, <1>5 DEF g

LEMMA PublishStep ==
  ASSUME MapInv, NEW t \in Threads, Publish(t)
  PROVE  MapInv'
<1>1. call[t].at = "publish"
  BY DEF Publish, At
<1>0. PICK k \in Ids, b \in Buckets, h \in Nodes :
        k = call[t].key /\ b = Place(call[t]) /\ h = call[t].idx
  BY <1>1, CallFacts DEF Knows, AtHand, AtFilled
<1>2. /\ call \in [Threads -> Calls] /\ Knows(t, call[t]) /\ call[t].key = k
      /\ call[t].idx \in Links /\ call[t].nxt \in Links /\ call[t].aft \in Links /\ Null \in Links
      /\ state[b] \in {"chain", "converting", "tree"} /\ OwnerOf[k] = t /\ b = BucketOf[k]
  BY <1>0, <1>1, CallFacts DEF Links, Place
<1>3. /\ next \in [Nodes -> Links] /\ id \in [Nodes -> Ids \cup {NoId}] /\ free \in Seq(Nodes)
      /\ bucket \in [Nodes -> Buckets] /\ first \in [Buckets -> Links] /\ IdsOK /\ PlacesOK
      /\ Top \in Links
  BY <1>1, CallFacts, FreeFacts DEF MapInv, Links, Top
<1>4. PICK c : Step(t, c, "count", call[t].idx, Null, call[t].aft)
  <2>1. call' = [call EXCEPT ![t].nxt = Null, ![t].at = "count"]
    BY <1>1 DEF Publish, Done, Bkt, Place
  <2>2. "count" \in Accesses
    BY DEF Accesses, Returned, AtHand, AtFilled, AtHead, AtWalk, AtNext, AtFind, AtTree,
           AtTreeify, AtOther
  <2> QED
    BY <1>2, <1>3, <2>1, <2>2, Steps
<1>5. /\ c \in Calls /\ c.key = k /\ c.at = "count" /\ Place(c) = b /\ call'[t] = c
      /\ c.idx = h /\ c.nxt = Null /\ c.aft = call[t].aft /\ call' = [call EXCEPT ![t] = c]
  BY <1>0, <1>2, <1>4 DEF Step, Place
<1>6. /\ Holds(t) /\ id[h] = k /\ bucket[h] = b /\ k \in used \ live
      /\ first[b] = call[t].nxt /\ first' = [first EXCEPT ![b] = h]
      /\ UNCHANGED <<nodeVars, len, state, overflow, history>>
  BY <1>0, <1>1, <1>2, <1>3, MapFacts DEF Publish, Bkt, Place, Holds, AtHand, AtFilled, Knows, InsertsOn, IdsOK
<1>7. /\ first'[b] = h /\ \A x \in Buckets : x # b => first'[x] = first[x]
      /\ first' \in [Buckets -> Links]
  BY <1>0, <1>3, <1>6 DEF Links
<1>8. \A u \in Threads \ {t} : call'[u] = call[u] /\ (Holds(u)' <=> Holds(u))
  BY <1>2, <1>5 DEF Holds
<1>9. ~Holds(t)'
  BY <1>5 DEF Holds, AtHand, AtFilled
<1>10. \A i \in Nodes : InPlace(i)' <=> InPlace(i) \/ i = h
  <2>1. h \notin FreeNodes /\ ~InPlace(h) /\ \A u \in Threads \ {t} : Holds(u) => call[u].idx # h
    BY <1>0, <1>3, <1>6 DEF PlacesOK, InPlace
  <2>2. FreeNodes' = FreeNodes
    BY <1>6 DEF FreeNodes, nodeVars
  <2> QED
    BY <1>0, <1>6, <1>8, <1>9, <2>1, <2>2 DEF InPlace
<1>11. MapTypeOK'
  BY <1>2, <1>5, <1>6, <1>7 DEF MapInv, MapTypeOK, nodeVars, history
<1>12. Spares(t)
  BY <1>6, <1>8, <1>10 DEF Spares, nodeVars, history
<1>13. IdsOK' /\ PlacesOK'
  BY <1>3, <1>6, <1>8, <1>9 DEF IdsOK, PlacesOK, FreeNodes, nodeVars, history
<1>14. \A i \in Nodes : id[i] = k => i = h
  BY <1>3, <1>6, MapFacts DEF IdsOK
<1>15. Knows(t, call[t])'
  <2>1. OnlyInPlace(k)'
    BY <1>6, <1>10, <1>14 DEF OnlyInPlace, nodeVars
  <2> QED
    BY <1>1, <1>2, <1>5, <1>6, <2>1 DEF history, nodeVars, Knows, AtTreeify, AtHand, AtFilled, AtHead, AtWalk, AtNext, AtFind, AtTree, Place,
     InsertsOn, Before, Treeing, Settled, Places, ErasesInChain
<1>16. \A u \in Threads \ {t}, x \in Buckets : Converts(u, x) => state'[x] = state[x] /\ ~Converts(t, x)'
  BY <1>5, <1>6 DEF Converts, AtTreeify
<1>17. ~In(k)'
  BY <1>6 DEF In, history
<1>18. \A i, x : i \in NodesOf(x)' <=> i \in NodesOf(x) \/ (i = h /\ x = b)
  BY <1>6, <1>10 DEF NodesOf, nodeVars
<1>19. ASSUME NEW x \in Private, x # b
       PROVE  SparesBucket(t, x)
  <2>1. ~On(t, x) /\ ~On(t, x)'
    BY <1>0, <1>5, <1>19 DEF On
  <2>2. x \in Buckets
    BY DEF Private
  <2> QED
    BY <1>6, <1>7, <1>18, <1>19, <2>1, <2>2 DEF SparesBucket, nodeVars
<1>20. ASSUME b \in Private
       PROVE  PrivateOK(b)' /\ ChainOK(b)'
  <2>1. PICK s \in Seq(Nodes) : Lists(s, b) /\ Walks(call[t], s) /\ KnowsAlone(call[t])
    BY <1>0, <1>1, <1>12, <1>20, OwnBucket
  <2>2. PrivateOK(b) /\ \A u \in Threads : On(u, b)' => u = t
    BY <1>0, <1>1, <1>12, <1>20, OwnBucket
  <2>3. state[b] = "chain" /\ state'[b] = "chain" /\ next[h] = Follow(s, 0) /\ next' = next
    BY <1>0, <1>1, <1>6, <2>1 DEF KnowsAlone, AtChain, AtHand, AtFilled, Walks, nodeVars
  <2> DEFINE g == <<h>> \o s
  <2>4. /\ g \in Seq(Nodes) /\ Len(g) = Len(s) + 1 /\ Len(s) \in Nat
        /\ \A p \in 0..Len(s) : g[p + 1] = IF p = 0 THEN h ELSE s[p]
        /\ \A p \in 0..Len(s) : Follow(g, p + 1) = Follow(s, p)
    BY InFront
  <2> HIDE DEF g
  <2>5. Follow(g, 0) = h /\ DOMAIN g = 1..(Len(s) + 1) /\ DOMAIN s = 1..Len(s)
    BY <2>4 DEF Follow
  <2>6. \A p \in DOMAIN g : p - 1 \in 0..Len(s) /\ (p # 1 => p - 1 \in DOMAIN s)
                           /\ g[p] = IF p = 1 THEN h ELSE s[p - 1]
    BY <2>4, <2>5
  <2>7. \A p \in DOMAIN s : s[p] # h
    BY <1>0, <1>3, <1>6, <2>1 DEF Lists, NodesOf, InPlace
  <2>8. Lists(g, b)'
    <3>1. \A p \in DOMAIN g : g[p] \in NodesOf(b)' /\ next[g[p]] = Follow(g, p)
      <4> SUFFICES ASSUME NEW p \in DOMAIN g
                   PROVE  g[p] \in NodesOf(b)' /\ next[g[p]] = Follow(g, p)
        OBVIOUS
      <4>1. Follow(g, p) = Follow(s, p - 1)
        <5>1. p - 1 \in 0..Len(s) /\ (p - 1) + 1 = p
          BY <2>4, <2>5
        <5> QED
          BY <2>4, <5>1
      <4>2. CASE p = 1
        BY <1>0, <1>18, <2>3, <2>6, <4>1, <4>2
      <4>3. CASE p # 1
        BY <1>18, <2>1, <2>6, <4>1, <4>3 DEF Lists
      <4> QED
        BY <4>2, <4>3
    <3>2. ASSUME NEW i \in NodesOf(b)' PROVE \E p \in DOMAIN g : g[p] = i
      <4>1. CASE i = h
        BY <2>4, <2>5, <2>6, <4>1
      <4>2. CASE i # h
        <5>1. PICK p \in DOMAIN s : s[p] = i
          BY <1>18, <2>1, <4>2 DEF Lists
        <5>2. p + 1 \in DOMAIN g /\ g[p + 1] = i
          BY <2>4, <2>5, <5>1
        <5> QED
          BY <5>2
      <4> QED
        BY <4>1, <4>2
    <3>3. \A p, q \in DOMAIN g : g[p] = g[q] => p = q
      <4> SUFFICES ASSUME NEW p \in DOMAIN g, NEW q \in DOMAIN g, g[p] = g[q]
                   PROVE  p = q
        OBVIOUS
      <4>1. p \in Int /\ q \in Int /\ (p = 1 <=> q = 1)
        BY <2>4, <2>5, <2>6, <2>7
      <4>2. p # 1 => s[p - 1] = s[q - 1] /\ p - 1 \in DOMAIN s /\ q - 1 \in DOMAIN s
        BY <2>6, <4>1
      <4>3. p # 1 => p - 1 = q - 1
        BY <2>1, <4>2 DEF Lists
      <4> QED
        BY <4>1, <4>3
    <3>4. first'[b] = Follow(g, 0)
      BY <1>7, <2>5
    <3> QED
      BY <2>3, <2>4, <3>1, <3>2, <3>3, <3>4 DEF Lists, Follow
  <2>9. Walks(call[t], g)' /\ KnowsAlone(call[t])'
    BY <1>0, <1>5, <2>3 DEF Walks, KnowsAlone, AtTreeify, AtHand, AtFilled, AtHead, AtWalk, AtNext,
         AtFind, AtTree, AtChain, TookOut
  <2>10. ChainOK(b)'
    BY <2>2, <2>4, <2>8, <2>9, ChainAfter
  <2>11. \A i \in Ids : i # k =>
           (In(i)' <=> In(i)) /\ (Inserting(i)' <=> Inserting(i)) /\ (Known(i)' <=> Known(i))
    BY <1>0, <1>1, <1>5, <1>12, OtherIds
  <2>12. ASSUME NEW i \in Ids, BucketOf[i] = b, i = k \/ Present(i) PROVE Present(i)'
    <3>1. PICK n \in Nodes : id[n] = i /\ (InPlace(n) \/ n = h)
      BY <1>0, <1>6, <2>3, <2>12 DEF Present
    <3> QED
      BY <1>6, <1>10, <2>3, <2>12, <3>1 DEF Present, nodeVars
  <2>13. ASSUME NEW n \in NodesOf(b)' PROVE Known(id[n])'
    <3>1. CASE n = h
      BY <1>0, <1>2, <1>5, <1>6, <3>1 DEF Known, Inserting, OnCall, Settled, nodeVars
    <3>2. CASE n # h
      <4>1. n \in NodesOf(b) /\ n \in Nodes /\ id'[n] = id[n] /\ Known(id[n]) /\ id[n] # k
        BY <1>6, <1>14, <1>18, <2>2, <2>3, <2>13, <3>2 DEF PrivateOK, nodeVars, NodesOf
      <4>2. PICK l \in Ids : l = id[n] /\ Known(l)
        BY <4>1 DEF Known
      <4>3. Known(l)'
        BY <2>11, <4>1, <4>2
      <4> QED
        BY <4>1, <4>2, <4>3 DEF Known, Inserting, OnCall
    <3> QED
      BY <3>1, <3>2
  <2>14. \A i \in Ids : BucketOf[i] = b /\ (In(i)' \/ Inserting(i)') => Present(i)'
    BY <2>2, <2>11, <2>12 DEF PrivateOK
  <2> QED
    BY <2>3, <2>10, <2>13, <2>14 DEF PrivateOK
<1> QED
  BY <1>0, <1>11, <1>12, <1>13, <1>15, <1>16, <1>17, <1>19, <1>20, OneMoves

LEMMA UnlinkFirstStep ==
  ASSUME MapInv, NEW t \in Threads, UnlinkFirst(t)
  PROVE  MapInv'
<1>1. call[t].at = "unlinkFirst"
  BY DEF UnlinkFirst, At
<1>0. PICK k \in Ids, b \in Buckets, h \in Nodes :
        k = call[t].key /\ b = Place(call[t]) /\ h = call[t].idx
  BY <1>1, CallFacts DEF Knows, AtHead, AtWalk, AtNext
<1>2. /\ call \in [Threads -> Calls] /\ Knows(t, call[t]) /\ call[t].key = k
      /\ call[t].idx \in Links /\ call[t].nxt \in Links /\ call[t].aft \in Links /\ Null \in Links
      /\ state[b] \in {"chain", "converting", "tree"} /\ OwnerOf[k] = t /\ b = BucketOf[k]
  BY <1>0, <1>1, CallFacts DEF Links, Place
<1>3. /\ next \in [Nodes -> Links] /\ id \in [Nodes -> Ids \cup {NoId}] /\ free \in Seq(Nodes)
      /\ bucket \in [Nodes -> Buckets] /\ first \in [Buckets -> Links] /\ IdsOK /\ PlacesOK
      /\ Top \in Links
  BY <1>1, CallFacts, FreeFacts DEF MapInv, Links, Top
<1>4. PICK c : Step(t, c, "free", call[t].idx, Null, call[t].aft)
  <2>1. call' = [call EXCEPT ![t].nxt = Null, ![t].at = "free"]
    BY <1>1 DEF UnlinkFirst, Done, Bkt, Place
  <2>2. "free" \in Accesses
    BY DEF Accesses, Returned, AtHand, AtFilled, AtHead, AtWalk, AtNext, AtFind, AtTree,
           AtTreeify, AtOther
  <2> QED
    BY <1>2, <1>3, <2>1, <2>2, Steps
<1>5. /\ c \in Calls /\ c.key = k /\ c.at = "free" /\ Place(c) = b /\ call'[t] = c
      /\ c.idx = h /\ c.nxt = Null /\ c.aft = call[t].aft /\ call' = [call EXCEPT ![t] = c]
  BY <1>0, <1>2, <1>4 DEF Step, Place
<1>6. /\ id[h] = k /\ bucket[h] = b /\ k \in live
      /\ first[b] = h /\ first' = [first EXCEPT ![b] = call[t].nxt]
      /\ UNCHANGED <<next, id, bucket, free, len, state, overflow, history>>
  <2>1. id[h] = k /\ k \in live
    BY <1>0, <1>1, <1>2 DEF AtHead, Knows, ErasesInChain
  <2> QED
    BY <1>0, <1>1, <1>2, <1>3, <2>1, MapFacts DEF UnlinkFirst, Bkt, Place, IdsOK, nodeVars
<1>7. /\ first'[b] = call[t].nxt /\ \A x \in Buckets : x # b => first'[x] = first[x]
      /\ first' \in [Buckets -> Links] /\ next' \in [Nodes -> Links]
  BY <1>0, <1>2, <1>3, <1>6
<1>8. \A u \in Threads \ {t} : call'[u] = call[u] /\ (Holds(u)' <=> Holds(u))
  BY <1>2, <1>5 DEF Holds
<1>9. Holds(t)' /\ ~Holds(t)
  BY <1>1, <1>5 DEF Holds, AtHand, AtFilled
<1>10. InPlace(h) /\ \A i \in Nodes : InPlace(i)' <=> InPlace(i) /\ i # h
  <2>1. OnlyInPlace(k)
    BY <1>1, <1>2 DEF Knows, Places, ErasesInChain, AtHead, AtWalk, AtNext
  <2>2. InPlace(h)
    BY <1>6, <2>1 DEF OnlyInPlace
  <2>3. FreeNodes' = FreeNodes
    BY <1>6 DEF FreeNodes
  <2> QED
    BY <1>5, <1>8, <1>9, <2>2, <2>3 DEF InPlace
<1>11. MapTypeOK'
  BY <1>2, <1>5, <1>6, <1>7 DEF MapInv, MapTypeOK, history
<1>12. Spares(t)
  BY <1>0, <1>6, <1>8, <1>10 DEF Spares, history
<1>13. IdsOK' /\ PlacesOK'
  <2>1. FreeNodes' = FreeNodes /\ h \notin FreeNodes
    BY <1>6, <1>10 DEF FreeNodes, InPlace
  <2>2. \A u \in Threads \ {t} : Holds(u) => call[u].idx # h
    BY <1>10 DEF InPlace
  <2> QED
    BY <1>3, <1>5, <1>6, <1>8, <1>9, <2>1, <2>2 DEF IdsOK, PlacesOK, history
<1>14. \A i \in Nodes : id[i] = k => i = h
  BY <1>3, <1>6, MapFacts DEF IdsOK
<1>15. Knows(t, call[t])'
  BY <1>1, <1>2, <1>5, <1>6 DEF history, Knows, AtTreeify, AtHand, AtFilled, AtHead, AtWalk, AtNext, AtFind, AtTree, Place,
     InsertsOn, Before, Treeing, Settled, Places, ErasesInChain
<1>16. \A u \in Threads \ {t}, x \in Buckets : Converts(u, x) => state'[x] = state[x] /\ ~Converts(t, x)'
  BY <1>5, <1>6 DEF Converts, AtTreeify
<1>17. ~In(k)' /\ ~Inserting(k)'
  BY <1>2, <1>5, <1>6 DEF In, Inserting, OnCall, TookOut, Settled, Treeing, AtTreeify
<1>18. \A i, x : i \in NodesOf(x)' <=> i \in NodesOf(x) /\ i # h
  BY <1>6, <1>10 DEF NodesOf
<1>19. ASSUME NEW x \in Private, x # b
       PROVE  SparesBucket(t, x)
  <2>1. ~On(t, x) /\ ~On(t, x)'
    BY <1>0, <1>5, <1>19 DEF On
  <2>2. x \in Buckets /\ h \notin NodesOf(x)
    BY <1>6, <1>19 DEF Private, NodesOf
  <2> QED
    BY <1>6, <1>7, <1>18, <1>19, <2>1, <2>2 DEF SparesBucket
<1>20. ASSUME b \in Private
       PROVE  PrivateOK(b)' /\ ChainOK(b)'
  <2>1. PICK s \in Seq(Nodes) : Lists(s, b) /\ Walks(call[t], s) /\ KnowsAlone(call[t])
    BY <1>0, <1>1, <1>12, <1>20, OwnBucket
  <2>2. PrivateOK(b) /\ \A u \in Threads : On(u, b)' => u = t
    BY <1>0, <1>1, <1>12, <1>20, OwnBucket
  <2>3. /\ state[b] = "chain" /\ state'[b] = "chain" /\ s # <<>> /\ h = s[1]
        /\ first'[b] = Follow(s, 1) /\ next' = next
    BY <1>0, <1>1, <1>6, <1>7, <2>1 DEF KnowsAlone, AtChain, AtHead, Walks
  <2> DEFINE g == Tail(s)
  <2>4. /\ g \in Seq(Nodes) /\ Len(g) = Len(s) - 1 /\ Len(s) \in Nat \ {0}
        /\ \A p \in 1..(Len(s) - 1) : g[p] = s[p + 1]
        /\ \A p \in 0..(Len(s) - 1) : Follow(g, p) = Follow(s, p + 1)
    BY <2>3, WithoutFirst
  <2> HIDE DEF g
  <2>5. /\ DOMAIN g = 1..(Len(s) - 1) /\ DOMAIN s = 1..Len(s) /\ Follow(g, 0) = Follow(s, 1)
        /\ \A p \in DOMAIN g : p + 1 \in DOMAIN s /\ p + 1 # 1 /\ g[p] = s[p + 1] /\ p \in 0..(Len(s) - 1)
    BY <2>4
  <2>6. 1 \in DOMAIN s /\ \A p \in DOMAIN s : s[p] = h => p = 1
    BY <2>1, <2>3, <2>4, <2>5 DEF Lists
  <2>8. Lists(g, b)'
    <3>1. \A p \in DOMAIN g : g[p] \in NodesOf(b)' /\ next[g[p]] = Follow(g, p)
      BY <1>18, <2>1, <2>4, <2>5, <2>6 DEF Lists
    <3>2. ASSUME NEW i \in NodesOf(b)' PROVE \E p \in DOMAIN g : g[p] = i
      <4>1. i \in NodesOf(b) /\ i # h
        BY <1>18
      <4>2. PICK p \in DOMAIN s : s[p] = i
        BY <2>1, <4>1 DEF Lists
      <4>3. p # 1
        BY <2>3, <4>1, <4>2
      <4>4. p - 1 \in DOMAIN g /\ (p - 1) + 1 = p
        BY <2>4, <2>5, <4>3
      <4> QED
        BY <2>5, <4>2, <4>4
    <3>3. \A p, q \in DOMAIN g : g[p] = g[q] => p = q
      <4> SUFFICES ASSUME NEW p \in DOMAIN g, NEW q \in DOMAIN g, g[p] = g[q]
                   PROVE  p = q
        OBVIOUS
      <4>1. p + 1 = q + 1
        BY <2>1, <2>5 DEF Lists
      <4> QED
        BY <2>4, <2>5, <4>1
    <3>4. first'[b] = Follow(g, 0)
      BY <2>3, <2>5
    <3> QED
      BY <2>3, <2>4, <3>1, <3>2, <3>3, <3>4 DEF Lists, Follow
  <2>9. Walks(call[t], g)' /\ KnowsAlone(call[t])'
    <3>1. \A n \in NodesOf(b)' : id'[n] # k
      <4> SUFFICES ASSUME NEW n \in NodesOf(b)' PROVE id'[n] # k
        OBVIOUS
      <4>1. n # h /\ n \in Nodes
        BY <1>18 DEF NodesOf
      <4> QED
        BY <1>6, <1>14, <4>1
    <3> QED
      BY <1>0, <1>2, <1>5, <2>3, <3>1 DEF Walks, KnowsAlone, AtTreeify, AtHand, AtFilled, AtHead, AtWalk, AtNext,
         AtFind, AtTree, AtChain, TookOut
  <2>10. ChainOK(b)'
    BY <2>2, <2>4, <2>8, <2>9, ChainAfter
  <2>11. \A i \in Ids : i # k =>
           (In(i)' <=> In(i)) /\ (Inserting(i)' <=> Inserting(i)) /\ (Known(i)' <=> Known(i))
    BY <1>0, <1>1, <1>5, <1>12, OtherIds
  <2>12. ASSUME NEW i \in Ids, BucketOf[i] = b, i # k, Present(i) PROVE Present(i)'
    <3>1. PICK n \in Nodes : id[n] = i /\ InPlace(n)
      BY <2>3, <2>12 DEF Present
    <3>2. n # h
      BY <1>6, <2>12, <3>1
    <3> QED
      BY <1>6, <1>10, <2>3, <2>12, <3>1, <3>2 DEF Present
  <2>13. ASSUME NEW n \in NodesOf(b)' PROVE Known(id[n])'
    <3>1. n \in NodesOf(b) /\ n # h
      BY <1>18
    <3>2. n \in Nodes /\ id'[n] = id[n] /\ Known(id[n]) /\ id[n] # k
      BY <1>6, <1>14, <2>2, <2>3, <3>1 DEF PrivateOK, NodesOf
    <3>3. PICK l \in Ids : l = id[n] /\ Known(l)
      BY <3>2 DEF Known
    <3>4. Known(l)'
      BY <2>11, <3>2, <3>3
    <3> QED
      BY <3>2, <3>3, <3>4 DEF Known, Inserting, OnCall
  <2>14. \A i \in Ids : BucketOf[i] = b /\ (In(i)' \/ Inserting(i)') => Present(i)'
    BY <1>17, <2>2, <2>11, <2>12 DEF PrivateOK
  <2> QED
    BY <2>3, <2>10, <2>13, <2>14 DEF PrivateOK
<1> QED
  BY <1>0, <1>11, <1>12, <1>13, <1>15, <1>16, <1>17, <1>19, <1>20, OneMoves

LEMMA UnlinkNextStep ==
  ASSUME MapInv, NEW t \in Threads, UnlinkNext(t)
  PROVE  MapInv'
<1>1. call[t].at = "unlinkNext"
  BY DEF UnlinkNext, At
<1>0. PICK k \in Ids, b \in Buckets, h \in Nodes, m \in Nodes :
        k = call[t].key /\ b = Place(call[t]) /\ h = call[t].nxt /\ m = call[t].idx
  BY <1>1, CallFacts DEF Knows, AtWalk, AtNext
<1>2. /\ call \in [Threads -> Calls] /\ Knows(t, call[t]) /\ call[t].key = k
      /\ call[t].idx \in Links /\ call[t].nxt \in Links /\ call[t].aft \in Links /\ Null \in Links
      /\ state[b] \in {"chain", "converting", "tree"} /\ OwnerOf[k] = t /\ b = BucketOf[k]
  BY <1>0, <1>1, CallFacts DEF Links, Place
<1>3. /\ next \in [Nodes -> Links] /\ id \in [Nodes -> Ids \cup {NoId}] /\ free \in Seq(Nodes)
      /\ bucket \in [Nodes -> Buckets] /\ first \in [Buckets -> Links] /\ IdsOK /\ PlacesOK
      /\ Top \in Links
  BY <1>1, CallFacts, FreeFacts DEF MapInv, Links, Top
<1>4. PICK c : Step(t, c, "free", h, Null, Null)
  <2>1. call' = [call EXCEPT ![t] = [Idle EXCEPT !.at = "free", !.key = call[t].key, !.idx = h]]
    BY <1>0 DEF UnlinkNext
  <2>2. "free" \in Accesses
    BY DEF Accesses, Returned, AtHand, AtFilled, AtHead, AtWalk, AtNext, AtFind, AtTree,
           AtTreeify, AtOther
  <2> QED
    BY <1>2, <1>3, <2>1, <2>2, Steps DEF Links
<1>5. /\ c \in Calls /\ c.key = k /\ c.at = "free" /\ Place(c) = b /\ call'[t] = c
      /\ c.idx = h /\ c.nxt = Null /\ c.aft = Null /\ call' = [call EXCEPT ![t] = c]
  BY <1>0, <1>2, <1>4 DEF Step, Place
<1>6. /\ id[h] = k /\ bucket[h] = b /\ k \in live /\ next[m] = h
      /\ next' = [next EXCEPT ![m] = call[t].aft]
      /\ UNCHANGED <<first, id, bucket, free, len, state, overflow, history>>
  <2>1. id[h] = k /\ k \in live
    BY <1>0, <1>1, <1>2 DEF Knows, ErasesInChain, AtWalk, AtNext
  <2> QED
    BY <1>0, <1>1, <1>2, <1>3, <2>1, MapFacts DEF UnlinkNext, IdsOK, bucketVars, history
<1>7. /\ next'[m] = call[t].aft /\ \A x \in Nodes : x # m => next'[x] = next[x]
      /\ first' \in [Buckets -> Links] /\ next' \in [Nodes -> Links]
  BY <1>0, <1>2, <1>3, <1>6
<1>8. \A u \in Threads \ {t} : call'[u] = call[u] /\ (Holds(u)' <=> Holds(u))
  BY <1>2, <1>5 DEF Holds
<1>9. Holds(t)' /\ ~Holds(t)
  BY <1>1, <1>5 DEF Holds, AtHand, AtFilled
<1>10. InPlace(h) /\ \A i \in Nodes : InPlace(i)' <=> InPlace(i) /\ i # h
  <2>1. OnlyInPlace(k)
    BY <1>1, <1>2 DEF Knows, Places, ErasesInChain, AtHead, AtWalk, AtNext
  <2>2. InPlace(h)
    BY <1>6, <2>1 DEF OnlyInPlace
  <2>3. FreeNodes' = FreeNodes
    BY <1>6 DEF FreeNodes
  <2> QED
    BY <1>5, <1>8, <1>9, <2>2, <2>3 DEF InPlace
<1>11. MapTypeOK'
  BY <1>2, <1>5, <1>6, <1>7 DEF MapInv, MapTypeOK, history
<1>12. Spares(t)
  BY <1>0, <1>6, <1>8, <1>10 DEF Spares, history
<1>13. IdsOK' /\ PlacesOK'
  <2>1. FreeNodes' = FreeNodes /\ h \notin FreeNodes
    BY <1>6, <1>10 DEF FreeNodes, InPlace
  <2>2. \A u \in Threads \ {t} : Holds(u) => call[u].idx # h
    BY <1>10 DEF InPlace
  <2> QED
    BY <1>3, <1>5, <1>6, <1>8, <1>9, <2>1, <2>2 DEF IdsOK, PlacesOK, history
<1>14. \A i \in Nodes : id[i] = k => i = h
  BY <1>3, <1>6, MapFacts DEF IdsOK
<1>15. Knows(t, call[t])'
  BY <1>1, <1>2, <1>5, <1>6 DEF history, Knows, AtTreeify, AtHand, AtFilled, AtHead, AtWalk, AtNext, AtFind, AtTree, Place,
     InsertsOn, Before, Treeing, Settled, Places, ErasesInChain
<1>16. \A u \in Threads \ {t}, x \in Buckets : Converts(u, x) => state'[x] = state[x] /\ ~Converts(t, x)'
  BY <1>5, <1>6 DEF Converts, AtTreeify
<1>17. ~In(k)' /\ ~Inserting(k)'
  BY <1>2, <1>5, <1>6 DEF In, Inserting, OnCall, TookOut, Settled, Treeing, AtTreeify
<1>18. \A i, x : i \in NodesOf(x)' <=> i \in NodesOf(x) /\ i # h
  BY <1>6, <1>10 DEF NodesOf
<1>19. ASSUME NEW x \in Private, x # b
       PROVE  SparesBucket(t, x)
  <2>1. ~On(t, x) /\ ~On(t, x)'
    BY <1>0, <1>5, <1>19 DEF On
  <2>2. x \in Buckets /\ h \notin NodesOf(x)
    BY <1>6, <1>19 DEF Private, NodesOf
  <2>3. PICK s \in Seq(Nodes) :
          Lists(s, x) /\ \A u \in Threads : On(u, x) => Walks(call[u], s)
    BY DEF MapInv, ChainOK
  <2>4. \A p \in 0..Len(s) : Follow(s, p) # h
    <3>1. \A p \in DOMAIN s : s[p] # h
      BY <2>2, <2>3 DEF Lists
    <3> SUFFICES ASSUME NEW p \in 0..Len(s) PROVE Follow(s, p) # h
      OBVIOUS
    <3>2. CASE p = Len(s)
      BY <1>0, <3>2, MapFacts DEF Follow
    <3>3. CASE p # Len(s)
      <4>1. p + 1 \in DOMAIN s /\ Follow(s, p) = s[p + 1]
        BY <3>3, ListFacts
      <4> QED
        BY <3>1, <4>1
    <3> QED
      BY <3>2, <3>3
  <2>5. ASSUME NEW i \in NodesOf(x) PROVE i # m /\ i \in Nodes
    <3>1. PICK p \in DOMAIN s : s[p] = i
      BY <2>3, <2>5 DEF Lists
    <3>2. next[i] = Follow(s, p) /\ p \in 0..Len(s)
      BY <2>3, <3>1, ListFacts DEF Lists
    <3> QED
      BY <1>6, <2>4, <2>5, <3>2 DEF NodesOf
  <2>6. \A u \in Threads : On(u, x) /\ call[u].at = "publish" => next'[call[u].idx] = next[call[u].idx]
    <3> SUFFICES ASSUME NEW u \in Threads, On(u, x), call[u].at = "publish"
                 PROVE  next'[call[u].idx] = next[call[u].idx]
      OBVIOUS
    <3>1. call[u].idx \in Nodes /\ next[call[u].idx] = Follow(s, 0)
      <4>1. Knows(u, call[u])
        BY DEF MapInv
      <4> QED
        BY <2>3, <4>1 DEF Walks, Knows, AtHand, AtFilled
    <3>2. Follow(s, 0) # h
      BY <2>4, ListFacts
    <3> QED
      BY <1>6, <1>7, <3>1, <3>2
  <2> QED
    BY <1>6, <1>7, <1>18, <1>19, <2>1, <2>2, <2>5, <2>6 DEF SparesBucket
<1>20. ASSUME b \in Private
       PROVE  PrivateOK(b)' /\ ChainOK(b)'
  <2>1. PICK s \in Seq(Nodes) : Lists(s, b) /\ Walks(call[t], s) /\ KnowsAlone(call[t])
    BY <1>0, <1>1, <1>12, <1>20, OwnBucket
  <2>2. PrivateOK(b) /\ \A u \in Threads : On(u, b)' => u = t
    BY <1>0, <1>1, <1>12, <1>20, OwnBucket
  <2>3. PICK p \in DOMAIN s : StandsAt(call[t], s, p)
    BY <1>1, <2>1 DEF Walks, AtWalk, AtNext
  <2>4. /\ state[b] = "chain" /\ state'[b] = "chain" /\ s[p] = m
        /\ p < Len(s) /\ Follow(s, p) = h /\ call[t].aft = Follow(s, p + 1)
    BY <1>0, <1>1, <1>6, <2>1, <2>3 DEF KnowsAlone, AtChain, AtWalk, AtNext, StandsAt
  <2>5. PICK n \in Nat : n = Len(s) /\ DOMAIN s = 1..n /\ p \in 1..(n - 1)
    BY <2>4, ListFacts
  <2>6. h = s[p + 1] /\ \A q \in DOMAIN s : (s[q] = h => q = p + 1) /\ (s[q] = m => q = p)
    <3>1. h = s[p + 1] /\ p + 1 \in DOMAIN s
      BY <2>4, <2>5 DEF Follow
    <3> QED
      BY <2>1, <2>4, <3>1 DEF Lists
  <2> DEFINE g == Cut(s, p)
  <2>7. /\ g \in Seq(Nodes) /\ Len(g) = n - 1
        /\ \A q \in 1..(n - 1) : g[q] = IF q <= p THEN s[q] ELSE s[q + 1]
        /\ \A q \in 0..(n - 1) : Follow(g, q) = IF q < p THEN Follow(s, q) ELSE Follow(s, q + 1)
    BY <2>5, WithoutOne
  <2> HIDE DEF g
  <2>16. DOMAIN g = 1..(n - 1) /\ Follow(g, 0) = Follow(s, 0)
    BY <2>5, <2>7
  <2>8. Lists(g, b)'
    <3>1. ASSUME NEW q \in DOMAIN g
          PROVE  g[q] \in NodesOf(b)' /\ next'[g[q]] = Follow(g, q)
      <4>1. CASE q < p
        <5>1. q \in DOMAIN s /\ g[q] = s[q] /\ Follow(g, q) = Follow(s, q) /\ q # p /\ q # p + 1
          BY <2>5, <2>7, <2>16, <4>1
        <5>2. g[q] \in NodesOf(b) /\ next[g[q]] = Follow(s, q) /\ g[q] # h /\ g[q] # m /\ g[q] \in Nodes
          BY <2>1, <2>6, <5>1 DEF Lists
        <5> QED
          BY <1>7, <1>18, <5>1, <5>2
      <4>2. CASE q = p
        <5>1. g[q] = s[p] /\ Follow(g, q) = Follow(s, p + 1) /\ p # p + 1
          BY <2>5, <2>7, <2>16, <4>2
        <5>2. g[q] \in NodesOf(b) /\ g[q] # h
          BY <2>1, <2>6, <5>1 DEF Lists
        <5> QED
          BY <1>7, <1>18, <2>4, <5>1, <5>2
      <4>3. CASE q > p
        <5>1. q + 1 \in DOMAIN s /\ g[q] = s[q + 1] /\ Follow(g, q) = Follow(s, q + 1) /\ q + 1 # p /\ q + 1 # p + 1
          BY <2>5, <2>7, <2>16, <4>3
        <5>2. g[q] \in NodesOf(b) /\ next[g[q]] = Follow(s, q + 1) /\ g[q] # h /\ g[q] # m /\ g[q] \in Nodes
          BY <2>1, <2>6, <5>1 DEF Lists
        <5> QED
          BY <1>7, <1>18, <5>1, <5>2
      <4> QED
        BY <2>5, <2>16, <4>1, <4>2, <4>3
    <3>2. ASSUME NEW i \in NodesOf(b)' PROVE \E q \in DOMAIN g : g[q] = i
      <4>1. i \in NodesOf(b) /\ i # h
        BY <1>18
      <4>2. PICK q \in DOMAIN s : s[q] = i
        BY <2>1, <4>1 DEF Lists
      <4>3. q # p + 1
        BY <2>6, <4>1, <4>2
      <4>4. CASE q <= p
        BY <2>5, <2>7, <2>16, <4>2, <4>4
      <4>5. CASE q > p
        <5>1. q - 1 \in DOMAIN g /\ q - 1 \in 1..(n - 1) /\ ~(q - 1 <= p) /\ (q - 1) + 1 = q
          BY <2>5, <2>16, <4>3, <4>5
        <5> QED
          BY <2>7, <4>2, <5>1
      <4> QED
        BY <2>5, <4>4, <4>5
    <3>3. \A q, r \in DOMAIN g : g[q] = g[r] => q = r
      <4> DEFINE old(q) == IF q <= p THEN q ELSE q + 1
      <4>1. \A q \in DOMAIN g : g[q] = s[old(q)] /\ old(q) \in DOMAIN s
        BY <2>5, <2>7, <2>16
      <4>2. \A q, r \in DOMAIN g : old(q) = old(r) => q = r
        BY <2>5, <2>16
      <4> HIDE DEF old
      <4> QED
        BY <2>1, <4>1, <4>2 DEF Lists
    <3>4. first'[b] = Follow(g, 0)
      BY <1>6, <2>1, <2>16 DEF Lists
    <3> QED
      BY <2>7, <3>1, <3>2, <3>3, <3>4 DEF Lists, Follow
  <2>9. Walks(call[t], g)' /\ KnowsAlone(call[t])'
    <3>1. \A i \in NodesOf(b)' : id'[i] # k
      <4> SUFFICES ASSUME NEW i \in NodesOf(b)' PROVE id'[i] # k
        OBVIOUS
      <4>1. i # h /\ i \in Nodes
        BY <1>18 DEF NodesOf
      <4> QED
        BY <1>6, <1>14, <4>1
    <3> QED
      BY <1>0, <1>2, <1>5, <2>4, <3>1 DEF Walks, KnowsAlone, AtTreeify, AtHand, AtFilled, AtHead, AtWalk, AtNext,
         AtFind, AtTree, AtChain, TookOut
  <2>10. ChainOK(b)'
    BY <2>2, <2>7, <2>8, <2>9, ChainAfter
  <2>11. \A i \in Ids : i # k =>
           (In(i)' <=> In(i)) /\ (Inserting(i)' <=> Inserting(i)) /\ (Known(i)' <=> Known(i))
    BY <1>0, <1>1, <1>5, <1>12, OtherIds
  <2>12. ASSUME NEW i \in Ids, BucketOf[i] = b, i # k, Present(i) PROVE Present(i)'
    <3>1. PICK x \in Nodes : id[x] = i /\ InPlace(x)
      BY <2>4, <2>12 DEF Present
    <3>2. x # h
      BY <1>6, <2>12, <3>1
    <3> QED
      BY <1>6, <1>10, <2>4, <2>12, <3>1, <3>2 DEF Present
  <2>13. ASSUME NEW i \in NodesOf(b)' PROVE Known(id[i])'
    <3>1. i \in NodesOf(b) /\ i # h
      BY <1>18
    <3>2. i \in Nodes /\ id'[i] = id[i] /\ Known(id[i]) /\ id[i] # k
      BY <1>6, <1>14, <2>2, <2>4, <3>1 DEF PrivateOK, NodesOf
    <3>3. PICK l \in Ids : l = id[i] /\ Known(l)
      BY <3>2 DEF Known
    <3>4. Known(l)'
      BY <2>11, <3>2, <3>3
    <3> QED
      BY <3>2, <3>3, <3>4 DEF Known, Inserting, OnCall
  <2>14. \A i \in Ids : BucketOf[i] = b /\ (In(i)' \/ Inserting(i)') => Present(i)'
    BY <1>17, <2>2, <2>11, <2>12 DEF PrivateOK
  <2> QED
    BY <2>4, <2>10, <2>13, <2>14 DEF PrivateOK
<1> QED
  BY <1>0, <1>11, <1>12, <1>13, <1>15, <1>16, <1>17, <1>19, <1>20, OneMoves

-----------------------------------------------------------------------------
\* The constructor's map, with what was loaded.
LEMMA InitMap == IndexInit => MapInv
<1> SUFFICES ASSUME IndexInit PROVE MapInv
  OBVIOUS
<1>1. PICK n \in Nat : n = Taken
  BY MapConstants DEF Taken
<1>2. PICK m \in Nat \ {0} : m = Capacity /\ n <= m /\ Nodes = 0..(m - 1)
  BY <1>1, MapFacts, MapConstants DEF Taken
<1>3. /\ Loaded \in Seq(Ids) /\ DOMAIN Loaded = 1..n /\ \A p \in 1..n : Loaded[p] \in Ids
      /\ \A p, q \in 1..n : /\ BucketOf[Loaded[p]] = BucketOf[Loaded[q]]
                            /\ Loaded[p] = Loaded[q] => p = q
  <2>1. Loaded \in Seq(Ids) /\ Len(Loaded) = n
    BY <1>1, MapConstants DEF Taken
  <2>2. DOMAIN Loaded = 1..n /\ \A p \in 1..n : Loaded[p] \in Ids
    BY <2>1
  <2> QED
    BY <2>1, <2>2, MapConstants
<1>4. \A i \in Nodes : i < n => i + 1 \in 1..n
  BY <1>1, <1>2
<1>5. \A i \in Nodes : /\ i < n => id[i] = Loaded[i + 1] /\ id[i] \in Ids /\ bucket[i] = BucketOf[id[i]]
                       /\ ~(i < n) => id[i] = NoId /\ bucket[i] = 0
  BY <1>1, <1>3, <1>4 DEF IndexInit
<1>6. \A i \in Nodes : i < n => next[i] = IF i = 0 THEN Null ELSE i - 1
  BY <1>1 DEF IndexInit
<1>7. /\ call = [t \in Threads |-> Idle] /\ \A t \in Threads : call[t] = Idle /\ ~Holds(t)
      /\ Idle.at = "idle" /\ Idle.key = NoId /\ Idle \in Calls
  BY MapFacts DEF IndexInit, Holds, AtHand, AtFilled, Idle, Calls, Links, Accesses, AtOther
<1>8. /\ free \in Seq(Nodes) /\ DOMAIN free = 1..(m - n)
      /\ \A p \in 1..(m - n) : free[p] = n + p - 1
  <2>1. free = [p \in 1..(m - n) |-> n + p - 1] /\ m - n \in Nat
    BY <1>1, <1>2 DEF IndexInit
  <2>2. free \in [1..(m - n) -> Nodes]
    BY <1>1, <1>2, <2>1
  <2>3. \A x \in Nat : \A f \in [1..x -> Nodes] : f \in Seq(Nodes)
    OBVIOUS
  <2> QED
    BY <2>1, <2>2, <2>3
<1>9. \A i \in Nodes : InPlace(i) <=> i < n
  <2>1. \A i \in Nodes : i \in FreeNodes <=> ~(i < n)
    <3>1. \A p \in 1..(m - n) : ~(free[p] < n)
      BY <1>1, <1>2, <1>8
    <3>2. \A i \in Nodes : ~(i < n) => i - n + 1 \in 1..(m - n) /\ free[i - n + 1] = i
      BY <1>1, <1>2, <1>8
    <3> QED
      BY <1>8, <3>1, <3>2 DEF FreeNodes
  <2> QED
    BY <1>7, <2>1 DEF InPlace
<1>10. /\ used = ToSet(Loaded) /\ live = used /\ used = {Loaded[p] : p \in 1..n} /\ used \subseteq Ids
       /\ \A i \in Nodes : i < n => id[i] \in used
  BY <1>3, <1>4, <1>5 DEF IndexInit, ToSet
<1>11. /\ \A b \in Buckets : state[b] = "chain"
       /\ \A b \in Buckets : first[b] = IF n > 0 /\ BucketOf[Loaded[1]] = b THEN n - 1 ELSE Null
       /\ \A b \in Buckets : first[b] \in Links
  BY <1>1, <1>2 DEF IndexInit, Links
<1>12. MapTypeOK
  <2>1. first \in [Buckets -> Links] /\ len \in [Buckets -> Int]
    BY <1>1, <1>2 DEF IndexInit, Links
  <2>2. state \in [Buckets -> {"chain", "converting", "tree"}]
    BY DEF IndexInit
  <2>3. next \in [Nodes -> Links]
    BY <1>1, <1>2 DEF IndexInit, Links
  <2>4. id \in [Nodes -> Ids \cup {NoId}]
    BY <1>1, <1>3, <1>4 DEF IndexInit
  <2>5. bucket \in [Nodes -> Buckets]
    <3>1. 0 \in Buckets /\ BucketOf \in [Ids -> Buckets]
      BY MapConstants
    <3> QED
      BY <1>1, <1>3, <1>4, <3>1 DEF IndexInit
  <2> QED
    BY <1>7, <1>8, <1>10, <2>1, <2>2, <2>3, <2>4, <2>5 DEF MapTypeOK
<1>13. IdsOK
  <2>1. ASSUME NEW i \in Nodes, NEW j \in Nodes, id[i] = id[j], id[i] # NoId PROVE i = j
    <3>1. i < n /\ j < n
      BY <1>5, <2>1
    <3>2. i + 1 = j + 1
      BY <1>3, <1>4, <1>5, <2>1, <3>1
    <3> QED
      BY <1>2, <3>2
  <2> QED
    BY <1>5, <1>10, <2>1 DEF IdsOK
<1>14. PlacesOK
  <2>1. \A p, q \in DOMAIN free : free[p] = free[q] => p = q
    BY <1>1, <1>2, <1>8
  <2> QED
    BY <1>7, <2>1 DEF PlacesOK
<1>15. LiveOK
  BY <1>5, <1>9, <1>10, MapFacts DEF LiveOK, OnlyInPlace
<1>16. ConvertsOK /\ \A t \in Threads : Knows(t, call[t])
  BY <1>7 DEF ConvertsOK, Converts, Knows, AtTreeify, AtHand, AtFilled, AtHead, AtWalk, AtNext,
     AtFind, AtTree, InsertsOn, Before, Treeing, Settled, Places, ErasesInChain
<1>17. ASSUME NEW b \in Private
       PROVE  PrivateOK(b) /\ ChainOK(b)
  <2>1. b \in Buckets
    BY DEF Private
  <2>2. \A k \in Ids : ~Inserting(k)
    <3>1. \A k \in Ids : OwnerOf[k] \in Threads
      BY MapFacts
    <3> QED
      BY <1>7, <3>1 DEF Inserting, Settled, Treeing, AtTreeify
  <2>3. ASSUME NEW k \in Ids, BucketOf[k] = b, In(k) PROVE Present(k)
    <3>1. PICK p \in 1..n : Loaded[p] = k
      BY <1>10, <2>3 DEF In
    <3>2. p - 1 \in Nodes /\ p - 1 < n /\ (p - 1) + 1 = p
      BY <1>1, <1>2
    <3>3. id[p - 1] = k /\ InPlace(p - 1)
      BY <1>5, <1>9, <3>1, <3>2
    <3> QED
      BY <1>11, <2>1, <2>3, <3>2, <3>3 DEF Present
  <2>4. \A i \in NodesOf(b) : Known(id[i])
    BY <1>5, <1>9, <1>10 DEF NodesOf, Known
  <2>5. PrivateOK(b)
    BY <1>11, <2>1, <2>2, <2>3, <2>4 DEF PrivateOK
  <2>6. \A t \in Threads : ~On(t, b)
    BY <1>7 DEF On
  <2>7. CASE n > 0 /\ BucketOf[Loaded[1]] = b
    <3> DEFINE s == [p \in 1..n |-> n - p]
    <3>1. s \in [1..n -> Nodes]
      BY <1>1, <1>2
    <3>2. \A p \in 1..n : s[p] = n - p
      OBVIOUS
    <3> HIDE DEF s
    <3>3. s \in Seq(Nodes) /\ Len(s) = n /\ DOMAIN s = 1..n
      BY <1>1, <3>1
    <3>4. \A i \in Nodes : i \in NodesOf(b) <=> i < n
      <4>1. \A i \in Nodes : i < n => bucket[i] = b
        BY <1>1, <1>3, <1>4, <1>5, <2>7
      <4> QED
        BY <1>9, <4>1 DEF NodesOf
    <3>5. ASSUME NEW p \in 1..n
          PROVE  s[p] \in NodesOf(b) /\ next[s[p]] = Follow(s, p)
      <4>1. s[p] \in Nodes /\ s[p] < n /\ s[p] = n - p
        BY <1>1, <1>2, <3>2
      <4>2. CASE p = n
        BY <1>6, <3>3, <3>4, <4>1, <4>2 DEF Follow
      <4>3. CASE p # n
        <5>1. p + 1 \in 1..n /\ n - p # 0 /\ n - (p + 1) = (n - p) - 1
          BY <1>1, <4>3
        <5> QED
          BY <1>6, <3>2, <3>3, <3>4, <4>1, <4>3, <5>1 DEF Follow
      <4> QED
        BY <4>2, <4>3
    <3>6. ASSUME NEW i \in NodesOf(b) PROVE \E p \in 1..n : s[p] = i
      <4>1. i \in Nodes /\ i < n
        BY <3>4 DEF NodesOf
      <4>2. n - i \in 1..n /\ n - (n - i) = i
        BY <1>1, <1>2, <4>1
      <4> QED
        BY <3>2, <4>2
    <3>7. \A p, q \in 1..n : s[p] = s[q] => p = q
      BY <1>1, <3>2
    <3>8. first[b] = Follow(s, 0)
      <4>1. 1 \in 1..n /\ 0 # n
        BY <1>1, <2>7
      <4> QED
        BY <1>11, <2>1, <2>7, <3>2, <3>3, <4>1 DEF Follow
    <3>9. Lists(s, b)
      BY <3>3, <3>5, <3>6, <3>7, <3>8 DEF Lists
    <3> QED
      BY <2>5, <2>6, <3>3, <3>9 DEF ChainOK
  <2>8. CASE ~(n > 0 /\ BucketOf[Loaded[1]] = b)
    <3>1. \A i \in NodesOf(b) : FALSE
      <4> SUFFICES ASSUME NEW i \in NodesOf(b) PROVE FALSE
        OBVIOUS
      <4>1. i \in Nodes /\ i < n /\ bucket[i] = b
        BY <1>9 DEF NodesOf
      <4>2. n > 0 /\ 1 \in 1..n /\ i + 1 \in 1..n
        BY <1>1, <1>2, <4>1
      <4> QED
        BY <1>3, <1>5, <2>8, <4>1, <4>2
    <3>2. <<>> \in Seq(Nodes) /\ Len(<<>>) = 0 /\ DOMAIN <<>> = {}
      OBVIOUS
    <3>3. Lists(<<>>, b)
      BY <1>11, <2>1, <2>8, <3>1, <3>2 DEF Lists, Follow
    <3> QED
      BY <2>5, <2>6, <3>2, <3>3 DEF ChainOK
  <2> QED
    BY <2>7, <2>8
<1> QED
  BY <1>12, <1>13, <1>14, <1>15, <1>16, <1>17 DEF MapInv

LEMMA MapStep ==
  ASSUME MapInv, IndexNext
  PROVE  MapInv'
<1>1. PICK t \in Threads : (\E op \in {"insert", "find", "erase"}, i \in Ids : Start(t, op, i)) \/ Continue(t)
  BY DEF IndexNext
<1>2. CASE \E op \in {"insert", "find", "erase"}, i \in Ids : Start(t, op, i)
  BY <1>2, StartStep
<1>3. CASE InsertSteps(t)
  <2>1. AllocNode(t) => MapInv'
    BY AllocNone, AllocTaken
  <2> QED
    BY <1>3, <2>1, GateInsert, CheckLengthStep, FillStep, GateRecheck, ReadFirstStep, LinkStep,
       PublishStep, PublishFailsStep, GateRetry, GiveBackStep, CountInStep, CheckLengthAgainStep,
       TreeAddStep DEF InsertSteps
<1>4. CASE TreeifySteps(t)
  <2>1. Claim(t) => MapInv'
    BY ClaimStep, ClaimTaken DEF Bkt, Place
  <2> QED
    BY <1>4, <2>1, LockStep, CopyStep, CopyEndsStep DEF TreeifySteps
<1>5. CASE FindSteps(t)
  BY <1>5, GateFind, FindFirstStep, SameBucketStep, CompareStep, AdvanceStep, TreeFindStep DEF FindSteps
<1>6. CASE EraseSteps(t)
  <2>1. IsNext(t) => MapInv'
    BY IsNextHit, IsNextMiss
  <2> QED
    BY <1>6, <2>1, GateErase, EraseFirstStep, IsFirstStep, ReadSecondStep, UnlinkFirstStep,
       UnlinkFirstFailsStep, StillFirstStep, WalkStep, ReadNextStep, ReadAfterStep, UnlinkNextStep,
       UnlinkNextFailsStep, FreeErasedStep, CountOutStep, TreeEraseStep DEF EraseSteps
<1>7. CASE Return(t)
  BY <1>7, ReturnStep
<1> QED
  BY <1>1, <1>2, <1>3, <1>4, <1>5, <1>6, <1>7 DEF Continue

LEMMA MapStutter ==
  ASSUME MapInv, UNCHANGED indexVars
  PROVE  MapInv'
<1> USE DEF indexVars, nodeVars, bucketVars, history
<1>1. UNCHANGED <<first, len, state, next, id, bucket, free, overflow, used, live, call>>
  OBVIOUS
<1>2. MapTypeOK' /\ IdsOK' /\ PlacesOK' /\ ConvertsOK'
  BY DEF MapInv, MapTypeOK, IdsOK, PlacesOK, ConvertsOK, Converts, Holds, FreeNodes
<1>3. \A i : InPlace(i)' <=> InPlace(i)
  BY DEF InPlace, Holds, FreeNodes
<1>4. \A k : (OnlyInPlace(k)' <=> OnlyInPlace(k)) /\ (HasNode(k)' <=> HasNode(k)) /\ (In(k)' <=> In(k))
             /\ (Inserting(k)' <=> Inserting(k)) /\ (Known(k)' <=> Known(k)) /\ (Present(k)' <=> Present(k))
  BY <1>3 DEF OnlyInPlace, HasNode, In, Inserting, Known, OnCall, Present
<1>5. LiveOK'
  BY <1>4 DEF MapInv, LiveOK
<1>6. \A b, i : i \in NodesOf(b)' <=> i \in NodesOf(b)
  BY <1>3 DEF NodesOf
<1>7. ASSUME NEW t \in Threads PROVE Knows(t, call[t])'
  <2>1. Knows(t, call[t])
    BY DEF MapInv
  <2>2. /\ Place(call[t])' = Place(call[t]) /\ (Places(call[t])' <=> Places(call[t]))
        /\ (Before(call[t])' <=> Before(call[t])) /\ (InsertsOn(call[t])' <=> InsertsOn(call[t]))
        /\ (ErasesInChain(call[t])' <=> ErasesInChain(call[t]))
    BY DEF Place, Places, Before, InsertsOn, ErasesInChain
  <2>3. /\ HasNode(call[t].key)' <=> HasNode(call[t].key)
        /\ OnlyInPlace(call[t].key)' <=> OnlyInPlace(call[t].key)
    BY <1>3 DEF HasNode, OnlyInPlace
  <2> QED
    BY <2>1, <2>2, <2>3 DEF Knows
<1>8. ASSUME NEW b \in Private PROVE PrivateOK(b)' /\ ChainOK(b)'
  <2>1. PrivateOK(b) /\ ChainOK(b) /\ b \in Buckets
    BY DEF MapInv, Private
  <2>2. \A i \in Nodes : Known(id[i])' <=> Known(id[i])
    BY DEF Known, Inserting, OnCall
  <2>3. PrivateOK(b)'
    <3>1. \A t \in Threads : Place(call[t])' = Place(call[t])
      BY DEF Place
    <3> QED
      BY <1>4, <1>6, <2>1, <2>2, <3>1 DEF PrivateOK, NodesOf
  <2>4. PICK s \in Seq(Nodes) :
          Lists(s, b) /\ \A t \in Threads : On(t, b) => Walks(call[t], s) /\ KnowsAlone(call[t])
    BY <2>1 DEF ChainOK
  <2>5. Lists(s, b)'
    BY <1>6, <2>1, <2>4, SameNodes
  <2>6. ASSUME NEW t \in Threads, On(t, b)' PROVE Walks(call[t], s)' /\ KnowsAlone(call[t])'
    <3>1. Walks(call[t], s) /\ KnowsAlone(call[t])
      BY <2>4, <2>6 DEF On, Place
    <3>2. Walks(call[t], s)'
      BY <3>1 DEF Walks, StandsAt, Passed, Copied, Follow
    <3>3. KnowsAlone(call[t])'
      <4>1. \A x : (\A i \in NodesOf(x) : id[i] # call[t].key) => (\A i \in NodesOf(x)' : id'[i] # call'[t].key)
        BY <1>6
      <4>2. Place(call[t])' = Place(call[t]) /\ (TookOut(call[t])' <=> TookOut(call[t]))
        BY DEF Place, TookOut
      <4>3. \A i : i \in NodesOf(Place(call[t]))' <=> i \in NodesOf(Place(call[t]))
        BY <1>3, <4>2 DEF NodesOf
      <4> QED
        BY <3>1, <4>2, <4>3 DEF KnowsAlone
    <3> QED
      BY <3>2, <3>3
  <2> QED
    BY <2>3, <2>4, <2>5, <2>6 DEF ChainOK
<1> QED
  BY <1>2, <1>5, <1>7, <1>8 DEF MapInv

\* What insert, find, erase and treeify keep true between any two of their accesses, for
\* any number of threads: where every node is, what every call knows, and what the chains
\* of private buckets are.
THEOREM IndexInvariant == IndexSpec => []MapInv
<1>1. MapInv /\ [IndexNext]_indexVars => MapInv'
  BY MapStep, MapStutter
<1> QED
  BY <1>1, InitMap, PTL DEF IndexSpec

\* A list with no element twice has as many elements as it is long.
LEMMA DistinctLength ==
  ASSUME NEW s \in Seq(Nodes), Distinct(s)
  PROVE  Len(s) = Cardinality(NodesIn(s)) /\ Len(s) <= Capacity
<1> DEFINE n == Len(s)
           T == NodesIn(s)
<1>1. n \in Nat /\ s \in [1..n -> Nodes] /\ DOMAIN s = 1..n
  OBVIOUS
<1>2. s \in [1..n -> T] /\ \A x \in T : \E p \in 1..n : s[p] = x
  BY <1>1 DEF NodesIn
<1>3. \A p, q \in 1..n : s[p] = s[q] => p = q
  BY <1>1 DEF Distinct
<1>4. IsFiniteSet(1..n) /\ Cardinality(1..n) = n
  BY <1>1, FS_Interval
<1>5. IsFiniteSet(Nodes) /\ Cardinality(Nodes) = Capacity
  <2>1. Capacity \in Nat /\ Nodes = 0..(Capacity - 1)
    BY MapFacts
  <2> QED
    BY <2>1, FS_Interval
<1> HIDE DEF n, T
<1>6. s \in Bijection(1..n, T)
  BY <1>2, <1>3 DEF Bijection, Injection, Surjection, IsInjective
<1>7. Cardinality(T) = n
  BY <1>4, <1>6, FS_Bijection DEF ExistsBijection
<1>8. s \in Injection(1..n, Nodes)
  BY <1>1, <1>3 DEF Injection, IsInjective
<1>9. n <= Capacity
  BY <1>4, <1>5, <1>8, FS_Injection
<1> QED
  BY <1>7, <1>9 DEF n, T

\* The chain of a private bucket is its nodes.
LEMMA ChainIsNodes ==
  ASSUME MapInv, NEW b \in Private
  PROVE  Chain(b) = NodesOf(b)
<1> DEFINE step(h) == [n \in 0..Capacity |->
                         IF n = 0 THEN first[b] ELSE IF h[n - 1] = Null THEN Null ELSE next[h[n - 1]]]
           hop == CHOOSE h : h = step(h)
<1>1. Chain(b) = {hop[n] : n \in 0..Capacity} \ {Null}
  BY DEF Chain
<1>2. PICK s \in Seq(Nodes) : Lists(s, b)
  BY DEF MapInv, ChainOK
<1>3. Capacity \in Nat \ {0} /\ Len(s) <= Capacity /\ Len(s) \in Nat /\ DOMAIN s = 1..Len(s)
  <2>1. Distinct(s)
    BY <1>2 DEF Lists, Distinct
  <2> QED
    BY <2>1, DistinctLength, MapFacts, ListFacts
<1> DEFINE g == [n \in 0..Capacity |-> IF n < Len(s) THEN s[n + 1] ELSE Null]
<1>4. \A n \in 0..Capacity : g[n] = IF n < Len(s) THEN s[n + 1] ELSE Null
  OBVIOUS
<1> HIDE DEF g
<1>5. ASSUME NEW n \in 0..Capacity
      PROVE  g[n] = IF n = 0 THEN first[b] ELSE IF g[n - 1] = Null THEN Null ELSE next[g[n - 1]]
  <2>1. CASE n = 0
    BY <1>2, <1>3, <1>4, <2>1 DEF Lists, Follow
  <2>2. CASE n # 0 /\ n - 1 < Len(s)
    <3>1. n - 1 \in 0..Capacity /\ n \in DOMAIN s /\ (n - 1) + 1 = n
      BY <1>3, <2>2
    <3>2. g[n - 1] = s[n] /\ s[n] \in Nodes /\ next[s[n]] = Follow(s, n)
      BY <1>2, <1>4, <2>2, <3>1 DEF Lists
    <3>3. g[n] = Follow(s, n)
      <4>1. CASE n = Len(s)
        BY <1>3, <1>4, <4>1 DEF Follow
      <4>2. CASE n # Len(s)
        <5>1. n \in Nat /\ n < Len(s)
          <6>1. PICK m \in Nat : m = Len(s)
            BY <1>3
          <6>2. n \in Nat
            <7>1. Capacity \in Nat
              BY <1>3
            <7> QED
              BY <7>1
          <6>3. n - 1 < m /\ n # m
            BY <2>2, <4>2, <6>1
          <6>4. n < m
            BY <6>1, <6>2, <6>3
          <6> QED
            BY <6>1, <6>2, <6>3
        <5> QED
          BY <1>4, <4>2, <5>1 DEF Follow
      <4> QED
        BY <4>1, <4>2
    <3> QED
      BY <2>2, <3>2, <3>3, MapFacts
  <2>3. CASE n # 0 /\ ~(n - 1 < Len(s))
    BY <1>3, <1>4, <2>3
  <2> QED
    BY <2>1, <2>2, <2>3
<1>6. hop = step(hop)
  <2>1. g = step(g)
    <3>1. g = [n \in 0..Capacity |-> g[n]]
      BY DEF g
    <3> QED
      BY <1>5, <3>1
  <2> HIDE DEF step
  <2> QED
    BY <2>1
<1>7. \A n \in 0..Capacity : hop[n] = IF n = 0 THEN first[b] ELSE IF hop[n - 1] = Null THEN Null ELSE next[hop[n - 1]]
  <2> HIDE DEF hop
  <2> QED
    BY <1>6
<1> HIDE DEF hop
<1>8. \A n \in 0..Capacity : hop[n] = g[n]
  <2> DEFINE Bad == {n \in 0..Capacity : hop[n] # g[n]}
  <2> SUFFICES ASSUME Bad # {} PROVE FALSE
    OBVIOUS
  <2>1. Bad \in SUBSET Nat
    BY <1>3
  <2>2. PICK n \in Bad : \A m \in Bad : n <= m
    BY <2>1, LeastNat
  <2>3. n # 0
    BY <1>5, <1>7
  <2>4. n - 1 \in 0..Capacity /\ n - 1 \notin Bad
    BY <1>3, <2>2, <2>3
  <2>5. hop[n - 1] = g[n - 1]
    BY <2>4
  <2> QED
    BY <1>5, <1>7, <2>3, <2>5
<1>9. {g[n] : n \in 0..Capacity} \ {Null} = NodesOf(b)
  <2>1. ASSUME NEW n \in 0..Capacity, g[n] # Null PROVE g[n] \in NodesOf(b)
    <3>1. n + 1 \in DOMAIN s /\ g[n] = s[n + 1]
      BY <1>3, <1>4, <2>1
    <3> QED
      BY <1>2, <3>1 DEF Lists
  <2>2. ASSUME NEW i \in NodesOf(b) PROVE i # Null /\ \E n \in 0..Capacity : g[n] = i
    <3>1. PICK p \in DOMAIN s : s[p] = i
      BY <1>2 DEF Lists
    <3>2. p - 1 \in 0..Capacity /\ p - 1 < Len(s) /\ (p - 1) + 1 = p
      BY <1>3
    <3>3. g[p - 1] = i
      BY <1>4, <3>1, <3>2
    <3> QED
      BY <3>2, <3>3, MapFacts DEF NodesOf
  <2> QED
    BY <2>1, <2>2
<1> QED
  BY <1>1, <1>8, <1>9

LEMMA HandFacts ==
  /\ InHand = {call[t].idx : t \in {u \in Threads : Holds(u)}}
  /\ \A i \in Nodes : InPlace(i) <=> i \notin FreeNodes \cup InHand
<1>1. \A t \in Threads : Holds(t) <=>
        call[t].at \in {"fill", "recheck", "readFirst", "link", "publish", "retry", "giveBack", "free"}
  BY DEF Holds, AtHand, AtFilled
<1>2. InHand = {call[t].idx : t \in {u \in Threads : Holds(u)}}
  BY <1>1 DEF InHand
<1> QED
  BY <1>2 DEF InPlace

LEMMA PlaceOnce == MapInv => NodesHaveOnePlace /\ NoPrivateNodeLost
<1> SUFFICES ASSUME MapInv PROVE NodesHaveOnePlace /\ NoPrivateNodeLost
  OBVIOUS
<1>1. Len(free) = Cardinality(FreeNodes)
  BY FreeFacts, DistinctLength
<1>2. FreeNodes \cap InHand = {}
  BY HandFacts DEF MapInv, PlacesOK
<1>3. \A b \in Private : Chain(b) = NodesOf(b)
  BY ChainIsNodes
<1>4. \A b \in Private : \A i \in NodesOf(b) : i \in Nodes /\ bucket[i] = b /\ i \notin FreeNodes \cup InHand
  BY HandFacts DEF NodesOf
<1>5. NodesHaveOnePlace
  BY <1>1, <1>2, <1>3, <1>4 DEF NodesHaveOnePlace
<1>6. NoPrivateNodeLost
  <2>1. \A i \in Nodes : i \in FreeNodes \cup InHand \/ bucket[i] \notin Private \/ i \in NodesOf(bucket[i])
    BY HandFacts DEF NodesOf
  <2> QED
    BY <1>3, <2>1 DEF NoPrivateNodeLost
<1> QED
  BY <1>5, <1>6

\* No node is given out twice: what insert, erase and treeify do to the free
\* list and to the chains, in any interleaving of any number of threads, leaves
\* a node in one place at most.
THEOREM NodesOnePlace == IndexSpec => []NodesHaveOnePlace
BY IndexInvariant, PlaceOnce, PTL

\* A private bucket loses no node: one whose bucket is private is in the free
\* list, in the hands of one thread or in the chain of that bucket.
THEOREM NodesKept == IndexSpec => []NoPrivateNodeLost
BY IndexInvariant, PlaceOnce, PTL

\* What overflow_ says of a private bucket, as long as no shared chain was copied into it:
\* an order it has is in the index or on its way, and a chain has none there.
FoundInv == SharedAreChains =>
  /\ \A k \in overflow : k \in Ids /\ BucketOf[k] \in Private =>
       state[BucketOf[k]] # "chain" /\ Known(k)
  /\ \A t \in Threads : call[t].at = "erased" /\ Place(call[t]) \in Private => call[t].key \notin overflow
  /\ \A t \in Threads : call[t].at = "found" /\ Place(call[t]) \in Private => call[t].key \in live

\* What a step of one thread has to respect for that.
LEMMA FoundFrame ==
  ASSUME MapInv, FoundInv, NEW t \in Threads,
         \A u \in Threads \ {t} : call'[u] = call[u],
         \A b \in Buckets : state[b] # "chain" => state'[b] # "chain",
         SharedAreChains => \A k \in live :
           \/ k \in live'
           \/ /\ call[t].at # "idle" /\ k = call[t].key
              /\ BucketOf[k] \in Private => k \notin overflow',
         SharedAreChains => \A k \in overflow' : k \in Ids /\ BucketOf[k] \in Private =>
           k \in overflow \/ (state'[BucketOf[k]] # "chain" /\ Known(k)' /\ OwnerOf[k] = t),
         Settled(call[t]) => \/ call[t].key \in live'
                             \/ call'[t].key = call[t].key /\ Settled(call'[t]),
         SharedAreChains /\ call'[t].at = "erased" /\ Place(call'[t]) \in Private => call'[t].key \notin overflow',
         SharedAreChains /\ call'[t].at = "found" /\ Place(call'[t]) \in Private => call'[t].key \in live'
  PROVE  FoundInv'
<1> SUFFICES ASSUME SharedAreChains' PROVE FoundInv'
  BY DEF FoundInv
<1>1. SharedAreChains
  BY DEF SharedAreChains, Private
<1>2. \A k \in Ids : BucketOf[k] \in Buckets /\ OwnerOf[k] \in Threads
  BY MapFacts
<1>3. ASSUME NEW u \in Threads, u # t, call[u].at # "idle"
      PROVE  call[u].key \in Ids /\ OwnerOf[call[u].key] = u
             /\ (call[t].at # "idle" => call[u].key # call[t].key)
  <2>1. call[u].key \in Ids /\ OwnerOf[call[u].key] = u
    BY <1>3, CallFacts
  <2>2. call[t].at # "idle" => OwnerOf[call[t].key] = t
    BY CallFacts
  <2> QED
    BY <1>3, <2>1, <2>2
<1>4. ASSUME NEW k \in overflow', k \in Ids, BucketOf[k] \in Private
      PROVE  state'[BucketOf[k]] # "chain" /\ Known(k)'
  <2>1. CASE k \in overflow
    <3>1. state[BucketOf[k]] # "chain" /\ Known(k)
      BY <1>1, <1>4, <2>1 DEF FoundInv
    <3>2. state'[BucketOf[k]] # "chain"
      BY <1>2, <1>4, <3>1
    <3>3. k \in live => k \in live'
      BY <1>1, <1>4
    <3>4. Inserting(k) => k \in live' \/ Inserting(k)'
      <4>1. CASE OwnerOf[k] = t
        BY <4>1 DEF Inserting, OnCall
      <4>2. CASE OwnerOf[k] # t
        BY <1>2, <1>4, <4>2 DEF Inserting, OnCall
      <4> QED
        BY <4>1, <4>2
    <3> QED
      BY <1>4, <3>1, <3>2, <3>3, <3>4 DEF Known
  <2>2. CASE k \notin overflow
    BY <1>1, <1>4, <2>2
  <2> QED
    BY <2>1, <2>2
<1>5. ASSUME NEW u \in Threads, call'[u].at = "erased", Place(call'[u]) \in Private
      PROVE  call'[u].key \notin overflow'
  <2>1. CASE u = t
    BY <1>1, <1>5, <2>1
  <2>2. CASE u # t
    <3>1. call'[u] = call[u] /\ call[u].at # "idle"
      BY <1>5, <2>2
    <3>2. call[u].key \in Ids /\ OwnerOf[call[u].key] # t /\ call[u].key \notin overflow
      BY <1>1, <1>3, <1>5, <2>2, <3>1 DEF FoundInv
    <3> QED
      BY <1>1, <1>5, <3>1, <3>2 DEF Place
  <2> QED
    BY <2>1, <2>2
<1>6. ASSUME NEW u \in Threads, call'[u].at = "found", Place(call'[u]) \in Private
      PROVE  call'[u].key \in live'
  <2>1. CASE u = t
    BY <1>1, <1>6, <2>1
  <2>2. CASE u # t
    <3>1. call'[u] = call[u] /\ call[u].at # "idle"
      BY <1>6, <2>2
    <3>2. call[u].key \in live /\ (call[t].at # "idle" => call[u].key # call[t].key)
      BY <1>1, <1>3, <1>6, <2>2, <3>1 DEF FoundInv
    <3> QED
      BY <1>1, <3>1, <3>2
  <2> QED
    BY <2>1, <2>2
<1>7. \A u \in Threads : Place(call[u])' = Place(call'[u])
  BY DEF Place
<1>8. Private' = Private
  BY DEF Private
<1> QED
  BY <1>4, <1>5, <1>6, <1>7, <1>8 DEF FoundInv

\* What an access of a call in progress does: the call keeps its key, an order on its way
\* stays so, and who answers "found" or "erased" has come from these accesses.
Onward(t) ==
  /\ call[t].at # "idle" /\ live' = live
  /\ \A u \in Threads \ {t} : call'[u] = call[u]
  /\ call'[t].key = call[t].key
  /\ Settled(call[t]) => Settled(call'[t])
  /\ \A b \in Buckets : state[b] # "chain" => state'[b] # "chain"
  /\ call'[t].at = "found" => \/ call[t].at = "compare" /\ state' = state
                              \/ call[t].at = "treeFind" /\ call[t].key \in overflow
  /\ call'[t].at = "erased" => \/ call[t].at \in {"eraseFirst", "readNext", "uncount"}
                               \/ call[t].key \notin overflow'
  /\ \/ overflow' = overflow
     \/ call[t].at = "treeErase" /\ overflow' = overflow \ {call[t].key}
     \/ call[t].at = "treeAdd" /\ overflow' = overflow \cup {call[t].key} /\ call'[t].at = "inserted"
     \/ call[t].at = "copy" /\ call[t].nxt # Null /\ overflow' = overflow \cup {id[call[t].nxt]}
        /\ call'[t].at = "copy" /\ state' = state

LEMMA OnwardSteps ==
  ASSUME MapInv, NEW t \in Threads,
         InsertSteps(t) \/ TreeifySteps(t) \/ FindSteps(t) \/ EraseSteps(t)
  PROVE  Onward(t)
<1> USE DEF nodeVars, bucketVars, history, At, Bkt, Place
<1>1. /\ call \in [Threads -> Calls] /\ Knows(t, call[t]) /\ Null \in Links /\ free \in Seq(Nodes)
      /\ state \in [Buckets -> {"chain", "converting", "tree"}]
      /\ \A i \in Links : i = Null \/ i \in Nodes
  BY DEF MapInv, MapTypeOK, Links
<1>2. call[t] \in Calls /\ call[t] = [at |-> call[t].at, key |-> call[t].key, idx |-> call[t].idx,
                                      nxt |-> call[t].nxt, aft |-> call[t].aft]
  BY <1>1 DEF Calls
<1>3. call[t].at \in {"count", "lengthAgain"} => call[t].idx # Null
  BY <1>1, MapFacts DEF Knows
<1>4. CASE InsertSteps(t)
  <2>1. CASE Gate(t, "insert", "treeAdd", "length")
    BY <1>1, <1>2, <1>3, <2>1 DEF Gate, To, ToIf, Again, Done, Visit, Onward, Settled, Treeing, AtTreeify, Idle, AfterTreeify
  <2>2. CASE CheckLength(t)
    BY <1>1, <1>2, <1>3, <2>2 DEF CheckLength, To, ToIf, Again, Done, Visit, Onward, Settled, Treeing, AtTreeify, Idle, AfterTreeify
  <2>3. CASE AllocNode(t)
    BY <1>1, <1>2, <1>3, <2>3 DEF AllocNode, To, ToIf, Again, Done, Visit, Onward, Settled, Treeing, AtTreeify, Idle, AfterTreeify
  <2>4. CASE Fill(t)
    BY <1>1, <1>2, <1>3, <2>4 DEF Fill, To, ToIf, Again, Done, Visit, Onward, Settled, Treeing, AtTreeify, Idle, AfterTreeify
  <2>5. CASE Gate(t, "recheck", "giveBack", "readFirst")
    BY <1>1, <1>2, <1>3, <2>5 DEF Gate, To, ToIf, Again, Done, Visit, Onward, Settled, Treeing, AtTreeify, Idle, AfterTreeify
  <2>6. CASE ReadFirst(t)
    BY <1>1, <1>2, <1>3, <2>6 DEF ReadFirst, To, ToIf, Again, Done, Visit, Onward, Settled, Treeing, AtTreeify, Idle, AfterTreeify
  <2>7. CASE Link(t)
    BY <1>1, <1>2, <1>3, <2>7 DEF Link, To, ToIf, Again, Done, Visit, Onward, Settled, Treeing, AtTreeify, Idle, AfterTreeify
  <2>8. CASE Publish(t)
    BY <1>1, <1>2, <1>3, <2>8 DEF Publish, To, ToIf, Again, Done, Visit, Onward, Settled, Treeing, AtTreeify, Idle, AfterTreeify
  <2>9. CASE PublishFails(t)
    BY <1>1, <1>2, <1>3, <2>9 DEF PublishFails, To, ToIf, Again, Done, Visit, Onward, Settled, Treeing, AtTreeify, Idle, AfterTreeify
  <2>10. CASE Gate(t, "retry", "giveBack", "link")
    BY <1>1, <1>2, <1>3, <2>10 DEF Gate, To, ToIf, Again, Done, Visit, Onward, Settled, Treeing, AtTreeify, Idle, AfterTreeify
  <2>11. CASE GiveBack(t)
    BY <1>1, <1>2, <1>3, <2>11 DEF GiveBack, To, ToIf, Again, Done, Visit, Onward, Settled, Treeing, AtTreeify, Idle, AfterTreeify
  <2>12. CASE CountIn(t)
    BY <1>1, <1>2, <1>3, <2>12 DEF CountIn, To, ToIf, Again, Done, Visit, Onward, Settled, Treeing, AtTreeify, Idle, AfterTreeify
  <2>13. CASE CheckLengthAgain(t)
    BY <1>1, <1>2, <1>3, <2>13 DEF CheckLengthAgain, To, ToIf, Again, Done, Visit, Onward, Settled, Treeing, AtTreeify, Idle, AfterTreeify
  <2>14. CASE TreeAdd(t)
    BY <1>1, <1>2, <1>3, <2>14 DEF TreeAdd, To, ToIf, Again, Done, Visit, Onward, Settled, Treeing, AtTreeify, Idle, AfterTreeify
  <2> QED
    BY <1>4, <2>1, <2>2, <2>3, <2>4, <2>5, <2>6, <2>7, <2>8, <2>9, <2>10, <2>11, <2>12, <2>13, <2>14 DEF InsertSteps
<1>5. CASE TreeifySteps(t)
  <2>1. CASE Claim(t)
    BY <1>1, <1>2, <1>3, <2>1 DEF Claim, To, ToIf, Again, Done, Visit, Onward, Settled, Treeing, AtTreeify, Idle, AfterTreeify
  <2>2. CASE Lock(t)
    BY <1>1, <1>2, <1>3, <2>2 DEF Lock, To, ToIf, Again, Done, Visit, Onward, Settled, Treeing, AtTreeify, Idle, AfterTreeify
  <2>3. CASE Copy(t)
    BY <1>1, <1>2, <1>3, <2>3 DEF Copy, To, ToIf, Again, Done, Visit, Onward, Settled, Treeing, AtTreeify, Idle, AfterTreeify
  <2>4. CASE CopyEnds(t)
    BY <1>1, <1>2, <1>3, <2>4 DEF CopyEnds, To, ToIf, Again, Done, Visit, Onward, Settled, Treeing, AtTreeify, Idle, AfterTreeify
  <2> QED
    BY <1>5, <2>1, <2>2, <2>3, <2>4 DEF TreeifySteps
<1>6. CASE FindSteps(t)
  <2>1. CASE Gate(t, "find", "treeFind", "findFirst")
    BY <1>1, <1>2, <1>3, <2>1 DEF Gate, To, ToIf, Again, Done, Visit, Onward, Settled, Treeing, AtTreeify, Idle, AfterTreeify
  <2>2. CASE FindFirst(t)
    BY <1>1, <1>2, <1>3, <2>2 DEF FindFirst, To, ToIf, Again, Done, Visit, Onward, Settled, Treeing, AtTreeify, Idle, AfterTreeify
  <2>3. CASE SameBucket(t)
    BY <1>1, <1>2, <1>3, <2>3 DEF SameBucket, To, ToIf, Again, Done, Visit, Onward, Settled, Treeing, AtTreeify, Idle, AfterTreeify
  <2>4. CASE Compare(t)
    BY <1>1, <1>2, <1>3, <2>4 DEF Compare, To, ToIf, Again, Done, Visit, Onward, Settled, Treeing, AtTreeify, Idle, AfterTreeify
  <2>5. CASE Advance(t)
    BY <1>1, <1>2, <1>3, <2>5 DEF Advance, To, ToIf, Again, Done, Visit, Onward, Settled, Treeing, AtTreeify, Idle, AfterTreeify
  <2>6. CASE TreeFind(t)
    BY <1>1, <1>2, <1>3, <2>6 DEF TreeFind, To, ToIf, Again, Done, Visit, Onward, Settled, Treeing, AtTreeify, Idle, AfterTreeify
  <2> QED
    BY <1>6, <2>1, <2>2, <2>3, <2>4, <2>5, <2>6 DEF FindSteps
<1>7. CASE EraseSteps(t)
  <2>1. CASE Gate(t, "erase", "treeErase", "eraseFirst")
    BY <1>1, <1>2, <1>3, <2>1 DEF Gate, To, ToIf, Again, Done, Visit, Onward, Settled, Treeing, AtTreeify, Idle, AfterTreeify
  <2>2. CASE EraseFirst(t)
    BY <1>1, <1>2, <1>3, <2>2 DEF EraseFirst, To, ToIf, Again, Done, Visit, Onward, Settled, Treeing, AtTreeify, Idle, AfterTreeify
  <2>3. CASE IsFirst(t)
    BY <1>1, <1>2, <1>3, <2>3 DEF IsFirst, To, ToIf, Again, Done, Visit, Onward, Settled, Treeing, AtTreeify, Idle, AfterTreeify
  <2>4. CASE ReadSecond(t)
    BY <1>1, <1>2, <1>3, <2>4 DEF ReadSecond, To, ToIf, Again, Done, Visit, Onward, Settled, Treeing, AtTreeify, Idle, AfterTreeify
  <2>5. CASE UnlinkFirst(t)
    BY <1>1, <1>2, <1>3, <2>5 DEF UnlinkFirst, To, ToIf, Again, Done, Visit, Onward, Settled, Treeing, AtTreeify, Idle, AfterTreeify
  <2>6. CASE UnlinkFirstFails(t)
    BY <1>1, <1>2, <1>3, <2>6 DEF UnlinkFirstFails, To, ToIf, Again, Done, Visit, Onward, Settled, Treeing, AtTreeify, Idle, AfterTreeify
  <2>7. CASE StillFirst(t)
    BY <1>1, <1>2, <1>3, <2>7 DEF StillFirst, To, ToIf, Again, Done, Visit, Onward, Settled, Treeing, AtTreeify, Idle, AfterTreeify
  <2>8. CASE Walk(t)
    BY <1>1, <1>2, <1>3, <2>8 DEF Walk, To, ToIf, Again, Done, Visit, Onward, Settled, Treeing, AtTreeify, Idle, AfterTreeify
  <2>9. CASE ReadNext(t)
    BY <1>1, <1>2, <1>3, <2>9 DEF ReadNext, To, ToIf, Again, Done, Visit, Onward, Settled, Treeing, AtTreeify, Idle, AfterTreeify
  <2>10. CASE IsNext(t)
    BY <1>1, <1>2, <1>3, <2>10 DEF IsNext, To, ToIf, Again, Done, Visit, Onward, Settled, Treeing, AtTreeify, Idle, AfterTreeify
  <2>11. CASE ReadAfter(t)
    BY <1>1, <1>2, <1>3, <2>11 DEF ReadAfter, To, ToIf, Again, Done, Visit, Onward, Settled, Treeing, AtTreeify, Idle, AfterTreeify
  <2>12. CASE UnlinkNext(t)
    BY <1>1, <1>2, <1>3, <2>12 DEF UnlinkNext, To, ToIf, Again, Done, Visit, Onward, Settled, Treeing, AtTreeify, Idle, AfterTreeify
  <2>13. CASE UnlinkNextFails(t)
    BY <1>1, <1>2, <1>3, <2>13 DEF UnlinkNextFails, To, ToIf, Again, Done, Visit, Onward, Settled, Treeing, AtTreeify, Idle, AfterTreeify
  <2>14. CASE FreeErased(t)
    BY <1>1, <1>2, <1>3, <2>14 DEF FreeErased, To, ToIf, Again, Done, Visit, Onward, Settled, Treeing, AtTreeify, Idle, AfterTreeify
  <2>15. CASE CountOut(t)
    BY <1>1, <1>2, <1>3, <2>15 DEF CountOut, To, ToIf, Again, Done, Visit, Onward, Settled, Treeing, AtTreeify, Idle, AfterTreeify
  <2>16. CASE TreeErase(t)
    BY <1>1, <1>2, <1>3, <2>16 DEF TreeErase, To, ToIf, Again, Done, Visit, Onward, Settled, Treeing, AtTreeify, Idle, AfterTreeify
  <2> QED
    BY <1>7, <2>1, <2>2, <2>3, <2>4, <2>5, <2>6, <2>7, <2>8, <2>9, <2>10, <2>11, <2>12, <2>13, <2>14, <2>15, <2>16 DEF EraseSteps
<1> QED
  BY <1>4, <1>5, <1>6, <1>7

\* The order that treeify copies is one of the bucket it converts.
LEMMA CopiesOwn ==
  ASSUME MapInv, NEW t \in Threads, call[t].at = "copy", call[t].nxt # Null, SharedAreChains
  PROVE  LET k == id[call[t].nxt] IN Known(k) /\ OwnerOf[k] = t /\ state[BucketOf[k]] # "chain"
<1> DEFINE b == Place(call[t])
           i == call[t].nxt
<1>1. /\ b \in Buckets /\ state[b] = "converting" /\ On(t, b) /\ call[t].at \in AtTreeify
  BY CallFacts DEF On, Knows, AtTreeify
<1>2. b \in Private
  BY <1>1 DEF SharedAreChains
<1>3. PICK s \in Seq(Nodes) : Lists(s, b) /\ Walks(call[t], s)
  BY <1>1, <1>2 DEF MapInv, ChainOK
<1>4. PICK p \in 0..Len(s) : i = Follow(s, p)
  BY <1>3 DEF Walks, Copied
<1>5. p # Len(s) /\ i = s[p + 1]
  BY <1>4 DEF Follow
<1>6. p + 1 \in DOMAIN s
  <2>1. PICK m \in Nat : m = Len(s) /\ DOMAIN s = 1..m
    BY ListFacts
  <2>2. p \in 0..m /\ p # m
    BY <1>5, <2>1
  <2> QED
    BY <2>1, <2>2
<1>7. i \in NodesOf(b)
  BY <1>3, <1>5, <1>6 DEF Lists
<1>8. Known(id[i])
  BY <1>1, <1>2, <1>7 DEF MapInv, PrivateOK
<1>9. i \in Nodes /\ bucket[i] = b /\ id[i] \in Ids /\ id[i] # NoId
  BY <1>7, <1>8, MapFacts DEF NodesOf, Known
<1>10. BucketOf[id[i]] = b
  BY <1>9 DEF MapInv, IdsOK
<1>11. OwnerOf[id[i]] = t
  BY <1>1, <1>2, <1>9, <1>10, Alone
<1> QED
  BY <1>1, <1>8, <1>10, <1>11

LEMMA FoundContinues ==
  ASSUME MapInv, MapInv', FoundInv, NEW t \in Threads,
         InsertSteps(t) \/ TreeifySteps(t) \/ FindSteps(t) \/ EraseSteps(t)
  PROVE  FoundInv'
<1>0. PICK k, b : k = call[t].key /\ b = Place(call[t])
  OBVIOUS
<1>1. /\ call[t].at # "idle" /\ k \in Ids /\ OwnerOf[k] = t /\ b = BucketOf[k] /\ b \in Buckets
      /\ Knows(t, call[t]) /\ k = call[t].key /\ b = Place(call[t])
      /\ Place(call'[t]) = b /\ call'[t].key = k /\ Place(call[t])' = b
  BY <1>0, OnwardSteps, CallFacts DEF Onward, Place
<1>2. Onward(t)
  BY OnwardSteps
<1>3. ASSUME SharedAreChains, NEW l \in overflow', l \in Ids, BucketOf[l] \in Private
      PROVE  l \in overflow \/ (state'[BucketOf[l]] # "chain" /\ Known(l)' /\ OwnerOf[l] = t)
  <2>1. CASE overflow' = overflow \/ overflow' = overflow \ {k}
    BY <1>3, <2>1
  <2>2. CASE call[t].at = "treeAdd" /\ overflow' = overflow \cup {k} /\ call'[t].at = "inserted"
    <3>1. state[b] # "chain" /\ state'[b] # "chain"
      BY <1>1, <1>2, <2>2 DEF Knows, AtTree, Onward
    <3>2. Known(k)'
      BY <1>1, <2>2 DEF Known, Inserting, OnCall, Settled
    <3> QED
      BY <1>1, <1>3, <2>2, <3>1, <3>2
  <2>3. CASE /\ call[t].at = "copy" /\ call[t].nxt # Null /\ overflow' = overflow \cup {id[call[t].nxt]}
             /\ call'[t].at = "copy" /\ state' = state
    <3>0. PICK j : j = id[call[t].nxt]
      OBVIOUS
    <3>1. Known(j) /\ OwnerOf[j] = t /\ state'[BucketOf[j]] # "chain"
      BY <1>3, <2>3, <3>0, CopiesOwn
    <3>2. j \in live => j \in live'
      BY <1>2 DEF Onward
    <3>3. Inserting(j) => Inserting(j)'
      BY <1>1, <1>2, <3>1 DEF Inserting, OnCall, Onward
    <3>4. Known(j)'
      BY <3>1, <3>2, <3>3 DEF Known
    <3> QED
      BY <1>3, <2>3, <3>0, <3>1, <3>4
  <2> QED
    BY <1>1, <1>2, <2>1, <2>2, <2>3 DEF Onward
<1>4. ASSUME SharedAreChains, call'[t].at = "erased", b \in Private
      PROVE  k \notin overflow'
  <2>1. CASE call[t].at \in {"eraseFirst", "readNext", "uncount"}
    <3>1. state[b] = "chain"
      BY <1>1, <1>4, <2>1 DEF MapInv, ChainOK, On, KnowsAlone, AtChain, AtWalk
    <3>2. k \notin overflow
      BY <1>1, <1>4, <3>1 DEF FoundInv
    <3> QED
      BY <1>2, <2>1, <3>2 DEF Onward
  <2> QED
    BY <1>1, <1>2, <1>4, <2>1 DEF Onward
<1>5. ASSUME SharedAreChains, call'[t].at = "found", b \in Private
      PROVE  k \in live'
  <2>1. CASE call[t].at = "compare" /\ state' = state
    <3>1. state'[b] = "chain"
      BY <1>1, <1>5, <2>1 DEF MapInv, ChainOK, On, KnowsAlone, AtChain, AtFind
    <3>2. KnowsAlone(call[t])'
      <4>1. b \in Private' /\ call'[t].at # "idle"
        BY <1>5 DEF Private
      <4>2. ChainOK(b)'
        BY <4>1, <1>5 DEF MapInv
      <4>3. On(t, b)'
        BY <1>1, <4>1 DEF On
      <4> QED
        BY <4>2, <4>3 DEF ChainOK
    <3> QED
      BY <1>1, <1>5, <3>1, <3>2 DEF KnowsAlone
  <2>2. CASE call[t].at = "treeFind" /\ k \in overflow
    <3>1. Known(k)
      BY <1>1, <1>5, <2>2 DEF FoundInv
    <3>2. ~Inserting(k)
      BY <1>1, <2>2 DEF Inserting, Settled, Treeing, AtTreeify
    <3> QED
      BY <1>1, <1>2, <3>1, <3>2 DEF Known, Onward
  <2> QED
    BY <1>1, <1>2, <1>5, <2>1, <2>2 DEF Onward
<1> QED
  BY <1>1, <1>2, <1>3, <1>4, <1>5, FoundFrame DEF Onward

LEMMA FoundStep ==
  ASSUME MapInv, MapInv', FoundInv, IndexNext
  PROVE  FoundInv'
<1>1. PICK t \in Threads : (\E op \in {"insert", "find", "erase"}, i \in Ids : Start(t, op, i)) \/ Continue(t)
  BY DEF IndexNext
<1>2. call \in [Threads -> Calls] /\ call[t] \in Calls
  BY DEF MapInv, MapTypeOK
<1>3. CASE \E op \in {"insert", "find", "erase"}, i \in Ids : Start(t, op, i)
  <2>1. PICK op \in {"insert", "find", "erase"}, i \in Ids : Start(t, op, i)
    BY <1>3
  <2>2. /\ call[t].at = "idle" /\ call'[t].at = op /\ UNCHANGED <<overflow, state, live>>
        /\ \A u \in Threads \ {t} : call'[u] = call[u]
    BY <1>2, <2>1 DEF Start, At, Idle
  <2>3. ~Settled(call[t])
    BY <2>2 DEF Settled, Treeing, AtTreeify
  <2> QED
    BY <2>2, <2>3, FoundFrame
<1>4. CASE InsertSteps(t) \/ TreeifySteps(t) \/ FindSteps(t) \/ EraseSteps(t)
  BY <1>4, FoundContinues
<1>5. CASE Return(t)
  <2>1. /\ call[t].at \in Returned /\ call[t].at # "idle" /\ call'[t].at = "idle"
        /\ UNCHANGED <<overflow, state>>
        /\ \A u \in Threads \ {t} : call'[u] = call[u]
    BY <1>2, <1>5 DEF Return, Returned, Idle
  <2>2. /\ live' = CASE call[t].at = "inserted" -> live \cup {call[t].key}
                     [] call[t].at = "erased" -> live \ {call[t].key}
                     [] OTHER -> live
    BY <1>5 DEF Return, At
  <2>3. Settled(call[t]) => call[t].key \in live'
    BY <2>1, <2>2 DEF Settled, Treeing, AtTreeify, Returned
  <2>4. ASSUME SharedAreChains, NEW k \in live
        PROVE  k \in live' \/ (k = call[t].key /\ (BucketOf[k] \in Private => k \notin overflow'))
    BY <2>1, <2>2, <2>4 DEF FoundInv, Place
  <2> QED
    BY <2>1, <2>3, <2>4, FoundFrame
<1> QED
  BY <1>1, <1>3, <1>4, <1>5 DEF Continue

LEMMA PrivateAnswers == MapInv /\ FoundInv => PrivateFindsTrue
<1> SUFFICES ASSUME MapInv, FoundInv, NEW t \in Threads, call[t].at # "idle", Bkt(t) \in Private
             PROVE  /\ call[t].at = "missing" => call[t].key \notin live
                    /\ call[t].at = "found" /\ (state[Bkt(t)] = "chain" \/ SharedAreChains) => call[t].key \in live
                    /\ call[t].at # "astray"
  BY DEF PrivateFindsTrue, At
<1>1. Place(call[t]) = Bkt(t) /\ On(t, Bkt(t))
  BY DEF On, Place, Bkt
<1>2. KnowsAlone(call[t])
  BY <1>1 DEF MapInv, ChainOK
<1> QED
  BY <1>1, <1>2 DEF KnowsAlone, FoundInv

\* In a bucket with all its ids on one thread every lookup is right, whatever the other
\* threads do to the nodes it gives back: an order is found from the end of its insert to
\* the end of its erase, and no call leaves the chain for an index out of range.
THEOREM PrivateFinds == IndexSpec => []PrivateFindsTrue
<1>1. IndexInit => FoundInv
  BY DEF IndexInit, FoundInv, Idle
<1>2. MapInv /\ MapInv' /\ FoundInv /\ [IndexNext]_indexVars => FoundInv'
  <2>1. ASSUME UNCHANGED indexVars, FoundInv PROVE FoundInv'
    BY <2>1 DEF indexVars, bucketVars, history, FoundInv, SharedAreChains, Private, Known, Inserting, OnCall,
                Settled, Treeing, Place
  <2> QED
    BY <2>1, FoundStep
<1> QED
  BY <1>1, <1>2, IndexInvariant, PrivateAnswers, PTL DEF IndexSpec
=============================================================================
