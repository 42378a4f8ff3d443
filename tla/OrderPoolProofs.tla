-------------------------- MODULE OrderPoolProofs --------------------------
(***************************************************************************)
(* Theorems about OrderPool, for any number of threads and of slots, and    *)
(* any bound on the tag: the free list is exact at every instant, and the   *)
(* pool is the slot allocator its callers take it for.                      *)
(***************************************************************************)
EXTENDS OrderPool, TLAPS, FiniteSetTheorems, SequenceTheorems

Words == [tag : Nat, idx : Slots \cup {Null}]
Accesses == {"idle", "refuse", "readNext", "casPop", "addSize", "fill",
             "writeNext", "casPush", "subSize"}

TypeOK ==
  /\ head \in Words
  /\ next \in [Slots -> Slots \cup {Null}]
  /\ size \in Int
  /\ owned \in [Threads -> SUBSET Slots]
  /\ pc \in [Threads -> Accesses]
  /\ fh \in [Threads -> Words]
  /\ nxt \in [Threads -> Slots \cup {Null}]
  /\ arg \in [Threads -> Slots]

\* A slot has one owner.
OneOwner == \A t, u \in Threads : t # u => owned[t] \cap owned[u] = {}

\* What a thread remembers of the head is a slot, and no later than the head: a head
\* equal to it has not moved since (the tag excludes that it moved and came back).
HeadSeen(t) ==
  /\ fh[t].tag <= head.tag
  /\ pc[t] \in {"readNext", "casPop"} => fh[t].idx # Null
\* If the exchange of allocate succeeds, it writes the link of the slot it takes.
LinkSeen(t) == pc[t] = "casPop" /\ fh[t] = head => nxt[t] = next[head.idx]
\* The slot being filled or given back is the caller's, and one about to be pushed
\* is linked to the head that was seen.
SlotHeld(t) ==
  /\ pc[t] \in {"addSize", "fill", "writeNext", "casPush"} => arg[t] \in owned[t]
  /\ pc[t] = "casPush" => next[arg[t]] = fh[t].idx

PoolInv ==
  /\ TypeOK
  /\ OneOwner
  /\ \A t \in Threads : HeadSeen(t) /\ LinkSeen(t) /\ SlotHeld(t)
  /\ FreeListExact
-----------------------------------------------------------------------------
\* The sequence runs once through the slots nobody owns.
ThroughFree(s) ==
  /\ s \in Seq(FreeSlots)
  /\ \A i, j \in DOMAIN s : s[i] = s[j] => i = j
  /\ \A x \in FreeSlots : \E i \in DOMAIN s : s[i] = x
FreeChain == \E s : ThroughFree(s) /\ Chains(s)

\* The community module enumerates a set by functions on 1..its cardinality; proofs
\* build sequences.
LEMMA FreeListIsSeq == FreeListExact <=> FreeChain
<1>1. IsFiniteSet(FreeSlots)
  <2>1. IsFiniteSet(Slots)
    BY PoolConstants, FS_Interval DEF Slots
  <2> QED
    BY <2>1, FS_Difference DEF FreeSlots
<1> DEFINE n == Cardinality(FreeSlots)
<1>0. \A m \in Nat : IsFiniteSet(1..m) /\ Cardinality(1..m) = m
  BY FS_Interval
<1>2. n \in Nat /\ IsFiniteSet(1..n) /\ Cardinality(1..n) = n
  BY <1>0, <1>1, FS_CardinalityType
<1>3. ASSUME NEW s \in SetToSeqs(FreeSlots)
      PROVE  ThroughFree(s)
  <2>1. s \in [1..n -> FreeSlots] /\ \A i, j \in 1..n : i # j => s[i] # s[j]
    BY <1>3 DEF SetToSeqs
  <2>2. s \in Injection(1..n, FreeSlots)
    BY <2>1 DEF Injection, IsInjective
  <2>3. s \in Surjection(1..n, FreeSlots)
    BY <2>2, <1>1, <1>2, FS_Injection
  <2> QED
    BY <2>1, <2>3, <1>2 DEF ThroughFree, Surjection
<1>4. ASSUME NEW s, ThroughFree(s)
      PROVE  s \in SetToSeqs(FreeSlots)
  <2>1. s \in [1..Len(s) -> FreeSlots] /\ Len(s) \in Nat /\ DOMAIN s = 1..Len(s)
    BY <1>4 DEF ThroughFree
  <2>2. s \in Injection(1..Len(s), FreeSlots) /\ s \in Surjection(1..Len(s), FreeSlots)
    BY <1>4, <2>1 DEF ThroughFree, Injection, Surjection, IsInjective
  <2>3. IsFiniteSet(1..Len(s)) /\ Cardinality(1..Len(s)) = Len(s)
    BY <2>1, <1>0
  <2>4. Len(s) = n
    BY <2>2, <2>3, <1>1, FS_Injection
  <2> QED
    BY <1>4, <2>1, <2>4 DEF ThroughFree, SetToSeqs
<1> QED
  BY <1>3, <1>4 DEF FreeListExact, FreeChain

LEMMA FreeListIsSeqNext == FreeListExact' <=> FreeChain'
BY FreeListIsSeq, PTL

\* The head of the list is a free slot, and there is none exactly when all are taken.
LEMMA HeadIsFree ==
  ASSUME FreeListExact
  PROVE  /\ head.idx # Null => head.idx \in FreeSlots
         /\ head.idx = Null => FreeSlots = {}
<1>1. PICK s : ThroughFree(s) /\ Chains(s)
  BY FreeListIsSeq DEF FreeChain
<1>2. s = <<>> \/ (1 \in DOMAIN s /\ s[1] \in FreeSlots)
  BY <1>1 DEF ThroughFree
<1>3. CASE s = <<>>
  BY <1>1, <1>3 DEF ThroughFree, Chains
<1>4. CASE s # <<>>
  BY <1>1, <1>2, <1>4, PoolConstants DEF Chains, FreeSlots
<1> QED
  BY <1>3, <1>4

\* A step that moves no slot, nor the head, nor a free slot's link.
LEMMA ChainUntouched ==
  ASSUME FreeListExact, FreeSlots' = FreeSlots, UNCHANGED head,
         \A x \in FreeSlots : next'[x] = next[x]
  PROVE  FreeListExact'
<1>1. PICK s : ThroughFree(s) /\ Chains(s)
  BY FreeListIsSeq DEF FreeChain
<1>2. ThroughFree(s)'
  BY <1>1 DEF ThroughFree
<1>3. \A i \in DOMAIN s : s[i] \in FreeSlots
  BY <1>1 DEF ThroughFree
<1>4. Chains(s)'
  BY <1>1, <1>3 DEF Chains
<1> QED
  BY <1>2, <1>4, FreeListIsSeqNext DEF FreeChain

\* The first slot is taken, and the head is what it was linked to.
LEMMA ChainPopped ==
  ASSUME FreeListExact, head.idx # Null,
         FreeSlots' = FreeSlots \ {head.idx}, head'.idx = next[head.idx], UNCHANGED next
  PROVE  FreeListExact'
<1>1. PICK s : ThroughFree(s) /\ Chains(s)
  BY FreeListIsSeq DEF FreeChain
<1> DEFINE q == Tail(s)
<1>2. s # <<>> /\ s \in Seq(FreeSlots) /\ Len(s) \in Nat \ {0} /\ DOMAIN s = 1..Len(s)
  BY <1>1 DEF ThroughFree, Chains
<1>3. /\ q \in Seq(FreeSlots) /\ Len(q) = Len(s) - 1 /\ DOMAIN q = 1..Len(q)
      /\ \A i \in 1..Len(q) : q[i] = s[i+1]
  BY <1>2, HeadTailProperties, LenProperties
<1> HIDE DEF q
<1>4. head.idx = s[1] /\ 1 \in DOMAIN s
  BY <1>1, <1>2 DEF Chains
<1>5. ThroughFree(q)'
  <2>1. ASSUME NEW i \in DOMAIN q
        PROVE  q[i] \in FreeSlots \ {head.idx}
    <3>1. i + 1 \in DOMAIN s /\ i + 1 # 1 /\ q[i] = s[i+1]
      BY <1>2, <1>3
    <3> QED
      BY <1>1, <1>2, <1>4, <3>1 DEF ThroughFree
  <2>2. q \in Seq(FreeSlots')
    BY <1>3, <2>1
  <2>3. ASSUME NEW i \in DOMAIN q, NEW j \in DOMAIN q, q[i] = q[j]
        PROVE  i = j
    <3>1. i + 1 \in DOMAIN s /\ j + 1 \in DOMAIN s /\ s[i+1] = s[j+1] /\ i \in Int /\ j \in Int
      BY <1>2, <1>3, <2>3
    <3>2. i + 1 = j + 1
      BY <1>1, <3>1 DEF ThroughFree
    <3> QED
      BY <3>1, <3>2
  <2>4. ASSUME NEW x \in FreeSlots, x # head.idx
        PROVE  \E i \in DOMAIN q : q[i] = x
    <3>1. PICK j \in DOMAIN s : s[j] = x
      BY <1>1 DEF ThroughFree
    <3>2. j - 1 \in DOMAIN q /\ q[j-1] = s[j]
      BY <1>2, <1>3, <1>4, <2>4, <3>1
    <3> QED
      BY <3>1, <3>2
  <2> QED
    BY <2>2, <2>3, <2>4 DEF ThroughFree
<1>6. Chains(q)'
  <2>1. head'.idx = IF q = <<>> THEN Null ELSE q[1]
    <3>1. next[s[1]] = IF 1 = Len(s) THEN Null ELSE s[2]
      BY <1>1, <1>2, <1>4 DEF Chains
    <3>2. q = <<>> <=> Len(q) = 0
      BY <1>3
    <3>3. Len(s) # 1 => q[1] = s[2]
      BY <1>2, <1>3
    <3> QED
      BY <1>2, <1>3, <1>4, <3>1, <3>2, <3>3
  <2>2. ASSUME NEW i \in DOMAIN q
        PROVE  next[q[i]] = IF i = Len(q) THEN Null ELSE q[i+1]
    <3>1. i + 1 \in DOMAIN s /\ q[i] = s[i+1] /\ (i = Len(q) <=> i + 1 = Len(s))
      BY <1>2, <1>3
    <3>2. i # Len(q) => q[i+1] = s[(i+1)+1]
      BY <1>2, <1>3
    <3>3. next[s[i+1]] = IF i+1 = Len(s) THEN Null ELSE s[(i+1)+1]
      BY <1>1, <3>1 DEF Chains
    <3> QED
      BY <3>1, <3>2, <3>3
  <2> QED
    BY <2>1, <2>2 DEF Chains
<1> QED
  BY <1>5, <1>6, FreeListIsSeqNext DEF FreeChain

\* A slot linked to the first one becomes the first one.
LEMMA ChainPushed ==
  ASSUME FreeListExact, NEW a \in Slots \ FreeSlots, next[a] = head.idx,
         FreeSlots' = FreeSlots \cup {a}, head'.idx = a, UNCHANGED next
  PROVE  FreeListExact'
<1>1. PICK s : ThroughFree(s) /\ Chains(s)
  BY FreeListIsSeq DEF FreeChain
<1> DEFINE q == <<a>> \o s
<1>2. s \in Seq(FreeSlots) /\ Len(s) \in Nat /\ DOMAIN s = 1..Len(s)
  BY <1>1 DEF ThroughFree
<1>3. /\ q \in Seq(FreeSlots \cup {a}) /\ Len(q) = Len(s) + 1 /\ DOMAIN q = 1..Len(q)
      /\ q[1] = a
      /\ \A i \in 1..Len(s) : q[i+1] = s[i]
  BY <1>2
<1> HIDE DEF q
<1>4. ASSUME NEW i \in DOMAIN q
      PROVE  i = 1 \/ \E j \in DOMAIN s : i = j + 1
  <2>1. i # 1 => i - 1 \in DOMAIN s /\ i = (i - 1) + 1
    BY <1>2, <1>3
  <2> QED
    BY <2>1
<1>5. \A j \in DOMAIN s : s[j] \in FreeSlots /\ q[j+1] = s[j] /\ j \in Nat
  BY <1>1, <1>2, <1>3 DEF ThroughFree
<1>6. ThroughFree(q)'
  <2>1. ASSUME NEW i \in DOMAIN q, NEW j \in DOMAIN q, q[i] = q[j]
        PROVE  i = j
    BY <1>1, <1>3, <1>4, <1>5, <2>1 DEF ThroughFree
  <2>2. ASSUME NEW x \in FreeSlots
        PROVE  \E i \in DOMAIN q : q[i] = x
    <3>1. PICK j \in DOMAIN s : s[j] = x
      BY <1>1 DEF ThroughFree
    <3>2. j + 1 \in DOMAIN q
      BY <1>2, <1>3
    <3> QED
      BY <1>5, <3>1, <3>2
  <2>3. 1 \in DOMAIN q
    BY <1>2, <1>3
  <2> QED
    BY <1>3, <2>1, <2>2, <2>3 DEF ThroughFree
<1>7. Chains(q)'
  <2>1. q # <<>>
    BY <1>2, <1>3
  <2>2. next[q[1]] = IF 1 = Len(q) THEN Null ELSE q[2]
    <3>1. s = <<>> <=> 1 = Len(q)
      BY <1>2, <1>3
    <3>2. s # <<>> => q[2] = s[1]
      BY <1>2, <1>3
    <3> QED
      BY <1>1, <1>3, <3>1, <3>2 DEF Chains
  <2>3. ASSUME NEW j \in DOMAIN s
        PROVE  next[q[j+1]] = IF j+1 = Len(q) THEN Null ELSE q[(j+1)+1]
    <3>1. j + 1 = Len(q) <=> j = Len(s)
      BY <1>2, <1>3
    <3>2. j # Len(s) => q[(j+1)+1] = s[j+1]
      BY <1>2, <1>3
    <3> QED
      BY <1>1, <1>5, <3>1, <3>2 DEF Chains
  <2> QED
    BY <1>3, <1>4, <2>1, <2>2, <2>3 DEF Chains
<1> QED
  BY <1>6, <1>7, FreeListIsSeqNext DEF FreeChain
-----------------------------------------------------------------------------
\* Taking a slot and giving one back, as the set of free slots sees it.
LEMMA SlotTaken ==
  ASSUME TypeOK, NEW t \in Threads, NEW x \in Slots,
         owned' = [owned EXCEPT ![t] = @ \cup {x}]
  PROVE  FreeSlots' = FreeSlots \ {x}
<1>1. ASSUME NEW y
      PROVE  (\E u \in Threads : y \in owned'[u]) <=> y = x \/ \E u \in Threads : y \in owned[u]
  BY DEF TypeOK
<1> QED
  BY <1>1 DEF FreeSlots

LEMMA SlotReturned ==
  ASSUME TypeOK, OneOwner, NEW t \in Threads, NEW x \in owned[t],
         owned' = [owned EXCEPT ![t] = @ \ {x}]
  PROVE  /\ FreeSlots' = FreeSlots \cup {x}
         /\ x \in Slots \ FreeSlots
<1>1. x \in Slots
  BY DEF TypeOK
<1>2. ASSUME NEW u \in Threads, u # t
      PROVE  x \notin owned[u] /\ owned'[u] = owned[u]
  BY <1>2 DEF TypeOK, OneOwner
<1>3. owned'[t] = owned[t] \ {x}
  BY DEF TypeOK
<1>4. ASSUME NEW y
      PROVE  (\E u \in Threads : y \in owned'[u]) <=> y # x /\ \E u \in Threads : y \in owned[u]
  BY <1>2, <1>3
<1> QED
  BY <1>1, <1>4 DEF FreeSlots

LEMMA InitHolds == Init => PoolInv
<1> SUFFICES ASSUME Init
             PROVE  PoolInv
  OBVIOUS
<1>1. 0 \in Slots /\ Capacity \in Nat /\ Capacity > 0
  BY PoolConstants DEF Slots
<1>2. head \in Words
  BY <1>1 DEF Init, Words
<1>3. next \in [Slots -> Slots \cup {Null}]
  BY <1>1 DEF Init, Slots
<1>4. TypeOK
  BY <1>1, <1>2, <1>3 DEF Init, TypeOK, Accesses
<1>5. OneOwner /\ \A t \in Threads : HeadSeen(t) /\ LinkSeen(t) /\ SlotHeld(t)
  BY DEF Init, OneOwner, HeadSeen, LinkSeen, SlotHeld
<1>6. FreeSlots = Slots
  BY DEF Init, FreeSlots
<1> DEFINE s == [i \in 1..Capacity |-> i - 1]
<1>7. s \in Seq(Slots) /\ Len(s) = Capacity /\ DOMAIN s = 1..Capacity
  BY <1>1 DEF Slots
<1>8. ThroughFree(s)
  <2>1. ASSUME NEW x \in Slots
        PROVE  x + 1 \in DOMAIN s /\ s[x + 1] = x
    BY <1>1 DEF Slots
  <2>2. \A i, j \in DOMAIN s : s[i] = s[j] => i = j
    BY <1>1
  <2> QED
    BY <1>6, <1>7, <2>1, <2>2 DEF ThroughFree
<1>9. Chains(s)
  <2>1. s # <<>> /\ s[1] = 0
    BY <1>1, <1>7
  <2>2. \A i \in DOMAIN s : next[s[i]] = IF i = Len(s) THEN Null ELSE s[i+1]
    BY <1>1, <1>7 DEF Init, Slots
  <2> QED
    BY <2>1, <2>2 DEF Init, Chains
<1> QED
  BY <1>4, <1>5, <1>8, <1>9, FreeListIsSeq DEF PoolInv, FreeChain

\* A step of allocate or deallocate that moves neither the head, nor a slot, nor a
\* link, whatever it remembers.
LEMMA OnlyMemory ==
  ASSUME PoolInv, UNCHANGED <<head, next, owned>>,
         TypeOK', \A t \in Threads : (HeadSeen(t) /\ LinkSeen(t) /\ SlotHeld(t))'
  PROVE  PoolInv'
<1>1. OneOwner' /\ FreeSlots' = FreeSlots
  BY DEF PoolInv, OneOwner, FreeSlots
<1> QED
  BY <1>1, ChainUntouched DEF PoolInv

\* LoadHead remembers the head as it is.
LEMMA LoadKeepsInv ==
  ASSUME PoolInv, NEW t \in Threads, pc[t] \in {"idle", "casPop"}, LoadHead(t),
         UNCHANGED <<head, next, size, owned, nxt, arg>>
  PROVE  PoolInv'
<1> USE DEF PoolInv, LoadHead, Go
<1>1. TypeOK'
  BY DEF TypeOK, Accesses
<1>2. ASSUME NEW u \in Threads
      PROVE  (HeadSeen(u) /\ LinkSeen(u) /\ SlotHeld(u))'
  <2>1. CASE u = t
    BY <2>1 DEF TypeOK, Words, HeadSeen, LinkSeen, SlotHeld
  <2>2. CASE u # t
    BY <2>2 DEF TypeOK, HeadSeen, LinkSeen, SlotHeld
  <2> QED
    BY <2>1, <2>2
<1> QED
  BY <1>1, <1>2, OnlyMemory

LEMMA StartAllocateKeepsInv ==
  ASSUME PoolInv, NEW t \in Threads, StartAllocate(t)
  PROVE  PoolInv'
BY LoadKeepsInv DEF StartAllocate

LEMMA PopFailsKeepsInv ==
  ASSUME PoolInv, NEW t \in Threads, PopFails(t)
  PROVE  PoolInv'
BY LoadKeepsInv DEF PopFails

\* The steps after which the call returns or goes on without touching the list.
LEMMA QuietStepKeepsInv ==
  ASSUME PoolInv, NEW t \in Threads,
         Refuse(t) \/ CountUp(t) \/ CountDown(t) \/ ReadNext(t) \/ PushFails(t) \/ StartDeallocate(t)
  PROVE  PoolInv'
<1> USE DEF PoolInv, Go
<1>1. UNCHANGED <<head, next, owned>>
  BY DEF Refuse, CountUp, CountDown, ReadNext, PushFails, StartDeallocate
<1>2. ASSUME TypeOK', (HeadSeen(t) /\ LinkSeen(t) /\ SlotHeld(t))',
             \A u \in Threads \ {t} : pc'[u] = pc[u] /\ fh'[u] = fh[u] /\ nxt'[u] = nxt[u] /\ arg'[u] = arg[u]
      PROVE  PoolInv'
  BY <1>1, <1>2, OnlyMemory DEF HeadSeen, LinkSeen, SlotHeld
<1>3. CASE Refuse(t) \/ CountUp(t) \/ CountDown(t)
  <2>1. TypeOK'
    BY <1>3 DEF Refuse, CountUp, CountDown, TypeOK, Accesses
  <2>2. (HeadSeen(t) /\ LinkSeen(t) /\ SlotHeld(t))'
    BY <1>3 DEF Refuse, CountUp, CountDown, TypeOK, HeadSeen, LinkSeen, SlotHeld
  <2>3. \A u \in Threads \ {t} : pc'[u] = pc[u] /\ fh'[u] = fh[u] /\ nxt'[u] = nxt[u] /\ arg'[u] = arg[u]
    BY <1>3 DEF Refuse, CountUp, CountDown, TypeOK
  <2> QED
    BY <1>2, <2>1, <2>2, <2>3
<1>4. CASE ReadNext(t)
  <2>1. fh[t].idx \in Slots
    BY <1>4 DEF ReadNext, HeadSeen, TypeOK, Words
  <2>2. TypeOK'
    BY <1>4, <2>1 DEF ReadNext, TypeOK, Accesses
  <2>3. (HeadSeen(t) /\ LinkSeen(t) /\ SlotHeld(t))'
    BY <1>4 DEF ReadNext, TypeOK, HeadSeen, LinkSeen, SlotHeld
  <2>4. \A u \in Threads \ {t} : pc'[u] = pc[u] /\ fh'[u] = fh[u] /\ nxt'[u] = nxt[u] /\ arg'[u] = arg[u]
    BY <1>4 DEF ReadNext, TypeOK
  <2> QED
    BY <1>2, <2>2, <2>3, <2>4
<1>5. CASE PushFails(t) \/ StartDeallocate(t)
  <2>1. TypeOK'
    BY <1>5 DEF PushFails, StartDeallocate, TypeOK, Accesses
  <2>2. arg'[t] \in owned[t]
    BY <1>5 DEF PushFails, StartDeallocate, TypeOK, SlotHeld
  <2>3. (HeadSeen(t) /\ LinkSeen(t) /\ SlotHeld(t))'
    BY <1>1, <1>5, <2>2 DEF PushFails, StartDeallocate, TypeOK, Words, HeadSeen, LinkSeen, SlotHeld
  <2>4. \A u \in Threads \ {t} : pc'[u] = pc[u] /\ fh'[u] = fh[u] /\ nxt'[u] = nxt[u] /\ arg'[u] = arg[u]
    BY <1>5 DEF PushFails, StartDeallocate, TypeOK
  <2> QED
    BY <1>2, <2>1, <2>3, <2>4
<1> QED
  BY <1>3, <1>4, <1>5

\* Fill and WriteNext store into a slot of the thread's own: no link of the free list
\* and no link anyone else relies on.
LEMMA StoreKeepsInv ==
  ASSUME PoolInv, NEW t \in Threads, Fill(t) \/ WriteNext(t)
  PROVE  PoolInv'
<1> USE DEF PoolInv, Go
<1>1. arg[t] \in owned[t] /\ UNCHANGED <<head, owned, fh, nxt, arg>> /\ pc' \in [Threads -> Accesses]
  BY DEF Fill, WriteNext, TypeOK, SlotHeld, Accesses
<1>2. \A x \in Slots : x # arg[t] => next'[x] = next[x]
  BY DEF Fill, WriteNext, TypeOK
<1>3. TypeOK'
  BY <1>1 DEF Fill, WriteNext, TypeOK, Words
<1>4. OneOwner' /\ FreeSlots' = FreeSlots
  BY <1>1 DEF OneOwner, FreeSlots
<1>5. arg[t] \notin FreeSlots
  BY <1>1 DEF FreeSlots
<1>6. FreeListExact'
  BY <1>1, <1>2, <1>4, <1>5, ChainUntouched DEF FreeSlots
<1>7. ASSUME NEW u \in Threads
      PROVE  (HeadSeen(u) /\ LinkSeen(u) /\ SlotHeld(u))'
  <2>1. CASE u = t
    <3>1. pc'[t] \in {"idle", "casPush"}
      BY DEF Fill, WriteNext, TypeOK
    <3>2. pc'[t] = "casPush" => next'[arg[t]] = fh[t].idx
      BY DEF Fill, WriteNext, TypeOK
    <3> QED
      BY <1>1, <2>1, <3>1, <3>2 DEF HeadSeen, LinkSeen, SlotHeld
  <2>2. CASE u # t
    <3>1. pc'[u] = pc[u]
      BY <2>2 DEF Fill, WriteNext, TypeOK
    <3>2. HeadSeen(u)' /\ (SlotHeld(u) => SlotHeld(u)')
      <4>1. pc[u] = "casPush" => arg[u] # arg[t] /\ arg[u] \in Slots
        BY <1>1, <2>2 DEF OneOwner, SlotHeld, TypeOK
      <4> QED
        BY <1>1, <1>2, <3>1, <4>1 DEF HeadSeen, SlotHeld
    <3>3. LinkSeen(u)'
      <4>1. pc[u] = "casPop" /\ fh[u] = head => head.idx \in FreeSlots
        BY HeadIsFree DEF HeadSeen
      <4> QED
        BY <1>1, <1>2, <1>5, <3>1, <4>1 DEF LinkSeen, FreeSlots
    <3> QED
      BY <3>2, <3>3
  <2> QED
    BY <2>1, <2>2
<1> QED
  BY <1>3, <1>4, <1>6, <1>7

\* The head moves on: nobody who remembers it can take the new one for it.
LEMMA HeadMoves ==
  ASSUME TypeOK, NEW i, head' = Swapped(i), UNCHANGED fh,
         NEW u \in Threads, HeadSeen(u)
  PROVE  /\ fh'[u].tag <= head'.tag
         /\ fh'[u] # head'
<1>1. fh[u].tag \in Nat /\ head.tag \in Nat /\ fh[u].tag <= head.tag
  BY DEF TypeOK, Words, HeadSeen
<1>2. head'.tag = head.tag + 1
  BY DEF Swapped
<1> QED
  BY <1>1, <1>2

LEMMA PopKeepsInv ==
  ASSUME PoolInv, NEW t \in Threads, PopSucceeds(t)
  PROVE  PoolInv'
<1> USE DEF PoolInv, Go
<1> DEFINE x == fh[t].idx
<1>1. /\ head = fh[t] /\ nxt[t] = next[x] /\ x # Null /\ x \in FreeSlots
      /\ owned' = [owned EXCEPT ![t] = @ \cup {x}]
  BY HeadIsFree DEF PopSucceeds, HeadSeen, LinkSeen
<1>2. x \in Slots /\ \A u \in Threads : x \notin owned[u]
  BY <1>1 DEF FreeSlots
<1>3. TypeOK'
  <2>1. head' \in Words
    BY <1>1 DEF PopSucceeds, Swapped, TypeOK, Words
  <2> QED
    BY <1>1, <1>2, <2>1 DEF PopSucceeds, TypeOK, Accesses
<1>4. OneOwner'
  BY <1>1, <1>2 DEF TypeOK, OneOwner
<1>5. FreeListExact'
  <2>1. head'.idx = next[head.idx]
    BY <1>1 DEF PopSucceeds, Swapped
  <2>2. FreeSlots' = FreeSlots \ {head.idx}
    BY <1>1, <1>2, SlotTaken
  <2> QED
    BY <1>1, <2>1, <2>2, ChainPopped DEF PopSucceeds
<1>6. ASSUME NEW u \in Threads
      PROVE  (HeadSeen(u) /\ LinkSeen(u) /\ SlotHeld(u))'
  <2>1. fh'[u].tag <= head'.tag /\ fh'[u] # head'
    BY HeadMoves DEF PopSucceeds
  <2>2. HeadSeen(u)' /\ LinkSeen(u)'
    BY <2>1 DEF PopSucceeds, TypeOK, HeadSeen, LinkSeen
  <2>3. SlotHeld(u)'
    <3>1. CASE u = t
      BY <1>1, <3>1 DEF PopSucceeds, TypeOK, SlotHeld
    <3>2. CASE u # t
      BY <1>1, <3>2 DEF PopSucceeds, TypeOK, SlotHeld
    <3> QED
      BY <3>1, <3>2
  <2> QED
    BY <2>2, <2>3
<1> QED
  BY <1>3, <1>4, <1>5, <1>6

LEMMA PushKeepsInv ==
  ASSUME PoolInv, NEW t \in Threads, PushSucceeds(t)
  PROVE  PoolInv'
<1> USE DEF PoolInv, Go
<1> DEFINE x == arg[t]
<1>1. /\ head = fh[t] /\ x \in owned[t] /\ x \in Slots /\ next[x] = head.idx
      /\ owned' = [owned EXCEPT ![t] = @ \ {x}]
  BY DEF PushSucceeds, SlotHeld, TypeOK
<1>2. FreeSlots' = FreeSlots \cup {x} /\ x \in Slots \ FreeSlots
  BY <1>1, SlotReturned
<1>3. TypeOK'
  <2>1. head' \in Words
    BY <1>1 DEF PushSucceeds, Swapped, TypeOK, Words
  <2> QED
    BY <1>1, <2>1 DEF PushSucceeds, TypeOK, Accesses
<1>4. OneOwner'
  BY <1>1 DEF TypeOK, OneOwner
<1>5. FreeListExact'
  <2>1. head'.idx = x
    BY <1>1 DEF PushSucceeds, Swapped
  <2> QED
    BY <1>1, <1>2, <2>1, ChainPushed DEF PushSucceeds
<1>6. ASSUME NEW u \in Threads
      PROVE  (HeadSeen(u) /\ LinkSeen(u) /\ SlotHeld(u))'
  <2>1. fh'[u].tag <= head'.tag /\ fh'[u] # head'
    BY HeadMoves DEF PushSucceeds
  <2>2. HeadSeen(u)' /\ LinkSeen(u)'
    BY <2>1 DEF PushSucceeds, TypeOK, HeadSeen, LinkSeen
  <2>3. SlotHeld(u)'
    <3>1. CASE u = t
      BY <3>1 DEF PushSucceeds, TypeOK, SlotHeld
    <3>2. CASE u # t
      BY <1>1, <3>2 DEF PushSucceeds, TypeOK, SlotHeld
    <3> QED
      BY <3>1, <3>2
  <2> QED
    BY <2>2, <2>3
<1> QED
  BY <1>3, <1>4, <1>5, <1>6

LEMMA StutterKeepsInv == PoolInv /\ UNCHANGED vars => PoolInv'
<1> SUFFICES ASSUME PoolInv, UNCHANGED vars
             PROVE  PoolInv'
  OBVIOUS
<1>1. FreeSlots' = FreeSlots
  BY DEF FreeSlots, vars
<1>2. FreeListExact'
  BY <1>1, ChainUntouched DEF PoolInv, vars
<1> QED
  BY <1>2 DEF PoolInv, TypeOK, OneOwner, HeadSeen, LinkSeen, SlotHeld, vars

LEMMA NextKeepsInv == PoolInv /\ [Next]_vars => PoolInv'
<1> SUFFICES ASSUME PoolInv, NEW t \in Threads,
                    StartAllocate(t) \/ StartDeallocate(t) \/ Continue(t)
             PROVE  PoolInv'
  BY StutterKeepsInv DEF Next
<1> QED
  BY StartAllocateKeepsInv, PopFailsKeepsInv, QuietStepKeepsInv, StoreKeepsInv, PopKeepsInv,
     PushKeepsInv DEF Continue

\* The inductive invariant of the pool.
THEOREM PoolInvariant == Spec => []PoolInv
BY InitHolds, NextKeepsInv, PTL DEF Spec

\* At every instant, whatever calls are in progress, the free list of OrderPool runs
\* once through exactly the slots that no caller owns.
THEOREM FreeListAlwaysExact == Spec => []FreeListExact
<1>1. PoolInv => FreeListExact
  BY DEF PoolInv
<1> QED
  BY <1>1, PoolInvariant, PTL

\* allocate gives a slot to one caller at a time, deallocate takes it back, and
\* nullptr is answered only after an instant at which every slot was taken: the
\* pool implements SlotAllocator.
THEOREM PoolImplementsAllocator == Spec => AllocatorSpec
<1> DEFINE Refused == {t \in Threads : pc[t] = "refuse"}
<1>1. Init => Allocator!Init
  BY DEF Init, Allocator!Init
<1>2. PoolInv /\ [Next]_vars => [Allocator!Next]_Allocator!vars
  <2> SUFFICES ASSUME PoolInv, NEW t \in Threads,
                      StartAllocate(t) \/ StartDeallocate(t) \/ Continue(t)
               PROVE  [Allocator!Next]_Allocator!vars
    BY DEF Next, vars, Allocator!vars
  <2> USE DEF PoolInv, Go
  <2>0. Allocator!FreeSlots = FreeSlots
    BY DEF Allocator!FreeSlots, FreeSlots
  <2>1. CASE StartAllocate(t) \/ PopFails(t)
    <3>1. LoadHead(t) /\ UNCHANGED owned /\ pc[t] # "refuse"
      BY <2>1 DEF StartAllocate, PopFails
    <3>2. CASE head.idx = Null
      <4>1. FreeSlots = {}
        BY <3>2, HeadIsFree
      <4>2. Refused' = Refused \cup {t}
        BY <3>1, <3>2 DEF LoadHead, TypeOK
      <4> QED
        BY <2>0, <3>1, <4>1, <4>2 DEF Allocator!Exhausted, Allocator!Next
    <3>3. CASE head.idx # Null
      <4>1. Refused' = Refused
        BY <3>1, <3>3 DEF LoadHead, TypeOK
      <4> QED
        BY <3>1, <4>1 DEF Allocator!vars
    <3> QED
      BY <3>2, <3>3
  <2>2. CASE Refuse(t)
    <3>1. Refused' = Refused \ {t} /\ t \in Refused
      BY <2>2 DEF Refuse, TypeOK
    <3> QED
      BY <2>2, <3>1 DEF Refuse, Allocator!Refuse, Allocator!Next
  <2>3. CASE PopSucceeds(t)
    <3>1. fh[t].idx \in FreeSlots /\ t \notin Refused /\ Refused' = Refused
      BY <2>3, HeadIsFree DEF PopSucceeds, TypeOK, HeadSeen
    <3> QED
      BY <2>0, <2>3, <3>1 DEF PopSucceeds, Allocator!Allocate, Allocator!Next
  <2>4. CASE PushSucceeds(t)
    <3>1. arg[t] \in owned[t] /\ Refused' = Refused
      BY <2>4 DEF PushSucceeds, TypeOK, SlotHeld
    <3> QED
      BY <2>4, <3>1 DEF PushSucceeds, Allocator!Deallocate, Allocator!Next
  <2>5. CASE \/ ReadNext(t) \/ CountUp(t) \/ Fill(t) \/ StartDeallocate(t)
             \/ WriteNext(t) \/ PushFails(t) \/ CountDown(t)
    <3>1. UNCHANGED owned /\ Refused' = Refused
      BY <2>5 DEF ReadNext, CountUp, Fill, StartDeallocate, WriteNext, PushFails, CountDown, TypeOK
    <3> QED
      BY <3>1 DEF Allocator!vars
  <2> QED
    BY <2>1, <2>2, <2>3, <2>4, <2>5 DEF Continue
<1> QED
  BY <1>1, <1>2, PoolInvariant, PTL DEF Spec, AllocatorSpec, Allocator!Spec
=============================================================================
