------------------------------ MODULE OrderMap ------------------------------
(***************************************************************************)
(* OrderMap (exchange/order_map.h; core/memory/order_map.h is the same       *)
(* code): the index from order ids to orders.  Each bucket is a chain of     *)
(* pooled nodes, changed by compare-exchange; a chain that reaches Threshold *)
(* nodes is copied into the locked std::map overflow_, and the bucket stays   *)
(* there (treeify).  A node's next_idx is its link in a chain or in the free  *)
(* list.                                                                     *)
(*                                                                           *)
(* One action per access to shared memory; exchanges are weak and may fail   *)
(* for no reason.  Two things are taken in one step: allocNode and freeNode,  *)
(* which are the code of OrderPool and keep its promise (SlotAllocator), and  *)
(* an access to overflow_ under its lock.  The order a node points to is a    *)
(* function of its id and left out, and so is size_, which nothing here reads. *)
(***************************************************************************)
EXTENDS Integers, Sequences, FiniteSets, SequencesExt

CONSTANTS
  Threads, NoThread,  \* callers
  Ids, NoId,          \* order ids; 0, what an unused node holds
  Buckets,            \* bucket numbers, 0 among them
  BucketOf,           \* hash: id -> bucket
  OwnerOf,            \* id -> the one thread that works on it (serial per locate)
  Capacity,           \* number of nodes
  Threshold,          \* TREEIFY_THRESHOLD
  Null,               \* UINT32_MAX
  Loaded,             \* ids inserted beforehand, all into one bucket, last one first
  Uses                \* id -> what its owner does with it: insert (once), find, erase

Nodes == 0..(Capacity - 1)

ASSUME MapConstants ==
  /\ NoThread \notin Threads /\ NoId \notin Ids /\ Null \notin Nodes
  /\ 0 \in Buckets
  /\ BucketOf \in [Ids -> Buckets] /\ OwnerOf \in [Ids -> Threads]
  /\ Capacity \in Nat \ {0} /\ Threshold \in Nat \ {0}
  /\ Loaded \in Seq(Ids) /\ Len(Loaded) <= Capacity /\ Len(Loaded) < Threshold
  /\ \A k, l \in DOMAIN Loaded : /\ BucketOf[Loaded[k]] = BucketOf[Loaded[l]]
                                 /\ Loaded[k] = Loaded[l] => k = l
  /\ Uses \in [Ids -> SUBSET {"insert", "find", "erase"}]

VARIABLES
  first,     \* buckets_: bucket -> first node of its chain
  len,       \* bucket_len_
  state,     \* state_: "chain" (0), "converting" (1), "tree" (2)
  next, id, bucket,  \* next_idx, order_id and bucket of each node
  free,      \* the free list, its head first
  overflow,  \* the ids in overflow_
  lock,      \* the thread in treeify that holds overflow_lock_
  call,      \* thread -> its call: the access it is about to make and its locals
  used,      \* the ids insert has been called with
  live       \* history: the ids inserted and not erased since

nodeVars == <<next, id, bucket, free>>
history == <<used, live>>
bucketVars == <<first, len, state, overflow, lock, history>>
indexVars == <<nodeVars, bucketVars, call>>

Idle == [at |-> "idle", key |-> NoId, idx |-> Null, nxt |-> Null, aft |-> Null]

At(t, step) == call[t].at = step
Bkt(t) == BucketOf[call[t].key]
To(t, step) == call' = [call EXCEPT ![t].at = step]
ToIf(t, cond, step, other) == To(t, IF cond THEN step ELSE other)
\* The same with the locals that are not read again cleared: all of them, or all but idx.
Again(t, step) == call' = [call EXCEPT ![t] = [Idle EXCEPT !.at = step, !.key = call[t].key]]
Done(t, step) == call' = [call EXCEPT ![t].nxt = Null, ![t].at = step]
\* A step on a node the call has just read; Null is the end of the chain.
Visit(t, i, step, end) ==
  call' = [call EXCEPT ![t].idx = i, ![t].at = IF i = Null THEN end ELSE step]

Top == IF free = <<>> THEN Null ELSE Head(free)
\* freeNode: the node's link is written, and it becomes the head.
FreeNode(i) ==
  /\ next' = [next EXCEPT ![i] = Top]
  /\ free' = <<i>> \o free

Free == lock = NoThread
-----------------------------------------------------------------------------
(* Calls.  A reference is inserted once in a day, and the books erase only what *)
(* is in the index.                                                            *)

Start(t, op, i) ==
  /\ At(t, "idle") /\ OwnerOf[i] = t /\ op \in Uses[i]
  /\ op = "insert" => i \notin used
  /\ op = "erase" => i \in live
  /\ used' = IF op = "insert" THEN used \cup {i} ELSE used
  /\ call' = [call EXCEPT ![t] = [Idle EXCEPT !.at = op, !.key = i]]
  /\ UNCHANGED <<nodeVars, first, len, state, overflow, lock, live>>

Returned == {"inserted", "refused", "found", "missing", "erased"}

Return(t) ==
  /\ call[t].at \in Returned
  /\ live' = CASE At(t, "inserted") -> live \cup {call[t].key}
               [] At(t, "erased") -> live \ {call[t].key}
               [] OTHER -> live
  /\ call' = [call EXCEPT ![t] = Idle]
  /\ UNCHANGED <<nodeVars, first, len, state, overflow, lock, used>>

\* state_ is read: a bucket that is converting or a tree is worked on in overflow_.
Gate(t, at, onTree, onChain) ==
  /\ At(t, at)
  /\ ToIf(t, state[Bkt(t)] # "chain", onTree, onChain)
  /\ UNCHANGED <<nodeVars, bucketVars>>
-----------------------------------------------------------------------------
(* insert.                                                                   *)

\* The length decides on the conversion.  The other test of this line, an empty
\* free list, compares the word with its tag and never succeeds.
CheckLength(t) ==
  /\ At(t, "length")
  /\ ToIf(t, len[Bkt(t)] >= Threshold, "claim", "alloc")
  /\ UNCHANGED <<nodeVars, bucketVars>>

AllocNode(t) ==
  /\ At(t, "alloc")
  /\ Visit(t, Top, "fill", "refused")
  /\ free' = IF free = <<>> THEN free ELSE Tail(free)
  /\ UNCHANGED <<next, id, bucket, bucketVars>>

Fill(t) ==
  /\ At(t, "fill")
  /\ id' = [id EXCEPT ![call[t].idx] = call[t].key]
  /\ bucket' = [bucket EXCEPT ![call[t].idx] = Bkt(t)]
  /\ To(t, "recheck")
  /\ UNCHANGED <<next, free, bucketVars>>

ReadFirst(t) ==
  /\ At(t, "readFirst")
  /\ call' = [call EXCEPT ![t].nxt = first[Bkt(t)], ![t].at = "link"]
  /\ UNCHANGED <<nodeVars, bucketVars>>

Link(t) ==
  /\ At(t, "link")
  /\ next' = [next EXCEPT ![call[t].idx] = call[t].nxt]
  /\ To(t, "publish")
  /\ UNCHANGED <<id, bucket, free, bucketVars>>

Publish(t) ==
  /\ At(t, "publish") /\ first[Bkt(t)] = call[t].nxt
  /\ first' = [first EXCEPT ![Bkt(t)] = call[t].idx]
  /\ Done(t, "count")
  /\ UNCHANGED <<nodeVars, len, state, overflow, lock, history>>

PublishFails(t) ==
  /\ At(t, "publish")
  /\ call' = [call EXCEPT ![t].nxt = first[Bkt(t)], ![t].at = "retry"]
  /\ UNCHANGED <<nodeVars, bucketVars>>

GiveBack(t) ==
  /\ At(t, "giveBack")
  /\ FreeNode(call[t].idx)
  /\ Again(t, "treeAdd")
  /\ UNCHANGED <<id, bucket, bucketVars>>

CountIn(t) ==
  /\ At(t, "count")
  /\ len' = [len EXCEPT ![Bkt(t)] = @ + 1]
  /\ To(t, "lengthAgain")
  /\ UNCHANGED <<nodeVars, first, state, overflow, lock, history>>

CheckLengthAgain(t) ==
  /\ At(t, "lengthAgain")
  /\ ToIf(t, len[Bkt(t)] >= Threshold, "claim", "inserted")
  /\ UNCHANGED <<nodeVars, bucketVars>>

TreeAdd(t) ==
  /\ At(t, "treeAdd") /\ Free
  /\ overflow' = overflow \cup {call[t].key}
  /\ To(t, "inserted")
  /\ UNCHANGED <<nodeVars, first, len, state, lock, history>>

InsertSteps(t) ==
  \/ Gate(t, "insert", "treeAdd", "length")
  \/ CheckLength(t) \/ AllocNode(t) \/ Fill(t)
  \/ Gate(t, "recheck", "giveBack", "readFirst")
  \/ ReadFirst(t) \/ Link(t) \/ Publish(t) \/ PublishFails(t)
  \/ Gate(t, "retry", "giveBack", "link")
  \/ GiveBack(t) \/ CountIn(t) \/ CheckLengthAgain(t) \/ TreeAdd(t)
-----------------------------------------------------------------------------
(* treeify, called by insert before it has a node or after it linked one.    *)

AfterTreeify(t) == IF call[t].idx = Null THEN "treeAdd" ELSE "inserted"

Claim(t) ==
  /\ At(t, "claim")
  /\ IF state[Bkt(t)] = "chain"
     THEN /\ state' = [state EXCEPT ![Bkt(t)] = "converting"]
          /\ To(t, "lock")
     ELSE /\ To(t, AfterTreeify(t))
          /\ UNCHANGED state
  /\ UNCHANGED <<nodeVars, first, len, overflow, lock, history>>

\* Fault: the copy begins behind the head of the chain.
Lock_SecondNode(t) ==
  /\ At(t, "lock") /\ Free
  /\ lock' = t
  /\ call' = [call EXCEPT ![t].nxt = next[first[Bkt(t)]], ![t].at = "copy"]
  /\ UNCHANGED <<nodeVars, first, len, state, overflow, history>>
Lock(t) ==
  /\ At(t, "lock") /\ Free
  /\ lock' = t
  /\ call' = [call EXCEPT ![t].nxt = first[Bkt(t)], ![t].at = "copy"]
  /\ UNCHANGED <<nodeVars, first, len, state, overflow, history>>

Copy(t) ==
  /\ At(t, "copy") /\ call[t].nxt # Null
  /\ overflow' = overflow \cup {id[call[t].nxt]}
  /\ call' = [call EXCEPT ![t].nxt = next[@]]
  /\ UNCHANGED <<nodeVars, first, len, state, lock, history>>

\* The chain's nodes stay where they are and are never given back.
CopyEnds(t) ==
  /\ At(t, "copy") /\ call[t].nxt = Null
  /\ state' = [state EXCEPT ![Bkt(t)] = "tree"]
  /\ lock' = NoThread
  /\ To(t, AfterTreeify(t))
  /\ UNCHANGED <<nodeVars, first, len, overflow, history>>

TreeifySteps(t) == Claim(t) \/ Lock(t) \/ Copy(t) \/ CopyEnds(t)
-----------------------------------------------------------------------------
(* find.                                                                     *)

FindFirst(t) ==
  /\ At(t, "findFirst")
  /\ Visit(t, first[Bkt(t)], "sameBucket", "missing")
  /\ UNCHANGED <<nodeVars, bucketVars>>

\* A node of another bucket: the chain was left, start again.
SameBucket(t) ==
  /\ At(t, "sameBucket")
  /\ ToIf(t, bucket[call[t].idx] # Bkt(t), "findFirst", "compare")
  /\ UNCHANGED <<nodeVars, bucketVars>>

Compare(t) ==
  /\ At(t, "compare")
  /\ ToIf(t, id[call[t].idx] = call[t].key, "found", "advance")
  /\ UNCHANGED <<nodeVars, bucketVars>>

Advance(t) ==
  /\ At(t, "advance")
  /\ Visit(t, next[call[t].idx], "sameBucket", "missing")
  /\ UNCHANGED <<nodeVars, bucketVars>>

TreeFind(t) ==
  /\ At(t, "treeFind") /\ Free
  /\ ToIf(t, call[t].key \in overflow, "found", "missing")
  /\ UNCHANGED <<nodeVars, bucketVars>>

FindSteps(t) ==
  \/ Gate(t, "find", "treeFind", "findFirst")
  \/ FindFirst(t) \/ SameBucket(t) \/ Compare(t) \/ Advance(t) \/ TreeFind(t)
-----------------------------------------------------------------------------
(* erase.                                                                    *)

EraseFirst(t) ==
  /\ At(t, "eraseFirst")
  /\ Visit(t, first[Bkt(t)], "isFirst", "erased")
  /\ UNCHANGED <<nodeVars, bucketVars>>

IsFirst(t) ==
  /\ At(t, "isFirst")
  /\ ToIf(t, id[call[t].idx] = call[t].key, "readSecond", "walk")
  /\ UNCHANGED <<nodeVars, bucketVars>>

ReadSecond(t) ==
  /\ At(t, "readSecond")
  /\ call' = [call EXCEPT ![t].nxt = next[call[t].idx], ![t].at = "unlinkFirst"]
  /\ UNCHANGED <<nodeVars, bucketVars>>

UnlinkFirst(t) ==
  /\ At(t, "unlinkFirst") /\ first[Bkt(t)] = call[t].idx
  /\ first' = [first EXCEPT ![Bkt(t)] = call[t].nxt]
  /\ Done(t, "free")
  /\ UNCHANGED <<nodeVars, len, state, overflow, lock, history>>

\* Fault: the exchange's failure is not looked at, and the node is freed.
UnlinkFirstFails_Frees(t) ==
  /\ At(t, "unlinkFirst")
  /\ Done(t, "free")
  /\ UNCHANGED <<nodeVars, bucketVars>>
\* The loop goes on with the head it found, an empty chain's UINT32_MAX included,
\* which is then used as an index ("astray").
UnlinkFirstFails(t) ==
  /\ At(t, "unlinkFirst")
  /\ Visit(t, first[Bkt(t)], "stillFirst", "astray")
  /\ UNCHANGED <<nodeVars, bucketVars>>

StillFirst(t) ==
  /\ At(t, "stillFirst")
  /\ ToIf(t, id[call[t].idx] # call[t].key, "eraseFirst", "readSecond")
  /\ UNCHANGED <<nodeVars, bucketVars>>

Walk(t) ==
  /\ At(t, "walk")
  /\ ToIf(t, bucket[call[t].idx] # Bkt(t), "eraseFirst", "readNext")
  /\ UNCHANGED <<nodeVars, bucketVars>>

ReadNext(t) ==
  /\ At(t, "readNext")
  /\ LET n == next[call[t].idx] IN
     call' = [call EXCEPT ![t].nxt = n, ![t].at = IF n = Null THEN "erased" ELSE "isNext"]
  /\ UNCHANGED <<nodeVars, bucketVars>>

IsNext(t) ==
  /\ At(t, "isNext")
  /\ IF id[call[t].nxt] = call[t].key
     THEN To(t, "readAfter")
     ELSE call' = [call EXCEPT ![t].idx = call[t].nxt, ![t].nxt = Null, ![t].at = "walk"]
  /\ UNCHANGED <<nodeVars, bucketVars>>

ReadAfter(t) ==
  /\ At(t, "readAfter")
  /\ call' = [call EXCEPT ![t].aft = next[call[t].nxt], ![t].at = "unlinkNext"]
  /\ UNCHANGED <<nodeVars, bucketVars>>

UnlinkNext(t) ==
  /\ At(t, "unlinkNext") /\ next[call[t].idx] = call[t].nxt
  /\ next' = [next EXCEPT ![call[t].idx] = call[t].aft]
  /\ call' = [call EXCEPT ![t] = [Idle EXCEPT !.at = "free", !.key = call[t].key, !.idx = call[t].nxt]]
  /\ UNCHANGED <<id, bucket, free, bucketVars>>

UnlinkNextFails(t) ==
  /\ At(t, "unlinkNext")
  /\ Again(t, "eraseFirst")
  /\ UNCHANGED <<nodeVars, bucketVars>>

\* Fault: the node is taken out and not given back.
FreeErased_Leak(t) ==
  /\ At(t, "free")
  /\ Again(t, "uncount")
  /\ UNCHANGED <<nodeVars, bucketVars>>
FreeErased(t) ==
  /\ At(t, "free")
  /\ FreeNode(call[t].idx)
  /\ Again(t, "uncount")
  /\ UNCHANGED <<id, bucket, bucketVars>>

CountOut(t) ==
  /\ At(t, "uncount")
  /\ len' = [len EXCEPT ![Bkt(t)] = @ - 1]
  /\ To(t, "erased")
  /\ UNCHANGED <<nodeVars, first, state, overflow, lock, history>>

TreeErase(t) ==
  /\ At(t, "treeErase") /\ Free
  /\ overflow' = overflow \ {call[t].key}
  /\ To(t, "erased")
  /\ UNCHANGED <<nodeVars, first, len, state, lock, history>>

EraseSteps(t) ==
  \/ Gate(t, "erase", "treeErase", "eraseFirst")
  \/ EraseFirst(t) \/ IsFirst(t) \/ ReadSecond(t)
  \/ UnlinkFirst(t) \/ UnlinkFirstFails(t) \/ StillFirst(t)
  \/ Walk(t) \/ ReadNext(t) \/ IsNext(t) \/ ReadAfter(t)
  \/ UnlinkNext(t) \/ UnlinkNextFails(t)
  \/ FreeErased(t) \/ CountOut(t) \/ TreeErase(t)
-----------------------------------------------------------------------------
\* The constructor, and the serial inserts of Loaded.  Unused nodes hold zeros.
Taken == Len(Loaded)
IndexInit ==
  /\ first = [b \in Buckets |-> IF Taken > 0 /\ BucketOf[Loaded[1]] = b THEN Taken - 1 ELSE Null]
  /\ len = [b \in Buckets |-> IF Taken > 0 /\ BucketOf[Loaded[1]] = b THEN Taken ELSE 0]
  /\ state = [b \in Buckets |-> "chain"]
  /\ next = [i \in Nodes |-> IF i < Taken
                             THEN IF i = 0 THEN Null ELSE i - 1
                             ELSE IF i = Capacity - 1 THEN Null ELSE i + 1]
  /\ id = [i \in Nodes |-> IF i < Taken THEN Loaded[i + 1] ELSE NoId]
  /\ bucket = [i \in Nodes |-> IF i < Taken THEN BucketOf[Loaded[i + 1]] ELSE 0]
  /\ free = [k \in 1..(Capacity - Taken) |-> Taken + k - 1]
  /\ overflow = {}
  /\ lock = NoThread
  /\ call = [t \in Threads |-> Idle]
  /\ used = ToSet(Loaded)
  /\ live = used

Continue(t) == InsertSteps(t) \/ TreeifySteps(t) \/ FindSteps(t) \/ EraseSteps(t) \/ Return(t)

IndexNext == \E t \in Threads :
  \/ \E op \in {"insert", "find", "erase"}, i \in Ids : Start(t, op, i)
  \/ Continue(t)

IndexSpec == IndexInit /\ [][IndexNext]_indexVars
-----------------------------------------------------------------------------
(* Properties.                                                               *)

\* The buckets with all their ids on one thread.
Private == {b \in Buckets : \A i, j \in Ids :
              BucketOf[i] = b /\ BucketOf[j] = b => OwnerOf[i] = OwnerOf[j]}
SharedAreChains == \A b \in Buckets \ Private : state[b] = "chain"

\* In a bucket with one thread an order that was put into the index is found until it
\* is taken out, and not after, and no chain is left for an index out of range.  When a
\* shared bucket has been converted, `not after' holds of chains alone: a node that
\* erase gave back and that its thread reuses can still be linked to by another thread
\* that is late in the shared bucket; that chain, copied into overflow_, takes the order
\* along, and it is found there once it has been erased.  In a shared bucket neither
\* holds: a find that sees `converting' can take the lock before the converter has.
PrivateFindsTrue ==
  \A t \in Threads : ~At(t, "idle") /\ Bkt(t) \in Private =>
    /\ At(t, "missing") => call[t].key \notin live
    /\ At(t, "found") /\ (state[Bkt(t)] = "chain" \/ SharedAreChains) => call[t].key \in live
    /\ ~At(t, "astray")

\* The nodes that n links lead to, from the first of a bucket.
Chain(b) ==
  LET hop[n \in 0..Capacity] ==
        IF n = 0 THEN first[b] ELSE IF hop[n - 1] = Null THEN Null ELSE next[hop[n - 1]]
  IN  {hop[n] : n \in 0..Capacity} \ {Null}
FreeNodes == {free[k] : k \in DOMAIN free}
InHand == {call[t].idx : t \in {u \in Threads :
             call[u].at \in {"fill", "recheck", "readFirst", "link", "publish", "retry",
                             "giveBack", "free"}}}

\* No node is given out twice: the free list has none twice, none that a call has in
\* hand and none of a private chain, and private chains share none.
NodesHaveOnePlace ==
  /\ Len(free) = Cardinality(FreeNodes)
  /\ FreeNodes \cap InHand = {}
  /\ \A b \in Private :
       LET chain == Chain(b) IN
       /\ chain \cap (FreeNodes \cup InHand) = {}
       /\ \A c \in Private \ {b} : chain \cap Chain(c) = {}

\* A node that served a private bucket is free again, in hand, or still in the chain,
\* where a conversion leaves it for good: those are the only nodes lost.
NoPrivateNodeLost ==
  \A i \in Nodes :
    \/ i \in FreeNodes \cup InHand
    \/ \E b \in Private : i \in Chain(b)
    \/ bucket[i] \notin Private
=============================================================================
