------------------------------ MODULE Recovery ------------------------------
(***************************************************************************)
(* The matching engine with its write-ahead log and its snapshots            *)
(* (exchange/wal.cpp, the recovery half of matching_engine.cpp and            *)
(* order_book.cpp): every command is logged before it is carried out, the     *)
(* process may crash between any two steps, and a restart rebuilds the books  *)
(* from the log; or it is shut down with a snapshot, and restarted from that, *)
(* or from that and the log.                                                  *)
(*                                                                           *)
(* The log is a shared mapping of a file: what is appended, an entry at a     *)
(* time, outlives the process, and all else is lost.  How a restart is done   *)
(* is the caller's choice, outside this code; the checkpoint is written and   *)
(* never read, and recoverFromShared is left out.  Order ids are given by the *)
(* callers, so next_order_id_ is left out too.                                *)
(***************************************************************************)
EXTENDS MatchingEngine

CONSTANTS
  WalEntries,    \* WAL_ENTRIES, the slots of the ring
  SnapshotLocate, \* 0, the one locate whose book a snapshot has
  Uint32,          \* 2^32
  MaxAppends, MaxRestarts  \* bounds on the entries logged and on the restarts

ASSUME RecoveryConstants ==
  /\ WalEntries \in Nat \ {0} /\ Uint32 \in Nat \ {0}
  /\ MaxAppends \in Nat /\ MaxRestarts \in Nat

VARIABLES
  wal,      \* the file: slot -> WalEntry
  written,  \* total_ of the writer
  mode,     \* "running", "replaying" (recoverFromWal), "loading" (loadSnapshot),
            \* "astray" (a replay that took an order out through another book's level)
  at,       \* the next entry to replay or to load
  file,     \* the snapshot: a sequence of orders
  appends, restarts,  \* bounded
  home,     \* history: the locate that a reference was first logged with
  faithful, \* history: nothing was logged otherwise than it will be replayed
  lost      \* history: the book that the restart has to bring back

logVars == <<wal, written, appends, home>>
restartVars == <<mode, at, file, restarts, lost>>
recoveryVars == <<logVars, restartVars, faithful>>
walVars == <<vars, recoveryVars>>

Slots == 0..(WalEntries - 1)
Running == mode = "running"
-----------------------------------------------------------------------------
(* Commands, logged.                                                       *)

Entry(type, loc, side, price, qty, user, ref, seq) ==
  [type |-> type, locate |-> loc, side |-> side, price |-> price, qty |-> qty,
   user |-> user, ref |-> ref, seq |-> seq]
\* A slot of a fresh file is all zero.
Blank == Entry("NONE", 0, "INVALID", 0, 0, 0, 0, 0)

\* append, into the ring.
Log(entry) ==
  /\ appends < MaxAppends
  /\ wal' = [wal EXCEPT ![written % WalEntries] = entry]
  /\ written' = written + 1
  /\ appends' = appends + 1
  /\ home' = [r \in DOMAIN home \cup {entry.ref} |->
                IF r \in DOMAIN home THEN home[r] ELSE entry.locate]
  /\ UNCHANGED restartVars

\* History: the entry replays to what the command did.
LogAs(entry, same) ==
  /\ Log(entry)
  /\ faithful' = (faithful /\ same)

\* An order is logged once it is valid, with the number after its own; what is
\* refused before it is logged is left to MatchingEngine.  Market orders are left
\* out: replayed, what is left of one rests at an extreme price, a level
\* MatchingEngine has not.
LoggedAdd ==
  /\ Running
  /\ Add
  /\ phase' = "matching" /\ order'.price \in Prices
  /\ LogAs(Entry("NEW", order'.locate, order'.side, order'.price, order'.orig,
                 order'.user, order'.ref, nextSeq'), TRUE)

\* The other commands are logged before anything but the locate is looked at.
\* They name references supplied before; one that does not rest (void, filled or
\* gone) may come with another locate than it had.
LoggedCancel ==
  /\ Running
  /\ \E loc \in Locates, ref \in used : \E user \in Clients \cup {ref} :
       /\ ProcessCancel(loc, ref, user)
       /\ LogAs(Entry("CANCEL", loc, "INVALID", 0, 0, user, ref, nextSeq), TRUE)

\* Replayed, a partial cancel is taken twice, and whoever asked for it.
LoggedCancelShares ==
  /\ Running
  /\ \E loc \in Locates, ref \in used, shares \in Quantities : \E user \in Clients \cup {ref} :
       /\ ProcessCancelShares(loc, ref, shares, user)
       /\ LogAs(Entry("SHARES", loc, "INVALID", 0, shares, user, ref, nextSeq),
                ref \in DOMAIN orders => Owns(loc, ref, user) /\ CancelsAll(ref, shares))

\* The old reference is not logged: replayed, a replace does nothing.
LoggedReplace ==
  /\ Running
  /\ \E loc \in Locates, old \in used, new \in Refs, price \in Prices, qty \in Quantities :
       \E user \in Clients \cup {old} :
         /\ ProcessReplace(loc, old, new, price, qty, user)
         /\ LogAs(Entry("REPLACE", loc, "INVALID", price, qty, user, new, nextSeq),
                  ~Owns(loc, old, user))

\* The log has no TIF: replayed, the rest of an IOC or FOK order rests.
LoggedSettle ==
  /\ Running
  /\ Settle
  /\ faithful' = (faithful /\ (order.rem > 0 => cmd.tif = "DAY"))
  /\ UNCHANGED <<logVars, restartVars>>

LoggedMatch == MatchStep /\ UNCHANGED recoveryVars
-----------------------------------------------------------------------------
(* Restarts.                                                               *)

\* A fresh process: empty books, next_sequence_ 1.  Its log writer takes an
\* existing file for a full one.
FreshProcess ==
  /\ orders' = [r \in {} |-> NoOrder]
  /\ queue' = [l \in Levels |-> <<>>]
  /\ total' = [l \in Levels |-> 0]
  /\ poolUsed' = 0
  /\ nextSeq' = 1
  /\ phase' = "idle"
  /\ cmd' = [op |-> "NONE", tif |-> "DAY"]
  /\ order' = NoOrder
  /\ out' = <<>>
  /\ written' = WalEntries
  /\ restarts < MaxRestarts /\ restarts' = restarts + 1
  /\ at' = 0
  /\ UNCHANGED <<used, wal, appends, home>>

\* Nor has any life of the process overwritten an entry that it will replay.
StillFaithful ==
  faithful /\ written <= WalEntries /\ (Running /\ phase = "matching" => cmd.tif = "DAY")

Book == [orders |-> orders, queue |-> queue, total |-> total, order |->
         IF phase = "matching" THEN order ELSE NoOrder]
NoBook == [orders |-> [r \in {} |-> NoOrder], queue |-> <<>>, total |-> <<>>, order |-> NoOrder]

\* A crash at any step, in a restart too: then the book to bring back is still
\* the one lost before.
Crash ==
  /\ FreshProcess
  /\ mode' = IF mode = "loading" THEN "loading" ELSE "replaying"
  /\ lost' = IF Running THEN Book ELSE lost
  /\ faithful' = StillFaithful
  /\ UNCHANGED file

\* The end of the loop's body: next_sequence_ is kept above what was logged.
\* Fault: it is not.
SeqAfter_Kept(seq) == nextSeq
SeqAfter(seq) == IF seq >= nextSeq THEN seq + 1 ELSE nextSeq
Replayed(seq) ==
  /\ at' = at + 1
  /\ nextSeq' = SeqAfter(seq)
  /\ UNCHANGED <<used, phase, cmd, order, out, logVars, file, restarts, lost, faithful>>

\* The next entry of the file, if it is of the given type.
Due(type) ==
  IF mode = "replaying" /\ phase = "idle" /\ at \in Slots /\ wal[at].type = type
  THEN {wal[at]} ELSE {}

\* A blank slot, whose type none of the cases has.
ReplayBlank ==
  /\ Blank \in Due("NONE")
  /\ Replayed(Blank.seq)
  /\ UNCHANGED <<book, mode>>

\* A new order is matched again, unless it rests already; then its number counts
\* for nothing.
ReplayKnown ==
  \E e \in Due("NEW") :
    /\ e.ref \in DOMAIN orders
    /\ Replayed(0)
    /\ UNCHANGED <<book, mode>>
ReplayNew ==
  \E e \in Due("NEW") :
    /\ e.ref \notin DOMAIN orders
    /\ phase' = "matching"
    /\ cmd' = [op |-> "ADD", tif |-> "DAY"]
    /\ order' = [NewOrder(e.ref, e.user, e.locate, e.side, e.price, e.qty) EXCEPT !.seq = e.seq]
    /\ out' = <<>>
    /\ UNCHANGED <<book, nextSeq, used, recoveryVars>>

\* What is left rests if the pool has room; the responses are thrown away.
ReplaySettle ==
  /\ mode = "replaying" /\ MatchingDone
  /\ IF order.rem > 0 /\ poolUsed < PoolSize THEN Rest(order) ELSE UNCHANGED book
  /\ phase' = "idle"
  /\ out' = <<>>
  /\ order' = NoOrder
  /\ at' = at + 1
  /\ nextSeq' = SeqAfter(order.seq)
  /\ UNCHANGED <<used, cmd, logVars, mode, file, restarts, lost, faithful>>

\* Fault: a logged cancel takes out anyone's order.
Cancels_Anyones(e) == e.ref \in DOMAIN orders
Cancels(e) == Owns(e.locate, e.ref, e.user)

\* The entry is carried out in the book of its own locate, though the index is one for
\* all: the level that is changed has the side and the price of the order there.
LevelOf(e) == <<e.locate, orders[e.ref].side, orders[e.ref].price>>
Misrouted(e) == e.locate # orders[e.ref].locate

\* removeOrder(Order*) in another book that has such a level: the order's neighbours are
\* joined, but its own level keeps its head, tail and count, and the other one counts an
\* order less, and is erased with its last.  What the lists are after that, with a freed
\* slot at their ends, is not followed further.
RemoveAstray(e) ==
  LET own == Level(orders[e.ref])
  IN  /\ queue' = [queue EXCEPT ![own] = IF Head(@) = e.ref THEN @ ELSE Unlinked(@, e.ref),
                                ![LevelOf(e)] = IF Len(@) = 1 THEN <<>> ELSE @]
      /\ total' = [total EXCEPT ![LevelOf(e)] = IF Len(queue[LevelOf(e)]) = 1 THEN 0
                                               ELSE @ - orders[e.ref].rem]
      /\ orders' = Unindexed(e.ref)
      /\ poolUsed' = SlotFreed
      /\ mode' = "astray"

\* removeOrder(Order*): in a book without such a level it does nothing.
ReplayRemove(e) ==
  \/ ~Misrouted(e) /\ RemoveOrder(e.ref) /\ UNCHANGED mode
  \/ Misrouted(e) /\ queue[LevelOf(e)] = <<>> /\ UNCHANGED <<book, mode>>
  \/ Misrouted(e) /\ queue[LevelOf(e)] # <<>> /\ RemoveAstray(e)

\* The remaining quantity is reduced by hand and again in reduceOrderQty, which makes
\* the level if it is not there: a level without an order, not followed either.
ReplayReduce(e) ==
  /\ orders' = [orders EXCEPT ![e.ref].rem = (@ - 2 * e.qty) % Uint32,
                             ![e.ref].filled = @ + e.qty]
  /\ total' = [total EXCEPT ![LevelOf(e)] = @ - e.qty]
  /\ mode' = IF queue[LevelOf(e)] = <<>> THEN "astray" ELSE mode
  /\ UNCHANGED <<queue, poolUsed>>

ReplayCancel ==
  \E e \in Due("CANCEL") :
    /\ IF Cancels(e) THEN ReplayRemove(e) ELSE UNCHANGED <<book, mode>>
    /\ Replayed(e.seq)

ReplayShares ==
  \E e \in Due("SHARES") :
    /\ IF e.ref \notin DOMAIN orders THEN UNCHANGED <<book, mode>>
       ELSE IF CancelsAll(e.ref, e.qty) THEN ReplayRemove(e)
       ELSE ReplayReduce(e)
    /\ Replayed(e.seq)

\* The entry names the new order, and takes that one out.
ReplayReplace ==
  \E e \in Due("REPLACE") :
    /\ IF Cancels(e) THEN ReplayRemove(e) ELSE UNCHANGED <<book, mode>>
    /\ Replayed(e.seq)

BackInService ==
  /\ mode' = "running"
  /\ lost' = NoBook
  /\ file' = <<>>
  /\ at' = 0
  /\ UNCHANGED <<book, used, phase, cmd, order, out, logVars, restarts, faithful>>

ReplayDone ==
  /\ mode = "replaying" /\ at = WalEntries /\ phase = "idle"
  /\ BackInService
  /\ UNCHANGED nextSeq
-----------------------------------------------------------------------------
(* Snapshots.                                                              *)

\* Where an order is in the list of its level.  Fault: counted from the tail.
Place_FromTail(r) ==
  -(CHOOSE i \in DOMAIN queue[Level(orders[r])] : queue[Level(orders[r])][i] = r)
Place(r) == CHOOSE i \in DOMAIN queue[Level(orders[r])] : queue[Level(orders[r])][i] = r

\* The bids before the asks, each from the best level, and a level from its head.
Before(r, s) ==
  \/ orders[r].side = "BUY" /\ orders[s].side = "SELL"
  \/ orders[r].side = orders[s].side /\ Better(orders[r].side, orders[r].price, orders[s].price)
  \/ Level(orders[r]) = Level(orders[s]) /\ Place(r) < Place(s)
InSnapshot == {r \in DOMAIN orders : orders[r].locate = SnapshotLocate}
Saved ==
  LET refs == CHOOSE q \in [1..Cardinality(InSnapshot) -> InSnapshot] :
                \A i, j \in DOMAIN q : i < j => Before(q[i], q[j])
  IN  [i \in DOMAIN refs |-> orders[refs[i]]]

\* The process is stopped between two calls, its book saved and loaded by the next.
\* Orders of other locates are left out; a replay would bring them back.
Shutdown ==
  /\ Running /\ phase = "idle"
  /\ file' = Saved
  /\ FreshProcess
  /\ mode' = "loading"
  /\ lost' = Book
  /\ faithful' = (StillFaithful /\ \A r \in DOMAIN orders : orders[r].locate = SnapshotLocate)

LoadOrder ==
  /\ mode = "loading" /\ at < Len(file)
  /\ IF poolUsed < PoolSize THEN Rest(file[at + 1]) ELSE UNCHANGED book
  /\ at' = at + 1
  /\ UNCHANGED <<nextSeq, used, phase, cmd, order, out, logVars, mode, file, restarts, lost, faithful>>

Loaded ==
  /\ mode = "loading" /\ at = Len(file)
  /\ nextSeq' = IF file = <<>> THEN nextSeq
                ELSE 1 + Max({file[i].seq : i \in DOMAIN file})
LoadDone == Loaded /\ BackInService

\* The log replayed over the snapshot: what it holds is known.
ReplayOver ==
  /\ Loaded
  /\ mode' = "replaying"
  /\ at' = 0
  /\ faithful' = FALSE
  /\ UNCHANGED <<book, used, phase, cmd, order, out, logVars, file, restarts, lost>>
-----------------------------------------------------------------------------
WalInit ==
  /\ Init
  /\ wal = [s \in Slots |-> Blank]
  /\ written = 0
  /\ mode = "running" /\ at = 0 /\ file = <<>>
  /\ appends = 0 /\ restarts = 0
  /\ home = [r \in {} |-> 0]
  /\ faithful = TRUE
  /\ lost = NoBook

Command == LoggedAdd \/ LoggedCancel \/ LoggedCancelShares \/ LoggedReplace
Replay == \/ ReplayBlank \/ ReplayKnown \/ ReplayNew \/ ReplaySettle
          \/ ReplayCancel \/ ReplayShares \/ ReplayReplace \/ ReplayDone
WalNext == \/ Command \/ LoggedMatch \/ LoggedSettle
           \/ Crash \/ Replay \/ Shutdown \/ LoadOrder \/ LoadDone \/ ReplayOver
WalSpec == WalInit /\ [][WalNext]_walVars
-----------------------------------------------------------------------------
(* Properties.                                                             *)

Unnumbered(o) == [o EXCEPT !.seq = 0]

\* What replay promises.  As long as nothing was logged otherwise than it is
\* replayed (faithful: no void rest of an IOC or FOK order, no partial cancel, no
\* replace that took effect, no entry overwritten, no snapshot that leaves orders
\* out or has the log replayed over it), replay never goes through the level of another
\* book and never leaves an order of nothing; the
\* book after a crash between two calls is the one lost, in the same queues, however
\* often the replay itself was cut short; after a crash in the middle of a call, the
\* call is finished and no other order has more left than before.
RecoveryExact ==
  faithful =>
    /\ NoEmptyOrder /\ mode # "astray"
    /\ (mode = "replaying" /\ at = WalEntries /\ phase = "idle") =>
         IF lost.order = NoOrder
         THEN /\ DOMAIN orders = DOMAIN lost.orders
              /\ \A r \in DOMAIN orders : Unnumbered(orders[r]) = Unnumbered(lost.orders[r])
              /\ queue = lost.queue /\ total = lost.total
         ELSE /\ DOMAIN orders \subseteq DOMAIN lost.orders \cup {lost.order.ref}
              /\ \A r \in DOMAIN orders \ {lost.order.ref} : orders[r].rem <= lost.orders[r].rem
              /\ lost.order.ref \in DOMAIN orders => orders[lost.order.ref].rem <= lost.order.rem

\* No entry of the log names a reference under another locate than its own.
WellAddressed == \A s \in Slots : wal[s] = Blank \/ wal[s].locate = home[wal[s].ref]

\* Restarts leave the book sound, and for the calls after them too, unless the log has
\* an entry that is addressed to another book than its order's: lists, index and pool
\* agree and it is not crossed, whatever else was replayed.  Even with such entries
\* that holds as long as none of them has hit a level of the other book.  After a
\* faithful replay, numbers go on from what was replayed or loaded, so that the lists
\* stay in the order of arrival.
BookSound ==
  /\ WellAddressed => mode # "astray"
  /\ mode # "astray" => /\ BookTypeOK /\ ViewsAgree /\ Uncrossed
                        /\ faithful => InSequence

\* A snapshot brings back the orders of its locate with their numbers and their
\* places, and the numbers to come are above theirs.
SnapshotRestores ==
  (mode = "loading" /\ at = Len(file)) =>
    /\ \A l \in Levels : l[1] = SnapshotLocate => queue[l] = lost.queue[l]
    /\ \A r \in DOMAIN lost.orders :
          lost.orders[r].locate = SnapshotLocate => r \in DOMAIN orders /\ orders[r] = lost.orders[r]
=============================================================================
