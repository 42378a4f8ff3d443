# NebulaX-Simulator in TLA+

NebulaX-Simulator replays a day of NASDAQ ITCH events through its own exchange and lets
strategies trade against it. This directory holds TLA+ modules translated from the C++
sources, the TLC configurations that check them, and TLAPS proofs of the main results.
Paths below are those of the repository (`src/...` is its source directory, `docs/DESIGN.md`
its design document).

## 1. The system

One thread. `ReplayEngine` reads an event and calls `ExchangeSimulator`; everything else
happens in nested calls inside that one:

    ITCH file -> ReplayEngine -> ExchangeSimulator --(engine)--> MatchingEngine, OrderBook,
                                   |      ^                      OrderPool, OrderMap
                        broadcast  |      | submit, cancel
                                   v      |
                 OrderBookConsumer (market book, ticks) 
                                   |      |
                                   v      |
                 SimWorker: strategies -> arbitrate -> ExecutionEngine -> OrderManager
                                                             |            RiskManager
                                   fills of the strategy's orders  <- on_order_report

| Component (source) | State | Operations | What makes it correct | Hard part |
|---|---|---|---|---|
| MatchingEngine, OrderBook (`src/exchange/matching_engine.*`, `order_book.*`) | per locate: price levels with a FIFO list and a total; shared index and pool; sequence counter | processAdd, processCancel, processCancelShares, processReplace | index, lists, totals and pool agree; never crossed; price-time priority; answers are true | long sequences of adds, partial fills, partial cancels and replaces; a full pool; the exclusion of one's own orders |
| OrderPool (`src/exchange/order_pool.h`) | `free_head_` (tag and index), `pool_next_free` of each slot, `size_` | allocate, deallocate, reserve | every slot free once or owned once | lock-free compare-exchange by several threads, ABA |
| OrderMap (`src/exchange/order_map.h`) | buckets: chains of pooled nodes, turned into trees; a lock | insert, find, erase | a map; no node lost or given out twice | lock-free walks over nodes that are freed and reused, and while a chain is turned into a tree |
| Market book (`src/market/book/order_book.h`, `order_book_consumer.cpp`) | shared index and pool; per locate and side an open-addressing table of levels with a cached best price; last tick | A/F, D, X, E/C, P, U | levels are what rests; best bid and ask are right | level counters kept by two functions; tombstones and growth of the table |
| OrderManager (`src/oms/order_manager.h`) | orders by id, open orders by symbol and strategy | new_order, on_accept, on_fill, request_cancel, on_cancel, on_reject | status, quantity and indexes agree | reports late, repeated, unasked |
| RiskManager (`src/risk/risk_manager.h`) | position, average cost, mark, realised profit, equity peak | check_order, on_fill, mark, drawdown thresholds | limits hold, profit is right | integer averages; thresholds on a moving equity |
| ExecutionEngine (`src/execution/execution_engine.h`) | `mtx_`, `flatten_issued_` | submit_signal, on_order_report, cancel_order, flatten_on_drawdown | exchange, OMS and risk tell the same story; a call returns | callbacks from the exchange in the middle of its own calls |
| ExchangeSimulator (`src/exchange/exchange_simulator.cpp`) | the engine, `strategy_refs_` | submit, cancel, on_market_order, broadcast | every fill reaches its owner; the market book mirrors the engine | reports in the middle of a loop over responses |
| SimWorker, arbitration (`src/sim/sim_worker.h`, `src/strategy/base/arbitrate.h`) | last side and strength per worker, segment | on_market_event, arbitrate | an order has the votes for it and is not repeated at every window | state kept after a rejected order, over several locates |
| Strategies (`src/strategy/`) | a ring of order flow with its running sum; the last book | on_event, on_market, on_book | the sum is that of the window, the flow that of the book | the event comes after the book has forgotten the order |
| Replay (`src/replay/`) | segment, parser position | run | every message in one segment, every segment with one window | the short last segment |
| WAL and snapshots (`src/exchange/wal.*`, `matching_engine.cpp` 393-481) | log, snapshot | append, recover | recovery gives the book back | a crash at any step, in the recovery too; the simulator switches it off |

PROJECT.json lists under "hazards" the lines where these things can go wrong, with the
properties that watch them.

## 2. The modules

In the order they were written; the most important behaviour first.

| Module | What it is | Proofs |
|---|---|---|
| `MatchingEngine` | the engine with its books | `MatchingEngineProofs` |
| `OrderPool`, `SlotAllocator` | the lock-free pool and what it promises | `OrderPoolProofs` |
| `PriceLevelTable`, `LevelMap` | the table of levels and the map it implements | `HashTableProofs` |
| `MarketBook` | the market book and its consumer, on `LevelMap`'s promise | `MarketBookProofs` |
| `Exchange` | engine, broadcast, market book and registry composed: extends `MatchingEngine`, uses `MarketBook` by INSTANCE | `ExchangeProofs` |
| `OrderManager` | the order register: an operator per callback, and a specification that calls them in any order | `ExecutionEngineProofs` |
| `RiskManager` | operators on the state of the risk manager | – |
| `ExecutionEngine` | the trading side: extends `OrderManager`, uses `RiskManager` by INSTANCE; its specification is `TradingSpec` | `ExecutionEngineProofs` |
| `OrderMap` | the lock-free index, access by access; its specification is `IndexSpec` | `HashTableProofs` |
| `SimWorker` | replay, strategies, arbitration and the workers' windows | `SimWorkerProofs` |
| `Recovery` | the engine with log, snapshot, crash and restart: extends `MatchingEngine`; its specification is `WalSpec` | `MatchingEngineProofs` |
| `SetSums` | no model: what the proofs need of sums over finite sets | itself |

Each `MC*` module only defines the symmetry or the values of its instance; each `.cfg` gives the
constants. Operators named `X_Fault` are the bugs that the mutants put in place of `X`.

### MatchingEngine

*State.* `orders` is the shared index with the slots it points to (reference -> Order);
`queue[<<locate, side, price>>]` the intrusive list of a level; `total` its `total_qty`, 0 when
the level is not in the map; `poolUsed` the pool's size. A call in progress has `phase =
"matching"`, its command in `cmd`, its local `Order` in `order` and its response vector in
`out`. An Order's `status` is a function of filled and remaining and is left out.

*Steps.* The calls on one engine are serial, but a call is long: validation and the removal
of a replaced order are one step (`ProcessAdd`, `ProcessReplace`), each iteration of
`matchBuyOrder`/`matchSellOrder` is one (`MatchStep`), and what follows the loop is one
(`SettleFilled`, `SettleIOC`, `SettleFOK`, `SettleRest`). So invariants hold also between two
trades of one call, where `ExchangeSimulator` sees them. `IsBest` is getBestBid/getBestAsk
with the exclusion of the taker's user: an order may be passed over, one level or several.

*Inputs.* References are supplied once (ITCH references are unique in a day; the strategy's
come from a counter). A historical order is owned by its own reference, as on_market_order
sets it; `Clients` are users with several orders. Malformed adds have one argument out of range.

### OrderPool

One action per atomic access. `fh`, `nxt` and `arg` are the local variables of a thread. The
compare-exchange is weak: it may fail although the word is as expected, and always leaves the
found word in `fh`. The update of `size_` is an access of its own, later than the exchange; so
is the write of `pool_next_free` when the caller assigns its Order to the new slot. The memory is
sequentially consistent; the acquire/release orders of the code are not weakened further.
`SlotAllocator` has one step for what each call achieves; a refusal is answered in the step
that reads the empty head.

### PriceLevelTable and MarketBook

`PriceLevelTable` has the probe sequence, tombstones, growth and the cached best price as the
code has them, with the hash an arbitrary function fixed in Init. It implements `LevelMap`, a
function from prices, and keeps its best price (`BestIsExtreme`). `MarketBook` relies on
that: its `levels` are such functions. Its counters wrap modulo `Word`, as unsigned words do;
a level's count stays below it as long as the pool is smaller than a word. Orders inside a level are linked in the code but nothing walks the
lists, so they are left out.

### Exchange

The variables of `MatchingEngine` and of `MarketBook` side by side, with `strategyRefs`
(`strategy_refs_`), the `request` in progress and the `feed`: what is still to be sent out for
it. A request (`OnMarketAdd`, ..., `Submit`, `Withdraw`) begins with the first step of the engine's
handler, goes on with the engine's own steps (`EngineStep`), and when the engine has
answered, `Publish` turns its response vector into the feed in the order of the code: for a
historical event the event itself, then its trades, then the taker's own fill in one execution.
Each item is one step: `Broadcast` to the market book, `ReportPassiveFill` to the strategy when
the maker is in the registry at that moment, or `Register`. `submit` handles a response at a
time inside one loop; the model does the engine's part first, which nothing in between can
observe. References are symmetric: the strategy's come from a range of their own, which the
history variable `mine` remembers. `told` counts the shares the trading side was told of.

### OrderManager, RiskManager, ExecutionEngine

The first two define each callback as an operator on an entry or on the risk record;
`OrderManager` also has a specification of its own that calls them in any order.
`ExecutionEngine` composes them. The exchange is abstracted there to what it tells the trading side: any number of fills
within an order's quantity and limit (one for each maker it meets, as `submit` books them), which orders
rest, `strategy_refs_`. The thread is one: `call` is the call that
holds `mtx_`, and its steps are the points where control leaves it (each booked fill, the
threshold test, each cancel of the flatten). `reports` are the passive fills that one
`on_market_order` has traded and not yet reported; the mutex is free between them. A
second lock of the `std::mutex` by its own holder is modelled as waiting for ever
(`call.at = "blocked"`), which is what the usual build does with this undefined behaviour.
`executed` and `cash` are history variables: the shares the exchange has traded for each order,
and what the booked fills have paid.

### OrderMap

One action per atomic access of insert, find and erase; a thread's `call` is the access it is
about to make with the local variables it still needs. Two things are one step: allocNode and
freeNode, which are the code of `OrderPool` and keep the promise of `SlotAllocator`, and an access to
`overflow_` under its lock. `treeify` is the exception: it sets `state_` (`Claim`), takes the lock
(`Lock`) and copies node by node, and others may read between any two of these. Exchanges are
weak. An id has one owner, as the engine's calls on one book are serial, so threads meet only in
buckets that orders of several books share; `hash` is a constant. `live` is what the callers are
entitled to find. `Private` are the buckets whose ids have one owner: what is promised is promised of those,
because in the others it does not hold (section 4).

### SimWorker

A message with all the events it causes is a step, and so is a worker's turn in a window with
the fills its order gets: the code is one thread, and nothing runs in between. `Deliver` is
ExchangeSimulator's broadcast: each event goes to the market view first and to the workers after it,
which is what makes `EventSide` read the view too late. The view is the remaining shares of each order it has seen; the quoted volumes are
any of `Quotes`, because the real ones are not always what rests (section 4). Strengths and weights
are integers of a small `Scale`; divisions truncate as in the code. The risk manager's loss
limits and the exchange's liquidity may refuse any order (`SendInVain`). History: `recent`, the last
contributions to each window; `tally`, all that was ever counted and what was missed; `climb`, the
orders sent since the direction last changed.

### Recovery

`MatchingEngine` with a log: each command is one of its actions conjoined with `Log`, and `mode` says whether
the process serves commands, replays the log or loads a snapshot. `Crash` may come between any
two steps and keeps only the file; the fresh process starts at `FreshProcess`. Replay is
translated as the code of its own that it is: a new order goes through the matching loop of the
engine (`LoggedMatch`), then `ReplaySettle`; cancels, partial cancels and replaces are `ReplayCancel`,
`ReplayShares`, `ReplayReplace`. The code finds the order in the index that all books share, but edits the levels of the book
of the logged locate, and so do `ReplayRemove` and `ReplayReduce`: in another book than the order's they
do nothing if it has no such level, and otherwise change a level the order is not in. From there on the
lists are not followed: `mode` is `"astray"`, and only a crash, with a new replay, leaves it. `Shutdown` writes the snapshot, `LoadOrder` takes one order of it
at a time, and the log may be replayed on top (`ReplayOver`). The order in which the loops of
saveSnapshot write is a relation, `Before` (bids, then asks, each from the best level, each level from its head), and
the file, `Saved`, is the one enumeration of the locate's orders that it admits. Three history variables state the
promise: `lost` is the book at the crash, `faithful` is true while every entry replays to what its
command did and every snapshot had all that rested, `home` is the locate each reference was first logged with. An entry is appended whole.

## 3. The runs

`expect: violation` runs are in section 4.

| Run | Instance | Shows |
|---|---|---|
| `engine_book` | 1 book, 3 references, 2 prices, quantities 1-2, pool of 2 | the inductive invariant of the proofs; views agree, totals are exact, never crossed, answers are true, price-time priority, fills are reported |
| `order_pool` | 2 threads, 3 slots, 6 exchanges, fairness | exact free list, refinement of SlotAllocator (a slot has one owner), every call returns |
| `price_levels` | 3 prices, every hash, capacities 1, 2, 4, both sides | a map, with the right best price |
| `market_book` | 2 books, 3 references, pool of 2, words of 3, which two orders overflow | untouched levels are exact, a replace keeps its slot |
| `exchange` | 1 book, 3 references, quantities 1 and 3, pools of 3 | the market book mirrors the engine, the registry is exact, every trade is routed to its owner, every fill is told once |
| `order_manager` | 2 orders of up to 3 shares | status, fills, indexes; the documented diagram |
| `execution` | 3 orders of 1 or 3 shares, limit and market, up to three fills each, passive fills, marks, cancels, a flatten | exchange, registry and OMS agree between calls, OMS never clamps, every fill reaches OMS unless a flatten came in between; for market orders the position is exact and within its limit, and profit is rounded to one side |
| `order_map` | 2 threads, 7 ids in a private and a shared bucket, 4 nodes, trees from 3 | in a bucket of one thread every lookup is right and no node is lost; no node is given out twice |
| `workers` | 2 workers on 2 locates, 3 orders, 4 messages in segments of 2, windows of 2 | the running sum is that of the window, how far the flow drifts from the book, orders are backed by votes and climb a bounded number of times, segments tile the messages |
| `recovery` | 2 books with one price, 3 references, log of 3 entries, 3 commands, 2 restarts | after a faithful log replay gives back exactly the lost book, every restart leaves a sound one unless an entry addressed to the wrong book strayed into a level there, a snapshot gives back its orders with their places |

*Why these bounds.* An order of 2 shares is the smallest that can be traded or cancelled in part,
one of 3 is still there after two partial fills. Two prices are a better and a worse level;
three references on two slots are a taker, two makers and a full pool. Two threads on three slots are what an ABA needs: one that has read
`pool_next_free`, one that takes two slots and gives the first back, within six exchanges. Three
prices in a table that starts with one slot meet collisions, tombstones, and growth with
tombstones. In `exchange` words of 16 are well above every true total, so a wrapped counter cannot be
mistaken for a true one; in `market_book` words of 3 wrap in untouched levels too. Three orders let one historical order trade with two resting ones
while a third is in the book. In `exchange` the pools hold all references on purpose: what
happens when they do not is in section 4. In `execution` an order of 3 shares
can have three fills, or two that leave a rest. In `order_map` four nodes make the free list short enough
to be reused under a walk, and three orders in one bucket convert it. In `workers` a window of
two wraps in the first segment, and one worker owns two locates, the other one none. In `recovery`
three entries are an order, its trade or its cancel, and one more; the third may
be logged after a restart and then overwrites the first; the second restart interrupts a replay. Its
second book is there for a snapshot that leaves orders out, and the constraint `FewElsewhere` keeps it to that: only
the first entry may be of that book, a buy. The
cfg has a VIEW that leaves out the responses and the local variables of a finished call, which none of its
actions or properties read.

*Bounds in guards*: `MaxTag` (exchanges of the pool's head; the code's tag has 32 bits and
its wrap is not modelled), `MaxCap` and `MaxLevel`, `MaxOrders`, `MaxMessages` (the replay's input),
`MaxAppends` and `MaxRestarts`, `Uses` (what each id of OrderMap is used for), and the finite `Refs`. Where
they stop the callers the cfg says `CHECK_DEADLOCK FALSE`; the runs of the engine and of the
exchange check deadlock.

*Fairness.* A call in progress goes on: the thread that made it is not descheduled for ever.
That is weak fairness of the steps inside a call, never of the arrival of a new call; it is
assumed in `cancel_blocks` and `order_pool` only. In `OrderPool` there is also strong fairness
of a compare-exchange that would succeed: hardware does not fail a weak exchange spuriously
for ever. A call can still starve there by the exchanges of others; they are finitely many in
the instance, so the run shows that nothing but others' progress delays a call.

## 4. Where the code and its documentation disagree

Each run below checks what a comment or the design document says and finds it violated.

| Run | What is said | What happens |
|---|---|---|
| `market_phantoms` | `order_book.h:340` an empty level is removed | the last order executed leaves a level with count 2^32-1, which stays the best price if it was |
| `cancel_blocks` | `execution_engine.h:160` cancel, then report 'C' | the report locks the mutex that the call holds |

`cancel_blocks` needs limit orders that rest: a public operation of ExecutionEngine that
`sim_main` does not use today.

For three more, a passing run states how far the promise holds, and the module has the steps that
break it:

- `DESIGN.md:159`, passive fills reach OMS: a flatten run inside the first of two reports marks an
  order whose own report is still to come, and OMS drops that fill (`FillsReachOmsUnlessFlattened`;
  limit orders only).
- `DESIGN.md:141`, the market book is what rests of the market's orders in the engine's book: the
  event is broadcast whatever the engine answered, and each book has a pool of its own, so with
  full pools an order rests in one book only (`MirrorsMarket`, with pools that hold every order).
- `matching_engine.h:21`, pool and index are safe under concurrent operations on different books:
  in a bucket that two books share, `treeify` announces the conversion before it takes the lock, and a find
  in between takes the lock first and answers from an empty tree; a find may also follow the link of a
  node reused meanwhile into the free list, and an erase of two neighbours may put a freed node back
  (`PrivateFindsTrue`, `NoPrivateNodeLost`, in buckets of one thread). A private bucket is not quite out of
  reach either: a thread in a shared bucket may link to a node that was given back while it looked, the
  private bucket's owner takes that node for an order of its own, and if the shared chain is converted then, that order
  goes into `overflow_` with it. Nothing takes it out there: if its own bucket becomes a tree later, it is
  found for ever after its erase. `PrivateFindsTrue` therefore promises "not found after erase" of chains, and of trees
  only while no shared bucket has been converted. The simulator is one thread.

Order flow and windows (`SimWorker`):

- `order_flow_imbalance_strategy.h:14-23` counts removals against their side: the view is updated before
  `side_of` is asked (`exchange_simulator.cpp:142-145`), so an order that has gone has no side and counts for
  nothing; deletions carry no shares anyway. `sim_worker.h:68`, adds and replaces bring their
  side: a replace leaves it unset, which reads as BUY (`exchange_simulator.cpp:168-174`; `market_event.h:46`
  calls it NONE), so replaced sells count as buys. `FlowDrift` is the exact sum of both.
- The workers also see the trades of their own orders, which the broadcast delivers inside submit.
- The strength of the book strategy is always full when it signals: its `else` applies to no signal.
- `sim_worker.h:26`, a change of direction always sends: the last direction is kept per worker and not
  per locate; the strategies mix a worker's locates as well (one flow window, the last locate's book), and
  the direction can come from one locate while the target is the primary's, locate 0 if it has no signal.
- `cur_segment_` is the last segment that ended: fills in between carry the number before theirs.

Log and recovery (`Recovery`), which the simulator does not switch on:

- `matching_engine.cpp:132`, recovered with the same meaning: the log has no time in force, so the void rest of
  an IOC or FOK order rests after a replay, that of a market order at the price 0 or 2^32-1.
- `NEBULAX_FIX_ADVICE.md:37` asks for a partial cancel to be taken off once, in replay too, and says that this
  repository has done so: replay (`matching_engine.cpp:439`) still takes it twice, which can leave an order
  with no shares in the book, counts it as filled, and does not ask whose order it is.
- Replay edits the book of the locate that was logged (`matching_engine.cpp:408`), while the index is one for
  all books. A cancel or a partial cancel of a void IOC order may have been logged with another locate, to no
  effect; replayed, the order rests (there is no time in force in the log), and it is taken out through the other
  book's level if that has one of the same side and price: the order there loses its level, and the level
  of the order that goes keeps the slot that is free. The run reaches this (`mode = "astray"`); `BookSound` says that
  nothing else than such an entry leads there.
- The entry of a replace names the new reference only: replayed, it does nothing, and the old order is back.
- A restarted writer takes an existing file for full (`wal.cpp:19`) and overwrites the oldest entries; a
  second recovery misses what they said, and reads new entries before old ones.
- `matching_engine.cpp:412`, idempotent replay: over a snapshot, an order that was filled before it is
  new again and trades a second time.
- saveSnapshot writes one locate's orders: a book with others, saved and loaded, has lost them, and the numbers go
  on from what was written only.
- The checkpoint is written and never read.

Other disagreements met while translating, which can be read off the modules and have no
run of their own:

- `matching_engine.h:41`, FOK trades all or nothing: canFullFill counts one's own resting orders,
  matching skips them, so a part is traded and kept. `FokFailsOnOwnOrders` says that this is the
  only way.
- `matching_engine.h:40`, IOC ignores the price: a nonzero price is a limit.
- `order_book.h:167` (market), total_qty is what rests: a reduced order is taken off twice when
  it goes; and with a wrong total a level can be erased before its orders are gone
  (`order_book.h:350`). `UntouchedLevelsExact` says how far the levels are right.
- `risk_manager.h:145`, the pause is a latch: it ends when the equity recovers.
- `DESIGN.md:165`, a market order is filled whole or void: filled in part it stays PARTIAL_FILL.
- `risk_manager.h:169` and `:49`, position limit and no naked short: limit orders that rest are not
  counted by `check_order`. `PositionExact` shows both limits kept with market orders alone.

## 5. The proofs

Each theorem holds for every value of the constants that satisfies the module's named
assumption. What a run checks of the same property is one small instance; the invariants below were
first checked by TLC on it. PROJECT.json lists the theorems under "theorems".

| Module proved about | Assumed of the constants | Theorems of what the runs check |
|---|---|---|
| `MatchingEngine` | finitely many references, positive prices below `MaxPrice`, positive quantities, 0 neither a reference nor a user | `ViewsAgree`, `Uncrossed`, `ReplaceNeverPoolFull`, `PriceTimePriority`, `LevelTotals`, `FillsAreReported`, `ResponsesAccount`, `FokFailsOnOwnOrders` |
| `OrderPool` | finitely many threads, any number of slots and of exchanges | `FreeListExact`, `AllocatorSpec` |
| `PriceLevelTable` | no price is a sentinel; a first capacity | `EveryLevelFound`, `BestIsExtreme`, `MapSpec` |
| `MarketBook` | finitely many references, positive prices and quantities, `PoolSize < Word` | `UntouchedLevelsExact`, `ReplacementTakesSlot` |
| `OrderManager` | positive quantities | `StatusMatchesFills`, `IndexExact`, `FollowsDiagram` |
| `ExecutionEngine` | finitely many symbols, positive quantities and prices | `RestingAgrees`, `PendingFillsFit`, `FillsReachOmsUnlessFlattened`; with market orders only, `PositionExact`, `RoundingOneSided` |
| `SimWorker` | quantities, windows and scales in the naturals, any number of workers, locates and messages | `SegmentsTile`, `OfiIsWindowSum`, `FlowDrift`, `ClimbIsBounded`, `DecisionIsBacked` |
| `Recovery` | those of the engine; a log of at least one entry | `BookSound`, `SnapshotRestores` |
| `OrderMap` | any number of threads, nodes and buckets, any hash and any owners of the ids; what is loaded beforehand fits, is distinct, in one bucket and below the threshold | `NodesHaveOnePlace`, `NoPrivateNodeLost`, `PrivateFindsTrue` |
| `Exchange` | those of the engine; a client for the strategy | `RegistryExact`, `TradesAreRouted`, `FillsTold`; with pools that hold every order, `MirrorsMarket` |

Modules with proofs begin with lemmas on operators, then have one lemma per effect on the state, one
per action, and the temporal theorems by PTL at the end.

*The engine.* `EngineInv == BookInv /\ CallTypeOK /\ InFlight /\ ReplaceNeverPoolFull`.
`ViewsAgree` alone is not inductive: to remove an order from its list one needs that it is there
once; to add one, that it is not there already, which is what `InFlight` says of the local
Order. `Uncrossed` needs more: a rest is entered only after `MatchingDone`, and that no order of
another user crosses it then follows only if every such order is in the list `IsBest`
searches, i.e. from `ViewsAgree`; `NoEmptyOrder` makes the loop's trades positive. Priority in
time is `InSequence` (a list is sorted by sequence number), which a rest preserves because `InFlight` has the
local Order younger than all in the book. `ReplaceNeverPoolFull` needs the slot the
replaced order gave back to be still free at the end of the call: `poolUsed < PoolSize`
during a replace, kept by `MatchStep`, which only frees slots. `CallsAccount` adds what a call owes:
`Accounted` (the trades in the response vector are what the local order has filled) and `Fillable` (a
FOK order's rest is still on offer, its own user's orders counted as canFullFill counts them).

*Sums.* Shares are added up by `MapThenSumSet`, which takes a set's elements in the order CHOOSE
gives. Proving that an element can be added or left out takes an induction, and the
library's theorems for it cannot be instantiated here. `SetSums` goes around them: a claim that
fails for some set fails for one of least cardinality (`NoLeastException`, from the well-foundedness of the
naturals), and that one is contradicted. The same device serves the recursive function by which
the table grows.

*The pool.* `PoolInv` is about what a thread in the middle of a call knows. A thread that read the
head with the tag that is still current knows the current head (`HeadSeen`), and its link if it has
read that too (`LinkSeen`), because every successful exchange raises the tag; a slot about to be given back is in
nobody else's hands (`SlotHeld`). So a successful exchange is the list operation it is meant to be,
and `FreeListExact` and `OneOwner` follow. `PoolImplementsAllocator` maps each step to SlotAllocator's
or to a stutter. The tag never wraps in the model; the theorem holds for any bound on it.

*The table of levels.* `Sound` says that a price has one slot (`Once`) and that no slot on the way from
its hash to it is empty (`Reached`): tombstones exist for that. An insert finds an empty slot or a
tombstone on its way because the table is never full, which takes a pigeonhole argument. That growing rebuilds a
sound table is shown for each prefix of the old one (`Moved`). `TableImplementsMap` maps the slots to
the function from prices to levels.

*The market book.* A level that no reduction has touched has the number of the orders that rest at
it and, modulo the word, their shares (`AllExact`). That it is not erased early is where
`PoolSize < Word` is needed: a count of all the orders a pool can hold must not wrap to 0.

*The order register.* A callback acts on one entry, so the argument (at the end of `ExecutionEngineProofs`) is about one entry: it is
`Consistent` (status and quantity agree, and it is listed as open until it is finished), and each
operator keeps it so while it `Follows` the documented diagram.

*The trading side.* `RestingAgrees` is about the moments between calls; inside one, the order being
worked on is behind. The invariant is `Agrees` for each order, with `Due`, what has been traded
of it and not been reported; `RefsOK` exempts the order of a call that blocks for ever on its own lock.
For market orders `PositionInv` has more: `Fits` (what the current call may still buy or sell is
within the limits the risk manager checked), `Balanced` (position = net of the fills told) and `Slack`
(how far profit may be above what the fills paid: a booked fill truncates the average cost by less
than a cent per share held, and only of a fill that buys, which is of a share at least; so the shares
bought and booked bound the number of times). An order may have any number of fills: what is left of them
is a sum over a sequence, whose head is split off with `SumShifted` of `SetSums`.

*The exchange.* `ExchangeRunsEngine` says that ExchangeSpec implements the engine's Spec: each step of the
composition is a step of the engine or leaves it alone, so every theorem on the engine holds here. On
top, `ExchangeIInv` says what is under way: for an order of the strategy there is at most one
frame in the feed, and it tells exactly what the registry and `told` still lack of the book
(`Tracked`); before `Publish` it is the engine's response vector that tells it. One frame is enough
because a taker meets a resting order once, and that is what makes a lookup in `strategy_refs_` right at
any point of the loop.

`MirrorInv` is about the other receiver. A *view* gives each reference the order that is shown under it;
`Hears` is what one frame makes of a view, `Leads(v, fs, w)` says that the frames `fs` make `w` of `v`. While
a feed is being sent, it leads from what the market book shows (`Seen`) to the engine's historical
orders (`Truth`). While the engine still works it is the response vector that leads there, from the
view in which the event has been heard (`Start`): each trade of the loop takes the same from the maker
in the book and in the view. The incoming order itself is in the view with all its shares
until the taker's execution, the last frame, takes off what it has filled (`Entering`, `Settled`).
The theorem assumes `PoolsSuffice`, a slot for every reference: with full pools the two books part
because the event is broadcast although the engine refused the order (Section 4). The hypothesis is used where
a rest enters the engine's book and where the market book adds an order, nowhere else.

*The workers.* `ReplayInv` relates the counters of ReplayEngine::run at every stage. `MarketInv` is what
each broadcast event keeps (`MarketOK`), proved of one event and then for the events of a message in order. The running sum needs the
ring: the next slot to be written holds the oldest of the last `Window` contributions or the 0 it began with, so what is subtracted is
what slides out (`WindowSlides`, with the remainders it takes). The drift is an equality between sums that an event
changes on both sides by the same amount (`EventAccounts`); a sum over the orders changes by one order's shares, which is
`SetSums` again, and the folds over sequences of the model are first shown to be sums over sets (`RunningSum`).
`ClimbInv` counts steps of strength against orders sent. A decision is backed (`DecisionBacked`) because the weighted
mean that arbitrate_decide truncates lies between the least and the greatest strength of the side's voters.

*Log and recovery.* `WalInv` is inductive over commands, crashes, replays and loads, and has to
let go of most of the engine's invariant: an unfaithful replay leaves orders with no shares, totals that are wrong and queues out of
sequence. What survives, as long as no replay has gone astray, is `SoundBook` (lists, index and pool agree, not crossed). It
goes astray only when an entry has another locate than its order's `home` (`StrayingKeepsInv`), because an order that rests, and
one that is being matched, is always in its home book (`AtHome`); a crash from there starts from
an empty book, which is sound again. That each step of the
engine keeps it without the rest is shown anew: `Uncrossed` here needs only that a user's own orders are skipped and
that an order found best is taken off or the loop ends. While the log is faithful the queues are in sequence, because
the entries of new orders are in the order of their numbers until one is overwritten (`LogInOrder`) and
every number still to be replayed is above those replayed (`FaithfulInv`). A snapshot is a sorted
enumeration (`SortedEnumeration` in `SetSums`: a strict order on a finite set admits exactly one, and is what CHOOSE
picks), hence the orders of a level are loaded as growing prefixes of the list saved (`LoadedSoFar`), all of
them fit because the pool held them before, and the book is sound at each of these steps.

*The index.* In a shared bucket almost anything can happen to a chain, so `MapInv` is arranged by what
survives that. Of every bucket it says little: an id is in one node, a node is free, in one hand or in
place, and each call `Knows` its key, its node and, from the state it has read, that the bucket is no
longer a chain. These facts mention only nodes with the call's own key or in its hand, which no other
thread writes (`Spares`), so a stale link does no harm to them, and a late exchange on a link that is by
now in another bucket's chain fails, because the value it expects is a node in place in its own. Of a
private bucket it says everything: its nodes in place are those of one list (`Lists`), from the head
along the links to Null; the one call that works there stands at a position of the list and has not
passed its key (`StandsAt`), or has copied the list up to a position (`Copied`); every id that is due is
`Present`, in the list before a conversion and in `overflow_` after it. That a step elsewhere leaves all
this alone is shown once (`OtherBucket`); a step on the bucket itself is one lemma for each access, and
the exchanges are insertion and removal in the list. `NodesHaveOnePlace` and `NoPrivateNodeLost` follow
when `Chain`, the recursive function of the property, is shown to enumerate the list (`ChainIsNodes`).
`PrivateFindsTrue` needs one more invariant, `FoundInv`: as long as no shared bucket has been converted,
what `overflow_` has of a private bucket is in the index or on its way.

*Not proved, only model-checked.*

- `RecoveryExact`: that replay ends in the book that was lost is a statement about the result of a whole sequence
  of entries, by induction over the log with the call of each entry run to its end.
- `CallsReturn` and the counterexample `CancelReturns`: liveness under fairness is not for TLAPS here.

## 6. Not modelled

ITCH decoding, configuration, logging, metrics and recording are I/O; of `sim_main` only the assembly of
the workers and their turns is used. The checkpoint (a forked child writes a file that nothing
reads) and `recoverFromShared` (it adds copies of orders into the storage that it reads from).
Market orders in the log, whose rest would need levels at the extreme prices. The trader's own
pool and index are copies of the exchange's and have no modules of their own. The decision log and
the mid prices of SimWorker. The reports 'A' and 'J' of on_order_report are never sent by
ExchangeSimulator. `book_quote` only reads.

## 7. Plan

1. Done: all modules, and proofs about each of them.
2. Proof still to write: `RecoveryExact`, by a simulation between the commands logged and their replay.
3. `PriceTimeBook`, an abstract exchange that MatchingEngine implements.
