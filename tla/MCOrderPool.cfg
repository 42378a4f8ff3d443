\* Two threads, three slots, up to six exchanges of the head: a slot is taken
\* and given back between another thread's load and its exchange.  No symmetry
\* under liveness.
SPECIFICATION FairSpec
CONSTANTS
  Threads = {t1, t2}
  Capacity = 3
  Null = Null
  MaxTag = 6
INVARIANT FreeListExact
PROPERTIES AllocatorSpec CallsReturn
\* The callers stop when MaxTag is near.
CHECK_DEADLOCK FALSE
