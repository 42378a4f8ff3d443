\* Three orders in a bucket of their own, two in a shared one that two more are
\* inserted into while one is erased; a chain is converted at three nodes.
SPECIFICATION IndexSpec
CONSTANTS
  t1 = t1
  t2 = t2
  Threads = {t1, t2}
  NoThread = NoThread
  Ids = {1, 2, 3, 4, 5, 6, 7}
  NoId = NoId
  Buckets = {0, 1}
  BucketOf <- MCBucketOf
  OwnerOf <- MCOwnerOf
  Capacity = 4
  Threshold = 3
  Null = Null
  Loaded <- MCLoaded
  Uses <- MCUses
INVARIANTS PrivateFindsTrue NodesHaveOnePlace NoPrivateNodeLost
