\* Two books with one price, three references, a log of three slots: exact and
\* inexact replays, a replay cut short, entries overwritten, snapshots that leave a
\* book out.  The entries and the restarts are bounded, so the process comes to an end.
SPECIFICATION WalSpec
CONSTANTS
  Locates = {0, 1}
  BadLocate = 9
  Refs = {r1, r2, r3}
  Clients = {c}
  Prices = {1}
  MaxPrice = 2
  Quantities = {1, 2}
  PoolSize = 2
  NoOrder = NoOrder
  WalEntries = 3
  SnapshotLocate = 0
  Uint32 = 16
  MaxAppends = 3
  MaxRestarts = 2
SYMMETRY Symmetry
VIEW Seen
CONSTRAINT FewElsewhere
INVARIANTS RecoveryExact BookSound SnapshotRestores
CHECK_DEADLOCK FALSE
