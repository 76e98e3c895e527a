\* Block, transaction and metrics storage with crashes, pruning and caches.
SPECIFICATION Spec
CONSTANTS
  t1 = t1
  t2 = t2
  t3 = t3
  None = None
  Block <- MCBlock
  Writer = {w1, w2}
  Value = {1, 2}
  Record <- MCRecord
  MaxNumber = 3
  Archive = FALSE
  KeepBlocks = 1
  Interval = 2
  Hour = 2
  Retention = 2
  MaxTime = 4
  Capacity = 2
INVARIANTS
  ReceiptsTraceable
  AcknowledgedDurable
  RecentStatesKept
  MetricsIndexed
  LruKeepsMostRecent
