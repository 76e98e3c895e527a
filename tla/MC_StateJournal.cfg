SPECIFICATION JournalSpec

CONSTANTS
  Address = {a1, a2}
  U64 = 16
  NoAccount = NoAccount
  NotRecorded = NotRecorded
  Written <- MCWritten
  MaxDepth = 1

INVARIANTS
  JournalHoldsSnapshots

PROPERTY
  ImplementsStore
