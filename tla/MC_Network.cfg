\* Concurrent message handlers against a peer manager whose peers come and go.
SPECIFICATION FairSpec
CONSTANTS
  alice = alice
  None = None
  Address = {alice}
  U64 = 1000
  Tx <- MCTx
  MaxSize = 3
  MaxPerAccount = 2
  MinGasPrice = 2
  MaxAge = 1
  MaxAdded = 3
  Peer = {p1, p2}
  Task = {k1, k2}
  MaxPeers = 3
  MaxInbound = 2
  MaxOutbound = 0
  MaxPropagate = 2
  EnableTxGossip = TRUE
  Attached = TRUE
  MaxReputation = 1
  BanBelow = 0
  GoodReputation = 0
  Penalty = 1
  MaxMessages = 2
INVARIANTS
  ForwardedOnce
PROPERTIES
  SentToConnected
  HandlersFinish
