--------------------------- MODULE Storage_proofs ---------------------------
(***************************************************************************)
(* Proofs about the store: what store_block acknowledges survives, every   *)
(* receipt leads back to its block, and pruning keeps the recent states,   *)
(* for any blocks, any number of writers and any pruning mode.             *)
(***************************************************************************)
EXTENDS Storage, Sums_proofs

----------------------------------------------------------------------------
(***************************************************************************)
(* The inductive invariant of the block families.  A transaction is Kept   *)
(* when both halves of its batch are there.  A call of store_block that is *)
(* in progress has its block in the store and every transaction before the *)
(* next one kept: this is what makes its return an acknowledgement.        *)
(***************************************************************************)
KeptIn(stored, receipt, t) == t \in stored /\ receipt[t] # None

Kept(t) == KeptIn(transactions, receipts, t)

Calls == [block : Block, next : Nat \ {0}]

BlockTypes ==
  /\ blocks \subseteq Block
  /\ hashes \in [Number -> Block \cup {None}]
  /\ numbers \in [Block -> Number \cup {None}]
  /\ transactions \subseteq Transactions
  /\ receipts \in [Transactions -> Number \cup {None}]
  /\ call \in [Writer -> Calls \cup {None}]
  /\ done \subseteq Block

IndexesAgree ==
  /\ \A n \in Number : hashes[n] # None => hashes[n] \in blocks /\ hashes[n].number = n
  /\ \A b \in blocks : numbers[b] = b.number /\ hashes[b.number] # None

ReceiptsLead ==
  \A t \in Transactions : receipts[t] # None =>
     /\ t \in transactions
     /\ \E b \in blocks : b.number = receipts[t] /\ t \in ToSet(b.transactions)

CallsBegun ==
  \A w \in Writer : call[w] # None =>
     /\ call[w].block \in blocks
     /\ \A i \in 1..Len(call[w].block.transactions) :
          i < call[w].next => Kept(call[w].block.transactions[i])

DoneKept ==
  \A b \in done :
     b \in blocks /\ \A t \in ToSet(b.transactions) : Kept(t)

BlockInv == BlockTypes /\ IndexesAgree /\ ReceiptsLead /\ CallsBegun /\ DoneKept

(***************************************************************************)
(* A block's transactions, by position.                                    *)
(***************************************************************************)
LEMMA BlockShape ==
  ASSUME NEW b \in Block
  PROVE  /\ b.number \in Number
         /\ b.number # None
         /\ Len(b.transactions) \in Nat
         /\ DOMAIN b.transactions = 1..Len(b.transactions)
         /\ \A i \in 1..Len(b.transactions) : b.transactions[i] \in Transactions
         /\ ToSet(b.transactions) =
              {b.transactions[i] : i \in 1..Len(b.transactions)}
         /\ ToSet(b.transactions) \subseteq Transactions
<1>1. b.number \in Number /\ b.transactions \in Seq(Transactions)
  BY StoreAssumption
<1>2. b.number # None
  BY <1>1, StoreAssumption DEF Number
<1> QED  BY <1>1, <1>2 DEF ToSet

LEMMA BlockInvInit == Init => BlockInv
<1> SUFFICES ASSUME Init PROVE BlockInv
  OBVIOUS
<1>1. BlockTypes
  BY DEF Init, BlockTypes
<1>2. IndexesAgree /\ ReceiptsLead /\ CallsBegun /\ DoneKept
  BY DEF Init, IndexesAgree, ReceiptsLead, CallsBegun, DoneKept
<1> QED  BY <1>1, <1>2 DEF BlockInv

(***************************************************************************)
(* The first batch of store_block.                                         *)
(***************************************************************************)
LEMMA StoreBlockInv ==
  ASSUME BlockInv, NEW w \in Writer, NEW b \in Block, StoreBlock(w, b)
  PROVE  BlockInv'
<1> USE DEF BlockInv
<1>1. /\ blocks' = blocks \cup {b}
      /\ hashes' = [hashes EXCEPT ![b.number] = b]
      /\ numbers' = [numbers EXCEPT ![b] = b.number]
      /\ call' = [call EXCEPT ![w] = [block |-> b, next |-> 1]]
      /\ transactions' = transactions /\ receipts' = receipts /\ done' = done
  BY DEF StoreBlock, PutBlock
<1>2. b.number \in Number /\ b.number # None /\ b # None
  BY BlockShape, StoreAssumption
<1>3. BlockTypes'
  <2>1. [block |-> b, next |-> 1] \in Calls
    BY DEF Calls
  <2> QED  BY <1>1, <1>2, <2>1 DEF BlockTypes
<1>4. IndexesAgree'
  <2>1. \A c \in Block : c.number \in Number
    BY BlockShape
  <2> QED  BY <1>1, <1>2, <2>1 DEF IndexesAgree, BlockTypes
<1>5. ReceiptsLead'
  BY <1>1 DEF ReceiptsLead
<1>6. CallsBegun'
  <2>1. \A t : Kept(t)' = Kept(t)
    BY <1>1 DEF Kept, KeptIn
  <2>2. \A i \in 1..Len(b.transactions) : ~(i < 1)
    BY BlockShape
  <2> SUFFICES ASSUME NEW x \in Writer, call'[x] # None
               PROVE  /\ call'[x].block \in blocks'
                      /\ \A i \in 1..Len(call'[x].block.transactions) :
                           i < call'[x].next => Kept(call'[x].block.transactions[i])
    BY <2>1 DEF CallsBegun
  <2>3. CASE x = w
    <3>1. call'[x] = [block |-> b, next |-> 1]
      BY <1>1, <2>3 DEF BlockTypes
    <3> QED  BY <1>1, <2>2, <3>1
  <2>4. CASE x # w
    <3>1. call'[x] = call[x]
      BY <1>1, <2>4 DEF BlockTypes
    <3> QED  BY <1>1, <3>1 DEF CallsBegun
  <2> QED  BY <2>3, <2>4
<1>7. DoneKept'
  BY <1>1 DEF DoneKept, Kept, KeptIn
<1> QED  BY <1>3, <1>4, <1>5, <1>6, <1>7

(***************************************************************************)
(* The batch of one transaction: the block is in the store already, and a  *)
(* receipt that another block wrote before is replaced by one that leads   *)
(* to this block.                                                          *)
(***************************************************************************)
LEMMA StoreTransactionInv ==
  ASSUME BlockInv, NEW w \in Writer, StoreTransaction(w)
  PROVE  BlockInv'
<1> USE DEF BlockInv
<1> DEFINE c == call[w]
           b == call[w].block
           k == call[w].next
           t == b.transactions[k]
<1>1. c \in Calls /\ b \in Block /\ k \in Nat \ {0} /\ b \in blocks
  BY DEF StoreTransaction, BlockTypes, Calls, CallsBegun
<1>2. k \in 1..Len(b.transactions)
  BY <1>1, BlockShape DEF StoreTransaction
<1>3. t \in Transactions /\ t \in ToSet(b.transactions)
  BY <1>1, <1>2, BlockShape
<1>4. b.number \in Number /\ b.number # None
  BY <1>1, BlockShape
<1>5. /\ blocks' = blocks /\ hashes' = hashes /\ numbers' = numbers
      /\ done' = done
      /\ transactions' = transactions \cup {t}
      /\ receipts' = [receipts EXCEPT ![t] = b.number]
  BY DEF StoreTransaction, PutTransaction
<1>6. call' = [call EXCEPT ![w] = [block |-> b, next |-> k + 1]]
  <2>1. [c EXCEPT !.next = k + 1] = [block |-> b, next |-> k + 1]
    BY <1>1 DEF Calls
  <2>2. call' = [call EXCEPT ![w] = [c EXCEPT !.next = k + 1]]
    BY DEF StoreTransaction
  <2> QED  BY <2>1, <2>2
<1> HIDE DEF c, b, k, t
<1>7. BlockTypes'
  <2>1. [block |-> b, next |-> k + 1] \in Calls
    BY <1>1 DEF Calls
  <2> QED  BY <1>3, <1>4, <1>5, <1>6, <2>1 DEF BlockTypes
<1>8. IndexesAgree'
  BY <1>5 DEF IndexesAgree
<1>9. ReceiptsLead'
  BY <1>1, <1>3, <1>4, <1>5 DEF ReceiptsLead, BlockTypes
<1>10. \A x \in Transactions :
         Kept(x) \/ x = t => KeptIn(transactions', receipts', x)
  BY <1>3, <1>4, <1>5 DEF Kept, KeptIn, BlockTypes
<1>11. CallsBegun'
  <2> SUFFICES ASSUME NEW x \in Writer, call'[x] # None
               PROVE  /\ call'[x].block \in blocks'
                      /\ \A i \in 1..Len(call'[x].block.transactions) :
                           i < call'[x].next =>
                             KeptIn(transactions', receipts',
                                    call'[x].block.transactions[i])
    BY DEF CallsBegun, Kept
  <2>1. CASE x = w
    <3>1. call'[x] = [block |-> b, next |-> k + 1] /\ call[x] = c
      BY <1>6, <2>1 DEF BlockTypes, c
    <3>2. call[x] # None /\ call[x].block = b /\ call[x].next = k
      BY <2>1 DEF StoreTransaction, b, k
    <3>3. ASSUME NEW i \in 1..Len(b.transactions), i < k + 1
          PROVE  KeptIn(transactions', receipts', b.transactions[i])
      <4>1. b.transactions[i] \in Transactions
        BY <1>1, BlockShape
      <4>2. CASE i = k
        BY <1>10, <4>1, <4>2 DEF t, b, k
      <4>3. CASE i < k
        BY <1>10, <3>2, <4>1, <4>3 DEF CallsBegun
      <4> QED  BY <1>1, <1>2, <3>3, <4>2, <4>3
    <3>4. call'[x].block = b /\ call'[x].next = k + 1
      BY <3>1
    <3> QED  BY <1>1, <1>5, <3>3, <3>4
  <2>2. CASE x # w
    <3>1. call'[x] = call[x]
      BY <1>6, <2>2 DEF BlockTypes
    <3>2. call[x].block \in Block
      BY <3>1 DEF BlockTypes, Calls
    <3>3. \A i \in 1..Len(call[x].block.transactions) :
            call[x].block.transactions[i] \in Transactions
      BY <3>2, BlockShape
    <3> QED  BY <1>5, <1>10, <3>1, <3>3 DEF CallsBegun
  <2> QED  BY <2>1, <2>2
<1>12. DoneKept'
  <2>1. ASSUME NEW x \in done, NEW u \in ToSet(x.transactions)
        PROVE  KeptIn(transactions', receipts', u)
    <3>1. x \in Block
      BY DEF BlockTypes
    <3>2. u \in Transactions
      BY <3>1, BlockShape
    <3> QED  BY <1>10, <3>2 DEF DoneKept
  <2> QED  BY <1>5, <2>1 DEF DoneKept, Kept
<1> QED  BY <1>7, <1>8, <1>9, <1>11, <1>12

(***************************************************************************)
(* The return of store_block: every transaction comes before the next one. *)
(***************************************************************************)
LEMMA StoreReturnsInv ==
  ASSUME BlockInv, NEW w \in Writer, StoreReturns(w)
  PROVE  BlockInv'
<1> USE DEF BlockInv
<1> DEFINE b == call[w].block
<1>1. call[w] # None /\ b \in Block /\ b \in blocks /\ call[w].next \in Nat
  BY DEF StoreReturns, BlockTypes, Calls, CallsBegun
<1>2. \A i \in 1..Len(b.transactions) : i < call[w].next
  BY <1>1, BlockShape DEF StoreReturns, Returned
<1>3. \A t \in ToSet(b.transactions) : Kept(t)
  BY <1>1, <1>2, BlockShape DEF CallsBegun
<1>4. /\ done' = done \cup {b}
      /\ call' = [call EXCEPT ![w] = None]
      /\ UNCHANGED <<blocks, hashes, numbers, transactions, receipts>>
  BY DEF StoreReturns
<1> HIDE DEF b
<1>5. BlockTypes'
  BY <1>1, <1>4 DEF BlockTypes
<1>6. IndexesAgree' /\ ReceiptsLead'
  BY <1>4 DEF IndexesAgree, ReceiptsLead
<1>7. \A t : Kept(t)' = Kept(t)
  BY <1>4 DEF Kept, KeptIn
<1>8. CallsBegun'
  <2> SUFFICES ASSUME NEW x \in Writer, call'[x] # None
               PROVE  /\ call'[x].block \in blocks'
                      /\ \A i \in 1..Len(call'[x].block.transactions) :
                           i < call'[x].next => Kept(call'[x].block.transactions[i])
    BY <1>7 DEF CallsBegun
  <2>1. x # w /\ call'[x] = call[x]
    BY <1>4 DEF BlockTypes
  <2> QED  BY <1>4, <2>1 DEF CallsBegun
<1>9. DoneKept'
  BY <1>1, <1>3, <1>4, <1>7 DEF DoneKept
<1> QED  BY <1>5, <1>6, <1>8, <1>9

(***************************************************************************)
(* A call that ends, by an error or with the process, takes nothing along. *)
(***************************************************************************)
LEMMA CallsEndInv ==
  ASSUME BlockInv,
         call' \in [Writer -> Calls \cup {None}],
         \A w \in Writer : call'[w] # None => call'[w] = call[w],
         UNCHANGED <<blocks, hashes, numbers, transactions, receipts, done>>
  PROVE  BlockInv'
<1> USE DEF BlockInv
<1>1. BlockTypes'
  BY DEF BlockTypes
<1>2. IndexesAgree' /\ ReceiptsLead'
  BY DEF IndexesAgree, ReceiptsLead
<1>3. \A t : Kept(t)' = Kept(t)
  BY DEF Kept, KeptIn
<1>4. CallsBegun'
  <2> SUFFICES ASSUME NEW x \in Writer, call'[x] # None
               PROVE  /\ call'[x].block \in blocks'
                      /\ \A i \in 1..Len(call'[x].block.transactions) :
                           i < call'[x].next => Kept(call'[x].block.transactions[i])
    BY <1>3 DEF CallsBegun
  <2>1. call'[x] = call[x]
    OBVIOUS
  <2> QED  BY <2>1 DEF CallsBegun
<1>5. DoneKept'
  BY <1>3 DEF DoneKept
<1> QED  BY <1>1, <1>2, <1>4, <1>5

LEMMA BlockInvNext == BlockInv /\ [Next]_vars => BlockInv'
<1> SUFFICES ASSUME BlockInv, [Next]_vars PROVE BlockInv'
  OBVIOUS
<1>1. ASSUME NEW w \in Writer, StoreFails(w) PROVE BlockInv'
  <2>1. /\ call' \in [Writer -> Calls \cup {None}]
        /\ \A x \in Writer : call'[x] # None => call'[x] = call[x]
        /\ UNCHANGED <<blocks, hashes, numbers, transactions, receipts, done>>
    BY <1>1 DEF StoreFails, BlockInv, BlockTypes
  <2> QED  BY <2>1, CallsEndInv
<1>2. CASE BlockStep
  BY <1>1, <1>2, StoreBlockInv, StoreTransactionInv, StoreReturnsInv
  DEF BlockStep
<1>3. CASE Crash
  <2>1. /\ call' \in [Writer -> Calls \cup {None}]
        /\ \A x \in Writer : call'[x] # None => call'[x] = call[x]
        /\ UNCHANGED <<blocks, hashes, numbers, transactions, receipts, done>>
    BY <1>3 DEF Crash
  <2> QED  BY <2>1, CallsEndInv
<1>4. ASSUME UNCHANGED blockVars PROVE BlockInv'
  <2>1. /\ call' \in [Writer -> Calls \cup {None}]
        /\ \A x \in Writer : call'[x] # None => call'[x] = call[x]
        /\ UNCHANGED <<blocks, hashes, numbers, transactions, receipts, done>>
    BY <1>4 DEF blockVars, BlockInv, BlockTypes
  <2> QED  BY <2>1, CallsEndInv
<1>5. CASE StateStep \/ RecordStep \/ MetricStep \/ CacheStep \/ UNCHANGED vars
  BY <1>4, <1>5 DEF StateStep, RecordStep, MetricStep, CacheStep, vars
<1> QED  BY <1>2, <1>3, <1>5 DEF Next

(***************************************************************************)
(* Every receipt that get_receipt finds leads to a stored transaction and  *)
(* to a stored block of its number that contains it: the two batches of    *)
(* store_block come in an order that leaves no dangling receipt, whatever  *)
(* crash, error or other writer comes between them.                        *)
(***************************************************************************)
THEOREM StorageReceiptsTraceable == Spec => []ReceiptsTraceable
<1>1. BlockInv => ReceiptsTraceable
  <2> SUFFICES ASSUME BlockInv, NEW t \in Transactions, GetReceipt(t) # None
               PROVE  /\ GetTransaction(t) # None
                      /\ \E b \in blocks : /\ b.number = GetReceipt(t)
                                           /\ t \in ToSet(b.transactions)
    BY DEF ReceiptsTraceable
  <2>1. t # None
    BY StoreAssumption
  <2> QED  BY <2>1 DEF BlockInv, ReceiptsLead, GetReceipt, GetTransaction
<1> QED  BY <1>1, BlockInvInit, BlockInvNext, PTL DEF Spec

(***************************************************************************)
(* What store_block has acknowledged is found after every crash and every  *)
(* later block: the block under its hash, its number both ways, and each   *)
(* of its transactions with a receipt.                                     *)
(***************************************************************************)
THEOREM StorageAcknowledgedDurable == Spec => []AcknowledgedDurable
<1>1. BlockInv => AcknowledgedDurable
  <2> SUFFICES ASSUME BlockInv, NEW b \in done
               PROVE  /\ GetBlock(b) = b
                      /\ GetBlockNumber(b) = b.number
                      /\ GetBlockByNumber(b.number) # None
                      /\ GetBlockByNumber(b.number).number = b.number
                      /\ \A t \in ToSet(b.transactions) :
                           GetTransaction(t) # None /\ GetReceipt(t) # None
    BY DEF AcknowledgedDurable
  <2>1. b \in Block /\ b \in blocks /\ b.number \in Number
    BY BlockShape DEF BlockInv, BlockTypes, DoneKept
  <2>2. GetBlock(b) = b /\ GetBlockNumber(b) = b.number
    BY <2>1 DEF BlockInv, IndexesAgree, GetBlock, GetBlockNumber
  <2>3. /\ hashes[b.number] # None
        /\ hashes[b.number] \in blocks
        /\ hashes[b.number].number = b.number
    BY <2>1 DEF BlockInv, IndexesAgree
  <2>4. GetBlockByNumber(b.number) = hashes[b.number]
    BY <2>3 DEF GetBlockByNumber, GetBlock
  <2>5. ASSUME NEW t \in ToSet(b.transactions)
        PROVE  GetTransaction(t) # None /\ GetReceipt(t) # None
    <3>1. t \in Transactions /\ Kept(t)
      BY <2>1, BlockShape DEF BlockInv, DoneKept
    <3>2. t # None
      BY <3>1, StoreAssumption
    <3> QED  BY <3>1, <3>2 DEF Kept, KeptIn, GetTransaction, GetReceipt
  <2> QED  BY <2>2, <2>3, <2>4, <2>5
<1> QED  BY <1>1, BlockInvInit, BlockInvNext, PTL DEF Spec

----------------------------------------------------------------------------
(***************************************************************************)
(* The inductive invariant of the states: a prune in progress deletes only *)
(* below the horizon, less the states to keep, and in archive mode it      *)
(* deletes nothing.                                                        *)
(***************************************************************************)
StateInv ==
  /\ states \in [Number -> Value \cup {None}]
  /\ saved \in [Number -> Value \cup {None}]
  /\ horizon \in Nat
  /\ pruning \in [next : Nat, keep_from : Nat] \cup {None}
  /\ pruning # None =>
       /\ Archive => pruning.keep_from = 0
       /\ pruning.keep_from = 0 \/ pruning.keep_from + KeepBlocks <= horizon
  /\ RecentStatesKept

LEMMA StateInvNext == StateInv /\ [Next]_vars => StateInv'
<1> SUFFICES ASSUME StateInv, [Next]_vars PROVE StateInv'
  OBVIOUS
<1> USE StoreAssumption DEF StateInv, RecentStatesKept, GetState, Number
<1>1. ASSUME NEW n \in Number, NEW v \in Value, StoreState(n, v)
      PROVE  StateInv'
  BY <1>1 DEF StoreState
<1>2. ASSUME NEW n \in Number, PruneBegins(n)
      PROVE  StateInv'
  <2>1. n \in Nat /\ horizon' \in Nat /\ horizon' >= horizon /\ horizon' >= n
    BY <1>2 DEF PruneBegins
  <2>2. /\ KeepFrom(n) \in Nat
        /\ Archive => KeepFrom(n) = 0
        /\ KeepFrom(n) = 0 \/ KeepFrom(n) + KeepBlocks <= horizon'
    BY <2>1 DEF KeepFrom
  <2>3. pruning' = [next |-> 0, keep_from |-> KeepFrom(n)]
    BY <1>2 DEF PruneBegins
  <2> QED  BY <1>2, <2>1, <2>2, <2>3 DEF PruneBegins
<1>3. CASE PruneDeletes /\ UNCHANGED <<saved, horizon>>
  <2>1. /\ pruning \in [next : Nat, keep_from : Nat]
        /\ pruning.next < pruning.keep_from
        /\ ~Archive /\ pruning.next + KeepBlocks < horizon
        /\ pruning.keep_from + KeepBlocks <= horizon
    BY <1>3 DEF PruneDeletes
  <2>2. pruning' = [next |-> pruning.next + 1, keep_from |-> pruning.keep_from]
    BY <1>3, <2>1 DEF PruneDeletes
  <2>3. /\ states' = [states EXCEPT ![pruning.next] = None]
        /\ saved' = saved /\ horizon' = horizon
    BY <1>3 DEF PruneDeletes
  <2>4. \A n \in Number : (Archive \/ n + KeepBlocks >= horizon') => states'[n] = saved'[n]
    BY <2>1, <2>3
  <2>5. /\ states' \in [Number -> Value \cup {None}]
        /\ saved' \in [Number -> Value \cup {None}]
        /\ horizon' \in Nat
    BY <2>3
  <2>6. /\ pruning' \in [next : Nat, keep_from : Nat]
        /\ pruning'.keep_from = pruning.keep_from
    BY <2>1, <2>2
  <2>7. /\ Archive => pruning'.keep_from = 0
        /\ pruning'.keep_from = 0 \/ pruning'.keep_from + KeepBlocks <= horizon'
    BY <2>1, <2>3, <2>6
  <2> QED  BY <2>4, <2>5, <2>6, <2>7
<1>4. CASE PruneReturns
  BY <1>4 DEF PruneReturns
<1>5. CASE StateStep
  BY <1>1, <1>2, <1>3, <1>4, <1>5 DEF StateStep, PruneDeletes
<1>6. CASE Crash
  BY <1>6 DEF Crash
<1>7. CASE BlockStep \/ RecordStep \/ MetricStep \/ CacheStep \/ UNCHANGED vars
  BY <1>7 DEF BlockStep, RecordStep, MetricStep, CacheStep, stateVars, vars
<1> QED  BY <1>5, <1>6, <1>7 DEF Next

(***************************************************************************)
(* prune never removes a state among the last keep_blocks below the        *)
(* highest block it was called with, and none at all in archive mode, for  *)
(* every keep_blocks, every order of the calls and every crash within one. *)
(***************************************************************************)
THEOREM StorageRecentStatesKept == Spec => []RecentStatesKept
<1>1. Init => StateInv
  BY StoreAssumption DEF Init, StateInv, RecentStatesKept, GetState, Number
<1>2. StateInv => RecentStatesKept
  BY DEF StateInv
<1> QED  BY <1>1, <1>2, StateInvNext, PTL DEF Spec

----------------------------------------------------------------------------
(***************************************************************************)
(* The metrics families.  The entry by time of a stored snapshot is its    *)
(* own: another block number has another key, and a later hour of the same *)
(* number adds a key and leaves the old one behind.                        *)
(***************************************************************************)
Found(n) ==
  LET k == <<TimeBucket(metrics[n].timestamp), n>>
  IN  k \in DOMAIN by_time /\ by_time[k] = metrics[n]

MetricInv ==
  /\ DOMAIN metrics = Number
  /\ \A n \in Number : metrics[n] # None => Found(n)

LEMMA SnapshotFound ==
  ASSUME MetricInv, NEW n \in Number, NEW s, metrics' = [metrics EXCEPT ![n] = s],
         by_time' = With(by_time, <<TimeBucket(s.timestamp), n>>, s)
  PROVE  MetricInv'
<1> DEFINE k == <<TimeBucket(s.timestamp), n>>
<1>1. DOMAIN metrics' = Number /\ metrics'[n] = s /\ \A m \in Number \ {n} : metrics'[m] = metrics[m]
  BY DEF MetricInv
<1>2. /\ DOMAIN by_time' = DOMAIN by_time \cup {k} /\ by_time'[k] = s
      /\ \A x \in DOMAIN by_time \ {k} : by_time'[x] = by_time[x]
  BY DEF With
<1>3. Found(n)'
  BY <1>1, <1>2 DEF Found, TimeBucket
<1>4. ASSUME NEW m \in Number \ {n}, metrics'[m] # None PROVE Found(m)'
  <2> DEFINE x == <<TimeBucket(metrics[m].timestamp), m>>
  <2>1. x \in DOMAIN by_time /\ by_time[x] = metrics[m]
    BY <1>1, <1>4 DEF MetricInv, Found
  <2>2. x # k
    OBVIOUS
  <2> HIDE DEF k
  <2>3. x \in DOMAIN by_time' /\ by_time'[x] = metrics[m]
    BY <1>2, <2>1, <2>2
  <2> QED  BY <1>1, <2>3 DEF Found, TimeBucket
<1> QED  BY <1>1, <1>3, <1>4 DEF MetricInv

LEMMA MetricInvNext == MetricInv /\ [Next]_vars => MetricInv'
<1> SUFFICES ASSUME MetricInv, [Next]_vars PROVE MetricInv'
  OBVIOUS
<1>1. ASSUME NEW n \in Number, NEW v \in Value, StoreChainMetrics(n, v)
      PROVE  MetricInv'
  <2> DEFINE s == [block_number |-> n, timestamp |-> now, metrics |-> v]
  <2>1. /\ metrics' = [metrics EXCEPT ![n] = s]
        /\ by_time' = With(by_time, <<TimeBucket(s.timestamp), n>>, s)
    BY <1>1 DEF StoreChainMetrics, PutSnapshot
  <2> HIDE DEF s
  <2> QED  BY <2>1, SnapshotFound
<1>2. CASE PruneOldMetrics
  BY <1>2 DEF PruneOldMetrics, MetricInv, Found, TimeBucket
<1>3. CASE UNCHANGED <<metrics, by_time>>
  BY <1>3 DEF MetricInv, Found, TimeBucket
<1>4. CASE MetricStep
  <2>1. CASE \E n \in Number, v \in Value : StoreChainMetrics(n, v)
    BY <1>1, <2>1
  <2>2. CASE (\E n \in Number : UpdateLatestBlockNumber(n)) \/ PruneScans \/ Tick
    BY <1>3, <2>2 DEF UpdateLatestBlockNumber, PruneScans, Tick
  <2> QED  BY <1>2, <1>4, <2>1, <2>2 DEF MetricStep
<1>5. CASE BlockStep \/ StateStep \/ RecordStep \/ CacheStep \/ Crash \/ UNCHANGED vars
  BY <1>3, <1>5 DEF BlockStep, StateStep, RecordStep, CacheStep, Crash, metricVars, vars
<1> QED  BY <1>4, <1>5 DEF Next

LEMMA GreatestOf ==
  ASSUME NEW T, T \subseteq Number, T # {}
  PROVE  Max(T) \in T
<1> DEFINE R == {r \in Nat : \E n \in T : r = MaxNumber - n}
<1>1. MaxNumber \in Nat /\ \A n \in T : n \in Nat /\ n <= MaxNumber
  BY StoreAssumption DEF Number
<1>2. \A n \in T : MaxNumber - n \in R
  BY <1>1
<1>3. PICK r \in R : \A q \in R : r <= q
  <2>1. R \subseteq Nat /\ R # {}
    BY <1>2
  <2> QED  BY <2>1, LeastOf
<1>4. PICK n \in T : r = MaxNumber - n
  OBVIOUS
<1>5. \A m \in T : n >= m
  <2> SUFFICES ASSUME NEW m \in T PROVE n >= m
    OBVIOUS
  <2>1. r <= MaxNumber - m
    BY <1>2, <1>3
  <2> QED  BY <1>1, <1>4, <2>1
<1> QED  BY <1>5 DEF Max

(***************************************************************************)
(* Every snapshot is found by its hour too, and get_latest_metrics finds   *)
(* one exactly when get_metrics_range does (db.rs), for every interval,    *)
(* every clock and every retention, when blocks are stored again, pruned   *)
(* or cut off by a crash.                                                  *)
(***************************************************************************)
THEOREM StorageMetricsIndexed == Spec => []MetricsIndexed
<1>1. Init => MetricInv
  BY DEF Init, MetricInv
<1>2. MetricInv => MetricsIndexed
  <2> SUFFICES ASSUME MetricInv PROVE MetricsIndexed
    OBVIOUS
  <2> DEFINE kept  == {n \in Number : metrics[n] # None}
             below == {n \in kept : latest # None /\ n <= latest}
  <2>1. \A n \in Number : metrics[n] # None =>
          LET k == <<TimeBucket(metrics[n].timestamp), n>>
          IN  k \in DOMAIN by_time /\ by_time[k] = metrics[n]
    BY DEF MetricInv, Found
  <2>2. DOMAIN GetMetricsRange(0, MaxNumber) = kept
    BY DEF GetMetricsRange, Number
  <2>3. GetLatestMetrics = IF below # {} THEN metrics[Max(below)]
                           ELSE IF kept # {} THEN metrics[Max(kept)] ELSE None
    BY DEF GetLatestMetrics
  <2>4. below \subseteq kept /\ kept \subseteq Number /\ \A n \in kept : metrics[n] # None
    OBVIOUS
  <2> HIDE DEF kept, below
  <2>5. (below # {} => Max(below) \in below) /\ (kept # {} => Max(kept) \in kept)
    BY <2>4, GreatestOf
  <2>6. GetLatestMetrics = None <=> kept = {}
    BY <2>3, <2>4, <2>5
  <2> QED  BY <2>1, <2>2, <2>6 DEF MetricsIndexed
<1> QED  BY <1>1, <1>2, MetricInvNext, PTL DEF Spec

----------------------------------------------------------------------------
(***************************************************************************)
(* The caches.  What the loop of retain leaves of a sequence in which k    *)
(* occurs at most once, at i (past the end: not at all).                   *)
(***************************************************************************)
OnlyAt(s, k, i) ==
  /\ i \in 1 .. Len(s) + 1
  /\ \A j \in 1 .. Len(s) : s[j] = k <=> j = i

KeptUpTo(r, s, i, n) ==
  /\ r \in Seq(Number)
  /\ Len(r) = IF n < i THEN n ELSE n - 1
  /\ \A j \in 1 .. Len(r) : r[j] = IF j < i THEN s[j] ELSE s[j + 1]

LEMMA KeptOne ==
  ASSUME NEW s \in Seq(Number), NEW k \in Number, NEW i, OnlyAt(s, k, i),
         NEW n \in Nat, n < Len(s), NEW r, KeptUpTo(r, s, i, n)
  PROVE  KeptUpTo(RetainOne(r, s[n + 1], k), s, i, n + 1)
<1>1. i \in Nat /\ n + 1 \in 1 .. Len(s) /\ s[n + 1] \in Number /\ Len(r) \in Nat /\ r \in Seq(Number)
  BY DEF OnlyAt, KeptUpTo
<1>2. s[n + 1] = k <=> n + 1 = i
  BY <1>1 DEF OnlyAt
<1>3. CASE n + 1 = i
  <2>1. RetainOne(r, s[n + 1], k) = r
    BY <1>2, <1>3 DEF RetainOne
  <2>2. Len(r) = n /\ \A j \in 1 .. n : r[j] = s[j]
    BY <1>1, <1>3 DEF KeptUpTo
  <2>3. KeptUpTo(r, s, i, n + 1)
    BY <1>1, <1>3, <2>2 DEF KeptUpTo
  <2> QED  BY <2>1, <2>3
<1>4. CASE n + 1 # i
  <2> DEFINE t == Append(r, s[n + 1])
             m == Len(r)
  <2>1. RetainOne(r, s[n + 1], k) = t
    BY <1>2, <1>4 DEF RetainOne
  <2>2. /\ t \in Seq(Number) /\ Len(t) = m + 1 /\ t[m + 1] = s[n + 1]
        /\ \A j \in 1 .. m : t[j] = r[j]
    BY <1>1
  <2>3. m = IF n < i THEN n ELSE n - 1
    BY DEF KeptUpTo
  <2>4. \A j \in 1 .. m : r[j] = IF j < i THEN s[j] ELSE s[j + 1]
    BY DEF KeptUpTo
  <2> HIDE DEF t, m
  <2>5. m + 1 = IF n + 1 < i THEN n + 1 ELSE n
    BY <1>1, <1>4, <2>3
  <2>6. s[n + 1] = IF m + 1 < i THEN s[m + 1] ELSE s[m + 1 + 1]
    <3>1. CASE n + 1 < i
      BY <1>1, <2>5, <3>1
    <3>2. CASE ~ (n + 1 < i)
      <4>1. m + 1 = n /\ ~ (m + 1 < i)
        BY <1>1, <1>4, <2>5, <3>2
      <4> QED  BY <4>1
    <3> QED  BY <3>1, <3>2
  <2>7. \A j \in 1 .. m + 1 : t[j] = IF j < i THEN s[j] ELSE s[j + 1]
    <3> SUFFICES ASSUME NEW j \in 1 .. m + 1
                 PROVE  t[j] = IF j < i THEN s[j] ELSE s[j + 1]
      OBVIOUS
    <3>0. m \in Nat
      BY <1>1 DEF m
    <3>1. CASE j = m + 1
      BY <2>2, <2>6, <3>1
    <3>2. CASE j \in 1 .. m
      BY <2>2, <2>4, <3>2
    <3> QED  BY <3>0, <3>1, <3>2
  <2>8. Len(t) = IF n + 1 < i THEN n + 1 ELSE n + 1 - 1
    BY <2>2, <2>5
  <2> QED  BY <2>1, <2>2, <2>7, <2>8 DEF KeptUpTo
<1> QED  BY <1>3, <1>4

LEMMA Retained ==
  ASSUME NEW s \in Seq(Number), NEW k \in Number, NEW i, OnlyAt(s, k, i)
  PROVE  KeptUpTo(Retain(s, k), s, i, Len(s))
<1> DEFINE L == Len(s)
           Step(g, n) == IF n = 0 THEN <<>> ELSE RetainOne(g[n - 1], s[n], k)
           kept[n \in 0 .. L] == IF n = 0 THEN <<>> ELSE RetainOne(kept[n - 1], s[n], k)
<1>1. L \in Nat
  OBVIOUS
<1>2. Retain(s, k) = kept[L]
  BY DEF Retain
<1>3. \E g : g = [n \in 0 .. L |-> Step(g, n)]
  <2> DEFINE Q == {n \in Nat : \E g : g = [x \in 0 .. n |-> Step(g, x)]}
  <2>1. 0 \in Q
    <3> DEFINE g == [x \in 0 .. 0 |-> <<>>]
    <3>1. g = [x \in 0 .. 0 |-> Step(g, x)]
      OBVIOUS
    <3> QED  BY <3>1
  <2>2. ASSUME NEW n \in Nat, n \in Q PROVE n + 1 \in Q
    <3>1. PICK g : g = [x \in 0 .. n |-> Step(g, x)]
      BY <2>2
    <3> DEFINE h == [x \in 0 .. n + 1 |-> Step(g, x)]
    <3>2. ASSUME NEW x \in 0 .. n + 1 PROVE Step(g, x) = Step(h, x)
      <4>1. CASE x = 0
        BY <4>1
      <4>2. CASE x # 0
        <5>1. x - 1 \in 0 .. n /\ x - 1 \in 0 .. n + 1
          BY <4>2
        <5>2. g[x - 1] = Step(g, x - 1)
          <6> HIDE DEF Step
          <6> QED  BY <3>1, <5>1
        <5>3. h[x - 1] = Step(g, x - 1)
          <6> HIDE DEF Step
          <6> QED  BY <5>1
        <5> HIDE DEF h
        <5> QED  BY <5>2, <5>3
      <4> QED  BY <4>1, <4>2
    <3>3. h = [x \in 0 .. n + 1 |-> Step(h, x)]
      <4> HIDE DEF Step
      <4> QED  BY <3>2
    <3> HIDE DEF h, Step
    <3> QED  BY <3>3
  <2>3. L \in Q
    <3> HIDE DEF Q, L
    <3> QED  BY <1>1, <2>1, <2>2, CountingUp
  <2> HIDE DEF Step, L
  <2> QED  BY <2>3
<1>4. kept = [n \in 0 .. L |-> Step(kept, n)]
  BY <1>3
<1> HIDE DEF kept
<1>5. \A n \in 0 .. L : kept[n] = Step(kept, n)
  <2> HIDE DEF Step
  <2> QED  BY <1>4, Zenon
<1> DEFINE R == {n \in Nat : n <= L => KeptUpTo(kept[n], s, i, n)}
<1>6. 0 \in R
  <2>1. kept[0] = <<>>
    BY <1>1, <1>5
  <2>2. KeptUpTo(<<>>, s, i, 0)
    BY DEF KeptUpTo, OnlyAt
  <2> QED  BY <2>1, <2>2
<1>7. ASSUME NEW n \in Nat, n \in R PROVE n + 1 \in R
  <2> SUFFICES ASSUME n + 1 <= L PROVE KeptUpTo(kept[n + 1], s, i, n + 1)
    OBVIOUS
  <2>1. n < L /\ KeptUpTo(kept[n], s, i, n) /\ n + 1 \in 0 .. L /\ n + 1 # 0 /\ n + 1 - 1 = n
    BY <1>1, <1>7
  <2>2. kept[n + 1] = RetainOne(kept[n], s[n + 1], k)
    BY <1>5, <2>1
  <2> QED  BY <2>1, <2>2, KeptOne
<1>8. L \in R
  <2> HIDE DEF R, L
  <2> QED  BY <1>1, <1>6, <1>7, CountingUp
<1> QED  BY <1>1, <1>2, <1>8

(***************************************************************************)
(* So moving k to the front shifts what was before it, and leaves what was *)
(* after it where it was.                                                  *)
(***************************************************************************)
Moved(t, s, k, i) ==
  /\ t \in Seq(Number)
  /\ Len(t) = IF i <= Len(s) THEN Len(s) ELSE Len(s) + 1
  /\ \A j \in 1 .. Len(t) : t[j] = IF j = 1 THEN k ELSE IF j <= i THEN s[j - 1] ELSE s[j]

LEMMA MovedToFront ==
  ASSUME NEW s \in Seq(Number), NEW k \in Number, NEW i, OnlyAt(s, k, i)
  PROVE  Moved(MoveToFront(s, k), s, k, i)
<1> DEFINE r == Retain(s, k)
           t == MoveToFront(s, k)
<1>1. KeptUpTo(r, s, i, Len(s))
  BY Retained
<1>2. i \in Nat /\ i >= 1 /\ i <= Len(s) + 1 /\ Len(s) \in Nat
  BY DEF OnlyAt
<1>3. /\ r \in Seq(Number) /\ Len(r) = IF Len(s) < i THEN Len(s) ELSE Len(s) - 1
      /\ \A j \in 1 .. Len(r) : r[j] = IF j < i THEN s[j] ELSE s[j + 1]
  BY <1>1 DEF KeptUpTo
<1>4. t = <<k>> \o r
  BY DEF MoveToFront
<1> HIDE DEF r, t
<1>5. /\ t \in Seq(Number) /\ Len(t) = Len(r) + 1 /\ t[1] = k /\ Len(r) \in Nat
      /\ \A j \in 1 .. Len(r) : t[j + 1] = r[j]
  BY <1>3, <1>4
<1>6. Len(t) = IF i <= Len(s) THEN Len(s) ELSE Len(s) + 1
  BY <1>2, <1>3, <1>5
<1>7. ASSUME NEW j \in 1 .. Len(t)
      PROVE  t[j] = IF j = 1 THEN k ELSE IF j <= i THEN s[j - 1] ELSE s[j]
  <2>1. CASE j = 1
    BY <1>5, <2>1
  <2>2. CASE j # 1
    <3> DEFINE h == j - 1
    <3>1. h \in 1 .. Len(r) /\ j = h + 1 /\ (h < i <=> j <= i)
      BY <1>2, <1>5, <2>2
    <3>2. t[j] = r[h]
      BY <1>5, <3>1
    <3>3. r[h] = IF h < i THEN s[h] ELSE s[h + 1]
      BY <1>3, <3>1
    <3> QED  BY <2>2, <3>1, <3>2, <3>3
  <2> QED  BY <2>1, <2>2
<1>8. Moved(t, s, k, i)
  BY <1>5, <1>6, <1>7 DEF Moved
<1> QED  BY <1>8 DEF t

(***************************************************************************)
(* The inductive invariant of the caches: no key is remembered twice, and  *)
(* the order is a prefix of the keys used, as long as the room allows.     *)
(***************************************************************************)
Room == IF Capacity = 0 THEN 1 ELSE Capacity

Distinct(s) == \A i, j \in 1 .. Len(s) : s[i] = s[j] => i = j

Prefix(order, s) ==
  /\ order \in Seq(Number) /\ s \in Seq(Number) /\ Distinct(s)
  /\ Len(order) = IF Room < Len(s) THEN Room ELSE Len(s)
  /\ \A j \in 1 .. Len(order) : order[j] = s[j]

Holds(c, s) == Prefix(c.order, s) /\ DOMAIN c.map = ToSet(c.order)

Small(map) ==
  /\ DOMAIN map \subseteq Number /\ IsFiniteSet(DOMAIN map)
  /\ Cardinality(DOMAIN map) <= Room

CacheInv == Holds(lru, used) /\ Small(state_cache)

LEMMA RoomType == Capacity \in Nat /\ Room \in Nat /\ Room >= 1
BY StoreAssumption DEF Room

LEMMA Position ==
  ASSUME NEW s \in Seq(Number), Distinct(s), NEW k \in Number
  PROVE  \E i \in 1 .. Len(s) + 1 : OnlyAt(s, k, i)
<1>1. CASE \E i \in 1 .. Len(s) : s[i] = k
  BY <1>1 DEF OnlyAt, Distinct
<1>2. CASE ~ \E i \in 1 .. Len(s) : s[i] = k
  <2>1. Len(s) + 1 \in 1 .. Len(s) + 1 /\ ~ (Len(s) + 1 \in 1 .. Len(s))
    OBVIOUS
  <2>2. OnlyAt(s, k, Len(s) + 1)
    BY <1>2, <2>1 DEF OnlyAt
  <2> QED  BY <2>1, <2>2
<1> QED  BY <1>1, <1>2

LEMMA MovedDistinct ==
  ASSUME NEW s \in Seq(Number), Distinct(s), NEW k \in Number, NEW i, OnlyAt(s, k, i),
         NEW t, Moved(t, s, k, i)
  PROVE  Distinct(t)
<1> DEFINE Old(j) == IF j <= i THEN j - 1 ELSE j
<1>1. i \in Nat /\ i >= 1 /\ i <= Len(s) + 1 /\ Len(s) \in Nat /\ Len(t) \in Nat
  BY DEF OnlyAt, Moved
<1>2. ASSUME NEW j \in 1 .. Len(t), j # 1
      PROVE  t[j] = s[Old(j)] /\ Old(j) \in 1 .. Len(s) /\ Old(j) # i
  BY <1>1, <1>2 DEF Moved
<1>3. \A j \in 1 .. Len(t) : j # 1 => t[j] # k
  BY <1>2 DEF OnlyAt
<1>4. 1 \in 1 .. Len(t) => t[1] = k
  BY DEF Moved
<1>5. ASSUME NEW j \in 1 .. Len(t), NEW h \in 1 .. Len(t), t[j] = t[h], j # 1, h # 1
      PROVE  j = h
  <2>1. s[Old(j)] = s[Old(h)] /\ Old(j) \in 1 .. Len(s) /\ Old(h) \in 1 .. Len(s)
        /\ Old(j) # i /\ Old(h) # i
    BY <1>2, <1>5
  <2> HIDE DEF Old
  <2>2. Old(j) = Old(h)
    BY <2>1 DEF Distinct
  <2> QED  BY <1>1, <2>1, <2>2 DEF Old
<1>6. ASSUME NEW j \in 1 .. Len(t), NEW h \in 1 .. Len(t), t[j] = t[h]
      PROVE  j = h
  <2>1. CASE j = 1
    BY <1>3, <1>4, <1>6, <2>1
  <2>2. CASE h = 1
    BY <1>3, <1>4, <1>6, <2>2
  <2> QED  BY <1>5, <1>6, <2>1, <2>2
<1> QED  BY <1>6 DEF Distinct

LEMMA OrderCount ==
  ASSUME NEW order, NEW s, Prefix(order, s)
  PROVE  IsFiniteSet(ToSet(order)) /\ Cardinality(ToSet(order)) = Len(order)
<1> DEFINE n == Len(order)
           f == [j \in 1 .. n |-> order[j]]
<1>1. /\ n \in Nat /\ n <= Len(s) /\ Len(s) \in Nat /\ DOMAIN order = 1 .. n
      /\ \A j \in 1 .. n : order[j] = s[j]
  BY RoomType DEF Prefix
<1>2. n \in Int /\ 1 \in Int
  BY <1>1
<1>3. IsFiniteSet(1 .. n) /\ Cardinality(1 .. n) = n
  <2> HIDE DEF n
  <2>1. IsFiniteSet(1 .. n) /\ Cardinality(1 .. n) = IF 1 > n THEN 0 ELSE n - 1 + 1
    BY <1>2, FS_Interval
  <2> QED  BY <1>1, <2>1
<1>4. f \in Bijection(1 .. n, ToSet(order))
  <2>1. ToSet(order) = {order[j] : j \in 1 .. n}
    BY <1>1 DEF ToSet
  <2>2. \A i, j \in 1 .. n : f[i] = f[j] => i = j
    BY <1>1 DEF Prefix, Distinct
  <2> HIDE DEF n
  <2>3. f \in [1 .. n -> ToSet(order)]
    BY <2>1
  <2>4. \A y \in ToSet(order) : \E j \in 1 .. n : f[j] = y
    BY <2>1
  <2> HIDE DEF f
  <2> QED  BY <2>2, <2>3, <2>4 DEF Bijection, Injection, Surjection, IsInjective
<1>5. ExistsBijection(1 .. n, ToSet(order))
  BY <1>4 DEF ExistsBijection
<1> HIDE DEF n
<1>6. IsFiniteSet(ToSet(order)) /\ Cardinality(ToSet(order)) = Cardinality(1 .. n)
  BY <1>3, <1>5, FS_Bijection
<1> QED  BY <1>3, <1>6 DEF n

(***************************************************************************)
(* get of a key that is held.                                              *)
(***************************************************************************)
LEMMA GetHolds ==
  ASSUME NEW c, NEW s, Holds(c, s), NEW k \in Number, k \in DOMAIN c.map
  PROVE  Prefix(MoveToFront(c.order, k), MoveToFront(s, k)) /\ ToSet(MoveToFront(c.order, k)) = ToSet(c.order)
<1> DEFINE o == c.order
           t == MoveToFront(s, k)
           q == MoveToFront(o, k)
<1>1. Prefix(o, s) /\ o \in Seq(Number) /\ s \in Seq(Number) /\ Distinct(s) /\ k \in ToSet(o)
  BY DEF Holds, Prefix
<1>2. /\ Len(o) \in Nat /\ Len(s) \in Nat /\ Len(o) <= Len(s)
      /\ Len(o) = IF Room < Len(s) THEN Room ELSE Len(s)
      /\ \A j \in 1 .. Len(o) : o[j] = s[j]
  BY <1>1, RoomType DEF Prefix
<1>3. PICK i \in 1 .. Len(o) : o[i] = k
  BY <1>1 DEF ToSet
<1>4. OnlyAt(s, k, i) /\ OnlyAt(o, k, i)
  BY <1>1, <1>2, <1>3 DEF OnlyAt, Distinct
<1>5. Moved(t, s, k, i) /\ Moved(q, o, k, i)
  BY <1>1, <1>4, MovedToFront
<1>6. Distinct(t)
  BY <1>1, <1>4, <1>5, MovedDistinct
<1> HIDE DEF o, t, q
<1>7. Len(t) = Len(s) /\ Len(q) = Len(o) /\ t \in Seq(Number) /\ q \in Seq(Number)
  BY <1>2, <1>3, <1>5 DEF Moved
<1>8. \A j \in 1 .. Len(o) :
         /\ q[j] = IF j = 1 THEN k ELSE IF j <= i THEN o[j - 1] ELSE o[j]
         /\ t[j] = IF j = 1 THEN k ELSE IF j <= i THEN s[j - 1] ELSE s[j]
  BY <1>2, <1>5, <1>7 DEF Moved
<1>9. \A j \in 1 .. Len(q) : q[j] = t[j]
  <2> SUFFICES ASSUME NEW j \in 1 .. Len(o) PROVE q[j] = t[j]
    BY <1>7
  <2>1. CASE j = 1
    BY <1>8, <2>1
  <2>2. CASE j # 1 /\ j <= i
    <3>1. j - 1 \in 1 .. Len(o) /\ q[j] = o[j - 1] /\ t[j] = s[j - 1]
      BY <1>2, <1>8, <2>2
    <3> QED  BY <1>2, <3>1
  <2>3. CASE j # 1 /\ ~ (j <= i)
    BY <1>2, <1>8, <2>3
  <2> QED  BY <2>1, <2>2, <2>3
<1>10. Prefix(q, t)
  BY <1>2, <1>6, <1>7, <1>9 DEF Prefix
<1>11. ToSet(q) = ToSet(o)
  <2>1. DOMAIN q = 1 .. Len(o) /\ DOMAIN o = 1 .. Len(o)
    BY <1>1, <1>7
  <2>2. ASSUME NEW j \in 1 .. Len(o) PROVE \E h \in 1 .. Len(o) : q[j] = o[h]
    <3>1. CASE j = 1
      BY <1>3, <1>8, <3>1
    <3>2. CASE j # 1 /\ j <= i
      BY <1>2, <1>8, <3>2
    <3>3. CASE j # 1 /\ ~ (j <= i)
      BY <1>8, <3>3
    <3> QED  BY <3>1, <3>2, <3>3
  <2>3. ASSUME NEW h \in 1 .. Len(o) PROVE \E j \in 1 .. Len(o) : q[j] = o[h]
    <3>1. CASE h = i
      <4>1. 1 \in 1 .. Len(o)
        BY <1>2
      <4> QED  BY <1>3, <1>8, <3>1, <4>1
    <3>2. CASE h < i
      <4>1. h + 1 \in 1 .. Len(o) /\ h + 1 # 1 /\ h + 1 <= i /\ (h + 1) - 1 = h
        BY <1>2, <1>3, <3>2
      <4>2. q[h + 1] = o[h]
        BY <1>8, <4>1
      <4> QED  BY <4>1, <4>2
    <3>3. CASE h > i
      <4>1. h # 1 /\ ~ (h <= i)
        BY <1>3, <3>3
      <4> QED  BY <1>8, <4>1
    <3> QED  BY <1>2, <1>3, <3>1, <3>2, <3>3
  <2>4. ToSet(q) = {q[j] : j \in 1 .. Len(o)} /\ ToSet(o) = {o[j] : j \in 1 .. Len(o)}
    BY <2>1 DEF ToSet
  <2>5. ToSet(q) \subseteq ToSet(o)
    BY <2>2, <2>4
  <2>6. ToSet(o) \subseteq ToSet(q)
    <3> SUFFICES ASSUME NEW h \in 1 .. Len(o) PROVE o[h] \in ToSet(q)
      BY <2>4
    <3>1. PICK j \in 1 .. Len(o) : q[j] = o[h]
      BY <2>3
    <3> QED  BY <2>4, <3>1
  <2> QED  BY <2>5, <2>6
<1> QED  BY <1>10, <1>11 DEF o, t, q

(***************************************************************************)
(* insert of a key that is not held: the order gives up its last key when  *)
(* it is full, and then there is room for one more.                        *)
(***************************************************************************)
LEMMA InsertNewHolds ==
  ASSUME NEW o, NEW s, Prefix(o, s), NEW k \in Number, ~ (k \in ToSet(o)),
         NEW r \in Seq(Number),
         Len(r) = IF Len(o) = Room THEN Len(o) - 1 ELSE Len(o),
         \A j \in 1 .. Len(r) : r[j] = o[j]
  PROVE  /\ Prefix(MoveToFront(r, k), MoveToFront(s, k))
         /\ ToSet(MoveToFront(r, k)) = ToSet(r) \cup {k}
<1> DEFINE t == MoveToFront(s, k)
           q == MoveToFront(r, k)
<1>1. o \in Seq(Number) /\ s \in Seq(Number) /\ Distinct(s)
  BY DEF Prefix
<1>2. /\ Len(o) \in Nat /\ Len(s) \in Nat /\ Len(r) \in Nat /\ Room \in Nat /\ Room >= 1
      /\ Len(o) <= Len(s) /\ Len(r) <= Len(o)
      /\ Len(o) = IF Room < Len(s) THEN Room ELSE Len(s)
      /\ \A j \in 1 .. Len(o) : o[j] = s[j] /\ o[j] # k
  BY <1>1, RoomType DEF Prefix, ToSet
<1>3. PICK i \in 1 .. Len(s) + 1 : OnlyAt(s, k, i)
  BY <1>1, Position
<1>4. i > Len(o)
  BY <1>2, <1>3 DEF OnlyAt
<1>5. OnlyAt(r, k, Len(r) + 1)
  BY <1>2 DEF OnlyAt
<1>6. Moved(t, s, k, i) /\ Moved(q, r, k, Len(r) + 1)
  BY <1>1, <1>3, <1>5, MovedToFront
<1>7. Distinct(t)
  BY <1>1, <1>3, <1>6, MovedDistinct
<1> HIDE DEF t, q
<1>8. /\ Len(t) = IF i <= Len(s) THEN Len(s) ELSE Len(s) + 1
      /\ Len(q) = Len(r) + 1 /\ t \in Seq(Number) /\ q \in Seq(Number)
  BY <1>2, <1>6 DEF Moved
<1>9. Len(q) = IF Room < Len(t) THEN Room ELSE Len(t)
  <2>1. CASE Room < Len(s)
    BY <1>2, <1>8, <2>1
  <2>2. CASE ~ (Room < Len(s))
    <3>1. Len(o) = Len(s) /\ i = Len(s) + 1
      BY <1>2, <1>3, <1>4, <2>2
    <3> QED  BY <1>2, <1>8, <2>2, <3>1
  <2> QED  BY <2>1, <2>2
<1>10. \A j \in 1 .. Len(q) : q[j] = IF j = 1 THEN k ELSE r[j - 1]
  BY <1>2, <1>6, <1>8 DEF Moved
<1>11. ASSUME NEW j \in 1 .. Len(q) PROVE q[j] = t[j]
  <2>1. j \in 1 .. Len(t)
    BY <1>2, <1>8, <1>9
  <2>2. CASE j = 1
    BY <1>6, <1>10, <2>1, <2>2 DEF Moved
  <2>3. CASE j # 1
    <3>1. j - 1 \in 1 .. Len(r) /\ j - 1 \in 1 .. Len(o) /\ j <= i
      BY <1>2, <1>4, <1>8, <2>3
    <3>2. q[j] = r[j - 1] /\ r[j - 1] = o[j - 1] /\ o[j - 1] = s[j - 1]
      BY <1>2, <1>10, <2>3, <3>1
    <3>3. t[j] = s[j - 1]
      BY <1>6, <2>1, <2>3, <3>1 DEF Moved
    <3> QED  BY <3>2, <3>3
  <2> QED  BY <2>2, <2>3
<1>12. Prefix(q, t)
  BY <1>7, <1>8, <1>9, <1>11 DEF Prefix
<1>13. ToSet(q) = ToSet(r) \cup {k}
  <2>1. /\ ToSet(q) = {q[j] : j \in 1 .. Len(r) + 1}
        /\ ToSet(r) = {r[j] : j \in 1 .. Len(r)}
    BY <1>8 DEF ToSet
  <2>2. ASSUME NEW j \in 1 .. Len(r) + 1 PROVE q[j] \in ToSet(r) \cup {k}
    <3>1. CASE j = 1
      BY <1>8, <1>10, <3>1
    <3>2. CASE j # 1
      <4>1. j - 1 \in 1 .. Len(r) /\ q[j] = r[j - 1]
        BY <1>2, <1>8, <1>10, <3>2
      <4> QED  BY <2>1, <4>1
    <3> QED  BY <3>1, <3>2
  <2>3. ASSUME NEW j \in 1 .. Len(r) PROVE r[j] \in ToSet(q)
    <3>1. j + 1 \in 1 .. Len(r) + 1 /\ j + 1 # 1 /\ (j + 1) - 1 = j
      BY <1>2
    <3>2. q[j + 1] = r[j]
      BY <1>8, <1>10, <3>1
    <3> QED  BY <2>1, <3>1, <3>2
  <2>4. k \in ToSet(q)
    <3>1. 1 \in 1 .. Len(r) + 1
      BY <1>2
    <3>2. q[1] = k
      BY <1>8, <1>10, <3>1
    <3> QED  BY <2>1, <3>1, <3>2
  <2> QED  BY <2>1, <2>2, <2>3, <2>4
<1> QED  BY <1>12, <1>13 DEF t, q

LEMMA InsertHolds ==
  ASSUME NEW c, NEW s, Holds(c, s), NEW k \in Number, NEW v
  PROVE  Holds(LruInsert(c, Capacity, k, v), MoveToFront(s, k))
<1> DEFINE o == c.order
           e == LruEvict(c, Capacity, k)
           q == MoveToFront(e.order, k)
<1>1. Prefix(o, s) /\ DOMAIN c.map = ToSet(o) /\ o \in Seq(Number)
  BY DEF Holds, Prefix
<1>2. Cardinality(DOMAIN c.map) = Len(o) /\ Len(o) \in Nat /\ Len(o) <= Room
  BY <1>1, OrderCount, RoomType DEF Prefix
<1>3. /\ LruInsert(c, Capacity, k, v).order = q
      /\ DOMAIN LruInsert(c, Capacity, k, v).map = DOMAIN e.map \cup {k}
  BY DEF LruInsert, With
<1>4. CASE k \in DOMAIN c.map
  <2>1. e = c
    BY <1>4 DEF LruEvict
  <2>2. Prefix(q, MoveToFront(s, k)) /\ ToSet(q) = ToSet(o)
    BY <1>4, <2>1, GetHolds
  <2>3. DOMAIN e.map \cup {k} = ToSet(o)
    BY <1>1, <1>4, <2>1
  <2> HIDE DEF q, e, o
  <2> QED  BY <1>3, <2>2, <2>3 DEF Holds
<1>5. CASE ~ (k \in DOMAIN c.map)
  <2> DEFINE r == e.order
  <2>1. Len(o) = Room <=> Len(o) >= Capacity /\ o # <<>>
    BY <1>1, <1>2, RoomType DEF Room
  <2>2. /\ r \in Seq(Number)
        /\ Len(r) = IF Len(o) = Room THEN Len(o) - 1 ELSE Len(o)
        /\ \A j \in 1 .. Len(r) : r[j] = o[j]
        /\ DOMAIN e.map = ToSet(r)
    <3>1. CASE Len(o) = Room
      <4>0. Len(o) >= 1
        BY <3>1, RoomType
      <4>1. /\ e.order = SubSeq(o, 1, Len(o) - 1)
            /\ DOMAIN e.map = DOMAIN c.map \ {o[Len(o)]}
        BY <1>2, <1>5, <2>1, <3>1 DEF LruEvict, Front, Last, Without
      <4>2. /\ r \in Seq(Number) /\ Len(r) = Len(o) - 1
            /\ \A j \in 1 .. Len(r) : r[j] = o[j]
        BY <1>1, <1>2, <4>0, <4>1
      <4>3. ToSet(r) = ToSet(o) \ {o[Len(o)]}
        <5> DEFINE n == Len(o)
        <5>1. /\ ToSet(r) = {r[j] : j \in 1 .. n - 1}
              /\ ToSet(o) = {o[j] : j \in 1 .. n}
          BY <1>1, <4>2 DEF ToSet
        <5>2. \A j \in 1 .. n - 1 : r[j] = o[j] /\ j \in 1 .. n /\ o[j] # o[n]
          <6>1. \A i, j \in 1 .. n : o[i] = o[j] => i = j
            BY <1>1, <1>2, RoomType DEF Prefix, Distinct
          <6> QED  BY <1>2, <4>0, <4>2, <6>1
        <5>3. \A j \in 1 .. n : j # n => j \in 1 .. n - 1
          BY <1>2
        <5> HIDE DEF n, r
        <5> QED  BY <5>1, <5>2, <5>3 DEF n
      <4> QED  BY <1>1, <3>1, <4>1, <4>2, <4>3
    <3>2. CASE Len(o) # Room
      <4>1. e = c
        BY <1>2, <2>1, <3>2 DEF LruEvict
      <4> QED  BY <1>1, <3>2, <4>1
    <3> QED  BY <3>1, <3>2
  <2>3. ~ (k \in ToSet(o))
    BY <1>1, <1>5
  <2> HIDE DEF r, o, e
  <2>4. Prefix(MoveToFront(r, k), MoveToFront(s, k)) /\ ToSet(MoveToFront(r, k)) = ToSet(r) \cup {k}
    BY <1>1, <2>2, <2>3, InsertNewHolds
  <2>5. Prefix(q, MoveToFront(s, k)) /\ ToSet(q) = ToSet(r) \cup {k}
    BY <2>4 DEF r
  <2> HIDE DEF q
  <2> QED  BY <1>3, <2>2, <2>5 DEF Holds
<1> QED  BY <1>4, <1>5

(***************************************************************************)
(* The state cache drops its lowest block number when it is full.          *)
(***************************************************************************)
LEMMA StateInsertSmall ==
  ASSUME NEW map, Small(map), NEW n \in Number, NEW v
  PROVE  Small(StateInsert(map, Capacity, n, v))
<1> DEFINE D == DOMAIN map
           E == IF Cardinality(D) >= Capacity /\ D # {} THEN D \ {Min(D)} ELSE D
<1>1. D \subseteq Number /\ IsFiniteSet(D) /\ Cardinality(D) <= Room /\ Cardinality(D) \in Nat
  BY FS_CardinalityType DEF Small
<1>2. DOMAIN StateInsert(map, Capacity, n, v) = E \cup {n}
  BY DEF StateInsert, With, Without
<1> HIDE DEF D
<1>3. D # {} => Min(D) \in D
  <2> SUFFICES ASSUME D # {} PROVE Min(D) \in D
    OBVIOUS
  <2>1. D \subseteq Nat
    BY <1>1 DEF Number
  <2>2. \E x \in D : \A y \in D : x <= y
    BY <2>1, LeastOf
  <2> QED  BY <2>2 DEF Min
<1>4. IsFiniteSet(E) /\ Cardinality(E) + 1 <= Room /\ Cardinality(E) \in Nat /\ E \subseteq Number
  <2>1. CASE Cardinality(D) >= Capacity /\ D # {}
    <3>1. E = D \ {Min(D)}
      BY <2>1
    <3>2. IsFiniteSet(D \ {Min(D)}) /\ Cardinality(D \ {Min(D)}) = Cardinality(D) - 1
      BY <1>1, <1>3, <2>1, FS_RemoveElement
    <3>3. Cardinality(D) # 0
      BY <1>1, <2>1, FS_EmptySet
    <3> HIDE DEF E
    <3> QED  BY <1>1, <3>1, <3>2, <3>3, RoomType
  <2>2. CASE ~ (Cardinality(D) >= Capacity /\ D # {})
    <3>1. E = D
      BY <2>2
    <3>2. D = {} => Cardinality(D) = 0
      BY FS_EmptySet
    <3> HIDE DEF E
    <3> QED  BY <1>1, <2>2, <3>1, <3>2, RoomType DEF Room
  <2> QED  BY <2>1, <2>2
<1> HIDE DEF E
<1>5. IsFiniteSet(E \cup {n})
      /\ Cardinality(E \cup {n}) = IF n \in E THEN Cardinality(E) ELSE Cardinality(E) + 1
  BY <1>4, FS_AddElement
<1> QED  BY <1>2, <1>4, <1>5, RoomType DEF Small

LEMMA CachesEmpty == Holds(EmptyLru, <<>>) /\ Small(EmptyMap)
<1>1. DOMAIN EmptyMap = {} /\ EmptyLru.map = EmptyMap /\ EmptyLru.order = <<>>
  BY DEF EmptyMap, EmptyLru
<1>2. Prefix(<<>>, <<>>)
  BY RoomType DEF Prefix, Distinct
<1>3. ToSet(<<>>) = {}
  BY DEF ToSet
<1> QED  BY <1>1, <1>2, <1>3, RoomType, FS_EmptySet DEF Holds, Small

LEMMA CacheInvNext == CacheInv /\ [Next]_vars => CacheInv'
<1> SUFFICES ASSUME CacheInv, [Next]_vars PROVE CacheInv'
  OBVIOUS
<1>1. CASE UNCHANGED <<lru, used, state_cache>>
  BY <1>1 DEF CacheInv
<1>2. ASSUME NEW k \in Number, CacheGet(k) PROVE CacheInv'
  <2>1. CASE k \in DOMAIN lru.map
    <3>1. /\ lru'.map = lru.map /\ lru'.order = MoveToFront(lru.order, k)
          /\ used' = MoveToFront(used, k) /\ UNCHANGED state_cache
      BY <1>2, <2>1 DEF CacheGet, LruGet
    <3>2. /\ Prefix(MoveToFront(lru.order, k), MoveToFront(used, k))
          /\ ToSet(MoveToFront(lru.order, k)) = ToSet(lru.order)
      BY <2>1, GetHolds DEF CacheInv
    <3>3. DOMAIN lru.map = ToSet(lru.order)
      BY DEF CacheInv, Holds
    <3>4. Holds(lru, used)'
      BY <3>1, <3>2, <3>3 DEF Holds
    <3> QED  BY <3>1, <3>4 DEF CacheInv
  <2>2. CASE ~ (k \in DOMAIN lru.map)
    BY <1>1, <1>2, <2>2 DEF CacheGet, LruGet
  <2> QED  BY <2>1, <2>2
<1>3. ASSUME NEW k \in Number, NEW v \in Value, CacheInsert(k, v) PROVE CacheInv'
  <2>1. /\ lru' = LruInsert(lru, Capacity, k, v) /\ used' = MoveToFront(used, k)
        /\ UNCHANGED state_cache
    BY <1>3 DEF CacheInsert
  <2>2. Holds(LruInsert(lru, Capacity, k, v), MoveToFront(used, k))
    BY InsertHolds DEF CacheInv
  <2> QED  BY <2>1, <2>2 DEF CacheInv
<1>4. CASE CacheClear
  BY <1>4, CachesEmpty DEF CacheClear, LruClear, CacheInv
<1>5. ASSUME NEW n \in Number, NEW v \in Value, StateCacheInsert(n, v) PROVE CacheInv'
  BY <1>5, StateInsertSmall DEF StateCacheInsert, CacheInv
<1>6. CASE CacheStep
  BY <1>2, <1>3, <1>4, <1>5, <1>6 DEF CacheStep
<1>7. CASE Crash
  BY <1>7, CachesEmpty DEF Crash, CacheInv
<1>8. CASE BlockStep \/ StateStep \/ RecordStep \/ MetricStep \/ UNCHANGED vars
  BY <1>1, <1>8 DEF BlockStep, StateStep, RecordStep, MetricStep, cacheVars, vars
<1> QED  BY <1>6, <1>7, <1>8 DEF Next

(***************************************************************************)
(* The LRU cache holds exactly the keys used last (cache.rs), for every    *)
(* capacity, however gets, inserts and clears follow each other, and the   *)
(* state cache never outgrows its limit.                                   *)
(***************************************************************************)
THEOREM StorageLruKeepsMostRecent == Spec => []LruKeepsMostRecent
<1>1. Init => CacheInv
  BY CachesEmpty DEF Init, CacheInv
<1>2. CacheInv => LruKeepsMostRecent
  <2> SUFFICES ASSUME CacheInv PROVE LruKeepsMostRecent
    OBVIOUS
  <2> DEFINE n == Len(used)
             o == lru.order
             m == Min({Room, n})
  <2>1. /\ o \in Seq(Number) /\ used \in Seq(Number) /\ n \in Nat
        /\ Len(o) = IF Room < n THEN Room ELSE n
        /\ \A j \in 1 .. Len(o) : o[j] = used[j]
        /\ DOMAIN lru.map = ToSet(o)
    BY DEF CacheInv, Holds, Prefix
  <2>2. Max({1, Capacity}) = Room
    BY RoomType DEF Max, Room
  <2> HIDE DEF n, o
  <2>3. m = IF Room < n THEN Room ELSE n
    BY <2>1, RoomType DEF Min
  <2>4. m \in Nat /\ m <= n /\ Len(o) = m
    BY <2>1, <2>3, RoomType
  <2> HIDE DEF m
  <2>5. /\ SubSeq(used, 1, m) \in Seq(Number) /\ Len(SubSeq(used, 1, m)) = m
        /\ \A j \in 1 .. m : SubSeq(used, 1, m)[j] = used[j]
    BY <2>1, <2>4 DEF n
  <2>6. o = SubSeq(used, 1, m)
    BY <2>1, <2>4, <2>5
  <2>7. Cardinality(DOMAIN state_cache) <= Room
    BY DEF CacheInv, Small
  <2> QED  BY <2>1, <2>2, <2>6, <2>7 DEF LruKeepsMostRecent, n, o, m
<1> QED  BY <1>1, <1>2, CacheInvNext, PTL DEF Spec
=============================================================================
