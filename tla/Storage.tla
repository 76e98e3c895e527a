------------------------------- MODULE Storage -------------------------------
(***************************************************************************)
(* The persistent store (crates/storage/src/db.rs) and its caches.         *)
(*                                                                         *)
(* Each column family of the RocksDB database is a variable; a WriteBatch  *)
(* is one step and everything a method does between two writes is another, *)
(* since Database takes &self and several threads may be inside it.  A     *)
(* crash loses the calls in progress and the caches, never a write that    *)
(* returned.  A hash stands for what it is the hash of, so the families    *)
(* keyed by block or transaction hash are keyed by the block and the       *)
(* transaction themselves.                                                 *)
(*                                                                         *)
(* The families of blocks, of states, of metrics and of plain records are  *)
(* disjoint and no method touches two of these groups; `scope' picks the   *)
(* group that a behaviour exercises.  The families of the pending pool and *)
(* of the fork history belong to module Node.                              *)
(***************************************************************************)
EXTENDS Cache

CONSTANTS
  Block,         \* the blocks that may be stored: [id, number, transactions]
  Writer,        \* the threads that call store_block
  Value,         \* contents of states, metrics and records
  Record,        \* the keys of the plain families (code, storage, validators)
  MaxNumber,     \* bound on block numbers
  Archive,       \* PruningMode::Archive?
  KeepBlocks,    \* PruningMode::Pruned { keep_blocks }
  Interval,      \* DatabaseConfig.metrics_snapshot_interval
  Hour,          \* the time bucket of the metrics index
  Retention,     \* retention_days * 86400, as prune_old_metrics is called
  MaxTime,       \* bound on the clock
  Capacity,      \* capacity of the LRU and state caches
  None           \* Option::None

Number == 0..MaxNumber
Time   == 0..MaxTime

Transactions == UNION {ToSet(b.transactions) : b \in Block}

ASSUME StoreAssumption ==
  /\ MaxNumber \in Nat /\ KeepBlocks \in Nat /\ Interval \in Nat
  /\ Hour \in Nat \ {0} /\ Retention \in Nat /\ MaxTime \in Nat
  /\ Capacity \in Nat
  /\ Archive \in BOOLEAN
  /\ None \notin Block /\ None \notin Nat /\ None \notin Value
  /\ None \notin Transactions
  /\ \A b \in Block : b.number \in Number /\ b.transactions \in Seq(Transactions)

VARIABLES
  scope,         \* the group of families in use
  blocks,        \* Blocks: the stored blocks
  hashes,        \* BlockHashes: number -> block
  numbers,       \* BlockNumbers: block -> number
  transactions,  \* Transactions: the stored transactions
  receipts,      \* Receipts: transaction -> block number of its receipt
  call,          \* store_block in progress: the block and its next transaction
  done,          \* the blocks for which store_block has returned Ok
  states,        \* State: number -> world state
  saved,         \* the last state stored for each number
  pruning,       \* prune in progress: the next number and where it ends
  horizon,       \* the highest keep_from any prune was called with
  records,       \* ContractCode, ContractStorage, Validators
  metrics,       \* ChainMetrics: number -> snapshot
  by_time,       \* MetricsByTime: <<bucket, number>> -> snapshot
  latest,        \* Meta: latest_block_number
  doomed,        \* prune_old_metrics in progress: the numbers to be deleted
  now,           \* SystemTime, in seconds
  lru,           \* a BlockCache or TransactionCache
  used,          \* the keys of the LRU cache's inserts and hits, latest first
  state_cache    \* a StateCache

blockVars  == <<blocks, hashes, numbers, transactions, receipts, call, done>>
stateVars  == <<states, saved, pruning, horizon>>
metricVars == <<metrics, by_time, latest, doomed, now>>
cacheVars  == <<lru, used, state_cache>>

vars == <<scope, blockVars, stateVars, records, metricVars, cacheVars>>

(***************************************************************************)
(* Database::open creates the column families that are missing.            *)
(***************************************************************************)
Init ==
  /\ scope \in {"blocks", "states", "records", "metrics", "caches"}
  /\ blocks = {}
  /\ hashes = [n \in Number |-> None]
  /\ numbers = [b \in Block |-> None]
  /\ transactions = {}
  /\ receipts = [t \in Transactions |-> None]
  /\ call = [w \in Writer |-> None]
  /\ done = {}
  /\ states = [n \in Number |-> None]
  /\ saved = [n \in Number |-> None]
  /\ pruning = None
  /\ horizon = 0
  /\ records = [r \in Record |-> None]
  /\ metrics = [n \in Number |-> None]
  /\ by_time = EmptyMap
  /\ latest = None
  /\ doomed = None
  /\ now = 0
  /\ lru = EmptyLru
  /\ used = <<>>
  /\ state_cache = EmptyMap

-------------------------------------------------------------------------------
(***************************************************************************)
(* Blocks, transactions and receipts.                                      *)
(***************************************************************************)
GetBlock(b) == IF b \in blocks THEN b ELSE None

GetBlockByNumber(n) ==
  IF hashes[n] = None THEN None ELSE GetBlock(hashes[n])

GetBlockNumber(b) == numbers[b]

GetTransaction(t) == IF t \in transactions THEN t ELSE None

GetReceipt(t) == receipts[t]

(***************************************************************************)
(* The first batch of store_block: the block and its two index entries.  A *)
(* block of a number that is taken replaces the number's entry only.       *)
(***************************************************************************)
PutBlock(b) ==
  /\ blocks' = blocks \cup {b}
  /\ hashes' = [hashes EXCEPT ![b.number] = b]
  /\ numbers' = [numbers EXCEPT ![b] = b.number]

StoreBlock(w, b) ==
  /\ call[w] = None
  /\ PutBlock(b)
  /\ call' = [call EXCEPT ![w] = [block |-> b, next |-> 1]]
  /\ UNCHANGED <<transactions, receipts, done>>

(***************************************************************************)
(* store_transaction: the transaction and a receipt with the number of the *)
(* block that is being stored, in one batch.                               *)
(***************************************************************************)
MutantReceiptForHead(t, n) ==
  /\ transactions' = transactions \cup {t}
  /\ receipts' = [receipts EXCEPT ![t] =
                    CHOOSE m \in Number : /\ hashes[m] # None
                                          /\ \A k \in Number : hashes[k] # None => k <= m]

PutTransaction(t, n) ==
  /\ transactions' = transactions \cup {t}
  /\ receipts' = [receipts EXCEPT ![t] = n]

StoreTransaction(w) ==
  /\ call[w] # None
  /\ call[w].next <= Len(call[w].block.transactions)
  /\ PutTransaction(call[w].block.transactions[call[w].next], call[w].block.number)
  /\ call' = [call EXCEPT ![w].next = @ + 1]
  /\ UNCHANGED <<blocks, hashes, numbers, done>>

MutantReturnedEarly(c) == c.next >= Len(c.block.transactions)

Returned(c) == c.next > Len(c.block.transactions)

StoreReturns(w) ==
  /\ call[w] # None
  /\ Returned(call[w])
  /\ done' = done \cup {call[w].block}
  /\ call' = [call EXCEPT ![w] = None]
  /\ UNCHANGED <<blocks, hashes, numbers, transactions, receipts>>

(***************************************************************************)
(* A write that fails ends the call with an error; the batches before it   *)
(* stay.                                                                   *)
(***************************************************************************)
StoreFails(w) ==
  /\ call[w] # None
  /\ call' = [call EXCEPT ![w] = None]
  /\ UNCHANGED <<blocks, hashes, numbers, transactions, receipts, done>>

BlockStep ==
  /\ scope = "blocks"
  /\ \E w \in Writer : \/ \E b \in Block : StoreBlock(w, b)
                       \/ StoreTransaction(w)
                       \/ StoreReturns(w)
                       \/ StoreFails(w)
  /\ UNCHANGED <<scope, stateVars, records, metricVars, cacheVars>>

-------------------------------------------------------------------------------
(***************************************************************************)
(* World states and their pruning.                                         *)
(***************************************************************************)
StoreState(n, v) ==
  /\ states' = [states EXCEPT ![n] = v]
  /\ saved' = [saved EXCEPT ![n] = v]
  /\ UNCHANGED <<pruning, horizon>>

GetState(n) == states[n]

MutantKeepFromOneMore(current) ==
  IF Archive \/ current < KeepBlocks THEN 0 ELSE current + 1 - KeepBlocks

KeepFrom(current) ==
  IF Archive \/ current < KeepBlocks THEN 0 ELSE current - KeepBlocks

(***************************************************************************)
(* prune deletes the states of 0..keep_from one key at a time.             *)
(***************************************************************************)
PruneBegins(current) ==
  /\ pruning = None
  /\ pruning' = [next |-> 0, keep_from |-> KeepFrom(current)]
  /\ horizon' = IF current > horizon THEN current ELSE horizon
  /\ UNCHANGED <<states, saved>>

PruneDeletes ==
  /\ pruning # None
  /\ pruning.next < pruning.keep_from
  /\ states' = [states EXCEPT ![pruning.next] = None]
  /\ pruning' = [pruning EXCEPT !.next = @ + 1]
  /\ UNCHANGED <<saved, horizon>>

PruneReturns ==
  /\ pruning # None
  /\ pruning.next >= pruning.keep_from
  /\ pruning' = None
  /\ UNCHANGED <<states, saved, horizon>>

StateStep ==
  /\ scope = "states"
  /\ \/ \E n \in Number, v \in Value : StoreState(n, v)
     \/ \E n \in Number : PruneBegins(n)
     \/ PruneDeletes
     \/ PruneReturns
  /\ UNCHANGED <<scope, blockVars, records, metricVars, cacheVars>>

(***************************************************************************)
(* The families that are only ever put to and read from: contract code by  *)
(* address, contract storage by address and slot (a fixed-width key, so    *)
(* two slots never share one), and the validator set under its one key.    *)
(***************************************************************************)
StoreContractCode(r, v)    == records' = [records EXCEPT ![r] = v]
StoreContractStorage(r, v) == records' = [records EXCEPT ![r] = v]
StoreValidatorSet(r, v)    == records' = [records EXCEPT ![r] = v]

RecordStep ==
  /\ scope = "records"
  /\ \E r \in Record, v \in Value :
        \/ r.family = "code"       /\ StoreContractCode(r, v)
        \/ r.family = "storage"    /\ StoreContractStorage(r, v)
        \/ r.family = "validators" /\ StoreValidatorSet(r, v)
  /\ UNCHANGED <<scope, blockVars, stateVars, metricVars, cacheVars>>

-------------------------------------------------------------------------------
(***************************************************************************)
(* Metrics snapshots: a primary entry by block number and one by hour.     *)
(***************************************************************************)
TimeBucket(t) == (t \div Hour) * Hour

Snapshotted(n) == Interval # 0 /\ n % Interval = 0

MutantPutSnapshotByNumber(n, s) ==
  /\ metrics' = [metrics EXCEPT ![n] = s]
  /\ by_time' = IF \E t \in Time : <<t, n>> \in DOMAIN by_time
                THEN by_time ELSE With(by_time, <<TimeBucket(s.timestamp), n>>, s)

PutSnapshot(n, s) ==
  /\ metrics' = [metrics EXCEPT ![n] = s]
  /\ by_time' = With(by_time, <<TimeBucket(s.timestamp), n>>, s)

StoreChainMetrics(n, v) ==
  /\ Snapshotted(n)
  /\ PutSnapshot(n, [block_number |-> n, timestamp |-> now, metrics |-> v])
  /\ UNCHANGED <<latest, doomed, now>>

(***************************************************************************)
(* get_metrics_range: the snapshots there are, in the order of the numbers *)
(* under which they are found.                                             *)
(***************************************************************************)
GetMetricsRange(a, b) == [n \in {n \in a..b : metrics[n] # None} |-> metrics[n]]

UpdateLatestBlockNumber(n) ==
  /\ latest' = n
  /\ UNCHANGED <<metrics, by_time, doomed, now>>

(***************************************************************************)
(* get_latest_metrics looks down from the latest block number, and at the  *)
(* whole family when there is nothing at or below it.                      *)
(***************************************************************************)
GetLatestMetrics ==
  LET kept  == {n \in Number : metrics[n] # None}
      below == {n \in kept : latest # None /\ n <= latest}
  IN  IF below # {} THEN metrics[Max(below)]
      ELSE IF kept # {} THEN metrics[Max(kept)] ELSE None

(***************************************************************************)
(* prune_old_metrics scans a snapshot of the primary family for entries    *)
(* that are too old, and then deletes those keys, whatever they hold by    *)
(* then.  The entries by time stay.                                        *)
(***************************************************************************)
Cutoff == IF now < Retention THEN 0 ELSE now - Retention

PruneScans ==
  /\ doomed = None
  /\ doomed' = {n \in Number : metrics[n] # None /\ metrics[n].timestamp < Cutoff}
  /\ UNCHANGED <<metrics, by_time, latest, now>>

PruneOldMetrics ==
  /\ doomed # None
  /\ metrics' = [n \in Number |-> IF n \in doomed THEN None ELSE metrics[n]]
  /\ doomed' = None
  /\ UNCHANGED <<by_time, latest, now>>

Tick ==
  /\ now < MaxTime
  /\ now' = now + 1
  /\ UNCHANGED <<metrics, by_time, latest, doomed>>

MetricStep ==
  /\ scope = "metrics"
  /\ \/ \E n \in Number, v \in Value : StoreChainMetrics(n, v)
     \/ \E n \in Number : UpdateLatestBlockNumber(n)
     \/ PruneScans
     \/ PruneOldMetrics
     \/ Tick
  /\ UNCHANGED <<scope, blockVars, stateVars, records, cacheVars>>

-------------------------------------------------------------------------------
(***************************************************************************)
(* The caches.  `used' is what an LRU cache is meant to remember: every    *)
(* key inserted or found, the latest first.                                *)
(***************************************************************************)
CacheGet(k) ==
  /\ lru' = LruGet(lru, k)
  /\ used' = IF k \in DOMAIN lru.map THEN MoveToFront(used, k) ELSE used
  /\ UNCHANGED state_cache

CacheInsert(k, v) ==
  /\ lru' = LruInsert(lru, Capacity, k, v)
  /\ used' = MoveToFront(used, k)
  /\ UNCHANGED state_cache

CacheClear ==
  /\ lru' = LruClear(lru)
  /\ used' = <<>>
  /\ UNCHANGED state_cache

StateCacheInsert(n, v) ==
  /\ state_cache' = StateInsert(state_cache, Capacity, n, v)
  /\ UNCHANGED <<lru, used>>

CacheStep ==
  /\ scope = "caches"
  /\ \/ \E k \in Number : CacheGet(k)
     \/ \E k \in Number, v \in Value : CacheInsert(k, v)
     \/ CacheClear
     \/ \E n \in Number, v \in Value : StateCacheInsert(n, v)
  /\ UNCHANGED <<scope, blockVars, stateVars, records, metricVars>>

-------------------------------------------------------------------------------
(***************************************************************************)
(* The process dies and the database is opened again.                      *)
(***************************************************************************)
Crash ==
  /\ call' = [w \in Writer |-> None]
  /\ pruning' = None
  /\ doomed' = None
  /\ lru' = EmptyLru
  /\ used' = <<>>
  /\ state_cache' = EmptyMap
  /\ UNCHANGED <<scope, blocks, hashes, numbers, transactions, receipts, done,
                 states, saved, horizon, records, metrics, by_time, latest, now>>

Next ==
  \/ BlockStep
  \/ StateStep
  \/ RecordStep
  \/ MetricStep
  \/ CacheStep
  \/ Crash

Spec == Init /\ [][Next]_vars

-------------------------------------------------------------------------------
(***************************************************************************)
(* A receipt can always be followed: its transaction is stored, and so is  *)
(* a block of the receipt's number that contains the transaction, however  *)
(* the calls of store_block interleave, fail or are cut short by a crash.  *)
(***************************************************************************)
ReceiptsTraceable ==
  \A t \in Transactions : GetReceipt(t) # None =>
     /\ GetTransaction(t) # None
     /\ \E b \in blocks : /\ b.number = GetReceipt(t)
                          /\ t \in ToSet(b.transactions)

(***************************************************************************)
(* Once store_block has returned, the block, its number, all of its        *)
(* transactions and receipts for them are found, and its number leads to a *)
(* block of that number, through every crash and every later block.        *)
(***************************************************************************)
AcknowledgedDurable ==
  \A b \in done :
     /\ GetBlock(b) = b
     /\ GetBlockNumber(b) = b.number
     /\ GetBlockByNumber(b.number) # None
     /\ GetBlockByNumber(b.number).number = b.number
     /\ \A t \in ToSet(b.transactions) : /\ GetTransaction(t) # None
                                         /\ GetReceipt(t) # None

(***************************************************************************)
(* Pruning, however often it runs, with whatever block numbers and next to *)
(* whatever stores, keeps the last KeepBlocks states below the highest     *)
(* number it was called with, and in archive mode all of them, as they     *)
(* were stored last.                                                       *)
(***************************************************************************)
RecentStatesKept ==
  \A n \in Number : (Archive \/ n + KeepBlocks >= horizon) => GetState(n) = saved[n]

(***************************************************************************)
(* Every snapshot that a block number leads to is also found, unchanged,   *)
(* under its hour: storing a block's metrics again in a later hour and     *)
(* pruning leave no primary entry without its entry by time.  And          *)
(* get_latest_metrics finds a snapshot whenever there is one, even above   *)
(* the latest block number.                                                *)
(***************************************************************************)
MetricsIndexed ==
  /\ \A n \in Number : metrics[n] # None =>
        LET k == <<TimeBucket(metrics[n].timestamp), n>>
        IN  k \in DOMAIN by_time /\ by_time[k] = metrics[n]
  /\ (GetLatestMetrics = None) <=> (DOMAIN GetMetricsRange(0, MaxNumber) = {})

(***************************************************************************)
(* The LRU cache holds exactly the keys used last, as many as its capacity *)
(* allows (one, if that is 0), in the order of their use, and a StateCache *)
(* never outgrows its limit.                                               *)
(***************************************************************************)
LruKeepsMostRecent ==
  LET room == Max({1, Capacity})
  IN  /\ lru.order = SubSeq(used, 1, Min({room, Len(used)}))
      /\ DOMAIN lru.map = ToSet(lru.order)
      /\ Cardinality(DOMAIN state_cache) <= room

==============================================================================
