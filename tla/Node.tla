-------------------------------- MODULE Node ---------------------------------
(***************************************************************************)
(* The node runtime (crates/node/src/runtime.rs) with the parts it joins:  *)
(* the transaction pool (module Mempool), the chain, of which only the     *)
(* height and the senders' nonces matter here (module Chain has the rest), *)
(* the column families of the pending transactions and of the fork history *)
(* (crates/storage/src/db.rs) and the RPC methods that use them            *)
(* (crates/rpc/src/methods.rs).                                            *)
(*                                                                         *)
(* Every lock is held for one step.  A method that takes two locks one     *)
(* after the other, or a lock and then the database, is two steps with its *)
(* local variables kept in between; any task may run there.  A crash loses *)
(* the pool, the chain (a node starts from genesis and never reads a block *)
(* back) and every method in progress.                                     *)
(*                                                                         *)
(* Block production and persistence both read the pool and have nothing    *)
(* else in common, and the fork history has nothing in common with either: *)
(* `scope' picks which of the three a behaviour exercises.                 *)
(***************************************************************************)
EXTENDS Transaction, Sequences, SequencesExt, FiniteSetsExt

CONSTANTS
  Tx, MaxSize, MaxPerAccount, MinGasPrice, MaxAge, MaxAdded,  \* see Mempool
  Raw,            \* the transactions sent by kai_sendRawTransaction
  Client,         \* concurrent callers of submit_transaction
  BlockGasLimit,  \* block_gas_limit of produce_block
  MaxTxCount,     \* max_tx_count of produce_block
  PersistLimit,   \* how many transactions the persistence task reads
  Retention,      \* fork_history_retention_days, in seconds
  Recent,         \* recent_days of compact_fork_history, in seconds
  Threshold,      \* reorg_depth_threshold of compact_fork_history
  MaxFailures,    \* bound on failing writes of the persistence task
  MaxHeight,      \* bound on the chain's height
  MaxTime,        \* bound on the clock
  None            \* Option::None

ASSUME NodeAssumption ==
  /\ IsFiniteSet(Tx) /\ Raw \subseteq Tx
  /\ \A tx \in Tx : IsTransaction(tx)
  /\ BlockGasLimit \in Nat /\ MaxTxCount \in Nat /\ PersistLimit \in Nat
  /\ Retention \in Nat /\ Recent \in Nat /\ Threshold \in Nat
  /\ MaxFailures \in Nat /\ MaxHeight \in Nat /\ MaxTime \in Nat
  /\ None \notin Nat /\ None \notin Seq(Tx)

VARIABLES
  scope,         \* "production", "persistence" or "forks"
  pool, age,     \* the TransactionPool and the age of its entries
  nonces,        \* the senders' nonces in the chain's state
  height,        \* the number of the chain's head
  submitting,    \* submit_transaction in progress: transaction and nonce read
  selecting,     \* produce_block in progress: the transactions selected
  proposal,      \* the block produce_block returned last
  persisting,    \* the persistence task: the transactions read from the pool
  failures,      \* writes of the persistence task that failed
  pending,       \* PendingTransactions: transaction -> added_timestamp
  acked,         \* when a transaction was last acknowledged as stored
  clearing,      \* clear_pending_transactions in progress: the keys to delete
  fork_history,  \* ForkHistory: <<timestamp, fork_point>> -> StoredForkEvent
  recorded,      \* the last event recorded under each of these keys
  compacting,    \* compact_fork_history in progress: the keys to delete
  fork_choice,   \* the fork resolver's strategy
  now            \* SystemTime

chainVars   == <<nonces, height>>
poolVars    == <<pool, age>>
blockVars   == <<selecting, proposal>>
persistVars == <<persisting, failures>>
storeVars   == <<pending, acked, clearing>>
forkVars    == <<fork_history, recorded, compacting, fork_choice>>

vars == <<scope, chainVars, poolVars, submitting, blockVars, persistVars,
          storeVars, forkVars, now>>

P == INSTANCE Mempool

-------------------------------------------------------------------------------
(***************************************************************************)
(* TransactionPool::get_pending: the pending transactions from the dearest *)
(* price bucket down, in any order inside a bucket; one that would exceed  *)
(* the gas is skipped, and the walk ends when enough are taken.  The total *)
(* is a u64 that wraps around in a release build, and nothing bounds the   *)
(* gas_limit of a transaction.                                             *)
(***************************************************************************)
Walks(p) ==
  {s \in SetToSeqs(p.pending) :
     \A i, j \in DOMAIN s : i < j => s[i].gas_price >= s[j].gas_price}

GasOf(s, n) ==
  SumFunctionOnSet([i \in DOMAIN s |-> s[i].gas_limit], 1..n) % U64

MutantFitsExactly(total, gas, max_gas) == (total + gas) % U64 < max_gas

Fits(total, gas, max_gas) == (total + gas) % U64 <= max_gas

Taken(taken, tx, max_gas, max_count) ==
  IF Fits(GasOf(taken, Len(taken)), tx.gas_limit, max_gas) /\ Len(taken) < max_count
  THEN Append(taken, tx) ELSE taken

Selected(walk, max_gas, max_count) ==
  LET taken[i \in 0..Len(walk)] ==
        IF i = 0 THEN <<>> ELSE Taken(taken[i - 1], walk[i], max_gas, max_count)
  IN  taken[Len(walk)]

GetPending(p, max_gas, max_count) ==
  {Selected(walk, max_gas, max_count) : walk \in Walks(p)}

-------------------------------------------------------------------------------
(***************************************************************************)
(* The families of the pending transactions.  store_pending_transactions   *)
(* adds to what is stored, in one batch, with the present time as the      *)
(* timestamp; load_pending_transactions drops what is too old.             *)
(***************************************************************************)
MutantStorePendingReplaces(S) ==
  pending' = [tx \in Tx |-> IF tx \in S THEN now ELSE None]

StorePendingTransactions(S) ==
  pending' = [tx \in Tx |-> IF tx \in S THEN now ELSE pending[tx]]

LoadPendingTransactions ==
  {tx \in Tx : pending[tx] # None /\ now - pending[tx] < Retention}

-------------------------------------------------------------------------------
(***************************************************************************)
(* Node::new, on an empty database.                                        *)
(***************************************************************************)
Init ==
  /\ pool = P!EmptyPool
  /\ age = [tx \in Tx |-> 0]
  /\ nonces = [a \in Address |-> 0]
  /\ height = 0
  /\ submitting = [c \in Client |-> None]
  /\ selecting = None
  /\ proposal = None
  /\ persisting = None
  /\ compacting = None
  /\ fork_choice = "LongestChain"
  /\ scope \in {"production", "persistence", "forks"}
  /\ failures = 0
  /\ pending = [tx \in Tx |-> None]
  /\ acked = [tx \in Tx |-> None]
  /\ clearing = None
  /\ fork_history = [k \in {} |-> None]
  /\ recorded = [k \in {} |-> None]
  /\ now = 0

(***************************************************************************)
(* submit_transaction.  The chain's lock is released before the pool's is  *)
(* taken, and the nonce is not read again.                                 *)
(***************************************************************************)
MutantExpectedNonceAny(tx, nonce) == tx.nonce >= nonce

ExpectedNonce(tx, nonce) == tx.nonce = nonce

SubmitReads(c, tx) ==
  /\ submitting[c] = None
  /\ ValidateBasic(tx)
  /\ ExpectedNonce(tx, nonces[tx.from])
  /\ submitting' = [submitting EXCEPT ![c] = [tx |-> tx, nonce |-> nonces[tx.from]]]
  /\ UNCHANGED <<scope, chainVars, poolVars, blockVars, persistVars, storeVars, forkVars, now>>

SubmitAdds(c) ==
  /\ submitting[c] # None
  /\ pool.total_added < MaxAdded
  /\ LET tx == submitting[c].tx
         n  == submitting[c].nonce
     IN  \/ /\ P!Addable(pool, tx)
            /\ pool' \in P!Accepted(pool, tx, n)
            /\ age' = [age EXCEPT ![tx] = 0]
         \/ /\ P!Addable(pool, tx)
            /\ pool' \in P!Rejected(pool, tx, n)
            /\ UNCHANGED age
         \/ /\ ~P!Addable(pool, tx)
            /\ UNCHANGED poolVars
  /\ submitting' = [submitting EXCEPT ![c] = None]
  /\ UNCHANGED <<scope, chainVars, blockVars, persistVars, storeVars, forkVars, now>>

(***************************************************************************)
(* produce_block: the transactions come from the pool first, the parent    *)
(* from the chain after that.  The pool keeps them.  A proposal is applied *)
(* before the next one is produced.                                        *)
(***************************************************************************)
ProduceSelects ==
  /\ selecting = None
  /\ proposal = None
  /\ \E txs \in GetPending(pool, BlockGasLimit, MaxTxCount) :
        selecting' = [transactions |-> txs, offered |-> pool.pending]
  /\ UNCHANGED <<scope, chainVars, poolVars, submitting, proposal, persistVars, storeVars, forkVars, now>>

ProduceBuilds ==
  /\ selecting # None
  /\ proposal' = [number |-> height + 1, transactions |-> selecting.transactions]
  /\ selecting' = None
  /\ UNCHANGED <<scope, chainVars, poolVars, submitting, persistVars, storeVars, forkVars, now>>

(***************************************************************************)
(* The owner of the node applies a block to `blockchain()': one that was   *)
(* produced here or one from elsewhere.  Its transactions execute in order *)
(* up to the first that the chain refuses (for its nonce, or for a balance *)
(* that is not modelled here); their effects stay whether or not the block *)
(* itself is then accepted, which depends on its state root.  The pool is  *)
(* not told.                                                               *)
(***************************************************************************)
Executable(txs) ==
  \A i \in DOMAIN txs :
     txs[i].nonce = nonces[txs[i].from] + Cardinality({j \in 1..(i - 1) : txs[j].from = txs[i].from})

BlockApplied(txs) ==
  /\ \E k \in 0..Len(txs) :
        /\ Executable(SubSeq(txs, 1, k))
        /\ nonces' = [a \in Address |->
                        nonces[a] + Cardinality({i \in 1..k : txs[i].from = a})]
  /\ height' \in {height, height + 1} \cap 0..MaxHeight
  /\ UNCHANGED <<scope, poolVars, submitting, selecting, persistVars, storeVars, forkVars, now>>

ApplyProposal ==
  /\ proposal # None
  /\ BlockApplied(proposal.transactions)
  /\ proposal' = None

ApplyForeign(tx) == BlockApplied(<<tx>>) /\ UNCHANGED proposal

(***************************************************************************)
(* The background tasks of the pool: pruning, and persistence, which reads *)
(* the pool and then writes to the database.  A write that fails is logged *)
(* and the task goes on.                                                   *)
(***************************************************************************)
PruneTask ==
  /\ pool' = P!RemoveAll(pool, P!Expired(pool))
  /\ UNCHANGED <<scope, chainVars, age, submitting, blockVars, persistVars, storeVars, forkVars, now>>

MutantPersistOne(p) == GetPending(p, U64 - 1, 1)

ToPersist(p) == GetPending(p, U64 - 1, PersistLimit)

PersistReads ==
  /\ persisting = None
  /\ persisting' \in ToPersist(pool)
  /\ UNCHANGED <<scope, chainVars, poolVars, submitting, blockVars, failures, storeVars, forkVars, now>>

PersistStores ==
  /\ persisting # None
  /\ StorePendingTransactions(ToSet(persisting))
  /\ persisting' = None
  /\ UNCHANGED <<scope, chainVars, poolVars, submitting, blockVars, failures, acked, clearing,
                 forkVars, now>>

PersistFails ==
  /\ persisting # None
  /\ failures < MaxFailures
  /\ failures' = failures + 1
  /\ persisting' = None
  /\ UNCHANGED <<scope, chainVars, poolVars, submitting, blockVars, storeVars, forkVars, now>>

(***************************************************************************)
(* kai_sendRawTransaction stores the transaction and acknowledges it; the  *)
(* pool never sees it.                                                     *)
(***************************************************************************)
SendRawTransaction(tx) ==
  /\ ValidateBasic(tx)
  /\ StorePendingTransactions({tx})
  /\ acked' = [acked EXCEPT ![tx] = now]
  /\ UNCHANGED <<scope, chainVars, poolVars, submitting, blockVars, persistVars, clearing,
                 forkVars, now>>

(***************************************************************************)
(* clear_pending_transactions collects the keys there are and then deletes *)
(* them in one batch, the ones that were stored again meanwhile too.       *)
(***************************************************************************)
ClearScans ==
  /\ clearing = None
  /\ clearing' = {tx \in Tx : pending[tx] # None}
  /\ UNCHANGED <<scope, chainVars, poolVars, submitting, blockVars, persistVars, pending, acked,
                 forkVars, now>>

ClearPendingTransactions ==
  /\ clearing # None
  /\ pending' = [tx \in Tx |-> IF tx \in clearing THEN None ELSE pending[tx]]
  /\ acked' = [tx \in Tx |-> IF tx \in clearing THEN None ELSE acked[tx]]
  /\ clearing' = None
  /\ UNCHANGED <<scope, chainVars, poolVars, submitting, blockVars, persistVars, forkVars, now>>

(***************************************************************************)
(* update_pool_config puts a new pool in the place of the old one.         *)
(***************************************************************************)
UpdatePoolConfig ==
  /\ pool' = P!EmptyPool
  /\ UNCHANGED <<scope, chainVars, age, submitting, blockVars, persistVars, storeVars, forkVars, now>>

PoolStep ==
  /\ scope \in {"production", "persistence"}
  /\ \/ \E c \in Client, tx \in Tx : SubmitReads(c, tx)
     \/ \E c \in Client : SubmitAdds(c)

ProductionStep ==
  /\ scope = "production"
  /\ \/ ProduceSelects
     \/ ProduceBuilds
     \/ ApplyProposal
     \/ \E tx \in Tx : ApplyForeign(tx)

PersistTask ==
  /\ scope = "persistence"
  /\ PersistReads \/ PersistStores

PersistenceStep ==
  /\ scope = "persistence"
  /\ \/ PruneTask
     \/ PersistFails
     \/ \E tx \in Raw : SendRawTransaction(tx)
     \/ ClearScans
     \/ ClearPendingTransactions
     \/ UpdatePoolConfig

-------------------------------------------------------------------------------
(***************************************************************************)
(* handle_incoming_block records a fork when the block's parent is not the *)
(* head; it never adds the block.  Two forks in the same second at the     *)
(* same head have one key.                                                 *)
(***************************************************************************)
StoreForkEvent(point, depth) ==
  LET k == <<now, point>>
      e == [fork_point |-> point, reorg_depth |-> depth, timestamp |-> now]
  IN  /\ fork_history' = [x \in DOMAIN fork_history \cup {k} |->
                            IF x = k THEN e ELSE fork_history[x]]
      /\ recorded' = [x \in DOMAIN recorded \cup {k} |->
                        IF x = k THEN e ELSE recorded[x]]

HandleIncomingBlock(parent) ==
  /\ parent # height
  /\ StoreForkEvent(height, 1)
  /\ UNCHANGED <<height, compacting, fork_choice>>

(***************************************************************************)
(* get_fork_history and get_fork_statistics, as far as the fork monitor    *)
(* and kai_forkHistory use them.                                           *)
(***************************************************************************)
GetForkHistory(cutoff) == {fork_history[k] : k \in {k \in DOMAIN fork_history : k[1] >= cutoff}}

TotalForks == Cardinality(GetForkHistory(0))

(***************************************************************************)
(* compact_fork_history scans for events that are neither recent nor deep, *)
(* and then deletes their keys.                                            *)
(***************************************************************************)
Cutoff == IF now < Recent THEN 0 ELSE now - Recent

MutantInsignificantEither(e) == e.timestamp < Cutoff \/ e.reorg_depth <= Threshold

Insignificant(e) == e.timestamp < Cutoff /\ e.reorg_depth <= Threshold

CompactScans ==
  /\ compacting = None
  /\ compacting' = {k \in DOMAIN fork_history : Insignificant(fork_history[k])}
  /\ UNCHANGED <<height, fork_history, recorded, fork_choice>>

CompactDeletes ==
  /\ compacting # None
  /\ fork_history' = [k \in DOMAIN fork_history \ compacting |-> fork_history[k]]
  /\ compacting' = None
  /\ UNCHANGED <<height, recorded, fork_choice>>

HeadMoves ==
  /\ height < MaxHeight
  /\ height' = height + 1
  /\ UNCHANGED forkVars

UpdateForkChoice(strategy) ==
  /\ fork_choice' = IF strategy \in {"HeaviestChain", "LatestJustified"}
                    THEN strategy ELSE "LongestChain"
  /\ UNCHANGED <<height, fork_history, recorded, compacting>>

ForkStep ==
  /\ scope = "forks"
  /\ \/ \E parent \in 0..MaxHeight : HandleIncomingBlock(parent)
     \/ CompactScans
     \/ CompactDeletes
     \/ HeadMoves
     \/ \E s \in {"HeaviestChain", "LatestJustified", "other"} : UpdateForkChoice(s)
  /\ UNCHANGED <<scope, nonces, poolVars, submitting, blockVars, persistVars, storeVars, now>>

-------------------------------------------------------------------------------
(***************************************************************************)
(* A second passes.  Block production does not look at the clock.          *)
(***************************************************************************)
Tick ==
  /\ scope # "production"
  /\ now < MaxTime
  /\ now' = now + 1
  /\ age' = [tx \in Tx |-> IF age[tx] > MaxAge THEN age[tx] ELSE age[tx] + 1]
  /\ UNCHANGED <<scope, chainVars, pool, submitting, blockVars, persistVars, storeVars, forkVars>>

(***************************************************************************)
(* The process dies, and Node::new finds the database as it was.           *)
(***************************************************************************)
Crash ==
  /\ pool' = P!EmptyPool
  /\ age' = [tx \in Tx |-> 0]
  /\ nonces' = [a \in Address |-> 0]
  /\ height' = 0
  /\ submitting' = [c \in Client |-> None]
  /\ selecting' = None
  /\ proposal' = None
  /\ persisting' = None
  /\ clearing' = None
  /\ compacting' = None
  /\ fork_choice' = "LongestChain"
  /\ UNCHANGED <<scope, failures, pending, acked, fork_history, recorded, now>>

Next ==
  \/ PoolStep
  \/ ProductionStep
  \/ PersistTask
  \/ PersistenceStep
  \/ ForkStep
  \/ Tick
  \/ Crash

Spec == Init /\ [][Next]_vars

(***************************************************************************)
(* The persistence task runs on a ticker of its own for as long as the     *)
(* node does, and a write that does not fail completes.                    *)
(***************************************************************************)
FairSpec == Spec /\ WF_vars(PersistTask)

-------------------------------------------------------------------------------
(***************************************************************************)
(* Whatever blocks execute between the two locks of submit_transaction, no *)
(* transaction of the pool is ahead of its sender: its nonce was the       *)
(* sender's once, so nothing is ever queued and block production never     *)
(* selects a transaction that has to wait for another.                     *)
(***************************************************************************)
PoolNeverAhead ==
  /\ pool.queued = {}
  /\ \A tx \in pool.by_hash : tx.nonce <= nonces[tx.from]

(***************************************************************************)
(* A greedy choice among the transactions that were offered: one that is   *)
(* left out did not fit behind the first n selected, where its price       *)
(* belongs.                                                                *)
(***************************************************************************)
Place(s, tx, n) ==
  /\ \A i \in 1..n : s[i].gas_price >= tx.gas_price
  /\ \A i \in (n + 1)..Len(s) : s[i].gas_price <= tx.gas_price

Greedy(s, offered, max_gas, max_count) ==
  /\ Len(s) <= max_count
  /\ IsInjective(s)
  /\ \A i, j \in DOMAIN s : i < j => s[i].gas_price >= s[j].gas_price
  /\ \A n \in DOMAIN s : GasOf(s, n) <= max_gas
  /\ \A tx \in offered \ ToSet(s) :
        \/ Len(s) = max_count
        \/ \E n \in 0..Len(s) :
              Place(s, tx, n) /\ (GasOf(s, n) + tx.gas_limit) % U64 > max_gas

(***************************************************************************)
(* What produce_block selects is ordered by price without repetition, and  *)
(* its gas, as the u64 totals of get_pending, of the recheck in            *)
(* produce_block and of gas_used in the header count it, stays within the  *)
(* block's limit after every transaction, so that the header passes its    *)
(* own validation; a transaction of the pool is left out only when the     *)
(* count is reached or when it did not fit where its price belongs.  These *)
(* totals are the real gas as long as the limits that were added up stay   *)
(* below 2^64: beyond, they wrap around and the block holds more gas than  *)
(* its limit.                                                              *)
(***************************************************************************)
SelectionGreedy ==
  selecting # None =>
    Greedy(selecting.transactions, selecting.offered, BlockGasLimit, MaxTxCount)

(***************************************************************************)
(* A transaction that kai_sendRawTransaction acknowledged is loaded again  *)
(* after any number of crashes and whatever the persistence task writes,   *)
(* until a clear deletes it or it is older than the retention.             *)
(***************************************************************************)
AcknowledgedSurvives ==
  \A tx \in Tx : (acked[tx] # None /\ now - acked[tx] < Retention)
                   => tx \in LoadPendingTransactions

(***************************************************************************)
(* Compaction running next to the recording of forks deletes no event that *)
(* is recent or deep, and keeps the events as they were recorded.          *)
(***************************************************************************)
SignificantForksKept ==
  LET kept == {k \in DOMAIN recorded : \/ recorded[k].timestamp + Recent >= now
                                       \/ recorded[k].reorg_depth > Threshold}
  IN  /\ \A k \in kept : /\ k \in DOMAIN fork_history
                          /\ fork_history[k] = recorded[k]
      /\ TotalForks >= Cardinality(kept)

(***************************************************************************)
(* Every pending transaction is written to the database some time, unless  *)
(* it leaves the pool before: no price and no neighbour keeps it out.  The *)
(* task has to read as many transactions as the pool may hold.             *)
(***************************************************************************)
PersistedEventually ==
  \A tx \in Tx :
    scope = "persistence" /\ tx \in pool.pending
      ~> pending[tx] # None \/ tx \notin pool.pending

==============================================================================
