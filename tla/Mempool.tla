------------------------------- MODULE Mempool -------------------------------
(***************************************************************************)
(* The transaction pool (crates/blockchain-core/src/mempool.rs).           *)
(*                                                                         *)
(* The pool is one record `pool'.  Its collections are sets of             *)
(* transactions: the price buckets of `pending' and the per-sender nonce   *)
(* maps of `queued' are recovered from the transactions' own fields, with  *)
(* at most one queued transaction in a (sender, nonce) slot.  The methods  *)
(* are operators from a pool to a pool, so that the modules that compose   *)
(* the pool with its callers can use them; the actions apply them.         *)
(***************************************************************************)
EXTENDS Transaction, FiniteSets

CONSTANTS
  Tx,              \* the transactions that may be submitted
  MaxSize,         \* PoolConfig.max_size
  MaxPerAccount,   \* PoolConfig.max_per_account
  MinGasPrice,     \* PoolConfig.min_gas_price
  MaxAge,          \* PoolConfig.max_age
  MaxAdded         \* bound on the accepted submissions between two resets

ASSUME TxAssumption ==
  /\ IsFiniteSet(Tx)
  /\ \A tx \in Tx : IsTransaction(tx)

ASSUME ConfigAssumption ==
  /\ MaxSize \in Nat
  /\ MaxPerAccount \in Nat
  /\ MinGasPrice \in Nat
  /\ MaxAge \in Nat
  /\ MaxAdded \in Nat

VARIABLES
  pool,   \* the TransactionPool
  age     \* seconds since each transaction was last accepted, up to MaxAge + 1

vars == <<pool, age>>

EmptyPool ==
  [pending |-> {}, queued |-> {}, by_hash |-> {},
   by_sender |-> [a \in Address |-> 0],
   pending_count |-> 0, queued_count |-> 0,
   total_transactions |-> 0, total_added |-> 0, total_removed |-> 0]

Monus(m, n) == IF n > m THEN 0 ELSE m - n     \* usize::saturating_sub

From(S, a) == {tx \in S : tx.from = a}

SameSlot(tx, other) == tx.from = other.from /\ tx.nonce = other.nonce

(***************************************************************************)
(* TransactionPool::remove, for every hash of S: a hash that is not in     *)
(* by_hash is skipped, and whatever occupies the (sender, nonce) slot of a *)
(* removed transaction leaves `queued' with it.  The calls commute, so the *)
(* loops over `remove' (remove_included, prune) are one application.       *)
(*                                                                         *)
(* A definition called Mutant... is a plausible mistake in the definition  *)
(* after it, kept to show which property notices it.                       *)
(***************************************************************************)
MutantFreedSlotsNone(p, gone) == {}

FreedSlots(p, gone) == {q \in p.queued : \E tx \in gone : SameSlot(q, tx)}

MutantSenderCountsKept(p, gone) == p.by_sender

SenderCountsAfter(p, gone) ==
  [a \in Address |-> Monus(p.by_sender[a], Cardinality(From(gone, a)))]

MutantPendingCountUnchecked(p, gone) == Monus(p.pending_count, Cardinality(gone))

PendingCountAfter(p, gone) ==
  Monus(p.pending_count, Cardinality(p.pending \cap gone))

RemoveAll(p, S) ==
  LET gone  == S \cap p.by_hash
      freed == FreedSlots(p, gone)
  IN  [pending            |-> p.pending \ gone,
       queued             |-> p.queued \ freed,
       by_hash            |-> p.by_hash \ gone,
       by_sender          |-> SenderCountsAfter(p, gone),
       pending_count      |-> PendingCountAfter(p, gone),
       queued_count       |-> Monus(p.queued_count, Cardinality(freed)),
       total_transactions |-> Cardinality(p.by_hash \ gone),
       total_added        |-> p.total_added,
       total_removed      |-> p.total_removed + Cardinality(gone)]

(***************************************************************************)
(* try_evict_lowest_gas may take any transaction of the cheapest price     *)
(* bucket: the first key of a HashMap.                                     *)
(***************************************************************************)
EvictionCandidates(p) ==
  {tx \in p.pending : \A other \in p.pending : tx.gas_price <= other.gas_price}

(***************************************************************************)
(* The pools `add' may continue with after its size check.  There is none  *)
(* when the pool is full and nothing is pending: PoolFull.                 *)
(***************************************************************************)
MadeRoom(p) ==
  IF Cardinality(p.by_hash) >= MaxSize
  THEN {RemoveAll(p, {victim}) : victim \in EvictionCandidates(p)}
  ELSE {p}

MutantAdmissibleOneMore(p, tx, current_nonce) ==
  /\ p.by_sender[tx.from] <= MaxPerAccount
  /\ tx.gas_price >= MinGasPrice
  /\ tx.nonce >= current_nonce

Admissible(p, tx, current_nonce) ==
  /\ p.by_sender[tx.from] < MaxPerAccount
  /\ tx.gas_price >= MinGasPrice
  /\ tx.nonce >= current_nonce

InsertPending(p, tx) ==
  [pending            |-> p.pending \cup {tx},
   queued             |-> p.queued,
   by_hash            |-> p.by_hash \cup {tx},
   by_sender          |-> [p.by_sender EXCEPT ![tx.from] = @ + 1],
   pending_count      |-> p.pending_count + 1,
   queued_count       |-> p.queued_count,
   total_transactions |-> Cardinality(p.by_hash \cup {tx}),
   total_added        |-> p.total_added + 1,
   total_removed      |-> p.total_removed]

InsertQueued(p, tx) ==
  [pending            |-> p.pending,
   queued             |-> {q \in p.queued : ~SameSlot(q, tx)} \cup {tx},
   by_hash            |-> p.by_hash \cup {tx},
   by_sender          |-> [p.by_sender EXCEPT ![tx.from] = @ + 1],
   pending_count      |-> p.pending_count,
   queued_count       |-> p.queued_count + 1,
   total_transactions |-> Cardinality(p.by_hash \cup {tx}),
   total_added        |-> p.total_added + 1,
   total_removed      |-> p.total_removed]

Insert(p, tx, current_nonce) ==
  IF tx.nonce = current_nonce THEN InsertPending(p, tx) ELSE InsertQueued(p, tx)

(***************************************************************************)
(* TransactionPool::add: the pools it may leave behind when it accepts the *)
(* transaction, and when it rejects it.  The eviction comes before the     *)
(* account, price and nonce checks, so a rejection can have evicted.       *)
(***************************************************************************)
Addable(p, tx) == ValidateBasic(tx) /\ tx \notin p.by_hash

Accepted(p, tx, current_nonce) ==
  {Insert(r, tx, current_nonce) :
     r \in {r \in MadeRoom(p) : Admissible(r, tx, current_nonce)}}

Rejected(p, tx, current_nonce) ==
  {r \in MadeRoom(p) : ~Admissible(r, tx, current_nonce)}

(***************************************************************************)
(* promote_queued: the lowest queued nonce of every sender becomes         *)
(* pending.  The sender's nonce in the world state is not consulted.       *)
(***************************************************************************)
Promotable(p) ==
  {tx \in p.queued : \A other \in From(p.queued, tx.from) : tx.nonce <= other.nonce}

PromoteQueued(p) ==
  LET up == Promotable(p)
  IN  [pending            |-> p.pending \cup up,
       queued             |-> p.queued \ up,
       by_hash            |-> p.by_hash,
       by_sender          |-> p.by_sender,
       pending_count      |-> p.pending_count + Cardinality(up),
       queued_count       |-> Monus(p.queued_count, Cardinality(up)),
       total_transactions |-> p.total_transactions,
       total_added        |-> p.total_added,
       total_removed      |-> p.total_removed]

RemoveIncluded(p, S) == PromoteQueued(RemoveAll(p, S))

MutantExpiredPendingOnly(p) == {tx \in p.pending : age[tx] > MaxAge}

Expired(p) == {tx \in p.pending \cup p.queued : age[tx] > MaxAge}
-----------------------------------------------------------------------------
Init ==
  /\ pool = EmptyPool
  /\ age = [tx \in Tx |-> 0]

Add(tx, current_nonce) ==
  /\ pool.total_added < MaxAdded
  /\ Addable(pool, tx)
  /\ \/ /\ pool' \in Accepted(pool, tx, current_nonce)
        /\ age' = [age EXCEPT ![tx] = 0]
     \/ /\ pool' \in Rejected(pool, tx, current_nonce)
        /\ UNCHANGED age

Remove(tx) ==
  /\ pool' = RemoveAll(pool, {tx})
  /\ UNCHANGED age

Include(S) ==
  /\ pool' = RemoveIncluded(pool, S)
  /\ UNCHANGED age

Prune ==
  /\ pool' = RemoveAll(pool, Expired(pool))
  /\ UNCHANGED age

(***************************************************************************)
(* clear, and the runtime's update_pool_config, which puts a new pool in   *)
(* the place of the old one.                                               *)
(***************************************************************************)
Clear ==
  /\ pool' = EmptyPool
  /\ UNCHANGED age

(***************************************************************************)
(* One second passes.  Ages above MaxAge are all alike to the code.        *)
(***************************************************************************)
Tick ==
  /\ age' = [tx \in Tx |-> IF age[tx] > MaxAge THEN age[tx] ELSE age[tx] + 1]
  /\ UNCHANGED pool

Nonces == {tx.nonce : tx \in Tx} \cup {0}

Next ==
  \/ \E tx \in Tx, n \in Nonces : Add(tx, n)
  \/ \E tx \in Tx : Remove(tx)
  \/ \E S \in SUBSET Tx : Include(S)
  \/ Prune
  \/ Clear
  \/ Tick

Spec == Init /\ [][Next]_vars

(***************************************************************************)
(* The runtime prunes on a ticker in a task of its own                     *)
(* (start_mempool_tasks), so pruning and the clock never stop.             *)
(***************************************************************************)
FairSpec == Spec /\ WF_vars(Prune) /\ WF_vars(Tick)
-----------------------------------------------------------------------------
Pool ==
  [pending : SUBSET Tx, queued : SUBSET Tx, by_hash : SUBSET Tx,
   by_sender : [Address -> Nat],
   pending_count : Nat, queued_count : Nat,
   total_transactions : Nat, total_added : Nat, total_removed : Nat]

(***************************************************************************)
(* The pool and the ages have their types.                                 *)
(***************************************************************************)
TypeOK ==
  /\ pool \in Pool
  /\ age \in [Tx -> 0 .. MaxAge + 1]

(***************************************************************************)
(* Every pending or queued entry can be found by its hash, no transaction  *)
(* is both pending and queued, and a (sender, nonce) slot holds one queued *)
(* transaction: a block producer never takes a transaction that `get' and  *)
(* `remove' do not know, nor the same one twice.                           *)
(***************************************************************************)
Indexed(p) ==
  /\ p.pending \cup p.queued \subseteq p.by_hash
  /\ p.pending \cap p.queued = {}
  /\ \A q, r \in p.queued : SameSlot(q, r) => q = r

EntriesIndexed == Indexed(pool)

(***************************************************************************)
(* by_sender is the exact number of indexed transactions of every sender,  *)
(* through evictions, failed additions, removals and resets, so that the   *)
(* per-account limit neither leaks quota nor is overrun.                   *)
(***************************************************************************)
SenderCounted(p) ==
  \A a \in Address : p.by_sender[a] = Cardinality(From(p.by_hash, a))

SenderCountsExact == SenderCounted(pool)

(***************************************************************************)
(* The limits of PoolConfig hold: max_size for the whole pool and          *)
(* max_per_account for every sender.                                       *)
(***************************************************************************)
Limited(p) ==
  /\ Cardinality(p.by_hash) <= MaxSize
  /\ \A a \in Address : Cardinality(From(p.by_hash, a)) <= MaxPerAccount

LimitsRespected == Limited(pool)

(***************************************************************************)
(* The metrics agree with the collections: pending_count and               *)
(* total_transactions exactly, every added transaction is still there or   *)
(* was removed, and queued_count never falls below the number of queued    *)
(* transactions (so its saturating subtractions never saturate).  It can   *)
(* exceed it: an addition to an occupied slot counts, and adds no entry.   *)
(***************************************************************************)
Metered(p) ==
  /\ p.pending_count = Cardinality(p.pending)
  /\ p.queued_count >= Cardinality(p.queued)
  /\ p.total_transactions = Cardinality(p.by_hash)
  /\ p.total_added = p.total_removed + Cardinality(p.by_hash)

MetricsConsistent == Metered(pool)

(***************************************************************************)
(* No transaction stays pending or queued for ever: the pruning task       *)
(* reaches it wherever promotion has put it.                               *)
(***************************************************************************)
EntriesExpire ==
  \A tx \in Tx :
    tx \in pool.pending \cup pool.queued ~> tx \notin pool.pending \cup pool.queued

(***************************************************************************)
(* What the code does not do.  "Maximum transaction age in seconds"        *)
(* (PoolConfig.max_age): no transaction stays in by_hash for ever.         *)
(***************************************************************************)
TransactionsExpire ==
  \A tx \in Tx : tx \in pool.by_hash ~> tx \notin pool.by_hash
=============================================================================
