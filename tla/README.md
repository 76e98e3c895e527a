# A TLA+ verification project for Kainotes

Kainotes is a blockchain written in Rust: crates under `src/crates/`, a node that
puts some of them together, and no running network yet. This directory holds
TLA+ models of its core (the transaction pool, the world state with its undo
journal, the chain, the fork resolver, the consensus engine), of what surrounds
the core (the node runtime, the network service, the store) and of the services
beside it (liquidity, minting, contracts), configurations that model-check them
with TLC, and proofs that TLAPS checks.

`PROJECT.json` is the index: components, runs, the map from every definition to
the lines it models, the hazards the properties are for, the mutants that show
what each property notices, and the theorems.

Run a model with `tlc -config MC_Chain_Execution.cfg MC_Chain`; check proofs with
`tlapm Chain_proofs.tla`.

## 1. The system

| component | source (`src/crates/...`) | state | operations | module |
|---|---|---|---|---|
| transactions | `blockchain-core/src/transaction.rs` | none | `validate_basic`, fees | `Transaction` |
| transaction pool | `blockchain-core/src/mempool.rs` | price buckets, nonce queues, hash index, per-sender counts, metrics | `add`, `remove`, `remove_included`, `promote_queued`, `prune`, `clear` | `Mempool` |
| world state | `blockchain-core/src/state.rs` | accounts, stack of undo records | account operations, `transfer`, `checkpoint`, `commit`, `rollback` | `WorldState`, `StateJournal` |
| chain | `blockchain-core/src/chain.rs`, `block.rs` | blocks by hash, index by number, head, world state, receipts | `add_block`, `execute_transaction`, `add_block_with_execution`, `state_mut`, `verify_chain` | `Chain` |
| fork resolver | `blockchain-core/src/fork.rs` | fork history | `find_common_ancestor`, `calculate_reorg_path`, `choose_chain`, `record_fork` | `ForkResolver`, `Consensus` |
| validators | `consensus/src/validator.rs`, `slashing.rs`, `selection.rs` | validator set, offense counts, penalties, insurance fund | register, stake, unbond, uptime, slash, select | `Validators`, `Consensus` |
| consensus engine | `consensus/src/poas.rs` | checkpoints, fork metrics and the two above | `validate_block`, `finalize_block`, `produce_block`, `update_justified_checkpoint`, `apply_reorg` | `Consensus` |
| node runtime | `node/src/runtime.rs` | pool, chain, engine behind locks; tasks | `submit_transaction`, `produce_block`, pool and persistence tasks | `Node` |
| networking | `networking/src/p2p.rs`, `peer.rs` | peers and reputations, seen set, peers in synchronisation, outbox | message handlers, gossip, peer management | `Network` |
| storage | `storage/src/db.rs`, `cache.rs` | RocksDB column families, caches | `store_block`, states, metrics, pending pool, fork history, pruning | `Storage`, `Cache`, `Node` |
| liquidity | `liquidity/src/` | pools, market, loans, grants, deployments | deposit, withdraw, swap, lend, disburse, deploy | `LiquidityPool`, `AMM`, `Lending`, `Treasury`, `Deployment` |
| tokenomics | `tokenomics/src/` | phase, statistics, supply | announce and execute transitions, mint | `Tokenomics` |
| smart contracts | `smart-contracts/src/` | balances, nonces, contracts | `execute`, `estimate_gas` | `Contracts` |
| rpc | `rpc/src/methods.rs` | none of its own | `kai_sendRawTransaction` writes, the rest reads | `Node` |
| chain metrics, crypto, wallets | `blockchain-core/src/metrics.rs`, `blockchain-crypto`, `wallet*` | | | not modelled |

**How they interact.** The runtime owns the pool, the chain and the engine, each
behind its own lock, and calls them in turn: `submit_transaction` reads a nonce
from the chain and adds to the pool; `produce_block` takes pending transactions
and builds a block; tasks prune and persist the pool on tickers. The chain owns the
world state and brackets every transaction with `checkpoint` and `commit` or
`rollback`. The engine owns the validator set, the slashing manager and a fork
resolver; its caller computes a reorganisation path with the resolver and hands
it to `apply_reorg`, with a callback that persists the event in storage. The RPC
methods share the database with the runtime. The network service has a pool, a
peer manager, a seen set and an outbox, each behind a lock that its message handlers
take. Liquidity, tokenomics and contracts are libraries that no other crate drives yet.

**What is hard.** In the core, which is sequential: long sequences of legal
calls whose bookkeeping must stay in step (pool index, quotas and metrics; the
block index under forks; stakes, funds and penalties), operations that fail half
way (a transaction whose fee cannot be charged, a block whose third transaction
fails, a fork event that cannot be persisted), and boundaries (limits of the
pool, of the reorganisation depth, of the history; 64-bit products and sums). Around the
core: values read under one lock and used under another, handlers that hold one lock
and await the next, crashes between two writes, scans whose deletes come later. In the
services: calls that fail after they changed something, ids that collide within a
second, amounts of any size computed in `f64` from their lowest 64 bits.
`PROJECT.json` lists every hazard at its line.

**What makes each part correct.** The pool never loses track of what it holds
and respects its limits. A rollback restores exactly the checkpointed state. A
transaction is executed all or nothing, once, and creates no amount. The block
index follows the head through forks. A reorganisation path reconnects the
heads. What a checkpoint made final stays, and stakes are bonded, released or
slashed, exactly once. What the store acknowledged survives a crash, and what it
prunes is old. A transaction is forwarded once, to peers that are there, and no
handler waits for ever. A pool can pay what it promised, loans stay within the supply,
a treasury never overdraws a grant, and the second phase of minting comes after its notice.

## 2. The modules

```
Transaction <- Mempool                 <- MC_Mempool         Mempool_proofs
Transaction, WorldState <- Chain       <- MC_Chain         \ Chain_proofs
WorldState <- StateJournal             <- MC_StateJournal  /
                |  implements TransactionalStore
Validators, ForkLimits <- Consensus    <- MC_Consensus     \ Consensus_proofs
ForkLimits <- ForkResolver             <- MC_ForkResolver  /
Cache <- Storage                       <- MC_Storage         Storage_proofs
Mempool (instance) <- Node             <- MC_Node            Node_proofs
Mempool (instance) <- Network          <- MC_Network         Network_proofs
LiquidityPool <- AMM, Lending, Treasury, Deployment \
                      Tokenomics, Contracts         <- Services <- MC_Services   Services_proofs
```

`Sums_proofs` has the lemmas about finite sums and induction that the proofs of the chain,
the engine, the store, the node and the services share.

Methods are operators from a value of a component to a value (`RemoveAll(p, S)`,
`SlashValidator(r, a, condition)`, `Transfer(w, from, to, amount)`), so that a
caller's module can use them inside one of its own steps; actions apply them.
A definition called `Mutant...` is a plausible mistake in the definition that
follows it. It is used by no specification; `PROJECT.json` says which property
catches it.

### Mempool
`pool` is one record with the fields of `TransactionPool`. Buckets and queues are
sets of transactions: price, sender and nonce are fields of the transaction. `age`
replaces the time stamps. `Add` covers the whole of `add`: the eviction comes
before the account, price and nonce checks, so a rejected addition may have
evicted. A full pool evicts *any* transaction of the cheapest bucket, because the
code takes the first key of a `HashMap`. The caller's `current_nonce` is any
nonce, since the pool believes whatever it is told. `Prune`, `Clear` (also the
runtime's `update_pool_config`) and `Include` are the other methods.

### WorldState, StateJournal, TransactionalStore
An account is its nonce, balance, stake and deployed liquidity; `utility_score`,
`code_hash` and `storage_root` are never written by the chain. A state is the
accounts and the stack of undo records; the record at the bottom is the one that
exists outside any checkpoint. `StateJournal` drives the journal with arbitrary
writes; `TransactionalStore` is the abstract promise, a store with a stack of
snapshots, and `ImplementsStore` says the journal keeps it. The journal does so
with one checkpoint at a time (`MaxDepth = 1`), which is how the chain uses it.

### Chain
Hashes are model values, one per distinct block (`HashOf`). A state root is the
accounts it was computed from. Merkle root, gas sum and gas limit are one Boolean
(`sound`) that is free. `add_block_with_execution` is three actions
(`BeginBlock`, `ExecuteNext`, `FinishBlock`), so that every failure in the middle
of a block is a state of its own; nothing else runs in between, as the method has
`&mut self`. `Fund` is the owner writing through `state_mut()`, either bare or
between a checkpoint and a commit (`Funding`). Gas products wrap modulo `U64`.
`executed`, `minted`, `burnt` and `before` are history variables.

### ForkResolver
`Init` takes any tree over the hashes and any two heads in it. Each iteration of the
three loops of `find_common_ancestor` and `calculate_reorg_path` is a step. Only
the order of blocks matters, so a block is its number in a topological order. The two
limits are in `ForkLimits`, because the engine applies them too.

### Validators, Consensus
A registry is the validator set together with the slashing manager. Floating-point
expressions are the exact quotients they approximate; where the code takes the first
64-bit digit of a stake, the model takes it modulo `U64`. The proposer of a slot
is computed over the validators in any order, because the code's order is that of
a `HashMap`. Validators' liquidity and utility scores, which only scale weights,
and the random `select_validator` and `select_committee` are left out.

The blocks of the network are a constant tree and the node may meet them in any
order. `head` belongs to the caller: it moves along `validate_block` followed by
`finalize_block` (`ExtendHead`), or to the other side of a path for which
`apply_reorg` decided (`Reorganise`); when the callback fails, the slashing and
the history stay and the head does not move. `FindCommonAncestor` is the closed
form of what the loops of `ForkResolver` compute: `EngineAlwaysAgrees` proves that, and
`AncestorExact` says what it is.
Blocks keep the time tolerance of `validate_block`, and the fork detection in it
never fires: a block that has passed `Block::validate` has `parent` as its parent.

### Storage, Cache
Each column family is a variable and each put or batch a step, since `Database` takes
`&self`: several writers may be inside `store_block` at once, at any of its writes. `Crash`
is a crash of the process: RocksDB is opened without synchronous writes, so a
write that returned is in the operating system's hands and survives the process,
though not necessarily the machine. RocksDB itself is external; a batch is atomic. The
families of blocks, states, metrics and plain records share nothing, and `scope` picks
one per behaviour. `done`, `saved`, `horizon` and `used` are history variables.
`Cache` has the LRU cache, with its order of use, and the state cache; they start
empty after a crash.

### Node
The runtime over the real pool (`Mempool`'s operators) and a chain abstracted to its
height and the senders' nonces, which never fall: the exception that `chain_replay` shows
is kept out here. Every lock is held for one step. `submit_transaction` is two (the
nonce, then the pool), and so are `produce_block`, the persistence task, and the methods
that scan a family and delete afterwards (`clear_pending`, `compact_fork_history`).
`Raw` are the transactions that arrive by `kai_sendRawTransaction`, which writes to
the database and never reaches the pool. A crash loses the pool, the chain and every
call in progress, since a node starts from genesis. The model is of a node with
persistence enabled and a reorganisation depth of at least one. Gas is added up as the
code does, in 64 bits that wrap (`GasOf`, `Fits`): `gas_limit` has no upper bound.

### Network
Handlers are tasks. A guard dropped before the next `.await` is within one step;
the two guards kept across one (the pool's while the peer manager is awaited, the
peer manager's while the outbox is) are variables. Messages may be repeated, and come
in any order from any peer, banned ones included. Meanwhile the owner adds, removes,
bans and prunes peers and changes reputations. `outbox` counts what was ever sent.

### LiquidityPool, AMM, Lending, Treasury, Deployment
A pool is a record. A product moves its own fields and calls its base pool, and a step
contains all of a call, up to the point where it fails: what was changed before stays.
Reserves, shares, principals and stakes have any size, but every `f64` computation
starts from the lowest 64 bits of its operands (`Digit`) and is cast back to `u64` or
`u16`. `Rounded` is the set of integers the cast can give: the truncated quotient, one
less where a whole value may come out just below itself, and within one part in
`Precision`, either way, once the numbers are as large as that. (The code's chains round
about a dozen times, so 2^48 is a true value; the proofs hold for any above 65535.)
`Truncated` saturates the cast and knows infinity and NaN. `remove_liquidity` and
`swap` have the ways to fail that this opens: a payout above its reserve, with what was
changed before it. Ids are hashes of an address and a second, so
two loans or grants of one second share theirs. The owner of the deployment
manager also deposits to and withdraws from its pools directly (`get_pool_mut`).

### Tokenomics, Contracts, Services
The rates of minting are arbitrary functions (the code's are exponentials in `f64`);
the phase manager's checks, block numbers and overwritings are the code's. An
`Option` is a set of at most one element. `Contracts` has `execute` in the order of its
checks and effects, and `estimate_gas`, which runs it on the real state and puts
the state back, except after an error. `Services` composes the products: they share
no state except the clock, so a behaviour is about one `service`.

## 3. Runs

| run | checks | shows | bounds |
|---|---|---|---|
| `mempool` | `EntriesIndexed`, `SenderCountsExact`, `LimitsRespected`, `MetricsConsistent`, `EntriesExpire` | bookkeeping, limits and expiry through every sequence of calls | two senders, five transactions, two competing for one slot, pool of three, two per account: every limit is hit from both sides |
| `journal` | `JournalHoldsSnapshots`, `ImplementsStore` | rollback restores the checkpoint; refinement of `TransactionalStore` | two addresses, four account values: a record can be missing, stale, or of a new account |
| `chain_forks` | `HeadIndexed`, `VerifiesUnlessForked` | store and index through every tree of five blocks, blocks re-added too | five hashes (symmetric), three heights, three times |
| `chain_execution` | `NoReplay`, `NonceCountsExecutions`, `Conservation`, `TransactionsAtomic` | every kind of transaction, in blocks and directly, succeeding and failing | nine transactions, eight bodies of at most two, amounts up to 8 with `U64 = 16` so that gas products wrap |
| `chain_replay` | `NoReplay` (violated) | with bare funding, a rejected block resets nonces and a payment runs twice | two blocks, one payment |
| `fork_resolver` | `AncestorExact`, `PathReconnects`, `Returns` | which ancestor is found, that a finished path reconnects the heads, that the loops end | every tree of six blocks and every two heads; search limit 4 and depth 2 are both hit |
| `consensus_forks` | `HeadCanonical`, `FinalStays` | finality and the head under every order of blocks, checkpoints, forks and failed persists | two branches over a shared block, three forks with a history of two |
| `consensus_validators` | `OffensesEscalate`, `StakeAccounted`, `SlotsProportional` | stakes, funds, penalties and proposer slots through the life of two validators | stake 40, two offenses before another report, one miss, one fork |
| `storage` | `ReceiptsTraceable`, `AcknowledgedDurable`, `RecentStatesKept`, `MetricsIndexed`, `LruKeepsMostRecent` | what the store finds again after crashes, concurrent writers and pruning; what the cache forgets | two writers, competing blocks that share a transaction, four numbers with one kept, metrics over three hours, cache of two |
| `node` | `PoolNeverAhead`, `SelectionGreedy`, `AcknowledgedSurvives`, `SignificantForksKept`, `PersistedEventually` | tasks and callers between each other's locks, with crashes and failing writes | two clients, pool of three, gas for a part of it, one gas limit near 2^64 so that the total wraps in some selections, one block in between, one failed write, two seconds; a fork's depth is always 1 |
| `network` | `ForwardedOnce`, `SentToConnected`, `HandlersFinish` | concurrent handlers while peers come and go | two tasks, two peers, two messages, reputations next to the ban and the good limit |
| `services` | `SecondPhaseEarned`, `DeploymentsNumbered`, `PoolsBalanced`, `LoansCovered`, `DisbursedWithinGranted` | balances, loans, grants, phases and contract numbers, half-failed calls included | two validators or accounts, `U64 = 5` with amounts on both sides of it, four calls on the market, notice and blend of two blocks within four, two grants of one second, one contract per account and estimates of a second |

**Fairness.** `Mempool` assumes weak fairness of `Prune` and `Tick`: the runtime
prunes in a task of its own on a ticker (`runtime.rs` 211-227), whatever else the
node does, and time passes. `Node` assumes weak fairness of the persistence
task, which has a ticker of its own (`runtime.rs` 229-247). `Network` assumes strong
fairness of each handler: tokio runs every ready task, and its mutex serves waiters in
the order they came, so one that could go on again and again does. `ForkResolver`
assumes weak fairness of its next step: one thread runs the loops to their end. No
other specification has fairness, and no other run a liveness property.

**Bounds.** Every bound is a named constant. `MaxAdded` caps submissions
between two resets of the pool, `MaxMinted`, `MaxHeight` and `MaxTime` the chain,
`MaxBonded`, `MaxProduced`, `MaxMissed`, `MaxOffenses` and `MaxForks` the engine,
`MaxMessages` the network, `MaxFailures` the failing writes, `MaxCalls`,
`MaxSupply`, `MaxGrants`, `MaxTvl`, `MaxAdjusted` and `MaxNonce` the services.
They stop the *environment* from going on; an operation that has begun is never
cut short. In `services` the numbers stay below `Precision`, so that rounding away from the
truncated quotient by more than one does not occur there; with `U64 = 5` payouts above a
reserve and half-done calls do. Only `services` runs without the deadlock check: a service whose callers
have used up their amounts has nothing left to do.

## 4. What the runs and the reading of the code disagree about

One run ends in a violation (see `findings`): the rollback of a rejected block undoes
nothing of that block (`chain.rs:176`), and instead undoes writes made outside
checkpoints, nonces included, after which a payment runs twice (`chain_replay`).

Four formulas say what the code does *not* do; no run is kept for them, and TLC finds a
counterexample to each when it is added to the configuration of its module:

* `Mempool!TransactionsExpire`: a queued transaction replaced in its slot
  (`mempool.rs:153`) stays in the index and is never pruned;
* `StateJournal!JournalHoldsSnapshots` with `MaxDepth = 2`: nested checkpoints lose
  records on commit (`state.rs:231`), which the chain's own use does not trigger;
* `Chain!RejectedBlockLeavesState`: transactions of a rejected block stay in the state;
* `Consensus!OnlyEquivocatorsSlashed`: a block that both branches share counts as
  double-signing (`poas.rs:384`, through `fork.rs:122`).

The models contain the following as well.

Core:
* `queued_count` counts a replacement as an addition (`mempool.rs:154`): the reason
  for `>=` in `MetricsConsistent`;
* `transfer` to oneself creates the amount (`state.rs:198`): the reason for
  `ToSelf` in `Conservation`;
* `has_transaction` also knows transactions of rejected blocks (`chain.rs:223`); the
  receipt names the height of the head plus one, whatever the parent (`chain.rs:339`);
* `deploy_liquidity` compares one amount with the stake, not the sum (`state.rs:98`);
* `find_common_ancestor` finds no ancestor when one branch is much longer than
  the other (`fork.rs:134`), and the genesis block for branches of equal height
  (`fork.rs:122`): `AncestorExact` states both;
* finality by depth (`poas.rs:273`) is not enforced by `apply_reorg`; `FinalStays` is
  about checkpoints;
* misses are cumulative, not consecutive (`slashing.rs:242`), so every later block
  of a validator slashes it again; the whistleblower's share goes nowhere;
* `produce_block` counts a block twice for its proposer; the proposer of a slot
  depends on `HashMap` order (`selection.rs:164`);
* reorganising to the own head records it as a lost fork; a retry after a failed
  persist slashes again.

Node, network and store:
* the gas of a block is added up in `u64` (`mempool.rs:176`, `runtime.rs:339`) without an upper
  bound on a transaction's limit: where the total wraps, a block holds more gas than its
  limit. `SelectionGreedy` is about the wrapped total, and says so;
* a transaction sent by `kai_sendRawTransaction` is stored and never reaches the pool, and
  the node never reloads what it persisted;
* the persistence task reads at most 10000 transactions, so `PersistedEventually` needs
  a pool no larger than that: the reason `PersistLimit` is at least `MaxSize`;
* `clear_pending` and `prune_old_metrics` delete what they scanned before, entries that were
  written again in between included; metrics stored again leave their older entry by time;
* two forks of one second with one head overwrite each other in the fork history;
* a transaction refused by the pool stays in the seen set, which is never purged;
* adding a known peer again overwrites its entry, a ban included (`peer.rs:169`); a limit of 0 still
  forwards to one peer;
* `StateCache` evicts its lowest number even when the key is already there.

Services:
* the market, the lending pool, the deployment manager and the yields compute with the lowest
  64 bits of an amount (`amm.rs:80`, `lending.rs:346`, `deployment.rs:261`, `pool.rs:297`):
  at 10^18 units a token, a reserve above 18.4 tokens counts as what is left beyond the
  last multiple of 2^64, and below that `f64` rounds either way. A share of the market can
  lose value (the reason no property bounds it), although `amm.rs:179` calls the quote a constant
  product; collateral, utilization, liquidation and allocations are judged on the same remains;
* a payout that exceeds `reserve_b` leaves `reserve_a` lowered and the shares as they were
  (`amm.rs:144`), and a swap that the other reserve cannot pay keeps what was paid in
  (`amm.rs:231`);
* a liquidation takes the loan off the total although nothing was paid back
  (`lending.rs:316`), so `available_liquidity` then counts money that is not there;
* a call of the market, the lending pool or the treasury that fails in its base pool has
  already changed the product's fields; shares of the market belong to nobody; the
  market never processes the withdrawals of its base pool;
* loans and grants of one address and second replace each other; the category of a grant
  is whatever each call says it is;
* a rebalancing requests its withdrawals for the end of time and deploys on top of
  what is there;
* `depositor_count` is never incremented (`pool.rs`), as the depositor is inserted first;
* a transition may be executed again, which restarts the blend; minting alone never ends
  the bootstrap phase: after the blend the rate of the first phase returns, unless a
  caller asks for the blend factor;
* a contract call that fails keeps the transfer of its value; a deployment with a value
  credits the deployer and the contract with it; a balance sent ahead to a contract's address is
  overwritten; `estimate_gas` keeps what a failing call did.

Seen while reading, outside the models: the initialiser of the network configuration
(`runtime.rs:124`) lacks four fields of the struct, so the node does not compile as it is, and never
attaches the pool to the network; `kai_txpoolContent` with an address searches the stored
transactions (`methods.rs:268`); `kai_forkChoice` always answers `LongestChain`
(`methods.rs:353`); `prune_peers` subtracts a last-seen time that may lie ahead of the
clock; the optimal allocation of `risk.rs` may exceed its total; rewards with their bonus may
exceed what was minted.

## 5. Proofs

| module | theorems | for every |
|---|---|---|
| `Sums_proofs` | lemmas: a finite sum when one term changes, is added or taken out; induction | |
| `Mempool_proofs` | `TypeCorrect`, `EntriesIndexedAlways`, `SenderCountsAlwaysExact`, `LimitsAlwaysRespected`, `MetricsAlwaysConsistent` | finite set of transactions, every configuration |
| `Chain_proofs` | `JournalTypeCorrect`, `SingleLevelSnapshots`, `JournalImplementsStore` | addresses and values; the last two for `MaxDepth = 1` |
| | `TypeCorrect`, `AlwaysLinked`, `AlwaysIndexed`, `AlwaysVerifiesUnlessForked`, `ExecutionAtomic` | transactions, hashes, bodies and bounds |
| | `NeverReplayed`, `NoncesAlwaysCountExecutions`, `AmountsConserved` | the same, for `Funding \subseteq {"committed"}` |
| `Consensus_proofs` | `HeadAlwaysCanonical`, `FinalAlwaysStays`, `StakeAlwaysAccounted`, `OffensesAlwaysEscalate`, `SlotsAlwaysProportional` | tree of blocks, validators, configuration |
| | `ResolverTypeCorrect`, `PathAlwaysReconnects`, `AncestorAlwaysExact`, `EngineAlwaysAgrees` | tree of any number of blocks, two heads, limits |
| `Storage_proofs` | `StorageReceiptsTraceable`, `StorageAcknowledgedDurable`, `StorageRecentStatesKept`, `StorageMetricsIndexed`, `StorageLruKeepsMostRecent` | blocks, writers, values, pruning mode, capacity |
| `Node_proofs` | `PoolIsNeverAhead`, `SelectionAlwaysGreedy`, `AcknowledgedAlwaysSurvives`, `SignificantForksAlwaysKept` | transactions, clients, limits, retention |
| `Network_proofs` | `NetworkForwardedOnce`, `NetworkSentToConnected` | peers, tasks, transactions, limits |
| `Services_proofs` | `SecondPhaseAlwaysEarned`, `DeploymentsAlwaysNumbered`, `PoolsAlwaysBalanced`, `LoansAlwaysCovered`, `GrantsNeverOverdrawn` | rates, targets, periods, amounts; accounts, values and gas; plans and strategies |

Every invariant and every action property that a passing run checks is also proved. The type
invariants of the pool, the journal, the chain and the resolver, the linkage of the chain
(`ChainLinked`) and `EngineAgrees` are proved and not run as well.

**Pool.** The five parts are one inductive invariant: a counter stays exact only
because the index is (`EntriesIndexed` makes the removed set and the freed slots the
right ones), and a limit only because the counter is exact. Each operator
(`RemoveAll`, `InsertPending`, `InsertQueued`, `PromoteQueued`) preserves
each part, in a lemma of its own.

**Journal.** `SingleLevelSnapshots` needs to know what a record means: an account
without a record in the top frame is as it was at the checkpoint, one with a
record was what the record says. The snapshots of the abstract store are a history
variable of `StateJournal`; the refinement follows because a rollback then restores
the last of them.

**Chain.** Linkage and index are inductive once it is known that the head is stored
and that every stored block's number has an entry. `ExecutionAtomic` rests on
`Within(w, x)`, "x is reached from w inside one checkpoint": a rollback of x is w
and a commit has the journal of w. `NeverReplayed` strengthens "executed at most
once" to "executed at most once, and only with a nonce below the sender's", and
needs that no record lies at the bottom of the journal, which is what
bare funding breaks. The same fact makes `LedgerInv` inductive: with the journal empty
between transactions, a rejected block changes no account, so nonces go on counting
executions and balances, stakes, deployments and fees go on adding up to what was minted.

**Consensus.** `HeadCanonical` is not inductive, since nothing in it keeps the head
from moving to a remembered tip. `ForksInv` adds that a lost tip has at most the number
of the head: heads only grow in number, because a side of a path has one block
per number above the ancestor (`SideLength`), so the longer side ends higher.
`FinalAlwaysStays` rests on `ReorgKeepsFinal`: a final block that would be reverted is
above the ancestor, and the check of `apply_reorg` compares the ancestor with the
checkpoint.

Stakes and penalties are `EngineInv`: what was bonded is staked, slashed or released, the
offense counts and the history agree, and what was taken from the insurance fund is within what
was slashed and is neither in the fund nor burnt. A step of the registry, a reorganisation's whole chain of
slashings included, `Follows` the registry it starts from: it keeps stake plus slashed, and
never lets the fund and what was burnt take more of the slashed. `SlotsProportional` counts
the slots between two partial sums of weights, for every order of the validators.

**Fork resolver.** `PathInv`: the blocks to revert lead from the old head down to
where the first walk is (`Down`), the blocks to apply from where the second walk is up to the new
head (`Up`). `SearchInv`: after k iterations each walk has visited the k highest
blocks of its branch (`Walk`) and k is still below the number at which the walks meet or end
(`Unmet`). Two walks of different heights meet at the last common block, unless the lower one has
run out first; two of equal height never see each other's blocks before the genesis block. The answer
is compared with the reference definition (`AncestorExact`), and with the definition in
`Consensus` when the tree is the same (`EngineAlwaysAgrees`). `ResolverTypeCorrect` adds
`AncestorAhead`: the ancestor found is an ancestor of where each walk of the path is, so none
runs past the genesis block and `BlockNotFound` is not an outcome.

**Storage.** `BlockInv` says what each call in progress has already written: the block and
its indexes from its first batch on (`CallsBegun`), the transactions and receipts below its
position, so that a call that ends has written all of them (`DoneKept`), and that a receipt
is written only after its transaction and its block (`ReceiptsLead`). Nothing of the kind
is ever deleted, so a crash only loses calls. `StateInv` adds that a pruning in
progress never has a limit above the highest number named so far less the blocks kept.
`MetricInv` is kept by a snapshot stored again because another number has another key in the
family by time. `CacheInv` says that no key is twice in the cache's order and that the order
is a prefix of the keys as last used; moving a key to the front then moves it in both.

**Node.** `AckInv`: the entry of an acknowledged transaction is at least as young as the
acknowledgement, since the persistence task only refreshes it, so it passes for expired no
earlier; a clear takes both. `ForkInv`: a key of the fork history is made of the time and the height of its
event, so one that a scan found old is not used again before the delete; what is
missing from the history is old. `AheadInv`: a submission between its two
locks holds a nonce that its sender has reached, and nonces never fall, so what the pool
admits is not ahead of the chain; nothing is ever queued. `GreedyUpTo` is the invariant of
the selection loop over a walk of the pool, dearest first: whoever was left out of the first i
did not fit, by the counter, behind those chosen so far, or found no place. The counter wraps, so
that its value is not monotone: `WrapsOnce` shows that adding to a total modulo `U64` and
reducing again is the total of the longer sequence (`GasGrows`), and what is chosen later
leaves the totals before it alone, so that whoever is `LeftOut` stays so.

**Network.** A transaction is forwarded once because at most one task carries it
(`OneCarrier`): the seen set is tested and extended in one step, and until then
it was sent to nobody (`UnseenUnsent`). `SentToConnected` follows because the
receivers were chosen under the guard that is still held.

**Services.** `SecondPhaseEarned` needs that statistics never fall (`Statistics`), that the
history lies in the past, and that the block numbers the phase manager keeps, which
announcements and transitions overwrite, are each backed by an entry of the history
(`NoticesBacked`, `StartsBacked`). `DeploymentsNumbered` is inductive together with the
types, once transfers are known to move balances only.

The products of liquidity are one invariant each, `ProductInv` together. `PoolOK` (a
pool is typed and `Balanced`) holds of every pool, also after
a call that fails in the middle. `AMMInv` needs no more of shares, payouts and quotes than that
they are natural numbers, whichever way they are rounded (`TruncatedNat`), and that none is
taken from a reserve that is smaller. `LendingInv` separates the sum of active principals into one loan and the
rest, since a loan of the same second may replace another. `TreasuryInv` strengthens "disbursed
within granted" to "disbursed plus what approved grants still owe within granted", without
which a disbursement could not be seen to fit. `ManagerInv` follows a strategy through its allocations.

**Induction.** The library's induction theorems take a predicate, which no prover here
can instantiate. `CountingUp` and `FewerFirst` take a *set* instead (of numbers, of
subsets), and so can be cited: the predicate is the membership. With them the recursive functions of
the models, the sums, `AncestorsOf`, the selection loop and the cache's `Retain` among
them, are first shown to exist and to satisfy their equations, and then to have the
properties the invariants need.

**Assumptions.** Those of the modules (`TxAssumption`, `ConfigAssumption`,
`ChainAssumption`, `TreeAssumption`, `StoreAssumption`, `NodeAssumption`, `NetworkAssumption`,
`LendingAssumption` and so on): types of the constants; that transactions, addresses, blocks and
standard categories are finitely many, where sums or cardinalities are taken over them; that
the sentinels (`None`, `NoBlock`, ...) are none of the values they stand beside; that a rate
at the optimum lies between the base and the highest rate; and, for `TreeAssumption`, that
the ancestors of a block are a chain to the genesis block. TLC evaluates each in a run.

**Only model-checked**: liveness (`EntriesExpire`, `Returns`, `PersistedEventually`,
`HandlersFinish`), whose proofs would need ENABLED and fairness.

## 6. Not modelled

* Cryptography: hashes and signatures are taken as perfect. Wallets are stubs.
* Chain metrics, `get_fork_statistics`, the metrics and fork monitors of the node, and all
  RPC methods but one: they read and format.
* `gossip.rs` and `sync.rs` of the network, which nothing calls; fork messages, which are
  logged; the transport.
* Burning (counters nothing reads), rewards, yields and risk (estimates in `f64` without
  state), liquidity and utility scores of validators, the random selections.
* Bytecode, storage slots and precompiles' results: the executor does not interpret
  code yet.
* `main.rs` and `config.rs`: start-up and parsing.
* Loss of writes by a crash of the machine: RocksDB's write-ahead log is external.

What the models have and no property is about: the shared block that counts as
double-signing and the value of a share of the market (see 4), and the fields of products that only report. Type invariants of the
node, the network and the store are parts of the proofs above and not theorems of their own.
