------------------------------- MODULE Chain -------------------------------
(***************************************************************************)
(* The chain of blocks and the execution of transactions                   *)
(* (crates/blockchain-core/src/chain.rs and block.rs).                     *)
(*                                                                         *)
(* The methods of Blockchain take &mut self, so nothing interleaves with   *)
(* one of them.  add_block_with_execution is a loop, and is modelled as a  *)
(* sequence of steps (BeginBlock, ExecuteNext for every transaction,       *)
(* FinishBlock) that nothing else may interrupt; each step is one call of  *)
(* execute_transaction, which the properties are about.  The header of the *)
(* block is chosen in FinishBlock, the first step that reads it.           *)
(*                                                                         *)
(* A block hash is a member of Hash without structure: a stored block      *)
(* keeps its hash, a new one gets an unused one (no collisions).  What     *)
(* validation computes from the transactions alone (Merkle root, gas sums) *)
(* is one Boolean, `sound'.                                                *)
(***************************************************************************)
EXTENDS WorldState, FiniteSets, Functions

CONSTANTS
  Tx,            \* the transactions that may be executed
  Hash,          \* block hashes
  GenesisHash,   \* hash of the genesis block
  NoHash,        \* Hash::zero(), or no entry in block_by_number
  NoBlock,       \* no entry in blocks
  NoReceipt,     \* no entry in receipts
  WrongRoot,     \* a state root that no world state has
  Bodies,        \* the transaction lists a block may have
  Directly,      \* the transactions that a caller executes outside any block
  GasUsed,       \* gas_used of every transaction (21000 in the code)
  Funding,       \* how the owner of the chain funds accounts: "bare", "committed"
  FundAmounts,   \* the amounts accounts are funded with
  MaxMinted,     \* bound on the total funded
  MaxHeight,     \* bound on block numbers
  MaxTime        \* bound on block timestamps

ASSUME ChainAssumption ==
  /\ \A tx \in Tx : IsTransaction(tx)
  /\ GenesisHash \in Hash /\ ~ (NoHash \in Hash)
  /\ Bodies \subseteq Seq(Tx) /\ Directly \subseteq Tx
  /\ GasUsed \in Nat
  /\ Funding \subseteq {"bare", "committed"}
  /\ FundAmounts \subseteq Nat
  /\ MaxMinted \in Nat /\ MaxHeight \in Nat /\ MaxTime \in Nat

ASSUME FiniteAssumption == IsFiniteSet(Tx) /\ IsFiniteSet(Address)

Number == 0 .. MaxHeight

Block ==
  [parent_hash : Hash \cup {NoHash}, number : Number, timestamp : 0 .. MaxTime,
   state_root : [Address -> AccountEntry], transactions : Seq(Tx)]

ASSUME ChainSentinelAssumption ==
  /\ ~ (NoBlock \in Block)
  /\ ~ (NoReceipt \in Nat)
  /\ ~ (WrongRoot \in [Address -> AccountEntry])

VARIABLES
  blocks,            \* all blocks, by hash
  block_by_number,   \* block hashes, by number
  head,              \* hash of the current head
  ws,                \* the WorldState (field `state')
  receipts,          \* the block number of every transaction's receipt
  body,              \* the transactions of the block being executed
  next,              \* which of them is next; 0 when no block is being executed
  before,            \* history: the accounts when the last execution of a block began
  executed,          \* history: how often each transaction was executed
  minted,            \* history: total amount funded
  burnt              \* history: total of the fees charged

chain == <<blocks, block_by_number, head>>
history == <<executed, minted, burnt, before>>
vars == <<chain, ws, receipts, body, next, history>>

Idle == next = 0
-----------------------------------------------------------------------------
(***************************************************************************)
(* Block::genesis and Blockchain::new.                                     *)
(***************************************************************************)
Genesis ==
  [parent_hash |-> NoHash, number |-> 0, timestamp |-> 0,
   state_root |-> EmptyWorldState.accounts, transactions |-> <<>>]

Init ==
  /\ blocks = [h \in Hash |-> IF h = GenesisHash THEN Genesis ELSE NoBlock]
  /\ block_by_number = [n \in Number |-> IF n = 0 THEN GenesisHash ELSE NoHash]
  /\ head = GenesisHash
  /\ ws = EmptyWorldState
  /\ receipts = [tx \in Tx |-> NoReceipt]
  /\ body = <<>> /\ next = 0
  /\ executed = [tx \in Tx |-> 0] /\ minted = 0 /\ burnt = 0
  /\ before = EmptyWorldState.accounts

Stored(h) == h \in Hash /\ blocks[h] # NoBlock

Height == blocks[head].number
-----------------------------------------------------------------------------
(***************************************************************************)
(* BlockHeader::validate and Block::validate of a block against the stored *)
(* block with hash p.                                                      *)
(***************************************************************************)
ValidateHeader(block, p) ==
  /\ block.number = blocks[p].number + 1
  /\ block.parent_hash = p
  /\ block.timestamp > blocks[p].timestamp

Validate(block, p, sound) ==
  /\ ValidateHeader(block, p)
  /\ \A i \in 1 .. Len(block.transactions) : ValidateBasic(block.transactions[i])
  /\ sound

(***************************************************************************)
(* The checks of add_block.                                                *)
(***************************************************************************)
Accepts(block, sound) ==
  /\ Stored(block.parent_hash)
  /\ Validate(block, block.parent_hash, sound)
  /\ block.state_root = StateRoot(ws)

HashOf(block, h) ==
  IF \E g \in Hash : blocks[g] = block THEN blocks[h] = block ELSE blocks[h] = NoBlock

(***************************************************************************)
(* The end of add_block: the block is stored, takes the place of any other *)
(* block of its number in the index, and becomes the head, whatever its    *)
(* parent is (a fork is only logged).                                      *)
(***************************************************************************)
MutantInsertFirstSeenIndexed(block, h) ==
  /\ blocks' = [blocks EXCEPT ![h] = block]
  /\ block_by_number' =
       [block_by_number EXCEPT ![block.number] = IF @ = NoHash THEN h ELSE @]
  /\ head' = h

Insert(block, h) ==
  /\ blocks' = [blocks EXCEPT ![h] = block]
  /\ block_by_number' = [block_by_number EXCEPT ![block.number] = h]
  /\ head' = h

(***************************************************************************)
(* Blocks that may be offered: the state root is the right one or not.     *)
(***************************************************************************)
Candidates ==
  [parent_hash : Hash, number : Number, timestamp : 0 .. MaxTime,
   state_root : {StateRoot(ws), WrongRoot}, transactions : Bodies]

(***************************************************************************)
(* Blockchain::add_block.  A rejected block changes nothing.               *)
(***************************************************************************)
AddBlock(block, h, sound) ==
  /\ Idle
  /\ Accepts(block, sound)
  /\ HashOf(block, h)
  /\ Insert(block, h)
  /\ UNCHANGED <<ws, receipts, body, next, history>>
-----------------------------------------------------------------------------
(***************************************************************************)
(* execute_transaction_type: the nonce, the operation, the fee.            *)
(***************************************************************************)
IncrementNonce(w, a) == SetAccount(w, a, [GetAccount(w, a) EXCEPT !.nonce = @ + 1])

Perform(w, tx) ==
  CASE tx.tx_type = "Transfer" -> Transfer(w, tx.from, tx.to, tx.amount)
    [] tx.tx_type \in {"Stake", "Unstake", "DeployLiquidity", "WithdrawLiquidity"} ->
         AccountOperation(w, tx.from, tx.tx_type, tx.amount)
    [] OTHER -> Ok(w)

ChargeFee(w, tx) ==
  LET fee == CalculateFee(tx, GasUsed)
      acc == GetAccount(w, tx.from)
  IN  IF acc.balance < fee
      THEN Err(GetAccountMut(w, tx.from))
      ELSE Ok(SetAccount(w, tx.from, [acc EXCEPT !.balance = @ - fee]))

MutantNonceKept(w, tx) ==
  IF Perform(w, tx).ok THEN ChargeFee(Perform(w, tx).ws, tx) ELSE Perform(w, tx)

ExecuteTransactionType(w, tx) ==
  LET performed == Perform(IncrementNonce(w, tx.from), tx)
  IN  IF performed.ok THEN ChargeFee(performed.ws, tx) ELSE performed

(***************************************************************************)
(* execute_transaction: the checks, then the execution between a           *)
(* checkpoint and a commit or a rollback.                                  *)
(***************************************************************************)
MutantPreconditionOldNonce(w, tx) ==
  /\ ValidateBasic(tx)
  /\ tx.nonce <= GetNonce(w, tx.from)
  /\ GetAccount(w, tx.from).balance >= MaxGasCost(tx)

Precondition(w, tx) ==
  /\ ValidateBasic(tx)
  /\ tx.nonce = GetNonce(w, tx.from)
  /\ GetAccount(w, tx.from).balance >= MaxGasCost(tx)

MutantExecuteNoRollback(w, tx) ==
  LET result == ExecuteTransactionType(Checkpoint(w), tx)
  IN  CASE ~ Precondition(w, tx) -> Err(w)
        [] OTHER -> [ok |-> result.ok, ws |-> Commit(result.ws)]

ExecuteTransaction(w, tx) ==
  LET result == ExecuteTransactionType(Checkpoint(w), tx)
  IN  CASE ~ Precondition(w, tx)              -> Err(w)
        [] Precondition(w, tx) /\ result.ok   -> Ok(Commit(result.ws))
        [] Precondition(w, tx) /\ ~ result.ok -> Err(Rollback(result.ws))

(***************************************************************************)
(* The state after a call of execute_transaction; the receipt names the    *)
(* next height.                                                            *)
(***************************************************************************)
Execute(tx) ==
  LET result == ExecuteTransaction(ws, tx)
  IN  /\ ws' = result.ws
      /\ IF result.ok
         THEN /\ receipts' = [receipts EXCEPT ![tx] = Height + 1]
              /\ executed' = [executed EXCEPT ![tx] = @ + 1]
              /\ burnt' = burnt + CalculateFee(tx, GasUsed)
         ELSE UNCHANGED <<receipts, executed, burnt>>
      /\ UNCHANGED <<chain, minted, before>>

(***************************************************************************)
(* A direct call, the way a block producer learns the state root.          *)
(***************************************************************************)
ExecuteDirectly(tx) ==
  /\ Idle
  /\ Execute(tx)
  /\ UNCHANGED <<body, next>>
-----------------------------------------------------------------------------
(***************************************************************************)
(* add_block_with_execution.  The first transaction that fails ends it,    *)
(* with the ones before it executed.                                       *)
(***************************************************************************)
BeginBlock(txs) ==
  /\ Idle
  /\ body' = txs
  /\ next' = 1
  /\ before' = ws.accounts
  /\ UNCHANGED <<chain, ws, receipts, executed, minted, burnt>>

ExecuteNext ==
  /\ ~ Idle
  /\ next <= Len(body)
  /\ Execute(body[next])
  /\ IF ExecuteTransaction(ws, body[next]).ok
     THEN next' = next + 1 /\ UNCHANGED body
     ELSE next' = 0 /\ body' = <<>>

(***************************************************************************)
(* Its end: with the wrong state root, a rollback outside any checkpoint   *)
(* (every transaction has committed its own); otherwise add_block, whose   *)
(* other errors undo nothing.                                              *)
(***************************************************************************)
FinishBlock(block, h, sound) ==
  /\ ~ Idle
  /\ next > Len(body)
  /\ block.transactions = body
  /\ \/ /\ block.state_root # StateRoot(ws)
        /\ ws' = Rollback(ws)
        /\ UNCHANGED chain
     \/ /\ block.state_root = StateRoot(ws)
        /\ ~ Accepts(block, sound)
        /\ UNCHANGED <<chain, ws>>
     \/ /\ Accepts(block, sound)
        /\ HashOf(block, h)
        /\ Insert(block, h)
        /\ UNCHANGED ws
  /\ next' = 0 /\ body' = <<>>
  /\ UNCHANGED <<receipts, history>>

(***************************************************************************)
(* The owner of the chain funds an account with state_mut():               *)
(* get_account_mut(a).add_balance(amount), bare or between a checkpoint    *)
(* and a commit.                                                           *)
(***************************************************************************)
AddBalance(w, a, amount) ==
  SetAccount(w, a, [GetAccount(w, a) EXCEPT !.balance = @ + amount])

Fund(a, amount, how) ==
  /\ Idle
  /\ minted + amount <= MaxMinted
  /\ ws' = IF how = "bare"
           THEN AddBalance(ws, a, amount)
           ELSE Commit(AddBalance(Checkpoint(ws), a, amount))
  /\ minted' = minted + amount
  /\ UNCHANGED <<chain, receipts, body, next, executed, burnt, before>>
-----------------------------------------------------------------------------
Next ==
  \/ \E block \in Candidates, h \in Hash, sound \in BOOLEAN : AddBlock(block, h, sound)
  \/ \E tx \in Directly : ExecuteDirectly(tx)
  \/ \E txs \in Bodies : BeginBlock(txs)
  \/ ExecuteNext
  \/ \E block \in Candidates, h \in Hash, sound \in BOOLEAN : FinishBlock(block, h, sound)
  \/ \E a \in Address, amount \in FundAmounts, how \in Funding : Fund(a, amount, how)

Spec == Init /\ [][Next]_vars
-----------------------------------------------------------------------------
(***************************************************************************)
(* verify_chain: every indexed block up to the height of the head          *)
(* validates against the one indexed below it.  (Stored blocks are sound.) *)
(***************************************************************************)
MutantVerifyOneMore ==
  \A n \in 1 .. Height + 1 :
    /\ n \in Number
    /\ Stored(block_by_number[n])
    /\ Validate(blocks[block_by_number[n]], block_by_number[n - 1], TRUE)

VerifyChain ==
  \A n \in 1 .. Height :
    /\ Stored(block_by_number[n])
    /\ Validate(blocks[block_by_number[n]], block_by_number[n - 1], TRUE)
-----------------------------------------------------------------------------
(***************************************************************************)
(* The chain has its type, and the head is a stored block: head_block(),   *)
(* height() and everything above them unwrap it.                           *)
(***************************************************************************)
TypeOK ==
  /\ blocks \in [Hash -> Block \cup {NoBlock}]
  /\ block_by_number \in [Number -> Hash \cup {NoHash}]
  /\ head \in Hash /\ Stored(head)
  /\ ws \in WorldStates /\ Depth(ws) = 1
  /\ receipts \in [Tx -> Nat \cup {NoReceipt}]
  /\ body \in Seq(Tx) /\ next \in Nat /\ next <= Len(body) + 1
  /\ executed \in [Tx -> Nat] /\ minted \in Nat /\ burnt \in Nat
  /\ before \in [Address -> AccountEntry]

(***************************************************************************)
(* Every block but the genesis block has its parent in the store, follows  *)
(* it by one in number and is later, on every fork.                        *)
(***************************************************************************)
ChainLinked ==
  \A h \in Hash :
    Stored(h) /\ h # GenesisHash =>
      /\ Stored(blocks[h].parent_hash)
      /\ blocks[h].number = blocks[blocks[h].parent_hash].number + 1
      /\ blocks[h].timestamp > blocks[blocks[h].parent_hash].timestamp

(***************************************************************************)
(* The index by number follows the head through forks and re-added blocks: *)
(* the head is indexed at its own height, an entry names a stored block of *)
(* that number, and no number up to that of a stored block is missing.     *)
(***************************************************************************)
HeadIndexed ==
  /\ block_by_number[Height] = head
  /\ \A n \in Number :
       block_by_number[n] # NoHash =>
         Stored(block_by_number[n]) /\ blocks[block_by_number[n]].number = n
  /\ \A h \in Hash : Stored(h) =>
       \A n \in 0 .. blocks[h].number : block_by_number[n] # NoHash

(***************************************************************************)
(* Unless there is a fork (two stored blocks of one number), verify_chain  *)
(* accepts what add_block has accepted.                                    *)
(***************************************************************************)
Forked ==
  \E g, h \in Hash :
    g # h /\ Stored(g) /\ Stored(h) /\ blocks[g].number = blocks[h].number

VerifiesUnlessForked == ~ Forked => VerifyChain

(***************************************************************************)
(* execute_transaction is all or nothing: when it fails it leaves the      *)
(* world state, journal included, as it was; when it succeeds the sender's *)
(* nonce grows by one, no other nonce changes, nobody but the sender and   *)
(* the recipient is touched, and the journal is as before.                 *)
(***************************************************************************)
AtomicStep(tx) ==
  IF executed'[tx] = executed[tx]
  THEN ws' = ws
  ELSE /\ GetNonce(ws', tx.from) = GetNonce(ws, tx.from) + 1
       /\ \A a \in Address \ {tx.from} : GetNonce(ws', a) = GetNonce(ws, a)
       /\ \A a \in Address \ {tx.from, tx.to} : ws'.accounts[a] = ws.accounts[a]
       /\ ws'.modifications = ws.modifications

TransactionsAtomic == [][\A tx \in Tx : Execute(tx) => AtomicStep(tx)]_vars

(***************************************************************************)
(* "Transaction nonce (prevents replay attacks)": no transaction is        *)
(* executed twice, whatever blocks are offered, rejected or built on old   *)
(* parents.                                                                *)
(***************************************************************************)
NoReplay == \A tx \in Tx : executed[tx] <= 1

(***************************************************************************)
(* An account's nonce is the number of its transactions executed so far.   *)
(***************************************************************************)
NonceCountsExecutions ==
  \A a \in Address :
    GetNonce(ws, a) = SumFunctionOnSet(executed, {tx \in Tx : tx.from = a})

(***************************************************************************)
(* Amounts are accounted for: balances and stakes, with the fees charged,  *)
(* add up to what accounts were funded with and what transfers to their    *)
(* own sender have created (transfer writes the credited copy of the       *)
(* account over the debited one); nothing else creates or loses an amount. *)
(***************************************************************************)
ToSelf == {tx \in Tx : tx.tx_type = "Transfer" /\ tx.from = tx.to}

Created(count) == [tx \in ToSelf |-> count[tx] * tx.amount]

Held(w) == [a \in Address |-> GetAccount(w, a).balance + GetAccount(w, a).staked]

Conservation ==
  minted + SumFunctionOnSet(Created(executed), ToSelf) = burnt + SumFunctionOnSet(Held(ws), Address)
-----------------------------------------------------------------------------
(***************************************************************************)
(* What the code does not do.  A block that is rejected leaves no trace in *)
(* the state: the rollback of add_block_with_execution ("Rollback          *)
(* transaction") undoes the block.                                         *)
(***************************************************************************)
RejectedBlockLeavesState ==
  [][~ Idle /\ next' = 0 /\ head' = head => ws'.accounts = before]_vars
=============================================================================
