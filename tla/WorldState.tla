----------------------------- MODULE WorldState -----------------------------
(***************************************************************************)
(* Accounts and the world state (crates/blockchain-core/src/state.rs).     *)
(*                                                                         *)
(* A world state is a record: `accounts' gives every address its account   *)
(* or NoAccount (no entry in the HashMap), and `modifications' is the undo *)
(* journal.  The journal Vec is cut at its Checkpoint entries into frames: *)
(* the first holds what was recorded outside any checkpoint, the last what *)
(* was recorded since the latest one.  A frame maps an address to the      *)
(* account recorded for it, or to NotRecorded; record_account_modification *)
(* never records an address twice in a frame, so the order inside a frame  *)
(* does not matter.                                                        *)
(*                                                                         *)
(* utility_score, code_hash and storage_root are left out: nothing in the  *)
(* chain writes them.  Amounts are BigUint, hence plain naturals.          *)
(***************************************************************************)
EXTENDS Transaction, Sequences

CONSTANTS
  NoAccount,     \* no entry for the address
  NotRecorded    \* no journal record for the address in a frame

Account == [nonce : Nat, balance : Nat, staked : Nat, liquidity_deployed : Nat]

AccountEntry == Account \cup {NoAccount}

ASSUME SentinelAssumption ==
  /\ ~ (NoAccount \in Account)
  /\ ~ (NotRecorded \in Account)
  /\ NotRecorded # NoAccount

NewAccount == [nonce |-> 0, balance |-> 0, staked |-> 0, liquidity_deployed |-> 0]

Frame == [Address -> AccountEntry \cup {NotRecorded}]

EmptyFrame == [a \in Address |-> NotRecorded]

WorldStates == [accounts : [Address -> AccountEntry], modifications : Seq(Frame)]

EmptyWorldState ==
  [accounts |-> [a \in Address |-> NoAccount], modifications |-> <<EmptyFrame>>]

Depth(ws) == Len(ws.modifications)

TopFrame(ws) == ws.modifications[Depth(ws)]

(***************************************************************************)
(* get_account, get_nonce.                                                 *)
(***************************************************************************)
GetAccount(ws, a) == IF ws.accounts[a] = NoAccount THEN NewAccount ELSE ws.accounts[a]

GetNonce(ws, a) == GetAccount(ws, a).nonce

(***************************************************************************)
(* The state root is a hash of all entries: equal roots, equal accounts.   *)
(***************************************************************************)
StateRoot(ws) == ws.accounts

(***************************************************************************)
(* record_account_modification: the first write to an address since the    *)
(* last checkpoint records the entry it replaces.                          *)
(***************************************************************************)
MutantRecordLatest(ws, a) ==
  [ws.modifications EXCEPT ![Depth(ws)] = [@ EXCEPT ![a] = ws.accounts[a]]]

RecordAccountModification(ws, a) ==
  IF TopFrame(ws)[a] = NotRecorded
  THEN [ws.modifications EXCEPT ![Depth(ws)] = [@ EXCEPT ![a] = ws.accounts[a]]]
  ELSE ws.modifications

(***************************************************************************)
(* set_account; get_account_mut is set_account of the present (or default) *)
(* account followed by the caller's writes through the reference.          *)
(***************************************************************************)
SetAccount(ws, a, account) ==
  [accounts      |-> [ws.accounts EXCEPT ![a] = account],
   modifications |-> RecordAccountModification(ws, a)]

GetAccountMut(ws, a) == SetAccount(ws, a, GetAccount(ws, a))

(***************************************************************************)
(* checkpoint, commit and rollback.  The last two pop through the last     *)
(* checkpoint; with none left they empty the journal.                      *)
(***************************************************************************)
Checkpoint(ws) ==
  [accounts |-> ws.accounts, modifications |-> Append(ws.modifications, EmptyFrame)]

PopFrame(ws) ==
  IF Depth(ws) = 1 THEN <<EmptyFrame>>
  ELSE SubSeq(ws.modifications, 1, Depth(ws) - 1)

Commit(ws) == [accounts |-> ws.accounts, modifications |-> PopFrame(ws)]

MutantRestoreKeepsCreated(ws) ==
  [a \in Address |->
     IF TopFrame(ws)[a] \in {NotRecorded, NoAccount} THEN ws.accounts[a]
     ELSE TopFrame(ws)[a]]

Restored(ws) ==
  [a \in Address |->
     IF TopFrame(ws)[a] = NotRecorded THEN ws.accounts[a] ELSE TopFrame(ws)[a]]

Rollback(ws) == [accounts |-> Restored(ws), modifications |-> PopFrame(ws)]
-----------------------------------------------------------------------------
(***************************************************************************)
(* Operations that may fail return the state they leave and whether they   *)
(* succeeded.                                                              *)
(***************************************************************************)
Ok(ws) == [ok |-> TRUE, ws |-> ws]

Err(ws) == [ok |-> FALSE, ws |-> ws]

(***************************************************************************)
(* WorldState::transfer reads both accounts first and writes them back one *)
(* after the other.                                                        *)
(***************************************************************************)
Transfer(ws, from, to, amount) ==
  LET new_from == [GetAccount(ws, from) EXCEPT !.balance = @ - amount]
      new_to   == [GetAccount(ws, to) EXCEPT !.balance = @ + amount]
  IN  IF GetAccount(ws, from).balance < amount
      THEN Err(ws)
      ELSE Ok(SetAccount(SetAccount(ws, from, new_from), to, new_to))

(***************************************************************************)
(* Account::stake, unstake, deploy_liquidity and withdraw_liquidity: when  *)
(* each is allowed and what it does to the account.                        *)
(***************************************************************************)
MayApply(acc, tx_type, amount) ==
  CASE tx_type = "Stake"             -> acc.balance >= amount
    [] tx_type = "Unstake"           -> acc.staked >= amount
    [] tx_type = "DeployLiquidity"   -> acc.staked >= amount
    [] tx_type = "WithdrawLiquidity" -> acc.liquidity_deployed >= amount

MutantUnstakeKeepsStake(acc, tx_type, amount) ==
  CASE tx_type = "Stake"   -> [acc EXCEPT !.balance = @ - amount, !.staked = @ + amount]
    [] tx_type = "Unstake" -> [acc EXCEPT !.balance = @ + amount]
    [] tx_type = "DeployLiquidity"   -> [acc EXCEPT !.liquidity_deployed = @ + amount]
    [] tx_type = "WithdrawLiquidity" -> [acc EXCEPT !.liquidity_deployed = @ - amount]

Apply(acc, tx_type, amount) ==
  CASE tx_type = "Stake"   -> [acc EXCEPT !.balance = @ - amount, !.staked = @ + amount]
    [] tx_type = "Unstake" -> [acc EXCEPT !.staked = @ - amount, !.balance = @ + amount]
    [] tx_type = "DeployLiquidity"   -> [acc EXCEPT !.liquidity_deployed = @ + amount]
    [] tx_type = "WithdrawLiquidity" -> [acc EXCEPT !.liquidity_deployed = @ - amount]

AccountOperation(ws, a, tx_type, amount) ==
  LET m == GetAccountMut(ws, a)
  IN  IF MayApply(m.accounts[a], tx_type, amount)
      THEN Ok(SetAccount(m, a, Apply(m.accounts[a], tx_type, amount)))
      ELSE Err(m)
=============================================================================
