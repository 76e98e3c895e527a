------------------------------ MODULE MC_Chain ------------------------------
(***************************************************************************)
(* Small instances of Chain.                                               *)
(***************************************************************************)
EXTENDS Chain, TLC

CONSTANTS alice, bob

MCTransaction(tx_type, from, to, nonce, amount, price, limit, signed) ==
  [id |-> 1, from |-> from, to |-> to, tx_type |-> tx_type, nonce |-> nonce,
   amount |-> amount, gas_price |-> price, gas_limit |-> limit, signed |-> signed]

MCNoTx == {}

MCEmptyBody == {<<>>}

(***************************************************************************)
(* Every operation of an account and its failures: transactions that come  *)
(* too early, that cost more than the balance, whose gas limit wraps, and  *)
(* one without signature.  One transfer is to its own sender.              *)
(***************************************************************************)
Pay      == MCTransaction("Transfer", alice, bob, 0, 2, 1, 1, TRUE)
PayBack  == MCTransaction("Transfer", bob, alice, 0, 1, 2, 8, TRUE)
Stake    == MCTransaction("Stake", alice, alice, 1, 2, 1, 1, TRUE)
Unstake  == MCTransaction("Unstake", alice, alice, 2, 1, 1, 1, TRUE)
Deploy   == MCTransaction("DeployLiquidity", alice, alice, 2, 2, 1, 1, TRUE)
Withdraw == MCTransaction("WithdrawLiquidity", alice, alice, 3, 1, 1, 1, TRUE)
Call     == MCTransaction("ContractCall", bob, bob, 0, 1, 1, 1, TRUE)
Unsigned == MCTransaction("ContractDeployment", bob, bob, 0, 1, 1, 1, FALSE)
PaySelf  == MCTransaction("Transfer", bob, bob, 0, 1, 1, 1, TRUE)

MCTx == {Pay, PaySelf, PayBack, Stake, Unstake, Deploy, Withdraw, Call, Unsigned}

MCBodies == {<<>>, <<Pay>>, <<Pay, Stake>>, <<Stake, Deploy>>, <<PayBack, Unstake>>, <<PaySelf>>,
             <<Withdraw, Call>>, <<Unsigned>>}

MCDirectly == {Pay, Unstake, Call}

(***************************************************************************)
(* One payment is enough for the runs about rejected blocks.               *)
(***************************************************************************)
MCTxPay == {Pay}

MCBodiesPay == {<<>>, <<Pay>>}

MCSymmetry == Permutations(Hash \ {GenesisHash})
=============================================================================
