----------------------------- MODULE MC_Mempool -----------------------------
(***************************************************************************)
(* Small instances of Mempool: two senders; two transactions of one sender *)
(* compete for the slot (alice, 1), one is below the minimum gas price.    *)
(***************************************************************************)
EXTENDS Mempool

CONSTANTS alice, bob

MCTransfer(id, from, nonce, price) ==
  [id |-> id, from |-> from, to |-> alice, tx_type |-> "Transfer", nonce |-> nonce,
   amount |-> 1, gas_price |-> price, gas_limit |-> 1, signed |-> TRUE]

MCTx ==
  {MCTransfer(1, alice, 0, 3), MCTransfer(2, alice, 1, 2), MCTransfer(3, alice, 1, 4),
   MCTransfer(4, bob, 0, 2), MCTransfer(5, bob, 1, 1)}
=============================================================================
