------------------------------ MODULE MC_Node --------------------------------
(***************************************************************************)
(* A small instance of Node: consecutive transactions of one sender that   *)
(* just fill a block, and a dear transaction of another whose gas_limit    *)
(* is close to U64: it fits no block, but behind the second of the others  *)
(* the total wraps around to zero.  It may be sent by RPC too, before or   *)
(* after it is in the pool.                                                *)
(***************************************************************************)
EXTENDS Node

CONSTANTS alice, bob

MCTransfer(from, nonce, price, gas) ==
  [id |-> 1, from |-> from, to |-> alice, tx_type |-> "Transfer", nonce |-> nonce,
   amount |-> 1, gas_price |-> price, gas_limit |-> gas, signed |-> TRUE]

MCTx ==
  {MCTransfer(alice, 0, 2, 2), MCTransfer(alice, 1, 3, 2),
   MCTransfer(bob, 0, 3, U64 - 2)}

MCRaw == {MCTransfer(bob, 0, 3, U64 - 2)}

==============================================================================
