----------------------------- MODULE MC_Network ------------------------------
(***************************************************************************)
(* A small instance of Network: a transaction the pool takes, one it finds *)
(* too cheap, and one that is not signed.                                  *)
(***************************************************************************)
EXTENDS Network

CONSTANTS alice

MCTransfer(id, price, signed) ==
  [id |-> id, from |-> alice, to |-> alice, tx_type |-> "Transfer", nonce |-> 0,
   amount |-> 1, gas_price |-> price, gas_limit |-> 1, signed |-> signed]

MCTx == {MCTransfer(1, 2, TRUE), MCTransfer(2, 1, TRUE), MCTransfer(3, 2, FALSE)}

==============================================================================
