---------------------------- MODULE Transaction ----------------------------
(***************************************************************************)
(* Transactions (crates/blockchain-core/src/transaction.rs).               *)
(*                                                                         *)
(* A transaction is a record; its hash is modelled as the record itself,   *)
(* so two transactions have the same hash exactly when they are equal      *)
(* (`id' stands for the fields left out: timestamp, signature, pool id).   *)
(* `amount' is the Amount of the five transfer-like types and the length   *)
(* of the bytecode or call data of the two contract types: the only thing  *)
(* the code asks of either is whether it is zero.                          *)
(***************************************************************************)
EXTENDS Integers

CONSTANTS
  Address,   \* account addresses
  U64        \* number of values of an unsigned 64-bit integer

ASSUME U64Assumption == U64 \in Nat \ {0}

TransactionType ==
  {"Transfer", "Stake", "Unstake", "DeployLiquidity", "WithdrawLiquidity",
   "ContractDeployment", "ContractCall"}

(***************************************************************************)
(* What the rest of the program may assume of a transaction value.         *)
(***************************************************************************)
IsTransaction(tx) ==
  /\ tx.from \in Address
  /\ tx.to \in Address
  /\ tx.tx_type \in TransactionType
  /\ tx.nonce \in Nat
  /\ tx.amount \in Nat
  /\ tx.gas_price \in Nat
  /\ tx.gas_limit \in Nat
  /\ tx.signed \in BOOLEAN

(***************************************************************************)
(* Transaction::validate_basic.                                            *)
(***************************************************************************)
ValidateBasic(tx) ==
  /\ tx.signed
  /\ tx.gas_limit # 0
  /\ tx.gas_price # 0
  /\ tx.amount # 0

(***************************************************************************)
(* Transaction::calculate_fee, and the cost limit that execute_transaction *)
(* compares with the balance: products of two u64, which wrap around in a  *)
(* release build.                                                          *)
(***************************************************************************)
CalculateFee(tx, gas_used) == (gas_used * tx.gas_price) % U64

MaxGasCost(tx) == (tx.gas_limit * tx.gas_price) % U64
=============================================================================
