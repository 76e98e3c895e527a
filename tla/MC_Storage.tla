----------------------------- MODULE MC_Storage ------------------------------
(***************************************************************************)
(* A small instance of Storage: four blocks, two of them of one height and *)
(* two with a transaction in common, and two writers.                      *)
(***************************************************************************)
EXTENDS Storage

CONSTANTS t1, t2, t3

MCBlock ==
  {[id |-> "a", number |-> 0, transactions |-> <<>>],
   [id |-> "b", number |-> 1, transactions |-> <<t1, t2>>],
   [id |-> "c", number |-> 1, transactions |-> <<t3, t1>>],
   [id |-> "d", number |-> 2, transactions |-> <<t2>>]}

MCRecord ==
  {[family |-> "code", key |-> 1], [family |-> "code", key |-> 2],
   [family |-> "storage", key |-> 1], [family |-> "validators", key |-> 1]}

==============================================================================
