-------------------------- MODULE MC_StateJournal --------------------------
(***************************************************************************)
(* Two addresses and two account values are enough for a record to be      *)
(* missing, stale, or of an account that did not exist.                    *)
(***************************************************************************)
EXTENDS StateJournal

MCWritten ==
  {[nonce |-> n, balance |-> b, staked |-> 0, liquidity_deployed |-> 0]
     : n \in {0, 1}, b \in {0, 5}}
=============================================================================
