----------------------------- MODULE ForkLimits -----------------------------
(***************************************************************************)
(* The limits of the fork resolver (crates/blockchain-core/src/fork.rs),   *)
(* which the consensus engine configures and also applies itself.          *)
(***************************************************************************)
EXTENDS Integers, Sequences, FiniteSets, FiniteSetsExt

CONSTANTS
  SearchLimit,      \* how many blocks find_common_ancestor visits (10000)
  MaxReorgDepth     \* max_reorg_depth of ForkResolver and of ConsensusConfig

ASSUME LimitsAssumption ==
  SearchLimit \in Nat /\ MaxReorgDepth \in Nat
=============================================================================
