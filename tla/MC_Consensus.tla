---------------------------- MODULE MC_Consensus ----------------------------
(***************************************************************************)
(* A network with two branches over one shared block: block 2 on block 1,  *)
(* and blocks 3 and 4 on block 1.  Validator v proposes the shared block 1 *)
(* and block 4; validator w proposes blocks 2 and 3 (it double-signs).     *)
(***************************************************************************)
EXTENDS Consensus

CONSTANTS v, w

MCHash == 0 .. 4

MCParent == <<0, 1, 1, 3>>

MCAncestors ==
  LET anc[h \in MCHash] == IF h = 0 THEN {0} ELSE {h} \cup anc[MCParent[h]]
  IN  anc

MCNumber == [h \in MCHash |-> Cardinality(MCAncestors[h]) - 1]

MCProposer == [h \in MCHash |-> IF h \in {1, 4} THEN v ELSE w]

(***************************************************************************)
(* Blocks 1, 2 and 3 alone, for the life of the validators.                *)
(***************************************************************************)
MCChain == 0 .. 3
MCChainAncestors == [h \in MCChain |-> MCAncestors[h]]
MCChainNumber == [h \in MCChain |-> MCNumber[h]]
MCChainProposer == [h \in MCChain |-> MCProposer[h]]
=============================================================================
