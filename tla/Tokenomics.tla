----------------------------- MODULE Tokenomics ------------------------------
(***************************************************************************)
(* The two phases of minting (crates/tokenomics/src/phase_manager.rs and   *)
(* minting.rs): the statistics that decide when the bootstrap phase may    *)
(* end, the notice, the transition by notice or by governance, the blend   *)
(* period, and the minting of a block by the formula of the moment.        *)
(*                                                                         *)
(* The formulas are exponentials in f64; all that the protocol needs of    *)
(* them is which ones are used, so the two rates are functions given as    *)
(* constants, and a blend is any amount between its two rates, or one less *)
(* where the sum is rounded down.                                          *)
(* An Option of the code is a set of at most one element.                  *)
(***************************************************************************)
EXTENDS Integers, FiniteSets, FiniteSetsExt

CONSTANTS
  TargetTransactions, TargetAddresses,   \* IVTConfig
  AllowOverride,                         \* IVTConfig.allow_governance_override
  NoticePeriod, BlendPeriod,             \* in blocks
  Metrics,                               \* UtilityMetrics, as levels of use
  Phase1Rate,                            \* the rate of the bootstrap, by block
  Phase2Rate,                            \* the rate by baseline and current use
  Observed,                              \* what update_statistics is told
  MaxTransactions, MaxHeight, MaxMinted  \* bounds

ASSUME TokenomicsAssumption ==
  /\ {TargetTransactions, TargetAddresses, NoticePeriod, BlendPeriod,
      MaxTransactions, MaxHeight, MaxMinted} \subseteq Nat
  /\ AllowOverride \in BOOLEAN
  /\ Phase1Rate \in [0..MaxHeight -> Nat]
  /\ Phase2Rate \in [Metrics \X Metrics -> Nat]
  /\ Observed \subseteq Nat

VARIABLES
  height,      \* the block the callers name
  phases,      \* the PhaseManager
  minting,     \* the MintingController beside it
  timeline     \* history: the first notice, transition and use of the index

tokenomicsVars == <<height, phases, minting, timeline>>

MintingPhase == {"Bootstrap", "UtilityDriven"}

UtilityIndex == Metrics \X Metrics    \* the baseline and the current metrics

PhaseManagerInit ==
  [current_phase |-> "Bootstrap", cumulative_transactions |-> 0,
   unique_addresses |-> 0, transition |-> {}, notice_block |-> {},
   transition_start_block |-> {}]

TokenomicsInit ==
  /\ height = 0
  /\ phases = PhaseManagerInit
  /\ minting = [utility_index |-> {}, total_minted |-> 0]
  /\ timeline = [announced |-> {}, started |-> {}, minted |-> {}]

First(earlier) == IF earlier = {} THEN {height} ELSE earlier

----------------------------------------------------------------------------
(***************************************************************************)
(* The phase manager.  A second announcement starts the notice again; a    *)
(* second transition starts the blend again, and neither execute_transition*)
(* nor the blend looks at the phase.                                       *)
(***************************************************************************)
IsIvtReached ==
  \/ phases.cumulative_transactions >= TargetTransactions
  \/ phases.unique_addresses >= TargetAddresses

UpdateStatistics(transactions, addresses) ==
  /\ phases.cumulative_transactions + transactions <= MaxTransactions
  /\ phases' = [phases EXCEPT !.cumulative_transactions = @ + transactions,
                              !.unique_addresses = Max({@, addresses})]
  /\ UNCHANGED <<height, minting, timeline>>

AnnounceTransition ==
  /\ phases.current_phase = "Bootstrap"
  /\ IsIvtReached
  /\ phases' = [phases EXCEPT !.notice_block = {height}]
  /\ timeline' = [timeline EXCEPT !.announced = First(@)]
  /\ UNCHANGED <<height, minting>>

MutantNoticePassed == phases.notice_block # {}

NoticePassed == \E b \in phases.notice_block : height >= b + NoticePeriod

StartTransition(override) ==
  /\ phases' = [phases EXCEPT
                  !.transition_start_block = {height},
                  !.transition = {[block_number |-> height,
                                   governance_override |-> override]}]
  /\ timeline' = [timeline EXCEPT !.started = First(@)]
  /\ UNCHANGED <<height, minting>>

ExecuteTransition == NoticePassed /\ StartTransition(FALSE)

ExecuteGovernanceOverride ==
  /\ AllowOverride
  /\ phases.current_phase = "Bootstrap"
  /\ StartTransition(TRUE)

PhaseAfterBlend ==
  IF \E b \in phases.transition_start_block : height - b >= BlendPeriod
    THEN "UtilityDriven"
    ELSE phases.current_phase

IsInBlendPeriod ==
  \E b \in phases.transition_start_block : height - b < BlendPeriod

(***************************************************************************)
(* calculate_blend_factor on its own: the one call that ends the bootstrap *)
(* phase.  Minting calls it during the blend period only, when it cannot.  *)
(***************************************************************************)
CalculateBlendFactor ==
  /\ phases' = [phases EXCEPT !.current_phase = PhaseAfterBlend]
  /\ UNCHANGED <<height, minting, timeline>>

----------------------------------------------------------------------------
(***************************************************************************)
(* Minting a block.  Without a utility index the blend and the second      *)
(* phase are errors, and nothing is minted.                                *)
(***************************************************************************)
SetUtilityIndex(index) ==
  /\ minting' = [minting EXCEPT !.utility_index = {index}]
  /\ UNCHANGED <<height, phases, timeline>>

Between(x, y) ==    \* the rounded sum may fall just short of equal rates
  Max({0, Min({x, y}) - 1})..Max({x, y})

UsesIndex == IsInBlendPeriod \/ phases.current_phase = "UtilityDriven"

MintingRate ==    \* the amounts get_minting_rate may return
  IF IsInBlendPeriod
    THEN UNION {Between(Phase1Rate[height], Phase2Rate[index]) :
                  index \in minting.utility_index}
  ELSE IF phases.current_phase = "Bootstrap"
    THEN {Phase1Rate[height]}
    ELSE {Phase2Rate[index] : index \in minting.utility_index}

MintForBlock ==
  /\ \E rate \in MintingRate :
       /\ minting.total_minted + rate <= MaxMinted
       /\ minting' = [minting EXCEPT !.total_minted = @ + rate]
  /\ phases' = IF IsInBlendPeriod
                 THEN [phases EXCEPT !.current_phase = PhaseAfterBlend]
                 ELSE phases
  /\ timeline' = IF UsesIndex
                   THEN [timeline EXCEPT !.minted = First(@)]
                   ELSE timeline
  /\ UNCHANGED height

NewBlock ==
  /\ height < MaxHeight
  /\ height' = height + 1
  /\ UNCHANGED <<phases, minting, timeline>>

TokenomicsNext ==
  \/ \E transactions, addresses \in Observed :
       UpdateStatistics(transactions, addresses)
  \/ AnnounceTransition
  \/ ExecuteTransition
  \/ ExecuteGovernanceOverride
  \/ CalculateBlendFactor
  \/ \E index \in UtilityIndex : SetUtilityIndex(index)
  \/ MintForBlock
  \/ NewBlock

----------------------------------------------------------------------------
(***************************************************************************)
(* The second phase is earned: a transition is governance's, where that is *)
(* allowed, or comes a full notice after an announcement, with the         *)
(* threshold reached; the utility index has a part in what is minted only  *)
(* after a transition; and the bootstrap phase ends a full blend period    *)
(* after one.  Announcements, transitions and overrides may be repeated in *)
(* any order, and each replaces the block number the next check reads.     *)
(***************************************************************************)
SecondPhaseEarned ==
  /\ \A t \in phases.transition :
       \/ t.governance_override /\ AllowOverride
       \/ /\ IsIvtReached
          /\ \E b \in timeline.announced : b + NoticePeriod <= t.block_number
  /\ \A b \in timeline.minted : \E start \in timeline.started : start <= b
  /\ phases.current_phase = "UtilityDriven" =>
       \E start \in timeline.started : start + BlendPeriod <= height

==============================================================================
