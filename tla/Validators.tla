----------------------------- MODULE Validators -----------------------------
(***************************************************************************)
(* The validator set, slashing and the selection of proposers              *)
(* (crates/consensus/src/validator.rs, slashing.rs and selection.rs).      *)
(*                                                                         *)
(* A registry is a record: the ValidatorSet (`validators') and the fields  *)
(* of the SlashingManager.  The operations are operators from a registry   *)
(* to a registry.  Stakes are BigUint; where the code takes their first    *)
(* digit, that is the stake modulo U64.                                    *)
(*                                                                         *)
(* Floating-point expressions are the exact quotients they approximate.    *)
(* Left out: commission rates and time stamps, which nothing here reads,   *)
(* and liquidity_deployed and utility_score, so that weights are those of  *)
(* validators with a score of zero.                                        *)
(***************************************************************************)
EXTENDS Integers, Sequences, FiniteSets, FiniteSetsExt, Functions

CONSTANTS
  Address,             \* addresses of validators
  NoValidator,         \* no entry in the validator set
  U64,                 \* number of values of an unsigned 64-bit integer
  MinStake,            \* ConsensusConfig.min_stake
  UnbondingPeriod,     \* ConsensusConfig.unbonding_period
  MaxDowntimeBlocks,   \* ConsensusConfig.max_downtime_blocks
  BlocksPerDay         \* 28800 in the code

ASSUME ValidatorsAssumption ==
  /\ IsFiniteSet(Address)
  /\ U64 \in Nat \ {0}
  /\ MinStake \in Nat
  /\ UnbondingPeriod \in Nat
  /\ MaxDowntimeBlocks \in Nat
  /\ BlocksPerDay \in Nat \ {0}

Status == {"Active", "Inactive", "Unbonding", "Slashed"}

(***************************************************************************)
(* `unlock_time' belongs to the status Unbonding and is 0 otherwise.       *)
(***************************************************************************)
ValidatorInfo ==
  [stake : Nat, status : Status, unlock_time : Nat,
   blocks_produced : Nat, blocks_missed : Nat]

ASSUME NoValidatorAssumption == ~ (NoValidator \in ValidatorInfo)

NewValidator(stake) ==
  [stake |-> stake, status |-> "Active", unlock_time |-> 0,
   blocks_produced |-> 0, blocks_missed |-> 0]

CanProduceBlocks(v) == v.status = "Active" /\ v.stake # 0

(***************************************************************************)
(* update_uptime, and the uptime in basis points that it leaves.           *)
(***************************************************************************)
UpdateUptime(v, produced) ==
  IF produced THEN [v EXCEPT !.blocks_produced = @ + 1]
  ELSE [v EXCEPT !.blocks_missed = @ + 1]

Uptime(v) ==
  LET total == v.blocks_produced + v.blocks_missed
  IN  IF total = 0 THEN 10000 ELSE (v.blocks_produced * 10000) \div total

(***************************************************************************)
(* remove_stake of any part of the stake starts the unbonding of the       *)
(* validator; process_unbonding ends it, at epoch transitions.             *)
(***************************************************************************)
RemoveStake(v, amount, now) ==
  [v EXCEPT !.stake = @ - amount, !.status = "Unbonding", !.unlock_time = now + UnbondingPeriod]

Unlocked(v, now) == v # NoValidator /\ v.status = "Unbonding" /\ now >= v.unlock_time

ProcessUnbonding(validators, now) ==
  [a \in Address |->
     IF Unlocked(validators[a], now)
     THEN [validators[a] EXCEPT !.status = "Inactive", !.unlock_time = 0]
     ELSE validators[a]]
-----------------------------------------------------------------------------
(***************************************************************************)
(* SlashingCondition: what was done, and for ExtendedDowntime how long.    *)
(***************************************************************************)
Kind == {"DoubleSigning", "ExtendedDowntime", "LiquidityMismanagement", "GovernanceAttack"}

Offense(kind, days) == [kind |-> kind, days |-> days]

BasePenaltyRate(condition) ==
  CASE condition.kind = "DoubleSigning"          -> 500
    [] condition.kind = "ExtendedDowntime"       -> Min({10 * condition.days, 10000})
    [] condition.kind = "LiquidityMismanagement" -> 1000
    [] condition.kind = "GovernanceAttack"       -> 10000

(***************************************************************************)
(* Twice the severity multiplier: 1 + 0.5 for every previous offense, at   *)
(* most 3.                                                                 *)
(***************************************************************************)
TwiceSeverity(previous_offenses) == Min({2 + previous_offenses, 6})

CalculateSlashAmount(stake, condition, previous_offenses) ==
  LET low  == stake % U64
      base == (low * BasePenaltyRate(condition)) \div 10000
  IN  Min({(base * TwiceSeverity(previous_offenses)) \div 2, low})

(***************************************************************************)
(* slash_validator of a registered validator.  The insurance fund gets 30  *)
(* of 100, 50 are burnt, and the whistleblower's 20 go nowhere.            *)
(***************************************************************************)
MutantPenalty(r, a, condition) ==
  [validator |-> a, condition |-> condition.kind, previous_offenses |-> Len(r.history),
   amount |-> CalculateSlashAmount(r.validators[a].stake, condition, r.offense_count[a])]

Penalty(r, a, condition) ==
  [validator |-> a, condition |-> condition.kind, previous_offenses |-> r.offense_count[a],
   amount |-> CalculateSlashAmount(r.validators[a].stake, condition, r.offense_count[a])]

MutantSlashedValidator(v, condition, amount) ==
  IF condition.kind = "GovernanceAttack" THEN [v EXCEPT !.status = "Slashed", !.unlock_time = 0]
  ELSE [v EXCEPT !.stake = @ - amount]

SlashedValidator(v, condition, amount) ==
  [v EXCEPT !.stake = @ - amount,
            !.status = IF condition.kind = "GovernanceAttack" THEN "Slashed" ELSE @,
            !.unlock_time = IF condition.kind = "GovernanceAttack" THEN 0 ELSE @]

SlashValidator(r, a, condition) ==
  LET penalty == Penalty(r, a, condition)
  IN  [validators     |-> [r.validators EXCEPT
                             ![a] = SlashedValidator(@, condition, penalty.amount)],
       offense_count  |-> [r.offense_count EXCEPT ![a] = @ + 1],
       history        |-> Append(r.history, penalty),
       insurance_fund |-> r.insurance_fund + (penalty.amount * 30) \div 100,
       total_slashed  |-> r.total_slashed + penalty.amount,
       total_burned   |-> r.total_burned + (penalty.amount * 50) \div 100]

(***************************************************************************)
(* check_downtime_slashing: all misses count, ever, for every block that   *)
(* the validator has finalized from then on.                               *)
(***************************************************************************)
DaysDown(v) == v.blocks_missed \div BlocksPerDay

CheckDowntimeSlashing(r, a) ==
  IF r.validators[a].blocks_missed >= MaxDowntimeBlocks /\ DaysDown(r.validators[a]) > 0
  THEN SlashValidator(r, a, Offense("ExtendedDowntime", DaysDown(r.validators[a])))
  ELSE r
-----------------------------------------------------------------------------
(***************************************************************************)
(* select_for_slot over the active validators in some order: their order   *)
(* in the HashMap, which is not the same everywhere.                       *)
(***************************************************************************)
CalculateWeight(v) ==
  IF v # NoValidator /\ CanProduceBlocks(v) THEN ((v.stake % U64) * Uptime(v)) \div 10000 ELSE 0

Eligible(validators) == {a \in Address : CalculateWeight(validators[a]) > 0}

Orders(S) ==
  {order \in [1 .. Cardinality(S) -> S] : \A i, j \in DOMAIN order : order[i] = order[j] => i = j}

Accumulated(validators, order, i) ==
  SumFunctionOnSet([j \in DOMAIN order |-> CalculateWeight(validators[order[j]])], 1 .. i)

TotalWeight(validators, order) == Accumulated(validators, order, Len(order))

MutantSelectForSlot(validators, order, slot) ==
  LET selection == slot % TotalWeight(validators, order)
  IN  order[Min({i \in DOMAIN order : selection <= Accumulated(validators, order, i)})]

SelectForSlot(validators, order, slot) ==
  LET selection == slot % TotalWeight(validators, order)
  IN  order[Min({i \in DOMAIN order : selection < Accumulated(validators, order, i)})]
=============================================================================
