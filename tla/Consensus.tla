----------------------------- MODULE Consensus -----------------------------
(***************************************************************************)
(* The PoAS consensus engine of one node (crates/consensus/src/poas.rs),   *)
(* with the fork choice and fork history of                                *)
(* crates/blockchain-core/src/fork.rs and the registry of Validators.      *)
(*                                                                         *)
(* The blocks of the network are a constant tree, any of which the node    *)
(* may receive at any time.  `head' is the block its caller follows: it    *)
(* moves to a child that validate_block accepts, which is then finalized,  *)
(* or to the other side of a reorganisation that apply_reorg decides for.  *)
(* The engine has one owner, who calls one method at a time.               *)
(*                                                                         *)
(* Time stamps within validate_block's tolerance are taken for granted;    *)
(* its fork detection never fires, because a block that validates has      *)
(* `parent' as its parent.  slash_for_wrong_fork has its default, true.    *)
(***************************************************************************)
EXTENDS Validators, ForkLimits

CONSTANTS
  Hash,             \* the blocks of the network
  Genesis,          \* the genesis block
  Ancestors,        \* the blocks from a block down to the genesis block
  Number,           \* header.number
  Proposer,         \* header.proposer
  MaxNumber,        \* the highest number
  FinalityBlocks,   \* ConsensusConfig.finality_blocks
  BlocksPerEpoch,   \* 28800 in the code
  MaxHistory,       \* how many forks the fork history keeps (100)
  MaxCount,         \* ConsensusConfig.max_validator_count
  None,             \* Option::None
  Deposits,         \* stakes that are bonded or added
  Withdrawals,      \* amounts of stake or insurance that are taken out
  Statuses,         \* the statuses an operator sets
  Reports,          \* the offenses that are reported
  Checkpoints,      \* the block numbers that are justified
  MaxBonded,        \* bound on the total ever bonded
  MaxProduced,      \* bound on blocks_produced before another block
  MaxMissed,        \* bound on blocks_missed
  MaxOffenses,      \* bound on the slashing history before another report or miss
  MaxForks,         \* bound on fork_frequency
  MaxTime           \* bound on the clock

(***************************************************************************)
(* The ancestors of a block are a chain down to the genesis block, with    *)
(* one block of every number.                                              *)
(***************************************************************************)
ASSUME TreeAssumption ==
  /\ Genesis \in Hash
  /\ Number \in [Hash -> 0 .. MaxNumber]
  /\ Ancestors \in [Hash -> SUBSET Hash]
  /\ \A h \in Hash :
       /\ h \in Ancestors[h] /\ Genesis \in Ancestors[h]
       /\ \A g \in Ancestors[h] :
            /\ Ancestors[g] = {f \in Ancestors[h] : Number[f] <= Number[g]}
            /\ Number[g] = Number[h] => g = h
       /\ \A n \in 0 .. Number[h] : \E g \in Ancestors[h] : Number[g] = n
  /\ Number[Genesis] = 0

ASSUME ConsensusAssumption ==
  /\ IsFiniteSet(Hash)
  /\ Proposer \in [Hash -> Address]
  /\ MaxNumber \in Nat
  /\ FinalityBlocks \in Nat /\ BlocksPerEpoch \in Nat \ {0}
  /\ MaxHistory \in Nat \ {0} /\ MaxCount \in Nat
  /\ ~ (None \in Nat)
  /\ Deposits \subseteq Nat /\ Withdrawals \subseteq Nat
  /\ Statuses \subseteq {"Active", "Inactive", "Slashed"}
  /\ Reports \subseteq {"DoubleSigning", "LiquidityMismanagement", "GovernanceAttack"}
  /\ Checkpoints \subseteq Nat
  /\ MaxBonded \in Nat /\ MaxOffenses \in Nat
  /\ MaxProduced \in Nat /\ MaxMissed \in Nat
  /\ MaxForks \in Nat /\ MaxTime \in Nat

VARIABLES
  registry,            \* the validator set and the slashing manager
  head,                \* the block the caller follows
  highest_justified,   \* number of the highest justified checkpoint, or None
  fork_history,        \* what the fork resolver remembers
  fork_frequency,      \* metric: forks seen
  now,                 \* the clock
  bonded,              \* history: total stake ever bonded
  released             \* history: total stake and insurance that has left

vars == <<registry, head, highest_justified, fork_history, fork_frequency, now, bonded, released>>

forks == <<head, highest_justified, fork_history, fork_frequency>>

EmptyRegistry ==
  [validators |-> [a \in Address |-> NoValidator],
   offense_count |-> [a \in Address |-> 0], history |-> <<>>,
   insurance_fund |-> 0, total_slashed |-> 0, total_burned |-> 0]

Init ==
  /\ registry = EmptyRegistry
  /\ head = Genesis
  /\ highest_justified = None
  /\ fork_history = <<>> /\ fork_frequency = 0
  /\ now = 0
  /\ bonded = 0 /\ released = [stake |-> 0, insurance |-> 0]

Registered(a) == registry.validators[a] # NoValidator
-----------------------------------------------------------------------------
(***************************************************************************)
(* The life of a validator.                                                *)
(***************************************************************************)
RegisterValidator(a, stake) ==
  /\ bonded + stake <= MaxBonded
  /\ Cardinality({b \in Address : Registered(b)}) < MaxCount
  /\ ~ Registered(a)
  /\ stake >= MinStake
  /\ registry' = [registry EXCEPT !.validators[a] = NewValidator(stake)]
  /\ bonded' = bonded + stake
  /\ UNCHANGED <<forks, now, released>>

UnregisterValidator(a) ==
  /\ Registered(a)
  /\ registry' = [registry EXCEPT !.validators[a] = NoValidator]
  /\ released' = [released EXCEPT !.stake = @ + registry.validators[a].stake]
  /\ UNCHANGED <<forks, now, bonded>>

Update(a, v) == registry' = [registry EXCEPT !.validators[a] = v]

AddStake(a, amount) ==
  /\ bonded + amount <= MaxBonded
  /\ Registered(a)
  /\ Update(a, [registry.validators[a] EXCEPT !.stake = @ + amount])
  /\ bonded' = bonded + amount
  /\ UNCHANGED <<forks, now, released>>

StartUnbonding(a, amount) ==
  /\ Registered(a)
  /\ registry.validators[a].stake >= amount
  /\ Update(a, RemoveStake(registry.validators[a], amount, now))
  /\ released' = [released EXCEPT !.stake = @ + amount]
  /\ UNCHANGED <<forks, now, bonded>>

(***************************************************************************)
(* update_status, by an operator: maintenance and back.                    *)
(***************************************************************************)
UpdateStatus(a, status) ==
  /\ Registered(a)
  /\ Update(a, [registry.validators[a] EXCEPT !.status = status, !.unlock_time = 0])
  /\ UNCHANGED <<forks, now, bonded, released>>

MissBlock(a) ==
  /\ Registered(a)
  /\ registry.validators[a].blocks_missed < MaxMissed
  /\ Update(a, UpdateUptime(registry.validators[a], FALSE))
  /\ UNCHANGED <<forks, now, bonded, released>>

ReportOffense(a, kind) ==
  /\ Len(registry.history) < MaxOffenses
  /\ Registered(a)
  /\ registry' = SlashValidator(registry, a, Offense(kind, 0))
  /\ UNCHANGED <<forks, now, bonded, released>>

WithdrawInsurance(amount) ==
  /\ registry.insurance_fund >= amount
  /\ registry' = [registry EXCEPT !.insurance_fund = @ - amount]
  /\ released' = [released EXCEPT !.insurance = @ + amount]
  /\ UNCHANGED <<forks, now, bonded>>
-----------------------------------------------------------------------------
(***************************************************************************)
(* verify_chain_canonical: the block is not the tip of a remembered fork   *)
(* that lost.                                                              *)
(***************************************************************************)
Lost(info) == info.fork_length <= info.main_length

VerifyChainCanonical(h) ==
  \A i \in 1 .. Len(fork_history) : ~ (fork_history[i].fork_tip = h /\ Lost(fork_history[i]))

(***************************************************************************)
(* produce_block on the head.  Whether the proposer is a validator is not  *)
(* checked; its statistics count the block twice.  The pool it drains is   *)
(* the one of Mempool and no part of this module; the block that comes out *)
(* is one of the tree.                                                     *)
(***************************************************************************)
MoreBlocks(a) == Registered(a) => registry.validators[a].blocks_produced < MaxProduced

ProduceBlock(proposer) ==
  /\ VerifyChainCanonical(head)
  /\ MoreBlocks(proposer)
  /\ IF Registered(proposer)
     THEN Update(proposer, UpdateUptime(UpdateUptime(registry.validators[proposer], TRUE), TRUE))
     ELSE UNCHANGED registry
  /\ UNCHANGED <<forks, now, bonded, released>>

(***************************************************************************)
(* A child of the head passes validate_block and goes through              *)
(* finalize_block.                                                         *)
(***************************************************************************)
ParentOf(h) == {g \in Ancestors[h] : Number[g] = Number[h] - 1}

ProposerFinalized(h) ==
  CheckDowntimeSlashing(
    [registry EXCEPT !.validators[Proposer[h]] = UpdateUptime(@, TRUE)],
    Proposer[h])

ExtendHead(h) ==
  /\ head \in ParentOf(h)
  /\ Registered(Proposer[h]) /\ MoreBlocks(Proposer[h])
  /\ CanProduceBlocks(registry.validators[Proposer[h]])
  /\ registry' = IF Number[h] % BlocksPerEpoch = 0
                 THEN [ProposerFinalized(h) EXCEPT !.validators = ProcessUnbonding(@, now)]
                 ELSE ProposerFinalized(h)
  /\ head' = h
  /\ UNCHANGED <<highest_justified, fork_history, fork_frequency, now, bonded, released>>

(***************************************************************************)
(* update_justified_checkpoint, of a block the caller has on its chain.    *)
(***************************************************************************)
MutantMaxOf(j, n) == n

MaxOf(j, n) == IF j = None THEN n ELSE Max({j, n})

UpdateJustifiedCheckpoint(n) ==
  /\ n <= Number[head]
  /\ highest_justified' = MaxOf(highest_justified, n)
  /\ UNCHANGED <<registry, head, fork_history, fork_frequency, now, bonded, released>>

IsFinalized(n) ==
  IF highest_justified # None THEN n <= highest_justified
  ELSE Number[head] >= n + FinalityBlocks
-----------------------------------------------------------------------------
(***************************************************************************)
(* calculate_reorg_path from the head to a block.  The ancestor it finds   *)
(* is the one of ForkResolver: the last common block of branches of        *)
(* different heights, unless a limit is met; the genesis block for         *)
(* branches of equal heights.                                              *)
(***************************************************************************)
Common(g, h) == Ancestors[g] \cap Ancestors[h]

ForkPoint(g, h) == CHOOSE f \in Common(g, h) : \A e \in Common(g, h) : Number[e] <= Number[f]

FindCommonAncestor(g, h) ==
  LET higher == Max({Number[g], Number[h]})
      lower  == Min({Number[g], Number[h]})
      fork   == ForkPoint(g, h)
  IN  IF higher = lower
      THEN IF higher <= SearchLimit THEN {Genesis} ELSE {}
      ELSE IF higher - Number[fork] <= Min({SearchLimit, lower + 1}) THEN {fork} ELSE {}

Above(h, ancestor) == Ancestors[h] \ Ancestors[ancestor]

(***************************************************************************)
(* apply_reorg: the number of the common ancestor as it computes it, and   *)
(* the check against the justified checkpoint.                             *)
(***************************************************************************)
AncestorNumber(revert, apply) ==
  Min({Number[b] : b \in IF revert # {} THEN revert ELSE apply}) - 1

MutantKeepsJustified(n) == highest_justified # None => n + 1 >= highest_justified

KeepsJustified(n) == highest_justified # None => n >= highest_justified

(***************************************************************************)
(* The proposers taken for double-signers are slashed in the order of the  *)
(* blocks to apply, once for every block that has a counterpart of the     *)
(* same number and proposer among the blocks to revert.                    *)
(***************************************************************************)
Accused(revert, apply, n) ==
  {Proposer[b] : b \in {b \in apply :
     Number[b] = n /\ \E r \in revert : Number[r] = n /\ Proposer[r] = Proposer[b]}}

SlashDoubleSigners(revert, apply) ==
  LET upto[n \in 0 .. MaxNumber] ==
        IF n = 0 THEN registry
        ELSE LET accused == {a \in Accused(revert, apply, n) : upto[n - 1].validators[a] # NoValidator}
             IN  IF accused = {} THEN upto[n - 1]
                 ELSE SlashValidator(upto[n - 1], CHOOSE a \in accused : TRUE,
                                     Offense("DoubleSigning", 0))
  IN  upto[MaxNumber]

(***************************************************************************)
(* record_fork, with its bounded history.                                  *)
(***************************************************************************)
RecordFork(info) ==
  IF Len(fork_history) = MaxHistory
  THEN Append(Tail(fork_history), info) ELSE Append(fork_history, info)

ForkInfo(ancestor, h, revert, apply) ==
  [main_tip |-> IF revert = {} THEN ancestor ELSE head,
   fork_tip |-> IF apply = {} THEN ancestor ELSE h,
   main_length |-> Cardinality(revert), fork_length |-> Cardinality(apply)]

MutantChooseChain(revert, apply) == Cardinality(apply) >= Cardinality(revert)

ChooseChain(revert, apply) == apply # {} /\ Cardinality(apply) > Cardinality(revert)

(***************************************************************************)
(* The caller reorganises to another block h.  (With h = head the path     *)
(* would go down to the genesis block and up again, and the head be        *)
(* recorded as a fork that lost.)  The callback that persists the fork     *)
(* event may fail, with the slashing done and the fork recorded; the       *)
(* caller then stays where it is, and may try again.                       *)
(***************************************************************************)
Reorganise(h, ancestor, persisted) ==
  LET revert == Above(head, ancestor)
      apply  == Above(h, ancestor)
  IN  /\ fork_frequency < MaxForks
      /\ h # head
      /\ revert \cup apply # {}
      /\ Cardinality(revert) <= MaxReorgDepth
      /\ KeepsJustified(AncestorNumber(revert, apply))
      /\ registry' = SlashDoubleSigners(revert, apply)
      /\ fork_history' = RecordFork(ForkInfo(ancestor, h, revert, apply))
      /\ fork_frequency' = fork_frequency + 1
      /\ head' = IF persisted /\ ChooseChain(revert, apply) THEN h ELSE head
      /\ UNCHANGED <<highest_justified, now, bonded, released>>

Tick ==
  /\ now < MaxTime
  /\ now' = now + 1
  /\ UNCHANGED <<registry, forks, bonded, released>>
-----------------------------------------------------------------------------
Next ==
  \/ \E a \in Address, stake \in Deposits : RegisterValidator(a, stake)
  \/ \E a \in Address : UnregisterValidator(a)
  \/ \E a \in Address, amount \in Deposits : AddStake(a, amount)
  \/ \E a \in Address, amount \in Withdrawals : StartUnbonding(a, amount)
  \/ \E a \in Address, status \in Statuses : UpdateStatus(a, status)
  \/ \E a \in Address : MissBlock(a)
  \/ \E a \in Address, kind \in Reports : ReportOffense(a, kind)
  \/ \E amount \in Withdrawals : WithdrawInsurance(amount)
  \/ \E a \in Address : ProduceBlock(a)
  \/ \E h \in Hash : ExtendHead(h)
  \/ \E n \in Checkpoints : UpdateJustifiedCheckpoint(n)
  \/ \E h \in Hash, persisted \in BOOLEAN :
       \E ancestor \in FindCommonAncestor(head, h) : Reorganise(h, ancestor, persisted)
  \/ Tick

Spec == Init /\ [][Next]_vars
-----------------------------------------------------------------------------
Registry ==
  [validators : [Address -> ValidatorInfo \cup {NoValidator}],
   offense_count : [Address -> Nat],
   history : Seq([validator : Address, condition : Kind, previous_offenses : Nat, amount : Nat]),
   insurance_fund : Nat, total_slashed : Nat, total_burned : Nat]

ForkInfos ==
  [main_tip : Hash, fork_tip : Hash, main_length : Nat, fork_length : Nat]

(***************************************************************************)
(* The engine has its type; no stake and no fund is ever negative.         *)
(***************************************************************************)
TypeOK ==
  /\ registry \in Registry
  /\ head \in Hash
  /\ highest_justified \in Nat \cup {None}
  /\ fork_history \in Seq(ForkInfos) /\ Len(fork_history) <= MaxHistory
  /\ fork_frequency \in Nat
  /\ now \in 0 .. MaxTime
  /\ bonded \in Nat
  /\ released \in [stake : Nat, insurance : Nat]

(***************************************************************************)
(* Once a checkpoint is justified, a block of the node's chain that        *)
(* is_finalized reports final is never reverted, whatever forks appear.    *)
(***************************************************************************)
FinalStays ==
  [][ highest_justified # None =>
        \A b \in Ancestors[head] : IsFinalized(Number[b]) =>
          b \in Ancestors[head'] /\ IsFinalized(Number[b])' ]_vars

(***************************************************************************)
(* The node's own head never counts as the tip of a fork that lost, so     *)
(* verify_before_produce never stops it from building on its head,         *)
(* whichever forks it has seen, refused or failed to persist.              *)
(***************************************************************************)
HeadCanonical == VerifyChainCanonical(head)

PenaltiesOf(history, a, n) == {i \in 1 .. n : history[i].validator = a}

Escalates(r) ==
  /\ \A a \in Address : r.offense_count[a] = Cardinality(PenaltiesOf(r.history, a, Len(r.history)))
  /\ \A i \in 1 .. Len(r.history) :
       r.history[i].previous_offenses =
         Cardinality(PenaltiesOf(r.history, r.history[i].validator, i - 1))

(***************************************************************************)
(* The i-th penalty of a validator was given for i - 1 previous offenses,  *)
(* and offense_count has counted them all, through unregistering and       *)
(* registering again: the severity of a penalty never starts over.         *)
(***************************************************************************)
OffensesEscalate == Escalates(registry)

Stakes(validators) ==
  [a \in Address |-> IF validators[a] = NoValidator THEN 0 ELSE validators[a].stake]

(***************************************************************************)
(* Every stake bonded is still bonded, was released, or was slashed; the   *)
(* insurance fund, with what was withdrawn from it, and what was burnt     *)
(* never exceed what was slashed.                                          *)
(***************************************************************************)
StakeAccounted ==
  /\ bonded = registry.total_slashed + released.stake + SumFunction(Stakes(registry.validators))
  /\ registry.insurance_fund + released.insurance + registry.total_burned
       <= registry.total_slashed

(***************************************************************************)
(* In whatever order the validators are visited, every validator is the    *)
(* proposer of as many of the slots of a round as its weight.              *)
(***************************************************************************)
SlotsProportional ==
  LET validators == registry.validators
  IN  \A order \in Orders(Eligible(validators)), a \in Eligible(validators) :
        Cardinality({slot \in 0 .. TotalWeight(validators, order) - 1 :
                       SelectForSlot(validators, order, slot) = a})
          = CalculateWeight(validators[a])

(***************************************************************************)
(* What the code does not do.  "Detect double-signing: same proposer       *)
(* produced blocks at same height on both sides" (apply_reorg): who is     *)
(* slashed for it has proposed two blocks of one number.                   *)
(***************************************************************************)
OnlyEquivocatorsSlashed ==
  \A i \in 1 .. Len(registry.history) :
    registry.history[i].condition = "DoubleSigning" =>
      \E g, h \in Hash :
        /\ g # h /\ Number[g] = Number[h]
        /\ Proposer[g] = registry.history[i].validator
        /\ Proposer[h] = registry.history[i].validator
=============================================================================
