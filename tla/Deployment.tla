----------------------------- MODULE Deployment ------------------------------
(***************************************************************************)
(* The deployment manager (crates/liquidity/src/deployment.rs) and the     *)
(* pools it owns, which its owner also reaches through get_pool_mut.       *)
(*                                                                         *)
(* Percentages are counted in tenths of a percent.  Every call has the     *)
(* manager to itself (&mut self) and is one step; a call that fails in the *)
(* middle keeps what it did before.                                        *)
(***************************************************************************)
EXTENDS LiquidityPool, SequencesExt

CONSTANTS
  PoolInfo,        \* the pools that may be registered: id -> type, apy, risk
  Chosen,          \* the strategies that validators choose from
  Deployable,      \* the amounts that are deployed, deposited or withdrawn
  Delay,           \* the unbonding delays that withdrawals ask for
  MinDeployment,   \* DeploymentManager.min_deployment_per_pool
  Apys, Scores,    \* what update_apy and update_risk_score are given
  NoLimit,         \* Option::None for min_amount and max_amount
  MaxTvl,          \* bound on what was ever deposited, in all
  MaxAdjusted      \* bound on the changes of strategies and pools

Allocation ==
  [pool_type : PoolType, percentage : Nat,
   min_amount : Nat \cup {NoLimit}, max_amount : Nat \cup {NoLimit}]

ASSUME DeploymentAssumption ==
  /\ \A strategy \in Chosen : strategy \in Seq(Allocation)
  /\ Deployable \subseteq Nat /\ Delay \subseteq Nat /\ MinDeployment \in Nat
  /\ Apys \subseteq Nat /\ Scores \subseteq Nat
  /\ MaxTvl \in Nat /\ MaxAdjusted \in Nat

VARIABLES
  manager,     \* the DeploymentManager
  adjusted     \* how often a strategy or a pool was changed

Share(type, percentage) ==
  [pool_type |-> type, percentage |-> percentage,
   min_amount |-> NoLimit, max_amount |-> NoLimit]

Conservative == << Share("Treasury", 400), Share("StabilityReserve", 350),
                   Share("Lending", 200), Share("AMM", 50) >>

BalancedShares == << Share("Lending", 350), Share("AMM", 300),
                     Share("StabilityReserve", 200), Share("Treasury", 150) >>

Aggressive == << Share("AMM", 500), Share("Lending", 400),
                 Share("StabilityReserve", 100) >>

(***************************************************************************)
(* validate: the percentages add up to 100, give or take a tenth.          *)
(***************************************************************************)
Valid(strategy) ==
  FoldLeft(LAMBDA acc, a : acc + a.percentage, 0, strategy) \in 999..1001

DeploymentInit ==
  /\ manager = [pools |-> EmptyMap, strategies |-> EmptyMap]
  /\ adjusted = 0

RegisterPool(id) ==
  /\ id \notin DOMAIN manager.pools
  /\ manager' = [manager EXCEPT !.pools =
       Inserted(@, id, NewPool(PoolInfo[id].pool_type, PoolInfo[id].apy,
                               PoolInfo[id].risk_score, TRUE))]

SetStrategy(v, strategy) ==
  /\ Valid(strategy)
  /\ adjusted < MaxAdjusted
  /\ adjusted' = adjusted + 1
  /\ manager' = [manager EXCEPT !.strategies = Inserted(@, v, strategy)]

GetStrategy(v) ==
  IF v \in DOMAIN manager.strategies THEN manager.strategies[v] ELSE BalancedShares

----------------------------------------------------------------------------
(***************************************************************************)
(* calculate_allocation_amount, from the lowest bits of all three amounts: *)
(* the minimum is applied before the maximum, and a maximum of zero is no  *)
(* maximum.  Small quotients of whole percentages are exact.               *)
(***************************************************************************)
Larger(m, n) == IF m < n THEN n ELSE m

Smaller(m, n) == IF m < n THEN m ELSE n

Limit(amount) == AsU64(Digit(amount), 1, TRUE)

AllocationAmount(total, a) ==
  LET part   == Digit(total) * a.percentage
      shares == AsU64(part, 1000, a.percentage % 10 = 0 /\ part < Precision)
      least  == IF a.min_amount = NoLimit THEN {0} ELSE Limit(a.min_amount)
      most   == IF a.max_amount \in {NoLimit, 0} THEN {U64 - 1}
                ELSE Limit(a.max_amount)
  IN  {Smaller(Larger(share, low), high) :
         share \in shares, low \in least, high \in most}

(***************************************************************************)
(* One amount for each allocation of a strategy.                           *)
(***************************************************************************)
AmountChoices(total, strategy) ==
  LET possible == [i \in DOMAIN strategy |-> AllocationAmount(total, strategy[i])]
  IN  {amounts \in [DOMAIN strategy -> UNION Range(possible)] :
         \A i \in DOMAIN strategy : amounts[i] \in possible[i]}

(***************************************************************************)
(* find_best_pool walks a HashMap: any pool that no other one beats.       *)
(***************************************************************************)
Candidates(ps, type) ==
  {id \in DOMAIN ps : ps[id].pool_type = type /\ ps[id].active}

BestPools(ps, type) ==
  {id \in Candidates(ps, type) :
     \A other \in Candidates(ps, type) : ~Better(ps[other], ps[id])}

(***************************************************************************)
(* deploy_liquidity.  An allocation below the minimum is skipped; one      *)
(* whose type has no active pool ends the call, and the deposits made      *)
(* before it stay; a deposit that fails is reported and passed over.  The  *)
(* deposits change nothing that find_best_pool looks at, so one choice of  *)
(* a best pool for every type stands for the whole call.                   *)
(***************************************************************************)
BestChoices(ps) ==
  LET types == {type \in PoolType : Candidates(ps, type) # {}}
  IN  {best \in [types -> DOMAIN ps] :
         \A type \in types : best[type] \in BestPools(ps, type)}

Skipped(amount) == amount < MinDeployment

Reached(ps, strategy, amounts) ==
  LET fails == {i \in DOMAIN strategy :
                  /\ ~Skipped(amounts[i])
                  /\ Candidates(ps, strategy[i].pool_type) = {}}
  IN  IF fails = {} THEN strategy ELSE SubSeq(strategy, 1, Min(fails) - 1)

DeployTo(ps, v, amount, best, a) ==
  IF Skipped(amount)
  THEN ps
  ELSE [ps EXCEPT ![best[a.pool_type]] = Deposit(@, v, amount)]

Deployed(ps, v, amounts, best) ==
  LET allocations == Reached(ps, GetStrategy(v), amounts)
      upto[n \in 0 .. Len(allocations)] ==
        IF n = 0 THEN ps
        ELSE DeployTo(upto[n - 1], v, amounts[n], best, allocations[n])
  IN  upto[Len(allocations)]

EverDeposited(ps) ==
  SumFunction([id \in DOMAIN ps |-> ps[id].total_deposits])

DeployLiquidity(v, total) ==
  \E best \in BestChoices(manager.pools),
     amounts \in AmountChoices(total, GetStrategy(v)) :
    /\ manager' = [manager EXCEPT !.pools = Deployed(@, v, amounts, best)]
    /\ EverDeposited(manager'.pools) <= MaxTvl

WithdrawLiquidity(id, v, amount, unlock_time) ==
  /\ id \in DOMAIN manager.pools
  /\ CanRequest(manager.pools[id], v, amount)
  /\ manager' = [manager EXCEPT
                   !.pools[id] = RequestWithdrawal(@, v, amount, unlock_time)]

(***************************************************************************)
(* rebalance asks for everything the validator holds, to be released at    *)
(* Timestamp::MAX, and deploys as much again.                              *)
(***************************************************************************)
TotalDeployed(v) ==
  SumFunction([id \in DOMAIN manager.pools |-> GetBalance(manager.pools[id], v)])

Rebalance(v) ==
  LET asked == [id \in DOMAIN manager.pools |->
        LET held == GetBalance(manager.pools[id], v)
        IN  IF held = 0
            THEN manager.pools[id]
            ELSE RequestWithdrawal(manager.pools[id], v, held, Never)]
  IN  \E best \in BestChoices(asked),
         amounts \in AmountChoices(TotalDeployed(v), GetStrategy(v)) :
        /\ manager' = [manager EXCEPT !.pools = Deployed(asked, v, amounts, best)]
        /\ EverDeposited(manager'.pools) <= MaxTvl

ProcessPendingWithdrawals ==
  manager' = [manager EXCEPT !.pools =
                [id \in DOMAIN @ |-> ProcessWithdrawals(@[id], now)]]

(***************************************************************************)
(* What the owner may do to a pool through get_pool_mut.                   *)
(***************************************************************************)
DepositTo(id, v, amount) ==
  /\ CanDeposit(manager.pools[id], amount)
  /\ EverDeposited(manager.pools) + amount <= MaxTvl
  /\ manager' = [manager EXCEPT !.pools[id] = Deposit(@, v, amount)]

Adjustments(p) ==
  {CalculateYield(p, earned) : earned \in YieldOf(p, Year)}
    \cup {UpdateApy(p, apy) : apy \in Apys}
    \cup {UpdateRiskScore(p, score) : score \in Scores}
    \cup {Deactivate(p), Activate(p)}

Adjust(id) ==
  /\ adjusted < MaxAdjusted
  /\ adjusted' = adjusted + 1
  /\ \E p \in Adjustments(manager.pools[id]) :
       manager' = [manager EXCEPT !.pools[id] = p]

ManagerStep ==
  \/ \E id \in DOMAIN PoolInfo : RegisterPool(id)
  \/ \E v \in Validator, total \in Deployable : DeployLiquidity(v, total)
  \/ \E id \in DOMAIN manager.pools, v \in Validator,
        amount \in Deployable, delay \in Delay :
       WithdrawLiquidity(id, v, amount, now + delay)
  \/ \E v \in Validator : Rebalance(v)
  \/ ProcessPendingWithdrawals
  \/ \E id \in DOMAIN manager.pools, v \in Validator, amount \in Deployable :
       DepositTo(id, v, amount)

DeploymentNext ==
  \/ ManagerStep /\ UNCHANGED adjusted
  \/ \E v \in Validator, strategy \in Chosen : SetStrategy(v, strategy)
  \/ \E id \in DOMAIN manager.pools : Adjust(id)

==============================================================================
