------------------------------- MODULE Lending -------------------------------
(***************************************************************************)
(* The lending pool (crates/liquidity/src/lending.rs).                     *)
(*                                                                         *)
(* A loan is found under its id, a hash of the borrower and of the second  *)
(* in which he borrows: a second loan in the same second replaces the      *)
(* first, while the total borrowed keeps both.  Interest is accrued only   *)
(* by repay; liquidate judges the debt as it was last accrued.             *)
(***************************************************************************)
EXTENDS LiquidityPool, Sequences

CONSTANTS
  LoanAmounts,           \* the amounts that callers name
  Collaterals,           \* the collaterals that borrowers offer
  BaseRate, OptimalUtilization, RateAtOptimal, MaxRate,   \* InterestRate
  CollateralRatio,       \* LendingPool.collateral_ratio, in basis points
  LiquidationThreshold,  \* LendingPool.liquidation_threshold, likewise
  MaxSupply              \* bound on what is supplied

ASSUME LendingAssumption ==
  /\ LoanAmounts \subseteq Nat /\ Collaterals \subseteq Nat
  /\ {BaseRate, RateAtOptimal, MaxRate} \subseteq Nat
  /\ BaseRate <= RateAtOptimal /\ RateAtOptimal <= MaxRate
  /\ OptimalUtilization \in 1..9999
  /\ CollateralRatio \in Nat /\ LiquidationThreshold \in Nat
  /\ MaxSupply \in Nat

VARIABLE lending    \* the LendingPool

LendingInit ==
  \E active \in BOOLEAN :
    lending = [base |-> NewPool("Lending", 0, 0, active),
               loans |-> EmptyMap, total_borrowed |-> 0, total_supplied |-> 0]

----------------------------------------------------------------------------
(***************************************************************************)
(* utilization_rate in basis points, a u16.  It is a ratio of lowest bits, *)
(* and exceeds one when those of the supply have wrapped around.           *)
(***************************************************************************)
UtilizationBp ==
  IF lending.total_supplied = 0
  THEN {0}
  ELSE LET borrowed == Digit(lending.total_borrowed)
           supplied == Digit(lending.total_supplied)
       IN  AsU16(borrowed * BasisPoints, supplied, borrowed % supplied = 0)

(***************************************************************************)
(* calculate_rate: the rate rises by `part' out of `whole' of the way from *)
(* one rate to the next, in u16, which wraps around.                       *)
(***************************************************************************)
Interpolated(from, to, part, whole) ==
  {(from + rise) % 65536 :
     rise \in AsU16((to - from) * part, whole, part % whole = 0)}

CalculateRate(util_bp) ==
  IF util_bp <= OptimalUtilization
  THEN Interpolated(BaseRate, RateAtOptimal, util_bp, OptimalUtilization)
  ELSE Interpolated(RateAtOptimal, MaxRate, util_bp - OptimalUtilization,
               BasisPoints - OptimalUtilization)

CurrentRates == UNION {CalculateRate(util_bp) : util_bp \in UtilizationBp}

AvailableLiquidity ==
  IF lending.total_supplied >= lending.total_borrowed
  THEN lending.total_supplied - lending.total_borrowed
  ELSE 0

RequiredCollateral(amount) ==
  AsU64(Digit(amount) * CollateralRatio, BasisPoints,
        CollateralRatio % BasisPoints = 0)

LoanId(borrower, time) == <<borrower, time>>

NewLoan(principal, collateral, rate) ==
  [principal |-> principal, interest |-> 0, collateral |-> collateral,
   rate |-> rate, last_accrual |-> now, status |-> "Active"]

TotalDebt(loan) == loan.principal + loan.interest

Accruals(loan) ==
  {[loan EXCEPT !.interest = @ + due, !.last_accrual = now] :
     due \in AsU64(Digit(loan.principal) * loan.rate * (now - loan.last_accrual),
                   BasisPoints * Year, FALSE)}

(***************************************************************************)
(* health_factor < liquidation_threshold, over the lowest bits; a debt     *)
(* whose lowest bits are zero is never liquidatable.  Next to the          *)
(* threshold the rounding decides: the condition says when it may hold.    *)
(***************************************************************************)
IsLiquidatable(loan) ==
  LET debt     == Digit(TotalDebt(loan))
      required == LiquidationThreshold * debt
  IN  /\ loan.status = "Active"
      /\ debt # 0
      /\ Digit(loan.collateral) * BasisPoints < required + required \div Precision

----------------------------------------------------------------------------
Supply(supplier, amount) ==
  /\ CanDeposit(lending.base, amount)
  /\ lending.total_supplied + amount <= MaxSupply
  /\ lending' = [lending EXCEPT !.base = Deposit(@, supplier, amount),
                                !.total_supplied = @ + amount]

Borrow(borrower, amount, collateral) ==
  /\ AvailableLiquidity >= amount
  /\ \E required \in RequiredCollateral(amount) : collateral >= required
  /\ \E rate \in CurrentRates :
       lending' = [lending EXCEPT
         !.total_borrowed = @ + amount,
         !.loans = Inserted(@, LoanId(borrower, now),
                            NewLoan(amount, collateral, rate))]

(***************************************************************************)
(* The loan is changed in place before the total is: when the total cannot *)
(* be lowered the call fails and the changed loan stays.                   *)
(***************************************************************************)
Lowered(total, amount) == IF total >= amount THEN total - amount ELSE total

MutantFullyRepaid(loan) ==
  [lending EXCEPT !.total_borrowed = Lowered(@, TotalDebt(loan))]

FullyRepaid(loan) ==
  [lending EXCEPT !.total_borrowed = Lowered(@, loan.principal)]

Repay(id, amount) ==
  /\ id \in DOMAIN lending.loans
  /\ lending.loans[id].status = "Active"
  /\ \E loan \in Accruals(lending.loans[id]) :
       \/ /\ amount >= TotalDebt(loan)
          /\ lending' = [FullyRepaid(loan) EXCEPT
                           !.loans[id] = [loan EXCEPT !.status = "Repaid"]]
       \/ /\ amount < TotalDebt(loan)
          /\ amount <= loan.interest
          /\ lending' = [lending EXCEPT
                           !.loans[id] = [loan EXCEPT !.interest = @ - amount]]
       \/ /\ amount < TotalDebt(loan)
          /\ amount > loan.interest
          /\ LET payment == amount - loan.interest
             IN  lending' = [lending EXCEPT
                   !.loans[id] = [loan EXCEPT !.interest = 0,
                                              !.principal = @ - payment],
                   !.total_borrowed = Lowered(@, payment)]

Liquidate(id) ==
  /\ id \in DOMAIN lending.loans
  /\ IsLiquidatable(lending.loans[id])
  /\ lending' = [lending EXCEPT
       !.loans[id].status = "Liquidated",
       !.total_borrowed = Lowered(@, lending.loans[id].principal)]

LendingNext ==
  \/ \E v \in Validator, amount \in LoanAmounts : Supply(v, amount)
  \/ \E v \in Validator, amount \in LoanAmounts, collateral \in Collaterals :
       Borrow(v, amount, collateral)
  \/ \E id \in DOMAIN lending.loans, amount \in LoanAmounts : Repay(id, amount)
  \/ \E id \in DOMAIN lending.loans : Liquidate(id)

----------------------------------------------------------------------------
(***************************************************************************)
(* The total borrowed stands for at least the principal of every active    *)
(* loan and never exceeds what was supplied, through accrual, partial and  *)
(* full repayment, liquidation and loans that replace one another: no      *)
(* repayment and no liquidation fails half-way because the total is too    *)
(* small, and borrow lends no more than was supplied and is not on loan.   *)
(* (A liquidation takes the loan off the total although nothing was paid   *)
(* back; the collateral goes to the caller.)                               *)
(***************************************************************************)
ActivePrincipal ==
  SumFunction([id \in {id \in DOMAIN lending.loans : lending.loans[id].status = "Active"} |->
                 lending.loans[id].principal])

LoansCovered ==
  /\ ActivePrincipal <= lending.total_borrowed
  /\ lending.total_borrowed <= lending.total_supplied
  /\ lending.total_supplied = lending.base.total_deposits

==============================================================================
