--------------------------------- MODULE AMM ---------------------------------
(***************************************************************************)
(* The constant-product market (crates/liquidity/src/amm.rs).              *)
(*                                                                         *)
(* Amounts, reserves and shares are of any size, but shares, payouts and   *)
(* quotes are computed in f64 from their lowest 64 bits alone, rounded     *)
(* either way: a payout can exceed a reserve.  A method that fails keeps   *)
(* what it changed before.  It fails between the two reserves, when the    *)
(* second cannot pay, and in the base pool, when that was handed over      *)
(* inactive or when the caller holds less in it than the shares he names   *)
(* are worth (shares belong to nobody).  The market never processes the    *)
(* withdrawals of its base pool.                                           *)
(***************************************************************************)
EXTENDS LiquidityPool

CONSTANTS
  Amounts,       \* the amounts and shares that callers name, zero among them
  FeeRate,       \* AMMPool.fee_rate, in basis points
  Unbonding,     \* the seven days of remove_liquidity
  MaxCalls       \* bound on the calls that change the market

ASSUME AMMAssumption ==
  /\ Amounts \subseteq Nat
  /\ FeeRate \in 0..10000
  /\ Unbonding \in Nat /\ MaxCalls \in Nat

VARIABLES
  amm,           \* the AMMPool
  calls          \* how many calls have changed it

Side == {"a", "b"}

Other(side) == IF side = "a" THEN "b" ELSE "a"

AMMInit ==
  /\ \E active \in BOOLEAN :
       amm = [base |-> NewPool("AMM", 0, 0, active),
              reserve |-> [side \in Side |-> 0],
              total_shares |-> 0]
  /\ calls = 0

----------------------------------------------------------------------------
(***************************************************************************)
(* calculate_ratio, as a pair: zero over an empty amount.  The lowest bits *)
(* of an amount that is not empty can still be zero: the ratio is infinite *)
(* then, or not a number when both are, which f64::min passes over.        *)
(***************************************************************************)
Ratio(num, den) == IF den = 0 THEN <<0, 1>> ELSE <<Digit(num), Digit(den)>>

NotANumber(r) == r[1] = 0 /\ r[2] = 0

SmallerRatio(r, s) ==
  IF NotANumber(s) \/ (~NotANumber(r) /\ r[1] * s[2] <= s[1] * r[2])
  THEN r ELSE s

(***************************************************************************)
(* (value * ratio) as u64.  A whole ratio is computed exactly.             *)
(***************************************************************************)
Scaled(value, ratio) ==
  AsU64(Digit(value) * ratio[1], ratio[2], ratio[1] % ratio[2] = 0)

(***************************************************************************)
(* The shares of the first deposit are the root of the product; later ones *)
(* are proportional to the smaller of the two ratios.                      *)
(***************************************************************************)
Root(n) == CHOOSE r \in 0..n : r * r <= n /\ (r + 1) * (r + 1) > n

FirstShares(amount) ==
  LET product == Digit(amount["a"]) * Digit(amount["b"])
  IN  IF product < Precision
      THEN {Root(product)}
      ELSE {Clamped(r, U64 - 1) : r \in Near(Root(product))}

NewShares(amount) ==
  IF amm.total_shares = 0
  THEN FirstShares(amount)
  ELSE Scaled(amm.total_shares,
              SmallerRatio(Ratio(amount["a"], amm.reserve["a"]),
                           Ratio(amount["b"], amm.reserve["b"])))

AddLiquidity(provider, amount) ==
  /\ \A side \in Side : amount[side] # 0
  /\ \E shares \in NewShares(amount) :
       amm' = [base |-> Deposit(amm.base, provider, amount["a"] + amount["b"]),
               reserve |-> [side \in Side |-> amm.reserve[side] + amount[side]],
               total_shares |-> amm.total_shares + shares]

(***************************************************************************)
(* A payout that exceeds reserve_a ends the call before it changes         *)
(* anything; one that exceeds reserve_b ends it with reserve_a lowered.    *)
(***************************************************************************)
Payout(side, shares) ==
  Scaled(amm.reserve[side], Ratio(shares, amm.total_shares))

RemoveLiquidity(provider, shares) ==
  /\ shares # 0
  /\ shares <= amm.total_shares
  /\ \E a \in Payout("a", shares), b \in Payout("b", shares) :
       /\ a <= amm.reserve["a"]
       /\ \/ /\ b > amm.reserve["b"]
             /\ amm' = [amm EXCEPT !.reserve["a"] = @ - a]
          \/ /\ b <= amm.reserve["b"]
             /\ amm' = [base |-> RequestWithdrawal(amm.base, provider, a + b,
                                                   now + Unbonding),
                        reserve |-> [amm.reserve EXCEPT !["a"] = @ - a,
                                                        !["b"] = @ - b],
                        total_shares |-> amm.total_shares - shares]

----------------------------------------------------------------------------
(***************************************************************************)
(* out = reserve_out * in * (1 - fee) / (reserve_in + in * (1 - fee)); an  *)
(* empty reserve_in counts as one.  When reserve_out cannot pay it, the    *)
(* call fails and reserve_in keeps the amount.                             *)
(***************************************************************************)
SwapQuote(side, amount_in) ==
  LET paid == Digit(amount_in) * (BasisPoints - FeeRate)
      held == IF amm.reserve[side] = 0 THEN 1 ELSE Digit(amm.reserve[side])
  IN  AsU64(Digit(amm.reserve[Other(side)]) * paid, held * BasisPoints + paid,
            FALSE)

Swap(side, amount_in, min_amount_out) ==
  /\ amount_in # 0
  /\ \E out \in SwapQuote(side, amount_in) :
       /\ out >= min_amount_out
       /\ \/ /\ out > amm.reserve[Other(side)]
             /\ amm' = [amm EXCEPT !.reserve[side] = @ + amount_in]
          \/ /\ out <= amm.reserve[Other(side)]
             /\ amm' = [amm EXCEPT !.reserve[side] = @ + amount_in,
                                   !.reserve[Other(side)] = @ - out]

AMMNext ==
  /\ calls < MaxCalls
  /\ calls' = calls + 1
  /\ \/ \E v \in Validator, amount \in [Side -> Amounts] : AddLiquidity(v, amount)
     \/ \E v \in Validator, shares \in Amounts : RemoveLiquidity(v, shares)
     \/ \E side \in Side, amount, least \in Amounts : Swap(side, amount, least)

==============================================================================
