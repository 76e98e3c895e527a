---------------------------- MODULE LiquidityPool ----------------------------
(***************************************************************************)
(* The pool that every product of the liquidity crate is built on          *)
(* (crates/liquidity/src/pool.rs), as a record; its methods are operators  *)
(* from a pool to a pool, with the condition under which a call succeeds   *)
(* beside them.  A failed call leaves the pool as it was.                  *)
(*                                                                         *)
(* depositor_count and avg_deposit are left out: deposit looks for the     *)
(* depositor after it has inserted him, so both are always zero.           *)
(***************************************************************************)
EXTENDS Integers, FiniteSets, Functions

CONSTANTS
  Validator,    \* the addresses that deposit, provide, borrow or receive
  Year,         \* the length of a year on the clock
  Never,        \* Timestamp::MAX, later than the clock ever is
  U64,          \* number of values of an unsigned 64-bit integer
  Precision     \* an f64 computation is off by at most one part in so many

ASSUME PoolAssumption ==
  /\ Year \in Nat \ {0} /\ Never \in Nat
  /\ U64 \in Nat \ {0} /\ Precision \in Nat /\ Precision > 65535

VARIABLE now    \* current_timestamp()

PoolType == {"AMM", "Lending", "Treasury", "StabilityReserve"}

BasisPoints == 10000

EmptyMap == [k \in {} |-> 0]

(***************************************************************************)
(* map.insert(k, e): whatever the map held under k is replaced.            *)
(***************************************************************************)
Inserted(map, k, e) ==
  [x \in DOMAIN map \cup {k} |-> IF x = k THEN e ELSE map[x]]

(***************************************************************************)
(* amount.inner().to_u64_digits().first(): the lowest 64 bits of a BigUint *)
(* and nothing of the rest.  Zero has no digits; where the code gives it a *)
(* default other than 0, the caller says so.                               *)
(***************************************************************************)
Digit(n) == n % U64

Clamped(r, max) == IF r < 0 THEN 0 ELSE IF r > max THEN max ELSE r

(***************************************************************************)
(* The integers that a chain of f64 operations of exact value num / den    *)
(* can be cast to.  The cast truncates, and saturates at max; by a divisor *)
(* of zero it gives max (infinity), or 0 (NaN) when the dividend is zero.  *)
(* A value that is not whole lies further from the next integer than the   *)
(* rounding error while num < Precision, and a whole one may be rounded    *)
(* below itself, unless the caller knows that it is computed `exact'-ly;   *)
(* beyond that the rounding goes either way.                               *)
(***************************************************************************)
Near(q) ==
  LET error == 1 + q \div Precision IN (q - error)..(q + error)

Rounded(num, den, exact) ==
  LET q == num \div den
  IN  IF num % den = 0 /\ exact /\ q < Precision THEN {q}
      ELSE IF num >= Precision THEN Near(q)
      ELSE IF num % den = 0 THEN {q - 1, q}
      ELSE {q}

Truncated(num, den, exact, max) ==
  IF den = 0
  THEN {IF num = 0 THEN 0 ELSE max}
  ELSE {Clamped(r, max) : r \in Rounded(num, den, exact)}

AsU64(num, den, exact) == Truncated(num, den, exact, U64 - 1)

AsU16(num, den, exact) == Truncated(num, den, exact, 65535)

NewPool(type, apy, risk_score, active) ==
  [pool_type |-> type, apy |-> apy, risk_score |-> risk_score,
   active |-> active, tvl |-> 0, total_deposits |-> 0, total_withdrawals |-> 0,
   total_yield |-> 0, deposits |-> EmptyMap, pending |-> EmptyMap]

GetBalance(p, v) == IF v \in DOMAIN p.deposits THEN p.deposits[v] ELSE 0

CanDeposit(p, amount) == p.active /\ amount # 0

Deposit(p, v, amount) ==
  IF CanDeposit(p, amount)
  THEN [p EXCEPT
          !.deposits = Inserted(@, v, GetBalance(p, v) + amount),
          !.tvl = @ + amount,
          !.total_deposits = @ + amount]
  ELSE p

(***************************************************************************)
(* The balance is checked against this request alone, and the request      *)
(* replaces the one that is waiting.                                       *)
(***************************************************************************)
CanRequest(p, v, amount) == GetBalance(p, v) >= amount

MutantRequestAdds(p, v, amount, unlock_time) ==
  IF CanRequest(p, v, amount)
  THEN LET waiting == IF v \in DOMAIN p.pending THEN p.pending[v].amount ELSE 0
       IN  [p EXCEPT !.pending =
              Inserted(@, v, [amount |-> waiting + amount,
                              unlock_time |-> unlock_time])]
  ELSE p

RequestWithdrawal(p, v, amount, unlock_time) ==
  IF CanRequest(p, v, amount)
  THEN [p EXCEPT !.pending =
          Inserted(@, v, [amount |-> amount, unlock_time |-> unlock_time])]
  ELSE p

(***************************************************************************)
(* A request whose validator never deposited (for nothing: his balance is  *)
(* zero) or whose balance no longer covers it stays where it is.  The pool *)
(* holds what its validators hold (Balanced), so that subtracting from it  *)
(* one by one and all at once is the same.                                 *)
(***************************************************************************)
Ready(p, time) ==
  {v \in DOMAIN p.pending \cap DOMAIN p.deposits :
     /\ time >= p.pending[v].unlock_time
     /\ p.deposits[v] >= p.pending[v].amount}

ProcessWithdrawals(p, time) ==
  LET ready == Ready(p, time)
      total == SumFunction([v \in ready |-> p.pending[v].amount])
  IN  [p EXCEPT
         !.deposits = [v \in DOMAIN @ |->
                         IF v \in ready THEN @[v] - p.pending[v].amount
                                        ELSE @[v]],
         !.tvl = IF @ >= total THEN @ - total ELSE @,
         !.total_withdrawals = @ + total,
         !.pending = Restrict(@, DOMAIN @ \ ready)]

YieldOf(p, elapsed) ==
  AsU64(Digit(p.tvl) * p.apy * elapsed, BasisPoints * Year, FALSE)

CalculateYield(p, earned) == [p EXCEPT !.total_yield = @ + earned]

UpdateApy(p, apy) == [p EXCEPT !.apy = apy]

UpdateRiskScore(p, score) ==
  [p EXCEPT !.risk_score = IF score > BasisPoints THEN BasisPoints ELSE score]

Deactivate(p) == [p EXCEPT !.active = FALSE]

Activate(p) == [p EXCEPT !.active = TRUE]

(***************************************************************************)
(* risk_adjusted_return(p) > risk_adjusted_return(q), where the return is  *)
(* the apy itself when the score is zero and apy / (score / 100) otherwise *)
(***************************************************************************)
Returns(p) ==
  IF p.risk_score = 0 THEN <<p.apy, 1>> ELSE <<p.apy * 100, p.risk_score>>

Better(p, q) ==
  LET a == Returns(p)
      b == Returns(q)
  IN  a[1] * b[2] > b[1] * a[2]

(***************************************************************************)
(* What is right of one pool: its total is what the validators hold, what  *)
(* was paid in is held or was paid out, and every waiting withdrawal can   *)
(* be paid.                                                                *)
(***************************************************************************)
Balanced(p) ==
  /\ p.tvl = SumFunction(p.deposits)
  /\ p.total_deposits = p.tvl + p.total_withdrawals
  /\ \A v \in DOMAIN p.pending : p.pending[v].amount <= GetBalance(p, v)

==============================================================================
