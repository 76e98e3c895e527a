------------------------------ MODULE Treasury -------------------------------
(***************************************************************************)
(* The network treasury (crates/liquidity/src/treasury.rs).                *)
(*                                                                         *)
(* A grant is found under a hash of its recipient and of the second of its *)
(* proposal, so a second proposal in the same second replaces the first    *)
(* one, whatever its status, and leaves its reservation behind.  The grant *)
(* does not know its category: every call names one, and may name another  *)
(* than the call before.                                                   *)
(***************************************************************************)
EXTENDS LiquidityPool, Sequences

CONSTANTS
  Category,          \* the categories that callers name
  StandardCategory,  \* the ones the treasury starts with
  Budgets,           \* the amounts that set_allocation is given
  Plans,             \* the milestone sequences that proposals carry
  TreasuryDeposits,  \* the amounts that are deposited
  MaxTreasury,       \* bound on the deposits
  MaxGrants          \* bound on the proposals

ASSUME TreasuryAssumption ==
  /\ StandardCategory \subseteq Category /\ IsFiniteSet(StandardCategory)
  /\ \A plan \in Plans : plan \in Seq([amount : Nat, completed : BOOLEAN])
  /\ Budgets \subseteq Nat /\ TreasuryDeposits \subseteq Nat
  /\ MaxTreasury \in Nat /\ MaxGrants \in Nat

VARIABLES
  treasury,     \* the NetworkTreasury
  proposals     \* how many grants were proposed

NewAllocation(allocated) == [allocated |-> allocated, spent |-> 0, reserved |-> 0]

TreasuryInit ==
  /\ \E active \in BOOLEAN :
       treasury = [base |-> NewPool("Treasury", 0, 0, active),
                   grants |-> EmptyMap,
                   allocations |-> [c \in StandardCategory |-> NewAllocation(0)],
                   total_granted |-> 0, total_disbursed |-> 0]
  /\ proposals = 0

----------------------------------------------------------------------------
Available(a) ==
  IF a.allocated >= a.spent + a.reserved
  THEN a.allocated - a.spent - a.reserved
  ELSE 0

MilestoneTotal(plan) == SumFunction([i \in DOMAIN plan |-> plan[i].amount])

IsComplete(grant) == grant.current_milestone >= Len(grant.milestones)

GrantId(recipient, time) == <<recipient, time>>

NewGrant(amount, plan) ==
  [amount |-> amount, milestones |-> plan, current_milestone |-> 0,
   disbursed |-> 0, status |-> "Proposed"]

TreasuryDeposit(depositor, amount) ==
  /\ CanDeposit(treasury.base, amount)
  /\ treasury.base.tvl + amount <= MaxTreasury
  /\ treasury' = [treasury EXCEPT !.base = Deposit(@, depositor, amount)]
  /\ UNCHANGED proposals

(***************************************************************************)
(* An existing category gets the new budget, though more may be spent or   *)
(* reserved; an unknown one is created.                                    *)
(***************************************************************************)
SetAllocation(category, amount) ==
  /\ treasury' = [treasury EXCEPT !.allocations =
       Inserted(@, category,
                IF category \in DOMAIN @
                THEN [@[category] EXCEPT !.allocated = amount]
                ELSE NewAllocation(amount))]
  /\ UNCHANGED proposals

ProposeGrant(recipient, amount, plan, category) ==
  /\ proposals < MaxGrants
  /\ category \in DOMAIN treasury.allocations
  /\ Available(treasury.allocations[category]) >= amount
  /\ MilestoneTotal(plan) = amount
  /\ treasury' = [treasury EXCEPT
       !.allocations[category].reserved = @ + amount,
       !.grants = Inserted(@, GrantId(recipient, now), NewGrant(amount, plan))]
  /\ proposals' = proposals + 1

ApproveGrant(id) ==
  /\ id \in DOMAIN treasury.grants
  /\ treasury.grants[id].status = "Proposed"
  /\ treasury' = [treasury EXCEPT
       !.grants[id].status = "Approved",
       !.total_granted = @ + treasury.grants[id].amount]
  /\ UNCHANGED proposals

----------------------------------------------------------------------------
(***************************************************************************)
(* disburse_milestone.  The grant is changed first; then the category is   *)
(* looked up and charged, and then its reservation lowered.  Where one of  *)
(* the later steps fails, what the earlier ones changed stays.             *)
(***************************************************************************)
Paid(grant) ==
  LET paid == [grant EXCEPT
        !.milestones[grant.current_milestone + 1].completed = TRUE,
        !.disbursed =
           @ + grant.milestones[grant.current_milestone + 1].amount,
        !.current_milestone = @ + 1]
  IN  [paid EXCEPT !.status =
         IF IsComplete(paid) THEN "Completed"
         ELSE IF paid.current_milestone = 1 THEN "Active" ELSE @]

Charge(t, category, amount) ==
  IF category \notin DOMAIN t.allocations
  THEN t
  ELSE LET charged == [t EXCEPT !.allocations[category].spent = @ + amount]
       IN  IF t.allocations[category].reserved < amount
           THEN charged
           ELSE [charged EXCEPT !.allocations[category].reserved = @ - amount,
                                !.total_disbursed = @ + amount]

MutantDisbursable(grant) == grant.status \in {"Proposed", "Approved", "Active"}

Disbursable(grant) == grant.status \in {"Approved", "Active"}

DisburseMilestone(id, category) ==
  /\ id \in DOMAIN treasury.grants
  /\ Disbursable(treasury.grants[id])
  /\ LET grant == treasury.grants[id]
         next == grant.current_milestone + 1
     IN  \/ /\ IsComplete(grant)
            /\ treasury' = [treasury EXCEPT !.grants[id].status = "Completed"]
         \/ /\ ~IsComplete(grant)
            /\ ~grant.milestones[next].completed
            /\ treasury' = Charge([treasury EXCEPT !.grants[id] = Paid(grant)],
                                  category, grant.milestones[next].amount)
  /\ UNCHANGED proposals

(***************************************************************************)
(* cancel_grant releases what is left of the grant from the category that  *)
(* the call names, or all that category reserves when it reserves less.    *)
(***************************************************************************)
CancelGrant(id, category) ==
  /\ id \in DOMAIN treasury.grants
  /\ treasury.grants[id].status \notin {"Completed", "Cancelled"}
  /\ category \in DOMAIN treasury.allocations
  /\ LET grant == treasury.grants[id]
         unreleased == grant.amount - grant.disbursed
     IN  treasury' = [treasury EXCEPT
           !.allocations[category].reserved =
              IF @ >= unreleased THEN @ - unreleased ELSE 0,
           !.grants[id].status = "Cancelled"]
  /\ UNCHANGED proposals

TreasuryNext ==
  \/ \E v \in Validator, amount \in TreasuryDeposits : TreasuryDeposit(v, amount)
  \/ \E c \in Category, amount \in Budgets : SetAllocation(c, amount)
  \/ \E v \in Validator, amount \in Budgets, plan \in Plans, c \in Category :
       ProposeGrant(v, amount, plan, c)
  \/ \E id \in DOMAIN treasury.grants : ApproveGrant(id)
  \/ \E id \in DOMAIN treasury.grants, c \in Category : DisburseMilestone(id, c)
  \/ \E id \in DOMAIN treasury.grants, c \in Category : CancelGrant(id, c)

----------------------------------------------------------------------------
(***************************************************************************)
(* The treasury never reports more disbursed than governance granted, nor  *)
(* more than the categories were charged, and no grant pays out more than  *)
(* its amount: through disbursements that fail half-way, that name another *)
(* category, grants that replace one another and cancellations.            *)
(***************************************************************************)
Charged ==
  SumFunction([c \in DOMAIN treasury.allocations |-> treasury.allocations[c].spent])

DisbursedWithinGranted ==
  /\ treasury.total_disbursed <= treasury.total_granted
  /\ treasury.total_disbursed <= Charged
  /\ \A id \in DOMAIN treasury.grants :
       treasury.grants[id].disbursed <= treasury.grants[id].amount

==============================================================================
