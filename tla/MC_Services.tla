---------------------------- MODULE MC_Services ------------------------------
(***************************************************************************)
(* A small instance of Services: some amounts exceed U64, so that their    *)
(* lowest bits are few or zero, and some products exceed Precision, so     *)
(* that quotients round either way; the lending rates make interest of     *)
(* small loans, the plans hold an empty one and one with a milestone that  *)
(* is done beforehand, and two lending pools compete for the manager's     *)
(* deposits.  The chain is long enough for a second notice and a second    *)
(* blend, and an account can deploy, estimate a second deployment, send    *)
(* value ahead to an address, and run out of gas.                          *)
(***************************************************************************)
EXTENDS Services

MCSymmetry == Permutations(Validator)

MCMilestone(amount, completed) == [amount |-> amount, completed |-> completed]

MCPlans == {<<>>, <<MCMilestone(1, TRUE)>>,
            <<MCMilestone(1, FALSE), MCMilestone(1, FALSE)>>,
            <<MCMilestone(1, FALSE)>>}

MCPoolInfo ==
  [id \in {1, 2, 3} |->
     CASE id = 1 -> [pool_type |-> "Lending", apy |-> 2000, risk_score |-> 100]
       [] id = 2 -> [pool_type |-> "Lending", apy |-> 2000, risk_score |-> 0]
       [] OTHER  -> [pool_type |-> "AMM", apy |-> 2000, risk_score |-> 200]]

MCLimited(type, percentage, least, most) ==
  [pool_type |-> type, percentage |-> percentage,
   min_amount |-> least, max_amount |-> most]

MCChosen ==
  {Conservative, Aggressive,
   <<MCLimited("Lending", 500, 2, 6), Share("AMM", 500)>>,
   <<MCLimited("AMM", 500, 1, 1)>>}

MCPhase1Rate == [b \in 0..MaxHeight |-> IF b = 0 THEN 2 ELSE 1]

MCPhase2Rate == [use \in Metrics \X Metrics |-> IF use[1] = 0 THEN 1 ELSE 0]

==============================================================================
