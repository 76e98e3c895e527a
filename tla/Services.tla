------------------------------ MODULE Services -------------------------------
(***************************************************************************)
(* The services beside the chain: the products of the liquidity crate,     *)
(* each over a pool of its own, minting, and the contract executor.  The   *)
(* node calls none of them yet, and they share no state but the clock of   *)
(* the pools: a behaviour is that of one of them, chosen at the start.     *)
(***************************************************************************)
EXTENDS AMM, Lending, Treasury, Deployment, Tokenomics, Contracts

CONSTANT MaxTime    \* bound on the clock

ASSUME ServicesAssumption == MaxTime \in Nat /\ MaxTime < Never

VARIABLE service    \* the service this behaviour is about

productVars == <<amm, calls, lending, treasury, proposals, manager, adjusted>>

vars == <<now, service, productVars, tokenomicsVars, evm>>

Service == {"AMM", "Lending", "Treasury", "Deployment", "Tokenomics",
            "Contracts"}

Init ==
  /\ now = 0
  /\ service \in Service
  /\ AMMInit /\ LendingInit /\ TreasuryInit /\ DeploymentInit
  /\ TokenomicsInit /\ ContractsInit
  /\ service # "AMM" => amm.base.active
  /\ service # "Lending" => lending.base.active
  /\ service # "Treasury" => treasury.base.active
  /\ service # "Contracts" => \A a \in Account : evm.balances[a] = 0

Tick ==
  /\ service \in {"AMM", "Lending", "Treasury", "Deployment"}
  /\ now < MaxTime
  /\ now' = now + 1
  /\ UNCHANGED <<service, productVars, tokenomicsVars, evm>>

ProductStep ==
  \/ /\ service = "AMM" /\ AMMNext
     /\ UNCHANGED <<lending, treasury, proposals, manager, adjusted>>
  \/ /\ service = "Lending" /\ LendingNext
     /\ UNCHANGED <<amm, calls, treasury, proposals, manager, adjusted>>
  \/ /\ service = "Treasury" /\ TreasuryNext
     /\ UNCHANGED <<amm, calls, lending, manager, adjusted>>
  \/ /\ service = "Deployment" /\ DeploymentNext
     /\ UNCHANGED <<amm, calls, lending, treasury, proposals>>

Next ==
  \/ ProductStep /\ UNCHANGED <<now, service, tokenomicsVars, evm>>
  \/ /\ service = "Tokenomics" /\ TokenomicsNext
     /\ UNCHANGED <<now, service, productVars, evm>>
  \/ /\ service = "Contracts" /\ ContractsNext
     /\ UNCHANGED <<now, service, productVars, tokenomicsVars>>
  \/ Tick

Spec == Init /\ [][Next]_vars

----------------------------------------------------------------------------
(***************************************************************************)
(* Every pool is balanced, whether its owner or a product moves it: its    *)
(* tvl is what the validators hold in it, what was deposited is held or    *)
(* was withdrawn, and every waiting withdrawal can be paid when its time   *)
(* comes (request_withdrawal checks one request at a time, and             *)
(* process_withdrawals would leave one it cannot pay waiting for ever).    *)
(***************************************************************************)
PoolsBalanced ==
  /\ Balanced(amm.base) /\ Balanced(lending.base) /\ Balanced(treasury.base)
  /\ \A id \in DOMAIN manager.pools : Balanced(manager.pools[id])

==============================================================================
