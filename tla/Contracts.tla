------------------------------ MODULE Contracts ------------------------------
(***************************************************************************)
(* The contract executor (crates/smart-contracts/src/vm.rs and state.rs).  *)
(*                                                                         *)
(* execute transfers the value before it runs the call, and nothing undoes *)
(* the transfer when the call then fails.  A deployment names no target,   *)
(* so its value goes from the deployer to the deployer, who ends up richer *)
(* by it, and the contract starts with the same value once more.  Bytecode *)
(* is not interpreted: a call of a contract needs a selector and gas, and  *)
(* one of a precompile needs gas and, for blake2f, an input of its length. *)
(* Storage is left out: no call reads or writes a slot.                    *)
(***************************************************************************)
EXTENDS Integers, FiniteSets

CONSTANTS
  Account,                    \* the callers
  Precompile,                 \* the addresses of the registry
  NoTarget,                   \* the target of a deployment
  Values,                     \* the values of calls
  GasLimits,                  \* their gas limits
  TxGas, TxCreateGas,         \* GasConfig
  CreateGas, CallGas,         \* creation, and running a contract's code
  PrecompileGas,              \* what a precompile charges
  EstimationGas,              \* the limit of estimate_gas
  MaxNonce, MaxBalance        \* bounds

VARIABLE evm    \* the EVMState

CreateAddress(deployer, nonce) == <<deployer, nonce>>    \* a hash, collision-free

Created == {CreateAddress(a, n) : a \in Account, n \in 0..MaxNonce}

Addresses == Account \cup Precompile \cup Created

ASSUME ContractsAssumption ==
  /\ {TxGas, TxCreateGas, CreateGas, CallGas, PrecompileGas, EstimationGas,
      MaxNonce, MaxBalance} \subseteq Nat
  /\ NoTarget \notin Addresses
  /\ Values \subseteq Nat /\ GasLimits \subseteq Nat

ContractCall ==    \* "accepted": the callee takes data of this form
  [from : Account, to : Addresses \cup {NoTarget}, accepted : BOOLEAN,
   value : Values, gas_limit : GasLimits]

IsDeployment(call) == call.to = NoTarget

ContractsInit ==
  \E funds \in [Account -> Values] :
    evm = [contracts |-> {},
           balances |-> [a \in Addresses |-> IF a \in Account THEN funds[a] ELSE 0],
           nonces |-> [a \in Account |-> 0]]

----------------------------------------------------------------------------
(***************************************************************************)
(* The steps of execute, each from a state to a state or an error.  An     *)
(* error keeps the state it was met in.                                    *)
(***************************************************************************)
Ok(s) == [state |-> s, error |-> FALSE]
Err(s) == [state |-> s, error |-> TRUE]

CanTransfer(s, from, value) == s.balances[from] >= value

Transfer(s, from, to, value) ==    \* both balances are read before the writes
  [s EXCEPT !.balances = [@ EXCEPT ![from] = s.balances[from] - value,
                                   ![to]   = s.balances[to] + value]]

DeployContract(s, deployer, value) ==
  LET address == CreateAddress(deployer, s.nonces[deployer])
  IN [s EXCEPT !.contracts = @ \cup {address},
               !.balances[address] = value,
               !.nonces[deployer] = @ + 1]

ExecuteDeployment(s, call, used) ==
  IF \/ used + CreateGas > call.gas_limit
     \/ CreateAddress(call.from, s.nonces[call.from]) \in s.contracts
    THEN Err(s)
    ELSE Ok(DeployContract(s, call.from, call.value))

ExecutePrecompile(s, call, used) ==
  IF ~call.accepted \/ used + PrecompileGas > call.gas_limit
    THEN Err(s)
    ELSE Ok(s)

ExecuteContractCode(s, call, used) ==
  IF ~call.accepted \/ used + CallGas > call.gas_limit
    THEN Err(s)
    ELSE Ok(s)

ExecuteCall(s, call, used) ==
  IF call.to \in Precompile THEN ExecutePrecompile(s, call, used)
  ELSE IF call.to \notin s.contracts THEN Ok(s)
  ELSE ExecuteContractCode(s, call, used)

BaseTxGas(call) ==    \* with what the bytes of its data cost
  TxGas + IF IsDeployment(call) THEN TxCreateGas ELSE 0

Executed(s, call) ==
  LET used == BaseTxGas(call)
      to == IF IsDeployment(call) THEN call.from ELSE call.to
      paid == IF call.value = 0 THEN s ELSE Transfer(s, call.from, to, call.value)
  IN IF used > call.gas_limit \/ ~CanTransfer(s, call.from, call.value)
       THEN Err(s)
     ELSE IF IsDeployment(call) THEN ExecuteDeployment(paid, call, used)
     ELSE ExecuteCall(paid, call, used)

----------------------------------------------------------------------------
Bounded(s) ==
  /\ \A a \in Account : s.nonces[a] <= MaxNonce
  /\ \A a \in Addresses : s.balances[a] <= MaxBalance

Execute(call) ==
  LET result == Executed(evm, call)
  IN Bounded(result.state) /\ evm' = result.state

MutantEstimated(call) ==
  LET result == Executed(evm, [call EXCEPT !.gas_limit = EstimationGas])
  IN IF result.error
       THEN result.state
       ELSE [evm EXCEPT !.nonces = result.state.nonces]

(***************************************************************************)
(* estimate_gas puts the state back when the call succeeds; an error       *)
(* returns before that, and a transfer made on the way stays.              *)
(***************************************************************************)
Estimated(call) ==
  LET result == Executed(evm, [call EXCEPT !.gas_limit = EstimationGas])
  IN IF result.error THEN result.state ELSE evm

EstimateGas(call) == Bounded(Estimated(call)) /\ evm' = Estimated(call)

ContractsNext == \E call \in ContractCall : Execute(call) \/ EstimateGas(call)

----------------------------------------------------------------------------
(***************************************************************************)
(* An account's contracts are numbered by its nonce, without a gap and     *)
(* without one the nonce has not reached: the address of a deployment is   *)
(* computed from a nonce that is written only after the creation gas, the  *)
(* collision check and the insertion, and estimates run the same steps on  *)
(* the same state.  Otherwise a deployment would meet a contract at its    *)
(* address, and the account could never deploy again.                      *)
(***************************************************************************)
DeploymentsNumbered ==
  \A a \in Account :
    {n \in 0..MaxNonce : CreateAddress(a, n) \in evm.contracts}
      = 0..(evm.nonces[a] - 1)

==============================================================================
