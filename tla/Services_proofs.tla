--------------------------- MODULE Services_proofs ---------------------------
(***************************************************************************)
(* For every value of the constants: the second phase of minting is        *)
(* earned, contracts are numbered by their deployers' nonces, every pool   *)
(* is balanced, loans are covered, and grants are never overdrawn.         *)
(***************************************************************************)
EXTENDS Services, Sums_proofs

(***************************************************************************)
(* A step of the services leaves minting alone or is a step of it, and the *)
(* same holds of the executor (Next composes them).                        *)
(***************************************************************************)
LEMMA OneServiceMoves ==
  ASSUME [Next]_vars
  PROVE  /\ TokenomicsNext \/ UNCHANGED tokenomicsVars
         /\ ContractsNext \/ UNCHANGED evm
<1>1. CASE ProductStep /\ UNCHANGED <<now, service, tokenomicsVars, evm>>
  BY <1>1
<1>2. CASE service = "Tokenomics" /\ TokenomicsNext /\ UNCHANGED evm
  BY <1>2
<1>3. CASE service = "Contracts" /\ ContractsNext /\ UNCHANGED tokenomicsVars
  BY <1>3
<1>4. CASE Tick
  BY <1>4 DEF Tick
<1>5. CASE UNCHANGED vars
  BY <1>5 DEF vars
<1> QED
  BY <1>1, <1>2, <1>3, <1>4, <1>5 DEF Next

----------------------------------------------------------------------------
(***************************************************************************)
(* What the manager remembers is backed by the history: a notice by an     *)
(* announcement made with the threshold reached, a start by a transition.  *)
(***************************************************************************)
Statistics ==
  /\ height \in Nat
  /\ phases.current_phase \in MintingPhase
  /\ phases.cumulative_transactions \in Nat
  /\ phases.unique_addresses \in Nat

NoticesBacked ==
  \A n \in phases.notice_block :
    /\ n \in Nat /\ IsIvtReached
    /\ \E b \in timeline.announced : b \in Nat /\ b <= n

StartsBacked ==
  \A s \in phases.transition_start_block :
    s \in Nat /\ \E f \in timeline.started : f \in Nat /\ f <= s /\ s <= height

HistoryPast ==
  \A b \in timeline.announced \cup timeline.started \cup timeline.minted :
    b \in Nat /\ b <= height

Fields ==
  /\ phases = [current_phase |-> phases.current_phase,
               cumulative_transactions |-> phases.cumulative_transactions,
               unique_addresses |-> phases.unique_addresses,
               transition |-> phases.transition,
               notice_block |-> phases.notice_block,
               transition_start_block |-> phases.transition_start_block]
  /\ timeline = [announced |-> timeline.announced,
                 started |-> timeline.started, minted |-> timeline.minted]

TokenomicsInv ==
  /\ Fields /\ Statistics /\ HistoryPast /\ NoticesBacked /\ StartsBacked
  /\ \A t \in phases.transition : t.block_number \in Nat
  /\ SecondPhaseEarned

(***************************************************************************)
(* The larger of two statistics is no smaller than the one kept so far     *)
(* (update_statistics).                                                    *)
(***************************************************************************)
LEMMA MaxOfTwo ==
  ASSUME NEW x \in Nat, NEW y \in Nat
  PROVE  Max({x, y}) \in Nat /\ Max({x, y}) >= x
<1> DEFINE m == IF x >= y THEN x ELSE y
<1>1. m \in {x, y} /\ \A z \in {x, y} : m >= z
  OBVIOUS
<1>2. Max({x, y}) \in {x, y} /\ \A z \in {x, y} : Max({x, y}) >= z
  BY <1>1 DEF Max
<1> QED
  BY <1>2

LEMMA TokenomicsInitially == Init => TokenomicsInv
BY DEF Init, TokenomicsInit, PhaseManagerInit, TokenomicsInv, Fields, Statistics,
       MintingPhase, HistoryPast, NoticesBacked, StartsBacked, SecondPhaseEarned

LEMMA TokenomicsStep ==
  ASSUME TokenomicsInv, TokenomicsNext
  PROVE  TokenomicsInv'
<1> USE TokenomicsAssumption
<1> USE DEF TokenomicsInv, Fields, Statistics, HistoryPast, MintingPhase
<1>1. ASSUME NEW n \in Observed, NEW a \in Observed, UpdateStatistics(n, a)
      PROVE  TokenomicsInv'
  <2>1. Max({phases.unique_addresses, a}) \in Nat
        /\ Max({phases.unique_addresses, a}) >= phases.unique_addresses
    BY MaxOfTwo
  <2>2. phases'.cumulative_transactions = phases.cumulative_transactions + n
        /\ phases'.unique_addresses = Max({phases.unique_addresses, a})
        /\ phases'.current_phase = phases.current_phase
        /\ phases'.transition = phases.transition
        /\ phases'.notice_block = phases.notice_block
        /\ phases'.transition_start_block = phases.transition_start_block
        /\ UNCHANGED <<height, timeline>>
    BY <1>1 DEF UpdateStatistics
  <2>3. Fields'
    BY <1>1 DEF UpdateStatistics
  <2>4. IsIvtReached => IsIvtReached'
    BY <2>1, <2>2 DEF IsIvtReached
  <2> QED
    BY <2>1, <2>2, <2>3, <2>4
    DEF NoticesBacked, StartsBacked, SecondPhaseEarned
<1>2. CASE AnnounceTransition
  <2>1. phases'.cumulative_transactions = phases.cumulative_transactions
        /\ phases'.unique_addresses = phases.unique_addresses
        /\ phases'.current_phase = phases.current_phase
        /\ phases'.transition = phases.transition
        /\ phases'.notice_block = {height}
        /\ phases'.transition_start_block = phases.transition_start_block
        /\ timeline'.announced = First(timeline.announced)
        /\ timeline'.started = timeline.started
        /\ timeline'.minted = timeline.minted
        /\ height' = height
    BY <1>2 DEF AnnounceTransition
  <2>2. Fields'
    BY <1>2 DEF AnnounceTransition
  <2>3. IsIvtReached /\ IsIvtReached'
    BY <1>2, <2>1 DEF AnnounceTransition, IsIvtReached
  <2> QED
    BY <2>1, <2>2, <2>3
    DEF First, NoticesBacked, StartsBacked, SecondPhaseEarned
<1>3. ASSUME NEW o \in BOOLEAN, StartTransition(o),
             o => AllowOverride, ~o => NoticePassed
      PROVE  TokenomicsInv'
  <2>1. phases'.cumulative_transactions = phases.cumulative_transactions
        /\ phases'.unique_addresses = phases.unique_addresses
        /\ phases'.current_phase = phases.current_phase
        /\ phases'.transition = {[block_number |-> height,
                                  governance_override |-> o]}
        /\ phases'.notice_block = phases.notice_block
        /\ phases'.transition_start_block = {height}
        /\ timeline'.announced = timeline.announced
        /\ timeline'.started = First(timeline.started)
        /\ timeline'.minted = timeline.minted
        /\ height' = height
    BY <1>3 DEF StartTransition
  <2>2. Fields'
    BY <1>3 DEF StartTransition
  <2>3. IsIvtReached' <=> IsIvtReached
    BY <2>1 DEF IsIvtReached
  <2>4. NoticesBacked' /\ StartsBacked' /\ Statistics' /\ HistoryPast'
    BY <2>1, <2>3 DEF First, NoticesBacked, StartsBacked
  <2>5. \A t \in phases'.transition :
          \/ t.governance_override /\ AllowOverride
          \/ /\ IsIvtReached'
             /\ \E b \in timeline'.announced : b + NoticePeriod <= t.block_number
    <3>1. CASE o
      BY <3>1, <1>3, <2>1
    <3>2. CASE ~o
      BY <3>2, <1>3, <2>1, <2>3 DEF NoticePassed, NoticesBacked
    <3> QED
      BY <3>1, <3>2
  <2> QED
    BY <2>1, <2>2, <2>3, <2>4, <2>5 DEF First, SecondPhaseEarned
<1>4. CASE CalculateBlendFactor
  <2>1. phases'.cumulative_transactions = phases.cumulative_transactions
        /\ phases'.unique_addresses = phases.unique_addresses
        /\ phases'.current_phase = PhaseAfterBlend
        /\ phases'.transition = phases.transition
        /\ phases'.notice_block = phases.notice_block
        /\ phases'.transition_start_block = phases.transition_start_block
        /\ UNCHANGED <<height, timeline>>
    BY <1>4 DEF CalculateBlendFactor
  <2>2. Fields'
    BY <1>4 DEF CalculateBlendFactor
  <2>3. IsIvtReached' <=> IsIvtReached
    BY <2>1 DEF IsIvtReached
  <2>4. NoticesBacked' /\ StartsBacked' /\ Statistics' /\ HistoryPast'
    BY <2>1, <2>3 DEF NoticesBacked, StartsBacked, PhaseAfterBlend
  <2>5. PhaseAfterBlend = "UtilityDriven" =>
          \E f \in timeline.started : f + BlendPeriod <= height
    BY DEF PhaseAfterBlend, StartsBacked, SecondPhaseEarned
  <2> QED
    BY <2>1, <2>2, <2>3, <2>4, <2>5 DEF SecondPhaseEarned
<1>5. ASSUME NEW i \in UtilityIndex, SetUtilityIndex(i)
      PROVE  TokenomicsInv'
  BY <1>5 DEF SetUtilityIndex, NoticesBacked, StartsBacked, SecondPhaseEarned,
              IsIvtReached
<1>6. CASE MintForBlock
  <2>1. /\ phases'.cumulative_transactions = phases.cumulative_transactions
        /\ phases'.unique_addresses = phases.unique_addresses
        /\ phases'.current_phase \in {phases.current_phase, PhaseAfterBlend}
        /\ phases'.transition = phases.transition
        /\ phases'.notice_block = phases.notice_block
        /\ phases'.transition_start_block = phases.transition_start_block
    BY <1>6 DEF MintForBlock
  <2>2. timeline'.announced = timeline.announced
        /\ timeline'.started = timeline.started
        /\ height' = height
    BY <1>6 DEF MintForBlock
  <2>3. /\ UsesIndex => timeline'.minted = First(timeline.minted)
        /\ ~UsesIndex => timeline'.minted = timeline.minted
    BY <1>6 DEF MintForBlock
  <2>4. Fields'
    BY <1>6 DEF MintForBlock
  <2>5. IsIvtReached' <=> IsIvtReached
    BY <2>1 DEF IsIvtReached
  <2>6. UsesIndex => \E f \in timeline.started : f <= height
    BY DEF UsesIndex, IsInBlendPeriod, StartsBacked, SecondPhaseEarned
  <2>7. PhaseAfterBlend = "UtilityDriven" =>
          \E f \in timeline.started : f + BlendPeriod <= height
    BY DEF PhaseAfterBlend, StartsBacked, SecondPhaseEarned
  <2>8. NoticesBacked' /\ StartsBacked' /\ Statistics' /\ HistoryPast'
    BY <2>1, <2>2, <2>3, <2>5 DEF First, NoticesBacked, StartsBacked,
                                 PhaseAfterBlend
  <2> QED
    BY <2>1, <2>2, <2>3, <2>4, <2>5, <2>6, <2>7, <2>8 DEF First, SecondPhaseEarned
<1>7. CASE NewBlock
  BY <1>7, SMTT(30) DEF NewBlock, NoticesBacked, StartsBacked, SecondPhaseEarned,
              IsIvtReached
<1> QED
  BY <1>1, <1>2, <1>3, <1>4, <1>5, <1>6, <1>7
  DEF TokenomicsNext, ExecuteTransition, ExecuteGovernanceOverride

(***************************************************************************)
(* The second phase is always earned, whatever the targets and periods,    *)
(* and however often announcements and transitions are repeated.           *)
(***************************************************************************)
THEOREM SecondPhaseAlwaysEarned == Spec => []SecondPhaseEarned
<1>1. TokenomicsInv /\ [Next]_vars => TokenomicsInv'
  <2>1. TokenomicsInv /\ UNCHANGED tokenomicsVars => TokenomicsInv'
    BY DEF tokenomicsVars, TokenomicsInv, Fields, Statistics, HistoryPast,
           NoticesBacked, StartsBacked, SecondPhaseEarned, IsIvtReached
  <2> QED
    BY <2>1, OneServiceMoves, TokenomicsStep
<1>2. TokenomicsInv => SecondPhaseEarned
  BY DEF TokenomicsInv
<1> QED
  BY <1>1, <1>2, TokenomicsInitially, PTL DEF Spec

----------------------------------------------------------------------------
(***************************************************************************)
(* A state of the executor: nonces in their range, and a contract at the   *)
(* n-th address of an account exactly when its nonce is past n.            *)
(***************************************************************************)
EvmFields(s) ==
  s = [contracts |-> s.contracts, balances |-> s.balances, nonces |-> s.nonces]

NoncesTyped(s) == s.nonces \in [Account -> Nat]

Numbered(s) ==
  \A a \in Account, n \in 0..MaxNonce :
    CreateAddress(a, n) \in s.contracts <=> n < s.nonces[a]

ContractsInv ==
  /\ EvmFields(evm) /\ NoncesTyped(evm) /\ Numbered(evm)
  /\ \A a \in Account : evm.nonces[a] <= MaxNonce

(***************************************************************************)
(* transfer moves balances and nothing else.                               *)
(***************************************************************************)
LEMMA TransferKeeps ==
  ASSUME NEW s, EvmFields(s), NEW from, NEW to, NEW value
  PROVE  LET t == Transfer(s, from, to, value)
         IN /\ EvmFields(t)
            /\ t.contracts = s.contracts /\ t.nonces = s.nonces
BY DEF EvmFields, Transfer

(***************************************************************************)
(* A deployment takes the address of the nonce and raises the nonce.       *)
(***************************************************************************)
LEMMA DeployKeeps ==
  ASSUME NEW s, EvmFields(s), NoncesTyped(s), Numbered(s),
         NEW a \in Account, NEW value
  PROVE  LET t == DeployContract(s, a, value)
         IN EvmFields(t) /\ NoncesTyped(t) /\ Numbered(t)
<1> DEFINE address == CreateAddress(a, s.nonces[a])
           t == DeployContract(s, a, value)
<1>1. /\ EvmFields(t)
      /\ t.contracts = s.contracts \cup {address}
      /\ t.nonces = [s.nonces EXCEPT ![a] = s.nonces[a] + 1]
  <2>1. t = [s EXCEPT !.contracts = s.contracts \cup {address},
                      !.balances = [s.balances EXCEPT ![address] = value],
                      !.nonces = [s.nonces EXCEPT ![a] = s.nonces[a] + 1]]
    BY DEF EvmFields, DeployContract
  <2> HIDE DEF t
  <2> QED
    BY <2>1 DEF EvmFields
<1>2. NoncesTyped(t)
  BY <1>1 DEF NoncesTyped
<1>3. ASSUME NEW b \in Account, NEW n \in 0..MaxNonce
      PROVE  CreateAddress(b, n) \in t.contracts <=> n < t.nonces[b]
  <2>1. CreateAddress(b, n) = address <=> b = a /\ n = s.nonces[a]
    BY DEF CreateAddress
  <2>2. CreateAddress(b, n) \in s.contracts <=> n < s.nonces[b]
    BY DEF Numbered
  <2>3. b # a => t.nonces[b] = s.nonces[b]
    BY <1>1 DEF NoncesTyped
  <2>4. t.nonces[a] = s.nonces[a] + 1 /\ s.nonces[a] \in Nat /\ n \in Nat
    BY <1>1, ContractsAssumption DEF NoncesTyped
  <2> HIDE DEF address, t
  <2> QED
    BY <1>1, <2>1, <2>2, <2>3, <2>4
<1> HIDE DEF t
<1>4. Numbered(t)
  BY <1>3 DEF Numbered
<1> QED
  BY <1>1, <1>2, <1>4 DEF t

(***************************************************************************)
(* However a call ends, the state it leaves is numbered (execute).         *)
(***************************************************************************)
LEMMA ExecutedKeeps ==
  ASSUME NEW s, EvmFields(s), NoncesTyped(s), Numbered(s),
         NEW call, call.from \in Account
  PROVE  LET t == Executed(s, call).state
         IN EvmFields(t) /\ NoncesTyped(t) /\ Numbered(t)
<1> DEFINE Kept(t) == EvmFields(t) /\ NoncesTyped(t) /\ Numbered(t)
           used == BaseTxGas(call)
           to == IF IsDeployment(call) THEN call.from ELSE call.to
           paid == IF call.value = 0
                     THEN s ELSE Transfer(s, call.from, to, call.value)
<1>1. Kept(paid)
  BY TransferKeeps DEF NoncesTyped, Numbered
<1> HIDE DEF paid
<1>2. Kept(ExecuteDeployment(paid, call, used).state)
  <2>1. Kept(DeployContract(paid, call.from, call.value))
    BY <1>1, DeployKeeps
  <2> HIDE DEF Kept
  <2> QED
    BY <1>1, <2>1 DEF ExecuteDeployment, Ok, Err
<1> HIDE DEF Kept
<1>3. Kept(ExecuteCall(paid, call, used).state)
  BY <1>1 DEF ExecuteCall, ExecutePrecompile, ExecuteContractCode, Ok, Err
<1>4. Kept(s)
  BY DEF Kept
<1>5. Kept(Executed(s, call).state)
  BY <1>2, <1>3, <1>4 DEF Executed, Err, paid
<1> QED
  BY <1>5 DEF Kept

LEMMA ContractsInitially == Init => ContractsInv
BY ContractsAssumption
DEF Init, ContractsInit, ContractsInv, EvmFields, NoncesTyped, Numbered

LEMMA ContractsStep ==
  ASSUME ContractsInv, ContractsNext
  PROVE  ContractsInv'
<1> USE DEF ContractsInv
<1> DEFINE Kept(t) == EvmFields(t) /\ NoncesTyped(t) /\ Numbered(t)
<1>1. ASSUME Kept(evm'), Bounded(evm')
      PROVE  ContractsInv'
  BY <1>1 DEF Bounded, EvmFields, NoncesTyped, Numbered
<1>2. ASSUME NEW call \in ContractCall, Execute(call)
      PROVE  ContractsInv'
  <2>1. call.from \in Account
    BY DEF ContractCall
  <2>2. Kept(Executed(evm, call).state)
    BY <2>1, ExecutedKeeps
  <2> QED
    BY <1>1, <1>2, <2>2 DEF Execute
<1>3. ASSUME NEW call \in ContractCall, EstimateGas(call)
      PROVE  ContractsInv'
  <2> DEFINE high == [call EXCEPT !.gas_limit = EstimationGas]
  <2>1. high.from \in Account
    BY DEF ContractCall
  <2>2. Kept(Executed(evm, high).state)
    BY <2>1, ExecutedKeeps
  <2>3. evm' = Estimated(call) /\ Bounded(evm')
    BY <1>3 DEF EstimateGas
  <2>4. evm' \in {evm, Executed(evm, high).state}
    BY <2>3 DEF Estimated
  <2>5. Kept(evm)
    OBVIOUS
  <2> HIDE DEF Kept
  <2>6. Kept(evm')
    BY <2>2, <2>4, <2>5
  <2> QED
    BY <1>1, <2>3, <2>6
<1> QED
  BY <1>2, <1>3 DEF ContractsNext

(***************************************************************************)
(* An account's contracts are always numbered by its nonce, through failed *)
(* calls and estimates, so that no deployment ever finds its address taken *)
(* (execute_deployment, estimate_gas).                                     *)
(***************************************************************************)
THEOREM DeploymentsAlwaysNumbered == Spec => []DeploymentsNumbered
<1>1. ContractsInv /\ [Next]_vars => ContractsInv'
  <2>1. ContractsInv /\ UNCHANGED evm => ContractsInv'
    BY DEF ContractsInv, EvmFields, NoncesTyped, Numbered
  <2> QED
    BY <2>1, OneServiceMoves, ContractsStep
<1>2. ContractsInv => DeploymentsNumbered
  BY ContractsAssumption
  DEF ContractsInv, NoncesTyped, Numbered, DeploymentsNumbered
<1> QED
  BY <1>1, <1>2, ContractsInitially, PTL DEF Spec

----------------------------------------------------------------------------
(***************************************************************************)
(* Pools.  What is known of a pool: its fields, a finite map of deposits   *)
(* and a map of waiting withdrawals, and that it is balanced.              *)
(***************************************************************************)
PoolFields(p) ==
  {"tvl", "total_deposits", "total_withdrawals", "deposits", "pending"}
    \subseteq DOMAIN p

PoolTyped(p) ==
  /\ PoolFields(p)
  /\ p.tvl \in Nat /\ p.total_deposits \in Nat /\ p.total_withdrawals \in Nat
  /\ IsFiniteSet(DOMAIN p.deposits) /\ p.deposits \in [DOMAIN p.deposits -> Nat]
  /\ p.pending = [v \in DOMAIN p.pending |-> p.pending[v]]
  /\ \A v \in DOMAIN p.pending : p.pending[v].amount \in Nat

PoolOK(p) == PoolTyped(p) /\ Balanced(p)

(***************************************************************************)
(* LiquidityPool::new.                                                     *)
(***************************************************************************)
LEMMA NewPoolOK ==
  ASSUME NEW type, NEW apy, NEW score, NEW active
  PROVE  PoolOK(NewPool(type, apy, score, active))
<1> DEFINE p == NewPool(type, apy, score, active)
<1>1. PoolFields(p)
  BY DEF PoolFields, NewPool
<1>2. DOMAIN EmptyMap = {} /\ EmptyMap \in [{} -> Nat]
  BY DEF EmptyMap
<1>3. /\ p.tvl = 0 /\ p.total_deposits = 0 /\ p.total_withdrawals = 0
      /\ p.deposits = EmptyMap /\ p.pending = EmptyMap
  BY DEF NewPool
<1>4. SumFunction(EmptyMap) = 0
  BY <1>2, SumEmpty DEF SumFunction
<1> HIDE DEF p
<1>5. PoolTyped(p)
  BY <1>1, <1>2, <1>3, FS_EmptySet DEF PoolTyped
<1>6. Balanced(p)
  BY <1>2, <1>3, <1>4 DEF Balanced
<1> QED  BY <1>5, <1>6 DEF PoolOK, p

(***************************************************************************)
(* deposit: the depositor's balance and the total grow alike, and a        *)
(* request that is waiting is still covered.                               *)
(***************************************************************************)
LEMMA DepositOK ==
  ASSUME NEW p, PoolOK(p), NEW v, NEW amount \in Nat
  PROVE  PoolOK(Deposit(p, v, amount))
<1> DEFINE D == DOMAIN p.deposits
           b == GetBalance(p, v) + amount
           d == Inserted(p.deposits, v, b)
           n == [p EXCEPT !.deposits = d, !.tvl = @ + amount, !.total_deposits = @ + amount]
<1>0. /\ PoolTyped(p) /\ Balanced(p) /\ PoolFields(p)
      /\ IsFiniteSet(D) /\ p.deposits \in [D -> Nat]
      /\ p.tvl \in Nat /\ p.total_deposits \in Nat /\ p.total_withdrawals \in Nat
  BY DEF PoolOK, PoolTyped
<1>1. CASE ~ CanDeposit(p, amount)
  BY <1>1 DEF Deposit
<1>2. CASE CanDeposit(p, amount)
  <2>1. Deposit(p, v, amount) = n
    BY <1>2 DEF Deposit
  <2>2. GetBalance(p, v) \in Nat /\ b \in Nat
    BY <1>0 DEF GetBalance
  <2>3. d = [x \in D \cup {v} |-> IF x = v THEN b ELSE p.deposits[x]]
    BY DEF Inserted
  <2>4. DOMAIN d = D \cup {v} /\ d \in [D \cup {v} -> Nat] /\ IsFiniteSet(D \cup {v})
    <3> HIDE DEF b, d
    <3> QED  BY <1>0, <2>2, <2>3, FS_AddElement
  <2>5. SumFunction(d) = p.tvl + amount
    <3>1. p.tvl = SumFunction(p.deposits) /\ Summable(p.deposits, D)
      <4>1. Summable(p.deposits, D)
        BY <1>0 DEF Summable
      <4>2. Balanced(p)
        BY <1>0
      <4>3. p.tvl = SumFunction(p.deposits)
        BY <4>2 DEF Balanced
      <4> QED  BY <4>1, <4>3
    <3>2. d[v] = b /\ \A x \in D \ {v} : d[x] = p.deposits[x]
      <4> HIDE DEF d, b
      <4> QED  BY <2>3
    <3>3. GetBalance(p, v) = IF v \in D THEN p.deposits[v] ELSE 0
      BY DEF GetBalance
    <3> HIDE DEF d
    <3>4. SumFunction(d) = SumFunction(p.deposits) - GetBalance(p, v) + d[v]
      <4> DEFINE old == p.deposits
      <4>1. /\ Summable(old, DOMAIN old) /\ DOMAIN d = DOMAIN old \cup {v}
            /\ \A x \in DOMAIN old \ {v} : d[x] = old[x]
        BY <2>4, <3>1, <3>2
      <4>2. d[v] \in Int
        BY <2>2, <3>2
      <4>3. GetBalance(p, v) = IF v \in DOMAIN old THEN old[v] ELSE 0
        BY <3>3
      <4> HIDE DEF old
      <4>4. SumFunction(d) = SumFunction(old) - (IF v \in DOMAIN old THEN old[v] ELSE 0) + d[v]
        BY <4>1, <4>2, SumInserted
      <4>5. SumFunction(d) = SumFunction(old) - GetBalance(p, v) + d[v]
        BY <4>3, <4>4
      <4> QED  BY <4>5 DEF old
    <3> QED  BY <1>0, <2>2, <3>1, <3>2, <3>4
  <2> HIDE DEF d
  <2>6. /\ PoolFields(n) /\ n.deposits = d /\ n.tvl = p.tvl + amount
        /\ n.total_deposits = p.total_deposits + amount
        /\ n.total_withdrawals = p.total_withdrawals /\ n.pending = p.pending
    BY <1>0 DEF PoolFields
  <2> HIDE DEF n
  <2>7. PoolTyped(n)
    BY <1>0, <2>4, <2>6 DEF PoolTyped
  <2>8. ASSUME NEW w \in DOMAIN n.pending PROVE n.pending[w].amount <= GetBalance(n, w)
    <3>1. w \in DOMAIN p.pending /\ p.pending[w].amount \in Nat
      BY <1>0, <2>6 DEF PoolTyped
    <3>2. p.pending[w].amount <= GetBalance(p, w)
      BY <1>0, <3>1 DEF Balanced
    <3>3. /\ GetBalance(p, w) \in Nat /\ GetBalance(n, w) \in Nat
          /\ GetBalance(p, w) <= GetBalance(n, w)
      <4>1. GetBalance(p, w) \in Nat
        BY <1>0 DEF GetBalance
      <4>2. CASE w = v
        <5>1. GetBalance(n, w) = b
          BY <2>3, <2>4, <2>6, <4>2 DEF GetBalance
        <5> QED  BY <2>2, <4>1, <4>2, <5>1
      <4>3. CASE w # v
        <5>1. GetBalance(n, w) = GetBalance(p, w)
          BY <2>3, <2>4, <2>6, <4>3 DEF GetBalance
        <5> QED  BY <4>1, <5>1
      <4> QED  BY <4>2, <4>3
    <3> QED  BY <2>6, <3>1, <3>2, <3>3
  <2>9. Balanced(n)
    <3>1. p.total_deposits = p.tvl + p.total_withdrawals
      BY <1>0 DEF Balanced
    <3>2. n.total_deposits = n.tvl + n.total_withdrawals
      BY <1>0, <2>6, <3>1
    <3> QED  BY <2>5, <2>6, <2>8, <3>2 DEF Balanced
  <2> QED  BY <2>1, <2>7, <2>9 DEF PoolOK, n
<1> QED  BY <1>1, <1>2

(***************************************************************************)
(* What touches neither the balances nor the requests keeps the pool.      *)
(***************************************************************************)
LEMMA SamePool ==
  ASSUME NEW p, PoolOK(p), NEW n, DOMAIN n = DOMAIN p,
         n.tvl = p.tvl, n.total_deposits = p.total_deposits,
         n.total_withdrawals = p.total_withdrawals,
         n.deposits = p.deposits, n.pending = p.pending
  PROVE  PoolOK(n)
<1>1. PoolTyped(n)
  BY DEF PoolOK, PoolTyped, PoolFields
<1>2. \A v : GetBalance(n, v) = GetBalance(p, v)
  BY DEF GetBalance
<1>3. Balanced(n)
  BY <1>2 DEF PoolOK, Balanced
<1> QED  BY <1>1, <1>3 DEF PoolOK

(***************************************************************************)
(* request_withdrawal: the balance covers the request that replaces the    *)
(* waiting one.                                                            *)
(***************************************************************************)
LEMMA RequestOK ==
  ASSUME NEW p, PoolOK(p), NEW v, NEW amount \in Nat, NEW time
  PROVE  PoolOK(RequestWithdrawal(p, v, amount, time))
<1> DEFINE r == [amount |-> amount, unlock_time |-> time]
           q == Inserted(p.pending, v, r)
           n == [p EXCEPT !.pending = q]
<1>0. PoolTyped(p) /\ Balanced(p) /\ PoolFields(p)
  BY DEF PoolOK, PoolTyped
<1>1. CASE ~ CanRequest(p, v, amount)
  BY <1>1 DEF RequestWithdrawal
<1>2. CASE CanRequest(p, v, amount)
  <2>1. RequestWithdrawal(p, v, amount, time) = n
    BY <1>2 DEF RequestWithdrawal
  <2>2. q = [x \in DOMAIN p.pending \cup {v} |-> IF x = v THEN r ELSE p.pending[x]]
    BY DEF Inserted
  <2>3. DOMAIN q = DOMAIN p.pending \cup {v} /\ q = [x \in DOMAIN q |-> q[x]]
    <3> HIDE DEF r
    <3> QED  BY <2>2
  <2>4. ASSUME NEW x \in DOMAIN q
        PROVE  q[x].amount \in Nat /\ q[x].amount <= GetBalance(p, x)
    <3>1. CASE x = v
      <4>1. q[x] = r
        <5> HIDE DEF r, q
        <5> QED  BY <2>2, <2>3, <3>1
      <4>2. r.amount = amount
        OBVIOUS
      <4>3. amount <= GetBalance(p, v)
        BY <1>0, <1>2 DEF CanRequest, GetBalance, PoolTyped
      <4> HIDE DEF r, q
      <4> QED  BY <3>1, <4>1, <4>2, <4>3
    <3>2. CASE x # v
      <4> HIDE DEF r, q
      <4>1. x \in DOMAIN p.pending /\ q[x] = p.pending[x]
        BY <2>2, <2>3, <3>2
      <4> QED  BY <1>0, <4>1 DEF PoolTyped, Balanced
    <3> QED  BY <3>1, <3>2
  <2> HIDE DEF q
  <2>5. /\ PoolFields(n) /\ n.deposits = p.deposits /\ n.tvl = p.tvl
        /\ n.total_deposits = p.total_deposits
        /\ n.total_withdrawals = p.total_withdrawals /\ n.pending = q
    BY <1>0 DEF PoolFields
  <2> HIDE DEF n
  <2>6. PoolTyped(n)
    BY <1>0, <2>3, <2>4, <2>5 DEF PoolTyped
  <2>7. \A x : GetBalance(n, x) = GetBalance(p, x)
    BY <2>5 DEF GetBalance
  <2>8. Balanced(n)
    BY <1>0, <2>4, <2>5, <2>7 DEF Balanced
  <2> QED  BY <2>1, <2>6, <2>8 DEF PoolOK, n
<1> QED  BY <1>1, <1>2

(***************************************************************************)
(* process_withdrawals: the total falls by what is taken from the          *)
(* balances, which never exceeds it, and the requests that stay are those  *)
(* of balances that were not touched.                                      *)
(***************************************************************************)
LEMMA ProcessOK ==
  ASSUME NEW p, PoolOK(p), NEW time
  PROVE  PoolOK(ProcessWithdrawals(p, time))
<1> DEFINE D == DOMAIN p.deposits
           R == Ready(p, time)
           g == [v \in R |-> p.pending[v].amount]
           total == SumFunction(g)
           h == [v \in D |-> IF v \in R THEN p.deposits[v] - p.pending[v].amount
                                        ELSE p.deposits[v]]
           left == IF p.tvl >= total THEN p.tvl - total ELSE p.tvl
           q == Restrict(p.pending, DOMAIN p.pending \ R)
           n == [p EXCEPT !.deposits = h, !.tvl = left,
                          !.total_withdrawals = @ + total, !.pending = q]
<1>0. /\ PoolTyped(p) /\ Balanced(p) /\ PoolFields(p)
      /\ IsFiniteSet(D) /\ p.deposits \in [D -> Nat]
      /\ p.tvl \in Nat /\ p.total_deposits \in Nat /\ p.total_withdrawals \in Nat
  BY DEF PoolOK, PoolTyped
<1>1. ProcessWithdrawals(p, time) = n
  BY DEF ProcessWithdrawals
<1>2. \A v \in R : v \in D /\ v \in DOMAIN p.pending /\ p.deposits[v] >= p.pending[v].amount
  BY DEF Ready
<1>3. R \in SUBSET D /\ IsFiniteSet(R)
  <2>1. R \in SUBSET D
    BY <1>2
  <2> HIDE DEF R, D
  <2> QED  BY <1>0, <2>1, FS_Subset
<1>4. \A v \in R : g[v] = p.pending[v].amount /\ g[v] \in Nat
  <2>1. \A v \in DOMAIN p.pending : p.pending[v].amount \in Nat
    BY <1>0 DEF PoolTyped
  <2> HIDE DEF R
  <2> QED  BY <1>2, <2>1
<1>5. Summable(p.deposits, D) /\ Summable(g, R)
  <2> HIDE DEF g, R
  <2> QED  BY <1>0, <1>3, <1>4 DEF Summable
<1>6. \A v \in D : h[v] = IF v \in R THEN p.deposits[v] - g[v] ELSE p.deposits[v]
  <2> HIDE DEF R
  <2> QED  BY <1>4
<1>7. \A v \in D : h[v] \in Nat
  <2> HIDE DEF R, D, g
  <2> QED  BY <1>0, <1>2, <1>4, <1>6
<1>8. SumFunctionOnSet(h, D) = SumFunctionOnSet(p.deposits, D) - SumFunctionOnSet(g, R)
  <2> HIDE DEF R, D, g, h
  <2> QED  BY <1>3, <1>5, <1>6, SumMinus
<1>9. SumFunctionOnSet(h, D) \in Nat /\ SumFunctionOnSet(g, R) \in Nat
  <2> HIDE DEF R, D, g, h
  <2> QED  BY <1>0, <1>3, <1>4, <1>7, SumNat
<1>10. SumFunctionOnSet(p.deposits, D) = p.tvl
  BY <1>0 DEF Balanced, SumFunction
<1>11. /\ total = SumFunctionOnSet(g, R) /\ DOMAIN h = D
       /\ SumFunction(h) = SumFunctionOnSet(h, D)
  BY DEF SumFunction
<1>12. total \in Nat /\ left = p.tvl - total /\ left \in Nat /\ SumFunction(h) = left
  <2> HIDE DEF R, D, g, h, total
  <2> QED  BY <1>0, <1>8, <1>9, <1>10, <1>11
<1>13. h \in [D -> Nat]
  <2> HIDE DEF R
  <2> QED  BY <1>7
<1>14. /\ DOMAIN q = DOMAIN p.pending \ R /\ q = [v \in DOMAIN q |-> q[v]]
       /\ \A v \in DOMAIN q : q[v] = p.pending[v]
  <2> HIDE DEF R
  <2> QED  BY DEF Restrict
<1> HIDE DEF q, h, R, total, left
<1>15. /\ PoolFields(n) /\ n.deposits = h /\ n.tvl = left
       /\ n.total_deposits = p.total_deposits
       /\ n.total_withdrawals = p.total_withdrawals + total /\ n.pending = q
  BY <1>0 DEF PoolFields
<1> HIDE DEF n, g
<1>16. PoolTyped(n)
  <2>1. n.deposits \in [D -> Nat] /\ DOMAIN n.deposits = D
    BY <1>11, <1>13, <1>15
  <2>2. \A v \in DOMAIN n.pending : n.pending[v].amount \in Nat
    BY <1>0, <1>14, <1>15 DEF PoolTyped
  <2>3. n.tvl \in Nat /\ n.total_deposits \in Nat /\ n.total_withdrawals \in Nat
    BY <1>0, <1>12, <1>15
  <2>4. n.pending = [v \in DOMAIN n.pending |-> n.pending[v]]
    BY <1>14, <1>15
  <2> HIDE DEF D
  <2> QED  BY <1>0, <1>15, <2>1, <2>2, <2>3, <2>4 DEF PoolTyped
<1>17. n.total_deposits = n.tvl + n.total_withdrawals
  <2>1. p.total_deposits = p.tvl + p.total_withdrawals
    BY <1>0 DEF Balanced
  <2> QED  BY <1>0, <1>12, <1>15, <2>1
<1>18. ASSUME NEW v \in DOMAIN n.pending PROVE n.pending[v].amount <= GetBalance(n, v)
  <2>1. v \in DOMAIN p.pending /\ ~ (v \in R) /\ n.pending[v] = p.pending[v]
    BY <1>14, <1>15
  <2>2. GetBalance(n, v) = GetBalance(p, v)
    BY <1>6, <1>11, <1>15, <2>1 DEF GetBalance
  <2> QED  BY <1>0, <2>1, <2>2 DEF Balanced
<1>19. Balanced(n)
  BY <1>12, <1>15, <1>17, <1>18 DEF Balanced
<1> QED  BY <1>1, <1>16, <1>19 DEF PoolOK, n

----------------------------------------------------------------------------
(***************************************************************************)
(* The lowest bits of an amount, and what a computation in f64 is cast to: *)
(* whichever way it is rounded, a natural number.                          *)
(***************************************************************************)
LEMMA DigitNat ==
  ASSUME NEW n \in Nat
  PROVE  Digit(n) \in Nat
BY PoolAssumption DEF Digit

LEMMA NearInt ==
  ASSUME NEW q \in Int, NEW r \in Near(q)
  PROVE  r \in Int
<1> DEFINE error == 1 + q \div Precision
<1>1. error \in Int
  BY PoolAssumption
<1>2. r \in (q - error) .. (q + error)
  BY DEF Near
<1> HIDE DEF error
<1> QED  BY <1>1, <1>2

LEMMA ClampedNat ==
  ASSUME NEW r \in Int, NEW max \in Nat
  PROVE  Clamped(r, max) \in Nat
BY DEF Clamped

LEMMA TruncatedNat ==
  ASSUME NEW num \in Int, NEW den \in Nat, NEW exact, NEW max \in Nat,
         NEW t \in Truncated(num, den, exact, max)
  PROVE  t \in Nat
<1>1. CASE den = 0
  <2>1. t = 0 \/ t = max
    BY <1>1 DEF Truncated
  <2> QED  BY <2>1
<1>2. CASE den # 0
  <2> DEFINE q == num \div den
  <2>1. q \in Int /\ q - 1 \in Int
    BY <1>2
  <2>2. PICK r \in Rounded(num, den, exact) : t = Clamped(r, max)
    BY <1>2 DEF Truncated
  <2>3. r = q \/ r = q - 1 \/ r \in Near(q)
    BY DEF Rounded
  <2> HIDE DEF q
  <2>4. r \in Int
    BY <2>1, <2>3, NearInt
  <2> QED  BY <2>2, <2>4, ClampedNat
<1> QED  BY <1>1, <1>2

LEMMA AsU64Nat ==
  ASSUME NEW num \in Int, NEW den \in Nat, NEW exact, NEW t \in AsU64(num, den, exact)
  PROVE  t \in Nat
<1>1. U64 - 1 \in Nat
  BY PoolAssumption
<1> QED  BY <1>1, TruncatedNat DEF AsU64

LEMMA AsU16Nat ==
  ASSUME NEW num \in Int, NEW den \in Nat, NEW exact, NEW t \in AsU16(num, den, exact)
  PROVE  t \in Nat
<1>1. 65535 \in Nat
  OBVIOUS
<1> QED  BY <1>1, TruncatedNat DEF AsU16

----------------------------------------------------------------------------
(***************************************************************************)
(* The market.  Its reserves and shares stay natural numbers through every *)
(* rounding and every call that fails half-way, and what it asks of its    *)
(* base pool keeps that pool balanced.                                     *)
(***************************************************************************)

(***************************************************************************)
(* The first shares: the integer square root exists.                       *)
(***************************************************************************)
LEMMA RootNat ==
  ASSUME NEW n \in Nat
  PROVE  Root(n) \in Nat
<1> DEFINE T == {r \in Nat : (r + 1) * (r + 1) > n}
<1>1. n \in T
  OBVIOUS
<1>2. PICK r \in T : \A s \in T : r <= s
  <2> HIDE DEF T
  <2>1. T \in SUBSET Nat /\ T # {}
    BY <1>1 DEF T
  <2> QED  BY <2>1, LeastOf
<1>3. r \in Nat /\ (r + 1) * (r + 1) > n
  OBVIOUS
<1>4. r * r <= n
  <2>1. CASE r = 0
    BY <2>1
  <2>2. CASE r # 0
    <3>1. r - 1 \in Nat /\ ~ (r - 1 \in T)
      BY <1>2, <1>3, <2>2
    <3>2. ~ ((r - 1 + 1) * (r - 1 + 1) > n)
      BY <3>1
    <3>3. r - 1 + 1 = r
      BY <1>3
    <3> QED  BY <1>3, <3>2, <3>3
  <2> QED  BY <2>1, <2>2
<1>5. r <= r * r
  BY <1>3
<1>6. r \in 0 .. n
  <2> DEFINE rr == r * r
  <2>1. rr \in Nat /\ r <= rr /\ rr <= n
    BY <1>3, <1>4, <1>5
  <2> HIDE DEF rr
  <2> QED  BY <1>3, <2>1
<1> HIDE DEF T
<1>7. \E s \in 0 .. n : s * s <= n /\ (s + 1) * (s + 1) > n
  BY <1>3, <1>4, <1>6
<1>8. Root(n) \in 0 .. n
  BY <1>7, Zenon DEF Root
<1> QED  BY <1>8

AMMInv ==
  /\ amm = [base |-> amm.base, reserve |-> amm.reserve, total_shares |-> amm.total_shares]
  /\ PoolOK(amm.base)
  /\ amm.reserve \in [Side -> Nat]
  /\ amm.total_shares \in Nat

(***************************************************************************)
(* Ratios of lowest bits, and amounts scaled by them.                      *)
(***************************************************************************)
LEMMA RatioNat ==
  ASSUME NEW n \in Nat, NEW d \in Nat
  PROVE  Ratio(n, d)[1] \in Nat /\ Ratio(n, d)[2] \in Nat
<1>1. Digit(n) \in Nat /\ Digit(d) \in Nat
  BY DigitNat
<1>2. CASE d = 0
  BY <1>2 DEF Ratio
<1>3. CASE d # 0
  BY <1>1, <1>3 DEF Ratio
<1> QED  BY <1>2, <1>3

LEMMA ScaledNat ==
  ASSUME NEW value \in Nat, NEW ratio, ratio[1] \in Nat, ratio[2] \in Nat,
         NEW t \in Scaled(value, ratio)
  PROVE  t \in Nat
<1>1. Digit(value) \in Nat
  BY DigitNat
<1>2. Digit(value) * ratio[1] \in Int
  BY <1>1
<1>3. t \in AsU64(Digit(value) * ratio[1], ratio[2], ratio[1] % ratio[2] = 0)
  BY DEF Scaled
<1> QED  BY <1>2, <1>3, AsU64Nat

(***************************************************************************)
(* New shares, of the first deposit and of later ones.                     *)
(***************************************************************************)
LEMMA SharesNat ==
  ASSUME AMMInv, NEW amount \in [Side -> Nat], NEW shares \in NewShares(amount)
  PROVE  shares \in Nat
<1>0. /\ amm.total_shares \in Nat /\ amm.reserve["a"] \in Nat /\ amm.reserve["b"] \in Nat
      /\ amount["a"] \in Nat /\ amount["b"] \in Nat
  BY DEF AMMInv, Side
<1>1. CASE amm.total_shares = 0
  <2> DEFINE product == Digit(amount["a"]) * Digit(amount["b"])
  <2>1. Digit(amount["a"]) \in Nat /\ Digit(amount["b"]) \in Nat
    BY <1>0, DigitNat
  <2>2. product \in Nat
    BY <2>1
  <2>3. \/ shares = Root(product)
        \/ \E r \in Near(Root(product)) : shares = Clamped(r, U64 - 1)
    BY <1>1 DEF NewShares, FirstShares
  <2> HIDE DEF product
  <2>4. Root(product) \in Nat
    BY <2>2, RootNat
  <2>5. ASSUME NEW r \in Near(Root(product)) PROVE Clamped(r, U64 - 1) \in Nat
    <3>1. r \in Int
      BY <2>4, NearInt
    <3>2. U64 - 1 \in Nat
      BY PoolAssumption
    <3> QED  BY <3>1, <3>2, ClampedNat
  <2> QED  BY <2>3, <2>4, <2>5
<1>2. CASE amm.total_shares # 0
  <2> DEFINE ra == Ratio(amount["a"], amm.reserve["a"])
             rb == Ratio(amount["b"], amm.reserve["b"])
             r  == SmallerRatio(ra, rb)
  <2>1. shares \in Scaled(amm.total_shares, r)
    BY <1>2 DEF NewShares
  <2>2. ra[1] \in Nat /\ ra[2] \in Nat /\ rb[1] \in Nat /\ rb[2] \in Nat
    BY <1>0, RatioNat
  <2>3. r = ra \/ r = rb
    BY DEF SmallerRatio
  <2> HIDE DEF ra, rb, r
  <2> QED  BY <1>0, <2>1, <2>2, <2>3, ScaledNat
<1> QED  BY <1>1, <1>2

(***************************************************************************)
(* A market whose parts are right is right.                                *)
(***************************************************************************)
LEMMA MarketFrom ==
  ASSUME NEW base, NEW reserve, NEW shares, PoolOK(base), reserve \in [Side -> Nat],
         shares \in Nat,
         amm' = [base |-> base, reserve |-> reserve, total_shares |-> shares]
  PROVE  AMMInv'
<1>1. amm'.base = base /\ amm'.reserve = reserve /\ amm'.total_shares = shares
  OBVIOUS
<1>2. PoolOK(amm'.base)
  BY <1>1
<1>3. PoolOK(amm.base)'
  BY <1>2 DEF PoolOK, PoolTyped, PoolFields, Balanced, GetBalance
<1> QED  BY <1>1, <1>3 DEF AMMInv

(***************************************************************************)
(* add_liquidity.                                                          *)
(***************************************************************************)
LEMMA AddKeeps ==
  ASSUME AMMInv, NEW v \in Validator, NEW amount \in [Side -> Amounts], AddLiquidity(v, amount)
  PROVE  AMMInv'
<1>0. /\ amm.total_shares \in Nat /\ amm.reserve \in [Side -> Nat] /\ PoolOK(amm.base)
      /\ amount \in [Side -> Nat] /\ amount["a"] \in Nat /\ amount["b"] \in Nat
  BY AMMAssumption DEF AMMInv, Side
<1> DEFINE base == Deposit(amm.base, v, amount["a"] + amount["b"])
           reserve == [side \in Side |-> amm.reserve[side] + amount[side]]
<1>1. PICK shares \in NewShares(amount) :
        amm' = [base |-> base, reserve |-> reserve,
                total_shares |-> amm.total_shares + shares]
  BY DEF AddLiquidity
<1>2. shares \in Nat
  BY <1>0, SharesNat
<1>3. PoolOK(base)
  <2>1. amount["a"] + amount["b"] \in Nat
    BY <1>0
  <2> QED  BY <1>0, <2>1, DepositOK
<1>4. reserve \in [Side -> Nat] /\ amm.total_shares + shares \in Nat
  BY <1>0, <1>2
<1> HIDE DEF base, reserve
<1> QED  BY <1>1, <1>3, <1>4, MarketFrom

(***************************************************************************)
(* remove_liquidity, and the call that ends between the two reserves.      *)
(***************************************************************************)
LEMMA RemoveKeeps ==
  ASSUME AMMInv, NEW v \in Validator, NEW shares \in Nat, RemoveLiquidity(v, shares)
  PROVE  AMMInv'
<1> DEFINE T == amm.total_shares
           ra == amm.reserve["a"]
           rb == amm.reserve["b"]
<1>0. /\ T \in Nat /\ amm.reserve \in [Side -> Nat] /\ PoolOK(amm.base)
      /\ ra \in Nat /\ rb \in Nat /\ shares <= T
      /\ amm = [base |-> amm.base, reserve |-> amm.reserve, total_shares |-> T]
  BY DEF AMMInv, Side, RemoveLiquidity
<1>1. PICK a \in Payout("a", shares), b \in Payout("b", shares) :
        /\ a <= ra
        /\ \/ amm' = [amm EXCEPT !.reserve["a"] = @ - a]
           \/ /\ b <= rb
              /\ amm' = [base |-> RequestWithdrawal(amm.base, v, a + b, now + Unbonding),
                         reserve |-> [amm.reserve EXCEPT !["a"] = @ - a, !["b"] = @ - b],
                         total_shares |-> T - shares]
  BY DEF RemoveLiquidity
<1>2. a \in Nat /\ b \in Nat
  <2> DEFINE ratio == Ratio(shares, T)
  <2>1. ratio[1] \in Nat /\ ratio[2] \in Nat
    BY <1>0, RatioNat
  <2>2. a \in Scaled(ra, ratio) /\ b \in Scaled(rb, ratio)
    BY <1>1 DEF Payout
  <2> HIDE DEF ratio, ra, rb
  <2> QED  BY <1>0, <2>1, <2>2, ScaledNat
<1>3. ra - a \in Nat
  <2> HIDE DEF ra
  <2> QED  BY <1>0, <1>1, <1>2
<1>4. CASE amm' = [amm EXCEPT !.reserve["a"] = @ - a]
  <2> DEFINE reserve == [amm.reserve EXCEPT !["a"] = ra - a]
  <2>1. amm' = [base |-> amm.base, reserve |-> reserve, total_shares |-> T]
    BY <1>0, <1>4
  <2>2. reserve \in [Side -> Nat]
    <3> HIDE DEF ra
    <3> QED  BY <1>0, <1>3
  <2> HIDE DEF reserve, T
  <2> QED  BY <1>0, <2>1, <2>2, MarketFrom
<1>5. CASE /\ b <= rb
           /\ amm' = [base |-> RequestWithdrawal(amm.base, v, a + b, now + Unbonding),
                      reserve |-> [amm.reserve EXCEPT !["a"] = @ - a, !["b"] = @ - b],
                      total_shares |-> T - shares]
  <2> DEFINE base == RequestWithdrawal(amm.base, v, a + b, now + Unbonding)
             reserve == [amm.reserve EXCEPT !["a"] = ra - a, !["b"] = rb - b]
  <2>1. amm' = [base |-> base, reserve |-> reserve, total_shares |-> T - shares]
    BY <1>5
  <2>2. PoolOK(base)
    <3>1. a + b \in Nat
      BY <1>2
    <3> QED  BY <1>0, <3>1, RequestOK
  <2>3. reserve \in [Side -> Nat] /\ T - shares \in Nat
    <3> HIDE DEF T, ra, rb
    <3>1. rb - b \in Nat /\ T - shares \in Nat
      BY <1>0, <1>2, <1>5
    <3> QED  BY <1>0, <1>3, <3>1
  <2> HIDE DEF base, reserve, T
  <2> QED  BY <2>1, <2>2, <2>3, MarketFrom
<1> QED  BY <1>1, <1>4, <1>5

(***************************************************************************)
(* swap, and the call that ends after reserve_in was raised.               *)
(***************************************************************************)
LEMMA SwapKeeps ==
  ASSUME AMMInv, NEW side \in Side, NEW amount \in Amounts, NEW least \in Amounts,
         Swap(side, amount, least)
  PROVE  AMMInv'
<1> DEFINE o == Other(side)
           r == amm.reserve[side]
           ro == amm.reserve[o]
           raised == [amm.reserve EXCEPT ![side] = r + amount]
<1>0. /\ amm.total_shares \in Nat /\ amm.reserve \in [Side -> Nat] /\ PoolOK(amm.base)
      /\ amount \in Nat
      /\ amm = [base |-> amm.base, reserve |-> amm.reserve, total_shares |-> amm.total_shares]
  <2>1. amount \in Nat
    BY AMMAssumption
  <2> HIDE DEF o, r, ro, raised
  <2> QED  BY <2>1 DEF AMMInv
<1>1. o \in Side /\ o # side
  BY DEF Other, Side
<1>2. r \in Nat /\ ro \in Nat
  BY <1>0, <1>1
<1>3. PICK out \in SwapQuote(side, amount) :
        \/ amm' = [amm EXCEPT !.reserve[side] = @ + amount]
        \/ /\ out <= ro
           /\ amm' = [amm EXCEPT !.reserve[side] = @ + amount,
                                 !.reserve[Other(side)] = @ - out]
  BY DEF Swap
<1>4. out \in Nat
  <2> DEFINE paid == Digit(amount) * (BasisPoints - FeeRate)
             held == IF r = 0 THEN 1 ELSE Digit(r)
             num == Digit(ro) * paid
             den == held * BasisPoints + paid
  <2>1. Digit(amount) \in Nat /\ Digit(ro) \in Nat /\ held \in Nat
        /\ BasisPoints - FeeRate \in Nat
    <3>1. Digit(amount) \in Nat /\ Digit(ro) \in Nat /\ Digit(r) \in Nat
      BY <1>0, <1>2, DigitNat
    <3>2. BasisPoints - FeeRate \in Nat
      <4>1. FeeRate \in 0 .. 10000
        BY AMMAssumption
      <4> QED  BY <4>1 DEF BasisPoints
    <3> QED  BY <3>1, <3>2
  <2>2. paid \in Nat
    <3> HIDE DEF held
    <3> QED  BY <2>1
  <2>3. num \in Int /\ den \in Nat
    <3> HIDE DEF held, paid
    <3> QED  BY <2>1, <2>2 DEF BasisPoints
  <2>4. out \in AsU64(num, den, FALSE)
    BY <1>3 DEF SwapQuote
  <2> HIDE DEF num, den
  <2> QED  BY <2>3, <2>4, AsU64Nat
<1>5. raised \in [Side -> Nat] /\ raised[o] = ro
  <2> HIDE DEF o, r
  <2> QED  BY <1>0, <1>1, <1>2
<1>6. [amm EXCEPT !.reserve[side] = @ + amount]
        = [base |-> amm.base, reserve |-> raised, total_shares |-> amm.total_shares]
  BY <1>0
<1>7. CASE amm' = [amm EXCEPT !.reserve[side] = @ + amount]
  <2>1. amm' = [base |-> amm.base, reserve |-> raised, total_shares |-> amm.total_shares]
    BY <1>6, <1>7
  <2> HIDE DEF raised
  <2> QED  BY <1>0, <1>5, <2>1, MarketFrom
<1>8. CASE /\ out <= ro
           /\ amm' = [amm EXCEPT !.reserve[side] = @ + amount,
                                 !.reserve[Other(side)] = @ - out]
  <2> DEFINE one == [amm EXCEPT !.reserve[side] = @ + amount]
             paid == [raised EXCEPT ![o] = ro - out]
  <2>1. amm' = [one EXCEPT !.reserve[o] = ro - out]
    BY <1>8
  <2>2. one = [base |-> amm.base, reserve |-> raised, total_shares |-> amm.total_shares]
    BY <1>6
  <2> HIDE DEF one, raised, o, ro
  <2>3. amm' = [base |-> amm.base, reserve |-> paid, total_shares |-> amm.total_shares]
    BY <1>5, <2>1, <2>2
  <2>4. paid \in [Side -> Nat]
    <3>1. ro - out \in Nat
      BY <1>2, <1>4, <1>8
    <3> QED  BY <1>5, <3>1
  <2> HIDE DEF paid
  <2> QED  BY <1>0, <2>3, <2>4, MarketFrom
<1> QED  BY <1>3, <1>7, <1>8

(***************************************************************************)
(* The market as a whole.                                                  *)
(***************************************************************************)
LEMMA AMMInitially == Init => AMMInv
<1> SUFFICES ASSUME Init PROVE AMMInv
  OBVIOUS
<1>1. PICK active \in BOOLEAN :
        amm = [base |-> NewPool("AMM", 0, 0, active), reserve |-> [side \in Side |-> 0],
               total_shares |-> 0]
  BY DEF Init, AMMInit
<1>2. PoolOK(NewPool("AMM", 0, 0, active))
  BY NewPoolOK
<1>3. /\ amm.base = NewPool("AMM", 0, 0, active) /\ amm.reserve = [side \in Side |-> 0]
      /\ amm.total_shares = 0
  BY <1>1
<1> QED  BY <1>1, <1>2, <1>3 DEF AMMInv

LEMMA AMMStep ==
  ASSUME AMMInv, AMMNext \/ UNCHANGED amm
  PROVE  AMMInv'
<1>1. CASE UNCHANGED amm
  BY <1>1 DEF AMMInv, PoolOK, PoolTyped, PoolFields, Balanced, GetBalance
<1>2. CASE \E v \in Validator, amount \in [Side -> Amounts] : AddLiquidity(v, amount)
  BY <1>2, AddKeeps
<1>3. CASE \E v \in Validator, shares \in Amounts : RemoveLiquidity(v, shares)
  BY <1>3, RemoveKeeps, AMMAssumption
<1>4. CASE \E side \in Side, amount, least \in Amounts : Swap(side, amount, least)
  BY <1>4, SwapKeeps
<1> QED  BY <1>1, <1>2, <1>3, <1>4 DEF AMMNext

----------------------------------------------------------------------------
(***************************************************************************)
(* Lending.                                                                *)
(***************************************************************************)
LoanOK(loan) ==
  /\ {"principal", "interest", "rate", "last_accrual", "status"} \subseteq DOMAIN loan
  /\ loan.principal \in Nat /\ loan.interest \in Int /\ loan.rate \in Int
  /\ loan.last_accrual \in Int

LoansOK(loans) ==
  /\ IsFiniteSet(DOMAIN loans)
  /\ \A id \in DOMAIN loans : LoanOK(loans[id])

ActiveIds(loans) == {id \in DOMAIN loans : loans[id].status = "Active"}

Principals(loans) == [id \in ActiveIds(loans) |-> loans[id].principal]

Owed(loans, id) ==
  IF id \in DOMAIN loans /\ loans[id].status = "Active" THEN loans[id].principal ELSE 0

LendingInv ==
  /\ lending = [base |-> lending.base, loans |-> lending.loans,
                total_borrowed |-> lending.total_borrowed,
                total_supplied |-> lending.total_supplied]
  /\ PoolOK(lending.base)
  /\ LoansOK(lending.loans)
  /\ lending.total_borrowed \in Nat /\ lending.total_supplied \in Nat
  /\ LoansCovered

(***************************************************************************)
(* The principal of the active loans, with the loan under one id apart.    *)
(***************************************************************************)
LEMMA ActiveSum ==
  ASSUME NEW loans, LoansOK(loans), NEW k
  PROVE  LET B == ActiveIds(loans) \ {k}
             F == Principals(loans)
         IN  /\ Summable(F, B) /\ \A id \in B : F[id] = loans[id].principal
             /\ SumFunction(F) = SumFunctionOnSet(F, B) + Owed(loans, k)
             /\ SumFunctionOnSet(F, B) \in Nat /\ Owed(loans, k) \in Nat
             /\ SumFunction(F) \in Nat
<1> DEFINE A == ActiveIds(loans)
           B == A \ {k}
           F == Principals(loans)
<1>1. A \in SUBSET (DOMAIN loans) /\ DOMAIN F = A
  BY DEF ActiveIds, Principals
<1>2. IsFiniteSet(A) /\ IsFiniteSet(B)
  <2> HIDE DEF A
  <2>1. B \in SUBSET (DOMAIN loans)
    BY <1>1
  <2> QED  BY <1>1, <2>1, FS_Subset DEF LoansOK
<1>3. \A id \in A : F[id] = loans[id].principal /\ F[id] \in Nat
  <2>1. \A id \in A : F[id] = loans[id].principal
    BY DEF Principals
  <2> HIDE DEF A, F
  <2> QED  BY <1>1, <2>1 DEF LoansOK, LoanOK
<1>4. SumFunction(F) = SumFunctionOnSet(F, A)
  BY <1>1 DEF SumFunction
<1>5. Summable(F, A) /\ Summable(F, B)
  <2> HIDE DEF A, F
  <2> QED  BY <1>2, <1>3 DEF Summable
<1>6. SumFunctionOnSet(F, B) \in Nat /\ SumFunctionOnSet(F, A) \in Nat
  <2> HIDE DEF A, F
  <2> QED  BY <1>2, <1>3, SumNat
<1>7. SumFunctionOnSet(F, A) = SumFunctionOnSet(F, B) + Owed(loans, k) /\ Owed(loans, k) \in Nat
  <2>1. CASE k \in A
    <3>1. Owed(loans, k) = F[k]
      BY <1>3, <2>1 DEF Owed, ActiveIds
    <3> HIDE DEF A, F
    <3>2. SumFunctionOnSet(F, A) = F[k] + SumFunctionOnSet(F, A \ {k})
      BY <1>5, <2>1, SumTakeOut
    <3> QED  BY <1>3, <1>6, <2>1, <3>1, <3>2
  <2>2. CASE ~ (k \in A)
    <3>1. Owed(loans, k) = 0
      BY <2>2 DEF Owed, ActiveIds
    <3>2. B = A
      BY <2>2
    <3> HIDE DEF A, F, B
    <3> QED  BY <1>6, <3>1, <3>2
  <2> QED  BY <2>1, <2>2
<1> HIDE DEF A, F
<1>8. \A id \in B : F[id] = loans[id].principal
  BY <1>3
<1> QED  BY <1>4, <1>5, <1>6, <1>7, <1>8 DEF A, F

(***************************************************************************)
(* A step changes the loan under one id: the sum moves by the difference.  *)
(***************************************************************************)
LEMMA OneLoanChanged ==
  ASSUME NEW f, NEW g, LoansOK(f), LoansOK(g), NEW k, DOMAIN g = DOMAIN f \cup {k},
         \A id \in DOMAIN f \ {k} : g[id] = f[id]
  PROVE  /\ SumFunction(Principals(g))
              = SumFunction(Principals(f)) - Owed(f, k) + Owed(g, k)
         /\ Owed(f, k) <= SumFunction(Principals(f))
         /\ SumFunction(Principals(f)) \in Nat /\ Owed(f, k) \in Nat /\ Owed(g, k) \in Nat
<1> DEFINE F == Principals(f)
           G == Principals(g)
           B == ActiveIds(f) \ {k}
           C == ActiveIds(g) \ {k}
<1>1. B = C
  BY DEF ActiveIds
<1>2. /\ Summable(F, B) /\ \A id \in B : F[id] = f[id].principal
      /\ SumFunction(F) = SumFunctionOnSet(F, B) + Owed(f, k)
      /\ SumFunctionOnSet(F, B) \in Nat /\ Owed(f, k) \in Nat
      /\ SumFunction(F) \in Nat
  BY ActiveSum
<1>3. /\ \A id \in C : G[id] = g[id].principal
      /\ SumFunction(G) = SumFunctionOnSet(G, C) + Owed(g, k)
      /\ Owed(g, k) \in Nat
  BY ActiveSum
<1>4. \A id \in B : F[id] = G[id]
  <2>1. \A id \in B : f[id] = g[id]
    BY DEF ActiveIds
  <2> HIDE DEF F, G, B, C
  <2> QED  BY <1>1, <1>2, <1>3, <2>1
<1> HIDE DEF F, G, B, C
<1>5. SumFunctionOnSet(F, B) = SumFunctionOnSet(G, B)
  BY <1>2, <1>4, SumSame
<1> QED  BY <1>1, <1>2, <1>3, <1>5 DEF F, G

LEMMA ActivePrincipalIs == ActivePrincipal = SumFunction(Principals(lending.loans))
BY DEF ActivePrincipal, Principals, ActiveIds

LEMMA ActivePrincipalWillBe == ActivePrincipal' = SumFunction(Principals(lending'.loans))
BY DEF ActivePrincipal, Principals, ActiveIds

(***************************************************************************)
(* A step that inserts or replaces one loan keeps LendingInv when the      *)
(* total borrowed moves at least as what that loan owes.                   *)
(***************************************************************************)
LEMMA OneLoanKeeps ==
  ASSUME LendingInv, NEW k, NEW loan, LoanOK(loan), NEW total \in Nat,
         total <= lending.total_supplied,
         LET owed == IF loan.status = "Active" THEN loan.principal ELSE 0
         IN  total - owed >= lending.total_borrowed - Owed(lending.loans, k),
         NEW loans, DOMAIN loans = DOMAIN lending.loans \cup {k}, loans[k] = loan,
         \A id \in DOMAIN lending.loans \ {k} : loans[id] = lending.loans[id],
         lending' = [base |-> lending.base, loans |-> loans, total_borrowed |-> total,
                     total_supplied |-> lending.total_supplied]
  PROVE  LendingInv'
<1> DEFINE f == lending.loans
           owed == IF loan.status = "Active" THEN loan.principal ELSE 0
<1>1. /\ LoansOK(f) /\ lending.total_borrowed \in Nat /\ lending.total_supplied \in Nat
      /\ SumFunction(Principals(f)) <= lending.total_borrowed
      /\ lending.total_supplied = lending.base.total_deposits
      /\ PoolOK(lending.base)
  BY ActivePrincipalIs DEF LendingInv, LoansCovered
<1>2. /\ lending'.base = lending.base /\ lending'.loans = loans
      /\ lending'.total_borrowed = total /\ lending'.total_supplied = lending.total_supplied
      /\ lending' = [base |-> lending'.base, loans |-> lending'.loans,
                     total_borrowed |-> lending'.total_borrowed,
                     total_supplied |-> lending'.total_supplied]
  OBVIOUS
<1>3. LoansOK(loans)
  <2>1. IsFiniteSet(DOMAIN loans)
    BY <1>1, FS_AddElement DEF LoansOK
  <2>2. \A id \in DOMAIN loans : LoanOK(loans[id])
    BY <1>1 DEF LoansOK
  <2> QED  BY <2>1, <2>2 DEF LoansOK
<1>4. Owed(loans, k) = owed
  BY DEF Owed
<1>5. /\ SumFunction(Principals(loans)) = SumFunction(Principals(f)) - Owed(f, k) + Owed(loans, k)
      /\ SumFunction(Principals(f)) \in Nat /\ Owed(f, k) \in Nat /\ Owed(loans, k) \in Nat
  <2> HIDE DEF f
  <2>1. DOMAIN loans = DOMAIN f \cup {k} /\ \A id \in DOMAIN f \ {k} : loans[id] = f[id]
    BY DEF f
  <2> QED  BY <1>1, <1>3, <2>1, OneLoanChanged
<1>6. SumFunction(Principals(loans)) <= total
  <2> HIDE DEF f, owed
  <2>1. total - owed >= lending.total_borrowed - Owed(f, k)
    BY DEF f, owed
  <2> QED  BY <1>1, <1>4, <1>5, <2>1
<1>7. LoansCovered'
  <2>1. ActivePrincipal' <= total
    BY <1>2, <1>6, ActivePrincipalWillBe
  <2> QED  BY <1>1, <1>2, <2>1 DEF LoansCovered
<1>8. LoansOK(lending.loans)'
  <2>1. LoansOK(lending'.loans)
    BY <1>2, <1>3
  <2> QED  BY <2>1 DEF LoansOK, LoanOK
<1>9. PoolOK(lending.base)'
  <2>1. PoolOK(lending'.base)
    BY <1>1, <1>2
  <2> QED  BY <2>1 DEF PoolOK, PoolTyped, PoolFields, Balanced, GetBalance
<1> QED  BY <1>1, <1>2, <1>7, <1>8, <1>9 DEF LendingInv

(***************************************************************************)
(* What an active loan owes is within the total, so that lowering the      *)
(* total by it never fails.                                                *)
(***************************************************************************)
LEMMA OwedWithin ==
  ASSUME LendingInv, NEW id \in DOMAIN lending.loans, lending.loans[id].status = "Active"
  PROVE  /\ Owed(lending.loans, id) = lending.loans[id].principal
         /\ lending.loans[id].principal \in Nat
         /\ lending.loans[id].principal <= lending.total_borrowed
         /\ lending.total_borrowed \in Nat /\ lending.total_supplied \in Nat
         /\ lending.total_borrowed <= lending.total_supplied
<1> DEFINE f == lending.loans
<1>1. /\ LoansOK(f) /\ lending.total_borrowed \in Nat /\ lending.total_supplied \in Nat
      /\ SumFunction(Principals(f)) <= lending.total_borrowed
      /\ lending.total_borrowed <= lending.total_supplied
  BY ActivePrincipalIs DEF LendingInv, LoansCovered
<1>2. Owed(f, id) = f[id].principal /\ f[id].principal \in Nat
  BY <1>1 DEF Owed, LoansOK, LoanOK
<1>3. Owed(f, id) <= SumFunction(Principals(f)) /\ SumFunction(Principals(f)) \in Nat
  <2> HIDE DEF f
  <2>1. DOMAIN f = DOMAIN f \cup {id} /\ \A x \in DOMAIN f \ {id} : f[x] = f[x]
    BY DEF f
  <2> QED  BY <1>1, <2>1, OneLoanChanged
<1> QED  BY <1>1, <1>2, <1>3

(***************************************************************************)
(* Accrual changes the interest and its date only.                         *)
(***************************************************************************)
LEMMA AccrualOK ==
  ASSUME now \in Nat, NEW l, LoanOK(l), NEW loan \in Accruals(l)
  PROVE  LoanOK(loan) /\ loan.principal = l.principal /\ loan.status = l.status
         /\ DOMAIN loan = DOMAIN l
<1> DEFINE e == now - l.last_accrual
           n == Digit(l.principal) * l.rate * e
           d == BasisPoints * Year
<1>1. PICK due \in AsU64(n, d, FALSE) :
        loan = [l EXCEPT !.interest = @ + due, !.last_accrual = now]
  BY DEF Accruals
<1>2. n \in Int /\ d \in Nat /\ l.interest \in Int
  <2>1. e \in Int /\ l.rate \in Int /\ l.principal \in Nat /\ l.interest \in Int
    BY DEF LoanOK
  <2>2. Digit(l.principal) \in Int
    BY <2>1, DigitNat
  <2>3. n \in Int
    <3> HIDE DEF e
    <3>1. Digit(l.principal) * l.rate \in Int
      BY <2>1, <2>2
    <3> QED  BY <2>1, <3>1
  <2>4. d \in Nat
    BY PoolAssumption DEF BasisPoints
  <2> QED  BY <2>1, <2>3, <2>4
<1>3. due \in Nat
  <2> HIDE DEF n, d
  <2> QED  BY <1>2, AsU64Nat
<1>4. l.interest + due \in Int
  BY <1>2, <1>3
<1> HIDE DEF n, d, e
<1> QED  BY <1>1, <1>4 DEF LoanOK

(***************************************************************************)
(* supply.                                                                 *)
(***************************************************************************)
LEMMA SupplyKeeps ==
  ASSUME LendingInv, NEW v \in Validator, NEW amount \in LoanAmounts, Supply(v, amount)
  PROVE  LendingInv'
<1>1. /\ amount \in Nat /\ PoolOK(lending.base) /\ CanDeposit(lending.base, amount)
      /\ lending.total_supplied \in Nat /\ lending.total_borrowed \in Nat
      /\ lending.total_borrowed <= lending.total_supplied
      /\ lending.total_supplied = lending.base.total_deposits
      /\ LoansOK(lending.loans) /\ ActivePrincipal <= lending.total_borrowed
  BY LendingAssumption DEF LendingInv, LoansCovered, Supply
<1> DEFINE b == Deposit(lending.base, v, amount)
<1>2. PoolOK(b)
  BY <1>1, DepositOK
<1>3. b.total_deposits = lending.base.total_deposits + amount
  <2>1. PoolFields(lending.base)
    BY <1>1 DEF PoolOK, PoolTyped
  <2> QED  BY <1>1, <2>1 DEF Deposit, PoolFields
<1> HIDE DEF b
<1>4. /\ lending'.base = b /\ lending'.loans = lending.loans
      /\ lending'.total_borrowed = lending.total_borrowed
      /\ lending'.total_supplied = lending.total_supplied + amount
      /\ lending' = [base |-> lending'.base, loans |-> lending'.loans,
                     total_borrowed |-> lending'.total_borrowed,
                     total_supplied |-> lending'.total_supplied]
  <2>1. lending' = [lending EXCEPT !.base = b, !.total_supplied = @ + amount]
    BY DEF Supply, b
  <2> QED  BY <2>1 DEF LendingInv
<1>5. LoansCovered'
  <2>1. ActivePrincipal' = ActivePrincipal
    BY <1>4, ActivePrincipalIs, ActivePrincipalWillBe
  <2> QED  BY <1>1, <1>3, <1>4, <2>1 DEF LoansCovered
<1>6. LoansOK(lending.loans)'
  BY <1>1, <1>4 DEF LoansOK, LoanOK
<1>7. PoolOK(lending.base)'
  <2>1. PoolOK(lending'.base)
    BY <1>2, <1>4
  <2> QED  BY <2>1 DEF PoolOK, PoolTyped, PoolFields, Balanced, GetBalance
<1> QED  BY <1>1, <1>4, <1>5, <1>6, <1>7 DEF LendingInv

(***************************************************************************)
(* borrow, at a rate of the utilization.                                   *)
(***************************************************************************)
LEMMA InterpolatedInt ==
  ASSUME NEW from \in Int, NEW to \in Int, NEW part \in Int, NEW whole \in Nat,
         NEW rate \in Interpolated(from, to, part, whole)
  PROVE  rate \in Int
<1> DEFINE n == (to - from) * part
<1>1. n \in Int
  OBVIOUS
<1>2. PICK rise \in AsU16(n, whole, part % whole = 0) : rate = (from + rise) % 65536
  BY DEF Interpolated
<1> HIDE DEF n
<1>3. rise \in Nat
  BY <1>1, <1>2, AsU16Nat
<1>4. from + rise \in Int
  BY <1>3
<1> QED  BY <1>2, <1>4

LEMMA RateInt ==
  ASSUME LendingInv, NEW rate \in CurrentRates
  PROVE  rate \in Int
<1>1. PICK u \in UtilizationBp : rate \in CalculateRate(u)
  BY DEF CurrentRates
<1>2. u \in Nat
  <2>1. lending.total_borrowed \in Nat /\ lending.total_supplied \in Nat
    BY DEF LendingInv
  <2> DEFINE borrowed == Digit(lending.total_borrowed)
             supplied == Digit(lending.total_supplied)
  <2>2. borrowed \in Nat /\ supplied \in Nat
    BY <2>1, DigitNat
  <2>3. u = 0 \/ u \in AsU16(borrowed * BasisPoints, supplied, borrowed % supplied = 0)
    BY <1>1 DEF UtilizationBp
  <2> HIDE DEF borrowed, supplied
  <2>4. borrowed * BasisPoints \in Int
    BY <2>2 DEF BasisPoints
  <2> QED  BY <2>2, <2>3, <2>4, AsU16Nat
<1> DEFINE o == OptimalUtilization
           c == BasisPoints - o
<1>3. /\ BaseRate \in Int /\ RateAtOptimal \in Int /\ MaxRate \in Int
      /\ o \in Nat /\ c \in Nat /\ u \in Int /\ u - o \in Int
  <2>1. BaseRate \in Nat /\ RateAtOptimal \in Nat /\ MaxRate \in Nat
    BY LendingAssumption
  <2>2. o \in 1 .. 9999
    BY LendingAssumption
  <2> HIDE DEF o
  <2>3. o \in Nat /\ c \in Nat /\ u \in Int /\ u - o \in Int
    BY <1>2, <2>2 DEF BasisPoints
  <2> QED  BY <2>1, <2>3
<1>4. \/ rate \in Interpolated(BaseRate, RateAtOptimal, u, o)
      \/ rate \in Interpolated(RateAtOptimal, MaxRate, u - o, c)
  BY <1>1 DEF CalculateRate
<1> HIDE DEF o, c
<1> QED  BY <1>3, <1>4, InterpolatedInt

LEMMA BorrowKeeps ==
  ASSUME LendingInv, now \in Nat, NEW v \in Validator, NEW amount \in LoanAmounts,
         NEW collateral \in Collaterals, Borrow(v, amount, collateral)
  PROVE  LendingInv'
<1>0. PICK rate \in CurrentRates :
        lending' = [lending EXCEPT
          !.total_borrowed = @ + amount,
          !.loans = Inserted(@, LoanId(v, now), NewLoan(amount, collateral, rate))]
  BY DEF Borrow
<1> DEFINE k == LoanId(v, now)
           loan == NewLoan(amount, collateral, rate)
           loans == Inserted(lending.loans, k, loan)
           total == lending.total_borrowed + amount
<1>1. /\ amount \in Nat /\ lending.total_supplied \in Nat /\ lending.total_borrowed \in Nat
      /\ lending.total_borrowed <= lending.total_supplied
      /\ AvailableLiquidity >= amount /\ LoansOK(lending.loans)
  BY LendingAssumption DEF LendingInv, LoansCovered, Borrow
<1>2. LoanOK(loan) /\ loan.status = "Active" /\ loan.principal = amount
  <2>1. rate \in Int
    BY RateInt
  <2> QED  BY <1>1, <2>1 DEF NewLoan, LoanOK
<1>3. total \in Nat /\ total <= lending.total_supplied
  BY <1>1 DEF AvailableLiquidity
<1>4. Owed(lending.loans, k) \in Nat
  BY <1>1 DEF Owed, LoansOK, LoanOK
<1>5. lending' = [lending EXCEPT !.total_borrowed = total, !.loans = loans]
  BY <1>0
<1> HIDE DEF k, loan
<1>6. /\ DOMAIN loans = DOMAIN lending.loans \cup {k} /\ loans[k] = loan
      /\ \A id \in DOMAIN lending.loans \ {k} : loans[id] = lending.loans[id]
  BY DEF Inserted
<1> HIDE DEF loans, total
<1>7. lending' = [base |-> lending.base, loans |-> loans, total_borrowed |-> total,
                  total_supplied |-> lending.total_supplied]
  BY <1>5 DEF LendingInv
<1>8. total - (IF loan.status = "Active" THEN loan.principal ELSE 0)
        >= lending.total_borrowed - Owed(lending.loans, k)
  BY <1>1, <1>2, <1>4 DEF total
<1> QED  BY <1>2, <1>3, <1>6, <1>7, <1>8, OneLoanKeeps

(***************************************************************************)
(* A loan that is changed in place.                                        *)
(***************************************************************************)
LEMMA LoanInPlace ==
  ASSUME LendingInv, NEW id \in DOMAIN lending.loans, lending.loans[id].status = "Active",
         NEW loan, LoanOK(loan), NEW paid \in Nat, paid <= lending.loans[id].principal,
         (IF loan.status = "Active" THEN loan.principal ELSE 0)
            = lending.loans[id].principal - paid,
         lending' = [base |-> lending.base, loans |-> [lending.loans EXCEPT ![id] = loan],
                     total_borrowed |-> Lowered(lending.total_borrowed, paid),
                     total_supplied |-> lending.total_supplied]
  PROVE  LendingInv'
<1> DEFINE f == lending.loans
           principal == f[id].principal
           total == Lowered(lending.total_borrowed, paid)
           loans == [f EXCEPT ![id] = loan]
<1>1. /\ Owed(f, id) = principal /\ principal \in Nat
      /\ principal <= lending.total_borrowed
      /\ lending.total_borrowed \in Nat /\ lending.total_supplied \in Nat
      /\ lending.total_borrowed <= lending.total_supplied
  BY OwedWithin
<1>2. total = lending.total_borrowed - paid /\ total \in Nat /\ total <= lending.total_supplied
  BY <1>1 DEF Lowered
<1>3. total - (IF loan.status = "Active" THEN loan.principal ELSE 0)
        >= lending.total_borrowed - Owed(f, id)
  <2> DEFINE owed == IF loan.status = "Active" THEN loan.principal ELSE 0
  <2>1. owed = principal - paid
    OBVIOUS
  <2> HIDE DEF owed, total, f, principal
  <2>2. total - owed >= lending.total_borrowed - Owed(f, id)
    BY <1>1, <1>2, <2>1
  <2> QED  BY <2>2 DEF owed
<1>4. /\ DOMAIN loans = DOMAIN f \cup {id} /\ loans[id] = loan
      /\ \A x \in DOMAIN f \ {id} : loans[x] = f[x]
  OBVIOUS
<1> HIDE DEF total, loans
<1>5. lending' = [base |-> lending.base, loans |-> loans, total_borrowed |-> total,
                  total_supplied |-> lending.total_supplied]
  BY DEF total, loans
<1> QED  BY <1>2, <1>3, <1>4, <1>5, OneLoanKeeps

(***************************************************************************)
(* repay: in full, of the interest alone, and of some of the principal.    *)
(***************************************************************************)
LEMMA RepayKeeps ==
  ASSUME LendingInv, now \in Nat, NEW id \in DOMAIN lending.loans, NEW amount \in LoanAmounts,
         Repay(id, amount)
  PROVE  LendingInv'
<1> DEFINE old == lending.loans[id]
<1>0. amount \in Nat /\ LoanOK(old) /\ old.status = "Active"
      /\ lending = [base |-> lending.base, loans |-> lending.loans,
                    total_borrowed |-> lending.total_borrowed,
                    total_supplied |-> lending.total_supplied]
  BY LendingAssumption DEF LendingInv, LoansOK, Repay
<1>1. PICK loan \in Accruals(old) :
       \/ /\ amount >= TotalDebt(loan)
          /\ lending' = [FullyRepaid(loan) EXCEPT
                           !.loans[id] = [loan EXCEPT !.status = "Repaid"]]
       \/ /\ amount < TotalDebt(loan)
          /\ amount <= loan.interest
          /\ lending' = [lending EXCEPT
                           !.loans[id] = [loan EXCEPT !.interest = @ - amount]]
       \/ /\ amount < TotalDebt(loan)
          /\ amount > loan.interest
          /\ LET payment == amount - loan.interest
             IN  lending' = [lending EXCEPT
                   !.loans[id] = [loan EXCEPT !.interest = 0,
                                              !.principal = @ - payment],
                   !.total_borrowed = Lowered(@, payment)]
  BY DEF Repay
<1>2. LoanOK(loan) /\ loan.principal = old.principal /\ loan.status = "Active"
  BY <1>0, AccrualOK
<1>3. /\ old.principal \in Nat /\ loan.interest \in Int /\ loan.principal \in Nat
      /\ lending.total_borrowed \in Nat
  BY <1>0, <1>2 DEF LoanOK, LendingInv
<1>4. ASSUME amount >= TotalDebt(loan),
             lending' = [FullyRepaid(loan) EXCEPT
                           !.loans[id] = [loan EXCEPT !.status = "Repaid"]]
      PROVE  LendingInv'
  <2> DEFINE new == [loan EXCEPT !.status = "Repaid"]
  <2>1. LoanOK(new) /\ new.status # "Active"
    BY <1>2 DEF LoanOK
  <2> HIDE DEF new
  <2>2. lending' = [FullyRepaid(loan) EXCEPT !.loans[id] = new]
    BY <1>4 DEF new
  <2> DEFINE total == Lowered(lending.total_borrowed, loan.principal)
  <2>3. lending' = [base |-> lending.base, loans |-> [lending.loans EXCEPT ![id] = new],
                    total_borrowed |-> total,
                    total_supplied |-> lending.total_supplied]
    <3>1. FullyRepaid(loan) = [lending EXCEPT !.total_borrowed = total]
      BY DEF FullyRepaid
    <3> HIDE DEF total
    <3> QED  BY <1>0, <2>2, <3>1
  <2>4. (IF new.status = "Active" THEN new.principal ELSE 0) = old.principal - old.principal
    BY <1>3, <2>1
  <2>5. total = Lowered(lending.total_borrowed, old.principal) /\ old.principal <= old.principal
    BY <1>2, <1>3
  <2> HIDE DEF total
  <2> QED  BY <1>0, <1>3, <2>1, <2>3, <2>4, <2>5, LoanInPlace
<1>5. ASSUME amount < TotalDebt(loan), amount <= loan.interest,
             lending' = [lending EXCEPT
                           !.loans[id] = [loan EXCEPT !.interest = @ - amount]]
      PROVE  LendingInv'
  <2> DEFINE new == [loan EXCEPT !.interest = @ - amount]
  <2>1. LoanOK(new) /\ new.status = "Active" /\ new.principal = old.principal
    <3>1. loan.interest - amount \in Int
      BY <1>0, <1>3
    <3> QED  BY <1>2, <3>1 DEF LoanOK
  <2>2. lending' = [lending EXCEPT !.loans[id] = new]
    BY <1>5
  <2> HIDE DEF new
  <2> DEFINE total == Lowered(lending.total_borrowed, 0)
  <2>3. total = lending.total_borrowed
    BY <1>3 DEF Lowered
  <2> HIDE DEF total
  <2>4. lending' = [base |-> lending.base, loans |-> [lending.loans EXCEPT ![id] = new],
                    total_borrowed |-> total,
                    total_supplied |-> lending.total_supplied]
    BY <1>0, <2>2, <2>3
  <2>5. (IF new.status = "Active" THEN new.principal ELSE 0) = old.principal - 0
        /\ 0 <= old.principal /\ 0 \in Nat
    BY <1>3, <2>1
  <2> QED  BY <1>0, <2>1, <2>4, <2>5, LoanInPlace DEF total
<1>6. ASSUME amount < TotalDebt(loan), amount > loan.interest,
             lending' = [lending EXCEPT
                   !.loans[id] = [loan EXCEPT !.interest = 0,
                                              !.principal = @ - (amount - loan.interest)],
                   !.total_borrowed = Lowered(@, amount - loan.interest)]
      PROVE  LendingInv'
  <2> DEFINE paid == amount - loan.interest
             rest == loan.principal - paid
             new == [loan EXCEPT !.interest = 0, !.principal = rest]
             total == Lowered(lending.total_borrowed, paid)
  <2>1. paid \in Nat /\ paid <= old.principal /\ rest \in Nat /\ rest = old.principal - paid
    BY <1>0, <1>2, <1>3, <1>6 DEF TotalDebt
  <2>2. lending' = [lending EXCEPT !.loans[id] = new, !.total_borrowed = total]
    BY <1>6
  <2> HIDE DEF rest, total, paid
  <2>3. LoanOK(new) /\ new.status = "Active" /\ new.principal = rest
    BY <1>2, <2>1 DEF LoanOK
  <2> HIDE DEF new
  <2>4. lending' = [base |-> lending.base, loans |-> [lending.loans EXCEPT ![id] = new],
                    total_borrowed |-> total,
                    total_supplied |-> lending.total_supplied]
    BY <1>0, <2>2
  <2>5. (IF new.status = "Active" THEN new.principal ELSE 0) = old.principal - paid
    BY <2>1, <2>3
  <2> QED  BY <1>0, <2>1, <2>3, <2>4, <2>5, LoanInPlace DEF total
<1> QED  BY <1>1, <1>4, <1>5, <1>6

(***************************************************************************)
(* liquidate.                                                              *)
(***************************************************************************)
LEMMA LiquidateKeeps ==
  ASSUME LendingInv, NEW id \in DOMAIN lending.loans, Liquidate(id)
  PROVE  LendingInv'
<1> DEFINE old == lending.loans[id]
           new == [old EXCEPT !.status = "Liquidated"]
           total == Lowered(lending.total_borrowed, old.principal)
<1>0. LoanOK(old) /\ old.status = "Active"
      /\ lending = [base |-> lending.base, loans |-> lending.loans,
                    total_borrowed |-> lending.total_borrowed,
                    total_supplied |-> lending.total_supplied]
  BY DEF LendingInv, LoansOK, Liquidate, IsLiquidatable
<1>1. LoanOK(new) /\ new.status # "Active" /\ old.principal \in Nat
  BY <1>0 DEF LoanOK
<1>2. lending' = [lending EXCEPT !.loans[id] = new, !.total_borrowed = total]
  BY <1>0 DEF Liquidate
<1> HIDE DEF new, total
<1>3. lending' = [base |-> lending.base, loans |-> [lending.loans EXCEPT ![id] = new],
                  total_borrowed |-> total,
                  total_supplied |-> lending.total_supplied]
  BY <1>0, <1>2
<1>4. (IF new.status = "Active" THEN new.principal ELSE 0) = old.principal - old.principal
      /\ old.principal <= old.principal
  BY <1>1
<1> QED  BY <1>0, <1>1, <1>3, <1>4, LoanInPlace DEF total

(***************************************************************************)
(* Lending as a whole.                                                     *)
(***************************************************************************)
LEMMA LendingInitially == Init => LendingInv
<1> SUFFICES ASSUME Init PROVE LendingInv
  OBVIOUS
<1>1. PICK active \in BOOLEAN :
        lending = [base |-> NewPool("Lending", 0, 0, active),
                   loans |-> EmptyMap, total_borrowed |-> 0, total_supplied |-> 0]
  BY DEF Init, LendingInit
<1>2. /\ PoolOK(NewPool("Lending", 0, 0, active))
      /\ NewPool("Lending", 0, 0, active).total_deposits = 0
  BY NewPoolOK DEF NewPool
<1>3. /\ lending.base = NewPool("Lending", 0, 0, active) /\ lending.loans = EmptyMap
      /\ lending.total_borrowed = 0 /\ lending.total_supplied = 0
  BY <1>1
<1>4. LoansOK(EmptyMap) /\ SumFunction(Principals(EmptyMap)) = 0
  <2>1. DOMAIN EmptyMap = {}
    BY DEF EmptyMap
  <2>2. DOMAIN Principals(EmptyMap) = {}
    BY <2>1 DEF Principals, ActiveIds
  <2> QED  BY <2>1, <2>2, FS_EmptySet, SumEmpty DEF LoansOK, SumFunction
<1>5. LoansCovered
  BY <1>2, <1>3, <1>4, ActivePrincipalIs DEF LoansCovered
<1> QED  BY <1>1, <1>2, <1>3, <1>4, <1>5 DEF LendingInv

LEMMA LendingStep ==
  ASSUME LendingInv, now \in Nat, LendingNext \/ UNCHANGED lending
  PROVE  LendingInv'
<1>1. CASE UNCHANGED lending
  BY <1>1 DEF LendingInv, PoolOK, PoolTyped, PoolFields, Balanced, GetBalance, LoansOK, LoanOK,
              LoansCovered, ActivePrincipal
<1>2. CASE LendingNext
  BY <1>2, SupplyKeeps, BorrowKeeps, RepayKeeps, LiquidateKeeps DEF LendingNext
<1> QED  BY <1>1, <1>2

----------------------------------------------------------------------------
(***************************************************************************)
(* The treasury.  What a grant in hand may still pay out is kept within    *)
(* what was granted and not yet disbursed.                                 *)
(***************************************************************************)
Milestone == [amount : Nat, completed : BOOLEAN]

MilestoneAmounts(ms) == [i \in DOMAIN ms |-> ms[i].amount]

Remaining(ms, done) == SumFunctionOnSet(MilestoneAmounts(ms), {i \in DOMAIN ms : i > done})

GrantOK(g) ==
  /\ {"amount", "milestones", "current_milestone", "disbursed", "status"} \subseteq DOMAIN g
  /\ g.milestones \in Seq(Milestone)
  /\ g.amount \in Nat /\ g.current_milestone \in Nat /\ g.disbursed \in Nat
  /\ g.disbursed + Remaining(g.milestones, g.current_milestone) = g.amount

Due(g) == IF Disbursable(g) THEN g.amount - g.disbursed ELSE 0

Dues(grants) == [id \in DOMAIN grants |-> Due(grants[id])]

GrantsOK(grants) ==
  IsFiniteSet(DOMAIN grants) /\ \A id \in DOMAIN grants : GrantOK(grants[id])

DueAt(grants, id) == IF id \in DOMAIN grants THEN Due(grants[id]) ELSE 0

AllocationOK(a) ==
  {"allocated", "spent", "reserved"} \subseteq DOMAIN a /\ a.spent \in Nat

Spendings(as) == [c \in DOMAIN as |-> as[c].spent]

SpentAt(as, c) == IF c \in DOMAIN as THEN as[c].spent ELSE 0

AllocationsOK(as) ==
  IsFiniteSet(DOMAIN as) /\ \A c \in DOMAIN as : AllocationOK(as[c])

TreasuryFields ==
  treasury = [base |-> treasury.base, grants |-> treasury.grants,
              allocations |-> treasury.allocations,
              total_granted |-> treasury.total_granted,
              total_disbursed |-> treasury.total_disbursed]

TreasuryInv ==
  /\ TreasuryFields
  /\ PoolOK(treasury.base)
  /\ GrantsOK(treasury.grants) /\ AllocationsOK(treasury.allocations)
  /\ treasury.total_granted \in Nat /\ treasury.total_disbursed \in Nat
  /\ treasury.total_disbursed + SumFunction(Dues(treasury.grants)) <= treasury.total_granted
  /\ treasury.total_disbursed <= SumFunction(Spendings(treasury.allocations))

(***************************************************************************)
(* What the milestones from some point on add up to, and what follows for  *)
(* one grant.                                                              *)
(***************************************************************************)
LEMMA MilestonesSum ==
  ASSUME NEW ms \in Seq(Milestone), NEW done \in Nat
  PROVE  /\ DOMAIN ms = 1 .. Len(ms) /\ IsFiniteSet(DOMAIN ms) /\ Len(ms) \in Nat
         /\ \A i \in DOMAIN ms : MilestoneAmounts(ms)[i] = ms[i].amount /\ ms[i].amount \in Nat
         /\ Remaining(ms, done) \in Nat
         /\ Remaining(ms, 0) = MilestoneTotal(ms)
         /\ done + 1 \in DOMAIN ms =>
              Remaining(ms, done) = ms[done + 1].amount + Remaining(ms, done + 1)
<1> DEFINE F == MilestoneAmounts(ms)
           S == DOMAIN ms
           R(k) == {i \in S : i > k}
<1>1. S = 1 .. Len(ms) /\ Len(ms) \in Nat
  OBVIOUS
<1>2. IsFiniteSet(S)
  BY <1>1, FS_Interval
<1>3. \A i \in S : F[i] = ms[i].amount /\ ms[i].amount \in Nat
  <2>1. \A i \in S : F[i] = ms[i].amount
    BY DEF MilestoneAmounts
  <2>2. \A i \in S : ms[i] \in Milestone
    BY <1>1
  <2>3. \A m \in Milestone : m.amount \in Nat
    BY DEF Milestone
  <2> QED  BY <2>1, <2>2, <2>3
<1>4. ASSUME NEW k \in Nat PROVE R(k) \in SUBSET S /\ IsFiniteSet(R(k)) /\ Summable(F, R(k))
  <2>1. R(k) \in SUBSET S
    OBVIOUS
  <2>2. IsFiniteSet(R(k))
    <3> HIDE DEF S, R
    <3> QED  BY <1>2, <2>1, FS_Subset
  <2> HIDE DEF F, S, R
  <2> QED  BY <1>3, <2>1, <2>2 DEF Summable
<1>5. Remaining(ms, done) \in Nat
  <2>1. SumFunctionOnSet(F, R(done)) \in Nat
    <3> HIDE DEF F, S, R
    <3> QED  BY <1>3, <1>4, SumNat
  <2> QED  BY <2>1 DEF Remaining
<1>6. Remaining(ms, 0) = MilestoneTotal(ms)
  <2>1. R(0) = S
    BY <1>1
  <2>2. MilestoneTotal(ms) = SumFunction(F) /\ DOMAIN F = S
    BY DEF MilestoneTotal, MilestoneAmounts
  <2>3. Remaining(ms, 0) = SumFunctionOnSet(F, R(0))
    BY DEF Remaining
  <2> HIDE DEF F, S, R
  <2> QED  BY <2>1, <2>2, <2>3 DEF SumFunction
<1>7. ASSUME done + 1 \in S
      PROVE  Remaining(ms, done) = ms[done + 1].amount + Remaining(ms, done + 1)
  <2>1. done + 1 \in R(done) /\ R(done) \ {done + 1} = R(done + 1)
    BY <1>1, <1>7
  <2>2. SumFunctionOnSet(F, R(done)) = F[done + 1] + SumFunctionOnSet(F, R(done + 1))
    <3> HIDE DEF F, S, R
    <3> QED  BY <1>4, <2>1, SumTakeOut
  <2>3. F[done + 1] = ms[done + 1].amount
    BY <1>3, <1>7
  <2>4. /\ Remaining(ms, done) = SumFunctionOnSet(F, R(done))
        /\ Remaining(ms, done + 1) = SumFunctionOnSet(F, R(done + 1))
    BY DEF Remaining
  <2> HIDE DEF F, S, R
  <2> QED  BY <2>2, <2>3, <2>4
<1> QED  BY <1>1, <1>2, <1>3, <1>5, <1>6, <1>7

LEMMA GrantWithin ==
  ASSUME NEW g, GrantOK(g)
  PROVE  g.disbursed <= g.amount /\ Due(g) \in Nat /\ Due(g) <= g.amount
         /\ g.amount \in Nat /\ g.disbursed \in Nat
<1>1. Remaining(g.milestones, g.current_milestone) \in Nat
  BY MilestonesSum DEF GrantOK
<1> QED  BY <1>1 DEF GrantOK, Due

LEMMA NewGrantOK ==
  ASSUME NEW amount \in Nat, NEW plan \in Seq(Milestone), MilestoneTotal(plan) = amount
  PROVE  GrantOK(NewGrant(amount, plan)) /\ Due(NewGrant(amount, plan)) = 0
<1> DEFINE g == NewGrant(amount, plan)
<1>1. /\ g.amount = amount /\ g.milestones = plan /\ g.current_milestone = 0
      /\ g.disbursed = 0 /\ g.status = "Proposed"
      /\ {"amount", "milestones", "current_milestone", "disbursed", "status"} \subseteq DOMAIN g
  BY DEF NewGrant
<1>2. Remaining(plan, 0) = amount
  BY MilestonesSum
<1> HIDE DEF g
<1>3. GrantOK(g)
  BY <1>1, <1>2 DEF GrantOK
<1>4. Due(g) = 0
  BY <1>1 DEF Due, Disbursable
<1> QED  BY <1>3, <1>4 DEF g

(***************************************************************************)
(* The sums over all grants and over all categories, when one entry        *)
(* changes.                                                                *)
(***************************************************************************)
LEMMA DuesSum ==
  ASSUME NEW grants, GrantsOK(grants)
  PROVE  /\ SumFunction(Dues(grants)) \in Nat
         /\ Summable(Dues(grants), DOMAIN grants) /\ DOMAIN Dues(grants) = DOMAIN grants
         /\ \A id \in DOMAIN grants : Dues(grants)[id] = Due(grants[id])
<1> DEFINE F == Dues(grants)
           S == DOMAIN grants
<1>1. DOMAIN F = S /\ \A id \in S : F[id] = Due(grants[id])
  BY DEF Dues
<1>2. \A id \in S : Due(grants[id]) \in Nat
  BY GrantWithin DEF GrantsOK
<1>3. IsFiniteSet(S)
  BY DEF GrantsOK
<1> HIDE DEF F, S
<1>4. Summable(F, S) /\ SumFunctionOnSet(F, S) \in Nat
  BY <1>1, <1>2, <1>3, SumNat DEF Summable
<1> QED  BY <1>1, <1>4 DEF F, S, SumFunction

LEMMA OneGrantChanged ==
  ASSUME NEW f, NEW g, GrantsOK(f), GrantsOK(g), NEW k, DOMAIN g = DOMAIN f \cup {k},
         \A id \in DOMAIN f \ {k} : g[id] = f[id]
  PROVE  /\ SumFunction(Dues(g)) = SumFunction(Dues(f)) - DueAt(f, k) + DueAt(g, k)
         /\ SumFunction(Dues(f)) \in Nat /\ DueAt(g, k) \in Nat
         /\ DueAt(f, k) \in Nat
<1> DEFINE F == Dues(f)
           G == Dues(g)
<1>2. /\ SumFunction(F) \in Nat /\ Summable(F, DOMAIN F) /\ DOMAIN F = DOMAIN f
      /\ \A id \in DOMAIN f : F[id] = Due(f[id])
  BY DuesSum
<1>3. DOMAIN G = DOMAIN g /\ \A id \in DOMAIN g : G[id] = Due(g[id])
  BY DuesSum
<1> HIDE DEF F, G
<1>4. DueAt(g, k) \in Nat /\ G[k] = DueAt(g, k)
  BY <1>3, GrantWithin DEF GrantsOK, DueAt
<1>5. \A id \in DOMAIN F \ {k} : G[id] = F[id]
  BY <1>2, <1>3
<1>6. SumFunction(G) = SumFunction(F) - (IF k \in DOMAIN F THEN F[k] ELSE 0) + G[k]
  <2>1. DOMAIN G = DOMAIN F \cup {k} /\ G[k] \in Int
    BY <1>2, <1>3, <1>4
  <2>2. Summable(F, DOMAIN F)
    BY <1>2
  <2> QED  BY <1>5, <2>1, <2>2, SumInserted
<1>7. (IF k \in DOMAIN F THEN F[k] ELSE 0) = DueAt(f, k)
  BY <1>2 DEF DueAt
<1>8. DueAt(f, k) \in Nat
  BY GrantWithin DEF GrantsOK, DueAt
<1> QED  BY <1>2, <1>4, <1>6, <1>7, <1>8 DEF F, G

LEMMA OneAllocationChanged ==
  ASSUME NEW f, NEW g, AllocationsOK(f), AllocationsOK(g), NEW k,
         DOMAIN g = DOMAIN f \cup {k},
         \A c \in DOMAIN f \ {k} : g[c] = f[c]
  PROVE  /\ SumFunction(Spendings(g)) = SumFunction(Spendings(f)) - SpentAt(f, k) + SpentAt(g, k)
         /\ SumFunction(Spendings(f)) \in Int /\ SpentAt(g, k) \in Nat
         /\ SpentAt(f, k) \in Nat
<1> DEFINE F == Spendings(f)
           G == Spendings(g)
<1>2. DOMAIN F = DOMAIN f /\ \A c \in DOMAIN f : F[c] = f[c].spent
  BY DEF Spendings
<1>3. DOMAIN G = DOMAIN g /\ \A c \in DOMAIN g : G[c] = g[c].spent
  BY DEF Spendings
<1> HIDE DEF F, G
<1>4. Summable(F, DOMAIN F)
  BY <1>2 DEF Summable, AllocationsOK, AllocationOK
<1>5. \A c \in DOMAIN F \ {k} : G[c] = F[c]
  BY <1>2, <1>3
<1>6. SpentAt(g, k) \in Nat /\ G[k] = SpentAt(g, k) /\ G[k] \in Int /\ DOMAIN G = DOMAIN F \cup {k}
  BY <1>2, <1>3 DEF AllocationsOK, AllocationOK, SpentAt
<1>7. SumFunction(G) = SumFunction(F) - (IF k \in DOMAIN F THEN F[k] ELSE 0) + G[k]
      /\ SumFunction(F) \in Int
  BY <1>4, <1>5, <1>6, SumInserted
<1>8. (IF k \in DOMAIN F THEN F[k] ELSE 0) = SpentAt(f, k)
  BY <1>2 DEF SpentAt
<1>9. SpentAt(f, k) \in Nat
  BY DEF AllocationsOK, AllocationOK, SpentAt
<1> QED  BY <1>6, <1>7, <1>8, <1>9 DEF F, G

LEMMA TreasuryFrom ==
  ASSUME NEW b, NEW gs, NEW as, NEW granted \in Nat, NEW disbursed \in Nat,
         treasury' = [base |-> b, grants |-> gs, allocations |-> as,
                      total_granted |-> granted, total_disbursed |-> disbursed],
         PoolOK(b), GrantsOK(gs), AllocationsOK(as),
         disbursed + SumFunction(Dues(gs)) <= granted,
         disbursed <= SumFunction(Spendings(as))
  PROVE  TreasuryInv'
<1>1. /\ treasury'.base = b /\ treasury'.grants = gs /\ treasury'.allocations = as
      /\ treasury'.total_granted = granted /\ treasury'.total_disbursed = disbursed
  OBVIOUS
<1>2. TreasuryFields'
  BY DEF TreasuryFields
<1>3. PoolOK(treasury.base)'
  <2>1. PoolOK(treasury'.base)
    BY <1>1
  <2> QED  BY <2>1 DEF PoolOK, PoolTyped, PoolFields, Balanced, GetBalance
<1>4. GrantsOK(treasury.grants)'
  <2>1. GrantsOK(treasury'.grants)
    BY <1>1
  <2> QED  BY <2>1 DEF GrantsOK, GrantOK, Remaining, MilestoneAmounts, Milestone
<1>5. AllocationsOK(treasury.allocations)'
  <2>1. AllocationsOK(treasury'.allocations)
    BY <1>1
  <2> QED  BY <2>1 DEF AllocationsOK, AllocationOK
<1>6. SumFunction(Dues(treasury.grants))' = SumFunction(Dues(gs))
  BY <1>1 DEF Dues, Due, Disbursable
<1>7. SumFunction(Spendings(treasury.allocations))' = SumFunction(Spendings(as))
  BY <1>1 DEF Spendings
<1> QED  BY <1>1, <1>2, <1>3, <1>4, <1>5, <1>6, <1>7 DEF TreasuryInv

(***************************************************************************)
(* One lemma per action, and what they share: a change of a reservation,   *)
(* a change of one grant.                                                  *)
(***************************************************************************)
LEMMA TreasuryDepositKeeps ==
  ASSUME TreasuryInv, NEW v \in Validator, NEW amount \in TreasuryDeposits,
         TreasuryDeposit(v, amount)
  PROVE  TreasuryInv'
<1> DEFINE b == Deposit(treasury.base, v, amount)
<1>1. amount \in Nat /\ PoolOK(treasury.base)
  BY TreasuryAssumption DEF TreasuryInv
<1>2. PoolOK(b)
  BY <1>1, DepositOK
<1>3. treasury' = [treasury EXCEPT !.base = b]
  BY DEF TreasuryDeposit
<1> HIDE DEF b
<1>4. treasury' = [base |-> b, grants |-> treasury.grants, allocations |-> treasury.allocations,
                   total_granted |-> treasury.total_granted,
                   total_disbursed |-> treasury.total_disbursed]
  BY <1>3 DEF TreasuryInv, TreasuryFields
<1> QED  BY <1>2, <1>4, TreasuryFrom DEF TreasuryInv

LEMMA SetAllocationKeeps ==
  ASSUME TreasuryInv, NEW c \in Category, NEW amount \in Budgets, SetAllocation(c, amount)
  PROVE  TreasuryInv'
<1> DEFINE old == treasury.allocations
           a == IF c \in DOMAIN old THEN [old[c] EXCEPT !.allocated = amount]
                                    ELSE NewAllocation(amount)
           as == Inserted(old, c, a)
<1>0. AllocationsOK(old) /\ treasury.total_disbursed \in Nat
      /\ treasury.total_disbursed <= SumFunction(Spendings(old))
  BY DEF TreasuryInv
<1>1. AllocationOK(a) /\ a.spent = SpentAt(old, c)
  <2>1. CASE c \in DOMAIN old
    <3>1. AllocationOK(old[c])
      BY <1>0, <2>1 DEF AllocationsOK
    <3> QED  BY <2>1, <3>1 DEF AllocationOK, SpentAt
  <2>2. CASE ~ (c \in DOMAIN old)
    BY <2>2 DEF AllocationOK, NewAllocation, SpentAt
  <2> QED  BY <2>1, <2>2
<1>2. treasury' = [treasury EXCEPT !.allocations = as]
  BY DEF SetAllocation
<1> HIDE DEF a
<1>3. DOMAIN as = DOMAIN old \cup {c} /\ as[c] = a /\ \A x \in DOMAIN old \ {c} : as[x] = old[x]
  BY DEF Inserted
<1> HIDE DEF as, old
<1>4. AllocationsOK(as) /\ SumFunction(Spendings(as)) = SumFunction(Spendings(old))
  <2>1. AllocationsOK(as)
    <3>1. IsFiniteSet(DOMAIN as)
      BY <1>0, <1>3, FS_AddElement DEF AllocationsOK
    <3>2. \A x \in DOMAIN as : AllocationOK(as[x])
      BY <1>0, <1>1, <1>3 DEF AllocationsOK
    <3> QED  BY <3>1, <3>2 DEF AllocationsOK
  <2>2. /\ SumFunction(Spendings(as))
              = SumFunction(Spendings(old)) - SpentAt(old, c) + SpentAt(as, c)
        /\ SumFunction(Spendings(old)) \in Int /\ SpentAt(as, c) \in Nat
    BY <1>0, <1>3, <2>1, OneAllocationChanged
  <2>3. SpentAt(as, c) = SpentAt(old, c)
    BY <1>1, <1>3 DEF SpentAt
  <2> QED  BY <2>1, <2>2, <2>3
<1>5. treasury' = [base |-> treasury.base, grants |-> treasury.grants, allocations |-> as,
                   total_granted |-> treasury.total_granted,
                   total_disbursed |-> treasury.total_disbursed]
  BY <1>2 DEF TreasuryInv, TreasuryFields
<1>6. treasury.total_disbursed <= SumFunction(Spendings(as))
  BY <1>0, <1>4
<1> QED  BY <1>4, <1>5, <1>6, TreasuryFrom DEF TreasuryInv

LEMMA ReservedChanged ==
  ASSUME TreasuryInv, NEW c \in DOMAIN treasury.allocations, NEW r
  PROVE  LET as == [treasury.allocations EXCEPT ![c].reserved = r]
         IN  /\ AllocationsOK(as)
             /\ treasury.total_disbursed <= SumFunction(Spendings(as))
<1> DEFINE old == treasury.allocations
           a == [old[c] EXCEPT !.reserved = r]
           as == [old EXCEPT ![c] = a]
<1>0. AllocationsOK(old) /\ treasury.total_disbursed <= SumFunction(Spendings(old))
  BY DEF TreasuryInv
<1>1. AllocationOK(a) /\ a.spent = old[c].spent
  <2>1. AllocationOK(old[c])
    BY <1>0 DEF AllocationsOK
  <2> QED  BY <2>1 DEF AllocationOK
<1>2. as = [treasury.allocations EXCEPT ![c].reserved = r]
  OBVIOUS
<1> HIDE DEF a
<1>3. DOMAIN as = DOMAIN old \cup {c} /\ as[c] = a /\ \A x \in DOMAIN old \ {c} : as[x] = old[x]
  OBVIOUS
<1>c. c \in DOMAIN old
  OBVIOUS
<1> HIDE DEF as, old
<1>4. AllocationsOK(as)
  <2>1. IsFiniteSet(DOMAIN as)
    BY <1>0, <1>3, FS_AddElement DEF AllocationsOK
  <2>2. \A x \in DOMAIN as : AllocationOK(as[x])
    BY <1>0, <1>1, <1>3 DEF AllocationsOK
  <2> QED  BY <2>1, <2>2 DEF AllocationsOK
<1>5. /\ SumFunction(Spendings(as))
           = SumFunction(Spendings(old)) - SpentAt(old, c) + SpentAt(as, c)
      /\ SumFunction(Spendings(old)) \in Int /\ SpentAt(as, c) \in Nat
  BY <1>0, <1>3, <1>4, OneAllocationChanged
<1>6. SpentAt(as, c) = SpentAt(old, c)
  BY <1>1, <1>3, <1>c DEF SpentAt
<1>7. SumFunction(Spendings(as)) = SumFunction(Spendings(old))
  BY <1>5, <1>6
<1> QED  BY <1>0, <1>2, <1>4, <1>7

LEMMA GrantReplaced ==
  ASSUME TreasuryInv, NEW id \in DOMAIN treasury.grants, NEW grant, GrantOK(grant)
  PROVE  LET gs == [treasury.grants EXCEPT ![id] = grant]
         IN  /\ GrantsOK(gs)
             /\ SumFunction(Dues(gs))
                  = SumFunction(Dues(treasury.grants)) - Due(treasury.grants[id]) + Due(grant)
             /\ SumFunction(Dues(treasury.grants)) \in Nat
             /\ Due(treasury.grants[id]) \in Nat /\ Due(grant) \in Nat
<1> DEFINE old == treasury.grants
           gs == [old EXCEPT ![id] = grant]
<1>0. GrantsOK(old)
  BY DEF TreasuryInv
<1>1. DOMAIN gs = DOMAIN old \cup {id} /\ gs[id] = grant /\ \A x \in DOMAIN old \ {id} : gs[x] = old[x]
  OBVIOUS
<1>2. id \in DOMAIN old
  OBVIOUS
<1> HIDE DEF gs, old
<1>3. GrantsOK(gs)
  <2>1. IsFiniteSet(DOMAIN gs)
    BY <1>0, <1>1, FS_AddElement DEF GrantsOK
  <2>2. \A x \in DOMAIN gs : GrantOK(gs[x])
    BY <1>0, <1>1 DEF GrantsOK
  <2> QED  BY <2>1, <2>2 DEF GrantsOK
<1>4. /\ SumFunction(Dues(gs)) = SumFunction(Dues(old)) - DueAt(old, id) + DueAt(gs, id)
      /\ SumFunction(Dues(old)) \in Nat /\ DueAt(gs, id) \in Nat
      /\ DueAt(old, id) \in Nat
  BY <1>0, <1>1, <1>3, OneGrantChanged
<1>5. DueAt(gs, id) = Due(grant) /\ DueAt(old, id) = Due(old[id])
  BY <1>1, <1>2 DEF DueAt
<1> QED  BY <1>3, <1>4, <1>5 DEF gs, old

LEMMA ProposeKeeps ==
  ASSUME TreasuryInv, NEW v \in Validator, NEW amount \in Budgets, NEW plan \in Plans,
         NEW c \in Category, ProposeGrant(v, amount, plan, c)
  PROVE  TreasuryInv'
<1> DEFINE k == GrantId(v, now)
           grant == NewGrant(amount, plan)
           old == treasury.grants
           gs == Inserted(old, k, grant)
           r == treasury.allocations[c].reserved + amount
           as == [treasury.allocations EXCEPT ![c].reserved = r]
<1>0. /\ amount \in Nat /\ plan \in Seq(Milestone) /\ MilestoneTotal(plan) = amount
      /\ c \in DOMAIN treasury.allocations /\ GrantsOK(old)
      /\ treasury.total_disbursed \in Nat /\ treasury.total_granted \in Nat
      /\ treasury.total_disbursed + SumFunction(Dues(old)) <= treasury.total_granted
  BY TreasuryAssumption DEF TreasuryInv, ProposeGrant, Milestone
<1>1. GrantOK(grant) /\ Due(grant) = 0
  BY <1>0, NewGrantOK
<1>2. treasury' = [treasury EXCEPT !.allocations = as, !.grants = gs]
  BY DEF ProposeGrant, TreasuryInv, TreasuryFields
<1>3. AllocationsOK(as) /\ treasury.total_disbursed <= SumFunction(Spendings(as))
  <2> HIDE DEF r
  <2> QED  BY <1>0, ReservedChanged
<1> HIDE DEF grant, k
<1>4. DOMAIN gs = DOMAIN old \cup {k} /\ gs[k] = grant /\ \A x \in DOMAIN old \ {k} : gs[x] = old[x]
  BY DEF Inserted
<1> HIDE DEF gs, as
<1>5. treasury' = [base |-> treasury.base, grants |-> gs, allocations |-> as,
                   total_granted |-> treasury.total_granted,
                   total_disbursed |-> treasury.total_disbursed]
  BY <1>2 DEF TreasuryInv, TreasuryFields
<1> HIDE DEF old
<1>6. GrantsOK(gs)
  <2>1. IsFiniteSet(DOMAIN gs)
    BY <1>0, <1>4, FS_AddElement DEF GrantsOK
  <2>2. \A x \in DOMAIN gs : GrantOK(gs[x])
    BY <1>0, <1>1, <1>4 DEF GrantsOK
  <2> QED  BY <2>1, <2>2 DEF GrantsOK
<1>7. /\ SumFunction(Dues(gs)) = SumFunction(Dues(old)) - DueAt(old, k) + DueAt(gs, k)
      /\ SumFunction(Dues(old)) \in Nat /\ DueAt(gs, k) \in Nat /\ DueAt(old, k) \in Nat
  BY <1>0, <1>4, <1>6, OneGrantChanged
<1>8. DueAt(gs, k) = 0
  BY <1>1, <1>4 DEF DueAt
<1>9. treasury.total_disbursed + SumFunction(Dues(gs)) <= treasury.total_granted
  BY <1>0, <1>7, <1>8
<1> QED  BY <1>3, <1>5, <1>6, <1>9, TreasuryFrom DEF TreasuryInv

LEMMA GrantStep ==
  ASSUME TreasuryInv, NEW id \in DOMAIN treasury.grants, NEW grant, GrantOK(grant),
         NEW as, AllocationsOK(as), NEW granted \in Nat, NEW disbursed \in Nat,
         disbursed <= SumFunction(Spendings(as)),
         disbursed + Due(grant) - treasury.total_disbursed - Due(treasury.grants[id])
           <= granted - treasury.total_granted,
         treasury' = [base |-> treasury.base,
                      grants |-> [treasury.grants EXCEPT ![id] = grant],
                      allocations |-> as, total_granted |-> granted,
                      total_disbursed |-> disbursed]
  PROVE  TreasuryInv'
<1> DEFINE old == treasury.grants
           gs == [old EXCEPT ![id] = grant]
<1>0. /\ treasury.total_disbursed \in Nat /\ treasury.total_granted \in Nat
      /\ treasury.total_disbursed + SumFunction(Dues(old)) <= treasury.total_granted
      /\ PoolOK(treasury.base)
  BY DEF TreasuryInv
<1>1. /\ GrantsOK(gs)
      /\ SumFunction(Dues(gs)) = SumFunction(Dues(old)) - Due(old[id]) + Due(grant)
      /\ SumFunction(Dues(old)) \in Nat /\ Due(old[id]) \in Nat /\ Due(grant) \in Nat
  BY GrantReplaced
<1>2. disbursed + SumFunction(Dues(gs)) <= granted
  <2>1. disbursed + Due(grant) - treasury.total_disbursed - Due(old[id])
           <= granted - treasury.total_granted
    OBVIOUS
  <2> HIDE DEF gs, old
  <2> QED  BY <1>0, <1>1, <2>1
<1> HIDE DEF gs
<1>3. treasury' = [base |-> treasury.base, grants |-> gs, allocations |-> as,
                   total_granted |-> granted, total_disbursed |-> disbursed]
  BY DEF gs
<1> QED  BY <1>0, <1>1, <1>2, <1>3, TreasuryFrom

LEMMA ApproveKeeps ==
  ASSUME TreasuryInv, NEW id \in DOMAIN treasury.grants, ApproveGrant(id)
  PROVE  TreasuryInv'
<1> DEFINE old == treasury.grants[id]
           new == [old EXCEPT !.status = "Approved"]
           granted == treasury.total_granted + old.amount
<1>0. GrantOK(old) /\ old.status = "Proposed" /\ old.amount \in Nat
      /\ treasury.total_granted \in Nat /\ treasury.total_disbursed \in Nat
      /\ AllocationsOK(treasury.allocations)
      /\ treasury.total_disbursed <= SumFunction(Spendings(treasury.allocations))
  BY DEF TreasuryInv, GrantsOK, GrantOK, ApproveGrant
<1>1. GrantOK(new) /\ new.amount = old.amount
  BY <1>0 DEF GrantOK
<1>2. treasury' = [treasury EXCEPT !.grants[id] = new, !.total_granted = granted]
  BY DEF ApproveGrant
<1>3. Due(old) = 0 /\ granted \in Nat
  BY <1>0 DEF Due, Disbursable
<1> HIDE DEF new, granted
<1>4. Due(new) \in Nat /\ Due(new) <= old.amount
  BY <1>1, GrantWithin
<1>5. treasury' = [base |-> treasury.base, grants |-> [treasury.grants EXCEPT ![id] = new],
                   allocations |-> treasury.allocations, total_granted |-> granted,
                   total_disbursed |-> treasury.total_disbursed]
  BY <1>2 DEF TreasuryInv, TreasuryFields
<1>6. treasury.total_disbursed + Due(new) - treasury.total_disbursed - Due(treasury.grants[id])
           <= granted - treasury.total_granted
  BY <1>0, <1>3, <1>4 DEF granted
<1> QED  BY <1>0, <1>1, <1>3, <1>5, <1>6, GrantStep

LEMMA CloseKeeps ==
  ASSUME TreasuryInv, NEW id \in DOMAIN treasury.grants, NEW new, GrantOK(new), Due(new) = 0,
         NEW as, AllocationsOK(as), treasury.total_disbursed <= SumFunction(Spendings(as)),
         treasury' = [base |-> treasury.base, grants |-> [treasury.grants EXCEPT ![id] = new],
                      allocations |-> as, total_granted |-> treasury.total_granted,
                      total_disbursed |-> treasury.total_disbursed]
  PROVE  TreasuryInv'
<1> DEFINE granted == treasury.total_granted
           disbursed == treasury.total_disbursed
<1>0. GrantOK(treasury.grants[id]) /\ granted \in Nat /\ disbursed \in Nat
      /\ disbursed <= SumFunction(Spendings(as))
  BY DEF TreasuryInv, GrantsOK
<1>1. Due(treasury.grants[id]) \in Nat
  BY <1>0, GrantWithin
<1>2. disbursed + Due(new) - treasury.total_disbursed - Due(treasury.grants[id])
           <= granted - treasury.total_granted
  BY <1>0, <1>1
<1>3. treasury' = [base |-> treasury.base, grants |-> [treasury.grants EXCEPT ![id] = new],
                   allocations |-> as, total_granted |-> granted, total_disbursed |-> disbursed]
  OBVIOUS
<1> HIDE DEF granted, disbursed
<1> QED  BY <1>0, <1>2, <1>3, GrantStep

LEMMA ClosedOK ==
  ASSUME NEW g, GrantOK(g), NEW closed \in {"Completed", "Cancelled"}
  PROVE  LET new == [g EXCEPT !.status = closed] IN GrantOK(new) /\ Due(new) = 0
<1> DEFINE new == [g EXCEPT !.status = closed]
<1>1. GrantOK(new) /\ new.status = closed
  BY DEF GrantOK
<1> HIDE DEF new
<1>2. Due(new) = 0
  BY <1>1 DEF Due, Disbursable
<1> QED  BY <1>1, <1>2 DEF new

LEMMA CancelKeeps ==
  ASSUME TreasuryInv, NEW id \in DOMAIN treasury.grants, NEW c \in Category, CancelGrant(id, c)
  PROVE  TreasuryInv'
<1> DEFINE unreleased == treasury.grants[id].amount - treasury.grants[id].disbursed
           reserved == treasury.allocations[c].reserved
           r == IF reserved >= unreleased THEN reserved - unreleased ELSE 0
           as == [treasury.allocations EXCEPT ![c].reserved = r]
           new == [treasury.grants[id] EXCEPT !.status = "Cancelled"]
<1>1. c \in DOMAIN treasury.allocations /\ GrantOK(treasury.grants[id])
  BY DEF CancelGrant, TreasuryInv, GrantsOK
<1>2. AllocationsOK(as) /\ treasury.total_disbursed <= SumFunction(Spendings(as))
  <2> HIDE DEF r
  <2> QED  BY <1>1, ReservedChanged
<1>3. treasury' = [treasury EXCEPT !.allocations = as, !.grants[id] = new]
  BY DEF CancelGrant, TreasuryInv, TreasuryFields
<1>4. GrantOK(new) /\ Due(new) = 0
  BY <1>1, ClosedOK
<1> HIDE DEF as, new
<1>5. treasury' = [base |-> treasury.base, grants |-> [treasury.grants EXCEPT ![id] = new],
                   allocations |-> as, total_granted |-> treasury.total_granted,
                   total_disbursed |-> treasury.total_disbursed]
  BY <1>3 DEF TreasuryInv, TreasuryFields
<1> QED  BY <1>2, <1>4, <1>5, CloseKeeps

LEMMA PaidOK ==
  ASSUME NEW g, GrantOK(g), Disbursable(g), ~ IsComplete(g)
  PROVE  LET m == g.milestones[g.current_milestone + 1].amount
         IN  GrantOK(Paid(g)) /\ m \in Nat /\ Due(Paid(g)) + m <= Due(g)
<1> DEFINE ms == g.milestones
           next == g.current_milestone + 1
           m == ms[next].amount
           new == [ms EXCEPT ![next].completed = TRUE]
           paid == [g EXCEPT !.milestones[next].completed = TRUE, !.disbursed = @ + m,
                             !.current_milestone = next]
           status == IF IsComplete(paid) THEN "Completed"
                     ELSE IF paid.current_milestone = 1 THEN "Active" ELSE paid.status
           p == [paid EXCEPT !.status = status]
<1>0. /\ ms \in Seq(Milestone) /\ Len(ms) \in Nat /\ g.current_milestone \in Nat
      /\ g.disbursed \in Nat /\ g.amount \in Nat /\ next \in Nat
      /\ g.disbursed + Remaining(ms, g.current_milestone) = g.amount
      /\ {"amount", "milestones", "current_milestone", "disbursed", "status"} \subseteq DOMAIN g
  BY DEF GrantOK
<1>1. next \in 1 .. Len(ms) /\ next \in DOMAIN ms
  BY <1>0 DEF IsComplete
<1>2. Paid(g) = p
  BY DEF Paid
<1>3. m \in Nat /\ Remaining(ms, g.current_milestone) = m + Remaining(ms, next)
      /\ Remaining(ms, next) \in Nat
  <2>1. \A i \in DOMAIN ms : ms[i].amount \in Nat
    BY <1>0, MilestonesSum
  <2>2. Remaining(ms, next) \in Nat
    BY <1>0, MilestonesSum
  <2>3. Remaining(ms, g.current_milestone) = m + Remaining(ms, next)
    BY <1>0, <1>1, MilestonesSum
  <2> QED  BY <1>1, <2>1, <2>2, <2>3
<1>4. new \in Seq(Milestone) /\ DOMAIN new = DOMAIN ms /\ MilestoneAmounts(new) = MilestoneAmounts(ms)
  <2> DEFINE e == [ms[next] EXCEPT !.completed = TRUE]
  <2>1. e \in Milestone /\ e.amount = ms[next].amount
    <3>1. ms[next] \in Milestone
      BY <1>0, <1>1
    <3> QED  BY <3>1 DEF Milestone
  <2>2. new = [ms EXCEPT ![next] = e]
    OBVIOUS
  <2> HIDE DEF e, new, ms, next
  <2>3. new \in Seq(Milestone) /\ DOMAIN new = DOMAIN ms
    BY <1>0, <1>1, <2>1, <2>2
  <2>4. \A i \in DOMAIN ms : new[i].amount = ms[i].amount
    BY <1>1, <2>1, <2>2
  <2> QED  BY <2>3, <2>4 DEF MilestoneAmounts
<1>5. Remaining(new, next) = Remaining(ms, next)
  <2> HIDE DEF new, ms, next
  <2> QED  BY <1>4 DEF Remaining
<1>6. /\ paid.amount = g.amount /\ paid.milestones = new /\ paid.current_milestone = next
      /\ paid.disbursed = g.disbursed + m /\ paid.status = g.status
      /\ DOMAIN paid = DOMAIN g
  <2>1. paid = [g EXCEPT !.milestones = new, !.disbursed = g.disbursed + m,
                         !.current_milestone = next]
    BY <1>0
  <2> HIDE DEF paid, new, m, next
  <2> QED  BY <1>0, <2>1
<1> HIDE DEF paid
<1>7. /\ p.amount = g.amount /\ p.milestones = new /\ p.current_milestone = next
      /\ p.disbursed = g.disbursed + m /\ p.status = status /\ DOMAIN p = DOMAIN g
  <2> HIDE DEF status, new, m, next
  <2> QED  BY <1>0, <1>6
<1>8. status \in {"Completed", "Active", g.status}
  BY <1>6
<1> HIDE DEF p, status, new, m, next
<1>9. GrantOK(p)
  <2>1. p.disbursed \in Nat /\ p.disbursed + Remaining(p.milestones, p.current_milestone) = p.amount
    BY <1>0, <1>3, <1>5, <1>7
  <2> QED  BY <1>0, <1>4, <1>7, <2>1 DEF GrantOK
<1>10. Due(p) + m <= Due(g)
  <2>1. Due(g) = g.amount - g.disbursed
    BY DEF Due
  <2>2. Due(p) = p.amount - p.disbursed \/ Due(p) = 0
    BY DEF Due
  <2> QED  BY <1>0, <1>3, <1>7, <2>1, <2>2
<1> QED  BY <1>2, <1>3, <1>9, <1>10 DEF m, next

LEMMA DisburseKeeps ==
  ASSUME TreasuryInv, NEW id \in DOMAIN treasury.grants, NEW c \in Category,
         DisburseMilestone(id, c)
  PROVE  TreasuryInv'
<1> DEFINE grant == treasury.grants[id]
           as == treasury.allocations
           granted == treasury.total_granted
           disbursed == treasury.total_disbursed
<1>0. /\ GrantOK(grant) /\ Disbursable(grant) /\ AllocationsOK(as)
      /\ disbursed <= SumFunction(Spendings(as)) /\ granted \in Nat /\ disbursed \in Nat
      /\ TreasuryFields
  BY DEF TreasuryInv, GrantsOK, DisburseMilestone
<1>1. CASE IsComplete(grant) /\ treasury' = [treasury EXCEPT !.grants[id].status = "Completed"]
  <2> DEFINE new == [grant EXCEPT !.status = "Completed"]
  <2>1. GrantOK(new) /\ Due(new) = 0
    BY <1>0, ClosedOK
  <2>2. treasury' = [treasury EXCEPT !.grants[id] = new]
    BY <1>1
  <2> HIDE DEF new
  <2>3. treasury' = [base |-> treasury.base, grants |-> [treasury.grants EXCEPT ![id] = new],
                     allocations |-> as, total_granted |-> treasury.total_granted,
                     total_disbursed |-> treasury.total_disbursed]
    BY <1>0, <2>2 DEF TreasuryFields
  <2> QED  BY <1>0, <2>1, <2>3, CloseKeeps
<1>2. ASSUME ~ IsComplete(grant),
             treasury' = Charge([treasury EXCEPT !.grants[id] = Paid(grant)], c,
                                grant.milestones[grant.current_milestone + 1].amount)
      PROVE  TreasuryInv'
  <2> DEFINE new == Paid(grant)
             m == grant.milestones[grant.current_milestone + 1].amount
             t == [treasury EXCEPT !.grants[id] = new]
             gs == [treasury.grants EXCEPT ![id] = new]
  <2>1. GrantOK(new) /\ m \in Nat /\ Due(new) + m <= Due(grant)
    BY <1>0, <1>2, PaidOK
  <2>2. treasury' = Charge(t, c, m)
    BY <1>2
  <2>3. Due(new) \in Nat /\ Due(grant) \in Nat
    BY <1>0, <2>1, GrantWithin
  <2> HIDE DEF new, m
  <2>4. t = [base |-> treasury.base, grants |-> gs, allocations |-> as,
             total_granted |-> granted, total_disbursed |-> disbursed]
    BY <1>0 DEF TreasuryFields
  <2>5. ASSUME NEW bs, AllocationsOK(bs), NEW d \in Nat, d <= SumFunction(Spendings(bs)),
               d = disbursed \/ d = disbursed + m,
               treasury' = [base |-> treasury.base, grants |-> gs, allocations |-> bs,
                            total_granted |-> granted, total_disbursed |-> d]
        PROVE  TreasuryInv'
    <3>1. d + Due(new) - treasury.total_disbursed - Due(treasury.grants[id])
            <= granted - treasury.total_granted
      <4>1. Due(new) + m <= Due(treasury.grants[id]) /\ Due(treasury.grants[id]) \in Nat
        BY <2>1, <2>3
      <4> QED  BY <1>0, <2>1, <2>3, <2>5, <4>1
    <3> HIDE DEF granted, disbursed
    <3> QED  BY <1>0, <2>1, <2>5, <3>1, GrantStep
  <2> HIDE DEF t, gs, granted, disbursed
  <2>6. CASE ~ (c \in DOMAIN as)
    <3>1. t.allocations = as
      BY <2>4
    <3>2. treasury' = t
      BY <2>2, <2>6, <3>1 DEF Charge
    <3> QED  BY <1>0, <2>4, <2>5, <3>2
  <2>7. CASE c \in DOMAIN as
    <3> DEFINE spent == as[c].spent + m
               a == [as[c] EXCEPT !.spent = spent]
               bs == [as EXCEPT ![c] = a]
               left == as[c].reserved - m
               e == [a EXCEPT !.reserved = left]
               cs == [as EXCEPT ![c] = e]
    <3>1. AllocationOK(as[c]) /\ as[c].spent \in Nat
      BY <1>0, <2>7 DEF AllocationsOK, AllocationOK
    <3>2. AllocationOK(a) /\ a.spent = spent /\ spent \in Nat /\ a.reserved = as[c].reserved
      <4>1. spent \in Nat
        BY <2>1, <3>1
      <4> HIDE DEF spent
      <4> QED  BY <3>1, <4>1 DEF AllocationOK
    <3>3. AllocationOK(e) /\ e.spent = spent
      <4> HIDE DEF a, left, spent
      <4> QED  BY <3>2 DEF AllocationOK
    <3>4. ASSUME NEW x, AllocationOK(x), x.spent = spent, NEW xs, xs = [as EXCEPT ![c] = x]
          PROVE  AllocationsOK(xs) /\ disbursed + m <= SumFunction(Spendings(xs))
      <4> HIDE DEF as, spent
      <4>1. DOMAIN xs = DOMAIN as \cup {c} /\ xs[c] = x /\ \A z \in DOMAIN as \ {c} : xs[z] = as[z]
        BY <2>7, <3>4
      <4>2. AllocationsOK(xs)
        <5>1. IsFiniteSet(DOMAIN xs)
          BY <1>0, <4>1, FS_AddElement DEF AllocationsOK
        <5>2. \A z \in DOMAIN xs : AllocationOK(xs[z])
          BY <1>0, <3>4, <4>1 DEF AllocationsOK
        <5> QED  BY <5>1, <5>2 DEF AllocationsOK
      <4>3. /\ SumFunction(Spendings(xs)) = SumFunction(Spendings(as)) - SpentAt(as, c) + SpentAt(xs, c)
            /\ SumFunction(Spendings(as)) \in Int /\ SpentAt(xs, c) \in Nat /\ SpentAt(as, c) \in Nat
        BY <1>0, <4>1, <4>2, OneAllocationChanged
      <4>4. SpentAt(xs, c) = SpentAt(as, c) + m
        BY <2>7, <3>4, <4>1 DEF SpentAt, spent
      <4>5. disbursed \in Nat /\ m \in Nat /\ disbursed <= SumFunction(Spendings(as))
        BY <1>0, <2>1
      <4> DEFINE after == SumFunction(Spendings(xs))
                 before == SumFunction(Spendings(as))
                 held == SpentAt(as, c)
      <4>6. after = before - held + (held + m) /\ before \in Int /\ held \in Nat
        BY <4>3, <4>4
      <4>7. disbursed <= before
        BY <4>5
      <4> HIDE DEF after, before, held
      <4>8. disbursed + m <= after
        BY <4>5, <4>6, <4>7
      <4>9. disbursed + m <= SumFunction(Spendings(xs))
        BY <4>8 DEF after
      <4> QED  BY <4>2, <4>9
    <3>5. AllocationsOK(bs) /\ disbursed + m <= SumFunction(Spendings(bs))
      <4> HIDE DEF a
      <4> QED  BY <3>2, <3>4
    <3>6. AllocationsOK(cs) /\ disbursed + m <= SumFunction(Spendings(cs))
      <4> HIDE DEF e
      <4> QED  BY <3>3, <3>4
    <3>7. disbursed <= SumFunction(Spendings(bs)) /\ disbursed + m \in Nat
      <4> DEFINE sum == SumFunction(Spendings(bs))
      <4>1. sum \in Int
        <5> HIDE DEF bs
        <5>1. DOMAIN Spendings(bs) = DOMAIN bs
              /\ \A z \in DOMAIN bs : Spendings(bs)[z] = bs[z].spent
          BY DEF Spendings
        <5>2. Summable(Spendings(bs), DOMAIN bs)
          BY <3>5, <5>1 DEF Summable, AllocationsOK, AllocationOK
        <5> QED  BY <5>1, <5>2, SumInt DEF SumFunction
      <4> HIDE DEF sum
      <4>2. disbursed + m <= sum
        BY <3>5 DEF sum
      <4>3. disbursed <= sum /\ disbursed + m \in Nat
        BY <1>0, <2>1, <4>1, <4>2
      <4> QED  BY <4>3 DEF sum
    <3>8. CASE as[c].reserved < m
      <4>1. treasury' = [t EXCEPT !.allocations[c].spent = @ + m]
        BY <2>2, <2>4, <2>7, <3>8 DEF Charge
      <4>2. t.allocations = as
        BY <2>4
      <4>3. treasury' = [t EXCEPT !.allocations = bs]
        BY <4>1, <4>2
      <4> HIDE DEF bs
      <4>4. treasury' = [base |-> treasury.base, grants |-> gs, allocations |-> bs,
                         total_granted |-> granted, total_disbursed |-> disbursed]
        BY <2>4, <4>3
      <4> QED  BY <1>0, <2>5, <3>5, <3>7, <4>4
    <3>9. CASE ~ (as[c].reserved < m)
      <4> DEFINE u == [t EXCEPT !.allocations[c].spent = @ + m]
      <4>1. t.allocations = as
        BY <2>4
      <4>2. u = [t EXCEPT !.allocations = bs]
        BY <4>1
      <4>3. treasury' = [u EXCEPT !.allocations[c].reserved = @ - m, !.total_disbursed = @ + m]
        BY <2>2, <2>7, <3>9, <4>1 DEF Charge
      <4> DEFINE total == disbursed + m
      <4> HIDE DEF bs, u, total
      <4>4. u = [base |-> treasury.base, grants |-> gs, allocations |-> bs,
                 total_granted |-> granted, total_disbursed |-> disbursed]
        BY <2>4, <4>2
      <4>5. u.allocations = bs /\ u.total_disbursed = disbursed
        BY <4>4
      <4>6. treasury' = [u EXCEPT !.allocations = [bs EXCEPT ![c].reserved = bs[c].reserved - m],
                                  !.total_disbursed = total]
        BY <4>3, <4>5 DEF total
      <4>7. [bs EXCEPT ![c].reserved = bs[c].reserved - m] = cs
        <5>1. bs[c] = a /\ DOMAIN bs = DOMAIN as /\ a.reserved = as[c].reserved
          BY <2>7, <3>2 DEF bs
        <5> HIDE DEF a
        <5> QED  BY <2>7, <5>1 DEF bs
      <4> HIDE DEF cs
      <4>8. treasury' = [base |-> treasury.base, grants |-> gs, allocations |-> cs,
                         total_granted |-> granted, total_disbursed |-> total]
        BY <4>4, <4>6, <4>7
      <4>9. total \in Nat /\ total <= SumFunction(Spendings(cs)) /\ total = disbursed + m
        BY <3>6, <3>7 DEF total
      <4> QED  BY <2>5, <3>6, <4>8, <4>9
    <3> QED  BY <3>8, <3>9
  <2> QED  BY <2>6, <2>7
<1> QED  BY <1>1, <1>2 DEF DisburseMilestone

(***************************************************************************)
(* The treasury as a whole.                                                *)
(***************************************************************************)
LEMMA TreasuryInitially == Init => TreasuryInv
<1> SUFFICES ASSUME Init PROVE TreasuryInv
  OBVIOUS
<1> DEFINE as == [c \in StandardCategory |-> NewAllocation(0)]
<1>1. PICK active \in BOOLEAN :
        treasury = [base |-> NewPool("Treasury", 0, 0, active), grants |-> EmptyMap,
                    allocations |-> as, total_granted |-> 0, total_disbursed |-> 0]
  BY DEF Init, TreasuryInit
<1>2. PoolOK(NewPool("Treasury", 0, 0, active))
  BY NewPoolOK
<1>3. GrantsOK(EmptyMap) /\ SumFunction(Dues(EmptyMap)) = 0
  <2>1. DOMAIN EmptyMap = {}
    BY DEF EmptyMap
  <2>2. DOMAIN Dues(EmptyMap) = {}
    BY <2>1 DEF Dues
  <2> QED  BY <2>1, <2>2, FS_EmptySet, SumEmpty DEF GrantsOK, SumFunction
<1>4. AllocationsOK(as) /\ SumFunction(Spendings(as)) = 0
  <2>1. DOMAIN as = StandardCategory /\ \A c \in StandardCategory : AllocationOK(as[c]) /\ as[c].spent = 0
    BY DEF NewAllocation, AllocationOK
  <2>2. IsFiniteSet(StandardCategory)
    BY TreasuryAssumption
  <2> HIDE DEF as
  <2>3. DOMAIN Spendings(as) = StandardCategory /\ \A c \in StandardCategory : Spendings(as)[c] = 0
    BY <2>1 DEF Spendings
  <2>4. SumFunctionOnSet(Spendings(as), StandardCategory) = 0
    BY <2>2, <2>3, SumZero
  <2> QED  BY <2>1, <2>2, <2>3, <2>4 DEF AllocationsOK, SumFunction
<1> HIDE DEF as
<1>5. /\ treasury.base = NewPool("Treasury", 0, 0, active) /\ treasury.grants = EmptyMap
      /\ treasury.allocations = as /\ treasury.total_granted = 0 /\ treasury.total_disbursed = 0
  BY <1>1
<1>6. TreasuryFields
  BY <1>1 DEF TreasuryFields
<1> QED  BY <1>2, <1>3, <1>4, <1>5, <1>6 DEF TreasuryInv

LEMMA TreasuryStep ==
  ASSUME TreasuryInv, TreasuryNext \/ UNCHANGED treasury
  PROVE  TreasuryInv'
<1>1. CASE UNCHANGED treasury
  <2>1. treasury' = [base |-> treasury.base, grants |-> treasury.grants,
                     allocations |-> treasury.allocations,
                     total_granted |-> treasury.total_granted,
                     total_disbursed |-> treasury.total_disbursed]
    BY <1>1 DEF TreasuryInv, TreasuryFields
  <2>2. /\ PoolOK(treasury.base) /\ GrantsOK(treasury.grants) /\ AllocationsOK(treasury.allocations)
        /\ treasury.total_granted \in Nat /\ treasury.total_disbursed \in Nat
        /\ treasury.total_disbursed + SumFunction(Dues(treasury.grants)) <= treasury.total_granted
        /\ treasury.total_disbursed <= SumFunction(Spendings(treasury.allocations))
    BY DEF TreasuryInv
  <2> QED  BY <2>1, <2>2, TreasuryFrom
<1>2. CASE TreasuryNext
  BY <1>2, TreasuryDepositKeeps, SetAllocationKeeps, ProposeKeeps, ApproveKeeps, DisburseKeeps,
     CancelKeeps DEF TreasuryNext
<1> QED  BY <1>1, <1>2

LEMMA TreasuryImplies == TreasuryInv => DisbursedWithinGranted
<1> SUFFICES ASSUME TreasuryInv PROVE DisbursedWithinGranted
  OBVIOUS
<1>1. Charged = SumFunction(Spendings(treasury.allocations))
  BY DEF Charged, Spendings
<1>2. SumFunction(Dues(treasury.grants)) \in Nat
  BY DuesSum DEF TreasuryInv
<1>3. treasury.total_disbursed <= treasury.total_granted
  BY <1>2 DEF TreasuryInv
<1>4. \A id \in DOMAIN treasury.grants : treasury.grants[id].disbursed <= treasury.grants[id].amount
  BY GrantWithin DEF TreasuryInv, GrantsOK
<1>5. treasury.total_disbursed <= Charged
  BY <1>1 DEF TreasuryInv
<1> QED  BY <1>3, <1>4, <1>5 DEF DisbursedWithinGranted

----------------------------------------------------------------------------
(***************************************************************************)
(* The deployment manager.  Every pool it owns stays balanced, through a   *)
(* deployment that walks a whole strategy too.                             *)
(***************************************************************************)
PoolsOK(ps) == IsFiniteSet(DOMAIN ps) /\ \A id \in DOMAIN ps : PoolOK(ps[id])

ManagerInv ==
  /\ manager = [pools |-> manager.pools, strategies |-> manager.strategies]
  /\ PoolsOK(manager.pools)
  /\ \A v \in DOMAIN manager.strategies : manager.strategies[v] \in Seq(Allocation)

(***************************************************************************)
(* The amounts of a deployment, from lowest bits and rounded, are natural  *)
(* numbers.                                                                *)
(***************************************************************************)
LEMMA LimitNat ==
  ASSUME NEW amount \in Nat, NEW t \in Limit(amount)
  PROVE  t \in Nat
<1>1. Digit(amount) \in Int /\ 1 \in Nat
  BY DigitNat
<1> QED  BY <1>1, AsU64Nat DEF Limit

LEMMA AmountNat ==
  ASSUME NEW total \in Nat, NEW a \in Allocation, NEW t \in AllocationAmount(total, a)
  PROVE  t \in Nat
<1>1. /\ a.percentage \in Nat
      /\ a.min_amount # NoLimit => a.min_amount \in Nat
      /\ a.max_amount # NoLimit => a.max_amount \in Nat
  BY DEF Allocation
<1> DEFINE part   == Digit(total) * a.percentage
           shares == AsU64(part, 1000, a.percentage % 10 = 0 /\ part < Precision)
           least  == IF a.min_amount = NoLimit THEN {0} ELSE Limit(a.min_amount)
           most   == IF a.max_amount \in {NoLimit, 0} THEN {U64 - 1}
                     ELSE Limit(a.max_amount)
<1>2. PICK share \in shares, low \in least, high \in most :
        t = Smaller(Larger(share, low), high)
  BY DEF AllocationAmount
<1>3. share \in Nat
  <2>1. Digit(total) \in Nat
    BY DigitNat
  <2>2. part \in Int /\ 1000 \in Nat
    BY <1>1, <2>1
  <2> HIDE DEF part
  <2> QED  BY <2>2, AsU64Nat
<1>4. low \in Nat
  BY <1>1, LimitNat
<1>5. high \in Nat
  <2>1. U64 - 1 \in Nat
    BY PoolAssumption
  <2> QED  BY <1>1, <2>1, LimitNat
<1> HIDE DEF part, shares, least, most
<1> QED  BY <1>2, <1>3, <1>4, <1>5 DEF Smaller, Larger

LEMMA AmountsNat ==
  ASSUME NEW total \in Nat, NEW strategy \in Seq(Allocation),
         NEW amounts \in AmountChoices(total, strategy)
  PROVE  \A i \in DOMAIN strategy : amounts[i] \in Nat
<1> SUFFICES ASSUME NEW i \in DOMAIN strategy PROVE amounts[i] \in Nat
  OBVIOUS
<1>1. amounts[i] \in AllocationAmount(total, strategy[i])
  BY DEF AmountChoices
<1>2. strategy[i] \in Allocation
  OBVIOUS
<1> QED  BY <1>1, <1>2, AmountNat

LEMMA DeployToOK ==
  ASSUME NEW ps, PoolsOK(ps), NEW v, NEW amount \in Nat, NEW best, NEW a
  PROVE  PoolsOK(DeployTo(ps, v, amount, best, a))
<1> DEFINE k == best[a.pool_type]
           p == Deposit(ps[k], v, amount)
           new == [ps EXCEPT ![k] = p]
<1>1. CASE Skipped(amount)
  BY <1>1 DEF DeployTo
<1>2. CASE ~ Skipped(amount)
  <2>1. DeployTo(ps, v, amount, best, a) = new
    BY <1>2 DEF DeployTo
  <2>2. k \in DOMAIN ps => PoolOK(p)
    <3> HIDE DEF k
    <3> QED  BY DepositOK DEF PoolsOK
  <2> HIDE DEF p, k
  <2>3. DOMAIN new = DOMAIN ps /\ \A id \in DOMAIN ps : new[id] = IF id = k THEN p ELSE ps[id]
    OBVIOUS
  <2> HIDE DEF new
  <2>4. PoolsOK(new)
    BY <2>2, <2>3 DEF PoolsOK
  <2> QED  BY <2>1, <2>4
<1> QED  BY <1>1, <1>2

LEMMA ReachedOK ==
  ASSUME NEW ps, NEW strategy \in Seq(Allocation), NEW amounts
  PROVE  /\ Reached(ps, strategy, amounts) \in Seq(Allocation)
         /\ Len(Reached(ps, strategy, amounts)) <= Len(strategy)
<1> DEFINE fails == {i \in DOMAIN strategy :
                       /\ ~ Skipped(amounts[i])
                       /\ Candidates(ps, strategy[i].pool_type) = {}}
<1>1. Reached(ps, strategy, amounts)
        = IF fails = {} THEN strategy ELSE SubSeq(strategy, 1, Min(fails) - 1)
  BY DEF Reached
<1>2. fails \in SUBSET (1 .. Len(strategy)) /\ Len(strategy) \in Nat
  OBVIOUS
<1> HIDE DEF fails
<1>3. CASE fails # {}
  <2>1. fails \subseteq Nat
    BY <1>2
  <2>2. PICK x \in fails : \A y \in fails : x <= y
    BY <1>3, <2>1, LeastOf
  <2>3. Min(fails) \in fails
    BY <2>2 DEF Min
  <2> DEFINE least == Min(fails)
             m == least - 1
  <2> HIDE DEF least
  <2>4. least \in 1 .. Len(strategy)
    BY <1>2, <2>3 DEF least
  <2>5. m \in Nat /\ m <= Len(strategy)
    BY <1>2, <2>4
  <2> HIDE DEF m
  <2>6. SubSeq(strategy, 1, m) \in Seq(Allocation) /\ Len(SubSeq(strategy, 1, m)) = m
    BY <1>2, <2>5
  <2> QED  BY <1>1, <1>3, <2>5, <2>6 DEF m, least
<1>4. CASE fails = {}
  BY <1>1, <1>2, <1>4
<1> QED  BY <1>3, <1>4

LEMMA StrategyOK ==
  ASSUME ManagerInv, NEW v
  PROVE  GetStrategy(v) \in Seq(Allocation)
<1>1. BalancedShares \in Seq(Allocation)
  <2>1. \A type \in PoolType, percentage \in Nat : Share(type, percentage) \in Allocation
    BY DEF Share, Allocation
  <2>2. /\ Share("Lending", 350) \in Allocation /\ Share("AMM", 300) \in Allocation
        /\ Share("StabilityReserve", 200) \in Allocation /\ Share("Treasury", 150) \in Allocation
    BY <2>1 DEF PoolType
  <2> QED  BY <2>2 DEF BalancedShares
<1> QED  BY <1>1 DEF GetStrategy, ManagerInv

(***************************************************************************)
(* A whole deployment: the recursive function exists, and by induction on  *)
(* the allocations that were made the pools stay balanced.                 *)
(***************************************************************************)
LEMMA DeployedOK ==
  ASSUME ManagerInv, NEW ps, PoolsOK(ps), NEW v, NEW best, NEW total \in Nat,
         NEW amounts \in AmountChoices(total, GetStrategy(v))
  PROVE  PoolsOK(Deployed(ps, v, amounts, best))
<1> DEFINE allocations == Reached(ps, GetStrategy(v), amounts)
           L == Len(allocations)
           Step(g, n) == IF n = 0 THEN ps
                         ELSE DeployTo(g[n - 1], v, amounts[n], best, allocations[n])
           upto[n \in 0 .. L] ==
             IF n = 0 THEN ps
             ELSE DeployTo(upto[n - 1], v, amounts[n], best, allocations[n])
<1>0. GetStrategy(v) \in Seq(Allocation)
  BY StrategyOK
<1>1. allocations \in Seq(Allocation) /\ Len(allocations) <= Len(GetStrategy(v))
  BY <1>0, ReachedOK
<1>2. L \in Nat /\ \A n \in 1 .. L : amounts[n] \in Nat
  <2>1. \A i \in DOMAIN GetStrategy(v) : amounts[i] \in Nat
    BY <1>0, AmountsNat
  <2>2. DOMAIN GetStrategy(v) = 1 .. Len(GetStrategy(v)) /\ Len(GetStrategy(v)) \in Nat
    BY <1>0
  <2> HIDE DEF allocations
  <2>3. L \in Nat
    BY <1>1
  <2> HIDE DEF L
  <2>4. L <= Len(GetStrategy(v))
    BY <1>1 DEF L
  <2> QED  BY <2>1, <2>2, <2>3, <2>4
<1>3. Deployed(ps, v, amounts, best) = upto[L]
  BY DEF Deployed
<1> HIDE DEF allocations
<1>4. \E g : g = [i \in 0 .. L |-> Step(g, i)]
  <2> DEFINE Q == {n \in Nat : \E g : g = [i \in 0 .. n |-> Step(g, i)]}
  <2>1. 0 \in Q
    <3> DEFINE g == [i \in 0 .. 0 |-> ps]
    <3>1. g = [i \in 0 .. 0 |-> Step(g, i)]
      OBVIOUS
    <3> QED  BY <3>1
  <2>2. ASSUME NEW n \in Nat, n \in Q PROVE n + 1 \in Q
    <3>1. PICK g : g = [i \in 0 .. n |-> Step(g, i)]
      BY <2>2
    <3> DEFINE h == [i \in 0 .. n + 1 |-> Step(g, i)]
    <3>2. ASSUME NEW i \in 0 .. n + 1 PROVE Step(g, i) = Step(h, i)
      <4>1. CASE i = 0
        BY <4>1
      <4>2. CASE i # 0
        <5>1. i - 1 \in 0 .. n /\ i - 1 \in 0 .. n + 1
          BY <4>2
        <5>2. g[i - 1] = Step(g, i - 1)
          <6> HIDE DEF Step
          <6> QED  BY <3>1, <5>1
        <5>3. h[i - 1] = Step(g, i - 1)
          <6> HIDE DEF Step
          <6> QED  BY <5>1
        <5> HIDE DEF h
        <5> QED  BY <5>2, <5>3
      <4> QED  BY <4>1, <4>2
    <3>3. h = [i \in 0 .. n + 1 |-> Step(h, i)]
      <4> HIDE DEF Step
      <4> QED  BY <3>2
    <3> HIDE DEF h, Step
    <3> QED  BY <3>3
  <2>3. L \in Q
    <3> HIDE DEF Q, L
    <3> QED  BY <1>2, <2>1, <2>2, CountingUp
  <2> HIDE DEF Step, L
  <2> QED  BY <2>3
<1>5. upto = [i \in 0 .. L |-> Step(upto, i)]
  BY <1>4
<1> HIDE DEF upto, L
<1>6. \A i \in 0 .. L : upto[i] = Step(upto, i)
  <2> HIDE DEF Step
  <2> QED  BY <1>5, Zenon
<1> DEFINE R == {n \in Nat : n <= L => PoolsOK(upto[n])}
<1>7. 0 \in R
  BY <1>2, <1>6
<1>8. ASSUME NEW n \in Nat, n \in R PROVE n + 1 \in R
  <2> SUFFICES ASSUME n + 1 <= L PROVE PoolsOK(upto[n + 1])
    OBVIOUS
  <2>1. PoolsOK(upto[n]) /\ n + 1 \in 1 .. L /\ n + 1 \in 0 .. L /\ n + 1 # 0 /\ n + 1 - 1 = n
    BY <1>2, <1>8
  <2>2. upto[n + 1] = DeployTo(upto[n], v, amounts[n + 1], best, allocations[n + 1])
    BY <1>6, <2>1
  <2>3. PoolsOK(DeployTo(upto[n], v, amounts[n + 1], best, allocations[n + 1]))
    BY <1>2, <2>1, DeployToOK
  <2> QED  BY <2>2, <2>3
<1>9. L \in R
  <2> HIDE DEF R
  <2> QED  BY <1>2, <1>7, <1>8, CountingUp
<1> QED  BY <1>2, <1>3, <1>9

LEMMA AdjustmentOK ==
  ASSUME NEW p, PoolOK(p), NEW n \in Adjustments(p)
  PROVE  PoolOK(n)
<1>1. PoolFields(p)
  BY DEF PoolOK, PoolTyped
<1>2. ASSUME NEW earned PROVE PoolOK(CalculateYield(p, earned))
  <2> DEFINE q == CalculateYield(p, earned)
  <2>1. /\ DOMAIN q = DOMAIN p /\ q.tvl = p.tvl /\ q.total_deposits = p.total_deposits
        /\ q.total_withdrawals = p.total_withdrawals
        /\ q.deposits = p.deposits /\ q.pending = p.pending
    BY <1>1 DEF CalculateYield, PoolFields
  <2> HIDE DEF q
  <2>2. PoolOK(q)
    BY <2>1, SamePool
  <2> QED  BY <2>2 DEF q
<1>3. ASSUME NEW apy PROVE PoolOK(UpdateApy(p, apy))
  <2> DEFINE q == UpdateApy(p, apy)
  <2>1. /\ DOMAIN q = DOMAIN p /\ q.tvl = p.tvl /\ q.total_deposits = p.total_deposits
        /\ q.total_withdrawals = p.total_withdrawals
        /\ q.deposits = p.deposits /\ q.pending = p.pending
    BY <1>1 DEF UpdateApy, PoolFields
  <2> HIDE DEF q
  <2>2. PoolOK(q)
    BY <2>1, SamePool
  <2> QED  BY <2>2 DEF q
<1>4. ASSUME NEW score PROVE PoolOK(UpdateRiskScore(p, score))
  <2> DEFINE q == UpdateRiskScore(p, score)
  <2>1. /\ DOMAIN q = DOMAIN p /\ q.tvl = p.tvl /\ q.total_deposits = p.total_deposits
        /\ q.total_withdrawals = p.total_withdrawals
        /\ q.deposits = p.deposits /\ q.pending = p.pending
    BY <1>1 DEF UpdateRiskScore, PoolFields
  <2> HIDE DEF q
  <2>2. PoolOK(q)
    BY <2>1, SamePool
  <2> QED  BY <2>2 DEF q
<1>5. ASSUME NEW active, NEW q, q = [p EXCEPT !.active = active] PROVE PoolOK(q)
  <2>1. /\ DOMAIN q = DOMAIN p /\ q.tvl = p.tvl /\ q.total_deposits = p.total_deposits
        /\ q.total_withdrawals = p.total_withdrawals
        /\ q.deposits = p.deposits /\ q.pending = p.pending
    BY <1>1, <1>5 DEF PoolFields
  <2> QED  BY <2>1, SamePool
<1>6. PoolOK(Deactivate(p)) /\ PoolOK(Activate(p))
  BY <1>5 DEF Deactivate, Activate
<1> QED  BY <1>2, <1>3, <1>4, <1>6 DEF Adjustments

LEMMA ManagerFrom ==
  ASSUME ManagerInv, NEW ps, PoolsOK(ps), manager' = [manager EXCEPT !.pools = ps]
  PROVE  ManagerInv'
<1>1. manager'.pools = ps /\ manager'.strategies = manager.strategies
      /\ manager' = [pools |-> manager'.pools, strategies |-> manager'.strategies]
  BY DEF ManagerInv
<1>2. PoolsOK(manager.pools)'
  <2>1. PoolsOK(manager'.pools)
    BY <1>1
  <2> QED  BY <2>1 DEF PoolsOK, PoolOK, PoolTyped, PoolFields, Balanced, GetBalance
<1> QED  BY <1>1, <1>2 DEF ManagerInv

LEMMA OnePoolFrom ==
  ASSUME ManagerInv, NEW id, NEW p, PoolOK(p), manager' = [manager EXCEPT !.pools[id] = p]
  PROVE  ManagerInv'
<1> DEFINE old == manager.pools
           ps == [old EXCEPT ![id] = p]
<1>1. PoolsOK(old)
  BY DEF ManagerInv
<1>2. DOMAIN ps = DOMAIN old /\ \A x \in DOMAIN old : ps[x] = IF x = id THEN p ELSE old[x]
  OBVIOUS
<1>3. PoolsOK(ps)
  <2> HIDE DEF ps, old
  <2> QED  BY <1>1, <1>2 DEF PoolsOK
<1>4. manager' = [manager EXCEPT !.pools = ps]
  OBVIOUS
<1> HIDE DEF ps
<1> QED  BY <1>3, <1>4, ManagerFrom

LEMMA RegisterKeeps ==
  ASSUME ManagerInv, NEW id, RegisterPool(id)
  PROVE  ManagerInv'
<1> DEFINE old == manager.pools
           p == NewPool(PoolInfo[id].pool_type, PoolInfo[id].apy, PoolInfo[id].risk_score, TRUE)
           ps == Inserted(old, id, p)
<1>1. PoolsOK(old) /\ PoolOK(p)
  BY NewPoolOK DEF ManagerInv
<1> HIDE DEF p
<1>2. DOMAIN ps = DOMAIN old \cup {id}
      /\ \A x \in DOMAIN old \cup {id} : ps[x] = IF x = id THEN p ELSE old[x]
  BY DEF Inserted
<1>3. manager' = [manager EXCEPT !.pools = ps]
  BY DEF RegisterPool, p
<1> HIDE DEF ps, old
<1>4. PoolsOK(ps)
  <2>1. IsFiniteSet(DOMAIN ps)
    BY <1>1, <1>2, FS_AddElement DEF PoolsOK
  <2>2. \A x \in DOMAIN ps : PoolOK(ps[x])
    BY <1>1, <1>2 DEF PoolsOK
  <2> QED  BY <2>1, <2>2 DEF PoolsOK
<1> QED  BY <1>3, <1>4, ManagerFrom

LEMMA BalancesNat ==
  ASSUME ManagerInv, NEW v
  PROVE  /\ \A id \in DOMAIN manager.pools : GetBalance(manager.pools[id], v) \in Nat
         /\ TotalDeployed(v) \in Nat
<1> DEFINE S == DOMAIN manager.pools
           F == [id \in S |-> GetBalance(manager.pools[id], v)]
<1>1. IsFiniteSet(S) /\ \A id \in S : PoolTyped(manager.pools[id])
  BY DEF ManagerInv, PoolsOK, PoolOK
<1>2. \A id \in S : GetBalance(manager.pools[id], v) \in Nat
  BY <1>1 DEF PoolTyped, GetBalance
<1>3. DOMAIN F = S /\ \A id \in S : F[id] \in Nat
  BY <1>2
<1>4. TotalDeployed(v) = SumFunction(F)
  BY DEF TotalDeployed
<1> HIDE DEF F, S
<1>5. SumFunctionOnSet(F, S) \in Nat
  BY <1>1, <1>3, SumNat
<1> QED  BY <1>2, <1>3, <1>4, <1>5 DEF SumFunction, S

LEMMA RebalanceKeeps ==
  ASSUME ManagerInv, NEW v, Rebalance(v)
  PROVE  ManagerInv'
<1> DEFINE old == manager.pools
           asked == [id \in DOMAIN old |->
             LET held == GetBalance(old[id], v)
             IN  IF held = 0 THEN old[id] ELSE RequestWithdrawal(old[id], v, held, Never)]
<1>1. PICK best \in BestChoices(asked), amounts \in AmountChoices(TotalDeployed(v), GetStrategy(v)) :
        manager' = [manager EXCEPT !.pools = Deployed(asked, v, amounts, best)]
  BY DEF Rebalance
<1>2. PoolsOK(old) /\ TotalDeployed(v) \in Nat
      /\ \A id \in DOMAIN old : GetBalance(old[id], v) \in Nat
  BY BalancesNat DEF ManagerInv
<1>3. PoolsOK(asked)
  <2>1. DOMAIN asked = DOMAIN old
    OBVIOUS
  <2>2. ASSUME NEW id \in DOMAIN old PROVE PoolOK(asked[id])
    <3> DEFINE held == GetBalance(old[id], v)
    <3>1. asked[id] = IF held = 0 THEN old[id] ELSE RequestWithdrawal(old[id], v, held, Never)
      OBVIOUS
    <3>2. PoolOK(old[id]) /\ held \in Nat
      BY <1>2 DEF PoolsOK
    <3> HIDE DEF asked, old, held
    <3>3. PoolOK(RequestWithdrawal(old[id], v, held, Never))
      BY <3>2, RequestOK
    <3> QED  BY <3>1, <3>2, <3>3
  <2> HIDE DEF asked, old
  <2> QED  BY <1>2, <2>1, <2>2 DEF PoolsOK
<1> HIDE DEF asked
<1> DEFINE ps == Deployed(asked, v, amounts, best)
<1>4. PoolsOK(ps)
  BY <1>2, <1>3, DeployedOK
<1> HIDE DEF ps
<1>5. manager' = [manager EXCEPT !.pools = ps]
  BY <1>1 DEF ps
<1> QED  BY <1>4, <1>5, ManagerFrom

LEMMA DeploymentInitially == Init => ManagerInv
<1> SUFFICES ASSUME Init PROVE ManagerInv
  OBVIOUS
<1>1. manager = [pools |-> EmptyMap, strategies |-> EmptyMap] /\ DOMAIN EmptyMap = {}
  BY DEF Init, DeploymentInit, EmptyMap
<1>2. manager.pools = EmptyMap /\ manager.strategies = EmptyMap
  BY <1>1
<1> QED  BY <1>1, <1>2, FS_EmptySet DEF ManagerInv, PoolsOK

LEMMA DeploymentStep ==
  ASSUME ManagerInv, DeploymentNext \/ UNCHANGED manager
  PROVE  ManagerInv'
<1>0. /\ PoolsOK(manager.pools) /\ \A id \in DOMAIN manager.pools : PoolOK(manager.pools[id])
      /\ Deployable \subseteq Nat
  BY DeploymentAssumption DEF ManagerInv, PoolsOK
<1>1. CASE UNCHANGED manager
  <2>1. manager' = [manager EXCEPT !.pools = manager.pools]
    BY <1>1 DEF ManagerInv
  <2> QED  BY <1>0, <2>1, ManagerFrom
<1>2. ASSUME NEW id, RegisterPool(id) PROVE ManagerInv'
  BY <1>2, RegisterKeeps
<1>3. ASSUME NEW v, NEW total \in Deployable, DeployLiquidity(v, total) PROVE ManagerInv'
  <2>1. PICK best \in BestChoices(manager.pools), amounts \in AmountChoices(total, GetStrategy(v)) :
          manager' = [manager EXCEPT !.pools = Deployed(manager.pools, v, amounts, best)]
    BY <1>3 DEF DeployLiquidity
  <2> DEFINE ps == Deployed(manager.pools, v, amounts, best)
  <2>2. PoolsOK(ps)
    BY <1>0, DeployedOK
  <2> HIDE DEF ps
  <2>3. manager' = [manager EXCEPT !.pools = ps]
    BY <2>1 DEF ps
  <2> QED  BY <2>2, <2>3, ManagerFrom
<1>4. ASSUME NEW id, NEW v, NEW amount \in Deployable, NEW time,
             WithdrawLiquidity(id, v, amount, time)
      PROVE  ManagerInv'
  <2> DEFINE p == RequestWithdrawal(manager.pools[id], v, amount, time)
  <2>1. id \in DOMAIN manager.pools /\ manager' = [manager EXCEPT !.pools[id] = p]
    BY <1>4 DEF WithdrawLiquidity
  <2>2. PoolOK(p)
    <3>1. PoolOK(manager.pools[id]) /\ amount \in Nat
      BY <1>0, <2>1
    <3> QED  BY <3>1, RequestOK
  <2> HIDE DEF p
  <2> QED  BY <2>1, <2>2, OnePoolFrom
<1>5. ASSUME NEW v, Rebalance(v) PROVE ManagerInv'
  BY <1>5, RebalanceKeeps
<1>6. ASSUME ProcessPendingWithdrawals PROVE ManagerInv'
  <2> DEFINE old == manager.pools
             ps == [id \in DOMAIN old |-> ProcessWithdrawals(old[id], now)]
  <2>1. manager' = [manager EXCEPT !.pools = ps]
    BY <1>6 DEF ProcessPendingWithdrawals
  <2>2. \A id \in DOMAIN old : PoolOK(ProcessWithdrawals(old[id], now))
    BY <1>0, ProcessOK
  <2>3. DOMAIN ps = DOMAIN old /\ \A id \in DOMAIN old : ps[id] = ProcessWithdrawals(old[id], now)
    OBVIOUS
  <2> HIDE DEF ps
  <2>4. PoolsOK(ps)
    BY <1>0, <2>2, <2>3 DEF PoolsOK
  <2> QED  BY <2>1, <2>4, ManagerFrom
<1>7. ASSUME NEW id \in DOMAIN manager.pools, NEW v, NEW amount \in Deployable,
             DepositTo(id, v, amount)
      PROVE  ManagerInv'
  <2> DEFINE p == Deposit(manager.pools[id], v, amount)
  <2>1. manager' = [manager EXCEPT !.pools[id] = p]
    BY <1>7 DEF DepositTo
  <2>2. PoolOK(p)
    <3>1. PoolOK(manager.pools[id]) /\ amount \in Nat
      BY <1>0
    <3> QED  BY <3>1, DepositOK
  <2> HIDE DEF p
  <2> QED  BY <2>1, <2>2, OnePoolFrom
<1>8. ASSUME NEW v, NEW strategy \in Chosen, SetStrategy(v, strategy) PROVE ManagerInv'
  <2> DEFINE old == manager.strategies
             ss == Inserted(old, v, strategy)
  <2>1. manager' = [manager EXCEPT !.strategies = ss]
    BY <1>8 DEF SetStrategy
  <2>2. \A x \in DOMAIN ss : ss[x] \in Seq(Allocation)
    BY DeploymentAssumption DEF Inserted, ManagerInv
  <2> HIDE DEF ss
  <2>3. manager'.pools = manager.pools /\ manager'.strategies = ss
        /\ manager' = [pools |-> manager'.pools, strategies |-> manager'.strategies]
    BY <2>1 DEF ManagerInv
  <2>4. PoolsOK(manager.pools)'
    <3>1. PoolsOK(manager'.pools)
      BY <1>0, <2>3
    <3> QED  BY <3>1 DEF PoolsOK, PoolOK, PoolTyped, PoolFields, Balanced, GetBalance
  <2> QED  BY <2>2, <2>3, <2>4 DEF ManagerInv
<1>9. ASSUME NEW id \in DOMAIN manager.pools, Adjust(id) PROVE ManagerInv'
  <2>1. PICK p \in Adjustments(manager.pools[id]) : manager' = [manager EXCEPT !.pools[id] = p]
    BY <1>9 DEF Adjust
  <2>2. PoolOK(p)
    BY <1>0, AdjustmentOK
  <2> QED  BY <2>1, <2>2, OnePoolFrom
<1>10. CASE ManagerStep
  BY <1>2, <1>3, <1>4, <1>5, <1>6, <1>7, <1>10 DEF ManagerStep
<1> QED  BY <1>1, <1>8, <1>9, <1>10 DEF DeploymentNext

----------------------------------------------------------------------------
(***************************************************************************)
(* All products at once.  They share the clock and nothing else.           *)
(***************************************************************************)
ProductInv == now \in Nat /\ AMMInv /\ LendingInv /\ TreasuryInv /\ ManagerInv

LEMMA ProductsInitially == Init => ProductInv
<1> SUFFICES ASSUME Init PROVE ProductInv
  OBVIOUS
<1>1. now \in Nat
  BY DEF Init
<1> QED  BY <1>1, AMMInitially, LendingInitially, TreasuryInitially, DeploymentInitially
         DEF ProductInv

LEMMA OneProductMoves ==
  ASSUME [Next]_vars
  PROVE  /\ AMMNext \/ UNCHANGED amm
         /\ LendingNext \/ UNCHANGED lending
         /\ TreasuryNext \/ UNCHANGED treasury
         /\ DeploymentNext \/ UNCHANGED manager
         /\ now' = now \/ now' = now + 1
<1>1. CASE ProductStep /\ UNCHANGED <<now, service, tokenomicsVars, evm>>
  BY <1>1 DEF ProductStep
<1>2. CASE UNCHANGED <<now, productVars>>
  BY <1>2 DEF productVars
<1>3. CASE Tick
  BY <1>3 DEF Tick, productVars
<1>4. CASE UNCHANGED vars
  BY <1>4 DEF vars, productVars
<1> QED  BY <1>1, <1>2, <1>3, <1>4 DEF Next

LEMMA ProductsStep ==
  ASSUME ProductInv, [Next]_vars
  PROVE  ProductInv'
<1>2. AMMInv'
  BY OneProductMoves, AMMStep DEF ProductInv
<1>3. LendingInv'
  BY OneProductMoves, LendingStep DEF ProductInv
<1>4. TreasuryInv'
  BY OneProductMoves, TreasuryStep DEF ProductInv
<1>5. ManagerInv'
  BY OneProductMoves, DeploymentStep DEF ProductInv
<1>6. (now \in Nat)'
  BY OneProductMoves DEF ProductInv
<1> QED  BY <1>2, <1>3, <1>4, <1>5, <1>6 DEF ProductInv

LEMMA ProductsAlways == Spec => []ProductInv
<1>1. ProductInv /\ [Next]_vars => ProductInv'
  BY ProductsStep
<1> QED  BY <1>1, ProductsInitially, PTL DEF Spec

(***************************************************************************)
(* Every pool is always balanced (pool.rs, and all that call it): its tvl  *)
(* is what the validators hold, what was paid in is held or was paid out,  *)
(* and every waiting withdrawal can be paid, in the pool of every product  *)
(* and in every pool that the deployment manager owns, whatever strategies *)
(* and amounts are used.                                                   *)
(***************************************************************************)
THEOREM PoolsAlwaysBalanced == Spec => []PoolsBalanced
<1>1. ProductInv => PoolsBalanced
  BY DEF ProductInv, AMMInv, LendingInv, TreasuryInv, ManagerInv, PoolsOK, PoolOK, PoolsBalanced
<1> QED  BY <1>1, ProductsAlways, PTL

(***************************************************************************)
(* The loans that are out are always covered (lending.rs): the total       *)
(* borrowed stands for at least the principal of the active loans and for  *)
(* no more than was supplied, through accrual, repayments, liquidations    *)
(* and loans that replace one another.                                     *)
(***************************************************************************)
THEOREM LoansAlwaysCovered == Spec => []LoansCovered
<1>1. ProductInv => LoansCovered
  BY DEF ProductInv, LendingInv
<1> QED  BY <1>1, ProductsAlways, PTL

(***************************************************************************)
(* The treasury (treasury.rs) never disburses more than it granted, to one *)
(* grant or in all, nor more than it charged to its categories, though     *)
(* proposals replace each other and a call may fail half way.              *)
(***************************************************************************)
THEOREM GrantsNeverOverdrawn == Spec => []DisbursedWithinGranted
<1>1. ProductInv => DisbursedWithinGranted
  BY TreasuryImplies DEF ProductInv
<1> QED  BY <1>1, ProductsAlways, PTL

==============================================================================
