------------------------- MODULE Consensus_proofs -------------------------
(***************************************************************************)
(* Proofs about the fork choice and the finality of Consensus, for every   *)
(* tree of blocks, every set of validators and every configuration.        *)
(***************************************************************************)
EXTENDS Consensus, ForkResolver, Sums_proofs

(***************************************************************************)
(* Min of a set of natural numbers, Max of a bounded one.                  *)
(***************************************************************************)
LEMMA MinNat ==
  ASSUME NEW S \in SUBSET Nat, S # {}
  PROVE  Min(S) \in S /\ \A y \in S : Min(S) <= y
BY LeastOf DEF Min

(***************************************************************************)
(* The ancestors of a block form a chain.                                  *)
(***************************************************************************)
LEMMA AncestorsClosed ==
  ASSUME NEW h \in Hash, NEW g \in Ancestors[h]
  PROVE  /\ g \in Hash /\ Ancestors[g] \subseteq Ancestors[h]
         /\ Number[g] \in Nat /\ Number[h] \in Nat /\ Number[g] <= Number[h]
<1>1. h \in Ancestors[h] /\ Ancestors[h] = {f \in Ancestors[h] : Number[f] <= Number[h]}
  BY TreeAssumption
<1>2. g \in Hash
  BY TreeAssumption
<1>3. Number[g] \in 0 .. MaxNumber /\ Number[h] \in 0 .. MaxNumber
  BY <1>2, TreeAssumption
<1>4. Ancestors[g] \subseteq Ancestors[h]
  BY TreeAssumption
<1>5. Number[g] <= Number[h]
  BY <1>1
<1> QED  BY <1>2, <1>3, <1>4, <1>5

LEMMA OnePerNumber ==
  ASSUME NEW h \in Hash, NEW f \in Ancestors[h], NEW g \in Ancestors[h], Number[f] = Number[g]
  PROVE  f = g
<1>1. Ancestors[f] = Ancestors[g]
  BY TreeAssumption
<1>2. g \in Hash /\ f \in Hash
  BY AncestorsClosed
<1>3. f \in Ancestors[f]
  BY <1>2, TreeAssumption
<1> QED  BY <1>1, <1>2, <1>3, TreeAssumption

(***************************************************************************)
(* The last common block of two branches exists, and what                  *)
(* find_common_ancestor returns is an ancestor of both heads.              *)
(***************************************************************************)
LEMMA ForkPointCommon ==
  ASSUME NEW g \in Hash, NEW h \in Hash
  PROVE  ForkPoint(g, h) \in Ancestors[g] \cap Ancestors[h]
<1>1. Genesis \in Common(g, h)
  BY TreeAssumption DEF Common
<1> DEFINE D == {MaxNumber - Number[f] : f \in Common(g, h)}
<1>2. \A f \in Common(g, h) : f \in Hash /\ Number[f] \in 0 .. MaxNumber
  BY TreeAssumption DEF Common
<1>3. D \in SUBSET Nat /\ D # {}
  BY <1>1, <1>2, ConsensusAssumption
<1>4. PICK x \in D : \A y \in D : x <= y
  BY <1>3, LeastOf
<1>5. PICK f \in Common(g, h) : x = MaxNumber - Number[f]
  BY <1>4
<1>6. \A e \in Common(g, h) : Number[e] <= Number[f]
  <2> TAKE e \in Common(g, h)
  <2>1. MaxNumber - Number[e] \in D
    OBVIOUS
  <2>2. MaxNumber - Number[f] <= MaxNumber - Number[e]
    BY <1>4, <1>5, <2>1
  <2> QED  BY <1>2, <2>2, ConsensusAssumption
<1>7. ForkPoint(g, h) \in Common(g, h)
  BY <1>5, <1>6, Zenon DEF ForkPoint
<1> QED  BY <1>7 DEF Common

LEMMA FoundIsCommon ==
  ASSUME NEW g \in Hash, NEW h \in Hash, NEW a \in FindCommonAncestor(g, h)
  PROVE  a \in Ancestors[g] /\ a \in Ancestors[h]
<1>1. FindCommonAncestor(g, h) \in {{Genesis}, {ForkPoint(g, h)}, {}}
  BY Zenon DEF FindCommonAncestor
<1>2. a = Genesis \/ a = ForkPoint(g, h)
  BY <1>1
<1>3. Genesis \in Ancestors[g] /\ Genesis \in Ancestors[h]
  BY TreeAssumption
<1>4. ForkPoint(g, h) \in Ancestors[g] /\ ForkPoint(g, h) \in Ancestors[h]
  BY ForkPointCommon
<1> QED  BY <1>2, <1>3, <1>4, Zenon

(***************************************************************************)
(* One side of a path has one block for every number above the ancestor.   *)
(***************************************************************************)
LEMMA IntervalLength ==
  ASSUME NEW m \in Nat, NEW n \in Nat, m <= n
  PROVE  Cardinality(m + 1 .. n) = n - m
<1>1. m + 1 \in Int /\ n \in Int
  OBVIOUS
<1>2. Cardinality(m + 1 .. n) = IF m + 1 > n THEN 0 ELSE n - (m + 1) + 1
  BY <1>1, FS_Interval
<1>3. (IF m + 1 > n THEN 0 ELSE n - (m + 1) + 1) = n - m
  OBVIOUS
<1> QED  BY <1>2, <1>3

LEMMA SideLength ==
  ASSUME NEW h \in Hash, NEW a \in Ancestors[h]
  PROVE  /\ IsFiniteSet(Above(h, a))
         /\ Cardinality(Above(h, a)) = Number[h] - Number[a]
<1> DEFINE S == Above(h, a)
           T == Number[a] + 1 .. Number[h]
           f == [b \in S |-> Number[b]]
<1>1. a \in Hash /\ Number[a] \in Nat /\ Number[h] \in Nat /\ Number[a] <= Number[h]
  BY AncestorsClosed
<1>2. Ancestors[a] = {b \in Ancestors[h] : Number[b] <= Number[a]}
  BY TreeAssumption
<1>3. \A b \in S : b \in Ancestors[h] /\ Number[b] \in T
  <2> TAKE b \in S
  <2>1. b \in Ancestors[h] /\ ~ (Number[b] <= Number[a])
    BY <1>2 DEF Above
  <2>2. Number[b] \in Nat /\ Number[b] <= Number[h]
    BY <2>1, AncestorsClosed
  <2> QED  BY <1>1, <2>1, <2>2
<1>4. f \in Injection(S, T)
  <2>1. f \in [S -> T]
    BY <1>3
  <2>2. \A b, c \in S : f[b] = f[c] => b = c
    BY <1>3, OnePerNumber
  <2> QED  BY <2>1, <2>2 DEF Injection, IsInjective
<1>5. f \in Surjection(S, T)
  <2>1. \A n \in T : \E b \in S : f[b] = n
    <3> TAKE n \in T
    <3>1. n \in 0 .. Number[h] /\ ~ (n <= Number[a])
      BY <1>1
    <3>2. PICK b \in Ancestors[h] : Number[b] = n
      BY <3>1, TreeAssumption
    <3>3. b \in S
      BY <1>2, <3>1, <3>2 DEF Above
    <3> QED  BY <3>2, <3>3
  <2> QED  BY <1>3, <2>1 DEF Surjection
<1>6. IsFiniteSet(S)
  <2>1. S \in SUBSET Hash
    BY TreeAssumption DEF Above
  <2> QED  BY <2>1, FS_Subset, ConsensusAssumption
<1>7. ExistsBijection(S, T)
  BY <1>4, <1>5 DEF ExistsBijection, Bijection
<1>8. Cardinality(T) = Cardinality(S)
  BY <1>6, <1>7, FS_Bijection
<1>9. Cardinality(T) = Number[h] - Number[a]
  BY <1>1, IntervalLength
<1> QED  BY <1>6, <1>8, <1>9
-----------------------------------------------------------------------------
(***************************************************************************)
(* The forks an engine remembers as lost end below or beside its head: at  *)
(* another block, of at most the number of the head.  HeadCanonical alone  *)
(* is not inductive, for nothing in it keeps the head from moving to a     *)
(* remembered tip.                                                         *)
(***************************************************************************)
LostTip(info, h) == Lost(info) => info.fork_tip # h /\ Number[info.fork_tip] <= Number[h]

ForksInv ==
  /\ head \in Hash
  /\ highest_justified \in Nat \cup {None}
  /\ fork_history \in Seq(ForkInfos)
  /\ \A i \in 1 .. Len(fork_history) : LostTip(fork_history[i], head)

(***************************************************************************)
(* All but three actions leave the forks alone.                            *)
(***************************************************************************)
LEMMA ForkSteps ==
  ASSUME [Next]_vars
  PROVE  \/ UNCHANGED <<head, highest_justified, fork_history>>
         \/ \E h \in Hash : ExtendHead(h)
         \/ \E n \in Checkpoints : UpdateJustifiedCheckpoint(n)
         \/ \E h \in Hash, persisted \in BOOLEAN :
              \E ancestor \in FindCommonAncestor(head, h) : Reorganise(h, ancestor, persisted)
<1>1. CASE UNCHANGED vars
  BY <1>1 DEF vars
<1>2. ASSUME NEW a \in Address, NEW x,
             \/ RegisterValidator(a, x) \/ UnregisterValidator(a) \/ AddStake(a, x)
             \/ StartUnbonding(a, x) \/ UpdateStatus(a, x) \/ MissBlock(a)
             \/ ReportOffense(a, x) \/ ProduceBlock(a)
      PROVE  UNCHANGED <<head, highest_justified, fork_history>>
  BY <1>2 DEF RegisterValidator, UnregisterValidator, AddStake, StartUnbonding, UpdateStatus,
              MissBlock, ReportOffense, ProduceBlock, forks
<1>3. ASSUME NEW x, WithdrawInsurance(x) \/ Tick
      PROVE  UNCHANGED <<head, highest_justified, fork_history>>
  BY <1>3 DEF WithdrawInsurance, Tick, forks
<1> QED  BY <1>1, <1>2, <1>3 DEF Next

LEMMA RecordForkType ==
  ASSUME NEW info \in ForkInfos, fork_history \in Seq(ForkInfos)
  PROVE  /\ RecordFork(info) \in Seq(ForkInfos)
         /\ \A i \in 1 .. Len(RecordFork(info)) :
              \/ RecordFork(info)[i] = info
              \/ \E j \in 1 .. Len(fork_history) : RecordFork(info)[i] = fork_history[j]
<1> DEFINE P(s) == /\ s \in Seq(ForkInfos)
                   /\ \A i \in 1 .. Len(s) : \E j \in 1 .. Len(fork_history) : s[i] = fork_history[j]
<1>1. P(fork_history)
  OBVIOUS
<1>2. Len(fork_history) = MaxHistory => P(Tail(fork_history))
  <2> HAVE Len(fork_history) = MaxHistory
  <2>1. fork_history # <<>>
    BY ConsensusAssumption
  <2>2. \A i \in 1 .. Len(Tail(fork_history)) :
          i + 1 \in 1 .. Len(fork_history) /\ Tail(fork_history)[i] = fork_history[i + 1]
    BY <2>1
  <2> QED  BY <2>1, <2>2
<1>3. PICK s : P(s) /\ RecordFork(info) = Append(s, info)
  BY <1>1, <1>2, Zenon DEF RecordFork
<1>4. Append(s, info) \in Seq(ForkInfos)
  BY <1>3
<1>5. \A i \in 1 .. Len(Append(s, info)) :
        Append(s, info)[i] = info \/ (i \in 1 .. Len(s) /\ Append(s, info)[i] = s[i])
  BY <1>3
<1> QED  BY <1>3, <1>4, <1>5, Zenon

(***************************************************************************)
(* The path of a reorganisation: both sides, the tips that are recorded,   *)
(* and their lengths.                                                      *)
(***************************************************************************)
LEMMA PathShape ==
  ASSUME head \in Hash, NEW h \in Hash, h # head, NEW ancestor \in FindCommonAncestor(head, h)
  PROVE  LET revert == Above(head, ancestor)
             apply  == Above(h, ancestor)
         IN  /\ ForkInfo(ancestor, h, revert, apply) \in ForkInfos
             /\ ForkInfo(ancestor, h, revert, apply).fork_tip = h
             /\ Lost(ForkInfo(ancestor, h, revert, apply)) <=> Number[h] <= Number[head]
             /\ ChooseChain(revert, apply) => Number[h] > Number[head]
<1> DEFINE revert == Above(head, ancestor)
           apply  == Above(h, ancestor)
           info   == ForkInfo(ancestor, h, revert, apply)
<1>1. ancestor \in Ancestors[head] /\ ancestor \in Ancestors[h]
  BY FoundIsCommon
<1>2. /\ ancestor \in Hash
      /\ Number[ancestor] \in Nat /\ Number[h] \in Nat /\ Number[head] \in Nat
      /\ Number[ancestor] <= Number[h] /\ Number[ancestor] <= Number[head]
      /\ Ancestors[ancestor] \subseteq Ancestors[h]
  BY <1>1, AncestorsClosed
<1>3. /\ Cardinality(revert) = Number[head] - Number[ancestor]
      /\ Cardinality(apply) = Number[h] - Number[ancestor]
  BY <1>1, SideLength
<1>4. apply = {} => ancestor = h
  <2> HAVE apply = {}
  <2>1. h \in Ancestors[ancestor]
    BY TreeAssumption DEF Above
  <2>2. Number[h] <= Number[ancestor]
    BY <1>2, <2>1, AncestorsClosed
  <2> QED  BY <1>1, <1>2, <2>2, OnePerNumber, TreeAssumption
<1>5. info.fork_tip = h
  BY <1>4 DEF ForkInfo
<1>6. info.main_length = Cardinality(revert) /\ info.fork_length = Cardinality(apply)
  BY DEF ForkInfo
<1>7. info \in ForkInfos
  <2>1. Cardinality(revert) \in Nat /\ Cardinality(apply) \in Nat
    BY <1>2, <1>3
  <2>2. (IF revert = {} THEN ancestor ELSE head) \in Hash /\ (IF apply = {} THEN ancestor ELSE h) \in Hash
    BY <1>2
  <2> HIDE DEF revert, apply
  <2> QED  BY <2>1, <2>2 DEF ForkInfo, ForkInfos
<1>8. Lost(info) <=> Number[h] <= Number[head]
  <2>1. Lost(info) <=> Cardinality(apply) <= Cardinality(revert)
    BY <1>6 DEF Lost
  <2> QED  BY <1>2, <1>3, <2>1
<1>9. ChooseChain(revert, apply) => Number[h] > Number[head]
  BY <1>2, <1>3 DEF ChooseChain
<1> QED  BY <1>5, <1>7, <1>8, <1>9

LEMMA ChildNumber ==
  ASSUME head \in Hash, NEW h \in Hash, head \in ParentOf(h)
  PROVE  /\ head \in Ancestors[h] /\ Number[head] \in Nat /\ Number[h] \in Nat
         /\ Number[h] > Number[head]
BY AncestorsClosed DEF ParentOf

LEMMA MaxOfType ==
  ASSUME NEW j \in Nat \cup {None}, NEW n \in Nat
  PROVE  /\ MaxOf(j, n) \in Nat
         /\ j # None => j <= MaxOf(j, n)
<1>1. ASSUME j \in Nat
      PROVE  Max({j, n}) \in {j, n} /\ j <= Max({j, n})
  <2>1. \E x \in {j, n} : \A y \in {j, n} : x >= y
    BY <1>1
  <2> QED  BY <1>1, <2>1 DEF Max
<1> QED  BY <1>1 DEF MaxOf

(***************************************************************************)
(* ForksInv is inductive.                                                  *)
(***************************************************************************)
LEMMA ForksInvInit ==
  ASSUME Init
  PROVE  ForksInv
BY TreeAssumption DEF Init, ForksInv

LEMMA ForksInvNext ==
  ASSUME ForksInv, [Next]_vars
  PROVE  ForksInv'
<1> USE DEF ForksInv
<1>1. CASE UNCHANGED <<head, highest_justified, fork_history>>
  BY <1>1 DEF LostTip, Lost
<1>2. ASSUME NEW h \in Hash, ExtendHead(h)
      PROVE  ForksInv'
  <2>1. head' = h /\ highest_justified' = highest_justified /\ fork_history' = fork_history
    BY <1>2 DEF ExtendHead
  <2>2. Number[head] \in Nat /\ Number[h] \in Nat /\ Number[h] > Number[head]
    BY <1>2, ChildNumber DEF ExtendHead
  <2>3. ASSUME NEW i \in 1 .. Len(fork_history')
        PROVE  LostTip(fork_history'[i], head')
    <3>1. LostTip(fork_history[i], head) /\ fork_history[i] \in ForkInfos
      BY <2>1
    <3>2. fork_history[i].fork_tip \in Hash
      BY <3>1 DEF ForkInfos
    <3>3. Number[fork_history[i].fork_tip] \in Nat
      BY <3>2, TreeAssumption
    <3> QED  BY <2>1, <2>2, <3>1, <3>3 DEF LostTip, Lost
  <2> QED  BY <2>1, <2>3
<1>3. ASSUME NEW n \in Checkpoints, UpdateJustifiedCheckpoint(n)
      PROVE  ForksInv'
  <2>1. head' = head /\ fork_history' = fork_history /\ highest_justified' = MaxOf(highest_justified, n)
    BY <1>3 DEF UpdateJustifiedCheckpoint
  <2>2. n \in Nat
    BY ConsensusAssumption
  <2>3. highest_justified' \in Nat
    BY <2>1, <2>2, MaxOfType
  <2> QED  BY <2>1, <2>3 DEF LostTip, Lost
<1>4. ASSUME NEW h \in Hash, NEW persisted \in BOOLEAN,
             NEW ancestor \in FindCommonAncestor(head, h), Reorganise(h, ancestor, persisted)
      PROVE  ForksInv'
  <2> DEFINE revert == Above(head, ancestor)
             apply  == Above(h, ancestor)
             info   == ForkInfo(ancestor, h, revert, apply)
  <2>1. /\ h # head
        /\ fork_history' = RecordFork(info)
        /\ highest_justified' = highest_justified
        /\ head' = IF persisted /\ ChooseChain(revert, apply) THEN h ELSE head
    BY <1>4 DEF Reorganise
  <2>2. /\ info \in ForkInfos /\ info.fork_tip = h
        /\ Lost(info) <=> Number[h] <= Number[head]
        /\ ChooseChain(revert, apply) => Number[h] > Number[head]
    BY <2>1, PathShape
  <2> HIDE DEF revert, apply, info
  <2>3. Number[h] \in Nat /\ Number[head] \in Nat
    BY TreeAssumption
  <2>4. head' = head \/ (head' = h /\ Number[h] > Number[head])
    BY <2>1, <2>2
  <2>5. LostTip(info, head')
    BY <2>1, <2>2, <2>3, <2>4 DEF LostTip, Lost
  <2>6. ASSUME NEW j \in 1 .. Len(fork_history)
        PROVE  LostTip(fork_history[j], head')
    <3>1. LostTip(fork_history[j], head) /\ fork_history[j] \in ForkInfos
      OBVIOUS
    <3>2. fork_history[j].fork_tip \in Hash
      BY <3>1 DEF ForkInfos
    <3>3. Number[fork_history[j].fork_tip] \in Nat
      BY <3>2, TreeAssumption
    <3> QED  BY <2>3, <2>4, <3>1, <3>3 DEF LostTip
  <2>7. ASSUME NEW i \in 1 .. Len(fork_history')
        PROVE  LostTip(fork_history'[i], head')
    <3>1. \/ fork_history'[i] = info
          \/ \E j \in 1 .. Len(fork_history) : fork_history'[i] = fork_history[j]
      BY <2>1, <2>2, RecordForkType, Zenon
    <3> QED  BY <2>5, <2>6, <3>1, Zenon
  <2>8. fork_history' \in Seq(ForkInfos)
    BY <2>1, <2>2, RecordForkType
  <2> QED  BY <2>1, <2>4, <2>7, <2>8
<1> QED  BY <1>1, <1>2, <1>3, <1>4, ForkSteps

(***************************************************************************)
(* The engine's own head never counts as the tip of a fork that lost, for  *)
(* every tree, every limit of the history and every order of forks: no     *)
(* fork can make verify_before_produce refuse the head.                    *)
(***************************************************************************)
THEOREM HeadAlwaysCanonical == Spec => []HeadCanonical
<1>1. ForksInv => HeadCanonical
  BY DEF ForksInv, LostTip, HeadCanonical, VerifyChainCanonical
<1> QED  BY <1>1, ForksInvInit, ForksInvNext, PTL DEF Spec

(***************************************************************************)
(* A reorganisation that passes the check of apply_reorg keeps every       *)
(* block of the chain up to the justified number.                          *)
(***************************************************************************)
LEMMA ReorgKeepsFinal ==
  ASSUME head \in Hash, NEW h \in Hash, NEW ancestor \in FindCommonAncestor(head, h),
         highest_justified \in Nat,
         KeepsJustified(AncestorNumber(Above(head, ancestor), Above(h, ancestor))),
         highest_justified # None,
         NEW b \in Ancestors[head], Number[b] <= highest_justified
  PROVE  b \in Ancestors[h]
<1>1. ancestor \in Ancestors[head] /\ ancestor \in Ancestors[h]
  BY FoundIsCommon
<1>2. CASE b \in Ancestors[ancestor]
  BY <1>1, <1>2, AncestorsClosed
<1>3. CASE ~ (b \in Ancestors[ancestor])
  <2> DEFINE revert == Above(head, ancestor)
             S == {Number[r] : r \in revert}
  <2>1. b \in revert
    BY <1>3 DEF Above
  <2>2. S \in SUBSET Nat /\ S # {} /\ Number[b] \in S
    <3>1. \A r \in revert : Number[r] \in Nat
      BY AncestorsClosed DEF Above
    <3> QED  BY <2>1, <3>1
  <2>3. Min(S) \in Nat /\ Min(S) <= Number[b]
    BY <2>2, MinNat
  <2>4. AncestorNumber(revert, Above(h, ancestor)) = Min(S) - 1
    BY <2>1 DEF AncestorNumber
  <2>5. Min(S) - 1 >= highest_justified
    BY <2>4 DEF KeepsJustified
  <2> HIDE DEF S
  <2>6. Number[b] \in Nat
    BY AncestorsClosed
  <2> QED  BY <2>3, <2>5, <2>6
<1> QED  BY <1>2, <1>3

(***************************************************************************)
(* Once a checkpoint is justified, no step takes a final block off the     *)
(* chain of the head or makes it not final, for every tree of blocks.      *)
(***************************************************************************)
THEOREM FinalAlwaysStays == Spec => FinalStays
<1> DEFINE A == highest_justified # None =>
                  \A b \in Ancestors[head] : IsFinalized(Number[b]) =>
                    b \in Ancestors[head'] /\ IsFinalized(Number[b])'
<1>1. ASSUME ForksInv, [Next]_vars
      PROVE  A
  <2>1. SUFFICES ASSUME highest_justified # None, NEW b \in Ancestors[head], IsFinalized(Number[b])
                 PROVE  b \in Ancestors[head'] /\ IsFinalized(Number[b])'
    OBVIOUS
  <2>2. head \in Hash /\ highest_justified \in Nat /\ Number[b] <= highest_justified
    BY <1>1, <2>1 DEF ForksInv, IsFinalized
  <2>3. Number[b] \in Nat
    BY <2>2, AncestorsClosed
  <2>4. ASSUME highest_justified' \in Nat, highest_justified <= highest_justified'
        PROVE  IsFinalized(Number[b])'
    <3>1. highest_justified' # None
      BY <2>4, ConsensusAssumption
    <3>2. Number[b] <= highest_justified'
      BY <2>2, <2>3, <2>4
    <3> QED  BY <3>1, <3>2 DEF IsFinalized
  <2>5. CASE UNCHANGED <<head, highest_justified, fork_history>>
    BY <2>2, <2>4, <2>5
  <2>6. ASSUME NEW h \in Hash, ExtendHead(h)
        PROVE  b \in Ancestors[head'] /\ IsFinalized(Number[b])'
    <3>1. head' = h /\ highest_justified' = highest_justified /\ head \in ParentOf(h)
      BY <2>6 DEF ExtendHead
    <3>2. Ancestors[head] \subseteq Ancestors[h]
      BY <2>2, <3>1, ChildNumber, AncestorsClosed
    <3> QED  BY <2>2, <2>4, <3>1, <3>2
  <2>7. ASSUME NEW n \in Checkpoints, UpdateJustifiedCheckpoint(n)
        PROVE  b \in Ancestors[head'] /\ IsFinalized(Number[b])'
    <3>1. head' = head /\ highest_justified' = MaxOf(highest_justified, n) /\ n \in Nat
      BY <2>7, ConsensusAssumption DEF UpdateJustifiedCheckpoint
    <3>2. highest_justified' \in Nat /\ highest_justified <= highest_justified'
      BY <2>1, <2>2, <3>1, MaxOfType
    <3> QED  BY <2>4, <3>1, <3>2
  <2>8. ASSUME NEW h \in Hash, NEW persisted \in BOOLEAN,
               NEW ancestor \in FindCommonAncestor(head, h), Reorganise(h, ancestor, persisted)
        PROVE  b \in Ancestors[head'] /\ IsFinalized(Number[b])'
    <3>1. /\ head' = h \/ head' = head
          /\ highest_justified' = highest_justified
          /\ KeepsJustified(AncestorNumber(Above(head, ancestor), Above(h, ancestor)))
      BY <2>8 DEF Reorganise
    <3>2. b \in Ancestors[h]
      BY <2>1, <2>2, <3>1, ReorgKeepsFinal
    <3> QED  BY <2>2, <2>4, <3>1, <3>2
  <2> QED  BY <1>1, <2>5, <2>6, <2>7, <2>8, ForkSteps
<1>2. ForksInv /\ [Next]_vars => [A]_vars
  BY <1>1
<1> HIDE DEF A
<1>3. Spec => [][A]_vars
  BY <1>2, ForksInvInit, ForksInvNext, PTL DEF Spec
<1> QED  BY <1>3 DEF FinalStays, A
-----------------------------------------------------------------------------
(***************************************************************************)
(* The registry.  An operation of the engine that moves no stake in or out *)
(* leads from a sound registry to one that follows it: sound too, with the *)
(* same stake held or slashed, and with no more in the funds that are fed  *)
(* from what was slashed than was slashed on the way.                      *)
(***************************************************************************)
Condition == [kind : Kind, days : Nat]

Entry == [validator : Address, condition : Kind, previous_offenses : Nat, amount : Nat]

StakeAt(validators, a) == IF validators[a] = NoValidator THEN 0 ELSE validators[a].stake

Assets(r) == r.total_slashed + SumFunction(Stakes(r.validators))

Unfunded(r) == r.total_slashed - r.insurance_fund - r.total_burned

Sound(r) == r \in Registry /\ Escalates(r)

Follows(n, r) == Sound(n) /\ Assets(n) = Assets(r) /\ Unfunded(n) >= Unfunded(r)

(***************************************************************************)
(* No penalty exceeds the stake.                                           *)
(***************************************************************************)
LEMMA MinOfTwo ==
  ASSUME NEW x \in Int, NEW y \in Int
  PROVE  Min({x, y}) \in {x, y} /\ Min({x, y}) <= x /\ Min({x, y}) <= y
<1>1. \E z \in {x, y} : \A w \in {x, y} : z <= w
  OBVIOUS
<1> QED  BY <1>1 DEF Min

LEMMA LowPart ==
  ASSUME NEW n \in Nat, NEW u \in Nat \ {0}
  PROVE  n % u \in Nat /\ n % u <= n
<1>1. n % u \in 0 .. u - 1
  OBVIOUS
<1>2. CASE n < u
  <2>1. n % u = n
    BY <1>2
  <2> QED  BY <2>1
<1>3. CASE ~ (n < u)
  BY <1>1, <1>3
<1> QED  BY <1>2, <1>3

LEMMA RateNat ==
  ASSUME NEW condition \in Condition
  PROVE  BasePenaltyRate(condition) \in Nat
<1>1. condition.kind \in Kind /\ condition.days \in Nat
  BY DEF Condition
<1>2. Min({10 * condition.days, 10000}) \in Nat
  <2> DEFINE x == 10 * condition.days
             all == 10000
  <2>1. x \in Nat /\ x \in Int /\ all \in Int /\ all \in Nat
    BY <1>1
  <2> HIDE DEF x, all
  <2>2. Min({x, all}) \in {x, all}
    BY <2>1, MinOfTwo, Zenon
  <2>3. Min({x, all}) \in Nat
    BY <2>1, <2>2, Zenon
  <2> QED  BY <2>3 DEF x, all
<1> QED  BY <1>1, <1>2 DEF BasePenaltyRate, Kind

LEMMA SlashBounded ==
  ASSUME NEW stake \in Nat, NEW condition \in Condition, NEW previous \in Nat
  PROVE  /\ CalculateSlashAmount(stake, condition, previous) \in Nat
         /\ CalculateSlashAmount(stake, condition, previous) <= stake
<1> DEFINE low  == stake % U64
           rate == BasePenaltyRate(condition)
           base == (low * rate) \div 10000
           twice == TwiceSeverity(previous)
           wanted == (base * twice) \div 2
<1>1. low \in Nat /\ low <= stake
  BY LowPart, ValidatorsAssumption
<1>2. rate \in Nat
  BY RateNat
<1>3. twice \in Nat
  <2> DEFINE x == 2 + previous
  <2>1. x \in Nat /\ x \in Int /\ 6 \in Int /\ 6 \in Nat
    OBVIOUS
  <2>2. twice = Min({x, 6})
    BY DEF TwiceSeverity
  <2> HIDE DEF x, twice
  <2>3. Min({x, 6}) \in {x, 6}
    BY <2>1, MinOfTwo, Zenon
  <2> QED  BY <2>1, <2>2, <2>3, Zenon
<1> HIDE DEF low, rate, twice
<1>4. low * rate \in Nat
  BY <1>1, <1>2
<1>5. base \in Nat
  BY <1>4
<1> HIDE DEF base
<1>6. base * twice \in Nat
  BY <1>3, <1>5
<1>7. wanted \in Nat
  BY <1>6
<1> HIDE DEF wanted
<1>8. CalculateSlashAmount(stake, condition, previous) = Min({wanted, low})
  BY DEF CalculateSlashAmount, wanted, low, base, twice, rate
<1>9. Min({wanted, low}) \in {wanted, low} /\ Min({wanted, low}) <= low
  <2>1. wanted \in Int /\ low \in Int
    BY <1>1, <1>7
  <2> QED  BY <2>1, MinOfTwo, Zenon
<1> QED  BY <1>1, <1>7, <1>8, <1>9

(***************************************************************************)
(* The stakes of all validators, when that of one changes.                 *)
(***************************************************************************)
LEMMA StakesSum ==
  ASSUME NEW vs \in [Address -> ValidatorInfo \cup {NoValidator}]
  PROVE  /\ Summable(Stakes(vs), Address) /\ DOMAIN Stakes(vs) = Address
         /\ SumFunction(Stakes(vs)) = SumFunctionOnSet(Stakes(vs), Address)
         /\ SumFunction(Stakes(vs)) \in Nat
         /\ \A a \in Address : StakeAt(vs, a) \in Nat /\ Stakes(vs)[a] = StakeAt(vs, a)
<1> DEFINE F == Stakes(vs)
<1>1. DOMAIN F = Address /\ \A a \in Address : F[a] = StakeAt(vs, a)
  BY DEF Stakes, StakeAt
<1>2. \A a \in Address : StakeAt(vs, a) \in Nat
  BY DEF StakeAt, ValidatorInfo
<1> HIDE DEF F
<1>3. IsFiniteSet(Address)
  BY ValidatorsAssumption
<1>4. Summable(F, Address) /\ SumFunctionOnSet(F, Address) \in Nat
  BY <1>1, <1>2, <1>3, SumNat DEF Summable
<1>5. SumFunction(F) = SumFunctionOnSet(F, Address)
  BY <1>1 DEF SumFunction
<1> QED  BY <1>1, <1>2, <1>4, <1>5 DEF F

LEMMA OneStakeChanged ==
  ASSUME NEW vs \in [Address -> ValidatorInfo \cup {NoValidator}],
         NEW ws \in [Address -> ValidatorInfo \cup {NoValidator}],
         NEW a \in Address, \A b \in Address \ {a} : ws[b] = vs[b]
  PROVE  /\ SumFunction(Stakes(ws)) = SumFunction(Stakes(vs)) - StakeAt(vs, a) + StakeAt(ws, a)
         /\ SumFunction(Stakes(vs)) \in Nat /\ StakeAt(vs, a) \in Nat /\ StakeAt(ws, a) \in Nat
<1> DEFINE F == Stakes(vs)
           G == Stakes(ws)
<1>1. /\ Summable(F, Address) /\ SumFunction(F) = SumFunctionOnSet(F, Address)
      /\ SumFunction(F) \in Nat /\ \A b \in Address : StakeAt(vs, b) \in Nat /\ F[b] = StakeAt(vs, b)
  BY StakesSum
<1>2. /\ SumFunction(G) = SumFunctionOnSet(G, Address)
      /\ \A b \in Address : StakeAt(ws, b) \in Nat /\ G[b] = StakeAt(ws, b)
  BY StakesSum
<1>3. \A b \in Address \ {a} : F[b] = G[b]
  BY <1>1, <1>2 DEF StakeAt
<1> HIDE DEF F, G
<1>4. SumFunctionOnSet(G, Address) = SumFunctionOnSet(F, Address) - F[a] + G[a]
  BY <1>1, <1>2, <1>3, SumChangeOne
<1> QED  BY <1>1, <1>2, <1>4 DEF F, G

(***************************************************************************)
(* One more penalty.                                                       *)
(***************************************************************************)
LEMMA PenaltyAppended ==
  ASSUME NEW h \in Seq(Entry), NEW e \in Entry, NEW a \in Address
  PROVE  LET n == Len(h)
             g == Append(h, e)
         IN  /\ Len(g) = n + 1 /\ g \in Seq(Entry)
             /\ \A i \in 1 .. n : g[i] = h[i]
             /\ g[n + 1] = e
             /\ \A m \in 0 .. n : PenaltiesOf(g, a, m) = PenaltiesOf(h, a, m)
             /\ Cardinality(PenaltiesOf(g, a, n + 1))
                  = Cardinality(PenaltiesOf(h, a, n)) + (IF e.validator = a THEN 1 ELSE 0)
             /\ Cardinality(PenaltiesOf(h, a, n)) \in Nat
<1> DEFINE n == Len(h)
           g == Append(h, e)
           P == PenaltiesOf(h, a, n)
<1>1. n \in Nat /\ Len(g) = n + 1 /\ g \in Seq(Entry) /\ g[n + 1] = e /\ \A i \in 1 .. n : g[i] = h[i]
  OBVIOUS
<1> HIDE DEF g, n
<1>2. \A m \in 0 .. n : PenaltiesOf(g, a, m) = PenaltiesOf(h, a, m)
  <2> SUFFICES ASSUME NEW m \in 0 .. n PROVE PenaltiesOf(g, a, m) = PenaltiesOf(h, a, m)
    OBVIOUS
  <2>1. \A i \in 1 .. m : g[i] = h[i]
    BY <1>1
  <2> QED  BY <2>1 DEF PenaltiesOf
<1>3. P \in SUBSET (1 .. n)
  BY DEF PenaltiesOf
<1>4. IsFiniteSet(P) /\ Cardinality(P) \in Nat /\ ~ (n + 1 \in P)
  <2>1. IsFiniteSet(1 .. n)
    BY <1>1, FS_Interval
  <2>2. IsFiniteSet(P)
    BY <1>3, <2>1, FS_Subset
  <2> QED  BY <1>1, <1>3, <2>2, FS_CardinalityType
<1>5. PenaltiesOf(g, a, n + 1) = IF e.validator = a THEN P \cup {n + 1} ELSE P
  <2>1. 1 .. n + 1 = (1 .. n) \cup {n + 1}
    BY <1>1
  <2> QED  BY <1>1, <2>1 DEF PenaltiesOf
<1> HIDE DEF P
<1>6. Cardinality(P \cup {n + 1}) = Cardinality(P) + 1
  BY <1>4, FS_AddElement
<1>7. Cardinality(PenaltiesOf(g, a, n + 1)) = Cardinality(P) + (IF e.validator = a THEN 1 ELSE 0)
  BY <1>4, <1>5, <1>6
<1> QED  BY <1>1, <1>2, <1>4, <1>7 DEF g, n, P

LEMMA EscalatesFurther ==
  ASSUME NEW r \in Registry, NEW n \in Registry, Escalates(r), NEW a \in Address, NEW e \in Entry,
         e.validator = a, e.previous_offenses = r.offense_count[a],
         n.history = Append(r.history, e),
         \A b \in Address :
           n.offense_count[b] = r.offense_count[b] + (IF b = a THEN 1 ELSE 0)
  PROVE  Escalates(n)
<1> DEFINE h == r.history
           g == n.history
           L == Len(h)
<1>0. h \in Seq(Entry) /\ L \in Nat /\ r.offense_count \in [Address -> Nat]
  <2>1. h \in Seq(Entry) /\ r.offense_count \in [Address -> Nat]
    BY DEF Registry, Entry
  <2> QED  BY <2>1
<1>1. /\ Len(g) = L + 1 /\ g[L + 1] = e /\ \A i \in 1 .. L : g[i] = h[i] /\ h[i].validator \in Address
      /\ \A b \in Address, m \in 0 .. L : PenaltiesOf(g, b, m) = PenaltiesOf(h, b, m)
  <2>1. \A i \in 1 .. L : h[i] \in Entry
    BY <1>0
  <2>2. \A i \in 1 .. L : h[i].validator \in Address
    BY <2>1 DEF Entry
  <2>3. g = Append(h, e)
    OBVIOUS
  <2> HIDE DEF h, g
  <2>4. Len(g) = L + 1 /\ g[L + 1] = e /\ \A i \in 1 .. L : g[i] = h[i]
    BY <1>0, <2>3
  <2>5. \A b \in Address, m \in 0 .. L : PenaltiesOf(g, b, m) = PenaltiesOf(h, b, m)
    BY <1>0, <2>3, PenaltyAppended
  <2> QED  BY <2>2, <2>4, <2>5
<1>2. \A b \in Address : Cardinality(PenaltiesOf(g, b, L + 1))
          = Cardinality(PenaltiesOf(h, b, L)) + (IF e.validator = b THEN 1 ELSE 0)
  BY <1>0, PenaltyAppended
<1>3. /\ \A b \in Address : r.offense_count[b] = Cardinality(PenaltiesOf(h, b, L))
      /\ \A i \in 1 .. L : h[i].previous_offenses = Cardinality(PenaltiesOf(h, h[i].validator, i - 1))
  BY DEF Escalates
<1> HIDE DEF h, g, L
<1>4. \A b \in Address : n.offense_count[b] = Cardinality(PenaltiesOf(g, b, Len(g)))
  BY <1>1, <1>2, <1>3
<1>5. ASSUME NEW i \in 1 .. Len(g)
      PROVE  g[i].previous_offenses = Cardinality(PenaltiesOf(g, g[i].validator, i - 1))
  <2>1. CASE i \in 1 .. L
    <3>1. i - 1 \in 0 .. L
      BY <1>0, <2>1
    <3> QED  BY <1>1, <1>3, <2>1, <3>1
  <2>2. CASE i = L + 1
    <3>1. i - 1 = L /\ L \in 0 .. L
      BY <1>0, <2>2
    <3> QED  BY <1>1, <1>3, <2>2, <3>1
  <2> QED  BY <1>0, <1>1, <2>1, <2>2
<1> QED  BY <1>4, <1>5 DEF Escalates, g

LEMMA SlashFollows ==
  ASSUME NEW r, Sound(r), NEW a \in Address, r.validators[a] # NoValidator,
         NEW condition \in Condition
  PROVE  Follows(SlashValidator(r, a, condition), r)
<1> DEFINE v == r.validators[a]
           amount == CalculateSlashAmount(v.stake, condition, r.offense_count[a])
           e == Penalty(r, a, condition)
           w == SlashedValidator(v, condition, amount)
           n == SlashValidator(r, a, condition)
           ws == [r.validators EXCEPT ![a] = w]
           counts == [r.offense_count EXCEPT ![a] = @ + 1]
           funded == (amount * 30) \div 100
           burned == (amount * 50) \div 100
<1>0. /\ r \in Registry /\ Escalates(r)
      /\ r.validators \in [Address -> ValidatorInfo \cup {NoValidator}]
      /\ r.offense_count \in [Address -> Nat] /\ r.history \in Seq(Entry)
      /\ r.insurance_fund \in Nat /\ r.total_slashed \in Nat /\ r.total_burned \in Nat
  BY DEF Sound, Registry, Entry
<1>1. /\ v \in ValidatorInfo /\ v.stake \in Nat /\ r.offense_count[a] \in Nat
  BY <1>0 DEF ValidatorInfo
<1>2. amount \in Nat /\ amount <= v.stake
  BY <1>1, SlashBounded
<1>3. e = [validator |-> a, condition |-> condition.kind,
           previous_offenses |-> r.offense_count[a], amount |-> amount]
  BY DEF Penalty
<1> HIDE DEF amount
<1>4. e \in Entry /\ e.validator = a /\ e.previous_offenses = r.offense_count[a] /\ e.amount = amount
  <2>1. condition.kind \in Kind
    BY DEF Condition
  <2> HIDE DEF e
  <2> QED  BY <1>1, <1>2, <1>3, <2>1 DEF Entry
<1>5. w \in ValidatorInfo /\ w.stake = v.stake - amount
  <2> DEFINE stake == v.stake - amount
             status == IF condition.kind = "GovernanceAttack" THEN "Slashed" ELSE v.status
             unlock == IF condition.kind = "GovernanceAttack" THEN 0 ELSE v.unlock_time
  <2>1. stake \in Nat /\ status \in Status /\ unlock \in Nat
    BY <1>1, <1>2 DEF ValidatorInfo, Status
  <2>2. w = [v EXCEPT !.stake = stake, !.status = status, !.unlock_time = unlock]
    BY <1>1 DEF SlashedValidator
  <2> HIDE DEF stake, status, unlock, w, v
  <2>3. w \in ValidatorInfo /\ w.stake = stake
    BY <1>1, <2>1, <2>2 DEF ValidatorInfo
  <2> QED  BY <2>3 DEF stake
<1>6. n = [validators |-> ws, offense_count |-> counts, history |-> Append(r.history, e),
           insurance_fund |-> r.insurance_fund + funded,
           total_slashed |-> r.total_slashed + amount, total_burned |-> r.total_burned + burned]
  BY <1>4 DEF SlashValidator, Penalty, amount
<1> HIDE DEF w, e, n
<1>7. ws \in [Address -> ValidatorInfo \cup {NoValidator}] /\ ws[a] = w
      /\ \A b \in Address \ {a} : ws[b] = r.validators[b]
  BY <1>0, <1>5
<1>8. counts \in [Address -> Nat]
      /\ \A b \in Address : counts[b] = r.offense_count[b] + (IF b = a THEN 1 ELSE 0)
  BY <1>0
<1>9. funded \in Nat /\ burned \in Nat /\ funded + burned <= amount
  BY <1>2
<1>10. Append(r.history, e) \in Seq(Entry)
  BY <1>0, <1>4
<1> HIDE DEF ws, counts, funded, burned
<1>11. n \in Registry
  <2>1. /\ r.insurance_fund + funded \in Nat /\ r.total_slashed + amount \in Nat
        /\ r.total_burned + burned \in Nat
    BY <1>0, <1>2, <1>9, SMTT(30)
  <2> QED  BY <1>6, <1>7, <1>8, <1>10, <2>1 DEF Registry, Entry
<1>12. /\ n.validators = ws /\ n.offense_count = counts /\ n.history = Append(r.history, e)
       /\ n.insurance_fund = r.insurance_fund + funded
       /\ n.total_slashed = r.total_slashed + amount /\ n.total_burned = r.total_burned + burned
  BY <1>6
<1>13. Escalates(n)
  BY <1>0, <1>4, <1>8, <1>11, <1>12, EscalatesFurther
<1>14. Assets(n) = Assets(r)
  <2>1. /\ SumFunction(Stakes(ws))
             = SumFunction(Stakes(r.validators)) - StakeAt(r.validators, a) + StakeAt(ws, a)
        /\ SumFunction(Stakes(r.validators)) \in Nat
    BY <1>0, <1>7, OneStakeChanged
  <2>2. StakeAt(r.validators, a) = v.stake /\ StakeAt(ws, a) = w.stake
    BY <1>5, <1>7, NoValidatorAssumption DEF StakeAt
  <2> QED  BY <1>0, <1>1, <1>2, <1>5, <1>12, <2>1, <2>2 DEF Assets
<1>15. Unfunded(n) >= Unfunded(r)
  BY <1>0, <1>2, <1>9, <1>12, SMTT(30) DEF Unfunded
<1> QED  BY <1>11, <1>13, <1>14, <1>15 DEF Follows, Sound, n

(***************************************************************************)
(* A registry whose validators alone are changed, or one of them.          *)
(***************************************************************************)
WithAll(r, ws) == [r EXCEPT !.validators = ws]

With(r, a, v) == [r EXCEPT !.validators = [r.validators EXCEPT ![a] = v]]

LEMMA WithAllSound ==
  ASSUME NEW r, Sound(r), NEW ws \in [Address -> ValidatorInfo \cup {NoValidator}]
  PROVE  /\ Sound(WithAll(r, ws)) /\ Unfunded(WithAll(r, ws)) = Unfunded(r)
         /\ Assets(WithAll(r, ws)) = r.total_slashed + SumFunction(Stakes(ws))
         /\ WithAll(r, ws).validators = ws
         /\ r.validators \in [Address -> ValidatorInfo \cup {NoValidator}]
         /\ r.total_slashed \in Nat /\ Unfunded(r) \in Int
         /\ \A a \in Address : r.offense_count[a] \in Nat
<1> DEFINE n == WithAll(r, ws)
<1>1. /\ r \in Registry /\ Escalates(r) /\ r.total_slashed \in Nat
      /\ r.insurance_fund \in Nat /\ r.total_burned \in Nat
      /\ r.validators \in [Address -> ValidatorInfo \cup {NoValidator}]
      /\ r.offense_count \in [Address -> Nat]
  BY DEF Sound, Registry
<1>2. n \in Registry
  BY <1>1 DEF Registry, WithAll
<1>3. /\ n.validators = ws /\ n.offense_count = r.offense_count /\ n.history = r.history
      /\ n.insurance_fund = r.insurance_fund /\ n.total_slashed = r.total_slashed
      /\ n.total_burned = r.total_burned
  BY <1>1 DEF Registry, WithAll
<1> HIDE DEF n
<1>4. Escalates(n)
  BY <1>1, <1>3 DEF Escalates
<1>5. Unfunded(n) = Unfunded(r) /\ Unfunded(r) \in Int
  BY <1>1, <1>3 DEF Unfunded
<1>6. Assets(n) = r.total_slashed + SumFunction(Stakes(ws))
  BY <1>3 DEF Assets
<1> QED  BY <1>1, <1>2, <1>3, <1>4, <1>5, <1>6 DEF Sound, n

Worth(v) == IF v = NoValidator THEN 0 ELSE v.stake

LEMMA WithSound ==
  ASSUME NEW r, Sound(r), NEW a \in Address, NEW v \in ValidatorInfo \cup {NoValidator}
  PROVE  /\ Sound(With(r, a, v)) /\ Unfunded(With(r, a, v)) = Unfunded(r)
         /\ Assets(With(r, a, v))
              = Assets(r) - StakeAt(r.validators, a) + Worth(v)
         /\ With(r, a, v).validators = [r.validators EXCEPT ![a] = v]
         /\ Assets(r) \in Nat /\ Unfunded(r) \in Int /\ StakeAt(r.validators, a) \in Nat
         /\ r.validators \in [Address -> ValidatorInfo \cup {NoValidator}]
<1> DEFINE vs == r.validators
           ws == [vs EXCEPT ![a] = v]
<1>1. vs \in [Address -> ValidatorInfo \cup {NoValidator}]
  BY DEF Sound, Registry
<1>2. ws \in [Address -> ValidatorInfo \cup {NoValidator}] /\ ws[a] = v
      /\ \A b \in Address \ {a} : ws[b] = vs[b]
  BY <1>1
<1>3. With(r, a, v) = WithAll(r, ws)
  BY DEF With, WithAll
<1> HIDE DEF ws
<1>4. /\ Sound(WithAll(r, ws)) /\ Unfunded(WithAll(r, ws)) = Unfunded(r)
      /\ Assets(WithAll(r, ws)) = r.total_slashed + SumFunction(Stakes(ws))
      /\ WithAll(r, ws).validators = ws /\ r.total_slashed \in Nat /\ Unfunded(r) \in Int
  BY <1>2, WithAllSound
<1>5. /\ SumFunction(Stakes(ws)) = SumFunction(Stakes(vs)) - StakeAt(vs, a) + StakeAt(ws, a)
      /\ SumFunction(Stakes(vs)) \in Nat /\ StakeAt(vs, a) \in Nat /\ StakeAt(ws, a) \in Nat
  BY <1>1, <1>2, OneStakeChanged
<1>6. StakeAt(ws, a) = Worth(v)
  BY <1>2 DEF StakeAt, Worth
<1>7. Assets(r) = r.total_slashed + SumFunction(Stakes(vs))
  BY DEF Assets
<1> DEFINE before == SumFunction(Stakes(vs))
           after == SumFunction(Stakes(ws))
           new == StakeAt(ws, a)
           old == StakeAt(vs, a)
           slashed == r.total_slashed
<1>8. /\ after = before - old + new /\ before \in Nat /\ old \in Nat /\ new \in Nat
      /\ slashed \in Nat /\ Assets(WithAll(r, ws)) = slashed + after /\ Assets(r) = slashed + before
  BY <1>4, <1>5, <1>7
<1> HIDE DEF before, after, new, old, slashed
<1>9. Assets(WithAll(r, ws)) = Assets(r) - old + new /\ Assets(r) \in Nat
  BY <1>8
<1> QED  BY <1>1, <1>3, <1>4, <1>5, <1>6, <1>9 DEF ws, old, new

LEMMA WithInfoSound ==
  ASSUME NEW r, Sound(r), NEW a \in Address, NEW v \in ValidatorInfo
  PROVE  /\ Sound(With(r, a, v)) /\ Unfunded(With(r, a, v)) = Unfunded(r)
         /\ Assets(With(r, a, v)) = Assets(r) - StakeAt(r.validators, a) + v.stake
         /\ Assets(r) \in Nat
<1>1. v # NoValidator
  BY NoValidatorAssumption
<1>2. Worth(v) = v.stake
  BY <1>1 DEF Worth
<1>3. /\ Sound(With(r, a, v)) /\ Unfunded(With(r, a, v)) = Unfunded(r)
      /\ Assets(With(r, a, v)) = Assets(r) - StakeAt(r.validators, a) + Worth(v)
      /\ With(r, a, v).validators = [r.validators EXCEPT ![a] = v]
      /\ Assets(r) \in Nat /\ Unfunded(r) \in Int /\ StakeAt(r.validators, a) \in Nat
      /\ r.validators \in [Address -> ValidatorInfo \cup {NoValidator}]
  BY WithSound
<1> QED  BY <1>2, <1>3

LEMMA WithoutSound ==
  ASSUME NEW r, Sound(r), NEW a \in Address
  PROVE  /\ Sound(With(r, a, NoValidator)) /\ Unfunded(With(r, a, NoValidator)) = Unfunded(r)
         /\ Assets(With(r, a, NoValidator)) = Assets(r) - StakeAt(r.validators, a)
         /\ Assets(r) \in Nat /\ StakeAt(r.validators, a) \in Nat
<1>1. PICK v \in ValidatorInfo \cup {NoValidator} : v = NoValidator
  OBVIOUS
<1>2. /\ Sound(With(r, a, v)) /\ Unfunded(With(r, a, v)) = Unfunded(r)
      /\ Assets(With(r, a, v)) = Assets(r) - StakeAt(r.validators, a) + Worth(v)
      /\ With(r, a, v).validators = [r.validators EXCEPT ![a] = v]
      /\ Assets(r) \in Nat /\ Unfunded(r) \in Int /\ StakeAt(r.validators, a) \in Nat
      /\ r.validators \in [Address -> ValidatorInfo \cup {NoValidator}]
  BY WithSound
<1>3. Worth(v) = 0
  BY <1>1 DEF Worth
<1>4. Assets(With(r, a, v)) = Assets(r) - StakeAt(r.validators, a)
  BY <1>2, <1>3
<1> QED  BY <1>1, <1>2, <1>4

LEMMA FollowsItself ==
  ASSUME NEW r, Sound(r)
  PROVE  Follows(r, r)
BY DEF Follows, Unfunded, Sound, Registry

LEMMA FollowsOn ==
  ASSUME NEW r, NEW n, NEW m, Follows(n, r), Follows(m, n), Sound(r)
  PROVE  Follows(m, r)
<1>1. Unfunded(r) \in Int /\ Unfunded(n) \in Int /\ Unfunded(m) \in Int
  BY SMTT(30) DEF Follows, Unfunded, Sound, Registry
<1>2. Unfunded(m) >= Unfunded(n) /\ Unfunded(n) >= Unfunded(r)
  BY DEF Follows
<1>3. Unfunded(m) >= Unfunded(r)
  BY <1>1, <1>2
<1> QED  BY <1>3 DEF Follows

(***************************************************************************)
(* What changes no stake: uptimes and the end of unbonding.                *)
(***************************************************************************)
LEMMA SameStakeFollows ==
  ASSUME NEW r, Sound(r), NEW a \in Address, r.validators[a] # NoValidator,
         NEW v \in ValidatorInfo, v.stake = r.validators[a].stake
  PROVE  Follows(With(r, a, v), r) /\ With(r, a, v).validators[a] # NoValidator
         /\ With(r, a, v).validators[a] = v
<1>1. /\ Sound(With(r, a, v)) /\ Unfunded(With(r, a, v)) = Unfunded(r)
      /\ Assets(With(r, a, v))
           = Assets(r) - StakeAt(r.validators, a) + Worth(v)
      /\ With(r, a, v).validators = [r.validators EXCEPT ![a] = v]
      /\ Assets(r) \in Nat /\ Unfunded(r) \in Int /\ StakeAt(r.validators, a) \in Nat
      /\ r.validators \in [Address -> ValidatorInfo \cup {NoValidator}]
  BY WithSound
<1>2. v # NoValidator /\ StakeAt(r.validators, a) = v.stake /\ Worth(v) = v.stake
  BY NoValidatorAssumption DEF StakeAt, Worth
<1>3. Assets(With(r, a, v)) = Assets(r)
  <2> DEFINE old == StakeAt(r.validators, a)
             before == Assets(r)
  <2>1. Assets(With(r, a, v)) = before - old + old /\ before \in Nat /\ old \in Nat
    BY <1>1, <1>2
  <2> HIDE DEF old, before
  <2>2. Assets(With(r, a, v)) = before
    BY <2>1
  <2> QED  BY <2>2 DEF before
<1> QED  BY <1>1, <1>2, <1>3 DEF Follows

LEMMA UptimeOK ==
  ASSUME NEW v \in ValidatorInfo, NEW produced
  PROVE  UpdateUptime(v, produced) \in ValidatorInfo /\ UpdateUptime(v, produced).stake = v.stake
BY DEF UpdateUptime, ValidatorInfo

LEMMA UnbondingFollows ==
  ASSUME NEW r, Sound(r), NEW time
  PROVE  Follows(WithAll(r, ProcessUnbonding(r.validators, time)), r)
<1> DEFINE vs == r.validators
           ws == ProcessUnbonding(vs, time)
<1>1. vs \in [Address -> ValidatorInfo \cup {NoValidator}]
  BY DEF Sound, Registry
<1>2. ASSUME NEW a \in Address
      PROVE  ws[a] \in ValidatorInfo \cup {NoValidator} /\ StakeAt(ws, a) = StakeAt(vs, a)
  <2>1. CASE Unlocked(vs[a], time)
    <3>1. vs[a] \in ValidatorInfo /\ vs[a] # NoValidator
      BY <1>1, <2>1 DEF Unlocked
    <3> DEFINE w == [vs[a] EXCEPT !.status = "Inactive", !.unlock_time = 0]
    <3>2. ws[a] = w
      BY <2>1 DEF ProcessUnbonding
    <3>3. w \in ValidatorInfo /\ w.stake = vs[a].stake
      BY <3>1 DEF ValidatorInfo, Status
    <3> HIDE DEF w, ws
    <3> QED  BY <3>1, <3>2, <3>3, NoValidatorAssumption DEF StakeAt
  <2>2. CASE ~ Unlocked(vs[a], time)
    <3>1. ws[a] = vs[a]
      BY <2>2 DEF ProcessUnbonding
    <3> HIDE DEF ws
    <3> QED  BY <1>1, <3>1 DEF StakeAt
  <2> QED  BY <2>1, <2>2
<1>3. ws \in [Address -> ValidatorInfo \cup {NoValidator}]
  <2>1. ws = [a \in Address |-> ws[a]]
    BY DEF ProcessUnbonding
  <2> HIDE DEF ws
  <2> QED  BY <1>2, <2>1
<1> HIDE DEF ws
<1>4. Stakes(ws) = Stakes(vs)
  BY <1>2 DEF Stakes, StakeAt
<1>5. /\ Sound(WithAll(r, ws)) /\ Unfunded(WithAll(r, ws)) = Unfunded(r)
      /\ Assets(WithAll(r, ws)) = r.total_slashed + SumFunction(Stakes(ws))
      /\ Unfunded(r) \in Int
  BY <1>3, WithAllSound
<1>6. Assets(WithAll(r, ws)) = Assets(r)
  BY <1>4, <1>5 DEF Assets
<1> QED  BY <1>5, <1>6 DEF Follows, ws

(***************************************************************************)
(* finalize_block: the uptime of the proposer, and its downtime.           *)
(***************************************************************************)
LEMMA QuotientNat ==
  ASSUME NEW n \in Nat, NEW d \in Nat \ {0}
  PROVE  n \div d \in Nat
OBVIOUS

LEMMA DowntimeFollows ==
  ASSUME NEW r, Sound(r), NEW a \in Address, r.validators[a] # NoValidator
  PROVE  Follows(CheckDowntimeSlashing(r, a), r)
<1> DEFINE v == r.validators[a]
           condition == Offense("ExtendedDowntime", DaysDown(v))
<1>1. v \in ValidatorInfo
  BY DEF Sound, Registry
<1>2. DaysDown(v) \in Nat
  <2>1. v.blocks_missed \in Nat /\ BlocksPerDay \in Nat \ {0}
    BY <1>1, ValidatorsAssumption DEF ValidatorInfo
  <2>2. DaysDown(v) = v.blocks_missed \div BlocksPerDay
    BY DEF DaysDown
  <2> QED  BY <2>1, <2>2, QuotientNat
<1>3. condition \in Condition
  <2>1. "ExtendedDowntime" \in Kind
    BY DEF Kind
  <2> QED  BY <1>2, <2>1 DEF Condition, Offense
<1>4. Follows(SlashValidator(r, a, condition), r)
  <2> HIDE DEF condition
  <2> QED  BY <1>3, SlashFollows
<1>5. CheckDowntimeSlashing(r, a) = SlashValidator(r, a, condition) \/ CheckDowntimeSlashing(r, a) = r
  BY DEF CheckDowntimeSlashing
<1> QED  BY <1>4, <1>5, FollowsItself

LEMMA ProposerFollows ==
  ASSUME Sound(registry), NEW h \in Hash, Registered(Proposer[h])
  PROVE  Follows(ProposerFinalized(h), registry)
<1> DEFINE a == Proposer[h]
           v == registry.validators[a]
           u == UpdateUptime(v, TRUE)
           n == With(registry, a, u)
<1>1. a \in Address /\ v # NoValidator /\ v \in ValidatorInfo
  BY ConsensusAssumption DEF Sound, Registry, Registered
<1>2. u \in ValidatorInfo /\ u.stake = v.stake
  BY <1>1, UptimeOK
<1>3. ProposerFinalized(h) = CheckDowntimeSlashing(n, a)
  BY DEF ProposerFinalized, With
<1> HIDE DEF u, n
<1>4. Follows(n, registry) /\ n.validators[a] # NoValidator
  BY <1>1, <1>2, SameStakeFollows DEF n
<1>5. Follows(CheckDowntimeSlashing(n, a), n)
  BY <1>1, <1>4, DowntimeFollows DEF Follows
<1> QED  BY <1>3, <1>4, <1>5, FollowsOn

(***************************************************************************)
(* apply_reorg: the double-signers, slashed one after the other.           *)
(***************************************************************************)
LEMMA DoubleSignersFollow ==
  ASSUME Sound(registry), NEW revert, NEW apply, apply \subseteq Hash
  PROVE  Follows(SlashDoubleSigners(revert, apply), registry)
<1> DEFINE Fresh(g, n) == {a \in Accused(revert, apply, n) : g[n - 1].validators[a] # NoValidator}
           Step(g, n) ==
             IF n = 0 THEN registry
             ELSE IF Fresh(g, n) = {} THEN g[n - 1]
             ELSE SlashValidator(g[n - 1], CHOOSE a \in Fresh(g, n) : TRUE, Offense("DoubleSigning", 0))
           upto[n \in 0 .. MaxNumber] ==
             IF n = 0 THEN registry
             ELSE LET accused == {a \in Accused(revert, apply, n) : upto[n - 1].validators[a] # NoValidator}
                  IN  IF accused = {} THEN upto[n - 1]
                      ELSE SlashValidator(upto[n - 1], CHOOSE a \in accused : TRUE,
                                          Offense("DoubleSigning", 0))
<1>0. MaxNumber \in Nat
  BY ConsensusAssumption
<1>1. SlashDoubleSigners(revert, apply) = upto[MaxNumber]
  BY DEF SlashDoubleSigners
<1>2. \E g : g = [i \in 0 .. MaxNumber |-> Step(g, i)]
  <2> DEFINE Q == {n \in Nat : \E g : g = [i \in 0 .. n |-> Step(g, i)]}
  <2>1. 0 \in Q
    <3> DEFINE g == [i \in 0 .. 0 |-> registry]
    <3>1. g = [i \in 0 .. 0 |-> Step(g, i)]
      OBVIOUS
    <3> HIDE DEF Step
    <3> QED  BY <3>1
  <2>2. ASSUME NEW n \in Nat, n \in Q PROVE n + 1 \in Q
    <3>1. PICK g : g = [i \in 0 .. n |-> Step(g, i)]
      BY <2>2
    <3> DEFINE h == [i \in 0 .. n + 1 |-> Step(g, i)]
    <3>2. ASSUME NEW i \in 0 .. n + 1 PROVE Step(g, i) = Step(h, i)
      <4>1. CASE i = 0
        BY <4>1
      <4>2. CASE i # 0
        <5>1. i - 1 \in 0 .. n /\ i - 1 \in 0 .. n + 1
          BY <4>2
        <5>2. g[i - 1] = Step(g, i - 1)
          <6> HIDE DEF Step
          <6> QED  BY <3>1, <5>1
        <5>3. h[i - 1] = Step(g, i - 1)
          <6> HIDE DEF Step
          <6> QED  BY <5>1
        <5>4. g[i - 1] = h[i - 1]
          <6> HIDE DEF h, Step
          <6> QED  BY <5>2, <5>3
        <5> HIDE DEF h
        <5>5. Fresh(g, i) = Fresh(h, i)
          BY <5>4
        <5> HIDE DEF Fresh
        <5> QED  BY <5>4, <5>5
      <4> QED  BY <4>1, <4>2
    <3>3. h = [i \in 0 .. n + 1 |-> Step(h, i)]
      <4> HIDE DEF Step
      <4> QED  BY <3>2
    <3> HIDE DEF h, Step
    <3> QED  BY <3>3
  <2>3. MaxNumber \in Q
    <3> HIDE DEF Q
    <3> QED  BY <1>0, <2>1, <2>2, CountingUp
  <2> HIDE DEF Step
  <2> QED  BY <2>3
<1>3. upto = [i \in 0 .. MaxNumber |-> Step(upto, i)]
  BY <1>2
<1> HIDE DEF upto
<1>4. \A i \in 0 .. MaxNumber : upto[i] = Step(upto, i)
  <2> HIDE DEF Step
  <2> QED  BY <1>3, Zenon
<1> DEFINE R == {n \in Nat : n <= MaxNumber => Follows(upto[n], registry)}
<1>5. 0 \in R
  BY <1>0, <1>4, FollowsItself
<1>6. ASSUME NEW n \in Nat, n \in R PROVE n + 1 \in R
  <2> SUFFICES ASSUME n + 1 <= MaxNumber PROVE Follows(upto[n + 1], registry)
    OBVIOUS
  <2>1. Follows(upto[n], registry) /\ n + 1 \in 0 .. MaxNumber /\ n + 1 # 0 /\ n + 1 - 1 = n
    BY <1>0, <1>6
  <2> DEFINE F == {a \in Accused(revert, apply, n + 1) : upto[n].validators[a] # NoValidator}
             a == CHOOSE x \in F : TRUE
             condition == Offense("DoubleSigning", 0)
  <2>2. upto[n + 1] = IF F = {} THEN upto[n] ELSE SlashValidator(upto[n], a, condition)
    BY <1>4, <2>1
  <2>3. CASE F = {}
    BY <2>1, <2>2, <2>3
  <2>4. CASE F # {}
    <3>1. a \in F
      <4> HIDE DEF F
      <4> QED  BY <2>4
    <3>2. a \in Address /\ upto[n].validators[a] # NoValidator
      <4>1. a \in Accused(revert, apply, n + 1) /\ upto[n].validators[a] # NoValidator
        <5> HIDE DEF a
        <5> QED  BY <3>1
      <4>2. Accused(revert, apply, n + 1) \subseteq Address
        BY ConsensusAssumption DEF Accused
      <4> HIDE DEF a
      <4> QED  BY <4>1, <4>2
    <3>3. condition \in Condition
      <4>1. "DoubleSigning" \in Kind
        BY DEF Kind
      <4> QED  BY <4>1 DEF Condition, Offense
    <3> HIDE DEF a, condition, F
    <3>4. Follows(SlashValidator(upto[n], a, condition), upto[n])
      BY <2>1, <3>2, <3>3, SlashFollows DEF Follows
    <3> QED  BY <2>1, <2>2, <2>4, <3>4, FollowsOn
  <2> QED  BY <2>3, <2>4
<1>7. MaxNumber \in R
  <2> HIDE DEF R
  <2> QED  BY <1>0, <1>5, <1>6, CountingUp
<1> QED  BY <1>0, <1>1, <1>7

(***************************************************************************)
(* The accounts of the engine, and its type.                               *)
(***************************************************************************)
EngineInv ==
  /\ Sound(registry)
  /\ bonded \in Nat /\ released \in [stake : Nat, insurance : Nat] /\ now \in 0 .. MaxTime
  /\ bonded = Assets(registry) + released.stake
  /\ released.insurance <= Unfunded(registry)

LEMMA EngineFrom ==
  ASSUME NEW n, Sound(n), registry' = n,
         NEW b \in Nat, bonded' = b,
         NEW s \in Nat, NEW i \in Nat, released' = [stake |-> s, insurance |-> i],
         now' \in 0 .. MaxTime, b = Assets(n) + s, i <= Unfunded(n)
  PROVE  EngineInv'
<1>1. Sound(registry)' /\ Assets(registry)' = Assets(n) /\ Unfunded(registry)' = Unfunded(n)
  BY DEF Sound, Registry, ValidatorInfo, Status, Kind, Escalates, PenaltiesOf, Assets, Unfunded, Stakes
<1>2. released' \in [stake : Nat, insurance : Nat] /\ released'.stake = s /\ released'.insurance = i
  OBVIOUS
<1> QED  BY <1>1, <1>2 DEF EngineInv

LEMMA EngineFollows ==
  ASSUME EngineInv, NEW n, Follows(n, registry), registry' = n, UNCHANGED <<bonded, released>>,
         now' \in 0 .. MaxTime
  PROVE  EngineInv'
<1> DEFINE s == released.stake
           i == released.insurance
<1>1. /\ Sound(n) /\ Assets(n) = Assets(registry) /\ Unfunded(n) >= Unfunded(registry)
      /\ bonded \in Nat /\ s \in Nat /\ i \in Nat /\ released' = [stake |-> s, insurance |-> i]
      /\ bonded = Assets(registry) + s /\ i <= Unfunded(registry)
  BY DEF EngineInv, Follows
<1>2. Unfunded(n) \in Int /\ Unfunded(registry) \in Int
  BY SMTT(30) DEF Follows, EngineInv, Sound, Registry, Unfunded
<1>3. i <= Unfunded(n) /\ bonded = Assets(n) + s
  BY <1>1, <1>2
<1> HIDE DEF s, i
<1> QED  BY <1>1, <1>3, EngineFrom

LEMMA EngineInitially ==
  ASSUME Init
  PROVE  EngineInv
<1>1. /\ registry = EmptyRegistry /\ bonded = 0 /\ released = [stake |-> 0, insurance |-> 0]
      /\ now \in 0 .. MaxTime
  BY ConsensusAssumption DEF Init
<1> DEFINE vs == [a \in Address |-> NoValidator]
<1>2. /\ registry.validators = vs /\ registry.offense_count = [a \in Address |-> 0]
      /\ registry.history = << >> /\ registry.insurance_fund = 0
      /\ registry.total_slashed = 0 /\ registry.total_burned = 0
  BY <1>1 DEF EmptyRegistry
<1>3. registry \in Registry
  <2>1. << >> \in Seq([validator : Address, condition : Kind, previous_offenses : Nat, amount : Nat])
    OBVIOUS
  <2>2. [a \in Address |-> 0] \in [Address -> Nat] /\ vs \in [Address -> ValidatorInfo \cup {NoValidator}]
    OBVIOUS
  <2> QED  BY <1>1, <2>1, <2>2 DEF Registry, EmptyRegistry
<1>4. Escalates(registry)
  <2>1. \A a : PenaltiesOf(<< >>, a, 0) = {}
    BY DEF PenaltiesOf
  <2>2. Len(<< >>) = 0 /\ 1 .. 0 = {} /\ Cardinality({}) = 0
    BY FS_EmptySet
  <2> QED  BY <1>2, <2>1, <2>2 DEF Escalates
<1>5. SumFunction(Stakes(vs)) = 0
  <2>1. DOMAIN Stakes(vs) = Address /\ \A a \in Address : Stakes(vs)[a] = 0
    BY DEF Stakes
  <2> HIDE DEF vs
  <2> QED  BY <2>1, SumZero, ValidatorsAssumption DEF SumFunction
<1>6. Assets(registry) = 0 /\ Unfunded(registry) = 0
  BY <1>2, <1>5 DEF Assets, Unfunded
<1> QED  BY <1>1, <1>3, <1>4, <1>6 DEF EngineInv, Sound

(***************************************************************************)
(* One lemma per action.                                                   *)
(***************************************************************************)
LEMMA RegisterKeepsAccounts ==
  ASSUME EngineInv, NEW a \in Address, NEW stake \in Deposits, RegisterValidator(a, stake)
  PROVE  EngineInv'
<1> DEFINE v == NewValidator(stake)
           n == With(registry, a, v)
           s == released.stake
           i == released.insurance
           b == bonded + stake
<1>1. /\ stake \in Nat /\ Sound(registry) /\ bonded \in Nat /\ s \in Nat /\ i \in Nat
      /\ now \in 0 .. MaxTime /\ released = [stake |-> s, insurance |-> i]
      /\ bonded = Assets(registry) + s /\ i <= Unfunded(registry)
  BY ConsensusAssumption DEF EngineInv
<1>2. v \in ValidatorInfo /\ v.stake = stake
  BY <1>1 DEF NewValidator, ValidatorInfo, Status
<1>3. /\ registry' = n /\ bonded' = b /\ released' = [stake |-> s, insurance |-> i]
      /\ now' \in 0 .. MaxTime /\ registry.validators[a] = NoValidator
  BY <1>1 DEF RegisterValidator, With, Registered
<1> HIDE DEF v
<1>4. /\ Sound(n) /\ Unfunded(n) = Unfunded(registry) /\ Assets(registry) \in Nat
      /\ Assets(n) = Assets(registry) - StakeAt(registry.validators, a) + v.stake
  BY <1>1, <1>2, WithInfoSound
<1>5. v # NoValidator /\ StakeAt(registry.validators, a) = 0
  BY <1>2, <1>3, NoValidatorAssumption DEF StakeAt
<1>6. Assets(n) = Assets(registry) + stake
  BY <1>1, <1>2, <1>4, <1>5
<1>7. b = Assets(n) + s /\ b \in Nat /\ i <= Unfunded(n)
  BY <1>1, <1>4, <1>6
<1> HIDE DEF n, b, s, i
<1> QED  BY <1>1, <1>3, <1>4, <1>7, EngineFrom

LEMMA UnregisterKeepsAccounts ==
  ASSUME EngineInv, NEW a \in Address, UnregisterValidator(a)
  PROVE  EngineInv'
<1> DEFINE v == registry.validators[a]
           n == With(registry, a, NoValidator)
           s == released.stake + v.stake
           i == released.insurance
           b == bonded
<1>1. /\ Sound(registry) /\ bonded \in Nat /\ released.stake \in Nat /\ i \in Nat
      /\ now \in 0 .. MaxTime /\ released \in [stake : Nat, insurance : Nat]
      /\ bonded = Assets(registry) + released.stake /\ i <= Unfunded(registry)
  BY DEF EngineInv
<1>2. v # NoValidator /\ v \in ValidatorInfo /\ v.stake \in Nat
  BY <1>1 DEF UnregisterValidator, Registered, Sound, Registry, ValidatorInfo
<1>3. /\ registry' = n /\ bonded' = b /\ released' = [stake |-> s, insurance |-> i]
      /\ now' \in 0 .. MaxTime
  BY <1>1 DEF UnregisterValidator, With
<1>4. /\ Sound(n) /\ Unfunded(n) = Unfunded(registry) /\ Assets(registry) \in Nat
      /\ Assets(n) = Assets(registry) - StakeAt(registry.validators, a)
      /\ StakeAt(registry.validators, a) \in Nat
  BY <1>1, WithoutSound
<1>5. StakeAt(registry.validators, a) = v.stake
  BY <1>2 DEF StakeAt
<1>6. Assets(n) = Assets(registry) - v.stake
  BY <1>2, <1>4, <1>5
<1>7. b = Assets(n) + s /\ s \in Nat /\ b \in Nat /\ i <= Unfunded(n)
  BY <1>1, <1>2, <1>4, <1>6
<1> HIDE DEF n, b, s, i
<1> QED  BY <1>1, <1>3, <1>4, <1>7, EngineFrom

LEMMA AddStakeKeepsAccounts ==
  ASSUME EngineInv, NEW a \in Address, NEW amount \in Deposits, AddStake(a, amount)
  PROVE  EngineInv'
<1> DEFINE old == registry.validators[a]
           v == [old EXCEPT !.stake = @ + amount]
           n == With(registry, a, v)
           s == released.stake
           i == released.insurance
           b == bonded + amount
<1>1. /\ amount \in Nat /\ Sound(registry) /\ bonded \in Nat /\ s \in Nat /\ i \in Nat
      /\ now \in 0 .. MaxTime /\ released = [stake |-> s, insurance |-> i]
      /\ bonded = Assets(registry) + s /\ i <= Unfunded(registry)
  BY ConsensusAssumption DEF EngineInv
<1>2. old # NoValidator /\ old \in ValidatorInfo /\ old.stake \in Nat
  BY <1>1 DEF AddStake, Registered, Sound, Registry, ValidatorInfo
<1>3. v \in ValidatorInfo /\ v.stake = old.stake + amount
  BY <1>1, <1>2 DEF ValidatorInfo
<1>4. /\ registry' = n /\ bonded' = b /\ released' = [stake |-> s, insurance |-> i]
      /\ now' \in 0 .. MaxTime
  BY <1>1 DEF AddStake, Update, With
<1> HIDE DEF v
<1>5. /\ Sound(n) /\ Unfunded(n) = Unfunded(registry) /\ Assets(registry) \in Nat
      /\ Assets(n) = Assets(registry) - StakeAt(registry.validators, a) + v.stake
  BY <1>1, <1>3, WithInfoSound
<1>6. v # NoValidator /\ StakeAt(registry.validators, a) = old.stake
  BY <1>2, <1>3, NoValidatorAssumption DEF StakeAt
<1>7. Assets(n) = Assets(registry) + amount
  BY <1>1, <1>2, <1>3, <1>5, <1>6
<1>8. b = Assets(n) + s /\ b \in Nat /\ i <= Unfunded(n)
  BY <1>1, <1>5, <1>7
<1> HIDE DEF n, b, s, i
<1> QED  BY <1>1, <1>4, <1>5, <1>8, EngineFrom

LEMMA UnbondingKeepsAccounts ==
  ASSUME EngineInv, NEW a \in Address, NEW amount \in Withdrawals, StartUnbonding(a, amount)
  PROVE  EngineInv'
<1> DEFINE old == registry.validators[a]
           v == RemoveStake(old, amount, now)
           n == With(registry, a, v)
           s == released.stake + amount
           i == released.insurance
           b == bonded
<1>1. /\ amount \in Nat /\ Sound(registry) /\ bonded \in Nat /\ released.stake \in Nat /\ i \in Nat
      /\ now \in 0 .. MaxTime /\ released \in [stake : Nat, insurance : Nat]
      /\ bonded = Assets(registry) + released.stake /\ i <= Unfunded(registry)
      /\ UnbondingPeriod \in Nat /\ MaxTime \in Nat
  BY ConsensusAssumption, ValidatorsAssumption DEF EngineInv
<1>2. old # NoValidator /\ old \in ValidatorInfo /\ old.stake \in Nat /\ old.stake >= amount
  BY <1>1 DEF StartUnbonding, Registered, Sound, Registry, ValidatorInfo
<1>3. v \in ValidatorInfo /\ v.stake = old.stake - amount
  <2> DEFINE stake == old.stake - amount
             time == now + UnbondingPeriod
  <2>1. stake \in Nat /\ time \in Nat
    BY <1>1, <1>2
  <2>2. v = [old EXCEPT !.stake = stake, !.status = "Unbonding", !.unlock_time = time]
    BY DEF RemoveStake
  <2> HIDE DEF stake, time, v, old
  <2>3. v \in ValidatorInfo /\ v.stake = stake
    BY <1>2, <2>1, <2>2 DEF ValidatorInfo, Status
  <2> QED  BY <2>3 DEF stake
<1>4. /\ registry' = n /\ bonded' = b /\ released' = [stake |-> s, insurance |-> i]
      /\ now' \in 0 .. MaxTime
  BY <1>1 DEF StartUnbonding, Update, With
<1> HIDE DEF v
<1>5. /\ Sound(n) /\ Unfunded(n) = Unfunded(registry) /\ Assets(registry) \in Nat
      /\ Assets(n) = Assets(registry) - StakeAt(registry.validators, a) + v.stake
  BY <1>1, <1>3, WithInfoSound
<1>6. v # NoValidator /\ StakeAt(registry.validators, a) = old.stake
  BY <1>2, <1>3, NoValidatorAssumption DEF StakeAt
<1>7. Assets(n) = Assets(registry) - amount
  BY <1>1, <1>2, <1>3, <1>5, <1>6
<1>8. b = Assets(n) + s /\ s \in Nat /\ b \in Nat /\ i <= Unfunded(n)
  BY <1>1, <1>5, <1>7
<1> HIDE DEF n, b, s, i
<1> QED  BY <1>1, <1>4, <1>5, <1>8, EngineFrom

LEMMA InsuranceKeepsAccounts ==
  ASSUME EngineInv, NEW amount \in Withdrawals, WithdrawInsurance(amount)
  PROVE  EngineInv'
<1> DEFINE n == [registry EXCEPT !.insurance_fund = @ - amount]
           s == released.stake
           i == released.insurance + amount
           b == bonded
<1>1. /\ amount \in Nat /\ registry \in Registry /\ Escalates(registry) /\ bonded \in Nat
      /\ s \in Nat /\ released.insurance \in Nat
      /\ now \in 0 .. MaxTime /\ released \in [stake : Nat, insurance : Nat]
      /\ bonded = Assets(registry) + s /\ released.insurance <= Unfunded(registry)
      /\ registry.insurance_fund \in Nat /\ registry.insurance_fund >= amount
      /\ registry.total_slashed \in Nat /\ registry.total_burned \in Nat
  BY ConsensusAssumption DEF EngineInv, Sound, WithdrawInsurance, Registry
<1>2. /\ registry' = n /\ bonded' = b /\ released' = [stake |-> s, insurance |-> i]
      /\ now' \in 0 .. MaxTime
  BY <1>1 DEF WithdrawInsurance
<1>3. /\ n.validators = registry.validators /\ n.offense_count = registry.offense_count
      /\ n.history = registry.history /\ n.insurance_fund = registry.insurance_fund - amount
      /\ n.total_slashed = registry.total_slashed /\ n.total_burned = registry.total_burned
  BY <1>1 DEF Registry
<1>4. n \in Registry
  <2> DEFINE fund == registry.insurance_fund - amount
  <2>1. fund \in Nat
    BY <1>1
  <2> HIDE DEF fund
  <2>2. [registry EXCEPT !.insurance_fund = fund] \in Registry
    BY <1>1, <2>1 DEF Registry
  <2> QED  BY <2>2 DEF fund
<1> HIDE DEF n
<1>5. Sound(n)
  BY <1>1, <1>3, <1>4 DEF Sound, Escalates
<1>6. Assets(n) = Assets(registry) /\ Unfunded(n) = Unfunded(registry) + amount
  BY <1>1, <1>3 DEF Assets, Unfunded
<1>7. Unfunded(registry) \in Int
  BY <1>1 DEF Unfunded
<1>8. b = Assets(n) + s /\ b \in Nat /\ i \in Nat /\ i <= Unfunded(n)
  BY <1>1, <1>6, <1>7
<1> HIDE DEF b, s, i
<1> QED  BY <1>1, <1>2, <1>5, <1>8, EngineFrom

(***************************************************************************)
(* The actions that move no stake in or out.                               *)
(***************************************************************************)
LEMMA SameStakeKeepsAccounts ==
  ASSUME EngineInv, NEW a \in Address, Registered(a), NEW v \in ValidatorInfo,
         v.stake = registry.validators[a].stake, registry' = With(registry, a, v),
         UNCHANGED <<bonded, released, now>>
  PROVE  EngineInv'
<1>1. Follows(With(registry, a, v), registry)
  BY SameStakeFollows DEF EngineInv, Registered
<1>2. now' \in 0 .. MaxTime
  BY DEF EngineInv
<1> QED  BY <1>1, <1>2, EngineFollows

LEMMA FollowingSteps ==
  ASSUME EngineInv, NEW a \in Address, NEW x,
         \/ x \in Statuses /\ UpdateStatus(a, x)
         \/ MissBlock(a)
         \/ x \in Reports /\ ReportOffense(a, x)
         \/ ProduceBlock(a)
  PROVE  EngineInv'
<1> DEFINE v == registry.validators[a]
<1>0. Sound(registry) /\ now \in 0 .. MaxTime
  BY DEF EngineInv
<1>1. Registered(a) => v \in ValidatorInfo /\ v # NoValidator
  BY <1>0 DEF Registered, Sound, Registry
<1>2. ASSUME x \in Statuses, UpdateStatus(a, x) PROVE EngineInv'
  <2> DEFINE w == [v EXCEPT !.status = x, !.unlock_time = 0]
  <2>1. Registered(a) /\ registry' = With(registry, a, w) /\ UNCHANGED <<bonded, released, now>>
    BY <1>2 DEF UpdateStatus, Update, With
  <2>2. w \in ValidatorInfo /\ w.stake = v.stake
    <3>1. x \in Status
      BY <1>2, ConsensusAssumption DEF Status
    <3> HIDE DEF v
    <3> QED  BY <1>1, <2>1, <3>1 DEF ValidatorInfo
  <2> HIDE DEF w
  <2> QED  BY <2>1, <2>2, SameStakeKeepsAccounts
<1>3. ASSUME MissBlock(a) PROVE EngineInv'
  <2> DEFINE w == UpdateUptime(v, FALSE)
  <2>1. Registered(a) /\ registry' = With(registry, a, w) /\ UNCHANGED <<bonded, released, now>>
    BY <1>3 DEF MissBlock, Update, With
  <2>2. w \in ValidatorInfo /\ w.stake = v.stake
    BY <1>1, <2>1, UptimeOK
  <2> HIDE DEF w
  <2> QED  BY <2>1, <2>2, SameStakeKeepsAccounts
<1>4. ASSUME x \in Reports, ReportOffense(a, x) PROVE EngineInv'
  <2> DEFINE condition == Offense(x, 0)
             n == SlashValidator(registry, a, condition)
  <2>1. Registered(a) /\ registry' = n /\ UNCHANGED <<bonded, released, now>>
    BY <1>4 DEF ReportOffense
  <2>2. condition \in Condition
    <3>1. x \in Kind
      BY <1>4, ConsensusAssumption DEF Kind
    <3> QED  BY <3>1 DEF Condition, Offense
  <2> HIDE DEF condition
  <2>3. Follows(n, registry)
    BY <1>0, <2>1, <2>2, SlashFollows DEF Registered
  <2> HIDE DEF n
  <2> QED  BY <1>0, <2>1, <2>3, EngineFollows
<1>5. ASSUME ProduceBlock(a) PROVE EngineInv'
  <2>1. UNCHANGED <<bonded, released, now>>
    BY <1>5 DEF ProduceBlock
  <2>2. CASE Registered(a)
    <3> DEFINE u == UpdateUptime(v, TRUE)
               w == UpdateUptime(u, TRUE)
    <3>1. registry' = With(registry, a, w)
      BY <1>5, <2>2 DEF ProduceBlock, Update, With
    <3>2. u \in ValidatorInfo /\ u.stake = v.stake
      BY <1>1, <2>2, UptimeOK
    <3> HIDE DEF u
    <3>3. w \in ValidatorInfo /\ w.stake = v.stake
      BY <3>2, UptimeOK
    <3> HIDE DEF w
    <3> QED  BY <2>1, <2>2, <3>1, <3>3, SameStakeKeepsAccounts
  <2>3. CASE ~ Registered(a)
    <3>1. registry' = registry
      BY <1>5, <2>3 DEF ProduceBlock
    <3>2. Follows(registry, registry)
      BY <1>0, FollowsItself
    <3> QED  BY <1>0, <2>1, <3>1, <3>2, EngineFollows
  <2> QED  BY <2>2, <2>3
<1> QED  BY <1>2, <1>3, <1>4, <1>5

LEMMA ExtendKeepsAccounts ==
  ASSUME EngineInv, NEW h \in Hash, ExtendHead(h)
  PROVE  EngineInv'
<1> DEFINE n == ProposerFinalized(h)
           m == WithAll(n, ProcessUnbonding(n.validators, now))
<1>1. Sound(registry) /\ now \in 0 .. MaxTime /\ Registered(Proposer[h]) /\ UNCHANGED <<bonded, released, now>>
  BY DEF EngineInv, ExtendHead
<1>2. Follows(n, registry)
  BY <1>1, ProposerFollows
<1>3. registry' = m \/ registry' = n
  BY DEF ExtendHead, WithAll
<1> HIDE DEF n
<1>4. Follows(m, n)
  BY <1>2, UnbondingFollows DEF Follows
<1>5. Follows(m, registry)
  BY <1>1, <1>2, <1>4, FollowsOn
<1> HIDE DEF m
<1> QED  BY <1>1, <1>2, <1>3, <1>5, EngineFollows

LEMMA ReorgKeepsAccounts ==
  ASSUME EngineInv, NEW h \in Hash, NEW persisted, NEW ancestor, Reorganise(h, ancestor, persisted)
  PROVE  EngineInv'
<1> DEFINE revert == Above(head, ancestor)
           apply  == Above(h, ancestor)
           n == SlashDoubleSigners(revert, apply)
<1>1. Sound(registry) /\ now \in 0 .. MaxTime /\ registry' = n /\ UNCHANGED <<bonded, released, now>>
  BY DEF EngineInv, Reorganise
<1>2. apply \subseteq Hash
  BY TreeAssumption DEF Above
<1> HIDE DEF revert, apply
<1>3. Follows(n, registry)
  BY <1>1, <1>2, DoubleSignersFollow
<1> HIDE DEF n
<1> QED  BY <1>1, <1>3, EngineFollows

LEMMA EngineStep ==
  ASSUME EngineInv, [Next]_vars
  PROVE  EngineInv'
<1>0. Sound(registry) /\ now \in 0 .. MaxTime /\ MaxTime \in Nat
  BY ConsensusAssumption DEF EngineInv
<1>1. ASSUME registry' = registry, UNCHANGED <<bonded, released>>, now' \in 0 .. MaxTime
      PROVE  EngineInv'
  <2>1. Follows(registry, registry)
    BY <1>0, FollowsItself
  <2> QED  BY <1>1, <2>1, EngineFollows
<1>2. CASE UNCHANGED vars
  BY <1>0, <1>1, <1>2 DEF vars
<1>3. CASE Tick
  <2>1. now' \in 0 .. MaxTime
    BY <1>0, <1>3 DEF Tick
  <2> QED  BY <1>1, <1>3, <2>1 DEF Tick
<1>4. ASSUME NEW n \in Checkpoints, UpdateJustifiedCheckpoint(n) PROVE EngineInv'
  BY <1>0, <1>1, <1>4 DEF UpdateJustifiedCheckpoint
<1>5. ASSUME NEW h \in Hash, NEW persisted \in BOOLEAN,
             NEW ancestor \in FindCommonAncestor(head, h), Reorganise(h, ancestor, persisted)
      PROVE  EngineInv'
  BY <1>5, ReorgKeepsAccounts
<1>6. ASSUME NEW h \in Hash, ExtendHead(h) PROVE EngineInv'
  BY <1>6, ExtendKeepsAccounts
<1>7. ASSUME NEW a \in Address, NEW x,
             \/ x \in Statuses /\ UpdateStatus(a, x)
             \/ MissBlock(a)
             \/ x \in Reports /\ ReportOffense(a, x)
             \/ ProduceBlock(a)
      PROVE  EngineInv'
  BY <1>7, FollowingSteps
<1>8. ASSUME NEW a \in Address, NEW x,
             \/ x \in Deposits /\ RegisterValidator(a, x)
             \/ UnregisterValidator(a)
             \/ x \in Deposits /\ AddStake(a, x)
             \/ x \in Withdrawals /\ StartUnbonding(a, x)
      PROVE  EngineInv'
  BY <1>8, RegisterKeepsAccounts, UnregisterKeepsAccounts, AddStakeKeepsAccounts,
     UnbondingKeepsAccounts
<1>9. ASSUME NEW x \in Withdrawals, WithdrawInsurance(x) PROVE EngineInv'
  BY <1>9, InsuranceKeepsAccounts
<1> QED  BY <1>2, <1>3, <1>4, <1>5, <1>6, <1>7, <1>8, <1>9 DEF Next

LEMMA EngineAlways == Spec => []EngineInv
<1>1. EngineInv /\ [Next]_vars => EngineInv'
  BY EngineStep
<1> QED  BY <1>1, EngineInitially, PTL DEF Spec

(***************************************************************************)
(* The accounts of the engine add up (validator.rs, slashing.rs): every    *)
(* stake bonded is bonded still, was released or was slashed, and the      *)
(* insurance fund and the burnt never exceed the slashed, for every number *)
(* of validators and every width of the integer that penalties are taken   *)
(* from.                                                                   *)
(***************************************************************************)
THEOREM StakeAlwaysAccounted == Spec => []StakeAccounted
<1>1. EngineInv => StakeAccounted
  <2> SUFFICES ASSUME EngineInv PROVE StakeAccounted
    OBVIOUS
  <2>1. /\ registry.total_slashed \in Nat /\ registry.insurance_fund \in Nat
        /\ registry.total_burned \in Nat /\ released.stake \in Nat /\ released.insurance \in Nat
        /\ registry.validators \in [Address -> ValidatorInfo \cup {NoValidator}]
    BY DEF EngineInv, Sound, Registry
  <2>2. SumFunction(Stakes(registry.validators)) \in Nat
    BY <2>1, StakesSum
  <2>3. bonded = registry.total_slashed + released.stake + SumFunction(Stakes(registry.validators))
    BY <2>1, <2>2 DEF EngineInv, Assets
  <2>4. registry.insurance_fund + released.insurance + registry.total_burned <= registry.total_slashed
    BY <2>1 DEF EngineInv, Unfunded
  <2> QED  BY <2>3, <2>4 DEF StakeAccounted
<1> QED  BY <1>1, EngineAlways, PTL

(***************************************************************************)
(* The severity of penalties never starts over (slashing.rs): offense      *)
(* counts and the slashing history agree for ever, whoever unregisters and *)
(* registers again, and when one reorganisation slashes several validators *)
(* too.                                                                    *)
(***************************************************************************)
THEOREM OffensesAlwaysEscalate == Spec => []OffensesEscalate
<1>1. EngineInv => OffensesEscalate
  BY DEF EngineInv, Sound, OffensesEscalate
<1> QED  BY <1>1, EngineAlways, PTL

(***************************************************************************)
(* Selection.  The sums of a first part of the weights go up by one weight *)
(* at a time.                                                              *)
(***************************************************************************)
LEMMA WeightNat ==
  ASSUME NEW v \in ValidatorInfo \cup {NoValidator}
  PROVE  CalculateWeight(v) \in Nat
<1>1. CASE v # NoValidator /\ CanProduceBlocks(v)
  <2>1. v.stake \in Nat /\ v.blocks_produced \in Nat /\ v.blocks_missed \in Nat
    BY <1>1 DEF ValidatorInfo
  <2> DEFINE up == Uptime(v)
             low == v.stake % U64
  <2>2. up \in Nat
    <3> DEFINE total == v.blocks_produced + v.blocks_missed
               most == v.blocks_produced * 10000
    <3>1. total \in Nat /\ most \in Nat /\ 10000 \in Nat
      BY <2>1
    <3>2. up = IF total = 0 THEN 10000 ELSE most \div total
      BY DEF Uptime
    <3> HIDE DEF total, most, up
    <3>3. CASE total = 0
      BY <3>2, <3>3
    <3>4. CASE total # 0
      <4>1. most \div total \in Nat
        BY <3>1, <3>4, QuotientNat
      <4> QED  BY <3>2, <3>4, <4>1
    <3> QED  BY <3>3, <3>4
  <2>3. low \in Nat
    BY <2>1, ValidatorsAssumption
  <2>4. CalculateWeight(v) = (low * up) \div 10000
    BY <1>1 DEF CalculateWeight
  <2> HIDE DEF low, up
  <2>5. low * up \in Nat
    BY <2>2, <2>3
  <2>6. (low * up) \div 10000 \in Nat
    <3> DEFINE p == low * up
    <3>1. p \in Nat
      BY <2>5
    <3> HIDE DEF p
    <3>2. p \div 10000 \in Nat
      BY <3>1
    <3> QED  BY <3>2 DEF p
  <2> QED  BY <2>4, <2>6
<1>2. CASE ~ (v # NoValidator /\ CanProduceBlocks(v))
  BY <1>2 DEF CalculateWeight
<1> QED  BY <1>1, <1>2

LEMMA RunningSum ==
  ASSUME NEW n \in Nat, NEW f, \A k \in 1 .. n : f[k] \in Nat, NEW i \in 1 .. n
  PROVE  /\ SumFunctionOnSet(f, 1 .. i) = f[i] + SumFunctionOnSet(f, 1 .. (i - 1))
         /\ SumFunctionOnSet(f, 1 .. (i - 1)) \in Nat
         /\ \A j \in i .. n : SumFunctionOnSet(f, 1 .. i) <= SumFunctionOnSet(f, 1 .. j)
         /\ \A j \in 1 .. i : SumFunctionOnSet(f, 1 .. j) \in Nat
<1>1. \A j \in 0 .. n : IsFiniteSet(1 .. j) /\ \A x \in 1 .. j : f[x] \in Nat /\ f[x] \in Int
  BY FS_Interval
<1>2. Summable(f, 1 .. i)
  BY <1>1 DEF Summable
<1>3. (1 .. i) \ {i} = 1 .. (i - 1)
  OBVIOUS
<1>4. SumFunctionOnSet(f, 1 .. i) = f[i] + SumFunctionOnSet(f, 1 .. (i - 1))
  <2>1. i \in 1 .. i
    OBVIOUS
  <2> QED  BY <1>2, <1>3, <2>1, SumTakeOut
<1>5. \A j \in 0 .. n : SumFunctionOnSet(f, 1 .. j) \in Nat
  <2> SUFFICES ASSUME NEW j \in 0 .. n PROVE SumFunctionOnSet(f, 1 .. j) \in Nat
    OBVIOUS
  <2> DEFINE S == 1 .. j
  <2>1. IsFiniteSet(S) /\ \A x \in S : f[x] \in Nat
    BY <1>1
  <2> HIDE DEF S
  <2>2. SumFunctionOnSet(f, S) \in Nat
    BY <2>1, SumNat
  <2> QED  BY <2>2 DEF S
<1>6. \A j \in i .. n : SumFunctionOnSet(f, 1 .. i) <= SumFunctionOnSet(f, 1 .. j)
  <2> SUFFICES ASSUME NEW j \in i .. n
               PROVE  SumFunctionOnSet(f, 1 .. i) <= SumFunctionOnSet(f, 1 .. j)
    OBVIOUS
  <2> DEFINE S == 1 .. j
             R == 1 .. i
  <2>1. IsFiniteSet(S) /\ (\A x \in S : f[x] \in Nat) /\ R \in SUBSET S
    BY <1>1
  <2> HIDE DEF S, R
  <2>2. SumFunctionOnSet(f, R) <= SumFunctionOnSet(f, S)
    BY <2>1, SumPart
  <2> QED  BY <2>2 DEF S, R
<1>7. i - 1 \in 0 .. n /\ \A j \in 1 .. i : j \in 0 .. n
  OBVIOUS
<1> QED  BY <1>4, <1>5, <1>6, <1>7

(***************************************************************************)
(* The slots for which the first partial sum above the slot is the i-th.   *)
(***************************************************************************)
LEMMA SlotsBetween ==
  ASSUME NEW n \in Nat, NEW f, \A k \in 1 .. n : f[k] \in Nat, NEW i \in 1 .. n, NEW slot \in Nat,
         slot < SumFunctionOnSet(f, 1 .. n)
  PROVE  (Min({k \in 1 .. n : slot < SumFunctionOnSet(f, 1 .. k)}) = i)
           <=> slot \in SumFunctionOnSet(f, 1 .. (i - 1)) .. (SumFunctionOnSet(f, 1 .. i) - 1)
<1> DEFINE A(k) == SumFunctionOnSet(f, 1 .. k)
           T == {k \in 1 .. n : slot < A(k)}
           m == Min(T)
<1>1. n \in T /\ T \subseteq Nat
  OBVIOUS
<1>2. m \in T /\ \A k \in T : m <= k
  BY <1>1, LeastOf DEF Min
<1>3. A(i - 1) \in Nat /\ A(i) \in Nat /\ A(0) = 0
  BY RunningSum, SumEmpty, SMTT(30)
<1>4. ASSUME m = i PROVE slot \in A(i - 1) .. (A(i) - 1)
  <2>1. slot < A(i)
    BY <1>2, <1>4
  <2>2. A(i - 1) <= slot
    <3>1. CASE i = 1
      BY <3>1, <1>3
    <3>2. CASE i # 1
      <4>1. i - 1 \in 1 .. n /\ ~ (i - 1 \in T)
        BY <1>2, <1>4, <3>2
      <4> QED  BY <1>3, <4>1
    <3> QED  BY <3>1, <3>2
  <2> QED  BY <1>3, <2>1, <2>2
<1>5. ASSUME slot \in A(i - 1) .. (A(i) - 1) PROVE m = i
  <2>1. i \in T
    BY <1>3, <1>5
  <2>2. m <= i /\ m \in 1 .. n /\ slot < A(m)
    BY <1>2, <2>1
  <2>3. ASSUME m < i PROVE FALSE
    <3>1. i - 1 \in m .. n
      BY <2>2, <2>3
    <3>2. A(m) <= A(i - 1) /\ A(m) \in Nat
      <4>1. m \in 1 .. m
        BY <2>2
      <4> QED  BY <2>2, <3>1, <4>1, RunningSum
    <3> QED  BY <1>3, <1>5, <2>2, <3>2
  <2> QED  BY <2>2, <2>3
<1> QED  BY <1>4, <1>5

LEMMA OrderReachesAll ==
  ASSUME NEW S, IsFiniteSet(S), NEW order \in Orders(S), NEW a \in S
  PROVE  \E i \in 1 .. Cardinality(S) :
            order[i] = a /\ \A j \in 1 .. Cardinality(S) : order[j] = a => j = i
<1> DEFINE D == 1 .. Cardinality(S)
<1>1. Cardinality(S) \in Nat
  BY FS_CardinalityType
<1>2. IsFiniteSet(D) /\ Cardinality(D) = Cardinality(S)
  BY <1>1, FS_Interval
<1>3. order \in [D -> S] /\ \A i, j \in D : order[i] = order[j] => i = j
  BY DEF Orders
<1> HIDE DEF D
<1>4. order \in Injection(D, S)
  BY <1>3 DEF Injection, IsInjective
<1>5. order \in Surjection(D, S)
  BY <1>2, <1>4, FS_Injection
<1>6. PICK i \in D : order[i] = a
  BY <1>5 DEF Surjection
<1>7. \A j \in D : order[j] = a => j = i
  BY <1>3, <1>6
<1> QED  BY <1>6, <1>7 DEF D

LEMMA SlotsOfEach ==
  ASSUME NEW validators \in [Address -> ValidatorInfo \cup {NoValidator}],
         NEW order \in Orders(Eligible(validators)), NEW a \in Eligible(validators)
  PROVE  Cardinality({slot \in 0 .. TotalWeight(validators, order) - 1 :
                        SelectForSlot(validators, order, slot) = a})
           = CalculateWeight(validators[a])
<1> DEFINE S == Eligible(validators)
           n == Cardinality(S)
           f == [j \in 1 .. n |-> CalculateWeight(validators[order[j]])]
           A(k) == SumFunctionOnSet(f, 1 .. k)
<1>1. IsFiniteSet(S) /\ S \subseteq Address /\ n \in Nat
  BY FS_Subset, FS_CardinalityType, ValidatorsAssumption DEF Eligible
<1>2. order \in [1 .. n -> S] /\ DOMAIN order = 1 .. n /\ Len(order) = n
  BY <1>1 DEF Orders
<1>3. \A k \in 1 .. n : f[k] \in Nat /\ f[k] = CalculateWeight(validators[order[k]])
  BY <1>1, <1>2, WeightNat
<1>4. PICK i \in 1 .. n : order[i] = a /\ \A j \in 1 .. n : order[j] = a => j = i
  BY <1>1, OrderReachesAll
<1>5. /\ TotalWeight(validators, order) = A(n)
      /\ \A k \in 1 .. n : Accumulated(validators, order, k) = A(k)
  BY <1>2 DEF TotalWeight, Accumulated
<1> HIDE DEF n, f
<1>6. /\ A(i) = f[i] + A(i - 1) /\ A(i - 1) \in Nat /\ A(i) <= A(n)
      /\ f[i] \in Nat /\ A(n) \in Nat
  <2>1. A(i) = f[i] + A(i - 1) /\ A(i - 1) \in Nat /\ \A j \in i .. n : A(i) <= A(j)
    BY <1>1, <1>3, RunningSum
  <2>2. n \in 1 .. n /\ n \in i .. n
    BY <1>1
  <2>3. A(n) \in Nat
    BY <1>1, <1>3, <2>2, RunningSum
  <2> QED  BY <1>3, <2>1, <2>2, <2>3
<1>7. ASSUME NEW slot \in 0 .. A(n) - 1
      PROVE  SelectForSlot(validators, order, slot) = a <=> slot \in A(i - 1) .. (A(i) - 1)
  <2> DEFINE m == Min({k \in 1 .. n : slot < A(k)})
  <2>1. slot \in Nat /\ slot < A(n) /\ slot % A(n) = slot
    BY <1>6
  <2>2. SelectForSlot(validators, order, slot) = order[m]
    <3>1. slot % TotalWeight(validators, order) = slot
      BY <1>5, <2>1
    <3>2. {k \in DOMAIN order : slot < Accumulated(validators, order, k)}
            = {k \in 1 .. n : slot < A(k)}
      BY <1>2, <1>5
    <3> QED  BY <3>1, <3>2 DEF SelectForSlot
  <2>3. m \in 1 .. n
    <3> DEFINE T == {k \in 1 .. n : slot < A(k)}
    <3>1. n \in T /\ T \subseteq Nat
      BY <1>1, <2>1
    <3>2. Min(T) \in T
      BY <3>1, LeastOf DEF Min
    <3> QED  BY <3>2
  <2>4. m = i <=> slot \in A(i - 1) .. (A(i) - 1)
    BY <1>1, <1>3, <2>1, SlotsBetween
  <2> HIDE DEF m
  <2> QED  BY <1>4, <2>2, <2>3, <2>4
<1> DEFINE lo == A(i - 1)
           hi == A(i)
           all == A(n)
<1>8. {slot \in 0 .. all - 1 : SelectForSlot(validators, order, slot) = a} = lo .. (hi - 1)
  <2>1. lo \in Nat /\ hi \in Nat /\ all \in Nat /\ hi <= all
    BY <1>6
  <2>2. \A slot \in 0 .. all - 1 :
          SelectForSlot(validators, order, slot) = a <=> slot \in lo .. (hi - 1)
    BY <1>7
  <2> HIDE DEF lo, hi, all
  <2>3. \A slot \in lo .. (hi - 1) : slot \in 0 .. all - 1
    BY <2>1
  <2> QED  BY <2>2, <2>3
<1>9. Cardinality(lo .. (hi - 1)) = f[i]
  <2>1. lo \in Nat /\ hi = f[i] + lo /\ f[i] \in Nat
    BY <1>6
  <2> HIDE DEF lo, hi
  <2>2. lo \in Int /\ hi - 1 \in Int
    BY <2>1
  <2>3. Cardinality(lo .. (hi - 1)) = IF lo > hi - 1 THEN 0 ELSE (hi - 1) - lo + 1
    BY <2>2, FS_Interval
  <2> QED  BY <2>1, <2>3
<1>10. f[i] = CalculateWeight(validators[a])
  BY <1>3, <1>4
<1> QED  BY <1>5, <1>8, <1>9, <1>10

(***************************************************************************)
(* Selection is proportional to weight (selection.rs, select_for_slot): in *)
(* every reachable registry and for every order in which a HashMap may     *)
(* list the validators, each validator is the proposer of exactly as many  *)
(* slots of a round as its weight.                                         *)
(***************************************************************************)
THEOREM SlotsAlwaysProportional == Spec => []SlotsProportional
<1>1. EngineInv => SlotsProportional
  <2> SUFFICES ASSUME EngineInv PROVE SlotsProportional
    OBVIOUS
  <2>1. registry.validators \in [Address -> ValidatorInfo \cup {NoValidator}]
    BY DEF EngineInv, Sound, Registry
  <2> QED  BY <2>1, SlotsOfEach DEF SlotsProportional
<1> QED  BY <1>1, EngineAlways, PTL

-----------------------------------------------------------------------------
(***************************************************************************)
(* The fork resolver that the engine calls for every reorganisation,       *)
(* module ForkResolver, over any tree of stored blocks.                    *)
(*                                                                         *)
(* The path that is being built.  Down: the blocks to revert follow each   *)
(* other to where the first walk is.  Up: the blocks to apply lead from    *)
(* where the second walk is to the new head.                               *)
(***************************************************************************)
Down ==
  /\ revert_blocks \in Seq(Blocks)
  /\ current_a = IF revert_blocks = <<>> THEN old_head
                 ELSE parent[revert_blocks[Len(revert_blocks)]]
  /\ \A i \in 1 .. Len(revert_blocks) :
       revert_blocks[i] = IF i = 1 THEN old_head ELSE parent[revert_blocks[i - 1]]

Up ==
  /\ apply_blocks \in Seq(Blocks)
  /\ \A i \in 1 .. Len(apply_blocks) :
       parent[apply_blocks[i]] = IF i = 1 THEN current_b ELSE apply_blocks[i - 1]
  /\ new_head = IF apply_blocks = <<>> THEN current_b ELSE apply_blocks[Len(apply_blocks)]

PathInv ==
  /\ HighestHash \in Nat
  /\ parent \in Trees /\ old_head \in Blocks /\ new_head \in Blocks
  /\ current_a \in Blocks \cup {Zero}
  /\ current_b \in Blocks \cup {Zero}
  /\ phase \in {"search", "no_ancestor"} => revert_blocks = <<>> /\ apply_blocks = <<>>
  /\ phase = "revert" =>
       Down /\ apply_blocks = <<>> /\ current_b = new_head /\ Len(revert_blocks) <= MaxReorgDepth
  /\ phase \in {"apply", "done"} =>
       Down /\ Up /\ current_a = common_ancestor /\ Len(revert_blocks) <= MaxReorgDepth
  /\ phase = "done" => current_b = common_ancestor

LEMMA ParentIsBlock ==
  ASSUME HighestHash \in Nat, parent \in Trees, NEW h \in Blocks
  PROVE  parent[h] \in Blocks \cup {Zero}
BY DEF Trees, Blocks, Zero, GenesisBlock

LEMMA RevertPath ==
  ASSUME PathInv, Revert
  PROVE  PathInv'
<1> USE DEF input
<1>1. /\ phase = "revert" /\ Down /\ apply_blocks = <<>> /\ current_b = new_head
      /\ Len(revert_blocks) <= MaxReorgDepth /\ MaxReorgDepth \in Nat
      /\ UNCHANGED <<parent, old_head, new_head, current_b, common_ancestor, apply_blocks>>
  BY LimitsAssumption DEF PathInv, Revert
<1>2. CASE current_a = common_ancestor
  <2>1. phase' = "apply" /\ UNCHANGED <<current_a, revert_blocks>>
    BY <1>2 DEF Revert
  <2>2. Up
    BY <1>1 DEF Up
  <2> QED  BY <1>1, <1>2, <2>1, <2>2 DEF PathInv, Down, Up, Trees
<1>3. CASE current_a # common_ancestor /\ current_a = Zero
  <2>1. phase' = "block_missing" /\ UNCHANGED <<current_a, revert_blocks>>
    BY <1>3 DEF Revert
  <2> QED  BY <1>1, <2>1 DEF PathInv
<1>4. CASE current_a # common_ancestor /\ current_a # Zero
  <2>1. /\ revert_blocks' = Append(revert_blocks, current_a) /\ current_a' = parent[current_a]
        /\ phase' = IF TooDeep(revert_blocks)' THEN "too_deep" ELSE "revert"
    BY <1>4 DEF Revert, ParentHash, TooDeep
  <2>2. current_a \in Blocks
    BY <1>4 DEF PathInv
  <2>3. current_a' \in Blocks \cup {Zero}
    BY <2>1, <2>2, ParentIsBlock DEF PathInv
  <2> DEFINE n == Len(revert_blocks)
  <2>4. /\ n \in Nat /\ revert_blocks' \in Seq(Blocks) /\ Len(revert_blocks') = n + 1
        /\ revert_blocks'[n + 1] = current_a /\ revert_blocks' # <<>>
        /\ \A i \in 1 .. n : revert_blocks'[i] = revert_blocks[i]
    BY <1>1, <2>1, <2>2 DEF Down
  <2>5. \A i \in 1 .. n + 1 : revert_blocks'[i] = IF i = 1 THEN old_head ELSE parent[revert_blocks'[i - 1]]
    <3> SUFFICES ASSUME NEW i \in 1 .. n + 1
                 PROVE  revert_blocks'[i] = IF i = 1 THEN old_head ELSE parent[revert_blocks'[i - 1]]
      OBVIOUS
    <3>1. CASE i \in 1 .. n
      <4>1. revert_blocks'[i] = revert_blocks[i] /\ (i # 1 => revert_blocks'[i - 1] = revert_blocks[i - 1])
        BY <2>4, <3>1
      <4> QED  BY <1>1, <3>1, <4>1 DEF Down
    <3>2. CASE i = n + 1 /\ n = 0
      BY <1>1, <2>4, <3>2 DEF Down
    <3>3. CASE i = n + 1 /\ n # 0
      <4>1. n \in 1 .. n /\ i - 1 = n /\ i # 1 /\ revert_blocks # <<>>
        BY <2>4, <3>3
      <4> QED  BY <1>1, <2>4, <3>3, <4>1 DEF Down
    <3> QED  BY <2>4, <3>1, <3>2, <3>3
  <2>6. Down'
    BY <1>1, <2>1, <2>4, <2>5 DEF Down, Blocks
  <2>7. phase' = "revert" => Len(revert_blocks') <= MaxReorgDepth
    BY <1>1, <2>1, <2>4 DEF TooDeep
  <2>8. phase' \in {"revert", "too_deep"}
    BY <2>1
  <2> QED  BY <1>1, <2>3, <2>6, <2>7, <2>8 DEF PathInv, Trees
<1> QED  BY <1>2, <1>3, <1>4

LEMMA ApplyPath ==
  ASSUME PathInv, Apply
  PROVE  PathInv'
<1> USE DEF input
<1>1. /\ phase = "apply" /\ Down /\ Up /\ current_a = common_ancestor
      /\ Len(revert_blocks) <= MaxReorgDepth
      /\ UNCHANGED <<parent, old_head, new_head, current_a, common_ancestor, revert_blocks>>
  BY DEF PathInv, Apply
<1>2. CASE current_b = common_ancestor
  <2>1. phase' = "done" /\ UNCHANGED <<current_b, apply_blocks>>
    BY <1>2 DEF Apply, AncestorReached
  <2> QED  BY <1>1, <1>2, <2>1 DEF PathInv, Down, Up, Trees
<1>3. CASE current_b # common_ancestor /\ current_b = Zero
  <2>1. phase' = "block_missing" /\ UNCHANGED <<current_b, apply_blocks>>
    BY <1>3 DEF Apply, AncestorReached
  <2> QED  BY <1>1, <2>1 DEF PathInv
<1>4. CASE current_b # common_ancestor /\ current_b # Zero
  <2>1. /\ apply_blocks' = <<current_b>> \o apply_blocks /\ current_b' = parent[current_b] /\ phase' = "apply"
    BY <1>1, <1>4 DEF Apply, AncestorReached, ParentHash
  <2>2. current_b \in Blocks
    BY <1>4 DEF PathInv
  <2>3. current_b' \in Blocks \cup {Zero}
    BY <2>1, <2>2, ParentIsBlock DEF PathInv
  <2> DEFINE n == Len(apply_blocks)
  <2>4. /\ n \in Nat /\ apply_blocks' \in Seq(Blocks) /\ Len(apply_blocks') = n + 1
        /\ apply_blocks'[1] = current_b /\ apply_blocks' # <<>>
        /\ \A i \in 1 .. n : apply_blocks'[i + 1] = apply_blocks[i]
    BY <1>1, <2>1, <2>2 DEF Up
  <2>5. \A i \in 1 .. n + 1 : parent[apply_blocks'[i]] = IF i = 1 THEN current_b' ELSE apply_blocks'[i - 1]
    <3> SUFFICES ASSUME NEW i \in 1 .. n + 1
                 PROVE  parent[apply_blocks'[i]] = IF i = 1 THEN current_b' ELSE apply_blocks'[i - 1]
      OBVIOUS
    <3>1. CASE i = 1
      BY <2>1, <2>4, <3>1
    <3>2. CASE i # 1
      <4> DEFINE j == i - 1
      <4>1. j \in 1 .. n /\ i = j + 1
        BY <2>4, <3>2
      <4>2. apply_blocks'[i] = apply_blocks[j]
        BY <2>4, <4>1
      <4>3. parent[apply_blocks[j]] = IF j = 1 THEN current_b ELSE apply_blocks[j - 1]
        BY <1>1, <4>1 DEF Up
      <4>4. apply_blocks'[j] = IF j = 1 THEN current_b ELSE apply_blocks[j - 1]
        <5>1. CASE j = 1
          BY <2>4, <5>1
        <5>2. CASE j # 1
          <6>1. j - 1 \in 1 .. n /\ (j - 1) + 1 = j
            BY <4>1, <5>2, <2>4
          <6> QED  BY <2>4, <5>2, <6>1
        <5> QED  BY <5>1, <5>2
      <4> QED  BY <3>2, <4>2, <4>3, <4>4
    <3> QED  BY <3>1, <3>2
  <2>6. new_head = apply_blocks'[n + 1]
    <3>1. CASE n = 0
      BY <1>1, <2>4, <3>1 DEF Up
    <3>2. CASE n # 0
      <4>1. n \in 1 .. n /\ apply_blocks # <<>>
        BY <2>4, <3>2
      <4> QED  BY <1>1, <2>4, <4>1 DEF Up
    <3> QED  BY <3>1, <3>2
  <2>7. Up'
    BY <1>1, <2>4, <2>5, <2>6 DEF Up, Blocks
  <2> QED  BY <1>1, <2>1, <2>3, <2>7 DEF PathInv, Down, Trees
<1> QED  BY <1>2, <1>3, <1>4

LEMMA SearchPath ==
  ASSUME PathInv,
         \/ SearchSeen \/ SearchGenesis
         \/ SearchPastGenesis \/ SearchParents
  PROVE  PathInv'
<1> USE DEF input
<1>1. phase = "search" /\ revert_blocks = <<>> /\ apply_blocks = <<>>
  BY DEF PathInv, SearchSeen, SearchGenesis, SearchPastGenesis,
         SearchParents
<1>2. UNCHANGED <<parent, old_head, new_head, revert_blocks, apply_blocks>>
  BY DEF SearchSeen, SearchGenesis, SearchPastGenesis,
         SearchParents, Found, NotFound
<1>3. CASE SearchSeen \/ SearchGenesis
  <2>1. phase' = "revert" /\ current_a' = old_head /\ current_b' = new_head
    BY <1>3 DEF SearchSeen, SearchGenesis, Found
  <2>2. Down' /\ MaxReorgDepth \in Nat /\ Len(revert_blocks') = 0
    BY <1>1, <1>2, <2>1, LimitsAssumption DEF Down
  <2> QED  BY <1>1, <1>2, <2>1, <2>2 DEF PathInv, Trees
<1>4. CASE SearchPastGenesis
  BY <1>1, <1>2, <1>4 DEF PathInv, SearchPastGenesis, NotFound
<1>5. CASE SearchParents
  <2>1. /\ current_a' = parent[current_a] /\ current_b' = parent[current_b]
        /\ current_a # Zero /\ current_b # Zero
        /\ phase' \in {"search", "no_ancestor"}
    BY <1>5 DEF SearchParents, ParentHash
  <2>2. current_a \in Blocks /\ current_b \in Blocks
    BY <2>1 DEF PathInv
  <2>3. /\ parent[current_a] \in Blocks \cup {Zero}
        /\ parent[current_b] \in Blocks \cup {Zero}
    BY <2>2, ParentIsBlock DEF PathInv
  <2> QED  BY <1>1, <1>2, <2>1, <2>3 DEF PathInv, Trees
<1> QED  BY <1>3, <1>4, <1>5

LEMMA PathInvNext == PathInv /\ [ResolverNext]_resolver_vars => PathInv'
<1> SUFFICES ASSUME PathInv, [ResolverNext]_resolver_vars
             PROVE  PathInv'
  OBVIOUS
<1>1. CASE UNCHANGED resolver_vars
  BY <1>1 DEF resolver_vars, input, PathInv, Down, Up, Trees
<1>2. CASE ResolverNext
  BY <1>1, <1>2, SearchPath, RevertPath, ApplyPath DEF ResolverNext
<1> QED  BY <1>1, <1>2

(***************************************************************************)
(* A finished path of calculate_reorg_path reconnects the old head with    *)
(* the new one, for every tree of blocks, every two heads and every limit. *)
(***************************************************************************)
THEOREM PathAlwaysReconnects == ResolverSpec => []PathReconnects
<1>1. ResolverInit => PathInv
  BY ForkAssumption DEF ResolverInit, PathInv
<1>2. PathInv => PathReconnects
  BY DEF PathInv, Down, Up, PathReconnects
<1> QED  BY <1>1, <1>2, PathInvNext, PTL DEF ResolverSpec
-----------------------------------------------------------------------------
(***************************************************************************)
(* What find_common_ancestor returns.  First the trees: the recursion that *)
(* defines the ancestors of a block has a solution, ancestors lie on one   *)
(* line, and the height counts the steps along it.                         *)
(***************************************************************************)
Tree(p) == HighestHash \in Nat /\ p \in Trees

Lineage(p, anc, h) == IF h = 0 THEN {0} ELSE {h} \cup anc[p[h]]

AncestorsIn(p) == CHOOSE anc : anc = [h \in Blocks |-> Lineage(p, anc, h)]

Tall(p, h) == Cardinality(AncestorsIn(p)[h]) - 1

LEMMA TreeParent ==
  ASSUME NEW p, Tree(p), NEW h \in Blocks
  PROVE  /\ h \in Nat /\ h <= HighestHash /\ 0 \in Blocks
         /\ h = 0 => p[h] = -1
         /\ h # 0 => p[h] \in Blocks /\ p[h] < h
BY DEF Tree, Trees, Blocks, Zero, GenesisBlock

LEMMA ParentFirst ==
  ASSUME NEW p, Tree(p), NEW Q, 0 \in Q,
         \A h \in Blocks : h # 0 /\ p[h] \in Q => h \in Q
  PROVE  \A h \in Blocks : h \in Q
<1> DEFINE T == {h \in Blocks : ~ (h \in Q)}
<1> SUFFICES ASSUME T # {} PROVE FALSE
  OBVIOUS
<1>1. T \subseteq Nat
  BY TreeParent
<1>2. PICK x \in T : \A y \in T : x <= y
  BY <1>1, LeastOf
<1>3. x \in Blocks /\ x # 0 /\ x \in Nat
  BY <1>1
<1>4. p[x] \in Blocks /\ p[x] < x /\ p[x] \in Nat
  BY <1>3, TreeParent
<1>5. p[x] \in Q
  BY <1>2, <1>3, <1>4
<1> QED  BY <1>3, <1>5

LEMMA AncestorsEquation ==
  ASSUME NEW p, Tree(p)
  PROVE  \A h \in Blocks : AncestorsIn(p)[h] = Lineage(p, AncestorsIn(p), h)
<1> DEFINE Q == {n \in Nat : n <= HighestHash => \E g : g = [h \in 0 .. n |-> Lineage(p, g, h)]}
<1>1. 0 \in Q
  <2> DEFINE g == [h \in 0 .. 0 |-> {0}]
  <2>1. g = [h \in 0 .. 0 |-> Lineage(p, g, h)]
    BY DEF Lineage
  <2> HIDE DEF g
  <2> QED  BY <2>1
<1>2. ASSUME NEW n \in Nat, n \in Q PROVE n + 1 \in Q
  <2> SUFFICES ASSUME n + 1 <= HighestHash
               PROVE  \E g : g = [h \in 0 .. n + 1 |-> Lineage(p, g, h)]
    OBVIOUS
  <2>0. n <= HighestHash
    BY DEF Tree
  <2>1. PICK g : g = [h \in 0 .. n |-> Lineage(p, g, h)]
    BY <1>2, <2>0
  <2> DEFINE f == [h \in 0 .. n + 1 |-> Lineage(p, g, h)]
  <2>2. ASSUME NEW h \in 0 .. n + 1 PROVE Lineage(p, g, h) = Lineage(p, f, h)
    <3>1. CASE h = 0
      BY <3>1 DEF Lineage
    <3>2. CASE h # 0
      <4> DEFINE q == p[h]
      <4>1. h \in Blocks
        BY <2>2 DEF Blocks, Tree
      <4>2. q \in Blocks /\ q < h /\ q \in Nat
        BY <3>2, <4>1, TreeParent
      <4>3. q \in 0 .. n /\ q \in 0 .. n + 1
        BY <2>2, <4>2
      <4>4. f[q] = Lineage(p, g, q) /\ g[q] = Lineage(p, g, q)
        <5> HIDE DEF q
        <5>1. f[q] = Lineage(p, g, q)
          BY <4>3
        <5>2. g[q] = Lineage(p, g, q)
          BY <4>3, <2>1
        <5> QED  BY <5>1, <5>2
      <4> QED  BY <4>4, <3>2 DEF Lineage
    <3> QED  BY <3>1, <3>2
  <2>3. f = [h \in 0 .. n + 1 |-> Lineage(p, f, h)]
    BY <2>2
  <2> HIDE DEF f
  <2> QED  BY <2>3
<1>3. HighestHash \in Q
  <2>1. HighestHash \in Nat
    BY DEF Tree
  <2> HIDE DEF Q
  <2> QED  BY <1>1, <1>2, <2>1, CountingUp
<1>4. \E g : g = [h \in Blocks |-> Lineage(p, g, h)]
  BY <1>3 DEF Tree, Blocks
<1>5. AncestorsIn(p) = [h \in Blocks |-> Lineage(p, AncestorsIn(p), h)]
  BY <1>4 DEF AncestorsIn
<1> HIDE DEF Q
<1> QED  BY <1>5, Zenon

LEMMA AncestorsOfBlock ==
  ASSUME NEW p, Tree(p)
  PROVE  /\ AncestorsIn(p)[0] = {0}
         /\ \A h \in Blocks :
              h # 0 => p[h] \in Blocks /\ AncestorsIn(p)[h] = {h} \cup AncestorsIn(p)[p[h]]
<1>1. 0 \in Blocks
  BY DEF Tree, Blocks
<1> QED  BY <1>1, AncestorsEquation, TreeParent DEF Lineage

(***************************************************************************)
(* The ancestors of a block are below it, down to the genesis block.       *)
(***************************************************************************)
LEMMA AncestorsBelow ==
  ASSUME NEW p, Tree(p)
  PROVE  \A h \in Blocks :
           /\ h \in AncestorsIn(p)[h] /\ 0 \in AncestorsIn(p)[h]
           /\ \A x \in AncestorsIn(p)[h] : x \in Blocks /\ x <= h
<1> DEFINE A == AncestorsIn(p)
           Q == {h \in Blocks :
                   /\ h \in A[h] /\ 0 \in A[h]
                   /\ \A x \in A[h] : x \in Blocks /\ x <= h}
<1>1. 0 \in Q
  BY AncestorsOfBlock DEF Tree, Blocks
<1>2. ASSUME NEW h \in Blocks, h # 0, p[h] \in Q PROVE h \in Q
  <2>1. A[h] = {h} \cup A[p[h]] /\ p[h] \in Blocks
    BY <1>2, AncestorsOfBlock
  <2>2. p[h] < h /\ h \in Nat /\ p[h] \in Nat
    BY <1>2, <2>1, TreeParent
  <2>3. 0 \in A[p[h]] /\ \A x \in A[p[h]] : x \in Blocks /\ x <= p[h]
    BY <1>2
  <2>4. \A x \in A[p[h]] : x \in Nat
    BY <2>3, TreeParent
  <2>5. \A x \in A[h] : x \in Blocks /\ x <= h
    BY <2>1, <2>2, <2>3, <2>4
  <2> HIDE DEF A
  <2> QED  BY <2>1, <2>3, <2>5
<1>3. \A h \in Blocks : h \in Q
  <2> HIDE DEF Q
  <2> QED  BY <1>1, <1>2, ParentFirst
<1> QED  BY <1>3

(***************************************************************************)
(* They lie on one line.                                                   *)
(***************************************************************************)
LEMMA AncestorsInLine ==
  ASSUME NEW p, Tree(p), NEW h \in Blocks, NEW x \in AncestorsIn(p)[h]
  PROVE  /\ AncestorsIn(p)[x] \subseteq AncestorsIn(p)[h]
         /\ \A y \in AncestorsIn(p)[h] : x <= y => x \in AncestorsIn(p)[y]
<1> DEFINE A == AncestorsIn(p)
           Line(b) == \A a \in A[b] : A[a] \subseteq A[b] /\ \A y \in A[b] : a <= y => a \in A[y]
           Q == {b \in Blocks : Line(b)}
<1>0. 0 \in Blocks /\ A[0] = {0}
  BY AncestorsOfBlock DEF Tree, Blocks
<1>1. 0 \in Q
  BY <1>0
<1>2. ASSUME NEW b \in Blocks, b # 0, p[b] \in Q PROVE b \in Q
  <2>1. A[b] = {b} \cup A[p[b]] /\ p[b] \in Blocks
    BY <1>2, AncestorsOfBlock
  <2>2. p[b] < b /\ b \in Nat /\ p[b] \in Nat
    BY <1>2, <2>1, TreeParent
  <2>3. \A y \in A[p[b]] : y <= p[b] /\ y \in Nat
    BY <2>1, AncestorsBelow, TreeParent
  <2>4. Line(p[b])
    BY <1>2
  <2>5. ASSUME NEW a \in A[b] PROVE A[a] \subseteq A[b] /\ \A y \in A[b] : a <= y => a \in A[y]
    <3> HIDE DEF A
    <3>1. CASE a = b
      BY <2>1, <2>2, <2>3, <3>1
    <3>2. CASE a \in A[p[b]]
      BY <2>1, <2>4, <2>5, <3>2
    <3> QED  BY <2>1, <2>5, <3>1, <3>2
  <2> QED  BY <2>5
<1>3. \A b \in Blocks : b \in Q
  <2> HIDE DEF Q
  <2> QED  BY <1>1, <1>2, ParentFirst
<1> QED  BY <1>3

(***************************************************************************)
(* The height counts the steps to the genesis block, and tells the         *)
(* ancestors of a block apart.                                             *)
(***************************************************************************)
LEMMA AncestorsFinite ==
  ASSUME NEW p, Tree(p), NEW h \in Blocks
  PROVE  IsFiniteSet(AncestorsIn(p)[h]) /\ Tall(p, h) \in Nat
<1>1. HighestHash \in Int /\ 0 \in Int
  BY DEF Tree
<1>2. IsFiniteSet(0 .. HighestHash)
  BY <1>1, FS_Interval
<1>3. AncestorsIn(p)[h] \in SUBSET (0 .. HighestHash)
  BY AncestorsBelow DEF Blocks
<1>4. IsFiniteSet(AncestorsIn(p)[h])
  BY <1>2, <1>3, FS_Subset
<1>5. Cardinality(AncestorsIn(p)[h]) \in Nat /\ Cardinality(AncestorsIn(p)[h]) # 0
  BY <1>4, AncestorsBelow, FS_CardinalityType, FS_EmptySet
<1> QED  BY <1>4, <1>5 DEF Tall

LEMMA TallParent ==
  ASSUME NEW p, Tree(p), NEW h \in Blocks
  PROVE  /\ h = 0 => Tall(p, h) = 0
         /\ h # 0 => Tall(p, h) = Tall(p, p[h]) + 1
<1>1. CASE h = 0
  <2>1. AncestorsIn(p)[h] = {0}
    BY <1>1, AncestorsOfBlock
  <2>2. Cardinality({0}) = 1
    BY FS_Singleton
  <2>3. Tall(p, h) = 1 - 1
    BY <2>1, <2>2 DEF Tall
  <2> QED  BY <1>1, <2>3
<1>2. CASE h # 0
  <2> DEFINE q == p[h]
             B == AncestorsIn(p)[q]
  <2>1. q \in Blocks /\ AncestorsIn(p)[h] = {h} \cup B
    BY <1>2, AncestorsOfBlock
  <2>2. q < h /\ h \in Nat /\ q \in Nat
    BY <1>2, <2>1, TreeParent
  <2>3. ~ (h \in B)
    BY <2>1, <2>2, AncestorsBelow
  <2>4. IsFiniteSet(B) /\ Tall(p, q) \in Nat
    BY <2>1, AncestorsFinite
  <2>5. Cardinality(B) \in Nat
    BY <2>4, FS_CardinalityType
  <2>6. Cardinality(B \cup {h}) = Cardinality(B) + 1
    <3> HIDE DEF B
    <3> QED  BY <2>3, <2>4, FS_AddElement
  <2>7. B \cup {h} = AncestorsIn(p)[h]
    BY <2>1
  <2>8. Tall(p, h) = Cardinality(B \cup {h}) - 1 /\ Tall(p, q) = Cardinality(B) - 1
    BY <2>7 DEF Tall
  <2> HIDE DEF B
  <2>9. Tall(p, h) = Tall(p, q) + 1
    BY <2>5, <2>6, <2>8
  <2> QED  BY <1>2, <2>9
<1> QED  BY <1>1, <1>2

LEMMA TallOrder ==
  ASSUME NEW p, Tree(p), NEW h \in Blocks,
         NEW x \in AncestorsIn(p)[h], NEW y \in AncestorsIn(p)[h]
  PROVE  /\ x < y => Tall(p, x) < Tall(p, y)
         /\ Tall(p, x) = Tall(p, y) => x = y
<1> DEFINE A == AncestorsIn(p)
<1>1. x \in Blocks /\ y \in Blocks /\ x \in Nat /\ y \in Nat
  BY AncestorsBelow, TreeParent
<1>2. ASSUME NEW a \in A[h], NEW b \in A[h], a < b PROVE Tall(p, a) < Tall(p, b)
  <2>1. a \in Blocks /\ b \in Blocks
    BY AncestorsBelow
  <2>2. a \in Nat /\ b \in Nat
    BY <2>1, TreeParent
  <2>3. a \in A[b]
    BY <1>2, <2>2, AncestorsInLine
  <2>4. A[a] \subseteq A[b]
    BY <2>1, <2>3, AncestorsInLine
  <2>5. b \in A[b] /\ ~ (b \in A[a])
    BY <1>2, <2>1, <2>2, AncestorsBelow
  <2>6. IsFiniteSet(A[a]) /\ IsFiniteSet(A[b])
    BY <2>1, AncestorsFinite
  <2>7. Cardinality(A[a]) \in Nat /\ Cardinality(A[b]) \in Nat
    BY <2>6, FS_CardinalityType
  <2>8. A[a] \in SUBSET A[b] /\ A[a] # A[b]
    BY <2>4, <2>5
  <2>9. Cardinality(A[a]) <= Cardinality(A[b]) /\ Cardinality(A[a]) # Cardinality(A[b])
    <3> HIDE DEF A
    <3> QED  BY <2>6, <2>8, FS_Subset
  <2> QED  BY <2>7, <2>9 DEF Tall
<1>3. Tall(p, x) \in Nat /\ Tall(p, y) \in Nat
  BY <1>1, AncestorsFinite
<1>4. x < y \/ y < x \/ x = y
  BY <1>1
<1>5. x < y => Tall(p, x) < Tall(p, y)
  BY <1>2
<1>6. y < x => Tall(p, y) < Tall(p, x)
  BY <1>2
<1> QED  BY <1>3, <1>4, <1>5, <1>6
(***************************************************************************)
(* The last common block of two branches.                                  *)
(***************************************************************************)
Fork(p, a, b) == Max(AncestorsIn(p)[a] \cap AncestorsIn(p)[b])

LEMMA ForkIsCommon ==
  ASSUME NEW p, Tree(p), NEW a \in Blocks, NEW b \in Blocks
  PROVE  /\ Fork(p, a, b) \in AncestorsIn(p)[a] /\ Fork(p, a, b) \in AncestorsIn(p)[b]
         /\ Tall(p, Fork(p, a, b)) \in Nat
         /\ \A x : x \in AncestorsIn(p)[a] /\ x \in AncestorsIn(p)[b]
                     => Tall(p, x) <= Tall(p, Fork(p, a, b))
         /\ Fork(p, b, a) = Fork(p, a, b)
<1> DEFINE C == AncestorsIn(p)[a] \cap AncestorsIn(p)[b]
           D == {HighestHash - x : x \in C}
<1>1. 0 \in C /\ \A x \in C : x \in Blocks
  BY AncestorsBelow
<1>2. \A x \in C : x \in Nat /\ x <= HighestHash
  BY <1>1, TreeParent
<1>3. HighestHash \in Nat
  BY DEF Tree
<1>4. D \subseteq Nat /\ D # {}
  BY <1>1, <1>2, <1>3
<1>5. PICK d \in D : \A e \in D : d <= e
  BY <1>4, LeastOf
<1>6. PICK m \in C : d = HighestHash - m
  BY <1>5
<1>7. \A x \in C : m >= x
  <2> SUFFICES ASSUME NEW x \in C PROVE m >= x
    OBVIOUS
  <2>1. HighestHash - x \in D
    OBVIOUS
  <2>2. HighestHash - m <= HighestHash - x
    BY <1>5, <1>6, <2>1
  <2> QED  BY <1>2, <1>3, <2>2
<1>8. Fork(p, a, b) \in C /\ \A x \in C : Fork(p, a, b) >= x
  <2> HIDE DEF C
  <2>1. \E x \in C : \A y \in C : x >= y
    BY <1>7
  <2>2. Max(C) \in C /\ \A y \in C : Max(C) >= y
    BY <2>1 DEF Max
  <2> QED  BY <2>2 DEF Fork, C
<1> DEFINE f == Fork(p, a, b)
<1>9. Tall(p, f) \in Nat
  BY <1>1, <1>8, AncestorsFinite
<1>10. \A x : x \in C => Tall(p, x) <= Tall(p, f)
  <2> SUFFICES ASSUME NEW x \in C PROVE Tall(p, x) <= Tall(p, f)
    OBVIOUS
  <2>1. Tall(p, x) \in Nat
    BY <1>1, AncestorsFinite
  <2>2. x < f => Tall(p, x) < Tall(p, f)
    BY <1>8, TallOrder
  <2>3. x = f \/ x < f
    BY <1>2, <1>8
  <2> QED  BY <1>9, <2>1, <2>2, <2>3
<1>11. AncestorsIn(p)[b] \cap AncestorsIn(p)[a] = C
  OBVIOUS
<1>12. Fork(p, b, a) = f
  BY <1>11 DEF Fork
<1> QED  BY <1>8, <1>9, <1>10, <1>12

(***************************************************************************)
(* One walk of the search after k steps: it has visited the k highest      *)
(* blocks of its branch and is at the next one, or past the genesis block. *)
(***************************************************************************)
Walk(p, h, k, cur, vis) ==
  /\ k \in Nat /\ k <= Tall(p, h) + 1
  /\ \A x : x \in vis <=> x \in AncestorsIn(p)[h] /\ Tall(p, x) > Tall(p, h) - k
  /\ IsFiniteSet(vis) /\ Cardinality(vis) = k
  /\ k <= Tall(p, h) => cur \in AncestorsIn(p)[h] /\ Tall(p, cur) = Tall(p, h) - k
  /\ k = Tall(p, h) + 1 => cur = -1

LEMMA WalkStarts ==
  ASSUME NEW p, Tree(p), NEW h \in Blocks
  PROVE  Walk(p, h, 0, h, {})
<1>1. Tall(p, h) \in Nat /\ h \in AncestorsIn(p)[h]
  BY AncestorsFinite, AncestorsBelow
<1>2. ASSUME NEW x \in AncestorsIn(p)[h] PROVE ~ (Tall(p, x) > Tall(p, h))
  <2>1. x \in Blocks /\ x <= h
    BY AncestorsBelow
  <2>2. x \in Nat /\ h \in Nat /\ Tall(p, x) \in Nat
    BY <2>1, TreeParent, AncestorsFinite
  <2>3. x < h => Tall(p, x) < Tall(p, h)
    BY <1>1, TallOrder
  <2> QED  BY <1>1, <2>1, <2>2, <2>3
<1>3. Tall(p, h) - 0 = Tall(p, h)
  BY <1>1
<1> QED  BY <1>1, <1>2, <1>3, FS_EmptySet DEF Walk

LEMMA WalkSteps ==
  ASSUME NEW p, Tree(p), NEW h \in Blocks, NEW k, NEW cur, NEW vis,
         Walk(p, h, k, cur, vis), cur # -1
  PROVE  Walk(p, h, k + 1, p[cur], vis \cup {cur})
<1> DEFINE H == Tall(p, h)
           A == AncestorsIn(p)[h]
<1>1. H \in Nat /\ k \in Nat /\ k <= H
  BY AncestorsFinite DEF Walk
<1>2. cur \in A /\ Tall(p, cur) = H - k /\ cur \in Blocks
  BY <1>1, AncestorsBelow DEF Walk
<1>3. \A x : x \in vis <=> x \in A /\ Tall(p, x) > H - k
  BY DEF Walk
<1>4. \A x \in A : Tall(p, x) \in Nat /\ (Tall(p, x) = H - k => x = cur)
  BY <1>2, AncestorsBelow, AncestorsFinite, TallOrder
<1>5. \A x : x \in vis \cup {cur} <=> x \in A /\ Tall(p, x) > H - (k + 1)
  <2> TAKE x
  <2> HIDE DEF A, H
  <2>1. CASE x \in A
    BY <1>1, <1>2, <1>3, <1>4, <2>1
  <2>2. CASE ~ (x \in A)
    BY <1>2, <1>3, <2>2
  <2> QED  BY <2>1, <2>2
<1>6. IsFiniteSet(vis \cup {cur}) /\ Cardinality(vis \cup {cur}) = k + 1
  <2>1. IsFiniteSet(vis) /\ Cardinality(vis) = k
    BY DEF Walk
  <2>2. ~ (cur \in vis)
    BY <1>1, <1>2, <1>3
  <2> QED  BY <2>1, <2>2, FS_AddElement
<1>7. CASE cur = 0
  <2>1. p[cur] = -1 /\ Tall(p, cur) = 0
    BY <1>2, <1>7, TreeParent, TallParent
  <2>2. k = H
    BY <1>1, <1>2, <2>1
  <2> HIDE DEF A, H
  <2> QED  BY <1>1, <1>5, <1>6, <2>1, <2>2 DEF Walk, A, H
<1>8. CASE cur # 0
  <2> DEFINE q == p[cur]
  <2>1. q \in Blocks /\ AncestorsIn(p)[cur] = {cur} \cup AncestorsIn(p)[q]
    BY <1>2, <1>8, AncestorsOfBlock
  <2>2. Tall(p, cur) = Tall(p, q) + 1 /\ Tall(p, q) \in Nat
    BY <1>2, <1>8, <2>1, TallParent, AncestorsFinite
  <2>3. q \in A
    BY <1>2, <2>1, AncestorsBelow, AncestorsInLine
  <2>4. k + 1 <= H /\ Tall(p, q) = H - (k + 1)
    BY <1>1, <1>2, <2>2
  <2> HIDE DEF q, H, A
  <2>5. k + 1 \in Nat /\ k + 1 <= H + 1 /\ k + 1 # H + 1
    BY <1>1, <2>4
  <2>6. Walk(p, h, k + 1, q, vis \cup {cur})
    BY <1>5, <1>6, <2>3, <2>4, <2>5 DEF Walk, H, A
  <2> QED  BY <2>6 DEF q
<1> QED  BY <1>7, <1>8
(***************************************************************************)
(* Two walks in step.  From branches of one height they are always at the  *)
(* same height, so neither finds its block among what the other visited    *)
(* before.  From a higher branch h and a lower one l, only the walk of h   *)
(* can, and it does when it reaches the fork.                              *)
(***************************************************************************)
LEMMA LevelWalks ==
  ASSUME NEW p, Tree(p), NEW h \in Blocks, NEW l \in Blocks,
         NEW k, NEW x, NEW y, NEW vx, NEW vy,
         Walk(p, h, k, x, vx), Walk(p, l, k, y, vy), Tall(p, h) <= Tall(p, l)
  PROVE  ~ (x \in vy)
<1> SUFFICES ASSUME x \in vy PROVE FALSE
  OBVIOUS
<1>1. Tall(p, h) \in Nat /\ Tall(p, l) \in Nat /\ k \in Nat
  BY AncestorsFinite DEF Walk
<1>2. x \in AncestorsIn(p)[l] /\ Tall(p, x) > Tall(p, l) - k
  BY DEF Walk
<1>3. x \in Blocks /\ x \in Nat /\ Tall(p, x) \in Nat
  BY <1>2, AncestorsBelow, AncestorsFinite, TreeParent
<1>4. k <= Tall(p, h) /\ Tall(p, x) = Tall(p, h) - k
  BY <1>1, <1>3 DEF Walk
<1> QED  BY <1>1, <1>2, <1>3, <1>4

LEMMA HigherWalk ==
  ASSUME NEW p, Tree(p), NEW h \in Blocks, NEW l \in Blocks,
         NEW k, NEW x, NEW y, NEW vx, NEW vy,
         Walk(p, h, k, x, vx), Walk(p, l, k, y, vy), Tall(p, h) > Tall(p, l),
         k <= Tall(p, h) - Tall(p, Fork(p, h, l))
  PROVE  /\ x \in vy => x = Fork(p, h, l) /\ k = Tall(p, h) - Tall(p, Fork(p, h, l))
         /\ k = Tall(p, h) - Tall(p, Fork(p, h, l)) => x \in vy
<1> DEFINE f == Fork(p, h, l)
           H == Tall(p, h)
           L == Tall(p, l)
           F == Tall(p, f)
<1>1. H \in Nat /\ L \in Nat /\ k \in Nat
  BY AncestorsFinite DEF Walk
<1>2. /\ f \in AncestorsIn(p)[h] /\ f \in AncestorsIn(p)[l] /\ F \in Nat
      /\ \A z : z \in AncestorsIn(p)[h] /\ z \in AncestorsIn(p)[l] => Tall(p, z) <= F
  BY ForkIsCommon
<1>3. H > L /\ k <= H - F /\ k <= H
  BY <1>1, <1>2
<1>4. x \in AncestorsIn(p)[h] /\ Tall(p, x) = H - k
  BY <1>3 DEF Walk
<1>5. \A z : z \in vy <=> z \in AncestorsIn(p)[l] /\ Tall(p, z) > L - k
  BY DEF Walk
<1>6. Tall(p, x) = F => x = f
  BY <1>2, <1>4, TallOrder
<1> HIDE DEF f, H, L, F
<1>7. ASSUME x \in vy PROVE x = f /\ k = H - F
  <2>1. H - k <= F
    BY <1>2, <1>4, <1>5, <1>7
  <2>2. k = H - F /\ Tall(p, x) = F
    BY <1>1, <1>2, <1>3, <1>4, <2>1
  <2> QED  BY <1>6, <2>2
<1>8. ASSUME k = H - F PROVE x \in vy
  <2>1. Tall(p, x) = F /\ F > L - k
    BY <1>1, <1>2, <1>3, <1>4, <1>8
  <2>2. x = f /\ Tall(p, x) > L - k
    BY <1>6, <2>1
  <2> QED  BY <1>2, <1>5, <2>2
<1> QED  BY <1>7, <1>8 DEF f, H, L, F

(***************************************************************************)
(* How far the search can be after k steps without having ended.           *)
(***************************************************************************)
Unmet(p, a, b, k) ==
  /\ k <= SearchLimit
  /\ Tall(p, a) = Tall(p, b) => k <= Tall(p, a)
  /\ Tall(p, a) > Tall(p, b) => k <= Tall(p, a) - Tall(p, Fork(p, a, b))
  /\ Tall(p, b) > Tall(p, a) => k <= Tall(p, b) - Tall(p, Fork(p, a, b))

Searching(p, a, b, k, x, y, vx, vy) ==
  Walk(p, a, k, x, vx) /\ Walk(p, b, k, y, vy) /\ Unmet(p, a, b, k)

Outcome(p, a, b, k) ==
  IF k <= SearchLimit /\ k <= Tall(p, a) + 1 /\ k <= Tall(p, b) + 1 THEN Fork(p, a, b) ELSE -1

Answer(p, a, b) ==
  IF Tall(p, a) = Tall(p, b)
  THEN IF Tall(p, a) <= SearchLimit THEN 0 ELSE -1
  ELSE IF Tall(p, a) > Tall(p, b)
  THEN Outcome(p, a, b, Tall(p, a) - Tall(p, Fork(p, a, b)))
  ELSE Outcome(p, a, b, Tall(p, b) - Tall(p, Fork(p, a, b)))

LEMMA SearchTypes ==
  ASSUME NEW p, Tree(p), NEW a \in Blocks, NEW b \in Blocks
  PROVE  /\ Tall(p, a) \in Nat /\ Tall(p, b) \in Nat /\ Tall(p, Fork(p, a, b)) \in Nat
         /\ Fork(p, b, a) = Fork(p, a, b) /\ SearchLimit \in Nat
BY AncestorsFinite, ForkIsCommon, LimitsAssumption

(***************************************************************************)
(* The walks meet only where the answer is.                                *)
(***************************************************************************)
LEMMA SearchMeets ==
  ASSUME NEW p, Tree(p), NEW a \in Blocks, NEW b \in Blocks,
         NEW k, NEW x, NEW y, NEW vx, NEW vy,
         Searching(p, a, b, k, x, y, vx, vy)
  PROVE  /\ x \in vy => x = Answer(p, a, b)
         /\ y \in vx => y = Answer(p, a, b) /\ ~ (x \in vy)
         /\ ~ (x \in vy) /\ ~ (y \in vx) =>
              /\ Tall(p, a) > Tall(p, b) => k < Tall(p, a) - Tall(p, Fork(p, a, b))
              /\ Tall(p, b) > Tall(p, a) => k < Tall(p, b) - Tall(p, Fork(p, a, b))
<1> DEFINE H == Tall(p, a)
           L == Tall(p, b)
           F == Tall(p, Fork(p, a, b))
<1>1. /\ H \in Nat /\ L \in Nat /\ F \in Nat /\ Fork(p, b, a) = Fork(p, a, b)
      /\ SearchLimit \in Nat
  BY SearchTypes
<1>2. /\ k \in Nat /\ k <= H + 1 /\ k <= L + 1 /\ k <= SearchLimit
      /\ Walk(p, a, k, x, vx) /\ Walk(p, b, k, y, vy)
  BY DEF Searching, Unmet, Walk
<1>3. CASE H = L
  <2>1. ~ (x \in vy) /\ ~ (y \in vx)
    BY <1>1, <1>2, <1>3, LevelWalks
  <2> QED  BY <1>1, <1>3, <2>1
<1>4. CASE H > L
  <2>1. ~ (y \in vx)
    BY <1>1, <1>2, <1>4, LevelWalks
  <2>2. k <= H - F
    BY <1>4 DEF Searching, Unmet
  <2>3. /\ x \in vy => x = Fork(p, a, b) /\ k = H - F
        /\ k = H - F => x \in vy
    BY <1>2, <1>4, <2>2, HigherWalk
  <2>4. k = H - F => Answer(p, a, b) = Fork(p, a, b)
    BY <1>1, <1>2, <1>4 DEF Answer, Outcome
  <2> HIDE DEF H, L, F
  <2>5. ~ (x \in vy) => k < H - F
    BY <1>1, <1>2, <2>2, <2>3
  <2> QED  BY <1>1, <1>4, <2>1, <2>3, <2>4, <2>5 DEF H, L, F
<1>5. CASE L > H
  <2>1. ~ (x \in vy)
    BY <1>1, <1>2, <1>5, LevelWalks
  <2>2. k <= L - F
    BY <1>5 DEF Searching, Unmet
  <2>3. /\ y \in vx => y = Fork(p, b, a) /\ k = L - F
        /\ k = L - F => y \in vx
    BY <1>1, <1>2, <1>5, <2>2, HigherWalk
  <2>4. k = L - F => Answer(p, a, b) = Fork(p, a, b)
    BY <1>1, <1>2, <1>5 DEF Answer, Outcome
  <2> HIDE DEF H, L, F
  <2>5. ~ (y \in vx) => k < L - F
    BY <1>1, <1>2, <2>2, <2>3
  <2> QED  BY <1>1, <1>5, <2>1, <2>3, <2>4, <2>5 DEF H, L, F
<1> QED  BY <1>1, <1>3, <1>4, <1>5

(***************************************************************************)
(* A search in which the walks have not met: both at the genesis block,    *)
(* one past it, or one step further.                                       *)
(***************************************************************************)
LEMMA SearchUnmet ==
  ASSUME NEW p, Tree(p), NEW a \in Blocks, NEW b \in Blocks,
         NEW k, NEW x, NEW y, NEW vx, NEW vy,
         Searching(p, a, b, k, x, y, vx, vy), ~ (x \in vy), ~ (y \in vx)
  PROVE  /\ x = 0 /\ y = 0 => Answer(p, a, b) = 0
         /\ x = -1 \/ y = -1 => Answer(p, a, b) = -1
         /\ x # -1 /\ y # -1 /\ ~ (x = 0 /\ y = 0) =>
              /\ k = SearchLimit => Answer(p, a, b) = -1
              /\ k # SearchLimit =>
                   Searching(p, a, b, k + 1, p[x], p[y], vx \cup {x}, vy \cup {y})
<1> DEFINE H == Tall(p, a)
           L == Tall(p, b)
           F == Tall(p, Fork(p, a, b))
<1>1. H \in Nat /\ L \in Nat /\ F \in Nat /\ SearchLimit \in Nat
  BY SearchTypes
<1>2. /\ k \in Nat /\ k <= H + 1 /\ k <= L + 1 /\ k <= SearchLimit
      /\ Walk(p, a, k, x, vx) /\ Walk(p, b, k, y, vy)
  BY DEF Searching, Unmet, Walk
<1>3. /\ H > L => k < H - F
      /\ L > H => k < L - F
      /\ H = L => k <= H
  BY <1>1, SearchMeets DEF Searching, Unmet
<1>4. 0 \in Blocks /\ Tall(p, 0) = 0
  BY TallParent, TreeParent DEF Tree, Blocks
<1>5. \A z : (z \in AncestorsIn(p)[a] \/ z \in AncestorsIn(p)[b]) =>
         z \in Blocks /\ z \in Nat /\ Tall(p, z) \in Nat
  BY AncestorsBelow, AncestorsFinite, TreeParent
<1>6. /\ k <= H => x \in AncestorsIn(p)[a] /\ Tall(p, x) = H - k
      /\ k <= L => y \in AncestorsIn(p)[b] /\ Tall(p, y) = L - k
      /\ k = H + 1 => x = -1
      /\ k = L + 1 => y = -1
  BY <1>2 DEF Walk
<1>7. /\ x = -1 <=> k = H + 1
      /\ y = -1 <=> k = L + 1
  BY <1>1, <1>2, <1>5, <1>6
<1>8. /\ x = 0 <=> k = H
      /\ y = 0 <=> k = L
  <2>1. ASSUME k = H PROVE x = 0
    <3>1. x \in AncestorsIn(p)[a] /\ Tall(p, x) = 0
      BY <1>1, <1>6, <2>1
    <3>2. 0 \in AncestorsIn(p)[a]
      BY AncestorsBelow
    <3> QED  BY <1>4, <3>1, <3>2, TallOrder
  <2>2. ASSUME k = L PROVE y = 0
    <3>1. y \in AncestorsIn(p)[b] /\ Tall(p, y) = 0
      BY <1>1, <1>6, <2>2
    <3>2. 0 \in AncestorsIn(p)[b]
      BY AncestorsBelow
    <3> QED  BY <1>4, <3>1, <3>2, TallOrder
  <2>3. x = 0 => k = H
    BY <1>1, <1>2, <1>4, <1>6
  <2>4. y = 0 => k = L
    BY <1>1, <1>2, <1>4, <1>6
  <2> QED  BY <2>1, <2>2, <2>3, <2>4
<1>9. x = 0 /\ y = 0 => Answer(p, a, b) = 0
  BY <1>1, <1>2, <1>8 DEF Answer
<1>10. x = -1 \/ y = -1 => Answer(p, a, b) = -1
  BY <1>1, <1>2, <1>3, <1>7 DEF Answer, Outcome
<1>11. ASSUME x # -1, y # -1, ~ (x = 0 /\ y = 0)
       PROVE  /\ k = SearchLimit => Answer(p, a, b) = -1
              /\ k # SearchLimit =>
                   Searching(p, a, b, k + 1, p[x], p[y], vx \cup {x}, vy \cup {y})
  <2>1. k = SearchLimit => Answer(p, a, b) = -1
    BY <1>1, <1>2, <1>3, <1>8, <1>11 DEF Answer, Outcome
  <2>2. Walk(p, a, k + 1, p[x], vx \cup {x}) /\ Walk(p, b, k + 1, p[y], vy \cup {y})
    BY <1>2, <1>11, WalkSteps
  <2>3. k # SearchLimit => Unmet(p, a, b, k + 1)
    BY <1>1, <1>2, <1>3, <1>8, <1>11 DEF Unmet
  <2> QED  BY <2>1, <2>2, <2>3 DEF Searching
<1> QED  BY <1>9, <1>10, <1>11
(***************************************************************************)
(* The reference definitions of ForkResolver are the ones used above.      *)
(***************************************************************************)
LEMMA AncestorsOfIs == AncestorsOf = AncestorsIn(parent)
BY DEF AncestorsOf, AncestorsIn, Lineage, GenesisBlock

LEMMA MaxOfTwo ==
  ASSUME NEW m \in Nat, NEW n \in Nat
  PROVE  /\ Max({m, n}) = IF m > n THEN m ELSE n
         /\ Min({m, n}) = IF m > n THEN n ELSE m
BY DEF Max, Min

ReferenceAnswer == ExpectedAncestor = Answer(parent, old_head, new_head)

LEMMA AnswerIsExpected ==
  ASSUME Tree(parent), old_head \in Blocks, new_head \in Blocks
  PROVE  ReferenceAnswer
<1> DEFINE H == Tall(parent, old_head)
           L == Tall(parent, new_head)
           F == Tall(parent, Fork(parent, old_head, new_head))
<1>1. H \in Nat /\ L \in Nat /\ F \in Nat /\ SearchLimit \in Nat
  BY SearchTypes
<1>2. /\ Height(old_head) = H /\ Height(new_head) = L
      /\ LastCommonBlock = Fork(parent, old_head, new_head)
      /\ Height(LastCommonBlock) = F
  BY AncestorsOfIs
     DEF Height, LastCommonBlock, CommonBlocks, Tall, Fork
<1>3. /\ Higher = IF H > L THEN H ELSE L
      /\ Lower = IF H > L THEN L ELSE H
  <2> HIDE DEF H, L
  <2> QED  BY <1>1, <1>2, MaxOfTwo DEF Higher, Lower
<1>4. ASSUME NEW n \in Nat
      PROVE  Min({SearchLimit, n + 1}) = IF SearchLimit > n + 1 THEN n + 1 ELSE SearchLimit
  <2>1. n + 1 \in Nat
    OBVIOUS
  <2> QED  BY <1>1, <2>1, MaxOfTwo
<1>5. Min({SearchLimit, Lower + 1}) =
        IF SearchLimit > Lower + 1 THEN Lower + 1 ELSE SearchLimit
  BY <1>1, <1>3, <1>4
<1> HIDE DEF H, L, F
<1>6. CASE H = L
  <2>1. Higher = H /\ Lower = H
    BY <1>1, <1>3, <1>6
  <2> QED  BY <1>1, <1>6, <2>1
           DEF ReferenceAnswer, ExpectedAncestor, Answer, H, L, GenesisBlock, Zero
<1>7. CASE H > L
  <2>1. Higher = H /\ Lower = L
    BY <1>1, <1>3, <1>7
  <2>2. ExpectedAncestor =
          IF H - F <= Min({SearchLimit, Lower + 1}) THEN LastCommonBlock ELSE -1
    BY <1>1, <1>2, <1>7, <2>1 DEF ExpectedAncestor, Zero
  <2>3. Answer(parent, old_head, new_head) = Outcome(parent, old_head, new_head, H - F)
    BY <1>1, <1>7 DEF Answer, H, L, F
  <2>4. H - F <= Min({SearchLimit, Lower + 1})
          <=> H - F <= SearchLimit /\ H - F <= H + 1 /\ H - F <= L + 1
    BY <1>1, <1>5, <1>7, <2>1
  <2> QED  BY <1>2, <2>2, <2>3, <2>4 DEF ReferenceAnswer, Outcome, H, L
<1>8. CASE L > H
  <2>1. Higher = L /\ Lower = H
    BY <1>1, <1>3, <1>8
  <2>2. ExpectedAncestor =
          IF L - F <= Min({SearchLimit, Lower + 1}) THEN LastCommonBlock ELSE -1
    BY <1>1, <1>2, <1>8, <2>1 DEF ExpectedAncestor, Zero
  <2>3. Answer(parent, old_head, new_head) = Outcome(parent, old_head, new_head, L - F)
    BY <1>1, <1>8 DEF Answer, H, L, F
  <2>4. L - F <= Min({SearchLimit, Lower + 1})
          <=> L - F <= SearchLimit /\ L - F <= H + 1 /\ L - F <= L + 1
    BY <1>1, <1>5, <1>8, <2>1
  <2> QED  BY <1>2, <2>2, <2>3, <2>4 DEF ReferenceAnswer, Outcome, H, L
<1> QED  BY <1>1, <1>6, <1>7, <1>8

(***************************************************************************)
(* The inductive invariant: the search that is going on has taken some k   *)
(* steps in the way above; one that has ended returned the answer.         *)
(***************************************************************************)
SearchInv ==
  /\ Tree(parent) /\ old_head \in Blocks /\ new_head \in Blocks
  /\ phase = "search" =>
       \E k \in Nat : Searching(parent, old_head, new_head, k,
                                current_a, current_b, visited_a, visited_b)
  /\ phase = "no_ancestor" => Answer(parent, old_head, new_head) = -1
  /\ phase \in {"revert", "apply", "done", "too_deep"} =>
       common_ancestor = Answer(parent, old_head, new_head) /\ common_ancestor # -1

LEMMA SearchInvSearch ==
  ASSUME SearchInv,
         \/ SearchSeen \/ SearchGenesis
         \/ SearchPastGenesis \/ SearchParents
  PROVE  SearchInv'
<1> USE DEF input, GenesisBlock, Zero
<1>1. phase = "search" /\ UNCHANGED <<parent, old_head, new_head>>
  BY DEF SearchSeen, SearchGenesis, SearchPastGenesis,
         SearchParents, Found, NotFound
<1>2. PICK k \in Nat : Searching(parent, old_head, new_head, k,
                                 current_a, current_b, visited_a, visited_b)
  BY <1>1 DEF SearchInv
<1>3. Tree(parent) /\ old_head \in Blocks /\ new_head \in Blocks
  BY DEF SearchInv
<1>4. (Tree(parent) /\ old_head \in Blocks /\ new_head \in Blocks)'
  BY <1>1, <1>3 DEF Tree, Trees, Blocks
<1> DEFINE ans == Answer(parent, old_head, new_head)
<1>5. /\ current_a \in visited_b => current_a = ans /\ current_a # -1
      /\ current_b \in visited_a => current_b = ans /\ current_b # -1
  <2>1. Walk(parent, old_head, k, current_a, visited_a) /\ Walk(parent, new_head, k, current_b, visited_b)
    BY <1>2 DEF Searching
  <2>2. \A x : x \in visited_a \/ x \in visited_b => x \in Nat
    BY <1>3, <2>1, AncestorsBelow, TreeParent DEF Walk
  <2> QED  BY <1>2, <1>3, <2>2, SearchMeets
<1>6. CASE SearchSeen
  <2>1. phase' = "revert" /\ common_ancestor' = ans /\ common_ancestor' # -1
    BY <1>5, <1>6 DEF SearchSeen, Seen, Found
  <2> QED  BY <1>1, <1>4, <2>1 DEF SearchInv
<1>7. ASSUME ~ Seen
      PROVE  /\ current_a = 0 /\ current_b = 0 => ans = 0
             /\ current_a = -1 \/ current_b = -1 => ans = -1
             /\ current_a # -1 /\ current_b # -1 /\ ~ (current_a = 0 /\ current_b = 0) =>
                  /\ k = SearchLimit => ans = -1
                  /\ k # SearchLimit =>
                       Searching(parent, old_head, new_head, k + 1,
                                 parent[current_a], parent[current_b],
                                 visited_a \cup {current_a}, visited_b \cup {current_b})
  BY <1>2, <1>3, <1>7, SearchUnmet DEF Seen
<1>8. CASE SearchGenesis
  <2>1. phase' = "revert" /\ common_ancestor' = ans /\ common_ancestor' # -1
    BY <1>7, <1>8 DEF SearchGenesis, Found
  <2> QED  BY <1>1, <1>4, <2>1 DEF SearchInv
<1>9. CASE SearchPastGenesis
  <2>1. phase' = "no_ancestor" /\ ans = -1
    BY <1>7, <1>9 DEF SearchPastGenesis, NotFound
  <2> QED  BY <1>1, <1>4, <2>1 DEF SearchInv
<1>10. CASE SearchParents
  <2>1. /\ k = SearchLimit => ans = -1
        /\ k # SearchLimit =>
             Searching(parent, old_head, new_head, k + 1,
                       parent[current_a], parent[current_b],
                       visited_a \cup {current_a}, visited_b \cup {current_b})
    BY <1>7, <1>10 DEF SearchParents
  <2>2. /\ visited_a' = visited_a \cup {current_a} /\ visited_b' = visited_b \cup {current_b}
        /\ current_a' = parent[current_a] /\ current_b' = parent[current_b]
        /\ phase' = IF Cardinality(visited_a') > SearchLimit \/ Cardinality(visited_b') > SearchLimit
                    THEN "no_ancestor" ELSE "search"
    BY <1>10 DEF SearchParents, ParentHash
  <2>3. /\ Walk(parent, old_head, k + 1, parent[current_a], visited_a \cup {current_a})
        /\ Walk(parent, new_head, k + 1, parent[current_b], visited_b \cup {current_b})
    <3>1. current_a # -1 /\ current_b # -1
      BY <1>10 DEF SearchParents
    <3> QED  BY <1>2, <1>3, <3>1, WalkSteps DEF Searching
  <2>4. Cardinality(visited_a') = k + 1 /\ Cardinality(visited_b') = k + 1
    BY <2>2, <2>3 DEF Walk
  <2>5. k <= SearchLimit /\ SearchLimit \in Nat
    BY <1>2, LimitsAssumption DEF Searching, Unmet
  <2>6. /\ k = SearchLimit => phase' = "no_ancestor"
        /\ k # SearchLimit => phase' = "search"
    BY <2>2, <2>4, <2>5
  <2>7. CASE k = SearchLimit
    BY <1>1, <1>4, <2>1, <2>6, <2>7 DEF SearchInv
  <2>8. CASE k # SearchLimit
    <3>1. Searching(parent, old_head, new_head, k + 1, current_a, current_b, visited_a, visited_b)'
      BY <1>1, <2>1, <2>2, <2>8 DEF Searching, Walk, Unmet
    <3>2. k + 1 \in Nat
      OBVIOUS
    <3> HIDE DEF GenesisBlock, Zero
    <3> QED  BY <1>4, <2>6, <2>8, <3>1, <3>2 DEF SearchInv
  <2> QED  BY <2>7, <2>8
<1> QED  BY <1>6, <1>8, <1>9, <1>10

LEMMA SearchInvNext == SearchInv /\ [ResolverNext]_resolver_vars => SearchInv'
<1> SUFFICES ASSUME SearchInv, [ResolverNext]_resolver_vars
             PROVE  SearchInv'
  OBVIOUS
<1>1. ASSUME UNCHANGED <<parent, old_head, new_head>>
      PROVE  /\ (Tree(parent) /\ old_head \in Blocks /\ new_head \in Blocks)'
             /\ Answer(parent, old_head, new_head)' = Answer(parent, old_head, new_head)
  BY <1>1 DEF SearchInv, Tree, Trees, Blocks
<1>2. CASE UNCHANGED resolver_vars
  <2>1. UNCHANGED <<parent, old_head, new_head, phase, current_a, current_b, visited_a, visited_b,
                    common_ancestor>>
    BY <1>2 DEF resolver_vars, input
  <2> QED  BY <1>1, <2>1 DEF SearchInv
<1>3. CASE Revert
  <2>1. /\ phase = "revert" /\ phase' \in {"apply", "block_missing", "too_deep", "revert"}
        /\ UNCHANGED <<parent, old_head, new_head, common_ancestor>>
    BY <1>3 DEF Revert, input
  <2> QED  BY <1>1, <2>1 DEF SearchInv
<1>4. CASE Apply
  <2>1. /\ phase = "apply" /\ phase' \in {"done", "block_missing", "apply"}
        /\ UNCHANGED <<parent, old_head, new_head, common_ancestor>>
    BY <1>4 DEF Apply, input
  <2> QED  BY <1>1, <2>1 DEF SearchInv
<1> QED  BY <1>2, <1>3, <1>4, SearchInvSearch DEF ResolverNext

LEMMA SearchInvInit == HighestHash \in Nat /\ ResolverInit => SearchInv
<1> SUFFICES ASSUME HighestHash \in Nat, ResolverInit PROVE SearchInv
  OBVIOUS
<1>1. /\ Tree(parent) /\ old_head \in Blocks /\ new_head \in Blocks
      /\ phase = "search" /\ current_a = old_head /\ current_b = new_head
      /\ visited_a = {} /\ visited_b = {}
  BY DEF ResolverInit, Tree
<1>2. Walk(parent, old_head, 0, current_a, visited_a) /\ Walk(parent, new_head, 0, current_b, visited_b)
  BY <1>1, WalkStarts
<1> DEFINE H == Tall(parent, old_head)
           L == Tall(parent, new_head)
           F == Tall(parent, Fork(parent, old_head, new_head))
<1>3. H \in Nat /\ L \in Nat /\ F \in Nat /\ SearchLimit \in Nat
  BY <1>1, SearchTypes
<1>4. /\ Fork(parent, old_head, new_head) \in AncestorsIn(parent)[old_head]
      /\ Fork(parent, old_head, new_head) \in AncestorsIn(parent)[new_head]
  BY <1>1, ForkIsCommon
<1>5. F <= H /\ F <= L
  BY <1>1, <1>2, <1>3, <1>4 DEF Walk
<1>6. Unmet(parent, old_head, new_head, 0)
  BY <1>3, <1>5 DEF Unmet
<1> QED  BY <1>1, <1>2, <1>6 DEF SearchInv, Searching

(***************************************************************************)
(* find_common_ancestor, for every tree of blocks, every two heads and     *)
(* every limit: the fork point when the branches have different heights    *)
(* and the lower walk does not end too early, the genesis block when they  *)
(* have the same height, and nothing otherwise.  This is the answer that   *)
(* the engine of module Consensus computes with.                           *)
(***************************************************************************)
THEOREM AncestorAlwaysExact == ResolverSpec => []AncestorExact
<1>1. SearchInv => AncestorExact
  <2> SUFFICES ASSUME SearchInv PROVE AncestorExact
    OBVIOUS
  <2>1. ExpectedAncestor = Answer(parent, old_head, new_head)
    BY AnswerIsExpected DEF SearchInv, ReferenceAnswer
  <2> QED  BY <2>1 DEF SearchInv, AncestorExact, Zero
<1> QED  BY <1>1, SearchInvInit, SearchInvNext, ForkAssumption, PTL DEF ResolverSpec
-----------------------------------------------------------------------------
(***************************************************************************)
(* The path builder's walks have the ancestor still before them.           *)
(***************************************************************************)
AncestorAhead ==
  /\ phase = "revert" =>
       current_a \in Blocks /\ common_ancestor \in AncestorsIn(parent)[current_a]
  /\ phase \in {"revert", "apply"} =>
       current_b \in Blocks /\ common_ancestor \in AncestorsIn(parent)[current_b]

LEMMA AnswerIsCommon ==
  ASSUME NEW p, Tree(p), NEW a \in Blocks, NEW b \in Blocks, Answer(p, a, b) # -1
  PROVE  /\ Answer(p, a, b) \in AncestorsIn(p)[a] /\ Answer(p, a, b) \in AncestorsIn(p)[b]
         /\ Answer(p, a, b) \in Blocks
<1>1. Answer(p, a, b) \in {0, Fork(p, a, b)}
  BY DEF Answer, Outcome
<1>2. Answer(p, a, b) \in AncestorsIn(p)[a] /\ Answer(p, a, b) \in AncestorsIn(p)[b]
  BY <1>1, AncestorsBelow, ForkIsCommon
<1> QED  BY <1>2, AncestorsBelow

LEMMA WalkOn ==
  ASSUME NEW p, Tree(p), NEW h \in Blocks, NEW x \in AncestorsIn(p)[h], x # h
  PROVE  p[h] \in Blocks /\ x \in AncestorsIn(p)[p[h]]
<1>1. h # 0
  BY AncestorsOfBlock
<1> QED  BY <1>1, AncestorsOfBlock, TreeParent

LEMMA AheadNext ==
  ASSUME SearchInv, SearchInv', ResolverTypeOK, AncestorAhead, [ResolverNext]_resolver_vars
  PROVE  ResolverTypeOK' /\ AncestorAhead'
<1>1. /\ Tree(parent) /\ old_head \in Blocks /\ new_head \in Blocks
      /\ current_a \in Blocks \cup {-1} /\ current_b \in Blocks \cup {-1}
      /\ visited_a \subseteq Blocks /\ visited_b \subseteq Blocks
      /\ revert_blocks \in Seq(Blocks) /\ apply_blocks \in Seq(Blocks)
      /\ common_ancestor \in Blocks \cup {-1} /\ parent \in Trees
  BY DEF SearchInv, ResolverTypeOK, Zero
<1>2. \A h \in Blocks : parent[h] \in Blocks \cup {-1}
  BY <1>1, TreeParent
<1>3. CASE UNCHANGED resolver_vars
  <2>1. UNCHANGED <<parent, old_head, new_head, phase, current_a, current_b, visited_a, visited_b,
                    common_ancestor, revert_blocks, apply_blocks>>
    BY <1>3 DEF resolver_vars, input
  <2>2. ResolverTypeOK'
    BY <2>1 DEF ResolverTypeOK, Trees, Blocks
  <2>3. AncestorAhead'
    BY <2>1 DEF AncestorAhead, Blocks
  <2> QED  BY <2>2, <2>3
<1>4. ASSUME SearchSeen \/ SearchGenesis
      PROVE  ResolverTypeOK' /\ AncestorAhead'
  <2>1. /\ phase' = "revert" /\ current_a' = old_head /\ current_b' = new_head
        /\ UNCHANGED <<parent, old_head, new_head, visited_a, visited_b, revert_blocks, apply_blocks>>
    BY <1>4 DEF SearchSeen, SearchGenesis, Found, input
  <2>2. common_ancestor' = Answer(parent, old_head, new_head) /\ common_ancestor' # -1
    BY <2>1 DEF SearchInv
  <2>3. /\ common_ancestor' \in AncestorsIn(parent)[old_head]
        /\ common_ancestor' \in AncestorsIn(parent)[new_head]
        /\ common_ancestor' \in Blocks
    BY <1>1, <2>2, AnswerIsCommon
  <2>4. ResolverTypeOK'
    BY <1>1, <2>1, <2>3 DEF ResolverTypeOK
  <2>5. AncestorAhead'
    BY <1>1, <2>1, <2>3 DEF AncestorAhead
  <2> QED  BY <2>4, <2>5
<1>5. CASE SearchPastGenesis
  <2>1. /\ phase' = "no_ancestor"
        /\ UNCHANGED <<parent, old_head, new_head, current_a, current_b, visited_a, visited_b,
                       common_ancestor, revert_blocks, apply_blocks>>
    BY <1>5 DEF SearchPastGenesis, NotFound, input
  <2>2. ResolverTypeOK'
    BY <2>1 DEF ResolverTypeOK
  <2> QED  BY <2>1, <2>2 DEF AncestorAhead
<1>6. CASE SearchParents
  <2>1. /\ phase' \in {"no_ancestor", "search"}
        /\ current_a \in Blocks /\ current_b \in Blocks
        /\ current_a' = parent[current_a] /\ current_b' = parent[current_b]
        /\ visited_a' = visited_a \cup {current_a} /\ visited_b' = visited_b \cup {current_b}
        /\ UNCHANGED <<parent, old_head, new_head, common_ancestor, revert_blocks, apply_blocks>>
    BY <1>1, <1>6 DEF SearchParents, ParentHash, Zero, input
  <2>2. ResolverTypeOK'
    BY <1>1, <1>2, <2>1 DEF ResolverTypeOK, Zero
  <2> QED  BY <2>1, <2>2 DEF AncestorAhead
<1>7. CASE Revert
  <2>1. /\ phase = "revert" /\ current_a # -1
        /\ common_ancestor \in AncestorsIn(parent)[current_a] /\ current_a \in Blocks
        /\ current_b \in Blocks /\ common_ancestor \in AncestorsIn(parent)[current_b]
        /\ UNCHANGED <<parent, old_head, new_head, current_b, visited_a, visited_b,
                       common_ancestor, apply_blocks>>
    <3>1. /\ phase = "revert"
          /\ UNCHANGED <<parent, old_head, new_head, current_b, visited_a, visited_b,
                         common_ancestor, apply_blocks>>
      BY <1>7 DEF Revert, input
    <3>2. /\ common_ancestor \in AncestorsIn(parent)[current_a] /\ current_a \in Blocks
          /\ current_b \in Blocks /\ common_ancestor \in AncestorsIn(parent)[current_b]
      BY <3>1 DEF AncestorAhead
    <3>3. current_a # -1
      BY <1>1, <3>2, TreeParent
    <3> QED  BY <3>1, <3>2, <3>3
  <2>2. CASE current_a = common_ancestor
    <3>1. phase' = "apply" /\ UNCHANGED <<current_a, revert_blocks>>
      BY <1>7, <2>2 DEF Revert
    <3>2. ResolverTypeOK'
      BY <2>1, <3>1 DEF ResolverTypeOK
    <3> QED  BY <2>1, <3>1, <3>2 DEF AncestorAhead
  <2>3. CASE current_a # common_ancestor
    <3>1. /\ phase' \in {"too_deep", "revert"} /\ current_a' = parent[current_a]
          /\ revert_blocks' = Append(revert_blocks, current_a)
      BY <1>7, <2>1, <2>3 DEF Revert, ParentHash, Zero
    <3>2. parent[current_a] \in Blocks /\ common_ancestor \in AncestorsIn(parent)[parent[current_a]]
      BY <1>1, <2>1, <2>3, WalkOn
    <3>3. ResolverTypeOK'
      BY <1>1, <2>1, <3>1, <3>2 DEF ResolverTypeOK
    <3> QED  BY <2>1, <3>1, <3>2, <3>3 DEF AncestorAhead
  <2> QED  BY <2>2, <2>3
<1>8. CASE Apply
  <2>1. /\ phase = "apply" /\ current_b # -1
        /\ current_b \in Blocks /\ common_ancestor \in AncestorsIn(parent)[current_b]
        /\ UNCHANGED <<parent, old_head, new_head, current_a, visited_a, visited_b,
                       common_ancestor, revert_blocks>>
    <3>1. /\ phase = "apply"
          /\ UNCHANGED <<parent, old_head, new_head, current_a, visited_a, visited_b,
                         common_ancestor, revert_blocks>>
      BY <1>8 DEF Apply, input
    <3>2. current_b \in Blocks /\ common_ancestor \in AncestorsIn(parent)[current_b]
      BY <3>1 DEF AncestorAhead
    <3>3. current_b # -1
      BY <1>1, <3>2, TreeParent
    <3> QED  BY <3>1, <3>2, <3>3
  <2>2. CASE current_b = common_ancestor
    <3>1. phase' = "done" /\ UNCHANGED <<current_b, apply_blocks>>
      BY <1>8, <2>2 DEF Apply, AncestorReached
    <3>2. ResolverTypeOK'
      BY <2>1, <3>1 DEF ResolverTypeOK
    <3> QED  BY <2>1, <3>1, <3>2 DEF AncestorAhead
  <2>3. CASE current_b # common_ancestor
    <3>1. /\ phase' = "apply" /\ current_b' = parent[current_b]
          /\ apply_blocks' = <<current_b>> \o apply_blocks
      BY <1>8, <2>1, <2>3 DEF Apply, AncestorReached, ParentHash, Zero
    <3>2. parent[current_b] \in Blocks /\ common_ancestor \in AncestorsIn(parent)[parent[current_b]]
      BY <1>1, <2>1, <2>3, WalkOn
    <3>3. apply_blocks' \in Seq(Blocks)
      BY <1>1, <2>1, <3>1
    <3>4. ResolverTypeOK'
      BY <1>1, <2>1, <3>1, <3>2, <3>3 DEF ResolverTypeOK
    <3> QED  BY <2>1, <3>1, <3>2, <3>4 DEF AncestorAhead
  <2> QED  BY <2>2, <2>3
<1> QED  BY <1>3, <1>4, <1>5, <1>6, <1>7, <1>8 DEF ResolverNext

(***************************************************************************)
(* The resolver keeps its types, and among its phases is no                *)
(* "block_missing": whatever ancestor the search finds, both walks of      *)
(* calculate_reorg_path come to it, so the error BlockNotFound of its two  *)
(* loops is never returned for heads and parents that are stored.          *)
(***************************************************************************)
THEOREM ResolverTypeCorrect == ResolverSpec => []ResolverTypeOK
<1>1. ResolverInit => ResolverTypeOK /\ AncestorAhead
  BY DEF ResolverInit, ResolverTypeOK, AncestorAhead
<1>2. SearchInv /\ SearchInv' /\ ResolverTypeOK /\ AncestorAhead /\ [ResolverNext]_resolver_vars
        => ResolverTypeOK' /\ AncestorAhead'
  BY AheadNext
<1> QED  BY <1>1, <1>2, SearchInvInit, SearchInvNext, ForkAssumption, PTL DEF ResolverSpec
-----------------------------------------------------------------------------
(***************************************************************************)
(* The two modules together.  When the engine's tree is the resolver's,    *)
(* the set that FindCommonAncestor yields for the two heads holds what the *)
(* resolver's search found, and is empty when the search found nothing.    *)
(***************************************************************************)
SameTree ==
  /\ Hash = Blocks /\ Genesis = GenesisBlock
  /\ \A h \in Hash : Ancestors[h] = AncestorsOf[h] /\ Number[h] = Height(h)

EngineAgrees ==
  SameTree =>
    /\ phase = "no_ancestor" => FindCommonAncestor(old_head, new_head) = {}
    /\ phase \in {"revert", "apply", "done", "too_deep"} =>
         FindCommonAncestor(old_head, new_head) = {common_ancestor}

LEMMA EngineAnswer ==
  ASSUME NEW p, Tree(p), Hash = Blocks, Genesis = 0,
         \A h \in Hash : Ancestors[h] = AncestorsIn(p)[h] /\ Number[h] = Tall(p, h),
         NEW a \in Hash, NEW b \in Hash
  PROVE  /\ Answer(p, a, b) = -1 => FindCommonAncestor(a, b) = {}
         /\ Answer(p, a, b) # -1 => FindCommonAncestor(a, b) = {Answer(p, a, b)}
<1> DEFINE H == Tall(p, a)
           L == Tall(p, b)
           f == Fork(p, a, b)
           F == Tall(p, f)
<1>1. H \in Nat /\ L \in Nat /\ F \in Nat /\ SearchLimit \in Nat
  BY SearchTypes
<1>2. /\ f \in AncestorsIn(p)[a] /\ f \in AncestorsIn(p)[b]
      /\ \A x : x \in AncestorsIn(p)[a] /\ x \in AncestorsIn(p)[b] => Tall(p, x) <= F
  BY ForkIsCommon
<1>3. \A x \in AncestorsIn(p)[a] : x \in Hash /\ Number[x] = Tall(p, x) /\ Tall(p, x) \in Nat
  BY AncestorsBelow, AncestorsFinite
<1>4. Common(a, b) = AncestorsIn(p)[a] \cap AncestorsIn(p)[b]
  BY DEF Common
<1>5. ForkPoint(a, b) = f
  <2> DEFINE g == ForkPoint(a, b)
  <2>1. \E x \in Common(a, b) : \A e \in Common(a, b) : Number[e] <= Number[x]
    BY <1>2, <1>3, <1>4
  <2>2. g \in Common(a, b) /\ \A e \in Common(a, b) : Number[e] <= Number[g]
    BY <2>1 DEF ForkPoint
  <2>3. g \in AncestorsIn(p)[a] /\ F <= Tall(p, g) /\ Tall(p, g) <= F /\ Tall(p, g) \in Nat
    BY <1>2, <1>3, <1>4, <2>2
  <2>4. Tall(p, g) = F
    BY <1>1, <2>3
  <2> HIDE DEF g, f
  <2>5. g = f
    BY <1>2, <2>3, <2>4, TallOrder DEF F
  <2> QED  BY <2>5 DEF g
<1>6. Number[a] = H /\ Number[b] = L /\ Number[f] = F
  BY <1>2, <1>3
<1>7. /\ Max({H, L}) = IF H > L THEN H ELSE L
      /\ Min({H, L}) = IF H > L THEN L ELSE H
  <2> HIDE DEF H, L
  <2> QED  BY <1>1, MaxOfTwo
<1>8. ASSUME NEW n \in Nat
      PROVE  Min({SearchLimit, n + 1}) = IF SearchLimit > n + 1 THEN n + 1 ELSE SearchLimit
  <2>1. n + 1 \in Nat
    OBVIOUS
  <2> QED  BY <1>1, <2>1, MaxOfTwo
<1>9. f # -1
  BY <1>2, AncestorsBelow, TreeParent
<1> HIDE DEF H, L, F, f
<1>10. CASE H = L
  <2>1. Max({Number[a], Number[b]}) = H /\ Min({Number[a], Number[b]}) = H
    BY <1>1, <1>6, <1>7, <1>10
  <2>2. FindCommonAncestor(a, b) = IF H <= SearchLimit THEN {0} ELSE {}
    BY <2>1 DEF FindCommonAncestor
  <2>3. Answer(p, a, b) = IF H <= SearchLimit THEN 0 ELSE -1
    BY <1>10 DEF Answer, H, L
  <2> QED  BY <2>2, <2>3
<1>11. CASE H > L
  <2>1. Max({Number[a], Number[b]}) = H /\ Min({Number[a], Number[b]}) = L /\ H # L
    BY <1>1, <1>6, <1>7, <1>11
  <2>2. FindCommonAncestor(a, b) = IF H - F <= Min({SearchLimit, L + 1}) THEN {f} ELSE {}
    BY <1>5, <1>6, <2>1 DEF FindCommonAncestor
  <2>3. Answer(p, a, b) = Outcome(p, a, b, H - F)
    BY <1>1, <1>11 DEF Answer, H, L, F, f
  <2>4. H - F <= Min({SearchLimit, L + 1})
          <=> H - F <= SearchLimit /\ H - F <= H + 1 /\ H - F <= L + 1
    BY <1>1, <1>8, <1>11
  <2>5. Answer(p, a, b) = IF H - F <= Min({SearchLimit, L + 1}) THEN f ELSE -1
    BY <2>3, <2>4 DEF Outcome, H, L, f
  <2> QED  BY <1>9, <2>2, <2>5
<1>12. CASE L > H
  <2>1. Max({Number[a], Number[b]}) = L /\ Min({Number[a], Number[b]}) = H /\ H # L
    BY <1>1, <1>6, <1>7, <1>12
  <2>2. FindCommonAncestor(a, b) = IF L - F <= Min({SearchLimit, H + 1}) THEN {f} ELSE {}
    BY <1>5, <1>6, <2>1 DEF FindCommonAncestor
  <2>3. Answer(p, a, b) = Outcome(p, a, b, L - F)
    BY <1>1, <1>12 DEF Answer, H, L, F, f
  <2>4. L - F <= Min({SearchLimit, H + 1})
          <=> L - F <= SearchLimit /\ L - F <= H + 1 /\ L - F <= L + 1
    BY <1>1, <1>8, <1>12
  <2>5. Answer(p, a, b) = IF L - F <= Min({SearchLimit, H + 1}) THEN f ELSE -1
    BY <2>3, <2>4 DEF Outcome, H, L, f
  <2> QED  BY <1>9, <2>2, <2>5
<1> QED  BY <1>1, <1>10, <1>11, <1>12

(***************************************************************************)
(* The engine computes with the ancestor that the resolver finds: the one  *)
(* definition that module Consensus uses in place of the two walks is      *)
(* their result, for every tree, every two heads and every limit.          *)
(***************************************************************************)
THEOREM EngineAlwaysAgrees == ResolverSpec => []EngineAgrees
<1>1. SearchInv => EngineAgrees
  <2> SUFFICES ASSUME SearchInv, SameTree
               PROVE  /\ phase = "no_ancestor" => FindCommonAncestor(old_head, new_head) = {}
                      /\ phase \in {"revert", "apply", "done", "too_deep"} =>
                           FindCommonAncestor(old_head, new_head) = {common_ancestor}
    BY DEF EngineAgrees
  <2>1. /\ Tree(parent) /\ Hash = Blocks /\ Genesis = 0
        /\ old_head \in Hash /\ new_head \in Hash
    BY DEF SearchInv, SameTree, GenesisBlock
  <2>2. \A h \in Hash : Ancestors[h] = AncestorsIn(parent)[h] /\ Number[h] = Tall(parent, h)
    BY AncestorsOfIs DEF SameTree, Height, Tall
  <2> DEFINE ans == Answer(parent, old_head, new_head)
  <2>3. /\ ans = -1 => FindCommonAncestor(old_head, new_head) = {}
        /\ ans # -1 => FindCommonAncestor(old_head, new_head) = {ans}
    BY <2>1, <2>2, EngineAnswer
  <2>4. phase \in {"revert", "apply", "done", "too_deep"} => common_ancestor # -1
    BY DEF SearchInv
  <2> QED  BY <2>3, <2>4 DEF SearchInv
<1> QED  BY <1>1, SearchInvInit, SearchInvNext, ForkAssumption, PTL DEF ResolverSpec
=============================================================================
