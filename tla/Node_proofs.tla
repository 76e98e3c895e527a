---------------------------- MODULE Node_proofs -----------------------------
(***************************************************************************)
(* Proofs about the node: what it tells its clients is stored survives,    *)
(* the fork history keeps what matters, the pool is never ahead of the     *)
(* chain, and block production selects greedily, for any transactions, any *)
(* number of clients, any limits and any clock.                            *)
(***************************************************************************)
EXTENDS Node, Sums_proofs

(***************************************************************************)
(* Acknowledged transactions.  The entry of an acknowledged transaction is *)
(* at least as young as its acknowledgement: the persistence task may only *)
(* have refreshed it, and a clear takes both.                              *)
(***************************************************************************)
AckInv ==
  /\ now \in Nat
  /\ DOMAIN acked = Tx /\ DOMAIN pending = Tx
  /\ \A tx \in Tx : pending[tx] # None => pending[tx] \in Nat
  /\ \A tx \in Tx : acked[tx] # None =>
        acked[tx] \in Nat /\ pending[tx] # None /\ acked[tx] <= pending[tx]
                          /\ pending[tx] <= now

LEMMA StoredAcked ==
  ASSUME AckInv, NEW S, StorePendingTransactions(S), now' = now,
         acked' = acked \/ \E tx \in S : acked' = [acked EXCEPT ![tx] = now]
  PROVE  AckInv'
<1>1. \A tx \in Tx : pending'[tx] = IF tx \in S THEN now ELSE pending[tx]
  BY DEF StorePendingTransactions
<1>2. DOMAIN pending' = Tx /\ DOMAIN acked' = Tx
  BY DEF StorePendingTransactions, AckInv
<1>3. now \in Nat /\ now # None
  BY NodeAssumption DEF AckInv
<1>4. \A tx \in Tx : acked'[tx] = acked[tx] \/ (tx \in S /\ acked'[tx] = now)
  BY DEF AckInv
<1>5. ASSUME NEW tx \in Tx, acked'[tx] # None
      PROVE  acked'[tx] \in Nat /\ pending'[tx] # None /\ acked'[tx] <= pending'[tx]
             /\ pending'[tx] <= now
  <2>1. CASE acked'[tx] = now /\ tx \in S
    BY <1>1, <1>3, <2>1
  <2>2. CASE acked'[tx] = acked[tx]
    BY <1>1, <1>3, <1>5, <2>2 DEF AckInv
  <2> QED  BY <1>4, <2>1, <2>2
<1>6. ASSUME NEW tx \in Tx, pending'[tx] # None
      PROVE  pending'[tx] \in Nat
  BY <1>1, <1>3, <1>6 DEF AckInv
<1> QED  BY <1>2, <1>3, <1>5, <1>6 DEF AckInv

LEMMA AckInvNext == AckInv /\ [Next]_vars => AckInv'
<1> SUFFICES ASSUME AckInv, [Next]_vars PROVE AckInv'
  OBVIOUS
<1>1. CASE UNCHANGED <<pending, acked, now>>
  BY <1>1 DEF AckInv
<1>2. CASE PersistStores
  BY <1>2, StoredAcked DEF PersistStores
<1>3. ASSUME NEW tx \in Raw, SendRawTransaction(tx) PROVE AckInv'
  <2>1. tx \in {tx}
    OBVIOUS
  <2> QED  BY <1>3, <2>1, StoredAcked DEF SendRawTransaction
<1>4. CASE ClearPendingTransactions
  <2>1. \A tx \in Tx : /\ pending'[tx] = IF tx \in clearing THEN None ELSE pending[tx]
                       /\ acked'[tx] = IF tx \in clearing THEN None ELSE acked[tx]
    BY <1>4 DEF ClearPendingTransactions
  <2>2. DOMAIN pending' = Tx /\ DOMAIN acked' = Tx /\ now' = now
    BY <1>4 DEF ClearPendingTransactions
  <2> QED  BY <2>1, <2>2 DEF AckInv
<1>5. CASE Tick
  BY <1>5 DEF Tick, storeVars, AckInv
<1>6. CASE Crash
  BY <1>1, <1>6 DEF Crash
<1>7. CASE PoolStep
  <2>1. ASSUME NEW c \in Client, NEW tx \in Tx, SubmitReads(c, tx) PROVE AckInv'
    BY <1>1, <2>1 DEF SubmitReads, storeVars
  <2>2. ASSUME NEW c \in Client, SubmitAdds(c) PROVE AckInv'
    BY <1>1, <2>2 DEF SubmitAdds, storeVars
  <2> QED  BY <1>7, <2>1, <2>2 DEF PoolStep
<1>8. CASE ProductionStep
  <2>1. CASE ProduceSelects \/ ProduceBuilds
    BY <1>1, <2>1 DEF ProduceSelects, ProduceBuilds, storeVars
  <2>2. CASE ApplyProposal \/ \E tx \in Tx : ApplyForeign(tx)
    BY <1>1, <2>2 DEF ApplyProposal, ApplyForeign, BlockApplied, storeVars
  <2> QED  BY <1>8, <2>1, <2>2 DEF ProductionStep
<1>9. CASE PersistTask
  <2>1. CASE PersistReads
    BY <1>1, <2>1 DEF PersistReads, storeVars
  <2> QED  BY <1>2, <1>9, <2>1 DEF PersistTask
<1>10. CASE PersistenceStep
  <2>1. CASE PruneTask \/ PersistFails \/ UpdatePoolConfig
    BY <1>1, <2>1 DEF PruneTask, PersistFails, UpdatePoolConfig, storeVars
  <2>2. CASE ClearScans
    BY <1>1, <2>2 DEF ClearScans
  <2> QED  BY <1>3, <1>4, <1>10, <2>1, <2>2 DEF PersistenceStep
<1>11. CASE ForkStep
  BY <1>1, <1>11 DEF ForkStep, storeVars
<1>12. CASE UNCHANGED vars
  BY <1>1, <1>12 DEF vars, storeVars
<1> QED  BY <1>5, <1>6, <1>7, <1>8, <1>9, <1>10, <1>11, <1>12 DEF Next

(***************************************************************************)
(* What kai_sendRawTransaction has acknowledged is loaded again after any  *)
(* crash, whatever is persisted meanwhile, until it is cleared or too old  *)
(* (methods.rs, db.rs), for every retention.                               *)
(***************************************************************************)
THEOREM AcknowledgedAlwaysSurvives == Spec => []AcknowledgedSurvives
<1>1. Init => AckInv
  BY DEF Init, AckInv
<1>2. AckInv => AcknowledgedSurvives
  BY NodeAssumption DEF AckInv, AcknowledgedSurvives, LoadPendingTransactions
<1> QED  BY <1>1, <1>2, AckInvNext, PTL DEF Spec

-----------------------------------------------------------------------------
(***************************************************************************)
(* The fork history.  An event that is not there as it was recorded, or    *)
(* that a compaction in progress is about to delete, is neither recent nor *)
(* deep.  The key of an event is made of its own fields, so that no new    *)
(* event takes a key that was scanned as old.                              *)
(***************************************************************************)
Event == [fork_point : Nat, reorg_depth : Nat, timestamp : Nat]

Old(e) == e.timestamp + Recent < now /\ e.reorg_depth <= Threshold

Keyed(map) ==
  /\ IsFiniteSet(DOMAIN map)
  /\ \A k \in DOMAIN map : /\ map[k] \in Event /\ map[k].timestamp <= now
                           /\ k = <<map[k].timestamp, map[k].fork_point>>

ForkInv ==
  /\ now \in Nat /\ height \in Nat
  /\ Keyed(recorded)
  /\ DOMAIN fork_history \subseteq DOMAIN recorded
  /\ \A k \in DOMAIN fork_history : fork_history[k] = recorded[k]
  /\ \A k \in DOMAIN recorded \ DOMAIN fork_history : Old(recorded[k])
  /\ compacting # None =>
        \A k \in compacting : k \in DOMAIN recorded /\ Old(recorded[k])

LEMMA IncomingForkInv ==
  ASSUME ForkInv, NEW parent, HandleIncomingBlock(parent), now' = now
  PROVE  ForkInv'
<1> DEFINE k == <<now, height>>
           e == [fork_point |-> height, reorg_depth |-> 1, timestamp |-> now]
<1>1. /\ DOMAIN fork_history' = DOMAIN fork_history \cup {k} /\ fork_history'[k] = e
      /\ \A x \in DOMAIN fork_history \ {k} : fork_history'[x] = fork_history[x]
      /\ DOMAIN recorded' = DOMAIN recorded \cup {k} /\ recorded'[k] = e
      /\ \A x \in DOMAIN recorded \ {k} : recorded'[x] = recorded[x]
      /\ height' = height /\ compacting' = compacting
  BY DEF HandleIncomingBlock, StoreForkEvent
<1>2. /\ e \in Event /\ e.timestamp = now /\ e.fork_point = height /\ e.reorg_depth = 1
      /\ now \in Nat /\ height \in Nat
  BY DEF ForkInv, Event
<1>3. k = <<e.timestamp, e.fork_point>>
  BY <1>2
<1>4. IsFiniteSet(DOMAIN recorded')
  BY <1>1, FS_AddElement DEF ForkInv, Keyed
<1> HIDE DEF e
<1>5. \A x \in DOMAIN recorded' :
         /\ recorded'[x] \in Event /\ recorded'[x].timestamp <= now
         /\ x = <<recorded'[x].timestamp, recorded'[x].fork_point>>
  <2>1. now <= now
    BY <1>2
  <2> QED  BY <1>1, <1>2, <1>3, <2>1 DEF ForkInv, Keyed
<1>6. Keyed(recorded)'
  BY <1>4, <1>5 DEF Keyed, Event
<1>7. ASSUME NEW x \in DOMAIN recorded, Old(recorded[x]) PROVE x # k
  <2>1. recorded[x].timestamp < now /\ recorded[x].timestamp \in Nat
    BY <1>2, <1>7, NodeAssumption DEF Old, ForkInv, Keyed, Event
  <2>2. x = <<recorded[x].timestamp, recorded[x].fork_point>>
    BY DEF ForkInv, Keyed
  <2> QED  BY <1>2, <2>1, <2>2
<1> HIDE DEF k
<1>8. /\ DOMAIN fork_history' \subseteq DOMAIN recorded'
      /\ \A x \in DOMAIN fork_history' : fork_history'[x] = recorded'[x]
  BY <1>1 DEF ForkInv
<1>9. \A x \in DOMAIN recorded' \ DOMAIN fork_history' : Old(recorded[x]) /\ recorded'[x] = recorded[x]
  BY <1>1 DEF ForkInv
<1>10. compacting' # None =>
         \A x \in compacting' : x \in DOMAIN recorded' /\ Old(recorded[x]) /\ recorded'[x] = recorded[x]
  BY <1>1, <1>7 DEF ForkInv
<1> QED  BY <1>1, <1>2, <1>6, <1>8, <1>9, <1>10 DEF ForkInv, Old

LEMMA ForkInvNext == ForkInv /\ [Next]_vars => ForkInv'
<1> SUFFICES ASSUME ForkInv, [Next]_vars PROVE ForkInv'
  OBVIOUS
<1>1. ASSUME height' \in Nat, UNCHANGED <<fork_history, recorded, now>>,
             compacting' = compacting \/ compacting' = None
      PROVE  ForkInv'
  BY <1>1 DEF ForkInv, Keyed, Old, Event
<1>2. CASE CompactScans /\ now' = now
  <2>1. /\ UNCHANGED <<height, fork_history, recorded, now>>
        /\ compacting' = {k \in DOMAIN fork_history : Insignificant(fork_history[k])}
    BY <1>2 DEF CompactScans
  <2>2. ASSUME NEW k \in compacting' PROVE k \in DOMAIN recorded /\ Old(recorded[k])
    <3>1. /\ k \in DOMAIN fork_history /\ fork_history[k] = recorded[k]
          /\ k \in DOMAIN recorded /\ Insignificant(recorded[k])
          /\ recorded[k].timestamp \in Nat /\ now \in Nat
      BY <2>1 DEF ForkInv, Keyed, Event
    <3> QED  BY <3>1, NodeAssumption DEF Insignificant, Cutoff, Old
  <2> QED  BY <2>1, <2>2 DEF ForkInv, Keyed, Old, Event
<1>3. CASE CompactDeletes /\ now' = now
  <2>1. /\ UNCHANGED <<height, recorded, now>> /\ compacting # None /\ compacting' = None
        /\ DOMAIN fork_history' = DOMAIN fork_history \ compacting
        /\ \A k \in DOMAIN fork_history \ compacting : fork_history'[k] = fork_history[k]
    BY <1>3 DEF CompactDeletes
  <2>2. \A k \in DOMAIN recorded \ DOMAIN fork_history' : Old(recorded[k])
    BY <2>1 DEF ForkInv
  <2> QED  BY <2>1, <2>2 DEF ForkInv, Keyed, Old, Event
<1>4. CASE ForkStep
  <2>1. now' = now
    BY <1>4 DEF ForkStep
  <2>2. ASSUME NEW parent, HandleIncomingBlock(parent) PROVE ForkInv'
    BY <2>1, <2>2, IncomingForkInv
  <2>3. CASE HeadMoves
    BY <1>1, <2>1, <2>3 DEF HeadMoves, forkVars, ForkInv
  <2>4. ASSUME NEW s, UpdateForkChoice(s) PROVE ForkInv'
    BY <1>1, <2>1, <2>4 DEF UpdateForkChoice, ForkInv
  <2> QED  BY <1>2, <1>3, <1>4, <2>1, <2>2, <2>3, <2>4 DEF ForkStep
<1>5. CASE Tick
  <2>1. now' = now + 1 /\ UNCHANGED <<height, fork_history, recorded, compacting>>
    BY <1>5 DEF Tick, chainVars, forkVars
  <2>2. now \in Nat /\ now' \in Nat /\ now <= now'
    BY <2>1 DEF ForkInv
  <2>3. Keyed(recorded)'
    BY <2>1, <2>2 DEF ForkInv, Keyed, Event
  <2>4. ASSUME NEW k \in DOMAIN recorded, Old(recorded[k])
        PROVE  recorded[k].timestamp + Recent < now' /\ recorded[k].reorg_depth <= Threshold
    BY <2>1, <2>2, <2>4, NodeAssumption DEF Old, ForkInv, Keyed, Event
  <2> QED  BY <2>1, <2>2, <2>3, <2>4 DEF ForkInv, Old
<1>6. CASE Crash
  BY <1>1, <1>6 DEF Crash
<1>7. ASSUME BlockApplied(proposal.transactions) \/ \E tx \in Tx : BlockApplied(<<tx>>)
      PROVE  ForkInv'
  <2>1. height' \in {height, height + 1} /\ UNCHANGED <<forkVars, now>>
    BY <1>7 DEF BlockApplied
  <2>2. height' \in Nat
    BY <2>1 DEF ForkInv
  <2> QED  BY <1>1, <2>1, <2>2 DEF forkVars
<1>8. CASE ProductionStep
  <2>1. CASE ProduceSelects \/ ProduceBuilds
    BY <1>1, <2>1 DEF ProduceSelects, ProduceBuilds, forkVars, chainVars, ForkInv
  <2> QED  BY <1>7, <1>8, <2>1 DEF ProductionStep, ApplyProposal, ApplyForeign
<1>9. CASE PoolStep
  <2>1. ASSUME NEW c \in Client, NEW tx \in Tx, SubmitReads(c, tx) PROVE ForkInv'
    BY <1>1, <2>1 DEF SubmitReads, forkVars, chainVars, ForkInv
  <2>2. ASSUME NEW c \in Client, SubmitAdds(c) PROVE ForkInv'
    BY <1>1, <2>2 DEF SubmitAdds, forkVars, chainVars, ForkInv
  <2> QED  BY <1>9, <2>1, <2>2 DEF PoolStep
<1>10. CASE PersistTask
  BY <1>1, <1>10 DEF PersistTask, PersistReads, PersistStores, forkVars, chainVars, ForkInv
<1>11. CASE PersistenceStep
  <2>1. CASE PruneTask \/ PersistFails \/ UpdatePoolConfig
    BY <1>1, <2>1 DEF PruneTask, PersistFails, UpdatePoolConfig, forkVars, chainVars, ForkInv
  <2>2. CASE ClearScans \/ ClearPendingTransactions
    BY <1>1, <2>2 DEF ClearScans, ClearPendingTransactions, forkVars, chainVars, ForkInv
  <2>3. ASSUME NEW tx \in Raw, SendRawTransaction(tx) PROVE ForkInv'
    BY <1>1, <2>3 DEF SendRawTransaction, forkVars, chainVars, ForkInv
  <2> QED  BY <1>11, <2>1, <2>2, <2>3 DEF PersistenceStep
<1>12. CASE UNCHANGED vars
  BY <1>1, <1>12 DEF vars, forkVars, chainVars, ForkInv
<1> QED  BY <1>4, <1>5, <1>6, <1>8, <1>9, <1>10, <1>11, <1>12 DEF Next

(***************************************************************************)
(* The events of different keys are different, so counting events counts   *)
(* keys.                                                                   *)
(***************************************************************************)
LEMMA EventsCounted ==
  ASSUME ForkInv, NEW kept \in SUBSET DOMAIN fork_history
  PROVE  TotalForks >= Cardinality(kept)
<1> DEFINE D == DOMAIN fork_history
           E == {fork_history[k] : k \in D}
           f == [k \in D |-> fork_history[k]]
           g == [k \in kept |-> fork_history[k]]
<1>1. /\ \A k \in D : fork_history[k] = recorded[k] /\ fork_history[k] \in Event
                      /\ k = <<fork_history[k].timestamp, fork_history[k].fork_point>>
      /\ IsFiniteSet(D)
  BY FS_Subset DEF ForkInv, Keyed
<1>2. GetForkHistory(0) = E
  <2>1. \A k \in D : k[1] >= 0
    BY <1>1 DEF Event
  <2> QED  BY <2>1 DEF GetForkHistory
<1> HIDE DEF D
<1>3. f \in Surjection(D, E)
  BY DEF Surjection
<1>4. IsFiniteSet(E)
  BY <1>1, <1>3, FS_Surjection
<1>5. g \in Injection(kept, E)
  <2>1. kept \subseteq D
    BY DEF D
  <2>2. g \in [kept -> E]
    BY <2>1
  <2>3. \A j, k \in kept : g[j] = g[k] => j = k
    BY <1>1, <2>1
  <2> QED  BY <2>2, <2>3 DEF Injection, IsInjective
<1>6. Cardinality(kept) <= Cardinality(E)
  BY <1>4, <1>5, FS_Injection
<1>7. Cardinality(E) \in Nat /\ Cardinality(kept) \in Nat
  BY <1>1, <1>4, FS_CardinalityType, FS_Subset DEF D
<1> QED  BY <1>2, <1>6, <1>7 DEF TotalForks

(***************************************************************************)
(* Compaction never takes an event that is recent or deep, and the node    *)
(* counts at least those (db.rs, compact_fork_history), for every clock,   *)
(* threshold and number of forks, when forks are recorded between its scan *)
(* and its deletions and when it is cut off by a crash.                    *)
(***************************************************************************)
THEOREM SignificantForksAlwaysKept == Spec => []SignificantForksKept
<1>1. Init => ForkInv
  <2>1. IsFiniteSet({})
    BY FS_EmptySet
  <2> QED  BY <2>1 DEF Init, ForkInv, Keyed
<1>2. ForkInv => SignificantForksKept
  <2> SUFFICES ASSUME ForkInv PROVE SignificantForksKept
    OBVIOUS
  <2> DEFINE kept == {k \in DOMAIN recorded : \/ recorded[k].timestamp + Recent >= now
                                              \/ recorded[k].reorg_depth > Threshold}
  <2>1. \A k \in kept : ~ Old(recorded[k])
    BY NodeAssumption DEF ForkInv, Keyed, Event, Old
  <2>2. \A k \in kept : k \in DOMAIN fork_history /\ fork_history[k] = recorded[k]
    BY <2>1 DEF ForkInv
  <2>3. TotalForks >= Cardinality(kept)
    <3> HIDE DEF kept
    <3> QED  BY <2>2, EventsCounted
  <2> QED  BY <2>2, <2>3 DEF SignificantForksKept
<1> QED  BY <1>1, <1>2, ForkInvNext, PTL DEF Spec

-----------------------------------------------------------------------------
(***************************************************************************)
(* The pool and the chain.  A submission between its two locks holds the   *)
(* nonce that its transaction has, which the sender has reached; so it is  *)
(* never queued, and nonces only grow until a crash empties everything.    *)
(***************************************************************************)
Reached(p) ==
  /\ p.by_hash \subseteq Tx /\ p.pending \subseteq Tx /\ p.queued = {}
  /\ \A tx \in p.by_hash : tx.nonce <= nonces[tx.from]

Submission == [tx : Tx, nonce : Nat]

AheadInv ==
  /\ nonces \in [Address -> Nat]
  /\ Reached(pool)
  /\ submitting \in [Client -> Submission \cup {None}]
  /\ \A c \in Client : submitting[c] # None =>
        /\ submitting[c] \in Submission /\ submitting[c].nonce = submitting[c].tx.nonce
        /\ submitting[c].nonce <= nonces[submitting[c].tx.from]

LEMMA RemovedReached ==
  ASSUME NEW p, Reached(p), NEW S
  PROVE  Reached(P!RemoveAll(p, S))
<1> DEFINE r == P!RemoveAll(p, S)
<1>1. r.by_hash \subseteq p.by_hash /\ r.queued \subseteq p.queued /\ r.pending \subseteq p.pending
  BY DEF P!RemoveAll
<1> HIDE DEF r
<1>2. Reached(r)
  BY <1>1 DEF Reached
<1> QED  BY <1>2 DEF r

LEMMA MadeRoomReached ==
  ASSUME NEW p, Reached(p), NEW r \in P!MadeRoom(p)
  PROVE  Reached(r)
BY RemovedReached DEF P!MadeRoom

LEMMA AcceptedReached ==
  ASSUME NEW p, Reached(p), NEW tx \in Tx, tx.nonce <= nonces[tx.from],
         NEW r \in P!Accepted(p, tx, tx.nonce)
  PROVE  Reached(r)
<1>1. PICK q \in P!MadeRoom(p) : r = P!Insert(q, tx, tx.nonce)
  BY DEF P!Accepted
<1>2. Reached(q)
  BY MadeRoomReached
<1>3. r = P!InsertPending(q, tx)
  BY <1>1 DEF P!Insert
<1>4. r.by_hash = q.by_hash \cup {tx} /\ r.queued = q.queued /\ r.pending = q.pending \cup {tx}
  BY <1>3 DEF P!InsertPending
<1> QED  BY <1>2, <1>4 DEF Reached

LEMMA AheadFrom ==
  ASSUME AheadInv, nonces' = nonces, Reached(pool'),
         \A c \in Client : submitting'[c] = submitting[c] \/ submitting'[c] = None,
         DOMAIN submitting' = Client, submitting' = [c \in Client |-> submitting'[c]]
  PROVE  AheadInv'
<1>1. submitting' \in [Client -> Submission \cup {None}]
  BY DEF AheadInv
<1>2. Reached(pool)'
  BY DEF Reached
<1> QED  BY <1>1, <1>2 DEF AheadInv, Submission

LEMMA AheadStays ==
  ASSUME AheadInv, UNCHANGED <<chainVars, pool, submitting>>
  PROVE  AheadInv'
BY DEF AheadInv, Reached, Submission, chainVars

LEMMA SubmitReadsAhead ==
  ASSUME AheadInv, NEW c \in Client, NEW tx \in Tx, SubmitReads(c, tx)
  PROVE  AheadInv'
<1> DEFINE s == [tx |-> tx, nonce |-> nonces[tx.from]]
<1>1. submitting' = [submitting EXCEPT ![c] = s] /\ UNCHANGED <<nonces, pool>>
  BY DEF SubmitReads, chainVars, poolVars
<1>2. /\ s \in Submission /\ s.nonce = s.tx.nonce /\ s.nonce = nonces[s.tx.from]
      /\ nonces[s.tx.from] \in Nat
  <2>1. nonces[tx.from] \in Nat /\ tx.nonce = nonces[tx.from]
    BY NodeAssumption DEF SubmitReads, ExpectedNonce, AheadInv, IsTransaction
  <2> QED  BY <2>1 DEF Submission
<1> HIDE DEF s
<1>3. s.nonce <= nonces[s.tx.from]
  BY <1>2
<1>4. submitting' \in [Client -> Submission \cup {None}]
  BY <1>1, <1>2 DEF AheadInv
<1>5. \A d \in Client : submitting'[d] # None =>
        /\ submitting'[d] \in Submission /\ submitting'[d].nonce = submitting'[d].tx.nonce
        /\ submitting'[d].nonce <= nonces[submitting'[d].tx.from]
  BY <1>1, <1>2, <1>3 DEF AheadInv
<1> QED  BY <1>1, <1>4, <1>5 DEF AheadInv, Reached, Submission

LEMMA SubmitAddsAhead ==
  ASSUME AheadInv, NEW c \in Client, SubmitAdds(c)
  PROVE  AheadInv'
<1> DEFINE tx == submitting[c].tx
           n == submitting[c].nonce
<1>1. /\ tx \in Tx /\ n = tx.nonce /\ tx.nonce <= nonces[tx.from]
      /\ Reached(pool) /\ nonces' = nonces
      /\ submitting' = [submitting EXCEPT ![c] = None]
  BY DEF SubmitAdds, AheadInv, Submission, chainVars
<1>2. pool' \in P!Accepted(pool, tx, n) \/ pool' \in P!Rejected(pool, tx, n) \/ pool' = pool
  BY DEF SubmitAdds, poolVars
<1> HIDE DEF tx, n
<1>3. Reached(pool')
  <2>1. ASSUME pool' \in P!Accepted(pool, tx, n) PROVE Reached(pool')
    BY <1>1, <2>1, AcceptedReached
  <2>2. ASSUME pool' \in P!Rejected(pool, tx, n) PROVE Reached(pool')
    <3>1. pool' \in P!MadeRoom(pool)
      BY <2>2 DEF P!Rejected
    <3> QED  BY <1>1, <3>1, MadeRoomReached
  <2> QED  BY <1>1, <1>2, <2>1, <2>2
<1>4. /\ \A d \in Client : submitting'[d] = submitting[d] \/ submitting'[d] = None
      /\ DOMAIN submitting' = Client /\ submitting' = [d \in Client |-> submitting'[d]]
  BY <1>1 DEF AheadInv
<1> QED  BY <1>1, <1>3, <1>4, AheadFrom

LEMMA AppliedAhead ==
  ASSUME AheadInv, NEW txs, BlockApplied(txs)
  PROVE  AheadInv'
<1>1. PICK k \in 0 .. Len(txs) :
        nonces' = [a \in Address |-> nonces[a] + Cardinality({i \in 1..k : txs[i].from = a})]
  BY DEF BlockApplied
<1>2. k \in Int
  OBVIOUS
<1>3. \A a \in Address : Cardinality({i \in 1..k : txs[i].from = a}) \in Nat
  <2> SUFFICES ASSUME NEW a \in Address
               PROVE  Cardinality({i \in 1..k : txs[i].from = a}) \in Nat
    OBVIOUS
  <2> DEFINE S == {i \in 1..k : txs[i].from = a}
  <2>1. IsFiniteSet(1..k)
    BY <1>2, FS_Interval
  <2>2. IsFiniteSet(S)
    BY <2>1, FS_Subset
  <2> QED  BY <2>2, FS_CardinalityType
<1>4. \A a \in Address : nonces'[a] \in Nat /\ nonces[a] <= nonces'[a] /\ nonces[a] \in Nat
  BY <1>1, <1>3 DEF AheadInv
<1>5. nonces' \in [Address -> Nat]
  BY <1>1, <1>4
<1>6. \A tx \in Tx : tx.from \in Address /\ tx.nonce \in Nat
  BY NodeAssumption DEF IsTransaction
<1>7. UNCHANGED <<pool, submitting>>
  BY DEF BlockApplied, poolVars
<1>8. Reached(pool)'
  <2>1. \A tx \in pool.by_hash : tx.nonce <= nonces'[tx.from]
    BY <1>4, <1>6 DEF AheadInv, Reached
  <2> QED  BY <1>7, <2>1 DEF AheadInv, Reached
<1>9. \A c \in Client : submitting[c] # None =>
        /\ submitting[c] \in Submission /\ submitting[c].nonce = submitting[c].tx.nonce
        /\ submitting[c].nonce <= nonces'[submitting[c].tx.from]
  BY <1>4, <1>6 DEF AheadInv, Submission
<1> QED  BY <1>5, <1>7, <1>8, <1>9 DEF AheadInv, Submission

LEMMA EmptyReached == P!EmptyPool.by_hash = {} /\ P!EmptyPool.queued = {} /\ P!EmptyPool.pending = {}
BY DEF P!EmptyPool

LEMMA AheadInvNext == AheadInv /\ [Next]_vars => AheadInv'
<1> SUFFICES ASSUME AheadInv, [Next]_vars PROVE AheadInv'
  OBVIOUS
<1> USE DEF poolVars
<1>1. CASE PoolStep
  BY <1>1, SubmitReadsAhead, SubmitAddsAhead DEF PoolStep
<1>2. CASE ProductionStep
  <2>1. CASE ProduceSelects \/ ProduceBuilds
    BY <2>1, AheadStays DEF ProduceSelects, ProduceBuilds
  <2> QED  BY <1>2, <2>1, AppliedAhead DEF ProductionStep, ApplyProposal, ApplyForeign
<1>3. CASE PersistTask
  BY <1>3, AheadStays DEF PersistTask, PersistReads, PersistStores
<1>4. CASE PersistenceStep
  <2>1. ASSUME Reached(pool'), UNCHANGED <<chainVars, submitting>> PROVE AheadInv'
    <3>1. /\ nonces' = nonces /\ submitting' = submitting /\ DOMAIN submitting' = Client
          /\ submitting' = [c \in Client |-> submitting'[c]]
      BY <2>1 DEF chainVars, AheadInv
    <3> QED  BY <2>1, <3>1, AheadFrom
  <2>2. CASE PruneTask
    <3>1. Reached(P!RemoveAll(pool, P!Expired(pool)))
      BY RemovedReached DEF AheadInv
    <3> QED  BY <2>1, <2>2, <3>1 DEF PruneTask
  <2>3. CASE UpdatePoolConfig
    <3>1. Reached(P!EmptyPool)
      BY EmptyReached DEF Reached
    <3> QED  BY <2>1, <2>3, <3>1 DEF UpdatePoolConfig
  <2>4. CASE PersistFails \/ ClearScans \/ ClearPendingTransactions
    BY <2>4, AheadStays DEF PersistFails, ClearScans, ClearPendingTransactions
  <2>5. ASSUME NEW tx \in Raw, SendRawTransaction(tx) PROVE AheadInv'
    BY <2>5, AheadStays DEF SendRawTransaction
  <2> QED  BY <1>4, <2>2, <2>3, <2>4, <2>5 DEF PersistenceStep
<1>5. CASE ForkStep
  BY <1>5 DEF ForkStep, AheadInv, Reached, Submission
<1>6. CASE Tick
  BY <1>6, AheadStays DEF Tick
<1>7. CASE Crash
  <2>1. /\ pool' = P!EmptyPool /\ nonces' = [a \in Address |-> 0]
        /\ submitting' = [c \in Client |-> None]
    BY <1>7 DEF Crash
  <2>2. Reached(pool)'
    BY <2>1, EmptyReached DEF Reached
  <2> QED  BY <2>1, <2>2 DEF AheadInv
<1>8. CASE UNCHANGED vars
  BY <1>8, AheadStays DEF vars
<1> QED  BY <1>1, <1>2, <1>3, <1>4, <1>5, <1>6, <1>7, <1>8 DEF Next

(***************************************************************************)
(* Nothing in a running node's pool waits for a nonce that its sender has  *)
(* not reached (runtime.rs, submit_transaction), for any number of         *)
(* submissions between their two locks, any blocks and any crash.          *)
(***************************************************************************)
THEOREM PoolIsNeverAhead == Spec => []PoolNeverAhead
<1>1. Init => AheadInv
  BY EmptyReached DEF Init, AheadInv, Reached
<1>2. AheadInv => PoolNeverAhead
  BY DEF AheadInv, Reached, PoolNeverAhead
<1> QED  BY <1>1, <1>2, AheadInvNext, PTL DEF Spec

-----------------------------------------------------------------------------
(***************************************************************************)
(* Selection.  A u64 total that is reduced after every addition is the     *)
(* exact sum reduced once.                                                 *)
(***************************************************************************)
LEMMA Division ==
  ASSUME NEW x \in Nat, NEW u \in Nat \ {0}
  PROVE  x \div u \in Nat /\ x % u \in Nat /\ x % u < u /\ x = (x \div u) * u + (x % u)
OBVIOUS

LEMMA Remainder ==
  ASSUME NEW x \in Nat, NEW k \in Nat, NEW r \in Nat, NEW u \in Nat \ {0},
         x = k * u + r, r < u
  PROVE  x % u = r
<1> DEFINE q == x \div u
           m == x % u
<1>1. q \in Nat /\ m \in Nat /\ m < u /\ x = q * u + m
  BY Division
<1> HIDE DEF q, m
<1>2. q = k
  <2>1. ASSUME q < k PROVE FALSE
    <3>1. (q + 1) * u <= k * u
      BY <1>1, <2>1
    <3>2. (q + 1) * u = q * u + u
      BY <1>1
    <3> DEFINE qu == q * u
               ku == k * u
    <3>3. qu \in Nat /\ ku \in Nat /\ qu + u <= ku /\ x = ku + r /\ x = qu + m
      BY <1>1, <3>1, <3>2
    <3> HIDE DEF qu, ku
    <3> QED  BY <1>1, <3>3
  <2>2. ASSUME k < q PROVE FALSE
    <3>1. (k + 1) * u <= q * u
      BY <1>1, <2>2
    <3>2. (k + 1) * u = k * u + u
      BY <1>1
    <3> DEFINE qu == q * u
               ku == k * u
    <3>3. qu \in Nat /\ ku \in Nat /\ ku + u <= qu /\ x = ku + r /\ x = qu + m
      BY <1>1, <3>1, <3>2
    <3> HIDE DEF qu, ku
    <3> QED  BY <1>1, <3>3
  <2> QED  BY <1>1, <2>1, <2>2
<1>3. m = r
  <2> DEFINE ku == k * u
  <2>1. ku \in Nat /\ x = ku + r /\ x = ku + m
    BY <1>1, <1>2
  <2> HIDE DEF ku
  <2> QED  BY <1>1, <2>1
<1> QED  BY <1>3 DEF m

LEMMA WrapsOnce ==
  ASSUME NEW a \in Nat, NEW g \in Nat, NEW u \in Nat \ {0}
  PROVE  (a + g) % u = ((a % u) + g) % u
<1> DEFINE r == a % u
           q == a \div u
           b == r + g
           t == b % u
           p == b \div u
<1>1. r \in Nat /\ q \in Nat /\ a = q * u + r
  BY Division
<1> HIDE DEF r, q
<1>2. b \in Nat /\ b = r + g
  BY <1>1
<1> HIDE DEF b
<1>3. t \in Nat /\ t < u /\ p \in Nat /\ b = p * u + t
  BY <1>2, Division, Zenon
<1> HIDE DEF t, p
<1>4. (q + p) * u = q * u + p * u
  BY <1>1, <1>3
<1> DEFINE qu == q * u
           pu == p * u
           k == q + p
           ku == k * u
<1>5. qu \in Nat /\ pu \in Nat /\ k \in Nat /\ ku \in Nat /\ ku = qu + pu /\ a = qu + r /\ b = pu + t
  BY <1>1, <1>3, <1>4
<1>6. a + g = ku + t
  <2> HIDE DEF qu, pu, ku, k
  <2> QED  BY <1>1, <1>2, <1>3, <1>5
<1>7. (a + g) % u = t
  <2> DEFINE x == a + g
  <2>1. x \in Nat /\ x = k * u + t
    BY <1>6
  <2> HIDE DEF x, k
  <2>2. x % u = t
    BY <1>3, <1>5, <2>1, Remainder
  <2> QED  BY <2>2 DEF x
<1> QED  BY <1>7 DEF t, b, r

(***************************************************************************)
(* The gas of the first transactions of a sequence, and of the sequence    *)
(* with one more.                                                          *)
(***************************************************************************)
LEMMA GasNat ==
  ASSUME NEW s \in Seq(Tx), NEW n \in 0 .. Len(s)
  PROVE  GasOf(s, n) \in Nat
<1> DEFINE f == [i \in DOMAIN s |-> s[i].gas_limit]
<1>1. Len(s) \in Nat /\ DOMAIN s = 1 .. Len(s) /\ n \in Int /\ 1 .. n \subseteq 1 .. Len(s)
  OBVIOUS
<1>2. IsFiniteSet(1 .. n)
  BY <1>1, FS_Interval
<1>3. \A i \in 1 .. n : f[i] \in Nat
  BY <1>1, NodeAssumption DEF IsTransaction
<1> HIDE DEF f
<1>4. SumFunctionOnSet(f, 1 .. n) \in Nat
  BY <1>2, <1>3, SumNat
<1>5. SumFunctionOnSet(f, 1 .. n) % U64 \in Nat
  BY <1>4, U64Assumption
<1> QED  BY <1>5 DEF GasOf, f

LEMMA GasGrows ==
  ASSUME NEW s \in Seq(Tx), NEW tx \in Tx
  PROVE  /\ GasOf(Append(s, tx), Len(s) + 1) = (GasOf(s, Len(s)) + tx.gas_limit) % U64
         /\ \A i \in 0 .. Len(s) : GasOf(Append(s, tx), i) = GasOf(s, i)
<1> DEFINE t == Append(s, tx)
           n == Len(s)
           f == [i \in DOMAIN s |-> s[i].gas_limit]
           g == [i \in DOMAIN t |-> t[i].gas_limit]
<1>1. /\ n \in Nat /\ DOMAIN s = 1 .. n /\ t \in Seq(Tx) /\ Len(t) = n + 1 /\ DOMAIN t = 1 .. n + 1
      /\ t[n + 1] = tx /\ \A i \in 1 .. n : t[i] = s[i]
  OBVIOUS
<1>2. tx.gas_limit \in Nat /\ \A i \in 1 .. n : s[i].gas_limit \in Nat
  BY <1>1, NodeAssumption DEF IsTransaction
<1> HIDE DEF t, n
<1>3. /\ \A i \in 1 .. n : f[i] = g[i] /\ f[i] \in Nat
      /\ g[n + 1] = tx.gas_limit
      /\ \A i \in 1 .. n + 1 : g[i] \in Nat
  BY <1>1, <1>2
<1>4. \A i : /\ GasOf(s, i) = SumFunctionOnSet(f, 1 .. i) % U64
             /\ GasOf(t, i) = SumFunctionOnSet(g, 1 .. i) % U64
  BY <1>1 DEF GasOf
<1> HIDE DEF f, g
<1>5. ASSUME NEW i \in 0 .. n
      PROVE  /\ Summable(g, 1 .. i)
             /\ SumFunctionOnSet(f, 1 .. i) = SumFunctionOnSet(g, 1 .. i)
  <2>1. i \in Int /\ \A j \in 1 .. i : j \in 1 .. n
    BY <1>1
  <2>2. IsFiniteSet(1 .. i)
    BY <2>1, FS_Interval
  <2>3. \A j \in 1 .. i : f[j] \in Int /\ g[j] \in Int /\ f[j] = g[j]
    BY <1>3, <2>1
  <2>4. Summable(f, 1 .. i) /\ Summable(g, 1 .. i)
    BY <2>2, <2>3 DEF Summable
  <2> QED  BY <2>3, <2>4, SumSame
<1>6. \A i \in 0 .. n : GasOf(t, i) = GasOf(s, i)
  BY <1>4, <1>5
<1>7. GasOf(t, n + 1) = (GasOf(s, n) + tx.gas_limit) % U64
  <2> DEFINE D == 1 .. n
             x == n + 1
             sum == SumFunctionOnSet(f, D)
  <2>1. D \cup {x} = 1 .. n + 1 /\ ~ (x \in D) /\ n \in 0 .. n
    BY <1>1
  <2>2. Summable(g, D) /\ g[x] \in Int
    BY <1>2, <1>3, <1>5, <2>1
  <2>3. SumFunctionOnSet(g, D \cup {x}) = g[x] + SumFunctionOnSet(g, D)
    <3> HIDE DEF D, x
    <3> QED  BY <2>1, <2>2, SumPutIn
  <2>4. IsFiniteSet(D) /\ \A i \in D : f[i] \in Nat
    <3>1. IsFiniteSet(D)
      <4>1. n \in Int /\ 1 \in Int
        BY <1>1
      <4> QED  BY <4>1, FS_Interval
    <3>2. \A i \in D : f[i] \in Nat
      BY <1>3
    <3> QED  BY <3>1, <3>2
  <2>5. sum \in Nat
    <3> HIDE DEF D
    <3> QED  BY <2>4, SumNat
  <2>6. SumFunctionOnSet(g, D) = sum
    BY <1>5, <2>1
  <2>7. SumFunctionOnSet(g, 1 .. n + 1) = sum + tx.gas_limit
    <3>1. SumFunctionOnSet(g, 1 .. n + 1) = SumFunctionOnSet(g, D \cup {x})
      BY <2>1
    <3>2. g[x] = tx.gas_limit
      BY <1>3
    <3> HIDE DEF D, sum, x
    <3>3. SumFunctionOnSet(g, 1 .. n + 1) = tx.gas_limit + sum
      BY <2>3, <2>6, <3>1, <3>2
    <3> QED  BY <1>2, <2>5, <3>3
  <2>8. GasOf(t, n + 1) = (sum + tx.gas_limit) % U64 /\ GasOf(s, n) = sum % U64
    BY <1>4, <2>7
  <2>9. (sum + tx.gas_limit) % U64 = ((sum % U64) + tx.gas_limit) % U64
    <3> HIDE DEF sum
    <3> QED  BY <1>2, <2>5, U64Assumption, WrapsOnce
  <2> HIDE DEF sum
  <2> QED  BY <2>8, <2>9
<1> QED  BY <1>6, <1>7 DEF t, n

(***************************************************************************)
(* What is selected from the first i transactions of a walk.  That every   *)
(* selected one is at least as dear as the next of the walk, and none that *)
(* follows is dearer, makes the end of the selection the place of a        *)
(* transaction that does not fit there.                                    *)
(***************************************************************************)
LeftOut(s, tx, max_gas) ==
  \E n \in 0 .. Len(s) :
    Place(s, tx, n) /\ (GasOf(s, n) + tx.gas_limit) % U64 > max_gas

GreedyUpTo(s, walk, i, max_gas, max_count) ==
  /\ s \in Seq(Tx)
  /\ \A m \in 1 .. Len(s) : \E j \in 1 .. i : s[m] = walk[j]
  /\ \A m, l \in 1 .. Len(s) : s[m] = s[l] => m = l
  /\ \A m, l \in 1 .. Len(s) : m < l => s[m].gas_price >= s[l].gas_price
  /\ \A n \in 1 .. Len(s) : GasOf(s, n) <= max_gas
  /\ Len(s) <= max_count
  /\ \A j \in 1 .. i : \/ \E m \in 1 .. Len(s) : s[m] = walk[j]
                       \/ Len(s) = max_count
                       \/ LeftOut(s, walk[j], max_gas)

IsWalk(walk) ==
  /\ walk \in Seq(Tx)
  /\ \A i, j \in 1 .. Len(walk) : walk[i] = walk[j] => i = j
  /\ \A i, j \in 1 .. Len(walk) : i < j => walk[i].gas_price >= walk[j].gas_price

LEMMA TakenGreedy ==
  ASSUME NEW walk, IsWalk(walk), NEW max_gas \in Nat, NEW max_count \in Nat,
         NEW i \in 0 .. Len(walk) - 1, NEW s, GreedyUpTo(s, walk, i, max_gas, max_count)
  PROVE  GreedyUpTo(Taken(s, walk[i + 1], max_gas, max_count), walk, i + 1, max_gas, max_count)
<1> DEFINE tx == walk[i + 1]
           n == Len(s)
           r == Taken(s, tx, max_gas, max_count)
<1>1. /\ Len(walk) \in Nat /\ i \in Nat /\ i + 1 \in 1 .. Len(walk)
      /\ \A j \in 1 .. i : j \in 1 .. Len(walk) /\ j < i + 1 /\ j # i + 1
      /\ \A j \in 1 .. Len(walk) : walk[j] \in Tx
      /\ \A j \in 1 .. i + 1 : j \in 1 .. i \/ j = i + 1
  BY DEF IsWalk
<1>2. tx \in Tx /\ s \in Seq(Tx) /\ n \in Nat /\ DOMAIN s = 1 .. n /\ \A m \in 1 .. n : s[m] \in Tx
  BY <1>1 DEF GreedyUpTo
<1>3. \A t \in Tx : t.gas_limit \in Nat /\ t.gas_price \in Nat
  BY NodeAssumption DEF IsTransaction
<1>4. \A m \in 1 .. n : s[m] # tx /\ s[m].gas_price >= tx.gas_price
  <2> SUFFICES ASSUME NEW m \in 1 .. n PROVE s[m] # tx /\ s[m].gas_price >= tx.gas_price
    OBVIOUS
  <2>1. PICK j \in 1 .. i : s[m] = walk[j]
    BY DEF GreedyUpTo
  <2> QED  BY <1>1, <2>1 DEF IsWalk
<1>5. GasOf(s, n) \in Nat
  <2>1. n \in 0 .. Len(s)
    BY <1>2
  <2> QED  BY <1>2, <2>1, GasNat
<1>6. CASE Fits(GasOf(s, n), tx.gas_limit, max_gas) /\ n < max_count
  <2> DEFINE t == Append(s, tx)
  <2>1. r = t
    BY <1>6 DEF Taken
  <2>2. /\ t \in Seq(Tx) /\ Len(t) = n + 1 /\ t[n + 1] = tx /\ \A m \in 1 .. n : t[m] = s[m]
        /\ DOMAIN t = 1 .. n + 1
        /\ \A m \in 1 .. n + 1 : m \in 1 .. n \/ m = n + 1
        /\ \A m \in 1 .. n : m \in 1 .. n + 1 /\ m < n + 1
    BY <1>2
  <2> HIDE DEF t
  <2>3. \A m \in 1 .. n + 1 : \E j \in 1 .. i + 1 : t[m] = walk[j]
    <3>1. i + 1 \in 1 .. i + 1 /\ \A j \in 1 .. i : j \in 1 .. i + 1
      BY <1>1
    <3> QED  BY <2>2, <3>1 DEF GreedyUpTo
  <2>4. \A m, l \in 1 .. n + 1 : t[m] = t[l] => m = l
    BY <1>4, <2>2 DEF GreedyUpTo
  <2>5. \A m, l \in 1 .. n + 1 : m < l => t[m].gas_price >= t[l].gas_price
    <3> SUFFICES ASSUME NEW m \in 1 .. n + 1, NEW l \in 1 .. n + 1, m < l
                 PROVE  t[m].gas_price >= t[l].gas_price
      OBVIOUS
    <3>1. m \in 1 .. n
      BY <1>2
    <3> QED  BY <1>4, <2>2, <3>1 DEF GreedyUpTo
  <2>6. n + 1 <= max_count /\ \A m \in 1 .. n + 1 : GasOf(t, m) <= max_gas
    <3>1. /\ GasOf(t, n + 1) = (GasOf(s, n) + tx.gas_limit) % U64
          /\ \A m \in 0 .. n : GasOf(t, m) = GasOf(s, m)
      BY <1>2, GasGrows DEF t
    <3>2. GasOf(t, n + 1) <= max_gas
      BY <1>6, <3>1 DEF Fits
    <3>3. ASSUME NEW m \in 1 .. n PROVE GasOf(t, m) <= max_gas
      <4>1. m \in 0 .. n
        BY <1>2
      <4> QED  BY <3>1, <4>1 DEF GreedyUpTo
    <3>4. n + 1 <= max_count
      <4> HIDE DEF n
      <4> QED  BY <1>2, <1>6
    <3> QED  BY <2>2, <3>2, <3>3, <3>4
  <2>7. ASSUME NEW j \in 1 .. i + 1
        PROVE  \/ \E m \in 1 .. n + 1 : t[m] = walk[j]
               \/ n + 1 = max_count
               \/ LeftOut(t, walk[j], max_gas)
    <3>1. CASE j = i + 1
      <4>1. n + 1 \in 1 .. n + 1
        BY <1>2
      <4> QED  BY <2>2, <3>1, <4>1
    <3>2. CASE j \in 1 .. i /\ \E m \in 1 .. n : s[m] = walk[j]
      BY <2>2, <3>2
    <3>3. CASE j \in 1 .. i /\ LeftOut(s, walk[j], max_gas)
      <4>1. PICK k \in 0 .. n : Place(s, walk[j], k) /\ (GasOf(s, k) + walk[j].gas_limit) % U64 > max_gas
        BY <3>3 DEF LeftOut
      <4>2. GasOf(t, k) = GasOf(s, k)
        BY <1>2, GasGrows DEF t
      <4>3. tx.gas_price <= walk[j].gas_price
        <5>1. walk[j].gas_price >= walk[i + 1].gas_price
          BY <1>1, <3>3 DEF IsWalk
        <5>2. walk[j].gas_price \in Nat /\ walk[i + 1].gas_price \in Nat
          BY <1>1, <1>3, <3>3
        <5> QED  BY <5>1, <5>2
      <4>4. \A m \in 1 .. k : t[m].gas_price >= walk[j].gas_price
        <5>1. \A m \in 1 .. k : m \in 1 .. n
          BY <1>2
        <5> QED  BY <2>2, <4>1, <5>1 DEF Place
      <4>5. \A m \in k + 1 .. n + 1 : t[m].gas_price <= walk[j].gas_price
        <5>1. \A m \in k + 1 .. n + 1 : m = n + 1 \/ (m \in k + 1 .. n /\ m \in 1 .. n)
          BY <1>2
        <5> QED  BY <2>2, <4>1, <4>3, <5>1 DEF Place
      <4>6. Place(t, walk[j], k) /\ k \in 0 .. Len(t)
        BY <1>2, <2>2, <4>4, <4>5 DEF Place
      <4> QED  BY <4>1, <4>2, <4>6 DEF LeftOut
    <3>4. j \in 1 .. i =>
            \/ \E m \in 1 .. n : s[m] = walk[j]
            \/ n = max_count
            \/ LeftOut(s, walk[j], max_gas)
      BY DEF GreedyUpTo
    <3>5. n # max_count
      <4> HIDE DEF n
      <4> QED  BY <1>2, <1>6
    <3>6. j \in 1 .. i \/ j = i + 1
      BY <1>1
    <3> QED  BY <3>1, <3>2, <3>3, <3>4, <3>5, <3>6
  <2> QED  BY <2>1, <2>2, <2>3, <2>4, <2>5, <2>6, <2>7 DEF GreedyUpTo
<1>7. CASE ~ (Fits(GasOf(s, n), tx.gas_limit, max_gas) /\ n < max_count)
  <2>1. r = s
    BY <1>7 DEF Taken
  <2>2. n = max_count \/ LeftOut(s, tx, max_gas)
    <3>1. n <= max_count
      BY DEF GreedyUpTo
    <3>2. Place(s, tx, n) /\ n \in 0 .. Len(s)
      BY <1>2, <1>4 DEF Place
    <3>3. (GasOf(s, n) + tx.gas_limit) % U64 \in Nat
      BY <1>2, <1>3, <1>5, U64Assumption
    <3>4. n = max_count \/ (GasOf(s, n) + tx.gas_limit) % U64 > max_gas
      <4> HIDE DEF tx, n
      <4> QED  BY <1>2, <1>7, <3>1, <3>3 DEF Fits
    <3> QED  BY <3>2, <3>4 DEF LeftOut
  <2>3. \A m \in 1 .. n : \E j \in 1 .. i + 1 : s[m] = walk[j]
    <3>1. \A j \in 1 .. i : j \in 1 .. i + 1
      BY <1>1
    <3> QED  BY <3>1 DEF GreedyUpTo
  <2> QED  BY <1>1, <2>1, <2>2, <2>3 DEF GreedyUpTo
<1> QED  BY <1>6, <1>7

LEMMA SelectedGreedy ==
  ASSUME NEW walk, IsWalk(walk), NEW max_gas \in Nat, NEW max_count \in Nat
  PROVE  GreedyUpTo(Selected(walk, max_gas, max_count), walk, Len(walk), max_gas, max_count)
<1> DEFINE L == Len(walk)
           Step(g, n) == IF n = 0 THEN <<>> ELSE Taken(g[n - 1], walk[n], max_gas, max_count)
           taken[n \in 0 .. L] ==
             IF n = 0 THEN <<>> ELSE Taken(taken[n - 1], walk[n], max_gas, max_count)
<1>1. L \in Nat
  BY DEF IsWalk
<1>2. Selected(walk, max_gas, max_count) = taken[L]
  BY DEF Selected
<1>3. \E g : g = [i \in 0 .. L |-> Step(g, i)]
  <2> DEFINE Q == {n \in Nat : \E g : g = [i \in 0 .. n |-> Step(g, i)]}
  <2>1. 0 \in Q
    <3> DEFINE g == [i \in 0 .. 0 |-> <<>>]
    <3>1. g = [i \in 0 .. 0 |-> Step(g, i)]
      OBVIOUS
    <3> QED  BY <3>1
  <2>2. ASSUME NEW n \in Nat, n \in Q PROVE n + 1 \in Q
    <3>1. PICK g : g = [i \in 0 .. n |-> Step(g, i)]
      BY <2>2
    <3> DEFINE h == [i \in 0 .. n + 1 |-> Step(g, i)]
    <3>2. ASSUME NEW i \in 0 .. n + 1 PROVE Step(g, i) = Step(h, i)
      <4>1. CASE i = 0
        BY <4>1
      <4>2. CASE i # 0
        <5>1. i - 1 \in 0 .. n /\ i - 1 \in 0 .. n + 1
          BY <4>2
        <5>2. g[i - 1] = Step(g, i - 1)
          <6> HIDE DEF Step
          <6> QED  BY <3>1, <5>1
        <5>3. h[i - 1] = Step(g, i - 1)
          <6> HIDE DEF Step
          <6> QED  BY <5>1
        <5> HIDE DEF h
        <5> QED  BY <5>2, <5>3
      <4> QED  BY <4>1, <4>2
    <3>3. h = [i \in 0 .. n + 1 |-> Step(h, i)]
      <4> HIDE DEF Step
      <4> QED  BY <3>2
    <3> HIDE DEF h, Step
    <3> QED  BY <3>3
  <2>3. L \in Q
    <3> HIDE DEF Q, L
    <3> QED  BY <1>1, <2>1, <2>2, CountingUp
  <2> HIDE DEF Step, L
  <2> QED  BY <2>3
<1>4. taken = [i \in 0 .. L |-> Step(taken, i)]
  BY <1>3
<1> HIDE DEF taken
<1>5. \A i \in 0 .. L : taken[i] = Step(taken, i)
  <2> HIDE DEF Step
  <2> QED  BY <1>4, Zenon
<1> DEFINE R == {n \in Nat : n <= L => GreedyUpTo(taken[n], walk, n, max_gas, max_count)}
<1>6. 0 \in R
  <2>1. taken[0] = <<>>
    BY <1>1, <1>5
  <2>2. <<>> \in Seq(Tx) /\ Len(<<>>) = 0 /\ 1 .. 0 = {}
    OBVIOUS
  <2>3. ASSUME NEW e \in Seq(Tx), Len(e) = 0
        PROVE  GreedyUpTo(e, walk, 0, max_gas, max_count)
    BY <2>2, <2>3 DEF GreedyUpTo
  <2>4. GreedyUpTo(taken[0], walk, 0, max_gas, max_count)
    BY <2>1, <2>2, <2>3
  <2> QED  BY <2>4
<1>7. ASSUME NEW n \in Nat, n \in R PROVE n + 1 \in R
  <2> SUFFICES ASSUME n + 1 <= L
               PROVE  GreedyUpTo(taken[n + 1], walk, n + 1, max_gas, max_count)
    OBVIOUS
  <2>1. /\ GreedyUpTo(taken[n], walk, n, max_gas, max_count)
        /\ n + 1 \in 0 .. L /\ n + 1 # 0 /\ n + 1 - 1 = n /\ n \in 0 .. Len(walk) - 1
    BY <1>1, <1>7
  <2>2. taken[n + 1] = Taken(taken[n], walk[n + 1], max_gas, max_count)
    BY <1>5, <2>1
  <2>3. GreedyUpTo(Taken(taken[n], walk[n + 1], max_gas, max_count), walk, n + 1, max_gas, max_count)
    BY <2>1, TakenGreedy
  <2> QED  BY <2>2, <2>3
<1>8. L \in R
  <2> HIDE DEF R, L
  <2> QED  BY <1>1, <1>6, <1>7, CountingUp
<1> QED  BY <1>1, <1>2, <1>8

LEMMA WalksReachAll ==
  ASSUME NEW p, p.pending \subseteq Tx, NEW walk \in Walks(p)
  PROVE  IsWalk(walk) /\ \A tx \in p.pending : \E j \in 1 .. Len(walk) : walk[j] = tx
<1> DEFINE S == p.pending
           D == 1 .. Cardinality(S)
<1>1. IsFiniteSet(S) /\ Cardinality(S) \in Nat
  BY NodeAssumption, FS_Subset, FS_CardinalityType
<1>2. IsFiniteSet(D) /\ Cardinality(D) = Cardinality(S)
  BY <1>1, FS_Interval
<1>3. /\ walk \in [D -> S] /\ \A i, j \in D : i # j => walk[i] # walk[j]
      /\ \A i, j \in DOMAIN walk : i < j => walk[i].gas_price >= walk[j].gas_price
  BY DEF Walks, SetToSeqs
<1>4. walk \in Seq(Tx) /\ Len(walk) = Cardinality(S) /\ DOMAIN walk = 1 .. Len(walk)
  BY <1>1, <1>3
<1>5. IsWalk(walk)
  BY <1>3, <1>4 DEF IsWalk
<1>6. walk \in Surjection(D, S)
  <2> HIDE DEF D, S
  <2>1. walk \in Injection(D, S)
    BY <1>3 DEF Injection, IsInjective
  <2> QED  BY <1>1, <1>2, <2>1, FS_Injection
<1> QED  BY <1>4, <1>5, <1>6 DEF Surjection

LEMMA PendingGreedy ==
  ASSUME NEW p, p.pending \subseteq Tx, NEW max_gas \in Nat, NEW max_count \in Nat,
         NEW s \in GetPending(p, max_gas, max_count)
  PROVE  Greedy(s, p.pending, max_gas, max_count)
<1>1. PICK walk \in Walks(p) : s = Selected(walk, max_gas, max_count)
  BY DEF GetPending
<1>2. IsWalk(walk) /\ \A tx \in p.pending : \E j \in 1 .. Len(walk) : walk[j] = tx
  BY WalksReachAll
<1>3. GreedyUpTo(s, walk, Len(walk), max_gas, max_count)
  BY <1>1, <1>2, SelectedGreedy
<1>4. DOMAIN s = 1 .. Len(s) /\ s \in Seq(Tx)
  BY <1>3 DEF GreedyUpTo
<1>5. IsInjective(s)
  BY <1>3, <1>4 DEF GreedyUpTo, IsInjective
<1>6. \A i, j \in DOMAIN s : i < j => s[i].gas_price >= s[j].gas_price
  BY <1>3, <1>4 DEF GreedyUpTo
<1>7. ASSUME NEW tx \in p.pending \ ToSet(s)
      PROVE  \/ Len(s) = max_count
             \/ LeftOut(s, tx, max_gas)
  <2>1. PICK j \in 1 .. Len(walk) : walk[j] = tx
    BY <1>2
  <2>2. ~ \E m \in 1 .. Len(s) : s[m] = tx
    BY <1>4 DEF ToSet
  <2> QED  BY <1>3, <2>1, <2>2 DEF GreedyUpTo
<1>8. \A n \in DOMAIN s : GasOf(s, n) <= max_gas
  BY <1>3, <1>4 DEF GreedyUpTo
<1>9. Len(s) <= max_count
  BY <1>3 DEF GreedyUpTo
<1> QED  BY <1>5, <1>6, <1>7, <1>8, <1>9 DEF Greedy, LeftOut

(***************************************************************************)
(* Block production is greedy (mempool.rs, get_pending; runtime.rs,        *)
(* produce_block): for every pool, gas limit and count, and whatever the   *)
(* gas limits of the transactions, what it selects is ordered by price and *)
(* has no repetition, the u64 total of its gas, which wraps around, stays  *)
(* within the limit after every transaction, and a transaction is left out *)
(* only for the count or because this total did not admit it at its place. *)
(***************************************************************************)
THEOREM SelectionAlwaysGreedy == Spec => []SelectionGreedy
<1>1. Init => SelectionGreedy
  BY DEF Init, SelectionGreedy
<1>2. SelectionGreedy /\ AheadInv /\ [Next]_vars => SelectionGreedy'
  <2> SUFFICES ASSUME SelectionGreedy, AheadInv, [Next]_vars PROVE SelectionGreedy'
    OBVIOUS
  <2>1. CASE ProduceSelects
    <3>1. PICK txs \in GetPending(pool, BlockGasLimit, MaxTxCount) :
            selecting' = [transactions |-> txs, offered |-> pool.pending]
      BY <2>1 DEF ProduceSelects
    <3>2. Greedy(txs, pool.pending, BlockGasLimit, MaxTxCount)
      BY NodeAssumption, PendingGreedy DEF AheadInv, Reached
    <3> HIDE DEF Greedy
    <3> QED  BY <3>1, <3>2 DEF SelectionGreedy
  <2>2. ASSUME selecting' = selecting \/ selecting' = None PROVE SelectionGreedy'
    BY <2>2 DEF SelectionGreedy
  <2>3. CASE PoolStep
    BY <2>2, <2>3 DEF PoolStep, SubmitReads, SubmitAdds, blockVars
  <2>4. CASE ProductionStep
    BY <2>1, <2>2, <2>4
       DEF ProductionStep, ProduceBuilds, ApplyProposal, ApplyForeign, BlockApplied
  <2>5. CASE PersistTask
    BY <2>2, <2>5 DEF PersistTask, PersistReads, PersistStores, blockVars
  <2>6. CASE PersistenceStep
    BY <2>2, <2>6 DEF PersistenceStep, PruneTask, PersistFails, SendRawTransaction, ClearScans,
                      ClearPendingTransactions, UpdatePoolConfig, blockVars
  <2>7. CASE ForkStep \/ Tick \/ Crash \/ UNCHANGED vars
    BY <2>2, <2>7 DEF ForkStep, Tick, Crash, vars, blockVars
  <2> QED  BY <2>3, <2>4, <2>5, <2>6, <2>7 DEF Next
<1>3. Init => AheadInv
  BY EmptyReached DEF Init, AheadInv, Reached
<1> QED  BY <1>1, <1>2, <1>3, AheadInvNext, PTL DEF Spec

=============================================================================
