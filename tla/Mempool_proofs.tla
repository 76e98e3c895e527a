--------------------------- MODULE Mempool_proofs ---------------------------
(***************************************************************************)
(* The pool's invariants hold for every set of transactions and every      *)
(* configuration.  No two of them are inductive alone: the limits need the *)
(* exact sender counts, and the exact counts need the index.  PoolInv is   *)
(* their conjunction, a predicate of a pool value, and every method of the *)
(* pool is shown to map a pool that satisfies it to another one.           *)
(***************************************************************************)
EXTENDS Mempool, FiniteSetTheorems, TLAPS

PoolInv(p) ==
  /\ p \in Pool
  /\ Indexed(p)
  /\ SenderCounted(p)
  /\ Limited(p)
  /\ Metered(p)

Inv ==
  /\ PoolInv(pool)
  /\ age \in [Tx -> 0 .. MaxAge + 1]
-----------------------------------------------------------------------------
(***************************************************************************)
(* The sets a pool is made of are finite and have natural cardinalities.   *)
(***************************************************************************)
LEMMA FiniteSubsets ==
  ASSUME NEW S \in SUBSET Tx
  PROVE  IsFiniteSet(S) /\ Cardinality(S) \in Nat
BY TxAssumption, FS_Subset, FS_CardinalityType

(***************************************************************************)
(* Taking away a part of a finite set of transactions subtracts its size.  *)
(***************************************************************************)
LEMMA DifferenceCount ==
  ASSUME NEW S \in SUBSET Tx, NEW T \in SUBSET S
  PROVE  /\ Cardinality(S \ T) = Cardinality(S) - Cardinality(T)
         /\ Cardinality(T) <= Cardinality(S)
<1>1. IsFiniteSet(S)
  BY FiniteSubsets
<1>2. S \cap T = T
  OBVIOUS
<1>3. Cardinality(S \ T) = Cardinality(S) - Cardinality(S \cap T)
  BY <1>1, FS_Difference
<1>4. Cardinality(T) <= Cardinality(S)
  BY <1>1, FS_Subset
<1> QED
  BY <1>2, <1>3, <1>4

(***************************************************************************)
(* `remove', applied to any set of hashes, keeps the pool consistent:      *)
(* the slot it frees, the sender counts and the metrics all follow.        *)
(***************************************************************************)
LEMMA RemoveAllInv ==
  ASSUME NEW p, PoolInv(p), NEW S
  PROVE  PoolInv(RemoveAll(p, S))
<1> DEFINE gone  == S \cap p.by_hash
           freed == FreedSlots(p, gone)
           r     == RemoveAll(p, S)
<1>1. /\ p.pending \in SUBSET Tx /\ p.queued \in SUBSET Tx /\ p.by_hash \in SUBSET Tx
      /\ p.by_sender \in [Address -> Nat]
      /\ p.pending_count \in Nat /\ p.queued_count \in Nat
      /\ p.total_added \in Nat /\ p.total_removed \in Nat
  BY DEF PoolInv, Pool
<1>2. /\ r.pending = p.pending \ gone
      /\ r.queued = p.queued \ freed
      /\ r.by_hash = p.by_hash \ gone
      /\ r.by_sender = SenderCountsAfter(p, gone)
      /\ r.pending_count = PendingCountAfter(p, gone)
      /\ r.queued_count = Monus(p.queued_count, Cardinality(freed))
      /\ r.total_transactions = Cardinality(p.by_hash \ gone)
      /\ r.total_added = p.total_added
      /\ r.total_removed = p.total_removed + Cardinality(gone)
  BY DEF RemoveAll
<1>3. /\ gone \in SUBSET p.by_hash
      /\ freed \in SUBSET p.queued
      /\ p.pending \cap gone \in SUBSET p.pending
  BY DEF FreedSlots
<1>4. /\ Cardinality(p.by_hash \ gone) = Cardinality(p.by_hash) - Cardinality(gone)
      /\ Cardinality(gone) <= Cardinality(p.by_hash)
  BY <1>1, <1>3, DifferenceCount
<1>5. /\ Cardinality(p.queued \ freed) = Cardinality(p.queued) - Cardinality(freed)
      /\ Cardinality(freed) <= Cardinality(p.queued)
  BY <1>1, <1>3, DifferenceCount
<1>6. /\ Cardinality(p.pending \ gone) = Cardinality(p.pending) - Cardinality(p.pending \cap gone)
      /\ Cardinality(p.pending \cap gone) <= Cardinality(p.pending)
  <2>1. p.pending \ gone = p.pending \ (p.pending \cap gone)
    OBVIOUS
  <2> QED
    BY <1>1, <1>3, <2>1, DifferenceCount
<1>7. /\ Cardinality(gone) \in Nat /\ Cardinality(freed) \in Nat
      /\ Cardinality(p.pending \cap gone) \in Nat
      /\ Cardinality(p.by_hash) \in Nat /\ Cardinality(p.queued) \in Nat
      /\ Cardinality(p.pending) \in Nat /\ Cardinality(p.by_hash \ gone) \in Nat
  BY <1>1, <1>3, FiniteSubsets
<1>8. ASSUME NEW a \in Address
      PROVE  /\ Cardinality(From(r.by_hash, a))
                  = Cardinality(From(p.by_hash, a)) - Cardinality(From(gone, a))
             /\ Cardinality(From(gone, a)) <= Cardinality(From(p.by_hash, a))
             /\ Cardinality(From(gone, a)) \in Nat
             /\ Cardinality(From(p.by_hash, a)) \in Nat
  <2>1. From(r.by_hash, a) = From(p.by_hash, a) \ From(gone, a)
    BY <1>2 DEF From
  <2>2. From(gone, a) \in SUBSET From(p.by_hash, a) /\ From(p.by_hash, a) \in SUBSET Tx
    BY <1>1, <1>3 DEF From
  <2>3. From(gone, a) \in SUBSET Tx
    BY <2>2
  <2> QED
    BY <2>1, <2>2, <2>3, DifferenceCount, FiniteSubsets
<1>9. ASSUME NEW a \in Address
      PROVE  r.by_sender[a] = Cardinality(From(r.by_hash, a))
  <2>1. p.by_sender[a] = Cardinality(From(p.by_hash, a))
    BY DEF PoolInv, SenderCounted
  <2>2. r.by_sender[a] = Monus(p.by_sender[a], Cardinality(From(gone, a)))
    BY <1>2 DEF SenderCountsAfter
  <2>3. /\ Cardinality(From(r.by_hash, a))
             = Cardinality(From(p.by_hash, a)) - Cardinality(From(gone, a))
        /\ Cardinality(From(gone, a)) <= Cardinality(From(p.by_hash, a))
        /\ Cardinality(From(gone, a)) \in Nat
        /\ Cardinality(From(p.by_hash, a)) \in Nat
    BY <1>8
  <2> HIDE DEF gone, freed, r
  <2> QED
    BY <2>1, <2>2, <2>3 DEF Monus
<1>10. r \in Pool
  <2>1. r.by_sender \in [Address -> Nat]
    <3>1. \A a \in Address : Monus(p.by_sender[a], Cardinality(From(gone, a))) \in Nat
      <4> TAKE a \in Address
      <4>1. p.by_sender[a] \in Nat /\ Cardinality(From(gone, a)) \in Nat
        BY <1>1, <1>8
      <4> HIDE DEF gone, freed, r
      <4> QED
        BY <4>1 DEF Monus
    <3> QED
      BY <1>2, <3>1 DEF SenderCountsAfter
  <2>2. r.pending_count \in Nat /\ r.queued_count \in Nat
    BY <1>1, <1>2, <1>7 DEF PendingCountAfter, Monus
  <2>3. r.total_transactions \in Nat /\ r.total_added \in Nat /\ r.total_removed \in Nat
    BY <1>1, <1>2, <1>7
  <2>4. r.pending \in SUBSET Tx /\ r.queued \in SUBSET Tx /\ r.by_hash \in SUBSET Tx
    BY <1>1, <1>2
  <2> QED
    BY <2>1, <2>2, <2>3, <2>4 DEF Pool, RemoveAll
<1>11. Indexed(r)
  <2>1. Indexed(p)
    BY DEF PoolInv
  <2>2. \A q \in r.queued : q \notin gone
    BY <1>2 DEF FreedSlots, SameSlot
  <2> QED
    BY <1>2, <2>1, <2>2 DEF Indexed
<1>12. SenderCounted(r)
  BY <1>9 DEF SenderCounted
<1>13. Limited(r)
  <2>1. Limited(p)
    BY DEF PoolInv
  <2>2. Cardinality(r.by_hash) <= MaxSize
    BY <1>2, <1>4, <1>7, <2>1, ConfigAssumption DEF Limited
  <2>3. ASSUME NEW a \in Address
        PROVE  Cardinality(From(r.by_hash, a)) <= MaxPerAccount
    BY <1>8, <2>1, ConfigAssumption DEF Limited
  <2> QED
    BY <2>2, <2>3 DEF Limited
<1>14. Metered(r)
  <2>1. Metered(p)
    BY DEF PoolInv
  <2>2. r.pending_count = Cardinality(r.pending)
    BY <1>2, <1>6, <1>7, <2>1 DEF Metered, PendingCountAfter, Monus
  <2>3. r.queued_count >= Cardinality(r.queued)
    BY <1>1, <1>2, <1>5, <1>7, <2>1 DEF Metered, Monus
  <2>4. /\ r.total_transactions = Cardinality(r.by_hash)
        /\ r.total_added = r.total_removed + Cardinality(r.by_hash)
    BY <1>1, <1>2, <1>4, <1>7, <2>1 DEF Metered
  <2> QED
    BY <2>2, <2>3, <2>4 DEF Metered
<1> QED
  BY <1>10, <1>11, <1>12, <1>13, <1>14 DEF PoolInv

(***************************************************************************)
(* Evicting a pending transaction makes room for one more.                 *)
(***************************************************************************)
LEMMA EvictionMakesRoom ==
  ASSUME NEW p, PoolInv(p), NEW victim \in p.pending
  PROVE  Cardinality(RemoveAll(p, {victim}).by_hash) = Cardinality(p.by_hash) - 1
<1>1. victim \in p.by_hash /\ p.by_hash \in SUBSET Tx
  BY DEF PoolInv, Indexed, Pool
<1>2. RemoveAll(p, {victim}).by_hash = p.by_hash \ {victim}
  BY <1>1 DEF RemoveAll
<1> QED
  BY <1>1, <1>2, FiniteSubsets, FS_RemoveElement, ZenonT(60)

(***************************************************************************)
(* What the two ways of inserting a transaction have in common: the index  *)
(* grows by one, and so does the count of its sender.                      *)
(***************************************************************************)
LEMMA IndexGrows ==
  ASSUME NEW p, PoolInv(p), NEW tx \in Tx, tx \notin p.by_hash,
         Cardinality(p.by_hash) < MaxSize, p.by_sender[tx.from] < MaxPerAccount,
         NEW r, r.by_hash = p.by_hash \cup {tx},
         r.by_sender = [p.by_sender EXCEPT ![tx.from] = @ + 1]
  PROVE  /\ r.by_sender \in [Address -> Nat]
         /\ SenderCounted(r)
         /\ Limited(r)
         /\ Cardinality(r.by_hash) = Cardinality(p.by_hash) + 1
         /\ Cardinality(p.by_hash) \in Nat
<1>1. /\ p.by_hash \in SUBSET Tx
      /\ p.by_sender \in [Address -> Nat]
      /\ tx.from \in Address
  BY TxAssumption DEF PoolInv, Pool, IsTransaction
<1>2. /\ IsFiniteSet(p.by_hash)
      /\ Cardinality(p.by_hash) \in Nat
      /\ Cardinality(r.by_hash) = Cardinality(p.by_hash) + 1
  BY <1>1, FiniteSubsets, FS_AddElement
<1>3. ASSUME NEW a \in Address
      PROVE  /\ r.by_sender[a] = Cardinality(From(r.by_hash, a))
             /\ Cardinality(From(r.by_hash, a)) <= MaxPerAccount
             /\ r.by_sender[a] \in Nat
  <2>1. /\ p.by_sender[a] = Cardinality(From(p.by_hash, a))
        /\ Cardinality(From(p.by_hash, a)) <= MaxPerAccount
    BY DEF PoolInv, SenderCounted, Limited
  <2>2. From(p.by_hash, a) \in SUBSET Tx
    BY <1>1 DEF From
  <2>3. IsFiniteSet(From(p.by_hash, a)) /\ Cardinality(From(p.by_hash, a)) \in Nat
    BY <2>2, FiniteSubsets
  <2>4. CASE a = tx.from
    <3>1. From(r.by_hash, a) = From(p.by_hash, a) \cup {tx} /\ tx \notin From(p.by_hash, a)
      BY <2>4 DEF From
    <3>2. Cardinality(From(r.by_hash, a)) = Cardinality(From(p.by_hash, a)) + 1
      BY <2>3, <3>1, FS_AddElement
    <3>3. r.by_sender[a] = p.by_sender[a] + 1
      BY <1>1, <2>4
    <3> QED
      BY <2>1, <2>3, <2>4, <3>2, <3>3, ConfigAssumption
  <2>5. CASE a # tx.from
    <3>1. From(r.by_hash, a) = From(p.by_hash, a)
      BY <2>5 DEF From
    <3>2. r.by_sender[a] = p.by_sender[a]
      BY <1>1, <2>5
    <3> QED
      BY <2>1, <2>3, <3>1, <3>2
  <2> QED
    BY <2>4, <2>5
<1>4. r.by_sender \in [Address -> Nat]
  BY <1>1
<1>5. SenderCounted(r)
  BY <1>3 DEF SenderCounted
<1>6. Cardinality(r.by_hash) <= MaxSize
  BY <1>2, ConfigAssumption
<1>7. Limited(r)
  BY <1>3, <1>6 DEF Limited
<1> QED
  BY <1>2, <1>4, <1>5, <1>7

(***************************************************************************)
(* Inserting an admissible transaction as pending keeps the pool           *)
(* consistent.                                                             *)
(***************************************************************************)
LEMMA InsertPendingInv ==
  ASSUME NEW p, PoolInv(p), NEW tx \in Tx, tx \notin p.by_hash,
         Cardinality(p.by_hash) < MaxSize, p.by_sender[tx.from] < MaxPerAccount
  PROVE  PoolInv(InsertPending(p, tx))
<1> DEFINE r == InsertPending(p, tx)
<1>1. p \in Pool /\ Indexed(p) /\ Metered(p)
  BY DEF PoolInv
<1>2. /\ r.pending = p.pending \cup {tx} /\ r.queued = p.queued
      /\ r.by_hash = p.by_hash \cup {tx}
      /\ r.by_sender = [p.by_sender EXCEPT ![tx.from] = @ + 1]
      /\ r.pending_count = p.pending_count + 1 /\ r.queued_count = p.queued_count
      /\ r.total_transactions = Cardinality(p.by_hash \cup {tx})
      /\ r.total_added = p.total_added + 1 /\ r.total_removed = p.total_removed
  BY DEF InsertPending
<1>3. /\ r.by_sender \in [Address -> Nat] /\ SenderCounted(r) /\ Limited(r)
      /\ Cardinality(r.by_hash) = Cardinality(p.by_hash) + 1
      /\ Cardinality(p.by_hash) \in Nat
  BY <1>2, IndexGrows, ZenonT(60)
<1>4. Cardinality(r.pending) = Cardinality(p.pending) + 1 /\ Cardinality(p.pending) \in Nat
  <2>1. tx \notin p.pending /\ IsFiniteSet(p.pending) /\ Cardinality(p.pending) \in Nat
    BY <1>1, FiniteSubsets DEF Indexed, Pool
  <2>2. Cardinality(p.pending \cup {tx}) = Cardinality(p.pending) + 1
    BY <2>1, FS_AddElement
  <2> QED
    BY <1>2, <2>1, <2>2
<1>5. r \in Pool
  <2>1. /\ r.total_transactions \in Nat /\ r.total_added \in Nat
        /\ r.pending_count \in Nat
    BY <1>1, <1>2, <1>3 DEF Pool
  <2>2. r.pending \in SUBSET Tx /\ r.by_hash \in SUBSET Tx
    BY <1>1, <1>2 DEF Pool
  <2> QED
    BY <1>1, <1>2, <1>3, <2>1, <2>2 DEF Pool, InsertPending
<1>6. Indexed(r)
  BY <1>1, <1>2 DEF Indexed
<1>7. Metered(r)
  BY <1>1, <1>2, <1>3, <1>4 DEF Metered, Pool
<1> QED
  BY <1>3, <1>5, <1>6, <1>7 DEF PoolInv

(***************************************************************************)
(* Inserting it as queued does too, though the transaction that held its   *)
(* slot is then known to the index only.                                   *)
(***************************************************************************)
LEMMA InsertQueuedInv ==
  ASSUME NEW p, PoolInv(p), NEW tx \in Tx, tx \notin p.by_hash,
         Cardinality(p.by_hash) < MaxSize, p.by_sender[tx.from] < MaxPerAccount
  PROVE  PoolInv(InsertQueued(p, tx))
<1> DEFINE r    == InsertQueued(p, tx)
           rest == {q \in p.queued : ~SameSlot(q, tx)}
<1>1. p \in Pool /\ Indexed(p) /\ Metered(p)
  BY DEF PoolInv
<1>2. /\ r.pending = p.pending /\ r.queued = rest \cup {tx}
      /\ r.by_hash = p.by_hash \cup {tx}
      /\ r.by_sender = [p.by_sender EXCEPT ![tx.from] = @ + 1]
      /\ r.pending_count = p.pending_count /\ r.queued_count = p.queued_count + 1
      /\ r.total_transactions = Cardinality(p.by_hash \cup {tx})
      /\ r.total_added = p.total_added + 1 /\ r.total_removed = p.total_removed
  BY DEF InsertQueued
<1>3. /\ r.by_sender \in [Address -> Nat] /\ SenderCounted(r) /\ Limited(r)
      /\ Cardinality(r.by_hash) = Cardinality(p.by_hash) + 1
      /\ Cardinality(p.by_hash) \in Nat
  BY <1>2, IndexGrows, ZenonT(60)
<1>4. /\ Cardinality(r.queued) <= Cardinality(p.queued) + 1
      /\ Cardinality(r.queued) \in Nat /\ Cardinality(p.queued) \in Nat
  <2>1. /\ IsFiniteSet(p.queued) /\ Cardinality(p.queued) \in Nat
        /\ rest \in SUBSET p.queued /\ tx \notin rest
    BY <1>1, FiniteSubsets DEF Indexed, Pool
  <2>2. IsFiniteSet(rest) /\ Cardinality(rest) <= Cardinality(p.queued) /\ Cardinality(rest) \in Nat
    BY <2>1, FS_Subset, FS_CardinalityType
  <2> HIDE DEF rest
  <2>3. Cardinality(rest \cup {tx}) = Cardinality(rest) + 1
    BY <2>1, <2>2, FS_AddElement
  <2> QED
    BY <1>2, <2>1, <2>2, <2>3
<1>5. r \in Pool
  <2>1. /\ r.total_transactions \in Nat /\ r.total_added \in Nat
        /\ r.queued_count \in Nat
    BY <1>1, <1>2, <1>3 DEF Pool
  <2>2. r.queued \in SUBSET Tx /\ r.by_hash \in SUBSET Tx
    BY <1>1, <1>2 DEF Pool
  <2> QED
    BY <1>1, <1>2, <1>3, <2>1, <2>2 DEF Pool, InsertQueued
<1>6. Indexed(r)
  BY <1>1, <1>2 DEF Indexed, SameSlot
<1>7. Metered(r)
  BY <1>1, <1>2, <1>3, <1>4 DEF Metered, Pool
<1> QED
  BY <1>3, <1>5, <1>6, <1>7 DEF PoolInv

(***************************************************************************)
(* Promotion moves entries between the two collections and nothing else.   *)
(***************************************************************************)
LEMMA PromoteQueuedInv ==
  ASSUME NEW p, PoolInv(p)
  PROVE  PoolInv(PromoteQueued(p))
<1> DEFINE r  == PromoteQueued(p)
           up == Promotable(p)
<1>1. /\ p \in Pool /\ Indexed(p) /\ Metered(p)
      /\ SenderCounted(p) /\ Limited(p)
  BY DEF PoolInv
<1>2. /\ r.pending = p.pending \cup up /\ r.queued = p.queued \ up
      /\ r.by_hash = p.by_hash /\ r.by_sender = p.by_sender
      /\ r.pending_count = p.pending_count + Cardinality(up)
      /\ r.queued_count = Monus(p.queued_count, Cardinality(up))
      /\ r.total_transactions = p.total_transactions
      /\ r.total_added = p.total_added /\ r.total_removed = p.total_removed
  BY DEF PromoteQueued
<1>3. up \in SUBSET p.queued /\ p.queued \in SUBSET Tx /\ p.pending \in SUBSET Tx
  BY <1>1 DEF Promotable, Pool
<1>4. /\ Cardinality(p.queued \ up) = Cardinality(p.queued) - Cardinality(up)
      /\ Cardinality(up) <= Cardinality(p.queued)
      /\ Cardinality(up) \in Nat /\ Cardinality(p.queued) \in Nat
      /\ Cardinality(p.pending) \in Nat
  BY <1>3, DifferenceCount, FiniteSubsets
<1>5. Cardinality(p.pending \cup up) = Cardinality(p.pending) + Cardinality(up)
  <2>1. p.pending \cap up = {}
    BY <1>1, <1>3 DEF Indexed
  <2>2. up \in SUBSET Tx
    BY <1>3
  <2>3. IsFiniteSet(p.pending) /\ IsFiniteSet(up)
    BY <1>3, <2>2, FiniteSubsets
  <2>4. Cardinality(p.pending \cap up) = 0
    BY <2>1, FS_EmptySet
  <2>5. Cardinality(p.pending \cup up)
          = Cardinality(p.pending) + Cardinality(up) - Cardinality(p.pending \cap up)
    BY <2>3, FS_Union
  <2> QED
    BY <1>4, <2>4, <2>5
<1>6. r \in Pool
  <2>1. r.pending_count \in Nat /\ r.queued_count \in Nat
    BY <1>1, <1>2, <1>4 DEF Pool, Monus
  <2>2. r.pending \in SUBSET Tx /\ r.queued \in SUBSET Tx
    BY <1>2, <1>3
  <2> QED
    BY <1>1, <1>2, <2>1, <2>2 DEF Pool, PromoteQueued
<1>7. Indexed(r)
  BY <1>1, <1>2, <1>3 DEF Indexed
<1>8. SenderCounted(r) /\ Limited(r)
  BY <1>1, <1>2 DEF SenderCounted, Limited
<1>9. Metered(r)
  <2>1. r.pending_count = Cardinality(r.pending)
    BY <1>1, <1>2, <1>5 DEF Metered
  <2>2. r.queued_count >= Cardinality(r.queued)
    BY <1>1, <1>2, <1>4 DEF Metered, Monus, Pool
  <2> QED
    BY <1>1, <1>2, <2>1, <2>2 DEF Metered
<1> QED
  BY <1>6, <1>7, <1>8, <1>9 DEF PoolInv

(***************************************************************************)
(* The whole of `add': what it leaves behind is consistent whether it      *)
(* evicts or not and whether it then accepts the transaction or not.       *)
(***************************************************************************)
LEMMA AddInv ==
  ASSUME NEW p, PoolInv(p), NEW tx \in Tx, tx \notin p.by_hash, NEW n
  PROVE  /\ \A r \in Accepted(p, tx, n) : PoolInv(r)
         /\ \A r \in Rejected(p, tx, n) : PoolInv(r)
<1>1. ASSUME NEW r \in MadeRoom(p)
      PROVE  PoolInv(r) /\ tx \notin r.by_hash /\ Cardinality(r.by_hash) < MaxSize
  <2>1. Cardinality(p.by_hash) \in Nat /\ Cardinality(p.by_hash) <= MaxSize
    BY FiniteSubsets DEF PoolInv, Pool, Limited
  <2>2. CASE Cardinality(p.by_hash) >= MaxSize
    <3>1. PICK victim \in EvictionCandidates(p) : r = RemoveAll(p, {victim})
      BY <2>2 DEF MadeRoom
    <3>2. victim \in p.pending
      BY DEF EvictionCandidates
    <3>3. PoolInv(r)
      BY <3>1, RemoveAllInv
    <3>4. Cardinality(r.by_hash) = Cardinality(p.by_hash) - 1
      BY <3>1, <3>2, EvictionMakesRoom
    <3>5. tx \notin r.by_hash
      BY <3>1 DEF RemoveAll
    <3> QED
      BY <2>1, <3>3, <3>4, <3>5, ConfigAssumption
  <2>3. CASE ~(Cardinality(p.by_hash) >= MaxSize)
    BY <2>1, <2>3, ConfigAssumption DEF MadeRoom
  <2> QED
    BY <2>2, <2>3
<1>2. ASSUME NEW r \in Accepted(p, tx, n)
      PROVE  PoolInv(r)
  <2>1. PICK q \in MadeRoom(p) : Admissible(q, tx, n) /\ r = Insert(q, tx, n)
    BY DEF Accepted
  <2>2. /\ PoolInv(q) /\ tx \notin q.by_hash /\ Cardinality(q.by_hash) < MaxSize
        /\ q.by_sender[tx.from] < MaxPerAccount
    BY <1>1, <2>1 DEF Admissible
  <2>3. PoolInv(InsertPending(q, tx)) /\ PoolInv(InsertQueued(q, tx))
    BY <2>2, InsertPendingInv, InsertQueuedInv
  <2> QED
    BY <2>1, <2>3 DEF Insert
<1>3. ASSUME NEW r \in Rejected(p, tx, n)
      PROVE  PoolInv(r)
  BY <1>1 DEF Rejected
<1> QED
  BY <1>2, <1>3
-----------------------------------------------------------------------------
(***************************************************************************)
(* A new or cleared pool is consistent.                                    *)
(***************************************************************************)
LEMMA EmptyPoolInv == PoolInv(EmptyPool)
<1>1. \A a \in Address : From({}, a) = {}
  BY DEF From
<1>2. Cardinality({}) = 0
  BY FS_EmptySet
<1>3. EmptyPool \in Pool
  BY DEF EmptyPool, Pool
<1>4. /\ EmptyPool.pending = {} /\ EmptyPool.queued = {} /\ EmptyPool.by_hash = {}
      /\ EmptyPool.pending_count = 0 /\ EmptyPool.queued_count = 0
      /\ EmptyPool.total_transactions = 0
      /\ EmptyPool.total_added = 0 /\ EmptyPool.total_removed = 0
  BY DEF EmptyPool
<1>5. \A a \in Address : EmptyPool.by_sender[a] = 0
  BY DEF EmptyPool
<1>6. Indexed(EmptyPool)
  BY <1>4 DEF Indexed
<1>7. SenderCounted(EmptyPool)
  BY <1>1, <1>2, <1>4, <1>5 DEF SenderCounted
<1>8. Limited(EmptyPool)
  BY <1>1, <1>2, <1>4, ConfigAssumption DEF Limited
<1>9. Metered(EmptyPool)
  BY <1>2, <1>4 DEF Metered
<1> QED
  BY <1>3, <1>6, <1>7, <1>8, <1>9 DEF PoolInv

(***************************************************************************)
(* Init establishes Inv and every step of the pool preserves it.           *)
(***************************************************************************)
LEMMA InitInv == Init => Inv
BY EmptyPoolInv, ConfigAssumption DEF Init, Inv

LEMMA NextInv == Inv /\ [Next]_vars => Inv'
<1> SUFFICES ASSUME Inv, [Next]_vars PROVE Inv'
  OBVIOUS
<1> USE DEF Inv
<1>1. ASSUME NEW tx \in Tx, NEW n \in Nonces, Add(tx, n)
      PROVE  Inv'
  <2>1. tx \notin pool.by_hash
    BY <1>1 DEF Add, Addable
  <2>2. PoolInv(pool')
    BY <1>1, <2>1, AddInv DEF Add
  <2>3. age' \in [Tx -> 0 .. MaxAge + 1]
    BY <1>1, ConfigAssumption DEF Add
  <2> QED
    BY <2>2, <2>3
<1>2. ASSUME NEW tx \in Tx, Remove(tx)
      PROVE  Inv'
  BY <1>2, RemoveAllInv DEF Remove
<1>3. ASSUME NEW S \in SUBSET Tx, Include(S)
      PROVE  Inv'
  BY <1>3, RemoveAllInv, PromoteQueuedInv DEF Include, RemoveIncluded
<1>4. CASE Prune
  BY <1>4, RemoveAllInv DEF Prune
<1>5. CASE Clear
  BY <1>5, EmptyPoolInv DEF Clear
<1>6. CASE Tick
  BY <1>6, ConfigAssumption DEF Tick
<1>7. CASE UNCHANGED vars
  BY <1>7 DEF vars
<1> QED
  BY <1>1, <1>2, <1>3, <1>4, <1>5, <1>6, <1>7 DEF Next

LEMMA SpecInv == Spec => []Inv
<1>1. Init => Inv
  BY InitInv
<1>2. Inv /\ [Next]_vars => Inv'
  BY NextInv
<1> QED
  BY <1>1, <1>2, PTL DEF Spec

(***************************************************************************)
(* Type correctness of the pool.                                           *)
(***************************************************************************)
THEOREM TypeCorrect == Spec => []TypeOK
<1>1. Inv => TypeOK
  BY DEF Inv, PoolInv, TypeOK
<1> QED
  BY <1>1, SpecInv, PTL

(***************************************************************************)
(* Pending and queued entries are indexed, apart and one to a slot, for    *)
(* every set of transactions and every configuration.                      *)
(***************************************************************************)
THEOREM EntriesIndexedAlways == Spec => []EntriesIndexed
<1>1. Inv => EntriesIndexed
  BY DEF Inv, PoolInv, EntriesIndexed
<1> QED
  BY <1>1, SpecInv, PTL

(***************************************************************************)
(* The sender counts are exact.                                            *)
(***************************************************************************)
THEOREM SenderCountsAlwaysExact == Spec => []SenderCountsExact
<1>1. Inv => SenderCountsExact
  BY DEF Inv, PoolInv, SenderCountsExact
<1> QED
  BY <1>1, SpecInv, PTL

(***************************************************************************)
(* max_size and max_per_account are never exceeded.                        *)
(***************************************************************************)
THEOREM LimitsAlwaysRespected == Spec => []LimitsRespected
<1>1. Inv => LimitsRespected
  BY DEF Inv, PoolInv, LimitsRespected
<1> QED
  BY <1>1, SpecInv, PTL

(***************************************************************************)
(* The metrics agree with the collections they describe.                   *)
(***************************************************************************)
THEOREM MetricsAlwaysConsistent == Spec => []MetricsConsistent
<1>1. Inv => MetricsConsistent
  BY DEF Inv, PoolInv, MetricsConsistent
<1> QED
  BY <1>1, SpecInv, PTL
=============================================================================
