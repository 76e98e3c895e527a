---------------------------- MODULE Chain_proofs ----------------------------
(***************************************************************************)
(* Proofs about the world state, its undo journal and the chain, for every *)
(* set of addresses, transactions, hashes and bodies, and every bound.     *)
(* First the lemmas about the world state that both use, then the journal  *)
(* (StateJournal), then the chain (Chain).                                 *)
(***************************************************************************)
EXTENDS Chain, StateJournal, SequenceTheorems, Sums_proofs

(***************************************************************************)
(* Shape of one write: the top frame gets a record of the replaced entry   *)
(* unless it has one, and no other frame changes.                          *)
(***************************************************************************)
LEMMA SetAccountShape ==
  ASSUME NEW w \in WorldStates, Depth(w) >= 1, NEW a \in Address, NEW e \in Account
  PROVE  /\ SetAccount(w, a, e) \in WorldStates
         /\ Depth(SetAccount(w, a, e)) = Depth(w)
         /\ SetAccount(w, a, e).accounts = [w.accounts EXCEPT ![a] = e]
         /\ \A i \in 1 .. Depth(w) - 1 :
              SetAccount(w, a, e).modifications[i] = w.modifications[i]
         /\ \A b \in Address :
              TopFrame(SetAccount(w, a, e))[b] =
                IF b = a /\ TopFrame(w)[b] = NotRecorded
                THEN w.accounts[b] ELSE TopFrame(w)[b]
<1> DEFINE m == w.modifications
           f == m[Len(m)]
           n == SetAccount(w, a, e)
<1>1. m \in Seq(Frame) /\ Len(m) \in Nat /\ Len(m) >= 1
  BY DEF WorldStates, Depth
<1>2. f \in Frame
  BY <1>1
<1>3. w.accounts \in [Address -> AccountEntry]
  BY DEF WorldStates
<1>4. [w.accounts EXCEPT ![a] = e] \in [Address -> AccountEntry]
  BY <1>3 DEF AccountEntry
<1>5. CASE f[a] = NotRecorded
  <2> DEFINE g == [f EXCEPT ![a] = w.accounts[a]]
  <2>1. g \in Frame
    BY <1>2, <1>3 DEF Frame
  <2>2. n.modifications = [m EXCEPT ![Len(m)] = g]
    BY <1>5 DEF SetAccount, RecordAccountModification, TopFrame, Depth
  <2>3. /\ n.modifications \in Seq(Frame)
        /\ Len(n.modifications) = Len(m)
        /\ n.modifications[Len(m)] = g
        /\ \A i \in 1 .. Len(m) - 1 : n.modifications[i] = m[i]
    <3> HIDE DEF g, m, n
    <3> QED  BY <1>1, <2>1, <2>2
  <2>4. \A b \in Address :
          g[b] = IF b = a /\ f[b] = NotRecorded THEN w.accounts[b] ELSE f[b]
    BY <1>2, <1>5 DEF Frame
  <2> QED  BY <1>4, <2>3, <2>4 DEF SetAccount, WorldStates, Depth, TopFrame
<1>6. CASE f[a] # NotRecorded
  <2>1. n.modifications = m
    BY <1>6 DEF SetAccount, RecordAccountModification, TopFrame, Depth
  <2> QED  BY <1>1, <1>4, <1>6, <2>1 DEF SetAccount, WorldStates, Depth, TopFrame
<1> QED  BY <1>5, <1>6

LEMMA SetAccountType ==
  ASSUME NEW w \in WorldStates, Depth(w) >= 1, NEW a \in Address, NEW e \in Account
  PROVE  SetAccount(w, a, e) \in WorldStates /\ Depth(SetAccount(w, a, e)) = Depth(w)
<1> DEFINE n == SetAccount(w, a, e)
<1>1. n \in WorldStates /\ Depth(n) = Depth(w)
  BY SetAccountShape, ZenonT(60)
<1> QED  BY <1>1

LEMMA SetAccountRecords ==
  ASSUME NEW w \in WorldStates, Depth(w) >= 1, NEW a \in Address, NEW e \in Account,
         NEW b \in Address
  PROVE  TopFrame(SetAccount(w, a, e))[b] =
           IF b = a /\ TopFrame(w)[b] = NotRecorded
           THEN w.accounts[b] ELSE TopFrame(w)[b]
<1>1. \A c \in Address :
        TopFrame(SetAccount(w, a, e))[c] =
          IF c = a /\ TopFrame(w)[c] = NotRecorded
          THEN w.accounts[c] ELSE TopFrame(w)[c]
  BY SetAccountShape, ZenonT(60)
<1> QED  BY <1>1

(***************************************************************************)
(* get_account gives an account whether or not the address has an entry.   *)
(***************************************************************************)
LEMMA GetAccountType ==
  ASSUME NEW w \in WorldStates, NEW a \in Address
  PROVE  GetAccount(w, a) \in Account
BY DEF WorldStates, GetAccount, NewAccount, AccountEntry, Account

(***************************************************************************)
(* Popping through a checkpoint leaves the frames below it.                *)
(***************************************************************************)
LEMMA PopFrameShape ==
  ASSUME NEW w \in WorldStates, Depth(w) >= 2
  PROVE  /\ PopFrame(w) \in Seq(Frame)
         /\ Len(PopFrame(w)) = Depth(w) - 1
<1>1. w.modifications \in Seq(Frame) /\ Len(w.modifications) \in Nat
  BY DEF WorldStates
<1>d. Depth(w) \in Nat
  BY <1>1 DEF Depth
<1>2. Depth(w) # 1
  BY <1>d
<1>3. PopFrame(w) = SubSeq(w.modifications, 1, Depth(w) - 1)
  BY <1>2, Zenon DEF PopFrame
<1> QED  BY <1>1, <1>3 DEF Depth

LEMMA EmptyFrameType == EmptyFrame \in Frame
BY DEF EmptyFrame, Frame

LEMMA RestoredType ==
  ASSUME NEW w \in WorldStates, Depth(w) >= 1
  PROVE  Restored(w) \in [Address -> AccountEntry]
<1>1. TopFrame(w) \in Frame
  BY DEF WorldStates, TopFrame, Depth
<1>2. w.accounts \in [Address -> AccountEntry]
  BY DEF WorldStates
<1> QED  BY <1>1, <1>2 DEF Restored, Frame
-----------------------------------------------------------------------------
(***************************************************************************)
(* What is written between a checkpoint and its commit or rollback.  Holds *)
(* says that the top frame has what it takes to restore the accounts s,    *)
(* Within that w was reached from w0 by a checkpoint and writes.           *)
(***************************************************************************)
Holds(w, s) ==
  \A a \in Address :
    s[a] = IF TopFrame(w)[a] = NotRecorded THEN w.accounts[a] ELSE TopFrame(w)[a]

Within(w0, w) ==
  /\ w \in WorldStates
  /\ Depth(w) = Depth(w0) + 1
  /\ \A i \in 1 .. Depth(w0) : w.modifications[i] = w0.modifications[i]
  /\ Holds(w, w0.accounts)

LEMMA CheckpointOpens ==
  ASSUME NEW w \in WorldStates
  PROVE  Within(w, Checkpoint(w)) /\ Checkpoint(w).accounts = w.accounts
<1> DEFINE c == Checkpoint(w)
<1>1. w.modifications \in Seq(Frame) /\ w.accounts \in [Address -> AccountEntry]
  BY DEF WorldStates
<1>2. /\ c.modifications \in Seq(Frame)
      /\ Len(c.modifications) = Len(w.modifications) + 1
      /\ c.modifications[Len(w.modifications) + 1] = EmptyFrame
      /\ \A i \in 1 .. Len(w.modifications) : c.modifications[i] = w.modifications[i]
  BY <1>1, EmptyFrameType DEF Checkpoint
<1>3. c.accounts = w.accounts /\ c \in WorldStates
  BY <1>1, <1>2 DEF Checkpoint, WorldStates
<1>4. Holds(c, w.accounts)
  BY <1>2, <1>3 DEF Holds, TopFrame, Depth, EmptyFrame
<1> QED  BY <1>2, <1>3, <1>4 DEF Within, Depth

LEMMA WriteStaysWithin ==
  ASSUME NEW w0 \in WorldStates, Depth(w0) >= 1, NEW w, Within(w0, w),
         NEW a \in Address, NEW e \in Account
  PROVE  Within(w0, SetAccount(w, a, e))
<1> DEFINE n == SetAccount(w, a, e)
<1>1. w \in WorldStates /\ Depth(w0) \in Nat /\ Depth(w) = Depth(w0) + 1 /\ Depth(w) >= 1
  BY DEF Within, WorldStates, Depth
<1>2. n \in WorldStates /\ Depth(n) = Depth(w)
  BY <1>1, SetAccountType
<1>3. \A i \in 1 .. Depth(w) - 1 : n.modifications[i] = w.modifications[i]
  BY <1>1, SetAccountShape, ZenonT(60)
<1>4. \A i \in 1 .. Depth(w0) : n.modifications[i] = w0.modifications[i]
  BY <1>1, <1>3 DEF Within
<1>5. w.accounts \in [Address -> AccountEntry] /\ n.accounts = [w.accounts EXCEPT ![a] = e]
  BY <1>1 DEF WorldStates, SetAccount
<1>6. Holds(n, w0.accounts)
  <2> SUFFICES ASSUME NEW b \in Address
               PROVE  w0.accounts[b] = IF TopFrame(n)[b] = NotRecorded
                                       THEN n.accounts[b] ELSE TopFrame(n)[b]
    BY DEF Holds
  <2>1. TopFrame(n)[b] = IF b = a /\ TopFrame(w)[b] = NotRecorded
                         THEN w.accounts[b] ELSE TopFrame(w)[b]
    BY <1>1, SetAccountRecords
  <2>2. w0.accounts[b] = IF TopFrame(w)[b] = NotRecorded
                         THEN w.accounts[b] ELSE TopFrame(w)[b]
    BY DEF Within, Holds
  <2>3. w.accounts[b] # NotRecorded
    BY <1>5, SentinelAssumption DEF AccountEntry
  <2> HIDE DEF n
  <2> QED  BY <1>5, <2>1, <2>2, <2>3
<1> QED  BY <1>1, <1>2, <1>4, <1>6 DEF Within

LEMMA PopClosesWithin ==
  ASSUME NEW w0 \in WorldStates, Depth(w0) >= 1, NEW w, Within(w0, w)
  PROVE  PopFrame(w) = w0.modifications
<1> DEFINE m == w.modifications
           d == Depth(w0)
<1>1. /\ m \in Seq(Frame) /\ w0.modifications \in Seq(Frame)
      /\ d \in Nat /\ d >= 1 /\ Len(m) = d + 1 /\ Len(w0.modifications) = d
      /\ Depth(w) = d + 1 /\ w \in WorldStates
  BY DEF Within, WorldStates, Depth
<1>2. \A i \in 1 .. d : m[i] = w0.modifications[i]
  BY DEF Within
<1>3. PopFrame(w) = SubSeq(m, 1, d)
  <2>1. Depth(w) # 1 /\ Depth(w) - 1 = d
    <3> HIDE DEF d
    <3> QED  BY <1>1
  <2> QED  BY <2>1, Zenon DEF PopFrame
<1>4. /\ SubSeq(m, 1, d) \in Seq(Frame)
      /\ Len(SubSeq(m, 1, d)) = d
      /\ \A i \in 1 .. d : SubSeq(m, 1, d)[i] = m[i]
  <2>1. \A i \in 1 .. d : m[i] \in Frame
    <3> HIDE DEF d, m
    <3> QED  BY <1>1
  <2> HIDE DEF d, m
  <2> QED  BY <1>1, <2>1, SubSeqProperties
<1> HIDE DEF d, m
<1> QED  BY <1>1, <1>2, <1>3, <1>4, SeqEqual

(***************************************************************************)
(* rollback gives back exactly the world state at the checkpoint, commit   *)
(* its journal.                                                            *)
(***************************************************************************)
LEMMA RollbackUndoes ==
  ASSUME NEW w0 \in WorldStates, Depth(w0) >= 1, NEW w, Within(w0, w)
  PROVE  Rollback(w) = w0
<1>1. PopFrame(w) = w0.modifications
  BY PopClosesWithin
<1>2. w0.accounts \in [Address -> AccountEntry]
  BY DEF WorldStates
<1>3. Restored(w) = w0.accounts
  BY <1>2 DEF Within, Holds, Restored
<1>4. w0 = [accounts |-> w0.accounts, modifications |-> w0.modifications]
  BY DEF WorldStates
<1> QED  BY <1>1, <1>3, <1>4 DEF Rollback

LEMMA CommitCloses ==
  ASSUME NEW w0 \in WorldStates, Depth(w0) >= 1, NEW w, Within(w0, w)
  PROVE  /\ Commit(w) \in WorldStates
         /\ Commit(w).accounts = w.accounts
         /\ Commit(w).modifications = w0.modifications
         /\ Depth(Commit(w)) = Depth(w0)
<1>1. PopFrame(w) = w0.modifications
  BY PopClosesWithin
<1>2. w.accounts \in [Address -> AccountEntry] /\ w0.modifications \in Seq(Frame)
  BY DEF Within, WorldStates
<1> QED  BY <1>1, <1>2 DEF Commit, WorldStates, Depth
-----------------------------------------------------------------------------
(***************************************************************************)
(* The undo journal.  It has its type at any depth; what rollback restores *)
(* is proved for a client that opens one checkpoint at a time, which is    *)
(* all execute_transaction does (with two, TLC has a counterexample:       *)
(* commit drops the records of the outer checkpoint).                      *)
(***************************************************************************)
(***************************************************************************)
(* A step of the client keeps the type, one frame per open checkpoint      *)
(* included.                                                               *)
(***************************************************************************)
LEMMA JournalTypeStep ==
  ASSUME JournalTypeOK, [JournalNext]_journalVars
  PROVE  JournalTypeOK'
<1> DEFINE S == [Address -> AccountEntry]
<1>1. /\ world \in WorldStates /\ saved \in Seq(S) /\ Len(saved) \in Nat
      /\ Depth(world) = Len(saved) + 1 /\ Len(saved) <= MaxDepth
  BY DEF JournalTypeOK
<1>2. world.accounts \in S /\ world.modifications \in Seq(Frame)
  BY <1>1 DEF WorldStates
<1>3. CASE DoCheckpoint
  <2>1. saved' \in Seq(S) /\ Len(saved') = Len(saved) + 1
    BY <1>1, <1>2, <1>3 DEF DoCheckpoint
  <2>2. world' \in WorldStates /\ Depth(world') = Depth(world) + 1
    BY <1>2, <1>3, EmptyFrameType DEF DoCheckpoint, Checkpoint, WorldStates, Depth
  <2> QED  BY <1>1, <1>3, <2>1, <2>2, MaxDepthAssumption DEF DoCheckpoint, JournalTypeOK
<1>4. ASSUME NEW a \in Address, NEW account \in Written, DoSetAccount(a, account)
      PROVE  JournalTypeOK'
  <2>0. Depth(world) >= 1 /\ account \in Account /\ world' = SetAccount(world, a, account)
    BY <1>1, <1>4, WrittenAssumption DEF DoSetAccount
  <2>1. world' \in WorldStates /\ Depth(world') = Depth(world)
    <3>1. /\ SetAccount(world, a, account) \in WorldStates
          /\ Depth(SetAccount(world, a, account)) = Depth(world)
      BY <1>1, <2>0, SetAccountType
    <3> QED  BY <2>0, <3>1
  <2> QED  BY <1>1, <1>4, <2>1 DEF DoSetAccount, JournalTypeOK
<1>5. ASSUME NEW a \in Address, DoGetAccountMut(a)
      PROVE  JournalTypeOK'
  <2>0. /\ Depth(world) >= 1 /\ GetAccount(world, a) \in Account
        /\ world' = SetAccount(world, a, GetAccount(world, a))
    BY <1>1, <1>5, GetAccountType DEF DoGetAccountMut, GetAccountMut
  <2>1. world' \in WorldStates /\ Depth(world') = Depth(world)
    <3>1. /\ SetAccount(world, a, GetAccount(world, a)) \in WorldStates
          /\ Depth(SetAccount(world, a, GetAccount(world, a))) = Depth(world)
      BY <1>1, <2>0, SetAccountType
    <3> QED  BY <2>0, <3>1
  <2> QED  BY <1>1, <1>5, <2>1 DEF DoGetAccountMut, JournalTypeOK
<1>6. ASSUME saved # <<>>, saved' = SubSeq(saved, 1, Len(saved) - 1),
             NEW acc \in S, world' = [accounts |-> acc, modifications |-> PopFrame(world)]
      PROVE  JournalTypeOK'
  <2>0. Len(saved) >= 1
    BY <1>1, <1>6
  <2>1. saved' \in Seq(S) /\ Len(saved') = Len(saved) - 1
    <3> HIDE DEF S
    <3> DEFINE k == Len(saved) - 1
    <3>1. k \in Nat /\ \A i \in 1 .. k : saved[i] \in S
      BY <1>1, <2>0
    <3>2. /\ SubSeq(saved, 1, k) \in Seq(S)
          /\ Len(SubSeq(saved, 1, k)) = IF 1 <= k THEN k - 1 + 1 ELSE 0
      <4> HIDE DEF k
      <4> QED  BY <3>1, SubSeqProperties
    <3>3. Len(SubSeq(saved, 1, k)) = k
      <4> HIDE DEF k
      <4> QED  BY <3>1, <3>2
    <3> QED  BY <1>6, <3>2, <3>3
  <2>2. PopFrame(world) \in Seq(Frame) /\ Len(PopFrame(world)) = Depth(world) - 1
    BY <1>1, <2>0, PopFrameShape
  <2>3. world' \in WorldStates /\ Depth(world') = Depth(world) - 1
    BY <1>6, <2>2 DEF WorldStates, Depth
  <2> QED  BY <1>1, <2>0, <2>1, <2>3, MaxDepthAssumption DEF JournalTypeOK
<1>7. CASE DoCommit
  BY <1>2, <1>6, <1>7 DEF DoCommit, Commit
<1>8. CASE DoRollback
  <2>1. Restored(world) \in S
    BY <1>1, RestoredType
  <2> QED  BY <1>6, <1>8, <2>1 DEF DoRollback, Rollback
<1>9. CASE UNCHANGED journalVars
  BY <1>1, <1>9 DEF journalVars, JournalTypeOK
<1> QED  BY <1>3, <1>4, <1>5, <1>7, <1>8, <1>9 DEF JournalNext

(***************************************************************************)
(* The world state keeps its type, and the journal a frame for every open  *)
(* checkpoint, whatever the client does and however deep it nests.         *)
(***************************************************************************)
THEOREM JournalTypeCorrect == JournalSpec => []JournalTypeOK
<1>1. JournalInit => JournalTypeOK
  <2> SUFFICES ASSUME JournalInit PROVE JournalTypeOK
    OBVIOUS
  <2>1. EmptyWorldState.accounts \in [Address -> AccountEntry]
    BY DEF EmptyWorldState, AccountEntry
  <2>2. /\ EmptyWorldState.modifications \in Seq(Frame)
        /\ Len(EmptyWorldState.modifications) = 1
    BY EmptyFrameType DEF EmptyWorldState
  <2>3. EmptyWorldState \in WorldStates
    BY <2>1, <2>2 DEF WorldStates, EmptyWorldState
  <2> QED  BY <2>2, <2>3, MaxDepthAssumption DEF JournalInit, JournalTypeOK, Depth
<1>2. JournalTypeOK /\ [JournalNext]_journalVars => JournalTypeOK'
  BY JournalTypeStep
<1> QED  BY <1>1, <1>2, PTL DEF JournalSpec

(***************************************************************************)
(* One checkpoint: what JournalHoldsSnapshots says of the only open one,   *)
(* entry by entry.                                                         *)
(***************************************************************************)
OneLevel == saved # <<>> => Holds(world, saved[1])

LEMMA OneLevelIsEnough ==
  ASSUME MaxDepth = 1, JournalTypeOK
  PROVE  OneLevel <=> JournalHoldsSnapshots
<1>1. saved \in Seq([Address -> AccountEntry]) /\ Len(saved) \in Nat /\ Len(saved) <= 1
  BY DEF JournalTypeOK
<1>2. CASE saved = <<>>
  BY <1>2 DEF OneLevel, JournalHoldsSnapshots
<1>3. CASE saved # <<>>
  <2>0. Len(saved) # 0
    BY <1>1, <1>3, EmptySeq, Zenon
  <2>e. \A n \in Nat : n # 0 /\ n <= 1 => n = 1
    OBVIOUS
  <2>l. Len(saved) = 1
    BY <1>1, <2>0, <2>e, Zenon
  <2>1. Len(saved) = 1 /\ Depth(world) = 2
    BY <2>l DEF JournalTypeOK
  <2>2. saved[1] \in [Address -> AccountEntry]
    BY <1>1, <2>1
  <2>3. ASSUME NEW a \in Address
        PROVE  RestoredTo(1)[a] =
                 IF TopFrame(world)[a] = NotRecorded THEN world.accounts[a] ELSE TopFrame(world)[a]
    <3>1. RecordingFrames(1, a) = IF TopFrame(world)[a] = NotRecorded THEN {} ELSE {2}
      BY <2>1 DEF RecordingFrames, TopFrame
    <3>2. CASE TopFrame(world)[a] = NotRecorded
      BY <3>1, <3>2 DEF RestoredTo
    <3>3. CASE TopFrame(world)[a] # NotRecorded
      <4>1. (CHOOSE j \in RecordingFrames(1, a) :
               \A k \in RecordingFrames(1, a) : j <= k) = 2
        BY <3>1, <3>3
      <4>2. RestoredTo(1)[a] = world.modifications[2][a]
        BY <3>1, <3>3, <4>1 DEF RestoredTo
      <4> QED  BY <2>1, <3>3, <4>2 DEF TopFrame
    <3> QED  BY <3>2, <3>3
  <2>4. (RestoredTo(1) = saved[1]) <=> \A a \in Address : RestoredTo(1)[a] = saved[1][a]
    BY <2>2 DEF RestoredTo
  <2>5. JournalHoldsSnapshots <=> RestoredTo(1) = saved[1]
    BY <2>1 DEF JournalHoldsSnapshots
  <2> QED  BY <1>3, <2>3, <2>4, <2>5 DEF OneLevel, Holds
<1> QED  BY <1>2, <1>3

LEMMA OneLevelStep ==
  ASSUME MaxDepth = 1, JournalTypeOK, JournalTypeOK', OneLevel, [JournalNext]_journalVars
  PROVE  OneLevel'
<1> DEFINE S == [Address -> AccountEntry]
<1>1. /\ world \in WorldStates /\ saved \in Seq(S) /\ Len(saved) \in Nat /\ Depth(world) \in Nat
      /\ Depth(world) >= 1 /\ Len(saved) <= 1
  BY DEF JournalTypeOK
<1>2. CASE DoCheckpoint
  <2>e. \A n \in Nat : n < 1 => n = 0
    OBVIOUS
  <2>1. Len(saved) = 0
    BY <1>1, <1>2, <2>e DEF DoCheckpoint
  <2>2. saved'[1] = world.accounts
    BY <1>1, <1>2, <2>1 DEF DoCheckpoint
  <2>3. world'.accounts = world.accounts
    BY <1>2 DEF DoCheckpoint, Checkpoint
  <2>4. TopFrame(world') = EmptyFrame
    <3>1. world.modifications \in Seq(Frame)
      BY <1>1 DEF WorldStates
    <3> QED  BY <1>2, <3>1, EmptyFrameType DEF DoCheckpoint, Checkpoint, TopFrame, Depth
  <2> QED  BY <2>2, <2>3, <2>4 DEF OneLevel, Holds, EmptyFrame
<1>3. ASSUME NEW a \in Address, NEW e \in Account,
             world' = SetAccount(world, a, e), saved' = saved
      PROVE  OneLevel'
  <2>1. world'.accounts = [world.accounts EXCEPT ![a] = e]
    BY <1>3 DEF SetAccount
  <2>2. ASSUME NEW b \in Address
        PROVE  TopFrame(world')[b] = IF b = a /\ TopFrame(world)[b] = NotRecorded
                                  THEN world.accounts[b] ELSE TopFrame(world)[b]
    <3>1. TopFrame(SetAccount(world, a, e))[b] =
            IF b = a /\ TopFrame(world)[b] = NotRecorded
            THEN world.accounts[b] ELSE TopFrame(world)[b]
      BY <1>1, <1>3, SetAccountRecords
    <3> QED  BY <1>3, <3>1
  <2>3. world.accounts \in S
    BY <1>1 DEF WorldStates
  <2>4. world.accounts[a] # NotRecorded
    BY <2>3, SentinelAssumption DEF AccountEntry
  <2> QED  BY <1>3, <2>1, <2>2, <2>3, <2>4 DEF OneLevel, Holds
<1>4. ASSUME NEW a \in Address, NEW account \in Written, DoSetAccount(a, account)
      PROVE  OneLevel'
  BY <1>3, <1>4, WrittenAssumption DEF DoSetAccount
<1>5. ASSUME NEW a \in Address, DoGetAccountMut(a)
      PROVE  OneLevel'
  <2>1. GetAccount(world, a) \in Account
    BY <1>1, GetAccountType
  <2> QED  BY <1>3, <1>5, <2>1 DEF DoGetAccountMut, GetAccountMut
<1>6. ASSUME saved # <<>>, saved' = SubSeq(saved, 1, Len(saved) - 1)
      PROVE  saved' = <<>>
  <2>e. \A n \in Nat : n # 0 /\ n <= 1 => n = 1
    OBVIOUS
  <2>0. Len(saved) # 0
    BY <1>1, <1>6, EmptySeq, Zenon
  <2>1. Len(saved) = 1
    BY <1>1, <2>0, <2>e, Zenon
  <2> QED  BY <1>6, <2>1, SubSeqEmpty
<1>7. CASE DoCommit \/ DoRollback
  BY <1>6, <1>7 DEF DoCommit, DoRollback, OneLevel
<1>8. CASE UNCHANGED journalVars
  BY <1>8 DEF journalVars, OneLevel, Holds
<1> QED  BY <1>2, <1>4, <1>5, <1>7, <1>8 DEF JournalNext

(***************************************************************************)
(* With one checkpoint open at a time, whatever the client reads, writes   *)
(* and creates, the journal holds exactly what rollback needs to restore   *)
(* the accounts there were when the checkpoint was taken.                  *)
(***************************************************************************)
THEOREM SingleLevelSnapshots ==
  ASSUME MaxDepth = 1
  PROVE  JournalSpec => []JournalHoldsSnapshots
<1>1. JournalInit => OneLevel
  BY DEF JournalInit, OneLevel
<1>2. JournalTypeOK /\ JournalTypeOK' /\ OneLevel /\ [JournalNext]_journalVars => OneLevel'
  BY OneLevelStep
<1>3. JournalTypeOK /\ OneLevel => JournalHoldsSnapshots
  BY OneLevelIsEnough
<1> QED  BY <1>1, <1>2, <1>3, JournalTypeCorrect, PTL DEF JournalSpec

(***************************************************************************)
(* With one checkpoint open at a time, the undo journal implements the     *)
(* transactional store: checkpoint, commit and rollback are its Begin,     *)
(* Commit and Rollback, a write is a write of one key.                     *)
(***************************************************************************)
THEOREM JournalImplementsStore ==
  ASSUME MaxDepth = 1
  PROVE  JournalSpec => ImplementsStore
<1> DEFINE S == [Address -> AccountEntry]
<1>1. JournalInit => Store!Init
  BY DEF JournalInit, Store!Init, EmptyWorldState, AccountEntry
<1>2. ASSUME JournalTypeOK, JournalTypeOK', OneLevel, [JournalNext]_journalVars
      PROVE  [Store!Next]_Store!vars
  <2>1. /\ world \in WorldStates /\ world' \in WorldStates /\ world.accounts \in S /\ world'.accounts \in S
        /\ saved \in Seq(S) /\ Len(saved) \in Nat /\ Len(saved) <= 1
    BY <1>2 DEF JournalTypeOK, WorldStates
  <2>2. CASE DoCheckpoint
    <3>1. Store!Begin
      BY <2>2 DEF DoCheckpoint, Checkpoint, Store!Begin
    <3> QED  BY <3>1 DEF Store!Next
  <2>3. ASSUME NEW a \in Address, NEW e, world' = SetAccount(world, a, e), saved' = saved
        PROVE  Store!Next
    <3>1. \A b \in Address \ {a} : world'.accounts[b] = world.accounts[b]
      BY <2>1, <2>3 DEF SetAccount
    <3>2. Store!Write
      BY <2>1, <2>3, <3>1 DEF Store!Write
    <3> QED  BY <3>2 DEF Store!Next
  <2>4. ASSUME NEW a \in Address, NEW account \in Written, DoSetAccount(a, account)
        PROVE  Store!Next
    BY <2>3, <2>4 DEF DoSetAccount
  <2>5. ASSUME NEW a \in Address, DoGetAccountMut(a)
        PROVE  Store!Next
    BY <2>3, <2>5 DEF DoGetAccountMut, GetAccountMut
  <2>6. CASE DoCommit
    <3>1. Store!Commit
      BY <2>6 DEF DoCommit, Commit, Store!Commit, Store!Closed
    <3> QED  BY <3>1 DEF Store!Next
  <2>7. CASE DoRollback
    <3>e. \A n \in Nat : n # 0 /\ n <= 1 => n = 1
      OBVIOUS
    <3>0. Len(saved) # 0
      BY <2>1, <2>7, EmptySeq, Zenon DEF DoRollback
    <3>1. Len(saved) = 1
      BY <2>1, <3>0, <3>e, Zenon
    <3>i. 1 \in 1 .. Len(saved)
      BY <3>1
    <3>2. saved[1] \in S
      BY <2>1, <3>i, ElementOfSeq, Zenon
    <3>3. Holds(world, saved[1])
      BY <1>2, <2>7 DEF OneLevel, DoRollback
    <3>4. Restored(world) = saved[1]
      BY <3>2, <3>3 DEF Holds, Restored
    <3>5. Store!Rollback
      BY <2>7, <3>1, <3>4 DEF DoRollback, Rollback, Store!Rollback, Store!Closed, Store!Innermost
    <3> QED  BY <3>5 DEF Store!Next
  <2>8. CASE UNCHANGED journalVars
    BY <2>8 DEF journalVars, Store!vars
  <2> QED  BY <1>2, <2>2, <2>4, <2>5, <2>6, <2>7, <2>8 DEF JournalNext
<1>3. JournalInit => OneLevel
  BY DEF JournalInit, OneLevel
<1>4. JournalTypeOK /\ JournalTypeOK' /\ OneLevel /\ [JournalNext]_journalVars => OneLevel'
  BY OneLevelStep
<1> QED  BY <1>1, <1>2, <1>3, <1>4, JournalTypeCorrect, PTL DEF JournalSpec, ImplementsStore, Store!Spec
-----------------------------------------------------------------------------
(***************************************************************************)
(* Arithmetic of fees, and the type of a funded or charged account.        *)
(***************************************************************************)
LEMMA FeeType ==
  ASSUME NEW tx \in Tx
  PROVE  CalculateFee(tx, GasUsed) \in Nat
<1>1. GasUsed \in Nat /\ tx.gas_price \in Nat
  BY ChainAssumption DEF IsTransaction
<1>2. GasUsed * tx.gas_price \in Nat
  BY <1>1
<1>3. \A n \in Nat : n % U64 \in Nat
  BY U64Assumption
<1> QED  BY <1>2, <1>3 DEF CalculateFee

LEMMA TxType ==
  ASSUME NEW tx \in Tx
  PROVE  /\ tx.from \in Address /\ tx.to \in Address
         /\ tx.nonce \in Nat /\ tx.amount \in Nat
         /\ tx.tx_type \in TransactionType
BY ChainAssumption DEF IsTransaction

(***************************************************************************)
(* Reached(w, x, tx): x is within a checkpoint of w, the nonce of tx's     *)
(* sender is one more than in w, all other nonces are those of w, and only *)
(* the sender and the recipient have been written.                         *)
(***************************************************************************)
Reached(w, x, tx) ==
  /\ Within(w, x)
  /\ GetNonce(x, tx.from) = GetNonce(w, tx.from) + 1
  /\ \A a \in Address \ {tx.from} : GetNonce(x, a) = GetNonce(w, a)
  /\ \A a \in Address \ {tx.from, tx.to} : x.accounts[a] = w.accounts[a]

(***************************************************************************)
(* A write of the sender or the recipient that keeps the nonce it has.     *)
(***************************************************************************)
LEMMA WriteStaysReached ==
  ASSUME NEW w \in WorldStates, Depth(w) >= 1, NEW tx \in Tx, NEW x, Reached(w, x, tx),
         NEW a \in {tx.from, tx.to}, NEW e \in Account, e.nonce = GetNonce(x, a)
  PROVE  Reached(w, SetAccount(x, a, e), tx)
<1> DEFINE n == SetAccount(x, a, e)
<1>1. a \in Address /\ tx.from \in Address
  BY TxType
<1>2. Within(w, n)
  BY <1>1, WriteStaysWithin DEF Reached
<1>3. x.accounts \in [Address -> AccountEntry] /\ n.accounts = [x.accounts EXCEPT ![a] = e]
  BY DEF Reached, Within, WorldStates, SetAccount
<1>4. \A b \in Address \ {a} : n.accounts[b] = x.accounts[b]
  BY <1>3
<1>5. \A b \in Address : GetNonce(n, b) = GetNonce(x, b)
  <2> SUFFICES ASSUME NEW b \in Address PROVE GetNonce(n, b) = GetNonce(x, b)
    OBVIOUS
  <2>1. n.accounts[a] = e /\ e # NoAccount
    BY <1>1, <1>3, SentinelAssumption
  <2>2. CASE a = b
    BY <2>1, <2>2 DEF GetNonce, GetAccount
  <2>3. CASE a # b
    BY <1>1, <1>4, <2>3 DEF GetNonce, GetAccount
  <2> QED  BY <2>2, <2>3
<1>6. \A b \in Address \ {tx.from, tx.to} : n.accounts[b] = w.accounts[b]
  BY <1>4 DEF Reached
<1> HIDE DEF n
<1>7. Reached(w, n, tx)
  BY <1>1, <1>2, <1>5, <1>6 DEF Reached
<1> QED  BY <1>7 DEF n

LEMMA ReachedType ==
  ASSUME NEW w \in WorldStates, NEW tx \in Tx, NEW x, Reached(w, x, tx), NEW a \in Address
  PROVE  GetAccount(x, a) \in Account /\ GetAccount(x, a).nonce = GetNonce(x, a)
<1>1. x \in WorldStates
  BY DEF Reached, Within
<1> QED  BY <1>1, GetAccountType DEF GetNonce

LEMMA IncrementNonceReaches ==
  ASSUME NEW w \in WorldStates, Depth(w) >= 1, NEW tx \in Tx
  PROVE  Reached(w, IncrementNonce(Checkpoint(w), tx.from), tx)
<1> DEFINE c == Checkpoint(w)
           a == tx.from
           e == [GetAccount(c, a) EXCEPT !.nonce = @ + 1]
           n == SetAccount(c, a, e)
<1>1. Within(w, c) /\ c.accounts = w.accounts /\ c \in WorldStates
  BY CheckpointOpens DEF Within
<1>2. a \in Address
  BY TxType
<1>3. GetAccount(c, a) \in Account /\ GetAccount(c, a) = GetAccount(w, a)
  BY <1>1, <1>2, GetAccountType DEF GetAccount
<1>4. e \in Account /\ e.nonce = GetNonce(w, a) + 1
  BY <1>3 DEF Account, GetNonce
<1>5. Within(w, n)
  BY <1>1, <1>2, <1>4, WriteStaysWithin
<1>6. c.accounts \in [Address -> AccountEntry] /\ n.accounts = [c.accounts EXCEPT ![a] = e]
  BY <1>1 DEF WorldStates, SetAccount
<1>7. n.accounts[a] = e /\ e # NoAccount
  BY <1>2, <1>4, <1>6, SentinelAssumption
<1>8. GetNonce(n, a) = GetNonce(w, a) + 1
  BY <1>4, <1>7 DEF GetNonce, GetAccount
<1>9. \A b \in Address \ {a} : n.accounts[b] = w.accounts[b]
  BY <1>1, <1>6
<1> HIDE DEF n
<1>n. \A b \in Address \ {a} : GetNonce(n, b) = GetNonce(w, b)
  BY <1>9 DEF GetNonce, GetAccount
<1>10. Reached(w, n, tx)
  BY <1>5, <1>8, <1>9, <1>n DEF Reached
<1> QED  BY <1>10 DEF n, IncrementNonce

LEMMA TransferStaysReached ==
  ASSUME NEW w \in WorldStates, Depth(w) >= 1, NEW tx \in Tx, NEW x, Reached(w, x, tx)
  PROVE  Reached(w, Transfer(x, tx.from, tx.to, tx.amount).ws, tx)
<1> DEFINE f == GetAccount(x, tx.from)
           t == GetAccount(x, tx.to)
           nf == [f EXCEPT !.balance = @ - tx.amount]
           nt == [t EXCEPT !.balance = @ + tx.amount]
           y == SetAccount(x, tx.from, nf)
           z == SetAccount(y, tx.to, nt)
<1>1. CASE f.balance < tx.amount
  BY <1>1 DEF Transfer, Err
<1>2. CASE ~ (f.balance < tx.amount)
  <2>1. f \in Account /\ t \in Account /\ tx.amount \in Nat
        /\ tx.from \in Address /\ tx.to \in Address
        /\ f.nonce = GetNonce(x, tx.from) /\ t.nonce = GetNonce(x, tx.to)
    BY TxType, ReachedType
  <2>2. nf \in Account /\ nt \in Account /\ nf.nonce = f.nonce /\ nt.nonce = t.nonce
    BY <1>2, <2>1 DEF Account
  <2>3. Reached(w, y, tx)
    <3> HIDE DEF f, nf
    <3> QED  BY <2>1, <2>2, WriteStaysReached
  <2>4. GetNonce(y, tx.to) = GetNonce(x, tx.to)
    <3>1. x.accounts \in [Address -> AccountEntry] /\ y.accounts = [x.accounts EXCEPT ![tx.from] = nf]
      BY DEF Reached, Within, WorldStates, SetAccount
    <3>2. nf # NoAccount
      BY <2>2, SentinelAssumption
    <3>3. CASE tx.to = tx.from
      <4>1. y.accounts[tx.to] = nf
        BY <2>1, <3>1, <3>3
      <4>2. GetNonce(y, tx.to) = nf.nonce
        <5> HIDE DEF y, nf, f
        <5> QED  BY <3>2, <4>1 DEF GetNonce, GetAccount
      <4> QED  BY <2>1, <2>2, <3>3, <4>2
    <3>4. CASE tx.to # tx.from
      <4>1. y.accounts[tx.to] = x.accounts[tx.to]
        BY <2>1, <3>1, <3>4
      <4> HIDE DEF y
      <4> QED  BY <4>1 DEF GetNonce, GetAccount
    <3> QED  BY <3>3, <3>4
  <2>5. Reached(w, z, tx)
    <3> HIDE DEF f, t, nt, y
    <3> QED  BY <2>1, <2>2, <2>3, <2>4, WriteStaysReached
  <2>6. Transfer(x, tx.from, tx.to, tx.amount).ws = z
    BY <1>2 DEF Transfer, Ok
  <2> QED  BY <2>5, <2>6
<1> QED  BY <1>1, <1>2

LEMMA GetAccountMutStaysReached ==
  ASSUME NEW w \in WorldStates, Depth(w) >= 1, NEW tx \in Tx, NEW x, Reached(w, x, tx)
  PROVE  /\ Reached(w, GetAccountMut(x, tx.from), tx)
         /\ GetAccountMut(x, tx.from).accounts[tx.from] = GetAccount(x, tx.from)
<1>1. /\ tx.from \in Address /\ GetAccount(x, tx.from) \in Account
      /\ GetAccount(x, tx.from).nonce = GetNonce(x, tx.from)
  BY TxType, ReachedType
<1>2. Reached(w, SetAccount(x, tx.from, GetAccount(x, tx.from)), tx)
  BY <1>1, WriteStaysReached
<1>3. x.accounts \in [Address -> AccountEntry]
  BY DEF Reached, Within, WorldStates
<1> QED  BY <1>1, <1>2, <1>3 DEF GetAccountMut, SetAccount

LEMMA TwoFields ==
  ASSUME NEW acc \in Account, NEW n \in Nat
  PROVE  /\ acc.balance >= n =>
              LET e == [acc EXCEPT !.balance = @ - n, !.staked = @ + n]
              IN  e \in Account /\ e.nonce = acc.nonce
         /\ acc.staked >= n =>
              LET e == [acc EXCEPT !.staked = @ - n, !.balance = @ + n]
              IN  e \in Account /\ e.nonce = acc.nonce
<1>1. ASSUME acc.balance >= n
      PROVE  LET e == [acc EXCEPT !.balance = @ - n, !.staked = @ + n]
             IN  e \in Account /\ e.nonce = acc.nonce
  <2> DEFINE d == [acc EXCEPT !.balance = @ - n]
  <2>1. d \in Account /\ d.nonce = acc.nonce
    BY <1>1 DEF Account
  <2>2. [acc EXCEPT !.balance = @ - n, !.staked = @ + n] = [d EXCEPT !.staked = @ + n]
    BY DEF Account
  <2>3. LET e == [d EXCEPT !.staked = @ + n] IN e \in Account /\ e.nonce = d.nonce
    <3> HIDE DEF d
    <3> QED  BY <2>1 DEF Account
  <2> QED  BY <2>1, <2>2, <2>3
<1>2. ASSUME acc.staked >= n
      PROVE  LET e == [acc EXCEPT !.staked = @ - n, !.balance = @ + n]
             IN  e \in Account /\ e.nonce = acc.nonce
  <2> DEFINE d == [acc EXCEPT !.staked = @ - n]
  <2>1. d \in Account /\ d.nonce = acc.nonce
    BY <1>2 DEF Account
  <2>2. [acc EXCEPT !.staked = @ - n, !.balance = @ + n] = [d EXCEPT !.balance = @ + n]
    BY DEF Account
  <2>3. LET e == [d EXCEPT !.balance = @ + n] IN e \in Account /\ e.nonce = d.nonce
    <3> HIDE DEF d
    <3> QED  BY <2>1 DEF Account
  <2> QED  BY <2>1, <2>2, <2>3
<1> QED  BY <1>1, <1>2

LEMMA AccountOperationStaysReached ==
  ASSUME NEW w \in WorldStates, Depth(w) >= 1, NEW tx \in Tx, NEW x, Reached(w, x, tx),
         tx.tx_type \in {"Stake", "Unstake", "DeployLiquidity", "WithdrawLiquidity"}
  PROVE  Reached(w, AccountOperation(x, tx.from, tx.tx_type, tx.amount).ws, tx)
<1> DEFINE m == GetAccountMut(x, tx.from)
           acc == m.accounts[tx.from]
           e == Apply(acc, tx.tx_type, tx.amount)
<1>1. Reached(w, m, tx) /\ acc = GetAccount(x, tx.from)
  BY GetAccountMutStaysReached
<1>2. tx.from \in Address /\ tx.amount \in Nat /\ acc \in Account
  BY <1>1, TxType, ReachedType
<1>3. acc.nonce = GetNonce(m, tx.from)
  <2>1. acc # NoAccount
    BY <1>2, SentinelAssumption
  <2> QED  BY <2>1 DEF GetNonce, GetAccount
<1>4. CASE MayApply(acc, tx.tx_type, tx.amount)
  <2>1. e \in Account /\ e.nonce = acc.nonce
    <3> HIDE DEF acc
    <3>1. CASE tx.tx_type = "Stake"
      <4>1. acc.balance >= tx.amount
        BY <1>4, <3>1 DEF MayApply
      <4>2. e = [acc EXCEPT !.balance = @ - tx.amount, !.staked = @ + tx.amount]
        BY <3>1 DEF Apply
      <4> QED  BY <1>2, <4>1, <4>2, TwoFields, ZenonT(60)
    <3>2. CASE tx.tx_type = "Unstake"
      <4>1. acc.staked >= tx.amount
        BY <1>4, <3>2 DEF MayApply
      <4>2. e = [acc EXCEPT !.staked = @ - tx.amount, !.balance = @ + tx.amount]
        BY <3>2 DEF Apply
      <4> QED  BY <1>2, <4>1, <4>2, TwoFields, ZenonT(60)
    <3>3. CASE tx.tx_type = "DeployLiquidity"
      BY <1>2, <1>4, <3>3 DEF Apply, MayApply, Account
    <3>4. CASE tx.tx_type = "WithdrawLiquidity"
      BY <1>2, <1>4, <3>4 DEF Apply, MayApply, Account
    <3> QED  BY <3>1, <3>2, <3>3, <3>4
  <2>2. Reached(w, SetAccount(m, tx.from, e), tx)
    <3> HIDE DEF m, acc, e
    <3> QED  BY <1>1, <1>2, <1>3, <2>1, WriteStaysReached
  <2>3. AccountOperation(x, tx.from, tx.tx_type, tx.amount).ws = SetAccount(m, tx.from, e)
    BY <1>4 DEF AccountOperation, Ok
  <2> QED  BY <2>2, <2>3
<1>5. CASE ~ MayApply(acc, tx.tx_type, tx.amount)
  <2>1. AccountOperation(x, tx.from, tx.tx_type, tx.amount).ws = m
    BY <1>5 DEF AccountOperation, Err
  <2> QED  BY <1>1, <2>1
<1> QED  BY <1>4, <1>5

LEMMA ChargeFeeStaysReached ==
  ASSUME NEW w \in WorldStates, Depth(w) >= 1, NEW tx \in Tx, NEW x, Reached(w, x, tx)
  PROVE  Reached(w, ChargeFee(x, tx).ws, tx)
<1> DEFINE fee == CalculateFee(tx, GasUsed)
           acc == GetAccount(x, tx.from)
           e == [acc EXCEPT !.balance = @ - fee]
<1>1. CASE acc.balance < fee
  <2>1. ChargeFee(x, tx).ws = GetAccountMut(x, tx.from)
    BY <1>1 DEF ChargeFee, Err
  <2> QED  BY <2>1, GetAccountMutStaysReached
<1>2. CASE ~ (acc.balance < fee)
  <2>1. fee \in Nat /\ tx.from \in Address /\ acc \in Account /\ acc.nonce = GetNonce(x, tx.from)
    BY FeeType, TxType, ReachedType
  <2>2. e \in Account /\ e.nonce = acc.nonce
    <3> HIDE DEF fee, acc
    <3> QED  BY <1>2, <2>1 DEF Account
  <2>3. Reached(w, SetAccount(x, tx.from, e), tx)
    <3> HIDE DEF fee, acc, e
    <3> QED  BY <2>1, <2>2, WriteStaysReached
  <2>4. ChargeFee(x, tx).ws = SetAccount(x, tx.from, e)
    BY <1>2 DEF ChargeFee, Ok
  <2> QED  BY <2>3, <2>4
<1> QED  BY <1>1, <1>2

LEMMA PerformStaysReached ==
  ASSUME NEW w \in WorldStates, Depth(w) >= 1, NEW tx \in Tx, NEW x, Reached(w, x, tx)
  PROVE  Reached(w, Perform(x, tx).ws, tx)
<1>1. CASE tx.tx_type = "Transfer"
  <2>1. Perform(x, tx) = Transfer(x, tx.from, tx.to, tx.amount)
    BY <1>1 DEF Perform
  <2> QED  BY <2>1, TransferStaysReached
<1>2. CASE tx.tx_type \in {"Stake", "Unstake", "DeployLiquidity", "WithdrawLiquidity"}
  <2>1. Perform(x, tx) = AccountOperation(x, tx.from, tx.tx_type, tx.amount)
    BY <1>2 DEF Perform
  <2> QED  BY <1>2, <2>1, AccountOperationStaysReached
<1>3. CASE tx.tx_type \in {"ContractDeployment", "ContractCall"}
  <2>1. Perform(x, tx) = Ok(x)
    BY <1>3 DEF Perform
  <2> QED  BY <2>1 DEF Ok
<1> QED  BY <1>1, <1>2, <1>3, TxType DEF TransactionType

(***************************************************************************)
(* execute_transaction either fails and gives back the world state it was  *)
(* called with, or succeeds with the sender's nonce one higher, nobody     *)
(* else but the recipient written, and the same journal.                   *)
(***************************************************************************)
Succeeded(w, x, tx) ==
  /\ Precondition(w, tx)
  /\ x \in WorldStates
  /\ x.modifications = w.modifications
  /\ Depth(x) = Depth(w)
  /\ GetNonce(x, tx.from) = GetNonce(w, tx.from) + 1
  /\ \A a \in Address \ {tx.from} : GetNonce(x, a) = GetNonce(w, a)
  /\ \A a \in Address \ {tx.from, tx.to} : x.accounts[a] = w.accounts[a]

LEMMA ExecuteOutcome ==
  ASSUME NEW w \in WorldStates, Depth(w) >= 1, NEW tx \in Tx
  PROVE  LET r == ExecuteTransaction(w, tx)
         IN  \/ r = Err(w)
             \/ r = Ok(r.ws) /\ Succeeded(w, r.ws, tx)
<1> DEFINE x == IncrementNonce(Checkpoint(w), tx.from)
           p == Perform(x, tx)
           result == ExecuteTransactionType(Checkpoint(w), tx)
           r == ExecuteTransaction(w, tx)
<1>1. Reached(w, x, tx)
  BY IncrementNonceReaches
<1>2. Reached(w, p.ws, tx)
  <2> HIDE DEF x
  <2> QED  BY <1>1, PerformStaysReached
<1>3. Reached(w, result.ws, tx)
  <2>1. CASE p.ok
    <3>1. result = ChargeFee(p.ws, tx)
      BY <2>1 DEF ExecuteTransactionType
    <3> HIDE DEF p
    <3> QED  BY <1>2, <3>1, ChargeFeeStaysReached
  <2>2. CASE ~ p.ok
    <3>1. result = p
      BY <2>2 DEF ExecuteTransactionType
    <3> QED  BY <1>2, <3>1
  <2> QED  BY <2>1, <2>2
<1> HIDE DEF result
<1>4. Within(w, result.ws)
  BY <1>3 DEF Reached
<1>5. CASE ~ Precondition(w, tx)
  BY <1>5 DEF ExecuteTransaction
<1>6. CASE Precondition(w, tx) /\ ~ result.ok
  <2>1. r = Err(Rollback(result.ws))
    BY <1>6 DEF ExecuteTransaction, result
  <2>2. Rollback(result.ws) = w
    BY <1>4, RollbackUndoes
  <2> QED  BY <2>1, <2>2
<1>7. CASE Precondition(w, tx) /\ result.ok
  <2> DEFINE c == Commit(result.ws)
  <2>1. r = Ok(c)
    BY <1>7 DEF ExecuteTransaction, result
  <2>2. /\ c \in WorldStates /\ c.accounts = result.ws.accounts
        /\ c.modifications = w.modifications /\ Depth(c) = Depth(w)
    BY <1>4, CommitCloses
  <2>3. \A a : GetNonce(c, a) = GetNonce(result.ws, a)
    BY <2>2 DEF GetNonce, GetAccount
  <2> HIDE DEF c
  <2>4. Succeeded(w, c, tx)
    BY <1>3, <1>7, <2>2, <2>3 DEF Succeeded, Reached
  <2>5. r.ws = c
    BY <2>1 DEF Ok
  <2> QED  BY <2>1, <2>4, <2>5
<1> QED  BY <1>5, <1>6, <1>7
-----------------------------------------------------------------------------
(***************************************************************************)
(* What the steps do to the parts of the state.                            *)
(***************************************************************************)
ChainTypeOK ==
  /\ blocks \in [Hash -> Block \cup {NoBlock}]
  /\ block_by_number \in [Number -> Hash \cup {NoHash}]
  /\ head \in Hash /\ Stored(head)

LEMMA ExecuteStep ==
  ASSUME TypeOK, NEW tx \in Tx, Execute(tx)
  PROVE  /\ \/ UNCHANGED <<ws, receipts, executed, burnt>>
            \/ /\ Succeeded(ws, ws', tx)
               /\ receipts' = [receipts EXCEPT ![tx] = Height + 1]
               /\ executed' = [executed EXCEPT ![tx] = @ + 1]
               /\ burnt' = burnt + CalculateFee(tx, GasUsed)
         /\ UNCHANGED <<chain, minted, before>>
<1> DEFINE r == ExecuteTransaction(ws, tx)
<1>1. ws \in WorldStates /\ Depth(ws) >= 1
  BY DEF TypeOK
<1>2. r = Err(ws) \/ (r = Ok(r.ws) /\ Succeeded(ws, r.ws, tx))
  BY <1>1, ExecuteOutcome
<1>3. /\ ws' = r.ws
      /\ IF r.ok
         THEN /\ receipts' = [receipts EXCEPT ![tx] = Height + 1]
              /\ executed' = [executed EXCEPT ![tx] = @ + 1]
              /\ burnt' = burnt + CalculateFee(tx, GasUsed)
         ELSE UNCHANGED <<receipts, executed, burnt>>
      /\ UNCHANGED <<chain, minted, before>>
  BY DEF Execute
<1> HIDE DEF r
<1>4. CASE r = Err(ws)
  <2>1. r.ws = ws /\ ~ r.ok
    BY <1>4 DEF Err
  <2> QED  BY <1>3, <2>1
<1>5. CASE r = Ok(r.ws) /\ Succeeded(ws, r.ws, tx)
  <2>1. r.ok
    BY <1>5 DEF Ok
  <2> QED  BY <1>3, <1>5, <2>1
<1> QED  BY <1>2, <1>4, <1>5

LEMMA HeightType ==
  ASSUME TypeOK
  PROVE  blocks[head] \in Block /\ Height \in Nat /\ Height \in Number
<1>1. blocks[head] \in Block
  BY DEF TypeOK, Stored
<1> QED  BY <1>1 DEF Height, Block, Number

(***************************************************************************)
(* A candidate that add_block accepts is a block.                          *)
(***************************************************************************)
LEMMA AcceptedIsBlock ==
  ASSUME TypeOK, NEW block \in Candidates, block.state_root = StateRoot(ws)
  PROVE  block \in Block /\ block.number \in Number
<1>1. ws.accounts \in [Address -> AccountEntry]
  BY DEF TypeOK, WorldStates
<1>2. /\ block.parent_hash \in Hash /\ block.number \in Number /\ block.timestamp \in 0 .. MaxTime
      /\ block.transactions \in Bodies
  BY DEF Candidates
<1>3. block = [parent_hash |-> block.parent_hash, number |-> block.number,
               timestamp |-> block.timestamp, state_root |-> block.state_root,
               transactions |-> block.transactions]
  BY DEF Candidates
<1>4. block.transactions \in Seq(Tx)
  BY <1>2, ChainAssumption
<1>5. block.state_root \in [Address -> AccountEntry]
  BY <1>1 DEF StateRoot
<1> QED  BY <1>2, <1>3, <1>4, <1>5 DEF Block

LEMMA InsertType ==
  ASSUME TypeOK, NEW block \in Block, NEW h \in Hash, Insert(block, h)
  PROVE  ChainTypeOK'
<1>1. block.number \in Number
  BY DEF Block
<1>2. block # NoBlock
  BY ChainSentinelAssumption
<1>3. blocks' \in [Hash -> Block \cup {NoBlock}] /\ blocks'[h] = block
  BY DEF TypeOK, Insert
<1>4. block_by_number' \in [Number -> Hash \cup {NoHash}]
  BY <1>1 DEF TypeOK, Insert
<1> QED  BY <1>2, <1>3, <1>4 DEF ChainTypeOK, Stored, Insert

(***************************************************************************)
(* A rollback outside any checkpoint still leaves a world state.           *)
(***************************************************************************)
LEMMA RollbackAtBase ==
  ASSUME NEW w \in WorldStates, Depth(w) = 1
  PROVE  /\ Rollback(w) \in WorldStates /\ Depth(Rollback(w)) = 1
         /\ Rollback(w).modifications = <<EmptyFrame>>
         /\ w.modifications = <<EmptyFrame>> => Rollback(w).accounts = w.accounts
<1>1. Restored(w) \in [Address -> AccountEntry]
  BY RestoredType
<1>2. PopFrame(w) = <<EmptyFrame>>
  BY DEF PopFrame
<1>3. <<EmptyFrame>> \in Seq(Frame) /\ Len(<<EmptyFrame>>) = 1
  BY EmptyFrameType
<1>4. ASSUME w.modifications = <<EmptyFrame>>
      PROVE  Restored(w) = w.accounts
  <2>1. TopFrame(w) = EmptyFrame
    BY <1>4 DEF TopFrame, Depth
  <2>2. w.accounts \in [Address -> AccountEntry]
    BY DEF WorldStates
  <2> QED  BY <2>1, <2>2 DEF Restored, EmptyFrame
<1> QED  BY <1>1, <1>2, <1>3, <1>4 DEF Rollback, WorldStates, Depth

LEMMA FundedState ==
  ASSUME NEW w \in WorldStates, Depth(w) = 1, NEW a \in Address, NEW amount \in Nat
  PROVE  /\ LET x == AddBalance(w, a, amount)
            IN  x \in WorldStates /\ Depth(x) = 1
         /\ LET y == Commit(AddBalance(Checkpoint(w), a, amount))
            IN  /\ y \in WorldStates /\ Depth(y) = 1 /\ y.modifications = w.modifications
                /\ \A b \in Address : GetNonce(y, b) = GetNonce(w, b)
<1> DEFINE c == Checkpoint(w)
           e == [GetAccount(w, a) EXCEPT !.balance = @ + amount]
           x == SetAccount(w, a, e)
           z == SetAccount(c, a, e)
           y == Commit(z)
<1>0. Depth(w) >= 1
  OBVIOUS
<1>1. GetAccount(w, a) \in Account
  BY GetAccountType
<1>2. e \in Account /\ e.nonce = GetNonce(w, a)
  BY <1>1 DEF Account, GetNonce
<1>3. x \in WorldStates /\ Depth(x) = 1
  BY <1>0, <1>2, SetAccountType
<1>4. Within(w, c) /\ c.accounts = w.accounts
  BY CheckpointOpens
<1>5. GetAccount(c, a) = GetAccount(w, a)
  BY <1>4 DEF GetAccount
<1>6. Within(w, z)
  <2> HIDE DEF c, e
  <2> QED  BY <1>0, <1>2, <1>4, WriteStaysWithin
<1>7. y \in WorldStates /\ Depth(y) = 1 /\ y.modifications = w.modifications
      /\ y.accounts = z.accounts
  <2> HIDE DEF z
  <2> QED  BY <1>0, <1>6, CommitCloses
<1>8. z.accounts = [w.accounts EXCEPT ![a] = e] /\ w.accounts \in [Address -> AccountEntry]
  BY <1>4 DEF SetAccount, WorldStates
<1>9. \A b \in Address : GetNonce(y, b) = GetNonce(w, b)
  <2> SUFFICES ASSUME NEW b \in Address PROVE GetNonce(y, b) = GetNonce(w, b)
    OBVIOUS
  <2>1. CASE b = a
    <3>1. y.accounts[b] = e /\ e # NoAccount
      BY <1>2, <1>7, <1>8, <2>1, SentinelAssumption
    <3> HIDE DEF y
    <3> QED  BY <1>2, <2>1, <3>1 DEF GetNonce, GetAccount
  <2>2. CASE b # a
    <3>1. y.accounts[b] = w.accounts[b]
      BY <1>7, <1>8, <2>2
    <3> HIDE DEF y
    <3> QED  BY <3>1 DEF GetNonce, GetAccount
  <2> QED  BY <2>1, <2>2
<1>10. AddBalance(w, a, amount) = x /\ Commit(AddBalance(Checkpoint(w), a, amount)) = y
  BY <1>5 DEF AddBalance
<1> HIDE DEF x, y
<1> QED  BY <1>3, <1>7, <1>9, <1>10
-----------------------------------------------------------------------------
LEMMA TypeInit == Init => TypeOK
<1> SUFFICES ASSUME Init PROVE TypeOK
  OBVIOUS
<1>0. 0 \in Number /\ MaxHeight \in Nat /\ MaxTime \in Nat /\ GenesisHash \in Hash
  BY ChainAssumption DEF Number
<1>1. EmptyWorldState.accounts \in [Address -> AccountEntry]
  BY DEF EmptyWorldState, AccountEntry
<1>2. /\ EmptyWorldState.modifications \in Seq(Frame)
      /\ Len(EmptyWorldState.modifications) = 1
  BY EmptyFrameType DEF EmptyWorldState
<1>3. EmptyWorldState \in WorldStates /\ Depth(EmptyWorldState) = 1
  BY <1>1, <1>2 DEF WorldStates, EmptyWorldState, Depth
<1>4. Genesis \in Block /\ Genesis # NoBlock
  <2>1. <<>> \in Seq(Tx)
    OBVIOUS
  <2>2. Genesis \in Block
    BY <1>0, <1>1, <2>1 DEF Genesis, Block
  <2> QED  BY <2>2, ChainSentinelAssumption
<1>5. ChainTypeOK
  BY <1>0, <1>4 DEF Init, ChainTypeOK, Stored
<1>6. body \in Seq(Tx) /\ Len(body) = 0
  BY DEF Init
<1>7. next \in Nat /\ next <= Len(body) + 1
  BY <1>6 DEF Init
<1> QED  BY <1>1, <1>3, <1>5, <1>6, <1>7 DEF Init, TypeOK, ChainTypeOK

(***************************************************************************)
(* The parts of the type that execution touches.                           *)
(***************************************************************************)
ExecTypeOK ==
  /\ ws \in WorldStates /\ Depth(ws) = 1
  /\ receipts \in [Tx -> Nat \cup {NoReceipt}]
  /\ executed \in [Tx -> Nat] /\ minted \in Nat /\ burnt \in Nat
  /\ before \in [Address -> AccountEntry]

LoopTypeOK == body \in Seq(Tx) /\ next \in Nat /\ next <= Len(body) + 1

LEMMA TypeParts == TypeOK <=> ChainTypeOK /\ ExecTypeOK /\ LoopTypeOK
BY DEF TypeOK, ChainTypeOK, ExecTypeOK, LoopTypeOK

LEMMA ExecuteType ==
  ASSUME TypeOK, NEW tx \in Tx, Execute(tx)
  PROVE  ChainTypeOK' /\ ExecTypeOK'
<1>0. UNCHANGED <<chain, minted, before>>
  BY DEF Execute
<1>1. ChainTypeOK'
  BY <1>0 DEF chain, TypeOK, ChainTypeOK, Stored
<1>2. CASE UNCHANGED <<ws, receipts, executed, burnt>>
  BY <1>0, <1>1, <1>2 DEF TypeOK, ExecTypeOK
<1>3. CASE /\ Succeeded(ws, ws', tx)
           /\ receipts' = [receipts EXCEPT ![tx] = Height + 1]
           /\ executed' = [executed EXCEPT ![tx] = @ + 1]
           /\ burnt' = burnt + CalculateFee(tx, GasUsed)
  <2>1. ws' \in WorldStates /\ Depth(ws') = 1
    BY <1>3 DEF Succeeded, TypeOK
  <2>2. receipts' \in [Tx -> Nat \cup {NoReceipt}]
    BY <1>3, HeightType DEF TypeOK
  <2>3. executed' \in [Tx -> Nat]
    BY <1>3 DEF TypeOK
  <2>4. burnt' \in Nat
    BY <1>3, FeeType DEF TypeOK
  <2> QED  BY <1>0, <1>1, <2>1, <2>2, <2>3, <2>4 DEF TypeOK, ExecTypeOK
<1> QED  BY <1>2, <1>3, ExecuteStep

LEMMA TypeStep ==
  ASSUME TypeOK, [Next]_vars
  PROVE  TypeOK'
<1>0. /\ ChainTypeOK /\ ExecTypeOK /\ LoopTypeOK
      /\ Len(body) \in Nat
  BY TypeParts DEF TypeOK
<1>1. ASSUME NEW block \in Candidates, NEW h \in Hash, NEW sound \in BOOLEAN,
             AddBlock(block, h, sound)
      PROVE  TypeOK'
  <2>1. ChainTypeOK'
    BY <1>1, AcceptedIsBlock, InsertType DEF AddBlock, Accepts
  <2>2. ExecTypeOK' /\ LoopTypeOK'
    BY <1>0, <1>1 DEF AddBlock, history, ExecTypeOK, LoopTypeOK
  <2> QED  BY <2>1, <2>2, TypeParts DEF TypeOK, ChainTypeOK, ExecTypeOK, LoopTypeOK
<1>2. ASSUME NEW tx \in Directly, ExecuteDirectly(tx)
      PROVE  TypeOK'
  <2>1. tx \in Tx
    BY ChainAssumption
  <2>2. ChainTypeOK' /\ ExecTypeOK'
    BY <1>2, <2>1, ExecuteType DEF ExecuteDirectly
  <2>3. LoopTypeOK'
    BY <1>0, <1>2 DEF ExecuteDirectly, LoopTypeOK
  <2> QED  BY <2>2, <2>3 DEF TypeOK, ChainTypeOK, ExecTypeOK, LoopTypeOK
<1>3. ASSUME NEW txs \in Bodies, BeginBlock(txs)
      PROVE  TypeOK'
  <2>1. txs \in Seq(Tx) /\ Len(txs) \in Nat
    BY ChainAssumption
  <2>2. ChainTypeOK'
    BY <1>0, <1>3 DEF BeginBlock, chain, ChainTypeOK, Stored
  <2>3. ExecTypeOK'
    BY <1>0, <1>3 DEF BeginBlock, ExecTypeOK, WorldStates
  <2>4. LoopTypeOK'
    BY <1>3, <2>1 DEF BeginBlock, LoopTypeOK
  <2> QED  BY <2>2, <2>3, <2>4 DEF TypeOK, ChainTypeOK, ExecTypeOK, LoopTypeOK
<1>4. CASE ExecuteNext
  <2>1. next \in 1 .. Len(body) /\ body[next] \in Tx
    BY <1>0, <1>4 DEF ExecuteNext, Idle, LoopTypeOK
  <2>2. ChainTypeOK' /\ ExecTypeOK'
    BY <1>4, <2>1, ExecuteType DEF ExecuteNext
  <2>3. LoopTypeOK'
    <3>1. CASE next' = next + 1 /\ body' = body
      BY <1>0, <2>1, <3>1 DEF LoopTypeOK
    <3>2. CASE next' = 0 /\ body' = <<>>
      BY <3>2 DEF LoopTypeOK
    <3> QED  BY <1>4, <3>1, <3>2 DEF ExecuteNext
  <2> QED  BY <2>2, <2>3 DEF TypeOK, ChainTypeOK, ExecTypeOK, LoopTypeOK
<1>5. ASSUME NEW block \in Candidates, NEW h \in Hash, NEW sound \in BOOLEAN,
             FinishBlock(block, h, sound)
      PROVE  TypeOK'
  <2>0. next' = 0 /\ body' = <<>> /\ UNCHANGED <<receipts, history>>
    BY <1>5 DEF FinishBlock
  <2>1. LoopTypeOK'
    BY <2>0 DEF LoopTypeOK
  <2>2. ASSUME ws' \in WorldStates, Depth(ws') = 1
        PROVE  ExecTypeOK'
    BY <1>0, <2>0, <2>2 DEF ExecTypeOK, history
  <2>3. CASE ws' = Rollback(ws) /\ UNCHANGED chain
    <3>1. ws' \in WorldStates /\ Depth(ws') = 1
      BY <1>0, <2>3, RollbackAtBase DEF ExecTypeOK
    <3>2. ChainTypeOK'
      BY <1>0, <2>3 DEF chain, ChainTypeOK, Stored
    <3> QED  BY <2>1, <2>2, <3>1, <3>2 DEF TypeOK, ChainTypeOK, ExecTypeOK, LoopTypeOK
  <2>4. CASE UNCHANGED <<chain, ws>>
    <3>1. ChainTypeOK'
      BY <1>0, <2>4 DEF chain, ChainTypeOK, Stored
    <3>2. ExecTypeOK'
      BY <1>0, <2>2, <2>4 DEF ExecTypeOK
    <3> QED  BY <2>1, <3>1, <3>2 DEF TypeOK, ChainTypeOK, ExecTypeOK, LoopTypeOK
  <2>5. CASE Accepts(block, sound) /\ Insert(block, h) /\ UNCHANGED ws
    <3>1. ChainTypeOK'
      BY <2>5, AcceptedIsBlock, InsertType DEF Accepts
    <3>2. ExecTypeOK'
      BY <1>0, <2>2, <2>5 DEF ExecTypeOK
    <3> QED  BY <2>1, <3>1, <3>2 DEF TypeOK, ChainTypeOK, ExecTypeOK, LoopTypeOK
  <2> QED  BY <1>5, <2>3, <2>4, <2>5 DEF FinishBlock
<1>6. ASSUME NEW a \in Address, NEW amount \in FundAmounts, NEW how \in Funding,
             Fund(a, amount, how)
      PROVE  TypeOK'
  <2>1. amount \in Nat
    BY ChainAssumption
  <2>2. ws' \in WorldStates /\ Depth(ws') = 1
    BY <1>0, <1>6, <2>1, FundedState DEF Fund, ExecTypeOK
  <2>3. ChainTypeOK' /\ ExecTypeOK' /\ LoopTypeOK'
    BY <1>0, <1>6, <2>1, <2>2 DEF Fund, chain, ChainTypeOK, Stored, ExecTypeOK, LoopTypeOK
  <2> QED  BY <2>3 DEF TypeOK, ChainTypeOK, ExecTypeOK, LoopTypeOK
<1>7. CASE UNCHANGED vars
  BY <1>0, <1>7 DEF vars, chain, history, TypeOK, Stored
<1> QED  BY <1>1, <1>2, <1>3, <1>4, <1>5, <1>6, <1>7 DEF Next

(***************************************************************************)
(* The chain keeps its type through forks, failed executions and rejected  *)
(* blocks; in particular the head is always a stored block, and execution  *)
(* leaves no checkpoint open.                                              *)
(***************************************************************************)
THEOREM TypeCorrect == Spec => []TypeOK
<1>1. TypeOK /\ [Next]_vars => TypeOK'
  BY TypeStep
<1> QED  BY <1>1, TypeInit, PTL DEF Spec
-----------------------------------------------------------------------------
(***************************************************************************)
(* The structure of the store.  ChainLinked and HeadIndexed are inductive  *)
(* together with the fact that the genesis block stays; verify_chain also  *)
(* needs the transactions of stored blocks to be valid.                    *)
(***************************************************************************)
TransactionsValid ==
  \A h \in Hash : Stored(h) =>
    \A i \in 1 .. Len(blocks[h].transactions) : ValidateBasic(blocks[h].transactions[i])

Structure ==
  /\ blocks[GenesisHash] = Genesis
  /\ ChainLinked
  /\ HeadIndexed
  /\ TransactionsValid

(***************************************************************************)
(* add_block never replaces a stored block by another one.                 *)
(***************************************************************************)
LEMMA InsertKeepsStored ==
  ASSUME TypeOK, NEW block \in Block, NEW h \in Hash, HashOf(block, h), Insert(block, h)
  PROVE  /\ blocks' = [blocks EXCEPT ![h] = block] /\ block # NoBlock
         /\ blocks'[h] = block
         /\ \A g \in Hash : Stored(g) => blocks'[g] = blocks[g]
         /\ \A g \in Hash : blocks'[g] # NoBlock <=> Stored(g) \/ g = h
<1>1. blocks' = [blocks EXCEPT ![h] = block] /\ block # NoBlock
  BY ChainSentinelAssumption DEF Insert
<1>2. blocks \in [Hash -> Block \cup {NoBlock}]
  BY DEF TypeOK
<1>3. blocks[h] = block \/ blocks[h] = NoBlock
  BY DEF HashOf
<1> QED  BY <1>1, <1>2, <1>3 DEF Stored

LEMMA InsertKeepsStructure ==
  ASSUME TypeOK, Structure, NEW block \in Block, NEW h \in Hash, NEW sound,
         Accepts(block, sound), HashOf(block, h), Insert(block, h)
  PROVE  Structure'
<1> DEFINE p == block.parent_hash
           n == block.number
<1>1. /\ blocks'[h] = block /\ block # NoBlock
      /\ \A g \in Hash : Stored(g) => blocks'[g] = blocks[g]
      /\ \A g \in Hash : blocks'[g] # NoBlock <=> Stored(g) \/ g = h
  BY InsertKeepsStored
<1>2. /\ p \in Hash /\ Stored(p) /\ n = blocks[p].number + 1
      /\ block.timestamp > blocks[p].timestamp
      /\ \A i \in 1 .. Len(block.transactions) : ValidateBasic(block.transactions[i])
  BY DEF Accepts, Validate, ValidateHeader, Stored
<1>3. n \in Number /\ n \in Nat /\ blocks[p] \in Block /\ blocks[p].number \in Nat
  BY <1>2 DEF TypeOK, Stored, Block, Number
<1>4. GenesisHash \in Hash /\ Stored(GenesisHash) /\ ~ (NoHash \in Hash)
  <2>1. Genesis # NoBlock
    <3>1. blocks[GenesisHash] \in Block \cup {NoBlock}
      BY ChainAssumption DEF TypeOK
    <3>2. Genesis \in Block
      <4>1. EmptyWorldState.accounts \in [Address -> AccountEntry]
        BY DEF EmptyWorldState, AccountEntry
      <4>2. <<>> \in Seq(Tx)
        OBVIOUS
      <4> QED  BY <4>1, <4>2, ChainAssumption DEF Genesis, Block, Number
    <3> QED  BY <3>2, ChainSentinelAssumption
  <2> QED  BY <2>1, ChainAssumption DEF Structure, Stored
<1>5. blocks'[GenesisHash] = Genesis
  BY <1>1, <1>4 DEF Structure
<1>6. ChainLinked'
  <2> SUFFICES ASSUME NEW g \in Hash, blocks'[g] # NoBlock, g # GenesisHash
               PROVE  /\ blocks'[g].parent_hash \in Hash
                      /\ blocks'[blocks'[g].parent_hash] # NoBlock
                      /\ blocks'[g].number = blocks'[blocks'[g].parent_hash].number + 1
                      /\ blocks'[g].timestamp > blocks'[blocks'[g].parent_hash].timestamp
    BY DEF ChainLinked, Stored
  <2>1. CASE Stored(g)
    <3>1. /\ blocks'[g] = blocks[g] /\ Stored(blocks[g].parent_hash)
          /\ blocks[g].number = blocks[blocks[g].parent_hash].number + 1
          /\ blocks[g].timestamp > blocks[blocks[g].parent_hash].timestamp
      BY <1>1, <2>1 DEF Structure, ChainLinked
    <3>2. blocks[g].parent_hash \in Hash
      BY <3>1 DEF Stored
    <3> QED  BY <1>1, <3>1, <3>2
  <2>2. CASE g = h
    BY <1>1, <1>2, <2>2
  <2> QED  BY <1>1, <2>1, <2>2
<1>7. /\ block_by_number' = [block_by_number EXCEPT ![n] = h]
      /\ block_by_number \in [Number -> Hash \cup {NoHash}]
      /\ head' = h
  BY DEF Insert, TypeOK
<1>8. HeadIndexed'
  <2>1. block_by_number'[Height'] = head'
    BY <1>1, <1>3, <1>7 DEF Height
  <2>2. ASSUME NEW m \in Number, block_by_number'[m] # NoHash
        PROVE  /\ block_by_number'[m] \in Hash /\ blocks'[block_by_number'[m]] # NoBlock
               /\ blocks'[block_by_number'[m]].number = m
    <3>1. CASE m = n
      BY <1>1, <1>3, <1>7, <3>1
    <3>2. CASE m # n
      <4>1. block_by_number'[m] = block_by_number[m]
        BY <1>3, <1>7, <3>2
      <4>2. Stored(block_by_number[m]) /\ blocks[block_by_number[m]].number = m
        BY <2>2, <4>1 DEF Structure, HeadIndexed
      <4>3. block_by_number[m] \in Hash
        BY <4>2 DEF Stored
      <4> QED  BY <1>1, <4>1, <4>2, <4>3
    <3> QED  BY <3>1, <3>2
  <2>3. ASSUME NEW g \in Hash, blocks'[g] # NoBlock, NEW m \in 0 .. blocks'[g].number
        PROVE  block_by_number'[m] # NoHash
    <3>1. CASE m = n
      BY <1>3, <1>4, <1>7, <3>1
    <3>2. CASE m # n
      <4>1. CASE Stored(g)
        <5>1. m \in 0 .. blocks[g].number
          BY <1>1, <2>3, <4>1
        <5>2. block_by_number[m] # NoHash
          BY <4>1, <5>1 DEF Structure, HeadIndexed
        <5> QED  BY <1>3, <1>7, <3>2, <5>2
      <4>2. CASE g = h
        <5>1. m \in 0 .. blocks[p].number
          <6>1. m \in 0 .. n
            BY <1>1, <2>3, <4>2
          <6> HIDE DEF n, p
          <6> QED  BY <1>2, <1>3, <3>2, <6>1
        <5>2. block_by_number[m] # NoHash
          BY <1>2, <5>1 DEF Structure, HeadIndexed
        <5> QED  BY <1>3, <1>7, <3>2, <5>2
      <4> QED  BY <1>1, <2>3, <4>1, <4>2
    <3> QED  BY <3>1, <3>2
  <2> QED  BY <2>1, <2>2, <2>3 DEF HeadIndexed, Stored
<1>9. TransactionsValid'
  BY <1>1, <1>2 DEF Structure, TransactionsValid, Stored
<1> QED  BY <1>5, <1>6, <1>8, <1>9 DEF Structure

LEMMA StructureStep ==
  ASSUME TypeOK, Structure, [Next]_vars
  PROVE  Structure'
<1>1. CASE UNCHANGED chain
  BY <1>1 DEF chain, Structure, ChainLinked, HeadIndexed, TransactionsValid, Stored, Height
<1>2. ASSUME NEW block \in Candidates, NEW h \in Hash, NEW sound \in BOOLEAN,
             Accepts(block, sound), HashOf(block, h), Insert(block, h)
      PROVE  Structure'
  BY <1>2, AcceptedIsBlock, InsertKeepsStructure DEF Accepts
<1>3. ASSUME NEW block \in Candidates, NEW h \in Hash, NEW sound \in BOOLEAN,
             FinishBlock(block, h, sound)
      PROVE  Structure'
  <2>1. UNCHANGED chain \/ (Accepts(block, sound) /\ HashOf(block, h) /\ Insert(block, h))
    BY <1>3 DEF FinishBlock
  <2> QED  BY <1>1, <1>2, <2>1
<1>4. ASSUME NEW block \in Candidates, NEW h \in Hash, NEW sound \in BOOLEAN,
             AddBlock(block, h, sound)
      PROVE  Structure'
  BY <1>2, <1>4 DEF AddBlock
<1>5. CASE \/ \E tx \in Directly : ExecuteDirectly(tx)
           \/ \E txs \in Bodies : BeginBlock(txs)
           \/ ExecuteNext
           \/ \E a \in Address, amount \in FundAmounts, how \in Funding : Fund(a, amount, how)
           \/ UNCHANGED vars
  <2>1. UNCHANGED chain
    BY <1>5 DEF ExecuteDirectly, BeginBlock, ExecuteNext, Fund, Execute, vars
  <2> QED  BY <1>1, <2>1
<1> QED  BY <1>3, <1>4, <1>5 DEF Next

LEMMA StructureInit == Init => Structure
<1> SUFFICES ASSUME Init PROVE Structure
  OBVIOUS
<1>1. TypeOK
  BY TypeInit
<1>2. GenesisHash \in Hash /\ ~ (NoHash \in Hash) /\ 0 \in Number /\ MaxHeight \in Nat
  BY ChainAssumption DEF Number
<1>3. \A h \in Hash : Stored(h) => h = GenesisHash
  BY DEF Init, Stored
<1>4. blocks[GenesisHash] = Genesis /\ Stored(GenesisHash)
  BY <1>1, <1>2 DEF Init, TypeOK
<1>5. ChainLinked
  BY <1>3 DEF ChainLinked
<1>6. Genesis.number = 0 /\ Genesis.transactions = <<>>
  BY DEF Genesis
<1>7. HeadIndexed
  <2>1. block_by_number[Height] = head
    BY <1>2, <1>4, <1>6 DEF Init, Height
  <2>2. \A n \in Number : block_by_number[n] # NoHash => n = 0 /\ block_by_number[n] = GenesisHash
    BY DEF Init
  <2>3. block_by_number[0] # NoHash
    BY <1>2 DEF Init
  <2>4. \A n \in 0 .. 0 : n = 0
    OBVIOUS
  <2> QED  BY <1>3, <1>4, <1>6, <2>1, <2>2, <2>3, <2>4 DEF HeadIndexed
<1>8. TransactionsValid
  BY <1>3, <1>4, <1>6 DEF TransactionsValid
<1> QED  BY <1>4, <1>5, <1>7, <1>8 DEF Structure

LEMMA StructureAlways == Spec => []Structure
<1>1. TypeOK /\ Structure /\ [Next]_vars => Structure'
  BY StructureStep
<1> QED  BY <1>1, StructureInit, TypeCorrect, PTL DEF Spec

(***************************************************************************)
(* Whatever blocks are offered and in whatever order, every stored block   *)
(* but the genesis block follows a stored parent in number and in time.    *)
(***************************************************************************)
THEOREM AlwaysLinked == Spec => []ChainLinked
<1>1. Structure => ChainLinked
  BY DEF Structure
<1> QED  BY <1>1, StructureAlways, PTL

(***************************************************************************)
(* The index by number always has the head at its height, only right       *)
(* entries, and no gap, through forks and re-added blocks.                 *)
(***************************************************************************)
THEOREM AlwaysIndexed == Spec => []HeadIndexed
<1>1. Structure => HeadIndexed
  BY DEF Structure
<1> QED  BY <1>1, StructureAlways, PTL

LEMMA StructureVerifies ==
  ASSUME TypeOK, Structure, ~ Forked
  PROVE  VerifyChain
<1> SUFFICES ASSUME NEW n \in 1 .. Height
             PROVE  /\ Stored(block_by_number[n])
                    /\ Validate(blocks[block_by_number[n]], block_by_number[n - 1], TRUE)
  BY DEF VerifyChain
<1> DEFINE g == block_by_number[n]
           q == block_by_number[n - 1]
           p == blocks[g].parent_hash
<1>1. Height \in Nat /\ Height \in Number /\ head \in Hash /\ Stored(head)
  BY HeightType DEF TypeOK
<1>2. n \in Nat /\ n # 0 /\ n \in Number /\ n - 1 \in Number /\ n \in 0 .. Height /\ n - 1 \in 0 .. Height
  BY <1>1, ChainAssumption DEF Number
<1>3. g # NoHash /\ q # NoHash
  BY <1>1, <1>2 DEF Structure, HeadIndexed, Height
<1>4. Stored(g) /\ blocks[g].number = n /\ Stored(q) /\ blocks[q].number = n - 1
  BY <1>2, <1>3 DEF Structure, HeadIndexed
<1>5. g # GenesisHash
  <2>1. blocks[GenesisHash].number = 0
    BY DEF Structure, Genesis
  <2> QED  BY <1>2, <1>4, <2>1
<1>6. g \in Hash /\ q \in Hash
  BY <1>4 DEF Stored
<1>7. Stored(p) /\ n = blocks[p].number + 1 /\ blocks[g].timestamp > blocks[p].timestamp
  <2> HIDE DEF g
  <2> QED  BY <1>4, <1>5, <1>6 DEF Structure, ChainLinked
<1>8. p \in Hash /\ blocks[p].number \in Nat
  BY <1>7 DEF Stored, TypeOK, Block, Number
<1>9. p = q
  <2>1. blocks[p].number = blocks[q].number
    BY <1>2, <1>4, <1>7, <1>8
  <2> HIDE DEF p, q
  <2> QED  BY <1>4, <1>6, <1>7, <1>8, <2>1 DEF Forked
<1>10. \A i \in 1 .. Len(blocks[g].transactions) : ValidateBasic(blocks[g].transactions[i])
  <2> HIDE DEF g
  <2> QED  BY <1>4, <1>6 DEF Structure, TransactionsValid
<1>11. Validate(blocks[g], q, TRUE)
  BY <1>4, <1>7, <1>8, <1>9, <1>10 DEF Validate, ValidateHeader
<1> QED  BY <1>4, <1>11

(***************************************************************************)
(* As long as no two stored blocks have the same number, verify_chain      *)
(* succeeds on whatever add_block has accepted.                            *)
(***************************************************************************)
THEOREM AlwaysVerifiesUnlessForked == Spec => []VerifiesUnlessForked
<1>1. TypeOK /\ Structure => VerifiesUnlessForked
  BY StructureVerifies DEF VerifiesUnlessForked
<1> QED  BY <1>1, StructureAlways, TypeCorrect, PTL
-----------------------------------------------------------------------------
(***************************************************************************)
(* Every call of execute_transaction is all or nothing, for every          *)
(* transaction, amount and fee, those that wrap included.                  *)
(***************************************************************************)
THEOREM ExecutionAtomic == Spec => TransactionsAtomic
<1>1. ASSUME TypeOK, NEW tx \in Tx, Execute(tx)
      PROVE  AtomicStep(tx)
  <2>1. CASE UNCHANGED <<ws, receipts, executed, burnt>>
    BY <2>1 DEF AtomicStep
  <2>2. CASE Succeeded(ws, ws', tx) /\ executed' = [executed EXCEPT ![tx] = @ + 1]
    <3>1. executed'[tx] # executed[tx]
      BY <1>1, <2>2 DEF TypeOK
    <3> QED  BY <2>2, <3>1 DEF AtomicStep, Succeeded
  <2> QED  BY <1>1, <2>1, <2>2, ExecuteStep
<1>2. TypeOK => [\A tx \in Tx : Execute(tx) => AtomicStep(tx)]_vars
  BY <1>1
<1> QED  BY <1>2, TypeCorrect, PTL DEF Spec, TransactionsAtomic
-----------------------------------------------------------------------------
(***************************************************************************)
(* Replay protection.  The inductive invariant: the journal is empty       *)
(* between transactions (so the rollback of a rejected block restores      *)
(* nothing), and a sender's nonce is past every nonce executed for it.     *)
(***************************************************************************)
NoncePast ==
  \A tx \in Tx : executed[tx] # 0 => tx.nonce < GetNonce(ws, tx.from)

ReplayInv ==
  /\ ws.modifications = <<EmptyFrame>>
  /\ NoncePast
  /\ NoReplay

LEMMA NonceType ==
  ASSUME NEW w \in WorldStates, NEW a \in Address
  PROVE  GetNonce(w, a) \in Nat
<1>1. GetAccount(w, a) \in Account
  BY GetAccountType
<1> QED  BY <1>1 DEF GetNonce, Account

LEMMA ExecuteKeepsReplayInv ==
  ASSUME TypeOK, ReplayInv, NEW tx \in Tx, Execute(tx)
  PROVE  ReplayInv'
<1>1. CASE UNCHANGED <<ws, receipts, executed, burnt>>
  BY <1>1 DEF ReplayInv, NoncePast, NoReplay
<1>2. CASE Succeeded(ws, ws', tx) /\ executed' = [executed EXCEPT ![tx] = @ + 1]
  <2>1. ws'.modifications = <<EmptyFrame>>
    BY <1>2 DEF ReplayInv, Succeeded
  <2>2. /\ tx.nonce = GetNonce(ws, tx.from) /\ tx.nonce \in Nat /\ tx.from \in Address
        /\ GetNonce(ws', tx.from) = tx.nonce + 1
    BY <1>2, TxType DEF Succeeded, Precondition
  <2>3. executed[tx] = 0
    BY <2>2 DEF ReplayInv, NoncePast, TypeOK
  <2>4. NoReplay'
    BY <1>2, <2>3 DEF ReplayInv, NoReplay, TypeOK
  <2>5. ASSUME NEW a \in Address
        PROVE  GetNonce(ws, a) <= GetNonce(ws', a)
    <3>0. GetNonce(ws, a) \in Nat /\ ws \in WorldStates
      BY NonceType DEF TypeOK
    <3>1. CASE a = tx.from
      BY <2>2, <3>1
    <3>2. CASE a # tx.from
      BY <1>2, <3>0, <3>2 DEF Succeeded
    <3> QED  BY <3>1, <3>2
  <2>6. NoncePast'
    <3> SUFFICES ASSUME NEW t \in Tx, executed'[t] # 0
                 PROVE  t.nonce < GetNonce(ws', t.from)
      BY DEF NoncePast
    <3>1. t.nonce \in Nat /\ t.from \in Address
      BY TxType
    <3>2. CASE t = tx
      BY <2>2, <3>2
    <3>3. CASE t # tx
      <4>1. executed[t] # 0
        BY <1>2, <3>3 DEF TypeOK
      <4>2. t.nonce < GetNonce(ws, t.from)
        BY <4>1 DEF ReplayInv, NoncePast
      <4>3. GetNonce(ws, t.from) \in Nat /\ GetNonce(ws', t.from) \in Nat
        BY <1>2, <3>1, NonceType DEF TypeOK, Succeeded
      <4> QED  BY <2>5, <3>1, <4>2, <4>3
    <3> QED  BY <3>2, <3>3
  <2> QED  BY <2>1, <2>4, <2>6 DEF ReplayInv
<1> QED  BY <1>1, <1>2, ExecuteStep

LEMMA ReplayStep ==
  ASSUME Funding \subseteq {"committed"}, TypeOK, ReplayInv, [Next]_vars
  PROVE  ReplayInv'
<1>0. ws \in WorldStates /\ Depth(ws) = 1 /\ ws.modifications = <<EmptyFrame>>
  BY DEF TypeOK, ReplayInv
<1>1. ASSUME ws'.modifications = <<EmptyFrame>>, executed' = executed,
             \A a \in Address : GetNonce(ws', a) = GetNonce(ws, a)
      PROVE  ReplayInv'
  BY <1>1, TxType DEF ReplayInv, NoncePast, NoReplay
<1>2. CASE UNCHANGED <<ws, executed>>
  BY <1>2 DEF ReplayInv, NoncePast, NoReplay
<1>3. ASSUME NEW block \in Candidates, NEW h \in Hash, NEW sound \in BOOLEAN,
             AddBlock(block, h, sound)
      PROVE  ReplayInv'
  BY <1>2, <1>3 DEF AddBlock, history
<1>4. ASSUME NEW tx \in Directly, ExecuteDirectly(tx)
      PROVE  ReplayInv'
  BY <1>4, ExecuteKeepsReplayInv, ChainAssumption DEF ExecuteDirectly
<1>5. ASSUME NEW txs \in Bodies, BeginBlock(txs)
      PROVE  ReplayInv'
  BY <1>2, <1>5 DEF BeginBlock
<1>6. CASE ExecuteNext
  <2>1. body[next] \in Tx
    BY <1>6 DEF ExecuteNext, Idle, TypeOK
  <2> QED  BY <1>6, <2>1, ExecuteKeepsReplayInv DEF ExecuteNext
<1>7. ASSUME NEW block \in Candidates, NEW h \in Hash, NEW sound \in BOOLEAN,
             FinishBlock(block, h, sound)
      PROVE  ReplayInv'
  <2>1. executed' = executed
    BY <1>7 DEF FinishBlock, history
  <2>2. CASE ws' = Rollback(ws)
    <3>1. ws'.modifications = <<EmptyFrame>> /\ ws'.accounts = ws.accounts
      BY <1>0, <2>2, RollbackAtBase
    <3>2. \A a \in Address : GetNonce(ws', a) = GetNonce(ws, a)
      BY <3>1 DEF GetNonce, GetAccount
    <3> QED  BY <1>1, <2>1, <3>1, <3>2
  <2>3. CASE ws' = ws
    BY <1>2, <2>1, <2>3
  <2> QED  BY <1>7, <2>2, <2>3 DEF FinishBlock
<1>8. ASSUME NEW a \in Address, NEW amount \in FundAmounts, NEW how \in Funding,
             Fund(a, amount, how)
      PROVE  ReplayInv'
  <2> DEFINE y == Commit(AddBalance(Checkpoint(ws), a, amount))
  <2>1. how # "bare" /\ amount \in Nat
    BY <1>8, ChainAssumption
  <2>2. ws' = y /\ executed' = executed
    BY <1>8, <2>1 DEF Fund
  <2>3. y.modifications = ws.modifications /\ \A b \in Address : GetNonce(y, b) = GetNonce(ws, b)
    BY <1>0, <2>1, FundedState
  <2> HIDE DEF y
  <2> QED  BY <1>0, <1>1, <2>2, <2>3
<1>9. CASE UNCHANGED vars
  BY <1>2, <1>9 DEF vars, history
<1> QED  BY <1>3, <1>4, <1>5, <1>6, <1>7, <1>8, <1>9 DEF Next

(***************************************************************************)
(* When the owner of the chain funds accounts between a checkpoint and a   *)
(* commit, no transaction is ever executed twice, whatever blocks are      *)
(* offered and rejected.  (With bare writes TLC finds a replay.)           *)
(***************************************************************************)
THEOREM NeverReplayed ==
  ASSUME Funding \subseteq {"committed"}
  PROVE  Spec => []NoReplay
<1>1. Init => ReplayInv
  BY DEF Init, ReplayInv, NoncePast, NoReplay, EmptyWorldState
<1>2. TypeOK /\ ReplayInv /\ [Next]_vars => ReplayInv'
  BY ReplayStep
<1>3. ReplayInv => NoReplay
  BY DEF ReplayInv
<1> QED  BY <1>1, <1>2, <1>3, TypeCorrect, PTL DEF Spec
-----------------------------------------------------------------------------
(***************************************************************************)
(* Amounts.  What one write does to the total of balances and stakes.      *)
(***************************************************************************)
Total(w) == SumFunctionOnSet(Held(w), Address)

LEMMA HeldType ==
  ASSUME NEW w \in WorldStates
  PROVE  /\ \A a \in Address : Held(w)[a] \in Nat
         /\ Summable(Held(w), Address)
         /\ Total(w) \in Nat
<1>1. ASSUME NEW a \in Address PROVE Held(w)[a] \in Nat
  <2>1. GetAccount(w, a) \in Account
    BY GetAccountType
  <2> QED  BY <2>1 DEF Held, Account
<1>2. Summable(Held(w), Address)
  BY <1>1, FiniteAssumption DEF Summable
<1>3. Total(w) \in Nat
  BY <1>1, FiniteAssumption, SumNat DEF Total
<1> QED  BY <1>1, <1>2, <1>3

LEMMA WriteTotal ==
  ASSUME NEW w \in WorldStates, NEW a \in Address, NEW e \in Account
  PROVE  Total(SetAccount(w, a, e))
           = Total(w) - (GetAccount(w, a).balance + GetAccount(w, a).staked)
                      + (e.balance + e.staked)
<1> DEFINE n == SetAccount(w, a, e)
<1>1. w.accounts \in [Address -> AccountEntry] /\ n.accounts = [w.accounts EXCEPT ![a] = e]
  BY DEF WorldStates, SetAccount
<1>2. n.accounts[a] = e /\ e # NoAccount
  BY <1>1, SentinelAssumption
<1>3. GetAccount(n, a) = e
  BY <1>2 DEF GetAccount
<1>4. \A b \in Address \ {a} : GetAccount(n, b) = GetAccount(w, b)
  BY <1>1 DEF GetAccount
<1> HIDE DEF n
<1>5. Held(n)[a] = e.balance + e.staked /\ Held(n)[a] \in Int
  BY <1>3 DEF Held, Account
<1>6. \A b \in Address \ {a} : Held(w)[b] = Held(n)[b]
  BY <1>4 DEF Held
<1>7. Summable(Held(w), Address)
  BY HeldType
<1>8. Total(n) = Total(w) - Held(w)[a] + Held(n)[a]
  BY <1>5, <1>6, <1>7, SumChangeOne DEF Total
<1>9. Held(w)[a] = GetAccount(w, a).balance + GetAccount(w, a).staked
  BY DEF Held
<1> QED  BY <1>5, <1>8, <1>9 DEF n

LEMMA SameAccounts ==
  ASSUME NEW w, NEW x, w.accounts = x.accounts
  PROVE  Total(w) = Total(x) /\ \A a : GetAccount(w, a) = GetAccount(x, a)
<1>1. \A a : GetAccount(w, a) = GetAccount(x, a)
  BY DEF GetAccount
<1> QED  BY <1>1 DEF Total, Held

(***************************************************************************)
(* A transfer to its own sender creates its amount; no other operation     *)
(* creates or loses anything, and the fee is all that leaves.              *)
(***************************************************************************)
Gain(tx) == IF tx \in ToSelf THEN tx.amount ELSE 0

LEMMA TransferTotal ==
  ASSUME NEW w \in WorldStates, Depth(w) >= 1, NEW tx \in Tx, tx.tx_type = "Transfer",
         Transfer(w, tx.from, tx.to, tx.amount).ok
  PROVE  Total(Transfer(w, tx.from, tx.to, tx.amount).ws) = Total(w) + Gain(tx)
<1> DEFINE f == GetAccount(w, tx.from)
           t == GetAccount(w, tx.to)
           nf == [f EXCEPT !.balance = @ - tx.amount]
           nt == [t EXCEPT !.balance = @ + tx.amount]
           y == SetAccount(w, tx.from, nf)
           z == SetAccount(y, tx.to, nt)
<1>1. /\ tx.from \in Address /\ tx.to \in Address /\ tx.amount \in Nat
      /\ f \in Account /\ t \in Account
  BY TxType, GetAccountType
<1>2. ~ (f.balance < tx.amount)
  BY DEF Transfer, Err
<1>3. Transfer(w, tx.from, tx.to, tx.amount).ws = z
  BY <1>2 DEF Transfer, Ok
<1> HIDE DEF f, t
<1>4. /\ nf \in Account /\ nf.balance = f.balance - tx.amount /\ nf.staked = f.staked
      /\ nt \in Account /\ nt.balance = t.balance + tx.amount /\ nt.staked = t.staked
  BY <1>1, <1>2 DEF Account
<1> HIDE DEF nf, nt
<1>5. y \in WorldStates
  BY <1>1, <1>4, SetAccountType
<1>6. Total(y) = Total(w) - (f.balance + f.staked) + (nf.balance + nf.staked)
  BY <1>1, <1>4, WriteTotal DEF f
<1>7. Total(z) = Total(y) - (GetAccount(y, tx.to).balance + GetAccount(y, tx.to).staked)
                          + (nt.balance + nt.staked)
  <2> HIDE DEF y
  <2> QED  BY <1>1, <1>4, <1>5, WriteTotal
<1>8. w.accounts \in [Address -> AccountEntry] /\ y.accounts = [w.accounts EXCEPT ![tx.from] = nf]
  BY DEF WorldStates, SetAccount
<1>9. Total(w) \in Nat /\ Total(y) \in Nat
  BY <1>5, HeldType
<1>10. CASE tx.from = tx.to
  <2>1. GetAccount(y, tx.to) = nf
    <3>1. y.accounts[tx.to] = nf /\ nf # NoAccount
      BY <1>1, <1>4, <1>8, <1>10, SentinelAssumption
    <3> QED  BY <3>1 DEF GetAccount
  <2>2. f = t /\ Gain(tx) = tx.amount
    BY <1>10 DEF f, t, Gain, ToSelf
  <2> HIDE DEF y, z
  <2>3. Total(z) = Total(w) + tx.amount
    BY <1>1, <1>4, <1>6, <1>7, <1>9, <2>1, <2>2 DEF Account
  <2> QED  BY <1>3, <2>2, <2>3
<1>11. CASE tx.from # tx.to
  <2>1. GetAccount(y, tx.to) = t
    BY <1>1, <1>8, <1>11 DEF GetAccount, t
  <2>2. Gain(tx) = 0
    BY <1>11 DEF Gain, ToSelf
  <2> HIDE DEF y, z
  <2>3. Total(z) = Total(w)
    BY <1>1, <1>4, <1>6, <1>7, <1>9, <2>1, <2>2 DEF Account
  <2> QED  BY <1>3, <1>9, <2>2, <2>3
<1> QED  BY <1>10, <1>11

LEMMA AppliedAccount ==
  ASSUME NEW acc \in Account, NEW amount \in Nat,
         NEW type \in {"Stake", "Unstake", "DeployLiquidity", "WithdrawLiquidity"},
         MayApply(acc, type, amount)
  PROVE  LET e == Apply(acc, type, amount)
         IN  e \in Account /\ e.balance + e.staked = acc.balance + acc.staked
<1> DEFINE e == Apply(acc, type, amount)
           b == [acc EXCEPT !.balance = @ - amount]
           u == [acc EXCEPT !.staked = @ - amount]
<1>1. CASE type = "Stake"
  <2>1. acc.balance >= amount /\ e = [b EXCEPT !.staked = @ + amount]
    BY <1>1 DEF MayApply, Apply, Account
  <2>2. b \in Account /\ b.balance = acc.balance - amount /\ b.staked = acc.staked
    BY <2>1 DEF Account
  <2> HIDE DEF b
  <2> QED  BY <2>1, <2>2 DEF Account
<1>2. CASE type = "Unstake"
  <2>1. acc.staked >= amount /\ e = [u EXCEPT !.balance = @ + amount]
    BY <1>2 DEF MayApply, Apply, Account
  <2>2. u \in Account /\ u.balance = acc.balance /\ u.staked = acc.staked - amount
    BY <2>1 DEF Account
  <2> HIDE DEF u
  <2> QED  BY <2>1, <2>2 DEF Account
<1>3. CASE type = "DeployLiquidity"
  BY <1>3 DEF MayApply, Apply, Account
<1>4. CASE type = "WithdrawLiquidity"
  BY <1>4 DEF MayApply, Apply, Account
<1> QED  BY <1>1, <1>2, <1>3, <1>4

LEMMA AccountOperationTotal ==
  ASSUME NEW w \in WorldStates, Depth(w) >= 1, NEW a \in Address, NEW amount \in Nat,
         NEW type \in {"Stake", "Unstake", "DeployLiquidity", "WithdrawLiquidity"},
         AccountOperation(w, a, type, amount).ok
  PROVE  Total(AccountOperation(w, a, type, amount).ws) = Total(w)
<1> DEFINE acc == GetAccount(w, a)
           m == SetAccount(w, a, acc)
           e == Apply(acc, type, amount)
<1>1. acc \in Account
  BY GetAccountType
<1>2. m \in WorldStates /\ m.accounts[a] = acc /\ GetAccount(m, a) = acc
  <2>1. m \in WorldStates
    BY <1>1, SetAccountType
  <2>2. w.accounts \in [Address -> AccountEntry] /\ m.accounts = [w.accounts EXCEPT ![a] = acc]
    BY DEF WorldStates, SetAccount
  <2>3. m.accounts[a] = acc
    BY <2>2
  <2>4. acc # NoAccount
    BY <1>1, SentinelAssumption
  <2> HIDE DEF m, acc
  <2>5. GetAccount(m, a) = acc
    BY <2>3, <2>4 DEF GetAccount
  <2> QED  BY <2>1, <2>3, <2>5
<1>3. MayApply(acc, type, amount)
  BY <1>2 DEF AccountOperation, GetAccountMut, Err
<1>4. AccountOperation(w, a, type, amount).ws = SetAccount(m, a, e)
  BY <1>2, <1>3 DEF AccountOperation, GetAccountMut, Ok
<1>5. e \in Account /\ e.balance + e.staked = acc.balance + acc.staked
  <2> HIDE DEF acc
  <2> QED  BY <1>1, <1>3, AppliedAccount
<1>6. Total(m) = Total(w) - (acc.balance + acc.staked) + (acc.balance + acc.staked)
  BY <1>1, WriteTotal
<1>7. Total(SetAccount(m, a, e)) = Total(m) - (acc.balance + acc.staked) + (e.balance + e.staked)
  <2> HIDE DEF m, acc, e
  <2> QED  BY <1>2, <1>5, WriteTotal
<1>8. Total(w) \in Nat /\ acc.balance \in Nat /\ acc.staked \in Nat
  BY <1>1, HeldType DEF Account
<1> HIDE DEF m, acc, e
<1> QED  BY <1>4, <1>5, <1>6, <1>7, <1>8

LEMMA PerformTotal ==
  ASSUME NEW w \in WorldStates, Depth(w) >= 1, NEW tx \in Tx, Perform(w, tx).ok
  PROVE  Total(Perform(w, tx).ws) = Total(w) + Gain(tx)
<1>0. Total(w) \in Nat /\ tx.from \in Address /\ tx.amount \in Nat
  BY HeldType, TxType
<1>1. CASE tx.tx_type = "Transfer"
  <2>1. Perform(w, tx) = Transfer(w, tx.from, tx.to, tx.amount)
    BY <1>1 DEF Perform
  <2> QED  BY <1>1, <2>1, TransferTotal
<1>2. CASE tx.tx_type \in {"Stake", "Unstake", "DeployLiquidity", "WithdrawLiquidity"}
  <2>1. Perform(w, tx) = AccountOperation(w, tx.from, tx.tx_type, tx.amount)
    BY <1>2 DEF Perform
  <2>2. Gain(tx) = 0
    BY <1>2 DEF Gain, ToSelf
  <2> QED  BY <1>0, <1>2, <2>1, <2>2, AccountOperationTotal
<1>3. CASE tx.tx_type \in {"ContractDeployment", "ContractCall"}
  <2>1. Perform(w, tx) = Ok(w)
    BY <1>3 DEF Perform
  <2>2. Gain(tx) = 0
    BY <1>3 DEF Gain, ToSelf
  <2> QED  BY <1>0, <2>1, <2>2 DEF Ok
<1> QED  BY <1>1, <1>2, <1>3, TxType DEF TransactionType

LEMMA ChargeFeeTotal ==
  ASSUME NEW w \in WorldStates, NEW tx \in Tx, ChargeFee(w, tx).ok
  PROVE  Total(ChargeFee(w, tx).ws) = Total(w) - CalculateFee(tx, GasUsed)
<1> DEFINE fee == CalculateFee(tx, GasUsed)
           acc == GetAccount(w, tx.from)
           e == [acc EXCEPT !.balance = @ - fee]
<1>1. fee \in Nat /\ tx.from \in Address /\ acc \in Account /\ Total(w) \in Nat
  BY FeeType, TxType, GetAccountType, HeldType
<1>2. ~ (acc.balance < fee)
  BY DEF ChargeFee, Err
<1>3. ChargeFee(w, tx).ws = SetAccount(w, tx.from, e)
  BY <1>2 DEF ChargeFee, Ok
<1>4. e \in Account /\ e.balance = acc.balance - fee /\ e.staked = acc.staked
  <2> HIDE DEF fee, acc
  <2> QED  BY <1>1, <1>2 DEF Account
<1>5. Total(SetAccount(w, tx.from, e)) = Total(w) - (acc.balance + acc.staked) + (e.balance + e.staked)
  <2> HIDE DEF e
  <2> QED  BY <1>1, <1>4, WriteTotal
<1> HIDE DEF fee, acc, e
<1>6. acc.balance \in Nat /\ acc.staked \in Nat
  BY <1>1 DEF Account
<1>7. Total(SetAccount(w, tx.from, e)) = Total(w) - fee
  BY <1>1, <1>4, <1>5, <1>6
<1> QED  BY <1>3, <1>7 DEF fee

LEMMA IncrementNonceTotal ==
  ASSUME NEW w \in WorldStates, NEW a \in Address
  PROVE  Total(IncrementNonce(w, a)) = Total(w)
<1> DEFINE acc == GetAccount(w, a)
           e == [acc EXCEPT !.nonce = @ + 1]
<1>1. acc \in Account /\ Total(w) \in Nat
  BY GetAccountType, HeldType
<1>2. e \in Account /\ e.balance = acc.balance /\ e.staked = acc.staked
  <2> HIDE DEF acc
  <2> QED  BY <1>1 DEF Account
<1>3. Total(SetAccount(w, a, e)) = Total(w) - (acc.balance + acc.staked) + (e.balance + e.staked)
  <2> HIDE DEF e
  <2> QED  BY <1>2, WriteTotal
<1>4. acc.balance \in Nat /\ acc.staked \in Nat
  BY <1>1 DEF Account
<1>5. IncrementNonce(w, a) = SetAccount(w, a, e)
  BY DEF IncrementNonce
<1> HIDE DEF acc, e
<1> QED  BY <1>1, <1>2, <1>3, <1>4, <1>5

LEMMA ExecuteTotal ==
  ASSUME NEW w \in WorldStates, Depth(w) >= 1, NEW tx \in Tx, ExecuteTransaction(w, tx).ok
  PROVE  Total(ExecuteTransaction(w, tx).ws)
           = Total(w) + Gain(tx) - CalculateFee(tx, GasUsed)
<1> DEFINE c == Checkpoint(w)
           x == IncrementNonce(c, tx.from)
           p == Perform(x, tx)
           f == ChargeFee(p.ws, tx)
           r == ExecuteTransaction(w, tx)
           result == ExecuteTransactionType(c, tx)
<1>1. Within(w, c) /\ c.accounts = w.accounts
  BY CheckpointOpens
<1>2. c \in WorldStates /\ Total(c) = Total(w) /\ tx.from \in Address
  BY <1>1, SameAccounts, TxType DEF Within
<1>3. Total(x) = Total(w)
  <2> HIDE DEF c
  <2> QED  BY <1>2, IncrementNonceTotal
<1>4. Reached(w, x, tx)
  BY IncrementNonceReaches
<1>5. x \in WorldStates /\ Depth(x) >= 1
  BY <1>4 DEF Reached, Within, WorldStates, Depth
<1>6. Precondition(w, tx) /\ result.ok /\ r.ws = Commit(result.ws)
  BY DEF ExecuteTransaction, Err, Ok
<1>7. p.ok /\ result = f
  BY <1>6 DEF ExecuteTransactionType
<1>8. Reached(w, p.ws, tx)
  <2> HIDE DEF x
  <2> QED  BY <1>4, PerformStaysReached
<1>9. Total(p.ws) = Total(x) + Gain(tx)
  <2> HIDE DEF x
  <2> QED  BY <1>5, <1>7, PerformTotal
<1>10. Total(f.ws) = Total(p.ws) - CalculateFee(tx, GasUsed)
  <2> HIDE DEF p
  <2>1. p.ws \in WorldStates
    BY <1>8 DEF Reached, Within
  <2> QED  BY <1>6, <1>7, <2>1, ChargeFeeTotal
<1>11. Total(r.ws) = Total(f.ws)
  <2>1. r.ws.accounts = f.ws.accounts
    BY <1>6, <1>7 DEF Commit
  <2> HIDE DEF r, f
  <2> QED  BY <2>1, SameAccounts
<1> HIDE DEF r, f, p, x
<1>t. Total(w) \in Nat /\ Gain(tx) \in Nat /\ CalculateFee(tx, GasUsed) \in Nat
  BY HeldType, TxType, FeeType DEF Gain
<1>12. Total(r.ws) = Total(w) + Gain(tx) - CalculateFee(tx, GasUsed)
  BY <1>3, <1>9, <1>10, <1>11, <1>t
<1> QED  BY <1>12 DEF r

(***************************************************************************)
(* What one more execution does to the two sums over the transactions.     *)
(***************************************************************************)
LEMMA CreatedType ==
  ASSUME NEW count \in [Tx -> Nat]
  PROVE  /\ Summable(Created(count), ToSelf)
         /\ SumFunctionOnSet(Created(count), ToSelf) \in Int
         /\ \A t \in ToSelf : /\ t \in Tx /\ t.amount \in Nat
                             /\ Created(count)[t] = count[t] * t.amount
                             /\ Created(count)[t] \in Nat
<1>1. IsFiniteSet(ToSelf) /\ \A t \in ToSelf : t \in Tx /\ t.amount \in Nat
  BY FiniteAssumption, FS_Subset, TxType DEF ToSelf
<1>2. \A t \in ToSelf : Created(count)[t] = count[t] * t.amount
  BY DEF Created
<1>3. \A m, n \in Nat : m * n \in Nat
  OBVIOUS
<1>4. \A t \in ToSelf : Created(count)[t] \in Nat
  BY <1>1, <1>2, <1>3
<1>5. Summable(Created(count), ToSelf)
  BY <1>1, <1>4 DEF Summable
<1>6. SumFunctionOnSet(Created(count), ToSelf) \in Int
  BY <1>5, SumInt
<1> QED  BY <1>1, <1>2, <1>4, <1>5, <1>6

LEMMA CountOneMore ==
  ASSUME NEW old \in [Tx -> Nat], NEW tx \in Tx,
         NEW new, \A t \in Tx : new[t] = IF t = tx THEN old[t] + 1 ELSE old[t]
  PROVE  /\ \A a \in Address :
              SumFunctionOnSet(new, {t \in Tx : t.from = a}) =
                SumFunctionOnSet(old, {t \in Tx : t.from = a})
                  + (IF a = tx.from THEN 1 ELSE 0)
         /\ SumFunctionOnSet(Created(new), ToSelf) = SumFunctionOnSet(Created(old), ToSelf) + Gain(tx)
<1>1. ASSUME NEW a \in Address
      PROVE  SumFunctionOnSet(new, {t \in Tx : t.from = a}) =
                SumFunctionOnSet(old, {t \in Tx : t.from = a})
                  + (IF a = tx.from THEN 1 ELSE 0)
  <2> DEFINE S == {t \in Tx : t.from = a}
  <2>1. Summable(old, S)
    <3>1. IsFiniteSet(S)
      BY FiniteAssumption, FS_Subset
    <3> QED  BY <3>1 DEF Summable
  <2>2. SumFunctionOnSet(old, S) \in Int
    BY <2>1, SumInt
  <2>3. CASE a = tx.from
    <3>1. tx \in S /\ new[tx] = old[tx] + 1 /\ old[tx] \in Int
      BY <2>3
    <3>2. \A t \in S \ {tx} : old[t] = new[t]
      OBVIOUS
    <3> HIDE DEF S
    <3>3. SumFunctionOnSet(new, S)
            = SumFunctionOnSet(old, S) - old[tx] + new[tx]
      BY <2>1, <3>1, <3>2, SumChangeOne
    <3>4. SumFunctionOnSet(new, S) = SumFunctionOnSet(old, S) + 1
      BY <2>2, <3>1, <3>3
    <3> QED  BY <2>3, <3>4 DEF S
  <2>4. CASE a # tx.from
    <3>1. \A t \in S : old[t] = new[t]
      BY <2>4
    <3> HIDE DEF S
    <3>2. SumFunctionOnSet(new, S) = SumFunctionOnSet(old, S)
      BY <2>1, <3>1, SumSame
    <3> QED  BY <2>2, <2>4, <3>2 DEF S
  <2> QED  BY <2>3, <2>4
<1>2. SumFunctionOnSet(Created(new), ToSelf) = SumFunctionOnSet(Created(old), ToSelf) + Gain(tx)
  <2>1. /\ Summable(Created(old), ToSelf) /\ SumFunctionOnSet(Created(old), ToSelf) \in Int
        /\ \A t \in ToSelf : /\ t \in Tx /\ t.amount \in Nat /\ Created(old)[t] \in Nat
                            /\ Created(old)[t] = old[t] * t.amount
    BY CreatedType
  <2>2. \A t \in ToSelf : Created(new)[t] = new[t] * t.amount
    BY DEF Created
  <2>3. \A m, n \in Nat : (m + 1) * n = m * n + n
    OBVIOUS
  <2>7. \A t \in ToSelf \ {tx} : Created(old)[t] = Created(new)[t]
    BY <2>1, <2>2
  <2>8. CASE tx \in ToSelf
    <3>1. new[tx] = old[tx] + 1 /\ old[tx] \in Nat
      OBVIOUS
    <3>2. Created(new)[tx] = (old[tx] + 1) * tx.amount
      BY <2>2, <2>8, <3>1
    <3>3. Created(new)[tx] = Created(old)[tx] + tx.amount
      BY <2>1, <2>2, <2>3, <2>8, <3>1, <3>2
    <3>4. tx.amount \in Nat /\ Created(old)[tx] \in Nat /\ Created(new)[tx] \in Int /\ Gain(tx) = tx.amount
      BY <2>1, <2>8, <3>3 DEF Gain
    <3>5. SumFunctionOnSet(Created(new), ToSelf)
            = SumFunctionOnSet(Created(old), ToSelf) - Created(old)[tx] + Created(new)[tx]
      BY <2>1, <2>7, <2>8, <3>4, SumChangeOne
    <3> QED  BY <2>1, <3>3, <3>4, <3>5
  <2>9. CASE ~ (tx \in ToSelf)
    <3>1. \A t \in ToSelf : Created(old)[t] = Created(new)[t]
      BY <2>7, <2>9
    <3>2. SumFunctionOnSet(Created(new), ToSelf) = SumFunctionOnSet(Created(old), ToSelf)
      BY <2>1, <3>1, SumSame
    <3> QED  BY <2>1, <2>9, <3>2 DEF Gain
  <2> QED  BY <2>8, <2>9
<1> QED  BY <1>1, <1>2

(***************************************************************************)
(* The inductive invariant: the journal is empty between transactions, and *)
(* both accounts are right.                                                *)
(***************************************************************************)
LedgerInv ==
  /\ ws.modifications = <<EmptyFrame>>
  /\ NonceCountsExecutions
  /\ Conservation

LEMMA ExecuteKeepsLedgerInv ==
  ASSUME TypeOK, LedgerInv, NEW tx \in Tx, Execute(tx)
  PROVE  LedgerInv'
<1> DEFINE r == ExecuteTransaction(ws, tx)
           fee == CalculateFee(tx, GasUsed)
<1>0. ws \in WorldStates /\ Depth(ws) >= 1 /\ executed \in [Tx -> Nat] /\ burnt \in Nat /\ minted \in Nat
  BY DEF TypeOK
<1>1. /\ ws' = r.ws /\ minted' = minted
      /\ IF r.ok THEN executed' = [executed EXCEPT ![tx] = @ + 1] /\ burnt' = burnt + fee
         ELSE executed' = executed /\ burnt' = burnt
  BY DEF Execute
<1>2. r = Err(ws) \/ (r = Ok(r.ws) /\ Succeeded(ws, r.ws, tx))
  BY <1>0, ExecuteOutcome
<1>3. CASE r = Err(ws)
  <2>1. r.ws = ws /\ ~ r.ok
    BY <1>3 DEF Err
  <2> HIDE DEF r
  <2> QED  BY <1>1, <2>1 DEF LedgerInv, NonceCountsExecutions, Conservation
<1>4. CASE r = Ok(r.ws) /\ Succeeded(ws, r.ws, tx)
  <2>1. r.ok
    BY <1>4 DEF Ok
  <2>2. Total(r.ws) = Total(ws) + Gain(tx) - fee
    BY <1>0, <2>1, ExecuteTotal
  <2> HIDE DEF r, fee
  <2> DEFINE new == executed'
  <2>3. \A t \in Tx : new[t] = IF t = tx THEN executed[t] + 1 ELSE executed[t]
    BY <1>0, <1>1, <2>1
  <2>4. /\ \A a \in Address :
             SumFunctionOnSet(new, {t \in Tx : t.from = a}) =
               SumFunctionOnSet(executed, {t \in Tx : t.from = a})
                 + (IF a = tx.from THEN 1 ELSE 0)
        /\ SumFunctionOnSet(Created(new), ToSelf)
             = SumFunctionOnSet(Created(executed), ToSelf) + Gain(tx)
    <3> HIDE DEF new
    <3> QED  BY <1>0, <2>3, CountOneMore
  <2>5. NonceCountsExecutions'
    <3> SUFFICES ASSUME NEW a \in Address
                 PROVE  GetNonce(ws', a) = SumFunctionOnSet(new, {t \in Tx : t.from = a})
      BY DEF NonceCountsExecutions
    <3>1. GetNonce(ws, a) = SumFunctionOnSet(executed, {t \in Tx : t.from = a})
      BY DEF LedgerInv, NonceCountsExecutions
    <3>2. GetNonce(ws', a) = GetNonce(ws, a) + (IF a = tx.from THEN 1 ELSE 0)
      <4>1. GetNonce(ws, a) \in Nat
        BY <1>0, NonceType
      <4>2. CASE a = tx.from
        BY <1>1, <1>4, <4>2 DEF Succeeded
      <4>3. CASE a # tx.from
        BY <1>1, <1>4, <4>1, <4>3 DEF Succeeded
      <4> QED  BY <4>2, <4>3
    <3> HIDE DEF new
    <3> QED  BY <2>4, <3>1, <3>2
  <2>6. Conservation'
    <3>1. minted + SumFunctionOnSet(Created(executed), ToSelf) = burnt + Total(ws)
      BY DEF LedgerInv, Conservation, Total
    <3>2. Total(ws) \in Nat /\ Gain(tx) \in Nat /\ fee \in Nat
      BY <1>0, HeldType, TxType, FeeType DEF Gain, fee
    <3>3. Total(ws') = Total(ws) + Gain(tx) - fee /\ minted' = minted /\ burnt' = burnt + fee
      BY <1>1, <2>1, <2>2
    <3>4. SumFunctionOnSet(Created(executed), ToSelf) \in Int
      BY <1>0, CreatedType
    <3>5. minted' + SumFunctionOnSet(Created(new), ToSelf) = burnt' + Total(ws')
      <4> HIDE DEF new
      <4> QED  BY <1>0, <2>4, <3>1, <3>2, <3>3, <3>4
    <3> QED  BY <3>5 DEF Conservation, Total
  <2>7. ws'.modifications = <<EmptyFrame>>
    BY <1>1, <1>4 DEF LedgerInv, Succeeded
  <2> QED  BY <2>5, <2>6, <2>7 DEF LedgerInv
<1> QED  BY <1>2, <1>3, <1>4

LEMMA FundTotal ==
  ASSUME NEW w \in WorldStates, Depth(w) = 1, NEW a \in Address, NEW amount \in Nat
  PROVE  Total(Commit(AddBalance(Checkpoint(w), a, amount))) = Total(w) + amount
<1> DEFINE c == Checkpoint(w)
           acc == GetAccount(c, a)
           e == [acc EXCEPT !.balance = @ + amount]
           z == SetAccount(c, a, e)
           y == Commit(z)
<1>1. Within(w, c) /\ c.accounts = w.accounts
  BY CheckpointOpens
<1>2. c \in WorldStates /\ Total(c) = Total(w)
  BY <1>1, SameAccounts DEF Within
<1> HIDE DEF c
<1>3. acc \in Account /\ Total(c) \in Nat
  BY <1>2, GetAccountType, HeldType
<1> HIDE DEF acc
<1>4. e \in Account /\ e.balance = acc.balance + amount /\ e.staked = acc.staked
  BY <1>3 DEF Account
<1> HIDE DEF e
<1>5. Total(z) = Total(c) - (acc.balance + acc.staked) + (e.balance + e.staked)
  BY <1>2, <1>4, WriteTotal DEF acc
<1>6. Total(y) = Total(z)
  <2>1. y.accounts = z.accounts
    BY DEF Commit
  <2> HIDE DEF y, z
  <2> QED  BY <2>1, SameAccounts
<1>7. y = Commit(AddBalance(Checkpoint(w), a, amount))
  BY DEF AddBalance, c, e, acc
<1> HIDE DEF y, z
<1>8. Total(y) = Total(w) + amount
  BY <1>2, <1>3, <1>4, <1>5, <1>6 DEF Account
<1> QED  BY <1>7, <1>8

LEMMA LedgerStep ==
  ASSUME Funding \subseteq {"committed"}, TypeOK, LedgerInv, [Next]_vars
  PROVE  LedgerInv'
<1>0. /\ ws \in WorldStates /\ Depth(ws) = 1 /\ ws.modifications = <<EmptyFrame>>
      /\ executed \in [Tx -> Nat] /\ burnt \in Nat /\ minted \in Nat
  BY DEF TypeOK, LedgerInv
<1>1. CASE UNCHANGED <<ws, executed, minted, burnt>>
  BY <1>1 DEF LedgerInv, NonceCountsExecutions, Conservation
<1>3. ASSUME NEW block \in Candidates, NEW h \in Hash, NEW sound \in BOOLEAN,
             AddBlock(block, h, sound)
      PROVE  LedgerInv'
  BY <1>1, <1>3 DEF AddBlock, history
<1>4. ASSUME NEW tx \in Directly, ExecuteDirectly(tx)
      PROVE  LedgerInv'
  BY <1>4, ExecuteKeepsLedgerInv, ChainAssumption DEF ExecuteDirectly
<1>5. ASSUME NEW txs \in Bodies, BeginBlock(txs)
      PROVE  LedgerInv'
  BY <1>1, <1>5 DEF BeginBlock
<1>6. CASE ExecuteNext
  <2>1. body[next] \in Tx
    BY <1>6 DEF ExecuteNext, Idle, TypeOK
  <2> QED  BY <1>6, <2>1, ExecuteKeepsLedgerInv DEF ExecuteNext
<1>7. ASSUME NEW block \in Candidates, NEW h \in Hash, NEW sound \in BOOLEAN,
             FinishBlock(block, h, sound)
      PROVE  LedgerInv'
  <2>1. UNCHANGED <<executed, minted, burnt>>
    BY <1>7 DEF FinishBlock, history
  <2>2. CASE ws' = Rollback(ws)
    <3>1. ws'.modifications = <<EmptyFrame>> /\ ws'.accounts = ws.accounts
      BY <1>0, <2>2, RollbackAtBase
    <3>2. \A a : GetAccount(ws', a) = GetAccount(ws, a)
      BY <3>1 DEF GetAccount
    <3>3. Held(ws') = Held(ws) /\ \A a : GetNonce(ws', a) = GetNonce(ws, a)
      BY <3>2 DEF Held, GetNonce
    <3> QED  BY <2>1, <3>1, <3>3 DEF LedgerInv, NonceCountsExecutions, Conservation
  <2>3. CASE ws' = ws
    BY <1>1, <2>1, <2>3
  <2> QED  BY <1>7, <2>2, <2>3 DEF FinishBlock
<1>8. ASSUME NEW a \in Address, NEW amount \in FundAmounts, NEW how \in Funding,
             Fund(a, amount, how)
      PROVE  LedgerInv'
  <2> DEFINE y == Commit(AddBalance(Checkpoint(ws), a, amount))
  <2>1. how # "bare" /\ amount \in Nat
    BY <1>8, ChainAssumption
  <2>2. ws' = y /\ executed' = executed /\ burnt' = burnt /\ minted' = minted + amount
    BY <1>8, <2>1 DEF Fund
  <2>3. y.modifications = ws.modifications /\ \A b \in Address : GetNonce(y, b) = GetNonce(ws, b)
    BY <1>0, <2>1, FundedState
  <2>4. Total(y) = Total(ws) + amount
    BY <1>0, <2>1, FundTotal
  <2> HIDE DEF y
  <2>5. NonceCountsExecutions' /\ ws'.modifications = <<EmptyFrame>>
    BY <1>0, <2>2, <2>3 DEF LedgerInv, NonceCountsExecutions
  <2>6. Conservation'
    <3> DEFINE s == SumFunctionOnSet(Created(executed), ToSelf)
    <3>1. minted + s = burnt + Total(ws)
      BY DEF LedgerInv, Conservation, Total
    <3>2. Total(ws) \in Nat /\ Total(ws') = Total(ws) + amount
      BY <1>0, <2>2, <2>4, HeldType
    <3>3. s \in Int
      BY <1>0, CreatedType
    <3>4. minted' + s = burnt' + Total(ws')
      <4> HIDE DEF s
      <4> QED  BY <1>0, <2>1, <2>2, <3>1, <3>2, <3>3
    <3> QED  BY <2>2, <3>4 DEF Conservation, Total
  <2> QED  BY <2>5, <2>6 DEF LedgerInv
<1>9. CASE UNCHANGED vars
  BY <1>1, <1>9 DEF vars, history
<1> QED  BY <1>3, <1>4, <1>5, <1>6, <1>7, <1>8, <1>9 DEF Next

LEMMA LedgerAlways ==
  ASSUME Funding \subseteq {"committed"}
  PROVE  Spec => []LedgerInv
<1>1. Init => LedgerInv
  <2> SUFFICES ASSUME Init PROVE LedgerInv
    OBVIOUS
  <2>1. /\ ws = EmptyWorldState /\ executed = [tx \in Tx |-> 0] /\ minted = 0 /\ burnt = 0
    BY DEF Init
  <2>2. \A a \in Address : GetAccount(ws, a) = NewAccount
    BY <2>1 DEF GetAccount, EmptyWorldState
  <2>3. NonceCountsExecutions
    <3> SUFFICES ASSUME NEW a \in Address
                 PROVE  GetNonce(ws, a) = SumFunctionOnSet(executed, {tx \in Tx : tx.from = a})
      BY DEF NonceCountsExecutions
    <3>1. IsFiniteSet({tx \in Tx : tx.from = a}) /\ \A tx \in {tx \in Tx : tx.from = a} : executed[tx] = 0
      BY <2>1, FiniteAssumption, FS_Subset
    <3>2. SumFunctionOnSet(executed, {tx \in Tx : tx.from = a}) = 0
      BY <3>1, SumZero
    <3> QED  BY <2>2, <3>2 DEF GetNonce, NewAccount
  <2>4. Conservation
    <3>1. IsFiniteSet(ToSelf) /\ \A t \in ToSelf : t \in Tx /\ t.amount \in Nat
      BY FiniteAssumption, FS_Subset, TxType DEF ToSelf
    <3>2. \A t \in ToSelf : Created(executed)[t] = 0
      BY <2>1, <3>1 DEF Created
    <3>3. SumFunctionOnSet(Created(executed), ToSelf) = 0
      BY <3>1, <3>2, SumZero
    <3>n. NewAccount.balance = 0 /\ NewAccount.staked = 0
      BY DEF NewAccount
    <3>4. ASSUME NEW a \in Address PROVE Held(ws)[a] = 0
      <4>1. Held(ws)[a] = GetAccount(ws, a).balance + GetAccount(ws, a).staked
        BY DEF Held
      <4>2. Held(ws)[a] = 0 + 0
        BY <2>2, <3>n, <4>1
      <4> QED  BY <4>2
    <3>5. SumFunctionOnSet(Held(ws), Address) = 0
      BY <3>4, FiniteAssumption, SumZero
    <3> QED  BY <2>1, <3>3, <3>5 DEF Conservation
  <2>5. ws.modifications = <<EmptyFrame>>
    BY <2>1 DEF EmptyWorldState
  <2> QED  BY <2>3, <2>4, <2>5 DEF LedgerInv
<1>2. TypeOK /\ LedgerInv /\ [Next]_vars => LedgerInv'
  BY LedgerStep
<1> QED  BY <1>1, <1>2, TypeCorrect, PTL DEF Spec

(***************************************************************************)
(* When the owner of the chain funds accounts between a checkpoint and a   *)
(* commit, every account's nonce is the number of its transactions that    *)
(* have been executed, through blocks accepted, rejected half way and      *)
(* rolled back, and transactions executed outside any block.               *)
(***************************************************************************)
THEOREM NoncesAlwaysCountExecutions ==
  ASSUME Funding \subseteq {"committed"}
  PROVE  Spec => []NonceCountsExecutions
<1>1. LedgerInv => NonceCountsExecutions
  BY DEF LedgerInv
<1> QED  BY <1>1, LedgerAlways, PTL

(***************************************************************************)
(* Under the same condition amounts are conserved: balances, stakes and    *)
(* the fees charged add up to what was funded and what transfers to their  *)
(* own sender created, however many accounts and transactions there are    *)
(* and wherever the u64 products of the fees wrap around.                  *)
(***************************************************************************)
THEOREM AmountsConserved ==
  ASSUME Funding \subseteq {"committed"}
  PROVE  Spec => []Conservation
<1>1. LedgerInv => Conservation
  BY DEF LedgerInv
<1> QED  BY <1>1, LedgerAlways, PTL
=============================================================================
