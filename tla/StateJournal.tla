---------------------------- MODULE StateJournal ----------------------------
(***************************************************************************)
(* A client of the world state's checkpoints: the undo journal of          *)
(* crates/blockchain-core/src/state.rs, used the way execute_transaction   *)
(* uses it (commit and rollback only with a checkpoint open), with up to   *)
(* MaxDepth checkpoints open at once.  `saved' is a history variable.      *)
(***************************************************************************)
EXTENDS WorldState

CONSTANTS
  Written,    \* the accounts the client writes
  MaxDepth    \* how many checkpoints the client keeps open at once

ASSUME WrittenAssumption == Written \subseteq Account

ASSUME MaxDepthAssumption == MaxDepth \in Nat \ {0}

VARIABLES
  world,   \* the WorldState
  saved    \* history: the accounts at every open checkpoint

journalVars == <<world, saved>>

JournalInit ==
  /\ world = EmptyWorldState
  /\ saved = <<>>

DoCheckpoint ==
  /\ Len(saved) < MaxDepth
  /\ world' = Checkpoint(world)
  /\ saved' = Append(saved, world.accounts)

DoSetAccount(a, account) ==
  /\ world' = SetAccount(world, a, account)
  /\ UNCHANGED saved

DoGetAccountMut(a) ==
  /\ world' = GetAccountMut(world, a)
  /\ UNCHANGED saved

DoCommit ==
  /\ saved # <<>>
  /\ world' = Commit(world)
  /\ saved' = SubSeq(saved, 1, Len(saved) - 1)

DoRollback ==
  /\ saved # <<>>
  /\ world' = Rollback(world)
  /\ saved' = SubSeq(saved, 1, Len(saved) - 1)

JournalNext ==
  \/ DoCheckpoint
  \/ \E a \in Address, account \in Written : DoSetAccount(a, account)
  \/ \E a \in Address : DoGetAccountMut(a)
  \/ DoCommit
  \/ DoRollback

JournalSpec == JournalInit /\ [][JournalNext]_journalVars
-----------------------------------------------------------------------------
(***************************************************************************)
(* The world state has its type, with a journal frame for every open       *)
(* checkpoint besides the first.                                           *)
(***************************************************************************)
JournalTypeOK ==
  /\ world \in WorldStates
  /\ saved \in Seq([Address -> AccountEntry])
  /\ Depth(world) = Len(saved) + 1
  /\ Len(saved) <= MaxDepth

(***************************************************************************)
(* The accounts as the journal would restore them if every checkpoint from *)
(* the i-th on were rolled back: the oldest record of the frames above it. *)
(***************************************************************************)
RecordingFrames(i, a) ==
  {j \in i + 1 .. Depth(world) : world.modifications[j][a] # NotRecorded}

RestoredTo(i) ==
  [a \in Address |->
     IF RecordingFrames(i, a) = {}
     THEN world.accounts[a]
     ELSE world.modifications[CHOOSE j \in RecordingFrames(i, a) :
                             \A k \in RecordingFrames(i, a) : j <= k][a]]

(***************************************************************************)
(* "This ensures rollback restores the pre-checkpoint account state"       *)
(* (record_account_modification): for every open checkpoint, rolling back  *)
(* to it gives exactly the accounts there were when it was taken, whatever *)
(* was written, created, committed and rolled back in between.             *)
(***************************************************************************)
JournalHoldsSnapshots == \A i \in 1 .. Len(saved) : RestoredTo(i) = saved[i]

(***************************************************************************)
(* The journal implements a transactional store.                           *)
(***************************************************************************)
Store ==
  INSTANCE TransactionalStore
    WITH Key <- Address, Entry <- AccountEntry, MaxOpen <- MaxDepth, store <- world.accounts

ImplementsStore == Store!Spec
=============================================================================
