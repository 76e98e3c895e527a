------------------------ MODULE TransactionalStore ------------------------
(***************************************************************************)
(* What the checkpoint / commit / rollback interface of the world state    *)
(* promises: nested transactions over a store, where rollback restores     *)
(* the store as it was when the innermost open transaction began.          *)
(***************************************************************************)
EXTENDS Naturals, Sequences

CONSTANTS Key, Entry, MaxOpen

VARIABLES
  store,   \* what every key maps to
  saved    \* the store at the beginning of every open transaction

vars == <<store, saved>>

Innermost == saved[Len(saved)]

Closed == SubSeq(saved, 1, Len(saved) - 1)

Init == store \in [Key -> Entry] /\ saved = <<>>

Begin ==
  /\ Len(saved) < MaxOpen
  /\ saved' = Append(saved, store)
  /\ UNCHANGED store

Write ==
  /\ store' \in [Key -> Entry]
  /\ \E k \in Key : \A j \in Key \ {k} : store'[j] = store[j]
  /\ UNCHANGED saved

Commit ==
  /\ saved # <<>>
  /\ saved' = Closed
  /\ UNCHANGED store

Rollback ==
  /\ saved # <<>>
  /\ store' = Innermost
  /\ saved' = Closed

Next == Begin \/ Write \/ Commit \/ Rollback

Spec == Init /\ [][Next]_vars
=============================================================================
