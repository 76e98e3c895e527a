--------------------------- MODULE Network_proofs ---------------------------
(***************************************************************************)
(* Proofs about the network service: a transaction is forwarded to each    *)
(* peer at most once and never back to the peer it came from, for any      *)
(* number of peers and of concurrent handlers.                             *)
(***************************************************************************)
EXTENDS Network, TLAPS

----------------------------------------------------------------------------
(***************************************************************************)
(* The inductive invariant.  A task that is past the duplicate check       *)
(* carries its transaction until it is idle again.  It is the only one     *)
(* that does: the check marks the transaction, and no other task passes it *)
(* after that.  So nothing of the transaction is in an outbox before the   *)
(* task sends, and while it sends only the peers it is done with have it.  *)
(***************************************************************************)
Place ==
  {"idle", "dedup", "pool", "reward", "penalise", "propagate", "send",
   "sync", "read", "respond", "release"}

TaskRecord ==
  [pc : Place, peer : Peer \cup {None}, tx : Tx \cup {None},
   targets : SUBSET Peer]

Carries(r) ==
  r.tx # None /\ r.pc \in {"pool", "reward", "penalise", "propagate", "send"}

TaskOK(r, seen, from, out) ==
  /\ r \in TaskRecord
  /\ r.pc = "dedup" => r.tx \in Tx /\ r.peer \in Peer
  /\ Carries(r) =>
       /\ r.tx \in seen /\ from[r.tx] = r.peer
       /\ r.pc # "send" => \A p \in Peer : out[r.tx][p] = 0
       /\ r.pc = "send" => \A p \in r.targets : out[r.tx][p] = 0 /\ p # r.peer

Once(from, out) ==
  \A tx \in Tx, p \in Peer :
     out[tx][p] <= 1 /\ (from[tx] = p => out[tx][p] = 0)

Types ==
  /\ seen_tx \subseteq Tx
  /\ deliverer \in [Tx -> Peer \cup {None}]
  /\ outbox \in [Tx -> [Peer -> Nat]]
  /\ task \in [Task -> TaskRecord]

TasksOK == \A k \in Task : TaskOK(task[k], seen_tx, deliverer, outbox)

OneCarrier ==
  \A j, k \in Task :
     Carries(task[j]) /\ Carries(task[k]) /\ task[j].tx = task[k].tx => j = k

UnseenUnsent == \A tx \in Tx \ seen_tx, p \in Peer : outbox[tx][p] = 0

KnownPeers == Known \subseteq Peer

Inv ==
  /\ Types /\ TasksOK /\ OneCarrier /\ UnseenUnsent /\ KnownPeers
  /\ Once(deliverer, outbox)

LEMMA IdleTask == Idle \in TaskRecord /\ ~Carries(Idle) /\ Idle.pc # "dedup"
<1>1. Idle.pc = "idle" /\ Idle.tx = None
  BY DEF Idle
<1>2. Idle \in TaskRecord
  BY DEF Idle, TaskRecord, Place
<1> QED  BY <1>1, <1>2 DEF Carries

LEMMA InvInit == Init => Inv
<1> SUFFICES ASSUME Init PROVE Inv
  OBVIOUS
<1>1. /\ task = [k \in Task |-> Idle] /\ Idle \in TaskRecord
      /\ ~Carries(Idle) /\ Idle.pc # "dedup"
  BY IdleTask DEF Init
<1>2. /\ seen_tx = {} /\ deliverer = [tx \in Tx |-> None]
      /\ outbox = [tx \in Tx |-> [p \in Peer |-> 0]]
  BY DEF Init
<1>3. Types
  BY <1>1, <1>2 DEF Types
<1>4. TasksOK /\ OneCarrier
  BY <1>1 DEF TasksOK, TaskOK, OneCarrier
<1>5. UnseenUnsent /\ Once(deliverer, outbox)
  BY <1>2, NetworkAssumption DEF UnseenUnsent, Once
<1>6. KnownPeers
  BY DEF Init, KnownPeers, Known
<1> QED  BY <1>3, <1>4, <1>5, <1>6 DEF Inv

(***************************************************************************)
(* A step of one task that leaves the marks and the outboxes alone keeps   *)
(* the invariant if the task comes to carry nothing, or carries on what it *)
(* carried.                                                                *)
(***************************************************************************)
LEMMA QuietStep ==
  ASSUME Inv, NEW k \in Task, NEW r \in TaskRecord,
         task' = [task EXCEPT ![k] = r],
         UNCHANGED <<seen_tx, deliverer, outbox>>,
         KnownPeers',
         TaskOK(r, seen_tx, deliverer, outbox),
         Carries(r) => Carries(task[k]) /\ r.tx = task[k].tx
  PROVE  Inv'
<1>1. \A j \in Task : task'[j] = IF j = k THEN r ELSE task[j]
  BY DEF Inv, Types
<1>2. Types'
  BY DEF Inv, Types
<1>3. TasksOK'
  BY <1>1 DEF Inv, TasksOK
<1>4. OneCarrier'
  BY <1>1 DEF Inv, OneCarrier
<1>5. UnseenUnsent' /\ Once(deliverer, outbox)'
  BY DEF Inv, UnseenUnsent
<1> QED  BY <1>2, <1>3, <1>4, <1>5 DEF Inv

LEMMA TaskFields ==
  ASSUME Inv, NEW k \in Task
  PROVE  /\ task[k] \in TaskRecord
         /\ task[k].pc \in Place /\ task[k].peer \in Peer \cup {None}
         /\ task[k].tx \in Tx \cup {None} /\ task[k].targets \in SUBSET Peer
         /\ TaskOK(task[k], seen_tx, deliverer, outbox)
  BY DEF Inv, Types, TasksOK, TaskRecord

(***************************************************************************)
(* Replacing the targets of a task leaves its other fields.                *)
(***************************************************************************)
LEMMA TargetsReplaced ==
  ASSUME NEW t \in TaskRecord, NEW q
  PROVE  [t EXCEPT !.targets = @ \ {q}] =
           [pc |-> t.pc, peer |-> t.peer, tx |-> t.tx,
            targets |-> t.targets \ {q}]
  BY DEF TaskRecord

(***************************************************************************)
(* The step that finishes a task.                                          *)
(***************************************************************************)
LEMMA FinishInv ==
  ASSUME Inv, NEW k \in Task, Finish(k),
         UNCHANGED <<seen_tx, deliverer, outbox>>, KnownPeers'
  PROVE  Inv'
<1>1. Idle \in TaskRecord /\ ~Carries(Idle) /\ Idle.pc # "dedup"
  BY IdleTask
<1>2. TaskOK(Idle, seen_tx, deliverer, outbox)
  BY <1>1 DEF TaskOK
<1> QED  BY <1>1, <1>2, QuietStep DEF Finish

(***************************************************************************)
(* A step that only moves a task on, between places that carry both or     *)
(* neither of which carries, and not into the sending.                     *)
(***************************************************************************)
LEMMA GotoInv ==
  ASSUME Inv, NEW k \in Task, NEW pc \in Place, Goto(k, pc),
         UNCHANGED <<seen_tx, deliverer, outbox>>, KnownPeers',
         pc \notin {"dedup", "send"},
         \/ pc \notin {"pool", "reward", "penalise", "propagate"}
         \/ task[k].pc \in {"pool", "reward", "penalise", "propagate"}
  PROVE  Inv'
<1> DEFINE r == [pc |-> pc, peer |-> task[k].peer, tx |-> task[k].tx,
                 targets |-> task[k].targets]
<1>1. [task[k] EXCEPT !.pc = pc] = r
  BY TaskFields DEF TaskRecord
<1>2. r \in TaskRecord /\ r.pc = pc /\ r.tx = task[k].tx /\ r.peer = task[k].peer
  BY TaskFields DEF TaskRecord
<1>3. task' = [task EXCEPT ![k] = [task[k] EXCEPT !.pc = pc]]
  BY DEF Goto
<1>4. task' = [task EXCEPT ![k] = r]
  BY <1>1, <1>3
<1> HIDE DEF r
<1>5. Carries(r) => Carries(task[k]) /\ task[k].pc # "send"
  BY <1>2 DEF Carries
<1>6. TaskOK(r, seen_tx, deliverer, outbox)
  BY <1>2, <1>5, TaskFields DEF TaskOK
<1> QED  BY <1>2, <1>4, <1>5, <1>6, QuietStep

(***************************************************************************)
(* A message arrives, and carries nothing yet: a broadcast has no          *)
(* transaction, and a transaction is before the duplicate check.           *)
(***************************************************************************)
LEMMA StartInv ==
  ASSUME Inv, NEW k \in Task, NEW p \in Peer \cup {None},
         NEW tx \in Tx \cup {None}, NEW pc \in {"dedup", "sync", "propagate"},
         pc = "dedup" => tx \in Tx /\ p \in Peer,
         pc = "propagate" => tx = None,
         Start(k, pc, p, tx)
  PROVE  Inv'
<1> DEFINE r == [pc |-> pc, peer |-> p, tx |-> tx, targets |-> {}]
<1>1. r \in TaskRecord /\ r.pc = pc /\ r.tx = tx /\ r.peer = p
  BY DEF TaskRecord, Place
<1>2. /\ task' = [task EXCEPT ![k] = r]
      /\ UNCHANGED <<seen_tx, deliverer, outbox, peers>>
  BY DEF Start, svcVars
<1> HIDE DEF r
<1>3. ~Carries(r)
  BY <1>1 DEF Carries
<1>4. TaskOK(r, seen_tx, deliverer, outbox)
  BY <1>1, <1>3 DEF TaskOK
<1>5. KnownPeers'
  BY <1>2 DEF Inv, KnownPeers, Known
<1> QED  BY <1>1, <1>2, <1>3, <1>4, <1>5, QuietStep

(***************************************************************************)
(* The duplicate check.  A transaction that passes was not marked, so no   *)
(* task carries it and no outbox has it; it is marked from here on.        *)
(***************************************************************************)
LEMMA DedupInv ==
  ASSUME Inv, NEW k \in Task, Dedup(k)
  PROVE  Inv'
<1> DEFINE tx == task[k].tx
           from == task[k].peer
<1>1. tx \in Tx /\ from \in Peer /\ task[k].pc = "dedup"
  BY TaskFields DEF Dedup, At, TaskOK
<1>2. peers' = peers /\ outbox' = outbox /\ KnownPeers'
  BY DEF Dedup, Inv, KnownPeers, Known
<1>3. CASE ~(tx \notin seen_tx /\ ValidateBasic(tx))
  <2>1. Finish(k) /\ deliverer' = deliverer
    BY <1>3 DEF Dedup
  <2>2. seen_tx' = seen_tx
    BY <1>3 DEF Dedup, Marked
  <2> QED  BY <1>2, <2>1, <2>2, FinishInv
<1>4. CASE tx \notin seen_tx /\ ValidateBasic(tx)
  <2> DEFINE pc == IF Attached THEN "pool" ELSE "propagate"
             r == [pc |-> pc, peer |-> from, tx |-> tx,
                   targets |-> task[k].targets]
  <2>1. seen_tx' = seen_tx \cup {tx} /\ deliverer' = [deliverer EXCEPT ![tx] = from]
    BY <1>4 DEF Dedup, Marked
  <2>2. task' = [task EXCEPT ![k] = r]
    <3>1. task' = [task EXCEPT ![k] = [task[k] EXCEPT !.pc = pc]]
      BY <1>4 DEF Dedup, Goto
    <3>2. [task[k] EXCEPT !.pc = pc] = r
      BY TaskFields DEF TaskRecord
    <3> QED  BY <3>1, <3>2
  <2>3. /\ r \in TaskRecord /\ r.tx = tx /\ r.peer = from
        /\ r.pc \in {"pool", "propagate"}
    <3>1. pc \in Place /\ pc \in {"pool", "propagate"}
      BY DEF Place
    <3> HIDE DEF pc
    <3> QED  BY <3>1, TaskFields DEF TaskRecord
  <2> HIDE DEF pc, r, tx, from
  <2>4. \A p \in Peer : outbox[tx][p] = 0
    BY <1>1, <1>4 DEF Inv, UnseenUnsent
  <2>5. \A j \in Task : Carries(task[j]) => task[j].tx # tx /\ task[j].tx \in Tx
    BY <1>4, NetworkAssumption DEF Inv, TasksOK, TaskOK, Carries, Types, TaskRecord
  <2>6. \A j \in Task : task'[j] = IF j = k THEN r ELSE task[j]
    BY <2>2 DEF Inv, Types
  <2>7. \A x \in Tx : deliverer'[x] = IF x = tx THEN from ELSE deliverer[x]
    BY <2>1 DEF Inv, Types
  <2>8. Types'
    BY <1>1, <1>2, <2>1, <2>2, <2>3 DEF Inv, Types
  <2>9. TasksOK'
    <3> SUFFICES ASSUME NEW j \in Task
                 PROVE  TaskOK(task'[j], seen_tx', deliverer', outbox')
      BY DEF TasksOK
    <3>1. CASE j = k
      BY <1>1, <1>2, <2>1, <2>3, <2>4, <2>6, <2>7, <3>1 DEF TaskOK
    <3>2. CASE j # k
      BY <1>2, <2>1, <2>5, <2>6, <2>7, <3>2 DEF Inv, TasksOK, TaskOK
    <3> QED  BY <3>1, <3>2
  <2>10. OneCarrier'
    BY <2>3, <2>5, <2>6 DEF Inv, OneCarrier
  <2>11. UnseenUnsent'
    BY <1>2, <2>1 DEF Inv, UnseenUnsent
  <2>12. Once(deliverer', outbox')
    BY <1>2, <2>4, <2>7 DEF Inv, Once
  <2> QED  BY <1>2, <2>8, <2>9, <2>10, <2>11, <2>12 DEF Inv
<1> QED  BY <1>3, <1>4

(***************************************************************************)
(* The receivers are chosen among the peers other than the sender.         *)
(***************************************************************************)
LEMMA LockPeersInv ==
  ASSUME Inv, NEW k \in Task, LockPeers(k)
  PROVE  Inv'
<1>1. /\ task[k].pc = "propagate"
      /\ UNCHANGED <<seen_tx, deliverer, outbox, peers>>
  BY DEF LockPeers, At, svcVars
<1>2. KnownPeers'
  BY <1>1 DEF Inv, KnownPeers, Known
<1>3. CASE Finish(k)
  BY <1>1, <1>2, <1>3, FinishInv
<1>4. CASE \E targets \in Receivers(task[k].peer) :
             task' = [task EXCEPT ![k].pc = "send", ![k].targets = targets]
  <2>1. PICK targets \in Receivers(task[k].peer) :
          task' = [task EXCEPT ![k].pc = "send", ![k].targets = targets]
    BY <1>4
  <2>2. targets \subseteq Peer /\ task[k].peer \notin targets
    BY DEF Receivers, kSubset, ConnectedPeers, Inv, KnownPeers
  <2> DEFINE r == [pc |-> "send", peer |-> task[k].peer, tx |-> task[k].tx,
                   targets |-> targets]
             m == [pc |-> "send", peer |-> task[k].peer, tx |-> task[k].tx,
                   targets |-> task[k].targets]
  <2>3. task' = [task EXCEPT ![k] = r]
    <3>1. [task[k] EXCEPT !.pc = "send"] = m
      BY TaskFields DEF TaskRecord
    <3>2. [m EXCEPT !.targets = targets] = r
      OBVIOUS
    <3>3. task' = [[task EXCEPT ![k] = [task[k] EXCEPT !.pc = "send"]] EXCEPT
                     ![k] = [[task EXCEPT ![k] = [task[k] EXCEPT !.pc = "send"]][k]
                               EXCEPT !.targets = targets]]
      BY <2>1
    <3>4. task' = [[task EXCEPT ![k] = m] EXCEPT
                     ![k] = [[task EXCEPT ![k] = m][k] EXCEPT !.targets = targets]]
      BY <3>1, <3>3
    <3>5. [task EXCEPT ![k] = m][k] = m
      BY DEF Inv, Types
    <3>6. task' = [[task EXCEPT ![k] = m] EXCEPT ![k] = r]
      BY <3>2, <3>4, <3>5
    <3> HIDE DEF m, r
    <3> QED  BY <3>6 DEF Inv, Types
  <2>4. /\ r \in TaskRecord /\ r.pc = "send" /\ r.tx = task[k].tx
        /\ r.peer = task[k].peer /\ r.targets = targets
    BY <2>2, TaskFields DEF TaskRecord, Place
  <2> HIDE DEF r
  <2>5. Carries(r) => Carries(task[k])
    BY <1>1, <2>4 DEF Carries
  <2>6. TaskOK(r, seen_tx, deliverer, outbox)
    BY <1>1, <2>2, <2>4, <2>5, TaskFields DEF TaskOK
  <2> QED  BY <1>1, <1>2, <2>3, <2>4, <2>5, <2>6, QuietStep
<1> QED  BY <1>3, <1>4 DEF LockPeers

(***************************************************************************)
(* One message is put into an outbox: no other task carries the            *)
(* transaction, and the peer is no longer among this one's targets.        *)
(***************************************************************************)
LEMMA SendInv ==
  ASSUME Inv, NEW k \in Task, Send(k)
  PROVE  Inv'
<1> DEFINE tx == task[k].tx
<1>1. PICK p \in task[k].targets :
        /\ outbox' = IF tx = None THEN outbox
                     ELSE [outbox EXCEPT ![tx][p] = @ + 1]
        /\ task' = [task EXCEPT ![k].targets = @ \ {p}]
  BY DEF Send
<1>2. /\ task[k].pc = "send" /\ p \in Peer
      /\ UNCHANGED <<seen_tx, deliverer, peers>>
  BY TaskFields DEF Send, At, svcVars
<1>3. KnownPeers'
  BY <1>2 DEF Inv, KnownPeers, Known
<1> DEFINE r == [pc |-> "send", peer |-> task[k].peer, tx |-> tx,
                 targets |-> task[k].targets \ {p}]
<1>4. task' = [task EXCEPT ![k] = r]
  <2>1. [task[k] EXCEPT !.targets = @ \ {p}] = r
    BY <1>2, TaskFields DEF TaskRecord
  <2>2. task' = [task EXCEPT ![k] = [task[k] EXCEPT !.targets = @ \ {p}]]
    BY <1>1
  <2> QED  BY <2>1, <2>2
<1>5. /\ r \in TaskRecord /\ r.pc = "send" /\ r.tx = tx
      /\ r.peer = task[k].peer /\ r.targets = task[k].targets \ {p}
  BY TaskFields DEF TaskRecord, Place
<1> HIDE DEF r
<1>6. Carries(r) => Carries(task[k])
  BY <1>2, <1>5 DEF Carries
<1>7. CASE tx = None
  <2>1. TaskOK(r, seen_tx, deliverer, outbox)
    BY <1>5, <1>7 DEF TaskOK, Carries
  <2>2. outbox' = outbox
    BY <1>1, <1>7
  <2> QED  BY <1>2, <1>3, <1>4, <1>5, <1>6, <2>1, <2>2, QuietStep
<1>8. CASE tx # None
  <2>1. /\ tx \in Tx /\ tx \in seen_tx /\ deliverer[tx] = task[k].peer
        /\ \A q \in task[k].targets : outbox[tx][q] = 0 /\ q # task[k].peer
        /\ Carries(task[k])
    BY <1>2, <1>8, TaskFields DEF TaskOK, Carries
  <2>2. outbox' = [outbox EXCEPT ![tx] = [outbox[tx] EXCEPT ![p] = outbox[tx][p] + 1]]
    BY <1>1, <1>8
  <2> HIDE DEF tx
  <2>3. \A x \in Tx, q \in Peer :
          outbox'[x][q] = IF x = tx /\ q = p THEN 1 ELSE outbox[x][q]
    BY <1>2, <2>1, <2>2 DEF Inv, Types
  <2>4. outbox' \in [Tx -> [Peer -> Nat]]
    BY <1>2, <2>1, <2>2 DEF Inv, Types
  <2>5. \A j \in Task : task'[j] = IF j = k THEN r ELSE task[j]
    BY <1>4 DEF Inv, Types
  <2>6. Types'
    BY <1>2, <1>4, <1>5, <2>4 DEF Inv, Types
  <2>7. TasksOK'
    <3> SUFFICES ASSUME NEW j \in Task
                 PROVE  TaskOK(task'[j], seen_tx', deliverer', outbox')
      BY DEF TasksOK
    <3>1. CASE j = k
      <4>1. \A q \in r.targets : q \in Peer /\ q # p
        BY <1>5, TaskFields
      <4>2. \A q \in r.targets : outbox'[tx][q] = 0 /\ q # r.peer
        BY <1>5, <2>1, <2>3, <4>1
      <4> QED  BY <1>2, <1>5, <2>1, <2>5, <3>1, <4>2 DEF TaskOK
    <3>2. CASE j # k
      <4>1. Carries(task[j]) => task[j].tx # tx /\ task[j].tx \in Tx
        BY <2>1, <3>2, TaskFields DEF Inv, OneCarrier, Carries, tx
      <4>2. \A q \in task[j].targets : q \in Peer
        BY TaskFields
      <4>3. task'[j] = task[j]
        BY <2>5, <3>2
      <4>4. TaskOK(task[j], seen_tx, deliverer, outbox)
        BY TaskFields
      <4> QED  BY <1>2, <2>3, <4>1, <4>2, <4>3, <4>4 DEF TaskOK
    <3> QED  BY <3>1, <3>2
  <2>8. OneCarrier'
    BY <1>5, <1>6, <2>5 DEF Inv, OneCarrier, tx
  <2>9. UnseenUnsent'
    BY <1>2, <2>1, <2>3 DEF Inv, UnseenUnsent
  <2>10. Once(deliverer', outbox')
    BY <1>2, <2>1, <2>3 DEF Inv, Once
  <2> QED  BY <1>3, <2>6, <2>7, <2>8, <2>9, <2>10 DEF Inv
<1> QED  BY <1>7, <1>8

(***************************************************************************)
(* The peer manager knows no peer but those there are.                     *)
(***************************************************************************)
LEMMA ManagePeersInv ==
  ASSUME Inv, ManagePeers
  PROVE  Inv'
<1>1. UNCHANGED <<seen_tx, deliverer, outbox, task>>
  BY DEF ManagePeers, svcVars
<1>2. Known \subseteq Peer
  BY DEF Inv, KnownPeers
<1>3. ASSUME NEW p \in Peer, NEW outbound \in BOOLEAN, AddPeer(p, outbound)
      PROVE  KnownPeers'
  BY <1>2, <1>3 DEF AddPeer, KnownPeers, Known
<1>4. ASSUME NEW p \in Peer, RemovePeer(p)
      PROVE  KnownPeers'
  BY <1>2, <1>4 DEF RemovePeer, KnownPeers, Known
<1>5. ASSUME NEW p \in Peer, NEW s \in Status, UpdateStatus(p, s)
      PROVE  KnownPeers'
  <2>1. DOMAIN peers' = DOMAIN peers
    BY <1>5, Zenon DEF UpdateStatus
  <2> QED  BY <1>2, <2>1 DEF KnownPeers, Known
<1>6. ASSUME NEW recent \in SUBSET Known, PrunePeers(recent)
      PROVE  KnownPeers'
  <2>1. DOMAIN peers' \subseteq Known
    BY <1>6 DEF PrunePeers
  <2> QED  BY <1>2, <2>1 DEF KnownPeers, Known
<1>7. "Banned" \in Status
  BY DEF Status
<1>8. KnownPeers'
  BY <1>3, <1>4, <1>5, <1>6, <1>7 DEF ManagePeers, BanPeer
<1>9. Types' /\ TasksOK' /\ OneCarrier' /\ UnseenUnsent' /\ Once(deliverer', outbox')
  BY <1>1 DEF Inv, Types, TasksOK, OneCarrier, UnseenUnsent
<1> QED  BY <1>8, <1>9 DEF Inv

(***************************************************************************)
(* The other steps of a handler touch neither marks nor outboxes.          *)
(***************************************************************************)
LEMMA HandleInv ==
  ASSUME Inv, NEW k \in Task, Handle(k)
  PROVE  Inv'
<1>1. CASE Dedup(k)
  BY <1>1, DedupInv
<1>2. CASE AddToPool(k)
  <2>1. /\ task[k].pc = "pool"
        /\ UNCHANGED <<seen_tx, deliverer, outbox, peers>>
        /\ Goto(k, "reward") \/ Goto(k, "penalise")
    BY <1>2 DEF AddToPool, At
  <2>2. KnownPeers'
    BY <2>1 DEF Inv, KnownPeers, Known
  <2> QED  BY <2>1, <2>2, GotoInv DEF Place
<1>3. CASE RatePeer(k)
  <2>1. /\ task[k].pc \in {"reward", "penalise"}
        /\ UNCHANGED <<seen_tx, deliverer, outbox>>
        /\ Goto(k, "propagate")
    BY <1>3 DEF RatePeer, At
  <2>2. DOMAIN peers' = DOMAIN peers
    BY <1>3 DEF RatePeer
  <2>3. KnownPeers'
    BY <2>2 DEF Inv, KnownPeers, Known
  <2> QED  BY <2>1, <2>3, GotoInv DEF Place
<1>4. CASE LockPeers(k)
  BY <1>4, LockPeersInv
<1>5. CASE Send(k)
  BY <1>5, SendInv
<1>6. CASE Sent(k) \/ BeginSync(k) \/ ReadPool(k) \/ Respond(k) \/ EndSync(k)
  <2>1. /\ UNCHANGED <<seen_tx, deliverer, outbox, peers>>
        /\ \/ Finish(k) \/ Goto(k, "read") \/ Goto(k, "respond")
           \/ Goto(k, "release")
    BY <1>6 DEF Sent, BeginSync, ReadPool, Respond, EndSync, svcVars
  <2>2. KnownPeers'
    BY <2>1 DEF Inv, KnownPeers, Known
  <2> QED  BY <2>1, <2>2, FinishInv, GotoInv DEF Place
<1> QED  BY <1>1, <1>2, <1>3, <1>4, <1>5, <1>6 DEF Handle

LEMMA InvNext == Inv /\ [Next]_vars => Inv'
<1> SUFFICES ASSUME Inv, [Next]_vars PROVE Inv'
  OBVIOUS
<1>1. CASE ManagePeers
  BY <1>1, ManagePeersInv
<1>2. ASSUME NEW k \in Task, NEW p \in Peer, NEW tx \in Tx,
             ReceiveTransaction(k, p, tx)
      PROVE  Inv'
  BY <1>2, StartInv DEF ReceiveTransaction
<1>3. ASSUME NEW k \in Task, NEW p \in Peer, ReceiveSyncRequest(k, p)
      PROVE  Inv'
  BY <1>3, StartInv DEF ReceiveSyncRequest
<1>4. ASSUME NEW k \in Task, NEW p \in Peer \cup {None}, StartBroadcast(k, p)
      PROVE  Inv'
  BY <1>4, StartInv DEF StartBroadcast
<1>5. CASE UNCHANGED vars
  BY <1>5 DEF Inv, Types, TasksOK, OneCarrier, UnseenUnsent, KnownPeers, Known,
              vars, svcVars
<1> QED  BY <1>1, <1>2, <1>3, <1>4, <1>5, HandleInv DEF Next

(***************************************************************************)
(* Whatever peers deliver a transaction, whichever handlers run at once    *)
(* and whatever happens to the peers meanwhile, the service puts it into   *)
(* each peer's outbox at most once, and never into that of the peer whose  *)
(* copy passed the duplicate check.                                        *)
(***************************************************************************)
THEOREM NetworkForwardedOnce == Spec => []ForwardedOnce
<1>1. Inv => ForwardedOnce
  BY DEF Inv, Once, ForwardedOnce
<1> QED  BY <1>1, InvInit, InvNext, PTL DEF Spec

----------------------------------------------------------------------------
(***************************************************************************)
(* A task that is sending holds the peer manager's guard, so that nobody   *)
(* has changed the peers since it chose its receivers.                     *)
(***************************************************************************)
SendersHoldGuard ==
  \A k \in Task : task[k].pc = "send" =>
     peers_lock = k /\ task[k].targets \subseteq ConnectedPeers

(***************************************************************************)
(* A step of another task, or of the owner, that changes the peers or      *)
(* takes the guard finds the guard free, and so nobody sending.            *)
(***************************************************************************)
LEMMA GuardStep ==
  ASSUME Inv, SendersHoldGuard, NEW k \in Task, NEW r,
         task' = [task EXCEPT ![k] = r],
         \/ peers' = peers /\ peers_lock' = peers_lock
         \/ peers_lock = None,
         r.pc # "send"
  PROVE  SendersHoldGuard'
<1>1. \A j \in Task : task'[j] = IF j = k THEN r ELSE task[j]
  BY DEF Inv, Types
<1>2. \A j \in Task : j # None
  BY NetworkAssumption
<1> QED  BY <1>1, <1>2 DEF SendersHoldGuard, ConnectedPeers, Known

LEMMA GuardNext == Inv /\ SendersHoldGuard /\ [Next]_vars => SendersHoldGuard'
<1> SUFFICES ASSUME Inv, SendersHoldGuard, [Next]_vars PROVE SendersHoldGuard'
  OBVIOUS
<1>1. \A k \in Task : k # None
  BY NetworkAssumption
<1>2. CASE ManagePeers
  BY <1>1, <1>2 DEF ManagePeers, SendersHoldGuard
<1>3. CASE UNCHANGED vars
  BY <1>3 DEF vars, SendersHoldGuard, ConnectedPeers, Known
<1>4. ASSUME NEW k \in Task, NEW pc \in {"dedup", "sync", "propagate"},
             NEW p, NEW tx, Start(k, pc, p, tx)
      PROVE  SendersHoldGuard'
  <2> DEFINE r == [pc |-> pc, peer |-> p, tx |-> tx, targets |-> {}]
  <2>1. r.pc # "send"
    OBVIOUS
  <2>2. task' = [task EXCEPT ![k] = r] /\ peers' = peers /\ peers_lock' = peers_lock
    BY <1>4 DEF Start
  <2> HIDE DEF r
  <2> QED  BY <2>1, <2>2, GuardStep
<1>5. ASSUME NEW k \in Task, Finish(k),
             \/ peers' = peers /\ peers_lock' = peers_lock
             \/ peers_lock = None
      PROVE  SendersHoldGuard'
  <2>1. Idle.pc # "send"
    BY DEF Idle
  <2> QED  BY <1>5, <2>1, GuardStep DEF Finish
<1>6. ASSUME NEW k \in Task, NEW pc \in Place \ {"send"}, Goto(k, pc),
             \/ peers' = peers /\ peers_lock' = peers_lock
             \/ peers_lock = None
      PROVE  SendersHoldGuard'
  <2> DEFINE r == [pc |-> pc, peer |-> task[k].peer, tx |-> task[k].tx,
                   targets |-> task[k].targets]
  <2>1. [task[k] EXCEPT !.pc = pc] = r
    BY TaskFields DEF TaskRecord
  <2>2. task' = [task EXCEPT ![k] = [task[k] EXCEPT !.pc = pc]]
    BY <1>6 DEF Goto
  <2>3. task' = [task EXCEPT ![k] = r] /\ r.pc # "send"
    BY <2>1, <2>2
  <2> HIDE DEF r
  <2> QED  BY <1>6, <2>3, GuardStep
<1>7. ASSUME NEW k \in Task, LockPeers(k)
      PROVE  SendersHoldGuard'
  <2>1. peers_lock = None /\ peers' = peers
    BY <1>7 DEF LockPeers
  <2>2. CASE Finish(k)
    BY <1>5, <2>1, <2>2
  <2>3. CASE /\ peers_lock' = k
             /\ \E targets \in Receivers(task[k].peer) :
                   task' = [task EXCEPT ![k].pc = "send", ![k].targets = targets]
    <3>1. PICK targets \in Receivers(task[k].peer) :
            task' = [task EXCEPT ![k].pc = "send", ![k].targets = targets]
      BY <2>3
    <3>2. targets \subseteq ConnectedPeers
      BY DEF Receivers, kSubset
    <3>3. \A j \in Task : task[j].pc # "send"
      BY <1>1, <2>1 DEF SendersHoldGuard
    <3>4. \A j \in Task : j # k => task'[j] = task[j]
      BY <3>1, Zenon DEF Inv, Types
    <3>5. task'[k].targets = targets
      <4> DEFINE m == [pc |-> "send", peer |-> task[k].peer, tx |-> task[k].tx,
                       targets |-> task[k].targets]
      <4>1. [task[k] EXCEPT !.pc = "send"] = m
        BY TaskFields DEF TaskRecord
      <4>2. task' = [[task EXCEPT ![k] = [task[k] EXCEPT !.pc = "send"]] EXCEPT
                      ![k] = [[task EXCEPT ![k] = [task[k] EXCEPT !.pc = "send"]][k]
                                EXCEPT !.targets = targets]]
        BY <3>1
      <4>3. task' = [[task EXCEPT ![k] = m] EXCEPT
                      ![k] = [[task EXCEPT ![k] = m][k] EXCEPT !.targets = targets]]
        BY <4>1, <4>2
      <4>4. [task EXCEPT ![k] = m][k] = m
        BY DEF Inv, Types
      <4>5. task' = [[task EXCEPT ![k] = m] EXCEPT
                      ![k] = [m EXCEPT !.targets = targets]]
        BY <4>3, <4>4
      <4>6. [m EXCEPT !.targets = targets].targets = targets
        OBVIOUS
      <4> DEFINE n == [m EXCEPT !.targets = targets]
      <4> HIDE DEF m, n
      <4>7. task'[k] = n
        BY <4>5 DEF Inv, Types, n
      <4> QED  BY <4>6, <4>7 DEF n
    <3> QED  BY <2>1, <2>3, <3>2, <3>3, <3>4, <3>5
         DEF SendersHoldGuard, ConnectedPeers, Known
  <2> QED  BY <1>7, <2>2, <2>3 DEF LockPeers, GuardHeld
<1>8. ASSUME NEW k \in Task, Send(k)
      PROVE  SendersHoldGuard'
  <2>1. PICK p \in task[k].targets : task' = [task EXCEPT ![k].targets = @ \ {p}]
    BY <1>8 DEF Send
  <2>2. peers' = peers /\ peers_lock' = peers_lock /\ task[k].pc = "send"
    BY <1>8 DEF Send, At
  <2>3. \A j \in Task : j # k => task'[j] = task[j]
    BY <2>1, Zenon DEF Inv, Types
  <2> DEFINE r == [pc |-> task[k].pc, peer |-> task[k].peer, tx |-> task[k].tx,
                   targets |-> task[k].targets \ {p}]
  <2>4. [task[k] EXCEPT !.targets = @ \ {p}] = r
    BY TaskFields, TargetsReplaced
  <2>5. task' = [task EXCEPT ![k] = [task[k] EXCEPT !.targets = @ \ {p}]]
    BY <2>1
  <2>6. task' = [task EXCEPT ![k] = r] /\ r.targets = task[k].targets \ {p}
    BY <2>4, <2>5
  <2> HIDE DEF r
  <2>7. task'[k].targets = task[k].targets \ {p}
    BY <2>6 DEF Inv, Types
  <2> QED  BY <2>2, <2>3, <2>7 DEF SendersHoldGuard, ConnectedPeers, Known
<1>9. ASSUME NEW k \in Task, Sent(k)
      PROVE  SendersHoldGuard'
  <2>1. peers_lock = k /\ peers' = peers
    BY <1>9 DEF Sent, At, SendersHoldGuard
  <2>2. \A j \in Task \ {k} : task[j].pc # "send"
    BY <2>1 DEF SendersHoldGuard
  <2>3. \A j \in Task : task'[j] = IF j = k THEN Idle ELSE task[j]
    BY <1>9 DEF Sent, Finish, Inv, Types
  <2>4. Idle.pc # "send"
    BY DEF Idle
  <2> QED  BY <2>2, <2>3, <2>4 DEF SendersHoldGuard
<1>10. ASSUME NEW k \in Task, Dedup(k) \/ AddToPool(k)
       PROVE  SendersHoldGuard'
  <2>1. /\ peers' = peers /\ peers_lock' = peers_lock
        /\ \/ Finish(k)
           \/ \E pc \in {"pool", "propagate", "reward", "penalise"} : Goto(k, pc)
    BY <1>10 DEF Dedup, AddToPool
  <2> QED  BY <1>5, <1>6, <2>1 DEF Place
<1>11. ASSUME NEW k \in Task, RatePeer(k)
       PROVE  SendersHoldGuard'
  <2>1. peers_lock = None /\ Goto(k, "propagate")
    BY <1>11 DEF RatePeer
  <2> QED  BY <1>6, <2>1 DEF Place
<1>12. ASSUME NEW k \in Task, BeginSync(k) \/ ReadPool(k) \/ Respond(k) \/ EndSync(k)
       PROVE  SendersHoldGuard'
  <2>1. /\ peers' = peers /\ peers_lock' = peers_lock
        /\ \/ Finish(k)
           \/ \E pc \in {"read", "respond", "release"} : Goto(k, pc)
    BY <1>12 DEF BeginSync, ReadPool, Respond, EndSync
  <2> QED  BY <1>5, <1>6, <2>1 DEF Place
<1> QED  BY <1>2, <1>3, <1>4, <1>7, <1>8, <1>9, <1>10, <1>11, <1>12
     DEF Next, Handle, ReceiveTransaction, ReceiveSyncRequest, StartBroadcast

(***************************************************************************)
(* At the moment a transaction is put into a peer's outbox the peer is     *)
(* still connected, for any number of handlers, receivers and calls of the *)
(* peer manager: the guard that propagation keeps while it awaits the      *)
(* outbox is what makes it so.                                             *)
(***************************************************************************)
THEOREM NetworkSentToConnected == Spec => SentToConnected
<1> DEFINE A == \A tx \in Tx, p \in Peer :
                  outbox'[tx][p] > outbox[tx][p] => p \in ConnectedPeers
<1>1. Init => SendersHoldGuard
  BY DEF Init, SendersHoldGuard, Idle
<1>2. Inv /\ SendersHoldGuard /\ [Next]_vars => [A]_vars
  <2> SUFFICES ASSUME Inv, SendersHoldGuard, Next,
                      NEW tx \in Tx, NEW p \in Peer, outbox'[tx][p] > outbox[tx][p]
               PROVE  p \in ConnectedPeers
    OBVIOUS
  <2>1. outbox[tx][p] \in Nat
    BY DEF Inv, Types
  <2>2. outbox' # outbox
    BY <2>1
  <2>3. PICK k \in Task : Send(k)
    BY <2>2 DEF Next, Handle, ManagePeers, ReceiveTransaction, ReceiveSyncRequest,
       StartBroadcast, Start, Dedup, AddToPool, RatePeer, LockPeers, Sent,
       BeginSync, ReadPool, Respond, EndSync
  <2>4. PICK q \in task[k].targets :
          outbox' = IF task[k].tx = None THEN outbox
                    ELSE [outbox EXCEPT ![task[k].tx][q] = @ + 1]
    BY <2>3 DEF Send
  <2>5. outbox' = [outbox EXCEPT ![task[k].tx] =
                     [outbox[task[k].tx] EXCEPT ![q] = outbox[task[k].tx][q] + 1]]
    BY <2>2, <2>4
  <2>6. q = p
    BY <2>1, <2>5 DEF Inv, Types
  <2>7. task[k].targets \subseteq ConnectedPeers
    BY <2>3 DEF Send, At, SendersHoldGuard
  <2> QED  BY <2>6, <2>7
<1> HIDE DEF A
<1>3. Spec => [][A]_vars
  BY <1>1, <1>2, InvInit, InvNext, GuardNext, PTL DEF Spec
<1> QED  BY <1>3 DEF SentToConnected, A

=============================================================================
