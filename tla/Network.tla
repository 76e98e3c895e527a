------------------------------- MODULE Network -------------------------------
(***************************************************************************)
(* The network service (crates/networking/src/p2p.rs) and its peer manager *)
(* (peer.rs).                                                              *)
(*                                                                         *)
(* Messages are handled by concurrent tasks.  The state they share sits    *)
(* behind tokio mutexes, and a task runs without interruption up to the    *)
(* next `.await': a guard that is dropped before the task awaits again is  *)
(* one step, and only the two guards that a task keeps while it awaits     *)
(* another one are variables, the pool's (kept for the peer manager's) and *)
(* the peer manager's (kept for the outbox's).  Of the outbox the model    *)
(* keeps what was ever put into it: draining it concerns no handler.  The  *)
(* owner of the peer manager is the environment.                           *)
(***************************************************************************)
EXTENDS Transaction, Sequences, FiniteSetsExt

CONSTANTS
  Tx, MaxSize, MaxPerAccount, MinGasPrice, MaxAge, MaxAdded,  \* see Mempool
  Peer,             \* the peers there are
  Task,             \* the tasks that handle messages
  MaxPeers,         \* PeerManager.max_peers
  MaxInbound,       \* PeerManager.max_inbound
  MaxOutbound,      \* PeerManager.max_outbound
  MaxPropagate,     \* NetworkConfig.max_tx_propagate_peers
  EnableTxGossip,   \* NetworkConfig.enable_tx_gossip
  Attached,         \* has set_mempool been called?
  MaxReputation,    \* 1000 in increase_reputation
  BanBelow,         \* 100 in decrease_reputation: banned below -BanBelow
  GoodReputation,   \* 50 in prune_peers
  Penalty,          \* 5 in handle_new_pending_transaction
  MaxMessages,      \* bound on the messages that arrive
  None              \* Option::None

ASSUME NetworkAssumption ==
  /\ MaxPeers \in Nat /\ MaxInbound \in Nat /\ MaxOutbound \in Nat
  /\ MaxPropagate \in Nat /\ MaxReputation \in Nat /\ BanBelow \in Nat
  /\ GoodReputation \in Nat /\ Penalty \in Nat /\ MaxMessages \in Nat
  /\ EnableTxGossip \in BOOLEAN /\ Attached \in BOOLEAN
  /\ None \notin Peer /\ None \notin Tx /\ None \notin Task

VARIABLES
  peers,       \* PeerManager.peers: a partial function from Peer
  seen_tx,     \* the transactions that passed the duplicate check
  pool, age,   \* the attached TransactionPool (see Mempool)
  inflight,    \* the peers whose mempool sync is being answered
  task,        \* what each task is doing
  pool_lock,   \* the task that keeps the pool's guard while it awaits
  peers_lock,  \* the task that keeps the peer manager's guard while it awaits
  received,    \* how many messages have arrived
  deliverer,   \* the peer whose copy of a transaction passed the check
  outbox       \* how often each transaction was put into a peer's outbox

svcVars == <<seen_tx, pool, age, inflight, pool_lock, deliverer>>

vars == <<peers, svcVars, task, peers_lock, received, outbox>>

P == INSTANCE Mempool

Status == {"Connecting", "Connected", "Disconnected", "Banned"}

-------------------------------------------------------------------------------
(***************************************************************************)
(* The peer manager.                                                       *)
(***************************************************************************)
NewPeerInfo(outbound) ==
  [status |-> "Connecting", reputation |-> 0, outbound |-> outbound]

Known == DOMAIN peers

ConnectedPeers == {p \in Known : peers[p].status = "Connected"}

ConnectionCount(outbound) ==
  Cardinality({p \in ConnectedPeers : peers[p].outbound = outbound})

IncreaseReputation(info, amount) ==
  [info EXCEPT !.reputation = Min({@ + amount, MaxReputation})]

DecreaseReputation(info, amount) ==
  LET r == info.reputation - amount
  IN  [info EXCEPT !.reputation = r,
                   !.status = IF r < -BanBelow THEN "Banned" ELSE @]

(***************************************************************************)
(* The owner's calls, each under the peer manager's lock.  add_peer counts *)
(* only connected peers against the two connection limits, and replaces    *)
(* the entry of a peer it knows.                                           *)
(***************************************************************************)
AddPeer(p, outbound) ==
  /\ Cardinality(Known) < MaxPeers
  /\ ConnectionCount(outbound) < (IF outbound THEN MaxOutbound ELSE MaxInbound)
  /\ peers' = [q \in Known \cup {p} |-> IF q = p THEN NewPeerInfo(outbound) ELSE peers[q]]

RemovePeer(p) ==
  /\ p \in Known
  /\ peers' = [q \in Known \ {p} |-> peers[q]]

UpdateStatus(p, status) ==
  /\ p \in Known
  /\ peers' = [peers EXCEPT ![p].status = status]

BanPeer(p) == UpdateStatus(p, "Banned")

(***************************************************************************)
(* prune_peers; which of the peers were seen recently is left open.        *)
(***************************************************************************)
PrunePeers(recent) ==
  peers' = [q \in {q \in Known : \/ q \in ConnectedPeers
                                 \/ q \in recent
                                 \/ peers[q].reputation > GoodReputation} |-> peers[q]]

ManagePeers ==
  /\ peers_lock = None
  /\ \/ \E p \in Peer, outbound \in BOOLEAN : AddPeer(p, outbound)
     \/ \E p \in Peer : RemovePeer(p)
     \/ \E p \in Peer, s \in Status \ {"Banned"} : UpdateStatus(p, s)
     \/ \E p \in Peer : BanPeer(p)
     \/ \E recent \in SUBSET Known : PrunePeers(recent)
  /\ UNCHANGED <<svcVars, task, peers_lock, received, outbox>>

-------------------------------------------------------------------------------
(***************************************************************************)
(* What a task does: where it is, the sender of its message, the message's *)
(* transaction, and the peers it still has to send to.                     *)
(***************************************************************************)
Idle == [pc |-> "idle", peer |-> None, tx |-> None, targets |-> {}]

At(k, pc) == task[k].pc = pc

Goto(k, pc) == task' = [task EXCEPT ![k].pc = pc]

Finish(k) == task' = [task EXCEPT ![k] = Idle]

Init ==
  /\ peers = [p \in {} |-> Idle]
  /\ seen_tx = {}
  /\ pool = P!EmptyPool
  /\ age = [tx \in Tx |-> 0]
  /\ inflight = {}
  /\ task = [k \in Task |-> Idle]
  /\ pool_lock = None
  /\ peers_lock = None
  /\ received = 0
  /\ deliverer = [tx \in Tx |-> None]
  /\ outbox = [tx \in Tx |-> [p \in Peer |-> 0]]

(***************************************************************************)
(* handle_incoming_message starts one of the handlers.  Nothing asks       *)
(* whether the sender is a known or a connected peer.  A broadcast is      *)
(* started by the owner.                                                   *)
(***************************************************************************)
Start(k, pc, p, tx) ==
  /\ At(k, "idle")
  /\ received < MaxMessages
  /\ received' = received + 1
  /\ task' = [task EXCEPT ![k] = [pc |-> pc, peer |-> p, tx |-> tx, targets |-> {}]]
  /\ UNCHANGED <<peers, svcVars, peers_lock, outbox>>

ReceiveTransaction(k, p, tx) == Start(k, "dedup", p, tx)
ReceiveSyncRequest(k, p)     == Start(k, "sync", p, None)
StartBroadcast(k, p)         == Start(k, "propagate", p, None)

(***************************************************************************)
(* handle_new_pending_transaction, under seen_tx's lock: duplicates and    *)
(* invalid transactions go no further.                                     *)
(***************************************************************************)
MutantMarkedWhenInvalid(tx) == IF ValidateBasic(tx) THEN seen_tx ELSE seen_tx \cup {tx}

Marked(tx) == IF ValidateBasic(tx) THEN seen_tx \cup {tx} ELSE seen_tx

Dedup(k) ==
  /\ At(k, "dedup")
  /\ LET tx    == task[k].tx
         fresh == tx \notin seen_tx /\ ValidateBasic(tx)
     IN  /\ seen_tx' = Marked(tx)
         /\ deliverer' = IF fresh THEN [deliverer EXCEPT ![tx] = task[k].peer] ELSE deliverer
         /\ IF fresh THEN Goto(k, IF Attached THEN "pool" ELSE "propagate") ELSE Finish(k)
  /\ UNCHANGED <<peers, pool, age, inflight, pool_lock, peers_lock, received, outbox>>

(***************************************************************************)
(* The transaction is offered to the pool with nonce 0 for its sender, and *)
(* the pool's guard is kept until the peer has been rated.                 *)
(***************************************************************************)
AddToPool(k) ==
  /\ At(k, "pool")
  /\ pool_lock = None
  /\ pool_lock' = k
  /\ LET tx == task[k].tx
     IN  \/ /\ P!Addable(pool, tx)
            /\ pool' \in P!Accepted(pool, tx, 0)
            /\ Goto(k, "reward")
         \/ /\ pool' \in IF P!Addable(pool, tx) THEN P!Rejected(pool, tx, 0) ELSE {pool}
            /\ Goto(k, "penalise")
  /\ UNCHANGED <<peers, seen_tx, age, inflight, deliverer, peers_lock, received, outbox>>

RatePeer(k) ==
  /\ At(k, "reward") \/ At(k, "penalise")
  /\ peers_lock = None
  /\ peers' = IF task[k].peer \notin Known THEN peers
              ELSE [peers EXCEPT ![task[k].peer] =
                      IF At(k, "reward") THEN IncreaseReputation(@, 1)
                      ELSE DecreaseReputation(@, Penalty)]
  /\ pool_lock' = None
  /\ Goto(k, "propagate")
  /\ UNCHANGED <<seen_tx, pool, age, inflight, deliverer, peers_lock, received, outbox>>

(***************************************************************************)
(* Propagation, and NetworkService::broadcast: under the peer manager's    *)
(* lock, which is kept to the end, the message goes to connected peers     *)
(* other than the sender, in the order of a HashMap, until the limit is    *)
(* reached.  The limit is compared after a message is sent: 0 means 1.     *)
(***************************************************************************)
Receivers(sender) ==
  LET others == ConnectedPeers \ {sender}
      n      == Min({Cardinality(others), Max({1, MaxPropagate})})
  IN  kSubset(n, others)

MutantGuardHeld(k) == None

GuardHeld(k) == k

LockPeers(k) ==
  /\ At(k, "propagate")
  /\ peers_lock = None
  /\ IF EnableTxGossip \/ task[k].tx = None
     THEN /\ peers_lock' = GuardHeld(k)
          /\ \E targets \in Receivers(task[k].peer) :
                task' = [task EXCEPT ![k].pc = "send", ![k].targets = targets]
     ELSE Finish(k) /\ UNCHANGED peers_lock
  /\ UNCHANGED <<peers, svcVars, received, outbox>>

Send(k) ==
  /\ At(k, "send")
  /\ \E p \in task[k].targets :
        /\ outbox' = IF task[k].tx = None THEN outbox
                     ELSE [outbox EXCEPT ![task[k].tx][p] = @ + 1]
        /\ task' = [task EXCEPT ![k].targets = @ \ {p}]
  /\ UNCHANGED <<peers, svcVars, peers_lock, received>>

Sent(k) ==
  /\ At(k, "send")
  /\ task[k].targets = {}
  /\ peers_lock' = None
  /\ Finish(k)
  /\ UNCHANGED <<peers, svcVars, received, outbox>>

(***************************************************************************)
(* handle_mempool_sync_request: one answer per peer at a time.  The pool   *)
(* is read under its lock, then the response is put into the outbox.       *)
(***************************************************************************)
BeginSync(k) ==
  /\ At(k, "sync")
  /\ IF task[k].peer \in inflight
     THEN Finish(k) /\ UNCHANGED inflight
     ELSE Goto(k, "read") /\ inflight' = inflight \cup {task[k].peer}
  /\ UNCHANGED <<peers, seen_tx, pool, age, pool_lock, deliverer, peers_lock, received, outbox>>

ReadPool(k) ==
  /\ At(k, "read")
  /\ pool_lock = None \/ ~Attached
  /\ Goto(k, "respond")
  /\ UNCHANGED <<peers, svcVars, peers_lock, received, outbox>>

Respond(k) ==
  /\ At(k, "respond")
  /\ Goto(k, "release")
  /\ UNCHANGED <<peers, svcVars, outbox, peers_lock, received>>

MutantEndSyncKeepsPeer(k) ==
  /\ At(k, "release")
  /\ Finish(k)
  /\ UNCHANGED <<peers, svcVars, peers_lock, received, outbox>>

EndSync(k) ==
  /\ At(k, "release")
  /\ inflight' = inflight \ {task[k].peer}
  /\ Finish(k)
  /\ UNCHANGED <<peers, seen_tx, pool, age, pool_lock, deliverer, peers_lock, received, outbox>>

Handle(k) ==
  \/ Dedup(k)
  \/ AddToPool(k)
  \/ RatePeer(k)
  \/ LockPeers(k)
  \/ Send(k)
  \/ Sent(k)
  \/ BeginSync(k)
  \/ ReadPool(k)
  \/ Respond(k)
  \/ EndSync(k)

Next ==
  \/ ManagePeers
  \/ \E k \in Task, p \in Peer, tx \in Tx : ReceiveTransaction(k, p, tx)
  \/ \E k \in Task, p \in Peer : ReceiveSyncRequest(k, p)
  \/ \E k \in Task, p \in Peer \cup {None} : StartBroadcast(k, p)
  \/ \E k \in Task : Handle(k)

Spec == Init /\ [][Next]_vars

(***************************************************************************)
(* The tokio scheduler runs every task that is ready, and a tokio mutex    *)
(* serves those who wait for it in the order they came, so a task that     *)
(* could go on again and again does.                                       *)
(***************************************************************************)
FairSpec == Spec /\ \A k \in Task : SF_vars(Handle(k))

-------------------------------------------------------------------------------
(***************************************************************************)
(* However many peers deliver a transaction, at once or one after the      *)
(* other, and whatever happens to the peers meanwhile, it is forwarded to  *)
(* each peer at most once, and never back to the peer it came from.        *)
(***************************************************************************)
ForwardedOnce ==
  \A tx \in Tx, p \in Peer :
     /\ outbox[tx][p] <= 1
     /\ deliverer[tx] = p => outbox[tx][p] = 0

(***************************************************************************)
(* At the moment a transaction is put into a peer's outbox the peer is     *)
(* still connected: no ban and no removal comes between the choice of the  *)
(* receivers and the sending.                                              *)
(***************************************************************************)
SentToConnected ==
  [][ \A tx \in Tx, p \in Peer :
        outbox'[tx][p] > outbox[tx][p] => p \in ConnectedPeers ]_vars

(***************************************************************************)
(* No handler waits for ever: the tasks that hold one lock and await the   *)
(* next cannot block each other or themselves, and a peer whose sync is in *)
(* progress may ask again some time.                                       *)
(***************************************************************************)
HandlersFinish ==
  /\ \A k \in Task : task[k].pc # "idle" ~> task[k].pc = "idle"
  /\ \A p \in Peer : p \in inflight ~> p \notin inflight

==============================================================================
