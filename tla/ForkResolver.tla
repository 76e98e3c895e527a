---------------------------- MODULE ForkResolver ----------------------------
(***************************************************************************)
(* ForkResolver::calculate_reorg_path, with find_common_ancestor, over any *)
(* tree of blocks (crates/blockchain-core/src/fork.rs).                    *)
(*                                                                         *)
(* Hashes are numbered in the order in which their blocks were stored, so  *)
(* a parent has a smaller number; 0 is the genesis block, whose parent     *)
(* hash is Zero.  Every iteration of one of the three loops is a step.     *)
(***************************************************************************)
EXTENDS ForkLimits

CONSTANT
  HighestHash       \* the number of blocks besides the genesis block

ASSUME ForkAssumption == HighestHash \in Nat

Blocks == 0 .. HighestHash

GenesisBlock == 0

Zero == -1     \* Hash::zero(), of which there is no block

VARIABLES
  parent,           \* header.parent_hash of every block
  old_head,
  new_head,
  phase,            \* the loop being run, or how the call ended
  current_a,        \* the block the walk from old_head is at
  current_b,        \* the block the walk from new_head is at
  visited_a,
  visited_b,
  common_ancestor,
  revert_blocks,    \* blocks to revert, from old_head down
  apply_blocks      \* blocks to apply, in the order they are collected

input == <<parent, old_head, new_head>>
resolver_vars ==
  <<input, phase, current_a, current_b, visited_a, visited_b, common_ancestor,
    revert_blocks, apply_blocks>>

Trees ==
  {p \in [Blocks -> Zero .. HighestHash - 1] :
     p[GenesisBlock] = Zero /\ \A h \in Blocks \ {GenesisBlock} : p[h] \in 0 .. h - 1}

ResolverInit ==
  /\ parent \in Trees
  /\ old_head \in Blocks /\ new_head \in Blocks
  /\ phase = "search"
  /\ current_a = old_head /\ current_b = new_head
  /\ visited_a = {} /\ visited_b = {}
  /\ common_ancestor = Zero
  /\ revert_blocks = <<>> /\ apply_blocks = <<>>
-----------------------------------------------------------------------------
(***************************************************************************)
(* find_common_ancestor: both walks move to the parent in the same         *)
(* iteration, and each block is looked up in what the other has visited    *)
(* before.                                                                 *)
(***************************************************************************)
Found(h) ==
  /\ phase' = "revert"
  /\ common_ancestor' = h
  /\ current_a' = old_head /\ current_b' = new_head
  /\ UNCHANGED <<input, visited_a, visited_b, revert_blocks, apply_blocks>>

NotFound ==
  /\ phase' = "no_ancestor"
  /\ UNCHANGED <<input, current_a, current_b, visited_a, visited_b, common_ancestor,
                 revert_blocks, apply_blocks>>

MutantParentStays(h) == h

ParentHash(h) == parent[h]

MutantSeen == current_a \in visited_a \/ current_b \in visited_b

Seen == current_a \in visited_b \/ current_b \in visited_a

SearchSeen ==
  /\ phase = "search"
  /\ Seen
  /\ Found(IF current_a \in visited_b THEN current_a ELSE current_b)

SearchGenesis ==
  /\ phase = "search"
  /\ ~ Seen
  /\ current_a = GenesisBlock /\ current_b = GenesisBlock
  /\ Found(current_a)

SearchPastGenesis ==
  /\ phase = "search"
  /\ ~ Seen
  /\ current_a = Zero \/ current_b = Zero     \* chain.get(..)? returns None
  /\ NotFound

SearchParents ==
  /\ phase = "search"
  /\ ~ Seen
  /\ current_a # Zero /\ current_b # Zero
  /\ ~ (current_a = GenesisBlock /\ current_b = GenesisBlock)
  /\ visited_a' = visited_a \cup {current_a}
  /\ visited_b' = visited_b \cup {current_b}
  /\ current_a' = ParentHash(current_a)
  /\ current_b' = ParentHash(current_b)
  /\ phase' = IF Cardinality(visited_a') > SearchLimit \/ Cardinality(visited_b') > SearchLimit
              THEN "no_ancestor" ELSE "search"
  /\ UNCHANGED <<input, common_ancestor, revert_blocks, apply_blocks>>
-----------------------------------------------------------------------------
(***************************************************************************)
(* The two loops of calculate_reorg_path.  The depth is checked after a    *)
(* block is pushed; the blocks to apply are reversed at the end.           *)
(***************************************************************************)
MutantTooDeep(path) == Len(path) > MaxReorgDepth + 1

TooDeep(path) == Len(path) > MaxReorgDepth

Revert ==
  /\ phase = "revert"
  /\ IF current_a = common_ancestor
     THEN phase' = "apply" /\ UNCHANGED <<current_a, revert_blocks>>
     ELSE IF current_a = Zero
     THEN phase' = "block_missing" /\ UNCHANGED <<current_a, revert_blocks>>
     ELSE /\ revert_blocks' = Append(revert_blocks, current_a)
          /\ current_a' = ParentHash(current_a)
          /\ phase' = IF TooDeep(revert_blocks') THEN "too_deep" ELSE "revert"
  /\ UNCHANGED <<input, current_b, visited_a, visited_b, common_ancestor, apply_blocks>>

AncestorReached == current_b = common_ancestor

Apply ==
  /\ phase = "apply"
  /\ IF AncestorReached
     THEN phase' = "done" /\ UNCHANGED <<current_b, apply_blocks>>
     ELSE IF current_b = Zero
     THEN phase' = "block_missing" /\ UNCHANGED <<current_b, apply_blocks>>
     ELSE /\ apply_blocks' = <<current_b>> \o apply_blocks
          /\ current_b' = ParentHash(current_b)
          /\ phase' = phase
  /\ UNCHANGED <<input, current_a, visited_a, visited_b, common_ancestor, revert_blocks>>

Ended == phase \in {"done", "no_ancestor", "too_deep", "block_missing"}

ResolverNext ==
  \/ SearchSeen \/ SearchGenesis \/ SearchPastGenesis \/ SearchParents
  \/ Revert
  \/ Apply
  \/ Ended /\ UNCHANGED resolver_vars

ResolverSpec == ResolverInit /\ [][ResolverNext]_resolver_vars

(***************************************************************************)
(* The loops run to their end: a single thread executes them.              *)
(***************************************************************************)
FairResolverSpec == ResolverSpec /\ WF_resolver_vars(ResolverNext)
-----------------------------------------------------------------------------
(***************************************************************************)
(* Reference definitions: the blocks from h down to the genesis block, the *)
(* height of a block, and the last block two branches have in common.      *)
(***************************************************************************)
AncestorsOf ==
  LET anc[h \in Blocks] == IF h = GenesisBlock THEN {GenesisBlock} ELSE {h} \cup anc[parent[h]]
  IN  anc

Height(h) == Cardinality(AncestorsOf[h]) - 1

CommonBlocks == AncestorsOf[old_head] \cap AncestorsOf[new_head]

LastCommonBlock == Max(CommonBlocks)

(***************************************************************************)
(* Everything the walks hold is a block or, one step past the genesis      *)
(* block, Zero; the path builder never asks for a missing block.           *)
(***************************************************************************)
ResolverTypeOK ==
  /\ parent \in Trees /\ old_head \in Blocks /\ new_head \in Blocks
  /\ phase \in {"search", "revert", "apply", "done", "no_ancestor", "too_deep"}
  /\ current_a \in Blocks \cup {Zero} /\ current_b \in Blocks \cup {Zero}
  /\ visited_a \subseteq Blocks /\ visited_b \subseteq Blocks
  /\ common_ancestor \in Blocks \cup {Zero}
  /\ revert_blocks \in Seq(Blocks) /\ apply_blocks \in Seq(Blocks)

(***************************************************************************)
(* What find_common_ancestor returns, for every tree and every two heads.  *)
(* On branches of different heights it is the fork point, provided the     *)
(* walk of the lower branch has not run out of blocks or the search limit  *)
(* been reached before the other walk gets there; on branches of equal     *)
(* heights the two walks pass the fork point in the same iteration and the *)
(* answer is the genesis block.                                            *)
(***************************************************************************)
Higher == Max({Height(old_head), Height(new_head)})

Lower == Min({Height(old_head), Height(new_head)})

ExpectedAncestor ==
  CASE Higher = Lower ->
         IF Higher <= SearchLimit THEN GenesisBlock ELSE Zero
    [] Higher # Lower ->
         IF Higher - Height(LastCommonBlock) <= Min({SearchLimit, Lower + 1})
         THEN LastCommonBlock ELSE Zero

AncestorExact ==
  /\ phase = "no_ancestor" => ExpectedAncestor = Zero
  /\ phase \in {"revert", "apply", "done", "too_deep"} => common_ancestor = ExpectedAncestor

(***************************************************************************)
(* A finished reorganisation path reconnects the two heads: going down     *)
(* from old_head along the blocks to revert, and up along the blocks to    *)
(* apply, every block is followed by its neighbour in the tree, and the    *)
(* path ends at new_head and is no deeper than allowed.                    *)
(***************************************************************************)
PathReconnects ==
  phase = "done" =>
    /\ Len(revert_blocks) <= MaxReorgDepth
    /\ common_ancestor = IF revert_blocks = <<>> THEN old_head
                         ELSE parent[revert_blocks[Len(revert_blocks)]]
    /\ \A i \in 1 .. Len(revert_blocks) :
         revert_blocks[i] = IF i = 1 THEN old_head ELSE parent[revert_blocks[i - 1]]
    /\ \A i \in 1 .. Len(apply_blocks) :
         parent[apply_blocks[i]] = IF i = 1 THEN common_ancestor ELSE apply_blocks[i - 1]
    /\ new_head = IF apply_blocks = <<>> THEN common_ancestor ELSE apply_blocks[Len(apply_blocks)]

(***************************************************************************)
(* The call returns: no tree makes one of its loops run forever.           *)
(***************************************************************************)
Returns == <>Ended
=============================================================================
