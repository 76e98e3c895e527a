-------------------------------- MODULE Cache --------------------------------
(***************************************************************************)
(* The read caches of the storage crate (crates/storage/src/cache.rs).     *)
(*                                                                         *)
(* LruCache is a record of a map and of its keys in order of use, the most *)
(* recent first; BlockCache and TransactionCache are LruCaches behind a    *)
(* lock that is held for a whole call, so each call is one step.           *)
(* StateCache is a map whose keys are block numbers.  The methods are      *)
(* operators from a cache to a cache.                                      *)
(***************************************************************************)
EXTENDS Naturals, Sequences, SequencesExt, FiniteSetsExt

EmptyMap == [k \in {} |-> 0]

With(map, k, v) ==
  [x \in DOMAIN map \cup {k} |-> IF x = k THEN v ELSE map[x]]

Without(map, S) == [x \in DOMAIN map \ S |-> map[x]]

EmptyLru == [map |-> EmptyMap, order |-> <<>>]

(***************************************************************************)
(* order.retain(|k| k != key); order.push_front(key)                       *)
(***************************************************************************)
RetainOne(kept, x, k) == IF x = k THEN kept ELSE Append(kept, x)

Retain(order, k) ==
  LET kept[i \in 0 .. Len(order)] == IF i = 0 THEN <<>> ELSE RetainOne(kept[i - 1], order[i], k)
  IN  kept[Len(order)]

MoveToFront(order, k) == <<k>> \o Retain(order, k)

MutantLruGetPeek(c, k) == c

LruGet(c, k) ==
  IF k \in DOMAIN c.map
  THEN [c EXCEPT !.order = MoveToFront(@, k)]
  ELSE c

(***************************************************************************)
(* insert evicts only for a key that is new: the least recently used one.  *)
(* A cache of capacity 0 finds nothing to evict and still takes one entry. *)
(***************************************************************************)
LruEvict(c, capacity, k) ==
  IF /\ Cardinality(DOMAIN c.map) >= capacity
     /\ k \notin DOMAIN c.map
     /\ c.order # <<>>
  THEN [map |-> Without(c.map, {Last(c.order)}), order |-> Front(c.order)]
  ELSE c

LruInsert(c, capacity, k, v) ==
  LET room == LruEvict(c, capacity, k)
  IN  [map |-> With(room.map, k, v), order |-> MoveToFront(room.order, k)]

LruClear(c) == EmptyLru

(***************************************************************************)
(* StateCache::insert makes room whenever the cache is full, even when the *)
(* block number it is given is cached already.                             *)
(***************************************************************************)
StateInsert(map, max_entries, n, v) ==
  LET full == Cardinality(DOMAIN map) >= max_entries /\ DOMAIN map # {}
      room == IF full THEN Without(map, {Min(DOMAIN map)}) ELSE map
  IN  With(room, n, v)

==============================================================================
