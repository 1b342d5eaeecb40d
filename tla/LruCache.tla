------------------------------ MODULE LruCache ------------------------------
(***************************************************************************)
(* The generic cache of NtfsDxe/ntfs/cache.c, at the level of its          *)
(* pointers: a doubly linked LRU list, a singly linked list of free        *)
(* entries and hash chains, all over one array of entries.  The inode      *)
(* (nidata), lookup, pathname and security caches of a volume are its      *)
(* instances; they differ in whether they hash, whether an item has a      *)
(* malloc'ed variable part and whether they have a dofree function.        *)
(*                                                                         *)
(* Abstracted: a key stands for what the compare function looks at and a   *)
(* value for the rest of the payload; hash links are positions of a        *)
(* sequence, so that only their number is limited; the hit counters are    *)
(* left out.  A walk along a list that has become cyclic and never meets   *)
(* what it looks for does not end: the call has no step.                   *)
(***************************************************************************)
EXTENDS Integers, Sequences, FiniteSets, SequencesExt

CONSTANTS
  Keys, Vals, NoVal,
  Count,        \* item_count: the number of entries
  HashOf,       \* [Keys -> 0..MaxHash-1], the dohash function
  MaxHash,      \* max_hash: the number of hash chains
  Kinds,        \* the kinds of caches: [hashed, var, dofree : BOOLEAN]
  MallocFails   \* whether malloc of a variable part may fail

\* "we assume at least three entries" (ntfs_enter_cache); two are enough for
\* the entry before the oldest one to exist.
CacheAssumption ==
  /\ Count \in Nat /\ Count >= 2
  /\ MaxHash \in Nat \ {0} /\ HashOf \in [Keys -> 0..(MaxHash - 1)]
  /\ Kinds \subseteq [hashed : BOOLEAN, var : BOOLEAN, dofree : BOOLEAN]
  /\ MallocFails \in BOOLEAN

VARIABLES
  cache,  \* the CACHE_HEADER with its entries
  call,   \* the last call: "fetch", "enter", or one that drops items
  ret,    \* the entry the last call returned, or NULL
  freed   \* the payloads the last call passed to dofree

vars == <<cache, call, ret, freed>>

Entries == 1..Count
NULL == 0
Ptr == Entries \cup {NULL}

\* ntfs_create_cache: every entry is in the free list, every chain is empty.
ntfs_create_cache(kind) ==
  [kind |-> kind, dohash |-> kind.hashed,
   mru |-> NULL, oldest |-> NULL, free |-> 1,
   next |-> [e \in Entries |-> IF e < Count THEN e + 1 ELSE NULL],
   prev |-> [e \in Entries |-> NULL],
   key |-> [e \in Entries |-> NoVal], val |-> [e \in Entries |-> NoVal],
   var |-> [e \in Entries |-> "null"],
   chain |-> [h \in 0..(MaxHash - 1) |-> << >>]]

Init ==
  /\ \E kind \in Kinds : cache = ntfs_create_cache(kind)
  /\ call = "drop" /\ ret = NULL /\ freed = {}

-----------------------------------------------------------------------------
\* Walks

\* The first n entries met from p along next.
RECURSIVE WalkFrom(_, _, _)
WalkFrom(c, p, n) ==
  IF p = NULL \/ n = 0 THEN << >> ELSE <<p>> \o WalkFrom(c, c.next[p], n - 1)

\* A list of distinct entries has ended after Count of them.
ListFrom(c, p) == WalkFrom(c, p, Count)
Ends(c, p) == LET l == ListFrom(c, p) IN l # << >> => c.next[Last(l)] = NULL

\* compare(): an entry whose variable part is missing matches nothing.
Matches(c, e, S) == c.key[e] \in S /\ (c.kind.var => c.var[e] # "null")

\* dohash() of an entry: -1 when the part it hashes is missing.
HashValue(c, e) ==
  IF c.kind.var /\ c.var[e] = "null" THEN -1 ELSE HashOf[c.key[e]]

\* The sequence a search for k goes through: its hash chain, or the LRU list.
SearchPath(c, k) == IF c.dohash THEN c.chain[HashOf[k]] ELSE ListFrom(c, c.mru)
Found(c, k) ==
  LET path == SearchPath(c, k)
      i == SelectInSeq(path, LAMBDA e : Matches(c, e, {k}))
  IN  IF i = 0 THEN NULL ELSE path[i]
SearchEnds(c, k) == c.dohash \/ Found(c, k) # NULL \/ Ends(c, c.mru)

-----------------------------------------------------------------------------
\* Hash chains

FreeLinks(c) ==
  LET Left[h \in 0..MaxHash] ==
        IF h = 0 THEN Count ELSE Left[h - 1] - Len(c.chain[h - 1])
  IN  Left[MaxHash]

\* A new link goes to the head of its chain; hashing is dropped for good when
\* the links are exhausted or the hash value is illegal.
inserthashindex(c, e) ==
  LET h == HashValue(c, e) IN
  IF ~c.dohash THEN c
  ELSE IF h \in 0..(MaxHash - 1) /\ FreeLinks(c) > 0
       THEN [c EXCEPT !.chain[h] = <<e>> \o @]
       ELSE [c EXCEPT !.dohash = FALSE]

drophashindex(c, e, h) ==
  IF ~c.dohash THEN c
  ELSE IF h \in 0..(MaxHash - 1) /\ Contains(c.chain[h], e)
       THEN [c EXCEPT !.chain[h] = RemoveFirst(@, e)]
       ELSE [c EXCEPT !.dohash = FALSE]

-----------------------------------------------------------------------------
\* ntfs_fetch_cache

\* Mutant: a hit leaves the order of the list as it is.
Relinked_Fifo(c, e) == c

\* A hit that is not at the head of the LRU list is relinked as its head.
Relinked(c, e) ==
  LET p == c.prev[e]
      n == c.next[e]
      back == IF n # NULL THEN [c.prev EXCEPT ![n] = p] ELSE c.prev
  IN  IF p = NULL THEN c
      ELSE [c EXCEPT !.next = [@ EXCEPT ![p] = n, ![e] = c.mru],
                     !.prev = [back EXCEPT ![e] = NULL, ![c.mru] = e],
                     !.oldest = IF n = NULL THEN p ELSE @,
                     !.mru = e]

ntfs_fetch_cache(k) ==
  /\ call' = "fetch"
  /\ SearchEnds(cache, k)
  /\ ret' = Found(cache, k)
  /\ cache' = IF ret' = NULL THEN cache ELSE Relinked(cache, ret')
  /\ freed' = {}

-----------------------------------------------------------------------------
\* ntfs_enter_cache

\* The entry for a new item: the head of the free list, or the oldest entry,
\* taken off its list, its hash chain and its variable part.
TakeFree(c) ==
  LET e == c.free IN
  [c EXCEPT !.free = c.next[e], !.oldest = IF @ = NULL THEN e ELSE @]

TakeOldest(c) ==
  LET e == c.oldest IN
  [drophashindex([c EXCEPT !.next[c.prev[e]] = NULL], e, HashValue(c, e))
     EXCEPT !.oldest = c.prev[e]]

\* The entry e, filled with the item, is linked at the head of the LRU list.
LinkFirst(c, e, k, v, alloc) ==
  [c EXCEPT !.next[e] = c.mru,
            !.prev = IF c.mru # NULL THEN [@ EXCEPT ![e] = NULL, ![c.mru] = e]
                                     ELSE [@ EXCEPT ![e] = NULL],
            !.mru = e, !.key[e] = k, !.val[e] = v,
            !.var[e] = IF c.kind.var /\ alloc THEN "live" ELSE "null"]

\* No memory for the variable part: the entry is recycled in the free list.
Recycle(c, e) ==
  [c EXCEPT !.mru = c.next[e], !.next[e] = c.free, !.free = e]

ntfs_enter_cache(k, v, alloc) ==
  LET old == Found(cache, k)
      e == IF cache.free # NULL THEN cache.free ELSE cache.oldest
      taken == IF cache.free # NULL THEN TakeFree(cache) ELSE TakeOldest(cache)
      linked == LinkFirst(taken, e, k, v, alloc)
      filled == alloc \/ ~cache.kind.var
  IN
  /\ call' = "enter"
  /\ SearchEnds(cache, k)
  /\ \/ /\ old # NULL
        /\ ret' = old /\ freed' = {}
        /\ UNCHANGED cache
     \/ /\ old = NULL
        /\ freed' = IF cache.free = NULL /\ cache.kind.dofree
                    THEN {cache.val[e]} ELSE {}
        /\ ret' = IF filled THEN e ELSE NULL
        /\ cache' = IF filled THEN inserthashindex(linked, e) ELSE Recycle(linked, e)

-----------------------------------------------------------------------------
\* ntfs_invalidate_cache, ntfs_remove_cache, ntfs_free_cache

\* The entry is unlinked from the LRU list and pushed on the free list.  Its
\* variable part is freed, but the pointer to it is not cleared.  What else is
\* left in a free entry is not read before it is written: it is forgotten.
do_invalidate(c, e) ==
  LET p == c.prev[e]
      n == c.next[e]
  IN  [c EXCEPT !.prev = IF n # NULL THEN [@ EXCEPT ![n] = p] ELSE @,
                !.oldest = IF n = NULL THEN p ELSE @,
                !.next = IF p # NULL THEN [@ EXCEPT ![p] = n, ![e] = c.free]
                                     ELSE [@ EXCEPT ![e] = c.free],
                !.mru = IF p = NULL THEN n ELSE @,
                !.free = e,
                !.prev[e] = NULL, !.key[e] = NoVal, !.val[e] = NoVal,
                !.var[e] = IF @ = "live" THEN "dangling" ELSE @]

\* Mutant: a free entry keeps its place in the hash chain.
InvalidateEntry_KeepsLink(c, e, h) == do_invalidate(c, e)

\* One entry selected by the compare function goes: first its hash link.
InvalidateEntry(c, e, h) == do_invalidate(drophashindex(c, e, h), e)

Dofree(c, es) == IF c.kind.dofree THEN {c.val[e] : e \in es} ELSE {}

\* The keys S the compare function picks are searched for in the hash chain h
\* of the wanted item or (CACHE_NOHASH, or hashing dropped) in the LRU list.
ntfs_invalidate_cache(h, S, nohash, free) ==
  LET hashed == ~nohash /\ cache.dohash
      es == SelectSeq(IF hashed THEN cache.chain[h] ELSE ListFrom(cache, cache.mru),
                      LAMBDA e : Matches(cache, e, S))
      Drop(c, e) == InvalidateEntry(c, e, HashValue(c, e))
  IN
  /\ ~hashed => Ends(cache, cache.mru)
  /\ cache' = FoldLeft(Drop, cache, es)
  /\ call' = "drop" /\ ret' = NULL
  /\ freed' = IF free THEN Dofree(cache, ToSet(es)) ELSE {}

\* The caller hands back the entry it was just given (ntfs_inode_open).
ntfs_remove_cache ==
  /\ ret # NULL
  /\ cache' = InvalidateEntry(cache, ret, HashValue(cache, ret))
  /\ call' = "drop" /\ ret' = NULL /\ freed' = {}

\* At unmount the payload of every entry of the LRU list is freed; the next
\* mount creates the cache again.
ntfs_free_cache ==
  /\ Ends(cache, cache.mru)
  /\ cache' = ntfs_create_cache(cache.kind)
  /\ call' = "drop" /\ ret' = NULL
  /\ freed' = Dofree(cache, ToSet(ListFrom(cache, cache.mru)))

Next ==
  \/ \E k \in Keys : ntfs_fetch_cache(k)
  \/ \E k \in Keys, v \in Vals, alloc \in {TRUE, ~MallocFails} :
       ntfs_enter_cache(k, v, alloc)
  \/ \E k \in Keys, free \in BOOLEAN : ntfs_invalidate_cache(HashOf[k], {k}, FALSE, free)
  \/ \E S \in SUBSET {cache.key[e] : e \in Entries} : ntfs_invalidate_cache(0, S, TRUE, FALSE)
  \/ ntfs_remove_cache
  \/ ntfs_free_cache

Spec == Init /\ [][Next]_vars

-----------------------------------------------------------------------------
\* Properties

Lru == ListFrom(cache, cache.mru)
Free == ListFrom(cache, cache.free)

\* The two lists share the entries between them: both end, no entry is in
\* both or lost, previous undoes next, and oldest_entry is the end of the LRU
\* list.  No entry of the LRU list has a variable part that was freed.  This
\* is what the relinking code of ntfs_fetch_cache, ntfs_enter_cache and
\* do_invalidate has to keep.
ListsPartitionEntries ==
  /\ Ends(cache, cache.mru) /\ Ends(cache, cache.free)
  /\ ToSet(Lru) \cap ToSet(Free) = {}
  /\ ToSet(Lru) \cup ToSet(Free) = Entries
  /\ \A i \in 1..Len(Lru) :
       cache.prev[Lru[i]] = IF i = 1 THEN NULL ELSE Lru[i - 1]
  /\ cache.oldest = IF Lru = << >> THEN NULL ELSE Last(Lru)
  /\ \A e \in ToSet(Lru) : cache.var[e] = IF cache.kind.var THEN "live" ELSE "null"

\* The chains hold exactly the entries of the LRU list, each once, in the
\* chain of its hash value: a search through the chains finds what a search
\* through the list finds (ntfs_fetch_cache has both).  Hashing is never given
\* up: the "Bad hash list" and "No more hash entries" paths of inserthashindex
\* and drophashindex are not reached.
ChainsIndexTheList ==
  /\ cache.dohash = cache.kind.hashed
  /\ cache.dohash => \A h \in 0..(MaxHash - 1) :
       /\ ToSet(cache.chain[h]) = {e \in ToSet(Lru) : HashValue(cache, e) = h}
       /\ IsInjective(cache.chain[h])

\* So the structure stays sound whatever sequence of calls is made.
CacheIsSound == ListsPartitionEntries /\ ChainsIndexTheList

\* The linked structure implements the bounded LRU sequence of LruSpec: hits,
\* evictions, results and what goes to dofree are the ones it promises.
Abstract ==
  INSTANCE LruSpec WITH
    Capacity <- Count,
    lru <- LET l == Lru
           IN  [i \in 1..Len(l) |-> [key |-> cache.key[l[i]], val |-> cache.val[l[i]]]],
    out <- [call |-> call,
            ret |-> IF ret = NULL THEN NoVal ELSE cache.val[ret], freed |-> freed]
ImplementsLru == Abstract!Spec

\* "When there is a shortage of memory, data is simply not cached" (head of
\* cache.c): when the malloc in ntfs_enter_cache has failed, the LRU list still
\* ends, and so does every search and the loop of ntfs_free_cache.
ShortageIsHarmless == Ends(cache, cache.mru)
=============================================================================
