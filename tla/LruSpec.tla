------------------------------ MODULE LruSpec ------------------------------
(***************************************************************************)
(* What the generic cache of NtfsDxe/ntfs/cache.c promises its users: a    *)
(* bounded sequence of items, the most recently used one first, at most    *)
(* one item for a key, the least recently used one evicted when the cache  *)
(* is full.  LruCache.tla is the linked structure that implements it.      *)
(***************************************************************************)
EXTENDS Naturals, Sequences

CONSTANTS
  Keys,      \* what the compare function of a cache compares
  Vals,      \* the payload of an item
  Capacity,  \* item_count of ntfs_create_cache
  NoVal      \* a NULL return

VARIABLES
  lru,  \* the cached items, most_recent_entry first
  out   \* the last call, what it returned, and what it passed to dofree

Item == [key : Keys, val : Vals]
Positions(s, S) == {i \in 1..Len(s) : s[i].key \in S}
Holds(s, k) == Positions(s, {k}) # {}
ItemOf(s, k) == s[CHOOSE i \in Positions(s, {k}) : TRUE]
Without(s, S) == SelectSeq(s, LAMBDA x : x.key \notin S)
Reports(call, ret, freed) == out' = [call |-> call, ret |-> ret, freed |-> freed]

Init == lru = << >> /\ out = [call |-> "drop", ret |-> NoVal, freed |-> {}]

\* Each call takes the items s to the items t.

\* A hit becomes the most recently used item; a miss changes nothing.
Fetch(s, t, k) ==
  \/ /\ Holds(s, k)
     /\ Reports("fetch", ItemOf(s, k).val, {})
     /\ t = <<ItemOf(s, k)>> \o Without(s, {k})
  \/ /\ ~Holds(s, k)
     /\ Reports("fetch", NoVal, {})
     /\ t = s

\* The item a full cache gives up to make room, if any.
Evicted(s) == IF Len(s) = Capacity THEN {s[Capacity].val} ELSE {}
Kept(s) == IF Len(s) = Capacity THEN SubSeq(s, 1, Capacity - 1) ELSE s

\* An item already cached is returned as it is: the new payload is dropped.
Enter(s, t, k, v) ==
  \/ /\ Holds(s, k)
     /\ Reports("enter", ItemOf(s, k).val, {})
     /\ t = s
  \/ /\ ~Holds(s, k)
     /\ \E freed \in {{}, Evicted(s)} : Reports("enter", v, freed)
     /\ t = <<[key |-> k, val |-> v]>> \o Kept(s)

\* A shortage of memory: the data is simply not cached.
EnterFails(s, t, k) ==
  /\ ~Holds(s, k)
  /\ \E freed \in {{}, Evicted(s)} : Reports("enter", NoVal, freed)
  /\ t = Kept(s)

\* Items leave on request; the caller says whether their payload is freed.
Drop(s, t, S) ==
  /\ \E freed \in {{}, {s[i].val : i \in Positions(s, S)}} :
       Reports("drop", NoVal, freed)
  /\ t = Without(s, S)

Call(s, t) ==
  \/ out'.call = "fetch" /\ \E k \in Keys : Fetch(s, t, k)
  \/ out'.call = "enter" /\ \E k \in Keys : \/ EnterFails(s, t, k)
                                            \/ \E v \in Vals : Enter(s, t, k, v)
  \/ out'.call = "drop" /\ \E S \in SUBSET Keys : Drop(s, t, S)

Next == Call(lru, lru')

vars == <<lru, out>>
Spec == Init /\ [][Next]_vars
=============================================================================
