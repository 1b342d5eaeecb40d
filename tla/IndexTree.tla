----------------------------- MODULE IndexTree -----------------------------
(***************************************************************************)
(* The B+tree of a directory or of a view index (ntfs/index.c): an index   *)
(* root kept in the inode, index blocks in $INDEX_ALLOCATION and a bitmap  *)
(* of the blocks in use.  Insertion splits blocks bottom up and starts the *)
(* search again whenever a parent had to be split first; removal replaces  *)
(* an inner entry by its successor and takes an emptied block out of its   *)
(* parent, whose separating entry is then inserted anew.                   *)
(*                                                                         *)
(* The functions are operators on a state t that keep the C names:         *)
(*   t.root  [large, ents, alloc]   t.blk[vcn]  [node, ents]               *)
(*   t.bmp   blocks marked in $BITMAP                                      *)
(*   t.ret   the status last returned: "ok", "keep" (search again), or the *)
(*           error.                                                        *)
(* An entry is a key and the vcn of its child; a node's last entry is the  *)
(* end entry, which has no key.  The search context icx is the path from   *)
(* the root: parent_vcn and parent_pos up to pindex.                       *)
(***************************************************************************)
EXTENDS Integers, Sequences, FiniteSets, SequencesExt

CONSTANTS Weights,     \* a sequence: the length of the entry of each key
          BlockRoom,   \* what an index block holds
          RootRoom,    \* what the index root can grow to in its mft record
          MaxBlocks    \* index blocks the volume has room for

VARIABLES tree,        \* the index, the record t above
          keys         \* the keys added and not removed

Keys == 1..Len(Weights)
EndKey == 99
NoVcn == -1
Root == -1             \* VCN_INDEX_ROOT_PARENT

End(vcn) == [key |-> EndKey, vcn |-> vcn]
IsEnd(e) == e.key = EndKey
IsNode(e) == e.vcn # NoVcn
Size(e) == (IF IsEnd(e) THEN 0 ELSE Weights[e.key]) + (IF IsNode(e) THEN 1 ELSE 0)
IndexLength(ents) ==
  LET Upto[n \in 0..Len(ents)] == IF n = 0 THEN 0 ELSE Upto[n - 1] + Size(ents[n])
  IN  Upto[Len(ents)]
Count(ents) == Len(ents) - 1
ZeroEntry(ents) == Count(ents) = 0
NodeAt(t, vcn) == IF vcn = Root THEN t.root.ents ELSE t.blk[vcn].ents
Put(t, vcn, ents) == IF vcn = Root THEN [t EXCEPT !.root.ents = ents]
                     ELSE [t EXCEPT !.blk[vcn].ents = ents]
Returns(t, r) == [t EXCEPT !.ret = r]

\* STATUS_KEEP_SEARCHING: room was made, the caller has to search again.
KeepSearching(t) == IF t.ret = "ok" THEN Returns(t, "keep") ELSE t

\* ntfs_ie_lookup: the entry that has the key or the first one after it.
ntfs_ie_lookup(ents, key) ==
  CHOOSE i \in 1..Len(ents) : key <= ents[i].key /\ \A j \in 1..(i - 1) : ents[j].key < key

\* ntfs_index_lookup: down from the root until the key, or a leaf, is met.
RECURSIVE Descend(_, _, _, _)
Descend(t, key, path, vcn) ==
  LET ents == NodeAt(t, vcn)
      i == ntfs_ie_lookup(ents, key)
      p == Append(path, [vcn |-> vcn, pos |-> i])
  IN IF ents[i].key = key THEN [res |-> "ok", path |-> p]
     ELSE IF ~IsNode(ents[i]) THEN [res |-> "ENOENT", path |-> p]
     ELSE IF vcn # Root /\ ~t.blk[vcn].node THEN [res |-> "EIO", path |-> p]
     ELSE Descend(t, key, p, ents[i].vcn)
ntfs_index_lookup(t, key) == Descend(t, key, <<>>, Root)

\* ntfs_ibm_get_free: the first clear bit, which is set.
ntfs_ibm_get_free(t) == CHOOSE v \in 0..MaxBlocks :
                          v \notin t.bmp /\ \A w \in 0..(v - 1) : w \in t.bmp
Mark(t, vcn) == [t EXCEPT !.bmp = @ \cup {vcn}]
ntfs_ibm_clear(t, vcn) == [t EXCEPT !.bmp = @ \ {vcn}]

\* ntfs_ib_write of a new block: it fails when $INDEX_ALLOCATION cannot grow.
ntfs_ib_write(t, vcn, b) ==
  IF vcn >= MaxBlocks THEN Returns(t, "ENOSPC") ELSE Returns([t EXCEPT !.blk[vcn] = b], "ok")

\* ntfs_ir_reparent: the root's entries go to a block that becomes its child.
\* An empty root grows by that.  When it cannot, it is a node without a child
\* ("FIXME: revert index root"): the properties need a RootRoom of 1 or more.
ntfs_ir_reparent(t) ==
  LET v == ntfs_ibm_get_free(t)
      w == ntfs_ib_write(Mark(t, v), v, [node |-> t.root.large, ents |-> t.root.ents])
  IN IF w.ret # "ok" THEN ntfs_ibm_clear(w, v)
     ELSE IF Size(End(v)) > RootRoom /\ Size(End(v)) > IndexLength(t.root.ents)
     THEN Returns(ntfs_ibm_clear([w EXCEPT !.root.large = TRUE, !.root.ents = <<End(v)>>], v), "ENOSPC")
     ELSE [w EXCEPT !.root = [large |-> TRUE, ents |-> <<End(v)>>, alloc |-> 1]]

ntfs_ir_truncate(t, size) == [t EXCEPT !.root.alloc = size, !.ret = "ok"]
ntfs_ir_make_space(t, size) ==
  IF size <= RootRoom THEN ntfs_ir_truncate(t, size)
  ELSE KeepSearching(ntfs_ir_reparent(t))

\* ntfs_ih_insert: the entry before pos takes over its child, pos gets the new one.
ntfs_ih_insert(ents, e, new, pos) ==
  InsertAt([ents EXCEPT ![pos].vcn = new], pos, [e EXCEPT !.vcn = ents[pos].vcn])
ntfs_ir_insert_median(t, path, e, new) ==
  LET m == ntfs_ir_make_space(t, IndexLength(t.root.ents) + Size(e) + (IF IsNode(e) THEN 0 ELSE 1))
  IN IF m.ret # "ok" THEN m
     ELSE [m EXCEPT !.root.ents = ntfs_ih_insert(@, e, new, path[1].pos)]

ntfs_ie_get_median(ents) == (Count(ents) \div 2) + 1

\* Mutant: the block keeps the last child of what is cut off.
ntfs_ib_cut_tail_KeepEnd(ents, m) == Append(SubSeq(ents, 1, m - 1), Last(ents))

ntfs_ib_cut_tail(ents, m) ==
  SubSeq(ents, 1, m - 1) \o
    <<IF IsNode(Last(ents)) THEN End(ents[m].vcn) ELSE Last(ents)>>

\* ntfs_ib_split: the tail to a new block, the median to the parent (which may
\* have to be split first), then the tail is cut off.
RECURSIVE ntfs_ib_split(_, _, _)
ntfs_ib_insert(t, path, e, new) ==
  LET p == Last(path)
      ents == t.blk[p.vcn].ents
  IN IF IndexLength(ents) + Size(e) + 1 > BlockRoom
     THEN KeepSearching(ntfs_ib_split(t, path, t.blk[p.vcn]))
     ELSE Returns(Put(t, p.vcn, ntfs_ih_insert(ents, e, new, p.pos)), "ok")
CutTail(t, v, vcn, ents, m) ==
  IF t.ret # "ok" THEN ntfs_ibm_clear(t, v) ELSE Put(t, vcn, ntfs_ib_cut_tail(ents, m))
ntfs_ib_split(t, path, ib) ==
  LET up == Front(path)
      m == ntfs_ie_get_median(ib.ents)
      v == ntfs_ibm_get_free(t)
      w == ntfs_ib_write(Mark(t, v), v,
                         [node |-> ib.node, ents |-> SubSeq(ib.ents, m + 1, Len(ib.ents))])
      i == IF Last(up).vcn = Root THEN ntfs_ir_insert_median(w, up, ib.ents[m], v)
           ELSE ntfs_ib_insert(w, up, ib.ents[m], v)
  IN IF w.ret # "ok" THEN ntfs_ibm_clear(w, v)
     ELSE CutTail(i, v, Last(path).vcn, ib.ents, m)

\* ntfs_ie_add: search, make room and search again until the entry fits.
RECURSIVE ntfs_ie_add(_, _)
SearchAgain(t, key) == IF t.ret \in {"ok", "keep"} THEN ntfs_ie_add(t, key) ELSE t
AddAt(t, l, key) ==
  LET p == Last(l.path)
      ents == NodeAt(t, p.vcn)
      size == IndexLength(ents) + Weights[key]
      room == IF p.vcn = Root THEN t.root.alloc ELSE BlockRoom
  IN IF l.res = "ok" THEN Returns(t, "EEXIST")
     ELSE IF l.res # "ENOENT" THEN Returns(t, l.res)
     ELSE IF size <= room
     THEN Returns(Put(t, p.vcn, InsertAt(ents, p.pos, [key |-> key, vcn |-> NoVcn])), "ok")
     ELSE SearchAgain(IF p.vcn = Root THEN ntfs_ir_make_space(t, size)
                      ELSE ntfs_ib_split(t, l.path, t.blk[p.vcn]), key)
ntfs_ie_add(t, key) == AddAt(t, ntfs_index_lookup(t, key), key)

\* ntfs_ih_takeout: an entry leaves its node and is added again as a leaf entry.
ntfs_ih_takeout(t, vcn, ents, pos) == ntfs_ie_add(Put(t, vcn, RemoveAt(ents, pos)), ents[pos].key)
ntfs_ih_reparent_end(t, vcn, ents, pos) ==
  ntfs_ih_takeout(t, vcn, [ents EXCEPT ![pos].vcn = ents[pos - 1].vcn], pos - 1)
ntfs_ir_leafify(t) == [t EXCEPT !.root = [large |-> FALSE, ents |-> <<End(NoVcn)>>, alloc |-> 0],
                                !.ret = "ok"]

\* ntfs_index_rm_leaf: the emptied block of the path's end is freed and its
\* parent stops naming it.
RECURSIVE ntfs_index_rm_leaf(_, _)
ntfs_index_rm_leaf(t, path) ==
  LET c == ntfs_ibm_clear(t, Last(path).vcn)
      up == Front(path)
      p == Last(up)
      ents == NodeAt(c, p.vcn)
  IN IF ~IsEnd(ents[p.pos]) THEN ntfs_ih_takeout(c, p.vcn, ents, p.pos)
     ELSE IF ZeroEntry(ents)
     THEN IF p.vcn = Root THEN ntfs_ir_leafify(c) ELSE ntfs_index_rm_leaf(c, up)
     ELSE ntfs_ih_reparent_end(c, p.vcn, ents, p.pos)

\* ntfs_index_rm_node: the successor, leftmost under the next entry, takes the
\* place of the inner entry and leaves its leaf.
RECURSIVE LeftMost(_, _, _)
LeftMost(t, path, vcn) ==
  LET p == Append(path, [vcn |-> vcn, pos |-> 1])
  IN IF t.blk[vcn].node THEN LeftMost(t, p, t.blk[vcn].ents[1].vcn) ELSE p
ntfs_index_rm_node(t, path) ==
  LET p == Last(path)
      ents == NodeAt(t, p.vcn)
      down == LeftMost(t, Append(Front(path), [p EXCEPT !.pos = @ + 1]), ents[p.pos + 1].vcn)
      leaf == Last(down).vcn
      succ == t.blk[leaf].ents[1]
      e == [succ EXCEPT !.vcn = ents[p.pos].vcn]
      size == IndexLength(ents) + Size(e) - Size(ents[p.pos])
      grow == Size(e) > Size(ents[p.pos])
      m == IF grow /\ p.vcn = Root THEN ntfs_ir_make_space(t, size) ELSE Returns(t, "ok")
      r == Put(IF p.vcn = Root THEN ntfs_ir_truncate(m, size) ELSE m, p.vcn,
               [ents EXCEPT ![p.pos] = e])
      rest == Tail(t.blk[leaf].ents)
  IN IF ZeroEntry(t.blk[leaf].ents) THEN Returns(t, "EIO")
     ELSE IF m.ret # "ok" THEN m
     ELSE IF grow /\ p.vcn # Root /\ size > BlockRoom
     THEN KeepSearching(ntfs_ib_split(t, path, t.blk[p.vcn]))
     ELSE IF ZeroEntry(rest) THEN ntfs_index_rm_leaf(r, down)
     ELSE Put(r, leaf, rest)

\* ntfs_index_rm of the entry found.
ntfs_index_rm(t, path) ==
  LET p == Last(path)
      ents == NodeAt(t, p.vcn)
      rest == RemoveAt(ents, p.pos)
  IN IF IsNode(ents[p.pos]) THEN ntfs_index_rm_node(t, path)
     ELSE IF p.vcn = Root THEN ntfs_ir_truncate(Put(t, Root, rest), IndexLength(rest))
     ELSE IF Count(ents) # 1 THEN Returns(Put(t, p.vcn, rest), "ok")
     ELSE ntfs_index_rm_leaf(t, path)

RECURSIVE ntfs_index_remove(_, _)
RemoveAgain(t, key) == IF t.ret = "keep" THEN ntfs_index_remove(t, key) ELSE t
RemoveAtPath(t, l, key) ==
  IF l.res # "ok" THEN Returns(t, l.res) ELSE RemoveAgain(ntfs_index_rm(t, l.path), key)
ntfs_index_remove(t, key) == RemoveAtPath(t, ntfs_index_lookup(t, key), key)

\* Mutant: only one level is left, whatever entry is met there.
ntfs_index_walk_up_OneLevel(t, path) == Front(path)

\* ntfs_index_next, with ntfs_index_walk_down and ntfs_index_walk_up; the empty
\* path is a NULL entry.
RECURSIVE ntfs_index_walk_up(_, _)
ntfs_index_walk_up(t, path) ==
  LET up == Front(path)
      p == Last(up)
  IN IF Len(path) = 1 THEN <<>>
     ELSE IF Len(up) > 1 /\ IsEnd(NodeAt(t, p.vcn)[p.pos]) THEN ntfs_index_walk_up(t, up)
     ELSE up
RECURSIVE ntfs_index_walk_down(_, _)
ntfs_index_walk_down(t, path) ==
  LET e == NodeAt(t, Last(path).vcn)[Last(path).pos]
  IN IF IsNode(e) THEN ntfs_index_walk_down(t, Append(path, [vcn |-> e.vcn, pos |-> 1]))
     ELSE path
ntfs_index_next(t, path) ==
  LET p == Last(path)
      after == Append(Front(path), [p EXCEPT !.pos = @ + 1])
      e == NodeAt(t, p.vcn)[p.pos]
      n == IF IsEnd(e) THEN ntfs_index_walk_up(t, path)
           ELSE LET x == NodeAt(t, p.vcn)[p.pos + 1]
                IN IF IsNode(x) THEN ntfs_index_walk_down(t, after)
                   ELSE IF IsEnd(x) THEN ntfs_index_walk_up(t, after) ELSE after
  IN IF n # <<>> /\ IsEnd(NodeAt(t, Last(n).vcn)[Last(n).pos]) THEN <<>> ELSE n

\* One call of ntfs_index_add_filename (ntfs_ie_add) or ntfs_index_remove; a
\* block that is no longer marked may hold anything.
Forget(t) == [t EXCEPT !.blk = [v \in 0..(MaxBlocks - 1) |->
                                  IF v \in t.bmp THEN t.blk[v] ELSE [node |-> FALSE, ents |-> <<>>]]]
Commit(t, then) == /\ tree' = Forget(Returns(t, "ok"))
                   /\ keys' = IF t.ret = "ok" THEN then ELSE keys

AddKey(key) == key \notin keys /\ Commit(ntfs_ie_add(tree, key), keys \cup {key})
RemoveKey(key) == key \in keys /\ Commit(ntfs_index_remove(tree, key), keys \ {key})

Init == /\ tree = [root |-> [large |-> FALSE, ents |-> <<End(NoVcn)>>, alloc |-> 0],
                   blk |-> [v \in 0..(MaxBlocks - 1) |-> [node |-> FALSE, ents |-> <<>>]],
                   bmp |-> {}, ret |-> "ok"]
        /\ keys = {}
Next == \E key \in Keys : AddKey(key) \/ RemoveKey(key)
Spec == Init /\ [][Next]_<<tree, keys>>

\* ntfs_readdir from a position, the places [vcn, pos] of the entries that it
\* hands to its callback: those of the root, then those of every block marked
\* in $BITMAP, in the order of the blocks.  A callback that has had enough ends
\* the call, and the position is then that of the entry it refused.  The bitmap
\* is read from the byte that holds the bit of the first block, but is tested
\* from the first bit of that byte on (bmp_buf_pos = 0).
Places(t, vcn, pos) == [n \in 1..(Len(NodeAt(t, vcn)) - pos) |-> [vcn |-> vcn, pos |-> pos + n - 1]]
TestedBit(first, vcn) == (first \div 8) * 8 + (vcn - first)
ntfs_readdir(t, vcn, pos) ==
  LET first == IF vcn = Root THEN 0 ELSE vcn
      placesOf(v) == IF TestedBit(first, v) \in t.bmp
                     THEN Places(t, v, IF v = vcn THEN pos ELSE 1) ELSE <<>>
  IN (IF vcn = Root THEN Places(t, Root, pos) ELSE <<>>)
     \o FlattenSeq([i \in 1..(MaxBlocks - first) |-> placesOf(first + i - 1)])

\* Every key added and not removed is found by ntfs_index_lookup and no other
\* key is, and no block outside the bitmap is read on the way.
IndexExact ==
  \A key \in Keys :
    LET l == ntfs_index_lookup(tree, key)
    IN /\ l.res = IF key \in keys THEN "ok" ELSE "ENOENT"
       /\ \A i \in 2..Len(l.path) : l.path[i].vcn \in tree.bmp

\* From the first key, ntfs_index_next visits every key once in collation
\* order and ends.
RECURSIVE Walk(_, _)
Walk(path, n) == IF path = <<>> \/ n = 0 THEN <<>>
                 ELSE <<NodeAt(tree, Last(path).vcn)[Last(path).pos].key>>
                      \o Walk(ntfs_index_next(tree, path), n - 1)
WalkComplete ==
  keys # {} =>
    LET first == CHOOSE k \in keys : \A j \in keys : k <= j
        w == Walk(ntfs_index_lookup(tree, first).path, Len(Weights) + 1)
    IN Range(w) = keys /\ \A i \in 1..(Len(w) - 1) : w[i] < w[i + 1]

\* ntfs_readdir from the beginning hands over every key once, though blocks are
\* split, emptied and taken again in any order.
Listed(l) == [n \in 1..Len(l) |-> NodeAt(tree, l[n].vcn)[l[n].pos].key]
ListingComplete ==
  LET l == Listed(ntfs_readdir(tree, Root, 1))
  IN Range(l) = keys /\ Len(l) = Cardinality(keys)

\* A block is marked exactly when the tree reaches it, and it is reached once.
Children(ents) == {ents[i].vcn : i \in {j \in 1..Len(ents) : IsNode(ents[j])}}
BlocksExact ==
  LET nodes == {Root} \cup tree.bmp
  IN /\ UNION {Children(NodeAt(tree, v)) : v \in nodes} = tree.bmp
     /\ \A v, w \in nodes : v # w => Children(NodeAt(tree, v)) \cap Children(NodeAt(tree, w)) = {}
=============================================================================
