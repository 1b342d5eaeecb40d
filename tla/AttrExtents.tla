----------------------------- MODULE AttrExtents -----------------------------
(***************************************************************************)
(* The mapping of a non-resident data attribute (attrib.c): the run list   *)
(* of the open attribute, which is mapped piece by piece, and the mapping  *)
(* pairs of the attribute's extents, which are spread over several MFT     *)
(* records and rewritten from some vcn on.  Sizes are in clusters.         *)
(*                                                                         *)
(* An update of the pairs may find no MFT record, for a new extent or for  *)
(* the attribute list: it then leaves the pairs half written.              *)
(*                                                                         *)
(* map is the history of what the attribute was given, the lcn of each     *)
(* vcn, and seen the values of map since the pairs were last complete.     *)
(***************************************************************************)
EXTENDS Runlist

CONSTANTS Clusters,      \* the clusters of the volume the attribute may get
          MaxVcns,       \* bound on the size of the attribute
          BaseRoom,      \* bytes for mapping pairs in the base MFT record
          ExtentRoom,    \* and in an extent record
          Environments   \* sets of operations a behaviour may use

VARIABLES ext,    \* the extents in the MFT records, in the order of the list
          base,   \* the sizes and the sparse bit in the first extent
          na,     \* the open attribute
          used,   \* the clusters marked in the volume bitmap
          map,    \* history: the lcn of each vcn of the attribute
          torn,   \* history: the last update of the pairs failed
          seen,   \* history: the values of map since they were last complete
          ops     \* the operations of this behaviour

vars == <<ext, base, na, used, map, torn, seen, ops>>

Room(k) == IF k = 1 THEN BaseRoom ELSE ExtentRoom

\* What cannot be had while a call runs: nothing, an MFT record, the attribute list.
Faults == {"none", "record", "attrlist"}

\* A state handed from call to call; ok is FALSE once a call has failed.
St(fault) == [ok |-> TRUE, ext |-> ext, base |-> base, na |-> na, torn |-> torn,
              fault |-> fault]

Fail(st) == [st EXCEPT !.ok = FALSE]

WithRl(st, rl) == IF rl = <<>> THEN Fail(st) ELSE [st EXCEPT !.na.rl = rl]

\* ntfs_attr_lookup continued after the j-th extent: the first one after it
\* whose successor starts beyond vcn (0 enumerates); 0 when there is none.
ntfs_attr_lookup(x, j, vcn) ==
    LET found == {k \in (j + 1)..Len(x) :
                    vcn = 0 \/ k = Len(x) \/ x[k + 1].lowest > vcn}
    IN  IF found = {} THEN 0 ELSE MinOf(found)

\* Decode the k-th extent into the run list.
Decode(st, k) ==
    WithRl(st, ntfs_mapping_pairs_decompress(
                 [lowest |-> st.ext[k].lowest, highest |-> st.ext[k].highest,
                  pairs |-> st.ext[k].pairs, allocated |-> st.base.alloc],
                 st.na.rl))

Mapped(st, vcn) == ntfs_rl_vcn_to_lcn(st.na.rl, vcn) # LCN_RL_NOT_MAPPED

ntfs_attr_map_runlist(st, vcn) ==
    IF Mapped(st, vcn) THEN st ELSE Decode(st, ntfs_attr_lookup(st.ext, 0, vcn))

\* Extents were decoded: the list is complete when it covers the attribute, which
\* the caller found it does (exact), and is flagged so if it starts with the first.
Complete(st, exact, whole) ==
    IF ~st.ok \/ ~exact THEN Fail(st)
    ELSE IF whole THEN [st EXCEPT !.na.full = TRUE] ELSE st

\* From vcn to the end, but only one extent when some of the list is there:
\* its first element always starts at vcn 0.
ntfs_attr_map_partial_runlist(st, vcn) ==
    LET k0 == ntfs_attr_lookup(st.ext, 0, vcn)
        n  == Len(st.ext)
        Upto[k \in k0..n] ==
            LET prev == IF k = k0 THEN st ELSE Upto[k - 1]
            IN  IF prev.ok THEN Decode(prev, k) ELSE prev
    IN  IF Mapped(st, vcn) THEN st
        ELSE Complete(Upto[IF st.na.rl = <<>> THEN n ELSE k0],
                      st.na.rl = <<>> => st.ext[n].highest + 1 >= st.na.alloc,
                      st.ext[k0].lowest = 0)

ntfs_attr_map_whole_runlist(st) ==
    LET n == Len(st.ext)
        Upto[k \in 0..n] ==
            LET prev == Upto[k - 1]
            IN  IF k = 0 THEN st
                ELSE IF ~prev.ok \/ Mapped(prev, st.ext[k].lowest) THEN prev
                ELSE Decode(prev, k)
    IN  IF st.na.full THEN st
        ELSE Complete(Upto[n], st.ext[n].highest \in {0, st.base.alloc - 1}, TRUE)

\* The sizes and the sparse bit of the first extent.  Where the bit changes the pairs
\* are looked for at another offset (moved) until they are written there.
ntfs_attr_update_meta(st) ==
    LET sparse == ntfs_rl_sparse(st.na.rl)
        comp   == IF st.na.full /\ sparse = 1
                  THEN ntfs_rl_get_compressed_size(st.na.rl) ELSE st.na.comp
    IN  IF sparse = -1 THEN Fail([st EXCEPT !.base.alloc = st.na.alloc])
        ELSE [st EXCEPT !.base.alloc = st.na.alloc,
                        !.base.moved = @ \/ st.base.sparse # (sparse = 1),
                        !.base.sparse = sparse = 1, !.na.sparse = sparse = 1,
                        !.base.comp = comp, !.na.comp = comp]

\* Whether the update may start from vcn: not when the attribute just became
\* sparse, or just ceased to be, for then the first extent changes too.
SparseChange(st, from) ==
    LET rl == st.na.rl
        sparse == ntfs_rl_sparse(IF rl[1].lcn = LCN_RL_NOT_MAPPED THEN Tail(rl) ELSE rl)
        changed == IF st.na.sparse THEN st.na.size = st.na.comp ELSE sparse = 1
    IN  IF st.na.full /\ from = 0 THEN [st |-> st, from |-> from]
        ELSE IF ~st.na.sparse /\ sparse = -1 THEN [st |-> Fail(st), from |-> from]
        ELSE IF changed
        THEN [st |-> ntfs_attr_map_whole_runlist(st), from |-> 0]
        ELSE [st |-> st, from |-> from]

\* The k-th extent, from vcn stop on, gets these pairs.
PutPairs(st, k, stop, built) ==
    [st |-> [st EXCEPT !.base.moved = @ /\ k # 1,
               !.ext = SubSeq(@, 1, k - 1)
               \o <<[lowest |-> stop, highest |-> built.stop - 1, pairs |-> built.pairs]>>
               \o SubSeq(@, k + 1, Len(@))],
     stop |-> built.stop, done |-> built.done, last |-> k]

\* An extent is added only with an MFT record of its own, and the pairs of the only
\* one are not cut before there is an attribute list.
Denied(st, k, size) ==
    \/ st.fault = "record" /\ k > Len(st.ext)
    \/ st.fault = "attrlist" /\ Len(st.ext) = 1 /\ size > Room(k)

\* The k-th extent gets the pairs from vcn stop on that fit it.
FillSized(st, k, stop, size) ==
    IF size <= 0 \/ Denied(st, k, size)
    THEN [st |-> Fail(st), stop |-> stop, done |-> FALSE, last |-> k - 1]
    ELSE PutPairs(st, k, stop, ntfs_mapping_pairs_build(
                    st.na.rl, IF size > Room(k) THEN Room(k) ELSE size, stop))

FillExtent(st, k, stop) ==
    FillSized(st, k, stop, ntfs_get_size_for_mapping_pairs(st.na.rl, stop, Room(k)))

\* The first extent has the sizes of the attribute also where its pairs stay.
SizesInBase(prev) ==
    IF ~prev.st.ok THEN prev
    ELSE [prev EXCEPT !.st.base.alloc = prev.st.na.alloc, !.st.base.comp = prev.st.na.comp]

\* The extents from..to get the pairs that are left; Reached[k] is the state after the k-th.
FillExtents(start, from, to) ==
    LET Reached[k \in (from - 1)..to] ==
            IF k = from - 1 THEN start
            ELSE LET prev == Reached[k - 1]
                 IN  IF prev.done \/ ~prev.st.ok THEN prev
                     ELSE FillExtent(prev.st, k, prev.stop)
    IN  Reached[to]

\* The extents that no pairs are left for are removed.
WithoutRest(c) == IF c.st.ok THEN [c.st EXCEPT !.ext = SubSeq(@, 1, c.last)] ELSE c.st

\* The existing extents from the one holding from on, then new ones.
WriteExtents(st, from) ==
    LET k0    == ntfs_attr_lookup(st.ext, 0, from)
        n     == Len(st.ext)
        stop0 == IF from = 0 THEN 0 ELSE st.ext[k0].lowest
        gone  == from # 0
                 /\ ntfs_rl_vcn_to_lcn(st.na.rl, stop0) \in {LCN_ENOENT, LCN_RL_NOT_MAPPED}
        start == [st |-> IF k0 = 1 THEN ntfs_attr_update_meta(st) ELSE st,
                  stop |-> stop0, done |-> gone, last |-> k0 - 1]
        old   == FillExtents(start, k0, n)
    IN  WithoutRest(FillExtents(IF k0 = 1 THEN old ELSE SizesInBase(old), n + 1, MaxVcns + 2))

Recorded(st) == [st EXCEPT !.torn = ~st.ok]

WriteFrom(c) == IF c.st.ok THEN Recorded(WriteExtents(c.st, c.from)) ELSE c.st

ntfs_attr_update_mapping_pairs(st, from) ==
    IF st.na.rl = <<>> THEN Fail(st) ELSE WriteFrom(SparseChange(st, from))

(***************************************************************************)
(* The operations.                                                         *)
(***************************************************************************)
Free == Clusters \ used

\* Any n free clusters, in any order.
Allocations(n) ==
    {s \in [1..n -> Free] : \A i, j \in 1..n : s[i] = s[j] => i = j}

Hole(n) == [i \in 1..n |-> LCN_HOLE]

\* A failed truncation may leave the size beyond the run list: nothing more is done
\* with the attribute then.
Usable == na.size = na.alloc

\* The call ends in st and the attribute has the mapping m.
Commit(st, m) ==
    /\ ext' = st.ext /\ base' = st.base /\ na' = st.na /\ torn' = st.torn
    /\ map' = m /\ seen' = {m} \cup IF st.torn THEN seen ELSE {}

AppendDone(st) == IF st.ok THEN [st EXCEPT !.na.appending = FALSE] ELSE st

\* The pairs are rewritten from update on, when the list is known that far.
SavePairs(st, update) ==
    IF st.ok /\ (st.na.full \/ st.na.appending)
    THEN AppendDone(ntfs_attr_update_mapping_pairs(st, update)) ELSE st

\* Merge the clusters for the hole at vcn, then rewrite the pairs from update on.
Instantiate(st, vcn, lcns, update) ==
    SavePairs(WithRl(IF st.na.sparse THEN [st EXCEPT !.na.comp = @ + Len(lcns)] ELSE st,
                     ntfs_runlists_merge(st.na.rl, NewRuns(vcn, lcns))),
              update)

\* ntfs_attr_pread at vcn.
Read(vcn) ==
    /\ "read" \in ops
    /\ Commit(ntfs_attr_map_runlist(St("none"), vcn), map)
    /\ UNCHANGED used

\* What is mapped before the hole at a vcn is filled.
MapForHole(st) ==
    IF ~st.ok \/ st.na.appending THEN st ELSE ntfs_attr_map_whole_runlist(st)

\* ntfs_attr_pwrite of initialized data that has a hole at vcn: the clusters stay
\* when the pairs cannot be written.
WriteHole(vcn, n, fault) ==
    /\ "hole" \in ops
    /\ \A v \in vcn..(vcn + n - 1) : v < Len(map) /\ map[v + 1] = LCN_HOLE
    /\ \E lcns \in Allocations(n), ready \in {MapForHole(ntfs_attr_map_runlist(St(fault), vcn))} :
         /\ Commit(IF ready.ok THEN Instantiate(ready, vcn, lcns, vcn) ELSE ready,
                   [v \in 1..Len(map) |-> IF ready.ok /\ v \in (vcn + 1)..(vcn + n)
                                          THEN lcns[v - vcn] ELSE map[v]])
         /\ used' = IF ready.ok THEN used \cup {lcns[i] : i \in 1..n} ELSE used

\* ntfs_non_resident_attr_expand_i up to the merge of the hole it adds.
MergeHole(st, n) ==
    LET old == st.na.alloc
    IN  IF ~st.ok THEN st
        ELSE WithRl([st EXCEPT !.na.alloc = old + n],
                    ntfs_runlists_merge(st.na.rl, <<Elem(old, LCN_HOLE, n),
                                                    Elem(old + n, LCN_ENOENT, 0)>>))

AddHole(st, n) == MergeHole(ntfs_attr_map_partial_runlist(st, st.na.alloc - 1), n)

Resized(st) == [st EXCEPT !.na.size = st.na.alloc, !.base.size = st.na.alloc]

\* Give up the end of the attribute and rewrite the pairs.
ResizedIfOk(st) == IF st.ok THEN Resized(st) ELSE st

CutAt(st, n) ==
    IF ~st.ok THEN st
    ELSE ResizedIfOk(ntfs_attr_update_mapping_pairs(
           WithRl([st EXCEPT !.na.alloc = n], ntfs_rl_truncate(st.na.rl, n)), 0))

ntfs_non_resident_attr_shrink(st, n) == CutAt(ntfs_attr_map_whole_runlist(st), n)

\* The end of the attribute is mapped once the hole is there; when it could not be
\* added the open attribute is as it was.
MapToEnd(st, vcn) ==
    IF st.ok THEN ntfs_attr_map_partial_runlist(Resized(st), vcn)
    ELSE [st EXCEPT !.na = [na EXCEPT !.appending = TRUE]]

\* ntfs_attr_pwrite of n clusters, gap clusters beyond the end: the attribute
\* is expanded by a hole, without rewriting the pairs, and the hole filled; it stays
\* longer when the pairs cannot be written.
WriteAtEnd(gap, n, fault) ==
    /\ "append" \in ops
    /\ Len(map) + gap + n <= MaxVcns
    /\ LET vcn == Len(map) + gap
       IN  \E ready \in {MapToEnd(AddHole([St(fault) EXCEPT !.na.appending = TRUE], gap + n),
                                  vcn - 1)} :
             \/ \E lcns \in Allocations(n) :
                  /\ Commit(IF ready.ok THEN Instantiate(ready, vcn, lcns, vcn - 1) ELSE ready,
                            IF ready.ok THEN map \o Hole(gap) \o lcns ELSE map)
                  /\ used' = IF ready.ok THEN used \cup {lcns[i] : i \in 1..n} ELSE used
             \/ \* no space: the pairs are written and the old size restored
                /\ Allocations(n) = {}
                /\ ready.ok
                /\ \E st \in {ntfs_non_resident_attr_shrink(
                              [ntfs_attr_update_mapping_pairs(ready, 0) EXCEPT !.ok = TRUE],
                              Len(map))} :
                     Commit(st, map \o Hole(st.na.alloc - Len(map)))
                /\ UNCHANGED used

\* The pairs of the added hole are written; when they cannot be, the hole is cut off
\* again at the old size and the pairs are written anew.
Saved(st, old) ==
    IF st.ok THEN Resized(st)
    ELSE Fail(ntfs_attr_update_mapping_pairs(
                [st EXCEPT !.ok = TRUE, !.na.alloc = old,
                           !.na.rl = ntfs_rl_truncate(@, old)], 0))

ExpandTo(st, old) ==
    IF st.ok THEN Saved(ntfs_attr_update_mapping_pairs(st, old - 1), old)
    ELSE [st EXCEPT !.na.alloc = old]

\* ntfs_attr_truncate to a larger size: a hole is added.
Expand(n, fault) ==
    /\ "expand" \in ops
    /\ Len(map) + n <= MaxVcns
    /\ \E st \in {ExpandTo(AddHole([St(fault) EXCEPT !.na.appending = TRUE], n), Len(map))} :
         Commit([st EXCEPT !.na.appending = FALSE], IF st.ok THEN map \o Hole(n) ELSE map)
    /\ UNCHANGED used

\* ntfs_attr_truncate to a smaller, non-zero size: the clusters are freed first.
Shrink(n, fault) ==
    /\ "shrink" \in ops
    /\ n \in 1..(Len(map) - 1)
    /\ \E st \in {ntfs_non_resident_attr_shrink(St(fault), n)} :
         /\ Commit([st EXCEPT !.na.appending = FALSE], SubSeq(map, 1, st.na.alloc))
         /\ used' = used \ {map[v] : v \in (st.na.alloc + 1)..Len(map)}

Opened(b) == [rl |-> <<>>, full |-> FALSE, appending |-> FALSE, alloc |-> b.alloc,
              size |-> b.size, sparse |-> b.sparse, comp |-> b.comp]

\* The attribute is closed and opened again, unless its pairs are half written.
Reopen ==
    /\ ~torn /\ na # Opened(base) /\ na' = Opened(base)
    /\ UNCHANGED <<ext, base, used, map, torn, seen>>

\* One cluster, in one extent.
Init ==
    /\ \E c \in Clusters :
         /\ map = <<c>>
         /\ used = {c}
         /\ ext = <<[lowest |-> 0, highest |-> 0,
                     pairs |-> <<Pair(1, ntfs_write_significant_bytes(c))>>]>>
    /\ base = [alloc |-> 1, size |-> 1, sparse |-> FALSE, comp |-> 0, moved |-> FALSE]
    /\ torn = FALSE /\ seen = {map}
    /\ na = Opened(base)
    /\ ops \in Environments

Next ==
    /\ Usable
    /\ \/ \E v \in 0..(Len(map) - 1) : Read(v)
       \/ \E fault \in Faults :
            \/ \E v \in 0..(Len(map) - 1), n \in 1..2 : WriteHole(v, n, fault)
            \/ \E gap \in 0..1, n \in 1..2 : WriteAtEnd(gap, n, fault)
            \/ \E n \in 1..2 : Expand(n, fault)
            \/ \E n \in 1..MaxVcns : Shrink(n, fault)
       \/ Reopen
    /\ UNCHANGED ops

Spec == Init /\ [][Next]_vars

(***************************************************************************)
(* Properties.                                                             *)
(***************************************************************************)
\* The run list of the open attribute answers for every vcn the lcn it was
\* given, or that it is not mapped yet, and never the latter when the attribute
\* is flagged as fully mapped; its elements follow each other without a gap.
RunlistExact ==
    /\ \A v \in 0..(Len(map) - 1) :
         LET lcn == ntfs_rl_vcn_to_lcn(na.rl, v)
         IN  lcn = map[v + 1] \/ (lcn = LCN_RL_NOT_MAPPED /\ ~na.full)
    /\ ntfs_rl_vcn_to_lcn(na.rl, Len(map)) < LCN_HOLE
    /\ \A i \in 1..(Len(na.rl) - 1) : na.rl[i + 1].vcn = End(na.rl[i])

\* The run list that a fresh reader has once it looked for vcn.
ReaderAt(vcn) == ntfs_attr_map_runlist([St("none") EXCEPT !.na = Opened(base)], vcn)

LcnsSeen(v) == {m[v + 1] : m \in {x \in seen : v < Len(x)}}

\* A reader of the MFT records finds the same mapping: mapping the whole run
\* list of a freshly opened attribute succeeds and answers the lcn of every vcn,
\* and the sparse bit and the compressed size of the first extent are those of
\* its runs.  The clusters marked in the bitmap are those of the attribute.  When
\* an update of the pairs failed, a reader finds the lcn of a vcn, one it had since
\* the pairs were last complete, or an error.
ExtentsExact ==
    LET real == {v \in 1..Len(map) : map[v] # LCN_HOLE}
    IN  /\ used = {map[v] : v \in real}
        /\ ~torn =>
             /\ base.alloc = Len(map) /\ base.size = Len(map)
             /\ \E st \in {ntfs_attr_map_whole_runlist([St("none") EXCEPT !.na = Opened(base)])} :
                   /\ st.ok
                   /\ \A v \in 0..(Len(map) - 1) :
                         ntfs_rl_vcn_to_lcn(st.na.rl, v) = map[v + 1]
                   /\ ntfs_rl_vcn_to_lcn(st.na.rl, Len(map)) = LCN_ENOENT
             /\ base.sparse = (Cardinality(real) # Len(map))
             /\ base.sparse => base.comp = Cardinality(real)
        /\ torn /\ ~base.moved => \A v \in 0..(Len(map) - 1) :
             \E st \in {ReaderAt(v)} :
                st.ok => ntfs_rl_vcn_to_lcn(st.na.rl, v)
                         \in LcnsSeen(v) \cup {LCN_ENOENT, LCN_RL_NOT_MAPPED}

=============================================================================
