----------------------------- MODULE Compressed -----------------------------
(***************************************************************************)
(* Writing a compressed attribute (compress.c, and split_compressed_hole,  *)
(* borrow_from_hole, stuff_hole and ntfs_attr_pclose of attrib.c).  The    *)
(* run list says how each compression block is stored: all its clusters    *)
(* allocated (raw), none (zeroes), or some followed by a hole              *)
(* (compressed).  A write decompresses the block it falls into into        *)
(* clusters borrowed from the hole, and frees the clusters that            *)
(* compression saves, by editing the elements of the run list in place.    *)
(*                                                                         *)
(* Positions are in clusters.  Contents are abstracted to the number of    *)
(* clusters a block compresses to: 0 for zeroes, Raw when none is saved.   *)
(* The array of the run list keeps stale elements past its end marker.     *)
(***************************************************************************)
EXTENDS Runlist

CONSTANTS CB,        \* clusters in a compression block, a power of two
          Blocks,    \* bound on the number of blocks
          Orders,    \* orders in which the allocator takes the clusters
          Writes     \* the unusual writes allowed: "zeroes" over existing data,
                     \* "across" a block that ends at the end of the file

VARIABLES na,     \* the open attribute: run list, sizes, reserved entries
          used,   \* clusters marked in the bitmap
          kind,   \* history: how each block was last stored
          failed  \* whether the last call reported an error

vars == <<na, used, kind, failed>>

Raw   == -1
Wrong == -2   \* data stored in one way was read in another

Cb(v) == v - (v % CB)
NextCb(v) == Cb(v) + CB
LeastOf(a, b) == IF a < b THEN a ELSE b

AllClusters == {Orders[o][i] : o \in DOMAIN Orders, i \in DOMAIN Orders[1]}

State(o) == [ok |-> TRUE, full |-> FALSE, rl |-> na.rl, init |-> na.init, size |-> na.size,
             alloc |-> na.alloc, comp |-> na.comp, unused |-> na.unused,
             used |-> used, kind |-> kind, order |-> Orders[o]]

Fail(st) == [st EXCEPT !.ok = FALSE]

\* The clusters of the elements from i to the end marker.
ClustersFrom(rl, i) ==
    LET end == MinOf({j \in i..Len(rl) : rl[j].length = 0})
    IN  UNION {rl[j].lcn..(rl[j].lcn + rl[j].length - 1) :
                 j \in {k \in i..(end - 1) : rl[k].lcn >= 0}}

\* n new elements after the i-th, which is e now.
Inserted(rl, i, e, new) == SubSeq(rl, 1, i - 1) \o <<e>> \o new \o Drop(rl, i)

(***************************************************************************)
(* Allocation in a hole.                                                   *)
(***************************************************************************)
\* The clusters lcns fill the hole, whose element started at vcn, and the list is rl
\* now: the answer is the element that holds the first of them.
FilledBy(st, i, vcn, lcns, rl) ==
    LET j  == IndexOf(rl, vcn)
        at == IF rl[j].lcn < 0 THEN j + 1 ELSE j
    IN  IF rl = <<>> \/ rl[at].lcn < 0 THEN [st |-> Fail(st), at |-> i]
        ELSE [st |-> [st EXCEPT !.rl = rl, !.unused = 2, !.comp = @ + Len(lcns),
                                !.used = @ \cup {lcns[k] : k \in 1..Len(lcns)}],
              at |-> at]

FillFrom(st, i, start, need) ==
    LET e    == st.rl[i]
        free == SelectSeq(st.order, LAMBDA c : c \notin st.used)
        lcns == SubSeq(free, 1, need)
    IN  IF need > e.length THEN [st |-> Fail(st), at |-> i]
        ELSE IF need > Len(free) THEN [st |-> [Fail(st) EXCEPT !.full = TRUE], at |-> i]
        ELSE FilledBy(st, i, e.vcn, lcns,
                      ntfs_runlists_merge(Seen(st.rl), NewRuns(start, lcns)))

\* ntfs_attr_fill_hole: clusters for the part of the hole at element i that is
\* in the block of pos.
ntfs_attr_fill_hole(st, i, pos, count) ==
    LET e     == st.rl[i]
        some  == LeastOf(count, End(e) - pos)
        start == IF some >= CB THEN pos ELSE IF Cb(pos) <= e.vcn THEN e.vcn ELSE Cb(pos)
    IN  FillFrom(st, i, start, IF some >= CB THEN some ELSE NextCb(start) - start)

\* The hole at element i is cut so that the block written to is an element of its
\* own; answers the clusters of compressed data in that block.
split_compressed_hole(st, i, pos, count) ==
    LET e     == st.rl[i]
        begin == pos - e.vcn
        end   == NextCb(pos + count - 1) - e.vcn
        part  == CB - (e.length % CB)
        cp    == IF begin + part >= CB THEN CB ELSE part
        H(v, n) == Elem(v, LCN_HOLE, n)
        Cut(first, new, take, k) ==
            [st |-> [st EXCEPT !.rl = Inserted(@, i, first, new), !.unused = 2 - k],
             at |-> IF take THEN i + 1 ELSE i, cp |-> cp]
    IN  IF e.length <= CB THEN [st |-> st, at |-> i, cp |-> CB]
        ELSE IF end < e.length /\ end > CB
        THEN Cut(H(e.vcn, end - CB),
                 <<H(e.vcn + end - CB, CB), H(e.vcn + end, e.length - end)>>, TRUE, 2)
        ELSE IF end < e.length
        THEN Cut(H(e.vcn, end), <<H(e.vcn + end, e.length - end)>>, begin >= end, 1)
        ELSE Cut(H(e.vcn, e.length - CB), <<H(End(e) - CB, CB)>>,
                 pos >= End(e) - CB, IF st.rl[i + 1].length = 0 THEN 0 ELSE 1)

\* The first element from i on that is not data of the blocks before end.
HoleFrom(rl, i, end) ==
    MinOf({j \in i..Len(rl) : rl[j].length = 0 \/ rl[j].lcn < 0 \/ rl[j].vcn >= end})

\* The hole was filled: the writing goes on in the element of pos.
Borrowed(got, pos, cp) ==
    [st |-> got.st, cp |-> cp,
     at |-> MaxOf({j \in 1..got.at : got.st.rl[j].vcn <= pos})]

\* Mutant: only a block wholly in the hole is told from compressed data.
borrow_from_hole_AsRaw(st, i, pos, count) ==
    LET end == NextCb(pos + count - 1)
        z   == HoleFrom(st.rl, i, end)
        e   == st.rl[z]
    IN  IF e.vcn < end /\ e.lcn = LCN_HOLE /\ End(e) <= end
        THEN Borrowed(ntfs_attr_fill_hole(st, z, e.vcn, e.length), pos, CB - e.length)
        ELSE [st |-> [st EXCEPT !.unused = 2], cp |-> 0, at |-> i]

\* The block at pos is data from element i on: when a hole follows inside the
\* block, clusters are allocated there, up to the end of the block.
borrow_from_hole(st, i, pos, count) ==
    LET end == NextCb(pos + count - 1)
        z   == HoleFrom(st.rl, i, end)
        e   == st.rl[z]
        len == LeastOf(e.length, end - e.vcn)
        cut == IF End(e) > end
               THEN [st EXCEPT !.unused = 0,
                       !.rl = Inserted(@, z, Elem(e.vcn, LCN_HOLE, len),
                                       <<Elem(end, LCN_HOLE, End(e) - end)>>)]
               ELSE st
    IN  IF e.vcn < end /\ e.lcn = LCN_HOLE
        THEN Borrowed(ntfs_attr_fill_hole(cut, z, e.vcn, len), pos, CB - len)
        ELSE [st |-> [st EXCEPT !.unused = 2], cp |-> 0, at |-> i]

(***************************************************************************)
(* Giving back the clusters that compression saved.                        *)
(***************************************************************************)
\* What ntfs_compress_overwr_free frees: own clusters of element c after the first
\* uc, the whole of the elements from f0 up to next, and rest clusters of that one.
ToFree(rl, c, uc, freecnt) ==
    LET e     == rl[c]
        merge == uc = 0 /\ e.vcn # 0 /\ rl[c - 1].lcn = LCN_HOLE
        first == ~merge /\ (uc # 0 \/ e.vcn = 0)
        own   == IF first THEN LeastOf(freecnt, e.length - uc) ELSE 0
        f0    == IF merge THEN c ELSE c + 1
        end   == MinOf({j \in f0..Len(rl) : rl[j].length = 0})
        Before[f \in f0..end] == IF f = f0 THEN own ELSE Before[f - 1] + rl[f - 1].length
        whole == Cardinality({f \in f0..(end - 1) : Before[f] + rl[f].length <= freecnt})
        next  == f0 + whole
    IN  [merge |-> merge, first |-> first, own |-> own, f0 |-> f0, whole |-> whole,
         next |-> next, rest |-> IF next = end THEN 0 ELSE freecnt - Before[next],
         n |-> IF next = end THEN Before[end] ELSE freecnt]

\* The elements cut so, before those freed are put together to one hole.
CutElements(rl, c, uc, t) ==
    [j \in 1..Len(rl) |->
       IF j = c /\ ~t.merge THEN [rl[c] EXCEPT !.length = uc]
       ELSE IF j \in t.f0..(t.next - 1) /\ t.first THEN [rl[j] EXCEPT !.lcn = LCN_HOLE]
       ELSE IF j = t.next /\ t.rest > 0
       THEN Elem(rl[j].vcn + t.rest, rl[j].lcn + t.rest, rl[j].length - t.rest)
       ELSE rl[j]]

\* The clusters freed.
FreedClusters(rl, c, uc, t) ==
    ((rl[c].lcn + uc)..(rl[c].lcn + uc + t.own - 1))
    \cup UNION {rl[f].lcn..(rl[f].lcn + rl[f].length - 1) : f \in t.f0..(t.next - 1)}
    \cup (IF t.rest > 0 THEN rl[t.next].lcn..(rl[t.next].lcn + t.rest - 1) ELSE {})

\* The hole made of what element e = rl[c] lost, and of the elements after it that
\* were freed, joined with a hole that follows; cutrl is the list cut.
NewHole(cutrl, c, e, uc, freecnt, t) ==
    LET flen   == e.length - uc
        vcn    == e.vcn + uc
        three  == flen > freecnt
        self   == uc = 0 /\ flen > 0
        holes  == t.whole + One(self)
        h      == IF self THEN c ELSE c + 1
        joined(j) == cutrl[j].lcn = LCN_HOLE
        Hole(len) == Elem(vcn, LCN_HOLE, len)
        tail   == Elem(vcn + freecnt, e.lcn + uc + freecnt, flen - freecnt)
        none   == IF joined(h)
                  THEN IF three
                       THEN <<Hole(freecnt), tail, [cutrl[h] EXCEPT !.vcn = End(tail)]>>
                            \o Drop(cutrl, h)
                       ELSE <<Hole(cutrl[h].length + flen)>> \o Drop(cutrl, h)
                  ELSE <<Hole(freecnt)>> \o (IF three THEN <<tail>> ELSE <<>>)
                       \o Drop(cutrl, c)
        one    == IF joined(h + 1)
                  THEN <<Elem(vcn, cutrl[h].lcn, freecnt + cutrl[h + 1].length)>>
                       \o Drop(cutrl, h + 1)
                  ELSE <<Elem(vcn, cutrl[h].lcn, freecnt)>> \o Drop(cutrl, h)
        many   == IF joined(h + holes)
                  THEN <<Hole(freecnt + cutrl[h + holes].length)>> \o Drop(cutrl, h + holes)
                  ELSE <<Hole(freecnt)>> \o Drop(cutrl, h + holes - 1)
    IN  SubSeq(cutrl, 1, h - 1)
        \o (IF holes = 0 THEN none ELSE IF holes = 1 THEN one ELSE many)

\* The hole before grows by what was freed, and by a hole that follows.
GrownHole(cutrl, t) ==
    SubSeq(cutrl, 1, t.f0 - 2)
    \o IF cutrl[t.next].length # 0 /\ cutrl[t.next].lcn = LCN_HOLE
       THEN <<[cutrl[t.f0 - 1] EXCEPT !.length = @ + t.n + cutrl[t.next].length]>>
            \o Drop(cutrl, t.next)
       ELSE <<[cutrl[t.f0 - 1] EXCEPT !.length = @ + t.n]>> \o Drop(cutrl, t.next - 1)

OverwriteFree(st, c, uc, freecnt, t) ==
    [st EXCEPT !.rl = InArray(IF t.first
                              THEN NewHole(CutElements(@, c, uc, t), c, @[c], uc, freecnt, t)
                              ELSE GrownHole(CutElements(@, c, uc, t), t), @),
               !.used = @ \ FreedClusters(st.rl, c, uc, t), !.comp = @ - t.n]

\* The clusters of the block after the first uc of element c are freed; the file
\* goes on after the block.  The element itself gives the first ones unless it
\* follows a hole it is merged with, the next elements give the rest.
ntfs_compress_overwr_free(st, c, uc, freecnt) ==
    OverwriteFree(st, c, uc, freecnt, ToFree(st.rl, c, uc, freecnt))

\* The same at the end of the file: what follows the clusters kept becomes a hole
\* up to the end of the block, merged with a hole before.
AppendFree(st, c, uc, freecnt) ==
    LET rl    == st.rl
        e     == rl[c]
        vcn   == e.vcn + uc
        merge == uc = 0 /\ e.vcn # 0 /\ rl[c - 1].lcn = LCN_HOLE
        cut   == [rl EXCEPT ![c] = Elem(vcn, e.lcn + uc, e.length - uc)]
        kept  == SubSeq(rl, 1, c - 1) \o (IF uc = 0 THEN <<>> ELSE <<[e EXCEPT !.length = uc]>>)
        ended == <<Elem(vcn + freecnt, LCN_ENOENT, 0)>>
        new   == IF merge THEN Absorb(kept, c - 1, Elem(vcn, LCN_HOLE, freecnt)) \o ended
                 ELSE kept \o <<Elem(vcn, LCN_HOLE, freecnt)>> \o ended
        gone  == IF uc = e.length THEN ClustersFrom(rl, c + 1) ELSE ClustersFrom(cut, c)
    IN  [st EXCEPT !.rl = InArray(new, rl), !.used = @ \ gone, !.comp = @ - freecnt]

\* Of the clusters of a block that starts in element b, the first ones up to
\* offset upto are kept and those up to reserved freed.
ntfs_compress_free(st, b, upto, reserved, appending) ==
    LET rl  == st.rl
        Left[j \in b..Len(rl)] == IF j = b THEN upto ELSE Left[j - 1] - rl[j - 1].length
        c   == MinOf({j \in b..Len(rl) : rl[j].length = 0 \/ rl[j].length >= Left[j]})
        uc  == Left[c]
        n   == reserved - upto
    IN  IF rl[c].length = 0 \/ (rl[c].vcn + uc + n) % CB # 0 THEN Fail(st)
        ELSE IF appending THEN AppendFree(st, c, uc, n)
        ELSE ntfs_compress_overwr_free(st, c, uc, n)

\* The check the code makes before and after a write, from the beginning of the
\* block of element w on: elements adjacent, holes up to the end of a block.
valid_compressed_run(rl, w, fullcheck) ==
    LET x   == MaxOf({j \in 1..w : rl[j].vcn % CB = 0})
        end == MinOf({j \in x..Len(rl) : j = Len(rl) \/ rl[j].length = 0})
    IN  \A j \in x..(end - 1) :
          /\ End(rl[j]) = rl[j + 1].vcn
          /\ rl[j].lcn = LCN_HOLE =>
               End(rl[j]) % CB = 0 /\ ~(fullcheck /\ rl[j + 1].lcn = LCN_HOLE)

(***************************************************************************)
(* Writing within a block.  r is what the block compresses to.             *)
(***************************************************************************)
\* What the block of pos is stored as after its first cp clusters were taken for
\* compressed data (all of them for a hole, none for raw data).
StoredAs(st, pos, cp, new, fresh) ==
    LET old == st.kind[pos \div CB]
        right == \/ cp = 0 /\ (old = Raw \/ fresh)
                 \/ cp = CB /\ old = 0
                 \/ cp \in 1..(CB - 1) /\ old \in 1..cp
    IN  [st EXCEPT !.kind[pos \div CB] = IF right THEN new ELSE Wrong]

\* The block that starts in element b is written, compressed when it may be and
\* a cluster is saved.
ntfs_flush(st, b, roffs, compress, r, append) ==
    IF compress /\ r # Raw THEN ntfs_compress_free(st, b, roffs + r, roffs + CB, append)
    ELSE st

\* The answer of a write, refused when something was wrong before or is now.
CheckedRun(put, w, refused) ==
    IF refused \/ ~put.ok \/ ~valid_compressed_run(put.rl, w, TRUE) THEN Fail(put) ELSE put

ntfs_compressed_pwrite(st, w, pos, n, cp, r) ==
    LET start    == Cb(pos)
        compress == pos + n >= NextCb(pos)
        append   == pos + n >= st.init
        b        == MaxOf({j \in 1..w : st.rl[j].vcn <= start})
        jump     == (compress \/ cp > 0) /\ \E j \in (b + 1)..w : st.rl[j].lcn = LCN_HOLE
        roffs    == start - st.rl[b].vcn
        stored   == StoredAs(st, pos, cp, IF compress THEN r ELSE Raw, append /\ pos = start)
        beyond   == cp = 0 /\ (~compress \/ r = Raw) /\ pos + n > End(st.rl[w])
    IN  CheckedRun(ntfs_flush(stored, b, roffs, compress, r, append), w,
                   ~valid_compressed_run(st.rl, w, FALSE) \/ st.unused < 2 \/ jump \/ beyond)

\* One run of the loop: the clusters are there, got says in which element.
WriteRun(prev, got, end, r) ==
    LET rl == got.st.rl
        w  == MinOf({j \in got.at..Len(rl) : rl[j].length = 0 \/ End(rl[j]) > prev.pos})
        n  == LeastOf(end, End(rl[w])) - prev.pos
    IN  IF ~got.st.ok \/ n <= 0 THEN [prev EXCEPT !.st = Fail(got.st)]
        ELSE [st |-> ntfs_compressed_pwrite(got.st, w, prev.pos, n, prev.cp, r),
              at |-> w + 1, pos |-> prev.pos + n, cp |-> 0]

WriteTurn(prev, end, r) ==
    LET e == prev.st.rl[prev.at]
    IN  IF ~prev.st.ok \/ prev.pos = end THEN prev
        ELSE IF e.length = 0 \/ e.lcn < LCN_HOLE THEN [prev EXCEPT !.st = Fail(@)]
        ELSE WriteRun(prev,
               IF e.lcn < 0
               THEN ntfs_attr_fill_hole(prev.st, prev.at, prev.pos,
                                        NextCb(end - 1) - prev.pos)
               ELSE [st |-> prev.st, at |-> prev.at],
               end, r)

\* The loop over the runs of one block, was says how it starts.
Scatter(was, pos, count, r) ==
    LET Turn[k \in 0..CB] ==
            IF k = 0 THEN [st |-> was.st, at |-> was.at, pos |-> pos, cp |-> was.cp]
            ELSE WriteTurn(Turn[k - 1], pos + count, r)
    IN  IF was.st.ok THEN [Turn[CB].st EXCEPT !.rl = Seen(@)] ELSE was.st

\* A hole up to size is added at the end.
Expanded(st, size) ==
    IF size <= st.alloc THEN [st EXCEPT !.size = size]
    ELSE [st EXCEPT !.size = size, !.alloc = size,
            !.rl = ntfs_runlists_merge(Seen(@), <<Elem(st.alloc, LCN_HOLE, size - st.alloc),
                                                  Elem(size, LCN_ENOENT, 0)>>)]

\* How the block of pos is stored, with the clusters it is decompressed into.
Prepared(st, pos, n) ==
    LET i == IndexOf(st.rl, pos)
        e == st.rl[i]
    IN  IF e.lcn # LCN_HOLE THEN borrow_from_hole(st, i, pos, n)
        ELSE IF e.length < CB THEN [st |-> st, at |-> i, cp |-> CB - e.length]
        ELSE split_compressed_hole(st, i, pos, n)

WithInit(st, end) ==
    IF end > st.init THEN [st EXCEPT !.init = end, !.size = end, !.unused = 2] ELSE st

\* ntfs_attr_pwrite inside the block of pos, not beyond the initialized size.
ntfs_attr_pwrite(st, pos, count, r) ==
    LET n == LeastOf(count, NextCb(pos) - pos)
    IN  IF ~st.ok THEN st
        ELSE Scatter(
               Prepared(WithInit(IF pos + count > st.size /\ NextCb(st.init) > st.size
                                 THEN Expanded(st, NextCb(st.init)) ELSE st,
                                 pos + n), pos, n),
               pos, n, r)

\* A hole up to the block of pos, and zeroes up to pos, the last of them in the
\* block of pos.
HoleUpTo(st, pos, last, r) ==
    LET hole == IF st.init + last < pos THEN Expanded(st, pos - last) ELSE st
        set  == [hole EXCEPT !.init = pos - last, !.size = pos - last]
    IN  IF ~st.ok THEN st
        ELSE IF last = 0 THEN set ELSE ntfs_attr_pwrite(set, pos - last, last, r)

\* Zeroes from the initialized size to the end of its block, a hole up to the block
\* of pos, and zeroes up to pos.
stuff_hole(st, pos, r) ==
    LET same  == Cb(pos) = Cb(st.init)
        first == IF same THEN pos - st.init ELSE NextCb(st.init - 1) - st.init
        last  == IF same THEN 0 ELSE pos % CB
    IN  HoleUpTo(IF first = 0 THEN st ELSE ntfs_attr_pwrite(st, st.init, first, r),
                 pos, last, r)

(***************************************************************************)
(* Reading a block.                                                        *)
(***************************************************************************)
\* Whether a hole or the end of the list lies inside the block after vcn.
ntfs_is_cb_compressed(rl, vcn) ==
    \E j \in (IndexOf(rl, vcn) + 1)..Len(rl) :
       rl[j].vcn < vcn + CB /\ (rl[j].length = 0 \/ rl[j].lcn < 0)

\* What the block at vcn is taken for: zeroes, raw data, or the compressed data of
\* the clusters before the hole.
ntfs_compressed_attr_pread(rl, vcn) ==
    IF ntfs_rl_vcn_to_lcn(rl, vcn) = LCN_HOLE THEN 0
    ELSE IF ~ntfs_is_cb_compressed(rl, vcn) THEN Raw
    ELSE MinOf({n \in 1..CB : n = CB \/ ntfs_rl_vcn_to_lcn(rl, vcn + n) < 0})

(***************************************************************************)
(* The operations.                                                         *)
(***************************************************************************)
\* A call that finds the volume full is not followed further.
Commit(st) ==
    /\ ~st.full
    /\ na' = [rl |-> st.rl, init |-> st.init, size |-> st.size, alloc |-> st.alloc,
              comp |-> st.comp, unused |-> st.unused]
    /\ used' = st.used
    /\ kind' = st.kind
    /\ failed' = ~st.ok

Results == {Raw} \cup 0..(CB - 1)

Write(pos, count, r, o) ==
    /\ pos + count <= CB * Blocks
    /\ r = 0 /\ LeastOf(pos + count, NextCb(pos)) < na.init => "zeroes" \in Writes
    /\ pos < na.init /\ na.init % CB = 0 /\ pos + count > na.init => "across" \in Writes
    /\ \E st \in {ntfs_attr_pwrite(
                    IF pos > na.init THEN stuff_hole(State(o), pos, r) ELSE State(o),
                    pos, count, r)} : Commit(st)

\* The last block, raw up to the initialized size, is compressed.
ntfs_compressed_close(st, r) ==
    LET start == Cb(st.init)
        b     == MaxOf({j \in 1..Len(st.rl) : st.rl[j].vcn <= start})
        roffs == start - st.rl[b].vcn
    IN  IF start = st.init \/ r = Raw THEN st
        ELSE CheckedRun(ntfs_compress_free(StoredAs(st, start, 0, r, FALSE), b,
                                           roffs + r, roffs + CB, TRUE),
                        IndexOf(st.rl, st.init), FALSE)

\* ntfs_attr_pclose compresses the last block unless a hole follows it inside it.
ntfs_attr_pclose(r, o) ==
    LET st  == [State(o) EXCEPT !.unused = 2]
        i   == IndexOf(st.rl, st.init - 1)
        x   == MinOf({j \in (i + 1)..Len(st.rl) : st.rl[j].lcn < 0})
        raw == st.rl[i].lcn >= 0 /\ st.rl[x].length % CB = 0
    IN  \E end \in {IF raw THEN ntfs_compressed_close(st, r) ELSE st} :
           Commit([end EXCEPT !.rl = IF end.ok THEN Seen(@) ELSE @])

\* ntfs_attr_truncate to a smaller size keeps whole blocks.
Shrink(size) ==
    /\ size \in 1..(na.size - 1)
    /\ LET st   == State(1)
           keep == NextCb(size - 1)
           rl   == ntfs_rl_truncate(st.rl, keep)
           gone == used \ ClustersFrom(rl, 1)
           cut  == IF keep = st.alloc THEN st
                   ELSE [st EXCEPT !.rl = rl, !.alloc = keep, !.ok = rl # <<>>,
                           !.used = @ \ gone, !.comp = @ - Cardinality(gone),
                           !.kind = [k \in DOMAIN kind |-> IF k * CB < keep THEN @[k] ELSE 0]]
       IN  Commit([cut EXCEPT !.size = size, !.init = LeastOf(@, size)])

\* A small value has just been moved out of the MFT record into one raw block.
Init ==
    /\ \E o \in DOMAIN Orders :
         LET lcns == SubSeq(Orders[o], 1, CB)
             runs == NewRuns(0, lcns)
         IN  /\ na = [rl |-> [runs EXCEPT ![Len(runs)].lcn = LCN_ENOENT], init |-> 1,
                      size |-> 1, alloc |-> CB, comp |-> CB, unused |-> 0]
             /\ used = {lcns[i] : i \in 1..CB}
    /\ kind = [k \in 0..(Blocks - 1) |-> IF k = 0 THEN Raw ELSE 0]
    /\ failed = FALSE

Next ==
    /\ ~failed
    /\ \E o \in DOMAIN Orders :
         \/ \E pos \in 0..(CB * Blocks - 1), count \in 1..CB, r \in Results :
              Write(pos, count, r, o)
         \/ \E r \in Results : ntfs_attr_pclose(r, o)
         \/ \E size \in 1..(CB * Blocks) : Shrink(size)

Spec == Init /\ [][Next]_vars

(***************************************************************************)
(* Properties.                                                             *)
(***************************************************************************)
\* After every write, close and truncation ntfs_compressed_attr_pread takes each
\* block for what was stored in it: raw blocks have all their clusters, zeroes
\* none, compressed ones as many as they need and then only a hole; and no block
\* was read, to be completed, as something else than it was.
BlocksAsStored ==
    \A k \in 0..(na.alloc \div CB - 1) :
       /\ kind[k] # Wrong
       /\ ntfs_compressed_attr_pread(na.rl, k * CB) = kind[k]
       /\ kind[k] # Raw => \A v \in (k * CB + kind[k])..(k * CB + CB - 1) :
                             ntfs_rl_vcn_to_lcn(na.rl, v) = LCN_HOLE

\* The clusters marked in the bitmap are those of the run list, each of them once,
\* and compressed_size counts them; the elements follow each other and end at the
\* allocated size.
BlocksAccounted ==
    LET real == {v \in 0..(na.alloc - 1) : ntfs_rl_vcn_to_lcn(na.rl, v) >= 0}
    IN  /\ used = {ntfs_rl_vcn_to_lcn(na.rl, v) : v \in real}
        /\ Cardinality(used) = Cardinality(real)
        /\ na.comp = Cardinality(used)
        /\ \A i \in 1..(Len(na.rl) - 1) : na.rl[i + 1].vcn = End(na.rl[i])
        /\ na.rl[Len(na.rl)] = Elem(na.alloc, LCN_ENOENT, 0)

\* No write or close is refused while the volume has room: the elements reserved
\* for the holes suffice and the checks of valid_compressed_run pass.
WritesAccepted == ~failed

=============================================================================
