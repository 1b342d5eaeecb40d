------------------------------ MODULE AttrData ------------------------------
(***************************************************************************)
(* Reading, writing and resizing an open, unnamed, uncompressed data       *)
(* attribute (attrib.c): resident in the MFT record while it is small,     *)
(* then in clusters, with holes, and with an initialized size below the    *)
(* data size.  The run list is abstracted to the lcn of each vcn, its      *)
(* mapping pairs to a copy of it in the record; a call may fail because    *)
(* the volume is full, because a write to the device fails, because that   *)
(* of the MFT record does or because the pairs need an MFT record or an    *)
(* attribute list that cannot be had.                                      *)
(***************************************************************************)
EXTENDS Integers, Sequences, FiniteSets

CONSTANTS Lcns,          \* clusters of the volume, a set of numbers
          ClusterSize,   \* bytes in a cluster
          MaxSize,       \* bound on the size of the attribute
          ResidentMax,   \* bytes of a value that fit the MFT record
          Bytes,         \* bytes that are written
          Junk           \* what the clusters of the volume hold at first

VARIABLES rec,    \* the attribute in the MFT record; whole: its pairs are complete
          na,     \* the open attribute
          disk,   \* the bytes of each cluster
          used    \* clusters marked in the bitmap

vars == <<rec, na, disk, used>>

HOLE == -1
NoFault == 99

SmallestOf(S) == CHOOSE x \in S : \A y \in S : x <= y
LesserOf(a, b) == IF a < b THEN a ELSE b
GreaterOf(a, b) == IF a > b THEN a ELSE b

Vcn(pos) == pos \div ClusterSize
ClustersFor(size) == Vcn(size + ClusterSize - 1)

\* The number of runs of a mapping, and the part of it in the first k.
Starts(m, i) == i = 1 \/ IF m[i] = HOLE THEN m[i - 1] # HOLE ELSE m[i] # m[i - 1] + 1
Runs(m) == Cardinality({i \in 1..Len(m) : Starts(m, i)})
FirstRuns(m, k) ==
    SubSeq(m, 1, Cardinality({i \in 1..Len(m) : Runs(SubSeq(m, 1, i)) <= k}))

\* A state handed from call to call: io device writes succeed before one fails, and
\* where something is lacking the records hold no more runs than they do.
State(io, lack) == [ok |-> TRUE, total |-> 0, rec |-> rec, na |-> na, disk |-> disk,
                    used |-> used, io |-> io, lack |-> lack, room |-> Runs(rec.map)]

Reset(st) == [st EXCEPT !.ok = TRUE]

Failed(st) == [st EXCEPT !.ok = FALSE]

(***************************************************************************)
(* Clusters.                                                               *)
(***************************************************************************)
Available(st) == Lcns \ st.used

\* The n smallest free clusters, in order.
Chosen(st, n) ==
    LET free == Available(st)
    IN  [i \in 1..n |-> CHOOSE c \in free : Cardinality({d \in free : d < c}) = i - 1]

\* Write from lo to hi, inside a cluster that is allocated: byte b, or zero from
\* position z on.
WriteCluster(st, lo, hi, b, z) ==
    LET v == Vcn(lo)
        c == st.na.map[v + 1]
    IN  IF st.io = 0 THEN Failed(st)
        ELSE [st EXCEPT !.io = @ - 1,
                !.disk[c] = [i \in 1..ClusterSize |->
                   LET p == v * ClusterSize + i - 1
                   IN  IF p \notin lo..(hi - 1) THEN @[i] ELSE IF p < z THEN b ELSE 0]]

\* The part of a range that lies in cluster v.
Low(v, pos) == GreaterOf(pos, v * ClusterSize)
High(v, end) == LesserOf(end, (v + 1) * ClusterSize)

\* Zero the clusters of a range, holes excepted.
ntfs_attr_fill_zero(st, pos, count) ==
    LET first == Vcn(pos)
        last  == Vcn(pos + count - 1)
        Upto[v \in (first - 1)..last] ==
            LET prev == Upto[v - 1]
            IN  IF v = first - 1 THEN st
                ELSE IF ~prev.ok \/ prev.na.map[v + 1] = HOLE THEN prev
                ELSE WriteCluster(prev, Low(v, pos), High(v, pos + count), 0, 0)
    IN  IF count <= 0 THEN st ELSE Upto[last]

\* The vcn after the hole that v is in.
HoleEnd(map, v) == SmallestOf({w \in v..Len(map) : w = Len(map) \/ map[w + 1] # HOLE})

\* Clusters for the hole at vcn v, as far as the write to end reaches, the bytes
\* before pos zeroed.
ntfs_attr_fill_hole(st, v, pos, end) ==
    LET top  == LesserOf(HoleEnd(st.na.map, v), ClustersFor(end))
        n    == top - v
        lcns == Chosen(st, n)
        put  == [st EXCEPT !.used = @ \cup {lcns[i] : i \in 1..n},
                   !.na.map = [w \in 1..Len(@) |->
                                 IF w \in (v + 1)..top THEN lcns[w - v] ELSE @[w]]]
    IN  IF Cardinality(Available(st)) < n THEN Failed(st)
        ELSE ntfs_attr_fill_zero(put, v * ClusterSize, pos - v * ClusterSize)

\* Without another MFT record or an attribute list, not more of the pairs than the
\* records hold are written.
ntfs_attr_update_mapping_pairs(st) ==
    IF ~st.lack \/ Runs(st.na.map) <= st.room
    THEN [Reset(st) EXCEPT !.rec.map = st.na.map, !.rec.whole = TRUE]
    ELSE [Failed(st) EXCEPT !.rec.whole = FALSE, !.rec.map = FirstRuns(st.na.map, st.room)]

(***************************************************************************)
(* Changing the size.                                                      *)
(***************************************************************************)
ZeroFilled(val, n) == [i \in 1..n |-> IF i <= Len(val) THEN val[i] ELSE 0]

\* The clusters from n on are given back, the run list and the pairs cut.
Released(st, n) ==
    LET cut == SubSeq(st.na.map, 1, n)
    IN  ntfs_attr_update_mapping_pairs(
          [st EXCEPT !.na.map = cut,
             !.used = @ \ {st.na.map[w] : w \in (n + 1)..Len(st.na.map)}])

Empty == [nonres |-> FALSE, val |-> <<>>, map |-> <<>>, data |-> 0, init |-> 0, whole |-> TRUE]

ntfs_attr_make_resident(st) ==
    [st EXCEPT !.rec = Empty, !.na.nonres = FALSE]

ntfs_non_resident_attr_shrink(st, newsize) ==
    LET n    == ClustersFor(newsize)
        cut  == IF n # Len(st.na.map) THEN Released(st, n) ELSE st
        init == LesserOf(newsize, st.na.init)
        set  == [cut EXCEPT !.na.data = newsize, !.rec.data = newsize,
                            !.na.init = init, !.rec.init = init]
    IN  IF ~cut.ok THEN cut
        ELSE IF newsize = 0 THEN ntfs_attr_make_resident(set) ELSE set

\* The hole is cut off again and the pairs are written anew.
RolledBack(st, old) ==
    Failed(ntfs_attr_update_mapping_pairs([st EXCEPT !.na.map = SubSeq(@, 1, old)]))

\* A hole at the end; with delay the pairs are left for the caller.
ntfs_non_resident_attr_expand(st, newsize, delay) ==
    LET n     == ClustersFor(newsize)
        old   == Len(st.na.map)
        grown == [st EXCEPT !.na.map = @ \o [i \in 1..(n - old) |-> HOLE]]
        kept  == IF n <= old THEN st
                 ELSE IF delay THEN grown ELSE ntfs_attr_update_mapping_pairs(grown)
    IN  IF kept.ok THEN [kept EXCEPT !.na.app = TRUE, !.na.data = newsize, !.rec.data = newsize]
        ELSE RolledBack([kept EXCEPT !.na.app = TRUE], old)

\* The value is copied to clusters: the record changes once they are written.
ntfs_attr_make_non_resident(st) ==
    LET val  == st.rec.val
        n    == ClustersFor(Len(val))
        lcns == Chosen(st, n)
        Upto[i \in 0..n] ==
            IF i = 0 THEN st.disk
            ELSE [Upto[i - 1] EXCEPT ![lcns[i]] = [j \in 1..ClusterSize |->
                    LET p == (i - 1) * ClusterSize + j
                    IN  IF p <= Len(val) THEN val[p] ELSE 0]]
    IN  IF Cardinality(Available(st)) < n THEN Failed(st)
        ELSE IF n > st.io THEN [Failed(st) EXCEPT !.disk = Upto[st.io]]
        ELSE [st EXCEPT !.disk = Upto[n], !.io = @ - n,
                !.used = @ \cup {lcns[i] : i \in 1..n},
                !.na = [nonres |-> TRUE, map |-> lcns, data |-> Len(val),
                        init |-> Len(val), app |-> st.na.app],
                !.rec = [nonres |-> TRUE, val |-> <<>>, map |-> lcns,
                         data |-> Len(val), init |-> Len(val), whole |-> TRUE],
                !.room = GreaterOf(@, Runs(lcns))]

ExpandMoved(st, newsize) ==
    IF st.ok THEN ntfs_non_resident_attr_expand(st, newsize, FALSE) ELSE st

ntfs_resident_attr_resize(st, newsize) ==
    IF newsize <= ResidentMax
    THEN [st EXCEPT !.rec.val = ZeroFilled(@, newsize), !.rec.data = newsize,
                    !.rec.init = newsize, !.na.data = newsize, !.na.init = newsize]
    ELSE ExpandMoved(ntfs_attr_make_non_resident(st), newsize)

ntfs_attr_truncate_i(st, newsize, delay) ==
    IF newsize = st.na.data THEN st
    ELSE IF ~st.na.nonres THEN ntfs_resident_attr_resize(st, newsize)
    ELSE IF newsize > st.na.data
    THEN ntfs_non_resident_attr_expand(st, newsize, delay)
    ELSE ntfs_non_resident_attr_shrink(st, newsize)

(***************************************************************************)
(* Reading.                                                                *)
(***************************************************************************)
ntfs_attr_pread(st, pos, count) ==
    LET r == st.na
        n == LesserOf(count, r.data - pos)
        At(p) == IF p >= r.init \/ r.map[Vcn(p) + 1] = HOLE THEN 0
                 ELSE st.disk[r.map[Vcn(p) + 1]][(p % ClusterSize) + 1]
    IN  [i \in 1..n |-> IF r.nonres THEN At(pos + i - 1) ELSE st.rec.val[pos + i]]

(***************************************************************************)
(* Writing.                                                                *)
(***************************************************************************)
\* Step 1: room for the data.
Enlarged(st, pos, count) ==
    LET app == IF pos >= st.na.data /\ st.na.nonres
               THEN [st EXCEPT !.na.app = TRUE] ELSE st
    IN  IF pos + count > st.na.data
        THEN ntfs_attr_truncate_i(app, pos + count, app.na.app) ELSE app

\* Mutant: the gap is left as the clusters were.
Initialized_NoZero(st, pos, count, recfails) ==
    IF pos + count <= st.na.init THEN st
    ELSE IF recfails THEN Failed(st)
    ELSE [st EXCEPT !.na.init = pos + count, !.rec.init = pos + count]

\* Step 2: the initialized size is moved to the end of the write, the gap zeroed
\* before; it stays when the record cannot be written.
Initialized(st, pos, count, recfails) ==
    LET zero == IF pos > st.na.init
                THEN ntfs_attr_fill_zero(st, st.na.init, pos - st.na.init) ELSE st
    IN  IF pos + count <= st.na.init THEN st
        ELSE IF ~zero.ok \/ recfails THEN Failed(zero)
        ELSE [zero EXCEPT !.na.init = pos + count, !.rec.init = pos + count]

\* Step 3: the data, cluster by cluster; answers the state, the bytes written,
\* whether clusters were added and whether that failed.
WriteNext(prev, ready, v, pos, end, b) ==
    LET hole == prev.st.na.map[v + 1] = HOLE
        hend == IF hole THEN HoleEnd(prev.st.na.map, v) ELSE prev.hend
        tail == end < prev.st.na.init /\ end >= hend * ClusterSize
        hi   == IF v = Vcn(end - 1) /\ ~tail THEN (v + 1) * ClusterSize ELSE High(v, end)
        done == WriteCluster(ready, Low(v, pos), hi, b, end)
    IN  IF ~ready.ok
        THEN [prev EXCEPT !.st = ready, !.nohole = TRUE,
                          !.filled = @ \/ ready.na.map # prev.st.na.map]
        ELSE [prev EXCEPT !.st = done, !.hend = hend, !.filled = @ \/ hole,
                          !.total = IF done.ok THEN High(v, end) - pos ELSE @]

WriteFrom(prev, v, pos, end, b) ==
    IF ~prev.st.ok THEN prev
    ELSE WriteNext(prev,
           IF prev.st.na.map[v + 1] = HOLE
           THEN ntfs_attr_fill_hole(prev.st, v, Low(v, pos), end) ELSE prev.st,
           v, pos, end, b)

Scattered(st, pos, count, b) ==
    LET first == Vcn(pos)
        last  == Vcn(pos + count - 1)
        Upto[v \in (first - 1)..last] ==
            IF v = first - 1
            THEN [st |-> st, total |-> 0, hend |-> 0, filled |-> FALSE, nohole |-> FALSE]
            ELSE WriteFrom(Upto[v - 1], v, pos, pos + count, b)
    IN  Upto[last]

SizeRestored(st, data) ==
    [Failed(ntfs_attr_truncate_i(st, data, FALSE)) EXCEPT !.io = NoFault]

\* Mutant: the pairs of the clusters added are not written.
Undone_NoPairs(st, filled, initialized, org) ==
    LET old == IF initialized THEN [st EXCEPT !.na.init = org.init, !.rec.init = org.init]
               ELSE st
    IN  SizeRestored(Reset(old), org.data)

\* The ways out of a failed write: what was initialized and the size are put back.
Undone(st, filled, initialized, org) ==
    LET old == IF initialized THEN [st EXCEPT !.na.init = org.init, !.rec.init = org.init]
               ELSE st
        upd == IF filled THEN ntfs_attr_update_mapping_pairs(old) ELSE old
    IN  SizeRestored(Reset(upd), org.data)

\* The pairs are updated at the end of a write; nothing is undone when they cannot be.
Recorded(st, total) ==
    IF st.ok THEN [st EXCEPT !.total = total, !.na.app = FALSE] ELSE st

\* The end of a write: the pairs are written when all of it, or the beginning of
\* a write inside the initialized data, is done.
Finished(put, app, moved, org) ==
    IF put.st.ok \/ (put.total > 0 /\ ~moved /\ ~put.nohole)
    THEN Recorded(ntfs_attr_update_mapping_pairs(put.st), put.total)
    ELSE Undone(put.st, app \/ put.filled, moved, org)

\* Steps 3 and 4 of a write to a non-resident attribute.
WriteInitialized(ini, pos, count, b, app, org) ==
    IF ~ini.ok THEN Undone(ini, app, FALSE, org)
    ELSE Finished(Scattered(ini, pos, count, b), app, ini.na.init # org.init, org)

WriteResident(st, pos, count, b) ==
    [st EXCEPT !.total = count,
       !.rec.val = [i \in 1..Len(@) |->
                      IF i \in (pos + 1)..(pos + count) THEN b ELSE @[i]]]

\* The write once there is room for it.
WriteEnlarged(big, pos, count, b, recfails, org) ==
    IF ~big.ok THEN big
    ELSE IF big.na.nonres
    THEN WriteInitialized(Initialized(big, pos, count, recfails), pos, count, b,
                          big.na.app /\ pos + count > org.init, org)
    ELSE IF recfails THEN Undone(WriteResident(big, pos, count, b), FALSE, FALSE, org)
    ELSE WriteResident(big, pos, count, b)

WithOrg(big, data) == [big |-> big, org |-> [data |-> data, init |-> big.na.init]]

ntfs_attr_pwrite(st, pos, count, b, recfails) ==
    LET w == WithOrg(Enlarged(st, pos, count), st.na.data)
    IN  WriteEnlarged(w.big, pos, count, b, recfails, w.org)

(***************************************************************************)
(* The operations of an open attribute.                                    *)
(***************************************************************************)
Commit(st) == rec' = st.rec /\ na' = st.na /\ disk' = st.disk /\ used' = st.used

\* A failed truncation may leave less mapped than the size: nothing more is done with
\* the attribute then.
Covered(st) == st.na.nonres => Len(st.na.map) >= ClustersFor(st.na.data)

\* The call to write count bytes b at pos, during which the device fails after io
\* writes, or the record cannot be written, or something lacks, or nothing fails.
Calls ==
    LET WritesWith(ios, recs, lacks) ==
            UNION {[pos : {p}, count : 1..(MaxSize - p), b : Bytes, io : ios,
                    recfails : recs, lack : lacks] : p \in 0..(MaxSize - 1)}
    IN  WritesWith({0, 1, NoFault}, {FALSE}, {FALSE}) \cup WritesWith({NoFault}, {TRUE}, {FALSE})
        \cup WritesWith({NoFault}, {FALSE}, {TRUE})

Written(c) == ntfs_attr_pwrite(State(c.io, c.lack), c.pos, c.count, c.b, c.recfails)

ntfs_attr_truncate(n, lack) ==
    [ntfs_attr_truncate_i(State(NoFault, lack), n, FALSE) EXCEPT !.na.app = FALSE]

Unfailing == State(NoFault, FALSE)

Opened(r) == [nonres |-> r.nonres, map |-> r.map, data |-> r.data, init |-> r.init,
              app |-> FALSE]

\* Not while the pairs are incomplete.
Reopen == rec.whole /\ na' = Opened(rec) /\ UNCHANGED <<rec, disk, used>>

Init ==
    /\ rec = Empty
    /\ na = Opened(rec)
    /\ disk = [c \in Lcns |-> [i \in 1..ClusterSize |-> Junk]]
    /\ used = {}

Next ==
    /\ Covered(Unfailing)
    /\ \/ \E c \in Calls : \E st \in {Written(c)} : Commit(st)
       \/ \E n \in 0..MaxSize, lack \in BOOLEAN :
            \E st \in {ntfs_attr_truncate(n, lack)} : Commit(st)
       \/ Reopen

Spec == Init /\ [][Next]_vars

(***************************************************************************)
(* Properties.                                                             *)
(***************************************************************************)
File == INSTANCE ByteFile

\* What ntfs_attr_pread reads back of the attribute.
Content(st) == ntfs_attr_pread(st, 0, st.na.data)

\* What ByteFile promises of a call that took the bytes f to g and ended in st.  A
\* write whose pairs could not be recorded is done in full and yet reports an error.
WriteAsPromised(f, g, c, st) ==
    IF ~st.ok THEN \/ File!WriteFails(f, g, c.pos, c.count)
                   \/ ~st.rec.whole /\ File!Write(f, g, c.pos, c.count, c.b)
    ELSE IF st.total < c.count THEN File!WritePart(f, g, c.pos, c.count, c.b, st.total)
    ELSE File!Write(f, g, c.pos, c.count, c.b)

TruncateAsPromised(f, g, n, st) ==
    IF st.ok THEN File!Truncate(f, g, n) ELSE File!TruncateFails(f, g)

\* The attribute is an array of bytes: whatever was done before, every write and
\* every truncation changes what it is asked to and reports what it did, gaps and
\* holes read as zero, and a write that fails or stops early keeps the size and
\* everything outside the clusters it was to write (ntfs_attr_pwrite,
\* ntfs_attr_truncate); closing and opening it again changes nothing.  A write whose
\* mapping pairs cannot be recorded is the exception: it fails and the open attribute
\* reads as if it had not.  Nothing is said of an attribute whose truncation failed
\* half way, nor of opening it again while its pairs are incomplete.
ImplementsByteFile ==
    LET f == Content(Unfailing)
    IN  Covered(Unfailing) =>
        /\ \A c \in Calls :
             \E st \in {Written(c)} : Covered(st) => WriteAsPromised(f, Content(st), c, st)
        /\ \A n \in 0..MaxSize, lack \in BOOLEAN :
             \E st \in {ntfs_attr_truncate(n, lack)} :
                Covered(st) => TruncateAsPromised(f, Content(st), n, st)
        /\ rec.whole => Content([Unfailing EXCEPT !.na = Opened(rec)]) = f

\* After every call, failed ones included, the clusters marked in the bitmap are
\* those of the run list and none is used twice; unless the pairs could not be
\* written the record maps the same clusters, and they cover the data.
ClustersAccounted ==
    LET real == {v \in 1..Len(na.map) : na.map[v] # HOLE}
    IN  /\ used = {na.map[v] : v \in real}
        /\ Cardinality(used) = Cardinality(real)
        /\ rec.whole => /\ rec.map = na.map
                        /\ na.nonres => Len(na.map) = ClustersFor(na.data)
        /\ na.init <= na.data

=============================================================================
