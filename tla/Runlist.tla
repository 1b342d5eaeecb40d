------------------------------- MODULE Runlist -------------------------------
(***************************************************************************)
(* The run list of a non-resident attribute (runlist.c): the array that    *)
(* maps the virtual clusters of an attribute (vcn) to clusters of the      *)
(* volume (lcn), its merge with another run list, its truncation, and the  *)
(* mapping pairs that record it in an MFT record.  Lengths and changes of  *)
(* lcn stay below 2^23, so that three bytes hold them.                     *)
(*                                                                         *)
(* A run list is a sequence of elements that ends with the first one of    *)
(* length 0; <<>> is the NULL pointer, as an argument and as the answer of *)
(* a call that failed.                                                     *)
(***************************************************************************)
EXTENDS Integers, Sequences, FiniteSets

LCN_HOLE          == -1
LCN_RL_NOT_MAPPED == -2
LCN_ENOENT        == -3

Elem(vcn, lcn, length) == [vcn |-> vcn, lcn |-> lcn, length |-> length]

End(e) == e.vcn + e.length

MinOf(S) == CHOOSE x \in S : \A y \in S : x <= y
MaxOf(S) == CHOOSE x \in S : \A y \in S : x >= y

\* What a reader of the array sees: it stops at the first empty element.
Seen(array) ==
    LET ends == {i \in 1..Len(array) : array[i].length = 0}
    IN  IF ends = {} THEN array ELSE SubSeq(array, 1, MinOf(ends))

(***************************************************************************)
(* Lookup.                                                                 *)
(***************************************************************************)
\* The element a scan for vcn stops at: the one holding it, or the end marker.
IndexOf(rl, vcn) ==
    MinOf({i \in 1..Len(rl) : rl[i].length = 0 \/ vcn < rl[i + 1].vcn})

ntfs_rl_vcn_to_lcn(rl, vcn) ==
    IF rl = <<>> THEN LCN_RL_NOT_MAPPED
    ELSE IF vcn < rl[1].vcn THEN LCN_ENOENT
    ELSE LET e == rl[IndexOf(rl, vcn)]
         IN  IF e.lcn < 0 THEN e.lcn
             ELSE IF e.length = 0 THEN LCN_ENOENT
             ELSE e.lcn + vcn - e.vcn

\* 1 when there is a hole, 0 when not, -1 when an unmapped element is met first.
ntfs_rl_sparse(rl) ==
    LET neg == {i \in 1..Len(rl) : rl[i].length # 0 /\ rl[i].lcn < 0}
    IN  IF neg = {} THEN 0
        ELSE IF rl[MinOf(neg)].lcn = LCN_HOLE THEN 1 ELSE -1

\* The number of clusters the list maps, or -1 when some element is unmapped.
ntfs_rl_get_compressed_size(rl) ==
    LET Upto[i \in 0..Len(rl)] ==
            IF i = 0 \/ rl = <<>> THEN 0
            ELSE Upto[i - 1] + IF rl[i].lcn < 0 THEN 0 ELSE rl[i].length
    IN  IF rl = <<>> \/ \E i \in 1..Len(rl) :
               rl[i].length # 0 /\ rl[i].lcn < LCN_HOLE
        THEN -1
        ELSE Upto[Len(rl)]

(***************************************************************************)
(* Merging.  In the four ways of placing src into dst, src holds no end    *)
(* marker and loc is the index of the element of dst it goes to.  The      *)
(* array keeps its old elements past a result that became shorter.         *)
(***************************************************************************)
ntfs_rl_are_mergeable(d, s) ==
    \/ d.lcn = LCN_RL_NOT_MAPPED /\ s.lcn = LCN_RL_NOT_MAPPED
    \/ /\ End(d) = s.vcn
       /\ \/ d.lcn >= 0 /\ s.lcn >= 0 /\ d.lcn + d.length = s.lcn
          \/ d.lcn = LCN_HOLE /\ s.lcn = LCN_HOLE

Absorb(rl, i, e) == [rl EXCEPT ![i].length = @ + e.length]

AbsorbIf(cond, rl, i, e) == IF cond THEN Absorb(rl, i, e) ELSE rl

Drop(rl, n) == SubSeq(rl, n + 1, Len(rl))

One(cond) == IF cond THEN 1 ELSE 0

InArray(new, dst) == new \o Drop(dst, Len(new))

\* The end marker that follows the inserted elements moves to their end.
EndMarkerAt(rl, i) ==
    IF i <= Len(rl) /\ rl[i].lcn = LCN_ENOENT
    THEN [rl EXCEPT ![i].vcn = End(rl[i - 1])] ELSE rl

ntfs_rl_append(dst, src, loc) ==
    LET right == loc < Len(dst)
                 /\ ntfs_rl_are_mergeable(src[Len(src)], dst[loc + 1])
        put   == SubSeq(dst, 1, loc)
                 \o AbsorbIf(right, src, Len(src), dst[loc + 1])
                 \o Drop(dst, loc + One(right))
        sized == [put EXCEPT ![loc].length = put[loc + 1].vcn - put[loc].vcn]
    IN  InArray(EndMarkerAt(sized, loc + Len(src) + 1), dst)

ntfs_rl_replace(dst, src, loc) ==
    LET right == loc < Len(dst)
                 /\ ntfs_rl_are_mergeable(src[Len(src)], dst[loc + 1])
        left  == loc > 1 /\ ntfs_rl_are_mergeable(dst[loc - 1], src[1])
        new   == AbsorbIf(right, src, Len(src), dst[loc + 1])
        put   == AbsorbIf(left, SubSeq(dst, 1, loc - 1), loc - 1, new[1])
                 \o Drop(new, One(left))
                 \o Drop(dst, loc + One(right))
    IN  InArray(EndMarkerAt(put, loc + Len(src) - One(left)), dst)

\* Mutant: the tail of the element that is split starts where the whole did.
ntfs_rl_split_TailKept(dst, src, loc) ==
    LET put == SubSeq(dst, 1, loc) \o src \o Drop(dst, loc - 1)
    IN  [put EXCEPT ![loc].length = put[loc + 1].vcn - put[loc].vcn]

ntfs_rl_split(dst, src, loc) ==
    LET put == SubSeq(dst, 1, loc) \o src \o Drop(dst, loc - 1)
        tail == loc + Len(src) + 1
    IN  [put EXCEPT ![loc].length  = put[loc + 1].vcn - put[loc].vcn,
                    ![tail].vcn    = End(put[tail - 1]),
                    ![tail].length = put[tail + 1].vcn - End(put[tail - 1])]

\* The element that follows the inserted ones starts at their end; a hole or an
\* unmapped one still reaches the next.
FollowedBy(put, m) ==
    LET vcn == End(put[m - 1])
    IN  IF put[m].lcn \in {LCN_HOLE, LCN_RL_NOT_MAPPED} /\ m < Len(put)
        THEN [put EXCEPT ![m].vcn = vcn, ![m].length = put[m + 1].vcn - vcn]
        ELSE [put EXCEPT ![m].vcn = vcn]

\* A gap between the end of dst and src is filled with an unmapped element.
GapTo(reach, vcn) ==
    IF vcn > reach THEN <<Elem(reach, LCN_RL_NOT_MAPPED, vcn - reach)>> ELSE <<>>

ntfs_rl_insert(dst, src, loc) ==
    LET left  == loc > 1 /\ ntfs_rl_are_mergeable(dst[loc - 1], src[1])
        head  == AbsorbIf(left, SubSeq(dst, 1, loc - 1), loc - 1, src[1])
        reach == IF loc = 1 THEN 0 ELSE End(head[loc - 1])
        new   == head \o GapTo(reach, src[1].vcn) \o Drop(src, One(left))
    IN  FollowedBy(new \o Drop(dst, loc - 1), Len(new) + 1)

\* src ended the attribute at marker, but the merged list does not reach it or
\* ends with another kind of marker.
CompleteTo(array, dend, marker) ==
    LET ds == MinOf({i \in dend..Len(array) : array[i].length = 0})
        e  == array[ds]
        last == IF e.lcn = LCN_ENOENT THEN ds - 1 ELSE ds
        kept == IF array[last].lcn = LCN_RL_NOT_MAPPED THEN last - 1 ELSE last
        from == IF kept = last /\ e.lcn # LCN_ENOENT THEN End(array[last])
                ELSE array[kept + 1].vcn
    IN  IF e.vcn > marker THEN array
        ELSE IF e.vcn = marker
             THEN [array EXCEPT ![ds].lcn = LCN_ENOENT]
             ELSE SubSeq(array, 1, kept)
                  \o <<Elem(from, LCN_RL_NOT_MAPPED, marker - from),
                       Elem(marker, LCN_ENOENT, 0)>>

\* Where and how srl goes into drl.
Placement(drl, srl) ==
    LET send   == Len(srl)
        sstart == MinOf({i \in 1..send :
                           srl[i].length = 0 \/ srl[i].lcn >= LCN_HOLE})
        dins   == MinOf({i \in 1..Len(drl) :
                           drl[i].length = 0 \/ End(drl[i]) > srl[sstart].vcn})
        sfinal == MaxOf({i \in 1..send : srl[i].lcn >= LCN_HOLE} \cup {0})
        d      == drl[dins]
        marker == srl[send].lcn = LCN_ENOENT
        reach  == d.lcn >= LCN_RL_NOT_MAPPED /\ End(d) <= End(srl[send - 1])
    IN  [unmapped |-> srl[sstart].length = 0,
         overlap  |-> d.vcn = srl[sstart].vcn /\ d.lcn >= 0 /\ srl[sstart].lcn >= 0,
         at       |-> dins,
         src      |-> SubSeq(srl, sstart,
                             sfinal + One(reach /\ d.length = 0)),
         marker   |-> marker,
         start    |-> d.lcn < LCN_RL_NOT_MAPPED \/ d.vcn = srl[sstart].vcn,
         finish   |-> reach /\ ~(marker /\ End(d) > srl[send - 1].vcn)]

\* The array of drl with the elements of src placed as p says.
Placed(drl, p) ==
    IF p.start
    THEN IF p.finish THEN ntfs_rl_replace(drl, p.src, p.at)
         ELSE ntfs_rl_insert(drl, p.src, p.at)
    ELSE IF p.finish THEN ntfs_rl_append(drl, p.src, p.at)
         ELSE ntfs_rl_split(drl, p.src, p.at)

Completed(array, complete, dend, marker) ==
    Seen(IF complete THEN CompleteTo(array, dend, marker) ELSE array)

MergedAs(drl, srl, p) ==
    IF p.unmapped \/ p.overlap THEN <<>>
    ELSE Completed(Placed(drl, p), p.marker, Len(drl), srl[Len(srl)].vcn)

ntfs_runlists_merge(drl, srl) ==
    IF srl = <<>> THEN drl
    ELSE IF drl = <<>>
    THEN IF srl[1].vcn = 0 THEN srl
         ELSE <<Elem(0, LCN_RL_NOT_MAPPED, srl[1].vcn)>> \o srl
    ELSE MergedAs(drl, srl, Placement(drl, srl))

\* The run list ntfs_cluster_alloc answers for these clusters from vcn on.
NewRuns(vcn, lcns) ==
    LET n == Len(lcns)
        ends == SelectSeq([i \in 1..n |-> i],
                          LAMBDA i : i = n \/ lcns[i] + 1 # lcns[i + 1])
        FirstOf(j) == IF j = 1 THEN 1 ELSE ends[j - 1] + 1
    IN  [j \in 1..Len(ends) |->
           Elem(vcn + FirstOf(j) - 1, lcns[FirstOf(j)], ends[j] - FirstOf(j) + 1)]
        \o <<Elem(vcn + n, LCN_RL_NOT_MAPPED, 0)>>

\* Cut the list at vcn; <<>> when it ends before.
ntfs_rl_truncate(rl, vcn) ==
    LET i == IndexOf(rl, vcn)
    IN  IF rl = <<>> THEN <<>>
        ELSE IF vcn < rl[1].vcn \/ rl[i].length = 0 THEN <<>>
        ELSE SubSeq(rl, 1, i - 1)
             \o (IF vcn = rl[i].vcn THEN <<>>
                 ELSE <<[rl[i] EXCEPT !.length = vcn - rl[i].vcn]>>)
             \o <<Elem(vcn, LCN_ENOENT, 0)>>

(***************************************************************************)
(* Mapping pairs.  A pair holds the bytes of a run length and those of the *)
(* change of lcn; a hole has none of the latter (NTFS 3.0).                *)
(***************************************************************************)
ntfs_get_nr_significant_bytes(n) ==
    LET l == IF n < 0 THEN -n - 1 ELSE n
    IN  MinOf({i \in 1..3 : l < 128 * 256^(i - 1)})

ntfs_write_significant_bytes(n) ==
    LET Shifted[i \in 0..2] == IF i = 0 THEN n ELSE Shifted[i - 1] \div 256
        last == MinOf({i \in 0..2 : Shifted[i] \in -128..127})
    IN  [i \in 1..(last + 1) |-> Shifted[i - 1] % 256]

\* The last byte is signed, the others are not.
ReadSigned(bytes) ==
    LET n == Len(bytes)
        From[i \in 1..n] ==
            IF i = n THEN IF bytes[n] > 127 THEN bytes[n] - 256 ELSE bytes[n]
            ELSE From[i + 1] * 256 + bytes[i]
    IN  From[1]

Pair(length, delta) ==
    [len |-> ntfs_write_significant_bytes(length), lcn |-> delta]

PairSize(p) == 1 + Len(p.len) + Len(p.lcn)

\* The elements from start_vcn on, the first one cut to start there.
ElementsFrom(rl, start) ==
    LET i == IndexOf(rl, start)
        e == rl[i]
        d == start - e.vcn
        cut == Elem(start, IF e.lcn < 0 THEN e.lcn ELSE e.lcn + d, e.length - d)
    IN  <<cut>> \o SubSeq(rl, i + 1, Len(rl))

\* Mutant: the change is counted from the element just before, hole or not.
PrevLcn_Adjacent(els, i) == IF i = 1 THEN 0 ELSE els[i - 1].lcn

\* The lcn the change of the i-th element is counted from: that of the last
\* element before it that is not a hole.
PrevLcn(els, i) ==
    LET real == {j \in 1..(i - 1) : els[j].lcn >= 0}
    IN  IF real = {} THEN 0 ELSE els[MaxOf(real)].lcn

PairOf(els, i) ==
    Pair(els[i].length,
         IF els[i].lcn < 0 THEN <<>>
         ELSE ntfs_write_significant_bytes(els[i].lcn - PrevLcn(els, i)))

\* The bytes needed for the pairs of els, counted until max is exceeded; -1 when
\* an unmapped element is met.
SizeOfPairs(els, max) ==
    LET n   == Len(els) - 1
        Size(i) == 1 + ntfs_get_nr_significant_bytes(els[i].length)
                   + IF els[i].lcn < 0 THEN 0
                     ELSE ntfs_get_nr_significant_bytes(els[i].lcn - PrevLcn(els, i))
        Upto[i \in 0..n] == IF i = 0 THEN 1 ELSE Upto[i - 1] + Size(i)
        over == {i \in 0..n : Upto[i] > max}
        last == IF over = {} THEN n ELSE MinOf(over)
    IN  IF \E i \in 1..last : els[i].lcn < LCN_HOLE THEN -1 ELSE Upto[last]

ntfs_get_size_for_mapping_pairs(rl, start, max) ==
    IF start > rl[Len(rl)].vcn THEN -1
    ELSE SizeOfPairs(ElementsFrom(rl, start), max)

\* The pairs of els that fit room bytes with the terminating zero byte, and the
\* vcn where they stop; done when the list ended.
PairsThatFit(els, room) ==
    LET n   == Len(els) - 1
        Used[i \in 0..n] == IF i = 0 THEN 0 ELSE Used[i - 1] + PairSize(PairOf(els, i))
        fit == MaxOf({i \in 0..n : Used[i] + 1 <= room})
    IN  [pairs |-> [i \in 1..fit |-> PairOf(els, i)],
         done  |-> fit = n,
         stop  |-> els[fit + 1].vcn]

ntfs_mapping_pairs_build(rl, room, start) ==
    PairsThatFit(ElementsFrom(rl, start), room)

\* The run list of one attribute extent a = [lowest, highest, pairs, allocated]
\* (allocated in clusters), merged into old_rl.
ntfs_mapping_pairs_decompress(a, old_rl) ==
    LET n == Len(a.pairs)
        Vcn[i \in 1..(n + 1)] ==
            IF i = 1 THEN a.lowest ELSE Vcn[i - 1] + ReadSigned(a.pairs[i - 1].len)
        Lcn[i \in 0..n] ==
            IF i = 0 THEN 0
            ELSE Lcn[i - 1] + IF a.pairs[i].lcn = <<>> THEN 0
                              ELSE ReadSigned(a.pairs[i].lcn)
        runs == [i \in 1..n |->
                   Elem(Vcn[i], IF a.pairs[i].lcn = <<>> THEN LCN_HOLE ELSE Lcn[i],
                        ReadSigned(a.pairs[i].len))]
        vcn  == Vcn[n + 1]
        more == a.lowest = 0 /\ a.highest # 0 /\ a.highest < a.allocated - 1
        bad  == \/ a.highest # 0 /\ vcn - 1 # a.highest
                \/ a.lowest = 0 /\ a.highest # 0 /\ a.highest > a.allocated - 1
                \/ \E i \in 1..n : runs[i].length < 0 \/ Lcn[i] < -1
        tail == IF more
                THEN <<Elem(vcn, LCN_RL_NOT_MAPPED, a.allocated - 1 - a.highest),
                       Elem(a.allocated - 1 - a.highest + vcn, LCN_ENOENT, 0)>>
                ELSE <<Elem(vcn, IF a.lowest = 0 THEN LCN_ENOENT
                                 ELSE LCN_RL_NOT_MAPPED, 0)>>
        new  == (IF a.lowest = 0 THEN <<>>
                 ELSE <<Elem(0, LCN_RL_NOT_MAPPED, a.lowest)>>) \o runs \o tail
    IN  IF bad THEN <<>>
        ELSE IF old_rl = <<>> THEN new
        ELSE ntfs_runlists_merge(old_rl, new)

=============================================================================
