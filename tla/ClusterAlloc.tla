---------------------------- MODULE ClusterAlloc ----------------------------
(***************************************************************************)
(* The cluster allocator of NtfsDxe/ntfs/lcnalloc.c and the callers that   *)
(* resize a non-resident attribute (attrib.c).  A call of                  *)
(* ntfs_cluster_alloc goes through the $Bitmap chunk by chunk, in up to    *)
(* three zones and two passes a zone, and writes every chunk back before   *)
(* it reads the next one; a step of the model is one turn of its loop, so  *)
(* that an I/O error can strike between any two of them.                   *)
(*                                                                         *)
(* Abstracted: the runlist of a file is the sequence of its clusters (a    *)
(* run is a maximal stretch of consecutive ones, which is how the code     *)
(* coalesces them); a byte of the bitmap has ByteBits bits and a buffer    *)
(* BufBytes bytes.  Not modelled: count = 0, which returns an empty        *)
(* runlist, and counts other than -1 in ntfs_cluster_free, which no caller *)
(* passes.                                                                 *)
(***************************************************************************)
EXTENDS Integers, Sequences, FiniteSets, SequencesExt, FiniteSetsExt

CONSTANTS
  Files,         \* the attributes that own clusters
  NrClusters,    \* vol->nr_clusters
  ByteBits,      \* bits in a byte of $Bitmap (8)
  BmpBytes,      \* size of $Bitmap in bytes
  BufBytes,      \* NTFS_LCNALLOC_BSIZE
  Skip,          \* NTFS_LCNALLOC_SKIP
  MftLcn,        \* vol->mft_lcn
  MftZoneStart, MftZoneEnd,
  System,        \* clusters of the metadata files
  MaxLen,        \* bound: clusters a file may have
  MaxErrors      \* bound: I/O errors and failed mallocs

ASSUME GeometryAssumption ==
  /\ {NrClusters, MftLcn, MftZoneStart, MftZoneEnd, Skip, MaxLen, MaxErrors} \subseteq Nat
  /\ {ByteBits, BmpBytes, BufBytes} \subseteq Nat \ {0}
  /\ MftZoneStart <= MftLcn /\ MftLcn <= MftZoneEnd /\ MftZoneEnd < NrClusters
  /\ NrClusters <= BmpBytes * ByteBits
ASSUME SystemAssumption == System \subseteq 0..(NrClusters - 1)

VARIABLES
  bmp,            \* the bits set in $Bitmap on disk
  rl,             \* rl[f]: the clusters of file f in VCN order, Hole for none
  free_clusters, full_zones, zone_pos,
  op,             \* the locals of the call of ntfs_cluster_alloc under way
  got,            \* the runlist it has built so far
  counted,        \* ntfs_volume_get_free_space has been called
  failed,         \* ghost: how many operations an error has struck
  stale           \* ghost: clusters a failed shrink freed and left mapped

volume == <<free_clusters, full_zones, zone_pos>>
ghosts == <<counted, failed, stale>>
vars == <<bmp, rl, volume, op, got, ghosts>>

Lcn == 0..(NrClusters - 1)
Bits == 0..(BmpBytes * ByteBits - 1)
Hole == -1
Zones == {"mft", "data1", "data2"}
Clusters(s) == {s[i] : i \in DOMAIN s} \ {Hole}

Idle == [pc |-> "idle"]

ZoneStart(z) ==
  IF z = "mft" THEN MftZoneStart ELSE IF z = "data1" THEN MftZoneEnd ELSE 0
ZoneEnd(z) ==
  IF z = "mft" THEN MftZoneEnd ELSE IF z = "data1" THEN NrClusters ELSE MftZoneStart
ZoneOf(lcn) ==
  IF lcn >= MftZoneEnd THEN "data1" ELSE IF lcn < MftZoneStart THEN "data2" ELSE "mft"

\* The state after ntfs_volume_startup: free_clusters has not been computed,
\* the bits beyond the last cluster are set.
Init ==
  /\ bmp = System \cup (Bits \ Lcn)
  /\ rl = [f \in Files |-> << >>]
  /\ free_clusters = 0 /\ full_zones = {}
  /\ zone_pos = [z \in Zones |-> IF z = "mft" THEN MftLcn ELSE ZoneStart(z)]
  /\ op = Idle /\ got = << >>
  /\ counted = FALSE /\ failed = 0 /\ stale = {}

-----------------------------------------------------------------------------
\* Zone positions

\* ntfs_cluster_set_zone_pos and ntfs_cluster_update_zone_pos.
NewZonePos(pos, z, tc) ==
  LET start == IF z = "mft" THEN MftLcn ELSE ZoneStart(z) IN
  IF tc >= ZoneEnd(z) THEN start ELSE IF tc >= start THEN tc ELSE pos[z]

\* The indices of s at which a run starts, and those of its first n clusters
\* whose run lies wholly among them (the mutant counts holes, too).
Joined(s, i) == s[i] # Hole /\ s[i + 1] = s[i] + 1
RunStarts(s) == {i \in DOMAIN s : s[i] # Hole /\ (i > 1 => ~Joined(s, i - 1))}
WholeRuns(s, n) ==
  {i \in 1..n : s[i] # Hole /\ (n < Len(s) => \E j \in i..n : ~Joined(s, j))}

\* update_full_status for every run of s that starts among its first n
\* clusters: the first run in a full zone reopens that zone at its position.
Reopened(s, n) == {ZoneOf(s[i]) : i \in RunStarts(s) \cap 1..n}
FirstRunIn(s, z) == s[Min({i \in RunStarts(s) : ZoneOf(s[i]) = z})]
update_full_status(full, pos, s, n) ==
  /\ full_zones' = full \ Reopened(s, n)
  /\ zone_pos' = [z \in Zones |->
       IF z \in full \cap Reopened(s, n)
       THEN NewZonePos(pos, z, FirstRunIn(s, z)) ELSE pos[z]]

-----------------------------------------------------------------------------
\* ntfs_cluster_alloc

\* A call for count clusters, near start_lcn or (-1) at the zone position.
ntfs_cluster_alloc(f, count, start_lcn, zone) ==
  LET start == IF start_lcn >= 0 THEN start_lcn ELSE zone_pos[zone]
      z == ZoneOf(start)
  IN
  /\ op.pc = "idle"
  /\ Len(rl[f]) + count <= MaxLen
  /\ op' = [pc |-> "scan", file |-> f, clusters |-> count, before |-> bmp,
            zone_start |-> start, zone_end |-> ZoneEnd(z), bmp_pos |-> start,
            search_zone |-> z, done_zones |-> {},
            has_guess |-> start_lcn >= 0, used_zone_pos |-> start_lcn < 0,
            pass |-> IF start \in {0, MftZoneStart, MftZoneEnd} THEN 2 ELSE 1]
  /\ got' = << >>
  /\ UNCHANGED <<bmp, rl, volume, ghosts>>

\* The window of the bitmap read at bmp_pos.
WindowStart == (op.bmp_pos \div ByteBits) * ByteBits
WindowEnd == Min({WindowStart + BufBytes * ByteBits, BmpBytes * ByteBits})
FreeIn(a, b) == {x \in a..(b - 1) : x \notin bmp}

\* The first bit in use at or after x, or the end of the window.
RunEnd(x) == Min({y \in x..(WindowEnd - 1) : y \in bmp} \cup {WindowEnd})

\* max_empty_bit_range: the first of the longest free ranges of the window.
max_empty_bit_range ==
  LET F == FreeIn(WindowStart, WindowEnd)
      Longest == {x \in F : \A y \in F : RunEnd(y) - y <= RunEnd(x) - x}
  IN  Min(Longest)

\* The inner loop: the clusters it takes form one run from TakeFrom on.
NothingToTake ==
  \/ op.has_guess /\ op.bmp_pos \in bmp
  \/ ~op.has_guess /\ FreeIn(WindowStart, WindowEnd) = {}
TakeFrom == IF op.has_guess THEN op.bmp_pos ELSE max_empty_bit_range
Available ==
  IF NothingToTake THEN 0 ELSE Min({RunEnd(TakeFrom) - TakeFrom, op.clusters})
Taken(n) == [i \in 1..n |-> TakeFrom + i - 1]

\* vol->free_clusters is decremented unless it is 0 already.
Decremented(n) == IF free_clusters >= n THEN free_clusters - n ELSE 0

\* The zone position moves on when the last of the clusters has been taken.
PosAfter(n) ==
  IF n = op.clusters /\ op.used_zone_pos
  THEN [zone_pos EXCEPT ![op.search_zone] =
          NewZonePos(zone_pos, op.search_zone, TakeFrom + n + Skip)]
  ELSE zone_pos

\* The zone is known to be full, or the bitmap has no byte there: no chunk is
\* read (the test at the head of the loop).
NoChunk == op.search_zone \in full_zones \/ WindowStart >= BmpBytes * ByteBits
SkipChunk ==
  /\ op.pc = "scan" /\ NoChunk
  /\ op' = [op EXCEPT !.pc = "pass_done"]
  /\ UNCHANGED <<bmp, rl, volume, got, ghosts>>

\* Mutant: the clusters are handed out before their bits are on disk.
ScanLast_NoWriteback ==
  /\ op.pc = "scan" /\ ~NoChunk /\ Available = op.clusters
  /\ zone_pos' = PosAfter(Available)
  /\ free_clusters' = Decremented(Available)
  /\ rl' = [rl EXCEPT ![op.file] = @ \o (got \o Taken(Available))]
  /\ op' = Idle /\ got' = << >>
  /\ UNCHANGED <<bmp, full_zones, ghosts>>

\* The chunk holds the last clusters: they are written back and the runlist
\* is appended to the one of the file (ntfs_non_resident_attr_expand_i).
ScanLast ==
  /\ op.pc = "scan" /\ ~NoChunk /\ Available = op.clusters
  /\ bmp' = bmp \cup Clusters(Taken(Available))
  /\ zone_pos' = PosAfter(Available)
  /\ free_clusters' = Decremented(Available)
  /\ rl' = [rl EXCEPT ![op.file] = @ \o (got \o Taken(Available))]
  /\ op' = Idle /\ got' = << >>
  /\ UNCHANGED <<full_zones, ghosts>>

\* The chunk holds less: it is written back and the scan goes on, at the zone
\* position when this was the chunk of the hint.
ScanMore ==
  LET start == IF op.used_zone_pos THEN op.zone_start ELSE zone_pos[op.search_zone]
      pos == IF op.used_zone_pos THEN WindowEnd ELSE start
  IN
  /\ op.pc = "scan" /\ ~NoChunk /\ Available < op.clusters
  /\ bmp' = bmp \cup Clusters(Taken(Available))
  /\ free_clusters' = Decremented(Available)
  /\ got' = got \o Taken(Available)
  /\ op' = [op EXCEPT
       !.clusters = @ - Available,
       !.has_guess = Available > 0 /\ RunEnd(TakeFrom) = WindowEnd,
       !.used_zone_pos = TRUE, !.zone_start = start, !.bmp_pos = pos,
       !.pass = IF ~op.used_zone_pos /\ start \in {0, MftZoneStart, MftZoneEnd}
                THEN 2 ELSE @,
       !.pc = IF pos < op.zone_end THEN "scan" ELSE "pass_done"]
  /\ UNCHANGED <<rl, full_zones, zone_pos, ghosts>>

\* Mutant: the second pass keeps the start of the first one.
SecondPass_SameStart ==
  /\ op.pc = "pass_done" /\ op.pass = 1
  /\ op' = [op EXCEPT !.pc = "scan"]
  /\ UNCHANGED <<bmp, rl, volume, got, ghosts>>

\* zone_pass_done, first pass: go back to the start of the zone.
SecondPass ==
  LET start == ZoneStart(op.search_zone) IN
  /\ op.pc = "pass_done" /\ op.pass = 1
  /\ op' = [op EXCEPT !.pc = "scan", !.pass = 2, !.zone_start = start,
              !.bmp_pos = start, !.zone_end = Max({op.zone_start, start})]
  /\ UNCHANGED <<bmp, rl, volume, got, ghosts>>

\* done_zones_check: the zone counts as full; on to the next one.
NextZone(z, done) ==
  IF z = "data1" THEN "data2"
  ELSE IF z = "mft" \/ "data1" \notin done THEN "data1" ELSE "mft"
SwitchZone ==
  LET done == op.done_zones \cup {op.search_zone}
      z == NextZone(op.search_zone, done)
  IN
  /\ op.pc = "pass_done" /\ op.pass = 2 /\ done # Zones
  /\ full_zones' = full_zones \cup {op.search_zone}
  /\ zone_pos' = [zone_pos EXCEPT ![op.search_zone] =
       IF got # << >> /\ op.used_zone_pos
       THEN NewZonePos(zone_pos, op.search_zone, Last(got) + 1 + Skip) ELSE @]
  /\ op' = [op EXCEPT
       !.done_zones = done, !.search_zone = z,
       !.zone_start = zone_pos'[z], !.bmp_pos = zone_pos'[z], !.zone_end = ZoneEnd(z),
       !.pass = IF zone_pos'[z] = ZoneStart(z) \/ zone_pos'[z] = ZoneEnd(z) THEN 2 ELSE 1,
       !.pc = IF zone_pos'[z] = ZoneEnd(z) THEN "pass_done" ELSE "scan"]
  /\ UNCHANGED <<bmp, rl, free_clusters, got, ghosts>>

\* Mutant: err_ret does not give back the clusters of the chunks before.
Rollback_Nothing(s, n, written, taken, full) ==
  /\ bmp' = bmp \cup written
  /\ free_clusters' = Decremented(taken)
  /\ update_full_status(full, PosAfter(taken), s, 0)
  /\ op' = Idle /\ got' = << >>
  /\ UNCHANGED <<rl, counted>>

\* err_ret: the clusters s are freed again (ntfs_cluster_free_from_rl), up to
\* the n-th one if that fails, and the call returns an error.
Rollback(s, n, written, taken, full) ==
  /\ bmp' = (bmp \cup written) \ {s[i] : i \in 1..n}
  /\ free_clusters' = Decremented(taken) + Cardinality(WholeRuns(s, n))
  /\ update_full_status(full, PosAfter(taken), s, Min({n + 1, Len(s)}))
  /\ op' = Idle /\ got' = << >>
  /\ UNCHANGED <<rl, counted>>

\* All zones are finished: no space on device.
NoSpace ==
  /\ op.pc = "pass_done" /\ op.pass = 2
  /\ op.done_zones \cup {op.search_zone} = Zones
  /\ Rollback(got, Len(got), {}, 0, full_zones \cup {op.search_zone})
  /\ UNCHANGED <<failed, stale>>

\* Reading a chunk, writing it back or growing the runlist fails: the bits of
\* a prefix of the clusters taken are on disk, and the rollback may fail too.
ScanFails ==
  /\ failed < MaxErrors /\ failed' = failed + 1
  /\ op.pc = "scan" /\ ~NoChunk
  /\ \E m \in 0..Available : \E w \in 0..m : \E n \in 0..(Len(got) + m) :
       Rollback(got \o Taken(m), n, Clusters(Taken(w)), m, full_zones)
  /\ UNCHANGED stale

-----------------------------------------------------------------------------
\* The callers in attrib.c and volume.c

\* ntfs_non_resident_attr_expand_i asks for clusters after the last one of
\* the file, mft.c for clusters of the mft zone.
Expand(f, count) ==
  LET real == {i \in DOMAIN rl[f] : rl[f][i] # Hole} IN
  \/ ntfs_cluster_alloc(f, count, IF real = {} THEN -1 ELSE rl[f][Max(real)] + 1, "data1")
  \/ ntfs_cluster_alloc(f, count, -1, "mft")

\* ... or appends a sparse run.
ExpandSparse(f) ==
  /\ op.pc = "idle" /\ Len(rl[f]) < MaxLen
  /\ rl' = [rl EXCEPT ![f] = Append(@, Hole)]
  /\ UNCHANGED <<bmp, volume, op, got, ghosts>>

\* ntfs_cluster_free(na, vcn, -1): the clusters from vcn on, run by run.
Tail_(f, vcn) == SubSeq(rl[f], vcn + 1, Len(rl[f]))
ntfs_cluster_free(s, n) ==
  /\ bmp' = bmp \ ({s[i] : i \in 1..n} \ {Hole})
  /\ free_clusters' = free_clusters + Cardinality(WholeRuns(s, n))
  /\ update_full_status(full_zones, zone_pos, s, Min({n + 1, Len(s)}))

\* ntfs_non_resident_attr_shrink: the clusters are freed, then the runlist is
\* truncated.
Shrink(f, vcn) ==
  /\ op.pc = "idle" /\ vcn < Len(rl[f])
  /\ ntfs_cluster_free(Tail_(f, vcn), Len(rl[f]) - vcn)
  /\ rl' = [rl EXCEPT ![f] = SubSeq(@, 1, vcn)]
  /\ UNCHANGED <<op, got, ghosts>>

\* Clearing the bitmap fails: part of the clusters is free, the file still
\* maps all of them ("We need rollback!").
ShrinkFails(f, vcn) ==
  /\ failed < MaxErrors /\ failed' = failed + 1
  /\ op.pc = "idle" /\ vcn < Len(rl[f])
  /\ \E n \in 0..(Len(rl[f]) - vcn - 1) :
       /\ ntfs_cluster_free(Tail_(f, vcn), n)
       /\ stale' = stale \cup Clusters(SubSeq(rl[f], vcn + 1, vcn + n))
  /\ UNCHANGED <<rl, op, got, counted>>

\* ntfs_volume_get_free_space, called by ntfs_statvfs_r.
ntfs_volume_get_free_space ==
  /\ op.pc = "idle"
  /\ free_clusters' = Cardinality(Bits \ bmp)
  /\ counted' = TRUE
  /\ UNCHANGED <<bmp, rl, full_zones, zone_pos, op, got, failed, stale>>

Step ==
  \/ SkipChunk \/ ScanLast \/ ScanMore \/ ScanFails
  \/ SecondPass \/ SwitchZone \/ NoSpace

Next ==
  \/ Step
  \/ \E f \in Files, n \in 1..MaxLen : Expand(f, n)
  \/ \E f \in Files : ExpandSparse(f)
  \/ \E f \in Files, v \in 0..(MaxLen - 1) : Shrink(f, v) \/ ShrinkFails(f, v)
  \/ ntfs_volume_get_free_space

Spec == Init /\ [][Next]_vars

-----------------------------------------------------------------------------
\* Properties

Owned == UNION {Clusters(rl[f]) : f \in Files}

\* The locals of ntfs_cluster_alloc.
Locals ==
  [pc : {"scan", "pass_done"}, file : Files, clusters : Nat \ {0},
   before : SUBSET Bits, zone_start : Nat, zone_end : Nat, bmp_pos : Nat,
   search_zone : Zones, done_zones : SUBSET Zones,
   has_guess : BOOLEAN, used_zone_pos : BOOLEAN, pass : {1, 2}]

\* Types of the volume fields and of the locals of a call; a zone position
\* never leaves its zone.
TypeOK ==
  /\ bmp \subseteq Bits
  /\ rl \in [Files -> Seq(Lcn \cup {Hole})]
  /\ free_clusters \in Nat /\ full_zones \subseteq Zones
  /\ zone_pos \in [Zones -> Nat]
  /\ \A z \in Zones : zone_pos[z] \in ZoneStart(z)..ZoneEnd(z)
  /\ op \in Locals \cup {Idle} /\ got \in Seq(Lcn)
  /\ counted \in BOOLEAN /\ failed \in Nat /\ stale \subseteq Lcn

\* No cluster has two owners: not two files, nor two VCNs of one, nor a file
\* and the metadata, nor a file and the call under way, whatever error strikes
\* ntfs_cluster_alloc and its rollback.  The clusters a failed shrink has
\* freed and left mapped are the only ones that may be handed out again.
NoDoubleAllocation ==
  /\ \A f, g \in Files : \A i \in DOMAIN rl[f], j \in DOMAIN rl[g] :
       rl[f][i] = rl[g][j] /\ rl[f][i] \notin stale \cup {Hole} => f = g /\ i = j
  /\ Owned \cap Clusters(got) \subseteq stale
  /\ System \cap (Owned \cup Clusters(got)) = {}

\* The bit of every cluster in use is set on disk, after every step: another
\* mount of the volume would not hand it out again.
InUseIsMarked == (Owned \cup Clusters(got) \cup System) \ stale \subseteq bmp

\* As long as no error strikes, no cluster is leaked either: the bitmap holds
\* the clusters in use and nothing else (a call that finds no space gives back
\* what it had taken), and free_clusters, once ntfs_volume_get_free_space has
\* counted, is the number of clear bits.
NoLeak ==
  failed = 0 => /\ bmp \cap Lcn = Owned \cup Clusters(got) \cup System
                /\ counted => free_clusters = Cardinality(Bits \ bmp)

\* How far the search is from its end: zones to go (the second data zone is
\* visited again after the first one), passes, the chunk of the hint, and the
\* rest of the zone.
Ahead(o) ==
  <<Cardinality(Zones \ (o.done_zones \cup {o.search_zone})),
    IF o.search_zone = "data1" THEN 1 ELSE 0,
    2 - o.pass,
    IF o.used_zone_pos THEN 0 ELSE 1,
    IF o.pc = "scan" THEN 1 + Max({0, o.zone_end - o.bmp_pos}) ELSE 0>>
Precedes(m, n) ==
  \E i \in 1..5 : m[i] < n[i] /\ \A j \in 1..(i - 1) : m[j] = n[j]

\* Every turn of the loop of ntfs_cluster_alloc returns or gets closer to the
\* end of the search, whatever the hint, the zone positions and the zones
\* that count as full: every call returns.
SearchAdvances == [][Step => op' = Idle \/ Precedes(Ahead(op'), Ahead(op))]_vars
=============================================================================
