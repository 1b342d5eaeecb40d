------------------------- MODULE ClusterAllocProofs -------------------------
(***************************************************************************)
(* Proofs about ClusterAlloc: type correctness, and that no cluster is     *)
(* ever owned twice or in use without being marked.                        *)
(***************************************************************************)
EXTENDS ClusterAlloc, TLAPS, FiniteSetTheorems, WellFoundedInduction

\* A non-empty set of naturals has a least element, and Min picks it.
LEMMA MinProperty ==
  ASSUME NEW S \in SUBSET Nat, S # {}
  PROVE  Min(S) \in S /\ \A x \in S : Min(S) <= x
<1>1. \E x \in S : \A y \in S : ~(<<y, x>> \in OpToRel(<, Nat))
  BY NatLessThanWellFounded, WFMin
<1>2. \A x, y \in Nat : x < y => <<x, y>> \in OpToRel(<, Nat)
  BY Zenon DEF OpToRel
<1>3. \E x \in S : \A y \in S : ~(y < x)
  BY <1>1, <1>2, Zenon
<1>4. \E x \in S : \A y \in S : x <= y
  BY <1>3
<1> QED BY <1>4 DEF Min

\* A non-empty bounded set of naturals has a greatest element.
LEMMA MaxProperty ==
  ASSUME NEW n \in Nat, NEW S \in SUBSET (0..n), S # {}
  PROVE  Max(S) \in S /\ \A x \in S : Max(S) >= x
<1> DEFINE T == {n - x : x \in S}
<1>0. \A x \in S : n - x \in Nat
  OBVIOUS
<1>1. T \in SUBSET Nat /\ T # {}
  BY <1>0
<1> HIDE DEF T
<1>2. Min(T) \in T /\ \A y \in T : Min(T) <= y
  BY <1>1, MinProperty
<1>3. PICK x \in S : Min(T) = n - x
  BY <1>2 DEF T
<1>4. \A y \in S : n - x <= n - y
  BY <1>2, <1>3 DEF T
<1>5. \A y \in S : x >= y
  BY <1>4
<1> QED BY <1>5 DEF Max

\* What Min returns for two integers.
LEMMA MinOfTwo ==
  ASSUME NEW a \in Int, NEW b \in Int
  PROVE  Min({a, b}) \in {a, b} /\ Min({a, b}) <= a /\ Min({a, b}) <= b
<1>1. \E x \in {a, b} : \A y \in {a, b} : x <= y
  <2>1. CASE a <= b BY <2>1
  <2>2. CASE b <= a BY <2>2
  <2> QED BY <2>1, <2>2
<1> QED BY <1>1 DEF Min

\* The byte of bit p: lcnalloc.c reads the bitmap at bmp_pos >> 3.
LEMMA ByteOf ==
  ASSUME NEW p \in Nat, NEW b \in Nat \ {0}
  PROVE  /\ (p \div b) \in Nat
         /\ (p \div b) * b <= p
         /\ p < (p \div b) * b + b
  OBVIOUS

\* Multiples of the byte size are at least a byte apart.
LEMMA Multiples ==
  ASSUME NEW k \in Nat, NEW m \in Nat, NEW b \in Nat \ {0}, k * b < m * b
  PROVE  k * b + b <= m * b
<1>1. k < m
  OBVIOUS
<1>2. (k + 1) * b <= m * b
  BY <1>1
<1> QED BY <1>2

\* A chunk read at bmp_pos lies within the bitmap and holds bmp_pos.
LEMMA WindowBounds ==
  ASSUME op.bmp_pos \in Nat, ~NoChunk
  PROVE  /\ WindowStart \in Nat /\ WindowEnd \in Nat
         /\ WindowEnd <= BmpBytes * ByteBits
         /\ op.bmp_pos < WindowEnd
<1> DEFINE b == ByteBits
           k == op.bmp_pos \div b
           end == BmpBytes * b
<1>1. b \in Nat \ {0} /\ BmpBytes \in Nat \ {0} /\ BufBytes \in Nat \ {0}
  BY GeometryAssumption
<1>2. k \in Nat /\ k * b <= op.bmp_pos /\ op.bmp_pos < k * b + b
  BY <1>1, ByteOf
<1>3. k * b \in Nat /\ end \in Nat /\ BufBytes * b \in Nat /\ BufBytes * b >= b
  BY <1>1, <1>2
<1>4. k * b < end
  BY <1>3 DEF NoChunk, WindowStart
<1>5. k * b + b <= end
  BY <1>4, <1>1, <1>2, Multiples
<1> HIDE DEF k, end
<1>6. WindowStart = k * b /\ WindowEnd = Min({k * b + BufBytes * b, end})
  BY DEF WindowStart, WindowEnd, k, end
<1> DEFINE w == k * b
           bb == BufBytes * b
<1> HIDE DEF w, bb
<1>7. w \in Nat /\ bb \in Nat /\ bb >= b /\ w + b <= end /\ op.bmp_pos < w + b
      /\ WindowStart = w /\ WindowEnd = Min({w + bb, end})
  BY <1>2, <1>3, <1>5, <1>6 DEF w, bb
<1>8. Min({w + bb, end}) \in {w + bb, end} /\ Min({w + bb, end}) <= end
  <2>1. w + bb \in Int /\ end \in Int
    BY <1>3, <1>7
  <2> QED BY <2>1, MinOfTwo
<1> QED BY <1>1, <1>3, <1>7, <1>8 DEF end

\* From x to RunEnd(x) all bits of the chunk are clear.
LEMMA RunIsFree ==
  ASSUME op.bmp_pos \in Nat, ~NoChunk, NEW x \in Nat, x < WindowEnd
  PROVE  /\ RunEnd(x) \in Nat /\ x <= RunEnd(x) /\ RunEnd(x) <= WindowEnd
         /\ \A y \in Nat : x <= y /\ y < RunEnd(x) => y \notin bmp
<1> DEFINE S == {y \in x..(WindowEnd - 1) : y \in bmp} \cup {WindowEnd}
<1>1. WindowEnd \in Nat
  BY WindowBounds
<1>2. S \in SUBSET Nat /\ S # {} /\ WindowEnd \in S
  BY <1>1
<1> HIDE DEF S
<1>3. Min(S) \in S /\ \A y \in S : Min(S) <= y
  BY <1>2, MinProperty
<1>4. RunEnd(x) = Min(S)
  BY DEF RunEnd, S
<1>5. RunEnd(x) \in Nat /\ x <= RunEnd(x) /\ RunEnd(x) <= WindowEnd
  BY <1>1, <1>2, <1>3, <1>4 DEF S
<1>6. ASSUME NEW y \in Nat, x <= y, y < RunEnd(x) PROVE y \notin bmp
  BY <1>1, <1>3, <1>4, <1>5, <1>6 DEF S
<1> QED BY <1>5, <1>6

\* max_empty_bit_range returns a position of the chunk when it has a clear bit.
LEMMA LongestRange ==
  ASSUME op.bmp_pos \in Nat, ~NoChunk, FreeIn(WindowStart, WindowEnd) # {}
  PROVE  max_empty_bit_range \in Nat /\ max_empty_bit_range < WindowEnd
<1> DEFINE F == FreeIn(WindowStart, WindowEnd)
           Longest == {x \in F : \A y \in F : RunEnd(y) - y <= RunEnd(x) - x}
           Missing == {WindowEnd - (RunEnd(y) - y) : y \in F}
<1>1. WindowStart \in Nat /\ WindowEnd \in Nat
  BY WindowBounds
<1>2. \A y \in F : y \in Nat /\ y < WindowEnd
  BY <1>1 DEF FreeIn
<1>3. \A y \in F : RunEnd(y) \in Nat /\ y <= RunEnd(y) /\ RunEnd(y) <= WindowEnd
  BY <1>2, RunIsFree
<1>4. Missing \in SUBSET Nat /\ Missing # {}
  BY <1>1, <1>2, <1>3
<1>5. PICK x \in F : Min(Missing) = WindowEnd - (RunEnd(x) - x)
  <2> HIDE DEF F
  <2>1. Min(Missing) \in Missing
    BY <1>4, MinProperty
  <2> QED BY <2>1
<1>6. \A y \in F : Min(Missing) <= WindowEnd - (RunEnd(y) - y)
  <2> HIDE DEF F
  <2>1. \A m \in Missing : Min(Missing) <= m
    BY <1>4, MinProperty
  <2> QED BY <2>1
<1> HIDE DEF F, Missing
<1>7. x \in Longest
  BY <1>1, <1>2, <1>3, <1>5, <1>6
<1>8. Longest \in SUBSET Nat /\ Longest # {}
  BY <1>2, <1>7
<1>9. Min(Longest) \in Longest
  BY <1>8, MinProperty
<1>10. max_empty_bit_range = Min(Longest)
  BY DEF max_empty_bit_range, F
<1> QED BY <1>2, <1>9, <1>10

\* The inner loop of ntfs_cluster_alloc takes only free clusters of the volume.
LEMMA TakenIsFree ==
  ASSUME TypeOK, op \in Locals, ~NoChunk, Bits \ Lcn \subseteq bmp
  PROVE  /\ Available \in Nat /\ Available <= op.clusters
         /\ TakeFrom \in Nat \/ Available = 0
         /\ \A i \in 1..Available : TakeFrom + i - 1 \in Lcn \ bmp
<1>1. op.bmp_pos \in Nat /\ op.clusters \in Nat \ {0}
  BY DEF Locals
<1>2. CASE NothingToTake
  BY <1>1, <1>2 DEF Available
<1>3. CASE ~NothingToTake
  <2>1. WindowEnd \in Nat /\ WindowEnd <= BmpBytes * ByteBits /\ op.bmp_pos < WindowEnd
    BY <1>1, WindowBounds
  <2>2. TakeFrom \in Nat /\ TakeFrom < WindowEnd
    <3>1. CASE op.has_guess
      BY <1>1, <2>1, <3>1 DEF TakeFrom
    <3>2. CASE ~op.has_guess
      BY <1>1, <1>3, <3>2, LongestRange DEF NothingToTake, TakeFrom
    <3> QED BY <3>1, <3>2
  <2> DEFINE end == RunEnd(TakeFrom)
  <2>3. /\ end \in Nat /\ TakeFrom <= end /\ end <= WindowEnd
        /\ \A y \in Nat : TakeFrom <= y /\ y < end => y \notin bmp
    BY <1>1, <2>2, RunIsFree
  <2>4. Available = Min({end - TakeFrom, op.clusters})
    BY <1>3 DEF Available
  <2> HIDE DEF end
  <2>5. Available \in Nat /\ Available <= op.clusters /\ Available <= end - TakeFrom
    <3>1. end - TakeFrom \in Int /\ op.clusters \in Int /\ end - TakeFrom >= 0
      BY <1>1, <2>2, <2>3
    <3>2. /\ Available \in {end - TakeFrom, op.clusters}
          /\ Available <= op.clusters /\ Available <= end - TakeFrom
      BY <2>4, <3>1, MinOfTwo
    <3> QED BY <1>1, <3>1, <3>2
  <2>6. ASSUME NEW i \in 1..Available PROVE TakeFrom + i - 1 \in Lcn \ bmp
    <3>1. TakeFrom + i - 1 \in Nat /\ TakeFrom + i - 1 < end
      BY <2>2, <2>3, <2>5
    <3>2. TakeFrom + i - 1 \notin bmp
      BY <3>1, <2>2, <2>3
    <3>3. TakeFrom + i - 1 < BmpBytes * ByteBits
      BY <3>1, <2>1, <2>3, GeometryAssumption
    <3>4. TakeFrom + i - 1 \in Bits
      BY <3>1, <3>3, GeometryAssumption DEF Bits
    <3> QED BY <3>2, <3>4
  <2> QED BY <2>2, <2>5, <2>6
<1> QED BY <1>2, <1>3

\* An index of a concatenation is one of its left or of its right part.
LEMMA ConcatIndex ==
  ASSUME NEW S, NEW s \in Seq(S), NEW t \in Seq(S), NEW k \in DOMAIN (s \o t)
  PROVE  \/ k \in DOMAIN s /\ (s \o t)[k] = s[k]
         \/ /\ k - Len(s) \in DOMAIN t /\ k \in Int /\ Len(s) \in Int
            /\ (s \o t)[k] = t[k - Len(s)] /\ t[k - Len(s)] \in S
<1>1. CASE k <= Len(s)
  BY <1>1
<1>2. CASE k > Len(s)
  BY <1>2
<1> QED BY <1>1, <1>2

\* The clusters of a concatenation are those of its parts.
LEMMA Concatenation ==
  ASSUME NEW s \in Seq(Int), NEW t \in Seq(Int)
  PROVE  Clusters(s \o t) = Clusters(s) \cup Clusters(t)
<1>1. ASSUME NEW i \in DOMAIN (s \o t)
      PROVE  (s \o t)[i] \in {s[j] : j \in DOMAIN s} \cup {t[j] : j \in DOMAIN t}
  <2>1. CASE i <= Len(s)
    BY <2>1
  <2>2. CASE i > Len(s)
    <3>1. (s \o t)[i] = t[i - Len(s)] /\ i - Len(s) \in DOMAIN t
      BY <2>2
    <3> QED BY <3>1
  <2> QED BY <2>1, <2>2
<1>2. ASSUME NEW i \in DOMAIN s
      PROVE  i \in DOMAIN (s \o t) /\ (s \o t)[i] = s[i]
  OBVIOUS
<1>3. ASSUME NEW i \in DOMAIN t
      PROVE  Len(s) + i \in DOMAIN (s \o t) /\ (s \o t)[Len(s) + i] = t[i]
  OBVIOUS
<1> QED BY <1>1, <1>2, <1>3 DEF Clusters

\* The run taken from a chunk: distinct clusters, all free before.
LEMMA TakenClusters ==
  ASSUME TypeOK, op \in Locals, ~NoChunk, Bits \ Lcn \subseteq bmp,
         NEW m \in 0..Available
  PROVE  /\ Taken(m) \in Seq(Lcn)
         /\ Len(Taken(m)) = m /\ DOMAIN Taken(m) = 1..m
         /\ Clusters(Taken(m)) \subseteq Lcn \ bmp
         /\ \A i, j \in 1..m : Taken(m)[i] = Taken(m)[j] => i = j
<1>0. /\ Available \in Nat
      /\ TakeFrom \in Nat \/ Available = 0
      /\ \A i \in 1..Available : TakeFrom + i - 1 \in Lcn \ bmp
  BY TakenIsFree
<1>1. /\ m \in Nat
      /\ TakeFrom \in Nat \/ m = 0
      /\ \A i \in 1..m : TakeFrom + i - 1 \in Lcn \ bmp
  <2>1. m \in Nat /\ 1..m \subseteq 1..Available
    BY <1>0
  <2> QED BY <1>0, <2>1
<1>2. Taken(m) \in Seq(Lcn) /\ Len(Taken(m)) = m
  BY <1>1 DEF Taken
<1>3. DOMAIN Taken(m) = 1..m
  BY DEF Taken
<1>4. Clusters(Taken(m)) \subseteq Lcn \ bmp
  BY <1>1, <1>3 DEF Taken, Clusters
<1>5. \A i, j \in 1..m : Taken(m)[i] = Taken(m)[j] => i = j
  BY <1>1 DEF Taken
<1> QED BY <1>2, <1>3, <1>4, <1>5

\* Every zone position lies in its zone.
ZonePosOK(pos) ==
  /\ pos \in [Zones -> Nat]
  /\ \A z \in Zones : pos[z] \in ZoneStart(z)..ZoneEnd(z)

\* A zone position moved by ntfs_cluster_set_zone_pos stays in its zone.
LEMMA NewZonePosOK ==
  ASSUME NEW pos, ZonePosOK(pos), NEW z \in Zones, NEW tc \in Int
  PROVE  NewZonePos(pos, z, tc) \in Nat
         /\ NewZonePos(pos, z, tc) \in ZoneStart(z)..ZoneEnd(z)
  BY GeometryAssumption DEF ZonePosOK, NewZonePos, ZoneStart, ZoneEnd, Zones

\* update_full_status keeps the zone positions in their zones.
LEMMA FullStatusOK ==
  ASSUME NEW full \in SUBSET Zones, NEW pos, ZonePosOK(pos),
         NEW s \in Seq(Int), NEW n \in Int,
         update_full_status(full, pos, s, n)
  PROVE  full_zones' \in SUBSET Zones /\ ZonePosOK(zone_pos')
<1>1. full_zones' \in SUBSET Zones
  BY DEF update_full_status
<1>2. ASSUME NEW z \in Reopened(s, n) PROVE FirstRunIn(s, z) \in Int
  <2> DEFINE S == {i \in RunStarts(s) : ZoneOf(s[i]) = z}
  <2>1. S \in SUBSET Nat /\ S # {} /\ S \subseteq DOMAIN s
    BY <1>2 DEF Reopened, RunStarts
  <2>2. Min(S) \in S
    BY <2>1, MinProperty
  <2>3. Min(S) \in DOMAIN s
    BY <2>1, <2>2
  <2> QED BY <2>3 DEF FirstRunIn
<1>3. \A z \in Zones : /\ zone_pos'[z] \in Nat
                       /\ zone_pos'[z] \in ZoneStart(z)..ZoneEnd(z)
  <2> TAKE z \in Zones
  <2>1. CASE z \in full \cap Reopened(s, n)
    <3>1. zone_pos'[z] = NewZonePos(pos, z, FirstRunIn(s, z))
      BY <2>1 DEF update_full_status
    <3> QED BY <1>2, <2>1, <3>1, NewZonePosOK
  <2>2. CASE z \notin full \cap Reopened(s, n)
    <3>1. zone_pos'[z] = pos[z]
      BY <2>2 DEF update_full_status
    <3> QED BY <3>1 DEF ZonePosOK
  <2> QED BY <2>1, <2>2
<1>4. zone_pos' \in [Zones -> Nat]
  BY <1>3 DEF update_full_status
<1> QED BY <1>1, <1>3, <1>4 DEF ZonePosOK

\* So does the update at the end of an allocation.
LEMMA PosAfterOK ==
  ASSUME TypeOK, op \in Locals, ~NoChunk, Bits \ Lcn \subseteq bmp,
         NEW n \in 0..Available
  PROVE  ZonePosOK(PosAfter(n))
<1>1. ZonePosOK(zone_pos)
  BY DEF TypeOK, ZonePosOK
<1>2. op.search_zone \in Zones /\ op.clusters \in Nat \ {0} /\ Skip \in Nat
  BY GeometryAssumption DEF Locals
<1>3. CASE n = op.clusters /\ op.used_zone_pos
  <2>1. TakeFrom \in Nat /\ n \in Nat
    BY <1>2, <1>3, TakenIsFree
  <2> DEFINE tc == TakeFrom + n + Skip
  <2>2. tc \in Int
    BY <1>2, <2>1
  <2>3. PosAfter(n) = [zone_pos EXCEPT ![op.search_zone] =
                         NewZonePos(zone_pos, op.search_zone, tc)]
    BY <1>3 DEF PosAfter
  <2> HIDE DEF tc
  <2> QED BY <1>1, <1>2, <2>2, <2>3, NewZonePosOK DEF ZonePosOK
<1>4. CASE ~(n = op.clusters /\ op.used_zone_pos)
  BY <1>1, <1>4 DEF PosAfter
<1> QED BY <1>3, <1>4

\* The number of clusters a free counts is a natural number.
LEMMA WholeRunsCount ==
  ASSUME NEW s, NEW n \in Nat
  PROVE  Cardinality(WholeRuns(s, n)) \in Nat
<1>1. IsFiniteSet(1..n)
  BY FS_Interval
<1>2. WholeRuns(s, n) \subseteq 1..n
  BY DEF WholeRuns
<1> QED BY <1>1, <1>2, FS_Subset, FS_CardinalityType

\* free_clusters never becomes negative.
LEMMA DecrementedOK ==
  ASSUME free_clusters \in Nat, NEW n \in Nat
  PROVE  Decremented(n) \in Nat
  BY DEF Decremented

\* The inductive invariant.  The clusters a call has taken so far are marked
\* on disk and distinct; the bits beyond the last cluster stay set; no cluster
\* of the metadata is ever freed.
GotIsPrivate ==
  /\ Clusters(got) \subseteq bmp
  /\ \A i, j \in DOMAIN got : got[i] = got[j] => i = j
  /\ op = Idle => got = << >>
PadIsSet == Bits \ Lcn \subseteq bmp
SystemIsSafe == System \cap stale = {}
IInv ==
  /\ TypeOK
  /\ NoDoubleAllocation
  /\ InUseIsMarked
  /\ GotIsPrivate
  /\ PadIsSet
  /\ SystemIsSafe

\* The program counter tells whether a call is under way.
LEMMA PcOfCall ==
  ASSUME TypeOK
  PROVE  /\ op.pc = "idle" => op = Idle
         /\ op.pc # "idle" => op \in Locals
  BY DEF TypeOK, Locals, Idle

\* How clusters, bits and the hole relate.
LEMMA LcnFacts ==
  /\ Lcn \subseteq Bits /\ Lcn \subseteq Int /\ Hole \in Int /\ Hole \notin Lcn
  /\ System \subseteq Lcn
  BY GeometryAssumption, SystemAssumption DEF Lcn, Bits, Hole

\* A sequence over a set is a sequence over a larger one.
LEMMA SeqOfSubset ==
  ASSUME NEW S, NEW T, S \subseteq T, NEW s \in Seq(S)
  PROVE  s \in Seq(T)
<1>1. Len(s) \in Nat /\ DOMAIN s = 1..Len(s) /\ \A i \in 1..Len(s) : s[i] \in T
  OBVIOUS
<1>2. s = [i \in 1..Len(s) |-> s[i]]
  OBVIOUS
<1> QED BY <1>1, <1>2

\* NoDoubleAllocation, for two given places.
LEMMA OneOwner ==
  ASSUME NoDoubleAllocation, NEW g \in Files, NEW h \in Files,
         NEW i \in DOMAIN rl[g], NEW j \in DOMAIN rl[h],
         rl[g][i] = rl[h][j], rl[g][i] \notin stale \cup {Hole}
  PROVE  g = h /\ i = j
  BY DEF NoDoubleAllocation

\* Assigning a local of ntfs_cluster_alloc keeps the type of the others.
LEMMA LocalsUpdate ==
  ASSUME NEW o \in Locals
  PROVE  /\ \A x \in {"scan", "pass_done"} : [o EXCEPT !.pc = x] \in Locals
         /\ \A x \in Nat \ {0} : [o EXCEPT !.clusters = x] \in Locals
         /\ \A x \in Nat : [o EXCEPT !.zone_start = x] \in Locals
         /\ \A x \in Nat : [o EXCEPT !.zone_end = x] \in Locals
         /\ \A x \in Nat : [o EXCEPT !.bmp_pos = x] \in Locals
         /\ \A x \in Zones : [o EXCEPT !.search_zone = x] \in Locals
         /\ \A x \in SUBSET Zones : [o EXCEPT !.done_zones = x] \in Locals
         /\ \A x \in BOOLEAN : [o EXCEPT !.has_guess = x] \in Locals
         /\ \A x \in BOOLEAN : [o EXCEPT !.used_zone_pos = x] \in Locals
         /\ \A x \in {1, 2} : [o EXCEPT !.pass = x] \in Locals
  BY Zenon DEF Locals

\* The inductive invariant holds after the mount.
LEMMA InitIInv == Init => IInv
<1> SUFFICES ASSUME Init PROVE IInv
  OBVIOUS
<1>1. TypeOK
  <2>1. /\ bmp \subseteq Bits /\ rl \in [Files -> Seq(Lcn \cup {Hole})]
        /\ free_clusters \in Nat /\ full_zones \subseteq Zones
        /\ op = Idle /\ got \in Seq(Lcn)
        /\ failed \in Nat /\ stale \subseteq Lcn
    BY LcnFacts DEF Init
  <2>3. counted \in BOOLEAN
    BY Zenon DEF Init
  <2>2. ZonePosOK(zone_pos)
    BY GeometryAssumption DEF Init, ZonePosOK, ZoneStart, ZoneEnd, Zones
  <2> QED BY <2>1, <2>2, <2>3 DEF TypeOK, ZonePosOK
<1>2. Owned = {} /\ Clusters(got) = {}
  BY DEF Init, Owned, Clusters
<1>3. NoDoubleAllocation
  BY <1>2 DEF Init, NoDoubleAllocation
<1> QED BY <1>1, <1>2, <1>3, LcnFacts
        DEF Init, IInv, InUseIsMarked, GotIsPrivate, PadIsSet, SystemIsSafe

\* It is kept by the start of ntfs_cluster_alloc, ...
LEMMA StartKeepsIInv ==
  ASSUME IInv, NEW f \in Files, NEW count \in Nat \ {0}, NEW start_lcn \in Int,
         NEW zone \in Zones, ntfs_cluster_alloc(f, count, start_lcn, zone)
  PROVE  IInv'
<1> USE DEF IInv
<1> DEFINE start == IF start_lcn >= 0 THEN start_lcn ELSE zone_pos[zone]
<1>1. start \in Nat
  BY DEF TypeOK
<1> HIDE DEF start
<1>2. op' \in Locals
  <2>1. ZoneOf(start) \in Zones /\ ZoneEnd(ZoneOf(start)) \in Nat
    BY GeometryAssumption DEF ZoneOf, ZoneEnd, Zones
  <2> QED BY <1>1, <2>1 DEF ntfs_cluster_alloc, Locals, start, TypeOK
<1>3. got' = << >> /\ got' \in Seq(Lcn) /\ Clusters(got') = {}
  BY DEF ntfs_cluster_alloc, Clusters
<1>4. /\ UNCHANGED <<bmp, rl, free_clusters, full_zones, zone_pos, counted, failed, stale>>
      /\ Owned' = Owned
  BY DEF ntfs_cluster_alloc, volume, ghosts, Owned
<1>5. TypeOK'
  BY <1>2, <1>3, <1>4 DEF TypeOK
<1>6. NoDoubleAllocation'
  BY <1>3, <1>4 DEF NoDoubleAllocation
<1>7. InUseIsMarked' /\ GotIsPrivate' /\ PadIsSet' /\ SystemIsSafe'
  BY <1>2, <1>3, <1>4 DEF InUseIsMarked, GotIsPrivate, PadIsSet, SystemIsSafe, Locals, Idle
<1> QED BY <1>5, <1>6, <1>7

\* What a call has taken stays private when a run of the chunk is added.
LEMMA ScanKeepsPrivate ==
  ASSUME IInv, op \in Locals, ~NoChunk, NEW m \in 0..Available
  PROVE  /\ got \o Taken(m) \in Seq(Lcn)
         /\ Clusters(got \o Taken(m)) = Clusters(got) \cup Clusters(Taken(m))
         /\ Clusters(got \o Taken(m)) \cap Owned \subseteq stale
         /\ Clusters(got \o Taken(m)) \cap System = {}
         /\ \A i, j \in DOMAIN (got \o Taken(m)) :
              (got \o Taken(m))[i] = (got \o Taken(m))[j] => i = j
<1> USE DEF IInv
<1> DEFINE t == Taken(m)
<1>1. /\ t \in Seq(Lcn) /\ Len(t) = m /\ DOMAIN t = 1..m
      /\ Clusters(t) \subseteq Lcn \ bmp
      /\ \A i, j \in 1..m : t[i] = t[j] => i = j
  BY TakenClusters DEF PadIsSet
<1>2. got \in Seq(Lcn)
  BY DEF TypeOK
<1> HIDE DEF t
<1>3. got \in Seq(Int) /\ t \in Seq(Int)
  BY <1>1, <1>2, LcnFacts, SeqOfSubset
<1>4. Clusters(got \o t) = Clusters(got) \cup Clusters(t)
  BY <1>3, Concatenation
<1>5. Clusters(t) \cap Owned \subseteq stale /\ Clusters(t) \cap System = {}
  BY <1>1 DEF InUseIsMarked, SystemIsSafe
<1>6. Clusters(got) \cap Owned \subseteq stale /\ Clusters(got) \cap System = {}
  BY DEF NoDoubleAllocation
<1>7. ASSUME NEW i \in DOMAIN (got \o t), NEW j \in DOMAIN (got \o t),
             (got \o t)[i] = (got \o t)[j]
      PROVE  i = j
  <2>1. \A k \in DOMAIN (got \o t) :
          \/ k \in DOMAIN got /\ (got \o t)[k] = got[k] /\ got[k] \in bmp
          \/ /\ k - Len(got) \in DOMAIN t /\ (got \o t)[k] = t[k - Len(got)]
             /\ t[k - Len(got)] \notin bmp
    <3> TAKE k \in DOMAIN (got \o t)
    <3>1. CASE k <= Len(got)
      <4>1. k \in DOMAIN got /\ (got \o t)[k] = got[k] /\ got[k] \in Lcn
        BY <1>1, <1>2, <3>1
      <4> QED BY <4>1, LcnFacts DEF GotIsPrivate, Clusters
    <3>2. CASE k > Len(got)
      <4>1. /\ k - Len(got) \in DOMAIN t /\ (got \o t)[k] = t[k - Len(got)]
            /\ t[k - Len(got)] \in Lcn
        BY <1>1, <1>2, <3>2
      <4> QED BY <1>1, <4>1, LcnFacts DEF Clusters
    <3> QED BY <1>2, <3>1, <3>2
  <2>2. CASE i \in DOMAIN got /\ j \in DOMAIN got /\ got[i] = got[j]
    BY <2>2 DEF GotIsPrivate
  <2>3. CASE /\ i - Len(got) \in DOMAIN t /\ j - Len(got) \in DOMAIN t
             /\ t[i - Len(got)] = t[j - Len(got)]
    <3>1. i - Len(got) = j - Len(got)
      BY <1>1, <2>3
    <3> QED BY <3>1, <1>1, <1>2
  <2> QED BY <1>7, <2>1, <2>2, <2>3
<1>8. got \o t \in Seq(Lcn)
  BY <1>1, <1>2
<1> QED BY <1>4, <1>5, <1>6, <1>7, <1>8 DEF t

\* ... by the last chunk, whose clusters become the file's, ...
LEMMA ScanLastKeepsIInv ==
  ASSUME IInv, ScanLast
  PROVE  IInv'
<1> USE DEF IInv
<1> DEFINE new == got \o Taken(Available)
           f == op.file
<1>1. op \in Locals /\ ~NoChunk
  BY PcOfCall DEF ScanLast
<1>2. Available \in Nat /\ Available \in 0..Available
  BY <1>1, TakenIsFree DEF PadIsSet
<1>3. /\ new \in Seq(Lcn)
      /\ Clusters(new) = Clusters(got) \cup Clusters(Taken(Available))
      /\ Clusters(new) \cap Owned \subseteq stale
      /\ Clusters(new) \cap System = {}
      /\ \A i, j \in DOMAIN new : new[i] = new[j] => i = j
  BY <1>1, <1>2, ScanKeepsPrivate
<1>4. Clusters(Taken(Available)) \subseteq Lcn \ bmp
  BY <1>1, <1>2, TakenClusters DEF PadIsSet
<1>5. f \in Files /\ rl[f] \in Seq(Lcn \cup {Hole})
  BY <1>1 DEF Locals, TypeOK
<1>6. /\ bmp' = bmp \cup Clusters(Taken(Available))
      /\ zone_pos' = PosAfter(Available)
      /\ free_clusters' = Decremented(Available)
      /\ op' = Idle /\ got' = << >>
      /\ UNCHANGED <<full_zones, counted, failed, stale>>
  BY DEF ScanLast, ghosts
<1>7. rl' = [rl EXCEPT ![f] = rl[f] \o new]
  BY DEF ScanLast
<1> HIDE DEF new, f
<1>8. /\ rl' \in [Files -> Seq(Lcn \cup {Hole})]
      /\ \A g \in Files \ {f} : rl'[g] = rl[g]
      /\ rl'[f] = rl[f] \o new
  <2>1. new \in Seq(Lcn \cup {Hole})
    BY <1>3, SeqOfSubset
  <2>2. rl[f] \o new \in Seq(Lcn \cup {Hole})
    BY <1>5, <2>1
  <2> QED BY <1>5, <1>7, <2>2 DEF TypeOK
<1>9. TypeOK'
  <2>1. ZonePosOK(zone_pos')
    BY <1>1, <1>2, <1>6, PosAfterOK DEF PadIsSet
  <2>2. free_clusters' \in Nat
    BY <1>2, <1>6, DecrementedOK DEF TypeOK
  <2>3. bmp' \subseteq Bits
    BY <1>4, <1>6, LcnFacts DEF TypeOK
  <2> QED BY <1>6, <1>8, <2>1, <2>2, <2>3 DEF TypeOK, ZonePosOK
<1>10. \A g \in Files : \A k \in DOMAIN rl'[g] :
         \/ k \in DOMAIN rl[g] /\ rl'[g][k] = rl[g][k]
         \/ /\ g = f /\ k - Len(rl[f]) \in DOMAIN new
            /\ rl'[g][k] = new[k - Len(rl[f])] /\ rl'[g][k] \in Clusters(new)
  <2> TAKE g \in Files
  <2> TAKE k \in DOMAIN rl'[g]
  <2>1. CASE g # f
    BY <1>8, <2>1
  <2>2. CASE g = f
    <3>1. new \in Seq(Lcn \cup {Hole})
      BY <1>3, SeqOfSubset
    <3>2. k \in DOMAIN (rl[f] \o new) /\ rl'[g] = rl[f] \o new
      BY <1>8, <2>2
    <3>3. \A i \in DOMAIN new : new[i] \in Clusters(new)
      BY <1>3, LcnFacts DEF Clusters
    <3> QED BY <1>5, <2>2, <3>1, <3>2, <3>3, ConcatIndex
  <2> QED BY <2>1, <2>2
<1>11. \A g \in Files : \A k \in DOMAIN rl[g] : rl[g][k] \in Owned \cup {Hole}
  BY DEF Owned, Clusters
<1>12. Owned' \subseteq Owned \cup Clusters(new)
  BY <1>10, <1>11 DEF Owned, Clusters
<1>13. Clusters(got') = {}
  BY <1>6 DEF Clusters
<1>14. NoDoubleAllocation'
  <2>1. ASSUME NEW g \in Files, NEW h \in Files, NEW i \in DOMAIN rl'[g],
               NEW j \in DOMAIN rl'[h], rl'[g][i] = rl'[h][j],
               rl'[g][i] \notin stale \cup {Hole}
        PROVE  g = h /\ i = j
    <3>1. CASE /\ i \in DOMAIN rl[g] /\ rl'[g][i] = rl[g][i]
               /\ j \in DOMAIN rl[h] /\ rl'[h][j] = rl[h][j]
      <4>1. rl[g][i] = rl[h][j] /\ rl[g][i] \notin stale \cup {Hole}
        BY <2>1, <3>1
      <4> QED BY <3>1, <4>1, OneOwner
    <3>2. CASE /\ g = f /\ i - Len(rl[f]) \in DOMAIN new
               /\ rl'[g][i] = new[i - Len(rl[f])]
               /\ h = f /\ j - Len(rl[f]) \in DOMAIN new
               /\ rl'[h][j] = new[j - Len(rl[f])]
      <4>1. i - Len(rl[f]) = j - Len(rl[f])
        BY <1>3, <2>1, <3>2
      <4>2. i \in Int /\ j \in Int /\ Len(rl[f]) \in Int
        BY <1>5, <1>8
      <4> QED BY <3>2, <4>1, <4>2
    <3>3. CASE rl'[g][i] \in Clusters(new) /\ j \in DOMAIN rl[h] /\ rl'[h][j] = rl[h][j]
      BY <1>3, <1>11, <2>1, <3>3
    <3>4. CASE rl'[h][j] \in Clusters(new) /\ i \in DOMAIN rl[g] /\ rl'[g][i] = rl[g][i]
      BY <1>3, <1>11, <2>1, <3>4
    <3> QED BY <1>10, <3>1, <3>2, <3>3, <3>4
  <2>2. System \cap Owned' = {}
    BY <1>3, <1>12 DEF NoDoubleAllocation
  <2> QED BY <1>6, <1>13, <2>1, <2>2 DEF NoDoubleAllocation
<1>15. InUseIsMarked'
  BY <1>3, <1>6, <1>12, <1>13 DEF InUseIsMarked, GotIsPrivate
<1>16. GotIsPrivate' /\ PadIsSet' /\ SystemIsSafe'
  BY <1>6, <1>13 DEF GotIsPrivate, PadIsSet, SystemIsSafe
<1> QED BY <1>9, <1>14, <1>15, <1>16

\* ... by the chunks before, ...
LEMMA ScanMoreKeepsIInv ==
  ASSUME IInv, ScanMore
  PROVE  IInv'
<1> USE DEF IInv
<1>1. op \in Locals /\ ~NoChunk /\ Available < op.clusters
  BY PcOfCall DEF ScanMore
<1>2. Available \in Nat /\ Available \in 0..Available
  BY <1>1, TakenIsFree DEF PadIsSet
<1>3. /\ got' \in Seq(Lcn)
      /\ Clusters(got') = Clusters(got) \cup Clusters(Taken(Available))
      /\ Clusters(got') \cap Owned \subseteq stale
      /\ Clusters(got') \cap System = {}
      /\ \A i, j \in DOMAIN got' : got'[i] = got'[j] => i = j
  BY <1>1, <1>2, ScanKeepsPrivate DEF ScanMore
<1>4. Clusters(Taken(Available)) \subseteq Lcn \ bmp
  BY <1>1, <1>2, TakenClusters DEF PadIsSet
<1>5. /\ bmp' = bmp \cup Clusters(Taken(Available))
      /\ free_clusters' = Decremented(Available)
      /\ UNCHANGED <<rl, full_zones, zone_pos, counted, failed, stale>>
      /\ Owned' = Owned
  BY DEF ScanMore, ghosts, Owned
<1>6. op' \in Locals
  <2>1. WindowEnd \in Nat
    BY <1>1, WindowBounds DEF Locals
  <2>2. zone_pos[op.search_zone] \in Nat
    BY <1>1 DEF Locals, TypeOK
  <2> DEFINE start == IF op.used_zone_pos THEN op.zone_start ELSE zone_pos[op.search_zone]
             pos == IF op.used_zone_pos THEN WindowEnd ELSE start
             left == op.clusters - Available
             guess == Available > 0 /\ RunEnd(TakeFrom) = WindowEnd
             pass == IF ~op.used_zone_pos /\ start \in {0, MftZoneStart, MftZoneEnd}
                     THEN 2 ELSE op.pass
             pc == IF pos < op.zone_end THEN "scan" ELSE "pass_done"
  <2>3. op' = [op EXCEPT !.clusters = left, !.has_guess = guess, !.used_zone_pos = TRUE,
                 !.zone_start = start, !.bmp_pos = pos, !.pass = pass, !.pc = pc]
    BY Zenon DEF ScanMore
  <2>4. left \in Nat \ {0}
    BY <1>1, <1>2 DEF Locals
  <2>5. start \in Nat /\ pos \in Nat
    BY <1>1, <2>1, <2>2 DEF Locals
  <2>6. guess \in BOOLEAN /\ TRUE \in BOOLEAN
    BY Zenon
  <2>7. pass \in {1, 2} /\ pc \in {"scan", "pass_done"}
    BY <1>1, Zenon DEF Locals
  <2> HIDE DEF start, pos, left, guess, pass, pc
  <2> QED BY <1>1, <2>3, <2>4, <2>5, <2>6, <2>7, LocalsUpdate, Zenon
<1>7. TypeOK'
  <2>1. free_clusters' \in Nat
    BY <1>2, <1>5, DecrementedOK DEF TypeOK
  <2>2. bmp' \subseteq Bits
    BY <1>4, <1>5, LcnFacts DEF TypeOK
  <2> QED BY <1>3, <1>5, <1>6, <2>1, <2>2 DEF TypeOK
<1>8. NoDoubleAllocation'
  BY <1>3, <1>5 DEF NoDoubleAllocation
<1>9. InUseIsMarked' /\ PadIsSet' /\ SystemIsSafe'
  BY <1>3, <1>5 DEF InUseIsMarked, PadIsSet, SystemIsSafe, GotIsPrivate
<1>10. GotIsPrivate'
  BY <1>3, <1>5, <1>6 DEF GotIsPrivate, Locals, Idle
<1> QED BY <1>7, <1>8, <1>9, <1>10

\* ... by the steps from pass to pass and from zone to zone, ...
LEMMA ZoneStepsKeepIInv ==
  ASSUME IInv, SkipChunk \/ SecondPass \/ SwitchZone
  PROVE  IInv'
<1> USE DEF IInv
<1>1. op \in Locals
  BY PcOfCall DEF SkipChunk, SecondPass, SwitchZone
<1>2. /\ UNCHANGED <<bmp, rl, free_clusters, got, counted, failed, stale>>
      /\ Owned' = Owned
  BY DEF SkipChunk, SecondPass, SwitchZone, volume, ghosts, Owned
<1>3. op' \in Locals /\ full_zones' \subseteq Zones /\ ZonePosOK(zone_pos')
  <2>1. CASE SkipChunk
    BY <1>1, <2>1 DEF SkipChunk, volume, Locals, TypeOK, ZonePosOK
  <2>2. CASE SecondPass
    <3>1. ZoneStart(op.search_zone) \in Nat
      BY GeometryAssumption DEF ZoneStart
    <3>2. op.zone_start \in Nat
      BY <1>1 DEF Locals
    <3>3. Max({op.zone_start, ZoneStart(op.search_zone)}) \in Nat
      <4>1. \E x \in {op.zone_start, ZoneStart(op.search_zone)} :
              \A y \in {op.zone_start, ZoneStart(op.search_zone)} : x >= y
        BY <3>1, <3>2
      <4> QED BY <3>1, <3>2, <4>1 DEF Max
    <3>4. op' \in Locals
      BY <1>1, <2>2, <3>1, <3>3, LocalsUpdate, Zenon DEF SecondPass
    <3> QED BY <2>2, <3>4 DEF SecondPass, volume, TypeOK, ZonePosOK
  <2>3. CASE SwitchZone
    <3> DEFINE z == NextZone(op.search_zone, op.done_zones \cup {op.search_zone})
    <3>1. op.search_zone \in Zones /\ z \in Zones /\ ZoneEnd(z) \in Nat
      BY <1>1, GeometryAssumption DEF Locals, NextZone, Zones, ZoneEnd
    <3>2. ZonePosOK(zone_pos')
      <4>1. ZonePosOK(zone_pos)
        BY DEF TypeOK, ZonePosOK
      <4>2. got # << >> => Last(got) + 1 + Skip \in Int
        <5>1. got # << >> => Len(got) \in DOMAIN got /\ got[Len(got)] \in Lcn
          BY DEF TypeOK
        <5>2. got # << >> => Last(got) \in Int
          BY <5>1, LcnFacts DEF Last
        <5>3. Skip \in Nat
          BY GeometryAssumption
        <5> QED BY <5>2, <5>3
      <4>3. CASE got # << >> /\ op.used_zone_pos
        <5>1. zone_pos' = [zone_pos EXCEPT ![op.search_zone] =
                 NewZonePos(zone_pos, op.search_zone, Last(got) + 1 + Skip)]
          BY <2>3, <4>3 DEF SwitchZone
        <5>2. NewZonePos(zone_pos, op.search_zone, Last(got) + 1 + Skip) \in Nat
              /\ NewZonePos(zone_pos, op.search_zone, Last(got) + 1 + Skip)
                   \in ZoneStart(op.search_zone)..ZoneEnd(op.search_zone)
          BY <3>1, <4>1, <4>2, <4>3, NewZonePosOK
        <5> QED BY <3>1, <4>1, <5>1, <5>2 DEF ZonePosOK
      <4>4. CASE ~(got # << >> /\ op.used_zone_pos)
        <5>1. zone_pos' = [zone_pos EXCEPT ![op.search_zone] = zone_pos[op.search_zone]]
          BY <2>3, <4>4 DEF SwitchZone
        <5> QED BY <3>1, <4>1, <5>1 DEF ZonePosOK
      <4> QED BY <4>3, <4>4
    <3>3. full_zones' \subseteq Zones
      BY <2>3, <3>1 DEF SwitchZone, TypeOK
    <3>4. zone_pos'[z] \in Nat
      BY <3>1, <3>2 DEF ZonePosOK
    <3>5. op' = [op EXCEPT
            !.done_zones = op.done_zones \cup {op.search_zone}, !.search_zone = z,
            !.zone_start = zone_pos'[z], !.bmp_pos = zone_pos'[z], !.zone_end = ZoneEnd(z),
            !.pass = IF zone_pos'[z] = ZoneStart(z) \/ zone_pos'[z] = ZoneEnd(z) THEN 2 ELSE 1,
            !.pc = IF zone_pos'[z] = ZoneEnd(z) THEN "pass_done" ELSE "scan"]
      BY <2>3, Zenon DEF SwitchZone
    <3> HIDE DEF z
    <3>6. op' \in Locals
      <4> DEFINE pass == IF zone_pos'[z] = ZoneStart(z) \/ zone_pos'[z] = ZoneEnd(z)
                         THEN 2 ELSE 1
                 pc == IF zone_pos'[z] = ZoneEnd(z) THEN "pass_done" ELSE "scan"
                 done == op.done_zones \cup {op.search_zone}
      <4>1. pass \in {1, 2} /\ pc \in {"scan", "pass_done"}
        BY Zenon
      <4>2. done \in SUBSET Zones
        BY <1>1 DEF Locals
      <4>3. op' = [op EXCEPT !.done_zones = done, !.search_zone = z,
                     !.zone_start = zone_pos'[z], !.bmp_pos = zone_pos'[z],
                     !.zone_end = ZoneEnd(z), !.pass = pass, !.pc = pc]
        BY <3>5, Zenon
      <4> HIDE DEF pass, pc, done
      <4> QED BY <1>1, <3>1, <3>4, <4>1, <4>2, <4>3, LocalsUpdate, Zenon
    <3> QED BY <3>2, <3>3, <3>6
  <2> QED BY <2>1, <2>2, <2>3
<1>4. TypeOK'
  BY <1>2, <1>3 DEF TypeOK, ZonePosOK
<1>5. NoDoubleAllocation'
  BY <1>2 DEF NoDoubleAllocation
<1>6. InUseIsMarked' /\ GotIsPrivate' /\ PadIsSet' /\ SystemIsSafe'
  BY <1>2, <1>3 DEF InUseIsMarked, GotIsPrivate, PadIsSet, SystemIsSafe, Locals, Idle
<1> QED BY <1>4, <1>5, <1>6

\* ... by err_ret, however far the freeing gets, ...
LEMMA RollbackKeepsIInv ==
  ASSUME IInv, op \in Locals,
         NEW s \in Seq(Lcn), NEW n \in 0..Len(s), NEW written \in SUBSET Lcn,
         NEW taken \in Nat, NEW full \in SUBSET Zones, ZonePosOK(PosAfter(taken)),
         Clusters(s) \cap Owned \subseteq stale, Clusters(s) \cap System = {},
         Rollback(s, n, written, taken, full),
         failed' \in Nat, stale' = stale
  PROVE  IInv'
<1> USE DEF IInv
<1> DEFINE freed == {s[i] : i \in 1..n}
<1>1. /\ bmp' = (bmp \cup written) \ freed
      /\ op' = Idle /\ got' = << >>
      /\ UNCHANGED <<rl, counted>>
  BY DEF Rollback
<1>2. freed \subseteq Clusters(s) /\ freed \subseteq Lcn
  BY LcnFacts DEF Clusters
<1> HIDE DEF freed
<1>3. Owned' = Owned /\ Clusters(got') = {}
  BY <1>1 DEF Owned, Clusters
<1>4. TypeOK'
  <2>1. full_zones' \in SUBSET Zones /\ ZonePosOK(zone_pos')
    <3>1. s \in Seq(Int)
      BY LcnFacts, SeqOfSubset
    <3>2. n + 1 \in Int /\ Len(s) \in Int
      OBVIOUS
    <3>3. Min({n + 1, Len(s)}) \in Int
      BY <3>2, MinOfTwo
    <3>4. update_full_status(full, PosAfter(taken), s, Min({n + 1, Len(s)}))
      BY DEF Rollback
    <3> QED BY <3>1, <3>3, <3>4, FullStatusOK
  <2>2. free_clusters' \in Nat
    <3>1. Decremented(taken) \in Nat
      BY DecrementedOK DEF TypeOK
    <3>2. Cardinality(WholeRuns(s, n)) \in Nat
      BY WholeRunsCount
    <3>3. free_clusters' = Decremented(taken) + Cardinality(WholeRuns(s, n))
      BY DEF Rollback
    <3> QED BY <3>1, <3>2, <3>3
  <2>3. bmp' \subseteq Bits
    BY <1>1, LcnFacts DEF TypeOK
  <2>4. got' \in Seq(Lcn)
    BY <1>1
  <2> QED BY <1>1, <2>1, <2>2, <2>3, <2>4 DEF TypeOK, ZonePosOK
<1>5. NoDoubleAllocation'
  BY <1>1, <1>3 DEF NoDoubleAllocation
<1>6. InUseIsMarked'
  BY <1>1, <1>2, <1>3 DEF InUseIsMarked
<1>7. GotIsPrivate' /\ PadIsSet' /\ SystemIsSafe'
  BY <1>1, <1>2, <1>3 DEF GotIsPrivate, PadIsSet, SystemIsSafe
<1> QED BY <1>4, <1>5, <1>6, <1>7

\* ... hence by a call that finds no space ...
LEMMA NoSpaceKeepsIInv ==
  ASSUME IInv, NoSpace
  PROVE  IInv'
<1> USE DEF IInv
<1>1. op \in Locals
  BY PcOfCall DEF NoSpace
<1>2. got \in Seq(Lcn) /\ Len(got) \in 0..Len(got)
  BY DEF TypeOK
<1>3. full_zones \cup {op.search_zone} \in SUBSET Zones
  BY <1>1 DEF TypeOK, Locals
<1>4. ZonePosOK(PosAfter(0))
  BY <1>1 DEF PosAfter, Locals, TypeOK, ZonePosOK
<1>5. Clusters(got) \cap Owned \subseteq stale /\ Clusters(got) \cap System = {}
  BY DEF NoDoubleAllocation
<1>6. /\ Rollback(got, Len(got), {}, 0, full_zones \cup {op.search_zone})
      /\ failed' \in Nat /\ stale' = stale
  BY DEF NoSpace, TypeOK
<1> HIDE DEF IInv
<1> QED BY <1>1, <1>2, <1>3, <1>4, <1>5, <1>6, RollbackKeepsIInv

\* ... and by one an error strikes, ...
LEMMA ScanFailsKeepsIInv ==
  ASSUME IInv, ScanFails
  PROVE  IInv'
<1> USE DEF IInv
<1>1. op \in Locals /\ ~NoChunk
  BY PcOfCall DEF ScanFails
<1>2. PICK m \in 0..Available : \E w \in 0..m : \E n \in 0..(Len(got) + m) :
        Rollback(got \o Taken(m), n, Clusters(Taken(w)), m, full_zones)
  BY DEF ScanFails
<1>3. PICK w \in 0..m, n \in 0..(Len(got) + m) :
        Rollback(got \o Taken(m), n, Clusters(Taken(w)), m, full_zones)
  BY <1>2
<1>4. m \in Nat /\ w \in 0..Available
  <2>1. Available \in Nat
    BY <1>1, TakenIsFree DEF PadIsSet
  <2> QED BY <2>1
<1>5. Clusters(Taken(w)) \in SUBSET Lcn
  BY <1>1, <1>4, TakenClusters DEF PadIsSet
<1>6. Len(got \o Taken(m)) = Len(got) + m
  <2>1. Taken(m) \in Seq(Lcn) /\ Len(Taken(m)) = m /\ got \in Seq(Lcn)
    BY <1>1, TakenClusters DEF PadIsSet, TypeOK
  <2> QED BY <2>1
<1>7. /\ got \o Taken(m) \in Seq(Lcn)
      /\ Clusters(got \o Taken(m)) \cap Owned \subseteq stale
      /\ Clusters(got \o Taken(m)) \cap System = {}
  BY <1>1, ScanKeepsPrivate
<1>8. ZonePosOK(PosAfter(m))
  BY <1>1, PosAfterOK DEF PadIsSet
<1>9. failed' \in Nat /\ stale' = stale /\ full_zones \in SUBSET Zones
  BY DEF ScanFails, TypeOK
<1> HIDE DEF IInv
<1> QED BY <1>1, <1>3, <1>4, <1>5, <1>6, <1>7, <1>8, <1>9, RollbackKeepsIInv

\* ... by appending a sparse run, ...
LEMMA SparseKeepsIInv ==
  ASSUME IInv, NEW f \in Files, ExpandSparse(f)
  PROVE  IInv'
<1> USE DEF IInv
<1>1. /\ UNCHANGED <<bmp, free_clusters, full_zones, zone_pos, op, got, counted, failed, stale>>
      /\ rl' = [rl EXCEPT ![f] = Append(rl[f], Hole)]
  BY DEF ExpandSparse, volume, ghosts
<1>2. rl[f] \in Seq(Lcn \cup {Hole})
  BY DEF TypeOK
<1>3. rl' \in [Files -> Seq(Lcn \cup {Hole})]
  BY <1>1, <1>2 DEF TypeOK
<1>4. \A g \in Files : \A k \in DOMAIN rl'[g] :
        rl'[g][k] = Hole \/ (k \in DOMAIN rl[g] /\ rl'[g][k] = rl[g][k])
  BY <1>1, <1>2 DEF TypeOK
<1>5. Owned' \subseteq Owned
  BY <1>4 DEF Owned, Clusters
<1>6. NoDoubleAllocation'
  <2>1. ASSUME NEW g \in Files, NEW h \in Files, NEW i \in DOMAIN rl'[g],
               NEW j \in DOMAIN rl'[h], rl'[g][i] = rl'[h][j],
               rl'[g][i] \notin stale \cup {Hole}
        PROVE  g = h /\ i = j
    <3>1. /\ i \in DOMAIN rl[g] /\ j \in DOMAIN rl[h]
          /\ rl[g][i] = rl[h][j] /\ rl[g][i] \notin stale \cup {Hole}
      BY <1>4, <2>1
    <3> QED BY <3>1, OneOwner
  <2> QED BY <1>1, <1>5, <2>1 DEF NoDoubleAllocation
<1>7. TypeOK'
  BY <1>1, <1>3 DEF TypeOK
<1>8. InUseIsMarked' /\ GotIsPrivate' /\ PadIsSet' /\ SystemIsSafe'
  BY <1>1, <1>5 DEF InUseIsMarked, GotIsPrivate, PadIsSet, SystemIsSafe
<1> QED BY <1>6, <1>7, <1>8

\* What ntfs_cluster_free does to the volume.
LEMMA FreeKeepsTypes ==
  ASSUME IInv, NEW f \in Files, NEW vcn \in Nat, vcn < Len(rl[f]),
         NEW n \in 0..(Len(rl[f]) - vcn), ntfs_cluster_free(Tail_(f, vcn), n)
  PROVE  /\ free_clusters' \in Nat /\ full_zones' \subseteq Zones /\ ZonePosOK(zone_pos')
         /\ bmp' = bmp \ ({rl[f][vcn + i] : i \in 1..n} \ {Hole})
         /\ bmp' \subseteq Bits
         /\ Bits \ Lcn \subseteq bmp'
<1> USE DEF IInv
<1> DEFINE s == Tail_(f, vcn)
<1>1. rl[f] \in Seq(Lcn \cup {Hole})
  BY DEF TypeOK
<1>2. /\ s \in Seq(Lcn \cup {Hole}) /\ Len(s) = Len(rl[f]) - vcn
      /\ \A i \in 1..n : s[i] = rl[f][vcn + i] /\ vcn + i \in DOMAIN rl[f]
  BY <1>1 DEF Tail_
<1> HIDE DEF s
<1>3. ntfs_cluster_free(s, n)
  BY DEF s
<1>4. free_clusters' \in Nat
  <2>1. Cardinality(WholeRuns(s, n)) \in Nat
    BY <1>1, WholeRunsCount
  <2>2. free_clusters' = free_clusters + Cardinality(WholeRuns(s, n))
    BY <1>3 DEF ntfs_cluster_free
  <2> QED BY <2>1, <2>2 DEF TypeOK
<1>5. full_zones' \subseteq Zones /\ ZonePosOK(zone_pos')
  <2>1. s \in Seq(Int)
    BY <1>2, LcnFacts, SeqOfSubset
  <2>2. n + 1 \in Int /\ Len(s) \in Int
    BY <1>1, <1>2
  <2>3. Min({n + 1, Len(s)}) \in Int
    BY <2>2, MinOfTwo
  <2>4. ZonePosOK(zone_pos) /\ full_zones \in SUBSET Zones
    BY DEF TypeOK, ZonePosOK
  <2>5. update_full_status(full_zones, zone_pos, s, Min({n + 1, Len(s)}))
    BY <1>3 DEF ntfs_cluster_free
  <2> QED BY <2>1, <2>3, <2>4, <2>5, FullStatusOK
<1>6. bmp' = bmp \ ({rl[f][vcn + i] : i \in 1..n} \ {Hole})
  <2>1. {s[i] : i \in 1..n} = {rl[f][vcn + i] : i \in 1..n}
    BY <1>2
  <2> QED BY <1>3, <2>1 DEF ntfs_cluster_free
<1>7. {rl[f][vcn + i] : i \in 1..n} \subseteq Lcn \cup {Hole}
  BY <1>1, <1>2
<1>8. bmp' \subseteq Bits /\ Bits \ Lcn \subseteq bmp'
  BY <1>6, <1>7 DEF TypeOK, PadIsSet
<1> QED BY <1>4, <1>5, <1>6, <1>8

\* ... by ntfs_non_resident_attr_shrink, because no other file has its clusters, ...
LEMMA ShrinkKeepsIInv ==
  ASSUME IInv, NEW f \in Files, NEW vcn \in Nat, Shrink(f, vcn)
  PROVE  IInv'
<1> USE DEF IInv
<1> DEFINE n == Len(rl[f]) - vcn
           freed == {rl[f][vcn + i] : i \in 1..n} \ {Hole}
<1>1. rl[f] \in Seq(Lcn \cup {Hole}) /\ vcn < Len(rl[f])
  BY DEF TypeOK, Shrink
<1>2. n \in 0..n /\ n \in Nat /\ ntfs_cluster_free(Tail_(f, vcn), n)
  BY <1>1 DEF Shrink
<1>3. /\ free_clusters' \in Nat /\ full_zones' \subseteq Zones /\ ZonePosOK(zone_pos')
      /\ bmp' = bmp \ freed
      /\ bmp' \subseteq Bits
      /\ Bits \ Lcn \subseteq bmp'
  BY <1>1, <1>2, FreeKeepsTypes
<1>4. /\ UNCHANGED <<op, got, counted, failed, stale>>
      /\ rl' = [rl EXCEPT ![f] = SubSeq(rl[f], 1, vcn)]
  BY DEF Shrink, ghosts
<1>5. /\ rl' \in [Files -> Seq(Lcn \cup {Hole})]
      /\ \A g \in Files : \A k \in DOMAIN rl'[g] :
           k \in DOMAIN rl[g] /\ rl'[g][k] = rl[g][k] /\ (g = f => k <= vcn)
  <2>1. /\ SubSeq(rl[f], 1, vcn) \in Seq(Lcn \cup {Hole})
        /\ DOMAIN SubSeq(rl[f], 1, vcn) = 1..vcn
        /\ \A k \in 1..vcn : SubSeq(rl[f], 1, vcn)[k] = rl[f][k] /\ k \in DOMAIN rl[f]
    BY <1>1
  <2> QED BY <1>4, <2>1 DEF TypeOK
<1>6. Owned' \subseteq Owned
  BY <1>5 DEF Owned, Clusters
<1>7. NoDoubleAllocation'
  <2>1. ASSUME NEW g \in Files, NEW h \in Files, NEW i \in DOMAIN rl'[g],
               NEW j \in DOMAIN rl'[h], rl'[g][i] = rl'[h][j],
               rl'[g][i] \notin stale \cup {Hole}
        PROVE  g = h /\ i = j
    <3>1. /\ i \in DOMAIN rl[g] /\ j \in DOMAIN rl[h]
          /\ rl[g][i] = rl[h][j] /\ rl[g][i] \notin stale \cup {Hole}
      BY <1>5, <2>1
    <3> QED BY <3>1, OneOwner
  <2> QED BY <1>4, <1>6, <2>1 DEF NoDoubleAllocation
<1>8. Clusters(got) = {}
  BY PcOfCall DEF Shrink, GotIsPrivate, Clusters
<1>9. InUseIsMarked'
  <2>1. ASSUME NEW c \in Owned', c \notin stale PROVE c \in bmp'
    <3>0. PICK g \in Files : \E k \in DOMAIN rl'[g] : c = rl'[g][k] /\ c # Hole
      BY DEF Owned, Clusters
    <3>1. PICK k \in DOMAIN rl'[g] : c = rl'[g][k] /\ c # Hole
      BY <3>0
    <3>2. k \in DOMAIN rl[g] /\ c = rl[g][k] /\ (g = f => k <= vcn)
      BY <1>5, <3>1
    <3>3. c \in bmp
      BY <1>6, <2>1 DEF InUseIsMarked
    <3>4. c \notin freed
      <4> SUFFICES ASSUME NEW i \in 1..n, c = rl[f][vcn + i] PROVE FALSE
        OBVIOUS
      <4>1. vcn + i \in DOMAIN rl[f] /\ vcn + i > vcn
        BY <1>1
      <4> DEFINE j == vcn + i
      <4> HIDE DEF j
      <4>2. g = f /\ k = j
        <5>1. /\ j \in DOMAIN rl[f] /\ k \in DOMAIN rl[g]
              /\ rl[g][k] = rl[f][j] /\ rl[g][k] \notin stale \cup {Hole}
          BY <2>1, <3>1, <3>2, <4>1 DEF j
        <5> QED BY <5>1, OneOwner
      <4> USE DEF j
      <4> QED BY <3>2, <4>1, <4>2
    <3> QED BY <1>3, <3>3, <3>4
  <2>2. freed \subseteq Owned
    <3>1. \A i \in 1..n : vcn + i \in DOMAIN rl[f]
      BY <1>1
    <3> QED BY <3>1 DEF Owned, Clusters
  <2>3. System \cap freed = {}
    BY <2>2 DEF NoDoubleAllocation
  <2>4. System \subseteq bmp'
    BY <1>3, <2>3 DEF InUseIsMarked, SystemIsSafe
  <2> QED BY <1>4, <1>8, <2>1, <2>4 DEF InUseIsMarked
<1>10. TypeOK'
  BY <1>3, <1>4, <1>5 DEF TypeOK, ZonePosOK
<1>11. GotIsPrivate' /\ PadIsSet' /\ SystemIsSafe'
  BY <1>3, <1>4, <1>8 DEF GotIsPrivate, PadIsSet, SystemIsSafe
<1> QED BY <1>7, <1>9, <1>10, <1>11

\* ... by one that fails half way, whose clusters become stale, ...
LEMMA ShrinkFailsKeepsIInv ==
  ASSUME IInv, NEW f \in Files, NEW vcn \in Nat, ShrinkFails(f, vcn)
  PROVE  IInv'
<1> USE DEF IInv
<1>1. rl[f] \in Seq(Lcn \cup {Hole}) /\ vcn < Len(rl[f])
  BY DEF TypeOK, ShrinkFails
<1>2. PICK n \in 0..(Len(rl[f]) - vcn - 1) :
        /\ ntfs_cluster_free(Tail_(f, vcn), n)
        /\ stale' = stale \cup Clusters(SubSeq(rl[f], vcn + 1, vcn + n))
  BY DEF ShrinkFails
<1> DEFINE freed == {rl[f][vcn + i] : i \in 1..n} \ {Hole}
<1>3. n \in 0..(Len(rl[f]) - vcn)
  BY <1>1
<1>4. /\ free_clusters' \in Nat /\ full_zones' \subseteq Zones /\ ZonePosOK(zone_pos')
      /\ bmp' = bmp \ freed
      /\ bmp' \subseteq Bits
      /\ Bits \ Lcn \subseteq bmp'
  BY <1>1, <1>2, <1>3, FreeKeepsTypes
<1>5. \A i \in 1..n : vcn + i \in DOMAIN rl[f]
  BY <1>1
<1>6. freed \subseteq Owned /\ freed \subseteq Lcn
  BY <1>1, <1>5 DEF Owned, Clusters
<1>7. stale' = stale \cup freed
  <2> DEFINE t == SubSeq(rl[f], vcn + 1, vcn + n)
  <2>1. DOMAIN t = 1..n /\ \A i \in 1..n : t[i] = rl[f][vcn + i]
    BY <1>1
  <2>2. Clusters(t) = freed
    BY <2>1 DEF Clusters
  <2> QED BY <1>2, <2>2
<1> HIDE DEF freed
<1>8. /\ UNCHANGED <<rl, op, got, counted>> /\ Owned' = Owned
      /\ failed' \in Nat
  BY DEF ShrinkFails, Owned, TypeOK
<1>9. Clusters(got) = {}
  BY PcOfCall DEF ShrinkFails, GotIsPrivate, Clusters
<1>10. TypeOK'
  BY <1>4, <1>6, <1>7, <1>8 DEF TypeOK, ZonePosOK
<1>11. NoDoubleAllocation'
  BY <1>7, <1>8, <1>9 DEF NoDoubleAllocation
<1>12. InUseIsMarked'
  BY <1>4, <1>7, <1>8, <1>9 DEF InUseIsMarked
<1>13. GotIsPrivate' /\ PadIsSet' /\ SystemIsSafe'
  BY <1>4, <1>6, <1>7, <1>8, <1>9 DEF GotIsPrivate, PadIsSet, SystemIsSafe, NoDoubleAllocation
<1> QED BY <1>10, <1>11, <1>12, <1>13

\* ... and by ntfs_volume_get_free_space.
LEMMA CountKeepsIInv ==
  ASSUME IInv, ntfs_volume_get_free_space
  PROVE  IInv'
<1> USE DEF IInv
<1>1. /\ UNCHANGED <<bmp, rl, full_zones, zone_pos, op, got, failed, stale>>
      /\ Owned' = Owned
  BY DEF ntfs_volume_get_free_space, Owned
<1>2. free_clusters' \in Nat
  <2>1. BmpBytes * ByteBits - 1 \in Int
    BY GeometryAssumption
  <2>2. IsFiniteSet(Bits)
    BY <2>1, FS_Interval DEF Bits
  <2>3. Cardinality(Bits \ bmp) \in Nat
    BY <2>2, FS_Difference, FS_CardinalityType
  <2> QED BY <2>3 DEF ntfs_volume_get_free_space
<1>3. counted' \in BOOLEAN
  BY Zenon DEF ntfs_volume_get_free_space
<1>4. TypeOK'
  BY <1>1, <1>2, <1>3 DEF TypeOK
<1>5. NoDoubleAllocation'
  BY <1>1 DEF NoDoubleAllocation
<1>6. InUseIsMarked' /\ GotIsPrivate' /\ PadIsSet' /\ SystemIsSafe'
  BY <1>1 DEF InUseIsMarked, GotIsPrivate, PadIsSet, SystemIsSafe
<1> QED BY <1>4, <1>5, <1>6

\* The inductive invariant is inductive.
LEMMA NextKeepsIInv == IInv /\ [Next]_vars => IInv'
<1> SUFFICES ASSUME IInv, [Next]_vars PROVE IInv'
  OBVIOUS
<1>1. CASE Step
  BY <1>1, ScanLastKeepsIInv, ScanMoreKeepsIInv, ZoneStepsKeepIInv, NoSpaceKeepsIInv,
     ScanFailsKeepsIInv DEF Step
<1>2. ASSUME NEW f \in Files, NEW n \in 1..MaxLen, Expand(f, n) PROVE IInv'
  <2>1. n \in Nat \ {0} /\ "mft" \in Zones /\ "data1" \in Zones
    BY GeometryAssumption DEF Zones
  <2> DEFINE real == {i \in DOMAIN rl[f] : rl[f][i] # Hole}
             hint == IF real = {} THEN -1 ELSE rl[f][Max(real)] + 1
  <2>2. CASE ntfs_cluster_alloc(f, n, hint, "data1")
    <3>1. hint \in Int
      <4>1. rl[f] \in Seq(Lcn \cup {Hole})
        BY DEF IInv, TypeOK
      <4>2. real # {} => Max(real) \in real
        <5>1. Len(rl[f]) \in Nat /\ real \in SUBSET (0..Len(rl[f]))
          BY <4>1
        <5> QED BY <5>1, MaxProperty
      <4>3. real # {} => rl[f][Max(real)] \in Int
        <5>1. \A i \in real : rl[f][i] \in Int
          <6>1. rl[f] \in Seq(Int)
            BY <4>1, LcnFacts, SeqOfSubset
          <6> QED BY <6>1
        <5> QED BY <4>2, <5>1
      <4> QED BY <4>3
    <3> QED BY <2>1, <2>2, <3>1, StartKeepsIInv
  <2>3. CASE ntfs_cluster_alloc(f, n, -1, "mft")
    BY <2>1, <2>3, StartKeepsIInv
  <2> QED BY <1>2, <2>2, <2>3 DEF Expand
<1>3. ASSUME NEW f \in Files, ExpandSparse(f) PROVE IInv'
  BY <1>3, SparseKeepsIInv
<1>4. ASSUME NEW f \in Files, NEW v \in 0..(MaxLen - 1), Shrink(f, v) \/ ShrinkFails(f, v)
      PROVE  IInv'
  BY <1>4, ShrinkKeepsIInv, ShrinkFailsKeepsIInv
<1>5. CASE ntfs_volume_get_free_space
  BY <1>5, CountKeepsIInv
<1>6. CASE UNCHANGED vars
  <2>1. /\ UNCHANGED <<bmp, rl, free_clusters, full_zones, zone_pos, op, got,
                       counted, failed, stale>>
        /\ Owned' = Owned
    BY <1>6 DEF vars, volume, ghosts, Owned
  <2>2. TypeOK'
    BY <2>1 DEF IInv, TypeOK
  <2>3. NoDoubleAllocation'
    BY <2>1 DEF IInv, NoDoubleAllocation
  <2> QED BY <2>1, <2>2, <2>3
          DEF IInv, InUseIsMarked, GotIsPrivate, PadIsSet, SystemIsSafe
<1> QED BY <1>1, <1>2, <1>3, <1>4, <1>5, <1>6 DEF Next

\* The variables keep their types, and ntfs_cluster_alloc and
\* update_full_status never move a zone position out of its zone.
THEOREM TypeCorrect == Spec => []TypeOK
<1>1. IInv => TypeOK
  BY DEF IInv
<1> QED BY InitIInv, NextKeepsIInv, <1>1, PTL DEF Spec

\* No cluster has two owners and every cluster in use is marked in $Bitmap,
\* for every geometry of the volume, number of files and number of errors: the
\* clusters of a failed ntfs_non_resident_attr_shrink are the only exception.
THEOREM SingleOwner == Spec => [](NoDoubleAllocation /\ InUseIsMarked)
<1>1. IInv => NoDoubleAllocation /\ InUseIsMarked
  BY DEF IInv
<1> QED BY InitIInv, NextKeepsIInv, <1>1, PTL DEF Spec
=============================================================================
