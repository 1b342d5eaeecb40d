------------------------- MODULE ClusterSpaceProofs -------------------------
(***************************************************************************)
(* Proofs about ClusterAlloc, continued: as long as no error strikes, the  *)
(* bitmap and free_clusters are exact; and every search for clusters ends. *)
(***************************************************************************)
EXTENDS ClusterAllocProofs

\* A set less a part of it.
LEMMA CountWithout ==
  ASSUME NEW S, IsFiniteSet(S), NEW T \in SUBSET S
  PROVE  /\ IsFiniteSet(T) /\ Cardinality(T) \in Nat /\ Cardinality(S) \in Nat
         /\ Cardinality(S \ T) = Cardinality(S) - Cardinality(T)
         /\ Cardinality(T) <= Cardinality(S)
<1>1. IsFiniteSet(T) /\ IsFiniteSet(S \ T) /\ Cardinality(T) <= Cardinality(S)
  BY FS_Subset
<1>2. Cardinality(T) \in Nat /\ Cardinality(S) \in Nat /\ Cardinality(S \ T) \in Nat
  BY <1>1, FS_CardinalityType
<1>3. Cardinality((S \ T) \cup T) =
        Cardinality(S \ T) + Cardinality(T) - Cardinality((S \ T) \cap T)
  BY <1>1, FS_Union
<1>4. (S \ T) \cup T = S /\ (S \ T) \cap T = {}
  OBVIOUS
<1>5. Cardinality({}) = 0
  BY FS_EmptySet
<1>6. Cardinality(S) = Cardinality(S \ T) + Cardinality(T) - 0
  BY <1>3, <1>4, <1>5, Zenon
<1> QED BY <1>1, <1>2, <1>6

\* Distinct values are as many as their indices.
LEMMA CountDistinct ==
  ASSUME NEW I, IsFiniteSet(I), NEW s, \A i, j \in I : s[i] = s[j] => i = j
  PROVE  Cardinality({s[i] : i \in I}) = Cardinality(I)
<1> DEFINE T == {s[i] : i \in I}
           f == [i \in I |-> s[i]]
<1>1. f \in Surjection(I, T) /\ f \in Injection(I, T)
  BY DEF Surjection, Injection, IsInjective
<1> HIDE DEF f, T
<1>2. Cardinality(T) = Cardinality(I)
  BY <1>1, FS_Surjection
<1> QED BY <1>2 DEF T

\* As long as no error strikes, the bitmap holds the clusters in use, and
\* free_clusters counts the others.
Accounted ==
  failed = 0 => /\ stale = {}
                /\ bmp \cap Lcn = Owned \cup Clusters(got) \cup System
                /\ counted => free_clusters = Cardinality(Bits \ bmp)

\* The bits are finite in number.
LEMMA BitsFinite == IsFiniteSet(Bits) /\ \A B : IsFiniteSet(Bits \ B)
<1>1. 0 \in Int /\ BmpBytes * ByteBits - 1 \in Int
  BY GeometryAssumption
<1>2. IsFiniteSet(Bits)
  BY <1>1, FS_Interval DEF Bits
<1>3. \A B : IsFiniteSet(Bits \ B)
  BY <1>2, FS_Subset
<1> QED BY <1>2, <1>3

\* The clusters of a chunk are as many fewer free ones.
LEMMA ScanCounts ==
  ASSUME IInv, op \in Locals, ~NoChunk, free_clusters = Cardinality(Bits \ bmp)
  PROVE  Decremented(Available) = Cardinality(Bits \ (bmp \cup Clusters(Taken(Available))))
<1> DEFINE A == Available
           t == Taken(A)
<1>1. A \in Nat /\ A \in 0..A
  BY TakenIsFree DEF IInv, PadIsSet
<1>2. /\ t \in Seq(Lcn) /\ Len(t) = A /\ DOMAIN t = 1..A
      /\ Clusters(t) \subseteq Lcn \ bmp
      /\ \A i, j \in 1..A : t[i] = t[j] => i = j
  BY <1>1, TakenClusters DEF IInv, PadIsSet
<1> HIDE DEF A, t
<1>3. Clusters(t) = {t[i] : i \in 1..A}
  BY <1>2, LcnFacts DEF Clusters
<1>4. IsFiniteSet(1..A) /\ Cardinality(1..A) = A
  BY <1>1, FS_Interval
<1>5. Cardinality(Clusters(t)) = A
  BY <1>2, <1>3, <1>4, CountDistinct
<1>6. Clusters(t) \in SUBSET (Bits \ bmp)
  BY <1>2, LcnFacts, Zenon
<1>7. IsFiniteSet(Bits \ bmp)
  BY BitsFinite
<1>8. (Bits \ bmp) \ Clusters(t) = Bits \ (bmp \cup Clusters(t))
  OBVIOUS
<1>9. /\ Cardinality(Bits \ (bmp \cup Clusters(t))) = free_clusters - A
      /\ A <= free_clusters
  BY <1>5, <1>6, <1>7, <1>8, CountWithout
<1> QED BY <1>9 DEF Decremented, A, t

\* The books are balanced when the last chunk is written back, ...
LEMMA ScanLastAccounts ==
  ASSUME IInv, Accounted, ScanLast
  PROVE  Accounted'
<1> SUFFICES ASSUME failed' = 0 PROVE Accounted'
  BY DEF Accounted
<1> DEFINE t == Taken(Available)
           f == op.file
           new == got \o t
<1>1. op \in Locals /\ ~NoChunk
  BY PcOfCall DEF ScanLast, IInv
<1>2. /\ bmp' = bmp \cup Clusters(t)
      /\ free_clusters' = Decremented(Available)
      /\ rl' = [rl EXCEPT ![f] = rl[f] \o new]
      /\ got' = << >>
      /\ UNCHANGED <<counted, failed, stale>>
  BY DEF ScanLast, ghosts
<1>3. /\ stale = {} /\ bmp \cap Lcn = Owned \cup Clusters(got) \cup System
      /\ counted => free_clusters = Cardinality(Bits \ bmp)
  BY <1>2 DEF Accounted
<1>4. counted' => free_clusters' = Cardinality(Bits \ bmp')
  BY <1>1, <1>2, <1>3, ScanCounts
<1>5. Available \in Nat /\ Available \in 0..Available
  BY <1>1, TakenIsFree DEF IInv, PadIsSet
<1>6. /\ Clusters(t) \subseteq Lcn /\ new \in Seq(Lcn)
      /\ Clusters(new) = Clusters(got) \cup Clusters(t)
  BY <1>1, <1>5, TakenClusters, ScanKeepsPrivate DEF IInv, PadIsSet
<1>7. f \in Files /\ rl \in [Files -> Seq(Lcn \cup {Hole})]
  BY <1>1 DEF Locals, IInv, TypeOK
<1> HIDE DEF f, new, t
<1>8. /\ rl'[f] = rl[f] \o new
      /\ \A g \in Files \ {f} : rl'[g] = rl[g]
  BY <1>2, <1>7
<1>9. Clusters(rl'[f]) = Clusters(rl[f]) \cup Clusters(new)
  <2>1. rl[f] \in Seq(Int) /\ new \in Seq(Int)
    BY <1>6, <1>7, LcnFacts, SeqOfSubset, Zenon
  <2> QED BY <1>8, <2>1, Concatenation
<1>10. Owned' = Owned \cup Clusters(new)
  <2>1. Owned' = UNION {Clusters(rl'[g]) : g \in Files}
    BY DEF Owned, Clusters
  <2>2. \A g \in Files \ {f} : Clusters(rl'[g]) = Clusters(rl[g])
    BY <1>8
  <2> HIDE DEF Clusters
  <2> QED BY <1>7, <1>9, <2>1, <2>2, Zenon DEF Owned
<1>11. Clusters(got') = {}
  BY <1>2 DEF Clusters
<1>12. bmp' \cap Lcn = Owned' \cup Clusters(got') \cup System
  BY <1>2, <1>3, <1>6, <1>10, <1>11
<1> QED BY <1>2, <1>3, <1>4, <1>12 DEF Accounted, Clusters

\* ... and when a chunk before it is, ...
LEMMA ScanMoreAccounts ==
  ASSUME IInv, Accounted, ScanMore
  PROVE  Accounted'
<1> SUFFICES ASSUME failed' = 0 PROVE Accounted'
  BY DEF Accounted
<1> DEFINE t == Taken(Available)
<1>1. op \in Locals /\ ~NoChunk
  BY PcOfCall DEF ScanMore, IInv
<1>2. /\ bmp' = bmp \cup Clusters(t)
      /\ free_clusters' = Decremented(Available)
      /\ got' = got \o t
      /\ UNCHANGED <<rl, counted, failed, stale>>
  BY DEF ScanMore, ghosts
<1>3. /\ stale = {} /\ bmp \cap Lcn = Owned \cup Clusters(got) \cup System
      /\ counted => free_clusters = Cardinality(Bits \ bmp)
  BY <1>2 DEF Accounted
<1>4. counted' => free_clusters' = Cardinality(Bits \ bmp')
  BY <1>1, <1>2, <1>3, ScanCounts
<1>5. Available \in Nat /\ Available \in 0..Available
  BY <1>1, TakenIsFree DEF IInv, PadIsSet
<1>6. /\ Clusters(t) \subseteq Lcn
      /\ Clusters(got \o t) = Clusters(got) \cup Clusters(t)
  BY <1>1, <1>5, TakenClusters, ScanKeepsPrivate DEF IInv, PadIsSet
<1> HIDE DEF t
<1>7. Owned' = Owned /\ Clusters(got)' = Clusters(got \o t)
  BY <1>2 DEF Owned, Clusters
<1> QED BY <1>2, <1>3, <1>4, <1>6, <1>7 DEF Accounted

\* ... when a call without success gives back what it took, ...
LEMMA NoSpaceAccounts ==
  ASSUME IInv, Accounted, NoSpace
  PROVE  Accounted'
<1> SUFFICES ASSUME failed' = 0 PROVE Accounted'
  BY DEF Accounted
<1> DEFINE n == Len(got)
<1>1. got \in Seq(Lcn) /\ n \in Nat /\ DOMAIN got = 1..n /\ \A i \in 1..n : got[i] \in Lcn
  BY DEF IInv, TypeOK
<1>2. Rollback(got, n, {}, 0, full_zones \cup {op.search_zone}) /\ UNCHANGED <<failed, stale>>
  BY DEF NoSpace
<1>3. /\ bmp' = bmp \ {got[i] : i \in 1..n}
      /\ free_clusters' = Decremented(0) + Cardinality(WholeRuns(got, n))
      /\ got' = << >> /\ UNCHANGED <<rl, counted>>
  BY <1>2 DEF Rollback
<1>4. {got[i] : i \in 1..n} = Clusters(got)
  BY <1>1, LcnFacts DEF Clusters
<1>5. WholeRuns(got, n) = 1..n
  BY <1>1, LcnFacts DEF WholeRuns
<1>6. /\ stale = {} /\ bmp \cap Lcn = Owned \cup Clusters(got) \cup System
      /\ counted => free_clusters = Cardinality(Bits \ bmp)
  BY <1>2 DEF Accounted
<1>7. Cardinality(Clusters(got)) = Cardinality(1..n)
  <2>1. IsFiniteSet(1..n)
    BY <1>1, FS_Interval
  <2>2. \A i, j \in 1..n : got[i] = got[j] => i = j
    BY <1>1 DEF IInv, GotIsPrivate
  <2> QED BY <1>4, <2>1, <2>2, CountDistinct
<1>8. counted' => free_clusters' = Cardinality(Bits \ bmp')
  <2> SUFFICES ASSUME counted PROVE free_clusters' = Cardinality(Bits \ bmp')
    BY <1>3
  <2>1. Clusters(got) \in SUBSET (Bits \ bmp')
    BY <1>1, <1>3, <1>4, LcnFacts, Zenon DEF Clusters
  <2>2. (Bits \ bmp') \ Clusters(got) = Bits \ bmp
    BY <1>3, <1>4 DEF IInv, GotIsPrivate
  <2>3. IsFiniteSet(Bits \ bmp')
    BY BitsFinite
  <2>4. /\ Cardinality(Bits \ bmp) = Cardinality(Bits \ bmp') - Cardinality(Clusters(got))
        /\ Cardinality(Bits \ bmp') \in Nat /\ Cardinality(Clusters(got)) \in Nat
        /\ Cardinality(Clusters(got)) <= Cardinality(Bits \ bmp')
    BY <2>1, <2>2, <2>3, CountWithout
  <2>5. free_clusters \in Nat /\ Decremented(0) = free_clusters
    BY DEF IInv, TypeOK, Decremented
  <2> QED BY <1>3, <1>5, <1>6, <1>7, <2>4, <2>5
<1>9. Owned' = Owned /\ Clusters(got)' = {}
  BY <1>3 DEF Owned, Clusters
<1>10. bmp' \cap Lcn = Owned' \cup Clusters(got)' \cup System
  <2>1. Clusters(got) \cap (Owned \cup System) = {}
    BY <1>6 DEF IInv, NoDoubleAllocation
  <2> QED BY <1>3, <1>4, <1>6, <1>9, <2>1
<1> QED BY <1>2, <1>6, <1>8, <1>10 DEF Accounted

\* ... when a file is shrunk, whose clusters are its own and distinct, ...
LEMMA ShrinkAccounts ==
  ASSUME IInv, Accounted, NEW f \in Files, NEW vcn \in Nat, Shrink(f, vcn)
  PROVE  Accounted'
<1> SUFFICES ASSUME failed' = 0 PROVE Accounted'
  BY DEF Accounted
<1> DEFINE n == Len(rl[f]) - vcn
           s == Tail_(f, vcn)
           I == {i \in 1..n : s[i] # Hole}
           freed == {s[i] : i \in I}
<1>1. rl[f] \in Seq(Lcn \cup {Hole}) /\ vcn < Len(rl[f]) /\ n \in Nat
  BY DEF IInv, TypeOK, Shrink
<1>2. /\ s \in Seq(Lcn \cup {Hole}) /\ Len(s) = n /\ DOMAIN s = 1..n
      /\ \A i \in 1..n : s[i] = rl[f][vcn + i] /\ vcn + i \in DOMAIN rl[f]
      /\ \A k \in DOMAIN rl[f] : k > vcn => k - vcn \in 1..n /\ s[k - vcn] = rl[f][k]
  BY <1>1 DEF Tail_
<1>3. /\ ntfs_cluster_free(s, n) /\ UNCHANGED <<op, got, counted, failed, stale>>
      /\ rl' = [rl EXCEPT ![f] = SubSeq(rl[f], 1, vcn)]
  BY DEF Shrink, ghosts
<1>4. /\ stale = {} /\ bmp \cap Lcn = Owned \cup Clusters(got) \cup System
      /\ counted => free_clusters = Cardinality(Bits \ bmp)
  BY <1>3 DEF Accounted
<1> HIDE DEF n, s
<1>5. WholeRuns(s, n) = I
  BY <1>1, <1>2 DEF WholeRuns
<1>6. freed = {s[i] : i \in 1..n} \ {Hole} /\ freed \subseteq Lcn
  BY <1>2
<1>7. bmp' = bmp \ freed /\ free_clusters' = free_clusters + Cardinality(I)
  BY <1>3, <1>5, <1>6 DEF ntfs_cluster_free
<1>8. ASSUME NEW i \in I, NEW j \in I, s[i] = s[j] PROVE i = j
  <2>1. /\ vcn + i \in DOMAIN rl[f] /\ vcn + j \in DOMAIN rl[f]
        /\ rl[f][vcn + i] = rl[f][vcn + j] /\ rl[f][vcn + i] \notin stale \cup {Hole}
    BY <1>2, <1>4, <1>8
  <2>2. vcn + i = vcn + j
    BY <2>1, OneOwner DEF IInv
  <2> QED BY <2>2
<1>9. freed \subseteq Owned
  BY <1>2 DEF Owned, Clusters
<1>10. \A g \in Files : \A k \in DOMAIN rl[g] :
         rl[g][k] \in freed => g = f /\ k > vcn
  <2> TAKE g \in Files
  <2> TAKE k \in DOMAIN rl[g]
  <2> HAVE rl[g][k] \in freed
  <2>1. PICK i \in I : rl[g][k] = s[i]
    OBVIOUS
  <2>2. /\ vcn + i \in DOMAIN rl[f] /\ rl[g][k] = rl[f][vcn + i]
        /\ rl[g][k] \notin stale \cup {Hole}
    BY <1>2, <1>4, <2>1
  <2>3. g = f /\ k = vcn + i
    BY <2>2, OneOwner DEF IInv
  <2> QED BY <2>3
<1>11. \A k \in DOMAIN rl[f] : k > vcn /\ rl[f][k] # Hole => rl[f][k] \in freed
  BY <1>2
<1>12. IsFiniteSet(I)
  <2>1. IsFiniteSet(1..n)
    BY <1>1, FS_Interval
  <2> QED BY <2>1, FS_Subset, Zenon
<1>13. Cardinality(freed) = Cardinality(I)
  BY <1>8, <1>12, CountDistinct
<1> HIDE DEF I, freed
<1>14. counted' => free_clusters' = Cardinality(Bits \ bmp')
  <2> SUFFICES ASSUME counted PROVE free_clusters' = Cardinality(Bits \ bmp')
    BY <1>3
  <2>1. freed \subseteq bmp
    BY <1>4, <1>6, <1>9
  <2>2. freed \in SUBSET (Bits \ bmp')
    BY <1>6, <1>7, LcnFacts, Zenon
  <2>3. (Bits \ bmp') \ freed = Bits \ bmp
    BY <1>7, <2>1
  <2>4. IsFiniteSet(Bits \ bmp')
    BY BitsFinite
  <2>5. /\ Cardinality(Bits \ bmp) = Cardinality(Bits \ bmp') - Cardinality(freed)
        /\ Cardinality(Bits \ bmp') \in Nat /\ Cardinality(freed) \in Nat
    BY <2>2, <2>3, <2>4, CountWithout
  <2> QED BY <1>4, <1>7, <1>13, <2>5
<1>15. /\ \A g \in Files \ {f} : rl'[g] = rl[g]
       /\ DOMAIN rl'[f] = 1..vcn
       /\ \A k \in 1..vcn : rl'[f][k] = rl[f][k] /\ k \in DOMAIN rl[f]
  <2>1. rl'[f] = SubSeq(rl[f], 1, vcn) /\ \A g \in Files \ {f} : rl'[g] = rl[g]
    BY <1>3 DEF IInv, TypeOK
  <2> QED BY <1>1, <2>1
<1>16. Owned' = Owned \ freed
  <2>1. ASSUME NEW c \in Owned' PROVE c \in Owned \ freed
    <3>0. PICK g \in Files : \E k \in DOMAIN rl'[g] : c = rl'[g][k] /\ c # Hole
      BY DEF Owned, Clusters
    <3>1. PICK k \in DOMAIN rl'[g] : c = rl'[g][k] /\ c # Hole
      BY <3>0
    <3>2. k \in DOMAIN rl[g] /\ c = rl[g][k] /\ (g = f => ~(k > vcn))
      BY <1>1, <1>15, <3>1
    <3>3. c \in Owned
      BY <3>1, <3>2 DEF Owned, Clusters
    <3> QED BY <1>10, <3>2, <3>3
  <2>2. ASSUME NEW c \in Owned, c \notin freed PROVE c \in Owned'
    <3>0. PICK g \in Files : \E k \in DOMAIN rl[g] : c = rl[g][k] /\ c # Hole
      BY DEF Owned, Clusters
    <3>1. PICK k \in DOMAIN rl[g] : c = rl[g][k] /\ c # Hole
      BY <3>0
    <3>2. k \in DOMAIN rl'[g] /\ c = rl'[g][k]
      <4>1. CASE g # f
        BY <1>15, <3>1, <4>1
      <4>2. CASE g = f
        <5>1. ~(k > vcn) /\ k \in DOMAIN rl[f]
          BY <1>11, <2>2, <3>1, <4>2
        <5>2. k \in 1..vcn
          BY <1>1, <5>1
        <5> QED BY <1>15, <3>1, <4>2, <5>2
      <4> QED BY <4>1, <4>2
    <3> QED BY <3>1, <3>2 DEF Owned, Clusters
  <2> QED BY <2>1, <2>2
<1>17. freed \cap (Clusters(got) \cup System) = {}
  BY <1>4, <1>9 DEF IInv, NoDoubleAllocation
<1>18. Clusters(got)' = Clusters(got)
  BY <1>3 DEF Clusters
<1>19. bmp' \cap Lcn = Owned' \cup Clusters(got)' \cup System
  BY <1>4, <1>7, <1>16, <1>17, <1>18
<1> QED BY <1>3, <1>4, <1>14, <1>19 DEF Accounted

\* ... and when free clusters are counted; other steps change neither the
\* bitmap nor what is in use, or count as failed.
LEMMA OthersAccount ==
  ASSUME IInv, Accounted,
         \/ SkipChunk \/ SecondPass \/ SwitchZone \/ ScanFails
         \/ ntfs_volume_get_free_space
         \/ \E f \in Files : ExpandSparse(f)
         \/ \E f \in Files, v \in 0..(MaxLen - 1) : ShrinkFails(f, v)
         \/ \E f \in Files, n \in 1..MaxLen : Expand(f, n)
         \/ UNCHANGED vars
  PROVE  Accounted'
<1>1. CASE SkipChunk \/ SecondPass \/ SwitchZone \/ UNCHANGED vars
  <2>1. UNCHANGED <<bmp, rl, free_clusters, got, counted, failed, stale>>
    BY <1>1 DEF SkipChunk, SecondPass, SwitchZone, vars, volume, ghosts
  <2>2. Owned' = Owned /\ Clusters(got)' = Clusters(got)
    BY <2>1 DEF Owned, Clusters
  <2> QED BY <2>1, <2>2 DEF Accounted
<1>2. CASE ScanFails \/ \E f \in Files, v \in 0..(MaxLen - 1) : ShrinkFails(f, v)
  <2>1. failed \in Nat /\ failed' = failed + 1
    BY <1>2 DEF IInv, TypeOK, ScanFails, ShrinkFails
  <2> QED BY <2>1 DEF Accounted
<1>3. CASE ntfs_volume_get_free_space
  <2>1. /\ UNCHANGED <<bmp, rl, got, failed, stale>>
        /\ free_clusters' = Cardinality(Bits \ bmp)
    BY <1>3 DEF ntfs_volume_get_free_space
  <2>2. Owned' = Owned /\ Clusters(got)' = Clusters(got)
    BY <2>1 DEF Owned, Clusters
  <2> QED BY <2>1, <2>2 DEF Accounted
<1>4. CASE \E f \in Files, n \in 1..MaxLen : Expand(f, n)
  <2>1. /\ UNCHANGED <<bmp, rl, free_clusters, counted, failed, stale>>
        /\ got' = << >> /\ op.pc = "idle"
    BY <1>4, Zenon DEF Expand, ntfs_cluster_alloc, volume, ghosts
  <2>2. got' = got
    BY <2>1, PcOfCall DEF IInv, GotIsPrivate
  <2>3. Owned' = Owned /\ Clusters(got)' = Clusters(got)
    BY <2>1, <2>2 DEF Owned, Clusters
  <2> QED BY <2>1, <2>3 DEF Accounted
<1>5. ASSUME NEW f \in Files, ExpandSparse(f) PROVE Accounted'
  <2>1. /\ UNCHANGED <<bmp, free_clusters, got, counted, failed, stale>>
        /\ rl' = [rl EXCEPT ![f] = Append(rl[f], Hole)]
    BY <1>5 DEF ExpandSparse, volume, ghosts
  <2>2. /\ rl'[f] = Append(rl[f], Hole) /\ rl[f] \in Seq(Lcn \cup {Hole})
        /\ \A g \in Files \ {f} : rl'[g] = rl[g]
    BY <2>1 DEF IInv, TypeOK
  <2>3. \A g \in Files : Clusters(rl'[g]) = Clusters(rl[g])
    <3>1. Clusters(rl'[f]) = Clusters(rl[f])
      BY <2>2 DEF Clusters
    <3> QED BY <2>2, <3>1, Zenon
  <2>4. Owned' = UNION {Clusters(rl'[g]) : g \in Files}
    BY DEF Owned, Clusters
  <2>5. Owned' = Owned
    BY <2>3, <2>4, Zenon DEF Owned
  <2>6. Clusters(got)' = Clusters(got)
    BY <2>1 DEF Clusters
  <2> QED BY <2>1, <2>5, <2>6 DEF Accounted
<1> QED BY <1>1, <1>2, <1>3, <1>4, <1>5

\* While no error strikes, $Bitmap holds the clusters in use and no others,
\* and free_clusters is the number of clear bits once it was computed, for
\* every geometry, number of files and sequence of calls: a call that finds no
\* space gives everything back (ntfs_cluster_alloc, ntfs_cluster_free,
\* ntfs_volume_get_free_space).
THEOREM NothingLeaks == Spec => []NoLeak
<1>1. Init => Accounted
  <2> SUFFICES ASSUME Init PROVE Accounted
    OBVIOUS
  <2>1. stale = {} /\ counted = FALSE /\ bmp = System \cup (Bits \ Lcn)
    BY DEF Init
  <2>2. Owned = {} /\ Clusters(got) = {}
    BY DEF Init, Owned, Clusters
  <2> QED BY <2>1, <2>2, LcnFacts, Zenon DEF Accounted
<1>2. IInv /\ Accounted /\ [Next]_vars => Accounted'
  <2> SUFFICES ASSUME IInv, Accounted, [Next]_vars PROVE Accounted'
    OBVIOUS
  <2>1. ASSUME NEW f \in Files, NEW v \in 0..(MaxLen - 1), Shrink(f, v) PROVE Accounted'
    BY <2>1, ShrinkAccounts
  <2> QED BY <2>1, ScanLastAccounts, ScanMoreAccounts, NoSpaceAccounts, OthersAccount
          DEF Next, Step
<1>3. Accounted => NoLeak
  BY DEF Accounted, NoLeak
<1> QED BY <1>1, <1>2, <1>3, InitIInv, NextKeepsIInv, PTL DEF Spec

-----------------------------------------------------------------------------
\* The greater of zero and a number.
LEMMA MaxOfZero ==
  ASSUME NEW a \in Int
  PROVE  Max({0, a}) = IF a > 0 THEN a ELSE 0
<1>1. CASE a > 0
  BY <1>1 DEF Max
<1>2. CASE ~(a > 0)
  BY <1>2 DEF Max
<1> QED BY <1>1, <1>2

\* The zones and the rest of the zone that are left to search.
ToGo(o) == Cardinality(Zones \ (o.done_zones \cup {o.search_zone}))
Rest(o) == IF o.pc = "scan" THEN 1 + Max({0, o.zone_end - o.bmp_pos}) ELSE 0

\* Where the first difference of two measures may be.
LEMMA CloserBy ==
  ASSUME NEW o, NEW p
  PROVE  /\ ToGo(p) < ToGo(o) => Precedes(Ahead(p), Ahead(o))
         /\ ToGo(p) = ToGo(o) /\ o.search_zone = "data1" /\ p.search_zone = "data2" =>
              Precedes(Ahead(p), Ahead(o))
         /\ ToGo(p) = ToGo(o) /\ p.search_zone = o.search_zone /\ 2 - p.pass < 2 - o.pass =>
              Precedes(Ahead(p), Ahead(o))
         /\ /\ ToGo(p) = ToGo(o) /\ p.search_zone = o.search_zone /\ p.pass = o.pass
            /\ p.used_zone_pos /\ ~o.used_zone_pos
            => Precedes(Ahead(p), Ahead(o))
         /\ /\ ToGo(p) = ToGo(o) /\ p.search_zone = o.search_zone /\ p.pass = o.pass
            /\ p.used_zone_pos <=> o.used_zone_pos
            /\ Rest(p) < Rest(o)
            => Precedes(Ahead(p), Ahead(o))
<1> DEFINE m == Ahead(p)
           n == Ahead(o)
<1>1. /\ m[1] = ToGo(p) /\ m[2] = (IF p.search_zone = "data1" THEN 1 ELSE 0)
      /\ m[3] = 2 - p.pass /\ m[4] = (IF p.used_zone_pos THEN 0 ELSE 1) /\ m[5] = Rest(p)
  BY Zenon DEF Ahead, ToGo, Rest
<1>2. /\ n[1] = ToGo(o) /\ n[2] = (IF o.search_zone = "data1" THEN 1 ELSE 0)
      /\ n[3] = 2 - o.pass /\ n[4] = (IF o.used_zone_pos THEN 0 ELSE 1) /\ n[5] = Rest(o)
  BY Zenon DEF Ahead, ToGo, Rest
<1> HIDE DEF m, n
<1>3. /\ m[1] < n[1] => Precedes(m, n)
      /\ m[1] = n[1] /\ m[2] < n[2] => Precedes(m, n)
      /\ m[1] = n[1] /\ m[2] = n[2] /\ m[3] < n[3] => Precedes(m, n)
      /\ m[1] = n[1] /\ m[2] = n[2] /\ m[3] = n[3] /\ m[4] < n[4] => Precedes(m, n)
      /\ m[1] = n[1] /\ m[2] = n[2] /\ m[3] = n[3] /\ m[4] = n[4] /\ m[5] < n[5] =>
           Precedes(m, n)
  BY DEF Precedes
<1>4. /\ ToGo(p) < ToGo(o) => Precedes(m, n)
      /\ ToGo(p) = ToGo(o) /\ o.search_zone = "data1" /\ p.search_zone = "data2" =>
           Precedes(m, n)
      /\ ToGo(p) = ToGo(o) /\ p.search_zone = o.search_zone /\ 2 - p.pass < 2 - o.pass =>
           Precedes(m, n)
      /\ /\ ToGo(p) = ToGo(o) /\ p.search_zone = o.search_zone /\ p.pass = o.pass
         /\ p.used_zone_pos /\ ~o.used_zone_pos
         => Precedes(m, n)
      /\ /\ ToGo(p) = ToGo(o) /\ p.search_zone = o.search_zone /\ p.pass = o.pass
         /\ p.used_zone_pos <=> o.used_zone_pos
         /\ Rest(p) < Rest(o)
         => Precedes(m, n)
  BY <1>1, <1>2, <1>3
<1> QED BY <1>4 DEF m, n

\* The search comes to the mft zone first, or after both data zones.
ZonesInOrder ==
  op # Idle /\ op.search_zone = "mft" /\ "data1" \in op.done_zones =>
    "data2" \in op.done_zones

\* Switching zones keeps that order.
LEMMA OrderKept == ASSUME IInv, ZonesInOrder, [Next]_vars PROVE ZonesInOrder'
<1>1. CASE op' = op \/ op' = Idle
  BY <1>1 DEF ZonesInOrder
<1>2. CASE SkipChunk \/ ScanMore \/ SecondPass
  <2>1. op \in Locals /\ op # Idle
    BY <1>2, PcOfCall DEF SkipChunk, ScanMore, SecondPass, IInv, Idle
  <2>2. op'.search_zone = op.search_zone /\ op'.done_zones = op.done_zones
    BY <1>2, <2>1, Zenon DEF SkipChunk, ScanMore, SecondPass, Locals
  <2> QED BY <2>1, <2>2 DEF ZonesInOrder
<1>3. CASE SwitchZone
  <2> DEFINE done == op.done_zones \cup {op.search_zone}
  <2>1. op \in Locals
    BY <1>3, PcOfCall DEF SwitchZone, IInv
  <2>2. op'.done_zones = done /\ op'.search_zone = NextZone(op.search_zone, done)
    BY <1>3, <2>1 DEF SwitchZone, Locals
  <2> QED BY <2>1, <2>2 DEF ZonesInOrder, NextZone, Locals, Zones
<1>4. ASSUME NEW f, NEW count, NEW start_lcn, NEW zone,
             ntfs_cluster_alloc(f, count, start_lcn, zone)
      PROVE  ZonesInOrder'
  <2>1. op'.done_zones = {}
    BY <1>4 DEF ntfs_cluster_alloc
  <2> QED BY <2>1 DEF ZonesInOrder
<1>5. ASSUME NEW f \in Files, NEW n \in 1..MaxLen, Expand(f, n) PROVE ZonesInOrder'
  BY <1>4, <1>5 DEF Expand
<1>6. ScanLast \/ ScanFails \/ NoSpace => op' = Idle
  BY Zenon DEF ScanLast, ScanFails, NoSpace, Rollback
<1>7. (\E f \in Files : ExpandSparse(f)) \/ ntfs_volume_get_free_space
      \/ (\E f \in Files, v \in 0..(MaxLen - 1) : Shrink(f, v) \/ ShrinkFails(f, v))
      \/ UNCHANGED vars => op' = op
  BY DEF ExpandSparse, ntfs_volume_get_free_space, Shrink, ShrinkFails, vars
<1> QED BY <1>1, <1>2, <1>3, <1>5, <1>6, <1>7 DEF Next, Step

\* A turn within a zone gets closer to the end of it, of the pass or of the hint.
LEMMA TurnAdvances ==
  ASSUME IInv, SkipChunk \/ ScanMore \/ SecondPass
  PROVE  Precedes(Ahead(op'), Ahead(op))
<1>1. op \in Locals
  BY PcOfCall DEF SkipChunk, ScanMore, SecondPass, IInv
<1>2. op'.search_zone = op.search_zone /\ ToGo(op') = ToGo(op)
  BY <1>1, Zenon DEF SkipChunk, ScanMore, SecondPass, Locals, ToGo
<1>3. op.zone_end - op.bmp_pos \in Int /\ op.bmp_pos \in Nat /\ op.zone_end \in Nat
  BY <1>1 DEF Locals
<1>4. CASE SkipChunk
  <2>1. /\ op'.pass = op.pass /\ op'.used_zone_pos = op.used_zone_pos
        /\ op'.pc = "pass_done" /\ op.pc = "scan"
    BY <1>1, <1>4 DEF SkipChunk, Locals
  <2>2. Rest(op') < Rest(op)
    BY <1>3, <2>1, MaxOfZero DEF Rest
  <2> QED BY <1>2, <2>1, <2>2, CloserBy
<1>5. CASE SecondPass
  <2>1. op'.pass = 2 /\ op.pass = 1
    BY <1>1, <1>5 DEF SecondPass, Locals
  <2>2. 2 - op'.pass < 2 - op.pass
    BY <2>1
  <2> QED BY <1>2, <2>2, CloserBy
<1>6. CASE ScanMore /\ ~op.used_zone_pos
  <2>1. op'.used_zone_pos /\ op'.pass \in {2, op.pass} /\ op.pass \in {1, 2}
    BY <1>1, <1>6 DEF ScanMore, Locals
  <2>2. CASE op'.pass = op.pass
    BY <1>2, <1>6, <2>1, <2>2, CloserBy
  <2>3. CASE op'.pass # op.pass
    <3>1. 2 - op'.pass < 2 - op.pass
      BY <2>1, <2>3
    <3> QED BY <1>2, <3>1, CloserBy
  <2> QED BY <2>2, <2>3
<1>7. CASE ScanMore /\ op.used_zone_pos
  <2>1. /\ op'.used_zone_pos /\ op'.pass = op.pass /\ op.pc = "scan"
        /\ op'.bmp_pos = WindowEnd /\ op'.zone_end = op.zone_end
        /\ op'.pc = IF WindowEnd < op.zone_end THEN "scan" ELSE "pass_done"
    BY <1>1, <1>7 DEF ScanMore, Locals
  <2>2. WindowEnd \in Nat /\ op.bmp_pos < WindowEnd
    BY <1>3, <1>7, WindowBounds DEF ScanMore
  <2>3. op.zone_end - WindowEnd \in Int
    BY <1>3, <2>2
  <2>4. Rest(op') < Rest(op)
    BY <1>3, <2>1, <2>2, <2>3, MaxOfZero DEF Rest
  <2> QED BY <1>2, <1>7, <2>1, <2>4, CloserBy
<1> QED BY <1>4, <1>5, <1>6, <1>7

\* Switching goes to a zone not searched before, or from the first data zone
\* to the second one.
LEMMA SwitchAdvances ==
  ASSUME IInv, ZonesInOrder, SwitchZone
  PROVE  Precedes(Ahead(op'), Ahead(op))
<1> DEFINE done == op.done_zones \cup {op.search_zone}
           z == NextZone(op.search_zone, done)
<1>1. op \in Locals /\ op # Idle /\ done # Zones
  BY PcOfCall DEF SwitchZone, IInv, Idle
<1>2. op'.done_zones = done /\ op'.search_zone = z
  BY <1>1 DEF SwitchZone, Locals
<1>3. z \in Zones /\ (z \notin done \/ (op.search_zone = "data1" /\ z = "data2"))
  BY <1>1 DEF ZonesInOrder, NextZone, Locals, Zones
<1> HIDE DEF done, z
<1>4. ToGo(op) = Cardinality(Zones \ done) /\ ToGo(op') = Cardinality(Zones \ (done \cup {z}))
  BY <1>2 DEF ToGo, done
<1>5. CASE z \in done
  <2>1. done \cup {z} = done
    BY <1>5
  <2> QED BY <1>2, <1>3, <1>4, <1>5, <2>1, CloserBy
<1>6. CASE z \notin done
  <2>1. IsFiniteSet(Zones)
    <3>1. Zones = {"mft"} \cup {"data1"} \cup {"data2"}
      BY DEF Zones
    <3> QED BY <3>1, FS_Singleton, FS_Union, Zenon
  <2>2. IsFiniteSet(Zones \ done)
    BY <2>1, FS_Subset
  <2>3. Zones \ (done \cup {z}) = (Zones \ done) \ {z} /\ z \in Zones \ done
    BY <1>3, <1>6
  <2> DEFINE D == Zones \ done
  <2>4. ToGo(op') = ToGo(op) - 1 /\ ToGo(op) \in Nat
    <3>1. IsFiniteSet(D) /\ z \in D /\ ToGo(op) = Cardinality(D)
          /\ ToGo(op') = Cardinality(D \ {z})
      BY <1>4, <2>2, <2>3
    <3> HIDE DEF D
    <3>2. Cardinality(D) \in Nat
      BY <3>1, FS_CardinalityType
    <3>3. Cardinality(D \ {z}) = Cardinality(D) - 1
      BY <3>1, FS_RemoveElement
    <3> QED BY <3>1, <3>2, <3>3
  <2> QED BY <2>4, CloserBy
<1> QED BY <1>5, <1>6

\* Every turn of the loop of ntfs_cluster_alloc returns or lowers the measure
\* of what is left to search, on a volume of any geometry: every call returns,
\* whatever the hint, the zone positions and the zones that count as full.
THEOREM SearchEnds == Spec => SearchAdvances
<1>1. Init => ZonesInOrder
  BY DEF Init, ZonesInOrder
<1>2. IInv /\ ZonesInOrder /\ [Next]_vars =>
        [Step => op' = Idle \/ Precedes(Ahead(op'), Ahead(op))]_vars
  <2> SUFFICES ASSUME IInv, ZonesInOrder, Step
               PROVE  op' = Idle \/ Precedes(Ahead(op'), Ahead(op))
    OBVIOUS
  <2>1. ScanLast \/ ScanFails \/ NoSpace => op' = Idle
    BY Zenon DEF ScanLast, ScanFails, NoSpace, Rollback
  <2> QED BY <2>1, TurnAdvances, SwitchAdvances DEF Step
<1>3. IInv /\ ZonesInOrder /\ [Next]_vars => ZonesInOrder'
  BY OrderKept
<1> QED BY <1>1, <1>2, <1>3, InitIInv, NextKeepsIInv, PTL DEF Spec, SearchAdvances
=============================================================================
