---------------------------- MODULE InodeProofs ----------------------------
(***************************************************************************)
(* What the operations of Inode do on a volume without caches, which is    *)
(* what the handles of FileProtocol work on: one lemma per operation says  *)
(* which record, entry and inode it changes, and that it leaves all others *)
(* alone.                                                                  *)
(***************************************************************************)
EXTENDS Inode, TLAPS, FiniteSetTheorems, WellFoundedInduction

Indices == [Files -> Nat]
Disks == [Files -> [base : Nat, ext : Nat]]
Inodes == [mft : Files, base : Nat, ext : Nat, attached : BOOLEAN, index : Indices,
           dirty : SUBSET {"base"}, name_dirty : BOOLEAN]
Memory == [Objs -> [mft : Files \cup {"none"}, base : Nat, ext : Nat, attached : BOOLEAN,
                    index : Indices, dirty : SUBSET {"base"}, name_dirty : BOOLEAN]]

\* A volume without caches.
Volumes == [disk : Disks, index : Indices, mftbmp : SUBSET Files, ni : Memory,
            nidata : {<< >>}, caching : {FALSE}]

-----------------------------------------------------------------------------
\* The operations of Inode on a volume without caches.

\* A non-empty set of naturals has a least element, and Min picks it.
LEMMA MinIsOne ==
  ASSUME NEW S \in SUBSET Nat, S # {}
  PROVE  Min(S) \in S
<1>1. \E x \in S : \A y \in S : ~(<<y, x>> \in OpToRel(<, Nat))
  BY NatLessThanWellFounded, WFMin, Zenon
<1>2. \A x, y \in Nat : x < y => <<x, y>> \in OpToRel(<, Nat)
  BY Zenon DEF OpToRel
<1>3. \E x \in S : \A y \in S : ~(y < x)
  BY <1>1, <1>2, Zenon
<1>4. \E x \in S : \A y \in S : x <= y
  BY <1>3
<1> QED BY <1>4, Zenon DEF Min

\* ntfs_inode_allocate finds an address that is not in use.
LEMMA FreshIsFree ==
  ASSUME NEW v \in Volumes, NEW n \in Nat \ {0}, HasRoom(v, n)
  PROVE  Fresh(v) \in Objs /\ v.ni[Fresh(v)] = Gone
<1>1. Objs \ Live(v) # {}
  BY FS_EmptySet DEF HasRoom
<1>2. Objs \ Live(v) \in SUBSET Nat
  BY InodeAssumption, Zenon
<1>3. Fresh(v) \in Objs \ Live(v)
  BY <1>1, <1>2, MinIsOne DEF Fresh
<1> QED BY <1>3 DEF Live

\* The inode that ntfs_inode_open makes from the disk.
NewInode(v, f) ==
  [mft |-> f, base |-> v.disk[f].base, ext |-> 0, attached |-> FALSE,
   index |-> IF f = Root THEN v.index ELSE NoIndex, dirty |-> {}, name_dirty |-> FALSE]

\* Without a cache ntfs_inode_open always reads the record.
LEMMA OpenIsReal ==
  ASSUME NEW v \in Volumes, NEW f \in Files
  PROVE  /\ OpenedNi(v, f) = Fresh(v)
         /\ AfterOpen(v, f) = [v EXCEPT !.ni = [v.ni EXCEPT ![Fresh(v)] = NewInode(v, f)]]
         /\ NewInode(v, f) \in Inodes
<1>1. v.nidata = << >>
  BY DEF Volumes
<1>2. ~Nidata!Holds(v.nidata, f)
  BY <1>1 DEF Nidata!Holds, Nidata!Positions
<1>3. NewInode(v, f) \in Inodes
  BY DEF NewInode, Inodes, Disks, Volumes, Indices, NoIndex
<1>4. AfterOpen(v, f) = [v EXCEPT !.ni = [v.ni EXCEPT ![Fresh(v)] = NewInode(v, f)]]
  BY <1>2 DEF AfterOpen, ntfs_inode_real_open, NewInode, Volumes
<1>6. OpenedNi(v, f) = Fresh(v)
  BY <1>2 DEF OpenedNi
<1> QED BY <1>3, <1>4, <1>6, Zenon

\* An open inode is not freed memory.
LEMMA LiveInode == ASSUME NEW n \in Inodes PROVE n # Gone
  BY InodeAssumption DEF Gone, Inodes

\* ntfs_inode_real_close of an inode without a dirty extent.
LEMMA FreeIsGone ==
  ASSUME NEW v \in Volumes, NEW o \in Objs, v.ni[o] \in Inodes
  PROVE  nidata_free(v, o) = [v EXCEPT !.ni = [v.ni EXCEPT ![o] = Gone]]
<1>2. "ext" \notin v.ni[o].dirty /\ v.ni[o].mft \in Files
  BY DEF Inodes
<1>3. [v.disk EXCEPT ![v.ni[o].mft].ext = @] = v.disk
  BY <1>2 DEF Disks, Volumes
<1>4. nidata_free(v, o) = [[v EXCEPT !.disk = [v.disk EXCEPT ![v.ni[o].mft].ext = @]] EXCEPT !.ni = [v.ni EXCEPT ![o] = Gone]]
  BY <1>2 DEF nidata_free, Volumes, Disks, Memory
<1> QED BY <1>3, <1>4, Zenon DEF Volumes, Disks, Memory

\* The inode that is allocated, and memory after it.
LEMMA AllocateKeeps ==
  ASSUME NEW v \in Volumes, NEW n \in Nat \ {0}, HasRoom(v, n), NEW f \in Files
  PROVE  /\ Fresh(v) \in Objs /\ v.ni[Fresh(v)] = Gone
         /\ AfterOpen(v, f) \in Volumes
         /\ AfterOpen(v, f).ni = [v.ni EXCEPT ![Fresh(v)] = NewInode(v, f)]
         /\ AfterOpen(v, f).disk = v.disk /\ AfterOpen(v, f).index = v.index
         /\ AfterOpen(v, f).mftbmp = v.mftbmp
<1>1. Fresh(v) \in Objs /\ v.ni[Fresh(v)] = Gone
  BY FreshIsFree
<1>2. AfterOpen(v, f) = [v EXCEPT !.ni = [v.ni EXCEPT ![Fresh(v)] = NewInode(v, f)]]
  BY OpenIsReal, Zenon
<1>3. NewInode(v, f) \in Inodes
  BY OpenIsReal, Zenon
<1>4. [v.ni EXCEPT ![Fresh(v)] = NewInode(v, f)] \in Memory
  BY <1>1, <1>3 DEF Volumes, Memory, Inodes
<1> QED BY <1>1, <1>2, <1>4, Zenon DEF Volumes

\* ntfs_inode_close of a clean inode: it is closed for good.
LEMMA CloseOfClean ==
  ASSUME NEW v \in Volumes, NEW o \in Objs, v.ni[o] \in Inodes, v.ni[o].dirty = {}
  PROVE  Close(v, o, {}, {}) = [v EXCEPT !.ni = [v.ni EXCEPT ![o] = Gone]]
<1>1. ~v.caching
  BY Zenon DEF Volumes
<1>2. RealClose(v, o, {}) = nidata_free(v, o)
  BY DEF RealClose, RealCloseFails
<1>3. Close(v, o, {}, {}) = nidata_free(v, o)
  BY <1>1, <1>2 DEF Close
<1> QED BY <1>3, FreeIsGone, Zenon

\* An inode that is opened and closed leaves the volume as it was.
LEMMA VisitIsIdle ==
  ASSUME NEW v \in Volumes, NEW n \in Nat \ {0}, HasRoom(v, n), NEW f \in Files
  PROVE  Close(AfterOpen(v, f), OpenedNi(v, f), {}, {}) = v
<1> DEFINE o == Fresh(v)
           u == AfterOpen(v, f)
<1>1. /\ o \in Objs /\ v.ni[o] = Gone /\ u \in Volumes
      /\ u.ni = [v.ni EXCEPT ![o] = NewInode(v, f)]
      /\ u.disk = v.disk /\ u.index = v.index /\ u.mftbmp = v.mftbmp
  BY AllocateKeeps
<1>2. OpenedNi(v, f) = o /\ NewInode(v, f) \in Inodes
  BY OpenIsReal, Zenon
<1> HIDE DEF o, u
<1>3. u.ni[o] = NewInode(v, f)
  BY <1>1 DEF Volumes, Memory
<1>4. Close(u, o, {}, {}) = [u EXCEPT !.ni = [u.ni EXCEPT ![o] = Gone]]
  <2>1. u.ni[o] \in Inodes /\ u.ni[o].dirty = {}
    BY <1>2, <1>3 DEF NewInode
  <2> QED BY <1>1, <2>1, CloseOfClean, Zenon
<1>5. [u.ni EXCEPT ![o] = Gone] = v.ni
  BY <1>1, Zenon DEF Volumes, Memory
<1>6. [u EXCEPT !.ni = [u.ni EXCEPT ![o] = Gone]] = v
  BY <1>1, <1>5, Zenon DEF Volumes
<1> QED BY <1>2, <1>4, <1>6 DEF o, u

\* An address in use is not the one that is allocated next.
LEMMA LiveIsNotFresh ==
  ASSUME NEW v \in Volumes, NEW n \in Nat \ {0}, HasRoom(v, n), NEW o \in Objs, v.ni[o] \in Inodes
  PROVE  o # Fresh(v)
  BY FreshIsFree, InodeAssumption DEF Gone, Inodes

\* ntfs_inode_sync writes the base record, which for a directory holds the index.
LEMMA WriteOutParts ==
  ASSUME NEW v \in Volumes, NEW o \in Objs, v.ni[o] \in Inodes
  PROVE  LET n == v.ni[o]
             u == WriteOut(v, o, {})
         IN  /\ u \in Volumes
             /\ u.disk = [v.disk EXCEPT ![n.mft].base = n.base]
             /\ u.index = IF n.mft = Root THEN n.index ELSE v.index
             /\ u.mftbmp = v.mftbmp
             /\ u.ni = [v.ni EXCEPT ![o].dirty = {}]
<1> DEFINE n == v.ni[o]
           u == WriteOut(v, o, {})
           disk == [v.disk EXCEPT ![n.mft] = [base |-> n.base, ext |-> @.ext]]
           index == IF n.mft = Root THEN n.index ELSE v.index
           ni == [v.ni EXCEPT ![o].dirty = {}]
<1>1. "ext" \notin n.dirty /\ n.mft \in Files /\ n.base \in Nat /\ n.index \in Indices
  BY DEF Inodes
<1>2. u = [v EXCEPT !.disk = disk, !.index = index, !.ni = ni]
  <2>1. (n.dirty \cup {"base"}) \cap {} = {}
    OBVIOUS
  <2> QED BY <1>1, <2>1 DEF WriteOut, Volumes, Disks, Memory
<1>3. disk = [v.disk EXCEPT ![n.mft].base = n.base]
  BY <1>1 DEF Volumes, Disks
<1>4. disk \in Disks
  BY <1>1 DEF Volumes, Disks
<1>5. ni \in Memory
  BY DEF Volumes, Memory
<1>6. index \in Indices
  BY <1>1 DEF Volumes
<1> HIDE DEF n, disk, index, ni
<1>7. /\ u \in Volumes /\ u.disk = disk /\ u.index = index /\ u.ni = ni /\ u.mftbmp = v.mftbmp
  BY <1>2, <1>4, <1>5, <1>6, Zenon DEF Volumes
<1> QED BY <1>3, <1>7 DEF n, index, ni

\* Two functions on addresses are equal if they agree everywhere.
LEMMA SameMemory ==
  ASSUME NEW m \in Memory, NEW k \in Memory, \A p \in Objs : m[p] = k[p]
  PROVE  m = k
  BY DEF Memory

\* One part of an inode changes.
WithDirty(n, x) == [mft |-> n.mft, base |-> n.base, ext |-> n.ext, attached |-> n.attached,
                    index |-> n.index, dirty |-> x, name_dirty |-> n.name_dirty]
WithName(n, x) == [mft |-> n.mft, base |-> n.base, ext |-> n.ext, attached |-> n.attached,
                   index |-> n.index, dirty |-> n.dirty, name_dirty |-> x]
WithBase(n, x) == [mft |-> n.mft, base |-> x, ext |-> n.ext, attached |-> n.attached,
                   index |-> n.index, dirty |-> n.dirty, name_dirty |-> n.name_dirty]
WithEntry(n, f, b) == [mft |-> n.mft, base |-> n.base, ext |-> n.ext, attached |-> n.attached,
                       index |-> [n.index EXCEPT ![f] = b], dirty |-> {"base"},
                       name_dirty |-> n.name_dirty]
Others(k, m, d) == \A p \in Objs \ {d} : k[p] = m[p]

\* They are inodes again.
LEMMA WithKeeps ==
  ASSUME NEW n \in Inodes
  PROVE  /\ \A x \in SUBSET {"base"} : WithDirty(n, x) \in Inodes
         /\ \A x \in BOOLEAN : WithName(n, x) \in Inodes
         /\ \A x \in Nat : WithBase(n, x) \in Inodes
         /\ \A f \in Files, b \in Nat : WithEntry(n, f, b) \in Inodes
  BY DEF Inodes, WithDirty, WithName, WithBase, WithEntry, Indices

\* They are what the operations of Inode write with EXCEPT.
LEMMA WithAreExcepts ==
  ASSUME NEW n \in Inodes
  PROVE  /\ \A x \in BOOLEAN : [n EXCEPT !.name_dirty = x] = WithName(n, x)
         /\ \A x \in SUBSET {"base"} : [n EXCEPT !.dirty = x] = WithDirty(n, x)
         /\ \A x \in Nat : [n EXCEPT !.base = x] = WithBase(n, x)
         /\ n.dirty \in SUBSET {"base"} /\ n.dirty \cup {"base"} = {"base"}
  BY DEF Inodes, WithName, WithDirty, WithBase

\* An index with one entry changed is an index.
LEMMA IndexIsExcept ==
  ASSUME NEW n \in Inodes, NEW x \in Indices
  PROVE  [n EXCEPT !.index = x] = [mft |-> n.mft, base |-> n.base, ext |-> n.ext,
            attached |-> n.attached, index |-> x, dirty |-> n.dirty, name_dirty |-> n.name_dirty]
  BY DEF Inodes

\* SetEntry changes one entry, and marks the directory dirty.
LEMMA WithEntryIsExcept ==
  ASSUME NEW n \in Inodes, NEW f \in Files, NEW b \in Nat
  PROVE  Indexed(n, f, b) = WithEntry(n, f, b)
<1> DEFINE x == [n.index EXCEPT ![f] = b]
           m == [mft |-> n.mft, base |-> n.base, ext |-> n.ext,
                 attached |-> n.attached, index |-> x, dirty |-> n.dirty, name_dirty |-> n.name_dirty]
<1>1. n.dirty \cup {"base"} = {"base"}
  BY WithAreExcepts
<1>2. x \in Indices
  BY DEF Inodes, Indices
<1>3. m \in Inodes
  BY <1>2 DEF Inodes
<1>4. [n EXCEPT !.index = x] = m
  BY <1>2, IndexIsExcept, Zenon
<1>5. Indexed(n, f, b) = [m EXCEPT !.dirty = n.dirty \cup {"base"}]
  BY <1>4, Zenon DEF Indexed
<1>6. [m EXCEPT !.dirty = {"base"}] = WithDirty(m, {"base"})
  BY <1>3, WithAreExcepts, Zenon
<1>7. WithDirty(m, {"base"}) = WithEntry(n, f, b)
  BY DEF WithDirty, WithEntry
<1> QED BY <1>1, <1>5, <1>6, <1>7, Zenon

\* What a call that changes inode o does to the volume.
Effect(u, v, o, disk, index, n) ==
  /\ u \in Volumes /\ u.disk = disk /\ u.index = index /\ u.mftbmp = v.mftbmp
  /\ u.ni[o] = n /\ Others(u.ni, v.ni, o)
Changes(u, v, o, n) == Effect(u, v, o, v.disk, v.index, n)

\* Storing inode n at o changes nothing else.
LEMMA InodeChanges ==
  ASSUME NEW v \in Volumes, NEW o \in Objs, NEW n \in Inodes
  PROVE  Changes([v EXCEPT !.ni[o] = n], v, o, n)
<1> DEFINE k == [v.ni EXCEPT ![o] = n]
<1>1. k \in Memory /\ k[o] = n /\ Others(k, v.ni, o)
  BY DEF Volumes, Memory, Inodes, Others
<1> HIDE DEF k
<1>2. LET u == [v EXCEPT !.ni = k] IN
        u \in Volumes /\ u.disk = v.disk /\ u.index = v.index /\ u.mftbmp = v.mftbmp /\ u.ni = k
  BY <1>1, Zenon DEF Volumes
<1> QED BY <1>1, <1>2, Zenon DEF Changes, Effect, k

\* A changed entry of the directory (ntfs_index_add_filename, ntfs_index_rm).
LEMMA SetEntryChanges ==
  ASSUME NEW v \in Volumes, NEW d \in Objs, v.ni[d] \in Inodes, NEW f \in Files, NEW b \in Nat
  PROVE  Changes(SetEntry(v, d, f, b), v, d, WithEntry(v.ni[d], f, b))
<1>1. Indexed(v.ni[d], f, b) = WithEntry(v.ni[d], f, b)
  BY WithEntryIsExcept, Zenon
<1>2. SetEntry(v, d, f, b) = [v EXCEPT !.ni[d] = WithEntry(v.ni[d], f, b)]
  BY <1>1, Zenon DEF SetEntry
<1>3. WithEntry(v.ni[d], f, b) \in Inodes
  BY WithKeeps
<1> QED BY <1>2, <1>3, InodeChanges, Zenon

\* NInoFileNameDirty is cleared in one inode.
LEMMA NameSyncedChanges ==
  ASSUME NEW v \in Volumes, NEW o \in Objs, v.ni[o] \in Inodes
  PROVE  Changes(NameSynced(v, o), v, o, WithName(v.ni[o], FALSE))
<1>1. [v.ni[o] EXCEPT !.name_dirty = FALSE] = WithName(v.ni[o], FALSE)
  BY WithAreExcepts, Zenon
<1>2. NameSynced(v, o) = [v EXCEPT !.ni[o] = WithName(v.ni[o], FALSE)]
  BY <1>1, Zenon DEF NameSynced
<1>3. WithName(v.ni[o], FALSE) \in Inodes
  BY WithKeeps, Zenon
<1> QED BY <1>2, <1>3, InodeChanges, Zenon

\* ntfs_inode_update_times marks one inode.
LEMMA TimesChanges ==
  ASSUME NEW v \in Volumes, NEW o \in Objs, v.ni[o] \in Inodes
  PROVE  Changes(ntfs_inode_update_times(v, o), v, o, WithDirty(WithName(v.ni[o], TRUE), {"base"}))
<1> DEFINE n1 == WithName(v.ni[o], TRUE)
           n2 == WithDirty(n1, {"base"})
           u == [v EXCEPT !.ni[o].name_dirty = TRUE]
<1>3. n1 \in Inodes
  BY WithKeeps, Zenon
<1>4. n2 \in Inodes
  BY <1>3, WithKeeps, Zenon
<1>5. [v.ni[o] EXCEPT !.name_dirty = TRUE] = n1
  BY WithAreExcepts, Zenon
<1>6. u = [v EXCEPT !.ni[o] = n1]
  BY <1>5, Zenon
<1>7. Changes(u, v, o, n1)
  BY <1>3, <1>6, InodeChanges, Zenon
<1>8. v.ni[o].dirty \cup {"base", "base"} = {"base"}
  BY WithAreExcepts
<1>9. ntfs_inode_update_times(v, o) = [u EXCEPT !.ni[o].dirty = v.ni[o].dirty \cup {"base", "base"}]
  BY Zenon DEF ntfs_inode_update_times, ntfs_inode_mark_dirty
<1>10. ntfs_inode_update_times(v, o) = [u EXCEPT !.ni[o].dirty = {"base"}]
  BY <1>8, <1>9, Zenon
<1> HIDE DEF u, n1, n2
<1>11. u \in Volumes /\ u.ni[o] = n1
  BY <1>7 DEF Changes, Effect
<1>12. [u.ni[o] EXCEPT !.dirty = {"base"}] = n2
  BY <1>3, <1>11, WithAreExcepts, Zenon DEF n2
<1>13. [u EXCEPT !.ni[o].dirty = {"base"}] = [u EXCEPT !.ni[o] = n2]
  BY <1>12, Zenon
<1>14. Changes([u EXCEPT !.ni[o] = n2], u, o, n2)
  BY <1>4, <1>11, InodeChanges, Zenon
<1>15. Changes(ntfs_inode_update_times(v, o), u, o, n2)
  BY <1>10, <1>13, <1>14, Zenon
<1>16. n2 = WithDirty(WithName(v.ni[o], TRUE), {"base"})
  BY DEF n1, n2
<1> QED BY <1>7, <1>15, <1>16, Zenon DEF Changes, Effect, Others

\* A synced inode is no longer dirty.
LEMMA DirtyCleared ==
  ASSUME NEW m \in Memory, NEW d \in Objs
  PROVE  LET k == [m EXCEPT ![d].dirty = {}]
         IN  k \in Memory /\ k[d] = WithDirty(m[d], {}) /\ Others(k, m, d)
  BY Zenon DEF Memory, WithDirty, Others

\* ntfs_inode_sync writes the base record, which for a directory holds the index.
LEMMA WriteOutEffect ==
  ASSUME NEW v \in Volumes, NEW o \in Objs, v.ni[o] \in Inodes
  PROVE  LET n == v.ni[o]
         IN  Effect(WriteOut(v, o, {}), v, o, [v.disk EXCEPT ![n.mft].base = n.base],
                    IF n.mft = Root THEN n.index ELSE v.index, WithDirty(n, {}))
<1> DEFINE u == WriteOut(v, o, {})
           k == [v.ni EXCEPT ![o].dirty = {}]
<1>1. v.ni \in Memory
  BY DEF Volumes
<1>2. k[o] = WithDirty(v.ni[o], {}) /\ Others(k, v.ni, o)
  BY <1>1, DirtyCleared, Zenon
<1>3. /\ u \in Volumes /\ u.disk = [v.disk EXCEPT ![v.ni[o].mft].base = v.ni[o].base]
      /\ u.index = (IF v.ni[o].mft = Root THEN v.ni[o].index ELSE v.index)
      /\ u.mftbmp = v.mftbmp /\ u.ni = k
  BY WriteOutParts, Zenon
<1> HIDE DEF u, k
<1> QED BY <1>2, <1>3, Zenon DEF Effect, u

\* ntfs_inode_open and ntfs_inode_real_close, in these terms.
LEMMA OpenChanges ==
  ASSUME NEW v \in Volumes, NEW k \in Nat \ {0}, HasRoom(v, k), NEW f \in Files
  PROVE  /\ Fresh(v) \in Objs /\ v.ni[Fresh(v)] = Gone /\ OpenedNi(v, f) = Fresh(v)
         /\ Changes(AfterOpen(v, f), v, Fresh(v), NewInode(v, f)) /\ NewInode(v, f) \in Inodes
<1>1. /\ Fresh(v) \in Objs /\ v.ni[Fresh(v)] = Gone
      /\ AfterOpen(v, f) \in Volumes
      /\ AfterOpen(v, f).ni = [v.ni EXCEPT ![Fresh(v)] = NewInode(v, f)]
      /\ AfterOpen(v, f).disk = v.disk /\ AfterOpen(v, f).index = v.index
      /\ AfterOpen(v, f).mftbmp = v.mftbmp
  BY AllocateKeeps
<1>2. OpenedNi(v, f) = Fresh(v) /\ NewInode(v, f) \in Inodes
  BY OpenIsReal, Zenon
<1>3. AfterOpen(v, f).ni[Fresh(v)] = NewInode(v, f) /\ Others(AfterOpen(v, f).ni, v.ni, Fresh(v))
  BY <1>1 DEF Volumes, Memory, Others
<1> QED BY <1>1, <1>2, <1>3 DEF Changes, Effect

\* ntfs_inode_real_close frees one inode, and writes nothing.
LEMMA FreeChanges ==
  ASSUME NEW v \in Volumes, NEW o \in Objs, v.ni[o] \in Inodes
  PROVE  Changes(nidata_free(v, o), v, o, Gone)
<1> DEFINE k == [v.ni EXCEPT ![o] = Gone]
<1>1. nidata_free(v, o) = [v EXCEPT !.ni = k]
  BY FreeIsGone, Zenon
<1>2. k \in Memory /\ k[o] = Gone /\ Others(k, v.ni, o)
  BY DEF Volumes, Memory, Gone, Others, NoIndex, Indices
<1> HIDE DEF k
<1>3. LET u == [v EXCEPT !.ni = k] IN
        u \in Volumes /\ u.disk = v.disk /\ u.index = v.index /\ u.mftbmp = v.mftbmp /\ u.ni = k
  BY <1>2, Zenon DEF Volumes
<1> QED BY <1>1, <1>2, <1>3, Zenon DEF Changes, Effect

\* Closing without a cache: a clean inode is closed for good.
LEMMA CloseChanges ==
  ASSUME NEW v \in Volumes, NEW o \in Objs, v.ni[o] \in Inodes
  PROVE  /\ Changes(EnterCache(v, o), v, o, Gone)
         /\ v.ni[o].dirty = {} => /\ Changes(Close(v, o, {}, {}), v, o, Gone)
                                  /\ Changes(RealClose(v, o, {}), v, o, Gone)
<1>1. ~v.caching
  BY Zenon DEF Volumes
<1>2. Changes(nidata_free(v, o), v, o, Gone)
  BY FreeChanges
<1>3. EnterCache(v, o) = nidata_free(v, o)
  BY <1>1, Zenon DEF EnterCache
<1>4. ASSUME v.ni[o].dirty = {}
      PROVE  /\ RealClose(v, o, {}) = nidata_free(v, o)
             /\ Close(v, o, {}, {}) = nidata_free(v, o)
  <2>1. RealClose(v, o, {}) = nidata_free(v, o)
    BY <1>4 DEF RealClose, RealCloseFails
  <2>2. Close(v, o, {}, {}) = nidata_free(v, o)
    BY <1>1, <2>1 DEF Close
  <2> QED BY <2>1, <2>2
<1> QED BY <1>2, <1>3, <1>4, Zenon

\* What ntfs_inode_sync leaves in the directory and in the inode.
Named(n) == n.name_dirty /\ n.base # 0
SyncedDisk(v, n) == [v.disk EXCEPT ![n.mft].base = n.base]
SyncedIndex(v, n) == IF Named(n) THEN [v.index EXCEPT ![n.mft] = n.base] ELSE v.index
SyncedInode(n) == WithDirty(IF Named(n) THEN WithName(n, FALSE) ELSE n, {})

\* ntfs_inode_sync_file_name of a file opens, writes and closes the directory.
LEMMA NameOfFile ==
  ASSUME NEW v \in Volumes, NEW o \in Objs, v.ni[o] \in Inodes, NEW k \in Nat \ {0}, HasRoom(v, k),
         v.ni[o].mft # Root, Named(v.ni[o])
  PROVE  Effect(SyncName(v, o, 0, {}), v, o, v.disk,
                [v.index EXCEPT ![v.ni[o].mft] = v.ni[o].base], WithName(v.ni[o], FALSE))
<1> DEFINE n == v.ni[o]
           f == n.mft
           b == n.base
           d == Fresh(v)
           r1 == NewInode(v, Root)
           r2 == WithEntry(r1, f, b)
           r3 == WithName(r2, FALSE)
           v1 == AfterOpen(v, Root)
           v2 == SetEntry(v1, d, f, b)
           v3 == NameSynced(v2, o)
           v4 == NameSynced(v3, d)
           v5 == WriteOut(v4, d, {})
           v6 == EnterCache(v5, d)
<1>1. f \in Files /\ b \in Nat /\ Root \in Files
  BY InodeAssumption DEF Inodes
<1>2. d \in Objs /\ v.ni[d] = Gone /\ OpenedNi(v, Root) = d /\ Changes(v1, v, d, r1) /\ r1 \in Inodes
  BY <1>1, OpenChanges, Zenon
<1>3. o # d
  BY LiveIsNotFresh
<1>4. SyncName(v, o, 0, {}) = v6
  BY <1>2 DEF SyncName, Named
<1>5. r1.mft = Root /\ r1.base = v.disk[Root].base /\ r1.index = v.index
  BY DEF NewInode
<1>6. r2 \in Inodes /\ r2.mft = Root /\ r2.base = v.disk[Root].base /\ r2.index = [v.index EXCEPT ![f] = b]
  <2>1. r2 \in Inodes
    BY <1>1, <1>2, WithKeeps
  <2> QED BY <1>5, <2>1 DEF WithEntry
<1>7. r3 \in Inodes /\ r3.mft = Root /\ r3.base = v.disk[Root].base /\ r3.index = [v.index EXCEPT ![f] = b]
  <2>1. r3 \in Inodes
    BY <1>6, WithKeeps, Zenon
  <2> QED BY <1>6, <2>1 DEF WithName
<1> HIDE DEF f, b, d, r1, r2, r3, v1, v2, v3, v4, v5, v6, n
<1>8. Changes(v2, v1, d, r2)
  <2>1. v1 \in Volumes /\ v1.ni[d] = r1
    BY <1>2 DEF Changes, Effect
  <2> QED BY <1>1, <1>2, <2>1, SetEntryChanges, Zenon DEF v2, r2
<1>9. Changes(v3, v2, o, WithName(n, FALSE))
  <2>1. v2 \in Volumes /\ v2.ni[o] = n
    BY <1>2, <1>3, <1>8 DEF Changes, Effect, Others, n
  <2>2. n \in Inodes
    BY DEF n
  <2> QED BY <2>1, <2>2, NameSyncedChanges, Zenon DEF v3
<1>10. Changes(v4, v3, d, r3)
  <2>1. v3 \in Volumes /\ v3.ni[d] = r2
    BY <1>2, <1>3, <1>8, <1>9 DEF Changes, Effect, Others
  <2> QED BY <1>2, <1>6, <2>1, NameSyncedChanges, Zenon DEF v4, r3
<1>11. v4 \in Volumes /\ v4.ni[d] = r3 /\ v4.disk = v.disk
  BY <1>2, <1>8, <1>9, <1>10, Zenon DEF Changes, Effect
<1>12. Effect(v5, v4, d, v.disk, [v.index EXCEPT ![f] = b], WithDirty(r3, {}))
  <2>1. Effect(v5, v4, d, [v4.disk EXCEPT ![r3.mft].base = r3.base],
               IF r3.mft = Root THEN r3.index ELSE v4.index, WithDirty(r3, {}))
    BY <1>2, <1>7, <1>11, WriteOutEffect, Zenon DEF v5
  <2>2. [v.disk EXCEPT ![Root].base = v.disk[Root].base] = v.disk
    BY <1>1 DEF Volumes, Disks
  <2>3. [v4.disk EXCEPT ![r3.mft].base = r3.base] = v.disk
    BY <1>7, <1>11, <2>2, Zenon
  <2> QED BY <1>7, <2>1, <2>3, Zenon
<1>13. Changes(v6, v5, d, Gone)
  <2>1. WithDirty(r3, {}) \in Inodes
    BY <1>7, WithKeeps
  <2> QED BY <1>2, <1>12, <2>1, CloseChanges, Zenon DEF v6, Effect
<1>14. v6 \in Volumes /\ v6.disk = v.disk /\ v6.index = [v.index EXCEPT ![f] = b] /\ v6.mftbmp = v.mftbmp
  BY <1>2, <1>8, <1>9, <1>10, <1>12, <1>13, Zenon DEF Changes, Effect
<1>15. v6.ni[o] = WithName(n, FALSE)
  BY <1>3, <1>9, <1>10, <1>12, <1>13, Zenon DEF Changes, Effect, Others
<1>16. ASSUME NEW p \in Objs, p # o PROVE v6.ni[p] = v.ni[p]
  <2>1. CASE p = d
    BY <1>2, <1>13, <2>1 DEF Changes, Effect
  <2>2. CASE p # d
    BY <1>2, <1>8, <1>9, <1>10, <1>12, <1>13, <1>16, <2>2 DEF Changes, Effect, Others
  <2> QED BY <2>1, <2>2
<1> QED BY <1>4, <1>14, <1>15, <1>16, Zenon DEF Effect, Others, f, b, n

\* ntfs_inode_sync of a file, and of the directory.
LEMMA SyncOfFile ==
  ASSUME NEW v \in Volumes, NEW o \in Objs, v.ni[o] \in Inodes, v.ni[o].mft # Root,
         Named(v.ni[o]) => \E k \in Nat \ {0} : HasRoom(v, k)
  PROVE  /\ Effect(Sync(v, o, 0, {}), v, o, SyncedDisk(v, v.ni[o]), SyncedIndex(v, v.ni[o]),
                   SyncedInode(v.ni[o]))
         /\ SyncedInode(v.ni[o]) \in Inodes /\ SyncedInode(v.ni[o]).dirty = {}
<1> DEFINE n == v.ni[o]
           m == IF Named(n) THEN WithName(n, FALSE) ELSE n
           u == SyncName(v, o, 0, {})
<1>1. Effect(u, v, o, v.disk, SyncedIndex(v, n), m)
  <2>1. CASE Named(n)
    BY <2>1, NameOfFile, Zenon DEF SyncedIndex
  <2>2. CASE ~Named(n)
    <3>1. u = v
      BY <2>2 DEF SyncName, Named
    <3> QED BY <2>2, <3>1 DEF Effect, SyncedIndex, Others
  <2> QED BY <2>1, <2>2, Zenon
<1>2. m \in Inodes /\ m.mft = n.mft /\ m.base = n.base
  BY WithKeeps, Zenon DEF WithName
<1>3. WithDirty(m, {}) \in Inodes /\ WithDirty(m, {}).dirty = {}
  BY <1>2, WithKeeps, Zenon DEF WithDirty
<1>4. SyncedInode(n) = WithDirty(m, {})
  BY DEF SyncedInode
<1> HIDE DEF n, m, u
<1>5. u \in Volumes /\ u.ni[o] = m /\ u.disk = v.disk /\ u.index = SyncedIndex(v, n)
  BY <1>1 DEF Effect
<1>6. n.mft # Root
  BY DEF n
<1>7. Effect(WriteOut(u, o, {}), u, o, [u.disk EXCEPT ![m.mft].base = m.base],
             IF m.mft = Root THEN m.index ELSE u.index, WithDirty(m, {}))
  BY <1>2, <1>5, WriteOutEffect, Zenon
<1>8. [u.disk EXCEPT ![m.mft].base = m.base] = SyncedDisk(v, n)
  BY <1>2, <1>5, Zenon DEF SyncedDisk
<1>9. Effect(WriteOut(u, o, {}), u, o, SyncedDisk(v, n), SyncedIndex(v, n), WithDirty(m, {}))
  BY <1>2, <1>5, <1>6, <1>7, <1>8, Zenon
<1>10. Effect(WriteOut(u, o, {}), v, o, SyncedDisk(v, n), SyncedIndex(v, n), WithDirty(m, {}))
  BY <1>1, <1>9, Zenon DEF Effect, Others
<1> QED BY <1>3, <1>4, <1>10, Zenon DEF Sync, u, n

\* The index in the inode of the directory becomes the one on disk.
LEMMA SyncOfRoot ==
  ASSUME NEW v \in Volumes, NEW o \in Objs, v.ni[o] \in Inodes, v.ni[o].mft = Root
  PROVE  /\ Effect(Sync(v, o, 0, {}), v, o, SyncedDisk(v, v.ni[o]), v.ni[o].index,
                   SyncedInode(v.ni[o]))
         /\ SyncedInode(v.ni[o]) \in Inodes /\ SyncedInode(v.ni[o]).dirty = {}
<1> DEFINE n == v.ni[o]
           m == IF Named(n) THEN WithName(n, FALSE) ELSE n
           u == SyncName(v, o, 0, {})
<1>1. Changes(u, v, o, m)
  <2>1. CASE Named(n)
    <3>1. u = NameSynced(v, o)
      BY <2>1 DEF SyncName, Named
    <3> QED BY <2>1, <3>1, NameSyncedChanges, Zenon
  <2>2. CASE ~Named(n)
    <3>1. u = v
      BY <2>2 DEF SyncName, Named
    <3> QED BY <2>2, <3>1 DEF Changes, Effect, Others
  <2> QED BY <2>1, <2>2, Zenon
<1>2. m \in Inodes /\ m.mft = n.mft /\ m.base = n.base /\ m.index = n.index
  BY WithKeeps, Zenon DEF WithName
<1>3. WithDirty(m, {}) \in Inodes /\ WithDirty(m, {}).dirty = {}
  BY <1>2, WithKeeps, Zenon DEF WithDirty
<1>4. SyncedInode(n) = WithDirty(m, {})
  BY DEF SyncedInode
<1> HIDE DEF n, m, u
<1>5. u \in Volumes /\ u.ni[o] = m /\ u.disk = v.disk
  BY <1>1 DEF Changes, Effect
<1>6. n.mft = Root
  BY DEF n
<1>7. Effect(WriteOut(u, o, {}), u, o, [u.disk EXCEPT ![m.mft].base = m.base],
             IF m.mft = Root THEN m.index ELSE u.index, WithDirty(m, {}))
  BY <1>2, <1>5, WriteOutEffect, Zenon
<1>8. [u.disk EXCEPT ![m.mft].base = m.base] = SyncedDisk(v, n)
  BY <1>2, <1>5, Zenon DEF SyncedDisk
<1>9. Effect(WriteOut(u, o, {}), u, o, SyncedDisk(v, n), n.index, WithDirty(m, {}))
  BY <1>2, <1>5, <1>6, <1>7, <1>8, Zenon
<1>10. Effect(WriteOut(u, o, {}), v, o, SyncedDisk(v, n), n.index, WithDirty(m, {}))
  BY <1>1, <1>9, Zenon DEF Changes, Effect, Others
<1> QED BY <1>3, <1>4, <1>10, Zenon DEF Sync, u, n

\* An inode that was synced is closed.
LEMMA FreedAfter ==
  ASSUME NEW v \in Volumes, NEW u, NEW o \in Objs, NEW disk, NEW index, NEW n \in Inodes, n.dirty = {},
         Effect(u, v, o, disk, index, n)
  PROVE  /\ Effect(Close(u, o, {}, {}), v, o, disk, index, Gone)
         /\ Effect(RealClose(u, o, {}), v, o, disk, index, Gone)
<1>1. u \in Volumes /\ u.ni[o] = n
  BY DEF Effect
<1>2. /\ Changes(Close(u, o, {}, {}), u, o, Gone)
      /\ Changes(RealClose(u, o, {}), u, o, Gone)
  BY <1>1, CloseChanges, Zenon
<1> QED BY <1>2, Zenon DEF Effect, Changes, Others

\* ntfs_inode_close of the directory writes its index.
LEMMA CloseOfRoot ==
  ASSUME NEW v \in Volumes, NEW o \in Objs, v.ni[o] \in Inodes, v.ni[o].mft = Root, v.ni[o].dirty # {}
  PROVE  Effect(Close(v, o, {}, {}), v, o, SyncedDisk(v, v.ni[o]), v.ni[o].index, Gone)
<1> DEFINE u == Sync(v, o, 0, {})
           m == SyncedInode(v.ni[o])
<1>1. "base" \in v.ni[o].dirty
  BY DEF Inodes
<1>2. Effect(u, v, o, SyncedDisk(v, v.ni[o]), v.ni[o].index, m) /\ m \in Inodes /\ m.dirty = {}
  BY SyncOfRoot, Zenon
<1>3. ~v.caching
  BY Zenon DEF Volumes
<1>4. ~SyncFails(v, o, {})
  BY DEF SyncFails
<1>5. Close(v, o, {}, {}) = nidata_free(u, o)
  BY <1>1, <1>3, <1>4 DEF Close, RealClose, RealCloseFails
<1> HIDE DEF u, m
<1>6. u \in Volumes /\ u.ni[o] = m
  BY <1>2 DEF Effect
<1>7. Changes(nidata_free(u, o), u, o, Gone)
  BY <1>2, <1>6, FreeChanges, Zenon
<1> QED BY <1>2, <1>5, <1>7, Zenon DEF Effect, Changes, Others

\* NtfsWriteFile: the inode gets the version, and is dirty.
WrittenInode(n, b) == WithBase(WithDirty(WithName(n, TRUE), {"base"}), b)

\* Nothing but that inode changes.
LEMMA ChangedChanges ==
  ASSUME NEW v \in Volumes, NEW o \in Objs, v.ni[o] \in Inodes, NEW b \in Nat
  PROVE  /\ Changes(Changed(v, o, "base", b), v, o, WrittenInode(v.ni[o], b))
         /\ WrittenInode(v.ni[o], b) \in Inodes
<1> DEFINE n1 == WithDirty(WithName(v.ni[o], TRUE), {"base"})
           n2 == WithBase(n1, b)
           u == ntfs_inode_update_times(v, o)
<1>1. n1 \in Inodes
  <2>1. WithName(v.ni[o], TRUE) \in Inodes
    BY WithKeeps, Zenon
  <2> QED BY <2>1, WithKeeps, Zenon
<1>2. n2 \in Inodes
  BY <1>1, WithKeeps, Zenon
<1>3. Changes(u, v, o, n1)
  BY TimesChanges, Zenon
<1>4. Changed(v, o, "base", b) = [u EXCEPT !.ni[o].base = b]
  BY Zenon DEF Changed
<1>5. n2 = WrittenInode(v.ni[o], b)
  BY DEF WrittenInode
<1> HIDE DEF n1, n2, u
<1>6. u \in Volumes /\ u.ni[o] = n1
  BY <1>3 DEF Changes, Effect
<1>7. [u.ni[o] EXCEPT !.base = b] = n2
  BY <1>1, <1>6, WithAreExcepts, Zenon DEF n2
<1>8. [u EXCEPT !.ni[o].base = b] = [u EXCEPT !.ni[o] = n2]
  BY <1>7, Zenon
<1>9. Changes([u EXCEPT !.ni[o] = n2], u, o, n2)
  BY <1>2, <1>6, InodeChanges, Zenon
<1>10. Changes([u EXCEPT !.ni[o] = n2], v, o, n2)
  BY <1>3, <1>9, Zenon DEF Changes, Effect, Others
<1> QED BY <1>2, <1>4, <1>5, <1>8, <1>10, Zenon

\* Room for inodes: a change of an inode leaves it, ntfs_inode_open takes one.
LEMMA SameRoom ==
  ASSUME NEW v \in Volumes, NEW u, NEW o \in Objs, v.ni[o] \in Inodes, NEW n \in Inodes,
         NEW disk, NEW index, Effect(u, v, o, disk, index, n), NEW k \in Nat
  PROVE  HasRoom(u, k) <=> HasRoom(v, k)
<1>1. n # Gone /\ v.ni[o] # Gone
  BY InodeAssumption DEF Gone, Inodes
<1>2. Live(u) = Live(v)
  BY <1>1 DEF Live, Effect, Others
<1> QED BY <1>2 DEF HasRoom

\* An open takes one of the free addresses.
LEMMA RoomAfterOpen ==
  ASSUME NEW v \in Volumes, NEW k \in Nat, HasRoom(v, k + 1), NEW f \in Files
  PROVE  HasRoom(AfterOpen(v, f), k)
<1> DEFINE u == AfterOpen(v, f)
           d == Fresh(v)
           S == Objs \ Live(v)
<1>1. k + 1 \in Nat \ {0}
  OBVIOUS
<1>2. d \in Objs /\ v.ni[d] = Gone /\ Changes(u, v, d, NewInode(v, f)) /\ NewInode(v, f) \in Inodes
  BY <1>1, OpenChanges, Zenon
<1>3. NewInode(v, f) # Gone
  BY InodeAssumption DEF Gone, NewInode
<1> HIDE DEF u, d
<1>4. Objs \ Live(u) = S \ {d} /\ d \in S
  BY <1>2, <1>3 DEF Live, Changes, Effect, Others
<1>5. IsFiniteSet(S)
  BY InodeAssumption, FS_Difference, Zenon
<1> HIDE DEF S
<1>6. Cardinality(S \ {d}) = Cardinality(S) - 1 /\ Cardinality(S) \in Nat
  BY <1>4, <1>5, FS_RemoveElement, FS_CardinalityType
<1>7. Cardinality(S) >= k + 1
  BY DEF HasRoom, S
<1>8. Cardinality(S \ {d}) >= k
  BY <1>6, <1>7
<1> QED BY <1>4, <1>8, Zenon DEF HasRoom, u

\* The MFT bitmap is changed alone (ntfs_mft_record_alloc and _free).
LEMMA BitmapChanges ==
  ASSUME NEW v \in Volumes, NEW S \in SUBSET Files
  PROVE  LET u == [v EXCEPT !.mftbmp = S]
         IN  /\ u \in Volumes /\ u.mftbmp = S
             /\ u.disk = v.disk /\ u.index = v.index /\ u.ni = v.ni
  BY Zenon DEF Volumes

\* A record and an entry after they were written.
WithRecord(v, f, b) == [v.disk EXCEPT ![f].base = b]
WithIndex(v, f, b) == [v.index EXCEPT ![f] = b]

\* The directory after its entry and its times were changed in a new inode.
RootInode(v, f, b) == WithDirty(WithName(WithEntry(NewInode(v, Root), f, b), TRUE), {"base"})

\* What is in it.
LEMMA RootInodeIs ==
  ASSUME NEW v \in Volumes, NEW f \in Files, NEW b \in Nat
  PROVE  LET r == RootInode(v, f, b)
         IN  /\ r \in Inodes /\ r.mft = Root /\ r.base = v.disk[Root].base
             /\ r.index = WithIndex(v, f, b) /\ r.dirty # {}
<1> DEFINE r1 == NewInode(v, Root)
           r2 == WithEntry(r1, f, b)
           r3 == WithName(r2, TRUE)
           r4 == WithDirty(r3, {"base"})
<1>1. r1 \in Inodes
  BY InodeAssumption, OpenIsReal, Zenon
<1>2. r2 \in Inodes
  BY <1>1, WithKeeps
<1>3. r3 \in Inodes
  BY <1>2, WithKeeps, Zenon
<1>4. r4 \in Inodes
  BY <1>3, WithKeeps, Zenon
<1>5. r4.mft = Root /\ r4.base = v.disk[Root].base /\ r4.index = WithIndex(v, f, b) /\ r4.dirty # {}
  BY Zenon DEF NewInode, WithEntry, WithName, WithDirty, WithIndex
<1> QED BY <1>4, <1>5, Zenon DEF RootInode

\* It is made by these two steps, whatever else is in memory.
LEMMA EntryAndTimes ==
  ASSUME NEW v \in Volumes, NEW u \in Volumes, NEW d \in Objs, u.ni[d] = NewInode(v, Root),
         NEW f \in Files, NEW b \in Nat
  PROVE  Changes(ntfs_inode_update_times(SetEntry(u, d, f, b), d), u, d, RootInode(v, f, b))
<1> DEFINE r1 == NewInode(v, Root)
           r2 == WithEntry(r1, f, b)
           u2 == SetEntry(u, d, f, b)
           u3 == ntfs_inode_update_times(u2, d)
<1>1. r1 \in Inodes
  BY InodeAssumption, OpenIsReal, Zenon
<1>2. r2 \in Inodes
  BY <1>1, WithKeeps
<1>3. RootInode(v, f, b) = WithDirty(WithName(r2, TRUE), {"base"})
  BY DEF RootInode
<1> HIDE DEF r1
<1>4. Changes(u2, u, d, r2)
  <2>1. u.ni[d] = r1
    BY DEF r1
  <2> QED BY <1>1, <2>1, SetEntryChanges, Zenon
<1> HIDE DEF r2, u2
<1>5. u2 \in Volumes /\ u2.ni[d] = r2
  BY <1>4 DEF Changes, Effect
<1>6. Changes(u3, u2, d, WithDirty(WithName(r2, TRUE), {"base"}))
  BY <1>2, <1>5, TimesChanges, Zenon
<1> HIDE DEF u3
<1>7. Changes(u3, u, d, RootInode(v, f, b))
  BY <1>3, <1>4, <1>6, Zenon DEF Changes, Effect, Others
<1> QED BY <1>7 DEF u3, u2

\* ntfsCreate: the record and the entry of the file are written, its inode
\* stays open, and the one of the directory is closed again.
CreatedInode(f, b) ==
  [mft |-> f, base |-> b, ext |-> 0, attached |-> FALSE, index |-> NoIndex,
   dirty |-> {}, name_dirty |-> FALSE]

\* ntfsCreate: the record and the entry of the new file are on disk, its inode
\* is clean, and the one of the directory is closed.
LEMMA CreateEffect ==
  ASSUME NEW v \in Volumes, HasRoom(v, 2), NEW f \in Files \ {Root}, NEW b \in Nat
  PROVE  LET o == CreatedNi(v)
             u == Create(v, f, b)
         IN  /\ o \in Objs /\ v.ni[o] = Gone /\ u \in Volumes
             /\ u.disk = [v.disk EXCEPT ![f].base = b] /\ u.index = WithIndex(v, f, b)
             /\ u.mftbmp = v.mftbmp \cup {f}
             /\ u.ni[o] = CreatedInode(f, b) /\ CreatedInode(f, b) \in Inodes
             /\ Others(u.ni, v.ni, o)
<1> DEFINE d == Fresh(v)
           v1 == AfterOpen(v, Root)
           o == Fresh(v1)
           c == [mft |-> f, base |-> b, ext |-> 0, attached |-> FALSE,
                 index |-> NoIndex, dirty |-> {"base"}, name_dirty |-> FALSE]
           S == v1.mftbmp \cup {f}
           v2 == [v1 EXCEPT !.mftbmp = S]
           v3 == [v2 EXCEPT !.ni[o] = c]
           v4 == ntfs_inode_update_times(SetEntry(v3, d, f, b), d)
           v5 == Sync(v4, o, 0, {})
           v6 == Close(v5, d, {}, {})
           r == RootInode(v, f, b)
<1>1. Root \in Files /\ f \in Files /\ f # Root /\ 2 \in Nat \ {0} /\ 1 \in Nat \ {0} /\ 1 \in Nat /\ 1 + 1 = 2
  BY InodeAssumption
<1>2. d \in Objs /\ v.ni[d] = Gone /\ OpenedNi(v, Root) = d /\ Changes(v1, v, d, NewInode(v, Root))
      /\ NewInode(v, Root) \in Inodes
  BY <1>1, OpenChanges, Zenon
<1>3. HasRoom(v1, 1)
  BY <1>1, RoomAfterOpen, Zenon
<1>4. v1 \in Volumes /\ v1.ni[d] = NewInode(v, Root)
  BY <1>2 DEF Changes, Effect
<1>5. o \in Objs /\ v1.ni[o] = Gone
  <2> HIDE DEF v1
  <2> QED BY <1>1, <1>3, <1>4, FreshIsFree, Zenon
<1>6. o # d
  <2>1. NewInode(v, Root) # Gone
    BY <1>2, LiveInode
  <2> QED BY <1>4, <1>5, <2>1, Zenon
<1>7. ~Nidata!Holds(v1.nidata, f)
  <2>1. v1.nidata = << >>
    BY <1>4 DEF Volumes
  <2> HIDE DEF v1
  <2> QED BY <2>1 DEF Nidata!Holds, Nidata!Positions
<1>8. Create(v, f, b) = v6
  BY <1>2, <1>7, Zenon DEF Create, CreatedNi
<1>9. c \in Inodes
  BY <1>1 DEF Inodes, NoIndex, Indices
<1>10. CreatedNi(v) = o
  BY DEF CreatedNi
<1>11. /\ SyncedInode(c) = CreatedInode(f, b) /\ ~Named(c) /\ c.mft = f /\ c.base = b
  BY Zenon DEF SyncedInode, CreatedInode, Named, WithDirty
<1>12. r \in Inodes /\ r.mft = Root /\ r.base = v.disk[Root].base
       /\ r.index = WithIndex(v, f, b) /\ r.dirty # {}
  BY <1>1, RootInodeIs, Zenon
<1> HIDE DEF d, v1, o, c, v2, v3, v4, v5, v6, r
<1>13. /\ v2 \in Volumes /\ v2.mftbmp = v.mftbmp \cup {f}
       /\ v2.disk = v.disk /\ v2.index = v.index /\ v2.ni = v1.ni
  <2>1. S \in SUBSET Files /\ S = v.mftbmp \cup {f}
    BY <1>1, <1>2, <1>4 DEF Volumes, Changes, Effect
  <2> HIDE DEF S
  <2>2. v2 \in Volumes /\ v2.mftbmp = S /\ v2.disk = v1.disk /\ v2.index = v1.index /\ v2.ni = v1.ni
    BY <1>4, <2>1, BitmapChanges, Zenon DEF v2
  <2> QED BY <1>2, <2>1, <2>2, Zenon DEF Changes, Effect
<1>14. Changes(v3, v2, o, c)
  BY <1>5, <1>9, <1>13, InodeChanges, Zenon DEF v3
<1>15. v3 \in Volumes /\ v3.ni[d] = NewInode(v, Root)
  BY <1>2, <1>4, <1>6, <1>13, <1>14, Zenon DEF Changes, Effect, Others
<1>16. Changes(v4, v3, d, r)
  BY <1>1, <1>2, <1>15, EntryAndTimes, Zenon DEF v4, r
<1>17. v4 \in Volumes /\ v4.ni[o] = c /\ v4.disk = v.disk /\ v4.index = v.index /\ v4.mftbmp = v.mftbmp \cup {f}
  BY <1>5, <1>6, <1>13, <1>14, <1>16 DEF Changes, Effect, Others
<1>18. /\ Effect(v5, v4, o, SyncedDisk(v4, c), SyncedIndex(v4, c), SyncedInode(c))
       /\ SyncedInode(c) \in Inodes
  BY <1>1, <1>5, <1>9, <1>11, <1>17, SyncOfFile, Zenon DEF v5
<1>19. SyncedDisk(v4, c) = [v.disk EXCEPT ![f].base = b] /\ SyncedIndex(v4, c) = v.index
  BY <1>11, <1>17, Zenon DEF SyncedDisk, SyncedIndex
<1>20. v5 \in Volumes /\ v5.ni[d] = r /\ v5.disk = [v.disk EXCEPT ![f].base = b]
       /\ v5.ni[o] = CreatedInode(f, b) /\ v5.mftbmp = v.mftbmp \cup {f}
  <2>1. v4.ni[d] = r
    BY <1>16, Zenon DEF Changes, Effect
  <2> QED BY <1>2, <1>6, <1>11, <1>17, <1>18, <1>19, <2>1, Zenon DEF Effect, Others
<1>21. Effect(v6, v5, d, SyncedDisk(v5, r), r.index, Gone)
  BY <1>2, <1>12, <1>20, CloseOfRoot, Zenon DEF v6
<1>22. SyncedDisk(v5, r) = [v.disk EXCEPT ![f].base = b]
  <2> DEFINE disk == [v.disk EXCEPT ![f].base = b]
  <2>1. disk \in Disks /\ disk[Root] = v.disk[Root]
    BY <1>1 DEF Volumes, Disks
  <2> HIDE DEF disk
  <2>2. [disk EXCEPT ![Root].base = disk[Root].base] = disk
    BY <1>1, <2>1 DEF Disks
  <2>3. SyncedDisk(v5, r) = [disk EXCEPT ![Root].base = disk[Root].base]
    BY <1>12, <1>20, <2>1, Zenon DEF SyncedDisk, disk
  <2> QED BY <2>2, <2>3 DEF disk
<1>23. /\ v6 \in Volumes /\ v6.disk = [v.disk EXCEPT ![f].base = b] /\ v6.index = WithIndex(v, f, b)
       /\ v6.mftbmp = v.mftbmp \cup {f} /\ v6.ni[o] = CreatedInode(f, b)
  BY <1>5, <1>6, <1>12, <1>20, <1>21, <1>22, Zenon DEF Effect, Others
<1>24. ASSUME NEW p \in Objs, p # o PROVE v6.ni[p] = v.ni[p]
  <2>1. CASE p = d
    BY <1>2, <1>21, <2>1, Zenon DEF Effect
  <2>2. CASE p # d
    <3>1. v1.ni[p] = v.ni[p] /\ v3.ni[p] = v2.ni[p] /\ v4.ni[p] = v3.ni[p]
      BY <1>2, <1>14, <1>16, <1>24, <2>2, Zenon DEF Changes, Effect, Others
    <3>2. v5.ni[p] = v4.ni[p] /\ v6.ni[p] = v5.ni[p]
      BY <1>18, <1>21, <1>24, <2>2, Zenon DEF Effect, Others
    <3> QED BY <1>13, <3>1, <3>2, Zenon
  <2> QED BY <2>1, <2>2
<1>25. v.ni[o] = Gone
  BY <1>2, <1>5, <1>6 DEF Changes, Effect, Others
<1>26. Others(v6.ni, v.ni, o)
  BY <1>24 DEF Others
<1> QED BY <1>5, <1>8, <1>10, <1>11, <1>18, <1>23, <1>25, <1>26, Zenon

\* ntfs_delete: the entry and the record of the file are gone, and both the
\* inode of the file and the one of the directory are closed.
LEMMA DeleteEffect ==
  ASSUME NEW v \in Volumes, HasRoom(v, 1), NEW o \in Objs, v.ni[o] \in Inodes, v.ni[o].mft # Root
  PROVE  LET f == v.ni[o].mft
             u == Delete(v, o)
         IN  /\ u \in Volumes
             /\ u.disk = [v.disk EXCEPT ![f].base = 0] /\ u.index = WithIndex(v, f, 0)
             /\ u.mftbmp = v.mftbmp \ {f}
             /\ u.ni[o] = Gone /\ Others(u.ni, v.ni, o)
<1> DEFINE n == v.ni[o]
           f == n.mft
           d == Fresh(v)
           v1 == AfterOpen(v, Root)
           v2 == ntfs_inode_update_times(SetEntry(v1, d, f, 0), d)
           S == v2.mftbmp \ {f}
           v3 == [v2 EXCEPT !.mftbmp = S]
           n1 == WithBase(n, 0)
           v4 == [v3 EXCEPT !.ni[o] = n1]
           n2 == WithDirty(n1, {"base"})
           v5 == [v4 EXCEPT !.ni[o] = n2]
           v6 == Sync(v5, o, 0, {})
           v7 == RealClose(v6, o, {})
           v8 == Close(v7, d, {}, {})
           r == RootInode(v, f, 0)
<1>1. Root \in Files /\ f \in Files /\ f # Root /\ 1 \in Nat \ {0} /\ 0 \in Nat /\ n \in Inodes
  <2>1. f \in Files
    BY DEF Inodes
  <2> QED BY <2>1, InodeAssumption
<1>2. d \in Objs /\ v.ni[d] = Gone /\ OpenedNi(v, Root) = d /\ Changes(v1, v, d, NewInode(v, Root))
      /\ NewInode(v, Root) \in Inodes
  BY <1>1, OpenChanges, Zenon
<1>3. o # d
  BY <1>1, LiveIsNotFresh, Zenon
<1>4. n1 \in Inodes /\ n1.mft = f /\ n1.dirty = n.dirty
  BY <1>1, WithKeeps DEF WithBase
<1>5. n2 \in Inodes /\ n2.mft = f /\ n2.base = 0 /\ ~Named(n2)
  BY <1>4, WithKeeps, Zenon DEF WithBase, WithDirty, Named
<1>6. r \in Inodes /\ r.mft = Root /\ r.base = v.disk[Root].base
      /\ r.index = WithIndex(v, f, 0) /\ r.dirty # {}
  BY <1>1, RootInodeIs, Zenon
<1>7. Delete(v, o) = Close(ntfs_mft_record_free(v2, o), d, {}, {})
  BY <1>2, Zenon DEF Delete
<1>8. v1 \in Volumes /\ v1.ni[d] = NewInode(v, Root)
  BY <1>2 DEF Changes, Effect
<1>9. Changes(v2, v1, d, r)
  <2> HIDE DEF v1, n, f, d
  <2> QED BY <1>1, <1>2, <1>8, EntryAndTimes, Zenon
<1>10. v2 \in Volumes /\ v2.ni[o] = n /\ v2.disk = v.disk /\ v2.index = v.index /\ v2.mftbmp = v.mftbmp
       /\ v2.ni[d] = r
  BY <1>2, <1>3, <1>9, Zenon DEF Changes, Effect, Others
<1>11. ntfs_mft_record_free(v2, o) = v7
  <2> DEFINE x == [v3 EXCEPT !.ni[o].base = 0]
  <2>1. [n EXCEPT !.base = 0] = n1
    BY <1>1, WithAreExcepts, Zenon
  <2>2. [n1 EXCEPT !.dirty = {"base"}] = n2
    BY <1>4, WithAreExcepts, Zenon
  <2>3. n.dirty \cup {"base"} = {"base"}
    BY <1>1, WithAreExcepts
  <2> HIDE DEF n1, n2, n, v2
  <2>4. v3 \in Volumes /\ v3.ni = v2.ni
    <3>1. S \in SUBSET Files
      BY <1>10 DEF Volumes
    <3> HIDE DEF S
    <3> QED BY <1>10, <3>1, BitmapChanges, Zenon
  <2>5. S = v2.mftbmp \ {v2.ni[o].mft}
    BY <1>10
  <2> HIDE DEF S
  <2>6. [v2 EXCEPT !.mftbmp = @ \ {v2.ni[o].mft}, !.ni[o].base = 0, !.ni[o].dirty = @ \cup {"base"}]
        = [x EXCEPT !.ni[o].dirty = v2.ni[o].dirty \cup {"base"}]
    BY <2>4, <2>5, Zenon
  <2> HIDE DEF v3
  <2>7. x = v4
    BY <1>10, <2>1, <2>4, Zenon
  <2>8. v4.ni[o] = n1
    <3>1. Changes(v4, v3, o, n1)
      BY <1>4, <2>4, InodeChanges, Zenon
    <3> QED BY <3>1 DEF Changes, Effect
  <2> HIDE DEF x, v4
  <2>9. [x EXCEPT !.ni[o].dirty = v2.ni[o].dirty \cup {"base"}] = v5
    BY <1>10, <2>2, <2>3, <2>7, <2>8, Zenon
  <2> HIDE DEF v5
  <2>10. ntfs_mft_record_free(v2, o) = RealClose(Sync(v5, o, 0, {}), o, {})
    BY <2>6, <2>9, Zenon DEF ntfs_mft_record_free
  <2> QED BY <2>10
<1> HIDE DEF n, f, d, v1, v2, v3, v4, v5, v6, v7, v8, r, n1, n2
<1>12. /\ v3 \in Volumes /\ v3.mftbmp = v.mftbmp \ {f}
       /\ v3.disk = v.disk /\ v3.index = v.index /\ v3.ni = v2.ni
  <2>1. S \in SUBSET Files /\ S = v.mftbmp \ {f}
    BY <1>10 DEF Volumes
  <2> HIDE DEF S
  <2>2. v3 \in Volumes /\ v3.mftbmp = S /\ v3.disk = v2.disk /\ v3.index = v2.index /\ v3.ni = v2.ni
    BY <1>10, <2>1, BitmapChanges, Zenon DEF v3
  <2> QED BY <1>10, <2>1, <2>2, Zenon
<1>13. Changes(v4, v3, o, n1)
  BY <1>4, <1>12, InodeChanges, Zenon DEF v4
<1>14. Changes(v5, v4, o, n2)
  <2>1. v4 \in Volumes
    BY <1>13, Zenon DEF Changes, Effect
  <2> QED BY <1>5, <2>1, InodeChanges, Zenon DEF v5
<1>15. v5 \in Volumes /\ v5.ni[o] = n2 /\ v5.disk = v.disk /\ v5.index = v.index /\ v5.mftbmp = v.mftbmp \ {f}
  BY <1>12, <1>13, <1>14, Zenon DEF Changes, Effect
<1>16. /\ Effect(v6, v5, o, SyncedDisk(v5, n2), SyncedIndex(v5, n2), SyncedInode(n2))
       /\ SyncedInode(n2) \in Inodes /\ SyncedInode(n2).dirty = {}
  BY <1>1, <1>5, <1>15, SyncOfFile, Zenon DEF v6
<1>17. SyncedDisk(v5, n2) = [v.disk EXCEPT ![f].base = 0] /\ SyncedIndex(v5, n2) = v.index
  BY <1>5, <1>15, Zenon DEF SyncedDisk, SyncedIndex
<1>18. Effect(v7, v5, o, [v.disk EXCEPT ![f].base = 0], v.index, Gone)
  BY <1>15, <1>16, <1>17, FreedAfter, Zenon DEF v7
<1>19. v7 \in Volumes /\ v7.ni[d] = r /\ v7.disk = [v.disk EXCEPT ![f].base = 0]
       /\ v7.mftbmp = v.mftbmp \ {f} /\ v7.ni[o] = Gone
  <2>1. v7.ni[d] = v5.ni[d] /\ v5.ni[d] = v4.ni[d] /\ v4.ni[d] = v3.ni[d]
    BY <1>2, <1>3, <1>13, <1>14, <1>18, Zenon DEF Changes, Effect, Others
  <2> QED BY <1>10, <1>12, <1>15, <1>18, <2>1, Zenon DEF Effect
<1>20. Effect(v8, v7, d, SyncedDisk(v7, r), r.index, Gone)
  BY <1>2, <1>6, <1>19, CloseOfRoot, Zenon DEF v8
<1>21. SyncedDisk(v7, r) = [v.disk EXCEPT ![f].base = 0]
  <2> DEFINE disk == [v.disk EXCEPT ![f].base = 0]
  <2>1. disk \in Disks /\ disk[Root] = v.disk[Root]
    BY <1>1 DEF Volumes, Disks
  <2> HIDE DEF disk
  <2>2. [disk EXCEPT ![Root].base = disk[Root].base] = disk
    BY <1>1, <2>1 DEF Disks
  <2>3. SyncedDisk(v7, r) = [disk EXCEPT ![Root].base = disk[Root].base]
    BY <1>6, <1>19, <2>1, Zenon DEF SyncedDisk, disk
  <2> QED BY <2>2, <2>3 DEF disk
<1>22. /\ v8 \in Volumes /\ v8.disk = [v.disk EXCEPT ![f].base = 0] /\ v8.index = WithIndex(v, f, 0)
       /\ v8.mftbmp = v.mftbmp \ {f} /\ v8.ni[o] = Gone
  BY <1>3, <1>6, <1>19, <1>20, <1>21, Zenon DEF Effect, Others
<1>23. ASSUME NEW p \in Objs, p # o PROVE v8.ni[p] = v.ni[p]
  <2>1. CASE p = d
    BY <1>2, <1>20, <2>1, Zenon DEF Effect
  <2>2. CASE p # d
    <3>1. v1.ni[p] = v.ni[p] /\ v2.ni[p] = v1.ni[p] /\ v4.ni[p] = v3.ni[p]
      BY <1>2, <1>9, <1>13, <1>23, <2>2, Zenon DEF Changes, Effect, Others
    <3>2. v5.ni[p] = v4.ni[p] /\ v7.ni[p] = v5.ni[p] /\ v8.ni[p] = v7.ni[p]
      BY <1>14, <1>18, <1>20, <1>23, <2>2, Zenon DEF Changes, Effect, Others
    <3> QED BY <1>12, <3>1, <3>2, Zenon
  <2> QED BY <2>1, <2>2
<1>24. Others(v8.ni, v.ni, o)
  BY <1>23 DEF Others
<1>25. Delete(v, o) = v8
  BY <1>7, <1>11, Zenon DEF v8
<1> QED BY <1>22, <1>24, <1>25, Zenon DEF f, n

=============================================================================
