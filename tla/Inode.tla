-------------------------------- MODULE Inode --------------------------------
(***************************************************************************)
(* The operations on ntfs_inode structures (NtfsDxe/ntfs/inode.c), as      *)
(* operators that take a volume and return the volume after them.  A       *)
(* volume is a record: the MFT records (disk) and the index of the root    *)
(* directory (index) as they are on disk, the MFT bitmap (mftbmp), the     *)
(* inodes in memory (ni) and the cache of closed inodes (nidata).  A file  *)
(* has a base record, perhaps an extent record, and an entry in the index  *)
(* of its directory, which repeats its size and times; all files are in    *)
(* the root directory, whose index is part of its own base record.         *)
(*                                                                         *)
(* Abstracted: the content of a record is a version number, 0 in a record  *)
(* that is not in use.  The attribute list is part of the base record: its *)
(* dirty flag is always tested along with the one of the record.  The      *)
(* cache is the LRU sequence that LruCache implements; a volume has one    *)
(* (caching) when it was mounted by ntfs_mount, and none when it was       *)
(* mounted by ntfs_device_mount, as ntfsMount does.  System files other    *)
(* than the root directory are never cached and left out.  An error while  *)
(* the directory is updated strikes before its index is changed.           *)
(***************************************************************************)
EXTENDS Integers, Sequences, FiniteSets, FiniteSetsExt

CONSTANTS
  Files, Root,   \* MFT records in use at some time; the root directory
  Objs,          \* addresses of ntfs_inode structures (bound)
  CacheSize      \* CACHE_NIDATA_SIZE

ASSUME InodeAssumption ==
  /\ Root \in Files /\ "none" \notin Files /\ IsFiniteSet(Files)
  /\ Objs \subseteq Nat \ {0} /\ IsFiniteSet(Objs)
  /\ CacheSize \in Nat \ {0}

\* The index of a file that is no directory, and freed memory.
NoIndex == [f \in Files |-> 0]
Gone == [mft |-> "none", base |-> 0, ext |-> 0, attached |-> FALSE, index |-> NoIndex,
         dirty |-> {}, name_dirty |-> FALSE]
Live(v) == {o \in Objs : v.ni[o] # Gone}
Fresh(v) == Min(Objs \ Live(v))
HasRoom(v, n) == Cardinality(Objs \ Live(v)) >= n

\* The cache of closed inodes; what it returned is of no interest here.
Nidata == INSTANCE LruSpec WITH
            Keys <- Files, Vals <- Objs, Capacity <- CacheSize, NoVal <- 0,
            lru <- << >>, out <- 0
Cached(v) == {v.nidata[i].val : i \in DOMAIN v.nidata}

-----------------------------------------------------------------------------
\* Opening

ntfs_inode_real_open(v, f) ==
  [v EXCEPT !.ni[Fresh(v)] =
     [mft |-> f, base |-> v.disk[f].base, ext |-> 0, attached |-> FALSE,
      index |-> IF f = Root THEN v.index ELSE NoIndex,
      dirty |-> {}, name_dirty |-> FALSE]]

\* The inode that ntfs_inode_open returns, and the volume after it: a cached
\* inode is taken out of the cache.
OpenedNi(v, f) ==
  IF Nidata!Holds(v.nidata, f) THEN Nidata!ItemOf(v.nidata, f).val ELSE Fresh(v)

AfterOpen(v, f) ==
  IF Nidata!Holds(v.nidata, f)
  THEN [v EXCEPT !.nidata = Nidata!Without(@, {f})]
  ELSE ntfs_inode_real_open(v, f)

-----------------------------------------------------------------------------
\* Changing

\* What ntfs_inode_mark_dirty marks: an extent marks its base, too.
ntfs_inode_mark_dirty(part) == {part, "base"}

\* A change of the size or the times, which the directory repeats.
ntfs_inode_update_times(v, o) ==
  [v EXCEPT !.ni[o].name_dirty = TRUE,
            !.ni[o].dirty = @ \cup ntfs_inode_mark_dirty("base")]

\* A change of the base record, its size included, or of the extent record.
Changed(v, o, part, version) ==
  IF part = "base"
  THEN [ntfs_inode_update_times(v, o) EXCEPT !.ni[o].base = version]
  ELSE [v EXCEPT !.ni[o].ext = version,
                 !.ni[o].dirty = @ \cup ntfs_inode_mark_dirty(part)]

\* An entry of the directory is changed in its inode; 0 stands for no entry.
Indexed(n, f, version) == [n EXCEPT !.index[f] = version, !.dirty = @ \cup {"base"}]
SetEntry(v, d, f, version) == [v EXCEPT !.ni[d] = Indexed(v.ni[d], f, version)]

\* NInoFileNameDirty is cleared.
NameSynced(v, o) == [v EXCEPT !.ni[o].name_dirty = FALSE]

-----------------------------------------------------------------------------
\* Writing out

\* The end of ntfs_inode_sync: the base record is always written (updating
\* the standard information has marked it dirty), a dirty extent after it.
\* The parts in F fail, and stay dirty.
WriteOut(v, o, F) ==
  LET n == v.ni[o]
      wr_base == "base" \notin F
      wr_ext == "ext" \in n.dirty /\ "ext" \notin F
  IN  [v EXCEPT
         !.disk[n.mft] = [base |-> IF wr_base THEN n.base ELSE @.base,
                          ext |-> IF wr_ext THEN n.ext ELSE @.ext],
         !.index = IF n.mft = Root /\ wr_base THEN n.index ELSE @,
         !.ni[o].dirty = (n.dirty \cup {"base"}) \cap F]

\* ntfs_inode_real_close of an inode that leaves the cache: an extent that is
\* still dirty is written.  That its base record is not dirty, so that the
\* cache is not entered again from within, is part of NoObsoleteInode.
nidata_free(v, o) ==
  LET n == v.ni[o] IN
  [v EXCEPT !.disk[n.mft].ext = IF "ext" \in n.dirty THEN n.ext ELSE @,
            !.ni[o] = Gone]

\* The end of ntfs_inode_close.  ntfs_enter_cache: an inode of that number
\* already there stays; otherwise the oldest one of a full cache is closed for
\* good.  Without a cache that is what happens to the inode itself.
EnterCache(v, o) ==
  LET f == v.ni[o].mft
      n == Len(v.nidata)
      u == IF n = CacheSize THEN nidata_free(v, v.nidata[n].val) ELSE v
  IN  IF ~v.caching THEN nidata_free(v, o)
      ELSE IF Nidata!Holds(v.nidata, f) THEN v
      ELSE [u EXCEPT !.nidata =
              <<[key |-> f, val |-> o]>> \o SubSeq(@, 1, Min({n, CacheSize - 1}))]

\* Mutant: the directory keeps the change in memory, and is closed unwritten.
SyncName_DirNotWritten(v, o, dir, F) ==
  LET n == v.ni[o]
      d == IF dir = 0 THEN OpenedNi(v, Root) ELSE dir
      opened == IF dir = 0 THEN AfterOpen(v, Root) ELSE v
      updated == NameSynced([opened EXCEPT !.ni[d].index[n.mft] = n.base], o)
  IN  IF ~n.name_dirty \/ n.base = 0 \/ "name" \in F THEN v
      ELSE IF n.mft = Root THEN NameSynced(v, o)
      ELSE IF dir # 0 THEN updated ELSE EnterCache(updated, d)

\* Mutant: the directory is opened although the caller holds it.
SyncName_Reopens(v, o, dir, F) ==
  LET n == v.ni[o]
      d == OpenedNi(v, Root)
      updated == NameSynced(SetEntry(AfterOpen(v, Root), d, n.mft, n.base), o)
  IN  IF ~n.name_dirty \/ n.base = 0 \/ "name" \in F THEN v
      ELSE IF n.mft = Root THEN NameSynced(v, o)
      ELSE EnterCache(WriteOut(updated, d, {}), d)

\* ntfs_inode_close of the root directory, written first if it is dirty.
CloseDir(v, d) ==
  EnterCache(IF "base" \in v.ni[d].dirty THEN WriteOut(NameSynced(v, d), d, {}) ELSE v,
             d)

\* ntfs_inode_sync_file_name: the entry in the directory gets the size and
\* times of the inode.  Without an open directory (dir = 0) the parent is
\* opened, which takes it from the cache, and closed again.  It may fail to
\* open the parent or its index ("name"), or to find the entry ("lookup"); in
\* the second case the directory is closed even if it is the caller's.
SyncName(v, o, dir, F) ==
  LET n == v.ni[o]
      d == IF dir = 0 THEN OpenedNi(v, Root) ELSE dir
      opened == IF dir = 0 THEN AfterOpen(v, Root) ELSE v
      updated == NameSynced(SetEntry(opened, d, n.mft, n.base), o)
  IN  IF ~n.name_dirty \/ n.base = 0 \/ "name" \in F THEN v
      ELSE IF "lookup" \in F THEN IF n.mft = Root THEN v ELSE CloseDir(opened, d)
      ELSE IF n.mft = Root THEN NameSynced(v, o)
      ELSE IF dir # 0 THEN updated
      ELSE EnterCache(WriteOut(NameSynced(updated, d), d, {}), d)

\* ntfs_inode_sync_in_dir: it returns an error when a write it makes fails.
Sync(v, o, dir, F) == WriteOut(SyncName(v, o, dir, F), o, F)
SyncFails(v, o, F) ==
  \/ F \cap {"name", "lookup"} # {} /\ v.ni[o].name_dirty /\ v.ni[o].base # 0
  \/ "base" \in F
  \/ "ext" \in F /\ "ext" \in v.ni[o].dirty

-----------------------------------------------------------------------------
\* Closing

\* ntfs_inode_real_close: sync if the base is dirty, then close the extents.
RealCloseFails(v, o, F) ==
  IF "base" \in v.ni[o].dirty THEN SyncFails(v, o, F)
  ELSE "ext" \in v.ni[o].dirty /\ "ext" \in F
RealClose(v, o, F) ==
  LET synced == IF "base" \in v.ni[o].dirty THEN Sync(v, o, 0, F) ELSE v IN
  IF RealCloseFails(v, o, F) THEN synced ELSE nidata_free(synced, o)

\* ntfs_inode_close: a dirty inode is written first.  If that fails, it is
\* closed for good (errors F2), and the result is an error in any case; without
\* a cache it is not tried again, and the inode stays.
CloseFails(v, o, F) == "base" \in v.ni[o].dirty /\ SyncFails(v, o, F)
Close(v, o, F, F2) ==
  LET synced == IF "base" \in v.ni[o].dirty THEN Sync(v, o, 0, F) ELSE v IN
  IF ~v.caching THEN RealClose(v, o, F)
  ELSE IF CloseFails(v, o, F) THEN RealClose(synced, o, F2)
  ELSE EnterCache(synced, o)

-----------------------------------------------------------------------------
\* Creating and deleting

\* ntfsCreate: the directory is opened, the new inode gets a free record and
\* an entry, an inode of that number left in the cache is dropped, and the
\* directory is closed.
CreatedNi(v) == Fresh(AfterOpen(v, Root))
Create(v, f, version) ==
  LET d == OpenedNi(v, Root)
      opened == AfterOpen(v, Root)
      o == CreatedNi(v)
      dropped == IF Nidata!Holds(opened.nidata, f)
                 THEN [nidata_free(opened, Nidata!ItemOf(opened.nidata, f).val)
                         EXCEPT !.nidata = Nidata!Without(@, {f})]
                 ELSE opened
      created == [dropped EXCEPT
        !.mftbmp = @ \cup {f},
        !.ni[o] = [mft |-> f, base |-> version, ext |-> 0, attached |-> FALSE,
                   index |-> NoIndex, dirty |-> {"base"}, name_dirty |-> FALSE]]
      entered == ntfs_inode_update_times(SetEntry(created, d, f, version), d)
  IN  Close(Sync(entered, o, 0, {}), d, {}, {})

\* ntfs_mft_record_free: the record is marked free in the MFT bitmap and on
\* disk, and its inode is closed for good.
ntfs_mft_record_free(v, o) ==
  LET unused == [v EXCEPT !.mftbmp = @ \ {v.ni[o].mft}, !.ni[o].base = 0,
                          !.ni[o].dirty = @ \cup {"base"}]
  IN  RealClose(Sync(unused, o, 0, {}), o, {})

\* ntfs_delete of the last name of a file whose inode is o, by a caller that
\* opens the root directory: the entry goes, then the record.
Delete(v, o) ==
  LET d == OpenedNi(v, Root)
      removed == ntfs_inode_update_times(
                   SetEntry(AfterOpen(v, Root), d, v.ni[o].mft, 0), d)
  IN  Close(ntfs_mft_record_free(removed, o), d, {}, {})

-----------------------------------------------------------------------------
\* A volume that has just been mounted: the files are on disk in the given
\* versions, and nothing is in memory.
Mounted(version, caching) ==
  [disk |-> [f \in Files |-> [base |-> version[f], ext |-> 0]],
   index |-> [f \in Files |-> IF f = Root THEN 0 ELSE version[f]],
   mftbmp |-> {f \in Files : version[f] # 0},
   ni |-> [o \in Objs |-> Gone], nidata |-> << >>, caching |-> caching]

=============================================================================
