----------------------------- MODULE InodeCache -----------------------------
(***************************************************************************)
(* The life of ntfs_inode structures (NtfsDxe/ntfs/inode.c): opened from   *)
(* the nidata cache or from the MFT, changed in memory, written out by     *)
(* ntfs_inode_sync, kept in the cache by ntfs_inode_close and closed for   *)
(* good when the cache is full, or at once on a volume without caches.     *)
(* The operations are those of Inode, called in any order by callers that  *)
(* hold inodes open; writes may fail.                                      *)
(***************************************************************************)
EXTENDS Inode

CONSTANTS
  MaxVersion,    \* bound: versions of a file (one more of the root)
  MaxErrors      \* bound: calls in which something fails

ASSUME CallersAssumption ==
  MaxVersion \in Nat \ {0, 1} /\ MaxErrors \in Nat

VARIABLES
  w,       \* the volume
  open,    \* the inodes that callers hold
  taken,   \* those of them that were closed behind the callers' backs
  newest,  \* ghost: the last version of each file
  failed   \* ghost: the number of failing calls so far

vars == <<w, open, taken, newest, failed>>

OpenOf(f) == {o \in open : w.ni[o].mft = f}

Init ==
  /\ newest = [f \in Files |-> IF f = Root THEN MaxVersion - 1 ELSE 0]
  /\ \E caching \in BOOLEAN : w = Mounted(newest, caching)
  /\ open = {} /\ taken = {} /\ failed = 0

-----------------------------------------------------------------------------
\* Operations of the callers.  Those that open the root directory on the way
\* are not called while the root is open: "NEVER REOPEN" (ntfs_inode_open).

\* What may fail in a sync; of the two failures of the name the first counts.
Faults ==
  IF failed = MaxErrors THEN {{}}
  ELSE {F \in SUBSET {"name", "lookup", "base", "ext"} : ~{"name", "lookup"} \subseteq F}
Strike(F) == failed' = failed + (IF F = {} THEN 0 ELSE 1)
MayOpen(f) == OpenOf(f) = {}
SyncsName(o) == w.ni[o].name_dirty /\ w.ni[o].mft # Root

ntfs_inode_open(f) ==
  /\ MayOpen(f) /\ HasRoom(w, 2)
  /\ Nidata!Holds(w.nidata, f) \/ w.disk[f].base # 0
  /\ w' = AfterOpen(w, f) /\ open' = open \cup {OpenedNi(w, f)}
  /\ UNCHANGED <<taken, newest, failed>>

ntfs_extent_inode_open(o) ==
  /\ ~w.ni[o].attached
  /\ w' = [w EXCEPT !.ni[o].attached = TRUE, !.ni[o].ext = w.disk[w.ni[o].mft].ext]
  /\ UNCHANGED <<open, taken, newest, failed>>

Change(o, part) ==
  LET f == w.ni[o].mft IN
  /\ newest[f] < MaxVersion
  /\ part = "ext" => w.ni[o].attached
  /\ newest' = [newest EXCEPT ![f] = @ + 1]
  /\ w' = Changed(w, o, part, newest'[f])
  /\ UNCHANGED <<open, taken, failed>>

ntfs_inode_sync(o, F) ==
  /\ SyncsName(o) => MayOpen(Root) /\ HasRoom(w, 1)
  /\ Strike(F)
  /\ w' = Sync(w, o, 0, F)
  /\ UNCHANGED <<open, taken, newest>>

ntfs_inode_close(o, F) ==
  /\ SyncsName(o) => MayOpen(Root) /\ HasRoom(w, 1)
  /\ Strike(F)
  /\ \E F2 \in IF CloseFails(w, o, F) /\ w.caching THEN Faults ELSE {{}} :
       w' = Close(w, o, F, F2)
  /\ open' = open \ {o}
  /\ UNCHANGED <<taken, newest>>

\* ntfs_inode_close_in_dir: the caller holds the directory, too.  It loses it
\* when the entry of the file is not found (ntfs_inode_sync_file_name).
ntfs_inode_close_in_dir(o, d, F) ==
  /\ w.ni[d].mft = Root /\ o # d
  /\ Strike(F)
  /\ w' = LET synced == Sync(w, o, d, F) IN
          IF SyncFails(w, o, F) THEN synced ELSE Close(synced, o, {}, {})
  /\ open' = IF SyncFails(w, o, F) THEN open ELSE open \ {o}
  /\ taken' = IF w.ni[o].name_dirty /\ "lookup" \in F THEN {d} ELSE {}
  /\ UNCHANGED newest

ntfsCreate(f) ==
  /\ f \notin w.mftbmp /\ newest[f] < MaxVersion
  /\ MayOpen(Root) /\ HasRoom(w, 2)
  /\ newest' = [newest EXCEPT ![f] = @ + 1]
  /\ w' = Create(w, f, newest'[f]) /\ open' = open \cup {CreatedNi(w)}
  /\ UNCHANGED <<taken, failed>>

ntfs_delete(o) ==
  /\ w.ni[o].mft # Root /\ MayOpen(Root) /\ HasRoom(w, 1)
  /\ w' = Delete(w, o) /\ open' = open \ {o}
  /\ UNCHANGED <<taken, newest, failed>>

\* ntfs_free_lru_caches at unmount, when the last inode has been closed.
Unmount ==
  /\ open = {} /\ w.nidata # << >>
  /\ w' = LET close_(v, o) == nidata_free(v, o) IN
          [FoldSet(LAMBDA o, v : close_(v, o), w, Cached(w)) EXCEPT !.nidata = << >>]
  /\ UNCHANGED <<open, taken, newest, failed>>

\* A caller whose directory was closed goes on with an inode that is freed, or
\* that the cache frees or hands out again: no more is modelled of it.
Next == taken = {} /\
  \/ \E f \in Files : ntfs_inode_open(f)
  \/ \E o \in open : ntfs_extent_inode_open(o)
  \/ \E o \in open, part \in {"base", "ext"} : Change(o, part)
  \/ \E o \in open, F \in Faults : ntfs_inode_sync(o, F)
  \/ \E o \in open, F \in Faults : ntfs_inode_close(o, F)
  \/ \E o, d \in open, F \in Faults : ntfs_inode_close_in_dir(o, d, F)
  \/ \E f \in Files : ntfsCreate(f)
  \/ \E o \in open : ntfs_delete(o)
  \/ Unmount

Spec == Init /\ [][Next]_vars

-----------------------------------------------------------------------------
\* Properties

\* The inodes that callers hold and nobody closed, and those in the cache.
Valid == (open \ taken) \cup Cached(w)

\* "**NEVER REOPEN** an inode" (ntfs_inode_open): as long as callers obey, no
\* MFT record has two inodes, be they open or in the cache, although a sync
\* opens the parent directory behind the back of the caller.
OneInode == \A o, p \in Valid : w.ni[o].mft = w.ni[p].mft => o = p

\* No inode that is open or cached is obsolete: the parts of it that are not
\* dirty are what the disk holds, so that writing it out undoes no change.
\* The base record of a cached inode is clean, so that closing it for good
\* from within ntfs_enter_cache never gets back into the cache by way of
\* ntfs_inode_sync_file_name, whatever errors there were.
NoObsoleteInode ==
  /\ \A o \in Cached(w) : "base" \notin w.ni[o].dirty
  /\ \A o \in Valid :
       LET n == w.ni[o] IN
       /\ "base" \notin n.dirty => n.base = w.disk[n.mft].base
       /\ "base" \notin n.dirty /\ n.mft = Root => n.index = w.index
       /\ n.attached /\ "ext" \notin n.dirty => n.ext = w.disk[n.mft].ext

\* Both together: what callers hold, and what the cache would hand them, is the
\* one current inode of its MFT record (ntfs_inode_open, ntfs_inode_sync_in_dir).
\* The one exception is the directory passed to ntfs_inode_close_in_dir when
\* ntfs_inode_sync_file_name does not find the entry of the file in it, and
\* closes it although the caller holds it; nobody else's inode is lost.
InodesSound ==
  /\ OneInode /\ NoObsoleteInode
  /\ \A o \in open \ taken : w.ni[o] # Gone /\ o \notin Cached(w)

\* A file that nobody has open is on disk as it was last changed; once the
\* directory is closed, too, its entry there says the same, and a deleted
\* file has no entry left.
ClosedIsDurable ==
  failed = 0 => \A f \in Files \ {Root} : OpenOf(f) = {} =>
    /\ OpenOf(Root) = {} => w.index[f] = w.disk[f].base
    /\ w.disk[f].base # 0 <=> f \in w.mftbmp
    /\ w.disk[f].base # 0 => newest[f] \in {w.disk[f].base, w.disk[f].ext}

=============================================================================
