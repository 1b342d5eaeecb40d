---------------------------- MODULE FileProtocol ----------------------------
(***************************************************************************)
(* The handles of EFI_FILE_PROTOCOL (NtfsDxe/Ntfs*.c, Handle.c,            *)
(* DirectoryManage.c), the lists of open files and directories that the    *)
(* wrapper keeps (ntfs/ntfsfile.c, ntfsdir.c, ntfsinternal.c) and the      *)
(* inodes below them (Inode).  An action is a whole call: there are no     *)
(* threads, and event notifications that call back into the driver are     *)
(* left out.                                                               *)
(*                                                                         *)
(* The volume has no caches: ntfsMount calls ntfs_device_mount, and only   *)
(* ntfs_mount makes them.  So every inode is opened from the MFT and       *)
(* closed for good.                                                        *)
(*                                                                         *)
(* Abstracted: all files are in the root directory and have one name; the  *)
(* data of a file is a version number.  Access times are not updated:      *)
(* Init.c mounts with no flags.  Freed memory keeps its content until it   *)
(* is allocated again.                                                     *)
(***************************************************************************)
EXTENDS Inode

CONSTANTS
  Handles,        \* addresses of NTFS_IFILE structures, and of their states
  None,           \* NULL
  ReadOnlyFiles,  \* files that have FILE_ATTR_READONLY where opens are refused
  Existing,       \* files on the volume at the beginning
  MaxVersion,     \* bound: versions of a file
  MaxListed,      \* bound: directories in the list of open ones
  Environments    \* sets of Ops: what callers do besides

\* What some callers do and some properties do not survive: close a handle that
\* NtfsOpenVolume returned, flush one of the root directory, delete a file through its handle, open a
\* read-only file for writing, open a file twice, list a directory one of whose
\* entries leads nowhere, close a directory after listing it; and the root
\* directory may be unreadable.
Ops == {"close root", "flush root", "delete", "refuse", "open twice", "list deleted",
        "close listed", "root unreadable"}

\* The number of values of a u16, as openFileCount and openDirCount are.
U16 == 65536

ASSUME ProtocolAssumption ==
  /\ ReadOnlyFiles \subseteq Existing /\ Existing \subseteq Files \ {Root}
  /\ IsFiniteSet(Handles) /\ Cardinality(Handles) < U16
  /\ None \notin Handles /\ None \notin [type : {"file", "dir"}, ni : Objs, file : Files]
  /\ MaxVersion \in Nat \ {0} /\ MaxListed \in Nat
  /\ Environments \subseteq SUBSET Ops

VARIABLES
  w,       \* the volume
  root,    \* NTFS_VOLUME.root, 0 before the first NtfsOpenVolume
  hd,      \* the handles that callers hold: type and inode
  vd,      \* lists of open files and directories: firstOpen, openCount
  st,      \* ntfs_file_state and ntfs_dir_state of each handle
  lock,    \* NtfsFsLock is held
  newest,  \* ghost: the last version of each file
  ops      \* what happens in this behaviour

vars == <<w, root, hd, vd, st, lock, newest, ops>>

May(op) == op \in ops
Never(S) == ops \cap S = {}
Held == {h \in Handles : hd[h] # None}
ReadOnly == IF May("refuse") THEN ReadOnlyFiles ELSE {}
HandlesOn(f) == {h \in Held : hd[h].file = f}
State(ni, write) == [ni |-> ni, write |-> write, next |-> None, prev |-> None]
NoState == State(0, FALSE)
u16(n) == n % U16

Init ==
  /\ newest = [f \in Files |-> IF f \in Existing \cup {Root} THEN 1 ELSE 0]
  /\ ops \in Environments
  /\ w = Mounted(newest, FALSE) /\ root = 0 /\ lock = FALSE
  /\ hd = [h \in Handles |-> None] /\ st = [h \in Handles |-> NoState]
  /\ vd = [t \in {"file", "dir"} |-> [firstOpen |-> None, openCount |-> 0]]

-----------------------------------------------------------------------------
\* The double-linked FILO lists of open files and directories

Linked(s, t, h) ==
  LET first == vd[t].firstOpen
      inserted == [s EXCEPT ![h].next = first, ![h].prev = None]
  IN  IF first = None THEN inserted ELSE [inserted EXCEPT ![first].prev = h]

Unlinked(t, h) ==
  LET n == st[h].next
      p == st[h].prev
      back == IF n = None THEN st ELSE [st EXCEPT ![n].prev = p]
  IN  IF p = None THEN back ELSE [back EXCEPT ![p].next = n]

\* The end of ntfs_close_r: the state leaves the list of open files.
ntfs_close_r(h) ==
  /\ st' = [Unlinked("file", h) EXCEPT ![h] = NoState]
  /\ vd' = [vd EXCEPT !["file"] =
              [firstOpen |-> IF st[h].prev = None THEN st[h].next ELSE @.firstOpen,
               openCount |-> u16(@.openCount - 1)]]

-----------------------------------------------------------------------------
\* Opening

\* Mutant: the directory that the volume holds is closed for good, too.
LookUp_FreesRoot(v) ==
  nidata_free(Close(AfterOpen(v, Root), OpenedNi(v, Root), {}, {}), root)

\* ntfs_pathname_to_inode on the way to a file: the root directory is opened,
\* searched and closed.
LookUp(v) == Close(AfterOpen(v, Root), OpenedNi(v, Root), {}, {})
Found(v, f) == AfterOpen(v, Root).ni[OpenedNi(v, Root)].index[f] # 0

\* ntfsCloseEntry: a dirty inode is synced, then closed.
ntfsCloseEntry(v, o) ==
  LET synced == IF "base" \in v.ni[o].dirty THEN Sync(v, o, 0, {}) ELSE v
  IN  Close(synced, o, {}, {})

\* The first call opens the root directory for the life of the volume.
NtfsOpenVolume(h) ==
  /\ ~lock /\ HasRoom(w, 3)
  /\ w' = IF root = 0 THEN AfterOpen(w, Root) ELSE w
  /\ root' = IF root = 0 THEN OpenedNi(w, Root) ELSE root
  /\ hd' = [hd EXCEPT ![h] = [type |-> "dir", ni |-> root', file |-> Root]]
  /\ st' = [st EXCEPT ![h] = NoState]
  /\ UNCHANGED <<vd, lock, newest>>

\* If that fails, NtfsOpenVolume returns without releasing the lock.
NtfsOpenVolumeFails ==
  /\ May("root unreadable") /\ ~lock /\ root = 0
  /\ lock' = TRUE
  /\ UNCHANGED <<w, root, hd, vd, st, newest>>

\* ntfs_open_r with an inode that is open already: the state enters the list
\* of open files, unless a file that is read-only is opened for writing.
\* Then the inode is closed, and NtfsOpenFile does not look at the result.
ntfs_open_r(v, h, o, f, mode) ==
  LET s == [st EXCEPT ![h] = State(o, mode # "read")] IN
  IF f \in ReadOnly /\ mode # "read"
  THEN /\ w' = ntfsCloseEntry(v, o) /\ st' = s /\ UNCHANGED vd
  ELSE /\ w' = v /\ st' = Linked(s, "file", h)
       /\ vd' = [vd EXCEPT !["file"] = [firstOpen |-> h, openCount |-> u16(@.openCount + 1)]]

\* NtfsOpenFile by a name below the root directory.  In mode "create" a file
\* that is not there is created; for one that is there ntfsCreate opens and
\* closes the directory in vain, and the file is opened.
NtfsOpenFile(h, f, mode) ==
  LET found == Found(w, f)
      before == LookUp(IF mode = "create" THEN LookUp(w) ELSE w)
      v == IF found THEN AfterOpen(before, f) ELSE Create(w, f, newest[f] + 1)
      o == IF found THEN OpenedNi(before, f) ELSE CreatedNi(w)
  IN
  /\ ~lock /\ Held # {} /\ HasRoom(w, 3)
  /\ May("open twice") \/ HandlesOn(f) = {}
  /\ ~found => mode = "create" /\ f \notin ReadOnly /\ newest[f] < MaxVersion
  /\ newest' = IF found THEN newest ELSE [newest EXCEPT ![f] = @ + 1]
  /\ hd' = [hd EXCEPT ![h] = [type |-> "file", ni |-> o, file |-> f]]
  /\ ntfs_open_r(v, h, o, f, mode)
  /\ UNCHANGED <<root, lock>>

\* A name that is not there: the directory is searched, no handle is returned.
NtfsOpenFileFails(f) ==
  /\ ~lock /\ Held # {} /\ HasRoom(w, 3)
  /\ ~Found(w, f)
  /\ w' = LookUp(w)
  /\ UNCHANGED <<root, hd, vd, st, lock, newest>>

\* NtfsOpenFile of the root by its name: "why we need to reopen?"  The handle
\* has an inode of its own.
NtfsOpenRoot(h) ==
  /\ ~lock /\ Held # {} /\ HasRoom(w, 3)
  /\ w' = AfterOpen(w, Root)
  /\ hd' = [hd EXCEPT ![h] = [type |-> "dir", ni |-> OpenedNi(w, Root), file |-> Root]]
  /\ st' = [st EXCEPT ![h] = NoState]
  /\ UNCHANGED <<root, vd, lock, newest>>

-----------------------------------------------------------------------------
\* Using and closing.  A handle whose open was refused has a closed inode that
\* is freed: callers leave it alone.

Refused(h) == hd[h].file \in ReadOnly /\ st[h].write

\* The inode of a handle is still its own: what the use of freed memory does is
\* not followed up.
Intact(h) == w.ni[hd[h].ni] # Gone /\ w.ni[hd[h].ni].mft = hd[h].file

NtfsWriteFile(h) ==
  LET f == hd[h].file IN
  /\ hd[h].type = "file" /\ st[h].write /\ newest[f] < MaxVersion
  /\ newest' = [newest EXCEPT ![f] = @ + 1]
  /\ w' = Changed(w, st[h].ni, "base", newest'[f])
  /\ UNCHANGED <<root, hd, vd, st, lock>>

\* The first NtfsReadFile of a directory (ntfs_diropen_r): every entry of the
\* index in the inode of the handle is opened and closed by
\* ntfs_readdir_filler, and the state enters the list of open directories.
Entries(o) == {f \in Files \ {Root} : w.ni[o].index[f] # 0}
ntfs_readdir_filler(f, v) == Close(AfterOpen(v, f), OpenedNi(v, f), {}, {})
NtfsReadDirectory(h) ==
  LET o == hd[h].ni IN
  /\ hd[h].type = "dir" /\ st[h].ni = 0 /\ HasRoom(w, 3)
  /\ vd["dir"].openCount < MaxListed
  /\ \A f \in Entries(o) : w.disk[f].base # 0
  /\ w' = FoldSet(ntfs_readdir_filler, w, Entries(o))
  /\ st' = Linked([st EXCEPT ![h] = State(o, FALSE)], "dir", h)
  /\ vd' = [vd EXCEPT !["dir"] = [firstOpen |-> h, openCount |-> u16(@.openCount + 1)]]
  /\ UNCHANGED <<root, hd, lock, newest>>

\* An entry of it leads to a file that was deleted by way of another inode of
\* the directory: ntfs_diropen_r fails and closes the inode of the handle, and
\* may be called once more with the freed inode.
NtfsReadDirectoryFails(h) ==
  LET o == hd[h].ni IN
  /\ May("list deleted") /\ hd[h].type = "dir" /\ st[h].ni = 0
  /\ \E f \in Entries(o) : w.disk[f].base = 0
  /\ w' = ntfsCloseEntry(w, o)
  /\ UNCHANGED <<root, hd, vd, st, lock, newest>>

NtfsFlushFile(h) ==
  /\ hd[h].type = "dir" => May("flush root")
  /\ HasRoom(w, 1)
  /\ w' = Sync(w, hd[h].ni, 0, {})
  /\ UNCHANGED <<root, hd, vd, st, lock, newest>>

\* Mutant: a file that was written is closed without its times.
ntfsCloseFile_NoSync(v, h) == EnterCache(v, st[h].ni)

\* ntfsCloseFile: the times of a file open for writing change, it is synced
\* and closed.
ntfsCloseFile(v, h) ==
  LET o == st[h].ni IN
  IF st[h].write THEN ntfsCloseEntry(Sync(ntfs_inode_update_times(v, o), o, 0, {}), o)
  ELSE ntfsCloseEntry(v, o)

\* NtfsCloseFile: a directory is closed, its state freed without leaving the
\* list of open directories.
NtfsCloseFile(h) ==
  /\ HasRoom(w, 1)
  /\ hd' = [hd EXCEPT ![h] = None]
  /\ \/ /\ hd[h].type = "file"
        /\ w' = ntfsCloseFile(w, h) /\ ntfs_close_r(h)
     \/ /\ hd[h].type = "dir" /\ (hd[h].ni = root => May("close root"))
        /\ st[h].ni # 0 => May("close listed")
        /\ w' = ntfsCloseEntry(w, hd[h].ni) /\ UNCHANGED <<st, vd>>
  /\ UNCHANGED <<root, lock, newest>>

\* NtfsDeleteFile: ntfsUnlink opens the file by its name again and deletes
\* it; then the state of the handle is freed, and nothing else is done with
\* the handle.  System files, the root among them, are not deleted.
NtfsDeleteFile(h) ==
  LET f == hd[h].file
      v == LookUp(w)
      o == OpenedNi(v, f)
  IN
  /\ May("delete") /\ HasRoom(w, 3)
  /\ (hd[h].type = "dir" /\ st[h].ni # 0) => May("close listed")
  /\ hd' = [hd EXCEPT ![h] = None]
  /\ w' = IF f # Root /\ Found(w, f) THEN Delete(AfterOpen(v, f), o) ELSE w
  /\ UNCHANGED <<root, vd, st, lock, newest>>

Call ==
  \/ \E h \in Handles \ Held : NtfsOpenVolume(h)
  \/ NtfsOpenVolumeFails
  \/ \E h \in Handles \ Held, f \in Files \ {Root}, mode \in {"read", "write", "create"} :
       NtfsOpenFile(h, f, mode)
  \/ \E h \in Handles \ Held : NtfsOpenRoot(h)
  \/ \E f \in Files \ {Root} : NtfsOpenFileFails(f)
  \/ \E h \in {g \in Held : ~Refused(g) /\ Intact(g)} :
       NtfsWriteFile(h) \/ NtfsReadDirectory(h) \/ NtfsReadDirectoryFails(h)
       \/ NtfsFlushFile(h) \/ NtfsCloseFile(h) \/ NtfsDeleteFile(h)
Next == Call /\ UNCHANGED ops

Spec == Init /\ [][Next]_vars

-----------------------------------------------------------------------------
\* Properties

\* The inode of a handle, and the "Root inode" of the volume (Ntfs.h), are
\* never freed under their holders, and are of the file that was opened, as
\* long as no handle that NtfsOpenVolume returned is closed (they share an inode,
\* which is closed with the first of them, also when listing it fails) and no
\* open is refused.  Handles of the root that NtfsOpenFile returned come and go.
HandlesLive ==
  Never({"close root", "list deleted", "refuse"}) =>
    /\ \A h \in Held : Intact(h)
    /\ root # 0 => w.ni[root] # Gone /\ w.ni[root].mft = Root

Opened(t) == {h \in Held : hd[h].type = t /\ st[h].ni # 0}
ListIsExact(t) ==
  LET first == vd[t].firstOpen
      listed == {h \in Opened(t) : first = h \/ \E g \in Opened(t) : st[g].next = h}
  IN
  /\ vd[t].openCount = Cardinality(Opened(t))
  /\ listed = Opened(t)
  /\ first # None => first \in Opened(t) /\ st[first].prev = None
  /\ \A h \in Opened(t) : /\ st[h].next # None => st[h].next \in Opened(t)
                                                  /\ st[st[h].next].prev = h
                          /\ st[h].prev = None => first = h

\* openFileCount is "the total number of files currently open in this volume",
\* firstOpenFile "the start of a FILO linked list of currently opened files"
\* (ntfsinternal.h), and likewise for directories that are being read: a list
\* holds the states of the open handles and no others, and can be followed
\* both ways, in whatever order files are opened and closed.  NtfsDeleteFile,
\* and NtfsCloseFile of a directory that was read, free a state that stays in
\* its list, and a refused open leaves one that never was in it.
OpenListsExact ==
  Never({"delete", "refuse", "close listed"}) => ListIsExact("file") /\ ListIsExact("dir")

\* Both are what a handle rests on: its inode is live, and the lists hold it
\* while it is open (ntfsOpenFile, NtfsCloseFile, NtfsDeleteFile).
HandlesSound == HandlesLive /\ OpenListsExact

\* What a file was last written is on disk, and in its directory, when no
\* handle is open on it.
Durable ==
  \A f \in Files \ {Root} : HandlesOn(f) = {} /\ f \in w.mftbmp =>
    w.disk[f].base = newest[f] /\ w.index[f] = newest[f]

\* So it is whatever other handles are open, closed, listed, deleted or refused, as
\* long as no inode is written out that another inode of the same record has
\* made obsolete: the handles of the root have one that every open, create
\* and delete bypasses, and a second handle of a file has a second one.
FilesDurable == Never({"flush root", "open twice"}) => Durable

\* "**NEVER REOPEN** an inode, this can lead to [...] an obsolete one being
\* reused" (ntfs_inode_open): flushing a handle of the root loses no file that
\* was created or closed before.
FlushKeepsFiles == Durable

=============================================================================
