----------------------------- MODULE Namespace -----------------------------
(***************************************************************************)
(* The names of a volume: directory indexes, the FILE_NAME attributes and  *)
(* link counts of inodes, and the cache of paths that lookups go through   *)
(* (ntfs/dir.c: ntfs_pathname_to_inode, __ntfs_create, ntfs_link_i,        *)
(* ntfs_delete), as the wrapper uses them (ntfs/ntfsinternal.c, the rename *)
(* of ntfs/ntfsdir.c).  An action is a whole call.                         *)
(*                                                                         *)
(* A volume has the cache when it was mounted by ntfs_mount; ntfsMount      *)
(* calls ntfs_device_mount, which makes none.                              *)
(*                                                                         *)
(* Abstracted: names are compared with case, as Init.c mounts the volume;  *)
(* symbolic links are left out; a directory index is a function (its tree  *)
(* is not modelled); paths are absolute, as NtfsOpenFile builds them.      *)
(***************************************************************************)
EXTENDS Integers, FiniteSets, SequencesExt

CONSTANTS
  Inodes,    \* inode numbers
  Root,      \* FILE_root
  Names,     \* file names
  MaxDepth,  \* bound: components of a path
  Capacity,  \* CACHE_INODE_SIZE
  Windows,   \* initial files: inode |-> its WIN32 and its DOS name
  MaxFaults, \* bound: calls that a fault of the disk or of memory hits
  Environments  \* sets of Ops: what callers and the disk do besides

Paths == UNION {[1..n -> Names] : n \in 0..MaxDepth}
FileName == [dir : Inodes, name : Names, type : {"POSIX", "WIN32", "DOS"}]
Ops == {"rename directory", "fault"}

ASSUME NamespaceAssumption ==
  /\ Root \in Inodes /\ 0 \notin Inodes /\ Capacity \in Nat \ {0} /\ MaxDepth \in Nat \ {0}
  /\ DOMAIN Windows \subseteq Inodes \ {Root}
  /\ MaxFaults \in Nat /\ Environments \subseteq SUBSET Ops

VARIABLES
  ns,      \* the volume: rec (inodes), index (directories), cache (paths),
           \* and whether it has a cache (caching)
  faults,  \* ghost: number of faults so far
  ops      \* what happens in this behaviour

vars == <<ns, faults, ops>>

Cache == INSTANCE LruSpec WITH
  Keys <- Paths, Vals <- Inodes, NoVal <- 0, lru <- ns.cache, out <- << >>

May(op) == op \in ops
Never(S) == ops \cap S = {}
Free == [kind |-> "free", names |-> {}, links |-> 0]
NoEntries == [n \in Names |-> 0]
LinkCount(v, i) == v.rec[i].links
Empty(v, i) == v.index[i] = NoEntries

Init ==
  LET pair(i) == {[dir |-> Root, name |-> Windows[i].win32, type |-> "WIN32"],
                  [dir |-> Root, name |-> Windows[i].dos, type |-> "DOS"]}
      owner(n) == {i \in DOMAIN Windows : n \in {Windows[i].win32, Windows[i].dos}}
  IN  \E caching \in BOOLEAN : ns =
           [rec |-> [i \in Inodes |->
                       IF i = Root THEN [kind |-> "dir", names |-> {}, links |-> 1]
                       ELSE IF i \in DOMAIN Windows
                            THEN [kind |-> "file", names |-> pair(i), links |-> 2] ELSE Free],
            index |-> [d \in Inodes |->
                         IF d # Root THEN NoEntries
                         ELSE [n \in Names |-> IF owner(n) = {} THEN 0
                                               ELSE CHOOSE i \in owner(n) : TRUE]],
            cache |-> << >>, caching |-> caching]
      /\ ops \in Environments /\ faults = 0

----------------------------------------------------------------------------
\* Looking up a path

\* ntfs_inode_open by number: 0 when the record is not in use
Opened(v, i) == IF v.rec[i].kind = "free" THEN 0 ELSE i

Fetched(c, p) == <<Cache!ItemOf(c, p)>> \o Cache!Without(c, {p})

\* ntfs_enter_cache of a path that was just missed
Entered(v, c, p, i) ==
  IF ~v.caching THEN c ELSE
  <<[key |-> p, val |-> i]>> \o (IF Len(c) = Capacity THEN SubSeq(c, 1, Capacity - 1) ELSE c)

\* One component of a path: the partial path is taken from the cache, or is
\* searched in the directory reached so far and entered.
Descend(v, p, s, k) ==
  LET key == SubSeq(p, 1, k)
      found == v.index[s.ino][p[k]]
  IN  IF s.ino = 0 THEN s
      ELSE IF Cache!Holds(s.cache, key)
           THEN [cache |-> Fetched(s.cache, key), ino |-> Opened(v, Cache!ItemOf(s.cache, key).val)]
      ELSE IF found = 0 THEN [s EXCEPT !.ino = 0]
      ELSE [cache |-> Entered(v, s.cache, key, found), ino |-> Opened(v, found)]

\* Component by component, as for a path that ends with a separator.
RECURSIVE WalkFrom(_, _, _, _)
WalkFrom(v, p, s, k) == IF k > Len(p) THEN s ELSE WalkFrom(v, p, Descend(v, p, s, k), k + 1)
Walk(v, p) == WalkFrom(v, p, [cache |-> v.cache, ino |-> Root], 1)

\* ntfs_pathname_to_inode: the whole path is tried first.
ntfs_pathname_to_inode(v, p) ==
  IF p # << >> /\ Cache!Holds(v.cache, p)
  THEN [cache |-> Fetched(v.cache, p), ino |-> Opened(v, Cache!ItemOf(v.cache, p).val)]
  ELSE Walk(v, p)

\* ntfsOpenEntry: the inode, and the volume afterwards
Entry(v, p) == ntfs_pathname_to_inode(v, p).ino
After(v, found) == [v EXCEPT !.cache = found.cache]

\* The directory part of a path is opened with its trailing separator.
OpenDir(v, p) == Walk(v, Front(p))

----------------------------------------------------------------------------
\* Changing names

\* __ntfs_create in a directory: the record is rolled back if the name is there.
Created(v, d, n, i, kind) ==
  [v EXCEPT !.rec[i] = [kind |-> kind, links |-> 1,
                        names |-> {[dir |-> d, name |-> n, type |-> "POSIX"]}],
            !.index[i] = NoEntries,
            !.index[d][n] = i]

IsDir(v, d) == d # 0 /\ v.rec[d].kind = "dir"

\* ntfs_index_add_filename succeeds
MayAdd(v, d, n) == IsDir(v, d) /\ v.index[d][n] = 0

\* Mutant: the link count stays.
ntfs_link_i_NoCount(v, i, d, n) ==
  [v EXCEPT !.index[d][n] = i,
            !.rec[i].names = @ \cup {[dir |-> d, name |-> n, type |-> "POSIX"]}]

\* ntfs_link_i, which has checked that the inode is not the directory
ntfs_link_i(v, i, d, n) ==
  [v EXCEPT !.index[d][n] = i,
            !.rec[i].names = @ \cup {[dir |-> d, name |-> n, type |-> "POSIX"]},
            !.rec[i].links = @ + 1]

\* Mutant: a directory that has entries may go with its last name.
ntfs_check_unlinkable_dir_AnyDir(v, i, fn) == TRUE

\* A directory with entries is not deleted with its last name, or with the
\* DOS name of the last pair.
ntfs_check_unlinkable_dir(v, i, fn) ==
  (v.rec[i].kind = "dir" /\ ~Empty(v, i)) =>
    ~(LinkCount(v, i) = 1 \/ (LinkCount(v, i) = 2 /\ fn.type = "DOS"))

\* ntfs_index_remove and ntfs_attr_record_rm of one name; the last name stays
\* in the record.
NameRemoved(v, i, fn) ==
  [v EXCEPT !.index[fn.dir][fn.name] = 0,
            !.rec[i].names = IF LinkCount(v, i) = 1 THEN @ ELSE @ \ {fn},
            !.rec[i].links = @ - 1]

\* Mutant: only the path that was deleted is dropped.
Invalidated_PathOnly(v, p, i) == [v EXCEPT !.cache = SelectSeq(@, LAMBDA x : x.key # p)]

\* The cached paths of a deleted name: those of its inode, and the path
\* itself.  (Paths below it would have to continue with '/', which no path
\* does: components are separated by '\'.)
Invalidated(v, p, i) ==
  [v EXCEPT !.cache = SelectSeq(@, LAMBDA x : x.val # i /\ x.key # p)]

\* The name to delete and, of a pair of WIN32 and DOS names, both, DOS first.
\* A WIN32 name whose DOS name is gone is not found.
ToRemove(v, i, d, n) ==
  LET match == {fn \in v.rec[i].names : fn.dir = d /\ fn.name = n}
      typed(t) == SetToSeq({fn \in v.rec[i].names : fn.type = t})
  IN  IF \A fn \in match : fn.type = "POSIX" THEN SetToSeq(match)
      ELSE IF typed("DOS") = << >> THEN << >> ELSE typed("DOS") \o typed("WIN32")

RemoveAll(v, i, fns) == FoldLeft(LAMBDA u, fn : NameRemoved(u, i, fn), v, fns)

\* A delete that breaks off between the index entry and the attribute.
HalfDeleted(v, i, fn) == [v EXCEPT !.index[fn.dir][fn.name] = 0]

\* ntfs_delete.  It gives up when the name is not found, is the last one of a
\* directory with entries, or has no entry in the index.  A fault leaves the
\* index entry of a name removed and its FILE_NAME attribute in place ("record",
\* "record 2"), or the second name of a pair in place ("second"), and
\* ntfs_delete returns before it looks at the cache; or everything is done, and
\* an error returned nevertheless ("late").
ntfs_delete(v, p, i, d, fault) ==
  LET fns == ToRemove(v, i, d, Last(p))
      first == NameRemoved(v, i, fns[1])
      removed == Invalidated(RemoveAll(v, i, fns), p, i)
  IN  IF \/ fns = << >> \/ ~ntfs_check_unlinkable_dir(v, i, fns[1])
         \/ v.index[fns[1].dir][fns[1].name] = 0
      THEN [v |-> v, ok |-> FALSE]
      ELSE IF fault = "record" /\ LinkCount(v, i) > 1
      THEN [v |-> HalfDeleted(v, i, fns[1]), ok |-> FALSE]
      ELSE IF fault = "second" /\ Len(fns) = 2
      THEN [v |-> first, ok |-> FALSE]
      ELSE IF fault = "record 2" /\ Len(fns) = 2 /\ LinkCount(v, i) > 2
      THEN [v |-> HalfDeleted(first, i, fns[2]), ok |-> FALSE]
      ELSE [v |-> IF LinkCount(removed, i) > 0 THEN removed ELSE [removed EXCEPT !.rec[i] = Free],
            ok |-> fault # "late"]

\* ntfsUnlink: the entry, then its directory are opened
Unlinked(v, p, fault) ==
  LET entry == ntfs_pathname_to_inode(v, p)
      dir == OpenDir(After(v, entry), p)
  IN  IF entry.ino = 0 THEN [v |-> After(v, entry), ok |-> FALSE]
      ELSE IF dir.ino = 0 THEN [v |-> After(v, dir), ok |-> FALSE]
      ELSE ntfs_delete(After(v, dir), p, entry.ino, dir.ino, fault)

\* ntfsLink: the entry, then the directory of the new name are opened.  When
\* the new name cannot be converted ("name") nothing is done and success
\* returned.  When the FILE_NAME attribute cannot be added ("attr") ntfs_link_i
\* takes the entry of the index back; it may fail at that, too ("rollback").
Linked(v, p, q, fault) ==
  LET entry == ntfs_pathname_to_inode(v, p)
      dir == OpenDir(After(v, entry), q)
  IN  IF fault = "name" THEN [v |-> v, ok |-> TRUE]
      ELSE IF entry.ino = 0 THEN [v |-> After(v, entry), ok |-> FALSE]
      ELSE IF dir.ino = entry.ino \/ ~MayAdd(v, dir.ino, Last(q)) \/ fault = "attr"
      THEN [v |-> After(v, dir), ok |-> FALSE]
      ELSE IF fault = "rollback"
      THEN [v |-> [After(v, dir) EXCEPT !.index[dir.ino][Last(q)] = entry.ino], ok |-> FALSE]
      ELSE [v |-> ntfs_link_i(After(v, dir), entry.ino, dir.ino, Last(q)), ok |-> TRUE]

----------------------------------------------------------------------------
\* Calls

Faults ==
  {"none"} \cup
    IF May("fault") /\ faults < MaxFaults
    THEN {"record", "record 2", "second", "late", "name", "attr", "rollback"} ELSE {}
\* A failed rollback leaves "inconsistent metadata": nothing is claimed after it.
Strike(fault) ==
  faults' = IF fault = "none" THEN faults
            ELSE IF fault = "rollback" THEN MaxFaults + 1 ELSE faults + 1
DirAt(v, p) == IsDir(v, Entry(v, p))

ntfsOpenEntry(p) == ns' = After(ns, ntfs_pathname_to_inode(ns, p)) /\ UNCHANGED faults

ntfsCreate(p, kind) ==
  LET dir == OpenDir(ns, p)
      v == After(ns, dir)
      unused == {i \in Inodes : v.rec[i].kind = "free"}
  IN  /\ IF dir.ino = 0 \/ unused = {} \/ ~MayAdd(v, dir.ino, Last(p)) THEN ns' = v
         ELSE \E i \in unused : ns' = Created(v, dir.ino, Last(p), i, kind)
      /\ UNCHANGED faults

\* ntfsLink, which callers call for files only.
ntfsLink(p, q) ==
  /\ ~DirAt(ns, p)
  /\ \E fault \in Faults : ns' = Linked(ns, p, q, fault).v /\ Strike(fault)

ntfsUnlink(p) == \E fault \in Faults : ns' = Unlinked(ns, p, fault).v /\ Strike(fault)

\* ntfs_rename_r: the new name must be free; link, then unlink, and unlink the
\* new name again when that failed.
ntfs_rename_r(p, q) ==
  LET target == ntfs_pathname_to_inode(ns, q)
      renamed(linked, fault) ==
        LET unlinked == Unlinked(linked.v, p, fault)
        IN  IF ~linked.ok THEN linked.v
            ELSE IF unlinked.ok THEN unlinked.v ELSE Unlinked(unlinked.v, q, "none").v
  IN  /\ DirAt(ns, p) => May("rename directory")
      /\ IF target.ino # 0 THEN ns' = After(ns, target) /\ UNCHANGED faults
         ELSE \E fault \in Faults :
                /\ ns' = renamed(Linked(After(ns, target), p, q, fault), fault)
                /\ Strike(fault)

Call ==
  \E p \in Paths \ {<< >>} :
    \/ ntfsOpenEntry(p)
    \/ \E kind \in {"file", "dir"} : ntfsCreate(p, kind)
    \/ ntfsUnlink(p)
    \/ \E q \in Paths \ {<< >>} : ntfsLink(p, q) \/ ntfs_rename_r(p, q)
Next == Call /\ UNCHANGED ops

Spec == Init /\ [][Next]_vars

----------------------------------------------------------------------------
\* Properties

\* What the directories say of a path, without the cache.
Resolve(v, p) ==
  LET step(i, n) == IF i = 0 \/ v.index[i][n] = 0 THEN 0 ELSE Opened(v, v.index[i][n])
      Upto[k \in 0..Len(p)] == IF k = 0 THEN Root ELSE step(Upto[k - 1], p[k])
  IN  Upto[Len(p)]

\* Opening a path (ntfsOpenEntry) finds what the directories say, whatever
\* files were created, linked, renamed and deleted since parts of it were
\* cached, and although inode numbers are used again.  Directories that move
\* leave the paths below them in the cache, and a delete that failed half-way
\* leaves the path itself; without a cache neither matters.
OpenFindsEntry ==
  ~ns.caching \/ (Never({"rename directory"}) /\ faults = 0) =>
    \A p \in Paths : Entry(ns, p) = Resolve(ns, p)

Entries(i) == {e \in Inodes \X Names : ns.index[e[1]][e[2]] = i}

\* A fault in the middle of ntfs_delete, ntfs_link_i or a rename errs on the
\* safe side: a link count is never less than the number of entries, so that no
\* entry leads to a record that is free, or that is another file by now, unless
\* ntfs_link_i fails once more while it takes an entry back.
NoDanglingEntry == faults <= MaxFaults =>
  \A i \in Inodes \ {Root} :
    /\ Cardinality(Entries(i)) <= ns.rec[i].links
    /\ ns.rec[i].kind = "free" => Entries(i) = {}

\* Without a fault directories and inodes agree: an inode is in use exactly while an entry
\* leads to it, its link count is the number of the entries, and its FILE_NAME
\* attributes name them; renames of directories through stale paths of the
\* cache included.  "It's defenitely bad idea to have hard links to directories
\* as a result of operation" (ntfs_link_i): between calls a directory has one
\* name, also when a rename was taken back.
\* Whatever fails, no entry dangles; a rename that fails may lose the file.
LinksMatch ==
  /\ NoDanglingEntry
  /\ faults = 0 => \A i \in Inodes \ {Root} :
       /\ ns.rec[i].links = Cardinality(Entries(i))
       /\ Entries(i) = {<<fn.dir, fn.name>> : fn \in ns.rec[i].names}
       /\ ns.rec[i].kind = "free" <=> Entries(i) = {}
       /\ ns.rec[i].kind = "dir" => ns.rec[i].links = 1

Reached == {Resolve(ns, p) : p \in Paths}
\* Deleting never cuts off files: every inode in use is found from the root
\* (ntfs_check_unlinkable_dir), as long as no directory moves (it may move
\* below itself).
AllReached ==
  Never({"rename directory"}) /\ faults = 0 =>
    \A i \in Inodes : ns.rec[i].kind # "free" => i \in Reached

============================================================================
