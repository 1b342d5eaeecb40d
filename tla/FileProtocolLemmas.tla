------------------------- MODULE FileProtocolLemmas -------------------------
(***************************************************************************)
(* The invariant of FileProtocol, and the lemmas by which its parts are    *)
(* kept: the lists of open files and directories, the inodes of handles,   *)
(* and what is on disk of the files.                                       *)
(***************************************************************************)
EXTENDS FileProtocol, InodeProofs

\* What handles and their states hold; a state whose ni is 0 is in no list.
HandleRecs == [type : {"file", "dir"}, ni : Objs, file : Files]
Links == Handles \cup {None}
StateRecs == [ni : Objs \cup {0}, write : BOOLEAN, next : Links, prev : Links]

\* The types.
TypeOK ==
  /\ w \in Volumes
  /\ root \in Objs \cup {0} /\ lock \in BOOLEAN /\ ops \in SUBSET Ops
  /\ hd \in [Handles -> HandleRecs \cup {None}]
  /\ st \in [Handles -> StateRecs]
  /\ vd \in [{"file", "dir"} -> [firstOpen : Links, openCount : Nat]]
  /\ newest \in [Files -> Nat]

\* The inodes of the root directory that stay open are never dirty: changes of
\* the directory are made through inodes of their own.
RootIsClean ==
  \A o \in Live(w) : w.ni[o].mft = Root => w.ni[o].dirty = {}

\* A handle is of the directory or of a file, and a file has an inode of its own.
Usable(h) == h \in Held /\ hd[h].type = "file" /\ ~Refused(h)
HandlesOwn ==
  /\ \A h \in Held : IF hd[h].type = "dir" THEN hd[h].file = Root /\ st[h].ni \in {0, hd[h].ni}
                     ELSE hd[h].file # Root /\ st[h].ni = hd[h].ni
  /\ \A h \in Handles : Usable(h) => Intact(h)
  /\ \A g, h \in Handles : Usable(g) /\ Usable(h) /\ hd[g].ni = hd[h].ni => g = h

\* Unless the inode of the volume is closed, or that of a handle by a listing:
\* the volume and the handles of the directory have inodes of it, and only that
\* of the volume is shared.
IsRoot(o) == w.ni[o] # Gone /\ w.ni[o].mft = Root
RootsLive ==
  Never({"close root", "list deleted"}) =>
    /\ root # 0 => IsRoot(root)
    /\ \A h \in Held : hd[h].type = "dir" => IsRoot(hd[h].ni)
    /\ \A g, h \in Held : hd[g].type = "dir" /\ hd[h].type = "dir" /\ hd[g].ni = hd[h].ni =>
                           g = h \/ hd[g].ni = root

\* What is on disk and in the directory of a file, and what its inode holds.
Saved(f) == w.disk[f].base = newest[f] /\ w.index[f] = newest[f]
Coherent(h) ==
  LET n == w.ni[hd[h].ni]
      f == hd[h].file
  IN  /\ n.base = newest[f]
      /\ n.name_dirty <=> n.dirty # {}
      /\ n.dirty = {} => Saved(f)

\* Unless an obsolete inode is written out: a file has one handle, and is in
\* the directory while its record is in use; what is not on disk of it is in
\* the inode of the handle, which is dirty.
InSync ==
  Never({"flush root", "open twice"}) =>
    /\ \A g, h \in Held : hd[g].type = "file" /\ hd[g].file = hd[h].file => g = h
    /\ \A f \in Files \ {Root} : /\ f \in w.mftbmp => newest[f] # 0
                                 /\ f \in w.mftbmp <=> w.index[f] # 0
    /\ \A h \in Held : hd[h].type = "file" => hd[h].file \in w.mftbmp
    /\ \A h \in Held : hd[h].type = "file" => IF Refused(h) THEN Saved(hd[h].file) ELSE Coherent(h)
    /\ Durable

\* The inductive invariant.
IInv == TypeOK /\ RootIsClean /\ HandlesOwn /\ RootsLive /\ InSync /\ OpenListsExact

-----------------------------------------------------------------------------
\* The calls that FileProtocol adds to those of Inode.

\* ntfs_pathname_to_inode finds what is in the index.
LEMMA LookUpIsIdle ==
  ASSUME NEW v \in Volumes, NEW n \in Nat \ {0}, HasRoom(v, n), NEW f \in Files
  PROVE  LookUp(v) = v /\ (Found(v, f) <=> v.index[f] # 0)
<1>1. LookUp(v) = v
  BY VisitIsIdle, InodeAssumption DEF LookUp
<1>2. AfterOpen(v, Root).ni[Fresh(v)] = NewInode(v, Root)
  <2>1. /\ Fresh(v) \in Objs
        /\ AfterOpen(v, Root).ni = [v.ni EXCEPT ![Fresh(v)] = NewInode(v, Root)]
    BY AllocateKeeps, InodeAssumption
  <2> QED BY <2>1 DEF Volumes, Memory
<1>3. OpenedNi(v, Root) = Fresh(v)
  BY OpenIsReal, InodeAssumption, Zenon
<1> QED BY <1>1, <1>2, <1>3 DEF Found, NewInode

\* ntfsCloseEntry of an inode that has not changed, or was synced.
LEMMA EntryClosed ==
  ASSUME NEW v \in Volumes, NEW o \in Objs, v.ni[o] \in Inodes, v.ni[o].dirty = {}
  PROVE  Changes(ntfsCloseEntry(v, o), v, o, Gone)
<1>1. ntfsCloseEntry(v, o) = Close(v, o, {}, {})
  BY DEF ntfsCloseEntry
<1> QED BY <1>1, CloseChanges, Zenon

\* ntfsCloseEntry after a sync has the effect of the sync, and frees the inode.
LEMMA EntryFreedAfter ==
  ASSUME NEW v \in Volumes, NEW u, NEW o \in Objs, NEW disk, NEW index, NEW n \in Inodes, n.dirty = {},
         Effect(u, v, o, disk, index, n)
  PROVE  Effect(ntfsCloseEntry(u, o), v, o, disk, index, Gone)
<1>1. u \in Volumes /\ u.ni[o] = n
  BY DEF Effect
<1>2. Changes(ntfsCloseEntry(u, o), u, o, Gone)
  BY <1>1, EntryClosed, Zenon
<1> QED BY <1>2, Zenon DEF Effect, Changes, Others

\* ntfsCloseEntry of a file.
LEMMA CloseOfFile ==
  ASSUME NEW v \in Volumes, NEW o \in Objs, v.ni[o] \in Inodes, v.ni[o].mft # Root,
         NEW k \in Nat \ {0}, HasRoom(v, k)
  PROVE  IF v.ni[o].dirty = {} THEN Changes(ntfsCloseEntry(v, o), v, o, Gone)
         ELSE Effect(ntfsCloseEntry(v, o), v, o, SyncedDisk(v, v.ni[o]), SyncedIndex(v, v.ni[o]), Gone)
<1>1. CASE v.ni[o].dirty = {}
  BY <1>1, EntryClosed, Zenon
<1>2. CASE v.ni[o].dirty # {}
  <2> DEFINE u == Sync(v, o, 0, {})
             m == SyncedInode(v.ni[o])
  <2>1. "base" \in v.ni[o].dirty
    BY <1>2 DEF Inodes
  <2>2. Effect(u, v, o, SyncedDisk(v, v.ni[o]), SyncedIndex(v, v.ni[o]), m) /\ m \in Inodes /\ m.dirty = {}
    BY SyncOfFile, Zenon
  <2>3. ntfsCloseEntry(v, o) = Close(u, o, {}, {})
    BY <2>1 DEF ntfsCloseEntry
  <2> HIDE DEF u, m
  <2>4. Effect(Close(u, o, {}, {}), v, o, SyncedDisk(v, v.ni[o]), SyncedIndex(v, v.ni[o]), Gone)
    BY <2>2, FreedAfter, Zenon
  <2> QED BY <1>2, <2>3, <2>4, Zenon
<1> QED BY <1>1, <1>2

\* Listing a directory visits its entries one by one, and each visit is idle.
LEMMA ListingIsIdle ==
  ASSUME NEW v \in Volumes, NEW n \in Nat \ {0}, HasRoom(v, n), NEW S \in SUBSET Files
  PROVE  FoldSet(ntfs_readdir_filler, v, S) = v
<1> DEFINE Step(g) == [s \in SUBSET S |-> IF s = {} THEN v
                          ELSE ntfs_readdir_filler(CHOOSE x \in s : TRUE, g[s \ {CHOOSE x \in s : TRUE}])]
           idle == [s \in SUBSET S |-> v]
           iter == CHOOSE g : g = Step(g)
<1>1. \A f \in Files : ntfs_readdir_filler(f, v) = v
  BY VisitIsIdle DEF ntfs_readdir_filler
<1>2. FoldSet(ntfs_readdir_filler, v, S) = iter[S]
  BY Zenon DEF FoldSet, MapThenFoldSet
<1>3. \A s \in SUBSET S : s # {} => (CHOOSE x \in s : TRUE) \in s
  OBVIOUS
<1>4. idle = Step(idle)
  <2>1. ASSUME NEW s \in SUBSET S, s # {}
        PROVE  ntfs_readdir_filler(CHOOSE x \in s : TRUE, idle[s \ {CHOOSE x \in s : TRUE}]) = v
    <3>1. (CHOOSE x \in s : TRUE) \in Files
      BY <1>3, <2>1
    <3>2. s \ {CHOOSE x \in s : TRUE} \in SUBSET S
      BY <2>1
    <3>3. idle[s \ {CHOOSE x \in s : TRUE}] = v
      BY <3>2
    <3> QED BY <1>1, <3>1, <3>3, Zenon
  <2> QED BY <2>1, Zenon
<1>5. iter = Step(iter)
  <2> HIDE DEF Step, idle
  <2> QED BY <1>4, Zenon
<1> HIDE DEF iter, idle
<1>6. \A s \in SUBSET S : iter[s] = IF s = {} THEN v
         ELSE ntfs_readdir_filler(CHOOSE x \in s : TRUE, iter[s \ {CHOOSE x \in s : TRUE}])
  BY <1>5
<1> HIDE DEF Step
<1>7. \A s \in SUBSET S : IsFiniteSet(s) /\ Cardinality(s) \in Nat
  BY InodeAssumption, FS_Subset, FS_CardinalityType
<1> DEFINE T == {s \in SUBSET S : iter[s] # v}
           K == {Cardinality(s) : s \in T}
<1>8. ASSUME T # {} PROVE FALSE
  <2>1. K \in SUBSET Nat /\ K # {}
    BY <1>7, <1>8
  <2>2. \E x \in K : \A y \in K : ~(<<y, x>> \in OpToRel(<, Nat))
    <3> HIDE DEF K
    <3> QED BY <2>1, NatLessThanWellFounded, WFMin, Zenon
  <2>3. \A x, y \in Nat : x < y => <<x, y>> \in OpToRel(<, Nat)
    BY Zenon DEF OpToRel
  <2>4. \E x \in K : \A y \in K : ~(y < x)
    BY <2>1, <2>2, <2>3, Zenon
  <2>5. PICK s \in T : \A t \in T : ~(Cardinality(t) < Cardinality(s))
    BY <2>4, Zenon
  <2> DEFINE x == CHOOSE x \in s : TRUE
             t == s \ {x}
  <2>6. s \in SUBSET S /\ iter[s] # v /\ s # {}
    BY <1>6, <2>5
  <2>7. x \in s /\ x \in Files /\ t \in SUBSET S
    BY <1>3, <2>6
  <2>8. Cardinality(t) < Cardinality(s)
    <3>1. Cardinality(t) = Cardinality(s) - 1
      BY <1>7, <2>6, <2>7, FS_RemoveElement, Zenon
    <3> QED BY <1>7, <2>6, <3>1
  <2>9. iter[t] = v
    BY <2>5, <2>7, <2>8
  <2>10. iter[s] = ntfs_readdir_filler(x, iter[t])
    BY <1>6, <2>6, Zenon
  <2> HIDE DEF x, t
  <2> QED BY <1>1, <2>6, <2>7, <2>9, <2>10, Zenon
<1>9. iter[S] = v
  BY <1>8
<1> QED BY <1>2, <1>9, Zenon

\* The lists of open files and directories.
-----------------------------------------------------------------------------
\* The part of ListIsExact that is about the links, for a set of handles O.
Chained(O, first, s) ==
  /\ \A h \in O : first = h \/ \E g \in O : s[g].next = h
  /\ first # None => first \in O /\ s[first].prev = None
  /\ \A h \in O : /\ s[h].next # None => s[h].next \in O /\ s[s[h].next].prev = h
                  /\ s[h].prev = None => first = h

\* ListIsExact is a chain of the open handles, and their number.
LEMMA ChainedIsExact ==
  ASSUME NEW t \in {"file", "dir"}
  PROVE  ListIsExact(t) <=> /\ vd[t].openCount = Cardinality(Opened(t))
                            /\ Chained(Opened(t), vd[t].firstOpen, st)
  BY DEF ListIsExact, Chained

\* What happens to states outside of O is of no interest.
LEMMA ChainedOnly ==
  ASSUME NEW O, NEW first, NEW s, NEW t, \A h \in O : t[h].next = s[h].next /\ t[h].prev = s[h].prev,
         Chained(O, first, s)
  PROVE  Chained(O, first, t)
<1>1. \A h \in O : first = h \/ \E g \in O : t[g].next = h
  BY DEF Chained
<1>2. first # None => first \in O /\ t[first].prev = None
  BY DEF Chained
<1>3. \A h \in O : /\ t[h].next # None => t[h].next \in O /\ t[t[h].next].prev = h
                   /\ t[h].prev = None => first = h
  BY DEF Chained
<1> QED BY <1>1, <1>2, <1>3 DEF Chained

\* A state enters at the head.
LEMMA InsertKeeps ==
  ASSUME NEW O \in SUBSET Handles, NEW first, NEW s, NEW t, NEW h \in Handles \ O,
         Chained(O, first, s),
         t[h].next = first /\ t[h].prev = None,
         \A g \in O : t[g].next = s[g].next,
         \A g \in O : t[g].prev = IF g = first THEN h ELSE s[g].prev
  PROVE  Chained(O \cup {h}, h, t)
<1>1. h # None
  BY ProtocolAssumption
<1>2. \A g \in O \cup {h} : h = g \/ \E k \in O \cup {h} : t[k].next = g
  BY DEF Chained
<1>3. ASSUME NEW g \in O, t[g].next # None PROVE t[g].next \in O /\ t[t[g].next].prev = g
  <2>1. s[g].next \in O /\ s[s[g].next].prev = g /\ t[g].next = s[g].next
    BY <1>3 DEF Chained
  <2>2. s[g].next # first
    <3>1. first # None => s[first].prev = None
      BY DEF Chained
    <3>2. None \notin O
      BY ProtocolAssumption
    <3> QED BY <2>1, <3>1, <3>2
  <2> QED BY <2>1, <2>2
<1>4. t[h].next # None => t[h].next \in O /\ t[t[h].next].prev = h
  BY DEF Chained
<1>5. \A g \in O : t[g].prev = None => h = g
  BY <1>1 DEF Chained
<1> QED BY <1>1, <1>2, <1>3, <1>4, <1>5 DEF Chained

\* A state leaves, wherever it is.
LEMMA RemoveKeeps ==
  ASSUME NEW O \in SUBSET Handles, NEW first, NEW s, NEW t, NEW h \in O,
         Chained(O, first, s),
         \A g \in O \ {h} : t[g].next = IF g = s[h].prev THEN s[h].next ELSE s[g].next,
         \A g \in O \ {h} : t[g].prev = IF g = s[h].next THEN s[h].prev ELSE s[g].prev
  PROVE  Chained(O \ {h}, IF s[h].prev = None THEN s[h].next ELSE first, t)
<1> DEFINE n == s[h].next
           p == s[h].prev
           f == IF p = None THEN n ELSE first
           S == O \ {h}
<1>1. None \notin O
  BY ProtocolAssumption
<1>2. p # None => p \in O /\ s[p].next = h
  BY <1>1 DEF Chained
<1>3. n # None => n \in O /\ s[n].prev = h
  BY DEF Chained
<1>4. p = None => first = h
  BY DEF Chained
<1>5. p = h <=> n = h
  BY <1>1, <1>2, <1>3
<1>6. \A g \in S : f = g \/ \E k \in S : t[k].next = g
  <2> SUFFICES ASSUME NEW g \in S PROVE f = g \/ \E k \in S : t[k].next = g
    OBVIOUS
  <2>1. CASE g = n
    BY <1>2, <1>5, <2>1
  <2>2. CASE g # n /\ first = g
    BY <1>4, <2>2
  <2>3. CASE g # n /\ first # g
    <3>1. PICK k \in O : s[k].next = g
      BY <2>3 DEF Chained
    <3>2. k # h /\ k # p
      BY <1>1, <1>2, <2>3, <3>1
    <3> QED BY <3>1, <3>2
  <2> QED BY <2>1, <2>2, <2>3
<1>7. f # None => f \in S /\ t[f].prev = None
  <2>1. CASE p = None
    BY <1>1, <1>3, <1>5, <2>1
  <2>2. CASE p # None
    <3>1. first # None => first \in O /\ s[first].prev = None
      BY DEF Chained
    <3> QED BY <1>1, <1>3, <2>2, <3>1
  <2> QED BY <2>1, <2>2
<1>8. \A g \in S : t[g].next # None => t[g].next \in S /\ t[t[g].next].prev = g
  <2> SUFFICES ASSUME NEW g \in S, t[g].next # None PROVE t[g].next \in S /\ t[t[g].next].prev = g
    OBVIOUS
  <2>1. CASE g = p
    BY <1>1, <1>3, <1>5, <2>1
  <2>2. CASE g # p
    <3>1. s[g].next \in O /\ s[s[g].next].prev = g /\ t[g].next = s[g].next
      BY <2>2 DEF Chained
    <3>2. s[g].next # h /\ s[g].next # n
      BY <1>1, <1>3, <2>2, <3>1
    <3> QED BY <3>1, <3>2
  <2> QED BY <2>1, <2>2
<1>9. \A g \in S : t[g].prev = None => f = g
  <2> SUFFICES ASSUME NEW g \in S, t[g].prev = None PROVE f = g
    OBVIOUS
  <2>1. CASE g = n
    BY <1>1, <2>1
  <2>2. CASE g # n
    <3>1. s[g].prev = None
      BY <2>2
    <3>2. first = g
      BY <3>1 DEF Chained
    <3> QED BY <1>4, <3>2
  <2> QED BY <2>1, <2>2
<1> HIDE DEF n, p
<1> QED BY <1>6, <1>7, <1>8, <1>9 DEF Chained, n, p

\* Counting.
LEMMA U16Type == U16 \in Nat \ {0}
  BY SMT DEF U16

\* A count is a natural number whatever is added to it.
LEMMA U16Mod == \A n \in Int : u16(n) \in Nat
  BY U16Type DEF u16

\* openFileCount and openDirCount do not wrap: there are fewer handles.
LEMMA CountKeeps ==
  ASSUME NEW O \in SUBSET Handles, NEW h \in Handles
  PROVE  /\ Cardinality(O) \in Nat
         /\ h \notin O => u16(Cardinality(O) + 1) = Cardinality(O \cup {h})
         /\ h \in O => u16(Cardinality(O) - 1) = Cardinality(O \ {h})
<1>1. IsFiniteSet(Handles) /\ Cardinality(Handles) < U16 /\ Cardinality(Handles) \in Nat
  BY ProtocolAssumption, FS_CardinalityType
<1>2. IsFiniteSet(O) /\ Cardinality(O) \in Nat
  BY <1>1, FS_Subset, FS_CardinalityType
<1>3. \A n \in Nat : n <= Cardinality(Handles) => u16(n) = n
  <2> SUFFICES ASSUME NEW n \in Nat, NEW c \in Nat, NEW q \in Nat, n <= c, c < q PROVE n % q = n
    BY <1>1, U16Type DEF u16
  <2> QED OBVIOUS
<1>4. ASSUME h \notin O PROVE u16(Cardinality(O) + 1) = Cardinality(O \cup {h})
  <2>1. Cardinality(O \cup {h}) = Cardinality(O) + 1
    BY <1>2, <1>4, FS_AddElement, Zenon
  <2>2. Cardinality(O \cup {h}) <= Cardinality(Handles)
    BY <1>1, FS_Subset
  <2> QED BY <1>2, <1>3, <2>1, <2>2
<1>5. ASSUME h \in O PROVE u16(Cardinality(O) - 1) = Cardinality(O \ {h})
  <2>1. Cardinality(O \ {h}) = Cardinality(O) - 1
    BY <1>2, <1>5, FS_RemoveElement, Zenon
  <2>2. IsFiniteSet(O \ {h}) /\ Cardinality(O \ {h}) \in Nat /\ Cardinality(O \ {h}) <= Cardinality(Handles)
    BY <1>1, FS_Subset, FS_CardinalityType
  <2> QED BY <1>3, <2>1, <2>2
<1> QED BY <1>2, <1>4, <1>5

-----------------------------------------------------------------------------
\* What a step may do to the parts of the invariant.

Same(g) == hd'[g] = hd[g] /\ st'[g].ni = st[g].ni /\ st'[g].write = st[g].write

\* One inode changes, and if it is of the directory, it is clean.
LEMMA RootCleanKeeps ==
  ASSUME RootIsClean, NEW o \in Objs, Others(w'.ni, w.ni, o),
         w'.ni[o] # Gone /\ w'.ni[o].mft = Root => w'.ni[o].dirty = {}
  PROVE  RootIsClean'
  BY DEF RootIsClean, Live, Others

\* No inode of a handle other than h is concerned.
LEMMA OwnKeeps ==
  ASSUME TypeOK, HandlesOwn, ops' = ops, NEW h \in Handles,
         \A g \in Handles \ {h} : Same(g) /\ (Usable(g) => w'.ni[hd[g].ni] = w.ni[hd[g].ni]),
         h \in Held' => IF hd'[h].type = "dir" THEN hd'[h].file = Root /\ st'[h].ni \in {0, hd'[h].ni}
                        ELSE hd'[h].file # Root /\ st'[h].ni = hd'[h].ni,
         Usable(h)' => Intact(h)' /\ \A g \in Handles \ {h} : Usable(g) => hd[g].ni # hd'[h].ni
  PROVE  HandlesOwn'
<1>1. ReadOnly' = ReadOnly
  BY Zenon DEF ReadOnly, May
<1>2. \A g \in Handles \ {h} : /\ g \in Held' <=> g \in Held
                               /\ Usable(g)' <=> Usable(g)
  BY <1>1, Zenon DEF Same, Held, Usable, Refused
<1>5. \A g \in Held' : IF hd'[g].type = "dir" THEN hd'[g].file = Root /\ st'[g].ni \in {0, hd'[g].ni}
                       ELSE hd'[g].file # Root /\ st'[g].ni = hd'[g].ni
  <2> SUFFICES ASSUME NEW g \in Held', g # h
               PROVE  IF hd'[g].type = "dir" THEN hd'[g].file = Root /\ st'[g].ni \in {0, hd'[g].ni}
                      ELSE hd'[g].file # Root /\ st'[g].ni = hd'[g].ni
    BY Zenon
  <2>1. g \in Handles \ {h} /\ g \in Held
    BY <1>2, Zenon DEF Held
  <2>2. IF hd[g].type = "dir" THEN hd[g].file = Root /\ st[g].ni \in {0, hd[g].ni}
        ELSE hd[g].file # Root /\ st[g].ni = hd[g].ni
    BY <2>1, Zenon DEF HandlesOwn
  <2> QED BY <2>1, <2>2, Zenon DEF Same
<1>6. ASSUME NEW g \in Handles, Usable(g)' PROVE Intact(g)'
  <2>1. CASE g = h
    BY <1>6, <2>1, Zenon
  <2>2. CASE g # h
    <3>1. Usable(g) /\ hd'[g] = hd[g]
      BY <1>2, <1>6, <2>2, Zenon DEF Same
    <3>2. Intact(g) /\ w'.ni[hd[g].ni] = w.ni[hd[g].ni]
      BY <2>2, <3>1, Zenon DEF HandlesOwn
    <3> QED BY <3>1, <3>2, Zenon DEF Intact
  <2> QED BY <2>1, <2>2, Zenon
<1>7. ASSUME NEW g \in Handles, NEW k \in Handles, Usable(g)', Usable(k)', hd'[g].ni = hd'[k].ni PROVE g = k
  <2>1. CASE g # h /\ k # h
    BY <1>2, <1>7, <2>1, Zenon DEF HandlesOwn, Same
  <2>2. CASE g = h /\ k # h
    BY <1>2, <1>7, <2>2, Zenon DEF Same
  <2>3. CASE g # h /\ k = h
    BY <1>2, <1>7, <2>3, Zenon DEF Same
  <2> QED BY <2>1, <2>2, <2>3, Zenon
<1> QED BY <1>5, <1>6, <1>7, Zenon DEF HandlesOwn

\* One inode changes that is not of the directory, which no handle is new of.
LEMMA RootsKeep ==
  ASSUME TypeOK, RootsLive, ops' = ops, root' = root, NEW o \in Objs, Others(w'.ni, w.ni, o),
         w.ni[o] = Gone \/ w.ni[o].mft # Root,
         \A g \in Held' : hd'[g].type = "dir" => g \in Held /\ hd'[g] = hd[g]
  PROVE  RootsLive'
<1>1. Never({"close root", "list deleted"})' <=> Never({"close root", "list deleted"})
  BY Zenon DEF Never
<1>2. \A x \in Objs : IsRoot(x) => IsRoot(x)'
  BY Zenon DEF IsRoot, Others
<1>3. \A g \in Held : hd[g].ni \in Objs
  BY Zenon DEF TypeOK, Held, HandleRecs
<1>4. root # 0 => root \in Objs
  BY DEF TypeOK
<1> QED BY <1>1, <1>2, <1>3, <1>4, Zenon DEF RootsLive

\* A handle of the directory is new, with an inode that was free.
LEMMA RootsOpened ==
  ASSUME TypeOK, RootsLive, ops' = ops, NEW h \in Handles \ Held, NEW o \in Objs,
         hd' = [hd EXCEPT ![h] = [type |-> "dir", ni |-> o, file |-> Root]],
         w.ni[o] = Gone, Others(w'.ni, w.ni, o), w'.ni[o] # Gone, w'.ni[o].mft = Root,
         root' = root \/ (root = 0 /\ root' = o)
  PROVE  RootsLive'
<1>1. Never({"close root", "list deleted"})' <=> Never({"close root", "list deleted"})
  BY Zenon DEF Never
<1>2. \A x \in Objs : IsRoot(x) => x # o /\ IsRoot(x)'
  BY Zenon DEF IsRoot, Others
<1>3. \A g \in Held : hd[g].ni \in Objs /\ hd[g].ni # 0
  BY InodeAssumption, Zenon DEF TypeOK, Held, HandleRecs
<1>4. root # 0 => root \in Objs
  BY DEF TypeOK
<1>5. hd'[h].ni = o /\ \A g \in Held' \ {h} : g \in Held /\ hd'[g] = hd[g]
  BY DEF TypeOK, Held
<1>6. IsRoot(o)'
  BY DEF IsRoot
<1> SUFFICES ASSUME Never({"close root", "list deleted"})
             PROVE  /\ root' # 0 => IsRoot(root)'
                    /\ \A g \in Held' : hd'[g].type = "dir" => IsRoot(hd[g].ni)'
                    /\ \A g, k \in Held' : hd'[g].type = "dir" /\ hd'[k].type = "dir" /\ hd'[g].ni = hd'[k].ni =>
                                           g = k \/ hd'[g].ni = root'
  BY <1>1, Zenon DEF RootsLive, IsRoot
<1>7. root' # 0 => IsRoot(root)'
  BY <1>2, <1>4, <1>6, Zenon DEF RootsLive, IsRoot
<1>8. \A g \in Held' \ {h} : hd'[g].type = "dir" => IsRoot(hd[g].ni)' /\ hd'[g].ni # o
  BY <1>2, <1>3, <1>5, Zenon DEF RootsLive, IsRoot
<1>9. \A g, k \in Held' \ {h} : hd'[g].type = "dir" /\ hd'[k].type = "dir" /\ hd'[g].ni = hd'[k].ni =>
                                g = k \/ hd'[g].ni = root'
  <2> SUFFICES ASSUME NEW g \in Held' \ {h}, NEW k \in Held' \ {h}, hd'[g].type = "dir", hd'[k].type = "dir",
                      hd'[g].ni = hd'[k].ni
               PROVE  g = k \/ hd'[g].ni = root'
    BY Zenon
  <2>1. g \in Held /\ k \in Held /\ hd'[g] = hd[g] /\ hd'[k] = hd[k]
    BY <1>5, Zenon
  <2>2. g = k \/ hd[g].ni = root
    BY <2>1, Zenon DEF RootsLive
  <2>3. hd[g].ni # 0
    BY <1>3, <2>1, Zenon
  <2> QED BY <2>1, <2>2, <2>3, Zenon
<1>10. \A g \in Held' : hd'[g].type = "dir" => IsRoot(hd[g].ni)'
  BY <1>5, <1>6, <1>8, Zenon DEF IsRoot
<1>11. ASSUME NEW g \in Held', NEW k \in Held', hd'[g].type = "dir", hd'[k].type = "dir", hd'[g].ni = hd'[k].ni
       PROVE  g = k \/ hd'[g].ni = root'
  BY <1>5, <1>8, <1>9, <1>11, Zenon
<1> QED BY <1>7, <1>10, <1>11, Zenon

\* File f0 is concerned, and no handle of a file but h, which is of f0.
LEMMA SyncKeeps ==
  ASSUME TypeOK, HandlesOwn, InSync, ops' = ops, NEW f0 \in Files \ {Root}, NEW h \in Handles,
         \A f \in Files \ {Root, f0} : /\ w'.disk[f].base = w.disk[f].base /\ w'.index[f] = w.index[f]
                                       /\ f \in w'.mftbmp <=> f \in w.mftbmp
                                       /\ newest'[f] = newest[f],
         \A g \in Handles \ {h} : Same(g) /\ (Usable(g) => w'.ni[hd[g].ni] = w.ni[hd[g].ni]),
         Never({"flush root", "open twice"}) =>
           /\ \A g \in Held \ {h} : hd[g].file # f0
           /\ f0 \in w'.mftbmp => newest'[f0] # 0
           /\ f0 \in w'.mftbmp <=> w'.index[f0] # 0
           /\ h \in Held => hd[h].file = f0
           /\ h \in Held' => /\ hd'[h].type = "file" /\ hd'[h].file = f0 /\ f0 \in w'.mftbmp
                             /\ IF Refused(h)' THEN Saved(f0)' ELSE Coherent(h)'
           /\ h \notin Held' /\ f0 \in w'.mftbmp => Saved(f0)'
  PROVE  InSync'
<1> SUFFICES ASSUME Never({"flush root", "open twice"})' PROVE InSync'
  BY Zenon DEF InSync
<1>1. ReadOnly' = ReadOnly /\ Never({"flush root", "open twice"})
  BY Zenon DEF ReadOnly, May, Never
<1>2. \A g \in Handles \ {h} : /\ g \in Held' <=> g \in Held
                               /\ Refused(g)' <=> Refused(g)
                               /\ hd'[g] = hd[g]
  BY <1>1, Zenon DEF Same, Held, Refused
<1>3. \A g, k \in Held' : hd'[g].type = "file" /\ hd'[g].file = hd'[k].file => g = k
  <2> SUFFICES ASSUME NEW g \in Held', NEW k \in Held', hd'[g].type = "file", hd'[g].file = hd'[k].file
               PROVE  g = k
    BY Zenon
  <2>1. g \in Handles /\ k \in Handles
    BY Zenon DEF Held
  <2>2. CASE g # h /\ k # h
    <3>1. g \in Held /\ k \in Held /\ hd'[g] = hd[g] /\ hd'[k] = hd[k]
      BY <1>2, <2>1, <2>2, Zenon
    <3>2. \A i, j \in Held : hd[i].type = "file" /\ hd[i].file = hd[j].file => i = j
      BY <1>1, Zenon DEF InSync
    <3> QED BY <3>1, <3>2, Zenon
  <2>3. CASE g # h /\ k = h
    BY <1>1, <1>2, <2>1, <2>3, Zenon
  <2>4. CASE g = h /\ k # h
    BY <1>1, <1>2, <2>1, <2>4, Zenon
  <2> QED BY <2>2, <2>3, <2>4, Zenon
<1>4. \A f \in Files \ {Root} : /\ f \in w'.mftbmp => newest'[f] # 0
                                /\ f \in w'.mftbmp <=> w'.index[f] # 0
  BY <1>1, Zenon DEF InSync
<1>5. ASSUME NEW g \in Held', hd'[g].type = "file"
      PROVE  /\ hd'[g].file \in w'.mftbmp
             /\ IF Refused(g)' THEN Saved(hd[g].file)' ELSE Coherent(g)'
  <2>1. g \in Handles
    BY Zenon DEF Held
  <2>2. CASE g = h
    BY <1>1, <1>5, <2>2, Zenon
  <2>3. CASE g # h
    <3>1. g \in Held /\ hd'[g] = hd[g] /\ hd[g].file # f0 /\ (Refused(g)' <=> Refused(g))
      BY <1>1, <1>2, <1>5, <2>1, <2>3, Zenon
    <3>2. hd[g].file \in w.mftbmp /\ IF Refused(g) THEN Saved(hd[g].file) ELSE Coherent(g)
      BY <1>1, <1>5, <3>1, Zenon DEF InSync
    <3>3. hd[g].file \in Files \ {Root, f0}
      <4>1. hd[g] \in HandleRecs
        BY <3>1, Zenon DEF TypeOK, Held
      <4>2. hd[g].file \in Files /\ hd[g].file # Root
        BY <1>5, <3>1, <4>1, Zenon DEF HandlesOwn, HandleRecs
      <4> QED BY <3>1, <4>2, Zenon
    <3>4. CASE Refused(g)
      BY <3>1, <3>2, <3>3, <3>4, Zenon DEF Saved
    <3>5. CASE ~Refused(g)
      <4>1. w'.ni[hd[g].ni] = w.ni[hd[g].ni]
        BY <1>5, <2>1, <2>3, <3>1, <3>5, Zenon DEF Usable
      <4>2. Coherent(g) /\ hd[g].file \in w.mftbmp
        BY <3>2, <3>5, Zenon
      <4>3. /\ w'.disk[hd[g].file].base = w.disk[hd[g].file].base
            /\ w'.index[hd[g].file] = w.index[hd[g].file]
            /\ hd[g].file \in w'.mftbmp <=> hd[g].file \in w.mftbmp
            /\ newest'[hd[g].file] = newest[hd[g].file]
        BY <3>3, Zenon
      <4>4. Coherent(g)'
        <5>1. hd'[g] = hd[g]
          BY <3>1, Zenon
        <5>2. /\ w.ni[hd[g].ni].base = newest[hd[g].file]
              /\ w.ni[hd[g].ni].name_dirty <=> w.ni[hd[g].ni].dirty # {}
              /\ w.ni[hd[g].ni].dirty = {} =>
                   w.disk[hd[g].file].base = newest[hd[g].file] /\ w.index[hd[g].file] = newest[hd[g].file]
          BY <4>2, Zenon DEF Coherent, Saved
        <5>3. /\ w'.ni[hd'[g].ni].base = newest'[hd'[g].file]
              /\ w'.ni[hd'[g].ni].name_dirty <=> w'.ni[hd'[g].ni].dirty # {}
              /\ w'.ni[hd'[g].ni].dirty = {} =>
                   w'.disk[hd'[g].file].base = newest'[hd'[g].file] /\ w'.index[hd'[g].file] = newest'[hd'[g].file]
          BY ONLY <4>1, <4>3, <5>1, <5>2
        <5> QED BY <5>3, Zenon DEF Coherent, Saved
      <4> QED BY <3>1, <3>5, <4>2, <4>3, <4>4, Zenon
    <3> QED BY <3>4, <3>5, Zenon
  <2> QED BY <2>2, <2>3, Zenon
<1>6. ASSUME NEW f \in Files \ {Root}, HandlesOn(f)' = {}, f \in w'.mftbmp
      PROVE  w'.disk[f].base = newest'[f] /\ w'.index[f] = newest'[f]
  <2>1. CASE f = f0
    <3>1. h \notin Held'
      BY <1>1, <1>6, <2>1, Zenon DEF HandlesOn
    <3> QED BY <1>1, <1>6, <2>1, <3>1, Zenon DEF Saved
  <2>2. CASE f # f0
    <3>1. HandlesOn(f) = {}
      <4>1. ASSUME NEW g \in Held, hd[g].file = f PROVE FALSE
        <5>1. g # h /\ g \in Handles
          BY <1>1, <2>2, <4>1, Zenon DEF Held
        <5>2. g \in Held' /\ hd'[g].file = f
          BY <1>2, <4>1, <5>1, Zenon
        <5> QED BY <1>6, <5>2, Zenon DEF HandlesOn
      <4> QED BY <4>1, Zenon DEF HandlesOn
    <3>2. f \in w.mftbmp
      BY <1>6, <2>2, Zenon
    <3>3. w.disk[f].base = newest[f] /\ w.index[f] = newest[f]
      BY <1>1, <3>1, <3>2, Zenon DEF InSync, Durable
    <3> QED BY <2>2, <3>3, Zenon
  <2> QED BY <2>1, <2>2, Zenon
<1>7. Durable'
  BY <1>6, Zenon DEF Durable
<1>8. \A g \in Held' : hd'[g].type = "file" => hd'[g].file \in w'.mftbmp
  BY <1>5, Zenon
<1>9. \A g \in Held' : hd'[g].type = "file" => IF Refused(g)' THEN Saved(hd[g].file)' ELSE Coherent(g)'
  BY <1>5, Zenon
<1> QED BY <1>3, <1>4, <1>7, <1>8, <1>9, Zenon DEF InSync

\* No file is concerned, and no handle of a file.
LEMMA SyncIdle ==
  ASSUME TypeOK, HandlesOwn, InSync, ops' = ops, NEW h \in Handles,
         w'.disk = w.disk /\ w'.index = w.index /\ w'.mftbmp = w.mftbmp /\ newest' = newest,
         \A g \in Handles \ {h} : Same(g) /\ (Usable(g) => w'.ni[hd[g].ni] = w.ni[hd[g].ni]),
         h \in Held => hd[h].type = "dir",
         h \in Held' => hd'[h].type = "dir" /\ hd'[h].file = Root
  PROVE  InSync'
<1> SUFFICES ASSUME Never({"flush root", "open twice"})' PROVE InSync'
  BY Zenon DEF InSync
<1>1. ReadOnly' = ReadOnly /\ Never({"flush root", "open twice"})
  BY Zenon DEF ReadOnly, May, Never
<1>2. \A g \in Handles \ {h} : /\ g \in Held' <=> g \in Held
                               /\ Refused(g)' <=> Refused(g)
                               /\ hd'[g] = hd[g]
  BY <1>1, Zenon DEF Same, Held, Refused
<1>3. ASSUME NEW g \in Held', hd'[g].type = "file"
      PROVE  g \in Handles \ {h} /\ g \in Held /\ hd'[g] = hd[g] /\ hd[g].file # Root
  BY <1>2, <1>3, Zenon DEF Held, HandlesOwn
<1>4. \A g, k \in Held' : hd'[g].type = "file" /\ hd'[g].file = hd'[k].file => g = k
  <2> SUFFICES ASSUME NEW g \in Held', NEW k \in Held', hd'[g].type = "file", hd'[g].file = hd'[k].file
               PROVE  g = k
    BY Zenon
  <2>1. g \in Held /\ hd'[g] = hd[g] /\ hd[g].file # Root
    BY <1>3, Zenon
  <2>2. k # h
    BY <2>1, Zenon
  <2>3. k \in Held /\ hd'[k] = hd[k]
    BY <1>2, <2>2, Zenon DEF Held
  <2> QED BY <1>1, <2>1, <2>3, Zenon DEF InSync
<1>5. ASSUME NEW g \in Held', hd'[g].type = "file"
      PROVE  /\ hd'[g].file \in w'.mftbmp
             /\ IF Refused(g)' THEN Saved(hd[g].file)' ELSE Coherent(g)'
  <2>1. g \in Handles \ {h} /\ g \in Held /\ hd'[g] = hd[g] /\ (Refused(g)' <=> Refused(g))
    BY <1>2, <1>3, <1>5, Zenon
  <2>2. hd[g].file \in w.mftbmp /\ IF Refused(g) THEN Saved(hd[g].file) ELSE Coherent(g)
    BY <1>1, <1>5, <2>1, Zenon DEF InSync
  <2>3. CASE Refused(g)
    BY <2>1, <2>2, <2>3, Zenon DEF Saved
  <2>4. CASE ~Refused(g)
    <3>1. w'.ni[hd[g].ni] = w.ni[hd[g].ni]
      BY <1>5, <2>1, <2>4, Zenon DEF Usable
    <3> QED BY <2>1, <2>2, <2>4, <3>1, Zenon DEF Coherent, Saved
  <2> QED BY <2>3, <2>4, Zenon
<1>6. ASSUME NEW f \in Files \ {Root}, HandlesOn(f)' = {}
      PROVE  HandlesOn(f) = {}
  <2>1. ASSUME NEW g \in Held, hd[g].file = f PROVE FALSE
    <3>1. g \in Handles \ {h}
      BY <2>1, Zenon DEF HandlesOwn, Held
    <3>2. g \in Held' /\ hd'[g].file = f
      BY <1>2, <2>1, <3>1, Zenon
    <3> QED BY <1>6, <3>2, Zenon DEF HandlesOn
  <2> QED BY <2>1, Zenon DEF HandlesOn
<1>7. Durable'
  BY <1>1, <1>6, Zenon DEF Durable, InSync
<1>8. \A f \in Files \ {Root} : /\ f \in w'.mftbmp => newest'[f] # 0
                                /\ f \in w'.mftbmp <=> w'.index[f] # 0
  BY <1>1, Zenon DEF InSync
<1>9. \A g \in Held' : hd'[g].type = "file" => hd'[g].file \in w'.mftbmp
  BY <1>5, Zenon
<1>10. \A g \in Held' : hd'[g].type = "file" => IF Refused(g)' THEN Saved(hd[g].file)' ELSE Coherent(g)'
  BY <1>5, Zenon
<1> QED BY <1>4, <1>7, <1>8, <1>9, <1>10, Zenon DEF InSync

-----------------------------------------------------------------------------
\* The states of the handles after an insertion and after a removal.

Nexts(s, r, x, n) == \A g \in Handles : r[g].next = IF g = x THEN n ELSE s[g].next
Prevs(s, r, x, p) == \A g \in Handles : r[g].prev = IF g = x THEN p ELSE s[g].prev
Marks(s, r) == \A g \in Handles : r[g].ni = s[g].ni /\ r[g].write = s[g].write

\* One link changes, and nothing else in any state.
LEMMA SetNext ==
  ASSUME NEW s \in [Handles -> StateRecs], NEW x \in Handles, NEW n \in Links
  PROVE  LET r == [s EXCEPT ![x].next = n]
         IN  /\ r \in [Handles -> StateRecs] /\ Nexts(s, r, x, n) /\ Prevs(s, r, None, None) /\ Marks(s, r)
  BY ProtocolAssumption DEF StateRecs, Nexts, Prevs, Marks

\* Likewise.
LEMMA SetPrev ==
  ASSUME NEW s \in [Handles -> StateRecs], NEW x \in Handles, NEW p \in Links
  PROVE  LET r == [s EXCEPT ![x].prev = p]
         IN  /\ r \in [Handles -> StateRecs] /\ Nexts(s, r, None, None) /\ Prevs(s, r, x, p) /\ Marks(s, r)
  BY ProtocolAssumption DEF StateRecs, Nexts, Prevs, Marks

\* What ntfs_open_r and ntfs_diropen_r link.
LEMMA LinkedIs ==
  ASSUME TypeOK, NEW t \in {"file", "dir"}, NEW s \in [Handles -> StateRecs], NEW h \in Handles
  PROVE  LET r == Linked(s, t, h)
             first == vd[t].firstOpen
         IN  /\ r \in [Handles -> StateRecs] /\ Marks(s, r)
             /\ \A g \in Handles \ {h} : /\ r[g].next = s[g].next
                                         /\ r[g].prev = IF g = first THEN h ELSE s[g].prev
             /\ first # h => r[h].next = first /\ r[h].prev = None
<1> DEFINE first == vd[t].firstOpen
           r1 == [s EXCEPT ![h].next = first]
           r2 == [r1 EXCEPT ![h].prev = None]
           r3 == [r2 EXCEPT ![first].prev = h]
           r == Linked(s, t, h)
<1>1. first \in Links /\ None \notin Handles /\ h \in Links /\ None \in Links
  BY ProtocolAssumption DEF TypeOK, Links
<1> HIDE DEF first
<1>2. r1 \in [Handles -> StateRecs] /\ Nexts(s, r1, h, first) /\ Prevs(s, r1, None, None) /\ Marks(s, r1)
  BY <1>1, SetNext, Zenon
<1> HIDE DEF r1
<1>3. r2 \in [Handles -> StateRecs] /\ Nexts(r1, r2, None, None) /\ Prevs(r1, r2, h, None) /\ Marks(r1, r2)
  BY <1>1, <1>2, SetPrev, Zenon
<1>4. [s EXCEPT ![h].next = first, ![h].prev = None] = r2
  BY <1>2 DEF r1
<1> HIDE DEF r2
<1>5. r = IF first = None THEN r2 ELSE r3
  BY <1>4, Zenon DEF Linked, first
<1>6. CASE first = None
  <2>1. r = r2
    BY <1>5, <1>6
  <2>2. \A g \in Handles \ {h} : r2[g].next = s[g].next /\ r2[g].prev = s[g].prev /\ g # first
    BY <1>1, <1>2, <1>3, <1>6 DEF Nexts, Prevs
  <2>3. r2[h].next = first /\ r2[h].prev = None
    BY <1>1, <1>2, <1>3, <1>6 DEF Nexts, Prevs
  <2> QED BY <1>2, <1>3, <2>1, <2>2, <2>3 DEF Marks, first
<1>7. CASE first # None
  <2>1. first \in Handles
    BY <1>1, <1>7 DEF Links
  <2>2. r3 \in [Handles -> StateRecs] /\ Nexts(r2, r3, None, None) /\ Prevs(r2, r3, first, h) /\ Marks(r2, r3)
    BY <1>1, <1>3, <2>1, SetPrev, Zenon
  <2>3. r = r3
    BY <1>5, <1>7
  <2> HIDE DEF r3, r
  <2>4. \A g \in Handles \ {h} : /\ r3[g].next = s[g].next
                                 /\ r3[g].prev = IF g = first THEN h ELSE s[g].prev
    BY <1>1, <1>2, <1>3, <2>2 DEF Nexts, Prevs
  <2>5. first # h => r3[h].next = first /\ r3[h].prev = None
    BY <1>1, <1>2, <1>3, <2>2 DEF Nexts, Prevs
  <2> QED BY <1>2, <1>3, <2>2, <2>3, <2>4, <2>5 DEF Marks, first, r
<1> QED BY <1>6, <1>7

\* What ntfs_close_r unlinks.
LEMMA UnlinkedIs ==
  ASSUME TypeOK, NEW t \in {"file", "dir"}, NEW h \in Handles
  PROVE  LET r == Unlinked(t, h)
         IN  /\ r \in [Handles -> StateRecs] /\ Marks(st, r)
             /\ \A g \in Handles \ {h} : /\ r[g].next = IF g = st[h].prev THEN st[h].next ELSE st[g].next
                                         /\ r[g].prev = IF g = st[h].next THEN st[h].prev ELSE st[g].prev
<1> DEFINE n == st[h].next
           p == st[h].prev
           r1 == IF n = None THEN st ELSE [st EXCEPT ![n].prev = p]
           r2 == IF p = None THEN r1 ELSE [r1 EXCEPT ![p].next = n]
<1>1. n \in Links /\ p \in Links /\ None \notin Handles /\ st \in [Handles -> StateRecs]
  BY ProtocolAssumption DEF TypeOK, StateRecs
<1> HIDE DEF n, p
<1>2. r1 \in [Handles -> StateRecs] /\ Nexts(st, r1, None, None) /\ Prevs(st, r1, n, p) /\ Marks(st, r1)
  <2>1. CASE n = None
    BY <1>1, <2>1 DEF Nexts, Prevs, Marks
  <2>2. CASE n # None
    <3>1. n \in Handles
      BY <1>1, <2>2 DEF Links
    <3> QED BY <1>1, <2>2, <3>1, SetPrev, Zenon
  <2> QED BY <2>1, <2>2
<1> HIDE DEF r1
<1>3. r2 \in [Handles -> StateRecs] /\ Nexts(r1, r2, p, n) /\ Prevs(r1, r2, None, None) /\ Marks(r1, r2)
  <2>1. CASE p = None
    BY <1>1, <1>2, <2>1 DEF Nexts, Prevs, Marks
  <2>2. CASE p # None
    <3>1. p \in Handles
      BY <1>1, <2>2 DEF Links
    <3> QED BY <1>1, <1>2, <2>2, <3>1, SetNext, Zenon
  <2> QED BY <2>1, <2>2
<1>4. Unlinked(t, h) = r2
  BY Zenon DEF Unlinked, r1, n, p
<1> HIDE DEF r2
<1>5. \A g \in Handles \ {h} : /\ r2[g].next = IF g = p THEN n ELSE st[g].next
                               /\ r2[g].prev = IF g = n THEN p ELSE st[g].prev
  BY <1>1, <1>2, <1>3 DEF Nexts, Prevs
<1> QED BY <1>2, <1>3, <1>4, <1>5 DEF Marks, n, p

-----------------------------------------------------------------------------
\* The lists over a step.

Other(t) == IF t = "file" THEN "dir" ELSE "file"

\* No link between open handles changes.
LEMMA ListsIdle ==
  ASSUME OpenListsExact, ops' = ops, vd' = vd,
         \A t \in {"file", "dir"} : /\ Opened(t)' = Opened(t)
                                    /\ \A g \in Opened(t) : st'[g].next = st[g].next /\ st'[g].prev = st[g].prev
  PROVE  OpenListsExact'
<1>1. ASSUME NEW t \in {"file", "dir"}, ListIsExact(t) PROVE ListIsExact(t)'
  <2>1. vd[t].openCount = Cardinality(Opened(t)) /\ Chained(Opened(t), vd[t].firstOpen, st)
    BY <1>1, ChainedIsExact
  <2>2. Chained(Opened(t), vd[t].firstOpen, st')
    BY <2>1, ChainedOnly
  <2>3. /\ vd'[t].openCount = Cardinality(Opened(t)')
        /\ Chained(Opened(t)', vd'[t].firstOpen, st')
    BY <2>1, <2>2
  <2> QED BY <2>3 DEF ListIsExact, Chained
<1> QED BY <1>1, Zenon DEF OpenListsExact, Never

\* A handle enters a list at its head.
LEMMA ListsInsert ==
  ASSUME TypeOK, OpenListsExact, ops' = ops, NEW t \in {"file", "dir"}, NEW h \in Handles \ Opened(t),
         Opened(t)' = Opened(t) \cup {h}, Opened(Other(t))' = Opened(Other(t)), h \notin Opened(Other(t)),
         Opened(t) \cap Opened(Other(t)) = {},
         NEW s \in [Handles -> StateRecs], \A g \in Handles \ {h} : s[g] = st[g],
         st' = Linked(s, t, h),
         vd' = [vd EXCEPT ![t] = [firstOpen |-> h, openCount |-> u16(@.openCount + 1)]]
  PROVE  OpenListsExact'
<1> DEFINE first == vd[t].firstOpen
           O == Opened(t)
<1>1. /\ \A g \in Handles \ {h} : /\ st'[g].next = st[g].next
                                  /\ st'[g].prev = IF g = first THEN h ELSE st[g].prev
      /\ first # h => st'[h].next = first /\ st'[h].prev = None
  BY LinkedIs
<1>2. O \in SUBSET Handles /\ Opened(Other(t)) \in SUBSET Handles
  BY DEF Opened, Held
<1>3. t \in DOMAIN vd /\ Other(t) \in DOMAIN vd /\ Other(t) # t
  BY DEF TypeOK, Other
<1>4. /\ vd'[t].firstOpen = h /\ vd'[t].openCount = u16(vd[t].openCount + 1)
      /\ vd'[Other(t)] = vd[Other(t)]
  BY <1>3
<1>5. ASSUME ListIsExact(t) PROVE ListIsExact(t)'
  <2>1. vd[t].openCount = Cardinality(O) /\ Chained(O, first, st)
    BY <1>5, ChainedIsExact
  <2>2. first # h
    BY <2>1, ProtocolAssumption DEF Chained
  <2> HIDE DEF first, O
  <2>3. h \in Handles \ O
    BY DEF O
  <2>4. Chained(O \cup {h}, h, st')
    <3>1. \A g \in O : g \in Handles \ {h}
      BY <1>2, <2>3
    <3>2. \A g \in O : st'[g].next = st[g].next
      BY <1>1, <3>1, Zenon
    <3>3. \A g \in O : st'[g].prev = IF g = first THEN h ELSE st[g].prev
      BY <1>1, <3>1, Zenon
    <3>4. st'[h].next = first /\ st'[h].prev = None
      BY <1>1, <2>2
    <3>5. Chained(O, first, st)
      BY <2>1
    <3> QED BY ONLY <1>2, <2>3, <3>2, <3>3, <3>4, <3>5, InsertKeeps
  <2>5. u16(Cardinality(O) + 1) = Cardinality(O \cup {h})
    BY <1>2, <2>3, CountKeeps
  <2>6. Opened(t)' = O \cup {h}
    BY DEF O
  <2>7. vd'[t].openCount = Cardinality(Opened(t)') /\ Chained(Opened(t)', vd'[t].firstOpen, st')
    BY <1>4, <2>1, <2>4, <2>5, <2>6, Zenon
  <2> QED BY <2>7 DEF ListIsExact, Chained
<1>6. ASSUME ListIsExact(t), ListIsExact(Other(t)) PROVE ListIsExact(Other(t))'
  <2> DEFINE Q == Opened(Other(t))
  <2>1. Other(t) \in {"file", "dir"}
    BY DEF Other
  <2>2. vd[Other(t)].openCount = Cardinality(Q) /\ Chained(Q, vd[Other(t)].firstOpen, st)
    BY <1>6, <2>1, ChainedIsExact
  <2>3. \A g \in Q : g \in Handles \ {h}
    BY <1>2
  <2>4. first \notin Q
    <3>1. Chained(O, first, st)
      BY <1>6, ChainedIsExact
    <3>2. first = None \/ first \in O
      BY <3>1, Zenon DEF Chained
    <3> QED BY <1>2, <3>2, ProtocolAssumption
  <2>5. \A g \in Q : st'[g].next = st[g].next /\ st'[g].prev = st[g].prev
    BY <1>1, <2>3, <2>4
  <2>6. Chained(Q, vd[Other(t)].firstOpen, st')
    BY <2>2, <2>5, ChainedOnly
  <2>7. vd'[Other(t)].openCount = Cardinality(Opened(Other(t))') /\ Chained(Opened(Other(t))', vd'[Other(t)].firstOpen, st')
    BY <1>4, <2>2, <2>6
  <2> QED BY <2>7 DEF ListIsExact, Chained
<1>7. {"file", "dir"} = {t, Other(t)}
  BY DEF Other
<1> QED BY <1>5, <1>6, <1>7, Zenon DEF OpenListsExact, Never, Other

\* A handle leaves the list of open files from anywhere in it.
LEMMA ListsRemove ==
  ASSUME TypeOK, OpenListsExact, ops' = ops, NEW h \in Opened("file"), ntfs_close_r(h),
         Opened("file")' = Opened("file") \ {h}, Opened("dir")' = Opened("dir")
  PROVE  OpenListsExact'
<1> DEFINE first == vd["file"].firstOpen
           O == Opened("file")
           Q == Opened("dir")
           r == Unlinked("file", h)
<1>1. h \in Handles /\ O \in SUBSET Handles /\ Q \in SUBSET Handles /\ O \cap Q = {}
  BY DEF Opened, Held
<1>2. /\ r \in [Handles -> StateRecs]
      /\ \A g \in Handles \ {h} : /\ r[g].next = IF g = st[h].prev THEN st[h].next ELSE st[g].next
                                  /\ r[g].prev = IF g = st[h].next THEN st[h].prev ELSE st[g].prev
  BY <1>1, UnlinkedIs
<1>3. st' = [r EXCEPT ![h] = NoState]
  BY DEF ntfs_close_r
<1> HIDE DEF r
<1>4. \A g \in Handles \ {h} : st'[g] = r[g]
  BY <1>2, <1>3
<1>5. /\ vd'["file"].firstOpen = (IF st[h].prev = None THEN st[h].next ELSE first)
      /\ vd'["file"].openCount = u16(vd["file"].openCount - 1)
      /\ vd'["dir"] = vd["dir"]
  BY DEF TypeOK, ntfs_close_r
<1>6. ASSUME ListIsExact("file") PROVE ListIsExact("file")'
  <2>1. vd["file"].openCount = Cardinality(O) /\ Chained(O, first, st)
    BY <1>6, ChainedIsExact
  <2> HIDE DEF O
  <2>2. h \in O
    BY DEF O
  <2>3. Chained(O \ {h}, IF st[h].prev = None THEN st[h].next ELSE first, st')
    <3>1. \A g \in O \ {h} : st'[g].next = IF g = st[h].prev THEN st[h].next ELSE st[g].next
      BY <1>1, <1>2, <1>4
    <3>2. \A g \in O \ {h} : st'[g].prev = IF g = st[h].next THEN st[h].prev ELSE st[g].prev
      BY <1>1, <1>2, <1>4
    <3> HIDE DEF first
    <3> QED BY <1>1, <2>1, <2>2, <3>1, <3>2, RemoveKeeps, Zenon
  <2>4. u16(Cardinality(O) - 1) = Cardinality(O \ {h})
    BY <1>1, <2>2, CountKeeps
  <2>5. Opened("file")' = O \ {h}
    BY DEF O
  <2>6. vd'["file"].openCount = Cardinality(Opened("file")') /\ Chained(Opened("file")', vd'["file"].firstOpen, st')
    BY <1>5, <2>1, <2>3, <2>4, <2>5, Zenon
  <2> QED BY <2>6 DEF ListIsExact, Chained
<1>7. ASSUME ListIsExact("file"), ListIsExact("dir") PROVE ListIsExact("dir")'
  <2>1. vd["dir"].openCount = Cardinality(Q) /\ Chained(Q, vd["dir"].firstOpen, st) /\ Chained(O, first, st)
    BY <1>7, ChainedIsExact
  <2>2. st[h].next \notin Q
    BY <1>1, <2>1, ProtocolAssumption DEF Chained
  <2>3. st[h].prev \notin Q
    <3>1. h = first \/ \E g \in O : st[g].next = h
      BY <2>1, Zenon DEF Chained
    <3>2. CASE h = first
      BY <1>1, <2>1, <3>2, ProtocolAssumption DEF Chained
    <3>3. CASE \E g \in O : st[g].next = h
      BY <1>1, <2>1, <3>3, ProtocolAssumption DEF Chained
    <3> QED BY <3>1, <3>2, <3>3
  <2>4. \A g \in Q : g \in Handles \ {h}
    BY <1>1
  <2>5. \A g \in Q : st'[g].next = st[g].next /\ st'[g].prev = st[g].prev
    BY <1>2, <1>4, <2>2, <2>3, <2>4
  <2>6. Chained(Q, vd["dir"].firstOpen, st')
    BY <2>1, <2>5, ChainedOnly
  <2>7. vd'["dir"].openCount = Cardinality(Opened("dir")') /\ Chained(Opened("dir")', vd'["dir"].firstOpen, st')
    BY <1>5, <2>1, <2>6
  <2> QED BY <2>7 DEF ListIsExact, Chained
<1> QED BY <1>6, <1>7, Zenon DEF OpenListsExact, Never

-----------------------------------------------------------------------------
\* The actions.

\* What a handle that is held consists of.
LEMMA HandleIs ==
  ASSUME TypeOK, NEW h \in Held
  PROVE  /\ h \in Handles /\ hd[h] \in HandleRecs
         /\ hd[h].ni \in Objs /\ hd[h].ni # 0 /\ hd[h].file \in Files /\ hd[h].type \in {"file", "dir"}
<1>1. h \in Handles /\ hd[h] \in HandleRecs
  BY DEF TypeOK, Held
<1> QED BY <1>1, InodeAssumption DEF HandleRecs

\* The inode of an intact handle is one of its file.
LEMMA IntactIs ==
  ASSUME TypeOK, NEW h \in Held, Intact(h)
  PROVE  w.ni[hd[h].ni] \in Inodes /\ w.ni[hd[h].ni].mft = hd[h].file
<1> DEFINE n == w.ni[hd[h].ni]
<1>1. hd[h].ni \in Objs /\ hd[h].file \in Files
  BY HandleIs
<1>2. n \in [mft : Files \cup {"none"}, base : Nat, ext : Nat, attached : BOOLEAN,
             index : Indices, dirty : SUBSET {"base"}, name_dirty : BOOLEAN]
  BY <1>1 DEF TypeOK, Volumes, Memory
<1>3. n.mft = hd[h].file
  BY DEF Intact
<1> HIDE DEF n
<1>4. n \in Inodes
  BY <1>1, <1>2, <1>3 DEF Inodes
<1> QED BY <1>3, <1>4 DEF n

\* The inode of a handle that can be used is not the one that changes, when
\* that was free, or was of the directory, or is of another such handle.
LEMMA InodeApart ==
  ASSUME TypeOK, HandlesOwn, NEW g \in Handles, Usable(g), NEW o \in Objs,
         \/ w.ni[o] = Gone
         \/ w.ni[o].mft = Root
         \/ \E h \in Handles \ {g} : Usable(h) /\ hd[h].ni = o
  PROVE  hd[g].ni # o /\ \A k : Others(k, w.ni, o) => k[hd[g].ni] = w.ni[hd[g].ni]
<1>1. g \in Held /\ Intact(g) /\ hd[g].type = "file"
  BY Zenon DEF HandlesOwn, Usable
<1>2. hd[g].ni \in Objs /\ hd[g].file # Root
  BY <1>1, HandleIs, Zenon DEF HandlesOwn
<1>3. hd[g].ni # o
  BY <1>1, <1>2, Zenon DEF HandlesOwn, Intact
<1> QED BY <1>2, <1>3 DEF Others

\* A new handle of the directory, that only the inodes of the directory concern.
LEMMA NewDirectoryKeeps ==
  ASSUME IInv, ops' = ops, NEW h \in Handles \ Held, NEW o \in Objs,
         hd' = [hd EXCEPT ![h] = [type |-> "dir", ni |-> o, file |-> Root]],
         st' = [st EXCEPT ![h] = NoState], vd' = vd, lock' = lock, newest' = newest,
         root' \in Objs \cup {0},
         w' \in Volumes, w'.disk = w.disk, w'.index = w.index, w'.mftbmp = w.mftbmp,
         \A g \in Handles \ {h} : Usable(g) => w'.ni[hd[g].ni] = w.ni[hd[g].ni],
         RootIsClean', RootsLive'
  PROVE  IInv'
<1>1. TypeOK /\ HandlesOwn /\ InSync /\ OpenListsExact /\ Root \in Files
  BY InodeAssumption DEF IInv
<1>2. NoState \in StateRecs /\ NoState.ni = 0
  BY DEF NoState, State, StateRecs, Links
<1>3. [type |-> "dir", ni |-> o, file |-> Root] \in HandleRecs
  BY <1>1, Zenon DEF HandleRecs
<1>4. TypeOK'
  BY <1>1, <1>2, <1>3, Zenon DEF TypeOK
<1>5. /\ hd'[h] = [type |-> "dir", ni |-> o, file |-> Root] /\ st'[h] = NoState
      /\ \A g \in Handles \ {h} : hd'[g] = hd[g] /\ st'[g] = st[g]
  BY <1>1 DEF TypeOK
<1>6. /\ hd'[h].type = "dir" /\ hd'[h].file = Root /\ st'[h].ni = 0
      /\ \A g \in Handles \ {h} : Same(g)
      /\ ~Usable(h)'
  BY <1>2, <1>5 DEF Same, Usable
<1>7. HandlesOwn'
  BY <1>1, <1>6, OwnKeeps, Zenon
<1>8. InSync'
  <2>1. h \notin Held
    OBVIOUS
  <2> QED BY <1>1, <1>6, <2>1, SyncIdle, Zenon
<1>9. OpenListsExact'
  <2>1. ASSUME NEW t \in {"file", "dir"}
        PROVE  /\ Opened(t)' = Opened(t)
               /\ \A g \in Opened(t) : st'[g].next = st[g].next /\ st'[g].prev = st[g].prev
    <3>1. h \notin Opened(t) /\ h \notin Opened(t)'
      BY <1>6 DEF Opened
    <3>2. \A g \in Handles \ {h} : g \in Opened(t)' <=> g \in Opened(t)
      BY <1>5 DEF Opened, Held
    <3>3. Opened(t) \subseteq Handles /\ Opened(t)' \subseteq Handles
      BY DEF Opened, Held
    <3> QED BY <1>5, <3>1, <3>2, <3>3
  <2> QED BY <1>1, <2>1, ListsIdle
<1> QED BY <1>4, <1>7, <1>8, <1>9, Zenon DEF IInv

\* So it is with an inode that is opened for the handle, and that the volume
\* keeps when it has none.
LEMMA FreshDirectoryKeeps ==
  ASSUME IInv, ops' = ops, NEW h \in Handles \ Held, HasRoom(w, 3), w' = AfterOpen(w, Root),
         hd' = [hd EXCEPT ![h] = [type |-> "dir", ni |-> OpenedNi(w, Root), file |-> Root]],
         st' = [st EXCEPT ![h] = NoState], vd' = vd, lock' = lock, newest' = newest,
         root' = root \/ (root = 0 /\ root' = OpenedNi(w, Root))
  PROVE  IInv'
<1> DEFINE o == Fresh(w)
           n == NewInode(w, Root)
<1>1. TypeOK /\ RootIsClean /\ HandlesOwn /\ RootsLive
  BY DEF IInv
<1>2. w \in Volumes /\ root \in Objs \cup {0} /\ Root \in Files /\ 3 \in Nat \ {0}
  BY <1>1, InodeAssumption DEF TypeOK
<1>3. o \in Objs /\ w.ni[o] = Gone /\ OpenedNi(w, Root) = o /\ Changes(AfterOpen(w, Root), w, o, n) /\ n \in Inodes
  BY <1>2, OpenChanges, Zenon
<1>4. n.mft = Root /\ n.dirty = {} /\ n # Gone
  BY <1>3, LiveInode, Zenon DEF NewInode
<1> HIDE DEF o, n
<1>5. /\ w' \in Volumes /\ w'.disk = w.disk /\ w'.index = w.index /\ w'.mftbmp = w.mftbmp
      /\ w'.ni[o] = n /\ Others(w'.ni, w.ni, o)
  BY <1>3, Zenon DEF Changes, Effect
<1>6. RootIsClean'
  BY <1>1, <1>3, <1>4, <1>5, RootCleanKeeps
<1>7. \A g \in Handles \ {h} : Usable(g) => w'.ni[hd[g].ni] = w.ni[hd[g].ni]
  BY <1>1, <1>3, <1>5, InodeApart
<1>8. hd' = [hd EXCEPT ![h] = [type |-> "dir", ni |-> o, file |-> Root]] /\ (root' = root \/ (root = 0 /\ root' = o))
  BY <1>3, Zenon
<1>9. RootsLive'
  BY <1>1, <1>3, <1>4, <1>5, <1>8, RootsOpened, Zenon
<1>10. root' \in Objs \cup {0}
  BY <1>2, <1>3, <1>8, Zenon
<1> QED BY <1>3, <1>5, <1>6, <1>7, <1>8, <1>9, <1>10, NewDirectoryKeeps, Zenon

\* NtfsOpenVolume keeps the invariant.
LEMMA OpenVolumeKeeps ==
  ASSUME IInv, NEW h \in Handles \ Held, NtfsOpenVolume(h), ops' = ops
  PROVE  IInv'
<1>1. TypeOK /\ RootIsClean /\ RootsLive
  BY DEF IInv
<1>2. /\ hd' = [hd EXCEPT ![h] = [type |-> "dir", ni |-> root', file |-> Root]]
      /\ st' = [st EXCEPT ![h] = NoState] /\ vd' = vd /\ lock' = lock /\ newest' = newest /\ HasRoom(w, 3)
  BY DEF NtfsOpenVolume
<1>3. CASE root = 0
  <2>1. w' = AfterOpen(w, Root) /\ root' = OpenedNi(w, Root)
    BY <1>3, Zenon DEF NtfsOpenVolume
  <2>2. hd' = [hd EXCEPT ![h] = [type |-> "dir", ni |-> OpenedNi(w, Root), file |-> Root]]
    BY <1>2, <2>1, Zenon
  <2> QED BY <1>2, <1>3, <2>1, <2>2, FreshDirectoryKeeps, Zenon
<1>4. CASE root # 0
  <2>1. w' = w /\ root' = root /\ root \in Objs /\ w \in Volumes
    BY <1>1, <1>4 DEF NtfsOpenVolume, TypeOK
  <2>2. RootIsClean'
    BY <1>1, <2>1, Zenon DEF RootIsClean, Live
  <2>3. hd' = [hd EXCEPT ![h] = [type |-> "dir", ni |-> root, file |-> Root]]
    BY <1>2, <2>1, Zenon
  <2>4. hd'[h].ni = root /\ \A g \in Held' \ {h} : g \in Held /\ hd'[g] = hd[g]
    BY <1>1, <2>3 DEF TypeOK, Held
  <2>5. RootsLive'
    <3>1. Never({"close root", "list deleted"})' <=> Never({"close root", "list deleted"})
      BY Zenon DEF Never
    <3>2. \A x \in Objs : IsRoot(x)' <=> IsRoot(x)
      BY <2>1, Zenon DEF IsRoot
    <3>3. \A g \in Held : hd[g].ni \in Objs
      BY <1>1, Zenon DEF TypeOK, Held, HandleRecs
    <3> QED BY <1>1, <1>4, <2>1, <2>4, <3>1, <3>2, <3>3, Zenon DEF RootsLive
  <2> QED BY <1>2, <2>1, <2>2, <2>3, <2>5, NewDirectoryKeeps, Zenon
<1> QED BY <1>3, <1>4

\* NtfsOpenFile of the root keeps the invariant.
LEMMA OpenRootKeeps ==
  ASSUME IInv, NEW h \in Handles \ Held, NtfsOpenRoot(h), ops' = ops
  PROVE  IInv'
<1>1. /\ HasRoom(w, 3) /\ w' = AfterOpen(w, Root)
      /\ hd' = [hd EXCEPT ![h] = [type |-> "dir", ni |-> OpenedNi(w, Root), file |-> Root]]
      /\ st' = [st EXCEPT ![h] = NoState] /\ root' = root /\ vd' = vd /\ lock' = lock /\ newest' = newest
  BY DEF NtfsOpenRoot
<1> QED BY <1>1, FreshDirectoryKeeps, Zenon

\* A step that changes nothing, or only the lock.
LEMMA IdleKeeps ==
  ASSUME IInv, UNCHANGED <<w, root, hd, vd, st, newest, ops>>, lock' \in BOOLEAN
  PROVE  IInv'
<1>1. TypeOK'
  BY DEF IInv, TypeOK
<1>2. RootIsClean'
  BY DEF IInv, RootIsClean, Live
<1>5. HandlesOwn'
  BY Zenon DEF IInv, HandlesOwn, Usable, Refused, ReadOnly, May, Held, Intact
<1>6. RootsLive'
  BY Zenon DEF IInv, RootsLive, IsRoot, Never, Held
<1>3. InSync'
  <2>1. Never({"flush root", "open twice"})' <=> Never({"flush root", "open twice"})
    BY DEF Never
  <2>2. Held' = Held /\ \A f : HandlesOn(f)' = HandlesOn(f) /\ (Saved(f)' <=> Saved(f))
    BY DEF Held, HandlesOn, Saved
  <2>3. \A h \in Held : (Refused(h)' <=> Refused(h)) /\ (Coherent(h)' <=> Coherent(h))
    BY Zenon DEF Refused, ReadOnly, May, Coherent, Saved
  <2>4. Durable' <=> Durable
    BY <2>2 DEF Durable
  <2> QED BY <2>1, <2>2, <2>3, <2>4, Zenon DEF IInv, InSync
<1>4. OpenListsExact'
  <2>1. \A t \in {"file", "dir"} : Opened(t)' = Opened(t)
    BY DEF Opened, Held
  <2> QED BY <2>1, ListsIdle DEF IInv
<1> QED BY <1>1, <1>2, <1>3, <1>4, <1>5, <1>6 DEF IInv

\* A file is opened or created: handle h gets the new inode o, which is open
\* and clean, or was closed again because the open is refused.
NewHandle(h, f, o, write, refused, s) ==
  /\ root' = root /\ lock' = lock
  /\ w.ni[o] = Gone /\ w' \in Volumes /\ Others(w'.ni, w.ni, o)
  /\ newest' \in [Files -> Nat]
  /\ refused <=> f \in ReadOnly /\ write
  /\ May("open twice") \/ HandlesOn(f) = {}
  /\ hd' = [hd EXCEPT ![h] = [type |-> "file", ni |-> o, file |-> f]]
  /\ s = [st EXCEPT ![h] = State(o, write)]
NewInodeOf(f, o, refused) ==
  IF refused THEN w'.ni[o] = Gone
  ELSE /\ w'.ni[o] \in Inodes /\ w'.ni[o].mft = f /\ w'.ni[o].dirty = {}
       /\ ~w'.ni[o].name_dirty /\ w'.ni[o].base = w'.disk[f].base
OnlyFile(f) ==
  \A x \in Files \ {f} : /\ w'.disk[x].base = w.disk[x].base /\ w'.index[x] = w.index[x]
                         /\ x \in w'.mftbmp <=> x \in w.mftbmp
                         /\ newest'[x] = newest[x]
NewFile(f) ==
  Never({"flush root", "open twice"}) => f \in w'.mftbmp /\ newest'[f] # 0 /\ Saved(f)'
NewState(h, s, refused) ==
  IF refused THEN st' = s /\ vd' = vd
  ELSE /\ st' = Linked(s, "file", h)
       /\ vd' = [vd EXCEPT !["file"] = [firstOpen |-> h, openCount |-> u16(@.openCount + 1)]]

\* A handle of file f with an inode o of its own keeps the invariant.
LEMMA NewHandleKeeps ==
  ASSUME IInv, ops' = ops, NEW h \in Handles \ Held, NEW f \in Files \ {Root}, NEW o \in Objs,
         NEW write \in BOOLEAN, NEW refused \in BOOLEAN, NEW s \in [Handles -> StateRecs],
         NewHandle(h, f, o, write, refused, s), NewInodeOf(f, o, refused), OnlyFile(f), NewFile(f),
         NewState(h, s, refused)
  PROVE  IInv'
<1>1. TypeOK /\ RootIsClean /\ HandlesOwn /\ RootsLive /\ InSync /\ OpenListsExact
  BY DEF IInv
<1>2. /\ s[h] = State(o, write) /\ \A g \in Handles \ {h} : s[g] = st[g]
  BY <1>1, Zenon DEF TypeOK, NewHandle
<1>3. s[h].ni = o /\ s[h].write = write
  BY <1>2 DEF State
<1>4. st' \in [Handles -> StateRecs] /\ Marks(s, st')
  <2>1. CASE refused
    BY <2>1 DEF Marks, NewState
  <2>2. CASE ~refused
    <3>1. st' = Linked(s, "file", h)
      BY <2>2 DEF NewState
    <3> QED BY <1>1, <3>1, LinkedIs, Zenon
  <2> QED BY <2>1, <2>2
<1>5. st'[h].ni = o /\ st'[h].write = write
  BY <1>3, <1>4 DEF Marks
<1>6. hd'[h] = [type |-> "file", ni |-> o, file |-> f] /\ \A g \in Handles \ {h} : hd'[g] = hd[g]
  BY <1>1, Zenon DEF TypeOK, NewHandle
<1>7. [type |-> "file", ni |-> o, file |-> f] \in HandleRecs
  BY DEF HandleRecs
<1>8. hd'[h].type = "file" /\ hd'[h].ni = o /\ hd'[h].file = f /\ h \in Held'
  <2>1. hd'[h] # None
    BY <1>6, <1>7, ProtocolAssumption, Zenon DEF HandleRecs
  <2> QED BY <1>6, <2>1 DEF Held
<1>9. \A g \in Handles \ {h} : Same(g)
  BY <1>2, <1>4, <1>6 DEF Same, Marks
<1>10. vd' \in [{"file", "dir"} -> [firstOpen : Links, openCount : Nat]]
  <2>1. CASE refused
    BY <1>1, <2>1 DEF TypeOK, NewState
  <2>2. CASE ~refused
    <3>1. vd["file"].openCount \in Nat
      BY <1>1 DEF TypeOK
    <3>2. u16(vd["file"].openCount + 1) \in Nat
      BY <3>1, U16Mod
    <3>3. vd' = [vd EXCEPT !["file"] = [firstOpen |-> h, openCount |-> u16(vd["file"].openCount + 1)]]
      BY <2>2, Zenon DEF NewState
    <3> QED BY <1>1, <3>2, <3>3 DEF TypeOK, Links
  <2> QED BY <2>1, <2>2
<1>11. TypeOK'
  BY <1>1, <1>4, <1>7, <1>10, Zenon DEF TypeOK, NewHandle
<1>12. RootIsClean'
  <2>1. w'.ni[o] # Gone /\ w'.ni[o].mft = Root => w'.ni[o].dirty = {}
    BY DEF NewInodeOf
  <2>2. Others(w'.ni, w.ni, o)
    BY Zenon DEF NewHandle
  <2> QED BY <1>1, <2>1, <2>2, RootCleanKeeps, Zenon
<1>13. \A g \in Handles \ {h} : Usable(g) => w'.ni[hd[g].ni] = w.ni[hd[g].ni] /\ hd[g].ni # o
  <2>1. Others(w'.ni, w.ni, o) /\ w.ni[o] = Gone
    BY Zenon DEF NewHandle
  <2> QED BY <1>1, <2>1, InodeApart, Zenon
<1>14. Refused(h)' <=> refused
  <2>1. ReadOnly' = ReadOnly
    BY DEF ReadOnly, May
  <2>2. refused <=> f \in ReadOnly /\ write
    BY Zenon DEF NewHandle
  <2> QED BY <1>5, <1>8, <2>1, <2>2, Zenon DEF Refused
<1>15. HandlesOwn'
  <2>1. Usable(h)' => Intact(h)' /\ \A g \in Handles \ {h} : Usable(g) => hd[g].ni # hd'[h].ni
    <3> SUFFICES ASSUME Usable(h)' PROVE Intact(h)' /\ \A g \in Handles \ {h} : Usable(g) => hd[g].ni # hd'[h].ni
      BY Zenon
    <3>1. ~refused
      BY <1>14 DEF Usable
    <3>2. w'.ni[o] # Gone /\ w'.ni[o].mft = f
      BY <3>1, LiveInode DEF NewInodeOf
    <3> QED BY <1>8, <1>13, <3>2, Zenon DEF Intact
  <2>3. \A g \in Handles \ {h} : Same(g) /\ (Usable(g) => w'.ni[hd[g].ni] = w.ni[hd[g].ni])
    BY <1>9, <1>13
  <2> QED BY <1>1, <1>5, <1>8, <2>1, <2>3, OwnKeeps, Zenon
<1>18. RootsLive'
  <2>1. root' = root /\ Others(w'.ni, w.ni, o) /\ w.ni[o] = Gone
    BY Zenon DEF NewHandle
  <2>2. \A g \in Held' : hd'[g].type = "dir" => g \in Held /\ hd'[g] = hd[g]
    BY <1>6, <1>8, Zenon DEF Held
  <2> QED BY <1>1, <2>1, <2>2, RootsKeep, Zenon
<1>16. InSync'
  <2>1. \A g \in Handles \ {h} : Same(g) /\ (Usable(g) => w'.ni[hd[g].ni] = w.ni[hd[g].ni])
    BY <1>9, <1>13
  <2>2. \A x \in Files \ {Root, f} : /\ w'.disk[x].base = w.disk[x].base /\ w'.index[x] = w.index[x]
                                     /\ x \in w'.mftbmp <=> x \in w.mftbmp
                                     /\ newest'[x] = newest[x]
    BY Zenon DEF OnlyFile
  <2>3. ASSUME Never({"flush root", "open twice"})
        PROVE  /\ \A g \in Held \ {h} : hd[g].file # f
               /\ f \in w'.mftbmp => newest'[f] # 0
               /\ f \in w'.mftbmp <=> w'.index[f] # 0
               /\ h \in Held => hd[h].file = f
               /\ h \in Held' => /\ hd'[h].type = "file" /\ hd'[h].file = f /\ f \in w'.mftbmp
                                 /\ IF Refused(h)' THEN Saved(f)' ELSE Coherent(h)'
               /\ h \notin Held' /\ f \in w'.mftbmp => Saved(f)'
    <3>1. HandlesOn(f) = {}
      BY <2>3, Zenon DEF May, Never, NewHandle
    <3>2. f \in w'.mftbmp /\ newest'[f] # 0 /\ Saved(f)'
      BY <2>3, Zenon DEF NewFile
    <3>3. w'.disk[f].base = newest'[f] /\ w'.index[f] = newest'[f]
      BY <3>2 DEF Saved
    <3>4. ~refused => Coherent(h)'
      <4> SUFFICES ASSUME ~refused PROVE Coherent(h)'
        OBVIOUS
      <4>1. w'.ni[o].dirty = {} /\ ~w'.ni[o].name_dirty /\ w'.ni[o].base = w'.disk[f].base
        BY DEF NewInodeOf
      <4> QED BY <1>8, <3>3, <4>1, Zenon DEF Coherent, Saved
    <3>5. \A g \in Held \ {h} : hd[g].file # f
      BY <3>1 DEF HandlesOn
    <3>6. IF Refused(h)' THEN Saved(f)' ELSE Coherent(h)'
      BY <1>14, <3>2, <3>4
    <3> QED BY <1>8, <3>2, <3>3, <3>5, <3>6, Zenon
  <2> QED BY <1>1, <2>1, <2>2, <2>3, SyncKeeps, Zenon
<1>17. OpenListsExact'
  <2>1. h \notin Opened("file") /\ h \notin Opened("dir")
    BY DEF Opened
  <2>2. \A g \in Handles \ {h} : \A t \in {"file", "dir"} : g \in Opened(t)' <=> g \in Opened(t)
    BY <1>9 DEF Opened, Held, Same
  <2>3. o # 0
    BY InodeAssumption
  <2>4. h \in Opened("file")' /\ h \notin Opened("dir")'
    BY <1>5, <1>8, <2>3 DEF Opened
  <2>5. \A t \in {"file", "dir"} : Opened(t) \subseteq Handles /\ Opened(t)' \subseteq Handles
    BY Zenon DEF Opened, Held
  <2>6. CASE refused
    <3>1. f \in ReadOnly
      BY <2>6, Zenon DEF NewHandle
    <3>2. ~Never({"delete", "refuse", "close listed"})
      BY <3>1, Zenon DEF ReadOnly, May, Never
    <3> QED BY <3>2, Zenon DEF OpenListsExact, Never
  <2>7. CASE ~refused
    <3>1. Opened("file")' = Opened("file") \cup {h}
      BY <2>2, <2>4, <2>5
    <3>2. Opened("dir")' = Opened("dir")
      BY <2>1, <2>2, <2>4, <2>5
    <3>3. Opened("file") \cap Opened("dir") = {}
      BY DEF Opened
    <3>4. Other("file") = "dir"
      BY DEF Other
    <3>5. st' = Linked(s, "file", h)
          /\ vd' = [vd EXCEPT !["file"] = [firstOpen |-> h, openCount |-> u16(@.openCount + 1)]]
      BY <2>7 DEF NewState
    <3> QED BY <1>1, <1>2, <2>1, <3>1, <3>2, <3>3, <3>4, <3>5, ListsInsert, Zenon
  <2> QED BY <2>6, <2>7
<1> QED BY <1>11, <1>12, <1>15, <1>16, <1>17, <1>18 DEF IInv

=============================================================================
