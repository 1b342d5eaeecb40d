------------------------- MODULE FileProtocolProofs -------------------------
(***************************************************************************)
(* For every number of files, handles and inodes: handles rest on live     *)
(* inodes and exact lists, and a file that no handle is open on is on disk *)
(* as it was last written.  One lemma per call shows that it keeps the     *)
(* invariant IInv of FileProtocolLemmas.                                   *)
(***************************************************************************)
EXTENDS FileProtocolLemmas

\* One record changes.
LEMMA RecordIs ==
  ASSUME NEW v \in Volumes, NEW f \in Files, NEW b \in Nat
  PROVE  WithRecord(v, f, b)[f].base = b /\ \A x \in Files \ {f} : WithRecord(v, f, b)[x].base = v.disk[x].base
  BY DEF Volumes, Disks, WithRecord

\* One entry changes.
LEMMA IndexIs ==
  ASSUME NEW v \in Volumes, NEW f \in Files, NEW b \in Nat
  PROVE  WithIndex(v, f, b)[f] = b /\ \A x \in Files \ {f} : WithIndex(v, f, b)[x] = v.index[x]
  BY DEF Volumes, Indices, WithIndex

\* Room for three inodes is room for fewer.
LEMMA LessRoom ==
  ASSUME NEW v \in Volumes, HasRoom(v, 3)
  PROVE  HasRoom(v, 2) /\ HasRoom(v, 1)
<1>1. IsFiniteSet(Objs \ Live(v))
  BY InodeAssumption, FS_Difference, Zenon
<1>2. Cardinality(Objs \ Live(v)) \in Nat
  BY <1>1, FS_CardinalityType
<1>3. Cardinality(Objs \ Live(v)) >= 3
  BY DEF HasRoom
<1> QED BY <1>2, <1>3 DEF HasRoom

\* NtfsOpenFile of a file that is there, is refused or is created.
LEMMA OpenFileKeeps ==
  ASSUME IInv, ops' = ops, NEW h \in Handles \ Held, NEW f \in Files \ {Root},
         NEW mode \in {"read", "write", "create"}, NtfsOpenFile(h, f, mode)
  PROVE  IInv'
<1>1. TypeOK /\ RootIsClean /\ HandlesOwn /\ InSync /\ OpenListsExact
  BY DEF IInv
<1>2. w \in Volumes /\ newest \in [Files -> Nat] /\ st \in [Handles -> StateRecs] /\ f \in Files /\ 3 \in Nat \ {0}
  BY <1>1 DEF TypeOK
<1>3. HasRoom(w, 3) /\ (May("open twice") \/ HandlesOn(f) = {})
  BY Zenon DEF NtfsOpenFile
<1>4. LookUp(w) = w /\ (Found(w, f) <=> w.index[f] # 0)
  BY <1>2, <1>3, LookUpIsIdle, Zenon
<1> DEFINE write == mode # "read"
           refused == f \in ReadOnly /\ write
           s(o) == [st EXCEPT ![h] = State(o, write)]
<1>5. write \in BOOLEAN /\ refused \in BOOLEAN
  OBVIOUS
<1>6. ASSUME NEW o \in Objs PROVE s(o) \in [Handles -> StateRecs]
  <2>1. State(o, write) \in StateRecs
    BY <1>5 DEF State, StateRecs, Links
  <2> HIDE DEF write
  <2> QED BY <1>2, <2>1
<1>7. CASE Found(w, f)
  <2> DEFINE o == Fresh(w)
             n == NewInode(w, f)
             v == AfterOpen(w, f)
  <2>1. LookUp(IF mode = "create" THEN LookUp(w) ELSE w) = w
    BY <1>4, Zenon
  <2>2. o \in Objs /\ w.ni[o] = Gone /\ OpenedNi(w, f) = o /\ Changes(v, w, o, n) /\ n \in Inodes
    BY <1>2, <1>3, OpenChanges, Zenon
  <2>3. /\ newest' = newest /\ root' = root /\ lock' = lock
        /\ hd' = [hd EXCEPT ![h] = [type |-> "file", ni |-> o, file |-> f]]
        /\ ntfs_open_r(v, h, o, f, mode)
    BY <1>7, <2>1, <2>2, Zenon DEF NtfsOpenFile
  <2>4. IF refused THEN w' = ntfsCloseEntry(v, o) /\ st' = s(o) /\ vd' = vd
        ELSE /\ w' = v /\ st' = Linked(s(o), "file", h)
             /\ vd' = [vd EXCEPT !["file"] = [firstOpen |-> h, openCount |-> u16(@.openCount + 1)]]
    BY <2>3, Zenon DEF ntfs_open_r
  <2>5. n.mft = f /\ n.dirty = {} /\ ~n.name_dirty /\ n.base = w.disk[f].base
    BY DEF NewInode
  <2> HIDE DEF o, n, v
  <2>6. Effect(w', w, o, w.disk, w.index, IF refused THEN Gone ELSE n)
    <3>1. Effect(v, w, o, w.disk, w.index, n)
      BY <2>2, Zenon DEF Changes
    <3>2. CASE refused
      <4>1. Effect(ntfsCloseEntry(v, o), w, o, w.disk, w.index, Gone)
        BY <1>2, <2>2, <2>5, <3>1, EntryFreedAfter, Zenon
      <4> QED BY <2>4, <3>2, <4>1, Zenon
    <3>3. CASE ~refused
      BY <2>4, <3>1, <3>3, Zenon
    <3> QED BY <3>2, <3>3
  <2> HIDE DEF refused
  <2>7. /\ w' \in Volumes /\ w'.disk = w.disk /\ w'.index = w.index /\ w'.mftbmp = w.mftbmp
        /\ w'.ni[o] = (IF refused THEN Gone ELSE n) /\ Others(w'.ni, w.ni, o)
    BY <2>6, Zenon DEF Effect
  <2>8. NewHandle(h, f, o, write, refused, s(o))
    BY <1>2, <1>3, <2>2, <2>3, <2>7, Zenon DEF NewHandle, refused
  <2>9. NewInodeOf(f, o, refused)
    BY <2>2, <2>5, <2>7 DEF NewInodeOf
  <2>10. OnlyFile(f)
    BY <2>3, <2>7, Zenon DEF OnlyFile
  <2>11. NewFile(f)
    <3> SUFFICES ASSUME Never({"flush root", "open twice"}) PROVE f \in w'.mftbmp /\ newest'[f] # 0 /\ Saved(f)'
      BY Zenon DEF NewFile
    <3>1. f \in w.mftbmp /\ newest[f] # 0 /\ Durable
      BY <1>1, <1>4, <1>7, Zenon DEF InSync
    <3>2. HandlesOn(f) = {}
      BY <1>3, Zenon DEF May, Never
    <3>3. w.disk[f].base = newest[f] /\ w.index[f] = newest[f]
      BY <3>1, <3>2, Zenon DEF Durable
    <3> QED BY <2>3, <2>7, <3>1, <3>3, Zenon DEF Saved
  <2>12. NewState(h, s(o), refused)
    BY <2>4, Zenon DEF NewState, refused
  <2>13. s(o) \in [Handles -> StateRecs]
    BY <1>6, <2>2
  <2> HIDE DEF s, write
  <2> QED BY <1>5, <2>2, <2>8, <2>9, <2>10, <2>11, <2>12, <2>13, NewHandleKeeps, Zenon DEF refused
<1>8. CASE ~Found(w, f)
  <2> DEFINE o == CreatedNi(w)
             b == newest[f] + 1
             u == Create(w, f, b)
  <2>1. mode = "create" /\ f \notin ReadOnly
    BY <1>8, Zenon DEF NtfsOpenFile
  <2>2. ~refused /\ write
    BY <2>1
  <2>3. /\ newest' = [newest EXCEPT ![f] = newest[f] + 1] /\ root' = root /\ lock' = lock
        /\ hd' = [hd EXCEPT ![h] = [type |-> "file", ni |-> o, file |-> f]]
        /\ ntfs_open_r(u, h, o, f, mode)
    BY <1>8, Zenon DEF NtfsOpenFile
  <2>4. /\ w' = u /\ st' = Linked(s(o), "file", h)
        /\ vd' = [vd EXCEPT !["file"] = [firstOpen |-> h, openCount |-> u16(@.openCount + 1)]]
    BY <2>1, <2>3, Zenon DEF ntfs_open_r
  <2>5. b \in Nat /\ newest' \in [Files -> Nat] /\ newest'[f] = b /\ b # 0
        /\ \A x \in Files \ {f} : newest'[x] = newest[x]
    BY <1>2, <2>3
  <2>6. HasRoom(w, 2)
    BY <1>2, <1>3, LessRoom, Zenon
  <2> HIDE DEF b
  <2>20. b \in Nat
    BY <2>5
  <2>21. w \in Volumes /\ f \in Files
    BY <1>2
  <2>7. /\ o \in Objs /\ w.ni[o] = Gone /\ u \in Volumes
        /\ u.disk = [w.disk EXCEPT ![f].base = b] /\ u.index = WithIndex(w, f, b)
        /\ u.mftbmp = w.mftbmp \cup {f}
        /\ u.ni[o] = CreatedInode(f, b) /\ CreatedInode(f, b) \in Inodes
        /\ Others(u.ni, w.ni, o)
    BY <2>6, <2>20, <2>21, CreateEffect, Zenon
  <2>8. /\ w'.disk[f].base = b /\ \A x \in Files \ {f} : w'.disk[x].base = w.disk[x].base
    <3>1. w'.disk = WithRecord(w, f, b)
      BY <2>4, <2>7, Zenon DEF WithRecord
    <3> QED BY <2>20, <2>21, <3>1, RecordIs
  <2>9. /\ w'.index[f] = b /\ \A x \in Files \ {f} : w'.index[x] = w.index[x]
    <3>1. w'.index = WithIndex(w, f, b)
      BY <2>4, <2>7, Zenon DEF WithIndex
    <3> QED BY <2>20, <2>21, <3>1, IndexIs
  <2> HIDE DEF u, o
  <2>10. w' \in Volumes /\ Others(w'.ni, w.ni, o) /\ w'.ni[o] = CreatedInode(f, b) /\ w'.mftbmp = w.mftbmp \cup {f}
    BY <2>4, <2>7, Zenon
  <2>11. NewHandle(h, f, o, write, refused, s(o))
    BY <1>3, <2>3, <2>5, <2>7, <2>10, Zenon DEF NewHandle
  <2>12. NewInodeOf(f, o, refused)
    BY <2>2, <2>7, <2>8, <2>10 DEF NewInodeOf, CreatedInode
  <2>13. OnlyFile(f)
    BY <2>5, <2>8, <2>9, <2>10 DEF OnlyFile
  <2>14. NewFile(f)
    BY <2>5, <2>8, <2>9, <2>10, Zenon DEF NewFile, Saved
  <2>15. NewState(h, s(o), refused)
    BY <2>2, <2>4, Zenon DEF NewState
  <2>16. s(o) \in [Handles -> StateRecs]
    BY <1>6, <2>7
  <2>17. o \in Objs
    BY <2>7
  <2> HIDE DEF s, write, refused
  <2> QED BY <1>5, <2>11, <2>12, <2>13, <2>14, <2>15, <2>16, <2>17, NewHandleKeeps, Zenon DEF refused
<1> QED BY <1>7, <1>8

\* Handle h of a file stays open, and only its inode changes.
Usage(h) ==
  /\ h \in Held /\ hd[h].type = "file" /\ ~Refused(h) /\ Intact(h)
  /\ ops' = ops /\ root' = root /\ lock' = lock
  /\ w' \in Volumes /\ Others(w'.ni, w.ni, hd[h].ni) /\ newest' \in [Files -> Nat]

\* Its inode is neither that of another handle nor one of the directory.
LEMMA UsageIs ==
  ASSUME IInv, NEW h \in Handles, Usage(h)
  PROVE  /\ hd[h].file \in Files \ {Root} /\ hd[h].ni \in Objs
         /\ st[h].ni = hd[h].ni /\ Usable(h)
         /\ w.ni[hd[h].ni] \in Inodes /\ w.ni[hd[h].ni].mft = hd[h].file
         /\ \A g \in Handles \ {h} : Usable(g) => w'.ni[hd[g].ni] = w.ni[hd[g].ni]
<1>1. TypeOK /\ HandlesOwn
  BY DEF IInv
<1>2. h \in Held /\ hd[h].type = "file" /\ ~Refused(h) /\ Intact(h) /\ Others(w'.ni, w.ni, hd[h].ni)
  BY DEF Usage
<1>3. hd[h].file \in Files \ {Root} /\ hd[h].ni \in Objs /\ st[h].ni = hd[h].ni
  BY <1>1, <1>2, HandleIs, Zenon DEF HandlesOwn
<1>4. w.ni[hd[h].ni] \in Inodes /\ w.ni[hd[h].ni].mft = hd[h].file
  BY <1>1, <1>2, IntactIs
<1>5. Usable(h)
  BY <1>2 DEF Usable
<1>6. \A g \in Handles \ {h} : Usable(g) => w'.ni[hd[g].ni] = w.ni[hd[g].ni]
  BY <1>1, <1>2, <1>3, <1>5, InodeApart
<1> QED BY <1>3, <1>4, <1>5, <1>6, Zenon

\* The handle stays, and its inode and its file are in agreement.
LEMMA UsedHandleKeeps ==
  ASSUME IInv, NEW h \in Handles, Usage(h), hd' = hd, st' = st, vd' = vd, OnlyFile(hd[h].file),
         w'.ni[hd[h].ni] \in Inodes, w'.ni[hd[h].ni].mft = hd[h].file,
         Never({"flush root", "open twice"}) =>
           w'.mftbmp = w.mftbmp /\ newest'[hd[h].file] # 0 /\ w'.index[hd[h].file] # 0 /\ Coherent(h)'
  PROVE  IInv'
<1> DEFINE f == hd[h].file
           o == hd[h].ni
<1>1. TypeOK /\ RootIsClean /\ HandlesOwn /\ RootsLive /\ InSync /\ OpenListsExact
  BY Zenon DEF IInv
<1>2. /\ f \in Files \ {Root} /\ o \in Objs /\ st[h].ni = o /\ Usable(h)
      /\ w.ni[o].mft = f
      /\ \A g \in Handles \ {h} : Usable(g) => w'.ni[hd[g].ni] = w.ni[hd[g].ni]
  BY UsageIs, Zenon
<1>3. h \in Held /\ hd[h].type = "file" /\ ~Refused(h) /\ ops' = ops /\ root' = root /\ lock' = lock
      /\ w' \in Volumes /\ Others(w'.ni, w.ni, o) /\ newest' \in [Files -> Nat]
  BY Zenon DEF Usage
<1>4. TypeOK'
  BY <1>1, <1>3, Zenon DEF TypeOK
<1>5. RootIsClean'
  BY <1>1, <1>2, <1>3, RootCleanKeeps, Zenon
<1>6. ReadOnly' = ReadOnly /\ Held' = Held
  BY <1>3, Zenon DEF ReadOnly, May, Held
<1>7. ~Refused(h)'
  BY <1>3, <1>6, Zenon DEF Refused
<1>8. \A g \in Handles \ {h} : Same(g) /\ (Usable(g) => w'.ni[hd[g].ni] = w.ni[hd[g].ni])
  BY <1>2, Zenon DEF Same
<1>9. HandlesOwn'
  <2>1. Usable(h)' => Intact(h)' /\ \A g \in Handles \ {h} : Usable(g) => hd[g].ni # hd'[h].ni
    <3>1. Intact(h)'
      BY LiveInode, Zenon DEF Intact
    <3>2. \A g \in Handles \ {h} : Usable(g) => hd[g].ni # hd[h].ni
      BY <1>1, <1>2, Zenon DEF HandlesOwn
    <3> QED BY <3>1, <3>2, Zenon
  <2>2. hd'[h].type = "file" /\ hd'[h].file # Root /\ st'[h].ni = hd'[h].ni
    BY <1>2, <1>3, Zenon
  <2> QED BY <1>1, <1>2, <1>3, <1>8, <2>1, <2>2, OwnKeeps, Zenon
<1>12. RootsLive'
  <2>1. w.ni[o].mft # Root
    BY <1>2, Zenon
  <2> QED BY <1>1, <1>2, <1>3, <1>6, <2>1, RootsKeep, Zenon
<1>10. InSync'
  <2>1. \A x \in Files \ {Root, f} : /\ w'.disk[x].base = w.disk[x].base /\ w'.index[x] = w.index[x]
                                     /\ x \in w'.mftbmp <=> x \in w.mftbmp
                                     /\ newest'[x] = newest[x]
    BY Zenon DEF OnlyFile
  <2>2. ASSUME Never({"flush root", "open twice"})
        PROVE  /\ \A g \in Held \ {h} : hd[g].file # f
               /\ f \in w'.mftbmp => newest'[f] # 0
               /\ f \in w'.mftbmp <=> w'.index[f] # 0
               /\ h \in Held => hd[h].file = f
               /\ h \in Held' => /\ hd'[h].type = "file" /\ hd'[h].file = f /\ f \in w'.mftbmp
                                 /\ IF Refused(h)' THEN Saved(f)' ELSE Coherent(h)'
               /\ h \notin Held' /\ f \in w'.mftbmp => Saved(f)'
    <3>1. f \in w.mftbmp
      BY <1>1, <1>3, <2>2, Zenon DEF InSync
    <3>2. \A g \in Held \ {h} : hd[g].file # f
      BY <1>1, <1>3, <2>2, Zenon DEF InSync
    <3>3. w'.mftbmp = w.mftbmp /\ newest'[f] # 0 /\ w'.index[f] # 0 /\ Coherent(h)'
      BY <2>2, Zenon
    <3> QED BY <1>3, <1>6, <1>7, <3>1, <3>2, <3>3, Zenon
  <2> QED BY <1>1, <1>2, <1>3, <1>8, <2>1, <2>2, SyncKeeps, Zenon
<1>11. OpenListsExact'
  <2>1. \A t \in {"file", "dir"} : Opened(t)' = Opened(t)
    BY Zenon DEF Opened, Held
  <2> QED BY <1>1, <1>3, <2>1, ListsIdle, Zenon
<1> QED BY <1>4, <1>5, <1>9, <1>10, <1>11, <1>12, Zenon DEF IInv

\* NtfsWriteFile keeps the invariant.
LEMMA WriteFileKeeps ==
  ASSUME IInv, ops' = ops, NEW h \in Held, ~Refused(h), Intact(h), NtfsWriteFile(h)
  PROVE  IInv'
<1> DEFINE f == hd[h].file
           o == hd[h].ni
           n == w.ni[o]
           b == newest[f] + 1
<1>1. TypeOK /\ HandlesOwn /\ InSync
  BY DEF IInv
<1>2. h \in Handles /\ o \in Objs /\ f \in Files
  BY <1>1, HandleIs
<1>3. n \in Inodes /\ n.mft = f
  BY <1>1, IntactIs
<1>4. /\ hd[h].type = "file" /\ newest' = [newest EXCEPT ![f] = b]
      /\ w' = Changed(w, st[h].ni, "base", newest'[f])
      /\ hd' = hd /\ st' = st /\ vd' = vd /\ root' = root /\ lock' = lock
  BY DEF NtfsWriteFile
<1>5. st[h].ni = o
  BY <1>1, <1>4, Zenon DEF HandlesOwn
<1>6. b \in Nat /\ b # 0 /\ newest' \in [Files -> Nat] /\ newest'[f] = b
      /\ \A x \in Files \ {f} : newest'[x] = newest[x]
  BY <1>1, <1>2, <1>4 DEF TypeOK
<1> HIDE DEF b
<1>7. Changes(w', w, o, WrittenInode(n, b)) /\ WrittenInode(n, b) \in Inodes
  <2>1. w \in Volumes /\ b \in Nat /\ w' = Changed(w, o, "base", b)
    BY <1>1, <1>4, <1>5, <1>6 DEF TypeOK
  <2> QED BY <1>2, <1>3, <2>1, ChangedChanges, Zenon
<1>8. /\ w' \in Volumes /\ w'.disk = w.disk /\ w'.index = w.index /\ w'.mftbmp = w.mftbmp
      /\ w'.ni[o] = WrittenInode(n, b) /\ Others(w'.ni, w.ni, o)
  BY <1>7, Zenon DEF Changes, Effect
<1>9. WrittenInode(n, b).mft = n.mft /\ WrittenInode(n, b).base = b /\ WrittenInode(n, b).name_dirty
      /\ WrittenInode(n, b).dirty # {}
  BY Zenon DEF WrittenInode, WithBase, WithDirty, WithName
<1> HIDE DEF n
<1>10. Usage(h)
  BY <1>2, <1>4, <1>6, <1>8, Zenon DEF Usage
<1>11. OnlyFile(f)
  BY <1>6, <1>8, Zenon DEF OnlyFile
<1>12. w'.ni[o] \in Inodes /\ w'.ni[o].mft = f
  BY <1>3, <1>7, <1>8, <1>9, Zenon
<1>13. Coherent(h)'
  <2>1. hd'[h] = hd[h]
    BY <1>4
  <2> QED BY <1>6, <1>8, <1>9, <2>1 DEF Coherent
<1>14. Never({"flush root", "open twice"}) =>
         w'.mftbmp = w.mftbmp /\ newest'[f] # 0 /\ w'.index[f] # 0 /\ Coherent(h)'
  <2> SUFFICES ASSUME Never({"flush root", "open twice"}) PROVE w.index[f] # 0
    BY <1>6, <1>8, <1>13, Zenon
  <2>1. f \in w.mftbmp
    BY <1>1, <1>4, Zenon DEF InSync
  <2>2. f # Root
    BY <1>1, <1>4, Zenon DEF HandlesOwn
  <2> QED BY <1>1, <1>2, <2>1, <2>2, Zenon DEF InSync
<1> QED BY <1>2, <1>4, <1>10, <1>11, <1>12, <1>14, UsedHandleKeeps, Zenon

\* Handle h of a file is given back.
Leaves(h) ==
  /\ hd' = [hd EXCEPT ![h] = None]
  /\ st' \in [Handles -> StateRecs] /\ vd' \in [{"file", "dir"} -> [firstOpen : Links, openCount : Nat]]
  /\ \A g \in Handles \ {h} : st'[g].ni = st[g].ni /\ st'[g].write = st[g].write
  /\ w'.ni[hd[h].ni] \in {Gone, w.ni[hd[h].ni]}

\* The other handles stay.
LEMMA LeftIs ==
  ASSUME TypeOK, NEW h \in Held, hd' = [hd EXCEPT ![h] = None]
  PROVE  /\ hd' \in [Handles -> HandleRecs \cup {None}] /\ h \notin Held'
         /\ \A g \in Handles \ {h} : hd'[g] = hd[g]
         /\ Held' = Held \ {h}
  BY DEF TypeOK, Held

\* The file of the handle is saved, or gone.
LEMMA LeavingKeeps ==
  ASSUME IInv, NEW h \in Handles, Usage(h), Leaves(h), OnlyFile(hd[h].file), OpenListsExact',
         Never({"flush root", "open twice"}) =>
           /\ hd[h].file \in w'.mftbmp => /\ newest'[hd[h].file] # 0 /\ w'.disk[hd[h].file].base = newest'[hd[h].file]
                                          /\ w'.index[hd[h].file] = newest'[hd[h].file]
           /\ hd[h].file \in w'.mftbmp <=> w'.index[hd[h].file] # 0
  PROVE  IInv'
<1> DEFINE f == hd[h].file
           o == hd[h].ni
<1>1. TypeOK /\ RootIsClean /\ HandlesOwn /\ RootsLive /\ InSync
  BY Zenon DEF IInv
<1>2. /\ f \in Files \ {Root} /\ o \in Objs /\ st[h].ni = o /\ Usable(h)
      /\ w.ni[o].mft = f
      /\ \A g \in Handles \ {h} : Usable(g) => w'.ni[hd[g].ni] = w.ni[hd[g].ni]
  BY UsageIs, Zenon
<1>3. h \in Held /\ hd[h].type = "file" /\ ~Refused(h) /\ ops' = ops /\ root' = root /\ lock' = lock
      /\ w' \in Volumes /\ Others(w'.ni, w.ni, o) /\ newest' \in [Files -> Nat]
  BY Zenon DEF Usage
<1>4. /\ hd' = [hd EXCEPT ![h] = None]
      /\ st' \in [Handles -> StateRecs] /\ vd' \in [{"file", "dir"} -> [firstOpen : Links, openCount : Nat]]
      /\ \A g \in Handles \ {h} : st'[g].ni = st[g].ni /\ st'[g].write = st[g].write
      /\ w'.ni[o] \in {Gone, w.ni[o]}
  BY Zenon DEF Leaves
<1>5. /\ hd' \in [Handles -> HandleRecs \cup {None}] /\ h \notin Held'
      /\ \A g \in Handles \ {h} : hd'[g] = hd[g]
  BY <1>1, <1>3, <1>4, LeftIs, Zenon
<1>6. TypeOK'
  BY <1>1, <1>3, <1>4, <1>5, Zenon DEF TypeOK
<1>7. RootIsClean'
  BY <1>1, <1>2, <1>3, <1>4, RootCleanKeeps, Zenon
<1>8. \A g \in Handles \ {h} : Same(g) /\ (Usable(g) => w'.ni[hd[g].ni] = w.ni[hd[g].ni])
  BY <1>2, <1>4, <1>5, Zenon DEF Same
<1>9. HandlesOwn'
  <2>1. ~Usable(h)'
    BY <1>5, Zenon DEF Usable
  <2> QED BY <1>1, <1>2, <1>3, <1>5, <1>8, <2>1, OwnKeeps, Zenon
<1>11. RootsLive'
  <2>1. w.ni[o].mft # Root
    BY <1>2, Zenon
  <2>2. \A g \in Held' : hd'[g].type = "dir" => g \in Held /\ hd'[g] = hd[g]
    BY <1>5, Zenon DEF Held
  <2> QED BY <1>1, <1>2, <1>3, <2>1, <2>2, RootsKeep, Zenon
<1>10. InSync'
  <2> SUFFICES ASSUME NEW y \in Files \ {Root}, y = f PROVE InSync'
    BY <1>2, Zenon
  <2>1. \A x \in Files \ {Root, y} : /\ w'.disk[x].base = w.disk[x].base /\ w'.index[x] = w.index[x]
                                     /\ x \in w'.mftbmp <=> x \in w.mftbmp
                                     /\ newest'[x] = newest[x]
    BY Zenon DEF OnlyFile
  <2>2. ASSUME Never({"flush root", "open twice"})
        PROVE  /\ \A g \in Held \ {h} : hd[g].file # y
               /\ y \in w'.mftbmp => newest'[y] # 0
               /\ y \in w'.mftbmp <=> w'.index[y] # 0
               /\ h \in Held => hd[h].file = y
               /\ h \in Held' => /\ hd'[h].type = "file" /\ hd'[h].file = y /\ y \in w'.mftbmp
                                 /\ IF Refused(h)' THEN Saved(y)' ELSE Coherent(h)'
               /\ h \notin Held' /\ y \in w'.mftbmp => Saved(y)'
    <3>1. \A g \in Held \ {h} : hd[g].file # y
      BY <1>1, <1>3, <2>2, Zenon DEF InSync
    <3> QED BY <1>5, <2>2, <3>1, Zenon DEF Saved
  <2> QED BY <1>1, <1>2, <1>3, <1>8, <2>1, <2>2, SyncKeeps, Zenon
<1> QED BY <1>6, <1>7, <1>9, <1>10, <1>11, Zenon DEF IInv

\* What syncing inode n does to the disk and to the directory.
LEMMA SyncedIs ==
  ASSUME NEW v \in Volumes, NEW n \in Inodes
  PROVE  /\ SyncedDisk(v, n)[n.mft].base = n.base
         /\ \A x \in Files \ {n.mft} : SyncedDisk(v, n)[x].base = v.disk[x].base
         /\ SyncedIndex(v, n)[n.mft] = IF Named(n) THEN n.base ELSE v.index[n.mft]
         /\ \A x \in Files \ {n.mft} : SyncedIndex(v, n)[x] = v.index[x]
<1>1. n.mft \in Files /\ n.base \in Nat
  BY DEF Inodes
<1>2. SyncedDisk(v, n) = WithRecord(v, n.mft, n.base)
  BY Zenon DEF SyncedDisk, WithRecord
<1>3. SyncedIndex(v, n) = IF Named(n) THEN WithIndex(v, n.mft, n.base) ELSE v.index
  BY Zenon DEF SyncedIndex, WithIndex
<1> QED BY <1>1, <1>2, <1>3, RecordIs, IndexIs

\* NtfsFlushFile of a file keeps the invariant.
LEMMA FlushFileKeeps ==
  ASSUME IInv, ops' = ops, NEW h \in Held, ~Refused(h), Intact(h), NtfsFlushFile(h), hd[h].type = "file"
  PROVE  IInv'
<1> DEFINE f == hd[h].file
           o == hd[h].ni
           n == w.ni[o]
<1>1. TypeOK /\ HandlesOwn /\ InSync
  BY DEF IInv
<1>2. h \in Handles /\ o \in Objs /\ f \in Files /\ f # Root /\ w \in Volumes /\ newest \in [Files -> Nat]
  BY <1>1, HandleIs, Zenon DEF HandlesOwn, TypeOK
<1>3. n \in Inodes /\ n.mft = f
  BY <1>1, IntactIs, Zenon
<1>4. /\ HasRoom(w, 1) /\ w' = Sync(w, o, 0, {})
      /\ hd' = hd /\ st' = st /\ vd' = vd /\ root' = root /\ lock' = lock /\ newest' = newest
  BY DEF NtfsFlushFile
<1>5. \E k \in Nat \ {0} : HasRoom(w, k)
  BY <1>4
<1>6. /\ Effect(w', w, o, SyncedDisk(w, n), SyncedIndex(w, n), SyncedInode(n))
      /\ SyncedInode(n) \in Inodes /\ SyncedInode(n).dirty = {}
  <2>1. n.mft # Root
    BY <1>2, <1>3
  <2> QED BY <1>2, <1>3, <1>4, <1>5, <2>1, SyncOfFile, Zenon
<1>7. /\ w' \in Volumes /\ w'.disk = SyncedDisk(w, n) /\ w'.index = SyncedIndex(w, n) /\ w'.mftbmp = w.mftbmp
      /\ w'.ni[o] = SyncedInode(n) /\ Others(w'.ni, w.ni, o)
  BY <1>6, Zenon DEF Effect
<1>8. SyncedInode(n).mft = n.mft /\ SyncedInode(n).base = n.base
      /\ SyncedInode(n).name_dirty = IF Named(n) THEN FALSE ELSE n.name_dirty
  BY Zenon DEF SyncedInode, WithDirty, WithName
<1> HIDE DEF n
<1>9. /\ w'.disk[f].base = n.base /\ \A x \in Files \ {f} : w'.disk[x].base = w.disk[x].base
      /\ w'.index[f] = (IF Named(n) THEN n.base ELSE w.index[f])
      /\ \A x \in Files \ {f} : w'.index[x] = w.index[x]
  <2>1. /\ SyncedDisk(w, n)[n.mft].base = n.base
        /\ \A x \in Files \ {n.mft} : SyncedDisk(w, n)[x].base = w.disk[x].base
        /\ SyncedIndex(w, n)[n.mft] = IF Named(n) THEN n.base ELSE w.index[n.mft]
        /\ \A x \in Files \ {n.mft} : SyncedIndex(w, n)[x] = w.index[x]
    BY <1>2, <1>3, SyncedIs, Zenon
  <2> QED BY ONLY <1>3, <1>7, <2>1
<1>10. Usage(h)
  BY <1>2, <1>4, <1>7, Zenon DEF Usage
<1>11. OnlyFile(f)
  BY <1>4, <1>7, <1>9, Zenon DEF OnlyFile
<1>12. w'.ni[o] \in Inodes /\ w'.ni[o].mft = f
  BY <1>3, <1>6, <1>7, <1>8, Zenon
<1>13. ASSUME Never({"flush root", "open twice"})
       PROVE  newest'[f] # 0 /\ w'.index[f] # 0 /\ Coherent(h)'
  <2>1. f \in w.mftbmp /\ newest[f] # 0 /\ w.index[f] # 0 /\ Coherent(h)
    BY <1>1, <1>2, <1>13, Zenon DEF InSync
  <2>2. /\ n.base = newest[f] /\ (n.name_dirty <=> n.dirty # {})
        /\ n.dirty = {} => w.disk[f].base = newest[f] /\ w.index[f] = newest[f]
    BY <2>1 DEF Coherent, Saved, n
  <2>3. Named(n) <=> n.name_dirty
    BY <2>1, <2>2 DEF Named
  <2>4. w'.index[f] = newest[f] /\ w'.disk[f].base = newest[f]
    BY <1>9, <2>2, <2>3, Zenon
  <2>5. w'.ni[o].base = newest[f] /\ w'.ni[o].dirty = {} /\ ~w'.ni[o].name_dirty
    BY <1>6, <1>7, <1>8, <2>2, <2>3, Zenon
  <2>6. Coherent(h)'
    BY <1>4, <2>4, <2>5, Zenon DEF Coherent, Saved
  <2> QED BY <1>4, <2>1, <2>4, <2>6, Zenon
<1> QED BY <1>2, <1>4, <1>7, <1>10, <1>11, <1>12, <1>13, UsedHandleKeeps, Zenon

\* ntfsCloseFile writes inode m, which is what the inode of the handle has
\* become, unless nothing was changed; in the end the inode is freed.
LEMMA CloseFileEffect ==
  ASSUME NEW v \in Volumes, NEW h \in Handles, NEW o \in Objs, st[h].ni = o,
         v.ni[o] \in Inodes, v.ni[o].mft # Root, HasRoom(v, 1)
  PROVE  \/ v.ni[o].dirty = {} /\ Effect(ntfsCloseFile(v, h), v, o, v.disk, v.index, Gone)
         \/ \E m \in Inodes :
              /\ m.mft = v.ni[o].mft /\ m.base = v.ni[o].base
              /\ (v.ni[o].dirty # {} => v.ni[o].name_dirty) => m.name_dirty
              /\ Effect(ntfsCloseFile(v, h), v, o, SyncedDisk(v, m), SyncedIndex(v, m), Gone)
<1> DEFINE n == v.ni[o]
           m == WithDirty(WithName(n, TRUE), {"base"})
           u == ntfs_inode_update_times(v, o)
           x == Sync(u, o, 0, {})
<1>0. 1 \in Nat \ {0} /\ 1 \in Nat
  OBVIOUS
<1>1. CASE ~st[h].write
  <2>1. ntfsCloseFile(v, h) = ntfsCloseEntry(v, o)
    BY <1>1, Zenon DEF ntfsCloseFile
  <2>2. CASE n.dirty = {}
    <3>1. Changes(ntfsCloseEntry(v, o), v, o, Gone)
      BY <2>2, EntryClosed, Zenon
    <3> QED BY <2>1, <2>2, <3>1, Zenon DEF Changes
  <2>3. CASE n.dirty # {}
    <3>1. Effect(ntfsCloseEntry(v, o), v, o, SyncedDisk(v, n), SyncedIndex(v, n), Gone)
      BY <1>0, <2>3, CloseOfFile, Zenon
    <3> QED BY <2>1, <2>3, <3>1, Zenon
  <2> QED BY <2>2, <2>3, Zenon
<1>2. CASE st[h].write
  <2>1. ntfsCloseFile(v, h) = ntfsCloseEntry(x, o)
    BY <1>2, Zenon DEF ntfsCloseFile
  <2>2. Changes(u, v, o, m)
    BY TimesChanges, Zenon
  <2>3. n \in Inodes
    OBVIOUS
  <2>4. m \in Inodes /\ m.mft = n.mft /\ m.base = n.base /\ m.name_dirty
    <3> HIDE DEF n
    <3> QED BY <2>3, Zenon DEF WithDirty, WithName, Inodes
  <2> HIDE DEF m
  <2>5. /\ u \in Volumes /\ u.disk = v.disk /\ u.index = v.index /\ u.mftbmp = v.mftbmp
        /\ u.ni[o] = m /\ Others(u.ni, v.ni, o)
    BY <2>2, Zenon DEF Changes, Effect
  <2>6. HasRoom(u, 1)
    <3>1. Effect(u, v, o, v.disk, v.index, m)
      BY <2>2, Zenon DEF Changes
    <3> QED BY <1>0, <2>3, <2>4, <3>1, SameRoom, Zenon
  <2> HIDE DEF u
  <2>7. Effect(x, u, o, SyncedDisk(u, m), SyncedIndex(u, m), SyncedInode(m))
        /\ SyncedInode(m) \in Inodes /\ SyncedInode(m).dirty = {}
    <3>1. u.ni[o].mft # Root /\ u.ni[o] \in Inodes
      BY <2>4, <2>5
    <3>2. \E k \in Nat \ {0} : HasRoom(u, k)
      BY <1>0, <2>6
    <3>3. /\ Effect(x, u, o, SyncedDisk(u, u.ni[o]), SyncedIndex(u, u.ni[o]), SyncedInode(u.ni[o]))
          /\ SyncedInode(u.ni[o]) \in Inodes /\ SyncedInode(u.ni[o]).dirty = {}
      BY <2>5, <3>1, <3>2, SyncOfFile, Zenon
    <3> QED BY <2>5, <3>3, Zenon
  <2>8. Effect(ntfsCloseEntry(x, o), u, o, SyncedDisk(u, m), SyncedIndex(u, m), Gone)
    <3> HIDE DEF x
    <3> QED BY <2>5, <2>7, EntryFreedAfter, Zenon
  <2>9. SyncedDisk(u, m) = SyncedDisk(v, m) /\ SyncedIndex(u, m) = SyncedIndex(v, m)
    BY <2>5, Zenon DEF SyncedDisk, SyncedIndex
  <2>10. Effect(ntfsCloseEntry(x, o), v, o, SyncedDisk(v, m), SyncedIndex(v, m), Gone)
    <3> HIDE DEF x
    <3> QED BY <2>5, <2>8, <2>9, Zenon DEF Effect, Others
  <2> HIDE DEF x, n
  <2> QED BY <2>1, <2>4, <2>10, Zenon DEF n
<1> QED BY <1>1, <1>2, Zenon

\* ntfs_close_r leaves the states of other handles but for their links.
LEMMA CloseStates ==
  ASSUME TypeOK, NEW h \in Handles, ntfs_close_r(h)
  PROVE  /\ st' \in [Handles -> StateRecs]
         /\ vd' \in [{"file", "dir"} -> [firstOpen : Links, openCount : Nat]]
         /\ \A g \in Handles \ {h} : st'[g].ni = st[g].ni /\ st'[g].write = st[g].write
<1> DEFINE r == Unlinked("file", h)
<1>1. /\ r \in [Handles -> StateRecs] /\ Marks(st, r)
  BY UnlinkedIs
<1>2. st' = [r EXCEPT ![h] = NoState]
  BY DEF ntfs_close_r
<1>3. NoState \in StateRecs
  BY DEF NoState, State, StateRecs, Links
<1> HIDE DEF r
<1>4. st' \in [Handles -> StateRecs]
  BY <1>1, <1>2, <1>3
<1>5. \A g \in Handles \ {h} : st'[g] = r[g]
  BY <1>1, <1>2
<1>6. vd' \in [{"file", "dir"} -> [firstOpen : Links, openCount : Nat]]
  <2> DEFINE first == IF st[h].prev = None THEN st[h].next ELSE vd["file"].firstOpen
             count == u16(vd["file"].openCount - 1)
  <2>1. vd' = [vd EXCEPT !["file"] = [firstOpen |-> first, openCount |-> count]]
    BY DEF ntfs_close_r
  <2>2. st[h] \in StateRecs /\ vd["file"] \in [firstOpen : Links, openCount : Nat]
    BY DEF TypeOK
  <2>3. first \in Links
    BY <2>2 DEF StateRecs
  <2>4. vd["file"].openCount - 1 \in Int
    BY <2>2
  <2>5. count \in Nat
    BY <2>4, U16Mod
  <2> HIDE DEF first, count
  <2> QED BY <2>1, <2>3, <2>5 DEF TypeOK
<1> QED BY <1>1, <1>4, <1>5, <1>6 DEF Marks

\* NtfsCloseFile of a file keeps the invariant.
LEMMA CloseFileKeeps ==
  ASSUME IInv, ops' = ops, NEW h \in Held, ~Refused(h), Intact(h), NtfsCloseFile(h), hd[h].type = "file"
  PROVE  IInv'
<1> DEFINE f == hd[h].file
           o == hd[h].ni
           n == w.ni[o]
<1>1. TypeOK /\ HandlesOwn /\ InSync /\ OpenListsExact
  BY DEF IInv
<1>2. h \in Handles /\ o \in Objs /\ o # 0 /\ f \in Files /\ f # Root /\ w \in Volumes /\ newest \in [Files -> Nat]
  BY <1>1, HandleIs, Zenon DEF HandlesOwn, TypeOK
<1>3. n \in Inodes /\ n.mft = f
  BY <1>1, IntactIs
<1>4. /\ HasRoom(w, 1) /\ w' = ntfsCloseFile(w, h) /\ ntfs_close_r(h) /\ hd' = [hd EXCEPT ![h] = None]
      /\ root' = root /\ lock' = lock /\ newest' = newest
  BY DEF NtfsCloseFile
<1>5. st[h].ni = o
  BY <1>1, Zenon DEF HandlesOwn
<1>6. \/ n.dirty = {} /\ Effect(w', w, o, w.disk, w.index, Gone)
      \/ \E m \in Inodes : /\ m.mft = n.mft /\ m.base = n.base
                           /\ (n.dirty # {} => n.name_dirty) => m.name_dirty
                           /\ Effect(w', w, o, SyncedDisk(w, m), SyncedIndex(w, m), Gone)
  <2>1. n.mft # Root
    BY <1>2, <1>3
  <2> QED BY <1>2, <1>3, <1>4, <1>5, <2>1, CloseFileEffect, Zenon
<1> HIDE DEF n
<1>7. /\ w' \in Volumes /\ w'.mftbmp = w.mftbmp /\ w'.ni[o] = Gone /\ Others(w'.ni, w.ni, o)
  BY <1>6, Zenon DEF Effect
<1>8. /\ \A x \in Files \ {f} : w'.disk[x].base = w.disk[x].base /\ w'.index[x] = w.index[x]
      /\ \/ n.dirty = {} /\ w'.disk[f].base = w.disk[f].base /\ w'.index[f] = w.index[f]
         \/ /\ w'.disk[f].base = n.base
            /\ (n.dirty # {} => n.name_dirty) /\ n.base # 0 => w'.index[f] = n.base
  <2>1. CASE n.dirty = {} /\ Effect(w', w, o, w.disk, w.index, Gone)
    BY <2>1, Zenon DEF Effect
  <2>2. ASSUME NEW m \in Inodes, m.mft = n.mft /\ m.base = n.base,
               (n.dirty # {} => n.name_dirty) => m.name_dirty,
               Effect(w', w, o, SyncedDisk(w, m), SyncedIndex(w, m), Gone)
        PROVE  /\ \A x \in Files \ {f} : w'.disk[x].base = w.disk[x].base /\ w'.index[x] = w.index[x]
               /\ w'.disk[f].base = n.base
               /\ (n.dirty # {} => n.name_dirty) /\ n.base # 0 => w'.index[f] = n.base
    <3>1. w'.disk = SyncedDisk(w, m) /\ w'.index = SyncedIndex(w, m)
      BY <2>2, Zenon DEF Effect
    <3>2. /\ SyncedDisk(w, m)[m.mft].base = m.base
          /\ \A x \in Files \ {m.mft} : SyncedDisk(w, m)[x].base = w.disk[x].base
          /\ SyncedIndex(w, m)[m.mft] = IF Named(m) THEN m.base ELSE w.index[m.mft]
          /\ \A x \in Files \ {m.mft} : SyncedIndex(w, m)[x] = w.index[x]
      BY <1>2, SyncedIs, Zenon
    <3>3. (n.dirty # {} => n.name_dirty) /\ n.base # 0 => Named(m)
      BY <2>2, Zenon DEF Named
    <3> QED BY ONLY <1>3, <2>2, <3>1, <3>2, <3>3, Zenon
  <2> QED BY <1>6, <2>1, <2>2, Zenon
<1>9. Usage(h)
  BY <1>2, <1>4, <1>7, Zenon DEF Usage
<1>10. OnlyFile(f)
  BY <1>4, <1>7, <1>8, Zenon DEF OnlyFile
<1>11. Leaves(h)
  <2>1. /\ st' \in [Handles -> StateRecs]
        /\ vd' \in [{"file", "dir"} -> [firstOpen : Links, openCount : Nat]]
        /\ \A g \in Handles \ {h} : st'[g].ni = st[g].ni /\ st'[g].write = st[g].write
    BY <1>1, <1>2, <1>4, CloseStates, Zenon
  <2> QED BY <1>4, <1>7, <2>1, Zenon DEF Leaves
<1>12. OpenListsExact'
  <2>1. h \in Opened("file") /\ h \notin Opened("dir")
    BY <1>2, <1>5 DEF Opened
  <2>2. Held' = Held \ {h} /\ \A g \in Handles \ {h} : hd'[g] = hd[g] /\ st'[g].ni = st[g].ni
    BY <1>1, <1>4, <1>11, LeftIs, Zenon DEF Leaves
  <2>3. \A t \in {"file", "dir"} : Opened(t)' = Opened(t) \ {h}
    BY <2>2 DEF Opened, Held
  <2>4. Opened("file")' = Opened("file") \ {h} /\ Opened("dir")' = Opened("dir")
    BY <2>1, <2>3
  <2> QED BY <1>1, <1>4, <2>1, <2>4, ListsRemove
<1>13. ASSUME Never({"flush root", "open twice"})
       PROVE  /\ f \in w'.mftbmp => newest'[f] # 0 /\ w'.disk[f].base = newest'[f] /\ w'.index[f] = newest'[f]
              /\ f \in w'.mftbmp <=> w'.index[f] # 0
  <2>1. f \in w.mftbmp /\ newest[f] # 0 /\ w.index[f] # 0 /\ Coherent(h)
    BY <1>1, <1>2, <1>13, Zenon DEF InSync
  <2>2. /\ n.base = newest[f] /\ (n.name_dirty <=> n.dirty # {})
        /\ n.dirty = {} => w.disk[f].base = newest[f] /\ w.index[f] = newest[f]
    BY <2>1 DEF Coherent, Saved, n
  <2>3. w'.index[f] = newest[f] /\ w'.disk[f].base = newest[f]
    BY <1>8, <2>1, <2>2, Zenon
  <2> QED BY <1>4, <1>7, <2>1, <2>3, Zenon
<1> QED BY <1>2, <1>9, <1>10, <1>11, <1>12, <1>13, LeavingKeeps, Zenon

\* The file is deleted through an inode of its own, which is freed at the end.
LEMMA DeletedIs ==
  ASSUME NEW v \in Volumes, HasRoom(v, 3), NEW f \in Files \ {Root}
  PROVE  LET u == Delete(AfterOpen(v, f), OpenedNi(v, f))
         IN  /\ u \in Volumes /\ u.mftbmp = v.mftbmp \ {f}
             /\ u.index[f] = 0
             /\ \A x \in Files \ {f} : u.disk[x].base = v.disk[x].base /\ u.index[x] = v.index[x]
             /\ \A p \in Objs : u.ni[p] = v.ni[p]
<1> DEFINE o == Fresh(v)
           n == NewInode(v, f)
           y == AfterOpen(v, f)
           u == Delete(y, o)
<1>1. f \in Files /\ 3 \in Nat \ {0} /\ 1 \in Nat /\ 0 \in Nat /\ 1 + 1 = 2
  OBVIOUS
<1>2. o \in Objs /\ v.ni[o] = Gone /\ OpenedNi(v, f) = o /\ Changes(y, v, o, n) /\ n \in Inodes
  BY <1>1, OpenChanges, Zenon
<1>3. n.mft = f
  BY DEF NewInode
<1>4. /\ y \in Volumes /\ y.disk = v.disk /\ y.index = v.index /\ y.mftbmp = v.mftbmp
      /\ y.ni[o] = n /\ Others(y.ni, v.ni, o)
  BY <1>2, Zenon DEF Changes, Effect
<1>5. HasRoom(v, 1 + 1)
  BY <1>1, LessRoom
<1>6. HasRoom(y, 1)
  BY <1>1, <1>5, RoomAfterOpen, Zenon
<1> HIDE DEF o, n, y
<1>7. /\ u \in Volumes
      /\ u.disk = WithRecord(y, f, 0) /\ u.index = WithIndex(y, f, 0)
      /\ u.mftbmp = y.mftbmp \ {f}
      /\ u.ni[o] = Gone /\ Others(u.ni, y.ni, o)
  <2>1. y.ni[o] \in Inodes /\ y.ni[o].mft = f /\ f # Root
    BY <1>2, <1>3, <1>4
  <2>2. /\ u \in Volumes
        /\ u.disk = [y.disk EXCEPT ![y.ni[o].mft].base = 0] /\ u.index = WithIndex(y, y.ni[o].mft, 0)
        /\ u.mftbmp = y.mftbmp \ {y.ni[o].mft}
        /\ u.ni[o] = Gone /\ Others(u.ni, y.ni, o)
    BY <1>2, <1>4, <1>6, <2>1, DeleteEffect, Zenon
  <2> QED BY <2>1, <2>2, Zenon DEF WithRecord, WithIndex
<1> HIDE DEF u
<1>8. u.index[f] = 0 /\ \A x \in Files \ {f} : u.disk[x].base = v.disk[x].base /\ u.index[x] = v.index[x]
  BY <1>1, <1>4, <1>7, RecordIs, IndexIs
<1>9. \A p \in Objs : u.ni[p] = v.ni[p]
  BY <1>2, <1>4, <1>7 DEF Others
<1> QED BY <1>2, <1>4, <1>7, <1>8, <1>9, Zenon DEF u, y

\* NtfsDeleteFile of a file keeps the invariant.
LEMMA DeleteFileKeeps ==
  ASSUME IInv, ops' = ops, NEW h \in Held, ~Refused(h), Intact(h), NtfsDeleteFile(h), hd[h].type = "file"
  PROVE  IInv'
<1> DEFINE f == hd[h].file
           o == hd[h].ni
<1>1. TypeOK /\ HandlesOwn /\ InSync
  BY DEF IInv
<1>2. h \in Handles /\ o \in Objs /\ f \in Files \ {Root} /\ w \in Volumes /\ newest \in [Files -> Nat]
  BY <1>1, HandleIs, Zenon DEF HandlesOwn, TypeOK
<1>3. /\ May("delete") /\ HasRoom(w, 3) /\ hd' = [hd EXCEPT ![h] = None]
      /\ w' = IF f # Root /\ Found(w, f) THEN Delete(AfterOpen(LookUp(w), f), OpenedNi(LookUp(w), f)) ELSE w
      /\ root' = root /\ lock' = lock /\ newest' = newest /\ st' = st /\ vd' = vd
  BY Zenon DEF NtfsDeleteFile
<1>4. LookUp(w) = w /\ (Found(w, f) <=> w.index[f] # 0)
  <2>1. 3 \in Nat \ {0} /\ f \in Files
    BY <1>2
  <2> QED BY <1>2, <1>3, <2>1, LookUpIsIdle, Zenon
<1>5. w' = IF w.index[f] # 0 THEN Delete(AfterOpen(w, f), OpenedNi(w, f)) ELSE w
  <2>1. f # Root
    BY <1>2
  <2> QED BY <1>3, <1>4, <2>1, Zenon
<1>6. /\ w' \in Volumes
      /\ \A x \in Files \ {f} : /\ w'.disk[x].base = w.disk[x].base /\ w'.index[x] = w.index[x]
                                /\ x \in w'.mftbmp <=> x \in w.mftbmp
      /\ \A p \in Objs : w'.ni[p] = w.ni[p]
      /\ w.index[f] # 0 => f \notin w'.mftbmp /\ w'.index[f] = 0
  <2>1. CASE w.index[f] # 0
    <3> DEFINE u == Delete(AfterOpen(w, f), OpenedNi(w, f))
    <3>1. /\ u \in Volumes /\ u.mftbmp = w.mftbmp \ {f}
          /\ u.index[f] = 0
          /\ \A x \in Files \ {f} : u.disk[x].base = w.disk[x].base /\ u.index[x] = w.index[x]
          /\ \A p \in Objs : u.ni[p] = w.ni[p]
      BY <1>2, <1>3, DeletedIs, Zenon
    <3>2. w' = u
      BY <1>5, <2>1, Zenon
    <3> HIDE DEF u
    <3> QED BY <3>1, <3>2
  <2>2. CASE w.index[f] = 0
    BY <1>2, <1>5, <2>2, Zenon
  <2> QED BY <2>1, <2>2
<1>7. Usage(h)
  <2>1. Others(w'.ni, w.ni, o)
    BY <1>6 DEF Others
  <2> QED BY <1>2, <1>3, <1>6, <2>1, Zenon DEF Usage
<1>8. OnlyFile(f)
  BY <1>3, <1>6, Zenon DEF OnlyFile
<1>9. Leaves(h)
  <2>1. w'.ni[o] \in {Gone, w.ni[o]}
    BY <1>2, <1>6
  <2> QED BY <1>1, <1>3, <2>1, Zenon DEF Leaves, TypeOK
<1>10. OpenListsExact'
  BY <1>3, Zenon DEF OpenListsExact, Never, May
<1>11. ASSUME Never({"flush root", "open twice"})
       PROVE  f \notin w'.mftbmp /\ w'.index[f] = 0
  <2>1. f \in w.mftbmp /\ w.index[f] # 0
    BY <1>1, <1>2, <1>11, Zenon DEF InSync
  <2> QED BY <1>6, <2>1
<1> QED BY <1>2, <1>7, <1>8, <1>9, <1>10, <1>11, LeavingKeeps, Zenon

-----------------------------------------------------------------------------
\* Handle h of the root directory is used.
DirectoryUse(h) ==
  /\ h \in Held /\ hd[h].type = "dir" /\ Intact(h)
  /\ root' = root /\ lock' = lock /\ newest' = newest
  /\ w' \in Volumes /\ Others(w'.ni, w.ni, hd[h].ni)
  /\ w'.ni[hd[h].ni] # Gone => w'.ni[hd[h].ni].mft = Root /\ w'.ni[hd[h].ni].dirty = {}
  /\ hd' = hd \/ hd' = [hd EXCEPT ![h] = None]
  /\ st' \in [Handles -> StateRecs] /\ vd' \in [{"file", "dir"} -> [firstOpen : Links, openCount : Nat]]
  /\ \A g \in Handles \ {h} : st'[g].ni = st[g].ni /\ st'[g].write = st[g].write
  /\ st'[h].ni \in {0, hd[h].ni}

\* Its inode is clean.
LEMMA DirectoryIs ==
  ASSUME IInv, NEW h \in Held, hd[h].type = "dir", Intact(h), NEW o, o = hd[h].ni
  PROVE  /\ hd[h].file = Root /\ o \in Objs /\ o # 0 /\ st[h].ni \in {0, o}
         /\ w.ni[o] \in Inodes /\ w.ni[o].mft = Root /\ w.ni[o].dirty = {} /\ w.ni[o] # Gone
<1>1. TypeOK /\ HandlesOwn /\ RootIsClean
  BY DEF IInv
<1>2. hd[h].file = Root /\ o \in Objs /\ o # 0 /\ st[h].ni \in {0, o}
  BY <1>1, HandleIs, Zenon DEF HandlesOwn
<1>3. w.ni[o] \in Inodes /\ w.ni[o].mft = Root
  BY <1>1, <1>2, IntactIs
<1>4. w.ni[o] # Gone
  BY <1>3, LiveInode
<1>5. w.ni[o].dirty = {}
  BY <1>1, <1>2, <1>3, <1>4 DEF RootIsClean, Live
<1> QED BY <1>2, <1>3, <1>4, <1>5

\* Only that inode may change.
LEMMA DirectoryKeeps ==
  ASSUME IInv, ops' = ops, NEW h \in Handles, DirectoryUse(h), OpenListsExact',
         Never({"close root", "list deleted"}) =>
           w'.ni[hd[h].ni] # Gone \/ (h \notin Held' /\ hd[h].ni # root),
         Never({"flush root", "open twice"}) => w'.disk = w.disk /\ w'.index = w.index /\ w'.mftbmp = w.mftbmp
  PROVE  IInv'
<1> DEFINE o == hd[h].ni
<1>1. TypeOK /\ RootIsClean /\ HandlesOwn /\ RootsLive /\ InSync
  BY Zenon DEF IInv
<1>2. /\ h \in Held /\ hd[h].type = "dir" /\ Intact(h)
      /\ root' = root /\ lock' = lock /\ newest' = newest
      /\ w' \in Volumes /\ Others(w'.ni, w.ni, o)
      /\ w'.ni[o] # Gone => w'.ni[o].mft = Root /\ w'.ni[o].dirty = {}
  BY Zenon DEF DirectoryUse
<1>3. /\ hd' = hd \/ hd' = [hd EXCEPT ![h] = None]
      /\ st' \in [Handles -> StateRecs] /\ vd' \in [{"file", "dir"} -> [firstOpen : Links, openCount : Nat]]
      /\ \A g \in Handles \ {h} : st'[g].ni = st[g].ni /\ st'[g].write = st[g].write
      /\ st'[h].ni \in {0, o}
  BY Zenon DEF DirectoryUse
<1>4. hd[h].file = Root /\ o \in Objs /\ w.ni[o].mft = Root
  BY <1>2, DirectoryIs, Zenon
<1>5. hd' \in [Handles -> HandleRecs \cup {None}] /\ (\A g \in Handles \ {h} : hd'[g] = hd[g])
      /\ (h \in Held' => hd'[h] = hd[h])
  BY <1>1, <1>2, <1>3, LeftIs, Zenon DEF TypeOK, Held
<1>6. TypeOK'
  BY <1>1, <1>2, <1>3, <1>5, Zenon DEF TypeOK
<1>7. RootIsClean'
  BY <1>1, <1>2, <1>4, RootCleanKeeps, Zenon
<1>8. \A g \in Handles \ {h} : Same(g) /\ (Usable(g) => w'.ni[hd[g].ni] = w.ni[hd[g].ni])
  <2>1. \A g \in Handles : Usable(g) => w'.ni[hd[g].ni] = w.ni[hd[g].ni]
    BY <1>1, <1>2, <1>4, InodeApart, Zenon
  <2> QED BY <1>3, <1>5, <2>1, Zenon DEF Same
<1>9. HandlesOwn'
  <2>1. ~Usable(h)'
    BY <1>2, <1>5, Zenon DEF Usable
  <2>2. h \in Held' => hd'[h].type = "dir" /\ hd'[h].file = Root /\ st'[h].ni \in {0, hd'[h].ni}
    BY <1>2, <1>3, <1>4, <1>5, Zenon
  <2> QED BY <1>1, <1>2, <1>8, <2>1, <2>2, OwnKeeps, Zenon
<1>11. RootsLive'
  <2>1. Never({"close root", "list deleted"})' <=> Never({"close root", "list deleted"})
    BY Zenon DEF Never
  <2>2. \A g \in Held' : g \in Held /\ hd'[g] = hd[g] /\ hd[g].ni \in Objs
    BY <1>1, <1>5, <1>2, Zenon DEF Held, TypeOK, HandleRecs
  <2>3. \A x \in Objs : x # o \/ w'.ni[o] # Gone => (IsRoot(x) => IsRoot(x)')
    BY <1>2, Zenon DEF IsRoot, Others
  <2>4. root # 0 => root \in Objs
    BY <1>1 DEF TypeOK
  <2> SUFFICES ASSUME Never({"close root", "list deleted"})
               PROVE  /\ root' # 0 => IsRoot(root)'
                      /\ \A g \in Held' : hd'[g].type = "dir" => IsRoot(hd[g].ni)'
                      /\ \A g, k \in Held' : hd'[g].type = "dir" /\ hd'[k].type = "dir" /\ hd'[g].ni = hd'[k].ni =>
                                             g = k \/ hd'[g].ni = root'
    BY <2>1, Zenon DEF RootsLive
  <2>5. root' # 0 => IsRoot(root)'
    BY <1>1, <1>2, <2>3, <2>4, Zenon DEF RootsLive, IsRoot
  <2>6. ASSUME NEW g \in Held', hd'[g].type = "dir" PROVE IsRoot(hd[g].ni)'
    <3>1. hd[g].ni # o \/ w'.ni[o] # Gone
      BY <1>1, <1>2, <2>2, <2>6, Zenon DEF RootsLive
    <3> QED BY <1>1, <2>2, <2>3, <2>6, <3>1, Zenon DEF RootsLive, IsRoot
  <2>7. \A g, k \in Held' : hd'[g].type = "dir" /\ hd'[k].type = "dir" /\ hd'[g].ni = hd'[k].ni =>
                            g = k \/ hd'[g].ni = root'
    BY <1>1, <1>2, <2>2, Zenon DEF RootsLive
  <2> QED BY <2>5, <2>6, <2>7, Zenon
<1>10. InSync'
  <2>1. CASE Never({"flush root", "open twice"})
    <3>1. w'.disk = w.disk /\ w'.index = w.index /\ w'.mftbmp = w.mftbmp
      BY <2>1, Zenon
    <3>2. h \in Held' => hd'[h].type = "dir" /\ hd'[h].file = Root
      BY <1>2, <1>4, <1>5, Zenon
    <3> QED BY <1>1, <1>2, <1>8, <3>1, <3>2, SyncIdle, Zenon
  <2>2. CASE ~Never({"flush root", "open twice"})
    BY <2>2, Zenon DEF InSync, Never
  <2> QED BY <2>1, <2>2, Zenon
<1> QED BY <1>6, <1>7, <1>9, <1>10, <1>11, Zenon DEF IInv

\* NtfsDeleteFile of the directory only gives the handle back.
LEMMA DeleteDirectoryKeeps ==
  ASSUME IInv, ops' = ops, NEW h \in Held, Intact(h), NtfsDeleteFile(h), hd[h].type = "dir"
  PROVE  IInv'
<1> DEFINE o == hd[h].ni
<1>1. TypeOK /\ h \in Handles
  BY DEF IInv, Held
<1>2. /\ hd[h].file = Root /\ o \in Objs /\ o # 0 /\ st[h].ni \in {0, o}
      /\ w.ni[o] \in Inodes /\ w.ni[o].mft = Root /\ w.ni[o].dirty = {} /\ w.ni[o] # Gone
  BY DirectoryIs, Zenon
<1>3. /\ May("delete") /\ hd' = [hd EXCEPT ![h] = None]
      /\ root' = root /\ lock' = lock /\ newest' = newest /\ st' = st /\ vd' = vd
  BY Zenon DEF NtfsDeleteFile
<1>4. w' = w
  BY <1>2, Zenon DEF NtfsDeleteFile
<1>5. OpenListsExact'
  BY <1>3, Zenon DEF OpenListsExact, Never, May
<1>6. DirectoryUse(h)
  BY <1>1, <1>2, <1>3, <1>4 DEF DirectoryUse, TypeOK, Others
<1> QED BY <1>1, <1>2, <1>4, <1>5, <1>6, DirectoryKeeps, Zenon

\* NtfsFlushFile of the directory keeps the invariant.
LEMMA FlushDirectoryKeeps ==
  ASSUME IInv, ops' = ops, NEW h \in Held, Intact(h), NtfsFlushFile(h), hd[h].type = "dir"
  PROVE  IInv'
<1> DEFINE o == hd[h].ni
           n == w.ni[o]
<1>1. TypeOK /\ h \in Handles /\ OpenListsExact /\ w \in Volumes
  BY DEF IInv, Held, TypeOK
<1>2. /\ hd[h].file = Root /\ o \in Objs /\ o # 0 /\ st[h].ni \in {0, o}
      /\ n \in Inodes /\ n.mft = Root /\ n # Gone
  BY DirectoryIs
<1>3. /\ May("flush root") /\ w' = Sync(w, o, 0, {})
      /\ root' = root /\ lock' = lock /\ newest' = newest /\ hd' = hd /\ st' = st /\ vd' = vd
  BY <1>2, Zenon DEF NtfsFlushFile
<1>4. /\ Effect(w', w, o, SyncedDisk(w, n), n.index, SyncedInode(n))
      /\ SyncedInode(n) \in Inodes /\ SyncedInode(n).dirty = {}
  BY <1>1, <1>2, <1>3, SyncOfRoot, Zenon
<1>5. SyncedInode(n).mft = n.mft
  BY Zenon DEF SyncedInode, WithDirty, WithName
<1>6. w' \in Volumes /\ w'.ni[o] = SyncedInode(n) /\ Others(w'.ni, w.ni, o)
  BY <1>4, Zenon DEF Effect
<1>7. w'.ni[o] # Gone /\ w'.ni[o].mft = Root /\ w'.ni[o].dirty = {}
  BY <1>2, <1>4, <1>5, <1>6, LiveInode, Zenon
<1>8. OpenListsExact'
  <2>1. \A t \in {"file", "dir"} : Opened(t)' = Opened(t)
    BY <1>3, Zenon DEF Opened, Held
  <2> QED BY <1>1, <1>3, <2>1, ListsIdle, Zenon
<1>9. DirectoryUse(h)
  BY <1>1, <1>2, <1>3, <1>6, <1>7, Zenon DEF DirectoryUse, TypeOK
<1>10. ~Never({"flush root", "open twice"})
  BY <1>3, Zenon DEF Never, May
<1> QED BY <1>1, <1>7, <1>8, <1>9, <1>10, DirectoryKeeps, Zenon

\* The inode of a handle of the directory is freed.
LEMMA RootFreed ==
  ASSUME IInv, NEW h \in Held, hd[h].type = "dir", Intact(h), NEW o, o = hd[h].ni, w' = ntfsCloseEntry(w, o)
  PROVE  /\ w' \in Volumes /\ w'.disk = w.disk /\ w'.index = w.index /\ w'.mftbmp = w.mftbmp
         /\ w'.ni[o] = Gone /\ Others(w'.ni, w.ni, o) /\ st[h].ni \in {0, o}
<1>1. w \in Volumes
  BY DEF IInv, TypeOK
<1>2. o \in Objs /\ w.ni[o] \in Inodes /\ w.ni[o].dirty = {} /\ st[h].ni \in {0, o}
  BY DirectoryIs
<1>3. Changes(w', w, o, Gone)
  BY <1>1, <1>2, EntryClosed, Zenon
<1> QED BY <1>2, <1>3, Zenon DEF Changes, Effect

\* NtfsReadFile of a directory that cannot be listed keeps the invariant.
LEMMA ReadDirectoryFailsKeeps ==
  ASSUME IInv, ops' = ops, NEW h \in Held, Intact(h), NtfsReadDirectoryFails(h)
  PROVE  IInv'
<1>1. TypeOK /\ h \in Handles /\ OpenListsExact
  BY DEF IInv, Held
<1>2. /\ May("list deleted") /\ hd[h].type = "dir" /\ w' = ntfsCloseEntry(w, hd[h].ni)
      /\ root' = root /\ lock' = lock /\ newest' = newest /\ hd' = hd /\ st' = st /\ vd' = vd
  BY Zenon DEF NtfsReadDirectoryFails
<1>4. /\ w' \in Volumes /\ w'.disk = w.disk /\ w'.index = w.index /\ w'.mftbmp = w.mftbmp
      /\ w'.ni[hd[h].ni] = Gone /\ Others(w'.ni, w.ni, hd[h].ni) /\ st[h].ni \in {0, hd[h].ni}
  BY <1>2, RootFreed, Zenon
<1>5. OpenListsExact'
  <2>1. \A t \in {"file", "dir"} : Opened(t)' = Opened(t)
    BY <1>2, Zenon DEF Opened, Held
  <2> QED BY <1>1, <1>2, <2>1, ListsIdle, Zenon
<1>6. DirectoryUse(h)
  BY <1>1, <1>2, <1>4, Zenon DEF DirectoryUse, TypeOK
<1>7. ~Never({"close root", "list deleted"})
  BY <1>2, Zenon DEF Never, May
<1> QED BY <1>1, <1>4, <1>5, <1>6, <1>7, DirectoryKeeps, Zenon

\* NtfsCloseFile of the directory keeps the invariant.
LEMMA CloseDirectoryKeeps ==
  ASSUME IInv, ops' = ops, NEW h \in Held, Intact(h), NtfsCloseFile(h), hd[h].type = "dir"
  PROVE  IInv'
<1>1. TypeOK /\ h \in Handles /\ OpenListsExact
  BY DEF IInv, Held
<1>2. /\ (hd[h].ni = root => May("close root")) /\ (st[h].ni # 0 => May("close listed")) /\ w' = ntfsCloseEntry(w, hd[h].ni)
      /\ hd' = [hd EXCEPT ![h] = None]
      /\ root' = root /\ lock' = lock /\ newest' = newest /\ st' = st /\ vd' = vd
  BY Zenon DEF NtfsCloseFile
<1>4. /\ w' \in Volumes /\ w'.disk = w.disk /\ w'.index = w.index /\ w'.mftbmp = w.mftbmp
      /\ w'.ni[hd[h].ni] = Gone /\ Others(w'.ni, w.ni, hd[h].ni) /\ st[h].ni \in {0, hd[h].ni}
  BY <1>2, RootFreed, Zenon
<1>5. OpenListsExact'
  <2>1. CASE st[h].ni # 0
    BY <1>2, <2>1, Zenon DEF OpenListsExact, Never, May
  <2>2. CASE st[h].ni = 0
    <3>1. Held' = Held \ {h} /\ \A g \in Handles \ {h} : hd'[g] = hd[g]
      BY <1>1, <1>2, LeftIs, Zenon
    <3>2. \A t \in {"file", "dir"} : Opened(t)' = Opened(t)
      BY <1>2, <2>2, <3>1, Zenon DEF Opened, Held
    <3> QED BY <1>1, <1>2, <3>2, ListsIdle, Zenon
  <2> QED BY <2>1, <2>2
<1>6. DirectoryUse(h)
  BY <1>1, <1>2, <1>4, Zenon DEF DirectoryUse, TypeOK
<1>7. Never({"close root", "list deleted"}) => h \notin Held' /\ hd[h].ni # root
  BY <1>1, <1>2, LeftIs, Zenon DEF Never, May
<1> QED BY <1>1, <1>4, <1>5, <1>6, <1>7, DirectoryKeeps, Zenon

\* NtfsReadFile of a directory keeps the invariant.
LEMMA ReadDirectoryKeeps ==
  ASSUME IInv, ops' = ops, NEW h \in Held, Intact(h), NtfsReadDirectory(h)
  PROVE  IInv'
<1> DEFINE o == hd[h].ni
           s == [st EXCEPT ![h] = State(o, FALSE)]
<1>1. TypeOK /\ h \in Handles /\ OpenListsExact /\ w \in Volumes /\ st \in [Handles -> StateRecs]
  BY DEF IInv, Held, TypeOK
<1>2. /\ hd[h].type = "dir" /\ st[h].ni = 0 /\ HasRoom(w, 3)
      /\ w' = FoldSet(ntfs_readdir_filler, w, Entries(hd[h].ni))
      /\ st' = Linked([st EXCEPT ![h] = State(hd[h].ni, FALSE)], "dir", h)
      /\ vd' = [vd EXCEPT !["dir"] = [firstOpen |-> h, openCount |-> u16(@.openCount + 1)]]
      /\ root' = root /\ lock' = lock /\ newest' = newest /\ hd' = hd
  BY Zenon DEF NtfsReadDirectory
<1>3. /\ o \in Objs /\ o # 0
      /\ w.ni[o].mft = Root /\ w.ni[o].dirty = {} /\ w.ni[o] # Gone
  BY <1>2, DirectoryIs, Zenon
<1>4. w' = w
  <2>1. Entries(hd[h].ni) \in SUBSET Files /\ 3 \in Nat \ {0}
    BY DEF Entries
  <2> QED BY <1>1, <1>2, <2>1, ListingIsIdle, Zenon
<1>5. st' = Linked(s, "dir", h)
  BY <1>2, <1>3, Zenon
<1>6. s \in [Handles -> StateRecs] /\ s[h].ni = o /\ \A g \in Handles \ {h} : s[g] = st[g]
  <2>1. State(o, FALSE) \in StateRecs /\ State(o, FALSE).ni = o
    BY <1>3 DEF State, StateRecs, Links
  <2> QED BY <1>1, <2>1, Zenon
<1> HIDE DEF s
<1>7. st' \in [Handles -> StateRecs] /\ Marks(s, st')
  BY <1>1, <1>5, <1>6, LinkedIs, Zenon
<1>8. st'[h].ni = o /\ \A g \in Handles \ {h} : st'[g].ni = st[g].ni /\ st'[g].write = st[g].write
  BY <1>1, <1>6, <1>7 DEF Marks
<1>9. vd' \in [{"file", "dir"} -> [firstOpen : Links, openCount : Nat]]
  <2> DEFINE count == u16(vd["dir"].openCount + 1)
  <2>1. vd' = [vd EXCEPT !["dir"] = [firstOpen |-> h, openCount |-> count]]
    BY <1>2
  <2>2. vd["dir"] \in [firstOpen : Links, openCount : Nat]
    BY <1>1 DEF TypeOK
  <2>3. vd["dir"].openCount + 1 \in Int
    BY <2>2
  <2>4. count \in Nat /\ h \in Links
    BY <1>1, <2>3, U16Mod DEF Links
  <2> HIDE DEF count
  <2> QED BY <1>1, <2>1, <2>4 DEF TypeOK
<1>10. OpenListsExact'
  <2>1. h \notin Opened("dir") /\ h \notin Opened("file") /\ Opened("dir") \cap Opened("file") = {}
    BY <1>2, Zenon DEF Opened
  <2>2. Opened("dir")' = Opened("dir") \cup {h}
    BY <1>1, <1>2, <1>3, <1>8, Zenon DEF Opened, Held
  <2>3. Opened("file")' = Opened("file")
    BY <1>1, <1>2, <1>8, Zenon DEF Opened, Held
  <2>4. Other("dir") = "file"
    BY DEF Other
  <2> QED BY <1>1, <1>2, <1>5, <1>6, <2>1, <2>2, <2>3, <2>4, ListsInsert, Zenon
<1>11. DirectoryUse(h)
  BY <1>1, <1>2, <1>3, <1>4, <1>7, <1>8, <1>9, Zenon DEF DirectoryUse, Others
<1> QED BY <1>1, <1>3, <1>4, <1>10, <1>11, DirectoryKeeps, Zenon

-----------------------------------------------------------------------------
\* The invariant holds when a volume has been mounted.
LEMMA InitEstablishes ==
  ASSUME Init
  PROVE  IInv
<1>1. /\ newest = [f \in Files |-> IF f \in Existing \cup {Root} THEN 1 ELSE 0]
      /\ ops \in Environments
      /\ w = Mounted(newest, FALSE) /\ root = 0 /\ lock = FALSE
      /\ hd = [h \in Handles |-> None] /\ st = [h \in Handles |-> NoState]
      /\ vd = [t \in {"file", "dir"} |-> [firstOpen |-> None, openCount |-> 0]]
  BY DEF Init
<1>2. newest \in [Files -> Nat]
  BY <1>1
<1>3. /\ w.disk = [f \in Files |-> [base |-> newest[f], ext |-> 0]]
      /\ w.index = [f \in Files |-> IF f = Root THEN 0 ELSE newest[f]]
      /\ w.mftbmp = {f \in Files : newest[f] # 0}
      /\ w.ni = [o \in Objs |-> Gone]
      /\ w = [disk |-> w.disk, index |-> w.index, mftbmp |-> w.mftbmp, ni |-> w.ni,
              nidata |-> << >>, caching |-> FALSE]
  BY <1>1 DEF Mounted
<1>4. w \in Volumes
  <2>1. w.disk \in Disks
    BY <1>2, <1>3 DEF Disks
  <2>2. w.index \in Indices
    BY <1>2, <1>3 DEF Indices
  <2>3. w.ni \in Memory
    BY <1>3 DEF Memory, Gone, NoIndex, Indices
  <2>4. w.mftbmp \in SUBSET Files
    BY <1>3
  <2>5. \A d \in Disks, i \in Indices, b \in SUBSET Files, m \in Memory :
          [disk |-> d, index |-> i, mftbmp |-> b, ni |-> m, nidata |-> << >>, caching |-> FALSE] \in Volumes
    BY DEF Volumes
  <2> DEFINE r == [disk |-> w.disk, index |-> w.index, mftbmp |-> w.mftbmp, ni |-> w.ni,
                   nidata |-> << >>, caching |-> FALSE]
  <2>6. r \in Volumes
    BY <2>1, <2>2, <2>3, <2>4, <2>5, Zenon
  <2>7. w = r
    BY <1>3, Zenon
  <2> HIDE DEF r
  <2> QED BY <2>6, <2>7
<1>5. Held = {}
  BY <1>1 DEF Held
<1>6. TypeOK
  <2>1. hd \in [Handles -> HandleRecs \cup {None}]
    BY <1>1
  <2>2. st \in [Handles -> StateRecs]
    BY <1>1 DEF NoState, State, StateRecs, Links
  <2>3. vd \in [{"file", "dir"} -> [firstOpen : Links, openCount : Nat]]
    BY <1>1 DEF Links
  <2>4. ops \in SUBSET Ops
    BY <1>1, ProtocolAssumption
  <2> QED BY <1>1, <1>2, <1>4, <2>1, <2>2, <2>3, <2>4, Zenon DEF TypeOK
<1>7. RootIsClean
  BY <1>3 DEF RootIsClean, Live
<1>8. HandlesOwn
  BY <1>5, Zenon DEF HandlesOwn, Usable
<1>11. RootsLive
  BY <1>1, <1>5, Zenon DEF RootsLive
<1>9. InSync
  <2>1. \A f \in Files \ {Root} : w.disk[f].base = newest[f] /\ w.index[f] = newest[f]
                                  /\ (f \in w.mftbmp <=> newest[f] # 0)
    BY <1>3
  <2> QED BY <1>5, <2>1, Zenon DEF InSync, Durable
<1>10. OpenListsExact
  <2>1. \A t \in {"file", "dir"} : Opened(t) = {}
    BY <1>5 DEF Opened
  <2>2. \A t \in {"file", "dir"} : vd[t].firstOpen = None /\ vd[t].openCount = 0
    BY <1>1
  <2>3. \A t \in {"file", "dir"} : ListIsExact(t)
    BY <2>1, <2>2, FS_EmptySet DEF ListIsExact
  <2> QED BY <2>3, Zenon DEF OpenListsExact
<1> QED BY <1>6, <1>7, <1>8, <1>9, <1>10, <1>11 DEF IInv

\* Every call keeps it.
LEMMA NextKeeps ==
  ASSUME IInv, [Next]_vars
  PROVE  IInv'
<1>1. CASE UNCHANGED vars
  <2>1. UNCHANGED <<w, root, hd, vd, st, newest, ops>> /\ lock' = lock
    BY <1>1 DEF vars
  <2> QED BY <2>1, IdleKeeps DEF IInv, TypeOK
<1>2. CASE Next
  <2>1. Call /\ ops' = ops
    BY <1>2 DEF Next
  <2>2. ASSUME NEW h \in Handles \ Held, NtfsOpenVolume(h) PROVE IInv'
    BY <2>1, <2>2, OpenVolumeKeeps
  <2>7. ASSUME NEW h \in Handles \ Held, NtfsOpenRoot(h) PROVE IInv'
    BY <2>1, <2>7, OpenRootKeeps
  <2>3. CASE NtfsOpenVolumeFails
    BY <2>1, <2>3, IdleKeeps, Zenon DEF NtfsOpenVolumeFails
  <2>4. ASSUME NEW h \in Handles \ Held, NEW f \in Files \ {Root}, NEW mode \in {"read", "write", "create"},
               NtfsOpenFile(h, f, mode)
        PROVE  IInv'
    BY <2>1, <2>4, OpenFileKeeps
  <2>5. ASSUME NEW f \in Files \ {Root}, NtfsOpenFileFails(f) PROVE IInv'
    <3>1. w \in Volumes /\ lock \in BOOLEAN /\ 3 \in Nat \ {0} /\ f \in Files
      BY DEF IInv, TypeOK
    <3>2. /\ HasRoom(w, 3) /\ w' = LookUp(w) /\ UNCHANGED <<root, hd, vd, st, lock, newest>>
      BY <2>5 DEF NtfsOpenFileFails
    <3>3. w' = w
      BY <3>1, <3>2, LookUpIsIdle, Zenon
    <3> QED BY <2>1, <3>1, <3>2, <3>3, IdleKeeps
  <2>6. ASSUME NEW h \in Held, ~Refused(h), Intact(h),
               NtfsWriteFile(h) \/ NtfsReadDirectory(h) \/ NtfsReadDirectoryFails(h)
               \/ NtfsFlushFile(h) \/ NtfsCloseFile(h) \/ NtfsDeleteFile(h)
        PROVE  IInv'
    <3>1. hd[h].type \in {"file", "dir"}
      BY HandleIs DEF IInv
    <3>2. CASE NtfsWriteFile(h)
      BY <2>1, <2>6, <3>2, WriteFileKeeps
    <3>3. CASE NtfsReadDirectory(h)
      BY <2>1, <2>6, <3>3, ReadDirectoryKeeps
    <3>4. CASE NtfsReadDirectoryFails(h)
      BY <2>1, <2>6, <3>4, ReadDirectoryFailsKeeps
    <3>5. CASE NtfsFlushFile(h)
      BY <2>1, <2>6, <3>1, <3>5, FlushFileKeeps, FlushDirectoryKeeps
    <3>6. CASE NtfsCloseFile(h)
      BY <2>1, <2>6, <3>1, <3>6, CloseFileKeeps, CloseDirectoryKeeps
    <3>7. CASE NtfsDeleteFile(h)
      BY <2>1, <2>6, <3>1, <3>7, DeleteFileKeeps, DeleteDirectoryKeeps
    <3> QED BY <2>6, <3>2, <3>3, <3>4, <3>5, <3>6, <3>7
  <2> QED BY <2>1, <2>2, <2>3, <2>4, <2>5, <2>6, <2>7 DEF Call
<1> QED BY <1>1, <1>2

\* The invariant says what HandlesSound and FilesDurable say.
LEMMA InvariantImplies ==
  ASSUME IInv
  PROVE  HandlesSound /\ FilesDurable
<1>1. TypeOK /\ HandlesOwn /\ RootsLive /\ InSync /\ OpenListsExact
  BY DEF IInv
<1>2. HandlesLive
  <2> SUFFICES ASSUME Never({"close root", "list deleted", "refuse"})
               PROVE  /\ \A h \in Held : Intact(h)
                      /\ root # 0 => w.ni[root] # Gone /\ w.ni[root].mft = Root
    BY Zenon DEF HandlesLive
  <2>1. Never({"close root", "list deleted"}) /\ ReadOnly = {}
    BY Zenon DEF Never, ReadOnly, May
  <2>2. root # 0 => w.ni[root] # Gone /\ w.ni[root].mft = Root
    BY <1>1, <2>1, Zenon DEF RootsLive, IsRoot
  <2>3. ASSUME NEW h \in Held PROVE Intact(h)
    <3>1. h \in Handles /\ hd[h].ni # 0 /\ hd[h].type \in {"file", "dir"}
      BY <1>1, HandleIs, Zenon
    <3>2. CASE hd[h].type = "file"
      BY <1>1, <2>1, <3>1, <3>2, Zenon DEF HandlesOwn, Usable, Refused
    <3>3. CASE hd[h].type = "dir"
      BY <1>1, <2>1, <3>1, <3>3, Zenon DEF HandlesOwn, RootsLive, IsRoot, Intact
    <3> QED BY <3>1, <3>2, <3>3, Zenon
  <2> QED BY <2>2, <2>3, Zenon
<1>3. FilesDurable
  BY <1>1, Zenon DEF InSync, FilesDurable
<1> QED BY <1>1, <1>2, <1>3 DEF HandlesSound

\* However many handles, files and inodes there are, and in whatever order
\* they are used: the inode of a handle, and the one the volume keeps for its
\* root, are not freed under their holders, unless a handle with that one is
\* closed, an open is refused or a listing meets a dead entry (NtfsOpenFile,
\* ntfsCloseFile, NtfsOpenVolume); and the lists of open files and directories
\* hold the open ones, can be followed both ways and are counted without
\* overflow, unless a file is deleted, an open refused or a listed directory
\* closed (ntfs_open_r, ntfs_close_r).
THEOREM HandlesStaySound == Spec => []HandlesSound
<1>1. IInv /\ [Next]_vars => IInv'
  BY NextKeeps
<1>2. Init => IInv
  BY InitEstablishes
<1>3. IInv => HandlesSound
  BY InvariantImplies
<1> QED BY <1>1, <1>2, <1>3, PTL DEF Spec

\* The record and the directory entry of a file that no handle is open on are
\* those of its last version, unless the root is flushed or a file is opened
\* twice: NtfsCloseFile writes what NtfsWriteFile changed, and no other call,
\* a delete, a refused open or a close of the root among them, undoes it
\* (ntfsCloseFile, ntfs_inode_sync_in_dir, ntfsCreate, ntfsUnlink).
THEOREM ClosedFilesDurable == Spec => []FilesDurable
<1>1. IInv /\ [Next]_vars => IInv'
  BY NextKeeps
<1>2. Init => IInv
  BY InitEstablishes
<1>3. IInv => FilesDurable
  BY InvariantImplies
<1> QED BY <1>1, <1>2, <1>3, PTL DEF Spec

=============================================================================
