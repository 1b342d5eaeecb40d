----------------------------- MODULE AttrRecord -----------------------------
(***************************************************************************)
(* Where the attributes of one inode live: the base mft record, the extent *)
(* records taken when the base is full, and the $ATTRIBUTE_LIST that says  *)
(* which record holds which attribute (ntfs/attrib.c, ntfs/attrlist.c and  *)
(* the attribute part of ntfs/inode.c).                                    *)
(*                                                                         *)
(* The functions call each other in a circle: adding an attribute grows    *)
(* the list, growing the list may move other attributes to new records,    *)
(* and moving them rewrites entries of the list that is growing.  They are *)
(* operators on a state record s and keep the names of the C functions:    *)
(*   s.rec   the attribute records of every mft record, in record order    *)
(*   s.ext   the extent records attached to the inode (ni->extent_nis)     *)
(*   s.has   NInoAttrList(ni);  s.list the in-memory ni->attr_list         *)
(*   s.err   the errno of the last call, "ok" when it returned 0           *)
(*   s.full  no cluster can be allocated while the operation runs          *)
(*   s.pool  extent records neither attached nor lost                      *)
(*   s.torn  a failed addition removed more, or other, than it had added   *)
(*   s.stray the file names a rollback left in records that no list names  *)
(*                                                                         *)
(* Lengths are in units of 24 bytes: a resident header is one unit, a      *)
(* non-resident record with its mapping pairs three, a list entry one.     *)
(***************************************************************************)
EXTENDS Integers, Sequences, FiniteSets, SequencesExt

CONSTANTS Room,        \* units for attributes in an mft record
          Sizes,       \* sizes a data attribute is given
          Environments \* [names, streams, extents, full]: the $FILE_NAME values
                       \* and the names of data attributes in use (0 is the
                       \* unnamed one), the extent records the volume has, and
                       \* whether clusters may run out

VARIABLES in,          \* the inode on disk and in memory, the record s above
          live,        \* what the callers have stored: <<type,name,val,low>> -> size
          env          \* the environment of this behaviour

STD == 1
LIST == 2
NAME == 3
DATA == 8
Unspecified == 99              \* a NULL name, or no value given
Base == 0
NameSize == 3          \* value of a $FILE_NAME
StdSize == 2
NRH == 3               \* offsetof(compressed_size) + 8 bytes of mapping pairs
FreeTarget == 4        \* offsetof(non_resident_end) + 8

Entry(a, r) == [type |-> a.type, name |-> a.name, low |-> a.low,
                mft |-> r, inst |-> a.inst]
Length(a) == IF a.nonres THEN NRH ELSE 1 + a.size
Used(m) ==
  LET Upto[n \in 0..Len(m)] == IF n = 0 THEN 0 ELSE Upto[n - 1] + Length(m[n])
  IN  Upto[Len(m)]
Free(s, r) == Room - Used(s.rec[r])
Failed(s, e) == [s EXCEPT !.err = e]
Succeeded(s) == [s EXCEPT !.err = "ok"]

\* What a caller does next, depending on what the call it made returned.
Then(s, Go(_)) == IF s.err = "ok" THEN Go(s) ELSE s
OrElse(s, Undo(_)) == IF s.err = "ok" THEN s ELSE Undo(s)

First(S, n) == IF S = {} THEN n + 1 ELSE Min(S)

\* m->next_attr_instance: a number no attribute of the record has.
NewInstance(m) == CHOOSE k \in 0..Len(m) :
                    /\ \A i \in 1..Len(m) : m[i].inst # k
                    /\ \A j \in 0..(k - 1) : \E i \in 1..Len(m) : m[i].inst = j

\* ntfs_attr_find: the attribute in one record, or where it would be inserted.
NameMatches(name, other) == name = Unspecified \/ name = other
NameBefore(name, other) == name # Unspecified /\ name < other

ntfs_attr_find(m, type, name, val) ==
  LET hit(i)  == /\ m[i].type = type /\ NameMatches(name, m[i].name)
                 /\ val = Unspecified \/ m[i].val = val
      stop(i) == \/ m[i].type > type
                 \/ m[i].type = type /\ NameBefore(name, m[i].name)
                 \/ /\ m[i].type = type /\ NameMatches(name, m[i].name)
                    /\ val # Unspecified /\ val < m[i].val
      located(i) == [found |-> i <= Len(m) /\ hit(i), at |-> i]
  IN located(First({i \in 1..Len(m) : hit(i) \/ stop(i)}, Len(m)))

\* ntfs_external_attr_find: through the list; e is the entry found or the
\* entry before which the attribute would be listed.
Holder(s, e) == LET m == s.rec[s.list[e].mft]
                IN First({i \in 1..Len(m) : m[i].inst = s.list[e].inst}, Len(m))
ComparedAttr(entry, a, val) ==
  IF <<a.type, a.name>> # <<entry.type, entry.name>> THEN "EIO"
  ELSE IF val = Unspecified \/ (~a.nonres /\ a.val = val) THEN "ok" ELSE "next"
ComparedIn(m, i, entry, val) == IF i <= Len(m) THEN ComparedAttr(entry, m[i], val) ELSE "next"
Compared(s, e, type, name, low, val) ==
  LET l == s.list
      stop == \/ l[e].type > type
              \/ l[e].type = type /\ NameBefore(name, l[e].name)
      later == /\ low # 0 /\ e < Len(l) /\ l[e + 1].low <= low
               /\ l[e + 1].type = l[e].type /\ l[e + 1].name = l[e].name
  IN IF stop THEN "ENOENT"
     ELSE IF l[e].type = type /\ NameMatches(name, l[e].name) /\ ~later
     THEN ComparedIn(s.rec[l[e].mft], Holder(s, e), l[e], val)
     ELSE "next"
LookedUp(s, e, res) ==
  IF res = "ok" THEN [res |-> "ok", e |-> e, r |-> s.list[e].mft, i |-> Holder(s, e)]
  ELSE [res |-> res, e |-> e]
ntfs_external_attr_find(s, type, name, low, val) ==
  LET compared(k) == Compared(s, k, type, name, low, val)
      at(e) == LookedUp(s, e, IF e > Len(s.list) THEN "ENOENT" ELSE compared(e))
  IN at(First({e \in 1..Len(s.list) : compared(e) # "next"}, Len(s.list)))

FoundInBase(f) ==
  [res |-> IF f.found THEN "ok" ELSE "ENOENT", e |-> 0, r |-> Base, i |-> f.at]
ntfs_attr_lookup(s, type, name, low, val) ==
  IF s.has /\ type # LIST
  THEN ntfs_external_attr_find(s, type, name, low, val)
  ELSE FoundInBase(ntfs_attr_find(s.rec[Base], type, name, val))

Insert(s, r, i, a) == [s EXCEPT !.rec[r] = InsertAt(@, i, a)]
Drop(s, r, i) == [s EXCEPT !.rec[r] = RemoveAt(@, i)]

\* ntfs_mft_record_alloc and ntfs_mft_record_free for an extent record.
ntfs_mft_record_alloc(s) ==
  LET r == CHOOSE x \in s.pool : \A y \in s.pool : x <= y
  IN IF s.pool = {} THEN Failed(s, "ENOSPC")
     ELSE [s EXCEPT !.err = "ok", !.ext = Append(@, r), !.pool = @ \ {r}]
ntfs_mft_record_free(s, r) ==
  [s EXCEPT !.ext = SelectSeq(@, LAMBDA x : x # r), !.pool = @ \cup {r},
            !.rec[r] = <<>>, !.torn = @ \/ s.rec[r] # <<>>]
FreeIfEmpty(s, r) ==
  IF r # Base /\ s.rec[r] = <<>> THEN ntfs_mft_record_free(s, r) ELSE s

\* Mutant: the entry keeps the instance the attribute had in its old record.
ntfs_attr_record_move_to_OldInstance(s, e, r) ==
  LET src == s.list[e].mft
      i == Holder(s, e)
      a == s.rec[src][i]
      f == ntfs_attr_find(s.rec[r], a.type, a.name, Unspecified)
      k == NewInstance(s.rec[r])
  IN IF src = r THEN Succeeded(s)
     ELSE IF f.found THEN Failed(s, "EEXIST")
     ELSE IF Length(a) > Free(s, r) THEN Failed(s, "ENOSPC")
     ELSE [Drop(Insert(s, r, f.at, [a EXCEPT !.inst = k]), src, i)
             EXCEPT !.err = "ok", !.list[e].mft = r]

\* ntfs_attr_record_move_to: the attribute of entry e goes to record r.
ntfs_attr_record_move_to(s, e, r) ==
  LET src == s.list[e].mft
      i == Holder(s, e)
      a == s.rec[src][i]
      f == ntfs_attr_find(s.rec[r], a.type, a.name, Unspecified)
      k == NewInstance(s.rec[r])
  IN IF src = r THEN Succeeded(s)
     ELSE IF f.found THEN Failed(s, "EEXIST")
     ELSE IF Length(a) > Free(s, r) THEN Failed(s, "ENOSPC")
     ELSE [Drop(Insert(s, r, f.at, [a EXCEPT !.inst = k]), src, i)
             EXCEPT !.err = "ok", !.list[e].mft = r, !.list[e].inst = k]

\* ntfs_attr_record_move_away: to the first extent that takes it, else a new one.
MoveToExtent(s, e, x) ==
  IF x <= Len(s.ext) THEN ntfs_attr_record_move_to(s, e, s.ext[x])
  ELSE Then(ntfs_mft_record_alloc(s),
            LAMBDA n : ntfs_attr_record_move_to(n, e, Last(n.ext)))
ntfs_attr_record_move_away(s, e) ==
  LET a == s.rec[s.list[e].mft][Holder(s, e)]
      takes(x) == /\ s.ext[x] # s.list[e].mft
                  /\ Free(s, s.ext[x]) >= Length(a)
                  /\ ntfs_attr_record_move_to(s, e, s.ext[x]).err = "ok"
  IN MoveToExtent(s, e, First({x \in 1..Len(s.ext) : takes(x)}, Len(s.ext)))

\* ntfs_inode_free_space: attributes after the list leave the base record, in
\* list order, until size units are free there.
RECURSIVE FreeSpaceFrom(_, _, _)
FreeSpaceFrom(s, freed, size) ==
  LET here == {x \in 1..Len(s.list) : s.list[x].type >= NAME /\ s.list[x].mft = Base}
      e == First(here, Len(s.list))
      n == Length(s.rec[Base][Holder(s, e)])
  IN IF size <= freed THEN Succeeded(s)
     ELSE IF here = {} THEN Failed(s, "ENOSPC")
     ELSE Then(ntfs_attr_record_move_away(s, e),
               LAMBDA t : FreeSpaceFrom(t, freed + n, size))
ntfs_inode_free_space(s, size) == FreeSpaceFrom(s, Free(s, Base), size)

\* ntfs_attr_make_non_resident: clusters for the value, then the new record.
ntfs_attr_make_non_resident(s, r, i) ==
  LET a == s.rec[r][i]
  IN IF a.type \notin {LIST, DATA} THEN Failed(s, "EPERM")
     ELSE IF a.size > 0 /\ s.full THEN Failed(s, "ENOSPC")
     ELSE IF NRH - Length(a) > Free(s, r) THEN Failed(s, "ENOSPC")
     ELSE [s EXCEPT !.err = "ok", !.rec[r][i].nonres = TRUE]

\* ntfs_non_resident_attr_expand_i (a hole for data, clusters otherwise) and
\* ntfs_non_resident_attr_shrink (an empty attribute becomes resident).
NonResidentTruncate(s, r, i, newsize) ==
  LET a == s.rec[r][i]
  IN IF newsize > a.size /\ s.full /\ a.type # DATA THEN Failed(s, "ENOSPC")
     ELSE [s EXCEPT !.err = "ok",
                    !.rec[r][i].size = newsize,
                    !.rec[r][i].nonres = newsize > 0 \/ newsize = a.size]

\* The entry of a new attribute is placed after the extent that precedes it.
Place(s, a, l) ==
  IF l.res = "ok" THEN [res |-> IF s.list[l.e].low = a.low THEN "EEXIST" ELSE "ok",
                        at |-> l.e + 1]
  ELSE [res |-> IF l.res = "ENOENT" THEN "ok" ELSE l.res, at |-> l.e]
PlaceInList(s, a) ==
  Place(s, a, ntfs_attr_lookup(s, a.type, a.name, a.low,
                               IF a.nonres THEN Unspecified ELSE a.val))

RECURSIVE ntfs_resident_attr_resize_i(_, _, _, _)
RECURSIVE ntfs_inode_add_attrlist(_)

\* ntfs_attr_truncate_i, the part that chooses between the two forms.
TruncateAt(s, l, type, name, newsize) ==
  LET a == s.rec[l.r][l.i]
  IN IF l.res # "ok" THEN Failed(s, l.res)
     ELSE IF a.size = newsize THEN Succeeded(s)
     ELSE IF a.nonres THEN NonResidentTruncate(s, l.r, l.i, newsize)
     ELSE ntfs_resident_attr_resize_i(s, type, name, newsize)
ntfs_attr_truncate(s, type, name, newsize) ==
  TruncateAt(s, ntfs_attr_lookup(s, type, name, 0, Unspecified), type, name, newsize)

\* ntfs_attrlist_entry_add: the place is found, the entry formed, the list
\* resized (which may move attributes and rewrite entries), then it is inserted.
EntryAddAt(s, p, entry) ==
  IF p.res # "ok" THEN Failed(s, p.res)
  ELSE Then(ntfs_attr_truncate(s, LIST, 0, Len(s.list) + 1),
            LAMBDA t : [t EXCEPT !.list = InsertAt(@, p.at, entry)])
ntfs_attrlist_entry_add(s, r, i) ==
  EntryAddAt(s, PlaceInList(s, s.rec[r][i]), Entry(s.rec[r][i], r))

ntfs_attrlist_entry_rm(s, e) ==
  Then(ntfs_attr_truncate(s, LIST, 0, Len(s.list) - 1),
       LAMBDA t : [t EXCEPT !.list = RemoveAt(@, e)])

\* ntfs_attr_record_resize(m, a, 0) with a pointer kept over the update of the
\* list: it removes what is now at that offset of the record, which is not what
\* was added if attributes before it have moved away to make room for the list.
Offset(m, i) == Used(SubSeq(m, 1, i - 1))
RemoveAtOffset(s, r, o, new) ==
  LET m == s.rec[r]
      at == {i \in 1..Len(m) : Offset(m, i) = o /\ m[i] = new}
  IN IF at # {} THEN Drop(s, r, Min(at)) ELSE [s EXCEPT !.torn = TRUE]

\* ntfs_resident_attr_record_add and ntfs_non_resident_attr_record_add.
RecordAddAt(s, r, new, f) ==
  LET t == Insert(s, r, f.at, [new EXCEPT !.inst = NewInstance(s.rec[r])])
  IN IF f.found THEN Failed(s, "EEXIST")
     ELSE IF Length(new) > Free(s, r) THEN Failed(s, "ENOSPC")
     ELSE IF new.type = LIST \/ ~s.has THEN Succeeded(t)
     ELSE OrElse(ntfs_attrlist_entry_add(t, r, f.at),
                 LAMBDA u : RemoveAtOffset(u, r, Offset(t.rec[r], f.at), t.rec[r][f.at]))
RecordAdd(s, r, new, val) ==
  RecordAddAt(s, r, new, ntfs_attr_find(s.rec[r], new.type, new.name, val))
Resident(type, name, val, size) ==
  [type |-> type, name |-> name, val |-> val, low |-> 0, inst |-> 0,
   size |-> size, nonres |-> FALSE]
NonResident(type, name, low) ==
  [type |-> type, name |-> name, val |-> 0, low |-> low, inst |-> 0,
   size |-> 0, nonres |-> TRUE]
ntfs_resident_attr_record_add(s, r, type, name, val, size) ==
  RecordAdd(s, r, Resident(type, name, val, size), IF val = 0 THEN Unspecified ELSE val)
ntfs_non_resident_attr_record_add(s, r, type, name, low) ==
  Then(RecordAdd(s, r, NonResident(type, name, low), Unspecified),
       LAMBDA t : Failed(t, ntfs_attr_lookup(t, type, name, low, Unspecified).res))

\* ntfs_attr_record_rm: the record, its entry, an extent left empty, and the
\* list itself once every attribute is back in the base record.
RemoveList(s) ==
  [Drop(s, Base, ntfs_attr_find(s.rec[Base], LIST, Unspecified, Unspecified).at)
     EXCEPT !.has = FALSE, !.list = <<>>, !.err = "ok"]
ntfs_attrlist_need(s) == \E e \in 1..Len(s.list) : s.list[e].mft # Base
RemoveListIfIdle(s) == IF s.has /\ ~ntfs_attrlist_need(s) THEN RemoveList(s) ELSE s
RemoveEntry(s, l) == IF s.has THEN ntfs_attrlist_entry_rm(s, l.e) ELSE Succeeded(s)
ntfs_attr_record_rm(s, l) ==
  Then(RemoveEntry(Drop(s, l.r, l.i), l),
       LAMBDA u : RemoveListIfIdle(FreeIfEmpty(u, l.r)))

\* ntfs_inode_add_attrlist: list what the base record holds, make room for the
\* list attribute, add it empty and resize it; on an error take it all back.
RECURSIVE Rollback(_, _)
MoveBack(s, l) == IF l.res = "ok" THEN ntfs_attr_record_move_to(s, l.e, Base) ELSE s
Outside(s) ==
  {s.rec[r][i] : <<r, i>> \in {<<q, j>> \in (DOMAIN s.rec \ {Base}) \X (1..Room) :
                                j <= Len(s.rec[q])}}
Rollback(s, e) ==
  IF e > Len(s.list)
  THEN [s EXCEPT !.has = FALSE, !.list = <<>>,
                 !.stray = {a.val : a \in {x \in Outside(s) : x.type = NAME}}]
  ELSE IF s.list[e].mft = Base THEN Rollback(s, e + 1)
  ELSE Rollback(MoveBack(s, ntfs_attr_lookup(s, s.list[e].type, s.list[e].name,
                                             s.list[e].low, Unspecified)), e + 1)
Undone(s) == Failed(Rollback(s, 1), s.err)
RemoveListRecord(s) ==
  Drop(s, Base, ntfs_attr_find(s.rec[Base], LIST, Unspecified, Unspecified).at)
RoomForList(s) == IF Free(s, Base) < 1 THEN ntfs_inode_free_space(s, 1) ELSE s
FillList(s) ==
  IF s.err # "ok" THEN Undone(s)
  ELSE OrElse(ntfs_attr_truncate(s, LIST, 0, Len(s.list)),
              LAMBDA t : Undone(RemoveListRecord(t)))
AddList(s) ==
  IF s.err # "ok" THEN Undone(s)
  ELSE FillList(ntfs_resident_attr_record_add(s, Base, LIST, 0, 0, 0))
ntfs_inode_add_attrlist(s) ==
  LET al == FoldLeft(LAMBDA l, a : Append(l, Entry(a, Base)), <<>>, s.rec[Base])
  IN IF s.has \/ s.ext # <<>> THEN Failed(s, "EEXIST")
     ELSE AddList(RoomForList([s EXCEPT !.has = TRUE, !.list = al, !.err = "ok"]))

\* ntfs_resident_attr_resize_i: in place; else non-resident; else another
\* attribute of the base record non-resident; else move attributes out of the
\* base record (for the list and $STANDARD_INFORMATION) or this one to a new
\* record; and try again each time.
Converted(s) ==
  LET m == s.rec[Base]
      able == {j \in 1..Len(m) :
                 /\ ~m[j].nonres /\ Length(m[j]) > NRH
                 /\ ntfs_attr_make_non_resident(s, Base, j).err = "ok"}
  IN IF able # {} THEN ntfs_attr_make_non_resident(s, Base, Min(able))
     ELSE Failed(s, "ENOENT")
MakeRoom(s, l, type) ==
  IF Converted(s).err = "ok" THEN Converted(s)
  ELSE IF type \in {STD, LIST} THEN ntfs_inode_free_space(s, FreeTarget)
  ELSE IF Len(s.rec[l.r]) = 1 THEN Failed(s, "ENOSPC")
  ELSE IF ~s.has THEN ntfs_inode_add_attrlist(s)
  ELSE Then(ntfs_mft_record_alloc(s),
            LAMBDA x : ntfs_attr_record_move_to(x, l.e, Last(x.ext)))
ResizeAt(s, l, type, name, newsize) ==
  LET n == ntfs_attr_make_non_resident(s, l.r, l.i)
  IN IF newsize < Room /\ newsize - s.rec[l.r][l.i].size <= Free(s, l.r)
     THEN [s EXCEPT !.err = "ok", !.rec[l.r][l.i].size = newsize]
     ELSE IF n.err = "ok" THEN NonResidentTruncate(n, l.r, l.i, newsize)
     ELSE Then(MakeRoom(s, l, type),
               LAMBDA t : ntfs_resident_attr_resize_i(t, type, name, newsize))
ntfs_resident_attr_resize_i(s, type, name, newsize) ==
  ResizeAt(s, ntfs_attr_lookup(s, type, name, 0, Unspecified), type, name, newsize)

\* ntfs_attr_add: in the base record if it fits, else in the first extent with
\* room, else in a new extent (adding the list first); non-resident when the
\* resident record does not fit after all.
Settled(s, r) == OrElse(s, LAMBDA t : Failed(FreeIfEmpty(t, r), t.err))
RECURSIVE ntfs_attr_rm(_, _, _)
RemoveFound(s, l, type, name) ==
  IF l.res = "ok" THEN ntfs_attr_rm(ntfs_attr_record_rm(s, l), type, name)
  ELSE IF l.res = "ENOENT" THEN Succeeded(s) ELSE Failed(s, l.res)
ntfs_attr_rm(s, type, name) ==
  RemoveFound(s, ntfs_attr_lookup(s, type, name, 0, Unspecified), type, name)
Filled(s, type, name) ==
  IF s.err = "ok" THEN s ELSE Failed(ntfs_attr_rm(s, type, name), s.err)
FillNonResident(s, r, type, name, size) ==
  IF s.err # "ok" \/ size = 0 THEN Settled(s, r)
  ELSE Filled(ntfs_attr_truncate(s, type, name, size), type, name)
AddNonResident(s, r, type, name, size) ==
  FillNonResident(ntfs_non_resident_attr_record_add(s, r, type, name, 0),
                  r, type, name, size)
Added(s, r, type, name, size) ==
  IF s.err = "ENOSPC" /\ type = DATA THEN AddNonResident(s, r, type, name, size)
  ELSE Settled(s, r)
AddTo(s, r, type, name, val, size) ==
  IF s.err # "ok" THEN s
  ELSE Added(ntfs_resident_attr_record_add(s, r, type, name, val, size), r, type, name, size)
RECURSIVE ntfs_attr_add(_, _, _, _, _)
ntfs_attr_add(s, type, name, val, size) ==
  LET able == {r \in {Base} \cup Range(s.ext) : Free(s, r) >= 1 + size}
      x == First({k \in 1..Len(s.ext) : s.ext[k] \in able}, Len(s.ext))
      t == IF able = {} THEN ntfs_mft_record_alloc(s) ELSE s
      r == IF Base \in able THEN Base ELSE IF able # {} THEN s.ext[x] ELSE Last(t.ext)
  IN IF able = {} /\ ~s.has
     THEN Then(ntfs_inode_add_attrlist(s),
               LAMBDA h : ntfs_attr_add(h, type, name, val, size))
     ELSE AddTo(t, r, type, name, val, size)

\* ntfs_attr_update_mapping_pairs_i, what it does to the records: an extent
\* for the mapping pairs that do not fit, or the removal of such an extent.
AddExtentTo(s, name) ==
  IF s.err # "ok" THEN s
  ELSE OrElse(ntfs_non_resident_attr_record_add(s, Last(s.ext), DATA, name, 1),
              LAMBDA t : Failed(ntfs_mft_record_free(t, Last(s.ext)), t.err))
RECURSIVE AddExtent(_, _)
AddExtent(s, name) ==
  IF ~s.has
  THEN Then(ntfs_inode_add_attrlist(s), LAMBDA h : AddExtent(h, name))
  ELSE AddExtentTo(ntfs_mft_record_alloc(s), name)

\* What a caller's operation does to the inode and to what it has stored.
Run(s, then) ==
  /\ in' = [s EXCEPT !.err = "ok", !.full = FALSE]
  /\ live' = IF s.err = "ok" THEN then ELSE live
  /\ UNCHANGED env
Start(full) == [in EXCEPT !.full = full]
Key(type, name, val, low) == <<type, name, val, low>>
With(k, size) == [x \in DOMAIN live \cup {k} |-> IF x = k THEN size ELSE live[x]]
Without(K) == [x \in DOMAIN live \ K |-> live[x]]

AddStream(name, size, full) ==
  /\ Key(DATA, name, 0, 0) \notin DOMAIN live
  /\ Run(ntfs_attr_add(Start(full), DATA, name, 0, size), With(Key(DATA, name, 0, 0), size))

AddName(val, full) ==
  /\ Key(NAME, 0, val, 0) \notin DOMAIN live
  /\ Run(ntfs_attr_add(Start(full), NAME, 0, val, NameSize), With(Key(NAME, 0, val, 0), NameSize))

RemoveStream(name, full) ==
  /\ Key(DATA, name, 0, 0) \in DOMAIN live
  /\ Run(ntfs_attr_rm(Start(full), DATA, name), Without({<<DATA, name, 0, l>> : l \in 0..1}))

\* ntfs_delete removes one of several names with ntfs_attr_record_rm.
RemoveOne(s, l) == IF l.res = "ok" THEN ntfs_attr_record_rm(s, l) ELSE Failed(s, l.res)
RemoveName(val, full) ==
  /\ Cardinality({k \in DOMAIN live : k[1] = NAME}) > 1
  /\ Key(NAME, 0, val, 0) \in DOMAIN live
  /\ Run(RemoveOne(Start(full), ntfs_attr_lookup(Start(full), NAME, 0, 0, val)),
         Without({Key(NAME, 0, val, 0)}))

Resize(name, size, full) ==
  /\ Key(DATA, name, 0, 0) \in DOMAIN live /\ Key(DATA, name, 0, 1) \notin DOMAIN live
  /\ live[Key(DATA, name, 0, 0)] # size
  /\ Run(ntfs_attr_truncate(Start(full), DATA, name, size), With(Key(DATA, name, 0, 0), size))

Extend(name, full) ==
  /\ Key(DATA, name, 0, 0) \in DOMAIN live /\ Key(DATA, name, 0, 1) \notin DOMAIN live
  /\ LET l == ntfs_attr_lookup(in, DATA, name, 0, Unspecified)
     IN l.res = "ok" /\ in.rec[l.r][l.i].nonres
  /\ Run(AddExtent(Start(full), name), With(Key(DATA, name, 0, 1), 0))

Trim(name, full) ==
  /\ Key(DATA, name, 0, 1) \in DOMAIN live
  /\ Run(RemoveOne(Start(full), ntfs_attr_lookup(Start(full), DATA, name, 1, Unspecified)),
         Without({Key(DATA, name, 0, 1)}))

\* ntfs_inode_close and ntfs_inode_open: extents are attached again as the list
\* names them (ntfs_inode_attach_all_extents); one it does not name is lost.
Reopen ==
  /\ LET named == [e \in 1..Len(in.list) |-> in.list[e].mft]
     IN in' = [in EXCEPT !.ext = SelectSeq(
                 FoldLeft(LAMBDA q, r : IF Contains(q, r) THEN q ELSE Append(q, r), <<>>, named), LAMBDA r : r # Base)]
  /\ in'.ext # in.ext
  /\ UNCHANGED <<live, env>>

Init ==
  /\ env \in Environments
  /\ in = [rec |-> [r \in {Base} \cup env.extents |->
                      IF r = Base THEN <<Resident(STD, 0, 0, StdSize),
                                         [Resident(NAME, 0, 1, NameSize) EXCEPT !.inst = 1]>>
                      ELSE <<>>],
           ext |-> <<>>, has |-> FALSE, list |-> <<>>, err |-> "ok", full |-> FALSE,
           pool |-> env.extents, torn |-> FALSE, stray |-> {}]
  /\ live = [k \in {Key(STD, 0, 0, 0), Key(NAME, 0, 1, 0)} |->
               IF k[1] = STD THEN StdSize ELSE NameSize]

\* Attributes added after a name has strayed may join it in the record that no
\* list names, and a torn record may hold anything: the model ends there.
Next == in.stray = {} /\ ~in.torn /\
  \/ \E full \in env.full, name \in env.streams :
       \/ \E size \in Sizes : AddStream(name, size, full) \/ Resize(name, size, full)
       \/ RemoveStream(name, full) \/ Extend(name, full) \/ Trim(name, full)
  \/ \E full \in env.full, val \in env.names : AddName(val, full) \/ RemoveName(val, full)
  \/ Reopen

Spec == Init /\ [][Next]_<<in, live, env>>

\* Every attribute a caller stored is found by ntfs_attr_lookup with the size
\* it was last given, and no record holds any other attribute: whatever was
\* moved, converted or rolled back when room ran out.  Two failures for want of
\* a free cluster or record are excepted, and what is stored after them is not
\* covered.  A hard link may be lost when ntfs_inode_add_attrlist is rolled back:
\* a $FILE_NAME that had left the base record does not get back beside another
\* one, because ntfs_attr_record_move_to takes the two for the same attribute.
\* And an attribute whose list entry cannot be added is taken back through a
\* pointer that is out of date when the list has moved the attributes before it,
\* and with the extent record it was for, to which others may have moved.
AttributesFound == ~in.torn =>
  /\ Cardinality(env.names) = 1 => in.stray = {}
  /\ \A k \in {x \in DOMAIN live : x[1] = NAME => x[3] \notin in.stray} :
       LET l == ntfs_attr_lookup(in, k[1], k[2], k[4], IF k[3] = 0 THEN Unspecified ELSE k[3])
       IN /\ l.res = "ok"
          /\ LET a == in.rec[l.r][l.i]
             IN /\ <<a.type, a.name, a.val, a.low>> = k
                /\ a.size = live[k]
  /\ \A r \in DOMAIN in.rec : \A i \in 1..Len(in.rec[r]) :
       LET a == in.rec[r][i]
       IN a.type = LIST \/ <<a.type, a.name, a.val, a.low>> \in DOMAIN live

\* The attribute list lists every attribute once, in order, under the record
\* and instance that hold it, and the $ATTRIBUTE_LIST attribute has the size of
\* the list in memory; without a list every attribute is in the base record,
\* but for the names that a rollback of ntfs_inode_add_attrlist left outside.
ListExact == ~in.torn =>
  LET held == {<<r, in.rec[r][i].inst>> : <<r, i>> \in
                 {<<q, j>> \in (DOMAIN in.rec) \X (1..Room) :
                    j <= Len(in.rec[q]) /\ in.rec[q][j].type # LIST}}
      l == ntfs_attr_find(in.rec[Base], LIST, 0, Unspecified)
  IN IF in.has
     THEN /\ l.found /\ in.rec[Base][l.at].size = Len(in.list)
          /\ {<<in.list[e].mft, in.list[e].inst>> : e \in 1..Len(in.list)} = held
          /\ Cardinality(held) = Len(in.list)
          /\ ntfs_attrlist_need(in)
          /\ \A e \in 1..(Len(in.list) - 1) :
               LET x == in.list[e]  y == in.list[e + 1]
               IN \/ x.type < y.type
                  \/ x.type = y.type /\ x.name < y.name
                  \/ x.type = y.type /\ x.name = y.name /\ x.low < y.low
                  \/ x.type = NAME /\ y.type = NAME
     ELSE ~l.found /\ \A a \in Outside(in) : a.type = NAME /\ a.val \in in.stray
=============================================================================
