------------------------------ MODULE Security ------------------------------
(***************************************************************************)
(* ntfs/security.c (built without Posix ACLs and without extended          *)
(* attributes): the descriptors a volume shares in $Secure, the            *)
(* descriptors its files have, and the caches in front of them.            *)
(*                                                                         *)
(* A descriptor is who owns it, its group, its mode reduced to "w" (the    *)
(* owner may write) and "s" (set-group-id), whether it is a directory's    *)
(* and how it was made; that an access control list reads back as the mode *)
(* it was made from is the subject of module Acls.  The stream $SDS is an  *)
(* array of cells that name the descriptor they are part of, HEADER of     *)
(* them for the header of an entry and Size(d) for descriptor d; $SII and  *)
(* $SDH lead from an identifier and from a hash to an entry.  Identifiers  *)
(* count from 1, which stands for FIRST_SECURITY_ID.                       *)
(*                                                                         *)
(* The volume is of version 3 with $Secure open, or older.  A write to     *)
(* $Secure may fail, and so may its synchronisation and the read that      *)
(* compares a new descriptor with an old one.  A crash loses what was not  *)
(* synchronised.  Files are named by their MFT record and are never        *)
(* deleted.                                                                *)
(***************************************************************************)
EXTENDS Integers, Sequences, FiniteSets, FiniteSetsExt, SequencesExt

CONSTANTS
  Files, Dirs,    \* MFT records of files, the ones of directories
  Uids,           \* users, 0 is the administrator
  GroupOf(_),     \* the group of a user
  Hash(_),        \* ntfs_security_hash, with collisions
  Size(_),        \* the cells of a descriptor
  ALIGN_SDS_ENTRY, ALIGN_SDS_BLOCK, SdsCells,
  CACHE_BITS,     \* CACHE_PERMISSIONS_BITS
  CACHE_BLOCKS,   \* how many blocks CACHE_PERMISSIONS_SIZE allows
  SecuridCache,   \* entries of the cache of identifiers
  MaxId,          \* bound: identifiers
  Environments    \* [ver, addids, special, made, exist, legacy, users,
                  \*  modes, owners, faults, crash, calls]; owners are
                  \*  [u, g], with -1 for the old owner or group

VARIABLES
  env,            \* the environment
  v,              \* the volume, see Volume
  calls,          \* bound: calls that change something
  want,           \* who owns each file and its mode, as last agreed
  dwant,          \* the same when the file was last synchronised
  lost,           \* identifiers whose $Secure entries a crash lost
  bypassed        \* directories set by ntfs_set_file_security

vars == <<env, v, calls, want, dwant, lost, bypassed>>

HEADER == 1

Descr(u, g, m, dir, from) ==
  [u |-> u, g |-> g, m |-> m, dir |-> dir, from |-> from]

\* What ntfs_build_descr makes of a mode, and what getsecurityattr
\* simulates when a file has no descriptor.
ntfs_build_descr(m, dir, u, g) == Descr(u, g, m, dir, "mode")
MinimumRights == ntfs_build_descr({}, FALSE, 0, 0)
NoDescr == Descr(-1, -1, {}, FALSE, "none")

\* What ntfs_sd_add_everyone adds.
SID_EVERYONE == Descr(0, 0, {"w"}, FALSE, "everyone")

\* build_inherited_id: the list comes from the directory, the special flags
\* do not propagate, owner and group are the ones of the requesting user.
Inherited(d, u, fordir) ==
  Descr(u, GroupOf(u), d.m \ {"s"}, fordir, "inherited")

Perms(d) == [u |-> d.u, g |-> d.g, m |-> d.m]

-----------------------------------------------------------------------------
(* Writing $Secure *)

Put(sds, offs, cells) ==
  [i \in DOMAIN sds |->
     IF i >= offs /\ i < offs + Len(cells) THEN cells[i - offs + 1] ELSE sds[i]]

EntryCells(d) == [k \in 1 .. HEADER + Size(d) |-> d]
Zeros(n) == [k \in 1 .. n |-> NoDescr]

entersecurity_stuff(sds, offs) == Put(sds, offs, Zeros(ALIGN_SDS_BLOCK))

\* Both copies are tried; one that fails is cut short after its header.
entersecurity_data(sds, d, offs, gap, fault) ==
  LET cells == Zeros(gap) \o EntryCells(d)
      Short(n) == IF fault = n THEN SubSeq(cells, 1, gap + HEADER) ELSE cells
      one == Put(sds, offs - gap, Short("data1"))
  IN  [sds |-> Put(one, offs - gap + ALIGN_SDS_BLOCK, Short("data2")),
       ok |-> fault \notin {"data1", "data2"}]

\* $SII first and, if that succeeds, $SDH.
entersecurity_indexes(s, d, id, offs, fault) ==
  LET place == [offs |-> offs, size |-> HEADER + Size(d), hash |-> Hash(d)]
      With(x) == [i \in DOMAIN x \cup {id} |-> IF i = id THEN place ELSE x[i]]
  IN  IF fault = "sii" THEN [v |-> s, ok |-> FALSE]
      ELSE IF fault = "sdh"
      THEN [v |-> [s EXCEPT !.sii = With(s.sii)], ok |-> FALSE]
      ELSE [v |-> [s EXCEPT !.sii = With(s.sii), !.sdh = With(s.sdh)],
            ok |-> TRUE]

\* The last key is met only from the entry before it, so an index with less
\* than two entries yields no key; as an index root is never smaller than an
\* entry, the first identifier is not created then.
LastKey(s) == IF Cardinality(DOMAIN s.sii) < 2 THEN 0 ELSE Max(DOMAIN s.sii)

\* Mutant: the blocks of the copies are entered.
NextOffset_AnyBlock(s, d) ==
  LET last == s.sii[LastKey(s)]
      gap == (-last.size) % ALIGN_SDS_ENTRY
  IN  [offs |-> last.offs + last.size + gap, gap |-> gap]

\* Where a new entry goes: behind the last one, and in an even block.
NextOffset(s, d) ==
  LET last == s.sii[LastKey(s)]
      gap == (-last.size) % ALIGN_SDS_ENTRY
      offs == last.offs + last.size + gap
      end == offs + Size(d) + HEADER - 1
      odd == (end \div ALIGN_SDS_BLOCK) % 2 = 1
  IN  [offs |-> IF odd THEN (end \div ALIGN_SDS_BLOCK + 1) * ALIGN_SDS_BLOCK
                ELSE offs,
       gap |-> gap]

\* The indexes follow once both copies are written.
EnterIndexes(s, data, d, id, offs, fault) ==
  LET written == [s EXCEPT !.sds = data.sds]
      indexed == entersecurity_indexes(written, d, id, offs, fault)
  IN  IF ~data.ok THEN [v |-> written, id |-> 0]
      ELSE [v |-> indexed.v, id |-> IF indexed.ok THEN id ELSE 0]

EnterData(s, d, id, at, fault) ==
  LET stuffed == IF at.offs % ALIGN_SDS_BLOCK = 0
                 THEN entersecurity_stuff(s.sds, at.offs) ELSE s.sds
  IN  EnterIndexes(s, entersecurity_data(stuffed, d, at.offs, at.gap, fault),
                   d, id, at.offs, fault)

SyncSecure(made, fault) ==
  IF fault = "sync" THEN made
  ELSE [made EXCEPT !.v.dsii = made.v.sii, !.v.dsdh = made.v.sdh]

entersecurityattr(s, d, fault) ==
  SyncSecure(IF LastKey(s) = 0 THEN [v |-> s, id |-> 0]
             ELSE EnterData(s, d, LastKey(s) + 1, NextOffset(s, d), fault),
             fault)

\* An entry holds a descriptor when its cells are the ones of it.
Holds(sds, place, d) ==
  \A i \in place.offs + HEADER .. place.offs + place.size - 1 : sds[i] = d

\* The entries with the same hash are compared in the order of their
\* identifiers; one that cannot be read does not compare.
setsecurityattr(s, d, fault) ==
  LET same == {i \in DOMAIN s.sdh : s.sdh[i].hash = Hash(d)}
      match == {i \in same : /\ ~(fault = "cmp" /\ i = Min(same))
                             /\ Holds(s.sds, s.sdh[i], d)}
  IN  IF match # {} THEN [v |-> s, id |-> Min(match)]
      ELSE entersecurityattr(s, d, fault)

-----------------------------------------------------------------------------
(* Reading descriptors *)

retrievesecurityattr(s, id) ==
  IF id \notin DOMAIN s.sii THEN NoDescr
  ELSE LET d == s.sds[s.sii[id].offs + HEADER]
       IN  IF Holds(s.sds, s.sii[id], d) THEN d ELSE NoDescr

getsecurityattr(s, f) ==
  LET file == s.file[f]
      d == IF file.v3 /\ file.id # 0 /\ env.ver >= 3
           THEN retrievesecurityattr(s, file.id) ELSE file.attr
  IN  IF d = NoDescr THEN MinimumRights ELSE d

-----------------------------------------------------------------------------
(* The caches *)

NoEntry == [valid |-> FALSE]
Entry(p) == [valid |-> TRUE, p |-> p, inhf |-> 0, inhd |-> 0]
NoBlock == <<>>

index1(id) == id \div 2 ^ CACHE_BITS
index2(id) == id % 2 ^ CACHE_BITS

HasId(s, f) == s.file[f].v3 /\ s.file[f].id # 0

\* The table of blocks with room for index1, unless it would grow too large.
create_caches(i1) == [i \in 0 .. i1 |-> NoBlock]
resize_cache(pc, i1) ==
  IF i1 + 1 > CACHE_BLOCKS THEN pc
  ELSE [i \in 0 .. i1 |-> IF i \in DOMAIN pc THEN pc[i] ELSE NoBlock]

SetEntry(pc, id, entry) ==
  [pc EXCEPT ![index1(id)] =
     [i \in 0 .. 2 ^ CACHE_BITS - 1 |->
        IF i = index2(id) THEN entry
        ELSE IF pc[index1(id)] = NoBlock THEN NoEntry
        ELSE pc[index1(id)][i]]]

enter_cache(s, f, p) ==
  LET id == s.file[f].id
      table == IF s.pc = <<>> THEN create_caches(index1(id))
               ELSE IF index1(id) \notin DOMAIN s.pc
               THEN resize_cache(s.pc, index1(id)) ELSE s.pc
  IN  IF HasId(s, f)
      THEN [s EXCEPT !.pc = IF index1(id) \in DOMAIN table
                            THEN SetEntry(table, id, Entry(p)) ELSE table]
      ELSE IF f \in Dirs /\ ~s.lc[f].valid THEN [s EXCEPT !.lc[f] = Entry(p)]
      ELSE s

fetch_cache(s, f) ==
  LET id == s.file[f].id
      i1 == index1(id)
  IN  IF HasId(s, f)
      THEN IF i1 \in DOMAIN s.pc /\ s.pc[i1] # NoBlock
           THEN s.pc[i1][index2(id)] ELSE NoEntry
      ELSE IF f \in Dirs THEN s.lc[f] ELSE NoEntry

\* The cache of identifiers, most recent first (module LruSpec): a hit moves
\* to the front, an entry that is present is left as it is.
Key(u, g, m, dir) == [u |-> u, g |-> g, m |-> m, dir |-> dir]
\* Mutant: the group is not compared.
compare_NoGroup(cached, key) == [cached.key EXCEPT !.g = key.g] = key
compare(cached, key) == cached.key = key

SecuridHits(s, key) == {c \in ToSet(s.sc) : compare(c, key)}

FetchSecurid(s, key) ==
  IF SecuridHits(s, key) = {} THEN [v |-> s, id |-> 0]
  ELSE LET c == CHOOSE c \in SecuridHits(s, key) : TRUE
           rest == SelectSeq(s.sc, LAMBDA o : o # c)
       IN  [v |-> [s EXCEPT !.sc = <<c>> \o rest], id |-> c.id]

EnterSecurid(s, key, id) ==
  LET all == <<[key |-> key, id |-> id]>> \o s.sc
  IN  IF SecuridHits(s, key) # {} THEN s
      ELSE [s EXCEPT !.sc = SubSeq(all, 1, Min({Len(all), SecuridCache}))]

-----------------------------------------------------------------------------
(* Setting the descriptor of a file *)

SetId(s, f, id) ==
  [s EXCEPT !.file[f].id = id, !.file[f].v3 = TRUE,
            !.file[f].attr = IF s.file[f].v3 THEN @ ELSE NoDescr]

\* The file gets the identifier of its descriptor, if there is one.
GiveSecurid(set, f) ==
  IF set.id = 0 THEN [v |-> set.v, ok |-> FALSE]
  ELSE [v |-> SetId(set.v, f, set.id), ok |-> TRUE]

\* A volume of version 3 gets an identifier, an older one an attribute.
update_secur_descr(s, d, f, fault) ==
  IF env.ver < 3
  THEN [v |-> IF s.file[f].attr = NoDescr
              THEN [s EXCEPT !.file[f].attr = d]
              ELSE [s EXCEPT !.file[f].attr = d, !.file[f].id = 0,
                             !.file[f].v3 = FALSE],
        ok |-> TRUE]
  ELSE GiveSecurid(setsecurityattr(s, d, fault), f)

upgrade_secur_desc(s, d, f, fault) ==
  IF env.ver < 3 \/ f \in env.special THEN s
  ELSE GiveSecurid(setsecurityattr(s, d, fault), f).v

RememberSecurid(set, key) ==
  IF set.id = 0 THEN set
  ELSE [set EXCEPT !.v = EnterSecurid(set.v, key, set.id)]

ntfs_alloc_securid(s, u, g, m, dir, fault) ==
  LET key == Key(u, g, m, dir)
      hit == FetchSecurid(s, key)
  IN  IF hit.id # 0 \/ env.ver < 3 THEN hit
      ELSE RememberSecurid(
             setsecurityattr(s, ntfs_build_descr(m, dir, u, g), fault), key)

\* Mutant: the cache of directories without identifier is forgotten.
AfterUpdate_KeepLegacy(s, f, key) ==
  LET flagged == IF f \in Dirs THEN s
                 ELSE [s EXCEPT !.file[f].ro = "w" \notin key.m]
  IN  IF flagged.file[f].v3
      THEN EnterSecurid(flagged, key, flagged.file[f].id) ELSE flagged

\* What ntfs_set_owner_mode does once the descriptor has been updated: the
\* read-only flag, the cache of identifiers, the cache of directories
\* without identifier.
AfterUpdate(s, f, key) ==
  LET flagged == IF f \in Dirs THEN s
                 ELSE [s EXCEPT !.file[f].ro = "w" \notin key.m]
      entered == IF flagged.file[f].v3
                 THEN EnterSecurid(flagged, key, flagged.file[f].id)
                 ELSE flagged
  IN  IF f \in Dirs /\ entered.file[f].id = 0
      THEN [entered EXCEPT !.lc[f] = NoEntry] ELSE entered

Updated(set, f, key) ==
  IF set.ok THEN [v |-> AfterUpdate(set.v, f, key), ok |-> TRUE] ELSE set

ntfs_set_owner_mode(s, f, u, g, m, fault) ==
  LET key == Key(u, g, m, f \in Dirs)
      hit == IF s.file[f].v3 THEN FetchSecurid(s, key)
             ELSE [v |-> s, id |-> 0]
  IN  IF hit.id # 0
      THEN [v |-> [hit.v EXCEPT !.file[f].id = hit.id], ok |-> TRUE]
      ELSE Updated(update_secur_descr(
                     s, ntfs_build_descr(m, f \in Dirs, u, g), f, fault), f, key)

\* The owner, group and mode a request starts from.
Current(s, f) ==
  IF fetch_cache(s, f).valid THEN fetch_cache(s, f).p
  ELSE Perms(getsecurityattr(s, f))

ntfs_set_mode(s, u, f, m, fault) ==
  LET p == Current(s, f)
      mode == IF u # 0 /\ p.g # GroupOf(u) THEN m \ {"s"} ELSE m
  IN  IF u = 0 \/ p.u = u THEN ntfs_set_owner_mode(s, f, p.u, p.g, mode, fault)
      ELSE [v |-> s, ok |-> FALSE]

\* Root, or the owner who changes the group to an own one.
MayChown(u, p, uid, gid) ==
  u = 0 \/ (uid \in {-1, p.u} /\ gid = GroupOf(u) /\ p.u = u)

Given(new, old) == IF new < 0 THEN old ELSE new

ntfs_set_owner(s, u, f, uid, gid, fault) ==
  LET p == Current(s, f)
      owner == Given(uid, p.u)
      mode == IF owner # 0 /\ owner # p.u THEN p.m \ {"s"} ELSE p.m
  IN  IF MayChown(u, p, uid, gid)
      THEN ntfs_set_owner_mode(s, f, owner, Given(gid, p.g), mode, fault)
      ELSE [v |-> s, ok |-> FALSE]

\* Unlike ntfs_set_owner this one knows the present owner and group only
\* when they are cached and otherwise takes them for 0.
KnownOwner(s, f) ==
  IF fetch_cache(s, f).valid THEN fetch_cache(s, f).p
  ELSE [u |-> 0, g |-> 0, m |-> {}]

ntfs_set_ownmod(s, u, f, uid, gid, m, fault) ==
  LET p == KnownOwner(s, f)
  IN  IF MayChown(u, p, uid, gid)
      THEN ntfs_set_owner_mode(s, f, Given(uid, p.u), Given(gid, p.g), m, fault)
      ELSE [v |-> s, ok |-> FALSE]

\* The identifier is remembered with the directory's cached permissions.
KeepInherited(s, set, dir, fordir) ==
  LET entry == fetch_cache(set.v, dir)
      kept == IF fordir THEN [entry EXCEPT !.inhd = set.id]
              ELSE [entry EXCEPT !.inhf = set.id]
  IN  IF set.id = 0 \/ ~entry.valid THEN set
      ELSE [set EXCEPT !.v = IF HasId(s, dir)
                             THEN [set.v EXCEPT !.pc =
                                     SetEntry(@, s.file[dir].id, kept)]
                             ELSE [set.v EXCEPT !.lc[dir] = kept]]

ntfs_inherited_id(s, u, dir, fordir, fault) ==
  LET cached == IF HasId(s, dir) THEN fetch_cache(s, dir) ELSE NoEntry
      known == IF ~cached.valid THEN 0
               ELSE IF fordir THEN cached.inhd ELSE cached.inhf
      d == Inherited(getsecurityattr(s, dir), u, fordir)
  IN  IF known # 0 THEN [v |-> s, id |-> known]
      ELSE IF env.ver < 3 THEN [v |-> s, id |-> 0]
      ELSE KeepInherited(s, setsecurityattr(s, d, fault), dir, fordir)

\* Looking up the owner and the mode; ntfs_get_perm, behind the checks of
\* accesses, does the same for users but leaves directories without
\* identifier out of the cache.
Upgraded(s, f, fault) ==
  IF ~s.file[f].v3 /\ env.addids
  THEN upgrade_secur_desc(s, getsecurityattr(s, f), f, fault) ELSE s

ntfs_get_owner_mode(s, f, fault) ==
  IF fetch_cache(s, f).valid THEN s
  ELSE enter_cache(Upgraded(s, f, fault), f, Perms(getsecurityattr(s, f)))

EnterPerm(s, f, p) == IF s.file[f].v3 THEN enter_cache(s, f, p) ELSE s

ntfs_get_perm(s, f, fault) ==
  IF fetch_cache(s, f).valid THEN s
  ELSE EnterPerm(Upgraded(s, f, fault), f, Perms(getsecurityattr(s, f)))

-----------------------------------------------------------------------------
(* The volume at the start: $Secure holds the entries of env.made, every    *)
(* existing file has a descriptor, as an identifier or as an attribute.     *)

File(exists, v3, id, attr) ==
  [exists |-> exists, v3 |-> v3, id |-> id, attr |-> attr, ro |-> FALSE]

\* mkntfs puts the first entries one behind the other.
Formatted(made) ==
  LET Offs(i) == LET o == 2 * ALIGN_SDS_ENTRY * (i - 1)
                 IN  o + (o \div ALIGN_SDS_BLOCK) * ALIGN_SDS_BLOCK
      place == [i \in DOMAIN made |->
                  [offs |-> Offs(i), size |-> HEADER + Size(made[i]),
                   hash |-> Hash(made[i])]]
      Add(sds, i) ==
        Put(Put(sds, Offs(i), EntryCells(made[i])),
            Offs(i) + ALIGN_SDS_BLOCK, EntryCells(made[i]))
  IN  [place |-> place,
       sds |-> FoldLeft(Add, [i \in 0 .. SdsCells - 1 |-> NoDescr],
                        [i \in DOMAIN made |-> i])]

InitialFile(e, f) ==
  LET d == Descr(1, 1, {"w"}, f \in Dirs, "mode")
      ids == {i \in DOMAIN e.made : e.made[i] = d}
  IN  IF f \notin e.exist THEN File(FALSE, FALSE, 0, NoDescr)
      ELSE IF ids = {} \/ f \in e.legacy THEN File(TRUE, FALSE, 0, d)
      ELSE File(TRUE, TRUE, Min(ids), NoDescr)

Init ==
  /\ env \in Environments
  /\ LET s == Formatted(env.made)
         files == [f \in Files |-> InitialFile(env, f)]
     IN  v = [sds |-> s.sds, sii |-> s.place, sdh |-> s.place,
              dsii |-> s.place, dsdh |-> s.place,
              file |-> files, dfile |-> files,
              pc |-> <<>>, sc |-> <<>>, lc |-> [d \in Dirs |-> NoEntry]]
  /\ calls = 0
  /\ want = [f \in Files |-> [u |-> 1, g |-> 1, m |-> {"w"}]]
  /\ dwant = want
  /\ lost = {}
  /\ bypassed = {}

Exists(f) == v.file[f].exists

\* Bounds: calls, identifiers.
Call == calls < env.calls /\ calls' = calls + 1 /\ UNCHANGED env
InBounds(s) == \A i \in DOMAIN s.sii : i <= MaxId

-----------------------------------------------------------------------------
(* The calls of a client *)

Stat(f, fault) ==
  /\ Exists(f) /\ Call
  /\ v' = ntfs_get_owner_mode(v, f, fault)
  /\ UNCHANGED <<want, dwant, lost, bypassed>>

\* ntfs_allowed_access and ntfs_allowed_create of users other than root.
Access(f, fault) ==
  /\ Exists(f) /\ Call
  /\ v' = ntfs_get_perm(v, f, fault)
  /\ UNCHANGED <<want, dwant, lost, bypassed>>

\* A directory whose cached entry ntfs_set_file_security left behind is
\* changed from that entry, a file whose identifier a crash lost from minimum
\* rights or from a descriptor that got the identifier later; what comes out
\* is taken as agreed then.
Certain(f) == f \notin bypassed /\ v.file[f].id \notin lost

Set(f, result, agreed) ==
  /\ Exists(f) /\ Call /\ InBounds(result.v)
  /\ v' = result.v
  /\ want' = IF ~result.ok THEN want
             ELSE [want EXCEPT
                     ![f] = IF Certain(f) THEN agreed
                            ELSE Perms(getsecurityattr(result.v, f))]
  /\ bypassed' = IF result.ok THEN bypassed \ {f} ELSE bypassed
  /\ UNCHANGED <<dwant, lost>>

\* What the change of a mode agrees on, from the owner the file really has.
Chmod(u, f, m, fault) ==
  LET w == want[f]
      mode == IF u # 0 /\ w.g # GroupOf(u) THEN m \ {"s"} ELSE m
  IN  Set(f, ntfs_set_mode(v, u, f, m, fault),
          IF u \in {0, w.u} THEN [w EXCEPT !.m = mode] ELSE w)

Chown(u, f, uid, gid, fault) ==
  LET w == want[f]
      owner == Given(uid, w.u)
      mode == IF owner # 0 /\ owner # w.u THEN w.m \ {"s"} ELSE w.m
  IN  Set(f, ntfs_set_owner(v, u, f, uid, gid, fault),
          IF MayChown(u, w, uid, gid)
          THEN [u |-> owner, g |-> Given(gid, w.g), m |-> mode] ELSE w)

Ownmod(u, f, uid, gid, m, fault) ==
  LET p == KnownOwner(v, f)
  IN  Set(f, ntfs_set_ownmod(v, u, f, uid, gid, m, fault),
          [u |-> Given(uid, p.u), g |-> Given(gid, p.g), m |-> m])

\* ntfs_set_file_security with all parts selected: no cache is looked at or
\* invalidated; closing the inode synchronises the file.
SecuritySet(f, d, set) ==
  LET w == IF set.ok THEN [want EXCEPT ![f] = Perms(d)] ELSE want
  IN  /\ Exists(f) /\ Call /\ InBounds(set.v)
      /\ v' = [set.v EXCEPT !.dfile[f] = set.v.file[f]]
      /\ want' = w /\ dwant' = [dwant EXCEPT ![f] = w[f]]
      /\ bypassed' = IF f \in Dirs /\ fetch_cache(set.v, f).valid /\ ~HasId(v, f)
                     THEN bypassed \cup {f} ELSE bypassed
      /\ UNCHANGED lost

ntfs_set_file_security(f, d, fault) ==
  SecuritySet(f, d, update_secur_descr(v, d, f, fault))

\* A file is created with an identifier, or for everyone without one
\* (ntfs_create of dir.c), and synchronised when it is closed.
Created(f, made, agreed) ==
  LET file == IF made.id # 0 THEN File(TRUE, TRUE, made.id, NoDescr)
              ELSE File(TRUE, FALSE, 0, SID_EVERYONE)
  IN  /\ ~Exists(f) /\ Call /\ InBounds(made.v)
      /\ v' = [made.v EXCEPT !.file[f] = file, !.dfile[f] = file]
      /\ want' = [want EXCEPT
                    ![f] = IF made.id # 0 THEN agreed ELSE Perms(SID_EVERYONE)]
      /\ dwant' = [dwant EXCEPT ![f] = want'[f]]
      /\ UNCHANGED <<lost, bypassed>>

CreateOwn(u, f, m, fault) ==
  Created(f, ntfs_alloc_securid(v, u, GroupOf(u), m, f \in Dirs, fault),
          [u |-> u, g |-> GroupOf(u), m |-> m])

\* What a file inherits: owner and group from its new descriptor, the mode
\* from what its directory agreed on.
InheritedPerms(made, dir) ==
  [Perms(retrievesecurityattr(made.v, made.id)) EXCEPT
     !.m = IF Certain(dir) THEN want[dir].m \ {"s"} ELSE @]

CreatedBelow(f, dir, made) == Created(f, made, InheritedPerms(made, dir))

CreateInherited(u, dir, f, fault) ==
  /\ Exists(dir)
  /\ CreatedBelow(f, dir, ntfs_inherited_id(v, u, dir, f \in Dirs, fault))

\* Closing a file writes its record, which matters only to a crash.
CloseInode(f) ==
  /\ env.crash /\ Exists(f) /\ v.file[f] # v.dfile[f]
  /\ v' = [v EXCEPT !.dfile[f] = v.file[f]]
  /\ dwant' = [dwant EXCEPT ![f] = want[f]]
  /\ UNCHANGED <<env, calls, want, lost, bypassed>>

\* A crash, or a device that is taken away: the next mount finds the indexes
\* of $Secure and the files as they were last synchronised and empty caches.
Remount ==
  /\ env.crash
  /\ v' = [v EXCEPT !.sii = v.dsii, !.sdh = v.dsdh, !.file = v.dfile,
                    !.pc = <<>>, !.sc = <<>>, !.lc = [d \in Dirs |-> NoEntry]]
  /\ v' # v
  /\ want' = dwant
  /\ lost' = lost \cup (DOMAIN v.sii \ DOMAIN v.dsii)
  /\ bypassed' = {}
  /\ UNCHANGED <<env, calls, dwant>>

Next ==
  \/ \E fault \in env.faults, f \in Files :
       \/ Stat(f, fault) \/ Access(f, fault)
       \/ \E u \in env.users, d \in Dirs : CreateInherited(u, d, f, fault)
       \/ \E u \in env.users, c \in env.owners : Chown(u, f, c.u, c.g, fault)
       \/ \E u \in env.users, m \in env.modes :
            \/ Chmod(u, f, m, fault)
            \/ \E c \in env.owners : Ownmod(u, f, c.u, c.g, m, fault)
            \/ CreateOwn(u, f, m, fault)
            \/ ntfs_set_file_security(
                 f, Descr(u, GroupOf(u), m, f \in Dirs, "mode"), fault)
  \/ \E f \in Files : CloseInode(f)
  \/ Remount

Spec == Init /\ [][Next]_vars

-----------------------------------------------------------------------------
(* Properties *)

Span(place) == place.offs .. place.offs + place.size - 1

\* Whatever write to $Secure fails and whenever the volume is mounted again,
\* every identifier in the indexes leads to a whole descriptor with its
\* hash, of which the second copy is whole as well, and no two identifiers
\* share a cell (entersecurityattr, entersecurity_data: a descriptor that
\* could not be written or indexed is overwritten by the next one, the
\* blocks of the copies are never entered).
SecureExact ==
  /\ DOMAIN v.sdh \subseteq DOMAIN v.sii
  /\ \A i \in DOMAIN v.sii :
       LET place == v.sii[i]
           copy == [place EXCEPT !.offs = @ + ALIGN_SDS_BLOCK]
           d == retrievesecurityattr(v, i)
       IN  /\ d # NoDescr /\ Hash(d) = place.hash
           /\ place.size = HEADER + Size(d)
           /\ Holds(v.sds, copy, d)
           /\ i \in DOMAIN v.sdh => v.sdh[i] = place
           /\ \A j \in DOMAIN v.sii \ {i} :
                Span(place) \cap (Span(v.sii[j])
                  \cup Span([v.sii[j] EXCEPT !.offs = @ + ALIGN_SDS_BLOCK])) = {}

\* A file has the owner, the group and the mode that was last agreed on for
\* it, whichever cache answered, whichever files share its descriptor,
\* whether the descriptor moved from an attribute to $Secure, and across a
\* crash; the exceptions are files whose identifier was in a $Secure that
\* could not be synchronised, which entersecurityattr only logs.
FilesKeepDescriptor ==
  \A f \in Files :
     Exists(f) /\ v.file[f].id \notin lost
       => Perms(getsecurityattr(v, f)) = want[f]

\* The caches never lie: an entry for an identifier has what the descriptor
\* with that identifier says ("data is never invalidated, as the meaning of
\* a security_id only changes when user mapping is changed"), an entry for
\* an owner and a mode leads to the descriptor made from them, and an entry
\* for a directory without identifier is dropped when the directory changes
\* (unless it changes through ntfs_set_file_security, which leaves it).
\* Identifiers that a crash lost are excepted.
CachesExact ==
  /\ \A i \in (1 .. MaxId) \ lost :
       LET i1 == index1(i) IN
       i1 \in DOMAIN v.pc /\ v.pc[i1] # NoBlock /\ v.pc[i1][index2(i)].valid
         => LET e == v.pc[i1][index2(i)]
                d == retrievesecurityattr(v, i)
            IN  /\ e.p = Perms(d)
                /\ \A x \in {e.inhf, e.inhd} \ {0} :
                     \E u \in Uids, dir \in BOOLEAN :
                        retrievesecurityattr(v, x) = Inherited(d, u, dir)
  /\ \A k \in DOMAIN v.sc :
       LET c == v.sc[k] IN
       retrievesecurityattr(v, c.id)
         = ntfs_build_descr(c.key.m, c.key.dir, c.key.u, c.key.g)
  /\ \A d \in Dirs \ bypassed :
       ~HasId(v, d) /\ v.lc[d].valid => v.lc[d].p = Perms(getsecurityattr(v, d))

=============================================================================
