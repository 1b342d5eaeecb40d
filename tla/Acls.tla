-------------------------------- MODULE Acls --------------------------------
(***************************************************************************)
(* The two translations of ntfs/acls.c (built without Posix ACLs and with  *)
(* OWNERFROMACL): a Unix owner, group and mode become an NTFS access       *)
(* control list (ntfs_build_descr), a list becomes an owner and a mode     *)
(* again (ntfs_acl_owner, ntfs_build_permissions), an object receives the  *)
(* inheritable part of the list of its directory (ntfs_inherit_acl,        *)
(* build_inherited_id of security.c), and users and groups become SIDs and *)
(* back (ntfs_find_usid, ntfs_find_user and the ones for groups).          *)
(*                                                                         *)
(* An access mask is the set of its rights, a mode the four sets of its    *)
(* permissions, a SID a name; only the sizes in bytes and the two last     *)
(* sub-authorities of the SIDs of the implicit mapping are numbers.        *)
(* LowBits stands for the 30 bits of an identifier that go into the last   *)
(* sub-authority.                                                          *)
(***************************************************************************)
EXTENDS Integers, Sequences, SequencesExt

CONSTANTS
  UserSids,       \* the SIDs S-1-5-21-..., of users and of groups
  Creators,       \* [u, g]: the users (by SIDs) that create objects
  Modes,          \* the modes objects are made with
  Owners,         \* [u, g]: the owners objects are made for
  WindowsDirs,    \* descriptors of directories that Windows made
  MaxDepth,       \* how deep objects are created below the first one
  LowBits         \* bits of an identifier in the last sub-authority

VARIABLES
  descr,          \* the descriptor of the object at hand
  isdir,          \* it is a directory
  origin          \* how the descriptors above it were made

vars == <<descr, isdir, origin>>

-----------------------------------------------------------------------------
(* Access rights and SIDs *)

FILE_WRITE == {"WRITE_DATA", "APPEND_DATA", "READ_CONTROL",
               "WRITE_ATTRIBUTES", "WRITE_EA"}
DIR_WRITE == FILE_WRITE \cup {"DELETE_CHILD"}
OWNER_RIGHTS == {"DELETE", "READ_CONTROL", "WRITE_DAC", "WRITE_OWNER",
                 "SYNCHRONIZE", "READ_ATTRIBUTES", "WRITE_ATTRIBUTES",
                 "READ_EA", "WRITE_EA"}
WORLD_RIGHTS == {"READ_CONTROL", "READ_ATTRIBUTES", "READ_EA", "SYNCHRONIZE"}

\* The rights that are set for permissions among "r", "w" and "x".
Rights(dir, perms) ==
  (IF "r" \in perms THEN {"READ_DATA"} ELSE {})
    \cup (IF "w" \in perms THEN IF dir THEN DIR_WRITE ELSE FILE_WRITE ELSE {})
    \cup (IF "x" \in perms THEN {"EXECUTE"} ELSE {})

FullAccess == OWNER_RIGHTS \cup Rights(FALSE, {"r", "w", "x"})

is_world_sid(sid) == sid \in {"world", "auth"}

ntfs_is_user_sid(sid) == sid \in UserSids

ntfs_sid_size(sid) ==
  IF sid \in UserSids THEN 28 ELSE IF sid = "admin" THEN 16 ELSE 12

INHERITANCE == {"OBJECT_INHERIT", "CONTAINER_INHERIT"}

Inheritance(dir) == IF dir THEN INHERITANCE ELSE {"NO_PROPAGATE"}

Ace(type, sid, mask, flags) ==
  [type |-> type, sid |-> sid, mask |-> mask, flags |-> flags]

If(cond, seq) == IF cond THEN seq ELSE <<>>

AdminOwns(usid, gsid) == usid = "admin" \/ gsid = "admin"
GroupOwns(usid, gsid) == ~AdminOwns(usid, gsid) /\ usid = gsid

-----------------------------------------------------------------------------
(* From a mode to a list *)

\* Mutant: what the owner gets through the world only is not denied.
OwnerAces_GroupOnly(mode, dir, usid, gsid) ==
  LET grants == OWNER_RIGHTS \cup Rights(dir, mode.u)
      denials == IF AdminOwns(usid, gsid) \/ GroupOwns(usid, gsid) THEN {}
                 ELSE Rights(dir, mode.g) \ grants
  IN  If(denials # {}, <<Ace("deny", usid, denials, Inheritance(dir))>>)
        \o If(dir, <<Ace("deny", "world", {"EXECUTE"},
                         {"INHERIT_ONLY", "OBJECT_INHERIT"})>>)
        \o <<Ace("allow", usid, grants, Inheritance(dir))>>

\* The entries for the owner: what the owner would unduly get through the
\* group or the world is denied first, directories get a denial of execution
\* for the plain files below them, then come the grants.
OwnerAces(mode, dir, usid, gsid) ==
  LET grants == OWNER_RIGHTS \cup Rights(dir, mode.u)
      others == IF GroupOwns(usid, gsid) THEN mode.o \ mode.g
                ELSE mode.g \cup mode.o
      denials == IF AdminOwns(usid, gsid) THEN {}
                 ELSE Rights(dir, others) \ grants
  IN  If(denials # {}, <<Ace("deny", usid, denials, Inheritance(dir))>>)
        \o If(dir, <<Ace("deny", "world", {"EXECUTE"},
                         {"INHERIT_ONLY", "OBJECT_INHERIT"})>>)
        \o <<Ace("allow", usid, grants, Inheritance(dir))>>

\* The entries for the group, if it has not the same rights as the world.
GroupAces(mode, dir, usid, gsid) ==
  LET special == AdminOwns(usid, gsid) \/ GroupOwns(usid, gsid)
      grants == WORLD_RIGHTS \cup Rights(dir, mode.g)
      denials == IF special THEN {}
                 ELSE Rights(dir, mode.o) \ (grants \cup OWNER_RIGHTS)
  IN  If(special \/ mode.g # mode.o,
         If(denials # {}, <<Ace("deny", gsid, denials, Inheritance(dir))>>)
           \o If(special \/ mode.g \ mode.o # {},
                 <<Ace("allow", gsid, grants, Inheritance(dir))>>))

\* The entries for the world, for administrators and for the system, and the
\* one that keeps the special flags.
CommonAces(mode, dir) ==
  <<Ace("allow", "world", WORLD_RIGHTS \cup Rights(dir, mode.o),
        Inheritance(dir)),
    Ace("allow", "admin", FullAccess, Inheritance(dir)),
    Ace("allow", "system", FullAccess, Inheritance(dir))>>
  \o If(mode.s # {},
        <<Ace("allow", "null",
              {IF s = "suid" THEN "APPEND_DATA"
               ELSE IF s = "sgid" THEN "WRITE_DATA" ELSE "READ_DATA"
                 : s \in mode.s},
              {"NO_PROPAGATE"})>>)

buildacls(mode, dir, usid, gsid) ==
  OwnerAces(mode, dir, usid, gsid) \o GroupAces(mode, dir, usid, gsid)
    \o CommonAces(mode, dir)

AclSize(acl) ==
  LET Upto[n \in 0..Len(acl)] ==
        IF n = 0 THEN 8 ELSE Upto[n - 1] + 8 + ntfs_sid_size(acl[n].sid)
  IN  IF acl = <<>> THEN 0 ELSE Upto[Len(acl)]

\* The size of a descriptor: its header, its lists, its owner and its group.
\* The second list (SACL) says what is to be audited; d.auto are the lists
\* marked as inherited themselves.
ntfs_attr_size(d) ==
  20 + AclSize(d.acl) + AclSize(d.sacl)
     + ntfs_sid_size(d.owner) + ntfs_sid_size(d.group)

\* What ntfs_build_descr allocates for the descriptor.
DescrRoom(mode, dir, usid, gsid) ==
  LET entry(sid) == 8 + ntfs_sid_size(sid)
  IN  20 + ntfs_sid_size(usid) + ntfs_sid_size(gsid) + 8
        + 2 * entry(usid) + 2 * entry(gsid)
        + entry("world") + entry("admin") + entry("system")
        + (IF dir THEN entry("world") ELSE 0)
        + (IF mode.s # {} THEN entry("null") ELSE 0)

NoDescr ==
  [acl |-> <<>>, sacl |-> <<>>, owner |-> "admin", group |-> "admin", auto |-> {}]

\* A list that is longer than expected makes the call fail.
ntfs_build_descr(mode, dir, usid, gsid) ==
  LET d == [NoDescr EXCEPT !.acl = buildacls(mode, dir, usid, gsid),
                           !.owner = usid, !.group = gsid]
  IN  IF ntfs_attr_size(d) <= DescrRoom(mode, dir, usid, gsid)
      THEN d ELSE NoDescr

-----------------------------------------------------------------------------
(* From a list to an owner and a mode *)

\* The first user that is allowed to change the owner, or else the owner.
ntfs_acl_owner(d) ==
  LET found == {i \in DOMAIN d.acl :
                  /\ "WRITE_OWNER" \in d.acl[i].mask
                  /\ d.acl[i].type = "allow"
                  /\ ntfs_is_user_sid(d.acl[i].sid)}
  IN  IF found = {} THEN d.owner
      ELSE d.acl[CHOOSE i \in found : \A j \in found : i <= j].sid

\* What the entries numbered in is allow, or deny.
Masks(d, is, type) ==
  UNION {d.acl[i].mask : i \in {j \in is : d.acl[j].type = type}}

Applying(d) ==
  {i \in DOMAIN d.acl : "INHERIT_ONLY" \notin d.acl[i].flags}

\* The permissions that rights mean: a test is true if one of its rights is
\* there, generic ones included.
Meaning(rights) ==
  (IF rights \cap {"READ_DATA", "GENERIC_READ"} # {} THEN {"r"} ELSE {})
    \cup (IF rights \cap {"WRITE_DATA", "APPEND_DATA", "GENERIC_WRITE"} # {}
          THEN {"w"} ELSE {})
    \cup (IF rights \cap {"EXECUTE", "GENERIC_EXECUTE"} # {}
          THEN {"x"} ELSE {})

merge_permissions(owner, group, world, special) ==
  [u |-> Meaning(owner), g |-> Meaning(group), o |-> Meaning(world),
   s |-> (IF "APPEND_DATA" \in special THEN {"suid"} ELSE {})
           \cup (IF "WRITE_DATA" \in special THEN {"sgid"} ELSE {})
           \cup (IF "READ_DATA" \in special THEN {"sticky"} ELSE {})]

build_std_permissions(d, usid, gsid) ==
  LET all == Applying(d)
      own == {i \in all : d.acl[i].sid \in {usid, "owner"}}
      grp == {i \in all \ own :
                d.acl[i].sid = gsid /\ "WRITE_OWNER" \notin d.acl[i].mask}
      wld == {i \in all \ (own \cup grp) : is_world_sid(d.acl[i].sid)}
      nul == {i \in all \ (own \cup grp) : d.acl[i].sid = "null"}
      allowgrp == Masks(d, grp, "allow")
      allowall == Masks(d, wld, "allow")
      denyall == Masks(d, wld, "deny")
      allowown == IF own = {} THEN {"READ_DATA", "WRITE_DATA", "EXECUTE"}
                  ELSE Masks(d, own, "allow")
  IN  merge_permissions(
        (allowown \cup allowgrp \cup allowall)
           \ (Masks(d, own, "deny") \cup denyall),
        (allowgrp \cup allowall) \ (Masks(d, grp, "deny") \cup denyall),
        allowall \ denyall,
        Masks(d, nul, "allow"))

\* Owner and group are the same: the right to change the owner tells the
\* entries of the one from those of the other.
build_owngrp_permissions(d, usid) ==
  LET all == Applying(d)
      own == {i \in all : /\ d.acl[i].sid \in {usid, "owner"}
                          /\ "WRITE_OWNER" \in d.acl[i].mask}
      grp == {i \in all \ own : d.acl[i].sid = usid}
      wld == {i \in all \ (own \cup grp) : is_world_sid(d.acl[i].sid)}
      nul == {i \in all \ (own \cup grp) : d.acl[i].sid = "null"}
      granting(is) == {i \in is : d.acl[i].type = "allow"}
      allowall == Masks(d, wld, "allow")
      denyall == Masks(d, wld, "deny")
  IN  merge_permissions(
        (IF granting(own) = {} THEN allowall ELSE Masks(d, own, "allow"))
           \ denyall,
        (IF granting(grp) = {} THEN allowall ELSE Masks(d, grp, "allow"))
           \ denyall,
        allowall \ denyall,
        Masks(d, nul, "allow"))

\* The owner or the group is the administrator, who also has an entry of full
\* access: only the first entry may be the one of the owner.
build_ownadmin_permissions(d, usid, gsid) ==
  LET all == {i \in Applying(d) :
                {"SYNCHRONIZE", "READ_EA"} \subseteq d.acl[i].mask}
      own == {i \in all : /\ d.acl[i].sid \in {usid, "owner"}
                          /\ "WRITE_OWNER" \in d.acl[i].mask
                          /\ \A j \in all : i <= j}
      grp == {i \in all \ own :
                d.acl[i].sid = gsid /\ "WRITE_OWNER" \notin d.acl[i].mask}
      wld == {i \in all \ (own \cup grp) : is_world_sid(d.acl[i].sid)}
      nul == {i \in Applying(d) \ all : d.acl[i].sid = "null"}
      foreign == \E is \in {own, grp} :
                   \A i \in is : d.acl[i].type # "allow"
      allowgrp == Masks(d, grp, "allow")
      allowall == Masks(d, wld, "allow")
      denyall == Masks(d, wld, "deny")
      added(more) == IF foreign THEN more ELSE {}
  IN  merge_permissions(
        (Masks(d, own, "allow") \cup added(allowgrp \cup allowall))
           \ (Masks(d, own, "deny") \cup denyall),
        (allowgrp \cup added(allowall)) \ (Masks(d, grp, "deny") \cup denyall),
        allowall \ denyall,
        Masks(d, nul, "allow"))

ntfs_build_permissions(d, usid, gsid) ==
  IF AdminOwns(usid, gsid) THEN build_ownadmin_permissions(d, usid, gsid)
  ELSE IF GroupOwns(usid, gsid) THEN build_owngrp_permissions(d, usid)
  ELSE build_std_permissions(d, usid, gsid)

-----------------------------------------------------------------------------
(* Inheritance *)

\* The generic rights of an inherited entry are spelled out.
Reencoded(mask, fordir) ==
  LET all == IF "GENERIC_ALL" \notin mask THEN mask
             ELSE (mask \ {"GENERIC_ALL"}) \cup OWNER_RIGHTS
                    \cup Rights(fordir, {"r", "w", "x"}) \cup {"DELETE_CHILD"}
      read == IF "GENERIC_READ" \notin all THEN all
              ELSE (all \cup OWNER_RIGHTS \cup Rights(fordir, {"r", "x"}))
                     \ {"GENERIC_READ", "GENERIC_EXECUTE", "WRITE_DAC",
                        "WRITE_OWNER", "DELETE", "WRITE_EA",
                        "WRITE_ATTRIBUTES"}
  IN  IF "GENERIC_WRITE" \notin read THEN read
      ELSE (read \cup OWNER_RIGHTS \cup Rights(fordir, {"w"}))
             \ {"GENERIC_WRITE", "WRITE_DAC", "WRITE_OWNER", "DELETE_CHILD"}

\* Mutant: an entry that is only to be inherited keeps that flag.
NotInheritable_InheritOnly(ace) == [ace EXCEPT !.flags = @ \ INHERITANCE]
NotInheritable(ace) == [ace EXCEPT !.flags = @ \ (INHERITANCE \cup {"INHERIT_ONLY"})]

Marked(ace, inherited) ==
  IF inherited THEN [ace EXCEPT !.flags = @ \cup {"INHERITED"}] ELSE ace

\* What one entry of the directory adds to the list of the new object: an
\* entry that applies to it, with the creator in the place of the generic
\* creator, and one to be inherited further.  st.auth is the place of the
\* entry in which those of the authenticated users are grouped.
InheritAce(st, old, usid, gsid, fordir, inherited) ==
  LET selection == IF fordir THEN "CONTAINER_INHERIT" ELSE "OBJECT_INHERIT"
      applied == NotInheritable([old EXCEPT !.mask = Reencoded(@, fordir)])
      grouped == ~fordir /\ old.type = "allow" /\ old.sid = "auth"
      access ==
        IF ~( /\ selection \in old.flags
              /\ ~(fordir /\ inherited)
              /\ old.sid \notin {"owner", "group"} ) THEN st
        ELSE IF grouped /\ st.auth # 0
        THEN [st EXCEPT !.acl[st.auth].mask = @ \cup applied.mask,
                        !.acl[st.auth].flags = @ \cup applied.flags]
        ELSE [acl |-> Append(st.acl, Marked(applied, inherited)),
              auth |-> IF grouped THEN Len(st.acl) + 1 ELSE st.auth]
      creator ==
        If(/\ fordir \/ ~inherited \/ old.flags \cap INHERITANCE # {}
           /\ old.sid \in {"owner", "group"},
           <<Marked(NotInheritable(
               [old EXCEPT !.sid = IF @ = "owner" THEN usid ELSE gsid]),
               inherited)>>)
      further == If(fordir /\ old.flags \cap INHERITANCE # {},
                    <<Marked(old, inherited)>>)
  IN  [access EXCEPT !.acl = @ \o creator \o further]

ntfs_inherit_acl(acl, usid, gsid, fordir, inherited) ==
  LET Upto[n \in 0..Len(acl)] ==
        IF n = 0 THEN [acl |-> <<>>, auth |-> 0]
        ELSE InheritAce(Upto[n - 1], acl[n], usid, gsid, fordir, inherited)
  IN  Upto[Len(acl)].acl

\* Whom an object in directory d belongs to: its creator, or, if there is no
\* user mapping, whom the directory belongs to.
NewOwner(d, c, mapped) == IF mapped THEN c ELSE [u |-> d.owner, g |-> d.group]

\* The descriptor of an object that o gets in directory d.
build_inherited_id(d, o, fordir) ==
  [acl |-> ntfs_inherit_acl(d.acl, o.u, o.g, fordir, "dacl" \in d.auto),
   sacl |-> ntfs_inherit_acl(d.sacl, o.u, o.g, fordir, "sacl" \in d.auto),
   owner |-> o.u, group |-> o.g, auto |-> d.auto]

\* What build_inherited_id allocates for it.
InheritRoom(d, o, fordir) ==
  (ntfs_attr_size(d) + 3 * ntfs_sid_size(o.u) + 3 * ntfs_sid_size(o.g))
    * (IF fordir THEN 2 ELSE 1)

-----------------------------------------------------------------------------
(* Objects *)

\* An object is made with a mode, or Windows made a directory.
Init ==
  \/ \E m \in Modes, o \in Owners, dir \in BOOLEAN :
       /\ descr = ntfs_build_descr(m, dir, o.u, o.g)
       /\ isdir = dir
       /\ origin = [by |-> "mode", mode |-> m, u |-> o.u, g |-> o.g,
                    depth |-> 0]
  \/ \E d \in WindowsDirs :
       /\ descr = d /\ isdir = TRUE
       /\ origin = [by |-> "windows", depth |-> 0]

\* An object is created in the directory and inherits its descriptor.
ntfs_inherited_id(c, mapped, fordir) ==
  LET o == NewOwner(descr, c, mapped) IN
  /\ isdir /\ origin.depth < MaxDepth
  /\ descr' = build_inherited_id(descr, o, fordir)
  /\ isdir' = fordir
  /\ origin' = IF origin.by = "mode"
               THEN [origin EXCEPT !.depth = @ + 1]
               ELSE [by |-> "windows", u |-> o.u, g |-> o.g,
                     depth |-> origin.depth + 1]

\* It is created by the owner of the first object, or by somebody else.
Users ==
  Creators \cup (IF origin.by = "mode" THEN {[u |-> origin.u, g |-> origin.g]}
                ELSE {})

Next ==
  \E c \in Users, mapped, fordir \in BOOLEAN : ntfs_inherited_id(c, mapped, fordir)

Spec == Init /\ [][Next]_vars

-----------------------------------------------------------------------------
(* Users and groups of the implicit mapping *)

Low == 2 ^ LowBits
Word == 4 * Low               \* the numbers of an identifier, or authority

\* A SID of the mapping: its two last sub-authorities.
Sid(high, last) == [high |-> high % Word, last |-> last % Word]

\* ntfs_valid_pattern: the last sub-authority has its top bit clear.
Patterns == {Sid(h, l) : h \in {3, Word - 1}, l \in {1, 2 * Low - 1}}

ntfs_find_usid(pattern, uid) ==
  Sid(pattern.high + uid \div Low, pattern.last + 2 * (uid % Low))

ntfs_find_gsid(pattern, gid) ==
  Sid(pattern.high + gid \div Low, pattern.last + 2 * (gid % Low) + 1)

\* Zero (root) if the SID does not match the pattern.
findimplicit(sid, pattern, parity) ==
  LET low == ((sid.last - pattern.last) \div 2) % Low
      carry == {c \in 1..3 : (pattern.high + c) % Word = sid.high}
  IN  IF ~(sid.last > pattern.last /\ (sid.last + pattern.last + parity) % 2 = 0)
      THEN 0
      ELSE IF sid.high = pattern.high THEN low
      ELSE IF carry = {} THEN 0
      ELSE low + (CHOOSE c \in carry : TRUE) * Low

ntfs_find_user(pattern, sid) == findimplicit(sid, pattern, 0)
ntfs_find_group(pattern, sid) == findimplicit(sid, pattern, 1)

-----------------------------------------------------------------------------
(* Properties *)

Owner == ntfs_acl_owner(descr)
Permissions == ntfs_build_permissions(descr, Owner, descr.group)

\* How many entries name a generic creator.
Generic(sid) ==
  Len(SelectSeq(descr.acl \o descr.sacl, LAMBDA ace : ace.sid = sid))

\* A mode that is set is the mode that is read back: for every owner and group
\* (the administrator, and a group that is its own user, included) the owner
\* and the permissions that ntfs_acl_owner and ntfs_build_permissions find in
\* the list of ntfs_build_descr, which fits in the memory allocated for it, are
\* those it was built for.
ModeRoundTrip ==
  origin.by = "mode" /\ origin.depth = 0 =>
    /\ Owner = origin.u /\ descr.group = origin.g
    /\ Permissions = origin.mode

\* What is created in a directory of this driver by the owner of the directory
\* has the permissions of the directory, however deep, and no special flag
\* (ntfs_inherit_acl); plain files do not inherit the right of execution,
\* unless the administrator owns them: build_ownadmin_permissions does not see
\* the inherited denial.  What is created in a directory of Windows that gives
\* its creators full access belongs to its creator, or without a user mapping
\* to the owner of the directory, with all permissions.  What is inherited fits
\* in what build_inherited_id allocates, provided that the lists of the
\* directory name the creator-owner and the creator-group at most twice each,
\* for the "possible grants and denials" its comment reckons with; nothing
\* checks that they do.
InheritsRights ==
  LET kept(p) == IF isdir \/ AdminOwns(origin.u, origin.g) THEN p ELSE p \ {"x"}
  IN
  /\ (/\ origin.by = "mode" /\ origin.depth > 0
      /\ descr.owner = origin.u /\ descr.group = origin.g) =>
        /\ Owner = origin.u
        /\ Permissions = [u |-> kept(origin.mode.u), g |-> kept(origin.mode.g),
                          o |-> kept(origin.mode.o), s |-> {}]
  /\ origin.by = "windows" /\ origin.depth > 0 =>
        Owner = origin.u /\ Permissions.u = {"r", "w", "x"}
  /\ isdir /\ Generic("owner") <= 2 /\ Generic("group") <= 2 =>
        \A c \in Users, mapped, fordir \in BOOLEAN :
          LET o == NewOwner(descr, c, mapped) IN
          ntfs_attr_size(build_inherited_id(descr, o, fordir))
            <= InheritRoom(descr, o, fordir)

\* Every group, and every user whose low bits are not all zero, gets a SID
\* that is mapped back to it (ntfs_find_usid, findimplicit), also when the high
\* bits had to be recorded in the sub-authority before the last.
MappingRoundTrip ==
  \A p \in Patterns, id \in 1..Word - 1 :
    /\ ntfs_find_group(p, ntfs_find_gsid(p, id)) = id
    /\ id % Low # 0 => ntfs_find_user(p, ntfs_find_usid(p, id)) = id
=============================================================================
