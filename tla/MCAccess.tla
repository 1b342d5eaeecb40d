----------------------------- MODULE MCAccess -----------------------------
(***************************************************************************)
(* The life of inodes (InodeCache), the descriptors of files and their     *)
(* caches (Security) and the lists in descriptors (Acls), side by side.    *)
(* They share no state in the models: a behaviour exercises one of them.   *)
(*                                                                         *)
(* InodeCache: the root directory and two files.                           *)
(* Security: a directory, a file and a file still to be created; two       *)
(* entries fit in a block of $SDS, so every second one moves on to the     *)
(* next even block.  Some hashes collide and the sizes of descriptors are  *)
(* and are not multiples of the alignment.                                 *)
(* Acls: all permissions of owner, group and others.                       *)
(***************************************************************************)
EXTENDS InodeCache, TLC

CONSTANTS
  a, b   \* files of InodeCache

VARIABLES
  which,                      \* the part that is at work
  env, v, calls, want, dwant, lost, bypassed,    \* of Security
  descr, isdir, origin                           \* of Acls

svars == <<env, v, calls, want, dwant, lost, bypassed>>
avars == <<descr, isdir, origin>>
allvars == <<which, vars, svars, avars>>

FileSymmetry == Permutations({a, b})

-----------------------------------------------------------------------------
MCGroupOf(u) == IF u = 0 THEN 0 ELSE 1
MCHash(d) == IF d.from = "inherited" THEN 1 ELSE (d.u + Cardinality(d.m)) % 3
MCSize(d) == IF d.m = {} THEN 2 ELSE 3

MadeDescr(u, g, dir) ==
  [u |-> u, g |-> g, m |-> {"w"}, dir |-> dir, from |-> "mode"]

\* A volume of version 3, without faults and crashes.
Version3 ==
  [ver |-> 3, addids |-> FALSE, special |-> {},
   made |-> <<MadeDescr(0, 0, TRUE), MadeDescr(1, 1, FALSE),
              MadeDescr(1, 1, TRUE)>>,
   exist |-> {"d", "f"}, legacy |-> {}, users |-> {0, 1, 2},
   modes |-> {{}, {"s", "w"}},
   owners |-> {[u |-> -1, g |-> -1], [u |-> 2, g |-> 1], [u |-> -1, g |-> 1]},
   faults |-> {"none"}, crash |-> FALSE, calls |-> 3]

\* The same, of version 1, with files that get identifiers when they are
\* looked up, with too few identifiers, and with faults and crashes.
MCEnvironments ==
  {Version3,
   [Version3 EXCEPT !.ver = 1, !.made = <<>>, !.users = {0, 1}],
   [Version3 EXCEPT !.addids = TRUE, !.legacy = {"d", "f"}, !.special = {"d"},
                    !.users = {0, 1}],
   [Version3 EXCEPT !.made = SubSeq(@, 1, 1), !.users = {0, 1},
                    !.modes = {{}}]}
  \cup
  {[Version3 EXCEPT !.users = {0}, !.exist = {"f", "n"}, !.addids = TRUE,
                    !.legacy = {"n"}, !.crash = TRUE, !.modes = {{}},
                    !.owners = {[u |-> 2, g |-> 1]},
                    !.faults = {"none"} \cup x] :
     x \in {{"data1", "data2"}, {"sii", "cmp"}, {"sdh", "sync"}}}

S == INSTANCE Security WITH
       Files <- {"d", "f", "n"}, Dirs <- {"d"}, Uids <- {0, 1, 2},
       GroupOf <- MCGroupOf, Hash <- MCHash, Size <- MCSize,
       ALIGN_SDS_ENTRY <- 2, ALIGN_SDS_BLOCK <- 8, SdsCells <- 48,
       CACHE_BITS <- 1, CACHE_BLOCKS <- 3, SecuridCache <- 2, MaxId <- 6,
       Environments <- MCEnvironments

-----------------------------------------------------------------------------
Perms == SUBSET {"r", "w", "x"}
MCModes == [u : Perms, g : Perms, o : Perms,
            s : {{}, {"suid"}, {"sgid", "sticky"}}]

MCOwners ==
  {[u |-> "u1", g |-> "g1"], [u |-> "u1", g |-> "u1"],
   [u |-> "admin", g |-> "g1"], [u |-> "u1", g |-> "admin"],
   [u |-> "admin", g |-> "admin"]}

AceOf(sid, mask, flags) ==
  [type |-> "allow", sid |-> sid, mask |-> mask, flags |-> flags]

All == {"DELETE", "READ_CONTROL", "WRITE_DAC", "WRITE_OWNER", "SYNCHRONIZE",
        "READ_ATTRIBUTES", "WRITE_ATTRIBUTES", "READ_EA", "WRITE_EA",
        "READ_DATA", "WRITE_DATA", "APPEND_DATA", "EXECUTE"}
Both == {"OBJECT_INHERIT", "CONTAINER_INHERIT"}
Below == Both \cup {"INHERIT_ONLY"}

Audit(sid, flags) == [AceOf(sid, {"WRITE_DATA"}, flags) EXCEPT !.type = "audit"]
Deny(sid, mask, flags) == [AceOf(sid, mask, flags) EXCEPT !.type = "deny"]

\* Directories whose creators get full access, with and without entries for
\* the authenticated users, the creator's group and the administrators, and
\* with and without audits; one names the generic creators as often as
\* build_inherited_id reckons with, and one much more often.
MCWindowsDirs ==
  {[acl |-> <<AceOf("owner", All, Below)>> \o rest, sacl |-> audit,
    owner |-> owner, group |-> "admin", auto |-> auto] :
     auto \in SUBSET {"dacl", "sacl"}, owner \in {"admin", "u1"},
     audit \in {<<>>, <<Audit("world", Both)>>, <<Audit("owner", Below)>>},
     rest \in {<<>>,
               <<Deny("owner", {"DELETE_CHILD"}, Below),
                 Deny("group", {"DELETE_CHILD"}, Below),
                 AceOf("group", {"GENERIC_READ"}, Below)>>,
               [i \in 1..9 |-> AceOf("owner", All, Below)],
               <<AceOf("auth", {"GENERIC_READ", "GENERIC_EXECUTE"},
                       {"OBJECT_INHERIT", "INHERIT_ONLY"}),
                 AceOf("auth", {"READ_DATA"}, Both),
                 AceOf("group", {"GENERIC_READ", "GENERIC_WRITE"}, Below),
                 AceOf("admin", All, Both)>>}}

A == INSTANCE Acls WITH
       UserSids <- {"u1", "u2", "g1"},
       Creators <- {[u |-> "u2", g |-> "g1"]},
       Modes <- MCModes, Owners <- MCOwners, WindowsDirs <- MCWindowsDirs,
       MaxDepth <- 2, LowBits <- 3

-----------------------------------------------------------------------------
IdleInode == Init /\ w = Mounted(newest, FALSE)
IdleSecurity ==
  /\ env = 0 /\ v = 0 /\ calls = 0 /\ want = 0 /\ dwant = 0 /\ lost = 0
  /\ bypassed = 0
IdleAcl == descr = 0 /\ isdir = 0 /\ origin = 0

AccessInit ==
  /\ which \in {"inode", "security", "acl"}
  /\ \/ which = "inode" /\ Init /\ IdleSecurity /\ IdleAcl
     \/ which = "security" /\ IdleInode /\ S!Init /\ IdleAcl
     \/ which = "acl" /\ IdleInode /\ IdleSecurity /\ A!Init

OnInode(X) == which = "inode" /\ X /\ UNCHANGED <<which, svars, avars>>
OnSecurity(X) == which = "security" /\ X /\ UNCHANGED <<which, vars, avars>>
OnAcl(X) == which = "acl" /\ X /\ UNCHANGED <<which, vars, svars>>

AccessNext == OnInode(Next) \/ OnSecurity(S!Next) \/ OnAcl(A!Next)

AccessSpec == AccessInit /\ [][AccessNext]_allvars

-----------------------------------------------------------------------------
\* Whatever write to $Secure fails (entersecurityattr), its indexes lead to
\* whole descriptors that share no cell, and so do the second copies.
SecureExact == which = "security" => S!SecureExact

\* A file has the owner, group and mode that were last agreed on for it
\* (ntfs_set_owner_mode, update_secur_descr, upgrade_secur_desc).
FilesKeepDescriptor == which = "security" => S!FilesKeepDescriptor

\* The caches of permissions and of identifiers agree with the descriptors
\* (enter_cache, ntfs_set_owner_mode, ntfs_inherited_id).
CachesExact == which = "security" => S!CachesExact

\* The owner and the mode read from a descriptor are the ones that
\* ntfs_build_descr made it for, and its list fits; SIDs of the implicit mapping
\* are mapped back to the user or group they were made for (ntfs_find_usid,
\* findimplicit: no state is involved, so a few initial states are enough).
ModeRoundTrip ==
  which = "acl" =>
    /\ A!ModeRoundTrip
    /\ origin = [by |-> "windows", depth |-> 0] => A!MappingRoundTrip

\* Inherited lists (ntfs_inherit_acl) give the permissions of the directory,
\* or full access to the creator, and fit in the memory allocated for them.
InheritsRights == which = "acl" => A!InheritsRights
=============================================================================
