------------------------------- MODULE MCData -------------------------------
(***************************************************************************)
(* Five views of the data of a file, side by side: where its clusters are  *)
(* recorded (AttrExtents), what its bytes are (AttrData), what a handle    *)
(* reads and writes of them (FileStream), how a compressed file is stored  *)
(* (Compressed) and how a compression block is coded (Lznt1); and the      *)
(* generic cache of the library (LruCache).  They share no state in the    *)
(* models: a behaviour exercises one of them.                              *)
(*                                                                         *)
(* A handle has a file of up to four bytes in units of two, and an int is  *)
(* from -3 to 2, so that a file may be longer than an int holds.  Clusters *)
(* 1, 2 and 129 are 127 and 128 apart, the last differences that fit one   *)
(* byte, in either direction.  The cache has three entries, and four keys  *)
(* in two chains.                                                          *)
(***************************************************************************)
EXTENDS FileStream, Sequences, TLC

CONSTANTS
  Clusters, MaxVcns, BaseRoom, ExtentRoom, Environments,
  Lcns, ClusterSize, DataMax, ResidentMax, DataBytes, Junk,
  CB, Blocks, Writes,
  ByteBits, OffsetBits, NTFS_SB_SIZE, CbSize, CbCluster,
  k1, k2, k3, k4, Keys, Vals, NoVal, Count, MaxHash, MallocFails

VARIABLES
  which,                          \* the part that is at work
  ext, base, na, used, map, torn, seen, ops,  \* of AttrExtents
  rec, dna, disk, dused,          \* of AttrData
  cna, cused, kind, cfailed,      \* of Compressed
  inbuf, c, d, phase,             \* of Lznt1
  cache, call, ret, freed         \* of LruCache

xvars == <<ext, base, na, used, map, torn, seen, ops>>
dvars == <<rec, dna, disk, dused>>
cvars == <<cna, cused, kind, cfailed>>
lvars == <<inbuf, c, d, phase>>
rvars == <<cache, call, ret, freed>>
allvars == <<which, vars, xvars, dvars, cvars, lvars, rvars>>

MCEnvironments ==
  {{"read", "hole", "shrink", "expand"}, {"hole", "append", "expand", "shrink"}}

\* The clusters in an order that gives blocks of one and of several runs.
MCOrders == << <<1, 2, 4, 5, 7, 8, 3>> >>

\* Every sub-block, alone and followed by a short one or by zeroes.
MCInputs ==
  UNION {[1..n -> {0, 1}] : n \in 1..NTFS_SB_SIZE}
  \cup {x \o y : x \in [1..NTFS_SB_SIZE -> {0, 1}],
                 y \in {<<0, 0>>, <<1, 0, 0, 0, 0, 0>>, [i \in 1..(NTFS_SB_SIZE + 1) |-> 0]}}

MCHashOf == [k \in {k1, k2, k3, k4} |-> IF k \in {k1, k2} THEN 0 ELSE 1]

\* Keys of one chain can be exchanged.
KeySymmetry == Permutations({k1, k2}) \cup Permutations({k3, k4})

\* nidata_cache, lookup_cache and xinode_cache, securid_cache.
NidataKind == [hashed |-> TRUE, var |-> FALSE, dofree |-> TRUE]
LookupKind == [hashed |-> TRUE, var |-> TRUE, dofree |-> FALSE]
SecuridKind == [hashed |-> FALSE, var |-> TRUE, dofree |-> FALSE]
AllKinds == {NidataKind, LookupKind, SecuridKind}

X == INSTANCE AttrExtents
D == INSTANCE AttrData WITH na <- dna, used <- dused, MaxSize <- DataMax, Bytes <- DataBytes
C == INSTANCE Compressed WITH na <- cna, used <- cused, failed <- cfailed, Orders <- MCOrders
R == INSTANCE LruCache WITH HashOf <- MCHashOf, Kinds <- AllKinds
L == INSTANCE Lznt1 WITH ClusterSize <- CbCluster, Inputs <- MCInputs

ASSUME PartsAssumption == R!CacheAssumption /\ StreamAssumption

DataInit ==
  /\ which \in {"extents", "data", "compressed", "codec", "cache", "stream"}
  /\ X!Init /\ (which # "extents" => /\ used = {X!MinOf(Clusters)}
                                     /\ ops = {"hole", "append", "expand", "shrink"})
  /\ D!Init /\ C!Init
  /\ L!Init /\ (which # "codec" => inbuf = <<0>>)
  /\ R!Init /\ (which # "cache" => cache = R!ntfs_create_cache(NidataKind))
  /\ Init /\ (which # "stream" => size = 0 /\ ~compressed /\ ~write)

OnExtents(A) == which = "extents" /\ A /\ UNCHANGED <<which, vars, dvars, cvars, lvars, rvars>>
OnData(A) == which = "data" /\ A /\ UNCHANGED <<which, vars, xvars, cvars, lvars, rvars>>
OnCompressed(A) == which = "compressed" /\ A /\ UNCHANGED <<which, vars, xvars, dvars, lvars, rvars>>
OnCodec(A) == which = "codec" /\ A /\ UNCHANGED <<which, vars, xvars, dvars, cvars, rvars>>
OnCache(A) == which = "cache" /\ A /\ UNCHANGED <<which, vars, xvars, dvars, cvars, lvars>>
OnStream(A) == which = "stream" /\ A /\ UNCHANGED <<which, xvars, dvars, cvars, lvars, rvars>>

DataNext == OnExtents(X!Next) \/ OnData(D!Next) \/ OnCompressed(C!Next) \/ OnCodec(L!Next)
            \/ OnCache(R!Next) \/ OnStream(Next)

DataSpec == DataInit /\ [][DataNext]_allvars

-----------------------------------------------------------------------------
\* The run list of an open attribute answers for every vcn the lcn it was
\* given, or that it is not mapped yet (ntfs_attr_map_runlist,
\* ntfs_attr_fill_hole, ntfs_runlists_merge, ntfs_rl_truncate).
RunlistExact == which = "extents" => X!RunlistExact

\* Who reads the MFT records finds the same mapping, the clusters marked in the
\* bitmap are those of the attribute, and the sizes agree; after an update that
\* failed it finds no lcn that the vcn did not have since the last complete one
\* (ntfs_attr_update_mapping_pairs, ntfs_mapping_pairs_build).
ExtentsExact == which = "extents" => X!ExtentsExact

\* What ntfs_attr_pread reads is an array of bytes, whatever is written,
\* truncated, moved into clusters or fails; a write whose mapping pairs cannot be
\* recorded reports an error and stays (ntfs_attr_pwrite, ntfs_attr_truncate).
ImplementsByteFile == which = "data" => D!ImplementsByteFile

\* After every call on a data attribute the bitmap and the run list account for
\* the same clusters, and so do the mapping pairs unless they could not be written
\* (ntfs_attr_pwrite, ntfs_attr_truncate, ntfs_attr_update_mapping_pairs).
ClustersAccounted == which = "data" => D!ClustersAccounted

\* The run list of a compressed file tells how each block was stored, the
\* clusters that compression saves are given back and the others kept, and no
\* write is refused while the volume has room (ntfs_compressed_pwrite).
BlocksExact ==
  which = "compressed" => C!BlocksAsStored /\ C!BlocksAccounted /\ C!WritesAccepted

\* ntfs_decompress undoes ntfs_comp_set.
RoundTrip == which = "codec" => L!RoundTrip

\* The lists and hash chains of a cache stay sound whatever sequence of calls
\* is made (ntfs_fetch_cache, ntfs_enter_cache, ntfs_invalidate_cache).
CacheIsSound == which = "cache" => R!CacheIsSound

\* The linked structure implements the bounded LRU sequence of LruSpec: hits,
\* evictions, results and what goes to dofree are the ones it promises
\* (ntfs_fetch_cache, ntfs_enter_cache, ntfs_invalidate_cache).
ImplementsLru == R!ImplementsLru
=============================================================================
