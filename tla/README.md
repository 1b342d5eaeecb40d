# A TLA+ model of NtfsPkg

NtfsPkg is a UEFI driver for NTFS: a port of libntfs-3g, a wrapper that came from
the Wii/GameCube port (devoptab calls, volume descriptors), and the
`EFI_FILE_PROTOCOL` on top. These modules model it layer by layer. Small instances
are checked by TLC; what matters most is proved with TLAPS for every value of the
constants.

## 1. The system

    Ntfs.c, Init.c                        driver binding, mount
    Ntfs*.c, Handle.c, DirectoryManage.c  EFI_FILE_PROTOCOL and its handles
    ntfs/ntfsfile.c ntfsdir.c             open files and directories
    ntfs/ntfsinternal.c ntfsvol.c         volume descriptors, device table
    ntfs/volume.c bootsect.c logfile.c    mounting, the journal
    ntfs/dir.c index.c                    names, indexes
    ntfs/inode.c mft.c attrlist.c         inodes and their records
    ntfs/attrib.c runlist.c compress.c    attributes and their data
    ntfs/security.c acls.c                descriptors and access control lists
    ntfs/lcnalloc.c bitmap.c cache.c      clusters, bits, caches
    ntfs/mst.c device.c uefi_io.c         records, bytes, sectors, EFI DiskIo

There are no threads. What makes the code hard is elsewhere: calls that come back
into the driver from within a call (a media change during Start); errors between
two steps of an operation that writes several structures; a loss of power between
two writes; another system, Windows, that uses the volume in between; objects that
are in a cache and in use at once; copies of the same fact (index entry and inode,
path cache and directory, list of open files and handle, record and mirror, bitmap
and run list, run list and mapping pairs) that every operation has to keep in
agreement; functions that call each other in a circle (attribute lists); and
computations on partial bytes, sectors, clusters and buffers. `hazards` in
`PROJECT.json` lists them with the line where each one bites.

## 2. Modules

| Module | Models | State; how actions correspond to the code |
|---|---|---|
| `DriverBinding` | `Ntfs.c`, `Init.c`, `ntfsvol.c`, `Misc.c` | protocols of a controller, device table, volumes, the lock; Start and Stop in steps, so that a media change can nest a Stop and a Start in them |
| `Mount` | `volume.c`, `bootsect.c`, `logfile.c`, record writes of `mft.c` | boot sector, disk, Windows' journal and memory, the `ntfs_volume`; one action per stage of `ntfs_device_mount` |
| `FileProtocol` | `Ntfs*.c`, `Handle.c`, `DirectoryManage.c`, `ntfsfile.c`, `ntfsdir.c` | handles, open lists; an action is a call; composes with `Inode` |
| `FileStream` | `NtfsRead.c`, `NtfsWrite.c`, `Ntfs?etPosition.c`, `ntfsfile.c` | bytes and size of the attribute, `pos`, `len` and `write` of `ntfs_file_state`; an action is a call |
| `ByteStream` | what a handle promises | abstract; `FileStream` implements it |
| `Namespace` | `dir.c`, `ntfsinternal.c`, rename of `ntfsdir.c` | directory entries, FILE_NAME attributes, link counts, path cache; an action is a call |
| `IndexTree` | `index.c`, `ntfs_readdir` | index root, blocks, bitmap; the functions are operators on this state, AddKey and RemoveKey the actions |
| `Inode`, `InodeCache` | `inode.c` | inodes in memory, records and index on disk, cache of closed inodes; operators on a volume, and the callers |
| `AttrRecord` | `attrib.c` (records), `attrlist.c`, `inode.c` (attribute lists) | attribute records of every MFT record, the list; the recursion of the C functions is kept |
| `MftAlloc` | `mft.c` | three sets of sizes of `$MFT` (opened, record in memory, device), bitmap, records |
| `AttrExtents`, `Runlist` | `attrib.c` (mapping), `runlist.c` | the array of run list elements, mapping pairs of every extent, byte by byte where their width matters |
| `AttrData` | `attrib.c` (reading, writing, resizing) | record, open attribute, clusters and their bytes |
| `ByteFile` | what a data attribute promises | relations between the bytes before and after a call |
| `Compressed` | `compress.c`, compressed parts of `attrib.c` | the array of the run list, edited in place; contents are the size a block compresses to |
| `Lznt1` | `compress.c` (coder, decoder) | buffer, token by token |
| `ClusterAlloc` | `lcnalloc.c`, resizing callers in `attrib.c` | `$Bitmap`, zones, run lists, locals of the call; one step per turn of the loop |
| `BitmapRun` | `bitmap.c` | bits, locals of the call; one step per window of the buffer |
| `MstRecord` | `mst.c`, record I/O of `mft.c` | blocks of a record in memory, in the MFT and in its mirror; one step per block |
| `Device` | `device.c`, `uefi_io.c` | sectors, locals of the call; one step per sector |
| `ByteDisk` | what the device promises | abstract; `Device` implements it |
| `LruCache` | `cache.c` | the linked LRU list, free list and hash chains; an action is a call |
| `LruSpec` | what a cache promises | abstract; `LruCache` implements it, `Inode` and `Namespace` use it |
| `Security` | `security.c` | `$SDS`, `$SII`, `$SDH`, the files' descriptors, three caches; an action is a call |
| `Acls` | `acls.c`, `build_inherited_id` | a list of access control entries; what is built, read back and inherited |
| `ClusterAllocProofs`, `ClusterSpaceProofs`, `StorageProofs`, `FileStreamProofs`, `VolumeProofs`, `InodeProofs`, `FileProtocolLemmas`, `FileProtocolProofs` | | theorems (section 5) |

`MC*` modules put components side by side for one run and hold values of constants
that a `.cfg` cannot write. Components that call each other are composed where a
property is about both (`FileProtocol` and `InodeCache` over `Inode`, the caches over
`LruSpec`, `AttrExtents` over `Runlist`); components that only share a run have a
variable `which` that says which of them is at work. `MCStorage`, `MCVolume` and
`MCData` extend the components that have theorems: what TLC checks there is, name for
name, what is proved.

A variable is a structure, or a field of one, that outlives a call; the locals of a
call that is modelled in several steps are one record (`op`). Variables marked
*ghost* belong to the properties. Where a call changes several structures through
functions that call each other, the functions are operators from state to state and
keep their C names, so that the action contains every change its callees make, their
error exits included. `map` in `PROJECT.json` gives the lines of every definition.

Assumptions on the environment:

- `Init.c` calls `ntfsMount` with one argument more than it is declared with; the
  models take the mount flags to be 0. Hence names are compared with case, access
  times are not updated and the volume is writable.
- `ntfsMount` calls `ntfs_device_mount`, and only `ntfs_mount` creates caches. So
  volumes of the driver have no inode, path and security caches (`FileProtocol`);
  `InodeCache`, `Namespace` and `Security` also check the library with them.
- Freed memory keeps its content until it is allocated again.
- The disk writes a sector as a whole or not at all; an interrupted transfer has
  written a prefix of its sectors.
- Windows (in `Mount`) and the EFI services are modelled from how the code uses them.

## 3. Runs

Each passing run checks the properties named in `PROJECT.json`, whose comments in the
modules say what they mean; every property has a mutant, a plausible bug in a mapped
definition under which TLC finds it violated in the same run.

| Run | Bounds | Shows |
|---|---|---|
| `storage` | device of 3 sectors of 2 bytes, requests up to 4 bytes; bitmap of 6 bytes of 3 bits, buffer of 2; record of 3 blocks, 7 sequence numbers, 3 errors; 6 clusters in 3 zones, 2 of them free at first, 2 files, 1 error | the device is a disk of bytes; exactly the run of bits changes and the loop ends; a torn record is always recognised and one copy survives the first failure; no cluster has two owners, none is leaked without errors, every search ends |
| `data` | clusters 1, 2 and 129, 6 vcns, extents with room for 9 and 5 bytes of pairs, calls that find no further MFT record or no room for the attribute list; 2 clusters of 2 bytes, sizes to 5, one failure in a call, of the device, of the record or for want of a record; 3 compression blocks of 2 clusters; sub-blocks of 8 bytes; cache of 3 entries, 4 keys in 2 chains; streams to 4 bytes in units of 2, an int from -3 to 2 | run list, mapping pairs and history agree, and half-written pairs lead to no foreign cluster; an attribute is an array of bytes for every call that can be made in every state, with failures; the run list tells how each compressed block is stored; decoding undoes coding; the caches are LRU sequences; a handle is a stream of bytes |
| `metadata` | a file with up to 2 names, 2 streams and 2 extent records, MFT records of 12 units; 8 keys in up to 6 blocks; volumes of up to 8 records: fragmented, fresh with room for one cluster, and full, sequence numbers that wrap at 2, a failure at any step, 1 crash | every attribute is found wherever it was moved, the list names what exists; every key is found, once, by lookup, walk and listing; a file keeps its MFT record, stale references are refused |
| `namespace` | 4 inodes (the two free ones can be exchanged), 2 names, depth 2, path cache of 2, 1 fault in a delete, a link or a rename | entries, link counts and FILE_NAME attributes agree; no fault leaves an entry that leads to a free record; nothing is cut off the root; the path cache tells the truth |
| `access` | root and 2 files, inode cache of 2, 4 structures, 1 error in any step of a sync; 3 files with descriptors in blocks of 8 cells, 6 identifiers, 3 calls; all modes and directories of Windows with grants, denials and audits, inheritance 2 levels deep, with and without a user mapping | one current inode for a record; closed means durable; `$Secure`, files and caches agree through failures and crashes; modes survive the way through access control lists and inheritance, which fit the memory allocated |
| `protocol` | 3 handles, root and 2 files, 5 structures | inodes of handles are live, the open lists exact, closed files durable |
| `volume` | 3 controllers, 3 entries in the device table, 4 volumes; restart pages of 8 blocks, 5 log sequence numbers, 2 records; over 300 geometries, mirrors that are whole, short and empty | an installed file system is backed by an open device and its own volume; nothing is written while Windows has newer metadata; a failed mount releases each thing once; mirror and zones are right |

Why the bounds are enough: each is the smallest at which the cases a property is about
occur. A cache has fewer entries than there are keys, so that keys are evicted and come
back. The two free clusters are neighbours in different zones and chunks of the bitmap,
so that a search for both goes from chunk to chunk and zone to zone. Requests and runs
have partial sectors and bytes on both sides of whole ones. Clusters 1, 2 and 129 are
127 and 128 apart: a difference of 127 or -128 needs one byte, 128 needs two. A write
may begin before, in and after a hole, and before and after the end of the initialized
data. Index blocks split twice in a row and empty. Sequence numbers wrap. Inode numbers,
structures, handles, MFT records and offsets in `$SDS` are used again after they were
freed. Positions and lengths exceed an int.

Environments. A property may hold only for callers and conditions that exclude
something. Then the module has a set `Ops` of such conditions, Init chooses a subset
(`Environments`), and the property says with `Never(...)` what it excludes:

- `HandlesSound`: the lifetime of inodes excludes closing a handle that `NtfsOpenVolume`
  returned (these share one inode, while the root that `NtfsOpenFile` opens by its name
  has an inode of its own), listing a deleted directory and refused opens; the open
  lists exclude deletes, refused opens and closing directories that were listed.
  `FilesDurable` excludes flushing the root and opening a file twice.
- `NoStaleReplay` excludes the options NTFS_RECOVER and NTFS_IGNORE_HIBERFILE.
- `OpenFindsEntry` excludes renamed directories and faults when there is a path cache;
  `AllReached` excludes both.
- `InstalledIsBacked`: that the volume of an installed file system is mounted excludes
  controllers that are started again, uninstalls that fail and controllers whose volumes
  have the same mount name; the rest holds always.
- Faults of the disk are excluded where `ReleasedOnce` says that a failed mount leaks
  nothing, and in `MirrorIsCurrent`.
- `AttrExtents` is checked for two sets of callers, because an append to an attribute
  whose run list is only partly mapped does not work (section 4).
- `InodesSound` excepts the directory that a caller passes to `ntfs_inode_close_in_dir`
  when the sync of a name fails (section 4). `ClosedIsDurable` is about runs without
  failures.
- `AttributesFound` excepts hard links that a failed rollback strands, and says nothing
  once a stale pointer was used (section 4). `RecordsKept` says nothing of the bitmap
  once the undo of its extension has dropped a run, and the model ends there.
- `NoDanglingEntry`, in `LinksMatch`, excepts a link whose rollback fails as well: the code
  logs "Leaving inconsistent metadata".
- `ExtentsExact` says of an attribute whose pairs could not be written only that a reader
  finds no lcn that the vcn did not have since they were last complete, unless the sparse
  bit changed and the pairs were not yet moved. `ImplementsByteFile` and
  `ClustersAccounted` except such an attribute from what a later open finds; after a
  truncation that failed half way the models of both end.
- `InheritsRights`: that a list fits its buffer is claimed where a directory names the
  creator-owner and the creator-group at most twice each.
- `IndexSound` needs a root with room for more than an end entry (`RootRoom` of 1 or more).
- `ZonesFit`: the mount of a volume whose MFT starts directly behind its last cluster does
  not return; the property says that there is no other case.
- `NoLeak` is about runs without errors; `NoDoubleAllocation` excepts the clusters that a
  failed shrink freed and left mapped.
- `Compressed` is checked with `Writes = {}`: no zeroes are written over data, and no
  write reaches across the end of the file, where the code misbehaves (section 4).

Fairness: weak fairness of a turn of the loop of `ntfs_bitmap_set_bits_in_run`
(`OnBitmap(B!Turn)`) for `CallReturns`. The code is sequential: a loop that has a next
turn takes it. No fairness is assumed of callers, the disk or Windows. That the search
of the allocator ends is an action property (`SearchAdvances`): every turn lowers a
lexicographic measure, with no fairness at all.

Deadlock is checked in `namespace`. Elsewhere a model may end: one call, one coded
block, or versions, errors and calls used up to their bounds.

Violation runs state what a comment or header of the repository says and show an
execution of the code that contradicts it (`findings` quotes the text):

- `lru_shortage`: when malloc of an item's variable part fails, the LRU list of a
  cache gets a stale link, and the next hit closes it into a cycle (`cache.c:312`).
- `protocol_flush_root`: flushing a handle of the root writes an obsolete record over
  the directory; files created meanwhile are lost (`NtfsFlush.c:51`).
- `binding_restart`: a controller that is started again gets the descriptor of its
  first mount, whose volume was freed (`ntfsvol.c:433`).
- `journal_reset`: NTFS_RECOVER leaves the journal as it is, because the body of
  `ntfs_empty_logfile` is commented out (`logfile.c:708`).
- `write_buffer`: `ntfs_write_r` never advances its buffer, so that every compression
  block of a write gets the start of the buffer (`ntfsfile.c:301`).

## 4. Behaviour observed while modelling

The models contain these, and the properties are stated so that they hold beside them:

- A directory can be renamed to a place below itself (`ntfsdir.c:260`).
- `ntfs_readdir`, continued in the middle of the index blocks, tests the bitmap from
  the first bit of a byte (`dir.c:1336`); no caller continues.
- A write that the device stops in a hole reports what it has written, but the cluster
  added for the rest keeps what it held before, and is part of the file
  (`attrib.c:2199`). `ByteFile` and `ByteStream` promise nothing of those bytes.
- When the device stops a write in the middle, `ntfs_write_r` continues with the start
  of the buffer. After a write that failed, `file->len` is out of date: reads end early,
  and asking for the position moves it back.
- Positions and lengths are `int`: a position that does not fit is taken modulo 2^32
  and clipped. All ones, which is to mean the end of the file, is its start.
- An append to an attribute whose run list is partly mapped loses the unmapped part.
- An append for which there is no free cluster, to a sparse attribute of several extents
  that was just opened, stays longer although it fails: the error exit
  (`attrib.c:2290-2310`) writes the pairs from vcn 0 on with a run list that is not mapped
  there, and the shrink to the old size then cannot map it. The comment at
  `attrib.c:1855` wants the enlargement cancelled. The run list of `AttrData` is always
  mapped and does not show it.
- A write whose mapping pairs cannot be recorded (no MFT record, no attribute list) fails,
  and nothing is undone (`attrib.c:2233`, "could cause driver hang by infinite looping"):
  the open attribute has the bytes, the records do not. A truncation that fails this way
  leaves the size beyond the run list.
- The FIXME at `attrib.c:5922` (the sparse bit and the compressed size are wrong when the
  update starts in the middle) is out of date: an update that changes the bit starts over
  at vcn 0.
- When `ntfs_inode_sync_file_name` does not find the entry of a file it closes the
  directory, also the one its caller passed in and goes on to use (`inode.c:866`).
- A record of which four times the size is 2^32 or more makes the size of the mirror 0 or
  the product wrap (`bootsect.c:280`); a mirror that is read short is kept short
  (`volume.c:945`), and with no record left no MFT record is written any more. With the
  MFT directly behind the last cluster the mount does not end (`volume.c:594`).
- When `ntfs_attr_update_mapping_pairs_i` cannot add an extent to a new record it frees the
  record, with whatever making room for the list has moved there (`attrib.c:5867`);
  `ntfs_resident_attr_record_add` and its twin remove an attribute through a pointer from
  before the list moved its neighbours (`attrib.c:3835`, `:3975`).
- The undo of `ntfs_mft_bitmap_extend_allocation_i` takes the last run of the bitmap for
  the cluster it has added, also when the two were merged into one run (`mft.c:806`).
- `ntfs_ir_reparent` that finds no room for the smaller root has already made it a node,
  and does not take that back (`index.c:1170`).
- `ntfsLink` answers 0 when the new name cannot be converted (`ntfsinternal.c:526`): a
  rename then deletes the old name, and with it the file. An error after the last name was
  removed (`dir.c:2070`) makes a rename unlink the new name as well. A WIN32 name whose DOS
  name is gone cannot be deleted.
- `build_inherited_id` allocates for three SIDs each of owner and group; a directory with
  more generic creator entries gives a longer descriptor (`security.c:3829`).
- After a failed `ntfs_diropen_r` the inode of the directory is closed, and
  `DirectoryManage.c:92` may call it again with the same inode.
- Zeroes written over a compressed block, and a compressed write across the end of the
  file, damage the run list or are refused.
- The rollback of `ntfs_inode_add_attrlist` may strand a hard link: `ntfs_attr_record_move_to`
  takes it for the `$FILE_NAME` that is there already. `mft.c` counts freed records twice on
  one error path.
- `security.c`: no identifier can be created while `$SII` has fewer than two entries;
  `ntfs_set_file_security` leaves the cache for files without identifier; a hit in the
  cache of identifiers does not adjust the read-only attribute; rights read during a
  transient error are cached; the identifier inherited from a directory is cached
  without the user it was made for; an identifier whose `$Secure` could not be
  synchronised may be given out again after a crash; users whose number ends in 30 zero
  bits are mapped back to root.
- `DirectoryManage.c:128` tests a bit of the file attributes for that of a directory,
  and `:119` and `:155` use an inode or attribute that may not be there. Setting the
  position of a directory to 0 does not restart its listing.

## 5. Theorems

Every theorem holds for every value of the constants that the assumption named with it
allows. Each rests on an inductive invariant: the property itself says nothing of the
middle of a call, or of the other structures an operation reads. The strengthened
invariants were checked by TLC on the instances of section 3 before they were proved.
One lemma per action shows that it keeps the invariant.

**Clusters** (`ClusterAllocProofs`, `ClusterSpaceProofs`), from `GeometryAssumption` (a
bitmap byte and a buffer are not empty, the zones are in order, the bitmap covers the
volume) and `SystemAssumption` (metadata is on the volume), for every set of files and
number of errors:

- `TypeCorrect`: the types, with every zone position inside its zone.
- `SingleOwner`: no cluster is in two places of the run lists (`NoDoubleAllocation`) and
  every cluster in use is marked, apart from those a failed shrink freed and left mapped.
- `NothingLeaks`: without errors the bitmap holds what is in use and no more, and
  `free_clusters` is right (`NoLeak`).
- `SearchEnds`: every turn of the allocator lowers the measure (`SearchAdvances`).

In the middle of a call clusters are marked that belong to no file yet, and bits past the
end of the volume must not be taken. `IInv` adds that the run list under construction
holds marked clusters that nobody owns, each once (`GotIsPrivate`), that the padding of
the bitmap is set (`PadIsSet`) and that no metadata cluster is ever freed
(`SystemIsSafe`). The main lemma is `TakenIsFree`: what a turn takes from its window is
clear in the bitmap and on the volume. `Accounted` adds the run list under construction to
what is in use; that a failed call gives back the clusters it counted is a lemma about
cardinalities. The measure counts zones, passes and the rest of the zone; that it goes
down when the search turns from the second data zone to the MFT zone rests on
`ZonesInOrder`: the MFT zone is searched first or after both data zones.

**Records, sectors, bits** (`StorageProofs`):

- `RecordsStayWhole` (`RecordsAreWhole`), from `MstAssumption`: a record that the fixup
  accepts is one version, and a first failure leaves one whole copy. It bounds the
  failures by four less than there are update sequence numbers, 65532 for the code: after
  more of them a number may come round. `RecordInv` says that blocks with the same number
  are of the same version (`Sound`), which a write keeps only if its number is not on the
  medium; so `Behind` bounds how far the numbers on the medium are behind, by the
  failures so far.
- `DeviceIsByteArray` (`ImplementsByteDisk`), from `DeviceAssumption` (sectors and medium
  are not empty): `Device` implements `ByteDisk`. The mapping hides the write in progress;
  `DeviceInv` says that its buffer has the bytes of the request and, around them, those of
  the medium (`BufferIsReady`).
- `RunsAreSet` (`RunIsSet`), from `BitmapAssumption` (bytes and buffers of at least two
  bits and bytes): exactly the bits of a run change. `BitmapInv` relates the counters of
  the loop to the run (`Counted`) and says what has been written up to the window
  (`WrittenSoFar`) and what the buffer holds (`BufferFilled`).

**Handles as streams** (`FileStreamProofs`), from `StreamAssumption` (there is a zero byte,
units are not empty; a file may be longer than an int reaches):

- `PositionStaysInFile`: the position is in the file, the handle's length is never
  more than the file's, and equal to it unless a write failed.
- `StreamRefinement`: `FileStream` implements `ByteStream`, with `at <- pos` and
  `writable <- write`; `len` is hidden.

`IInv` is `TypeOK /\ PositionInFile`; it is what makes reads exact although they are cut
by `len`, and what makes the subtraction `len - pos` harmless until a write fails.
`UnitsInOrder`, `CallBeforeByte` and `WholeCall` are the facts about units and about the
calls a write is cut into.

**Open files** (`InodeProofs`, `FileProtocolLemmas`, `FileProtocolProofs`), from
`InodeAssumption` (finitely many files and structures) and `ProtocolAssumption` (fewer
than 65536 handles, because `openCount` has 16 bits), for every set of environments:

- `HandlesStaySound` (`HandlesSound`): inodes of handles are live, the open lists exact.
- `ClosedFilesDurable` (`FilesDurable`): a file that no handle is open on is on disk.

`InodeProofs` says what the functions of `inode.c` do to a volume without caches, one
lemma per function and volume, so that the lemmas about calls need not open them. `IInv`
adds that the open inodes of the root are clean, since directory changes go through inodes
of their own (`RootIsClean`); that no two usable handles of files share an inode
(`HandlesOwn`); that a directory handle has a live inode of the root, shared by no handle
unless it is the one of the volume (`RootsLive`), so that closing the others is harmless; and
that what is not on disk of a file is in the inode of its handle, which is dirty
(`Coherent`, in `InSync`).

**Volumes** (`VolumeProofs`). From `BindingAssumption`, for every number of controllers,
device table entries and volumes:

- `Backed` (`InstalledIsBacked`): an installed file system has an open device and a mount
  of its own. `IInv` adds that volumes are allocated in order (`InOrder`), that a protocol
  is installed once (`SfsIsOwn`) and that mounts are not shared (`MountsAreOwn`), which
  nested calls of Start and Stop keep.

From `MountAssumption`, for every journal geometry, set of MFT records and set of
geometries with fewer than 2^33 clusters:

- `WindowsKeepsItsChanges` (`NoStaleReplay`): nothing is written while Windows has newer
  metadata.
- `MountsAreReleased` (`ReleasedOnce`): a failed mount releases each thing once.
- `MirrorStaysCurrent` (`MirrorIsCurrent`).
- `ZonesAreInVolume` (`ZonesFit`): zones are in order and within the volume, the mirror is
  not written beyond what `$MFTMirr` has, and a mount that does not return is one of an MFT
  directly behind the last cluster.

`MountInv` has the shape of the state (`Shape`), what is open and what points to it
(`Tidy`), the mirror, and `JournalSound`: whatever Windows still owes to the disk shows in
the hibernation file or in the journal. For the journal that is `Owing`: the newest restart
page is one a mount refuses, and if it is torn, so that the mount falls back on the other
page, so is that one.

Only model-checked:

- liveness under fairness (`CallReturns`);
- what recursive definitions compute: `RunlistExact`, `ExtentsExact`, `BlocksExact`,
  `RoundTrip`, `ImplementsByteFile`, `ClustersAccounted` (run lists, mapping pairs and
  loops over their elements), `IndexSound`, `DirectoryListed`, `AttributesFound`,
  `RecordsKept`, `StaleRefused` (trees, lists and the recursion of allocation),
  `CacheIsSound`, `ImplementsLru` (linked lists), `OpenFindsEntry`, `LinksMatch`,
  `AllReached` (paths): they need induction over data;
- `InodesSound` and `ClosedIsDurable`, for volumes with an inode cache: entries are removed
  from its sequence by filtering and an unmount folds over the inodes, again induction
  (without the cache `HandlesStaySound` and `ClosedFilesDurable` cover `inode.c`);
- `SecureExact`, `FilesKeepDescriptor`, `CachesExact`, `ModeRoundTrip` and `InheritsRights`,
  which rest on searches and folds over `$SDS` and lists of entries.

## 6. Not modelled

`components` in `PROJECT.json` lists every part with its status. Left out are:

- handles of directories other than the root, which `NtfsOpenFile` treats like those of the
  root it opens by name: the files of `FileProtocol` are all in the root;
- event notifications that call into the driver during a call: an action of
  `FileProtocol` is a whole call;
- reparse points, symbolic links and object identifiers: their values are strings,
  their indexes those of `IndexTree`;
- extended attributes (not compiled without HAVE_SETXATTR) and encrypted data
  (`efs.c` copies the value of one attribute);
- collation, Unicode, file information and what a listing puts into EFI structures:
  conversions without state;
- volume labels, `$AttrDef`, `ntfs_attr_set_flags`, changes of short names, the user
  mapping file, geometry queries;
- the C library, logging and `utils.c`, which serves command line tools.
