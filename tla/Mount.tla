------------------------------- MODULE Mount -------------------------------
(***************************************************************************)
(* Mounting and unmounting a volume (ntfs/volume.c) that Windows uses, too: *)
(* the boot sector (ntfs/bootsect.c), the zones of the cluster allocator,   *)
(* $MFT against $MFTMirr, the journal (ntfs/logfile.c) and the hibernation  *)
(* file, the release of what a failed mount has set up, and the writes of   *)
(* MFT records and their mirror (ntfs/mft.c) while the volume is mounted.   *)
(*                                                                         *)
(* Windows is external.  It writes a restart page that says "open" before   *)
(* it changes metadata in memory and one that says "clean" after the        *)
(* changes are on the disk, always over the older of the two pages; when it *)
(* hibernates, or restarts fast, the changes stay with it.                  *)
(*                                                                         *)
(* Abstracted: a record of the MFT is a version number.  The log record     *)
(* pages are never read.  $UpCase, $Volume and $AttrDef are loaded or not.  *)
(* The driver opens the device read-write: O_RDONLY is 0, and the open of   *)
(* ntfs/uefi_io.c never reports EROFS.                                      *)
(***************************************************************************)
EXTENDS Integers, FiniteSets, Sequences

CONSTANTS
  Usual,        \* the boot sector of a volume that Windows uses
  Boots,        \* boot sectors of volumes that are only mounted
  PageBlocks,   \* system_page_size of the journal, in blocks of 512 bytes
  Records,      \* MFT records that are written
  MaxLsn,       \* bound: restart pages written
  MaxVersion,   \* bound: versions of an MFT record
  MountEnvironments  \* sets of Conditions: what happens besides

\* Windows 8 writes restart pages of version 2.0; the volume holds the
\* hibernation file of Windows, or is another partition; the restart area goes
\* beyond the first block of its page; power may fail; the disk may fail;
\* callers mount with NTFS_RECOVER, or with NTFS_IGNORE_HIBERFILE.
Conditions == {"windows", "windows 8", "system volume", "long area", "power cut", "fault",
               "recover", "ignore hiberfile"}

PowersOfTwo ==
  {1, 2, 4, 8, 16, 32, 64, 128, 256, 512, 1024, 2048, 4096, 8192, 16384, 32768, 65536, 131072,
   262144, 524288, 1048576, 2097152, 4194304, 8388608, 16777216, 33554432, 67108864,
   134217728, 268435456, 536870912, 1073741824}

VARIABLES
  boot,   \* the boot sector, and the length of $MFTMirr
  disk,   \* the rest of the medium: log, hiber, txf, mft, mirr
  win,    \* Windows: whether it runs, and what the disk does not have of it
  vol,    \* the ntfs_volume, or NoVolume
  mem,    \* what it has open: see Detach
  mret,   \* errno of the last mount or unmount
  mops    \* what happens in this behaviour

mvars == <<boot, disk, win, vol, mem, mret, mops>>

Happens(op) == op \in mops
NoneOf(S) == mops \cap S = {}
NoVolume == [mounted |-> FALSE]

----------------------------------------------------------------------------
\* The boot sector

\* The clusters of a record, or if negative the logarithm of its size
IsRecordSize(c) == c \in -31..-9 \cup {1, 2, 4, 8, 16, 32, 64}

\* The sector, and the cluster: a power of two of sectors, not more than 64 KiB
MaxCluster == 65536
ClusterSize(b) == b.bytes_per_sector * b.sectors_per_cluster
IsSector(b) == b.bytes_per_sector \in 256..4096
IsCluster(b) == b.sectors_per_cluster \in {1, 2, 4, 8, 16, 32, 64, 128} /\ ClusterSize(b) <= MaxCluster

magicNTFS == "NTFS    "
ntfs_boot_sector_is_ntfs(b) ==
  /\ b.oem_id = magicNTFS /\ IsSector(b) /\ IsCluster(b)
  /\ IsRecordSize(b.clusters_per_mft_record) /\ IsRecordSize(b.clusters_per_index_record)

\* Sizes of records are counted in units of 256 bytes, of which every size that is
\* accepted is a multiple, and are u32: 2^24 units wrap to 0.  A negative number of
\* clusters is minus the logarithm of the size.
Unit == 256
U32(units) == units % 16777216
RecordSize(c, cluster) == IF c < 0 THEN 2^(-c - 8) ELSE c * (cluster \div Unit)

\* The sizes of the volume, or the sector count is 0, $MFT is behind the end, or
\* a size is no power of two.  Four records of 2^30 bytes or more are of size 0,
\* which leaves no record for the mirror.
Parsed(b) ==
  LET cluster == ClusterSize(b)
      units == cluster \div Unit
      record == RecordSize(b.clusters_per_mft_record, cluster)
  IN  [cluster_size |-> cluster,
       nr_clusters |-> b.sectors \div b.sectors_per_cluster,
       mft_lcn |-> b.mft_lcn,
       mft_record_size |-> record,
       indx_record_size |-> RecordSize(b.clusters_per_index_record, cluster),
       mftmirr_size |-> IF units <= U32(4 * record) THEN 4 ELSE units \div record]
ntfs_boot_sector_parse(b) ==
  LET p == Parsed(b) IN
  /\ b.sectors # 0
  /\ b.mft_lcn \in 0..p.nr_clusters /\ b.mftmirr_lcn \in 0..p.nr_clusters
  /\ p.cluster_size \in PowersOfTwo /\ p.mft_record_size \in PowersOfTwo

\* Mutant: the zone may reach the end of the volume.
Halved_ToTheEnd(lcn, size, n) ==
  LET fits == {d \in PowersOfTwo : lcn + size \div d <= n}
  IN  size \div (CHOOSE d \in fits : \A e \in fits : d <= e)

\* The zone is halved until it ends within the volume of n clusters, which it never
\* does when the MFT is directly behind the last one.
HalvesForever(lcn, size, n) == \A d \in PowersOfTwo : lcn + size \div d >= n
Halved(lcn, size, n) ==
  LET fits == {d \in PowersOfTwo : lcn + size \div d < n}
  IN  size \div (CHOOSE d \in fits : \A e \in fits : d <= e)

\* The MFT zone is an eighth of the volume behind the MFT; it starts with the
\* volume when the MFT is where mkntfs puts it, or further to the front.
Zones(p) ==
  LET up(bytes) == (bytes + p.cluster_size - 1) \div p.cluster_size
      early == (8192 + 2 * p.cluster_size - 1) \div p.cluster_size
      expected == IF early * p.cluster_size < 16384 THEN up(16384) ELSE early
      end == p.mft_lcn + Halved(p.mft_lcn, p.nr_clusters \div 8, p.nr_clusters)
  IN  [mft_zone_start |-> IF p.mft_lcn <= expected THEN 0 ELSE p.mft_lcn,
       mft_zone_pos |-> p.mft_lcn, mft_zone_end |-> end,
       data1_zone_pos |-> end, data2_zone_pos |-> 0]

\* The numbers of the boot sectors, and of the records that the data of $MFTMirr
\* has; fewer than 2^33 clusters (NTFS has no more than 2^32).
MaxZone == 1073741824
IsBoot(b) ==
  /\ b.bytes_per_sector \in Nat /\ b.sectors_per_cluster \in Nat /\ b.sectors \in Nat
  /\ b.mft_lcn \in Int /\ b.mftmirr_lcn \in Int /\ b.mirr_records \in Nat
  /\ Parsed(b).nr_clusters \div 8 < MaxZone

MountAssumption ==
  /\ PageBlocks \in {2, 4, 8, 16, 32} /\ MaxLsn \in Nat /\ MaxVersion \in Nat \ {0}
  /\ Records \subseteq Nat
  /\ MountEnvironments \subseteq SUBSET Conditions
  /\ \A b \in {Usual} \cup Boots : IsBoot(b)

----------------------------------------------------------------------------
\* The journal: two restart pages and what follows them

\* A restart page as Windows or chkdsk writes it: the sizes and offsets of its parts
\* (in bytes, of the page in blocks of 512 bytes), its lists of clients, of which
\* Windows is the only one, and whether only some of its blocks were written.
None == -1
RestartPage(magic, lsn, ver, used, clean, torn) ==
  [magic |-> magic, lsn |-> lsn, ver |-> ver, blocks |-> PageBlocks,
   usa |-> IF magic = "CHKD" THEN 0 ELSE 1 + PageBlocks,
   ra |-> 8 * ((39 + 2 * PageBlocks) \div 8), len |-> IF Happens("long area") THEN 512 ELSE 224,
   log_clients |-> 1, free |-> IF used = None THEN 0 ELSE None, used |-> used,
   clean |-> clean, torn |-> torn]
Blank == [magic |-> "FFFF", lsn |-> 0]
EmptyLog == [page |-> [i \in 1..2 |-> Blank], tail |-> "FFFF"]

\* What is at a block of the journal: a page, the inside of one, or the tail.
BlockAt(log, b) ==
  IF b = 0 THEN log.page[1]
  ELSE IF b = PageBlocks THEN log.page[2]
  ELSE [magic |-> IF b > PageBlocks THEN log.tail
                  ELSE IF log.page[1].magic = "FFFF" THEN "FFFF" ELSE "data"]

\* The update sequence array is behind the header of 30 bytes; a page that chkdsk
\* wrote may have none.
ntfs_check_restart_page_header(p, b) ==
  LET bare == p.magic = "CHKD" /\ p.usa = 0
      usa_end == 30 + 2 * p.usa
  IN  /\ p.blocks \in {1, 2, 4, 8, 16, 32, 64} /\ b \in {0, p.blocks} /\ p.ver \in {1, 2}
      /\ bare \/ (p.usa = 1 + p.blocks /\ usa_end <= 510)
      /\ p.ra % 8 = 0 /\ p.ra >= usa_end /\ p.ra <= 512 * p.blocks

\* The restart area: 48 bytes, of which half must be in the first block, and the
\* clients of 160 bytes.
ntfs_check_restart_area(p) ==
  LET ra_len == 48 + 160 * p.log_clients IN
  /\ p.ra + 24 <= 510 /\ p.ra + 48 <= 510
  /\ p.ra + ra_len <= 512 * p.blocks /\ p.ra + p.len <= 512 * p.blocks /\ ra_len <= p.len
  /\ p.free < p.log_clients /\ p.used < p.log_clients

\* The two lists have no more clients than there are.
ntfs_check_log_client_array(p) ==
  (IF p.free = None THEN 0 ELSE 1) + (IF p.used = None THEN 0 ELSE 1) <= p.log_clients

\* ntfs_check_and_load_restart_page: a page of which not all blocks were written
\* is refused when its restart area goes beyond the first block; otherwise it is
\* taken, with the signature that ntfs_mst_post_read_fixup gave it.
Loads(p, b) ==
  /\ ntfs_check_restart_page_header(p, b) /\ ntfs_check_restart_area(p)
  /\ p.torn /\ p.usa # 0 => p.ra + p.len <= 510
  /\ p.magic = "RSTR" /\ p.used # None => ntfs_check_log_client_array(p)
Signature(p) == IF p.torn /\ p.usa # 0 THEN "BAAD" ELSE p.magic

\* ntfs_check_logfile looks at block 0 and at every power of two, up to a log record
\* page, an empty block behind one that is not, or a second restart page.
Blocks == {0, 1, 2, 4, 8, 16, 32}
IsEmpty(log, b) == BlockAt(log, b).magic = "FFFF"
IsRestart(log, b) == BlockAt(log, b).magic \in {"RSTR", "CHKD"} /\ Loads(BlockAt(log, b), b)
Ends(log, b) ==
  \/ BlockAt(log, b).magic = "RCRD"
  \/ IsEmpty(log, b) /\ \E c \in Blocks : c < b /\ ~IsEmpty(log, c)
  \/ b # 0 /\ IsRestart(log, b)
RestartPages(log) ==
  LET ends == {b \in Blocks : Ends(log, b)}
  IN  {b \in Blocks : IsRestart(log, b) /\ \A c \in ends : c >= b}

\* Mutant: the first restart page is as good as the second one.
Current_First(log, found) == BlockAt(log, CHOOSE b \in found : \A c \in found : b <= c)

\* Of two restart pages the more recent one is taken.
Current(log, found) ==
  LET lsn(b) == BlockAt(log, b).lsn
  IN  BlockAt(log, CHOOSE b \in found : \A c \in found : lsn(c) < lsn(b) \/ (lsn(c) = lsn(b) /\ b <= c))

\* The volume was shut down cleanly: no client of the journal, or the flag.
ntfs_is_logfile_clean(p) ==
  Signature(p) \in {"RSTR", "CHKD"} /\ (p.used = None \/ p.clean)

\* ntfs_volume_check_logfile: version 2.0 is refused even if it is clean.
ntfs_volume_check_logfile(log) ==
  LET found == RestartPages(log)
      p == Current(log, found)
  IN  IF \A b \in Blocks : IsEmpty(log, b) THEN "ok"
      ELSE IF found = {} THEN "EOPNOTSUPP"
      ELSE IF p.ver = 2 THEN "EPERM"
      ELSE IF ntfs_is_logfile_clean(p) THEN "ok" ELSE "EOPNOTSUPP"

\* ntfs_empty_logfile: its body is commented out.
ntfs_empty_logfile(log) == log

\* A header of zeros, or no file, means that Windows is not hibernated.
ntfs_volume_check_hiberfile(hiber) == IF hiber \in {"none", "zero"} THEN "ok" ELSE "EPERM"

----------------------------------------------------------------------------
\* What a mount sets up and a release closes

\* mem.ptr: the fields of the ntfs_volume that are not NULL; mem.open: what is
\* open, with or without a field; mem.twice: something was closed twice.
NoMem == [ptr |-> {}, open |-> {}, twice |-> FALSE]
Attach(m, X) == [ptr |-> m.ptr \cup X, open |-> m.open \cup X, twice |-> m.twice]

\* Mutant: the pointers are not set to NULL.
Detach_Dangles(m, X) ==
  [ptr |-> m.ptr, open |-> m.open \ X, twice |-> m.twice \/ ~(X \cap m.ptr \subseteq m.open)]

\* What is attached is closed, and its pointers are set to NULL.
Detach(m, X) ==
  [ptr |-> m.ptr \ X, open |-> m.open \ X, twice |-> m.twice \/ ~(X \cap m.ptr \subseteq m.open)]

\* __ntfs_volume_release; an inode that cannot be synced is not freed, but its
\* pointer is gone all the same.
Release(m, unsynced) ==
  LET r == Detach(m, m.ptr) IN [r EXCEPT !.open = @ \cup (unsynced \cap m.ptr)]

\* What the error exit of a step that fails has closed, before the volume is released
Failed(m, x) ==
  CASE x = "mft_ni" -> Detach(Attach(m, {x}), {"mft_na", "mft_ni"})
    [] x \in {"mft_na", "mftbmp_na"} -> Detach(m, {"mft_na", "mft_ni"})
    [] x = "mftmirr_na" -> Detach(m, {"mftmirr_na", "mftmirr_ni"})
    [] x = "vol_ni" -> Attach(m, {x})
    [] x \in {"upcase", "attrdef"} -> [m EXCEPT !.open = @ \cup {x}]
    [] OTHER -> m

\* The records that are read of the mirror: those that it has, or if the disk fails
\* after the first ones, these.  The volume goes on with a shorter mirror.
MirrorRead(at) ==
  LET size == Parsed(boot).mftmirr_size
      all == IF boot.mirr_records < size THEN boot.mirr_records ELSE size
  IN  IF at = "mirror" THEN 0..all ELSE {all}

\* Mutant: the last record of the mirror is not compared.
MirrorMatches_ButLast(l) == \A i \in Records : i + 1 < l => disk.mft[i] = disk.mirr[i]

\* The l records that were read of the mirror are compared with those of the MFT.
MirrorMatches(l) == \A i \in Records : i < l => disk.mft[i] = disk.mirr[i]

\* The checks of a read-write mount; a journal that cannot be read is like one that
\* is not clean.
Hibernated(flags) ==
  IF "ignore hiberfile" \in flags THEN "ok" ELSE ntfs_volume_check_hiberfile(disk.hiber)
Unclean(flags, at) ==
  LET err == IF at = "journal" THEN "EOPNOTSUPP" ELSE ntfs_volume_check_logfile(disk.log)
  IN  IF "recover" \in flags /\ err # "EPERM" THEN "ok" ELSE err

\* What a step finds out that the disk delivers; ntfs_mst_pread wants records of whole
\* blocks of 512 bytes.
Found(flags, at, l, x) ==
  CASE x = "boot" -> IF ntfs_boot_sector_is_ntfs(boot) /\ ntfs_boot_sector_parse(boot)
                     THEN "ok" ELSE "EINVAL"
    [] x = "mft_ni" -> IF Parsed(boot).mft_record_size % 2 = 0 THEN "ok" ELSE "EINVAL"
    [] x = "compare" -> IF MirrorMatches(l) THEN "ok" ELSE "EIO"
    [] x = "hiberfile" -> Hibernated(flags)
    [] x = "logfile" -> Unclean(flags, at)
    [] OTHER -> "ok"

Attached == {"device", "mft_ni", "mft_na", "mftbmp_na", "mftmirr_ni", "mftmirr_na",
             "lcnbmp_ni", "lcnbmp_na", "vol_ni"}

\* The steps in the order of the code; $UpCase and $AttrDef are closed again.
Steps == <<"device", "boot", "mft_ni", "mft_na", "mftbmp_na", "mftmirr_ni", "mftmirr_na",
           "compare", "lcnbmp_ni", "lcnbmp_na", "upcase", "vol_ni", "attrdef",
           "hiberfile", "logfile", "txf">>

\* The steps of a mount: the checks are those of a read-write mount.
Taken(flags, x) ==
  /\ x \in {"hiberfile", "logfile", "txf"} => "ro" \notin flags
  /\ x = "hiberfile" => "ignore hiberfile" \notin flags

\* The steps that the disk fails, or that find something amiss: the first one ends
\* the mount, and what was set up before it is released.
Stops(flags, at, l) ==
  {k \in 1..16 : Taken(flags, Steps[k]) /\ (Steps[k] = at \/ Found(flags, at, l, Steps[k]) # "ok")}
Before(k) == {Steps[j] : j \in 1..(k - 1)} \cap Attached

ntfs_device_mount(flags, at, l) ==
  LET stops == Stops(flags, at, l)
      k == CHOOSE j \in stops : \A i \in stops : j <= i
      x == Steps[k]
      m == Attach(mem, Before(k))
  IN  IF stops = {} THEN [err |-> "ok", step |-> "none", mem |-> Attach(mem, Attached)]
      ELSE [err |-> IF x # at THEN Found(flags, at, l, x) ELSE IF x = "boot" THEN "EINVAL" ELSE "EIO",
            step |-> x, mem |-> Release(Failed(m, x), {})]

\* ntfs_volume_startup does not return: the boot sector is accepted, and the loop that
\* halves the MFT zone, before anything is read, has no end.
Hangs(at) ==
  LET p == Parsed(boot) IN
  /\ at \notin {"device", "boot"}
  /\ ntfs_boot_sector_is_ntfs(boot) /\ ntfs_boot_sector_parse(boot)
  /\ HalvesForever(p.mft_lcn, p.nr_clusters \div 8, p.nr_clusters)

\* The errors that ntfsMount returns
ntfs_volume_error(err) ==
  CASE err = "ok" -> "ok"
    [] err \in {"EINVAL", "EIO"} -> "EINVALPART"
    [] err = "EPERM" -> "EHIBERNATED"
    [] err = "EOPNOTSUPP" -> "EDIRTY"

----------------------------------------------------------------------------
\* The driver

\* A change of metadata, while Windows has newer metadata elsewhere or not
Changes(d) == win' = [win EXCEPT !.lost = @ \/ (d # disk /\ win.owed # "nothing")] /\ disk' = d

\* fix_txf_data: $TXF_DATA is made resident; when it cannot be written again after
\* it was truncated, it is lost, and when it cannot be read nothing happens.
fix_txf_data(at) ==
  IF disk.txf # "non-resident" THEN {disk.txf}
  ELSE IF at = "txf" THEN {"non-resident", "empty", "resident"}
  ELSE IF at = "txf value" THEN {"non-resident"} ELSE {"resident"}

MountVolume(flags, at, l) ==
  LET r == ntfs_device_mount(flags, at, l)
      rw == "ro" \notin flags
  IN  /\ ~vol.mounted /\ ~win.on /\ mret # "hangs"
      /\ flags \cap {"recover", "ignore hiberfile"} \subseteq mops
      /\ at # "none" => Happens("fault")
      /\ ~Hangs(at) /\ l \in MirrorRead(at)
      /\ mem' = r.mem /\ mret' = ntfs_volume_error(r.err)
      /\ \E txf \in IF rw /\ r.step \in {"none", "txf"} THEN fix_txf_data(at) ELSE {disk.txf} :
           Changes([disk EXCEPT !.txf = txf,
                                !.log = IF rw /\ r.err = "ok" /\ "recover" \in flags
                                        THEN ntfs_empty_logfile(@) ELSE @])
      /\ vol' = IF r.err # "ok" THEN NoVolume
                ELSE [mounted |-> TRUE, ro |-> ~rw, size |-> Parsed(boot), zone |-> Zones(Parsed(boot)),
                      mftmirr_size |-> l]
      /\ UNCHANGED <<boot, mops>>

\* The machine stays in the mount until it is reset.
MountHangs(at) ==
  /\ ~vol.mounted /\ ~win.on /\ mret # "hangs"
  /\ (at # "none" => Happens("fault")) /\ Hangs(at)
  /\ mem' = Attach(mem, {"device"}) /\ mret' = "hangs"
  /\ UNCHANGED <<boot, disk, win, vol, mops>>

\* The write of a read-only volume is dropped, and that of a volume without a mirror
\* is refused.
Dropped == vol.ro \/ vol.mftmirr_size = 0

\* ntfs_mft_records_write of one record: first $MFT, then its mirror, if the first
\* one succeeded; power may fail between the two.
ntfs_mft_records_write(i, how) ==
  LET mirrored == i < vol.mftmirr_size IN
  /\ vol.mounted /\ ~win.on /\ disk.mft[i] < MaxVersion
  /\ how \in {"fails", "mirror fails"} => Happens("fault")
  /\ how = "cut" => Happens("power cut")
  /\ how \in {"cut", "mirror fails"} => mirrored
  /\ Changes(IF Dropped \/ how = "fails" THEN disk
             ELSE [disk EXCEPT !.mft[i] = @ + 1,
                               !.mirr[i] = IF mirrored /\ how = "ok" THEN disk.mft[i] + 1 ELSE @])
  /\ IF how = "cut" THEN vol' = NoVolume /\ mem' = NoMem ELSE UNCHANGED <<vol, mem>>
  /\ UNCHANGED <<boot, mret, mops>>

\* ntfs_umount: whatever fails, the volume is gone.
UmountVolume(unsynced) ==
  /\ vol.mounted /\ (unsynced # {} => Happens("fault"))
  /\ mem' = Release(mem, unsynced) /\ vol' = NoVolume
  /\ mret' = IF unsynced = {} THEN "ok" ELSE "EBUSY"
  /\ UNCHANGED <<boot, disk, win, mops>>

----------------------------------------------------------------------------
\* Windows

Lsn == LET l == disk.log.page IN IF l[1].lsn > l[2].lsn THEN l[1].lsn ELSE l[2].lsn
Older == IF disk.log.page[1].lsn > disk.log.page[2].lsn THEN 2 ELSE 1

\* A restart page is written over the older one.
Restart(magic, ver, used, clean, torn) ==
  [page |-> [disk.log.page EXCEPT ![Older] = RestartPage(magic, Lsn + 1, ver, used, clean, torn)],
   tail |-> "RCRD"]
Running == Happens("windows") /\ win.on
Writing == Lsn < MaxLsn
Writes(log, hiber, mirr) ==
  disk' = [log |-> log, hiber |-> hiber, txf |-> disk.txf, mft |-> disk.mft, mirr |-> mirr]

\* Windows starts: it opens the journal, does what the journal says and forgets the
\* driver; it repairs the mirror.
WinBoot(torn) ==
  /\ Happens("windows") /\ ~win.on /\ Writing /\ (torn => Happens("power cut"))
  /\ LET log == Restart("RSTR", IF Happens("windows 8") THEN 2 ELSE 1, 0, FALSE, torn)
     IN  IF torn THEN Writes(log, disk.hiber, disk.mirr) /\ win' = win
         ELSE /\ Writes(log, IF disk.hiber = "none" THEN "none" ELSE "zero", disk.mft)
              /\ win' = [on |-> TRUE, owed |-> "nothing", lost |-> FALSE]
  /\ vol' = NoVolume /\ mem' = NoMem /\ mret' = "ok"
  /\ UNCHANGED <<boot, mops>>

WinChange ==
  /\ Running /\ win' = [win EXCEPT !.owed = "log"]
  /\ UNCHANGED <<boot, disk, vol, mem, mret, mops>>

\* What Windows owes is on the disk before the page is, which is of version 1.1.
WinShutdown(torn, left) ==
  /\ Running /\ Writing /\ (torn => Happens("power cut"))
  /\ Writes(Restart("RSTR", 1, IF left THEN None ELSE 0, ~left, torn), disk.hiber, disk.mirr)
  /\ win' = [on |-> FALSE, owed |-> "nothing", lost |-> win.lost]
  /\ UNCHANGED <<boot, vol, mem, mret, mops>>

\* Windows hibernates, or prepares a fast start: the journal may look clean, but
\* the hibernation file, or the version of the page, tells.
WinSleep(clean) ==
  /\ Running /\ Writing
  /\ Writes(Restart("RSTR", IF Happens("windows 8") THEN 2 ELSE 1, 0, clean, FALSE),
            IF Happens("system volume") THEN "hibr"
            ELSE IF Happens("windows 8") \/ ~clean THEN disk.hiber ELSE "short",
            disk.mirr)
  /\ win' = [on |-> FALSE, owed |-> "image", lost |-> win.lost]
  /\ UNCHANGED <<boot, vol, mem, mret, mops>>

\* Power fails while Windows runs, or the machine is reset while the volume is
\* mounted, or does not come back from a mount.
PowerCut ==
  /\ Happens("power cut") /\ (win.on \/ vol.mounted \/ mret = "hangs")
  /\ win' = [win EXCEPT !.on = FALSE] /\ vol' = NoVolume /\ mem' = NoMem /\ mret' = "ok"
  /\ UNCHANGED <<boot, disk, mops>>

\* chkdsk, from the recovery environment of a Windows that does not hibernate
Chkdsk ==
  /\ Happens("windows") /\ ~win.on /\ win.owed # "image" /\ ~vol.mounted /\ mret # "hangs" /\ Writing
  /\ Writes(Restart("CHKD", 1, None, FALSE, FALSE), disk.hiber, disk.mft)
  /\ win' = [on |-> FALSE, owed |-> "nothing", lost |-> FALSE]
  /\ UNCHANGED <<boot, vol, mem, mret, mops>>

----------------------------------------------------------------------------
MountInit ==
  /\ \/ boot = Usual /\ mops \in MountEnvironments
     \/ boot \in Boots /\ mops = {}
  /\ disk \in [log : {EmptyLog}, hiber : {"none"} \cup IF Happens("system volume") THEN {"zero"} ELSE {},
               txf : {"resident", "non-resident"},
               mft : {[i \in Records |-> 0]}, mirr : {[i \in Records |-> 0]}]
  /\ win = [on |-> FALSE, owed |-> "nothing", lost |-> FALSE]
  /\ vol = NoVolume /\ mem = NoMem /\ mret = "ok"

\* Where the disk fails: in a step, or in a part of one that does not end the mount.
Faults == {"none", "journal", "mirror", "txf value"} \cup {Steps[k] : k \in 1..16}

MountNext ==
  \/ \E flags \in SUBSET {"ro", "recover", "ignore hiberfile"}, at \in Faults :
       \E l \in MirrorRead(at) : MountVolume(flags, at, l)
  \/ \E at \in Faults : MountHangs(at)
  \/ \E i \in Records, how \in {"ok", "fails", "mirror fails", "cut"} : ntfs_mft_records_write(i, how)
  \/ \E unsynced \in {{}} \cup {{x} : x \in {"vol_ni", "lcnbmp_ni", "mft_ni", "mftmirr_ni"}} :
       UmountVolume(unsynced)
  \/ \E torn \in BOOLEAN : WinBoot(torn)
  \/ WinChange
  \/ \E torn, left \in BOOLEAN : WinShutdown(torn, left)
  \/ \E clean \in BOOLEAN : WinSleep(clean)
  \/ PowerCut
  \/ Chkdsk

MountSpec == MountInit /\ [][MountNext]_mvars

----------------------------------------------------------------------------
\* The driver never changes the metadata of a volume while Windows has newer
\* metadata in its journal or in its memory image, which it will write over what
\* the driver wrote, whichever of the restart pages was torn by a power cut and
\* whichever sign of hibernation there is (unless the caller asked to ignore it).
NoStaleReplay == NoneOf({"recover", "ignore hiberfile"}) => ~win.lost

\* After a mount that returned and failed, at whatever step, and after an unmount, the
\* volume points to nothing, nothing was closed twice and the device is closed; without
\* errors of the disk everything is.
ReleasedOnce ==
  /\ ~mem.twice /\ mem.ptr \subseteq mem.open
  /\ ~vol.mounted /\ mret # "hangs" => mem.ptr = {} /\ "device" \notin mem.open
  /\ NoneOf({"fault"}) => mem.open = mem.ptr

\* A mounted volume has a mirror that matches the start of its MFT, as far as the
\* mirror could be read, whatever power cut came between the writes of the two
\* before the mount.
MirrorIsCurrent ==
  vol.mounted /\ NoneOf({"fault"}) =>
    \A i \in Records : i < vol.mftmirr_size => disk.mirr[i] = disk.mft[i]

\* The zones that the mount sets up are within the volume and in the order that the
\* allocator of clusters needs, and the records that are written to the mirror are
\* ones that $MFTMirr has and no more than four records or a cluster, however its
\* read ended.  Only for an MFT directly behind the last cluster, which
\* ntfs_boot_sector_parse lets pass, does the mount not return.
ZonesFit ==
  /\ mret = "hangs" => boot.mft_lcn = Parsed(boot).nr_clusters
  /\ vol.mounted =>
       LET z == vol.zone
           p == vol.size
       IN  /\ z.mft_zone_start <= p.mft_lcn /\ p.mft_lcn = z.mft_zone_pos
           /\ z.mft_zone_pos <= z.mft_zone_end /\ z.mft_zone_end < p.nr_clusters
           /\ z.data1_zone_pos \in z.mft_zone_end..(p.nr_clusters - 1) /\ z.data2_zone_pos = 0
           /\ vol.mftmirr_size <= boot.mirr_records
           /\ vol.mftmirr_size <= 4 \/ vol.mftmirr_size * p.mft_record_size <= p.cluster_size \div Unit

\* What ntfs/ntfs.h says of NTFS_RECOVER, "Reset $LogFile if dirty": a volume that
\* is mounted read-write has a journal that is empty or clean.
JournalIsReset ==
  vol.mounted /\ ~vol.ro => ntfs_volume_check_logfile(disk.log) = "ok"
=============================================================================
