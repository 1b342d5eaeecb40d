----------------------------- MODULE MstRecord -----------------------------
(***************************************************************************)
(* Multi sector transfer protection (ntfs/mst.c) of an mft record that is  *)
(* also in the mft mirror: ntfs_mft_records_write and the read of a file   *)
(* record (ntfs/mft.c).  Blocks of a record reach the medium one after the *)
(* other; any write may fail, and power may go at any moment.              *)
(*                                                                         *)
(* The data of a record is a version number: the body of every block and   *)
(* the word at its end (the one that the protection replaces) hold it.     *)
(***************************************************************************)
EXTENDS Integers

CONSTANTS
  Blocks,       \* blocks of NTFS_BLOCK_SIZE bytes in a record
  UsnMod,       \* values of the u16 update sequence number, 2^16
  MaxVersion,   \* bound: versions of the record
  MaxRecordErrors     \* bound: failed writes and power failures

MstAssumption ==
  /\ Blocks \in Nat \ {0} /\ UsnMod \in Nat /\ UsnMod > 3
  /\ MaxVersion \in Nat /\ MaxRecordErrors \in Nat
  /\ MaxRecordErrors <= UsnMod - 4    \* the numbers do not come round: 65532 failures

Block == 1..Blocks

\* A record: its update sequence number and array, and its blocks.
Record(usn, v) ==
  [usn |-> usn, usa |-> [b \in Block |-> v],
   body |-> [b \in Block |-> v], tail |-> [b \in Block |-> v]]

VARIABLES
  mem,      \* the record in memory
  loaded,   \* the record is in memory
  disk,     \* the record in the mft
  mirr,     \* the record in the mft mirror
  bmirr,    \* the copy made for the mirror
  pc,       \* "idle", "mft" or "mirr": what is being written
  at,       \* block to be written next
  saved,    \* ghost: version of the last write that reported success
  errors    \* ghost: failed writes and power failures so far

rvars == <<mem, loaded, disk, mirr, bmirr, pc, at, saved, errors>>

----------------------------------------------------------------------------
\* Mutant: every write uses the same number.
NextUsn_Same(usn) == usn

\* The update sequence number counts through 1 .. UsnMod - 2.
NextUsn(usn) ==
  LET n == (usn + 1) % UsnMod IN IF n = UsnMod - 1 \/ n = 0 THEN 1 ELSE n

ntfs_mst_pre_write_fixup(r) ==
  [usn |-> NextUsn(r.usn), usa |-> r.tail, body |-> r.body,
   tail |-> [b \in Block |-> NextUsn(r.usn)]]

ntfs_mst_post_write_fixup(r) == [r EXCEPT !.tail = r.usa]

\* no incomplete transfer is detected
Whole(r) == \A b \in Block : r.tail[b] = r.usn

ntfs_mst_post_read_fixup(r) == [r EXCEPT !.tail = r.usa]

\* Block b of a record goes to the medium; the first holds the update
\* sequence array.
WithBlock(on, r, b) ==
  [usn |-> IF b = 1 THEN r.usn ELSE on.usn,
   usa |-> IF b = 1 THEN r.usa ELSE on.usa,
   body |-> [on.body EXCEPT ![b] = r.body[b]],
   tail |-> [on.tail EXCEPT ![b] = r.tail[b]]]

----------------------------------------------------------------------------
RecordInit ==
  /\ mem = Record(1, 0) /\ loaded = TRUE
  /\ disk = [Record(1, 0) EXCEPT !.tail = [b \in Block |-> 1]] /\ mirr = disk
  /\ bmirr = mem /\ pc = "idle" /\ at = 1
  /\ saved = 0 /\ errors = 0

\* Some caller changes the record in memory.
Change ==
  /\ pc = "idle" /\ loaded /\ mem.body[1] < MaxVersion
  /\ mem' = Record(mem.usn, mem.body[1] + 1)
  /\ UNCHANGED <<loaded, disk, mirr, bmirr, pc, at, saved, errors>>

\* ntfs_mft_records_write: the copy for the mirror is made, the record is
\* protected.
ntfs_mft_records_write ==
  /\ pc = "idle" /\ loaded
  /\ bmirr' = mem
  /\ mem' = ntfs_mst_pre_write_fixup(mem)
  /\ pc' = "mft" /\ at' = 1
  /\ UNCHANGED <<loaded, disk, mirr, saved, errors>>

WriteMft ==
  /\ pc = "mft"
  /\ disk' = WithBlock(disk, mem, at)
  /\ IF at < Blocks
       THEN at' = at + 1 /\ UNCHANGED <<mem, bmirr, pc>>
       ELSE /\ mem' = ntfs_mst_post_write_fixup(mem)
            /\ bmirr' = ntfs_mst_pre_write_fixup(bmirr)
            /\ pc' = "mirr" /\ at' = 1
  /\ UNCHANGED <<loaded, mirr, saved, errors>>

WriteMirr ==
  /\ pc = "mirr"
  /\ mirr' = WithBlock(mirr, bmirr, at)
  /\ IF at < Blocks
       THEN at' = at + 1 /\ UNCHANGED <<pc, saved>>
       ELSE pc' = "idle" /\ at' = 1 /\ saved' = mem.body[1]
  /\ UNCHANGED <<mem, loaded, disk, bmirr, errors>>

\* The write of a block fails: the record in memory is deprotected, the
\* mirror is left alone if the mft was not written.
RecordWriteFails ==
  /\ pc # "idle" /\ errors < MaxRecordErrors
  /\ mem' = IF pc = "mft" THEN ntfs_mst_post_write_fixup(mem) ELSE mem
  /\ pc' = "idle" /\ at' = 1 /\ errors' = errors + 1
  /\ UNCHANGED <<loaded, disk, mirr, bmirr, saved>>

PowerFails ==
  /\ errors < MaxRecordErrors
  /\ loaded' = FALSE /\ pc' = "idle" /\ at' = 1 /\ errors' = errors + 1
  /\ UNCHANGED <<mem, disk, mirr, bmirr, saved>>

\* ntfs_file_record_read; a record with an incomplete transfer is refused
\* (EIO) and stays out of memory.
ntfs_file_record_read ==
  /\ ~loaded /\ Whole(disk)
  /\ mem' = ntfs_mst_post_read_fixup(disk)
  /\ loaded' = TRUE
  /\ UNCHANGED <<disk, mirr, bmirr, pc, at, saved, errors>>

RecordNext == \/ Change \/ ntfs_mft_records_write \/ WriteMft \/ WriteMirr
              \/ RecordWriteFails \/ PowerFails \/ ntfs_file_record_read

RecordSpec == RecordInit /\ [][RecordNext]_rvars

----------------------------------------------------------------------------
Versions == 0..MaxVersion
\* every block of r, once deprotected, is of version v
IsVersion(r, v) == \A b \in Block : r.body[b] = v /\ r.usa[b] = v

\* A record that ntfs_mst_post_read_fixup accepts is one version of the
\* record and no mixture of several, wherever writes of it broke off.
ReadIsWhole ==
  \A r \in {disk, mirr} : Whole(r) => \E v \in Versions : IsVersion(r, v)

\* The first failure, of a write or of power, at whatever moment, leaves the
\* record whole in the mft or in its mirror, in the last version that was
\* reported written or a later one.
OneCopyIsWhole ==
  errors = 0 \/ (errors = 1 /\ pc = "idle") =>
    \E r \in {disk, mirr} : Whole(r) /\ \E v \in saved..MaxVersion : IsVersion(r, v)

\* A record that ntfs_mst_post_read_fixup accepts is one version of the
\* record and no mixture; the first failure of a write or of power, at
\* whatever moment of ntfs_mft_records_write, leaves the record whole in the
\* mft or in its mirror, in the last version that was reported written or a
\* later one.
RecordsAreWhole == ReadIsWhole /\ OneCopyIsWhole
=============================================================================
