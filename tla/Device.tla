------------------------------- MODULE Device -------------------------------
(***************************************************************************)
(* The UEFI device (ntfs/uefi_io.c) and the calls of ntfs/device.c through *)
(* which libntfs uses it: reads and writes of bytes at any offset, carried *)
(* out in whole sectors, one EFI_DISK_IO request for each sector.          *)
(*                                                                         *)
(* A write is one step for the buffer it prepares and one for each sector; *)
(* any request may fail, and requests past the end of the medium do.       *)
(* Memory that was allocated and not written is Junk.  The device has no   *)
(* cache (fd->cache is NULL) and starts at sector 0.                       *)
(***************************************************************************)
EXTENDS Integers, Sequences

CONSTANTS
  SectorSize,    \* fd->sectorSize
  NumSectors,    \* sectors of the medium
  Bytes,         \* values of a byte
  NoRequest,     \* no write in progress, for the abstract device
  Junk,          \* a byte of memory never written
  MaxCount       \* bound: bytes of a request

Size == NumSectors * SectorSize
Positions == 0..Size - 1

DeviceAssumption ==
  /\ SectorSize \in Nat \ {0} /\ NumSectors \in Nat \ {0} /\ MaxCount \in Nat
  /\ Junk \notin Bytes
  /\ \A S \in SUBSET Positions : NoRequest \notin [S -> Bytes]

NoWrite == [sector |-> -1]

VARIABLES
  medium,   \* the bytes of the medium
  dop,      \* the write in progress
  ret,      \* result of the last ntfs_pread or ntfs_pwrite
  dirty     \* NDevDirty

dvars == <<medium, dop, ret, dirty>>

DeviceInit == /\ medium \in [Positions -> Bytes]
        /\ dop = NoWrite /\ ret = <<"none">> /\ dirty = FALSE

----------------------------------------------------------------------------
sec_start(offset) == offset \div SectorSize
buffer_offset(offset) == offset % SectorSize

\* sectors that a request for count bytes touches
sec_count(offset, count) ==
  LET n == buffer_offset(offset) + count
  IN  IF n > SectorSize
        THEN n \div SectorSize + IF n % SectorSize # 0 THEN 1 ELSE 0
        ELSE 1

Aligned(offset, count) == buffer_offset(offset) = 0 /\ count % SectorSize = 0
OnMedium(sector) == sector \in 0..NumSectors - 1

\* readsectors: all of them or nothing
Readable(first, n) == \A s \in first..first + n - 1 : OnMedium(s)
readsectors(first, n) == [i \in 1..n * SectorSize |-> medium[first * SectorSize + i - 1]]

\* readbytes: straight into the buffer of the caller, or its part of a copy
readbytes(offset, count) ==
  LET sectors == readsectors(sec_start(offset), sec_count(offset, count))
  IN  IF Aligned(offset, count) THEN sectors
      ELSE SubSeq(sectors, buffer_offset(offset) + 1, buffer_offset(offset) + count)

----------------------------------------------------------------------------
EdgesRead(offset, count) ==
  {sec_start(offset) : x \in {y \in {0} : buffer_offset(offset) # 0}} \cup
  {sec_start(offset) + sec_count(offset, count) - 1 :
     x \in {y \in {0} : (buffer_offset(offset) + count) % SectorSize # 0}}

\* what writebytes hands to writesectors
SectorBuffer(offset, data) ==
  [i \in 1..sec_count(offset, Len(data)) * SectorSize |->
     LET p == sec_start(offset) * SectorSize + i - 1
     IN  IF p \in offset..offset + Len(data) - 1 THEN data[p - offset + 1]
         ELSE IF p \div SectorSize \in EdgesRead(offset, Len(data)) THEN medium[p]
         ELSE Junk]

\* ntfs_pwrite up to the first WriteDisk
ntfs_pwrite(offset, data) ==
  /\ dop = NoWrite
  /\ dirty' = TRUE
  /\ Aligned(offset, Len(data)) \/ \A s \in EdgesRead(offset, Len(data)) : OnMedium(s)
  /\ dop' = [offset |-> offset, data |-> data, buffer |-> SectorBuffer(offset, data),
            first |-> sec_start(offset), sector |-> sec_start(offset),
            numSectors |-> sec_count(offset, Len(data))]
  /\ UNCHANGED <<medium, ret>>

\* a sector at the edge could not be read, or there was no memory
PwriteFails ==
  /\ dop = NoWrite
  /\ dirty' = TRUE /\ ret' = <<"error">>
  /\ UNCHANGED <<medium, dop>>

\* Mutant: the buffer pointer is not moved.
writesectors_SamePtr ==
  /\ dop # NoWrite /\ OnMedium(dop.sector)
  /\ medium' = [p \in Positions |->
                IF p \div SectorSize = dop.sector
                  THEN dop.buffer[p - dop.sector * SectorSize + 1] ELSE medium[p]]
  /\ IF dop.numSectors = 1
       THEN dop' = NoWrite /\ ret' = <<"written">>
       ELSE /\ dop' = [dop EXCEPT !.sector = @ + 1, !.numSectors = @ - 1]
            /\ UNCHANGED ret
  /\ dirty' = TRUE

\* One turn of the loop in writesectors; after the last one ntfs_pwrite
\* returns the number of bytes.
writesectors ==
  /\ dop # NoWrite /\ OnMedium(dop.sector)
  /\ medium' = [p \in Positions |->
                IF p \div SectorSize = dop.sector
                  THEN dop.buffer[p - dop.first * SectorSize + 1] ELSE medium[p]]
  /\ IF dop.numSectors = 1
       THEN dop' = NoWrite /\ ret' = <<"written">>
       ELSE /\ dop' = [dop EXCEPT !.sector = @ + 1, !.numSectors = @ - 1]
            /\ UNCHANGED ret
  /\ dirty' = TRUE

\* WriteDisk fails: the sectors before stay written, the rest is not tried.
SectorFails ==
  /\ dop # NoWrite
  /\ dop' = NoWrite /\ ret' = <<"error">>
  /\ UNCHANGED <<medium, dirty>>

ntfs_pread(offset, count) ==
  /\ dop = NoWrite
  /\ \/ /\ Readable(sec_start(offset), sec_count(offset, count))
        /\ ret' = <<"read", offset, readbytes(offset, count)>>
     \/ ret' = <<"error">>
  /\ UNCHANGED <<medium, dop, dirty>>

ntfs_device_sync ==
  /\ dop = NoWrite /\ dirty
  /\ dirty' = FALSE
  /\ UNCHANGED <<medium, dop, ret>>

Counts == 1..MaxCount
DeviceNext ==
  \/ \E offset \in 0..Size, n \in Counts : \E data \in [1..n -> Bytes] : ntfs_pwrite(offset, data)
  \/ PwriteFails \/ writesectors \/ SectorFails
  \/ \E offset \in 0..Size, n \in Counts : ntfs_pread(offset, n)
  \/ ntfs_device_sync

DeviceSpec == DeviceInit /\ [][DeviceNext]_dvars

----------------------------------------------------------------------------
\* the bytes of a write that are not on the medium yet
LeftOf(write) ==
  [p \in {q \in Positions : /\ q \in write.offset..write.offset + Len(write.data) - 1
                            /\ q >= write.sector * SectorSize}
     |-> write.data[p - write.offset + 1]]

Left == IF dop = NoWrite THEN NoRequest ELSE LeftOf(dop)

Abstract == INSTANCE ByteDisk WITH bytes <- medium, left <- Left

\* The device is an array of bytes: the read, modify and write of the first
\* and last sectors never changes a byte outside of the request, success
\* means that all bytes are on the medium, reads return what is there.
ImplementsByteDisk == Abstract!Spec
=============================================================================
