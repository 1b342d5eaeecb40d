--------------------------- MODULE StorageProofs ---------------------------
(***************************************************************************)
(* What the lower layers promise, for every value of their constants.      *)
(*                                                                         *)
(* Protected records: a record that the fixup accepts is one version, and  *)
(* the first failure leaves a good copy.  The argument is how far the      *)
(* numbers on the medium are behind the one in memory: at most one step    *)
(* for each failure, so that they do not come round and equal numbers are  *)
(* of the same write.                                                      *)
(*                                                                         *)
(* The device: a write of whole sectors is a write of the bytes of the     *)
(* request, because the buffer holds, for every sector still to be         *)
(* written, what is on the medium outside of the request.                  *)
(*                                                                         *)
(* Runs of bits: between two turns of the loop everything before the       *)
(* window has been written and nothing else has changed.                   *)
(***************************************************************************)
EXTENDS MstRecord, BitmapRun, Device, TLAPS

\* Update sequence numbers go round in Cycle steps.
Cycle == UsnMod - 2
Usns == 1..Cycle
Back(t, u) == IF t <= u THEN u - t ELSE u - t + Cycle

Rec == [usn : Usns, usa : [Block -> Versions], body : [Block -> Versions], tail : [Block -> Nat]]

RecordTypeOK ==
  /\ mem \in Rec /\ disk \in Rec /\ mirr \in Rec /\ bmirr \in Rec
  /\ loaded \in BOOLEAN /\ pc \in {"idle", "mft", "mirr"} /\ at \in Block
  /\ saved \in Versions /\ errors \in 0..MaxRecordErrors
  /\ pc # "idle" => loaded

\* A record in memory is one version, protected while the mft is written; so
\* is the copy for the mirror.
MemoryIsOne ==
  /\ loaded => /\ \A b \in Block : mem.body[b] = mem.body[1] /\ mem.usa[b] = mem.body[1]
               /\ \A b \in Block : mem.tail[b] = IF pc = "mft" THEN mem.usn ELSE mem.body[1]
               /\ saved <= mem.body[1]
  /\ pc # "idle" => \A b \in Block : bmirr.body[b] = mem.body[1]
  /\ pc = "mft" => /\ NextUsn(bmirr.usn) = mem.usn
                   /\ \A b \in Block : bmirr.tail[b] = mem.body[1]
  /\ pc = "mirr" => /\ bmirr.usn = mem.usn
                    /\ \A b \in Block : bmirr.usa[b] = mem.body[1] /\ bmirr.tail[b] = mem.usn

\* A record on the medium: blocks with the same number are of one version,
\* and none is older than what was reported written.
Sound(r) ==
  /\ \A b \in Block : r.tail[b] \in Usns
  /\ r.usn = r.tail[1]
  /\ \A b \in Block : r.usa[b] = r.body[1] /\ saved <= r.body[b]
  /\ \A b, c \in Block : r.tail[b] = r.tail[c] => r.body[b] = r.body[c]

\* A write that is under way has reached the blocks before at, and no other.
WrittenUpto(r, upto) ==
  \A b \in Block : IF b < upto THEN r.tail[b] = mem.usn /\ r.body[b] = mem.body[1]
                   ELSE r.tail[b] # mem.usn
Progress ==
  /\ pc = "mft" => WrittenUpto(disk, at)
  /\ pc = "mirr" => WrittenUpto(disk, Blocks + 1) /\ WrittenUpto(mirr, at)

\* The mirror is behind the mft, and neither is behind the record in memory by
\* more than the failures so far and the write under way.
Behind ==
  \A b, c \in Block :
    /\ Back(disk.tail[b], mem.usn) <= Back(mirr.tail[c], mem.usn)
    /\ Back(mirr.tail[c], mem.usn) <= errors + (IF pc = "idle" THEN 0 ELSE 1)

\* The copy that a first failure leaves.
Spare ==
  /\ errors = 0 /\ pc # "mirr" => Whole(mirr)
  /\ errors = 1 /\ pc = "idle" => Whole(disk) \/ Whole(mirr)

RecordInv == RecordTypeOK /\ MemoryIsOne /\ Sound(disk) /\ Sound(mirr) /\ Progress /\ Behind /\ Spare

----------------------------------------------------------------------------
\* NextUsn goes round the cycle: "if (!usn || usn == 0xffff) usn = 1".
LEMMA NextInCycle ==
  ASSUME MstAssumption, NEW u \in Usns
  PROVE  /\ NextUsn(u) = IF u = Cycle THEN 1 ELSE u + 1
         /\ NextUsn(u) \in Usns
<1>1. u + 1 \in 0..(UsnMod - 1) /\ UsnMod \in Nat /\ UsnMod > 3
  BY DEF MstAssumption, Usns, Cycle
<1>2. (u + 1) % UsnMod = u + 1
  BY <1>1
<1> QED BY <1>1, <1>2 DEF NextUsn, Usns, Cycle

\* A step of the number in memory is a step further behind.
LEMMA BackGrows ==
  ASSUME MstAssumption, NEW t \in Usns, NEW u \in Usns, Back(t, u) + 1 < Cycle
  PROVE  Back(t, NextUsn(u)) = Back(t, u) + 1
  BY NextInCycle DEF Back, Usns, Cycle, MstAssumption

\* How far one number is behind another, when both are behind a third.
LEMMA BackBetween ==
  ASSUME MstAssumption, NEW s \in Usns, NEW t \in Usns, NEW u \in Usns,
         Back(t, u) <= Back(s, u)
  PROVE  Back(s, t) = Back(s, u) - Back(t, u)
  BY DEF Back, Usns, Cycle, MstAssumption

\* Only a number itself is no step behind.
LEMMA BackZero ==
  ASSUME MstAssumption, NEW t \in Usns, NEW u \in Usns
  PROVE  Back(t, u) \in Nat /\ (Back(t, u) = 0 <=> t = u)
  BY DEF Back, Usns, Cycle, MstAssumption

\* The first block exists.
LEMMA FirstBlock == MstAssumption => 1 \in Block /\ Blocks \in Block /\ Block \subseteq Nat
  BY DEF MstAssumption, Block

----------------------------------------------------------------------------
\* A change in memory.
LEMMA ChangeKeeps == ASSUME MstAssumption, RecordInv, Change PROVE RecordInv'
<1>1. mem.body[1] \in Versions /\ mem.body[1] + 1 \in Versions
  BY FirstBlock DEF Change, RecordInv, RecordTypeOK, Rec, Versions, MstAssumption
<1>2. /\ mem' = Record(mem.usn, mem.body[1] + 1) /\ pc = "idle" /\ loaded
      /\ UNCHANGED <<loaded, disk, mirr, bmirr, pc, at, saved, errors>>
  BY DEF Change
<1>3. mem'.usn = mem.usn /\ mem'.body[1] = mem.body[1] + 1
  BY <1>2, FirstBlock DEF Record
<1>4. RecordTypeOK'
  <2>1. mem' \in Rec
    BY <1>1, <1>2 DEF Record, Rec, RecordInv, RecordTypeOK, Versions
  <2> QED BY <1>2, <2>1 DEF RecordInv, RecordTypeOK, Rec, Block, Versions
<1>5. MemoryIsOne'
  <2>1. saved <= mem.body[1] + 1
    BY <1>1, <1>2 DEF RecordInv, MemoryIsOne, RecordTypeOK, Versions
  <2> QED BY <1>2, <1>3, <2>1 DEF MemoryIsOne, Record
<1>6. Sound(disk)' /\ Sound(mirr)' /\ Spare'
  BY <1>2 DEF RecordInv, Sound, Spare, Whole
<1>7. Progress'
  BY <1>2 DEF Progress
<1>8. Behind'
  BY <1>2, <1>3 DEF RecordInv, Behind, Back
<1> QED BY <1>4, <1>5, <1>6, <1>7, <1>8 DEF RecordInv

\* ntfs_mft_records_write takes the next number: what is on the medium is now
\* a step further behind, and none of it has that number.
LEMMA StartKeeps == ASSUME MstAssumption, RecordInv, ntfs_mft_records_write PROVE RecordInv'
<1>1. /\ mem' = ntfs_mst_pre_write_fixup(mem) /\ bmirr' = mem /\ pc' = "mft" /\ at' = 1
      /\ pc = "idle" /\ loaded /\ UNCHANGED <<loaded, disk, mirr, saved, errors>>
  BY DEF ntfs_mft_records_write
<1>2. /\ mem.usn \in Usns /\ NextUsn(mem.usn) \in Usns /\ mem \in Rec
      /\ mem'.usn = NextUsn(mem.usn) /\ mem'.body = mem.body
      /\ mem'.usa = mem.tail /\ mem'.tail = [b \in Block |-> NextUsn(mem.usn)]
  BY <1>1, NextInCycle DEF RecordInv, RecordTypeOK, Rec, ntfs_mst_pre_write_fixup
<1>3. \A b \in Block : mem.tail[b] = mem.body[1] /\ mem.body[b] = mem.body[1]
  BY <1>1 DEF RecordInv, MemoryIsOne
<1>4. RecordTypeOK'
  <2>1. mem' \in Rec
    <3>1. mem.tail \in [Block -> Versions]
      BY <1>2, <1>3, FirstBlock DEF Rec
    <3>2. [b \in Block |-> NextUsn(mem.usn)] \in [Block -> Nat]
      BY <1>2 DEF Usns
    <3> QED BY <1>1, <1>2, <3>1, <3>2 DEF Rec, ntfs_mst_pre_write_fixup
  <2> QED BY <1>1, <2>1, FirstBlock, Zenon DEF RecordInv, RecordTypeOK, Rec, Block, Versions
<1>5. MemoryIsOne'
  BY <1>1, <1>2, <1>3 DEF RecordInv, MemoryIsOne
<1>6. \A r \in {disk, mirr}, b \in Block :
        /\ r.tail[b] \in Usns /\ Back(r.tail[b], mem.usn) + 1 < Cycle
        /\ Back(r.tail[b], mem'.usn) = Back(r.tail[b], mem.usn) + 1
  <2> SUFFICES ASSUME NEW r \in {disk, mirr}, NEW b \in Block
               PROVE  /\ r.tail[b] \in Usns /\ Back(r.tail[b], mem.usn) + 1 < Cycle
                      /\ Back(r.tail[b], mem'.usn) = Back(r.tail[b], mem.usn) + 1
    OBVIOUS
  <2>1. r.tail[b] \in Usns /\ disk.tail[b] \in Usns /\ mirr.tail[b] \in Usns
    BY DEF RecordInv, Sound
  <2>2. Back(disk.tail[b], mem.usn) \in Nat /\ Back(mirr.tail[b], mem.usn) \in Nat
    BY <1>2, <2>1, BackZero
  <2>3. Back(r.tail[b], mem.usn) <= errors /\ errors \in Nat /\ errors + 2 <= Cycle
    BY <1>1, <2>2 DEF RecordInv, Behind, RecordTypeOK, MstAssumption, Cycle
  <2>4. Back(r.tail[b], mem.usn) + 1 < Cycle
    BY <2>2, <2>3 DEF Cycle, MstAssumption
  <2> QED BY <1>2, <2>1, <2>4, BackGrows
<1>7. \A r \in {disk, mirr}, b \in Block : r.tail[b] # mem'.usn
  BY <1>2, <1>6, BackZero
<1>8. Progress'
  BY <1>1, <1>7 DEF Progress, WrittenUpto, Block
<1>9. Behind'
  <2> SUFFICES ASSUME NEW b \in Block, NEW c \in Block
               PROVE  /\ Back(disk.tail[b], mem'.usn) <= Back(mirr.tail[c], mem'.usn)
                      /\ Back(mirr.tail[c], mem'.usn) <= errors + 1
    BY <1>1 DEF Behind, Block, Back, Cycle
  <2>1. Back(disk.tail[b], mem.usn) \in Nat /\ Back(mirr.tail[c], mem.usn) \in Nat
    BY <1>2, <1>6, BackZero
  <2> QED BY <1>1, <1>6, <2>1 DEF RecordInv, Behind, RecordTypeOK
<1>10. Sound(disk)' /\ Sound(mirr)' /\ Spare'
  BY <1>1 DEF RecordInv, Sound, Spare, Whole
<1> QED BY <1>4, <1>5, <1>8, <1>9, <1>10 DEF RecordInv

----------------------------------------------------------------------------
\* A block goes to a record on the medium: it stays sound, because no other
\* block has the number of this write unless it is of this write.
LEMMA BlockKeeps ==
  ASSUME MstAssumption, NEW on \in Rec, NEW r \in Rec, Sound(on), at \in Block, mem \in Rec,
         WrittenUpto(on, at), r.usn = mem.usn, saved <= mem.body[1],
         \A b \in Block : /\ r.usa[b] = mem.body[1] /\ r.body[b] = mem.body[1]
                          /\ r.tail[b] = mem.usn
  PROVE  LET new == WithBlock(on, r, at) IN
           new \in Rec /\ Sound(new) /\ WrittenUpto(new, at + 1)
<1> DEFINE new == WithBlock(on, r, at)
<1>1. /\ new.usn = IF at = 1 THEN mem.usn ELSE on.usn
      /\ new.usa = IF at = 1 THEN r.usa ELSE on.usa
      /\ \A b \in Block : new.body[b] = IF b = at THEN mem.body[1] ELSE on.body[b]
      /\ \A b \in Block : new.tail[b] = IF b = at THEN mem.usn ELSE on.tail[b]
  BY DEF WithBlock, Rec
<1>2. new \in Rec
  BY FirstBlock DEF WithBlock, Rec
<1> HIDE DEF new
<1>3. WrittenUpto(new, at + 1)
  BY <1>1, FirstBlock DEF WrittenUpto
<1>4. Sound(new)
  <2>1. mem.usn \in Usns
    BY DEF Rec
  <2>2. \A b \in Block : new.tail[b] \in Usns
    BY <1>1, <2>1 DEF Sound
  <2>3. new.usn = new.tail[1]
    BY <1>1, FirstBlock DEF Sound
  <2>4. \A b \in Block : saved <= new.body[b]
    BY <1>1 DEF Sound
  <2>5. \A b \in Block : new.usa[b] = new.body[1]
    BY <1>1, FirstBlock DEF Sound
  <2>6. \A b, c \in Block : new.tail[b] = new.tail[c] => new.body[b] = new.body[c]
    BY <1>1 DEF Sound, WrittenUpto
  <2> QED BY <2>2, <2>3, <2>4, <2>5, <2>6 DEF Sound
<1> QED BY <1>2, <1>3, <1>4 DEF new

\* A block of the record is written to the mft.
LEMMA MftKeeps == ASSUME MstAssumption, RecordInv, WriteMft PROVE RecordInv'
<1>1. /\ pc = "mft" /\ loaded /\ disk' = WithBlock(disk, mem, at)
      /\ UNCHANGED <<loaded, mirr, saved, errors>>
      /\ mem \in Rec /\ disk \in Rec /\ mirr \in Rec /\ at \in Block /\ errors \in Nat
  BY DEF WriteMft, RecordInv, RecordTypeOK
<1>2. disk' \in Rec /\ Sound(disk)' /\ WrittenUpto(disk', at + 1)
  <2>1. /\ Sound(disk) /\ WrittenUpto(disk, at) /\ saved <= mem.body[1]
        /\ \A b \in Block : /\ mem.usa[b] = mem.body[1] /\ mem.body[b] = mem.body[1]
                            /\ mem.tail[b] = mem.usn
    BY <1>1 DEF RecordInv, MemoryIsOne, Progress
  <2>2. disk' \in Rec /\ Sound(disk') /\ WrittenUpto(disk', at + 1)
    BY <1>1, <2>1, BlockKeeps
  <2> QED BY <1>1, <2>2 DEF Sound
<1>3. mem.usn \in Usns /\ \A b \in Block : disk.tail[b] \in Usns /\ mirr.tail[b] \in Usns
  BY <1>1 DEF RecordInv, Sound, Rec
<1>4. \A b \in Block : disk'.tail[b] = IF b = at THEN mem.usn ELSE disk.tail[b]
  BY <1>1 DEF WithBlock, Rec, RecordInv, MemoryIsOne
<1>5. \A b, c \in Block :
        /\ Back(disk'.tail[b], mem.usn) <= Back(mirr.tail[c], mem.usn)
        /\ Back(mirr.tail[c], mem.usn) <= errors + 1
  <2>1. \A c \in Block : Back(mirr.tail[c], mem.usn) \in Nat
    BY <1>3, BackZero
  <2>2. Back(mem.usn, mem.usn) = 0
    BY <1>3, BackZero
  <2> QED BY <1>1, <1>4, <2>1, <2>2 DEF RecordInv, Behind
<1>6. \A c \in Block : mirr.tail[c] # mem.usn
  <2>1. disk.tail[at] # mem.usn
    BY <1>1, FirstBlock DEF RecordInv, Progress, WrittenUpto
  <2> SUFFICES ASSUME NEW c \in Block PROVE mirr.tail[c] # mem.usn
    OBVIOUS
  <2>2. Back(disk.tail[at], mem.usn) \in Nat \ {0} /\ Back(mirr.tail[c], mem.usn) \in Nat
    BY <1>1, <1>3, <2>1, BackZero
  <2>3. Back(disk.tail[at], mem.usn) <= Back(mirr.tail[c], mem.usn)
    BY <1>1 DEF RecordInv, Behind
  <2> QED BY <1>3, <2>2, <2>3, BackZero
<1>7. CASE at < Blocks
  <2>1. at' = at + 1 /\ UNCHANGED <<mem, bmirr, pc>> /\ at + 1 \in Block
    BY <1>1, <1>7 DEF WriteMft, Block, MstAssumption
  <2>2. RecordTypeOK'
    BY <1>1, <1>2, <2>1 DEF RecordInv, RecordTypeOK, Rec, Block, Versions
  <2>3. MemoryIsOne'
    BY <1>1, <2>1 DEF RecordInv, MemoryIsOne
  <2>4. Progress'
    BY <1>1, <1>2, <2>1 DEF Progress, WrittenUpto
  <2>5. Behind'
    BY <1>1, <1>5, <2>1 DEF Behind, Back
  <2>6. Sound(mirr)' /\ Spare'
    BY <1>1, <2>1 DEF RecordInv, Sound, Spare, Whole
  <2> QED BY <1>2, <2>2, <2>3, <2>4, <2>5, <2>6 DEF RecordInv
<1>8. CASE ~(at < Blocks)
  <2>1. /\ mem' = ntfs_mst_post_write_fixup(mem) /\ bmirr' = ntfs_mst_pre_write_fixup(bmirr)
        /\ pc' = "mirr" /\ at' = 1 /\ at = Blocks
    BY <1>1, <1>8 DEF WriteMft, Block, MstAssumption
  <2>2. /\ mem'.usn = mem.usn /\ mem'.body = mem.body /\ mem'.usa = mem.usa /\ mem'.tail = mem.usa
        /\ mem' \in Rec
    BY <1>1, <2>1 DEF ntfs_mst_post_write_fixup, Rec, Versions
  <2>3. /\ bmirr'.usn = mem.usn /\ bmirr'.usa = bmirr.tail /\ bmirr'.body = bmirr.body
        /\ bmirr'.tail = [b \in Block |-> mem.usn]
    BY <1>1, <2>1 DEF ntfs_mst_pre_write_fixup, RecordInv, MemoryIsOne
  <2>4. bmirr' \in Rec
    <3>1. bmirr.tail \in [Block -> Versions]
      BY <1>1, FirstBlock DEF RecordInv, MemoryIsOne, RecordTypeOK, Rec
    <3>2. [b \in Block |-> mem.usn] \in [Block -> Nat]
      BY <1>3 DEF Usns
    <3>3. bmirr' = [usn |-> mem.usn, usa |-> bmirr.tail, body |-> bmirr.body,
                    tail |-> [b \in Block |-> mem.usn]]
      BY <1>1, <2>1 DEF ntfs_mst_pre_write_fixup, RecordInv, MemoryIsOne
    <3> QED BY <1>3, <3>1, <3>2, <3>3 DEF RecordInv, RecordTypeOK, Rec
  <2>5. RecordTypeOK'
    BY <1>1, <1>2, <2>1, <2>2, <2>4, FirstBlock, Zenon DEF RecordInv, RecordTypeOK, Rec, Block, Versions
  <2>6. MemoryIsOne'
    BY <1>1, <2>1, <2>2, <2>3 DEF RecordInv, MemoryIsOne
  <2>7. Progress'
    <3>1. WrittenUpto(disk, Blocks + 1)'
      BY <1>2, <2>1, <2>2 DEF WrittenUpto
    <3>2. WrittenUpto(mirr, 1)'
      BY <1>1, <1>6, <2>2 DEF WrittenUpto, Block
    <3> QED BY <2>1, <3>1, <3>2 DEF Progress
  <2>8. Behind'
    BY <1>1, <1>5, <2>1, <2>2 DEF Behind, Back
  <2>9. Sound(mirr)' /\ Spare'
    BY <1>1, <2>1 DEF RecordInv, Sound, Spare
  <2> QED BY <1>2, <2>5, <2>6, <2>7, <2>8, <2>9 DEF RecordInv
<1> QED BY <1>7, <1>8

\* A block of the copy is written to the mirror.
LEMMA MirrKeeps == ASSUME MstAssumption, RecordInv, WriteMirr PROVE RecordInv'
<1>1. /\ pc = "mirr" /\ loaded /\ mirr' = WithBlock(mirr, bmirr, at)
      /\ UNCHANGED <<mem, loaded, disk, bmirr, errors>>
      /\ mem \in Rec /\ disk \in Rec /\ mirr \in Rec /\ bmirr \in Rec
      /\ at \in Block /\ errors \in Nat
  BY DEF WriteMirr, RecordInv, RecordTypeOK
<1>2. mirr' \in Rec /\ Sound(mirr') /\ WrittenUpto(mirr', at + 1)
  <2>1. /\ Sound(mirr) /\ WrittenUpto(mirr, at) /\ saved <= mem.body[1] /\ bmirr.usn = mem.usn
        /\ \A b \in Block : /\ bmirr.usa[b] = mem.body[1] /\ bmirr.body[b] = mem.body[1]
                            /\ bmirr.tail[b] = mem.usn
    BY <1>1 DEF RecordInv, MemoryIsOne, Progress
  <2> QED BY <1>1, <2>1, BlockKeeps
<1>3. \A b \in Block : disk.tail[b] = mem.usn /\ disk.body[b] = mem.body[1]
  BY <1>1, FirstBlock DEF RecordInv, Progress, WrittenUpto, Block, MstAssumption
<1>4. mem.usn \in Usns /\ \A b \in Block : mirr.tail[b] \in Usns /\ mirr'.tail[b] \in Usns
  BY <1>1, <1>2 DEF RecordInv, Sound, Rec
<1>5. \A b \in Block : mirr'.tail[b] = IF b = at THEN mem.usn ELSE mirr.tail[b]
  BY <1>1 DEF WithBlock, Rec, RecordInv, MemoryIsOne
<1>6. Back(mem.usn, mem.usn) = 0 /\ \A c \in Block : Back(mirr'.tail[c], mem.usn) \in Nat
  BY <1>4, BackZero
<1>7. CASE at < Blocks
  <2>1. at' = at + 1 /\ UNCHANGED <<pc, saved>> /\ at + 1 \in Block
    BY <1>1, <1>7 DEF WriteMirr, Block, MstAssumption
  <2>2. RecordTypeOK'
    BY <1>1, <1>2, <2>1 DEF RecordInv, RecordTypeOK, Rec, Block, Versions
  <2>3. MemoryIsOne'
    BY <1>1, <2>1 DEF RecordInv, MemoryIsOne
  <2>4. Progress'
    BY <1>1, <1>2, <2>1 DEF RecordInv, Progress, WrittenUpto
  <2>5. Behind'
    <3>1. \A c \in Block : Back(mirr'.tail[c], mem.usn) <= errors + 1
      BY <1>1, <1>5, <1>6 DEF RecordInv, Behind
    <3> QED BY <1>1, <1>3, <1>6, <2>1, <3>1 DEF Behind, Back
  <2>6. Sound(disk)' /\ Sound(mirr)' /\ Spare'
    BY <1>1, <1>2, <2>1 DEF RecordInv, Sound, Spare
  <2> QED BY <2>2, <2>3, <2>4, <2>5, <2>6 DEF RecordInv
<1>8. CASE ~(at < Blocks)
  <2>1. pc' = "idle" /\ at' = 1 /\ saved' = mem.body[1] /\ at = Blocks
    BY <1>1, <1>8 DEF WriteMirr, Block, MstAssumption
  <2>2. \A b \in Block : mirr'.tail[b] = mem.usn /\ mirr'.body[b] = mem.body[1]
    BY <1>2, <2>1, FirstBlock DEF WrittenUpto, Block, MstAssumption
  <2>3. mem.body[1] \in Versions
    BY <1>1, FirstBlock DEF Rec
  <2>4. RecordTypeOK'
    BY <1>1, <1>2, <2>1, <2>3, FirstBlock, Zenon DEF RecordInv, RecordTypeOK, Rec, Block, Versions
  <2>5. MemoryIsOne'
    BY <1>1, <2>1, <2>3 DEF RecordInv, MemoryIsOne, Versions
  <2>6. Progress' /\ Behind'
    BY <1>1, <1>3, <1>6, <2>1, <2>2 DEF Progress, Behind, Back
  <2>7. Sound(disk)' /\ Sound(mirr)'
    BY <1>1, <1>2, <1>3, <2>1, <2>2, <2>3 DEF RecordInv, Sound, Versions
  <2>8. Whole(mirr)'
    BY <1>2, <2>2, FirstBlock DEF Whole, Sound
  <2> QED BY <2>4, <2>5, <2>6, <2>7, <2>8, <2>1 DEF RecordInv, Spare
<1> QED BY <1>7, <1>8

----------------------------------------------------------------------------
\* A failure, of a write or of power: the numbers may be one step further behind.
LEMMA FailureKeeps == ASSUME MstAssumption, RecordInv, RecordWriteFails \/ PowerFails PROVE RecordInv'
<1>1. /\ pc' = "idle" /\ at' = 1 /\ errors' = errors + 1 /\ errors < MaxRecordErrors
      /\ UNCHANGED <<disk, mirr, bmirr, saved>> /\ errors \in Nat /\ mem \in Rec
      /\ mem' = mem \/ mem' = ntfs_mst_post_write_fixup(mem)
  BY DEF RecordWriteFails, PowerFails, RecordInv, RecordTypeOK
<1>2. mem' \in Rec /\ mem'.usn = mem.usn /\ mem'.body = mem.body /\ mem'.usa = mem.usa
  BY <1>1 DEF ntfs_mst_post_write_fixup, Rec, Versions
<1>3. loaded' \in BOOLEAN /\ errors' \in 0..MaxRecordErrors
  <2>1. loaded' = FALSE \/ loaded' = loaded
    BY DEF RecordWriteFails, PowerFails
  <2>2. loaded' \in BOOLEAN
    BY <2>1, Zenon DEF RecordInv, RecordTypeOK
  <2>3. errors' \in 0..MaxRecordErrors
    BY <1>1 DEF MstAssumption
  <2> QED BY <2>2, <2>3
<1>4. RecordTypeOK'
  BY <1>1, <1>2, <1>3, FirstBlock, Zenon DEF RecordInv, RecordTypeOK, Rec, Block, Versions
<1>5. MemoryIsOne'
  <2>1. CASE PowerFails
    BY <1>1, <2>1 DEF PowerFails, MemoryIsOne
  <2>2. CASE RecordWriteFails
    <3>1. loaded /\ loaded' = loaded
      BY <2>2 DEF RecordWriteFails, RecordInv, RecordTypeOK
    <3>2. \A b \in Block : mem'.tail[b] = mem.body[1]
      BY <2>2, <3>1 DEF RecordWriteFails, ntfs_mst_post_write_fixup, RecordInv, MemoryIsOne, RecordTypeOK, Rec
    <3> QED BY <1>1, <1>2, <3>1, <3>2 DEF RecordInv, MemoryIsOne
  <2> QED BY <2>1, <2>2
<1>6. Sound(disk)' /\ Sound(mirr)' /\ Progress'
  BY <1>1 DEF RecordInv, Sound, Progress
<1>7. Behind'
  <2>1. mem.usn \in Usns /\ \A c \in Block : mirr.tail[c] \in Usns
    BY <1>1 DEF RecordInv, Sound, Rec
  <2>2. \A c \in Block : Back(mirr.tail[c], mem.usn) \in Nat
    BY <2>1, BackZero
  <2> QED BY <1>1, <1>2, <2>2 DEF RecordInv, Behind, Back
<1>8. Spare'
  <2>1. CASE errors = 0 /\ pc # "mirr"
    BY <1>1, <2>1 DEF RecordInv, Spare, Whole
  <2>2. CASE errors = 0 /\ pc = "mirr"
    <3>1. \A b \in Block : disk.tail[b] = mem.usn
      BY <2>2, FirstBlock DEF RecordInv, Progress, WrittenUpto, Block, MstAssumption
    <3>2. Whole(disk)
      BY <3>1, FirstBlock DEF RecordInv, Sound, Whole
    <3> QED BY <1>1, <2>2, <3>2 DEF Spare, Whole
  <2>3. CASE errors # 0
    BY <1>1, <2>3 DEF Spare
  <2> QED BY <2>1, <2>2, <2>3
<1> QED BY <1>4, <1>5, <1>6, <1>7, <1>8 DEF RecordInv

\* A record is read again after power came back: the number in memory goes back
\* to that of the mft, and the mirror is behind it by the difference.
LEMMA ReadKeeps == ASSUME MstAssumption, RecordInv, ntfs_file_record_read PROVE RecordInv'
<1>1. /\ ~loaded /\ loaded' = TRUE /\ Whole(disk) /\ mem' = ntfs_mst_post_read_fixup(disk)
      /\ UNCHANGED <<disk, mirr, bmirr, pc, at, saved, errors>> /\ pc = "idle"
      /\ disk \in Rec /\ mem \in Rec /\ errors \in Nat
  BY DEF ntfs_file_record_read, RecordInv, RecordTypeOK
<1>2. mem'.usn = disk.usn /\ mem'.body = disk.body /\ mem'.usa = disk.usa /\ mem'.tail = disk.usa
  BY <1>1 DEF ntfs_mst_post_read_fixup, Rec
<1>3. \A b \in Block : /\ disk.tail[b] = disk.usn /\ disk.body[b] = disk.body[1]
                       /\ disk.usa[b] = disk.body[1]
  BY <1>1, FirstBlock DEF Whole, RecordInv, Sound
<1>4. RecordTypeOK'
  <2>1. mem' \in Rec
    BY <1>1 DEF ntfs_mst_post_read_fixup, Rec, Versions
  <2> QED BY <1>1, <2>1 DEF RecordInv, RecordTypeOK, Rec, Block, Versions
<1>5. MemoryIsOne'
  BY <1>1, <1>2, <1>3, FirstBlock DEF RecordInv, MemoryIsOne, Sound
<1>6. Sound(disk)' /\ Sound(mirr)' /\ Progress' /\ Spare'
  BY <1>1 DEF RecordInv, Sound, Progress, Spare, Whole
<1>7. Behind'
  <2> SUFFICES ASSUME NEW b \in Block, NEW c \in Block
               PROVE  /\ Back(disk.tail[b], disk.usn) <= Back(mirr.tail[c], disk.usn)
                      /\ Back(mirr.tail[c], disk.usn) <= errors
    BY <1>1, <1>2 DEF Behind, Block, Back, Cycle
  <2>1. mem.usn \in Usns /\ disk.usn \in Usns /\ mirr.tail[c] \in Usns
    BY <1>1 DEF RecordInv, Sound, Rec
  <2>2. /\ Back(disk.usn, mem.usn) <= Back(mirr.tail[c], mem.usn)
        /\ Back(mirr.tail[c], mem.usn) <= errors
    BY <1>1, <1>3 DEF RecordInv, Behind
  <2>3. Back(mirr.tail[c], disk.usn) = Back(mirr.tail[c], mem.usn) - Back(disk.usn, mem.usn)
    BY <2>1, <2>2, BackBetween
  <2>4. /\ Back(disk.usn, mem.usn) \in Nat /\ Back(mirr.tail[c], mem.usn) \in Nat
        /\ Back(disk.usn, disk.usn) = 0
    BY <2>1, BackZero
  <2> QED BY <1>1, <1>3, <2>2, <2>3, <2>4
<1> QED BY <1>4, <1>5, <1>6, <1>7 DEF RecordInv

\* Every step of the record's life keeps the invariant.
LEMMA StepKeeps == ASSUME MstAssumption PROVE RecordInv /\ [RecordNext]_rvars => RecordInv'
<1> SUFFICES ASSUME RecordInv, [RecordNext]_rvars PROVE RecordInv'
  OBVIOUS
<1>1. CASE UNCHANGED rvars
  BY <1>1 DEF rvars, RecordInv, RecordTypeOK, MemoryIsOne, Sound, Progress, WrittenUpto, Behind, Spare,
              Whole, Rec, Block, Versions, Back, Usns
<1> QED BY <1>1, ChangeKeeps, StartKeeps, MftKeeps, MirrKeeps, FailureKeeps, ReadKeeps DEF RecordNext

\* It holds of a freshly formatted record.
LEMMA InitHolds == ASSUME MstAssumption PROVE RecordInit => RecordInv
<1> SUFFICES ASSUME RecordInit PROVE RecordInv
  OBVIOUS
<1>1. /\ mem.usn = 1 /\ \A b \in Block : mem.usa[b] = 0 /\ mem.body[b] = 0 /\ mem.tail[b] = 0
      /\ disk.usn = 1 /\ \A b \in Block : disk.usa[b] = 0 /\ disk.body[b] = 0 /\ disk.tail[b] = 1
      /\ mirr = disk /\ bmirr = mem /\ mem \in Rec /\ disk \in Rec /\ 1 \in Usns
  BY DEF RecordInit, Record, Rec, Usns, Cycle, Versions, MstAssumption
<1>2. RecordTypeOK
  BY <1>1, FirstBlock DEF RecordInit, RecordTypeOK, Versions, MstAssumption
<1>3. MemoryIsOne /\ Progress
  BY <1>1, FirstBlock DEF RecordInit, MemoryIsOne, Progress
<1>4. Sound(disk) /\ Sound(mirr) /\ Spare
  BY <1>1, FirstBlock DEF RecordInit, Sound, Spare, Whole
<1>5. Behind
  BY <1>1 DEF RecordInit, Behind, Back
<1> QED BY <1>2, <1>3, <1>4, <1>5 DEF RecordInv

\* Whatever writes fail and whenever power goes, fewer times than the update
\* sequence number has values: a record that the fixup accepts is one version
\* and no mixture, and the first failure leaves a whole copy in the mft or the
\* mirror, not older than the last write reported as done
\* (ntfs_mst_pre_write_fixup, ntfs_mst_post_read_fixup, ntfs_mft_records_write).
THEOREM RecordsStayWhole ==
  ASSUME MstAssumption
  PROVE  RecordSpec => []RecordsAreWhole
<1>1. RecordInv => ReadIsWhole /\ OneCopyIsWhole
  <2> SUFFICES ASSUME RecordInv PROVE ReadIsWhole /\ OneCopyIsWhole
    OBVIOUS
  <2>1. \A r \in {disk, mirr} :
          Whole(r) => /\ IsVersion(r, r.body[1])
                      /\ r.body[1] \in Versions /\ r.body[1] \in saved..MaxVersion
    BY FirstBlock DEF RecordInv, RecordTypeOK, Rec, Sound, Whole, IsVersion, Versions, MstAssumption
  <2>2. errors = 0 \/ (errors = 1 /\ pc = "idle") => Whole(disk) \/ Whole(mirr)
    <3>1. pc = "mirr" => Whole(disk)
      BY FirstBlock DEF RecordInv, Progress, WrittenUpto, Sound, Whole, Block, MstAssumption
    <3> QED BY <3>1 DEF RecordInv, Spare
  <2> QED BY <2>1, <2>2 DEF ReadIsWhole, OneCopyIsWhole
<1>2. RecordInv => RecordsAreWhole
  BY <1>1 DEF RecordsAreWhole
<1> QED BY <1>2, InitHolds, StepKeeps, PTL DEF RecordSpec
----------------------------------------------------------------------------
\* Quotient and remainder.
LEMMA Division ==
  ASSUME NEW w \in Nat, w > 0, NEW n \in Int
  PROVE  /\ n \div w \in Int /\ n % w \in Nat /\ n % w < w
         /\ n = (n \div w) * w + (n % w)
  OBVIOUS

\* They are the only ones.
LEMMA DivisionUnique ==
  ASSUME NEW w \in Nat, w > 0, NEW q \in Int, NEW r \in Nat, r < w
  PROVE  (q * w + r) \div w = q /\ (q * w + r) % w = r
<1> DEFINE d == (q * w + r) \div w
           m == (q * w + r) % w
<1>1. d \in Int /\ m \in Nat /\ m < w /\ q * w + r = d * w + m
  <2>1. q * w + r \in Int
    OBVIOUS
  <2> QED BY <2>1, Division
<1> HIDE DEF d, m
<1>2. (d - q) * w = r - m
  BY <1>1
<1>3. CASE d - q >= 1
  <2>1. (d - q) * w >= w
    BY <1>1, <1>3
  <2> QED BY <1>1, <1>2, <2>1
<1>4. CASE d - q <= -1
  <2>1. (d - q) * w <= -w
    BY <1>1, <1>4
  <2> QED BY <1>1, <1>2, <2>1
<1>5. CASE d = q
  BY <1>1, <1>2, <1>5 DEF d, m
<1> QED BY <1>1, <1>3, <1>4, <1>5

\* A product grows with its first factor.
LEMMA Product ==
  ASSUME NEW w \in Nat, NEW a \in Int, NEW b \in Int, a <= b
  PROVE  a * w <= b * w
<1>1. (b - a) * w >= 0
  OBVIOUS
<1> QED BY <1>1

----------------------------------------------------------------------------
\* Bytes of the device: the write in progress has prepared, for the sectors
\* that are still to be written, the bytes of its request and otherwise what
\* is on the medium.

InRequest(p) == p >= dop.offset /\ p < dop.offset + Len(dop.data)
SectorsEnd == dop.first + sec_count(dop.offset, Len(dop.data))

BufferIsReady ==
  \A p \in Positions :
    p >= dop.sector * SectorSize /\ p < SectorsEnd * SectorSize =>
      dop.buffer[p - dop.first * SectorSize + 1] =
        IF InRequest(p) THEN dop.data[p - dop.offset + 1] ELSE medium[p]

IsWrite ==
  /\ DOMAIN dop = {"offset", "data", "buffer", "first", "sector", "numSectors"}
  /\ dop.offset \in Nat /\ dop.data \in Seq(Bytes) /\ Len(dop.data) > 0
  /\ dop.first = sec_start(dop.offset)
  /\ dop.sector \in Nat /\ dop.sector >= dop.first
  /\ dop.numSectors \in Nat \ {0} /\ dop.sector + dop.numSectors = SectorsEnd

DeviceInv ==
  /\ medium \in [Positions -> Bytes]
  /\ dop # NoWrite => IsWrite /\ BufferIsReady

\* sec_count: the sectors of a request reach just to its end.
LEMMA SectorCount ==
  ASSUME DeviceAssumption, NEW offset \in Nat, NEW count \in Nat, count > 0
  PROVE  LET S == SectorSize
             c == sec_count(offset, count)
             m == (offset % S) + count
         IN  /\ c \in Nat /\ c > 0 /\ m \in Nat /\ m > 0
             /\ m <= c * S /\ (c - 1) * S < m
             /\ m % S = 0 => c * S = m
             /\ sec_start(offset) \in Nat
             /\ offset = sec_start(offset) * S + (offset % S) /\ offset % S \in Nat
<1> DEFINE S == SectorSize
           c == sec_count(offset, count)
           m == (offset % S) + count
<1>1. S \in Nat /\ S > 0
  BY DEF DeviceAssumption
<1>2. /\ offset \div S \in Int /\ offset % S \in Nat /\ offset % S < S
      /\ offset = (offset \div S) * S + (offset % S)
  <2>1. offset \in Int
    OBVIOUS
  <2> QED BY <1>1, <2>1, Division
<1>3. offset \div S >= 0
  BY <1>1, <1>2
<1>4. m \in Nat /\ m > 0
  BY <1>2
<1>5. m \div S \in Int /\ m % S \in Nat /\ m % S < S /\ m = (m \div S) * S + (m % S)
  <2>1. m \in Int
    BY <1>4
  <2> HIDE DEF m
  <2> QED BY <1>1, <2>1, Division
<1>6. c = IF m > S THEN (m \div S) + (IF m % S # 0 THEN 1 ELSE 0) ELSE 1
  BY DEF sec_count, buffer_offset
<1> HIDE DEF S, c, m
<1>7. CASE m > S
  <2>1. m \div S >= 1
    BY <1>1, <1>4, <1>5, <1>7
  <2>2. CASE m % S = 0
    <3>1. c = m \div S /\ c \in Nat /\ c > 0 /\ c * S = m /\ (c - 1) * S = m - S
      BY <1>1, <1>4, <1>5, <1>6, <1>7, <2>1, <2>2
    <3> QED BY <1>1, <1>2, <1>3, <1>4, <3>1 DEF S, c, m, sec_start
  <2>3. CASE m % S # 0
    <3>1. c = (m \div S) + 1 /\ c \in Nat /\ c > 0 /\ c - 1 = m \div S
      BY <1>1, <1>4, <1>5, <1>6, <1>7, <2>1, <2>3
    <3>2. c * S = m - (m % S) + S /\ (c - 1) * S = m - (m % S)
      BY <1>1, <1>4, <1>5, <3>1
    <3> QED BY <1>1, <1>2, <1>3, <1>4, <1>5, <2>3, <3>1, <3>2 DEF S, c, m, sec_start
  <2> QED BY <2>2, <2>3
<1>8. CASE m <= S
  <2>1. c = 1 /\ c * S = S /\ (c - 1) * S = 0
    BY <1>1, <1>4, <1>6, <1>8
  <2>2. m % S = 0 => m = S
    <3> SUFFICES ASSUME m < S PROVE m % S = m
      BY <1>1, <1>4, <1>8
    <3>1. (0 * S + m) % S = m /\ 0 * S + m = m
      BY <1>1, <1>4, DivisionUnique
    <3> QED BY <3>1
  <2> QED BY <1>1, <1>2, <1>3, <1>4, <1>8, <2>1, <2>2 DEF S, c, m, sec_start
<1> QED BY <1>1, <1>4, <1>7, <1>8

\* A byte is in a sector when it is between its ends.
LEMMA InSector ==
  ASSUME DeviceAssumption, NEW p \in Nat, NEW k \in Int
  PROVE  p \div SectorSize = k <=> k * SectorSize <= p /\ p < k * SectorSize + SectorSize
<1> DEFINE S == SectorSize
           d == p \div S
<1>1. S \in Nat /\ S > 0
  BY DEF DeviceAssumption
<1>2. d \in Int /\ d * S <= p /\ p < d * S + S
  <2>1. p \in Int
    OBVIOUS
  <2>2. d \in Int /\ p % S \in Nat /\ p % S < S /\ p = d * S + (p % S)
    BY <1>1, <2>1, Division
  <2> HIDE DEF d, S
  <2> QED BY <1>1, <2>2
<1>3. ASSUME k * S <= p, p < k * S + S PROVE d = k
  <2>1. p - k * S \in Nat /\ p - k * S < S /\ k * S + (p - k * S) = p
    BY <1>1, <1>3
  <2> HIDE DEF S
  <2>2. (k * S + (p - k * S)) \div S = k
    BY <1>1, <2>1, DivisionUnique
  <2> QED BY <2>1, <2>2
<1> QED BY <1>2, <1>3

\* writebytes: outside of its request the buffer holds what is on the medium,
\* because the sectors at the edges have been read.
LEMMA PwriteKeeps ==
  ASSUME DeviceAssumption, DeviceInv, NEW offset \in 0..Size, NEW n \in Counts,
         NEW data \in [1..n -> Bytes], ntfs_pwrite(offset, data)
  PROVE  DeviceInv' /\ dop' # NoWrite
<1> DEFINE S == SectorSize
           f == sec_start(offset)
           c == sec_count(offset, n)
           m == (offset % S) + n
<1>1. S \in Nat /\ S > 0 /\ Size \in Nat /\ offset \in Nat /\ n \in Nat /\ n > 0
  <2>1. S \in Nat /\ S > 0 /\ Size \in Nat /\ MaxCount \in Nat
    BY DEF DeviceAssumption, Size
  <2> QED BY <2>1 DEF Counts
<1>2. data \in Seq(Bytes) /\ Len(data) = n
  BY <1>1
<1>3. /\ c \in Nat /\ c > 0 /\ m \in Nat /\ m <= c * S /\ (c - 1) * S < m
      /\ (m % S = 0 => c * S = m) /\ f \in Nat /\ offset = f * S + (offset % S)
      /\ offset % S \in Nat
  BY <1>1, SectorCount
<1>4. /\ dop' = [offset |-> offset, data |-> data, buffer |-> SectorBuffer(offset, data),
                 first |-> f, sector |-> f, numSectors |-> c]
      /\ medium' = medium /\ medium \in [Positions -> Bytes]
  BY <1>2 DEF ntfs_pwrite, DeviceInv
<1>5. /\ dop'.offset = offset /\ dop'.data = data /\ dop'.first = f /\ dop'.sector = f
      /\ dop'.numSectors = c /\ dop'.buffer = SectorBuffer(offset, data)
      /\ DOMAIN dop' = {"offset", "data", "buffer", "first", "sector", "numSectors"}
  BY <1>4
<1>6. dop' # NoWrite
  BY <1>3, <1>5 DEF NoWrite
<1>7. SectorsEnd' = f + c
  BY <1>2, <1>5 DEF SectorsEnd
<1>8. IsWrite'
  <2>1. dop'.first = sec_start(dop'.offset) /\ f >= f
    BY <1>3, <1>5
  <2> HIDE DEF f, c
  <2> QED BY <1>1, <1>2, <1>3, <1>5, <1>7, <2>1 DEF IsWrite, sec_start
<1>9. BufferIsReady'
  <2> SUFFICES ASSUME NEW p \in Positions, p >= f * S, p < (f + c) * S
               PROVE  SectorBuffer(offset, data)[p - f * S + 1] =
                        IF p >= offset /\ p < offset + n THEN data[p - offset + 1] ELSE medium[p]
    BY <1>2, <1>4, <1>5, <1>7, Zenon DEF BufferIsReady, InRequest
  <2> DEFINE i == p - f * S + 1
  <2>1. p \in Nat /\ f * S \in Nat /\ c * S \in Nat /\ (f + c) * S = f * S + c * S
    BY <1>1, <1>3 DEF Positions
  <2>2. i \in 1..c * S /\ f * S + i - 1 = p
    BY <2>1
  <2>3. SectorBuffer(offset, data)[i] =
          IF p \in offset..offset + n - 1 THEN data[p - offset + 1]
          ELSE IF p \div S \in EdgesRead(offset, n) THEN medium[p] ELSE Junk
    BY <1>2, <2>2 DEF SectorBuffer
  <2>4. p \in offset..offset + n - 1 <=> p >= offset /\ p < offset + n
    BY <1>1, <2>1
  <2>5. CASE p < offset
    <3>1. offset % S # 0 /\ p < f * S + S
      <4>1. offset % S < S
        BY <1>1, Division
      <4> HIDE DEF S, f
      <4> QED BY <1>1, <1>3, <2>1, <2>5, <4>1
    <3>2. p \div S = f
      BY <1>3, <2>1, <3>1, InSector
    <3>3. f \in EdgesRead(offset, n)
      BY <3>1 DEF EdgesRead, buffer_offset
    <3> QED BY <1>1, <2>1, <2>3, <2>4, <2>5, <3>2, <3>3
  <2>6. CASE p >= offset + n
    <3>1. p >= f * S + m
      <4> HIDE DEF S, f
      <4> QED BY <1>1, <1>3, <2>1, <2>6 DEF m
    <3>2. m % S # 0
      <4> HIDE DEF m, c, f, S
      <4> QED BY <1>3, <2>1, <3>1
    <3>3. p \div S = f + c - 1
      <4>1. (f + c - 1) * S = f * S + (c - 1) * S /\ (c - 1) * S = c * S - S
        BY <1>1, <1>3
      <4>2. (f + c - 1) * S <= p /\ p < (f + c - 1) * S + S /\ f + c - 1 \in Int
        <5> HIDE DEF m, c, f, S
        <5> QED BY <1>1, <1>3, <2>1, <3>1, <4>1
      <4> QED BY <2>1, <4>2, InSector
    <3>4. f + c - 1 \in EdgesRead(offset, n)
      BY <3>2 DEF EdgesRead, buffer_offset
    <3> QED BY <1>1, <2>1, <2>3, <2>4, <2>6, <3>3, <3>4
  <2> QED BY <1>1, <2>1, <2>3, <2>4, <2>5, <2>6
<1> QED BY <1>4, <1>6, <1>8, <1>9 DEF DeviceInv

\* What LeftOf is defined on, and that it is a request.
LEMMA LeftIs ==
  ASSUME DeviceAssumption, NEW o, o.offset \in Nat, o.data \in Seq(Bytes)
  PROVE  /\ DOMAIN LeftOf(o) = {q \in Positions : /\ q >= o.offset /\ q < o.offset + Len(o.data)
                                                 /\ q >= o.sector * SectorSize}
         /\ \A q \in DOMAIN LeftOf(o) : LeftOf(o)[q] = o.data[q - o.offset + 1]
         /\ LeftOf(o) # NoRequest
<1> DEFINE D == {q \in Positions : /\ q >= o.offset /\ q < o.offset + Len(o.data)
                                  /\ q >= o.sector * SectorSize}
<1>1. Len(o.data) \in Nat /\ \A q \in Positions : q \in Int
  <2>1. Size \in Int
    BY DEF DeviceAssumption, Size
  <2> QED BY <2>1 DEF Positions
<1>2. LeftOf(o) = [p \in D |-> o.data[p - o.offset + 1]]
  <2>1. D = {q \in Positions : /\ q \in o.offset..o.offset + Len(o.data) - 1
                              /\ q >= o.sector * SectorSize}
    BY <1>1
  <2> HIDE DEF D
  <2> QED BY <2>1 DEF LeftOf
<1>3. \A q \in D : o.data[q - o.offset + 1] \in Bytes
  BY <1>1
<1>4. LeftOf(o) \in [D -> Bytes] /\ D \subseteq Positions
  <2>1. D \subseteq Positions
    OBVIOUS
  <2> HIDE DEF D
  <2> QED BY <1>2, <1>3, <2>1
<1>5. LeftOf(o) # NoRequest
  BY <1>4 DEF DeviceAssumption
<1> HIDE DEF D
<1>6. DOMAIN LeftOf(o) = D /\ \A q \in DOMAIN LeftOf(o) : LeftOf(o)[q] = o.data[q - o.offset + 1]
  BY <1>2
<1> QED BY <1>5, <1>6 DEF D

\* A write begins.
LEMMA PwriteBegins ==
  ASSUME DeviceAssumption, DeviceInv, NEW offset \in 0..Size, NEW n \in Counts,
         NEW data \in [1..n -> Bytes], ntfs_pwrite(offset, data)
  PROVE  DeviceInv' /\ Abstract!Begin
<1>1. DeviceInv' /\ dop' # NoWrite
  BY PwriteKeeps
<1>2. Left' = LeftOf(dop') /\ dop'.offset \in Nat /\ dop'.data \in Seq(Bytes)
  BY <1>1 DEF Left, LeftOf, DeviceInv, IsWrite
<1>3. DOMAIN Left' \subseteq Positions /\ Left' # NoRequest
  BY <1>2, LeftIs, Zenon
<1> QED BY <1>1, <1>3 DEF ntfs_pwrite, Left, Abstract!Begin

\* A sector is written: its bytes of the request reach the medium, and no
\* byte changes otherwise.
LEMMA WritesectorsPuts ==
  ASSUME DeviceAssumption, DeviceInv, writesectors
  PROVE  DeviceInv' /\ (Abstract!PutSome \/ Abstract!PutLast)
<1> DEFINE S == SectorSize
           k == dop.sector
           base == dop.first * S
           In(p) == k * S <= p /\ p < k * S + S
           end == dop.offset + Len(dop.data)
<1>1. /\ S \in Nat /\ S > 0 /\ IsWrite /\ BufferIsReady /\ medium \in [Positions -> Bytes]
      /\ \A p \in Positions : p \in Nat
  <2>1. S \in Nat /\ S > 0 /\ Size \in Int
    BY DEF DeviceAssumption, Size
  <2> QED BY <2>1 DEF writesectors, DeviceInv, Positions
<1>2. /\ k \in Nat /\ dop.numSectors \in Nat /\ dop.numSectors >= 1 /\ k + dop.numSectors = SectorsEnd
      /\ dop.first \in Nat /\ dop.offset \in Nat /\ dop.data \in Seq(Bytes)
      /\ Len(dop.data) \in Nat /\ SectorsEnd \in Nat
      /\ end <= SectorsEnd * S
  <2>1. /\ k \in Nat /\ dop.numSectors \in Nat /\ dop.numSectors >= 1 /\ k + dop.numSectors = SectorsEnd
        /\ dop.offset \in Nat /\ dop.data \in Seq(Bytes) /\ Len(dop.data) \in Nat
        /\ Len(dop.data) > 0 /\ dop.first = sec_start(dop.offset)
    BY <1>1 DEF IsWrite
  <2> DEFINE c == sec_count(dop.offset, Len(dop.data))
             r == dop.offset % S
  <2>2. /\ dop.first \in Nat /\ c \in Nat /\ dop.offset = dop.first * S + r /\ r \in Nat
        /\ r + Len(dop.data) <= c * S
    BY <2>1, SectorCount, Zenon
  <2>3. SectorsEnd = dop.first + c
    BY DEF SectorsEnd
  <2> HIDE DEF c, r, S
  <2>4. SectorsEnd * S = dop.first * S + c * S
    BY <1>1, <2>2, <2>3
  <2>5. dop.first * S \in Nat /\ c * S \in Nat
    BY <1>1, <2>2
  <2>6. end <= SectorsEnd * S
    BY <2>1, <2>2, <2>4, <2>5
  <2> QED BY <2>1, <2>2, <2>3, <2>6
<1>3. (k + 1) * S = k * S + S /\ k * S \in Nat /\ (k + 1) * S <= SectorsEnd * S
      /\ SectorsEnd * S \in Nat
  <2>1. (k + 1) * S <= SectorsEnd * S
    BY <1>1, <1>2, Product
  <2> QED BY <1>1, <1>2, <2>1
<1>4. \A p \in Positions : p \div S = k <=> In(p)
  <2> TAKE p \in Positions
  <2>1. p \in Nat /\ k \in Int
    BY <1>1, <1>2
  <2> QED BY <2>1, InSector
<1>5. \A p \in Positions : In(p) =>
        dop.buffer[p - base + 1] =
          IF InRequest(p) THEN dop.data[p - dop.offset + 1] ELSE medium[p]
  BY <1>1, <1>2, <1>3 DEF BufferIsReady
<1>6. medium' = [p \in Positions |-> IF In(p) /\ InRequest(p) THEN dop.data[p - dop.offset + 1]
                                     ELSE medium[p]]
  <2>1. medium' = [p \in Positions |-> IF p \div S = k THEN dop.buffer[p - base + 1] ELSE medium[p]]
    BY DEF writesectors
  <2> QED BY <1>4, <1>5, <2>1
<1>7. medium' \in [Positions -> Bytes]
  <2>1. \A p \in Positions : InRequest(p) => dop.data[p - dop.offset + 1] \in Bytes
    BY <1>1, <1>2 DEF InRequest
  <2> QED BY <1>1, <1>6, <2>1
<1>8. /\ Left = LeftOf(dop)
      /\ DOMAIN Left = {q \in Positions : InRequest(q) /\ q >= k * S}
      /\ \A q \in DOMAIN Left : Left[q] = dop.data[q - dop.offset + 1]
      /\ Left # NoRequest
  <2>1. Left = LeftOf(dop)
    BY DEF Left, writesectors
  <2> QED BY <1>2, <2>1, LeftIs, Zenon DEF InRequest
<1>9. CASE dop.numSectors = 1
  <2>1. dop' = NoWrite /\ ret' = <<"written">> /\ Left' = NoRequest
    BY <1>9 DEF writesectors, Left
  <2>2. \A p \in Positions : In(p) /\ InRequest(p) <=> p \in DOMAIN Left
    BY <1>1, <1>2, <1>3, <1>8, <1>9 DEF InRequest
  <2>3. Abstract!Put(DOMAIN Left)
    BY <1>6, <1>8, <2>2 DEF Abstract!Put
  <2> QED BY <1>7, <1>8, <2>1, <2>3 DEF Abstract!PutLast, DeviceInv
<1>10. CASE dop.numSectors # 1
  <2>1. dop' = [dop EXCEPT !.sector = @ + 1, !.numSectors = @ - 1] /\ ret' = ret
    BY <1>10 DEF writesectors
  <2>2. /\ dop'.sector = k + 1 /\ dop'.numSectors = dop.numSectors - 1
        /\ dop'.offset = dop.offset /\ dop'.data = dop.data /\ dop'.first = dop.first
        /\ dop'.buffer = dop.buffer
        /\ DOMAIN dop' = {"offset", "data", "buffer", "first", "sector", "numSectors"}
    BY <1>1, <2>1 DEF IsWrite
  <2>3. SectorsEnd' = SectorsEnd /\ \A p : InRequest(p)' <=> InRequest(p)
    BY <2>2 DEF SectorsEnd, InRequest
  <2>4. IsWrite'
    <3>1. dop'.numSectors \in Nat \ {0} /\ dop'.sector + dop'.numSectors = SectorsEnd'
      BY <1>2, <1>10, <2>2, <2>3
    <3> QED BY <1>1, <1>2, <2>2, <3>1 DEF IsWrite, sec_start
  <2>5. BufferIsReady'
    <3> SUFFICES ASSUME NEW p \in Positions, p >= (k + 1) * S, p < SectorsEnd * S
                 PROVE  dop.buffer[p - base + 1] =
                          IF InRequest(p) THEN dop.data[p - dop.offset + 1] ELSE medium'[p]
      BY <2>2, <2>3 DEF BufferIsReady
    <3>1. p >= k * S /\ ~In(p)
      BY <1>1, <1>2, <1>3
    <3> QED BY <1>1, <1>6, <3>1 DEF BufferIsReady
  <2>6. dop' # NoWrite
    BY <1>2, <2>2 DEF NoWrite
  <2>7. /\ Left' = LeftOf(dop')
        /\ DOMAIN Left' = {q \in Positions : InRequest(q) /\ q >= (k + 1) * S}
        /\ \A q \in DOMAIN Left' : Left'[q] = dop.data[q - dop.offset + 1]
        /\ Left' # NoRequest
    <3>1. Left' = LeftOf(dop')
      BY <2>6 DEF Left, LeftOf
    <3> QED BY <1>2, <2>2, <3>1, LeftIs, Zenon DEF InRequest
  <2>8. /\ DOMAIN Left' \subseteq DOMAIN Left
        /\ \A p \in Positions : In(p) /\ InRequest(p) <=> p \in DOMAIN Left \ DOMAIN Left'
    BY <1>1, <1>2, <1>3, <1>8, <2>7
  <2>9. Abstract!Put(DOMAIN Left \ DOMAIN Left')
    BY <1>6, <1>8, <2>8 DEF Abstract!Put
  <2> QED BY <1>7, <1>8, <2>1, <2>4, <2>5, <2>7, <2>8, <2>9 DEF Abstract!PutSome, DeviceInv
<1> QED BY <1>9, <1>10

\* A read gives the bytes of the medium.
LEMMA PreadReads ==
  ASSUME DeviceAssumption, DeviceInv, NEW offset \in 0..Size, NEW n \in Counts,
         ntfs_pread(offset, n)
  PROVE  DeviceInv' /\ (Abstract!Read \/ Abstract!Fail)
<1> DEFINE S == SectorSize
           f == sec_start(offset)
           c == sec_count(offset, n)
           sectors == readsectors(f, c)
           b == buffer_offset(offset)
<1>1. S \in Nat /\ S > 0 /\ Size \in Nat /\ offset \in Nat /\ n \in Nat /\ n > 0
  <2>1. S \in Nat /\ S > 0 /\ Size \in Nat /\ MaxCount \in Nat
    BY DEF DeviceAssumption, Size
  <2> QED BY <2>1 DEF Counts
<1>2. DeviceInv' /\ Left = NoRequest /\ Left' = NoRequest /\ medium' = medium
  BY DEF ntfs_pread, Left, DeviceInv
<1>3. CASE ret' = <<"error">>
  BY <1>2, <1>3 DEF Abstract!Fail
<1>4. CASE ret' = <<"read", offset, readbytes(offset, n)>>
  <2>1. /\ f \in Nat /\ c \in Nat /\ b \in Nat /\ offset = f * S + b /\ b + n <= c * S
        /\ f * S \in Nat /\ c * S \in Nat
    <3>1. /\ f \in Nat /\ c \in Nat /\ b \in Nat /\ offset = f * S + b /\ b + n <= c * S
      BY <1>1, SectorCount DEF buffer_offset
    <3> QED BY <1>1, <3>1
  <2>2. sectors = [i \in 1..c * S |-> medium[f * S + i - 1]]
    BY DEF readsectors
  <2> HIDE DEF S, f, c, b, sectors
  <2>3. \A i \in DOMAIN readbytes(offset, n) : readbytes(offset, n)[i] = medium[offset + i - 1]
    <3>1. CASE Aligned(offset, n)
      <4>1. readbytes(offset, n) = sectors /\ b = 0
        BY <3>1 DEF readbytes, Aligned, sectors, f, c, b
      <4> QED BY <2>1, <2>2, <4>1
    <3>2. CASE ~Aligned(offset, n)
      <4>1. readbytes(offset, n) = SubSeq(sectors, b + 1, b + n)
        BY <3>2, Zenon DEF readbytes, sectors, f, c, b
      <4>2. SubSeq(sectors, b + 1, b + n) = [i \in 1..n |-> sectors[b + i]]
        <5>1. SubSeq(sectors, b + 1, b + n) = [i \in 1..((b + n) - (b + 1) + 1) |-> sectors[(b + 1) + i - 1]]
          BY <1>1, <2>1, <2>2
        <5> QED BY <1>1, <2>1, <5>1
      <4>3. \A i \in 1..n : sectors[b + i] = medium[offset + i - 1]
        BY <1>1, <2>1, <2>2
      <4> QED BY <4>1, <4>2, <4>3, Zenon
    <3> QED BY <3>1, <3>2
  <2>4. ret'[1] = "read" /\ ret'[2] = offset /\ ret'[3] = readbytes(offset, n)
    BY <1>4
  <2> QED BY <1>2, <2>3, <2>4 DEF Abstract!Read
<1> QED BY <1>3, <1>4 DEF ntfs_pread

\* The device of ntfs/uefi_io.c is an array of bytes, for sectors, media and
\* requests of every size: a write changes the bytes of its request only,
\* whichever of its sectors fails, success means that all of them are on the
\* medium, and a read returns what is there.
THEOREM DeviceIsByteArray == ASSUME DeviceAssumption PROVE DeviceSpec => ImplementsByteDisk
<1>1. DeviceInit => DeviceInv /\ Abstract!Init
  BY DEF DeviceInit, DeviceInv, Left, Abstract!Init
<1>2. DeviceInv /\ [DeviceNext]_dvars => DeviceInv' /\ [Abstract!Next]_(Abstract!dvars)
  <2> SUFFICES ASSUME DeviceInv, [DeviceNext]_dvars
               PROVE  DeviceInv' /\ [Abstract!Next]_(Abstract!dvars)
    OBVIOUS
  <2>1. CASE \E offset \in 0..Size, n \in Counts : \E data \in [1..n -> Bytes] : ntfs_pwrite(offset, data)
    BY <2>1, PwriteBegins DEF Abstract!Next
  <2>2. CASE PwriteFails
    BY <2>2 DEF PwriteFails, Left, DeviceInv, IsWrite, BufferIsReady, Abstract!Fail, Abstract!Next
  <2>3. CASE writesectors
    BY <2>3, WritesectorsPuts DEF Abstract!Next
  <2>4. CASE SectorFails
    BY <2>4 DEF SectorFails, Left, DeviceInv, Abstract!Fail, Abstract!Next
  <2>5. CASE \E offset \in 0..Size, n \in Counts : ntfs_pread(offset, n)
    BY <2>5, PreadReads DEF Abstract!Next
  <2>6. CASE ntfs_device_sync
    BY <2>6 DEF ntfs_device_sync, Left, DeviceInv, Abstract!dvars
  <2>7. CASE UNCHANGED dvars
    BY <2>7 DEF dvars, Left, LeftOf, DeviceInv, IsWrite, BufferIsReady, SectorsEnd, InRequest,
                sec_start, sec_count, buffer_offset, Abstract!dvars
  <2> QED BY <2>1, <2>2, <2>3, <2>4, <2>5, <2>6, <2>7 DEF DeviceNext
<1> QED BY <1>1, <1>2, PTL DEF DeviceSpec, ImplementsByteDisk, Abstract!Spec
----------------------------------------------------------------------------
\* Runs of bits: the state of ntfs_bitmap_set_bits_in_run between two turns of
\* its loop, as it follows from the arguments of the call.

\* where the next window of the buffer begins, and where the run ends
WindowBase == bop.start_bit - bop.firstbyte * W
RunEnds == args.start + args.count

\* What is before the window has been written, the rest has not been touched.
WrittenSoFar ==
  \A b \in BitmapBits :
    map[b] = IF b \in Run /\ b < WindowBase THEN args.value ELSE before[b]

\* The buffer: a partial first byte keeps what it had outside of the run, all
\* other bits have the new value.
BufferFilled ==
  /\ \A i \in 0..bop.bufsize * W - 1 : i \in DOMAIN bop.buf
  /\ \A i \in DOMAIN bop.buf :
       bop.buf[i] = IF /\ bop.firstbyte = 1 /\ i < W
                       /\ i < args.start % W \/ i >= (args.start % W) + args.count
                      THEN before[(args.start \div W) * W + i] ELSE args.value

\* The counters of the loop agree with the run.
Counted ==
  /\ bop.start_bit = (bop.start_bit \div W) * W
  /\ \/ /\ bop.count \in Nat /\ bop.start_bit + bop.count = RunEnds
        /\ bop.bit = bop.count % W
        /\ bop.bufsize <= RoundUp(bop.count) + bop.firstbyte
     \/ /\ bop.count = -1 /\ RunEnds < bop.start_bit
        /\ bop.firstbyte = 1 /\ bop.bufsize = 1
  /\ \/ /\ bop.firstbyte = 1
        /\ args.start % W # 0 /\ bop.start_bit = (args.start \div W) * W + W
     \/ bop.firstbyte = 0 /\ bop.start_bit >= args.start

IsLoop ==
  /\ bop.start_bit \in Nat /\ bop.bit \in Nat /\ bop.bufsize \in Nat
  /\ bop.firstbyte <= bop.bufsize
  /\ bop.value = args.value /\ args.result = "pending"

Settled ==
  /\ \A b \in BitmapBits \ Run : map[b] = before[b]
  /\ args.result = "ok" => \A b \in Run : map[b] = args.value

ArgsOK ==
  /\ args \in [start : Nat, count : Nat, value : Values, result : {"not called", "pending", "ok", "EIO"}]
  /\ RunEnds <= NumBytes * W

BitmapInv ==
  /\ ArgsOK
  /\ bop = NoCall => Settled
  /\ bop # NoCall => IsLoop /\ Counted /\ BufferFilled /\ WrittenSoFar

\* The same for the bits of a byte.
LEMMA DivisionW ==
  ASSUME BitmapAssumption, NEW n \in Int
  PROVE  /\ n \div W \in Int /\ n % W \in Nat /\ n % W < W
         /\ n = (n \div W) * W + (n % W)
  BY Division DEF BitmapAssumption

\* Quotient and remainder are the only ones, for the bits of a byte.
LEMMA DivisionUniqueW ==
  ASSUME BitmapAssumption, NEW q \in Int, NEW r \in Nat, r < W
  PROVE  (q * W + r) \div W = q /\ (q * W + r) % W = r
<1>1. W \in Nat /\ W > 0
  BY DEF BitmapAssumption
<1> QED BY <1>1, DivisionUnique

\* More bytes are more bits.
LEMMA TimesW ==
  ASSUME BitmapAssumption, NEW a \in Int, NEW b \in Int, a <= b
  PROVE  a * W <= b * W
<1>1. W \in Nat
  BY DEF BitmapAssumption
<1> QED BY <1>1, Product

\* The shifts "(count + 7) >> 3" round up.
LEMMA RoundedUp ==
  ASSUME BitmapAssumption, NEW n \in Int
  PROVE  /\ RoundUp(n) \in Int
         /\ n % W = 0 => RoundUp(n) = n \div W /\ RoundUp(n) * W = n
         /\ n % W # 0 => RoundUp(n) = n \div W + 1 /\ RoundUp(n) * W = n - (n % W) + W
         /\ n <= RoundUp(n) * W /\ RoundUp(n) * W < n + W
<1>1. /\ n \div W \in Int /\ n % W \in Nat /\ n % W < W /\ W \in Nat /\ W > 1
      /\ n = (n \div W) * W + (n % W)
  BY DivisionW DEF BitmapAssumption
<1>2. CASE n % W = 0
  <2>1. n + W - 1 = (n \div W) * W + (W - 1)
    BY <1>1, <1>2
  <2>2. ((n \div W) * W + (W - 1)) \div W = n \div W
    BY <1>1, DivisionUniqueW
  <2>3. RoundUp(n) = n \div W
    BY <2>1, <2>2 DEF RoundUp
  <2> QED BY <1>1, <1>2, <2>3
<1>3. CASE n % W # 0
  <2> DEFINE q == n \div W
             r == n % W
  <2>1. n + W - 1 = (q + 1) * W + (r - 1)
    BY <1>1
  <2>2. ((q + 1) * W + (r - 1)) \div W = q + 1
    <3>1. q + 1 \in Int /\ r - 1 \in Nat /\ r - 1 < W
      BY <1>1, <1>3
    <3> HIDE DEF q, r
    <3> QED BY <3>1, DivisionUniqueW
  <2>3. RoundUp(n) = q + 1
    BY <2>1, <2>2 DEF RoundUp
  <2> QED BY <1>1, <1>3, <2>3
<1> QED BY <1>2, <1>3

----------------------------------------------------------------------------
\* What a turn puts in front of the end of its window is right for every bit:
\* the new value within the run, and the old one outside of it.
LEMMA WindowIsRight ==
  ASSUME BitmapAssumption, ArgsOK, IsLoop, Counted, BufferFilled, WrittenSoFar,
         NEW b \in BitmapBits, b >= WindowBase, b < WindowBase + bop.bufsize * W
  PROVE  Buffer[b - WindowBase] = IF b \in Run THEN args.value ELSE before[b]
<1> DEFINE i == b - WindowBase
           C == bop.count
           U == RoundUp(bop.count)
           s == args.start
           n == args.count
           e == RunEnds
           sb == bop.start_bit
           fb == bop.firstbyte
           bt == bop.bit
           bz == bop.bufsize
           last == U + fb - 1
<1>1. W \in Nat /\ W > 1
  BY DEF BitmapAssumption
<1>2. /\ sb \in Nat /\ bz \in Int /\ bt \in Nat /\ s \in Nat /\ n \in Nat /\ e = s + n
      /\ b \in Nat /\ b >= WindowBase
  <2>1. b \in Nat
    <3>1. NumBytes * W \in Int
      BY DEF BitmapAssumption
    <3> QED BY <3>1 DEF BitmapBits
  <2>2. s \in Nat /\ n \in Nat /\ e = s + n
    BY Zenon DEF ArgsOK, RunEnds
  <2> QED BY <2>1, <2>2 DEF IsLoop
<1>3. fb \in {0, 1} /\ C \in Int
  BY DEF Counted
<1>4. i \in Nat /\ i < bz * W /\ b = sb - fb * W + i
  <2>1. WindowBase = sb - fb * W
    BY DEF WindowBase
  <2> HIDE DEF sb, fb, bz
  <2>2. WindowBase \in Int /\ bz * W \in Int
    BY <1>1, <1>2, <1>3, <2>1
  <2> QED BY <1>2, <2>1, <2>2 DEF bz
<1>5. i \in DOMAIN bop.buf
  <2>1. bz * W \in Int
    BY <1>1, <1>2
  <2>2. i \in 0..bz * W - 1
    BY <1>4, <2>1
  <2> QED BY <2>2 DEF BufferFilled
<1>6. /\ U \in Int /\ C <= U * W /\ U * W < C + W
      /\ C % W = 0 => U * W = C
      /\ C % W # 0 => U * W = C - (C % W) + W
  BY <1>3, RoundedUp
<1>7. b \in Run <=> b >= s /\ b < e
  BY <1>2 DEF Run
<1>8. /\ bop.buf[i] = IF fb = 1 /\ i < W /\ (i < s % W \/ i >= (s % W) + n)
                       THEN before[(s \div W) * W + i] ELSE args.value
      /\ ~(b \in Run) => map[b] = IF FALSE THEN args.value ELSE before[b]
  BY <1>5 DEF BufferFilled, WrittenSoFar
<1>9. /\ s % W \in Nat /\ s % W < W /\ s \div W \in Int /\ s = (s \div W) * W + (s % W)
      /\ sb \div W \in Int /\ C \div W \in Int
      /\ C % W \in Nat /\ C % W < W /\ C = (C \div W) * W + (C % W)
  <2>1. s \in Int /\ sb \in Int
    BY <1>2
  <2> QED BY <1>3, <2>1, DivisionW
<1>10. /\ sb = (sb \div W) * W
       /\ \/ C \in Nat /\ sb + C = e /\ bt = C % W /\ bz <= U + fb
          \/ C = -1 /\ e < sb /\ fb = 1 /\ bz = 1
       /\ (fb = 1 /\ sb = (s \div W) * W + W) \/ (fb = 0 /\ sb >= s)
  BY DEF Counted
<1>11. LastByteHere <=> C > 0 /\ bt # 0 /\ U + fb <= bz
  BY DEF LastByteHere
<1>12. Buffer[i] = IF LastByteHere /\ i >= last * W + bt /\ i < (last + 1) * W
                     THEN map[((sb + C) \div W) * W + i - last * W] ELSE bop.buf[i]
  BY <1>5 DEF Buffer
<1> HIDE DEF i, C, U, s, n, e, sb, fb, bt, bz, last
<1>13. CASE fb = 1 /\ i < W
  <2>1. LastByteHere => i < last * W + bt
    <3> SUFFICES ASSUME LastByteHere PROVE i < last * W + bt
      OBVIOUS
    <3>1. U * W > 0 /\ last = U
      BY <1>1, <1>3, <1>6, <1>11, <1>13 DEF last
    <3>2. U >= 1
      BY <1>1, <1>6, <3>1
    <3>3. 1 * W <= U * W
      BY <1>6, <3>2, TimesW
    <3> QED BY <1>1, <1>2, <1>4, <1>6, <1>13, <3>1, <3>3
  <2>2. Buffer[i] = bop.buf[i]
    <3>1. last * W + bt \in Int
      BY <1>1, <1>2, <1>3, <1>6 DEF last
    <3> QED BY <1>4, <1>12, <2>1, <3>1
  <2>3. b = (s \div W) * W + i
    <3> DEFINE q == (s \div W) * W
    <3>1. q \in Int /\ sb = q + W
      BY <1>1, <1>9, <1>10, <1>13
    <3> HIDE DEF q
    <3>2. b = q + i
      BY <1>1, <1>2, <1>4, <1>13, <3>1
    <3> QED BY <3>2 DEF q
  <2>4. (i < s % W <=> b < s) /\ (i >= (s % W) + n <=> b >= e)
    <3> DEFINE q == (s \div W) * W
    <3>1. q \in Int /\ b = q + i /\ s = q + (s % W)
      BY <1>1, <1>9, <2>3
    <3> HIDE DEF q
    <3> QED BY <1>2, <1>4, <1>9, <3>1
  <2>5. bop.buf[i] = IF b < s \/ b >= e THEN before[b] ELSE args.value
    BY <1>8, <1>13, <2>3, <2>4
  <2> QED BY <1>2, <1>7, <2>2, <2>5 DEF i
<1>14. CASE ~(fb = 1 /\ i < W)
  <2>1. bop.buf[i] = args.value
    BY <1>8, <1>14
  <2>2. b >= s
    <3> DEFINE q == (s \div W) * W
    <3>1. q \in Int /\ s = q + (s % W) /\ (fb = 1 => sb = q + W) /\ (fb = 0 => sb >= s)
      BY <1>1, <1>9, <1>10
    <3> HIDE DEF q
    <3> QED BY <1>1, <1>2, <1>3, <1>4, <1>9, <1>14, <3>1
  <2>3. CASE LastByteHere
    <3>1. C \in Nat /\ sb + C = e /\ bt = C % W /\ bt # 0 /\ bz = U + fb
      BY <1>2, <1>3, <1>6, <1>10, <1>11, <2>3
    <3>2. U * W = C - bt + W
      BY <1>6, <3>1
    <3>3. last * W + bt = C + fb * W /\ (last + 1) * W = bz * W
      <4>1. last * W = U * W + fb * W - W /\ last + 1 = bz
        BY <1>1, <1>3, <1>6, <3>1 DEF last
      <4>2. U * W \in Int /\ fb * W \in Int
        BY <1>1, <1>3, <1>6
      <4> QED BY <1>1, <1>2, <3>1, <3>2, <4>1, <4>2
    <3>4. i < (last + 1) * W
      BY <1>4, <3>3
    <3>5. i >= last * W + bt <=> b >= e
      <4>1. fb * W \in Int
        BY <1>1, <1>3
      <4> QED BY <1>2, <1>4, <3>1, <3>3, <4>1
    <3>6. ((sb + C) \div W) * W = sb + C - bt
      <4> DEFINE k == sb \div W
                 d == C \div W
      <4>1. k \in Int /\ d \in Int /\ sb = k * W /\ C = d * W + bt /\ bt < W
        BY <1>9, <1>10, <3>1
      <4> HIDE DEF k, d
      <4>2. sb + C = (k + d) * W + bt /\ k + d \in Int
        BY <1>1, <1>2, <4>1
      <4>3. ((k + d) * W + bt) \div W = k + d
        BY <1>2, <4>1, <4>2, DivisionUniqueW
      <4> QED BY <1>1, <1>2, <4>1, <4>2, <4>3
    <3>7. ((sb + C) \div W) * W + i - last * W = b
      <4>1. last * W \in Int /\ fb * W \in Int
        BY <1>1, <1>3, <1>6 DEF last
      <4> QED BY <1>2, <1>4, <3>1, <3>3, <3>6, <4>1
    <3>8. Buffer[i] = IF b >= e THEN map[b] ELSE args.value
      BY <1>12, <2>1, <2>3, <3>4, <3>5, <3>7
    <3> QED BY <1>2, <1>7, <1>8, <2>2, <3>8 DEF i
  <2>4. CASE ~LastByteHere
    <3>1. Buffer[i] = args.value
      BY <1>12, <2>1, <2>4
    <3>2. C \in Nat /\ sb + C = e /\ bt = C % W /\ bz <= U + fb
      BY <1>1, <1>4, <1>10, <1>14
    <3>3. i < U * W + fb * W - (IF bt = 0 THEN 0 ELSE W)
      <4>1. CASE bt = 0
        <5>1. bz * W <= (U + fb) * W
          BY <1>2, <1>3, <1>6, <3>2, TimesW
        <5>2. (U + fb) * W = U * W + fb * W /\ U * W \in Int /\ fb * W \in Int /\ bz * W \in Int
          BY <1>1, <1>2, <1>3, <1>6
        <5> QED BY <1>4, <4>1, <5>1, <5>2
      <4>2. CASE bt # 0
        <5>1. C > 0
          <6> SUFFICES ASSUME C = 0 PROVE FALSE
            BY <3>2
          <6>1. (0 * W + 0) % W = 0 /\ 0 * W + 0 = 0
            BY <1>1, DivisionUniqueW
          <6> QED BY <3>2, <4>2, <6>1
        <5>2. bz <= U + fb - 1
          BY <1>2, <1>3, <1>6, <1>11, <2>4, <4>2, <5>1
        <5>3. bz * W <= (U + fb - 1) * W
          BY <1>2, <1>3, <1>6, <5>2, TimesW
        <5>4. /\ (U + fb - 1) * W = U * W + fb * W - W
              /\ U * W \in Int /\ fb * W \in Int /\ bz * W \in Int
          BY <1>1, <1>2, <1>3, <1>6
        <5> QED BY <1>1, <1>4, <4>2, <5>3, <5>4
      <4> QED BY <4>1, <4>2
    <3>4. b < e
      <4>1. U * W \in Int /\ fb * W \in Int
        BY <1>1, <1>3, <1>6
      <4>2. U * W - (IF bt = 0 THEN 0 ELSE W) <= C
        BY <1>1, <1>6, <1>9, <3>2, <4>1
      <4> QED BY <1>1, <1>2, <1>4, <3>2, <3>3, <4>1, <4>2
    <3> QED BY <1>7, <2>2, <3>1, <3>4 DEF i
  <2> QED BY <2>3, <2>4
<1> QED BY <1>13, <1>14

\* A write of the first k bytes of the buffer, all of them or fewer.
LEMMA WrittenIsRight ==
  ASSUME BitmapAssumption, ArgsOK, IsLoop, Counted, BufferFilled, WrittenSoFar,
         NEW k \in Nat, k <= bop.bufsize
  PROVE  \A b \in BitmapBits :
           Written(k)[b] = IF b \in Run /\ b < WindowBase + k * W THEN args.value ELSE before[b]
<1> SUFFICES ASSUME NEW b \in BitmapBits
             PROVE  Written(k)[b] = IF b \in Run /\ b < WindowBase + k * W
                                      THEN args.value ELSE before[b]
  OBVIOUS
<1>1. /\ W \in Nat /\ WindowBase \in Int /\ k * W \in Nat /\ bop.bufsize * W \in Nat
      /\ k * W <= bop.bufsize * W /\ b \in Int
  <2>1. W \in Nat /\ NumBytes * W \in Int
    BY DEF BitmapAssumption
  <2>2. bop.start_bit \in Int /\ bop.firstbyte \in {0, 1} /\ bop.bufsize \in Nat
    BY DEF IsLoop, Counted
  <2>3. WindowBase \in Int
    BY <2>1, <2>2 DEF WindowBase
  <2>4. k * W <= bop.bufsize * W
    BY <2>2, TimesW
  <2>5. k * W \in Nat /\ bop.bufsize * W \in Nat
    BY <2>1, <2>2
  <2> QED BY <2>1, <2>3, <2>4, <2>5 DEF BitmapBits
<1>2. (bop.start_bit \div W - bop.firstbyte) * W = WindowBase
  <2> DEFINE d == bop.start_bit \div W
  <2>1. d \in Int /\ bop.start_bit = d * W /\ bop.firstbyte \in {0, 1}
    <3>1. bop.start_bit \in Int
      BY DEF IsLoop
    <3> QED BY <3>1, DivisionW DEF Counted
  <2> HIDE DEF d
  <2>2. (d - bop.firstbyte) * W = WindowBase
    BY <1>1, <2>1 DEF WindowBase
  <2> QED BY <2>2 DEF d
<1>3. Written(k)[b] = IF b >= WindowBase /\ b < WindowBase + k * W
                        THEN Buffer[b - WindowBase] ELSE map[b]
  BY <1>2 DEF Written
<1>4. CASE b >= WindowBase /\ b < WindowBase + k * W
  <2>1. b < WindowBase + bop.bufsize * W
    BY <1>1, <1>4
  <2> QED BY <1>3, <1>4, <2>1, WindowIsRight
<1>5. CASE b < WindowBase
  <2>1. b < WindowBase + k * W /\ ~(b >= WindowBase)
    BY <1>1, <1>5
  <2> QED BY <1>3, <1>5, <2>1 DEF WrittenSoFar
<1>6. CASE b >= WindowBase + k * W
  <2>1. ~(b < WindowBase + k * W) /\ ~(b < WindowBase)
    BY <1>1, <1>6
  <2> QED BY <1>3, <2>1 DEF WrittenSoFar
<1> QED BY <1>1, <1>4, <1>5, <1>6

\* The turn that handles a partial last byte leaves nothing to do: the code's
\* "Last buffer but count is not zero" is never reached.
LEMMA LastTurn ==
  ASSUME BitmapAssumption, IsLoop, Counted, LastByteHere
  PROVE  /\ bop.count = bop.bit + (bop.bufsize - bop.firstbyte - 1) * W
         /\ bop.count - bop.bit - Advance = 0
<1> DEFINE C == bop.count
           U == RoundUp(C)
           fb == bop.firstbyte
           bt == bop.bit
<1>1. W \in Nat /\ W > 1 /\ C \in Int /\ C > 0 /\ fb \in {0, 1} /\ bt \in Nat /\ bop.bufsize \in Nat
  BY DEF BitmapAssumption, IsLoop, Counted, LastByteHere
<1>2. U \in Int /\ (C % W # 0 => U * W = C - (C % W) + W)
  BY <1>1, RoundedUp, Zenon
<1>3. bt = C % W /\ bt # 0 /\ bop.bufsize = U + fb
  <2>1. bt = C % W /\ bop.bufsize <= U + fb
    BY <1>1 DEF Counted
  <2>2. bt # 0 /\ U + fb <= bop.bufsize
    BY DEF LastByteHere
  <2> HIDE DEF U
  <2> QED BY <1>1, <1>2, <2>1, <2>2
<1>4. Advance = (bop.bufsize - fb - 1) * W
  BY DEF Advance
<1> HIDE DEF C, U, fb, bt
<1>5. (bop.bufsize - fb - 1) * W = (U - 1) * W
  BY <1>1, <1>2, <1>3
<1>6. (U - 1) * W = C - bt
  BY <1>1, <1>2, <1>3
<1>7. C = bt + (bop.bufsize - fb - 1) * W /\ C - bt - Advance = 0
  BY <1>1, <1>4, <1>5, <1>6
<1> QED BY <1>7 DEF C, fb, bt

\* The result of a call does not change its arguments.
LEMMA OutcomeKeeps ==
  ASSUME ArgsOK, NEW r \in {"ok", "EIO"}, args' = [args EXCEPT !.result = r]
  PROVE  /\ args'.start = args.start /\ args'.count = args.count /\ args'.result = r
         /\ args'.value = args.value /\ ArgsOK' /\ Run' = Run
<1>1. args' \in [start : Nat, count : Nat, value : Values, result : {"not called", "pending", "ok", "EIO"}]
  BY Zenon DEF ArgsOK
<1>2. /\ args'.start = args.start /\ args'.count = args.count /\ args'.result = r
      /\ args'.value = args.value
  BY Zenon DEF ArgsOK
<1> QED BY <1>1, <1>2, Zenon DEF ArgsOK, RunEnds, Run

\* A turn that fails: the call ends, nothing outside of the run has changed.
LEMMA TurnFailsKeeps == ASSUME BitmapAssumption, BitmapInv, TurnFails PROVE BitmapInv'
<1>1. PICK n \in 0..bop.bufsize - 1 : map' = Written(n)
  BY DEF TurnFails
<1>2. /\ ArgsOK /\ IsLoop /\ Counted /\ BufferFilled /\ WrittenSoFar
      /\ bop' = NoCall /\ args' = [args EXCEPT !.result = "EIO"] /\ before' = before
  BY DEF TurnFails, BitmapInv
<1>3. n \in Nat /\ n <= bop.bufsize
  BY <1>2 DEF IsLoop
<1>4. /\ args'.start = args.start /\ args'.count = args.count /\ args'.result = "EIO"
      /\ ArgsOK' /\ Run' = Run
  BY <1>2, OutcomeKeeps
<1>5. \A b \in BitmapBits :
        Written(n)[b] = IF b \in Run /\ b < WindowBase + n * W THEN args.value ELSE before[b]
  BY <1>2, <1>3, WrittenIsRight
<1>6. \A b \in BitmapBits : ~(b \in Run) => map'[b] = before[b]
  BY <1>1, <1>5
<1> QED BY <1>2, <1>4, <1>6 DEF BitmapInv, Settled

\* A turn: the window moves on, or the run is complete.
LEMMA TurnKeeps == ASSUME BitmapAssumption, BitmapInv, Turn PROVE BitmapInv'
<1> DEFINE tmp == Advance
           left == bop.count - (IF LastByteHere THEN bop.bit ELSE 0) - tmp
           fb == bop.firstbyte
           sb == bop.start_bit
<1>1. ArgsOK /\ IsLoop /\ Counted /\ BufferFilled /\ WrittenSoFar /\ before' = before
  BY DEF Turn, BitmapInv
<1>2. /\ W \in Nat /\ W > 1 /\ bop.count \in Int /\ fb \in {0, 1} /\ sb \in Nat
      /\ bop.bufsize \in Nat /\ bop.bit \in Nat /\ RunEnds = args.start + args.count
      /\ args.start \in Nat /\ args.count \in Nat /\ WindowBase = sb - fb * W
  <2>1. WindowBase = sb - fb * W /\ RunEnds = args.start + args.count
    BY DEF WindowBase, RunEnds
  <2>2. args.start \in Nat /\ args.count \in Nat
    BY <1>1, Zenon DEF ArgsOK
  <2>3. bop.count \in Int /\ fb \in {0, 1}
    BY <1>1 DEF Counted
  <2>4. sb \in Nat /\ bop.bufsize \in Nat /\ bop.bit \in Nat /\ W \in Nat /\ W > 1
    BY <1>1 DEF IsLoop, BitmapAssumption
  <2> QED BY <2>1, <2>2, <2>3, <2>4
<1>3. /\ LastByteHere => left = 0
      /\ ~LastByteHere => tmp = (bop.bufsize - fb) * W /\ left = bop.count - tmp
  <2>1. LastByteHere => left = 0
    BY <1>1, LastTurn
  <2>2. ~LastByteHere => tmp = (bop.bufsize - fb - 0) * W
    BY DEF Advance
  <2>3. (bop.bufsize - fb - 0) * W = (bop.bufsize - fb) * W /\ (bop.bufsize - fb) * W \in Int
    BY <1>2
  <2> HIDE DEF fb, tmp
  <2> QED BY <1>2, <2>1, <2>2, <2>3
<1>4. \A b \in BitmapBits :
        map'[b] = IF b \in Run /\ b < WindowBase + bop.bufsize * W THEN args.value ELSE before[b]
  <2>1. map' = Written(bop.bufsize)
    BY DEF Turn
  <2> QED BY <1>1, <1>2, <2>1, WrittenIsRight
<1>5. WindowBase + bop.bufsize * W = sb + (bop.bufsize - fb) * W
  BY <1>2
<1>6. (bop.bufsize - fb) * W \in Int
  BY <1>2
<1>7. CASE left > 0
  <2>1. /\ ~LastByteHere /\ tmp = (bop.bufsize - fb) * W /\ left = bop.count - tmp
        /\ left \in Nat /\ tmp \in Int
    BY <1>2, <1>3, <1>6, <1>7
  <2>2. /\ bop' = [status |-> "loop", start_bit |-> bop.start_bit + tmp, count |-> left,
                    firstbyte |-> 0, bit |-> IF LastByteHere THEN 0 ELSE bop.bit,
                    bufsize |-> Smaller(bop.bufsize, RoundUp(left)),
                    value |-> bop.value, buf |-> Refilled(Buffer)]
        /\ args' = args
    BY <1>7, <2>1 DEF Turn
  <2>3. /\ bop'.start_bit = sb + tmp /\ bop'.count = left /\ bop'.firstbyte = 0
        /\ bop'.bit = bop.bit /\ bop'.bufsize = Smaller(bop.bufsize, RoundUp(left))
        /\ bop'.value = bop.value /\ bop'.buf = Refilled(bop.buf)
        /\ bop'.status = "loop"
    <3>1. Buffer = bop.buf
      BY <2>1 DEF Buffer
    <3> HIDE DEF tmp, left
    <3> QED BY <2>1, <2>2, <3>1
  <2>4. tmp \in Nat /\ bop.count \in Nat /\ sb + bop.count = RunEnds /\ bop.bit = bop.count % W
    <3>1. (bop.bufsize - fb) * W \in Nat
      BY <1>1, <1>2 DEF IsLoop
    <3>2. tmp \in Nat /\ bop.count > 0
      BY <1>2, <1>7, <2>1, <3>1
    <3> QED BY <1>1, <1>2, <3>2 DEF Counted
  <2>5. RoundUp(left) \in Nat /\ bop'.bufsize \in Nat /\ bop'.bufsize <= RoundUp(left)
        /\ bop'.bufsize <= bop.bufsize
    <3>1. RoundUp(left) \in Int /\ left <= RoundUp(left) * W
      BY <2>1, RoundedUp
    <3>2. RoundUp(left) \in Nat
      BY <1>2, <1>7, <2>1, <3>1
    <3> QED BY <1>2, <2>3, <3>2 DEF Smaller
  <2>6. IsLoop'
    <3>1. sb + tmp \in Nat
      BY <1>2, <2>4
    <3>2. bop'.value = args'.value /\ args'.result = "pending" /\ bop.bit \in Nat
      BY <1>1, <2>2, <2>3, Zenon DEF IsLoop
    <3> HIDE DEF tmp, left, sb, fb
    <3>3. bop'.firstbyte <= bop'.bufsize
      BY <2>3, <2>5
    <3> QED BY <2>3, <2>5, <3>1, <3>2, <3>3 DEF IsLoop
  <2>7. bop'.start_bit = (bop'.start_bit \div W) * W /\ left % W = bop.bit
    <3> DEFINE k == sb \div W
               d == bop.count \div W
               j == bop.bufsize - fb
    <3>1. /\ k \in Int /\ d \in Int /\ j \in Int /\ sb = k * W /\ tmp = j * W
          /\ bop.count = d * W + bop.bit /\ bop.bit < W
      <4>1. sb \in Int /\ bop.count \in Int
        BY <1>2
      <4>2. sb = (sb \div W) * W
        BY <1>1 DEF Counted
      <4> QED BY <1>2, <2>1, <2>4, <4>1, <4>2, DivisionW
    <3> HIDE DEF k, d, j, tmp, left
    <3>2. sb + tmp = (k + j) * W + 0
      BY <1>2, <3>1
    <3>3. left = (d - j) * W + bop.bit
      BY <1>2, <2>1, <3>1
    <3>4. k + j \in Int /\ d - j \in Int /\ 0 < W /\ 0 \in Nat
      BY <1>2, <3>1
    <3>5. ((k + j) * W + 0) \div W = k + j
      BY <3>4, DivisionUniqueW
    <3>6. ((d - j) * W + bop.bit) % W = bop.bit
      BY <1>2, <3>1, <3>4, DivisionUniqueW, Zenon
    <3> QED BY <1>2, <2>3, <3>1, <3>2, <3>3, <3>4, <3>5, <3>6
  <2>8. bop'.start_bit >= args.start
    <3> DEFINE q == (args.start \div W) * W
    <3>1. /\ q \in Int /\ args.start = q + (args.start % W) /\ args.start % W < W
          /\ args.start % W \in Nat
      <4>1. args.start \in Int
        BY <1>2
      <4> QED BY <1>2, <4>1, DivisionW
    <3>2. (fb = 1 /\ sb = q + W) \/ (fb = 0 /\ sb >= args.start)
      BY <1>1 DEF Counted
    <3> HIDE DEF q, tmp
    <3> QED BY <1>2, <2>3, <2>4, <3>1, <3>2
  <2>9. Counted'
    <3>1. bop'.start_bit + bop'.count = RunEnds'
      BY <1>2, <2>1, <2>2, <2>3, <2>4 DEF RunEnds
    <3>2. bop'.bufsize <= RoundUp(bop'.count) + bop'.firstbyte
      BY <2>3, <2>5
    <3> QED BY <2>1, <2>2, <2>3, <2>7, <2>8, <3>1, <3>2 DEF Counted, RoundUp
  <2>10. BufferFilled'
    <3>1. DOMAIN bop'.buf = DOMAIN bop.buf
      BY <2>3 DEF Refilled
    <3>2. \A i \in DOMAIN bop.buf : bop'.buf[i] = args.value
      BY <1>1, <1>2, <2>3, Zenon DEF Refilled, BufferFilled, IsLoop
    <3>3. \A i \in 0..bop'.bufsize * W - 1 : i \in 0..bop.bufsize * W - 1
      <4>1. bop'.bufsize * W <= bop.bufsize * W
        BY <1>2, <2>5, TimesW
      <4>2. bop'.bufsize * W \in Int /\ bop.bufsize * W \in Int
        BY <1>2, <2>5
      <4> QED BY <4>1, <4>2
    <3>4. \A i \in 0..bop'.bufsize * W - 1 : i \in DOMAIN bop'.buf
      BY <1>1, <3>1, <3>3 DEF BufferFilled
    <3>5. bop'.firstbyte # 1 /\ args' = args
      BY <2>2, <2>3
    <3> HIDE DEF tmp, left, sb, fb
    <3> QED BY <3>1, <3>2, <3>4, <3>5 DEF BufferFilled
  <2>11. WrittenSoFar'
    <3>1. WindowBase' = WindowBase + bop.bufsize * W
      <4>1. WindowBase' = bop'.start_bit - bop'.firstbyte * W
        BY DEF WindowBase
      <4>2. bop'.start_bit = sb + tmp /\ bop'.firstbyte = 0 /\ tmp = (bop.bufsize - fb) * W
        BY <2>1, <2>3
      <4> HIDE DEF tmp, left, sb, fb
      <4> QED BY <1>2, <1>5, <2>4, <4>1, <4>2
    <3> HIDE DEF tmp, left, sb, fb
    <3>2. Run' = Run /\ args' = args /\ before' = before
      BY <1>1, <2>2 DEF Run
    <3> QED BY <1>4, <3>1, <3>2 DEF WrittenSoFar
  <2>12. bop' # NoCall
    BY <2>3 DEF NoCall
  <2> QED BY <1>1, <2>2, <2>6, <2>9, <2>10, <2>11, <2>12, Zenon DEF BitmapInv, ArgsOK, RunEnds
<1>8. CASE ~(left > 0)
  <2>1. /\ bop' = NoCall
        /\ args' = [args EXCEPT !.result = "ok"]
    BY <1>3, <1>8 DEF Turn
  <2>2. sb + (bop.bufsize - fb) * W >= RunEnds
    <3>1. CASE LastByteHere
      <4>1. /\ bop.count = bop.bit + (bop.bufsize - fb - 1) * W /\ sb + bop.count = RunEnds
            /\ bop.bit < W
        <5>1. bop.count > 0
          BY <3>1 DEF LastByteHere
        <5>2. bop.bit = bop.count % W /\ sb + bop.count = RunEnds
          BY <1>1, <1>2, <5>1 DEF Counted
        <5>3. bop.count % W < W
          BY <1>2, DivisionW
        <5> QED BY <1>1, <3>1, <5>2, <5>3, LastTurn
      <4>2. (bop.bufsize - fb - 1) * W = (bop.bufsize - fb) * W - W
        BY <1>2
      <4> QED BY <1>2, <1>6, <4>1, <4>2
    <3>2. CASE ~LastByteHere
      <4>1. bop.count <= (bop.bufsize - fb) * W
        BY <1>2, <1>3, <1>6, <1>8, <3>2
      <4> QED BY <1>1, <1>2, <1>6, <4>1 DEF Counted
    <3> QED BY <3>1, <3>2
  <2>3. \A b \in BitmapBits : map'[b] = IF b \in Run THEN args.value ELSE before[b]
    <3>1. \A b \in Run : b < RunEnds /\ b \in Int
      BY <1>2 DEF Run
    <3>2. \A b \in Run : b < WindowBase + bop.bufsize * W
      BY <1>2, <1>5, <1>6, <2>2, <3>1
    <3> QED BY <1>4, <3>2
  <2>4. Run \subseteq BitmapBits
    <3>1. NumBytes * W \in Int
      BY DEF BitmapAssumption
    <3>2. args.start + args.count <= NumBytes * W
      BY <1>1, Zenon DEF ArgsOK, RunEnds
    <3> QED BY <1>2, <3>1, <3>2 DEF Run, BitmapBits
  <2>5. args'.value = args.value /\ ArgsOK' /\ Run' = Run
    BY <1>1, <2>1, OutcomeKeeps
  <2> QED BY <1>1, <2>1, <2>3, <2>4, <2>5 DEF BitmapInv, Settled
<1> QED BY <1>7, <1>8

\* The call up to its loop.
LEMMA CallKeeps ==
  ASSUME BitmapAssumption, BitmapInv, NEW start \in BitmapBits,
         NEW count \in 0..NumBytes * W - start, NEW value \in Values,
         ntfs_bitmap_set_bits_in_run(start, count, value)
  PROVE  BitmapInv'
<1> DEFINE bit == start % W
           q == start \div W
           rest == CountAfterFirst(bit, count)
           size == BufSize(bit, count)
           fb == IF bit # 0 THEN 1 ELSE 0
<1>1. /\ W \in Nat /\ W > 1 /\ MaxBuffer \in Nat /\ MaxBuffer > 1 /\ NumBytes * W \in Nat
      /\ start \in Nat /\ count \in Nat /\ start + count <= NumBytes * W
  <2>1. W \in Nat /\ W > 1 /\ MaxBuffer \in Nat /\ MaxBuffer > 1 /\ NumBytes * W \in Nat
    BY DEF BitmapAssumption
  <2> QED BY <2>1 DEF BitmapBits
<1>2. bit \in Nat /\ bit < W /\ q \in Int /\ start = q * W + bit
  BY <1>1, DivisionW
<1>3. /\ bop' = [status |-> "loop", start_bit |-> RoundUp(start) * W, count |-> rest,
                 bit |-> rest % W, firstbyte |-> fb, bufsize |-> size,
                 value |-> value, buf |-> FirstBuffer(start, count, value, size)]
      /\ before' = map /\ map' = map
      /\ args' = [start |-> start, count |-> count, value |-> value, result |-> "pending"]
  BY Zenon DEF ntfs_bitmap_set_bits_in_run
<1>4. /\ args'.start = start /\ args'.count = count /\ args'.value = value
      /\ args'.result = "pending" /\ RunEnds' = start + count /\ ArgsOK'
  BY <1>1, <1>3 DEF RunEnds, ArgsOK
<1>5. /\ bop'.status = "loop" /\ bop'.start_bit = RoundUp(start) * W /\ bop'.count = rest
      /\ bop'.bit = rest % W /\ bop'.firstbyte = fb /\ bop'.bufsize = size
      /\ bop'.value = value /\ bop'.buf = FirstBuffer(start, count, value, size)
      /\ bop' # NoCall
  BY <1>3, Zenon DEF NoCall
<1>6. /\ bit = 0 => RoundUp(start) = q /\ RoundUp(start) * W = start
      /\ bit # 0 => RoundUp(start) = q + 1 /\ RoundUp(start) * W = start - bit + W
  BY <1>1, RoundedUp
<1>7. /\ RoundUp(start) * W \in Nat
      /\ \/ /\ rest \in Nat /\ RoundUp(start) * W + rest = start + count
            /\ size <= RoundUp(rest) + fb
         \/ rest = -1 /\ start + count < RoundUp(start) * W /\ fb = 1 /\ size = 1
      /\ size \in Nat /\ fb <= size
  <2>1. CASE bit = 0
    <3>1. rest = count /\ size = Smaller(MaxBuffer, RoundUp(count)) /\ fb = 0
      BY <2>1 DEF CountAfterFirst, BufSize
    <3>2. RoundUp(count) \in Int /\ count <= RoundUp(count) * W
      BY <1>1, RoundedUp
    <3>3. RoundUp(count) \in Nat
      BY <1>1, <3>2
    <3> HIDE DEF bit, rest, size, fb
    <3> QED BY <1>1, <1>6, <2>1, <3>1, <3>3 DEF Smaller
  <2>2. CASE bit # 0 /\ count < W - bit
    <3> DEFINE m == count - (W - bit)
    <3>1. rest = -1 /\ size = Smaller(MaxBuffer, RoundUp(m) + 1) /\ fb = 1
      BY <2>2 DEF CountAfterFirst, BufSize
    <3>2. RoundUp(m) = 0
      <4>1. m + W - 1 \in Nat /\ m + W - 1 < W
        BY <1>1, <1>2, <2>2
      <4>2. 0 * W + (m + W - 1) = m + W - 1
        BY <1>1, <4>1
      <4> HIDE DEF m
      <4> QED BY <4>1, <4>2, DivisionUniqueW DEF RoundUp
    <3> HIDE DEF bit, rest, size, fb, m
    <3> QED BY <1>1, <1>2, <1>6, <2>2, <3>1, <3>2 DEF Smaller
  <2>3. CASE bit # 0 /\ ~(count < W - bit)
    <3> DEFINE m == count - (W - bit)
    <3>1. rest = m /\ size = Smaller(MaxBuffer, RoundUp(m) + 1) /\ fb = 1
      BY <2>3 DEF CountAfterFirst, BufSize
    <3>2. m \in Nat
      BY <1>1, <1>2, <2>3
    <3>3. RoundUp(m) \in Int /\ m <= RoundUp(m) * W
      BY <3>2, RoundedUp
    <3>4. RoundUp(m) \in Nat
      BY <1>1, <3>2, <3>3
    <3>5. RoundUp(start) * W + m = start + count
      BY <1>1, <1>2, <1>6, <2>3
    <3>6. RoundUp(start) * W \in Nat
      BY <1>1, <1>2, <1>6, <2>3
    <3> HIDE DEF bit, rest, size, fb, m
    <3> QED BY <1>1, <3>1, <3>2, <3>4, <3>5, <3>6 DEF Smaller
  <2> QED BY <2>1, <2>2, <2>3, Zenon
<1>8. IsLoop'
  <2>1. rest % W \in Nat
    <3>1. rest \in Int
      BY <1>7
    <3> QED BY <3>1, DivisionW
  <2> HIDE DEF rest, size, fb
  <2> QED BY <1>3, <1>4, <1>5, <1>7, <2>1 DEF IsLoop
<1>9. Counted'
  <2>1. (RoundUp(start) * W) \div W = RoundUp(start)
    <3>1. RoundUp(start) \in Int
      BY <1>1, RoundedUp
    <3>2. RoundUp(start) * W + 0 = RoundUp(start) * W
      BY <1>1, <3>1
    <3>3. (RoundUp(start) * W + 0) \div W = RoundUp(start)
      <4>1. 0 \in Nat /\ 0 < W
        BY <1>1
      <4> QED BY <3>1, <4>1, DivisionUniqueW
    <3> QED BY <3>2, <3>3
  <2>2. bit # 0 => RoundUp(start) * W = q * W + W
    BY <1>1, <1>2, <1>6
  <2>3. (fb = 1 /\ bit # 0) \/ (fb = 0 /\ bit = 0)
    OBVIOUS
  <2> HIDE DEF rest, size, fb
  <2> HIDE DEF bit, q
  <2>4. bop'.start_bit = (bop'.start_bit \div W) * W
    BY <1>5, <2>1
  <2>5. \/ /\ bop'.count \in Nat /\ bop'.start_bit + bop'.count = RunEnds'
           /\ bop'.bit = bop'.count % W
           /\ bop'.bufsize <= RoundUp(bop'.count) + bop'.firstbyte
        \/ /\ bop'.count = -1 /\ RunEnds' < bop'.start_bit
           /\ bop'.firstbyte = 1 /\ bop'.bufsize = 1
    BY <1>4, <1>5, <1>7
  <2>6. \/ /\ bop'.firstbyte = 1
           /\ args'.start % W # 0 /\ bop'.start_bit = (args'.start \div W) * W + W
        \/ bop'.firstbyte = 0 /\ bop'.start_bit >= args'.start
    <3>1. /\ args'.start = start /\ bop'.firstbyte = fb
          /\ bop'.start_bit = RoundUp(start) * W
      BY <1>4, <1>5
    <3>2. CASE fb = 1 /\ bit # 0
      <4>1. RoundUp(start) * W = (start \div W) * W + W
        BY <2>2, <3>2 DEF q
      <4>2. start % W # 0
        BY <3>2 DEF bit
      <4> QED BY <3>1, <3>2, <4>1, <4>2
    <3>3. CASE fb = 0 /\ bit = 0
      <4>1. RoundUp(start) * W = start
        BY <1>6, <3>3
      <4> QED BY <1>1, <3>1, <3>3, <4>1
    <3> QED BY <2>3, <3>2, <3>3
  <2> QED BY <2>4, <2>5, <2>6 DEF Counted, RoundUp
<1>10. BufferFilled'
  <2>1. /\ DOMAIN bop'.buf = 0..size * W - 1
        /\ \A i \in DOMAIN bop'.buf :
             bop'.buf[i] = IF i < bit \/ (bit # 0 /\ i < W /\ i >= bit + count)
                             THEN map[q * W + i] ELSE value
    BY <1>5 DEF FirstBuffer
  <2>2. \A i \in 0..size * W - 1 : i \in Nat
    <3>1. size * W \in Int
      BY <1>1, <1>7
    <3> QED BY <3>1
  <2>3. (fb = 1 /\ bit # 0) \/ (fb = 0 /\ bit = 0)
    OBVIOUS
  <2> HIDE DEF rest, size, fb
  <2>4. \A i \in Nat : (i < bit \/ (bit # 0 /\ i < W /\ i >= bit + count)) <=>
                       (fb = 1 /\ i < W /\ (i < bit \/ i >= bit + count))
    BY <1>1, <1>2, <2>3
  <2> QED BY <1>3, <1>4, <1>5, <2>1, <2>2, <2>4, Zenon DEF BufferFilled
<1>11. WrittenSoFar'
  <2>1. \A b \in Run' : b >= start /\ b \in Int
    BY <1>1, <1>4 DEF Run
  <2>2. WindowBase' \in Int /\ WindowBase' <= start
    BY <1>1, <1>2, <1>5, <1>6 DEF WindowBase
  <2>3. \A b \in BitmapBits : ~(b \in Run' /\ b < WindowBase')
    BY <1>1, <2>1, <2>2
  <2> HIDE DEF bit, q, rest, size, fb
  <2> QED BY <1>3, <2>3 DEF WrittenSoFar
<1> QED BY <1>4, <1>5, <1>8, <1>9, <1>10, <1>11, Zenon DEF BitmapInv

\* ntfs_bitmap_set_run and ntfs_bitmap_clear_run, for bytes of every number of
\* bits, bitmaps and buffers of every size and every run: no turn of the loop,
\* and no failure in one, changes a bit outside of the run, success means that
\* every bit of it has the new value, and the turn that reads and writes the
\* last byte has nothing left to do.
THEOREM RunsAreSet == ASSUME BitmapAssumption PROVE BitmapSpec => []RunIsSet
<1>1. BitmapInit => BitmapInv
  <2> SUFFICES ASSUME BitmapInit PROVE BitmapInv
    OBVIOUS
  <2>1. NumBytes * W \in Nat
    BY DEF BitmapAssumption
  <2>2. args.start = 0 /\ args.count = 0 /\ args.result = "not called" /\ ArgsOK
    <3>1. /\ args.start = 0 /\ args.count = 0 /\ args.result = "not called"
          /\ args \in [start : Nat, count : Nat, value : Values,
                      result : {"not called", "pending", "ok", "EIO"}]
      BY Zenon DEF BitmapInit, Values
    <3>2. 0 + 0 <= NumBytes * W
      BY <2>1
    <3> QED BY <3>1, <3>2, Zenon DEF ArgsOK, RunEnds
  <2> QED BY <2>2, Zenon DEF BitmapInit, BitmapInv, Settled
<1>2. BitmapInv /\ [BitmapNext]_bvars => BitmapInv'
  <2> SUFFICES ASSUME BitmapInv, [BitmapNext]_bvars PROVE BitmapInv'
    OBVIOUS
  <2>1. CASE UNCHANGED bvars
    BY <2>1, Zenon DEF bvars, BitmapInv, ArgsOK, RunEnds, Settled, Run, IsLoop, Counted, BufferFilled,
                WrittenSoFar, WindowBase, RoundUp
  <2>2. CASE BitmapNext
    BY <2>2, CallKeeps, TurnKeeps, TurnFailsKeeps DEF BitmapNext
  <2> QED BY <2>1, <2>2
<1>3. BitmapInv => RunIsSet
  <2> SUFFICES ASSUME BitmapInv PROVE RunIsSet
    OBVIOUS
  <2>1. bop # NoCall /\ LastByteHere =>
          bop.count = bop.bit + (bop.bufsize - bop.firstbyte - 1) * W
    BY LastTurn DEF BitmapInv
  <2>2. CASE bop = NoCall
    BY <2>2 DEF BitmapInv, Settled, RunIsSet
  <2>3. CASE bop # NoCall
    BY <2>1, <2>3, Zenon DEF BitmapInv, IsLoop, WrittenSoFar, RunIsSet
  <2> QED BY <2>2, <2>3
<1> QED BY <1>1, <1>2, <1>3, PTL DEF BitmapSpec
=============================================================================
