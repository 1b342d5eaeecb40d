------------------------------ MODULE MftAlloc ------------------------------
(***************************************************************************)
(* Allocation of mft records (mft.c).  A record is found in the bitmap of  *)
(* $MFT, or else the bitmap and the data of $MFT are extended; the bit is  *)
(* set on the device at once, the record itself is written when its inode  *)
(* is synchronised.  $MFT has three sets of sizes: those of the opened     *)
(* attributes (v.na), those of its mft record in memory (v.mrec) and those *)
(* on the device (v.disk).  Records are counted from 0; sizes of the data  *)
(* are in records, those of the bitmap in bytes of W bits.                 *)
(*                                                                         *)
(* Every call may meet one fault, at a step that reaches the device.  It   *)
(* is an error that the call handles, or the machine stops there and the   *)
(* volume is mounted again.  The bitmap of $MFT starts as one run; v.run   *)
(* is where its last run begins, and v.cut that the run was dropped.       *)
(***************************************************************************)
EXTENDS Integers, FiniteSets, FiniteSetsExt, Functions, TLC

CONSTANTS
  Reserved,      \* RESERVED_MFT_RECORDS
  W,             \* bits in a byte
  Step,          \* bytes by which the bitmap grows: 8
  BmpCluster,    \* bytes in a cluster of the bitmap
  Many, Few,     \* records in the extensions of the data: 16, or the least
  GiveUp,        \* the last bit to start from for $MFT itself: 400
  SeqMax,        \* the last sequence number: 0xffff
  MaxOpen,       \* bound on the inodes that are open
  MaxCrashes,    \* bound on the times the machine stops
  Volumes        \* the volumes that are mounted: [sizes, marked, used, space]

VARIABLE v

MFT == 0
None == -1

NoFault == [at |-> "none", crash |-> FALSE]
FaultsOf(s) ==
  {NoFault} \cup
  [at : {"full", "mp", "joined", "bmpinit", "setbit", "format", "sync", "read", "clear"},
   crash : IF s.crashes < MaxCrashes THEN BOOLEAN ELSE {FALSE}]

Unused == [inuse |-> FALSE, seq |-> 0, base |-> None]
Bits(s) == s.na.bmp * W

\* The mount: what is not on the device is forgotten.  Beyond the initialised
\* size the bitmap reads as zeroes.
Reboot(s) ==
  [s EXCEPT !.crashes = @ + 1, !.na = s.disk, !.mrec = s.disk, !.open = << >>, !.pos = Reserved,
            !.marked = {b \in @ : b < s.disk.bmp * W}]

Error(s, fault) == IF fault.crash THEN Reboot(s) ELSE s

-----------------------------------------------------------------------------
(* The search.  Only the first zero bit of a byte is looked at: in the     *)
(* byte where the search starts it may lie before the start.               *)

ntfs_ffz(s, byte) ==
  LET zeros == {b \in 0..W - 1 : byte * W + b \notin s.marked}
  IN  IF zeros = {} THEN W ELSE Min(zeros)

Scan(s, from, end, last) ==
  LET Hit(k) == /\ (IF k = from \div W THEN from ELSE k * W) < end
                /\ k * W <= last
                /\ ntfs_ffz(s, k) < W
                /\ k = from \div W => ntfs_ffz(s, k) >= from % W
      hits == {k \in (from \div W)..((end - 1) \div W) : Hit(k)}
  IN  IF hits = {} THEN None ELSE LET k == Min(hits) IN k * W + ntfs_ffz(s, k)

ntfs_mft_bitmap_find_free_rec(s, base) ==
  LET end == Min({s.na.alloc, Bits(s)})
      pos == Max({Reserved, IF base = None THEN s.pos ELSE base + 1})
      start == IF pos >= end THEN Reserved ELSE pos
      first == Scan(s, start, end, end)
  IN  IF start >= end THEN None
      ELSE IF base = MFT THEN Scan(s, 0, end, GiveUp)
      ELSE IF first # None \/ start <= Reserved THEN first
      ELSE Scan(s, Reserved, start, start)

-----------------------------------------------------------------------------
(* Extensions: [st, s].  The new clusters are recorded in the attribute    *)
(* record.  When it has no room, ntfs_mft_attr_extend adds an attribute    *)
(* list first and the extension is undone, to be tried again.              *)

ntfs_mft_attr_extend(s, fault) ==
  IF fault.at = "mp" THEN [st |-> "error", s |-> s]
  ELSE IF ~s.mrec.list THEN [st |-> "keep_searching", s |-> [s EXCEPT !.mrec.list = TRUE]]
  ELSE [st |-> "ok", s |-> s]

\* undo_alloc of the data gives the clusters back and restores the run list.
\* That of the bitmap takes its last run for the new one.
Recorded(s, grown, fault) ==
  LET e == ntfs_mft_attr_extend(s, fault)
  IN  IF fault.at \notin {"full", "mp"} \/ e.st = "ok" THEN [st |-> "ok", s |-> grown] ELSE e

\* "joined": the new cluster continues the last run, ntfs_runlists_merge has
\* made them one, and recording it fails.  The undo drops the whole run, and
\* frees its first cluster.
WithoutLastRun(s) == [s EXCEPT !.cut = TRUE, !.marked = {b \in @ : b < s.run * W}]

ntfs_mft_bitmap_extend_allocation(s, fault) ==
  LET alloc == s.na.bmpAlloc + BmpCluster
  IN  IF s.space = 0 THEN [st |-> "error", s |-> s]
      ELSE IF fault.at = "joined" THEN [st |-> "error", s |-> WithoutLastRun(s)]
      ELSE Recorded(s, [s EXCEPT !.space = @ - 1, !.run = s.na.bmpAlloc,
                                 !.na.bmpAlloc = alloc, !.mrec.bmpAlloc = alloc], fault)

\* The zeroes are written after the sizes were changed; a failed write
\* restores them.
ntfs_mft_bitmap_extend_initialized(s, fault) ==
  LET bmp == s.na.bmp + Step
  IN  IF fault.at = "bmpinit" THEN [st |-> "error", s |-> s]
      ELSE [st |-> "ok",
            s |-> [s EXCEPT !.na.bmp = bmp, !.mrec.bmp = bmp,
                            !.marked = @ \ (Bits(s)..bmp * W - 1)]]

\* One attempt, and another one after an attribute list was added.
ExtendBitmap(s, fault) ==
  LET room == s.na.bmp + Step <= s.na.bmpAlloc
      once == ntfs_mft_bitmap_extend_allocation(s, fault)
      a == IF room THEN [st |-> "ok", s |-> s]
           ELSE IF once.st # "keep_searching" THEN once
           ELSE ntfs_mft_bitmap_extend_allocation(once.s, fault)
  IN  IF a.st = "ok" THEN ntfs_mft_bitmap_extend_initialized(a.s, fault) ELSE a

\* Many records, or the least that is possible.
ntfs_mft_data_extend_allocation(s, fault) ==
  LET nr == IF s.space >= Many THEN Many ELSE Few
      alloc == s.na.alloc + nr
  IN  IF s.space < nr THEN [st |-> "error", s |-> s]
      ELSE Recorded(s, [s EXCEPT !.space = @ - nr, !.na.alloc = alloc, !.mrec.alloc = alloc], fault)

RECURSIVE ExtendData(_, _, _)
ExtendData(s, size, fault) ==
  IF size <= s.na.alloc THEN [st |-> "ok", s |-> s]
  ELSE LET e == ntfs_mft_data_extend_allocation(s, fault)
       IN  IF e.st = "error" THEN e ELSE ExtendData(e.s, size, fault)

\* An empty, unused record.
ntfs_mft_record_layout(base, seq) == [inuse |-> FALSE, seq |-> seq, base |-> base]

ntfs_mft_record_format(s, records) ==
  [s EXCEPT !.recs = [r \in records |-> ntfs_mft_record_layout(None, 1)] @@ @]

\* Mutant: the sizes of $MFT are left to a later call.
SyncMft_Deferred(s) == s

\* ntfs_inode_sync of the inode of $MFT.
SyncMft(s) == [s EXCEPT !.disk = s.mrec]

\* The new records are formatted, then the sizes of $MFT reach the device.
\* An error restores the sizes of the opened attribute only.
ntfs_mft_record_init(s, size, fault) ==
  LET e == ExtendData(s, size, fault)
      f == ntfs_mft_record_format(e.s, s.na.init..size - 1)
      u == [f EXCEPT !.mrec.init = size, !.mrec.alloc = f.na.alloc]
  IN  IF e.st # "ok" THEN e
      ELSE IF fault.at = "format" THEN [st |-> "error", s |-> f]
      ELSE IF fault.at = "sync" THEN [st |-> "error", s |-> u]
      ELSE [st |-> "ok", s |-> SyncMft([u EXCEPT !.na.init = size])]

-----------------------------------------------------------------------------
(* Allocation.                                                             *)

\* undo_mftbmp_alloc: only the bit is given back.
Undo(s, bit, fault) ==
  IF fault.crash THEN Reboot(s) ELSE [s EXCEPT !.marked = @ \ {bit}]

\* The record is laid out again, its sequence number kept unless zero, and an
\* inode is opened for it.
OpenRecord(s, base, bit) ==
  LET seq == IF s.recs[bit].seq = 0 THEN 1 ELSE s.recs[bit].seq
  IN  [s EXCEPT !.open = (bit :> [seq |-> seq, base |-> base, dirty |-> TRUE]) @@ @,
                !.pos = IF base = None THEN bit + 1 ELSE @]

RECURSIVE RecordAlloc(_, _, _), FoundFreeRec(_, _, _, _)

\* found_free_rec.  A record that is in use although its bit was not set
\* keeps the bit, and the search is repeated.
FoundFreeRec(s, base, bit, fault) ==
  LET m == [s EXCEPT !.marked = @ \cup {bit}]
      i == IF bit + 1 > m.na.init
           THEN ntfs_mft_record_init(m, bit + 1, fault)
           ELSE [st |-> "ok", s |-> m]
  IN  IF fault.at = "setbit" THEN Error(s, fault)
      ELSE IF i.st # "ok" THEN Undo(i.s, bit, fault)
      ELSE IF fault.at = "read" THEN Undo(i.s, bit, fault)
      ELSE IF i.s.recs[bit].inuse THEN RecordAlloc(i.s, base, fault)
      ELSE OpenRecord(i.s, base, bit)

\* The bitmap covers more records than are initialised, and the reserved ones.
BitmapCovers(s) == Bits(s) > s.na.init /\ s.na.bmp > Reserved \div W

RecordAlloc(s, base, fault) ==
  LET free == ntfs_mft_bitmap_find_free_rec(s, base)
      e == ExtendBitmap(s, fault)
  IN  IF free # None THEN FoundFreeRec(s, base, free, fault)
      ELSE IF BitmapCovers(s)
      THEN FoundFreeRec(s, base, Max({s.na.init, Reserved}), fault)
      ELSE IF e.st = "ok" THEN FoundFreeRec(e.s, base, Bits(s), fault)
      ELSE Error(e.s, fault)

\* For $MFT itself nothing is extended (ntfs_mft_rec_init always fails) and a
\* record in use is given up.
ntfs_mft_rec_alloc(s, fault) ==
  LET bit == ntfs_mft_bitmap_find_free_rec(s, MFT)
      m == [s EXCEPT !.marked = @ \cup {bit}]
  IN  IF bit = None THEN s
      ELSE IF fault.at = "setbit" THEN Error(s, fault)
      ELSE IF bit + 1 > s.na.init \/ fault.at = "read" \/ s.recs[bit].inuse
      THEN Undo(m, bit, fault)
      ELSE OpenRecord(m, MFT, bit)

ntfs_mft_record_alloc(s, base, fault) ==
  IF base = MFT THEN ntfs_mft_rec_alloc(s, fault) ELSE RecordAlloc(s, base, fault)

-----------------------------------------------------------------------------
(* Writing, freeing, closing and opening a record.                         *)

ntfs_inode_sync(s, n) ==
  [s EXCEPT !.recs[n] = [inuse |-> TRUE, seq |-> s.open[n].seq, base |-> s.open[n].base],
            !.open[n].dirty = FALSE,
            !.files = (n :> s.open[n].seq) @@ @]

Without(f, n) == Restrict(f, DOMAIN f \ {n})

ntfs_inode_real_close(s, n) == [s EXCEPT !.open = Without(@, n)]

\* Mutant: the sequence number stays.
NextSeq_Same(seq) == seq

NextSeq(seq) == IF seq = SeqMax THEN 1 ELSE IF seq = 0 THEN 0 ELSE seq + 1

\* The record is written as unused before its bit is cleared.  An error
\* restores the record in memory, and the bit.
ntfs_mft_record_free(s, n, fault) ==
  LET o == s.open[n]
      dirty == [s EXCEPT !.open[n].dirty = TRUE]
      w == [s EXCEPT !.recs[n] = [inuse |-> FALSE, seq |-> NextSeq(o.seq), base |-> o.base],
                     !.files = Without(@, n)]
      d == [w EXCEPT !.dead = (n :> o.seq)]
  IN  IF fault.at = "sync" THEN Error(dirty, fault)
      ELSE IF fault.at = "clear"
      THEN IF fault.crash THEN Reboot(d) ELSE [w EXCEPT !.open[n].dirty = TRUE]
      ELSE ntfs_inode_real_close([d EXCEPT !.marked = @ \ {n}], n)

-----------------------------------------------------------------------------
Mounted(m) ==
  [na |-> m.sizes, mrec |-> m.sizes, disk |-> m.sizes, space |-> m.space,
   marked |-> m.marked, pos |-> Reserved, open |-> << >>, dead |-> << >>,
   recs |-> [r \in 0..m.sizes.alloc + m.space - 1 |->
               IF r \in m.used THEN [inuse |-> TRUE, seq |-> 1, base |-> None]
               ELSE IF r < m.sizes.init THEN ntfs_mft_record_layout(None, 1)
               ELSE Unused],
   files |-> [r \in m.used |-> 1], old |-> m.used, unmarked |-> m.used \ m.marked, crashes |-> 0,
   run |-> 0, cut |-> FALSE]

Init == \E m \in Volumes : v = Mounted(m)

\* ntfs_create: a record for a new file.
Create ==
  \E f \in FaultsOf(v) :
    /\ Cardinality(DOMAIN v.open) < MaxOpen
    /\ v' = ntfs_mft_record_alloc(v, None, f)

\* A record for the attributes of an open file, or of $MFT.
Extend ==
  \E base \in {MFT} \cup {n \in DOMAIN v.open : v.open[n].base = None}, f \in FaultsOf(v) :
    /\ Cardinality(DOMAIN v.open) < MaxOpen
    /\ v' = ntfs_mft_record_alloc(v, base, f)

\* Also what ntfs_inode_real_close does first.
Sync == \E n \in DOMAIN v.open : v.open[n].dirty /\ v' = ntfs_inode_sync(v, n)

\* The extents of a file are freed before its base record.
FreeRecord ==
  \E n \in DOMAIN v.open, f \in FaultsOf(v) :
    /\ \A m \in DOMAIN v.open : v.open[m].base # n
    /\ \A m \in DOMAIN v.files : v.recs[m].base # n
    /\ v' = ntfs_mft_record_free(v, n, f)

\* The record of a closed file has been written.
Close ==
  \E n \in DOMAIN v.open :
    /\ \A m \in DOMAIN v.open : v.open[m].base # n
    /\ v' = ntfs_inode_real_close(IF v.open[n].dirty THEN ntfs_inode_sync(v, n) ELSE v, n)

\* ntfs_inode_open, and ntfs_extent_inode_open for an extent of an open file.
\* The files the volume was mounted with stay closed.
Open ==
  \E n \in DOMAIN v.files \ (DOMAIN v.open \cup v.old) :
    /\ Cardinality(DOMAIN v.open) < MaxOpen
    /\ v.recs[n].base \in {None} \cup DOMAIN v.open
    /\ v' = [v EXCEPT !.open =
               (n :> [seq |-> v.recs[n].seq, base |-> v.recs[n].base, dirty |-> FALSE]) @@ @]

Crash == v.open # << >> /\ v.crashes < MaxCrashes /\ v' = Reboot(v)

\* Without its last run the bitmap cannot be read, and its cluster is given to
\* others: the model ends there.
Next == ~v.cut /\ (Create \/ Extend \/ Sync \/ FreeRecord \/ Close \/ Open \/ Crash)

Spec == Init /\ [][Next]_v

-----------------------------------------------------------------------------
\* A file that reached the device stays there until it is freed, whatever
\* ntfs_mft_record_alloc gives to others, and wherever the machine stops: its
\* record is within the sizes of $MFT that are on the device, in use, with its
\* sequence number, and open by no one else.
RecordsKept ==
  \A n \in DOMAIN v.files :
    /\ n < v.disk.init
    /\ v.recs[n].inuse /\ v.recs[n].seq = v.files[n]
    /\ n \in DOMAIN v.open => v.open[n].seq = v.files[n]

\* The bitmap has a bit for every record that is open or in use, except those
\* it did not mark when the volume was mounted, wherever the machine stops;
\* and unless the machine stopped it has no other bit.  It is excepted that
\* ntfs_mft_bitmap_extend_allocation_i fails after the new cluster was joined to
\* the last run of the bitmap: its undo drops the run, and the bits in it.
BitmapExact == ~v.cut =>
  LET taken == DOMAIN v.open \cup DOMAIN v.files
  IN  /\ taken \subseteq v.marked \cup v.unmarked
      /\ v.crashes > 0 \/ v.marked \subseteq taken

\* A reference to a file that was freed does not open the file that has its
\* record now (ntfs_mft_record_free increments the sequence number).
StaleRefused ==
  \A n \in DOMAIN v.dead :
    /\ n \in DOMAIN v.files => v.files[n] # v.dead[n]
    /\ n \in DOMAIN v.open => v.open[n].seq # v.dead[n]
=============================================================================
