----------------------------- MODULE FileStream -----------------------------
(***************************************************************************)
(* Reading and writing through a handle of a file (NtfsRead.c, NtfsWrite.c,*)
(* NtfsGetPosition.c, NtfsSetPosition.c and ntfs_read_r, ntfs_write_r and  *)
(* ntfs_seek_r of ntfs/ntfsfile.c).  The data attribute below is what      *)
(* ByteFile says, except that of a compressed file one call writes no      *)
(* further than the end of a compression block.  size_t, ssize_t and off_t *)
(* are defined as int, and so is the position; the length of the file is a *)
(* u64.  Sums that an int does not hold wrap, as the build makes them.     *)
(*                                                                         *)
(* The handle is the only one of its file.  A device that fails, and a     *)
(* volume that is full, may end a call to the attribute early or make it   *)
(* fail, and may be well again at the next call.                           *)
(***************************************************************************)
EXTENDS Integers

CONSTANTS
  Bytes,
  MaxSize,   \* bound: size of the file
  UnitSize,  \* bytes in a cluster; in a compression block when the file is compressed
  IntMax,    \* INT_MAX
  Args       \* positions and lengths that callers ask for, a set of numbers

StreamAssumption ==
  /\ 0 \in Bytes /\ UnitSize \in Nat \ {0} /\ IntMax \in Nat /\ MaxSize \in Nat
  /\ Args \subseteq Nat

VARIABLES
  byte,        \* the bytes of the data attribute
  size,        \* data_na->data_size
  compressed,  \* the attribute is compressed
  pos, len,    \* of ntfs_file_state
  write,       \* of ntfs_file_state
  failed,      \* ghost: a write failed since the last one that succeeded
  reply        \* what the last call was asked for and what it returned

vars == <<byte, size, compressed, pos, len, write, failed, reply>>

Contents == [0..(MaxSize - 1) -> Bytes]
Least(a, b) == IF a < b THEN a ELSE b
Most(a, b) == IF a > b THEN a ELSE b

\* Conversion to an int.
int(n) == ((n + IntMax + 1) % (2 * (IntMax + 1))) - (IntMax + 1)

Empty == [i \in {} |-> 0]
Answer(call, asked, ok, n) ==
  [call |-> call, asked |-> asked, ok |-> ok, n |-> n,
   data |-> Empty, whole |-> TRUE, fault |-> FALSE]

Init ==
  /\ byte \in Contents /\ size \in 0..MaxSize /\ compressed \in BOOLEAN
  /\ \A i \in size..(MaxSize - 1) : byte[i] = 0
  /\ pos = 0 /\ len = size /\ write \in BOOLEAN
  /\ failed = FALSE /\ reply = Answer("open", 0, TRUE, 0)

\* The handle is closed and the file opened again.
ntfs_open_r ==
  /\ pos' = 0 /\ len' = size /\ write' \in BOOLEAN
  /\ failed' = FALSE
  /\ reply' = Answer("open", 0, TRUE, 0)
  /\ UNCHANGED <<byte, size, compressed>>

-----------------------------------------------------------------------------
\* Reading

\* Mutant: the rest of the file is counted from its start.
Wanted_FromStart(count) ==
  IF int(pos + count) < 0 \/ int(pos + count) > len THEN int(len) ELSE count

\* file->len is unsigned: a sum that is negative is greater than it.
Wanted(count) ==
  LET sum == int(pos + count)
  IN  IF sum < 0 \/ sum > len THEN int(len - pos) ELSE count

ReadNothing(asked) ==
  /\ int(asked) <= 0
  /\ reply' = Answer("read", asked, TRUE, 0)
  /\ UNCHANGED <<byte, size, compressed, pos, len, write, failed>>

\* ntfs_attr_pread, called until all is read; it refuses a negative position.  Where
\* the sum of position and length wraps, n may be more than was asked for.
ReadAll(asked) ==
  LET n == Wanted(int(asked))
  IN  /\ int(asked) > 0
      /\ n \in 0..(size - pos) /\ (n = 0 \/ pos >= 0)
      /\ reply' = [Answer("read", asked, TRUE, n) EXCEPT
                     !.data = [i \in 0..(n - 1) |-> byte[pos + i]]]
      /\ pos' = int(pos + n)
      /\ UNCHANGED <<byte, size, compressed, len, write, failed>>

\* A call to it reports an error after k bytes: its arguments are wrong, the end
\* of the attribute is reached, or the device fails.
ReadFails(asked) ==
  LET n == Wanted(int(asked))
  IN  /\ int(asked) > 0
      /\ \E k \in (IF pos >= 0 THEN 0..Least(n - 1, size - pos) ELSE {}) \cup {0} :
           /\ pos' = int(pos + k)
           /\ n # 0
           /\ reply' = [Answer("read", asked, FALSE, 0) EXCEPT
                          !.fault = pos >= 0 /\ n > 0 /\ k < size - pos]
      /\ UNCHANGED <<byte, size, compressed, len, write, failed>>

NtfsReadFile(asked) == ReadNothing(asked) \/ ReadAll(asked) \/ ReadFails(asked)

-----------------------------------------------------------------------------
\* Writing

\* Where a call that is to write the bytes from i to count of the buffer ends.
EndOfCall(i, count) ==
  IF compressed THEN Least(count, UnitSize * ((pos + i) \div UnitSize + 1) - pos) ELSE count

AtBlock(i) == compressed /\ (pos + i) % UnitSize = 0

\* The calls to ntfs_attr_pwrite before the end of the buffer begin at the start
\* and at cuts: where a block of a compressed file ends, and where the device
\* ended a call early, which it only does within the file.  A call that begins
\* where the position does not fit an int is refused.
IsCalls(cuts, k, count) ==
  /\ \A c \in cuts \ {k} : pos + c <= IntMax
  /\ \A i \in 1..(k - 1) : AtBlock(i) => i \in cuts
  /\ \A c \in cuts :
       \/ AtBlock(c)
       \/ \E s \in cuts \cup {0} :
            s < c /\ c < EndOfCall(s, count) /\ pos + EndOfCall(s, count) <= size

CallOf(cuts, i) == CHOOSE s \in cuts \cup {0} : s <= i /\ \A r \in cuts : r <= i => r <= s

\* ptr stays where it is: every call gets the start of the buffer.
Stored(buf, cuts, i) == buf[i - CallOf(cuts, i)]

Interrupted(cuts) == \E c \in cuts : ~AtBlock(c)

\* Byte i is stored in a unit that holds one of the bytes from lo to hi.
InUnits(i, lo, hi) == i \div UnitSize \in (lo \div UnitSize)..(hi \div UnitSize)

\* Where a call ended early, a cluster added to the file may still hold what it
\* held before, behind the bytes that are written.
Exposed(cuts, n, i) ==
  Interrupted(cuts) /\ i \in (pos + n)..(size - 1) /\ InUnits(i, pos, pos + n - 1)

WriteNothing(asked) ==
  /\ int(asked) <= 0
  /\ reply' = Answer("write", asked, TRUE, 0)
  /\ UNCHANGED <<byte, size, compressed, pos, len, write, failed>>

WriteRefused(asked) ==
  /\ int(asked) > 0 /\ (~write \/ pos < 0)
  /\ reply' = Answer("write", asked, FALSE, 0)
  /\ UNCHANGED <<byte, size, compressed, pos, len, write, failed>>

\* Mutant: file->len does not follow a write past the end.
WriteAll_KeepsLen(asked) ==
  LET n == int(asked)
  IN  /\ n > 0 /\ write
      /\ pos >= 0 /\ pos + n <= MaxSize
      /\ \E buf \in [0..(n - 1) -> Bytes] :
           /\ byte' = [i \in 0..(MaxSize - 1) |->
                         IF i \in pos..(pos + n - 1) THEN buf[i - pos] ELSE byte[i]]
           /\ reply' = [Answer("write", asked, TRUE, n) EXCEPT !.data = buf]
      /\ size' = Most(size, pos + n)
      /\ pos' = int(pos + n)
      /\ failed' = FALSE
      /\ UNCHANGED <<compressed, write, len>>

WriteAll(asked) ==
  LET n == int(asked)
  IN  /\ n > 0 /\ write
      /\ pos >= 0 /\ pos + n <= MaxSize
      /\ \E cuts \in SUBSET (1..(n - 1)), buf \in [0..(n - 1) -> Bytes] :
           /\ IsCalls(cuts, n, n)
           /\ \E old \in IF Interrupted(cuts) THEN Contents ELSE {byte} :
                byte' = [i \in 0..(MaxSize - 1) |->
                           IF i \in pos..(pos + n - 1) THEN Stored(buf, cuts, i - pos)
                           ELSE IF Exposed(cuts, n, i) THEN old[i] ELSE byte[i]]
           /\ reply' = [Answer("write", asked, TRUE, n) EXCEPT
                          !.data = buf, !.whole = (cuts = {}), !.fault = Interrupted(cuts)]
      /\ size' = Most(size, pos + n)
      /\ pos' = int(pos + n) /\ len' = size'
      /\ failed' = FALSE
      /\ UNCHANGED <<compressed, write>>

\* The call that begins at byte k of the buffer fails.  It may leave anything in
\* the units that it was to write to, unless it is refused.
WriteFails(asked) ==
  LET n == int(asked)
  IN  /\ n > 0 /\ write
      /\ pos >= 0 /\ pos + n <= MaxSize
      /\ \E k \in 0..(n - 1) :
           /\ size' = Most(size, pos + k)
           /\ pos' = int(pos + k)
           /\ byte' \in Contents
           /\ reply' = [Answer("write", asked, FALSE, 0) EXCEPT !.fault = pos + k <= IntMax]
           /\ \E cuts \in SUBSET (1..k), buf \in [0..(k - 1) -> Bytes] :
                /\ IsCalls(cuts, k, n) /\ k \in cuts \cup {0}
                /\ \A i \in 0..(MaxSize - 1) :
                     \/ pos + k <= IntMax /\ i < size' /\ InUnits(i, pos + k, pos + EndOfCall(k, n) - 1)
                     \/ byte'[i] = IF i \in pos..(pos + k - 1) THEN Stored(buf, cuts, i - pos)
                                   ELSE byte[i]
      /\ failed' = TRUE
      /\ UNCHANGED <<compressed, len, write>>

NtfsWriteFile(asked) ==
  WriteNothing(asked) \/ WriteRefused(asked) \/ WriteAll(asked) \/ WriteFails(asked)

-----------------------------------------------------------------------------
\* The position

Clipped(p) == Least(Most(p, 0), len)

NtfsGetPosition ==
  /\ pos' = Clipped(pos)
  /\ reply' = Answer("get position", 0, TRUE, pos')
  /\ UNCHANGED <<byte, size, compressed, len, write, failed>>

NtfsSetPosition(asked) ==
  /\ pos' = Clipped(int(asked))
  /\ reply' = Answer("set position", asked, TRUE, 0)
  /\ UNCHANGED <<byte, size, compressed, len, write, failed>>

Next ==
  \/ ntfs_open_r \/ NtfsGetPosition
  \/ \E asked \in Args : NtfsReadFile(asked) \/ NtfsWriteFile(asked) \/ NtfsSetPosition(asked)

Spec == Init /\ [][Next]_vars

-----------------------------------------------------------------------------
TypeOK ==
  /\ byte \in Contents /\ size \in 0..MaxSize /\ len \in 0..MaxSize
  /\ pos \in (-IntMax - 1)..IntMax
  /\ compressed \in BOOLEAN /\ write \in BOOLEAN /\ failed \in BOOLEAN

\* The position never passes the end of the file, and it is never negative unless the
\* file is longer than an int holds.  The handle never takes the file for longer than
\* it is, and it knows its length unless a write failed (ntfs_write_r returns before
\* it updates file->len).
PositionInFile ==
  /\ pos <= size /\ (size <= IntMax => pos >= 0)
  /\ len <= size /\ (~failed => len = size)

\* A handle is a stream of bytes: reads return what is in the file at the
\* position, writes put bytes there and nowhere else, the position follows
\* exactly, across ends of file, failed calls and lengths that overflow an int.  In a
\* file longer than INT_MAX this is promised of reads that end at INT_MAX or before,
\* and of the bytes of every write; where a call ends behind INT_MAX the position is
\* lost, and a read may return too few or too many bytes
\* (ntfs_read_r, ntfs_write_r, ntfs_seek_r).
Stream == INSTANCE ByteStream WITH at <- pos, writable <- write
ImplementsByteStream == Stream!Spec

\* "Write the content of buffer into files." (NtfsWrite.c:37)  What a write that
\* succeeds, on a device that does, leaves in the file is the buffer.
WritesBuffer ==
  [][(reply'.call = "write" /\ reply'.ok /\ ~reply'.fault)
       => \A i \in 0..(reply'.n - 1) : byte'[pos + i] = reply'.data[i]]_vars

=============================================================================
