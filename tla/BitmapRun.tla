----------------------------- MODULE BitmapRun -----------------------------
(***************************************************************************)
(* Setting and clearing runs of bits of a bitmap attribute                 *)
(* (ntfs/bitmap.c: ntfs_bitmap_set_run, ntfs_bitmap_clear_run).  The run   *)
(* is written through a buffer of at most MaxBuffer bytes; a partial first *)
(* byte and a partial last byte are read before they are changed.  A write *)
(* of the buffer may break off after any number of bytes.                  *)
(***************************************************************************)
EXTENDS Integers

CONSTANTS
  W,            \* bits of a byte, 8
  NumBytes,     \* bytes of the bitmap
  MaxBuffer,    \* the cap on the buffer, 8192
  Bitmaps       \* the bitmaps a call may find

BitmapBits == 0..NumBytes * W - 1
Values == {0, 1}

BitmapAssumption ==
  /\ W \in Nat /\ W > 1 /\ NumBytes \in Nat \ {0} /\ MaxBuffer \in Nat /\ MaxBuffer > 1
  /\ Bitmaps \subseteq [BitmapBits -> Values]

NoCall == [status |-> "idle"]

VARIABLES
  map,     \* the bitmap attribute: bit |-> value
  bop,     \* the call in progress: its locals
  before,  \* ghost: the bitmap when the call was made
  args     \* ghost: arguments and result of the last call

bvars == <<map, bop, before, args>>

RoundUp(n) == (n + W - 1) \div W
Smaller(a, b) == IF a < b THEN a ELSE b

BitmapInit ==
  /\ map \in Bitmaps /\ bop = NoCall /\ before = map
  /\ args = [start |-> 0, count |-> 0, value |-> 0, result |-> "not called"]

----------------------------------------------------------------------------
\* count after the loop over the partial first byte, which leaves -1 when
\* the run ends within that byte
CountAfterFirst(bit, count) ==
  IF bit = 0 THEN count ELSE IF count < W - bit THEN -1 ELSE count - (W - bit)

\* The buffer: all bits at the new value, and the first byte as read with
\* the bits of the run changed.
FirstBuffer(start, count, value, bufsize) ==
  [i \in 0..bufsize * W - 1 |->
     IF i < start % W \/ (start % W # 0 /\ i < W /\ i >= (start % W) + count)
       THEN map[(start \div W) * W + i] ELSE value]

\* bytes of the buffer: those after the partial first byte, and that one
BufSize(bit, count) ==
  Smaller(MaxBuffer, IF bit # 0 THEN RoundUp(count - (W - bit)) + 1 ELSE RoundUp(count))

\* ntfs_bitmap_set_bits_in_run up to its loop
ntfs_bitmap_set_bits_in_run(start, count, value) ==
  LET bit == start % W
      firstbyte == IF bit # 0 THEN 1 ELSE 0
      bufsize == BufSize(bit, count)
      rest == CountAfterFirst(bit, count)
  IN  /\ bop = NoCall /\ args.result = "not called"
      /\ bop' = [status |-> "loop", start_bit |-> RoundUp(start) * W, count |-> rest,
                 bit |-> rest % W, firstbyte |-> firstbyte, bufsize |-> bufsize,
                 value |-> value, buf |-> FirstBuffer(start, count, value, bufsize)]
      /\ before' = map
      /\ args' = [start |-> start, count |-> count, value |-> value, result |-> "pending"]
      /\ UNCHANGED map

\* The last byte of the run is partial and within the buffer.
LastByteHere == bop.count > 0 /\ bop.bit # 0 /\ RoundUp(bop.count) + bop.firstbyte <= bop.bufsize

\* the buffer with the last byte read in and changed
Buffer ==
  IF ~LastByteHere THEN bop.buf
  ELSE LET last == RoundUp(bop.count) + bop.firstbyte - 1
       IN  [i \in DOMAIN bop.buf |->
              IF i >= last * W + bop.bit /\ i < (last + 1) * W
                THEN map[((bop.start_bit + bop.count) \div W) * W + i - last * W]
                ELSE bop.buf[i]]

\* The first n bytes of the buffer are in the bitmap.
Written(n) ==
  LET base == (bop.start_bit \div W - bop.firstbyte) * W
  IN  [b \in BitmapBits |-> IF b >= base /\ b < base + n * W THEN Buffer[b - base] ELSE map[b]]

\* Mutant: the next turn writes the partial first byte again.
Refilled_Stale(buf) == buf

\* the partial first byte is made full again for the next turn
Refilled(buf) ==
  [i \in DOMAIN buf |-> IF bop.firstbyte = 1 /\ i < W THEN bop.value ELSE buf[i]]

\* Mutant: every turn is taken for the last one.
Advance_AlwaysLast == (bop.bufsize - bop.firstbyte - 1) * W

\* bits of the whole bytes this turn writes
Advance == (bop.bufsize - bop.firstbyte - (IF LastByteHere THEN 1 ELSE 0)) * W

\* one turn of the loop
Turn ==
  LET tmp == Advance
      left == bop.count - (IF LastByteHere THEN bop.bit ELSE 0) - tmp
      broken == LastByteHere /\ left # 0
      more == ~broken /\ left > 0
  IN  /\ bop # NoCall
      /\ map' = Written(bop.bufsize)
      /\ bop' = IF ~more THEN NoCall
                ELSE [status |-> "loop", start_bit |-> bop.start_bit + tmp, count |-> left,
                      firstbyte |-> 0, bit |-> IF LastByteHere THEN 0 ELSE bop.bit,
                      bufsize |-> Smaller(bop.bufsize, RoundUp(left)),
                      value |-> bop.value, buf |-> Refilled(Buffer)]
      /\ args' = IF more THEN args
                 ELSE [args EXCEPT !.result = IF broken THEN "EIO" ELSE "ok"]
      /\ UNCHANGED before

\* A partial byte cannot be read (n = 0), or fewer bytes than asked for are
\* written.
TurnFails ==
  /\ bop # NoCall
  /\ \E n \in 0..bop.bufsize - 1 : map' = Written(n)
  /\ bop' = NoCall
  /\ args' = [args EXCEPT !.result = "EIO"]
  /\ UNCHANGED before

BitmapNext ==
  \/ \E start \in BitmapBits : \E count \in 0..NumBytes * W - start, value \in Values :
       ntfs_bitmap_set_bits_in_run(start, count, value)
  \/ Turn \/ TurnFails

BitmapSpec == BitmapInit /\ [][BitmapNext]_bvars /\ WF_bvars(Turn)

----------------------------------------------------------------------------
Run == args.start..args.start + args.count - 1

\* Neither a call that succeeds, nor one that is under way, nor one that
\* failed changes a bit outside of its run: the partial bytes at both ends
\* keep their other bits, in every window of the buffer.  A call whose reads
\* and writes all succeed reports success, and has then set every bit of the
\* run: the turn that handled the last byte is the last one (the code's "Last
\* buffer but count is not zero" is never reached).
RunIsSet ==
  /\ \A b \in BitmapBits \ Run : map[b] = before[b]
  /\ args.result = "ok" => \A b \in Run : map[b] = args.value
  /\ bop # NoCall /\ LastByteHere =>
       bop.count = bop.bit + (bop.bufsize - bop.firstbyte - 1) * W

\* The loop ends: count reaches zero, or minus one.
CallReturns == bop # NoCall ~> bop = NoCall
=============================================================================
