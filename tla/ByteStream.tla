----------------------------- MODULE ByteStream -----------------------------
(***************************************************************************)
(* What a handle of a file promises: an array of bytes that is read and    *)
(* written at a position, which moves with every byte.  Little is promised *)
(* of lengths that an int does not hold, and where a call in a file longer *)
(* than that ends behind INT_MAX the position is lost: a read may then     *)
(* return anything, but writes no byte, and a write is right but for it.   *)
(*                                                                         *)
(* A write that fails may have written some of its bytes, may have damaged *)
(* those that are stored in the same units as the others, and leaves the   *)
(* position among the bytes it was to write.  Until a write succeeds or    *)
(* the file is opened again, the handle may then show less of the file     *)
(* than there is.                                                          *)
(***************************************************************************)
EXTENDS Integers

CONSTANTS Bytes, MaxSize, UnitSize, IntMax

VARIABLES
  byte,      \* the bytes of the file, and others up to MaxSize
  size,      \* the number of bytes of the file
  at,        \* the position
  writable,  \* the handle may write
  failed,    \* a write failed since the last one that succeeded
  reply      \* what the last call was asked for and what it returned

vars == <<byte, size, at, writable, failed, reply>>

LessOf(a, b) == IF a < b THEN a ELSE b
MoreOf(a, b) == IF a > b THEN a ELSE b

Contents == [0..(MaxSize - 1) -> Bytes]
IsReply(call, ok) == reply'.call = call /\ reply'.ok = ok

\* Byte i is stored in a unit that holds one of the bytes from..to.
Shares(i, from, to) == i \div UnitSize \in (from \div UnitSize)..(to \div UnitSize)

Init ==
  /\ byte \in Contents /\ size \in 0..MaxSize /\ writable \in BOOLEAN
  /\ at = 0 /\ failed = FALSE

Reopen ==
  /\ IsReply("open", TRUE)
  /\ at' = 0 /\ failed' = FALSE /\ writable' \in BOOLEAN
  /\ UNCHANGED <<byte, size>>

\* The file, or the sum of position and length, is one that an int holds.
Within == at >= 0 /\ (size <= IntMax \/ at + reply'.asked <= IntMax)

Read ==
  LET n == reply'.n
      all == LessOf(reply'.asked, size - at)
  IN  /\ IsReply("read", TRUE)
      /\ Within => /\ n \in 0..all
                   /\ (~failed /\ reply'.asked <= IntMax) => n = all
                   /\ \A i \in 0..(n - 1) : reply'.data[i] = byte[at + i]
                   /\ at' = at + n
      /\ UNCHANGED <<byte, size, writable, failed>>

\* Only because of the device, or where the handle has lost the end of the file.
ReadFails ==
  /\ IsReply("read", FALSE)
  /\ Within => (reply'.fault \/ failed) /\ at' \in at..size
  /\ UNCHANGED <<byte, size, writable, failed>>

\* The bytes are those of the buffer where one call wrote them all.  Nothing else
\* changes, but for the rest of the units written to where the device ended a
\* call early.
Write ==
  LET n == reply'.n
  IN  /\ IsReply("write", TRUE)
      /\ n \in 0..reply'.asked
      /\ reply'.asked <= IntMax => n = reply'.asked
      /\ n > 0 => writable /\ at >= 0
      /\ byte' \in Contents
      /\ \A i \in 0..(MaxSize - 1) :
           \/ i \in at..(at + n - 1) \/ byte'[i] = byte[i]
           \/ reply'.fault /\ i >= at + n /\ Shares(i, at, at + n - 1)
      /\ reply'.whole => \A i \in 0..(n - 1) : byte'[at + i] = reply'.data[i]
      /\ size' = MoreOf(size, at + n)
      /\ at + n <= IntMax => at' = at + n
      /\ failed' = (failed /\ n = 0)
      /\ UNCHANGED writable

WriteRefused ==
  /\ IsReply("write", FALSE)
  /\ ~writable \/ at < 0
  /\ UNCHANGED <<byte, size, at, writable, failed>>

WriteFails ==
  /\ IsReply("write", FALSE)
  /\ writable /\ at >= 0
  /\ \E k \in 0..(reply'.asked - 1) :
       /\ size' = MoreOf(size, at + k)
       /\ at + k <= IntMax => reply'.fault /\ at' = at + k
  /\ byte' \in Contents
  /\ \A i \in 0..(MaxSize - 1) : Shares(i, at, at + reply'.asked - 1) \/ byte'[i] = byte[i]
  /\ failed' = TRUE
  /\ UNCHANGED writable

\* Asking for the position moves it when it is past the end that the handle knows,
\* or lost.
GetPosition ==
  /\ IsReply("get position", TRUE)
  /\ at' \in 0..MoreOf(at, 0) /\ reply'.n = at'
  /\ ~failed => at' = MoreOf(at, 0)
  /\ UNCHANGED <<byte, size, writable, failed>>

SetPosition ==
  LET all == LessOf(reply'.asked, size)
  IN  /\ IsReply("set position", TRUE)
      /\ at' \in 0..all
      /\ (~failed /\ reply'.asked <= IntMax) => at' = all
      /\ UNCHANGED <<byte, size, writable, failed>>

Next ==
  \/ Reopen \/ Read \/ ReadFails \/ Write \/ WriteRefused \/ WriteFails
  \/ GetPosition \/ SetPosition

Spec == Init /\ [][Next]_vars

=============================================================================
