-------------------------- MODULE FileStreamProofs --------------------------
(***************************************************************************)
(* A handle of a file implements ByteStream, whatever the size of the      *)
(* file, also if it is longer than an int holds, the unit it is stored in  *)
(* and the width of an int.                                                *)
(***************************************************************************)
EXTENDS FileStream, WellFoundedInduction, TLAPS

-----------------------------------------------------------------------------
\* Arithmetic

\* The conversion to an int leaves a number that it holds,
LEMMA IntHolds ==
  ASSUME StreamAssumption, NEW n \in 0..IntMax
  PROVE  int(n) = n
  BY DEF int, StreamAssumption

\* and never makes another one larger.
LEMMA IntBounds ==
  ASSUME StreamAssumption, NEW n \in Nat
  PROVE  int(n) \in (-IntMax - 1)..IntMax /\ int(n) <= n
  BY DEF int, StreamAssumption

\* A sum of two numbers that an int holds wraps to a negative one.
LEMMA IntWraps ==
  ASSUME StreamAssumption, NEW n \in (IntMax + 1)..(2 * IntMax)
  PROVE  int(n) < 0 /\ int(n) \in (-IntMax - 1)..IntMax
  BY DEF int, StreamAssumption

\* What the invariant says of the numbers of the handle.
Numbers ==
  /\ size \in 0..MaxSize /\ len \in 0..size /\ pos \in (-IntMax - 1)..IntMax /\ pos <= size
  /\ (size <= IntMax => pos >= 0) /\ failed \in BOOLEAN /\ (~failed => len = size)
  /\ MaxSize \in Nat /\ IntMax \in Nat

\* A later byte is not in an earlier unit.
LEMMA UnitsInOrder ==
  ASSUME StreamAssumption, NEW a \in Int, NEW b \in Int, a <= b
  PROVE  /\ a \div UnitSize \in Int /\ b \div UnitSize \in Int
         /\ a \div UnitSize <= b \div UnitSize
<1>1. UnitSize \in Nat /\ UnitSize > 0
  BY DEF StreamAssumption
<1> DEFINE q == a \div UnitSize
           r == b \div UnitSize
<1>2. /\ q \in Int /\ a = UnitSize * q + (a % UnitSize) /\ a % UnitSize \in 0..(UnitSize - 1)
      /\ r \in Int /\ b = UnitSize * r + (b % UnitSize) /\ b % UnitSize \in 0..(UnitSize - 1)
  BY <1>1
<1>3. ASSUME q > r PROVE FALSE
  BY <1>1, <1>2, <1>3
<1> QED
  BY <1>2, <1>3

\* Every byte is written by a call that begins at it or before.
LEMMA CallBeforeByte ==
  ASSUME NEW n \in Nat, NEW cuts \in SUBSET (1..(n - 1)), NEW i \in 0..(n - 1)
  PROVE  CallOf(cuts, i) \in 0..i
<1> DEFINE T == {j \in 0..i : i - j \in cuts \cup {0}}
<1>1. i \in T /\ T \subseteq Nat
  OBVIOUS
<1>2. \E x \in T : \A y \in T : ~(<<y, x>> \in OpToRel(<, Nat))
  <2> HIDE DEF T
  <2> QED BY <1>1, WFMin, NatLessThanWellFounded, Zenon
<1>3. PICK x \in T : \A y \in T : ~(<<y, x>> \in OpToRel(<, Nat))
  BY <1>2
<1>4. ASSUME NEW y \in T PROVE y >= x
  <2>1. x \in Nat /\ y \in Nat
    BY <1>1
  <2>2. ~(y < x)
    BY <2>1, <1>3 DEF OpToRel
  <2> QED BY <2>1, <2>2
<1>5. i - x \in cuts \cup {0} /\ i - x <= i
  OBVIOUS
<1>6. ASSUME NEW r \in cuts, r <= i PROVE r <= i - x
  <2>1. r \in Int /\ i - r \in 0..i /\ i - (i - r) = r
    BY <1>6
  <2>2. i - r \in T
    BY <2>1
  <2>3. x \in 0..i /\ i - r >= x
    BY <2>2, <1>4
  <2> QED BY <2>1, <2>3
<1>7. \E s \in cuts \cup {0} : s <= i /\ \A r \in cuts : r <= i => r <= s
  BY <1>5, <1>6
<1>8. CallOf(cuts, i) \in cuts \cup {0} /\ CallOf(cuts, i) <= i
  BY <1>7 DEF CallOf
<1>9. \A s \in cuts \cup {0} : s <= i => s \in 0..i
  OBVIOUS
<1> QED BY <1>8, <1>9, Zenon

\* A file that is written by one call gets the buffer.
LEMMA WholeCall ==
  ASSUME NEW i \in Nat, NEW buf
  PROVE  Stored(buf, {}, i) = buf[i]
<1>1. CallOf({}, i) = 0
  BY DEF CallOf
<1> QED BY <1>1 DEF Stored

-----------------------------------------------------------------------------
\* The invariant

IInv == TypeOK /\ PositionInFile

\* The numbers of a handle that satisfies the invariant.
LEMMA InvNumbers ==
  ASSUME StreamAssumption, IInv
  PROVE  Numbers
BY DEF IInv, TypeOK, PositionInFile, StreamAssumption, Numbers

\* What is read is within the file, and is all that was asked for or all up to
\* the end unless a write failed.
LEMMA WantedIsThere ==
  ASSUME StreamAssumption, IInv, NEW asked \in Nat, int(asked) > 0, pos >= 0
  PROVE  LET n == Wanted(int(asked))
         IN  /\ n \in Int /\ n <= size - pos
             /\ (size <= IntMax \/ pos + asked <= IntMax) =>
                  /\ n <= asked
                  /\ ~failed => n >= 0
                  /\ (~failed /\ asked <= IntMax)
                       => n = (IF asked < size - pos THEN asked ELSE size - pos)
<1> DEFINE c == int(asked)
<1>1. c \in 1..IntMax /\ c <= asked /\ (asked <= IntMax => c = asked)
  BY IntBounds, IntHolds DEF StreamAssumption
<1>2. Numbers
  BY InvNumbers
<1>3. pos + c <= IntMax => int(pos + c) = pos + c
  BY <1>1, <1>2, IntHolds DEF Numbers
<1>4. pos + c > IntMax => int(pos + c) < 0
  <2>1. pos + c > IntMax => pos + c \in (IntMax + 1)..(2 * IntMax)
    BY <1>1, <1>2 DEF Numbers
  <2> QED BY <2>1, IntWraps
<1>5. (size <= IntMax \/ len <= pos) => int(len - pos) = len - pos
  <2>1. len - pos \in (-IntMax)..IntMax => int(len - pos) = len - pos
    BY <1>2 DEF int, Numbers
  <2> QED BY <1>2, <2>1 DEF Numbers
<1>6. len >= pos => int(len - pos) \in Int /\ int(len - pos) <= len - pos
  <2>1. len >= pos => len - pos \in Nat
    BY <1>2 DEF Numbers
  <2> QED BY <2>1, <1>2, IntBounds DEF Numbers
<1> HIDE DEF c
<1>7. LET n == Wanted(c)
      IN  /\ n \in Int /\ n <= size - pos
          /\ size <= IntMax \/ pos + asked <= IntMax => n <= asked /\ (~failed => n >= 0)
  BY <1>1, <1>2, <1>3, <1>4, <1>5, <1>6 DEF Wanted, Numbers
<1>8. (size <= IntMax \/ pos + asked <= IntMax) /\ ~failed /\ asked <= IntMax =>
        Wanted(c) = (IF asked < size - pos THEN asked ELSE size - pos)
  BY <1>1, <1>2, <1>3, <1>4, <1>5, <1>6 DEF Wanted, Numbers
<1> QED
  BY <1>7, <1>8 DEF c

\* Every call keeps the invariant and is what the stream allows.
LEMMA OpenStep ==
  ASSUME StreamAssumption, IInv, ntfs_open_r
  PROVE  IInv' /\ Stream!Reopen
<1>1. reply'.call = "open" /\ reply'.ok = TRUE
  BY DEF ntfs_open_r, Answer
<1>2. Stream!Reopen
  BY <1>1 DEF ntfs_open_r, Stream!Reopen, Stream!IsReply
<1>3. IInv'
  <2>1. /\ pos' = 0 /\ len' = size /\ write' \in BOOLEAN /\ failed' = FALSE
        /\ UNCHANGED <<byte, size, compressed>>
    BY DEF ntfs_open_r
  <2>2. /\ size \in 0..MaxSize /\ 0 \in (-IntMax - 1)..IntMax /\ 0 <= size /\ 0 >= 0 /\ size <= size
        /\ byte \in Contents /\ compressed \in BOOLEAN
    BY DEF IInv, TypeOK, StreamAssumption
  <2> QED BY <2>1, <2>2, Zenon DEF IInv, TypeOK, PositionInFile, Contents
<1> QED BY <1>2, <1>3

\* Asking for the position may move it back to a shorter len, never out of the
\* file (NtfsGetPosition, ntfs_seek_r).
LEMMA GetPositionStep ==
  ASSUME StreamAssumption, IInv, NtfsGetPosition
  PROVE  IInv' /\ Stream!GetPosition
<1>1. Numbers
  BY InvNumbers
<1>2. pos' = Clipped(pos) /\ UNCHANGED <<byte, size, compressed, len, write, failed>>
  BY DEF NtfsGetPosition
<1>3. reply'.call = "get position" /\ reply'.ok = TRUE /\ reply'.n = pos'
  BY DEF NtfsGetPosition, Answer
<1>4. /\ pos' \in 0..len /\ pos' \in 0..IntMax /\ pos' \in 0..Stream!MoreOf(pos, 0)
      /\ ~failed => pos' = Stream!MoreOf(pos, 0)
  BY <1>1, <1>2 DEF Clipped, Least, Most, Numbers, Stream!MoreOf
<1>5. IInv'
  BY <1>1, <1>2, <1>4 DEF IInv, TypeOK, PositionInFile, Numbers
<1>6. Stream!GetPosition
  BY <1>2, <1>3, <1>4, Zenon DEF Stream!GetPosition, Stream!IsReply
<1> QED BY <1>5, <1>6

\* A position that is set is clipped to the file (NtfsSetPosition, ntfs_seek_r).
LEMMA SetPositionStep ==
  ASSUME StreamAssumption, IInv, NEW asked \in Args, NtfsSetPosition(asked)
  PROVE  IInv' /\ Stream!SetPosition
<1>1. Numbers
  BY InvNumbers
<1>2. pos' = Clipped(int(asked)) /\ UNCHANGED <<byte, size, compressed, len, write, failed>>
  BY DEF NtfsSetPosition
<1>3. reply'.call = "set position" /\ reply'.ok = TRUE /\ reply'.asked = asked
  BY DEF NtfsSetPosition, Answer
<1>4. /\ asked \in Nat /\ int(asked) \in Int /\ int(asked) <= asked /\ int(asked) <= IntMax
      /\ asked <= IntMax => int(asked) = asked
  BY <1>1, IntBounds, IntHolds DEF StreamAssumption, Numbers
<1>5. /\ pos' \in 0..len /\ pos' \in 0..IntMax /\ pos' \in 0..Stream!LessOf(asked, size)
      /\ (~failed /\ asked <= IntMax) => pos' = Stream!LessOf(asked, size)
  BY <1>1, <1>2, <1>4 DEF Clipped, Least, Most, Stream!LessOf, Numbers
<1>6. IInv'
  BY <1>1, <1>2, <1>5 DEF IInv, TypeOK, PositionInFile, Numbers
<1>7. Stream!SetPosition
  BY <1>2, <1>3, <1>5, Zenon DEF Stream!SetPosition, Stream!IsReply
<1> QED BY <1>6, <1>7

\* A read returns the bytes from the position on and moves it past them, or
\* fails and moves nothing (NtfsReadFile, ntfs_read_r).
LEMMA ReadStep ==
  ASSUME StreamAssumption, IInv, NEW asked \in Args, NtfsReadFile(asked)
  PROVE  IInv' /\ (Stream!Read \/ Stream!ReadFails)
<1> DEFINE n == Wanted(int(asked))
           fits == size <= IntMax \/ pos + asked <= IntMax
<1>1. /\ Numbers /\ asked \in Nat
      /\ int(asked) \in Int /\ (asked <= IntMax => int(asked) = asked)
  BY IntBounds, IntHolds, InvNumbers DEF StreamAssumption
<1>2. CASE ReadNothing(asked)
  <2>1. /\ reply'.call = "read" /\ reply'.ok = TRUE /\ reply'.asked = asked /\ reply'.n = 0
        /\ UNCHANGED <<byte, size, compressed, pos, len, write, failed>>
    BY <1>2 DEF ReadNothing, Answer
  <2>2. (asked <= IntMax) => asked = 0
    BY <1>1, <1>2 DEF ReadNothing
  <2>3. pos >= 0 => 0 \in 0..Stream!LessOf(asked, size - pos)
    BY <1>1 DEF Stream!LessOf, Numbers
  <2>4. asked <= IntMax /\ pos >= 0 => 0 = Stream!LessOf(asked, size - pos)
    BY <1>1, <2>2 DEF Stream!LessOf, Numbers
  <2>5. pos = pos + 0 /\ \A i : i \notin 0..(0 - 1)
    BY <1>1 DEF Numbers
  <2>6. Stream!Read
    BY <2>1, <2>3, <2>4, <2>5 DEF Stream!Read, Stream!IsReply, Stream!Within
  <2> QED BY <1>2, <2>6 DEF ReadNothing, IInv, TypeOK, PositionInFile
<1>3. CASE ReadAll(asked)
  <2>1. n \in 0..(size - pos) /\ (n = 0 \/ pos >= 0) /\ int(asked) > 0
    BY <1>3 DEF ReadAll
  <2>2. pos >= 0 /\ fits =>
          /\ n <= asked
          /\ (~failed /\ asked <= IntMax) => n = (IF asked < size - pos THEN asked ELSE size - pos)
    BY <1>1, <2>1, WantedIsThere
  <2>3. /\ reply'.call = "read" /\ reply'.ok = TRUE /\ reply'.asked = asked /\ reply'.n = n
        /\ reply'.data = [i \in 0..(n - 1) |-> byte[pos + i]]
        /\ pos' = int(pos + n) /\ UNCHANGED <<byte, size, compressed, len, write, failed>>
    BY <1>3 DEF ReadAll, Answer
  <2> HIDE DEF n
  <2>4. pos' \in (-IntMax - 1)..IntMax /\ pos' <= pos + n /\ (pos + n \in 0..IntMax => pos' = pos + n)
    <3>1. CASE pos >= 0
      BY <1>1, <2>1, <2>3, <3>1, IntBounds, IntHolds DEF Numbers
    <3>2. CASE pos < 0
      <4>1. int(pos) = pos
        BY <1>1, <3>2 DEF int, Numbers
      <4> QED BY <1>1, <2>1, <2>3, <3>2, <4>1 DEF Numbers
    <3> QED BY <1>1, <3>1, <3>2 DEF Numbers
  <2>5. fits /\ pos >= 0 =>
          /\ n \in 0..Stream!LessOf(asked, size - pos)
          /\ (~failed /\ asked <= IntMax) => n = Stream!LessOf(asked, size - pos)
          /\ pos' = pos + n
    BY <1>1, <2>1, <2>2, <2>4 DEF Numbers, Stream!LessOf
  <2>6. Stream!Read
    <3>1. \A i \in 0..(n - 1) : reply'.data[i] = byte[pos + i]
      BY <2>3
    <3> QED BY <2>3, <2>5, <3>1, Zenon DEF Stream!Read, Stream!IsReply, Stream!Within
  <2>7. IInv'
    <3>1. pos' <= size /\ (size <= IntMax => pos' >= 0)
      BY <1>1, <2>1, <2>4 DEF Numbers
    <3> QED BY <2>3, <2>4, <3>1 DEF IInv, TypeOK, PositionInFile
  <2> QED BY <2>6, <2>7
<1>4. CASE ReadFails(asked)
  <2>1. pos >= 0 => n \in Int /\ n <= size - pos /\ (fits /\ ~failed => n >= 0)
    BY <1>1, <1>4, WantedIsThere DEF ReadFails
  <2>2. PICK k \in (IF pos >= 0 THEN 0..Least(n - 1, size - pos) ELSE {}) \cup {0} :
          /\ pos' = int(pos + k)
          /\ n # 0
          /\ reply' = [Answer("read", asked, FALSE, 0) EXCEPT
                         !.fault = pos >= 0 /\ n > 0 /\ k < size - pos]
    BY <1>4 DEF ReadFails
  <2>3. UNCHANGED <<byte, size, compressed, len, write, failed>>
    BY <1>4 DEF ReadFails
  <2>4. /\ reply'.call = "read" /\ reply'.ok = FALSE /\ reply'.asked = asked
        /\ reply'.fault = (pos >= 0 /\ n > 0 /\ k < size - pos)
    BY <2>2 DEF Answer
  <2> HIDE DEF n
  <2>5. pos >= 0 => k \in 0..(size - pos) /\ (n > 0 => k < size - pos)
    BY <1>1, <2>1, <2>2 DEF Least, Numbers
  <2>6. pos < 0 => k = 0
    BY <1>1, <2>2 DEF Numbers
  <2>7. pos' \in (-IntMax - 1)..IntMax /\ pos' <= size /\ (pos >= 0 /\ pos + k <= IntMax => pos' = pos + k)
        /\ (size <= IntMax => pos' >= 0)
    <3>1. CASE pos >= 0
      <4>1. pos + k \in Nat /\ pos + k <= size
        BY <1>1, <2>5, <3>1 DEF Numbers
      <4>2. pos' \in (-IntMax - 1)..IntMax /\ pos' <= pos + k /\ (pos + k <= IntMax => pos' = pos + k)
        BY <1>1, <2>2, <4>1, IntBounds, IntHolds DEF Numbers
      <4> QED BY <1>1, <4>1, <4>2 DEF Numbers
    <3>2. CASE pos < 0
      <4>1. int(pos + k) = pos
        BY <1>1, <2>6, <3>2 DEF int, Numbers
      <4> QED BY <1>1, <2>2, <3>2, <4>1 DEF Numbers
    <3> QED BY <1>1, <3>1, <3>2 DEF Numbers
  <2>8. pos >= 0 /\ fits => (reply'.fault \/ failed) /\ pos' \in pos..size
    <3>1. pos >= 0 /\ fits => failed \/ (n > 0 /\ k < size - pos)
      BY <1>1, <2>1, <2>2, <2>5 DEF Numbers
    <3>2. pos >= 0 /\ fits => n <= asked
      BY <1>1, <1>4, WantedIsThere DEF ReadFails, n
    <3>3. pos >= 0 /\ fits => pos + k <= IntMax
      BY <1>1, <2>1, <2>2, <2>5, <3>2 DEF Numbers, Least
    <3>4. pos >= 0 /\ fits => pos' \in pos..size
      BY <1>1, <2>5, <2>7, <3>3 DEF Numbers
    <3> HIDE DEF fits
    <3> QED BY <2>4, <3>1, <3>4, Zenon
  <2>9. Stream!ReadFails
    BY <2>3, <2>4, <2>8, Zenon DEF Stream!ReadFails, Stream!IsReply, Stream!Within
  <2>10. IInv'
    BY <2>3, <2>7 DEF IInv, TypeOK, PositionInFile
  <2> QED BY <2>9, <2>10
<1> QED BY <1>2, <1>3, <1>4 DEF NtfsReadFile

\* A write that no call of the attribute layer refuses puts its bytes at the
\* position, and len follows the size (ntfs_write_r).
LEMMA WriteAllStep ==
  ASSUME StreamAssumption, IInv, NEW asked \in Args, WriteAll(asked)
  PROVE  IInv' /\ Stream!Write
<1> DEFINE n == int(asked)
           Here(i) == i \in pos..(pos + n - 1)
<1>1. /\ size \in 0..MaxSize /\ len \in 0..size /\ pos \in 0..size /\ byte \in Contents
      /\ MaxSize \in Nat /\ IntMax \in Nat /\ asked \in Nat
      /\ n \in 1..asked /\ (asked <= IntMax => n = asked) /\ pos + n <= MaxSize
  <2>1. Numbers /\ pos >= 0 /\ pos + n <= MaxSize /\ n > 0 /\ byte \in Contents
    BY InvNumbers DEF WriteAll, IInv, TypeOK
  <2> QED BY <2>1, IntBounds, IntHolds DEF StreamAssumption, Numbers
<1>2. /\ size' = Most(size, pos + n) /\ pos' = int(pos + n) /\ len' = size'
      /\ failed' = FALSE /\ compressed' = compressed /\ write' = write /\ write
  BY DEF WriteAll
<1>3. PICK cuts \in SUBSET (1..(n - 1)), buf \in [0..(n - 1) -> Bytes] :
        /\ \E old \in IF Interrupted(cuts) THEN Contents ELSE {byte} :
             byte' = [i \in 0..(MaxSize - 1) |->
                        IF Here(i) THEN Stored(buf, cuts, i - pos)
                        ELSE IF Exposed(cuts, n, i) THEN old[i] ELSE byte[i]]
        /\ reply' = [Answer("write", asked, TRUE, n) EXCEPT
                       !.data = buf, !.whole = (cuts = {}), !.fault = Interrupted(cuts)]
  BY DEF WriteAll
<1>0. PICK old \in Contents :
        byte' = [i \in 0..(MaxSize - 1) |->
                   IF Here(i) THEN Stored(buf, cuts, i - pos)
                   ELSE IF Exposed(cuts, n, i) THEN old[i] ELSE byte[i]]
  BY <1>1, <1>3
<1>4. /\ reply'.call = "write" /\ reply'.ok = TRUE /\ reply'.asked = asked /\ reply'.n = n
      /\ reply'.data = buf /\ reply'.whole = (cuts = {}) /\ reply'.fault = Interrupted(cuts)
  BY <1>3 DEF Answer
<1> HIDE DEF n
<1>5. ASSUME NEW i \in 0..(MaxSize - 1), Here(i)
      PROVE  Stored(buf, cuts, i - pos) \in Bytes
  <2>1. i - pos \in 0..(n - 1)
    BY <1>1, <1>5
  <2>2. CallOf(cuts, i - pos) \in 0..(i - pos)
    BY <1>1, <2>1, CallBeforeByte
  <2>3. (i - pos) - CallOf(cuts, i - pos) \in 0..(n - 1)
    BY <1>1, <2>1, <2>2
  <2> QED BY <2>3 DEF Stored
<1>6. byte' \in Contents
  <2>1. \A i \in 0..(MaxSize - 1) : byte[i] \in Bytes /\ old[i] \in Bytes
    BY <1>1 DEF Contents
  <2> QED BY <1>0, <1>5, <2>1 DEF Contents
<1>7. \A i \in 0..(MaxSize - 1) :
        \/ Here(i) \/ byte'[i] = byte[i]
        \/ reply'.fault /\ i >= pos + n /\ Stream!Shares(i, pos, pos + n - 1)
  <2> SUFFICES ASSUME NEW i \in 0..(MaxSize - 1), ~ Here(i), byte'[i] # byte[i]
               PROVE  reply'.fault /\ i >= pos + n /\ Stream!Shares(i, pos, pos + n - 1)
    OBVIOUS
  <2>1. Exposed(cuts, n, i)
    BY <1>0
  <2>2. i \in (pos + n)..(size - 1) /\ InUnits(i, pos, pos + n - 1) /\ Interrupted(cuts)
    BY <2>1, Zenon DEF Exposed
  <2>3. i >= pos + n
    BY <1>1, <2>2
  <2> QED BY <1>4, <2>2, <2>3, Zenon DEF InUnits, Stream!Shares
<1>8. cuts = {} => \A i \in 0..(n - 1) : byte'[pos + i] = buf[i]
  <2> SUFFICES ASSUME cuts = {}, NEW i \in 0..(n - 1)
               PROVE  byte'[pos + i] = buf[i]
    OBVIOUS
  <2>1. pos + i \in 0..(MaxSize - 1) /\ Here(pos + i) /\ (pos + i) - pos = i /\ i \in Nat
    BY <1>1
  <2>2. byte'[pos + i] = Stored(buf, cuts, i)
    BY <1>0, <2>1
  <2> QED BY <2>1, <2>2, WholeCall
<1>9. /\ size' \in 0..MaxSize /\ n > 0 /\ n # 0 /\ size' = Stream!MoreOf(size, pos + n)
      /\ pos' \in (-IntMax - 1)..IntMax /\ pos' <= size' /\ (size' <= IntMax => pos' >= 0)
      /\ pos + n <= IntMax => pos' = pos + n
  <2>1. /\ size' \in 0..MaxSize /\ pos + n <= size' /\ pos + n \in Nat
        /\ size' = Stream!MoreOf(size, pos + n)
    BY <1>1, <1>2 DEF Most, Stream!MoreOf
  <2>2. /\ pos' \in (-IntMax - 1)..IntMax /\ pos' <= pos + n
        /\ pos + n <= IntMax => pos' = pos + n
    BY <1>1, <1>2, <2>1, IntBounds, IntHolds
  <2> QED BY <1>1, <2>1, <2>2
<1>10. IInv'
  <2>1. /\ size' \in 0..MaxSize /\ size' <= size'
    BY <1>1, <1>9
  <2>2. compressed \in BOOLEAN /\ write \in BOOLEAN
    BY DEF IInv, TypeOK
  <2> QED BY <1>2, <1>6, <1>9, <2>1, <2>2, Zenon DEF IInv, TypeOK, PositionInFile, Contents
<1>11. Stream!Write
  <2>1. n \in 0..asked /\ pos >= 0
    BY <1>1
  <2>2. failed' = (failed /\ n = 0)
    BY <1>2, <1>9
  <2>3. (reply'.whole) => \A i \in 0..(n - 1) : byte'[pos + i] = buf[i]
    BY <1>4, <1>8
  <2> QED BY <1>1, <1>2, <1>4, <1>6, <1>7, <1>9, <2>1, <2>2, <2>3, Zenon
          DEF Stream!Write, Stream!IsReply, Stream!Contents, Contents
<1> QED BY <1>10, <1>11

\* A write that stops early changes no byte outside of its units, and the file
\* is at least as long as the handle takes it to be (ntfs_write_r).
LEMMA WriteFailsStep ==
  ASSUME StreamAssumption, IInv, NEW asked \in Args, WriteFails(asked)
  PROVE  IInv' /\ Stream!WriteFails
<1> DEFINE n == int(asked)
           last == pos + asked - 1
<1>1. /\ size \in 0..MaxSize /\ len \in 0..size /\ pos \in 0..size /\ pos >= 0
      /\ MaxSize \in Nat /\ UnitSize \in Nat /\ IntMax \in Nat /\ asked \in Nat
      /\ n \in 1..asked /\ pos + n <= MaxSize
  <2>1. Numbers /\ pos >= 0 /\ pos + n <= MaxSize /\ n > 0
    BY InvNumbers DEF WriteFails
  <2> QED BY <2>1, IntBounds DEF StreamAssumption, Numbers
<1>2. failed' = TRUE /\ len' = len /\ compressed' = compressed /\ write' = write /\ write
  BY DEF WriteFails
<1>4. PICK k \in 0..(n - 1) :
        /\ size' = Most(size, pos + k) /\ pos' = int(pos + k) /\ byte' \in Contents
        /\ reply' = [Answer("write", asked, FALSE, 0) EXCEPT !.fault = pos + k <= IntMax]
        /\ \A i \in 0..(MaxSize - 1) :
             \/ InUnits(i, pos + k, pos + EndOfCall(k, n) - 1)
             \/ i \in pos..(pos + k - 1)
             \/ byte'[i] = byte[i]
  BY Zenon DEF WriteFails
<1>3. /\ reply'.call = "write" /\ reply'.ok = FALSE /\ reply'.asked = asked
      /\ reply'.fault = (pos + k <= IntMax)
  BY <1>4 DEF Answer
<1> HIDE DEF n
<1>5. EndOfCall(k, n) \in Int /\ EndOfCall(k, n) <= asked
  <2>1. (pos + k) \div UnitSize \in Int
    BY <1>1, UnitsInOrder
  <2> QED BY <1>1, <2>1 DEF EndOfCall, Least
<1>6. /\ pos \div UnitSize \in Int /\ last \div UnitSize \in Int
      /\ pos \div UnitSize <= (pos + k) \div UnitSize /\ (pos + k) \div UnitSize \in Int
      /\ (pos + EndOfCall(k, n) - 1) \div UnitSize <= last \div UnitSize
      /\ (pos + EndOfCall(k, n) - 1) \div UnitSize \in Int
  <2> DEFINE done == pos + EndOfCall(k, n) - 1
  <2>1. /\ pos \in Int /\ pos + k \in Int /\ last \in Int /\ done \in Int
        /\ pos <= pos + k /\ done <= last
    BY <1>1, <1>5
  <2> HIDE DEF done, last
  <2>2. /\ pos \div UnitSize \in Int /\ (pos + k) \div UnitSize \in Int
        /\ pos \div UnitSize <= (pos + k) \div UnitSize
    BY <2>1, UnitsInOrder
  <2>3. /\ done \div UnitSize \in Int /\ last \div UnitSize \in Int
        /\ done \div UnitSize <= last \div UnitSize
    BY <2>1, UnitsInOrder
  <2> QED BY <2>2, <2>3 DEF done
<1>7. ASSUME NEW i \in 0..(MaxSize - 1), byte'[i] # byte[i]
      PROVE  i \div UnitSize \in (pos \div UnitSize)..(last \div UnitSize)
  <2>1. CASE InUnits(i, pos + k, pos + EndOfCall(k, n) - 1)
    BY <1>6, <2>1 DEF InUnits
  <2>2. CASE i \in pos..(pos + k - 1)
    <3>1. i \in Int /\ pos <= i /\ i <= last
      BY <1>1, <2>2
    <3>2. /\ i \div UnitSize \in Int /\ pos \div UnitSize <= i \div UnitSize
          /\ i \div UnitSize <= last \div UnitSize
      BY <1>1, <3>1, UnitsInOrder
    <3> QED BY <1>6, <3>2
  <2> QED BY <1>4, <1>7, <2>1, <2>2
<1>8. /\ size' = Stream!MoreOf(size, pos + k) /\ size' \in 0..MaxSize
      /\ pos' \in (-IntMax - 1)..IntMax /\ pos' <= size' /\ (size' <= IntMax => pos' >= 0)
      /\ len <= size' /\ len \in 0..MaxSize
      /\ k \in 0..(asked - 1) /\ (pos + k <= IntMax => pos' = pos + k)
  <2>1. /\ size' = Stream!MoreOf(size, pos + k) /\ size' \in 0..MaxSize /\ pos + k <= size'
        /\ pos + k \in Nat /\ len <= size' /\ len \in 0..MaxSize /\ k \in 0..(asked - 1)
    BY <1>1, <1>4 DEF Most, Stream!MoreOf
  <2>2. /\ pos' \in (-IntMax - 1)..IntMax /\ pos' <= pos + k
        /\ pos + k <= IntMax => pos' = pos + k
    BY <1>1, <1>4, <2>1, IntBounds, IntHolds
  <2> QED BY <1>1, <2>1, <2>2
<1>9. IInv'
  <2>1. compressed \in BOOLEAN /\ write \in BOOLEAN
    BY DEF IInv, TypeOK
  <2> QED BY <1>2, <1>4, <1>8, <2>1, Zenon DEF IInv, TypeOK, PositionInFile, Contents
<1>10. \A i \in 0..(MaxSize - 1) : Stream!Shares(i, pos, last) \/ byte'[i] = byte[i]
  BY <1>7, Zenon DEF Stream!Shares
<1>11. Stream!WriteFails
  BY <1>1, <1>2, <1>3, <1>4, <1>8, <1>10, Zenon
     DEF Stream!WriteFails, Stream!IsReply, Stream!Contents, Contents
<1> QED BY <1>9, <1>11

\* Every outcome of a write is one that a stream may have (NtfsWriteFile).
LEMMA WriteStep ==
  ASSUME StreamAssumption, IInv, NEW asked \in Args, NtfsWriteFile(asked)
  PROVE  IInv' /\ (Stream!Write \/ Stream!WriteRefused \/ Stream!WriteFails)
<1>1. ASSUME UNCHANGED <<byte, size, compressed, pos, len, write, failed>>
      PROVE  IInv'
  BY <1>1 DEF IInv, TypeOK, PositionInFile, Contents
<1>2. CASE WriteNothing(asked)
  <2>1. UNCHANGED <<byte, size, compressed, pos, len, write, failed>>
    BY <1>2 DEF WriteNothing
  <2>2. reply'.call = "write" /\ reply'.ok = TRUE /\ reply'.asked = asked /\ reply'.n = 0
    BY <1>2 DEF WriteNothing, Answer
  <2>3. /\ asked \in Nat /\ 0 \in 0..asked /\ (asked <= IntMax => 0 = asked)
        /\ pos \in Int /\ pos <= size /\ size \in Nat
    BY <1>2, IntHolds, InvNumbers DEF WriteNothing, StreamAssumption, Numbers
  <2>4. pos' = pos + 0 /\ size' = Stream!MoreOf(size, pos + 0) /\ ~(0 > 0)
    BY <2>1, <2>3 DEF Stream!MoreOf
  <2>5. \A i : i \notin 0..(0 - 1)
    OBVIOUS
  <2>6. byte' \in Contents /\ failed' = (failed /\ 0 = 0)
    BY <2>1 DEF IInv, TypeOK, Contents
  <2>7. Stream!Write
    BY <2>1, <2>2, <2>3, <2>4, <2>5, <2>6, Zenon
       DEF Stream!Write, Stream!IsReply, Stream!Contents, Contents
  <2> QED BY <1>1, <2>1, <2>7
<1>3. CASE WriteRefused(asked)
  <2>1. UNCHANGED <<byte, size, compressed, pos, len, write, failed>> /\ (~write \/ pos < 0)
    BY <1>3 DEF WriteRefused
  <2>2. reply'.call = "write" /\ reply'.ok = FALSE
    BY <1>3 DEF WriteRefused, Answer
  <2>3. Stream!WriteRefused
    BY <2>1, <2>2 DEF Stream!WriteRefused, Stream!IsReply
  <2> QED BY <1>1, <2>1, <2>3
<1>4. CASE WriteAll(asked)
  BY <1>4, WriteAllStep
<1>5. CASE WriteFails(asked)
  BY <1>5, WriteFailsStep
<1> QED BY <1>2, <1>3, <1>4, <1>5 DEF NtfsWriteFile

-----------------------------------------------------------------------------
\* The results

\* Every call keeps the invariant and is a call of the stream.
LEMMA Step ==
  ASSUME StreamAssumption, IInv, [Next]_vars
  PROVE  IInv' /\ [Stream!Next]_(Stream!vars)
<1>1. CASE UNCHANGED vars
  BY <1>1 DEF vars, Stream!vars, IInv, TypeOK, PositionInFile, Contents
<1>2. CASE ntfs_open_r
  BY <1>2, OpenStep DEF Stream!Next
<1>3. CASE NtfsGetPosition
  BY <1>3, GetPositionStep DEF Stream!Next
<1>4. ASSUME NEW asked \in Args, NtfsReadFile(asked) PROVE IInv' /\ Stream!Next
  BY <1>4, ReadStep DEF Stream!Next
<1>5. ASSUME NEW asked \in Args, NtfsWriteFile(asked) PROVE IInv' /\ Stream!Next
  BY <1>5, WriteStep DEF Stream!Next
<1>6. ASSUME NEW asked \in Args, NtfsSetPosition(asked) PROVE IInv' /\ Stream!Next
  BY <1>6, SetPositionStep DEF Stream!Next
<1> QED BY <1>1, <1>2, <1>3, <1>4, <1>5, <1>6 DEF Next

\* A file that was just opened satisfies the invariant (ntfs_open_r).
LEMMA Start ==
  ASSUME StreamAssumption, Init
  PROVE  IInv /\ Stream!Init
<1>1. size \in 0..MaxSize /\ 0 \in (-IntMax - 1)..IntMax /\ 0 <= size /\ 0 >= 0 /\ size <= size
  BY DEF Init, StreamAssumption
<1> QED
  BY <1>1, Zenon DEF Init, IInv, TypeOK, PositionInFile, Stream!Init, Stream!Contents, Contents

\* In every reachable state the position is not behind the end of the file, nor before
\* its start unless the file is longer than an int holds, and the handle does not
\* take the file for longer than it is (ntfs_write_r, ntfs_seek_r).
THEOREM PositionStaysInFile ==
  ASSUME StreamAssumption
  PROVE  Spec => []PositionInFile
<1>1. Init => IInv
  BY Start
<1>2. IInv /\ [Next]_vars => IInv'
  BY Step
<1>3. IInv => PositionInFile
  BY DEF IInv
<1> QED BY <1>1, <1>2, <1>3, PTL DEF Spec

\* A handle of a file is a stream of bytes, of a file that an int does not hold as far
\* as ByteStream says (NtfsReadFile, NtfsWriteFile,
\* NtfsGetPosition, NtfsSetPosition).
THEOREM StreamRefinement ==
  ASSUME StreamAssumption
  PROVE  Spec => ImplementsByteStream
<1>1. Init => IInv /\ Stream!Init
  BY Start
<1>2. IInv /\ [Next]_vars => IInv' /\ [Stream!Next]_(Stream!vars)
  BY Step
<1> QED BY <1>1, <1>2, PTL DEF Spec, ImplementsByteStream, Stream!Spec

=============================================================================
