------------------------------- MODULE Lznt1 --------------------------------
(***************************************************************************)
(* The coding of one compression block (compress.c): ntfs_comp_set cuts it *)
(* into sub-blocks, ntfs_compress_block codes each as symbols and phrases  *)
(* found by ntfs_best_match in a binary tree of the positions met so far,  *)
(* and ntfs_decompress reads them back.  The two sides compute on their    *)
(* own how many bits of a phrase hold its offset.                          *)
(*                                                                         *)
(* A byte has ByteBits bits and a phrase two bytes; the code has 8.  The   *)
(* two bytes of a header are the size less 3 and the flags.                *)
(***************************************************************************)
EXTENDS Integers, Sequences, FiniteSets

CONSTANTS ByteBits,      \* 8 in the code, also the number of tokens of a tag
          OffsetBits,    \* bits of the first offsets, 4 in the code
          NTFS_SB_SIZE,  \* bytes of a sub-block
          CbSize,        \* bytes of a compression block
          ClusterSize,   \* bytes of a cluster
          Inputs,        \* the blocks that are compressed
          Junk           \* what an uninitialized byte of the output holds

VARIABLES inbuf,   \* the data of the block
          c,       \* ntfs_comp_set and ntfs_compress_block
          d,       \* ntfs_decompress
          phase

vars == <<inbuf, c, d, phase>>

TokenBits == 2 * ByteBits
Byte      == 2 ^ ByteBits
COMPRESSED   == 11   \* 0xb0 of the second header byte
UNCOMPRESSED == 3    \* 0x3f
Shorter(a, b) == IF a < b THEN a ELSE b
LargestOf(S) == CHOOSE x \in S : \A y \in S : y <= x
At(s, i) == s[i + 1]     \* C index
Data(i) == At(inbuf, c.p + i)

(***************************************************************************)
(* Compressing.                                                            *)
(***************************************************************************)
\* The search from position i, down the tree of positions with the same first
\* byte, for the longest match; i becomes a leaf unless the longest is found.
RECURSIVE Walk(_, _, _, _, _)
Walk(t, node, i, maxpos, best) ==
    LET same == {l \in 1..(maxpos - i) : \A m \in 0..(l - 1) : Data(i + m) = Data(node + m)}
        len  == LargestOf(same)
        now  == IF len > best.size THEN [size |-> len, rel |-> node - i] ELSE best
        left == i + len < maxpos /\ Data(i + len) < Data(node + len)
        next == IF left THEN t.lson[node] ELSE t.rson[node]
    IN  IF next >= 0 /\ i + len < maxpos THEN Walk(t, next, i, maxpos, now)
        ELSE [t EXCEPT !.size = now.size, !.rel = now.rel,
                       !.lson[node] = IF left /\ next < 0 THEN i ELSE @,
                       !.rson[node] = IF ~left /\ next < 0 THEN i ELSE @]

ntfs_best_match(t, i, mxsz) ==
    LET node   == t.head[Data(i)]
        maxpos == Shorter(c.bsz, i + mxsz)
    IN  IF node < 0 THEN [t EXCEPT !.head[Data(i)] = i, !.size = 0, !.rel = 0]
        ELSE IF i + 1 >= maxpos THEN [t EXCEPT !.size = maxpos - i, !.rel = node - i]
        ELSE Walk(t, node, i, maxpos, [size |-> 1, rel |-> node - i])

EmptyTree ==
    [head |-> [b \in 0..(Byte - 1) |-> -1], lson |-> [n \in 0..(NTFS_SB_SIZE - 1) |-> -1],
     rson |-> [n \in 0..(NTFS_SB_SIZE - 1) |-> -1], size |-> 0, rel |-> 0]

\* The offset bits and the longest phrase at position i.
RECURSIVE Adjusted(_, _)
Adjusted(s, i) ==
    IF s.mxoff < i
    THEN Adjusted([s EXCEPT !.bp = @ + 1, !.mxoff = 2 * @, !.mxsz = (@ + 2) \div 2], i)
    ELSE s

\* The tree when position s.i has been searched.
RECURSIVE Searched(_)
Searched(s) ==
    IF s.done >= s.i THEN s
    ELSE Searched([s EXCEPT !.done = @ + 1, !.tree = ntfs_best_match(@, s.done + 1, s.mxsz)])

\* The output of a token and, after the last of a tag, room for a new tag.
Emit(s, bytes, bit, i) ==
    LET tag == s.tag + bit * 2 ^ (ByteBits - s.ntag)
        out == s.out \o bytes
    IN  IF s.ntag > 1 THEN [s EXCEPT !.out = out, !.tag = tag, !.ntag = @ - 1, !.i = i]
        ELSE [s EXCEPT !.out = Append([out EXCEPT ![s.ptag] = tag], Junk),
                       !.ptag = Len(out) + 1, !.tag = 0, !.ntag = ByteBits, !.i = i]

\* One turn of the loop of ntfs_compress_block.
CompressToken ==
    /\ phase = "compress"
    /\ c.i < c.bsz /\ Len(c.out) < NTFS_SB_SIZE + 2
    /\ LET s    == Searched(Adjusted(c, c.i))
           j    == c.i + Shorter(s.tree.size, s.mxsz)
           tree == ntfs_best_match(s.tree, c.i + 1, s.mxsz)
           mxsz2 == IF s.mxoff <= c.i THEN (s.mxsz + 2) \div 2 ELSE s.mxsz
           k    == c.i + Shorter(1 + tree.size, mxsz2)
           q    == (-s.tree.rel - 1) * 2 ^ (TokenBits - s.bp) + (j - c.i - 3)
           t    == [s EXCEPT !.tree = tree, !.done = c.i + 1]
       IN  c' = IF j - c.i <= 2 THEN Emit(s, <<Data(c.i)>>, 0, c.i + 1)
                ELSE IF k > j + 1 THEN Emit(t, <<Data(c.i)>>, 0, c.i + 1)
                ELSE Emit(t, <<q % Byte, (q \div Byte) % Byte>>, 1, j)
    /\ UNCHANGED <<inbuf, d, phase>>

\* A sub-block at p of the data, with its header and first tag reserved.
SubBlock(p, stream, zeroes) ==
    [p |-> p, bsz |-> Shorter(NTFS_SB_SIZE, Len(inbuf) - p), i |-> 0, bp |-> OffsetBits,
     mxoff |-> 2 ^ OffsetBits, mxsz |-> 2 ^ (TokenBits - OffsetBits) + 2,
     out |-> <<Junk, Junk, Junk>>, ptag |-> 3, tag |-> 0, ntag |-> ByteBits, done |-> -1,
     tree |-> EmptyTree, stream |-> stream, zeroes |-> zeroes]

\* The coded sub-block, or the data itself when coding saves nothing.
Coded ==
    LET out == IF c.ntag = ByteBits THEN SubSeq(c.out, 1, Len(c.out) - 1)
               ELSE [c.out EXCEPT ![c.ptag] = c.tag]
    IN  IF c.i >= c.bsz /\ Len(out) < NTFS_SB_SIZE + 2
        THEN <<Len(out) - 3, COMPRESSED>> \o SubSeq(out, 3, Len(out))
        ELSE <<NTFS_SB_SIZE - 1, UNCOMPRESSED>>
             \o [n \in 1..NTFS_SB_SIZE |-> IF n <= c.bsz THEN Data(n - 1) ELSE 0]

\* onezero, twozeroes and morezeroes of ntfs_comp_set.
LooksZero(b) ==
    \/ b = <<1, COMPRESSED, 0, 0>>
    \/ b = <<2, COMPRESSED, 0, 0, 0>>
    \/ Len(b) = 6 /\ SubSeq(b, 1, 4) = <<3, COMPRESSED, 2, 0>>

RoundUp(n) == ((n + ClusterSize - 1) \div ClusterSize) * ClusterSize

\* The end of a sub-block in ntfs_comp_set: the next one, or the clusters to write.
EndOfSubBlock ==
    /\ phase = "compress"
    /\ c.i >= c.bsz \/ Len(c.out) >= NTFS_SB_SIZE + 2
    /\ LET b      == Coded
           stream == c.stream \o b
           zeroes == c.zeroes /\ LooksZero(b)
           next   == c.p + NTFS_SB_SIZE
           full   == stream \o <<0, 0>>
           padded == full \o [n \in 1..(RoundUp(Len(full)) - Len(full)) |-> Junk]
       IN  IF Len(stream) + ClusterSize + 2 > CbSize
           THEN phase' = "raw" /\ UNCHANGED <<c, d>>
           ELSE IF next < Len(inbuf)
           THEN c' = SubBlock(next, stream, zeroes) /\ UNCHANGED <<d, phase>>
           ELSE IF zeroes
           THEN phase' = "hole" /\ UNCHANGED <<c, d>>
           ELSE /\ phase' = "decompress"
                /\ \E pread \in BOOLEAN :
                     d' = [cb |-> IF pread
                                  THEN padded \o [n \in 1..(CbSize - Len(padded)) |-> 0]
                                  ELSE padded,
                           pos |-> 0, start |-> 0, end |-> 0, dest |-> <<>>, tag |-> 0,
                           left |-> 0]
                /\ UNCHANGED c
    /\ UNCHANGED inbuf

(***************************************************************************)
(* Decompressing.                                                          *)
(***************************************************************************)
Overflow == phase' = "overflow" /\ UNCHANGED d

\* do_next_sb: the header of a sub-block, and its data when it is not compressed.
NextSubBlock ==
    /\ phase = "decompress"
    /\ d.pos = d.end
    /\ LET atend == \/ d.pos = Len(d.cb) \/ Len(d.dest) = CbSize
                    \/ At(d.cb, d.pos) = 0 /\ At(d.cb, d.pos + 1) = 0
           end   == d.pos + At(d.cb, d.pos) + 3
       IN  IF atend THEN phase' = "done" /\ UNCHANGED d
           ELSE IF \/ Len(d.dest) + NTFS_SB_SIZE > CbSize \/ d.pos + 6 > Len(d.cb)
                   \/ end > Len(d.cb)
           THEN Overflow
           ELSE IF At(d.cb, d.pos + 1) >= 8
           THEN /\ d' = [d EXCEPT !.start = Len(d.dest), !.end = end, !.pos = @ + 2, !.left = 0]
                /\ UNCHANGED phase
           ELSE IF end - d.pos - 2 # NTFS_SB_SIZE THEN Overflow
           ELSE /\ d' = [d EXCEPT !.dest = @ \o SubSeq(d.cb, d.pos + 3, end),
                                  !.pos = end, !.end = end]
                /\ UNCHANGED phase
    /\ UNCHANGED <<inbuf, c>>

\* do_next_tag, for one that is not at the end of the sub-block.
NextTag ==
    /\ phase = "decompress" /\ d.pos # d.end /\ d.left = 0
    /\ IF d.pos > d.end \/ Len(d.dest) > d.start + NTFS_SB_SIZE THEN Overflow
       ELSE /\ d' = [d EXCEPT !.tag = At(d.cb, d.pos), !.pos = @ + 1, !.left = ByteBits]
            /\ UNCHANGED phase
    /\ UNCHANGED <<inbuf, c>>

\* The end of a sub-block, filled with zeroes; left tells that a tag was open.
Filled(s) ==
    IF s.pos = s.end
    THEN [s EXCEPT !.left = 0, !.dest = @ \o [n \in 1..(s.start + NTFS_SB_SIZE - Len(@)) |-> 0]]
    ELSE s

\* Mutant: the offset gets another bit one byte too early.
OffsetBitsAt_Early(n) == CHOOSE b \in OffsetBits..TokenBits :
                     2 ^ b > n /\ (b = OffsetBits \/ 2 ^ (b - 1) <= n)

\* How many bits of a phrase at this place of the sub-block hold the offset.
OffsetBitsAt(n) == CHOOSE b \in OffsetBits..TokenBits :
                     2 ^ b > n - 1 /\ (b = OffsetBits \/ 2 ^ (b - 1) <= n - 1)

\* One turn of the loop over the tokens of a tag.
Token ==
    /\ phase = "decompress" /\ d.pos # d.end /\ d.left > 0
    /\ LET rest == [d EXCEPT !.tag = @ \div 2, !.left = @ - 1]
           n    == Len(d.dest) - d.start
           pt   == At(d.cb, d.pos) + Byte * At(d.cb, d.pos + 1)
           lbits == TokenBits - OffsetBitsAt(n)
           back == pt \div 2 ^ lbits + 1
           len  == (pt % 2 ^ lbits) + 3
           Copy[m \in 0..len] == IF m = 0 THEN d.dest
                                 ELSE LET s == Copy[m - 1]
                                      IN  Append(s, s[Len(s) - back + 1])
       IN  IF d.tag % 2 = 0
           THEN /\ d' = Filled([rest EXCEPT !.dest = Append(@, At(d.cb, d.pos)), !.pos = @ + 1])
                /\ UNCHANGED phase
           ELSE IF n = 0 \/ back > n \/ n + len > NTFS_SB_SIZE THEN Overflow
           ELSE /\ d' = Filled([rest EXCEPT !.dest = Copy[len], !.pos = @ + 2])
                /\ UNCHANGED phase
    /\ UNCHANGED <<inbuf, c>>

Finished == phase \in {"raw", "hole", "done", "overflow"} /\ UNCHANGED vars

Init ==
    /\ inbuf \in Inputs
    /\ c = SubBlock(0, <<>>, TRUE)
    /\ d = [cb |-> <<>>, pos |-> 0, start |-> 0, end |-> 0, dest |-> <<>>, tag |-> 0, left |-> 0]
    /\ phase = "compress"

Next ==
    \/ CompressToken
    \/ EndOfSubBlock
    \/ NextSubBlock
    \/ NextTag
    \/ Token
    \/ Finished

Spec == Init /\ [][Next]_vars

(***************************************************************************)
(* Properties.                                                             *)
(***************************************************************************)
\* What ntfs_comp_set writes, ntfs_decompress turns back into the data, zeroes
\* after it up to the end of the sub-block, whether the clusters alone or the
\* whole block with its hole are read, whatever the bytes after the two null
\* bytes; and a block is stored as a hole only when it is all zeroes.
RoundTrip ==
    /\ phase # "overflow"
    /\ phase = "hole" => \A i \in DOMAIN inbuf : inbuf[i] = 0
    /\ phase = "done" =>
         /\ Len(d.dest) >= Len(inbuf)
         /\ \A i \in DOMAIN d.dest : d.dest[i] = IF i <= Len(inbuf) THEN inbuf[i] ELSE 0

=============================================================================
