------------------------------ MODULE ByteFile ------------------------------
(***************************************************************************)
(* What a data attribute promises: an array of bytes that grows with zero  *)
(* bytes.  Each operation is a relation between the array f before a call  *)
(* and the array g after it.                                               *)
(***************************************************************************)
EXTENDS Integers, Sequences

CONSTANT ClusterSize

\* The first n bytes of f, with zero bytes after its end.
Resized(f, n) == [i \in 1..n |-> IF i <= Len(f) THEN f[i] ELSE 0]

\* f with n bytes b at position pos.
Patched(f, pos, n, b) == [i \in 1..Len(f) |-> IF i \in (pos + 1)..(pos + n) THEN b ELSE f[i]]

LargerOf(a, b) == IF a > b THEN a ELSE b

\* Only the clusters that a write of count bytes at pos meets have changed.
ChangedWithin(f, g, pos, count) ==
    /\ Len(g) = Len(f)
    /\ \A i \in 1..Len(f) :
         g[i] # f[i] => (i - 1) \div ClusterSize
                        \in (pos \div ClusterSize)..((pos + count - 1) \div ClusterSize)

\* A write of all of its count bytes b.
Write(f, g, pos, count, b) ==
    g = Patched(Resized(f, LargerOf(Len(f), pos + count)), pos, count, b)

\* A write that stops after n bytes, and never when it was to extend the file:
\* what it reports is there, nothing before it has changed.
WritePart(f, g, pos, count, b, n) ==
    /\ n \in 1..(count - 1)
    /\ pos + count <= Len(f)
    /\ ChangedWithin(f, g, pos, count)
    /\ \A i \in 1..(pos + n) : g[i] = Patched(f, pos, n, b)[i]

\* A write that reports an error.
WriteFails(f, g, pos, count) == ChangedWithin(f, g, pos, count)

Truncate(f, g, n) == g = Resized(f, n)

TruncateFails(f, g) == g = f

=============================================================================
