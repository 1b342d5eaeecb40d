------------------------------ MODULE ByteDisk ------------------------------
(***************************************************************************)
(* What the layers above expect of the device (ntfs/device.c): an array of *)
(* bytes.  A write changes bytes of its range only, a few at a time, and   *)
(* has changed all of them when it reports success; a read gives the bytes *)
(* as they are.  A write that fails may have changed some of its range.    *)
(***************************************************************************)
EXTENDS Integers, Sequences

CONSTANTS Positions, Bytes, NoRequest

VARIABLES
  bytes,   \* the content of the device
  left,    \* what the write in progress has still to put: position |-> byte
  ret      \* result of the last call

dvars == <<bytes, left, ret>>

Init == bytes \in [Positions -> Bytes] /\ left = NoRequest /\ ret = <<"none">>

Begin == /\ left = NoRequest /\ left' # NoRequest
         /\ DOMAIN left' \subseteq Positions
         /\ UNCHANGED <<bytes, ret>>

\* The bytes of S reach the device.
Put(S) == bytes' = [p \in Positions |-> IF p \in S THEN left[p] ELSE bytes[p]]

PutSome == /\ left # NoRequest /\ left' # NoRequest
           /\ DOMAIN left' \subseteq DOMAIN left
           /\ \A p \in DOMAIN left' : left'[p] = left[p]
           /\ Put(DOMAIN left \ DOMAIN left')
           /\ UNCHANGED ret

PutLast == /\ left # NoRequest /\ left' = NoRequest
           /\ Put(DOMAIN left)
           /\ ret' = <<"written">>

Fail == left' = NoRequest /\ ret' = <<"error">> /\ UNCHANGED bytes

Read == /\ left = NoRequest
        /\ ret'[1] = "read"
        /\ \A i \in DOMAIN ret'[3] : ret'[3][i] = bytes[ret'[2] + i - 1]
        /\ UNCHANGED <<bytes, left>>

Next == Begin \/ PutSome \/ PutLast \/ Fail \/ Read

Spec == Init /\ [][Next]_dvars
=============================================================================
