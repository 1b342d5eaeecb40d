----------------------------- MODULE MCStorage -----------------------------
(***************************************************************************)
(* The ways in which the library changes and shares out the medium, side   *)
(* by side: bytes through the UEFI device (Device), protected mft records  *)
(* (MstRecord), runs of bits of a bitmap (BitmapRun) and clusters          *)
(* (ClusterAlloc).  They share no state in the models: a behaviour         *)
(* exercises one of them.                                                  *)
(*                                                                         *)
(* Bytes of the bitmap have three bits and its buffer two bytes, so that a *)
(* run may begin and end inside one byte and may need three turns of the   *)
(* loop.  Bits are not compared with each other: three patterns tell all   *)
(* cases apart.  The cluster allocator has six clusters in three zones, a  *)
(* buffer of one byte with two bits, and two files; the two clusters free  *)
(* at first are neighbours in different zones and bytes of the bitmap.     *)
(***************************************************************************)
EXTENDS ClusterAlloc, Device, BitmapRun, MstRecord

VARIABLE which    \* the part that is at work

allvars == <<which, vars, dvars, bvars, rvars>>

Patterns ==
  LET bits == 0..NumBytes * W - 1
  IN  {[b \in bits |-> 0], [b \in bits |-> 1], [b \in bits |-> b % 2]}

ASSUME PartsAssumption == DeviceAssumption /\ BitmapAssumption /\ MstAssumption

StorageInit ==
  /\ which \in {"record", "device", "bitmap", "alloc"}
  /\ Init /\ DeviceInit /\ BitmapInit /\ RecordInit
  /\ which # "device" => medium = [p \in Positions |-> 0]
  /\ which # "bitmap" => map = [b \in BitmapBits |-> 0]

OnRecord(A) == which = "record" /\ A /\ UNCHANGED <<which, vars, dvars, bvars>>
OnDevice(A) == which = "device" /\ A /\ UNCHANGED <<which, vars, bvars, rvars>>
OnBitmap(A) == which = "bitmap" /\ A /\ UNCHANGED <<which, vars, dvars, rvars>>
OnAlloc(A) == which = "alloc" /\ A /\ UNCHANGED <<which, dvars, bvars, rvars>>

StorageNext ==
  OnRecord(RecordNext) \/ OnDevice(DeviceNext) \/ OnBitmap(BitmapNext) \/ OnAlloc(Next)

StorageSpec ==
  /\ StorageInit /\ [][StorageNext]_allvars
  /\ WF_allvars(OnBitmap(Turn))

=============================================================================
