----------------------------- MODULE MCVolume ------------------------------
(***************************************************************************)
(* A volume from its controller to its mount: DriverBinding, for which a   *)
(* mount succeeds or fails, and Mount, which says when it does.  They share *)
(* no state in the models: a behaviour exercises one of them.              *)
(*                                                                         *)
(* Three controllers have addresses of their own and two slots.  A volume  *)
(* that Windows uses has a restart page of eight blocks; the volumes that   *)
(* are only mounted have small and large sectors, clusters and records, the *)
(* largest of which make four times their size wrap, their MFT at the       *)
(* start, in the middle, in the last cluster and behind it, and a mirror    *)
(* that is whole, short or empty.                                          *)
(***************************************************************************)
EXTENDS DriverBinding, Mount, TLC

CONSTANTS
  c1, c2, c3,
  Parts        \* the parts that may be at work

VARIABLE which  \* the part that is at work

allvars == <<which, vars, mvars>>

Distinct == c1 :> "n1" @@ c2 :> "n2" @@ c3 :> "n3"

BindingEnvironments == {{"stop after open"} \cup {op} : op \in Ops} \cup {Ops}
Restarting == {{"restart"}}

BootSector(bytes, per, n, record, lcn, mirror) ==
  [oem_id |-> "NTFS    ", bytes_per_sector |-> bytes, sectors_per_cluster |-> per,
   sectors |-> n * per, clusters_per_mft_record |-> record, clusters_per_index_record |-> 1,
   mft_lcn |-> lcn, mftmirr_lcn |-> n \div 2, mirr_records |-> mirror]
UsualBoot == BootSector(512, 8, 4096, -10, 4, 4)
OtherBoots ==
  {BootSector(bytes, per, n, record, lcn, 4) :
     bytes \in {256, 512, 4096}, per \in {1, 8, 32}, n \in {16, 17, 1000}, record \in {-10, -12, 1},
     lcn \in {2, 4, 8, 15}}
  \cup {BootSector(512, per, 1000, -10, lcn, 32) : per \in {1, 8, 32, 128}, lcn \in {4, 999, 1000, 1001}}
  \cup {BootSector(4096, 1, 1000, record, 4, 4) : record \in {-31, -30, -29, -9}}
  \cup {BootSector(512, per, 1000, -10, 4, mirror) : per \in {1, 32}, mirror \in {0, 3, 15, 16}}

WithWindows ==
  {{"windows", "power cut"}, {"windows", "windows 8", "power cut"},
   {"windows", "long area", "power cut"}, {"windows", "system volume"},
   {"windows", "windows 8", "system volume", "ignore hiberfile"}, {"fault", "recover"}}
Recovering == {{"windows", "power cut", "recover"}}

ASSUME PartsAssumption == MountAssumption /\ Parts \subseteq {"binding", "mount"}

VolumeInit ==
  /\ which \in Parts
  /\ Init /\ MountInit
  /\ which # "binding" => media = [c \in Controllers |-> "ntfs"] /\ ops = CHOOSE E \in Environments : TRUE
  /\ which # "mount" => boot = UsualBoot /\ disk.txf = "resident" /\ disk.hiber = "none"
                        /\ mops = CHOOSE E \in MountEnvironments : TRUE

VolumeNext ==
  \/ which = "binding" /\ Next /\ UNCHANGED <<which, mvars>>
  \/ which = "mount" /\ MountNext /\ UNCHANGED <<which, vars>>

VolumeSpec == VolumeInit /\ [][VolumeNext]_allvars
=============================================================================
