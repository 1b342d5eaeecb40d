--------------------------- MODULE DriverBinding ---------------------------
(***************************************************************************)
(* The driver binding (NtfsDxe/Ntfs.c), the life of an NTFS_VOLUME          *)
(* (Init.c), the mounts and the table of devices of the wrapper            *)
(* (ntfs/ntfsvol.c, ntfsinternal.c) and the lock NtfsFsLock (Misc.c).      *)
(*                                                                         *)
(* Firmware calls Start and Stop on controllers one after the other.  A    *)
(* read of the disk may find that the medium was changed: the BlockIo      *)
(* driver then reinstalls its protocol, and Stop and Start are called      *)
(* within the call that was reading ("outer").                             *)
(*                                                                         *)
(* Abstracted: the name of a mount is NameOf[c], what NtfsCreateVolumeName *)
(* makes of the address of BlockIo.  ntfs_device_mount is external: it      *)
(* gives a volume or fails.  Memory is never short except where an action  *)
(* says so.  Freed memory keeps its content.                               *)
(***************************************************************************)
EXTENDS Integers, FiniteSets

CONSTANTS
  Controllers,   \* handles that carry BlockIo and DiskIo
  NameOf,        \* controller |-> mount name: 28 bits of an address
  DevOptMax,     \* DEV_OPT_MAX: slots of devoptab_list
  MaxVolumes,    \* bound: NTFS_VOLUME structures allocated
  Environments   \* sets of Ops: what happens besides

\* A controller is started again after it was stopped; the mount, installing
\* the protocol or uninstalling it fails; a volume that was opened is stopped;
\* Stop is called within an operation on a file.
Ops == {"restart", "mount fails", "install fails", "uninstall fails", "stop after open",
        "stop in operation"}

ASSUME BindingAssumption ==
  /\ DevOptMax \in Nat \ {0} /\ MaxVolumes \in Nat
  /\ DOMAIN NameOf = Controllers
  /\ Environments \subseteq SUBSET Ops

Volumes == 1..MaxVolumes    \* addresses of NTFS_VOLUMEs, in order of allocation
Null == 0

VARIABLES
  media,   \* what each controller's medium holds
  diskio,  \* controllers whose DiskIo the driver has open BY_DRIVER
  sfs,     \* the NTFS_VOLUME whose protocol is installed on a controller
  volume,  \* NTFS_VOLUME: its ntfs_vd and whether root is set
  vd,      \* ntfs_vd: the NTFS_VOLUME its device reads through, ntfs_umounts
  dev,     \* devoptab_list: mount name and ntfs_vd of each slot
  lock,    \* NtfsFsLock is held
  outer,   \* the call that is reading the disk
  ret,     \* result of the last Start or Stop
  ops      \* what happens in this behaviour

vars == <<media, diskio, sfs, volume, vd, dev, lock, outer, ret, ops>>

May(op) == op \in ops
Never(S) == ops \cap S = {}
Idle == [call |-> "none"]
Empty == [name |-> "", vd |-> Null]
Count == Cardinality({v \in Volumes : volume[v].used})
NextVolume == Count + 1

Init ==
  /\ ops \in Environments
  /\ media \in [Controllers -> {"ntfs", "other"}]
  /\ diskio = {}
  /\ sfs = [c \in Controllers |-> Null]
  /\ volume = [v \in Volumes |-> [used |-> FALSE, vd |-> Null, root |-> FALSE]]
  /\ vd = [v \in Volumes |-> [interface |-> Null, umounts |-> 0]]
  /\ dev = [i \in 0..DevOptMax - 1 |-> Empty]
  /\ lock = FALSE /\ outer = Idle
  /\ ret = [call |-> "none", c |-> Null, status |-> "EFI_SUCCESS"]

----------------------------------------------------------------------------
\* The slots whose name is this one: the first of them is what is found.
ntfsGetDevice(name) == {i \in DOMAIN dev : dev[i] # Empty /\ dev[i].name = name}

\* Slot 0 is the mark of a free slot, and is never used.
FreeSlots == {i \in DOMAIN dev : i # 0 /\ dev[i] = dev[0]}
FirstOf(S) == CHOOSE i \in S : \A j \in S : i <= j

\* ntfsAddDevice
AddDevice(d, name, v) ==
  [d EXCEPT ![FirstOf({i \in DOMAIN d : i # 0 /\ d[i] = d[0]})] = [name |-> name, vd |-> v]]

\* Mutant: the first device of the table is taken, whatever its name.
ntfsMount_AnyName(name, v) ==
  IF \E i \in DOMAIN dev : dev[i] # Empty
    THEN {[vd |-> dev[FirstOf({i \in DOMAIN dev : dev[i] # Empty})].vd, dev |-> dev]}
  ELSE {[vd |-> v, dev |-> AddDevice(dev, name, v)]}

\* The outcome of ntfsMount for volume v: an ntfs_vd (named after the
\* NTFS_VOLUME it was made for) or Null, and the table after it.
ntfsMount(name, v) ==
  IF ntfsGetDevice(name) # {}
    THEN {[vd |-> dev[FirstOf(ntfsGetDevice(name))].vd, dev |-> dev]}
  ELSE IF FreeSlots = {} THEN {[vd |-> Null, dev |-> dev]}
  ELSE {[vd |-> v, dev |-> AddDevice(dev, name, v)]}
       \cup (IF May("mount fails") THEN {[vd |-> Null, dev |-> dev]} ELSE {})

\* Whether the SimpleFileSystem protocol is there decides whether a Start
\* that failed closes DiskIo and reports an error.
StartFailed(c) ==
  /\ diskio' = IF sfs[c] = Null THEN diskio \ {c} ELSE diskio
  /\ ret' = [call |-> "Start", c |-> c,
             status |-> IF sfs[c] = Null THEN "EFI_UNSUPPORTED" ELSE "EFI_SUCCESS"]

\* NtfsAllocateVolume from the mount on, for a medium that holds NTFS; then
\* the end of Start.  A failed mount is dereferenced before it is looked at:
\* the machine stops there, or reads something it never uses and goes on.
Mount(c, v) ==
  \E m \in ntfsMount(NameOf[c], v) :
    /\ dev' = m.dev
    /\ vd' = IF m.vd = v THEN [vd EXCEPT ![v] = [interface |-> v, umounts |-> 0]] ELSE vd
    /\ volume' = [volume EXCEPT ![v] = [used |-> TRUE, vd |-> m.vd, root |-> FALSE]]
    /\ \/ /\ m.vd = Null
          /\ diskio' = diskio \cup {c}
          /\ ret' = [call |-> "Start", c |-> c, status |-> "EFI_SUCCESS"]
          /\ UNCHANGED sfs
       \/ /\ m.vd # Null
          /\ sfs' = [sfs EXCEPT ![c] = v]
          /\ diskio' = diskio \cup {c}
          /\ ret' = [call |-> "Start", c |-> c, status |-> "EFI_SUCCESS"]
       \/ /\ m.vd # Null /\ May("install fails")
          /\ StartFailed(c)
          /\ UNCHANGED sfs
    /\ UNCHANGED media

\* The medium does not hold NTFS, or could not be read.
Refuse(c, v) ==
  /\ volume' = [volume EXCEPT ![v].used = TRUE]
  /\ StartFailed(c)
  /\ UNCHANGED <<media, sfs, vd, dev>>

MayStart(c) ==
  /\ NextVolume \in Volumes
  /\ May("restart") \/ ntfsGetDevice(NameOf[c]) = {} \/
       \E d \in Controllers \ {c} : sfs[d] # Null /\ NameOf[d] = NameOf[c]

\* Start, alone or within another call; LockedByMe if the lock was free, so
\* that the lock is afterwards as it was.
NtfsDriverBindingStart(c) ==
  /\ c \notin diskio /\ MayStart(c)
  /\ IF media[c] = "ntfs" THEN Mount(c, NextVolume) ELSE Refuse(c, NextVolume)
  /\ UNCHANGED <<lock, outer>>

NtfsDriverBindingStart_Again(c) ==
  /\ c \in diskio /\ NextVolume \in Volumes
  /\ ret' = [call |-> "Start", c |-> c, status |-> "EFI_ALREADY_STARTED"]
  /\ UNCHANGED <<media, diskio, sfs, volume, vd, dev, lock, outer>>

\* Start up to the read of the boot sector, during which the medium changes.
StartReads(c) ==
  /\ outer = Idle /\ ~lock /\ c \notin diskio /\ MayStart(c)
  /\ lock' = TRUE
  /\ diskio' = diskio \cup {c}
  /\ outer' = [call |-> "Start", c |-> c, volume |-> NextVolume]
  /\ volume' = [volume EXCEPT ![NextVolume].used = TRUE]
  /\ \E m \in {"ntfs", "other"} : media' = [media EXCEPT ![c] = m]
  /\ UNCHANGED <<sfs, vd, dev, ret>>

\* The read reports EFI_MEDIA_CHANGED and the outer Start comes to its end.
StartReturns ==
  /\ outer.call = "Start"
  /\ StartFailed(outer.c)
  /\ lock' = FALSE /\ outer' = Idle
  /\ UNCHANGED <<media, sfs, volume, vd, dev>>

----------------------------------------------------------------------------
\* NtfsOpenVolume as far as the volume goes: _open_root keeps the inode.
NtfsOpenVolume(c) ==
  /\ sfs[c] # Null /\ outer = Idle /\ ~lock
  /\ ~volume[sfs[c]].root
  /\ volume' = [volume EXCEPT ![sfs[c]].root = TRUE]
  /\ UNCHANGED <<media, diskio, sfs, vd, dev, lock, outer, ret>>

\* NtfsOpen, which holds the lock while it reads the disk.
OperationReads(c) ==
  /\ sfs[c] # Null /\ outer = Idle /\ ~lock
  /\ volume[sfs[c]].root
  /\ lock' = TRUE
  /\ outer' = [call |-> "Open", c |-> c, volume |-> sfs[c]]
  /\ UNCHANGED <<media, diskio, sfs, volume, vd, dev, ret>>

OperationReturns ==
  /\ outer.call = "Open"
  /\ lock' = FALSE /\ outer' = Idle
  /\ UNCHANGED <<media, diskio, sfs, volume, vd, dev, ret>>

----------------------------------------------------------------------------
\* ntfs_umount of the ntfs_volume of descriptor d, n times; two stands for
\* any number above.
ntfs_umount(d, n) == [vd EXCEPT ![d].umounts = IF @ + n > 2 THEN 2 ELSE @ + n]

\* NtfsAbandonVolume: the volume is unmounted whether or not the protocol
\* could be uninstalled, and once more if the root was ever opened.
NtfsAbandonVolume(c, v) ==
  \/ /\ May("uninstall fails")
     /\ vd' = ntfs_umount(volume[v].vd, 1)
     /\ ret' = [call |-> "Stop", c |-> c, status |-> "EFI_ACCESS_DENIED"]
     /\ UNCHANGED <<diskio, sfs, volume>>
  \/ /\ vd' = ntfs_umount(volume[v].vd, IF volume[v].root THEN 2 ELSE 1)
     /\ volume' = [volume EXCEPT ![v].root = FALSE]
     /\ sfs' = [sfs EXCEPT ![c] = Null]
     /\ diskio' = diskio \ {c}
     /\ ret' = [call |-> "Stop", c |-> c, status |-> "EFI_SUCCESS"]

\* Stop, alone or within another call; the lock is afterwards as it was.
NtfsDriverBindingStop(c) ==
  /\ c \in diskio
  /\ outer.call # "Open" \/ May("stop in operation")
  /\ \/ /\ sfs[c] = Null
        /\ diskio' = diskio \ {c}
        /\ ret' = [call |-> "Stop", c |-> c, status |-> "EFI_SUCCESS"]
        /\ UNCHANGED <<sfs, volume, vd>>
     \/ /\ sfs[c] # Null
        /\ volume[sfs[c]].root => May("stop after open")
        /\ NtfsAbandonVolume(c, sfs[c])
  /\ UNCHANGED <<media, dev, lock, outer>>

Call ==
  \/ \E c \in Controllers :
       \/ NtfsDriverBindingStart(c) \/ NtfsDriverBindingStart_Again(c) \/ StartReads(c)
       \/ NtfsDriverBindingStop(c) \/ NtfsOpenVolume(c) \/ OperationReads(c)
  \/ StartReturns \/ OperationReturns
Next == Call /\ UNCHANGED ops

Spec == Init /\ [][Next]_vars

----------------------------------------------------------------------------
\* While a controller has the file system protocol, the volume behind it is
\* mounted, and its device reads through that very NTFS_VOLUME: two
\* controllers never share a mount, and no mount outlives its controller.
MountIsOwn(c) ==
  LET d == volume[sfs[c]].vd IN
    d # Null /\ vd[d].interface = sfs[c] /\ vd[d].umounts = 0
InstalledIsMounted == \A c \in Controllers : sfs[c] # Null => MountIsOwn(c)

\* A controller with the file system protocol has its DiskIo open by the
\* driver, also after a Start failed in which the medium changed and a nested
\* Start succeeded.
InstalledIsOpen == \A c \in Controllers : sfs[c] # Null => c \in diskio

\* NtfsCreateVolumeName keeps 28 bits of an address: they tell controllers apart.
NamesDiffer == \A c, d \in Controllers : NameOf[c] = NameOf[d] => c = d

\* An installed protocol has its DiskIo open, and a mount of its own as long as
\* no controller is started a second time (the mount stays in the table of
\* devices), uninstalling never fails and no two mounts have the same name,
\* whatever media change within a Start and whatever mounts and installs fail.
InstalledIsBacked ==
  /\ InstalledIsOpen
  /\ Never({"restart", "uninstall fails"}) /\ NamesDiffer => InstalledIsMounted

=============================================================================
