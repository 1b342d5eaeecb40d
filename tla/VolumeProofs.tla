---------------------------- MODULE VolumeProofs ---------------------------
(***************************************************************************)
(* For every number of controllers, devices and volumes: a controller that *)
(* has the file system protocol is backed by an open DiskIo and a mount of *)
(* its own, whatever Starts and Stops are nested in a Start.               *)
(*                                                                         *)
(* For every boot sector, size of the restart pages and set of records:    *)
(* what a mount promises of the volume that it shares with Windows.        *)
(***************************************************************************)
EXTENDS DriverBinding, Mount, TLAPS, FiniteSetTheorems, NaturalsInduction, WellFoundedInduction

\* A set of natural numbers that is not empty has a least one.
LEMMA HasLeast ==
  ASSUME NEW S \in SUBSET Nat, S # {}
  PROVE  \E x \in S : \A y \in S : x <= y
<1>1. \E x \in S : \A y \in S : ~(<<y, x>> \in OpToRel(<, Nat))
  BY NatLessThanWellFounded, WFMin, Zenon
<1>2. \A x, y \in Nat : x < y => <<x, y>> \in OpToRel(<, Nat)
  BY Zenon DEF OpToRel
<1>3. \E x \in S : \A y \in S : ~(y < x)
  BY <1>1, <1>2, Zenon
<1> QED BY <1>3

----------------------------------------------------------------------------
\* The controllers

Addresses == Volumes \cup {Null}
Used == {v \in Volumes : volume[v].used}
Devices == [name : {NameOf[c] : c \in Controllers} \cup {""}, vd : Addresses]

TypeOK ==
  /\ diskio \in SUBSET Controllers
  /\ sfs \in [Controllers -> Addresses]
  /\ volume \in [Volumes -> [used : BOOLEAN, vd : Addresses, root : BOOLEAN]]
  /\ vd \in [Volumes -> [interface : Addresses, umounts : 0..2]]
  /\ dev \in [0..(DevOptMax - 1) -> Devices]

\* NTFS_VOLUMEs are allocated in order.
InOrder == \E n \in 0..MaxVolumes : Used = 1..n

\* A protocol is part of an allocated NTFS_VOLUME, and installed once.
SfsIsOwn ==
  /\ \A c \in Controllers : sfs[c] # Null => volume[sfs[c]].used
  /\ \A c, d \in Controllers : sfs[c] # Null /\ sfs[c] = sfs[d] => c = d

\* The volume reads through the descriptor made for it, which is in use.
HasOwnMount(c) ==
  /\ volume[sfs[c]].vd = sfs[c]
  /\ vd[sfs[c]].interface = sfs[c] /\ vd[sfs[c]].umounts = 0

Orderly == Never({"restart", "uninstall fails"}) /\ NamesDiffer

MountsAreOwn == Orderly => \A c \in Controllers : sfs[c] # Null => HasOwnMount(c)

IInv == TypeOK /\ InOrder /\ SfsIsOwn /\ InstalledIsOpen /\ MountsAreOwn

----------------------------------------------------------------------------
\* ntfsGetDevice and ntfsAddDevice take the first slot of those that qualify.
LEMMA FirstIsOne ==
  ASSUME NEW S \in SUBSET Nat, S # {}
  PROVE  FirstOf(S) \in S
BY HasLeast, Zenon DEF FirstOf

\* The next NTFS_VOLUME is one that was never allocated.
LEMMA NextIsFresh ==
  ASSUME InOrder, NextVolume \in Volumes
  PROVE  /\ ~volume[NextVolume].used
         /\ NextVolume \in 0..MaxVolumes /\ Used \cup {NextVolume} = 1..NextVolume
<1>1. PICK n \in 0..MaxVolumes : Used = 1..n
  BY DEF InOrder
<1>2. Cardinality(1..n) = n
  BY <1>1, FS_Interval, BindingAssumption
<1>3. NextVolume = n + 1
  BY <1>1, <1>2, Zenon DEF NextVolume, Count, Used
<1>4. NextVolume \notin Used
  BY <1>1, <1>3
<1> QED BY <1>1, <1>3, <1>4, BindingAssumption DEF Used, Volumes

\* What ntfsMount returns and leaves in the table; a name that is not in the
\* table gets a descriptor made for the volume, or none.
LEMMA MountOutcome ==
  ASSUME TypeOK, NEW c \in Controllers, NEW v \in Volumes,
         NEW m \in ntfsMount(NameOf[c], v)
  PROVE  /\ m.vd \in Addresses /\ m.dev \in [0..(DevOptMax - 1) -> Devices]
         /\ ntfsGetDevice(NameOf[c]) = {} => m.vd \in {v, Null}
<1> DEFINE D == ntfsGetDevice(NameOf[c])
<1>1. D \in SUBSET Nat /\ D \subseteq 0..(DevOptMax - 1)
  BY BindingAssumption DEF ntfsGetDevice, TypeOK
<1>2. CASE D # {}
  <2>1. FirstOf(D) \in D
    BY <1>1, <1>2, FirstIsOne
  <2>2. dev[FirstOf(D)] \in Devices
    BY <1>1, <2>1 DEF TypeOK
  <2>3. m = [vd |-> dev[FirstOf(D)].vd, dev |-> dev]
    BY <1>2 DEF ntfsMount
  <2> QED BY <1>2, <2>2, <2>3, Zenon DEF TypeOK, Devices
<1>3. CASE D = {}
  <2>1. m = [vd |-> Null, dev |-> dev] \/ m = [vd |-> v, dev |-> AddDevice(dev, NameOf[c], v)]
    BY <1>3, Zenon DEF ntfsMount
  <2>2. [name |-> NameOf[c], vd |-> v] \in Devices
    BY Zenon DEF Devices, Addresses
  <2>3. AddDevice(dev, NameOf[c], v) \in [0..(DevOptMax - 1) -> Devices]
    BY <2>2, Zenon DEF AddDevice, TypeOK
  <2> QED BY <1>3, <2>1, <2>3 DEF TypeOK, Addresses
<1> QED BY <1>2, <1>3

\* In an orderly behaviour Start finds no mount of that name.
LEMMA StartMounts ==
  ASSUME NEW c \in Controllers, MayStart(c), Orderly
  PROVE  ntfsGetDevice(NameOf[c]) = {}
  BY Zenon DEF MayStart, Orderly, Never, May, NamesDiffer

\* Allocating the next NTFS_VOLUME keeps the order.
LEMMA AllocateInOrder ==
  ASSUME TypeOK, InOrder, NextVolume \in Volumes,
         \A v \in Volumes : volume'[v].used = (volume[v].used \/ v = NextVolume)
  PROVE  InOrder'
<1>1. Used' = Used \cup {NextVolume}
  BY Zenon DEF Used, Volumes
<1> QED BY <1>1, NextIsFresh DEF InOrder

----------------------------------------------------------------------------
\* Start whose medium holds NTFS: mount, install, and the errors of both.
LEMMA MountKeeps ==
  ASSUME IInv, NEW c \in Controllers, MayStart(c), Mount(c, NextVolume), ops' = ops
  PROVE  IInv'
<1> DEFINE v == NextVolume
<1>1. v \in Volumes /\ v # Null /\ ~volume[v].used
  BY NextIsFresh DEF IInv, MayStart, Volumes, Null
<1> HIDE DEF v
<1>2. PICK m \in ntfsMount(NameOf[c], v) :
        /\ dev' = m.dev
        /\ vd' = IF m.vd = v THEN [vd EXCEPT ![v] = [interface |-> v, umounts |-> 0]] ELSE vd
        /\ volume' = [volume EXCEPT ![v] = [used |-> TRUE, vd |-> m.vd, root |-> FALSE]]
        /\ \/ sfs' = sfs /\ diskio' = diskio \cup {c}
           \/ m.vd # Null /\ sfs' = [sfs EXCEPT ![c] = v] /\ diskio' = diskio \cup {c}
           \/ sfs' = sfs /\ diskio' = IF sfs[c] = Null THEN diskio \ {c} ELSE diskio
  BY Zenon DEF Mount, StartFailed, v
<1>3. m.vd \in Addresses /\ m.dev \in [0..(DevOptMax - 1) -> Devices]
  BY <1>1, MountOutcome DEF IInv
<1>4. Orderly => m.vd \in {v, Null}
  BY <1>1, MountOutcome, StartMounts DEF IInv
<1>5. TypeOK'
  <2>1. vd' \in [Volumes -> [interface : Addresses, umounts : 0..2]]
    BY <1>1, <1>2 DEF IInv, TypeOK, Addresses
  <2>2. volume' \in [Volumes -> [used : BOOLEAN, vd : Addresses, root : BOOLEAN]]
    BY <1>1, <1>2, <1>3 DEF IInv, TypeOK
  <2>3. sfs' \in [Controllers -> Addresses] /\ diskio' \in SUBSET Controllers
    BY <1>1, <1>2 DEF IInv, TypeOK, Addresses
  <2> QED BY <1>2, <1>3, <2>1, <2>2, <2>3, Zenon DEF TypeOK, Devices, Addresses, Volumes
<1>6. InOrder'
  <2>1. \A x \in Volumes : volume'[x].used = (volume[x].used \/ x = NextVolume)
    BY <1>1, <1>2, Zenon DEF IInv, TypeOK, v
  <2> QED BY <1>1, <2>1, AllocateInOrder DEF IInv, v
<1>7. \A d \in Controllers : sfs[d] # Null => sfs[d] \in Volumes /\ sfs[d] # v
  BY <1>1 DEF IInv, TypeOK, SfsIsOwn, Addresses
<1>8. SfsIsOwn'
  <2>1. \A d \in Controllers : sfs'[d] = sfs[d] \/ (d = c /\ sfs'[d] = v)
    BY <1>2 DEF IInv, TypeOK
  <2>2. volume'[v].used /\ \A x \in Volumes : volume[x].used => volume'[x].used
    BY <1>1, <1>2 DEF IInv, TypeOK
  <2>3. \A d \in Controllers : sfs'[d] # Null => volume'[sfs'[d]].used
    BY <1>7, <2>1, <2>2 DEF IInv, SfsIsOwn
  <2>4. \A d, e \in Controllers : sfs'[d] # Null /\ sfs'[d] = sfs'[e] => d = e
    BY <1>1, <1>7, <2>1 DEF IInv, SfsIsOwn
  <2> QED BY <2>3, <2>4 DEF SfsIsOwn
<1>9. InstalledIsOpen'
  BY <1>2 DEF IInv, TypeOK, InstalledIsOpen
<1>10. MountsAreOwn'
  <2>1. SUFFICES ASSUME Orderly, NEW d \in Controllers, sfs'[d] # Null
                 PROVE  HasOwnMount(d)'
    BY Zenon DEF MountsAreOwn, Orderly, Never
  <2>2. CASE sfs'[d] = sfs[d]
    BY <1>2, <1>7, <2>1, <2>2 DEF IInv, TypeOK, MountsAreOwn, HasOwnMount
  <2>3. CASE sfs'[d] # sfs[d]
    BY <1>1, <1>2, <1>4, <2>1, <2>3 DEF IInv, TypeOK, HasOwnMount
  <2> QED BY <2>2, <2>3
<1> QED BY <1>5, <1>6, <1>8, <1>9, <1>10 DEF IInv

\* Steps that leave protocols and mounts alone, and may allocate an NTFS_VOLUME:
\* a Start that reads, one that refuses the medium, one that returns.
LEMMA SameMountsKeep ==
  ASSUME IInv, ops' = ops, sfs' = sfs, vd' = vd, dev' = dev,
         diskio' \in SUBSET Controllers, InstalledIsOpen',
         volume' = volume \/ /\ NextVolume \in Volumes
                             /\ volume' = [volume EXCEPT ![NextVolume].used = TRUE]
  PROVE  IInv'
<1>1. volume' \in [Volumes -> [used : BOOLEAN, vd : Addresses, root : BOOLEAN]]
  BY Zenon DEF IInv, TypeOK
<1>2. TypeOK'
  BY <1>1, Zenon DEF IInv, TypeOK, Devices, Addresses, Volumes
<1>3. InOrder'
  <2>1. CASE volume' = volume
    BY <2>1 DEF IInv, InOrder, Used, Volumes
  <2>2. CASE NextVolume \in Volumes /\ volume' = [volume EXCEPT ![NextVolume].used = TRUE]
    <3>1. \A x \in Volumes : volume'[x].used = (volume[x].used \/ x = NextVolume)
      BY <2>2, Zenon DEF IInv, TypeOK
    <3> QED BY <2>2, <3>1, AllocateInOrder, Zenon DEF IInv
  <2> QED BY <2>1, <2>2
<1>4. \A x \in Volumes : volume'[x].vd = volume[x].vd /\ (volume[x].used => volume'[x].used)
  BY DEF IInv, TypeOK
<1>5. \A c \in Controllers : sfs[c] # Null => sfs[c] \in Volumes
  BY DEF IInv, TypeOK, Addresses
<1>6. SfsIsOwn'
  BY <1>4, <1>5 DEF IInv, SfsIsOwn
<1>7. MountsAreOwn'
  BY <1>4, <1>5, Zenon DEF IInv, MountsAreOwn, HasOwnMount, Orderly, Never
<1> QED BY <1>2, <1>3, <1>6, <1>7 DEF IInv

\* NtfsDriverBindingStart as a whole.
LEMMA StartKeeps ==
  ASSUME IInv, NEW c \in Controllers, NtfsDriverBindingStart(c), ops' = ops
  PROVE  IInv'
<1>1. CASE media[c] = "ntfs"
  BY <1>1, MountKeeps DEF NtfsDriverBindingStart
<1>2. CASE media[c] # "ntfs"
  <2>1. Refuse(c, NextVolume) /\ NextVolume \in Volumes
    BY <1>2 DEF NtfsDriverBindingStart, MayStart
  <2>2. InstalledIsOpen' /\ diskio' \in SUBSET Controllers
    BY <2>1 DEF Refuse, StartFailed, IInv, TypeOK, InstalledIsOpen
  <2> QED BY <2>1, <2>2, SameMountsKeep DEF Refuse
<1> QED BY <1>1, <1>2

\* Start up to the read in which the medium changes, and its end.
LEMMA NestingKeeps ==
  ASSUME IInv, ops' = ops, StartReturns \/ \E c \in Controllers : StartReads(c)
  PROVE  IInv'
<1>1. CASE StartReturns
  <2>1. InstalledIsOpen' /\ diskio' \in SUBSET Controllers
    BY <1>1 DEF StartReturns, StartFailed, IInv, TypeOK, InstalledIsOpen
  <2> QED BY <1>1, <2>1, SameMountsKeep DEF StartReturns
<1>2. CASE \E c \in Controllers : StartReads(c)
  <2>1. PICK c \in Controllers : StartReads(c)
    BY <1>2
  <2>2. InstalledIsOpen' /\ diskio' \in SUBSET Controllers
    BY <2>1 DEF StartReads, IInv, TypeOK, InstalledIsOpen
  <2> QED BY <2>1, <2>2, SameMountsKeep DEF StartReads, MayStart
<1> QED BY <1>1, <1>2

\* NtfsOpenVolume and calls that change nothing the invariant is about.
LEMMA OpenKeeps ==
  ASSUME IInv, NEW c \in Controllers, NtfsOpenVolume(c), ops' = ops
  PROVE  IInv'
<1>1. sfs[c] \in Volumes
  BY DEF NtfsOpenVolume, IInv, TypeOK, Addresses
<1>2. volume' \in [Volumes -> [used : BOOLEAN, vd : Addresses, root : BOOLEAN]]
  BY <1>1, Zenon DEF NtfsOpenVolume, IInv, TypeOK
<1>3. \A x \in Volumes : volume'[x].vd = volume[x].vd /\ volume'[x].used = volume[x].used
  BY <1>1 DEF NtfsOpenVolume, IInv, TypeOK
<1>4. TypeOK'
  BY <1>2, Zenon DEF NtfsOpenVolume, IInv, TypeOK, Devices, Addresses, Volumes
<1>5. Used' = Used
  BY <1>3 DEF Used, Volumes
<1>6. \A d \in Controllers : sfs[d] # Null => sfs[d] \in Volumes
  BY DEF IInv, TypeOK, Addresses
<1>7. SfsIsOwn' /\ MountsAreOwn' /\ InstalledIsOpen'
  BY <1>3, <1>6, Zenon
     DEF NtfsOpenVolume, IInv, SfsIsOwn, MountsAreOwn, HasOwnMount, Orderly, Never, InstalledIsOpen
<1> QED BY <1>4, <1>5, <1>7 DEF IInv, InOrder

\* Stop unmounts the descriptor of its own volume only.
LEMMA StopKeeps ==
  ASSUME IInv, NEW c \in Controllers, NtfsDriverBindingStop(c), ops' = ops
  PROVE  IInv'
<1>1. CASE sfs[c] = Null
  <2>1. sfs' = sfs /\ volume' = volume /\ vd' = vd /\ dev' = dev /\ diskio' = diskio \ {c}
    BY <1>1, Zenon DEF NtfsDriverBindingStop
  <2>2. InstalledIsOpen' /\ diskio' \in SUBSET Controllers
    BY <1>1, <2>1 DEF IInv, TypeOK, InstalledIsOpen
  <2> QED BY <2>1, <2>2, SameMountsKeep
<1>2. CASE sfs[c] # Null
  <2> DEFINE v == sfs[c]
  <2>1. v \in Volumes
    BY <1>2 DEF IInv, TypeOK, Addresses
  <2>2. PICK n \in {1, 2} :
          /\ vd' = ntfs_umount(volume[v].vd, n) /\ dev' = dev
          /\ \/ May("uninstall fails") /\ sfs' = sfs /\ volume' = volume /\ diskio' = diskio
             \/ /\ sfs' = [sfs EXCEPT ![c] = Null] /\ diskio' = diskio \ {c}
                /\ volume' = [volume EXCEPT ![v].root = FALSE]
    BY <1>2, Zenon DEF NtfsDriverBindingStop, NtfsAbandonVolume
  <2>3. vd' \in [Volumes -> [interface : Addresses, umounts : 0..2]]
    <3> DEFINE d == volume[v].vd
               u == IF vd[d].umounts + n > 2 THEN 2 ELSE vd[d].umounts + n
    <3>1. vd' = [vd EXCEPT ![d].umounts = u]
      BY <2>2, Zenon DEF ntfs_umount
    <3>2. d \in Volumes => vd[d].umounts \in 0..2
      BY DEF IInv, TypeOK
    <3>3. d \in Volumes => u \in 0..2
      BY <3>2
    <3> HIDE DEF d, u
    <3> QED BY <3>1, <3>3, Zenon DEF IInv, TypeOK
  <2>4. volume' = volume \/ volume' = [volume EXCEPT ![v].root = FALSE]
    BY <2>2, Zenon
  <2> HIDE DEF v
  <2>11. volume' \in [Volumes -> [used : BOOLEAN, vd : Addresses, root : BOOLEAN]]
    BY <2>1, <2>4, Zenon DEF IInv, TypeOK
  <2>5. sfs' \in [Controllers -> Addresses] /\ diskio' \in SUBSET Controllers
    BY <2>2, Zenon DEF IInv, TypeOK, Addresses
  <2>6. TypeOK'
    BY <2>2, <2>3, <2>5, <2>11, Zenon DEF IInv, TypeOK, Devices, Addresses, Volumes
  <2>7. \A x \in Volumes : volume'[x].vd = volume[x].vd /\ volume'[x].used = volume[x].used
    BY <2>1, <2>4 DEF IInv, TypeOK
  <2>8. Used' = Used
    BY <2>7 DEF Used, Volumes
  <2>9. \A d \in Controllers : sfs'[d] # Null => sfs'[d] = sfs[d] /\ sfs[d] \in Volumes
    BY <2>2, Zenon DEF IInv, TypeOK, Addresses
  <2>10. SfsIsOwn' /\ InstalledIsOpen'
    <3>1. SfsIsOwn'
      BY <2>7, <2>9 DEF IInv, SfsIsOwn
    <3>2. InstalledIsOpen'
      BY <2>2, Zenon DEF IInv, TypeOK, InstalledIsOpen
    <3> QED BY <3>1, <3>2
  <2>12. MountsAreOwn'
    <3>1. SUFFICES ASSUME Orderly, NEW d \in Controllers, sfs'[d] # Null
                   PROVE  HasOwnMount(d)'
      BY Zenon DEF MountsAreOwn, Orderly, Never
    <3>2. sfs' = [sfs EXCEPT ![c] = Null]
      BY <2>2, <3>1, Zenon DEF Orderly, Never, May
    <3>3. sfs'[d] = sfs[d] /\ sfs[d] \in Volumes /\ sfs[d] # v
      BY <1>2, <2>9, <3>1, <3>2 DEF IInv, TypeOK, SfsIsOwn, v
    <3>4. volume[v].vd = v
      BY <1>2, <3>1 DEF IInv, MountsAreOwn, HasOwnMount, v
    <3>5. vd'[sfs[d]] = vd[sfs[d]]
      BY <2>2, <3>3, <3>4, Zenon DEF ntfs_umount, IInv, TypeOK
    <3>6. HasOwnMount(d)
      BY <3>1, <3>3 DEF IInv, MountsAreOwn
    <3> QED BY <2>7, <3>3, <3>5, <3>6 DEF HasOwnMount
  <2> QED BY <2>6, <2>8, <2>10, <2>12 DEF IInv, InOrder
<1> QED BY <1>1, <1>2

\* A step that changes none of the variables the invariant is about.
LEMMA StutterKeeps ==
  ASSUME IInv, UNCHANGED <<diskio, sfs, volume, vd, dev, ops>>
  PROVE  IInv'
  BY Zenon DEF IInv, TypeOK, InOrder, Used, SfsIsOwn, InstalledIsOpen, MountsAreOwn, HasOwnMount,
         Orderly, Never, Devices, Addresses, Volumes

\* Every step of the driver and of the firmware keeps the invariant.
LEMMA StepKeeps == IInv /\ [Next]_vars => IInv'
<1> SUFFICES ASSUME IInv, [Next]_vars PROVE IInv'
  OBVIOUS
<1>1. CASE UNCHANGED vars
  BY <1>1, StutterKeeps DEF vars
<1>2. CASE Next
  <2>1. ops' = ops
    BY <1>2 DEF Next
  <2>2. ASSUME NEW c \in Controllers, NtfsDriverBindingStart(c) PROVE IInv'
    BY <2>1, <2>2, StartKeeps
  <2>3. ASSUME NEW c \in Controllers,
               NtfsDriverBindingStart_Again(c) \/ OperationReads(c) PROVE IInv'
    BY <2>1, <2>3, StutterKeeps DEF NtfsDriverBindingStart_Again, OperationReads
  <2>4. ASSUME NEW c \in Controllers, NtfsDriverBindingStop(c) PROVE IInv'
    BY <2>1, <2>4, StopKeeps
  <2>5. ASSUME NEW c \in Controllers, NtfsOpenVolume(c) PROVE IInv'
    BY <2>1, <2>5, OpenKeeps
  <2>6. CASE StartReturns \/ \E c \in Controllers : StartReads(c)
    BY <2>1, <2>6, NestingKeeps
  <2>7. CASE OperationReturns
    BY <2>1, <2>7, StutterKeeps DEF OperationReturns
  <2> QED BY <1>2, <2>2, <2>3, <2>4, <2>5, <2>6, <2>7 DEF Next, Call
<1> QED BY <1>1, <1>2

\* No controller is started before the first one.
LEMMA InitHolds == Init => IInv
<1> SUFFICES ASSUME Init PROVE IInv
  OBVIOUS
<1>1. TypeOK
  <2>1. Null \in Addresses /\ Empty \in Devices
    BY DEF Addresses, Devices, Empty
  <2> QED BY <2>1 DEF Init, TypeOK
<1>2. Used = 1..0 /\ 0 \in 0..MaxVolumes
  BY BindingAssumption DEF Init, Used
<1>3. SfsIsOwn /\ InstalledIsOpen /\ MountsAreOwn
  BY DEF Init, SfsIsOwn, InstalledIsOpen, MountsAreOwn
<1> QED BY <1>1, <1>2, <1>3 DEF IInv, InOrder

\* A controller on which the driver installed the file system protocol has its
\* DiskIo open; and its volume reads through a mount of its own that was not
\* unmounted, unless a controller is started again, uninstalling fails or two
\* mounts have the same name (NtfsDriverBindingStart, NtfsDriverBindingStop,
\* NtfsAllocateVolume, NtfsAbandonVolume, ntfsMount).
THEOREM Backed == Spec => []InstalledIsBacked
<1>1. IInv => InstalledIsBacked
  <2> SUFFICES ASSUME IInv, Orderly, NEW c \in Controllers, sfs[c] # Null
               PROVE  MountIsOwn(c)
    BY Zenon DEF IInv, InstalledIsBacked, InstalledIsMounted, Orderly
  <2> QED BY DEF IInv, MountsAreOwn, HasOwnMount, MountIsOwn
<1> QED BY <1>1, InitHolds, StepKeeps, PTL DEF Spec

----------------------------------------------------------------------------
\* The journal

\* A restart page that Windows or chkdsk wrote.
Written(p) ==
  /\ p.magic \in {"RSTR", "CHKD"} /\ p.lsn \in Nat /\ p.lsn > 0 /\ p.ver \in {1, 2}
  /\ p.blocks = PageBlocks /\ p.usa = IF p.magic = "CHKD" THEN 0 ELSE 1 + PageBlocks
  /\ p.ra = 8 * ((39 + 2 * PageBlocks) \div 8) /\ p.len \in {224, 512} /\ p.log_clients = 1
  /\ p.used \in {0, None} /\ p.free = IF p.used = None THEN 0 ELSE None
  /\ p.clean \in BOOLEAN /\ p.torn \in BOOLEAN /\ (p.torn => p.magic = "RSTR")

\* The pages of a journal: the first one is written first, and no two are equally old.
LogSound(log) ==
  /\ log = [page |-> log.page, tail |-> log.tail] /\ DOMAIN log.page = 1..2
  /\ \A i \in 1..2 : log.page[i] = Blank \/ Written(log.page[i])
  /\ log.page[1] = Blank => log.page[2] = Blank
  /\ log.page[1] # Blank => log.tail = "RCRD" /\ log.page[1].lsn # log.page[2].lsn

\* The newest page, and the other one.
NewestOf(log) == IF log.page[1].lsn > log.page[2].lsn THEN log.page[1] ELSE log.page[2]
OtherOf(log) == IF log.page[1].lsn > log.page[2].lsn THEN log.page[2] ELSE log.page[1]

\* A page that a mount must not take for the sign of a clean shutdown.
Bad(p) == Written(p) /\ (p.ver = 2 \/ p.torn \/ (p.used = 0 /\ ~p.clean))
Owing(log) == Bad(NewestOf(log)) /\ (NewestOf(log).torn => Bad(OtherOf(log)))

\* A page of which all blocks were written passes the checks of
\* ntfs_check_and_load_restart_page.
LEMMA PageLoads ==
  ASSUME MountAssumption, NEW p, Written(p), ~p.torn, NEW b \in {0, PageBlocks}
  PROVE  Loads(p, b)
<1> USE DEF Written, None
<1>1. PageBlocks \in {2, 4, 8, 16, 32}
  BY DEF MountAssumption
<1>2. p.ra \in {40, 48, 64, 96} /\ p.ra >= 30 + 2 * (1 + PageBlocks) /\ p.ra <= 96
  <2>1. CASE PageBlocks = 2
    BY <2>1
  <2>2. CASE PageBlocks = 4
    BY <2>2
  <2>3. CASE PageBlocks = 8
    BY <2>3
  <2>4. CASE PageBlocks = 16
    BY <2>4
  <2>5. CASE PageBlocks = 32
    BY <2>5
  <2> QED BY <1>1, <2>1, <2>2, <2>3, <2>4, <2>5
<1>3. ntfs_check_restart_page_header(p, b)
  BY <1>1, <1>2 DEF ntfs_check_restart_page_header
<1>4. ntfs_check_restart_area(p)
  BY <1>1, <1>2 DEF ntfs_check_restart_area
<1>5. ntfs_check_log_client_array(p)
  BY DEF ntfs_check_log_client_array
<1> QED BY <1>3, <1>4, <1>5 DEF Loads

\* A bad page that is current is refused.
LEMMA BadIsRefused ==
  ASSUME MountAssumption, NEW p, Bad(p), p.ver # 2
  PROVE  ~ntfs_is_logfile_clean(p)
<1>1. PageBlocks \in Nat
  BY DEF MountAssumption
<1> QED BY <1>1 DEF Bad, Written, ntfs_is_logfile_clean, Signature, None

\* ntfs_volume_check_logfile refuses a journal whose newest page is bad, and if that
\* one is torn, so that it may not be found, the other one as well.
LEMMA OwingIsRefused ==
  ASSUME MountAssumption, NEW log, LogSound(log), Owing(log)
  PROVE  ntfs_volume_check_logfile(log) # "ok"
<1> DEFINE F == RestartPages(log)
           n == IF log.page[1].lsn > log.page[2].lsn THEN 0 ELSE PageBlocks
           o == IF log.page[1].lsn > log.page[2].lsn THEN PageBlocks ELSE 0
<1>1. PageBlocks \in {2, 4, 8, 16, 32}
  BY DEF MountAssumption
<1>2. Written(log.page[1]) /\ log.tail = "RCRD" /\ log.page[1].lsn # log.page[2].lsn
  BY DEF LogSound, Owing, Bad, NewestOf, Written, Blank
<1>3. log.page[1].lsn \in Nat /\ log.page[2].lsn \in Nat
  BY <1>2 DEF LogSound, Written, Blank
<1>4. /\ BlockAt(log, 0) = log.page[1] /\ BlockAt(log, PageBlocks) = log.page[2]
      /\ BlockAt(log, n) = NewestOf(log) /\ BlockAt(log, o) = OtherOf(log)
  BY <1>1 DEF BlockAt, NewestOf, OtherOf
<1>5. ASSUME NEW b \in Blocks, b # 0, b # PageBlocks
      PROVE  BlockAt(log, b).magic = IF b > PageBlocks THEN "RCRD" ELSE "data"
  BY <1>1, <1>2, <1>5 DEF BlockAt, Written
<1>6. F \subseteq {n, o}
  BY <1>5 DEF RestartPages, IsRestart
<1>7. ASSUME NEW b \in Blocks, b < PageBlocks
      PROVE  ~Ends(log, b)
  <2>1. CASE b = 0
    BY <1>2, <1>4, <2>1 DEF Ends, IsEmpty, Written
  <2>2. CASE b # 0
    BY <1>1, <1>5, <1>7, <2>2 DEF Ends, IsEmpty, IsRestart, Blocks
  <2> QED BY <2>1, <2>2
<1>8. \A b \in {0, PageBlocks} : IsRestart(log, b) => b \in F
  BY <1>1, <1>7 DEF RestartPages, Blocks
<1>9. ~IsEmpty(log, 0) /\ 0 \in Blocks
  BY <1>2, <1>4 DEF IsEmpty, Written, Blocks
<1>10. CASE n \in F
  <2>1. Current(log, F) = NewestOf(log)
    <3> DEFINE lsn(b) == BlockAt(log, b).lsn
    <3>1. lsn(o) < lsn(n) /\ lsn(n) \in Nat /\ lsn(o) \in Nat
      BY <1>2, <1>3, <1>4 DEF NewestOf, OtherOf
    <3>2. n \in Nat
      BY <1>1
    <3>3. \A c \in F : lsn(c) < lsn(n) \/ (lsn(c) = lsn(n) /\ n <= c)
      BY <1>6, <3>1, <3>2
    <3>4. \A b \in F : (\A c \in F : lsn(c) < lsn(b) \/ (lsn(c) = lsn(b) /\ b <= c)) => b = n
      BY <1>6, <1>10, <3>1
    <3>5. (CHOOSE b \in F : \A c \in F : lsn(c) < lsn(b) \/ (lsn(c) = lsn(b) /\ b <= c)) = n
      BY <1>10, <3>3, <3>4
    <3> QED BY <1>4, <3>5, Zenon DEF Current
  <2>2. Bad(NewestOf(log))
    BY DEF Owing
  <2> QED BY <1>9, <1>10, <2>1, <2>2, BadIsRefused DEF ntfs_volume_check_logfile
<1>11. CASE n \notin F
  <2>1. NewestOf(log).torn
    <3>1. Written(NewestOf(log))
      BY DEF Owing, Bad
    <3>2. SUFFICES ASSUME ~NewestOf(log).torn PROVE IsRestart(log, n)
      BY <1>8, <1>11
    <3> QED BY <1>4, <3>1, <3>2, PageLoads DEF IsRestart, Written
  <2>2. Bad(OtherOf(log))
    BY <2>1 DEF Owing
  <2>3. F # {} => Current(log, F) = OtherOf(log)
    <3> DEFINE lsn(b) == BlockAt(log, b).lsn
    <3>1. o \in Nat
      BY <1>1
    <3>2. ASSUME F # {} PROVE F = {o}
      BY <1>6, <1>11, <3>2
    <3>3. ASSUME F # {}
          PROVE  (CHOOSE b \in F : \A c \in F : lsn(c) < lsn(b) \/ (lsn(c) = lsn(b) /\ b <= c)) = o
      BY <3>1, <3>2, <3>3
    <3> QED BY <1>4, <3>3, Zenon DEF Current
  <2> QED BY <1>9, <2>2, <2>3, BadIsRefused DEF ntfs_volume_check_logfile
<1> QED BY <1>10, <1>11
----------------------------------------------------------------------------
\* The inductive invariant

\* The loop that halves the MFT zone ends; how many records of the mirror may be read
ZoneEnds(b) ==
  ~HalvesForever(Parsed(b).mft_lcn, Parsed(b).nr_clusters \div 8, Parsed(b).nr_clusters)
MirrorSizes(b) == {l \in 0..b.mirr_records : l <= Parsed(b).mftmirr_size}

\* The parts of the state; a mounted volume has the sizes and zones of a boot
\* sector that the checks accepted, and Windows does not run meanwhile.
Shape ==
  /\ boot \in {Usual} \cup Boots
  /\ disk = [log |-> disk.log, hiber |-> disk.hiber, txf |-> disk.txf, mft |-> disk.mft,
             mirr |-> disk.mirr]
  /\ disk.mft \in [Records -> Nat] /\ disk.mirr \in [Records -> Nat]
  /\ win = [on |-> win.on, owed |-> win.owed, lost |-> win.lost]
  /\ win.on \in BOOLEAN /\ win.lost \in BOOLEAN /\ vol.mounted \in BOOLEAN
  /\ vol.mounted => /\ vol.ro \in BOOLEAN
                    /\ vol.size = Parsed(boot) /\ vol.zone = Zones(Parsed(boot))
                    /\ ntfs_boot_sector_is_ntfs(boot) /\ ntfs_boot_sector_parse(boot)
                    /\ ZoneEnds(boot) /\ vol.mftmirr_size \in MirrorSizes(boot)
  /\ win.on => ~vol.mounted

\* What is open, and what the volume points to.
MemSound(m) ==
  /\ m = [ptr |-> m.ptr, open |-> m.open, twice |-> m.twice]
  /\ m.twice = FALSE /\ m.ptr \subseteq m.open
  /\ "device" \in m.open => "device" \in m.ptr
Tidy ==
  /\ MemSound(mem)
  /\ ~vol.mounted /\ mret # "hangs" => mem.ptr = {}
  /\ NoneOf({"fault"}) => mem.open = mem.ptr

\* A mount that does not return had an MFT directly behind the last cluster.
HangsAtEnd == mret = "hangs" => boot.mft_lcn = Parsed(boot).nr_clusters

\* While Windows runs its newest page says so.  What it owes to the disk when it does
\* not run shows in the hibernation file or the journal, and a volume that is
\* mounted read-write is owed nothing.
JournalSound ==
  /\ LogSound(disk.log)
  /\ win.on => LET p == NewestOf(disk.log) IN Written(p) /\ p.used = 0 /\ ~p.clean /\ ~p.torn
  /\ ~win.on /\ win.owed # "nothing" => disk.hiber \notin {"none", "zero"} \/ Owing(disk.log)
  /\ NoneOf({"recover", "ignore hiberfile"}) =>
       ~win.lost /\ (vol.mounted /\ ~vol.ro => win.owed = "nothing")

MountInv == Shape /\ Tidy /\ HangsAtEnd /\ MirrorIsCurrent /\ JournalSound
----------------------------------------------------------------------------
\* The zones

\* The zone, halved often enough, ends before the end of the volume.
LEMMA HalvedFits ==
  ASSUME NEW lcn \in Nat, NEW size \in Nat, NEW n \in Nat, ~HalvesForever(lcn, size, n)
  PROVE  Halved(lcn, size, n) \in Nat /\ lcn + Halved(lcn, size, n) < n
<1> DEFINE fits == {d \in PowersOfTwo : lcn + (size \div d) < n}
           d0 == CHOOSE d \in fits : \A e \in fits : d <= e
<1>1. PowersOfTwo \subseteq Nat \ {0}
  BY SMT DEF PowersOfTwo
<1>2. PICK big \in PowersOfTwo : lcn + (size \div big) < n
  <2>1. PICK d \in PowersOfTwo : ~(lcn + (size \div d) >= n)
    BY Zenon DEF HalvesForever
  <2>2. d \in Nat \ {0}
    BY <1>1
  <2>3. lcn + (size \div d) < n
    BY <2>1, <2>2, SMT
  <2> QED BY <2>3
<1>3. big \in fits /\ fits \in SUBSET Nat
  BY <1>1, <1>2, Zenon
<1>4. \E x \in fits : \A y \in fits : x <= y
  <2> HIDE DEF fits
  <2> QED BY <1>3, HasLeast
<1>5. d0 \in fits
  <2> HIDE DEF fits
  <2> QED BY <1>4
<1>6. Halved(lcn, size, n) = size \div d0
  BY DEF Halved
<1> HIDE DEF d0
<1>7. d0 \in Nat \ {0} /\ lcn + (size \div d0) < n
  BY <1>1, <1>5
<1>8. size \div d0 \in Nat
  BY <1>7
<1> QED BY <1>6, <1>7, <1>8

\* An eighth of the largest volume, halved thirty times, is nothing.
LEMMA LargestHalved ==
  ASSUME NEW size \in Nat, size < MaxZone
  PROVE  MaxZone \in PowersOfTwo /\ size \div MaxZone = 0
BY SMT DEF PowersOfTwo, MaxZone

\* The sizes that ntfs_boot_sector_is_ntfs accepts
LEMMA AcceptedSizes ==
  ASSUME NEW b, ntfs_boot_sector_is_ntfs(b)
  PROVE  b.sectors_per_cluster \in Nat \ {0} /\ ClusterSize(b) <= MaxCluster
<1>1. IsCluster(b)
  BY Zenon DEF ntfs_boot_sector_is_ntfs
<1>2. b.sectors_per_cluster \in {1, 2, 4, 8, 16, 32, 64, 128}
  BY <1>1, Zenon DEF IsCluster
<1>3. ClusterSize(b) <= MaxCluster
  BY <1>1, Zenon DEF IsCluster
<1>4. b.sectors_per_cluster \in Nat \ {0}
  BY <1>2, SMT
<1> QED BY <1>3, <1>4, Zenon

\* The clusters and the first cluster of the MFT of a boot sector that is accepted
LEMMA AcceptedClusters ==
  ASSUME NEW b, IsBoot(b), ntfs_boot_sector_is_ntfs(b), ntfs_boot_sector_parse(b)
  PROVE  LET p == Parsed(b)
         IN  /\ p.nr_clusters \in Nat /\ p.mft_lcn = b.mft_lcn /\ b.mft_lcn \in 0..p.nr_clusters
             /\ p.nr_clusters \div 8 \in Nat /\ p.nr_clusters \div 8 < MaxZone
<1> DEFINE p == Parsed(b)
<1>1. b.sectors_per_cluster \in Nat \ {0} /\ b.sectors \in Nat
  BY AcceptedSizes, SMT DEF IsBoot
<1>2. p.mft_lcn = b.mft_lcn /\ p.nr_clusters = b.sectors \div b.sectors_per_cluster
  BY Zenon DEF Parsed
<1>3. p.nr_clusters \in Nat
  <2>1. b.sectors \div b.sectors_per_cluster \in Nat
    BY <1>1, SMT
  <2> QED BY <1>2, <2>1, SMT
<1>4. b.mft_lcn \in 0..p.nr_clusters
  BY SMT DEF ntfs_boot_sector_parse
<1>5. p.nr_clusters \div 8 < MaxZone
  BY SMT DEF IsBoot
<1> HIDE DEF p
<1>6. p.nr_clusters \div 8 \in Nat
  BY <1>3, SMT
<1> QED BY <1>2, <1>3, <1>4, <1>5, <1>6, Zenon DEF p

\* The loop of ntfs_volume_startup has no end only if the MFT is directly behind the
\* last cluster.
LEMMA ForeverAtEnd ==
  ASSUME NEW b, IsBoot(b), ntfs_boot_sector_is_ntfs(b), ntfs_boot_sector_parse(b), ~ZoneEnds(b)
  PROVE  b.mft_lcn = Parsed(b).nr_clusters
<1> DEFINE p == Parsed(b)
<1>1. /\ p.nr_clusters \in Nat /\ p.mft_lcn = b.mft_lcn /\ b.mft_lcn \in 0..p.nr_clusters
      /\ p.nr_clusters \div 8 \in Nat /\ p.nr_clusters \div 8 < MaxZone
  BY AcceptedClusters, Zenon
<1>2. HalvesForever(p.mft_lcn, p.nr_clusters \div 8, p.nr_clusters)
  BY Zenon DEF ZoneEnds
<1> HIDE DEF p
<1>3. PICK size \in Nat : size = p.nr_clusters \div 8 /\ size < MaxZone
  BY <1>1, Zenon
<1>4. PICK big \in PowersOfTwo : size \div big = 0
  BY <1>3, LargestHalved, Zenon
<1>5. p.mft_lcn + (size \div big) >= p.nr_clusters
  BY <1>2, <1>3, <1>4, Zenon DEF HalvesForever
<1>6. p.mft_lcn = p.nr_clusters
  BY <1>1, <1>4, <1>5, SMT
<1> QED BY <1>1, <1>6, Zenon DEF p

\* The mirror has four records, none, or as many as fit a cluster.
LEMMA MirrorIsCounted ==
  ASSUME NEW b, IsBoot(b), ntfs_boot_sector_is_ntfs(b), ntfs_boot_sector_parse(b)
  PROVE  LET p == Parsed(b)
         IN  /\ p.mftmirr_size \in Nat /\ p.mft_record_size \in Nat \ {0}
             /\ p.mftmirr_size <= 4 \/ p.mftmirr_size * p.mft_record_size <= p.cluster_size \div Unit
<1> DEFINE p == Parsed(b)
           units == ClusterSize(b) \div Unit
<1>1. /\ p.cluster_size = ClusterSize(b)
      /\ \/ p.mftmirr_size = 4
         \/ p.mftmirr_size = (ClusterSize(b) \div Unit) \div p.mft_record_size
  BY Zenon DEF Parsed
<1>2. p.cluster_size \in PowersOfTwo /\ p.mft_record_size \in PowersOfTwo
  BY Zenon DEF ntfs_boot_sector_parse
<1> HIDE DEF p
<1>3. p.cluster_size \in Nat /\ p.mft_record_size \in Nat \ {0}
  BY <1>2, SMT DEF PowersOfTwo
<1>4. PICK u \in Nat : u = p.cluster_size \div Unit
  BY <1>3, SMT DEF Unit
<1>5. PICK q \in Nat \ {0} : q = p.mft_record_size
  BY <1>3
<1>6. u \div q \in Nat /\ (u \div q) * q <= u
  BY <1>4, <1>5, SMT
<1>7. p.mftmirr_size = 4 \/ p.mftmirr_size = u \div q
  BY <1>1, <1>4, <1>5, Zenon
<1>8. /\ p.mftmirr_size \in Nat
      /\ p.mftmirr_size <= 4 \/ p.mftmirr_size * q <= u
  BY <1>6, <1>7, SMT
<1> QED BY <1>3, <1>4, <1>5, <1>8, Zenon DEF p

\* The zones of a boot sector that the checks accept
LEMMA ZonesOfBoot ==
  ASSUME NEW b, IsBoot(b), ntfs_boot_sector_is_ntfs(b), ntfs_boot_sector_parse(b), ZoneEnds(b)
  PROVE  LET z == Zones(Parsed(b))
             p == Parsed(b)
         IN  /\ z.mft_zone_start <= p.mft_lcn /\ p.mft_lcn = z.mft_zone_pos
             /\ z.mft_zone_pos <= z.mft_zone_end /\ z.mft_zone_end < p.nr_clusters
             /\ z.data1_zone_pos \in z.mft_zone_end..(p.nr_clusters - 1) /\ z.data2_zone_pos = 0
<1> DEFINE p == Parsed(b)
           z == Zones(p)
           h == Halved(p.mft_lcn, p.nr_clusters \div 8, p.nr_clusters)
<1>1. /\ p.nr_clusters \in Nat /\ p.mft_lcn = b.mft_lcn /\ b.mft_lcn \in 0..p.nr_clusters
      /\ p.nr_clusters \div 8 \in Nat
  BY AcceptedClusters, Zenon
<1>2. ~HalvesForever(p.mft_lcn, p.nr_clusters \div 8, p.nr_clusters)
  BY Zenon DEF ZoneEnds
<1>3. /\ z.mft_zone_start \in {0, p.mft_lcn} /\ z.mft_zone_pos = p.mft_lcn
      /\ z.mft_zone_end = p.mft_lcn + h /\ z.data1_zone_pos = p.mft_lcn + h /\ z.data2_zone_pos = 0
  BY SMTT(20) DEF Zones
<1> HIDE DEF p, z
<1>4. p.mft_lcn \in Nat
  BY <1>1, SMT
<1>5. h \in Nat /\ p.mft_lcn + h < p.nr_clusters
  BY <1>1, <1>2, <1>4, HalvedFits, Zenon
<1> HIDE DEF h
<1>6. /\ z.mft_zone_start <= p.mft_lcn /\ p.mft_lcn = z.mft_zone_pos
      /\ z.mft_zone_pos <= z.mft_zone_end /\ z.mft_zone_end < p.nr_clusters
      /\ z.data1_zone_pos \in z.mft_zone_end..(p.nr_clusters - 1) /\ z.data2_zone_pos = 0
  BY <1>1, <1>3, <1>4, <1>5, SMT
<1> QED BY <1>6 DEF p, z
----------------------------------------------------------------------------
\* What a mount sets up and a release closes

\* Setting up and closing parts of the volume keeps what is open sound.
LEMMA AttachSound ==
  ASSUME NEW m, MemSound(m), NEW X
  PROVE  /\ MemSound(Attach(m, X))
         /\ Attach(m, X).ptr = m.ptr \cup X /\ Attach(m, X).open = m.open \cup X
<1>1. Attach(m, X) = [ptr |-> m.ptr \cup X, open |-> m.open \cup X, twice |-> m.twice]
  BY DEF Attach
<1> QED BY <1>1 DEF MemSound

\* Closing parts, and setting their pointers to NULL, does.
LEMMA DetachSound ==
  ASSUME NEW m, MemSound(m), NEW X
  PROVE  /\ MemSound(Detach(m, X))
         /\ Detach(m, X).ptr = m.ptr \ X /\ Detach(m, X).open = m.open \ X
<1>1. X \cap m.ptr \subseteq m.open
  BY DEF MemSound
<1>2. Detach(m, X) = [ptr |-> m.ptr \ X, open |-> m.open \ X, twice |-> FALSE]
  BY <1>1, Zenon DEF MemSound, Detach
<1> QED BY <1>2 DEF MemSound

\* After __ntfs_volume_release the volume points to nothing.
LEMMA ReleaseSound ==
  ASSUME NEW m, MemSound(m), NEW U, "device" \notin U
  PROVE  /\ MemSound(Release(m, U)) /\ Release(m, U).ptr = {}
         /\ Release(m, U).open = (m.open \ m.ptr) \cup (U \cap m.ptr)
<1> DEFINE r == Detach(m, m.ptr)
<1>1. MemSound(r) /\ r.ptr = {} /\ r.open = m.open \ m.ptr
  BY DetachSound
<1>2. Release(m, U) = [ptr |-> {}, open |-> (m.open \ m.ptr) \cup (U \cap m.ptr), twice |-> FALSE]
  <2> HIDE DEF r
  <2>1. Release(m, U) = [r EXCEPT !.open = @ \cup (U \cap m.ptr)]
    BY DEF Release, r
  <2> QED BY <1>1, <2>1, Zenon DEF MemSound
<1>3. "device" \notin m.open \ m.ptr
  BY DEF MemSound
<1> QED BY <1>2, <1>3 DEF MemSound

\* The error exits of ntfs_mft_load, ntfs_mftmirr_load and ntfs_device_mount.
LEMMA FailedSound ==
  ASSUME NEW m, MemSound(m), NEW x
  PROVE  /\ MemSound(Failed(m, x))
         /\ m.open = m.ptr /\ x \notin {"upcase", "attrdef"} => Failed(m, x).open = Failed(m, x).ptr
<1>1. CASE x = "mft_ni"
  <2>1. Failed(m, x) = Detach(Attach(m, {x}), {"mft_na", "mft_ni"})
    BY <1>1 DEF Failed
  <2>2. PICK a : a = Attach(m, {x})
    OBVIOUS
  <2>3. MemSound(a) /\ a.ptr = m.ptr \cup {x} /\ a.open = m.open \cup {x}
    BY <2>2, AttachSound, Zenon
  <2>4. PICK X : Failed(m, x) = Detach(a, X)
    BY <2>1, <2>2, Zenon
  <2>5. MemSound(Detach(a, X)) /\ Detach(a, X).ptr = a.ptr \ X /\ Detach(a, X).open = a.open \ X
    BY <2>3, DetachSound
  <2> QED BY <2>3, <2>4, <2>5
<1>2. CASE x \in {"mft_na", "mftbmp_na", "mftmirr_na"}
  <2>1. PICK X : Failed(m, x) = Detach(m, X)
    BY <1>2 DEF Failed
  <2>2. MemSound(Failed(m, x)) /\ Failed(m, x).ptr = m.ptr \ X /\ Failed(m, x).open = m.open \ X
    BY <2>1, DetachSound
  <2> QED BY <2>2, Zenon
<1>3. CASE x = "vol_ni"
  <2>1. Failed(m, x) = Attach(m, {x})
    BY <1>3 DEF Failed
  <2>2. MemSound(Failed(m, x)) /\ Failed(m, x).ptr = m.ptr \cup {x} /\ Failed(m, x).open = m.open \cup {x}
    BY <2>1, AttachSound
  <2> QED BY <2>2, Zenon
<1>4. CASE x \in {"upcase", "attrdef"}
  <2>1. Failed(m, x) = [ptr |-> m.ptr, open |-> m.open \cup {x}, twice |-> m.twice]
    BY <1>4 DEF Failed, MemSound
  <2> QED BY <1>4, <2>1 DEF MemSound
<1>5. CASE x \notin {"mft_ni", "mft_na", "mftbmp_na", "mftmirr_na", "vol_ni", "upcase", "attrdef"}
  BY <1>5 DEF Failed
<1> QED BY <1>1, <1>2, <1>3, <1>4, <1>5

\* The errors of a mount, none of which says that it has not returned.
Errors == {"EINVAL", "EIO", "EPERM", "EOPNOTSUPP"}

\* A step of ntfs_device_mount finds that all is well or an error.
LEMMA FoundError ==
  ASSUME NEW flags, NEW at, NEW l, NEW x
  PROVE  Found(flags, at, l, x) \in Errors \cup {"ok"}
<1>1. Hibernated(flags) \in Errors \cup {"ok"}
  BY DEF Hibernated, ntfs_volume_check_hiberfile, Errors
<1>2. ntfs_volume_check_logfile(disk.log) \in Errors \cup {"ok"}
  BY Zenon DEF ntfs_volume_check_logfile, Errors
<1>3. Unclean(flags, at) \in Errors \cup {"ok"}
  BY <1>2, Zenon DEF Unclean, Errors
<1>4. CASE x = "boot"
  BY <1>4 DEF Found, Errors
<1>5. CASE x = "mft_ni"
  BY <1>5 DEF Found, Errors
<1>6. CASE x = "compare"
  BY <1>6 DEF Found, Errors
<1>7. CASE x = "hiberfile"
  BY <1>1, <1>7 DEF Found
<1>8. CASE x = "logfile"
  BY <1>3, <1>8 DEF Found
<1>9. CASE x \notin {"boot", "mft_ni", "compare", "hiberfile", "logfile"}
  BY <1>9 DEF Found, Errors
<1> QED BY <1>4, <1>5, <1>6, <1>7, <1>8, <1>9

\* What ntfsMount reports is not that it has not returned.
LEMMA ErrorReturns ==
  ASSUME NEW err \in Errors \cup {"ok"}
  PROVE  ntfs_volume_error(err) # "hangs"
BY DEF ntfs_volume_error, Errors

\* A mount goes through all its steps, or it ends at the first one that fails or finds
\* something amiss.
LEMMA DeviceMount ==
  ASSUME NEW flags, NEW at, NEW l
  PROVE  LET r == ntfs_device_mount(flags, at, l)
             stops == Stops(flags, at, l)
         IN  \/ stops = {} /\ r.err = "ok" /\ r.step = "none" /\ r.mem = Attach(mem, Attached)
             \/ \E k \in stops :
                  /\ \A i \in stops : k <= i
                  /\ r.err \in Errors /\ r.step = Steps[k]
                  /\ r.mem = Release(Failed(Attach(mem, Before(k)), Steps[k]), {})
<1> DEFINE r == ntfs_device_mount(flags, at, l)
           stops == Stops(flags, at, l)
           k == CHOOSE j \in stops : \A i \in stops : j <= i
           x == Steps[k]
           m == Attach(mem, Before(k))
<1>1. CASE stops = {}
  BY <1>1 DEF ntfs_device_mount
<1>2. CASE stops # {}
  <2>1. k \in stops /\ \A i \in stops : k <= i
    <3>1. stops \subseteq Nat
      BY DEF Stops
    <3>2. \E j \in stops : \A i \in stops : ~(<<i, j>> \in OpToRel(<, Nat))
      BY <1>2, <3>1, NatLessThanWellFounded, WFMin, Zenon
    <3>3. \E j \in stops : \A i \in stops : j <= i
      <4>1. \A i, j \in Nat : i < j => <<i, j>> \in OpToRel(<, Nat)
        BY Zenon DEF OpToRel
      <4>2. \E j \in stops : \A i \in stops : ~(i < j)
        BY <3>1, <3>2, <4>1, Zenon
      <4> HIDE DEF stops
      <4> QED BY <3>1, <4>2
    <3> HIDE DEF stops
    <3> QED BY <3>3
  <2>2. r = [err |-> IF x # at THEN Found(flags, at, l, x) ELSE IF x = "boot" THEN "EINVAL" ELSE "EIO",
             step |-> x, mem |-> Release(Failed(m, x), {})]
    BY <1>2 DEF ntfs_device_mount
  <2>3. x # at => Found(flags, at, l, x) \in Errors
    BY <2>1, FoundError, Zenon DEF Stops
  <2> HIDE DEF r, k, x, m, stops
  <2>4. /\ r.err \in Errors /\ r.step = x
        /\ r.mem = Release(Failed(m, x), {})
    BY <2>2, <2>3 DEF Errors
  <2> QED BY <2>1, <2>4 DEF r, x, m, stops
<1> QED BY <1>1, <1>2
----------------------------------------------------------------------------
\* ntfsMount

\* Where in the mount the checks are.
LEMMA StepNumbers ==
  /\ Steps[1] = "device" /\ Steps[2] = "boot" /\ Steps[8] = "compare"
  /\ Steps[14] = "hiberfile" /\ Steps[15] = "logfile"
  /\ {1, 2, 8, 14, 15} \subseteq 1..16
<1>1. Steps[1] = "device" /\ Steps[2] = "boot" /\ Steps[8] = "compare"
  BY DEF Steps
<1>2. Steps[14] = "hiberfile" /\ Steps[15] = "logfile"
  BY DEF Steps
<1>3. {1, 2, 8, 14, 15} \subseteq 1..16
  OBVIOUS
<1> QED BY <1>1, <1>2, <1>3, Zenon

\* A mount that comes to fix_txf_data, without the flags that override the checks, has
\* found no trace of a Windows that will go on.
LEMMA ChecksPassed ==
  ASSUME NEW flags, NEW at, NEW l, "ro" \notin flags, flags \cap {"recover", "ignore hiberfile"} = {},
         14 \notin Stops(flags, at, l), 15 \notin Stops(flags, at, l)
  PROVE  disk.hiber \in {"none", "zero"} /\ ntfs_volume_check_logfile(disk.log) = "ok"
<1>1. Steps[14] = "hiberfile" /\ Steps[15] = "logfile" /\ 14 \in 1..16 /\ 15 \in 1..16
  BY StepNumbers, Zenon
<1>2. Taken(flags, "hiberfile") /\ Taken(flags, "logfile")
  BY Zenon DEF Taken
<1>3. Found(flags, at, l, "hiberfile") = "ok" /\ Found(flags, at, l, "logfile") = "ok"
  BY <1>1, <1>2, Zenon DEF Stops
<1>4. Found(flags, at, l, "hiberfile") = Hibernated(flags)
      /\ Found(flags, at, l, "logfile") = Unclean(flags, at)
  BY Zenon DEF Found
<1>5. disk.hiber \in {"none", "zero"}
  BY <1>3, <1>4, Zenon DEF Hibernated, ntfs_volume_check_hiberfile
<1> QED BY <1>3, <1>4, <1>5, Zenon DEF Unclean

\* The steps of a mount that is accepted: the boot sector and the mirror are right.
LEMMA MountPassed ==
  ASSUME NEW flags, NEW at, NEW l, Stops(flags, at, l) = {}
  PROVE  /\ ntfs_boot_sector_is_ntfs(boot) /\ ntfs_boot_sector_parse(boot) /\ MirrorMatches(l)
         /\ at \notin {"device", "boot"}
<1>1. /\ Steps[1] = "device" /\ Steps[2] = "boot" /\ Steps[8] = "compare"
      /\ 1 \in 1..16 /\ 2 \in 1..16 /\ 8 \in 1..16
  BY StepNumbers, Zenon
<1>2. Taken(flags, "device") /\ Taken(flags, "boot") /\ Taken(flags, "compare")
  BY DEF Taken
<1>3. Found(flags, at, l, "boot") = "ok" /\ Found(flags, at, l, "compare") = "ok"
  BY <1>1, <1>2 DEF Stops
<1>4. at \notin {"device", "boot"}
  BY <1>1, <1>2 DEF Stops
<1> QED BY <1>3, <1>4 DEF Found

\* The fault "txf" is the last step.
LEMMA LastStep ==
  ASSUME NEW k \in 1..16, Steps[k] = "txf"
  PROVE  k = 16
  BY DEF Steps

\* What ntfsMount does to the state: the medium is only changed by fix_txf_data.
LEMMA MountEffect ==
  ASSUME Shape, NEW flags, NEW at, NEW l, MountVolume(flags, at, l)
  PROVE  /\ ~vol.mounted /\ ~win.on /\ boot' = boot /\ mops' = mops
         /\ mret # "hangs" /\ mret' # "hangs" /\ ~Hangs(at) /\ l \in MirrorRead(at)
         /\ \/ /\ Stops(flags, at, l) = {}
               /\ vol' = [mounted |-> TRUE, ro |-> "ro" \in flags, size |-> Parsed(boot),
                          zone |-> Zones(Parsed(boot)), mftmirr_size |-> l]
            \/ vol' = NoVolume
         /\ disk' = [log |-> disk.log, hiber |-> disk.hiber, txf |-> disk'.txf, mft |-> disk.mft,
                     mirr |-> disk.mirr]
         /\ disk' # disk => /\ "ro" \notin flags
                            /\ 14 \notin Stops(flags, at, l) /\ 15 \notin Stops(flags, at, l)
         /\ win' = [on |-> win.on, owed |-> win.owed,
                    lost |-> win.lost \/ (disk' # disk /\ win.owed # "nothing")]
<1> DEFINE res == ntfs_device_mount(flags, at, l)
<1>1. /\ ~vol.mounted /\ ~win.on /\ boot' = boot /\ mops' = mops
      /\ mret # "hangs" /\ mret' = ntfs_volume_error(res.err) /\ ~Hangs(at) /\ l \in MirrorRead(at)
      /\ vol' = IF res.err # "ok" THEN NoVolume
                ELSE [mounted |-> TRUE, ro |-> ~("ro" \notin flags), size |-> Parsed(boot),
                      zone |-> Zones(Parsed(boot)), mftmirr_size |-> l]
  BY Zenon DEF MountVolume
<1>2. PICK t : /\ Changes([disk EXCEPT !.txf = t, !.log = disk.log])
               /\ t # disk.txf => "ro" \notin flags /\ res.step \in {"none", "txf"}
  BY Zenon DEF MountVolume, ntfs_empty_logfile
<1>3. [disk EXCEPT !.txf = t, !.log = disk.log] =
        [log |-> disk.log, hiber |-> disk.hiber, txf |-> t, mft |-> disk.mft, mirr |-> disk.mirr]
  <2>1. PICK g, h, x, m, r : disk = [log |-> g, hiber |-> h, txf |-> x, mft |-> m, mirr |-> r]
    BY DEF Shape
  <2>2. [disk EXCEPT !.txf = t, !.log = g] = [log |-> g, hiber |-> h, txf |-> t, mft |-> m, mirr |-> r]
    <3>1. PICK e : e = [disk EXCEPT !.txf = t]
      BY Zenon
    <3>2. e = [log |-> g, hiber |-> h, txf |-> t, mft |-> m, mirr |-> r]
      BY <2>1, <3>1
    <3>3. [disk EXCEPT !.txf = t, !.log = g] = [e EXCEPT !.log = g]
      BY <2>1, <3>1
    <3>4. [e EXCEPT !.log = g] = [log |-> g, hiber |-> h, txf |-> t, mft |-> m, mirr |-> r]
      BY <3>2
    <3> QED BY <3>3, <3>4
  <2>3. disk.log = g /\ disk.hiber = h /\ disk.mft = m /\ disk.mirr = r
    BY <2>1
  <2> QED BY <2>2, <2>3
<1>4. disk' = [log |-> disk.log, hiber |-> disk.hiber, txf |-> t, mft |-> disk.mft,
               mirr |-> disk.mirr]
  BY <1>2, <1>3 DEF Changes
<1>5. win' = [on |-> win.on, owed |-> win.owed,
              lost |-> win.lost \/ (disk' # disk /\ win.owed # "nothing")]
  BY <1>2 DEF Changes, Shape
<1>6. disk' # disk => t # disk.txf
  BY <1>4 DEF Shape
<1>7. res.step \in {"none", "txf"} => 14 \notin Stops(flags, at, l) /\ 15 \notin Stops(flags, at, l)
  <2>1. CASE Stops(flags, at, l) = {}
    BY <2>1
  <2>2. ASSUME NEW k \in Stops(flags, at, l), \A i \in Stops(flags, at, l) : k <= i, res.step = Steps[k],
               res.step \in {"none", "txf"}
        PROVE  14 \notin Stops(flags, at, l) /\ 15 \notin Stops(flags, at, l)
    <3>1. k \in 1..16
      BY DEF Stops
    <3>2. Steps[k] # "none"
      BY <3>1 DEF Steps
    <3>3. k = 16
      BY <2>2, <3>1, <3>2, LastStep
    <3> QED BY <2>2, <3>3
  <2> QED BY <2>1, <2>2, DeviceMount
<1>8. res.err = "ok" => Stops(flags, at, l) = {}
  BY DeviceMount DEF Errors
<1>9. disk'.txf = t
  BY <1>4
<1> HIDE DEF res
<1>10. (~("ro" \notin flags)) = ("ro" \in flags)
  OBVIOUS
<1>11. \/ /\ Stops(flags, at, l) = {}
          /\ vol' = [mounted |-> TRUE, ro |-> "ro" \in flags, size |-> Parsed(boot),
                     zone |-> Zones(Parsed(boot)), mftmirr_size |-> l]
       \/ vol' = NoVolume
  BY <1>1, <1>8, <1>10
<1>12. mret' # "hangs"
  <2>1. res.err \in Errors \cup {"ok"}
    BY DeviceMount DEF res
  <2> QED BY <1>1, <2>1, ErrorReturns
<1> QED BY <1>1, <1>2, <1>4, <1>5, <1>6, <1>7, <1>9, <1>11, <1>12

\* A mount, at whatever step it ends, keeps the invariant.
LEMMA MountVolumeKeeps ==
  ASSUME MountAssumption, MountInv, NEW flags, NEW at, NEW l, MountVolume(flags, at, l)
  PROVE  MountInv'
<1>1. Shape /\ Tidy /\ JournalSound
  BY DEF MountInv
<1>2. /\ ~vol.mounted /\ ~win.on /\ boot' = boot /\ mops' = mops
      /\ mret # "hangs" /\ mret' # "hangs" /\ ~Hangs(at) /\ l \in MirrorRead(at)
      /\ \/ /\ Stops(flags, at, l) = {}
            /\ vol' = [mounted |-> TRUE, ro |-> "ro" \in flags, size |-> Parsed(boot),
                       zone |-> Zones(Parsed(boot)), mftmirr_size |-> l]
         \/ vol' = NoVolume
      /\ disk' = [log |-> disk.log, hiber |-> disk.hiber, txf |-> disk'.txf, mft |-> disk.mft,
                  mirr |-> disk.mirr]
      /\ disk' # disk => /\ "ro" \notin flags
                         /\ 14 \notin Stops(flags, at, l) /\ 15 \notin Stops(flags, at, l)
      /\ win' = [on |-> win.on, owed |-> win.owed,
                 lost |-> win.lost \/ (disk' # disk /\ win.owed # "nothing")]
  BY <1>1, MountEffect
<1>3. /\ disk'.log = disk.log /\ disk'.hiber = disk.hiber /\ disk'.mft = disk.mft
      /\ disk'.mirr = disk.mirr
  BY <1>2
<1>4. /\ win'.on = win.on /\ win'.owed = win.owed
      /\ win'.lost = (win.lost \/ (disk' # disk /\ win.owed # "nothing"))
  BY <1>2
<1>5. \/ /\ Stops(flags, at, l) = {} /\ vol'.mounted = TRUE /\ vol'.ro = ("ro" \in flags)
         /\ vol'.size = Parsed(boot) /\ vol'.zone = Zones(Parsed(boot)) /\ vol'.mftmirr_size = l
      \/ vol'.mounted = FALSE
  <2>1. CASE vol' = NoVolume
    BY <2>1 DEF NoVolume
  <2>2. CASE /\ Stops(flags, at, l) = {}
             /\ vol' = [mounted |-> TRUE, ro |-> "ro" \in flags, size |-> Parsed(boot),
                        zone |-> Zones(Parsed(boot)), mftmirr_size |-> l]
    BY <2>2, Zenon
  <2> QED BY <1>2, <2>1, <2>2, Zenon
<1>6. Shape'
  <2>1. vol'.mounted \in BOOLEAN
    BY <1>5, Zenon
  <2>2. vol'.mounted => /\ vol'.ro \in BOOLEAN
                        /\ vol'.size = Parsed(boot) /\ vol'.zone = Zones(Parsed(boot))
                        /\ ntfs_boot_sector_is_ntfs(boot) /\ ntfs_boot_sector_parse(boot)
                        /\ ZoneEnds(boot) /\ vol'.mftmirr_size \in MirrorSizes(boot)
    <3>1. ("ro" \in flags) \in BOOLEAN
      OBVIOUS
    <3>2. ASSUME Stops(flags, at, l) = {}
          PROVE  ZoneEnds(boot) /\ l \in MirrorSizes(boot)
      <4>1. ZoneEnds(boot)
        BY <1>2, <3>2, MountPassed, Zenon DEF Hangs, ZoneEnds
      <4>2. boot.mirr_records \in Nat
        BY <1>1, Zenon DEF Shape, MountAssumption, IsBoot
      <4>3. Parsed(boot).mftmirr_size \in Nat
        BY <1>1, <3>2, MountPassed, MirrorIsCounted, Zenon DEF Shape, MountAssumption
      <4>4. l \in MirrorSizes(boot)
        BY <1>2, <4>2, <4>3, SMT DEF MirrorRead, MirrorSizes
      <4> QED BY <4>1, <4>4
    <3> QED BY <1>5, <3>1, <3>2, MountPassed, Zenon
  <2>3. win' = [on |-> win'.on, owed |-> win'.owed, lost |-> win'.lost]
    BY <1>2
  <2>4. disk' = [log |-> disk'.log, hiber |-> disk'.hiber, txf |-> disk'.txf, mft |-> disk'.mft,
                 mirr |-> disk'.mirr]
    BY <1>2, <1>3
  <2>5. win'.on \in BOOLEAN /\ win'.lost \in BOOLEAN /\ ~win'.on
    BY <1>1, <1>2, <1>4 DEF Shape
  <2>6. /\ boot' \in {Usual} \cup Boots
        /\ disk'.mft \in [Records -> Nat] /\ disk'.mirr \in [Records -> Nat]
    BY <1>1, <1>2, <1>3 DEF Shape
  <2> QED BY <1>2, <2>1, <2>2, <2>3, <2>4, <2>5, <2>6 DEF Shape
<1>7. Tidy'
  <2>1. MemSound(mem) /\ mem.ptr = {} /\ (NoneOf({"fault"}) => mem.open = {})
    BY <1>1, <1>2 DEF Tidy
  <2>2. mem' = ntfs_device_mount(flags, at, l).mem /\ (NoneOf({"fault"}) => at = "none")
        /\ vol' = (IF ntfs_device_mount(flags, at, l).err # "ok" THEN NoVolume ELSE vol')
    BY Zenon DEF MountVolume, NoneOf, Happens
  <2>3. CASE Stops(flags, at, l) = {}
    <3>1. mem' = Attach(mem, Attached)
      BY <2>2, <2>3, DeviceMount
    <3>2. MemSound(mem') /\ mem'.ptr = mem.ptr \cup Attached /\ mem'.open = mem.open \cup Attached
      BY <2>1, <3>1, AttachSound, Zenon
    <3>3. vol'.mounted
      <4>1. ntfs_device_mount(flags, at, l).err = "ok"
        BY <2>3, DeviceMount
      <4> QED BY <4>1, Zenon DEF MountVolume
    <3> QED BY <1>2, <2>1, <3>2, <3>3 DEF Tidy, NoneOf
  <2>4. CASE Stops(flags, at, l) # {}
    <3>1. PICK k \in Stops(flags, at, l) : mem' = Release(Failed(Attach(mem, Before(k)), Steps[k]), {})
      BY <2>2, <2>4, DeviceMount
    <3> DEFINE a == Attach(mem, Before(k))
               m == Failed(a, Steps[k])
    <3>2. /\ MemSound(a) /\ a.ptr = mem.ptr \cup Before(k)
          /\ a.open = mem.open \cup Before(k)
      BY <2>1, AttachSound, Zenon
    <3>3. MemSound(m)
      BY <3>2, FailedSound
    <3>4. /\ MemSound(mem') /\ mem'.ptr = {} /\ mem'.open = (m.open \ m.ptr) \cup ({} \cap m.ptr)
      BY <3>1, <3>3, ReleaseSound
    <3>5. NoneOf({"fault"}) => mem'.open = {}
      <4>1. Steps[k] # "none"
        BY DEF Steps, Stops
      <4>2. at = "none" => Steps[k] \notin {"upcase", "attrdef"}
        <5>1. at = "none" => Found(flags, at, l, Steps[k]) # "ok"
          BY <4>1 DEF Stops
        <5> QED BY <5>1 DEF Found
      <4>3. NoneOf({"fault"}) => a.open = a.ptr
        BY <2>1, <3>2
      <4>4. NoneOf({"fault"}) => m.open = m.ptr
        BY <2>2, <3>2, <4>2, <4>3, FailedSound
      <4> QED BY <3>4, <4>4
    <3> QED BY <1>2, <3>4, <3>5 DEF Tidy, NoneOf
  <2> QED BY <2>3, <2>4
<1>8. MirrorIsCurrent'
  <2>1. vol'.mounted => MirrorMatches(l) /\ vol'.mftmirr_size = l
    BY <1>5, MountPassed
  <2> QED BY <1>2, <1>3, <2>1 DEF MirrorIsCurrent, MirrorMatches
<1>9. JournalSound'
  <2>1. LogSound(disk'.log)
    BY <1>1, <1>3, Zenon DEF JournalSound
  <2>2. ASSUME NoneOf({"recover", "ignore hiberfile"}), "ro" \notin flags,
               14 \notin Stops(flags, at, l), 15 \notin Stops(flags, at, l)
        PROVE  win.owed = "nothing"
    <3>1. flags \cap {"recover", "ignore hiberfile"} = {}
      BY <2>2, Zenon DEF MountVolume, NoneOf
    <3>2. disk.hiber \in {"none", "zero"} /\ ntfs_volume_check_logfile(disk.log) = "ok"
      BY <2>2, <3>1, ChecksPassed, Zenon
    <3>3. ~Owing(disk.log)
      BY <1>1, <3>2, OwingIsRefused, Zenon DEF JournalSound
    <3> QED BY <1>1, <1>2, <3>2, <3>3, Zenon DEF JournalSound
  <2>3. ASSUME NoneOf({"recover", "ignore hiberfile"})
        PROVE  ~win'.lost /\ (vol'.mounted /\ ~vol'.ro => win'.owed = "nothing")
    <3>1. ~win.lost
      BY <1>1, <2>3, Zenon DEF JournalSound
    <3>2. disk' # disk => win.owed = "nothing"
      BY <1>2, <2>2, <2>3, Zenon
    <3>3. vol'.mounted /\ ~vol'.ro => win.owed = "nothing"
      BY <1>5, <2>2, <2>3, Zenon
    <3> QED BY <1>4, <3>1, <3>2, <3>3, Zenon
  <2>4. /\ ~win'.on
        /\ win'.owed # "nothing" => disk'.hiber \notin {"none", "zero"} \/ Owing(disk'.log)
    BY <1>1, <1>2, <1>3, <1>4, Zenon DEF JournalSound
  <2>5. NoneOf({"recover", "ignore hiberfile"})' = NoneOf({"recover", "ignore hiberfile"})
    BY <1>2 DEF NoneOf
  <2> QED BY <2>1, <2>3, <2>4, <2>5, Zenon DEF JournalSound
<1>10. HangsAtEnd'
  BY <1>2 DEF HangsAtEnd
<1> QED BY <1>6, <1>7, <1>8, <1>9, <1>10 DEF MountInv

\* A mount that does not return: of the boot sectors that are accepted only those with
\* the MFT directly behind the last cluster have a zone that cannot be halved enough.
LEMMA MountHangsKeeps ==
  ASSUME MountAssumption, MountInv, NEW at, MountHangs(at)
  PROVE  MountInv'
<1>1. Shape /\ Tidy /\ MirrorIsCurrent /\ JournalSound
  BY DEF MountInv
<1>2. /\ ~vol.mounted /\ Hangs(at) /\ mem' = Attach(mem, {"device"}) /\ mret' = "hangs"
      /\ boot' = boot /\ disk' = disk /\ win' = win /\ vol' = vol /\ mops' = mops
  BY DEF MountHangs
<1>3. Shape' /\ MirrorIsCurrent' /\ JournalSound'
  BY <1>1, <1>2, Zenon DEF Shape, MirrorIsCurrent, JournalSound, NoneOf
<1>4. Tidy'
  <2>1. MemSound(mem) /\ (NoneOf({"fault"}) => mem.open = mem.ptr)
    BY <1>1 DEF Tidy
  <2>2. MemSound(mem') /\ mem'.ptr = mem.ptr \cup {"device"} /\ mem'.open = mem.open \cup {"device"}
    BY <1>2, <2>1, AttachSound, Zenon
  <2> QED BY <1>2, <2>1, <2>2 DEF Tidy, NoneOf
<1>5. boot.mft_lcn = Parsed(boot).nr_clusters
  BY <1>1, <1>2, ForeverAtEnd, Zenon DEF Shape, MountAssumption, Hangs, ZoneEnds
<1>6. HangsAtEnd'
  BY <1>2, <1>5 DEF HangsAtEnd
<1> QED BY <1>3, <1>4, <1>6 DEF MountInv
----------------------------------------------------------------------------
\* The other operations of the driver

\* A record and its copy with the next version.
LEMMA OneMore ==
  ASSUME NEW S, NEW f \in [S -> Nat], NEW g \in [S -> Nat], NEW i \in S
  PROVE  /\ [f EXCEPT ![i] = f[i] + 1] \in [S -> Nat]
         /\ [g EXCEPT ![i] = f[i] + 1] \in [S -> Nat]
         /\ f[i] + 1 \in Nat /\ g[i] \in Nat
<1>1. f[i] + 1 \in Nat
  OBVIOUS
<1> QED BY <1>1

\* What ntfs_mft_records_write does to the state.
LEMMA WriteEffect ==
  ASSUME Shape, NEW i, NEW how, ntfs_mft_records_write(i, how)
  PROVE  LET writes == ~(Dropped \/ how = "fails")
             mirrored == i < vol.mftmirr_size
         IN  /\ disk' = [log |-> disk.log, hiber |-> disk.hiber, txf |-> disk.txf, mft |-> disk'.mft,
                         mirr |-> disk'.mirr]
             /\ disk'.log = disk.log /\ disk'.hiber = disk.hiber /\ disk'.txf = disk.txf
             /\ ~writes => disk' = disk
             /\ writes =>
                  /\ disk'.mft = [disk.mft EXCEPT ![i] = disk.mft[i] + 1]
                  /\ disk'.mirr = [disk.mirr EXCEPT ![i] = IF mirrored /\ how = "ok" THEN disk.mft[i] + 1
                                                          ELSE disk.mirr[i]]
             /\ win' = [on |-> win.on, owed |-> win.owed,
                        lost |-> win.lost \/ (disk' # disk /\ win.owed # "nothing")]
<1> DEFINE writes == ~(Dropped \/ how = "fails")
           mirrored == i < vol.mftmirr_size
           w == IF mirrored /\ how = "ok" THEN disk.mft[i] + 1 ELSE disk.mirr[i]
           d == [disk EXCEPT !.mft[i] = @ + 1, !.mirr[i] = w]
<1>1. PICK l, h, x, m, r : disk = [log |-> l, hiber |-> h, txf |-> x, mft |-> m, mirr |-> r]
  BY DEF Shape
<1>2. disk.log = l /\ disk.hiber = h /\ disk.txf = x /\ disk.mft = m /\ disk.mirr = r
  BY <1>1
<1>3. Changes(IF ~writes THEN disk ELSE d)
  BY Zenon DEF ntfs_mft_records_write
<1>4. d = [log |-> l, hiber |-> h, txf |-> x, mft |-> [m EXCEPT ![i] = m[i] + 1],
           mirr |-> [r EXCEPT ![i] = w]]
  <2> HIDE DEF w
  <2>1. PICK e : e = [disk EXCEPT !.mft[i] = @ + 1]
    BY Zenon
  <2>2. PICK q : q = [m EXCEPT ![i] = m[i] + 1]
    BY Zenon
  <2>3. e = [log |-> l, hiber |-> h, txf |-> x, mft |-> q, mirr |-> r]
    BY <1>1, <2>1, <2>2
  <2>4. d = [e EXCEPT !.mirr[i] = w]
    BY <1>1, <2>1
  <2>5. [e EXCEPT !.mirr[i] = w] = [log |-> l, hiber |-> h, txf |-> x, mft |-> q, mirr |-> [r EXCEPT ![i] = w]]
    BY <2>3
  <2> QED BY <2>2, <2>4, <2>5
<1>5. win' = [on |-> win.on, owed |-> win.owed,
              lost |-> win.lost \/ (disk' # disk /\ win.owed # "nothing")]
  BY <1>3 DEF Changes, Shape
<1> HIDE DEF writes, w, d
<1>6. CASE ~writes
  <2>1. disk' = disk
    BY <1>3, <1>6 DEF Changes
  <2> QED BY <1>1, <1>2, <1>5, <1>6, <2>1 DEF writes
<1>7. CASE writes
  <2>1. disk' = [log |-> l, hiber |-> h, txf |-> x, mft |-> [m EXCEPT ![i] = m[i] + 1],
                 mirr |-> [r EXCEPT ![i] = w]]
    BY <1>3, <1>4, <1>7 DEF Changes
  <2>2. disk'.mft = [disk.mft EXCEPT ![i] = disk.mft[i] + 1] /\ disk'.mirr = [disk.mirr EXCEPT ![i] = w]
    BY <1>2, <2>1
  <2>3. disk' = [log |-> disk.log, hiber |-> disk.hiber, txf |-> disk.txf, mft |-> disk'.mft,
                 mirr |-> disk'.mirr]
    BY <1>2, <2>1
  <2>4. disk'.log = disk.log /\ disk'.hiber = disk.hiber /\ disk'.txf = disk.txf
    BY <1>2, <2>1
  <2> QED BY <1>5, <1>7, <2>2, <2>3, <2>4 DEF writes, w
<1> QED BY <1>6, <1>7

\* ntfs_mft_records_write keeps $MFT and its mirror equal, or the volume is gone.
LEMMA WriteKeeps ==
  ASSUME MountAssumption, MountInv, NEW i \in Records,
         NEW how \in {"ok", "fails", "mirror fails", "cut"}, ntfs_mft_records_write(i, how)
  PROVE  MountInv'
<1> DEFINE writes == ~(Dropped \/ how = "fails")
           mirrored == i < vol.mftmirr_size
           w == IF mirrored /\ how = "ok" THEN disk.mft[i] + 1 ELSE disk.mirr[i]
<1>1. Shape /\ Tidy /\ MirrorIsCurrent /\ JournalSound
  BY Zenon DEF MountInv
<1>2. /\ disk' = [log |-> disk.log, hiber |-> disk.hiber, txf |-> disk.txf, mft |-> disk'.mft,
                  mirr |-> disk'.mirr]
      /\ disk'.log = disk.log /\ disk'.hiber = disk.hiber /\ disk'.txf = disk.txf
      /\ ~writes => disk' = disk
      /\ writes => /\ disk'.mft = [disk.mft EXCEPT ![i] = disk.mft[i] + 1]
                   /\ disk'.mirr = [disk.mirr EXCEPT ![i] = w]
      /\ win' = [on |-> win.on, owed |-> win.owed,
                 lost |-> win.lost \/ (disk' # disk /\ win.owed # "nothing")]
  BY <1>1, WriteEffect, Zenon
<1>3. disk.mft \in [Records -> Nat] /\ disk.mirr \in [Records -> Nat]
  BY <1>1, Zenon DEF Shape
<1>4. disk'.log = disk.log /\ disk'.hiber = disk.hiber /\ disk'.txf = disk.txf
  BY <1>2, Zenon
<1>5. /\ vol.mounted /\ ~win.on /\ boot' = boot /\ mops' = mops
      /\ how \in {"fails", "mirror fails"} => ~NoneOf({"fault"})
      /\ \/ how = "cut" /\ vol' = NoVolume /\ mem' = NoMem
         \/ how # "cut" /\ vol' = vol /\ mem' = mem
  BY Zenon DEF ntfs_mft_records_write, Happens, NoneOf
<1> HIDE DEF mirrored, writes, w
<1>6. /\ win'.on = win.on /\ win'.owed = win.owed
       /\ win'.lost = (win.lost \/ (disk' # disk /\ win.owed # "nothing"))
  BY <1>2, Zenon
<1>7. disk'.mft \in [Records -> Nat] /\ disk'.mirr \in [Records -> Nat]
  <2>1. CASE writes
    <3>1. [disk.mft EXCEPT ![i] = disk.mft[i] + 1] \in [Records -> Nat]
      BY <1>3, OneMore, Zenon
    <3>2. w \in Nat
      <4>1. disk.mft[i] + 1 \in Nat /\ disk.mirr[i] \in Nat
        BY <1>3, OneMore, Zenon
      <4>2. w = disk.mft[i] + 1 \/ w = disk.mirr[i]
        BY Zenon DEF w
      <4> QED BY <4>1, <4>2, Zenon
    <3>3. [disk.mirr EXCEPT ![i] = w] \in [Records -> Nat]
      BY <1>3, <3>2, Zenon
    <3> QED BY <1>2, <2>1, <3>1, <3>3, Zenon
  <2>2. CASE ~writes
    BY <1>2, <1>3, <2>2, Zenon
  <2> QED BY <2>1, <2>2, Zenon
<1>8. vol'.mounted \in BOOLEAN /\ (vol'.mounted => how # "cut" /\ vol' = vol)
  <2>1. CASE how = "cut"
    <3>1. vol'.mounted = FALSE
      BY <1>5, <2>1 DEF NoVolume
    <3> QED BY <3>1, Zenon
  <2>2. CASE how # "cut"
    BY <1>1, <1>5, <2>2, Zenon DEF Shape
  <2> QED BY <2>1, <2>2, Zenon
<1>9. Shape'
  <2>1. win' = [on |-> win'.on, owed |-> win'.owed, lost |-> win'.lost]
    BY <1>2, Zenon
  <2>2. disk' = [log |-> disk'.log, hiber |-> disk'.hiber, txf |-> disk'.txf, mft |-> disk'.mft,
                 mirr |-> disk'.mirr]
    BY <1>2, <1>4, Zenon
  <2>3. win'.on \in BOOLEAN /\ win'.lost \in BOOLEAN /\ ~win'.on
    BY <1>1, <1>5, <1>6, Zenon DEF Shape
  <2> QED BY <1>1, <1>5, <1>7, <1>8, <2>1, <2>2, <2>3, Zenon DEF Shape
<1>10. Tidy'
  <2>1. CASE how = "cut"
    BY <1>5, <2>1 DEF Tidy, MemSound, NoMem, NoVolume
  <2>2. CASE how # "cut"
    <3>1. mret' = mret
      BY DEF ntfs_mft_records_write
    <3> QED BY <1>1, <1>5, <2>2, <3>1, Zenon DEF Tidy, NoneOf
  <2> QED BY <2>1, <2>2, Zenon
<1>11. MirrorIsCurrent'
  <2>1. SUFFICES ASSUME vol'.mounted, NoneOf({"fault"}), NEW j \in Records,
                        j < vol'.mftmirr_size
                 PROVE  disk'.mirr[j] = disk'.mft[j]
    BY <1>5, Zenon DEF MirrorIsCurrent, NoneOf
  <2>2. how = "ok" /\ vol' = vol
    BY <1>5, <1>8, <2>1, Zenon
  <2>3. disk.mirr[j] = disk.mft[j]
    BY <1>1, <1>5, <2>1, <2>2 DEF MirrorIsCurrent
  <2>4. j = i => mirrored
    BY <2>1, <2>2 DEF mirrored
  <2>5. CASE writes /\ j = i
    <3>1. w = disk.mft[i] + 1
      BY <2>2, <2>4, <2>5 DEF w
    <3> QED BY <1>2, <1>3, <2>5, <3>1, Zenon
  <2>6. CASE writes /\ j # i
    BY <1>2, <1>3, <2>3, <2>6, Zenon
  <2>7. CASE ~writes
    BY <1>2, <2>3, <2>7, Zenon
  <2> QED BY <2>5, <2>6, <2>7, Zenon
<1>12. JournalSound'
  <2>1. ASSUME NoneOf({"recover", "ignore hiberfile"})
        PROVE  ~win'.lost /\ (vol'.mounted /\ ~vol'.ro => win'.owed = "nothing")
    <3>1. ~win.lost /\ (~vol.ro => win.owed = "nothing")
      BY <1>1, <1>5, <2>1, Zenon DEF JournalSound
    <3>2. vol.ro => disk' = disk
      BY <1>2, Zenon DEF writes, Dropped
    <3> QED BY <1>6, <1>8, <3>1, <3>2, Zenon
  <2>2. NoneOf({"recover", "ignore hiberfile"})' = NoneOf({"recover", "ignore hiberfile"})
    BY <1>5, Zenon DEF NoneOf
  <2>3. /\ LogSound(disk'.log) /\ ~win'.on
        /\ win'.owed # "nothing" => disk'.hiber \notin {"none", "zero"} \/ Owing(disk'.log)
    BY <1>1, <1>4, <1>5, <1>6, Zenon DEF JournalSound
  <2> QED BY <2>1, <2>2, <2>3, Zenon DEF JournalSound
<1>13. HangsAtEnd'
  BY Zenon DEF MountInv, HangsAtEnd, ntfs_mft_records_write
<1> QED BY <1>9, <1>10, <1>11, <1>12, <1>13, Zenon DEF MountInv

\* ntfs_umount closes what the volume points to.
LEMMA UmountKeeps ==
  ASSUME MountAssumption, MountInv, NEW U, "device" \notin U, UmountVolume(U)
  PROVE  MountInv'
<1>1. Shape /\ Tidy /\ MirrorIsCurrent /\ JournalSound
  BY DEF MountInv
<1>2. /\ vol.mounted /\ (U # {} => ~NoneOf({"fault"}))
      /\ mem' = Release(mem, U) /\ vol' = NoVolume
      /\ boot' = boot /\ disk' = disk /\ win' = win /\ mops' = mops
  BY DEF UmountVolume, Happens, NoneOf
<1>3. vol'.mounted = FALSE
  BY <1>2 DEF NoVolume
<1>4. Shape'
  BY <1>1, <1>2, <1>3, Zenon DEF Shape
<1>5. Tidy'
  <2>1. MemSound(mem) /\ (NoneOf({"fault"}) => mem.open = mem.ptr)
    BY <1>1 DEF Tidy
  <2>2. MemSound(mem') /\ mem'.ptr = {} /\ mem'.open = (mem.open \ mem.ptr) \cup (U \cap mem.ptr)
    BY <1>2, <2>1, ReleaseSound
  <2>3. NoneOf({"fault"}) => mem'.open = {}
    BY <1>2, <2>1, <2>2
  <2> QED BY <1>2, <2>2, <2>3 DEF Tidy, NoneOf
<1>6. MirrorIsCurrent'
  BY <1>3 DEF MirrorIsCurrent
<1>7. JournalSound'
  BY <1>1, <1>2, <1>3, Zenon DEF JournalSound, NoneOf
<1>8. HangsAtEnd'
  BY DEF UmountVolume, HangsAtEnd
<1> QED BY <1>4, <1>5, <1>6, <1>7, <1>8 DEF MountInv

----------------------------------------------------------------------------
\* Windows

\* A restart page is written over the older one: the page that was the newest one is
\* the older one now.
LEMMA RestartSound ==
  ASSUME MountAssumption, LogSound(disk.log), NEW magic \in {"RSTR", "CHKD"}, NEW ver \in {1, 2},
         NEW used \in {0, None}, NEW clean \in BOOLEAN, NEW torn \in BOOLEAN, torn => magic = "RSTR"
  PROVE  LET l == Restart(magic, ver, used, clean, torn)
             p == NewestOf(l)
         IN  /\ LogSound(l) /\ OtherOf(l) = NewestOf(disk.log)
             /\ Written(p) /\ p.ver = ver /\ p.used = used /\ p.clean = clean /\ p.torn = torn
<1> DEFINE pages == disk.log.page
           p == RestartPage(magic, Lsn + 1, ver, used, clean, torn)
           l == Restart(magic, ver, used, clean, torn)
<1>1. pages[1].lsn \in Nat /\ pages[2].lsn \in Nat
  <2>1. ASSUME NEW i \in 1..2
        PROVE  pages[i].lsn \in Nat
    <3>1. pages[i] = Blank \/ Written(pages[i])
      BY Zenon DEF LogSound
    <3> QED BY <3>1 DEF Written, Blank
  <2>2. 1 \in 1..2 /\ 2 \in 1..2
    OBVIOUS
  <2> QED BY <2>1, <2>2, Zenon
<1>2. Lsn \in Nat /\ pages[1].lsn <= Lsn /\ pages[2].lsn <= Lsn
  BY <1>1 DEF Lsn
<1>3. /\ p.magic = magic /\ p.lsn = Lsn + 1 /\ p.ver = ver /\ p.blocks = PageBlocks
      /\ p.usa = (IF magic = "CHKD" THEN 0 ELSE 1 + PageBlocks)
      /\ p.ra = 8 * ((39 + 2 * PageBlocks) \div 8) /\ p.len \in {224, 512} /\ p.log_clients = 1
      /\ p.used = used /\ p.free = (IF used = None THEN 0 ELSE None)
      /\ p.clean = clean /\ p.torn = torn
  BY DEF RestartPage
<1> HIDE DEF p
<1>4. Written(p)
  BY <1>2, <1>3 DEF Written
<1>5. p # Blank
  BY <1>4 DEF Written, Blank
<1>6. DOMAIN pages = 1..2
  BY DEF LogSound
<1>7. l.tail = "RCRD" /\ l.page = [pages EXCEPT ![Older] = p] /\ l = [page |-> l.page, tail |-> l.tail]
  BY DEF Restart, p
<1> HIDE DEF l
<1>8. CASE pages[1].lsn > pages[2].lsn
  <2>1. Older = 2
    BY <1>8 DEF Older
  <2>2. l.page[1] = pages[1] /\ l.page[2] = p /\ DOMAIN l.page = 1..2
    BY <1>6, <1>7, <2>1
  <2>3. pages[1] # Blank /\ Written(pages[1])
    BY <1>1, <1>8 DEF LogSound, Blank
  <2>4. l.page[1].lsn < l.page[2].lsn
    BY <1>1, <1>2, <1>3, <2>2
  <2>5. NewestOf(l) = p /\ OtherOf(l) = pages[1]
    BY <1>1, <1>2, <1>3, <2>2, <2>4 DEF NewestOf, OtherOf
  <2>6. LogSound(l)
    BY <1>1, <1>2, <1>3, <1>4, <1>7, <2>2, <2>3, <2>4 DEF LogSound
  <2> QED BY <1>3, <1>4, <1>8, <2>5, <2>6, Zenon DEF NewestOf, l
<1>9. CASE ~(pages[1].lsn > pages[2].lsn)
  <2>1. Older = 1
    BY <1>9 DEF Older
  <2>2. l.page[1] = p /\ l.page[2] = pages[2] /\ DOMAIN l.page = 1..2
    BY <1>6, <1>7, <2>1
  <2>3. l.page[1].lsn > l.page[2].lsn
    BY <1>1, <1>2, <1>3, <2>2
  <2>4. NewestOf(l) = p /\ OtherOf(l) = pages[2]
    BY <2>2, <2>3 DEF NewestOf, OtherOf
  <2>5. LogSound(l)
    <3>1. pages[2] = Blank \/ Written(pages[2])
      BY DEF LogSound
    <3> QED BY <1>1, <1>2, <1>3, <1>4, <1>5, <1>7, <2>2, <2>3, <3>1 DEF LogSound
  <2> QED BY <1>3, <1>4, <1>9, <2>4, <2>5, Zenon DEF NewestOf, l
<1> QED BY <1>8, <1>9, Zenon

\* What Windows writes leaves the parts of the state as they are, and it does not
\* write while the volume is mounted.
LEMMA WritesShape ==
  ASSUME Shape, NEW log, NEW hiber, NEW mirr \in {disk.mft, disk.mirr}, Writes(log, hiber, mirr),
         ~vol'.mounted, vol'.mounted \in BOOLEAN, boot' = boot, NEW w, win' = w,
         w = [on |-> w.on, owed |-> w.owed, lost |-> w.lost], w.on \in BOOLEAN, w.lost \in BOOLEAN
  PROVE  Shape' /\ MirrorIsCurrent' /\ disk'.log = log /\ disk'.hiber = hiber
<1>1. disk' = [log |-> log, hiber |-> hiber, txf |-> disk.txf, mft |-> disk.mft, mirr |-> mirr]
  BY DEF Writes
<1>2. /\ disk'.log = log /\ disk'.hiber = hiber /\ disk'.txf = disk.txf /\ disk'.mft = disk.mft
      /\ disk'.mirr = mirr
  BY <1>1, Zenon
<1>3. disk' = [log |-> disk'.log, hiber |-> disk'.hiber, txf |-> disk'.txf, mft |-> disk'.mft,
               mirr |-> disk'.mirr]
  BY <1>1, <1>2, Zenon
<1>4. Shape'
  BY <1>2, <1>3 DEF Shape
<1>5. MirrorIsCurrent'
  BY DEF MirrorIsCurrent
<1> QED BY <1>2, <1>4, <1>5

\* Without a volume nothing is open; what is left open by a failed unmount is gone
\* with the driver.
LEMMA NothingOpen ==
  ASSUME mem' = NoMem
  PROVE  Tidy'
BY DEF NoMem, Tidy, MemSound

\* WinBoot: a page that was torn tells of what Windows owes as the one before it did.
LEMMA WinBootKeeps ==
  ASSUME MountAssumption, MountInv, NEW torn \in BOOLEAN, WinBoot(torn)
  PROVE  MountInv'
<1> DEFINE ver == IF Happens("windows 8") THEN 2 ELSE 1
           log == Restart("RSTR", ver, 0, FALSE, torn)
<1>1. Shape /\ JournalSound /\ LogSound(disk.log)
  BY Zenon DEF MountInv, JournalSound
<1>2. /\ ~win.on /\ vol' = NoVolume /\ mem' = NoMem /\ boot' = boot /\ mops' = mops
      /\ \/ torn /\ Writes(log, disk.hiber, disk.mirr) /\ win' = win
         \/ /\ ~torn /\ Writes(log, IF disk.hiber = "none" THEN "none" ELSE "zero", disk.mft)
            /\ win' = [on |-> TRUE, owed |-> "nothing", lost |-> FALSE]
  BY Zenon DEF WinBoot
<1>3. vol'.mounted = FALSE
  BY <1>2, Zenon DEF NoVolume
<1>4. /\ LogSound(log) /\ OtherOf(log) = NewestOf(disk.log)
      /\ LET p == NewestOf(log)
         IN  Written(p) /\ p.ver = ver /\ p.used = 0 /\ p.clean = FALSE /\ p.torn = torn
  <2>1. ver \in {1, 2} /\ 0 \in {0, None} /\ FALSE \in BOOLEAN /\ "RSTR" \in {"RSTR", "CHKD"}
    OBVIOUS
  <2> HIDE DEF ver
  <2>2. PICK f \in BOOLEAN : f = FALSE
    BY Zenon
  <2>3. PICK l : l = Restart("RSTR", ver, 0, f, torn)
    OBVIOUS
  <2>4. /\ LogSound(l) /\ OtherOf(l) = NewestOf(disk.log)
        /\ LET p == NewestOf(l)
           IN  Written(p) /\ p.ver = ver /\ p.used = 0 /\ p.clean = f /\ p.torn = torn
    BY <1>1, <2>1, <2>3, RestartSound
  <2>5. l = log
    BY <2>2, <2>3, ZenonT(30)
  <2> HIDE DEF log
  <2> QED BY <2>2, <2>4, <2>5
<1> HIDE DEF log
<1>5. Tidy'
  BY <1>2, NothingOpen
<1>6. NoneOf({"recover", "ignore hiberfile"})' = NoneOf({"recover", "ignore hiberfile"})
  BY <1>2 DEF NoneOf
<1>9. HangsAtEnd'
  BY DEF WinBoot, HangsAtEnd
<1>7. CASE torn
  <2>1. Shape' /\ MirrorIsCurrent' /\ disk'.log = log /\ disk'.hiber = disk.hiber
    BY <1>1, <1>2, <1>3, <1>7, WritesShape, Zenon DEF Shape
  <2>2. Owing(disk.log) => Owing(log)
    BY <1>4, <1>7, Zenon DEF Owing, Bad
  <2>3. JournalSound'
    BY <1>1, <1>2, <1>3, <1>4, <1>6, <1>7, <2>1, <2>2, Zenon DEF JournalSound
  <2> QED BY <1>5, <1>9, <2>1, <2>3 DEF MountInv
<1>8. CASE ~torn
  <2>1. win'.on = TRUE /\ win'.owed = "nothing" /\ win'.lost = FALSE
    BY <1>2, <1>8
  <2>2. PICK hiber : Writes(log, hiber, disk.mft)
    BY <1>2, <1>8, Zenon
  <2>3. PICK w : w = [on |-> TRUE, owed |-> "nothing", lost |-> FALSE]
    BY Zenon
  <2>4. /\ win' = w /\ w = [on |-> w.on, owed |-> w.owed, lost |-> w.lost]
        /\ w.on \in BOOLEAN /\ w.lost \in BOOLEAN
    BY <1>2, <1>8, <2>3
  <2>5. Shape' /\ MirrorIsCurrent' /\ disk'.log = log
    BY <1>1, <1>2, <1>3, <2>2, <2>4, WritesShape, Zenon
  <2>6. JournalSound'
    BY <1>3, <1>4, <1>8, <2>1, <2>5, Zenon DEF JournalSound
  <2> QED BY <1>5, <1>9, <2>5, <2>6 DEF MountInv
<1> QED BY <1>7, <1>8

\* WinChange: while Windows runs it may owe what it changed.
LEMMA WinChangeKeeps ==
  ASSUME MountInv, WinChange
  PROVE  MountInv'
<1>1. Shape /\ Tidy /\ MirrorIsCurrent /\ JournalSound
  BY DEF MountInv
<1>2. /\ win.on /\ disk' = disk /\ vol' = vol /\ mem' = mem /\ mret' = mret /\ boot' = boot /\ mops' = mops
      /\ win' = [on |-> win.on, owed |-> "log", lost |-> win.lost]
  BY <1>1, Zenon DEF WinChange, Running, Shape
<1>3. win'.on = win.on /\ win'.owed = "log" /\ win'.lost = win.lost
  BY <1>2
<1>4. Shape'
  BY <1>1, <1>2, <1>3 DEF Shape
<1>5. Tidy' /\ MirrorIsCurrent'
  BY <1>1, <1>2, Zenon DEF Tidy, MirrorIsCurrent, NoneOf
<1>6. JournalSound'
  BY <1>1, <1>2, <1>3, Zenon DEF JournalSound, NoneOf, Shape
<1>7. HangsAtEnd'
  BY <1>2 DEF MountInv, HangsAtEnd
<1> QED BY <1>4, <1>5, <1>6, <1>7 DEF MountInv

\* WinShutdown: nothing is owed.
LEMMA WinShutdownKeeps ==
  ASSUME MountAssumption, MountInv, NEW torn \in BOOLEAN, NEW left \in BOOLEAN,
         WinShutdown(torn, left)
  PROVE  MountInv'
<1> DEFINE used == IF left THEN None ELSE 0
           log == Restart("RSTR", 1, used, ~left, torn)
<1>1. Shape /\ Tidy /\ JournalSound /\ LogSound(disk.log)
  BY Zenon DEF MountInv, JournalSound
<1>2. /\ win.on /\ vol' = vol /\ mem' = mem /\ mret' = mret /\ boot' = boot /\ mops' = mops
      /\ Writes(log, disk.hiber, disk.mirr)
      /\ win' = [on |-> FALSE, owed |-> "nothing", lost |-> win.lost]
  BY Zenon DEF WinShutdown, Running
<1>3. vol'.mounted = FALSE
  BY <1>1, <1>2 DEF Shape
<1>4. LogSound(log)
  <2>1. used \in {0, None} /\ (~left) \in BOOLEAN /\ 1 \in {1, 2}
    OBVIOUS
  <2> HIDE DEF used
  <2> QED BY <1>1, <2>1, RestartSound, Zenon
<1> HIDE DEF log
<1>5. win'.on = FALSE /\ win'.owed = "nothing" /\ win'.lost = win.lost
  BY <1>2
<1>6. Shape' /\ MirrorIsCurrent' /\ disk'.log = log
  <2>1. win.lost \in BOOLEAN
    BY <1>1 DEF Shape
  <2> QED BY <1>1, <1>2, <1>3, <1>5, <2>1, WritesShape, Zenon
<1>7. Tidy'
  BY <1>1, <1>2 DEF Tidy, NoneOf
<1>8. JournalSound'
  BY <1>1, <1>2, <1>3, <1>4, <1>5, <1>6, Zenon DEF JournalSound, NoneOf
<1>9. HangsAtEnd'
  BY <1>2 DEF MountInv, HangsAtEnd
<1> QED BY <1>6, <1>7, <1>8, <1>9 DEF MountInv

\* WinSleep: the hibernation file, or the journal, tells.
LEMMA WinSleepKeeps ==
  ASSUME MountAssumption, MountInv, NEW clean \in BOOLEAN, WinSleep(clean)
  PROVE  MountInv'
<1> DEFINE ver == IF Happens("windows 8") THEN 2 ELSE 1
           log == Restart("RSTR", ver, 0, clean, FALSE)
           hiber == IF Happens("system volume") THEN "hibr"
                    ELSE IF Happens("windows 8") \/ ~clean THEN disk.hiber ELSE "short"
<1>1. Shape /\ Tidy /\ JournalSound /\ LogSound(disk.log)
  BY Zenon DEF MountInv, JournalSound
<1>2. /\ win.on /\ vol' = vol /\ mem' = mem /\ mret' = mret /\ boot' = boot /\ mops' = mops
      /\ Writes(log, hiber, disk.mirr)
      /\ win' = [on |-> FALSE, owed |-> "image", lost |-> win.lost]
  BY Zenon DEF WinSleep, Running
<1>3. vol'.mounted = FALSE
  BY <1>1, <1>2, Zenon DEF Shape
<1>4. /\ LogSound(log)
      /\ LET p == NewestOf(log)
         IN  Written(p) /\ p.ver = ver /\ p.used = 0 /\ p.clean = clean /\ p.torn = FALSE
  <2>1. ver \in {1, 2} /\ 0 \in {0, None} /\ FALSE \in BOOLEAN /\ "RSTR" \in {"RSTR", "CHKD"}
    OBVIOUS
  <2> HIDE DEF ver
  <2>2. PICK f \in BOOLEAN : f = FALSE
    BY Zenon
  <2>3. PICK l : l = Restart("RSTR", ver, 0, clean, f)
    OBVIOUS
  <2>4. /\ LogSound(l) /\ OtherOf(l) = NewestOf(disk.log)
        /\ LET p == NewestOf(l)
           IN  Written(p) /\ p.ver = ver /\ p.used = 0 /\ p.clean = clean /\ p.torn = f
    BY <1>1, <2>1, <2>3, RestartSound
  <2>5. l = log
    BY <2>2, <2>3, Zenon
  <2> HIDE DEF log
  <2> QED BY <2>2, <2>4, <2>5
<1>5. hiber \notin {"none", "zero"} \/ Owing(log)
  <2> HIDE DEF log
  <2>1. CASE Happens("system volume")
    BY <2>1, Zenon
  <2>2. CASE ~Happens("system volume") /\ ~(Happens("windows 8") \/ ~clean)
    BY <2>2, Zenon
  <2>3. CASE Happens("windows 8") \/ ~clean
    BY <1>4, <2>3, Zenon DEF Owing, Bad
  <2> QED BY <2>1, <2>2, <2>3, Zenon
<1> HIDE DEF log, hiber
<1>6. win'.on = FALSE /\ win'.owed = "image" /\ win'.lost = win.lost
  BY <1>2
<1>7. Shape' /\ MirrorIsCurrent' /\ disk'.log = log /\ disk'.hiber = hiber
  <2>1. win.lost \in BOOLEAN
    BY <1>1 DEF Shape
  <2> QED BY <1>1, <1>2, <1>3, <1>6, <2>1, WritesShape, Zenon
<1>8. Tidy'
  BY <1>1, <1>2 DEF Tidy, NoneOf
<1>9. JournalSound'
  BY <1>1, <1>2, <1>3, <1>4, <1>5, <1>6, <1>7, Zenon DEF JournalSound, NoneOf
<1>10. HangsAtEnd'
  BY <1>2 DEF MountInv, HangsAtEnd
<1> QED BY <1>7, <1>8, <1>9, <1>10 DEF MountInv

\* PowerCut: the page that Windows wrote when it started tells of what it owes.
LEMMA PowerCutKeeps ==
  ASSUME MountInv, PowerCut
  PROVE  MountInv'
<1>1. Shape /\ JournalSound
  BY DEF MountInv
<1>2. /\ disk' = disk /\ vol' = NoVolume /\ mem' = NoMem /\ boot' = boot /\ mops' = mops
      /\ win' = [on |-> FALSE, owed |-> win.owed, lost |-> win.lost]
  BY <1>1, Zenon DEF PowerCut, Shape
<1>3. win'.on = FALSE /\ win'.owed = win.owed /\ win'.lost = win.lost /\ vol'.mounted = FALSE
  BY <1>2 DEF NoVolume
<1>4. Shape'
  BY <1>1, <1>2, <1>3, Zenon DEF Shape
<1>5. Tidy'
  BY <1>2, NothingOpen
<1>6. MirrorIsCurrent'
  BY <1>3 DEF MirrorIsCurrent
<1>7. win.on => Owing(disk.log)
  BY <1>1, Zenon DEF JournalSound, Owing, Bad
<1>8. JournalSound'
  BY <1>1, <1>2, <1>3, <1>7, Zenon DEF JournalSound, NoneOf, Shape
<1>9. HangsAtEnd'
  BY DEF PowerCut, HangsAtEnd
<1> QED BY <1>4, <1>5, <1>6, <1>8, <1>9 DEF MountInv

\* Chkdsk leaves nothing owed.
LEMMA ChkdskKeeps ==
  ASSUME MountAssumption, MountInv, Chkdsk
  PROVE  MountInv'
<1> DEFINE log == Restart("CHKD", 1, None, FALSE, FALSE)
<1>1. Shape /\ Tidy /\ JournalSound /\ LogSound(disk.log)
  BY Zenon DEF MountInv, JournalSound
<1>2. /\ ~vol.mounted /\ vol' = vol /\ mem' = mem /\ mret' = mret /\ boot' = boot /\ mops' = mops
      /\ Writes(log, disk.hiber, disk.mft)
      /\ win' = [on |-> FALSE, owed |-> "nothing", lost |-> FALSE]
  BY Zenon DEF Chkdsk
<1>3. vol'.mounted = FALSE
  BY <1>1, <1>2 DEF Shape
<1>4. LogSound(log)
  <2>1. None \in {0, None} /\ FALSE \in BOOLEAN /\ 1 \in {1, 2}
    OBVIOUS
  <2> QED BY <1>1, <2>1, RestartSound, Zenon
<1> HIDE DEF log
<1>5. win'.on = FALSE /\ win'.owed = "nothing" /\ win'.lost = FALSE
  BY <1>2
<1>6. Shape' /\ MirrorIsCurrent' /\ disk'.log = log
  BY <1>1, <1>2, <1>3, <1>5, WritesShape, Zenon
<1>7. Tidy'
  BY <1>1, <1>2 DEF Tidy, NoneOf
<1>8. JournalSound'
  BY <1>3, <1>4, <1>5, <1>6, Zenon DEF JournalSound
<1>9. HangsAtEnd'
  BY <1>2 DEF MountInv, HangsAtEnd
<1> QED BY <1>6, <1>7, <1>8, <1>9 DEF MountInv

----------------------------------------------------------------------------
\* The theorems

\* The volume before anyone uses it.
LEMMA MountInitHolds ==
  ASSUME MountAssumption, MountInit
  PROVE  MountInv
<1>1. /\ boot \in {Usual} \cup Boots
      /\ win = [on |-> FALSE, owed |-> "nothing", lost |-> FALSE] /\ vol = NoVolume /\ mem = NoMem
      /\ mret = "ok"
  BY Zenon DEF MountInit
<1>2. PICK h, x : disk = [log |-> EmptyLog, hiber |-> h, txf |-> x, mft |-> [i \in Records |-> 0],
                          mirr |-> [i \in Records |-> 0]]
  BY Zenon DEF MountInit
<1>3. disk.mft = [i \in Records |-> 0] /\ disk.mirr = [i \in Records |-> 0] /\ disk.log = EmptyLog
  BY <1>2
<1>4. disk = [log |-> disk.log, hiber |-> disk.hiber, txf |-> disk.txf, mft |-> disk.mft,
              mirr |-> disk.mirr]
  BY <1>2
<1>5. vol.mounted = FALSE /\ win.on = FALSE /\ win.owed = "nothing" /\ win.lost = FALSE
  BY <1>1 DEF NoVolume
<1>6. Shape
  <2>1. disk.mft \in [Records -> Nat] /\ disk.mirr \in [Records -> Nat]
    BY <1>3
  <2>2. win = [on |-> win.on, owed |-> win.owed, lost |-> win.lost]
    BY <1>1
  <2> QED BY <1>1, <1>4, <1>5, <2>1, <2>2, Zenon DEF Shape
<1>7. Tidy
  BY <1>1 DEF Tidy, MemSound, NoMem
<1>8. MirrorIsCurrent
  BY <1>5 DEF MirrorIsCurrent
<1>9. LogSound(EmptyLog)
  BY DEF LogSound, EmptyLog
<1>10. JournalSound
  BY <1>3, <1>5, <1>9, Zenon DEF JournalSound
<1>11. HangsAtEnd
  BY <1>1 DEF HangsAtEnd
<1> QED BY <1>6, <1>7, <1>8, <1>10, <1>11 DEF MountInv

\* Every step of the driver and of Windows keeps the invariant.
LEMMA MountStepKeeps ==
  ASSUME MountAssumption, MountInv, [MountNext]_mvars
  PROVE  MountInv'
<1>1. CASE UNCHANGED mvars
  BY <1>1, Zenon DEF mvars, MountInv, Shape, Tidy, HangsAtEnd, MirrorIsCurrent, JournalSound, NoneOf
<1>2. CASE \E flags \in SUBSET {"ro", "recover", "ignore hiberfile"}, at \in Faults :
              \E l \in MirrorRead(at) : MountVolume(flags, at, l)
  BY <1>2, MountVolumeKeeps, Zenon
<1>11. CASE \E at \in Faults : MountHangs(at)
  BY <1>11, MountHangsKeeps, Zenon
<1>3. CASE \E i \in Records, how \in {"ok", "fails", "mirror fails", "cut"} : ntfs_mft_records_write(i, how)
  BY <1>3, WriteKeeps, Zenon
<1>4. CASE \E unsynced \in {{}} \cup {{x} : x \in {"vol_ni", "lcnbmp_ni", "mft_ni", "mftmirr_ni"}} :
             UmountVolume(unsynced)
  <2>1. PICK unsynced \in {{}} \cup {{x} : x \in {"vol_ni", "lcnbmp_ni", "mft_ni", "mftmirr_ni"}} :
               UmountVolume(unsynced)
    BY <1>4
  <2>2. "device" \notin unsynced
    OBVIOUS
  <2> QED BY <2>1, <2>2, UmountKeeps
<1>5. CASE \E torn \in BOOLEAN : WinBoot(torn)
  BY <1>5, WinBootKeeps
<1>6. CASE WinChange
  BY <1>6, WinChangeKeeps
<1>7. CASE \E torn, left \in BOOLEAN : WinShutdown(torn, left)
  BY <1>7, WinShutdownKeeps
<1>8. CASE \E clean \in BOOLEAN : WinSleep(clean)
  BY <1>8, WinSleepKeeps
<1>9. CASE PowerCut
  BY <1>9, PowerCutKeeps
<1>10. CASE Chkdsk
  BY <1>10, ChkdskKeeps
<1> QED BY <1>1, <1>2, <1>3, <1>4, <1>5, <1>6, <1>7, <1>8, <1>9, <1>10, <1>11, Zenon DEF MountNext

\* The invariant of the mount, the unmount, the writes and what Windows does.
LEMMA MountInvHolds ==
  ASSUME MountAssumption
  PROVE  MountSpec => []MountInv
<1>1. MountInit => MountInv
  BY MountInitHolds
<1>2. MountInv /\ [MountNext]_mvars => MountInv'
  BY MountStepKeeps
<1> QED BY <1>1, <1>2, PTL DEF MountSpec

\* Whatever Windows does with the volume and however its restart pages are torn, the
\* driver does not change a volume of which Windows keeps newer metadata in its
\* journal or its memory image, unless the caller told it to
\* (ntfs_volume_check_logfile, ntfs_volume_check_hiberfile).
THEOREM WindowsKeepsItsChanges ==
  ASSUME MountAssumption
  PROVE  MountSpec => []NoStaleReplay
<1>1. MountInv => NoStaleReplay
  BY Zenon DEF MountInv, JournalSound, NoStaleReplay
<1> QED BY <1>1, MountInvHolds, PTL

\* Whatever step of a mount or an unmount fails, the volume points to nothing
\* afterwards, the device is closed and nothing was closed twice; without errors of
\* the disk nothing is left open (ntfs_device_mount, __ntfs_volume_release).
THEOREM MountsAreReleased ==
  ASSUME MountAssumption
  PROVE  MountSpec => []ReleasedOnce
<1>1. MountInv => ReleasedOnce
  BY DEF MountInv, Tidy, MemSound, ReleasedOnce
<1> QED BY <1>1, MountInvHolds, PTL

\* The mirror of a mounted volume matches the start of its MFT, wherever power cut
\* the writes of the two (ntfs_mft_records_write, ntfs_device_mount).
THEOREM MirrorStaysCurrent ==
  ASSUME MountAssumption
  PROVE  MountSpec => []MirrorIsCurrent
<1>1. MountInv => MirrorIsCurrent
  BY Zenon DEF MountInv
<1> QED BY <1>1, MountInvHolds, PTL

\* For every boot sector that the checks accept the zones of the allocator are in order
\* and within the volume, the mirror that is written is within $MFTMirr, and only an
\* MFT directly behind the last cluster keeps the mount from returning
\* (ntfs_boot_sector_parse, ntfs_volume_startup, ntfs_device_mount).
THEOREM ZonesAreInVolume ==
  ASSUME MountAssumption
  PROVE  MountSpec => []ZonesFit
<1>1. MountInv => ZonesFit
  <2>1. SUFFICES ASSUME MountInv, vol.mounted PROVE ZonesFit
    BY DEF ZonesFit, MountInv, HangsAtEnd
  <2>2. /\ boot \in {Usual} \cup Boots /\ vol.size = Parsed(boot) /\ vol.zone = Zones(Parsed(boot))
        /\ ntfs_boot_sector_is_ntfs(boot) /\ ntfs_boot_sector_parse(boot)
        /\ ZoneEnds(boot) /\ vol.mftmirr_size \in MirrorSizes(boot)
        /\ mret = "hangs" => boot.mft_lcn = Parsed(boot).nr_clusters
    BY <2>1, Zenon DEF MountInv, Shape, HangsAtEnd
  <2>3. IsBoot(boot)
    BY <2>2, SMT DEF MountAssumption
  <2>4. LET p == Parsed(boot)
        IN  /\ vol.mftmirr_size <= boot.mirr_records
            /\ vol.mftmirr_size <= 4 \/ vol.mftmirr_size * p.mft_record_size <= p.cluster_size \div Unit
    <3>1. PICK m \in Nat, q \in Nat \ {0} :
            /\ m = Parsed(boot).mftmirr_size /\ q = Parsed(boot).mft_record_size
            /\ m <= 4 \/ m * q <= Parsed(boot).cluster_size \div Unit
      BY <2>2, <2>3, MirrorIsCounted, Zenon
    <3>2. Parsed(boot).cluster_size \div Unit \in Int
      <4>1. Parsed(boot).cluster_size \in PowersOfTwo
        BY <2>2, Zenon DEF ntfs_boot_sector_parse
      <4>2. Parsed(boot).cluster_size \in Nat
        BY <4>1, SMT DEF PowersOfTwo
      <4> QED BY <4>2, SMT DEF Unit
    <3>3. PICK u \in Int : u = Parsed(boot).cluster_size \div Unit
      BY <3>2
    <3>4. boot.mirr_records \in Nat
      BY <2>3, Zenon DEF IsBoot
    <3>5. vol.mftmirr_size \in Nat /\ vol.mftmirr_size <= boot.mirr_records /\ vol.mftmirr_size <= m
      BY <2>2, <3>1, <3>4, SMT DEF MirrorSizes
    <3>6. PICK v \in Nat : v = vol.mftmirr_size /\ v <= m
      BY <3>5
    <3>7. v * q <= m * q
      BY <3>6, SMT
    <3>8. v <= 4 \/ v * q <= u
      <4>1. v * q \in Nat /\ m * q \in Nat
        OBVIOUS
      <4> QED BY <3>1, <3>3, <3>6, <3>7, <4>1, SMT
    <3> QED BY <3>1, <3>3, <3>5, <3>6, <3>8, Zenon
  <2> QED BY <2>2, <2>3, <2>4, ZonesOfBoot, Zenon DEF ZonesFit
<1> QED BY <1>1, MountInvHolds, PTL
=============================================================================
