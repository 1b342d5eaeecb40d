---------------------------- MODULE MCMetadata ----------------------------
(***************************************************************************)
(* The structures that hold a volume together, side by side: the attribute *)
(* records and the attribute list of a file (AttrRecord), the index of a   *)
(* directory (IndexTree) and the records of $MFT (MftAlloc).  They share   *)
(* no state in the models: a behaviour exercises one of them.              *)
(***************************************************************************)
EXTENDS IndexTree

CONSTANTS
  Room, Sizes,
  Reserved, W, Step, BmpCluster, Many, Few, GiveUp, SeqMax, MaxOpen, MaxCrashes

VARIABLES
  which,             \* the part that is at work
  in, live, env,     \* of AttrRecord
  v                  \* of MftAlloc

avars == <<in, live, env>>
allvars == <<which, tree, keys, avars, v>>

\* Small and large keys in turn: some entries fit where others do not.
MCWeights == <<4, 4, 3, 4, 4, 4, 3, 4>>

MCEnvironments ==
  {[names |-> {1, 2}, streams |-> {0, 1}, extents |-> {1}, full |-> BOOLEAN],
   [names |-> {1, 2}, streams |-> {0}, extents |-> {1, 2}, full |-> BOOLEAN],
   [names |-> {1}, streams |-> {0, 1}, extents |-> {1, 2}, full |-> BOOLEAN]}

SizesOf(b, ba, i, a) ==
  [bmp |-> b, bmpAlloc |-> ba, init |-> i, alloc |-> a, list |-> FALSE]

\* Free records within the initialised ones, a fresh volume, and a full one
\* with a record that the bitmap does not mark.
MCVolumes ==
  {[sizes |-> SizesOf(4, 4, 6, 7), marked |-> {0, 1, 2, 5}, used |-> {0, 1, 2, 5}, space |-> 0],
   [sizes |-> SizesOf(2, 4, 3, 4), marked |-> {0, 1, 2}, used |-> {0, 1, 2}, space |-> 1],
   [sizes |-> SizesOf(4, 4, 8, 8), marked |-> (0..7) \ {5}, used |-> 0..7, space |-> 3]}

A == INSTANCE AttrRecord WITH Environments <- MCEnvironments
M == INSTANCE MftAlloc WITH Volumes <- MCVolumes

MetadataInit ==
  /\ which \in {"record", "index", "mft"}
  /\ Init /\ A!Init /\ M!Init
  /\ which # "record" => env = CHOOSE e \in MCEnvironments : TRUE
  /\ which # "mft" => v = M!Mounted(CHOOSE m \in MCVolumes : TRUE)

OnIndex(Act) == which = "index" /\ Act /\ UNCHANGED <<which, avars, v>>
OnRecord(Act) == which = "record" /\ Act /\ UNCHANGED <<which, tree, keys, v>>
OnMft(Act) == which = "mft" /\ Act /\ UNCHANGED <<which, tree, keys, avars>>

MetadataNext == OnIndex(Next) \/ OnRecord(A!Next) \/ OnMft(M!Next)

MetadataSpec == MetadataInit /\ [][MetadataNext]_allvars

-----------------------------------------------------------------------------
\* Every attribute that was added and not removed is found by
\* ntfs_attr_lookup, wherever it was moved, and the attribute list names
\* exactly the attribute records that exist; A!AttributesFound says what a
\* failure for want of room may lose.
AttributesFound == A!AttributesFound /\ A!ListExact

\* The keys and blocks of an index are those that were added and not removed
\* (ntfs_index_lookup, ntfs_ibm_clear).
IndexSound == IndexExact /\ BlocksExact

\* A directory can be read as a whole in either of the two ways the library
\* has: along the tree (ntfs_index_next) and block by block (ntfs_readdir).
DirectoryListed == WalkComplete /\ ListingComplete

\* A file that reached the device keeps its record until it is freed, and the
\* bitmap of $MFT marks the records in use, wherever the machine stops
\* (ntfs_mft_record_alloc, ntfs_mft_record_free), as long as no undo of
\* ntfs_mft_bitmap_extend_allocation_i has dropped a run of the bitmap.
RecordsKept == M!RecordsKept /\ M!BitmapExact

\* A reference to a freed file does not open the next file of its record.
StaleRefused == M!StaleRefused
=============================================================================
