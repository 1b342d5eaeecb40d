---------------------------- MODULE MCNamespace ----------------------------
(* One file made by Windows, with a long and a short name, in the root      *)
(* directory of a volume with room for two more inodes.                     *)
EXTENDS Namespace, TLC

CONSTANTS i2, i3, i4

MCWindows == i2 :> [win32 |-> "a", dos |-> "b"]
MCEnvironments == {{"fault"}, {"rename directory"}}
\* The inodes that are free at first can be exchanged.
InodeSymmetry == Permutations({i3, i4})
============================================================================
