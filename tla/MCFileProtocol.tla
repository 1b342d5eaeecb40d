-------------------------- MODULE MCFileProtocol --------------------------
(* Small instances of FileProtocol: the root directory, two files, handles. *)
EXTENDS FileProtocol, TLC

CONSTANTS a, b, h1, h2, h3

\* Each op that a property does not exclude, with others of its kind.
MCEnvironments ==
  {{"flush root", "delete"}, {"flush root", "open twice", "root unreadable"},
   {"close root", "open twice"}, {"close root", "delete", "list deleted"},
   {"delete", "refuse", "close listed"}}
FlushingRoot == {{"flush root"}}

HandleSymmetry == Permutations(Handles)
===========================================================================
