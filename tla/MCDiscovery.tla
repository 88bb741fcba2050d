---------------------------- MODULE MCDiscovery ----------------------------
(* Small instances of Discovery.  One scanner is enough: a machine may be  *)
(* renamed before and after it is listed, so whatever two scanners could   *)
(* do to the rows in turn, one can do with the renames in between.         *)
EXTENDS Discovery, TLC

Symmetry == Permutations(Names) \cup Permutations(HostIds)
=============================================================================
