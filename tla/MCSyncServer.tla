--------------------------- MODULE MCSyncServer ----------------------------
(***************************************************************************)
(* Small instances of SyncServer for TLC.                                  *)
(***************************************************************************)
EXTENDS SyncServer, TLC

CONSTANTS d1, d2, m1, m2, m3, m4, m5, m6, p1, p2, s1, o1, o2, t1

\* Ids are only compared with one another.
Symmetry ==
  Permutations(MutationIds) \cup Permutations(Devices) \cup
  Permutations(Projects) \cup Permutations(Observations)
=============================================================================
