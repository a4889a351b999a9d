--------------------------- MODULE MCSyncClient ---------------------------
(***************************************************************************)
(* Small instances of SyncClient.  A record is any of the observations.    *)
(***************************************************************************)
EXTENDS SyncClient, TLC

CONSTANTS r1, r2

Symmetry == Permutations({r1, r2})
=============================================================================
