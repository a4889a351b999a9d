--------------------------- MODULE MCDeviceSetup ---------------------------
(***************************************************************************)
(* Small instances of DeviceSetup.                                         *)
(***************************************************************************)
EXTENDS DeviceSetup, TLC

CONSTANTS p1, p2, w1, w2, s1, s2

Symmetry == Permutations({p1, p2}) \cup Permutations({w1, w2})
=============================================================================
