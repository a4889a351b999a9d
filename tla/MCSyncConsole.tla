--------------------------- MODULE MCSyncConsole ---------------------------
(***************************************************************************)
(* An instance of SyncConsole: two devices.                                *)
(***************************************************************************)
EXTENDS SyncConsole, TLC

CONSTANTS laptop, desktop

TwoDevices == {laptop, desktop}
Interchangeable == Permutations(TwoDevices)
=============================================================================
