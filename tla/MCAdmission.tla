---------------------------- MODULE MCAdmission ----------------------------
(***************************************************************************)
(* An instance of Admission: two devices of which the limiter remembers    *)
(* one.                                                                    *)
(***************************************************************************)
EXTENDS Admission, TLC

CONSTANTS r1, r2, r3, laptop, desktop

ThreeRequests == {r1, r2, r3}
TwoDevices == {laptop, desktop}
Interchangeable == Permutations(ThreeRequests) \cup Permutations(TwoDevices)
=============================================================================
