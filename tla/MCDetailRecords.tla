--------------------------- MODULE MCDetailRecords ---------------------------
(***************************************************************************)
(* Small instances of DetailRecords for TLC.                               *)
(***************************************************************************)
EXTENDS DetailRecords, TLC

NothingFails == {}
Kills == {"kill"}
AllFaults == DetailHazards

DetailSymmetry == Permutations(Devices) \cup Permutations(Keys) \cup Permutations(Images)

=============================================================================
