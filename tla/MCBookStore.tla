---------------------------- MODULE MCBookStore ----------------------------
(***************************************************************************)
(* Small instances of BookStore for TLC.                                   *)
(***************************************************************************)
EXTENDS BookStore, TLC

DiskFaults == {"fetchFails", "writeFails"}
AllFaults == Hazards
SaveFaults == {"saveFails"}

BookSymmetry == Permutations(Books)

=============================================================================
