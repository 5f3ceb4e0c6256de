------------------------- MODULE MCFirebaseSession -------------------------
(***************************************************************************)
(* Small instances of FirebaseSession for TLC.                             *)
(***************************************************************************)
EXTENDS FirebaseSession, TLC

WriteFaults == {"writeFails"}

SessionSymmetry == Permutations(Uids) \cup Permutations(Calls)

=============================================================================
