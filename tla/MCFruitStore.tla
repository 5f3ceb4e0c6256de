---------------------------- MODULE MCFruitStore ----------------------------
(***************************************************************************)
(* Small instances of FruitStore for TLC.                                  *)
(***************************************************************************)
EXTENDS FruitStore, TLC

OrdinaryUse == {"resave", "signOutFails"}
AllFaults == (SessionHazards \cup FruitHazards) \ {"overlap"}
HastyUse == {"overlap"}

FruitSymmetry == Permutations(Uids) \cup Permutations(Calls) \cup Permutations(Fruits)

=============================================================================
