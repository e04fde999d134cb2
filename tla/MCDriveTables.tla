---------------------------- MODULE MCDriveTables ----------------------------
(* A small instance of the drive tables.                                   *)
EXTENDS DriveTables, TLC

CONSTANTS c1, d1

OneCarOf == d1 :> c1

Symm == Permutations(Users) \cup Permutations(Sessions)
==============================================================================
