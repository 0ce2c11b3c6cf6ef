---------------------------- MODULE MCTimeClock -----------------------------
(***************************************************************************)
(* Two employees, so that one can be careful while the other is not.       *)
(***************************************************************************)
EXTENDS TimeClock, TLC

CONSTANTS ann, bob

MCEmployees == {ann, bob}
EmployeeSymmetry == Permutations(MCEmployees)
=============================================================================
