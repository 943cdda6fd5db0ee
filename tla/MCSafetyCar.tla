---------------------------- MODULE MCSafetyCar ----------------------------
(* Two sessions are alike: their names are compared, never ordered. *)
EXTENDS SafetyCar, TLC
Symmetry == Permutations(Session)
=============================================================================
