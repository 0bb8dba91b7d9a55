---------------------------- MODULE MCEnrollment ----------------------------
EXTENDS Enrollment, TLC

(* Panel ids and devices are interchangeable where only safety is checked. *)
Symmetry == Permutations(Panels) \cup Permutations(Devices)
=============================================================================
