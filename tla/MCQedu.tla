------------------------------- MODULE MCQedu -------------------------------
(* Small instances of Qedu for TLC. *)
EXTENDS Qedu, TLC

Symmetry == Permutations(Tasks) \cup Permutations(Numbers) \cup Permutations(Texts)
=============================================================================
