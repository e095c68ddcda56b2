------------------------------ MODULE MCEngine -------------------------------
(***************************************************************************)
(* A group of two alerts, which are interchangeable, a source of another   *)
(* group and two goroutines.                                               *)
(***************************************************************************)
EXTENDS Engine, TLC

EngineSymmetry == Permutations(Callers) \cup Permutations(Members)
=============================================================================
