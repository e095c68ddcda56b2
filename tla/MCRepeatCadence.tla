-------------------------- MODULE MCRepeatCadence ---------------------------
(***************************************************************************)
(* A short schedule with every kind of interval (head, linear tail, cap)   *)
(* and a ladder with every kind of rung: two that are left after a time,   *)
(* one for ever, and the last one, which has a dwell time and no successor.*)
(* The replicas are interchangeable.                                       *)
(***************************************************************************)
EXTENDS RepeatCadence, TLC

MCSequence == <<1, 2>>
MCDwell == <<2, 1, 0, 1>>
HandlerSymmetry == Permutations(Handlers)
=============================================================================
