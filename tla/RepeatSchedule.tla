--------------------------- MODULE RepeatSchedule ---------------------------
(***************************************************************************)
(* computeInterval of internal/incident/service.go, over a schedule as     *)
(* repeatSchedule builds it: the head of the sequence (values that are not *)
(* positive have been dropped), a step and a cap, in minutes, both 0 when  *)
(* they are not set.                                                       *)
(***************************************************************************)
EXTENDS Integers, Sequences

CONSTANTS IntervalSequence, IntervalStep, IntervalMax

ASSUME ScheduleAssumption ==
  /\ IntervalSequence \in Seq(Nat \ {0})
  /\ IntervalStep \in Nat
  /\ IntervalMax \in Nat

(* The last value of the head, from which the tail goes on. *)
base == IF IntervalSequence = <<>> THEN 0 ELSE IntervalSequence[Len(IntervalSequence)]

Overflow(seqIndex) == seqIndex - Len(IntervalSequence) + 1

Linear(seqIndex) == base + Overflow(seqIndex) * IntervalStep

(* Past the head: linear, capped, and never 0. *)
PastHead(seqIndex) ==
  LET d == Linear(seqIndex) IN
  IF IntervalMax > 0 /\ d > IntervalMax THEN IntervalMax
  ELSE IF d > 0 THEN d
  ELSE IF IntervalMax > 0 THEN IntervalMax
  ELSE 30

computeInterval(seqIndex) ==
  IF seqIndex < Len(IntervalSequence) THEN IntervalSequence[seqIndex + 1]
  ELSE PastHead(seqIndex)
=============================================================================
