--------------------------- MODULE MCKafkaWorker ----------------------------
(***************************************************************************)
(* Small instances of KafkaWorker, their logs without offset gaps: one     *)
(* partition of three records, or two partitions of two and one.           *)
(***************************************************************************)
EXTENDS KafkaWorker, TLC

CONSTANTS p1, p2

MCOffsets == 0 .. 2
OnePartitionLog == (p1 :> {0, 1, 2})
TwoPartitionLog == (p1 :> {0, 1}) @@ (p2 :> {0})
=============================================================================
