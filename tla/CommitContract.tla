--------------------------- MODULE CommitContract ---------------------------
(***************************************************************************)
(* What internal/ingestion/partition_tracker.go promises in its header: of *)
(* the offsets acknowledged so far, in any order, the committer is given   *)
(* the highest one whose entire prefix has been acknowledged.  The prefix  *)
(* starts at the offset acknowledged first (the "floor").  Nothing here    *)
(* says how the promise is kept: there is no buffer and no high-water      *)
(* mark, only the set of acknowledged offsets.                             *)
(***************************************************************************)
EXTENDS Integers

CONSTANTS Partitions, Offsets, NoOffset

VARIABLES acked,    \* acked[p]: offsets acknowledged since the tracker was made
          floor,    \* floor[p]: the offset acknowledged first, or NoOffset
          drained   \* drained[p]: the last offset handed to the committer

contractVars == <<acked, floor, drained>>

(* The last offset of the run of acknowledged offsets that starts at from. *)
IsPrefixEnd(n, from, S) ==
  /\ from - 1 <= n
  /\ \A o \in from .. n : o \in S
  /\ n + 1 \notin S

ContractInit ==
  /\ acked = [p \in Partitions |-> {}]
  /\ floor = [p \in Partitions |-> NoOffset]
  /\ drained = [p \in Partitions |-> NoOffset]

ContractAck(p, o) ==
  /\ acked' = [acked EXCEPT ![p] = @ \cup {o}]
  /\ IF floor[p] = NoOffset
       THEN /\ floor' = [floor EXCEPT ![p] = o]
            /\ drained' = [drained EXCEPT ![p] = o - 1]
       ELSE UNCHANGED <<floor, drained>>

(* Every partition that has seen an ack is brought to the end of its prefix. *)
ContractDrain ==
  /\ drained' \in [Partitions -> Int]
  /\ \A p \in Partitions :
       IF floor[p] = NoOffset
         THEN drained'[p] = drained[p]
         ELSE IsPrefixEnd(drained'[p], floor[p], acked[p])
  /\ UNCHANGED <<acked, floor>>

ContractReset == ContractInit'

ContractNext ==
  \/ \E p \in Partitions : \E o \in Offsets : ContractAck(p, o)
  \/ ContractDrain
  \/ ContractReset

ContractSpec == ContractInit /\ [][ContractNext]_contractVars
=============================================================================
