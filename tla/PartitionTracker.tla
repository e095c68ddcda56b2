-------------------------- MODULE PartitionTracker --------------------------
(***************************************************************************)
(* The partitionTracker of internal/ingestion/partition_tracker.go: the    *)
(* per-Reader structure that turns acknowledgements arriving in any order  *)
(* into offsets that may be committed.  Every method holds t.mu from its   *)
(* first to its last line, so each is one step.                            *)
(*                                                                         *)
(* A Go map entry that is absent is NoOffset; a kafka.Message kept in a    *)
(* map is its offset.                                                      *)
(***************************************************************************)
EXTENDS Integers

CONSTANTS Partitions,
          Offsets      \* the offsets a message may have

ASSUME OffsetsAssumption == Offsets \subseteq Nat

NoOffset == -1

VARIABLES pending,       \* pending[p]: acks that wait for a predecessor
          hwm,           \* hwm[p]: end of the acked prefix not drained yet, or NoOffset
          committedHWM,  \* committedHWM[p]: the offset last handed to the committer
          firstSeen,     \* firstSeen[p]: an ack of p has been observed
          acked,         \* history: every offset acknowledged to this tracker
          floor          \* history: the offset that was acknowledged first

trackerVars == <<pending, hwm, committedHWM, firstSeen, acked, floor>>

(* newPartitionTracker: four empty maps, as they are at the start ...       *)
InitTracker ==
  /\ pending = [p \in Partitions |-> {}]
  /\ hwm = [p \in Partitions |-> NoOffset]
  /\ committedHWM = [p \in Partitions |-> NoOffset]
  /\ firstSeen = [p \in Partitions |-> FALSE]
  /\ acked = [p \in Partitions |-> {}]
  /\ floor = [p \in Partitions |-> NoOffset]

(* ... and when a new worker gets a tracker of its own. *)
NewTracker ==
  /\ pending' = [p \in Partitions |-> {}]
  /\ hwm' = [p \in Partitions |-> NoOffset]
  /\ committedHWM' = [p \in Partitions |-> NoOffset]
  /\ firstSeen' = [p \in Partitions |-> FALSE]
  /\ acked' = [p \in Partitions |-> {}]
  /\ floor' = [p \in Partitions |-> NoOffset]

(* n is where the loop that swallows pending follow-ons of o stops. *)
IsRunEnd(n, o, S) ==
  /\ n >= o
  /\ \A q \in (o + 1) .. n : q \in S
  /\ n + 1 \notin S

(* The contiguous floor that Ack works with: set by the very first ack. *)
Base(p, o) == IF firstSeen[p] THEN committedHWM[p] ELSE o - 1

(* Already covered by a previous drain, or by the prefix not drained yet. *)
Covered(p, o) == o <= Base(p, o) \/ (hwm[p] # NoOffset /\ o <= hwm[p])

(* Mutant: the prefix not drained yet is forgotten. *)
Expected_IgnoresHwm(p, o) == Base(p, o) + 1

Expected(p, o) == IF hwm[p] # NoOffset THEN hwm[p] + 1 ELSE Base(p, o) + 1

(* The three outcomes of Ack: drop, buffer, or advance the prefix.         *)
DropAck(p, o) ==
  /\ Covered(p, o)
  /\ UNCHANGED <<pending, hwm>>

BufferAck(p, o) ==
  /\ ~Covered(p, o)
  /\ o # Expected(p, o)
  /\ pending' = [pending EXCEPT ![p] = @ \cup {o}]
  /\ UNCHANGED hwm

(* Mutant: advance without swallowing what already waits in the buffer. *)
AdvancePrefix_NoSwallow(p, o) ==
  /\ ~Covered(p, o)
  /\ o = Expected(p, o)
  /\ hwm' = [hwm EXCEPT ![p] = o]
  /\ UNCHANGED pending

AdvancePrefix(p, o) ==
  /\ ~Covered(p, o)
  /\ o = Expected(p, o)
  /\ \E n \in {o} \cup pending[p] :
       /\ IsRunEnd(n, o, pending[p])
       /\ hwm' = [hwm EXCEPT ![p] = n]
       /\ pending' = [pending EXCEPT ![p] = @ \ ((o + 1) .. n)]

Ack(p, o) ==
  /\ \/ DropAck(p, o)
     \/ BufferAck(p, o)
     \/ AdvancePrefix(p, o)
  /\ firstSeen' = [firstSeen EXCEPT ![p] = TRUE]
  /\ committedHWM' = [committedHWM EXCEPT ![p] = Base(p, o)]
  /\ acked' = [acked EXCEPT ![p] = @ \cup {o}]
  /\ floor' = IF firstSeen[p] THEN floor ELSE [floor EXCEPT ![p] = o]

(* DrainCommittable: what it returns, and what it leaves behind. *)
Committable == hwm

DrainCommittable ==
  /\ committedHWM' = [p \in Partitions |->
                        IF hwm[p] # NoOffset THEN hwm[p] ELSE committedHWM[p]]
  /\ hwm' = [p \in Partitions |-> NoOffset]
  /\ UNCHANGED <<pending, firstSeen, acked, floor>>

(* PendingDepth is Cardinality summed over pending; nothing calls it.      *)

TrackerNext ==
  \/ \E p \in Partitions : \E o \in Offsets : Ack(p, o)
  \/ DrainCommittable
  \/ NewTracker

TrackerSpec == InitTracker /\ [][TrackerNext]_trackerVars

-----------------------------------------------------------------------------
TrackerTypeOK ==
  /\ pending \in [Partitions -> SUBSET Nat]
  /\ hwm \in [Partitions -> Nat \cup {NoOffset}]
  /\ committedHWM \in [Partitions -> Nat \cup {NoOffset}]
  /\ firstSeen \in [Partitions -> BOOLEAN]
  /\ acked \in [Partitions -> SUBSET Nat]
  /\ floor \in [Partitions -> Nat \cup {NoOffset}]

(* The end of the prefix the tracker believes in, drained or not. *)
Top(p) == IF hwm[p] # NoOffset THEN hwm[p] ELSE committedHWM[p]

(* Until the first ack a partition has no state at all. *)
FreshPartition(p) ==
  /\ pending[p] = {} /\ hwm[p] = NoOffset /\ committedHWM[p] = NoOffset
  /\ acked[p] = {} /\ floor[p] = NoOffset

(* What the maps of a partition say of the acks it has received. *)
TrackedPartition(p) ==
  /\ floor[p] \in Nat
  /\ committedHWM[p] >= floor[p] - 1
  /\ hwm[p] # NoOffset => hwm[p] > committedHWM[p]
  /\ \A o \in floor[p] .. Top(p) : o \in acked[p]
  /\ Top(p) + 1 \notin acked[p]
  /\ pending[p] = {o \in acked[p] : o > Top(p)}

(* The inductive invariant: the maps are exactly the acknowledged prefix   *)
(* and the acks beyond it.                                                 *)
TrackerInv ==
  /\ TrackerTypeOK
  /\ \A p \in Partitions :
       IF firstSeen[p] THEN TrackedPartition(p) ELSE FreshPartition(p)

(* The tracker keeps the promise of its header (CommitContract): it hands  *)
(* out the highest offset whose prefix, from the floor, is all acked, for  *)
(* every order of acks, duplicates and drains.                             *)
Contract == INSTANCE CommitContract WITH drained <- committedHWM
KeepsCommitContract == Contract!ContractSpec
=============================================================================
