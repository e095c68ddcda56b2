------------------------- MODULE KafkaWorkerProofs --------------------------
(***************************************************************************)
(* For every log, every number of partitions and processors, every channel *)
(* depth and every bound: the worker drives its tracker as the tracker's   *)
(* own specification allows, and the offsets it commits pass no unhandled  *)
(* record except those a first ack jumped over.                            *)
(***************************************************************************)
EXTENDS KafkaWorker, TLAPS

(* The tracker alone: its maps are exact, and it keeps CommitContract, for *)
(* every set of partitions and of offsets.                                 *)

LEMMA InitTrackerInv == InitTracker => TrackerInv
  BY DEF InitTracker, TrackerInv, TrackerTypeOK, FreshPartition, NoOffset

LEMMA NewTrackerInv == NewTracker => TrackerInv'
  BY DEF NewTracker, TrackerInv, TrackerTypeOK, FreshPartition, NoOffset

(* Ack stays within the types, whichever of its three outcomes it takes.   *)
LEMMA AckType ==
  ASSUME TrackerInv, NEW p \in Partitions, NEW o \in Offsets, Ack(p, o)
  PROVE  TrackerTypeOK'
  <1>1. o \in Nat
    BY OffsetsAssumption
  <1>2. Base(p, o) \in Nat \cup {NoOffset}
    BY <1>1 DEF Base, TrackerInv, TrackerTypeOK, NoOffset
  <1>3. /\ pending' \in [Partitions -> SUBSET Nat]
        /\ hwm' \in [Partitions -> Nat \cup {NoOffset}]
    <2>1. CASE DropAck(p, o)
      BY <2>1 DEF DropAck, TrackerInv, TrackerTypeOK
    <2>2. CASE BufferAck(p, o)
      BY <1>1, <2>2 DEF BufferAck, TrackerInv, TrackerTypeOK
    <2>3. CASE AdvancePrefix(p, o)
      BY <1>1, <2>3 DEF AdvancePrefix, IsRunEnd, TrackerInv, TrackerTypeOK
    <2>4. QED
      BY <2>1, <2>2, <2>3 DEF Ack
  <1>4. QED
    BY <1>1, <1>2, <1>3 DEF Ack, TrackerInv, TrackerTypeOK

(* What Ack(p, o) leaves of partition p.                                   *)
LEMMA AckTracked ==
  ASSUME TrackerInv, NEW p \in Partitions, NEW o \in Offsets, Ack(p, o)
  PROVE  TrackedPartition(p)'
  <1> DEFINE base == Base(p, o)
  <1>0. o \in Nat
    BY OffsetsAssumption
  <1>1. /\ committedHWM'[p] = base
        /\ acked'[p] = acked[p] \cup {o}
        /\ base \in Nat \cup {-1}
        /\ hwm[p] \in Nat \cup {-1}
        /\ pending[p] \subseteq Nat
        /\ acked[p] \subseteq Nat
        /\ hwm'[p] \in Nat \cup {-1}
    BY <1>0, AckType DEF Ack, Base, TrackerInv, TrackerTypeOK, NoOffset
  <1> DEFINE top == IF hwm[p] # -1 THEN hwm[p] ELSE base
  <1>2. /\ floor'[p] \in Nat
        /\ base >= floor'[p] - 1
        /\ hwm[p] # -1 => hwm[p] > base
        /\ \A q \in floor'[p] .. top : q \in acked[p]
        /\ top + 1 \notin acked[p]
        /\ pending[p] = {q \in acked[p] : q > top}
    <2>1. CASE firstSeen[p]
      BY <1>0, <2>1 DEF Ack, Base, TrackerInv, TrackedPartition, Top, NoOffset
    <2>2. CASE ~firstSeen[p]
      BY <1>0, <2>2 DEF Ack, Base, TrackerInv, TrackerTypeOK, FreshPartition, NoOffset
    <2>3. QED
      BY <2>1, <2>2
  <1>3. CASE DropAck(p, o)
    <2>1. hwm'[p] = hwm[p] /\ pending'[p] = pending[p] /\ o <= top
      BY <1>0, <1>1, <1>2, <1>3 DEF DropAck, Covered, NoOffset
    <2>2. QED
      BY <1>0, <1>1, <1>2, <2>1 DEF TrackedPartition, Top, NoOffset
  <1>4. CASE BufferAck(p, o)
    <2>1. hwm'[p] = hwm[p] /\ pending'[p] = pending[p] \cup {o} /\ o > top + 1
      BY <1>0, <1>1, <1>2, <1>4
      DEF BufferAck, Covered, Expected, NoOffset, TrackerInv, TrackerTypeOK
    <2>2. QED
      BY <1>0, <1>1, <1>2, <2>1 DEF TrackedPartition, Top, NoOffset
  <1>5. CASE AdvancePrefix(p, o)
    <2>1. o = top + 1
      BY <1>0, <1>1, <1>2, <1>5 DEF AdvancePrefix, Expected, NoOffset
    <2>2. PICK n \in {o} \cup pending[p] :
             /\ IsRunEnd(n, o, pending[p])
             /\ hwm'[p] = n
             /\ pending'[p] = pending[p] \ ((o + 1) .. n)
      BY <1>5 DEF AdvancePrefix, TrackerInv, TrackerTypeOK
    <2>3. n \in Nat /\ n >= o
      BY <1>0, <1>1, <2>2 DEF IsRunEnd
    <2>4. Top(p)' = n /\ n > base
      BY <1>1, <1>2, <2>1, <2>2, <2>3 DEF Top, NoOffset
    <2>5. \A q \in floor'[p] .. n : q \in acked'[p]
      BY <1>0, <1>1, <1>2, <2>1, <2>2, <2>3 DEF IsRunEnd
    <2>6. n + 1 \notin acked'[p]
      BY <1>0, <1>1, <1>2, <2>1, <2>2, <2>3 DEF IsRunEnd
    <2>7. pending'[p] = {q \in acked'[p] : q > n}
      BY <1>0, <1>1, <1>2, <2>1, <2>2, <2>3 DEF IsRunEnd
    <2>8. QED
      BY <1>1, <1>2, <2>2, <2>4, <2>5, <2>6, <2>7 DEF TrackedPartition, NoOffset
  <1>6. QED
    BY <1>3, <1>4, <1>5 DEF Ack

(* Ack(p, o) does not touch another partition.                             *)
LEMMA AckOthers ==
  ASSUME TrackerInv, NEW p \in Partitions, NEW o \in Offsets, Ack(p, o),
         NEW q \in Partitions, q # p
  PROVE  /\ pending'[q] = pending[q] /\ hwm'[q] = hwm[q]
         /\ committedHWM'[q] = committedHWM[q] /\ firstSeen'[q] = firstSeen[q]
         /\ acked'[q] = acked[q] /\ floor'[q] = floor[q]
  BY DEF Ack, DropAck, BufferAck, AdvancePrefix, TrackerInv, TrackerTypeOK

LEMMA AckInv ==
  ASSUME TrackerInv, NEW p \in Partitions, NEW o \in Offsets, Ack(p, o)
  PROVE  TrackerInv'
  <1>1. ASSUME NEW q \in Partitions, q # p
        PROVE  IF firstSeen'[q] THEN TrackedPartition(q)' ELSE FreshPartition(q)'
    BY <1>1, AckOthers DEF TrackerInv, TrackedPartition, FreshPartition, Top
  <1>2. firstSeen'[p]
    BY DEF Ack, TrackerInv, TrackerTypeOK
  <1>3. QED
    BY <1>1, <1>2, AckType, AckTracked DEF TrackerInv

LEMMA DrainInv ==
  ASSUME TrackerInv, DrainCommittable
  PROVE  TrackerInv'
  <1>1. TrackerTypeOK'
    BY DEF DrainCommittable, TrackerInv, TrackerTypeOK
  <1>2. ASSUME NEW p \in Partitions
        PROVE  IF firstSeen'[p] THEN TrackedPartition(p)' ELSE FreshPartition(p)'
    <2>1. Top(p)' = Top(p) /\ hwm'[p] = NoOffset /\ committedHWM'[p] = Top(p)
      BY DEF DrainCommittable, TrackerInv, TrackerTypeOK, Top
    <2>2. CASE firstSeen[p]
      BY <2>1, <2>2
      DEF DrainCommittable, TrackerInv, TrackerTypeOK, TrackedPartition, Top, NoOffset
    <2>3. CASE ~firstSeen[p]
      BY <2>1, <2>3 DEF DrainCommittable, TrackerInv, FreshPartition, Top
    <2>4. QED
      BY <2>2, <2>3
  <1>3. QED
    BY <1>1, <1>2 DEF TrackerInv

(* Every step of a tracker, and every replacement of it, keeps its maps    *)
(* exact.                                                                  *)
LEMMA TrackerStepInv == TrackerInv /\ [TrackerNext]_trackerVars => TrackerInv'
  <1> SUFFICES ASSUME TrackerInv, [TrackerNext]_trackerVars
               PROVE  TrackerInv'
    OBVIOUS
  <1>1. ASSUME NEW p \in Partitions, NEW o \in Offsets, Ack(p, o)
        PROVE  TrackerInv'
    BY <1>1, AckInv
  <1>2. CASE DrainCommittable
    BY <1>2, DrainInv
  <1>3. CASE NewTracker
    BY <1>3, NewTrackerInv
  <1>4. CASE UNCHANGED trackerVars
    BY <1>4 DEF trackerVars, TrackerInv, TrackerTypeOK, TrackedPartition, FreshPartition, Top
  <1>5. QED
    BY <1>1, <1>2, <1>3, <1>4 DEF TrackerNext

(* The tracker's maps are the acked prefix and the acks beyond it, in      *)
(* every state of every tracker (partition_tracker.go:35-129).             *)
THEOREM TrackerExact == TrackerSpec => []TrackerInv
  BY InitTrackerInv, TrackerStepInv, PTL DEF TrackerSpec

(* A drained offset is the end of the acked prefix, and an ack changes the *)
(* contract's view as the contract says.                                   *)
LEMMA ContractStep ==
  TrackerInv /\ [TrackerNext]_trackerVars => [Contract!ContractNext]_(Contract!contractVars)
  <1> SUFFICES ASSUME TrackerInv, [TrackerNext]_trackerVars
               PROVE  [Contract!ContractNext]_(Contract!contractVars)
    OBVIOUS
  <1>1. ASSUME NEW p \in Partitions, NEW o \in Offsets, Ack(p, o)
        PROVE  Contract!ContractAck(p, o)
    <2>1. acked' = [acked EXCEPT ![p] = @ \cup {o}]
      BY <1>1 DEF Ack
    <2>2. CASE firstSeen[p]
      <3>1. floor[p] # NoOffset
        BY <2>2 DEF TrackerInv, TrackedPartition, NoOffset
      <3>2. floor' = floor /\ committedHWM' = committedHWM
        BY <1>1, <2>2 DEF Ack, Base, TrackerInv, TrackerTypeOK
      <3>3. QED
        BY <2>1, <3>1, <3>2 DEF Contract!ContractAck
    <2>3. CASE ~firstSeen[p]
      <3>1. floor[p] = NoOffset
        BY <2>3 DEF TrackerInv, FreshPartition
      <3>2. /\ floor' = [floor EXCEPT ![p] = o]
            /\ committedHWM' = [committedHWM EXCEPT ![p] = o - 1]
        BY <1>1, <2>3 DEF Ack, Base
      <3>3. QED
        BY <2>1, <3>1, <3>2 DEF Contract!ContractAck
    <2>4. QED
      BY <2>2, <2>3
  <1>2. CASE DrainCommittable
    <2>1. committedHWM' \in [Partitions -> Int]
      BY <1>2, DrainInv DEF TrackerInv, TrackerTypeOK, NoOffset
    <2>2. ASSUME NEW p \in Partitions
          PROVE  IF floor[p] = NoOffset
                   THEN committedHWM'[p] = committedHWM[p]
                   ELSE Contract!IsPrefixEnd(committedHWM'[p], floor[p], acked[p])
      <3>1. committedHWM'[p] = Top(p)
        BY <1>2 DEF DrainCommittable, Top
      <3>2. CASE firstSeen[p]
        BY <3>1, <3>2
        DEF TrackerInv, TrackerTypeOK, TrackedPartition, Top, NoOffset, Contract!IsPrefixEnd
      <3>3. CASE ~firstSeen[p]
        BY <3>1, <3>3 DEF TrackerInv, FreshPartition, Top
      <3>4. QED
        BY <3>2, <3>3
    <2>3. QED
      BY <1>2, <2>1, <2>2 DEF DrainCommittable, Contract!ContractDrain, Contract!ContractNext
  <1>3. CASE NewTracker
    BY <1>3 DEF NewTracker, Contract!ContractReset, Contract!ContractInit, Contract!ContractNext
  <1>4. CASE UNCHANGED trackerVars
    BY <1>4 DEF trackerVars, Contract!contractVars
  <1>5. QED
    BY <1>1, <1>2, <1>3, <1>4 DEF TrackerNext, Contract!ContractNext

(* The detailed tracker implements the abstract one: what the committer is *)
(* given is always the highest offset whose prefix has been acked          *)
(* (partition_tracker.go:9-15, from the floor of :50-54 on).               *)
THEOREM TrackerRefines == TrackerSpec => KeepsCommitContract
  <1>1. InitTracker => Contract!ContractInit
    BY DEF InitTracker, Contract!ContractInit
  <1>2. QED
    BY <1>1, ContractStep, TrackerExact, PTL
    DEF TrackerSpec, KeepsCommitContract, Contract!ContractSpec

-----------------------------------------------------------------------------
(* The worker around it. *)

(* Where the pipeline stands on the messages it holds.                     *)
PipelineInv ==
  \A i \in Processors :
    /\ stage[i] = "idle" \/ holding[i] \in Messages
    /\ stage[i] = "processed" => holding[i] \in handled

(* What was acked was handled; what is below a floor was jumped, at worst. *)
AckedHandled == \A p \in Partitions : \A o \in acked[p] : <<p, o>> \in handled
BelowFloor ==
  \A p \in Partitions : firstSeen[p] => Records(p, 0, floor[p]) \subseteq handled \cup jumped

(* What a committer carries was drained from the tracker that is in use.   *)
ShippingDrained ==
  \A c \in Committers : \A p \in Partitions :
    shipping[c][p] # NoOffset => firstSeen[p] /\ shipping[c][p] <= committedHWM[p]
CommittersQuiet ==
  /\ phase # "flushing" => Idle("final")
  /\ phase = "down" => Idle("ticker")

WorkerInv ==
  /\ TrackerInv /\ WorkerTypeOK /\ PipelineInv /\ AckedHandled /\ BelowFloor
  /\ ShippingDrained /\ CommittersQuiet /\ OnlyFloorJumped

LEMMA MessagePair ==
  ASSUME NEW m \in Messages
  PROVE  m[1] \in Partitions /\ m[2] \in Offsets /\ m[2] \in Nat /\ m = <<m[1], m[2]>>
  <1>1. m \in Partitions \X Offsets
    BY DEF Messages
  <1>2. PICK a \in Partitions, b \in Offsets : m = <<a, b>>
    BY <1>1
  <1>3. QED
    BY <1>2, OffsetsAssumption

LEMMA InitWorkerInv == Init => WorkerInv
  <1> SUFFICES ASSUME Init PROVE WorkerInv
    OBVIOUS
  <1>1. TrackerInv
    BY InitTrackerInv DEF Init
  <1>2. WorkerTypeOK
    BY DEF Init, WorkerTypeOK, NothingToShip, Phases, NoOffset, Committers
  <1>3. PipelineInv /\ AckedHandled /\ BelowFloor
    BY DEF Init, InitTracker, PipelineInv, AckedHandled, BelowFloor
  <1>4. ShippingDrained /\ CommittersQuiet
    BY DEF Init, ShippingDrained, CommittersQuiet, NothingToShip, Idle, Committers
  <1>5. OnlyFloorJumped
    BY MessagePair DEF Init, OnlyFloorJumped, Passed
  <1>6. QED
    BY <1>1, <1>2, <1>3, <1>4, <1>5 DEF WorkerInv

(* The worker's steps are steps of the tracker, or leave it alone.         *)
LEMMA WorkerTrackerStep == WorkerInv /\ [Next]_vars => [TrackerNext]_trackerVars
  <1> SUFFICES ASSUME WorkerInv, [Next]_vars PROVE [TrackerNext]_trackerVars
    OBVIOUS
  <1>1. ASSUME NEW i \in Processors, AckMessage(i)
        PROVE  TrackerNext
    <2>1. holding[i] \in Messages
      BY <1>1 DEF WorkerInv, PipelineInv, AckMessage
    <2>2. QED
      BY <1>1, <2>1, MessagePair DEF AckMessage, TrackerNext
  <1>2. CASE TickDrain \/ FinalDrain
    BY <1>2 DEF TickDrain, FinalDrain, TrackerNext
  <1>3. CASE Start
    BY <1>3 DEF Start, TrackerNext
  <1>4. ASSUME NEW p \in Partitions, Fetch(p) \/ Rebalance(p)
        PROVE  UNCHANGED trackerVars
    BY <1>4 DEF Fetch, Rebalance
  <1>5. ASSUME NEW i \in Processors, Take(i) \/ Handle(i)
        PROVE  UNCHANGED trackerVars
    BY <1>5 DEF Take, Handle
  <1>6. ASSUME NEW c \in Committers, Ship(c) \/ ShipFails(c)
        PROVE  UNCHANGED trackerVars
    BY <1>6 DEF Ship, ShipFails
  <1>7. CASE Push \/ FetcherExit \/ Cancel \/ WorkerDone \/ Crash
    BY <1>7 DEF Push, FetcherExit, Cancel, WorkerDone, Crash
  <1>8. CASE UNCHANGED vars
    BY <1>8 DEF vars
  <1>9. QED
    BY <1>1, <1>2, <1>3, <1>4, <1>5, <1>6, <1>7, <1>8 DEF Next

(* Each action preserves the types.                                        *)
LEMMA WorkerTypeStep == WorkerInv /\ [Next]_vars => WorkerTypeOK'
  <1> SUFFICES ASSUME WorkerInv, [Next]_vars PROVE WorkerTypeOK'
    OBVIOUS
  <1> USE DEF WorkerTypeOK
  <1>0. WorkerTypeOK
    BY DEF WorkerInv
  <1>1. ASSUME NEW p \in Partitions, Fetch(p)
        PROVE  WorkerTypeOK'
    <2>1. PICK o \in Log[p] : hand' = <<p, o>> /\ cursor' = [cursor EXCEPT ![p] = o + 1]
      BY <1>1 DEF Fetch
    <2>2. <<p, o>> \in Messages /\ o \in Nat
      BY <2>1, LogAssumption, OffsetsAssumption DEF Messages
    <2>3. cursor' \in [Partitions -> Nat]
      BY <1>0, <2>1, <2>2
    <2>4. hand' \in Messages \cup {NoMessage}
      BY <2>1, <2>2
    <2>5. QED
      BY <1>0, <1>1, <2>3, <2>4 DEF Fetch, historyVars
  <1>2. CASE Push \/ FetcherExit
    <2>1. CASE Push
      <3>1. fetchCh' \in Seq(Messages)
        BY <1>0, <2>1 DEF Push
      <3>2. QED
        BY <1>0, <2>1, <3>1 DEF Push, historyVars
    <2>2. CASE FetcherExit
      BY <1>0, <2>2 DEF FetcherExit, historyVars, Phases
    <2>3. QED
      BY <1>2, <2>1, <2>2
  <1>3. ASSUME NEW i \in Processors, Take(i)
        PROVE  WorkerTypeOK'
    <2>1. Head(fetchCh) \in Messages /\ Tail(fetchCh) \in Seq(Messages)
      BY <1>0, <1>3 DEF Take
    <2>2. QED
      BY <1>0, <1>3, <2>1 DEF Take, historyVars
  <1>4. ASSUME NEW i \in Processors, Handle(i)
        PROVE  WorkerTypeOK'
    BY <1>0, <1>4 DEF Handle, WorkerInv, PipelineInv
  <1>5. ASSUME NEW i \in Processors, AckMessage(i)
        PROVE  WorkerTypeOK'
    <2>1. Records(holding[i][1], 0, holding[i][2]) \subseteq Messages
      BY DEF Records
    <2>2. QED
      BY <1>0, <1>5, <2>1 DEF AckMessage
  <1>6. CASE TickDrain \/ FinalDrain
    <2>1. Committable \in [Partitions -> Nat \cup {NoOffset}]
      BY DEF Committable, WorkerInv, TrackerInv, TrackerTypeOK
    <2>2. QED
      BY <1>0, <1>6, <2>1 DEF TickDrain, FinalDrain, pipelineVars, historyVars, Phases
  <1>7. ASSUME NEW c \in Committers, Ship(c) \/ ShipFails(c)
        PROVE  WorkerTypeOK'
    <2>1. shipping' \in [Committers -> [Partitions -> Nat \cup {NoOffset}]]
      BY <1>0, <1>7 DEF Ship, ShipFails, NothingToShip
    <2>2. phase' \in Phases
      BY <1>0, <1>7 DEF Ship, ShipFails, Phases
    <2>3. CASE Ship(c)
      <3>1. group' \in [Partitions -> Nat]
        BY <1>0, <2>3 DEF Ship, NoOffset
      <3>2. QED
        BY <1>0, <2>1, <2>2, <2>3, <3>1 DEF Ship, historyVars
    <2>4. CASE ShipFails(c)
      <3>1. unshipped' \subseteq Partitions \X Nat
        BY <1>0, <2>4 DEF ShipFails
      <3>2. QED
        BY <1>0, <2>1, <2>2, <2>4, <3>1 DEF ShipFails
    <2>5. QED
      BY <1>7, <2>3, <2>4
  <1>8. CASE Cancel \/ WorkerDone \/ Start
    BY <1>0, <1>8 DEF Cancel, WorkerDone, Start, historyVars, Phases
  <1>9. CASE Crash
    BY <1>0, <1>9 DEF Crash, Phases, NothingToShip, NoOffset
  <1>10. ASSUME NEW p \in Partitions, Rebalance(p)
         PROVE  WorkerTypeOK'
    <2>1. PICK n \in {group[p]} \cup {m[2] + 1 : m \in {q \in Messages : q[1] = p /\ q[2] >= group[p]}} :
             /\ handled' = handled \cup Records(p, group[p], n)
             /\ group' = [group EXCEPT ![p] = n]
             /\ cursor' = [cursor EXCEPT ![p] = n]
      BY <1>10 DEF Rebalance
    <2>2. n \in Nat
      BY <1>0, <2>1, MessagePair
    <2>3. Records(p, group[p], n) \subseteq Messages
      BY DEF Records
    <2>4. QED
      BY <1>0, <1>10, <2>1, <2>2, <2>3 DEF Rebalance
  <1>11. CASE UNCHANGED vars
    BY <1>0, <1>11 DEF vars, pipelineVars, historyVars
  <1>12. QED
    BY <1>1, <1>2, <1>3, <1>4, <1>5, <1>6, <1>7, <1>8, <1>9, <1>10, <1>11 DEF Next

LEMMA HistoryGrows ==
  [Next]_vars => handled \subseteq handled' /\ jumped \subseteq jumped'
  <1> SUFFICES ASSUME [Next]_vars
               PROVE  handled \subseteq handled' /\ jumped \subseteq jumped'
    OBVIOUS
  <1>1. CASE \E p \in Partitions : Fetch(p) \/ Rebalance(p)
    BY <1>1 DEF Fetch, Rebalance, historyVars
  <1>2. CASE \E i \in Processors : Take(i) \/ Handle(i) \/ AckMessage(i)
    BY <1>2 DEF Take, Handle, AckMessage, historyVars
  <1>3. CASE \E c \in Committers : Ship(c) \/ ShipFails(c)
    BY <1>3 DEF Ship, ShipFails, historyVars
  <1>4. CASE TickDrain \/ FinalDrain \/ Push \/ FetcherExit
    BY <1>4 DEF TickDrain, FinalDrain, Push, FetcherExit, historyVars
  <1>5. CASE Cancel \/ WorkerDone \/ Start \/ Crash
    BY <1>5 DEF Cancel, WorkerDone, Start, Crash, historyVars
  <1>6. CASE UNCHANGED vars
    BY <1>6 DEF vars, historyVars
  <1>7. QED
    BY <1>1, <1>2, <1>3, <1>4, <1>5, <1>6 DEF Next

LEMMA PipelineStep == WorkerInv /\ [Next]_vars => PipelineInv'
  <1> SUFFICES ASSUME WorkerInv, [Next]_vars PROVE PipelineInv'
    OBVIOUS
  <1>0. PipelineInv /\ WorkerTypeOK /\ handled \subseteq handled'
    BY HistoryGrows DEF WorkerInv
  <1>1. ASSUME NEW i \in Processors, Take(i)
        PROVE  PipelineInv'
    BY <1>0, <1>1 DEF Take, PipelineInv, WorkerTypeOK
  <1>2. ASSUME NEW i \in Processors, Handle(i)
        PROVE  PipelineInv'
    BY <1>0, <1>2 DEF Handle, PipelineInv, WorkerTypeOK
  <1>3. ASSUME NEW i \in Processors, AckMessage(i)
        PROVE  PipelineInv'
    BY <1>0, <1>3 DEF AckMessage, PipelineInv, WorkerTypeOK
  <1>4. CASE Crash
    BY <1>4 DEF Crash, PipelineInv
  <1>5. ASSUME UNCHANGED <<holding, stage>>
        PROVE  PipelineInv'
    BY <1>0, <1>5 DEF PipelineInv
  <1>6. QED
    BY <1>1, <1>2, <1>3, <1>4, <1>5
    DEF Next, Fetch, Rebalance, Push, FetcherExit, TickDrain, FinalDrain, Ship, ShipFails,
        Cancel, WorkerDone, Start, vars, pipelineVars

LEMMA AckedStep == WorkerInv /\ [Next]_vars => AckedHandled' /\ BelowFloor'
  <1> SUFFICES ASSUME WorkerInv, [Next]_vars PROVE AckedHandled' /\ BelowFloor'
    OBVIOUS
  <1>0. /\ AckedHandled /\ BelowFloor /\ PipelineInv /\ TrackerTypeOK
        /\ handled \subseteq handled' /\ jumped \subseteq jumped'
    BY HistoryGrows DEF WorkerInv, TrackerInv
  <1>1. ASSUME NEW i \in Processors, AckMessage(i)
        PROVE  AckedHandled' /\ BelowFloor'
    <2> DEFINE p == holding[i][1]
               o == holding[i][2]
    <2>1. p \in Partitions /\ o \in Nat /\ <<p, o>> \in handled
      <3>1. holding[i] \in Messages /\ holding[i] \in handled
        BY <1>0, <1>1 DEF AckMessage, PipelineInv
      <3>2. QED
        BY <3>1, MessagePair
    <2>2. /\ Ack(p, o)
          /\ jumped' = IF firstSeen[p] THEN jumped ELSE jumped \cup (Records(p, 0, o) \ handled)
      BY <1>1 DEF AckMessage
    <2>3. AckedHandled'
      BY <1>0, <2>1, <2>2 DEF Ack, AckedHandled, TrackerTypeOK
    <2>4. BelowFloor'
      <3> SUFFICES ASSUME NEW q \in Partitions, firstSeen'[q]
                   PROVE  Records(q, 0, floor'[q]) \subseteq handled' \cup jumped'
        BY DEF BelowFloor, Records
      <3>1. CASE firstSeen[q]
        <4>1. floor'[q] = floor[q]
          BY <1>0, <2>1, <2>2, <3>1 DEF Ack, TrackerTypeOK
        <4>2. QED
          BY <1>0, <3>1, <4>1 DEF BelowFloor
      <3>2. CASE ~firstSeen[q]
        <4>1. q = p /\ floor'[q] = o
          BY <1>0, <2>1, <2>2, <3>2 DEF Ack, TrackerTypeOK
        <4>2. QED
          BY <1>0, <2>2, <3>2, <4>1
      <3>3. QED
        BY <3>1, <3>2
    <2>5. QED
      BY <2>3, <2>4
  <1>2. CASE Start
    BY <1>2 DEF Start, NewTracker, AckedHandled, BelowFloor
  <1>3. ASSUME UNCHANGED <<firstSeen, acked, floor>>
        PROVE  AckedHandled' /\ BelowFloor'
    BY <1>0, <1>3 DEF AckedHandled, BelowFloor, Records
  <1>4. QED
    BY <1>1, <1>2, <1>3
    DEF Next, Fetch, Rebalance, Push, FetcherExit, Take, Handle, TickDrain, FinalDrain,
        DrainCommittable, Ship, ShipFails, Cancel, WorkerDone, Crash, vars, trackerVars

LEMMA QuietStep == WorkerInv /\ [Next]_vars => CommittersQuiet'
  <1> SUFFICES ASSUME WorkerInv, [Next]_vars PROVE CommittersQuiet'
    OBVIOUS
  <1> USE DEF CommittersQuiet, Idle
  <1>0. CommittersQuiet /\ WorkerTypeOK
    BY DEF WorkerInv
  <1>1. ASSUME NEW c \in Committers, Ship(c) \/ ShipFails(c)
        PROVE  CommittersQuiet'
    <2>1. /\ shipping'[c] = NothingToShip
          /\ \A d \in Committers : d # c => shipping'[d] = shipping[d]
          /\ phase' = IF c = "final" THEN "flushed" ELSE phase
      BY <1>0, <1>1 DEF Ship, ShipFails, WorkerTypeOK
    <2>2. QED
      BY <1>0, <2>1 DEF Committers, NothingToShip
  <1>2. CASE TickDrain
    BY <1>0, <1>2 DEF TickDrain, pipelineVars, NothingToShip, Committers, WorkerTypeOK
  <1>3. CASE FinalDrain
    BY <1>0, <1>3 DEF FinalDrain, NothingToShip, Committers, WorkerTypeOK
  <1>4. CASE Crash
    BY <1>4 DEF Crash, NothingToShip, Committers
  <1>5. CASE WorkerDone
    BY <1>0, <1>5 DEF WorkerDone, NothingToShip
  <1>6. CASE FetcherExit \/ Cancel \/ Start
    BY <1>0, <1>6 DEF FetcherExit, Cancel, Start, NothingToShip
  <1>7. ASSUME UNCHANGED <<phase, shipping>>
        PROVE  CommittersQuiet'
    BY <1>0, <1>7 DEF NothingToShip
  <1>8. QED
    BY <1>1, <1>2, <1>3, <1>4, <1>5, <1>6, <1>7
    DEF Next, Fetch, Rebalance, Push, Take, Handle, AckMessage, vars, pipelineVars

LEMMA ShippingStep == WorkerInv /\ [Next]_vars => ShippingDrained'
  <1> SUFFICES ASSUME WorkerInv, [Next]_vars PROVE ShippingDrained'
    OBVIOUS
  <1>0. ShippingDrained /\ WorkerTypeOK /\ TrackerInv
    BY DEF WorkerInv
  <1>1. ASSUME NEW i \in Processors, AckMessage(i)
        PROVE  ShippingDrained'
    <2>1. holding[i] \in Messages /\ Ack(holding[i][1], holding[i][2]) /\ shipping' = shipping
      BY <1>1 DEF AckMessage, WorkerInv, PipelineInv
    <2>2. \A p \in Partitions : firstSeen[p] =>
            firstSeen'[p] /\ committedHWM'[p] = committedHWM[p]
      BY <1>0, <2>1, MessagePair DEF Ack, Base, TrackerInv, TrackerTypeOK
    <2>3. QED
      BY <1>0, <2>1, <2>2 DEF ShippingDrained
  <1>2. ASSUME NEW c \in Committers, DrainCommittable,
               shipping' = [shipping EXCEPT ![c] = Committable]
        PROVE  ShippingDrained'
    <2> SUFFICES ASSUME NEW d \in Committers, NEW p \in Partitions, shipping'[d][p] # NoOffset
                 PROVE  firstSeen'[p] /\ shipping'[d][p] <= committedHWM'[p]
      BY DEF ShippingDrained
    <2>1. /\ firstSeen' = firstSeen
          /\ committedHWM'[p] = IF hwm[p] # NoOffset THEN hwm[p] ELSE committedHWM[p]
      BY <1>2 DEF DrainCommittable
    <2>2. CASE d = c
      <3>1. shipping'[d][p] = hwm[p]
        BY <1>0, <1>2, <2>2 DEF WorkerTypeOK, Committable
      <3>2. hwm[p] \in Nat
        BY <1>0, <3>1 DEF TrackerInv, TrackerTypeOK
      <3>3. firstSeen[p]
        BY <1>0, <3>1 DEF TrackerInv, FreshPartition
      <3>4. QED
        BY <2>1, <3>1, <3>2, <3>3
    <2>3. CASE d # c
      <3>1. shipping'[d][p] = shipping[d][p]
        BY <1>0, <1>2, <2>3 DEF WorkerTypeOK
      <3>2. firstSeen[p] /\ shipping[d][p] <= committedHWM[p] /\ TrackedPartition(p)
        BY <1>0, <3>1 DEF ShippingDrained, TrackerInv
      <3>3. committedHWM[p] <= committedHWM'[p]
        BY <1>0, <2>1, <3>2 DEF TrackedPartition, TrackerInv, TrackerTypeOK, NoOffset
      <3>4. shipping[d][p] \in Int /\ committedHWM[p] \in Int /\ committedHWM'[p] \in Int
        BY <1>0, <2>1 DEF WorkerTypeOK, TrackerInv, TrackerTypeOK, NoOffset
      <3>5. QED
        BY <2>1, <3>1, <3>2, <3>3, <3>4
    <2>4. QED
      BY <2>2, <2>3
  <1>3. ASSUME NEW c \in Committers, shipping' = [shipping EXCEPT ![c] = NothingToShip],
               UNCHANGED trackerVars
        PROVE  ShippingDrained'
    BY <1>0, <1>3 DEF ShippingDrained, NothingToShip, WorkerTypeOK, trackerVars
  <1>4. CASE Start \/ Crash
    <2>1. \A c \in Committers : shipping'[c] = NothingToShip
      BY <1>4 DEF Start, Crash, WorkerInv, CommittersQuiet, Idle, Committers
    <2>2. QED
      BY <2>1 DEF ShippingDrained, NothingToShip
  <1>5. ASSUME UNCHANGED <<trackerVars, shipping>>
        PROVE  ShippingDrained'
    BY <1>0, <1>5 DEF ShippingDrained, trackerVars
  <1>6. CASE TickDrain \/ FinalDrain
    BY <1>2, <1>6 DEF TickDrain, FinalDrain, Committers
  <1>7. CASE \E c \in Committers : Ship(c) \/ ShipFails(c)
    BY <1>3, <1>7 DEF Ship, ShipFails
  <1>8. QED
    BY <1>1, <1>4, <1>5, <1>6, <1>7
    DEF Next, Fetch, Rebalance, Push, FetcherExit, Take, Handle, Cancel, WorkerDone, vars

(* The group offset moves in two places: when a drained offset is shipped, *)
(* and when another member of the group has had the partition.             *)
LEMMA JumpedStep == WorkerInv /\ [Next]_vars => OnlyFloorJumped'
  <1> SUFFICES ASSUME WorkerInv, [Next]_vars PROVE OnlyFloorJumped'
    OBVIOUS
  <1>0. /\ OnlyFloorJumped /\ WorkerTypeOK /\ TrackerInv
        /\ handled \subseteq handled' /\ jumped \subseteq jumped'
    BY HistoryGrows DEF WorkerInv
  <1>1. ASSUME NEW c \in Committers, Ship(c)
        PROVE  OnlyFloorJumped'
    <2> SUFFICES ASSUME NEW m \in Messages, m[2] < group'[m[1]]
                 PROVE  m \in handled' \cup jumped'
      BY DEF OnlyFloorJumped, Passed
    <2> DEFINE p == m[1]
               s == shipping[c][p]
    <2>1. p \in Partitions /\ m[2] \in Nat /\ m = <<p, m[2]>>
      BY MessagePair
    <2>2. CASE s = NoOffset
      BY <1>0, <1>1, <2>1, <2>2 DEF Ship, OnlyFloorJumped, Passed
    <2>3. CASE s # NoOffset
      <3>1. s \in Nat /\ m[2] <= s
        BY <1>0, <1>1, <2>1, <2>3 DEF Ship, WorkerTypeOK
      <3>2. firstSeen[p] /\ s <= committedHWM[p]
        BY <2>1, <2>3 DEF WorkerInv, ShippingDrained
      <3>3. m[2] <= Top(p) /\ floor[p] \in Nat /\ TrackedPartition(p)
        BY <1>0, <2>1, <3>1, <3>2
        DEF TrackerInv, TrackerTypeOK, TrackedPartition, Top, NoOffset
      <3>4. CASE m[2] >= floor[p]
        <4>1. m[2] \in acked[p]
          BY <1>0, <2>1, <3>3, <3>4 DEF TrackedPartition, Top, TrackerInv, TrackerTypeOK, NoOffset
        <4>2. QED
          BY <1>0, <2>1, <4>1 DEF WorkerInv, AckedHandled
      <3>5. CASE m[2] < floor[p]
        <4>1. m \in Records(p, 0, floor[p])
          BY <2>1, <3>3, <3>5 DEF Records
        <4>2. QED
          BY <1>0, <2>1, <3>2, <4>1 DEF WorkerInv, BelowFloor
      <3>6. QED
        BY <2>1, <3>3, <3>4, <3>5
    <2>4. QED
      BY <2>2, <2>3
  <1>2. ASSUME NEW p \in Partitions, Rebalance(p)
        PROVE  OnlyFloorJumped'
    <2>1. PICK n : /\ handled' = handled \cup Records(p, group[p], n)
                   /\ group' = [group EXCEPT ![p] = n]
      BY <1>2 DEF Rebalance
    <2> SUFFICES ASSUME NEW m \in Messages, m[2] < group'[m[1]]
                 PROVE  m \in handled' \cup jumped'
      BY DEF OnlyFloorJumped, Passed
    <2>2. CASE m[2] < group[m[1]]
      BY <1>0, <2>2 DEF OnlyFloorJumped, Passed
    <2>3. CASE ~(m[2] < group[m[1]])
      <3>1. m[1] = p
        BY <1>0, <2>1, <2>3, MessagePair DEF WorkerTypeOK
      <3>2. m \in Records(p, group[p], n)
        BY <1>0, <2>1, <2>3, <3>1, MessagePair DEF Records, WorkerTypeOK
      <3>3. QED
        BY <2>1, <3>2
    <2>4. QED
      BY <2>2, <2>3
  <1>3. ASSUME UNCHANGED group
        PROVE  OnlyFloorJumped'
    BY <1>0, <1>3 DEF OnlyFloorJumped, Passed
  <1>4. QED
    BY <1>1, <1>2, <1>3
    DEF Next, Fetch, Push, FetcherExit, Take, Handle, AckMessage, TickDrain, FinalDrain,
        ShipFails, Cancel, WorkerDone, Start, Crash, vars

(* The inductive invariant: tracker, pipeline, committers and the group    *)
(* offset, tied together.                                                  *)
THEOREM WorkerInvariant == Spec => []WorkerInv
  <1>1. WorkerInv /\ [Next]_vars => WorkerInv'
    <2>1. WorkerInv /\ [Next]_vars => TrackerInv'
      BY WorkerTrackerStep, TrackerStepInv DEF WorkerInv
    <2>2. QED
      BY <2>1, WorkerTypeStep, PipelineStep, AckedStep, QuietStep, ShippingStep, JumpedStep
      DEF WorkerInv
  <1>2. QED
    BY <1>1, InitWorkerInv, PTL DEF Spec

LEMMA ChannelStep ==
  WorkerTypeOK /\ Len(fetchCh) <= ChannelDepth /\ [Next]_vars => (Len(fetchCh) <= ChannelDepth)'
  <1> SUFFICES ASSUME WorkerTypeOK, Len(fetchCh) <= ChannelDepth, [Next]_vars
               PROVE  Len(fetchCh') <= ChannelDepth
    OBVIOUS
  <1>0. fetchCh \in Seq(Messages) /\ hand \in Messages \cup {NoMessage} /\ ChannelDepth \in Nat
    BY DepthAssumption DEF WorkerTypeOK
  <1>1. CASE Push
    <2>1. fetchCh' = Append(fetchCh, hand) /\ hand \in Messages /\ Len(fetchCh) < ChannelDepth
      BY <1>0, <1>1 DEF Push
    <2>2. QED
      BY <1>0, <2>1
  <1>2. ASSUME NEW i \in Processors, Take(i)
        PROVE  Len(fetchCh') <= ChannelDepth
    BY <1>0, <1>2 DEF Take
  <1>3. CASE Crash
    BY <1>0, <1>3 DEF Crash
  <1>4. QED
    BY <1>1, <1>2, <1>3
    DEF Next, Fetch, Rebalance, FetcherExit, Handle, AckMessage, TickDrain, FinalDrain, Ship,
        ShipFails, Cancel, WorkerDone, Start, vars, pipelineVars

(* Every variable keeps its type, the channel never holds more than        *)
(* fetchChannelDepth messages, and the tracker's maps stay exact, however  *)
(* many processors ack into them.                                          *)
THEOREM WorkerTypes == Spec => []TypeOK
  <1>1. Init => Len(fetchCh) <= ChannelDepth
    BY DepthAssumption DEF Init
  <1>2. WorkerInv => TrackerInv /\ WorkerTypeOK
    BY DEF WorkerInv
  <1>3. TrackerInv /\ WorkerTypeOK /\ Len(fetchCh) <= ChannelDepth => TypeOK
    BY DEF TypeOK
  <1>4. QED
    BY <1>1, <1>2, <1>3, WorkerInvariant, ChannelStep, PTL DEF Spec

(* A committed offset passes an unhandled record only if the first ack of  *)
(* the partition jumped over that record: the at-least-once claim of       *)
(* partition_tracker.go:9-15 as the code keeps it.                         *)
THEOREM CommitsPassOnlyJumped == Spec => []OnlyFloorJumped
  <1>1. WorkerInv => OnlyFloorJumped
    BY DEF WorkerInv
  <1>2. QED
    BY <1>1, WorkerInvariant, PTL

-----------------------------------------------------------------------------
(* Without a crash: who comes after a message in its partition has come    *)
(* after it into the channel too, so what a first ack jumps over is        *)
(* handled, or past the fetcher and will be.                               *)
Pushed == {fetchCh[k] : k \in 1 .. Len(fetchCh)} \cup {holding[i] : i \in Processors}
Safe(m) == m \in handled \cup Pushed
Before(m, n) == m[1] = n[1] /\ m[2] < n[2]

IdleHoldsNothing == \A i \in Processors : stage[i] = "idle" => holding[i] = NoMessage
PredecessorsSafe ==
  \A m, n \in Messages : n \in {hand} \cup Pushed /\ Before(m, n) => Safe(m)
FetchedSafe ==
  phase \in {"up", "cancelled"} =>
    \A m \in Messages : m[2] < cursor[m[1]] => Safe(m) \/ m = hand
JumpedSafe == \A m \in jumped : Safe(m)

KeptInv ==
  /\ crashes \in Nat
  /\ crashes = 0 => IdleHoldsNothing /\ PredecessorsSafe /\ FetchedSafe /\ JumpedSafe

(* A step that forgets no message, keeps the three parts it does not touch.*)
LEMMA KeptStays ==
  ASSUME IdleHoldsNothing', PredecessorsSafe, JumpedSafe,
         \A m \in Messages : Safe(m) => Safe(m)',
         \A n \in Messages : n \in {hand'} \cup Pushed' => n \in {hand} \cup Pushed,
         jumped' = jumped, WorkerTypeOK
  PROVE  IdleHoldsNothing' /\ PredecessorsSafe' /\ JumpedSafe'
<1>1. PredecessorsSafe'
  <2> SUFFICES ASSUME NEW m \in Messages, NEW n \in Messages, n \in {hand'} \cup Pushed', Before(m, n)
               PROVE  Safe(m)'
    BY DEF PredecessorsSafe, Before
  <2> QED BY DEF PredecessorsSafe
<1>2. JumpedSafe'
  BY DEF JumpedSafe, WorkerTypeOK
<1> QED BY <1>1, <1>2

LEMMA KeptFetch ==
  ASSUME WorkerInv, KeptInv, crashes = 0, NEW p \in Partitions, Fetch(p)
  PROVE  KeptInv'
<1>0. WorkerTypeOK /\ IdleHoldsNothing /\ PredecessorsSafe /\ FetchedSafe /\ JumpedSafe
  BY DEF WorkerInv, KeptInv
<1>1. PICK o \in Log[p] :
        /\ o >= cursor[p] /\ \A q \in Log[p] : q >= cursor[p] => o <= q
        /\ hand' = <<p, o>> /\ cursor' = [cursor EXCEPT ![p] = o + 1]
  BY DEF Fetch
<1>2. /\ hand = NoMessage /\ phase = "up"
      /\ UNCHANGED <<phase, fetchCh, holding, stage, handled, jumped, crashes>>
  BY DEF Fetch, historyVars
<1>3. Pushed' = Pushed /\ \A m \in Messages : Safe(m)' = Safe(m)
  BY <1>2 DEF Pushed, Safe
<1>4. ASSUME NEW m \in Messages, m[1] = p, m[2] < o PROVE Safe(m)
  <2>1. m[2] \in Log[p] /\ m[2] \in Nat /\ cursor[p] \in Nat /\ o \in Nat
    BY <1>0, <1>4, MessagePair, LogAssumption, OffsetsAssumption DEF Messages, WorkerTypeOK
  <2>2. m[2] < cursor[p]
    BY <1>1, <1>4, <2>1
  <2> QED BY <1>0, <1>2, <1>4, <2>2, NoMessageAssumption DEF FetchedSafe
<1>5. PredecessorsSafe'
  <2> SUFFICES ASSUME NEW m \in Messages, NEW n \in Messages, n = hand' \/ n \in Pushed, Before(m, n)
               PROVE  Safe(m)
    BY <1>3 DEF PredecessorsSafe, Before
  <2>1. CASE n = hand'
    BY <1>1, <1>4, <2>1 DEF Before
  <2>2. CASE n \in Pushed
    BY <1>0, <2>2 DEF PredecessorsSafe
  <2> QED BY <2>1, <2>2
<1>6. FetchedSafe'
  <2> SUFFICES ASSUME NEW m \in Messages, m[2] < cursor'[m[1]]
               PROVE  Safe(m) \/ m = hand'
    BY <1>3 DEF FetchedSafe
  <2>1. CASE m[1] = p
    <3>1. m[2] < o + 1 /\ m[2] \in Nat /\ o \in Nat /\ m = <<p, m[2]>>
      BY <1>0, <1>1, <2>1, MessagePair, LogAssumption, OffsetsAssumption DEF WorkerTypeOK
    <3>2. m[2] < o \/ m[2] = o
      BY <3>1
    <3> QED BY <1>1, <1>4, <2>1, <3>1, <3>2
  <2>2. CASE m[1] # p
    <3>1. m[2] < cursor[m[1]]
      BY <1>0, <1>1, <2>2, MessagePair DEF WorkerTypeOK
    <3> QED BY <1>0, <1>2, <3>1, NoMessageAssumption DEF FetchedSafe
  <2> QED BY <2>1, <2>2
<1>7. IdleHoldsNothing' /\ JumpedSafe'
  BY <1>0, <1>2, <1>3 DEF IdleHoldsNothing, JumpedSafe, WorkerTypeOK
<1> QED BY <1>2, <1>5, <1>6, <1>7 DEF KeptInv

LEMMA KeptPush ==
  ASSUME WorkerInv, KeptInv, crashes = 0, Push
  PROVE  KeptInv'
<1>0. WorkerTypeOK /\ IdleHoldsNothing /\ PredecessorsSafe /\ FetchedSafe /\ JumpedSafe
  BY DEF WorkerInv, KeptInv
<1>1. /\ fetchCh' = Append(fetchCh, hand) /\ hand' = NoMessage /\ hand \in Messages
      /\ UNCHANGED <<phase, cursor, holding, stage, handled, jumped, crashes>>
  BY <1>0 DEF Push, historyVars, WorkerTypeOK
<1>2. Pushed' = Pushed \cup {hand}
  <2>1. /\ Len(fetchCh') = Len(fetchCh) + 1 /\ Len(fetchCh) \in Nat /\ fetchCh'[Len(fetchCh) + 1] = hand
        /\ \A k \in 1 .. Len(fetchCh) : fetchCh'[k] = fetchCh[k]
    BY <1>0, <1>1 DEF WorkerTypeOK
  <2>2. 1 .. Len(fetchCh') = (1 .. Len(fetchCh)) \cup {Len(fetchCh) + 1}
    BY <2>1
  <2>3. {fetchCh'[k] : k \in 1 .. Len(fetchCh')} = {fetchCh[k] : k \in 1 .. Len(fetchCh)} \cup {hand}
    BY <2>1, <2>2
  <2> QED BY <1>1, <2>3 DEF Pushed
<1>3. \A m \in Messages : Safe(m)' <=> Safe(m) \/ m = hand
  BY <1>1, <1>2 DEF Safe
<1>4. IdleHoldsNothing'
  BY <1>0, <1>1 DEF IdleHoldsNothing
<1>5. IdleHoldsNothing' /\ PredecessorsSafe' /\ JumpedSafe'
  BY <1>0, <1>1, <1>2, <1>3, <1>4, KeptStays, NoMessageAssumption
<1>6. FetchedSafe'
  BY <1>0, <1>1, <1>3 DEF FetchedSafe
<1> QED BY <1>1, <1>5, <1>6 DEF KeptInv

(* A processor takes a message from the head of the channel. *)
LEMMA PushedByTake ==
  ASSUME WorkerTypeOK, IdleHoldsNothing, NEW i \in Processors, Take(i)
  PROVE  \A m \in Messages : m \in Pushed' <=> m \in Pushed
<1>0. WorkerTypeOK /\ IdleHoldsNothing
  OBVIOUS
<1>1. /\ stage[i] = "idle" /\ fetchCh # <<>>
      /\ holding' = [holding EXCEPT ![i] = Head(fetchCh)] /\ fetchCh' = Tail(fetchCh)
  BY DEF Take
<1>2. ASSUME NEW m \in Messages PROVE m \in Pushed' <=> m \in Pushed
  <2>1. /\ Len(fetchCh) \in Nat /\ Len(fetchCh) >= 1 /\ Len(fetchCh') = Len(fetchCh) - 1
        /\ Head(fetchCh) = fetchCh[1]
        /\ \A k \in 1 .. Len(fetchCh) - 1 : fetchCh'[k] = fetchCh[k + 1]
    BY <1>0, <1>1 DEF WorkerTypeOK
  <2>2. (\E k \in 1 .. Len(fetchCh) : fetchCh[k] = m)
          <=> fetchCh[1] = m \/ \E k \in 1 .. Len(fetchCh') : fetchCh'[k] = m
    <3>1. ASSUME NEW k \in 1 .. Len(fetchCh), fetchCh[k] = m, k # 1
          PROVE  \E j \in 1 .. Len(fetchCh') : fetchCh'[j] = m
      <4>1. k - 1 \in 1 .. Len(fetchCh') /\ fetchCh'[k - 1] = m
        BY <2>1, <3>1
      <4> QED BY <4>1
    <3>2. ASSUME NEW k \in 1 .. Len(fetchCh'), fetchCh'[k] = m
          PROVE  \E j \in 1 .. Len(fetchCh) : fetchCh[j] = m
      <4>1. k + 1 \in 1 .. Len(fetchCh) /\ fetchCh[k + 1] = m
        BY <2>1, <3>2
      <4> QED BY <4>1
    <3>3. 1 \in 1 .. Len(fetchCh)
      BY <2>1
    <3> QED BY <3>1, <3>2, <3>3
  <2>3. (\E j \in Processors : holding'[j] = m)
          <=> fetchCh[1] = m \/ \E j \in Processors : holding[j] = m
    <3>1. holding'[i] = fetchCh[1] /\ holding[i] # m
      BY <1>0, <1>1, <2>1, NoMessageAssumption DEF IdleHoldsNothing, WorkerTypeOK
    <3>2. \A j \in Processors : j # i => holding'[j] = holding[j]
      BY <1>0, <1>1 DEF WorkerTypeOK
    <3> QED BY <3>1, <3>2
  <2> QED BY <2>2, <2>3 DEF Pushed
<1> QED BY <1>2

LEMMA KeptTake ==
  ASSUME WorkerInv, KeptInv, crashes = 0, NEW i \in Processors, Take(i)
  PROVE  KeptInv'
<1>0. WorkerTypeOK /\ IdleHoldsNothing /\ PredecessorsSafe /\ FetchedSafe /\ JumpedSafe
  BY DEF WorkerInv, KeptInv
<1>1. /\ stage[i] = "idle" /\ fetchCh # <<>>
      /\ holding' = [holding EXCEPT ![i] = Head(fetchCh)] /\ fetchCh' = Tail(fetchCh)
      /\ stage' = [stage EXCEPT ![i] = "taken"]
      /\ UNCHANGED <<phase, cursor, hand, handled, jumped, crashes>>
  BY DEF Take, historyVars
<1>2. \A m \in Messages : m \in Pushed' <=> m \in Pushed
  BY <1>0, PushedByTake
<1>3. \A m \in Messages : Safe(m)' <=> Safe(m)
  BY <1>1, <1>2 DEF Safe
<1>4. IdleHoldsNothing'
  BY <1>0, <1>1 DEF IdleHoldsNothing, WorkerTypeOK
<1>5. PredecessorsSafe' /\ JumpedSafe'
  BY <1>0, <1>1, <1>2, <1>3, <1>4, KeptStays
<1>6. FetchedSafe'
  BY <1>0, <1>1, <1>3 DEF FetchedSafe
<1> QED BY <1>1, <1>4, <1>5, <1>6 DEF KeptInv

(* The message that leaves the pipeline was handled; what its ack jumps    *)
(* over, if it is the first, came into the channel before it.              *)
LEMMA KeptAck ==
  ASSUME WorkerInv, KeptInv, crashes = 0, NEW i \in Processors, AckMessage(i)
  PROVE  KeptInv'
<1> DEFINE a == holding[i]
<1>0. /\ WorkerTypeOK /\ IdleHoldsNothing /\ PredecessorsSafe /\ FetchedSafe /\ JumpedSafe
      /\ a \in Messages /\ a \in handled /\ a \in Pushed
  BY DEF WorkerInv, KeptInv, PipelineInv, AckMessage, Pushed
<1>1. /\ holding' = [holding EXCEPT ![i] = NoMessage] /\ stage' = [stage EXCEPT ![i] = "idle"]
      /\ jumped' \subseteq jumped \cup (Records(a[1], 0, a[2]) \ handled)
      /\ UNCHANGED <<phase, cursor, hand, fetchCh, handled, crashes>>
  BY DEF AckMessage
<1>2. ASSUME NEW m \in Messages
      PROVE  /\ m \in Pushed => m \in Pushed' \/ m = a
             /\ m \in Pushed' => m \in Pushed
  <2>1. holding'[i] = NoMessage /\ \A j \in Processors : j # i => holding'[j] = holding[j]
    BY <1>0, <1>1 DEF WorkerTypeOK
  <2> QED BY <1>1, <2>1, NoMessageAssumption DEF Pushed
<1>3. \A m \in Messages : Safe(m)' <=> Safe(m)
  BY <1>0, <1>1, <1>2 DEF Safe
<1>4. IdleHoldsNothing'
  BY <1>0, <1>1 DEF IdleHoldsNothing, WorkerTypeOK
<1>5. PredecessorsSafe'
  BY <1>0, <1>1, <1>2, <1>3 DEF PredecessorsSafe, Before
<1>6. JumpedSafe'
  <2> SUFFICES ASSUME NEW m \in jumped' PROVE Safe(m)'
    BY DEF JumpedSafe
  <2>1. CASE m \in jumped
    BY <1>0, <1>3, <2>1 DEF JumpedSafe, WorkerTypeOK
  <2>2. CASE m \in Records(a[1], 0, a[2])
    <3>1. m \in Messages /\ Before(m, a)
      BY <2>2 DEF Records, Before
    <3> QED BY <1>0, <1>3, <3>1 DEF PredecessorsSafe
  <2> QED BY <1>1, <2>1, <2>2
<1>7. FetchedSafe'
  BY <1>0, <1>1, <1>3 DEF FetchedSafe
<1> QED BY <1>1, <1>4, <1>5, <1>6, <1>7 DEF KeptInv

LEMMA KeptNext == WorkerInv /\ KeptInv /\ [Next]_vars => KeptInv'
<1> SUFFICES ASSUME WorkerInv, KeptInv, [Next]_vars PROVE KeptInv'
  OBVIOUS
<1>0. crashes \in Nat /\ WorkerTypeOK /\ handled \subseteq handled'
  BY HistoryGrows DEF WorkerInv, KeptInv
<1>1. CASE crashes # 0
  <2>1. crashes' \in Nat /\ crashes' # 0
    BY <1>0, <1>1
    DEF Next, Fetch, Rebalance, Push, FetcherExit, Take, Handle, AckMessage, TickDrain, FinalDrain,
        Ship, ShipFails, Cancel, WorkerDone, Start, Crash, vars, historyVars
  <2> QED BY <2>1 DEF KeptInv
<1>2. CASE crashes = 0
  <2>0. IdleHoldsNothing /\ PredecessorsSafe /\ FetchedSafe /\ JumpedSafe
    BY <1>2 DEF KeptInv
  <2>1. CASE Crash
    BY <1>0, <1>2, <2>1 DEF Crash, KeptInv
  <2>2. ASSUME UNCHANGED <<fetchCh, holding, stage, jumped, crashes>>,
               hand' = hand \/ hand' = NoMessage, FetchedSafe'
        PROVE  KeptInv'
    <3>1. Pushed' = Pushed /\ \A m \in Messages : Safe(m) => Safe(m)'
      BY <1>0, <2>2 DEF Pushed, Safe
    <3>2. PredecessorsSafe' /\ JumpedSafe' /\ IdleHoldsNothing'
      BY <1>0, <2>0, <2>2, <3>1, KeptStays, NoMessageAssumption DEF IdleHoldsNothing
    <3> QED BY <1>0, <2>2, <3>2 DEF KeptInv
  <2>3. ASSUME UNCHANGED <<cursor, hand, fetchCh, holding>>,
               phase' \in {"up", "cancelled"} => phase \in {"up", "cancelled"}
        PROVE  FetchedSafe'
    <3>1. \A m \in Messages : Safe(m) => Safe(m)'
      BY <1>0, <2>3 DEF Pushed, Safe
    <3> QED BY <2>0, <2>3, <3>1 DEF FetchedSafe
  <2>4. ASSUME NEW i \in Processors, Handle(i) PROVE KeptInv'
    <3>1. /\ UNCHANGED <<phase, cursor, hand, fetchCh, holding, jumped, crashes>>
          /\ stage' = [stage EXCEPT ![i] = "processed"]
      BY <2>4 DEF Handle
    <3>2. IdleHoldsNothing' /\ FetchedSafe'
      BY <1>0, <2>0, <2>3, <3>1 DEF IdleHoldsNothing, WorkerTypeOK
    <3>3. Pushed' = Pushed /\ \A m \in Messages : Safe(m) => Safe(m)'
      BY <1>0, <3>1 DEF Pushed, Safe
    <3>4. PredecessorsSafe' /\ JumpedSafe'
      BY <1>0, <2>0, <3>1, <3>2, <3>3, KeptStays
    <3> QED BY <1>0, <3>1, <3>2, <3>4 DEF KeptInv
  <2>5. CASE FetcherExit
    <3>1. FetchedSafe'
      BY <2>5 DEF FetcherExit, FetchedSafe
    <3> QED BY <2>2, <2>5, <3>1 DEF FetcherExit, historyVars
  <2>6. CASE TickDrain \/ FinalDrain \/ Cancel \/ WorkerDone \/ UNCHANGED vars
    <3>1. FetchedSafe'
      BY <2>3, <2>6 DEF TickDrain, FinalDrain, Cancel, WorkerDone, vars, pipelineVars
    <3> QED BY <2>2, <2>6, <3>1
      DEF TickDrain, FinalDrain, Cancel, WorkerDone, vars, pipelineVars, historyVars
  <2>7. ASSUME NEW c \in Committers, Ship(c) \/ ShipFails(c) PROVE KeptInv'
    <3>1. FetchedSafe'
      BY <2>3, <2>7 DEF Ship, ShipFails
    <3> QED BY <2>2, <2>7, <3>1 DEF Ship, ShipFails, historyVars
  <2>8. CASE Start
    <3>1. cursor' = group /\ UNCHANGED <<hand, fetchCh, holding, stage, handled, jumped, crashes>>
      BY <2>8 DEF Start, historyVars
    <3>2. FetchedSafe'
      <4> SUFFICES ASSUME NEW m \in Messages, m[2] < group[m[1]] PROVE Safe(m)'
        BY <3>1 DEF FetchedSafe
      <4>1. m \in handled \cup jumped
        BY DEF WorkerInv, OnlyFloorJumped, Passed
      <4>2. Safe(m)
        BY <2>0, <4>1 DEF JumpedSafe, Safe
      <4> QED BY <3>1, <4>2 DEF Safe, Pushed
    <3> QED BY <2>2, <3>1, <3>2
  <2>9. ASSUME NEW p \in Partitions, Rebalance(p) PROVE KeptInv'
    <3>1. PICK n : /\ handled' = handled \cup Records(p, group[p], n)
                   /\ cursor' = [cursor EXCEPT ![p] = n]
      BY <2>9 DEF Rebalance
    <3>2. phase = "up" /\ UNCHANGED <<phase, hand, fetchCh, holding, stage, jumped, crashes>>
      BY <2>9 DEF Rebalance
    <3>3. \A m \in Messages : Safe(m) => Safe(m)'
      BY <1>0, <3>2 DEF Pushed, Safe
    <3>4. FetchedSafe'
      <4> SUFFICES ASSUME NEW m \in Messages, m[2] < cursor'[m[1]] PROVE Safe(m)' \/ m = hand
        BY <3>2 DEF FetchedSafe
      <4>1. CASE m[1] # p
        <5>1. m[2] < cursor[m[1]]
          BY <1>0, <3>1, <4>1, MessagePair DEF WorkerTypeOK
        <5> QED BY <2>0, <3>2, <3>3, <5>1 DEF FetchedSafe
      <4>2. CASE m[1] = p /\ m[2] < group[p]
        <5>1. m \in handled \cup jumped
          BY <4>2 DEF WorkerInv, OnlyFloorJumped, Passed
        <5>2. Safe(m)
          BY <2>0, <5>1 DEF JumpedSafe, Safe
        <5> QED BY <3>3, <5>2
      <4>3. CASE m[1] = p /\ ~(m[2] < group[p])
        <5>1. m[2] < n /\ group[p] <= m[2]
          BY <1>0, <3>1, <4>3, MessagePair DEF WorkerTypeOK
        <5>2. m \in Records(p, group[p], n)
          BY <4>3, <5>1 DEF Records
        <5> QED BY <3>1, <5>2 DEF Safe
      <4> QED BY <4>1, <4>2, <4>3
    <3> QED BY <2>2, <3>2, <3>4
  <2>10. ASSUME NEW p \in Partitions, Fetch(p) PROVE KeptInv'
    BY <1>2, <2>10, KeptFetch
  <2>11. ASSUME NEW i \in Processors, Take(i) \/ AckMessage(i) PROVE KeptInv'
    BY <1>2, <2>11, KeptTake, KeptAck
  <2>12. CASE Push
    BY <1>2, <2>12, KeptPush
  <2> QED BY <2>1, <2>4, <2>5, <2>6, <2>7, <2>8, <2>9, <2>10, <2>11, <2>12 DEF Next
<1> QED BY <1>1, <1>2

(* Without a crash nothing is lost: a record the group has passed was      *)
(* handled, or is in the pipeline and will be, because a stop drains the   *)
(* pipeline (kafka_manager.go:543-554), also when partitions move.         *)
THEOREM OnlyCrashesLose == Spec => []LossNeedsCrash
<1>1. Init => KeptInv
  <2> SUFFICES ASSUME Init PROVE KeptInv
    OBVIOUS
  <2>1. \A m \in Messages : m \notin {hand} \cup Pushed
    BY NoMessageAssumption DEF Init, Pushed
  <2>2. \A m \in Messages : ~(m[2] < cursor[m[1]])
    BY MessagePair DEF Init
  <2> QED BY <2>1, <2>2 DEF Init, KeptInv, IdleHoldsNothing, PredecessorsSafe, FetchedSafe, JumpedSafe
<1>2. WorkerInv /\ KeptInv => LossNeedsCrash
  <2> SUFFICES ASSUME WorkerInv, KeptInv, crashes = 0, NEW m \in Messages, Passed(m)
               PROVE  m \in handled \/ m \in InFlight
    BY DEF LossNeedsCrash, KeptInv
  <2>1. m \in handled \cup jumped
    BY DEF WorkerInv, OnlyFloorJumped
  <2>2. Safe(m)
    BY <2>1 DEF KeptInv, JumpedSafe, Safe
  <2> QED BY <2>2, NoMessageAssumption DEF Safe, Pushed, InFlight
<1> QED BY <1>1, <1>2, KeptNext, WorkerInvariant, PTL DEF Spec

-----------------------------------------------------------------------------
(* A log without gaps: no compaction, no transaction markers. *)
Gapless ==
  \A p \in Partitions : \A a, b \in Log[p] : \A n \in Nat : a <= n /\ n <= b => n \in Log[p]

(* What this worker has seen of a partition that never left it is one      *)
(* stretch of the log, and ends where the Reader is.                       *)
Seen(p) == acked[p] \cup {o \in Log[p] : <<p, o>> \in {hand} \cup Pushed}

PhaseInv ==
  /\ IdleHoldsNothing
  /\ phase \notin {"up", "cancelled"} => hand = NoMessage
  /\ phase \in {"flushing", "flushed", "down"} => ProcessorsDone
Reading(p) ==
  /\ \A a \in Seen(p) : a < cursor[p]
  /\ \A a \in Seen(p) : \A o \in Log[p] : a <= o /\ o < cursor[p] => o \in Seen(p)
  /\ hand \in Messages /\ hand[1] = p => cursor[p] = hand[2] + 1
Stretch(p) == \A a, b \in Seen(p) : \A o \in Log[p] : a <= o /\ o <= b => o \in Seen(p)
Emptied(p) == hwm[p] = NoOffset /\ pending[p] = {}
FloorAcked(p) == firstSeen[p] => floor[p] \in acked[p]

StretchInv ==
  /\ PhaseInv
  /\ \A p \in Partitions : FloorAcked(p) /\ Seen(p) \subseteq Log[p]
  /\ \A p \in Partitions \ rebalanced :
       /\ phase \in {"up", "cancelled"} => Reading(p)
       /\ phase \in {"closed", "flushing", "flushed"} => Stretch(p)
       /\ phase \in {"flushing", "flushed"} => Emptied(p)

LEMMA OffsetsAreInts ==
  ASSUME WorkerTypeOK, NEW p \in Partitions
  PROVE  cursor[p] \in Nat /\ Log[p] \subseteq Nat /\ Log[p] \subseteq Offsets
BY LogAssumption, OffsetsAssumption DEF WorkerTypeOK

(* Steps inside a phase that show the worker nothing new. *)
LEMMA StretchStays ==
  ASSUME StretchInv, PhaseInv', phase' = phase, cursor' = cursor, hand' = hand \/ hand' = NoMessage,
         \A p \in Partitions : Seen(p)' = Seen(p) /\ FloorAcked(p)',
         phase \in {"flushing", "flushed"} => \A p \in Partitions : Emptied(p) => Emptied(p)',
         rebalanced \subseteq rebalanced'
  PROVE  StretchInv'
<1>1. ASSUME NEW p \in Partitions, Reading(p) PROVE Reading(p)'
  BY <1>1, NoMessageAssumption DEF Reading
<1>2. ASSUME NEW p \in Partitions, Stretch(p) PROVE Stretch(p)'
  BY <1>2 DEF Stretch
<1> QED BY <1>1, <1>2 DEF StretchInv

LEMMA StretchFetch ==
  ASSUME WorkerInv, StretchInv, NEW p \in Partitions, Fetch(p)
  PROVE  StretchInv'
<1>1. PICK o \in Log[p] :
        /\ o >= cursor[p] /\ \A q \in Log[p] : q >= cursor[p] => o <= q
        /\ hand' = <<p, o>> /\ cursor' = [cursor EXCEPT ![p] = o + 1]
  BY DEF Fetch
<1>2. /\ hand = NoMessage /\ phase = "up" /\ WorkerTypeOK
      /\ UNCHANGED <<phase, fetchCh, holding, stage, acked, firstSeen, floor, rebalanced>>
  BY DEF Fetch, historyVars, trackerVars, WorkerInv
<1>3. Pushed' = Pushed /\ PhaseInv'
  BY <1>2 DEF Pushed, StretchInv, PhaseInv, IdleHoldsNothing
<1>o. o \in Offsets /\ o \in Nat /\ cursor[p] \in Nat /\ cursor'[p] = o + 1
  BY <1>1, <1>2, OffsetsAreInts DEF WorkerTypeOK
<1>m. \A q \in Partitions : \A x \in Log[q] : <<q, x>> \in Messages
  BY <1>2, OffsetsAreInts DEF Messages
<1>4. /\ Seen(p)' = Seen(p) \cup {o}
      /\ \A q \in Partitions : q # p => Seen(q)' = Seen(q)
  <2>1. \A q \in Partitions : \A x \in Log[q] : <<q, x>> = hand' <=> q = p /\ x = o
    BY <1>1
  <2>2. \A q \in Partitions : \A x \in Log[q] : <<q, x>> # hand
    BY <1>2, <1>m, NoMessageAssumption
  <2> QED BY <1>2, <1>3, <2>1, <2>2 DEF Seen
<1>5. ASSUME NEW q \in Partitions \ rebalanced PROVE Reading(q)'
  <2>0. Reading(q)
    BY <1>2 DEF StretchInv
  <2>1. CASE q = p
    <3>1. ASSUME NEW a \in Seen(p), NEW x \in Log[p], a <= x, x < o + 1 PROVE x \in Seen(p)'
      <4>1. x \in Nat
        BY <1>2, OffsetsAreInts
      <4>2. CASE x < cursor[p]
        BY <1>4, <2>0, <2>1, <3>1, <4>2 DEF Reading
      <4>3. CASE x >= cursor[p]
        BY <1>1, <1>4, <1>o, <3>1, <4>1, <4>3
      <4> QED BY <1>o, <4>1, <4>2, <4>3
    <3>2. ASSUME NEW x \in Log[p], o <= x, x < o + 1 PROVE x \in Seen(p)'
      <4>1. x \in Nat
        BY <1>2, OffsetsAreInts
      <4> QED BY <1>4, <1>o, <3>2, <4>1
    <3>3. ASSUME NEW a \in Seen(p) PROVE a < o + 1
      <4>1. a < cursor[p] /\ a \in Nat
        BY <1>2, <2>0, <2>1, OffsetsAreInts DEF Reading, StretchInv
      <4> QED BY <1>1, <1>o, <4>1
    <3> QED BY <1>1, <1>4, <1>o, <2>1, <3>1, <3>2, <3>3 DEF Reading
  <2>2. CASE q # p
    <3>1. cursor'[q] = cursor[q]
      BY <1>1, <1>2, <2>2 DEF WorkerTypeOK
    <3> QED BY <1>1, <1>4, <2>0, <2>2, <3>1 DEF Reading
  <2> QED BY <2>1, <2>2
<1>6. \A q \in Partitions : FloorAcked(q)' /\ Seen(q)' \subseteq Log[q]
  BY <1>2, <1>4 DEF StretchInv, FloorAcked
<1> QED BY <1>2, <1>3, <1>5, <1>6 DEF StretchInv

LEMMA LoggedMessages ==
  ASSUME WorkerTypeOK, NEW p \in Partitions, NEW o \in Log[p]
  PROVE  <<p, o>> \in Messages /\ <<p, o>> # NoMessage
BY OffsetsAreInts, NoMessageAssumption DEF Messages

LEMMA StretchPush ==
  ASSUME WorkerInv, StretchInv, Push
  PROVE  StretchInv'
<1>1. /\ fetchCh' = Append(fetchCh, hand) /\ hand' = NoMessage /\ hand \in Messages
      /\ phase \in {"up", "cancelled"} /\ fetchCh \in Seq(Messages) /\ WorkerTypeOK
      /\ UNCHANGED <<phase, cursor, holding, stage, rebalanced, acked, firstSeen, floor>>
  BY DEF Push, historyVars, trackerVars, WorkerTypeOK, WorkerInv
<1>2. Pushed' = Pushed \cup {hand}
  <2>1. /\ Len(fetchCh') = Len(fetchCh) + 1 /\ Len(fetchCh) \in Nat /\ fetchCh'[Len(fetchCh) + 1] = hand
        /\ \A k \in 1 .. Len(fetchCh) : fetchCh'[k] = fetchCh[k]
    BY <1>1
  <2>2. 1 .. Len(fetchCh') = (1 .. Len(fetchCh)) \cup {Len(fetchCh) + 1}
    BY <2>1
  <2>3. {fetchCh'[k] : k \in 1 .. Len(fetchCh')} = {fetchCh[k] : k \in 1 .. Len(fetchCh)} \cup {hand}
    BY <2>1, <2>2
  <2> QED BY <1>1, <2>3 DEF Pushed
<1>3. \A p \in Partitions : Seen(p)' = Seen(p)
  BY <1>1, <1>2, LoggedMessages DEF Seen
<1>4. PhaseInv'
  BY <1>1 DEF StretchInv, PhaseInv, IdleHoldsNothing
<1> QED BY <1>1, <1>3, <1>4, StretchStays DEF StretchInv, FloorAcked

LEMMA StretchTake ==
  ASSUME WorkerInv, StretchInv, NEW i \in Processors, Take(i)
  PROVE  StretchInv'
<1>1. /\ stage[i] = "idle" /\ fetchCh # <<>> /\ WorkerTypeOK /\ PhaseInv
      /\ holding' = [holding EXCEPT ![i] = Head(fetchCh)] /\ fetchCh' = Tail(fetchCh)
      /\ stage' = [stage EXCEPT ![i] = "taken"]
      /\ UNCHANGED <<phase, cursor, hand, rebalanced, acked, firstSeen, floor, hwm, pending>>
  BY DEF Take, historyVars, trackerVars, WorkerInv, StretchInv
<1>2. \A m \in Messages : m \in Pushed' <=> m \in Pushed
  BY <1>1, PushedByTake DEF PhaseInv
<1>3. \A p \in Partitions : Seen(p)' = Seen(p)
  BY <1>1, <1>2, LoggedMessages DEF Seen
<1>4. PhaseInv'
  BY <1>1 DEF PhaseInv, IdleHoldsNothing, WorkerTypeOK, ProcessorsDone
<1> QED BY <1>1, <1>3, <1>4, StretchStays DEF StretchInv, FloorAcked, Emptied

LEMMA StretchAck ==
  ASSUME WorkerInv, StretchInv, NEW i \in Processors, AckMessage(i)
  PROVE  StretchInv'
<1> DEFINE p == holding[i][1]
           o == holding[i][2]
<1>1. /\ stage[i] = "processed" /\ WorkerTypeOK /\ PhaseInv /\ TrackerTypeOK /\ Ack(p, o)
      /\ holding' = [holding EXCEPT ![i] = NoMessage] /\ stage' = [stage EXCEPT ![i] = "idle"]
      /\ UNCHANGED <<phase, cursor, hand, fetchCh, rebalanced>>
  BY DEF AckMessage, WorkerInv, StretchInv, TrackerInv
<1>2. /\ holding[i] \in Messages /\ p \in Partitions /\ o \in Log[p] /\ holding[i] = <<p, o>>
      /\ holding[i] \in Pushed
  BY <1>1, MessagePair DEF WorkerInv, PipelineInv, Messages, Pushed
<1>3. /\ acked' = [acked EXCEPT ![p] = @ \cup {o}] /\ firstSeen' = [firstSeen EXCEPT ![p] = TRUE]
      /\ floor' = IF firstSeen[p] THEN floor ELSE [floor EXCEPT ![p] = o]
  BY <1>1 DEF Ack
<1>4. ASSUME NEW m \in Messages
      PROVE  /\ m \in Pushed => m \in Pushed' \/ m = holding[i]
             /\ m \in Pushed' => m \in Pushed
  <2>1. holding'[i] = NoMessage /\ \A j \in Processors : j # i => holding'[j] = holding[j]
    BY <1>1 DEF WorkerTypeOK
  <2> QED BY <1>1, <2>1, NoMessageAssumption DEF Pushed
<1>5. \A q \in Partitions : Seen(q)' = Seen(q)
  <2>1. acked'[p] = acked[p] \cup {o} /\ \A q \in Partitions : q # p => acked'[q] = acked[q]
    BY <1>1, <1>2, <1>3 DEF TrackerTypeOK
  <2> SUFFICES ASSUME NEW q \in Partitions, NEW x \in Log[q] \cup acked[q]
               PROVE  x \in Seen(q)' <=> x \in Seen(q)
    BY <1>2, <2>1 DEF Seen
  <2>2. CASE x \in acked[q]
    BY <2>1, <2>2 DEF Seen
  <2>3. CASE x \in Log[q]
    <3>1. <<q, x>> \in Messages
      BY <1>1, <2>3, LoggedMessages
    <3> QED BY <1>1, <1>2, <1>4, <2>1, <2>3, <3>1 DEF Seen
  <2> QED BY <2>2, <2>3
<1>6. \A q \in Partitions : FloorAcked(q)'
  BY <1>1, <1>2, <1>3 DEF StretchInv, FloorAcked, TrackerTypeOK
<1>7. PhaseInv' /\ phase \notin {"flushing", "flushed"}
  BY <1>1 DEF PhaseInv, IdleHoldsNothing, WorkerTypeOK, ProcessorsDone
<1> QED BY <1>1, <1>5, <1>6, <1>7, StretchStays

(* The fetcher drops what it holds: the end of the stretch, at most. *)
LEMMA StretchExit ==
  ASSUME WorkerInv, StretchInv, FetcherExit
  PROVE  StretchInv'
<1>1. /\ phase = "cancelled" /\ phase' = "closed" /\ hand' = NoMessage /\ WorkerTypeOK /\ PhaseInv
      /\ UNCHANGED <<cursor, fetchCh, holding, stage, rebalanced, acked, firstSeen, floor>>
  BY DEF FetcherExit, historyVars, trackerVars, WorkerInv, StretchInv
<1>2. Pushed' = Pushed
  BY <1>1 DEF Pushed
<1>3. PhaseInv'
  BY <1>1 DEF PhaseInv, IdleHoldsNothing
<1>4. ASSUME NEW p \in Partitions
      PROVE  /\ Seen(p)' \subseteq Seen(p)
             /\ \A o \in Seen(p) : o \in Seen(p)' \/ (hand \in Messages /\ hand[1] = p /\ hand[2] = o)
  <2>1. Seen(p)' \subseteq Seen(p)
    BY <1>1, <1>2, LoggedMessages DEF Seen
  <2>2. ASSUME NEW o \in Seen(p), o \notin Seen(p)'
        PROVE  hand \in Messages /\ hand[1] = p /\ hand[2] = o
    <3>1. o \in Log[p] /\ <<p, o>> = hand
      BY <1>1, <1>2, <2>2 DEF Seen
    <3> QED BY <1>1, <3>1, LoggedMessages
  <2> QED BY <2>1, <2>2
<1>5. ASSUME NEW p \in Partitions \ rebalanced PROVE Stretch(p)'
  <2> SUFFICES ASSUME NEW a \in Seen(p)', NEW b \in Seen(p)', NEW o \in Log[p], a <= o, o <= b
               PROVE  o \in Seen(p)'
    BY DEF Stretch
  <2>0. Reading(p)
    BY <1>1 DEF StretchInv
  <2>1. a \in Seen(p) /\ b \in Seen(p) /\ o \in Nat /\ b \in Nat /\ a \in Nat /\ cursor[p] \in Nat
    BY <1>1, <1>4, OffsetsAreInts DEF StretchInv
  <2>2. b < cursor[p] /\ o \in Seen(p)
    BY <2>0, <2>1 DEF Reading
  <2>3. CASE hand \in Messages /\ hand[1] = p /\ hand[2] = o
    <3>1. cursor[p] = o + 1
      BY <2>0, <2>3 DEF Reading
    <3>2. b = o
      BY <2>1, <2>2, <3>1
    <3> QED BY <3>2
  <2> QED BY <1>4, <2>2, <2>3
<1>6. \A p \in Partitions : FloorAcked(p)' /\ Seen(p)' \subseteq Log[p]
  BY <1>1, <1>4 DEF StretchInv, FloorAcked
<1> QED BY <1>1, <1>3, <1>5, <1>6 DEF StretchInv

(* The final pass comes when all that was seen is acked: a stretch without *)
(* gaps, whose top the tracker knows.                                      *)
LEMMA StretchFinal ==
  ASSUME Gapless, WorkerInv, StretchInv, FinalDrain
  PROVE  StretchInv'
<1>1. /\ phase = "closed" /\ phase' \in {"flushing", "flushed"} /\ ProcessorsDone /\ DrainCommittable
      /\ UNCHANGED <<cursor, hand, fetchCh, holding, stage, rebalanced>>
      /\ WorkerTypeOK /\ PhaseInv /\ hand = NoMessage /\ TrackerInv
  BY DEF FinalDrain, historyVars, WorkerInv, StretchInv, PhaseInv
<1>2. /\ hwm' = [p \in Partitions |-> NoOffset]
      /\ UNCHANGED <<pending, firstSeen, acked, floor>>
  BY <1>1 DEF DrainCommittable
<1>3. PhaseInv' /\ \A p \in Partitions : Seen(p)' = Seen(p)
  BY <1>1, <1>2 DEF PhaseInv, IdleHoldsNothing, ProcessorsDone, Seen, Pushed
<1>4. \A p \in Partitions : Seen(p) = acked[p]
  <2>1. \A m \in Messages : m \notin Pushed
    BY <1>1, NoMessageAssumption DEF ProcessorsDone, PhaseInv, IdleHoldsNothing, Pushed
  <2> QED BY <1>1, <2>1, LoggedMessages DEF Seen
<1>5. ASSUME NEW p \in Partitions \ rebalanced PROVE pending[p] = {}
  <2>1. CASE ~firstSeen[p]
    BY <1>1, <2>1 DEF TrackerInv, FreshPartition
  <2>2. CASE firstSeen[p]
    <3>1. /\ TrackedPartition(p) /\ floor[p] \in acked[p] /\ acked[p] \subseteq Log[p]
          /\ Top(p) \in Int /\ floor[p] \in Nat
      BY <1>1, <1>4, <2>2 DEF TrackerInv, StretchInv, FloorAcked, TrackedPartition, TrackerTypeOK, Top, NoOffset
    <3>2. Top(p) >= floor[p]
      <4>1. Top(p) >= floor[p] - 1
        BY <1>1, <3>1 DEF TrackedPartition, TrackerInv, TrackerTypeOK, Top, NoOffset
      <4>2. Top(p) # floor[p] - 1
        BY <3>1 DEF TrackedPartition
      <4> QED BY <3>1, <4>1, <4>2
    <3>3. ASSUME NEW o \in acked[p], o > Top(p) PROVE FALSE
      <4>1. o \in Nat /\ o \in Log[p] /\ floor[p] \in Log[p]
        BY <1>1, <3>1, OffsetsAreInts
      <4>2. Top(p) + 1 \in Nat /\ floor[p] <= Top(p) + 1 /\ Top(p) + 1 <= o
        BY <3>1, <3>2, <3>3, <4>1
      <4>3. Top(p) + 1 \in Log[p]
        BY <4>1, <4>2 DEF Gapless
      <4>4. Top(p) + 1 \in acked[p]
        BY <1>1, <1>4, <3>1, <4>2, <4>3 DEF StretchInv, Stretch
      <4> QED BY <3>1, <4>4 DEF TrackedPartition
    <3> QED BY <3>1, <3>3 DEF TrackedPartition
  <2> QED BY <2>1, <2>2
<1>6. ASSUME NEW p \in Partitions \ rebalanced PROVE Stretch(p)' /\ Emptied(p)'
  <2>1. Stretch(p)'
    BY <1>1, <1>3 DEF StretchInv, Stretch
  <2> QED BY <1>2, <1>5, <2>1 DEF Emptied
<1>7. \A p \in Partitions : FloorAcked(p)' /\ Seen(p)' \subseteq Log[p]
  BY <1>2, <1>3 DEF StretchInv, FloorAcked
<1> QED BY <1>1, <1>3, <1>6, <1>7 DEF StretchInv

LEMMA StretchStart ==
  ASSUME WorkerInv, StretchInv, Start
  PROVE  StretchInv'
<1>1. /\ phase = "down" /\ phase' = "up" /\ PhaseInv /\ ProcessorsDone /\ WorkerTypeOK
      /\ NewTracker /\ UNCHANGED <<hand, fetchCh, holding, stage, rebalanced>> /\ hand = NoMessage
  BY DEF Start, historyVars, WorkerInv, StretchInv, PhaseInv
<1>2. \A p \in Partitions : acked'[p] = {} /\ firstSeen'[p] = FALSE
  BY <1>1 DEF NewTracker
<1>3. \A m \in Messages : m \notin Pushed'
  BY <1>1, NoMessageAssumption DEF ProcessorsDone, PhaseInv, IdleHoldsNothing, Pushed
<1>4. \A p \in Partitions : Seen(p)' = {}
  BY <1>1, <1>2, <1>3, LoggedMessages DEF Seen
<1>5. PhaseInv' /\ \A p \in Partitions : FloorAcked(p)'
  BY <1>1, <1>2 DEF PhaseInv, IdleHoldsNothing, FloorAcked
<1>6. \A p \in Partitions : Reading(p)'
  BY <1>1, <1>4, NoMessageAssumption DEF Reading
<1> QED BY <1>1, <1>4, <1>5, <1>6 DEF StretchInv

LEMMA StretchInit == Init => StretchInv
<1> SUFFICES ASSUME Init PROVE StretchInv
  OBVIOUS
<1>0. WorkerTypeOK
  BY InitWorkerInv DEF WorkerInv
<1>1. \A p \in Partitions : Seen(p) = {}
  <2>1. \A m \in Messages : m \notin {hand} \cup Pushed
    BY NoMessageAssumption DEF Init, Pushed
  <2>2. \A p \in Partitions : acked[p] = {}
    BY DEF Init, InitTracker
  <2> QED BY <1>0, <2>1, <2>2, LoggedMessages DEF Seen
<1>2. PhaseInv /\ \A p \in Partitions : FloorAcked(p) /\ Reading(p)
  BY <1>1, NoMessageAssumption DEF Init, InitTracker, PhaseInv, IdleHoldsNothing, FloorAcked, Reading
<1> QED BY <1>1, <1>2 DEF Init, StretchInv

LEMMA StretchNext ==
  ASSUME Gapless
  PROVE  WorkerInv /\ StretchInv /\ [Next]_vars => StretchInv'
<1> SUFFICES ASSUME WorkerInv, StretchInv, [Next]_vars PROVE StretchInv'
  OBVIOUS
<1>0. WorkerTypeOK /\ PhaseInv /\ CommittersQuiet
  BY DEF WorkerInv, StretchInv
<1>1. ASSUME UNCHANGED <<hand, fetchCh, holding, acked>>
      PROVE  \A p \in Partitions : Seen(p)' = Seen(p)
  BY <1>1 DEF Seen, Pushed
<1>2. ASSUME NEW i \in Processors, Handle(i) PROVE StretchInv'
  <2>1. /\ stage[i] = "taken" /\ stage' = [stage EXCEPT ![i] = "processed"]
        /\ UNCHANGED <<phase, cursor, hand, fetchCh, holding, rebalanced, trackerVars>>
    BY <1>2 DEF Handle
  <2>2. PhaseInv'
    BY <1>0, <2>1 DEF PhaseInv, IdleHoldsNothing, WorkerTypeOK, ProcessorsDone
  <2> QED BY <1>1, <2>1, <2>2, StretchStays DEF StretchInv, FloorAcked, Emptied, trackerVars
<1>3. CASE TickDrain
  <2>1. /\ UNCHANGED <<pipelineVars, rebalanced, acked, firstSeen, floor, pending>>
        /\ hwm' = [p \in Partitions |-> NoOffset]
    BY <1>3 DEF TickDrain, DrainCommittable, historyVars
  <2>2. PhaseInv'
    BY <1>0, <2>1 DEF PhaseInv, IdleHoldsNothing, ProcessorsDone, pipelineVars
  <2> QED BY <1>1, <2>1, <2>2, StretchStays DEF StretchInv, FloorAcked, Emptied, pipelineVars
<1>4. ASSUME UNCHANGED <<trackerVars, cursor, hand, fetchCh, holding, stage, rebalanced>>,
             \/ phase' = phase
             \/ phase' = "down" /\ ProcessorsDone /\ hand = NoMessage
             \/ phase = "up" /\ phase' = "cancelled"
             \/ phase = "flushing" /\ phase' = "flushed"
      PROVE  StretchInv'
  <2>1. \A p \in Partitions :
          /\ Seen(p)' = Seen(p) /\ FloorAcked(p)' = FloorAcked(p) /\ Reading(p)' = Reading(p)
          /\ Stretch(p)' = Stretch(p) /\ Emptied(p)' = Emptied(p)
    BY <1>1, <1>4 DEF FloorAcked, Reading, Stretch, Emptied, trackerVars
  <2>2. PhaseInv'
    BY <1>0, <1>4 DEF PhaseInv, IdleHoldsNothing, ProcessorsDone
  <2> QED BY <1>4, <2>1, <2>2 DEF StretchInv
<1>5. ASSUME NEW c \in Committers, Ship(c) \/ ShipFails(c) PROVE StretchInv'
  <2>1. c = "final" => phase = "flushing"
    BY <1>0, <1>5 DEF CommittersQuiet, Ship, ShipFails
  <2>2. /\ UNCHANGED <<trackerVars, cursor, hand, fetchCh, holding, stage, rebalanced>>
        /\ phase' = IF c = "final" THEN "flushed" ELSE phase
    BY <1>5 DEF Ship, ShipFails, historyVars
  <2> QED BY <1>4, <2>1, <2>2
<1>6. CASE Cancel \/ WorkerDone \/ UNCHANGED vars
  <2>1. UNCHANGED <<trackerVars, cursor, hand, fetchCh, holding, stage, rebalanced>>
    BY <1>6 DEF Cancel, WorkerDone, vars, pipelineVars, historyVars
  <2>2. \/ phase' = phase
        \/ phase' = "down" /\ ProcessorsDone /\ hand = NoMessage
        \/ phase = "up" /\ phase' = "cancelled"
    BY <1>0, <1>6 DEF Cancel, WorkerDone, vars, pipelineVars, PhaseInv
  <2> QED BY <1>4, <2>1, <2>2
<1>7. CASE Crash
  <2>1. /\ phase' = "down" /\ hand' = NoMessage /\ fetchCh' = <<>> /\ rebalanced' = rebalanced
        /\ \A i \in Processors : holding'[i] = NoMessage /\ stage'[i] = "idle"
        /\ UNCHANGED <<acked, firstSeen, floor>>
    BY <1>7 DEF Crash, trackerVars
  <2>2. PhaseInv'
    BY <2>1 DEF PhaseInv, IdleHoldsNothing, ProcessorsDone
  <2>3. \A m \in Messages : m \notin {hand'} \cup Pushed'
    BY <2>1, NoMessageAssumption DEF Pushed
  <2>4. \A p \in Partitions : Seen(p)' \subseteq Seen(p)
    BY <1>0, <2>1, <2>3, LoggedMessages DEF Seen
  <2> QED BY <2>1, <2>2, <2>4 DEF StretchInv, FloorAcked
<1>8. ASSUME NEW p \in Partitions, Rebalance(p) PROVE StretchInv'
  <2>1. /\ UNCHANGED <<trackerVars, phase, hand, fetchCh, holding, stage>> /\ phase = "up"
        /\ rebalanced' = rebalanced \cup {p}
        /\ \A q \in Partitions : q # p => cursor'[q] = cursor[q]
    BY <1>0, <1>8 DEF Rebalance, WorkerTypeOK
  <2>2. \A q \in Partitions : Seen(q)' = Seen(q) /\ FloorAcked(q)' = FloorAcked(q)
    BY <1>1, <2>1 DEF FloorAcked, trackerVars
  <2>3. \A q \in Partitions : q # p => Reading(q)' = Reading(q)
    BY <2>1, <2>2 DEF Reading
  <2>4. PhaseInv'
    BY <1>0, <2>1 DEF PhaseInv, IdleHoldsNothing
  <2> QED BY <2>1, <2>2, <2>3, <2>4 DEF StretchInv
<1>9. ASSUME NEW p \in Partitions, Fetch(p) PROVE StretchInv'
  BY <1>9, StretchFetch
<1>10. ASSUME NEW i \in Processors, Take(i) \/ AckMessage(i) PROVE StretchInv'
  BY <1>10, StretchTake, StretchAck
<1>11. CASE Push \/ FetcherExit \/ FinalDrain \/ Start
  BY <1>11, StretchPush, StretchExit, StretchFinal, StretchStart
<1> QED BY <1>2, <1>3, <1>5, <1>6, <1>7, <1>8, <1>9, <1>10, <1>11 DEF Next

(* The last synchronous commit of runWorker (kafka_manager.go:497-503):    *)
(* on a log without gaps the tracker is empty after it, in any order of    *)
(* acks, unless the partition has been away.                               *)
THEOREM FinalFlushEmpties == ASSUME Gapless PROVE Spec => []FlushLeavesNothing
<1>1. StretchInv => FlushLeavesNothing
  BY DEF StretchInv, FlushLeavesNothing, Emptied
<1>2. Init => StretchInv
  BY StretchInit
<1>3. WorkerInv /\ StretchInv /\ [Next]_vars => StretchInv'
  BY StretchNext
<1> QED BY <1>1, <1>2, <1>3, WorkerInvariant, PTL DEF Spec

(* Seen through its tracker, a worker with its stops, crashes and new      *)
(* trackers does what the commit contract allows.                          *)
THEOREM WorkerKeepsContract == Spec => KeepsCommitContract
  <1>1. Init => InitTracker
    BY DEF Init
  <1>2. Spec => TrackerSpec
    BY <1>1, WorkerInvariant, WorkerTrackerStep, PTL DEF Spec, TrackerSpec
  <1>3. QED
    BY <1>2, TrackerRefines
=============================================================================
