---------------------------- MODULE KafkaWorker -----------------------------
(***************************************************************************)
(* One Kafka worker of internal/ingestion/kafka_manager.go: the fetcher,   *)
(* the bounded channel, the pool of processors and the two goroutines that *)
(* commit (the ticker and the shutdown pass), around one partitionTracker, *)
(* with the broker they talk to.  The worker may be stopped and started    *)
(* again, may crash, and may lose a partition to another member of the     *)
(* consumer group and get it back.                                         *)
(*                                                                         *)
(* A message is its partition and offset.  Filtering, mapping and the      *)
(* alert pipeline are one step, "handling": all that matters here is       *)
(* whether it was completed.                                               *)
(***************************************************************************)
EXTENDS PartitionTracker, Sequences, FiniteSets

CONSTANTS Log,            \* Log[p]: the offsets of partition p that hold a record
          Processors,     \* the processor goroutines (processConcurrency of them)
          ChannelDepth,   \* fetchChannelDepth
          NoMessage,
          MaxStops, MaxCrashes, MaxRebalances, MaxCommitFailures   \* bounds of the model

ASSUME LogAssumption == Log \in [Partitions -> SUBSET Offsets]
ASSUME DepthAssumption == ChannelDepth \in Nat \ {0}

Messages == {m \in Partitions \X Offsets : m[2] \in Log[m[1]]}
Committers == {"ticker", "final"}
Phases == {"up", "cancelled", "closed", "flushing", "flushed", "down"}

ASSUME NoMessageAssumption == NoMessage \notin Messages

VARIABLES phase,     \* where runWorker is; "down" when there is no worker
          cursor,    \* cursor[p]: the offset the Reader fetches next
          hand,      \* the message the fetcher holds before the channel
          fetchCh,   \* the channel
          holding,   \* holding[i]: the message processor i works on
          stage,     \* stage[i]: "idle", "taken", or "processed" but not acked
          shipping,  \* shipping[c]: what committer c drained and has not shipped
          group,     \* group[p]: broker side, the offset the group reads next
          handled,   \* history: messages whose handling completed somewhere
          jumped,    \* history: records a first ack put below the floor unhandled
          rebalanced,  \* partitions that went to another member and came back
          unshipped,   \* history: commits that failed, as (partition, offset)
          stops, crashes, failures

pipelineVars == <<phase, cursor, hand, fetchCh, holding, stage>>
historyVars == <<handled, jumped, rebalanced, unshipped, stops, crashes, failures>>
vars == <<trackerVars, pipelineVars, shipping, group, historyVars>>

NothingToShip == [p \in Partitions |-> NoOffset]
Idle(c) == shipping[c] = NothingToShip
ProcessorsDone == fetchCh = <<>> /\ \A i \in Processors : stage[i] = "idle"

(* The records of p in from .. to-1. *)
Records(p, from, to) == {m \in Messages : m[1] = p /\ from <= m[2] /\ m[2] < to}

InFlight == ({hand} \cup {fetchCh[k] : k \in 1 .. Len(fetchCh)}
               \cup {holding[i] : i \in Processors}) \ {NoMessage}

Init ==
  /\ InitTracker
  /\ hand = NoMessage /\ fetchCh = <<>>
  /\ holding = [i \in Processors |-> NoMessage]
  /\ stage = [i \in Processors |-> "idle"]
  /\ shipping = [c \in Committers |-> NothingToShip]
  /\ phase = "up"
  /\ cursor = [p \in Partitions |-> 0]
  /\ group = [p \in Partitions |-> 0]
  /\ handled = {} /\ jumped = {} /\ rebalanced = {} /\ unshipped = {}
  /\ stops = 0 /\ crashes = 0 /\ failures = 0

-----------------------------------------------------------------------------
(* fetcherLoop *)

Fetch(p) ==
  /\ phase = "up" /\ hand = NoMessage
  /\ \E o \in Log[p] :
       /\ o >= cursor[p]
       /\ \A q \in Log[p] : q >= cursor[p] => o <= q
       /\ hand' = <<p, o>>
       /\ cursor' = [cursor EXCEPT ![p] = o + 1]
  /\ UNCHANGED <<trackerVars, phase, fetchCh, holding, stage, shipping, group, historyVars>>

(* The select may take the send even after the context is cancelled. *)
Push ==
  /\ phase \in {"up", "cancelled"} /\ hand # NoMessage
  /\ Len(fetchCh) < ChannelDepth
  /\ fetchCh' = Append(fetchCh, hand)
  /\ hand' = NoMessage
  /\ UNCHANGED <<trackerVars, phase, cursor, holding, stage, shipping, group, historyVars>>

(* ctx.Done: a message in hand is dropped, unacked; the channel is closed. *)
FetcherExit ==
  /\ phase = "cancelled"
  /\ phase' = "closed"
  /\ hand' = NoMessage
  /\ UNCHANGED <<trackerVars, cursor, fetchCh, holding, stage, shipping, group, historyVars>>

-----------------------------------------------------------------------------
(* processorLoop: every path through it ends in an Ack of the message. *)

Take(i) ==
  /\ stage[i] = "idle" /\ fetchCh # <<>>
  /\ holding' = [holding EXCEPT ![i] = Head(fetchCh)]
  /\ stage' = [stage EXCEPT ![i] = "taken"]
  /\ fetchCh' = Tail(fetchCh)
  /\ UNCHANGED <<trackerVars, phase, cursor, hand, shipping, group, historyVars>>

(* Mutant: once limiter.Wait fails, messages are acked without handling. *)
Handle_SkipsWhenCancelled(i) ==
  /\ stage[i] = "taken"
  /\ stage' = [stage EXCEPT ![i] = "processed"]
  /\ handled' = IF phase = "up" THEN handled \cup {holding[i]} ELSE handled
  /\ UNCHANGED <<trackerVars, phase, cursor, hand, fetchCh, holding, shipping, group,
                 jumped, rebalanced, unshipped, stops, crashes, failures>>

Handle(i) ==
  /\ stage[i] = "taken"
  /\ stage' = [stage EXCEPT ![i] = "processed"]
  /\ handled' = handled \cup {holding[i]}
  /\ UNCHANGED <<trackerVars, phase, cursor, hand, fetchCh, holding, shipping, group,
                 jumped, rebalanced, unshipped, stops, crashes, failures>>

(* Mutant: the message is acked before it has been handled. *)
AckMessage_Early(i) ==
  /\ stage[i] = "taken"
  /\ Ack(holding[i][1], holding[i][2])
  /\ stage' = [stage EXCEPT ![i] = "idle"]
  /\ holding' = [holding EXCEPT ![i] = NoMessage]
  /\ handled' = handled \cup {holding[i]}
  /\ UNCHANGED <<phase, cursor, hand, fetchCh, shipping, group,
                 jumped, rebalanced, unshipped, stops, crashes, failures>>

(* Mutant: a path through processorLoop that ends without an ack. *)
AckMessage_Forgotten(i) ==
  /\ stage[i] = "processed"
  /\ stage' = [stage EXCEPT ![i] = "idle"]
  /\ holding' = [holding EXCEPT ![i] = NoMessage]
  /\ UNCHANGED <<trackerVars, phase, cursor, hand, fetchCh, shipping, group, historyVars>>

(* The first ack of a partition also decides which records fall below the  *)
(* floor; those that are not handled yet are remembered in jumped.         *)
AckMessage(i) ==
  LET p == holding[i][1]  o == holding[i][2] IN
  /\ stage[i] = "processed"
  /\ Ack(p, o)
  /\ stage' = [stage EXCEPT ![i] = "idle"]
  /\ holding' = [holding EXCEPT ![i] = NoMessage]
  /\ jumped' = IF firstSeen[p] THEN jumped
               ELSE jumped \cup (Records(p, 0, o) \ handled)
  /\ UNCHANGED <<phase, cursor, hand, fetchCh, shipping, group,
                 handled, rebalanced, unshipped, stops, crashes, failures>>

-----------------------------------------------------------------------------
(* committerLoop, flushCommits and the tail of runWorker *)

TickDrain ==
  /\ phase # "down" /\ Idle("ticker")
  /\ Committable # NothingToShip
  /\ DrainCommittable
  /\ shipping' = [shipping EXCEPT !["ticker"] = Committable]
  /\ UNCHANGED <<pipelineVars, group, historyVars>>

(* The drained offsets reach the broker in one CommitMessages request. *)
Ship(c) ==
  /\ ~Idle(c)
  /\ group' = [p \in Partitions |->
                 IF shipping[c][p] = NoOffset THEN group[p] ELSE shipping[c][p] + 1]
  /\ shipping' = [shipping EXCEPT ![c] = NothingToShip]
  /\ phase' = IF c = "final" THEN "flushed" ELSE phase
  /\ UNCHANGED <<trackerVars, cursor, hand, fetchCh, holding, stage, historyVars>>

(* CommitMessages returns an error: it is logged, the offsets are gone.    *)
ShipFails(c) ==
  /\ ~Idle(c) /\ failures < MaxCommitFailures
  /\ failures' = failures + 1
  /\ unshipped' = unshipped \cup
       {<<p, shipping[c][p]>> : p \in {q \in Partitions : shipping[c][q] # NoOffset}}
  /\ shipping' = [shipping EXCEPT ![c] = NothingToShip]
  /\ phase' = IF c = "final" THEN "flushed" ELSE phase
  /\ UNCHANGED <<trackerVars, cursor, hand, fetchCh, holding, stage, group,
                 handled, jumped, rebalanced, stops, crashes>>

(* stopGroupLocked or shutdown cancels the worker's context. *)
Cancel ==
  /\ phase = "up" /\ stops < MaxStops
  /\ phase' = "cancelled"
  /\ stops' = stops + 1
  /\ UNCHANGED <<trackerVars, cursor, hand, fetchCh, holding, stage, shipping, group,
                 handled, jumped, rebalanced, unshipped, crashes, failures>>

(* Mutant: the final pass as soon as the fetcher is gone. *)
FinalDrain_NoWait ==
  /\ phase = "closed"
  /\ DrainCommittable
  /\ shipping' = [shipping EXCEPT !["final"] = Committable]
  /\ phase' = IF Committable = NothingToShip THEN "flushed" ELSE "flushing"
  /\ UNCHANGED <<cursor, hand, fetchCh, holding, stage, group, historyVars>>

(* The final pass, after fetcherWG.Wait and processorsWG.Wait. *)
FinalDrain ==
  /\ phase = "closed" /\ ProcessorsDone
  /\ DrainCommittable
  /\ shipping' = [shipping EXCEPT !["final"] = Committable]
  /\ phase' = IF Committable = NothingToShip THEN "flushed" ELSE "flushing"
  /\ UNCHANGED <<cursor, hand, fetchCh, holding, stage, group, historyVars>>

(* committerWG.Wait, close(w.done), Reader.Close. *)
WorkerDone ==
  /\ phase = "flushed" /\ Idle("ticker")
  /\ phase' = "down"
  /\ UNCHANGED <<trackerVars, cursor, hand, fetchCh, holding, stage, shipping, group, historyVars>>

(* spawnReaderGroup: a new Reader and a new tracker; the Reader starts at  *)
(* the offset the broker holds for the group.                              *)
Start ==
  /\ phase = "down"
  /\ phase' = "up"
  /\ NewTracker
  /\ cursor' = group
  /\ UNCHANGED <<hand, fetchCh, holding, stage, shipping, group, historyVars>>

Crash ==
  /\ phase # "down" /\ crashes < MaxCrashes
  /\ crashes' = crashes + 1
  /\ phase' = "down"
  /\ hand' = NoMessage /\ fetchCh' = <<>>
  /\ holding' = [i \in Processors |-> NoMessage]
  /\ stage' = [i \in Processors |-> "idle"]
  /\ shipping' = [c \in Committers |-> NothingToShip]
  /\ UNCHANGED <<trackerVars, cursor, group, handled, jumped, rebalanced, unshipped, stops, failures>>

(* Partition p goes to another member, which handles and commits up to n,  *)
(* and comes back; the Reader resumes at the group's offset.  What is in   *)
(* the pipeline, and the tracker, stay as they are.                        *)
Rebalance(p) ==
  /\ phase = "up" /\ Cardinality(rebalanced) < MaxRebalances /\ p \notin rebalanced
  /\ \E n \in {group[p]} \cup {m[2] + 1 : m \in {q \in Messages : q[1] = p /\ q[2] >= group[p]}} :
       /\ handled' = handled \cup Records(p, group[p], n)
       /\ group' = [group EXCEPT ![p] = n]
       /\ cursor' = [cursor EXCEPT ![p] = n]
  /\ rebalanced' = rebalanced \cup {p}
  /\ UNCHANGED <<trackerVars, phase, hand, fetchCh, holding, stage, shipping,
                 jumped, unshipped, stops, crashes, failures>>

Next ==
  \/ \E p \in Partitions : Fetch(p) \/ Rebalance(p)
  \/ Push \/ FetcherExit
  \/ \E i \in Processors : Take(i) \/ Handle(i) \/ AckMessage(i)
  \/ TickDrain \/ FinalDrain
  \/ \E c \in Committers : Ship(c) \/ ShipFails(c)
  \/ Cancel \/ WorkerDone \/ Start \/ Crash

Spec == Init /\ [][Next]_vars

(* Goroutines that can run do run; the ticker ticks; a stopped or crashed  *)
(* worker is started again.  Nothing forces failures, stops or rebalances. *)
Fairness ==
  /\ \A p \in Partitions : WF_vars(Fetch(p))
  /\ WF_vars(Push) /\ WF_vars(FetcherExit)
  /\ \A i \in Processors : WF_vars(Take(i)) /\ WF_vars(Handle(i)) /\ WF_vars(AckMessage(i))
  /\ WF_vars(TickDrain) /\ WF_vars(FinalDrain)
  /\ \A c \in Committers : WF_vars(Ship(c) \/ ShipFails(c))
  /\ WF_vars(WorkerDone) /\ WF_vars(Start)

FairSpec == Spec /\ Fairness

-----------------------------------------------------------------------------
WorkerTypeOK ==
  /\ phase \in Phases
  /\ cursor \in [Partitions -> Nat]
  /\ hand \in Messages \cup {NoMessage}
  /\ fetchCh \in Seq(Messages)
  /\ holding \in [Processors -> Messages \cup {NoMessage}]
  /\ stage \in [Processors -> {"idle", "taken", "processed"}]
  /\ shipping \in [Committers -> [Partitions -> Nat \cup {NoOffset}]]
  /\ group \in [Partitions -> Nat]
  /\ handled \subseteq Messages /\ jumped \subseteq Messages
  /\ rebalanced \subseteq Partitions
  /\ unshipped \subseteq Partitions \X Nat
  /\ stops \in Nat /\ crashes \in Nat /\ failures \in Nat

(* Types of every variable, the channel within its capacity, and the       *)
(* tracker's own invariant.                                                *)
TypeOK == TrackerInv /\ WorkerTypeOK /\ Len(fetchCh) <= ChannelDepth

(* What the broker will never deliver to this group again. *)
Passed(m) == m[2] < group[m[1]]

(* partition_tracker.go:9-15 says the committer is only given offsets      *)
(* whose entire prefix has been acked, so that a crash cannot drop a       *)
(* record.  NOT an invariant: the floor is where the first ack happens to  *)
(* be, not where the Reader started.                                       *)
CommittedPrefixHandled == \A m \in Messages : Passed(m) => m \in handled \/ m \in InFlight

(* The header's promise as the code keeps it: the group offset passes an   *)
(* unhandled record only if that record was jumped by a first ack.         *)
OnlyFloorJumped == \A m \in Messages : Passed(m) => m \in handled \cup jumped

(* A jumped record is still on its way through the pipeline, and a stop    *)
(* drains the pipeline: only a crash can lose it.                          *)
LossNeedsCrash ==
  \A m \in Messages : Passed(m) => m \in handled \/ m \in InFlight \/ crashes > 0

(* The final pass of runWorker leaves nothing behind in the tracker: what  *)
(* was acked is drained, and no ack still waits for a predecessor, unless  *)
(* the partition has been away.                                            *)
FlushLeavesNothing ==
  phase = "flushed" =>
    \A p \in Partitions \ rebalanced : hwm[p] = NoOffset /\ pending[p] = {}

(* The offset after the last record of p. *)
LogEnd(p) == IF Log[p] = {} THEN 0
             ELSE (CHOOSE o \in Log[p] : \A q \in Log[p] : q <= o) + 1

(* Every record is handled, unless a crash lost it below the floor, and    *)
(* the group offset reaches the end of the log, unless the commit that     *)
(* would take it there failed or the partition has been away.              *)
CatchesUp ==
  <>[](\A p \in Partitions \ rebalanced :
         /\ Records(p, 0, LogEnd(p)) \subseteq handled \cup jumped
         /\ group[p] = LogEnd(p) \/ unshipped # {})

(* kafka_manager.go:595-597: as every path acks, the committed offset of a *)
(* partition does not stall while its records are being consumed.          *)
NoCommitStall ==
  \A p \in Partitions : <>[](group[p] = LogEnd(p))
=============================================================================
