------------------------- MODULE RepeatCadenceProofs -------------------------
(***************************************************************************)
(* Proofs about RepeatSchedule and RepeatCadence, for every schedule,      *)
(* ladder, number of replicas and bound.                                   *)
(***************************************************************************)
EXTENDS RepeatCadence, TLAPS

(* What the default schedule satisfies and the parser does not check: the  *)
(* head ascends, and the cap, if there is one, is not below it.            *)
Ascending ==
  /\ \A m, n \in 1 .. Len(IntervalSequence) :
       m <= n => IntervalSequence[m] <= IntervalSequence[n]
  /\ IntervalMax > 0 =>
       \A n \in 1 .. Len(IntervalSequence) : IntervalSequence[n] <= IntervalMax

LEMMA TimesMonotone ==
  ASSUME NEW a \in Int, NEW b \in Int, NEW s \in Nat, a <= b
  PROVE  a * s <= b * s
  OBVIOUS

(* computeInterval (service.go:512-516): whatever the schedule, an         *)
(* interval is a positive number of minutes.                               *)
THEOREM IntervalPositive ==
  ASSUME NEW n \in Nat
  PROVE  computeInterval(n) \in Nat \ {0}
<1>1. CASE n < Len(IntervalSequence)
  BY <1>1, ScheduleAssumption DEF computeInterval
<1>2. CASE ~(n < Len(IntervalSequence))
  <2>1. Linear(n) \in Int
    <3>1. base \in Int
      BY ScheduleAssumption DEF base
    <3>2. Overflow(n) \in Int
      BY ScheduleAssumption DEF Overflow
    <3> QED BY <3>1, <3>2, ScheduleAssumption DEF Linear
  <2> QED BY <1>2, <2>1, ScheduleAssumption DEF computeInterval, PastHead
<1> QED BY <1>1, <1>2

(* The cadence only slows down: with an ascending schedule a later repeat  *)
(* never waits for a shorter time than an earlier one.                     *)
THEOREM IntervalMonotone ==
  ASSUME Ascending, NEW m \in Nat, NEW n \in Nat, m <= n
  PROVE  computeInterval(m) <= computeInterval(n)
<1> DEFINE L == Len(IntervalSequence)
<1>l. L \in Nat
  BY ScheduleAssumption
<1>b. base \in Nat /\ (L > 0 => base \in Nat \ {0} /\ base = IntervalSequence[L])
  BY <1>l, ScheduleAssumption DEF base
<1>d. \A k \in Nat : k >= L => Linear(k) \in Int /\ Linear(k) >= base
  <2> SUFFICES ASSUME NEW k \in Nat, k >= L
               PROVE  Linear(k) \in Int /\ Linear(k) >= base
    OBVIOUS
  <2>1. Overflow(k) \in Int /\ 0 <= Overflow(k)
    BY <1>l DEF Overflow
  <2>2. 0 * IntervalStep <= Overflow(k) * IntervalStep
    BY <2>1, TimesMonotone, ScheduleAssumption
  <2>3. Overflow(k) * IntervalStep \in Int
    BY <2>1, ScheduleAssumption
  <2> QED BY <2>2, <2>3, <1>b, ScheduleAssumption DEF Linear
<1>1. CASE n < L
  <2>1. m + 1 \in 1 .. L /\ n + 1 \in 1 .. L /\ m + 1 <= n + 1
    BY <1>1, <1>l
  <2>2. IntervalSequence[m + 1] <= IntervalSequence[n + 1]
    BY <2>1 DEF Ascending
  <2> QED BY <1>1, <1>l, <2>2 DEF computeInterval
<1>2. CASE m < L /\ n >= L
  <2>1. computeInterval(m) <= base
    BY <1>2, <1>l, <1>b DEF computeInterval, Ascending
  <2>2. base <= PastHead(n)
    BY <1>2, <1>b, <1>d, <1>l, ScheduleAssumption DEF PastHead, Ascending
  <2>3. PastHead(n) \in Int /\ computeInterval(m) \in Int
    BY <1>2, <1>d, <1>l, IntervalPositive, ScheduleAssumption DEF PastHead
  <2> QED BY <1>2, <1>l, <1>b, <2>1, <2>2, <2>3 DEF computeInterval
<1>3. CASE m >= L
  <2>1. Overflow(m) \in Int /\ Overflow(n) \in Int /\ Overflow(m) <= Overflow(n)
    BY <1>l DEF Overflow
  <2>2. Overflow(m) * IntervalStep <= Overflow(n) * IntervalStep
    BY <2>1, TimesMonotone, ScheduleAssumption
  <2>3. Overflow(m) * IntervalStep \in Int /\ Overflow(n) * IntervalStep \in Int
    BY <2>1, ScheduleAssumption
  <2>4. Linear(m) <= Linear(n)
    BY <2>2, <2>3, <1>b DEF Linear
  <2>5. Linear(m) \in Int /\ Linear(n) \in Int /\ Linear(m) >= 0 /\ Linear(n) >= 0
    BY <1>3, <1>b, <1>d, <1>l
  <2>6. Linear(m) = 0 => Linear(n) = 0
    <3>1. 1 * IntervalStep <= Overflow(m) * IntervalStep
      <4>1. 1 <= Overflow(m)
        BY <1>3, <1>l DEF Overflow
      <4> QED BY <4>1, <2>1, TimesMonotone, ScheduleAssumption
    <3>2. Linear(m) = 0 => IntervalStep = 0 /\ base = 0
      BY <3>1, <2>3, <1>b, ScheduleAssumption DEF Linear
    <3>3. IntervalStep = 0 /\ base = 0 => Linear(n) = 0
      BY <2>1 DEF Linear
    <3> QED BY <3>2, <3>3
  <2>7. computeInterval(m) = PastHead(m) /\ computeInterval(n) = PastHead(n)
    BY <1>3, <1>l DEF computeInterval
  <2>8. PastHead(m) <= PastHead(n)
    <3>1. CASE Linear(m) = 0
      BY <3>1, <2>6, <2>5, ScheduleAssumption DEF PastHead
    <3>2. CASE Linear(m) > 0
      BY <3>2, <2>4, <2>5, ScheduleAssumption DEF PastHead
    <3> QED BY <3>1, <3>2, <2>5
  <2> QED BY <2>7, <2>8
<1> QED BY <1>1, <1>2, <1>3, <1>l

-----------------------------------------------------------------------------
(* A rung is left only from the rung the handler has read, and what it has *)
(* read is no newer than the row: the severity has only climbed since, and *)
(* on the same rung the row's anchor is not older than the rung.           *)
LadderInv ==
  /\ row.startedAt >= reached /\ reached <= now
  /\ \A h \in Handlers : pc[h] # "idle" =>
       /\ copy[h].tier <= row.tier
       /\ copy[h].tier = row.tier => copy[h].startedAt >= reached
  /\ \A h \in Handlers : pc[h] = "escalate" =>
       /\ copy[h].tier \in 1 .. Top - 1
       /\ now - copy[h].startedAt >= Dwell[copy[h].tier]

CadenceInv == TypeOK /\ LadderInv /\ row.seq <= sent

LEMMA Ladder == Top \in Nat /\ NoCopy \in Row
  BY DwellAssumption DEF Top, Row, NoCopy, NoTime

LEMMA Going ==
  ASSUME copy \in [Handlers -> Row], pc \in [Handlers -> Stages],
         NEW h \in Handlers, NEW next \in Stages, Go(h, next)
  PROVE  /\ copy' \in [Handlers -> Row] /\ pc' \in [Handlers -> Stages]
         /\ pc'[h] = next
         /\ \A g \in Handlers : g # h => pc'[g] = pc[g] /\ copy'[g] = copy[g]
         /\ next # "idle" => copy' = copy
  BY Ladder DEF Go

LEMMA CadenceInit == Init => CadenceInv
<1> SUFFICES ASSUME Init PROVE CadenceInv
  OBVIOUS
<1>1. TypeOK
  <2>1. row \in Row
    BY Ladder DEF Init, Row, NoTime
  <2>2. copy \in [Handlers -> Row] /\ pc \in [Handlers -> Stages]
    BY Ladder DEF Init, Stages
  <2>3. sent \in Nat
    BY DEF Init, NoTime
  <2> QED BY <2>1, <2>2, <2>3 DEF Init, TypeOK
<1>2. LadderInv
  BY DEF Init, LadderInv
<1>3. row.seq <= sent
  BY DEF Init, NoTime
<1> QED BY <1>1, <1>2, <1>3 DEF CadenceInv

LEMMA CadenceNext ==
  ASSUME CadenceInv, [Next]_vars
  PROVE  CadenceInv'
<1> USE DEF historyVars, countVars
<1>0. /\ TypeOK /\ LadderInv /\ row.seq <= sent
      /\ copy \in [Handlers -> Row] /\ pc \in [Handlers -> Stages] /\ row \in Row
  BY DEF CadenceInv, TypeOK
<1>d. \A t \in 1 .. Top : Dwell[t] \in Nat
  BY DwellAssumption DEF Top
<1>1. CASE Tick
  <2>1. TypeOK'
    BY <1>0, <1>1 DEF Tick, TypeOK
  <2>2. LadderInv'
    BY <1>0, <1>1, <1>d, Ladder DEF Tick, LadderInv, TypeOK, Row
  <2>3. (row.seq <= sent)'
    BY <1>0, <1>1 DEF Tick
  <2> QED BY <2>1, <2>2, <2>3 DEF CadenceInv
<1>2. CASE Resolve
  <2>1. row' \in Row /\ row'.tier = row.tier /\ row'.seq = row.seq /\ row'.startedAt = row.startedAt
    BY <1>0, <1>2 DEF Resolve, Row
  <2>2. TypeOK'
    BY <1>0, <1>2, <2>1 DEF Resolve, TypeOK
  <2>3. LadderInv'
    BY <1>0, <1>2, <2>1 DEF Resolve, LadderInv
  <2>4. (row.seq <= sent)'
    BY <1>0, <1>2, <2>1 DEF Resolve
  <2> QED BY <2>2, <2>3, <2>4 DEF CadenceInv
<1>3. ASSUME NEW h \in Handlers, Find(h) PROVE CadenceInv'
  <2>1. /\ copy' \in [Handlers -> Row] /\ pc' \in [Handlers -> Stages]
        /\ copy'[h] = row /\ pc'[h] \in {"decide", "reopen"}
        /\ \A g \in Handlers : g # h => pc'[g] = pc[g] /\ copy'[g] = copy[g]
    BY <1>0, <1>3 DEF Find, Stages
  <2>2. TypeOK'
    BY <1>0, <1>3, <2>1 DEF Find, TypeOK
  <2>3. LadderInv'
    BY <1>0, <1>3, <2>1, Ladder DEF Find, LadderInv, Row
  <2>4. (row.seq <= sent)'
    BY <1>0, <1>3 DEF Find
  <2> QED BY <2>2, <2>3, <2>4 DEF CadenceInv
<1>4. ASSUME NEW h \in Handlers, Decide(h) PROVE CadenceInv'
  <2>0. PICK next \in Stages : Go(h, next) /\ (next = "escalate" => copy[h].tier # 0 /\ Dwelt(copy[h]))
    BY <1>0, <1>4 DEF Decide, Stages
  <2>1. /\ copy' \in [Handlers -> Row] /\ pc' \in [Handlers -> Stages]
        /\ pc'[h] = next
        /\ \A g \in Handlers : g # h => pc'[g] = pc[g] /\ copy'[g] = copy[g]
        /\ next # "idle" => copy' = copy
    BY <1>0, <2>0, Going
  <2>2. row' \in Row /\ row' = row
    BY <1>0, <1>4, Ladder DEF Decide, Row, TypeOK
  <2>3. TypeOK'
    BY <1>0, <1>4, <2>1, <2>2 DEF Decide, TypeOK
  <2>4. LadderInv'
    <3>1. UNCHANGED <<now, reached>> /\ pc[h] = "decide"
      BY <1>4 DEF Decide
    <3>2. \A g \in Handlers : pc'[g] # "idle" => pc[g] # "idle" /\ copy'[g] = copy[g]
      BY <2>1, <3>1
    <3>3. \A g \in Handlers \ {h} : pc'[g] = pc[g]
      BY <2>1
    <3>4. next = "escalate" => /\ copy[h].tier \in 1 .. Top - 1
                               /\ now - copy[h].startedAt >= Dwell[copy[h].tier]
      BY <1>0, <1>d, <2>0, Ladder DEF Dwelt, Row, TypeOK
    <3>5. (row.startedAt >= reached /\ reached <= now)'
      BY <1>0, <2>2, <3>1 DEF LadderInv
    <3>6. \A g \in Handlers : pc'[g] # "idle" =>
             /\ copy'[g].tier <= row'.tier
             /\ copy'[g].tier = row'.tier => copy'[g].startedAt >= reached'
      BY <1>0, <2>2, <3>1, <3>2 DEF LadderInv
    <3>7. \A g \in Handlers : pc'[g] = "escalate" =>
             /\ copy'[g].tier \in 1 .. Top - 1
             /\ now' - copy'[g].startedAt >= Dwell[copy'[g].tier]
      BY <1>0, <2>1, <3>1, <3>2, <3>3, <3>4 DEF LadderInv
    <3> QED BY <3>5, <3>6, <3>7 DEF LadderInv
  <2>5. (row.seq <= sent)'
    BY <1>0, <1>4, <2>2 DEF Decide, TypeOK, Row
  <2> QED BY <2>3, <2>4, <2>5 DEF CadenceInv
<1>5. ASSUME NEW h \in Handlers, Escalate(h) PROVE CadenceInv'
  <2>1. CASE row.tier = copy[h].tier
    <3>0. Go(h, "mark") /\ copy[h].tier \in 1 .. Top - 1
      BY <1>0, <1>5, <2>1 DEF Escalate, LadderInv
    <3>1. /\ copy' = copy /\ pc' \in [Handlers -> Stages] /\ pc'[h] = "mark"
          /\ \A g \in Handlers : g # h => pc'[g] = pc[g]
      BY <1>0, <3>0, Going DEF Stages
    <3>2. /\ row' \in Row /\ row'.tier = row.tier + 1 /\ row'.seq = 0 /\ row'.startedAt = now
          /\ sent' = 0 /\ reached' = now /\ now' = now
      <4>1. /\ row' = [row EXCEPT !.tier = copy[h].tier + 1, !.seq = 0, !.startedAt = now]
            /\ sent' = 0 /\ reached' = now /\ now' = now
        BY <1>5, <2>1 DEF Escalate
      <4>2. copy[h].tier + 1 \in 0 .. Top /\ copy[h].tier + 1 = row.tier + 1 /\ now \in Nat
        BY <1>0, <2>1, <3>0, Ladder DEF TypeOK
      <4> QED BY <1>0, <4>1, <4>2 DEF Row
    <3>3. TypeOK'
      BY <1>0, <1>5, <3>1, <3>2 DEF Escalate, TypeOK
    <3>4. LadderInv'
      <4>1. now \in Nat /\ row.tier \in Nat
        BY <1>0, Ladder DEF TypeOK, Row
      <4>2. ASSUME NEW g \in Handlers, pc'[g] # "idle"
            PROVE  copy'[g].tier < row'.tier
        <5>1. copy[g].tier <= row.tier /\ copy[g].tier \in Nat
          BY <1>0, <2>1, <3>0, <3>1, <4>1, <4>2, Ladder DEF LadderInv, Row
        <5> QED BY <3>1, <3>2, <4>1, <5>1
      <4>3. ASSUME NEW g \in Handlers, pc'[g] = "escalate"
            PROVE  copy'[g].tier \in 1 .. Top - 1 /\ now' - copy'[g].startedAt >= Dwell[copy'[g].tier]
        BY <1>0, <3>1, <3>2, <4>3 DEF LadderInv
      <4>4. \A g \in Handlers : pc'[g] # "idle" =>
              copy'[g].tier <= row'.tier /\ (copy'[g].tier = row'.tier => copy'[g].startedAt >= reached')
        <5> SUFFICES ASSUME NEW g \in Handlers, pc'[g] # "idle"
                     PROVE  copy'[g].tier <= row'.tier /\ copy'[g].tier # row'.tier
          OBVIOUS
        <5>1. copy'[g].tier \in Int /\ row'.tier \in Int
          BY <1>0, <3>1, <3>2, Ladder DEF Row
        <5> QED BY <4>2, <5>1
      <4> QED BY <3>2, <4>1, <4>3, <4>4 DEF LadderInv
    <3> QED BY <3>2, <3>3, <3>4 DEF CadenceInv
  <2>2. CASE row.tier # copy[h].tier
    <3>0. Go(h, "idle") /\ row' = row /\ sent' = sent /\ reached' = reached /\ now' = now
      BY <1>5, <2>2 DEF Escalate
    <3>1. /\ copy' \in [Handlers -> Row] /\ pc' \in [Handlers -> Stages] /\ pc'[h] = "idle"
          /\ \A g \in Handlers : g # h => pc'[g] = pc[g] /\ copy'[g] = copy[g]
      BY <1>0, <3>0, Going DEF Stages
    <3>2. TypeOK'
      BY <1>0, <1>5, <3>0, <3>1 DEF Escalate, TypeOK
    <3>3. LadderInv'
      BY <1>0, <3>0, <3>1 DEF LadderInv
    <3> QED BY <1>0, <3>0, <3>2, <3>3 DEF CadenceInv
  <2> QED BY <2>1, <2>2
<1>6. ASSUME NEW h \in Handlers, Reopen(h) PROVE CadenceInv'
  <2>0. PICK next \in Stages : Go(h, next) /\ next = "markReopened"
    BY <1>0, <1>6 DEF Reopen, Stages
  <2>1. /\ copy' \in [Handlers -> Row] /\ pc' \in [Handlers -> Stages]
        /\ pc'[h] = next
        /\ \A g \in Handlers : g # h => pc'[g] = pc[g] /\ copy'[g] = copy[g]
        /\ next # "idle" => copy' = copy
    BY <1>0, <2>0, Going
  <2>2. row' \in Row
           /\ row'.tier = row.tier /\ row'.seq = 0 /\ row'.startedAt = now
    BY <1>0, <1>6, Ladder DEF Reopen, Row, TypeOK
  <2>3. TypeOK'
    BY <1>0, <1>6, <2>1, <2>2 DEF Reopen, TypeOK
  <2>4. LadderInv'
    BY <1>0, <1>6, <1>d, <2>0, <2>1, <2>2, Ladder DEF Reopen, LadderInv, TypeOK, Row
  <2>5. (row.seq <= sent)'
    BY <1>0, <1>6, <2>2 DEF Reopen, TypeOK, Row
  <2> QED BY <2>3, <2>4, <2>5 DEF CadenceInv
<1>7. ASSUME NEW h \in Handlers, MarkNotified(h) PROVE CadenceInv'
  <2>0. PICK next \in Stages : Go(h, next) /\ next # "escalate"
    BY <1>0, <1>7 DEF MarkNotified, Stages
  <2>1. /\ copy' \in [Handlers -> Row] /\ pc' \in [Handlers -> Stages]
        /\ pc'[h] = next
        /\ \A g \in Handlers : g # h => pc'[g] = pc[g] /\ copy'[g] = copy[g]
        /\ next # "idle" => copy' = copy
    BY <1>0, <2>0, Going
  <2>2. row' \in Row
           /\ row'.tier = row.tier /\ row'.seq = row.seq /\ row'.startedAt = row.startedAt
    BY <1>0, <1>7, Ladder DEF MarkNotified, Row, TypeOK
  <2>3. TypeOK'
    BY <1>0, <1>7, <2>1, <2>2 DEF MarkNotified, TypeOK
  <2>4. LadderInv'
    BY <1>0, <1>7, <1>d, <2>0, <2>1, <2>2, Ladder DEF MarkNotified, LadderInv, TypeOK, Row
  <2>5. (row.seq <= sent)'
    BY <1>0, <1>7, <2>2 DEF MarkNotified, TypeOK, Row
  <2> QED BY <2>3, <2>4, <2>5 DEF CadenceInv
<1>8. ASSUME NEW h \in Handlers, BumpSeqIndex(h) PROVE CadenceInv'
  <2>0. PICK next \in Stages : Go(h, next) /\ next = "idle"
    BY <1>0, <1>8 DEF BumpSeqIndex, Stages
  <2>1. /\ copy' \in [Handlers -> Row] /\ pc' \in [Handlers -> Stages]
        /\ pc'[h] = next
        /\ \A g \in Handlers : g # h => pc'[g] = pc[g] /\ copy'[g] = copy[g]
        /\ next # "idle" => copy' = copy
    BY <1>0, <2>0, Going
  <2>2. row' \in Row
           /\ row'.tier = row.tier /\ row'.seq = row.seq + 1 /\ row'.startedAt = row.startedAt
    BY <1>0, <1>8, Ladder DEF BumpSeqIndex, Row, TypeOK
  <2>3. TypeOK'
    BY <1>0, <1>8, <2>1, <2>2 DEF BumpSeqIndex, TypeOK
  <2>4. LadderInv'
    BY <1>0, <1>8, <1>d, <2>0, <2>1, <2>2, Ladder DEF BumpSeqIndex, LadderInv, TypeOK, Row
  <2>5. (row.seq <= sent)'
    BY <1>0, <1>8, <2>2 DEF BumpSeqIndex, TypeOK, Row
  <2> QED BY <2>3, <2>4, <2>5 DEF CadenceInv
<1>9. ASSUME NEW h \in Handlers, UpdateFails(h) PROVE CadenceInv'
  <2>0. PICK next \in Stages : Go(h, next) /\ next # "escalate"
    BY <1>0, <1>9 DEF UpdateFails, Stages
  <2>1. /\ copy' \in [Handlers -> Row] /\ pc' \in [Handlers -> Stages]
        /\ pc'[h] = next
        /\ \A g \in Handlers : g # h => pc'[g] = pc[g] /\ copy'[g] = copy[g]
        /\ next # "idle" => copy' = copy
    BY <1>0, <2>0, Going
  <2>2. row' \in Row /\ row' = row
    BY <1>0, <1>9, Ladder DEF UpdateFails, Row, TypeOK
  <2>3. TypeOK'
    BY <1>0, <1>9, <2>1, <2>2 DEF UpdateFails, TypeOK
  <2>4. LadderInv'
    BY <1>0, <1>9, <1>d, <2>0, <2>1, <2>2, Ladder DEF UpdateFails, LadderInv, TypeOK, Row
  <2>5. (row.seq <= sent)'
    BY <1>0, <1>9, <2>2 DEF UpdateFails, TypeOK, Row
  <2> QED BY <2>3, <2>4, <2>5 DEF CadenceInv
<1>10. ASSUME NEW h \in Handlers, Crash(h) PROVE CadenceInv'
  <2>0. PICK next \in Stages : Go(h, next) /\ next = "idle"
    BY <1>0, <1>10 DEF Crash, Stages
  <2>1. /\ copy' \in [Handlers -> Row] /\ pc' \in [Handlers -> Stages]
        /\ pc'[h] = next
        /\ \A g \in Handlers : g # h => pc'[g] = pc[g] /\ copy'[g] = copy[g]
        /\ next # "idle" => copy' = copy
    BY <1>0, <2>0, Going
  <2>2. row' \in Row /\ row' = row
    BY <1>0, <1>10, Ladder DEF Crash, Row, TypeOK
  <2>3. TypeOK'
    BY <1>0, <1>10, <2>1, <2>2 DEF Crash, TypeOK
  <2>4. LadderInv'
    BY <1>0, <1>10, <1>d, <2>0, <2>1, <2>2, Ladder DEF Crash, LadderInv, TypeOK, Row
  <2>5. (row.seq <= sent)'
    BY <1>0, <1>10, <2>2 DEF Crash, TypeOK, Row
  <2> QED BY <2>3, <2>4, <2>5 DEF CadenceInv
<1>11. CASE UNCHANGED vars
  BY <1>0, <1>11 DEF CadenceInv, vars, TypeOK, LadderInv
<1> QED BY <1>1, <1>2, <1>3, <1>4, <1>5, <1>6, <1>7, <1>8, <1>9, <1>10, <1>11 DEF Next

-----------------------------------------------------------------------------
THEOREM CadenceInvariant == Spec => []CadenceInv
<1>1. Init => CadenceInv
  BY CadenceInit
<1>2. CadenceInv /\ [Next]_vars => CadenceInv'
  BY CadenceNext
<1> QED BY <1>1, <1>2, PTL DEF Spec

(* Type correctness; the severity stays on the ladder for every ladder and *)
(* any number of replicas.                                                 *)
THEOREM CadenceTypes == Spec => []TypeOK
<1>1. CadenceInv => TypeOK
  BY DEF CadenceInv
<1> QED BY <1>1, CadenceInvariant, PTL

(* bumpSeqIndex's promise (service.go:580-584): with an ascending schedule *)
(* failures, crashes and other replicas never make the cadence quieter.    *)
THEOREM CadenceNeverQuieter == ASSUME Ascending PROVE Spec => []NeverQuieter
<1>1. CadenceInv => NeverQuieter
  <2> SUFFICES ASSUME CadenceInv PROVE NeverQuieter
    OBVIOUS
  <2>1. row.seq \in Nat /\ sent \in Nat /\ row.seq <= sent
    BY DEF CadenceInv, TypeOK, Row
  <2> QED BY <2>1, IntervalMonotone DEF NeverQuieter
<1> QED BY <1>1, CadenceInvariant, PTL

(* escalateAndReset's promise (service.go:439-444): one rung at a time,    *)
(* after the whole dwell time, however many replicas race for it.          *)
THEOREM LadderIsClimbed == Spec => LadderClimbed
<1>1. CadenceInv /\ [Next]_vars =>
        [row'.tier # row.tier =>
           row'.tier = row.tier + 1 /\ now - reached >= Dwell[row.tier]]_vars
  <2> SUFFICES ASSUME CadenceInv, [Next]_vars, row'.tier # row.tier
               PROVE  row'.tier = row.tier + 1 /\ now - reached >= Dwell[row.tier]
    OBVIOUS
  <2>0. TypeOK /\ LadderInv /\ row \in Row /\ copy \in [Handlers -> Row]
    BY DEF CadenceInv, TypeOK
  <2>1. ASSUME NEW h \in Handlers, Escalate(h)
        PROVE  row'.tier = row.tier + 1 /\ now - reached >= Dwell[row.tier]
    <3>1. row.tier = copy[h].tier /\ row'.tier = row.tier + 1
      BY <2>0, <2>1 DEF Escalate, Row
    <3>2. /\ copy[h].tier \in 1 .. Top - 1 /\ copy[h].startedAt >= reached
          /\ now - copy[h].startedAt >= Dwell[copy[h].tier]
      BY <2>0, <2>1, <3>1 DEF Escalate, LadderInv
    <3>3. Dwell[row.tier] \in Nat /\ now \in Nat /\ reached \in Nat /\ copy[h].startedAt \in Nat
      <4>1. row.tier \in 1 .. Len(Dwell)
        BY <3>1, <3>2, Ladder DEF Top
      <4>2. Dwell[row.tier] \in Nat
        BY <4>1, DwellAssumption
      <4> QED BY <2>0, <4>2 DEF TypeOK, Row
    <3> QED BY <3>1, <3>2, <3>3
  <2>2. ASSUME NEW h \in Handlers,
               Find(h) \/ Decide(h) \/ Reopen(h) \/ MarkNotified(h)
                 \/ BumpSeqIndex(h) \/ UpdateFails(h) \/ Crash(h)
        PROVE  row'.tier = row.tier
    BY <2>0, <2>2 DEF Find, Decide, Reopen, MarkNotified, BumpSeqIndex, UpdateFails, Crash,
                      countVars, historyVars, Row
  <2>3. ASSUME Tick \/ Resolve \/ UNCHANGED vars
        PROVE  row'.tier = row.tier
    BY <2>0, <2>3 DEF Tick, Resolve, vars, Row
  <2> QED BY <2>1, <2>2, <2>3 DEF Next
<1> QED BY <1>1, CadenceInvariant, PTL DEF Spec, LadderClimbed
=============================================================================
