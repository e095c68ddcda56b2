---------------------------- MODULE EngineProofs -----------------------------
(***************************************************************************)
(* For any group, any number of goroutines and any positive times: what is *)
(* dropped is covered, what keeps firing is heard, what is silent is over, *)
(* and a source that keeps coming keeps inhibiting.                        *)
(***************************************************************************)
EXTENDS Engine, TLAPS

Busy(g) == stage[g] # "idle"

(* Whoever runs has an alert, and the group is not calm.                   *)
BusyInv ==
  \A g \in Callers : Busy(g) =>
    alert[g] \in Fingerprints /\ (alert[g] \in Members => calm = 0)

(* A window is open only for an alert that somebody has charge of.         *)
CoveredInv == \A a \in Members : left[a] > 0 => open \/ a \in Waiting \cup excused

(* What waits, and what is open, is not older than the last alert allows.  *)
CalmInv ==
  /\ pending # {} => calm + wait <= GroupWait
  /\ flight # {} => calm <= GroupWait
  /\ open => calm <= age + GroupWait

(* No timer fires while a callback runs.                                   *)
TimerInv == flight # {} => ~TimerDue

(* An alert that came in this minute has its window, or is about to.       *)
MarkedInv ==
  \A a \in sent : left[a] > 0 \/ \E g \in Callers : stage[g] = "dedup" /\ alert[g] = a

(* The age the last delivery of alert a has at most: while a waits, the    *)
(* one before it; otherwise that of its own window.                        *)
Due(a) ==
  IF a \in flight THEN GroupWait + TTL
  ELSE IF a \in pending THEN (GroupWait - wait) + TTL
  ELSE IF \E g \in Callers : stage[g] = "admit" /\ alert[g] = a THEN TTL
  ELSE TTL - left[a]

HeardInv ==
  Staleness >= Hearing => \A a \in Members : steady[a] > Due(a) => open /\ age <= Due(a)

EngineInv ==
  /\ TypeOK /\ BusyInv /\ CoveredInv /\ CalmInv /\ TimerInv /\ MarkedInv /\ HeardInv
  /\ sourceAge = sourceCalm

-----------------------------------------------------------------------------
LEMMA MembersAreFingerprints == Members \subseteq Fingerprints
  BY DEF Members

(* Due stays within the bound that SteadyIsHeard states.                   *)
LEMMA DueRange ==
  ASSUME TypeOK, NEW a \in Members
  PROVE  Due(a) \in 0 .. Hearing
  BY MinutesAssumption, MembersAreFingerprints DEF TypeOK, Due, Hearing

LEMMA DueRangeNext ==
  ASSUME TypeOK', NEW a \in Members
  PROVE  Due(a)' \in 0 .. Hearing
  <1>1. wait' \in 0 .. GroupWait /\ left'[a] \in 0 .. TTL
    BY MembersAreFingerprints DEF TypeOK
  <1>2. Due(a)' \in {GroupWait + TTL, (GroupWait - wait') + TTL, TTL, TTL - left'[a]}
    BY DEF Due
  <1>3. QED
    BY <1>1, <1>2, MinutesAssumption DEF Hearing

LEMMA ZeroAge == 0 \in 0 .. Staleness + 1 /\ 0 \in 0 .. Hearing + 1
  BY MinutesAssumption DEF Hearing

LEMMA WaitedLess == \A w \in 0 .. GroupWait : (GroupWait - w) + TTL >= TTL
  BY MinutesAssumption

LEMMA ShiftedSum ==
  \A c, d, w \in Int : c + w <= GroupWait /\ d <= c + 1 => d + (w - 1) <= GroupWait
  BY MinutesAssumption

LEMMA EngineInit == Init => EngineInv
  <1> SUFFICES ASSUME Init PROVE EngineInv
    OBVIOUS
  <1>1. TypeOK
    <2>1. /\ 0 \in 0 .. TTL /\ 0 \in 0 .. GroupWait /\ 0 \in 0 .. Hearing + 1
          /\ InhibitTTL + 1 \in 0 .. InhibitTTL + 1
          /\ Staleness + 1 \in 0 .. Staleness + 1
          /\ Forgetting + 1 \in 0 .. Forgetting + 1
      BY MinutesAssumption DEF Hearing, Forgetting
    <2>2. QED
      BY <2>1 DEF Init, ContractInit, TypeOK
  <1>2. BusyInv /\ CalmInv /\ TimerInv /\ MarkedInv /\ sourceAge = sourceCalm
    BY DEF Init, BusyInv, Busy, CalmInv, TimerInv, MarkedInv
  <1>3. CoveredInv
    BY MembersAreFingerprints DEF Init, ContractInit, CoveredInv
  <1>4. HeardInv
    BY <1>1, DueRange DEF Init, HeardInv
  <1>5. QED
    BY <1>1, <1>2, <1>3, <1>4 DEF EngineInv

(* A step that makes nobody wait longer, moves no window and excuses       *)
(* nothing keeps HeardInv.                                                 *)
LEMMA HeardFrame ==
  ASSUME TypeOK, TypeOK', HeardInv, open' = open, age' = age, steady' = steady,
         \A a \in Members : Due(a)' >= Due(a)
  PROVE  HeardInv'
  <1> SUFFICES ASSUME Staleness >= Hearing, NEW a \in Members, steady'[a] > Due(a)'
               PROVE  open' /\ age' <= Due(a)'
    BY DEF HeardInv, Hearing
  <1>1. Due(a) \in Nat /\ Due(a)' \in Nat /\ steady[a] \in Nat /\ age \in Nat
    <2>1. Due(a) \in 0 .. Hearing /\ Due(a)' \in 0 .. Hearing
      BY DueRange, DueRangeNext
    <2>2. QED
      BY <2>1 DEF TypeOK
  <1>2. steady[a] > Due(a) /\ Due(a)' >= Due(a)
    BY <1>1
  <1>3. open /\ age <= Due(a)
    BY <1>2 DEF HeardInv
  <1>4. QED
    BY <1>1, <1>2, <1>3

LEMMA ReceiveKeepsInv ==
  ASSUME EngineInv, NEW g \in Callers, NEW a \in Fingerprints, Receive(g, a)
  PROVE  EngineInv'
  <1>1. /\ stage[g] = "idle" /\ stage' = [stage EXCEPT ![g] = "dedup"]
        /\ alert' = [alert EXCEPT ![g] = a]
        /\ sent' = sent \cup ({a} \cap Members)
        /\ calm' = (IF a \in Members THEN 0 ELSE calm)
        /\ sourceAge' = (IF a \in Sources THEN 0 ELSE sourceAge)
        /\ sourceCalm' = (IF a \in Sources THEN 0 ELSE sourceCalm)
        /\ UNCHANGED <<left, silenced, pending, wait, flight, open, age, steady, excused>>
    BY DEF Receive, Track, groupVars, incidentVars
  <1>2. TypeOK'
    BY <1>1, MinutesAssumption DEF EngineInv, TypeOK, Forgetting
  <1>3. BusyInv'
    BY <1>1 DEF EngineInv, TypeOK, BusyInv, Busy
  <1>4. \A h \in Callers : (stage'[h] = "admit" <=> stage[h] = "admit")
          /\ (stage[h] = "admit" => alert'[h] = alert[h])
    BY <1>1 DEF EngineInv, TypeOK
  <1>5. Waiting' = Waiting
    BY <1>1, <1>4 DEF Waiting
  <1>6. CoveredInv'
    BY <1>1, <1>5 DEF EngineInv, CoveredInv
  <1>7. CalmInv' /\ TimerInv'
    BY <1>1, MinutesAssumption DEF EngineInv, TypeOK, CalmInv, TimerInv, TimerDue, Forgetting
  <1>8. MarkedInv'
    BY <1>1 DEF EngineInv, TypeOK, MarkedInv
  <1>9. \A b \in Members : Due(b)' = Due(b)
    BY <1>1, <1>4 DEF Due
  <1>10. HeardInv'
    <2>1. \A b \in Members : Due(b)' >= Due(b)
      BY <1>9, DueRange DEF EngineInv
    <2>2. QED
      BY <1>1, <1>2, <2>1, HeardFrame DEF EngineInv
  <1>11. QED
    BY <1>1, <1>2, <1>3, <1>6, <1>7, <1>8, <1>10 DEF EngineInv

LEMMA IsFirstKeepsInv ==
  ASSUME EngineInv, NEW g \in Callers, IsFirst(g)
  PROVE  EngineInv'
  <1> DEFINE a == alert[g]
  <1>1. /\ stage[g] = "dedup" /\ stage' = [stage EXCEPT ![g] = "admit"]
        /\ excused' = excused \ {a}
        /\ UNCHANGED <<alert, silenced, pending, wait, flight, sourceAge, open, age, sent, steady, calm, sourceCalm>>
    BY DEF IsFirst, groupVars, incidentVars
  <1>2. a \in Fingerprints
    BY <1>1 DEF EngineInv, BusyInv, Busy
  <1>3. left[a] = 0 /\ left' = [left EXCEPT ![a] = TTL]
    BY <1>2 DEF IsFirst, First, EngineInv, TypeOK
  <1>4. TypeOK'
    BY <1>1, <1>2, <1>3, MinutesAssumption DEF EngineInv, TypeOK
  <1>5. BusyInv'
    BY <1>1 DEF EngineInv, TypeOK, BusyInv, Busy
  <1>6. stage'[g] = "admit" /\ \A h \in Callers \ {g} : stage'[h] = stage[h]
    BY <1>1 DEF EngineInv, TypeOK
  <1>7. Waiting' = Waiting \cup {a}
    BY <1>1, <1>6 DEF Waiting
  <1>8. CoveredInv'
    BY <1>1, <1>2, <1>3, <1>7, MembersAreFingerprints DEF EngineInv, TypeOK, CoveredInv
  <1>9. CalmInv' /\ TimerInv'
    BY <1>1 DEF EngineInv, CalmInv, TimerInv, TimerDue
  <1>10. MarkedInv'
    BY <1>1, <1>2, <1>3, <1>6, MinutesAssumption, MembersAreFingerprints DEF EngineInv, TypeOK, MarkedInv
  <1>11. ASSUME NEW b \in Members PROVE Due(b)' >= Due(b)
    <2>1. Due(b) \in Nat /\ Due(b)' \in Nat
      BY <1>4, DueRange, DueRangeNext, MinutesAssumption DEF EngineInv, Hearing
    <2>2. CASE b # a
      <3>1. Due(b)' = Due(b)
        BY <1>1, <1>2, <1>3, <1>6, <2>2, MembersAreFingerprints DEF EngineInv, TypeOK, Due
      <3>2. QED
        BY <2>1, <3>1
    <2>3. CASE b = a
      <3>1. CASE b \in flight \/ b \in pending
        BY <1>1, <2>1, <3>1 DEF Due
      <3>2. CASE b \notin flight /\ b \notin pending
        <4>1. Due(b)' = TTL
          BY <1>1, <1>6, <2>3, <3>2 DEF Due
        <4>2. Due(b) = TTL
          BY <1>3, <2>3, <3>2, MinutesAssumption DEF Due
        <4>3. QED
          BY <2>1, <4>1, <4>2
      <3>3. QED
        BY <3>1, <3>2
    <2>4. QED
      BY <2>2, <2>3
  <1>12. HeardInv'
    BY <1>1, <1>4, <1>11, HeardFrame DEF EngineInv
  <1>13. QED
    BY <1>1, <1>4, <1>5, <1>8, <1>9, <1>10, <1>12 DEF EngineInv

LEMMA IsDuplicateKeepsInv ==
  ASSUME EngineInv, NEW g \in Callers, IsDuplicate(g)
  PROVE  EngineInv'
  <1>1. /\ stage[g] = "dedup" /\ left[alert[g]] > 0
        /\ stage' = [stage EXCEPT ![g] = "idle"] /\ alert' = [alert EXCEPT ![g] = NoAlert]
        /\ UNCHANGED <<left, silenced, pending, wait, flight, sourceAge, open, age,
                       sent, steady, excused, calm, sourceCalm>>
    BY DEF IsDuplicate, Duplicate, Return, groupVars, incidentVars, historyVars
  <1>2. TypeOK'
    BY <1>1 DEF EngineInv, TypeOK
  <1>3. BusyInv'
    BY <1>1 DEF EngineInv, TypeOK, BusyInv, Busy
  <1>4. \A h \in Callers : (stage'[h] = "admit" <=> stage[h] = "admit")
          /\ (stage[h] = "admit" => alert'[h] = alert[h])
    BY <1>1 DEF EngineInv, TypeOK
  <1>5. Waiting' = Waiting
    BY <1>1, <1>4 DEF Waiting
  <1>6. CoveredInv' /\ CalmInv' /\ TimerInv'
    BY <1>1, <1>5 DEF EngineInv, CoveredInv, CalmInv, TimerInv, TimerDue
  <1>7. MarkedInv'
    BY <1>1 DEF EngineInv, TypeOK, MarkedInv
  <1>8. \A b \in Members : Due(b)' = Due(b)
    BY <1>1, <1>4 DEF Due
  <1>9. HeardInv'
    <2>1. \A b \in Members : Due(b)' >= Due(b)
      BY <1>8, DueRange DEF EngineInv
    <2>2. QED
      BY <1>1, <1>2, <2>1, HeardFrame DEF EngineInv
  <1>10. QED
    BY <1>1, <1>2, <1>3, <1>6, <1>7, <1>9 DEF EngineInv

LEMMA IsSilencedKeepsInv ==
  ASSUME EngineInv, NEW g \in Callers, IsSilenced(g)
  PROVE  EngineInv'
  <1> DEFINE a == alert[g]
  <1>1. /\ stage[g] = "admit" /\ a \in Members
        /\ stage' = [stage EXCEPT ![g] = "idle"] /\ alert' = [alert EXCEPT ![g] = NoAlert]
        /\ excused' = excused \cup {a}
        /\ steady' = [b \in Members |-> IF b \in {a} THEN 0 ELSE steady[b]]
        /\ UNCHANGED <<left, silenced, pending, wait, flight, sourceAge, open, age,
                       sent, calm, sourceCalm>>
    BY DEF IsSilenced, Excuse, Return, groupVars, incidentVars, EngineInv, TypeOK
  <1>2. TypeOK'
    BY <1>1, MinutesAssumption DEF EngineInv, TypeOK, Hearing
  <1>3. BusyInv'
    BY <1>1 DEF EngineInv, TypeOK, BusyInv, Busy
  <1>4. /\ stage'[g] = "idle"
        /\ \A h \in Callers \ {g} : stage'[h] = stage[h] /\ alert'[h] = alert[h]
    BY <1>1 DEF EngineInv, TypeOK
  <1>5. Waiting \subseteq Waiting' \cup {a}
    BY <1>1, <1>4 DEF Waiting
  <1>6. CoveredInv' /\ CalmInv' /\ TimerInv'
    BY <1>1, <1>5 DEF EngineInv, CoveredInv, CalmInv, TimerInv, TimerDue
  <1>7. MarkedInv'
    BY <1>1, <1>4 DEF EngineInv, TypeOK, MarkedInv
  <1>8. \A b \in Members \ {a} : Due(b)' = Due(b)
    BY <1>1, <1>4 DEF Due
  <1>9. HeardInv'
    <2> SUFFICES ASSUME Staleness >= Hearing, NEW b \in Members, steady'[b] > Due(b)'
                 PROVE  open' /\ age' <= Due(b)'
      BY DEF HeardInv, Hearing
    <2>1. Due(b)' \in Nat
      BY <1>2, DueRangeNext, MinutesAssumption DEF Hearing
    <2>2. b # a /\ steady'[b] = steady[b]
      BY <1>1, <2>1
    <2>3. QED
      BY <1>1, <1>8, <2>2 DEF EngineInv, HeardInv
  <1>10. QED
    BY <1>1, <1>2, <1>3, <1>6, <1>7, <1>9 DEF EngineInv

LEMMA AddElsewhereKeepsInv ==
  ASSUME EngineInv, NEW g \in Callers, AddElsewhere(g)
  PROVE  EngineInv'
  <1>1. /\ stage[g] = "admit" /\ alert[g] \notin Members
        /\ stage' = [stage EXCEPT ![g] = "idle"] /\ alert' = [alert EXCEPT ![g] = NoAlert]
        /\ UNCHANGED <<left, silenced, pending, wait, flight, sourceAge, open, age,
                       sent, steady, excused, calm, sourceCalm>>
    BY DEF AddElsewhere, Return, groupVars, incidentVars, historyVars, Members
  <1>2. TypeOK'
    BY <1>1 DEF EngineInv, TypeOK
  <1>3. BusyInv'
    BY <1>1 DEF EngineInv, TypeOK, BusyInv, Busy
  <1>4. /\ stage'[g] = "idle"
        /\ \A h \in Callers \ {g} : stage'[h] = stage[h] /\ alert'[h] = alert[h]
    BY <1>1 DEF EngineInv, TypeOK
  <1>5. Waiting \cap Members \subseteq Waiting'
    BY <1>1, <1>4 DEF Waiting
  <1>6. CoveredInv' /\ CalmInv' /\ TimerInv'
    BY <1>1, <1>5 DEF EngineInv, CoveredInv, CalmInv, TimerInv, TimerDue
  <1>7. MarkedInv'
    BY <1>1, <1>4 DEF EngineInv, TypeOK, MarkedInv
  <1>8. \A b \in Members : Due(b)' = Due(b)
    BY <1>1, <1>4 DEF Due
  <1>9. HeardInv'
    <2>1. \A b \in Members : Due(b)' >= Due(b)
      BY <1>8, DueRange DEF EngineInv
    <2>2. QED
      BY <1>1, <1>2, <2>1, HeardFrame DEF EngineInv
  <1>10. QED
    BY <1>1, <1>2, <1>3, <1>6, <1>7, <1>9 DEF EngineInv

LEMMA AddKeepsInv ==
  ASSUME EngineInv, NEW g \in Callers, Add(g)
  PROVE  EngineInv'
  <1> DEFINE a == alert[g]
  <1>1. /\ stage[g] = "admit" /\ a \in Members
        /\ pending' = pending \cup {a}
        /\ wait' = (IF pending = {} THEN GroupWait ELSE wait)
        /\ stage' = [stage EXCEPT ![g] = "idle"] /\ alert' = [alert EXCEPT ![g] = NoAlert]
        /\ UNCHANGED <<left, silenced, flight, sourceAge, open, age,
                       sent, steady, excused, calm, sourceCalm>>
    BY DEF Add, Return, incidentVars, historyVars
  <1>2. TypeOK'
    BY <1>1, MinutesAssumption DEF EngineInv, TypeOK
  <1>3. BusyInv'
    BY <1>1 DEF EngineInv, TypeOK, BusyInv, Busy
  <1>4. /\ stage'[g] = "idle"
        /\ \A h \in Callers \ {g} : stage'[h] = stage[h] /\ alert'[h] = alert[h]
    BY <1>1 DEF EngineInv, TypeOK
  <1>5. Waiting \subseteq Waiting'
    BY <1>1, <1>4 DEF Waiting
  <1>6. CoveredInv'
    BY <1>1, <1>5 DEF EngineInv, CoveredInv
  <1>7. calm = 0
    BY <1>1 DEF EngineInv, BusyInv, Busy
  <1>8. CalmInv' /\ TimerInv'
    BY <1>1, <1>7, MinutesAssumption DEF EngineInv, TypeOK, CalmInv, TimerInv, TimerDue
  <1>9. MarkedInv'
    BY <1>1, <1>4 DEF EngineInv, TypeOK, MarkedInv
  <1>10. ASSUME NEW b \in Members PROVE Due(b)' >= Due(b)
    <2>1. Due(b) \in Nat /\ Due(b)' \in Nat /\ wait \in 0 .. GroupWait
      BY <1>2, DueRange, DueRangeNext, MinutesAssumption DEF EngineInv, TypeOK, Hearing
    <2>2. CASE b \in flight
      BY <1>1, <2>1, <2>2 DEF Due
    <2>3. CASE b \notin flight /\ b \in pending
      BY <1>1, <2>1, <2>3 DEF Due
    <2>4. CASE b \notin flight /\ b \notin pending /\ b = a
      <3>1. Due(b) = TTL
        BY <1>1, <2>4 DEF Due
      <3>2. Due(b)' = (GroupWait - wait') + TTL
        BY <1>1, <2>4 DEF Due
      <3>3. (GroupWait - wait') + TTL >= TTL
        BY <1>2, WaitedLess DEF TypeOK
      <3>4. QED
        BY <3>1, <3>2, <3>3
    <2>5. CASE b \notin flight /\ b \notin pending /\ b # a
      <3>1. Due(b)' = Due(b)
        BY <1>1, <1>4, <2>5 DEF Due
      <3>2. QED
        BY <2>1, <3>1
    <2>6. QED
      BY <2>2, <2>3, <2>4, <2>5
  <1>11. HeardInv'
    BY <1>1, <1>2, <1>10, HeardFrame DEF EngineInv
  <1>12. QED
    BY <1>1, <1>2, <1>3, <1>6, <1>8, <1>9, <1>11 DEF EngineInv

LEMMA ResolvedKeepsInv ==
  ASSUME EngineInv, Resolved
  PROVE  EngineInv'
  <1>1. /\ open' = FALSE /\ age' = 0 /\ excused' = excused \cup Members
        /\ steady' = [b \in Members |-> IF b \in Members THEN 0 ELSE steady[b]]
        /\ UNCHANGED <<left, stage, alert, silenced, pending, wait, flight, sourceAge,
                       sent, calm, sourceCalm>>
    BY DEF Resolved, Excuse, callVars, groupVars
  <1>2. TypeOK'
    BY <1>1, ZeroAge DEF EngineInv, TypeOK
  <1>3. BusyInv' /\ CoveredInv' /\ CalmInv' /\ TimerInv' /\ MarkedInv'
    BY <1>1 DEF EngineInv, BusyInv, Busy, CoveredInv, CalmInv, TimerInv, TimerDue, MarkedInv
  <1>4. HeardInv'
    <2> SUFFICES ASSUME NEW b \in Members PROVE ~(steady'[b] > Due(b)')
      BY DEF HeardInv
    <2>1. Due(b)' \in Nat
      BY <1>2, DueRangeNext, MinutesAssumption DEF Hearing
    <2>2. QED
      BY <1>1, <2>1
  <1>5. QED
    BY <1>1, <1>2, <1>3, <1>4 DEF EngineInv

LEMMA TimerKeepsInv ==
  ASSUME EngineInv, TimerFires
  PROVE  EngineInv'
  <1>1. /\ pending # {} /\ wait = 0 /\ flight' = pending /\ pending' = {}
        /\ UNCHANGED <<left, stage, alert, silenced, wait, sourceAge, open, age,
                       sent, steady, excused, calm, sourceCalm>>
    BY DEF TimerFires, TimerDue, callVars, incidentVars, historyVars
  <1>2. flight = {}
    BY <1>1 DEF EngineInv, TimerInv, TimerDue
  <1>3. TypeOK'
    BY <1>1 DEF EngineInv, TypeOK
  <1>4. Waiting' = Waiting
    BY <1>1, <1>2 DEF Waiting
  <1>5. BusyInv' /\ CoveredInv' /\ TimerInv' /\ MarkedInv'
    BY <1>1, <1>4 DEF EngineInv, BusyInv, Busy, CoveredInv, TimerInv, TimerDue, MarkedInv
  <1>6. CalmInv'
    BY <1>1, MinutesAssumption DEF EngineInv, TypeOK, CalmInv, Forgetting
  <1>7. ASSUME NEW b \in Members PROVE Due(b)' >= Due(b)
    <2>1. Due(b) \in Nat
      BY DueRange, MinutesAssumption DEF EngineInv, Hearing
    <2>2. Due(b)' = Due(b)
      BY <1>1, <1>2, MinutesAssumption DEF Due
    <2>3. QED
      BY <2>1, <2>2
  <1>8. HeardInv'
    BY <1>1, <1>3, <1>7, HeardFrame DEF EngineInv
  <1>9. QED
    BY <1>1, <1>3, <1>5, <1>6, <1>8 DEF EngineInv

LEMMA IsInhibitedKeepsInv ==
  ASSUME EngineInv, IsInhibited
  PROVE  EngineInv'
  <1>1. /\ flight' = {} /\ excused' = excused \cup flight
        /\ steady' = [b \in Members |-> IF b \in flight THEN 0 ELSE steady[b]]
        /\ UNCHANGED <<left, stage, alert, silenced, pending, wait, sourceAge, open, age,
                       sent, calm, sourceCalm>>
    BY DEF IsInhibited, Excuse, callVars, incidentVars
  <1>2. TypeOK'
    BY <1>1, MinutesAssumption DEF EngineInv, TypeOK, Hearing
  <1>3. Waiting \subseteq Waiting' \cup flight
    BY <1>1 DEF Waiting
  <1>4. BusyInv' /\ CoveredInv' /\ CalmInv' /\ TimerInv' /\ MarkedInv'
    BY <1>1, <1>3 DEF EngineInv, BusyInv, Busy, CoveredInv, CalmInv, TimerInv, MarkedInv
  <1>5. HeardInv'
    <2> SUFFICES ASSUME Staleness >= Hearing, NEW b \in Members, steady'[b] > Due(b)'
                 PROVE  open' /\ age' <= Due(b)'
      BY DEF HeardInv, Hearing
    <2>1. Due(b)' \in Nat
      BY <1>2, DueRangeNext, MinutesAssumption DEF Hearing
    <2>2. b \notin flight /\ steady'[b] = steady[b]
      BY <1>1, <2>1
    <2>3. Due(b)' = Due(b)
      BY <1>1, <2>2 DEF Due
    <2>4. QED
      BY <1>1, <2>2, <2>3 DEF EngineInv, HeardInv
  <1>6. QED
    BY <1>1, <1>2, <1>4, <1>5 DEF EngineInv

LEMMA OnIncidentKeepsInv ==
  ASSUME EngineInv, OnIncident
  PROVE  EngineInv'
  <1>1. /\ flight # {} /\ flight' = {} /\ open' = TRUE /\ age' = 0
        /\ UNCHANGED <<left, stage, alert, silenced, pending, wait, sourceAge,
                       sent, steady, excused, calm, sourceCalm>>
    BY DEF OnIncident, callVars, historyVars
  <1>2. TypeOK'
    BY <1>1, MinutesAssumption DEF EngineInv, TypeOK
  <1>3. BusyInv' /\ CoveredInv' /\ TimerInv' /\ MarkedInv'
    BY <1>1 DEF EngineInv, BusyInv, Busy, CoveredInv, TimerInv, MarkedInv
  <1>4. CalmInv'
    BY <1>1, MinutesAssumption DEF EngineInv, TypeOK, CalmInv, Forgetting
  <1>5. HeardInv'
    <2> SUFFICES ASSUME NEW b \in Members PROVE open' /\ age' <= Due(b)'
      BY DEF HeardInv
    <2>1. Due(b)' \in 0 .. Hearing
      BY <1>2, DueRangeNext
    <2>2. QED
      BY <1>1, <2>1, MinutesAssumption DEF Hearing
  <1>6. QED
    BY <1>1, <1>2, <1>3, <1>4, <1>5 DEF EngineInv

(* Where the timeout is long enough no steady alert is due for the reaper. *)
LEMMA ReapKeepsInv ==
  ASSUME EngineInv, Reap
  PROVE  EngineInv'
  <1>1. /\ open /\ age > Staleness
        /\ open' = FALSE /\ age' = 0 /\ excused' = excused \cup Members
        /\ UNCHANGED <<left, stage, alert, silenced, pending, wait, flight, sourceAge,
                       sent, steady, calm, sourceCalm>>
    BY DEF Reap, ReaperDue, callVars, groupVars
  <1>2. TypeOK'
    BY <1>1, ZeroAge DEF EngineInv, TypeOK
  <1>3. BusyInv' /\ CoveredInv' /\ CalmInv' /\ TimerInv' /\ MarkedInv'
    BY <1>1 DEF EngineInv, BusyInv, Busy, CoveredInv, CalmInv, TimerInv, TimerDue, MarkedInv
  <1>4. HeardInv'
    <2> SUFFICES ASSUME Staleness >= Hearing, NEW b \in Members PROVE ~(steady[b] > Due(b))
      BY <1>1 DEF HeardInv, Hearing, Due
    <2>1. Due(b) \in 0 .. Hearing /\ age \in Nat
      BY <1>1, DueRange DEF EngineInv, TypeOK
    <2>2. ~(age <= Due(b))
      BY <1>1, <2>1, MinutesAssumption DEF Hearing
    <2>3. QED
      BY <2>2 DEF EngineInv, HeardInv
  <1>5. QED
    BY <1>1, <1>2, <1>3, <1>4 DEF EngineInv

LEMMA RulesKeepInv ==
  ASSUME EngineInv,
         (\E S \in SUBSET Members : Reload(S)) \/ \E a \in Members : SilenceEnds(a)
  PROVE  EngineInv'
  <1>1. /\ silenced' \subseteq Members
        /\ UNCHANGED <<left, stage, alert, pending, wait, flight, sourceAge, open, age,
                       sent, steady, excused, calm, sourceCalm>>
    BY DEF EngineInv, TypeOK, Reload, SilenceEnds, callVars, groupVars, incidentVars, historyVars
  <1>2. TypeOK'
    BY <1>1 DEF EngineInv, TypeOK
  <1>3. BusyInv' /\ CoveredInv' /\ CalmInv' /\ TimerInv' /\ MarkedInv'
    BY <1>1 DEF EngineInv, BusyInv, Busy, CoveredInv, Waiting, CalmInv, TimerInv, TimerDue, MarkedInv
  <1>4. HeardInv'
    BY <1>1 DEF EngineInv, HeardInv, Due
  <1>5. QED
    BY <1>1, <1>2, <1>3, <1>4 DEF EngineInv

(* A minute more for all ages, for everything that waits and, at most, for *)
(* whoever was received.                                                   *)
LEMMA TickAges ==
  ASSUME EngineInv, Tick
  PROVE  /\ open => age' = age + 1 /\ age <= Staleness
         /\ calm' <= calm + 1 /\ calm' \in 0 .. Forgetting + 1
         /\ pending # {} => wait > 0 /\ wait' = wait - 1
         /\ pending = {} => wait' = 0
         /\ age' \in 0 .. Staleness + 1
         /\ sourceAge' \in 0 .. InhibitTTL + 1
  BY MinutesAssumption DEF EngineInv, TypeOK, Tick, TimerDue, ReaperDue, Later, Forgetting

LEMMA TickHeard ==
  ASSUME EngineInv, Tick, NEW b \in Members, steady'[b] > 0
  PROVE  steady'[b] <= steady[b] + 1 /\ Due(b)' = Due(b) + 1
  <1>1. /\ steady' = [a \in Members |-> IF a \in sent THEN Later(steady[a], Hearing + 1) ELSE 0]
        /\ left' = [f \in Fingerprints |-> IF left[f] > 0 THEN left[f] - 1 ELSE 0]
        /\ flight = {} /\ flight' = {} /\ pending' = pending
        /\ stage' = stage /\ \A g \in Callers : stage[g] = "idle"
    BY DEF Tick, Minute, callVars
  <1>2. b \in sent /\ steady'[b] = Later(steady[b], Hearing + 1)
    BY <1>1
  <1>3. left[b] > 0
    BY <1>1, <1>2 DEF EngineInv, MarkedInv
  <1>4. left'[b] = left[b] - 1 /\ left[b] \in 0 .. TTL
    BY <1>1, <1>3, MembersAreFingerprints DEF EngineInv, TypeOK
  <1>5. steady'[b] <= steady[b] + 1
    BY <1>2, MinutesAssumption DEF EngineInv, TypeOK, Later, Hearing
  <1>6. CASE b \in pending
    <2>1. wait > 0 /\ wait' = wait - 1 /\ wait \in 0 .. GroupWait
      BY <1>6, TickAges DEF EngineInv, TypeOK
    <2>2. Due(b)' = (GroupWait - wait') + TTL /\ Due(b) = (GroupWait - wait) + TTL
      BY <1>1, <1>6 DEF Due
    <2>3. QED
      BY <1>5, <2>1, <2>2, MinutesAssumption
  <1>7. CASE b \notin pending
    <2>1. Due(b)' = TTL - left'[b] /\ Due(b) = TTL - left[b]
      BY <1>1, <1>7 DEF Due
    <2>2. QED
      BY <1>4, <1>5, <2>1, MinutesAssumption
  <1>8. QED
    BY <1>6, <1>7

LEMMA TickKeepsInv ==
  ASSUME EngineInv, Tick
  PROVE  EngineInv'
  <1>1. /\ left' = [f \in Fingerprints |-> IF left[f] > 0 THEN left[f] - 1 ELSE 0]
        /\ steady' = [a \in Members |-> IF a \in sent THEN Later(steady[a], Hearing + 1) ELSE 0]
        /\ sent' = {} /\ flight = {} /\ \A g \in Callers : stage[g] = "idle"
        /\ UNCHANGED <<stage, alert, silenced, pending, flight, open, excused>>
    BY DEF Tick, Minute, callVars
  <1>2. sourceAge' = Later(sourceAge, InhibitTTL + 1) /\ sourceCalm' = Later(sourceCalm, InhibitTTL + 1)
    BY DEF Tick
  <1>3. TypeOK'
    <2>1. left' \in [Fingerprints -> 0 .. TTL]
      BY <1>1, MinutesAssumption DEF EngineInv, TypeOK
    <2>2. steady' \in [Members -> 0 .. Hearing + 1]
      BY <1>1, MinutesAssumption DEF EngineInv, TypeOK, Later, Hearing
    <2>3. wait' \in 0 .. GroupWait /\ (pending' = {} => wait' = 0)
      BY <1>1, TickAges, MinutesAssumption DEF EngineInv, TypeOK
    <2>4. /\ age' \in 0 .. Staleness + 1 /\ calm' \in 0 .. Forgetting + 1
          /\ sourceAge' \in 0 .. InhibitTTL + 1 /\ sourceCalm' \in 0 .. InhibitTTL + 1
      BY <1>2, TickAges DEF EngineInv
    <2>5. QED
      BY <1>1, <2>1, <2>2, <2>3, <2>4 DEF EngineInv, TypeOK
  <1>4. BusyInv' /\ TimerInv' /\ MarkedInv'
    BY <1>1 DEF BusyInv, Busy, TimerInv, MarkedInv
  <1>5. CoveredInv'
    <2>1. Waiting' = Waiting
      BY <1>1 DEF Waiting
    <2>2. \A a \in Members : left'[a] > 0 => left[a] > 0
      BY <1>1, MembersAreFingerprints DEF EngineInv, TypeOK
    <2>3. QED
      BY <1>1, <2>1, <2>2 DEF EngineInv, CoveredInv
  <1>6. CalmInv'
    <2>1. pending' # {} => calm' + wait' <= GroupWait
      <3> SUFFICES ASSUME pending # {} PROVE calm' + wait' <= GroupWait
        BY <1>1
      <3>1. calm + wait <= GroupWait /\ wait' = wait - 1 /\ calm' <= calm + 1
        BY TickAges DEF EngineInv, CalmInv
      <3>2. calm \in Int /\ wait \in Int /\ calm' \in Int
        BY TickAges, MinutesAssumption DEF EngineInv, TypeOK
      <3>3. calm' + (wait - 1) <= GroupWait
        BY <3>1, <3>2, ShiftedSum
      <3>4. QED
        BY <3>1, <3>3
    <2>2. open' => calm' <= age' + GroupWait
      <3> SUFFICES ASSUME open PROVE calm' <= age' + GroupWait
        BY <1>1
      <3>1. calm <= age + GroupWait /\ age' = age + 1 /\ calm' <= calm + 1
        BY TickAges DEF EngineInv, CalmInv
      <3>2. calm \in Int /\ age \in Int /\ calm' \in Int /\ GroupWait \in Int
        BY TickAges, MinutesAssumption DEF EngineInv, TypeOK
      <3>3. QED
        BY <3>1, <3>2
    <2>3. QED
      BY <1>1, <2>1, <2>2 DEF CalmInv
  <1>7. HeardInv'
    <2> SUFFICES ASSUME Staleness >= Hearing, NEW b \in Members, steady'[b] > Due(b)'
                 PROVE  open' /\ age' <= Due(b)'
      BY DEF HeardInv, Hearing
    <2>1. Due(b) \in Nat /\ Due(b)' \in Nat /\ steady[b] \in Nat /\ steady'[b] \in Nat
      <3>1. Due(b) \in 0 .. Hearing /\ Due(b)' \in 0 .. Hearing
        BY <1>3, DueRange, DueRangeNext DEF EngineInv
      <3>2. QED
        BY <1>3, <3>1 DEF EngineInv, TypeOK
    <2>2. steady'[b] <= steady[b] + 1 /\ Due(b)' = Due(b) + 1
      BY <2>1, TickHeard
    <2>3. steady[b] > Due(b)
      BY <2>1, <2>2
    <2>4. open /\ age <= Due(b)
      BY <2>3 DEF EngineInv, HeardInv
    <2>5. age' = age + 1 /\ age \in Nat
      BY <2>4, TickAges DEF EngineInv, TypeOK
    <2>6. QED
      BY <1>1, <2>1, <2>2, <2>4, <2>5
  <1>8. sourceAge' = sourceCalm'
    BY <1>2 DEF EngineInv
  <1>9. QED
    BY <1>3, <1>4, <1>5, <1>6, <1>7, <1>8 DEF EngineInv

-----------------------------------------------------------------------------
LEMMA EngineNext == EngineInv /\ [Next]_vars => EngineInv'
  <1> SUFFICES ASSUME EngineInv, [Next]_vars PROVE EngineInv'
    OBVIOUS
  <1>1. CASE UNCHANGED vars
    BY <1>1 DEF vars, callVars, groupVars, incidentVars, historyVars, EngineInv, TypeOK, BusyInv,
                Busy, CoveredInv, Waiting, CalmInv, TimerInv, TimerDue, MarkedInv, HeardInv, Due
  <1>2. ASSUME NEW g \in Callers, NEW a \in Fingerprints, Receive(g, a) PROVE EngineInv'
    BY <1>2, ReceiveKeepsInv
  <1>3. ASSUME NEW g \in Callers, IsFirst(g) \/ IsDuplicate(g) PROVE EngineInv'
    BY <1>3, IsFirstKeepsInv, IsDuplicateKeepsInv
  <1>4. ASSUME NEW g \in Callers, IsSilenced(g) \/ Add(g) \/ AddElsewhere(g) PROVE EngineInv'
    BY <1>4, IsSilencedKeepsInv, AddKeepsInv, AddElsewhereKeepsInv
  <1>5. CASE Resolved \/ TimerFires \/ IsInhibited \/ OnIncident \/ Reap
    BY <1>5, ResolvedKeepsInv, TimerKeepsInv, IsInhibitedKeepsInv, OnIncidentKeepsInv, ReapKeepsInv
  <1>6. CASE (\E S \in SUBSET Members : Reload(S)) \/ \E a \in Members : SilenceEnds(a)
    BY <1>6, RulesKeepInv
  <1>7. CASE Tick
    BY <1>7, TickKeepsInv
  <1>8. QED
    BY <1>1, <1>2, <1>3, <1>4, <1>5, <1>6, <1>7 DEF Next

(* The inductive invariant of the engine.                                  *)
THEOREM EngineInvariant == Spec => []EngineInv
  BY EngineInit, EngineNext, PTL DEF Spec

(* Type correctness for any number of alerts, sources and goroutines.      *)
THEOREM EngineTypes == Spec => []TypeOK
  <1>1. EngineInv => TypeOK
    BY DEF EngineInv
  <1>2. QED
    BY <1>1, EngineInvariant, PTL

(* pipeline.go:123-138, aggregation.go:119-157: whatever the times, a      *)
(* staleness_timeout of at least the deduplication window and the group    *)
(* wait never closes what keeps firing.                                    *)
THEOREM SteadyAlertsAreHeard == Spec => []SteadyIsHeard
  <1>1. ASSUME EngineInv PROVE SteadyIsHeard
    <2> SUFFICES ASSUME Staleness >= Hearing, NEW a \in Members, steady[a] > Hearing
                 PROVE  open /\ age <= Hearing
      BY DEF SteadyIsHeard
    <2>1. Due(a) \in 0 .. Hearing /\ steady[a] \in Nat /\ age \in Nat /\ Hearing \in Nat
      BY <1>1, DueRange, MinutesAssumption DEF EngineInv, TypeOK, Hearing
    <2>2. open /\ age <= Due(a)
      BY <1>1, <2>1 DEF EngineInv, HeardInv
    <2>3. QED
      BY <2>1, <2>2
  <1>2. QED
    BY <1>1, EngineInvariant, PTL

(* staleness.go:61-90: with nothing received every incident is over after  *)
(* the group wait and the staleness timeout.                               *)
THEOREM CalmIncidentsClose == Spec => []CalmCloses
  <1>1. EngineInv => CalmCloses
    BY MinutesAssumption DEF EngineInv, TypeOK, CalmInv, CalmCloses, Forgetting
  <1>2. QED
    BY <1>1, EngineInvariant, PTL

(* pipeline.go:123-138: what deduplication drops is covered.               *)
THEOREM DuplicatesAreCovered == Spec => DroppedIsCovered
  <1>1. ASSUME EngineInv, [Next]_vars, NEW g \in Callers, Dropped(g)
        PROVE  open \/ alert[g] \in Waiting \cup excused
    <2>1. stage[g] = "dedup" /\ stage'[g] = "idle" /\ alert[g] \in Members
      BY <1>1 DEF Dropped
    <2>2. IsDuplicate(g)
      <3>1. \A h \in Callers : IsFirst(h) => h # g \/ stage'[g] = "admit"
        BY <2>1 DEF IsFirst, EngineInv, TypeOK
      <3>2. ASSUME NEW h \in Callers, h # g,
                   \/ IsFirst(h) \/ IsDuplicate(h) \/ IsSilenced(h) \/ Add(h) \/ AddElsewhere(h)
                   \/ \E a \in Fingerprints : Receive(h, a)
            PROVE  stage'[g] = stage[g]
        <4>1. \E v : stage' = [stage EXCEPT ![h] = v]
          BY <3>2 DEF IsFirst, IsDuplicate, IsSilenced, Add, AddElsewhere, Receive, Return
        <4>2. QED
          BY <1>1, <3>2, <4>1 DEF EngineInv, TypeOK
      <3>3. ~IsFirst(g) /\ ~IsSilenced(g) /\ ~Add(g) /\ ~AddElsewhere(g)
              /\ \A a \in Fingerprints : ~Receive(g, a)
        BY <2>1, <3>1 DEF IsSilenced, Add, AddElsewhere, Receive
      <3>4. \E h \in Callers :
                   \/ IsFirst(h) \/ IsDuplicate(h) \/ IsSilenced(h) \/ Add(h) \/ AddElsewhere(h)
                   \/ \E a \in Fingerprints : Receive(h, a)
        BY <1>1, <2>1 DEF Next, vars, callVars, Resolved, TimerFires, IsInhibited, OnIncident, Reap,
                          Reload, SilenceEnds, Tick
      <3>5. QED
        BY <2>1, <3>2, <3>3, <3>4
    <2>3. left[alert[g]] > 0
      BY <2>2 DEF IsDuplicate, Duplicate
    <2>4. QED
      BY <1>1, <2>1, <2>3 DEF EngineInv, CoveredInv
  <1>2. EngineInv /\ [Next]_vars =>
          [\A g \in Callers : Dropped(g) => open \/ alert[g] \in Waiting \cup excused]_vars
    BY <1>1
  <1>3. QED
    BY <1>2, EngineInvariant, PTL DEF Spec, DroppedIsCovered

(* pipeline.go:119-121: no group is delivered while a source keeps coming. *)
THEOREM SteadySourcesInhibit == Spec => SourceInhibits
  <1>1. EngineInv /\ [Next]_vars => [OnIncident => sourceCalm > InhibitTTL]_vars
    BY MinutesAssumption DEF EngineInv, TypeOK, OnIncident, Inhibited
  <1>2. QED
    BY <1>1, EngineInvariant, PTL DEF Spec, SourceInhibits
=============================================================================
