----------------------- MODULE IncidentLifecycleProofs -----------------------
(***************************************************************************)
(* Proofs about IncidentLifecycle, for any number of workers, operators,   *)
(* deliveries, clicks and failures, and for any windows.                   *)
(***************************************************************************)
EXTENDS IncidentLifecycle, SequenceTheorems, FiniteSetTheorems, TLAPS

Stages == {"idle", "alert", "resolved", "recent", "create", "blindCreate", "append",
           "insert", "bump", "reopen", "resolve", "sync", "next"}
Working == {"append", "insert", "bump", "reopen", "resolve", "sync"}
Clicks == [op : {"ack", "resolve", "close"}, inc : Incidents, row : Row]

RowsTyped ==
  /\ now \in Times
  /\ rows \in Seq(Row) /\ firing \in Seq(BOOLEAN) /\ heard \in Seq(Times)
  /\ Len(firing) = Len(rows) /\ Len(heard) = Len(rows)

(* A worker has the mutex exactly while it serves a call. *)
ActorsTyped ==
  /\ pc \in [Actors -> Stages]
  /\ inc \in [Actors -> {0} \cup Incidents]
  /\ \A a \in Actors : pc[a] \in Working => inc[a] \in Incidents
  /\ lock \in Workers \cup {Nobody}
  /\ \A w \in Workers : pc[w] # "idle" <=> lock = w

RestTyped ==
  /\ batch \subseteq Incidents /\ (pc[Reaper] = "idle" => batch = {})
  /\ click \in [Operators -> {NoClick} \cup Clicks]
  /\ saved \subseteq Incidents /\ revived \subseteq Incidents /\ blind \subseteq Incidents
  /\ dropped \subseteq Incidents /\ clobbered \subseteq Incidents /\ crossed \subseteq Incidents

(* No two active incidents, and none while a worker that has looked is on  *)
(* its way to open or to reopen one.                                       *)
Odd == revived \cup blind
OneInv ==
  /\ \A i, j \in Incidents : Active(i) /\ Active(j) /\ i \notin Odd /\ j \notin Odd => i = j
  /\ \A w \in Workers : pc[w] \in {"recent", "create", "reopen"} =>
       \A i \in Incidents : Active(i) => i \in Odd

(* The row says when alerts last came. *)
HeardInv == \A i \in Incidents : i \notin dropped \cup clobbered => rows[i].lastAlert = heard[i]

(* The alerts of a resolved incident are about to be resolved too, and a   *)
(* worker adds alerts to active incidents only.                            *)
Written == saved \cup dropped \cup crossed
SettledInv ==
  \A i \in Incidents : i \notin Written =>
    /\ rows[i].status = "resolved" /\ firing[i] => \E a \in Actors : inc[a] = i /\ pc[a] = "sync"
    /\ \A w \in Workers : pc[w] \in {"append", "insert"} /\ inc[w] = i => Active(i)

LifecycleInv == RowsTyped /\ ActorsTyped /\ RestTyped /\ OneInv /\ HeardInv /\ SettledInv

-----------------------------------------------------------------------------
LEMMA WrittenRow ==
  ASSUME NEW S, NEW s \in Seq(S), NEW i \in 1 .. Len(s), NEW e \in S,
         NEW t, t = [s EXCEPT ![i] = e]
  PROVE  /\ t \in Seq(S) /\ Len(t) = Len(s) /\ t[i] = e
         /\ \A j \in 1 .. Len(s) : j # i => t[j] = s[j]
BY ExceptSeq

LEMMA AppendedRow ==
  ASSUME NEW S, NEW s \in Seq(S), NEW e \in S, NEW t, t = Append(s, e)
  PROVE  /\ t \in Seq(S) /\ Len(t) = Len(s) + 1 /\ t[Len(s) + 1] = e
         /\ \A j \in 1 .. Len(s) : t[j] = s[j]
OBVIOUS

(* The end of a call gives the mutex back, and nobody else's state away. *)
LEMMA Returning ==
  ASSUME ActorsTyped, NEW a \in Actors, pc[a] # "idle", Return(a)
  PROVE  /\ pc' \in [Actors -> Stages] /\ pc'[a] = (IF a = Reaper THEN "next" ELSE "idle")
         /\ inc' \in [Actors -> {0} \cup Incidents]
         /\ \A b \in Actors : b # a => pc'[b] = pc[b] /\ inc'[b] = inc[b]
         /\ lock' \in Workers \cup {Nobody}
         /\ \A w \in Workers : pc'[w] # "idle" <=> lock' = w
BY ActorsAssumption DEF ActorsTyped, Return, Stages, Actors

(* A step inside a call. *)
LEMMA Going ==
  ASSUME ActorsTyped, NEW a \in Actors, pc[a] # "idle",
         NEW s \in Stages \ {"idle"}, pc' = [pc EXCEPT ![a] = s], lock' = lock
  PROVE  /\ pc' \in [Actors -> Stages] /\ pc'[a] = s
         /\ \A b \in Actors : b # a => pc'[b] = pc[b]
         /\ lock' \in Workers \cup {Nobody}
         /\ \A w \in Workers : pc'[w] # "idle" <=> lock' = w
BY ActorsAssumption DEF ActorsTyped, Actors

(* The mutex keeps the other workers out. *)
LEMMA Alone ==
  ASSUME ActorsTyped, NEW w \in Workers, NEW v \in Workers, v # w, pc[w] # "idle"
  PROVE  pc[v] = "idle"
BY DEF ActorsTyped

-----------------------------------------------------------------------------
LEMMA LifecycleInit == Init => LifecycleInv
<1> SUFFICES ASSUME Init PROVE LifecycleInv
  OBVIOUS
<1> USE DEF Init
<1>1. RowsTyped
  BY BoundsAssumption, EmptySeq DEF RowsTyped, Times
<1>2. ActorsTyped
  BY ActorsAssumption DEF ActorsTyped, Stages, Working, Actors
<1>3. RestTyped
  BY DEF RestTyped
<1>4. OneInv /\ HeardInv /\ SettledInv
  BY EmptySeq DEF OneInv, HeardInv, SettledInv, Incidents, Actors
<1> QED BY <1>1, <1>2, <1>3, <1>4 DEF LifecycleInv

(* A step that writes no row and ends no call. *)
Quiet == UNCHANGED <<rows, firing, historyVars>>

(* The steps that touch nothing but the clock, the mutex and the counters  *)
(* are covered by what they do to the actors.                              *)
LEMMA QuietRows ==
  ASSUME LifecycleInv, Quiet, now' \in Times
  PROVE  RowsTyped' /\ HeardInv' /\ Incidents' = Incidents
         /\ \A i \in Incidents : Active(i)' = Active(i)
BY DEF LifecycleInv, Quiet, historyVars, RowsTyped, HeardInv, Incidents, Active

LEMMA TickStep ==
  ASSUME LifecycleInv, Tick
  PROVE  LifecycleInv'
<1> USE DEF Tick, rowVars, actorVars, historyVars
<1>1. now' \in Times
  BY BoundsAssumption DEF LifecycleInv, RowsTyped, Times
<1>2. RowsTyped' /\ HeardInv' /\ Incidents' = Incidents
  BY <1>1, QuietRows DEF Quiet
<1>3. ActorsTyped' /\ RestTyped'
  BY <1>2 DEF LifecycleInv, ActorsTyped, RestTyped, Clicks
<1>4. OneInv' /\ SettledInv'
  BY <1>2 DEF LifecycleInv, OneInv, SettledInv, Active, Odd, Written
<1> QED BY <1>2, <1>3, <1>4 DEF LifecycleInv

LEMMA CallStep ==
  ASSUME LifecycleInv, NEW w \in Workers, NEW first \in {"alert", "resolved"}, Call(w, first)
  PROVE  LifecycleInv'
<1> USE DEF Call, rowVars, historyVars
<1>1. RowsTyped' /\ HeardInv' /\ Incidents' = Incidents
  BY QuietRows DEF Quiet, LifecycleInv, RowsTyped
<1>2. /\ pc'[w] = first /\ \A b \in Actors : b # w => pc'[b] = pc[b]
  BY DEF LifecycleInv, ActorsTyped, Actors
<1>3. ActorsTyped'
  BY <1>1, <1>2, ActorsAssumption DEF LifecycleInv, ActorsTyped, Stages, Working, Actors
<1>4. RestTyped'
  BY <1>1, <1>2, ActorsAssumption DEF LifecycleInv, RestTyped, Clicks, Actors
<1>5. OneInv' /\ SettledInv'
  BY <1>1, <1>2 DEF LifecycleInv, OneInv, SettledInv, Active, Odd, Written, Actors
<1> QED BY <1>1, <1>3, <1>4, <1>5 DEF LifecycleInv

LEMMA FindActiveStep ==
  ASSUME LifecycleInv, NEW w \in Workers, FindActive(w)
  PROVE  LifecycleInv'
<1> USE DEF FindActive, rowVars, historyVars
<1>1. RowsTyped' /\ HeardInv' /\ Incidents' = Incidents
  BY QuietRows DEF Quiet, LifecycleInv, RowsTyped
<1>w. w \in Actors /\ w # Reaper /\ pc[w] # "idle" /\ ActorsTyped
  BY ActorsAssumption DEF Actors, LifecycleInv
<1>2. /\ pc'[w] \in {"append", "resolve", "recent", "idle"}
      /\ \A b \in Actors : b # w => pc'[b] = pc[b] /\ inc'[b] = inc[b]
      /\ pc'[w] \in {"append", "resolve"} => inc'[w] \in Incidents /\ Active(inc'[w])
      /\ pc'[w] = "recent" => \A i \in Incidents : ~Active(i)
      /\ pc' \in [Actors -> Stages] /\ inc' \in [Actors -> {0} \cup Incidents]
      /\ lock' \in Workers \cup {Nobody} /\ \A v \in Workers : pc'[v] # "idle" <=> lock' = v
  <2>1. CASE Return(w)
    BY <1>w, <2>1, Returning
  <2>2. CASE ~Return(w)
    <3>1. PICK s \in {"append", "resolve", "recent"} :
            pc' = [pc EXCEPT ![w] = s] /\ lock' = lock
            /\ IF s = "recent" THEN inc' = inc /\ \A i \in Incidents : ~Active(i)
               ELSE \E i \in Incidents : Active(i) /\ inc' = [inc EXCEPT ![w] = i]
      BY <2>2
    <3>2. s \in Stages \ {"idle"}
      BY DEF Stages
    <3>3. inc' \in [Actors -> {0} \cup Incidents] /\ \A b \in Actors : b # w => inc'[b] = inc[b]
      BY <1>w, <3>1 DEF ActorsTyped
    <3>4. s # "recent" => inc'[w] \in Incidents /\ Active(inc'[w])
      BY <1>w, <3>1 DEF ActorsTyped
    <3> QED BY <1>w, <3>1, <3>2, <3>3, <3>4, Going
  <2> QED BY <2>1, <2>2
<1>3. ActorsTyped'
  BY <1>1, <1>2, <1>w DEF ActorsTyped, Working
<1>4. RestTyped'
  BY <1>1, <1>2, <1>w DEF LifecycleInv, RestTyped, Clicks, Actors
<1>5. OneInv'
  BY <1>1, <1>2 DEF LifecycleInv, OneInv, Active, Odd, Actors
<1>6. SettledInv'
  BY <1>1, <1>2 DEF LifecycleInv, SettledInv, Active, Written, Actors
<1> QED BY <1>1, <1>3, <1>4, <1>5, <1>6 DEF LifecycleInv

LEMMA FindRecentStep ==
  ASSUME LifecycleInv, NEW w \in Workers, FindRecent(w)
  PROVE  LifecycleInv'
<1> USE DEF FindRecent, rowVars, historyVars
<1>1. RowsTyped' /\ HeardInv' /\ Incidents' = Incidents
  BY QuietRows DEF Quiet, LifecycleInv, RowsTyped
<1>w. w \in Actors /\ w # Reaper /\ pc[w] # "idle" /\ ActorsTyped
  BY ActorsAssumption DEF Actors, LifecycleInv
<1>2. PICK s \in {"reopen", "create"} :
        /\ pc' = [pc EXCEPT ![w] = s] /\ lock' = lock
        /\ IF s = "create" THEN inc' = inc ELSE \E i \in Incidents : inc' = [inc EXCEPT ![w] = i]
  OBVIOUS
<1>3. /\ inc' \in [Actors -> {0} \cup Incidents] /\ \A b \in Actors : b # w => inc'[b] = inc[b]
      /\ s # "create" => inc'[w] \in Incidents
  BY <1>w, <1>2 DEF ActorsTyped
<1>4. /\ pc' \in [Actors -> Stages] /\ pc'[w] = s
      /\ \A b \in Actors : b # w => pc'[b] = pc[b]
      /\ lock' \in Workers \cup {Nobody} /\ \A v \in Workers : pc'[v] # "idle" <=> lock' = v
  BY <1>w, <1>2, Going DEF Stages
<1>5. ActorsTyped'
  BY <1>1, <1>3, <1>4, <1>w DEF ActorsTyped, Working
<1>6. RestTyped'
  BY <1>1, <1>4, <1>w DEF LifecycleInv, RestTyped, Clicks, Actors
<1>7. OneInv'
  BY <1>1, <1>4 DEF LifecycleInv, OneInv, Active, Odd, Actors
<1>8. SettledInv'
  BY <1>1, <1>3, <1>4 DEF LifecycleInv, SettledInv, Active, Written, Actors
<1> QED BY <1>1, <1>5, <1>6, <1>7, <1>8 DEF LifecycleInv

LEMMA LookupFailsStep ==
  ASSUME LifecycleInv, NEW w \in Workers, LookupFails(w)
  PROVE  LifecycleInv'
<1> USE DEF LookupFails, rowVars, historyVars
<1>1. RowsTyped' /\ HeardInv' /\ Incidents' = Incidents
  BY QuietRows DEF Quiet, LifecycleInv, RowsTyped
<1>w. w \in Actors /\ w # Reaper /\ pc[w] # "idle" /\ ActorsTyped
  BY ActorsAssumption DEF Actors, LifecycleInv
<1>2. /\ pc'[w] \in {"blindCreate", "idle"}
      /\ \A b \in Actors : b # w => pc'[b] = pc[b] /\ inc'[b] = inc[b]
      /\ pc' \in [Actors -> Stages] /\ inc' \in [Actors -> {0} \cup Incidents]
      /\ lock' \in Workers \cup {Nobody} /\ \A v \in Workers : pc'[v] # "idle" <=> lock' = v
  <2>1. CASE Return(w)
    BY <1>w, <2>1, Returning
  <2>2. CASE ~Return(w)
    <3>1. pc' = [pc EXCEPT ![w] = "blindCreate"] /\ lock' = lock /\ inc' = inc
      BY <2>2
    <3>2. "blindCreate" \in Stages \ {"idle"}
      BY DEF Stages
    <3>3. inc' \in [Actors -> {0} \cup Incidents]
      BY <1>w, <3>1 DEF ActorsTyped
    <3> QED BY <1>w, <3>1, <3>2, <3>3, Going
  <2> QED BY <2>1, <2>2
<1>3. ActorsTyped'
  BY <1>1, <1>2, <1>w DEF ActorsTyped, Working
<1>4. RestTyped'
  BY <1>1, <1>2, <1>w DEF LifecycleInv, RestTyped, Clicks, Actors
<1>5. OneInv'
  BY <1>1, <1>2 DEF LifecycleInv, OneInv, Active, Odd, Actors
<1>6. SettledInv'
  BY <1>1, <1>2, <1>w DEF LifecycleInv, SettledInv, Active, Written, Actors
<1> QED BY <1>1, <1>3, <1>4, <1>5, <1>6 DEF LifecycleInv

LEMMA AppendFailsStep ==
  ASSUME LifecycleInv, NEW w \in Workers, AppendFails(w)
  PROVE  LifecycleInv'
<1> USE DEF AppendFails, rowVars, historyVars
<1>1. RowsTyped' /\ HeardInv' /\ Incidents' = Incidents
  BY QuietRows DEF Quiet, LifecycleInv, RowsTyped
<1>w. w \in Actors /\ w # Reaper /\ pc[w] # "idle" /\ ActorsTyped
  BY ActorsAssumption DEF Actors, LifecycleInv
<1>2. /\ pc' \in [Actors -> Stages] /\ pc'[w] = "bump"
      /\ \A b \in Actors : b # w => pc'[b] = pc[b]
      /\ lock' \in Workers \cup {Nobody} /\ \A v \in Workers : pc'[v] # "idle" <=> lock' = v
  BY <1>w, Going DEF Stages
<1>3. ActorsTyped'
  BY <1>1, <1>2, <1>w DEF ActorsTyped, Working
<1>4. RestTyped'
  BY <1>1, <1>2, <1>w DEF LifecycleInv, RestTyped, Clicks, Actors
<1>5. OneInv'
  BY <1>1, <1>2 DEF LifecycleInv, OneInv, Active, Odd, Actors
<1>6. SettledInv'
  BY <1>1, <1>2, <1>w DEF LifecycleInv, SettledInv, Active, Written, Actors
<1> QED BY <1>1, <1>3, <1>4, <1>5, <1>6 DEF LifecycleInv

LEMMA ScanStep ==
  ASSUME LifecycleInv, Scan
  PROVE  LifecycleInv'
<1> USE DEF Scan, rowVars, historyVars
<1>1. RowsTyped' /\ HeardInv' /\ Incidents' = Incidents
  BY QuietRows DEF Quiet, LifecycleInv, RowsTyped
<1>2. Reaper \in Actors /\ pc'[Reaper] = "next" /\ \A b \in Actors : b # Reaper => pc'[b] = pc[b]
  BY DEF LifecycleInv, ActorsTyped, Actors
<1>3. ActorsTyped'
  BY <1>1, <1>2, ActorsAssumption DEF LifecycleInv, ActorsTyped, Stages, Working, Actors
<1>4. RestTyped'
  BY <1>1, <1>2 DEF LifecycleInv, RestTyped, Clicks
<1>5. OneInv' /\ SettledInv'
  BY <1>1, <1>2 DEF LifecycleInv, OneInv, SettledInv, Active, Odd, Written, Actors
<1> QED BY <1>1, <1>3, <1>4, <1>5 DEF LifecycleInv

LEMMA ReadStaleStep ==
  ASSUME LifecycleInv, ReadStale
  PROVE  LifecycleInv'
<1> USE DEF ReadStale, rowVars, historyVars
<1>1. RowsTyped' /\ HeardInv' /\ Incidents' = Incidents
  BY QuietRows DEF Quiet, LifecycleInv, RowsTyped
<1>2. /\ Reaper \in Actors /\ pc'[Reaper] \in {"next", "resolve", "idle"}
      /\ \A b \in Actors : b # Reaper => pc'[b] = pc[b] /\ inc'[b] = inc[b]
      /\ pc'[Reaper] = "resolve" => inc'[Reaper] \in Incidents
      /\ pc'[Reaper] = "idle" => batch' = {}
      /\ inc' \in [Actors -> {0} \cup Incidents] /\ pc' \in [Actors -> Stages]
  BY DEF LifecycleInv, ActorsTyped, RestTyped, Actors, Stages
<1>3. ActorsTyped'
  BY <1>1, <1>2, ActorsAssumption DEF LifecycleInv, ActorsTyped, Working, Actors
<1>4. RestTyped'
  BY <1>1, <1>2 DEF LifecycleInv, RestTyped, Clicks
<1>5. OneInv'
  BY <1>1, <1>2, ActorsAssumption DEF LifecycleInv, OneInv, Active, Odd, Actors
<1>6. SettledInv'
  BY <1>1, <1>2, ActorsAssumption DEF LifecycleInv, SettledInv, Active, Written, Actors
<1> QED BY <1>1, <1>3, <1>4, <1>5, <1>6 DEF LifecycleInv

LEMMA ClickStep ==
  ASSUME LifecycleInv, NEW u \in Operators, NEW op \in {"ack", "resolve", "close"}, Click(u, op)
  PROVE  LifecycleInv'
<1> USE DEF Click, rowVars, historyVars
<1>1. RowsTyped' /\ HeardInv' /\ Incidents' = Incidents
  BY QuietRows DEF Quiet, LifecycleInv, RowsTyped
<1>2. PICK i \in Incidents : click' = [click EXCEPT ![u] = [op |-> op, inc |-> i, row |-> rows[i]]]
  OBVIOUS
<1>3. rows[i] \in Row
  BY ElementOfSeq DEF LifecycleInv, RowsTyped, Incidents
<1>4. [op |-> op, inc |-> i, row |-> rows[i]] \in Clicks
  BY <1>3 DEF Clicks
<1>5. RestTyped'
  BY <1>1, <1>2, <1>4 DEF LifecycleInv, RestTyped, Clicks
<1>6. ActorsTyped'
  BY <1>1 DEF LifecycleInv, ActorsTyped
<1>7. OneInv' /\ SettledInv'
  BY <1>1 DEF LifecycleInv, OneInv, SettledInv, Active, Odd, Written
<1> QED BY <1>1, <1>5, <1>6, <1>7 DEF LifecycleInv

-----------------------------------------------------------------------------
(* A new incident is the only active one, or there for want of a lookup.   *)
LEMMA CreateStep ==
  ASSUME LifecycleInv, NEW w \in Workers, Create(w)
  PROVE  LifecycleInv'
<1> DEFINE new == [status |-> "open", lastAlert |-> now, resolvedAt |-> NoTime, auto |-> FALSE]
<1>w. /\ w \in Actors /\ w # Reaper /\ pc[w] # "idle"
      /\ RowsTyped /\ ActorsTyped /\ RestTyped /\ OneInv /\ HeardInv /\ SettledInv
  BY ActorsAssumption DEF Actors, LifecycleInv, Create
<1>c. /\ rows' = Append(rows, new) /\ firing' = Append(firing, FALSE) /\ heard' = Append(heard, now)
      /\ pc[w] \in {"create", "blindCreate"} /\ pc' = [pc EXCEPT ![w] = "insert"]
      /\ inc' = [inc EXCEPT ![w] = Len(rows) + 1]
      /\ blind' = IF pc[w] = "blindCreate" THEN blind \cup {Len(rows) + 1} ELSE blind
      /\ UNCHANGED <<now, lock, batch, click, saved, revived, dropped, clobbered, crossed>>
  BY DEF Create
<1>n. PICK n \in Nat : n = Len(rows) + 1
  BY <1>w DEF RowsTyped
<1>r. /\ rows' \in Seq(Row) /\ Len(rows') = n /\ rows'[n] = new
      /\ \A i \in Incidents : rows'[i] = rows[i]
  BY <1>w, <1>n, <1>c, AppendedRow DEF RowsTyped, Row, Status, ActiveStatus, Incidents
<1>f. /\ firing' \in Seq(BOOLEAN) /\ Len(firing') = n /\ firing'[n] = FALSE
      /\ \A i \in Incidents : firing'[i] = firing[i]
  <2>1. FALSE \in BOOLEAN /\ firing \in Seq(BOOLEAN) /\ Len(firing) + 1 = n /\ Incidents = 1 .. Len(firing)
    BY <1>w, <1>n DEF RowsTyped, Incidents
  <2>2. PICK no \in BOOLEAN : no = FALSE
    OBVIOUS
  <2>3. firing' = Append(firing, no)
    BY <1>c, <2>2, Zenon
  <2>4. /\ firing' \in Seq(BOOLEAN) /\ Len(firing') = Len(firing) + 1 /\ firing'[Len(firing) + 1] = no
        /\ \A i \in 1 .. Len(firing) : firing'[i] = firing[i]
    BY <2>1, <2>3, AppendedRow
  <2> QED BY <2>1, <2>2, <2>4, Zenon
<1>h. /\ heard' \in Seq(Times) /\ Len(heard') = n /\ heard'[n] = now
      /\ \A i \in Incidents : heard'[i] = heard[i]
  BY <1>w, <1>n, <1>c, AppendedRow DEF RowsTyped, Incidents
<1>i. Incidents' = Incidents \cup {n} /\ n \notin Incidents /\ n # 0
  BY <1>w, <1>n, <1>r DEF RowsTyped, Incidents
<1>a. Active(n)' /\ \A i \in Incidents : Active(i)' = Active(i)
  <2>1. rows'[n].status = "open"
    BY <1>r
  <2> QED BY <1>r, <2>1 DEF Active, ActiveStatus
<1>2. /\ pc' \in [Actors -> Stages] /\ pc'[w] = "insert"
      /\ \A b \in Actors : b # w => pc'[b] = pc[b]
      /\ lock' \in Workers \cup {Nobody} /\ \A v \in Workers : pc'[v] # "idle" <=> lock' = v
  BY <1>w, <1>c, Going DEF Stages
<1>3. /\ inc' \in [Actors -> {0} \cup Incidents'] /\ inc'[w] = n
      /\ \A b \in Actors : b # w => inc'[b] = inc[b]
  BY <1>w, <1>c, <1>n, <1>i DEF ActorsTyped
<1>4. RowsTyped'
  BY <1>w, <1>n, <1>r, <1>f, <1>h, <1>c DEF RowsTyped
<1>5. ActorsTyped'
  BY <1>w, <1>2, <1>3, <1>i DEF ActorsTyped, Working
<1>6. RestTyped'
  <2>1. Clicks \subseteq Clicks'
    BY <1>i DEF Clicks
  <2> QED BY <1>w, <1>c, <1>n, <1>2, <1>i, <2>1 DEF RestTyped, Actors
<1>7. OneInv'
  <2>1. \A v \in Workers : v # w => pc'[v] = "idle"
    BY <1>w, <1>2, Alone DEF Actors
  <2>2. pc[w] = "create" => \A i \in Incidents : Active(i) => i \in Odd
    BY <1>w, <1>c DEF OneInv
  <2>3. pc[w] # "create" => n \in Odd'
    BY <1>n, <1>c DEF Odd
  <2>4. Odd \subseteq Odd'
    BY <1>c DEF Odd
  <2> QED BY <1>w, <1>a, <1>i, <1>2, <2>1, <2>2, <2>3, <2>4 DEF OneInv
<1>8. HeardInv'
  <2>1. rows'[n].lastAlert = heard'[n]
    BY <1>r, <1>h
  <2>2. \A i \in Incidents : rows'[i] = rows[i] /\ heard'[i] = heard[i]
    BY <1>r, <1>h
  <2> QED BY <1>w, <1>i, <1>c, <2>1, <2>2 DEF HeardInv
<1>9. SettledInv'
  <2>1. Written' = Written
    BY <1>c DEF Written
  <2>2. ASSUME NEW i \in Incidents, i \notin Written
        PROVE  /\ (rows[i].status = "resolved" /\ firing[i] => \E a \in Actors : inc[a] = i /\ pc[a] = "sync")'
               /\ (\A v \in Workers : pc[v] \in {"append", "insert"} /\ inc[v] = i => Active(i))'
    <3>1. rows'[i] = rows[i] /\ firing'[i] = firing[i] /\ Active(i)' = Active(i) /\ i # n
      BY <1>r, <1>f, <1>a, <1>i, Zenon
    <3>2. rows[i].status = "resolved" /\ firing[i] => \E a \in Actors : inc[a] = i /\ pc[a] = "sync"
      BY <1>w, <2>2 DEF SettledInv
    <3>3. \A a \in Actors : inc[a] = i /\ pc[a] = "sync" => inc'[a] = i /\ pc'[a] = "sync"
      BY <1>c, <1>2, <1>3
    <3>4. \A v \in Workers : pc'[v] \in {"append", "insert"} /\ inc'[v] = i => Active(i)
      BY <1>w, <1>2, <1>3, <2>2, <3>1 DEF SettledInv, Actors
    <3> QED BY <3>1, <3>2, <3>3, <3>4, Zenon
  <2>3. \A v \in Workers : pc'[v] \in {"append", "insert"} /\ inc'[v] = n => Active(n)'
    BY <1>a
  <2> QED BY <1>i, <1>f, <2>1, <2>2, <2>3 DEF SettledInv
<1> QED BY <1>4, <1>5, <1>6, <1>7, <1>8, <1>9 DEF LifecycleInv

LEMMA ReopenStep ==
  ASSUME LifecycleInv, NEW w \in Workers, Reopen(w)
  PROVE  LifecycleInv'
<1> USE DEF Reopen
<1> DEFINE n == inc[w]
           new == [status |-> "open", lastAlert |-> now, resolvedAt |-> NoTime, auto |-> FALSE]
<1>w. /\ w \in Actors /\ w # Reaper /\ pc[w] # "idle"
      /\ RowsTyped /\ ActorsTyped /\ RestTyped /\ OneInv /\ HeardInv /\ SettledInv
  BY ActorsAssumption DEF Actors, LifecycleInv
<1>n. n \in Incidents
  BY <1>w DEF ActorsTyped, Working
<1>r. /\ rows' \in Seq(Row) /\ Len(rows') = Len(rows) /\ rows'[n] = new
      /\ \A i \in Incidents : i # n => rows'[i] = rows[i]
  <2>1. new \in Row
    BY <1>w DEF RowsTyped, Row, Status, ActiveStatus
  <2> QED BY <1>w, <1>n, <2>1, WrittenRow DEF RowsTyped, Incidents
<1>h. /\ heard' \in Seq(Times) /\ Len(heard') = Len(heard) /\ heard'[n] = now
      /\ \A i \in Incidents : i # n => heard'[i] = heard[i]
  BY <1>w, <1>n, WrittenRow DEF RowsTyped, Incidents
<1>i. Incidents' = Incidents
  BY <1>r DEF Incidents
<1>a. Active(n)' /\ \A i \in Incidents : i # n => Active(i)' = Active(i)
  BY <1>r DEF Active, ActiveStatus
<1>2. /\ pc' \in [Actors -> Stages] /\ pc'[w] = "insert"
      /\ \A b \in Actors : b # w => pc'[b] = pc[b]
      /\ lock' \in Workers \cup {Nobody} /\ \A v \in Workers : pc'[v] # "idle" <=> lock' = v
  BY <1>w, Going DEF Stages
<1>4. RowsTyped'
  BY <1>w, <1>r, <1>h DEF RowsTyped
<1>5. ActorsTyped'
  BY <1>w, <1>2, <1>n, <1>i DEF ActorsTyped, Working
<1>6. RestTyped'
  BY <1>w, <1>2, <1>i DEF RestTyped, Actors, Clicks
<1>7. OneInv'
  <2>1. \A v \in Workers : v # w => pc'[v] = "idle"
    BY <1>w, <1>2, Alone DEF Actors
  <2>2. \A i \in Incidents : Active(i) => i \in Odd
    BY <1>w DEF OneInv
  <2>3. Odd' = Odd
    BY DEF Odd
  <2> QED BY <1>w, <1>a, <1>i, <1>2, <2>1, <2>2, <2>3 DEF OneInv
<1>8. HeardInv'
  BY <1>w, <1>i, <1>r, <1>h DEF HeardInv
<1>9. SettledInv'
  <2>1. Written' = Written
    BY DEF Written
  <2>2. ASSUME NEW i \in Incidents, i \notin Written, i # n
        PROVE  /\ (rows[i].status = "resolved" /\ firing[i] => \E a \in Actors : inc[a] = i /\ pc[a] = "sync")'
               /\ (\A v \in Workers : pc[v] \in {"append", "insert"} /\ inc[v] = i => Active(i))'
    BY <1>w, <1>r, <1>a, <1>2, <2>2 DEF SettledInv, Actors
  <2> QED BY <1>i, <1>r, <1>a, <2>1, <2>2 DEF SettledInv
<1> QED BY <1>4, <1>5, <1>6, <1>7, <1>8, <1>9 DEF LifecycleInv

-----------------------------------------------------------------------------
LEMMA WrittenFiring ==
  ASSUME RowsTyped, NEW i \in Incidents, NEW b \in BOOLEAN, firing' = [firing EXCEPT ![i] = b]
  PROVE  /\ firing' \in Seq(BOOLEAN) /\ Len(firing') = Len(firing) /\ firing'[i] = b
         /\ \A j \in Incidents : j # i => firing'[j] = firing[j]
BY WrittenRow DEF RowsTyped, Incidents

LEMMA AddAlertsStep ==
  ASSUME LifecycleInv, NEW w \in Workers, AddAlerts(w)
  PROVE  LifecycleInv'
<1> USE DEF AddAlerts, historyVars
<1>w. /\ w \in Actors /\ w # Reaper /\ pc[w] # "idle"
      /\ RowsTyped /\ ActorsTyped /\ RestTyped /\ OneInv /\ HeardInv /\ SettledInv
  BY ActorsAssumption DEF Actors, LifecycleInv
<1>n. inc[w] \in Incidents
  BY <1>w DEF ActorsTyped, Working
<1>i. Incidents' = Incidents /\ \A i \in Incidents : Active(i)' = Active(i)
  BY DEF Incidents, Active
<1>y. PICK yes \in BOOLEAN : yes = TRUE
  OBVIOUS
<1>f. /\ firing' \in Seq(BOOLEAN) /\ Len(firing') = Len(firing)
      /\ \A i \in Incidents : i # inc[w] => firing'[i] = firing[i]
  <2>1. firing' = [firing EXCEPT ![inc[w]] = yes]
    BY <1>y, Zenon
  <2> QED BY <1>w, <1>n, <2>1, WrittenFiring
<1>2. /\ pc' \in [Actors -> Stages] /\ inc' \in [Actors -> {0} \cup Incidents]
      /\ \A b \in Actors : b # w => pc'[b] = pc[b] /\ inc'[b] = inc[b]
      /\ pc'[w] = "idle" \/ (pc'[w] = "bump" /\ inc'[w] = inc[w])
      /\ lock' \in Workers \cup {Nobody} /\ \A v \in Workers : pc'[v] # "idle" <=> lock' = v
  <2>1. CASE pc[w] = "insert"
    BY <1>w, <2>1, Returning
  <2>2. CASE pc[w] # "insert"
    <3>1. pc' = [pc EXCEPT ![w] = "bump"] /\ lock' = lock /\ inc' = inc
      BY <2>2
    <3> QED BY <1>w, <3>1, Going DEF ActorsTyped, Stages
  <2> QED BY <2>1, <2>2
<1>3. RowsTyped'
  BY <1>w, <1>f DEF RowsTyped
<1>4. ActorsTyped'
  BY <1>w, <1>n, <1>2, <1>i DEF ActorsTyped, Working
<1>5. RestTyped'
  BY <1>w, <1>2, <1>i DEF RestTyped, Clicks, Actors
<1>6. OneInv' /\ HeardInv'
  BY <1>w, <1>2, <1>i DEF OneInv, Odd, HeardInv, Actors
<1>7. SettledInv'
  <2> SUFFICES ASSUME NEW i \in Incidents, i \notin Written
               PROVE  /\ (rows[i].status = "resolved" /\ firing[i] => \E a \in Actors : inc[a] = i /\ pc[a] = "sync")'
                      /\ (\A v \in Workers : pc[v] \in {"append", "insert"} /\ inc[v] = i => Active(i))'
    BY <1>i DEF SettledInv, Written
  <2>1. \A v \in Workers : pc'[v] \in {"append", "insert"} /\ inc'[v] = i => Active(i)'
    BY <1>w, <1>2, <1>i DEF SettledInv, Actors
  <2>2. CASE i = inc[w]
    <3>1. Active(i)
      BY <1>w, <2>2 DEF SettledInv
    <3>2. rows'[i].status # "resolved"
      BY <3>1 DEF Active, ActiveStatus
    <3> QED BY <2>1, <3>2
  <2>3. CASE i # inc[w]
    <3>1. firing'[i] = firing[i] /\ rows'[i] = rows[i]
      BY <1>f, <2>3, Zenon
    <3>2. rows[i].status = "resolved" /\ firing[i] => \E a \in Actors : inc[a] = i /\ pc[a] = "sync"
      BY <1>w DEF SettledInv
    <3>3. \A a \in Actors : inc[a] = i /\ pc[a] = "sync" => inc'[a] = i /\ pc'[a] = "sync"
      BY <1>2
    <3> QED BY <2>1, <3>1, <3>2, <3>3, Zenon
  <2> QED BY <2>2, <2>3
<1> QED BY <1>3, <1>4, <1>5, <1>6, <1>7 DEF LifecycleInv

LEMMA SyncAlertsStep ==
  ASSUME LifecycleInv, NEW a \in Actors, SyncAlerts(a)
  PROVE  LifecycleInv'
<1> USE DEF SyncAlerts, historyVars
<1>w. /\ pc[a] # "idle"
      /\ RowsTyped /\ ActorsTyped /\ RestTyped /\ OneInv /\ HeardInv /\ SettledInv
  BY DEF LifecycleInv
<1>n. inc[a] \in Incidents
  BY <1>w DEF ActorsTyped, Working
<1>i. Incidents' = Incidents /\ \A i \in Incidents : Active(i)' = Active(i)
  BY DEF Incidents, Active
<1>y. PICK no \in BOOLEAN : no = FALSE
  OBVIOUS
<1>f. /\ firing' \in Seq(BOOLEAN) /\ Len(firing') = Len(firing) /\ firing'[inc[a]] = no
      /\ \A i \in Incidents : i # inc[a] => firing'[i] = firing[i]
  <2>1. firing' = [firing EXCEPT ![inc[a]] = no]
    BY <1>y, Zenon
  <2> QED BY <1>w, <1>n, <2>1, WrittenFiring
<1>2. /\ pc' \in [Actors -> Stages] /\ inc' \in [Actors -> {0} \cup Incidents]
      /\ \A b \in Actors : b # a => pc'[b] = pc[b] /\ inc'[b] = inc[b]
      /\ pc'[a] = (IF a = Reaper THEN "next" ELSE "idle")
      /\ lock' \in Workers \cup {Nobody} /\ \A v \in Workers : pc'[v] # "idle" <=> lock' = v
  BY <1>w, Returning
<1>3. RowsTyped'
  BY <1>w, <1>f DEF RowsTyped
<1>4. ActorsTyped'
  BY <1>w, <1>2, <1>i DEF ActorsTyped, Working
<1>5. RestTyped'
  BY <1>w, <1>2, <1>i DEF RestTyped, Clicks, Actors
<1>6. OneInv' /\ HeardInv'
  BY <1>w, <1>2, <1>i DEF OneInv, Odd, HeardInv, Actors
<1>7. SettledInv'
  <2> SUFFICES ASSUME NEW i \in Incidents, i \notin Written
               PROVE  /\ (rows[i].status = "resolved" /\ firing[i] => \E b \in Actors : inc[b] = i /\ pc[b] = "sync")'
                      /\ (\A v \in Workers : pc[v] \in {"append", "insert"} /\ inc[v] = i => Active(i))'
    BY <1>i DEF SettledInv, Written
  <2>1. \A v \in Workers : pc'[v] \in {"append", "insert"} /\ inc'[v] = i => Active(i)'
    BY <1>w, <1>2, <1>i DEF SettledInv, Actors
  <2>2. CASE i = inc[a]
    BY <1>f, <1>y, <2>1, <2>2, Zenon
  <2>3. CASE i # inc[a]
    <3>1. firing'[i] = firing[i] /\ rows'[i] = rows[i]
      BY <1>f, <2>3, Zenon
    <3>2. rows[i].status = "resolved" /\ firing[i] => \E b \in Actors : inc[b] = i /\ pc[b] = "sync"
      BY <1>w DEF SettledInv
    <3>3. \A b \in Actors : inc[b] = i /\ pc[b] = "sync" => inc'[b] = i /\ pc'[b] = "sync"
      BY <1>2, <2>3
    <3> QED BY <2>1, <3>1, <3>2, <3>3, Zenon
  <2> QED BY <2>2, <2>3
<1> QED BY <1>3, <1>4, <1>5, <1>6, <1>7 DEF LifecycleInv

-----------------------------------------------------------------------------
(* The end of a worker's call, or of the reaper's attempt, that leaves the *)
(* status of every row and all alerts alone.                               *)
LEMMA Ending ==
  ASSUME LifecycleInv, NEW a \in Actors, pc[a] # "idle", Return(a),
         Incidents' = Incidents, \A i \in Incidents : rows'[i].status = rows[i].status,
         UNCHANGED <<firing, saved, revived, blind, crossed>>,
         dropped \subseteq dropped', pc[a] = "sync" => inc[a] \in dropped'
  PROVE  ActorsTyped' /\ OneInv' /\ SettledInv' /\ (pc'[Reaper] = "idle" => pc[Reaper] = "idle")
<1>w. ActorsTyped /\ OneInv /\ SettledInv
  BY DEF LifecycleInv
<1>i. \A i \in Incidents : Active(i)' = Active(i)
  BY DEF Active
<1>2. /\ pc' \in [Actors -> Stages] /\ inc' \in [Actors -> {0} \cup Incidents]
      /\ \A b \in Actors : b # a => pc'[b] = pc[b] /\ inc'[b] = inc[b]
      /\ pc'[a] = (IF a = Reaper THEN "next" ELSE "idle")
      /\ lock' \in Workers \cup {Nobody} /\ \A v \in Workers : pc'[v] # "idle" <=> lock' = v
  BY <1>w, Returning
<1>3. ActorsTyped'
  BY <1>w, <1>2 DEF ActorsTyped, Working
<1>4. OneInv'
  BY <1>w, <1>2, <1>i DEF OneInv, Odd, Actors
<1>5. SettledInv'
  <2> SUFFICES ASSUME NEW i \in Incidents, i \notin Written'
               PROVE  /\ (rows[i].status = "resolved" /\ firing[i] => \E b \in Actors : inc[b] = i /\ pc[b] = "sync")'
                      /\ (\A v \in Workers : pc[v] \in {"append", "insert"} /\ inc[v] = i => Active(i))'
    BY DEF SettledInv
  <2>1. i \notin Written /\ i \notin dropped'
    BY DEF Written
  <2>2. \A v \in Workers : pc'[v] \in {"append", "insert"} /\ inc'[v] = i => Active(i)'
    BY <1>w, <1>2, <1>i, <2>1 DEF SettledInv, Actors
  <2>3. rows[i].status = "resolved" /\ firing[i] => \E b \in Actors : inc[b] = i /\ pc[b] = "sync"
    BY <1>w, <2>1 DEF SettledInv
  <2>4. \A b \in Actors : inc[b] = i /\ pc[b] = "sync" => inc'[b] = i /\ pc'[b] = "sync"
    BY <1>2, <2>1
  <2>5. rows'[i].status = rows[i].status /\ firing' = firing
    OBVIOUS
  <2> QED BY <2>2, <2>3, <2>4, <2>5, Zenon
<1>6. pc'[Reaper] = "idle" => pc[Reaper] = "idle"
  BY <1>2 DEF Actors
<1> QED BY <1>3, <1>4, <1>5, <1>6

LEMMA BumpLastAlertStep ==
  ASSUME LifecycleInv, NEW w \in Workers, BumpLastAlert(w)
  PROVE  LifecycleInv'
<1> USE DEF BumpLastAlert
<1>w. /\ w \in Actors /\ w # Reaper /\ pc[w] # "idle"
      /\ RowsTyped /\ ActorsTyped /\ RestTyped /\ HeardInv
  BY ActorsAssumption DEF Actors, LifecycleInv
<1>n. inc[w] \in Incidents
  BY <1>w DEF ActorsTyped, Working
<1>r. /\ rows' \in Seq(Row) /\ Len(rows') = Len(rows) /\ rows'[inc[w]].lastAlert = now
      /\ \A i \in Incidents : rows'[i].status = rows[i].status
      /\ \A i \in Incidents : i # inc[w] => rows'[i] = rows[i]
  <2> DEFINE new == [rows[inc[w]] EXCEPT !.lastAlert = now]
  <2>1. rows[inc[w]] \in Row
    BY <1>w, <1>n, ElementOfSeq DEF RowsTyped, Incidents
  <2>2. new \in Row /\ new.lastAlert = now /\ new.status = rows[inc[w]].status
    BY <1>w, <2>1 DEF RowsTyped, Row
  <2>3. rows' = [rows EXCEPT ![inc[w]] = new]
    OBVIOUS
  <2> HIDE DEF new
  <2>4. /\ rows' \in Seq(Row) /\ Len(rows') = Len(rows) /\ rows'[inc[w]] = new
        /\ \A i \in Incidents : i # inc[w] => rows'[i] = rows[i]
    BY <1>w, <1>n, <2>2, <2>3, WrittenRow DEF RowsTyped, Incidents
  <2> QED BY <2>2, <2>4
<1>h. /\ heard' \in Seq(Times) /\ Len(heard') = Len(heard) /\ heard'[inc[w]] = now
      /\ \A i \in Incidents : i # inc[w] => heard'[i] = heard[i]
  BY <1>w, <1>n, WrittenRow DEF RowsTyped, Incidents
<1>i. Incidents' = Incidents
  BY <1>r DEF Incidents
<1>1. ActorsTyped' /\ OneInv' /\ SettledInv' /\ (pc'[Reaper] = "idle" => pc[Reaper] = "idle")
  BY <1>w, <1>r, <1>i, Ending
<1>2. RowsTyped'
  BY <1>w, <1>r, <1>h DEF RowsTyped
<1>3. RestTyped'
  BY <1>w, <1>1, <1>i DEF RestTyped, Clicks
<1>4. HeardInv'
  BY <1>w, <1>i, <1>r, <1>h DEF HeardInv
<1> QED BY <1>1, <1>2, <1>3, <1>4 DEF LifecycleInv

LEMMA BumpFailsStep ==
  ASSUME LifecycleInv, NEW w \in Workers, BumpFails(w)
  PROVE  LifecycleInv'
<1> USE DEF BumpFails, rowVars
<1>w. /\ w \in Actors /\ w # Reaper /\ pc[w] = "bump"
      /\ RowsTyped /\ ActorsTyped /\ RestTyped /\ HeardInv
  BY ActorsAssumption DEF Actors, LifecycleInv
<1>n. inc[w] \in Incidents
  BY <1>w DEF ActorsTyped, Working
<1>h. /\ heard' \in Seq(Times) /\ Len(heard') = Len(heard)
      /\ \A i \in Incidents : i # inc[w] => heard'[i] = heard[i]
  BY <1>w, <1>n, WrittenRow DEF RowsTyped, Incidents
<1>i. Incidents' = Incidents
  BY DEF Incidents
<1>1. ActorsTyped' /\ OneInv' /\ SettledInv' /\ (pc'[Reaper] = "idle" => pc[Reaper] = "idle")
  BY <1>w, <1>i, Ending
<1>2. RowsTyped'
  BY <1>w, <1>h DEF RowsTyped
<1>3. RestTyped'
  BY <1>w, <1>n, <1>1, <1>i DEF RestTyped, Clicks
<1>4. HeardInv'
  BY <1>w, <1>i, <1>h DEF HeardInv
<1> QED BY <1>1, <1>2, <1>3, <1>4 DEF LifecycleInv

LEMMA WriteFailsStep ==
  ASSUME LifecycleInv, NEW a \in Actors, WriteFails(a)
  PROVE  LifecycleInv'
<1> USE DEF WriteFails, rowVars
<1>w. pc[a] # "idle" /\ RowsTyped /\ ActorsTyped /\ RestTyped /\ HeardInv
  BY DEF LifecycleInv
<1>n. /\ pc[a] = "sync" => inc[a] \in dropped'
      /\ dropped \subseteq dropped' /\ dropped' \subseteq Incidents
  <2>1. inc[a] \in {0} \cup Incidents /\ (pc[a] = "sync" => inc[a] \in Incidents)
    BY <1>w DEF ActorsTyped, Working
  <2>2. 0 \notin Incidents
    BY <1>w DEF RowsTyped, Incidents
  <2> QED BY <1>w, <2>1, <2>2 DEF RestTyped
<1>i. Incidents' = Incidents
  BY DEF Incidents
<1>1. ActorsTyped' /\ OneInv' /\ SettledInv' /\ (pc'[Reaper] = "idle" => pc[Reaper] = "idle")
  BY <1>w, <1>n, <1>i, Ending
<1>2. RowsTyped'
  BY <1>w DEF RowsTyped
<1>3. RestTyped'
  BY <1>w, <1>n, <1>1, <1>i DEF RestTyped, Clicks
<1>4. HeardInv'
  BY <1>w, <1>n, <1>i DEF HeardInv
<1> QED BY <1>1, <1>2, <1>3, <1>4 DEF LifecycleInv

-----------------------------------------------------------------------------
(* A resolution that found the incident active; its alerts come next.  If  *)
(* a worker has the incident in hand, it is the reaper that resolves it.   *)
LEMMA AutoResolveStep ==
  ASSUME LifecycleInv, NEW a \in Actors, AutoResolve(a)
  PROVE  LifecycleInv'
<1> USE DEF AutoResolve
<1> DEFINE n == inc[a]
<1>w. /\ pc[a] = "resolve" /\ n \in Incidents /\ rows[n] \in Row
      /\ RowsTyped /\ ActorsTyped /\ RestTyped /\ OneInv /\ HeardInv /\ SettledInv
  BY ElementOfSeq DEF LifecycleInv, ActorsTyped, RowsTyped, Working, Incidents
<1>1. CASE ~Active(n)
  <2>0. Return(a) /\ UNCHANGED <<now, rows, firing, batch, click, historyVars>>
    BY <1>1 DEF historyVars
  <2> USE DEF historyVars
  <2>i. Incidents' = Incidents
    BY <2>0 DEF Incidents
  <2>1. ActorsTyped' /\ OneInv' /\ SettledInv' /\ (pc'[Reaper] = "idle" => pc[Reaper] = "idle")
    BY <1>w, <2>0, <2>i, Ending
  <2>2. RowsTyped' /\ HeardInv'
    BY <1>w, <2>0, <2>i DEF RowsTyped, HeardInv
  <2>3. RestTyped'
    BY <1>w, <2>0, <2>1, <2>i DEF RestTyped, Clicks
  <2> QED BY <2>1, <2>2, <2>3 DEF LifecycleInv
<1>2. CASE Active(n)
  <2>0. /\ rows' = [rows EXCEPT ![n] = [@ EXCEPT !.status = "resolved", !.resolvedAt = now, !.auto = TRUE]]
        /\ pc' = [pc EXCEPT ![a] = "sync"] /\ inc' = inc /\ lock' = lock
        /\ crossed' = (IF a = Reaper /\ InHand(n) THEN crossed \cup {n} ELSE crossed)
        /\ UNCHANGED <<now, firing, batch, click, heard, saved, revived, blind, dropped, clobbered>>
    BY <1>2
  <2>r. /\ rows' \in Seq(Row) /\ Len(rows') = Len(rows)
        /\ rows'[n].status = "resolved" /\ rows'[n].lastAlert = rows[n].lastAlert
        /\ \A i \in Incidents : i # n => rows'[i] = rows[i]
    <3> DEFINE new == [rows[n] EXCEPT !.status = "resolved", !.resolvedAt = now, !.auto = TRUE]
    <3>1. new \in Row /\ new.status = "resolved" /\ new.lastAlert = rows[n].lastAlert
      BY <1>w DEF RowsTyped, Row, Status
    <3>2. rows' = [rows EXCEPT ![n] = new]
      BY <2>0
    <3> HIDE DEF new
    <3>3. /\ rows' \in Seq(Row) /\ Len(rows') = Len(rows) /\ rows'[n] = new
          /\ \A i \in Incidents : i # n => rows'[i] = rows[i]
      BY <1>w, <3>1, <3>2, WrittenRow DEF RowsTyped, Incidents
    <3> QED BY <3>1, <3>3
  <2>i. Incidents' = Incidents
    BY <2>r DEF Incidents
  <2>a. /\ \A i \in Incidents : Active(i)' => Active(i)
        /\ \A i \in Incidents : i # n => Active(i)' = Active(i)
    BY <1>2, <2>r DEF Active
  <2>p. /\ pc' \in [Actors -> Stages] /\ pc'[a] = "sync"
        /\ \A b \in Actors : b # a => pc'[b] = pc[b]
        /\ lock' \in Workers \cup {Nobody} /\ \A v \in Workers : pc'[v] # "idle" <=> lock' = v
    BY <1>w, <2>0, Going DEF Stages
  <2>1. RowsTyped'
    BY <1>w, <2>0, <2>r DEF RowsTyped
  <2>2. ActorsTyped'
    BY <1>w, <2>0, <2>p, <2>i DEF ActorsTyped, Working
  <2>3. RestTyped'
    BY <1>w, <2>0, <2>p, <2>i DEF RestTyped, Clicks, Actors
  <2>4. OneInv'
    BY <1>w, <2>0, <2>p, <2>i, <2>a DEF OneInv, Odd, Actors
  <2>5. HeardInv'
    BY <1>w, <2>0, <2>r, <2>i DEF HeardInv
  <2>6. SettledInv'
    <3> SUFFICES ASSUME NEW i \in Incidents, i \notin Written'
                 PROVE  /\ (rows[i].status = "resolved" /\ firing[i] => \E b \in Actors : inc[b] = i /\ pc[b] = "sync")'
                        /\ (\A v \in Workers : pc[v] \in {"append", "insert"} /\ inc[v] = i => Active(i))'
      BY <2>i DEF SettledInv
    <3>1. i \notin Written
      BY <2>0 DEF Written
    <3>2. CASE i = n
      <4>1. inc'[a] = i /\ pc'[a] = "sync"
        BY <2>0, <2>p, <3>2
      <4>2. ASSUME NEW v \in Workers, pc'[v] \in {"append", "insert"}, inc'[v] = i
            PROVE  FALSE
        <5>1. v # a /\ pc[v] \in {"append", "insert"} /\ inc[v] = i
          BY <2>0, <2>p, <4>2 DEF Actors
        <5>2. CASE a = Reaper
          BY <2>0, <3>2, <5>1, <5>2 DEF InHand, Written
        <5>3. CASE a # Reaper
          BY <1>w, <5>1, <5>3, Alone DEF Actors
        <5> QED BY <5>2, <5>3
      <4> QED BY <4>1, <4>2
    <3>3. CASE i # n
      <4>1. rows'[i] = rows[i] /\ firing' = firing
        BY <2>0, <2>r, <3>3
      <4>2. rows[i].status = "resolved" /\ firing[i] => \E b \in Actors : inc[b] = i /\ pc[b] = "sync"
        BY <1>w, <3>1 DEF SettledInv
      <4>3. \A b \in Actors : inc[b] = i /\ pc[b] = "sync" => inc'[b] = i /\ pc'[b] = "sync"
        BY <2>0, <2>p, <3>3
      <4>4. \A v \in Workers : pc'[v] \in {"append", "insert"} /\ inc'[v] = i => Active(i)'
        BY <1>w, <2>0, <2>p, <2>a, <3>1, <3>3 DEF SettledInv, Actors
      <4> QED BY <4>1, <4>2, <4>3, <4>4, Zenon
    <3> QED BY <3>2, <3>3
  <2> QED BY <2>1, <2>2, <2>3, <2>4, <2>5, <2>6 DEF LifecycleInv
<1> QED BY <1>1, <1>2

(* An operator's Save: every excuse it can give is written down with it.   *)
LEMMA SaveStep ==
  ASSUME LifecycleInv, NEW u \in Operators, Save(u)
  PROVE  LifecycleInv'
<1> DEFINE n == click[u].inc
<1>w. RowsTyped /\ ActorsTyped /\ RestTyped /\ OneInv /\ HeardInv /\ SettledInv
  BY DEF LifecycleInv
<1>1. /\ click[u] \in Clicks /\ n \in Incidents
      /\ click[u].row \in Row /\ click[u].op \in {"ack", "resolve", "close"}
  BY <1>w DEF Save, RestTyped, Clicks
<1>2. PICK new \in Row :
        /\ new.lastAlert = click[u].row.lastAlert
        /\ rows' = [rows EXCEPT ![n] = new] /\ click' = [click EXCEPT ![u] = NoClick]
        /\ saved' = saved \cup {n}
        /\ revived' = (IF ~Active(n) /\ new.status \in ActiveStatus THEN revived \cup {n} ELSE revived)
        /\ clobbered' = (IF rows[n] # click[u].row THEN clobbered \cup {n} ELSE clobbered)
        /\ crossed' = (IF InHand(n) THEN crossed \cup {n} ELSE crossed)
        /\ UNCHANGED <<now, firing, lock, pc, inc, batch, heard, blind, dropped>>
  <2> DEFINE r == Clicked(click[u].op, click[u].row)
  <2>1. r \in Row /\ r.lastAlert = click[u].row.lastAlert
    BY <1>w, <1>1 DEF Clicked, Row, Status, ActiveStatus, RowsTyped
  <2> QED BY <2>1 DEF Save
<1>r. /\ rows' \in Seq(Row) /\ Len(rows') = Len(rows) /\ rows'[n] = new
      /\ \A i \in Incidents : i # n => rows'[i] = rows[i]
  BY <1>w, <1>1, <1>2, WrittenRow DEF RowsTyped, Incidents
<1>i. Incidents' = Incidents
  BY <1>r DEF Incidents
<1>a. \A i \in Incidents : Active(i)' => Active(i) \/ i \in revived'
  BY <1>1, <1>2, <1>r DEF Active
<1>o. Odd \subseteq Odd'
  BY <1>2 DEF Odd
<1>3. RowsTyped'
  BY <1>w, <1>2, <1>r DEF RowsTyped
<1>4. ActorsTyped'
  BY <1>w, <1>2, <1>i DEF ActorsTyped
<1>5. RestTyped'
  BY <1>w, <1>1, <1>2, <1>i DEF RestTyped, Clicks
<1>6. OneInv'
  <2>1. \A i \in Incidents : Active(i)' /\ i \notin Odd' => Active(i) /\ i \notin Odd
    BY <1>a, <1>o DEF Odd
  <2>2. pc' = pc
    BY <1>2
  <2> QED BY <1>w, <1>i, <2>1, <2>2 DEF OneInv
<1>7. HeardInv'
  <2>1. \A i \in Incidents : i \notin dropped' \cup clobbered' => i \notin dropped \cup clobbered /\ rows'[i].lastAlert = rows[i].lastAlert
    BY <1>2, <1>r
  <2> QED BY <1>w, <1>2, <1>i, <2>1 DEF HeardInv
<1>8. SettledInv'
  <2> SUFFICES ASSUME NEW i \in Incidents, i \notin Written'
               PROVE  /\ (rows[i].status = "resolved" /\ firing[i] => \E b \in Actors : inc[b] = i /\ pc[b] = "sync")'
                      /\ (\A v \in Workers : pc[v] \in {"append", "insert"} /\ inc[v] = i => Active(i))'
    BY <1>i DEF SettledInv
  <2>1. i \notin Written /\ i # n
    BY <1>2 DEF Written
  <2>2. rows'[i] = rows[i] /\ Active(i)' = Active(i)
    BY <1>r, <2>1 DEF Active
  <2>3. pc' = pc /\ inc' = inc /\ firing' = firing
    BY <1>2
  <2>4. /\ (rows[i].status = "resolved" /\ firing[i] => \E b \in Actors : inc[b] = i /\ pc[b] = "sync")
        /\ (\A v \in Workers : pc[v] \in {"append", "insert"} /\ inc[v] = i => Active(i))
    BY <1>w, <2>1 DEF SettledInv
  <2> QED BY <2>2, <2>3, <2>4, Zenon
<1> QED BY <1>3, <1>4, <1>5, <1>6, <1>7, <1>8 DEF LifecycleInv

-----------------------------------------------------------------------------
LEMMA LifecycleNext == LifecycleInv /\ [Next]_vars => LifecycleInv'
<1> SUFFICES ASSUME LifecycleInv, [Next]_vars PROVE LifecycleInv'
  OBVIOUS
<1>1. CASE Tick \/ Scan \/ ReadStale
  BY <1>1, TickStep, ScanStep, ReadStaleStep
<1>2. ASSUME NEW w \in Workers, Call(w, "alert") \/ Call(w, "resolved") PROVE LifecycleInv'
  BY <1>2, CallStep
<1>3. ASSUME NEW w \in Workers, FindActive(w) \/ FindRecent(w) \/ Create(w) \/ Reopen(w) PROVE LifecycleInv'
  BY <1>3, FindActiveStep, FindRecentStep, CreateStep, ReopenStep
<1>4. ASSUME NEW w \in Workers, AddAlerts(w) \/ BumpLastAlert(w) PROVE LifecycleInv'
  BY <1>4, AddAlertsStep, BumpLastAlertStep
<1>5. ASSUME NEW w \in Workers, LookupFails(w) \/ AppendFails(w) \/ BumpFails(w) PROVE LifecycleInv'
  BY <1>5, LookupFailsStep, AppendFailsStep, BumpFailsStep
<1>6. ASSUME NEW a \in Actors, AutoResolve(a) \/ SyncAlerts(a) \/ WriteFails(a) PROVE LifecycleInv'
  BY <1>6, AutoResolveStep, SyncAlertsStep, WriteFailsStep
<1>7. ASSUME NEW u \in Operators, Click(u, "ack") \/ Click(u, "resolve") \/ Click(u, "close") \/ Save(u)
      PROVE  LifecycleInv'
  BY <1>7, ClickStep, SaveStep
<1>8. CASE UNCHANGED vars
  <2> USE DEF vars, rowVars, actorVars, historyVars
  <2>1. RowsTyped' /\ HeardInv' /\ Incidents' = Incidents
    BY <1>8, QuietRows DEF Quiet, LifecycleInv, RowsTyped
  <2>2. ActorsTyped' /\ RestTyped'
    BY <1>8, <2>1 DEF LifecycleInv, ActorsTyped, RestTyped, Clicks
  <2>3. OneInv' /\ SettledInv'
    BY <1>8, <2>1 DEF LifecycleInv, OneInv, SettledInv, Active, Odd, Written
  <2> QED BY <2>1, <2>2, <2>3 DEF LifecycleInv
<1> QED BY <1>1, <1>2, <1>3, <1>4, <1>5, <1>6, <1>7, <1>8 DEF Next

(* The invariant of the rows, the mutex and the actors that work on them.  *)
THEOREM LifecycleInvariant == Spec => []LifecycleInv
<1>1. Init => LifecycleInv
  BY LifecycleInit
<1>2. LifecycleInv /\ [Next]_vars => LifecycleInv'
  BY LifecycleNext
<1> QED BY <1>1, <1>2, PTL DEF Spec

(* Type correctness, and a mutex (service.go:42-48) that is held exactly   *)
(* by the worker being served, for any number of workers.                  *)
THEOREM LifecycleTypes == Spec => []TypeOK
<1>1. LifecycleInv => TypeOK
  <2> SUFFICES ASSUME LifecycleInv PROVE TypeOK
    OBVIOUS
  <2>0. RowsTyped /\ ActorsTyped /\ RestTyped
    BY DEF LifecycleInv
  <2>1. firing \in [Incidents -> BOOLEAN] /\ heard \in [Incidents -> Times]
    BY <2>0, LenProperties DEF RowsTyped, Incidents
  <2>2. ASSUME NEW u \in Operators, click[u] # NoClick
        PROVE  click[u].inc \in Incidents /\ click[u].row \in Row
    BY <2>0, <2>2 DEF RestTyped, Clicks
  <2>3. UNION {saved, revived, blind, dropped, clobbered, crossed} \subseteq Incidents
    BY <2>0 DEF RestTyped
  <2> QED BY <2>0, <2>1, <2>2, <2>3 DEF TypeOK, RowsTyped, ActorsTyped, RestTyped
<1> QED BY <1>1, LifecycleInvariant, PTL

(* The promise of the group's mutex (service.go:42-48): however many       *)
(* workers, operators and failures, the group has one active incident at   *)
(* most but for those an operator revived and those of a failed lookup.    *)
THEOREM AtMostOneActive == Spec => []OneActive
<1>1. LifecycleInv => OneActive
  <2> SUFFICES ASSUME LifecycleInv PROVE OneActive
    OBVIOUS
  <2> DEFINE S == {i \in Incidents : Active(i)} \ (revived \cup blind)
  <2>1. \A i, j \in S : i = j
    BY DEF LifecycleInv, OneInv, Odd
  <2>2. CASE S = {}
    BY <2>2, FS_EmptySet DEF OneActive
  <2>3. CASE S # {}
    <3>1. PICK i \in S : TRUE
      BY <2>3
    <3>2. S = {i}
      BY <2>1
    <3>3. Cardinality(S) = 1
      BY <3>2, FS_Singleton
    <3> QED BY <3>3 DEF OneActive
  <2> QED BY <2>2, <2>3
<1> QED BY <1>1, LifecycleInvariant, PTL

(* syncAlertStatusesToResolved (service.go:904-905): once the handlers are *)
(* done with a resolved incident none of its alerts is firing, unless one  *)
(* of the named excuses holds.                                             *)
THEOREM AlertsAreSettled == Spec => []AlertsSettled
<1>1. LifecycleInv => AlertsSettled
  BY DEF LifecycleInv, SettledInv, AlertsSettled, Busy, Written
<1> QED BY <1>1, LifecycleInvariant, PTL

(* The reaper's query (repository.go, FindStaleActive): it takes up an     *)
(* incident only after a silence longer than the timeout.                  *)
THEOREM ReaperTakesTheSilent == Spec => ReaperSelectsSilent
<1>1. LifecycleInv /\ [Next]_vars =>
        [pc[Reaper] = "idle" => \A i \in batch' : Silent(i) \/ i \in dropped \cup clobbered]_vars
  <2> SUFFICES ASSUME LifecycleInv, [Next]_vars, pc[Reaper] = "idle", NEW i \in batch',
                      i \notin dropped \cup clobbered
               PROVE  Silent(i)
    OBVIOUS
  <2>0. RowsTyped /\ ActorsTyped /\ RestTyped /\ HeardInv /\ batch = {}
    BY DEF LifecycleInv, RestTyped
  <2>1. CASE Scan
    <3>1. i \in Incidents /\ rows[i].lastAlert < now - StalenessTimeout
      BY <2>1 DEF Scan, Stale
    <3>2. rows[i].lastAlert = heard[i]
      BY <2>0, <3>1 DEF HeardInv
    <3>3. rows[i] \in Row
      BY <2>0, <3>1, ElementOfSeq DEF RowsTyped, Incidents
    <3>4. rows[i].lastAlert \in Int /\ now \in Int /\ StalenessTimeout \in Int
      BY <2>0, <3>3, WindowsAssumption DEF RowsTyped, Row, Times
    <3> QED BY <3>1, <3>2, <3>4 DEF Silent
  <2>2. ASSUME batch' = batch PROVE FALSE
    BY <2>0, <2>2
  <2>3. CASE Tick \/ ReadStale \/ UNCHANGED vars
    BY <2>2, <2>3 DEF Tick, ReadStale, vars, actorVars
  <2>4. ASSUME NEW w \in Workers,
               \/ Call(w, "alert") \/ Call(w, "resolved")
               \/ FindActive(w) \/ FindRecent(w) \/ Create(w) \/ Reopen(w)
               \/ AddAlerts(w) \/ BumpLastAlert(w)
               \/ LookupFails(w) \/ AppendFails(w) \/ BumpFails(w)
        PROVE  FALSE
    BY <2>2, <2>4 DEF Call, FindActive, FindRecent, Create, Reopen, AddAlerts, BumpLastAlert,
                      LookupFails, AppendFails, BumpFails
  <2>5. ASSUME NEW a \in Actors, AutoResolve(a) \/ SyncAlerts(a) \/ WriteFails(a) PROVE FALSE
    BY <2>2, <2>5 DEF AutoResolve, SyncAlerts, WriteFails
  <2>6. ASSUME NEW u \in Operators, Click(u, "ack") \/ Click(u, "resolve") \/ Click(u, "close") \/ Save(u)
        PROVE  FALSE
    BY <2>2, <2>6 DEF Click, Save
  <2> QED BY <2>1, <2>3, <2>4, <2>5, <2>6 DEF Next
<1> QED BY <1>1, LifecycleInvariant, PTL DEF Spec, ReaperSelectsSilent

(* What a resolution wrote (service.go:873-876) stays until an operator    *)
(* Saves the row or an alert reopens it: the other writers find the row    *)
(* active, or write last_alert_at alone.                                   *)
THEOREM ResolutionsLast == Spec => ResolvedOnce
<1> DEFINE Same(i) == [rows'[i] EXCEPT !.lastAlert = 0] = [rows[i] EXCEPT !.lastAlert = 0]
           Saved(i) == \E u \in Operators : click[u] # NoClick /\ click[u].inc = i /\ click'[u] = NoClick
<1>1. LifecycleInv /\ [Next]_vars =>
        [\A i \in Incidents :
           ~Active(i) /\ [rows'[i] EXCEPT !.lastAlert = 0] # [rows[i] EXCEPT !.lastAlert = 0]
             => \/ rows'[i].status = "open"
                \/ \E u \in Operators : click[u] # NoClick /\ click[u].inc = i /\ click'[u] = NoClick]_vars
  <2> SUFFICES ASSUME LifecycleInv, [Next]_vars, NEW i \in Incidents, ~Active(i)
               PROVE  Same(i) \/ rows'[i].status = "open" \/ Saved(i)
    OBVIOUS
  <2>0. /\ RowsTyped /\ ActorsTyped /\ RestTyped /\ rows[i] \in Row
        /\ rows \in [Incidents -> Row]
    BY ElementOfSeq, LenProperties DEF LifecycleInv, RowsTyped, Incidents
  <2>s. rows'[i] = rows[i] => Same(i)
    OBVIOUS
  <2>1. CASE rows' = rows
    BY <2>1, <2>s
  <2>2. CASE Tick \/ Scan \/ ReadStale \/ UNCHANGED vars
    BY <2>1, <2>2 DEF Tick, Scan, ReadStale, vars, rowVars
  <2>3. ASSUME NEW w \in Workers,
               \/ Call(w, "alert") \/ Call(w, "resolved") \/ FindActive(w) \/ FindRecent(w)
               \/ AddAlerts(w) \/ LookupFails(w) \/ AppendFails(w) \/ BumpFails(w)
        PROVE  Same(i)
    BY <2>1, <2>3 DEF Call, FindActive, FindRecent, AddAlerts, LookupFails, AppendFails, BumpFails, rowVars
  <2>4. ASSUME NEW w \in Workers, Create(w) PROVE Same(i)
    <3> DEFINE new == [status |-> "open", lastAlert |-> now, resolvedAt |-> NoTime, auto |-> FALSE]
    <3>1. rows' = Append(rows, new)
      BY <2>4 DEF Create
    <3>2. new \in Row
      BY <2>0 DEF RowsTyped, Row, Status, ActiveStatus
    <3>3. rows'[i] = rows[i]
      BY <2>0, <3>1, <3>2, AppendedRow DEF RowsTyped, Incidents
    <3> QED BY <2>s, <3>3
  <2>5. ASSUME NEW w \in Workers, Reopen(w) PROVE Same(i) \/ rows'[i].status = "open"
    BY <2>0, <2>s, <2>5 DEF Reopen
  <2>6. ASSUME NEW w \in Workers, BumpLastAlert(w) PROVE Same(i)
    <3>1. CASE i = inc[w]
      <4>1. rows'[i] = [rows[i] EXCEPT !.lastAlert = now]
        BY <2>0, <2>6, <3>1 DEF BumpLastAlert
      <4> QED BY <2>0, <4>1 DEF Row
    <3>2. CASE i # inc[w]
      BY <2>0, <2>s, <2>6, <3>2 DEF BumpLastAlert
    <3> QED BY <3>1, <3>2
  <2>7. ASSUME NEW a \in Actors, AutoResolve(a) PROVE Same(i)
    <3>1. rows'[i] = rows[i]
      BY <2>0, <2>7 DEF AutoResolve
    <3> QED BY <2>s, <3>1
  <2>8. ASSUME NEW a \in Actors, SyncAlerts(a) \/ WriteFails(a) PROVE Same(i)
    BY <2>1, <2>8 DEF SyncAlerts, WriteFails, rowVars
  <2>9. ASSUME NEW u \in Operators, Click(u, "ack") \/ Click(u, "resolve") \/ Click(u, "close")
        PROVE  Same(i)
    BY <2>1, <2>9 DEF Click, rowVars
  <2>10. ASSUME NEW u \in Operators, Save(u) PROVE Same(i) \/ Saved(i)
    <3>1. CASE i = click[u].inc
      <4>1. click[u] # NoClick /\ click'[u] = NoClick
        BY <2>0, <2>10 DEF Save, RestTyped
      <4> QED BY <3>1, <4>1
    <3>2. CASE i # click[u].inc
      <4>1. rows'[i] = rows[i]
        BY <2>0, <2>10, <3>2 DEF Save
      <4> QED BY <2>s, <4>1
    <3> QED BY <3>1, <3>2
  <2> QED BY <2>2, <2>3, <2>4, <2>5, <2>6, <2>7, <2>8, <2>9, <2>10 DEF Next
<1> QED BY <1>1, LifecycleInvariant, PTL DEF Spec, ResolvedOnce
=============================================================================
