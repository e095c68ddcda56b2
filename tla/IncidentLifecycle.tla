------------------------- MODULE IncidentLifecycle --------------------------
(***************************************************************************)
(* The incidents of one group key: internal/incident/service.go,           *)
(* repository.go and staleness.go.  Four kinds of actor work on the same   *)
(* rows, one database statement at a time:                                 *)
(*                                                                         *)
(*   workers    ingest goroutines in HandleAlertGroup or                   *)
(*              HandleResolvedAlert, one at a time under the lock of the   *)
(*              group key;                                                 *)
(*   Reaper     the staleness reaper, without the lock;                    *)
(*   operators  Ack, Resolve and Close: they read a row, change the copy   *)
(*              and Save the whole copy, without the lock.                 *)
(*                                                                         *)
(* Groups share nothing but the reaper's loop, so one group stands for     *)
(* all.  Which notifications are sent is the subject of RepeatCadence.     *)
(***************************************************************************)
EXTENDS Integers, Sequences, FiniteSets

CONSTANTS Workers, Operators, Reaper, Nobody,
          ReopenWindow,       \* incident.reopen_window
          StalenessTimeout,   \* incident.staleness_timeout
          CallsUntil,         \* bound: no call starts after this time
          MaxTime, MaxCalls, MaxClicks, MaxFailures   \* bounds

ASSUME WindowsAssumption == ReopenWindow \in Nat /\ StalenessTimeout \in Nat \ {0}
ASSUME ActorsAssumption == Reaper \notin Workers /\ Nobody \notin Workers
ASSUME BoundsAssumption == MaxTime \in Nat

Actors == Workers \cup {Reaper}
NoTime == -1

VARIABLES now,
          rows,     \* rows[i]: incident i, in the order they were opened
          firing,   \* firing[i]: the alerts table has a firing alert of i
          lock,     \* who holds the group key's mutex
          pc,       \* pc[a]: the statement actor a executes next
          inc,      \* inc[a]: the incident actor a works on
          batch,    \* what is left of the reaper's scan
          click,    \* click[u]: the operator's request being served, and its copy
          heard,      \* history: when incident i last got alerts
          saved,      \* history: incidents an operator's Save has written
          revived,    \* history: incidents a Save made active again
          blind,      \* history: incidents created because a lookup failed
          dropped,    \* history: incidents one of whose updates failed
          clobbered,  \* history: incidents a Save put an older row back
          crossed,    \* history: closed, but not by a worker, while a worker had them in hand
          calls, clicks, failures

rowVars == <<rows, firing>>
actorVars == <<lock, pc, inc, batch, click>>
historyVars == <<heard, saved, revived, blind, dropped, clobbered, crossed>>
countVars == <<calls, clicks, failures>>
vars == <<now, rowVars, actorVars, historyVars, countVars>>

ActiveStatus == {"open", "ack"}     \* no code sets "in_progress"
Status == ActiveStatus \cup {"resolved", "closed"}

Incidents == 1 .. Len(rows)
Active(i) == rows[i].status \in ActiveStatus
NoClick == [op |-> "none"]

Init ==
  /\ now = 0
  /\ rows = <<>> /\ firing = <<>>
  /\ lock = Nobody
  /\ pc = [a \in Actors |-> "idle"] /\ inc = [a \in Actors |-> 0]
  /\ batch = {}
  /\ click = [u \in Operators |-> NoClick]
  /\ heard = <<>>
  /\ saved = {} /\ revived = {} /\ blind = {} /\ dropped = {} /\ clobbered = {} /\ crossed = {}
  /\ calls = 0 /\ clicks = 0 /\ failures = 0

(* Time passes; after CallsUntil only when no call is being served. *)
Tick ==
  /\ now < MaxTime
  /\ now >= CallsUntil => lock = Nobody
  /\ now' = now + 1
  /\ UNCHANGED <<rowVars, actorVars, historyVars, countVars>>

-----------------------------------------------------------------------------
(* HandleAlertGroup and HandleResolvedAlert *)

(* Mutant: the mutex is not taken. *)
Call_NoLock(w, first) ==
  /\ pc[w] = "idle"
  /\ calls < MaxCalls /\ now <= CallsUntil
  /\ calls' = calls + 1
  /\ lock' = w
  /\ pc' = [pc EXCEPT ![w] = first]
  /\ UNCHANGED <<now, rowVars, inc, batch, click, historyVars, clicks, failures>>

Call(w, first) ==
  /\ pc[w] = "idle" /\ lock = Nobody
  /\ calls < MaxCalls /\ now <= CallsUntil
  /\ calls' = calls + 1
  /\ lock' = w
  /\ pc' = [pc EXCEPT ![w] = first]
  /\ UNCHANGED <<now, rowVars, inc, batch, click, historyVars, clicks, failures>>

(* The deferred unlock of a handler; the reaper goes to its next row. *)
Return(a) ==
  /\ pc' = [pc EXCEPT ![a] = IF a = Reaper THEN "next" ELSE "idle"]
  /\ inc' = [inc EXCEPT ![a] = 0]
  /\ lock' = IF a = Reaper THEN lock ELSE Nobody

(* Mutant: the query asks for open incidents only. *)
FindActive_OpenOnly(w) ==
  /\ pc[w] \in {"alert", "resolved"}
  /\ \/ \E i \in Incidents :
          /\ rows[i].status = "open"
          /\ \A j \in Incidents : rows[j].status = "open" => j <= i
          /\ inc' = [inc EXCEPT ![w] = i]
          /\ pc' = [pc EXCEPT ![w] = IF @ = "alert" THEN "append" ELSE "resolve"]
          /\ UNCHANGED lock
     \/ /\ \A i \in Incidents : rows[i].status # "open"
        /\ IF pc[w] = "resolved" THEN Return(w)
           ELSE pc' = [pc EXCEPT ![w] = "recent"] /\ UNCHANGED <<inc, lock>>
  /\ UNCHANGED <<now, rowVars, batch, click, historyVars, countVars>>

(* FindActiveByGroupKey, first query: the newest active incident. *)
FindActive(w) ==
  /\ pc[w] \in {"alert", "resolved"}
  /\ \/ \E i \in Incidents :
          /\ Active(i) /\ \A j \in Incidents : Active(j) => j <= i
          /\ inc' = [inc EXCEPT ![w] = i]
          /\ pc' = [pc EXCEPT ![w] = IF @ = "alert" THEN "append" ELSE "resolve"]
          /\ UNCHANGED lock
     \/ /\ \A i \in Incidents : ~Active(i)
        /\ IF pc[w] = "resolved" THEN Return(w)
           ELSE pc' = [pc EXCEPT ![w] = "recent"] /\ UNCHANGED <<inc, lock>>
  /\ UNCHANGED <<now, rowVars, batch, click, historyVars, countVars>>

InWindow(i) ==
  /\ rows[i].status = "resolved" /\ rows[i].resolvedAt # NoTime
  /\ rows[i].resolvedAt >= now - ReopenWindow

(* Second query: the incident resolved last, if still in the window.  A    *)
(* window of 0 disables it.                                                *)
FindRecent(w) ==
  /\ pc[w] = "recent"
  /\ \/ \E i \in Incidents :
          /\ ReopenWindow > 0 /\ InWindow(i)
          /\ \A j \in Incidents : InWindow(j) => rows[j].resolvedAt <= rows[i].resolvedAt
          /\ inc' = [inc EXCEPT ![w] = i]
          /\ pc' = [pc EXCEPT ![w] = "reopen"]
     \/ /\ ReopenWindow = 0 \/ \A i \in Incidents : ~InWindow(i)
        /\ pc' = [pc EXCEPT ![w] = "create"]
        /\ UNCHANGED inc
  /\ UNCHANGED <<now, rowVars, lock, batch, click, historyVars, countVars>>

(* createIncident: the INSERT of the row. *)
Create(w) ==
  /\ pc[w] \in {"create", "blindCreate"}
  /\ rows' = Append(rows, [status |-> "open", lastAlert |-> now,
                           resolvedAt |-> NoTime, auto |-> FALSE])
  /\ firing' = Append(firing, FALSE)
  /\ heard' = Append(heard, now)
  /\ blind' = IF pc[w] = "blindCreate" THEN blind \cup {Len(rows) + 1} ELSE blind
  /\ inc' = [inc EXCEPT ![w] = Len(rows) + 1]
  /\ pc' = [pc EXCEPT ![w] = "insert"]
  /\ UNCHANGED <<now, lock, batch, click, saved, revived, dropped, clobbered, crossed, countVars>>

(* Mutant: reopenIncident forgets last_alert_at. *)
Reopen_KeepsLastAlert(w) ==
  /\ pc[w] = "reopen"
  /\ rows' = [rows EXCEPT ![inc[w]] = [status |-> "open", lastAlert |-> @.lastAlert,
                                       resolvedAt |-> NoTime, auto |-> FALSE]]
  /\ heard' = [heard EXCEPT ![inc[w]] = now]
  /\ pc' = [pc EXCEPT ![w] = "insert"]
  /\ UNCHANGED <<now, firing, lock, inc, batch, click,
                 saved, revived, blind, dropped, clobbered, crossed, countVars>>

(* reopenIncident: the UPDATE, by id alone. *)
Reopen(w) ==
  /\ pc[w] = "reopen"
  /\ rows' = [rows EXCEPT ![inc[w]] = [status |-> "open", lastAlert |-> now,
                                       resolvedAt |-> NoTime, auto |-> FALSE]]
  /\ heard' = [heard EXCEPT ![inc[w]] = now]
  /\ pc' = [pc EXCEPT ![w] = "insert"]
  /\ UNCHANGED <<now, firing, lock, inc, batch, click,
                 saved, revived, blind, dropped, clobbered, crossed, countVars>>

(* AddAlerts.  It ends createIncident and reopenIncident as far as this    *)
(* module goes; appendToIncident goes on to last_alert_at.                 *)
AddAlerts(w) ==
  /\ pc[w] \in {"append", "insert"}
  /\ firing' = [firing EXCEPT ![inc[w]] = TRUE]
  /\ IF pc[w] = "append"
       THEN pc' = [pc EXCEPT ![w] = "bump"] /\ UNCHANGED <<inc, lock>>
       ELSE Return(w)
  /\ UNCHANGED <<now, rows, batch, click, historyVars, countVars>>

(* appendToIncident: the UPDATE of last_alert_at. *)
BumpLastAlert(w) ==
  /\ pc[w] = "bump"
  /\ rows' = [rows EXCEPT ![inc[w]].lastAlert = now]
  /\ heard' = [heard EXCEPT ![inc[w]] = now]
  /\ Return(w)
  /\ UNCHANGED <<now, firing, batch, click,
                 saved, revived, blind, dropped, clobbered, crossed, countVars>>

-----------------------------------------------------------------------------
(* autoResolve, for a resolved signal and for the reaper *)

InHand(i) == \E w \in Workers : inc[w] = i /\ pc[w] \in {"append", "insert", "bump", "reopen"}

(* Mutant: the UPDATE without its condition on the status. *)
AutoResolve_Unguarded(a) ==
  /\ pc[a] = "resolve"
  /\ rows' = [rows EXCEPT ![inc[a]] = [@ EXCEPT !.status = "resolved",
                                       !.resolvedAt = now, !.auto = TRUE]]
  /\ pc' = [pc EXCEPT ![a] = "sync"]
  /\ crossed' = IF a = Reaper /\ InHand(inc[a]) THEN crossed \cup {inc[a]} ELSE crossed
  /\ UNCHANGED <<now, firing, lock, inc, batch, click,
                 heard, saved, revived, blind, dropped, clobbered, countVars>>

AutoResolve(a) ==
  LET i == inc[a] IN
  /\ pc[a] = "resolve"
  /\ IF Active(i)
       THEN /\ rows' = [rows EXCEPT ![i] = [@ EXCEPT !.status = "resolved",
                                            !.resolvedAt = now, !.auto = TRUE]]
            /\ pc' = [pc EXCEPT ![a] = "sync"]
            /\ crossed' = IF a = Reaper /\ InHand(i) THEN crossed \cup {i} ELSE crossed
            /\ UNCHANGED <<inc, lock>>
       ELSE Return(a) /\ UNCHANGED <<rows, crossed>>
  /\ UNCHANGED <<now, firing, batch, click,
                 heard, saved, revived, blind, dropped, clobbered, countVars>>

(* ... then the alerts of the incident that are still firing. *)
SyncAlerts(a) ==
  /\ pc[a] = "sync"
  /\ firing' = [firing EXCEPT ![inc[a]] = FALSE]
  /\ Return(a)
  /\ UNCHANGED <<now, rows, batch, click, historyVars, countVars>>

-----------------------------------------------------------------------------
(* Database errors: they are logged, and the handler returns or goes on.   *)

Fail == failures < MaxFailures /\ failures' = failures + 1

(* HandleAlertGroup treats a failed lookup like an empty one. *)
LookupFails(w) ==
  /\ pc[w] \in {"alert", "recent", "resolved"} /\ Fail
  /\ IF pc[w] = "resolved" THEN Return(w)
     ELSE pc' = [pc EXCEPT ![w] = "blindCreate"] /\ UNCHANGED <<inc, lock>>
  /\ UNCHANGED <<now, rowVars, batch, click, historyVars, calls, clicks>>

(* Create, Reopen, autoResolve: the call is over.  (The alert sync and the *)
(* last statements of the other handlers are over anyway.)                 *)
WriteFails(a) ==
  /\ pc[a] \in {"create", "blindCreate", "reopen", "resolve", "sync", "insert"} /\ Fail
  /\ dropped' = IF inc[a] = 0 THEN dropped ELSE dropped \cup {inc[a]}
  /\ Return(a)
  /\ UNCHANGED <<now, rowVars, batch, click, heard, saved, revived, blind, clobbered, crossed,
                 calls, clicks>>

(* appendToIncident goes on after a failed INSERT of the alerts ... *)
AppendFails(w) ==
  /\ pc[w] = "append" /\ Fail
  /\ pc' = [pc EXCEPT ![w] = "bump"]
  /\ UNCHANGED <<now, rowVars, lock, inc, batch, click, historyVars, calls, clicks>>

(* ... and after a failed UPDATE of last_alert_at. *)
BumpFails(w) ==
  /\ pc[w] = "bump" /\ Fail
  /\ heard' = [heard EXCEPT ![inc[w]] = now]
  /\ dropped' = dropped \cup {inc[w]}
  /\ Return(w)
  /\ UNCHANGED <<now, rowVars, batch, click, saved, revived, blind, clobbered, crossed, calls, clicks>>

-----------------------------------------------------------------------------
(* stalenessScanOnce and AutoResolveStale *)

Stale(i) == Active(i) /\ rows[i].lastAlert < now - StalenessTimeout

(* Mutant: the scan looks at open incidents only. *)
Scan_OpenOnly ==
  /\ pc[Reaper] = "idle"
  /\ batch' = {i \in Incidents : Stale(i) /\ rows[i].status = "open"}
  /\ batch' # {}
  /\ pc' = [pc EXCEPT ![Reaper] = "next"]
  /\ UNCHANGED <<now, rowVars, lock, inc, click, historyVars, countVars>>

Scan ==
  /\ pc[Reaper] = "idle"
  /\ batch' = {i \in Incidents : Stale(i)}
  /\ batch' # {}
  /\ pc' = [pc EXCEPT ![Reaper] = "next"]
  /\ UNCHANGED <<now, rowVars, lock, inc, click, historyVars, countVars>>

(* FindByID and the check of its status, row by row. *)
ReadStale ==
  /\ pc[Reaper] = "next"
  /\ \/ \E i \in batch :
          /\ batch' = batch \ {i}
          /\ IF Active(i)
               THEN /\ inc' = [inc EXCEPT ![Reaper] = i]
                    /\ pc' = [pc EXCEPT ![Reaper] = "resolve"]
               ELSE UNCHANGED <<inc, pc>>
     \/ /\ batch = {}
        /\ pc' = [pc EXCEPT ![Reaper] = "idle"]
        /\ UNCHANGED <<inc, batch>>
  /\ UNCHANGED <<now, rowVars, lock, click, historyVars, countVars>>

-----------------------------------------------------------------------------
(* Ack, Resolve and Close *)

Click(u, op) ==
  /\ click[u] = NoClick
  /\ clicks < MaxClicks /\ now <= CallsUntil
  /\ clicks' = clicks + 1
  /\ \E i \in Incidents :
       click' = [click EXCEPT ![u] = [op |-> op, inc |-> i, row |-> rows[i]]]
  /\ UNCHANGED <<now, rowVars, lock, pc, inc, batch, historyVars, calls, failures>>

Clicked(op, row) ==
  CASE op = "ack"     -> [row EXCEPT !.status = "ack"]
    [] op = "resolve" -> [row EXCEPT !.status = "resolved", !.resolvedAt = now]
    [] op = "close"   -> [row EXCEPT !.status = "closed"]

(* repo.Update saves every column of the copy. *)
Save(u) ==
  LET i == click[u].inc
      row == Clicked(click[u].op, click[u].row)
  IN
  /\ click[u] # NoClick
  /\ rows' = [rows EXCEPT ![i] = row]
  /\ click' = [click EXCEPT ![u] = NoClick]
  /\ saved' = saved \cup {i}
  /\ revived' = IF ~Active(i) /\ row.status \in ActiveStatus THEN revived \cup {i} ELSE revived
  /\ clobbered' = IF rows[i] # click[u].row THEN clobbered \cup {i} ELSE clobbered
  /\ crossed' = IF InHand(i) THEN crossed \cup {i} ELSE crossed
  /\ UNCHANGED <<now, firing, lock, pc, inc, batch, heard, blind, dropped, countVars>>

-----------------------------------------------------------------------------
Next ==
  \/ Tick \/ Scan \/ ReadStale
  \/ \E w \in Workers :
       \/ Call(w, "alert") \/ Call(w, "resolved")
       \/ FindActive(w) \/ FindRecent(w) \/ Create(w) \/ Reopen(w)
       \/ AddAlerts(w) \/ BumpLastAlert(w)
       \/ LookupFails(w) \/ AppendFails(w) \/ BumpFails(w)
  \/ \E a \in Actors : AutoResolve(a) \/ SyncAlerts(a) \/ WriteFails(a)
  \/ \E u \in Operators :
       Click(u, "ack") \/ Click(u, "resolve") \/ Click(u, "close") \/ Save(u)

Spec == Init /\ [][Next]_vars

(* A call that has started runs to its end, and so does a click; time      *)
(* passes; the reaper's ticker ticks.  Nothing makes calls or clicks come. *)
Fairness ==
  /\ WF_vars(Tick) /\ WF_vars(Scan) /\ WF_vars(ReadStale)
  /\ \A w \in Workers :
       WF_vars(\/ FindActive(w) \/ FindRecent(w) \/ Create(w) \/ Reopen(w)
               \/ AddAlerts(w) \/ BumpLastAlert(w)
               \/ LookupFails(w) \/ AppendFails(w) \/ BumpFails(w))
  /\ \A a \in Actors : WF_vars(AutoResolve(a) \/ SyncAlerts(a) \/ WriteFails(a))
  /\ \A u \in Operators : WF_vars(Save(u))

FairSpec == Spec /\ Fairness

-----------------------------------------------------------------------------
Times == 0 .. MaxTime

Row == [status : Status, lastAlert : Times, resolvedAt : Times \cup {NoTime}, auto : BOOLEAN]

(* Types, and a mutex that is held exactly by the worker being served. *)
TypeOK ==
  /\ now \in Times
  /\ rows \in Seq(Row) /\ firing \in [Incidents -> BOOLEAN] /\ heard \in [Incidents -> Times]
  /\ lock \in Workers \cup {Nobody}
  /\ \A w \in Workers : pc[w] # "idle" <=> lock = w
  /\ inc \in [Actors -> {0} \cup Incidents]
  /\ batch \subseteq Incidents
  /\ \A u \in Operators : click[u] # NoClick => click[u].inc \in Incidents /\ click[u].row \in Row
  /\ UNION {saved, revived, blind, dropped, clobbered, crossed} \subseteq Incidents

(* service.go:42-48: the group never has two active incidents, unless an   *)
(* operator made a finished one active again, or a lookup failed and its   *)
(* error was taken for "no incident".                                      *)
OneActive == Cardinality({i \in Incidents : Active(i)} \ (revived \cup blind)) <= 1

(* autoResolve is idempotent (service.go:873-876): what a resolution wrote *)
(* changes only when an operator Saves the row or an alert reopens it.     *)
ResolvedOnce ==
  [][\A i \in Incidents :
       ~Active(i) /\ [rows'[i] EXCEPT !.lastAlert = 0] # [rows[i] EXCEPT !.lastAlert = 0]
         => \/ rows'[i].status = "open"
            \/ \E u \in Operators : click[u] # NoClick /\ click[u].inc = i /\ click'[u] = NoClick]_vars

Silent(i) == now - heard[i] > StalenessTimeout

(* The reaper selects an incident only if no alert came for longer than    *)
(* the timeout, unless an update of the row failed or a Save put an older  *)
(* last_alert_at back.                                                     *)
ReaperSelectsSilent ==
  [][pc[Reaper] = "idle" =>
       \A i \in batch' : Silent(i) \/ i \in dropped \cup clobbered]_vars

Busy(i) == \E a \in Actors : inc[a] = i

(* After an automatic resolution no alert of the incident is left firing   *)
(* (service.go:904-905): the rows of the two tables agree once the         *)
(* handlers are done, unless a statement failed, an operator wrote the     *)
(* row, or it was closed while a worker was adding alerts to it.           *)
AlertsSettled ==
  \A i \in Incidents \ (saved \cup dropped \cup crossed) :
    rows[i].status = "resolved" /\ ~Busy(i) => ~firing[i]

(* An incident that gets no more alerts is closed in the end, also after   *)
(* failed attempts and after an operator has acknowledged it.              *)
SilentIncidentsClose == <>[](\A i \in Incidents : ~Active(i))
=============================================================================
