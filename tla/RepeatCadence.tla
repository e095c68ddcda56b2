--------------------------- MODULE RepeatCadence ----------------------------
(***************************************************************************)
(* When one incident is notified again, and when its severity climbs:      *)
(* maybeRepeatNotify and what it calls in internal/incident/service.go,    *)
(* with reopenIncident, which restarts the cadence.  The alerts of the     *)
(* incident's group are served by handlers; inside a process the lock of   *)
(* the group key lets one through at a time, so several handlers stand for *)
(* several replicas of the process on one database.                        *)
(*                                                                         *)
(* A severity is its rung on the ladder, 0 if it is not on it.  Minutes    *)
(* are the unit of time.  A page is a dispatch that has been started.      *)
(***************************************************************************)
EXTENDS RepeatSchedule, FiniteSets

CONSTANTS Handlers,
          Dwell,     \* Dwell[t]: minutes at rung t before the next one, 0 for ever
          MaxTime, MaxResolves, MaxFailures, MaxCrashes     \* bounds

ASSUME DwellAssumption == Dwell \in Seq(Nat)

NoTime == -1
NoCopy == [status |-> "resolved", tier |-> 0, seq |-> 0, lastNotified |-> NoTime, startedAt |-> 0]
Top == Len(Dwell)

VARIABLES now,
          row,        \* the columns of the incident that matter here
          copy,       \* copy[h]: the row as handler h read it
          pc,         \* pc[h]: what handler h does next
          sent,       \* history: pages since the rung was reached, or the reopening
          reached,    \* history: when the rung was reached
          resolves, failures, crashes

historyVars == <<sent, reached>>
countVars == <<resolves, failures, crashes>>
vars == <<now, row, copy, pc, historyVars, countVars>>

(* createIncident has inserted the row and dispatched the first page, or   *)
(* the process was restarted before it did.                                *)
Init ==
  /\ now = 0
  /\ \E t \in 0 .. Top : \E n \in {0, NoTime} :
       /\ row = [status |-> "active", tier |-> t, seq |-> 0, lastNotified |-> n, startedAt |-> 0]
       /\ sent = IF n = NoTime THEN 0 ELSE 1
  /\ copy = [h \in Handlers |-> NoCopy]
  /\ pc = [h \in Handlers |-> "idle"]
  /\ reached = 0
  /\ resolves = 0 /\ failures = 0 /\ crashes = 0

Tick ==
  /\ now < MaxTime
  /\ now' = now + 1
  /\ UNCHANGED <<row, copy, pc, historyVars, countVars>>

(* Any of the ways an incident is resolved (IncidentLifecycle). *)
Resolve ==
  /\ row.status = "active" /\ resolves < MaxResolves
  /\ row' = [row EXCEPT !.status = "resolved"]
  /\ resolves' = resolves + 1
  /\ UNCHANGED <<now, copy, pc, historyVars, failures, crashes>>

(* An alert of the group: FindActiveByGroupKey reads the row, and the      *)
(* handler is going to append to it or to reopen it.                       *)
Find(h) ==
  /\ pc[h] = "idle"
  /\ copy' = [copy EXCEPT ![h] = row]
  /\ pc' = [pc EXCEPT ![h] = IF row.status = "active" THEN "decide" ELSE "reopen"]
  /\ UNCHANGED <<now, row, sent, reached, countVars>>

(* The next statement of h; a handler that is done forgets its copy. *)
Go(h, next) ==
  /\ pc' = [pc EXCEPT ![h] = next]
  /\ copy' = IF next = "idle" THEN [copy EXCEPT ![h] = NoCopy] ELSE copy

-----------------------------------------------------------------------------
(* maybeRepeatNotify decides on the copy it was given. *)

(* Mutant: nextTier without its bound. *)
Dwelt_PastTop(c) == Dwell[c.tier] > 0 /\ now - c.startedAt >= Dwell[c.tier]

Dwelt(c) ==
  /\ Dwell[c.tier] > 0 /\ now - c.startedAt >= Dwell[c.tier]
  /\ c.tier < Top

Due(c) == c.lastNotified = NoTime \/ now - c.lastNotified >= computeInterval(c.seq)

Decide(h) ==
  LET c == copy[h] IN
  /\ pc[h] = "decide"
  /\ Go(h, IF c.tier = 0 THEN "idle"
           ELSE IF Dwelt(c) THEN "escalate"
           ELSE IF Due(c) THEN "mark" ELSE "idle")
  /\ UNCHANGED <<now, row, historyVars, countVars>>

(* Mutant: the UPDATE without its condition on the severity. *)
Escalate_Unguarded(h) ==
  /\ pc[h] = "escalate"
  /\ row' = [row EXCEPT !.tier = copy[h].tier + 1, !.seq = 0, !.startedAt = now]
  /\ sent' = 0 /\ reached' = now
  /\ Go(h, "mark")
  /\ UNCHANGED <<now, countVars>>

(* Mutant: the sequence index is not reset. *)
Escalate_KeepsSeq(h) ==
  /\ pc[h] = "escalate" /\ row.tier = copy[h].tier
  /\ row' = [row EXCEPT !.tier = copy[h].tier + 1, !.startedAt = now]
  /\ sent' = 0 /\ reached' = now
  /\ Go(h, "mark")
  /\ UNCHANGED <<now, countVars>>

(* escalateAndReset: one UPDATE, only if the severity is still the one     *)
(* read; otherwise nothing more is done.                                   *)
Escalate(h) ==
  /\ pc[h] = "escalate"
  /\ IF row.tier = copy[h].tier
       THEN /\ row' = [row EXCEPT !.tier = copy[h].tier + 1, !.seq = 0, !.startedAt = now]
            /\ sent' = 0 /\ reached' = now
            /\ Go(h, "mark")
       ELSE Go(h, "idle") /\ UNCHANGED <<row, sent, reached>>
  /\ UNCHANGED <<now, countVars>>

(* reopenIncident: the severity stays, the cadence starts again. *)
Reopen(h) ==
  /\ pc[h] = "reopen"
  /\ row' = [row EXCEPT !.status = "active", !.seq = 0, !.startedAt = now]
  /\ sent' = 0
  /\ Go(h, "markReopened")
  /\ UNCHANGED <<now, reached, countVars>>

(* markNotified; for a reopened incident the page follows at once. *)
MarkNotified(h) ==
  /\ pc[h] \in {"mark", "markReopened"}
  /\ row' = [row EXCEPT !.lastNotified = now]
  /\ Go(h, IF pc[h] = "mark" THEN "bump" ELSE "idle")
  /\ sent' = IF pc[h] = "mark" THEN sent ELSE sent + 1
  /\ UNCHANGED <<now, reached, countVars>>

(* bumpSeqIndex, and the page. *)
BumpSeqIndex(h) ==
  /\ pc[h] = "bump"
  /\ row' = [row EXCEPT !.seq = @ + 1]
  /\ sent' = sent + 1
  /\ Go(h, "idle")
  /\ UNCHANGED <<now, reached, countVars>>

-----------------------------------------------------------------------------
(* A failed UPDATE: escalateAndReset and reopenIncident return, the other  *)
(* two are "non-fatal" and the page goes out all the same.                 *)
UpdateFails(h) ==
  /\ pc[h] \in {"escalate", "reopen", "mark", "markReopened", "bump"}
  /\ failures < MaxFailures /\ failures' = failures + 1
  /\ Go(h, IF pc[h] = "mark" THEN "bump" ELSE "idle")
  /\ sent' = IF pc[h] \in {"bump", "markReopened"} THEN sent + 1 ELSE sent
  /\ UNCHANGED <<now, row, reached, resolves, crashes>>

(* The process of h dies between two statements and is restarted. *)
Crash(h) ==
  /\ pc[h] # "idle"
  /\ crashes < MaxCrashes /\ crashes' = crashes + 1
  /\ Go(h, "idle")
  /\ UNCHANGED <<now, row, historyVars, resolves, failures>>

Next ==
  \/ Tick \/ Resolve
  \/ \E h \in Handlers :
       \/ Find(h) \/ Decide(h) \/ Escalate(h) \/ Reopen(h)
       \/ MarkNotified(h) \/ BumpSeqIndex(h) \/ UpdateFails(h) \/ Crash(h)

Spec == Init /\ [][Next]_vars

-----------------------------------------------------------------------------
Row == [status : {"active", "resolved"}, tier : 0 .. Top, seq : Nat,
        lastNotified : Nat \cup {NoTime}, startedAt : Nat]

Stages == {"idle", "decide", "escalate", "reopen", "mark", "markReopened", "bump"}

(* Types; in particular the severity never leaves the ladder. *)
TypeOK ==
  /\ now \in Nat
  /\ row \in Row /\ copy \in [Handlers -> Row]
  /\ pc \in [Handlers -> Stages]
  /\ sent \in Nat /\ reached \in Nat
  /\ resolves \in Nat /\ failures \in Nat /\ crashes \in Nat

(* bumpSeqIndex (service.go:580-584): failures make the cadence over-loud, *)
(* never silently quiet.  However statements of several replicas fail,     *)
(* interleave or are cut short by a crash, the incident waits no longer    *)
(* for its next page than the number of pages since it reached this rung,  *)
(* or was reopened, calls for.                                             *)
NeverQuieter == computeInterval(row.seq) <= computeInterval(sent)

(* escalateAndReset (service.go:439-444): the severity climbs one rung at  *)
(* a time, and only after the incident has spent the whole dwell time on   *)
(* the rung it leaves, even if two replicas decide to escalate at once.    *)
LadderClimbed ==
  [][row'.tier # row.tier =>
       row'.tier = row.tier + 1 /\ now - reached >= Dwell[row.tier]]_vars
=============================================================================
