------------------------------- MODULE Engine --------------------------------
(***************************************************************************)
(* The rule engine, internal/engine/pipeline.go, for the alerts of one     *)
(* group key: what becomes of an alert that is sent again and again, from  *)
(* Process to the incident.  Ingest goroutines run Process at the same     *)
(* time; the group timer and its callback run in goroutines of their own.  *)
(*                                                                         *)
(* Deduplication is its contract, DedupContract; the incident service is   *)
(* reduced to whether the group has an active incident, since module       *)
(* IncidentLifecycle has the rest.  Time passes in minutes and only when   *)
(* nothing is under way: a step takes no time.                             *)
(***************************************************************************)
EXTENDS DedupContract

CONSTANTS Sources,       \* fingerprints that match the source of an inhibit rule
          Callers,       \* goroutines that call Process
          GroupWait, InhibitTTL, Staleness, ReopenWindow

ASSUME SourcesAssumption == Sources \subseteq Fingerprints
ASSUME MinutesAssumption ==
  /\ GroupWait \in Nat \ {0} /\ TTL \in Nat \ {0} /\ InhibitTTL \in Nat
  /\ Staleness \in Nat \ {0} /\ ReopenWindow \in Nat

(* The alerts of the group; a source belongs to a group of its own. *)
Members == Fingerprints \ Sources

NoAlert == "no alert"

VARIABLES stage,       \* stage[g]: where caller g is in Process
          alert,       \* alert[g]: the alert it has
          silenced,    \* alerts of the group that a loaded, current silence matches
          pending,     \* shard.groups[key]: the alerts that wait, or {}
          wait,        \* minutes until its timer fires
          flight,      \* the group the timer's callback has, or {}
          sourceAge,   \* minutes since Track last saw a source
          open,        \* the group has an active incident
          age,         \* minutes since its last alert or, if closed, its end
          sent,        \* history: alerts received in this minute
          steady,      \* history: steady[a]: for how many minutes a has been
                       \*   received each minute with nothing to excuse silence
          excused,     \* history: alerts that had a reason not to be heard
                       \*   since they were last a first occurrence
          calm,        \* history: minutes since an alert of the group was received
          sourceCalm   \* history: minutes since a source was received

callVars == <<stage, alert>>
groupVars == <<pending, wait, flight>>
incidentVars == <<open, age>>
historyVars == <<sent, steady, excused, calm, sourceCalm>>
vars == <<left, callVars, silenced, groupVars, sourceAge, incidentVars, historyVars>>

(* The longest time between two deliveries of a steady alert. *)
Hearing == TTL + GroupWait

(* The longest time an incident is open with nothing received. *)
Forgetting == GroupWait + Staleness + 1

Later(n, cap) == IF n < cap THEN n + 1 ELSE n

Init ==
  /\ ContractInit
  /\ stage = [g \in Callers |-> "idle"] /\ alert = [g \in Callers |-> NoAlert]
  /\ silenced = {}
  /\ pending = {} /\ wait = 0 /\ flight = {}
  /\ sourceAge = InhibitTTL + 1
  /\ open = FALSE /\ age = Staleness + 1
  /\ sent = {} /\ steady = [a \in Members |-> 0] /\ excused = {}
  /\ calm = Forgetting + 1 /\ sourceCalm = InhibitTTL + 1

Waiting == pending \cup flight \cup {alert[g] : g \in {h \in Callers : stage[h] = "admit"}}

(* There is a reason why the alerts in A are not heard. *)
Excuse(A) ==
  /\ excused' = excused \cup A
  /\ steady' = [a \in Members |-> IF a \in A THEN 0 ELSE steady[a]]

-----------------------------------------------------------------------------
(* Process.  Its read lock excludes Reload only. *)

(* Every source is remembered, whatever becomes of it in the pipeline. *)
Track(a) == sourceAge' = IF a \in Sources THEN 0 ELSE sourceAge

(* Mutant: Track after deduplication. *)
Receive_NotTracked(g, a) ==
  /\ stage[g] = "idle"
  /\ stage' = [stage EXCEPT ![g] = "dedup"]
  /\ alert' = [alert EXCEPT ![g] = a]
  /\ sourceAge' = IF a \in Sources /\ left[a] = 0 THEN 0 ELSE sourceAge
  /\ sent' = sent \cup ({a} \cap Members)
  /\ calm' = IF a \in Members THEN 0 ELSE calm
  /\ sourceCalm' = IF a \in Sources THEN 0 ELSE sourceCalm
  /\ UNCHANGED <<left, silenced, groupVars, incidentVars, steady, excused>>

(* Process begins: Track comes before deduplication. *)
Receive(g, a) ==
  /\ stage[g] = "idle"
  /\ stage' = [stage EXCEPT ![g] = "dedup"]
  /\ alert' = [alert EXCEPT ![g] = a]
  /\ Track(a)
  /\ sent' = sent \cup ({a} \cap Members)
  /\ calm' = IF a \in Members THEN 0 ELSE calm
  /\ sourceCalm' = IF a \in Sources THEN 0 ELSE sourceCalm
  /\ UNCHANGED <<left, silenced, groupVars, incidentVars, steady, excused>>

(* Mutant: the window ends after, not at, its last instant. *)
IsFirst_After(g) ==
  /\ stage[g] = "dedup" /\ left[alert[g]] = 0
  /\ left' = [left EXCEPT ![alert[g]] = TTL + 1]
  /\ stage' = [stage EXCEPT ![g] = "admit"]
  /\ excused' = excused \ {alert[g]}
  /\ UNCHANGED <<alert, silenced, groupVars, sourceAge, incidentVars, sent, steady, calm, sourceCalm>>

IsFirst(g) ==
  /\ stage[g] = "dedup"
  /\ First(alert[g]) /\ left'[alert[g]] = TTL
  /\ stage' = [stage EXCEPT ![g] = "admit"]
  /\ excused' = excused \ {alert[g]}
  /\ UNCHANGED <<alert, silenced, groupVars, sourceAge, incidentVars, sent, steady, calm, sourceCalm>>

Return(g) ==
  /\ stage' = [stage EXCEPT ![g] = "idle"]
  /\ alert' = [alert EXCEPT ![g] = NoAlert]

(* Mutant: a duplicate extends the window. *)
IsDuplicate_Extends(g) ==
  /\ stage[g] = "dedup" /\ left[alert[g]] > 0
  /\ left' = [left EXCEPT ![alert[g]] = TTL]
  /\ Return(g)
  /\ UNCHANGED <<silenced, groupVars, sourceAge, incidentVars, historyVars>>

(* The alert is dropped. *)
IsDuplicate(g) ==
  /\ stage[g] = "dedup"
  /\ Duplicate(alert[g])
  /\ Return(g)
  /\ UNCHANGED <<silenced, groupVars, sourceAge, incidentVars, historyVars>>

IsSilenced(g) ==
  /\ stage[g] = "admit" /\ alert[g] \in silenced
  /\ Excuse({alert[g]})
  /\ Return(g)
  /\ UNCHANGED <<left, silenced, groupVars, sourceAge, incidentVars, sent, calm, sourceCalm>>

(* A source has a group, and silences, of its own. *)
AddElsewhere(g) ==
  /\ stage[g] = "admit" /\ alert[g] \in Sources
  /\ Return(g)
  /\ UNCHANGED <<left, silenced, groupVars, sourceAge, incidentVars, historyVars>>

(* Mutant: a new group in place of the one that waits. *)
Add_Replaces(g) ==
  /\ stage[g] = "admit" /\ alert[g] \in Members \ silenced
  /\ pending' = {alert[g]}
  /\ wait' = GroupWait
  /\ Return(g)
  /\ UNCHANGED <<left, silenced, flight, sourceAge, incidentVars, historyVars>>

(* Only the first alert of a group starts a timer. *)
Add(g) ==
  /\ stage[g] = "admit" /\ alert[g] \in Members \ silenced
  /\ pending' = pending \cup {alert[g]}
  /\ wait' = IF pending = {} THEN GroupWait ELSE wait
  /\ Return(g)
  /\ UNCHANGED <<left, silenced, flight, sourceAge, incidentVars, historyVars>>

(* Process of a resolved alert of the group: HandleResolvedAlert at once,  *)
(* past everything that waits.                                             *)
Resolved ==
  /\ open
  /\ open' = FALSE /\ age' = 0
  /\ Excuse(Members)
  /\ UNCHANGED <<left, callVars, silenced, groupVars, sourceAge, sent, calm, sourceCalm>>

-----------------------------------------------------------------------------
(* The timer, its callback, the reaper, the rules and the clock. *)

TimerDue == pending # {} /\ wait = 0

TimerFires ==
  /\ TimerDue
  /\ flight' = pending
  /\ pending' = {}
  /\ UNCHANGED <<left, callVars, silenced, wait, sourceAge, incidentVars, historyVars>>

Inhibited == sourceAge <= InhibitTTL

(* Mutant: an inhibited group waits once more. *)
IsInhibited_Waits ==
  /\ flight # {} /\ Inhibited
  /\ flight' = {}
  /\ pending' = pending \cup flight /\ wait' = GroupWait
  /\ UNCHANGED <<left, callVars, silenced, sourceAge, incidentVars, historyVars>>

IsInhibited ==
  /\ flight # {} /\ Inhibited
  /\ flight' = {}
  /\ Excuse(flight)
  /\ UNCHANGED <<left, callVars, silenced, pending, wait, sourceAge, incidentVars, sent, calm, sourceCalm>>

(* HandleAlertGroup: create, append or reopen. *)
OnIncident ==
  /\ flight # {} /\ ~Inhibited
  /\ flight' = {}
  /\ open' = TRUE /\ age' = 0
  /\ UNCHANGED <<left, callVars, silenced, pending, wait, sourceAge, historyVars>>

ReaperDue == open /\ age > Staleness

Reap ==
  /\ ReaperDue
  /\ open' = FALSE /\ age' = 0
  /\ excused' = excused \cup Members
  /\ UNCHANGED <<left, callVars, silenced, groupVars, sourceAge, sent, steady, calm, sourceCalm>>

(* The write lock waits until no Process runs.  Any set of silences may be *)
(* in the database, and current, at that moment.                           *)
Reload(S) ==
  /\ \A g \in Callers : stage[g] = "idle"
  /\ silenced' = S
  /\ UNCHANGED <<left, callVars, groupVars, sourceAge, incidentVars, historyVars>>

(* A silence that is loaded ends by the clock. *)
SilenceEnds(a) ==
  /\ a \in silenced
  /\ silenced' = silenced \ {a}
  /\ UNCHANGED <<left, callVars, groupVars, sourceAge, incidentVars, historyVars>>

Tick ==
  /\ \A g \in Callers : stage[g] = "idle"
  /\ ~TimerDue /\ flight = {} /\ ~ReaperDue
  /\ Minute
  /\ wait' = IF pending # {} THEN wait - 1 ELSE wait
  /\ sourceAge' = Later(sourceAge, InhibitTTL + 1)
  /\ age' = Later(age, Staleness + 1)
  /\ steady' = [a \in Members |-> IF a \in sent THEN Later(steady[a], Hearing + 1) ELSE 0]
  /\ sent' = {}
  /\ calm' = Later(calm, Forgetting + 1)
  /\ sourceCalm' = Later(sourceCalm, InhibitTTL + 1)
  /\ UNCHANGED <<callVars, silenced, pending, flight, open, excused>>

Next ==
  \/ \E g \in Callers :
       \/ \E a \in Fingerprints : Receive(g, a)
       \/ IsFirst(g) \/ IsDuplicate(g) \/ IsSilenced(g) \/ Add(g) \/ AddElsewhere(g)
  \/ Resolved \/ TimerFires \/ IsInhibited \/ OnIncident \/ Reap
  \/ \E S \in SUBSET Members : Reload(S)
  \/ \E a \in Members : SilenceEnds(a)
  \/ Tick

Spec == Init /\ [][Next]_vars
-----------------------------------------------------------------------------
TypeOK ==
  /\ left \in [Fingerprints -> 0 .. TTL]
  /\ stage \in [Callers -> {"idle", "dedup", "admit"}]
  /\ alert \in [Callers -> Fingerprints \cup {NoAlert}]
  /\ silenced \subseteq Members
  /\ pending \subseteq Members /\ flight \subseteq Members
  /\ wait \in 0 .. GroupWait /\ (pending = {} => wait = 0)
  /\ sourceAge \in 0 .. InhibitTTL + 1 /\ sourceCalm \in 0 .. InhibitTTL + 1
  /\ open \in BOOLEAN /\ age \in 0 .. Staleness + 1
  /\ sent \subseteq Members /\ excused \subseteq Members
  /\ steady \in [Members -> 0 .. Hearing + 1]
  /\ calm \in 0 .. Forgetting + 1

Dropped(g) == stage[g] = "dedup" /\ stage'[g] = "idle" /\ alert[g] \in Members

(* Deduplication drops an alert of which somebody else has charge: its     *)
(* group has an incident, or waits for one, unless the alert was silenced  *)
(* or inhibited, or the incident ended, since it was last a first          *)
(* occurrence.  Nothing is lost between the stages of the pipeline.        *)
DroppedIsCovered ==
  [][\A g \in Callers : Dropped(g) => open \/ alert[g] \in Waiting \cup excused]_vars

(* An alert that is received each minute, and not excused, has an incident *)
(* that hears of it often enough: deduplication, whose window is fixed,    *)
(* and the group timer keep last_alert_at at most TTL + GroupWait old, so  *)
(* that with staleness_timeout no shorter the reaper leaves what fires     *)
(* alone.                                                                  *)
SteadyIsHeard ==
  Staleness >= Hearing =>
    \A a \in Members : steady[a] > Hearing => open /\ age <= Hearing

(* A resolved signal passes the alerts that wait, and their group then     *)
(* opens an incident that no signal will close.  The harm is bounded: with *)
(* nothing received, any incident is over after the group wait and the     *)
(* staleness timeout.                                                      *)
CalmCloses == calm > Forgetting => ~open

(* pipeline.go:119-120: every alert is tracked before deduplication, so    *)
(* that a source that keeps coming keeps its targets inhibited.            *)
SourceInhibits == [][OnIncident => sourceCalm > InhibitTTL]_vars

(* docs/lifecycle.md:164-167: an alert that comes again minutes after its  *)
(* incident was resolved, within the reopen window, reaches                *)
(* HandleAlertGroup, which reopens the incident.  NOT so: deduplication    *)
(* does not know of the resolution and drops it.                           *)
RecurrenceReopens ==
  [][\A g \in Callers : Dropped(g) /\ age \in 1 .. ReopenWindow - 1
                           => open \/ alert[g] \in Waiting]_vars
=============================================================================
