----------------------------- MODULE AlertForms -----------------------------
(***************************************************************************)
(* What the HTTP routes make of a body: the adapters of internal/ingestion *)
(* (alertmanager.go, prometheus.go, alertmanager_v2.go, cloud.go,          *)
(* webhook.go).  A body is a sequence of items, or for a webhook a message *)
(* that the mapping of its source is applied to.  Of the labels an item    *)
(* keeps the three that every alert should have; times count from 1, and   *)
(* Unset is Go's zero time.                                                *)
(***************************************************************************)
EXTENDS KafkaProgram

CONSTANT Now

ASSUME NowAssumption == Now \in Nat

Unset == 0
NoPath == "(none)"
Item(name, severity, source, status, starts, ends, fp) ==
  [alertname |-> name, severity |-> severity, source |-> source, status |-> status,
   starts |-> starts, ends |-> ends, fp |-> fp]

Rejected == [ok |-> FALSE, alerts |-> <<>>]
Accepted(alerts) == [ok |-> TRUE, alerts |-> alerts]
OrElse(v, default) == IF v = "" THEN default ELSE v

(* Sorting the labels by key makes the hash one of the set of labels. *)
ComputeFingerprint(it) == <<it.alertname, it.severity, it.source>>
Raw(it) == [alertname |-> it.alertname, severity |-> it.severity, source |-> it.source, status |-> it.status,
            ends |-> it.ends, fp |-> IF it.fp = "" THEN ComputeFingerprint(it) ELSE <<it.fp>>]
Each(items, Form(_)) == Accepted([n \in DOMAIN items |-> Form(items[n])])

(* alertmanager.go: nothing is asked of an item. *)
alertmanager(items) == Each(items, LAMBDA it : Raw([it EXCEPT !.source = "alertmanager"]))

(* prometheus.go: an end before the start is none. *)
prometheus(items) ==
  IF items = <<>> THEN Rejected
  ELSE Each(items, LAMBDA it :
         Raw([it EXCEPT !.source = "prometheus", !.severity = OrElse(@, "warning"),
                        !.ends = IF @ > it.starts THEN @ ELSE Unset]))

(* Mutant: an end that has been announced ends the alert. *)
postable_Ahead(it) ==
  Raw([it EXCEPT !.source = OrElse(@, "prometheus"), !.severity = OrElse(@, "warning"), !.fp = "",
                 !.status = IF it.ends = Unset THEN "firing" ELSE "resolved"])

(* alertmanager_v2.go: items have no status of their own. *)
postable(it) ==
  Raw([it EXCEPT !.source = OrElse(@, "prometheus"), !.severity = OrElse(@, "warning"), !.fp = "",
                 !.status = IF it.ends = Unset \/ it.ends > Now THEN "firing" ELSE "resolved"])
prometheusV2(items) ==
  IF \E n \in DOMAIN items : items[n].alertname = "" THEN Rejected ELSE Each(items, postable)

(* cloud.go: seconds of a slow query grade it, and the query names it. *)
cloudRDS(q) ==
  Accepted(<<[alertname |-> "SlowQuery", source |-> "cloud-rds", status |-> "firing", ends |-> Unset, fp |-> <<q.sql>>,
              severity |-> IF q.seconds >= 30 THEN "critical" ELSE IF q.seconds >= 5 THEN "warning" ELSE "info"]>>)

(* webhook.go: a mapping names paths, and the words of its status.  The    *)
(* words for firing come first, so those for resolved have the last say.   *)
Read(m, path) == IF path = NoPath THEN "" ELSE Text(m, path)
webhookStatus(g, m) ==
  LET v == Read(m, g.status) IN
    IF g.status # NoPath /\ v \in {"resolved", "0"} \cup ({g.resolvedWord} \ {""}) THEN "resolved" ELSE "firing"
webhook(g, m) ==
  LET severity == OrElse(Read(m, g.severity), g.default)
      it == Item(Read(m, g.alertname), severity, "hook", webhookStatus(g, m), Now, Unset, Read(m, g.fingerprint))
  IN IF ~m.json \/ it.alertname = "" \/ severity = "" THEN Rejected ELSE Accepted(<<Raw(it)>>)

-----------------------------------------------------------------------------
(* What is posted is taken as a whole or not at all, and every alert of it *)
(* is graded and, but for two forms that do not ask, named.                *)
Whole(form, items, v) ==
  /\ v.ok => Len(v.alerts) = Len(items)
  /\ ~v.ok => items = <<>> \/ \E n \in DOMAIN items : items[n].alertname = ""
  /\ \A n \in DOMAIN v.alerts :
       /\ form # "alertmanager" => v.alerts[n].severity # ""
       /\ form = "prometheus-v2" => v.alerts[n].alertname # ""

(* An alert is over if the sender says so, or by its end. *)
Ended(form, it) ==
  IF form = "prometheus-v2" THEN it.ends \in 1 .. Now ELSE it.status = "resolved"

(* The end of an alert reaches the incident that its start has opened: the *)
(* fingerprint takes nothing from what tells the two apart.                *)
SameAlert(it, jt) == [it EXCEPT !.status = "", !.ends = 0, !.starts = 0] = [jt EXCEPT !.status = "", !.ends = 0, !.starts = 0]

ItemsMatch(form, items, v) ==
  /\ Whole(form, items, v)
  /\ \A n \in DOMAIN v.alerts :
       /\ v.alerts[n].status = "resolved" <=> Ended(form, items[n])
       /\ \A k \in DOMAIN v.alerts : SameAlert(items[n], items[k]) => v.alerts[n].fp = v.alerts[k].fp

(* Seconds grade a slow query, and its fingerprint is that of no labels.   *)
QueryMatches(q, v) ==
  /\ Len(v.alerts) = 1
  /\ LET r == v.alerts[1] IN
       /\ r.severity = "info" <=> q.seconds < 5
       /\ r.severity = "critical" <=> q.seconds >= 30
       /\ r.fp # ComputeFingerprint(Item("SlowQuery", r.severity, "cloud-rds", "firing", 1, Unset, ""))

(* A webhook is taken if it can be named and graded, and is over only if   *)
(* its status is one of the words for that.                                *)
HookMatches(g, m, v) ==
  /\ v.ok <=> m.json /\ Read(m, g.alertname) # "" /\ (Read(m, g.severity) # "" \/ g.default # "")
  /\ v.ok => /\ v.alerts[1].severity \in {Read(m, g.severity), g.default} \ {""}
             /\ v.alerts[1].status = "resolved" => m.at[g.status] \in {"resolved", "0", g.resolvedWord}
             /\ v.alerts[1].status = "firing" /\ g.status # NoPath => Read(m, g.status) # "resolved"
=============================================================================
