------------------------------ MODULE AlertPath ------------------------------
(***************************************************************************)
(* The two ends of an alert's way: what comes in, over Kafka or HTTP, and  *)
(* the pages that go out.  What is between them, from the pipeline to the  *)
(* incident, is in Engine, Deduplicator and IncidentLifecycle.             *)
(***************************************************************************)
EXTENDS AlertForms, WebhookIntake, Delivery

CONSTANTS Programs,         \* the filters and mappings
          Payloads,         \* what Kafka and generic webhooks carry
          HookMappings,
          Bodies,           \* the sequences of items that HTTP carries
          Queries           \* the slow queries of a cloud database

ASSUME FormsAssumption ==
  /\ \A g \in Programs : g.filter.arg # Absent /\ g.resolvedWhen.arg # Absent
  /\ \A m \in Payloads : m.json \in BOOLEAN /\ m.bare \in BOOLEAN
  /\ Bodies \subseteq Seq([alertname : STRING, severity : STRING, source : STRING, status : STRING,
                           starts : Nat, ends : Nat, fp : STRING])
  /\ \A q \in Queries : q.seconds \in Nat

VARIABLES heard,      \* what came last, and what has been made of it
          left        \* left[b]: how often b may still happen

pathVars == <<heard, left, intakeVars, deliveryVars>>

Bounds == {"heard", "edits", "requests", "crashes", "ticks", "faults"}
Silence == [form |-> "none"]
Spend(b) == left[b] > 0 /\ left' = [left EXCEPT ![b] = @ - 1]

Init == heard = Silence /\ IntakeInit /\ DeliveryInit

-----------------------------------------------------------------------------
Hears(e) == heard' = e
TakeMessage == \E g \in Programs, m \in Payloads :
  Hears([form |-> "kafka", by |-> g, of |-> m,
         verdict |-> IF Compiles(g) THEN apply(g, m) ELSE Dropped("not_compiled")])
TakeHook == \E g \in HookMappings, m \in Payloads :
  Hears([form |-> "webhook", by |-> g, of |-> m, verdict |-> webhook(g, m)])
TakeBody == \E items \in Bodies :
  \/ Hears([form |-> "alertmanager", of |-> items, verdict |-> alertmanager(items)])
  \/ Hears([form |-> "prometheus", of |-> items, verdict |-> prometheus(items)])
  \/ Hears([form |-> "prometheus-v2", of |-> items, verdict |-> prometheusV2(items)])
TakeQuery == \E q \in Queries : Hears([form |-> "cloud-rds", of |-> q, verdict |-> cloudRDS(q)])

Forms ==
  /\ heard = Silence /\ Spend("heard")
  /\ TakeMessage \/ TakeHook \/ TakeBody \/ TakeQuery
  /\ UNCHANGED <<intakeVars, deliveryVars>>

Intake ==
  /\ \/ \E k \in Arrivals : DeliveryStep(k) /\ (IF Serving(k, "out") THEN Spend("requests") ELSE UNCHANGED left)
     \/ EndEdit /\ UNCHANGED left
     \/ EditHook /\ Spend("edits")
     \/ Tick /\ Spend("ticks")
     \/ \E g \in Gateways : /\ FindExpired(g) \/ DeleteExpired(g)
                            /\ UNCHANGED left
     \/ \E g \in Gateways : Crash(g) /\ Spend("crashes")
  /\ UNCHANGED <<heard, deliveryVars>>

Send(m, reached, ok) ==
  \/ \E r \in Rooms : PostRoom(m, r, reached, ok)
  \/ SendMail(m, reached, ok)
  \/ \E p \in {"voice", "sms"} : CallPhones(m, p, reached, ok)

DispatchStep(m) ==
  \/ LoadRoute(m) \/ LoadPolicies(m) \/ LoadGroups(m) \/ LoadContacts(m) \/ Resolve(m, {})
  \/ logNotification(m, TRUE)
  \/ \E some \in SUBSET Contacts : Send(m, some, TRUE)

DispatchFault(m) ==
  \/ LoadRouteFails(m) \/ LoadPoliciesFails(m) \/ LoadGroupsFails(m) \/ LoadContactsFails(m)
  \/ \E some \in SUBSET Providers \ {{}} : Resolve(m, some)
  \/ \E some \in SUBSET Contacts : Send(m, some, FALSE)
  \/ logNotification(m, FALSE) \/ Cut(m)

Pages ==
  /\ \/ \E m \in DOMAIN Messages : DispatchStep(m) /\ UNCHANGED left
     \/ \E m \in DOMAIN Messages : DispatchFault(m) /\ Spend("faults")
     \/ EditBook /\ Spend("edits")
  /\ UNCHANGED <<heard, intakeVars>>

Next == Forms \/ Intake \/ Pages
Spec == Init /\ [][Next]_pathVars
-----------------------------------------------------------------------------
TypeOK == IntakeTypeOK /\ DeliveryTypeOK

(* kafka_filter.go, ingestion/*.go: what is made of a message or a body is *)
(* what its filter, its mapping and its form mean.                         *)
VerdictsMatch ==
  CASE heard.form = "none" -> TRUE
    [] heard.form = "kafka" -> ~Compiles(heard.by) \/ VerdictMatches(heard.by, heard.of, heard.verdict)
    [] heard.form = "webhook" -> HookMatches(heard.by, heard.of, heard.verdict)
    [] heard.form = "cloud-rds" -> QueryMatches(heard.of, heard.verdict)
    [] OTHER -> ItemsMatch(heard.form, heard.of, heard.verdict)
=============================================================================
