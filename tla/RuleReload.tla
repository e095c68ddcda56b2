----------------------------- MODULE RuleReload -----------------------------
(***************************************************************************)
(* How the rule engine follows its tables: the handlers that edit routes,  *)
(* silences, inhibitions and aggregations                                  *)
(* (internal/router/alert_center.go), each a statement and then a          *)
(* notification, and the reloads of a pipeline                             *)
(* (internal/engine/pipeline.go).  A table is the number of its edition.   *)
(***************************************************************************)
EXTENDS PgNotify, Naturals

CONSTANT Tables             \* the rule tables; "silences" is one

ASSUME RuleReloadAssumption == "silences" \in Tables

VARIABLES edition,    \* edition[t]: how often the active rules of t have changed
          telling,    \* telling[r]: tables whose edit r has yet to notify
          engine,     \* engine[r]: the edition each table was read at, and tables still to be read
          stays       \* history: stays[r], tables that a failed read, or time, has left as they were

ruleVars == <<edition, telling, engine, stays>>

RulesInit ==
  /\ edition = [t \in Tables |-> 1]
  /\ telling = [r \in Listeners |-> {}]
  /\ engine = [r \in Listeners |-> [has |-> edition, todo |-> {}]]
  /\ stays = [r \in Listeners |-> {}]

(* create, update or delete, served by r.  A silence is deleted by         *)
(* switching it off.                                                       *)
EditRule(r, t) ==
  /\ edition' = [edition EXCEPT ![t] = @ + 1]
  /\ telling' = [telling EXCEPT ![r] = @ \cup {t}]
  /\ UNCHANGED <<engine, stays, linkVars>>

(* notifyPipeline; a failure is only logged. *)
NotifyPipeline(r, t) ==
  /\ t \in telling[r] /\ telling' = [telling EXCEPT ![r] = @ \ {t}]
  /\ Notify("pipeline_reload", t)
  /\ UNCHANGED <<edition, engine, stays>>

NotifyFails(r, t) ==
  /\ t \in telling[r] /\ telling' = [telling EXCEPT ![r] = @ \ {t}]
  /\ Unsent("pipeline_reload", {t})
  /\ UNCHANGED <<edition, engine, stays>>

(* A silence that was planned begins: loadSilences takes only those that   *)
(* are active when it reads, and nothing reads again for that.             *)
SilenceBegins ==
  /\ edition' = [edition EXCEPT !["silences"] = @ + 1]
  /\ stays' = [r \in Listeners |-> stays[r] \cup {"silences"}]
  /\ UNCHANGED <<telling, engine, linkVars>>

(* Mutant: a reload of the table that was named. *)
ReloadRules_Named(r) ==
  /\ engine[r].todo = {} /\ Take(r, "pipeline_reload")
  /\ engine' = [engine EXCEPT ![r].todo = {Heard(r, "pipeline_reload")} \ {"silences"}]
  /\ missed' = [missed EXCEPT ![r]["pipeline_reload"] = {}]
  /\ UNCHANGED <<edition, telling, stays>>

(* Any notification reloads every table, under the pipeline's lock. *)
ReloadRules(r) ==
  /\ engine[r].todo = {} /\ Take(r, "pipeline_reload")
  /\ engine' = [engine EXCEPT ![r].todo = Tables]
  /\ missed' = [missed EXCEPT ![r]["pipeline_reload"] = {}]
  /\ UNCHANGED <<edition, telling, stays>>

(* The four queries of loadRulesFromDB. *)
LoadTable(r, t) ==
  /\ t \in engine[r].todo
  /\ engine' = [engine EXCEPT ![r] = [has |-> [@.has EXCEPT ![t] = edition[t]], todo |-> @.todo \ {t}]]
  /\ stays' = [stays EXCEPT ![r] = @ \ {t}]
  /\ UNCHANGED <<edition, telling, linkVars>>

LoadTableFails(r, t) ==
  /\ t \in engine[r].todo
  /\ engine' = [engine EXCEPT ![r].todo = @ \ {t}]
  /\ stays' = [stays EXCEPT ![r] = @ \cup {t}]
  /\ UNCHANGED <<edition, telling, linkVars>>

-----------------------------------------------------------------------------
RulesTypeOK ==
  \A r \in Listeners :
    /\ telling[r] \cup engine[r].todo \cup stays[r] \subseteq Tables
    /\ \A t \in Tables : engine[r].has[t] \in 1 .. edition[t]

(* pipeline.go: "event-driven, NOT polling".  A replica that serves works  *)
(* by the rules that are stored, or a notification of the change is on its *)
(* way, or was lost, or a read failed, or the change was a planned silence *)
(* that began.                                                             *)
RulesExplained(r) ==
  \A t \in Tables : engine[r].has[t] # edition[t] =>
    \/ t \in engine[r].todo \cup stays[r] \cup missed[r]["pipeline_reload"]
    \/ inbox[r]["pipeline_reload"] # <<>>
    \/ \E s \in Listeners : t \in telling[s]
=============================================================================
