---------------------------- MODULE ControlPlane ----------------------------
(***************************************************************************)
(* A deployment: replicas that start (cmd/alertmesh: wire_gen.go, main.go),*)
(* serve requests, follow the tables through notifications, and end.       *)
(***************************************************************************)
EXTENDS Startup, ReaderGroups, RuleReload, Realtime

ASSUME ControlPlaneAssumption ==
  /\ Servers = Replicas /\ Listeners = Replicas
  /\ Channels = {"pipeline_reload", "data_source_event", "incident_event"}

cpVars == <<startVars, linkVars, sourceVars, readerVars, ruleVars, viewVars>>

Init ==
  /\ left \in [Bounds -> Nat]
  /\ StartInit /\ LinkInit /\ SourcesInit /\ ReadersInit /\ RulesInit /\ ViewsInit

-----------------------------------------------------------------------------
(* Processes. *)

Starts(r) ==
  /\ StartStep(r)
  /\ UNCHANGED <<linkVars, sourceVars, readerVars, ruleVars, viewVars>>

(* ProvideRBAC, then NewPipeline, which reads the rules. *)
ProvidePipeline(r) ==
  /\ InitRBAC(r)
  /\ link' = link /\ inbox' = inbox
  /\ missed' = [missed EXCEPT ![r]["pipeline_reload"] = {}]
  /\ engine' = [engine EXCEPT ![r] = [has |-> edition, todo |-> {}]]
  /\ stays' = [stays EXCEPT ![r] = {}]
  /\ UNCHANGED <<edition, telling, sourceVars, readerVars, viewVars>>

(* The routes, the listeners and the managers are started, and requests    *)
(* are served.                                                             *)
Serve(r) ==
  /\ At(r, "wired") /\ Goto(r, "up")
  /\ Dial(r) /\ StartReaders(r)
  /\ UNCHANGED <<schema, config, role, secret, browser, left, past, sourceVars, ruleVars, viewVars>>

(* What the handlers of r have committed and not notified stays unsaid. *)
Unsaid(r) ==
  [c \in Channels |->
     IF c = "pipeline_reload" THEN telling[r]
     ELSE IF c = "incident_event" THEN changed[r]
     ELSE {desk[a].id : a \in {b \in Operators : desk[b].at = "committed" /\ desk[b].on = r}}]

(* A statement of the start fails, the process is killed, or it is told to *)
(* stop: nothing that is in memory is kept.                                *)
Die(r) ==
  /\ proc[r].at \notin {"down", "retired"} /\ Spend("deaths")
  /\ proc' = [proc EXCEPT ![r] = Down]
  /\ link' = [link EXCEPT ![r] = [c \in Channels |-> "off"]]
  /\ inbox' = [inbox EXCEPT ![r] = [c \in Channels |-> <<>>]]
  /\ missed' = [s \in Replicas |-> [c \in Channels |-> IF s = r THEN {} ELSE missed[s][c] \cup Unsaid(r)[c]]]
  /\ DropDesks(r) /\ StopReaders(r)
  /\ telling' = [telling EXCEPT ![r] = {}] /\ changed' = [changed EXCEPT ![r] = {}]
  /\ engine' = [engine EXCEPT ![r].todo = {}] /\ stays' = [stays EXCEPT ![r] = {}]
  /\ page' = [v \in Pages |-> IF page[v].on = r THEN Closed(page[v]) ELSE page[v]]
  /\ UNCHANGED <<schema, config, role, secret, browser, past, edition>>

UsesKeys(b, r) == UserStep(b, r) /\ UNCHANGED <<linkVars, sourceVars, readerVars, ruleVars, viewVars>>

Dials(r, c) == Connect(r, c) /\ UNCHANGED <<startVars, sourceVars, readerVars, ruleVars, viewVars>>

Breaks(r, c) ==
  /\ Break(r, c) /\ Spend("faults")
  /\ UNCHANGED <<schema, config, role, secret, proc, browser, past, sourceVars, readerVars, ruleVars, viewVars>>

restOfStart == <<schema, config, role, secret, proc, browser, past>>

-----------------------------------------------------------------------------
(* The registry. *)

EditSource(a, r) ==
  /\ Up(r) /\ Spend("edits")
  /\ \/ \E f \in Forms : createSource(a, r, f)
     \/ \E s \in Sources, f \in Forms : updateSource(a, r, s, f)
     \/ \E s \in Sources : setDefaultSource(a, r, s) \/ deleteSource(a, r, s)
  /\ UNCHANGED <<restOfStart, linkVars, readerVars, ruleVars, viewVars>>

EndSource(a) ==
  /\ CommitSource(a) \/ Refuse(a)
  /\ UNCHANGED <<startVars, linkVars, readerVars, ruleVars, viewVars>>

NotifySource(a) ==
  /\ Replied(a)
  /\ \/ Notify("data_source_event", desk[a].id) /\ UNCHANGED left
     \/ Spend("faults") /\ Unsent("data_source_event", {desk[a].id})
  /\ UNCHANGED <<restOfStart, readerVars, ruleVars, viewVars>>

HearSource(r) ==
  /\ Take(r, "data_source_event") /\ RequestReload(r)
  /\ UNCHANGED <<missed, startVars, sourceVars, ruleVars, viewVars>>

Manages(r) == ManagerStep(r) /\ UNCHANGED <<startVars, linkVars, sourceVars, ruleVars, viewVars>>
FloorTicks(r) == Floor(r) /\ UNCHANGED <<startVars, linkVars, sourceVars, ruleVars, viewVars>>
LoadFails(r) ==
  /\ LoadRowsFails(r) /\ Spend("faults")
  /\ UNCHANGED <<restOfStart, linkVars, sourceVars, ruleVars, viewVars>>
Syncs(r, s) == SyncCluster(r, s) /\ UNCHANGED <<startVars, linkVars, sourceVars, ruleVars, viewVars>>

Registry ==
  \/ \E a \in Operators :
       \/ \E r \in Replicas : EditSource(a, r)
       \/ EndSource(a) \/ NotifySource(a)
  \/ \E r \in Replicas :
       \/ HearSource(r) \/ Manages(r) \/ FloorTicks(r) \/ LoadFails(r)
       \/ \E s \in Sources : Syncs(r, s)

-----------------------------------------------------------------------------
(* Rules and pages. *)

Rules ==
  \/ /\ \/ /\ Spend("rules")
           /\ \/ \E r \in Replicas, t \in Tables : Up(r) /\ EditRule(r, t)
              \/ SilenceBegins
        \/ /\ Spend("faults")
           /\ \E r \in Replicas, t \in Tables : NotifyFails(r, t) \/ LoadTableFails(r, t)
     /\ UNCHANGED <<restOfStart, sourceVars, readerVars, viewVars>>
  \/ /\ \E r \in Replicas :
          \/ ReloadRules(r)
          \/ \E t \in Tables : NotifyPipeline(r, t) \/ LoadTable(r, t)
     /\ UNCHANGED <<startVars, sourceVars, readerVars, viewVars>>

Views ==
  \/ /\ \/ Spend("changes") /\ \E r \in Replicas, i \in Incidents : Up(r) /\ ChangeIncident(r, i)
        \/ /\ Spend("faults")
           /\ \/ \E r \in Replicas, i \in Incidents : NotifyIncidentFails(r, i)
              \/ \E v \in Pages : CloseSocket(v)
     /\ UNCHANGED <<restOfStart, sourceVars, readerVars, ruleVars>>
  \/ /\ \/ \E r \in Replicas :
             \/ Broadcast(r)
             \/ \E i \in Incidents : NotifyIncident(r, i)
             \/ \E v \in Pages : Up(r) /\ OpenSocket(v, r)
        \/ \E v \in Pages : Subscribe(v) \/ Deliver(v) \/ Refetch(v)
     /\ UNCHANGED <<startVars, sourceVars, readerVars, ruleVars>>

Lifecycle ==
  \/ \E r \in Replicas : Starts(r) \/ ProvidePipeline(r) \/ Serve(r) \/ Die(r)
  \/ \E b \in Browsers, r \in Replicas : UsesKeys(b, r)

Linking == \E r \in Replicas, c \in Channels : Dials(r, c) \/ Breaks(r, c)

Next == Lifecycle \/ Linking \/ Registry \/ Rules \/ Views

(* A supervisor starts what has ended, the managers run, their ticker      *)
(* ticks, and their queries do not always fail; nothing makes a            *)
(* notification arrive.                                                    *)
Fairness ==
  \A r \in Replicas :
    /\ WF_cpVars(Starts(r)) /\ WF_cpVars(ProvidePipeline(r)) /\ WF_cpVars(Serve(r))
    /\ WF_cpVars(Manages(r)) /\ WF_cpVars(FloorTicks(r))

Spec == Init /\ [][Next]_cpVars /\ Fairness
-----------------------------------------------------------------------------
TypeOK == StartTypeOK /\ LinkTypeOK /\ SourcesTypeOK /\ ReadersTypeOK /\ RulesTypeOK /\ ViewsTypeOK

(* kafka_manager.go: the floor is the "last-resort safety net for the case *)
(* where a NOTIFY is lost".  Every replica comes up, and its readers come  *)
(* to be those the registry asks for, through lost notifications, broken   *)
(* connections, failed queries and restarts.                               *)
Converges ==
  \A r \in Replicas : <>[](At(r, "retired") \/ (Up(r) /\ ReadersMatch(r)))

(* Every replica that is up works by what the tables say, the rules of the *)
(* engine as well as the permissions of the roles, or the gap is accounted *)
(* for.                                                                    *)
RulesFollowed == \A r \in Replicas : Up(r) => RulesExplained(r) /\ GrantsExplained(r)
=============================================================================
