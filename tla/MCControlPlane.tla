--------------------------- MODULE MCControlPlane ---------------------------
(* One part of the deployment is looked at at a time; processes may end in *)
(* each of them.                                                           *)
EXTENDS ControlPlane, TLC
CONSTANTS a1, r1, r2, f1, f2, f3, v1, v2, i1, i2
MCVersion == f1 :> 1 @@ f2 :> 2 @@ f3 :> 2
MCWatches == v1 :> {i1, i2} @@ v2 :> {i2}
Form(kind, enabled, default, cfg, key) ==
  [kind |-> kind, enabled |-> enabled, default |-> default, cfg |-> cfg, secret |-> key]
MCForms == {Form("kafka", TRUE, TRUE, "plain", FALSE), Form("kafka", TRUE, FALSE, "sasl", TRUE),
            Form("kafka", TRUE, FALSE, "sasl", FALSE), Form("k8s", TRUE, TRUE, "plain", FALSE),
            Form("kafka", FALSE, FALSE, "plain", FALSE)}

VARIABLE focus
mcVars == <<cpVars, focus>>

Nothing == [b \in Bounds |-> 0]
(* A deployment that has been running: r2 is up, or is not used. *)
Running(places) ==
  /\ schema = [clean |-> Versions, dirty |-> {}, ran |-> Files]
  /\ past = [overlap |-> FALSE, edited |-> {}]
  /\ config = [public |-> 1, private |-> 1, jwt |-> 2, initialized |-> TRUE, keys |-> 2]
  /\ role = FALSE /\ secret = "none"
  /\ proc = [r \in Replicas |-> IF places[r] = "up" THEN [Down EXCEPT !.at = "up", !.pair = 1, !.jwt = 2, !.loaded = TRUE]
                                ELSE [Down EXCEPT !.at = places[r]]]
  /\ browser = [b \in Browsers |-> [key |-> 0, token |-> 0]]
  /\ link = [r \in Replicas |-> [c \in Channels |-> IF places[r] = "up" THEN "broken" ELSE "off"]]
  /\ inbox = [r \in Listeners |-> [c \in Channels |-> <<>>]]
  /\ missed = [r \in Listeners |-> [c \in Channels |-> {}]]
  /\ mgr = [r \in Servers |-> IF places[r] = "up" THEN [Off EXCEPT !.at = "wait", !.ask = TRUE] ELSE Off]
  /\ group = [r \in Servers |-> [s \in Sources |-> NoGroup]]
  /\ cluster = [r \in Servers |-> [s \in Sources |-> "none"]]
  /\ SourcesInit /\ RulesInit /\ ViewsInit

MCInit ==
  \/ /\ focus = "start"
     /\ \/ left = Nothing /\ Init /\ schema.ran = {}
        \/ /\ left = [Nothing EXCEPT !["deaths"] = 2] /\ Init
           /\ schema.ran # Files /\ config.initialized
        \/ /\ left \in {[Nothing EXCEPT !["deaths"] = 1], [Nothing EXCEPT !["forms"] = 3]} /\ Init
           /\ schema.ran = Files /\ ~config.initialized
        \/ /\ left = [Nothing EXCEPT !["forms"] = 3, !["deaths"] = 1] /\ Init
           /\ schema.ran = Files /\ config.initialized
  \/ /\ focus = "desks" /\ Running(r1 :> "up" @@ r2 :> "retired")
     /\ left = [Nothing EXCEPT !["edits"] = 3]
  \/ /\ focus = "registry" /\ Running(r1 :> "up" @@ r2 :> "retired")
     /\ left \in {[Nothing EXCEPT !["edits"] = 2, !["faults"] = 1],
                  [Nothing EXCEPT !["edits"] = 2, !["deaths"] = 1]}
  \/ /\ focus = "rules" /\ Running(r1 :> "up" @@ r2 :> "up")
     /\ left \in {[Nothing EXCEPT !["rules"] = 2, !["faults"] = 1],
                  [Nothing EXCEPT !["rules"] = 2, !["deaths"] = 1]}
  \/ /\ focus = "views" /\ Running(r1 :> "up" @@ r2 :> "retired")
     /\ left \in {[Nothing EXCEPT !["changes"] = 3, !["faults"] = 1],
                  [Nothing EXCEPT !["changes"] = 2, !["deaths"] = 1, !["faults"] = 1]}

LinksOf(c) == \E r \in Replicas : Dials(r, c) \/ Breaks(r, c)
Restarts == \E r \in Replicas : Starts(r) \/ ProvidePipeline(r) \/ Serve(r) \/ Die(r)

MCNext ==
  /\ UNCHANGED focus
  /\ \/ focus = "start" /\ Lifecycle
     \/ /\ focus = "registry" /\ (Restarts \/ LinksOf("data_source_event") \/ Registry)
        /\ \A a \in Operators \ {a1} : Resting(a)'
     \/ focus = "desks" /\ Registry
     \/ focus = "rules" /\ (Restarts \/ LinksOf("pipeline_reload") \/ Rules)
     \/ focus = "views" /\ (Restarts \/ LinksOf("incident_event") \/ Views)

MCFairness ==
  \A r \in Replicas :
    /\ WF_mcVars((Starts(r) \/ ProvidePipeline(r) \/ Serve(r)) /\ UNCHANGED focus)
    /\ WF_mcVars(focus \in {"registry", "desks"} /\ Manages(r) /\ UNCHANGED focus)
    /\ WF_mcVars(focus \in {"registry", "desks"} /\ FloorTicks(r) /\ UNCHANGED focus)
MCSpec == MCInit /\ [][MCNext]_mcVars /\ MCFairness
=============================================================================
