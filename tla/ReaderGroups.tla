---------------------------- MODULE ReaderGroups ----------------------------
(***************************************************************************)
(* What follows the registry in a process: the Kafka manager, which keeps  *)
(* a group of readers for every enabled kafka row                          *)
(* (internal/ingestion/kafka_manager.go), and the caches of the k8s        *)
(* clusters (internal/k8scache), which are loaded once.                    *)
(***************************************************************************)
EXTENDS DataSources

VARIABLES mgr,        \* mgr[r]: the debouncer: where it stands, reloadCh, and the rows it has loaded
          group,      \* group[r][s]: the readers of row s, and the config they were started with
          cluster     \* cluster[r][s]: the cache of row s

readerVars == <<mgr, group, cluster>>

NoGroup == [state |-> "none", cfg |-> CHOOSE c \in Configs : TRUE]
NoRows == [s \in Sources |-> Free]
Off == [at |-> "off", ask |-> FALSE, rows |-> NoRows]

ReadersInit ==
  /\ mgr = [r \in Servers |-> Off]
  /\ group = [r \in Servers |-> [s \in Sources |-> NoGroup]]
  /\ cluster = [r \in Servers |-> [s \in Sources |-> "none"]]

Wants(rows, kind, s) == rows[s].state = "live" /\ rows[s].kind = kind /\ rows[s].enabled
Phase(r, at) == mgr' = [mgr EXCEPT ![r].at = at] /\ UNCHANGED <<group, cluster>>

(* router.Setup loads the clusters; a client that cannot be built is       *)
(* skipped.  Start asks for a first reload.                                *)
StartReaders(r) ==
  /\ mgr' = [mgr EXCEPT ![r] = [Off EXCEPT !.at = "wait", !.ask = TRUE]]
  /\ cluster' = [cluster EXCEPT ![r] = [s \in Sources |-> IF Wants(row, "k8s", s) THEN "syncing" ELSE "none"]]
  /\ UNCHANGED group

(* The informers have filled the core resources within 5 minutes, or not;  *)
(* a cache that is not ready refuses to be searched.                       *)
SyncCluster(r, s) ==
  /\ cluster[r][s] = "syncing"
  /\ \E result \in {"ready", "not ready"} : cluster' = [cluster EXCEPT ![r][s] = result]
  /\ UNCHANGED <<mgr, group>>

(* A reload is asked for; the channel holds one request. *)
RequestReload(r) == mgr' = [mgr EXCEPT ![r].ask = TRUE] /\ UNCHANGED <<group, cluster>>

OpenWindow(r) ==
  /\ mgr[r].at = "wait" /\ mgr[r].ask
  /\ mgr' = [mgr EXCEPT ![r] = [@ EXCEPT !.at = "window", !.ask = FALSE]]
  /\ UNCHANGED <<group, cluster>>

(* A further request begins the window of half a second again. *)
ExtendWindow(r) ==
  /\ mgr[r].at = "window" /\ mgr[r].ask
  /\ mgr' = [mgr EXCEPT ![r].ask = FALSE]
  /\ UNCHANGED <<group, cluster>>

CloseWindow(r) == mgr[r].at = "window" /\ Phase(r, "load")

(* Mutant: no floor. *)
Floor_Never(r) == mgr[r].at = "floor" /\ Phase(r, "load")

(* The ticker of 5 minutes, which is looked at between windows only. *)
Floor(r) == mgr[r].at = "wait" /\ Phase(r, "load")

LoadRows(r) ==
  /\ mgr[r].at = "load"
  /\ mgr' = [mgr EXCEPT ![r].at = "apply", ![r].rows = row]
  /\ UNCHANGED <<group, cluster>>

LoadRowsFails(r) == mgr[r].at = "load" /\ Phase(r, "wait")

(* spawnReaderGroup: the dialer wants a password if the config names a     *)
(* mechanism; the other conditions are those of the handlers' validation.  *)
Spawns(w) == w.cfg \in needsSecret => w.secret

(* One row of Reload.  A group with another config is stopped, and stays   *)
(* in the map as it is if the new one cannot be spawned.                   *)
Reconcile(r, s) ==
  LET w == mgr[r].rows[s]
      g == group[r][s] IN
    IF ~Wants(mgr[r].rows, "kafka", s) THEN NoGroup
    ELSE IF g.state # "none" /\ g.cfg = w.cfg THEN g
    ELSE IF Spawns(w) THEN [state |-> "running", cfg |-> w.cfg]
    ELSE IF g.state = "none" THEN g ELSE [g EXCEPT !.state = "stopped"]

Reload(r) ==
  /\ mgr[r].at = "apply"
  /\ group' = [group EXCEPT ![r] = [s \in Sources |-> Reconcile(r, s)]]
  /\ mgr' = [mgr EXCEPT ![r].at = "wait", ![r].rows = NoRows]
  /\ UNCHANGED cluster

(* shutdownAll, ShutdownK8sCache, or the end of the process. *)
StopReaders(r) ==
  /\ mgr' = [mgr EXCEPT ![r] = Off]
  /\ group' = [group EXCEPT ![r] = [s \in Sources |-> NoGroup]]
  /\ cluster' = [cluster EXCEPT ![r] = [s \in Sources |-> "none"]]

ManagerStep(r) == OpenWindow(r) \/ ExtendWindow(r) \/ CloseWindow(r) \/ LoadRows(r) \/ Reload(r)

-----------------------------------------------------------------------------
ReadersTypeOK ==
  \A r \in Servers :
    /\ mgr[r].at \in {"off", "wait", "window", "load", "apply"}
    /\ \A s \in Sources :
         /\ group[r][s].state \in {"none", "running", "stopped"}
         /\ cluster[r][s] \in {"none", "syncing", "ready", "not ready"}
         /\ mgr[r].at = "off" => group[r][s] = NoGroup

(* The readers of r are those the registry asks for.  Left out is a row    *)
(* that cannot be started, and one that was changed to such a row and back *)
(* again: its stopped group is taken for the one that is wanted.           *)
ReadersMatch(r) ==
  \A s \in Sources :
    IF ~Wants(row, "kafka", s) THEN group[r][s].state = "none"
    ELSE \/ group[r][s] = [state |-> "running", cfg |-> row[s].cfg]
         \/ ~Spawns(row[s]) /\ group[r][s].state # "running"
         \/ group[r][s] = [state |-> "stopped", cfg |-> row[s].cfg]
=============================================================================
