------------------------------ MODULE Realtime ------------------------------
(***************************************************************************)
(* The pages that follow incidents without polling: internal/realtime (the *)
(* hub and its listener), internal/router/realtime.go, and the hook of the *)
(* pages, web/src/hooks/useRealtime.ts.  An event only says that something *)
(* has changed: a page that hears of one waits a moment and fetches all it *)
(* shows again.  So a frame has no content here.                           *)
(***************************************************************************)
EXTENDS PgNotify, Naturals

CONSTANTS Pages, Incidents,
          watches,          \* watches[v]: the incidents whose events reach the topic of page v
          SendBuffer        \* sendBufferSize

ASSUME RealtimeAssumption == watches \in [Pages -> SUBSET Incidents] /\ SendBuffer \in Nat \ {0}

VARIABLES page,       \* page[v]: its socket, what is buffered for it, and whether what it shows is old
          changed     \* changed[r]: incidents r has changed and not notified yet

viewVars == <<page, changed>>

Closed(p) == [p EXCEPT !.at = "closed", !.buffer = 0, !.hasty = FALSE]

ViewsInit ==
  /\ page = [v \in Pages |-> [at |-> "closed", on |-> CHOOSE r \in Listeners : TRUE, buffer |-> 0,
                              nudged |-> FALSE, old |-> FALSE, hasty |-> FALSE]]
  /\ changed = [r \in Listeners |-> {}]

(* An incident changes (incident.Service), and then the event is sent. *)
ChangeIncident(r, i) ==
  /\ changed' = [changed EXCEPT ![r] = @ \cup {i}]
  /\ page' = [v \in Pages |-> IF i \in watches[v] THEN [page[v] EXCEPT !.old = TRUE] ELSE page[v]]
  /\ UNCHANGED linkVars

NotifyIncident(r, i) ==
  /\ i \in changed[r] /\ changed' = [changed EXCEPT ![r] = @ \ {i}]
  /\ Notify("incident_event", i)
  /\ UNCHANGED page

NotifyIncidentFails(r, i) ==
  /\ i \in changed[r] /\ changed' = [changed EXCEPT ![r] = @ \ {i}]
  /\ Unsent("incident_event", {i})
  /\ UNCHANGED page

Subscribed(v, r) == page[v].at = "subscribed" /\ page[v].on = r

(* The listener hands an event to the subscribers of everything and to     *)
(* those of the incident; one whose buffer is full does not get it.        *)
Broadcast(r) ==
  /\ Take(r, "incident_event")
  /\ page' = [v \in Pages |->
       IF Subscribed(v, r) /\ Heard(r, "incident_event") \in watches[v] /\ page[v].buffer < SendBuffer
       THEN [page[v] EXCEPT !.buffer = @ + 1] ELSE page[v]]
  /\ UNCHANGED <<changed, missed>>

(* Mutant: nothing is fetched when the socket opens. *)
OpenSocket_Quiet(v, r) ==
  /\ page[v].at = "closed"
  /\ page' = [page EXCEPT ![v].at = "upgraded", ![v].on = r]
  /\ UNCHANGED <<changed, linkVars>>

(* The upgrade is answered: the page, which may have missed anything, will *)
(* fetch.  The hub takes it up after that.                                 *)
OpenSocket(v, r) ==
  /\ page[v].at = "closed"
  /\ page' = [page EXCEPT ![v].at = "upgraded", ![v].on = r, ![v].nudged = TRUE]
  /\ UNCHANGED <<changed, linkVars>>

Subscribe(v) ==
  /\ page[v].at = "upgraded"
  /\ page' = [page EXCEPT ![v].at = "subscribed"]
  /\ UNCHANGED <<changed, linkVars>>

(* writePump sends a frame; the page sets its timer, if it is not running. *)
Deliver(v) ==
  /\ page[v].buffer > 0
  /\ page' = [page EXCEPT ![v].buffer = @ - 1, ![v].nudged = TRUE]
  /\ UNCHANGED <<changed, linkVars>>

(* The timer runs out and the page fetches.  It is hasty if the hub does   *)
(* not know it yet.                                                        *)
Refetch(v) ==
  /\ page[v].nudged
  /\ page' = [page EXCEPT ![v].nudged = FALSE, ![v].old = FALSE, ![v].hasty = page[v].at = "upgraded"]
  /\ UNCHANGED <<changed, linkVars>>

(* Either side closes: unsubscribe takes the page off every topic and      *)
(* then closes its buffer.  The page will open again.                      *)
CloseSocket(v) ==
  /\ page[v].at # "closed"
  /\ page' = [page EXCEPT ![v] = Closed(@)]
  /\ UNCHANGED <<changed, linkVars>>

-----------------------------------------------------------------------------
ViewsTypeOK ==
  /\ \A v \in Pages : page[v].at \in {"closed", "upgraded", "subscribed"} /\ page[v].buffer \in 0 .. SendBuffer
  /\ changed \in [Listeners -> SUBSET Incidents]

(* useRealtime.ts: the channel "replaced" the polling.  A page whose       *)
(* socket is open shows what is stored, or a fetch is due, or an event is  *)
(* on its way to it, or was lost before it reached the hub, or the page    *)
(* fetched before the hub knew it.  An event that finds the buffer full is *)
(* no loss: the buffer is not empty.                                       *)
ViewsExplained ==
  \A v \in Pages : page[v].at = "subscribed" /\ page[v].old =>
    \/ page[v].nudged \/ page[v].buffer > 0 \/ page[v].hasty
    \/ \E i \in watches[v] :
         \/ \E s \in Listeners : i \in changed[s]
         \/ i \in missed[page[v].on]["incident_event"]
         \/ \E n \in DOMAIN inbox[page[v].on]["incident_event"] :
              inbox[page[v].on]["incident_event"][n] = i
=============================================================================
