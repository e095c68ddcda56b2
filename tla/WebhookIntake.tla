---------------------------- MODULE WebhookIntake ----------------------------
(***************************************************************************)
(* Signed webhooks: the rows of webhook_sources, the handlers that edit    *)
(* them (internal/router/webhook_sources.go), and a delivery on its way    *)
(* through the signature filter (middleware/webhook_signature.go) and      *)
(* ingest (router/alert.go).  The network may bring a delivery more than   *)
(* once; each process remembers the nonces it has seen.                    *)
(*                                                                         *)
(* Requests happen between the ticks of the clock, so that an instant is   *)
(* never equal to a limit.  A delivery has a nonce of its own.             *)
(***************************************************************************)
EXTENDS Naturals, Sequences, FiniteSets

CONSTANTS Hooks,            \* the ids of the rows
          Names,
          Skews,            \* allow_skew
          Editors,          \* the administrators' requests
          Gateways,         \* the processes that serve the webhooks
          Deliveries,       \* what has been signed
          Arrivals,         \* the requests that bring them
          MaxTime,          \* bound on the clock
          MaxKeys           \* bound on the key pairs

ASSUME WebhookIntakeAssumption ==
  /\ Skews \subseteq Nat \ {0} /\ Skews # {} /\ Hooks \subseteq Nat /\ MaxTime \in Nat /\ MaxKeys \in Nat \ {0}

VARIABLES hook,       \* hook[s]: a row of webhook_sources
          issued,     \* the key pairs generated so far
          editing,    \* editing[a]: a handler, and the row it has read
          now,
          signed,     \* signed[d]: when, and with which key
          nonces,     \* nonces[g]: when what g has seen expires
          sweep,      \* sweep[g]: the nonces that gcLoop has found expired and not yet deleted
          request,    \* request[k]: how far a request is
          met,        \* met[g]: history: the deliveries whose nonce a request has met as it expired
          processed   \* processed[g][d]: how g has come to process d

hookVars == <<hook, issued, editing>>
intakeVars == <<hook, issued, editing, now, signed, nonces, sweep, request, met, processed>>

NoKey == 0
FreeHook == [state |-> "free", name |-> CHOOSE n \in Names : TRUE, key |-> NoKey,
             skew |-> CHOOSE w \in Skews : TRUE, enabled |-> FALSE, mapped |-> FALSE]
IdleEditor == [at |-> "idle", op |-> "none", id |-> 0, read |-> FreeHook, key |-> NoKey, overlapped |-> FALSE]
NotSent == [at |-> "out", d |-> CHOOSE d \in Deliveries : TRUE, on |-> CHOOSE g \in Gateways : TRUE,
            row |-> FreeHook, since |-> 0, late |-> FALSE]

LiveHook(s) == hook[s].state = "live"

(* One source is there, and what is signed is signed with its key. *)
IntakeInit ==
  /\ \E s \in Hooks, w \in Skews :
       hook = [x \in Hooks |-> IF x = s THEN [FreeHook EXCEPT !.state = "live", !.key = 1, !.skew = w,
                                                              !.enabled = TRUE, !.mapped = TRUE]
                               ELSE FreeHook]
  /\ issued = 1 /\ editing = [a \in Editors |-> IdleEditor]
  /\ now = 0
  /\ signed \in [Deliveries -> [created : 0 .. MaxTime, key : {1}]]
  /\ nonces = [g \in Gateways |-> <<>>] /\ sweep = [g \in Gateways |-> {}]
  /\ request = [k \in Arrivals |-> NotSent] /\ met = [g \in Gateways |-> {}]
  /\ processed = [g \in Gateways |-> [d \in Deliveries |-> <<>>]]

restOfIntake == <<now, signed, nonces, sweep, request, met, processed>>

-----------------------------------------------------------------------------
(* Editing. *)

(* Mutant: two live rows may have one name. *)
CanInsert_AnyName(s, row) ==
  \A x \in Hooks \ {s} : hook[x].state # "free" => hook[x].key # row.key

(* The names of the live rows are unique, the client ids of all rows: with *)
(* no key pair the client id is empty.                                     *)
CanInsert(s, row) ==
  \A x \in Hooks \ {s} :
    /\ LiveHook(x) => hook[x].name # row.name
    /\ hook[x].state # "free" => hook[x].key # row.key

Commits(s, row) ==
  /\ hook' = [hook EXCEPT ![s] = row]
  /\ editing' = [b \in Editors |-> [editing[b] EXCEPT !.overlapped = TRUE]]

createWebhookSource(a, s, name, unsigned, skew) ==
  LET row == [FreeHook EXCEPT !.state = "live", !.name = name, !.skew = skew, !.enabled = TRUE,
                              !.key = IF unsigned THEN NoKey ELSE issued + 1]
  IN /\ editing[a].at = "idle" /\ hook[s].state = "free"
     /\ CanInsert(s, row) /\ Commits(s, row)
     /\ unsigned \/ issued < MaxKeys
     /\ issued' = IF unsigned THEN issued ELSE issued + 1

(* update and rotate read the row first (a rotation then makes a new key  *)
(* pair) ...                                                               *)
ReadHook(a, s, op) ==
  /\ editing[a].at = "idle" /\ LiveHook(s)
  /\ op = "rotate" => issued < MaxKeys
  /\ issued' = IF op = "rotate" THEN issued + 1 ELSE issued
  /\ editing' = [editing EXCEPT ![a] = [at |-> "read", op |-> op, id |-> s, read |-> hook[s],
                                       key |-> issued', overlapped |-> FALSE]]
  /\ UNCHANGED hook

(* Mutant: an update takes the key that the page sends, too. *)
Edited_TakesAll(a) ==
  {[editing[a].read EXCEPT !.key = k] : k \in 1 .. editing[a].read.key}

(* What they make of the row they have read. *)
FilledIn(row, n, w, e, m) == [row EXCEPT !.name = n, !.skew = w, !.enabled = e, !.mapped = m]
Edited(a) ==
  IF editing[a].op = "rotate" THEN {[editing[a].read EXCEPT !.key = editing[a].key]}
  ELSE {FilledIn(editing[a].read, n, w, e, m) : n \in Names, w \in Skews, e \in BOOLEAN, m \in BOOLEAN}

(* ... and then save all of it, over whatever is there by then; a deleted  *)
(* row is inserted again.  The unique indexes may refuse.                  *)
SaveHook(a) ==
  /\ editing[a].at = "read"
  /\ LET s == editing[a].id IN
       \E row \in Edited(a) :
         /\ CanInsert(s, row)
         /\ hook' = [hook EXCEPT ![s] = row]
         /\ editing' = [b \in Editors |-> IF b = a THEN IdleEditor ELSE [editing[b] EXCEPT !.overlapped = TRUE]]
  /\ UNCHANGED issued

SaveRefused(a) ==
  /\ editing[a].at = "read"
  /\ \E row \in Edited(a) : ~CanInsert(editing[a].id, row)
  /\ editing' = [editing EXCEPT ![a] = IdleEditor]
  /\ UNCHANGED <<hook, issued>>

(* The delete marks the row. *)
deleteWebhookSource(a, s) ==
  /\ editing[a].at = "idle" /\ LiveHook(s)
  /\ Commits(s, [hook[s] EXCEPT !.state = "deleted"])
  /\ UNCHANGED issued

-----------------------------------------------------------------------------
(* Deliveries. *)

Goes(k, at) == request' = [request EXCEPT ![k].at = at]
Serving(k, at) == request[k].at = at
NonceOf(k) == <<request[k].row.key, request[k].d>>

Lookup(name) == {s \in Hooks : LiveHook(s) /\ hook[s].name = name /\ hook[s].enabled}

(* A request arrives, for the first name, and finds an enabled row with a  *)
(* public key; else it is refused.                                         *)
Arrive(k, d, g) ==
  /\ Serving(k, "out")
  /\ LET found == Lookup(FreeHook.name) IN
       IF \E s \in found : hook[s].key # NoKey
       THEN request' = [request EXCEPT ![k] = [NotSent EXCEPT !.at = "found", !.d = d, !.on = g,
                                                              !.row = hook[CHOOSE s \in found : TRUE]]]
       ELSE Goes(k, "refused")
  /\ UNCHANGED <<hookVars, now, signed, nonces, sweep, met, processed>>

(* Mutant: a nonce is kept for as long as a delivery may be late. *)
ttl_Short(row) == row.skew

(* A delivery may be early by the skew, and then be good for twice that.   *)
ttl(row) == 2 * row.skew

(* LoadOrStore: the nonce is new, or known, or known and expired. *)
SetNX(k) ==
  LET g == request[k].on
      mine == [request[k] EXCEPT !.since = now, !.at = "fresh"]
  IN /\ Serving(k, "found")
     /\ IF NonceOf(k) \notin DOMAIN nonces[g]
        THEN /\ nonces' = [nonces EXCEPT ![g] = [n \in DOMAIN @ \cup {NonceOf(k)} |->
                             IF n = NonceOf(k) THEN now + ttl(request[k].row) ELSE @[n]]]
             /\ request' = [request EXCEPT ![k] = mine] /\ UNCHANGED met
        ELSE /\ UNCHANGED nonces
             /\ IF now < nonces[g][NonceOf(k)] THEN Goes(k, "refused") /\ UNCHANGED met
                ELSE /\ request' = [request EXCEPT ![k] = [mine EXCEPT !.at = "expired"]]
                     /\ met' = [met EXCEPT ![g] = @ \cup {request[k].d}]
     /\ UNCHANGED <<hookVars, now, signed, sweep, processed>>

(* An expired nonce is stored anew, with the expiry computed before. *)
StoreNonce(k) ==
  /\ Serving(k, "expired") /\ Goes(k, "fresh")
  /\ nonces' = [nonces EXCEPT ![request[k].on] = [n \in DOMAIN @ \cup {NonceOf(k)} |->
                  IF n = NonceOf(k) THEN request[k].since + ttl(request[k].row) ELSE @[n]]]
  /\ UNCHANGED <<hookVars, now, signed, sweep, met, processed>>

(* The signature covers its creation, which is at most skew from now. *)
InWindow(created, skew) == now < created + skew /\ created <= now + skew

Verify(k) ==
  /\ Serving(k, "fresh")
  /\ LET s == signed[request[k].d] IN
       IF s.key = request[k].row.key /\ InWindow(s.created, request[k].row.skew)
       THEN request' = [request EXCEPT ![k].at = "verified", ![k].late = now > request[k].since]
       ELSE Goes(k, "refused")
  /\ UNCHANGED <<hookVars, now, signed, nonces, sweep, met, processed>>

(* ingest looks the row up again and builds the adapter of its mapping;    *)
(* what the adapter makes of the body is in AlertForms.                    *)
ingest(k) ==
  /\ Serving(k, "verified")
  /\ LET found == Lookup(FreeHook.name) IN
       IF \E s \in found : hook[s].mapped
       THEN /\ Goes(k, "accepted")
            /\ processed' = [processed EXCEPT ![request[k].on][request[k].d] =
                               Append(@, [skew |-> request[k].row.skew, late |-> request[k].late])]
       ELSE Goes(k, "rejected") /\ UNCHANGED processed
  /\ UNCHANGED <<hookVars, now, signed, nonces, sweep, met>>

(* gcLoop, once a minute: what it has found expired it deletes, even if it *)
(* has been stored anew.                                                   *)
FindExpired(g) ==
  /\ sweep[g] = {}
  /\ sweep' = [sweep EXCEPT ![g] = {n \in DOMAIN nonces[g] : now >= nonces[g][n]}]
  /\ sweep'[g] # {}
  /\ UNCHANGED <<hookVars, now, signed, nonces, request, met, processed>>

DeleteExpired(g) ==
  /\ sweep[g] # {}
  /\ nonces' = [nonces EXCEPT ![g] = [n \in DOMAIN @ \ sweep[g] |-> @[n]]]
  /\ sweep' = [sweep EXCEPT ![g] = {}]
  /\ UNCHANGED <<hookVars, now, signed, request, met, processed>>

Tick == now < MaxTime /\ now' = now + 1 /\ UNCHANGED <<hookVars, signed, nonces, sweep, request, met, processed>>

(* A process ends: its requests are cut off, and its nonces forgotten. *)
Crash(g) ==
  /\ nonces' = [nonces EXCEPT ![g] = <<>>] /\ sweep' = [sweep EXCEPT ![g] = {}] /\ met' = [met EXCEPT ![g] = {}]
  /\ processed' = [processed EXCEPT ![g] = [d \in Deliveries |-> <<>>]]
  /\ request' = [k \in Arrivals |-> IF request[k].on = g /\ request[k].at \in {"found", "expired", "fresh", "verified"}
                                    THEN [NotSent EXCEPT !.at = "refused"] ELSE request[k]]
  /\ UNCHANGED <<hookVars, now, signed>>

EditHook ==
  /\ \E a \in Editors, s \in Hooks :
       \/ \E n \in Names, u \in BOOLEAN, w \in Skews : createWebhookSource(a, s, n, u, w)
       \/ \E op \in {"update", "rotate"} : ReadHook(a, s, op)
       \/ deleteWebhookSource(a, s)
  /\ UNCHANGED restOfIntake

EndEdit ==
  /\ \E a \in Editors : SaveHook(a) \/ SaveRefused(a)
  /\ UNCHANGED restOfIntake

DeliveryStep(k) ==
  \/ \E d \in Deliveries, g \in Gateways : Arrive(k, d, g)
  \/ SetNX(k) \/ StoreNonce(k) \/ Verify(k) \/ ingest(k)

-----------------------------------------------------------------------------
IntakeTypeOK ==
  /\ \A s \in Hooks : /\ hook[s].state \in {"free", "live", "deleted"} /\ hook[s].key \in 0 .. issued
                      /\ \A x \in Hooks \ {s} : LiveHook(s) /\ LiveHook(x) => hook[s].name # hook[x].name
  /\ issued \in 1 .. MaxKeys /\ now \in 0 .. MaxTime
  /\ \A k \in Arrivals : request[k].at \in {"out", "found", "expired", "fresh", "verified", "accepted", "rejected", "refused"}

(* webhook_signature.go: a process takes a delivery once, however often it *)
(* comes, as long as the row allows what it allowed the first time, unless *)
(* a request stood still between its nonce and its signature, or some      *)
(* request, this one or a third, met the nonce as it expired, spent by one *)
(* that had come too early.                                                *)
ReplayExplained ==
  \A g \in Gateways, d \in Deliveries :
    LET times == processed[g][d] IN
      d \in met[g] \/ \A i, j \in DOMAIN times : i # j =>
        times[i].late \/ times[j].late \/ times[i].skew # times[j].skew

(* webhook_sources.go: an old key of a source is not accepted again, and a *)
(* deleted source stays deleted, but by a handler that had read the row    *)
(* before another one wrote.                                               *)
KeysMoveOn ==
  [][ \A s \in Hooks :
        \/ hook[s].state = "free"
        \/ hook'[s].key >= hook[s].key /\ (hook[s].state = "deleted" => hook'[s].state = "deleted")
        \/ \E a \in Editors : /\ editing[a].at = "read" /\ editing[a].id = s /\ editing[a].overlapped
                              /\ editing'[a].at = "idle" ]_intakeVars
=============================================================================
