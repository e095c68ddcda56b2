--------------------------- MODULE AlertPathProofs ---------------------------
(***************************************************************************)
(* For every set of sources, editors, gateways and requests, every address *)
(* book and every bound: the keys of a source move on, a delivery is taken *)
(* once, and a page goes to those the book names.  For every message and   *)
(* body: what is made of it is what it means.                              *)
(***************************************************************************)
EXTENDS AlertPath, SequenceTheorems, TLAPS

-----------------------------------------------------------------------------
(* The rows of webhook_sources, and what their editors have read. *)

HookShape == [state : {"free", "live", "deleted"}, name : Names \cup {FreeHook.name}, key : Nat,
              skew : Nat \ {0}, enabled : BOOLEAN, mapped : BOOLEAN]
EditShape == [at : {"idle", "read"}, op : {"none", "update", "rotate"}, id : Hooks \cup {0},
              read : HookShape, key : Nat, overlapped : BOOLEAN]

(* A key that an editor has made is newer than the one it has read; and    *)
(* until another one commits, what it has read is what is there.           *)
EditorInv(a) ==
  editing[a].at = "read" =>
    /\ editing[a].id \in Hooks /\ editing[a].op \in {"update", "rotate"}
    /\ editing[a].read.key <= editing[a].key /\ editing[a].key <= issued
    /\ ~editing[a].overlapped => editing[a].read = hook[editing[a].id] /\ LiveHook(editing[a].id)

NamesUnique == \A s \in Hooks : \A x \in Hooks \ {s} : LiveHook(s) /\ LiveHook(x) => hook[s].name # hook[x].name

KeysInv ==
  /\ hook \in [Hooks -> HookShape] /\ editing \in [Editors -> EditShape] /\ issued \in 1 .. MaxKeys
  /\ \A s \in Hooks : hook[s].key <= issued
  /\ \A a \in Editors : EditorInv(a)
  /\ NamesUnique

LEMMA FreeShape ==
  /\ FreeHook \in HookShape /\ IdleEditor \in EditShape /\ IdleEditor.at = "idle"
  /\ FreeHook.state = "free" /\ FreeHook.key = 0
  /\ MaxKeys \in Nat \ {0} /\ MaxTime \in Nat /\ Skews \subseteq Nat \ {0}
<1>1. (CHOOSE w \in Skews : TRUE) \in Nat \ {0}
  BY WebhookIntakeAssumption
<1>2. FreeHook \in HookShape
  BY <1>1 DEF FreeHook, HookShape, NoKey
<1>3. IdleEditor \in EditShape
  BY <1>2 DEF IdleEditor, EditShape, NoKey
<1> QED BY <1>2, <1>3, WebhookIntakeAssumption DEF FreeHook, IdleEditor, NoKey

LEMMA KeysInit == IntakeInit => KeysInv
<1> SUFFICES ASSUME IntakeInit PROVE KeysInv
  OBVIOUS
<1>1. PICK s \in Hooks, w \in Skews :
        hook = [x \in Hooks |-> IF x = s THEN [FreeHook EXCEPT !.state = "live", !.key = 1, !.skew = w,
                                                               !.enabled = TRUE, !.mapped = TRUE]
                                ELSE FreeHook]
  BY DEF IntakeInit
<1> DEFINE row == [FreeHook EXCEPT !.state = "live", !.key = 1, !.skew = w, !.enabled = TRUE, !.mapped = TRUE]
<1>2. row \in HookShape /\ row.key = 1
  BY FreeShape DEF HookShape
<1>3. hook = [x \in Hooks |-> IF x = s THEN row ELSE FreeHook]
  BY <1>1
<1> HIDE DEF row
<1>4. issued = 1 /\ editing = [a \in Editors |-> IdleEditor]
  BY DEF IntakeInit
<1>5. hook \in [Hooks -> HookShape] /\ \A x \in Hooks : hook[x].key <= 1
  BY <1>2, <1>3, FreeShape
<1>6. NamesUnique
  BY <1>3, FreeShape DEF NamesUnique, LiveHook
<1>7. \A a \in Editors : editing[a] \in EditShape /\ EditorInv(a)
  BY <1>4, FreeShape DEF EditorInv
<1>8. issued \in 1 .. MaxKeys
  BY <1>4, FreeShape
<1> QED BY <1>4, <1>5, <1>6, <1>7, <1>8, FreeShape DEF KeysInv

(* A handler commits a row, and the others have been overlapped.           *)
LEMMA CommitInv ==
  ASSUME KeysInv, NEW s \in Hooks, NEW row \in HookShape, hook' = [hook EXCEPT ![s] = row],
         row.state = "live" => \A x \in Hooks \ {s} : LiveHook(x) => hook[x].name # row.name,
         issued' \in 1 .. MaxKeys, issued <= issued', row.key <= issued',
         editing' \in [Editors -> EditShape],
         \A b \in Editors : \/ editing'[b].at = "idle"
                            \/ editing'[b] = [editing[b] EXCEPT !.overlapped = TRUE]
  PROVE  KeysInv'
<1>1. /\ hook \in [Hooks -> HookShape] /\ editing \in [Editors -> EditShape] /\ issued \in Nat /\ issued' \in Nat
      /\ MaxKeys \in Nat
  BY FreeShape DEF KeysInv
<1>2. hook' \in [Hooks -> HookShape] /\ hook'[s] = row /\ \A x \in Hooks \ {s} : hook'[x] = hook[x]
  BY <1>1
<1>3. ASSUME NEW x \in Hooks PROVE hook'[x].key <= issued'
  <2>1. hook[x].key <= issued /\ hook[x].key \in Nat
    BY <1>1 DEF KeysInv, HookShape
  <2> QED BY <1>1, <1>2, <2>1
<1>4. ASSUME NEW b \in Editors PROVE EditorInv(b)'
  <2>1. CASE editing'[b].at = "idle"
    BY <2>1 DEF EditorInv
  <2>2. CASE editing'[b] = [editing[b] EXCEPT !.overlapped = TRUE]
    <3>1. editing[b] \in EditShape /\ editing[b].key \in Nat
      BY <1>1 DEF EditShape
    <3>2. /\ editing'[b].at = editing[b].at /\ editing'[b].id = editing[b].id /\ editing'[b].op = editing[b].op
          /\ editing'[b].read = editing[b].read /\ editing'[b].key = editing[b].key /\ editing'[b].overlapped
      BY <2>2, <3>1 DEF EditShape
    <3>3. EditorInv(b)
      BY DEF KeysInv
    <3> QED BY <1>1, <3>1, <3>2, <3>3 DEF EditorInv
  <2> QED BY <2>1, <2>2
<1>5. NamesUnique'
  <2> SUFFICES ASSUME NEW x \in Hooks, NEW y \in Hooks \ {x}, LiveHook(x)', LiveHook(y)'
               PROVE  hook'[x].name # hook'[y].name
    BY DEF NamesUnique
  <2>1. CASE x = s
    BY <1>2, <2>1 DEF LiveHook
  <2>2. CASE y = s
    BY <1>2, <2>2 DEF LiveHook
  <2>3. CASE x # s /\ y # s
    BY <1>2, <2>3 DEF KeysInv, NamesUnique, LiveHook
  <2> QED BY <2>1, <2>2, <2>3
<1> QED BY <1>2, <1>3, <1>4, <1>5 DEF KeysInv

(* What KeysMoveOn says of row s in one step.                              *)
MovesOn(s) ==
  \/ hook[s].state = "free"
  \/ hook'[s].key >= hook[s].key /\ (hook[s].state = "deleted" => hook'[s].state = "deleted")
  \/ \E a \in Editors : /\ editing[a].at = "read" /\ editing[a].id = s /\ editing[a].overlapped
                        /\ editing'[a].at = "idle"

LEMMA RestMovesOn ==
  ASSUME KeysInv, NEW S, \A s \in Hooks \ S : hook'[s] = hook[s]
  PROVE  \A s \in Hooks \ S : MovesOn(s)
<1> SUFFICES ASSUME NEW s \in Hooks \ S PROVE MovesOn(s)
  OBVIOUS
<1>1. hook[s].key \in Nat
  BY DEF KeysInv, HookShape
<1> QED BY <1>1 DEF MovesOn

LEMMA CreateKeys ==
  ASSUME KeysInv, NEW a \in Editors, NEW s \in Hooks, NEW name \in Names, NEW unsigned \in BOOLEAN,
         NEW skew \in Skews, createWebhookSource(a, s, name, unsigned, skew)
  PROVE  KeysInv' /\ \A x \in Hooks : MovesOn(x)
<1> DEFINE row == [FreeHook EXCEPT !.state = "live", !.name = name, !.skew = skew, !.enabled = TRUE,
                                   !.key = IF unsigned THEN NoKey ELSE issued + 1]
<1>1. /\ hook[s].state = "free" /\ CanInsert(s, row) /\ Commits(s, row)
      /\ unsigned \/ issued < MaxKeys
      /\ issued' = IF unsigned THEN issued ELSE issued + 1
  BY DEF createWebhookSource
<1>2. issued \in 1 .. MaxKeys /\ MaxKeys \in Nat /\ editing \in [Editors -> EditShape] /\ hook \in [Hooks -> HookShape]
  BY FreeShape DEF KeysInv
<1>3. issued' \in 1 .. MaxKeys /\ issued <= issued'
  BY <1>1, <1>2
<1>4. skew \in Nat \ {0} /\ (IF unsigned THEN NoKey ELSE issued + 1) \in Nat
      /\ (IF unsigned THEN NoKey ELSE issued + 1) <= issued'
  BY <1>1, <1>2, FreeShape DEF NoKey
<1>5. row \in HookShape /\ row.key <= issued' /\ row.name = name
  BY <1>4, FreeShape DEF HookShape
<1> HIDE DEF row
<1>6. hook' = [hook EXCEPT ![s] = row] /\ \A x \in Hooks \ {s} : LiveHook(x) => hook[x].name # row.name
  BY <1>1 DEF CanInsert, Commits
<1>7. editing' \in [Editors -> EditShape] /\ \A b \in Editors : editing'[b] = [editing[b] EXCEPT !.overlapped = TRUE]
  <2>1. editing' = [b \in Editors |-> [editing[b] EXCEPT !.overlapped = TRUE]]
    BY <1>1 DEF Commits
  <2>2. \A b \in Editors : [editing[b] EXCEPT !.overlapped = TRUE] \in EditShape
    BY <1>2 DEF EditShape
  <2> QED BY <2>1, <2>2
<1>8. KeysInv'
  BY <1>3, <1>5, <1>6, <1>7, CommitInv
<1>9. \A x \in Hooks \ {s} : MovesOn(x)
  <2>1. \A x \in Hooks \ {s} : hook'[x] = hook[x]
    BY <1>2, <1>6
  <2> QED BY <2>1, RestMovesOn
<1>10. MovesOn(s)
  BY <1>1 DEF MovesOn
<1> QED BY <1>8, <1>9, <1>10

LEMMA DeleteKeys ==
  ASSUME KeysInv, NEW a \in Editors, NEW s \in Hooks, deleteWebhookSource(a, s)
  PROVE  KeysInv' /\ \A x \in Hooks : MovesOn(x)
<1> DEFINE row == [hook[s] EXCEPT !.state = "deleted"]
<1>1. LiveHook(s) /\ Commits(s, row) /\ issued' = issued
  BY DEF deleteWebhookSource
<1>2. issued \in 1 .. MaxKeys /\ MaxKeys \in Nat /\ editing \in [Editors -> EditShape] /\ hook \in [Hooks -> HookShape]
      /\ hook[s].key <= issued
  BY FreeShape DEF KeysInv
<1>3. row \in HookShape /\ row.key = hook[s].key /\ row.state = "deleted" /\ row.key \in Nat
  BY <1>2 DEF HookShape
<1> HIDE DEF row
<1>4. hook' = [hook EXCEPT ![s] = row]
  BY <1>1 DEF Commits
<1>5. editing' \in [Editors -> EditShape] /\ \A b \in Editors : editing'[b] = [editing[b] EXCEPT !.overlapped = TRUE]
  <2>1. editing' = [b \in Editors |-> [editing[b] EXCEPT !.overlapped = TRUE]]
    BY <1>1 DEF Commits
  <2>2. \A b \in Editors : [editing[b] EXCEPT !.overlapped = TRUE] \in EditShape
    BY <1>2 DEF EditShape
  <2> QED BY <2>1, <2>2
<1>6. issued' \in 1 .. MaxKeys /\ issued <= issued' /\ row.key <= issued'
  BY <1>1, <1>2, <1>3
<1>7. KeysInv'
  BY <1>3, <1>4, <1>5, <1>6, CommitInv
<1>8. \A x \in Hooks \ {s} : MovesOn(x)
  <2>1. \A x \in Hooks \ {s} : hook'[x] = hook[x]
    BY <1>2, <1>4
  <2> QED BY <2>1, RestMovesOn
<1>9. MovesOn(s)
  <2>1. hook'[s] = row /\ hook[s].state = "live"
    BY <1>1, <1>2, <1>4 DEF LiveHook
  <2> QED BY <1>2, <1>3, <2>1 DEF MovesOn
<1> QED BY <1>7, <1>8, <1>9

LEMMA ReadKeys ==
  ASSUME KeysInv, NEW a \in Editors, NEW s \in Hooks, NEW op \in {"update", "rotate"}, ReadHook(a, s, op)
  PROVE  KeysInv' /\ \A x \in Hooks : MovesOn(x)
<1> DEFINE e == [at |-> "read", op |-> op, id |-> s, read |-> hook[s], key |-> issued', overlapped |-> FALSE]
<1>1. /\ LiveHook(s) /\ hook' = hook /\ editing' = [editing EXCEPT ![a] = e]
      /\ op = "rotate" => issued < MaxKeys
      /\ issued' = IF op = "rotate" THEN issued + 1 ELSE issued
  BY DEF ReadHook
<1>2. issued \in 1 .. MaxKeys /\ MaxKeys \in Nat /\ editing \in [Editors -> EditShape] /\ hook \in [Hooks -> HookShape]
      /\ \A x \in Hooks : hook[x].key <= issued /\ hook[x].key \in Nat
  BY FreeShape DEF KeysInv, HookShape
<1>3. issued' \in 1 .. MaxKeys /\ issued <= issued' /\ issued' \in Nat
  BY <1>1, <1>2
<1>4. /\ e \in EditShape /\ e.at = "read" /\ e.op = op /\ e.id = s /\ e.read = hook[s] /\ e.key = issued'
      /\ ~e.overlapped
  BY <1>2, <1>3 DEF EditShape
<1> HIDE DEF e
<1>5. editing' \in [Editors -> EditShape] /\ editing'[a] = e /\ \A b \in Editors \ {a} : editing'[b] = editing[b]
  BY <1>1, <1>2, <1>4
<1>6. \A x \in Hooks : hook'[x].key <= issued'
  BY <1>1, <1>2, <1>3
<1>7. EditorInv(a)'
  BY <1>1, <1>4, <1>5, <1>6 DEF EditorInv, LiveHook
<1>8. ASSUME NEW b \in Editors \ {a} PROVE EditorInv(b)'
  <2>1. EditorInv(b) /\ editing[b].key \in Nat
    BY <1>2 DEF KeysInv, EditShape
  <2> QED BY <1>1, <1>2, <1>3, <1>5, <2>1 DEF EditorInv, LiveHook
<1>9. NamesUnique'
  BY <1>1 DEF KeysInv, NamesUnique, LiveHook
<1>10. \A x \in Hooks : MovesOn(x)
  BY <1>1, RestMovesOn
<1> QED BY <1>1, <1>2, <1>3, <1>5, <1>6, <1>7, <1>8, <1>9, <1>10 DEF KeysInv

(* The row that an editor writes.                                          *)
LEMMA WrittenRow ==
  ASSUME KeysInv, NEW a \in Editors, editing[a].at = "read", NEW row \in Edited(a)
  PROVE  /\ row \in HookShape /\ row.key <= issued /\ editing[a].id \in Hooks
         /\ ~editing[a].overlapped =>
              row.key >= hook[editing[a].id].key /\ hook[editing[a].id].state = "live"
<1> DEFINE e == editing[a]
<1>1. /\ e \in EditShape /\ e.id \in Hooks /\ e.read.key <= e.key /\ e.key <= issued /\ issued \in Nat
      /\ ~e.overlapped => e.read = hook[e.id] /\ LiveHook(e.id)
  BY DEF KeysInv, EditorInv
<1>2. e.read \in HookShape /\ e.key \in Nat /\ e.read.key \in Nat
  BY <1>1 DEF EditShape, HookShape
<1>3. row \in HookShape /\ row.key \in {e.read.key, e.key}
  <2>1. CASE e.op = "rotate"
    <3>1. row = [e.read EXCEPT !.key = e.key]
      BY <2>1 DEF Edited
    <3> QED BY <1>2, <3>1 DEF HookShape
  <2>2. CASE e.op # "rotate"
    <3>1. PICK n \in Names, w \in Skews, on \in BOOLEAN, m \in BOOLEAN : row = FilledIn(e.read, n, w, on, m)
      BY <2>2 DEF Edited
    <3>2. w \in Nat \ {0}
      BY FreeShape
    <3> QED BY <1>2, <3>1, <3>2 DEF HookShape, FilledIn
  <2> QED BY <2>1, <2>2
<1> HIDE DEF e
<1>4. row.key <= issued /\ row.key >= e.read.key
  BY <1>1, <1>2, <1>3
<1> QED BY <1>1, <1>3, <1>4 DEF LiveHook, e

LEMMA SaveKeys ==
  ASSUME KeysInv, NEW a \in Editors, SaveHook(a)
  PROVE  KeysInv' /\ \A x \in Hooks : MovesOn(x)
<1> DEFINE s == editing[a].id
<1>1. PICK row \in Edited(a) :
        /\ CanInsert(s, row) /\ hook' = [hook EXCEPT ![s] = row] /\ editing[a].at = "read" /\ issued' = issued
        /\ editing' = [b \in Editors |-> IF b = a THEN IdleEditor ELSE [editing[b] EXCEPT !.overlapped = TRUE]]
  BY DEF SaveHook
<1>2. /\ row \in HookShape /\ row.key <= issued /\ s \in Hooks
      /\ ~editing[a].overlapped => row.key >= hook[s].key /\ hook[s].state = "live"
  BY <1>1, WrittenRow
<1>3. issued \in 1 .. MaxKeys /\ issued \in Nat /\ editing \in [Editors -> EditShape] /\ hook \in [Hooks -> HookShape]
  BY FreeShape DEF KeysInv
<1>4. \A x \in Hooks \ {s} : LiveHook(x) => hook[x].name # row.name
  BY <1>1 DEF CanInsert
<1>5. /\ editing' \in [Editors -> EditShape] /\ editing'[a].at = "idle"
      /\ \A b \in Editors \ {a} : editing'[b] = [editing[b] EXCEPT !.overlapped = TRUE]
  <2>1. \A b \in Editors : [editing[b] EXCEPT !.overlapped = TRUE] \in EditShape
    BY <1>3 DEF EditShape
  <2> QED BY <1>1, <2>1, FreeShape
<1>6. KeysInv'
  <2>1. issued' \in 1 .. MaxKeys /\ issued <= issued' /\ row.key <= issued'
    BY <1>1, <1>2, <1>3
  <2> QED BY <1>1, <1>2, <1>4, <1>5, <2>1, CommitInv
<1>7. \A x \in Hooks \ {s} : MovesOn(x)
  <2>1. \A x \in Hooks \ {s} : hook'[x] = hook[x]
    BY <1>1, <1>3
  <2> QED BY <2>1, RestMovesOn
<1>8. MovesOn(s)
  <2>1. CASE editing[a].overlapped
    BY <1>1, <1>5, <2>1 DEF MovesOn
  <2>2. CASE ~editing[a].overlapped
    <3>1. hook'[s] = row
      BY <1>1, <1>2, <1>3
    <3> QED BY <1>2, <2>2, <3>1 DEF MovesOn
  <2> QED BY <2>1, <2>2
<1> QED BY <1>2, <1>6, <1>7, <1>8

LEMMA RefusedKeys ==
  ASSUME KeysInv, NEW a \in Editors, SaveRefused(a)
  PROVE  KeysInv' /\ \A x \in Hooks : MovesOn(x)
<1>1. editing' = [editing EXCEPT ![a] = IdleEditor] /\ hook' = hook /\ issued' = issued
  BY DEF SaveRefused
<1>2. /\ editing' \in [Editors -> EditShape] /\ editing'[a].at = "idle"
      /\ \A b \in Editors \ {a} : editing'[b] = editing[b]
  BY <1>1, FreeShape DEF KeysInv
<1>3. \A b \in Editors : EditorInv(b)'
  BY <1>1, <1>2 DEF KeysInv, EditorInv, LiveHook
<1>4. \A x \in Hooks : MovesOn(x)
  BY <1>1, RestMovesOn
<1> QED BY <1>1, <1>2, <1>3, <1>4 DEF KeysInv, NamesUnique, LiveHook

LEMMA KeysStep ==
  KeysInv /\ [Next]_pathVars => KeysInv' /\ \A s \in Hooks : MovesOn(s)
<1> SUFFICES ASSUME KeysInv, [Next]_pathVars PROVE KeysInv' /\ \A s \in Hooks : MovesOn(s)
  OBVIOUS
<1>1. CASE EditHook
  BY <1>1, CreateKeys, DeleteKeys, ReadKeys DEF EditHook
<1>2. CASE EndEdit
  BY <1>2, SaveKeys, RefusedKeys DEF EndEdit
<1>3. CASE UNCHANGED hookVars
  <2>1. hook' = hook /\ issued' = issued /\ editing' = editing
    BY <1>3 DEF hookVars
  <2>2. KeysInv'
    BY <2>1 DEF KeysInv, NamesUnique, LiveHook, EditorInv
  <2> QED BY <2>1, <2>2, RestMovesOn
<1>4. EditHook \/ EndEdit \/ UNCHANGED hookVars
  <2>1. ASSUME NEW k \in Arrivals, DeliveryStep(k) PROVE UNCHANGED hookVars
    BY <2>1 DEF DeliveryStep, Arrive, SetNX, StoreNonce, Verify, ingest
  <2>2. ASSUME NEW g \in Gateways, FindExpired(g) \/ DeleteExpired(g) \/ Crash(g) PROVE UNCHANGED hookVars
    BY <2>2 DEF FindExpired, DeleteExpired, Crash
  <2>3. Tick => UNCHANGED hookVars
    BY DEF Tick
  <2>4. CASE Intake
    BY <2>1, <2>2, <2>3, <2>4 DEF Intake
  <2>5. CASE Forms \/ Pages \/ UNCHANGED pathVars
    BY <2>5 DEF Forms, Pages, pathVars, intakeVars, hookVars
  <2> QED BY <2>4, <2>5 DEF Next
<1> QED BY <1>1, <1>2, <1>3, <1>4

(* For every set of sources and editors: an old key of a source is not     *)
(* taken again and a deleted source stays deleted, but by the Save of a    *)
(* handler that had read the row before another one committed.             *)
THEOREM KeysNeverGoBack == Spec => KeysMoveOn
<1>1. Spec => []KeysInv
  <2>1. Init => KeysInv
    BY KeysInit DEF Init
  <2> QED BY <2>1, KeysStep, PTL DEF Spec
<1>2. KeysInv /\ [Next]_pathVars => [\A s \in Hooks : MovesOn(s)]_intakeVars
  BY KeysStep
<1>3. Spec => [][\A s \in Hooks : MovesOn(s)]_intakeVars
  BY <1>1, <1>2, PTL DEF Spec
<1> QED BY <1>3 DEF KeysMoveOn, MovesOn

-----------------------------------------------------------------------------
(* Deliveries on their way through the signature filter. *)

Stages == {"out", "found", "expired", "fresh", "verified", "accepted", "rejected", "refused"}
RequestShape == [at : Stages, d : Deliveries \cup {NotSent.d}, on : Gateways \cup {NotSent.on},
                 row : HookShape, since : Nat, late : BOOLEAN]
TimeShape == [skew : Nat, late : BOOLEAN]

IntakeShape ==
  /\ now \in 0 .. MaxTime /\ signed \in [Deliveries -> [created : Nat, key : Nat]]
  /\ nonces = [g \in Gateways |-> nonces[g]] /\ \A g \in Gateways : \A n \in DOMAIN nonces[g] : nonces[g][n] \in Nat
  /\ sweep = [g \in Gateways |-> sweep[g]] /\ met = [g \in Gateways |-> met[g]]
  /\ request \in [Arrivals -> RequestShape]
  /\ processed \in [Gateways -> [Deliveries -> Seq(TimeShape)]]

(* The moment t is within skew of the creation of d.                       *)
Timely(t, d, skew) == t < signed[d].created + skew /\ signed[d].created <= t + skew

(* How far a request is tells what has been found out about it.            *)
RequestInv(k) ==
  /\ request[k].at \in {"found", "expired", "fresh", "verified"} =>
       request[k].d \in Deliveries /\ request[k].on \in Gateways
  /\ request[k].at \in {"expired", "fresh", "verified"} => request[k].since <= now
  /\ request[k].at = "expired" => request[k].d \in met[request[k].on]
  /\ request[k].at = "verified" =>
       /\ request[k].row.key = signed[request[k].d].key
       /\ request[k].late \/ Timely(request[k].since, request[k].d, request[k].row.skew)

(* What is about to be deleted is there, and has expired if nobody stored  *)
(* it anew.                                                                *)
SweepInv(g) ==
  \A n \in sweep[g] : n \in DOMAIN nonces[g] /\ (n[2] \notin met[g] => now >= nonces[g][n])

(* A nonce keeps others out up to the moment e, or e has passed.           *)
Kept(g, n, e) == (n \in DOMAIN nonces[g] /\ nonces[g][n] >= e) \/ now >= e
InFlight(k, g, d) == request[k].at \in {"fresh", "verified"} /\ request[k].on = g /\ request[k].d = d
Expiry(k) == request[k].since + 2 * request[k].row.skew

(* Of a delivery whose nonce nobody has met as it expired: a request that  *)
(* is on its way holds its nonce for as long as the delivery may be good,  *)
(* so does one that has been processed, and no two of them came in time.   *)
OnceInv(g, d) ==
  d \notin met[g] =>
    /\ \A k \in Arrivals : InFlight(k, g, d) => Kept(g, NonceOf(k), Expiry(k))
    /\ \A k, j \in Arrivals :
         InFlight(k, g, d) /\ InFlight(j, g, d) /\ k # j /\ request[k].row.key = request[j].row.key =>
           request[k].since >= Expiry(j) \/ request[j].since >= Expiry(k)
    /\ \A i \in DOMAIN processed[g][d] :
         processed[g][d][i].late \/ Kept(g, <<signed[d].key, d>>, signed[d].created + processed[g][d][i].skew)
    /\ \A i \in DOMAIN processed[g][d], k \in Arrivals :
         InFlight(k, g, d) /\ request[k].row.key = signed[d].key =>
           \/ processed[g][d][i].late \/ processed[g][d][i].skew # request[k].row.skew
           \/ ~Timely(request[k].since, d, request[k].row.skew)
    /\ \A i, j \in DOMAIN processed[g][d] : i # j =>
         processed[g][d][i].late \/ processed[g][d][j].late \/ processed[g][d][i].skew # processed[g][d][j].skew

ReplayInv ==
  /\ IntakeShape
  /\ \A k \in Arrivals : RequestInv(k)
  /\ \A g \in Gateways : SweepInv(g)
  /\ \A g \in Gateways, d \in Deliveries : OnceInv(g, d)

LEMMA ReplayInit == IntakeInit => ReplayInv
<1> SUFFICES ASSUME IntakeInit PROVE ReplayInv
  OBVIOUS
<1>1. /\ now = 0 /\ nonces = [g \in Gateways |-> <<>>] /\ sweep = [g \in Gateways |-> {}]
      /\ request = [k \in Arrivals |-> NotSent] /\ met = [g \in Gateways |-> {}]
      /\ processed = [g \in Gateways |-> [d \in Deliveries |-> <<>>]]
      /\ signed \in [Deliveries -> [created : 0 .. MaxTime, key : {1}]]
  BY DEF IntakeInit
<1>2. signed \in [Deliveries -> [created : Nat, key : Nat]]
  BY <1>1
<1>3. NotSent \in RequestShape /\ NotSent.at = "out"
  BY FreeShape DEF NotSent, RequestShape, Stages
<1>4. DOMAIN <<>> = {} /\ <<>> \in Seq(TimeShape)
  OBVIOUS
<1>5. IntakeShape
  BY <1>1, <1>2, <1>3, <1>4, FreeShape DEF IntakeShape
<1>6. \A k \in Arrivals : RequestInv(k) /\ \A g, d : ~InFlight(k, g, d)
  BY <1>1, <1>3 DEF RequestInv, InFlight
<1>7. \A g \in Gateways : SweepInv(g)
  BY <1>1 DEF SweepInv
<1>8. ASSUME NEW g \in Gateways, NEW d \in Deliveries PROVE OnceInv(g, d)
  <2>1. DOMAIN processed[g][d] = {}
    BY <1>1, <1>4
  <2> QED BY <1>6, <2>1 DEF OnceInv
<1> QED BY <1>5, <1>6, <1>7, <1>8 DEF ReplayInv

LEMMA RequestTypes ==
  ASSUME IntakeShape, NEW k \in Arrivals
  PROVE  /\ request[k].since \in Nat /\ request[k].row \in HookShape /\ request[k].late \in BOOLEAN
         /\ request[k].row.skew \in Nat /\ request[k].row.key \in Nat /\ Expiry(k) \in Nat
         /\ NonceOf(k) = <<request[k].row.key, request[k].d>> /\ NonceOf(k)[2] = request[k].d
<1>1. request[k] \in RequestShape
  BY DEF IntakeShape
<1>2. request[k].since \in Nat /\ request[k].row \in HookShape /\ request[k].late \in BOOLEAN
  BY <1>1 DEF RequestShape
<1>3. request[k].row.skew \in Nat /\ request[k].row.key \in Nat
  BY <1>2 DEF HookShape
<1> QED BY <1>2, <1>3 DEF Expiry, NonceOf

LEMMA TimeTypes ==
  ASSUME IntakeShape, NEW g \in Gateways, NEW d \in Deliveries
  PROVE  /\ signed[d].created \in Nat /\ signed[d].key \in Nat
         /\ processed[g][d] \in Seq(TimeShape)
         /\ \A i \in DOMAIN processed[g][d] :
              /\ processed[g][d][i].skew \in Nat /\ processed[g][d][i].late \in BOOLEAN
              /\ signed[d].created + processed[g][d][i].skew \in Nat
<1>1. signed[d] \in [created : Nat, key : Nat] /\ processed[g][d] \in Seq(TimeShape)
  BY DEF IntakeShape
<1>2. ASSUME NEW i \in DOMAIN processed[g][d]
      PROVE  processed[g][d][i].skew \in Nat /\ processed[g][d][i].late \in BOOLEAN
  <2>1. processed[g][d][i] \in TimeShape
    BY <1>1
  <2> QED BY <2>1 DEF TimeShape
<1> QED BY <1>1, <1>2

(* What is kept out for d stays out.                                       *)
KeptThen(g, n, e) == (n \in DOMAIN nonces'[g] /\ nonces'[g][n] >= e) \/ now' >= e
StillKept(g, d) == \A key, e \in Nat : Kept(g, <<key, d>>, e) => KeptThen(g, <<key, d>>, e)

LEMMA NoncesStay ==
  ASSUME IntakeShape, NEW g \in Gateways, NEW d \in Deliveries, now' \in Nat, now <= now',
         \A key \in Nat : <<key, d>> \in DOMAIN nonces[g] =>
           \/ <<key, d>> \in DOMAIN nonces'[g] /\ nonces'[g][<<key, d>>] = nonces[g][<<key, d>>]
           \/ now >= nonces[g][<<key, d>>]
  PROVE  StillKept(g, d)
<1> SUFFICES ASSUME NEW key \in Nat, NEW e \in Nat, Kept(g, <<key, d>>, e) PROVE KeptThen(g, <<key, d>>, e)
  BY DEF StillKept
<1>1. now \in Nat /\ (<<key, d>> \in DOMAIN nonces[g] => nonces[g][<<key, d>>] \in Nat)
  BY FreeShape DEF IntakeShape
<1>2. CASE now >= e
  BY <1>1, <1>2 DEF KeptThen
<1>3. CASE <<key, d>> \in DOMAIN nonces[g] /\ nonces[g][<<key, d>>] >= e
  <2>1. CASE now >= nonces[g][<<key, d>>]
    BY <1>1, <1>3, <2>1 DEF KeptThen
  <2>2. CASE <<key, d>> \in DOMAIN nonces'[g] /\ nonces'[g][<<key, d>>] = nonces[g][<<key, d>>]
    BY <1>3, <2>2 DEF KeptThen
  <2> QED BY <1>3, <2>1, <2>2
<1> QED BY <1>2, <1>3 DEF Kept

(* A step that lets no request of d in, and processes none.                *)
LEMMA OnceStays ==
  ASSUME IntakeShape, NEW g \in Gateways, NEW d \in Deliveries, OnceInv(g, d),
         signed' = signed, processed'[g][d] = processed[g][d],
         d \notin met'[g] => d \notin met[g] /\ StillKept(g, d),
         \A k \in Arrivals : InFlight(k, g, d)' => /\ InFlight(k, g, d)
                                                   /\ request'[k].since = request[k].since
                                                   /\ request'[k].row = request[k].row
  PROVE  OnceInv(g, d)'
<1> SUFFICES ASSUME d \notin met'[g]
             PROVE  /\ \A k \in Arrivals : InFlight(k, g, d)' => KeptThen(g, NonceOf(k)', Expiry(k)')
                    /\ \A k, j \in Arrivals :
                         InFlight(k, g, d)' /\ InFlight(j, g, d)' /\ k # j /\ request'[k].row.key = request'[j].row.key =>
                           request'[k].since >= Expiry(j)' \/ request'[j].since >= Expiry(k)'
                    /\ \A i \in DOMAIN processed[g][d] :
                         \/ processed[g][d][i].late
                         \/ KeptThen(g, <<signed[d].key, d>>, signed[d].created + processed[g][d][i].skew)
                    /\ \A i \in DOMAIN processed[g][d], k \in Arrivals :
                         InFlight(k, g, d)' /\ request'[k].row.key = signed[d].key =>
                           \/ processed[g][d][i].late \/ processed[g][d][i].skew # request'[k].row.skew
                           \/ ~Timely(request'[k].since, d, request'[k].row.skew)
                    /\ \A i, j \in DOMAIN processed[g][d] : i # j =>
                         \/ processed[g][d][i].late \/ processed[g][d][j].late
                         \/ processed[g][d][i].skew # processed[g][d][j].skew
  BY DEF OnceInv, Timely, Kept, KeptThen
<1>0. d \notin met[g] /\ StillKept(g, d)
  OBVIOUS
<1>1. ASSUME NEW k \in Arrivals, InFlight(k, g, d)' PROVE KeptThen(g, NonceOf(k)', Expiry(k)')
  <2>1. InFlight(k, g, d) /\ request'[k].since = request[k].since /\ request'[k].row = request[k].row
        /\ request[k].d = d /\ request'[k].d = d
    BY <1>1 DEF InFlight
  <2>2. NonceOf(k)' = <<request[k].row.key, d>> /\ NonceOf(k) = <<request[k].row.key, d>> /\ Expiry(k)' = Expiry(k)
    BY <2>1 DEF NonceOf, Expiry
  <2>3. Kept(g, <<request[k].row.key, d>>, Expiry(k)) /\ Expiry(k) \in Nat /\ request[k].row.key \in Nat
    BY <1>0, <2>1, <2>2, RequestTypes DEF OnceInv
  <2> QED BY <1>0, <2>2, <2>3 DEF StillKept
<1>2. ASSUME NEW k \in Arrivals, NEW j \in Arrivals, InFlight(k, g, d)', InFlight(j, g, d)', k # j,
             request'[k].row.key = request'[j].row.key
      PROVE  request'[k].since >= Expiry(j)' \/ request'[j].since >= Expiry(k)'
  BY <1>0, <1>2 DEF OnceInv, Expiry
<1>3. ASSUME NEW i \in DOMAIN processed[g][d], ~processed[g][d][i].late
      PROVE  KeptThen(g, <<signed[d].key, d>>, signed[d].created + processed[g][d][i].skew)
  <2>1. Kept(g, <<signed[d].key, d>>, signed[d].created + processed[g][d][i].skew)
    BY <1>0, <1>3 DEF OnceInv
  <2>2. signed[d].created + processed[g][d][i].skew \in Nat /\ signed[d].key \in Nat
    BY TimeTypes
  <2> QED BY <1>0, <2>1, <2>2 DEF StillKept
<1>4. ASSUME NEW i \in DOMAIN processed[g][d], NEW k \in Arrivals, InFlight(k, g, d)',
             request'[k].row.key = signed[d].key
      PROVE  \/ processed[g][d][i].late \/ processed[g][d][i].skew # request'[k].row.skew
             \/ ~Timely(request'[k].since, d, request'[k].row.skew)
  BY <1>0, <1>4 DEF OnceInv
<1>5. ASSUME NEW i \in DOMAIN processed[g][d], NEW j \in DOMAIN processed[g][d], i # j
      PROVE  \/ processed[g][d][i].late \/ processed[g][d][j].late
             \/ processed[g][d][i].skew # processed[g][d][j].skew
  BY <1>0, <1>5 DEF OnceInv
<1> QED BY <1>1, <1>2, <1>3, <1>4, <1>5

LEMMA RequestStays ==
  ASSUME IntakeShape, now' \in Nat, now <= now', signed' = signed, NEW j \in Arrivals, RequestInv(j),
         request'[j] = request[j],
         request[j].at = "expired" => met[request[j].on] \subseteq met'[request[j].on]
  PROVE  RequestInv(j)'
<1>1. request[j].since \in Nat /\ now \in Nat
  BY RequestTypes, FreeShape DEF IntakeShape
<1> QED BY <1>1 DEF RequestInv, Timely

(* A request goes on; nothing else changes but its own gateway's nonces.   *)
LEMMA Goes_on ==
  ASSUME IntakeShape, NEW k \in Arrivals, NEW q \in RequestShape, request' = [request EXCEPT ![k] = q]
  PROVE  /\ request' \in [Arrivals -> RequestShape] /\ request'[k] = q
         /\ \A j \in Arrivals \ {k} : request'[j] = request[j]
BY DEF IntakeShape

LEMMA NowIsNat == ASSUME IntakeShape PROVE now \in Nat
BY FreeShape DEF IntakeShape

(* Where the nonces, the sweeps and the clock rest, so do they who wait.   *)
LEMMA QuietStays ==
  ASSUME IntakeShape, UNCHANGED <<now, nonces>>
  PROVE  \A g \in Gateways, d \in Deliveries : StillKept(g, d)
BY DEF StillKept, Kept, KeptThen

LEMMA ArriveInv ==
  ASSUME KeysInv, ReplayInv, NEW k \in Arrivals, NEW d \in Deliveries, NEW g \in Gateways, Arrive(k, d, g)
  PROVE  ReplayInv'
<1>0. /\ IntakeShape /\ request[k].at = "out" /\ UNCHANGED <<now, signed, nonces, sweep, met, processed>>
  BY DEF ReplayInv, Arrive, Serving
<1>1. PICK q \in RequestShape : /\ request' = [request EXCEPT ![k] = q]
                                /\ q.at = "refused" \/ (q.at = "found" /\ q.d \in Deliveries /\ q.on \in Gateways)
  <2> DEFINE found == Lookup(FreeHook.name)
  <2>1. CASE \E s \in found : hook[s].key # NoKey
    <3>1. (CHOOSE s \in found : TRUE) \in Hooks
      BY <2>1 DEF Lookup
    <3>2. hook[CHOOSE s \in found : TRUE] \in HookShape
      BY <3>1 DEF KeysInv
    <3> DEFINE row == hook[CHOOSE s \in found : TRUE]
               q == [NotSent EXCEPT !.at = "found", !.d = d, !.on = g, !.row = row]
    <3>3. request' = [request EXCEPT ![k] = q]
      BY <2>1 DEF Arrive
    <3> HIDE DEF row, found
    <3>4. row \in HookShape
      BY <3>2 DEF row
    <3>5. q \in RequestShape /\ q.at = "found" /\ q.d \in Deliveries /\ q.on \in Gateways
      BY <3>4 DEF NotSent, RequestShape, Stages
    <3> QED BY <3>3, <3>5
  <2>2. CASE ~\E s \in found : hook[s].key # NoKey
    <3> DEFINE q == [request[k] EXCEPT !.at = "refused"]
    <3>1. request' = [request EXCEPT ![k] = q]
      BY <2>2 DEF Arrive, Goes
    <3>2. request[k] \in RequestShape
      BY <1>0 DEF IntakeShape
    <3>3. q \in RequestShape /\ q.at = "refused"
      BY <3>2 DEF RequestShape, Stages
    <3> QED BY <3>1, <3>3
  <2> QED BY <2>1, <2>2
<1>2. request' \in [Arrivals -> RequestShape] /\ request'[k] = q /\ \A j \in Arrivals \ {k} : request'[j] = request[j]
  BY <1>0, <1>1, Goes_on
<1>3. IntakeShape'
  BY <1>0, <1>2 DEF IntakeShape
<1>4. ASSUME NEW j \in Arrivals PROVE RequestInv(j)'
  <2>1. CASE j = k
    BY <1>1, <1>2, <2>1 DEF RequestInv
  <2>2. CASE j # k
    BY <1>0, <1>2, <2>2, RequestStays, NowIsNat DEF ReplayInv
  <2> QED BY <2>1, <2>2
<1>5. \A h \in Gateways : SweepInv(h)'
  BY <1>0 DEF ReplayInv, SweepInv
<1>6. ASSUME NEW h \in Gateways, NEW e \in Deliveries PROVE OnceInv(h, e)'
  <2>1. ASSUME NEW j \in Arrivals, InFlight(j, h, e)'
        PROVE  InFlight(j, h, e) /\ request'[j].since = request[j].since /\ request'[j].row = request[j].row
    BY <1>1, <1>2, <2>1 DEF InFlight
  <2> QED BY <1>0, <2>1, OnceStays, QuietStays DEF ReplayInv
<1> QED BY <1>3, <1>4, <1>5, <1>6 DEF ReplayInv

LEMMA VerifyInv ==
  ASSUME ReplayInv, NEW k \in Arrivals, Verify(k)
  PROVE  ReplayInv'
<1>0. /\ IntakeShape /\ request[k].at = "fresh" /\ UNCHANGED <<now, signed, nonces, sweep, met, processed>>
      /\ request[k] \in RequestShape /\ RequestInv(k)
  BY DEF ReplayInv, IntakeShape, Verify, Serving
<1>1. PICK q \in RequestShape :
        /\ request' = [request EXCEPT ![k] = q]
        /\ q.d = request[k].d /\ q.on = request[k].on /\ q.row = request[k].row /\ q.since = request[k].since
        /\ \/ q.at = "refused"
           \/ /\ q.at = "verified" /\ (~q.late => now <= q.since)
              /\ signed[q.d].key = q.row.key /\ InWindow(signed[q.d].created, q.row.skew)
  <2> DEFINE s == signed[request[k].d]
             good == s.key = request[k].row.key /\ InWindow(s.created, request[k].row.skew)
  <2>1. CASE good
    <3> DEFINE late == now > request[k].since
               q == [request[k] EXCEPT !.at = "verified", !.late = late]
    <3>1. request' = [request EXCEPT ![k] = q]
      BY <2>1 DEF Verify
    <3>2. late \in BOOLEAN /\ (~late => now <= request[k].since)
      BY <1>0, RequestTypes, NowIsNat
    <3> HIDE DEF late
    <3>3. /\ q \in RequestShape /\ q.at = "verified" /\ q.late = late
          /\ q.d = request[k].d /\ q.on = request[k].on /\ q.row = request[k].row /\ q.since = request[k].since
      BY <1>0, <3>2 DEF RequestShape, Stages
    <3> HIDE DEF q
    <3>4. ~q.late => now <= q.since
      BY <3>2, <3>3
    <3> QED BY <2>1, <3>1, <3>3, <3>4
  <2>2. CASE ~good
    <3> DEFINE q == [request[k] EXCEPT !.at = "refused"]
    <3>1. request' = [request EXCEPT ![k] = q]
      BY <2>2 DEF Verify, Goes
    <3>2. /\ q \in RequestShape /\ q.at = "refused"
          /\ q.d = request[k].d /\ q.on = request[k].on /\ q.row = request[k].row /\ q.since = request[k].since
      BY <1>0 DEF RequestShape, Stages
    <3> HIDE DEF q
    <3> QED BY <3>1, <3>2
  <2> QED BY <2>1, <2>2
<1>2. request' \in [Arrivals -> RequestShape] /\ request'[k] = q /\ \A j \in Arrivals \ {k} : request'[j] = request[j]
  BY <1>0, <1>1, Goes_on
<1>3. IntakeShape'
  BY <1>0, <1>2 DEF IntakeShape
<1>4. ASSUME NEW j \in Arrivals PROVE RequestInv(j)'
  <2>1. CASE j = k /\ q.at = "refused"
    BY <1>1, <1>2, <2>1 DEF RequestInv
  <2>2. CASE j = k /\ q.at = "verified"
    <3>1. q.since <= now /\ q.since \in Nat /\ now \in Nat /\ q.d \in Deliveries /\ q.on \in Gateways
      BY <1>0, <1>1, RequestTypes, NowIsNat DEF RequestInv
    <3>2. q.late \/ q.since = now
      BY <1>1, <2>2, <3>1
    <3>3. q.late \/ Timely(q.since, q.d, q.row.skew)
      BY <1>1, <2>2, <3>2 DEF Timely, InWindow
    <3>4. request'[k].at = "verified" /\ now' = now /\ signed' = signed
      BY <1>0, <1>2, <2>2
    <3> QED BY <1>1, <1>2, <2>2, <3>1, <3>3, <3>4 DEF RequestInv, Timely
  <2>3. CASE j # k
    BY <1>0, <1>2, <2>3, RequestStays, NowIsNat DEF ReplayInv
  <2> QED BY <1>1, <2>1, <2>2, <2>3
<1>5. \A h \in Gateways : SweepInv(h)'
  BY <1>0 DEF ReplayInv, SweepInv
<1>6. ASSUME NEW h \in Gateways, NEW e \in Deliveries PROVE OnceInv(h, e)'
  <2>1. ASSUME NEW j \in Arrivals, InFlight(j, h, e)'
        PROVE  InFlight(j, h, e) /\ request'[j].since = request[j].since /\ request'[j].row = request[j].row
    BY <1>0, <1>1, <1>2, <2>1 DEF InFlight
  <2> QED BY <1>0, <2>1, OnceStays, QuietStays DEF ReplayInv
<1> QED BY <1>3, <1>4, <1>5, <1>6 DEF ReplayInv

(* A request stores a nonce that is not there: d is let in.                *)
LEMMA FreshInv ==
  ASSUME ReplayInv, NEW k \in Arrivals, SetNX(k), NonceOf(k) \notin DOMAIN nonces[request[k].on]
  PROVE  ReplayInv'
<1>0. /\ IntakeShape /\ request[k].at = "found" /\ UNCHANGED <<now, signed, sweep, met, processed>>
      /\ request[k] \in RequestShape /\ RequestInv(k) /\ now \in Nat
  BY NowIsNat DEF ReplayInv, IntakeShape, SetNX, Serving
<1>g. PICK g \in Gateways, d \in Deliveries : g = request[k].on /\ d = request[k].d
  BY <1>0 DEF RequestInv
<1>n. PICK nonce, end : nonce = NonceOf(k) /\ end = now + 2 * request[k].row.skew
  OBVIOUS
<1> DEFINE q == [request[k] EXCEPT !.since = now, !.at = "fresh"]
<1>1. /\ request' = [request EXCEPT ![k] = q]
      /\ nonces' = [nonces EXCEPT ![g] = [n \in DOMAIN nonces[g] \cup {nonce} |->
                                            IF n = nonce THEN end ELSE nonces[g][n]]]
  BY <1>g, <1>n DEF SetNX, ttl
<1>2. /\ q \in RequestShape /\ q.at = "fresh" /\ q.since = now /\ q.row = request[k].row
      /\ q.d = d /\ q.on = g /\ q.late = request[k].late
  BY <1>0, <1>g DEF RequestShape, Stages
<1>3. /\ nonce = <<request[k].row.key, d>> /\ nonce \notin DOMAIN nonces[g]
      /\ end \in Nat /\ request[k].row.skew \in Nat /\ request[k].row.key \in Nat
  BY <1>0, <1>g, <1>n, RequestTypes
<1> HIDE DEF q
<1>4. request' \in [Arrivals -> RequestShape] /\ request'[k] = q /\ \A j \in Arrivals \ {k} : request'[j] = request[j]
  BY <1>0, <1>1, <1>2, Goes_on
<1>5. /\ nonces' = [h \in Gateways |-> nonces'[h]]
      /\ \A h \in Gateways \ {g} : nonces'[h] = nonces[h]
      /\ DOMAIN nonces'[g] = DOMAIN nonces[g] \cup {nonce} /\ nonces'[g][nonce] = end
      /\ \A n \in DOMAIN nonces[g] : nonces'[g][n] = nonces[g][n]
  <2>1. nonces = [h \in Gateways |-> nonces[h]]
    BY <1>0 DEF IntakeShape
  <2> QED BY <1>0, <1>1, <1>3, <2>1
<1>6. IntakeShape'
  <2>1. ASSUME NEW h \in Gateways, NEW n \in DOMAIN nonces'[h] PROVE nonces'[h][n] \in Nat
    BY <1>0, <1>3, <1>5, <2>1 DEF IntakeShape
  <2> QED BY <1>0, <1>4, <1>5, <2>1 DEF IntakeShape
<1>7. ASSUME NEW j \in Arrivals PROVE RequestInv(j)'
  <2>1. CASE j = k
    <3>1. request'[j] = q /\ now' = now /\ now <= now
      BY <1>0, <1>4, <2>1
    <3> QED BY <1>0, <1>2, <3>1 DEF RequestInv
  <2>2. CASE j # k
    BY <1>0, <1>4, <2>2, RequestStays DEF ReplayInv
  <2> QED BY <2>1, <2>2
<1>8. ASSUME NEW h \in Gateways PROVE SweepInv(h)'
  <2>1. SweepInv(h)
    BY DEF ReplayInv
  <2>2. \A n \in DOMAIN nonces[h] : n \in DOMAIN nonces'[h] /\ nonces'[h][n] = nonces[h][n]
    BY <1>5
  <2> QED BY <1>0, <2>1, <2>2 DEF SweepInv
<1>9. \A h \in Gateways, e \in Deliveries : StillKept(h, e)
  <2>1. \A h \in Gateways : \A n \in DOMAIN nonces[h] : n \in DOMAIN nonces'[h] /\ nonces'[h][n] = nonces[h][n]
    BY <1>5
  <2> QED BY <1>0, <2>1 DEF StillKept, Kept, KeptThen
<1>10. ASSUME NEW h \in Gateways, NEW e \in Deliveries, h # g \/ e # d PROVE OnceInv(h, e)'
  <2>1. ASSUME NEW j \in Arrivals, InFlight(j, h, e)'
        PROVE  InFlight(j, h, e) /\ request'[j].since = request[j].since /\ request'[j].row = request[j].row
    BY <1>2, <1>4, <1>10, <2>1 DEF InFlight
  <2> QED BY <1>0, <1>9, <2>1, OnceStays DEF ReplayInv
<1>11. OnceInv(g, d)'
  <2> SUFFICES ASSUME d \notin met[g]
               PROVE  /\ \A j \in Arrivals : InFlight(j, g, d)' => KeptThen(g, NonceOf(j)', Expiry(j)')
                      /\ \A i, j \in Arrivals :
                           InFlight(i, g, d)' /\ InFlight(j, g, d)' /\ i # j /\ request'[i].row.key = request'[j].row.key =>
                             request'[i].since >= Expiry(j)' \/ request'[j].since >= Expiry(i)'
                      /\ \A i \in DOMAIN processed[g][d] :
                           \/ processed[g][d][i].late
                           \/ KeptThen(g, <<signed[d].key, d>>, signed[d].created + processed[g][d][i].skew)
                      /\ \A i \in DOMAIN processed[g][d], j \in Arrivals :
                           InFlight(j, g, d)' /\ request'[j].row.key = signed[d].key =>
                             \/ processed[g][d][i].late \/ processed[g][d][i].skew # request'[j].row.skew
                             \/ ~Timely(request'[j].since, d, request'[j].row.skew)
    <3>1. OnceInv(g, d) /\ UNCHANGED <<now, signed, met, processed>>
      BY <1>0 DEF ReplayInv
    <3> QED BY <3>1 DEF OnceInv, Timely, Kept, KeptThen
  <2>0. OnceInv(g, d) /\ d \notin met[g] /\ IntakeShape /\ StillKept(g, d)
    BY <1>0, <1>9 DEF ReplayInv
  <2>1. /\ request'[k].since = now /\ request'[k].row = request[k].row /\ request'[k].d = d
        /\ Expiry(k)' = end /\ NonceOf(k)' = nonce
    BY <1>2, <1>3, <1>4, <1>n DEF Expiry, NonceOf
  <2>2. ASSUME NEW j \in Arrivals \ {k}, InFlight(j, g, d)'
        PROVE  /\ InFlight(j, g, d) /\ request'[j] = request[j] /\ Expiry(j)' = Expiry(j) /\ Expiry(j) \in Nat
               /\ NonceOf(j)' = NonceOf(j) /\ NonceOf(j) = <<request[j].row.key, d>> /\ request[j].row.key \in Nat
               /\ Kept(g, <<request[j].row.key, d>>, Expiry(j))
    <3>1. request'[j] = request[j] /\ InFlight(j, g, d) /\ request[j].d = d
      BY <1>4, <2>2 DEF InFlight
    <3>2. Kept(g, NonceOf(j), Expiry(j)) /\ NonceOf(j) = <<request[j].row.key, d>>
      BY <2>0, <3>1 DEF OnceInv, NonceOf
    <3> QED BY <2>0, <3>1, <3>2, RequestTypes DEF Expiry, NonceOf
  <2>3. ASSUME NEW j \in Arrivals, InFlight(j, g, d)' PROVE KeptThen(g, NonceOf(j)', Expiry(j)')
    <3>1. CASE j = k
      BY <1>3, <1>5, <2>1, <3>1 DEF KeptThen
    <3>2. CASE j # k
      BY <2>0, <2>2, <2>3, <3>2 DEF StillKept
    <3> QED BY <3>1, <3>2
  <2>4. ASSUME NEW j \in Arrivals \ {k}, InFlight(j, g, d)', request[j].row.key = request[k].row.key
        PROVE  now >= Expiry(j)'
    <3>1. Kept(g, nonce, Expiry(j)) /\ Expiry(j)' = Expiry(j)
      BY <1>3, <2>2, <2>4
    <3> QED BY <1>3, <3>1 DEF Kept
  <2>5. ASSUME NEW i \in Arrivals, NEW j \in Arrivals, InFlight(i, g, d)', InFlight(j, g, d)', i # j,
               request'[i].row.key = request'[j].row.key
        PROVE  request'[i].since >= Expiry(j)' \/ request'[j].since >= Expiry(i)'
    <3>1. CASE i = k
      BY <2>1, <2>2, <2>4, <2>5, <3>1
    <3>2. CASE j = k
      BY <2>1, <2>2, <2>4, <2>5, <3>2
    <3>3. CASE i # k /\ j # k
      <4>1. /\ InFlight(i, g, d) /\ request'[i] = request[i] /\ Expiry(i)' = Expiry(i)
            /\ InFlight(j, g, d) /\ request'[j] = request[j] /\ Expiry(j)' = Expiry(j)
        BY <2>2, <2>5, <3>3
      <4> QED BY <2>0, <2>5, <4>1 DEF OnceInv
    <3> QED BY <3>1, <3>2, <3>3
  <2>6. ASSUME NEW i \in DOMAIN processed[g][d], ~processed[g][d][i].late
        PROVE  /\ Kept(g, <<signed[d].key, d>>, signed[d].created + processed[g][d][i].skew)
               /\ KeptThen(g, <<signed[d].key, d>>, signed[d].created + processed[g][d][i].skew)
    <3>1. Kept(g, <<signed[d].key, d>>, signed[d].created + processed[g][d][i].skew)
      BY <2>0, <2>6 DEF OnceInv
    <3>2. signed[d].created + processed[g][d][i].skew \in Nat /\ signed[d].key \in Nat
      BY <1>0, TimeTypes
    <3> QED BY <2>0, <3>1, <3>2 DEF StillKept
  <2>7. ASSUME NEW i \in DOMAIN processed[g][d], NEW j \in Arrivals, InFlight(j, g, d)',
               request'[j].row.key = signed[d].key
        PROVE  \/ processed[g][d][i].late \/ processed[g][d][i].skew # request'[j].row.skew
               \/ ~Timely(request'[j].since, d, request'[j].row.skew)
    <3>1. CASE j = k /\ ~processed[g][d][i].late
      <4>1. nonce = <<signed[d].key, d>>
        BY <1>3, <2>1, <2>7, <3>1
      <4>2. now >= signed[d].created + processed[g][d][i].skew
        BY <1>3, <2>6, <3>1, <4>1 DEF Kept
      <4>3. now \in Nat /\ signed[d].created \in Nat /\ processed[g][d][i].skew \in Nat
        BY <1>0, TimeTypes
      <4> QED BY <2>1, <3>1, <4>2, <4>3 DEF Timely
    <3>2. CASE j # k
      BY <2>0, <2>2, <2>7, <3>2 DEF OnceInv
    <3> QED BY <3>1, <3>2
  <2> QED BY <2>3, <2>5, <2>6, <2>7
<1>12. \A h \in Gateways, e \in Deliveries : OnceInv(h, e)'
  BY <1>10, <1>11
<1> QED BY <1>6, <1>7, <1>8, <1>12 DEF ReplayInv

(* A request meets its nonce: it is refused, or the nonce has expired.     *)
LEMMA MetInv ==
  ASSUME ReplayInv, NEW k \in Arrivals, SetNX(k), NonceOf(k) \in DOMAIN nonces[request[k].on]
  PROVE  ReplayInv'
<1>0. /\ IntakeShape /\ request[k].at = "found" /\ UNCHANGED <<now, signed, nonces, sweep, processed>>
      /\ request[k] \in RequestShape /\ RequestInv(k) /\ now \in Nat
  BY NowIsNat DEF ReplayInv, IntakeShape, SetNX, Serving
<1>g. PICK g \in Gateways, d \in Deliveries : g = request[k].on /\ d = request[k].d
  BY <1>0 DEF RequestInv
<1>1. PICK q \in RequestShape :
        /\ request' = [request EXCEPT ![k] = q] /\ q.d = d /\ q.on = g
        /\ \/ q.at = "refused" /\ met' = met
           \/ q.at = "expired" /\ q.since = now /\ met' = [met EXCEPT ![g] = met[g] \cup {d}]
  <2>1. CASE now < nonces[g][NonceOf(k)]
    <3> DEFINE q == [request[k] EXCEPT !.at = "refused"]
    <3>1. request' = [request EXCEPT ![k] = q] /\ met' = met
      BY <1>g, <2>1 DEF SetNX, Goes
    <3>2. q \in RequestShape /\ q.at = "refused" /\ q.d = d /\ q.on = g
      BY <1>0, <1>g DEF RequestShape, Stages
    <3> QED BY <3>1, <3>2
  <2>2. CASE ~(now < nonces[g][NonceOf(k)])
    <3> DEFINE q == [request[k] EXCEPT !.since = now, !.at = "expired"]
    <3>0. [[request[k] EXCEPT !.since = now, !.at = "fresh"] EXCEPT !.at = "expired"] = q
      BY <1>0 DEF RequestShape
    <3>1. request' = [request EXCEPT ![k] = q] /\ met' = [met EXCEPT ![g] = met[g] \cup {d}]
      BY <1>g, <2>2, <3>0 DEF SetNX
    <3>2. q \in RequestShape /\ q.at = "expired" /\ q.d = d /\ q.on = g /\ q.since = now
      BY <1>0, <1>g DEF RequestShape, Stages
    <3> QED BY <3>1, <3>2
  <2> QED BY <2>1, <2>2
<1>2. request' \in [Arrivals -> RequestShape] /\ request'[k] = q /\ \A j \in Arrivals \ {k} : request'[j] = request[j]
  BY <1>0, <1>1, Goes_on
<1>3. /\ met' = [h \in Gateways |-> met'[h]] /\ \A h \in Gateways : met[h] \subseteq met'[h]
      /\ q.at = "expired" => d \in met'[g]
  <2>1. met = [h \in Gateways |-> met[h]]
    BY <1>0 DEF IntakeShape
  <2> QED BY <1>1, <2>1
<1>4. IntakeShape'
  BY <1>0, <1>2, <1>3 DEF IntakeShape
<1>5. ASSUME NEW j \in Arrivals PROVE RequestInv(j)'
  <2>1. CASE j = k
    <3>1. request'[j] = q /\ now' = now /\ now <= now
      BY <1>0, <1>2, <2>1
    <3> QED BY <1>1, <1>3, <3>1 DEF RequestInv
  <2>2. CASE j # k
    <3>1. request[j].at = "expired" => request[j].on \in Gateways
      BY DEF ReplayInv, RequestInv
    <3> QED BY <1>0, <1>2, <1>3, <2>2, <3>1, RequestStays DEF ReplayInv
  <2> QED BY <2>1, <2>2
<1>6. \A h \in Gateways : SweepInv(h)'
  BY <1>0, <1>3 DEF ReplayInv, SweepInv
<1>7. ASSUME NEW h \in Gateways, NEW e \in Deliveries PROVE OnceInv(h, e)'
  <2>1. ASSUME NEW j \in Arrivals, InFlight(j, h, e)'
        PROVE  InFlight(j, h, e) /\ request'[j].since = request[j].since /\ request'[j].row = request[j].row
    BY <1>1, <1>2, <2>1 DEF InFlight
  <2> QED BY <1>0, <1>3, <2>1, OnceStays, QuietStays DEF ReplayInv
<1> QED BY <1>4, <1>5, <1>6, <1>7 DEF ReplayInv

(* A nonce that a request has met as it expired is stored anew.            *)
LEMMA StoreInv ==
  ASSUME ReplayInv, NEW k \in Arrivals, StoreNonce(k)
  PROVE  ReplayInv'
<1>0. /\ IntakeShape /\ request[k].at = "expired" /\ UNCHANGED <<now, signed, sweep, met, processed>>
      /\ request[k] \in RequestShape /\ RequestInv(k) /\ now \in Nat
  BY NowIsNat DEF ReplayInv, IntakeShape, StoreNonce, Serving
<1>g. PICK g \in Gateways, d \in Deliveries : g = request[k].on /\ d = request[k].d /\ d \in met[g]
  BY <1>0 DEF RequestInv
<1>n. PICK nonce, end : nonce = NonceOf(k) /\ end = request[k].since + 2 * request[k].row.skew
  OBVIOUS
<1> DEFINE q == [request[k] EXCEPT !.at = "fresh"]
<1>1. /\ request' = [request EXCEPT ![k] = q]
      /\ nonces' = [nonces EXCEPT ![g] = [n \in DOMAIN nonces[g] \cup {nonce} |->
                                            IF n = nonce THEN end ELSE nonces[g][n]]]
  BY <1>g, <1>n DEF StoreNonce, Goes, ttl
<1>2. /\ q \in RequestShape /\ q.at = "fresh" /\ q.since = request[k].since /\ q.row = request[k].row
      /\ q.d = d /\ q.on = g
  BY <1>0, <1>g DEF RequestShape, Stages
<1>3. nonce = <<request[k].row.key, d>> /\ nonce[2] = d /\ end \in Nat /\ request[k].since <= now
  BY <1>0, <1>g, <1>n, RequestTypes DEF RequestInv
<1> HIDE DEF q
<1>4. request' \in [Arrivals -> RequestShape] /\ request'[k] = q /\ \A j \in Arrivals \ {k} : request'[j] = request[j]
  BY <1>0, <1>1, <1>2, Goes_on
<1>5. /\ nonces' = [h \in Gateways |-> nonces'[h]]
      /\ \A h \in Gateways \ {g} : nonces'[h] = nonces[h]
      /\ DOMAIN nonces'[g] = DOMAIN nonces[g] \cup {nonce} /\ nonces'[g][nonce] = end
      /\ \A n \in DOMAIN nonces[g] \ {nonce} : nonces'[g][n] = nonces[g][n]
  <2>1. nonces = [h \in Gateways |-> nonces[h]]
    BY <1>0 DEF IntakeShape
  <2> QED BY <1>0, <1>1, <2>1
<1>6. IntakeShape'
  <2>1. ASSUME NEW h \in Gateways, NEW n \in DOMAIN nonces'[h] PROVE nonces'[h][n] \in Nat
    BY <1>0, <1>3, <1>5, <2>1 DEF IntakeShape
  <2> QED BY <1>0, <1>4, <1>5, <2>1 DEF IntakeShape
<1>7. ASSUME NEW j \in Arrivals PROVE RequestInv(j)'
  <2>1. CASE j = k
    <3>1. request'[j] = q /\ now' = now
      BY <1>0, <1>4, <2>1
    <3> QED BY <1>2, <1>3, <3>1 DEF RequestInv
  <2>2. CASE j # k
    BY <1>0, <1>4, <2>2, RequestStays DEF ReplayInv
  <2> QED BY <2>1, <2>2
<1>8. ASSUME NEW h \in Gateways PROVE SweepInv(h)'
  <2>1. SweepInv(h)
    BY DEF ReplayInv
  <2>2. \A n \in DOMAIN nonces[h] : n \in DOMAIN nonces'[h] /\ (n[2] \notin met[h] => nonces'[h][n] = nonces[h][n])
    BY <1>g, <1>3, <1>5
  <2> QED BY <1>0, <2>1, <2>2 DEF SweepInv
<1>9. ASSUME NEW h \in Gateways, NEW e \in Deliveries PROVE OnceInv(h, e)'
  <2>1. CASE e \in met[h]
    BY <1>0, <2>1 DEF OnceInv
  <2>2. CASE e \notin met[h]
    <3>1. h # g \/ e # d
      BY <1>g, <2>2
    <3>2. ASSUME NEW j \in Arrivals, InFlight(j, h, e)'
          PROVE  InFlight(j, h, e) /\ request'[j].since = request[j].since /\ request'[j].row = request[j].row
      BY <1>2, <1>4, <3>1, <3>2 DEF InFlight
    <3>3. ASSUME NEW key \in Nat, <<key, e>> \in DOMAIN nonces[h]
          PROVE  <<key, e>> \in DOMAIN nonces'[h] /\ nonces'[h][<<key, e>>] = nonces[h][<<key, e>>]
      <4>1. h # g \/ <<key, e>> # nonce
        BY <1>3, <3>1
      <4> QED BY <1>5, <3>3, <4>1
    <3>4. StillKept(h, e)
      BY <1>0, <3>3 DEF StillKept, Kept, KeptThen
    <3> QED BY <1>0, <3>2, <3>4, OnceStays DEF ReplayInv
  <2> QED BY <2>1, <2>2
<1> QED BY <1>6, <1>7, <1>8, <1>9 DEF ReplayInv

(* gcLoop looks, gcLoop deletes, time passes: no request moves.            *)
LEMMA SweepingInv ==
  ASSUME ReplayInv, NEW g \in Gateways, FindExpired(g) \/ DeleteExpired(g) \/ Tick
  PROVE  ReplayInv'
<1>0. /\ IntakeShape /\ UNCHANGED <<signed, request, met, processed>> /\ now \in Nat
      /\ now' \in 0 .. MaxTime /\ now <= now' /\ now' \in Nat
  <2>1. IntakeShape /\ now \in 0 .. MaxTime /\ MaxTime \in Nat
    BY FreeShape DEF ReplayInv, IntakeShape
  <2> QED BY <2>1 DEF FindExpired, DeleteExpired, Tick
<1>1. /\ nonces' = [h \in Gateways |-> nonces'[h]] /\ sweep' = [h \in Gateways |-> sweep'[h]]
      /\ \A h \in Gateways : \A n \in DOMAIN nonces'[h] : n \in DOMAIN nonces[h] /\ nonces'[h][n] = nonces[h][n]
      /\ \A h \in Gateways : \A n \in DOMAIN nonces[h] \ DOMAIN nonces'[h] : n \in sweep[h]
      /\ \A h \in Gateways : \A n \in sweep'[h] :
           n \in DOMAIN nonces'[h] /\ (n \in sweep[h] \/ now >= nonces[h][n])
  <2>1. nonces = [h \in Gateways |-> nonces[h]] /\ sweep = [h \in Gateways |-> sweep[h]]
        /\ \A h \in Gateways : sweep[h] \subseteq DOMAIN nonces[h]
    BY <1>0 DEF IntakeShape, ReplayInv, SweepInv
  <2>2. CASE FindExpired(g)
    <3>1. /\ nonces' = nonces
          /\ sweep' = [sweep EXCEPT ![g] = {n \in DOMAIN nonces[g] : now >= nonces[g][n]}]
      BY <2>2 DEF FindExpired
    <3> QED BY <2>1, <3>1
  <2>3. CASE DeleteExpired(g)
    <3>1. /\ nonces' = [nonces EXCEPT ![g] = [n \in DOMAIN nonces[g] \ sweep[g] |-> nonces[g][n]]]
          /\ sweep' = [sweep EXCEPT ![g] = {}]
      BY <2>3 DEF DeleteExpired
    <3>2. /\ nonces'[g] = [n \in DOMAIN nonces[g] \ sweep[g] |-> nonces[g][n]] /\ sweep'[g] = {}
          /\ \A h \in Gateways \ {g} : nonces'[h] = nonces[h] /\ sweep'[h] = sweep[h]
      BY <2>1, <3>1
    <3>3. nonces' = [h \in Gateways |-> nonces'[h]] /\ sweep' = [h \in Gateways |-> sweep'[h]]
      BY <2>1, <3>1
    <3> QED BY <2>1, <3>2, <3>3
  <2>4. CASE Tick
    BY <2>1, <2>4 DEF Tick
  <2> QED BY <2>2, <2>3, <2>4
<1>2. IntakeShape'
  BY <1>0, <1>1 DEF IntakeShape
<1>3. \A j \in Arrivals : RequestInv(j)'
  BY <1>0, RequestStays DEF ReplayInv
<1>4. ASSUME NEW h \in Gateways PROVE SweepInv(h)'
  <2> SUFFICES ASSUME NEW n \in sweep'[h]
               PROVE  n \in DOMAIN nonces'[h] /\ (n[2] \notin met[h] => now' >= nonces'[h][n])
    BY <1>0 DEF SweepInv
  <2>1. n \in DOMAIN nonces'[h] /\ n \in DOMAIN nonces[h] /\ nonces'[h][n] = nonces[h][n] /\ nonces[h][n] \in Nat
    BY <1>0, <1>1 DEF IntakeShape
  <2>2. n[2] \notin met[h] => now >= nonces[h][n]
    BY <1>1 DEF ReplayInv, SweepInv
  <2> QED BY <1>0, <2>1, <2>2
<1>5. ASSUME NEW h \in Gateways, NEW d \in Deliveries PROVE OnceInv(h, d)'
  <2>1. ASSUME d \notin met[h] PROVE StillKept(h, d)
    <3> SUFFICES ASSUME NEW key \in Nat, <<key, d>> \in DOMAIN nonces[h]
                 PROVE  \/ <<key, d>> \in DOMAIN nonces'[h] /\ nonces'[h][<<key, d>>] = nonces[h][<<key, d>>]
                        \/ now >= nonces[h][<<key, d>>]
      BY <1>0, NoncesStay
    <3>1. CASE <<key, d>> \in DOMAIN nonces'[h]
      BY <1>1, <3>1
    <3>2. CASE <<key, d>> \notin DOMAIN nonces'[h]
      <4>1. <<key, d>> \in sweep[h] /\ <<key, d>>[2] = d
        BY <1>1, <3>2
      <4> QED BY <2>1, <4>1 DEF ReplayInv, SweepInv
    <3> QED BY <3>1, <3>2
  <2>2. \A j \in Arrivals : InFlight(j, h, d)' => InFlight(j, h, d)
    BY <1>0 DEF InFlight
  <2> QED BY <1>0, <2>1, <2>2, OnceStays DEF ReplayInv
<1> QED BY <1>2, <1>3, <1>4, <1>5 DEF ReplayInv

(* Two moments at which a delivery is good are less than two skews apart. *)
LEMMA TimelyTogether ==
  ASSUME NEW d, NEW s \in Nat, NEW t \in Nat, NEW skew \in Nat, signed[d].created \in Nat,
         Timely(s, d, skew), Timely(t, d, skew)
  PROVE  s < t + 2 * skew /\ t < s + 2 * skew
<1>1. PICK c \in Nat : c = signed[d].created
  OBVIOUS
<1>2. s < c + skew /\ c <= s + skew /\ t < c + skew /\ c <= t + skew
  BY <1>1 DEF Timely
<1> QED BY <1>2

(* A delivery is processed: what keeps the nonce keeps it for the row of   *)
(* the new entry too, and no other request of it came in time.             *)
LEMMA IngestInv ==
  ASSUME ReplayInv, NEW k \in Arrivals, ingest(k)
  PROVE  ReplayInv'
<1>0. /\ IntakeShape /\ request[k].at = "verified" /\ UNCHANGED <<now, signed, nonces, sweep, met>>
      /\ request[k] \in RequestShape /\ RequestInv(k) /\ now \in Nat
  BY NowIsNat DEF ReplayInv, IntakeShape, ingest, Serving
<1>g. PICK g \in Gateways, d \in Deliveries : g = request[k].on /\ d = request[k].d
  BY <1>0 DEF RequestInv
<1>t. PICK t, old : t = [skew |-> request[k].row.skew, late |-> request[k].late] /\ old = processed[g][d]
  OBVIOUS
<1>1. PICK q \in RequestShape :
        /\ request' = [request EXCEPT ![k] = q] /\ q.at \in {"accepted", "rejected"}
        /\ \/ processed' = processed
           \/ processed' = [processed EXCEPT ![g][d] = Append(old, t)]
  <2> DEFINE ok == \E s \in Lookup(FreeHook.name) : hook[s].mapped
             q == [request[k] EXCEPT !.at = IF ok THEN "accepted" ELSE "rejected"]
  <2>1. request' = [request EXCEPT ![k] = q]
        /\ (processed' = processed \/ processed' = [processed EXCEPT ![g][d] = Append(old, t)])
    BY <1>g, <1>t DEF ingest, Goes
  <2> HIDE DEF ok
  <2>2. q \in RequestShape /\ q.at \in {"accepted", "rejected"}
    BY <1>0 DEF RequestShape, Stages
  <2> QED BY <2>1, <2>2
<1>2. request' \in [Arrivals -> RequestShape] /\ request'[k] = q /\ \A j \in Arrivals \ {k} : request'[j] = request[j]
  BY <1>0, <1>1, Goes_on
<1>3. /\ t.skew = request[k].row.skew /\ t.late = request[k].late /\ t \in TimeShape
      /\ old \in Seq(TimeShape) /\ signed[d].created \in Nat /\ signed[d].key \in Nat
      /\ request[k].since \in Nat /\ request[k].row.skew \in Nat /\ t.late \in BOOLEAN
  <2>1. request[k].since \in Nat /\ request[k].row.skew \in Nat /\ request[k].late \in BOOLEAN
    BY <1>0, RequestTypes
  <2> QED BY <1>0, <1>g, <1>t, <2>1, TimeTypes DEF TimeShape
<1>4. /\ processed' \in [Gateways -> [Deliveries -> Seq(TimeShape)]]
      /\ \A h \in Gateways, e \in Deliveries : h # g \/ e # d => processed'[h][e] = processed[h][e]
      /\ processed'[g][d] = old \/ processed'[g][d] = Append(old, t)
  <2>1. processed \in [Gateways -> [Deliveries -> Seq(TimeShape)]] /\ Append(old, t) \in Seq(TimeShape)
    BY <1>0, <1>3 DEF IntakeShape
  <2>2. CASE processed' = processed
    BY <1>t, <2>1, <2>2
  <2>3. CASE processed' = [processed EXCEPT ![g][d] = Append(old, t)]
    <3>1. PICK more \in Seq(TimeShape) : more = Append(old, t) /\ processed' = [processed EXCEPT ![g][d] = more]
      BY <2>1, <2>3
    <3>2. processed' \in [Gateways -> [Deliveries -> Seq(TimeShape)]] /\ processed'[g][d] = more
      BY <2>1, <3>1
    <3>3. \A h \in Gateways, e \in Deliveries : h # g \/ e # d => processed'[h][e] = processed[h][e]
      BY <2>1, <3>1
    <3> QED BY <3>1, <3>2, <3>3
  <2> QED BY <1>1, <2>2, <2>3
<1>5. IntakeShape'
  BY <1>0, <1>2, <1>4 DEF IntakeShape
<1>6. ASSUME NEW j \in Arrivals PROVE RequestInv(j)'
  <2>1. CASE j = k
    BY <1>1, <1>2, <2>1 DEF RequestInv
  <2>2. CASE j # k
    BY <1>0, <1>2, <2>2, RequestStays DEF ReplayInv
  <2> QED BY <2>1, <2>2
<1>7. \A h \in Gateways : SweepInv(h)'
  BY <1>0 DEF ReplayInv, SweepInv
<1>8. ASSUME NEW h \in Gateways, NEW e \in Deliveries, NEW j \in Arrivals, InFlight(j, h, e)'
      PROVE  /\ j # k /\ InFlight(j, h, e) /\ request'[j] = request[j]
             /\ request'[j].since = request[j].since /\ request'[j].row = request[j].row
  BY <1>1, <1>2, <1>8 DEF InFlight
<1>9. ASSUME NEW h \in Gateways, NEW e \in Deliveries, processed'[h][e] = processed[h][e] PROVE OnceInv(h, e)'
  BY <1>0, <1>8, <1>9, OnceStays, QuietStays DEF ReplayInv
<1>10. ASSUME processed'[g][d] = Append(old, t) PROVE OnceInv(g, d)'
  <2> DEFINE P == processed'[g][d]
             New == Len(old) + 1
  <2>0. /\ OnceInv(g, d) /\ InFlight(k, g, d)
        /\ DOMAIN P = DOMAIN old \cup {New} /\ P[New] = t /\ \A i \in DOMAIN old : P[i] = old[i]
    BY <1>0, <1>3, <1>10, <1>g DEF ReplayInv, InFlight
  <2> SUFFICES ASSUME d \notin met[g]
               PROVE  /\ \A j \in Arrivals : InFlight(j, g, d)' => Kept(g, NonceOf(j)', Expiry(j)')
                      /\ \A i, j \in Arrivals :
                           InFlight(i, g, d)' /\ InFlight(j, g, d)' /\ i # j /\ request'[i].row.key = request'[j].row.key =>
                             request'[i].since >= Expiry(j)' \/ request'[j].since >= Expiry(i)'
                      /\ \A i \in DOMAIN P :
                           P[i].late \/ Kept(g, <<signed[d].key, d>>, signed[d].created + P[i].skew)
                      /\ \A i \in DOMAIN P, j \in Arrivals :
                           InFlight(j, g, d)' /\ request'[j].row.key = signed[d].key =>
                             \/ P[i].late \/ P[i].skew # request'[j].row.skew
                             \/ ~Timely(request'[j].since, d, request'[j].row.skew)
                      /\ \A i, j \in DOMAIN P : i # j => P[i].late \/ P[j].late \/ P[i].skew # P[j].skew
    BY <1>0 DEF OnceInv, Timely, Kept
  <2> HIDE DEF P
  <2>1. ASSUME NEW j \in Arrivals, InFlight(j, g, d)'
        PROVE  /\ Kept(g, NonceOf(j)', Expiry(j)') /\ InFlight(j, g, d) /\ j # k
               /\ Expiry(j)' = Expiry(j) /\ NonceOf(j)' = NonceOf(j) /\ request'[j] = request[j]
    BY <1>8, <2>0, <2>1 DEF OnceInv, Expiry, NonceOf
  <2>2. ASSUME NEW i \in Arrivals, NEW j \in Arrivals, InFlight(i, g, d)', InFlight(j, g, d)', i # j,
               request'[i].row.key = request'[j].row.key
        PROVE  request'[i].since >= Expiry(j)' \/ request'[j].since >= Expiry(i)'
    <3>1. /\ InFlight(i, g, d) /\ Expiry(i)' = Expiry(i) /\ request'[i] = request[i]
          /\ InFlight(j, g, d) /\ Expiry(j)' = Expiry(j) /\ request'[j] = request[j]
      BY <2>1, <2>2
    <3> QED BY <2>0, <2>2, <3>1 DEF OnceInv
  <2>3. t.late \/ Kept(g, <<signed[d].key, d>>, signed[d].created + t.skew)
    <3>1. Kept(g, NonceOf(k), Expiry(k)) /\ NonceOf(k) = <<signed[d].key, d>>
      BY <1>0, <1>g, <2>0 DEF OnceInv, RequestInv, NonceOf
    <3>2. t.late \/ signed[d].created + t.skew <= Expiry(k)
      BY <1>0, <1>3, <1>g DEF RequestInv, Timely, Expiry
    <3>3. Expiry(k) \in Nat /\ \A n \in DOMAIN nonces[g] : nonces[g][n] \in Nat
      BY <1>0, RequestTypes DEF IntakeShape
    <3> HIDE DEF Expiry
    <3> QED BY <1>0, <1>3, <3>1, <3>2, <3>3 DEF Kept
  <2>4. ASSUME NEW i \in DOMAIN P
        PROVE  P[i].late \/ Kept(g, <<signed[d].key, d>>, signed[d].created + P[i].skew)
    <3>1. CASE i = New
      BY <2>0, <2>3, <3>1
    <3>2. CASE i \in DOMAIN old
      BY <1>t, <2>0, <3>2 DEF OnceInv
    <3> QED BY <2>0, <3>1, <3>2
  <2>5. ASSUME NEW j \in Arrivals, InFlight(j, g, d)', request[j].row.key = signed[d].key,
               ~t.late, t.skew = request[j].row.skew
        PROVE  ~Timely(request[j].since, d, request[j].row.skew)
    <3>1. InFlight(j, g, d) /\ j # k
      BY <2>1, <2>5
    <3>2. Timely(request[k].since, d, t.skew) /\ request[k].row.key = signed[d].key
      BY <1>0, <1>3, <1>g, <2>5 DEF RequestInv
    <3>3. request[k].since >= Expiry(j) \/ request[j].since >= Expiry(k)
      BY <2>0, <2>5, <3>1, <3>2 DEF OnceInv
    <3>4. request[j].since \in Nat
      BY <1>0, RequestTypes
    <3>5. request[k].row.skew = t.skew /\ request[j].row.skew = t.skew /\ t.skew \in Nat
      BY <1>3, <2>5
    <3>6. request[k].since >= request[j].since + 2 * t.skew \/ request[j].since >= request[k].since + 2 * t.skew
      BY <3>3, <3>5 DEF Expiry
    <3>7. ~Timely(request[j].since, d, t.skew)
      <4> SUFFICES ASSUME Timely(request[j].since, d, t.skew) PROVE FALSE
        OBVIOUS
      <4>1. /\ request[k].since < request[j].since + 2 * t.skew
            /\ request[j].since < request[k].since + 2 * t.skew
        <5>1. request[k].since \in Nat /\ t.skew \in Nat /\ signed[d].created \in Nat
          BY <1>3, <3>5
        <5> QED BY <3>2, <3>4, <5>1, TimelyTogether
      <4>2. request[k].since \in Nat /\ t.skew \in Nat
        BY <1>3, <3>5
      <4> QED BY <3>4, <3>6, <4>1, <4>2
    <3> QED BY <3>5, <3>7
  <2>6. ASSUME NEW i \in DOMAIN P, NEW j \in Arrivals, InFlight(j, g, d)', request'[j].row.key = signed[d].key
        PROVE  \/ P[i].late \/ P[i].skew # request'[j].row.skew
               \/ ~Timely(request'[j].since, d, request'[j].row.skew)
    <3>0. request'[j] = request[j] /\ InFlight(j, g, d)
      BY <2>1, <2>6
    <3>1. CASE i = New
      BY <2>0, <2>5, <2>6, <3>0, <3>1
    <3>2. CASE i \in DOMAIN old
      BY <1>t, <2>0, <2>6, <3>0, <3>2 DEF OnceInv
    <3> QED BY <2>0, <3>1, <3>2
  <2>7. ASSUME NEW i \in DOMAIN old PROVE t.late \/ old[i].late \/ t.skew # old[i].skew
    <3>1. t.late \/ Timely(request[k].since, d, request[k].row.skew)
      BY <1>0, <1>3, <1>g DEF RequestInv
    <3>2. request[k].row.key = signed[d].key
      BY <1>0, <1>g DEF RequestInv
    <3>3. \/ old[i].late \/ old[i].skew # request[k].row.skew
          \/ ~Timely(request[k].since, d, request[k].row.skew)
      BY <1>t, <2>0, <3>2 DEF OnceInv
    <3> QED BY <1>3, <3>1, <3>3
  <2>8. ASSUME NEW i \in DOMAIN P, NEW j \in DOMAIN P, i # j
        PROVE  P[i].late \/ P[j].late \/ P[i].skew # P[j].skew
    <3>1. CASE i = New /\ j \in DOMAIN old
      BY <2>0, <2>7, <3>1
    <3>2. CASE j = New /\ i \in DOMAIN old
      BY <2>0, <2>7, <3>2
    <3>3. CASE i \in DOMAIN old /\ j \in DOMAIN old
      BY <1>t, <2>0, <2>8, <3>3 DEF OnceInv
    <3> QED BY <2>0, <2>8, <3>1, <3>2, <3>3
  <2> QED BY <2>1, <2>2, <2>4, <2>6, <2>8
<1>11. ASSUME NEW h \in Gateways, NEW e \in Deliveries PROVE OnceInv(h, e)'
  BY <1>4, <1>9, <1>10, <1>t
<1> QED BY <1>5, <1>6, <1>7, <1>11 DEF ReplayInv

(* A process ends: what it knew is gone, and so are its requests.          *)
LEMMA CrashInv ==
  ASSUME ReplayInv, NEW g \in Gateways, Crash(g)
  PROVE  ReplayInv'
<1> DEFINE cut == [NotSent EXCEPT !.at = "refused"]
<1>0. IntakeShape /\ UNCHANGED <<now, signed>> /\ now \in Nat
  BY NowIsNat DEF ReplayInv, Crash
<1>1. /\ nonces' = [nonces EXCEPT ![g] = <<>>] /\ sweep' = [sweep EXCEPT ![g] = {}] /\ met' = [met EXCEPT ![g] = {}]
      /\ processed' = [processed EXCEPT ![g] = [d \in Deliveries |-> <<>>]]
      /\ request' = [k \in Arrivals |-> IF request[k].on = g /\ request[k].at \in {"found", "expired", "fresh", "verified"}
                                        THEN cut ELSE request[k]]
  BY DEF Crash
<1>2. cut \in RequestShape /\ cut.at = "refused"
  BY FreeShape DEF NotSent, RequestShape, Stages
<1> HIDE DEF cut
<1>3. ASSUME NEW k \in Arrivals
      PROVE  \/ request'[k] = cut
             \/ request'[k] = request[k] /\ (request[k].at \in {"found", "expired", "fresh", "verified"} => request[k].on # g)
  BY <1>1
<1>4. /\ nonces' = [h \in Gateways |-> nonces'[h]] /\ sweep' = [h \in Gateways |-> sweep'[h]]
      /\ met' = [h \in Gateways |-> met'[h]]
      /\ DOMAIN nonces'[g] = {} /\ sweep'[g] = {} /\ met'[g] = {}
      /\ \A h \in Gateways \ {g} : nonces'[h] = nonces[h] /\ sweep'[h] = sweep[h] /\ met'[h] = met[h]
  <2>1. nonces = [h \in Gateways |-> nonces[h]] /\ sweep = [h \in Gateways |-> sweep[h]]
        /\ met = [h \in Gateways |-> met[h]] /\ DOMAIN <<>> = {}
    BY <1>0 DEF IntakeShape
  <2> QED BY <1>1, <2>1
<1>5. /\ processed' \in [Gateways -> [Deliveries -> Seq(TimeShape)]]
      /\ \A d \in Deliveries : DOMAIN processed'[g][d] = {}
      /\ \A h \in Gateways \ {g} : processed'[h] = processed[h]
  <2>1. /\ processed \in [Gateways -> [Deliveries -> Seq(TimeShape)]] /\ <<>> \in Seq(TimeShape) /\ DOMAIN <<>> = {}
    BY <1>0 DEF IntakeShape
  <2> QED BY <1>1, <2>1
<1>6. request' \in [Arrivals -> RequestShape]
  <2>1. \A k \in Arrivals : request[k] \in RequestShape
    BY <1>0 DEF IntakeShape
  <2> QED BY <1>1, <1>2, <2>1
<1>7. IntakeShape'
  <2>1. ASSUME NEW h \in Gateways, NEW n \in DOMAIN nonces'[h] PROVE nonces'[h][n] \in Nat
    BY <1>0, <1>4, <2>1 DEF IntakeShape
  <2> QED BY <1>0, <1>4, <1>5, <1>6, <2>1 DEF IntakeShape
<1>8. ASSUME NEW k \in Arrivals PROVE RequestInv(k)'
  <2>1. CASE request'[k] = cut
    BY <1>2, <2>1 DEF RequestInv
  <2>2. CASE request'[k] = request[k] /\ request[k].at = "expired"
    <3>1. request[k].on \in Gateways \ {g} \/ request'[k] = cut
      BY <1>3, <2>2 DEF ReplayInv, RequestInv
    <3>2. CASE request[k].on \in Gateways \ {g}
      BY <1>0, <1>4, <2>2, <3>2, RequestStays DEF ReplayInv
    <3> QED BY <2>1, <3>1, <3>2
  <2>3. CASE request'[k] = request[k] /\ request[k].at # "expired"
    BY <1>0, <2>3, RequestStays DEF ReplayInv
  <2> QED BY <1>3, <2>1, <2>2, <2>3
<1>9. ASSUME NEW h \in Gateways PROVE SweepInv(h)'
  <2>1. CASE h = g
    BY <1>4, <2>1 DEF SweepInv
  <2>2. CASE h # g
    BY <1>0, <1>4, <2>2 DEF ReplayInv, SweepInv
  <2> QED BY <2>1, <2>2
<1>10. ASSUME NEW h \in Gateways, NEW d \in Deliveries PROVE OnceInv(h, d)'
  <2>0. ASSUME NEW k \in Arrivals, InFlight(k, h, d)'
        PROVE  h # g /\ InFlight(k, h, d) /\ request'[k].since = request[k].since /\ request'[k].row = request[k].row
    BY <1>2, <1>3, <2>0 DEF InFlight
  <2>1. CASE h = g
    <3>1. \A k \in Arrivals : ~InFlight(k, h, d)'
      BY <2>0, <2>1
    <3> QED BY <1>5, <2>1, <3>1 DEF OnceInv
  <2>2. CASE h # g
    <3>1. StillKept(h, d) /\ met'[h] = met[h] /\ processed'[h][d] = processed[h][d]
      BY <1>0, <1>4, <1>5, <2>2 DEF StillKept, Kept, KeptThen
    <3> QED BY <1>0, <2>0, <3>1, OnceStays DEF ReplayInv
  <2> QED BY <2>1, <2>2
<1> QED BY <1>7, <1>8, <1>9, <1>10 DEF ReplayInv

(* Nothing of what the filter knows changes.                               *)
LEMMA RestInv ==
  ASSUME ReplayInv, UNCHANGED restOfIntake
  PROVE  ReplayInv'
<1>1. UNCHANGED <<now, signed, nonces, sweep, request, met, processed>>
  BY DEF restOfIntake
<1>2. IntakeShape'
  BY <1>1 DEF ReplayInv, IntakeShape
<1>3. \A k \in Arrivals : RequestInv(k)'
  BY <1>1 DEF ReplayInv, RequestInv, Timely
<1>4. \A g \in Gateways : SweepInv(g)'
  BY <1>1 DEF ReplayInv, SweepInv
<1>5. ASSUME NEW g \in Gateways, NEW d \in Deliveries PROVE OnceInv(g, d)'
  <2>1. IntakeShape /\ OnceInv(g, d)
    BY DEF ReplayInv
  <2>2. \A k \in Arrivals : InFlight(k, g, d)' => InFlight(k, g, d)
    BY <1>1 DEF InFlight
  <2> QED BY <1>1, <2>1, <2>2, OnceStays, QuietStays
<1> QED BY <1>2, <1>3, <1>4, <1>5 DEF ReplayInv

LEMMA ReplayStep ==
  KeysInv /\ ReplayInv /\ [Next]_pathVars => ReplayInv'
<1> SUFFICES ASSUME KeysInv, ReplayInv, [Next]_pathVars PROVE ReplayInv'
  OBVIOUS
<1>1. ASSUME NEW k \in Arrivals, DeliveryStep(k) PROVE ReplayInv'
  <2>1. CASE \E d \in Deliveries, g \in Gateways : Arrive(k, d, g)
    BY <2>1, ArriveInv
  <2>2. CASE SetNX(k)
    BY <2>2, FreshInv, MetInv
  <2>3. CASE StoreNonce(k)
    BY <2>3, StoreInv
  <2>4. CASE Verify(k)
    BY <2>4, VerifyInv
  <2>5. CASE ingest(k)
    BY <2>5, IngestInv
  <2> QED BY <1>1, <2>1, <2>2, <2>3, <2>4, <2>5 DEF DeliveryStep
<1>2. ASSUME NEW g \in Gateways, FindExpired(g) \/ DeleteExpired(g) \/ Crash(g) PROVE ReplayInv'
  BY <1>2, SweepingInv, CrashInv
<1>3. CASE Tick
  <2>1. CASE Gateways # {}
    BY <1>3, <2>1, SweepingInv
  <2>2. CASE Gateways = {}
    <3>1. \A k \in Arrivals : request[k].at \notin {"found", "expired", "fresh", "verified"}
      BY <2>2 DEF ReplayInv, RequestInv
    <3>2. IntakeShape' /\ UNCHANGED <<request>>
      BY <1>3, FreeShape DEF ReplayInv, IntakeShape, Tick
    <3>3. \A k \in Arrivals : RequestInv(k)'
      BY <3>1, <3>2 DEF RequestInv
    <3> QED BY <2>2, <3>2, <3>3 DEF ReplayInv
  <2> QED BY <2>1, <2>2
<1>4. CASE EditHook \/ EndEdit \/ UNCHANGED intakeVars
  <2>1. UNCHANGED restOfIntake
    BY <1>4 DEF EditHook, EndEdit, intakeVars, restOfIntake
  <2> QED BY <2>1, RestInv
<1>5. CASE Intake
  BY <1>1, <1>2, <1>3, <1>4, <1>5 DEF Intake
<1>6. CASE Forms \/ Pages \/ UNCHANGED pathVars
  BY <1>4, <1>6 DEF Forms, Pages, pathVars
<1> QED BY <1>5, <1>6 DEF Next

(* For every number of requests, gateways and ticks: a process takes a     *)
(* delivery once under one skew, but where its nonce was met as it expired *)
(* or a request stood still between its nonce and its signature.           *)
THEOREM TakenOnce == Spec => []ReplayExplained
<1>1. Init => KeysInv /\ ReplayInv
  BY KeysInit, ReplayInit DEF Init
<1>2. KeysInv /\ ReplayInv /\ [Next]_pathVars => (KeysInv /\ ReplayInv)'
  BY KeysStep, ReplayStep
<1>3. KeysInv /\ ReplayInv => ReplayExplained
  BY DEF ReplayInv, OnceInv, ReplayExplained
<1> QED BY <1>1, <1>2, <1>3, PTL DEF Spec

-----------------------------------------------------------------------------
(* Pages. *)

Cards == [there : BOOLEAN, room : Rooms \cup {NoRoom}, email : BOOLEAN, phone : BOOLEAN]
Reading == {"routed", "matched", "expanded", "loaded"}
Reasons == {"", "no_route", "no_policy", "policy_lookup_failed", "no_severity_match", "no_contacts"}
PageShape == [at : Reading \cup {"new", "sending", "done", "cut"}, policies : SUBSET Policies, ids : SUBSET Contacts,
              groups : SUBSET Groups, contacts : UNION {[S -> Cards] : S \in SUBSET Contacts}, todo : SUBSET Buckets,
              addressed : SUBSET (Contacts \X Buckets), reached : SUBSET (Contacts \X Buckets),
              unlogged : SUBSET (Contacts \X Buckets \X {"sent", "failed"}),
              log : SUBSET (Contacts \X Buckets \X {"sent", "failed"}), dropped : Reasons,
              meant : SUBSET SUBSET (Contacts \X Buckets), edits : Nat, faulty : BOOLEAN]

(* What the queries of a dispatch find, one after the other, in book b for *)
(* a page of severity s.                                                   *)
Covers(b, q, s) == b.policy[q].on /\ (b.policy[q].severities = {} \/ s \in b.policy[q].severities)
Matched(b, s) == {q \in b.route : Covers(b, q, s)}
Direct(b, s) == UNION {b.policy[q].contacts : q \in Matched(b, s)}
Grouped(b, s) == UNION {b.policy[q].groups : q \in Matched(b, s)}
Named(b, s) == Direct(b, s) \cup UNION {b.group[g] : g \in Grouped(b, s)}
Found(b, s) == {c \in Named(b, s) : b.contact[c].there}
Addressees(cs, s, providers) == UNION {{<<c, k>> : k \in BucketsOf(cs[c], s, providers)} : c \in DOMAIN cs}

(* What page p has read so far is what b says. *)
Reads(p, s, b) ==
  /\ b.routed
  /\ p.at = "routed" => b.route # {} /\ p.policies = b.route
  /\ p.at = "matched" => p.ids = Direct(b, s) /\ p.groups = Grouped(b, s)
  /\ p.at = "expanded" => p.ids = Named(b, s)
  /\ p.at = "loaded" => p.contacts = [c \in Found(b, s) |-> b.contact[c]]

(* The rows of each kind are read by one query.                            *)
Kinds == {"route", "policy", "group", "contact", "provider"}
AgreeOn(b, c, kind) ==
  /\ kind = "route" => b.route = c.route /\ b.routed = c.routed
  /\ kind = "policy" => b.policy = c.policy
  /\ kind = "group" => b.group = c.group
  /\ kind = "contact" => b.contact = c.contact
  /\ kind = "provider" => b.provider = c.provider
OneKind(b, c) == \E kind \in Kinds : \A other \in Kinds \ {kind} : AgreeOn(b, c, other)

(* While a page reads, and nobody has edited, what it has read is what the *)
(* book says; after one edit it is that, or what the book said before.     *)
ReadsOneBook(p, s, b) ==
  /\ Means(b, s) \in p.meant
  /\ p.edits = 0 => Reads(p, s, b)
  /\ p.edits = 1 => \E was \in Books : /\ Means(was, s) \in p.meant /\ OneKind(was, b)
                                       /\ Reads(p, s, was) \/ Reads(p, s, b)

PageInv(p, s, b) ==
  /\ p \in PageShape
  /\ p.at = "new" => p = Unsent
  /\ p.at \notin {"sending", "done", "cut"} => p.addressed = {}
  /\ p.at \notin {"sending", "cut"} => p.todo = {} /\ p.unlogged = {}
  /\ p.reached \subseteq p.addressed
  /\ \A e \in p.log \cup p.unlogged : e[3] = "sent" => <<e[1], e[2]>> \in p.reached
  /\ p.at \in {"loaded", "sending"} \/ (p.at = "done" /\ p.dropped = "") => DOMAIN p.contacts # {}
  /\ ~p.faulty /\ p.edits <= 1 =>
       /\ p.at \in Reading => ReadsOneBook(p, s, b)
       /\ p.at \in {"sending", "done"} => p.addressed \in p.meant

PagesInv ==
  /\ book \in Books /\ page \in [DOMAIN Messages -> PageShape]
  /\ \A m \in DOMAIN Messages : PageInv(page[m], Messages[m], book)

LEMMA BookTypes ==
  ASSUME NEW b \in Books
  PROVE  /\ b.route \in SUBSET Policies /\ b.routed \in BOOLEAN /\ b.provider \in SUBSET Providers
         /\ b.group \in [Groups -> SUBSET Contacts] /\ b.contact \in [Contacts -> Cards]
         /\ \A q \in Policies : /\ b.policy[q].groups \in SUBSET Groups /\ b.policy[q].contacts \in SUBSET Contacts
<1>1. b \in [route : SUBSET Policies, routed : BOOLEAN,
             policy : [Policies -> [on : BOOLEAN, severities : SUBSET Severities,
                                    groups : SUBSET Groups, contacts : SUBSET Contacts]],
             group : [Groups -> SUBSET Contacts], contact : [Contacts -> Cards], provider : SUBSET Providers]
  BY DeliveryAssumption DEF Cards
<1>2. ASSUME NEW q \in Policies
      PROVE  b.policy[q] \in [on : BOOLEAN, severities : SUBSET Severities,
                              groups : SUBSET Groups, contacts : SUBSET Contacts]
  BY <1>1
<1> QED BY <1>1, <1>2

(* The buckets of a contact, one kind after the other.                     *)
LEMMA BucketsAre ==
  ASSUME NEW c \in Cards, NEW s, NEW P \in SUBSET Providers
  PROVE  /\ BucketsOf(c, s, P) \subseteq Buckets
         /\ \A k \in Buckets :
              k \in BucketsOf(c, s, P) <=>
                \/ k = <<"room", c.room>>
                \/ k = <<"email", "system">> /\ c.email /\ "email" \in P
                \/ k[1] \in {"voice", "sms"} \cap P /\ c.phone /\ s = "P0"
<1>0. c.room \in Rooms \cup {NoRoom} /\ c.email \in BOOLEAN /\ c.phone \in BOOLEAN /\ NoRoom \notin Rooms
  BY DeliveryAssumption DEF Cards
<1>1. \A k : k \in BucketsOf(c, s, P) <=>
               \/ k = <<"room", c.room>> /\ c.room # NoRoom
               \/ k = <<"email", "system">> /\ c.email /\ "email" \in P
               \/ \E p \in {"voice", "sms"} \cap P : k = <<p, "system">> /\ c.phone /\ s = "P0"
  BY <1>0 DEF BucketsOf
<1>2. BucketsOf(c, s, P) \subseteq Buckets
  BY <1>0, <1>1 DEF Buckets, Providers
<1>3. ASSUME NEW k \in Buckets
      PROVE  k \in BucketsOf(c, s, P) <=>
                \/ k = <<"room", c.room>>
                \/ k = <<"email", "system">> /\ c.email /\ "email" \in P
                \/ k[1] \in {"voice", "sms"} \cap P /\ c.phone /\ s = "P0"
  <2>1. CASE \E r \in Rooms : k = <<"room", r>>
    <3>1. PICK r \in Rooms : k = <<"room", r>>
      BY <2>1
    <3>2. k[1] = "room" /\ (k = <<"room", c.room>> <=> r = c.room) /\ r # NoRoom
      BY <1>0, <3>1
    <3>3. \A p : k = <<p, "system">> => p = "room"
      BY <3>1
    <3> QED BY <1>1, <3>2, <3>3
  <2>2. CASE \E p \in Providers : k = <<p, "system">>
    <3>1. PICK p \in Providers : k = <<p, "system">>
      BY <2>2
    <3>2. k[1] = p /\ p # "room" /\ k # <<"room", c.room>> /\ (k = <<"email", "system">> <=> p = "email")
      BY <3>1 DEF Providers
    <3>3. \A o : k = <<o, "system">> <=> o = p
      BY <3>1
    <3> QED BY <1>1, <3>2, <3>3
  <2> QED BY <2>1, <2>2 DEF Buckets
<1> QED BY <1>2, <1>3

LEMMA NamedIs ==
  ASSUME NEW b \in Books, NEW s
  PROVE  /\ Matched(b, s) \subseteq Policies /\ Direct(b, s) \subseteq Contacts /\ Grouped(b, s) \subseteq Groups
         /\ Named(b, s) \subseteq Contacts /\ Found(b, s) \subseteq Contacts
         /\ \A c : c \in Named(b, s) <=>
              \E q \in b.route :
                /\ b.policy[q].on
                /\ b.policy[q].severities = {} \/ s \in b.policy[q].severities
                /\ c \in b.policy[q].contacts \cup UNION {b.group[g] : g \in b.policy[q].groups}
<1>1. Matched(b, s) \subseteq Policies
  BY BookTypes DEF Matched
<1>2. Direct(b, s) \subseteq Contacts /\ Grouped(b, s) \subseteq Groups
  BY <1>1, BookTypes DEF Direct, Grouped
<1>3. Named(b, s) \subseteq Contacts
  BY <1>2, BookTypes DEF Named
<1>4. ASSUME NEW c
      PROVE  c \in Named(b, s) <=>
               \E q \in Matched(b, s) : c \in b.policy[q].contacts \cup UNION {b.group[g] : g \in b.policy[q].groups}
  <2>1. c \in Direct(b, s) <=> \E q \in Matched(b, s) : c \in b.policy[q].contacts
    BY DEF Direct
  <2>2. \A g : g \in Grouped(b, s) <=> \E q \in Matched(b, s) : g \in b.policy[q].groups
    BY DEF Grouped
  <2>3. c \in Named(b, s) <=> c \in Direct(b, s) \/ \E g \in Grouped(b, s) : c \in b.group[g]
    BY DEF Named
  <2> QED BY <2>1, <2>2, <2>3
<1> QED BY <1>1, <1>2, <1>3, <1>4 DEF Matched, Covers, Found

(* The queries of a dispatch, taken together, find whom a book means.      *)
LEMMA MeansIs ==
  ASSUME NEW b \in Books, NEW s
  PROVE  Means(b, s) = IF b.routed THEN Addressees([c \in Found(b, s) |-> b.contact[c]], s, b.provider) ELSE {}
<1>1. CASE ~b.routed
  BY <1>1 DEF Means
<1>2. CASE b.routed
  <2> DEFINE cs == [c \in Found(b, s) |-> b.contact[c]]
             to == Addressees(cs, s, b.provider)
  <2>1. \A c, k : <<c, k>> \in to <=> c \in Found(b, s) /\ k \in BucketsOf(b.contact[c], s, b.provider)
    BY DEF Addressees
  <2>2. \A t \in to : \E c \in Found(b, s) : \E k \in BucketsOf(b.contact[c], s, b.provider) : t = <<c, k>>
    BY DEF Addressees
  <2>3. to \subseteq Contacts \X Buckets
    <3>1. ASSUME NEW c \in Found(b, s) PROVE BucketsOf(b.contact[c], s, b.provider) \subseteq Buckets /\ c \in Contacts
      BY NamedIs, BookTypes, BucketsAre
    <3> QED BY <2>2, <3>1
  <2> HIDE DEF to
  <2>4. ASSUME NEW c \in Contacts, NEW k \in Buckets
        PROVE  <<c, k>> \in to <=> <<c, k>> \in Means(b, s)
    <3>1. b.contact[c] \in Cards /\ b.provider \in SUBSET Providers
      BY BookTypes
    <3>2. c \in Found(b, s) <=> c \in Named(b, s) /\ b.contact[c].there
      BY DEF Found
    <3>3. <<c, k>> \in Means(b, s) <=>
            /\ c \in Named(b, s) /\ b.contact[c].there
            /\ \/ k = <<"room", b.contact[c].room>>
               \/ k = <<"email", "system">> /\ b.contact[c].email /\ "email" \in b.provider
               \/ k[1] \in {"voice", "sms"} \cap b.provider /\ b.contact[c].phone /\ s = "P0"
      BY <1>2, NamedIs DEF Means
    <3>4. k \in BucketsOf(b.contact[c], s, b.provider) <=>
            \/ k = <<"room", b.contact[c].room>>
            \/ k = <<"email", "system">> /\ b.contact[c].email /\ "email" \in b.provider
            \/ k[1] \in {"voice", "sms"} \cap b.provider /\ b.contact[c].phone /\ s = "P0"
      BY <3>1, BucketsAre
    <3> QED BY <2>1, <3>2, <3>3, <3>4
  <2>5. Means(b, s) \subseteq Contacts \X Buckets
    BY DEF Means
  <2>6. to = Means(b, s)
    BY <2>3, <2>4, <2>5
  <2> QED BY <1>2, <2>6 DEF to
<1> QED BY <1>1, <1>2

LEMMA NobodyMeant ==
  ASSUME NEW b \in Books, NEW s, ~b.routed \/ b.route = {} \/ Matched(b, s) = {} \/ Found(b, s) = {}
  PROVE  Means(b, s) = {}
<1>1. CASE ~b.routed
  BY <1>1 DEF Means
<1>2. CASE b.route = {} \/ Matched(b, s) = {} \/ Found(b, s) = {}
  <2>1. Found(b, s) = {}
    BY <1>2 DEF Found, Named, Direct, Grouped, Matched
  <2>2. Addressees([c \in Found(b, s) |-> b.contact[c]], s, b.provider) = {}
    BY <2>1 DEF Addressees
  <2> QED BY <2>2, MeansIs
<1> QED BY <1>1, <1>2

(* An edit of one row changes rows of one kind only.                       *)
LEMMA OneRowOneKind ==
  ASSUME NEW b \in Books, NEW c \in Books, OneRow(b, c)
  PROVE  OneKind(b, c)
<1> DEFINE D == {<<"route", "">>, <<"provider", "">>} \cup ({"policy"} \X Policies)
                  \cup ({"group"} \X Groups) \cup ({"contact"} \X Contacts)
<1>0. DOMAIN Rows(b) = D
  BY DEF Rows
<1>1. PICK r \in DOMAIN Rows(b) : \A x \in DOMAIN Rows(b) \ {r} : Rows(b)[x] = Rows(c)[x]
  BY DEF OneRow
<1>2. /\ <<"route", "">> \in D /\ <<"provider", "">> \in D
      /\ \A q \in Policies : <<"policy", q>> \in D
      /\ \A q \in Groups : <<"group", q>> \in D
      /\ \A q \in Contacts : <<"contact", q>> \in D
  OBVIOUS
<1>k. r[1] \in Kinds
  <2>1. r \in D
    BY <1>0, <1>1
  <2>2. CASE r = <<"route", "">>
    <3>1. r[1] = "route"
      BY <2>2
    <3> QED BY <3>1 DEF Kinds
  <2>7. CASE r = <<"provider", "">>
    <3>1. r[1] = "provider"
      BY <2>7
    <3> QED BY <3>1 DEF Kinds
  <2>3. CASE r \in {"policy"} \X Policies
    BY <2>3 DEF Kinds
  <2>4. CASE r \in {"group"} \X Groups
    BY <2>4 DEF Kinds
  <2>5. CASE r \in {"contact"} \X Contacts
    BY <2>5 DEF Kinds
  <2>6. \/ r = <<"route", "">> \/ r = <<"provider", "">>
        \/ r \in {"policy"} \X Policies \/ r \in {"group"} \X Groups \/ r \in {"contact"} \X Contacts
    BY <2>1, Zenon
  <2> QED BY <2>2, <2>3, <2>4, <2>5, <2>6, <2>7
<1> HIDE DEF D
<1>3. \A k, v : <<k, v>> \in D /\ r[1] # k => Rows(b)[<<k, v>>] = Rows(c)[<<k, v>>]
  <2> SUFFICES ASSUME NEW k, NEW v, <<k, v>> \in D, r[1] # k PROVE Rows(b)[<<k, v>>] = Rows(c)[<<k, v>>]
    OBVIOUS
  <2>1. <<k, v>> # r
    OBVIOUS
  <2> QED BY <1>0, <1>1, <2>1
<1>4. ASSUME NEW a
      PROVE  /\ Rows(a)[<<"route", "">>] = <<a.route, a.routed>> /\ Rows(a)[<<"provider", "">>] = a.provider
             /\ \A q \in Policies : Rows(a)[<<"policy", q>>] = a.policy[q]
             /\ \A q \in Groups : Rows(a)[<<"group", q>>] = a.group[q]
             /\ \A q \in Contacts : Rows(a)[<<"contact", q>>] = a.contact[q]
  BY DEF Rows
<1>5. \A a \in {b, c} : /\ a.policy = [q \in Policies |-> a.policy[q]]
                        /\ a.group = [q \in Groups |-> a.group[q]]
                        /\ a.contact = [q \in Contacts |-> a.contact[q]]
  BY DeliveryAssumption
<1>6. ASSUME r[1] # "route" PROVE b.route = c.route /\ b.routed = c.routed
  <2>1. Rows(b)[<<"route", "">>] = Rows(c)[<<"route", "">>]
    BY <1>2, <1>3, <1>6
  <2>2. <<b.route, b.routed>> = <<c.route, c.routed>>
    BY <1>4, <2>1
  <2> QED BY <2>2
<1>7. ASSUME r[1] # "provider" PROVE b.provider = c.provider
  <2>1. Rows(b)[<<"provider", "">>] = Rows(c)[<<"provider", "">>]
    BY <1>2, <1>3, <1>7
  <2> QED BY <1>4, <2>1
<1>8. ASSUME r[1] # "policy" PROVE b.policy = c.policy
  <2>1. ASSUME NEW q \in Policies PROVE b.policy[q] = c.policy[q]
    <3>1. Rows(b)[<<"policy", q>>] = Rows(c)[<<"policy", q>>]
      BY <1>2, <1>3, <1>8
    <3> QED BY <1>4, <3>1
  <2> QED BY <1>5, <2>1
<1>9. ASSUME r[1] # "group" PROVE b.group = c.group
  <2>1. ASSUME NEW q \in Groups PROVE b.group[q] = c.group[q]
    <3>1. Rows(b)[<<"group", q>>] = Rows(c)[<<"group", q>>]
      BY <1>2, <1>3, <1>9
    <3> QED BY <1>4, <3>1
  <2> QED BY <1>5, <2>1
<1>10. ASSUME r[1] # "contact" PROVE b.contact = c.contact
  <2>1. ASSUME NEW q \in Contacts PROVE b.contact[q] = c.contact[q]
    <3>1. Rows(b)[<<"contact", q>>] = Rows(c)[<<"contact", q>>]
      BY <1>2, <1>3, <1>10
    <3> QED BY <1>4, <3>1
  <2> QED BY <1>5, <2>1
<1> QED BY <1>k, <1>6, <1>7, <1>8, <1>9, <1>10 DEF OneKind, AgreeOn

LEMMA ContactsAre ==
  ASSUME NEW cs \in UNION {[S -> Cards] : S \in SUBSET Contacts}, NEW s, NEW P \in SUBSET Providers
  PROVE  /\ DOMAIN cs \subseteq Contacts /\ \A c \in DOMAIN cs : cs[c] \in Cards
         /\ Addressees(cs, s, P) \subseteq Contacts \X Buckets
<1>1. DOMAIN cs \subseteq Contacts /\ \A c \in DOMAIN cs : cs[c] \in Cards
  OBVIOUS
<1>2. ASSUME NEW c \in DOMAIN cs PROVE BucketsOf(cs[c], s, P) \subseteq Buckets
  BY <1>1, BucketsAre
<1> QED BY <1>1, <1>2 DEF Addressees

LEMMA UnsentShape == Unsent \in PageShape
<1>1. <<>> \in [{} -> Cards]
  OBVIOUS
<1>2. <<>> \in UNION {[S -> Cards] : S \in SUBSET Contacts}
  BY <1>1
<1> QED BY <1>2 DEF Unsent, PageShape, Reasons

(* Books that agree on what has been read so far are read alike.           *)
LEMMA ReadAlike ==
  ASSUME NEW p, NEW s, NEW was, NEW b, p.at \in Reading, Reads(p, s, was), AgreeOn(was, b, "route"),
         p.at \in {"matched", "expanded", "loaded"} => AgreeOn(was, b, "policy"),
         p.at \in {"expanded", "loaded"} => AgreeOn(was, b, "group"),
         p.at = "loaded" => AgreeOn(was, b, "contact")
  PROVE  Reads(p, s, b)
<1>1. was.route = b.route /\ was.routed = b.routed
  BY DEF AgreeOn
<1>2. CASE p.at = "routed"
  BY <1>1, <1>2 DEF Reads
<1>3. ASSUME was.policy = b.policy
      PROVE  Matched(was, s) = Matched(b, s) /\ Direct(was, s) = Direct(b, s) /\ Grouped(was, s) = Grouped(b, s)
  BY <1>1, <1>3 DEF Matched, Covers, Direct, Grouped
<1>4. ASSUME was.policy = b.policy, was.group = b.group PROVE Named(was, s) = Named(b, s)
  BY <1>3, <1>4 DEF Named
<1>5. CASE p.at = "matched"
  <2>1. was.policy = b.policy
    BY <1>5 DEF AgreeOn
  <2> QED BY <1>1, <1>3, <1>5, <2>1 DEF Reads
<1>6. CASE p.at = "expanded"
  <2>1. was.policy = b.policy /\ was.group = b.group
    BY <1>6 DEF AgreeOn
  <2> QED BY <1>1, <1>4, <1>6, <2>1 DEF Reads
<1>7. CASE p.at = "loaded"
  <2>1. was.policy = b.policy /\ was.group = b.group /\ was.contact = b.contact
    BY <1>7 DEF AgreeOn
  <2>2. Found(was, s) = Found(b, s)
    BY <1>4, <2>1 DEF Found
  <2> QED BY <1>1, <1>7, <2>1, <2>2 DEF Reads
<1> QED BY <1>2, <1>5, <1>6, <1>7 DEF Reading

NextKind(at) == CASE at = "routed" -> "policy" [] at = "matched" -> "group"
                  [] at = "expanded" -> "contact" [] OTHER -> "provider"

(* Whatever is read next, there is one book, of now or of before the edit, *)
(* that says all that has been read and what is going to be.               *)
LEMMA OneBookSays ==
  ASSUME NEW b \in Books, NEW s, NEW p, p.at \in Reading, p.edits \in 0 .. 1, ReadsOneBook(p, s, b)
  PROVE  \E w \in Books : /\ Means(w, s) \in p.meant /\ Reads(p, s, w) /\ AgreeOn(w, b, NextKind(p.at))
                          /\ w = b \/ (p.edits = 1 /\ OneKind(w, b))
<1>1. \A kind : AgreeOn(b, b, kind)
  BY DEF AgreeOn
<1>2. CASE Reads(p, s, b)
  BY <1>1, <1>2 DEF ReadsOneBook
<1>3. CASE ~Reads(p, s, b)
  <2>1. p.edits = 1
    BY <1>3 DEF ReadsOneBook
  <2>2. PICK was \in Books : Means(was, s) \in p.meant /\ OneKind(was, b) /\ Reads(p, s, was)
    BY <1>3, <2>1 DEF ReadsOneBook
  <2>3. PICK kind \in Kinds : \A other \in Kinds \ {kind} : AgreeOn(was, b, other)
    BY <2>2 DEF OneKind
  <2>4. NextKind(p.at) \in Kinds
    BY DEF NextKind, Kinds
  <2>5. kind # NextKind(p.at)
    <3> SUFFICES ASSUME kind = NextKind(p.at) PROVE FALSE
      OBVIOUS
    <3>1. /\ AgreeOn(was, b, "route")
          /\ p.at \in {"matched", "expanded", "loaded"} => AgreeOn(was, b, "policy")
          /\ p.at \in {"expanded", "loaded"} => AgreeOn(was, b, "group")
          /\ p.at = "loaded" => AgreeOn(was, b, "contact")
      BY <2>3 DEF Kinds, NextKind, Reading
    <3> QED BY <1>3, <2>2, <3>1, ReadAlike
  <2> QED BY <2>1, <2>2, <2>3, <2>4, <2>5
<1> QED BY <1>2, <1>3

(* A page that goes on reading from that book.                             *)
LEMMA GoesOnReading ==
  ASSUME NEW b \in Books, NEW s, NEW p, NEW q, ReadsOneBook(p, s, b), p.edits \in 0 .. 1,
         q.meant = p.meant, q.edits = p.edits,
         NEW w \in Books, Means(w, s) \in p.meant, w = b \/ (p.edits = 1 /\ OneKind(w, b)), Reads(q, s, w)
  PROVE  ReadsOneBook(q, s, b)
BY DEF ReadsOneBook

(* One page takes a step.                                                  *)
LEMMA OnePage ==
  ASSUME PagesInv, NEW m \in DOMAIN Messages, NEW q, page' = [page EXCEPT ![m] = q], book' = book,
         PageInv(q, Messages[m], book)
  PROVE  PagesInv'
<1>1. q \in PageShape
  BY DEF PageInv
<1>2. /\ page' \in [DOMAIN Messages -> PageShape] /\ page'[m] = q
      /\ \A n \in DOMAIN Messages \ {m} : page'[n] = page[n]
  BY <1>1 DEF PagesInv
<1>3. ASSUME NEW n \in DOMAIN Messages PROVE PageInv(page'[n], Messages[n], book)
  BY <1>2 DEF PagesInv
<1> QED BY <1>2, <1>3 DEF PagesInv

(* A fault ends the dispatch, and the page is not spoken of.               *)
LEMMA FaultInv ==
  ASSUME PagesInv, NEW m \in DOMAIN Messages, NEW reason \in Reasons \ {""}, page[m].at \notin {"sending", "cut"},
         Fault(m, reason), book' = book
  PROVE  PagesInv'
<1>1. PICK p : p = page[m]
  OBVIOUS
<1>2. p \in PageShape /\ PageInv(p, Messages[m], book)
  BY <1>1 DEF PagesInv
<1> DEFINE q == [p EXCEPT !.at = "done", !.dropped = reason, !.faulty = TRUE]
<1>3. page' = [page EXCEPT ![m] = q]
  BY <1>1 DEF Fault, Set
<1>4. /\ q \in PageShape /\ q.at = "done" /\ q.dropped = reason /\ q.faulty
      /\ q.todo = p.todo /\ q.unlogged = p.unlogged /\ q.addressed = p.addressed /\ q.reached = p.reached
      /\ q.log = p.log
  BY <1>2 DEF PageShape
<1> HIDE DEF q
<1>5. PageInv(q, Messages[m], book)
  BY <1>1, <1>2, <1>4 DEF PageInv
<1> QED BY <1>3, <1>5, OnePage

LEMMA RouteInv ==
  ASSUME PagesInv, NEW m \in DOMAIN Messages, LoadRoute(m)
  PROVE  PagesInv'
<1>0. PICK p, s, b, means : p = page[m] /\ s = Messages[m] /\ b = book /\ means = Means(b, s)
  OBVIOUS
<1>1. p = Unsent /\ p \in PageShape /\ b \in Books /\ b.routed \in BOOLEAN /\ b.route \in SUBSET Policies
  BY <1>0, BookTypes DEF PagesInv, PageInv, LoadRoute, At
<1>2. means \in SUBSET (Contacts \X Buckets)
  BY <1>0 DEF Means
<1>3. PICK q : /\ page' = [page EXCEPT ![m] = q] /\ book' = book /\ q \in PageShape
               /\ q.meant = {means} /\ q.edits = 0 /\ q.addressed = {} /\ q.todo = {} /\ q.unlogged = {}
               /\ q.log = {} /\ q.reached = {}
               /\ \/ q.at = "routed" /\ q.policies = b.route /\ b.route # {} /\ b.routed
                  \/ q.at = "done" /\ q.dropped # "" /\ (b.route = {} \/ ~b.routed)
  <2> DEFINE r == [p EXCEPT !.at = "routed", !.meant = {means}, !.policies = b.route]
             noRoute == [r EXCEPT !.at = "done", !.dropped = "no_route"]
             noPolicy == [r EXCEPT !.at = "done", !.dropped = "no_policy"]
  <2>0. r = [p EXCEPT !.at = "routed", !.meant = {Means(book, Messages[m])}, !.policies = book.route]
    BY <1>0
  <2>1. /\ r \in PageShape /\ r.at = "routed" /\ r.policies = b.route
        /\ r.meant = {means} /\ r.edits = 0 /\ r.addressed = {} /\ r.todo = {} /\ r.unlogged = {}
        /\ r.log = {} /\ r.reached = {}
    <3>1. r \in PageShape
      <4>1. PICK x \in SUBSET Policies, v \in SUBSET SUBSET (Contacts \X Buckets) : x = b.route /\ v = {means}
        BY <1>1, <1>2
      <4>2. "routed" \in Reading \cup {"new", "sending", "done", "cut"}
        BY DEF Reading
      <4>3. p \in PageShape
        BY <1>1
      <4>4. [p EXCEPT !.at = "routed", !.meant = v, !.policies = x] \in PageShape
        BY <4>2, <4>3 DEF PageShape
      <4> QED BY <4>1, <4>4
    <3>2. r = [Unsent EXCEPT !.at = "routed", !.meant = {means}, !.policies = b.route]
      BY <1>1
    <3> QED BY <3>1, <3>2 DEF Unsent
  <2>2. /\ book' = book
        /\ IF ~b.routed THEN page' = [page EXCEPT ![m] = noRoute]
           ELSE IF b.route = {} THEN page' = [page EXCEPT ![m] = noPolicy]
           ELSE page' = [page EXCEPT ![m] = r]
    BY <1>0, <2>0 DEF LoadRoute, Set
  <2> HIDE DEF r
  <2>3. /\ noRoute \in PageShape /\ noRoute.at = "done" /\ noRoute.dropped = "no_route"
        /\ noRoute.meant = {means} /\ noRoute.edits = 0 /\ noRoute.addressed = {} /\ noRoute.todo = {}
        /\ noRoute.unlogged = {} /\ noRoute.log = {} /\ noRoute.reached = {}
    BY <2>1 DEF PageShape, Reasons
  <2>4. /\ noPolicy \in PageShape /\ noPolicy.at = "done" /\ noPolicy.dropped = "no_policy"
        /\ noPolicy.meant = {means} /\ noPolicy.edits = 0 /\ noPolicy.addressed = {} /\ noPolicy.todo = {}
        /\ noPolicy.unlogged = {} /\ noPolicy.log = {} /\ noPolicy.reached = {}
    BY <2>1 DEF PageShape, Reasons
  <2> HIDE DEF noRoute, noPolicy
  <2>5. CASE ~b.routed
    BY <2>2, <2>3, <2>5
  <2>6. CASE b.routed /\ b.route = {}
    BY <2>2, <2>4, <2>6
  <2>7. CASE b.routed /\ b.route # {}
    BY <2>1, <2>2, <2>7
  <2> QED BY <1>1, <2>5, <2>6, <2>7
<1>4. CASE q.at = "routed"
  <2>1. ReadsOneBook(q, s, b)
    BY <1>0, <1>3, <1>4 DEF ReadsOneBook, Reads
  <2>2. PageInv(q, s, b)
    BY <1>3, <1>4, <2>1 DEF PageInv
  <2> QED BY <1>0, <1>3, <2>2, OnePage
<1>5. CASE q.at = "done"
  <2>1. means = {}
    BY <1>0, <1>1, <1>3, <1>5, NobodyMeant
  <2>2. PageInv(q, s, b)
    BY <1>3, <1>5, <2>1 DEF PageInv, Reading
  <2> QED BY <1>0, <1>3, <2>2, OnePage
<1> QED BY <1>3, <1>4, <1>5

LEMMA PoliciesInv ==
  ASSUME PagesInv, NEW m \in DOMAIN Messages, LoadPolicies(m)
  PROVE  PagesInv'
<1>0. PICK p, s, b, M : /\ p = page[m] /\ s = Messages[m] /\ b = book
                        /\ M = {q \in p.policies : Covers(b, q, s)}
  OBVIOUS
<1>1. /\ p \in PageShape /\ b \in Books /\ p.at = "routed" /\ PageInv(p, s, b) /\ p.policies \subseteq Policies
      /\ p.edits \in Nat /\ p.faulty \in BOOLEAN
  BY <1>0 DEF PagesInv, LoadPolicies, At, PageShape
<1>2. /\ book' = book
      /\ M = {} => page' = [page EXCEPT ![m] = [p EXCEPT !.at = "done", !.dropped = "no_severity_match"]]
      /\ M # {} => page' = [page EXCEPT ![m] = [p EXCEPT !.at = "matched", !.policies = M,
                                                         !.ids = UNION {b.policy[q].contacts : q \in M},
                                                         !.groups = UNION {b.policy[q].groups : q \in M}]]
  <2> DEFINE matched == {q \in page[m].policies : book.policy[q].on /\ severityMatches(q, m)}
  <2>1. matched = M
    BY <1>0 DEF severityMatches, Covers
  <2>2. /\ book' = book
        /\ matched = {} => page' = [page EXCEPT ![m] = [page[m] EXCEPT !.at = "done", !.dropped = "no_severity_match"]]
        /\ matched # {} => page' = [page EXCEPT ![m] = [page[m] EXCEPT !.at = "matched", !.policies = matched,
                                      !.ids = UNION {book.policy[q].contacts : q \in matched},
                                      !.groups = UNION {book.policy[q].groups : q \in matched}]]
    BY DEF LoadPolicies, Drops, Set
  <2> HIDE DEF matched
  <2>3. /\ UNION {book.policy[q].contacts : q \in matched} = UNION {b.policy[q].contacts : q \in M}
        /\ UNION {book.policy[q].groups : q \in matched} = UNION {b.policy[q].groups : q \in M}
    BY <1>0, <2>1
  <2> QED BY <1>0, <2>1, <2>2, <2>3
<1>3. UNION {b.policy[q].contacts : q \in M} \in SUBSET Contacts /\ UNION {b.policy[q].groups : q \in M} \in SUBSET Groups
      /\ M \in SUBSET Policies
  <2>1. M \subseteq Policies
    BY <1>0, <1>1
  <2> QED BY <1>1, <2>1, BookTypes
<1>4. ASSUME ~p.faulty, p.edits <= 1
      PROVE  /\ ReadsOneBook(p, s, b) /\ p.edits \in 0 .. 1
             /\ \E w \in Books : /\ Means(w, s) \in p.meant /\ w.routed /\ M = Matched(w, s) /\ w.policy = b.policy
                                 /\ w = b \/ (p.edits = 1 /\ OneKind(w, b))
  <2>1. ReadsOneBook(p, s, b) /\ p.edits \in 0 .. 1
    BY <1>1, <1>4 DEF PageInv, Reading
  <2>2. PICK w \in Books : /\ Means(w, s) \in p.meant /\ Reads(p, s, w) /\ AgreeOn(w, b, NextKind(p.at))
                           /\ w = b \/ (p.edits = 1 /\ OneKind(w, b))
    BY <1>1, <2>1, OneBookSays DEF Reading
  <2>3. w.routed /\ p.policies = w.route /\ w.policy = b.policy
    BY <1>1, <2>2 DEF Reads, AgreeOn, NextKind
  <2>4. M = Matched(w, s)
    BY <1>0, <2>3 DEF Matched, Covers
  <2> QED BY <2>1, <2>2, <2>3, <2>4
<1>5. CASE M = {}
  <2> DEFINE q == [p EXCEPT !.at = "done", !.dropped = "no_severity_match"]
  <2>1. page' = [page EXCEPT ![m] = q]
    BY <1>2, <1>5
  <2>2. /\ q \in PageShape /\ q.at = "done" /\ q.dropped = "no_severity_match" /\ q.todo = p.todo
        /\ q.unlogged = p.unlogged /\ q.addressed = p.addressed /\ q.reached = p.reached /\ q.log = p.log
        /\ q.meant = p.meant /\ q.edits = p.edits /\ q.faulty = p.faulty
    BY <1>1 DEF PageShape, Reasons
  <2> HIDE DEF q
  <2>3. ASSUME ~q.faulty, q.edits <= 1 PROVE q.addressed \in q.meant
    <3>1. PICK w \in Books : Means(w, s) \in p.meant /\ Matched(w, s) = {}
      BY <1>4, <1>5, <2>2, <2>3
    <3>2. Means(w, s) = {}
      BY <3>1, NobodyMeant
    <3> QED BY <1>1, <2>2, <3>1, <3>2 DEF PageInv
  <2>4. PageInv(q, s, b)
    BY <1>1, <2>2, <2>3 DEF PageInv, Reading
  <2> QED BY <1>0, <1>2, <2>1, <2>4, OnePage
<1>6. CASE M # {}
  <2> DEFINE ids == UNION {b.policy[q].contacts : q \in M}
             groups == UNION {b.policy[q].groups : q \in M}
             q == [p EXCEPT !.at = "matched", !.policies = M, !.ids = ids, !.groups = groups]
  <2>1. page' = [page EXCEPT ![m] = q]
    BY <1>2, <1>6
  <2>2. ids \in SUBSET Contacts /\ groups \in SUBSET Groups
    BY <1>3
  <2>3. ASSUME NEW w, M = Matched(w, s), w.policy = b.policy PROVE ids = Direct(w, s) /\ groups = Grouped(w, s)
    BY <2>3 DEF Direct, Grouped
  <2> HIDE DEF ids, groups
  <2>4. /\ q \in PageShape /\ q.at = "matched" /\ q.ids = ids /\ q.groups = groups /\ q.todo = p.todo
        /\ q.unlogged = p.unlogged /\ q.addressed = p.addressed /\ q.reached = p.reached /\ q.log = p.log
        /\ q.meant = p.meant /\ q.edits = p.edits /\ q.faulty = p.faulty
    BY <1>1, <1>3, <2>2 DEF PageShape, Reading
  <2> HIDE DEF q
  <2>5. ASSUME ~q.faulty, q.edits <= 1 PROVE ReadsOneBook(q, s, b)
    <3>1. /\ ReadsOneBook(p, s, b) /\ p.edits \in 0 .. 1
          /\ \E w \in Books : /\ Means(w, s) \in p.meant /\ w.routed /\ M = Matched(w, s) /\ w.policy = b.policy
                              /\ w = b \/ (p.edits = 1 /\ OneKind(w, b))
      BY <1>4, <2>4, <2>5
    <3>2. PICK w \in Books : /\ Means(w, s) \in p.meant /\ w.routed /\ M = Matched(w, s) /\ w.policy = b.policy
                             /\ w = b \/ (p.edits = 1 /\ OneKind(w, b))
      BY <3>1
    <3>3. Reads(q, s, w)
      BY <2>3, <2>4, <3>2 DEF Reads
    <3> QED BY <1>1, <2>4, <3>1, <3>2, <3>3, GoesOnReading
  <2>6. PageInv(q, s, b)
    BY <1>1, <2>4, <2>5 DEF PageInv
  <2> QED BY <1>0, <1>2, <2>1, <2>6, OnePage
<1> QED BY <1>5, <1>6

LEMMA GroupsInv ==
  ASSUME PagesInv, NEW m \in DOMAIN Messages, LoadGroups(m) \/ LoadGroupsFails(m)
  PROVE  PagesInv'
<1>0. PICK p, s, b, more : /\ p = page[m] /\ s = Messages[m] /\ b = book
                           /\ more = p.ids \cup UNION {b.group[g] : g \in p.groups}
  OBVIOUS
<1>1. /\ p \in PageShape /\ b \in Books /\ p.at = "matched" /\ PageInv(p, s, b) /\ p.groups \subseteq Groups
      /\ p.ids \subseteq Contacts /\ p.edits \in Nat /\ p.faulty \in BOOLEAN /\ book' = book
  BY <1>0 DEF PagesInv, LoadGroups, LoadGroupsFails, At, PageShape
<1>2. more \in SUBSET Contacts
  BY <1>0, <1>1, BookTypes
<1>3. CASE LoadGroups(m)
  <2> DEFINE q == [p EXCEPT !.at = "expanded", !.ids = more]
  <2>1. page' = [page EXCEPT ![m] = q]
    BY <1>0, <1>3 DEF LoadGroups, Set
  <2>2. /\ q \in PageShape /\ q.at = "expanded" /\ q.ids = more /\ q.todo = p.todo
        /\ q.unlogged = p.unlogged /\ q.addressed = p.addressed /\ q.reached = p.reached /\ q.log = p.log
        /\ q.meant = p.meant /\ q.edits = p.edits /\ q.faulty = p.faulty
    BY <1>1, <1>2 DEF PageShape, Reading
  <2> HIDE DEF q
  <2>3. ASSUME ~q.faulty, q.edits <= 1 PROVE ReadsOneBook(q, s, b)
    <3>1. ReadsOneBook(p, s, b) /\ p.edits \in 0 .. 1
      BY <1>1, <2>2, <2>3 DEF PageInv, Reading
    <3>2. PICK w \in Books : /\ Means(w, s) \in p.meant /\ Reads(p, s, w) /\ AgreeOn(w, b, NextKind(p.at))
                             /\ w = b \/ (p.edits = 1 /\ OneKind(w, b))
      BY <1>1, <3>1, OneBookSays DEF Reading
    <3>3. w.routed /\ p.ids = Direct(w, s) /\ p.groups = Grouped(w, s) /\ w.group = b.group
      BY <1>1, <3>2 DEF Reads, AgreeOn, NextKind
    <3>4. more = Named(w, s)
      BY <1>0, <3>3 DEF Named
    <3>5. Reads(q, s, w)
      BY <2>2, <3>3, <3>4 DEF Reads
    <3> QED BY <1>1, <2>2, <3>1, <3>2, <3>5, GoesOnReading
  <2>4. PageInv(q, s, b)
    BY <1>1, <2>2, <2>3 DEF PageInv
  <2> QED BY <1>0, <1>1, <2>1, <2>4, OnePage
<1>4. CASE LoadGroupsFails(m)
  <2> DEFINE q == [p EXCEPT !.at = "expanded", !.faulty = TRUE]
  <2>1. page' = [page EXCEPT ![m] = q]
    BY <1>0, <1>4 DEF LoadGroupsFails, Set
  <2>2. /\ q \in PageShape /\ q.at = "expanded" /\ q.faulty /\ q.todo = p.todo
        /\ q.unlogged = p.unlogged /\ q.addressed = p.addressed /\ q.reached = p.reached /\ q.log = p.log
    BY <1>1 DEF PageShape, Reading
  <2> HIDE DEF q
  <2>3. PageInv(q, s, b)
    BY <1>1, <2>2 DEF PageInv
  <2> QED BY <1>0, <1>1, <2>1, <2>3, OnePage
<1> QED BY <1>3, <1>4

LEMMA ContactsInv ==
  ASSUME PagesInv, NEW m \in DOMAIN Messages, LoadContacts(m)
  PROVE  PagesInv'
<1>0. PICK p, s, b, F : /\ p = page[m] /\ s = Messages[m] /\ b = book
                        /\ F = {c \in p.ids : b.contact[c].there}
  OBVIOUS
<1>1. /\ p \in PageShape /\ b \in Books /\ p.at = "expanded" /\ PageInv(p, s, b) /\ p.ids \subseteq Contacts
      /\ p.edits \in Nat /\ p.faulty \in BOOLEAN
  BY <1>0 DEF PagesInv, LoadContacts, At, PageShape
<1>2. /\ book' = book
      /\ IF F = {} THEN page' = [page EXCEPT ![m] = [p EXCEPT !.at = "done", !.dropped = "no_contacts"]]
         ELSE page' = [page EXCEPT ![m] = [p EXCEPT !.at = "loaded", !.contacts = [c \in F |-> b.contact[c]]]]
  BY <1>0 DEF LoadContacts, Drops, Set
<1>3. ASSUME ~p.faulty, p.edits <= 1
      PROVE  /\ ReadsOneBook(p, s, b) /\ p.edits \in 0 .. 1
             /\ \E w \in Books : /\ Means(w, s) \in p.meant /\ w.routed /\ F = Found(w, s) /\ w.contact = b.contact
                                 /\ w = b \/ (p.edits = 1 /\ OneKind(w, b))
  <2>1. ReadsOneBook(p, s, b) /\ p.edits \in 0 .. 1
    BY <1>1, <1>3 DEF PageInv, Reading
  <2>2. PICK w \in Books : /\ Means(w, s) \in p.meant /\ Reads(p, s, w) /\ AgreeOn(w, b, NextKind(p.at))
                           /\ w = b \/ (p.edits = 1 /\ OneKind(w, b))
    BY <1>1, <2>1, OneBookSays DEF Reading
  <2>3. w.routed /\ p.ids = Named(w, s) /\ w.contact = b.contact
    BY <1>1, <2>2 DEF Reads, AgreeOn, NextKind
  <2>4. F = Found(w, s)
    BY <1>0, <2>3 DEF Found
  <2> QED BY <2>1, <2>2, <2>3, <2>4
<1>4. CASE F = {}
  <2> DEFINE q == [p EXCEPT !.at = "done", !.dropped = "no_contacts"]
  <2>1. page' = [page EXCEPT ![m] = q]
    BY <1>2, <1>4
  <2>2. /\ q \in PageShape /\ q.at = "done" /\ q.dropped = "no_contacts" /\ q.todo = p.todo
        /\ q.unlogged = p.unlogged /\ q.addressed = p.addressed /\ q.reached = p.reached /\ q.log = p.log
        /\ q.meant = p.meant /\ q.edits = p.edits /\ q.faulty = p.faulty
    BY <1>1 DEF PageShape, Reasons
  <2> HIDE DEF q
  <2>3. ASSUME ~q.faulty, q.edits <= 1 PROVE q.addressed \in q.meant
    <3>1. PICK w \in Books : Means(w, s) \in p.meant /\ Found(w, s) = {}
      BY <1>3, <1>4, <2>2, <2>3
    <3>2. Means(w, s) = {}
      BY <3>1, NobodyMeant
    <3> QED BY <1>1, <2>2, <3>1, <3>2 DEF PageInv
  <2>4. PageInv(q, s, b)
    BY <1>1, <2>2, <2>3 DEF PageInv, Reading
  <2> QED BY <1>0, <1>2, <2>1, <2>4, OnePage
<1>5. CASE F # {}
  <2> DEFINE cs == [c \in F |-> b.contact[c]]
             q == [p EXCEPT !.at = "loaded", !.contacts = cs]
  <2>1. page' = [page EXCEPT ![m] = q]
    BY <1>2, <1>5
  <2>2. cs \in UNION {[S -> Cards] : S \in SUBSET Contacts} /\ DOMAIN cs = F
    <3>1. F \in SUBSET Contacts /\ cs \in [F -> Cards]
      BY <1>0, <1>1, BookTypes
    <3> QED BY <3>1
  <2>3. ASSUME NEW w, F = Found(w, s), w.contact = b.contact PROVE cs = [c \in Found(w, s) |-> w.contact[c]]
    BY <2>3
  <2> HIDE DEF cs
  <2>4. /\ q \in PageShape /\ q.at = "loaded" /\ q.contacts = cs /\ q.todo = p.todo
        /\ q.unlogged = p.unlogged /\ q.addressed = p.addressed /\ q.reached = p.reached /\ q.log = p.log
        /\ q.meant = p.meant /\ q.edits = p.edits /\ q.faulty = p.faulty
    BY <1>1, <2>2 DEF PageShape, Reading
  <2> HIDE DEF q
  <2>5. ASSUME ~q.faulty, q.edits <= 1 PROVE ReadsOneBook(q, s, b)
    <3>1. /\ ReadsOneBook(p, s, b) /\ p.edits \in 0 .. 1
          /\ \E w \in Books : /\ Means(w, s) \in p.meant /\ w.routed /\ F = Found(w, s) /\ w.contact = b.contact
                              /\ w = b \/ (p.edits = 1 /\ OneKind(w, b))
      BY <1>3, <2>4, <2>5
    <3>2. PICK w \in Books : /\ Means(w, s) \in p.meant /\ w.routed /\ F = Found(w, s) /\ w.contact = b.contact
                             /\ w = b \/ (p.edits = 1 /\ OneKind(w, b))
      BY <3>1
    <3>3. Reads(q, s, w)
      BY <2>3, <2>4, <3>2 DEF Reads
    <3> QED BY <1>1, <2>4, <3>1, <3>2, <3>3, GoesOnReading
  <2>6. PageInv(q, s, b)
    BY <1>1, <1>5, <2>2, <2>4, <2>5 DEF PageInv
  <2> QED BY <1>0, <1>2, <2>1, <2>6, OnePage
<1> QED BY <1>4, <1>5

LEMMA ResolveInv ==
  ASSUME PagesInv, NEW m \in DOMAIN Messages, NEW unreadable, Resolve(m, unreadable)
  PROVE  PagesInv'
<1>0. PICK p, s, b, P, to : /\ p = page[m] /\ s = Messages[m] /\ b = book /\ P = b.provider \ unreadable
                            /\ to = Addressees(p.contacts, s, P)
  OBVIOUS
<1>1. /\ p \in PageShape /\ b \in Books /\ p.at = "loaded" /\ PageInv(p, s, b) /\ book' = book
      /\ p.contacts \in UNION {[S -> Cards] : S \in SUBSET Contacts} /\ p.edits \in Nat /\ p.faulty \in BOOLEAN
      /\ P \in SUBSET Providers
  <2>1. p \in PageShape /\ b \in Books /\ p.at = "loaded" /\ PageInv(p, s, b) /\ book' = book
    BY <1>0 DEF PagesInv, Resolve, At
  <2> QED BY <1>0, <2>1, BookTypes DEF PageShape
<1>2. to \in SUBSET (Contacts \X Buckets)
  BY <1>0, <1>1, ContactsAre
<1> DEFINE todo == {t[2] : t \in to}
           fault == p.faulty \/ unreadable # {}
           at == IF to = {} THEN "done" ELSE "sending"
           q == [p EXCEPT !.at = at, !.addressed = to, !.todo = todo, !.faulty = fault]
<1>3. page' = [page EXCEPT ![m] = q]
  <2> DEFINE cs == page[m].contacts
             sent == UNION {{<<c, k>> : k \in BucketsOf(cs[c], Messages[m], loadProviderConfig(unreadable))} : c \in DOMAIN cs}
  <2>1. sent = to
    BY <1>0 DEF Addressees, loadProviderConfig
  <2>2. page' = [page EXCEPT ![m] = [page[m] EXCEPT !.at = IF sent = {} THEN "done" ELSE "sending", !.addressed = sent,
                                       !.todo = {t[2] : t \in sent}, !.faulty = page[m].faulty \/ unreadable # {}]]
    BY DEF Resolve, Set
  <2> HIDE DEF sent
  <2> QED BY <1>0, <2>1, <2>2
<1>4. todo \in SUBSET Buckets /\ (to = {} => todo = {}) /\ fault \in BOOLEAN
  BY <1>1, <1>2
<1>5. at \in {"done", "sending"} /\ (at = "done" => to = {})
  OBVIOUS
<1>f. ~fault => ~p.faulty /\ P = b.provider
  BY <1>0, <1>1
<1> HIDE DEF todo, fault, at
<1>6. /\ q \in PageShape /\ q.at = at /\ q.addressed = to /\ q.todo = todo /\ q.faulty = fault
      /\ q.unlogged = p.unlogged /\ q.reached = p.reached /\ q.log = p.log /\ q.contacts = p.contacts
      /\ q.meant = p.meant /\ q.edits = p.edits
  BY <1>1, <1>2, <1>4, <1>5 DEF PageShape
<1> HIDE DEF q
<1>7. ASSUME ~q.faulty, q.edits <= 1 PROVE q.addressed \in q.meant
  <2>1. ~p.faulty /\ P = b.provider /\ p.edits <= 1
    BY <1>6, <1>7, <1>f
  <2>2. ReadsOneBook(p, s, b) /\ p.edits \in 0 .. 1
    BY <1>1, <2>1 DEF PageInv, Reading
  <2>3. PICK w \in Books : Means(w, s) \in p.meant /\ Reads(p, s, w) /\ AgreeOn(w, b, NextKind(p.at))
    BY <1>1, <2>2, OneBookSays DEF Reading
  <2>4. w.routed /\ p.contacts = [c \in Found(w, s) |-> w.contact[c]] /\ w.provider = b.provider
    BY <1>1, <2>3 DEF Reads, AgreeOn, NextKind
  <2>5. Means(w, s) = to
    BY <1>0, <2>1, <2>4, MeansIs
  <2> QED BY <1>6, <2>3, <2>5
<1>8. PageInv(q, s, b)
  <2>1. p.reached = {} /\ p.log = p.log /\ p.unlogged = {} /\ DOMAIN p.contacts # {}
    BY <1>1 DEF PageInv
  <2> QED BY <1>1, <1>4, <1>5, <1>6, <1>7, <2>1 DEF PageInv, Reading
<1> QED BY <1>0, <1>1, <1>3, <1>8, OnePage

LEMMA SendsInv ==
  ASSUME PagesInv, NEW m \in DOMAIN Messages, NEW k, NEW reached, NEW ok \in BOOLEAN, Sends(m, k, reached, ok)
  PROVE  PagesInv'
<1>0. PICK p, s, b, word : p = page[m] /\ s = Messages[m] /\ b = book /\ word = (IF ok THEN "sent" ELSE "failed")
  OBVIOUS
<1>1. /\ p \in PageShape /\ p.at = "sending" /\ PageInv(p, s, b) /\ book' = book /\ k \in Buckets /\ p.unlogged = {}
      /\ p.contacts \in UNION {[S -> Cards] : S \in SUBSET Contacts}
  <2>1. p \in PageShape /\ PageInv(p, s, b) /\ p.at = "sending" /\ k \in p.todo /\ book' = book /\ p.unlogged = {}
    BY <1>0 DEF PagesInv, Sends, At
  <2> QED BY <2>1 DEF PageShape
<1>2. PICK members : members = {c \in DOMAIN p.contacts : <<c, k>> \in p.addressed}
  OBVIOUS
<1>3. /\ members \subseteq Contacts /\ reached \subseteq members /\ (ok => reached = members)
      /\ \A c \in members : <<c, k>> \in p.addressed
  <2>1. DOMAIN p.contacts \subseteq Contacts
    BY <1>1
  <2>2. members = Members(m, k)
    BY <1>0, <1>2 DEF Members
  <2> QED BY <1>2, <2>1, <2>2 DEF Sends
<1> DEFINE done == p.reached \cup {<<c, k>> : c \in reached}
           rows == {<<c, k, word>> : c \in members}
           q == [p EXCEPT !.todo = p.todo \ {k}, !.reached = done, !.unlogged = rows]
<1>4. page' = [page EXCEPT ![m] = q]
  <2>1. Members(m, k) = members
    BY <1>0, <1>2 DEF Members
  <2>2. page' = [page EXCEPT ![m] = [page[m] EXCEPT !.todo = page[m].todo \ {k},
                                       !.reached = page[m].reached \cup {<<c, k>> : c \in reached},
                                       !.unlogged = {<<c, k, IF ok THEN "sent" ELSE "failed">> : c \in Members(m, k)}]]
    BY DEF Sends, Set
  <2>3. {<<c, k, IF ok THEN "sent" ELSE "failed">> : c \in Members(m, k)} = rows
    BY <1>0, <2>1
  <2> HIDE DEF rows
  <2> QED BY <1>0, <2>2, <2>3
<1>5. /\ done \in SUBSET (Contacts \X Buckets) /\ done \subseteq p.addressed /\ p.reached \subseteq done
      /\ rows \in SUBSET (Contacts \X Buckets \X {"sent", "failed"})
  <2>1. p.reached \in SUBSET (Contacts \X Buckets) /\ p.reached \subseteq p.addressed
    BY <1>1 DEF PageShape, PageInv
  <2>2. word \in {"sent", "failed"}
    BY <1>0
  <2>3. done \in SUBSET (Contacts \X Buckets) /\ done \subseteq p.addressed /\ p.reached \subseteq done
    BY <1>1, <1>3, <2>1
  <2>4. rows \in SUBSET (Contacts \X Buckets \X {"sent", "failed"})
    BY <1>1, <1>3, <2>2
  <2> QED BY <2>3, <2>4
<1>6. \A e \in rows : e[3] = "sent" => <<e[1], e[2]>> \in done
  <2> SUFFICES ASSUME NEW c \in members, word = "sent" PROVE <<c, k>> \in done
    OBVIOUS
  <2>1. ok
    BY <1>0
  <2> QED BY <1>3, <2>1
<1> HIDE DEF done, rows
<1>7. /\ q \in PageShape /\ q.at = "sending" /\ q.todo \subseteq p.todo /\ q.reached = done /\ q.unlogged = rows
      /\ q.addressed = p.addressed /\ q.log = p.log /\ q.contacts = p.contacts /\ q.faulty = p.faulty
      /\ q.meant = p.meant /\ q.edits = p.edits
  BY <1>1, <1>5 DEF PageShape
<1> HIDE DEF q
<1>8. PageInv(q, s, b)
  BY <1>1, <1>5, <1>6, <1>7 DEF PageInv, Reading
<1> QED BY <1>0, <1>1, <1>4, <1>8, OnePage

LEMMA LogInv ==
  ASSUME PagesInv, NEW m \in DOMAIN Messages, NEW written \in BOOLEAN, logNotification(m, written)
  PROVE  PagesInv'
<1>0. PICK p, s, b : p = page[m] /\ s = Messages[m] /\ b = book
  OBVIOUS
<1>1. /\ p \in PageShape /\ p.at = "sending" /\ PageInv(p, s, b) /\ book' = book
  BY <1>0 DEF PagesInv, logNotification, At
<1>2. PICK e \in p.unlogged :
        LET rest == p.unlogged \ {e} IN
          page' = [page EXCEPT ![m] = [p EXCEPT !.unlogged = rest, !.log = IF written THEN p.log \cup {e} ELSE p.log,
                                                !.at = IF rest = {} /\ p.todo = {} THEN "done" ELSE p.at]]
  BY <1>0 DEF logNotification, Set
<1> DEFINE rest == p.unlogged \ {e}
           log == IF written THEN p.log \cup {e} ELSE p.log
           at == IF rest = {} /\ p.todo = {} THEN "done" ELSE p.at
           q == [p EXCEPT !.unlogged = rest, !.log = log, !.at = at]
<1>3. page' = [page EXCEPT ![m] = q]
  BY <1>2
<1>4. /\ rest \in SUBSET (Contacts \X Buckets \X {"sent", "failed"})
      /\ log \in SUBSET (Contacts \X Buckets \X {"sent", "failed"})
      /\ log \cup rest \subseteq p.log \cup p.unlogged
  BY <1>1, <1>2 DEF PageShape
<1>5. at \in {"done", "sending"} /\ (at = "done" => rest = {} /\ p.todo = {})
  BY <1>1
<1> HIDE DEF rest, log, at
<1>6. /\ q \in PageShape /\ q.at = at /\ q.todo = p.todo /\ q.reached = p.reached /\ q.unlogged = rest
      /\ q.addressed = p.addressed /\ q.log = log /\ q.contacts = p.contacts /\ q.faulty = p.faulty
      /\ q.meant = p.meant /\ q.edits = p.edits
  BY <1>1, <1>4, <1>5 DEF PageShape
<1> HIDE DEF q
<1>7. PageInv(q, s, b)
  BY <1>1, <1>4, <1>5, <1>6 DEF PageInv, Reading
<1> QED BY <1>0, <1>1, <1>3, <1>7, OnePage

LEMMA CutInv ==
  ASSUME PagesInv, NEW m \in DOMAIN Messages, Cut(m)
  PROVE  PagesInv'
<1>0. PICK p, s, b : p = page[m] /\ s = Messages[m] /\ b = book
  OBVIOUS
<1>1. /\ p \in PageShape /\ PageInv(p, s, b) /\ book' = book
  BY <1>0 DEF PagesInv, Cut
<1> DEFINE q == [p EXCEPT !.at = "cut"]
<1>2. page' = [page EXCEPT ![m] = q]
  BY <1>0 DEF Cut, Set
<1>3. /\ q \in PageShape /\ q.at = "cut" /\ q.reached = p.reached /\ q.unlogged = p.unlogged
      /\ q.addressed = p.addressed /\ q.log = p.log
  BY <1>1 DEF PageShape
<1> HIDE DEF q
<1>4. PageInv(q, s, b)
  BY <1>1, <1>3 DEF PageInv, Reading
<1> QED BY <1>0, <1>1, <1>2, <1>4, OnePage

(* An edit may happen between any two steps of any page.                   *)
LEMMA EditInv ==
  ASSUME PagesInv, EditBook
  PROVE  PagesInv'
<1>1. PICK c \in Neighbours[book] :
        /\ book' = c
        /\ page' = [m \in DOMAIN page |->
             IF Underway(m) THEN [page[m] EXCEPT !.edits = @ + 1, !.meant = @ \cup {Means(c, Messages[m])}] ELSE page[m]]
  BY DEF EditBook
<1>2. book \in Books /\ c \in Books /\ OneKind(book, c) /\ DOMAIN page = DOMAIN Messages
  BY <1>1, OneRowOneKind DEF PagesInv, Neighbours
<1>3. ASSUME NEW m \in DOMAIN Messages PROVE PageInv(page'[m], Messages[m], c)
  <2>0. PICK p, s, b, means : p = page[m] /\ s = Messages[m] /\ b = book /\ means = Means(c, s)
    OBVIOUS
  <2>1. p \in PageShape /\ PageInv(p, s, b) /\ b \in Books /\ OneKind(b, c) /\ p.edits \in Nat
        /\ p.meant \in SUBSET SUBSET (Contacts \X Buckets)
    <3>1. p \in PageShape /\ PageInv(p, s, b) /\ b \in Books /\ OneKind(b, c)
      BY <1>2, <2>0 DEF PagesInv
    <3> QED BY <3>1 DEF PageShape
  <2>2. CASE Underway(m)
    <3> DEFINE more == p.meant \cup {means}
               n == p.edits + 1
               q == [p EXCEPT !.edits = n, !.meant = more]
    <3>1. page'[m] = q
      BY <1>1, <1>2, <2>0, <2>2
    <3>2. more \in SUBSET SUBSET (Contacts \X Buckets) /\ p.meant \subseteq more /\ means \in more
          /\ n \in Nat /\ (n <= 1 => p.edits = 0 /\ p.edits <= 1 /\ n = 1)
      <4>1. means \in SUBSET (Contacts \X Buckets)
        BY <2>0 DEF Means
      <4> QED BY <2>1, <4>1
    <3> HIDE DEF more, n
    <3>3. /\ q \in PageShape /\ q.edits = n /\ q.meant = more
          /\ q.at = p.at /\ q.todo = p.todo /\ q.reached = p.reached /\ q.unlogged = p.unlogged
          /\ q.addressed = p.addressed /\ q.log = p.log /\ q.contacts = p.contacts /\ q.faulty = p.faulty
          /\ q.policies = p.policies /\ q.ids = p.ids /\ q.groups = p.groups /\ q.dropped = p.dropped
      BY <2>1, <3>2 DEF PageShape
    <3>4. p.at \notin {"new", "done", "cut"}
      BY <2>0, <2>2 DEF Underway
    <3> HIDE DEF q
    <3>5. ASSUME ~q.faulty, q.edits <= 1
          PROVE  /\ q.at \in Reading => ReadsOneBook(q, s, c)
                 /\ q.at \in {"sending", "done"} => q.addressed \in q.meant
      <4>1. p.edits = 0 /\ p.edits <= 1 /\ q.edits = 1 /\ ~p.faulty
        BY <3>2, <3>3, <3>5
      <4>2. CASE p.at \in Reading
        <5>1. Means(b, s) \in p.meant /\ Reads(p, s, b)
          BY <2>1, <4>1, <4>2 DEF PageInv, ReadsOneBook
        <5>2. Reads(q, s, b)
          BY <3>3, <5>1 DEF Reads
        <5>3. Means(c, s) \in q.meant /\ Means(b, s) \in q.meant
          BY <2>0, <3>2, <3>3, <5>1
        <5>4. ReadsOneBook(q, s, c)
          BY <2>1, <4>1, <5>2, <5>3 DEF ReadsOneBook
        <5> QED BY <3>3, <4>2, <5>4 DEF Reading
      <4>3. CASE p.at \notin Reading
        BY <2>1, <3>2, <3>3, <3>4, <4>1, <4>3 DEF PageInv
      <4> QED BY <4>2, <4>3
    <3>6. PageInv(q, s, c)
      BY <2>1, <3>3, <3>4, <3>5 DEF PageInv
    <3> QED BY <2>0, <3>1, <3>6
  <2>3. CASE ~Underway(m)
    <3>1. page'[m] = p
      BY <1>1, <1>2, <2>0, <2>3
    <3>2. p.at \in {"new", "done", "cut"}
      BY <2>0, <2>3 DEF Underway
    <3>3. PageInv(p, s, c)
      BY <2>1, <3>2 DEF PageInv, Reading
    <3> QED BY <2>0, <3>1, <3>3
  <2> QED BY <2>2, <2>3
<1>4. page' \in [DOMAIN Messages -> PageShape]
  <2>1. \A m \in DOMAIN Messages : page'[m] \in PageShape
    BY <1>3 DEF PageInv
  <2>2. page' = [m \in DOMAIN Messages |-> page'[m]]
    BY <1>1, <1>2
  <2> QED BY <2>1, <2>2
<1> QED BY <1>1, <1>2, <1>3, <1>4 DEF PagesInv

LEMMA PagesStep ==
  PagesInv /\ [Next]_pathVars => PagesInv'
<1> SUFFICES ASSUME PagesInv, [Next]_pathVars PROVE PagesInv'
  OBVIOUS
<1>0. DOMAIN page = DOMAIN Messages
  BY DEF PagesInv
<1>1. ASSUME NEW m \in DOMAIN Messages, NEW reached, NEW ok \in BOOLEAN, Send(m, reached, ok) PROVE PagesInv'
  BY <1>1, SendsInv DEF Send, PostRoom, SendMail, CallPhones
<1>2. ASSUME NEW m \in DOMAIN Messages, DispatchStep(m) PROVE PagesInv'
  BY <1>1, <1>2, RouteInv, PoliciesInv, GroupsInv, ContactsInv, ResolveInv, LogInv DEF DispatchStep
<1>3. ASSUME NEW m \in DOMAIN Messages, DispatchFault(m) PROVE PagesInv'
  <2>1. CASE LoadRouteFails(m) \/ LoadPoliciesFails(m) \/ LoadContactsFails(m)
    BY <2>1, FaultInv DEF LoadRouteFails, LoadPoliciesFails, LoadContactsFails, At, Reasons
  <2>2. CASE LoadGroupsFails(m)
    BY <2>2, GroupsInv
  <2>3. CASE \E some \in SUBSET Providers \ {{}} : Resolve(m, some)
    BY <2>3, ResolveInv
  <2>4. CASE \E some \in SUBSET Contacts : Send(m, some, FALSE)
    BY <1>1, <2>4
  <2>5. CASE logNotification(m, FALSE) \/ Cut(m)
    BY <2>5, LogInv, CutInv
  <2> QED BY <1>3, <2>1, <2>2, <2>3, <2>4, <2>5 DEF DispatchFault
<1>4. CASE Pages
  BY <1>0, <1>2, <1>3, <1>4, EditInv DEF Pages
<1>5. CASE Forms \/ Intake \/ UNCHANGED pathVars
  <2>1. book' = book /\ page' = page
    BY <1>5 DEF Forms, Intake, pathVars, deliveryVars
  <2> QED BY <2>1 DEF PagesInv
<1> QED BY <1>4, <1>5 DEF Next

LEMMA PagesInit == DeliveryInit => PagesInv
<1> SUFFICES ASSUME DeliveryInit PROVE PagesInv
  OBVIOUS
<1>1. Unsent.at = "new" /\ Unsent.todo = {} /\ Unsent.unlogged = {} /\ Unsent.log = {} /\ Unsent.reached = {}
      /\ Unsent.addressed = {}
  BY DEF Unsent
<1>2. \A s : PageInv(Unsent, s, book)
  BY <1>1, UnsentShape DEF PageInv, Reading
<1> QED BY <1>2, UnsentShape DEF DeliveryInit, PagesInv

(* For every address book, every number of pages and every place where an  *)
(* edit or a fault comes in between: a page without a failed query goes to *)
(* those the book names, before or after the one edit; the log says "sent" *)
(* only of who was reached; and a page to nobody is counted, or had        *)
(* contacts that could not be reached.                                     *)
THEOREM PagesGoWhereMeant == Spec => []PagesExplained
<1>1. Init => PagesInv
  BY PagesInit DEF Init
<1>2. PagesInv => PagesExplained
  BY DEF PagesInv, PageInv, PagesExplained, At
<1> QED BY <1>1, <1>2, PagesStep, PTL DEF Spec

(* The rows, the requests and the pages have their types, no two live rows *)
(* one name, and a page that is done has nothing left to send or to log.   *)
THEOREM PathTypes == Spec => []TypeOK
<1>1. Init => KeysInv /\ ReplayInv /\ PagesInv
  BY KeysInit, ReplayInit, PagesInit DEF Init
<1>2. KeysInv /\ ReplayInv /\ PagesInv /\ [Next]_pathVars => (KeysInv /\ ReplayInv /\ PagesInv)'
  BY KeysStep, ReplayStep, PagesStep
<1>3. ASSUME KeysInv, ReplayInv, PagesInv PROVE TypeOK
  <2>1. \A s \in Hooks : /\ hook[s].state \in {"free", "live", "deleted"} /\ hook[s].key \in 0 .. issued
                         /\ \A x \in Hooks \ {s} : LiveHook(s) /\ LiveHook(x) => hook[s].name # hook[x].name
    <3>1. ASSUME NEW s \in Hooks PROVE hook[s].state \in {"free", "live", "deleted"} /\ hook[s].key \in 0 .. issued
      <4>1. hook[s] \in HookShape /\ hook[s].key <= issued /\ issued \in 1 .. MaxKeys /\ MaxKeys \in Nat
        BY <1>3, FreeShape DEF KeysInv
      <4>2. hook[s].key \in Nat /\ hook[s].state \in {"free", "live", "deleted"} /\ issued \in Nat
        BY <4>1 DEF HookShape
      <4> QED BY <4>1, <4>2
    <3> QED BY <1>3, <3>1 DEF KeysInv, NamesUnique
  <2>2. issued \in 1 .. MaxKeys /\ now \in 0 .. MaxTime
    BY <1>3 DEF KeysInv, ReplayInv, IntakeShape
  <2>3. ASSUME NEW k \in Arrivals PROVE request[k].at \in Stages
    <3>1. request[k] \in RequestShape
      BY <1>3 DEF ReplayInv, IntakeShape
    <3> QED BY <3>1 DEF RequestShape
  <2>4. IntakeTypeOK
    BY <2>1, <2>2, <2>3 DEF IntakeTypeOK, Stages
  <2>5. ASSUME NEW m \in DOMAIN page
        PROVE  /\ page[m].todo \subseteq Buckets /\ page[m].reached \subseteq page[m].addressed
               /\ At(m, "done") => page[m].unlogged = {} /\ page[m].todo = {}
    <3>1. m \in DOMAIN Messages
      BY <1>3 DEF PagesInv
    <3>2. page[m] \in PageShape /\ PageInv(page[m], Messages[m], book)
      BY <1>3, <3>1 DEF PagesInv
    <3> QED BY <3>2 DEF PageShape, PageInv, At
  <2>6. DeliveryTypeOK
    BY <1>3, <2>5 DEF PagesInv, DeliveryTypeOK
  <2> QED BY <2>4, <2>6 DEF TypeOK
<1> QED BY <1>1, <1>2, <1>3, PTL DEF Spec

-----------------------------------------------------------------------------
(* What is made of messages and bodies. *)

(* An expression that is there and does not fail lets a message through if *)
(* the strict reading does.                                                *)
LEMMA StrictHolds ==
  ASSUME NEW f, NEW m, m.bare \in BOOLEAN, f.arg # Absent, f.fn # "none"
  PROVE  ~Fails(f, m) /\ Holds(f, m) <=> Strict(f, m)
<1> DEFINE there == m.at[f.path] # Absent
<1>1. /\ Exists(m, f.path) <=> there
      /\ there => Text(m, f.path) = m.at[f.path]
      /\ ~there => Text(m, f.path) = "" /\ ~Numeric(Text(m, f.path)) /\ Text(m, f.path) \in Placeholders
  BY NumberAssumption DEF Exists, Text, Numeric, Placeholders
<1>2. CASE f.fn = "!="
  <2>1. ~Fails(f, m)
    BY <1>2 DEF Fails
  <2>2. Holds(f, m) <=> Text(m, f.path) # f.arg \/ ~Exists(m, f.path)
    BY <1>2 DEF Holds
  <2>3. Strict(f, m) <=> m.at[f.path] # f.arg
    BY <1>2 DEF Strict
  <2> QED BY <1>1, <2>1, <2>2, <2>3
<1> QED BY <1>1, <1>2 DEF Strict, Holds, Fails

(* Whatever the filter and the mapping, a message becomes an alert exactly *)
(* if it should, and is over exactly if it says so.                        *)
LEMMA MessagesMatch ==
  ASSUME NEW g \in Programs, NEW m \in Payloads
  PROVE  VerdictMatches(g, m, apply(g, m))
<1>1. m.json \in BOOLEAN /\ m.bare \in BOOLEAN /\ g.filter.arg # Absent /\ g.resolvedWhen.arg # Absent
  BY FormsAssumption
<1>2. (g.filter.fn # "none" => ~Fails(g.filter, m) /\ Holds(g.filter, m)) <=> Strict(g.filter, m)
  <2>1. g.filter.fn = "none" => Strict(g.filter, m)
    BY DEF Strict
  <2> QED BY <1>1, <2>1, StrictHolds
<1>3. resolved(g, m) <=> \/ isResolvedKeyword(evalField(g.status, m))
                         \/ g.resolvedWhen.fn # "none" /\ Strict(g.resolvedWhen, m)
  BY <1>1, StrictHolds DEF resolved
<1>4. fingerprint(g, m) \notin {<<>>, <<"">>}
  BY DEF fingerprint, Labels
<1>5. \A reason : Dropped(reason).keep = FALSE /\ Dropped(reason).reason = reason
  BY DEF Dropped
<1> DEFINE v == apply(g, m)
           name == evalField(g.alertname, m)
           grade == evalField(g.severity, m)
           named == ~Broken(g.alertname) /\ ~Broken(g.severity) /\ name # "" /\ grade # ""
           mapped == \A c \in {g.label, g.note, g.starts, g.ends, g.status, g.fingerprint} : ~Broken(c)
           kept == [keep |-> TRUE, reason |-> "", status |-> IF resolved(g, m) THEN "resolved" ELSE "firing",
                    ended |-> parseFlexibleTime(evalField(g.ends, m)) \/ resolved(g, m),
                    severity |-> evalField(g.severity, m),
                    noted |-> g.filter.fn # "none", fp |-> fingerprint(g, m)]
<1>6. CASE m.json /\ Strict(g.filter, m) /\ named /\ mapped
  <2>1. v = kept
    <3>1. ~(g.filter.fn # "none" /\ Fails(g.filter, m)) /\ ~(g.filter.fn # "none" /\ ~Holds(g.filter, m))
      BY <1>2, <1>6
    <3>2. ~(Broken(g.alertname) \/ Broken(g.severity)) /\ evalField(g.alertname, m) # "" /\ evalField(g.severity, m) # ""
      BY <1>6
    <3>3. ~\E c \in {g.label, g.note, g.starts, g.ends, g.status, g.fingerprint} : Broken(c)
      BY <1>6
    <3> QED BY <1>6, <3>1, <3>2, <3>3 DEF apply
  <2>2. /\ kept.keep = TRUE /\ kept.reason = "" /\ kept.fp = fingerprint(g, m)
        /\ kept.status = "resolved" <=> resolved(g, m)
        /\ resolved(g, m) => kept.ended
    OBVIOUS
  <2> HIDE DEF kept
  <2>3. /\ v.keep = TRUE /\ v.reason = "" /\ v.fp = fingerprint(g, m)
        /\ v.status = "resolved" <=> resolved(g, m)
        /\ resolved(g, m) => v.ended
    BY <2>1, <2>2
  <2> HIDE DEF v
  <2>4. VerdictMatches(g, m, v)
    BY <1>3, <1>4, <1>6, <2>3 DEF VerdictMatches
  <2> QED BY <2>4 DEF v
<1>7. CASE ~(m.json /\ Strict(g.filter, m) /\ named /\ mapped)
  <2>1. \/ v = Dropped("bad_json")
        \/ v = Dropped("filter_error")
        \/ v = Dropped("mapping_error")
        \/ v = Dropped("filter_false") /\ m.json /\ ~Strict(g.filter, m)
        \/ v = Dropped("missing_alertname") /\ name = ""
        \/ v = Dropped("missing_severity") /\ grade = "" /\ name # ""
    BY <1>2, <1>7 DEF apply
  <2> HIDE DEF v, name, grade
  <2>2. /\ v.keep = FALSE
        /\ v.reason = "filter_false" => m.json /\ ~Strict(g.filter, m)
        /\ v.reason = "missing_alertname" => name = ""
        /\ v.reason = "missing_severity" => grade = "" /\ name # ""
    <3>1. \/ v.reason \in {"bad_json", "filter_error", "mapping_error"}
          \/ v.reason = "filter_false" /\ m.json /\ ~Strict(g.filter, m)
          \/ v.reason = "missing_alertname" /\ name = ""
          \/ v.reason = "missing_severity" /\ grade = "" /\ name # ""
      BY <1>5, <2>1
    <3>2. v.keep = FALSE
      BY <1>5, <2>1
    <3> QED BY <3>1, <3>2
  <2>3. VerdictMatches(g, m, v)
    BY <1>7, <2>2 DEF VerdictMatches, name, grade
  <2> QED BY <2>3 DEF v
<1> QED BY <1>6, <1>7

(* A webhook is taken if it can be named and graded, and is over exactly   *)
(* if its status is one of the words for that.                             *)
LEMMA HooksMatch ==
  ASSUME NEW g, NEW m \in Payloads
  PROVE  HookMatches(g, m, webhook(g, m))
<1> DEFINE v == webhook(g, m)
           name == Read(m, g.alertname)
           severity == OrElse(Read(m, g.severity), g.default)
           it == Item(name, severity, "hook", webhookStatus(g, m), Now, Unset, Read(m, g.fingerprint))
<1>1. m.json \in BOOLEAN
  BY FormsAssumption
<1>2. /\ severity \in {Read(m, g.severity), g.default}
      /\ severity # "" <=> Read(m, g.severity) # "" \/ g.default # ""
  BY DEF OrElse
<1>3. it.alertname = name /\ it.severity = severity /\ it.status = webhookStatus(g, m)
  BY DEF Item
<1>4. v = IF ~m.json \/ name = "" \/ severity = "" THEN Rejected ELSE Accepted(<<Raw(it)>>)
  BY <1>3 DEF webhook
<1>5. /\ webhookStatus(g, m) = "resolved" => m.at[g.status] \in {"resolved", "0", g.resolvedWord}
      /\ webhookStatus(g, m) = "firing" /\ g.status # NoPath => Read(m, g.status) # "resolved"
  BY DEF webhookStatus, Read, Text, Exists
<1>6. CASE ~m.json \/ name = "" \/ severity = ""
  <2>1. v.ok = FALSE
    <3>1. v = Rejected
      BY <1>4, <1>6
    <3> QED BY <3>1 DEF Rejected
  <2> HIDE DEF v, severity
  <2>2. HookMatches(g, m, v)
    BY <1>2, <1>6, <2>1 DEF HookMatches
  <2> QED BY <2>2 DEF v
<1>7. CASE m.json /\ name # "" /\ severity # ""
  <2> HIDE DEF it
  <2>1. v = Accepted(<<Raw(it)>>)
    BY <1>4, <1>7
  <2>2. v.ok = TRUE /\ v.alerts[1] = Raw(it)
    BY <2>1 DEF Accepted
  <2>3. Raw(it).severity = it.severity /\ Raw(it).status = it.status
    BY DEF Raw
  <2> HIDE DEF v, severity
  <2>4. v.alerts[1].severity = severity /\ v.alerts[1].status = webhookStatus(g, m)
    BY <1>3, <2>2, <2>3
  <2>5. HookMatches(g, m, v)
    BY <1>2, <1>5, <1>7, <2>2, <2>4 DEF HookMatches
  <2> QED BY <2>5 DEF v
<1> QED BY <1>1, <1>6, <1>7

LEMMA QueriesMatch == ASSUME NEW q \in Queries PROVE QueryMatches(q, cloudRDS(q))
<1>1. q.seconds \in Nat
  BY FormsAssumption
<1> DEFINE severity == IF q.seconds >= 30 THEN "critical" ELSE IF q.seconds >= 5 THEN "warning" ELSE "info"
           r == [alertname |-> "SlowQuery", source |-> "cloud-rds", status |-> "firing", ends |-> Unset,
                 fp |-> <<q.sql>>, severity |-> severity]
           v == cloudRDS(q)
<1>2. (severity = "info" <=> q.seconds < 5) /\ (severity = "critical" <=> q.seconds >= 30)
  BY <1>1
<1>3. v.alerts = <<r>>
  BY DEF cloudRDS, Accepted
<1>4. r.severity = severity /\ r.fp = <<q.sql>>
  OBVIOUS
<1> HIDE DEF r, v, severity
<1>5. Len(v.alerts) = 1 /\ v.alerts[1] = r
  BY <1>3
<1>6. <<q.sql>> # ComputeFingerprint(Item("SlowQuery", r.severity, "cloud-rds", "firing", 1, Unset, ""))
  BY DEF ComputeFingerprint, Item
<1>7. QueryMatches(q, v)
  BY <1>2, <1>4, <1>5, <1>6 DEF QueryMatches
<1> QED BY <1>7 DEF v

ItemShape == [alertname : STRING, severity : STRING, source : STRING, status : STRING,
              starts : Nat, ends : Nat, fp : STRING]

LEMMA SameParts ==
  ASSUME NEW it \in ItemShape, NEW jt \in ItemShape, SameAlert(it, jt)
  PROVE  it.alertname = jt.alertname /\ it.severity = jt.severity /\ it.source = jt.source /\ it.fp = jt.fp
<1> DEFINE i == [it EXCEPT !.status = "", !.ends = 0, !.starts = 0]
           j == [jt EXCEPT !.status = "", !.ends = 0, !.starts = 0]
<1>1. /\ i.alertname = it.alertname /\ i.severity = it.severity /\ i.source = it.source /\ i.fp = it.fp
      /\ j.alertname = jt.alertname /\ j.severity = jt.severity /\ j.source = jt.source /\ j.fp = jt.fp
  BY DEF ItemShape
<1>2. i = j
  BY DEF SameAlert
<1> QED BY <1>1, <1>2

LEMMA EmptyDomain == DOMAIN <<>> = {}
OBVIOUS

LEMMA SameEnd == ASSUME NEW n \in Nat, NEW k \in Nat, 1 .. n = 1 .. k PROVE n = k
<1>1. n > 0 => n \in 1 .. k
  OBVIOUS
<1>2. k > 0 => k \in 1 .. n
  OBVIOUS
<1> QED BY <1>1, <1>2

(* What makes a body its alerts is what makes each item its alert. *)
LEMMA EachMatches ==
  ASSUME NEW form, NEW items \in Seq(ItemShape), NEW v, v.ok = TRUE,
         DOMAIN v.alerts = DOMAIN items, v.alerts = [n \in DOMAIN items |-> v.alerts[n]],
         \A n \in DOMAIN items :
           /\ form # "alertmanager" => v.alerts[n].severity # ""
           /\ form = "prometheus-v2" => v.alerts[n].alertname # ""
           /\ v.alerts[n].status = "resolved" <=> Ended(form, items[n])
           /\ \A k \in DOMAIN items : SameAlert(items[n], items[k]) => v.alerts[n].fp = v.alerts[k].fp
  PROVE  ItemsMatch(form, items, v)
<1>1. Len(v.alerts) = Len(items)
  <2> DEFINE T == {v.alerts[n] : n \in DOMAIN items}
             s == v.alerts
  <2>1. Len(items) \in Nat /\ DOMAIN items = 1 .. Len(items)
    BY LenProperties
  <2>2. s \in [1 .. Len(items) -> T]
    BY <2>1
  <2>3. s \in Seq(T)
    BY <2>1, <2>2, SeqDef
  <2> HIDE DEF s, T
  <2>4. Len(s) \in Nat /\ 1 .. Len(s) = 1 .. Len(items)
    BY <2>1, <2>2, <2>3, LenProperties
  <2>5. Len(s) = Len(items)
    BY <2>1, <2>4, SameEnd
  <2> QED BY <2>5 DEF s
<1>2. Whole(form, items, v)
  BY <1>1 DEF Whole
<1> QED BY <1>2 DEF ItemsMatch

LEMMA RejectedMatches ==
  ASSUME NEW form, NEW items, items = <<>> \/ \E n \in DOMAIN items : items[n].alertname = ""
  PROVE  ItemsMatch(form, items, Rejected)
<1>1. Rejected.ok = FALSE /\ Rejected.alerts = <<>>
  BY DEF Rejected
<1>3. DOMAIN Rejected.alerts = {}
  BY <1>1, EmptyDomain
<1>2. Whole(form, items, Rejected)
  BY <1>1, <1>3 DEF Whole
<1> QED BY <1>2, <1>3 DEF ItemsMatch


LEMMA BodyTypes ==
  ASSUME NEW items \in Bodies
  PROVE  items \in Seq(ItemShape) /\ \A n \in DOMAIN items : items[n] \in ItemShape
<1>1. items \in Seq(ItemShape)
  BY FormsAssumption DEF ItemShape
<1> QED BY <1>1, LenProperties, ElementOfSeq

(* alertmanager.go *)
LEMMA AlertmanagerMatches == ASSUME NEW items \in Bodies PROVE ItemsMatch("alertmanager", items, alertmanager(items))
<1>0. items \in Seq(ItemShape) /\ \A n \in DOMAIN items : items[n] \in ItemShape
  BY BodyTypes
<1> DEFINE v == alertmanager(items)
           a(it) == Raw([it EXCEPT !.source = "alertmanager"])
<1>1. v.ok = TRUE /\ v.alerts = [n \in DOMAIN items |-> a(items[n])]
  BY DEF alertmanager, Each, Accepted
<1>2. ASSUME NEW it \in ItemShape
      PROVE  /\ a(it).status = it.status
             /\ a(it).fp = IF it.fp = "" THEN <<it.alertname, it.severity, "alertmanager">> ELSE <<it.fp>>
  BY DEF ItemShape, Raw, ComputeFingerprint
<1> HIDE DEF v, a
<1>3. ASSUME NEW n \in DOMAIN items PROVE v.alerts[n] = a(items[n])
  BY <1>1
<1>4. ASSUME NEW n \in DOMAIN items, NEW k \in DOMAIN items, SameAlert(items[n], items[k])
      PROVE  v.alerts[n].fp = v.alerts[k].fp
  <2>1. PICK it \in ItemShape, jt \in ItemShape : it = items[n] /\ jt = items[k]
    BY <1>0
  <2>2. it.alertname = jt.alertname /\ it.severity = jt.severity /\ it.fp = jt.fp
    BY <1>4, <2>1, SameParts
  <2>3. a(it).fp = a(jt).fp
    BY <1>2, <2>2
  <2> QED BY <1>3, <2>1, <2>3
<1>5. ASSUME NEW n \in DOMAIN items PROVE v.alerts[n].status = "resolved" <=> Ended("alertmanager", items[n])
  BY <1>0, <1>2, <1>3 DEF Ended
<1>6. ItemsMatch("alertmanager", items, v)
  BY <1>0, <1>1, <1>4, <1>5, EachMatches
<1> QED BY <1>6 DEF v

(* prometheus.go *)
LEMMA PrometheusMatches == ASSUME NEW items \in Bodies PROVE ItemsMatch("prometheus", items, prometheus(items))
<1>0. items \in Seq(ItemShape) /\ \A n \in DOMAIN items : items[n] \in ItemShape
  BY BodyTypes
<1> DEFINE v == prometheus(items)
           a(it) == Raw([it EXCEPT !.source = "prometheus", !.severity = OrElse(@, "warning"),
                                   !.ends = IF @ > it.starts THEN @ ELSE Unset])
<1>1. CASE items = <<>>
  <2>1. v = Rejected
    BY <1>1 DEF prometheus
  <2> QED BY <1>1, <2>1, RejectedMatches
<1>2. CASE items # <<>>
  <2>1. v.ok = TRUE /\ v.alerts = [n \in DOMAIN items |-> a(items[n])]
    BY <1>2 DEF prometheus, Each, Accepted
  <2>2. ASSUME NEW it \in ItemShape
        PROVE  /\ a(it).status = it.status /\ a(it).severity = OrElse(it.severity, "warning")
               /\ a(it).fp = IF it.fp = "" THEN <<it.alertname, OrElse(it.severity, "warning"), "prometheus">>
                             ELSE <<it.fp>>
    BY DEF ItemShape, Raw, ComputeFingerprint
  <2>3. \A t : OrElse(t, "warning") # ""
    BY DEF OrElse
  <2> HIDE DEF v, a
  <2>4. ASSUME NEW n \in DOMAIN items PROVE v.alerts[n] = a(items[n])
    BY <2>1
  <2>5. ASSUME NEW n \in DOMAIN items, NEW k \in DOMAIN items, SameAlert(items[n], items[k])
        PROVE  v.alerts[n].fp = v.alerts[k].fp
    <3>1. PICK it \in ItemShape, jt \in ItemShape : it = items[n] /\ jt = items[k]
      BY <1>0
    <3>2. it.alertname = jt.alertname /\ it.severity = jt.severity /\ it.fp = jt.fp
      BY <2>5, <3>1, SameParts
    <3>3. a(it).fp = a(jt).fp
      BY <2>2, <3>2
    <3> QED BY <2>4, <3>1, <3>3
  <2>6. ASSUME NEW n \in DOMAIN items
        PROVE  v.alerts[n].severity # "" /\ (v.alerts[n].status = "resolved" <=> Ended("prometheus", items[n]))
    BY <1>0, <2>2, <2>3, <2>4 DEF Ended
  <2>7. ItemsMatch("prometheus", items, v)
    BY <1>0, <2>1, <2>5, <2>6, EachMatches
  <2> QED BY <2>7 DEF v
<1> QED BY <1>1, <1>2

(* alertmanager_v2.go *)
LEMMA PostableMatches == ASSUME NEW items \in Bodies PROVE ItemsMatch("prometheus-v2", items, prometheusV2(items))
<1>0. items \in Seq(ItemShape) /\ \A n \in DOMAIN items : items[n] \in ItemShape
  BY BodyTypes
<1> DEFINE v == prometheusV2(items)
<1>1. CASE \E n \in DOMAIN items : items[n].alertname = ""
  <2>1. v = Rejected
    BY <1>1 DEF prometheusV2
  <2> QED BY <1>1, <2>1, RejectedMatches
<1>2. CASE \A n \in DOMAIN items : items[n].alertname # ""
  <2>1. v.ok = TRUE /\ v.alerts = [n \in DOMAIN items |-> postable(items[n])]
    BY <1>2 DEF prometheusV2, Each, Accepted
  <2>2. ASSUME NEW it \in ItemShape
        PROVE  /\ postable(it).alertname = it.alertname /\ postable(it).severity = OrElse(it.severity, "warning")
               /\ postable(it).status = IF it.ends = Unset \/ it.ends > Now THEN "firing" ELSE "resolved"
               /\ postable(it).fp = <<it.alertname, OrElse(it.severity, "warning"), OrElse(it.source, "prometheus")>>
    BY DEF ItemShape, Raw, ComputeFingerprint, postable
  <2>3. \A t : OrElse(t, "warning") # ""
    BY DEF OrElse
  <2> HIDE DEF v
  <2>4. ASSUME NEW n \in DOMAIN items PROVE v.alerts[n] = postable(items[n])
    BY <2>1
  <2>5. ASSUME NEW n \in DOMAIN items, NEW k \in DOMAIN items, SameAlert(items[n], items[k])
        PROVE  v.alerts[n].fp = v.alerts[k].fp
    <3>1. PICK it \in ItemShape, jt \in ItemShape : it = items[n] /\ jt = items[k]
      BY <1>0
    <3>2. it.alertname = jt.alertname /\ it.severity = jt.severity /\ it.source = jt.source
      BY <2>5, <3>1, SameParts
    <3>3. postable(it).fp = postable(jt).fp
      BY <2>2, <3>2
    <3> QED BY <2>4, <3>1, <3>3
  <2>6. ASSUME NEW it \in ItemShape
        PROVE  postable(it).status = "resolved" <=> Ended("prometheus-v2", it)
    <3>1. it.ends \in Nat /\ Now \in Nat
      BY NowAssumption DEF ItemShape
    <3>2. it.ends = Unset \/ it.ends > Now <=> it.ends \notin 1 .. Now
      BY <3>1 DEF Unset
    <3> QED BY <2>2, <3>2 DEF Ended
  <2>7. ASSUME NEW n \in DOMAIN items
        PROVE  /\ v.alerts[n].severity # "" /\ v.alerts[n].alertname # ""
               /\ v.alerts[n].status = "resolved" <=> Ended("prometheus-v2", items[n])
    <3>1. PICK it \in ItemShape : it = items[n]
      BY <1>0
    <3>2. postable(it).severity # "" /\ postable(it).alertname = it.alertname
      BY <2>2, <2>3
    <3>3. it.alertname # ""
      BY <1>2, <3>1
    <3>4. postable(it).status = "resolved" <=> Ended("prometheus-v2", it)
      BY <2>6
    <3> QED BY <2>4, <3>1, <3>2, <3>3, <3>4
  <2>8. ItemsMatch("prometheus-v2", items, v)
    BY <1>0, <2>1, <2>5, <2>7, EachMatches
  <2> QED BY <2>8 DEF v
<1> QED BY <1>1, <1>2

(* For every filter and mapping, every message, every body of any length,  *)
(* every webhook mapping and every slow query: what is made of it is what  *)
(* its filter, its mapping and its form mean (kafka_filter.go,             *)
(* ingestion/*.go).                                                        *)
THEOREM VerdictsAlwaysMatch == Spec => []VerdictsMatch
<1>1. Init => VerdictsMatch
  BY DEF Init, Silence, VerdictsMatch
<1>2. ASSUME VerdictsMatch, UNCHANGED heard PROVE VerdictsMatch'
  BY <1>2 DEF VerdictsMatch
<1>3. ASSUME TakeMessage PROVE VerdictsMatch'
  <2>1. PICK g \in Programs, m \in Payloads :
          heard' = [form |-> "kafka", by |-> g, of |-> m,
                    verdict |-> IF Compiles(g) THEN apply(g, m) ELSE Dropped("not_compiled")]
    BY <1>3 DEF TakeMessage, Hears
  <2>2. /\ heard'.form = "kafka" /\ heard'.by = g /\ heard'.of = m
        /\ Compiles(g) => heard'.verdict = apply(g, m)
    BY <2>1
  <2>3. ~Compiles(heard'.by) \/ VerdictMatches(heard'.by, heard'.of, heard'.verdict)
    BY <2>2, MessagesMatch
  <2> QED BY <2>2, <2>3 DEF VerdictsMatch
<1>4. ASSUME TakeHook PROVE VerdictsMatch'
  <2>1. PICK g \in HookMappings, m \in Payloads :
          heard' = [form |-> "webhook", by |-> g, of |-> m, verdict |-> webhook(g, m)]
    BY <1>4 DEF TakeHook, Hears
  <2>2. heard'.form = "webhook" /\ heard'.by = g /\ heard'.of = m /\ heard'.verdict = webhook(g, m)
    BY <2>1
  <2> QED BY <2>2, HooksMatch DEF VerdictsMatch
<1>5. ASSUME TakeBody PROVE VerdictsMatch'
  <2>1. PICK items \in Bodies :
          \/ heard' = [form |-> "alertmanager", of |-> items, verdict |-> alertmanager(items)]
          \/ heard' = [form |-> "prometheus", of |-> items, verdict |-> prometheus(items)]
          \/ heard' = [form |-> "prometheus-v2", of |-> items, verdict |-> prometheusV2(items)]
    BY <1>5 DEF TakeBody, Hears
  <2>2. /\ heard'.form \in {"alertmanager", "prometheus", "prometheus-v2"}
        /\ ItemsMatch(heard'.form, heard'.of, heard'.verdict)
    <3>1. CASE heard' = [form |-> "alertmanager", of |-> items, verdict |-> alertmanager(items)]
      BY <3>1, AlertmanagerMatches
    <3>2. CASE heard' = [form |-> "prometheus", of |-> items, verdict |-> prometheus(items)]
      BY <3>2, PrometheusMatches
    <3>3. CASE heard' = [form |-> "prometheus-v2", of |-> items, verdict |-> prometheusV2(items)]
      BY <3>3, PostableMatches
    <3> QED BY <2>1, <3>1, <3>2, <3>3
  <2> QED BY <2>2 DEF VerdictsMatch
<1>6. ASSUME TakeQuery PROVE VerdictsMatch'
  <2>1. PICK q \in Queries : heard' = [form |-> "cloud-rds", of |-> q, verdict |-> cloudRDS(q)]
    BY <1>6 DEF TakeQuery, Hears
  <2>2. heard'.form = "cloud-rds" /\ heard'.of = q /\ heard'.verdict = cloudRDS(q)
    BY <2>1
  <2> QED BY <2>2, QueriesMatch DEF VerdictsMatch
<1>7. VerdictsMatch /\ [Next]_pathVars => VerdictsMatch'
  BY <1>2, <1>3, <1>4, <1>5, <1>6 DEF Next, Forms, Intake, Pages, pathVars
<1> QED BY <1>1, <1>7, PTL DEF Spec
=============================================================================
