---------------------------- MODULE LLMProviders ----------------------------
(***************************************************************************)
(* The table of language-model providers and the request handlers that     *)
(* edit it: internal/router/llm_providers.go.  A handler reads the row it  *)
(* is about, then runs one transaction: it clears is_default on the other  *)
(* rows, if it makes a row the default, and writes its own.  The           *)
(* transactions run at PostgreSQL's default level: a statement works on    *)
(* the rows that matched when it started, waits for those that another     *)
(* transaction has locked, and then looks at these once more.              *)
(*                                                                         *)
(* A key is the number under which it was entered; 0 is the mask, or an    *)
(* empty field, which an update takes for "keep the key".                  *)
(***************************************************************************)
EXTENDS Naturals, FiniteSets

CONSTANTS Admins, Providers,
          MaxRequests       \* bound on the requests

ASSUME AdminsAssumption == IsFiniteSet(Providers) /\ MaxRequests \in Nat

VARIABLES llm,        \* llm[p]: the row; one that is not live is absent or soft-deleted
          form,       \* form[a]: the request admin a's handler serves, and the row it has read
          admin,      \* admin[a]: the next statement of that handler
          requests,   \* counts requests and numbers the keys
          crossed     \* history: two handlers have been at work at once

llmVars == <<llm, form, admin, requests, crossed>>

Absent == [live |-> FALSE, default |-> FALSE, enabled |-> FALSE, key |-> 0]
NoForm == [op |-> "none", row |-> CHOOSE p \in Providers : TRUE, old |-> Absent,
           default |-> FALSE, enabled |-> FALSE, key |-> 0, match |-> {}, held |-> {}]

Defaults == {p \in Providers : llm[p].live /\ llm[p].default}
(* What Analyze, Chat and the others ask for before they do anything. *)
Usable == {p \in Defaults : llm[p].enabled}

LLMInit ==
  /\ llm = [p \in Providers |-> Absent]
  /\ form = [a \in Admins |-> NoForm]
  /\ admin = [a \in Admins |-> "idle"]
  /\ requests = 0 /\ crossed = FALSE

(* A request reaches its handler, which validates it and reads the row.    *)
(* One that is refused (no name, no key for a new row, no such row) does   *)
(* nothing and is left out.                                                *)
Submit(a, f, next) ==
  /\ admin[a] = "idle" /\ requests < MaxRequests
  /\ requests' = requests + 1
  /\ form' = [form EXCEPT ![a] = f]
  /\ admin' = [admin EXCEPT ![a] = next]
  /\ crossed' = (crossed \/ \E b \in Admins \ {a} : admin[b] # "idle")
  /\ UNCHANGED llm

createLLMProvider(a) ==
  \E p \in Providers : \E default, enabled \in BOOLEAN :
    /\ llm[p] = Absent /\ \A b \in Admins : form[b].row # p \/ admin[b] = "idle"
    /\ Submit(a, [NoForm EXCEPT !.op = "create", !.row = p, !.default = default,
                                !.enabled = enabled, !.key = requests + 1],
              IF default THEN "match" ELSE "write")

updateLLMProvider(a) ==
  \E p \in Providers : \E default, enabled \in BOOLEAN : \E key \in {0, requests + 1} :
    /\ llm[p].live
    /\ Submit(a, [NoForm EXCEPT !.op = "update", !.row = p, !.old = llm[p],
                                !.default = default, !.enabled = enabled, !.key = key],
              IF default /\ ~llm[p].default THEN "match" ELSE "write")

(* Mutant: set-default does not clear the others. *)
setDefaultLLMProvider_NoClear(a) ==
  \E p \in Providers :
    /\ llm[p].live
    /\ Submit(a, [NoForm EXCEPT !.op = "default", !.row = p, !.old = llm[p]], "write")

setDefaultLLMProvider(a) ==
  \E p \in Providers :
    /\ llm[p].live
    /\ Submit(a, [NoForm EXCEPT !.op = "default", !.row = p, !.old = llm[p]], "match")

Locked(a, p) == \E b \in Admins \ {a} : p \in form[b].held

deleteLLMProvider(a) ==
  /\ admin[a] = "idle" /\ requests < MaxRequests
  /\ requests' = requests + 1
  /\ \E p \in Providers :
       /\ llm[p].live /\ ~Locked(a, p)
       /\ llm' = [llm EXCEPT ![p].live = FALSE]
  /\ crossed' = (crossed \/ \E b \in Admins \ {a} : admin[b] # "idle")
  /\ UNCHANGED <<form, admin>>

-----------------------------------------------------------------------------
(* The transaction. *)

(* UPDATE ... SET is_default = false WHERE is_default AND id <> ?: the rows *)
(* that match now.                                                         *)
MatchDefaults(a) ==
  /\ admin[a] = "match"
  /\ form' = [form EXCEPT ![a].match = Defaults \ {form[a].row}]
  /\ admin' = [admin EXCEPT ![a] = "clear"]
  /\ UNCHANGED <<llm, requests, crossed>>

(* None of them is locked any more, and those that still match are cleared *)
(* and stay locked.                                                        *)
ClearDefaults(a) ==
  /\ admin[a] = "clear"
  /\ \A p \in form[a].match : ~Locked(a, p)
  /\ form' = [form EXCEPT ![a].held = form[a].match \cap Defaults]
  /\ admin' = [admin EXCEPT ![a] = "write"]
  /\ UNCHANGED <<llm, requests, crossed>>

(* The row as the handler leaves it.  The column's default makes gorm's    *)
(* Create enable every new row.  Save of a row that has been deleted       *)
(* meanwhile inserts it again; Updates of one does nothing.                *)
Written(a) ==
  LET f == form[a]  now == llm[f.row] IN
  CASE f.op = "create"  -> [live |-> TRUE, default |-> f.default, enabled |-> TRUE, key |-> f.key]
    [] f.op = "update"  -> [live |-> TRUE, default |-> f.default,
                            enabled |-> f.enabled \/ ~now.live,
                            key |-> IF f.key = 0 THEN f.old.key ELSE f.key]
    [] f.op = "default" -> IF now.live THEN [now EXCEPT !.default = TRUE, !.enabled = TRUE]
                                       ELSE now

WriteRow(a) ==
  /\ admin[a] = "write" /\ ~Locked(a, form[a].row)
  /\ llm' = [p \in Providers |->
               IF p = form[a].row THEN Written(a)
               ELSE IF p \in form[a].held THEN [llm[p] EXCEPT !.default = FALSE]
               ELSE llm[p]]
  /\ form' = [form EXCEPT ![a] = NoForm]
  /\ admin' = [admin EXCEPT ![a] = "idle"]
  /\ UNCHANGED <<requests, crossed>>

(* A transaction that fails (two wait for each other, the client has gone, *)
(* the connection breaks) is rolled back.                                  *)
RollBack(a) ==
  /\ admin[a] \in {"match", "clear", "write"}
  /\ form' = [form EXCEPT ![a] = NoForm]
  /\ admin' = [admin EXCEPT ![a] = "idle"]
  /\ UNCHANGED <<llm, requests, crossed>>

LLMNext ==
  \E a \in Admins :
    \/ createLLMProvider(a) \/ updateLLMProvider(a)
    \/ setDefaultLLMProvider(a) \/ deleteLLMProvider(a)
    \/ MatchDefaults(a) \/ ClearDefaults(a) \/ WriteRow(a) \/ RollBack(a)

LLMSpec == LLMInit /\ [][LLMNext]_llmVars

-----------------------------------------------------------------------------
LLMTypeOK ==
  /\ llm \in [Providers -> [live : BOOLEAN, default : BOOLEAN, enabled : BOOLEAN,
                            key : 0 .. MaxRequests]]
  /\ admin \in [Admins -> {"idle", "match", "clear", "write"}]
  /\ \A a \in Admins : form[a].held \subseteq form[a].match
  /\ requests \in 0 .. MaxRequests

(* llm_providers.go promises "At most one row may have is_default=true"    *)
(* (lines 19-20).                                                          *)
OneDefault == Cardinality(Defaults) <= 1

(* It keeps the promise as long as requests come one at a time; the swap   *)
(* itself is not what makes it atomic.  Then, too, a key that was entered  *)
(* is replaced only by one entered later: the mask never erases it, nor    *)
(* brings back an old one.                                                 *)
EditedAlone ==
  [][ \/ crossed'
      \/ OneDefault' /\ \A p \in Providers : llm'[p].key >= llm[p].key ]_llmVars
=============================================================================
