----------------------------- MODULE DataSources -----------------------------
(***************************************************************************)
(* The registry of data sources: the rows of data_sources and the handlers *)
(* that edit them (internal/router/data_sources.go), each one transaction  *)
(* and then a notification.  A row keeps its kind, whether it is enabled   *)
(* and the default of its kind, its endpoint and settings as one value     *)
(* (cfg), and whether it has a secret.  Deleted rows stay in the table.    *)
(*                                                                         *)
(* The transactions run under READ COMMITTED: the rows that one clears are *)
(* locked from then on, and those that appear later it does not see.       *)
(***************************************************************************)
EXTENDS Naturals, FiniteSets, Sequences

CONSTANTS Servers,          \* the replicas that serve the requests
          Operators,        \* the administrators' pages
          MaxSources,       \* bound on the rows
          Configs,
          needsSecret,      \* the configs that name a mechanism which needs a password
          Forms             \* what the pages may send

Kinds == {"kafka", "k8s"}

ASSUME DataSourcesAssumption ==
  /\ MaxSources \in Nat /\ needsSecret \subseteq Configs
  /\ Forms \subseteq [kind : Kinds, enabled : BOOLEAN, default : BOOLEAN, cfg : Configs, secret : BOOLEAN]
  /\ Forms # {}

VARIABLES row,        \* row[s]: a row of data_sources
          desk        \* desk[a]: the request of a, and what its transaction has seen

sourceVars == <<row, desk>>

Sources == 1 .. MaxSources
AnyForm == CHOOSE f \in Forms : TRUE
Row(state, f) == [state |-> state, kind |-> f.kind, enabled |-> f.enabled, default |-> f.default,
                  cfg |-> f.cfg, secret |-> f.secret]
Free == [state |-> "free", kind |-> "kafka", enabled |-> FALSE, default |-> FALSE,
         cfg |-> CHOOSE c \in Configs : TRUE, secret |-> FALSE]
Idle == [at |-> "idle", op |-> "none", id |-> 0, form |-> AnyForm, matched |-> {},
         was |-> Free, overlapped |-> FALSE, on |-> CHOOSE r \in Servers : TRUE]

SourcesInit ==
  /\ row = [s \in Sources |-> Free]
  /\ desk = [a \in Operators |-> Idle]

Live(s) == row[s].state = "live"
Defaults(k) == {s \in Sources : Live(s) /\ row[s].kind = k /\ row[s].default}
Resting(a) == desk[a].at \in {"idle", "refused"}
Unlocked(a, S) == \A b \in Operators \ {a} : desk[b].at = "begun" => desk[b].matched \cap S = {}

(* The handler has validated its form and its transaction has cleared the  *)
(* default of other rows, if it does.                                      *)
Begin(a, r, op, s, f, matched) ==
  /\ Resting(a) /\ Unlocked(a, matched)
  /\ desk' = [desk EXCEPT ![a] = [at |-> "begun", op |-> op, id |-> s, form |-> f, matched |-> matched,
                 was |-> IF s = 0 THEN Free ELSE row[s], overlapped |-> FALSE, on |-> r]]
  /\ UNCHANGED row

(* requireSecretsForKind: a source is not created without the password it  *)
(* needs.                                                                  *)
SecretsPresent(f) == f.cfg \in needsSecret => f.secret

createSource(a, r, f) ==
  /\ \E s \in Sources : row[s].state = "free"
  /\ SecretsPresent(f)
  /\ Begin(a, r, "create", 0, f, IF f.default THEN Defaults(f.kind) ELSE {})

(* materialise: a secret left blank is kept; there is no check that one is *)
(* there.  The others are cleared only if this row was not a default yet.  *)
updateSource(a, r, s, f) ==
  /\ Live(s)
  /\ Begin(a, r, "update", s, [f EXCEPT !.secret = @ \/ row[s].secret],
           IF f.default /\ ~row[s].default THEN Defaults(f.kind) \ {s} ELSE {})

(* Mutant: the others keep their default. *)
setDefaultSource_KeepsOthers(a, r, s) ==
  /\ Live(s)
  /\ Begin(a, r, "default", s, AnyForm, {})

setDefaultSource(a, r, s) ==
  /\ Live(s)
  /\ Begin(a, r, "default", s, AnyForm, Defaults(row[s].kind) \ {s})

(* A delete only marks the row.  Both statements are over at once.         *)
deleteSource(a, r, s) ==
  /\ Resting(a) /\ Live(s) /\ Unlocked(a, {s})
  /\ row' = [row EXCEPT ![s].state = "deleted"]
  /\ desk' = [b \in Operators |->
       IF b = a THEN [Idle EXCEPT !.at = "committed", !.op = "delete", !.id = s, !.on = r]
       ELSE [desk[b] EXCEPT !.overlapped = TRUE]]

(* What a's last statement writes.  Save inserts the row if it finds none  *)
(* to update, or overwrites the deleted one; Updates does not.             *)
Written(a) ==
  CASE desk[a].op = "default" -> IF Live(desk[a].id)
                                 THEN [row[desk[a].id] EXCEPT !.default = TRUE, !.enabled = TRUE]
                                 ELSE row[desk[a].id]
    [] OTHER -> Row("live", desk[a].form)

Target(a) ==
  IF desk[a].op = "create"
  THEN CHOOSE s \in Sources : row[s].state = "free"
  ELSE desk[a].id

(* The unique index on the kind of the default rows takes deleted rows in. *)
Clashes(a, s) ==
  LET w == Written(a) IN
    /\ w.default
    /\ \E x \in Sources \ (desk[a].matched \cup {s}) :
         row[x].state # "free" /\ row[x].default /\ row[x].kind = w.kind

(* The commit. *)
CommitSource(a) ==
  /\ desk[a].at = "begun"
  /\ desk[a].op = "create" => \E s \in Sources : row[s].state = "free"
  /\ LET s == Target(a) IN
       /\ Unlocked(a, {s}) /\ ~Clashes(a, s)
       /\ row' = [x \in Sources |-> IF x = s THEN Written(a)
                                    ELSE IF x \in desk[a].matched THEN [row[x] EXCEPT !.default = FALSE] ELSE row[x]]
       /\ desk' = [b \in Operators |-> IF b = a THEN [Idle EXCEPT !.at = "committed", !.op = desk[a].op, !.id = s,
                                                                  !.on = desk[a].on]
                                       ELSE [desk[b] EXCEPT !.overlapped = TRUE]]

(* The index refuses, or two handlers wait for each other's row: an error  *)
(* is shown, and nothing has changed.                                      *)
Refuse(a) ==
  /\ desk[a].at = "begun"
  /\ \/ \E b \in Operators \ {a} : /\ desk[b].at = "begun" /\ desk[a].id \in desk[b].matched
                                   /\ desk[b].id \in desk[a].matched
     \/ /\ desk[a].op = "create" => \E s \in Sources : row[s].state = "free"
        /\ Unlocked(a, {Target(a)}) /\ Clashes(a, Target(a))
  /\ desk' = [desk EXCEPT ![a].at = "refused"]
  /\ UNCHANGED row

(* notifyDataSourceEvent is done, whatever came of it. *)
Replied(a) == desk[a].at = "committed" /\ desk' = [desk EXCEPT ![a] = Idle] /\ UNCHANGED row

(* A replica ends: what its handlers had begun is rolled back. *)
DropDesks(r) ==
  /\ desk' = [a \in Operators |-> IF desk[a].on = r /\ ~Resting(a) THEN Idle ELSE desk[a]]
  /\ UNCHANGED row

-----------------------------------------------------------------------------
SourcesTypeOK ==
  /\ \A s \in Sources : row[s].state \in {"free", "live", "deleted"}
  /\ \A k \in Kinds : Cardinality(Defaults(k)) <= 1

(* A handler is refused only if a deleted row still holds the default of   *)
(* the kind, if a row that is already a default is moved to another kind   *)
(* (where updating does not clear), or if another handler has committed    *)
(* since it began, or the two wait for each other.                         *)
RefusalExplained(a) ==
  \/ desk[a].overlapped
  \/ \E b \in Operators \ {a} : desk[b].at = "begun" /\ desk[a].id \in desk[b].matched
  \/ \E x \in Sources : row[x].state = "deleted" /\ row[x].default /\ row[x].kind = Written(a).kind
  \/ desk[a].op = "update" /\ desk[a].was.default /\ desk[a].was.kind # desk[a].form.kind

(* A deleted source comes back only by an update that had read it before.  *)
ReturnExplained(s) ==
  \E a \in Operators : desk[a].at = "begun" /\ desk[a].op = "update" /\ desk[a].id = s /\ desk[a].overlapped

(* data_sources.go: what is asked for in order is done, and stays done.    *)
EditsExplained ==
  [][ /\ \A a \in Operators : desk[a].at = "begun" /\ desk'[a].at = "refused" => RefusalExplained(a)
      /\ \A s \in Sources : row[s].state = "deleted" /\ row'[s].state = "live" => ReturnExplained(s) ]_sourceVars
=============================================================================
