---------------------------- MODULE KafkaProgram ----------------------------
(***************************************************************************)
(* What the Kafka consumer makes of a message                              *)
(* (internal/ingestion/kafka_filter.go): a filter, which is an expression, *)
(* and a mapping, whose cells are paths of the message or expressions, are *)
(* compiled once and applied to each message.                              *)
(*                                                                         *)
(* A message is the value it has at each path; a value is one of a few     *)
(* texts, of which some spell "resolved" and some a number.  An expression *)
(* is one call of a helper.                                                *)
(***************************************************************************)
EXTENDS Naturals, Sequences

CONSTANTS Paths,
          Resolves,         \* the texts isResolvedKeyword knows
          number            \* number[v]: of the texts that are numbers

ASSUME NumberAssumption == "" \notin DOMAIN number

Absent == "(absent)"
Placeholders == {"", "-"}   \* ... and "null"

(* A message; bare: some key of it has the name of a helper. *)
Message(at) == [json |-> TRUE, at |-> at, bare |-> FALSE]

Exists(m, p) == m.at[p] # Absent
Text(m, p) == IF Exists(m, p) THEN m.at[p] ELSE ""
Numeric(v) == v \in DOMAIN number
parseFlexibleTime(v) == Numeric(v)      \* the times are numbers
isResolvedKeyword(v) == v \in Resolves

-----------------------------------------------------------------------------
(* Boolean expressions: [fn, path, arg].                                   *)
NoFilter == [fn |-> "none", path |-> CHOOSE p \in Paths : TRUE, arg |-> ""]

(* The helpers, and the comparison of the language itself, to which a      *)
(* missing field is a nil that differs from everything.  eq stands for     *)
(* oneof and regex_match too, gte for gt, lt and lte.                      *)
Holds(f, m) ==
  CASE f.fn = "has" -> Exists(m, f.path)
    [] f.fn = "eq" -> Exists(m, f.path) /\ m.at[f.path] = f.arg
    [] f.fn = "neq" -> Exists(m, f.path) /\ m.at[f.path] # f.arg
    [] f.fn = "gte" -> /\ Numeric(Text(m, f.path)) /\ Numeric(f.arg)
                       /\ number[m.at[f.path]] >= number[f.arg]
    [] f.fn = "not_empty" -> Text(m, f.path) \notin Placeholders
    [] f.fn = "!=" -> Text(m, f.path) # f.arg \/ ~Exists(m, f.path)
    [] OTHER -> FALSE

(* A helper that does not exist compiles; the call fails, as it does when  *)
(* a key of the message shadows the helper.                                *)
Fails(f, m) == f.fn = "typo" \/ (m.bare /\ f.fn \notin {"none", "!="})

-----------------------------------------------------------------------------
(* Cells of the mapping: [kind, paths].                                    *)
NoCell == [kind |-> "none", paths |-> <<>>]
Path(p) == [kind |-> "path", paths |-> <<p>>]
Coalesce(ps) == [kind |-> "coalesce", paths |-> ps]
Failing == [kind |-> "fails", paths |-> <<>>]      \* regex_replace with a bad pattern

(* coalesce takes the first that is not a placeholder. *)
First(m, ps) ==
  LET full == {n \in DOMAIN ps : Text(m, ps[n]) \notin Placeholders} IN
    IF full = {} THEN "" ELSE Text(m, ps[CHOOSE n \in full : \A k \in full : n <= k])

evalField(c, m) ==
  CASE c.kind = "path" -> Text(m, c.paths[1])
    [] c.kind = "coalesce" -> First(m, c.paths)
    [] OTHER -> ""

Broken(c) == c.kind = "fails"

(* A program compiles if the two cells that every alert needs are there. *)
Compiles(g) == g.alertname.kind # "none" /\ g.severity.kind # "none"

Dropped(reason) == [keep |-> FALSE, reason |-> reason, status |-> "", ended |-> FALSE, severity |-> "",
                    noted |-> FALSE, fp |-> <<>>]

(* Mutant: an expression that fails ends the alert. *)
resolved_OnFailure(g, m) ==
  \/ isResolvedKeyword(evalField(g.status, m))
  \/ g.resolvedWhen.fn # "none" /\ (Fails(g.resolvedWhen, m) \/ Holds(g.resolvedWhen, m))

(* The status cell decides, then the expression, whose failure is no.      *)
resolved(g, m) ==
  \/ isResolvedKeyword(evalField(g.status, m))
  \/ g.resolvedWhen.fn # "none" /\ ~Fails(g.resolvedWhen, m) /\ Holds(g.resolvedWhen, m)

(* Without a fingerprint of its own the alert gets that of its labels,     *)
(* which the cells of the mapping may replace.                             *)
Labels(g, m) == <<evalField(g.alertname, m), evalField(g.severity, m), evalField(g.label, m)>>
fingerprint(g, m) ==
  IF evalField(g.fingerprint, m) = "" THEN Labels(g, m) ELSE <<evalField(g.fingerprint, m)>>

(* The stages in their order; the first that fails gives the reason. *)
apply(g, m) ==
  IF ~m.json THEN Dropped("bad_json")
  ELSE IF g.filter.fn # "none" /\ Fails(g.filter, m) THEN Dropped("filter_error")
  ELSE IF g.filter.fn # "none" /\ ~Holds(g.filter, m) THEN Dropped("filter_false")
  ELSE IF Broken(g.alertname) \/ Broken(g.severity) THEN Dropped("mapping_error")
  ELSE IF evalField(g.alertname, m) = "" THEN Dropped("missing_alertname")
  ELSE IF evalField(g.severity, m) = "" THEN Dropped("missing_severity")
  ELSE IF \E c \in {g.label, g.note, g.starts, g.ends, g.status, g.fingerprint} : Broken(c)
       THEN Dropped("mapping_error")
  ELSE [keep |-> TRUE, reason |-> "", status |-> IF resolved(g, m) THEN "resolved" ELSE "firing",
        ended |-> parseFlexibleTime(evalField(g.ends, m)) \/ resolved(g, m),
        severity |-> evalField(g.severity, m),
        noted |-> g.filter.fn # "none", fp |-> fingerprint(g, m)]

-----------------------------------------------------------------------------
(* kafka_filter.go:27-47, against the helpers by name: what is missing     *)
(* passes no helper, and only the comparison of the language lets it pass. *)
Strict(f, m) ==
  \/ f.fn = "none"
  \/ f.fn = "!=" /\ m.at[f.path] # f.arg
  \/ /\ f.fn \in {"has", "eq", "neq", "gte", "not_empty"} /\ ~m.bare /\ m.at[f.path] # Absent
     /\ f.fn = "eq" => m.at[f.path] = f.arg
     /\ f.fn = "neq" => m.at[f.path] # f.arg
     /\ f.fn = "not_empty" => m.at[f.path] \notin Placeholders
     /\ f.fn = "gte" => Numeric(m.at[f.path]) /\ Numeric(f.arg) /\ number[m.at[f.path]] >= number[f.arg]

(* A message becomes an alert exactly if the strict filter lets it through *)
(* and it can be named and graded; the alert is over exactly if the status *)
(* or the expression says so, and then it has an end; and the reason of a  *)
(* drop is one that applies.                                               *)
VerdictMatches(g, m, v) ==
  /\ v.keep <=> /\ m.json /\ Strict(g.filter, m)
                /\ \A c \in {g.alertname, g.severity} : ~Broken(c) /\ evalField(c, m) # ""
                /\ \A c \in {g.label, g.note, g.starts, g.ends, g.status, g.fingerprint} : ~Broken(c)
  /\ v.keep => /\ v.status = "resolved" => v.ended
               /\ v.status = "resolved" <=> \/ isResolvedKeyword(evalField(g.status, m))
                                            \/ g.resolvedWhen.fn # "none" /\ Strict(g.resolvedWhen, m)
               /\ v.fp \notin {<<>>, <<"">>}
  /\ v.reason = "filter_false" => m.json /\ ~Strict(g.filter, m)
  /\ v.reason = "missing_alertname" => evalField(g.alertname, m) = ""
  /\ v.reason = "missing_severity" => evalField(g.severity, m) = "" /\ evalField(g.alertname, m) # ""
=============================================================================
