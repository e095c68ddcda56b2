---------------------------- MODULE MCAlertPath ----------------------------
(* One part of the way is looked at at a time. *)
EXTENDS AlertPath, TLC
CONSTANTS p1, p2, q1, q2, g1, c1, c2, m1, m2, a1, a2, k1, k2, k3, k4

Texts == {Absent, "", "-", "resolved", "503", "x"}
MCNumber == "503" :> 503 @@ "400" :> 400
Values(one, two) == p1 :> one @@ p2 :> two
MCPayloads ==
  {Message(Values(one, two)) : one \in Texts, two \in Texts}
  \cup {[Message(Values("x", "503")) EXCEPT !.json = FALSE], [Message(Values("x", "503")) EXCEPT !.bare = TRUE]}

Test(fn, p, arg) == [fn |-> fn, path |-> p, arg |-> arg]
Tests ==
  {NoFilter, Test("typo", p1, "")}
  \cup {Test(fn, p1, "x") : fn \in {"has", "eq", "neq", "not_empty", "!="}} \cup {Test("gte", p1, n) : n \in {"400", "x"}}
Plain == [alertname |-> Path(p1), severity |-> Path(p2), label |-> NoCell, note |-> NoCell, starts |-> NoCell,
          ends |-> NoCell, status |-> NoCell, fingerprint |-> NoCell, filter |-> NoFilter, resolvedWhen |-> NoFilter]
Cells == {NoCell, Path(p2), Coalesce(<<p1, p2>>), Failing}
MCPrograms ==
  {[Plain EXCEPT !.filter = t, !.resolvedWhen = u] : t \in Tests, u \in Tests}
  \cup {[Plain EXCEPT !.alertname = c, !.severity = d] : c \in Cells, d \in Cells}
  \cup {[Plain EXCEPT !.status = c, !.label = d] : c \in Cells, d \in Cells}
  \cup {[Plain EXCEPT !.fingerprint = c, !.ends = d] : c \in Cells, d \in Cells}
  \cup {[Plain EXCEPT !.note = c, !.starts = d] : c \in Cells, d \in Cells}

MCHookMappings ==
  [alertname : {p1}, severity : {NoPath, p2}, default : {"", "warning"}, fingerprint : {NoPath, p2},
   status : {NoPath, p1, p2}, firingWord : {"", "0", "x"}, resolvedWord : {"", "x"}]
MCItems ==
  {Item(n, "", "", st, 1, e, fp) : n \in {"", "disk"}, st \in {"firing", "resolved"}, e \in 0 .. 3, fp \in {"", "own"}}
MCBodies == {<<>>} \cup {<<i>> : i \in MCItems} \cup {<<i, j>> : i \in MCItems, j \in MCItems}
MCQueries == [seconds : {0, 4, 5, 29, 30, 31}, sql : {"s1", "s2"}]

Policy(on, severities, groups, contacts) ==
  [on |-> on, severities |-> severities, groups |-> groups, contacts |-> contacts]
Contact(there, room, email, phone) == [there |-> there, room |-> room, email |-> email, phone |-> phone]
MCBooks ==
  {[route |-> r, routed |-> x, policy |-> q1 :> a @@ q2 :> Policy(TRUE, {"P1"}, {}, {c2}), group |-> g1 :> g,
    contact |-> c1 :> c @@ c2 :> d, provider |-> p] :
     r \in {{}, {q1, q2}}, x \in BOOLEAN,
     a \in {Policy(TRUE, {}, {g1}, {c1}), Policy(TRUE, {"P0"}, {g1}, {}), Policy(FALSE, {}, {g1}, {c1})},
     g \in {{}, {c2}},
     c \in {Contact(TRUE, "ops", TRUE, FALSE), Contact(TRUE, NoRoom, TRUE, TRUE)},
     d \in {Contact(TRUE, "ops", FALSE, FALSE), Contact(TRUE, NoRoom, FALSE, TRUE), Contact(FALSE, "ops", FALSE, FALSE)},
     p \in {{}, {"email", "voice"}}}
MCMessages == m1 :> "P0" @@ m2 :> "P1"

MCSymmetry == Permutations({k1, k2, k3, k4}) \cup Permutations({a1, a2})

VARIABLE focus
mcVars == <<pathVars, focus>>

Nothing == [b \in Bounds |-> 0]
FirstBook == CHOOSE b \in Books : b.routed /\ b.route # {}
MCInit ==
  /\ Init
  /\ \/ focus = "forms" /\ left = [Nothing EXCEPT !["heard"] = 1]
     \/ /\ focus = "intake"
        /\ left \in {[Nothing EXCEPT !["requests"] = 2, !["ticks"] = MaxTime, !["edits"] = 1],
                     [Nothing EXCEPT !["requests"] = 3, !["ticks"] = MaxTime, !["crashes"] = 1],
                     [Nothing EXCEPT !["requests"] = 4, !["ticks"] = MaxTime]}
     \/ focus = "editing" /\ left = [Nothing EXCEPT !["edits"] = 3]
     \/ /\ focus = "pages"
        /\ left \in {[Nothing EXCEPT !["faults"] = 2], [Nothing EXCEPT !["edits"] = 2]}
  /\ \A d \in Deliveries :
       signed[d].created \in (IF focus # "intake" THEN {0} ELSE IF left["requests"] = 4 THEN {MaxTime} ELSE 0 .. 2)
  /\ focus = "pages" \/ book = FirstBook
  /\ LiveHook(1) /\ ((focus = "intake" /\ left["requests"] < 4) \/ hook[1].skew = 1)

MCNext ==
  /\ UNCHANGED focus
  /\ \/ focus = "forms" /\ Forms
     \/ focus = "intake" /\ Intake /\ hook'[2] = FreeHook /\ \E a \in Editors : editing'[a].at = "idle"
     \/ focus = "editing" /\ Intake
     \/ focus = "pages" /\ Pages /\ \E m \in DOMAIN page : page'[m] = Unsent

MCSpec == MCInit /\ [][MCNext]_mcVars
=============================================================================
