------------------------- MODULE ControlPlaneProofs -------------------------
(***************************************************************************)
(* For any number of replicas, files, browsers, tables and pages: whoever  *)
(* is up finds its schema and shares the keys, works by the tables, and    *)
(* shows what is stored, or the gap is accounted for.                      *)
(***************************************************************************)
EXTENDS ControlPlane, SequenceTheorems, FiniteSetTheorems, TLAPS

(* What a step of the deployment is for the start of the processes.        *)
rest == <<schema, config, role, secret, browser, past>>
Comes(r) == At(r, "wired") /\ Goto(r, "up") /\ UNCHANGED rest
Goes(r) == proc' = [proc EXCEPT ![r] = Down] /\ UNCHANGED rest

LEMMA StartMoves ==
  ASSUME [Next]_cpVars
  PROVE  \/ \E r \in Replicas : StartStep(r) \/ ProvidePipeline(r) \/ Comes(r) \/ Goes(r)
         \/ \E b \in Browsers, r \in Replicas : UserStep(b, r)
         \/ UNCHANGED <<rest, proc>>
<1>1. CASE Lifecycle
  <2>1. CASE \E r \in Replicas : Starts(r) \/ ProvidePipeline(r)
    BY <2>1 DEF Starts
  <2>2. CASE \E r \in Replicas : Serve(r) \/ Die(r)
    BY <2>2 DEF Serve, Die, Comes, Goes, rest
  <2>3. CASE \E b \in Browsers, r \in Replicas : UsesKeys(b, r)
    BY <2>3 DEF UsesKeys
  <2> QED BY <1>1, <2>1, <2>2, <2>3 DEF Lifecycle
<1>2. CASE Linking
  BY <1>2 DEF Linking, Dials, Breaks, rest, startVars
<1>3. CASE Registry
  BY <1>3 DEF Registry, EditSource, EndSource, NotifySource, HearSource, Manages, FloorTicks,
              LoadFails, Syncs, rest, restOfStart, startVars
<1>4. CASE Rules
  BY <1>4 DEF Rules, rest, restOfStart, startVars
<1>5. CASE Views
  BY <1>5 DEF Views, rest, restOfStart, startVars
<1>6. CASE UNCHANGED cpVars
  BY <1>6 DEF cpVars, startVars, rest
<1> QED BY <1>1, <1>2, <1>3, <1>4, <1>5, <1>6 DEF Next

-----------------------------------------------------------------------------
(* The schema. *)

Working == Places \ {"down", "retired"}
ProcShape ==
  [at : Places, applied : SUBSET Versions, todo : SUBSET Files, file : Files,
   made : Nat, pair : Nat, jwt : Nat, acl : BOOLEAN, loaded : BOOLEAN]
SchemaShape == [clean : SUBSET Versions, dirty : SUBSET Versions, ran : SUBSET Files]
ConfigShape == [public : Nat, private : Nat, jwt : Nat, initialized : BOOLEAN, keys : Nat]
PastShape == [overlap : BOOLEAN, edited : SUBSET Replicas]
BrowserShape == [Browsers -> [key : Nat, token : Nat]]

StartShape ==
  /\ schema \in SchemaShape /\ config \in ConfigShape /\ role \in BOOLEAN
  /\ past \in PastShape /\ proc \in [Replicas -> ProcShape] /\ browser \in BrowserShape

(* As far as the table can tell, file f has run.                           *)
Done(f) == \E g \in schema.ran : version[g] = version[f] /\ (g = f \/ Shared(f))

(* What a process does not have before it has run, or is in its hands.     *)
Migrating == {"pending", "marked", "executed"}
HasRun(r) ==
  proc[r].at \in Working =>
    /\ \A f \in Files \ proc[r].todo : Done(f) \/ (proc[r].at = "marked" /\ f = proc[r].file)
    /\ proc[r].at = "executed" => proc[r].file \in schema.ran
    /\ proc[r].at \notin Migrating => proc[r].todo = {}

(* What is recorded has run. *)
SchemaInv ==
  /\ \A f \in Files : version[f] \in schema.clean => Done(f)
  /\ \A r \in Replicas : HasRun(r)

(* The record of a process that reads the roles.                           *)
LEMMA ReadRoles ==
  ASSUME NEW p \in ProcShape, NEW acl \in BOOLEAN
  PROVE  [p EXCEPT !.at = "check pair", !.acl = acl, !.loaded = TRUE] \in ProcShape
BY DEF ProcShape, Places

LEMMA ShapeInit == Init => StartShape
<1> SUFFICES ASSUME StartInit PROVE StartShape
  BY DEF Init
<1>1. schema \in SchemaShape
  BY StartupAssumption DEF StartInit, SchemaShape, Versions
<1>2. config \in ConfigShape
  <2>1. \/ config = [public |-> 0, private |-> 0, jwt |-> 0, initialized |-> FALSE, keys |-> 0]
        \/ config = [public |-> 1, private |-> 1, jwt |-> 2, initialized |-> TRUE, keys |-> 2]
    BY DEF StartInit
  <2>2. [public |-> 0, private |-> 0, jwt |-> 0, initialized |-> FALSE, keys |-> 0] \in ConfigShape
    BY DEF ConfigShape
  <2>3. [public |-> 1, private |-> 1, jwt |-> 2, initialized |-> TRUE, keys |-> 2] \in ConfigShape
    BY DEF ConfigShape
  <2> QED BY <2>1, <2>2, <2>3
<1>3. proc \in [Replicas -> ProcShape]
  BY StartupAssumption DEF StartInit, ProcShape, Down, Places, Versions
<1> QED BY <1>1, <1>2, <1>3 DEF StartInit, StartShape, PastShape, BrowserShape

LEMMA GotoShape ==
  ASSUME proc \in [Replicas -> ProcShape], NEW r \in Replicas, NEW at \in Places, Goto(r, at)
  PROVE  proc' \in [Replicas -> ProcShape]
BY DEF Goto, ProcShape

LEMMA ShapeStep == StartShape /\ [Next]_cpVars => StartShape'
<1> SUFFICES ASSUME StartShape, [Next]_cpVars PROVE StartShape'
  OBVIOUS
<1> USE StartupAssumption DEF StartShape
<1>1. ASSUME NEW r \in Replicas, StartStep(r) PROVE StartShape'
  <2>0. proc[r] \in ProcShape
    OBVIOUS
  <2>1. CASE Migrate(r)
    <3>1. proc' \in [Replicas -> ProcShape]
      BY <2>0, <2>1 DEF Migrate, ProcShape, Places, Down, SchemaShape
    <3> QED BY <2>1, <3>1 DEF Migrate
  <2>2. CASE MarkDirty(r)
    <3>1. PICK f \in proc[r].todo :
            /\ proc' = [proc EXCEPT ![r].at = "marked", ![r].file = f, ![r].todo = @ \ {f}]
            /\ schema' = [schema EXCEPT !.clean = @ \ {version[f]}, !.dirty = @ \cup {version[f]}]
      BY <2>2 DEF MarkDirty
    <3>2. f \in Files /\ version[f] \in Versions
      BY <2>0 DEF ProcShape, Versions
    <3>3. proc' \in [Replicas -> ProcShape]
      BY <2>0, <3>1, <3>2 DEF ProcShape, Places
    <3>4. schema' \in SchemaShape
      BY <3>1, <3>2 DEF SchemaShape
    <3> QED BY <2>2, <3>3, <3>4 DEF MarkDirty
  <2>3. CASE Execute(r)
    <3>1. proc' \in [Replicas -> ProcShape]
      BY <2>3, GotoShape DEF Execute, Places
    <3>2. schema' \in SchemaShape
      BY <2>0, <2>3 DEF Execute, SchemaShape, ProcShape
    <3> QED BY <2>3, <3>1, <3>2 DEF Execute
  <2>4. CASE MarkClean(r)
    <3>1. proc' \in [Replicas -> ProcShape]
      BY <2>4, GotoShape DEF MarkClean, Places
    <3>2. version[proc[r].file] \in Versions
      BY <2>0 DEF ProcShape, Versions
    <3>3. schema' \in SchemaShape
      BY <2>4, <3>2 DEF MarkClean, SchemaShape
    <3> QED BY <2>4, <3>1, <3>3 DEF MarkClean
  <2>5. CASE CheckPair(r) \/ CheckInitialized(r)
    <3>1. \/ UNCHANGED <<config, past>> /\ \E at \in Places : Goto(r, at)
          \/ /\ \E at \in Places : proc' = [proc EXCEPT ![r].at = at, ![r].made = config.keys + 1]
             /\ config' = [config EXCEPT !.keys = @ + 1]
             /\ past' = [past EXCEPT !.overlap = @ \/ Overlaps(r)]
      BY <2>5 DEF CheckPair, CheckInitialized, Places
    <3>2. UNCHANGED <<schema, role, browser>>
      BY <2>5 DEF CheckPair, CheckInitialized
    <3>3. CASE UNCHANGED <<config, past>> /\ \E at \in Places : Goto(r, at)
      BY <3>2, <3>3, GotoShape
    <3>4. CASE /\ \E at \in Places : proc' = [proc EXCEPT ![r].at = at, ![r].made = config.keys + 1]
               /\ config' = [config EXCEPT !.keys = @ + 1]
               /\ past' = [past EXCEPT !.overlap = @ \/ Overlaps(r)]
      <4>1. config.keys + 1 \in Nat
        BY DEF ConfigShape
      <4>2. config' \in ConfigShape
        BY <3>4, <4>1 DEF ConfigShape
      <4>3. proc' \in [Replicas -> ProcShape]
        <5>1. PICK at \in Places : proc' = [proc EXCEPT ![r] = [proc[r] EXCEPT !.at = at, !.made = config.keys + 1]]
          BY <3>4
        <5>2. [proc[r] EXCEPT !.at = at, !.made = config.keys + 1] \in ProcShape
          BY <2>0, <4>1 DEF ProcShape
        <5> QED BY <5>1, <5>2
      <4>4. Overlaps(r) \in BOOLEAN
        BY DEF Overlaps
      <4>5. past' \in PastShape
        BY <3>4, <4>4 DEF PastShape
      <4> QED BY <3>2, <4>2, <4>3, <4>5
    <3> QED BY <3>1, <3>3, <3>4
  <2>6. CASE StorePublic(r) \/ StorePrivate(r) \/ StoreJWT(r) \/ MarkInitialized(r)
    <3>1. proc' \in [Replicas -> ProcShape]
      BY <2>6, GotoShape DEF StorePublic, StorePrivate, StoreJWT, MarkInitialized, Places
    <3>2. config' \in ConfigShape
      BY <2>0, <2>6 DEF StorePublic, StorePrivate, StoreJWT, MarkInitialized, ConfigShape, ProcShape
    <3> QED BY <2>6, <3>1, <3>2 DEF StorePublic, StorePrivate, StoreJWT, MarkInitialized
  <2>7. CASE LoadPair(r) \/ LoadJWT(r)
    <3>1. config.private \in Nat /\ config.jwt \in Nat
      BY DEF ConfigShape
    <3>2. CASE LoadPair(r)
      <4>1. proc' = [proc EXCEPT ![r] = [proc[r] EXCEPT !.at = "load jwt", !.pair = config.private]]
        BY <3>2 DEF LoadPair
      <4>2. [proc[r] EXCEPT !.at = "load jwt", !.pair = config.private] \in ProcShape
        BY <2>0, <3>1 DEF ProcShape, Places
      <4> QED BY <3>2, <4>1, <4>2 DEF LoadPair
    <3>3. CASE LoadJWT(r)
      <4>1. proc' = [proc EXCEPT ![r] = [proc[r] EXCEPT !.at = "wired", !.jwt = config.jwt]]
        BY <3>3 DEF LoadJWT
      <4>2. [proc[r] EXCEPT !.at = "wired", !.jwt = config.jwt] \in ProcShape
        BY <2>0, <3>1 DEF ProcShape, Places
      <4> QED BY <3>3, <4>1, <4>2 DEF LoadJWT
    <3> QED BY <2>7, <3>2, <3>3
  <2> QED BY <1>1, <2>1, <2>2, <2>3, <2>4, <2>5, <2>6, <2>7 DEF StartStep
<1>2. ASSUME NEW r \in Replicas, InitRBAC(r) PROVE StartShape'
  <2>1. proc' \in [Replicas -> ProcShape]
    <3>1. CASE proc' = [proc EXCEPT ![r].at = "check pair", ![r].acl = role, ![r].loaded = TRUE]
      <4>1. proc[r] \in ProcShape /\ role \in BOOLEAN
        OBVIOUS
      <4>2. [proc[r] EXCEPT !.at = "check pair", !.acl = role, !.loaded = TRUE] \in ProcShape
        BY <4>1, ReadRoles
      <4> QED BY <3>1, <4>2
    <3>2. CASE proc' = [proc EXCEPT ![r].at = "check pair"]
      BY <3>2, GotoShape DEF Goto, Places
    <3> QED BY <1>2, <3>1, <3>2 DEF InitRBAC
  <2>2. past' \in PastShape
    BY <1>2 DEF InitRBAC, PastShape
  <2> QED BY <1>2, <2>1, <2>2 DEF InitRBAC
<1>3. ASSUME NEW r \in Replicas, Comes(r) \/ Goes(r) PROVE StartShape'
  <2>1. proc' \in [Replicas -> ProcShape]
    <3>1. CASE Comes(r)
      BY <3>1, GotoShape DEF Comes, Places
    <3>2. CASE Goes(r)
      BY <3>2 DEF Goes, ProcShape, Places, Down
    <3> QED BY <1>3, <3>1, <3>2
  <2> QED BY <1>3, <2>1 DEF Comes, Goes, rest
<1>4. ASSUME NEW b \in Browsers, NEW r \in Replicas, UserStep(b, r) PROVE StartShape'
  <2>0. proc[r].pair \in Nat /\ proc[r].jwt \in Nat
    BY DEF ProcShape
  <2>1. browser' \in BrowserShape
    BY <1>4, <2>0 DEF UserStep, GetPublicKey, Login, DecodeClientCipher, UpdateRoleEndpoints, BrowserShape
  <2>2. past' \in PastShape
    BY <1>4 DEF UserStep, GetPublicKey, Login, DecodeClientCipher, UpdateRoleEndpoints, PastShape
  <2> QED BY <1>4, <2>1, <2>2 DEF UserStep, GetPublicKey, Login, DecodeClientCipher, UpdateRoleEndpoints
<1>5. CASE UNCHANGED <<rest, proc>>
  BY <1>5 DEF rest
<1> QED BY <1>1, <1>2, <1>3, <1>4, <1>5, StartMoves DEF ProvidePipeline

(* What the steps of a start, after the migrations, do to the processes.   *)
Others(r) == \A s \in Replicas \ {r} : proc'[s] = proc[s]
Holds(r) == /\ proc'[r].todo = proc[r].todo /\ proc'[r].file = proc[r].file
            /\ proc'[r].acl = proc[r].acl /\ proc'[r].loaded = proc[r].loaded
Keeps(r) == Holds(r) /\ proc'[r].pair = proc[r].pair /\ proc'[r].jwt = proc[r].jwt

LEMMA Gone ==
  ASSUME proc \in [Replicas -> ProcShape], NEW r \in Replicas, NEW at, Goto(r, at)
  PROVE  proc'[r].at = at /\ Keeps(r) /\ proc'[r].made = proc[r].made /\ Others(r)
BY DEF Goto, ProcShape, Keeps, Holds, Others

LEMMA Made ==
  ASSUME proc \in [Replicas -> ProcShape], NEW r \in Replicas, NEW at, NEW n,
         proc' = [proc EXCEPT ![r].at = at, ![r].made = n]
  PROVE  proc'[r].at = at /\ Keeps(r) /\ proc'[r].made = n /\ Others(r)
BY DEF ProcShape, Keeps, Holds, Others

LEMMA Loaded ==
  ASSUME proc \in [Replicas -> ProcShape], NEW r \in Replicas
  PROVE  /\ LoadPair(r) => /\ proc'[r].at = "load jwt" /\ proc'[r].pair = config.private
                            /\ proc'[r].jwt = proc[r].jwt /\ Holds(r) /\ Others(r)
         /\ LoadJWT(r) => /\ proc'[r].at = "wired" /\ proc'[r].jwt = config.jwt
                           /\ proc'[r].pair = proc[r].pair /\ Holds(r) /\ Others(r)
<1>1. CASE LoadPair(r)
  <2>1. proc' = [proc EXCEPT ![r].at = "load jwt", ![r].pair = config.private]
    BY <1>1 DEF LoadPair
  <2>2. /\ proc'[r].at = "load jwt" /\ proc'[r].pair = config.private /\ proc'[r].jwt = proc[r].jwt
        /\ Holds(r) /\ Others(r)
    BY <2>1 DEF ProcShape, Holds, Others
  <2>3. ~LoadJWT(r)
    BY <1>1 DEF LoadPair, LoadJWT, At
  <2> QED BY <2>2, <2>3
<1>2. CASE LoadJWT(r)
  <2>1. proc' = [proc EXCEPT ![r].at = "wired", ![r].jwt = config.jwt]
    BY <1>2 DEF LoadJWT
  <2>2. /\ proc'[r].at = "wired" /\ proc'[r].jwt = config.jwt /\ proc'[r].pair = proc[r].pair
        /\ Holds(r) /\ Others(r)
    BY <2>1 DEF ProcShape, Holds, Others
  <2>3. ~LoadPair(r)
    BY <1>2 DEF LoadPair, LoadJWT, At
  <2> QED BY <2>2, <2>3
<1> QED BY <1>1, <1>2

LEMMA RolesRead ==
  ASSUME proc \in [Replicas -> ProcShape], NEW r \in Replicas, InitRBAC(r)
  PROVE  /\ proc[r].at = "pending" /\ proc'[r].at = "check pair" /\ proc'[r].todo = proc[r].todo
         /\ proc'[r].pair = proc[r].pair /\ proc'[r].jwt = proc[r].jwt /\ Others(r)
         /\ \/ proc'[r].loaded /\ proc'[r].acl = role
            \/ proc'[r].loaded = proc[r].loaded /\ proc'[r].acl = proc[r].acl
<1>1. CASE proc' = [proc EXCEPT ![r].at = "check pair", ![r].acl = role, ![r].loaded = TRUE]
  <2>1. proc'[r] = [proc[r] EXCEPT !.at = "check pair", !.acl = role, !.loaded = TRUE]
    BY <1>1
  <2>2. proc[r] \in ProcShape
    OBVIOUS
  <2> QED BY <1>1, <2>1, <2>2 DEF InitRBAC, At, ProcShape, Others
<1>2. CASE proc' = [proc EXCEPT ![r].at = "check pair"]
  BY <1>2 DEF InitRBAC, At, ProcShape, Others
<1> QED BY <1>1, <1>2 DEF InitRBAC

(* A step that leaves the table alone, and the work of each process, or    *)
(* lets it begin or end.                                                   *)
LEMMA SchemaKept ==
  ASSUME SchemaInv, UNCHANGED schema,
         \A r \in Replicas :
           \/ proc'[r].at \notin Working
           \/ proc'[r] = proc[r]
           \/ /\ proc[r].at \in Working \ {"marked", "executed"} /\ proc[r].todo = {}
              /\ proc'[r].at \in Working \ Migrating /\ proc'[r].todo = {}
  PROVE  SchemaInv'
BY DEF SchemaInv, HasRun, Done, Migrating

LEMMA SchemaStep == StartShape /\ SchemaInv /\ [Next]_cpVars => SchemaInv'
<1> SUFFICES ASSUME StartShape, SchemaInv, [Next]_cpVars PROVE SchemaInv'
  OBVIOUS
<1>0. schema \in SchemaShape /\ proc \in [Replicas -> ProcShape]
  BY DEF StartShape
<1>1. ASSUME NEW r \in Replicas, StartStep(r) PROVE SchemaInv'
  <2>0. /\ proc[r] \in ProcShape /\ proc[r].at \in Places /\ proc[r].todo \subseteq Files
        /\ proc[r].file \in Files /\ HasRun(r)
    BY <1>0 DEF ProcShape, SchemaInv
  <2>1. CASE Migrate(r)
    <3>1. /\ proc'[r].at = "pending" /\ proc'[r].todo = {f \in Files : version[f] \notin schema.clean}
          /\ \A s \in Replicas \ {r} : proc'[s] = proc[s]
      BY <1>0, <2>1 DEF Migrate, Down
    <3>2. HasRun(r)'
      BY <2>1, <3>1 DEF Migrate, HasRun, SchemaInv, Done, Migrating
    <3>3. \A s \in Replicas \ {r} : HasRun(s)'
      <4>1. UNCHANGED schema
        BY <2>1 DEF Migrate
      <4>2. ASSUME NEW s \in Replicas \ {r} PROVE HasRun(s)'
        <5>1. HasRun(s) /\ proc'[s] = proc[s]
          BY <3>1 DEF SchemaInv
        <5> QED BY <4>1, <5>1 DEF HasRun, Done
      <4> QED BY <4>2
    <3> QED BY <2>1, <3>2, <3>3 DEF Migrate, SchemaInv, Done
  <2>2. CASE MarkDirty(r)
    <3>0. PICK f \in proc[r].todo :
            /\ proc' = [proc EXCEPT ![r].at = "marked", ![r].file = f, ![r].todo = @ \ {f}]
            /\ schema' = [schema EXCEPT !.clean = @ \ {version[f]}, !.dirty = @ \cup {version[f]}]
      BY <2>2 DEF MarkDirty
    <3>1. /\ proc' = [proc EXCEPT ![r] = [proc[r] EXCEPT !.at = "marked", !.file = f, !.todo = @ \ {f}]]
          /\ schema' = [schema EXCEPT !.clean = @ \ {version[f]}, !.dirty = @ \cup {version[f]}]
      BY <3>0
    <3>2. schema'.ran = schema.ran /\ schema'.clean \subseteq schema.clean
      <4>1. schema \in SchemaShape
        BY <1>0
      <4>2. schema'.ran = schema.ran /\ schema'.clean = schema.clean \ {version[f]}
        BY <3>1, <4>1 DEF SchemaShape
      <4> QED BY <4>2
    <3>3. /\ proc'[r].at = "marked" /\ proc'[r].file = f /\ proc'[r].todo = proc[r].todo \ {f}
          /\ \A s \in Replicas \ {r} : proc'[s] = proc[s]
      BY <1>0, <2>0, <3>1 DEF ProcShape
    <3>4. proc[r].at = "pending"
      BY <2>2 DEF MarkDirty, At
    <3>5. HasRun(r)'
      BY <2>0, <3>2, <3>3, <3>4 DEF HasRun, Done, Migrating, Working
    <3>6. \A s \in Replicas \ {r} : HasRun(s)'
      BY <3>2, <3>3 DEF HasRun, SchemaInv, Done
    <3> QED BY <3>2, <3>5, <3>6 DEF SchemaInv, Done
  <2>3. CASE Execute(r)
    <3>1. /\ schema'.ran = schema.ran \cup {proc[r].file} /\ schema'.clean = schema.clean
          /\ proc[r].at = "marked"
      BY <1>0, <2>3 DEF Execute, SchemaShape, At
    <3>2. /\ proc'[r].at = "executed" /\ proc'[r].file = proc[r].file /\ proc'[r].todo = proc[r].todo
          /\ \A s \in Replicas \ {r} : proc'[s] = proc[s]
      BY <1>0, <2>0, <2>3 DEF Execute, Goto, ProcShape
    <3>3. \A f \in Files : f = proc[r].file => Done(f)'
      BY <3>1 DEF Done
    <3>4. \A f \in Files : Done(f) => Done(f)'
      BY <3>1 DEF Done
    <3>5. HasRun(r)'
      BY <2>0, <3>1, <3>2, <3>3, <3>4 DEF HasRun, Migrating, Working
    <3>6. \A s \in Replicas \ {r} : HasRun(s)'
      BY <3>1, <3>2, <3>4 DEF HasRun, SchemaInv
    <3> QED BY <3>1, <3>4, <3>5, <3>6 DEF SchemaInv
  <2>4. CASE MarkClean(r)
    <3>1. /\ schema'.ran = schema.ran /\ schema'.clean = schema.clean \cup {version[proc[r].file]}
          /\ proc[r].at = "executed"
      BY <1>0, <2>4 DEF MarkClean, SchemaShape, At
    <3>2. /\ proc'[r].at = "pending" /\ proc'[r].todo = proc[r].todo
          /\ \A s \in Replicas \ {r} : proc'[s] = proc[s]
      BY <1>0, <2>0, <2>4 DEF MarkClean, Goto, ProcShape
    <3>3. proc[r].file \in schema.ran
      BY <2>0, <3>1 DEF HasRun, Working, Places
    <3>4. \A f \in Files : version[f] = version[proc[r].file] => Done(f)'
      BY <2>0, <3>1, <3>3 DEF Done, Shared
    <3>5. \A f \in Files : Done(f) => Done(f)'
      BY <3>1 DEF Done
    <3>6. HasRun(r)'
      BY <2>0, <3>1, <3>2, <3>5 DEF HasRun, Migrating, Working, Places
    <3>7. \A s \in Replicas \ {r} : HasRun(s)'
      BY <3>1, <3>2, <3>5 DEF HasRun, SchemaInv
    <3> QED BY <3>1, <3>4, <3>5, <3>6, <3>7 DEF SchemaInv
  <2>5. CASE ~ (Migrate(r) \/ MarkDirty(r) \/ Execute(r) \/ MarkClean(r))
    <3>1. /\ proc[r].at \in Working \ Migrating /\ UNCHANGED schema
      BY <1>1, <2>0, <2>5 DEF StartStep, CheckPair, StorePublic, StorePrivate, CheckInitialized, StoreJWT,
            MarkInitialized, LoadPair, LoadJWT, At, Working, Migrating, Places
    <3>2. /\ proc'[r].at \in Working \ Migrating /\ proc'[r].todo = proc[r].todo
          /\ \A s \in Replicas \ {r} : proc'[s] = proc[s]
      <4>1. CASE CheckPair(r)
        <5>1. \/ Goto(r, "check initialized")
              \/ proc' = [proc EXCEPT ![r].at = "store public", ![r].made = config.keys + 1]
          BY <4>1 DEF CheckPair
        <5>2. CASE Goto(r, "check initialized")
          <6>1. proc'[r].at = "check initialized" /\ Keeps(r) /\ Others(r)
            BY <1>0, <5>2, Gone
          <6> QED BY <6>1 DEF Keeps, Holds, Others, Working, Migrating, Places
        <5>3. CASE proc' = [proc EXCEPT ![r].at = "store public", ![r].made = config.keys + 1]
          <6>1. proc'[r].at = "store public" /\ Keeps(r) /\ Others(r)
            BY <1>0, <5>3, Made
          <6> QED BY <6>1 DEF Keeps, Holds, Others, Working, Migrating, Places
        <5> QED BY <5>1, <5>2, <5>3
      <4>2. CASE CheckInitialized(r)
        <5>1. \/ Goto(r, "load pair")
              \/ proc' = [proc EXCEPT ![r].at = "store jwt", ![r].made = config.keys + 1]
          BY <4>2 DEF CheckInitialized
        <5>2. CASE Goto(r, "load pair")
          <6>1. proc'[r].at = "load pair" /\ Keeps(r) /\ Others(r)
            BY <1>0, <5>2, Gone
          <6> QED BY <6>1 DEF Keeps, Holds, Others, Working, Migrating, Places
        <5>3. CASE proc' = [proc EXCEPT ![r].at = "store jwt", ![r].made = config.keys + 1]
          <6>1. proc'[r].at = "store jwt" /\ Keeps(r) /\ Others(r)
            BY <1>0, <5>3, Made
          <6> QED BY <6>1 DEF Keeps, Holds, Others, Working, Migrating, Places
        <5> QED BY <5>1, <5>2, <5>3
      <4>3. CASE StorePublic(r) \/ StorePrivate(r) \/ StoreJWT(r) \/ MarkInitialized(r)
        <5>1. PICK at \in Working \ Migrating : Goto(r, at)
          BY <4>3 DEF StorePublic, StorePrivate, StoreJWT, MarkInitialized, Working, Migrating, Places
        <5> QED BY <1>0, <5>1, Gone DEF Keeps, Holds, Others
      <4>4. CASE LoadPair(r) \/ LoadJWT(r)
        BY <1>0, <4>4, Loaded DEF Holds, Others, Working, Migrating, Places
      <4> QED BY <1>1, <2>5, <4>1, <4>2, <4>3, <4>4 DEF StartStep
    <3>3. proc[r].todo = {}
      BY <2>0, <3>1 DEF HasRun
    <3> QED BY <3>1, <3>2, <3>3, SchemaKept DEF Migrating
  <2> QED BY <2>1, <2>2, <2>3, <2>4, <2>5
<1>2. ASSUME NEW r \in Replicas, InitRBAC(r) PROVE SchemaInv'
  <2>1. /\ proc[r].at = "pending" /\ proc[r].todo = {} /\ UNCHANGED schema
    BY <1>2 DEF InitRBAC, At
  <2>2. /\ proc'[r].at = "check pair" /\ proc'[r].todo = proc[r].todo
        /\ \A s \in Replicas \ {r} : proc'[s] = proc[s]
    BY <1>0, <1>2, RolesRead DEF Others
  <2> QED BY <2>1, <2>2, SchemaKept DEF Migrating, Working, Places
<1>3. ASSUME NEW r \in Replicas, Comes(r) PROVE SchemaInv'
  <2>1. /\ proc[r].at = "wired" /\ UNCHANGED schema /\ HasRun(r)
    BY <1>3 DEF Comes, At, rest, SchemaInv
  <2>2. proc[r].todo = {}
    BY <2>1 DEF HasRun, Working, Places, Migrating
  <2>3. /\ proc'[r].at = "up" /\ proc'[r].todo = proc[r].todo
        /\ \A s \in Replicas \ {r} : proc'[s] = proc[s]
    BY <1>0, <1>3 DEF Comes, Goto, ProcShape
  <2> QED BY <2>1, <2>2, <2>3, SchemaKept DEF Migrating, Working, Places
<1>4. ASSUME NEW r \in Replicas, Goes(r) PROVE SchemaInv'
  BY <1>0, <1>4, SchemaKept DEF Goes, Down, rest, Working
<1>5. ASSUME NEW b \in Browsers, NEW r \in Replicas, UserStep(b, r) PROVE SchemaInv'
  BY <1>5, SchemaKept DEF UserStep, GetPublicKey, Login, DecodeClientCipher, UpdateRoleEndpoints
<1>6. CASE UNCHANGED <<rest, proc>>
  BY <1>6, SchemaKept DEF rest
<1> QED BY <1>1, <1>2, <1>3, <1>4, <1>5, <1>6, StartMoves DEF ProvidePipeline

-----------------------------------------------------------------------------
(* The keys.                                                               *)

(* A key that is in use, or in a browser, is the one that is stored, and   *)
(* whoever makes a key is alone and finds none.                            *)
KeyInv(r) ==
  /\ proc[r].at \in KeySteps => proc[r].made # 0 /\ \A s \in Replicas \ {r} : proc[s].at \notin KeySteps
  /\ proc[r].at \in {"store public", "store private"} => config.private = 0
  /\ proc[r].at \in {"store jwt", "mark initialized"} => ~config.initialized
  /\ proc[r].at \in {"load pair", "load jwt", "wired", "up"} => config.initialized
  /\ proc[r].at \in {"load jwt", "wired", "up"} => proc[r].pair # 0
  /\ proc[r].at \in {"wired", "up"} => proc[r].jwt # 0
  /\ proc[r].pair \in {0, config.private}
  /\ proc[r].jwt # 0 => proc[r].jwt = config.jwt /\ config.initialized

BrowserInv(b) ==
  /\ browser[b].key \in {0, config.private}
  /\ browser[b].token # 0 => browser[b].token = config.jwt /\ config.initialized

KeysInv ==
  \/ past.overlap
  \/ /\ secret # "cipher"
     /\ \A r \in Replicas : KeyInv(r)
     /\ \A b \in Browsers : BrowserInv(b)

LEMMA KeysInit == Init => KeysInv
<1> SUFFICES ASSUME StartInit PROVE KeysInv
  BY DEF Init
<1>1. \A r \in Replicas : /\ proc[r].at = "down" /\ proc[r].pair = 0 /\ proc[r].jwt = 0
  BY DEF StartInit, Down
<1>2. \A b \in Browsers : browser[b].key = 0 /\ browser[b].token = 0
  BY DEF StartInit
<1>3. \A r \in Replicas : KeyInv(r)
  BY <1>1 DEF KeyInv, KeySteps
<1>4. \A b \in Browsers : BrowserInv(b)
  BY <1>2 DEF BrowserInv
<1> QED BY <1>3, <1>4 DEF StartInit, KeysInv

(* A process that ends, or begins, has no key. *)
LEMMA KeysDropped ==
  ASSUME KeysInv, NEW r \in Replicas, Others(r), UNCHANGED <<config, secret, browser>>,
         past'.overlap = past.overlap,
         proc'[r].at \notin KeySteps \cup {"load pair", "load jwt", "wired", "up"},
         proc'[r].pair = 0 \/ proc'[r].pair = proc[r].pair,
         proc'[r].jwt = 0 \/ proc'[r].jwt = proc[r].jwt
  PROVE  KeysInv'
<1> SUFFICES ASSUME ~past.overlap PROVE KeysInv'
  BY DEF KeysInv
<1>1. KeyInv(r)'
  <2>1. KeyInv(r)
    BY DEF KeysInv
  <2> QED BY <2>1 DEF KeyInv, KeySteps
<1>2. ASSUME NEW s \in Replicas \ {r} PROVE KeyInv(s)'
  <2>1. KeyInv(s) /\ proc'[s] = proc[s] /\ \A x \in Replicas \ {r} : proc'[x] = proc[x]
    BY DEF KeysInv, Others
  <2> QED BY <2>1 DEF KeyInv
<1>3. \A b \in Browsers : BrowserInv(b)'
  BY DEF KeysInv, BrowserInv
<1> QED BY <1>1, <1>2, <1>3 DEF KeysInv

(* A process that goes on with the keys that are stored. *)
LEMMA KeysHeld ==
  ASSUME KeysInv, NEW r \in Replicas, Others(r), UNCHANGED <<secret, browser>>, past'.overlap = past.overlap,
         config'.private = config.private, config'.jwt = config.jwt,
         config'.initialized = config.initialized \/ (config'.initialized /\ proc[r].at \in KeySteps),
         ~past.overlap => KeyInv(r)',
         proc'[r].at \notin KeySteps
  PROVE  KeysInv'
<1> SUFFICES ASSUME ~past.overlap PROVE KeysInv'
  BY DEF KeysInv
<1>1. config.initialized => config'.initialized
  OBVIOUS
<1>2. ASSUME NEW s \in Replicas \ {r} PROVE KeyInv(s)'
  <2>1. KeyInv(s) /\ KeyInv(r) /\ proc'[s] = proc[s] /\ \A x \in Replicas \ {r} : proc'[x] = proc[x]
    BY DEF KeysInv, Others
  <2>2. proc[s].at \in {"store jwt", "mark initialized"} => ~config'.initialized
    BY <2>1 DEF KeyInv, KeySteps
  <2>3. proc[s].at \in KeySteps =>
          proc[s].made # 0 /\ \A x \in Replicas \ {s} : proc'[x].at \notin KeySteps
    BY <2>1 DEF KeyInv
  <2> QED BY <1>1, <2>1, <2>2, <2>3 DEF KeyInv
<1>3. ASSUME NEW b \in Browsers PROVE BrowserInv(b)'
  <2>1. BrowserInv(b)
    BY DEF KeysInv
  <2> QED BY <1>1, <2>1 DEF BrowserInv
<1> QED BY <1>2, <1>3 DEF KeysInv

LEMMA KeysStep == StartShape /\ KeysInv /\ [Next]_cpVars => KeysInv'
<1> SUFFICES ASSUME StartShape, KeysInv, [Next]_cpVars PROVE KeysInv'
  OBVIOUS
<1>0. /\ config \in ConfigShape /\ proc \in [Replicas -> ProcShape] /\ past \in PastShape
      /\ browser \in BrowserShape
  BY DEF StartShape
<1>1. ASSUME NEW r \in Replicas, StartStep(r) PROVE KeysInv'
  <2>0. proc[r] \in ProcShape /\ UNCHANGED <<secret, browser>>
    BY <1>0, <1>1 DEF StartStep, Migrate, MarkDirty, Execute, MarkClean, CheckPair, StorePublic, StorePrivate,
         CheckInitialized, StoreJWT, MarkInitialized, LoadPair, LoadJWT
  <2>1. CASE Migrate(r)
    <3>1. /\ proc'[r].at = "pending" /\ proc'[r].pair = 0 /\ proc'[r].jwt = 0 /\ Others(r)
      BY <1>0, <2>1 DEF Migrate, Down, Others
    <3> QED BY <2>0, <2>1, <3>1, KeysDropped DEF Migrate, KeySteps
  <2>2. CASE MarkDirty(r)
    <3>1. PICK f \in proc[r].todo :
            proc' = [proc EXCEPT ![r] = [proc[r] EXCEPT !.at = "marked", !.file = f, !.todo = @ \ {f}]]
      BY <2>2 DEF MarkDirty
    <3>2. /\ proc'[r].at = "marked" /\ proc'[r].pair = proc[r].pair /\ proc'[r].jwt = proc[r].jwt /\ Others(r)
      BY <1>0, <2>0, <3>1 DEF Others, ProcShape
    <3> QED BY <2>0, <2>2, <3>2, KeysDropped DEF MarkDirty, KeySteps
  <2>3. CASE Execute(r) \/ MarkClean(r)
    <3>1. PICK at \in {"executed", "pending"} : Goto(r, at)
      BY <2>3 DEF Execute, MarkClean
    <3>2. proc'[r].at = at /\ Keeps(r) /\ Others(r)
      BY <1>0, <3>1, Gone
    <3> QED BY <2>0, <2>3, <3>2, KeysDropped DEF Execute, MarkClean, KeySteps, Keeps
  <2>4. CASE CheckPair(r) /\ config.private # 0
    <3>1. Goto(r, "check initialized") /\ UNCHANGED <<config, past>>
      BY <2>4 DEF CheckPair
    <3>2. proc'[r].at = "check initialized" /\ Keeps(r) /\ Others(r)
      BY <1>0, <3>1, Gone
    <3> QED BY <2>0, <3>1, <3>2, KeysDropped DEF KeySteps, Keeps
  <2>5. CASE CheckPair(r) /\ config.private = 0
    <3>1. /\ proc' = [proc EXCEPT ![r].at = "store public", ![r].made = config.keys + 1]
          /\ config' = [config EXCEPT !.keys = @ + 1]
          /\ past' = [past EXCEPT !.overlap = @ \/ Overlaps(r)]
      BY <2>5 DEF CheckPair
    <3>2. proc'[r].at = "store public" /\ Keeps(r) /\ proc'[r].made = config.keys + 1 /\ Others(r)
      BY <1>0, <3>1, Made
    <3>3. /\ config'.private = config.private /\ config'.jwt = config.jwt
          /\ config'.initialized = config.initialized /\ config.keys \in Nat
      BY <1>0, <3>1 DEF ConfigShape
    <3>4. past'.overlap = (past.overlap \/ Overlaps(r))
      BY <1>0, <3>1 DEF PastShape
    <3>5. CASE ~past'.overlap
      <4>1. /\ \A s \in Replicas \ {r} : proc[s].at \notin KeySteps
            /\ \A s \in Replicas : KeyInv(s)
        BY <3>4, <3>5 DEF KeysInv, Overlaps
      <4>2. KeyInv(r)'
        <5>1. /\ proc[r].pair \in {0, config.private}
              /\ proc[r].jwt # 0 => proc[r].jwt = config.jwt /\ config.initialized
          BY <4>1 DEF KeyInv
        <5>2. proc'[r].made # 0 /\ \A s \in Replicas \ {r} : proc'[s].at \notin KeySteps
          <6>1. config.keys + 1 # 0
            BY <3>3
          <6>2. \A s \in Replicas \ {r} : proc'[s].at \notin KeySteps
            BY <3>2, <4>1 DEF Others
          <6> QED BY <3>2, <6>1, <6>2
        <5> QED BY <2>5, <3>2, <3>3, <5>1, <5>2 DEF KeyInv, Keeps
      <4>3. \A s \in Replicas \ {r} : KeyInv(s)'
        BY <3>2, <3>3, <4>1 DEF KeyInv, Others
      <4> QED BY <2>0, <3>3, <3>4, <3>5, <4>2, <4>3 DEF KeysInv, BrowserInv
    <3> QED BY <3>5 DEF KeysInv
  <2>6. CASE CheckInitialized(r) /\ config.initialized
    <3>1. Goto(r, "load pair") /\ UNCHANGED <<config, past>>
      BY <2>6 DEF CheckInitialized
    <3>2. proc'[r].at = "load pair" /\ Keeps(r) /\ Others(r)
      BY <1>0, <3>1, Gone
    <3>3. ~past.overlap => KeyInv(r)'
      BY <2>6, <3>1, <3>2 DEF KeysInv, KeyInv, KeySteps, Keeps
    <3>4. proc'[r].at \notin KeySteps
      BY <3>2 DEF KeySteps
    <3> QED BY <2>0, <3>1, <3>2, <3>3, <3>4, KeysHeld
  <2>7. CASE CheckInitialized(r) /\ ~config.initialized
    <3>1. /\ proc' = [proc EXCEPT ![r].at = "store jwt", ![r].made = config.keys + 1]
          /\ config' = [config EXCEPT !.keys = @ + 1]
          /\ past' = [past EXCEPT !.overlap = @ \/ Overlaps(r)]
      BY <2>7 DEF CheckInitialized
    <3>2. proc'[r].at = "store jwt" /\ Keeps(r) /\ proc'[r].made = config.keys + 1 /\ Others(r)
      BY <1>0, <3>1, Made
    <3>3. /\ config'.private = config.private /\ config'.jwt = config.jwt
          /\ config'.initialized = config.initialized /\ config.keys \in Nat
      BY <1>0, <3>1 DEF ConfigShape
    <3>4. past'.overlap = (past.overlap \/ Overlaps(r))
      BY <1>0, <3>1 DEF PastShape
    <3>5. CASE ~past'.overlap
      <4>1. /\ \A s \in Replicas \ {r} : proc[s].at \notin KeySteps
            /\ \A s \in Replicas : KeyInv(s)
        BY <3>4, <3>5 DEF KeysInv, Overlaps
      <4>2. KeyInv(r)'
        <5>1. /\ proc[r].pair \in {0, config.private}
              /\ proc[r].jwt # 0 => proc[r].jwt = config.jwt /\ config.initialized
          BY <4>1 DEF KeyInv
        <5>2. proc'[r].made # 0 /\ \A s \in Replicas \ {r} : proc'[s].at \notin KeySteps
          <6>1. config.keys + 1 # 0
            BY <3>3
          <6>2. \A s \in Replicas \ {r} : proc'[s].at \notin KeySteps
            BY <3>2, <4>1 DEF Others
          <6> QED BY <3>2, <6>1, <6>2
        <5> QED BY <2>7, <3>2, <3>3, <5>1, <5>2 DEF KeyInv, Keeps
      <4>3. \A s \in Replicas \ {r} : KeyInv(s)'
        BY <3>2, <3>3, <4>1 DEF KeyInv, Others
      <4> QED BY <2>0, <3>3, <3>4, <3>5, <4>2, <4>3 DEF KeysInv, BrowserInv
    <3> QED BY <3>5 DEF KeysInv
  <2>8. CASE StorePublic(r)
    <3>1. /\ proc[r].at = "store public" /\ Goto(r, "store private") /\ UNCHANGED past
          /\ config' = [config EXCEPT !.public = proc[r].made]
      BY <2>8 DEF StorePublic, At
    <3>2. proc'[r].at = "store private" /\ Keeps(r) /\ proc'[r].made = proc[r].made /\ Others(r)
      BY <1>0, <3>1, Gone
    <3>3. config'.private = config.private /\ config'.jwt = config.jwt /\ config'.initialized = config.initialized
      BY <1>0, <3>1 DEF ConfigShape
    <3>4. CASE ~past.overlap
      <4>1. /\ \A s \in Replicas : KeyInv(s) /\ (s # r => proc[s].at \notin KeySteps)
            /\ secret # "cipher" /\ \A b \in Browsers : BrowserInv(b)
        BY <3>1, <3>4 DEF KeysInv, KeyInv, KeySteps
      <4>2. KeyInv(r)'
        <5>1. KeyInv(r) /\ \A s \in Replicas \ {r} : proc'[s].at \notin KeySteps
          BY <3>2, <4>1 DEF Others
        <5> QED BY <3>1, <3>2, <3>3, <5>1 DEF KeyInv, KeySteps, Keeps
      <4>3. ASSUME NEW s \in Replicas \ {r} PROVE KeyInv(s)'
        <5>1. /\ KeyInv(s) /\ proc[s].at \notin KeySteps /\ proc'[s] = proc[s]
              /\ config'.private = config.private /\ config'.jwt = config.jwt
              /\ config'.initialized = config.initialized
          BY <3>2, <3>3, <4>1 DEF Others
        <5> QED BY <5>1 DEF KeyInv, KeySteps
      <4> QED BY <2>0, <3>3, <4>1, <4>2, <4>3 DEF KeysInv, BrowserInv
    <3> QED BY <3>1, <3>4 DEF KeysInv
  <2>9. CASE StorePrivate(r)
    <3>1. /\ proc[r].at = "store private" /\ Goto(r, "check initialized") /\ UNCHANGED past
          /\ config' = [config EXCEPT !.private = proc[r].made]
      BY <2>9 DEF StorePrivate, At
    <3>2. proc'[r].at = "check initialized" /\ Keeps(r) /\ proc'[r].made = proc[r].made /\ Others(r)
      BY <1>0, <3>1, Gone
    <3>3. config'.private = proc[r].made /\ config'.jwt = config.jwt /\ config'.initialized = config.initialized
      BY <1>0, <3>1 DEF ConfigShape
    <3>4. CASE ~past.overlap
      <4>1. /\ config.private = 0
            /\ \A s \in Replicas : KeyInv(s) /\ proc[s].pair = 0 /\ (s # r => proc[s].at \notin KeySteps)
            /\ \A b \in Browsers : BrowserInv(b) /\ browser[b].key = 0
            /\ secret # "cipher"
        BY <3>1, <3>4 DEF KeysInv, KeyInv, BrowserInv, KeySteps
      <4>2. ASSUME NEW s \in Replicas PROVE KeyInv(s)'
        <5>1. KeyInv(s) /\ KeyInv(r) /\ proc[s].pair = 0 /\ (s # r => proc[s].at \notin KeySteps)
          BY <4>1
        <5>2. CASE s = r
          <6>1. \A x \in Replicas \ {r} : proc'[x].at \notin KeySteps
            BY <3>2, <4>1 DEF Others
          <6> QED BY <3>1, <3>2, <3>3, <5>1, <5>2, <6>1 DEF KeyInv, KeySteps, Keeps
        <5>3. CASE s # r
          <6>1. proc'[s] = proc[s]
            BY <3>2, <5>3 DEF Others
          <6>2. proc[s].at \notin {"store public", "store private", "store jwt", "mark initialized"}
            BY <5>1, <5>3 DEF KeySteps
          <6> QED BY <3>3, <5>1, <5>3, <6>1, <6>2 DEF KeyInv
        <5> QED BY <5>2, <5>3
      <4>3. \A b \in Browsers : BrowserInv(b)'
        BY <2>0, <3>3, <4>1 DEF BrowserInv
      <4> QED BY <2>0, <4>1, <4>2, <4>3 DEF KeysInv
    <3> QED BY <3>1, <3>4 DEF KeysInv
  <2>10. CASE StoreJWT(r)
    <3>1. /\ proc[r].at = "store jwt" /\ Goto(r, "mark initialized") /\ UNCHANGED past
          /\ config' = [config EXCEPT !.jwt = proc[r].made]
      BY <2>10 DEF StoreJWT, At
    <3>2. proc'[r].at = "mark initialized" /\ Keeps(r) /\ proc'[r].made = proc[r].made /\ Others(r)
      BY <1>0, <3>1, Gone
    <3>3. config'.private = config.private /\ config'.initialized = config.initialized
      BY <1>0, <3>1 DEF ConfigShape
    <3>4. CASE ~past.overlap
      <4>1. ~config.initialized
        BY <3>1, <3>4 DEF KeysInv, KeyInv
      <4>2. /\ \A s \in Replicas : KeyInv(s) /\ (s # r => proc[s].at \notin KeySteps)
            /\ secret # "cipher" /\ \A b \in Browsers : BrowserInv(b)
        BY <3>1, <3>4 DEF KeysInv, KeyInv, KeySteps
      <4>3. KeyInv(r)'
        <5>1. KeyInv(r) /\ \A s \in Replicas \ {r} : proc'[s].at \notin KeySteps
          BY <3>2, <4>2 DEF Others
        <5> QED BY <3>1, <3>2, <3>3, <4>1, <5>1 DEF KeyInv, KeySteps, Keeps
      <4>4. \A s \in Replicas \ {r} : KeyInv(s)'
        BY <3>2, <3>3, <4>1, <4>2 DEF KeyInv, Others
      <4> QED BY <2>0, <3>3, <4>1, <4>2, <4>3, <4>4 DEF KeysInv, BrowserInv
    <3> QED BY <3>1, <3>4 DEF KeysInv
  <2>11. CASE MarkInitialized(r)
    <3>1. /\ proc[r].at = "mark initialized" /\ Goto(r, "load pair") /\ UNCHANGED past
          /\ config' = [config EXCEPT !.initialized = TRUE]
      BY <2>11 DEF MarkInitialized, At
    <3>2. proc'[r].at = "load pair" /\ Keeps(r) /\ proc'[r].made = proc[r].made /\ Others(r)
      BY <1>0, <3>1, Gone
    <3>3. config'.private = config.private /\ config'.jwt = config.jwt /\ config'.initialized
      BY <1>0, <3>1 DEF ConfigShape
    <3>4. ~past.overlap => KeyInv(r)'
      <4> SUFFICES ASSUME ~past.overlap PROVE KeyInv(r)'
        OBVIOUS
      <4>1. KeyInv(r)
        BY DEF KeysInv
      <4> QED BY <3>1, <3>2, <3>3, <4>1 DEF KeyInv, KeySteps, Keeps
    <3>5. proc[r].at \in KeySteps /\ proc'[r].at \notin KeySteps
      BY <3>1, <3>2 DEF KeySteps
    <3> QED BY <2>0, <3>1, <3>2, <3>3, <3>4, <3>5, KeysHeld
  <2>12. CASE LoadPair(r)
    <3>1. /\ proc[r].at = "load pair" /\ config.private # 0 /\ UNCHANGED <<config, past>>
      BY <2>12 DEF LoadPair, At
    <3>2. /\ proc'[r].at = "load jwt" /\ proc'[r].pair = config.private /\ proc'[r].jwt = proc[r].jwt /\ Others(r)
      BY <1>0, <2>12, Loaded
    <3>3. ~past.overlap => KeyInv(r)'
      <4> SUFFICES ASSUME ~past.overlap PROVE KeyInv(r)'
        OBVIOUS
      <4>1. KeyInv(r)
        BY DEF KeysInv
      <4> QED BY <3>1, <3>2, <4>1 DEF KeyInv, KeySteps
    <3>4. proc'[r].at \notin KeySteps
      BY <3>2 DEF KeySteps
    <3> QED BY <2>0, <3>1, <3>2, <3>3, <3>4, KeysHeld
  <2>13. CASE LoadJWT(r)
    <3>1. /\ proc[r].at = "load jwt" /\ config.jwt # 0 /\ UNCHANGED <<config, past>>
      BY <2>13 DEF LoadJWT, At
    <3>2. /\ proc'[r].at = "wired" /\ proc'[r].jwt = config.jwt /\ proc'[r].pair = proc[r].pair /\ Others(r)
      BY <1>0, <2>13, Loaded
    <3>3. ~past.overlap => KeyInv(r)'
      <4> SUFFICES ASSUME ~past.overlap PROVE KeyInv(r)'
        OBVIOUS
      <4>1. KeyInv(r)
        BY DEF KeysInv
      <4> QED BY <3>1, <3>2, <4>1 DEF KeyInv, KeySteps
    <3>4. proc'[r].at \notin KeySteps
      BY <3>2 DEF KeySteps
    <3> QED BY <2>0, <3>1, <3>2, <3>3, <3>4, KeysHeld
  <2> QED BY <1>1, <2>1, <2>2, <2>3, <2>4, <2>5, <2>6, <2>7, <2>8, <2>9, <2>10, <2>11, <2>12, <2>13 DEF StartStep
<1>2. ASSUME NEW r \in Replicas, InitRBAC(r) PROVE KeysInv'
  <2>1. past'.overlap = past.overlap
    BY <1>0, <1>2 DEF InitRBAC, PastShape
  <2>2. UNCHANGED <<config, secret, browser>>
    BY <1>2 DEF InitRBAC
  <2>3. /\ proc'[r].at = "check pair" /\ proc'[r].pair = proc[r].pair /\ proc'[r].jwt = proc[r].jwt /\ Others(r)
    BY <1>0, <1>2, RolesRead
  <2> QED BY <2>1, <2>2, <2>3, KeysDropped DEF KeySteps
<1>3. ASSUME NEW r \in Replicas, Comes(r) PROVE KeysInv'
  <2>1. proc'[r].at = "up" /\ Keeps(r) /\ Others(r)
    BY <1>0, <1>3, Gone DEF Comes
  <2>2. proc[r].at = "wired" /\ UNCHANGED <<config, secret, browser, past>>
    BY <1>3 DEF Comes, At, rest
  <2>3. ~past.overlap => KeyInv(r)'
    <3> SUFFICES ASSUME ~past.overlap PROVE KeyInv(r)'
      OBVIOUS
    <3>1. KeyInv(r)
      BY DEF KeysInv
    <3> QED BY <2>1, <2>2, <3>1 DEF KeyInv, KeySteps, Keeps
  <2>4. proc'[r].at \notin KeySteps
    BY <2>1 DEF KeySteps
  <2> QED BY <2>1, <2>2, <2>3, <2>4, KeysHeld
<1>4. ASSUME NEW r \in Replicas, Goes(r) PROVE KeysInv'
  <2>1. proc'[r].at = "down" /\ proc'[r].pair = 0 /\ proc'[r].jwt = 0 /\ Others(r)
    BY <1>0, <1>4 DEF Goes, Down, Others
  <2> QED BY <1>4, <2>1, KeysDropped DEF Goes, rest, KeySteps
<1>5. ASSUME NEW b \in Browsers, NEW r \in Replicas, UserStep(b, r) PROVE KeysInv'
  <2>1. UNCHANGED <<config, proc>> /\ past'.overlap = past.overlap
    BY <1>0, <1>5 DEF UserStep, GetPublicKey, Login, DecodeClientCipher, UpdateRoleEndpoints, PastShape
  <2>2. SUFFICES ASSUME ~past.overlap PROVE KeysInv'
    BY <2>1 DEF KeysInv
  <2>3. /\ \A s \in Replicas : KeyInv(s)'
        /\ proc[r].at = "up" /\ proc[r].pair = config.private /\ proc[r].pair # 0
        /\ proc[r].jwt = config.jwt /\ config.initialized
    BY <1>5, <2>1, <2>2 DEF UserStep, GetPublicKey, Login, DecodeClientCipher, UpdateRoleEndpoints, Authenticated,
         Up, At, KeysInv, KeyInv
  <2>4. CASE GetPublicKey(b, r) \/ Login(b, r)
    <3>1. \A x \in Browsers : BrowserInv(x)'
      BY <1>0, <2>1, <2>2, <2>3, <2>4 DEF GetPublicKey, Login, BrowserShape, BrowserInv, KeysInv
    <3> QED BY <2>1, <2>2, <2>3, <2>4, <3>1 DEF GetPublicKey, Login, KeysInv
  <2>5. CASE DecodeClientCipher(b, r)
    <3>1. browser[b].key = proc[r].pair
      BY <2>2, <2>3, <2>5 DEF DecodeClientCipher, KeysInv, BrowserInv
    <3> QED BY <2>1, <2>2, <2>3, <2>5, <3>1 DEF DecodeClientCipher, KeysInv, BrowserInv
  <2>6. CASE UpdateRoleEndpoints(b, r)
    BY <2>1, <2>2, <2>3, <2>6 DEF UpdateRoleEndpoints, KeysInv, BrowserInv
  <2> QED BY <1>5, <2>4, <2>5, <2>6 DEF UserStep
<1>6. CASE UNCHANGED <<rest, proc>>
  BY <1>6 DEF rest, KeysInv, KeyInv, BrowserInv
<1> QED BY <1>1, <1>2, <1>3, <1>4, <1>5, <1>6, StartMoves DEF ProvidePipeline

THEOREM StartInvariant == Spec => [](StartShape /\ SchemaInv /\ KeysInv)
<1> DEFINE Inv == StartShape /\ SchemaInv /\ KeysInv
<1>1. Init => Inv
  <2>1. Init => SchemaInv
    BY StartupAssumption DEF Init, StartInit, SchemaInv, HasRun, Done, Working, Down, Versions
  <2> QED BY <2>1, ShapeInit, KeysInit
<1>2. Inv /\ [Next]_cpVars => Inv'
  BY ShapeStep, SchemaStep, KeysStep
<1> QED BY <1>1, <1>2, PTL DEF Spec

(* A process that is up finds the schema it was built for, through         *)
(* processes that end between a file and its record and through several    *)
(* that migrate at once (Migrate).                                         *)
THEOREM SchemaIsReady == Spec => []SchemaReady
<1>1. SchemaInv => SchemaReady
  BY DEF SchemaInv, HasRun, Done, SchemaReady, Working, Migrating, Places
<1> QED BY <1>1, StartInvariant, PTL

(* Tokens and encrypted secrets are good at every replica and after every  *)
(* restart, unless two replicas made keys at once (Bootstrap).             *)
THEOREM CredentialsAreShared == Spec => []CredentialsCarry
<1>1. StartShape /\ KeysInv => CredentialsCarry
  <2> SUFFICES ASSUME KeysInv, ~past.overlap PROVE CredentialsCarry
    BY DEF CredentialsCarry
  <2>1. ASSUME NEW r \in Replicas, NEW b \in Browsers, Up(r)
        PROVE  browser[b].token \in {0, proc[r].jwt} /\ browser[b].key \in {0, proc[r].pair}
    BY <2>1 DEF KeysInv, KeyInv, BrowserInv, Up, At
  <2> QED BY <2>1 DEF KeysInv, CredentialsCarry
<1> QED BY <1>1, StartInvariant, PTL

-----------------------------------------------------------------------------
(* Notifications.                                                          *)

LinkShape ==
  /\ inbox = [r \in Listeners |-> [c \in Channels |-> inbox[r][c]]]
  /\ missed = [r \in Listeners |-> [c \in Channels |-> missed[r][c]]]

(* What a step does to channel c, seen by the listeners.                   *)
Quiet(c) == \A r \in Listeners : inbox'[r][c] = inbox[r][c] /\ missed'[r][c] = missed[r][c]
Said(c, what) ==
  \A r \in Listeners :
    \/ inbox'[r][c] = Append(inbox[r][c], what) /\ missed'[r][c] = missed[r][c]
    \/ inbox'[r][c] = inbox[r][c] /\ missed'[r][c] = missed[r][c] \cup {what}
Unheard(c, what) ==
  \A r \in Listeners : inbox'[r][c] = inbox[r][c] /\ missed'[r][c] = missed[r][c] \cup what
Cut(c, r) ==
  /\ inbox'[r][c] = <<>> /\ missed'[r][c] = missed[r][c] \cup Lost(r, c)
  /\ \A s \in Listeners \ {r} : inbox'[s][c] = inbox[s][c] /\ missed'[s][c] = missed[s][c]
Taken(c, r) ==
  /\ inbox[r][c] # <<>> /\ inbox'[r][c] = Tail(inbox[r][c])
  /\ \A s \in Listeners \ {r} : inbox'[s][c] = inbox[s][c]

LEMMA Notified ==
  ASSUME LinkShape, NEW c \in Channels, NEW what, Notify(c, what)
  PROVE  LinkShape' /\ Said(c, what) /\ \A d \in Channels \ {c} : Quiet(d)
BY DEF LinkShape, Notify, Said, Quiet

LEMMA NotSent ==
  ASSUME LinkShape, NEW c \in Channels, NEW what, Unsent(c, what)
  PROVE  LinkShape' /\ Unheard(c, what) /\ \A d \in Channels \ {c} : Quiet(d)
BY DEF LinkShape, Unsent, Unheard, Quiet

LEMMA Broken ==
  ASSUME LinkShape, NEW c \in Channels, NEW r \in Listeners, Break(r, c)
  PROVE  LinkShape' /\ Cut(c, r) /\ \A d \in Channels \ {c} : Quiet(d)
<1>1. \A s \in Listeners, d \in Channels :
        inbox'[s][d] = IF s = r /\ d = c THEN <<>> ELSE inbox[s][d]
  BY DEF LinkShape, Break
<1>2. \A s \in Listeners, d \in Channels :
        missed'[s][d] = IF s = r /\ d = c THEN missed[s][d] \cup Lost(r, c) ELSE missed[s][d]
  BY DEF LinkShape, Break
<1>3. inbox' = [s \in Listeners |-> [d \in Channels |-> inbox'[s][d]]]
  BY DEF LinkShape, Break
<1>4. missed' = [s \in Listeners |-> [d \in Channels |-> missed'[s][d]]]
  BY DEF LinkShape, Break
<1> QED BY <1>1, <1>2, <1>3, <1>4 DEF LinkShape, Cut, Quiet

LEMMA WasTaken ==
  ASSUME LinkShape, NEW c \in Channels, NEW r \in Listeners, Take(r, c),
         missed' = missed \/ missed' = [missed EXCEPT ![r][c] = {}]
  PROVE  /\ LinkShape' /\ Taken(c, r) /\ \A d \in Channels \ {c} : Quiet(d)
         /\ \A s \in Listeners \ {r} : missed'[s][c] = missed[s][c]
<1>1. \A s \in Listeners, d \in Channels :
        inbox'[s][d] = IF s = r /\ d = c THEN Tail(inbox[r][c]) ELSE inbox[s][d]
  BY DEF LinkShape, Take
<1>2. \A s \in Listeners, d \in Channels : s # r \/ d # c => missed'[s][d] = missed[s][d]
  BY DEF LinkShape
<1>3. inbox' = [s \in Listeners |-> [d \in Channels |-> inbox'[s][d]]]
  <2> DEFINE t == Tail(inbox[r][c])
  <2>1. inbox' = [inbox EXCEPT ![r] = [inbox[r] EXCEPT ![c] = t]]
    BY DEF Take
  <2> HIDE DEF t
  <2> QED BY <2>1 DEF LinkShape
<1>4. missed' = [s \in Listeners |-> [d \in Channels |-> missed'[s][d]]]
  BY DEF LinkShape
<1> QED BY <1>1, <1>2, <1>3, <1>4 DEF LinkShape, Take, Taken, Quiet

LEMMA NothingHeard ==
  ASSUME LinkShape, UNCHANGED <<inbox, missed>>
  PROVE  LinkShape' /\ \A c \in Channels : Quiet(c)
BY DEF LinkShape, Quiet

-----------------------------------------------------------------------------
(* Rules and roles.                                                        *)

LEMMA TheChannels ==
  /\ Listeners = Replicas /\ Servers = Replicas
  /\ {"pipeline_reload", "data_source_event", "incident_event"} = Channels
BY ControlPlaneAssumption

RulesShape ==
  /\ edition \in [Tables -> Nat]
  /\ telling \in [Listeners -> SUBSET Tables] /\ stays \in [Listeners -> SUBSET Tables]
  /\ engine \in [Listeners -> [has : [Tables -> Nat], todo : SUBSET Tables]]
  /\ \A r \in Listeners : inbox[r]["pipeline_reload"] \in Seq(Tables)

(* A process that has read its rules follows a change of table t, or the   *)
(* change itself is on its way, or was lost.                               *)
HasRead(r) == proc[r].at \in Working \ Migrating
Follows(r, t) ==
  engine[r].has[t] # edition[t] =>
    \/ t \in engine[r].todo \cup stays[r] \cup missed[r]["pipeline_reload"]
    \/ t \in Lost(r, "pipeline_reload")
    \/ \E s \in Listeners : t \in telling[s]
RulesInv == \A r \in Replicas : HasRead(r) => \A t \in Tables : Follows(r, t)

(* A process reads its roles once. *)
RolesInv ==
  \A r \in Replicas : /\ GrantsExplained(r)
                      /\ proc[r].at \notin Working \ Migrating => ~proc[r].loaded

LEMMA StartKeeps ==
  ASSUME StartShape, NEW r \in Replicas, StartStep(r)
  PROVE  /\ Others(r) /\ role' = role /\ past'.edited = past.edited
         /\ \/ ~proc'[r].loaded /\ ~HasRead(r)'
            \/ /\ proc'[r].acl = proc[r].acl /\ proc'[r].loaded = proc[r].loaded
               /\ HasRead(r)' <=> HasRead(r)
<1>0. proc \in [Replicas -> ProcShape] /\ proc[r] \in ProcShape /\ past \in PastShape
  BY DEF StartShape
<1>1. role' = role /\ past'.edited = past.edited
  BY <1>0 DEF StartStep, Migrate, MarkDirty, Execute, MarkClean, CheckPair, StorePublic, StorePrivate,
       CheckInitialized, StoreJWT, MarkInitialized, LoadPair, LoadJWT, PastShape
<1>2. CASE Migrate(r)
  BY <1>0, <1>1, <1>2 DEF Migrate, Down, Others, HasRead, Migrating
<1>3. CASE MarkDirty(r)
  <2>1. PICK f \in proc[r].todo :
          proc' = [proc EXCEPT ![r] = [proc[r] EXCEPT !.at = "marked", !.file = f, !.todo = @ \ {f}]]
    BY <1>3 DEF MarkDirty
  <2>2. /\ proc'[r].at = "marked" /\ proc'[r].acl = proc[r].acl /\ proc'[r].loaded = proc[r].loaded /\ Others(r)
    BY <1>0, <2>1 DEF Others, ProcShape
  <2> QED BY <1>1, <1>3, <2>2 DEF MarkDirty, At, HasRead, Migrating
<1>4. CASE Execute(r) \/ MarkClean(r)
  <2>1. PICK at \in {"executed", "pending"} : Goto(r, at)
    BY <1>4 DEF Execute, MarkClean
  <2>2. proc'[r].at = at /\ Keeps(r) /\ Others(r)
    BY <1>0, <2>1, Gone
  <2> QED BY <1>1, <1>4, <2>2 DEF Execute, MarkClean, At, HasRead, Migrating, Keeps, Holds
<1>5. CASE CheckPair(r) \/ CheckInitialized(r)
  <2>1. proc[r].at \in {"check pair", "check initialized"}
    BY <1>5 DEF CheckPair, CheckInitialized, At
  <2>2. \/ \E at \in {"check initialized", "load pair"} : Goto(r, at)
        \/ \E at \in {"store public", "store jwt"} :
             proc' = [proc EXCEPT ![r].at = at, ![r].made = config.keys + 1]
    BY <1>5 DEF CheckPair, CheckInitialized
  <2>3. proc'[r].at \in {"check initialized", "load pair", "store public", "store jwt"} /\ Keeps(r) /\ Others(r)
    <3>1. ASSUME NEW at \in {"check initialized", "load pair"}, Goto(r, at)
          PROVE  proc'[r].at = at /\ Keeps(r) /\ Others(r)
      BY <1>0, <3>1, Gone
    <3>2. ASSUME NEW at \in {"store public", "store jwt"},
                 proc' = [proc EXCEPT ![r].at = at, ![r].made = config.keys + 1]
          PROVE  proc'[r].at = at /\ Keeps(r) /\ Others(r)
      BY <1>0, <3>2, Made
    <3> QED BY <2>2, <3>1, <3>2
  <2> QED BY <1>1, <2>1, <2>3 DEF HasRead, Working, Migrating, Places, Keeps, Holds
<1>6. CASE StorePublic(r) \/ StorePrivate(r) \/ StoreJWT(r) \/ MarkInitialized(r)
  <2>1. PICK at \in Working \ Migrating : proc[r].at \in Working \ Migrating /\ Goto(r, at)
    BY <1>6 DEF StorePublic, StorePrivate, StoreJWT, MarkInitialized, Working, Migrating, Places, At
  <2>2. proc'[r].at = at /\ Keeps(r) /\ Others(r)
    BY <1>0, <2>1, Gone
  <2> QED BY <1>1, <2>1, <2>2 DEF HasRead, Keeps, Holds
<1>7. CASE LoadPair(r) \/ LoadJWT(r)
  <2>1. proc[r].at \in {"load pair", "load jwt"}
    BY <1>7 DEF LoadPair, LoadJWT, At
  <2>2. proc'[r].at \in {"load jwt", "wired"} /\ Holds(r) /\ Others(r)
    BY <1>0, <1>7, Loaded
  <2> QED BY <1>1, <2>1, <2>2 DEF HasRead, Working, Migrating, Places, Holds
<1> QED BY <1>2, <1>3, <1>4, <1>5, <1>6, <1>7 DEF StartStep

LEMMA Reads ==
  ASSUME StartShape, [Next]_cpVars, NEW r \in Replicas, HasRead(r)'
  PROVE  HasRead(r) \/ ProvidePipeline(r)
<1>0. proc \in [Replicas -> ProcShape]
  BY DEF StartShape
<1>1. ASSUME NEW s \in Replicas, StartStep(s) PROVE HasRead(r)
  BY <1>1, StartKeeps DEF Others, HasRead
<1>2. ASSUME NEW s \in Replicas, ProvidePipeline(s) PROVE HasRead(r) \/ ProvidePipeline(r)
  <2>1. Others(s)
    BY <1>0, <1>2, RolesRead DEF ProvidePipeline
  <2>2. CASE r = s
    BY <1>2, <2>2
  <2>3. CASE r # s
    BY <2>1, <2>3 DEF Others, HasRead
  <2> QED BY <2>2, <2>3
<1>3. ASSUME NEW s \in Replicas, Comes(s) PROVE HasRead(r)
  <2>1. proc[s].at = "wired" /\ Others(s)
    BY <1>0, <1>3, Gone DEF Comes, At
  <2>2. CASE r = s
    BY <2>1, <2>2 DEF HasRead, Working, Migrating, Places
  <2>3. CASE r # s
    BY <2>1, <2>3 DEF Others, HasRead
  <2> QED BY <2>2, <2>3
<1>4. ASSUME NEW s \in Replicas, Goes(s) PROVE HasRead(r)
  BY <1>0, <1>4 DEF Goes, Down, HasRead, Working
<1>5. ASSUME NEW b \in Browsers, NEW s \in Replicas, UserStep(b, s) PROVE HasRead(r)
  BY <1>5 DEF UserStep, GetPublicKey, Login, DecodeClientCipher, UpdateRoleEndpoints, HasRead
<1> QED BY <1>1, <1>2, <1>3, <1>4, <1>5, StartMoves DEF HasRead

LEMMA RolesStep == StartShape /\ RolesInv /\ [Next]_cpVars => RolesInv'
<1> SUFFICES ASSUME StartShape, RolesInv, [Next]_cpVars PROVE RolesInv'
  OBVIOUS
<1>0. proc \in [Replicas -> ProcShape] /\ past \in PastShape
  BY DEF StartShape
<1> USE DEF RolesInv, GrantsExplained, Granted
<1>1. ASSUME NEW r \in Replicas, StartStep(r) PROVE RolesInv'
  BY <1>1, StartKeeps DEF Others, HasRead
<1>2. ASSUME NEW r \in Replicas, InitRBAC(r) PROVE RolesInv'
  <2>1. role' = role /\ past'.edited = past.edited \ {r}
    BY <1>0, <1>2 DEF InitRBAC, PastShape
  <2>2. proc[r].at \notin Working \ Migrating /\ proc'[r].at \in Working \ Migrating
    BY <1>0, <1>2, RolesRead DEF Working, Migrating, Places
  <2>3. /\ Others(r)
        /\ \/ proc'[r].loaded /\ proc'[r].acl = role
           \/ proc'[r].loaded = proc[r].loaded /\ proc'[r].acl = proc[r].acl
    BY <1>0, <1>2, RolesRead
  <2> QED BY <2>1, <2>2, <2>3 DEF Others
<1>3. ASSUME NEW r \in Replicas, Comes(r) PROVE RolesInv'
  <2>1. proc'[r].at = "up" /\ Keeps(r) /\ Others(r)
    BY <1>0, <1>3, Gone DEF Comes
  <2> QED BY <1>3, <2>1 DEF Comes, rest, Keeps, Holds, Others, Working, Migrating, Places
<1>4. ASSUME NEW r \in Replicas, Goes(r) PROVE RolesInv'
  BY <1>0, <1>4 DEF Goes, Down, rest
<1>5. ASSUME NEW b \in Browsers, NEW r \in Replicas, UserStep(b, r) PROVE RolesInv'
  <2>1. proc' = proc
    BY <1>5 DEF UserStep, GetPublicKey, Login, DecodeClientCipher, UpdateRoleEndpoints
  <2>2. (role' = role /\ past' = past) \/ past'.edited = Replicas
    BY <1>0, <1>5 DEF UserStep, GetPublicKey, Login, DecodeClientCipher, UpdateRoleEndpoints, PastShape
  <2> QED BY <2>1, <2>2
<1>6. CASE UNCHANGED <<rest, proc>>
  BY <1>6 DEF rest
<1> QED BY <1>1, <1>2, <1>3, <1>4, <1>5, <1>6, StartMoves DEF ProvidePipeline

(* Where no rule is edited, told, heard or read. *)
LEMMA RulesRest ==
  ASSUME RulesShape, RulesInv, UNCHANGED ruleVars, Quiet("pipeline_reload"),
         \A r \in Replicas : HasRead(r)' => HasRead(r)
  PROVE  RulesShape' /\ RulesInv'
<1>1. RulesShape'
  BY DEF RulesShape, Quiet, ruleVars
<1>2. ASSUME NEW r \in Replicas, NEW t \in Tables, Follows(r, t) PROVE Follows(r, t)'
  BY <1>2, TheChannels DEF Follows, Lost, Quiet, ruleVars
<1> QED BY <1>1, <1>2 DEF RulesInv

LEMMA Appended ==
  ASSUME NEW S, NEW s \in Seq(S), NEW e \in S
  PROVE  /\ Append(s, e) \in Seq(S)
         /\ {Append(s, e)[n] : n \in DOMAIN Append(s, e)} = {s[n] : n \in DOMAIN s} \cup {e}
<1>1. /\ Append(s, e) \in Seq(S) /\ DOMAIN Append(s, e) = 1 .. Len(s) + 1 /\ DOMAIN s = 1 .. Len(s)
      /\ Append(s, e)[Len(s) + 1] = e /\ \A n \in 1 .. Len(s) : Append(s, e)[n] = s[n]
      /\ Len(s) \in Nat
  OBVIOUS
<1>2. 1 .. Len(s) + 1 = (1 .. Len(s)) \cup {Len(s) + 1}
  BY <1>1
<1> QED BY <1>1, <1>2

LEMMA Shortened ==
  ASSUME NEW S, NEW s \in Seq(S), s # <<>>
  PROVE  /\ Tail(s) \in Seq(S) /\ Head(s) \in S
         /\ {s[n] : n \in DOMAIN s} = {Tail(s)[n] : n \in DOMAIN Tail(s)} \cup {Head(s)}
<1>1. /\ Tail(s) \in Seq(S) /\ Head(s) \in S /\ Len(s) \in Nat \ {0} /\ Head(s) = s[1]
      /\ DOMAIN Tail(s) = 1 .. Len(s) - 1 /\ DOMAIN s = 1 .. Len(s)
      /\ \A n \in 1 .. Len(s) - 1 : Tail(s)[n] = s[n + 1]
  OBVIOUS
<1>2. \A n \in 1 .. Len(s) : n = 1 \/ (n - 1 \in 1 .. Len(s) - 1 /\ Tail(s)[n - 1] = s[n])
  BY <1>1
<1>3. \A n \in 1 .. Len(s) - 1 : n + 1 \in 1 .. Len(s)
  BY <1>1
<1>4. {s[n] : n \in DOMAIN s} \subseteq {Tail(s)[n] : n \in DOMAIN Tail(s)} \cup {Head(s)}
  <2> SUFFICES ASSUME NEW n \in 1 .. Len(s)
               PROVE  s[n] = Head(s) \/ \E m \in DOMAIN Tail(s) : s[n] = Tail(s)[m]
    BY <1>1
  <2>1. CASE n = 1
    BY <1>1, <2>1
  <2>2. CASE n # 1
    <3>1. n - 1 \in DOMAIN Tail(s) /\ s[n] = Tail(s)[n - 1]
      BY <1>1, <1>2, <2>2
    <3> QED BY <3>1
  <2> QED BY <2>1, <2>2
<1>5. {Tail(s)[n] : n \in DOMAIN Tail(s)} \cup {Head(s)} \subseteq {s[n] : n \in DOMAIN s}
  BY <1>1, <1>3
<1> QED BY <1>1, <1>4, <1>5

(* What a listener has lost, or may still hear, after a step on its        *)
(* channel.                                                                *)
LEMMA StillSaid ==
  ASSUME NEW c \in Channels, NEW S, NEW what \in S, \A r \in Listeners : inbox[r][c] \in Seq(S), Said(c, what)
  PROVE  \A r \in Listeners : /\ inbox'[r][c] \in Seq(S)
                              /\ Lost(r, c)' \cup missed'[r][c] = Lost(r, c) \cup missed[r][c] \cup {what}
<1> SUFFICES ASSUME NEW r \in Listeners
             PROVE  /\ inbox'[r][c] \in Seq(S)
                    /\ Lost(r, c)' \cup missed'[r][c] = Lost(r, c) \cup missed[r][c] \cup {what}
  OBVIOUS
<1>1. CASE inbox'[r][c] = Append(inbox[r][c], what) /\ missed'[r][c] = missed[r][c]
  <2>0. inbox[r][c] \in Seq(S)
    OBVIOUS
  <2>1. /\ {inbox'[r][c][n] : n \in DOMAIN inbox'[r][c]} = {inbox[r][c][n] : n \in DOMAIN inbox[r][c]} \cup {what}
        /\ inbox'[r][c] \in Seq(S)
    <3> HIDE DEF Lost
    <3> DEFINE s == inbox[r][c]
               t == inbox'[r][c]
    <3>1. s \in Seq(S) /\ t = Append(s, what)
      BY <1>1, <2>0
    <3> HIDE DEF s, t
    <3>2. {t[n] : n \in DOMAIN t} = {s[n] : n \in DOMAIN s} \cup {what} /\ t \in Seq(S)
      BY <3>1, Appended
    <3> QED BY <3>2 DEF s, t
  <2> QED BY <1>1, <2>1 DEF Lost
<1>2. CASE inbox'[r][c] = inbox[r][c] /\ missed'[r][c] = missed[r][c] \cup {what}
  BY <1>2 DEF Lost
<1> QED BY <1>1, <1>2 DEF Said

LEMMA RulesStep == StartShape /\ LinkShape /\ RulesShape /\ RulesInv /\ [Next]_cpVars => LinkShape' /\ RulesShape' /\ RulesInv'
<1> SUFFICES ASSUME StartShape, LinkShape, RulesShape, RulesInv, [Next]_cpVars
             PROVE  LinkShape' /\ RulesShape' /\ RulesInv'
  OBVIOUS
<1> DEFINE c == "pipeline_reload"
<1> USE TheChannels
<1>r. \A r \in Replicas : HasRead(r)' => HasRead(r) \/ ProvidePipeline(r)
  BY Reads
<1>t. /\ edition \in [Tables -> Nat] /\ telling \in [Replicas -> SUBSET Tables] /\ stays \in [Replicas -> SUBSET Tables]
      /\ engine \in [Replicas -> [has : [Tables -> Nat], todo : SUBSET Tables]]
      /\ \A r \in Replicas : inbox[r][c] \in Seq(Tables)
  BY DEF RulesShape
<1>q. ASSUME LinkShape', Quiet(c), UNCHANGED ruleVars, \A r \in Replicas : ~ProvidePipeline(r)
      PROVE  LinkShape' /\ RulesShape' /\ RulesInv'
  BY <1>r, <1>q, RulesRest
<1>p. (\E r \in Replicas : ProvidePipeline(r)) \/ \A r \in Replicas : ~ProvidePipeline(r)
  OBVIOUS
<1>1. ASSUME NEW r \in Replicas, ProvidePipeline(r) PROVE LinkShape' /\ RulesShape' /\ RulesInv'
  <2>1. /\ inbox' = inbox /\ missed' = [missed EXCEPT ![r][c] = {}]
        /\ engine' = [engine EXCEPT ![r] = [has |-> edition, todo |-> {}]]
        /\ stays' = [stays EXCEPT ![r] = {}] /\ UNCHANGED <<edition, telling>>
    BY <1>1 DEF ProvidePipeline
  <2>2. LinkShape' /\ \A s \in Replicas \ {r} : missed'[s] = missed[s]
    <3>1. missed' = [missed EXCEPT ![r] = [missed[r] EXCEPT ![c] = {}]]
      BY <2>1
    <3>2. missed' = [s \in Listeners |-> [d \in Channels |-> missed'[s][d]]]
      <4>1. /\ missed = [s \in Listeners |-> missed[s]]
            /\ \A s \in Listeners : missed[s] = [d \in Channels |-> missed[s][d]]
        BY DEF LinkShape
      <4>2. /\ missed' = [s \in Listeners |-> missed'[s]]
            /\ \A s \in Listeners : missed'[s] = missed[s] \/ missed'[s] = [missed[s] EXCEPT ![c] = {}]
        BY <3>1, <4>1
      <4>3. \A s \in Listeners : missed'[s] = [d \in Channels |-> missed'[s][d]]
        BY <4>1, <4>2
      <4> QED BY <4>2, <4>3
    <3>3. \A s \in Replicas \ {r} : missed'[s] = missed[s]
      BY <3>1 DEF LinkShape
    <3> QED BY <2>1, <3>2, <3>3 DEF LinkShape
  <2>3. RulesShape'
    BY <1>t, <2>1 DEF RulesShape
  <2>4. \A s \in Replicas \ {r} : HasRead(s)' => HasRead(s)
    BY <1>1, RolesRead DEF ProvidePipeline, Others, HasRead, StartShape
  <2>5. ASSUME NEW s \in Replicas, HasRead(s)', NEW t \in Tables PROVE Follows(s, t)'
    <3>1. CASE s = r
      BY <1>t, <2>1, <3>1 DEF Follows
    <3>2. CASE s # r
      <4>1. Follows(s, t)
        BY <2>4, <2>5, <3>2 DEF RulesInv
      <4> QED BY <1>t, <2>1, <2>2, <3>2, <4>1 DEF Follows, Lost
    <3> QED BY <3>1, <3>2
  <2> QED BY <2>2, <2>3, <2>5 DEF RulesInv
<1>2. ASSUME NEW r \in Replicas, Die(r) PROVE LinkShape' /\ RulesShape' /\ RulesInv'
  <2>1. /\ inbox' = [inbox EXCEPT ![r] = [d \in Channels |-> <<>>]]
        /\ missed' = [s \in Replicas |-> [d \in Channels |-> IF s = r THEN {} ELSE missed[s][d] \cup Unsaid(r)[d]]]
        /\ telling' = [telling EXCEPT ![r] = {}] /\ stays' = [stays EXCEPT ![r] = {}]
        /\ engine' = [engine EXCEPT ![r].todo = {}] /\ edition' = edition
        /\ proc' = [proc EXCEPT ![r] = Down]
    BY <1>2 DEF Die
  <2>2. LinkShape'
    <3>1. /\ inbox = [s \in Listeners |-> inbox[s]]
          /\ \A s \in Listeners : inbox[s] = [d \in Channels |-> inbox[s][d]]
      BY DEF LinkShape
    <3>2. /\ inbox' = [s \in Listeners |-> inbox'[s]]
          /\ \A s \in Listeners : inbox'[s] = inbox[s] \/ inbox'[s] = [d \in Channels |-> <<>>]
      BY <2>1, <3>1
    <3>3. \A s \in Listeners : inbox'[s] = [d \in Channels |-> inbox'[s][d]]
      BY <3>1, <3>2
    <3>4. inbox' = [s \in Listeners |-> [d \in Channels |-> inbox'[s][d]]]
      BY <3>2, <3>3
    <3>5. missed' = [s \in Listeners |-> [d \in Channels |-> missed'[s][d]]]
      BY <2>1
    <3> QED BY <3>4, <3>5 DEF LinkShape
  <2>3. /\ inbox'[r][c] = <<>>
        /\ \A s \in Replicas \ {r} : /\ inbox'[s][c] = inbox[s][c]
                                     /\ missed'[s][c] = missed[s][c] \cup telling[r]
    <3>1. inbox = [s \in Listeners |-> inbox[s]]
      BY DEF LinkShape
    <3>2. inbox'[r][c] = <<>> /\ \A s \in Replicas \ {r} : inbox'[s][c] = inbox[s][c]
      BY <2>1, <3>1
    <3>3. Unsaid(r)[c] = telling[r]
      BY DEF Unsaid
    <3>4. \A s \in Replicas \ {r} : missed'[s][c] = missed[s][c] \cup Unsaid(r)[c]
      BY <2>1
    <3> QED BY <3>2, <3>3, <3>4
  <2>4. RulesShape'
    <3>1. engine' \in [Replicas -> [has : [Tables -> Nat], todo : SUBSET Tables]]
      BY <1>t, <2>1
    <3>2. ASSUME NEW s \in Replicas PROVE inbox'[s][c] \in Seq(Tables)
      <4>1. <<>> \in Seq(Tables)
        OBVIOUS
      <4> QED BY <1>t, <2>3, <4>1
    <3> QED BY <1>t, <2>1, <3>1, <3>2 DEF RulesShape
  <2>5. ASSUME NEW s \in Replicas, HasRead(s)', NEW t \in Tables PROVE Follows(s, t)'
    <3>1. s # r /\ HasRead(s)
      BY <2>1, <2>5 DEF HasRead, StartShape, Down, Working, Migrating
    <3>2. Follows(s, t)
      BY <3>1 DEF RulesInv
    <3>3. engine'[s] = engine[s] /\ stays'[s] = stays[s] /\ Lost(s, c)' = Lost(s, c)
      BY <1>t, <2>1, <2>3, <3>1 DEF Lost
    <3>4. \A x \in Replicas : t \in telling[x] => t \in telling'[x] \/ t \in missed'[s][c]
      BY <1>t, <2>1, <2>3, <3>1
    <3> QED BY <2>1, <2>3, <3>1, <3>2, <3>3, <3>4 DEF Follows
  <2> QED BY <2>2, <2>4, <2>5 DEF RulesInv
<1>3. ASSUME NEW r \in Replicas, Breaks(r, c), \A s \in Replicas : ~ProvidePipeline(s)
      PROVE  LinkShape' /\ RulesShape' /\ RulesInv'
  <2>1. LinkShape' /\ Cut(c, r) /\ UNCHANGED ruleVars
    BY <1>3, Broken DEF Breaks
  <2>2. \A s \in Replicas : /\ inbox'[s][c] \in Seq(Tables)
                            /\ Lost(s, c) \cup missed[s][c] = Lost(s, c)' \cup missed'[s][c]
    <3> SUFFICES ASSUME NEW s \in Replicas
                 PROVE  /\ inbox'[s][c] \in Seq(Tables)
                        /\ Lost(s, c) \cup missed[s][c] = Lost(s, c)' \cup missed'[s][c]
      OBVIOUS
    <3>1. CASE s = r
      <4>1. inbox'[s][c] = <<>> /\ missed'[s][c] = missed[s][c] \cup Lost(s, c)
        BY <2>1, <3>1 DEF Cut
      <4>2. <<>> \in Seq(Tables) /\ Lost(s, c)' = {}
        BY <4>1 DEF Lost
      <4> QED BY <4>1, <4>2
    <3>2. CASE s # r
      <4>1. inbox'[s][c] = inbox[s][c] /\ missed'[s][c] = missed[s][c]
        BY <2>1, <3>2 DEF Cut
      <4> QED BY <1>t, <4>1 DEF Lost
    <3> QED BY <3>1, <3>2
  <2>3. RulesShape'
    BY <1>t, <2>1, <2>2 DEF RulesShape, ruleVars
  <2>4. ASSUME NEW s \in Replicas, NEW t \in Tables, Follows(s, t) PROVE Follows(s, t)'
    BY <2>1, <2>2, <2>4 DEF Follows, ruleVars
  <2> QED BY <1>r, <1>3, <2>1, <2>3, <2>4 DEF RulesInv
<1>4. ASSUME NEW r \in Replicas, NEW t \in Tables, EditRule(r, t)
      PROVE  RulesShape' /\ \A s \in Replicas, u \in Tables : Follows(s, u) => Follows(s, u)'
  <2>1. /\ edition' = [edition EXCEPT ![t] = @ + 1] /\ telling' = [telling EXCEPT ![r] = @ \cup {t}]
        /\ UNCHANGED <<engine, stays, inbox, missed>>
    BY <1>4 DEF EditRule, linkVars
  <2>2. RulesShape'
    BY <1>t, <2>1 DEF RulesShape
  <2>3. ASSUME NEW s \in Replicas, NEW u \in Tables, Follows(s, u) PROVE Follows(s, u)'
    <3>1. CASE u = t
      <4>1. t \in telling'[r]
        BY <1>t, <2>1
      <4> QED BY <3>1, <4>1 DEF Follows
    <3>2. CASE u # t
      <4>1. edition'[u] = edition[u] /\ \A x \in Replicas : telling[x] \subseteq telling'[x]
        BY <1>t, <2>1, <3>2
      <4> QED BY <2>1, <2>3, <4>1 DEF Follows, Lost
    <3> QED BY <3>1, <3>2
  <2> QED BY <2>2, <2>3
<1>5. ASSUME SilenceBegins
      PROVE  RulesShape' /\ \A s \in Replicas, u \in Tables : Follows(s, u) => Follows(s, u)'
  <2>0. "silences" \in Tables
    BY RuleReloadAssumption
  <2>1. /\ edition' = [edition EXCEPT !["silences"] = @ + 1]
        /\ stays' = [r \in Listeners |-> stays[r] \cup {"silences"}]
        /\ UNCHANGED <<engine, telling, inbox, missed>>
    BY <1>5 DEF SilenceBegins, linkVars
  <2>2. RulesShape'
    BY <1>t, <2>0, <2>1 DEF RulesShape
  <2>3. ASSUME NEW s \in Replicas, NEW u \in Tables, Follows(s, u) PROVE Follows(s, u)'
    <3>1. stays'[s] = stays[s] \cup {"silences"}
      BY <2>1
    <3>2. u # "silences" => edition'[u] = edition[u]
      BY <1>t, <2>1
    <3> QED BY <2>1, <2>3, <3>1, <3>2 DEF Follows, Lost
  <2> QED BY <2>2, <2>3
<1>6. ASSUME NEW r \in Replicas, NEW t \in Tables, NotifyPipeline(r, t)
      PROVE  /\ LinkShape' /\ RulesShape'
             /\ \A s \in Replicas, u \in Tables : Follows(s, u) => Follows(s, u)'
  <2>1. /\ telling' = [telling EXCEPT ![r] = @ \ {t}] /\ UNCHANGED <<edition, engine, stays>>
        /\ LinkShape' /\ Said(c, t)
    BY <1>6, Notified DEF NotifyPipeline
  <2>2. \A s \in Replicas : /\ inbox'[s][c] \in Seq(Tables)
                            /\ Lost(s, c)' \cup missed'[s][c] = Lost(s, c) \cup missed[s][c] \cup {t}
    BY <1>t, <2>1, StillSaid
  <2>3. RulesShape'
    BY <1>t, <2>1, <2>2 DEF RulesShape
  <2>4. ASSUME NEW s \in Replicas, NEW u \in Tables, Follows(s, u) PROVE Follows(s, u)'
    <3>1. \A x \in Replicas : u \in telling[x] => u \in telling'[x] \/ u = t
      BY <1>t, <2>1
    <3> QED BY <2>1, <2>2, <2>4, <3>1 DEF Follows
  <2> QED BY <2>1, <2>3, <2>4
<1>7. ASSUME NEW r \in Replicas, NEW t \in Tables, NotifyFails(r, t)
      PROVE  /\ LinkShape' /\ RulesShape'
             /\ \A s \in Replicas, u \in Tables : Follows(s, u) => Follows(s, u)'
  <2>1. /\ telling' = [telling EXCEPT ![r] = @ \ {t}] /\ UNCHANGED <<edition, engine, stays>>
        /\ LinkShape' /\ Unheard(c, {t})
    BY <1>7, NotSent DEF NotifyFails
  <2>2. \A s \in Replicas : /\ inbox'[s][c] \in Seq(Tables)
                            /\ Lost(s, c)' = Lost(s, c) /\ missed'[s][c] = missed[s][c] \cup {t}
    BY <1>t, <2>1 DEF Unheard, Lost
  <2>3. RulesShape'
    BY <1>t, <2>1, <2>2 DEF RulesShape
  <2>4. ASSUME NEW s \in Replicas, NEW u \in Tables, Follows(s, u) PROVE Follows(s, u)'
    <3>1. \A x \in Replicas : u \in telling[x] => u \in telling'[x] \/ u = t
      BY <1>t, <2>1
    <3> QED BY <2>1, <2>2, <2>4, <3>1 DEF Follows
  <2> QED BY <2>1, <2>3, <2>4
<1>8. ASSUME NEW r \in Replicas, ReloadRules(r)
      PROVE  /\ LinkShape' /\ RulesShape'
             /\ \A s \in Replicas, u \in Tables : Follows(s, u) => Follows(s, u)'
  <2>1. /\ engine' = [engine EXCEPT ![r].todo = Tables] /\ UNCHANGED <<edition, telling, stays>>
        /\ LinkShape' /\ Taken(c, r) /\ \A s \in Replicas \ {r} : missed'[s][c] = missed[s][c]
    BY <1>8, WasTaken DEF ReloadRules
  <2>2. \A s \in Replicas : inbox'[s][c] \in Seq(Tables)
    <3> SUFFICES ASSUME NEW s \in Replicas PROVE inbox'[s][c] \in Seq(Tables)
      OBVIOUS
    <3>1. CASE s = r
      <4>1. inbox[r][c] \in Seq(Tables) /\ inbox[r][c] # <<>> /\ inbox'[r][c] = Tail(inbox[r][c])
        BY <1>t, <2>1 DEF Taken
      <4> QED BY <3>1, <4>1, Shortened
    <3>2. CASE s # r
      BY <1>t, <2>1, <3>2 DEF Taken
    <3> QED BY <3>1, <3>2
  <2>3. RulesShape'
    <3>1. engine' \in [Replicas -> [has : [Tables -> Nat], todo : SUBSET Tables]]
      BY <1>t, <2>1
    <3> QED BY <1>t, <2>1, <2>2, <3>1 DEF RulesShape
  <2>4. ASSUME NEW s \in Replicas, NEW u \in Tables, Follows(s, u) PROVE Follows(s, u)'
    <3>1. CASE s = r
      BY <1>t, <2>1, <3>1 DEF Follows
    <3>2. CASE s # r
      <4>1. engine'[s] = engine[s] /\ inbox'[s][c] = inbox[s][c] /\ missed'[s][c] = missed[s][c]
        BY <1>t, <2>1, <3>2 DEF Taken
      <4> QED BY <2>1, <2>4, <4>1 DEF Follows, Lost
    <3> QED BY <3>1, <3>2
  <2> QED BY <2>1, <2>3, <2>4
<1>9. ASSUME NEW r \in Replicas, NEW t \in Tables, LoadTable(r, t)
      PROVE  RulesShape' /\ \A s \in Replicas, u \in Tables : Follows(s, u) => Follows(s, u)'
  <2>1. /\ engine' = [engine EXCEPT ![r] = [has |-> [engine[r].has EXCEPT ![t] = edition[t]], todo |-> engine[r].todo \ {t}]]
        /\ stays' = [stays EXCEPT ![r] = @ \ {t}]
        /\ UNCHANGED <<edition, telling, inbox, missed>>
    BY <1>9 DEF LoadTable, linkVars
  <2>2. /\ engine'[r].has[t] = edition[t] /\ engine'[r].todo = engine[r].todo \ {t}
        /\ \A u \in Tables \ {t} : engine'[r].has[u] = engine[r].has[u]
        /\ \A s \in Replicas \ {r} : engine'[s] = engine[s] /\ stays'[s] = stays[s]
        /\ stays'[r] = stays[r] \ {t}
    BY <1>t, <2>1
  <2>3. RulesShape'
    <3>1. [has |-> [engine[r].has EXCEPT ![t] = edition[t]], todo |-> engine[r].todo \ {t}]
            \in [has : [Tables -> Nat], todo : SUBSET Tables]
      BY <1>t
    <3>2. engine' \in [Replicas -> [has : [Tables -> Nat], todo : SUBSET Tables]]
      BY <1>t, <2>1, <3>1
    <3> QED BY <1>t, <2>1, <3>2 DEF RulesShape
  <2>4. ASSUME NEW s \in Replicas, NEW u \in Tables, Follows(s, u) PROVE Follows(s, u)'
    <3>1. CASE s = r /\ u = t
      BY <2>1, <2>2, <3>1 DEF Follows
    <3>2. CASE ~ (s = r /\ u = t)
      BY <2>1, <2>2, <2>4, <3>2 DEF Follows, Lost
    <3> QED BY <3>1, <3>2
  <2> QED BY <2>3, <2>4
<1>10. ASSUME NEW r \in Replicas, NEW t \in Tables, LoadTableFails(r, t)
       PROVE  RulesShape' /\ \A s \in Replicas, u \in Tables : Follows(s, u) => Follows(s, u)'
  <2>1. /\ engine' = [engine EXCEPT ![r].todo = @ \ {t}]
        /\ stays' = [stays EXCEPT ![r] = @ \cup {t}]
        /\ UNCHANGED <<edition, telling, inbox, missed>>
    BY <1>10 DEF LoadTableFails, linkVars
  <2>2. /\ engine'[r].has = engine[r].has /\ engine'[r].todo = engine[r].todo \ {t}
        /\ \A s \in Replicas \ {r} : engine'[s] = engine[s] /\ stays'[s] = stays[s]
        /\ stays'[r] = stays[r] \cup {t}
    BY <1>t, <2>1
  <2>3. RulesShape'
    <3>1. engine' \in [Replicas -> [has : [Tables -> Nat], todo : SUBSET Tables]]
      BY <1>t, <2>1
    <3>2. stays' \in [Replicas -> SUBSET Tables]
      BY <1>t, <2>1
    <3> QED BY <1>t, <2>1, <3>1, <3>2 DEF RulesShape
  <2>4. ASSUME NEW s \in Replicas, NEW u \in Tables, Follows(s, u) PROVE Follows(s, u)'
    BY <2>1, <2>2, <2>4 DEF Follows, Lost
  <2> QED BY <2>3, <2>4
<1>11. ASSUME LinkShape', RulesShape', \A r \in Replicas : ~ProvidePipeline(r),
              \A s \in Replicas, u \in Tables : Follows(s, u) => Follows(s, u)'
       PROVE  LinkShape' /\ RulesShape' /\ RulesInv'
  BY <1>r, <1>11 DEF RulesInv
<1>12. CASE Lifecycle
  <2>1. ASSUME NEW r \in Replicas, Starts(r) \/ Serve(r), \A s \in Replicas : ~ProvidePipeline(s)
        PROVE  LinkShape' /\ RulesShape' /\ RulesInv'
    <3>1. UNCHANGED <<inbox, missed>> /\ UNCHANGED ruleVars
      BY <2>1 DEF Starts, Serve, Dial, linkVars
    <3> QED BY <1>q, <2>1, <3>1, NothingHeard
  <2>2. ASSUME NEW b \in Browsers, NEW r \in Replicas, UsesKeys(b, r), \A s \in Replicas : ~ProvidePipeline(s)
        PROVE  LinkShape' /\ RulesShape' /\ RulesInv'
    <3>1. UNCHANGED <<inbox, missed>> /\ UNCHANGED ruleVars
      BY <2>2 DEF UsesKeys, linkVars
    <3> QED BY <1>q, <2>2, <3>1, NothingHeard
  <2> QED BY <1>p, <1>1, <1>2, <1>12, <2>1, <2>2 DEF Lifecycle
<1>13. CASE Linking
  <2> SUFFICES ASSUME NEW r \in Replicas, NEW d \in Channels, Dials(r, d) \/ Breaks(r, d),
                      \A s \in Replicas : ~ProvidePipeline(s)
               PROVE  LinkShape' /\ RulesShape' /\ RulesInv'
    BY <1>p, <1>1, <1>13 DEF Linking
  <2>1. CASE Dials(r, d)
    <3>1. UNCHANGED <<inbox, missed>> /\ UNCHANGED ruleVars
      BY <2>1 DEF Dials, Connect
    <3> QED BY <1>q, <3>1, NothingHeard
  <2>2. CASE Breaks(r, d) /\ d # c
    <3>1. LinkShape' /\ Quiet(c) /\ UNCHANGED ruleVars
      BY <2>2, Broken DEF Breaks
    <3> QED BY <1>q, <3>1
  <2> QED BY <1>3, <2>1, <2>2
<1>14. CASE Registry /\ \A s \in Replicas : ~ProvidePipeline(s)
  <2>1. UNCHANGED ruleVars
    BY <1>14 DEF Registry, EditSource, EndSource, NotifySource, HearSource, Manages, FloorTicks, LoadFails, Syncs
  <2>2. CASE UNCHANGED linkVars
    BY <1>q, <1>14, <2>1, <2>2, NothingHeard DEF linkVars
  <2>3. ASSUME NEW a \in Operators, NotifySource(a) PROVE LinkShape' /\ Quiet(c)
    <3>1. \/ Notify("data_source_event", desk[a].id) \/ Unsent("data_source_event", {desk[a].id})
      BY <2>3 DEF NotifySource
    <3> QED BY <3>1, Notified, NotSent
  <2>4. ASSUME NEW r \in Replicas, HearSource(r) PROVE LinkShape' /\ Quiet(c)
    BY <2>4, WasTaken DEF HearSource
  <2> QED BY <1>q, <1>14, <2>1, <2>2, <2>3, <2>4 DEF Registry, EditSource, EndSource, Manages, FloorTicks, LoadFails, Syncs
<1>15. CASE Rules /\ \A s \in Replicas : ~ProvidePipeline(s)
  <2>1. ASSUME UNCHANGED linkVars PROVE LinkShape'
    BY <2>1, NothingHeard DEF linkVars
  <2>2. CASE \/ \E r \in Replicas, t \in Tables : EditRule(r, t) \/ LoadTable(r, t) \/ LoadTableFails(r, t)
             \/ SilenceBegins
    <3>1. UNCHANGED linkVars
      BY <2>2 DEF EditRule, LoadTable, LoadTableFails, SilenceBegins
    <3> QED BY <1>4, <1>5, <1>9, <1>10, <1>11, <1>15, <2>1, <2>2, <3>1
  <2>3. CASE \/ \E r \in Replicas, t \in Tables : NotifyPipeline(r, t) \/ NotifyFails(r, t)
             \/ \E r \in Replicas : ReloadRules(r)
    BY <1>6, <1>7, <1>8, <1>11, <1>15, <2>3
  <2> QED BY <1>15, <2>2, <2>3 DEF Rules
<1>16. CASE Views /\ \A s \in Replicas : ~ProvidePipeline(s)
  <2>1. UNCHANGED ruleVars
    BY <1>16 DEF Views
  <2>2. CASE UNCHANGED linkVars
    BY <1>q, <1>16, <2>1, <2>2, NothingHeard DEF linkVars
  <2>3. ASSUME NEW r \in Replicas, NEW i \in Incidents, NotifyIncident(r, i) \/ NotifyIncidentFails(r, i)
        PROVE  LinkShape' /\ Quiet(c)
    BY <2>3, Notified, NotSent DEF NotifyIncident, NotifyIncidentFails
  <2>4. ASSUME NEW r \in Replicas, Broadcast(r) PROVE LinkShape' /\ Quiet(c)
    BY <2>4, WasTaken DEF Broadcast
  <2> QED BY <1>q, <1>16, <2>1, <2>2, <2>3, <2>4
       DEF Views, ChangeIncident, CloseSocket, OpenSocket, Subscribe, Deliver, Refetch
<1>17. CASE UNCHANGED cpVars
  <2>1. UNCHANGED <<inbox, missed>> /\ UNCHANGED ruleVars
    BY <1>17 DEF cpVars, linkVars
  <2> QED BY <1>p, <1>1, <1>q, <2>1, NothingHeard
<1> QED BY <1>p, <1>1, <1>12, <1>13, <1>14, <1>15, <1>16, <1>17 DEF Next

LEMMA LinkInitShape == Init => LinkShape
BY DEF Init, LinkInit, LinkShape

THEOREM RulesInvariant == Spec => [](StartShape /\ LinkShape /\ RulesShape /\ RulesInv /\ RolesInv)
<1> DEFINE Inv == StartShape /\ LinkShape /\ RulesShape /\ RulesInv /\ RolesInv
<1>1. Init => Inv
  <2> SUFFICES ASSUME Init PROVE Inv
    OBVIOUS
  <2>1. RulesShape
    <3>1. <<>> \in Seq(Tables)
      OBVIOUS
    <3>2. edition \in [Tables -> Nat]
      BY DEF Init, RulesInit
    <3>3. \A r \in Listeners : inbox[r]["pipeline_reload"] \in Seq(Tables)
      BY <3>1, TheChannels DEF Init, LinkInit
    <3>4. engine \in [Listeners -> [has : [Tables -> Nat], todo : SUBSET Tables]]
      BY <3>2 DEF Init, RulesInit
    <3> QED BY <3>2, <3>3, <3>4 DEF Init, RulesInit, RulesShape
  <2>2. RulesInv /\ RolesInv
    <3>1. \A r \in Replicas : proc[r].at = "down" /\ ~proc[r].loaded
      BY DEF Init, StartInit, Down
    <3> QED BY <3>1 DEF RulesInv, RolesInv, HasRead, GrantsExplained, Working
  <2> QED BY <2>1, <2>2, ShapeInit, LinkInitShape
<1>2. Inv /\ [Next]_cpVars => Inv'
  BY ShapeStep, RulesStep, RolesStep
<1> QED BY <1>1, <1>2, PTL DEF Spec

(* Every process that is up works by the rules and roles that are stored,  *)
(* or what explains the gap is there (listenReload, ProvideRBAC).          *)
THEOREM RulesAreFollowed == Spec => []RulesFollowed
<1>1. RulesInv /\ RolesInv => RulesFollowed
  <2> SUFFICES ASSUME RulesInv, RolesInv, NEW r \in Replicas, Up(r)
               PROVE  RulesExplained(r) /\ GrantsExplained(r)
    BY DEF RulesFollowed
  <2>1. \A t \in Tables : Follows(r, t)
    BY DEF RulesInv, HasRead, Up, At, Working, Migrating, Places
  <2>2. Lost(r, "pipeline_reload") # {} => inbox[r]["pipeline_reload"] # <<>>
    BY DEF Lost
  <2> QED BY <2>1, <2>2 DEF Follows, RulesExplained, RolesInv
<1> QED BY <1>1, RulesInvariant, PTL

-----------------------------------------------------------------------------
(* Pages.                                                                  *)

PageShape ==
  [at : {"closed", "upgraded", "subscribed"}, on : Listeners \cup {CHOOSE r \in Listeners : TRUE},
   buffer : 0 .. SendBuffer, nudged : BOOLEAN, old : BOOLEAN, hasty : BOOLEAN]

ViewsShape ==
  /\ page \in [Pages -> PageShape]
  /\ \A v \in Pages : page[v].at # "closed" => page[v].on \in Listeners
  /\ changed \in [Listeners -> SUBSET Incidents]
  /\ \A r \in Listeners : inbox[r]["incident_event"] \in Seq(Incidents)

(* A change of incident i has yet to come to listener r, or never will.    *)
Outstanding(r, i) ==
  \/ \E s \in Listeners : i \in changed[s]
  \/ i \in missed[r]["incident_event"] \cup Lost(r, "incident_event")

(* An open page that is old knows, or will, or cannot.  One that the hub   *)
(* does not know yet fetches, or was hasty.                                *)
ViewInv(v) ==
  page[v].at # "closed" =>
    /\ page[v].at = "upgraded" => page[v].nudged \/ page[v].hasty
    /\ page[v].old => \/ page[v].nudged \/ page[v].buffer > 0 \/ page[v].hasty
                      \/ \E i \in watches[v] : Outstanding(page[v].on, i)
ViewsInv == \A v \in Pages : ViewInv(v)

(* Where no page and no event is touched. *)
LEMMA ViewsRest ==
  ASSUME ViewsShape, ViewsInv, UNCHANGED viewVars, Quiet("incident_event")
  PROVE  ViewsShape' /\ ViewsInv'
<1>1. ViewsShape'
  BY DEF ViewsShape, Quiet, viewVars
<1>2. ASSUME NEW v \in Pages PROVE ViewInv(v)'
  <2>1. \A r \in Listeners, i \in Incidents : Outstanding(r, i) => Outstanding(r, i)'
    BY DEF Outstanding, Lost, Quiet, viewVars
  <2> QED BY <2>1, RealtimeAssumption DEF ViewInv, ViewsInv, ViewsShape, viewVars
<1> QED BY <1>1, <1>2 DEF ViewsInv

(* Where the pages stay as they are, and nothing that is outstanding is    *)
(* forgotten.                                                              *)
LEMMA ViewsKept ==
  ASSUME ViewsShape, ViewsInv, page' = page,
         \A s \in Listeners, i \in Incidents : Outstanding(s, i) => Outstanding(s, i)'
  PROVE  ViewsInv'
BY RealtimeAssumption DEF ViewsShape, ViewsInv, ViewInv

(* Where the events stay as they are, and a page is touched. *)
LEMMA PageTouched ==
  ASSUME ViewsShape, ViewsInv, UNCHANGED <<changed, linkVars>>, NEW v \in Pages, NEW p \in PageShape,
         page' = [page EXCEPT ![v] = p],
         p.at # "closed" => p.on \in Listeners, ViewInv(v)'
  PROVE  ViewsShape' /\ ViewsInv'
<1>1. page'[v] = p /\ \A x \in Pages \ {v} : page'[x] = page[x]
  BY DEF ViewsShape
<1>2. ViewsShape'
  BY <1>1 DEF ViewsShape, linkVars
<1>3. \A r \in Listeners, i \in Incidents : Outstanding(r, i)' <=> Outstanding(r, i)
  BY DEF Outstanding, Lost, linkVars
<1>4. ASSUME NEW x \in Pages \ {v} PROVE ViewInv(x)'
  BY <1>1, <1>3, RealtimeAssumption DEF ViewsInv, ViewInv, ViewsShape
<1> QED BY <1>2, <1>4 DEF ViewsInv

LEMMA SocketStep ==
  ASSUME ViewsShape, ViewsInv, NEW v \in Pages,
         Subscribe(v) \/ Deliver(v) \/ Refetch(v) \/ CloseSocket(v) \/ \E r \in Listeners : OpenSocket(v, r)
  PROVE  ViewsShape' /\ ViewsInv'
<1>0. page \in [Pages -> PageShape] /\ page[v] \in PageShape /\ ViewInv(v)
  BY DEF ViewsShape, ViewsInv
<1>1. ASSUME NEW r \in Listeners, OpenSocket(v, r) PROVE ViewsShape' /\ ViewsInv'
  <2> DEFINE p == [page[v] EXCEPT !.at = "upgraded", !.on = r, !.nudged = TRUE]
  <2>1. page' = [page EXCEPT ![v] = p] /\ UNCHANGED <<changed, linkVars>>
    BY <1>0, <1>1 DEF OpenSocket
  <2>2. p \in PageShape /\ p.on = r /\ p.nudged
    BY <1>0 DEF PageShape
  <2>3. ViewInv(v)'
    BY <1>0, <2>1, <2>2 DEF ViewInv
  <2> QED BY <2>1, <2>2, <2>3, PageTouched
<1>2. CASE Subscribe(v)
  <2> DEFINE p == [page[v] EXCEPT !.at = "subscribed"]
  <2>1. page' = [page EXCEPT ![v] = p] /\ UNCHANGED <<changed, linkVars>> /\ page[v].at = "upgraded"
    BY <1>0, <1>2 DEF Subscribe
  <2>2. p \in PageShape /\ p.at = "subscribed" /\ p.on = page[v].on /\ (page[v].nudged => p.nudged) /\ (page[v].hasty => p.hasty)
    BY <1>0 DEF PageShape
  <2>3. ViewInv(v)'
    BY <1>0, <2>1, <2>2 DEF ViewInv
  <2>4. p.on \in Listeners
    BY <2>1, <2>2 DEF ViewsShape
  <2> QED BY <2>1, <2>2, <2>3, <2>4, PageTouched
<1>3. CASE Deliver(v)
  <2> DEFINE p == [page[v] EXCEPT !.buffer = @ - 1, !.nudged = TRUE]
  <2>1. page' = [page EXCEPT ![v] = p] /\ UNCHANGED <<changed, linkVars>> /\ page[v].buffer > 0
    BY <1>0, <1>3 DEF Deliver
  <2>2. p \in PageShape /\ p.at = page[v].at /\ p.on = page[v].on /\ p.nudged
    <3>1. page[v].buffer - 1 \in 0 .. SendBuffer
      BY <1>0, <2>1, RealtimeAssumption DEF PageShape
    <3> QED BY <1>0, <3>1 DEF PageShape
  <2>3. ViewInv(v)'
    BY <1>0, <2>1, <2>2 DEF ViewInv
  <2>4. p.at # "closed" => p.on \in Listeners
    BY <2>2 DEF ViewsShape
  <2> QED BY <2>1, <2>2, <2>3, <2>4, PageTouched
<1>4. CASE Refetch(v)
  <2> DEFINE p == [page[v] EXCEPT !.nudged = FALSE, !.old = FALSE, !.hasty = page[v].at = "upgraded"]
  <2>1. page' = [page EXCEPT ![v] = p] /\ UNCHANGED <<changed, linkVars>>
    BY <1>0, <1>4 DEF Refetch
  <2>2. p \in PageShape /\ p.at = page[v].at /\ p.on = page[v].on /\ ~p.old /\ (p.at = "upgraded" => p.hasty)
    BY <1>0 DEF PageShape
  <2>3. ViewInv(v)'
    BY <1>0, <2>1, <2>2 DEF ViewInv
  <2>4. p.at # "closed" => p.on \in Listeners
    BY <2>2 DEF ViewsShape
  <2> QED BY <2>1, <2>2, <2>3, <2>4, PageTouched
<1>5. CASE CloseSocket(v)
  <2> DEFINE p == Closed(page[v])
  <2>1. page' = [page EXCEPT ![v] = p] /\ UNCHANGED <<changed, linkVars>>
    BY <1>0, <1>5 DEF CloseSocket
  <2>2. p \in PageShape /\ p.at = "closed"
    <3>1. 0 \in 0 .. SendBuffer
      BY RealtimeAssumption
    <3> QED BY <1>0, <3>1 DEF PageShape, Closed
  <2> HIDE DEF p
  <2>3. ViewInv(v)'
    BY <1>0, <2>1, <2>2 DEF ViewInv
  <2> QED BY <2>1, <2>2, <2>3, PageTouched
<1> QED BY <1>1, <1>2, <1>3, <1>4, <1>5

LEMMA EventStep ==
  ASSUME LinkShape, ViewsShape, ViewsInv, NEW r \in Listeners, NEW i \in Incidents,
         ChangeIncident(r, i) \/ NotifyIncident(r, i) \/ NotifyIncidentFails(r, i)
  PROVE  ViewsShape' /\ ViewsInv'
<1> DEFINE c == "incident_event"
<1>0. /\ page \in [Pages -> PageShape] /\ changed \in [Listeners -> SUBSET Incidents]
      /\ \A s \in Listeners : inbox[s][c] \in Seq(Incidents)
      /\ c \in Channels
  BY TheChannels DEF ViewsShape
<1>1. CASE ChangeIncident(r, i)
  <2>1. /\ changed' = [changed EXCEPT ![r] = @ \cup {i}] /\ UNCHANGED <<inbox, missed>>
        /\ page' = [v \in Pages |-> IF i \in watches[v] THEN [page[v] EXCEPT !.old = TRUE] ELSE page[v]]
    BY <1>1 DEF ChangeIncident, linkVars
  <2>2. \A s \in Listeners : changed[s] \subseteq changed'[s] /\ i \in changed'[r]
    BY <1>0, <2>1
  <2>3. \A v \in Pages : /\ page'[v] \in PageShape
                         /\ page'[v].at = page[v].at /\ page'[v].on = page[v].on
                         /\ page'[v].nudged = page[v].nudged /\ page'[v].buffer = page[v].buffer
                         /\ page'[v].hasty = page[v].hasty
                         /\ i \notin watches[v] => page'[v].old = page[v].old
    BY <1>0, <2>1 DEF PageShape
  <2>4. ViewsShape'
    <3>1. page' \in [Pages -> PageShape]
      BY <2>1, <2>3
    <3> QED BY <1>0, <2>1, <2>3, <3>1 DEF ViewsShape
  <2>5. \A s \in Listeners, j \in Incidents : Outstanding(s, j) \/ j = i => Outstanding(s, j)'
    BY <2>1, <2>2 DEF Outstanding, Lost
  <2>6. ASSUME NEW v \in Pages PROVE ViewInv(v)'
    <3>1. CASE i \in watches[v]
      BY <2>3, <2>5, <3>1 DEF ViewsInv, ViewInv, ViewsShape
    <3>2. CASE i \notin watches[v]
      BY <2>3, <2>5, <3>2, RealtimeAssumption DEF ViewsInv, ViewInv, ViewsShape
    <3> QED BY <3>1, <3>2
  <2> QED BY <2>4, <2>6 DEF ViewsInv
<1>2. CASE NotifyIncident(r, i) \/ NotifyIncidentFails(r, i)
  <2>1. changed' = [changed EXCEPT ![r] = @ \ {i}] /\ page' = page
    BY <1>2 DEF NotifyIncident, NotifyIncidentFails
  <2>2. \A s \in Listeners : /\ inbox'[s][c] \in Seq(Incidents)
                             /\ Lost(s, c)' \cup missed'[s][c] = Lost(s, c) \cup missed[s][c] \cup {i}
    <3>1. CASE NotifyIncident(r, i)
      <4>1. Said(c, i)
        BY <1>0, <3>1, Notified DEF NotifyIncident
      <4> QED BY <1>0, <4>1, StillSaid
    <3>2. CASE NotifyIncidentFails(r, i)
      <4>1. Unheard(c, {i})
        BY <1>0, <3>2, NotSent DEF NotifyIncidentFails
      <4> QED BY <1>0, <4>1 DEF Unheard, Lost
    <3> QED BY <1>2, <3>1, <3>2
  <2>3. ViewsShape'
    BY <1>0, <2>1, <2>2 DEF ViewsShape
  <2>4. ASSUME NEW s \in Listeners, NEW j \in Incidents, Outstanding(s, j) PROVE Outstanding(s, j)'
    <3>1. \A x \in Listeners : j \in changed[x] => j \in changed'[x] \/ j = i
      BY <1>0, <2>1
    <3> QED BY <2>2, <2>4, <3>1 DEF Outstanding
  <2> QED BY <2>1, <2>3, <2>4, ViewsKept
<1> QED BY <1>1, <1>2

(* An event that is taken is in the buffer of each page that watches the   *)
(* incident and that the hub knows; where it finds no room, the buffer is  *)
(* not empty.                                                              *)
LEMMA BroadcastStep ==
  ASSUME LinkShape, ViewsShape, ViewsInv, NEW r \in Listeners, Broadcast(r)
  PROVE  ViewsShape' /\ ViewsInv'
<1> DEFINE c == "incident_event"
           e == Heard(r, c)
<1>0. /\ page \in [Pages -> PageShape] /\ changed \in [Listeners -> SUBSET Incidents]
      /\ \A s \in Listeners : inbox[s][c] \in Seq(Incidents)
      /\ c \in Channels
  BY TheChannels DEF ViewsShape
<1>1. /\ Taken(c, r) /\ UNCHANGED <<changed, missed>>
      /\ page' = [v \in Pages |->
                    IF Subscribed(v, r) /\ e \in watches[v] /\ page[v].buffer < SendBuffer
                    THEN [page[v] EXCEPT !.buffer = @ + 1] ELSE page[v]]
  <2>1. Take(r, c) /\ UNCHANGED <<changed, missed>>
    BY DEF Broadcast
  <2>2. Taken(c, r)
    BY <1>0, <2>1, WasTaken
  <2> QED BY <2>1, <2>2 DEF Broadcast
<1>2. /\ e = Head(inbox[r][c]) /\ inbox'[r][c] \in Seq(Incidents)
      /\ Lost(r, c) = Lost(r, c)' \cup {e}
  <2>1. inbox[r][c] \in Seq(Incidents) /\ inbox[r][c] # <<>> /\ inbox'[r][c] = Tail(inbox[r][c])
    BY <1>0, <1>1 DEF Taken
  <2> DEFINE s == inbox[r][c]
  <2>2. /\ Tail(s) \in Seq(Incidents)
        /\ {s[n] : n \in DOMAIN s} = {Tail(s)[n] : n \in DOMAIN Tail(s)} \cup {Head(s)}
    BY <2>1, Shortened
  <2>3. Lost(r, c)' = {Tail(s)[n] : n \in DOMAIN Tail(s)}
    BY <2>1 DEF Lost
  <2> QED BY <2>1, <2>2, <2>3 DEF Lost, Heard
<1>3. \A s \in Listeners \ {r} : inbox'[s][c] = inbox[s][c] /\ Lost(s, c)' = Lost(s, c)
  BY <1>1 DEF Taken, Lost
<1> HIDE DEF e
<1>4. \A s \in Listeners, i \in Incidents : Outstanding(s, i) => Outstanding(s, i)' \/ (s = r /\ i = e)
  BY <1>1, <1>2, <1>3 DEF Outstanding
<1>5. \A v \in Pages : /\ page'[v] \in PageShape
                       /\ page'[v].at = page[v].at /\ page'[v].on = page[v].on
                       /\ page'[v].nudged = page[v].nudged /\ page'[v].old = page[v].old
                       /\ page'[v].hasty = page[v].hasty
                       /\ page[v].buffer > 0 => page'[v].buffer > 0
                       /\ Subscribed(v, r) /\ e \in watches[v] => page'[v].buffer > 0
  <2> SUFFICES ASSUME NEW v \in Pages
               PROVE  /\ page'[v] \in PageShape
                      /\ page'[v].at = page[v].at /\ page'[v].on = page[v].on
                      /\ page'[v].nudged = page[v].nudged /\ page'[v].old = page[v].old
                      /\ page'[v].hasty = page[v].hasty
                      /\ page[v].buffer > 0 => page'[v].buffer > 0
                      /\ Subscribed(v, r) /\ e \in watches[v] => page'[v].buffer > 0
    OBVIOUS
  <2>1. page[v] \in PageShape /\ page[v].buffer \in 0 .. SendBuffer /\ SendBuffer \in Nat \ {0}
    BY <1>0, RealtimeAssumption DEF PageShape
  <2>2. CASE Subscribed(v, r) /\ e \in watches[v] /\ page[v].buffer < SendBuffer
    <3>1. page'[v] = [page[v] EXCEPT !.buffer = page[v].buffer + 1]
      BY <1>1, <2>2
    <3>2. page[v].buffer + 1 \in 0 .. SendBuffer /\ page[v].buffer + 1 > 0
      BY <2>1, <2>2
    <3>3. page'[v] \in PageShape
      BY <2>1, <3>1, <3>2 DEF PageShape
    <3>4. page'[v].buffer = page[v].buffer + 1
      BY <2>1, <3>1 DEF PageShape
    <3> QED BY <2>1, <3>1, <3>2, <3>3, <3>4 DEF PageShape
  <2>3. CASE ~(Subscribed(v, r) /\ e \in watches[v] /\ page[v].buffer < SendBuffer)
    <3>1. page'[v] = page[v]
      BY <1>1, <2>3
    <3>2. Subscribed(v, r) /\ e \in watches[v] => page[v].buffer > 0
      BY <2>1, <2>3
    <3> QED BY <2>1, <3>1, <3>2
  <2> QED BY <2>2, <2>3
<1>6. ViewsShape'
  <2>1. page' \in [Pages -> PageShape]
    BY <1>1, <1>5
  <2>2. \A s \in Listeners : inbox'[s][c] \in Seq(Incidents)
    BY <1>0, <1>2, <1>3
  <2> QED BY <1>0, <1>1, <1>5, <2>1, <2>2 DEF ViewsShape
<1>7. ASSUME NEW v \in Pages, page'[v].at # "closed" PROVE ViewInv(v)'
  <2>1. ViewInv(v) /\ page[v].at = page'[v].at /\ page[v].on \in Listeners /\ page[v].at \in {"upgraded", "subscribed"}
    BY <1>0, <1>5, <1>7 DEF ViewsInv, ViewsShape, PageShape
  <2>2. CASE page[v].at = "upgraded"
    BY <1>5, <2>1, <2>2 DEF ViewInv
  <2>3. CASE page[v].at = "subscribed"
    <3>1. ASSUME NEW i \in watches[v], Outstanding(page[v].on, i)
          PROVE  Outstanding(page[v].on, i)' \/ page'[v].buffer > 0
      BY <1>4, <1>5, <2>1, <2>3, <3>1, RealtimeAssumption DEF Subscribed
    <3> QED BY <1>5, <2>1, <2>3, <3>1 DEF ViewInv
  <2> QED BY <2>1, <2>2, <2>3
<1> QED BY <1>6, <1>7 DEF ViewsInv, ViewInv

LEMMA ViewsStep == LinkShape /\ ViewsShape /\ ViewsInv /\ [Next]_cpVars => ViewsShape' /\ ViewsInv'
<1> SUFFICES ASSUME LinkShape, ViewsShape, ViewsInv, [Next]_cpVars
             PROVE  ViewsShape' /\ ViewsInv'
  OBVIOUS
<1> DEFINE c == "incident_event"
<1> USE TheChannels
<1>0. /\ page \in [Pages -> PageShape] /\ changed \in [Replicas -> SUBSET Incidents]
      /\ \A s \in Replicas : inbox[s][c] \in Seq(Incidents)
  BY DEF ViewsShape
<1>1. ASSUME NEW r \in Replicas, Die(r) PROVE ViewsShape' /\ ViewsInv'
  <2>1. /\ inbox' = [inbox EXCEPT ![r] = [d \in Channels |-> <<>>]]
        /\ missed' = [s \in Replicas |-> [d \in Channels |-> IF s = r THEN {} ELSE missed[s][d] \cup Unsaid(r)[d]]]
        /\ changed' = [changed EXCEPT ![r] = {}]
        /\ page' = [v \in Pages |-> IF page[v].on = r THEN Closed(page[v]) ELSE page[v]]
    BY <1>1 DEF Die
  <2>2. /\ inbox'[r][c] = <<>>
        /\ \A s \in Replicas \ {r} : /\ inbox'[s][c] = inbox[s][c]
                                     /\ missed'[s][c] = missed[s][c] \cup changed[r]
    BY <2>1 DEF LinkShape, Unsaid
  <2>3. \A v \in Pages : /\ page'[v] \in PageShape
                         /\ page[v].on = r => page'[v].at = "closed"
                         /\ page[v].on # r => page'[v] = page[v]
    <3>1. 0 \in 0 .. SendBuffer
      BY RealtimeAssumption
    <3>2. \A p \in PageShape : Closed(p) \in PageShape /\ Closed(p).at = "closed"
      BY <3>1 DEF PageShape, Closed
    <3> QED BY <1>0, <2>1, <3>2
  <2>4. ViewsShape'
    <3>1. page' \in [Pages -> PageShape]
      BY <2>1, <2>3
    <3>2. <<>> \in Seq(Incidents)
      OBVIOUS
    <3>3. \A s \in Replicas : inbox'[s][c] \in Seq(Incidents)
      BY <1>0, <2>2, <3>2
    <3>4. \A v \in Pages : page'[v].at # "closed" => page'[v].on \in Listeners
      BY <2>3 DEF ViewsShape
    <3> QED BY <1>0, <2>1, <3>1, <3>3, <3>4 DEF ViewsShape
  <2>5. ASSUME NEW s \in Replicas \ {r}, NEW i \in Incidents, Outstanding(s, i) PROVE Outstanding(s, i)'
    <3>1. \A x \in Replicas : i \in changed[x] => i \in changed'[x] \/ i \in missed'[s][c]
      BY <1>0, <2>1, <2>2
    <3> QED BY <2>2, <2>5, <3>1 DEF Outstanding, Lost
  <2>6. ASSUME NEW v \in Pages, page'[v].at # "closed" PROVE ViewInv(v)'
    <3>1. page'[v] = page[v] /\ page[v].on \in Replicas \ {r}
      BY <2>3, <2>6 DEF ViewsShape
    <3> QED BY <2>5, <3>1, RealtimeAssumption DEF ViewsInv, ViewInv
  <2> QED BY <2>4, <2>6 DEF ViewsInv, ViewInv
<1>2. ASSUME NEW r \in Replicas, Breaks(r, c) PROVE ViewsShape' /\ ViewsInv'
  <2>1. Cut(c, r) /\ UNCHANGED viewVars
    BY <1>2, Broken DEF Breaks
  <2>2. \A s \in Replicas : /\ inbox'[s][c] \in Seq(Incidents)
                            /\ Lost(s, c) \cup missed[s][c] = Lost(s, c)' \cup missed'[s][c]
    <3> SUFFICES ASSUME NEW s \in Replicas
                 PROVE  /\ inbox'[s][c] \in Seq(Incidents)
                        /\ Lost(s, c) \cup missed[s][c] = Lost(s, c)' \cup missed'[s][c]
      OBVIOUS
    <3>1. CASE s = r
      <4>1. inbox'[s][c] = <<>> /\ missed'[s][c] = missed[s][c] \cup Lost(s, c)
        BY <2>1, <3>1 DEF Cut
      <4>2. <<>> \in Seq(Incidents) /\ Lost(s, c)' = {}
        BY <4>1 DEF Lost
      <4> QED BY <4>1, <4>2
    <3>2. CASE s # r
      BY <1>0, <2>1, <3>2 DEF Cut, Lost
    <3> QED BY <3>1, <3>2
  <2>3. ViewsShape'
    BY <1>0, <2>1, <2>2 DEF ViewsShape, viewVars
  <2>4. \A s \in Replicas, i \in Incidents : Outstanding(s, i) => Outstanding(s, i)'
    BY <2>1, <2>2 DEF Outstanding, viewVars
  <2> QED BY <2>1, <2>3, <2>4, ViewsKept DEF viewVars
<1>3. ASSUME UNCHANGED viewVars, UNCHANGED <<inbox, missed>> PROVE ViewsShape' /\ ViewsInv'
  BY <1>3, NothingHeard, ViewsRest
<1>4. CASE Lifecycle
  <2>1. ASSUME NEW r \in Replicas, ProvidePipeline(r) PROVE ViewsShape' /\ ViewsInv'
    <3>1. inbox' = inbox /\ missed' = [missed EXCEPT ![r]["pipeline_reload"] = {}] /\ UNCHANGED viewVars
      BY <2>1 DEF ProvidePipeline
    <3>2. Quiet(c)
      BY <3>1 DEF LinkShape, Quiet
    <3> QED BY <3>1, <3>2, ViewsRest
  <2>2. ASSUME NEW r \in Replicas, Starts(r) \/ Serve(r) PROVE ViewsShape' /\ ViewsInv'
    BY <1>3, <2>2 DEF Starts, Serve, Dial, linkVars
  <2>3. ASSUME NEW b \in Browsers, NEW r \in Replicas, UsesKeys(b, r) PROVE ViewsShape' /\ ViewsInv'
    BY <1>3, <2>3 DEF UsesKeys, linkVars
  <2> QED BY <1>1, <1>4, <2>1, <2>2, <2>3 DEF Lifecycle
<1>5. CASE Linking
  <2> SUFFICES ASSUME NEW r \in Replicas, NEW d \in Channels, Dials(r, d) \/ Breaks(r, d)
               PROVE  ViewsShape' /\ ViewsInv'
    BY <1>5 DEF Linking
  <2>1. CASE Dials(r, d)
    BY <1>3, <2>1 DEF Dials, Connect
  <2>2. CASE Breaks(r, d) /\ d # c
    <3>1. Quiet(c) /\ UNCHANGED viewVars
      BY <2>2, Broken DEF Breaks
    <3> QED BY <3>1, ViewsRest
  <2> QED BY <1>2, <2>1, <2>2
<1>6. CASE Registry
  <2>1. UNCHANGED viewVars
    BY <1>6 DEF Registry, EditSource, EndSource, NotifySource, HearSource, Manages, FloorTicks, LoadFails, Syncs
  <2>2. CASE UNCHANGED linkVars
    BY <1>3, <2>1, <2>2 DEF linkVars
  <2>3. ASSUME NEW a \in Operators, NotifySource(a) PROVE Quiet(c)
    <3>1. \/ Notify("data_source_event", desk[a].id) \/ Unsent("data_source_event", {desk[a].id})
      BY <2>3 DEF NotifySource
    <3> QED BY <3>1, Notified, NotSent
  <2>4. ASSUME NEW r \in Replicas, HearSource(r) PROVE Quiet(c)
    BY <2>4, WasTaken DEF HearSource
  <2> QED BY <1>6, <2>1, <2>2, <2>3, <2>4, ViewsRest DEF Registry, EditSource, EndSource, Manages, FloorTicks, LoadFails, Syncs
<1>7. CASE Rules
  <2>1. UNCHANGED viewVars
    BY <1>7 DEF Rules
  <2>2. CASE UNCHANGED linkVars
    BY <1>3, <2>1, <2>2 DEF linkVars
  <2>3. ASSUME NEW r \in Replicas, NEW t \in Tables, NotifyPipeline(r, t) \/ NotifyFails(r, t) PROVE Quiet(c)
    BY <2>3, Notified, NotSent DEF NotifyPipeline, NotifyFails
  <2>4. ASSUME NEW r \in Replicas, ReloadRules(r) PROVE Quiet(c)
    BY <2>4, WasTaken DEF ReloadRules
  <2> QED BY <1>7, <2>1, <2>2, <2>3, <2>4, ViewsRest
       DEF Rules, EditRule, SilenceBegins, LoadTable, LoadTableFails
<1>8. CASE Views
  BY <1>8, EventStep, BroadcastStep, SocketStep DEF Views
<1>9. CASE UNCHANGED cpVars
  BY <1>3, <1>9 DEF cpVars, linkVars
<1> QED BY <1>4, <1>5, <1>6, <1>7, <1>8, <1>9 DEF Next

THEOREM ViewsInvariant == Spec => [](ViewsShape /\ ViewsInv)
<1>1. Init => ViewsShape /\ ViewsInv
  <2> SUFFICES ASSUME Init PROVE ViewsShape /\ ViewsInv
    OBVIOUS
  <2>1. /\ page \in [Pages -> PageShape] /\ \A v \in Pages : page[v].at = "closed"
    <3>1. 0 \in 0 .. SendBuffer
      BY RealtimeAssumption
    <3> QED BY <3>1 DEF Init, ViewsInit, PageShape
  <2>2. \A r \in Listeners : inbox[r]["incident_event"] \in Seq(Incidents)
    <3>1. <<>> \in Seq(Incidents)
      OBVIOUS
    <3> QED BY <3>1, TheChannels DEF Init, LinkInit
  <2> QED BY <2>1, <2>2 DEF Init, ViewsInit, ViewsShape, ViewsInv, ViewInv
<1>2. Spec => []LinkShape
  BY RulesInvariant, PTL
<1>3. LinkShape /\ (ViewsShape /\ ViewsInv) /\ [Next]_cpVars => (ViewsShape /\ ViewsInv)'
  BY ViewsStep
<1> QED BY <1>1, <1>2, <1>3, PTL DEF Spec

(* A page whose socket is open shows what is stored, or a fetch is due, or *)
(* what explains the gap is there (useRealtime.ts, the hub, ListenLoop).   *)
THEOREM ViewsAreExplained == Spec => []ViewsExplained
<1>1. ViewsShape /\ ViewsInv => ViewsExplained
  <2> SUFFICES ASSUME ViewsShape, ViewsInv, NEW v \in Pages, page[v].at = "subscribed", page[v].old
               PROVE  \/ page[v].nudged \/ page[v].buffer > 0 \/ page[v].hasty
                      \/ \E i \in watches[v] :
                           \/ \E s \in Listeners : i \in changed[s]
                           \/ i \in missed[page[v].on]["incident_event"]
                           \/ \E n \in DOMAIN inbox[page[v].on]["incident_event"] :
                                inbox[page[v].on]["incident_event"][n] = i
    BY DEF ViewsExplained
  <2> QED BY DEF ViewsInv, ViewInv, Outstanding, Lost
<1> QED BY <1>1, ViewsInvariant, PTL

-----------------------------------------------------------------------------
(* Data sources.                                                           *)

RowShape == [state : {"free", "live", "deleted"}, kind : Kinds, enabled : BOOLEAN, default : BOOLEAN,
             cfg : Configs \cup {CHOOSE c \in Configs : TRUE}, secret : BOOLEAN]
FormShape == [kind : Kinds, enabled : BOOLEAN, default : BOOLEAN, cfg : Configs, secret : BOOLEAN]
DeskShape == [at : {"idle", "begun", "committed", "refused"}, op : {"none", "create", "update", "default", "delete"},
              id : Sources \cup {0}, form : FormShape, matched : SUBSET Sources, was : RowShape,
              overlapped : BOOLEAN, on : Servers \cup {CHOOSE r \in Servers : TRUE}]

(* The unique index. *)
OneDefaultEach ==
  \A x, y \in Sources :
    x # y /\ row[x].state # "free" /\ row[y].state # "free" /\ row[x].default /\ row[y].default =>
      row[x].kind # row[y].kind

(* A transaction that no other has overtaken has seen the rows as they are. *)
DeskInv(a) ==
  desk[a].at = "begun" =>
    /\ desk[a].op \in {"create", "update", "default"}
    /\ desk[a].op # "create" => desk[a].id \in Sources
    /\ ~desk[a].overlapped =>
         /\ desk[a].op = "create" /\ desk[a].form.default => desk[a].matched = Defaults(desk[a].form.kind)
         /\ desk[a].op # "create" => Live(desk[a].id) /\ desk[a].was = row[desk[a].id]
         /\ desk[a].op = "update" /\ desk[a].form.default /\ ~desk[a].was.default =>
              desk[a].matched = Defaults(desk[a].form.kind) \ {desk[a].id}
         /\ desk[a].op = "default" => desk[a].matched = Defaults(row[desk[a].id].kind) \ {desk[a].id}

SourcesInv ==
  /\ row \in [Sources -> RowShape] /\ desk \in [Operators -> DeskShape]
  /\ OneDefaultEach
  /\ \A a \in Operators : DeskInv(a)

LEMMA AnySource ==
  /\ 0 \in Sources \cup {0} /\ Forms # {} /\ Forms \subseteq FormShape /\ AnyForm \in FormShape
  /\ Free \in RowShape /\ Idle \in DeskShape /\ Idle.at = "idle"
<1>1. Forms # {} /\ Forms \subseteq FormShape
  BY DataSourcesAssumption DEF FormShape
<1>2. AnyForm \in FormShape
  BY <1>1 DEF AnyForm
<1>3. Free \in RowShape
  BY DEF Free, RowShape, Kinds
<1> QED BY <1>1, <1>2, <1>3 DEF Idle, DeskShape

LEMMA SourcesInitInv == Init => SourcesInv
<1> SUFFICES ASSUME Init PROVE SourcesInv
  OBVIOUS
<1>1. row = [s \in Sources |-> Free] /\ desk = [a \in Operators |-> Idle]
  BY DEF Init, SourcesInit
<1>2. Free.state = "free"
  BY DEF Free
<1> QED BY <1>1, <1>2, AnySource DEF SourcesInv, OneDefaultEach, DeskInv

(* Where one desk changes and no row. *)
LEMMA DeskTouched ==
  ASSUME SourcesInv, NEW a \in Operators, NEW d \in DeskShape, row' = row, desk' = [desk EXCEPT ![a] = d],
         DeskInv(a)'
  PROVE  SourcesInv'
<1>1. desk' \in [Operators -> DeskShape] /\ \A b \in Operators \ {a} : desk'[b] = desk[b]
  BY DEF SourcesInv
<1>2. \A b \in Operators \ {a} : DeskInv(b)'
  BY <1>1 DEF SourcesInv, DeskInv, Defaults, Live
<1> QED BY <1>1, <1>2 DEF SourcesInv, OneDefaultEach

LEMMA BeginInv ==
  ASSUME SourcesInv, NEW a \in Operators, NEW r \in Servers, NEW op \in {"create", "update", "default"},
         NEW s \in Sources \cup {0}, NEW f \in FormShape, NEW matched \in SUBSET Sources,
         Begin(a, r, op, s, f, matched),
         op # "create" => s \in Sources /\ Live(s),
         op = "create" => s = 0,
         op = "create" /\ f.default => matched = Defaults(f.kind),
         op = "update" /\ f.default /\ ~row[s].default => matched = Defaults(f.kind) \ {s},
         op = "default" => matched = Defaults(row[s].kind) \ {s}
  PROVE  SourcesInv'
<1> DEFINE was == IF s = 0 THEN Free ELSE row[s]
           d == [at |-> "begun", op |-> op, id |-> s, form |-> f, matched |-> matched,
                 was |-> was, overlapped |-> FALSE, on |-> r]
<1>1. row' = row /\ desk' = [desk EXCEPT ![a] = d] /\ desk \in [Operators -> DeskShape]
  BY DEF Begin, SourcesInv
<1>2. was \in RowShape /\ (op # "create" => was = row[s])
  <2>1. 0 \notin Sources
    BY DataSourcesAssumption DEF Sources
  <2> QED BY <2>1, AnySource DEF SourcesInv
<1> HIDE DEF was
<1>3. d \in DeskShape
  BY <1>2 DEF DeskShape
<1>4. desk'[a] = d
  BY <1>1
<1>5. DeskInv(a)'
  <2>1. \A k : Defaults(k)' = Defaults(k)
    BY <1>1 DEF Defaults, Live
  <2>2. op # "create" => Live(s)'
    BY <1>1 DEF Live
  <2> QED BY <1>1, <1>2, <1>4, <2>1, <2>2 DEF DeskInv
<1> HIDE DEF d
<1> QED BY <1>1, <1>3, <1>5, DeskTouched

LEMMA EditInv ==
  ASSUME SourcesInv, NEW a \in Operators, NEW r \in Replicas, EditSource(a, r)
  PROVE  SourcesInv'
<1> USE TheChannels
<1>1. ASSUME NEW f \in Forms, createSource(a, r, f) PROVE SourcesInv'
  <2> DEFINE matched == IF f.default THEN Defaults(f.kind) ELSE {}
  <2>1. Begin(a, r, "create", 0, f, matched) /\ f \in FormShape /\ matched \in SUBSET Sources
    BY <1>1, AnySource DEF createSource, Defaults
  <2>2. f.default => matched = Defaults(f.kind)
    OBVIOUS
  <2> HIDE DEF matched
  <2> QED BY <2>1, <2>2, BeginInv, AnySource
<1>2. ASSUME NEW s \in Sources, NEW f \in Forms, updateSource(a, r, s, f) PROVE SourcesInv'
  <2> DEFINE matched == IF f.default /\ ~row[s].default THEN Defaults(f.kind) \ {s} ELSE {}
             g == [f EXCEPT !.secret = @ \/ row[s].secret]
  <2>1. f \in FormShape /\ row[s] \in RowShape
    BY AnySource DEF SourcesInv
  <2>2. g \in FormShape /\ g.default = f.default /\ g.kind = f.kind
    BY <2>1 DEF FormShape, RowShape
  <2>3. Begin(a, r, "update", s, g, matched) /\ Live(s) /\ matched \in SUBSET Sources
    BY <1>2 DEF updateSource, Defaults
  <2>4. f.default /\ ~row[s].default => matched = Defaults(f.kind) \ {s}
    OBVIOUS
  <2> HIDE DEF matched, g
  <2> QED BY <2>2, <2>3, <2>4, BeginInv
<1>3. ASSUME NEW s \in Sources, setDefaultSource(a, r, s) PROVE SourcesInv'
  <2> DEFINE matched == Defaults(row[s].kind) \ {s}
  <2>1. Begin(a, r, "default", s, AnyForm, matched) /\ Live(s) /\ matched \in SUBSET Sources
    BY <1>3 DEF setDefaultSource, Defaults
  <2> QED BY <2>1, BeginInv, AnySource
<1>4. ASSUME NEW s \in Sources, deleteSource(a, r, s) PROVE SourcesInv'
  <2> DEFINE d == [Idle EXCEPT !.at = "committed", !.op = "delete", !.id = s, !.on = r]
  <2>1. /\ row' = [row EXCEPT ![s].state = "deleted"] /\ Live(s)
        /\ desk' = [b \in Operators |-> IF b = a THEN d ELSE [desk[b] EXCEPT !.overlapped = TRUE]]
    BY <1>4 DEF deleteSource
  <2>2. d \in DeskShape /\ d.at = "committed"
    BY AnySource DEF DeskShape
  <2> HIDE DEF d
  <2>3. /\ row' \in [Sources -> RowShape]
        /\ \A x \in Sources : row'[x].default = row[x].default /\ row'[x].kind = row[x].kind
                              /\ (row'[x].state # "free" => row[x].state # "free")
    BY <2>1 DEF SourcesInv, RowShape, Live
  <2>4. ASSUME NEW b \in Operators PROVE desk'[b] \in DeskShape /\ DeskInv(b)'
    <3>1. CASE b = a
      BY <2>1, <2>2, <3>1 DEF DeskInv
    <3>2. CASE b # a
      <4>1. desk'[b] = [desk[b] EXCEPT !.overlapped = TRUE] /\ desk[b] \in DeskShape /\ DeskInv(b)
        BY <2>1, <3>2 DEF SourcesInv
      <4>2. /\ desk'[b] \in DeskShape /\ desk'[b].overlapped /\ desk'[b].at = desk[b].at
            /\ desk'[b].op = desk[b].op /\ desk'[b].id = desk[b].id
        BY <4>1 DEF DeskShape
      <4> QED BY <4>1, <4>2 DEF DeskInv
    <3> QED BY <3>1, <3>2
  <2>5. desk' \in [Operators -> DeskShape]
    BY <2>1, <2>4
  <2> QED BY <2>3, <2>4, <2>5 DEF SourcesInv, OneDefaultEach
<1> QED BY <1>1, <1>2, <1>3, <1>4 DEF EditSource

LEMMA CommitInv ==
  ASSUME SourcesInv, NEW a \in Operators, CommitSource(a)
  PROVE  /\ SourcesInv'
         /\ \A s \in Sources : row[s].state = "deleted" /\ row'[s].state = "live" => ReturnExplained(s)
<1> DEFINE s == Target(a)
           w == Written(a)
           d == [Idle EXCEPT !.at = "committed", !.op = desk[a].op, !.id = s, !.on = desk[a].on]
<1>0. /\ row \in [Sources -> RowShape] /\ desk \in [Operators -> DeskShape] /\ OneDefaultEach
      /\ desk[a].at = "begun" /\ DeskInv(a) /\ desk[a] \in DeskShape
      /\ desk[a].op \in {"create", "update", "default"}
  BY DEF SourcesInv, CommitSource, DeskInv
<1>1. /\ ~Clashes(a, s)
      /\ row' = [x \in Sources |-> IF x = s THEN w
                                   ELSE IF x \in desk[a].matched THEN [row[x] EXCEPT !.default = FALSE] ELSE row[x]]
      /\ desk' = [b \in Operators |-> IF b = a THEN d ELSE [desk[b] EXCEPT !.overlapped = TRUE]]
  BY DEF CommitSource
<1>2. /\ s \in Sources /\ (desk[a].op = "create" => row[s].state = "free")
      /\ desk[a].op # "create" => s = desk[a].id
  BY <1>0 DEF CommitSource, Target, DeskInv
<1>3. /\ w \in RowShape
      /\ desk[a].op = "default" => w.state = row[s].state
  <2>1. CASE desk[a].op = "default"
    <3>1. row[s] \in RowShape /\ (w = row[s] \/ (w = [row[s] EXCEPT !.default = TRUE, !.enabled = TRUE]))
      BY <1>0, <1>2, <2>1 DEF Written
    <3> QED BY <3>1 DEF RowShape
  <2>2. CASE desk[a].op # "default"
    <3>1. w = Row("live", desk[a].form) /\ desk[a].form \in FormShape
      BY <1>0, <2>2 DEF Written, DeskShape
    <3> QED BY <2>2, <3>1 DEF Row, FormShape, RowShape
  <2> QED BY <2>1, <2>2
<1>4. \A x \in Sources \ (desk[a].matched \cup {s}) :
        w.default /\ row[x].state # "free" /\ row[x].default => row[x].kind # w.kind
  BY <1>1 DEF Clashes
<1>5. d \in DeskShape /\ d.at = "committed"
  BY <1>0, <1>2, AnySource DEF DeskShape
<1> HIDE DEF s, w, d
<1>6. /\ row' \in [Sources -> RowShape] /\ row'[s] = w
      /\ \A x \in Sources \ {s} : /\ row'[x].state = row[x].state /\ row'[x].kind = row[x].kind
                                  /\ row'[x].default => row[x].default /\ x \notin desk[a].matched
  <2>1. \A x \in Sources : row[x] \in RowShape /\ [row[x] EXCEPT !.default = FALSE] \in RowShape
    BY <1>0 DEF RowShape
  <2>2. row' \in [Sources -> RowShape]
    BY <1>1, <1>3, <2>1
  <2>3. \A x \in Sources \ {s} : /\ row'[x].state = row[x].state /\ row'[x].kind = row[x].kind
                                 /\ row'[x].default => row[x].default /\ x \notin desk[a].matched
    BY <1>1, <2>1 DEF RowShape
  <2> QED BY <1>1, <1>2, <2>2, <2>3
<1>7. OneDefaultEach'
  <2> SUFFICES ASSUME NEW x \in Sources, NEW y \in Sources, x # y,
                      row'[x].state # "free", row'[y].state # "free", row'[x].default, row'[y].default
               PROVE  row'[x].kind # row'[y].kind
    BY DEF OneDefaultEach
  <2>1. CASE x = s
    BY <1>4, <1>6, <2>1
  <2>2. CASE y = s
    BY <1>4, <1>6, <2>2
  <2>3. CASE x # s /\ y # s
    BY <1>0, <1>6, <2>3 DEF OneDefaultEach
  <2> QED BY <2>1, <2>2, <2>3
<1>8. \A b \in Operators : desk'[b] \in DeskShape /\ DeskInv(b)'
  <2> SUFFICES ASSUME NEW b \in Operators PROVE desk'[b] \in DeskShape /\ DeskInv(b)'
    OBVIOUS
  <2>1. CASE b = a
    BY <1>1, <1>5, <2>1 DEF DeskInv
  <2>2. CASE b # a
    <3>1. desk'[b] = [desk[b] EXCEPT !.overlapped = TRUE] /\ desk[b] \in DeskShape /\ DeskInv(b)
      BY <1>0, <1>1, <2>2 DEF SourcesInv
    <3>2. /\ desk'[b] \in DeskShape /\ desk'[b].overlapped /\ desk'[b].at = desk[b].at
          /\ desk'[b].op = desk[b].op /\ desk'[b].id = desk[b].id
      BY <3>1 DEF DeskShape
    <3> QED BY <3>1, <3>2 DEF DeskInv
  <2> QED BY <2>1, <2>2
<1>9. ASSUME NEW x \in Sources, row[x].state = "deleted", row'[x].state = "live" PROVE ReturnExplained(x)
  <2>1. x = s /\ desk[a].op = "update" /\ desk[a].id = x
    BY <1>0, <1>2, <1>3, <1>6, <1>9
  <2>2. desk[a].overlapped
    BY <1>0, <1>9, <2>1 DEF DeskInv, DeskShape, Live
  <2> QED BY <1>0, <2>1, <2>2 DEF ReturnExplained
<1>10. desk' \in [Operators -> DeskShape]
  BY <1>1, <1>8
<1> QED BY <1>6, <1>7, <1>8, <1>9, <1>10 DEF SourcesInv

LEMMA RefuseInv ==
  ASSUME SourcesInv, NEW a \in Operators, Refuse(a)
  PROVE  SourcesInv' /\ RefusalExplained(a)
<1>0. /\ row \in [Sources -> RowShape] /\ OneDefaultEach /\ DeskInv(a) /\ desk[a] \in DeskShape
      /\ desk[a].at = "begun" /\ row' = row /\ desk' = [desk EXCEPT ![a] = [desk[a] EXCEPT !.at = "refused"]]
  BY DEF SourcesInv, Refuse
<1>1. SourcesInv'
  <2> DEFINE d == [desk[a] EXCEPT !.at = "refused"]
  <2>1. d \in DeskShape /\ d.at = "refused"
    BY <1>0 DEF DeskShape
  <2> HIDE DEF d
  <2>2. DeskInv(a)'
    BY <1>0, <2>1 DEF DeskInv, SourcesInv, d
  <2> QED BY <1>0, <2>1, <2>2, DeskTouched DEF d
<1>2. CASE \E b \in Operators \ {a} : desk[b].at = "begun" /\ desk[a].id \in desk[b].matched
  BY <1>1, <1>2 DEF RefusalExplained
<1>3. CASE ~desk[a].overlapped /\ Clashes(a, Target(a))
  <2>1. PICK x \in Sources \ (desk[a].matched \cup {Target(a)}) :
          row[x].state # "free" /\ row[x].default /\ row[x].kind = Written(a).kind
    BY <1>3 DEF Clashes
  <2>2. Written(a).default
    BY <1>3 DEF Clashes
  <2>3. CASE row[x].state = "deleted"
    BY <1>1, <2>1, <2>3 DEF RefusalExplained
  <2>4. CASE row[x].state = "live"
    <3>1. x \in Defaults(Written(a).kind)
      BY <2>1, <2>4 DEF Defaults, Live
    <3>2. CASE desk[a].op = "default"
      <4>1. Live(desk[a].id) /\ desk[a].id \in Sources /\ Target(a) = desk[a].id
            /\ desk[a].matched = Defaults(row[desk[a].id].kind) \ {desk[a].id}
        BY <1>0, <1>3, <3>2 DEF DeskInv, Target
      <4>2. Written(a) = [row[desk[a].id] EXCEPT !.default = TRUE, !.enabled = TRUE] /\ row[desk[a].id] \in RowShape
        BY <1>0, <3>2, <4>1 DEF Written
      <4>3. Written(a).kind = row[desk[a].id].kind
        BY <4>2 DEF RowShape
      <4> QED BY <2>1, <3>1, <4>1, <4>3
    <3>3. CASE desk[a].op # "default"
      <4>1. Written(a).default = desk[a].form.default /\ Written(a).kind = desk[a].form.kind
        BY <3>3 DEF Written, Row
      <4>2. CASE desk[a].op = "create"
        BY <1>0, <1>3, <2>1, <2>2, <3>1, <4>1, <4>2 DEF DeskInv
      <4>3. CASE desk[a].op = "update"
        <5>1. /\ Live(desk[a].id) /\ desk[a].id \in Sources /\ Target(a) = desk[a].id
              /\ desk[a].was = row[desk[a].id]
              /\ ~desk[a].was.default => desk[a].matched = Defaults(desk[a].form.kind) \ {desk[a].id}
          BY <1>0, <1>3, <2>2, <4>1, <4>3 DEF DeskInv, Target
        <5>2. desk[a].was.default
          BY <2>1, <3>1, <4>1, <5>1
        <5>3. desk[a].was.kind # desk[a].form.kind
          BY <1>0, <2>1, <4>1, <5>1, <5>2 DEF OneDefaultEach, Live
        <5> QED BY <1>1, <4>3, <5>2, <5>3 DEF RefusalExplained
      <4> QED BY <1>0, <3>3, <4>2, <4>3 DEF DeskInv
    <3> QED BY <3>2, <3>3
  <2> QED BY <1>0, <2>1, <2>3, <2>4 DEF RowShape
<1> QED BY <1>1, <1>2, <1>3 DEF Refuse, RefusalExplained

SourcesMove ==
  /\ \A a \in Operators : desk[a].at = "begun" /\ desk'[a].at = "refused" => RefusalExplained(a)
  /\ \A s \in Sources : row[s].state = "deleted" /\ row'[s].state = "live" => ReturnExplained(s)

LEMMA SourcesStep == SourcesInv /\ [Next]_cpVars => SourcesInv' /\ [SourcesMove]_sourceVars
<1> SUFFICES ASSUME SourcesInv, [Next]_cpVars PROVE SourcesInv' /\ [SourcesMove]_sourceVars
  OBVIOUS
<1>0. desk \in [Operators -> DeskShape] /\ row \in [Sources -> RowShape]
  BY DEF SourcesInv
<1>1. ASSUME UNCHANGED sourceVars PROVE SourcesInv' /\ [SourcesMove]_sourceVars
  BY <1>1 DEF sourceVars, SourcesInv, OneDefaultEach, DeskInv, Defaults, Live
<1>2. ASSUME NEW a \in Operators, NEW r \in Replicas, EditSource(a, r)
      PROVE  SourcesInv' /\ SourcesMove
  <2>1. \A b \in Operators : desk[b].at = "begun" => desk'[b].at # "refused"
    <3>1. ASSUME NEW op, NEW s, NEW f, NEW m, Begin(a, r, op, s, f, m), NEW b \in Operators
          PROVE  desk'[b].at = desk[b].at \/ desk'[b].at = "begun"
      BY <1>0, <3>1 DEF Begin
    <3>2. ASSUME NEW s \in Sources, deleteSource(a, r, s), NEW b \in Operators
          PROVE  desk'[b].at = desk[b].at \/ desk'[b].at = "committed"
      <4> DEFINE d == [Idle EXCEPT !.at = "committed", !.op = "delete", !.id = s, !.on = r]
      <4>1. d.at = "committed"
        BY AnySource DEF Idle
      <4>2. desk'[b] = IF b = a THEN d ELSE [desk[b] EXCEPT !.overlapped = TRUE]
        BY <3>2 DEF deleteSource
      <4> HIDE DEF d
      <4> QED BY <1>0, <4>1, <4>2 DEF DeskShape
    <3> QED BY <1>2, <3>1, <3>2 DEF EditSource, createSource, updateSource, setDefaultSource
  <2>2. \A s \in Sources : row[s].state = "deleted" => row'[s].state # "live"
    BY <1>0, <1>2 DEF EditSource, createSource, updateSource, setDefaultSource, deleteSource, Begin, RowShape
  <2> QED BY <1>2, <2>1, <2>2, EditInv DEF SourcesMove
<1>3. ASSUME NEW a \in Operators, CommitSource(a) PROVE SourcesInv' /\ SourcesMove
  <2>1. \A b \in Operators : desk[b].at = "begun" => desk'[b].at # "refused"
    <3> DEFINE d == [Idle EXCEPT !.at = "committed", !.op = desk[a].op, !.id = Target(a), !.on = desk[a].on]
    <3>1. d.at = "committed"
      BY AnySource DEF Idle
    <3>2. \A b \in Operators : desk'[b] = IF b = a THEN d ELSE [desk[b] EXCEPT !.overlapped = TRUE]
      BY <1>3 DEF CommitSource
    <3> HIDE DEF d
    <3> QED BY <1>0, <3>1, <3>2 DEF DeskShape
  <2> QED BY <1>3, <2>1, CommitInv DEF SourcesMove
<1>4. ASSUME NEW a \in Operators, Refuse(a) PROVE SourcesInv' /\ SourcesMove
  <2>1. row' = row /\ \A b \in Operators \ {a} : desk'[b] = desk[b]
    BY <1>0, <1>4 DEF Refuse
  <2> QED BY <1>4, <2>1, RefuseInv DEF SourcesMove
<1>5. ASSUME NEW a \in Operators, Replied(a) PROVE SourcesInv' /\ SourcesMove
  <2>1. row' = row /\ desk' = [desk EXCEPT ![a] = Idle] /\ desk'[a] = Idle
        /\ \A b \in Operators \ {a} : desk'[b] = desk[b]
    BY <1>0, <1>5 DEF Replied
  <2>2. DeskInv(a)'
    BY <2>1, AnySource DEF DeskInv
  <2>3. SourcesInv'
    BY <2>1, <2>2, AnySource, DeskTouched
  <2> QED BY <2>1, <2>3, AnySource DEF SourcesMove
<1>6. ASSUME NEW r \in Replicas, DropDesks(r) PROVE SourcesInv' /\ SourcesMove
  <2>1. row' = row /\ \A a \in Operators : desk'[a] = Idle \/ desk'[a] = desk[a]
    BY <1>6 DEF DropDesks
  <2>2. desk' \in [Operators -> DeskShape]
    BY <1>0, <1>6, AnySource DEF DropDesks
  <2>3. \A a \in Operators : DeskInv(a)'
    BY <2>1, AnySource DEF SourcesInv, DeskInv, Defaults, Live
  <2> QED BY <2>1, <2>2, <2>3, AnySource DEF SourcesMove, SourcesInv, OneDefaultEach
<1>7. CASE Lifecycle
  BY <1>1, <1>6, <1>7 DEF Lifecycle, Starts, ProvidePipeline, Serve, Die, UsesKeys
<1>8. CASE Linking
  BY <1>1, <1>8 DEF Linking, Dials, Breaks
<1>9. CASE Registry
  BY <1>1, <1>2, <1>3, <1>4, <1>5, <1>9 DEF Registry, EndSource, NotifySource, HearSource, Manages, FloorTicks, LoadFails, Syncs
<1>10. CASE Rules \/ Views \/ UNCHANGED cpVars
  BY <1>1, <1>10 DEF Rules, Views, cpVars
<1> QED BY <1>7, <1>8, <1>9, <1>10 DEF Next

THEOREM SourcesInvariant == Spec => []SourcesInv
<1> QED BY SourcesInitInv, SourcesStep, PTL DEF Spec

(* A handler of the registry is refused only where that can be explained,  *)
(* and a deleted source comes back only by an update that had read it      *)
(* before (createSource, updateSource, setDefaultSource, deleteSource).    *)
THEOREM EditsAreExplained == Spec => EditsExplained
<1>1. Spec => [][SourcesMove]_sourceVars
  BY SourcesStep, SourcesInvariant, PTL DEF Spec
<1> QED BY <1>1 DEF EditsExplained, SourcesMove

-----------------------------------------------------------------------------
(* Types.                                                                  *)

(* The bounds, and the secret of a row.                                    *)
LeftInv == left \in [Bounds -> Nat] /\ secret \in {"none", "plain", "cipher"}

LEMMA LeftStep == LeftInv /\ [Next]_cpVars => LeftInv'
<1> SUFFICES ASSUME LeftInv, [Next]_cpVars PROVE LeftInv'
  OBVIOUS
<1>1. ASSUME NEW b \in Bounds, Spend(b) PROVE left' \in [Bounds -> Nat]
  BY <1>1 DEF Spend, LeftInv
<1>2. {"forms", "deaths", "edits", "rules", "changes", "faults"} \subseteq Bounds
  BY DEF Bounds
<1>3. left' = left \/ \E b \in Bounds : Spend(b)
  <2>1. ASSUME NEW r \in Replicas, Starts(r) PROVE left' = left
    BY <2>1 DEF Starts, StartStep, Migrate, MarkDirty, Execute, MarkClean, CheckPair, StorePublic,
         StorePrivate, CheckInitialized, StoreJWT, MarkInitialized, LoadPair, LoadJWT
  <2>2. ASSUME NEW r \in Replicas, ProvidePipeline(r) \/ Serve(r) PROVE left' = left
    BY <2>2 DEF ProvidePipeline, InitRBAC, Serve
  <2>3. ASSUME NEW r \in Replicas, Die(r) PROVE Spend("deaths")
    BY <2>3 DEF Die
  <2>4. ASSUME NEW b \in Browsers, NEW r \in Replicas, UsesKeys(b, r) PROVE Spend("forms")
    BY <2>4 DEF UsesKeys, UserStep, GetPublicKey, Login, DecodeClientCipher, UpdateRoleEndpoints
  <2>5. CASE Lifecycle
    BY <1>2, <2>1, <2>2, <2>3, <2>4, <2>5 DEF Lifecycle
  <2>6. CASE Linking
    BY <1>2, <2>6 DEF Linking, Dials, Breaks, startVars
  <2>7. CASE Registry
    BY <1>2, <2>7 DEF Registry, EditSource, EndSource, NotifySource, HearSource, Manages, FloorTicks, LoadFails,
         Syncs, startVars
  <2>8. CASE Rules
    BY <1>2, <2>8 DEF Rules, startVars
  <2>9. CASE Views
    BY <1>2, <2>9 DEF Views, startVars
  <2>10. CASE UNCHANGED cpVars
    BY <2>10 DEF cpVars, startVars
  <2> QED BY <2>5, <2>6, <2>7, <2>8, <2>9, <2>10 DEF Next
<1>4. secret' \in {secret, "plain", "cipher"}
  <2>1. ASSUME NEW r \in Replicas, StartStep(r) PROVE secret' = secret
    BY <2>1 DEF StartStep, Migrate, MarkDirty, Execute, MarkClean, CheckPair, StorePublic,
         StorePrivate, CheckInitialized, StoreJWT, MarkInitialized, LoadPair, LoadJWT
  <2>2. ASSUME NEW r \in Replicas, ProvidePipeline(r) \/ Comes(r) \/ Goes(r) PROVE secret' = secret
    BY <2>2 DEF ProvidePipeline, InitRBAC, Comes, Goes, rest
  <2>3. ASSUME NEW b \in Browsers, NEW r \in Replicas, UserStep(b, r) PROVE secret' \in {secret, "plain", "cipher"}
    BY <2>3 DEF UserStep, GetPublicKey, Login, DecodeClientCipher, UpdateRoleEndpoints
  <2> QED BY <2>1, <2>2, <2>3, StartMoves DEF rest
<1> QED BY <1>1, <1>3, <1>4 DEF LeftInv

(* Every key that is stored, or about to be, has been made.                *)
MadeInv ==
  /\ config.public <= config.keys /\ config.private <= config.keys /\ config.jwt <= config.keys
  /\ \A r \in Replicas : proc[r].made <= config.keys

LEMMA MadeStep == StartShape /\ MadeInv /\ [Next]_cpVars => MadeInv'
<1> SUFFICES ASSUME StartShape, MadeInv, [Next]_cpVars PROVE MadeInv'
  OBVIOUS
<1>0. config \in ConfigShape /\ proc \in [Replicas -> ProcShape]
  BY DEF StartShape
<1>1. /\ config.public \in Nat /\ config.private \in Nat /\ config.jwt \in Nat /\ config.keys \in Nat
      /\ \A r \in Replicas : proc[r].made \in Nat
  BY <1>0 DEF ConfigShape, ProcShape
<1>2. ASSUME NEW r \in Replicas, Others(r), proc'[r].made \in {0, proc[r].made},
             config'.keys = config.keys,
             config'.public \in {config.public, proc[r].made}, config'.private \in {config.private, proc[r].made},
             config'.jwt \in {config.jwt, proc[r].made}
      PROVE  MadeInv'
  <2>1. \A s \in Replicas : proc'[s].made <= config'.keys
    BY <1>1, <1>2 DEF MadeInv, Others
  <2> QED BY <1>2, <2>1 DEF MadeInv
<1>3. ASSUME NEW r \in Replicas, Others(r), proc'[r].made \in {0, proc[r].made}, UNCHANGED config PROVE MadeInv'
  BY <1>2, <1>3
<1>4. ASSUME NEW r \in Replicas, Migrate(r) \/ Goes(r) PROVE MadeInv'
  <2>1. PICK p : proc' = [proc EXCEPT ![r] = p] /\ p.made = 0
    <3>1. Down.made = 0 /\ [Down EXCEPT !.at = "pending", !.applied = schema.clean,
                            !.todo = {f \in Files : version[f] \notin schema.clean}].made = 0
      BY DEF Down
    <3> QED BY <1>4, <3>1 DEF Migrate, Goes
  <2>2. proc'[r].made = 0 /\ Others(r) /\ UNCHANGED config
    BY <1>0, <1>4, <2>1 DEF Migrate, Goes, Others, rest
  <2> QED BY <1>3, <2>2
<1>5. ASSUME NEW r \in Replicas, MarkDirty(r) PROVE MadeInv'
  <2>1. PICK f \in proc[r].todo :
          proc' = [proc EXCEPT ![r] = [proc[r] EXCEPT !.at = "marked", !.file = f, !.todo = @ \ {f}]]
    BY <1>5 DEF MarkDirty
  <2>2. proc'[r].made = proc[r].made /\ Others(r)
    BY <1>0, <2>1 DEF Others, ProcShape
  <2> QED BY <1>3, <1>5, <2>2 DEF MarkDirty
<1>6. ASSUME NEW r \in Replicas, \/ Execute(r) \/ MarkClean(r) \/ Comes(r)
                                 \/ StorePublic(r) \/ StorePrivate(r) \/ StoreJWT(r) \/ MarkInitialized(r)
      PROVE  MadeInv'
  <2>1. \E at \in Places : Goto(r, at)
    BY <1>6 DEF Execute, MarkClean, Comes, StorePublic, StorePrivate, StoreJWT, MarkInitialized, Places
  <2>2. proc'[r].made = proc[r].made /\ Others(r)
    BY <1>0, <2>1, Gone
  <2>3. /\ config'.keys = config.keys
        /\ config'.public \in {config.public, proc[r].made} /\ config'.private \in {config.private, proc[r].made}
        /\ config'.jwt \in {config.jwt, proc[r].made}
    BY <1>0, <1>6 DEF Execute, MarkClean, Comes, StorePublic, StorePrivate, StoreJWT, MarkInitialized, rest, ConfigShape
  <2> QED BY <1>2, <2>2, <2>3
<1>7. ASSUME NEW r \in Replicas, CheckPair(r) \/ CheckInitialized(r) PROVE MadeInv'
  <2>1. \/ UNCHANGED config /\ \E at \in Places : Goto(r, at)
        \/ /\ \E at \in Places : proc' = [proc EXCEPT ![r].at = at, ![r].made = config.keys + 1]
           /\ config' = [config EXCEPT !.keys = @ + 1]
    BY <1>7 DEF CheckPair, CheckInitialized, Places
  <2>2. ASSUME NEW at \in Places, Goto(r, at), UNCHANGED config PROVE MadeInv'
    <3>1. proc'[r].made = proc[r].made /\ Others(r)
      BY <1>0, <2>2, Gone
    <3> QED BY <1>3, <2>2, <3>1
  <2>3. ASSUME NEW at \in Places, proc' = [proc EXCEPT ![r].at = at, ![r].made = config.keys + 1],
               config' = [config EXCEPT !.keys = @ + 1]
        PROVE  MadeInv'
    <3>1. proc'[r].made = config.keys + 1 /\ Others(r)
      BY <1>0, <2>3, Made
    <3>2. /\ config'.keys = config.keys + 1 /\ config'.public = config.public /\ config'.private = config.private
          /\ config'.jwt = config.jwt
      BY <1>0, <2>3 DEF ConfigShape
    <3>3. \A s \in Replicas : proc'[s].made <= config'.keys
      BY <1>1, <3>1, <3>2 DEF MadeInv, Others
    <3> QED BY <1>1, <3>2, <3>3 DEF MadeInv
  <2> QED BY <2>1, <2>2, <2>3
<1>8. ASSUME NEW r \in Replicas, LoadPair(r) \/ LoadJWT(r) PROVE MadeInv'
  <2>1. CASE LoadPair(r)
    <3>1. proc' = [proc EXCEPT ![r] = [proc[r] EXCEPT !.at = "load jwt", !.pair = config.private]] /\ UNCHANGED config
      BY <2>1 DEF LoadPair
    <3>2. proc'[r].made = proc[r].made /\ Others(r)
      BY <1>0, <3>1 DEF Others, ProcShape
    <3> QED BY <1>3, <3>1, <3>2
  <2>2. CASE LoadJWT(r)
    <3>1. proc' = [proc EXCEPT ![r] = [proc[r] EXCEPT !.at = "wired", !.jwt = config.jwt]] /\ UNCHANGED config
      BY <2>2 DEF LoadJWT
    <3>2. proc'[r].made = proc[r].made /\ Others(r)
      BY <1>0, <3>1 DEF Others, ProcShape
    <3> QED BY <1>3, <3>1, <3>2
  <2> QED BY <1>8, <2>1, <2>2
<1>9. ASSUME NEW r \in Replicas, ProvidePipeline(r) PROVE MadeInv'
  <2>1. InitRBAC(r) /\ UNCHANGED config
    BY <1>9 DEF ProvidePipeline, InitRBAC
  <2>2. PICK p : proc' = [proc EXCEPT ![r] = p] /\ p.made = proc[r].made
    <3>1. /\ [proc[r] EXCEPT !.at = "check pair", !.acl = role, !.loaded = TRUE].made = proc[r].made
          /\ [proc[r] EXCEPT !.at = "check pair"].made = proc[r].made
      BY <1>0 DEF ProcShape
    <3>2. \/ proc' = [proc EXCEPT ![r] = [proc[r] EXCEPT !.at = "check pair", !.acl = role, !.loaded = TRUE]]
          \/ proc' = [proc EXCEPT ![r] = [proc[r] EXCEPT !.at = "check pair"]]
      BY <2>1 DEF InitRBAC
    <3> QED BY <3>1, <3>2
  <2>3. proc'[r].made = proc[r].made /\ Others(r)
    BY <1>0, <2>2 DEF Others
  <2> QED BY <1>3, <2>1, <2>3
<1>10. CASE UNCHANGED <<rest, proc>> \/ \E b \in Browsers, r \in Replicas : UserStep(b, r)
  <2>1. UNCHANGED <<config, proc>>
    BY <1>10 DEF rest, UserStep, GetPublicKey, Login, DecodeClientCipher, UpdateRoleEndpoints
  <2> QED BY <2>1 DEF MadeInv
<1> QED BY <1>4, <1>5, <1>6, <1>7, <1>8, <1>9, <1>10, StartMoves DEF StartStep

(* Who is not up is not on the line, and who does not listen has nothing   *)
(* on its way.                                                             *)
EarInv ==
  /\ link \in Ear
  /\ \A r \in Listeners, c \in Channels : link[r][c] # "listening" => inbox[r][c] = <<>>
  /\ \A r \in Listeners, c \in Channels : proc[r].at # "up" => link[r][c] = "off"

LEMMA EarStep == StartShape /\ LinkShape /\ EarInv /\ [Next]_cpVars => EarInv'
<1> SUFFICES ASSUME StartShape, LinkShape, EarInv, [Next]_cpVars PROVE EarInv'
  OBVIOUS
<1> USE TheChannels
<1>0. /\ link \in [Listeners -> [Channels -> {"off", "broken", "listening"}]]
      /\ proc \in [Replicas -> ProcShape]
      /\ inbox = [r \in Listeners |-> [c \in Channels |-> inbox[r][c]]]
      /\ \A r \in Listeners, c \in Channels : /\ link[r][c] # "listening" => inbox[r][c] = <<>>
                                              /\ proc[r].at # "up" => link[r][c] = "off"
  BY DEF StartShape, LinkShape, EarInv, Ear
<1>1. ASSUME UNCHANGED <<link, inbox>>, \A r \in Listeners : proc[r].at = "up" => proc'[r].at = "up" PROVE EarInv'
  BY <1>1 DEF EarInv
<1>2. ASSUME NEW r \in Replicas, Starts(r) \/ ProvidePipeline(r) PROVE EarInv'
  <2>1. UNCHANGED <<link, inbox>>
    BY <1>2 DEF Starts, ProvidePipeline, linkVars
  <2>2. proc[r].at # "up"
    BY <1>2 DEF Starts, ProvidePipeline, InitRBAC, StartStep, Migrate, MarkDirty, Execute, MarkClean, CheckPair,
         StorePublic, StorePrivate, CheckInitialized, StoreJWT, MarkInitialized, LoadPair, LoadJWT, At
  <2>3. \A s \in Replicas \ {r} : proc'[s] = proc[s]
    BY <1>0, <1>2, RolesRead, StartKeeps DEF Starts, ProvidePipeline, Others
  <2> QED BY <1>1, <2>1, <2>2, <2>3
<1>3. ASSUME NEW r \in Replicas, Serve(r) PROVE EarInv'
  <2>1. /\ proc[r].at = "wired" /\ proc' = [proc EXCEPT ![r].at = "up"]
        /\ link' = [link EXCEPT ![r] = [c \in Channels |-> "broken"]] /\ inbox' = inbox
    BY <1>3 DEF Serve, At, Goto, Dial
  <2>2. link' \in Ear /\ \A s \in Listeners \ {r} : link'[s] = link[s] /\ proc'[s] = proc[s]
    BY <1>0, <2>1 DEF Ear
  <2>3. proc'[r].at = "up" /\ \A c \in Channels : inbox[r][c] = <<>>
    <3>1. proc'[r].at = "up"
      BY <1>0, <2>1, Gone DEF Goto
    <3>2. \A c \in Channels : link[r][c] = "off"
      BY <1>0, <2>1
    <3> QED BY <1>0, <3>1, <3>2
  <2> QED BY <1>0, <2>1, <2>2, <2>3 DEF EarInv
<1>4. ASSUME NEW r \in Replicas, Die(r) PROVE EarInv'
  <2>1. /\ proc' = [proc EXCEPT ![r] = Down]
        /\ link' = [link EXCEPT ![r] = [c \in Channels |-> "off"]]
        /\ inbox' = [inbox EXCEPT ![r] = [c \in Channels |-> <<>>]]
    BY <1>4 DEF Die
  <2>2. /\ link' \in Ear /\ \A c \in Channels : link'[r][c] = "off"
        /\ \A s \in Listeners \ {r} : link'[s] = link[s] /\ proc'[s] = proc[s]
    BY <1>0, <2>1 DEF Ear
  <2>3. (\A c \in Channels : inbox'[r][c] = <<>>) /\ \A s \in Listeners \ {r} : inbox'[s] = inbox[s]
    BY <1>0, <2>1
  <2>4. ASSUME NEW s \in Listeners, NEW c \in Channels
        PROVE  /\ link'[s][c] # "listening" => inbox'[s][c] = <<>>
               /\ proc'[s].at # "up" => link'[s][c] = "off"
    <3>1. CASE s = r
      BY <2>2, <2>3, <3>1
    <3>2. CASE s # r
      <4>1. link'[s] = link[s] /\ proc'[s] = proc[s] /\ inbox'[s] = inbox[s]
        BY <2>2, <2>3, <3>2
      <4> QED BY <1>0, <4>1
    <3> QED BY <3>1, <3>2
  <2> QED BY <2>2, <2>4 DEF EarInv
<1>5. ASSUME NEW r \in Replicas, NEW c \in Channels, Dials(r, c) \/ Breaks(r, c) PROVE EarInv'
  <2>1. PICK ear \in {"broken", "listening"} : link' = [link EXCEPT ![r][c] = ear] /\ link[r][c] # "off"
    BY <1>5 DEF Dials, Connect, Breaks, Break
  <2>2. /\ proc' = proc
        /\ \/ inbox' = inbox /\ ear = "listening"
           \/ inbox' = [inbox EXCEPT ![r] = [inbox[r] EXCEPT ![c] = <<>>]]
    <3>1. CASE Dials(r, c)
      <4>1. link'[r][c] = "listening" /\ link'[r][c] = ear
        BY <1>0, <2>1, <3>1 DEF Dials, Connect
      <4> QED BY <3>1, <4>1 DEF Dials, Connect, startVars
    <3>2. CASE Breaks(r, c)
      BY <3>2 DEF Breaks, Break
    <3> QED BY <1>5, <3>1, <3>2
  <2>3. link' \in Ear /\ \A s \in Listeners, d \in Channels : link'[s][d] = IF s = r /\ d = c THEN ear ELSE link[s][d]
    BY <1>0, <2>1 DEF Ear
  <2>4. proc[r].at = "up"
    BY <1>0, <2>1
  <2>5. /\ \A s \in Listeners, d \in Channels : inbox'[s][d] = inbox[s][d] \/ inbox'[s][d] = <<>>
        /\ ear = "listening" \/ inbox'[r][c] = <<>>
    <3>1. CASE inbox' = inbox /\ ear = "listening"
      BY <3>1
    <3>2. CASE inbox' = [inbox EXCEPT ![r] = [inbox[r] EXCEPT ![c] = <<>>]]
      <4>1. /\ r \in DOMAIN inbox /\ c \in DOMAIN inbox[r]
            /\ \A s \in Listeners : s \in DOMAIN inbox /\ DOMAIN inbox[s] = Channels
        BY <1>0
      <4>2. inbox'[r] = [inbox[r] EXCEPT ![c] = <<>>] /\ \A s \in Listeners \ {r} : inbox'[s] = inbox[s]
        BY <3>2, <4>1
      <4> QED BY <4>1, <4>2
    <3> QED BY <2>2, <3>1, <3>2
  <2>6. ASSUME NEW s \in Listeners, NEW d \in Channels
        PROVE  /\ link'[s][d] # "listening" => inbox'[s][d] = <<>>
               /\ proc'[s].at # "up" => link'[s][d] = "off"
    <3>1. CASE s = r /\ d = c
      BY <2>2, <2>3, <2>4, <2>5, <3>1
    <3>2. CASE ~(s = r /\ d = c)
      <4>1. link'[s][d] = link[s][d] /\ proc'[s] = proc[s]
        BY <2>2, <2>3, <3>2
      <4> QED BY <1>0, <2>5, <4>1
    <3> QED BY <3>1, <3>2
  <2> QED BY <2>3, <2>6 DEF EarInv
<1>6. ASSUME NEW c \in Channels, NEW what, Notify(c, what), UNCHANGED proc PROVE EarInv'
  <2>1. \A s \in Listeners, d \in Channels : inbox'[s][d] # inbox[s][d] => d = c /\ link[s][d] = "listening"
    BY <1>0, <1>6 DEF Notify
  <2> QED BY <1>0, <1>6, <2>1 DEF EarInv, Notify
<1>7. ASSUME NEW c \in Channels, NEW what, Unsent(c, what), UNCHANGED proc PROVE EarInv'
  BY <1>1, <1>7 DEF Unsent
<1>8. ASSUME NEW r \in Replicas, NEW c \in Channels, Take(r, c), UNCHANGED proc PROVE EarInv'
  <2>1. PICK t : inbox' = [inbox EXCEPT ![r] = [inbox[r] EXCEPT ![c] = t]]
    BY <1>8 DEF Take
  <2>2. \A s \in Listeners, d \in Channels : inbox'[s][d] # inbox[s][d] => s = r /\ d = c
    BY <1>0, <2>1
  <2> QED BY <1>0, <1>8, <2>2 DEF EarInv, Take
<1>9. ASSUME UNCHANGED <<linkVars, proc>> PROVE EarInv'
  BY <1>1, <1>9 DEF linkVars
<1>10. CASE Lifecycle
  <2>1. ASSUME NEW b \in Browsers, NEW r \in Replicas, UsesKeys(b, r) PROVE EarInv'
    BY <1>9, <2>1 DEF UsesKeys, UserStep, GetPublicKey, Login, DecodeClientCipher, UpdateRoleEndpoints
  <2> QED BY <1>2, <1>3, <1>4, <1>10, <2>1 DEF Lifecycle
<1>11. CASE Registry
  <2>1. UNCHANGED proc
    BY <1>11 DEF Registry, EditSource, EndSource, NotifySource, HearSource, Manages, FloorTicks, LoadFails, Syncs,
         restOfStart, startVars
  <2>2. CASE UNCHANGED linkVars
    BY <1>9, <2>1, <2>2
  <2>3. ASSUME NEW a \in Operators, NotifySource(a) PROVE EarInv'
    <3>1. \/ Notify("data_source_event", desk[a].id) \/ Unsent("data_source_event", {desk[a].id})
      BY <2>3 DEF NotifySource
    <3> QED BY <1>6, <1>7, <2>1, <3>1
  <2>4. ASSUME NEW r \in Replicas, HearSource(r) PROVE EarInv'
    BY <1>8, <2>1, <2>4 DEF HearSource
  <2> QED BY <1>11, <2>2, <2>3, <2>4 DEF Registry, EditSource, EndSource, Manages, FloorTicks, LoadFails, Syncs
<1>12. CASE Rules
  <2>1. UNCHANGED proc
    BY <1>12 DEF Rules, restOfStart, startVars
  <2>2. CASE UNCHANGED linkVars
    BY <1>9, <2>1, <2>2
  <2>3. ASSUME NEW r \in Replicas, NEW t \in Tables, NotifyPipeline(r, t) \/ NotifyFails(r, t) PROVE EarInv'
    BY <1>6, <1>7, <2>1, <2>3 DEF NotifyPipeline, NotifyFails
  <2>4. ASSUME NEW r \in Replicas, ReloadRules(r) PROVE EarInv'
    BY <1>8, <2>1, <2>4 DEF ReloadRules
  <2> QED BY <1>12, <2>2, <2>3, <2>4 DEF Rules, EditRule, SilenceBegins, LoadTable, LoadTableFails
<1>13. CASE Views
  <2>1. UNCHANGED proc
    BY <1>13 DEF Views, restOfStart, startVars
  <2>2. CASE UNCHANGED linkVars
    BY <1>9, <2>1, <2>2
  <2>3. ASSUME NEW r \in Replicas, NEW i \in Incidents, NotifyIncident(r, i) \/ NotifyIncidentFails(r, i) PROVE EarInv'
    BY <1>6, <1>7, <2>1, <2>3 DEF NotifyIncident, NotifyIncidentFails
  <2>4. ASSUME NEW r \in Replicas, Broadcast(r) PROVE EarInv'
    BY <1>8, <2>1, <2>4 DEF Broadcast
  <2> QED BY <1>13, <2>2, <2>3, <2>4 DEF Views, ChangeIncident, CloseSocket, OpenSocket, Subscribe, Deliver, Refetch
<1>14. CASE Linking \/ UNCHANGED cpVars
  BY <1>5, <1>9, <1>14 DEF Linking, cpVars, startVars
<1> QED BY <1>10, <1>11, <1>12, <1>13, <1>14 DEF Next

(* The managers.  One that is off has no readers.                          *)
MgrShape == [at : {"off", "wait", "window", "load", "apply"}, ask : BOOLEAN, rows : [Sources -> RowShape]]
GroupShape == [state : {"none", "running", "stopped"}, cfg : Configs \cup {CHOOSE c \in Configs : TRUE}]
ReadersInv ==
  /\ mgr \in [Servers -> MgrShape]
  /\ group \in [Servers -> [Sources -> GroupShape]]
  /\ cluster \in [Servers -> [Sources -> {"none", "syncing", "ready", "not ready"}]]
  /\ \A r \in Servers : mgr[r].at = "off" => \A s \in Sources : group[r][s] = NoGroup

LEMMA NoReaders == NoGroup \in GroupShape /\ NoRows \in [Sources -> RowShape] /\ Off \in MgrShape /\ Off.at = "off"
<1>1. NoRows \in [Sources -> RowShape]
  BY AnySource DEF NoRows
<1> QED BY <1>1 DEF NoGroup, GroupShape, Off, MgrShape

(* One manager moves, and its group is another only where it is on. *)
LEMMA MgrMoves ==
  ASSUME ReadersInv, NEW r \in Servers, NEW m \in MgrShape, mgr' = [mgr EXCEPT ![r] = m],
         group' \in [Servers -> [Sources -> GroupShape]],
         cluster' \in [Servers -> [Sources -> {"none", "syncing", "ready", "not ready"}]],
         \A s \in Servers \ {r} : group'[s] = group[s],
         m.at = "off" => \A x \in Sources : group'[r][x] = NoGroup
  PROVE  ReadersInv'
<1>1. mgr' \in [Servers -> MgrShape] /\ mgr'[r] = m /\ \A s \in Servers \ {r} : mgr'[s] = mgr[s]
  BY DEF ReadersInv
<1>2. ASSUME NEW s \in Servers, mgr'[s].at = "off", NEW x \in Sources PROVE group'[s][x] = NoGroup
  <2>1. CASE s = r
    <3>1. mgr'[s] = m
      BY <1>1, <2>1
    <3>2. m.at = "off"
      BY <1>2, <3>1
    <3> QED BY <2>1, <3>2
  <2>2. CASE s # r
    <3>1. mgr'[s] = mgr[s] /\ group'[s] = group[s]
      BY <1>1, <2>2
    <3>2. mgr[s].at = "off"
      BY <1>2, <3>1
    <3>3. group[s][x] = NoGroup
      BY <3>2 DEF ReadersInv
    <3> QED BY <3>1, <3>3
  <2> QED BY <2>1, <2>2
<1> QED BY <1>1, <1>2 DEF ReadersInv

LEMMA Reconciled ==
  ASSUME ReadersInv, NEW r \in Servers, NEW s \in Sources
  PROVE  Reconcile(r, s) \in GroupShape
<1>1. PICK w, g : w = mgr[r].rows[s] /\ g = group[r][s]
  OBVIOUS
<1>2. w.cfg \in Configs \cup {CHOOSE c \in Configs : TRUE}
  <2>1. mgr[r].rows \in [Sources -> RowShape]
    BY DEF ReadersInv, MgrShape
  <2>2. w \in RowShape
    BY <1>1, <2>1
  <2> QED BY <2>2 DEF RowShape
<1>3. g \in GroupShape
  BY <1>1 DEF ReadersInv
<1>4. [state |-> "running", cfg |-> w.cfg] \in GroupShape /\ [g EXCEPT !.state = "stopped"] \in GroupShape
  BY <1>2, <1>3 DEF GroupShape
<1>5. Reconcile(r, s) \in {NoGroup, g, [state |-> "running", cfg |-> w.cfg], [g EXCEPT !.state = "stopped"]}
  BY <1>1 DEF Reconcile
<1> QED BY <1>3, <1>4, <1>5, NoReaders

LEMMA MgrStep ==
  ASSUME ReadersInv, SourcesInv, NEW r \in Servers,
         \/ ManagerStep(r) \/ Floor(r) \/ LoadRowsFails(r) \/ RequestReload(r)
         \/ StartReaders(r) \/ StopReaders(r) \/ \E s \in Sources : SyncCluster(r, s)
  PROVE  ReadersInv'
<1>0. /\ mgr \in [Servers -> MgrShape] /\ mgr[r] \in MgrShape
      /\ group \in [Servers -> [Sources -> GroupShape]]
      /\ cluster \in [Servers -> [Sources -> {"none", "syncing", "ready", "not ready"}]]
      /\ mgr[r].at = "off" => \A s \in Sources : group[r][s] = NoGroup
      /\ row \in [Sources -> RowShape]
  BY DEF ReadersInv, SourcesInv
<1>1. ASSUME NEW m \in MgrShape, mgr' = [mgr EXCEPT ![r] = m], UNCHANGED <<group, cluster>>,
             m.at = "off" => mgr[r].at = "off"
      PROVE  ReadersInv'
  BY <1>0, <1>1, MgrMoves
<1>2. ASSUME NEW at \in {"wait", "window", "load", "apply"}, Phase(r, at) PROVE ReadersInv'
  <2> DEFINE m == [mgr[r] EXCEPT !.at = at]
  <2>1. mgr' = [mgr EXCEPT ![r] = m] /\ UNCHANGED <<group, cluster>>
    BY <1>2 DEF Phase
  <2>2. m \in MgrShape /\ m.at = at
    BY <1>0 DEF MgrShape
  <2> QED BY <1>1, <2>1, <2>2
<1>3. CASE RequestReload(r) \/ ExtendWindow(r)
  <2>1. PICK ask \in BOOLEAN : mgr' = [mgr EXCEPT ![r].ask = ask] /\ UNCHANGED <<group, cluster>>
    BY <1>3 DEF RequestReload, ExtendWindow
  <2> DEFINE m == [mgr[r] EXCEPT !.ask = ask]
  <2>2. mgr' = [mgr EXCEPT ![r] = m]
    BY <2>1
  <2>3. m \in MgrShape /\ m.at = mgr[r].at
    BY <1>0 DEF MgrShape
  <2> QED BY <1>1, <2>1, <2>2, <2>3
<1>4. CASE OpenWindow(r)
  <2> DEFINE m == [mgr[r] EXCEPT !.at = "window", !.ask = FALSE]
  <2>1. mgr' = [mgr EXCEPT ![r] = m] /\ UNCHANGED <<group, cluster>>
    BY <1>4 DEF OpenWindow
  <2>2. m \in MgrShape /\ m.at = "window"
    BY <1>0 DEF MgrShape
  <2> QED BY <1>1, <2>1, <2>2
<1>5. CASE CloseWindow(r) \/ Floor(r) \/ LoadRowsFails(r)
  BY <1>2, <1>5 DEF CloseWindow, Floor, LoadRowsFails
<1>6. CASE LoadRows(r)
  <2> DEFINE m == [mgr[r] EXCEPT !.at = "apply", !.rows = row]
  <2>1. mgr' = [mgr EXCEPT ![r] = m] /\ UNCHANGED <<group, cluster>>
    BY <1>6 DEF LoadRows
  <2>2. m \in MgrShape /\ m.at = "apply"
    BY <1>0 DEF MgrShape
  <2> QED BY <1>1, <2>1, <2>2
<1>7. CASE Reload(r)
  <2> DEFINE m == [mgr[r] EXCEPT !.at = "wait", !.rows = NoRows]
  <2>1. /\ mgr' = [mgr EXCEPT ![r] = m] /\ cluster' = cluster
        /\ group' = [group EXCEPT ![r] = [s \in Sources |-> Reconcile(r, s)]]
    BY <1>7 DEF Reload
  <2>2. m \in MgrShape /\ m.at = "wait"
    BY <1>0, NoReaders DEF MgrShape
  <2>3. [s \in Sources |-> Reconcile(r, s)] \in [Sources -> GroupShape]
    BY Reconciled
  <2>4. group' \in [Servers -> [Sources -> GroupShape]] /\ \A s \in Servers \ {r} : group'[s] = group[s]
    BY <1>0, <2>1, <2>3
  <2> HIDE DEF m
  <2> QED BY <1>0, <2>1, <2>2, <2>4, MgrMoves
<1>8. CASE StartReaders(r)
  <2> DEFINE m == [Off EXCEPT !.at = "wait", !.ask = TRUE]
             k == [s \in Sources |-> IF Wants(row, "k8s", s) THEN "syncing" ELSE "none"]
  <2>1. mgr' = [mgr EXCEPT ![r] = m] /\ group' = group /\ cluster' = [cluster EXCEPT ![r] = k]
    BY <1>8 DEF StartReaders
  <2>2. m \in MgrShape /\ m.at = "wait"
    BY NoReaders DEF MgrShape
  <2>3. k \in [Sources -> {"none", "syncing", "ready", "not ready"}]
    OBVIOUS
  <2> HIDE DEF m, k
  <2>4. cluster' \in [Servers -> [Sources -> {"none", "syncing", "ready", "not ready"}]]
    BY <1>0, <2>1, <2>3
  <2> QED BY <1>0, <2>1, <2>2, <2>4, MgrMoves
<1>9. CASE StopReaders(r)
  <2>1. /\ mgr' = [mgr EXCEPT ![r] = Off] /\ group' = [group EXCEPT ![r] = [s \in Sources |-> NoGroup]]
        /\ cluster' = [cluster EXCEPT ![r] = [s \in Sources |-> "none"]]
    BY <1>9 DEF StopReaders
  <2>2. cluster' \in [Servers -> [Sources -> {"none", "syncing", "ready", "not ready"}]]
    BY <1>0, <2>1
  <2>3. [s \in Sources |-> NoGroup] \in [Sources -> GroupShape]
    BY NoReaders
  <2>4. /\ group' \in [Servers -> [Sources -> GroupShape]] /\ \A s \in Servers \ {r} : group'[s] = group[s]
        /\ \A s \in Sources : group'[r][s] = NoGroup
    BY <1>0, <2>1, <2>3
  <2> QED BY <2>1, <2>2, <2>4, NoReaders, MgrMoves
<1>10. ASSUME NEW s \in Sources, SyncCluster(r, s) PROVE ReadersInv'
  <2>1. PICK result \in {"ready", "not ready"} : cluster' = [cluster EXCEPT ![r][s] = result]
    BY <1>10 DEF SyncCluster
  <2>2. cluster' \in [Servers -> [Sources -> {"none", "syncing", "ready", "not ready"}]]
    BY <1>0, <2>1
  <2> QED BY <1>10, <2>2 DEF SyncCluster, ReadersInv
<1> QED BY <1>3, <1>4, <1>5, <1>6, <1>7, <1>8, <1>9, <1>10 DEF ManagerStep

LEMMA ReadersStep == SourcesInv /\ ReadersInv /\ [Next]_cpVars => ReadersInv'
<1> SUFFICES ASSUME SourcesInv, ReadersInv, [Next]_cpVars PROVE ReadersInv'
  OBVIOUS
<1> USE TheChannels
<1>1. ASSUME UNCHANGED readerVars PROVE ReadersInv'
  BY <1>1 DEF ReadersInv, readerVars
<1>2. CASE Lifecycle
  BY <1>1, <1>2, MgrStep DEF Lifecycle, Starts, ProvidePipeline, Serve, Die, UsesKeys
<1>3. CASE Registry
  BY <1>1, <1>3, MgrStep DEF Registry, EditSource, EndSource, NotifySource, HearSource, Manages, FloorTicks,
     LoadFails, Syncs
<1>4. CASE Linking \/ Rules \/ Views \/ UNCHANGED cpVars
  BY <1>1, <1>4 DEF Linking, Dials, Breaks, Rules, Views, cpVars
<1> QED BY <1>2, <1>3, <1>4 DEF Next

(* Nobody has read an edition that has not been written yet. *)
EditionInv == \A t \in Tables : 1 <= edition[t] /\ \A r \in Listeners : 1 <= engine[r].has[t] /\ engine[r].has[t] <= edition[t]

LEMMA EditionStep == RulesShape /\ EditionInv /\ [Next]_cpVars => EditionInv'
<1> SUFFICES ASSUME RulesShape, EditionInv, [Next]_cpVars PROVE EditionInv'
  OBVIOUS
<1> USE TheChannels
<1>0. /\ edition \in [Tables -> Nat]
      /\ engine \in [Listeners -> [has : [Tables -> Nat], todo : SUBSET Tables]]
      /\ \A t \in Tables : edition[t] \in Nat /\ \A r \in Listeners : engine[r].has[t] \in Nat
  BY DEF RulesShape
<1>1. ASSUME \A t \in Tables : edition'[t] = edition[t] \/ edition'[t] = edition[t] + 1,
             \A r \in Listeners, t \in Tables : engine'[r].has[t] = engine[r].has[t] \/ engine'[r].has[t] = edition[t]
      PROVE  EditionInv'
  <2>1. \A t \in Tables : edition[t] <= edition'[t] /\ edition'[t] \in Nat
    BY <1>0, <1>1
  <2>2. \A r \in Listeners, t \in Tables : /\ engine'[r].has[t] \in Nat
                                           /\ 1 <= engine'[r].has[t] /\ engine'[r].has[t] <= edition[t]
    BY <1>0, <1>1 DEF EditionInv
  <2> QED BY <1>0, <2>1, <2>2 DEF EditionInv
<1>2. ASSUME UNCHANGED <<edition, engine>> PROVE EditionInv'
  BY <1>2 DEF EditionInv
<1>3. ASSUME NEW r \in Replicas, ProvidePipeline(r) PROVE EditionInv'
  <2>1. engine' = [engine EXCEPT ![r] = [has |-> edition, todo |-> {}]] /\ edition' = edition
    BY <1>3 DEF ProvidePipeline
  <2>2. engine'[r].has = edition /\ \A s \in Listeners \ {r} : engine'[s] = engine[s]
    BY <1>0, <2>1
  <2> QED BY <1>1, <2>1, <2>2
<1>4. ASSUME NEW r \in Replicas, NEW todo, engine' = [engine EXCEPT ![r].todo = todo], edition' = edition PROVE EditionInv'
  <2>1. \A s \in Listeners : engine'[s].has = engine[s].has
    BY <1>0, <1>4
  <2> QED BY <1>1, <1>4, <2>1
<1>5. ASSUME NEW r \in Replicas, Die(r) PROVE EditionInv'
  BY <1>4, <1>5 DEF Die
<1>6. ASSUME NEW t \in Tables, edition' = [edition EXCEPT ![t] = @ + 1], engine' = engine PROVE EditionInv'
  <2>1. \A u \in Tables : edition'[u] = edition[u] \/ edition'[u] = edition[u] + 1
    BY <1>0, <1>6
  <2> QED BY <1>1, <1>6, <2>1
<1>7. ASSUME NEW r \in Replicas, ReloadRules(r) PROVE EditionInv'
  BY <1>4, <1>7 DEF ReloadRules
<1>8. ASSUME NEW r \in Replicas, NEW t \in Tables, LoadTable(r, t) PROVE EditionInv'
  <2>1. engine' = [engine EXCEPT ![r] = [has |-> [engine[r].has EXCEPT ![t] = edition[t]], todo |-> engine[r].todo \ {t}]]
        /\ edition' = edition
    BY <1>8 DEF LoadTable
  <2>2. engine'[r].has = [engine[r].has EXCEPT ![t] = edition[t]] /\ \A s \in Listeners \ {r} : engine'[s] = engine[s]
    BY <1>0, <2>1
  <2>3. \A u \in Tables : engine'[r].has[u] = engine[r].has[u] \/ engine'[r].has[u] = edition[u]
    BY <1>0, <2>2
  <2> QED BY <1>1, <2>1, <2>2, <2>3
<1>9. ASSUME NEW r \in Replicas, NEW t \in Tables, LoadTableFails(r, t) PROVE EditionInv'
  <2>1. engine' = [engine EXCEPT ![r].todo = engine[r].todo \ {t}] /\ edition' = edition
    BY <1>9 DEF LoadTableFails
  <2> QED BY <1>4, <2>1
<1>10. CASE Lifecycle
  BY <1>2, <1>3, <1>5, <1>10 DEF Lifecycle, Starts, Serve, UsesKeys, ruleVars
<1>11. CASE Rules
  BY <1>2, <1>6, <1>7, <1>8, <1>9, <1>11, RuleReloadAssumption
     DEF Rules, EditRule, SilenceBegins, NotifyPipeline, NotifyFails
<1>12. CASE Linking \/ Registry \/ Views \/ UNCHANGED cpVars
  <2>1. UNCHANGED ruleVars
    BY <1>12 DEF Linking, Dials, Breaks, Registry, EditSource, EndSource, NotifySource, HearSource, Manages, FloorTicks,
       LoadFails, Syncs, Views, cpVars
  <2> QED BY <1>2, <2>1 DEF ruleVars
<1> QED BY <1>10, <1>11, <1>12 DEF Next

(* Every part of the deployment holds what the schema and the code allow.  *)
(* No key is in use that was not made, who does not listen has nothing on  *)
(* its way, no kind has two defaults, a manager that is off has no readers *)
(* and no engine works by an edition that was never written.               *)
THEOREM DeploymentTypes == Spec => []TypeOK
<1>1. Init => LeftInv /\ MadeInv /\ EarInv /\ ReadersInv /\ EditionInv
  <2> SUFFICES ASSUME Init PROVE LeftInv /\ MadeInv /\ EarInv /\ ReadersInv /\ EditionInv
    OBVIOUS
  <2>1. LeftInv
    BY DEF Init, StartInit, LeftInv
  <2>2. MadeInv
    <3>1. \A r \in Replicas : proc[r].made = 0
      BY DEF Init, StartInit, Down
    <3>2. /\ config.public \in {0, 1} /\ config.private \in {0, 1} /\ config.jwt \in {0, 2} /\ config.keys \in {0, 2}
          /\ config.keys = 0 => config.public = 0 /\ config.private = 0 /\ config.jwt = 0
      BY DEF Init, StartInit
    <3> QED BY <3>1, <3>2 DEF MadeInv
  <2>3. EarInv
    BY DEF Init, LinkInit, EarInv, Ear
  <2>4. ReadersInv
    <3>1. mgr \in [Servers -> MgrShape]
      BY NoReaders DEF Init, ReadersInit
    <3>2. group \in [Servers -> [Sources -> GroupShape]]
      BY NoReaders DEF Init, ReadersInit
    <3> QED BY <3>1, <3>2 DEF Init, ReadersInit, ReadersInv
  <2>5. EditionInv
    BY DEF Init, RulesInit, EditionInv
  <2> QED BY <2>1, <2>2, <2>3, <2>4, <2>5
<1>2. Spec => [](LeftInv /\ MadeInv /\ EarInv /\ ReadersInv /\ EditionInv)
  <2> DEFINE Known == StartShape /\ LinkShape /\ RulesShape /\ SourcesInv
             Inv == LeftInv /\ MadeInv /\ EarInv /\ ReadersInv /\ EditionInv
  <2>1. Known /\ Inv /\ [Next]_cpVars => Inv'
    BY LeftStep, MadeStep, EarStep, ReadersStep, EditionStep
  <2>2. Spec => []Known
    BY RulesInvariant, SourcesInvariant, PTL
  <2> QED BY <1>1, <2>1, <2>2, PTL DEF Spec
<1>3. StartShape /\ LeftInv /\ MadeInv => StartTypeOK
  <2> SUFFICES ASSUME StartShape, LeftInv, MadeInv PROVE StartTypeOK
    OBVIOUS
  <2>1. schema.ran \subseteq Files /\ schema.clean \cup schema.dirty \subseteq Versions
    BY DEF StartShape, SchemaShape
  <2>2. \A r \in Replicas : proc[r].at \in Places /\ proc[r].todo \subseteq Files
    BY DEF StartShape, ProcShape
  <2>3. /\ config.public \in Nat /\ config.private \in Nat /\ config.jwt \in Nat /\ config.keys \in Nat
    BY DEF StartShape, ConfigShape
  <2>4. {config.public, config.private, config.jwt} \subseteq 0 .. config.keys
    BY <2>3 DEF MadeInv
  <2> QED BY <2>1, <2>2, <2>4 DEF LeftInv, StartTypeOK
<1>4. EarInv => LinkTypeOK
  BY DEF EarInv, LinkTypeOK
<1>5. SourcesInv => SourcesTypeOK
  <2> SUFFICES ASSUME SourcesInv PROVE SourcesTypeOK
    OBVIOUS
  <2>1. \A s \in Sources : row[s].state \in {"free", "live", "deleted"}
    BY DEF SourcesInv, RowShape
  <2>2. ASSUME NEW k \in Kinds PROVE Cardinality(Defaults(k)) <= 1
    <3>1. Defaults(k) = {} \/ \E s \in Sources : Defaults(k) = {s}
      BY DEF SourcesInv, OneDefaultEach, Defaults, Live
    <3> QED BY <3>1, FS_EmptySet, FS_Singleton
  <2> QED BY <2>1, <2>2 DEF SourcesTypeOK
<1>6. ReadersInv => ReadersTypeOK
  <2> SUFFICES ASSUME ReadersInv, NEW r \in Servers
               PROVE  /\ mgr[r].at \in {"off", "wait", "window", "load", "apply"}
                      /\ \A s \in Sources :
                           /\ group[r][s].state \in {"none", "running", "stopped"}
                           /\ cluster[r][s] \in {"none", "syncing", "ready", "not ready"}
                           /\ mgr[r].at = "off" => group[r][s] = NoGroup
    BY DEF ReadersTypeOK
  <2>1. mgr[r].at \in {"off", "wait", "window", "load", "apply"}
    <3>1. mgr[r] \in MgrShape
      BY DEF ReadersInv
    <3> QED BY <3>1 DEF MgrShape
  <2>2. ASSUME NEW s \in Sources PROVE group[r][s].state \in {"none", "running", "stopped"}
    <3>1. group[r][s] \in GroupShape
      BY DEF ReadersInv
    <3> QED BY <3>1 DEF GroupShape
  <2>3. ASSUME NEW s \in Sources PROVE cluster[r][s] \in {"none", "syncing", "ready", "not ready"}
    BY DEF ReadersInv
  <2>4. ASSUME NEW s \in Sources, mgr[r].at = "off" PROVE group[r][s] = NoGroup
    BY <2>4 DEF ReadersInv
  <2> QED BY <2>1, <2>2, <2>3, <2>4
<1>7. RulesShape /\ EditionInv => RulesTypeOK
  <2> SUFFICES ASSUME RulesShape, EditionInv, NEW r \in Listeners
               PROVE  /\ telling[r] \cup engine[r].todo \cup stays[r] \subseteq Tables
                      /\ \A t \in Tables : engine[r].has[t] \in 1 .. edition[t]
    BY DEF RulesTypeOK
  <2>1. \A t \in Tables : engine[r].has[t] \in Nat /\ edition[t] \in Nat
    BY DEF RulesShape
  <2> QED BY <2>1 DEF RulesShape, EditionInv
<1>8. ViewsShape => ViewsTypeOK
  BY DEF ViewsShape, PageShape, ViewsTypeOK
<1> QED BY <1>2, <1>3, <1>4, <1>5, <1>6, <1>7, <1>8, RulesInvariant, SourcesInvariant, ViewsInvariant, PTL DEF TypeOK
=============================================================================
