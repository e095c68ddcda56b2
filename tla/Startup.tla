------------------------------- MODULE Startup -------------------------------
(***************************************************************************)
(* The start of a process: the migrations (internal/store/migrate.go), the *)
(* bootstrap of the keys (internal/sysconfig/service.go), and the order in *)
(* which cmd/alertmesh wires them; then what the keys are for: the tokens  *)
(* of users and the secrets that browsers encrypt (internal/auth).         *)
(* Replicas may start at once against one database; each statement is a    *)
(* transaction, and one that fails ends the process, which a supervisor    *)
(* starts again.                                                           *)
(*                                                                         *)
(* A key pair, or a signing secret, is the number under which it was made; *)
(* 0 is none.                                                              *)
(***************************************************************************)
EXTENDS Naturals, FiniteSets

CONSTANTS Replicas, Browsers,
          Files,            \* the migration files
          version           \* version[f]: the number in the name of f

ASSUME StartupAssumption == IsFiniteSet(Files) /\ Files # {} /\ version \in [Files -> Nat]

VARIABLES schema,     \* schema: rows of schema_migrations, and the files that have run
          config,     \* config: rows of system_configs
          role,       \* role: whether the rows let the role call the endpoint
          secret,     \* the secret of a row that browsers edit: "none", "plain" or "cipher"
          proc,       \* proc[r]: where the process stands, and what it holds in memory
          browser,    \* browser[b]: the public key and the token it holds
          left,       \* left[b]: what is left of the bound b
          past        \* history: bootstraps that overlapped, edits of the role

(* The bounds: what browsers send, processes that end, edits of sources and *)
(* of rules, changes of incidents, and failures.                           *)
Bounds == {"forms", "deaths", "edits", "rules", "changes", "faults"}
Spend(b) == left[b] > 0 /\ left' = [left EXCEPT ![b] = @ - 1]

startVars == <<schema, config, role, secret, proc, browser, left, past>>

Versions == {version[f] : f \in Files}
Down == [at |-> "down", applied |-> {}, todo |-> {}, file |-> CHOOSE f \in Files : TRUE,
         made |-> 0, pair |-> 0, jwt |-> 0, acl |-> FALSE, loaded |-> FALSE]

StartInit ==
  /\ \E n \in {0} \cup Versions :    \* what an earlier release has left
       LET ran == {f \in Files : version[f] <= n} IN
       /\ schema = [clean |-> {version[f] : f \in ran}, dirty |-> {}, ran |-> ran]
  /\ past = [overlap |-> FALSE, edited |-> {}]
  /\ \/ config = [public |-> 0, private |-> 0, jwt |-> 0, initialized |-> FALSE, keys |-> 0]
     \/ schema.ran # {} /\ config = [public |-> 1, private |-> 1, jwt |-> 2, initialized |-> TRUE, keys |-> 2]
  /\ role = FALSE /\ secret = "none"
  /\ proc = [r \in Replicas |-> Down]
  /\ browser = [b \in Browsers |-> [key |-> 0, token |-> 0]]

At(r, at) == proc[r].at = at
Goto(r, at) == proc' = [proc EXCEPT ![r].at = at]
Up(r) == At(r, "up")

(* How far a process has come with the keys. *)
KeySteps == {"store public", "store private", "store jwt", "mark initialized"}
Overlaps(r) == \E s \in Replicas \ {r} : proc[s].at \in KeySteps

-----------------------------------------------------------------------------
(* Migrate. *)

(* The tracking table is there, or is created; what is clean is read once. *)
Migrate(r) ==
  /\ At(r, "down")
  /\ proc' = [proc EXCEPT ![r] = [Down EXCEPT !.at = "pending", !.applied = schema.clean,
                !.todo = {f \in Files : version[f] \notin schema.clean}]]
  /\ UNCHANGED <<schema, config, role, secret, browser, left, past>>

(* Mutant: the file is recorded as applied before it runs. *)
MarkDirty_Clean(r) ==
  /\ At(r, "pending")
  /\ \E f \in proc[r].todo :
       /\ \A g \in proc[r].todo : version[f] <= version[g]
       /\ proc' = [proc EXCEPT ![r].at = "marked", ![r].file = f, ![r].todo = @ \ {f}]
       /\ schema' = [schema EXCEPT !.clean = @ \cup {version[f]}]
  /\ UNCHANGED <<config, role, secret, browser, left, past>>

(* The next pending file, in the order of the versions; sort.Slice leaves  *)
(* the order within a version open.                                        *)
MarkDirty(r) ==
  /\ At(r, "pending")
  /\ \E f \in proc[r].todo :
       /\ \A g \in proc[r].todo : version[f] <= version[g]
       /\ proc' = [proc EXCEPT ![r].at = "marked", ![r].file = f, ![r].todo = @ \ {f}]
       /\ schema' = [schema EXCEPT !.clean = @ \ {version[f]}, !.dirty = @ \cup {version[f]}]
  /\ UNCHANGED <<config, role, secret, browser, left, past>>

(* A file is sent as one simple query, which is one transaction, and can   *)
(* be run again.                                                           *)
Execute(r) ==
  /\ At(r, "marked") /\ Goto(r, "executed")
  /\ schema' = [schema EXCEPT !.ran = @ \cup {proc[r].file}]
  /\ UNCHANGED <<config, role, secret, browser, left, past>>

MarkClean(r) ==
  /\ At(r, "executed") /\ Goto(r, "pending")
  /\ LET v == version[proc[r].file] IN
       schema' = [schema EXCEPT !.clean = @ \cup {v}, !.dirty = @ \ {v}]
  /\ UNCHANGED <<config, role, secret, browser, left, past>>

(* No file is left.  The roles are read into the graph that the filter     *)
(* asks, where a failure is only logged; nothing reads them again.         *)
InitRBAC(r) ==
  /\ At(r, "pending") /\ proc[r].todo = {}
  /\ \/ proc' = [proc EXCEPT ![r].at = "check pair", ![r].acl = role, ![r].loaded = TRUE]
     \/ proc' = [proc EXCEPT ![r].at = "check pair"]
  /\ past' = [past EXCEPT !.edited = @ \ {r}]
  /\ UNCHANGED <<schema, config, role, secret, browser, left>>

-----------------------------------------------------------------------------
(* Bootstrap. *)

(* Mutant: keys are made anew at each start. *)
CheckPair_Always(r) ==
  /\ At(r, "check pair")
  /\ proc' = [proc EXCEPT ![r].at = "store public", ![r].made = config.keys + 1]
  /\ config' = [config EXCEPT !.keys = @ + 1]
  /\ past' = [past EXCEPT !.overlap = @ \/ Overlaps(r)]
  /\ UNCHANGED <<schema, role, secret, browser, left>>

(* The private key decides whether there is a pair.                        *)
CheckPair(r) ==
  /\ At(r, "check pair")
  /\ IF config.private # 0
     THEN Goto(r, "check initialized") /\ UNCHANGED <<config, past>>
     ELSE /\ proc' = [proc EXCEPT ![r].at = "store public", ![r].made = config.keys + 1]
          /\ config' = [config EXCEPT !.keys = @ + 1]
          /\ past' = [past EXCEPT !.overlap = @ \/ Overlaps(r)]
  /\ UNCHANGED <<schema, role, secret, browser, left>>

StorePublic(r) ==
  /\ At(r, "store public") /\ Goto(r, "store private")
  /\ config' = [config EXCEPT !.public = proc[r].made]
  /\ UNCHANGED <<schema, role, secret, browser, left, past>>

StorePrivate(r) ==
  /\ At(r, "store private") /\ Goto(r, "check initialized")
  /\ config' = [config EXCEPT !.private = proc[r].made]
  /\ UNCHANGED <<schema, role, secret, browser, left, past>>

CheckInitialized(r) ==
  /\ At(r, "check initialized")
  /\ IF config.initialized
     THEN Goto(r, "load pair") /\ UNCHANGED <<config, past>>
     ELSE /\ proc' = [proc EXCEPT ![r].at = "store jwt", ![r].made = config.keys + 1]
          /\ config' = [config EXCEPT !.keys = @ + 1]
          /\ past' = [past EXCEPT !.overlap = @ \/ Overlaps(r)]
  /\ UNCHANGED <<schema, role, secret, browser, left>>

StoreJWT(r) ==
  /\ At(r, "store jwt") /\ Goto(r, "mark initialized")
  /\ config' = [config EXCEPT !.jwt = proc[r].made]
  /\ UNCHANGED <<schema, role, secret, browser, left, past>>

(* auth.mode, then the marker. *)
MarkInitialized(r) ==
  /\ At(r, "mark initialized") /\ Goto(r, "load pair")
  /\ config' = [config EXCEPT !.initialized = TRUE]
  /\ UNCHANGED <<schema, role, secret, browser, left, past>>

(* Without the key in the table the start fails. *)
LoadPair(r) ==
  /\ At(r, "load pair") /\ config.private # 0
  /\ proc' = [proc EXCEPT ![r].at = "load jwt", ![r].pair = config.private]
  /\ UNCHANGED <<schema, config, role, secret, browser, left, past>>

LoadJWT(r) ==
  /\ At(r, "load jwt") /\ config.jwt # 0
  /\ proc' = [proc EXCEPT ![r].at = "wired", ![r].jwt = config.jwt]
  /\ UNCHANGED <<schema, config, role, secret, browser, left, past>>

StartStep(r) ==
  \/ Migrate(r) \/ MarkDirty(r) \/ Execute(r) \/ MarkClean(r)
  \/ CheckPair(r) \/ StorePublic(r) \/ StorePrivate(r)
  \/ CheckInitialized(r) \/ StoreJWT(r) \/ MarkInitialized(r) \/ LoadPair(r) \/ LoadJWT(r)

-----------------------------------------------------------------------------
(* What the keys are for.                                                  *)

(* A page takes the public key of the replica that answers. *)
GetPublicKey(b, r) ==
  /\ Up(r) /\ browser[b].key # proc[r].pair
  /\ Spend("forms")
  /\ browser' = [browser EXCEPT ![b].key = proc[r].pair]
  /\ UNCHANGED <<schema, config, role, secret, proc, past>>

(* A password that does not decrypt is refused. *)
Login(b, r) ==
  /\ Up(r) /\ browser[b].key = proc[r].pair
  /\ Spend("forms")
  /\ browser' = [browser EXCEPT ![b].token = proc[r].jwt]
  /\ UNCHANGED <<schema, config, role, secret, proc, past>>

(* What AuthFilter and ACLFilter let pass. *)
Authenticated(b, r) == Up(r) /\ browser[b].token # 0 /\ browser[b].token = proc[r].jwt
Granted(r) == proc[r].acl

(* A form with a secret: what does not decrypt is taken for plain text and *)
(* stored as it is.                                                        *)
DecodeClientCipher(b, r) ==
  /\ Authenticated(b, r) /\ browser[b].key # 0
  /\ Spend("forms")
  /\ secret' = IF browser[b].key = proc[r].pair THEN "plain" ELSE "cipher"
  /\ UNCHANGED <<schema, config, role, proc, browser, past>>

(* An administrator, whom the filter never asks for a permission, gives or *)
(* takes one.                                                              *)
UpdateRoleEndpoints(b, r) ==
  /\ Authenticated(b, r)
  /\ Spend("forms")
  /\ role' = ~role
  /\ past' = [past EXCEPT !.edited = Replicas]
  /\ UNCHANGED <<schema, config, secret, proc, browser>>

UserStep(b, r) ==
  GetPublicKey(b, r) \/ Login(b, r) \/ DecodeClientCipher(b, r) \/ UpdateRoleEndpoints(b, r)

-----------------------------------------------------------------------------
Places == {"down", "pending", "marked", "executed", "check pair", "store public", "store private",
           "check initialized", "store jwt", "mark initialized", "load pair", "load jwt", "wired", "up",
           "retired"}      \* a replica the deployment does not run

StartTypeOK ==
  /\ schema.ran \subseteq Files /\ schema.clean \cup schema.dirty \subseteq Versions
  /\ \A r \in Replicas : proc[r].at \in Places /\ proc[r].todo \subseteq Files
  /\ {config.public, config.private, config.jwt} \subseteq 0 .. config.keys
  /\ secret \in {"none", "plain", "cipher"}
  /\ left \in [Bounds -> Nat]

Shared(f) == \E g \in Files \ {f} : version[g] = version[f]

(* migrate.go: a process that is up finds the schema it was built for.     *)
(* Every file has run, through processes that end between a file and its   *)
(* record and through several that migrate at once; of files that share a  *)
(* number (there are two of 53) one has.                                   *)
SchemaReady ==
  \A r \in Replicas : proc[r].at \in {"wired", "up"} =>
    \A f \in Files : \E g \in schema.ran : version[g] = version[f] /\ (g = f \/ Shared(f))

(* The bootstrap: "safe to call repeatedly".  A token or an encrypted      *)
(* secret that one replica has led a browser to is good at every other,    *)
(* and after every restart, and what is stored is never the ciphertext,    *)
(* unless two replicas made keys at once.                                  *)
CredentialsCarry ==
  \/ past.overlap
  \/ /\ secret # "cipher"
     /\ \A r \in Replicas, b \in Browsers : Up(r) =>
          /\ browser[b].token \in {0, proc[r].jwt}
          /\ browser[b].key \in {0, proc[r].pair}

(* A replica's filter asks what the table said when the process began.     *)
(* What it grants is what the table says now, unless the role has been     *)
(* edited since or the table could not be read.                            *)
GrantsExplained(r) == Granted(r) # role => r \in past.edited \/ ~proc[r].loaded
=============================================================================
