------------------------------- MODULE AITasks -------------------------------
(***************************************************************************)
(* Analyses of incidents: internal/ai/orchestrator.go (the worker pool and *)
(* the table ai_tasks), the handlers that enqueue, chat and report         *)
(* (internal/router/ai.go, ai_report.go) and the hub of WebSocket viewers  *)
(* (internal/ai/callback.go).  Each replica runs a pool against the same   *)
(* tables.  A worker's statements are separate transactions whose errors   *)
(* are not looked at: it writes the task, then the incident.               *)
(***************************************************************************)
EXTENDS AIAgent, Sequences

CONSTANTS Replicas, Workers, Users,
          home,             \* home[c]: the replica that runs caller c
          Incidents,
          MaxTasks,         \* bound on the tasks, which are numbered as they are created
          MaxAsks,          \* bound on the requests of users
          MaxCrashes,       \* bound on the ends of processes
          MaxLost           \* bound on the statements that fail

ASSUME AITasksAssumption ==
  /\ Callers = Workers \cup Users /\ Workers \cap Users = {}
  /\ home \in [Callers -> Replicas]
  /\ {MaxTasks, MaxAsks, MaxCrashes, MaxLost} \subseteq Nat
  /\ Incidents # {}

VARIABLES task,       \* task[t]: the row of ai_tasks
          incident,   \* incident[i]: ai_status
          saved,      \* saved[i]: number of rows in ai_analyses
          conv,       \* conv[i]: the conversation about i, as roles
          period,     \* period[u]: status of the report that user u ordered last
          worker,     \* worker[w]: its next statement, and the task it has picked
          user,       \* user[u]: what the handler of u's request does next
          up,         \* up[r]: "up", "stopping" or "down"
          watched,    \* watched[r]: the incidents r has a viewer for
          budget,     \* what is left of MaxTasks, MaxAsks, MaxCrashes and MaxLost
          ghost       \* history: what a lost statement, a crash or a reset has left behind

taskVars == <<task, incident, saved, conv, period, worker, user, up, watched, budget, ghost>>
aiVars == <<llmVars, talk, taskVars>>

Tasks == 1 .. MaxTasks
NoTask == [status |-> "none", about |-> CHOOSE i \in Incidents : TRUE]
Rest == [at |-> "idle", task |-> 0]

TasksInit ==
  /\ task = [t \in Tasks |-> NoTask]
  /\ incident \in [Incidents -> {"pending", "disabled"}]
  /\ saved = [i \in Incidents |-> 0]
  /\ conv = [i \in Incidents |-> <<>>]
  /\ period = [u \in Users |-> "none"]
  /\ worker = [w \in Workers |-> Rest]
  /\ user = [u \in Users |-> [at |-> "idle", about |-> CHOOSE i \in Incidents : TRUE]]
  /\ up = [r \in Replicas |-> "up"]
  /\ watched \in {[r \in Replicas |-> {}], [r \in Replicas |-> Incidents]}
  /\ ghost = [unsaved |-> {}, stranded |-> {}, reset |-> {}, unread |-> {}, orphaned |-> {}]

Pending == {t \in Tasks : task[t].status = "pending"}
About(w) == task[worker[w].task].about
Step(w, at) == worker' = [worker EXCEPT ![w].at = at]

-----------------------------------------------------------------------------
(* Tasks. *)

Enqueue(i) ==
  \E t \in Tasks :
    /\ task[t].status = "none" /\ \A s \in Tasks : s < t => task[s].status # "none"
    /\ task' = [task EXCEPT ![t] = [status |-> "pending", about |-> i]]

(* createIncident enqueues on its own if the source asks for it; a user's  *)
(* trigger does if the source, if there is one, allows it now, whatever it *)
(* was when the incident was shown as disabled.  Neither looks at the      *)
(* tasks there are.                                                        *)
EnqueueTask(i) ==
  /\ budget.tasks > 0 /\ budget' = [budget EXCEPT !.tasks = @ - 1]
  /\ Enqueue(i)
  /\ UNCHANGED <<llmVars, talk, incident, saved, conv, period, worker, user, up, watched, ghost>>

(* The SELECT is a transaction of its own: its row lock is gone when it    *)
(* returns.  It takes the first pending row that no other statement locks  *)
(* just then.  Workers wake on a notification or every 10 seconds.         *)
Pick(w) ==
  /\ worker[w].at = "idle" /\ up[home[w]] = "up"
  /\ \E t \in Pending :
       /\ \A s \in Pending : s < t => \E v \in Workers \ {w} : worker[v] = [at |-> "picked", task |-> s]
       /\ worker' = [worker EXCEPT ![w] = [at |-> "picked", task |-> t]]
  /\ UNCHANGED <<llmVars, talk, task, incident, saved, conv, period, user, up, watched, budget, ghost>>

(* A statement of worker w that writes status to its task. *)
WriteTask(w, status) == task' = [task EXCEPT ![worker[w].task].status = status]

(* Mutant: the row is left pending while it is worked on. *)
MarkTask_Pending(w) ==
  /\ worker[w].at = "picked"
  /\ Step(w, "marked")
  /\ UNCHANGED <<llmVars, talk, task, incident, saved, conv, period, user, up, watched, budget, ghost>>

MarkTask(w) ==
  /\ worker[w].at = "picked"
  /\ WriteTask(w, "running") /\ Step(w, "marked")
  /\ UNCHANGED <<llmVars, talk, incident, saved, conv, period, user, up, watched, budget, ghost>>

MarkIncident(w) ==
  /\ worker[w].at = "marked"
  /\ incident' = [incident EXCEPT ![About(w)] = "running"] /\ Step(w, "ready")
  /\ UNCHANGED <<llmVars, talk, task, saved, conv, period, user, up, watched, budget, ghost>>

StartAnalysis(w) ==
  /\ worker[w].at = "ready"
  /\ Analyze(w) /\ Step(w, "analyzing")
  /\ UNCHANGED <<llmVars, task, incident, saved, conv, period, user, up, watched, budget, ghost>>

(* Mutant: the next analysis finds the conversation of the last one. *)
Analyzed_KeepsTalk(w) ==
  /\ worker[w].at = "analyzing" /\ talk[w].at = "end"
  /\ Step(w, IF talk[w].out = "error" THEN "failed" ELSE "report")
  /\ UNCHANGED <<llmVars, talk, task, incident, saved, conv, period, user, up, watched, budget, ghost>>

Analyzed(w) ==
  /\ worker[w].at = "analyzing" /\ talk[w].at = "end"
  /\ talk' = [talk EXCEPT ![w] = Silent]
  /\ Step(w, IF talk[w].out = "error" THEN "failed" ELSE "report")
  /\ UNCHANGED <<llmVars, task, incident, saved, conv, period, user, up, watched, budget, ghost>>

SaveReport(w) ==
  /\ worker[w].at = "report"
  /\ saved' = [saved EXCEPT ![About(w)] = @ + 1] /\ Step(w, "done")
  /\ UNCHANGED <<llmVars, talk, task, incident, conv, period, user, up, watched, budget, ghost>>

FinishTask(w) ==
  /\ worker[w].at \in {"failed", "done"}
  /\ WriteTask(w, worker[w].at)
  /\ Step(w, IF worker[w].at = "failed" THEN "tell failed" ELSE "tell done")
  /\ UNCHANGED <<llmVars, talk, incident, saved, conv, period, user, up, watched, budget, ghost>>

(* Mutant: the path of a failed analysis forgets the incident. *)
FinishIncident_OnlyDone(w) ==
  /\ worker[w].at \in {"tell failed", "tell done"}
  /\ incident' = IF worker[w].at = "tell done" THEN [incident EXCEPT ![About(w)] = "done"] ELSE incident
  /\ worker' = [worker EXCEPT ![w] = Rest]
  /\ UNCHANGED <<llmVars, talk, task, saved, conv, period, user, up, watched, budget, ghost>>

(* The incident's status and report; the follow-up page goes out, if it is *)
(* done, in a goroutine that skips incidents resolved meanwhile.           *)
FinishIncident(w) ==
  /\ worker[w].at \in {"tell failed", "tell done"}
  /\ incident' = [incident EXCEPT ![About(w)] = IF worker[w].at = "tell done" THEN "done" ELSE "failed"]
  /\ worker' = [worker EXCEPT ![w] = Rest]
  /\ UNCHANGED <<llmVars, talk, task, saved, conv, period, user, up, watched, budget, ghost>>

(* Any of these statements may fail, and the worker goes on.               *)
After(at) ==
  CASE at = "picked" -> "marked" [] at = "marked" -> "ready" [] at = "report" -> "done"
    [] at = "failed" -> "tell failed" [] at = "done" -> "tell done" [] OTHER -> "idle"

StatementLost(w) ==
  /\ worker[w].at \in {"picked", "marked", "report", "failed", "done", "tell failed", "tell done"}
  /\ budget.lost > 0 /\ budget' = [budget EXCEPT !.lost = @ - 1]
  /\ worker' = [worker EXCEPT ![w] = IF After(worker[w].at) = "idle" THEN Rest
                                     ELSE [@ EXCEPT !.at = After(worker[w].at)]]
  /\ ghost' = [ghost EXCEPT
       !.unsaved = IF worker[w].at \in {"picked", "failed", "done"} THEN @ \cup {worker[w].task} ELSE @,
       !.stranded = IF worker[w].at \in {"tell failed", "tell done"} THEN @ \cup {About(w)} ELSE @,
       !.unread = IF worker[w].at = "report" THEN @ \cup {About(w)} ELSE @]
  /\ UNCHANGED <<llmVars, talk, task, incident, saved, conv, period, user, up, watched>>

-----------------------------------------------------------------------------
(* Requests of users, served by the replica that is their home.            *)

Serve(u, at, i) ==
  /\ user[u].at = "idle" /\ up[home[u]] = "up"
  /\ budget.asks > 0 /\ budget' = [budget EXCEPT !.asks = @ - 1]
  /\ user' = [user EXCEPT ![u] = [at |-> at, about |-> i]]

(* A question is saved before it is answered, and stays if there is no     *)
(* answer.                                                                 *)
chat(u, i) ==
  /\ Serve(u, "chat", i)
  /\ conv' = [conv EXCEPT ![i] = Append(@, "user")]
  /\ Chat(u)
  /\ UNCHANGED <<llmVars, task, incident, saved, period, worker, up, watched, ghost>>

createReport(u, i) ==
  /\ Serve(u, "period", i)
  /\ period' = [period EXCEPT ![u] = "running"]
  /\ AnalyzePeriod(u)
  /\ UNCHANGED <<llmVars, task, incident, saved, conv, worker, up, watched, ghost>>

(* Nothing is stored of the others. *)
ask(u, i) ==
  /\ Serve(u, "ask", i)
  /\ AnalyzeK8s(u) \/ GenerateObservabilityQuery(u) \/ SummarizeObservabilityResult(u)
  /\ UNCHANGED <<llmVars, task, incident, saved, conv, period, worker, up, watched, ghost>>

Answer(u) ==
  /\ user[u].at # "idle" /\ talk[u].at = "end"
  /\ talk' = [talk EXCEPT ![u] = Silent]
  /\ user' = [user EXCEPT ![u].at = "idle"]
  /\ conv' = IF user[u].at = "chat" /\ talk[u].out # "error"
             THEN [conv EXCEPT ![user[u].about] = Append(@, "assistant")] ELSE conv
  /\ period' = IF user[u].at = "period"
               THEN [period EXCEPT ![u] = IF talk[u].out = "error" THEN "failed" ELSE "done"] ELSE period
  /\ UNCHANGED <<llmVars, task, incident, saved, worker, up, watched, budget, ghost>>

(* A browser opens the analysis of an incident. *)
Watch(r, i) ==
  /\ up[r] = "up" /\ i \notin watched[r]
  /\ budget.asks > 0 /\ budget' = [budget EXCEPT !.asks = @ - 1]
  /\ watched' = [watched EXCEPT ![r] = @ \cup {i}]
  /\ UNCHANGED <<llmVars, talk, task, incident, saved, conv, period, worker, user, up, ghost>>

-----------------------------------------------------------------------------
(* Processes. *)

Converses(c) ==
  /\ up[home[c]] # "down" /\ (Converse(c) \/ Deadline(c))
  /\ UNCHANGED <<llmVars, taskVars>>

Stop(r) ==
  /\ up[r] = "up"
  /\ budget.crashes > 0 /\ budget' = [budget EXCEPT !.crashes = @ - 1]
  /\ up' = [up EXCEPT ![r] = "stopping"]
  /\ UNCHANGED <<llmVars, talk, task, incident, saved, conv, period, worker, user, watched, ghost>>

CancelledByStop(c) ==
  /\ up[home[c]] = "stopping" /\ Cancelled(c)
  /\ UNCHANGED <<llmVars, taskVars>>

At(r) == {c \in Callers : home[c] = r}

(* The process ends, at any step of its workers and handlers. *)
Die(r) ==
  /\ up' = [up EXCEPT ![r] = "down"]
  /\ talk' = [c \in Callers |-> IF c \in At(r) THEN Silent ELSE talk[c]]
  /\ worker' = [w \in Workers |-> IF w \in At(r) THEN Rest ELSE worker[w]]
  /\ user' = [u \in Users |-> IF u \in At(r) THEN [user[u] EXCEPT !.at = "idle"] ELSE user[u]]
  /\ watched' = [watched EXCEPT ![r] = {}]
  /\ ghost' = [ghost EXCEPT
       !.stranded = @ \cup {About(w) : w \in {v \in Workers \cap At(r) :
                               worker[v].at # "idle" /\ task[worker[v].task].status # "running"}},
       !.orphaned = @ \cup {u \in Users \cap At(r) : user[u].at = "period"}]
  /\ UNCHANGED <<llmVars, task, incident, saved, conv, period>>

(* main does not wait for the workers it has stopped. *)
Exit(r) == up[r] = "stopping" /\ Die(r) /\ UNCHANGED budget

Crash(r) ==
  /\ up[r] = "up" /\ Die(r)
  /\ budget.crashes > 0 /\ budget' = [budget EXCEPT !.crashes = @ - 1]

(* Broadcast holds the hub's lock for reading only: a worker and a handler *)
(* that write to one viewer at once panic, and end the process.            *)
ConcurrentBroadcast(r) ==
  /\ \E w \in Workers \cap At(r), c \in At(r) :
       /\ c # w /\ Talking(w) /\ Talking(c) /\ About(w) \in watched[r]
       /\ \/ c \in Users /\ user[c] = [at |-> "chat", about |-> About(w)]
          \/ c \in Workers /\ About(c) = About(w)
  /\ up[r] # "down" /\ Die(r) /\ UNCHANGED budget

(* ResetStaleTasks at the start: every running task, whoever runs it, is   *)
(* pending again, and so is the incident of a pending task that is shown   *)
(* as running, unless there was no task to reset.                          *)
Boot(r) ==
  /\ up[r] = "down" /\ up' = [up EXCEPT ![r] = "up"]
  /\ LET stale == {t \in Tasks : task[t].status = "running"} IN
       /\ task' = [t \in Tasks |-> IF t \in stale THEN [task[t] EXCEPT !.status = "pending"] ELSE task[t]]
       /\ incident' = [i \in Incidents |->
            IF stale # {} /\ incident[i] = "running" /\ \E t \in Pending \cup stale : task[t].about = i
            THEN "pending" ELSE incident[i]]
       /\ ghost' = [ghost EXCEPT !.reset = @ \cup stale]
  /\ UNCHANGED <<llmVars, talk, saved, conv, period, worker, user, watched, budget>>

EditProvider == LLMNext /\ UNCHANGED <<talk, taskVars>>

TasksNext ==
  \/ \E i \in Incidents : EnqueueTask(i)
  \/ \E w \in Workers :
       \/ Pick(w) \/ MarkTask(w) \/ MarkIncident(w) \/ StartAnalysis(w) \/ Analyzed(w)
       \/ SaveReport(w) \/ FinishTask(w) \/ FinishIncident(w) \/ StatementLost(w)
  \/ \E u \in Users :
       \/ \E i \in Incidents :
            \/ chat(u, i) \/ createReport(u, i) \/ ask(u, i)
       \/ Answer(u)
  \/ \E c \in Callers : Converses(c) \/ CancelledByStop(c)
  \/ \E r \in Replicas :
       \/ \E i \in Incidents : Watch(r, i)
       \/ Stop(r) \/ Exit(r) \/ Crash(r) \/ ConcurrentBroadcast(r) \/ Boot(r)
  \/ EditProvider

(* Workers poll, deadlines expire, and a supervisor restarts a process;    *)
(* nothing makes a model answer.                                           *)
WorkerStep(w) ==
  \/ Pick(w) \/ MarkTask(w) \/ MarkIncident(w) \/ StartAnalysis(w) \/ Analyzed(w)
  \/ SaveReport(w) \/ FinishTask(w) \/ FinishIncident(w)

Fairness ==
  /\ \A w \in Workers : WF_aiVars(WorkerStep(w))
  /\ \A w \in Workers : WF_aiVars(Deadline(w) /\ up[home[w]] # "down" /\ UNCHANGED <<llmVars, taskVars>>)
  /\ \A r \in Replicas : WF_aiVars(Boot(r)) /\ WF_aiVars(Exit(r))

(* Whatever providers and bounds there are. *)
Init ==
  /\ budget \in [{"tasks", "asks", "crashes", "lost"} -> Nat]
  /\ TalkInit /\ TasksInit

Spec == Init /\ [][TasksNext]_aiVars /\ Fairness
-----------------------------------------------------------------------------
TypeOK ==
  /\ LLMTypeOK /\ TalkTypeOK
  /\ task \in [Tasks -> [status : {"none", "pending", "running", "done", "failed"}, about : Incidents]]
  /\ incident \in [Incidents -> {"pending", "running", "done", "failed", "disabled"}]
  /\ \A w \in Workers : worker[w].at # "idle" => task[worker[w].task].status # "none"
  /\ \A w \in Workers : talk[w].at # "silent" <=> worker[w].at = "analyzing"
  /\ \A u \in Users : talk[u].at # "silent" <=> user[u].at # "idle"

(* What the console shows is kept true by someone.  An incident shown as   *)
(* running has a worker at it or a task that will be run (again), unless   *)
(* the process died, or the last statement failed, after the task's own    *)
(* final status was written; one shown as done has a report unless the     *)
(* INSERT failed; a periodic report that is running has its handler, or    *)
(* was orphaned by a crash, which no start cleans up.                      *)
StatusIsHonest ==
  /\ \A i \in Incidents :
       /\ incident[i] = "running" =>
            \/ i \in ghost.stranded
            \/ \E t \in Tasks : task[t].about = i /\ task[t].status \in {"pending", "running"}
            \/ \E w \in Workers : worker[w].at # "idle" /\ About(w) = i
       /\ incident[i] = "done" => saved[i] > 0 \/ i \in ghost.unread
  /\ \A u \in Users : period[u] = "running" => user[u].at = "period" \/ u \in ghost.orphaned

(* orchestrator.go line 173: "SELECT FOR UPDATE SKIP LOCKED ensures only   *)
(* one worker picks up each task".  Not quite:                             *)
(* a worker takes a task that another one is at only in the window between *)
(* that one's SELECT and UPDATE, or after a start has reset the task, or   *)
(* after an UPDATE of it has failed.                                       *)
PicksAreExplained ==
  [][ \A w \in Workers : worker[w].at = "idle" /\ worker'[w].at = "picked" =>
        \A v \in Workers \ {w} : worker[v].at # "idle" /\ worker[v].task = worker'[w].task =>
          worker[v].at = "picked" \/ worker[v].task \in ghost.reset \cup ghost.unsaved ]_aiVars

(* Every task comes to an end, through crashes, shutdowns and models that  *)
(* call tools for ever, unless its last UPDATE fails or a worker waits in  *)
(* the library, whose call has no deadline.                                *)
TasksFinish ==
  \A t \in Tasks : task[t].status \in {"pending", "running"} ~>
     \/ task[t].status \in {"done", "failed"}
     \/ t \in ghost.unsaved
     \/ \E w \in Workers : talk[w].at = "chain"
=============================================================================
