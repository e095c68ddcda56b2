---------------------------- MODULE AITasksProofs ----------------------------
(***************************************************************************)
(* What the console shows of an analysis is kept true by someone, and a    *)
(* task is taken twice only where that can be explained.                   *)
(***************************************************************************)
EXTENDS AITasks, FiniteSetTheorems, TLAPS

TaskShape == [status : {"none", "pending", "running", "done", "failed"}, about : Incidents]
Steps == {"idle", "picked", "marked", "ready", "analyzing", "report", "failed", "done", "tell failed", "tell done"}
GhostShape == [unsaved : SUBSET Tasks, stranded : SUBSET Incidents, reset : SUBSET Tasks,
               unread : SUBSET Incidents, orphaned : SUBSET Users]

TasksShape ==
  /\ task \in [Tasks -> TaskShape]
  /\ incident \in [Incidents -> {"pending", "running", "done", "failed", "disabled"}]
  /\ saved \in [Incidents -> Nat]
  /\ period \in [Users -> {"none", "running", "done", "failed"}]
  /\ worker \in [Workers -> [at : Steps, task : 0 .. MaxTasks]]
  /\ user \in [Users -> [at : {"idle", "chat", "period", "ask"}, about : Incidents]]
  /\ ghost \in GhostShape

(* A worker that is not idle has a task, and the status of the task tells  *)
(* how far it is, or why not.                                              *)
WorkerInv(w) ==
  worker[w].at # "idle" =>
    /\ worker[w].task \in Tasks /\ task[worker[w].task].status # "none"
    /\ worker[w].at # "picked" =>
         task[worker[w].task].status # "pending" \/ worker[w].task \in ghost.reset \cup ghost.unsaved
    /\ worker[w].at \in {"done", "tell done"} => saved[About(w)] > 0 \/ About(w) \in ghost.unread

WorkersInv == \A w \in Workers : WorkerInv(w)

(* The parts of StatusIsHonest. *)
Attended(i) ==
  \/ i \in ghost.stranded
  \/ \E t \in Tasks : task[t].about = i /\ task[t].status \in {"pending", "running"}
  \/ \E w \in Workers : worker[w].at # "idle" /\ About(w) = i
IncidentInv(i) ==
  /\ incident[i] = "running" => Attended(i)
  /\ incident[i] = "done" => saved[i] > 0 \/ i \in ghost.unread
ReportInv(u) == period[u] = "running" => user[u].at = "period" \/ u \in ghost.orphaned

TasksInv ==
  /\ TasksShape /\ WorkersInv
  /\ \A i \in Incidents : IncidentInv(i)
  /\ \A u \in Users : ReportInv(u)

LEMMA AnIncident == (CHOOSE i \in Incidents : TRUE) \in Incidents /\ Tasks = 1 .. MaxTasks /\ MaxTasks \in Nat
BY AITasksAssumption DEF Tasks

LEMMA TasksInitInv == Init => TasksInv
<1> SUFFICES ASSUME Init PROVE TasksInv
  OBVIOUS
<1>2. /\ task \in [Tasks -> TaskShape] /\ saved \in [Incidents -> Nat]
      /\ period \in [Users -> {"none", "running", "done", "failed"}]
      /\ ghost \in GhostShape
  BY AnIncident DEF Init, TasksInit, NoTask, TaskShape, GhostShape
<1>3. worker \in [Workers -> [at : Steps, task : 0 .. MaxTasks]] /\ \A w \in Workers : worker[w].at = "idle"
  BY AnIncident DEF Init, TasksInit, Rest, Steps
<1>4. user \in [Users -> [at : {"idle", "chat", "period", "ask"}, about : Incidents]]
  BY AnIncident DEF Init, TasksInit
<1>5. incident \in [Incidents -> {"pending", "disabled"}] /\ \A u \in Users : period[u] = "none"
  BY DEF Init, TasksInit
<1> QED BY <1>2, <1>3, <1>4, <1>5 DEF TasksInv, TasksShape, WorkersInv, WorkerInv, IncidentInv, ReportInv

(* Where the workers and what they write stay as they are. *)
LEMMA WorkersRest ==
  ASSUME TasksInv, UNCHANGED <<task, incident, saved, worker>>,
         ghost' \in GhostShape, ghost.unsaved = ghost'.unsaved, ghost.stranded = ghost'.stranded,
         ghost.reset = ghost'.reset, ghost.unread = ghost'.unread,
         period' \in [Users -> {"none", "running", "done", "failed"}],
         user' \in [Users -> [at : {"idle", "chat", "period", "ask"}, about : Incidents]],
         \A u \in Users : ReportInv(u)'
  PROVE  TasksInv'
<1>1. \A w \in Workers : WorkerInv(w)'
  BY DEF TasksInv, WorkersInv, WorkerInv, About
<1>2. \A i \in Incidents : IncidentInv(i)'
  BY DEF TasksInv, IncidentInv, Attended, About
<1> QED BY <1>1, <1>2 DEF TasksInv, TasksShape, WorkersInv

(* Where worker w takes a step: it may write its task, its incident or a   *)
(* report, and a history.                                                  *)
LEMMA WorkerSteps ==
  ASSUME TasksInv, NEW w \in Workers, NEW x \in [at : Steps, task : 0 .. MaxTasks],
         worker' = [worker EXCEPT ![w] = x], UNCHANGED <<period, user>>,
         task' \in [Tasks -> TaskShape], saved' \in [Incidents -> Nat], ghost' \in GhostShape,
         incident' \in [Incidents -> {"pending", "running", "done", "failed", "disabled"}],
         ghost.unsaved \subseteq ghost'.unsaved, ghost.stranded \subseteq ghost'.stranded,
         ghost.reset \subseteq ghost'.reset, ghost.unread \subseteq ghost'.unread,
         ghost.orphaned \subseteq ghost'.orphaned,
         \A t \in Tasks : /\ task'[t].about = task[t].about
                          /\ task'[t] = task[t] \/ task'[t].status \in {"running", "done", "failed"},
         \A i \in Incidents : saved[i] > 0 => saved'[i] > 0,
         WorkerInv(w)', \A i \in Incidents : IncidentInv(i)'
  PROVE  TasksInv'
<1>0. /\ worker \in [Workers -> [at : Steps, task : 0 .. MaxTasks]] /\ task \in [Tasks -> TaskShape]
  BY DEF TasksInv, TasksShape
<1>1. ASSUME NEW v \in Workers \ {w} PROVE WorkerInv(v)'
  <2>1. worker'[v] = worker[v] /\ WorkerInv(v)
    BY <1>0 DEF TasksInv, WorkersInv
  <2>2. CASE worker[v].at = "idle"
    BY <2>1, <2>2 DEF WorkerInv
  <2>3. CASE worker[v].at # "idle"
    <3>1. worker[v].task \in Tasks /\ About(v)' = About(v) /\ About(v) \in Incidents
      BY <1>0, <2>1, <2>3 DEF WorkerInv, About, TaskShape
    <3>2. /\ task'[worker[v].task].status # "none"
          /\ task'[worker[v].task].status = "pending" => task[worker[v].task].status = "pending"
      BY <2>1, <2>3, <3>1 DEF WorkerInv
    <3>3. saved[About(v)] > 0 \/ About(v) \in ghost.unread => saved'[About(v)] > 0 \/ About(v) \in ghost'.unread
      BY <3>1
    <3> QED BY <2>1, <3>1, <3>2, <3>3 DEF WorkerInv
  <2> QED BY <2>2, <2>3
<1>2. worker' \in [Workers -> [at : Steps, task : 0 .. MaxTasks]]
  BY <1>0
<1>3. \A u \in Users : ReportInv(u)'
  BY DEF TasksInv, ReportInv
<1> QED BY <1>1, <1>2, <1>3 DEF TasksInv, TasksShape, WorkersInv

(* An incident that someone is at stays so while w is at its task. *)
LEMMA StillAttended ==
  ASSUME TasksInv, NEW w \in Workers, NEW x \in [at : Steps, task : 0 .. MaxTasks],
         worker' = [worker EXCEPT ![w] = x], x.at # "idle", x.task \in Tasks,
         worker[w].at = "idle" \/ worker[w].task = x.task,
         ghost.stranded \subseteq ghost'.stranded,
         \A t \in Tasks : /\ task'[t].about = task[t].about
                          /\ task'[t] = task[t] \/ task'[t].status = "running" \/ t = x.task
  PROVE  \A i \in Incidents : Attended(i) => Attended(i)'
<1>0. worker \in [Workers -> [at : Steps, task : 0 .. MaxTasks]] /\ worker'[w] = x
      /\ \A v \in Workers \ {w} : worker'[v] = worker[v]
  BY DEF TasksInv, TasksShape
<1>1. \A v \in Workers : worker[v].at # "idle" =>
        /\ worker[v].task \in Tasks /\ About(v)' = About(v) /\ worker'[v].at # "idle"
  BY <1>0 DEF TasksInv, WorkersInv, WorkerInv, About
<1>2. About(w)' = task[x.task].about
  BY <1>0 DEF About
<1>3. ASSUME NEW i \in Incidents, NEW t \in Tasks, task[t].about = i, task[t].status \in {"pending", "running"}
      PROVE  Attended(i)'
  <2>1. CASE t = x.task
    BY <1>0, <1>2, <1>3, <2>1 DEF Attended
  <2>2. CASE t # x.task
    BY <1>3, <2>2 DEF Attended
  <2> QED BY <2>1, <2>2
<1> QED BY <1>1, <1>3 DEF Attended

LEMMA WorkerStepInv ==
  ASSUME TasksInv, NEW w \in Workers, WorkerStep(w)
  PROVE  TasksInv'
<1>0. /\ worker \in [Workers -> [at : Steps, task : 0 .. MaxTasks]] /\ task \in [Tasks -> TaskShape]
      /\ saved \in [Incidents -> Nat] /\ ghost \in GhostShape /\ Tasks = 1 .. MaxTasks
      /\ incident \in [Incidents -> {"pending", "running", "done", "failed", "disabled"}]
      /\ WorkerInv(w) /\ worker[w] \in [at : Steps, task : 0 .. MaxTasks]
  BY AnIncident DEF TasksInv, TasksShape, WorkersInv
<1>a. worker[w].at # "idle" => /\ worker[w].task \in Tasks /\ About(w) \in Incidents
                               /\ task[worker[w].task].status # "none"
  BY <1>0 DEF WorkerInv, About, TaskShape
<1>b. \A i \in Incidents : IncidentInv(i)
  BY DEF TasksInv
<1>1. CASE Pick(w)
  <2>1. PICK t \in Pending : worker' = [worker EXCEPT ![w] = [at |-> "picked", task |-> t]]
    BY <1>1 DEF Pick
  <2> DEFINE x == [at |-> "picked", task |-> t]
  <2>2. UNCHANGED <<task, incident, saved, ghost, period, user>> /\ worker[w].at = "idle" /\ t \in Tasks
        /\ task[t].status = "pending"
    BY <1>1 DEF Pick, Pending
  <2>3. x \in [at : Steps, task : 0 .. MaxTasks] /\ worker'[w] = x
    <3>1. t \in 0 .. MaxTasks
      BY <1>0, <2>2, AnIncident
    <3> QED BY <1>0, <2>1, <3>1 DEF Steps
  <2>4. WorkerInv(w)'
    BY <2>2, <2>3 DEF WorkerInv
  <2>5. \A i \in Incidents : IncidentInv(i)'
    <3>1. \A i \in Incidents : Attended(i) => Attended(i)'
      BY <2>1, <2>2, <2>3, StillAttended
    <3> QED BY <1>b, <2>2, <3>1 DEF IncidentInv
  <2> QED BY <1>0, <2>1, <2>2, <2>3, <2>4, <2>5, WorkerSteps
<1>2. ASSUME NEW at \in Steps \ {"idle", "picked"}, Step(w, at), worker[w].at # "idle",
             UNCHANGED <<period, user, ghost>>,
             task' \in [Tasks -> TaskShape], saved' \in [Incidents -> Nat],
             incident' \in [Incidents -> {"pending", "running", "done", "failed", "disabled"}],
             \A t \in Tasks : /\ task'[t].about = task[t].about
                              /\ \/ task'[t] = task[t]
                                 \/ t = worker[w].task /\ task'[t].status \in {"running", "done", "failed"},
             task'[worker[w].task].status # "pending" \/ worker[w].task \in ghost.reset \cup ghost.unsaved,
             \A i \in Incidents : saved[i] > 0 => saved'[i] > 0,
             \A i \in Incidents : incident'[i] = incident[i] \/ (i = About(w) /\ incident'[i] = "running"),
             at \in {"done", "tell done"} => saved'[About(w)] > 0 \/ About(w) \in ghost.unread
      PROVE  TasksInv'
  <2> DEFINE x == [at |-> at, task |-> worker[w].task]
  <2>1. worker' = [worker EXCEPT ![w] = x] /\ x \in [at : Steps, task : 0 .. MaxTasks] /\ worker'[w] = x
        /\ x.at = at /\ x.task = worker[w].task
    <3>1. worker' = [worker EXCEPT ![w] = [worker[w] EXCEPT !.at = at]] /\ at \in Steps
      BY <1>2 DEF Step
    <3>2. [worker[w] EXCEPT !.at = at] = x /\ x \in [at : Steps, task : 0 .. MaxTasks]
      BY <1>0, <3>1
    <3> QED BY <1>0, <3>1, <3>2
  <2> HIDE DEF x
  <2>2. About(w)' = About(w) /\ task'[worker[w].task].status # "none"
    <3>1. task'[worker[w].task].about = task[worker[w].task].about /\ task'[worker[w].task].status # "none"
      BY <1>a, <1>2
    <3> QED BY <2>1, <3>1 DEF About
  <2>3. WorkerInv(w)'
    <3>1. worker[w].task \in Tasks
      BY <1>a, <1>2
    <3>2. at \in {"done", "tell done"} => saved'[About(w)] > 0 \/ About(w) \in ghost'.unread
      BY <1>2
    <3>3. task'[worker[w].task].status # "pending" \/ worker[w].task \in ghost'.reset \cup ghost'.unsaved
      BY <1>2
    <3> QED BY <2>1, <2>2, <3>1, <3>2, <3>3 DEF WorkerInv
  <2>4. \A i \in Incidents : Attended(i) => Attended(i)'
    <3>1. x.at # "idle" /\ x.task \in Tasks /\ worker[w].task = x.task
      BY <1>a, <1>2, <2>1
    <3>2. \A t \in Tasks : /\ task'[t].about = task[t].about
                           /\ task'[t] = task[t] \/ task'[t].status = "running" \/ t = x.task
      BY <1>2, <3>1
    <3>3. ghost.stranded \subseteq ghost'.stranded
      BY <1>2
    <3> QED BY <2>1, <3>1, <3>2, <3>3, StillAttended
  <2>5. Attended(About(w))'
    <3>1. worker'[w].at # "idle"
      BY <1>2, <2>1
    <3> QED BY <2>2, <3>1 DEF Attended
  <2>6. ASSUME NEW i \in Incidents PROVE IncidentInv(i)'
    <3>1. ghost' = ghost /\ (saved[i] > 0 => saved'[i] > 0)
      BY <1>2
    <3>2. CASE incident'[i] = incident[i]
      BY <1>b, <2>4, <3>1, <3>2 DEF IncidentInv
    <3>3. CASE i = About(w) /\ incident'[i] = "running"
      BY <2>2, <2>5, <3>3 DEF IncidentInv
    <3> QED BY <1>2, <3>2, <3>3
  <2> QED BY <1>0, <1>2, <2>1, <2>3, <2>6, WorkerSteps
<1>3. CASE MarkTask(w)
  <2>1. /\ worker[w].at = "picked" /\ Step(w, "marked") /\ UNCHANGED <<incident, saved, ghost, period, user>>
        /\ task' = [task EXCEPT ![worker[w].task].status = "running"]
    BY <1>3 DEF MarkTask, WriteTask
  <2>2. task' \in [Tasks -> TaskShape] /\ task'[worker[w].task].status = "running"
    BY <1>0, <1>a, <2>1 DEF TaskShape
  <2>3. \A t \in Tasks : task'[t].about = task[t].about /\ (t # worker[w].task => task'[t] = task[t])
    BY <1>0, <2>1 DEF TaskShape
  <2>4. "marked" \in Steps \ {"idle", "picked"}
    BY DEF Steps
  <2> QED BY <1>0, <1>2, <2>1, <2>2, <2>3, <2>4
<1>4. CASE MarkIncident(w)
  <2>1. /\ worker[w].at = "marked" /\ Step(w, "ready") /\ UNCHANGED <<task, saved, ghost, period, user>>
        /\ incident' = [incident EXCEPT ![About(w)] = "running"]
    BY <1>4 DEF MarkIncident
  <2>2. task[worker[w].task].status # "pending" \/ worker[w].task \in ghost.reset \cup ghost.unsaved
    BY <1>0, <2>1 DEF WorkerInv
  <2> QED BY <1>0, <1>2, <2>1, <2>2 DEF Steps
<1>5. CASE StartAnalysis(w) \/ Analyzed(w)
  <2>1. PICK at \in {"analyzing", "report", "failed"} : Step(w, at)
    BY <1>5 DEF StartAnalysis, Analyzed
  <2>2. /\ worker[w].at \in {"ready", "analyzing"} /\ UNCHANGED <<task, incident, saved, ghost, period, user>>
    BY <1>5 DEF StartAnalysis, Analyzed
  <2>3. task[worker[w].task].status # "pending" \/ worker[w].task \in ghost.reset \cup ghost.unsaved
    BY <1>0, <2>2 DEF WorkerInv
  <2> QED BY <1>0, <1>2, <2>1, <2>2, <2>3 DEF Steps
<1>6. CASE SaveReport(w)
  <2>1. /\ worker[w].at = "report" /\ Step(w, "done") /\ UNCHANGED <<task, incident, ghost, period, user>>
        /\ saved' = [saved EXCEPT ![About(w)] = @ + 1]
    BY <1>6 DEF SaveReport
  <2>2. task[worker[w].task].status # "pending" \/ worker[w].task \in ghost.reset \cup ghost.unsaved
    BY <1>0, <2>1 DEF WorkerInv
  <2>3. saved' \in [Incidents -> Nat] /\ saved'[About(w)] > 0 /\ \A i \in Incidents : saved[i] > 0 => saved'[i] > 0
    BY <1>0, <1>a, <2>1
  <2> QED BY <1>0, <1>2, <2>1, <2>2, <2>3 DEF Steps
<1>7. CASE FinishTask(w)
  <2>1. /\ worker[w].at \in {"failed", "done"} /\ UNCHANGED <<incident, saved, ghost, period, user>>
        /\ task' = [task EXCEPT ![worker[w].task].status = worker[w].at]
        /\ Step(w, IF worker[w].at = "failed" THEN "tell failed" ELSE "tell done")
    BY <1>7 DEF FinishTask, WriteTask
  <2>2. task' \in [Tasks -> TaskShape] /\ task'[worker[w].task].status = worker[w].at
    BY <1>0, <1>a, <2>1 DEF TaskShape
  <2>3. worker[w].at = "done" => saved[About(w)] > 0 \/ About(w) \in ghost.unread
    BY <1>0, <2>1 DEF WorkerInv
  <2>4. \A t \in Tasks : task'[t].about = task[t].about /\ (t # worker[w].task => task'[t] = task[t])
    <3>1. task \in [Tasks -> TaskShape]
      BY <1>0
    <3> QED BY <2>1, <3>1 DEF TaskShape
  <2>5. \A t \in Tasks : /\ task'[t].about = task[t].about
                         /\ \/ task'[t] = task[t]
                            \/ t = worker[w].task /\ task'[t].status \in {"running", "done", "failed"}
    BY <2>1, <2>2, <2>4
  <2>6. /\ worker[w].at # "idle" /\ task'[worker[w].task].status # "pending"
        /\ saved' \in [Incidents -> Nat]
        /\ incident' \in [Incidents -> {"pending", "running", "done", "failed", "disabled"}]
    BY <1>0, <2>1, <2>2
  <2>7. CASE worker[w].at = "failed"
    <3>1. Step(w, "tell failed") /\ "tell failed" \in Steps \ {"idle", "picked"}
      BY <2>1, <2>7 DEF Steps
    <3> QED BY <1>2, <2>1, <2>2, <2>5, <2>6, <3>1
  <2>8. CASE worker[w].at = "done"
    <3>1. Step(w, "tell done") /\ "tell done" \in Steps \ {"idle", "picked"}
      BY <2>1, <2>8 DEF Steps
    <3>2. saved'[About(w)] > 0 \/ About(w) \in ghost.unread
      BY <2>1, <2>3, <2>8
    <3> QED BY <1>2, <2>1, <2>2, <2>5, <2>6, <3>1, <3>2
  <2> QED BY <2>1, <2>7, <2>8
<1>8. CASE FinishIncident(w)
  <2>1. /\ worker[w].at \in {"tell failed", "tell done"} /\ UNCHANGED <<task, saved, ghost, period, user>>
        /\ incident' = [incident EXCEPT ![About(w)] = IF worker[w].at = "tell done" THEN "done" ELSE "failed"]
        /\ worker' = [worker EXCEPT ![w] = Rest]
    BY <1>8 DEF FinishIncident
  <2>2. Rest \in [at : Steps, task : 0 .. MaxTasks] /\ WorkerInv(w)'
    <3>1. 0 \in 0 .. MaxTasks
      BY AnIncident
    <3>2. Rest \in [at : Steps, task : 0 .. MaxTasks]
      BY <3>1 DEF Rest, Steps
    <3>3. worker'[w].at = "idle"
      BY <1>0, <2>1 DEF Rest
    <3> QED BY <3>2, <3>3 DEF WorkerInv
  <2>3. ASSUME NEW i \in Incidents PROVE IncidentInv(i)'
    <3>1. CASE i = About(w)
      BY <1>0, <1>a, <2>1, <3>1 DEF IncidentInv, WorkerInv
    <3>2. CASE i # About(w)
      <4>1. incident'[i] = incident[i] /\ \A v \in Workers \ {w} : worker'[v] = worker[v]
        BY <1>0, <1>a, <2>1, <3>2
      <4>2. Attended(i) => Attended(i)'
        BY <2>1, <3>2, <4>1 DEF Attended, About
      <4> QED BY <1>b, <2>1, <4>1, <4>2 DEF IncidentInv
    <3> QED BY <3>1, <3>2
  <2>4. incident' \in [Incidents -> {"pending", "running", "done", "failed", "disabled"}]
    BY <1>0, <2>1
  <2> QED BY <1>0, <2>1, <2>2, <2>3, <2>4, WorkerSteps
<1> QED BY <1>1, <1>3, <1>4, <1>5, <1>6, <1>7, <1>8 DEF WorkerStep

LEMMA StatementLostInv ==
  ASSUME TasksInv, NEW w \in Workers, StatementLost(w)
  PROVE  TasksInv'
<1>0. /\ worker \in [Workers -> [at : Steps, task : 0 .. MaxTasks]] /\ task \in [Tasks -> TaskShape]
      /\ saved \in [Incidents -> Nat] /\ ghost \in GhostShape
      /\ incident \in [Incidents -> {"pending", "running", "done", "failed", "disabled"}]
      /\ WorkerInv(w) /\ worker[w] \in [at : Steps, task : 0 .. MaxTasks]
      /\ \A i \in Incidents : IncidentInv(i)
  BY DEF TasksInv, TasksShape, WorkersInv
<1>1. worker[w].task \in Tasks /\ About(w) \in Incidents /\ task[worker[w].task].status # "none"
  BY <1>0 DEF StatementLost, WorkerInv, About, TaskShape
<1>2. UNCHANGED <<task, incident, saved, period, user>>
  BY DEF StatementLost
<1>3. /\ ghost' \in GhostShape
      /\ ghost'.unsaved = IF worker[w].at \in {"picked", "failed", "done"} THEN ghost.unsaved \cup {worker[w].task} ELSE ghost.unsaved
      /\ ghost'.stranded = IF worker[w].at \in {"tell failed", "tell done"} THEN ghost.stranded \cup {About(w)} ELSE ghost.stranded
      /\ ghost'.unread = IF worker[w].at = "report" THEN ghost.unread \cup {About(w)} ELSE ghost.unread
      /\ ghost'.reset = ghost.reset /\ ghost'.orphaned = ghost.orphaned
  BY <1>0, <1>1 DEF StatementLost, GhostShape
<1>4. CASE worker[w].at \in {"tell failed", "tell done"}
  <2>1. worker' = [worker EXCEPT ![w] = Rest]
    BY <1>4 DEF StatementLost, After
  <2>2. Rest \in [at : Steps, task : 0 .. MaxTasks] /\ WorkerInv(w)'
    <3>1. 0 \in 0 .. MaxTasks
      BY AnIncident
    <3>2. Rest \in [at : Steps, task : 0 .. MaxTasks]
      BY <3>1 DEF Rest, Steps
    <3>3. worker'[w].at = "idle"
      BY <1>0, <2>1 DEF Rest
    <3> QED BY <3>2, <3>3 DEF WorkerInv
  <2>3. ASSUME NEW i \in Incidents PROVE IncidentInv(i)'
    <3>1. CASE i = About(w)
      BY <1>0, <1>2, <1>3, <1>4, <3>1 DEF IncidentInv, Attended
    <3>2. CASE i # About(w)
      <4>1. \A v \in Workers \ {w} : worker'[v] = worker[v]
        BY <1>0, <2>1
      <4>2. Attended(i) => Attended(i)'
        BY <1>2, <1>3, <3>2, <4>1 DEF Attended, About
      <4> QED BY <1>0, <1>2, <1>3, <4>2 DEF IncidentInv
    <3> QED BY <3>1, <3>2
  <2> QED BY <1>0, <1>2, <1>3, <2>1, <2>2, <2>3, WorkerSteps
<1>5. CASE worker[w].at \in {"picked", "marked", "report", "failed", "done"}
  <2>1. PICK at \in Steps \ {"idle", "picked"} :
          /\ at = After(worker[w].at) /\ at \in {"marked", "ready", "done", "tell failed", "tell done"}
          /\ at = "tell done" => worker[w].at = "done"
          /\ at = "done" => worker[w].at = "report"
          /\ at = "marked" => worker[w].at = "picked"
          /\ at = "ready" => worker[w].at = "marked"
          /\ at = "tell failed" => worker[w].at = "failed"
    <3> DEFINE at == After(worker[w].at)
    <3>1. /\ at \in Steps \ {"idle", "picked"} /\ at \in {"marked", "ready", "done", "tell failed", "tell done"}
          /\ at = "tell done" => worker[w].at = "done"
          /\ at = "done" => worker[w].at = "report"
          /\ at = "marked" => worker[w].at = "picked"
          /\ at = "ready" => worker[w].at = "marked"
          /\ at = "tell failed" => worker[w].at = "failed"
      BY <1>5 DEF After, Steps
    <3> HIDE DEF at
    <3> QED BY <3>1 DEF at
  <2> DEFINE x == [at |-> at, task |-> worker[w].task]
  <2>2. worker' = [worker EXCEPT ![w] = [worker[w] EXCEPT !.at = at]]
    BY <2>1 DEF StatementLost
  <2>3. [worker[w] EXCEPT !.at = at] = x /\ x \in [at : Steps, task : 0 .. MaxTasks]
    <3>1. worker[w] \in [at : Steps, task : 0 .. MaxTasks] /\ at \in Steps
      BY <1>0
    <3> QED BY <3>1
  <2>4. worker'[w] = x /\ x.at = at /\ x.task = worker[w].task
    BY <1>0, <2>2, <2>3
  <2> HIDE DEF x
  <2>5. About(w)' = About(w)
    BY <1>2, <2>4 DEF About
  <2>6. WorkerInv(w)'
    <3>1. at \in {"done", "tell done"} => saved[About(w)] > 0 \/ About(w) \in ghost'.unread
      BY <1>0, <1>3, <2>1 DEF WorkerInv
    <3>2. task[worker[w].task].status # "pending" \/ worker[w].task \in ghost'.reset \cup ghost'.unsaved
      BY <1>0, <1>3, <1>5 DEF WorkerInv
    <3> QED BY <1>1, <1>2, <2>4, <2>5, <3>1, <3>2 DEF WorkerInv
  <2>7. \A i \in Incidents : Attended(i) => Attended(i)'
    BY <1>1, <1>2, <1>3, <2>1, <2>2, <2>3, <2>4, StillAttended
  <2>8. \A i \in Incidents : IncidentInv(i)'
    BY <1>0, <1>2, <1>3, <2>7 DEF IncidentInv
  <2> QED BY <1>0, <1>2, <1>3, <2>2, <2>3, <2>6, <2>8, WorkerSteps
<1> QED BY <1>4, <1>5 DEF StatementLost

LEMMA EnqueueInv ==
  ASSUME TasksInv, NEW i \in Incidents, EnqueueTask(i)
  PROVE  TasksInv'
<1>0. worker \in [Workers -> [at : Steps, task : 0 .. MaxTasks]] /\ task \in [Tasks -> TaskShape]
  BY DEF TasksInv, TasksShape
<1>1. PICK t \in Tasks : task[t].status = "none" /\ task' = [task EXCEPT ![t] = [status |-> "pending", about |-> i]]
  BY DEF EnqueueTask, Enqueue
<1>2. UNCHANGED <<incident, saved, period, worker, user, ghost>>
  BY DEF EnqueueTask
<1>3. task' \in [Tasks -> TaskShape] /\ \A s \in Tasks \ {t} : task'[s] = task[s]
  BY <1>0, <1>1 DEF TaskShape
<1>4. \A w \in Workers : worker[w].at # "idle" => worker[w].task \in Tasks \ {t} /\ About(w)' = About(w)
  BY <1>1, <1>2, <1>3 DEF TasksInv, WorkersInv, WorkerInv, About
<1>5. \A w \in Workers : WorkerInv(w)'
  BY <1>2, <1>3, <1>4 DEF TasksInv, WorkersInv, WorkerInv
<1>6. ASSUME NEW j \in Incidents PROVE IncidentInv(j)'
  <2>1. Attended(j) => Attended(j)'
    BY <1>1, <1>2, <1>3, <1>4 DEF Attended
  <2> QED BY <1>2, <2>1 DEF TasksInv, IncidentInv
<1>7. \A u \in Users : ReportInv(u)'
  BY <1>2 DEF TasksInv, ReportInv
<1> QED BY <1>2, <1>3, <1>5, <1>6, <1>7 DEF TasksInv, TasksShape, WorkersInv

LEMMA BootInv ==
  ASSUME TasksInv, NEW r \in Replicas, Boot(r)
  PROVE  TasksInv'
<1> DEFINE stale == {t \in Tasks : task[t].status = "running"}
<1>0. /\ worker \in [Workers -> [at : Steps, task : 0 .. MaxTasks]] /\ task \in [Tasks -> TaskShape]
      /\ ghost \in GhostShape
      /\ incident \in [Incidents -> {"pending", "running", "done", "failed", "disabled"}]
  BY DEF TasksInv, TasksShape
<1>1. /\ task' = [t \in Tasks |-> IF t \in stale THEN [task[t] EXCEPT !.status = "pending"] ELSE task[t]]
      /\ incident' = [i \in Incidents |->
           IF stale # {} /\ incident[i] = "running" /\ \E t \in Pending \cup stale : task[t].about = i
           THEN "pending" ELSE incident[i]]
      /\ ghost' = [ghost EXCEPT !.reset = @ \cup stale]
      /\ UNCHANGED <<saved, period, worker, user>>
  BY DEF Boot
<1>2. /\ ghost' \in GhostShape /\ ghost'.reset = ghost.reset \cup stale
      /\ ghost'.unsaved = ghost.unsaved /\ ghost'.stranded = ghost.stranded /\ ghost'.unread = ghost.unread
      /\ ghost'.orphaned = ghost.orphaned
  BY <1>0, <1>1 DEF GhostShape
<1>3. \A t \in Tasks : /\ task'[t] \in TaskShape /\ task'[t].about = task[t].about
                       /\ t \in stale => task'[t].status = "pending"
                       /\ t \notin stale => task'[t] = task[t]
  BY <1>0, <1>1 DEF TaskShape
<1>4. task' \in [Tasks -> TaskShape]
  BY <1>1, <1>3
<1>5. \A i \in Incidents : incident'[i] = incident[i] \/ incident'[i] = "pending"
  BY <1>1
<1> HIDE DEF stale
<1>6. incident' \in [Incidents -> {"pending", "running", "done", "failed", "disabled"}]
  <2>1. \A i \in Incidents : incident'[i] \in {"pending", "running", "done", "failed", "disabled"}
    BY <1>0, <1>5
  <2>2. incident' = [i \in Incidents |-> incident'[i]]
    BY <1>1
  <2> QED BY <2>1, <2>2
<1>7. \A w \in Workers : worker[w].at # "idle" => worker[w].task \in Tasks /\ About(w)' = About(w)
  BY <1>1, <1>3 DEF TasksInv, WorkersInv, WorkerInv, About
<1>8. ASSUME NEW w \in Workers PROVE WorkerInv(w)'
  <2>1. CASE worker[w].at = "idle"
    BY <1>1, <2>1 DEF WorkerInv
  <2>2. CASE worker[w].at # "idle"
    <3>1. worker[w].task \in Tasks /\ WorkerInv(w)
      BY <1>7, <2>2 DEF TasksInv, WorkersInv
    <3>2. task'[worker[w].task].status # "none"
      BY <1>3, <2>2, <3>1 DEF WorkerInv
    <3> QED BY <1>1, <1>2, <1>3, <1>7, <2>2, <3>1, <3>2 DEF WorkerInv
  <2> QED BY <2>1, <2>2
<1>9. ASSUME NEW i \in Incidents PROVE IncidentInv(i)'
  <2>1. Attended(i) => Attended(i)'
    <3>1. \A t \in Tasks : task[t].status \in {"pending", "running"} => task'[t].status \in {"pending", "running"}
      BY <1>3
    <3> QED BY <1>1, <1>2, <1>3, <1>7, <3>1 DEF Attended
  <2> QED BY <1>1, <1>2, <1>5, <2>1 DEF TasksInv, IncidentInv
<1>10. \A u \in Users : ReportInv(u)'
  BY <1>1, <1>2 DEF TasksInv, ReportInv
<1> QED BY <1>1, <1>2, <1>4, <1>6, <1>8, <1>9, <1>10 DEF TasksInv, TasksShape, WorkersInv

LEMMA DieInv ==
  ASSUME TasksInv, NEW r \in Replicas, Die(r)
  PROVE  TasksInv'
<1> DEFINE left == {About(w) : w \in {v \in Workers \cap At(r) : worker[v].at # "idle" /\ task[worker[v].task].status # "running"}}
           cut == {u \in Users \cap At(r) : user[u].at = "period"}
<1>0. /\ worker \in [Workers -> [at : Steps, task : 0 .. MaxTasks]] /\ task \in [Tasks -> TaskShape]
      /\ ghost \in GhostShape
      /\ user \in [Users -> [at : {"idle", "chat", "period", "ask"}, about : Incidents]]
  BY DEF TasksInv, TasksShape
<1>a. \A w \in Workers : worker[w].at # "idle" => worker[w].task \in Tasks /\ About(w) \in Incidents
  BY <1>0 DEF TasksInv, WorkersInv, WorkerInv, About, TaskShape
<1>1. /\ UNCHANGED <<task, incident, saved, period>>
      /\ worker' = [w \in Workers |-> IF w \in At(r) THEN Rest ELSE worker[w]]
      /\ user' = [u \in Users |-> IF u \in At(r) THEN [user[u] EXCEPT !.at = "idle"] ELSE user[u]]
      /\ ghost' = [ghost EXCEPT !.stranded = @ \cup left, !.orphaned = @ \cup cut]
  BY DEF Die
<1>2. left \subseteq Incidents /\ cut \subseteq Users
  BY <1>a
<1>3. /\ ghost' \in GhostShape /\ ghost'.stranded = ghost.stranded \cup left /\ ghost'.orphaned = ghost.orphaned \cup cut
      /\ ghost'.unsaved = ghost.unsaved /\ ghost'.reset = ghost.reset /\ ghost'.unread = ghost.unread
  <2> HIDE DEF left, cut
  <2> QED BY <1>0, <1>1, <1>2 DEF GhostShape
<1>4. \A w \in Workers : /\ worker'[w] = worker[w] \/ worker'[w] = Rest
                         /\ w \notin At(r) => worker'[w] = worker[w]
  BY <1>1
<1>5. worker' \in [Workers -> [at : Steps, task : 0 .. MaxTasks]]
  <2>1. 0 \in 0 .. MaxTasks
    BY AnIncident
  <2>2. Rest \in [at : Steps, task : 0 .. MaxTasks]
    BY <2>1 DEF Rest, Steps
  <2> QED BY <1>0, <1>1, <2>2
<1>6. user' \in [Users -> [at : {"idle", "chat", "period", "ask"}, about : Incidents]]
  BY <1>0, <1>1
<1>7. ASSUME NEW w \in Workers PROVE WorkerInv(w)'
  <2>1. CASE worker'[w] = Rest
    BY <2>1 DEF WorkerInv, Rest
  <2>2. CASE worker'[w] = worker[w]
    BY <1>1, <1>3, <2>2 DEF TasksInv, WorkersInv, WorkerInv, About
  <2> QED BY <1>4, <2>1, <2>2
<1>8. ASSUME NEW i \in Incidents PROVE IncidentInv(i)'
  <2>1. ASSUME NEW w \in Workers, worker[w].at # "idle", About(w) = i PROVE Attended(i)'
    <3>1. CASE w \notin At(r)
      BY <1>1, <1>4, <2>1, <3>1 DEF Attended, About
    <3>2. CASE w \in At(r) /\ task[worker[w].task].status = "running"
      BY <1>a, <1>1, <2>1, <3>2 DEF Attended, About
    <3>3. CASE w \in At(r) /\ task[worker[w].task].status # "running"
      BY <1>3, <2>1, <3>3 DEF Attended
    <3> QED BY <3>1, <3>2, <3>3
  <2>2. Attended(i) => Attended(i)'
    BY <1>1, <1>3, <2>1 DEF Attended
  <2> QED BY <1>1, <1>3, <2>2 DEF TasksInv, IncidentInv
<1>9. ASSUME NEW u \in Users PROVE ReportInv(u)'
  <2>1. user[u].at = "period" => user'[u].at = "period" \/ u \in cut
    BY <1>1
  <2> QED BY <1>1, <1>3, <2>1 DEF TasksInv, ReportInv
<1> QED BY <1>1, <1>3, <1>5, <1>6, <1>7, <1>8, <1>9 DEF TasksInv, TasksShape, WorkersInv

LEMMA UserStepInv ==
  ASSUME TasksInv, NEW u \in Users,
         (\E i \in Incidents : chat(u, i) \/ createReport(u, i) \/ ask(u, i)) \/ Answer(u)
  PROVE  TasksInv'
<1>0. /\ user \in [Users -> [at : {"idle", "chat", "period", "ask"}, about : Incidents]]
      /\ period \in [Users -> {"none", "running", "done", "failed"}] /\ ghost \in GhostShape
      /\ \A x \in Users : ReportInv(x)
  BY DEF TasksInv, TasksShape
<1>1. UNCHANGED <<task, incident, saved, worker, ghost>>
  BY DEF chat, createReport, ask, Answer
<1>2. CASE \E i \in Incidents : chat(u, i) \/ createReport(u, i) \/ ask(u, i)
  <2>1. PICK i \in Incidents, at \in {"chat", "period", "ask"} :
          /\ user[u].at = "idle" /\ user' = [user EXCEPT ![u] = [at |-> at, about |-> i]]
          /\ \/ at # "period" /\ period' = period
             \/ at = "period" /\ period' = [period EXCEPT ![u] = "running"]
    BY <1>2 DEF chat, createReport, ask, Serve
  <2>2. /\ user' \in [Users -> [at : {"idle", "chat", "period", "ask"}, about : Incidents]]
        /\ period' \in [Users -> {"none", "running", "done", "failed"}]
    BY <1>0, <2>1
  <2>3. ASSUME NEW x \in Users PROVE ReportInv(x)'
    BY <1>0, <1>1, <2>1 DEF ReportInv
  <2> QED BY <1>0, <1>1, <2>2, <2>3, WorkersRest
<1>3. CASE Answer(u)
  <2>1. /\ user' = [user EXCEPT ![u].at = "idle"]
        /\ period' = IF user[u].at = "period"
                     THEN [period EXCEPT ![u] = IF talk[u].out = "error" THEN "failed" ELSE "done"] ELSE period
    BY <1>3 DEF Answer
  <2>2. /\ user' \in [Users -> [at : {"idle", "chat", "period", "ask"}, about : Incidents]]
        /\ period' \in [Users -> {"none", "running", "done", "failed"}]
    BY <1>0, <2>1
  <2>3. ASSUME NEW x \in Users PROVE ReportInv(x)'
    BY <1>0, <1>1, <2>1 DEF ReportInv
  <2> QED BY <1>0, <1>1, <2>2, <2>3, WorkersRest
<1> QED BY <1>2, <1>3

LEMMA TasksStep == TasksInv /\ [TasksNext]_aiVars => TasksInv'
<1> SUFFICES ASSUME TasksInv, [TasksNext]_aiVars PROVE TasksInv'
  OBVIOUS
<1>1. ASSUME UNCHANGED <<task, incident, saved, period, worker, user, ghost>> PROVE TasksInv'
  <2>1. /\ ghost \in GhostShape /\ period \in [Users -> {"none", "running", "done", "failed"}]
        /\ user \in [Users -> [at : {"idle", "chat", "period", "ask"}, about : Incidents]]
        /\ \A u \in Users : ReportInv(u)'
    BY <1>1 DEF TasksInv, TasksShape, ReportInv
  <2> QED BY <1>1, <2>1, WorkersRest
<1>2. ASSUME NEW w \in Workers,
             \/ Pick(w) \/ MarkTask(w) \/ MarkIncident(w) \/ StartAnalysis(w) \/ Analyzed(w)
             \/ SaveReport(w) \/ FinishTask(w) \/ FinishIncident(w) \/ StatementLost(w)
      PROVE  TasksInv'
  BY <1>2, WorkerStepInv, StatementLostInv DEF WorkerStep
<1>3. ASSUME NEW r \in Replicas, \/ \E i \in Incidents : Watch(r, i)
                                 \/ Stop(r) \/ Exit(r) \/ Crash(r) \/ ConcurrentBroadcast(r) \/ Boot(r)
      PROVE  TasksInv'
  <2>1. CASE Exit(r) \/ Crash(r) \/ ConcurrentBroadcast(r)
    BY <2>1, DieInv DEF Exit, Crash, ConcurrentBroadcast
  <2>2. CASE Stop(r) \/ \E i \in Incidents : Watch(r, i)
    BY <1>1, <2>2 DEF Stop, Watch
  <2> QED BY <1>3, <2>1, <2>2, BootInv
<1>4. CASE EditProvider \/ \E c \in Callers : Converses(c) \/ CancelledByStop(c)
  BY <1>1, <1>4 DEF EditProvider, Converses, CancelledByStop, taskVars
<1>5. CASE UNCHANGED aiVars
  BY <1>1, <1>5 DEF aiVars, taskVars
<1> QED BY <1>2, <1>3, <1>4, <1>5, EnqueueInv, UserStepInv DEF TasksNext

THEOREM TasksInvariant == Spec => []TasksInv
<1> QED BY TasksInitInv, TasksStep, PTL DEF Spec

(* What the console shows of incidents and of periodic reports is kept     *)
(* true by a worker, a task or a handler, or a lost statement, a crash or  *)
(* a start explains it (orchestrator.go, ai_report.go).                    *)
THEOREM StatusStaysHonest == Spec => []StatusIsHonest
<1>1. TasksInv => StatusIsHonest
  BY DEF TasksInv, IncidentInv, Attended, ReportInv, StatusIsHonest
<1> QED BY <1>1, TasksInvariant, PTL

(* A worker takes a task that another one is at only in the gap between    *)
(* that one's SELECT and its UPDATE, or after a start has reset the task,  *)
(* or after an UPDATE has failed (pickAndRun, ResetStaleTasks).            *)
THEOREM PicksStayExplained == Spec => PicksAreExplained
<1> DEFINE A == \A w \in Workers : worker[w].at = "idle" /\ worker'[w].at = "picked" =>
                  \A v \in Workers \ {w} : worker[v].at # "idle" /\ worker[v].task = worker'[w].task =>
                    worker[v].at = "picked" \/ worker[v].task \in ghost.reset \cup ghost.unsaved
<1>1. TasksInv /\ [TasksNext]_aiVars => [A]_aiVars
  <2> SUFFICES ASSUME TasksInv, TasksNext,
                      NEW w \in Workers, worker[w].at = "idle", worker'[w].at = "picked",
                      NEW v \in Workers \ {w}, worker[v].at # "idle", worker[v].task = worker'[w].task
               PROVE  worker[v].at = "picked" \/ worker[v].task \in ghost.reset \cup ghost.unsaved
    OBVIOUS
  <2>1. Pick(w)
    <3>0. worker \in [Workers -> [at : Steps, task : 0 .. MaxTasks]] /\ worker' # worker
      BY DEF TasksInv, TasksShape
    <3>1. ASSUME NEW x \in Workers, x # w \/ ~Pick(x),
                 \/ Pick(x) \/ MarkTask(x) \/ MarkIncident(x) \/ StartAnalysis(x) \/ Analyzed(x)
                 \/ SaveReport(x) \/ FinishTask(x) \/ FinishIncident(x) \/ StatementLost(x)
          PROVE  FALSE
      <4>1. CASE x # w
        <5>1. worker'[w] = worker[w]
          BY <3>0, <3>1, <4>1 DEF Pick, MarkTask, MarkIncident, StartAnalysis, Analyzed, SaveReport, FinishTask,
               FinishIncident, StatementLost, Step
        <5> QED BY <5>1
      <4>2. CASE x = w
        BY <3>1, <4>2 DEF MarkTask, MarkIncident, StartAnalysis, Analyzed, SaveReport, FinishTask, FinishIncident,
             StatementLost
      <4> QED BY <4>1, <4>2
    <3>2. ASSUME NEW r \in Replicas, Die(r) PROVE FALSE
      <4>1. worker'[w] = worker[w] \/ worker'[w] = Rest
        BY <3>2 DEF Die
      <4> QED BY <4>1 DEF Rest
    <3> QED BY <3>0, <3>1, <3>2 DEF TasksNext, EnqueueTask, chat, createReport, ask, Answer, Converses,
              CancelledByStop, taskVars, Watch, Stop, Exit, Crash, ConcurrentBroadcast, Boot, EditProvider
  <2>2. PICK t \in Pending : worker' = [worker EXCEPT ![w] = [at |-> "picked", task |-> t]]
    BY <2>1 DEF Pick
  <2>3. worker[v].task = t /\ task[t].status = "pending" /\ WorkerInv(v)
    BY <2>2 DEF TasksInv, TasksShape, WorkersInv, Pending
  <2> QED BY <2>3 DEF WorkerInv
<1> QED BY <1>1, TasksInvariant, PTL DEF Spec, PicksAreExplained

-----------------------------------------------------------------------------
(* The table of providers.                                                 *)

ProviderShape == [live : BOOLEAN, default : BOOLEAN, enabled : BOOLEAN, key : Nat]
RequestShape == [op : {"none", "create", "update", "default"}, row : Providers \cup {CHOOSE p \in Providers : TRUE},
                 old : ProviderShape, default : BOOLEAN, enabled : BOOLEAN, key : Nat,
                 match : SUBSET Providers, held : SUBSET Providers]

LLMShape ==
  /\ llm \in [Providers -> ProviderShape] /\ form \in [Admins -> RequestShape]
  /\ admin \in [Admins -> {"idle", "match", "clear", "write"}]
  /\ requests \in Nat
  /\ \A p \in Providers : llm[p].key <= requests
  /\ \A a \in Admins : form[a].key <= requests /\ form[a].old.key <= requests
  /\ \A a \in Admins : admin[a] # "idle" => form[a].op \in {"create", "update", "default"} /\ form[a].row \in Providers

AtMostOneDefault == \A p, q \in Defaults : p = q

(* What a handler that works alone has read is as it has read it, and what *)
(* it holds when it writes is what it has to clear.                        *)
RequestInv(a) ==
  LET f == form[a] IN
    /\ f.op = "create" => llm[f.row].key = 0
    /\ f.op # "create" => f.old = llm[f.row] /\ llm[f.row].live
    /\ f.op = "update" /\ f.key # 0 => llm[f.row].key <= f.key
    /\ admin[a] = "clear" => f.match = Defaults \ {f.row}
    /\ admin[a] = "write" => \/ f.held = Defaults \ {f.row}
                             \/ f.op = "create" /\ ~f.default
                             \/ f.op = "update" /\ (f.default => f.old.default)

LLMInv ==
  /\ LLMShape
  /\ ~crossed =>
       /\ AtMostOneDefault
       /\ \A a, b \in Admins : a # b => admin[a] = "idle" \/ admin[b] = "idle"
       /\ \A a \in Admins : admin[a] # "idle" => RequestInv(a)

LEMMA EmptyForms ==
  /\ Absent \in ProviderShape /\ NoForm \in RequestShape /\ NoForm.key = 0 /\ NoForm.old.key = 0
<1>1. Absent \in ProviderShape /\ Absent.key = 0
  BY DEF Absent, ProviderShape
<1> QED BY <1>1 DEF NoForm, RequestShape

LEMMA LLMInitInv == LLMInit => LLMInv
<1> SUFFICES ASSUME LLMInit PROVE LLMInv
  OBVIOUS
<1>1. Absent.key = 0 /\ ~Absent.live
  BY DEF Absent
<1>2. LLMShape
  BY <1>1, EmptyForms DEF LLMInit, LLMShape
<1>3. Defaults = {} /\ \A a \in Admins : admin[a] = "idle"
  BY <1>1 DEF LLMInit, Defaults
<1> QED BY <1>2, <1>3 DEF LLMInv, AtMostOneDefault

(* A request that is submitted. *)
LEMMA SubmitInv ==
  ASSUME LLMInv, NEW a \in Admins, NEW f \in RequestShape, NEW next \in {"match", "write"}, Submit(a, f, next),
         f.key <= requests + 1, f.old.key <= requests,
         f.op \in {"create", "update", "default"}, f.row \in Providers,
         f.op = "create" => llm[f.row].key = 0,
         f.op # "create" => f.old = llm[f.row] /\ llm[f.row].live,
         f.key \in {0, requests + 1},
         next = "write" => \/ f.op = "create" /\ ~f.default
                           \/ f.op = "update" /\ (f.default => f.old.default)
  PROVE  LLMInv'
<1>0. LLMShape
  BY DEF LLMInv
<1>1. /\ requests' = requests + 1 /\ llm' = llm /\ form' = [form EXCEPT ![a] = f] /\ admin' = [admin EXCEPT ![a] = next]
      /\ admin[a] = "idle"
      /\ ~crossed' => ~crossed /\ \A b \in Admins \ {a} : admin[b] = "idle"
  BY DEF Submit
<1>2. /\ form' \in [Admins -> RequestShape] /\ form'[a] = f /\ \A b \in Admins \ {a} : form'[b] = form[b]
      /\ admin' \in [Admins -> {"idle", "match", "clear", "write"}]
      /\ admin'[a] = next /\ \A b \in Admins \ {a} : admin'[b] = admin[b]
  BY <1>0, <1>1 DEF LLMShape
<1>3. /\ requests' \in Nat /\ requests <= requests'
      /\ \A p \in Providers : llm'[p].key <= requests'
  BY <1>0, <1>1 DEF LLMShape, ProviderShape
<1>4. \A b \in Admins : form'[b].key <= requests' /\ form'[b].old.key <= requests'
  <2>1. f.key <= requests' /\ f.old.key <= requests'
    <3>1. f.old.key \in Nat /\ requests \in Nat
      BY <1>0 DEF LLMShape, RequestShape, ProviderShape
    <3> QED BY <1>1, <3>1
  <2>2. \A b \in Admins \ {a} : form[b].key <= requests' /\ form[b].old.key <= requests'
    <3>1. \A b \in Admins : form[b].key \in Nat /\ form[b].old.key \in Nat /\ requests \in Nat
      BY <1>0 DEF LLMShape, RequestShape, ProviderShape
    <3> QED BY <1>0, <1>1, <3>1 DEF LLMShape
  <2> QED BY <1>2, <2>1, <2>2
<1>5. LLMShape'
  BY <1>0, <1>1, <1>2, <1>3, <1>4 DEF LLMShape
<1>6. ASSUME ~crossed' PROVE RequestInv(a)'
  <2>1. f.op = "update" /\ f.key # 0 => llm'[f.row].key <= f.key
    BY <1>1, <1>3
  <2> QED BY <1>1, <1>2, <2>1 DEF RequestInv
<1>7. Defaults' = Defaults
  BY <1>1 DEF Defaults
<1> QED BY <1>1, <1>2, <1>5, <1>6, <1>7 DEF LLMInv, AtMostOneDefault

KeysKept == \A p \in Providers : llm'[p].key >= llm[p].key

LEMMA RequestsInv ==
  ASSUME LLMInv, NEW a \in Admins, createLLMProvider(a) \/ updateLLMProvider(a) \/ setDefaultLLMProvider(a)
  PROVE  LLMInv' /\ KeysKept
<1>0. LLMShape /\ requests \in Nat /\ \A p \in Providers : llm[p] \in ProviderShape /\ llm[p].key <= requests
  BY DEF LLMInv, LLMShape
<1>1. llm' = llm /\ KeysKept
  <2>1. llm' = llm
    BY DEF createLLMProvider, updateLLMProvider, setDefaultLLMProvider, Submit
  <2> QED BY <1>0, <2>1 DEF KeysKept, ProviderShape
<1>2. CASE createLLMProvider(a)
  <2>1. PICK p \in Providers, default, enabled \in BOOLEAN :
          /\ llm[p] = Absent
          /\ Submit(a, [NoForm EXCEPT !.op = "create", !.row = p, !.default = default,
                                      !.enabled = enabled, !.key = requests + 1],
                    IF default THEN "match" ELSE "write")
    BY <1>2 DEF createLLMProvider
  <2> DEFINE f == [NoForm EXCEPT !.op = "create", !.row = p, !.default = default, !.enabled = enabled, !.key = requests + 1]
             next == IF default THEN "match" ELSE "write"
  <2>2. /\ f \in RequestShape /\ f.key = requests + 1 /\ f.old.key = 0 /\ f.op = "create" /\ f.row = p
        /\ f.default = default
    <3>1. requests + 1 \in Nat
      BY <1>0
    <3> QED BY <3>1, EmptyForms DEF RequestShape
  <2>3. llm[p].key = 0
    BY <2>1 DEF Absent
  <2>4. next \in {"match", "write"} /\ (next = "write" => ~default)
    OBVIOUS
  <2>5. Submit(a, f, next)
    BY <2>1
  <2> HIDE DEF f, next
  <2>6. f.key <= requests + 1 /\ f.old.key <= requests
    BY <1>0, <2>2
  <2> QED BY <1>1, <2>2, <2>3, <2>4, <2>5, <2>6, SubmitInv
<1>3. CASE updateLLMProvider(a)
  <2>1. PICK p \in Providers, default, enabled \in BOOLEAN, key \in {0, requests + 1} :
          /\ llm[p].live
          /\ Submit(a, [NoForm EXCEPT !.op = "update", !.row = p, !.old = llm[p],
                                      !.default = default, !.enabled = enabled, !.key = key],
                    IF default /\ ~llm[p].default THEN "match" ELSE "write")
    BY <1>3 DEF updateLLMProvider
  <2> DEFINE f == [NoForm EXCEPT !.op = "update", !.row = p, !.old = llm[p], !.default = default, !.enabled = enabled, !.key = key]
             next == IF default /\ ~llm[p].default THEN "match" ELSE "write"
  <2>2. /\ f \in RequestShape /\ f.key = key /\ f.old = llm[p] /\ f.op = "update" /\ f.row = p
        /\ f.default = default
    <3>1. key \in Nat /\ llm[p] \in ProviderShape
      BY <1>0
    <3> QED BY <3>1, EmptyForms DEF RequestShape
  <2>3. next \in {"match", "write"} /\ (next = "write" => (default => llm[p].default))
    OBVIOUS
  <2>4. Submit(a, f, next)
    BY <2>1
  <2> HIDE DEF f, next
  <2>5. f.key <= requests + 1 /\ f.old.key <= requests
    BY <1>0, <2>2
  <2> QED BY <1>1, <2>1, <2>2, <2>3, <2>4, <2>5, SubmitInv
<1>4. CASE setDefaultLLMProvider(a)
  <2>1. PICK p \in Providers :
          /\ llm[p].live
          /\ Submit(a, [NoForm EXCEPT !.op = "default", !.row = p, !.old = llm[p]], "match")
    BY <1>4 DEF setDefaultLLMProvider
  <2> DEFINE f == [NoForm EXCEPT !.op = "default", !.row = p, !.old = llm[p]]
  <2>2. f \in RequestShape /\ f.key = 0 /\ f.old = llm[p] /\ f.op = "default" /\ f.row = p
    BY <1>0, EmptyForms DEF RequestShape
  <2>3. Submit(a, f, "match")
    BY <2>1
  <2> HIDE DEF f
  <2>4. f.key <= requests + 1 /\ f.old.key <= requests
    BY <1>0, <2>2
  <2> QED BY <1>1, <2>1, <2>2, <2>3, <2>4, SubmitInv
<1> QED BY <1>2, <1>3, <1>4

LEMMA DeleteInv ==
  ASSUME LLMInv, NEW a \in Admins, deleteLLMProvider(a)
  PROVE  LLMInv' /\ KeysKept
<1>0. /\ LLMShape /\ requests' = requests + 1 /\ UNCHANGED <<form, admin>> /\ admin[a] = "idle"
      /\ ~crossed' => ~crossed /\ \A b \in Admins \ {a} : admin[b] = "idle"
  BY DEF LLMInv, deleteLLMProvider
<1>1. PICK p \in Providers : llm' = [llm EXCEPT ![p].live = FALSE]
  BY DEF deleteLLMProvider
<1>2. /\ llm' \in [Providers -> ProviderShape]
      /\ \A q \in Providers : /\ llm'[q].key = llm[q].key /\ llm'[q].default = llm[q].default
                              /\ llm'[q].live => llm[q].live
  <2> DEFINE row == [llm[p] EXCEPT !.live = FALSE]
  <2>1. llm \in [Providers -> ProviderShape]
    BY <1>0 DEF LLMShape
  <2>2. llm' = [llm EXCEPT ![p] = row]
    BY <1>1
  <2>3. row \in ProviderShape /\ row.key = llm[p].key /\ row.default = llm[p].default /\ ~row.live
    BY <2>1 DEF ProviderShape
  <2> HIDE DEF row
  <2>4. llm' \in [Providers -> ProviderShape] /\ \A q \in Providers : llm'[q] = IF q = p THEN row ELSE llm[q]
    BY <2>1, <2>2, <2>3
  <2> QED BY <2>3, <2>4
<1>3. \A q \in Providers : llm[q].key \in Nat /\ llm[q].key <= requests /\ requests \in Nat
  BY <1>0 DEF LLMShape, ProviderShape
<1>4. \A b \in Admins : /\ form[b].key \in Nat /\ form[b].old.key \in Nat
                        /\ form[b].key <= requests /\ form[b].old.key <= requests
  BY <1>0 DEF LLMShape, RequestShape, ProviderShape
<1>5. LLMShape'
  BY <1>0, <1>2, <1>3, <1>4 DEF LLMShape
<1>6. Defaults' \subseteq Defaults
  BY <1>2 DEF Defaults
<1>7. ~crossed' => \A b \in Admins : admin'[b] = "idle"
  BY <1>0
<1>8. KeysKept
  BY <1>2, <1>3 DEF KeysKept
<1> QED BY <1>0, <1>5, <1>6, <1>7, <1>8 DEF LLMInv, AtMostOneDefault

(* A statement of a's transaction that changes no row. *)
LEMMA StatementInv ==
  ASSUME LLMInv, NEW a \in Admins, NEW f \in RequestShape, NEW at \in {"idle", "match", "clear", "write"},
         form' = [form EXCEPT ![a] = f], admin' = [admin EXCEPT ![a] = at], UNCHANGED <<llm, requests, crossed>>,
         admin[a] # "idle", f.key <= requests, f.old.key <= requests,
         at # "idle" => f.op = form[a].op /\ f.row = form[a].row,
         ~crossed /\ at # "idle" => RequestInv(a)'
  PROVE  LLMInv' /\ KeysKept
<1>1. /\ LLMShape /\ \A p \in Providers : llm[p].key \in Nat
  BY DEF LLMInv, LLMShape, ProviderShape
<1>2. /\ form' \in [Admins -> RequestShape] /\ form'[a] = f /\ \A b \in Admins \ {a} : form'[b] = form[b]
      /\ admin' \in [Admins -> {"idle", "match", "clear", "write"}]
      /\ admin'[a] = at /\ \A b \in Admins \ {a} : admin'[b] = admin[b]
  BY <1>1 DEF LLMShape
<1>3. LLMShape'
  BY <1>1, <1>2 DEF LLMShape
<1>4. Defaults' = Defaults
  BY DEF Defaults
<1> QED BY <1>1, <1>2, <1>3, <1>4 DEF LLMInv, AtMostOneDefault, KeysKept

LEMMA TransactionInv ==
  ASSUME LLMInv, NEW a \in Admins, MatchDefaults(a) \/ ClearDefaults(a) \/ RollBack(a)
  PROVE  LLMInv' /\ KeysKept
<1>0. /\ form \in [Admins -> RequestShape] /\ form[a] \in RequestShape
      /\ form[a].key <= requests /\ form[a].old.key <= requests /\ requests \in Nat
      /\ admin[a] \in {"match", "clear", "write"} /\ UNCHANGED <<llm, requests, crossed>>
      /\ ~crossed => RequestInv(a)
      /\ admin \in [Admins -> {"idle", "match", "clear", "write"}]
  BY DEF LLMInv, LLMShape, MatchDefaults, ClearDefaults, RollBack
<1>1. Defaults' = Defaults
  BY <1>0 DEF Defaults
<1>2. CASE MatchDefaults(a)
  <2> DEFINE f == [form[a] EXCEPT !.match = Defaults \ {form[a].row}]
  <2>1. form' = [form EXCEPT ![a] = f] /\ admin' = [admin EXCEPT ![a] = "clear"]
    BY <1>2 DEF MatchDefaults
  <2>2. /\ f \in RequestShape /\ f.op = form[a].op /\ f.row = form[a].row /\ f.old = form[a].old /\ f.key = form[a].key
        /\ f.match = Defaults \ {f.row}
    BY <1>0 DEF RequestShape, Defaults
  <2> HIDE DEF f
  <2>3. form'[a] = f /\ admin'[a] = "clear"
    BY <1>0, <2>1
  <2>4. ~crossed => RequestInv(a)'
    BY <1>0, <1>1, <2>2, <2>3 DEF RequestInv
  <2> QED BY <1>0, <2>1, <2>2, <2>4, StatementInv
<1>3. CASE ClearDefaults(a)
  <2> DEFINE f == [form[a] EXCEPT !.held = form[a].match \cap Defaults]
  <2>1. form' = [form EXCEPT ![a] = f] /\ admin' = [admin EXCEPT ![a] = "write"] /\ admin[a] = "clear"
    BY <1>3 DEF ClearDefaults
  <2>2. /\ f \in RequestShape /\ f.op = form[a].op /\ f.row = form[a].row /\ f.old = form[a].old /\ f.key = form[a].key
        /\ f.held = form[a].match \cap Defaults
    BY <1>0 DEF RequestShape
  <2> HIDE DEF f
  <2>3. form'[a] = f /\ admin'[a] = "write"
    BY <1>0, <2>1
  <2>4. ~crossed => RequestInv(a)'
    BY <1>0, <1>1, <2>1, <2>2, <2>3 DEF RequestInv
  <2> QED BY <1>0, <2>1, <2>2, <2>4, StatementInv
<1>4. CASE RollBack(a)
  <2>1. form' = [form EXCEPT ![a] = NoForm] /\ admin' = [admin EXCEPT ![a] = "idle"]
    BY <1>4 DEF RollBack
  <2>2. NoForm.key <= requests /\ NoForm.old.key <= requests
    BY <1>0, EmptyForms
  <2> QED BY <1>0, <2>1, <2>2, EmptyForms, StatementInv
<1> QED BY <1>2, <1>3, <1>4

LEMMA WriteInv ==
  ASSUME LLMInv, NEW a \in Admins, WriteRow(a)
  PROVE  LLMInv' /\ (~crossed => KeysKept)
<1> DEFINE f == form[a]
           w == Written(a)
<1>0. /\ llm \in [Providers -> ProviderShape] /\ form \in [Admins -> RequestShape] /\ f \in RequestShape
      /\ f.key <= requests /\ f.old.key <= requests /\ requests \in Nat
      /\ admin[a] = "write" /\ UNCHANGED <<requests, crossed>>
      /\ ~crossed => RequestInv(a)
      /\ \A p \in Providers : llm[p].key <= requests
      /\ admin \in [Admins -> {"idle", "match", "clear", "write"}]
      /\ f.op \in {"create", "update", "default"} /\ f.row \in Providers
      /\ llm[f.row] \in ProviderShape
  BY DEF LLMInv, LLMShape, WriteRow
<1>1. /\ llm' = [p \in Providers |-> IF p = f.row THEN w
                                     ELSE IF p \in f.held THEN [llm[p] EXCEPT !.default = FALSE] ELSE llm[p]]
      /\ form' = [form EXCEPT ![a] = NoForm] /\ admin' = [admin EXCEPT ![a] = "idle"]
  BY DEF WriteRow
<1>2. /\ w \in ProviderShape /\ w.key <= requests
      /\ ~crossed => /\ w.key >= llm[f.row].key
                     /\ w.default => f.held = Defaults \ {f.row} \/ Defaults \subseteq {f.row} \/ f.row \in Defaults
  <2>1. CASE f.op = "create"
    <3>1. w = [live |-> TRUE, default |-> f.default, enabled |-> TRUE, key |-> f.key]
      BY <2>1 DEF Written
    <3> QED BY <1>0, <2>1, <3>1 DEF RequestShape, ProviderShape, RequestInv
  <2>2. CASE f.op = "update"
    <3> DEFINE k == IF f.key = 0 THEN f.old.key ELSE f.key
    <3>1. w = [live |-> TRUE, default |-> f.default, enabled |-> f.enabled \/ ~llm[f.row].live, key |-> k]
      BY <2>2 DEF Written
    <3>2. k \in Nat /\ k <= requests /\ (~crossed => k >= llm[f.row].key)
      BY <1>0, <2>2 DEF RequestShape, ProviderShape, RequestInv
    <3>3. ~crossed /\ f.default => f.held = Defaults \ {f.row} \/ f.row \in Defaults
      BY <1>0, <2>2 DEF RequestInv, Defaults
    <3> HIDE DEF k
    <3> QED BY <1>0, <3>1, <3>2, <3>3 DEF RequestShape, ProviderShape
  <2>3. CASE f.op = "default"
    <3>1. w = llm[f.row] \/ w = [llm[f.row] EXCEPT !.default = TRUE, !.enabled = TRUE]
      BY <2>3 DEF Written
    <3>2. ~crossed => f.held = Defaults \ {f.row}
      BY <1>0, <2>3 DEF RequestInv
    <3>3. w \in ProviderShape /\ w.key = llm[f.row].key /\ llm[f.row].key \in Nat
      BY <1>0, <3>1 DEF ProviderShape
    <3> HIDE DEF w
    <3> QED BY <1>0, <3>2, <3>3
  <2> QED BY <1>0, <2>1, <2>2, <2>3
<1> HIDE DEF w
<1>3. /\ llm' \in [Providers -> ProviderShape] /\ llm'[f.row] = w
      /\ \A p \in Providers \ {f.row} : /\ llm'[p].key = llm[p].key /\ llm'[p].live = llm[p].live
                                        /\ llm'[p].default => llm[p].default /\ p \notin f.held
  <2>1. \A p \in Providers : llm[p] \in ProviderShape /\ [llm[p] EXCEPT !.default = FALSE] \in ProviderShape
    BY <1>0 DEF ProviderShape
  <2>2. llm' \in [Providers -> ProviderShape]
    BY <1>1, <1>2, <2>1
  <2>3. llm'[f.row] = w
    BY <1>0, <1>1
  <2>4. \A p \in Providers \ {f.row} : /\ llm'[p].key = llm[p].key /\ llm'[p].live = llm[p].live
                                       /\ llm'[p].default => llm[p].default /\ p \notin f.held
    BY <1>1, <2>1 DEF ProviderShape
  <2> QED BY <2>2, <2>3, <2>4
<1>4. /\ form' \in [Admins -> RequestShape] /\ form'[a] = NoForm /\ \A b \in Admins \ {a} : form'[b] = form[b]
      /\ admin' \in [Admins -> {"idle", "match", "clear", "write"}]
      /\ admin'[a] = "idle" /\ \A b \in Admins \ {a} : admin'[b] = admin[b]
  BY <1>0, <1>1, EmptyForms
<1>5. \A p \in Providers : llm'[p].key <= requests'
  BY <1>0, <1>2, <1>3
<1>6. LLMShape'
  <2>1. \A b \in Admins : form'[b].key <= requests' /\ form'[b].old.key <= requests'
    <3>1. NoForm.key <= requests /\ NoForm.old.key <= requests
      BY <1>0, EmptyForms
    <3> QED BY <1>0, <1>4, <3>1 DEF LLMInv, LLMShape
  <2> QED BY <1>0, <1>3, <1>4, <1>5, <2>1 DEF LLMInv, LLMShape
<1>7. ASSUME ~crossed PROVE AtMostOneDefault' /\ KeysKept
  <2>1. KeysKept
    <3>1. \A p \in Providers : llm[p].key \in Nat
      BY <1>0 DEF ProviderShape
    <3> QED BY <1>2, <1>3, <1>7, <3>1 DEF KeysKept
  <2>2. AtMostOneDefault
    BY <1>7 DEF LLMInv
  <2>3. Defaults' \subseteq (Defaults \ f.held) \cup (IF w.default THEN {f.row} ELSE {})
    BY <1>3 DEF Defaults
  <2>4. AtMostOneDefault'
    BY <1>2, <1>7, <2>2, <2>3 DEF AtMostOneDefault
  <2> QED BY <2>1, <2>4
<1>8. ~crossed => \A b \in Admins : admin'[b] = "idle"
  BY <1>0, <1>4 DEF LLMInv
<1> QED BY <1>0, <1>6, <1>7, <1>8 DEF LLMInv

LEMMA LLMStep == LLMInv /\ [LLMNext]_llmVars => LLMInv' /\ (crossed' \/ KeysKept)
<1> SUFFICES ASSUME LLMInv, [LLMNext]_llmVars PROVE LLMInv' /\ (crossed' \/ KeysKept)
  OBVIOUS
<1>1. CASE UNCHANGED llmVars
  <2>1. KeysKept
    BY <1>1 DEF llmVars, KeysKept, LLMInv, LLMShape, ProviderShape
  <2> QED BY <1>1, <2>1 DEF llmVars, LLMInv, LLMShape, AtMostOneDefault, RequestInv, Defaults
<1>2. ASSUME NEW a \in Admins, WriteRow(a) PROVE LLMInv' /\ (crossed' \/ KeysKept)
  BY <1>2, WriteInv DEF WriteRow
<1> QED BY <1>1, <1>2, RequestsInv, DeleteInv, TransactionInv DEF LLMNext

(* Nothing but the handlers of providers touches their table. *)
LEMMA OnlyEditors == [TasksNext]_aiVars => [LLMNext]_llmVars
<1> SUFFICES ASSUME TasksNext PROVE [LLMNext]_llmVars
  BY DEF aiVars
<1> QED BY DEF TasksNext, EnqueueTask, Pick, MarkTask, MarkIncident, StartAnalysis, Analyzed, SaveReport, FinishTask,
          FinishIncident, StatementLost, chat, createReport, ask, Answer, Converses, CancelledByStop, Watch,
          Stop, Exit, Crash, ConcurrentBroadcast, Die, Boot, EditProvider

THEOREM ProvidersInvariant == LLMInit /\ Spec => []LLMInv
<1> QED BY OnlyEditors, LLMInitInv, LLMStep, PTL DEF Spec

(* As long as the handlers of providers work one after the other, there is *)
(* at most one default and no key is lost (createLLMProvider,              *)
(* updateLLMProvider, setDefaultLLMProvider, deleteLLMProvider).           *)
THEOREM OneEditorIsSafe == LLMInit /\ Spec => EditedAlone
<1>1. LLMInv /\ ~crossed => OneDefault
  <2> SUFFICES ASSUME LLMInv, ~crossed PROVE Cardinality(Defaults) <= 1
    BY DEF OneDefault
  <2>1. AtMostOneDefault
    BY DEF LLMInv
  <2>2. Defaults = {} \/ \E p : Defaults = {p}
    BY <2>1 DEF AtMostOneDefault
  <2>3. Cardinality(Defaults) \in {0, 1}
    BY <2>2, FS_EmptySet, FS_Singleton
  <2> QED BY <2>3
<1>2. LLMInv /\ [LLMNext]_llmVars =>
        [crossed' \/ (OneDefault' /\ \A p \in Providers : llm'[p].key >= llm[p].key)]_llmVars
  <2>1. LLMInv' /\ ~crossed' => OneDefault'
    BY <1>1, PTL
  <2> QED BY <2>1, LLMStep DEF KeysKept
<1> QED BY <1>2, OnlyEditors, ProvidersInvariant, PTL DEF Spec, EditedAlone
-----------------------------------------------------------------------------
(* Types.                                                                  *)

TalkShape == [job : Jobs \cup {"none"},
              at : {"silent", "react", "session", "message", "poll", "stream", "chain", "end"},
              turn : 0 .. MaxIterations - 1,
              out : {"none", "partial", "text", "empty", "error"}]

(* A caller has a conversation while it waits for one. *)
TalkInv ==
  /\ talk \in [Callers -> TalkShape]
  /\ \A w \in Workers : talk[w].at # "silent" <=> worker[w].at = "analyzing"
  /\ \A u \in Users : talk[u].at # "silent" <=> user[u].at # "idle"

LEMMA TheCallers == Workers \subseteq Callers /\ Users \subseteq Callers /\ Workers \cap Users = {} /\ Silent \in TalkShape
BY AITasksAssumption, AgentAssumption DEF Silent, TalkShape

(* What a conversation that begins, goes on or ends looks like. *)
LEMMA Begun ==
  ASSUME talk \in [Callers -> TalkShape], NEW c \in Callers, NEW job \in Jobs, Begin(c, job)
  PROVE  /\ talk[c].at = "silent"
         /\ \E x \in TalkShape : x.at # "silent" /\ talk' = [talk EXCEPT ![c] = x]
<1>1. talk[c].at = "silent"
  BY DEF Begin
<1>2. CASE talk' = [talk EXCEPT ![c] = [Silent EXCEPT !.job = job, !.at = "end", !.out = "error"]]
  <2> DEFINE x == [Silent EXCEPT !.job = job, !.at = "end", !.out = "error"]
  <2>1. x \in TalkShape /\ x.at = "end"
    BY TheCallers DEF TalkShape
  <2>2. talk' = [talk EXCEPT ![c] = x]
    BY <1>2
  <2> QED BY <1>1, <2>1, <2>2
<1>3. ASSUME NEW kind \in {"anthropic", "qoder", "other"},
             talk' = [talk EXCEPT ![c] = [Silent EXCEPT !.job = job, !.at = Protocol(kind, job)]]
      PROVE  \E x \in TalkShape : x.at # "silent" /\ talk' = [talk EXCEPT ![c] = x]
  <2> DEFINE x == [Silent EXCEPT !.job = job, !.at = Protocol(kind, job)]
  <2>1. Protocol(kind, job) \in {"session", "react", "stream", "chain"}
    BY DEF Protocol
  <2>2. x \in TalkShape /\ x.at = Protocol(kind, job)
    BY TheCallers, <2>1 DEF TalkShape
  <2>3. talk' = [talk EXCEPT ![c] = x]
    BY <1>3
  <2> QED BY <2>1, <2>2, <2>3
<1> QED BY <1>1, <1>2, <1>3 DEF Begin

LEMMA Continued ==
  ASSUME talk \in [Callers -> TalkShape], NEW c \in Callers, Converse(c) \/ Deadline(c) \/ Cancelled(c)
  PROVE  /\ talk[c].at # "silent"
         /\ \E x \in TalkShape : x.at # "silent" /\ talk' = [talk EXCEPT ![c] = x]
<1>1. talk[c] \in TalkShape /\ talk[c].at # "silent"
  BY DEF Converse, Deadline, Cancelled, React, CreateSession, SendMessage, Poll, Token, StreamEnd, Chain, Talking
<1>2. ASSUME NEW out \in {"none", "partial", "text", "empty", "error"}, End(c, out)
      PROVE  \E x \in TalkShape : x.at # "silent" /\ talk' = [talk EXCEPT ![c] = x]
  <2> DEFINE x == [talk[c] EXCEPT !.at = "end", !.out = out]
  <2>1. x \in TalkShape /\ x.at = "end"
    BY <1>1 DEF TalkShape
  <2>2. talk' = [talk EXCEPT ![c] = x]
    BY <1>2 DEF End
  <2> QED BY <2>1, <2>2
<1>3. ASSUME NEW next \in {"message", "poll"}, Say(c, next)
      PROVE  \E x \in TalkShape : x.at # "silent" /\ talk' = [talk EXCEPT ![c] = x]
  <2> DEFINE x == [talk[c] EXCEPT !.at = next]
  <2>1. x \in TalkShape /\ x.at = next
    BY <1>1 DEF TalkShape
  <2>2. talk' = [talk EXCEPT ![c] = x]
    BY <1>3 DEF Say
  <2> QED BY <2>1, <2>2
<1>4. ASSUME talk' = [talk EXCEPT ![c].turn = @ + 1], talk[c].turn + 1 < MaxIterations
      PROVE  \E x \in TalkShape : x.at # "silent" /\ talk' = [talk EXCEPT ![c] = x]
  <2> DEFINE x == [talk[c] EXCEPT !.turn = @ + 1]
  <2>0. talk[c].turn + 1 \in 0 .. MaxIterations - 1
    BY <1>1, <1>4, AgentAssumption DEF TalkShape
  <2>1. x \in TalkShape /\ x.at = talk[c].at
    BY <1>1, <2>0 DEF TalkShape
  <2>2. talk' = [talk EXCEPT ![c] = x]
    BY <1>4
  <2> QED BY <1>1, <2>1, <2>2
<1>5. CASE Token(c)
  <2> DEFINE x == [talk[c] EXCEPT !.out = "partial"]
  <2>1. x \in TalkShape /\ x.at = talk[c].at
    BY <1>1 DEF TalkShape
  <2>2. talk' = [talk EXCEPT ![c] = x]
    BY <1>5 DEF Token
  <2> QED BY <1>1, <2>1, <2>2
<1>6. CASE React(c)
  <2>1. CASE CallFails(c)
    BY <1>1, <1>2, <2>1 DEF CallFails
  <2>2. ASSUME NEW reply \in Replies,
               IF reply = "action" /\ talk[c].turn + 1 < MaxIterations
               THEN talk' = [talk EXCEPT ![c].turn = @ + 1]
               ELSE End(c, IF reply = "final" THEN "text" ELSE "error")
        PROVE  \E x \in TalkShape : x.at # "silent" /\ talk' = [talk EXCEPT ![c] = x]
    BY <1>2, <1>4, <2>2
  <2> QED BY <1>1, <1>6, <2>1, <2>2 DEF React
<1>7. CASE CreateSession(c) \/ SendMessage(c)
  BY <1>1, <1>2, <1>3, <1>7 DEF CreateSession, SendMessage, Request
<1>8. CASE Poll(c) \/ StreamEnd(c) \/ Deadline(c)
  BY <1>1, <1>2, <1>8 DEF Poll, StreamEnd, Deadline
<1>9. CASE Chain(c) \/ Cancelled(c)
  <2>1. \E out \in {"text", "empty", "error"} : End(c, out)
    BY <1>9 DEF Chain, Cancelled
  <2> QED BY <1>1, <1>2, <2>1
<1> QED BY <1>5, <1>6, <1>7, <1>8, <1>9 DEF Converse

(* One caller speaks, begins or falls silent, and no other. *)
LEMMA TalkMoves ==
  ASSUME TalkInv, NEW c \in Callers, NEW x \in TalkShape, talk' = [talk EXCEPT ![c] = x],
         \A w \in Workers \ {c} : worker'[w].at = "analyzing" <=> worker[w].at = "analyzing",
         \A u \in Users \ {c} : user'[u].at # "idle" <=> user[u].at # "idle",
         c \in Workers => (x.at # "silent" <=> worker'[c].at = "analyzing"),
         c \in Users => (x.at # "silent" <=> user'[c].at # "idle")
  PROVE  TalkInv'
<1>1. talk \in [Callers -> TalkShape]
  BY DEF TalkInv
<1>2. talk' \in [Callers -> TalkShape] /\ talk'[c] = x /\ \A d \in Callers \ {c} : talk'[d] = talk[d]
  BY <1>1
<1>3. ASSUME NEW w \in Workers PROVE talk'[w].at # "silent" <=> worker'[w].at = "analyzing"
  BY <1>2, TheCallers DEF TalkInv
<1>4. ASSUME NEW u \in Users PROVE talk'[u].at # "silent" <=> user'[u].at # "idle"
  BY <1>2, TheCallers DEF TalkInv
<1> QED BY <1>2, <1>3, <1>4 DEF TalkInv

(* Nobody begins or ends a conversation. *)
LEMMA TalkRests ==
  ASSUME TalkInv, UNCHANGED talk,
         \A w \in Workers : worker'[w].at = "analyzing" <=> worker[w].at = "analyzing",
         \A u \in Users : user'[u].at # "idle" <=> user[u].at # "idle"
  PROVE  TalkInv'
BY DEF TalkInv

LEMMA WorkerTalks ==
  ASSUME TasksInv, TalkInv, NEW w \in Workers, WorkerStep(w) \/ StatementLost(w)
  PROVE  TalkInv'
<1>0. /\ worker \in [Workers -> [at : Steps, task : 0 .. MaxTasks]] /\ talk \in [Callers -> TalkShape]
      /\ w \in Callers /\ w \notin Users
  BY TheCallers DEF TasksInv, TasksShape, TalkInv
<1>1. user' = user
  BY DEF WorkerStep, Pick, MarkTask, MarkIncident, StartAnalysis, Analyzed, SaveReport, FinishTask, FinishIncident,
         StatementLost
<1>2. ASSUME NEW y, worker' = [worker EXCEPT ![w] = y], y.at # "analyzing", worker[w].at # "analyzing",
             UNCHANGED talk
      PROVE  TalkInv'
  <2>1. \A v \in Workers : worker'[v].at = "analyzing" <=> worker[v].at = "analyzing"
    BY <1>0, <1>2
  <2> QED BY <1>1, <1>2, <2>1, TalkRests
<1>3. ASSUME NEW at \in Steps, Step(w, at), at # "analyzing", worker[w].at # "analyzing", UNCHANGED talk
      PROVE  TalkInv'
  <2>1. [worker[w] EXCEPT !.at = at].at = at
    BY <1>0
  <2>2. worker' = [worker EXCEPT ![w] = [worker[w] EXCEPT !.at = at]]
    BY <1>3 DEF Step
  <2> QED BY <1>2, <1>3, <2>1, <2>2
<1>4. CASE Pick(w)
  <2>1. PICK t \in Pending : worker' = [worker EXCEPT ![w] = [at |-> "picked", task |-> t]]
    BY <1>4 DEF Pick
  <2> QED BY <1>2, <1>4, <2>1 DEF Pick
<1>5. CASE MarkTask(w) \/ MarkIncident(w) \/ SaveReport(w)
  BY <1>3, <1>5 DEF MarkTask, MarkIncident, SaveReport, Steps
<1>6. CASE FinishTask(w)
  BY <1>3, <1>6 DEF FinishTask, Steps
<1>7. CASE FinishIncident(w)
  <2>1. Rest.at # "analyzing"
    BY DEF Rest
  <2>2. worker[w].at # "analyzing" /\ worker' = [worker EXCEPT ![w] = Rest] /\ UNCHANGED talk
    BY <1>7 DEF FinishIncident
  <2> QED BY <1>2, <2>1, <2>2
<1>8. CASE StartAnalysis(w)
  <2>1. PICK x \in TalkShape : x.at # "silent" /\ talk' = [talk EXCEPT ![w] = x]
    BY <1>0, <1>8, Begun DEF StartAnalysis, Analyze, Jobs
  <2>2. worker'[w].at = "analyzing" /\ \A v \in Workers \ {w} : worker'[v] = worker[v]
    BY <1>0, <1>8 DEF StartAnalysis, Step
  <2> QED BY <1>0, <1>1, <2>1, <2>2, TalkMoves
<1>9. CASE Analyzed(w)
  <2>1. Silent \in TalkShape /\ Silent.at = "silent"
    BY TheCallers DEF Silent
  <2>2. talk' = [talk EXCEPT ![w] = Silent]
    BY <1>9 DEF Analyzed
  <2>3. worker'[w].at \in {"failed", "report"} /\ \A v \in Workers \ {w} : worker'[v] = worker[v]
    BY <1>0, <1>9 DEF Analyzed, Step
  <2> QED BY <1>0, <1>1, <2>1, <2>2, <2>3, TalkMoves
<1>10. CASE StatementLost(w)
  <2> DEFINE y == IF After(worker[w].at) = "idle" THEN Rest ELSE [worker[w] EXCEPT !.at = After(worker[w].at)]
  <2>1. After(worker[w].at) \in {"marked", "ready", "done", "tell failed", "tell done", "idle"}
    BY <1>10 DEF StatementLost, After
  <2>2. y.at # "analyzing" /\ worker[w].at # "analyzing"
    BY <1>0, <1>10, <2>1 DEF StatementLost, Rest
  <2>3. worker' = [worker EXCEPT ![w] = y] /\ UNCHANGED talk
    BY <1>10 DEF StatementLost
  <2> HIDE DEF y
  <2> QED BY <1>2, <2>2, <2>3
<1> QED BY <1>4, <1>5, <1>6, <1>7, <1>8, <1>9, <1>10 DEF WorkerStep
LEMMA UserTalks ==
  ASSUME TasksInv, TalkInv, NEW u \in Users,
         (\E i \in Incidents : chat(u, i) \/ createReport(u, i) \/ ask(u, i)) \/ Answer(u)
  PROVE  TalkInv'
<1>0. /\ user \in [Users -> [at : {"idle", "chat", "period", "ask"}, about : Incidents]]
      /\ talk \in [Callers -> TalkShape] /\ u \in Callers /\ u \notin Workers
  BY TheCallers DEF TasksInv, TasksShape, TalkInv
<1>1. worker' = worker
  BY DEF chat, createReport, ask, Answer
<1>2. CASE \E i \in Incidents : chat(u, i) \/ createReport(u, i) \/ ask(u, i)
  <2>1. PICK i \in Incidents, at \in {"chat", "period", "ask"}, job \in Jobs :
          user' = [user EXCEPT ![u] = [at |-> at, about |-> i]] /\ Begin(u, job)
    BY <1>2 DEF chat, createReport, ask, Serve, Chat, AnalyzePeriod, AnalyzeK8s, GenerateObservabilityQuery,
                SummarizeObservabilityResult, Jobs
  <2>2. PICK x \in TalkShape : x.at # "silent" /\ talk' = [talk EXCEPT ![u] = x]
    BY <1>0, <2>1, Begun
  <2>3. user'[u].at # "idle" /\ \A v \in Users \ {u} : user'[v] = user[v]
    BY <1>0, <2>1
  <2> QED BY <1>0, <1>1, <2>2, <2>3, TalkMoves
<1>3. CASE Answer(u)
  <2>1. Silent \in TalkShape /\ Silent.at = "silent"
    BY TheCallers DEF Silent
  <2>2. talk' = [talk EXCEPT ![u] = Silent]
    BY <1>3 DEF Answer
  <2>3. user'[u].at = "idle" /\ \A v \in Users \ {u} : user'[v] = user[v]
    BY <1>0, <1>3 DEF Answer
  <2> QED BY <1>0, <1>1, <2>1, <2>2, <2>3, TalkMoves
<1> QED BY <1>2, <1>3

LEMMA DieTalks ==
  ASSUME TasksInv, TalkInv, NEW r \in Replicas, Die(r)
  PROVE  TalkInv'
<1>0. /\ worker \in [Workers -> [at : Steps, task : 0 .. MaxTasks]]
      /\ user \in [Users -> [at : {"idle", "chat", "period", "ask"}, about : Incidents]]
      /\ talk \in [Callers -> TalkShape]
  BY DEF TasksInv, TasksShape, TalkInv
<1>1. /\ talk' = [c \in Callers |-> IF c \in At(r) THEN Silent ELSE talk[c]]
      /\ worker' = [w \in Workers |-> IF w \in At(r) THEN Rest ELSE worker[w]]
      /\ user' = [u \in Users |-> IF u \in At(r) THEN [user[u] EXCEPT !.at = "idle"] ELSE user[u]]
  BY DEF Die
<1>2. Silent.at = "silent" /\ Rest.at = "idle"
  BY DEF Silent, Rest
<1>3. talk' \in [Callers -> TalkShape]
  BY <1>0, <1>1, TheCallers
<1>4. ASSUME NEW w \in Workers PROVE talk'[w].at # "silent" <=> worker'[w].at = "analyzing"
  <2>1. w \in Callers /\ (talk[w].at # "silent" <=> worker[w].at = "analyzing")
    BY TheCallers DEF TalkInv
  <2>2. CASE w \in At(r)
    BY <1>1, <1>2, <2>1, <2>2
  <2>3. CASE w \notin At(r)
    BY <1>1, <2>1, <2>3
  <2> QED BY <2>2, <2>3
<1>5. ASSUME NEW u \in Users PROVE talk'[u].at # "silent" <=> user'[u].at # "idle"
  <2>1. u \in Callers /\ (talk[u].at # "silent" <=> user[u].at # "idle")
    BY TheCallers DEF TalkInv
  <2>2. CASE u \in At(r)
    BY <1>0, <1>1, <1>2, <2>1, <2>2
  <2>3. CASE u \notin At(r)
    BY <1>1, <2>1, <2>3
  <2> QED BY <2>2, <2>3
<1> QED BY <1>3, <1>4, <1>5 DEF TalkInv

LEMMA ConversationTalks ==
  ASSUME TalkInv, NEW c \in Callers, Converse(c) \/ Deadline(c) \/ Cancelled(c), UNCHANGED taskVars
  PROVE  TalkInv'
<1>1. UNCHANGED <<worker, user>> /\ talk \in [Callers -> TalkShape]
  BY DEF taskVars, TalkInv
<1>2. PICK x \in TalkShape : x.at # "silent" /\ talk' = [talk EXCEPT ![c] = x]
  BY <1>1, Continued
<1>3. talk[c].at # "silent"
  BY <1>1, Continued
<1> QED BY <1>1, <1>2, <1>3, TalkMoves DEF TalkInv

LEMMA TalkStep == TasksInv /\ TalkInv /\ [TasksNext]_aiVars => TalkInv'
<1> SUFFICES ASSUME TasksInv, TalkInv, [TasksNext]_aiVars PROVE TalkInv'
  OBVIOUS
<1>1. ASSUME UNCHANGED <<talk, worker, user>> PROVE TalkInv'
  BY <1>1, TalkRests
<1>2. ASSUME NEW w \in Workers,
             \/ Pick(w) \/ MarkTask(w) \/ MarkIncident(w) \/ StartAnalysis(w) \/ Analyzed(w)
             \/ SaveReport(w) \/ FinishTask(w) \/ FinishIncident(w) \/ StatementLost(w)
      PROVE  TalkInv'
  BY <1>2, WorkerTalks DEF WorkerStep
<1>3. ASSUME NEW r \in Replicas, \/ \E i \in Incidents : Watch(r, i)
                                 \/ Stop(r) \/ Exit(r) \/ Crash(r) \/ ConcurrentBroadcast(r) \/ Boot(r)
      PROVE  TalkInv'
  <2>1. CASE Exit(r) \/ Crash(r) \/ ConcurrentBroadcast(r)
    BY <2>1, DieTalks DEF Exit, Crash, ConcurrentBroadcast
  <2>2. CASE Stop(r) \/ Boot(r) \/ \E i \in Incidents : Watch(r, i)
    BY <1>1, <2>2 DEF Stop, Boot, Watch
  <2> QED BY <1>3, <2>1, <2>2
<1>4. ASSUME NEW c \in Callers, Converses(c) \/ CancelledByStop(c) PROVE TalkInv'
  BY <1>4, ConversationTalks DEF Converses, CancelledByStop
<1>5. CASE EditProvider \/ UNCHANGED aiVars \/ \E i \in Incidents : EnqueueTask(i)
  BY <1>1, <1>5 DEF EditProvider, aiVars, taskVars, EnqueueTask
<1> QED BY <1>2, <1>3, <1>4, <1>5, UserTalks DEF TasksNext

(* No more requests than there may be; a transaction holds no row before   *)
(* it has cleared those it matched, and then it holds some of these.       *)
BoundInv ==
  /\ requests <= MaxRequests
  /\ \A a \in Admins : /\ form[a].held \subseteq form[a].match
                       /\ admin[a] # "write" => form[a].held = {}

LEMMA BoundStep == LLMInv /\ BoundInv /\ [LLMNext]_llmVars => BoundInv'
<1> SUFFICES ASSUME LLMInv, BoundInv, [LLMNext]_llmVars PROVE BoundInv'
  OBVIOUS
<1>0. /\ form \in [Admins -> RequestShape] /\ requests \in Nat /\ MaxRequests \in Nat
      /\ admin \in [Admins -> {"idle", "match", "clear", "write"}]
  BY AdminsAssumption DEF LLMInv, LLMShape
<1>1. ASSUME NEW a \in Admins, NEW f, NEW at, form' = [form EXCEPT ![a] = f], admin' = [admin EXCEPT ![a] = at],
             f.held \subseteq f.match, at # "write" => f.held = {}, requests' <= MaxRequests
      PROVE  BoundInv'
  <2>1. /\ form'[a] = f /\ admin'[a] = at
        /\ \A b \in Admins \ {a} : form'[b] = form[b] /\ admin'[b] = admin[b]
    BY <1>0, <1>1
  <2> QED BY <1>1, <2>1 DEF BoundInv
<1>2. NoForm.held = {}
  BY DEF NoForm
<1>3. CASE UNCHANGED llmVars
  BY <1>3 DEF llmVars, BoundInv
<1>4. ASSUME NEW a \in Admins, createLLMProvider(a) \/ updateLLMProvider(a) \/ setDefaultLLMProvider(a)
      PROVE  BoundInv'
  <2>1. PICK f, next : Submit(a, f, next) /\ f.held = {}
    <3>1. CASE createLLMProvider(a)
      <4>1. PICK p \in Providers, default \in BOOLEAN, enabled \in BOOLEAN :
              Submit(a, [NoForm EXCEPT !.op = "create", !.row = p, !.default = default,
                                       !.enabled = enabled, !.key = requests + 1],
                     IF default THEN "match" ELSE "write")
        BY <3>1 DEF createLLMProvider
      <4>2. [NoForm EXCEPT !.op = "create", !.row = p, !.default = default,
                           !.enabled = enabled, !.key = requests + 1].held = {}
        BY DEF NoForm
      <4> QED BY <4>1, <4>2
    <3>2. CASE updateLLMProvider(a)
      <4>1. PICK p \in Providers, default \in BOOLEAN, enabled \in BOOLEAN, key \in {0, requests + 1} :
              Submit(a, [NoForm EXCEPT !.op = "update", !.row = p, !.old = llm[p],
                                       !.default = default, !.enabled = enabled, !.key = key],
                     IF default /\ ~llm[p].default THEN "match" ELSE "write")
        BY <3>2 DEF updateLLMProvider
      <4>2. [NoForm EXCEPT !.op = "update", !.row = p, !.old = llm[p],
                           !.default = default, !.enabled = enabled, !.key = key].held = {}
        BY DEF NoForm
      <4> QED BY <4>1, <4>2
    <3>3. CASE setDefaultLLMProvider(a)
      <4>1. PICK p \in Providers : Submit(a, [NoForm EXCEPT !.op = "default", !.row = p, !.old = llm[p]], "match")
        BY <3>3 DEF setDefaultLLMProvider
      <4>2. [NoForm EXCEPT !.op = "default", !.row = p, !.old = llm[p]].held = {}
        BY DEF NoForm
      <4> QED BY <4>1, <4>2
    <3> QED BY <1>4, <3>1, <3>2, <3>3
  <2>2. /\ form' = [form EXCEPT ![a] = f] /\ admin' = [admin EXCEPT ![a] = next]
        /\ requests < MaxRequests /\ requests' = requests + 1
    BY <2>1 DEF Submit
  <2>3. requests' <= MaxRequests
    BY <1>0, <2>2
  <2> QED BY <1>1, <2>1, <2>2, <2>3
<1>5. ASSUME NEW a \in Admins, deleteLLMProvider(a) PROVE BoundInv'
  <2>1. form' = form /\ admin' = admin /\ requests < MaxRequests /\ requests' = requests + 1
    BY <1>5 DEF deleteLLMProvider
  <2> QED BY <1>0, <2>1 DEF BoundInv
<1>6. ASSUME NEW a \in Admins, WriteRow(a) \/ RollBack(a) PROVE BoundInv'
  <2>1. form' = [form EXCEPT ![a] = NoForm] /\ admin' = [admin EXCEPT ![a] = "idle"] /\ requests' = requests
    BY <1>6 DEF WriteRow, RollBack
  <2> QED BY <1>1, <1>2, <2>1 DEF BoundInv
<1>7. ASSUME NEW a \in Admins, ClearDefaults(a) PROVE BoundInv'
  <2> DEFINE f == [form[a] EXCEPT !.held = form[a].match \cap Defaults]
  <2>1. form' = [form EXCEPT ![a] = f] /\ admin' = [admin EXCEPT ![a] = "write"] /\ requests' = requests
    BY <1>7 DEF ClearDefaults
  <2>2. f.held \subseteq f.match
    BY <1>0 DEF RequestShape
  <2> HIDE DEF f
  <2> QED BY <1>1, <2>1, <2>2 DEF BoundInv
<1>8. ASSUME NEW a \in Admins, MatchDefaults(a) PROVE BoundInv'
  <2> DEFINE f == [form[a] EXCEPT !.match = Defaults \ {form[a].row}]
  <2>1. /\ form' = [form EXCEPT ![a] = f] /\ admin' = [admin EXCEPT ![a] = "clear"] /\ requests' = requests
        /\ admin[a] = "match"
    BY <1>8 DEF MatchDefaults
  <2>2. f.held = {}
    BY <1>0, <2>1 DEF RequestShape, BoundInv
  <2> HIDE DEF f
  <2> QED BY <1>1, <2>1, <2>2 DEF BoundInv
<1> QED BY <1>3, <1>4, <1>5, <1>6, <1>7, <1>8 DEF LLMNext

(* Every field of tasks, incidents, conversations and providers holds what *)
(* the schema and the code allow.  A worker has a task that exists as long *)
(* as it is not idle, a caller is in a conversation exactly while it waits *)
(* for one, and a transaction locks nothing but rows it matched            *)
(* (orchestrator.go, agent.go, llm_providers.go).                          *)
THEOREM TasksTypes == LLMInit /\ Spec => []TypeOK
<1>1. Init => TalkInv
  <2> SUFFICES ASSUME Init PROVE TalkInv
    OBVIOUS
  <2>1. talk \in [Callers -> TalkShape] /\ \A c \in Callers : talk[c].at = "silent"
    BY TheCallers DEF Init, TalkInit, Silent
  <2>2. (\A w \in Workers : worker[w].at = "idle") /\ (\A u \in Users : user[u].at = "idle")
    BY DEF Init, TasksInit, Rest
  <2> QED BY <2>1, <2>2, TheCallers DEF TalkInv
<1>2. LLMInit => BoundInv
  BY AdminsAssumption DEF LLMInit, BoundInv, NoForm
<1>3. LLMInv /\ BoundInv => LLMTypeOK
  <2> SUFFICES ASSUME LLMInv, BoundInv PROVE LLMTypeOK
    OBVIOUS
  <2>1. LLMShape /\ requests \in 0 .. MaxRequests
    BY AdminsAssumption DEF LLMInv, LLMShape, BoundInv
  <2>2. \A p \in Providers : llm[p] \in ProviderShape /\ llm[p].key \in 0 .. MaxRequests
    BY <2>1, AdminsAssumption DEF LLMShape, ProviderShape, BoundInv
  <2>3. \A p \in Providers : llm[p] \in [live : BOOLEAN, default : BOOLEAN, enabled : BOOLEAN, key : 0 .. MaxRequests]
    BY <2>2 DEF ProviderShape
  <2> QED BY <2>1, <2>3 DEF LLMShape, LLMTypeOK, BoundInv
<1>4. TasksInv /\ TalkInv /\ LLMTypeOK => TypeOK
  BY DEF TasksInv, TasksShape, TaskShape, WorkersInv, WorkerInv, TalkInv, TalkShape, TalkTypeOK, TypeOK
<1>5. Spec => []TalkInv
  BY <1>1, TasksInvariant, TalkStep, PTL DEF Spec
<1>6. LLMInit /\ Spec => []BoundInv
  BY <1>2, ProvidersInvariant, OnlyEditors, BoundStep, PTL DEF Spec
<1> QED BY <1>3, <1>4, <1>5, <1>6, TasksInvariant, ProvidersInvariant, PTL
=============================================================================
