------------------------------ MODULE MCAITasks ------------------------------
(* The tables of providers and of tasks are looked at in turn: the requests *)
(* to edit providers, or those of the users and the failures, come first.  *)
EXTENDS AITasks, TLC
CONSTANTS p1, r1, r2, w1, w2, u1
MCHome == w1 :> r1 @@ w2 :> r2 @@ u1 :> r1
NoBudget == [tasks |-> 0, asks |-> 0, crashes |-> 0, lost |-> 0]

Editing ==
  /\ LLMInit /\ TalkInit /\ TasksInit
  /\ budget = NoBudget

Working ==
  /\ \/ llm = [p \in Providers |-> Absent]
     \/ llm = [p \in Providers |-> IF p = p1 THEN [live |-> TRUE, default |-> TRUE, enabled |-> TRUE, key |-> 1]
                                             ELSE Absent]
  /\ form = [a \in Admins |-> NoForm] /\ admin = [a \in Admins |-> "idle"]
  /\ requests = MaxRequests /\ crossed = FALSE
  /\ TalkInit /\ TasksInit
  /\ budget \in {[tasks |-> 1, asks |-> MaxAsks, crashes |-> 0, lost |-> 0],
                 [tasks |-> 0, asks |-> MaxAsks, crashes |-> MaxCrashes, lost |-> 0],
                 [tasks |-> 1, asks |-> 0, crashes |-> MaxCrashes, lost |-> MaxLost],
                 [tasks |-> MaxTasks, asks |-> 0, crashes |-> MaxCrashes, lost |-> 0]}
  /\ IF budget.asks = 0 THEN \A r \in Replicas : watched[r] = {} ELSE \A i \in Incidents : incident[i] = "pending"

MCInit == Editing \/ Working
MCNext == TasksNext
MCSpec == MCInit /\ [][MCNext]_aiVars /\ Fairness
=============================================================================
