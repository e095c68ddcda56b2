------------------------------ MODULE PgNotify ------------------------------
(***************************************************************************)
(* LISTEN and NOTIFY of PostgreSQL as the listeners use it: ListenLoop     *)
(* (internal/realtime/pglisten.go), listen (listener.go) and listenReload  *)
(* (internal/engine/pipeline.go).  Each listener holds a connection of its *)
(* own.  A notification reaches the connections that listen when it is     *)
(* sent; nothing is kept for the others, and nobody is told of the gap.    *)
(* The waits of 5 and 30 seconds only begin the wait again.                *)
(***************************************************************************)
EXTENDS Sequences

CONSTANTS Listeners,        \* the processes
          Channels

VARIABLES link,       \* link[r][c]: whether r listens on c, or dials again
          inbox,      \* inbox[r][c]: notifications on their way to r
          missed      \* history: missed[r][c], what was sent while r did not listen

linkVars == <<link, inbox, missed>>

Ear == [Listeners -> [Channels -> {"off", "broken", "listening"}]]

LinkInit ==
  /\ link = [r \in Listeners |-> [c \in Channels |-> "off"]]
  /\ inbox = [r \in Listeners |-> [c \in Channels |-> <<>>]]
  /\ missed = [r \in Listeners |-> [c \in Channels |-> {}]]

(* pg_notify, in a statement of its own after the change is committed. *)
Notify(c, what) ==
  /\ inbox' = [r \in Listeners |-> IF link[r][c] = "listening"
                                   THEN [inbox[r] EXCEPT ![c] = Append(@, what)] ELSE inbox[r]]
  /\ missed' = [r \in Listeners |-> IF link[r][c] = "listening" THEN missed[r]
                                    ELSE [missed[r] EXCEPT ![c] = @ \cup {what}]]
  /\ UNCHANGED link

(* The statement fails, or its process ends before it: the failure is      *)
(* logged at most.                                                         *)
Unsent(c, what) ==
  /\ missed' = [r \in Listeners |-> [missed[r] EXCEPT ![c] = @ \cup what]]
  /\ UNCHANGED <<link, inbox>>

Connect(r, c) ==
  /\ link[r][c] = "broken" /\ link' = [link EXCEPT ![r][c] = "listening"]
  /\ UNCHANGED <<inbox, missed>>

Lost(r, c) == {inbox[r][c][n] : n \in DOMAIN inbox[r][c]}

(* Mutant: what the old connection held is heard on the next one. *)
Break_KeepsInbox(r, c) ==
  /\ link[r][c] = "listening" /\ link' = [link EXCEPT ![r][c] = "broken"]
  /\ UNCHANGED <<missed, inbox>>

(* The connection breaks; the listener waits and dials again. *)
Break(r, c) ==
  /\ link[r][c] = "listening" /\ link' = [link EXCEPT ![r][c] = "broken"]
  /\ missed' = [missed EXCEPT ![r][c] = @ \cup Lost(r, c)]
  /\ inbox' = [inbox EXCEPT ![r][c] = <<>>]

(* The listener is handed the next notification. *)
Take(r, c) ==
  /\ link[r][c] = "listening" /\ inbox[r][c] # <<>>
  /\ inbox' = [inbox EXCEPT ![r][c] = Tail(@)]
  /\ UNCHANGED link
Heard(r, c) == Head(inbox[r][c])

(* r starts its listeners. *)
Dial(r) ==
  /\ link' = [link EXCEPT ![r] = [c \in Channels |-> "broken"]]
  /\ UNCHANGED <<inbox, missed>>

LinkTypeOK ==
  /\ link \in Ear
  /\ \A r \in Listeners, c \in Channels : link[r][c] # "listening" => inbox[r][c] = <<>>
=============================================================================
