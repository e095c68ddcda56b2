------------------------------- MODULE AIAgent -------------------------------
(***************************************************************************)
(* The agent that talks to the language model: internal/ai/agent.go and    *)
(* qoder.go.  A caller (a worker of the analysis pool, a request handler)  *)
(* has at most one conversation: it loads the default provider of          *)
(* LLMProviders, and the provider's kind decides the protocol: a ReAct     *)
(* loop or one stream over the Anthropic API, a session that is polled     *)
(* over the Qoder API, one call of a library for every other kind.         *)
(* What is said is abstracted to whether the caller gets a text, an empty  *)
(* text or an error.                                                       *)
(***************************************************************************)
EXTENDS LLMProviders

CONSTANTS Callers,
          MaxIterations     \* ReAct steps of one conversation: 10 (chat: 8)

ASSUME AgentAssumption == MaxIterations \in Nat \ {0}

VARIABLE talk               \* talk[c]: the conversation of caller c

(* Analyses and chats are about an incident and may call tools; a periodic *)
(* report, an analysis of Kubernetes logs or events and a query made from  *)
(* natural language are streams; a summary of a result is a stream that is *)
(* collected.                                                              *)
Jobs == {"analyze", "chat", "stream", "summary"}
Silent == [job |-> "none", at |-> "silent", turn |-> 0, out |-> "none"]

TalkInit == talk = [c \in Callers |-> Silent]

Talking(c) == talk[c].at \notin {"silent", "end"}
Say(c, at) == talk' = [talk EXCEPT ![c].at = at]
End(c, out) == talk' = [talk EXCEPT ![c].at = "end", ![c].out = out]

(* The provider's kind selects the protocol; only the two jobs about an    *)
(* incident may call tools.                                                *)
Protocol(kind, job) ==
  CASE kind = "qoder"                                       -> "session"
    [] kind = "anthropic" /\ job \in {"analyze", "chat"}    -> "react"
    [] kind = "anthropic" /\ job \notin {"analyze", "chat"} -> "stream"
    [] kind = "other"                                       -> "chain"

(* The incident, the provider or its key cannot be read, or there is no    *)
(* usable provider; otherwise the conversation starts.                     *)
Begin(c, job) ==
  /\ talk[c].at = "silent"
  /\ \/ talk' = [talk EXCEPT ![c] = [Silent EXCEPT !.job = job, !.at = "end", !.out = "error"]]
     \/ /\ Usable # {}
        /\ \E kind \in {"anthropic", "qoder", "other"} :
             talk' = [talk EXCEPT ![c] = [Silent EXCEPT !.job = job, !.at = Protocol(kind, job)]]

Analyze(c) == Begin(c, "analyze")
Chat(c) == Begin(c, "chat")
AnalyzePeriod(c) == Begin(c, "stream")
AnalyzeK8s(c) == Begin(c, "stream")
GenerateObservabilityQuery(c) == Begin(c, "stream")
SummarizeObservabilityResult(c) == Begin(c, "summary")

(* A call of the Messages API fails on a transport error, another status   *)
(* than 200, an error event or a broken stream.                            *)
CallFails(c) == End(c, "error")

(* What the text of a round is taken for: the final answer, if there is    *)
(* one and it is not empty, before a tool call that names tool and input.  *)
Replies == {"final", "action", "neither"}

(* One round.  The error of a tool, or an unknown tool, is an observation  *)
(* like another.                                                           *)
React(c) ==
  /\ talk[c].at = "react"
  /\ \/ CallFails(c)
     \/ \E reply \in Replies :
          IF reply = "action" /\ talk[c].turn + 1 < MaxIterations
          THEN talk' = [talk EXCEPT ![c].turn = @ + 1]
          ELSE End(c, IF reply = "final" THEN "text" ELSE "error")

(* Qoder: a session, one message, and polls for the first text block.      *)
Request(c, next) == Say(c, next) \/ End(c, "error")

CreateSession(c) == talk[c].at = "session" /\ Request(c, "message")
SendMessage(c) == talk[c].at = "message" /\ Request(c, "poll")

Poll(c) ==
  talk[c].at = "poll" /\ \E out \in {"text", "empty", "error"} : End(c, out)

(* A stream hands its tokens on as they come, and may still break.         *)
Token(c) ==
  /\ talk[c].at = "stream" /\ talk[c].out = "none"
  /\ talk' = [talk EXCEPT ![c].out = "partial"]

StreamEnd(c) ==
  /\ talk[c].at = "stream"
  /\ \/ End(c, IF talk[c].out = "partial" THEN "text" ELSE "empty")
     \/ End(c, "error")

(* The library.  The error of its call is shadowed in one place: a summary *)
(* that failed is an empty one.                                            *)
Chain(c) ==
  /\ talk[c].at = "chain"
  /\ \E out \in {"text", "empty", "error"} :
       End(c, IF out = "error" /\ talk[c].job = "summary" THEN "empty" ELSE out)

(* Mutant: the polls have no deadline. *)
Deadline_NotForPolls(c) == talk[c].at \in {"react", "session", "message"} /\ End(c, "error")

(* The context ends: 5 minutes for a ReAct loop, 240 seconds for the polls *)
(* and 120 for each request to Qoder, the client of a handler goes, or the *)
(* process is told to stop.                                                *)
Deadline(c) == talk[c].at \in {"react", "session", "message", "poll"} /\ End(c, "error")
Cancelled(c) ==
  /\ Talking(c)
  /\ End(c, IF talk[c].at = "chain" /\ talk[c].job = "summary" THEN "empty" ELSE "error")

Converse(c) ==
  React(c) \/ CreateSession(c) \/ SendMessage(c) \/ Poll(c) \/ Token(c) \/ StreamEnd(c) \/ Chain(c)

TalkTypeOK ==
  talk \in [Callers -> [job : Jobs \cup {"none"},
                        at : {"silent", "react", "session", "message", "poll", "stream", "chain", "end"},
                        turn : 0 .. MaxIterations - 1,
                        out : {"none", "partial", "text", "empty", "error"}]]
=============================================================================
