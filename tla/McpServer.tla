----------------------------- MODULE McpServer -----------------------------
(***************************************************************************)
(* The STDIO server: one thread that reads a line, handles it and writes   *)
(* the answer before it reads the next.  Which lines arrive is up to the   *)
(* client.  A call of a tool takes time: the tool works on the files of    *)
(* the project.                                                            *)
(***************************************************************************)
EXTENDS Naturals, Sequences

CONSTANTS
  Tool,      \* ALLOWED_TOOL_NAMES, and names that are not among them
  Id,        \* ids of requests
  NoId       \* the message has no id, or null

ASSUME ServerAssumption == NoId \notin Id

\* The lines that are answered without calling a tool: no JSON object; a message without a
\* method; a call that only describes the server (initialize, tools/list, ping); one that
\* is refused (an unknown method, params or arguments that are not an object, no tool name).
Simple == {"noObject", "noMethod", "describe", "refused"}
Call == [kind : {"tool"}, tool : Tool, id : Id \cup {NoId}]
Line == [kind : Simple, id : Id \cup {NoId}] \cup Call

VARIABLES
  serverPc,  \* waiting for a line, about to answer, to call a tool, inside it, or stopped
  request,   \* the message being handled, or the last one
  answers,   \* the answers written, each an id and an outcome
  owed       \* history: the ids of the messages that demand an answer

serverVars == <<serverPc, request, answers, owed>>

\* The id in the answer.
IdOf(line) == IF line.kind = "noObject" THEN NoId ELSE line.id

\* A message with a method and without an id is not answered, nor acted upon.
Notification(line) == line.kind \notin {"noObject", "noMethod"} /\ line.id = NoId

---------------------------------------------------------------------------
ServerInit ==
  /\ serverPc = "waiting"
  /\ request \in [kind : {"noMethod"}, id : {NoId}]
  /\ answers = <<>> /\ owed = <<>>

Write(id, outcome) == answers' = Append(answers, [id |-> id, outcome |-> outcome])

\* A blank line is passed over in the same way.
Ignore(line) ==
  /\ serverPc = "waiting"
  /\ Notification(line)
  /\ UNCHANGED serverVars

\* A line in bytes that are no text, or with JSON that json.loads gives up otherwise than as
\* invalid (nested too deep, a number too long), ends the server: nothing catches it.
LineRaises ==
  /\ serverPc = "waiting"
  /\ owed' = Append(owed, NoId)
  /\ serverPc' = "stopped"
  /\ UNCHANGED <<request, answers>>

Accept(line) ==
  /\ serverPc = "waiting"
  /\ ~Notification(line)
  /\ request' = line
  /\ owed' = Append(owed, IdOf(line))
  /\ serverPc' = IF line.kind = "tool" THEN "tool" ELSE "simple"
  /\ UNCHANGED answers

\* Mutant of AnswerSimple: a line that is no JSON object is skipped.
AnswerSimpleSkips ==
  /\ serverPc = "simple"
  /\ IF request.kind = "noObject" THEN UNCHANGED answers
     ELSE Write(IdOf(request), IF request.kind = "describe" THEN "result" ELSE "error")
  /\ serverPc' = "waiting"
  /\ UNCHANGED <<request, owed>>

AnswerSimple ==
  /\ serverPc = "simple"
  /\ Write(IdOf(request), IF request.kind = "describe" THEN "result" ELSE "error")
  /\ serverPc' = "waiting"
  /\ UNCHANGED <<request, owed>>

EnterTool ==
  /\ serverPc = "tool"
  /\ serverPc' = "called"
  /\ UNCHANGED <<request, answers, owed>>

\* Whatever the tool raises becomes a result that says isError.
AnswerCall(outcome) ==
  /\ serverPc \in {"tool", "called"}
  /\ Write(request.id, outcome)
  /\ serverPc' = "waiting"
  /\ UNCHANGED <<request, owed>>

EndOfInput ==
  /\ serverPc = "waiting"
  /\ serverPc' = "stopped"
  /\ UNCHANGED <<request, answers, owed>>

\* Also when the client has closed the pipe that the answer goes to.
KillServer ==
  /\ serverPc' = "stopped"
  /\ UNCHANGED <<request, answers, owed>>

ServerNext ==
  \/ \E line \in Line : Ignore(line) \/ Accept(line)
  \/ LineRaises \/ AnswerSimple \/ EnterTool
  \/ \E outcome \in {"result", "toolError"} : AnswerCall(outcome)
  \/ EndOfInput \/ KillServer

ServerSpec == ServerInit /\ [][ServerNext]_serverVars

---------------------------------------------------------------------------
\* The type invariant.
Answer == [id : Id \cup {NoId}, outcome : {"result", "toolError", "error"}]

ServerTypeOK ==
  /\ serverPc \in {"waiting", "simple", "tool", "called", "stopped"}
  /\ request \in Line
  /\ answers \in Seq(Answer) /\ owed \in Seq(Id \cup {NoId})

\* Every message that demands an answer gets exactly one, with its id, in the order in
\* which the messages came, whatever a tool raises; a notification gets none.  One answer
\* is missing at most, the last: that of the message being handled, of the one in which
\* the server was killed, or of the line that ended it (serve_stdio,
\* handle_jsonrpc_line, handle_jsonrpc_message).
AnsweredInOrder ==
  /\ \/ Len(owed) = Len(answers)
     \/ (Len(owed) = Len(answers) + 1 /\ serverPc # "waiting")
  /\ \A i \in 1..Len(answers) : answers[i].id = owed[i]
=============================================================================
