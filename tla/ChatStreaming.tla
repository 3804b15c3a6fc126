--------------------------- MODULE ChatStreaming ---------------------------
(***************************************************************************)
(* One chat request: the retrieval context, the call of the provider, with *)
(* or without a stream, the events in the trace, the usage record and what *)
(* the user sees.                                                          *)
(*                                                                         *)
(* The provider is external: it sends lines, or parts of a body, for as    *)
(* long as it likes, and the connection ends or breaks at any moment; a    *)
(* read that gets nothing for timeout_seconds gives up.  An adapter turns  *)
(* a line into one event at most.  Its text is abstracted to the number of *)
(* pieces it came in.                                                      *)
(***************************************************************************)
EXTENDS Naturals, Sequences, FiniteSets

CONSTANT MaxLines  \* bound: lines of a stream that mean something

ASSUME StreamingAssumption == MaxLines \in Nat

\* Whether a retrieval context is asked for, and whether the stores have something for it.
Context == {"off", "empty", "found"}

\* Who asks: `chat once`, the same with --json, an interactive session with a writer for
\* the pieces, or one without.
Face == {"once", "json", "live", "quiet"}

\* Whether the adapter can ask the provider at all: it is configured and the HTTP library
\* is there, or what it says instead.
Ready == {"yes", "unconfigured", "error"}
Options == [face : Face, stream : BOOLEAN, canStream : BOOLEAN, context : Context, ready : Ready]

\* What a line that means something holds: a piece of text, a report of usage, both, or a
\* report without counts, with or without a piece.
LineKind == {"text", "usage", "both", "blank"}
Reports == {"usage", "both", "blank"}

VARIABLES
  options,  \* how the request was made
  pc,       \* where chat_once is
  sent,     \* the lines the provider has sent
  handled,  \* how many of them the adapter has handled
  noise,    \* something that means nothing by itself waits to be read
  closed,   \* the stream: open, ended, or broken off
  chunks,   \* the pieces in the answer
  shown,    \* the pieces on_delta has shown
  printed,  \* how often the whole text was printed
  usage,    \* what is to be recorded
  status,   \* of the answer
  trace,    \* the events of the request
  recorded  \* the usage record

vars == <<options, pc, sent, handled, noise, closed, chunks, shown, printed, usage, status,
          trace, recorded>>

Estimate(pieces) == [by |-> "estimate", of |-> pieces]
Reported(line) == [by |-> "provider", of |-> line]
NoUsage == [by |-> "nobody", of |-> 0]

\* estimate_or_parse_usage of a line without counts: the tokens of the prompt, and none of
\* the answer.
PromptOnly == [by |-> "prompt", of |-> 0]

ReportOf(lines, line) == IF lines[line] = "blank" THEN PromptOnly ELSE Reported(line)

Log(events) == trace' = trace \o events
Goto(step) == pc' = step

\* stream and can_stream
Streams == options.stream /\ options.canStream
HasWriter == options.face \in {"once", "live"}
Count(lines, kinds) == Cardinality({i \in DOMAIN lines : lines[i] \in kinds})

---------------------------------------------------------------------------
Init ==
  /\ options \in Options
  /\ pc = "start"
  /\ sent = <<>> /\ handled = 0 /\ noise = FALSE /\ closed = "open"
  /\ chunks = 0 /\ shown = 0 /\ printed = 0
  /\ usage = NoUsage /\ status = "none"
  /\ trace = <<>> /\ recorded = NoUsage

Start ==
  /\ pc = "start"
  /\ Log((IF options.context = "off" THEN <<>> ELSE <<"retrievalRequested", "contextBuilt">>)
         \o <<"requestStarted">> \o IF Streams THEN <<"streamStarted">> ELSE <<>>)
  /\ Goto(IF Streams THEN "streaming" ELSE "whole")
  /\ UNCHANGED <<options, sent, handled, noise, closed, chunks, shown, printed, usage, status, recorded>>

\* client.chat, with the provider's count of tokens or an estimate
AnswerWhole ==
  /\ pc = "whole" /\ closed = "ended" /\ ~noise
  /\ status' = "ok" /\ chunks' = 1 /\ usage' \in {Reported(1), Estimate(1)}
  /\ Goto("answered")
  /\ UNCHANGED <<options, sent, handled, noise, closed, shown, printed, trace, recorded>>

\* Errors become an answer with a status and without usage: the provider cannot be asked,
\* the connection broke, or what came is an error or no JSON.  All codes but that of a
\* missing key are one here.
RefuseWhole ==
  /\ pc = "whole" /\ ~noise
  /\ \/ options.ready # "yes" /\ status' = options.ready
     \/ closed # "open" /\ status' = "error"
  /\ Goto("answered")
  /\ UNCHANGED <<options, sent, handled, noise, closed, chunks, shown, printed, usage, trace,
                 recorded>>

---------------------------------------------------------------------------
\* The provider

Connected == options.ready = "yes" /\ closed = "open"

Send(kind) ==
  /\ pc = "streaming" /\ Connected /\ Len(sent) < MaxLines
  /\ sent' = Append(sent, kind)
  /\ UNCHANGED <<options, pc, handled, noise, closed, chunks, shown, printed, usage, status,
                 trace, recorded>>

\* Something that means nothing by itself: a comment, an empty line, a role, a [DONE], a
\* line that is no JSON, a part of a body.
SendNoise ==
  /\ pc \in {"streaming", "whole"} /\ Connected
  /\ noise' = TRUE
  /\ UNCHANGED <<options, pc, sent, handled, closed, chunks, shown, printed, usage, status,
                 trace, recorded>>

\* The connection ends, which an adapter takes for the end of the message, or it breaks.
Close(how) ==
  /\ pc \in {"streaming", "whole"} /\ Connected
  /\ closed' = how
  /\ UNCHANGED <<options, pc, sent, handled, noise, chunks, shown, printed, usage, status,
                 trace, recorded>>

\* Mutant of TimeOut: only the first read has a timeout.
TimeOutFirst ==
  /\ pc \in {"streaming", "whole"} /\ Connected
  /\ sent = <<>> /\ ~noise
  /\ closed' = "broken"
  /\ UNCHANGED <<options, pc, sent, handled, noise, chunks, shown, printed, usage, status,
                 trace, recorded>>

\* A read that waits for something and gets nothing in time raises.
TimeOut ==
  /\ pc \in {"streaming", "whole"} /\ Connected
  /\ handled = Len(sent) /\ ~noise
  /\ closed' = "broken"
  /\ UNCHANGED <<options, pc, sent, handled, noise, chunks, shown, printed, usage, status,
                 trace, recorded>>

---------------------------------------------------------------------------
\* stream_chat and _complete_streaming

NextLine(kinds) ==
  /\ pc = "streaming" /\ handled < Len(sent)
  /\ sent[handled + 1] \in kinds
  /\ handled' = handled + 1

\* content_delta
TakePiece ==
  /\ NextLine({"text"})
  /\ chunks' = chunks + 1
  /\ shown' = shown + IF HasWriter THEN 1 ELSE 0
  /\ Log(<<"delta">>)
  /\ UNCHANGED <<options, pc, sent, noise, closed, printed, usage, status, recorded>>

\* usage_delta, also for a line that has a piece besides, which is dropped; a report takes
\* the place of an earlier one, also if it has no counts.
TakeUsage ==
  /\ NextLine(Reports)
  /\ usage' = ReportOf(sent, handled')
  /\ UNCHANGED <<options, pc, sent, noise, closed, chunks, shown, printed, status, trace, recorded>>

\* What means nothing is read and makes no event.
SkipLine ==
  /\ pc \in {"streaming", "whole"} /\ noise
  /\ noise' = FALSE
  /\ UNCHANGED <<options, pc, sent, handled, closed, chunks, shown, printed, usage, status,
                 trace, recorded>>

\* Every line that came was handled.
AllRead == handled = Len(sent) /\ ~noise

\* Mutant of FailStream: the answer keeps the pieces and counts as one.
FailStreamLate ==
  /\ pc = "streaming" /\ AllRead /\ closed = "broken"
  /\ status' = "ok" /\ usage' = Estimate(chunks)
  /\ Log(<<"streamFailed">>)
  /\ Goto("answered")
  /\ UNCHANGED <<options, sent, handled, noise, closed, chunks, shown, printed, recorded>>

\* error: the provider cannot be asked, or an exception ended the reading; what was
\* received counts for nothing.
FailStream ==
  /\ pc = "streaming" /\ AllRead
  /\ \/ options.ready # "yes" /\ status' = options.ready
     \/ closed = "broken" /\ status' = "error"
  /\ chunks' = 0 /\ usage' = NoUsage
  /\ Log(<<"streamFailed">>)
  /\ Goto("answered")
  /\ UNCHANGED <<options, sent, handled, noise, closed, shown, printed, recorded>>

\* message_done: the last report of usage, or an estimate.
EndStream ==
  /\ pc = "streaming" /\ AllRead /\ closed = "ended"
  /\ status' = "ok"
  /\ usage' = IF usage = NoUsage THEN Estimate(chunks) ELSE usage
  /\ Log(<<"streamCompleted">>)
  /\ Goto("answered")
  /\ UNCHANGED <<options, sent, handled, noise, closed, chunks, shown, printed, recorded>>

---------------------------------------------------------------------------
\* The rest of chat_once, and its caller

RecordUsage ==
  /\ pc = "answered" /\ status = "ok"
  /\ recorded' = usage
  /\ Goto("recorded")
  /\ UNCHANGED <<options, sent, handled, noise, closed, chunks, shown, printed, usage, status, trace>>

LogCompleted ==
  /\ pc = "recorded"
  /\ Log(<<"requestCompleted", "usageUpdated">>
         \o IF options.context = "found" THEN <<"contextSent">> ELSE <<>>)
  /\ Goto("returned")
  /\ UNCHANGED <<options, sent, handled, noise, closed, chunks, shown, printed, usage, status, recorded>>

LogFailed ==
  /\ pc = "answered" /\ status # "ok"
  /\ Log(<<"requestFailed">>)
  /\ Goto("returned")
  /\ UNCHANGED <<options, sent, handled, noise, closed, chunks, shown, printed, usage, status, recorded>>

\* Mutant of Display: an interactive session prints what it has streamed.
DisplayTwice ==
  /\ pc = "returned"
  /\ printed' = printed + IF options.face = "once" /\ Streams THEN 0 ELSE 1
  /\ Goto("done")
  /\ UNCHANGED <<options, sent, handled, noise, closed, chunks, shown, usage, status, trace, recorded>>

\* The command prints the text of an answer that was not streamed; --json prints them all.
CommandPrints == options.face = "json" \/ (options.face = "once" /\ ~Streams)

\* An interactive turn prints all but what it has streamed, and the reason of a failure.
TurnPrints ==
  options.face = "quiet" \/ (options.face = "live" /\ ~(Streams /\ status = "ok"))

Display ==
  /\ pc = "returned"
  /\ printed' = printed + IF CommandPrints \/ TurnPrints THEN 1 ELSE 0
  /\ Goto("done")
  /\ UNCHANGED <<options, sent, handled, noise, closed, chunks, shown, usage, status, trace, recorded>>

\* The writer, the console, the trace file or the usage database raises.
Raise ==
  /\ pc \notin {"done", "raised"}
  /\ Goto("raised")
  /\ UNCHANGED <<options, sent, handled, noise, closed, chunks, shown, printed, usage, status, trace,
                 recorded>>

Sends == SendNoise \/ \E kind \in LineKind : Send(kind)
Provider == Sends \/ \E how \in {"ended", "broken"} : Close(how)
Adapter == TakePiece \/ TakeUsage \/ SkipLine \/ FailStream \/ EndStream
Chat ==
  \/ Start \/ AnswerWhole \/ RefuseWhole \/ Adapter
  \/ RecordUsage \/ LogCompleted \/ LogFailed \/ Display

Next == Provider \/ TimeOut \/ Chat \/ Raise

\* The command goes on as long as it can, and every read has a timeout.  Nothing is assumed
\* of the provider: it may hold its answer back, or go on sending for ever.
Spec == Init /\ [][Next]_vars /\ WF_vars(Chat) /\ WF_vars(TimeOut)

---------------------------------------------------------------------------
\* The type invariant.
Step == {"start", "whole", "streaming", "answered", "recorded", "returned", "done", "raised"}
Usage == [by : {"nobody", "provider", "prompt", "estimate"}, of : Nat]
Event == {"retrievalRequested", "contextBuilt", "requestStarted", "streamStarted", "delta",
          "streamCompleted", "streamFailed", "requestCompleted", "usageUpdated", "contextSent",
          "requestFailed"}

TypeOK ==
  /\ options \in Options /\ pc \in Step
  /\ sent \in Seq(LineKind) /\ handled \in 0..Len(sent) /\ noise \in BOOLEAN
  /\ closed \in {"open", "ended", "broken"}
  /\ chunks \in Nat /\ shown \in Nat /\ printed \in Nat
  /\ usage \in Usage /\ recorded \in Usage
  /\ status \in {"none", "ok", "unconfigured", "error"}
  /\ trace \in Seq(Event)

Times(event) == Count(trace, {event})

\* What a whole stream costs: what its last report says, if it has one, and otherwise an
\* estimate from all pieces.
StreamUsage ==
  LET reports == {i \in 1..Len(sent) : sent[i] \in Reports}
  IN IF reports = {} THEN Estimate(Count(sent, {"text"}))
     ELSE ReportOf(sent, CHOOSE i \in reports : \A j \in reports : j <= i)

\* A stream that was started ends in the trace as completed or failed, once, with no piece
\* after it, and so does the request.  Usage is recorded for a request that succeeded and
\* for no other, before the trace says so.  It is the last report of the stream, which is
\* an estimate of the prompt alone if it came without counts, whatever was reported before
\* it, and an estimate from all pieces if there was none; a stream that breaks after pieces
\* were shown costs nothing (_complete_streaming, stream_event_from_line, chat_once).
OneOutcome ==
  /\ pc \in {"returned", "done"} =>
       /\ Times("streamCompleted") + Times("streamFailed") = Times("streamStarted")
       /\ Times("requestCompleted") + Times("requestFailed") = 1
       /\ Times("requestFailed") = 1 <=> recorded = NoUsage
  /\ Times("streamFailed") = 1 => recorded = NoUsage
  /\ \A i, j \in 1..Len(trace) :
       trace[i] = "delta" /\ trace[j] \in {"streamCompleted", "streamFailed"} => i < j
  /\ Times("requestCompleted") = 1 /\ Streams => recorded = StreamUsage

\* The user sees the text of a request that succeeded once: in pieces as they came, or as a
\* whole; and it is all that the provider sent, but for pieces in lines that also report
\* usage (stream_event_from_line, chat_once_command, _handle_message).
ShownOnce ==
  pc = "done" /\ status = "ok" =>
    /\ IF Streams /\ HasWriter THEN shown = chunks /\ printed = 0 ELSE shown = 0 /\ printed = 1
    /\ Streams => chunks = Count(sent, {"text"})

\* The request ends once the provider has fallen silent, in the middle of a line or of an
\* answer as well: the outcome gets into the trace and to the user, unless an exception
\* ends the command.  A provider that keeps sending lines keeps it waiting, since the
\* timeout is one of a single read (stream_chat, chat, timeout_seconds).
ChatEnds == <>[][~Sends]_vars => (pc = "start" ~> pc \in {"done", "raised"})
=============================================================================
