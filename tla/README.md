# A TLA+ model of AgentOS Personal

AgentOS Personal is a local agent workspace: a Python command line
(`src/src/agentos`), an interactive chat, an MCP server and a small Go command
that forwards to them.  Everything it knows lives in files below the project
root, and every process (several terminals, the MCP server that an editor keeps
open, a chat that stays open all day) opens those files directly.  There is no
daemon, no lock file and no journal of its own.  What makes the program right is
therefore not hidden in one algorithm but in *orders*: which file is written
first, what is read again after a call that may take minutes, what a process
that is killed leaves behind, what two processes do to one file.  That is what
this project models.

All paths below are relative to the repository; modules are in this directory.

## Reading order

| module | models | checked by | proved in |
|---|---|---|---|
| `Usage` | tokens and unknown costs, common to the next two | extended by them | |
| `UsageAccounting` | tokens and costs in `models.yaml`, its snapshot and the event rows, written by several processes | `MCUsageAccounting` (3 configurations) | `Usage_proofs` |
| `UsageLedger` | what the usage database promises: running totals | refined by `UsageStore` | `Usage_proofs` |
| `UsageStore` | the event table, the summaries rebuilt from it, readers and export | `MCUsageStore` | `Usage_proofs` |
| `ToolLoop` | one agent run: planner, tool executor, budget, refusals, trace lines | `MCToolLoop` | `ToolLoop_proofs` |
| `MemoryStore` | technical memory: schema migration, rows, full-text index | `MCMemoryStore` | `MemoryStore_proofs` |
| `SddChange` | one SDD change: templates, `metadata.json`, advance and archive | `MCSddChange` | `SddChange_proofs` |
| `Backup` | create, restore and prune of backup archives | `MCBackup` | `Backup_proofs` |
| `InteractiveSession` | history, history limit and context compaction of a chat | `MCInteractiveSession`, and through `SessionRetrieval` | `SessionRetrieval_proofs` |
| `SessionRetrieval` | the session's retrieval from memory and brain: switches, queries, what is sent and what is shown | `MCSessionRetrieval` | `SessionRetrieval_proofs` |
| `ChatStreaming` | one chat request: provider, stream, trace, usage record, what is printed | itself | `ChatStreaming_proofs` |
| `ProjectFiles` | what the files that are changed in place have in common | extended by the next four and `Brain` | |
| `ModelRouting` | `model-routing.yaml`: created, read, one route set | through `Workspace` | `Workspace_proofs` |
| `AgentRegistry` | `runtime-state.json`: start, stop, clear | through `Workspace` | `Workspace_proofs` |
| `Profiles` | `profile.yaml`: created, read, set, restored | through `Workspace` | `Workspace_proofs` |
| `Policies` | the rule files: created, read, edited by the user, restored | through `Workspace` | `Workspace_proofs` |
| `McpServer` | the loop of the STDIO server | through `Workspace` | `Workspace_proofs` |
| `Brain` | documents, chunks and their index, ingested by several processes | through `Workspace` | `Workspace_proofs` |
| `Workspace` | the six parts above, combined by commands and the server | `MCWorkspace` | `Workspace_proofs` |

Every `MC` module gives the constants small values and, where processes, days
or versions are interchangeable, a symmetry set.

## Inventory

For each part: its state, its operations, whom it talks to, what is hard about
it and what makes it right.  `PROJECT.json` lists the same parts with their
sources and the hazards line by line.

### Usage accounting (`models/usage.py`, `models/config.py`, `models/pricing.py`, `models/client.py`)

* *State.* `.agentos/models.yaml` holds the providers, the profiles and, in
  `active`, the active profile with cumulative counters; `.agentos/model-usage.json`
  is a copy of that state; `.agentos/usage/usage.db` holds one row per answered
  call.  In memory a command holds the configuration it read.
* *Operations.* `chat once`, a turn of the interactive chat, `models set` and
  `/model set`, three resets that clear different subsets of the books.
* *Interactions.* `chat_once` activates a profile when `--model` or the
  `default_chat` route names one, calls the provider, then reads `models.yaml`
  *again* to charge the answer.
* *Hard.* A read before and a write after the provider call; a shared temporary
  name for an atomic rename that two processes may use at once; three books
  written one after another; a kill, or an error of a file or the database, between
  any two steps.
* *Right when.* The counters never claim more than was charged; `models.yaml`
  is always whole unless two rewrites overlapped, and heals if they did; every
  answer is recorded once, unless its command is cut short; a row is priced by the
  model it names; the books agree after undisturbed commands.

### Usage database (`usage/store.py`, `usage/schemas.py`)

* *State.* Events and three summary tables (day, model, agent).
* *Operations.* Record (insert and rebuild all summaries, in one transaction),
  reset, the summaries, `latest_session_id` and `export_json`.
* *Hard.* The summaries are caches; NULL costs through `SUM`, `COUNT` and
  Python; an export reads four tables on four connections.
* *Right when.* The summaries are the running totals of the events; every
  reader adds up to the same thing.

### Agent tool loop and executor (`agents/tool_loop.py`, `agents/planner.py`, `tools/executor.py`, `tools/registry.py`, `tools/approvals.py`)

* *State.* The run's results, call counts, approvals and the trace file.
* *Operations.* Plan, execute each requested call through six refusals, run the
  handler, log before and after, stop.
* *Hard.* The planner is a model: it may ask for anything, any number of times.
  A budget counted in results over several plans; a per-tool limit; handlers
  that raise; trace lines that cannot be written after the handler has acted.
* *Right when.* No forbidden call reaches a handler; budgets hold; the trace
  tells the results; nothing a handler did is lost without the run failing; the
  run ends.

### Technical memory (`memory/store.py`)

* *State.* The table `memories` (old or new schema), `memories_legacy` during a
  migration, the index `memories_fts`, and in each open store whether it uses
  the index.
* *Operations.* Open (migrate or create, rebuild the index), add, delete,
  search, import, export.
* *Hard.* Python's `sqlite3` commits DDL alone until the first `INSERT`, so the
  migration is not atomic: it can be killed, or raced, between two statements.
* *Right when.* No memory disappears; the index shows the memories; a store that
  opens repairs the index or does without it.

### SDD changes (`sdd/generator.py`)

* *State.* The template files and `metadata.json` of a change.
* *Operations.* `new`, `advance`, `advance --force`, `archive` (an advance and a
  second read and write).
* *Hard.* `metadata.json` is truncated and written in place by CLI, MCP server
  and agent tools.
* *Right when.* Phase, archived flag and history tell one story; phases are
  skipped only by force; a listed change has its files; the file is unreadable
  only because of a kill or an overlap.

### Backups (`backups/manager.py`)

* *State.* The zip files in `.agentos/backups` and the project's files.
* *Operations.* `create`, `list`, `inspect`, `restore`, `prune`.
* *Interactions.* A restore writes `profile.yaml` and the rule files in place while
  other processes read them.
* *Hard.* The list of files is decided before they are read; archives are
  written under their final name; files change, vanish or cannot be read meanwhile.
* *Right when.* Sensitive files stay out; an undisturbed archive is complete and
  restores what it lists and nothing else; prune keeps the newest.

### Interactive chat (`cli/interactive_chat.py`, `context/estimator.py`, `context/compactor.py`)

* *State.* The history of the session, its flags, and `models.yaml`; for retrieval two
  switches, two queries and the last context.
* *Operations.* A message (limit, compaction, request, answer), `/clear`,
  `/model set`, `/memory`, `/brain`, `/retrieve`, `/context`, the display commands.
* *Interactions.* With a switch on, `chat_once` searches the memory database or the
  brain (`retrieval/`) and puts what it finds before the prompt; after the answer the
  session searches again for `/context show`.
* *Hard.* Two ways of dropping messages; the window is that of the profile
  active *before* a route activates another, and of texts without the headings and labels
  that the prompt gives them; a context that is shown is not the one that
  was sent but a second one, of stores that others change; sensitive results are filtered
  out after the search was limited.
* *Right when.* The history is always the most recent, gapless part of the
  conversation; what is sent fits, or is too long for one of four known reasons; nothing
  is dropped needlessly; what is shown was sent;
  what is filtered out displaces nothing.

### A chat request (`models/client.py`, `models/providers/`, `cli/app.py`)

* *State.* The lines that a provider has sent, the pieces of text collected and
  shown, the usage to be recorded, the trace.
* *Operations.* `chat_once` with and without a stream, `stream_chat` of the
  adapters, `_complete_streaming`, `record_model_usage`, and what `chat once`
  and an interactive turn print.
* *Hard.* A stream may end, break off or fall silent after any line; text has then
  been shown already.  Usage may be reported never, once, or several times, and a
  report without counts takes the place of an earlier one.  The
  caller prints the text or has already shown it, which depends on four
  conditions.
* *Right when.* A request has one outcome in its trace, and the trace, the usage
  record and the answer agree on it; usage is the provider's last report or an
  estimate; the user sees every answer once; a request ends once the provider is
  silent.

### Routes, registry and profiles (`models/routing.py`, `agents/registry.py`, `config/profiles.py`)

* *State.* `model-routing.yaml`, `runtime-state.json` and `profile.yaml`.
* *Operations.* Create what is missing, read, read and change and write in place, and
  for `profile.yaml` the restore of a copy.
* *Interactions.* `agents start` reads the registry, then takes its effort from
  the route `coding`, then writes.  Memories, policies and usage ask for the
  active profile.
* *Hard.* A file is truncated before it is written.  A reader in between finds
  an empty file and takes it for the default routes, an empty registry, or an
  empty list of profiles; what it writes afterwards makes that final.  Two
  creators both find that a file is missing.
* *Right when.* No command loses what another has set or started, but for
  overlaps and kills, which are named; nothing reads as lost in any other case.

### Policies (`policies/checker.py`, `services/local.py`, `services/container.py`)

* *State.* The rule files; the rules each process has read.
* *Operations.* Creating the missing files, reading all of them, judging; the restore of
  a backup, which writes copies over them.
* *Hard.* Files are created one after another by every process that asks, and a
  file without rules allows everything.  A process that is killed between truncating
  and writing leaves a file that exists and has no rules: nobody fills it again.  The
  server keeps the rules it read for its first check.
* *Right when.* Whoever judges holds the rules of all files but those that were read
  half-written or left empty.

### Strategic brain (`brain/store.py`)

* *State.* The tables of documents, chunks and their full-text index.
* *Operations.* Opening, which rebuilds the index; ingestion: check the path,
  read the file, look for its row, replace row and chunks; search.
* *Hard.* The `SELECT` is outside the transaction, so two first ingestions of a
  file choose two ids and `ON CONFLICT(path)` keeps one.
* *Right when.* A search finds of each document the chunks of its version and
  nothing else; what the rules block comes in only through a rule file without rules.

### MCP server (`mcp/server.py`, `mcp/tools.py`)

* *State.* One thread; the call it is in; what it has written.
* *Operations.* Lines that are no requests, notifications, requests that are
  answered at once, calls of tools, the end of the input.
* *Hard.* Tools raise, arguments are of any shape, and commands of the user
  change the same files while a tool runs.  Of what can go wrong with a line only a JSON
  error is caught.
* *Right when.* Each message that demands an answer gets exactly one, in order; at most
  the one at which the server ends goes without.

### Left out for good

* *Providers* (`models/providers/`): HTTP, payloads and the wording of errors.
  What an adapter makes of a line or an error is in `ChatStreaming`; for
  `UsageAccounting` a call is the choice between `Answer` and `CallFails`.
* *Built-in tools*: adapters; a handler returns or raises.
* *Matching of policy patterns*: which paths and commands a rule blocks is string
  work, and a constant of `ToolLoop` (`Args`), `Backup` (`Sensitive`) and `Workspace`
  (`Sensitive`).
* *Retrieval* beyond its search and its events, *skills, refiner, diagnostics,
  evaluations, the rendering of the terminal interface, the Go command*: they read and
  format, and keep no state that anything reads back.
* *The restore of `memory.db`* over stores that are open: SQLite promises nothing about a
  database file that is overwritten in place.
* *Registration at start-up, argument parsing, tables and colours.*

## How the modules correspond to the code

A variable is a file, a table or a local variable of a process; its comment
says which.  Each process has a `pc`, the step it is about to take.  A command
is a `Start…` action followed by the steps of the functions it calls, split
exactly where another process can see the difference: a file is read, truncated,
written or renamed, a transaction commits, the provider is called.  Code between
two such points is one action.  A command that raises is the step `Reject`,
`…Fails`, `Conflict` or `…Missing`, with what was written before it left as it
is.  A kill is `Crash` or `Kill…`.  Variables called *history* in their declarations
(`billed`, `overlap`, `expected`, `disturbed` and so on) appear in no guard; they
say what happened so that a property can mention it.

* **UsageAccounting.** `StartChat` to `Replace` follow
  `set_active_model_profile`, `write_model_config` and `chat_once`;
  `ReadForRecord`, `WriteSnapshot` and `InsertEvent` are `record_model_usage`.
  `models.yaml.tmp` is one name for all processes and an open file follows its
  rename, hence `handle`: a process whose temporary file was renamed under it
  writes into `models.yaml` itself.  The file is written by one `write` call, so
  its content is either nothing (`Torn`) or whole.  Of a configuration only the
  active profile, its total and its cost are kept: prompt and completion tokens
  are added in the same way as their total.  `Interrupt` cuts a command short between
  any two steps: `Crash` is a kill, `Fails` an error that nothing handles, such as a
  `profile.yaml` that does not name its active profile when the row is written, or a
  locked database.  What has been written stays.
* **UsageStore.** `RecordEvent` computes all three summaries in its transaction.
  `ExportPart` reads one table on one connection.  Column lists are cut to one
  representative of each key.  Its names differ from those of `UsageAccounting`
  (`StoreInit`, `usageEvents`, `UsageEvent`), because `Usage_proofs` extends both.
* **ToolLoop.** `Refused` holds the six checks of `ToolExecutor.execute` in their
  order; as each produces the same kind of result, the model does not keep which
  one it was.  Trace lines are appended one by one; the two lines before a
  handler and their failure after the first are distinguished (`RequestFault`).
  One run is one behaviour, since a `ToolContext` is created for each run.
* **MemoryStore.** `Select`, `DropIndex`, `Rename`, `Create` and `Copy` are the
  statements of `_migrate_legacy_memories` at the granularity at which `sqlite3`
  commits them.  A statement that meets a table in another state is `Conflict`.
  `EnsureFts` is `_ensure_fts` with its swallowed error: a store without FTS5 opens
  without an index.
* **SddChange.** `Overwritten` is what a file holds when a process writes from
  its beginning over what another has written: the longer tail remains and the
  JSON no longer parses.  Metadata of older versions, which is completed when it
  is read, does not occur: every change is created by this version.
* **Backup.** Archives are numbered in the order of creation, which is the order
  of their `created_at`.  `list()` opens archives one by one; here it looks at
  all of them in one step.  What a create or a restore has to do is a set of files,
  worked off in the order of `Files`, as both walk a sorted list.  `AddFails` is a file
  that is gone or cannot be read when its turn comes: the archive is closed with less
  than its metadata list.
* **InteractiveSession.** A message is its length.  `Tokens`, `Used` and `Over`
  are the arithmetic of the estimator with the percentage in hundredths; Python
  rounds a float half to even, the model rounds half up, which differs for no
  total and window that the configuration uses.  `PromptLength` is the length of what
  `_render_prompt` makes of history and message, `Request` its tokens.
* **SessionRetrieval** extends it: every action of the session is taken together with
  what it does to retrieval (`SendWithContext`, `EndOfTurn`), or leaves that alone
  (`Elsewhere`).  A text that is looked for is one of three, as the stores quote it into
  one phrase: `Matches` says which items match it.  A store is the sequence of its items
  in the order of a search, and a search yields places of it: the foremost ones, up to
  its limit; the sensitive markers and hidden paths are the set
  `Sensitive`.  Excerpts and labels are left out.
* **ChatStreaming.** `Send`, `SendNoise` and `Close` are the provider: it sends a line,
  and the connection ends or breaks.  Lines that mean something are of four kinds, as an
  adapter tells them apart, and their text is the number of its pieces; all others are
  `noise`, of which there may be any amount.  A line that reports usage without counts
  (`blank`) yields an estimate of the prompt alone (`PromptOnly`), which replaces what was
  reported before.  `TimeOut` is a read for which nothing came in time.  `FailStream` also
  has the errors that an adapter yields before it asks for a line (`Ready`).  `Raise` is an exception that ends
  the command anywhere: the writer of the pieces, the trace, the database.  `Display` is
  the caller's decision to print.
* **ProjectFiles, ModelRouting, AgentRegistry, Profiles.** `write_text` is two steps,
  `Open…` and `Write…`.  What a file holds when it is written over what another process
  wrote in between depends on the format: `Overlaid` (YAML with one setting per line: a
  tail of routes may stay), `Overwriting` (JSON: a longer text makes it unreadable), and
  for `profile.yaml` nothing remains that is read.  An `ensure` that finds the file
  missing goes to `create` and does not look again.  The history variables `…Mixed` are
  set when two changes overlap or one is killed after truncating.
* **Policies.** A file has one of four contents; which rules it has does not matter.
  Creation is `CreateRules` and `FillRules`, a restore `TruncateRules` and `RefillRules`
  with a copy of any content, in the order of the names.  `gutted` remembers the files
  left empty by a kill in between or by an empty copy, `halfRead` those read in between.
* **Brain.** All chunks of one version are one chunk, as one transaction writes them.
  `WriteForeign` is the transaction of a process whose id was overtaken; with and without
  FTS5 it ends differently.  Saving a file is the user's.
* **McpServer.** Requests are told apart by how they are answered.  `LineRaises` is a line
  that ends the server: bytes that are no text, or JSON that `json.loads` gives up with
  another exception than `JSONDecodeError`.
* **Workspace.** An action takes steps of several parts at once where the code does so
  without another process being able to see a difference, and leaves the other parts
  alone (`But…`).  A command begins only for a process that is at rest.  `RestoreBackup`
  writes the profile, then the rules, as the files of an archive are restored in the
  order of their names; a scenario says which copies the archive holds.

Bounds are constants named `Max…`; they occur only in guards and are the only
reason for which a modelled system stops, which is why most configurations say
`CHECK_DEADLOCK FALSE`.  `ToolLoop`, `InteractiveSession` and `ChatStreaming` also really
stop (`done`, `over`, `done` or `raised`), and so does `Workspace` when the server has
ended and no command is left.

## The runs

| run | question | bounds, and why they suffice |
|---|---|---|
| `usage_accounting` | Do two processes with three commands, one of them cut short, keep the books in order? | Two rewriters show every overlap of a shared temporary file that is pairwise; three commands allow a command before or after an overlapping pair; three profiles: priced, unpriced, disabled. |
| `usage_heals` | Does a torn `models.yaml` always become readable again? | Two commands: the two that overlap.  Under fairness. |
| `usage_pricing` *(violated)* | Has a row of an unpriced model no cost? | See the divergences below. |
| `usage_store` | Are the summaries the running totals, and do all readers agree? | Two events collide on each key or on none; a known and an unknown cost; equal and different times, two days; a commit between any two tables of an export. |
| `tool_loop` | Do budget, refusals, limits, trace and results hold for a planner that may ask for anything? | Budgets 0, 1 and 3; plans of up to two calls, so that plans end within and at the budget; a tool for each kind of refusal; one trace line that cannot be written, anywhere. |
| `memory_store` | Does a migration lose nothing? | A migrating process, another one at any point of it, a kill at each step, a store without FTS5 or with a locked probe, three writes. |
| `sdd_change` | Does `metadata.json` stay consistent? | Two processes, four commands: creation, and an advance before or between an overlapping pair; three phases distinguish next, skipped and last. |
| `backup` | Are archives complete, restores faithful and prunes careful? | Two archives and `Keep = 1`; two ordinary files and a sensitive one; one edit, one kill and any number of unreadable files at any moment. |
| `interactive` | Is the history the recent past, why may a request not fit its window, is the context that is shown the one that was sent, and what may it hold? | Windows so small that one, several or all messages must go; an unknown window; a history limit that is odd, so that it cuts pairs.  Or two exchanges with three commands for retrieval: both stores on and one off or cleared again; a limit of 1, with a sensitive item before an ordinary one. |
| `interactive_critical` *(violated)* | Is what is sent below 95 percent whenever that is possible? | The same windows and lengths, without retrieval. |
| `workspace` | Do routes, registry, profiles, policies, brain and server keep their promises under commands and a server that overlap? | Two users and the server; three commands or lines, so that one can come before, between and after an overlapping pair; two values of everything that is told apart; copies of any content for a restore. |
| `chat_streaming` | Has every request one outcome, told, charged and shown alike, and does it end? | Four lines: text before and after a report of usage, and a second report, with counts or without; noise before, between and after them without a bound; each kind of caller. |

`Plans` of `SessionRetrieval` gives a behaviour one of two sets of bounds, chosen at the
start: many lengths of messages and no retrieval, or one length and retrieval.  What is
dropped from the history depends on lengths only, and retrieval on nothing but whether
there is a history, so that the product of both would show nothing more.

Two devices keep `workspace` small.  `Scenarios` is a set of sets of commands: a behaviour
uses the commands of one of them, chosen at the start.  The sets are those whose parts
meet: two commands that change one file, a part with one that it asks, the server with
the commands that change what its tools read, a restore with the commands that read or set
what it writes.  Commands of parts that have no file in
common do not disturb each other, which the proofs confirm for any mixture: they do not
mention `Scenarios`.  `View` leaves out what a process at rest still holds, which no later
step reads before it is assigned again and no property mentions; the symmetry is that of
the two users and of the generated ids.

What the properties say is written above each of them.  The ones that took the
most thought:

* `TornOnlyByOverlap` and `TornHeals`: the temporary file protects against any
  number of kills, but not against two writers that share its name.  Then a
  truncated file is renamed into place; the process whose file it was still has
  it open and completes it.  So the damage is transient unless that process is
  killed.
* `NeverOverCounts`: updates get lost, resets are undone by a process that read
  before them, yet no interleaving charges a token twice.
* `AnswersConserved` and `ThreeBooksAgree`: what exactly is true of three books
  written without a transaction, and under which conditions.  An answer lacks a row only
  if its command was cut short, by a kill or an error, or two rewrites overlapped.
* `OverfullHasCause`: a request is compared with the window of the model it goes to, not
  with the one it was compacted for.  It takes more than 95 percent only without a history
  to drop, with a window that changed in between, by what the prompt's headings and labels
  add, or by the retrieval block.
* `NothingLostSilently`: a handler that acted has its result in the run, or the
  run does not end as completed.
* `NoMemoryLost`: through a migration that is killed at any statement, every
  memory is in one of the two tables, if nobody opens a store during the migration.
  (`AllReadable` needs the kill to be
  absent: nothing moves rows back out of `memories_legacy`.)
* `OneStory`: holds through overlapping writers, with the one exception of an
  archive that takes up another process's write.
* `PruneKeepsNewest`: also with prunes and creates at once.
* `RoutesKept`, `AgentsKept`, `ProfileKept`: say when precisely a file changed in place can
  lose something; each is compared with a history of what the commands that ended did.
  `AgentsKept` is about the worst case: a registry that does not parse reads as empty.
* `SearchFindsDocuments`: holds with FTS5 also when two first ingestions choose different
  ids, because the second fails inside its transaction; without FTS5 it commits a new
  hash with chunks that belong to no document, so that overlaps are excluded there.
* `RulesHeld`: names every way to judge without rules: a file that was read while another
  process was to write it, and one that a kill or the restore of an empty copy left empty,
  which lasts, because creation passes over files that exist.
* `SensitiveKeptOut`: joins policies and brain.  What the rules block is ingested only by
  somebody who read `sensitive_paths.yaml` in one of these states.
* `ShownIsSent`: `/context show` is trusted to show what left the machine, and yet comes
  from a second retrieval.  It is right because prompt, switches and queries are still
  those of the request when that retrieval is made, whichever way the request ended; only
  a store that changed meanwhile makes a difference.
* `SensitiveTakesNoPlace`: the search returns twice as many results as are wanted, which
  makes up for sensitive ones exactly as long as there are no more of them than the limit.
* `OneOutcome`: trace, usage record and answer, over every place where a stream can break.
  `docs/streaming-chat.md:46` says that usage is estimated if it is absent; a last report
  without counts makes that an estimate of the prompt alone.
* `ChatEnds`: the timeout is one of a single read, so a request ends once the provider
  falls silent, and not before.
* `ReadersAgree` in `UsageStore`: at every moment the readers add up to the same total.

Each property has been checked to fail when a definition of the model is changed
as a plausible bug would change the code; the changed definitions stand before
the ones they replace, with `Mutant of` in their comment, and are used by nothing
else.  `PROJECT.json` pairs them.

### Fairness

`usage_heals` assumes weak fairness of `Step(p)` for each process: a command
that has begun runs on.  The steps are file operations, which return, and the
provider call, which the HTTP client ends after `timeout_seconds`.  Starting a
command, and kills, are not fair.  `tool_loop` assumes weak fairness of its whole
next-state relation: the loop is one thread that waits only for the planner's
request, which has the same timeout, and for handlers that are bounded local
operations.  `chat_streaming` assumes weak fairness of the program and of the timeout of
a read, and nothing of the provider, which may be silent or send lines for ever:
`ChatEnds` says under its own hypothesis, that lines stop coming, that the request ends.
Nothing else is assumed to happen.

### Divergences between documentation and code

1. `usage_pricing`.  `docs/usage.md:38` promises a `null` cost when the pricing is
   unknown.  The cost of a row is computed from the profile that is active when the
   usage is recorded (`models/usage.py:120`), not from the model that answered.  If
   another process activates a priced profile while the provider answers, the row
   of an unpriced model has a cost.  `PricedAsNamed` shows that a chat that runs
   alone is priced correctly.
2. `interactive_critical`.  `docs/context-management.md:50-52` says that at 95 percent
   or more the oldest messages are dropped until the session is under the critical
   threshold.  `context/compactor.py:32` continues only above 95.0, so a prompt of
   exactly 95 percent, which the estimator calls critical, is sent whole.

Seen while modelling, and not contradicted by any document: an activation replaces the
counters of `models.yaml` by new ones, so each `chat once --model` starts from zero;
`chat once --stream` of a stream that fails prints neither text nor reason beyond what was
streamed; a line that holds text and usage loses its text, and a report of usage without
counts discards an earlier one with counts; `profile.yaml` left truncated by a kill is
recovered by no command but a restore, a rule file left truncated by none but that or the
user's editor; a line of JSON that is nested too deep ends the MCP server; an import of memories is one transaction per
item.  `/retrieve memory` without a query answers that the query is the `latest message`
(`cli/interactive_chat.py:215`), but what is looked for is the prompt with the whole
history, as one phrase: from the second message on nearly nothing matches it (`Prompt` and
`Query` in `SessionRetrieval`).  The context from the stores is not part of the estimate
of the prompt's tokens.

## What is proved

`Usage_proofs` proves, about `UsageAccounting`, for any set of processes, any profiles and prices,
any token counts and any bounds:

* `TypeCorrect`: `Spec => []TypeOK`.  The inductive invariant is `TypeInv`, type
  correctness and the finiteness of `events`: `PurgeStore` adds the cardinality of
  the deleted rows to `purged`, which is a number only for a finite set.
* `NoOverCount`: `Spec => []NeverOverCounts`.  `NeverOverCounts` speaks of
  `models.yaml` alone and is not inductive: any file or memory from which
  `models.yaml` may be written has to be bounded as well.  `Bounded` says so of
  `live`, of `temp` and of the `copy` of every process in the middle of a rewrite.
  `billed` only grows, and `Charge` adds to a copy exactly what it adds to `billed`.
* `WholeUnlessOverlap`: `Spec => []TornOnlyByOverlap`.  The inductive invariant
  `OneRewriter` says what a state without an overlap looks like: at most one process
  is rewriting, a process about to write has the temporary file open, and one about
  to rename finds a whole file under the temporary name.
* `PricedByName`: `Spec => []PricedAsNamed`.  `Undisturbed` follows a chat that runs
  alone from its request to its row: the profile its request named is still active
  when its answer is charged, and is the one in every copy it writes.
* `AnswersKept`: `Spec => []AnswersConserved`, which counts.  `Numbered` says that the
  calls of processes that are recording and of the rows are different numbers, none
  above the number of answers; `Conserved` adds that only finitely many processes
  record, and `AnswersConserved` says how many answers lack a row: none but those of
  commands that were cut short.  `OneRewriter` is used again: without an overlap no rename
  of a recording fails.
* `BooksAgree`: `Spec => []ThreeBooksAgree`.  While a command carries an answer from
  book to book they disagree, so the invariant says by how much.  `CleanBooks`: in a
  clean state every running command is alone; one that carries an answer holds exactly
  what the database says plus that answer (`Owed`); and when nothing is under way the
  books agree (`Books`).  `Written` says how far a command that runs alone has got,
  `Purposeful` which steps belong to which command.  That an inserted row is a new one,
  without which the sums would not grow, is `Numbered` again.

It proves, about `UsageStore`, for any events, days, models, owners, agents and sessions:

* `StoreTypeSafe` (`StoreTypeOK`); `StoreImplementsLedger` (`ImplementsLedger`): the
  tables that every insertion rebuilds from all rows are running totals.  `StoreInv` says
  that each table is its `GROUP BY` of the rows.  `RecordEvent` maps to `Record` by
  `GroupAdds`, the group of the new row gains it and the others stay (`TotalAdds`);
  `Reset` maps to `Reset`, and an export is a stutter.
* `ReadersTellTheSame` (`ReadersAgree`), which is true of every set of rows: groups that
  are disjoint and together all rows split every sum (`GroupsAddUp`, from `SumOfGroups`).
  `LatestIsNewest` takes a largest row, which a finite set has.
* `ExportsCohere` (`ExportCoherent`) by `ReadSoFar`: while no commit came between, what an
  export has read so far are the tables as they are.

Both rest on sums over finite sets, folds whose order nobody knows.  The provers cannot
use the library's induction theorems, but an induction over the subsets of one finite
set needs none of them: the set of subsets for which a fact holds is a set like any
other, and a least counterexample is found by its cardinality (`SubsetInduction`).
`SumIsUnits` shows with it that the sum of a function is the number of its units, the
pairs of an element and a number up to its value: `SumSplit`, `SumAdds` and `SumSame` are
then facts about cardinalities.

`ToolLoop_proofs` proves, for any tools and their limits, any budget and plans of any
length:

* `TypeCorrect`; `BudgetHolds` (`WithinBudget`) by `Budgeted`, which keeps apart a
  handler that was entered from one that has its result; `OnlyPermitted`
  (`OnlyPermittedRun`); `LimitHolds` (`CallsLimited`) by `Limited`, a tool whose handler
  runs has a call left; `NothingLost` (`NothingLostSilently`) by `Kept`, at most one
  handler is without a result, and then the run is in that handler, failing, or over
  with an error.  The lemma `CountAppend` says what one more result does to a count.
* `TraceTells` (`TraceTellsResults`): of the lines of a trace, those that tell a result
  are counted, and the k-th tells the k-th result.  `TellNothing` and `TellResult` say
  what one more line does to that; `TwoLines` joins them where a step writes two.

`MemoryStore_proofs` proves, for any processes and memories:

* `TypeCorrect`; `NothingLost` (`NoMemoryLost`), `EverythingReadable` (`AllReadable`),
  `IndexFollows` (`IndexMatches`) and the action property `OpeningRepairs`
  (`OpenFindsAll`).  `OldUntouched` says that no store is open on the old schema;
  `Alone` describes a migration that nobody disturbs, statement by statement: what the
  process holds, and what is in each table.  `Full` and `Indexed` carry rows and index
  through all other steps.

`SddChange_proofs` proves every invariant of the module, for any processes, templates
and at least two phases:

* `TypeCorrect`; `StoryHolds` (`OneStory`): `Told` says the same of the copies that
  processes are about to write, and that a process with a second write to do has put
  the change into its last phase.
* `FilesFirst` (`ListedHasFiles`): by `Prepared`, a process that creates has existing
  templates behind it, and one that writes `metadata.json` has all of them.
* `TornNeedsCause` (`TornHasCause`): by `OneWriter`, without an overlap only the process
  that truncated the file writes it.
* `OrderHolds` (`OrderUnlessForced`): the bound is not inductive, as several forced
  commands may be pending.  `Ordered` adds to the steps out of order of every file and
  copy the commands that still may spend a skip.  `NextIsTold`, which needs that the
  phases differ, excludes an advance from the one state in which the history does not
  end with the current phase.

`ChatStreaming_proofs` proves, for streams of any length:

* `TypeCorrect`, `OutcomeIsOne` (`OneOutcome`) and `AnswerIsShownOnce` (`ShownOnce`).  The
  inductive invariant `ChatInv` says for each step of the request what the trace may
  hold (`Undecided`, `StreamTold`, `RequestOpen`) and how far the answer has come: the
  pieces are those among the lines handled (`Pieces`), the usage is the last report among
  them (`HoldsReport`).  Events are counted by `CountAppend` and its companions.

`Backup_proofs` proves every property of the module, for any files, processes and archives:

* `BackupTypeSafe`; `ArchivesComplete` (`CleanArchiveComplete`) and `RestoresFaithful`
  (`RestoreFaithful`).  `ArchivesHeld` says what the archives that processes work on look
  like: nobody else writes an archive that is being created, and one that is read stays
  closed or is deleted.  `CreationHeld` and `RestoreHeld` say what has been done up to the
  place that comes next, for a process that nobody disturbed.  `PlaceFirst` is about that
  place, the least of those that remain.
* `NewestKept` (`PruneKeepsNewest`), an action property.  Each prune has read its own list,
  so that one decides about archives another is deleting.  `DoomedHaveSuccessors`:
  behind each archive that some prune will delete, `Keep` newer ones that no prune will
  delete.  With `NewestStay` it holds for the `Keep` newest of any list.

`SessionRetrieval_proofs` proves every property of both modules of the interactive chat,
for any windows, limits, lengths and stores:

* `SessionTypeSafe`; `SessionRefines`: a session with retrieval implements
  `InteractiveSession`, so that what is proved there holds with retrieval.
* `HistoryStaysRecent` (`HistoryIsRecent`): `Limited` and `Compacted` keep an end of the
  history (`LimitedSuffix`, `CompactedEnd`), and an end of an end of the conversation with
  an answered pair behind it is one again (`SuffixElements`, `SuffixAppended`).
  `NothingDroppedInVain` (`DropsNoMoreThanNeeded`): the number of messages that compaction
  drops is the least that does.
* `ShownWasSent` (`ShownIsSent`) by `ContextHeld`: until the turn ends, prompt, switches and
  queries are those of the request, and the context it carries is the one they yield now
  unless a store has changed.  `SensitiveDisplacesNothing` (`SensitiveTakesNoPlace`) counts
  places (`ForemostMany`): of the `2 * Limit` foremost places at most as many as there are
  sensitive items are lost, and the foremost `Limit` of the rest are the same.

`Workspace_proofs` proves, for any processes and any values:

* `RoutesAreKept` (`RoutesKept`) from `RouteHeld`: while nothing was mixed at most one
  process is changing the file, and its copy is the routes chosen so far with its own
  change.  `AgentsAreKept` (`AgentsKept`) from `AgentHeld`, the same for the registry.
  `ProfilesAreKept` (`ProfileKept`) from `ProfileInv`, which follows who has
  truncated the file.  `RulesAreHeld` (`RulesHeld`) from `PolicyProgress`: what a process
  that is reading has already passed was there and stays, and from `EmptyHasCause`: an
  empty file is about to be written, or was left so.  `ServerAnswersInOrder`
  (`AnsweredInOrder`) from `ServerInv`: the message in hand is owed an answer,
  the last; in a server that has stopped one may be missing.

* `BrainFindsDocuments` (`SearchFindsDocuments`) for any paths, ids and changes: an id
  belongs to one path, the chunks of a stored row are those of its hash, the index and the
  chunks agree, and what a process has found is either the path's id or was overtaken.

It carries all of them over to the composition.  `PartsStep` shows that a
step of the workspace is, for each part, a step of that part's own next-state relation or
leaves it alone: the workspace implements each part.  `WorkspaceKept` follows for the
parts' invariants, whatever commands exist and however they are mixed.  `SensitiveStaysOut`
(`SensitiveKeptOut`) needs an invariant of its own, `SensitiveInv`, across policies and
brain.

The assumptions are the named ASSUMEs of the modules and nothing else.
`Usage` (`UsageAssumption`): an answer reports a natural number of tokens, and an unknown
cost is not a number.  `UsageAccounting` (`ProfilesAssumption`, `PriceAssumption`,
`FileAssumption`): the default profile exists, prices are numbers or unknown.  `UsageStore`
(`StoreAssumption`): costs are numbers or unknown, times are numbers, the bound is one.
`Backup` (`BackupAssumption`): `Files` lists each file once, `Keep` and the bounds are
natural numbers.  `InteractiveSession` (`SessionAssumption`): windows, lengths and bounds are
natural numbers, the routes name profiles.  `SessionRetrieval` (`RetrievalAssumption`): a
store holds each item once, and what matches the whole prompt matches its last message.  `ToolLoop` (`ToolAssumption`):
limits and budgets are natural numbers, and the policies speak of registered tools.  `MemoryStore`
(`MemoryAssumption`) and `SddChange` (`FileAssumption`, `TemplateAssumption`,
`PhaseAssumption`): templates are a sequence, phases a sequence without repetition.
Beyond that they say that markers such as `Torn`, `Absent`, `Gone` and `NoFile` are not
values of the kind they are told apart from.  TLC evaluates all of them in the runs.

`StreamingAssumption`, `RouteAssumption`, `AgentAssumption`, `ProfileAssumption`,
`PolicyAssumption`, `BrainAssumption`, `ServerAssumption` and `WorkspaceAssumption` do the
same for their modules.

Proved but in no run: `AllReadable`, the type invariants, and that a session with
retrieval implements the one without.

Only model-checked: liveness (`TornHeals`, `RunEnds`, `ChatEnds`), which the proof system
cannot treat, and `OverfullHasCause`, which compares the estimate of several texts with
that of their concatenation: sums over sequences of any length need an induction that the
provers cannot make.  Every other invariant and action property that a passing run checks, and the
refinement of the ledger, is also a theorem.  That a sensitive file stays out of an archive
is in the guard of the model's `create` as it is in the code, and no property repeats it.

## Plan

What is left, in this order:

1. *Proofs* of the part of liveness that is safety: a number that every step of a tool
   loop, and every step of a chat request, makes smaller.
2. *Abstract specifications*: the tool loop as a gate that lets a bounded number of
   permitted calls pass, and an SDD change as an atomic register, each refined by the
   module there is.
3. *The effort and the stream switch of an interactive session*, and exports of traces
   over daily files.
4. *One request over its books*: `ChatStreaming` in place of the provider call of
   `UsageAccounting`.

Definitions are kept free of recursive operators, sums are folds of the community
modules, and each component states its assumptions, so that all of them can be
proved about.
