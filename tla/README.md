# HaiCode: a verification project

HaiCode is a native Haiku coding assistant: a window (`src/gui`) over an engine
(`src/lib`) that runs language-model turns for several sessions at once. This
directory holds TLA+ models of the engine, of the state it keeps on disk and of
the windows around it, the TLC configurations that check them on small
instances, and proofs about most of them for every instance. `PROJECT.json` maps
every definition to the source lines it translates and lists the hazards the
properties are for.

Contents: [inventory](#inventory), [modules](#modules), [runs](#runs-and-bounds),
[fairness](#fairness), [proofs](#proofs), [findings](#findings),
[not modelled](#what-is-not-modelled), [plan](#plan).

## Inventory

State is guarded by `SessionEngine::mu_` unless another lock is named.

| Part | State | Operations | What makes it correct |
|---|---|---|---|
| Session runner (`engine.cpp`) | `session_running_`, `prompt_queue_`, `runner_threads_`, `interrupt_flags_`, `session_stream_tokens_`, `interrupts_in_progress_`, `retiring_sessions_`, `shutting_down_`; `pending_ask_` under `ask_mu_` | `submit_prompt`, `inject_message`, `continue_session`, `retry_last_turn`, `compact_now`, `interrupt`, `delete_session`, `shutdown`, `reply_to_ask`, and the worker's `runner_main`, `agentic_loop`, `drain_queue_and_finish` | one worker per session; accepted prompts run once and in order; stopping stops, and stops only what was meant; rows and flags outlive the threads that use them |
| Turn loop (`agentic_loop`) | locals `iter`, `steps_left`, `ceiling_left`, `completed_high_water`; `last_compaction_step_`; stored todos | one iteration: trigger, request, retries, tool batch, bookkeeping | a turn ends; its length is earned; no output twice; compactions are paced |
| Permission broker (`permission_requests.cpp`) | `pending_`, `blocked_sessions_`, `shutdown_` under its own `mu_` | `submit`, `resolve`, `cancel_session`, `cancel_all`, `allow_submissions`, `reopen` | fail closed; one outcome per request; no open request of a stopped session |
| Permission gate and tool registry (`permission.cpp`) | rule layers, session grants, offline mode | `check`, `add_exact_allow`, `revoke_temporary_allows`, `execute` | last matching rule wins, grants never outlive their session or mode |
| Tool batch (`agentic_loop`, `tools.cpp`) | rows of one assistant step | execute, persist, ask, plan, todo | every `tool_use` row gets exactly one result |
| Compaction (`compaction.cpp`, `compact_history`) | `compaction_checkpoint` rows, `compaction_in_progress_` | `split_history`, `apply_checkpoint`, `compact_history`, `complete_checkpoint`, `fail_checkpoint` | no row lost between boundary and tail, exchanges never split, one at a time |
| Title jobs | `title_jobs_` | spawn, sweep, refine | joined by shutdown and delete, never overwrite a user's title |
| Providers, HTTP, SSE | streams by token in each provider | `stream`, `cancel` | cancel by token hits one stream |
| Transcript and in-flight stream | `in_flight_`, `row_gen_` under `in_flight_mu_` | `append_transcript_row`, `load_with_in_flight` | a window that loads mid-stream shows every row once |
| Store (`db.cpp`) | SQLite tables under `conn_mu_` | CRUD, migrations, pruning | no half upgrade, half list or lost field, wherever it is killed |
| Subprocesses (`subprocess.cpp`) | the child, its group, the pipe, the locals of `run_subprocess` | spawn, poll, kill, drain, answer | never waits for a live child, leaves no zombie, returns what was written and says how it ended |
| Configuration (`config.cpp`, `HaiCodeApp`) | the two files; `global_layer_`, `config_`, `last_trust_` in `be_app`, copies in the windows | layer merge, trust gate, document writes | untrusted project keys never take effect |
| Codex sign-in (`codex_auth.cpp`) | token store under `g_auth_mu` | login, refresh, clear | rotation loses no token |
| Context builder and translations | none | rows to provider messages | pairing, alternation |
| Event bus (`events.cpp`) | handlers | publish on the caller's thread | no lock held in handlers |
| Application and windows (`src/gui`) | lifecycle threads under `lifecycle_mu_`, relays, views | delete and cleanup threads, quit, engine re-creation | the window's calls and the lifecycle threads end before the engine goes |

**Interaction.** The window's thread calls the engine; the engine gives each
session at most one worker thread; a worker calls a provider's blocking
`stream`, the tool registry, and through the gate the broker's blocking
`submit`. Stopping a worker takes three channels because it can be in three
places: a flag it polls, `Provider::cancel` for a stream, and cancels of the ask
table and the broker for the two waits. `delete_session` runs on lifecycle
threads of the application and joins the worker; `shutdown` joins them all.
Events are published synchronously on whichever thread produces them.

**Hard behaviours.** The claim of an idle session against the worker's own idle
flip; an interrupt that arrives between a worker's flag check and the wait it is
about to enter; an interrupt that outlives the run it was aimed at; deletes and
shutdown that join threads which may be parked; a failed database write in each
of those; retries of a request that already produced output.

## Modules

### SessionRunner

One action is one critical section of `mu_` (or of the broker's or the ask
table's mutex), or one step between two of them. Threads are records with a
place in the code and their locals: `wk` the workers, `intr` the callers of
`interrupt`, `del` the lifecycle threads in `delete_session`, `shut` the thread
in `shutdown`, `gui` the window's thread, which is inside at most one two-step
call. The remaining variables carry the names of the maps they model; the header
of the module says which. Correspondence worth knowing:

* A flag object is named by the worker whose spawn allocated it, so `flagOf`
  can tell a live flag from one that was deleted (`flag[w] = "freed"`), and
  `wk[w].held` is the pointer the turn fetched at its start.
* `token` is a number from `next_run_seq_`, 0 when the map has no entry.
  `OpenStream` registers the stream: a cancel that comes before it does nothing,
  as in the providers.
* A turn is `step` (loop head), `ready`, `streaming`, `call` (before the batch's
  flag check), then `submit`/`approval` for a tool that needs approval or
  `askreg`/`asking` for `ask_user`. Between the check and the wait there is a
  step where an interrupt can fall; that gap is the point of the model.
* The drain, the publication of `TurnEnded` and the idle flip are three steps,
  because handlers of `TurnEnded` run, and may submit, in between.
* `DeleteFails` is the database refusing; `StorePromptRow`, `InjectAppend` and
  `RetryRun` have the same failure.
* `accepted` and `taken` are histories: what the engine accepted, and what it
  handed to a turn, to `inject_message`'s own append or to a delete's discard.
* `doubled` is a history too: the sessions that two `delete_session` calls were
  inside at once. The code does not prevent that (finding 2), and what it promises
  of such a session is nothing; the safety properties speak of the other ones
  (`Orderly`), whatever happens beside them. `RowsAlwaysLast` is `RowsLast`
  without the exception.

`MCSessionRunner` adds the symmetry set and the constraint `OneDeleteAtATime`,
which stops a behaviour where two deletes of the session meet.

### PermissionBroker and ApprovalContract

`PermissionBroker` is the broker at the granularity of its mutex: `submit` in
its steps (registration, delivery outside the lock, the two critical sections of
a failed delivery, the wait), `resolve`, and the cancels. `ApprovalContract` is
what the engine may assume: a request of a session gets one verdict, and a
stopped session has no open request. `ImplementsContract` is the refinement:
the verdict of a request is its entry's outcome once resolved, "open" while the
entry is unresolved, and what `submit` returned when it never had an entry.
`SessionRunner` uses the contract's shape: `wait`, `blocked` and `brokerShut`.

### TurnLoop

The loop of `agentic_loop` over several turns of one session. The model's
answers, the context size, todo lists and interrupts are nondeterministic.
`sent` and `outputs` count the requests of one iteration and those that showed
output; `earned` and `renewals` count what a turn completed and how often it was
refilled. `here` and `before` count the compactions committed in this iteration
and the one before it, the `triggered` ones of the threshold and the `recovered`
ones of an overflowed request apart: only the first kind asks for the gap and sets
`lastCompaction`. `rearmed` says that the turn began by a prompt or a retry, which
reset `lastCompaction`, and `leftover` that a failed request left a thinking block
behind, which the retry gates do not look at.

The module is checked twice: budgets, retries and termination in the run `TurnLoop`
with `Compacting = FALSE`, and the pace of compactions in `Services` with
`Compacting = TRUE`.

### TranscriptView

The engine's writing of a transcript and the window's reading of it. `rows`,
`rowGen` and `inFlight` are what `in_flight_mu_` guards; `worker` is the place
of each session's runner in a prompt, a request or a tool batch, with the locals
of the iteration; `relay`, `mailbox`, `window` and `shown` are the relay's active
session, the messages in the window's port, the members of `MainWindow` that
filter them, and the pieces in the chat view. A row is the sequence of pieces it
is rendered as: a prompt, the bytes of an answer and its calls, a result.

* Recording and announcing are two steps, as in the code: `AppendRow` is one
  section of the lock, `Publish` is the event bus's synchronous fan-out, run by
  the worker after it has released the lock. It blocks while the window's port is
  full (`BMessenger` sends without a time-out).
* `LoadHistory` reads rows, in-flight text and generation together, as
  `load_with_in_flight` does. `Select` and `Retry` are the part of their handlers
  before the load; the worker may move in between, the window handles no message.
* `StoreResult` stands for every way a call ends: it ran, it was skipped because
  the batch was stopped, it stopped the batch (a denial, a plan proposal), or it
  is an `ask_user` placeholder that `Answer` rewrites later. The rewrite finds
  its row by call id, newest first, and call ids repeat from step to step.
* An answer that carries calls but ends for another reason than tool use is stored
  with them and then leaves the loop: `BreakUnasked` instead of `EnterBatch`.
* `clean` and `cut` are histories. `clean` turns false at a load that leaves the
  announcement of an earlier step of the session in the port (`BytesOnce` below);
  `cut` holds the steps whose calls are stored and did not all run, because of
  `BreakUnasked` or of a database failure. Their calls may lack a result, and the
  ones that never ran are announced to nobody, so a window shows them only after a
  load.
* The stored batch has its calls before its results, the live view each result
  under its call; `RowsCaughtUp` compares the two orders separately.

Left out: reasoning text (a second buffer with the same rules), lines that are
never stored (errors, notices, the note on malformed calls), compaction
checkpoints, the row `inject_message` appends, and a window whose engine is
replaced. `RowsTold` and `TextTold` are the conjunctions the run checks: each
piece at most once and, when the port is drained, none missing.

### Authorization, Permissions, ReviewWindows (MCPermissions, MCApprovals)

`Authorization` is the decision of `permission.cpp` as operators: the mode's
allowlist, the layers with "last match wins", built-in exemptions, commands of a
shell line, read-only git, paths lexically and through links. A call is a record
of what `Tool::required_permission` and `resource` return, and `fnmatch` is the
relation `Globs`: parsing text into these is not modelled.

`Permissions` is that decision in motion: `mode`, `stored`, `flags`, `armed` and
`exact` are the session's mode, the flags in its row, `be_app`'s copy, the gate's
rules and grants; `shown` and `center` the two windows' copies; `appbox` and
`winbox` the queues between them. A worker takes a call through `EvaluateCall`,
`CheckTool`, an approval (open until one answer or a denial, as
`ApprovalContract` promises) and `Wake`. `written` remembers what the Policies
tab said when the decision was made, `late` an approval acted on after an
interrupt. `told` holds the flags as the toggles `be_app` has handled set them, in
their order, and `overwritten` the sessions whose row the Permissions center wrote
from a copy that no longer was the row; of those `FlagsConverge` promises only that
row, copy and gate agree.

`ReviewWindows` is what stands between a waiting worker and its user: one
approval window per session with the rest in `pending_perm_queue_`, question and
plan windows that only the active session's relay opens, the stale windows a
stopped request leaves on the screen, and deletes. Neither side waits for room in
the other's port, so a full port may refuse the announcement of an approval or the
decision on one: `lost` holds those requests. The messages of `Permissions` are
always delivered; there the port of `be_app` is assumed never full.

### ConfigDocuments

The global and the project file, the layers in memory, the trust record and the
four threads that save: `be_app`'s handler is the list `todo` of what is left of
it, each save a read (`held`) and a write, so that saves of different threads
overlap; an editor, a checkout or a pull may change or break a file anywhere. A
save of the settings applies its providers to the layers at once, before the file
is written (`ApplyProviders`). `accepted` holds the fingerprints the user trusted.

### AppLifecycle

`HaiCodeApp` and the session list: create, select, type, send, retry, delete,
clean up, change settings or directory, quit. `app` is the place in `be_app`'s
handler (joining the lifecycle workers, in the engine's shutdown, swapping the
window's pointer); engines are numbered, `alive` are the ones not destroyed and
`wired` those given the broker. `jobs` are the deleting workers, `keeping` the
housekeeping pass that is owed, running or retried. `center` is the engine the
Permissions center is inside a call of, on its own thread and with nobody waiting
for it: `EngineOutlivesJoined` leaves it out, `EngineOutlivesCenter` states it and
is violated. Runs are reduced to "works" and "waits for an approval".

### Compaction

What one session's model is shown: rows and checkpoints as the store keeps them,
`StepRequest` the request each step assembles from them (repair of unanswered
calls, results regrouped behind their call, images of the last two prompts,
status updates said once and replayed), `SplitHistory` the boundary, and
`compact_history` from its guard through inline and standalone summaries, the
one correction, the two passes, to completion, failure or an exception. `Crash`
is the process ending and the sweeps of the next start. A summary is the set of
rows it tells of, so "nothing is lost" is a statement about sets; a row's cost
replaces its token estimate. `fit_serialized` cuts the rows that do not fit into a
standalone prompt: `reads` holds the rows a prompt carries and `lost`, of a
compaction and of the checkpoint it writes, those that were cut off.

### Streams

Streams over one provider object and one `HttpClient`: registration under a
token, transfer, events cut into chunks, the parse state of the three provider
kinds, the sign-in retry, `cancel`, the report. `server` has the counts that the
events of an answer come to, the reference for what the parse state makes of them
however they were cut. `caused` remembers whose server
really failed, so that "an error is your own" can be said. The event "limit" is
`max_tokens`, `length` or the incomplete response of the ChatGPT backend: a report
gives the reason MaxTokens exactly when the server said it. `SendBound` bounds
the events of one response per stream.

### CodexAuth

The token store, `g_auth_mu` (held across the request to the token endpoint),
request threads, browser logins on their callback ports, and the server's side:
which refresh tokens it takes (one use each) and which access tokens. Answers
get lost, saves fail, the process is killed, and an answer may come without a
refresh token: a refresh then keeps the one it used, a login stores none.
`grantee`, `lost` and `refused` are histories.

### WireFormats

The three translations of one conversation: the fold and stub rules of
`translate_messages`, `translate_to_responses_items`, the Anthropic body with
its cache marks. `conversation` grows by one message per step and is translated
whole at every length, so the property compares each translation with the one
of the step before.

### ProjectFiles

`atomic_write_file` system call by system call (temporary file, write, fsync,
rename), failures at each, a killed process and a power loss in which unsynced
data may be torn; on top of it the tools that write files, plans and
instructions, and the engine's retirement of finished plans.

### TitleJobs

One session's title: the first line of its prompt, the refinements its turns
spawn with the title they read as baseline, and interrupt, delete, shutdown and
`run_when_idle` around them.

### Subprocess

One call of `run_subprocess`. `sh` is the direct child, `bg` a descendant it may
leave behind (and which may leave the group), `ends` who holds a write end of the
pipe, `spoken` and `taken` what was written and read; `parent` is the caller's
place in the loop and its locals. Forking, writing, exiting, the flag and the
clock are free to move between any two of its system calls. The shell exits with a
code or dies of a signal (`Signalled`, the -1 of the code); one that the caller
killed is `Slain`, which no result may report as the command's own status.
`WholeAnswers` is what each tool makes of the result. `waitpid` never fails with
ECHILD here: nothing else in the program waits for that child.

### SessionDatabase

`migrate` on databases of versions 0 to 2, statement by statement, then the orphan
sweep, then the store for several threads: `db` is what the connection sees,
`disk` what a killed process leaves. `storeOp` is the call a thread is in
(`ReadsDoc` and `WritesPatch` are the SELECT and the UPDATE of a patch of
`model_json`, `InsertsTodo` a row of `replace_todos`). `loop` is the part of
`agentic_loop` that reads the mode at each step and marks the session. `touched`,
`worked` and `lastWritten` are histories.

### MCServices

`ConfigDocuments`, `AppLifecycle`, `Compaction`, `Streams`, `CodexAuth`,
`WireFormats`, `ProjectFiles`, `TitleJobs`, `Subprocess`, `SessionDatabase` and
`TurnLoop` share no state in the models; one configuration checks them side by side. `focus` names the part a behaviour is
about, the others stay in one initial state (`Quiet`), and the `VIEW` keeps only
the part that moves. That is sound for their invariants: every behaviour of each
part alone is a behaviour of `ServicesSpec` with that focus. `MCApprovals` does
the same for `Permissions` and `ReviewWindows`.

## Runs and bounds

| Run | Question | Bounds, and why they are enough |
|---|---|---|
| `Runner` | Does every interleaving of turns, prompts, interrupts, deletes and shutdown keep one worker, every prompt in order, rows and flags alive? | 1 session, 2 prompts, 2 workers, 2 interrupts, 2 deletes, 1 iteration per turn: a second worker reuses the slot of the first, a second interrupt overlaps the first and hits its successor, a second delete follows a failed one; behaviours end where the two deletes overlap |
| `RunnerTwoSessions` | Does stopping one session touch another, or a later run? | 2 sessions, a worker each, 1 interrupt, 1 delete |
| `RunnerLive` | Do deletes, shutdown and interrupts end, do queued prompts run? | 1 worker that drains 2 prompts, approvals, no questions |
| `DeleteAskHangs` (violation) | The same delete when the model asks the user | 1 worker, 1 delete |
| `OverlappingDeletes` (violation) | Two deletes of one session at once | 1 worker, 2 deletes |
| `Broker` | Is every approval decided once, fail closed, released by a cancel? | 2 requests in 2 sessions, all callbacks may fail |
| `TurnLoop` | Do budgets and retries stay in bounds, does a turn end? | no compaction by threshold; `max_steps` 2 (ceiling 8), 7 todos: a renewal adds at most one iteration here, so seven are what it takes to reach past the ceiling; 2 turns |
| `TranscriptView` | Is anything shown twice, lost or misplaced by a window that loads in the middle; does every call of a batch that runs get one result? | 2 sessions of which 1 talks (the other is where the window goes in between), 1 prompt, 2 requests of at most 2 deltas and 2 calls in all, 2 loads: away and back, or `/retry` and back; a port of 3 messages holds an announcement and text of a step the load already covers |
| `Approvals` | Do flags, rules and grants converge to what was set last; does a call run only if mode, policy and user let it; can every open approval be answered? | 2 sessions; 3 clicks without calls, or 1 click and 2 calls of the 7 kinds the gate tells apart; 3 documents of rules; 3 ids, so that two approvals queue behind a stale window |
| `Services` | The invariants of the eleven parts of `MCServices` | documents: 3 edits on a trusted project; lifecycle: 2 sessions and 3 acts, enough to delete one session while another is made or the engine is replaced; context: 5 rows, 6 rows and checkpoints ever, so a second compaction follows a first, an orphan or a retry; streams: one with 4 events beside one that only registers; sign-in: 2 requests and a login, 3 token pairs; wire: 4 messages, 2 calls; files: 2 workers, a crash; titles: 2 jobs, 2 prompts; commands: 3 bytes against a cap of 2 and reads of 2, so a read straddles the cap and another comes after it; database: 2 sessions, 2 threads, 2 calls, a kill; loop: `max_steps` 4 with the threshold on and 2 turns, so that a gap of two steps passes and a second compaction follows a first, within a turn and across `continue_session` |
| `StopAfterReplace` (violation) | Does stopping a run release its approval after the engine was replaced? | 2 sessions, 4 acts |
| `SweepReachesTransfers` (violation) | Does `cancel("")` stop every transfer? | 2 streams |

Bounds are the sizes of the constant sets, `Steps`, `MaxTodos` and `MaxTurns`,
in `TranscriptView` the constants named `Max...`, in `Permissions` `Budgets`, and
the constants each other module marks "bound:"; nothing else is capped. The
message queues of `ReviewWindows`, `AppLifecycle` and `ConfigDocuments` are
bounded by those.
`CHECK_DEADLOCK FALSE` appears where the system may stop: workers are used once,
after shutdown or quit nothing moves, and prompts, requests, loads, clicks, token
pairs and messages run out. The largest runs are `RunnerTwoSessions`
(2.5 million states), `Services` (2.3 million) and `Approvals` (1.7 million), each
a few minutes; the others stay below a million.

Only `Runner` has a constraint: `OneDeleteAtATime` cuts a behaviour where two
deletes of its one session meet, because beyond that point every property of the
session is excepted (`Orderly`) and the states are many. `OverlappingDeletes` goes
beyond it, and the theorems cover every overlap, with other sessions beside it.

## Fairness

`SessionRunner` gives weak fairness to every worker, to every thread inside
`interrupt`, `delete_session` and `shutdown`, and to the window's thread inside
an engine call: an unblocked operating-system thread runs, a provider's stream
ends (its transfers have stall time-outs), and `std::condition_variable` waits
are entered with predicates, so a wake-up is never lost. Users are given none:
nobody has to answer a question, decide an approval or submit anything.
`PermissionBroker` gives it to the thread in `submit` only. `TurnLoop` gives it to
the steps of the loop: a stream ends, and a batch holds finitely many calls, so
the tail of an iteration is not put off by `TodoWrite` for ever.

## Proofs

Every theorem has the form `Spec => []P` and one argument: an inductive invariant
holds at the start, every action keeps it (a lemma per action, or per group of
actions that touch the same state), and it implies `P`. A property alone is never
inductive here, because it speaks of the end of a story; the invariant adds what
is true at every place in the code on the way there. TLC checked each invariant
on a small instance before it was proved. What follows says what each one adds.

| Module | Proves about | Invariant | Theorems stating a checked property |
|---|---|---|---|
| `SessionRunnerProofs` | `SessionRunner` | `RunnerInv` | `TypeOK`, `OneRunner`, `NoStrandedPrompt`, `PromptsInOrder`, `RowsLast`, `HeldFlagAlive`, `NextTurnNotPoisoned`, `PromptRowsStay`, `StopsOnlyItsRun` |
| `RequestProofs` | `TurnLoop`, `Streams` | `LoopInv`, `RequestInv`, `PaceInv`, `StreamInv` | `StepsEarned`, `NoReplay`, `CompactionPaced`, `StreamTruthful` |
| `ApprovalsProofs` | `Authorization`, `Permissions`, `ReviewWindows` | `PermissionsInv`, `ReviewInv` | `FlagsConverge`, `GateHonest`, `ApprovalShown` |
| `StorageProofs` | `ConfigDocuments`, `CodexAuth`, `SessionDatabase` | `DocInv`, `AuthInv`, `DatabaseInv` | `AuthorityAccepted`, `SignInKept`, `StoreKept` |
| `LifecycleProofs` | `TitleJobs`, `AppLifecycle`, `PermissionBroker`, `ApprovalContract` | `TitlesInv`, `LifeInv`, `BrokerInv` | `TitleJobsSettle`, `EngineOutlivesJoined`, `SessionsFollowed`, `AllowOnlyByUser`, `EntryOutlivesWait`, `ImplementsContract` |
| `TranscriptProofs` | `TranscriptView` | `ViewInv`, `TellInv` | `BatchAnswered`, `RowsTold` |
| `ContextProofs` | `Compaction` | `ContextInv` | `SummaryTrue` |
| `ToolsProofs` | `ProjectFiles`, `Subprocess` | `FilesInv`, `CommandInv` | `FilesSafe`, `CommandHonest` |

**Session runner.** `RunnerInv` says who owns a session: a live worker's session
exists and is running, its entry in `interrupt_flags_` is the worker's own flag and
not freed, and the thread handle is the worker's unless a delete or the shutdown
took it and is about to join. A refused session (retiring or shut down) has that
flag up. A turn whose flag is down has no interrupt in progress against it, which
is what keeps its approvals unblocked; an interrupt that is about to cut a stream
has raised the flag of the run whose token it read; and the count in
`interrupts_in_progress_` is the number of callers inside. `OrderInv` relates the
histories: short of shutdown, what was accepted is what was taken, then a prompt
`inject_message` is still appending, then the queue. All of this is said of
`Orderly` sessions. Of a session in `doubled`, whose flag may be freed and whose
worker may be joined by nobody, `RunnerInv` keeps only what the others rely on: the
flags its map entry and its deletes hold are of its own workers, and a token names
one run (`FlagOwned`, `TokenInv`, `DeleteInv`). So
nothing is assumed about the callers of `delete_session`, and the theorems say that
overlapping deletes of one session disturb no other; `OverlappingDeletes` is the
counterexample to `RowsLast` without its exception.

**Turn loop.** For every `max_steps`, todo bound and number of turns. `LoopInv`
adds that inside the body both budgets are positive, and that what was spent plus
what is left never exceeds the ceiling, respectively `max_steps` times one more
than the renewals. `RequestInv` adds for `NoReplay` that before a request is sent
nothing has been shown, and that each request after the first was paid for by a
retry or by the recovery. `CompactionPaced` is about the commits of both kinds: the
threshold commits at most once in an iteration and the overflow recovery at most
once, which leaves four for two iterations in a row, and the hysteresis takes one of
them away. For that `PaceInv` ties `lastCompaction` to the tallies: it is this
iteration if `here` has a trigger, the one before if `before` has. Its second half,
that a step is held back only because the one before it compacted, needs that
`lastCompaction` is never ahead of `iter`, which holds in turns that are `rearmed`
and fails after `continue_session` (`StepNotBehindCompaction` below).

**Streams.** For every number of streams and tokens and answers of any length.
`StreamInv` says of each stream what its place in `stream()` has heard. While the
transfer runs, and at an end without cancel or error, the parse state agrees with
the counts of what the server sent (`Agree`): Anthropic's has the calls that are
closed and the pieces of the open one, the other two have every call with its
pieces. A cancelled transfer is one of a flagged stream, so an aborted transfer is
told to nobody; an unflagged stream that returned with a bad status is in `caused`;
and every report made is true (`Told`). `OneMoves` reduces a step to the stream
that moves, `ParseFollows` keeps `Agree` event by event for each format, and
`FinishTrue` takes `Agree` to a true report.

**Broker.** `BrokerInv` ties each entry to the place of its `submit`: an entry
exists exactly while the call is inside, it is resolved exactly when it has an
outcome, a call that failed to deliver is resolved before it erases its entry,
and a call that returned returned a verdict. From it each action is an `Ask`,
`Answer`, `Stop` or `Rearm` of `ApprovalContract`, or leaves owner, verdict and
stopped sessions as they were.

**Permissions and review windows.** `FlagInv` says of every session that row,
flags and armed rules agree (`Agrees`) or that a message which will set all three
is still queued for `be_app` (`Pending`). The queue is unbounded, so this is where
`FlagsConverge` comes from; beside it each flag of the row is as `told` unless a
toggle of it is on its way or the session is in `overwritten`. `Placed` says what a call has passed when it stands at
a place of `ToolRegistry::execute`; `GateHonest` follows from it and from lemmas
about the operators of `Authorization` (what a built-in exemption covers, what the
last matching rule can be). `ReviewInv` says where a pending approval is: in a
window, in `pending_perm_queue_` of a session that has a window open or the message
of one just closed, in a message on its way to either side, or in `lost`.

**Documents.** `DocInv` says that every document on its way somewhere (in a file,
in a save between its read and its write, in `todo`, in `inbox`, in the settings
window, in a layer) records only trust the user gave, and that providers of the
project never travel to the global file. Nothing is bounded: any number of edits
and any set of documents in which the global one was not written by the project.

**Sign-in.** `AuthInv`: the store is written only under `g_auth_mu`; between the
answer of the token endpoint and the save the new pair is carried by one thread,
the holder, and no request carries it yet; the stored refresh token is live or in
`lost`.

**Titles and lifecycle.** `TitlesInv` gives each live job one joiner (the list, a
delete or the shutdown); a mark empties the list and raises the flag, so that no
turn adds a job behind it. `LifeInv` has five parts: the two engine pointers differ
only in a swap, when no worker or run is left on the old one; a housekeeping thread
and its report exclude each other; what the user typed for a session is in the
composer or in its draft; a listed session exists or its deletion is reported; and
rows that went are owed a pass, since `be_app` is told of a deletion before the
window is.

**Database.** `DatabaseInv`: where `migrate` stands says what the file has
already; connection and disk differ only in the open transaction; the holder of
`conn_mu_` patches the document it read. It holds for a file of any of the three
versions, killed any number of times.

**Files.** `FilesInv`: a path stays the kind of node the project had there, a call
inside `atomic_write_file` holds a whole text and the mode its target must have, a
plan that was not made yet has no file and no writer, and one call only proposes
it.

**Commands.** `CommandInv`: the caller's place says what its child can be (before
`waitpid` without WNOHANG it is dead, before the answer it is reaped); the kept
output is a prefix of what was written; once the child is reaped and the pipe was
drained, its last byte has been read. The text of the answer goes through
`FlattenSeq`, a fold. That flattening a prefix gives a prefix of the whole, which
`CommandHonest` needs, is proved by the least length at which it would fail
(`WFMin` and `NatLessThanWellFounded`), not with the library's induction theorems.

**Tool batches.** `ViewInv` follows the worker through `run_calls`. A call of a
batch that is over has one result, stored before the next prompt of its session
(`CallSettled`), which is why `/retry`, cutting at a prompt, drops whole batches and
leaves no call without its result. Of the batch at work, the calls below the
worker's place have a result and the others have none (`CallInBatch`); a result
says "asked" only while the worker is in `ask_user` and is the session's last row,
so the reply that replaces it replaces no other; and a skip is final (`SkipsStay`).
Calls that were stored and left unrun, by the end of the turn or by a refused append
of a row, are of a step in `cut` and promise nothing.

**Rows and the window.** `TellInv` reads what the window shows, what waits in its
port and what the worker is about to announce as one sequence of events (`Now`).
An event is live when the window shows it or will accept it: it is about the
window's session and newer than the generation of the last load (`Fresh`). `Told`
says of the live events that each is about a stored row, that every stored row has
one, except the calls of the batch at work whose turn has not come and those of a
step in `cut`, that calls and the other rows come in the order of the store, and
that an event with another value than its row has the answer that replaces it
behind it, with no result in between: so the rewrite, which takes the newest result
of a call id, takes the right one although ids repeat. A step of the worker adds an
event where it adds a row (`ToldMore`, `ToldAnswer`), announcing moves it into the
port (`LinePublished`), the window takes it from there (`ToldShown`, `ToldRewritten`)
or drops what is not live (`ToldDropped`), and a load makes every announcement
under way old at once (`ToldLoaded`). With nothing on its way the live events are
the screen, which is `RowsCaughtUp`; that no row is told twice is `RowsOnce`.

**Compaction.** `ContextInv`: rows are in the order of their ids; a checkpoint stops
before a row that was there when it was made, and that row is no tool result, so
no exchange is split. `/retry` keeps only checkpoints older than the prompt it cuts behind, so
that the row behind their boundary stays; completed checkpoints, later ones further
on, cover every row below their boundary; and the compaction at work carries what
the checkpoint before it covered and the older rows, so that after one pass, two
passes, a correction or the fallback each of them is told or is in `lost` (`JobOK`). A crash
or a throw of the store leaves a pending checkpoint, which no reader takes. What
`SplitHistory` and `Middle` choose is described by least and greatest numbers. In
a batch, an open question is the question of the call whose turn it is (`AskInv`).

**Assumptions.** Only those the modules declare, each justified by the code: names
for "nobody" are no member of the set they stand out from (`RunnerAssumption`,
`BrokerAssumption`, `CodexAuthAssumption`, `LifeAssumption`), bounds are numbers,
a database found at the start is one an earlier version of `migrate` left
(`OldFilesAssumption`), the rules of `PermissionsAssumption` and the documents of
`DocAssumption` are ones the parser can return and the global file does not start
with providers of the project, and in `FilesAssumption` a link leads to a file
that is no secret and plan names are distinct and new, and in
`CompactionAssumption` the ids of tool calls are strings. TLC evaluates each on every
run of its module.

**Also proved.** The type invariants (`...TypesHold`, stating the `...TypeOK` of
each module), `Ceiling`, `StoppedHasNoneOpen` and `ResolvesOnce`; the last three
are stated in their modules and no run repeats them.

**Model-checked only.**

* Liveness (`DeleteEnds`, `ShutdownEnds`, `InterruptStops`, `QueuedRuns`,
  `CancelReleases`, `TurnEnds`): fairness and ENABLED are outside the prover.
* `RequestFaithful` of `Compaction` and `WireFaithful` of `WireFormats`. They say what
  a whole sequence is after it was folded or translated row by row, and each such
  operator needs its own argument by least counterexample, as `FlattenSeq` has one
  in `ToolsProofs`. None is known to be out of reach.
* `TextTold` of `TranscriptView`: `TellInv` speaks of rows; whether a queued delta
  will be accepted depends on the step announcements queued before it.
* `ServicesTypeOK`, which only puts the type invariants of the parts together.

## Findings

Shown by a violation run:

1. `delete_session` can wait for ever: it answers the questions open when it
   looks, and a worker already past its flag check registers one afterwards
   (`DeleteAskHangs`).
2. Two overlapping `delete_session` calls for one session break the rule "Rows
   go last": `RowsAlwaysLast` (`OverlappingDeletes`).
3. After a settings or directory change the engine has no permission broker:
   stopping a run leaves its approval open, and `be_app` can join a run whose
   approval window it would have to answer; only the Permissions center, which
   resolves on its own thread, can still release it (`StopAfterReplace`).
4. The sweep `cancel("")` raises flags but never reaches the transfers, so
   shutdown waits for a silent server's stall time-out (`SweepReachesTransfers`).

Stated as a definition of the module and met while modelling; adding the name to
a configuration of that module (INVARIANT, or PROPERTY for `PolicyStays` and `CorruptLeftAlone`) gives
the counterexample:

| Definition | Module | What happens |
|---|---|---|
| `BlocksOfOneAttempt` | `TurnLoop` | a request that failed after a signature-only thinking block is sent again, and the row keeps the blocks of both attempts |
| `EveryCallAnswered` | `TranscriptView` | an answer with calls that ends with `max_tokens`, or a body that ends early, is stored and its calls never get a result |
| `OlderOmitted` | `Compaction` | the cut of a prompt that does not fit says "older content omitted" and omits the newer |
| `EngineOutlivesCenter` | `AppLifecycle` | the engine is destroyed while the Permissions center is inside a call of it |
| `LastToggleStays` | `Permissions` | a toggle of the center writes back an older copy of the row over a flag set in the main window (two sessions, four clicks) |
| `ApprovalDelivered` | `ReviewWindows` | a full port refuses an approval that was reported as delivered, or the decision on it |
| `StepNotBehindCompaction` | `TurnLoop` | `continue_session` inherits the compaction step of the turn before, and automatic compaction waits until the new turn catches up |
| `BytesOnce` | `TranscriptView` | a step that starts, streams and is stored between the relay switch and the load is shown twice: its queued announcement moves the window back to it. `TextTold` speaks of loads that leave no such announcement |
| `NoDormantFlag` | `Permissions` | a preset chosen just after a switch out of Build is stored and arms at the next switch back |
| `QuestionShown` | `ReviewWindows` | a session out of view asks, and no dialog ever shows the question |
| `NoProjectValueInGlobal` | `ConfigDocuments` | settings are filled from the merged configuration and saved to the global file |
| `WithheldWasAsked` | `ConfigDocuments` | a reload after a save withholds changed project keys without asking |
| `PolicyStays` | `ConfigDocuments` | a save that read the file before a policy was saved writes it back without |
| `GuardFreed` | `Compaction` | the store throws inside `compact_history`, and the session never compacts again |
| `KeepsAlone` | `TitleJobs` | housekeeping runs beside a cancelled title job that a delete has taken off the list |
| `CutIsReported` | `Subprocess` | output that grows past the cap when its bytes are made UTF-8 is cut without a mark |
| `CorruptLeftAlone` | `SessionDatabase` | a session document that does not parse is replaced by one that holds the patched field only |

Smaller observations, not stated as properties: a cancel of one stream beside
another only raises its flag, and keep-alive comments do not reach the callback
that reads it; the ChatGPT stream reports a sign-in failure after its own cancel;
the engine retires the project's newest active plan whichever session finished,
and two proposed plans share one remembered path; "a stale result cannot
overwrite a newer session title" (docs/sessions.md:176) compares titles by value,
so a title that left and came back passes; a prompt typed without any session is
lost if none can be made, and one submitted during shutdown is dropped; `grep`,
`diff` and `process` do not look for exit -1, so a command that could not be
started or that a signal killed is a success to them; a filtered process list
drops the line that says it was truncated.

## What is not modelled

* Text: glob matching, shell and git command lines, JSON, SSE framing below the
  blank line, markdown, diffs, prompts and their wording.
* `set_mode`'s notices, the fallback vision provider's stream, and what the
  reading, listing and web tools do: they change nothing.
* A command that writes without a pause: the drain then looks at neither the
  flag nor the deadline, and how long that lasts is the scheduler's business.
* VACUUM and the free-space test, a database without a schema, usage and prices,
  skills, model catalogues; `codex_auth_clear`, which only a test calls.
* Two sessions on one file: the tools promise no isolation (see the hazard at
  `tools.cpp:826`). Plan files are changed only by the plan tools and the engine,
  and two plans never get the same millisecond.
* The parts of `MCServices` together: a crash in the middle of a delete, say, is
  a state of no module.

## Plan

Done: the session runner, the broker and its contract, the turn loop, the tool
batch and the transcript; permissions and review windows; configuration,
lifecycle, compaction, streams, sign-in, wire formats, files, titles, commands and
the session database.

Theorems to add, most important first:

1. `TextTold` of `TranscriptView`: `Told` for the bytes of a stream, where the step
   announcements in the port decide which deltas are live.
2. `RequestFaithful` and `WireFaithful`, with lemmas about their folds like those
   about `FlattenSeq` in `ToolsProofs`.

Models to add: set_mode's notices inside the runner, the fallback provider, and
the composition of a crash with deletes and compaction.
