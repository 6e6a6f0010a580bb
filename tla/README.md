# AI Mega App: a TLA+ verification project

TLA+ models of the AI Mega App repository, model-checked with TLC on small
instances and, for what matters most, proved with TLAPS for every value of the
constants. Paths below are relative to the repository (`src/` in PROJECT.json).

## The system

AI Mega App is a single-user chat harness over local language models. A FastAPI
process (`retired/app`) keeps chats in one SQLite database, routes each message to
a model served by llama-swap, streams the answer as server-sent events, and runs
background jobs that title and summarise chats. A TypeScript client
(`retired/ai-mega-app/web/src`) drives it. The active tree keeps the configuration
loader and the llama-swap configuration generator (`app/`), and a separate
service for durable claims (`pi-memory-service/`). All of the harness runs on one
asyncio event loop; every database call goes through `run_sync`, which hands it to
an executor thread under one lock, on one shared connection. So two coroutines
interleave at their awaits and nowhere else, and a step of the models is what the
code does between two awaits.

### Inventory

| Component | State | Operations | Interacts through |
|---|---|---|---|
| Rolling summary (`background/summary_runner.py`, `summary_coverage.py`, `summary_policy.py`) | `chats.summary`, the `summary` spans | `run_summary`, `coverage_verdict`, `trusted_covered_count` | messages rows; read by chat turns |
| Background queue (`background/queue.py`, `__init__.py`, `summaries.py`) | asyncio tasks, `_in_flight_summaries` | `submit`, `_execute` (two attempts), `stop` | called by `on_turn_complete`, drained by the lifespan |
| Chat titles (`background/titles.py`) | `chats.title`, the title feed | title job, `drain_title_events` | the answer stream's generator |
| Chat turn (`chat/turn.py`, `chat/api.py`, `chat/streaming.py`, `chat/orchestrator.py`) | rows of `messages`, the stream | `execute_turn`, `event_stream` | router, LLM client, queue, client |
| Chat history and context (`chat/history.py`, `chat/context.py`) | `chats`, `messages` | inserts, lists, `assemble_context` | turns, jobs |
| Router (`router/`) | none (configuration) | `route`, rules, classifier | LLM client |
| GPU apply (`gpu/api.py`) | llama-swap.yaml, `.bak`, `.tmp` | `POST /apply` | file system, llama-swap |
| GPU0 rewarm, warm-up (`gpu/rewarm.py`, `warmup.py`) | the pending activity, the loop's task | `mark_gpu0_activity`, `_rewarm_loop`, start, stop | turns, LLM client, llama-swap |
| Debug tracing (`debug/`) | `traces`, `spans`, one bounded queue per connection | `span`, `_persist_and_publish`, publish, the SSE tap | everybody; the debug page |
| Settings store (`settings/`) | overlay YAML | read, merge, validate, write | configuration; the settings page |
| Configuration, swap generator (`src/app`) | cached configuration | load, merge, generate | GPU apply |
| Client shell (`web/src/router.ts`, `store.ts`, `app.ts`, `views/composer.ts`) | the address, the store, the chat list | navigate, refresh, New chat, pick a model | every view, chat API |
| Chat view (`views/chat.ts`) | the closures of its views | mount, send, stop, regenerate, unmount | store, answer streams |
| Debug view (`views/debug.ts`, `api.ts`) | the page, its selection, its connection | mount, select, live spans, retry, unmount | the tap, the trace API |
| Settings view (`views/settings*.ts`) | panels with drafts and baselines | load, edit, apply, save, tabs | settings API |
| Pi memory service (`pi-memory-service/app.py`) | SQLite claims, tags, sources, FTS | batch upsert, tombstone, search | HTTP clients, threads |

What is hard, and what makes each part correct:

* **Rolling summary.** A job reads the prior summary, the rows and the coverage in
  three calls, asks a model for minutes, then commits the text and its span in two
  more; jobs of one chat may overlap, clocks step back, spans get lost. Correct
  means: a summary that is *trusted* stands for exactly the prefix it replaces, and
  no prompt silently loses a message.
* **Queue.** Markers, retries, cancellation and shutdown race each other. Correct
  means: no marker outlives its job, and nothing runs once the clients are closed.
* **Chat turn.** Everything may fail or be cancelled at every await. Correct means:
  exactly one terminal event, last; `done` implies stored; the answer shown is the
  answer kept; the hook runs once.
* **Memory service.** Threads on one SQLite file, batches, duplicates. Correct
  means: all or nothing, durable once acknowledged, one active claim per content.
* **GPU apply.** File operations, another process watching, overlapping requests.
  Correct means: never a torn file, and a rollback restores what was replaced.
* **Chat view.** Closures of unmounted views keep running. Correct means: the button
  stops the stream, one stream at a time, the screen shows its own chat.
* **Shell.** Mounts and requests of pages that were left write the store and the
  address of the page that is seen. Correct means: address, list and picker are
  those of the chat on the screen, and messages go out with the model picked for them.
* **Settings view.** An apply sends its rows one by one while the user edits on, and a
  tab clicked meanwhile makes a second panel. Correct means: only what stood there at
  a click is stored, and a row without a mark is the server's.
* **Debug view.** Answers, live spans, a lossy queue and a connection that breaks and
  is made again, over visits that end while they still mount. Correct means: the panes
  agree, nothing of a left visit runs on, and a stream is read to its end.
* **GPU0.** Turns swap servers, report it or not, and a loop pings the default back.
  Correct means: a reported swap is not forgotten, and failed pings are repeated.

PROJECT.json lists every component with its status and every hazard at its line.

## Modules

| Module | Models | Properties about |
|---|---|---|
| `RollingSummary` | the jobs and turns of one chat, and the rows they share | coverage |
| `BackgroundQueue` | the queue, the in-flight markers, shutdown | markers, drain |
| `TerminalStream` | *abstract*: what an answer stream promises (the golden rule of `chat/api.py`) | - |
| `ChatTurn` | `event_stream` around `execute_turn`; implements `TerminalStream` | events against rows |
| `MemoryStore` | the memory service's upserts and tombstones, statement by statement | durability |
| `GpuApply` | `POST /api/gpu/apply` and llama-swap's file watcher | files |
| `GpuSlot` | the server on GPU0, turns that swap it, the rewarm loop from start to stop | the loop's memory |
| `SwapGen` | *operators*: which server an alias stands for, as generator, warm-up and turns see it | their agreement |
| `ChatView` | the views, store and streams of one browser tab | the screen |
| `Shell` | the router, the store, the chat list, the model picker and its hydration | address, picker |
| `SettingsView` | the panels of the settings page and the overlay they write to | what is stored |
| `SettingsFields` | *operators*: the fields of a row, read, shown and read back | round trips |
| `DebugView` | the debug page, its connection, the server's tap | the panes, what runs |
| `SseReader` | `readSseStream`: one read after another, piece by piece, with breaks and aborts | the read stream |
| `SummaryPanel` | *operators*: `trigger_state` and the bar drawn from it | the bar |

`GpuSlot` extends `SwapGen`. `MCGpuSlot`, `MCSettingsView` and `MCDebugView` extend a
component and the operators that go with it: before anything has happened, one step may
choose an input for the operators (a configuration, a field, a chat), and that behaviour
ends there. `MCDebugView` has `SseReader` too, which shares nothing with the page: a behaviour
is of the page or of the reader. `MC<Module>` extends each with what its instances need. `<Module>Proofs`
holds a module's theorems; those of `GpuApply`, `GpuSlot` and `SwapGen` are in `GpuProofs`, those of
`SettingsView`, `SettingsFields` and `Shell` in `ClientProofs`, those of `SseReader` and
`SummaryPanel` with the debug view's. How state and actions correspond to the code:

* **RollingSummary.** `history` is `list_messages`' order (by second, then row id, so
  a clock stepped back inserts *before* the end); `summary` is the column; `newest`
  the newest span, the only one `_latest_summary_data` reads; a text is the set of
  messages it was made from. Each `job` walks `run_summary` (`StartJob` reads the
  summary, `ListMessages`, `ReadCoverage`, `PickTarget`, the model's answer, the two
  commits); each `turn` walks the reads of `_request_completion`. A job cancelled
  inside `set_summary` leaves an orphan: `run_sync` does not stop its executor call.
  Fingerprints are compared as the values they are hashes of.
* **BackgroundQueue.** A task is `created`, runs attempt 1 or 2, or is gone.
  `SubmitSummary` tests and sets the marker; a job's own `finally` discards it after
  *every* attempt, which is what the code does and what makes overlap possible.
  `BeginStop`, `DrainTimeout`, `CancelTask`, `StopReturns` follow `stop`; `Restart`
  is a process end and start.
* **ChatTurn.** `rows` are the messages by row id, each stamped with the second in which
  it was inserted (`at`); `Before` is `list_messages`' order, by stamp and then row id.
  `SetClock` moves the wall clock, forward or back; `setBack` is history: the turns during
  which it went back. `pc` names the await a turn stands at. Each database call returns or
  raises, at the statement or at the commit. `Disconnect` cancels the turn where it
  stands; `PersistPartial` is the `finally` block; `Fallback` is `event_stream`'s own
  synthetic error.
* **MemoryStore.** `db` is what is committed, `work` the one writer's copy, `writer`
  SQLite's write lock, which Python takes at the first INSERT or UPDATE and not at
  the SELECT before it. `Commit` and `Respond` are two steps: a crash or a client that has
  gone between them leaves the batch stored and the request `lost`. A claim's content key and its requests stand for
  normalised text, tags and sources.
* **GpuApply.** A file is named by the configuration it holds, or is `Torn`.
  `StopsAt` is what an OSError or a crash leaves after each file operation of the
  write section, which has no await. llama-swap's `Reload` comes at any time.
* **ChatView.** `view[v]` is the closure made by `createChatView` for the v-th
  navigation; `Mount` unmounts the one before. `turn[t]` is a call of `send` or
  `regenerate`, which goes on in its view whatever is on the screen. The aborted
  continuation of `stop` runs to its end before the next event.
* **Shell.** `view[v]` is a navigation with the stages of `mount` (`health`, the list,
  `history`) and of `ensureChat`; a `post` is a pick on its way, a member of `lists` a list
  that the server has made and the client has not seen. `disturbed` is history: the user
  has left a page that was still at work. `ClickNewChat` and `OpenNewChat` are the two
  ways to the New chat page.
* **SettingsView.** `panel[p]` is the closure of one panel: `drafts`, `baseline`, the
  rows still to send; `host` what is in the page's element, `shown` the panel that can
  be clicked. `UpdateModel` and `UpdateRouting` are the server's handlers, an `Answer` its
  answer or a failure. `clicked` and `hasty` are history: what stood in the page at a
  click on Apply, and whether the user has clicked while something was under way.
* **DebugView.** `spans` are those that have ended, `published` those the bus has put into
  queues, a full queue losing its oldest. `mount`, `asks` and `statusAsks` are what pages
  wait for, including pages that were left; `running` the views whose connection loop
  and timer exist. `Connect`, `Break`, `Retry` and `Deliver` are the live connection.
* **SseReader.** A block travels as two pieces, its lines and the empty line, and the
  pieces stand for the text: `arrived` of them have come, `buf` are those not handled yet,
  in chunks of any size (`Arrives`). `reading` is where the loop stands: at the test of the
  signal (`Check`), in `reader.read()`, in the loop over the buffer (`HandleBlock`,
  `NoBlock`), or the value returned. `handled` are the calls of `onEvent`. A callback that
  raises is not modelled.
* **GpuSlot.** `pending` is the age of the activity in minutes, `loop` where
  `_rewarm_loop` stands, `same` whether the stamp is still the one it has read.
  `mark_gpu0_activity` is called from `Delta` as `_stream_completion` does. llama-swap
  (`slot`, `Load`, `Unload`, `Reload`) is external: it swaps when the old server has
  nothing to answer, and a reload of its file stops everything. `reported` is history.

## Runs

| Run | Expect | Shows |
|---|---|---|
| `summary` | pass | two overlapping jobs, a turn, two rows, clock steps, lost spans, restarts: a trusted summary covers its prefix, prompts lose nothing, an undisturbed job's summary is trusted |
| `queue` | pass | two chats, three tasks: markers, drain, cancellation; markers are released and `stop` ends |
| `turn` | pass | two turns, or one turn and a clock that is set, failure and disconnect everywhere: the golden rule, what is stored and in which order it is listed, and that every accepted turn ends |
| `turn_duplicate` | violation | an answer is stored twice |
| `memory` | pass | three requests with batches of up to two of two contents, tombstones, failures, crashes, lost answers: all or nothing, durable, unique, findable, stable ids |
| `gpu` | pass | one apply at a time, repeated, three configurations: whole files, the right `.bak`, rollbacks that restore it, every apply answered |
| `slot` | pass | two turns at a time, four models, reloads, failing pings, restarts: a reported swap is remembered, pings are repeated; over every list of three models, generator, warm-up and turns agree on the servers |
| `view` | pass | two existing chats and the New chat page, two messages, three views: the stop button, one stream at a time, each view its own chat |
| `view_stuck` | violation | a view that says it is streaming when nothing is |
| `settings` | pass | visits, tabs, edits and failures while an apply runs: only what was clicked is stored, clean rows are the server's, buttons come back, fields keep their values |
| `debug` | pass | two visits, two spans, two requests, a queue of one, breaks: the panes agree, nothing runs unseen, the reader is left alone; every stream of up to three blocks, cut, broken and aborted anywhere, is read whole; for each chat (with and without usage data, context sizes, a summary in flight, a queue) the bar, the badges and what the server submits |
| `shell` | pass | navigations, picks, a first message, late lists: the address and `activeChatId` name the chat, the label is what is sent, a first message has its pick |

A type invariant is not an invariant of these runs: it is proved, for every state machine
(`TypeOK`; `ShellTypeOK`, `SlotTypeOK` and `ReaderTypeOK` in `Shell`, `GpuSlot` and `SseReader`). `MCTurnLong.cfg` is the
instance of `turn` with answers of two tokens and without fairness.

### Bounds, and why they are enough

* `Job`, `Turn`, `Task`, `Request`, `Apply` are *slots* of concurrent actors: two of
  them give every pairwise race. `RollingSummary`, `BackgroundQueue` and `GpuApply`
  reuse their slots, so a run is not bounded in the number of jobs, turns or applies.
  Three tasks are what it takes for a retry beside a new job beside a third that
  the lost marker lets in. Three memory requests are a creator, a repeater and one
  that comes after a tombstone.
* Two messages of `summary`: a prefix of one and the row after it, or inserted before
  it; a second generation rolls the first one's text up. Longer chats, blank rows and
  the fallback target are the proofs' (the three properties hold for every
  `Msg`, `Blank`, `Targets`); with two jobs they are beyond a few minutes of TLC.
* `Stamp` = {1, 2}: spans earlier, at the same time, and later.
* `MaxTokens` = 1 in `turn`: nothing shown and something shown, each with every way to be
  cut short. `MaxTime` = 1: two readings of the clock, so that a row is stamped before, with
  or after another. Beside a second turn the clock stands still (`OneTurnOrClock`); the
  theorems have both. Turns are interchangeable: only behaviours whose first row is not
  the second's are looked at (`SecondIsNotFirst`). `MaxClaims` = 2: a failure after the first claim of a batch.
* Three `Config`s: enabled or not, residents or not, and two different ones to
  replace each other.
* `MaxViews` = 3 is one that streams, one that still loads and one on the screen. The
  third chat is the one `createChat` can make; a second message on the New chat page
  then waits for a chat, or fails.
* `settings`: one row (the state of a row does not depend on its neighbours'; which row is
  sent next does, and is the proofs'), two panels, one that is seen and one at work.
  Visits are not bounded: a panel's slot is free when its requests are answered.
* `debug`: a trace of a chat and one of a background job; two spans, which may share a
  trace, and the same id when neither could be stored; `MaxQueue` = 1, so that the second
  span drops the first. Three blocks give a stream with something before and after its
  terminal event, two of them in a chunk and a third cut off; reads are not bounded; `MaxTokens` = 420 is past the threshold
  of every context size and past `Flat` = 300, the threshold where none is known.
* `shell`: one chat there is and one that is made, two views, one list and one pick on
  their way. A third view would be a second one that was left.
* `slot`: a default, its alias, another model for GPU0 and one on the CPU; `Threshold` = 2
  minutes. Lists of three models have every pair of aliases beside another server.
* The summary, queue, memory, GPU, shell and slot instances have no deadlock. `turn*`,
  `view*`, `settings` and `debug` switch the check off: turns, navigations and visits are
  used up, and a user may leave a page for good.

### Fairness

Weak fairness of the steps of a process that has begun, and nothing else.
`BackgroundQueue!Fairness`: the event loop runs every task, an attempt ends because
the model call under it has a timeout, and `stop`'s own timer fires.
`ChatTurn!Fairness`: database calls return or raise, and the model answers, fails or
times out (`first_token_timeout_s`, the HTTP client's timeout). `GpuApply!FairSpec`:
the health poll has a deadline, the pings and status queries have timeouts, and
there are three attempts; llama-swap need never reload.
`SettingsView!Fairness`: every request of a panel is answered or fails. `GpuSlot!Fairness`:
time passes, the event loop runs the task, and a ping is answered or fails, the client
having a timeout. No fairness of users,
submissions, crashes, restarts or of the outcome of a choice is assumed.

## Proofs

All theorems are checked by TLAPS (Z3, Zenon, LS4) from the constants' named
assumptions (`SummaryAssumption`, `TurnAssumption`, `GpuAssumption`, ...), so for any
number of messages, jobs, requests and tokens.

* `RollingSummaryProofs`: `SummaryInv` is inductive. `TrustedSummaryCoversPrefix`
  alone is not: the newest span may be believed only because it was written by a
  job that read enough, so the invariant says of every span that it is *sound*
  (the rows of the prefix it claims went into the text it describes), and of every
  job what the coverage it read was worth. A span's soundness speaks of the rows
  the job saw and the text it wrote, never of the current ones, so no later insert,
  commit or restart disturbs it; trust compares both with the present. The converse,
  `RecordedIsTrusted`, is an undisturbed job's: the span is the newest, and the rows it
  counted are still the prefix.
* `BackgroundQueueProofs`: `MarkerInv` strengthens `MarkedChatHasTask` to a job on
  its *first* attempt: the second runs unmarked, and would be no witness, for when
  it is the only job the marker is gone.
* `ChatTurnProofs`: types, and `GoldenRuleHolds`: every step of a turn maps to a step
  of `TerminalStream` or to a stutter. The invariant says where a stream stands once
  its terminal event is out. `KeptInv` is the other half, about rows: from the point
  where a turn has read its prompt its question is in them, from the point where it may
  say `done` its whole answer is too, and `on_turn_complete` has been called as often
  as the program counter says. `DoneMeansStored` and `JobsHearOnce` follow. That the
  answer is *listed* after the question needs the stamps: while the clock has not been set
  back under a turn it reads no less than the question's stamp (`ClockKeeps`), and
  an answer of the same second is after it by its row id. `ShownIsKept`
  counts the tokens of the sequence that was sent: each append adds the one that the buffer
  gets (`Counted`), and an answer once written stays what it was (`AnswerStays`).
* `MemoryStoreProofs`: `MemoryInv` says that `work` extends `db`, that both are
  sound, that neither has a trace of another request that has not committed, that a
  committed one has its whole batch in `db`, answered or not, and that what an
  upsert has found is still there when it writes (ids are never deleted). Durability,
  atomicity, uniqueness, searchability and the stability of ids follow.
* `GpuProofs`, applies: for any number of requests that do not overlap (`Spec /\ []Serial`;
  with overlap it fails, see below) whole files, and the `.bak` is what was replaced while
  a request polls. `Advances` is what every step of a request has in common: only the write
  section starts a poll and only a poll's end rolls back. However requests overlap, types
  hold and `OnlyRollbacksTear`: no write, failure or crash tears the file by itself.
* `GpuProofs`, names: for every list of models. `Canonical` is a loop of the generator with
  a dictionary in it, a recursive function in `SwapGen`; what it computes is found without
  induction over the list: if some prefix broke the claim there would be a shortest one
  (`LeastNumber`), and the prefix before it has all that the step needs (`NamesGrow`).
  `CanonicalIs` says that a file and device is named after its first resident entry, or
  else its first entry, from which `ServersAgreeAlways` and, where one file is on one device, `TurnsAskTheServer` follow.
* `GpuProofs`, the slot: `Remembered` is `SwapIsRemembered` and two facts: what is on GPU0
  and reported is not the default's server, and once llama-swap has served a ping and the
  stamp is still the one the loop has read, nothing is reported. The second is what makes
  forgetting safe, the first what makes a served ping establish it. The theorem assumes that
  the default model is one of GPU0, as `config.yaml:32` has it; without that it is false.
* `ChatViewProofs`: `ViewInv` relates three things that the properties take for granted:
  every mounted view is the last (`ViewsAreMounted`), a view's messages are of its page
  (`MessagesAreOfThePage`), and its controller belongs to the turn it shows (`StopIsLive`,
  `AbortIsOwn`). `OneStream` adds what the store tells the next view.
* `ClientProofs`, the settings page: what an apply still has to send was clicked
  (`SentWasClicked`), however many panels there are; panels stand where they were drawn
  (`PanelsArePlaced`); and for a user who waits the baseline is the server's (`WaitingUser`).
  `FieldsAlwaysKeepTheirValues` is about any number of devices: an option's place in the list
  is the number of smaller devices, which counts them off (`InOrder`, by the pigeonhole facts
  about finite sets), so each is offered, once.
* `ClientProofs`, the shell: a type invariant that also says that every chat a view, a list
  or the store names is one of the server's (`KnownChats`), without which a late list could
  take the chat on the screen away; and `Patient`: until the user has left a page at
  work, only the view on the screen works (`NobodyElseWorks`), and what is shown of it is
  `Settled`. Each part says *when* the address, the label or the pick may stay behind:
  while the chat is being made, while a pick of this view is posted, never. The three
  properties are the states in which nothing may. `AddressIsRight` is about the address and
  `activeChatId`; that the list has an entry to mark is not proved, as it does not hold.
* `DebugViewProofs`: `DebugInv` says that answers and queued spans on their way are true of
  the server (`InFlightIsTrue`) and that a page shows nothing before its list
  (`NothingBeforeTheList`); the agreement of the panes needs both. `DueBarIsAlwaysFull` is
  arithmetic: where `Math.round` reaches 100, for any threshold, be it of the smallest context
  or the flat one, and any number of tokens; and what `maybe_enqueue_summary` and
  `_submit_summary` ask beside the trigger, against the two badges.
* `DebugViewProofs`, the reader: `StreamIsReadWhole` speaks of what came and what was handled,
  not of the buffer between them, and is not inductive. `ReaderInv` finds the number of blocks
  behind the reader (`At`): the buffer has just the pieces after them, so that its first empty
  line is its second piece (`NextBlock`), the blocks told of are just those with data among
  them, and `terminal` is a terminal event among them, if there is one. `Outcome` says that
  what was returned and told is what `terminal` says. Streams may be of any length.

Every safety invariant and action property of the passing runs is a theorem. Only
model-checked: liveness (`MarkerIsReleased`, `StopEnds`, `TurnEnds`, `ApplyEnds`,
`ButtonsComeBack`, `PingComes`), since fairness is out of the prover's reach; and the two
violated statements.

## Findings

1. **An answer can be stored twice** (`turn_duplicate`, `chat/turn.py:195`): `touch_chat`
   fails, or the client leaves, between the insert and `persisted`.
2. **Chat view** (`view_stuck`, `views/chat.ts:67`): a view mounted during a
   background stream stays in `streaming` after it: it can neither send nor stop.

## Statements that fail

What the models show beside the runs. A statement named here is kept in its module;
where a configuration is named, TLC violates the statement with it.

* `SingleFlight` (`BackgroundQueue`, `MCQueueSingleFlight.cfg`): every attempt of a summary
  job discards the marker (`background/summary_runner.py:106`), so a retry runs beside a
  new job. `RollingSummary` shows that coverage stays sound; the cost is duplicate work.
* `OldestFirst` (`ChatTurn`, `MCTurnOldest.cfg`): "oldest first" (`chat/history.py:71`) is
  by wall-clock seconds, so with the clock set back between the two inserts of a turn its
  answer is listed, and put into the next prompt, before its question.
* `TagsAreMerged` (`MemoryStore`, `MCMemoryTags.cfg`): tags read before the write lock are
  written back after it (`pi-memory-service/app.py:165`), so that of two repeats of a claim
  one loses its tags.
* `RollbackRestoresPrevious` with two applies (`GpuApply`, `MCGpuOverlap.cfg`): they share
  one `.bak` (`gpu/api.py:131`), and each writes the configuration it read before its
  first await. Nor does `SwapIsWhole` hold then: a copy that fails leaves half a `.bak`, which
  the other apply's rollback puts back. Also: an apply answers `ok` before llama-swap has read the new file
  (`Healthy` does not wait for `Reload`, `gpu/api.py:140`), and "rolled back" when nothing
  was (`PollTimesOut`'s second alternative, `gpu/api.py:147`).
* `EverySwapIsRemembered` (`GpuSlot`, `MCSlot.cfg`'s constants): an answer that had the
  loading warning is never reported (`chat/turn.py:133`; a test wants it so), and a slow
  first token is what a swap looks like. The default is then not brought back.
* `SwapIsRemembered` (`GpuSlot`) when the default model is not on GPU0: a ping then gives
  GPU0 to nobody, the activity is forgotten all the same and the swap stays
  (`gpu/rewarm.py:70-71`; the reason for the hypothesis of `SwapsAreRemembered`).
* `PingsWhenIdle` (`GpuSlot`): activity is stamped at the first delta, so a long answer
  can be pinged into. The ping then waits for it, or takes its own timeout.
* `AsksItsServer` without `OneDevicePerFile` (`SwapGen`): `_canonical_swap_name` (`chat/orchestrator.py:77-89`)
  keys on the file alone, what `swapgen.py:99-100` warns of; `utility-gpu`, were it enabled,
  would be answered by `utility`. The rewarm loop in turn pings `defaults.chat_model` by
  its own name (`gpu/rewarm.py:60`): if that is an alias of another entry, every ping fails.
* `CleanMeansStoredAlways` (`SettingsView`): when an apply is done the drafts of *now*
  become the baseline (`views/settings_models.ts:212-213`), so a row edited meanwhile
  loses its mark and is not sent ("Edits stay draft until Apply.", :121). Also: an intent
  that is taken out of the map comes back, as the server merges (`settings/store.py:135`).
* `AddressIsOfThePage` (`DebugView`): a visit that is left while it mounts may still write
  its address (`views/debug.ts:457`).
* `DueIsEnqueued` (`SummaryPanel`): the panel's comment says that "will it trigger" can never
  drift from what happens (`views/debug.ts:82`), and the endpoint that it tells whether the
  next turn "would enqueue a regen" (`debug/api.py:121`). While a summary of the chat is in
  flight it stays marked as due and nothing is submitted (`background/summaries.py:53`);
  where there is a bar, "running" stands beside the mark, without usage data it does not.
* `DueIsNextTurn` (`SummaryPanel`): without usage data a summary is due by the number of
  turns (`background/summary_policy.py:118-119`), which the status counts before the turn
  to come: the badge is on the turn that has set the summary off, not on the one that will.
* `ChatStaysListed` (`Shell`, `MCShellListed.cfg`): a list that was asked for before a chat
  was made and comes after the one `ensureChat` waited for takes the chat on the screen out
  of the list again (`app.ts:42`, `views/chat.ts:36`), until the next list.
* `PickerShowsRow` (`Shell`, `MCShellPicker.cfg`): the picker is set from the store's list,
  which a pick does not change (`views/chat.ts:510`). The label of the New chat page is
  built before `mount` resets the override, and stays, which is why `LabelIsSent` is about
  chats; and after leaving a page that still loads, its continuation sets the override
  of another chat, which is why the properties of `Shell` have `disturbed`.
* In `ChatView`: a completed answer that the revisited chat does not load and a message
  sent during `loadHistory` that loses its bubble (`StreamEnds`, `HistoryArrives`); two
  clicks on the New chat page create two chats and two streams, of which the stop
  button reaches one. That is why `StopReachesTheStream` and `ScreenShowsItsChat` speak of
  views opened on a chat, and `OneStreamAtATime` of a tab that has not been on that page.

Read in the code beside the models: after an error the hook runs before the partial
answer is stored (`chat/turn.py:209`); `new_trace` commits outside `run_sync`'s lock
(`debug/trace.py:95`); a late `getTrace` answer takes live spans out of the waterfall; the
back-off of the live connection starts again with every connection that opens
(`api.ts:310`); picks are posted without waiting for one another.

## What is not modelled, and the plan

Abstracted on purpose: prompts, texts and token arithmetic (sets of messages and
three outcomes of assembly); HTTP encoding; a configuration that is changed while GPU0's
slot is at work (`GpuSlot`'s `Models` is a constant; `GpuApply` has the change itself); the schema and migrations; the
trigger of a summary (a job may be submitted at any time); rendering.

Not modelled: the GPU inventory (parses a tool's output, keeps nothing), the offline
scripts, the service units, and the packages that exist only as documents. Most of the
repository's JavaScript is not the program's own source: `docs/support.js` and
`docs/design_example.js` are the generated runtime of a design document, twice, and
`web/js` is the compiler's output of `web/src`. The models are written from `web/src` and
the Python sources, and no lines are claimed for the others, which keeps the share of
mapped lines low.

Left in the plan, in order of importance:

1. `Titles`: the title job's read, generation, write and announcement, with
   `BackgroundQueue`'s two attempts and the order of the hook after an error.
2. Operators: `Router` (precedence of rules, classifier and fallback) and `ConfigMerge`
   with the settings store's read-modify-write and validation.
3. Proofs: what the slot of GPU0 keeps when the default model is not one of it.
