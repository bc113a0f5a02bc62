# ai-relay: a TLA+ model, its checks and its proofs

ai-relay accepts prompts over HTTP, queues them in SQLite and in memory, and has
them answered by a pool of workers: browser tabs driven through a webbridge
daemon, CLI and ACP agents, and OpenAI-compatible APIs. This directory models the
part that decides *which task runs where, when, and how often*, checks it with TLC
and proves part of it with TLAPS. Line numbers refer to the files under `src/`.

## 1. Inventory

Everything runs in one asyncio event loop. Code between two `await`s is atomic; the
difficulty is what happens across them.

| Component | State | Operations | Interacts with |
|---|---|---|---|
| `store.py` TaskStore | record objects by id, recent history | create, `mark_*`, `request_cancel`, `start/update/finish_attempt`, `list_recoverable`, sweep | writes through to `db.py`; called by everybody |
| `db.py` SQLite | `tasks`, `task_attempts`, `task_events` | upsert, idempotent create, `recover_unfinished`, due rows, metrics, prune | the store, the router (metrics) |
| `pool.py` TaskQueue, WorkerPool | bounded deque of record objects, `_queued_ids`, worker list, dispatcher task | submit, enqueue, dispatch pass, recovery pass, retry, cancel, start, stop | store; workers by `start_task`, workers back by `on_retry` |
| `worker.py` Worker (browser) | `state`, `current_task_id`, run task, recover task, a tab | start, `run_task`, `_execute`, `_rebuild_tab`, `_recover_loop`, cancel, stop | adapter; store; pool by `on_retry` |
| `external_workers.py` CLI, Cursor ACP, OpenAI | as above, a child process, an ACP session, or an HTTP client | start, `run_task`, `_execute` of each kind, cancel, stop | store; `acp_protocol.py` |
| `acp_protocol.py` AcpConnection | child process, pending futures, reader and writer | request, begin_request, close, reader loop | CursorAcpWorker callbacks |
| `adaptive_router.py` | none (reads metrics) | rank, choose, score | pool |
| `sites/*`, `webbridge.py` | none | new_chat, ensure_model, send_prompt, poll_once | browser worker |
| `main.py` | app state | submit, cancel, retry, read-only endpoints, lifespan | pool, store |
| `instance_lock.py` | `flock` on a file | acquire, release | lifespan |
| `response_contract.py` | none | prompt suffix, JSON Schema validation | store (`mark_done`), worker |
| `config.py`, `schemas.py`, `discovery.py`, `static/`, `install.sh`, `run.py` | static data, mDNS publisher | parsing, publishing | - |

What is hard here, and what correctness means for each part:

* **Store and queue.** The store keeps one object per task, the queue keeps references
  to objects; recovery and idempotent resubmission replace the store's object. Correct:
  a queued cancel or a new deadline is obeyed, an outcome is not overwritten, attempt
  numbers are unique, a crash loses nothing that may be repeated and repeats nothing
  that may not.
* **Queue and dispatcher.** Four paths enqueue the same task. Correct: at most once in
  the queue, at most one worker per task, bounds and caps hold, everything that waits
  is resolved.
* **Workers.** Exceptions, timeouts and cancellation arrive at every `await`, also
  inside exception handlers. Correct: every exit of `run_task` marks its task and frees
  the slot; a prompt that may have been sent is not sent again; an idle tab is clean.
* **ACP, CLI and API back ends.** Late messages of an old session, dead reader loops,
  full pipes, orphaned children.
* **Router.** A well-defined choice for every metric, caps and allow-lists respected.
* **Lock and lifespan.** One dispatcher per database.

`PROJECT.json` lists the hazards line by line, with the properties aimed at each.

## 2. Plan

Built, in the order of what can do most harm:

1. `TaskLifecycle` (what a client is promised), `Relay` (records, queue, dispatcher, API,
   coroutines, process), `RelayRefinement` (Relay implements TaskLifecycle), `MCRelay`.
2. One module for each part that Relay takes for a single step: `CursorAcp` and `AcpCli`
   (the two external workers with a process of their own), `TaskStore` (memory and
   transactions), `AnswerPoll` (the poll loop), `Router` with `MCRouter` (the choice of a
   worker), and `Lifespan` (processes around all of it).
3. Proofs: `RelayProofs` (types, ownership) and on top of it `PromiseProofs` (attempts, promises)
   about `Relay`; `LifespanProofs`, `AnswerPollProofs`, `TaskStoreProofs`, `AcpCliProofs`,
   `CursorAcpProofs` and `RouterProofs`, each about the module it is named after.

The modules are kept apart because their product is out of reach. They meet at interfaces
that both sides model: an outcome of `AcpCli`, `CursorAcp` or `AnswerPoll` (done, retry,
failed, unknown, cancelled) is one of the ends `Relay` lets an attempt have; a store
operation of `Relay` is a whole call of `TaskStore` in which nothing fails; a target that
`Relay` picks freely is one that `Router` can draw; a restart of `Relay` is a `Boot` to
`Start` of `Lifespan` with one process.

## 3. The modules

### Relay

| Variable | Code |
|---|---|
| `task` | `TaskRecord` and its row: `status`, `cancel_requested`, whether `queue_deadline_at` has passed (`late`) and `next_attempt_at` is ahead (`wait`), `retries` |
| `attempts` | the `attempt_number`s in `task_attempts` |
| `queue`, `entry` | `TaskQueue._items`; `entry[t].own` says that the queued object of `t` is not the store's any more, with what it then still shows |
| `disp`, `rows` | the dispatcher between `asyncio.sleep`s, and the rows its recovery pass has left |
| `wstate`, `cur`, `pc`, `kill` | `Worker.state`, `current_task_id`, the `await` at which `run_task` is suspended, a `Task.cancel()` not yet delivered |
| `up`, `restarts` | the process |
| `dirty`, `sent` | observation only: an old page may still generate; the prompt was clicked or confirmed and its answer is not known |

An action is the code between two `await`s. A dispatcher pass contains none, so while
`disp # "sleep"` only time passes or the process dies; the pass is still split into
single decisions, in the order of the code. `_on_retry_needed`, `_enqueue_existing` and
the store operations are operators used inside the actions that call them. A stage of
`pc` is a group of `await`s that behave alike under every event the model has:
`opening` (new chat), `configuring`, `sending` (before the click), `clicked` (after the
click, before it is verified), `generating`, `rebuild_retry` and `rebuild_finish` (an
exception handler inside `_rebuild_tab`, before `on_retry` or after the task has been
marked), `dead` (cancelled before its first step). `Task.cancel()` sets `kill`; the
coroutine gets its `CancelledError` when it is next stepped.

Left to nondeterminism: which eligible target the router picks; which exception ends an
attempt; whether a worker starts ready or degraded. Left to other modules: database writes
that fail, what an attempt row says and the removal of old records (`TaskStore`), the choice
of a worker (`Router`), the poll loop (`AnswerPoll`), a second process (`Lifespan`). Definitions introduced as `Mutant:` are faulty variants of the
definition that follows them; no action uses them.

### TaskLifecycle and RelayRefinement

`TaskLifecycle` has three variables for one task (`status`, `retries`, `sent`) and no
queue, worker or process. `Repeat` is the promise that matters: an automatic new attempt
stays within the budget and never follows a confirmed prompt without a known answer.
`RelayRefinement` instantiates it for each task; `KeepsPromises` says that the mapped
initial state and every mapped step are allowed.

### MCRelay

Deployments for the runs: one target or two, and which tasks
may go where.

### CursorAcp

Independent of `Relay`: it opens up what `Relay` takes for one step of an external slot,
`_execute` of the `cursor_acp` worker over its `AcpConnection`.

| Variable | Code |
|---|---|
| `stage`, `fut` | the `await` at which `_execute` is suspended, and the state of the future it awaits there |
| `attempt`, `timer`, `verdict`, `outcome` | the attempt; whether its `asyncio.timeout` may still fire; what it will end with while it still cleans up; what it ended with |
| `sid`, `parts`, `count` | `_session_id`, `_response_parts`, `_sessions_created` |
| `conn`, `pending`, `reader`, `canClose` | `_connection` and its `_closed`, `_pending`, whether `_read_stdout` runs, `agent_capabilities` |
| `agent`, `jobs`, `said`, `out` | the process; requests it has got; chunks it wrote; its stdout |
| `strays`, `prompted` | observation: processes nothing refers to; the agent has got the prompt |
| `faults`, `stopping` | crashes and illegal lines so far (bounded); `stop` was called |

The two coroutines are `Execute` (the worker, with `Begin`, `Cut` and `Stop` from
outside) and `Reader`. Every suspended stage can be cut, by `Task.cancel()` or by the
end-to-end timeout (`Cut`), and every wait with a timeout of its own can time out; the
`finally` clause with `_finish_session` is the operator `Finish`, which all ends of a
prompt share. The agent is external and nearly free: it answers late, in any order or
never, writes chunks as long as a prompt is with it, may write a line that is no
JSON-RPC or is too long for `readline`, and may die, its pipes closing before the event loop
knows the return code. How the reader ended decides what its waiting requests raise: after
an over-long line a `ValueError`, which `run_task` takes for a plain failure even if the
prompt was sent (`acp_protocol.py:252`, `external_workers.py:175`). A prompt longer than a line
may be fails before it is sent and is retried. A connection whose reader has ended while its
process lives is reused, and every further request on it times out: `is_running` asks for the
process only (`acp_protocol.py:77`), so the connection is only replaced when the process dies or
when the session that was open on it was its last.

Abstractions: an attempt asks for at most one session, so sessions bear the number of
their attempt; parts are a set, since only membership is judged; a reply that nobody
waits for says only its id; sending is one step, because `drain()` can only fail while
part of the line is in our own buffer, and the agent has not got a whole request then;
`stop` cancels the running attempt (a `Cut`), lets it end and then closes. The agent's
own requests (permissions, file reads) are answered in tasks of their own and left out.

### TaskStore

One worker slot, the dispatcher, the janitor and the HTTP handlers over the store, with one
idempotency key under which the tasks are submitted one after another.

| Variable | Code |
|---|---|
| `mem` | `TaskStore._tasks`: status, retries, current attempt, text or redacted text, age |
| `view`, `disk`, `open` | `tasks` and `task_attempts` as the connection sees them, as committed, and whether a failed statement left a transaction open |
| `call` | the synchronous function in progress: writes still to do (`todo`), where it goes on (`next`), where an exception leads (`fail`) |
| `queued`, `pc`, `at`, `kill` | `_queued_ids`; the coroutine's `await`, its task, a pending `Task.cancel()` |
| `disp`, `janitor` | whether the two loops live: an exception ends them for good |
| `up`, `faults`, `crashes`, `sent` | process, bounds, and what was observed at the provider |

A store operation changes memory and then writes; each write is one transaction (`Write`),
which may raise (`RaiseGuarded` rolls back, `RaisePlain` does not), and the process may die
before each. `next` and `fail` name the continuation, so the handlers' `try` blocks are
modelled by where an exception leads, not by a stack. `Refused` is what the tables'
constraints reject (UNIQUE key, UNIQUE attempt number, the foreign key). A coroutine cancelled before its
first step never runs: nothing is marked and the slot stays busy, as in `Relay`.
Abstractions: time is the age of a finished task in the three steps at which retention acts,
in that order; of an attempt row only its number and how it ended; events are written but
carry nothing. A power failure that loses a committed transaction (WAL with
`synchronous=NORMAL`) is not modelled.

### AcpCli

One attempt of the CLI worker, `_execute` to the end of `run_task`, with the operating
system under it: `group` (processes alive), `holds` (which of them has the write end of which
pipe open; any may close or redirect its own and live on), `code`, `rc` and `reaper` (how the child ended,
whether asyncio knows, who called `waitpid`), `wrote`, `text`, `pipe`, `reader` (what was written,
whether stdout is more than white space, two pipes and the two `read_limited` tasks), `seen`
(the exit code the worker believes, `"guess"` for the 0 it returns when it cannot know), `stage` (progress of `_terminate_process` and
`_terminate_process_group`), `active`, `stopping`, `causes`, `hits` (who threw
`CancelledError` and how often), `verdict`. The output is counted in units as large as pipe
and stream buffer together, so one unread unit blocks the writer; that is what makes a
deadlock possible if one pipe is not read. A stream ends when nobody holds its write end; the
process group is only looked at when something went wrong. `WaitNeedsPipes` selects what
`Process.wait()` does: in Python 3.11 it also waits for the pipes.

### AnswerPoll

The loop of `worker.py:279` against a page that may show anything: `clock`, `stallAt`,
`progress`, `previous`, `stable` are the loop's variables, `reads` records what was read and
when, so that the properties speak of the page and not of the loop's counters. Two rules end the
wait: two equal reads at rest (`AtRest`), or three equal valid reads under a stop button
(`SteadyUnderButton`). Reads without a stop button do not take part in the second rule, they
neither count nor reset the count. A round is
`Sleep` (with the checks after it) and `Poll` or `PollFails`, which takes up to `MaxPoll`.

### Router, MCRouter

`AdaptiveRouter._score` in fixed point, `rank` and `choose` as operators, the exact and site
modes of the pool beside them. State is only what a decision reads: slot states and attempt
metrics (`WorkerChanges`, `AttemptEnds`, `AttemptDragged`, `WindowPasses` reach every
combination); the invariants then quantify over every task and every draw. `AttemptDragged`
is an error of a task that ended `outcome_unknown`, on the same target or another, which the
metrics query counts twice (`db.py:434`); the same query counts cancelled and interrupted attempts as errors, so the
model's errors include them. A task may ask for a model: `Fits` says which of `Models` a
target's own model name contains (`Matches` is `_model_matches`). Adaptive tasks cannot ask for
one, `submit` refuses it. The latency score is a table of levels instead of `exp`.
`Sums` adds up the targets in order, as the loops of `choose` do; it is a recursive function so that
it can be reasoned about.

### Lifespan

Processes on one database: `lock` (the `flock`), `pc` (place in `lifespan`'s startup, service,
`finally` clause, or in `asyncio.run` after it), `conn`, `disp`, `janitor`, and the rows
with the coroutines that own them. `at[t]` is where such a coroutine is: before its first step,
in its `try`, or in the `_rebuild_tab` of a handler; only in the `try` does `run_task` catch a
cancel and write the row (`"caught"`), elsewhere the row stays as it is (`"lost"`). Every step of startup and shutdown may raise where the
code can; a step of the `finally` clause that raises skips the rest, which leaves the end of
loops, attempts, connection and lock to `asyncio.run` and to the kernel.

## 4. The runs

Passing:

| Run | Instance | Properties |
|---|---|---|
| `slots` | 1 adaptive and 1 pinned task, 2 browser slots of different targets, queue of 1, `RetryBound` 1 | `TypeOK`, `SingleOwner`, `QueueSound`, `RunningIsWorkedOn`, `AttemptNumberFresh`, `ConfirmedNotReplayed`, `TerminalStable`, `KeepsPromises` |
| `external` | 3 tasks, 2 API slots; 2 of the tasks under a policy with cap 1 | `NeverReplayed`, `CancelledIsNotSent`, `PolicyCap` |
| `live` | 2 tasks, 1 browser slot, 1 restart, `FairSpec` | `KeepsPromises`, `PendingResolves`, `RunningResolves` |
| `acp` | 2 attempts, 1 chunk per session, 1 fault, 1 session per connection, `FairSpec` | `SessionIsOwn`, `PromptNotRepeated`, `NoLostFuture`, `ConnectionKept`, `AnswerComplete`, `AttemptEnds` |
| `store` | 2 task ids under one key, 1 retry, 2 failing writes, 1 crash | `AuditSound`, `DoneIsTrue`, `NothingForgotten`, `OneTaskPerKey`, `LoopsSurvive`, `RecordedNotReplayed` |
| `cli` | 2 units per pipe, a limit of 1, 2 interruptions, 1 failing write, `FairSpec` | `AnswerWhole`, `UnsureIsUnknown`, `PipeServed`, `NoStrayMain`, `AttemptEnds` |
| `poll` | 3 texts, stall after 2, hard timeout 5, polls of 0 or 1 | `AnswerSettled`, `AnswerNotMissed`, `StallIsStall`, `GivenUpInTime` |
| `lifespan` | 2 processes, 2 tasks, 3 starts, 1 crash, `FairSpec` | `OneAtWork`, `RowsMatchOwners`, `LockComesFree` |
| `router` | 3 targets on 4 slots (2 browser sites), 2 models, 2 attempts in the window | `RightWorker`, `FairDraw` |

Some properties bundle parts that answer one question; their definitions name the parts, and
the type invariants of all modules but `Relay` are among them.

What the runs show, beyond the scheduling properties of `Relay`:

* `store`. Every send is audited in a committed attempt row (`AuditSound`); a task is
  shown as `done` only when its committed row says so, and the row only with an `ok` attempt,
  even if writes fail or the process dies between them (`DoneIsTrue`); crashes and
  retention alone leave no open attempt behind a task that ended, and memory never differs
  from the committed row (`NothingForgotten`); only a failed write ends the dispatcher or
  the janitor (`LoopsSurvive`), as it does at `pool.py:329` and `store.py:538`.
* `cli`. A returned answer is all that was ever written to stdout, and not blank: the child has
  exited, and a helper that may still live has let go of the pipes (`AnswerWhole`). An attempt
  is not retried once the child has run; it is done, invalid or failed only after an exit with 0
  or a guessed one, failed only for blank output, unknown only for a bad exit, a stream over its
  limit or the end-to-end timeout (`UnsureIsUnknown`);
  no writer is blocked by a pipe that nobody reads (`PipeServed`); the main process is gone
  when an attempt ends undisturbed, and after `stop` (`NoStrayMain`).
* `poll`. What is returned was just read and is new; it was read twice in a row at rest, or is
  valid and was read by the last three looks that saw a stop button (`AnswerSettled`; that
  these need not follow each other is a divergence, `ReadThriceInARow` below). An answer
  that meets either rule is not overlooked (`AnswerNotMissed`); the stall timeout
  only strikes after that long without a new text (`StallIsStall`), and no page holds the
  worker longer than the timeouts and one poll (`GivenUpInTime`).
* `lifespan`. Two processes are never at work at once (`OneAtWork`). No living attempt is declared
  interrupted, a serving process owns every running row, and without a crash no row is left
  running by a coroutine that could catch its cancel (`RowsMatchOwners`); a cancel that it cannot
  catch, before its first step or inside a handler's `_rebuild_tab`, leaves the row running
  until the next start declares it interrupted. The lock comes free (`LockComesFree`).
* `router`. A task gets a worker exactly when an eligible one of its model is idle, and a browser
  task that may switch gets no site twice while an untried one of its model is idle
  (`RightWorker`); draws are proportional to weights, all positive, and a worse
  record never weighs more (`FairDraw`).

### Bounds

All are CONSTANTS. In `Relay`: `NumTasks`, `NumWorkers`, `MaxQueue` (1: two tasks already
meet a full queue), `MaxRetries` (1: a retry and its exhaustion), `RetryBound` (a manual
retry is explored only for a task with fewer retries than this; 0 in `external` and `live`),
`MaxRestarts`. Two tasks and two slots are the smallest instance in which a task is with a
slot that winds down, is retried and claimed by another slot, while a second task competes
for queue and slots; `external` adds a third task, outside the policy, that uses the slot
which the cap keeps free. `slots` has no restart and `live` no manual retry, to keep both
within minutes; a crash followed by a manual retry is in `store` (`AuditSound`). That the queue holds no task twice needs a queue of two or more;
the theorem `QueueStaysSound` has it for every size. `NeverReplayed` and
`CancelledIsNotSent` are promises that backends without a tab keep; for browser slots the
first fails (run `replay`), and so can the second, since a cancel may reach the slot that
still rebuilds its tab for the same task (`pool.py:303`). All targets stay configured in
every run: if one is removed, `TerminalStable` does not hold, because a task of that target
retried by hand can be failed by the recovery pass while it is queued (`pool.py:258`) and
expired by the dispatcher later.

* `acp`: two attempts are what a late answer needs, an earlier session to come from and a
  later one to disturb; one fault breaks any wait of either attempt; with one session per
  connection a connection is recycled after each session.
* `store`: a second id exists only after the first was deleted or discarded, so two ids
  cover reuse, conflict and deletion of the key; two faults are a failed write followed by the failure of
  its handler; one crash, since a restart begins from `disk` alone.
* `cli`: a limit of 1 with 2 units is an output over the limit, and 2 units with one read are a
  blocked writer; a second interruption is one that strikes inside the cleanup of the first.
* `poll`: the old answer, a part and the whole; the count restarts, falls back and is met
  (twice, or three times under a contract) before the stall and the hard timeout.
* `lifespan`: a second process waits, is refused or takes over; a third start finds what a
  crash and a failed shutdown left behind.
* `router`: two attempts over three targets put any of them below `MinSamples` and at it, and let two
  of them be compared; of
  two models one is on one target only, the other on a browser and on the API target, so a task
  can ask for a model that its target, its site or an untried site does not have.

Deadlock is not checked where the system may really stop: `acp` and `cli` (attempts are used up,
or the worker was stopped), `poll` (the loop has ended), `lifespan` (starts are used up),
`store` (ids are used up and both loops may be dead).

### Violations

Each states what a comment, docstring or README of the repository says, and TLC finds a
behaviour of the code that contradicts it:

| Run | What happens |
|---|---|
| `cancel_running` | a cancel delivered before the coroutine's first step (`worker.py:147`) leaves the task running and the slot busy for good; one delivered inside a handler's `_rebuild_tab` (`worker.py:195`, `215`) leaves the task running |
| `replay` | the end-to-end timeout strikes between the click and its verification; the stored phase is still `sending` (`worker.py:187`), the attempt counts as unsent and is repeated |
| `late_chunk` | `_handle_notification` compares sessions only while one is set (`external_workers.py:820`); during `session/new` and `session/close` a chunk of an earlier session, whose prompt timed out and still runs, gets into the next answer |

More expectations are stated in the modules and do not hold. They are not among the runs;
putting the definition into the named configuration shows the behaviour:

| Definition, configuration | What happens |
|---|---|
| `Relay.CancelledIsNotClaimed`, `slots` | a recovery pass (`store.py:521`) or an idempotent resubmission (`store.py:262`) replaces the record of a queued task; the cancel is set on the new object, the dispatcher reads the old one (`pool.py:336`) and claims the task. The first check of `_execute` usually still stops it |
| `Relay.ExpiresByOwnDeadline`, `slots` | a task that a recovery pass expired while it was queued is retried by hand; the old object with the old deadline stays in the queue (`pool.py:246`) and expires the retry |
| `Relay.IdleTabIsClean`, `cancel_running` | a cancel seen by the poll loop (`worker.py:201`), or one that cuts a rebuild short, makes the worker idle without a fresh tab |
| `CursorAcp.OneAgent`, `late_chunk` | a cancel during the handshake passes by `except Exception` (`external_workers.py:683`): the new agent process is not closed and the next attempt starts another |
| `TaskStore.ConfirmedNotReplayed`, `store` | recording the confirmed send fails (`worker.py:267`): the phase still says unsent and the prompt is sent again |
| `TaskStore.OriginalPromptSent`, `store` | a manual retry after redaction (`db.py:451`) sends the redacted text |
| `AcpCli.NothingLeftRunning`, `cli` | a cancel or timeout while the pipes are drained leaves the helper alive; a second interruption inside the grace period leaves a main process that ignores SIGTERM |
| `AcpCli.ExitHonoured`, `cli` | another child watcher has reaped the child and the return code is late: `return 0` (`external_workers.py:579`), so a child that exited with another code ends done, invalid or failed instead of unknown |
| `AnswerPoll.ReadThriceInARow`, `poll` | the comment at `worker.py:303` asks for three identical valid reads in a row; a look without a stop button in between, even at another text, does not reset the count (`worker.py:324`-`331`) |
| `Router.AnyModelIsServed`, `router` | `submit` accepts a model of `allowed_models` (`pool.py:195`), but the dispatcher compares it with the target's own model (`pool.py:436`): such a task waits beside idle slots until it expires |
| `AcpCli.AttemptEnds` with `WaitNeedsPipes = TRUE`, `cli` | `Process.wait()` of Python 3.11 does not return while a helper holds a pipe |
| `Router.KeepsExploration`, `router` | the docstring (`adaptive_router.py:29`) promises every healthy target the probability `exploration_weight`; the bonus is added to a weight, is no share of the draw, and ends with `min_samples` |

Observed while modelling, with no property of their own: a write that fails in `set_phase`
right after the spawn leaks the child (`external_workers.py:352`); a failed write without
rollback leaves its transaction open until the next guarded write (`db.py:578`); a
`mark_retry` whose write fails leaves the task running; a dispatcher whose write raises
(`pool.py:329`) or a dead janitor is not started again (`DispatcherDies`, `JanitorDies`);
`pool.stop` and `store.stop` re-raise what ended a dead loop, so the rest of the `finally` clause is skipped
(`RowsMatchOwners` and `LockComesFree` show that this is repaired); a symlinked database path
yields another lock name, which is outside the model.

Each passing property has a mutant in `PROJECT.json`: a faulty variant of one definition
under which the run reports that property violated.

### Fairness

`FairSpec` adds: the dispatcher keeps running (`WF`); time reaches every deadline and
retry time (`WF`); a coroutine that can be stepped again and again is stepped (`SF`,
because a dispatcher pass disables coroutines, though only until it reaches
`asyncio.sleep`): every `await` in `run_task` is bounded, by `asyncio.timeout`, by the
command timeout of the client or by `TAB_CLEANUP_TIMEOUT`; a stopped service is started
again (`WF` on `Start`). Clients, crashes and the recovery of a degraded worker get no
fairness. `PendingResolves` therefore does not rely on any worker ever being idle: the
queue deadline resolves a task that nobody can run. `RunningResolves` excepts tasks with
a cancel request, which is what `cancel_running` is about.

`CursorAcp` has a `FairSpec` of its own: `WF` on `Execute`, the worker's steps. Each of its
waits is answered or times out (`request_timeout_seconds`, `initialize_timeout_seconds`,
`session_close_timeout_seconds`, the 5 seconds of `_cancel_session`, the grace periods of
`_terminate_process`), and the event loop then resumes the coroutine. The agent, the
reader, `Task.cancel()` and the end-to-end timeout get no fairness, so `AttemptEnds` rests
on the waits' own timeouts only.

`AcpCli.FairSpec` has `WF` on the steps of the attempt, of the readers and of the child watcher: every
wait of theirs is bounded by a grace period or the end-to-end timeout. The child and its helper get
none, they may hang for ever and ignore SIGTERM; only SIGKILL is certain.
`Lifespan.FairSpec` has `WF` on the startup and on the teardown of each process; attempts get none, so that
`LockComesFree` does not rely on them ending. `TaskStore`, `AnswerPoll` and
`Router` are checked for safety only.

## 5. The proofs

All are checked by TLAPS, for every value of the constants that satisfies the assumptions
of the modules: sizes and bounds are natural numbers, a queue holds at least one task, a
pinned task has one target (`SizesAssumption`, `RoutingAssumption` of `Relay`;
`LifespanAssumption`, `CliAssumption`), manual retries are explored at least as far as the
automatic ones (`StoreAssumption`), an absent answer is no text and the timeouts of
`AnswerPoll` are positive (`PollAssumption`). TLC checked each inductive
invariant on an instance before it was proved. Bounds of the exploration (restarts, faults,
crashes, interruptions) are constants too, so the theorems hold however many there are.

### Relay

* `TypeCorrect`: `Spec => []TypeOK`. `TypeOK` alone is not inductive: a handler appends
  `cur[w]` to the queue, so it must be a task, which `TypeInv` adds for every slot whose
  coroutine exists.
* `OneOwner`, `QueueStaysSound`: `Spec => []SingleOwner` and `Spec => []QueueSound`,
  both from `OwnInv`. Enqueueing is guarded by the task's status, so the invariant ties
  the status to the slots: a task with an owner is `running` (`OwnedRunning`); rows of a
  recovery pass still wait and exist only during the pass (`RowsPending`); queued tasks
  wait or have just been given up by the recovery pass (`QueuedWaits`); a slot with a
  coroutine is `busy`, hence not claimed again (`BusySlots`); a process that is down has
  no coroutines (`DownIdle`). The steps fall into four shapes, each a lemma: nobody moves
  (`QuietStep`), a task without an owner changes (`UnownedStep`), an attempt moves on
  (`MoveStep`), an owner gives its task up (`GiveUpStep`). `CapHolds` (`PolicyCap`): a
  claim counts the busy slots of its target first, and no other step makes a slot busy, so
  the cap holds for any number of slots, by cardinalities.
* `AttemptNumbersFresh`, `ConfirmedStaysPut`, `WorkIsNeverForgotten` (`AttemptNumberFresh`,
  `ConfirmedNotReplayed`, `RunningIsWorkedOn`), from `AttInv`. What makes a task safe to claim
  is `Ready`: every attempt in the store was counted by `mark_retry`, and no confirmed prompt
  waits for its answer. It is lost when the attempt row is inserted and when the send is
  confirmed, and must be back before the task waits again; so `TaskInv` has it on the queue
  and while pending, `WorkerInv` until the coroutine's first step. `WorkerInv` also says that
  `Task.cancel()` only reaches a slot whose task has a cancel request, which is why a running
  task without one keeps its coroutine (`Worked`).
* `ExternalNeverReplays`, `ExternalCancelStopsSending` (`NeverReplayed`,
  `CancelledIsNotSent`) have the hypothesis `NoBrowsers`. It is not technical: with a browser
  slot the first fails (run `replay`), and so can the second (see Bounds). Every
  deployment of CLI, ACP and API workers only satisfies the hypothesis.
* `PromisesKept`, `OutcomesStay`: `KeepsPromises` and `TerminalStable`. The first is the
  refinement: the initial state maps to one of `TaskLifecycle`, and each action of `Relay`
  is, for each task, a step of `TaskLifecycle` or none (`Keeps`). The dispatcher acts on
  the object it reads in the queue, which may not be the store's; `ViewInv` says what such a
  copy can still show, so that a stale one can at worst expire a task again that has expired.
  The hypothesis `TargetsStay` says that a restart leaves each pinned task a
  target; without it `TerminalStable` fails (see Bounds), and with it the refinement it
  follows from.

### Lifespan

* `OneAtATime`, `RowsStayTrue`: `Spec => []OneAtWork` and `Spec => []RowsMatchOwners` of
  `Lifespan`, both from `LifeInv`. `OneAtWork` is not inductive: that two processes are not
  at work at once must follow from who has the lock (`HolderOnly`), which a process may only
  give back when its parts have ended in the order of the `finally` clause
  (`PartsInOrder`); that an attempt which catches its cancel can still write its row needs the
  connection to outlive every coroutine (`ConnOpen`); that a serving process owns every running row needs
  the rows declared interrupted before anything starts (`RunsOwned`). Steps of lifespan go
  through `OneProcess` (only one process changes), steps of attempts through `OneTask` (only
  one row changes); `RecoverStep` and `CrashStep` change both.

### AnswerPoll

`ReturnedIsSettled`, `RestIsAnswer`, `StalledIsStill`, `PagesAreGivenUp` (the four properties of
the run), for any set of texts, any order of the three timeouts and any duration of a poll.
The properties speak of what was read and when, the loop keeps a few variables; `PollInv`
says what each of them stands for: `progress` for the last fresh text (`ProgressInv`),
`stallAt` for the time of the last new one (`DeadlineInv`), `previous` for a last read at rest
(`PreviousInv`), the count for the latest reads under a stop button.

### TaskStore

`TypesHold`, `KeyIsOne`, `RecordedStaysPut`, `AuditHolds`, `DoneStays`, `NothingIsForgotten`,
`LoopsStay`: all six properties of the run, for any number of tasks, retries, failing writes
and crashes. A store operation is a list of writes still to do, so nothing holds between its
steps unless the invariant says what is ahead. Each layer rests on those before it: `TypeInv`
(which writes may be ahead of which label, and where a failure leads), `KeyInv` (connection
and disk agree but for a discarded task, one row per key), `RecordInv` (a prompt recorded as
sent is not on its way to be sent), `AuditInv` (attempt numbers and the record's count),
`DoneInv` (what `mark_done` has still to write) and `FaultlessInv` (as long as no write has
failed, a record that differs from its row is about to be written).

### AcpCli

`AnswersAreWhole`, `UnsureStaysUnknown`, `PipesAreServed`, `NoMainIsLeft`, all from `CliInv`, for
any limits, any number of interruptions and failing writes, and both values of
`WaitNeedsPipes`. An answer is whole because a reader only reaches the end of its stream when
no unit is left in it and nobody holds its write end, and a write end that nobody holds
stays so (`ReadInv`); it is judged only after both readers have. No main process is left because a termination gets past SIGTERM only by
the child's exit or by SIGKILL (`TermInv`, `ExitInv`), and an attempt that ends without one
was interrupted twice or could not write before its `try` (`StopInv`).

### CursorAcp

`SessionsAreOwn`, `PromptsGoOnce`, `FuturesAreKept`, `ConnectionsAreKept`, `AnswersAreComplete`: all
safety properties of the run, from `AcpInv`, for any number of attempts, chunks, faults and
sessions per connection (`AcpAssumption`: the bounds are naturals, a connection serves at least
one session).

* That the id in `sid` is the attempt's own needs to know whose reply the future of
  `session/new` got (`OwnInv`); the replies of earlier attempts are still in the stream, but
  nobody waits for them, since a pending id belongs to the one coroutine that waits
  (`NoLostFuture`, which is inductive together with `StageInv`, the stage machine).
* A prompt is not repeated because a retry is only decided on while the agent has not got it
  (`PromptInv`). A connection whose count is used up is given up with the clean-up of its last
  session, before another attempt can open one on it (`CountInv`), and an agent that runs is
  one the worker can still close (`AgentReachable`).
* `AnswerComplete` is an action property and needs most. An agent that has not got the prompt
  has said nothing (`SilentInv`). Each chunk said is in the text or in the stream, and if the
  reply is in the stream, in front of it (`HeardInv`). So when the reply is read nothing is
  missing, and nothing can be added (`CompleteInv`), during the clean-up either.

### Router

`WorkersAreRight` (`RightWorker`) and `DrawsAreFair` (`FairDraw`): both invariants of the run, for any
targets, slots, sites, models, policies, settings and any number of attempts in the window
(`RouterAssumption`: finitely many targets, each slot has one, penalties, exploration and
latency scores between 0 and 1).

* `RightWorker` is a fact about the choice and holds in every state. Each mode is compared
  with `Admits`, which names the target, site, model, policy and slot state it requires; the site mode goes through the branches of `_find_legacy_idle_worker`
  (`SiteBranches`).
* For `FairDraw` the history must be counted rightly (`HistoryInv`: no attempt is dragged
  that did not fail, the window is bounded). Then each factor of the score is a share of
  `Unit` (`FactorRanges`, `WeightRange`), rounding included, and keeps the order of the
  numbers it is computed from (`TimesMono`, `RatioMono`), which gives `WorseIsRarer`.
  `DrawIsProportional` is a fact about cumulative sums (`DrawInInterval`).
* The sums are a recursive function (`Sums`). The library's induction theorems are out of
  reach (they take an operator as a parameter); `Induct` states induction for a *set* of
  numbers and follows from `WFMin`: a least number missing from the set would be the
  successor of one in it. With it `SumExists` shows that the recursive equation has a
  solution, so that `Sums` satisfies it (`SumsEquation`), and the rest goes target by target.

### Model-checked only

Every invariant and every safety action property of the passing runs is stated by a theorem. `NeverReplayed` and
`CancelledIsNotSent` are proved and checked for slots without a browser. Liveness under fairness
(`PendingResolves`, `RunningResolves`, `AttemptEnds` of both workers, `LockComesFree`) and statements about ENABLED are
out of the prover's reach and stay with TLC, and so do the three violations, which are
behaviours and not theorems. Induction over data is proved only where a set of numbers is
enough (`Sums`); anything about RECURSIVE operators is out of reach, and the modules that
are proved about contain none.

## 6. Not modelled

* The requests of an ACP agent (permissions, files), the connection's write lock, sessions that an
  agent makes after `session/new` has timed out, and an error reply whose code is no integer: the
  reader takes the request off `_pending` and then dies converting it, so that this one wait
  ends only by its timeout.
* Helpers of a CLI child that leave its process group; the login probe of the CLI worker.
* HTTP responses of the API worker one by one; `Relay` has their outcomes.
* Schema migrations, the event table's contents, list and count queries.
* Contract validation beyond valid or not, hashing of idempotent requests beyond equal or
  not.
* Page scripts, HTTP plumbing and authentication, configuration parsing, service discovery
  beyond a startup step that may fail, dashboard and installer: plain I/O or static data.
