------------------------------- MODULE Relay -------------------------------
(***************************************************************************)
(* The scheduling core of ai-relay: the task store, the bounded queue, the *)
(* dispatcher loop, the HTTP operations on tasks, the worker coroutines    *)
(* that run one attempt each, and process crash, stop and restart.         *)
(*                                                                         *)
(* Everything runs in one asyncio event loop, so an action is the code     *)
(* between two awaits.  The dispatcher never awaits inside a pass: while   *)
(* disp # "sleep" only the clock and a crash can interleave with it.       *)
(*                                                                         *)
(* A store record is written through to SQLite by every mark_* operation,  *)
(* so task is at once the record and its row; a write that fails is left   *)
(* to another model, except the one mark_done recovers from.  The queue    *)
(* holds record OBJECTS: when the store replaces the object it keeps for a *)
(* queued task, the queue goes on reading the old one (variable entry).    *)
(***************************************************************************)
EXTENDS Naturals, FiniteSets, SequencesExt

CONSTANTS
  NumTasks,     \* tasks that clients may submit, numbered in created_at order
  NumWorkers,   \* worker slots, numbered in pool order
  Targets,      \* configured targets
  TargetOf,     \* the target a worker slot belongs to
  Browser,      \* the webbridge targets; the others are CLI, ACP or API
  Route,        \* the targets a task may be dispatched to
  Pinned,       \* tasks submitted with an explicit target_id
  Kept,         \* targets that are still configured after the first restart
  Capped,       \* tasks under a task policy with max_in_flight_per_target
  Cap,          \* that maximum
  MaxQueue,     \* config.queue.max_size
  MaxRetries,   \* retry budget of a task
  RetryBound,   \* bound: manual retries stop once a task has had this many
  MaxRestarts   \* bound: process restarts explored

Tasks == 1..NumTasks
Workers == 1..NumWorkers

ASSUME SizesAssumption ==
  /\ NumTasks \in Nat \ {0} /\ NumWorkers \in Nat \ {0}
  /\ MaxQueue \in Nat \ {0} /\ Cap \in Nat \ {0}
  /\ MaxRetries \in Nat /\ RetryBound \in Nat /\ MaxRestarts \in Nat

ASSUME RoutingAssumption ==
  /\ TargetOf \in [Workers -> Targets]
  /\ Browser \subseteq Targets /\ Kept \subseteq Targets
  /\ Route \in [Tasks -> SUBSET Targets]
  /\ Pinned \subseteq Tasks /\ Capped \subseteq Tasks
  /\ \A t \in Pinned : \E g \in Targets : Route[t] = {g}

Pending == {"queued", "retry_wait"}
Terminal == {"done", "failed", "cancelled", "expired", "interrupted",
             "outcome_unknown"}
Status == {"none", "running"} \cup Pending \cup Terminal

(* Where a run_task coroutine is.  "spawned": created, not yet stepped.    *)
(* opening .. generating: inside _execute.  "rebuild_retry": an exception  *)
(* handler rebuilding the tab before on_retry.  "rebuild_finish": the same *)
(* with the task already marked.  "dead": cancelled before its first step. *)
Executing == {"opening", "configuring", "sending", "clicked", "generating"}
Stages == {"none", "spawned", "rebuild_retry", "rebuild_finish", "dead"}
            \cup Executing

VARIABLES
  task,      \* task[t]: store record; cancel = cancel_requested, late = the
             \* queue deadline has passed, wait = next_attempt_at is ahead
  attempts,  \* attempts[t]: attempt numbers in task_attempts
  queue,     \* TaskQueue: task ids, oldest first
  entry,     \* entry[t]: what the queued object says if it is its own copy
  disp,      \* the dispatcher: "sleep", "scan" or "recover"
  rows,      \* list_recoverable rows still to be handled in this pass
  wstate,    \* wstate[w]: worker state; "off" when it does not exist
  cur,       \* cur[w]: current_task_id, 0 for None
  pc,        \* pc[w]: stage of the run_task coroutine
  kill,      \* kill[w]: Task.cancel() called, CancelledError not yet raised
  up,        \* the process is running
  restarts,  \* restarts so far
  dirty,     \* observed: the tab may still be generating an old answer
  sent       \* observed: prompt clicked / confirmed sent, answer not known

storeVars == <<task, attempts>>
queueVars == <<queue, entry>>
dispVars == <<disp, rows>>
workerVars == <<wstate, cur, pc, kill>>
ghostVars == <<dirty, sent>>
vars == <<storeVars, queueVars, dispVars, workerVars, up, restarts, ghostVars>>

-----------------------------------------------------------------------------
(* The store's record operations.                                          *)

TaskRecord == [status : Status, cancel : BOOLEAN, late : BOOLEAN,
               wait : BOOLEAN, retries : Nat]

NoRecord == [status |-> "none", cancel |-> FALSE, late |-> FALSE,
             wait |-> FALSE, retries |-> 0]

\* create_or_get_idempotent: a new record.
NewRecord == [NoRecord EXCEPT !.status = "queued"]

\* mark_done, mark_failed, mark_cancelled, mark_expired, mark_interrupted,
\* mark_outcome_unknown differ in the status they set.
Marked(r, s) == [r EXCEPT !.status = s]

\* mark_running
MarkedRunning(r) == [r EXCEPT !.status = "running", !.wait = FALSE]

\* Mutants: a status the API does not know; the retry count left alone.
MarkedRetryUnlisted(r, backoff) ==
  [NewRecord EXCEPT !.status = "retrying", !.wait = backoff,
                    !.retries = r.retries + 1]
MarkedRetrySameNumber(r, backoff) ==
  [NewRecord EXCEPT !.late = r.late, !.wait = backoff, !.retries = r.retries]

\* mark_retry; backoff: next_attempt_at is given.
MarkedRetry(r, backoff) ==
  [status |-> IF backoff THEN "retry_wait" ELSE "queued", cancel |-> FALSE,
   late |-> r.late, wait |-> backoff, retries |-> r.retries + 1]

SetTask(t, r) == task' = [task EXCEPT ![t] = r]

-----------------------------------------------------------------------------
(* The queue.                                                              *)

InQueue(t) == \E i \in 1..Len(queue) : queue[i] = t

QueuedView == [own : BOOLEAN, cancel : BOOLEAN, late : BOOLEAN,
               wait : BOOLEAN]

Shared == [own |-> FALSE, cancel |-> FALSE, late |-> FALSE, wait |-> FALSE]
Copy(r) == [own |-> TRUE, cancel |-> r.cancel, late |-> r.late,
            wait |-> r.wait]

\* What the dispatcher reads off the queued object of t.
Seen(t) == IF entry[t].own THEN entry[t] ELSE Copy(task[t])

\* The store replaces its objects for S; the queue keeps those it holds.
Detached(S) ==
  [t \in Tasks |-> IF t \in S /\ InQueue(t) THEN Seen(t) ELSE entry[t]]

\* Mutant: the queue takes more than max_size.
ReenqueueUnbounded(t, r) ==
  /\ SetTask(t, r)
  /\ queue' = IF InQueue(t) THEN queue ELSE Append(queue, t)
  /\ UNCHANGED entry

\* _enqueue_existing, with r the record of t after the caller's mark_retry;
\* on QueueFull both callers mark the task failed.
Reenqueue(t, r) ==
  \/ /\ InQueue(t)
     /\ SetTask(t, r)
     /\ UNCHANGED queueVars
  \/ /\ ~InQueue(t)
     /\ Len(queue) < MaxQueue
     /\ SetTask(t, r)
     /\ queue' = Append(queue, t)
     /\ UNCHANGED entry
  \/ /\ ~InQueue(t)
     /\ Len(queue) >= MaxQueue
     /\ SetTask(t, Marked(r, "failed"))
     /\ UNCHANGED queueVars

\* Remove the i-th queued object.
Dequeue(i) ==
  /\ queue' = RemoveAt(queue, i)
  /\ entry' = [entry EXCEPT ![queue[i]] = Shared]

\* Mutant: one retry more than the budget.
OnRetryOnceMore(t) ==
  \/ /\ task[t].retries > MaxRetries
     /\ SetTask(t, Marked(task[t], "failed"))
     /\ UNCHANGED queueVars
  \/ /\ task[t].retries <= MaxRetries
     /\ Reenqueue(t, MarkedRetry(task[t], TRUE))

\* _on_retry_needed
OnRetry(t) ==
  \/ /\ task[t].retries >= MaxRetries
     /\ SetTask(t, Marked(task[t], "failed"))
     /\ UNCHANGED queueVars
  \/ /\ task[t].retries < MaxRetries
     /\ Reenqueue(t, MarkedRetry(task[t], TRUE))

-----------------------------------------------------------------------------
(* Choosing a worker.                                                      *)

Live == IF restarts = 0 THEN Targets ELSE Kept
IsBrowser(w) == TargetOf[w] \in Browser

InFlight(g) == {w \in Workers : TargetOf[w] = g /\ wstate[w] = "busy"}

\* Mutant: the cap is off by one.
EligibleOverCap(t) ==
  {g \in Route[t] \cap Live :
     /\ \E w \in Workers : TargetOf[w] = g /\ wstate[w] = "idle"
     /\ t \in Capped => Cardinality(InFlight(g)) <= Cap}

\* Targets the router may pick for t now.  Which of several wins is the
\* router's scoring, left open here.
Eligible(t) ==
  {g \in Route[t] \cap Live :
     /\ \E w \in Workers : TargetOf[w] = g /\ wstate[w] = "idle"
     /\ t \in Capped => Cardinality(InFlight(g)) < Cap}

\* The first idle worker of its target, in pool order.
FirstIdle(w) ==
  /\ wstate[w] = "idle"
  /\ \A v \in 1..(w - 1) : TargetOf[v] = TargetOf[w] => wstate[v] # "idle"

Actionable(t) ==
  \/ Seen(t).cancel
  \/ Seen(t).late
  \/ ~Seen(t).wait /\ Eligible(t) # {}

-----------------------------------------------------------------------------
(* The dispatcher: _dispatch_loop and _recover_pending_tasks.              *)

\* Mutant: an empty queue is not worth a pass, not even a recovery pass.
WakeForQueueOnly ==
  /\ up /\ disp = "sleep" /\ queue # <<>>
  /\ disp' = "scan"
  /\ UNCHANGED <<storeVars, queueVars, rows, workerVars, up, restarts,
                 ghostVars>>

Wake ==
  /\ up /\ disp = "sleep"
  /\ disp' = "scan"
  /\ UNCHANGED <<storeVars, queueVars, rows, workerVars, up, restarts,
                 ghostVars>>

\* The i-th queued object is the first the scan can act on.
First(i) ==
  /\ up /\ disp = "scan"
  /\ i \in 1..Len(queue) /\ Actionable(queue[i])
  /\ \A j \in 1..(i - 1) : ~Actionable(queue[j])

DropCancelled(i) ==
  /\ First(i)
  /\ Seen(queue[i]).cancel
  /\ Dequeue(i)
  /\ SetTask(queue[i], Marked(task[queue[i]], "cancelled"))
  /\ UNCHANGED <<attempts, dispVars, workerVars, up, restarts, ghostVars>>

DropExpired(i) ==
  /\ First(i)
  /\ ~Seen(queue[i]).cancel /\ Seen(queue[i]).late
  /\ Dequeue(i)
  /\ SetTask(queue[i], Marked(task[queue[i]], "expired"))
  /\ UNCHANGED <<attempts, dispVars, workerVars, up, restarts, ghostVars>>

\* mark_running, then worker.start_task.
Claim(i) ==
  /\ First(i)
  /\ ~Seen(queue[i]).cancel /\ ~Seen(queue[i]).late
  /\ Dequeue(i)
  /\ SetTask(queue[i], MarkedRunning(task[queue[i]]))
  /\ \E w \in Workers :
       /\ FirstIdle(w) /\ TargetOf[w] \in Eligible(queue[i])
       /\ wstate' = [wstate EXCEPT ![w] = "busy"]
       /\ cur' = [cur EXCEPT ![w] = queue[i]]
       /\ pc' = [pc EXCEPT ![w] = "spawned"]
  /\ UNCHANGED <<attempts, dispVars, kill, up, restarts, ghostVars>>

Recoverable == {t \in Tasks : task[t].status \in Pending /\ ~task[t].wait}

\* The scan found nothing to do: list_recoverable reads the due rows and
\* puts new objects for all of them in the store.
ListRecoverable ==
  /\ up /\ disp = "scan"
  /\ \A i \in 1..Len(queue) : ~Actionable(queue[i])
  /\ disp' = "recover"
  /\ rows' = Recoverable
  /\ entry' = Detached(Recoverable)
  /\ UNCHANGED <<storeVars, queue, workerVars, up, restarts, ghostVars>>

NextRow(t) ==
  /\ up /\ disp = "recover"
  /\ t \in rows /\ \A u \in rows : t <= u

TargetRemoved(t) == t \in Pinned /\ Route[t] \cap Live = {}

\* mark_expired or mark_failed; a task that is queued stays in the queue.
RecoverDrop(t) ==
  /\ NextRow(t)
  /\ task[t].late \/ TargetRemoved(t)
  /\ SetTask(t, Marked(task[t], IF task[t].late THEN "expired" ELSE "failed"))
  /\ rows' = rows \ {t}
  /\ UNCHANGED <<attempts, queueVars, disp, workerVars, up, restarts,
                 ghostVars>>

RecoverEnqueue(t) ==
  /\ NextRow(t)
  /\ ~task[t].late /\ ~TargetRemoved(t)
  /\ \/ /\ InQueue(t)
        /\ rows' = rows \ {t}
        /\ UNCHANGED queue
     \/ /\ ~InQueue(t) /\ Len(queue) < MaxQueue
        /\ rows' = rows \ {t}
        /\ queue' = Append(queue, t)
     \/ /\ ~InQueue(t) /\ Len(queue) >= MaxQueue
        /\ rows' = {}
        /\ UNCHANGED queue
  /\ UNCHANGED <<storeVars, entry, disp, workerVars, up, restarts, ghostVars>>

Sleep ==
  /\ up /\ disp = "recover" /\ rows = {}
  /\ disp' = "sleep"
  /\ UNCHANGED <<storeVars, queueVars, rows, workerVars, up, restarts,
                 ghostVars>>

-----------------------------------------------------------------------------
(* The HTTP operations.  Each is one handler without an await.             *)

ApiReady == up /\ disp = "sleep"

\* submit_with_metadata with a new key; on QueueFull the row is discarded
\* again, which leaves everything as it was.
Submit(t) ==
  /\ ApiReady
  /\ task[t].status = "none" /\ \A u \in 1..(t - 1) : task[u].status # "none"
  /\ Route[t] \cap Live # {}
  /\ Len(queue) < MaxQueue
  /\ SetTask(t, NewRecord)
  /\ queue' = Append(queue, t)
  /\ UNCHANGED <<attempts, entry, dispVars, workerVars, up, restarts,
                 ghostVars>>

\* submit_with_metadata again with the key of t: the store reads the row into
\* a new object and the pool returns before enqueueing.
Resubmit(t) ==
  /\ ApiReady
  /\ task[t].status # "none"
  /\ InQueue(t) /\ ~entry[t].own
  /\ entry' = Detached({t})
  /\ UNCHANGED <<storeVars, queue, dispVars, workerVars, up, restarts,
                 ghostVars>>

\* cancel_current_task: the run_task coroutine of w is not done.
Alive(w) == pc[w] \notin {"none", "dead"}

\* pool.cancel_task asks the first worker that shows t, and no other.
AskedToStop(t, w) ==
  /\ cur[w] = t /\ Alive(w)
  /\ \A v \in 1..(w - 1) : cur[v] # t

Cancel(t) ==
  /\ ApiReady
  /\ task[t].status \in Pending \cup {"running"}
  /\ SetTask(t, [task[t] EXCEPT !.cancel = TRUE])
  /\ kill' = [w \in Workers |-> kill[w] \/ AskedToStop(t, w)]
  /\ UNCHANGED <<attempts, queueVars, dispVars, wstate, cur, pc, up, restarts,
                 ghostVars>>

\* Mutant: a running task may be retried by hand.
RetryableOrRunning == (Terminal \ {"done"}) \cup {"running"}

\* What retry_task accepts.
Retryable == Terminal \ {"done"}

\* retry_task: a human has looked at the outcome, so sent is settled.
ManualRetry(t) ==
  /\ ApiReady
  /\ task[t].status \in Retryable
  /\ task[t].retries < RetryBound
  /\ Reenqueue(t, [MarkedRetry(task[t], FALSE) EXCEPT !.late = FALSE])
  /\ sent' = [sent EXCEPT ![t] = "no"]
  /\ UNCHANGED <<attempts, dispVars, workerVars, up, restarts, dirty>>

-----------------------------------------------------------------------------
(* The run_task coroutine of a worker.                                     *)

\* w's coroutine resumes at one of the stages S, not being cancelled.
At(w, S) == up /\ disp = "sleep" /\ ~kill[w] /\ pc[w] \in S

Goto(w, stage) == pc' = [pc EXCEPT ![w] = stage] /\ UNCHANGED <<wstate, cur, kill>>

\* The finally clause: current_task_id = None; a worker that was degraded in
\* the meantime stays so.
Release(w, state) ==
  /\ wstate' = [wstate EXCEPT ![w] = state]
  /\ cur' = [cur EXCEPT ![w] = 0]
  /\ pc' = [pc EXCEPT ![w] = "none"]
  /\ kill' = [kill EXCEPT ![w] = FALSE]

Mark(w, s) == SetTask(cur[w], Marked(task[cur[w]], s))
SetSent(w, v) == sent' = [sent EXCEPT ![cur[w]] = v]
SetDirty(w, b) == dirty' = [dirty EXCEPT ![w] = b]

\* What stays as it is in every step of a coroutine.
Rest == UNCHANGED <<dispVars, up, restarts>>

\* Mutant: no first cancel check.
BeginUnchecked(w) ==
  /\ At(w, {"spawned"})
  /\ attempts' = [attempts EXCEPT ![cur[w]] = @ \cup {task[cur[w]].retries + 1}]
  /\ Goto(w, IF IsBrowser(w) THEN "opening" ELSE "sending")
  /\ UNCHANGED <<task, queueVars, ghostVars>> /\ Rest

\* start_attempt, then the first cancel check.
Begin(w) ==
  /\ At(w, {"spawned"})
  /\ attempts' = [attempts EXCEPT ![cur[w]] = @ \cup {task[cur[w]].retries + 1}]
  /\ \/ /\ task[cur[w]].cancel
        /\ Mark(w, "cancelled") /\ Release(w, "idle")
     \/ /\ ~task[cur[w]].cancel
        /\ Goto(w, IF IsBrowser(w) THEN "opening" ELSE "sending")
        /\ UNCHANGED task
  /\ UNCHANGED <<queueVars, ghostVars>> /\ Rest

\* Browser: new_chat, the second cancel check, ensure_model and the baseline.
OpenChat(w) ==
  /\ At(w, {"opening"})
  /\ \/ /\ task[cur[w]].cancel
        /\ Mark(w, "cancelled") /\ Release(w, "idle")
     \/ /\ ~task[cur[w]].cancel
        /\ Goto(w, "configuring") /\ UNCHANGED task
  /\ UNCHANGED <<attempts, queueVars, ghostVars>> /\ Rest

ConfigureModel(w) ==
  /\ At(w, {"configuring"})
  /\ Goto(w, "sending")
  /\ UNCHANGED <<storeVars, queueVars, ghostVars>> /\ Rest

\* Browser, in send_prompt: the click may have reached the page.
Click(w) ==
  /\ At(w, {"sending"}) /\ IsBrowser(w)
  /\ Goto(w, "clicked")
  /\ SetSent(w, IF sent[cur[w]] = "no" THEN "clicked" ELSE sent[cur[w]])
  /\ SetDirty(w, TRUE)
  /\ UNCHANGED <<storeVars, queueVars>> /\ Rest

\* send_prompt returns (browser), or the CLI, agent or API has the prompt.
ConfirmSent(w) ==
  /\ At(w, IF IsBrowser(w) THEN {"clicked"} ELSE {"sending"})
  /\ Goto(w, "generating")
  /\ SetSent(w, "confirmed")
  /\ UNCHANGED <<storeVars, queueVars, dirty>> /\ Rest

\* A complete answer: mark_done.
Answer(w) ==
  /\ At(w, {"generating"})
  /\ Mark(w, "done") /\ Release(w, "idle")
  /\ SetSent(w, "no") /\ SetDirty(w, FALSE)
  /\ UNCHANGED <<attempts, queueVars>> /\ Rest

\* A definite reply that may be asked for again: the answer breaks the
\* response contract, or the API refused (429 and the like, empty, malformed).
UnusableAnswer(w) ==
  /\ At(w, {"generating"})
  /\ OnRetry(cur[w]) /\ Release(w, "idle")
  /\ SetSent(w, "no") /\ SetDirty(w, FALSE)
  /\ UNCHANGED attempts /\ Rest

\* The answer is there but mark_done cannot store it.
UnsavedAnswer(w) ==
  /\ At(w, {"generating"})
  /\ Mark(w, "outcome_unknown") /\ Release(w, "degraded")
  /\ SetDirty(w, FALSE)
  /\ UNCHANGED <<attempts, queueVars, sent>> /\ Rest

\* Browser: an exception, or the end-to-end timeout, before the click.
FailBeforeSend(w) ==
  /\ At(w, {"opening", "configuring", "sending"}) /\ IsBrowser(w)
  /\ Goto(w, "rebuild_retry")
  /\ UNCHANGED <<storeVars, queueVars, ghostVars>> /\ Rest

\* Mutant: the timeout handler takes a generating attempt for unsent too.
TimeoutAnytime(w) ==
  /\ At(w, {"clicked", "generating"}) /\ IsBrowser(w)
  /\ Goto(w, "rebuild_retry")
  /\ UNCHANGED <<storeVars, queueVars, ghostVars>> /\ Rest

\* Browser: the end-to-end timeout while send_prompt verifies its click.  The
\* stored phase is still "sending", which the handler takes for unsent.
TimeoutInSend(w) ==
  /\ At(w, {"clicked"})
  /\ Goto(w, "rebuild_retry")
  /\ UNCHANGED <<storeVars, queueVars, ghostVars>> /\ Rest

\* Browser: unverifiable click, site error, stall, or timeout after sending.
LoseOutcome(w) ==
  /\ At(w, {"clicked", "generating"}) /\ IsBrowser(w)
  /\ Mark(w, "outcome_unknown") /\ Goto(w, "rebuild_finish")
  /\ UNCHANGED <<attempts, queueVars, ghostVars>> /\ Rest

\* Browser: the poll loop sees cancel_requested.  No rebuild on this path.
PollSeesCancel(w) ==
  /\ At(w, {"generating"}) /\ IsBrowser(w)
  /\ task[cur[w]].cancel
  /\ Mark(w, "cancelled") /\ Release(w, "idle")
  /\ UNCHANGED <<attempts, queueVars, ghostVars>> /\ Rest

\* CLI, ACP, API: not connected or not started, so surely not sent.
ExternalUnsent(w) ==
  /\ At(w, {"sending"}) /\ ~IsBrowser(w)
  /\ OnRetry(cur[w]) /\ Release(w, "idle")
  /\ UNCHANGED <<attempts, ghostVars>> /\ Rest

\* CLI, ACP, API: definite refusal; a missing command degrades the worker.
ExternalFailed(w) ==
  /\ At(w, {"sending", "generating"}) /\ ~IsBrowser(w)
  /\ Mark(w, "failed")
  /\ \E s \in {"idle", "degraded"} :
       (s = "degraded" => pc[w] = "sending") /\ Release(w, s)
  /\ SetSent(w, IF pc[w] = "generating" THEN "no" ELSE sent[cur[w]])
  /\ UNCHANGED <<attempts, queueVars, dirty>> /\ Rest

\* ACP: the agent reports the prompt cancelled, or the check before the
\* prompt sees cancel_requested.
ExternalCancelled(w) ==
  /\ At(w, {"sending", "generating"}) /\ ~IsBrowser(w)
  /\ pc[w] = "sending" => task[cur[w]].cancel
  /\ Mark(w, "cancelled") /\ Release(w, "idle")
  /\ SetSent(w, IF pc[w] = "generating" THEN "no" ELSE sent[cur[w]])
  /\ UNCHANGED <<attempts, queueVars, dirty>> /\ Rest

\* Mutant: an attempt with unknown outcome is simply retried.
ExternalUnknownRetried(w) ==
  /\ At(w, {"sending", "generating"}) /\ ~IsBrowser(w)
  /\ OnRetry(cur[w]) /\ Release(w, "idle")
  /\ UNCHANGED <<attempts, ghostVars>> /\ Rest

\* CLI, ACP, API: end-to-end timeout, lost reply, non-zero exit.
ExternalUnknown(w) ==
  /\ At(w, {"sending", "generating"}) /\ ~IsBrowser(w)
  /\ Mark(w, "outcome_unknown") /\ Release(w, "idle")
  /\ UNCHANGED <<attempts, queueVars, ghostVars>> /\ Rest

\* Mutant: the task is marked only after the rebuild's awaits.
RebuiltMarksLate(w) ==
  /\ At(w, {"rebuild_retry", "rebuild_finish"})
  /\ \/ pc[w] = "rebuild_retry" /\ OnRetry(cur[w])
     \/ pc[w] = "rebuild_finish" /\ Mark(w, "outcome_unknown") /\ UNCHANGED queueVars
  /\ Release(w, "idle") /\ SetDirty(w, FALSE)
  /\ UNCHANGED <<attempts, sent>> /\ Rest

\* _rebuild_tab succeeds.
Rebuilt(w) ==
  /\ At(w, {"rebuild_retry", "rebuild_finish"})
  /\ \/ pc[w] = "rebuild_retry" /\ OnRetry(cur[w])
     \/ pc[w] = "rebuild_finish" /\ UNCHANGED <<task, queueVars>>
  /\ Release(w, "idle") /\ SetDirty(w, FALSE)
  /\ UNCHANGED <<attempts, sent>> /\ Rest

\* Mutant: the handler returns once the worker is degraded.
RebuildFailsQuietly(w) ==
  /\ At(w, {"rebuild_retry", "rebuild_finish"})
  /\ Release(w, "degraded")
  /\ UNCHANGED <<storeVars, queueVars, ghostVars>> /\ Rest

\* _rebuild_tab fails and degrades the worker; the handler goes on all the same.
RebuildFails(w) ==
  /\ At(w, {"rebuild_retry", "rebuild_finish"})
  /\ \/ pc[w] = "rebuild_retry" /\ OnRetry(cur[w])
     \/ pc[w] = "rebuild_finish" /\ UNCHANGED <<task, queueVars>>
  /\ Release(w, "degraded")
  /\ UNCHANGED <<attempts, ghostVars>> /\ Rest

\* _recover_loop of a degraded browser worker; the others have none.
RecoverTab(w) ==
  /\ up /\ disp = "sleep"
  /\ IsBrowser(w) /\ wstate[w] = "degraded"
  /\ wstate' = [wstate EXCEPT ![w] = "idle"]
  /\ SetDirty(w, FALSE)
  /\ UNCHANGED <<storeVars, queueVars, cur, pc, kill, sent>> /\ Rest

-----------------------------------------------------------------------------
(* Task.cancel() takes effect when the coroutine is next stepped.          *)

Killed(w, S) == up /\ disp = "sleep" /\ kill[w] /\ pc[w] \in S

\* run_task's CancelledError handler.
AfterKill(t) == IF task[t].cancel THEN "cancelled" ELSE "interrupted"

\* A coroutine cancelled before its first step never enters its try block:
\* neither the handler nor the finally clause runs.
KillUnstarted(w) ==
  /\ Killed(w, {"spawned"})
  /\ pc' = [pc EXCEPT ![w] = "dead"]
  /\ kill' = [kill EXCEPT ![w] = FALSE]
  /\ UNCHANGED <<storeVars, queueVars, wstate, cur, ghostVars>> /\ Rest

KillExecuting(w) ==
  /\ Killed(w, Executing)
  /\ Mark(w, AfterKill(cur[w]))
  /\ \/ /\ IsBrowser(w)
        /\ pc' = [pc EXCEPT ![w] = "rebuild_finish"]
        /\ kill' = [kill EXCEPT ![w] = FALSE]
        /\ UNCHANGED <<wstate, cur>>
     \/ /\ ~IsBrowser(w)
        /\ Release(w, "idle")
  /\ UNCHANGED <<attempts, queueVars, ghostVars>> /\ Rest

\* CancelledError inside _rebuild_tab leaves the exception handler at once;
\* only the finally clause runs.  The old tab may be closed already.
KillRebuild(w) ==
  /\ Killed(w, {"rebuild_retry", "rebuild_finish"})
  /\ Release(w, "idle")
  /\ \E b \in {FALSE, dirty[w]} : SetDirty(w, b)
  /\ UNCHANGED <<storeVars, queueVars, sent>> /\ Rest

-----------------------------------------------------------------------------
(* Time.                                                                   *)

\* time.time() reaches queue_deadline_at, on the record and on a queued copy.
DeadlinePasses(t) ==
  /\ ~task[t].late
  /\ task[t].status \in Pending \cup {"running"} \/ InQueue(t)
  /\ SetTask(t, [task[t] EXCEPT !.late = TRUE])
  /\ entry' = [entry EXCEPT ![t].late = entry[t].own]
  /\ UNCHANGED <<attempts, queue, dispVars, workerVars, up, restarts,
                 ghostVars>>

\* time.time() reaches next_attempt_at.
RetryDue(t) ==
  /\ task[t].status \in Pending /\ task[t].wait
  /\ SetTask(t, [task[t] EXCEPT !.wait = FALSE])
  /\ entry' = [entry EXCEPT ![t].wait = FALSE]
  /\ UNCHANGED <<attempts, queue, dispVars, workerVars, up, restarts,
                 ghostVars>>

-----------------------------------------------------------------------------
(* The process.                                                            *)

\* All that was in memory is gone.
Down ==
  /\ up' = FALSE
  /\ queue' = <<>> /\ entry' = [t \in Tasks |-> Shared]
  /\ disp' = "sleep" /\ rows' = {}
  /\ wstate' = [w \in Workers |-> "off"]
  /\ cur' = [w \in Workers |-> 0]
  /\ pc' = [w \in Workers |-> "none"]
  /\ kill' = [w \in Workers |-> FALSE]
  /\ dirty' = [w \in Workers |-> FALSE]

Crash ==
  /\ up /\ restarts < MaxRestarts
  /\ Down
  /\ UNCHANGED <<storeVars, restarts, sent>>

\* lifespan shutdown: pool.stop cancels every coroutine and waits for it.
\* Those that are not inside _execute leave their task as it is.
Stop ==
  /\ ApiReady /\ restarts < MaxRestarts
  /\ task' = [t \in Tasks |->
       IF \E w \in Workers : cur[w] = t /\ pc[w] \in Executing
       THEN Marked(task[t], AfterKill(t)) ELSE task[t]]
  /\ Down
  /\ UNCHANGED <<attempts, restarts, sent>>

\* Worker.start: ready or degraded; there are workers for live targets only.
Started(live, s) ==
  s \in [Workers -> {"idle", "degraded", "off"}]
  /\ \A w \in Workers : s[w] = "off" <=> TargetOf[w] \notin live

Interrupted(r) ==
  IF r.status = "running" THEN Marked(r, "interrupted") ELSE r

\* lifespan startup: recover_unfinished, then pool.start up to the end of
\* list_recoverable.
Start ==
  /\ ~up
  /\ up' = TRUE /\ restarts' = restarts + 1
  /\ task' = [t \in Tasks |-> Interrupted(task[t])]
  /\ wstate' \in [Workers -> {"idle", "degraded", "off"}]
  /\ Started(Kept, wstate')
  /\ disp' = "recover"
  /\ rows' = Recoverable
  /\ UNCHANGED <<attempts, queueVars, cur, pc, kill, ghostVars>>

-----------------------------------------------------------------------------
Init ==
  /\ task = [t \in Tasks |-> NoRecord]
  /\ attempts = [t \in Tasks |-> {}]
  /\ queue = <<>> /\ entry = [t \in Tasks |-> Shared]
  /\ disp = "sleep" /\ rows = {}
  /\ wstate \in [Workers -> {"idle", "degraded"}]
  /\ cur = [w \in Workers |-> 0]
  /\ pc = [w \in Workers |-> "none"]
  /\ kill = [w \in Workers |-> FALSE]
  /\ up = TRUE /\ restarts = 0
  /\ dirty = [w \in Workers |-> FALSE]
  /\ sent = [t \in Tasks |-> "no"]

Dispatcher ==
  \/ Wake \/ ListRecoverable \/ Sleep
  \/ \E i \in 1..Len(queue) : DropCancelled(i) \/ DropExpired(i) \/ Claim(i)
  \/ \E t \in Tasks : RecoverDrop(t) \/ RecoverEnqueue(t)

Api == \E t \in Tasks : Submit(t) \/ Resubmit(t) \/ Cancel(t) \/ ManualRetry(t)

Coroutine(w) ==
  \/ Begin(w) \/ OpenChat(w) \/ ConfigureModel(w) \/ Click(w) \/ ConfirmSent(w)
  \/ Answer(w) \/ UnusableAnswer(w) \/ UnsavedAnswer(w)
  \/ FailBeforeSend(w) \/ TimeoutInSend(w) \/ LoseOutcome(w)
  \/ PollSeesCancel(w)
  \/ ExternalUnsent(w) \/ ExternalFailed(w) \/ ExternalCancelled(w)
  \/ ExternalUnknown(w)
  \/ Rebuilt(w) \/ RebuildFails(w)
  \/ KillUnstarted(w) \/ KillExecuting(w) \/ KillRebuild(w)

Clock == \E t \in Tasks : DeadlinePasses(t) \/ RetryDue(t)

Process == Crash \/ Stop \/ Start

Next ==
  \/ Dispatcher \/ Api \/ Clock \/ Process
  \/ \E w \in Workers : Coroutine(w) \/ RecoverTab(w)

Spec == Init /\ [][Next]_vars

\* The event loop runs ready code, the clock advances, and every coroutine is
\* bounded by asyncio.timeout or the client's command timeout.  Coroutines get
\* strong fairness because a dispatcher pass only interrupts them: the pass
\* ends in asyncio.sleep, and the loop then runs whatever is ready.  Nothing is
\* assumed of clients, of crashes, or of a degraded worker's recovery.
Fairness ==
  /\ WF_vars(Dispatcher)
  /\ \A t \in Tasks : WF_vars(DeadlinePasses(t)) /\ WF_vars(RetryDue(t))
  /\ \A w \in Workers : SF_vars(Coroutine(w))
  /\ WF_vars(Start)

FairSpec == Spec /\ Fairness

-----------------------------------------------------------------------------
(* Properties.                                                             *)

\* Every variable has its type.
TypeOK ==
  /\ task \in [Tasks -> TaskRecord]
  /\ attempts \in [Tasks -> SUBSET Nat]
  /\ queue \in Seq(Tasks)
  /\ entry \in [Tasks -> QueuedView]
  /\ disp \in {"sleep", "scan", "recover"}
  /\ rows \in SUBSET Tasks
  /\ wstate \in [Workers -> {"off", "idle", "busy", "degraded"}]
  /\ cur \in [Workers -> Tasks \cup {0}]
  /\ pc \in [Workers -> Stages]
  /\ kill \in [Workers -> BOOLEAN]
  /\ up \in BOOLEAN
  /\ restarts \in Nat
  /\ dirty \in [Workers -> BOOLEAN]
  /\ sent \in [Tasks -> {"no", "clicked", "confirmed"}]

\* The coroutine of w may still change the status of cur[w]; "dead" counts,
\* since its worker shows the task for ever.
Owns(w) == pc[w] \notin {"none", "rebuild_finish"}

\* No task is with two workers at once, even while cancels, retries by hand
\* and workers that are still rebuilding their tab overlap (start_task,
\* mark_retry, pool.cancel_task).
SingleOwner ==
  \A v, w \in Workers : Owns(v) /\ Owns(w) /\ cur[v] = cur[w] => v = w

\* The queue stays within max_size, holds a task at most once, and never one
\* that a worker is on: _queued_ids and the several paths into
\* _enqueue_existing (submit, recovery, backoff, manual retry) agree.
QueueSound ==
  /\ Len(queue) <= MaxQueue
  /\ \A i, j \in 1..Len(queue) : queue[i] = queue[j] => i = j
  /\ \A w \in Workers : Owns(w) => ~InQueue(cur[w])

\* While the process is up, a running task nobody asked to cancel has a live
\* coroutine working on it: no exit of run_task forgets to mark its task.
RunningIsWorkedOn ==
  up => \A t \in Tasks :
          task[t].status = "running" /\ ~task[t].cancel =>
            \E w \in Workers : cur[w] = t /\ Owns(w) /\ pc[w] # "dead"

\* The INSERT of start_attempt never meets UNIQUE(task_id, attempt_number):
\* crashes between claim and attempt, manual and automatic retries all move
\* retries on before the task is claimed again.
AttemptNumberFresh ==
  \A w \in Workers :
    pc[w] = "spawned" => task[cur[w]].retries + 1 \notin attempts[cur[w]]

\* A prompt confirmed sent whose answer is unknown never waits for automatic
\* dispatch again: only a human retry sends it a second time.
ConfirmedNotReplayed ==
  \A t \in Tasks : task[t].status \in Pending => sent[t] # "confirmed"

\* The same for a click that merely may have arrived.
NeverReplayed ==
  \A t \in Tasks : task[t].status \in Pending => sent[t] = "no"

\* No target has more than Cap workers on tasks of the policy.
PolicyCap ==
  \A g \in Targets :
    Cardinality({w \in InFlight(g) : cur[w] \in Capped}) <= Cap

\* An idle worker's tab is not still generating an earlier answer.
IdleTabIsClean ==
  \A w \in Workers : wstate[w] = "idle" => ~dirty[w]

\* A terminal status is left only by a retry that counts as a new attempt,
\* and "done" never: late coroutines, stale queue objects and recovery after
\* a restart do not overwrite an outcome.
TerminalStable ==
  [][\A t \in Tasks :
       task[t].status \in Terminal /\ task'[t].status # task[t].status =>
         /\ task[t].status # "done"
         /\ task'[t].retries = task[t].retries + 1]_vars

\* A queued task with a cancel request goes to "cancelled", not to a worker.
CancelledIsNotClaimed ==
  [][\A t \in Tasks :
       task[t].status \in Pending /\ task[t].cancel =>
         task'[t].status # "running"]_vars

\* A prompt is not handed over once its task has a cancel request.
CancelledIsNotSent ==
  [][\A w \in Workers :
       pc[w] = "sending" /\ pc'[w] \in {"clicked", "generating"} =>
         ~task[cur[w]].cancel]_vars

\* A task expires only by its own, current queue deadline.
ExpiresByOwnDeadline ==
  [][\A t \in Tasks :
       task'[t].status = "expired" /\ task[t].status # "expired" =>
         task[t].late]_vars

\* A task that waits is eventually run, cancelled, expired or failed.
PendingResolves ==
  \A t \in Tasks : task[t].status \in Pending ~> task[t].status \notin Pending

\* A running task ends, unless somebody asked to cancel it.
RunningResolves ==
  \A t \in Tasks :
    task[t].status = "running" ~>
      \/ task[t].status # "running"
      \/ task[t].cancel

\* A running task that is cancelled ends.
CancelledRunEnds ==
  \A t \in Tasks :
    task[t].status = "running" /\ task[t].cancel ~> task[t].status # "running"

=============================================================================
