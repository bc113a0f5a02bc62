------------------------------ MODULE TaskStore ------------------------------
(***************************************************************************)
(* Memory and SQLite.  Relay takes a store operation for one step that     *)
(* always succeeds; here it is what it is: a change of the record in       *)
(* memory, then one transaction after the other, each of which may raise,  *)
(* with the process free to die between any two.  One worker slot and a    *)
(* set of tasks submitted under ONE idempotency key, one after another.    *)
(*                                                                         *)
(* sqlite3 opens a transaction by itself before an INSERT, UPDATE or       *)
(* DELETE.  update_attempt, create_attempt, append_event and delete_task   *)
(* do not roll back, so a failure there leaves the transaction open on the *)
(* connection; the next function that says BEGIN fails because of it and   *)
(* its rollback cleans up.  view is what the connection sees, disk what a  *)
(* restart would find.                                                     *)
(*                                                                         *)
(* An operation is synchronous.  While call # NoCall nothing else of the   *)
(* process runs; todo lists the writes still ahead, next is where the code *)
(* goes on after them, fail where an exception of one of them leads.       *)
(***************************************************************************)
EXTENDS Naturals, FiniteSets, Sequences

CONSTANTS
  NumTasks,     \* task ids that may be allocated under the key
  MaxRetries,   \* retry budget of a task
  RetryBound,   \* bound: manual retries stop once a task has had this many
  MaxFaults,    \* bound: writes that fail for a reason of their own
  MaxCrashes    \* bound: process crashes

Tasks == 1..NumTasks
Numbers == 1..(RetryBound + 1)

ASSUME StoreAssumption ==
  /\ NumTasks \in Nat \ {0}
  /\ MaxRetries \in Nat /\ RetryBound \in Nat /\ MaxRetries <= RetryBound
  /\ MaxFaults \in Nat /\ MaxCrashes \in Nat

Pending == {"queued", "retry_wait"}
Terminal == {"done", "failed", "cancelled", "expired", "interrupted",
             "outcome_unknown"}
Status == {"none", "running"} \cup Pending \cup Terminal

\* Time since finished_at: 0 not finished, 1 recent, then past
\* task.retention_seconds, past storage.terminal_retention_seconds and past
\* storage.metadata_retention_seconds, taken to be in this order.
Ages == 0..4
Evictable == 2
Redactable == 3
Deletable == 4

Outcomes == {"none", "open", "ok", "error", "unknown"}

VARIABLES
  mem,      \* mem[t]: TaskStore._tasks
  view,     \* [row, att]: tables tasks and task_attempts as the connection
            \* sees them; att[t][n] is how attempt number n of t ended
  disk,     \* the same, as committed
  open,     \* the connection is left inside a transaction
  queued,   \* _queued_ids
  pc,       \* the run_task coroutine: the await it is at
  at,       \* its task, 0 for none
  kill,     \* Task.cancel() called, CancelledError not yet raised; for good
            \* if that was before the coroutine's first step
  disp,     \* the dispatcher task is alive
  janitor,  \* the janitor task is alive
  call,     \* the synchronous function in progress
  up,       \* the process is running
  faults,   \* writes that failed so far
  crashes,  \* crashes so far
  sent      \* observed: "no" prompt out, or answered against the contract;
            \* "confirmed" by send_prompt; "recorded" as confirmed; "none": t
            \* is an id not yet used

tables == <<view, disk, open>>
slot == <<pc, at, kill>>
loops == <<disp, janitor>>
budget == <<faults, crashes>>
vars == <<mem, tables, queued, slot, loops, call, up, budget, sent>>

-----------------------------------------------------------------------------
(* Records.  cur is the attempt number of current_attempt_id, 0 for None.  *)

Record == [status : Status, cancel : BOOLEAN, retries : 0..RetryBound,
           cur : {0} \cup Numbers, text : {"full", "redacted"}, age : Ages]

NoRecord == [status |-> "none", cancel |-> FALSE, retries |-> 0, cur |-> 0,
             text |-> "full", age |-> 0]

NewRecord == [NoRecord EXCEPT !.status = "queued"]

\* mark_done and the other terminal marks: the status and finished_at.
Finished(r, s) == [r EXCEPT !.status = s, !.age = 1]

\* mark_retry; current_attempt_id stays.
Retried(r, s) == [r EXCEPT !.status = s, !.cancel = FALSE, !.age = 0,
                           !.retries = r.retries + 1]

NoAttempts == [n \in Numbers |-> "none"]
EmptyTables == [row |-> [t \in Tasks |-> NoRecord],
                att |-> [t \in Tasks |-> NoAttempts]]

Known(r) == r.status # "none"
SetMem(t, r) == mem' = [mem EXCEPT ![t] = r]

\* TaskStore.get: memory, then the table.
Get(t) == IF Known(mem[t]) THEN mem[t] ELSE view.row[t]

-----------------------------------------------------------------------------
(* Transactions.                                                           *)

\* Functions that BEGIN and roll back on an exception, and those that do not.
Guarded == {"row", "create", "lookup", "prune"}
Plain == {"insert", "note", "event", "delete", "ok", "error", "unknown"}

NoCall == [t |-> 0, todo |-> <<>>, next |-> "idle", fail |-> "idle"]

\* create finds a row of the key.
HasKey(v) == \E t \in Tasks : Known(v.row[t])

\* Mutant: no unique index on idempotency_key.
NoClash(v, t) == FALSE

\* The row of t would be the second with the key.
Clash(v, t) == \E u \in Tasks \ {t} : Known(v.row[u])

\* A UNIQUE or FOREIGN KEY constraint refuses the write.
Refused(w, t) ==
  \/ w \in {"row", "create"} /\ Clash(view, t)
  \/ /\ w = "insert"
     /\ \/ ~Known(view.row[t])
        \/ view.att[t][mem[t].retries + 1] # "none"
  \/ w = "event" /\ ~Known(view.row[t])

\* An attempt row is only updated if the record names it and it exists.
Closed(v, t, how) ==
  IF mem[t].cur = 0 \/ v.att[t][mem[t].cur] = "none" THEN v
  ELSE [v EXCEPT !.att[t][mem[t].cur] = how]

\* prune_terminal_tasks: redact, then delete with the attempts.
Pruned(v) ==
  LET old(t, age) == v.row[t].status \in Terminal /\ v.row[t].age >= age
  IN [row |-> [t \in Tasks |->
                 IF old(t, Deletable) THEN NoRecord
                 ELSE IF old(t, Redactable)
                      THEN [v.row[t] EXCEPT !.text = "redacted"]
                      ELSE v.row[t]],
      att |-> [t \in Tasks |->
                 IF old(t, Deletable) THEN NoAttempts ELSE v.att[t]]]

\* The tables after write w of task t.
Effect(v, t, w) ==
  CASE w = "row"    -> [v EXCEPT !.row[t] = mem[t]]
    [] w = "create" -> [v EXCEPT !.row[t] = NewRecord]
    [] w = "delete" -> [row |-> [v.row EXCEPT ![t] = NoRecord],
                        att |-> [v.att EXCEPT ![t] = NoAttempts]]
    [] w = "prune"  -> Pruned(v)
    [] w = "insert" -> [v EXCEPT !.att[t][mem[t].retries + 1] = "open"]
    [] w \in {"ok", "error", "unknown"} -> Closed(v, t, w)
    [] OTHER        -> v     \* lookup; note and event touch other columns

\* update_attempt returns at once when there is no current attempt.
Skipped(w, t) == w \in {"note", "ok", "error", "unknown"} /\ mem[t].cur = 0

Run(t, todo, next, fail) ==
  call' = [t |-> t, todo |-> todo, next |-> next, fail |-> fail]
Return == call' = NoCall

Writing == up /\ call # NoCall /\ call.todo # <<>>
Idle == up /\ call = NoCall

Write ==
  /\ Writing
  /\ LET w == Head(call.todo)
     IN /\ ~Refused(w, call.t)
        /\ w \in Guarded => ~open
        /\ IF Skipped(w, call.t) THEN UNCHANGED tables
           ELSE /\ view' = Effect(view, call.t, w)
                /\ disk' = view'
                /\ open' = FALSE
  /\ call' = [call EXCEPT !.todo = Tail(call.todo)]
  /\ UNCHANGED <<mem, queued, slot, loops, up, budget, sent>>

Raised == call' = [call EXCEPT !.todo = <<>>, !.next = call.fail]

\* A function that rolls back raises: BEGIN inside an open transaction, a
\* refused row, or a failure of the file.
RaiseGuarded ==
  /\ Writing /\ Head(call.todo) \in Guarded
  /\ \/ /\ open \/ Refused(Head(call.todo), call.t)
        /\ UNCHANGED faults
     \/ faults < MaxFaults /\ faults' = faults + 1
  /\ view' = disk /\ open' = FALSE
  /\ Raised
  /\ UNCHANGED <<mem, disk, queued, slot, loops, up, crashes, sent>>

\* One that does not: the statement is refused, or it fails, or its COMMIT
\* does.  SQLite ends the transaction itself on some of these errors.
RaisePlain ==
  /\ Writing /\ Head(call.todo) \in Plain
  /\ ~Skipped(Head(call.todo), call.t)
  /\ IF Refused(Head(call.todo), call.t)
     THEN open' = TRUE /\ UNCHANGED <<view, faults>>
     ELSE /\ faults < MaxFaults /\ faults' = faults + 1
          /\ \/ open' = FALSE /\ view' = disk
             \/ open' = TRUE /\ view' = view
             \/ open' = TRUE
                /\ view' = Effect(view, call.t, Head(call.todo))
  /\ Raised
  /\ UNCHANGED <<mem, disk, queued, slot, loops, up, crashes, sent>>

\* Tasks of other keys use the same connection: a function that does not roll
\* back commits what an earlier one left, one that does throws it away.
OtherTaskWrites ==
  /\ Idle /\ open
  /\ open' = FALSE
  /\ (disk' = view /\ UNCHANGED view) \/ (view' = disk /\ UNCHANGED disk)
  /\ UNCHANGED <<mem, queued, slot, loops, call, up, budget, sent>>

\* The writes are done and the code goes on at one of the labels.
Reaches(label) == up /\ call.todo = <<>> /\ call.next = label

-----------------------------------------------------------------------------
(* HTTP.  No handler awaits, and what the client is told is not modelled.  *)

\* submit_with_metadata
Submit(t) ==
  /\ Idle
  /\ \/ HasKey(view) /\ Known(view.row[t])
        /\ Run(t, <<"lookup">>, "reuse", "return")
     \/ ~HasKey(view) /\ sent[t] = "none"
        /\ (\A u \in 1..(t - 1) : sent[u] # "none")
        /\ Run(t, <<"create">>, "created", "return")
  /\ UNCHANGED <<mem, tables, queued, slot, loops, up, budget, sent>>

Reuse ==
  /\ Reaches("reuse")
  /\ SetMem(call.t, view.row[call.t]) /\ Return
  /\ UNCHANGED <<tables, queued, slot, loops, up, budget, sent>>

\* _enqueue_existing.  Tasks of other keys may have filled the queue.
Enqueue(t) == queued' = queued \cup {t}
QueueFull(t) == t \notin queued /\ UNCHANGED queued

\* Mutant: a task that is discarded again stays in the queue.
CreatedStillQueued ==
  /\ Reaches("created")
  /\ SetMem(call.t, view.row[call.t])
  /\ sent' = [sent EXCEPT ![call.t] = "no"]
  /\ Enqueue(call.t)
  /\ Return \/ Run(call.t, <<"delete">>, "discarded", "return")
  /\ UNCHANGED <<tables, slot, loops, up, budget>>

Created ==
  /\ Reaches("created")
  /\ SetMem(call.t, view.row[call.t])
  /\ sent' = [sent EXCEPT ![call.t] = "no"]
  /\ \/ Enqueue(call.t) /\ Return
     \/ QueueFull(call.t) /\ Run(call.t, <<"delete">>, "discarded", "return")
  /\ UNCHANGED <<tables, slot, loops, up, budget>>

Discarded ==
  /\ Reaches("discarded")
  /\ SetMem(call.t, NoRecord) /\ Return
  /\ UNCHANGED <<tables, queued, slot, loops, up, budget, sent>>

\* cancel_task: request_cancel, then pool.cancel_task.
Cancel(t) ==
  /\ Idle
  /\ Get(t).status \in Pending \cup {"running"} /\ ~Get(t).cancel
  /\ SetMem(t, [Get(t) EXCEPT !.cancel = TRUE])
  /\ Run(t, <<"row">>, "stop worker", "return")
  /\ UNCHANGED <<tables, queued, slot, loops, up, budget, sent>>

StopWorker ==
  /\ Reaches("stop worker")
  /\ kill' = (kill \/ (at = call.t)) /\ Return
  /\ UNCHANGED <<mem, tables, queued, pc, at, loops, up, budget, sent>>

\* retry_task: mark_retry, then _enqueue_existing.
ManualRetry(t) ==
  /\ Idle
  /\ Get(t).status \in Terminal \ {"done"} /\ Get(t).retries < RetryBound
  /\ SetMem(t, Retried(Get(t), "queued"))
  /\ sent' = [sent EXCEPT ![t] = "no"]
  /\ Run(t, <<"error", "row">>, "enqueue by hand", "return")
  /\ UNCHANGED <<tables, queued, slot, loops, up, budget>>

\* _enqueue_existing after a mark_retry; on QueueFull the callers mark the
\* task failed.
Requeue(end) ==
  \/ Enqueue(call.t) /\ Run(call.t, <<>>, end, end) /\ UNCHANGED mem
  \/ /\ QueueFull(call.t)
     /\ SetMem(call.t, Finished(mem[call.t], "failed"))
     /\ Run(call.t, <<"error", "row">>, end, end)

EnqueueByHand ==
  /\ Reaches("enqueue by hand")
  /\ Requeue("return")
  /\ UNCHANGED <<tables, slot, loops, up, budget, sent>>

\* The handler answers, or the loop pass is over.
Returned ==
  /\ Reaches("return") /\ Return
  /\ UNCHANGED <<mem, tables, queued, slot, loops, up, budget, sent>>

-----------------------------------------------------------------------------
(* The dispatcher.  Deadlines and backoff pass at any time.  An exception   *)
(* of a store operation ends _dispatch_loop for good.                       *)

Dispatching == Idle /\ disp

DropCancelled(t) ==
  /\ Dispatching /\ t \in queued /\ mem[t].cancel
  /\ queued' = queued \ {t}
  /\ SetMem(t, Finished(mem[t], "cancelled"))
  /\ Run(t, <<"error", "row">>, "return", "dispatcher dies")
  /\ UNCHANGED <<tables, slot, loops, up, budget, sent>>

\* mark_expired, the one terminal mark without finish_attempt: from the queue,
\* or from the rows of a recovery pass.
DropExpired(t) ==
  /\ Dispatching
  /\ \/ t \in queued /\ ~mem[t].cancel
        /\ SetMem(t, Finished(mem[t], "expired"))
     \/ t \notin queued /\ view.row[t].status \in Pending
        /\ SetMem(t, Finished(view.row[t], "expired"))
  /\ queued' = queued \ {t}
  /\ Run(t, <<"row">>, "return", "dispatcher dies")
  /\ UNCHANGED <<tables, slot, loops, up, budget, sent>>

\* list_recoverable and _enqueue_existing for every row, up to QueueFull.
RecoverPending ==
  /\ Dispatching
  /\ LET due == {t \in Tasks : view.row[t].status \in Pending}
     IN /\ due # {}
        /\ mem' = [t \in Tasks |-> IF t \in due THEN view.row[t] ELSE mem[t]]
        /\ \E fits \in SUBSET due : queued' = queued \cup fits
  /\ UNCHANGED <<tables, slot, loops, call, up, budget, sent>>

\* An adaptive task: the decision is recorded, then mark_running, start_task.
Claim(t) ==
  /\ Dispatching /\ t \in queued /\ ~mem[t].cancel /\ pc = "none"
  /\ queued' = queued \ {t}
  /\ Run(t, <<"event">>, "mark running", "dispatcher dies")
  /\ UNCHANGED <<mem, tables, slot, loops, up, budget, sent>>

MarkRunning ==
  /\ Reaches("mark running")
  /\ SetMem(call.t, [mem[call.t] EXCEPT !.status = "running"])
  /\ Run(call.t, <<"row">>, "start task", "dispatcher dies")
  /\ UNCHANGED <<tables, queued, slot, loops, up, budget, sent>>

StartTask ==
  /\ Reaches("start task")
  /\ pc' = "spawned" /\ at' = call.t /\ Return
  /\ UNCHANGED <<mem, tables, queued, kill, loops, up, budget, sent>>

DispatcherDies ==
  /\ Reaches("dispatcher dies")
  /\ disp' = FALSE /\ Return
  /\ UNCHANGED <<mem, tables, queued, slot, janitor, up, budget, sent>>

-----------------------------------------------------------------------------
(* run_task of a browser worker.  pc is "busy" from one await to the next.  *)

AtAwait(stages) == Idle /\ pc \in stages /\ ~kill
Busy == pc' = "busy" /\ UNCHANGED <<at, kill>>
Await(stage) == pc' = stage /\ Return /\ UNCHANGED <<at, kill>>

\* Mutant: the audit row is written after the prompt.
BeginUnaudited ==
  /\ AtAwait({"spawned"}) /\ Busy
  /\ SetMem(at, [mem[at] EXCEPT !.cur = mem[at].retries + 1])
  /\ Run(at, <<"row">>, "execute", "failed early")
  /\ UNCHANGED <<tables, queued, loops, up, budget, sent>>

\* start_attempt: name the attempt in the record, then insert it.
Begin ==
  /\ AtAwait({"spawned"}) /\ Busy
  /\ SetMem(at, [mem[at] EXCEPT !.cur = mem[at].retries + 1])
  /\ Run(at, <<"row">>, "audit", "failed early")
  /\ UNCHANGED <<tables, queued, loops, up, budget, sent>>

Audit ==
  /\ Reaches("audit")
  /\ Run(at, <<"insert">>, "execute", "not audited")
  /\ UNCHANGED <<mem, tables, queued, slot, loops, up, budget, sent>>

NotAudited ==
  /\ Reaches("not audited")
  /\ SetMem(at, [mem[at] EXCEPT !.cur = 0])
  /\ Run(at, <<"row">>, "failed early", "failed early")
  /\ UNCHANGED <<tables, queued, slot, loops, up, budget, sent>>

\* The cancel checks, set_phase up to "sending" and the await of send_prompt.
Execute ==
  /\ Reaches("execute")
  /\ IF mem[at].cancel
     THEN /\ SetMem(at, Finished(mem[at], "cancelled"))
          /\ Run(at, <<"error", "row">>, "release", "release")
     ELSE Run(at, <<"note", "row", "note">>, "send", "failed early")
          /\ UNCHANGED mem
  /\ UNCHANGED <<tables, queued, slot, loops, up, budget, sent>>

Send ==
  /\ Reaches("send")
  /\ Await("sending")
  /\ UNCHANGED <<mem, tables, queued, loops, up, budget, sent>>

\* send_prompt returns: the prompt is on its way, and that is recorded by
\* set_phase(verifying_send) and update_attempt(send_state="sent_confirmed").
PromptConfirmed ==
  /\ AtAwait({"sending"}) /\ Busy
  /\ sent' = [sent EXCEPT ![at] = "confirmed"]
  /\ Run(at, <<"note", "row", "note">>, "recorded", "failed early")
  /\ UNCHANGED <<mem, tables, queued, loops, up, budget>>

PromptRecorded ==
  /\ Reaches("recorded")
  /\ sent' = [sent EXCEPT ![at] = "recorded"]
  /\ Await("generating")
  /\ UNCHANGED <<mem, tables, queued, loops, up, budget>>

\* An exception before the prompt counts as sent: rebuild the tab, then retry.
PromptNotSent ==
  /\ AtAwait({"sending"})
  /\ Await("rebuilding")
  /\ UNCHANGED <<mem, tables, queued, loops, up, budget, sent>>

FailedEarly ==
  /\ Reaches("failed early")
  /\ Await("rebuilding")
  /\ UNCHANGED <<mem, tables, queued, loops, up, budget, sent>>

\* mark_outcome_unknown, its exceptions suppressed.
Unknown ==
  /\ SetMem(at, Finished(mem[at], "outcome_unknown"))
  /\ Run(at, <<"unknown", "row">>, "release", "release")

\* Mutant: every exception is taken for one before the prompt.
OutcomeLostRetried ==
  /\ AtAwait({"sending", "generating"})
  /\ Await("rebuilding")
  /\ UNCHANGED <<mem, tables, queued, loops, up, budget, sent>>

\* SendOutcomeUnknownError, SentTaskError, TaskTimeoutError.
OutcomeLost ==
  /\ AtAwait({"sending", "generating"}) /\ Busy
  /\ Unknown
  /\ UNCHANGED <<tables, queued, loops, up, budget, sent>>

\* One turn of the poll loop: _check_cancel, set_phase(generating), poll_once.
Poll ==
  /\ AtAwait({"generating"}) /\ ~mem[at].cancel /\ Busy
  /\ Run(at, <<"note", "row">>, "recorded", "unreliable")
  /\ UNCHANGED <<mem, tables, queued, loops, up, budget, sent>>

\* mark_done up to validation: the result keeps to the contract or not.
Answered ==
  /\ AtAwait({"generating"}) /\ Busy
  /\ \/ Run(at, <<"note", "row">>, "valid", "unreliable") /\ UNCHANGED sent
     \/ /\ Run(at, <<"note", "row", "note", "row">>, "on retry", "unreliable")
        /\ sent' = [sent EXCEPT ![at] = "no"]
  /\ UNCHANGED <<mem, tables, queued, loops, up, budget>>

\* Mutant: the row says done before the attempt is closed.
ValidRowFirst ==
  /\ Reaches("valid")
  /\ SetMem(at, Finished(mem[at], "done"))
  /\ Run(at, <<"row", "ok">>, "release", "unreliable")
  /\ UNCHANGED <<tables, queued, slot, loops, up, budget, sent>>

\* The rest of mark_done.
Valid ==
  /\ Reaches("valid")
  /\ SetMem(at, Finished(mem[at], "done"))
  /\ Run(at, <<"ok", "row">>, "release", "unreliable")
  /\ UNCHANGED <<tables, queued, slot, loops, up, budget, sent>>

\* Any exception of mark_done, or of a set_phase while generating: the
\* record says outcome_unknown before the database is tried again.
Unreliable ==
  /\ Reaches("unreliable")
  /\ Unknown
  /\ UNCHANGED <<tables, queued, slot, loops, up, budget, sent>>

\* _on_retry_needed: at once for a result that breaks the contract, after
\* the tab is rebuilt otherwise.
Rebuilt ==
  /\ AtAwait({"rebuilding"}) /\ Busy
  /\ Run(at, <<>>, "on retry", "on retry")
  /\ UNCHANGED <<mem, tables, queued, loops, up, budget, sent>>

OnRetry ==
  /\ Reaches("on retry")
  /\ IF mem[at].retries >= MaxRetries
     THEN /\ SetMem(at, Finished(mem[at], "failed"))
          /\ Run(at, <<"error", "row">>, "release", "release")
     ELSE /\ SetMem(at, Retried(mem[at], "retry_wait"))
          /\ Run(at, <<"error", "row">>, "requeue", "release")
  /\ UNCHANGED <<tables, queued, slot, loops, up, budget, sent>>

EnqueueRetry ==
  /\ Reaches("requeue")
  /\ Requeue("release")
  /\ UNCHANGED <<tables, slot, loops, up, budget, sent>>

\* CancelledError, or _check_cancel of a poll after a cancel whose row could
\* not be written: in the try block the task is marked, in the handler that
\* rebuilds the tab it is not.  A coroutine that is cancelled before its first
\* step never runs, and its slot stays busy.
Cancelled ==
  /\ Idle
  /\ \/ kill /\ pc # "spawned"
     \/ pc = "generating" /\ mem[at].cancel
  /\ kill' = FALSE /\ pc' = "busy" /\ UNCHANGED at
  /\ IF pc = "rebuilding"
     THEN Run(at, <<>>, "release", "release") /\ UNCHANGED mem
     ELSE /\ SetMem(at, Finished(mem[at], "cancelled"))
          /\ Run(at, <<"error", "row">>, "release", "release")
  /\ UNCHANGED <<tables, queued, loops, up, budget, sent>>

\* The finally clause.
Release ==
  /\ Reaches("release")
  /\ pc' = "none" /\ at' = 0 /\ kill' = FALSE /\ Return
  /\ UNCHANGED <<mem, tables, queued, loops, up, budget, sent>>

-----------------------------------------------------------------------------
(* Retention, crash and restart.                                            *)

Older(r) == IF r.age \in 1..3 THEN [r EXCEPT !.age = r.age + 1] ELSE r

\* Time passes until one more limit is reached by everything that is finished.
Tick ==
  /\ Idle /\ pc = "none" /\ queued = {}
  /\ \E t \in Tasks : 1 <= Get(t).age /\ Get(t).age <= 3
  /\ mem' = [t \in Tasks |-> Older(mem[t])]
  /\ view' = [view EXCEPT !.row = [t \in Tasks |-> Older(view.row[t])]]
  /\ disk' = [disk EXCEPT !.row = [t \in Tasks |-> Older(disk.row[t])]]
  /\ UNCHANGED <<open, queued, slot, loops, call, up, budget, sent>>

\* _sweep: prune the tables, then evict old terminal records from memory.
Sweep ==
  /\ Idle /\ janitor
  /\ Run(0, <<"prune">>, "evict", "janitor dies")
  /\ UNCHANGED <<mem, tables, queued, slot, loops, up, budget, sent>>

Evict ==
  /\ Reaches("evict")
  /\ mem' = [t \in Tasks |->
       IF mem[t].status \in Terminal /\ mem[t].age >= Evictable
       THEN NoRecord ELSE mem[t]]
  /\ Return
  /\ UNCHANGED <<tables, queued, slot, loops, up, budget, sent>>

JanitorDies ==
  /\ Reaches("janitor dies")
  /\ janitor' = FALSE /\ Return
  /\ UNCHANGED <<mem, tables, queued, slot, disp, up, budget, sent>>

\* The process dies; what was not committed is gone.
Crash ==
  /\ up /\ crashes < MaxCrashes
  /\ up' = FALSE /\ crashes' = crashes + 1
  /\ mem' = [t \in Tasks |-> NoRecord]
  /\ view' = disk /\ open' = FALSE
  /\ queued' = {} /\ pc' = "none" /\ at' = 0 /\ kill' = FALSE
  /\ Return
  /\ UNCHANGED <<disk, loops, faults, sent>>

\* Mutant: the attempts of interrupted tasks stay open.
RecoveredRowsOnly(v) ==
  [v EXCEPT !.row = [t \in Tasks |->
     IF v.row[t].status = "running" THEN Finished(v.row[t], "interrupted")
     ELSE v.row[t]]]

\* recover_unfinished, one transaction.
Recovered(v) ==
  LET running == {t \in Tasks : v.row[t].status = "running"}
  IN [row |-> [t \in Tasks |->
                 IF t \in running THEN Finished(v.row[t], "interrupted")
                 ELSE v.row[t]],
      att |-> [t \in Tasks |->
                 [n \in Numbers |->
                    IF t \in running /\ v.att[t][n] = "open" THEN "error"
                    ELSE v.att[t][n]]]]

\* lifespan: init, recover_unfinished, store and pool started.
Restart ==
  /\ ~up
  /\ up' = TRUE /\ disp' = TRUE /\ janitor' = TRUE
  /\ disk' = Recovered(disk) /\ view' = disk'
  /\ UNCHANGED <<mem, open, queued, slot, call, budget, sent>>

-----------------------------------------------------------------------------
Init ==
  /\ mem = [t \in Tasks |-> NoRecord]
  /\ view = EmptyTables /\ disk = EmptyTables /\ open = FALSE
  /\ queued = {} /\ pc = "none" /\ at = 0 /\ kill = FALSE
  /\ disp = TRUE /\ janitor = TRUE /\ call = NoCall
  /\ up = TRUE /\ faults = 0 /\ crashes = 0
  /\ sent = [t \in Tasks |-> "none"]

Transaction == Write \/ RaiseGuarded \/ RaisePlain \/ OtherTaskWrites

Http ==
  \/ \E t \in Tasks : Submit(t) \/ Cancel(t) \/ ManualRetry(t)
  \/ Reuse \/ Created \/ Discarded \/ StopWorker \/ EnqueueByHand \/ Returned

Dispatcher ==
  \/ \E t \in Tasks : DropCancelled(t) \/ DropExpired(t) \/ Claim(t)
  \/ RecoverPending \/ MarkRunning \/ StartTask \/ DispatcherDies

Worker ==
  \/ Begin \/ Audit \/ NotAudited \/ Execute \/ Send
  \/ PromptConfirmed \/ PromptRecorded \/ PromptNotSent \/ FailedEarly
  \/ OutcomeLost \/ Poll \/ Answered \/ Valid \/ Unreliable
  \/ Rebuilt \/ OnRetry \/ EnqueueRetry \/ Cancelled \/ Release

Retention == Tick \/ Sweep \/ Evict \/ JanitorDies

Next == Transaction \/ Http \/ Dispatcher \/ Worker \/ Retention
          \/ Crash \/ Restart

Spec == Init /\ [][Next]_vars

-----------------------------------------------------------------------------
(* Properties.                                                              *)

Labels == {"idle", "return", "reuse", "created", "discarded", "stop worker",
           "enqueue by hand", "mark running", "start task", "dispatcher dies",
           "audit", "not audited", "execute", "send", "recorded",
           "failed early", "valid", "unreliable", "on retry", "requeue",
           "release", "evict", "janitor dies"}

Tables == [row : [Tasks -> Record], att : [Tasks -> [Numbers -> Outcomes]]]

(* The values the variables take.                                           *)
TypeOK ==
  /\ mem \in [Tasks -> Record]
  /\ view \in Tables /\ disk \in Tables /\ open \in BOOLEAN
  /\ queued \subseteq Tasks /\ at \in {0} \cup Tasks /\ kill \in BOOLEAN
  /\ pc \in {"none", "busy", "spawned", "sending", "generating", "rebuilding"}
  /\ disp \in BOOLEAN /\ janitor \in BOOLEAN /\ up \in BOOLEAN
  /\ call \in [t : {0} \cup Tasks, todo : Seq(Guarded \cup Plain),
               next : Labels, fail : Labels]
  /\ faults \in 0..MaxFaults /\ crashes \in 0..MaxCrashes
  /\ sent \in [Tasks -> {"none", "no", "confirmed", "recorded"}]

\* While a prompt is out, a restart would find the task running and its
\* attempt open under the number the record counts to.
SentIsAudited ==
  up /\ pc \in {"sending", "generating"} =>
    LET n == mem[at].retries + 1
    IN /\ disk.row[at].status = "running" /\ disk.row[at].cur = n
       /\ disk.att[at][n] = "open"

\* UNIQUE(task_id, attempt_number) never refuses an attempt.
AttemptNumberFresh ==
  Writing /\ Head(call.todo) = "insert" =>
    view.att[call.t][mem[call.t].retries + 1] = "none"

(* Whatever writes failed before, whatever was resubmitted, restarted or    *)
(* pruned, a prompt is only out under an attempt that is on disk, and the   *)
(* number of a new attempt is never taken ("an attempt whose audit cannot   *)
(* be created must not go on", start_attempt).                              *)
AuditSound == SentIsAudited /\ AttemptNumberFresh

\* The API says done only of a task whose row is committed as done.
DoneIsDurable ==
  Idle => \A t \in Tasks :
            mem[t].status = "done" => disk.row[t].status = "done"

\* A row says done only when its attempt is closed as a success.
DoneHasOkAttempt ==
  \A t \in Tasks : disk.row[t].status = "done" =>
                     disk.att[t][disk.row[t].cur] = "ok"

(* mark_done is a change in memory and three transactions.  A failure of    *)
(* any of them, or a crash between two, never shows a client a result that  *)
(* a restart would take back, nor leaves a done task with an attempt that   *)
(* is open, failed or unknown (mark_done and the handler around it).        *)
DoneIsTrue == DoneIsDurable /\ DoneHasOkAttempt

\* An open attempt is the current one of a running row.
OpenAttemptIsRunning ==
  \A t \in Tasks : \A n \in Numbers :
    disk.att[t][n] = "open" =>
      disk.row[t].status = "running" /\ disk.row[t].cur = n

\* Between two steps of the loop memory is a copy of the table.
WrittenThrough ==
  Idle => \A t \in Tasks : Known(mem[t]) => mem[t] = disk.row[t]

(* Crashes and retention alone, without a failing write, lose nothing: each *)
(* open attempt is one recover_unfinished will find, no path forgets to     *)
(* persist a change, and eviction, redaction and deletion agree about what  *)
(* is old (recover_unfinished, _sweep, prune_terminal_tasks).  With writes   *)
(* that fail the variables still keep their types.                          *)
NothingForgotten ==
  TypeOK /\ (faults = 0 => OpenAttemptIsRunning /\ WrittenThrough)

(* Two tasks under one idempotency key are never both on their way to a     *)
(* provider, although a discard may fail, rows are deleted after their      *)
(* retention, and memory may hold a task whose row is gone.                 *)
Underway(t) ==
  t \in queued \/ at = t \/ disk.row[t].status \in Pending \cup {"running"}

OneTaskPerKey == \A t, u \in Tasks : Underway(t) /\ Underway(u) => t = u

(* Only a failed write ends the dispatcher or the janitor.                  *)
LoopsSurvive == up /\ faults = 0 => disp /\ janitor

(* A prompt whose confirmation has been recorded is not sent again without  *)
(* a manual retry, whatever fails later.                                    *)
RecordedNotReplayed ==
  [][pc # "sending" /\ pc' = "sending" => sent[at'] # "recorded"]_vars

(* The same of every confirmed prompt ("errors before the send may be       *)
(* retried, errors after it are not replayed", _execute).  It does not      *)
(* hold: recording the confirmation is itself outside the protected block.  *)
ConfirmedNotReplayed ==
  [][pc # "sending" /\ pc' = "sending"
       => sent[at'] \notin {"confirmed", "recorded"}]_vars

(* What goes to a provider is the text the client submitted ("the original  *)
(* business prompt is always persisted", execution_prompt).  It does not    *)
(* hold for a manual retry after redaction.                                 *)
OriginalPromptSent == pc = "sending" => mem[at].text = "full"
=============================================================================
