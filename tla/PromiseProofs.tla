--------------------------- MODULE PromiseProofs ----------------------------
(***************************************************************************)
(* What Relay owes a task, on top of the ownership of RelayProofs.         *)
(*                                                                         *)
(* Attempts: RunningIsWorkedOn, AttemptNumberFresh and                     *)
(* ConfirmedNotReplayed for every configuration, NeverReplayed and         *)
(* CancelledIsNotSent where no target is a browser. The inductive          *)
(* invariant says, of a task, what the next worker relies on (Ready) and   *)
(* from when it holds: on the queue, pending, and until the coroutine has  *)
(* taken its first step. Ready is lost when the attempt is inserted and    *)
(* when the prompt is confirmed sent, and only retries + 1, and a known    *)
(* answer or a human, bring it back.                                       *)
(*                                                                         *)
(* Promises: Relay implements TaskLifecycle for every task, and an outcome *)
(* is not overwritten: KeepsPromises and TerminalStable, for every         *)
(* deployment in which a restart leaves every pinned task a target. The    *)
(* steps to worry about are those of the dispatcher, which acts on what it *)
(* reads off a queued object and not on the status. ViewInv says what the  *)
(* two have to do with one another: a queued object may be a stale copy,   *)
(* but not one whose deadline is missing, and an object that outlived its  *)
(* task's expiry can only expire again.                                    *)
(***************************************************************************)
EXTENDS RelayProofs, RelayRefinement

-----------------------------------------------------------------------------
(* Attempts.                                                               *)

(* Every attempt in the store was counted by mark_retry. *)
Fresh(t) == \A n \in attempts[t] : n <= task[t].retries

Ready(t) == Fresh(t) /\ sent[t] # "confirmed"

(* A live coroutine works on t, if one has to. *)
Worked(t) ==
  task[t].status = "running" /\ ~task[t].cancel =>
    \E w \in Workers : cur[w] = t /\ Owns(w) /\ pc[w] # "dead"

TaskInv(t) ==
  /\ task[t].status = "none" =>
       task[t].retries = 0 /\ attempts[t] = {} /\ sent[t] = "no"
  /\ Has(queue, t) \/ task[t].status \in Pending => Ready(t)
  /\ \A n \in attempts[t] : n <= task[t].retries + 1

WorkerInv(w) ==
  /\ pc[w] = "spawned" => Ready(cur[w])
  /\ Owns(w) /\ sent[cur[w]] = "confirmed" => pc[w] = "generating"
  /\ kill[w] => pc[w] # "none" /\ (Owns(w) => task[cur[w]].cancel)

AttInv ==
  /\ \A t \in Tasks : TaskInv(t) /\ (up => Worked(t))
  /\ \A w \in Workers : WorkerInv(w)

-----------------------------------------------------------------------------
(* Four shapes of step. *)

(* Nothing the invariant reads moves, except that a cancel is requested. *)
LEMMA StillStep ==
  ASSUME TypeInv, OwnInv, AttInv,
         UNCHANGED <<pc, cur, queue, up, attempts, sent, kill>>,
         \A t \in Tasks : /\ task'[t].status = task[t].status
                          /\ task'[t].retries = task[t].retries
                          /\ task'[t].cancel = task[t].cancel
  PROVE  AttInv'
<1>1. \A w \in Workers : Owns(w) => cur[w] \in Tasks
  BY DEF TypeInv, Owns
<1>2. ASSUME NEW t \in Tasks
      PROVE  TaskInv(t)' /\ (up' => Worked(t)')
  BY <1>2 DEF AttInv, TaskInv, Worked, Ready, Fresh, Owns
<1>3. ASSUME NEW w \in Workers
      PROVE  WorkerInv(w)'
  BY <1>1, <1>3 DEF AttInv, WorkerInv, Ready, Fresh, Owns
<1> QED
  BY <1>2, <1>3 DEF AttInv

(* A task that no worker runs is rewritten. *)
LEMMA UnownedAttempt ==
  ASSUME TypeInv, OwnInv, AttInv, NEW t \in Tasks, task[t].status # "running",
         UNCHANGED <<pc, cur, kill, up, attempts>>,
         \A u \in Tasks : u # t => /\ task'[u] = task[u] /\ sent'[u] = sent[u]
                                   /\ Has(queue', u) => Has(queue, u),
         task'[t].status # "running", TaskInv(t)'
  PROVE  AttInv'
<1>1. \A w \in Workers : Owns(w) => cur[w] \in Tasks /\ cur[w] # t
  BY DEF TypeInv, Owns, OwnInv, OwnedRunning
<1>2. ASSUME NEW u \in Tasks
      PROVE  TaskInv(u)' /\ (up' => Worked(u)')
  BY <1>2 DEF AttInv, TaskInv, Worked, Ready, Fresh, Owns
<1>3. ASSUME NEW w \in Workers
      PROVE  WorkerInv(w)'
  BY <1>1, <1>3 DEF AttInv, WorkerInv, Ready, Fresh, Owns
<1> QED
  BY <1>2, <1>3 DEF AttInv

(* One coroutine steps. *)
LEMMA AttemptStep ==
  ASSUME TypeInv, OwnInv, AttInv, NEW w \in Workers, NEW t \in Tasks, cur[w] = t,
         Owns(w) \/ UNCHANGED <<task, queue, attempts, sent>>,
         \A v \in Workers : v # w => /\ pc'[v] = pc[v] /\ cur'[v] = cur[v]
                                     /\ kill'[v] = kill[v],
         \A u \in Tasks : u # t =>
            /\ task'[u] = task[u] /\ sent'[u] = sent[u] /\ attempts'[u] = attempts[u]
            /\ Has(queue', u) => Has(queue, u),
         UNCHANGED up,
         Owns(w) => TaskInv(t)' /\ (up => Worked(t)'),
         WorkerInv(w)'
  PROVE  AttInv'
<1>1. \A v \in Workers : Owns(v) => cur[v] \in Tasks
  BY DEF TypeInv, Owns
<1>2. Owns(w) => \A v \in Workers : v # w /\ Owns(v) => cur[v] # cur[w]
  BY DEF OwnInv, SingleOwner
<1>3. ASSUME NEW v \in Workers
      PROVE  WorkerInv(v)'
  <2>1. CASE v = w
    BY <2>1
  <2>2. CASE v # w /\ Owns(v)
    <3>1. /\ pc'[v] = pc[v] /\ cur'[v] = cur[v] /\ kill'[v] = kill[v]
          /\ task'[cur[v]] = task[cur[v]] /\ sent'[cur[v]] = sent[cur[v]]
          /\ attempts'[cur[v]] = attempts[cur[v]]
      BY <1>1, <1>2, <2>2
    <3> QED
      BY <2>2, <3>1 DEF AttInv, WorkerInv, Ready, Fresh, Owns
  <2>3. CASE v # w /\ ~Owns(v)
    <3>1. pc[v] # "spawned" /\ ~Owns(v)' /\ pc'[v] = pc[v] /\ kill'[v] = kill[v]
      BY <2>3 DEF Owns
    <3> QED
      BY <2>3, <3>1 DEF AttInv, WorkerInv
  <2> QED
    BY <2>1, <2>2, <2>3
<1>4. ASSUME NEW u \in Tasks, u # t \/ ~Owns(w)
      PROVE  TaskInv(u)' /\ (up' => Worked(u)')
  <2>1. /\ task'[u] = task[u] /\ sent'[u] = sent[u] /\ attempts'[u] = attempts[u]
        /\ Has(queue', u) => Has(queue, u)
    BY <1>4
  <2>2. TaskInv(u)'
    BY <2>1 DEF AttInv, TaskInv, Ready, Fresh
  <2>3. ASSUME NEW v \in Workers, cur[v] = u, Owns(v), pc[v] # "dead"
        PROVE  cur'[v] = u /\ Owns(v)' /\ pc'[v] # "dead"
    BY <1>4, <2>3 DEF Owns
  <2>4. up' => Worked(u)'
    BY <2>1, <2>3 DEF AttInv, Worked
  <2> QED
    BY <2>2, <2>4
<1>5. ASSUME NEW u \in Tasks
      PROVE  TaskInv(u)' /\ (up' => Worked(u)')
  <2>1. CASE u # t \/ ~Owns(w)
    BY <1>4, <2>1
  <2>2. CASE u = t /\ Owns(w)
    BY <2>2
  <2> QED
    BY <2>1, <2>2
<1> QED
  BY <1>3, <1>5 DEF AttInv

-----------------------------------------------------------------------------
(* What the shared operators do to a task. *)

(* _enqueue_existing puts the given record in the store, or its failed one; *)
(* a task that is not on the queue yet enters with the record.              *)
LEMMA ReenqueueAttempt ==
  ASSUME TypeInv, NEW t \in Tasks, NEW r \in TaskRecord, r.status \in Pending,
         Reenqueue(t, r)
  PROVE  /\ \A u \in Tasks : u # t => /\ task'[u] = task[u]
                                      /\ Has(queue', u) => Has(queue, u)
         /\ task'[t] \in TaskRecord
         /\ task'[t].status \in {r.status, "failed"}
         /\ task'[t].retries = r.retries
<1>1. /\ Marked(r, "failed") \in TaskRecord
      /\ Marked(r, "failed").status = "failed"
      /\ Marked(r, "failed").retries = r.retries
  BY MarkedFacts DEF Status, Terminal
<1>2. SetTask(t, r) \/ SetTask(t, Marked(r, "failed"))
  BY DEF Reenqueue
<1>3. /\ \A u \in Tasks : u # t => task'[u] = task[u]
      /\ task'[t] \in {r, Marked(r, "failed")}
  BY <1>2 DEF SetTask, TypeInv, TypeOK
<1>4. ASSUME NEW u \in Tasks, u # t, Has(queue', u)
      PROVE  Has(queue, u)
  <2>1. CASE queue' = queue
    BY <1>4, <2>1
  <2>2. CASE queue' = Append(queue, t)
    <3>1. queue \in Seq(Tasks) /\ Len(queue) \in Nat
      BY LenProperties DEF TypeInv, TypeOK
    <3>2. /\ Len(Append(queue, t)) = Len(queue) + 1
          /\ \A i \in 1..Len(queue) : Append(queue, t)[i] = queue[i]
          /\ Append(queue, t)[Len(queue) + 1] = t
      BY <3>1, AppendProperties
    <3> QED
      BY <1>4, <2>2, <3>1, <3>2 DEF Has
  <2> QED
    BY <2>1, <2>2 DEF Reenqueue, queueVars
<1> QED
  BY <1>1, <1>3, <1>4

LEMMA OnRetryAttempt ==
  ASSUME TypeInv, NEW t \in Tasks, OnRetry(t)
  PROVE  /\ \A u \in Tasks : u # t => /\ task'[u] = task[u]
                                      /\ Has(queue', u) => Has(queue, u)
         /\ task'[t].status \in Pending \cup {"failed"}
         /\ \/ task'[t].retries = task[t].retries + 1
            \/ /\ task'[t].status = "failed" /\ UNCHANGED queue
               /\ task'[t].retries = task[t].retries
<1>1. task[t] \in TaskRecord
  BY DEF TypeInv, TypeOK
<1>2. CASE Reenqueue(t, MarkedRetry(task[t], TRUE))
  <2>1. /\ MarkedRetry(task[t], TRUE) \in TaskRecord
        /\ MarkedRetry(task[t], TRUE).status \in Pending
        /\ MarkedRetry(task[t], TRUE).retries = task[t].retries + 1
    BY <1>1, MarkedRetryFacts
  <2> QED
    BY <1>2, <2>1, ReenqueueAttempt
<1>3. CASE SetTask(t, Marked(task[t], "failed")) /\ UNCHANGED queueVars
  <2>1. /\ Marked(task[t], "failed").status = "failed"
        /\ Marked(task[t], "failed").retries = task[t].retries
    BY <1>1, MarkedFacts DEF Status, Terminal
  <2> QED
    BY <1>3, <2>1 DEF SetTask, TypeInv, TypeOK, queueVars
<1> QED
  BY <1>2, <1>3 DEF OnRetry

(* A claimed or dropped task leaves the queue. *)
LEMMA DequeueAttempt ==
  ASSUME TypeInv, OwnInv, AttInv, NEW i \in 1..Len(queue), Dequeue(i)
  PROVE  /\ queue[i] \in Tasks /\ Ready(queue[i])
         /\ task[queue[i]].status \in Queueable
         /\ \A u : Has(queue', u) => Has(queue, u) /\ u # queue[i]
<1>1. queue[i] \in Tasks /\ \A u : Has(queue', u) => Has(queue, u) /\ u # queue[i]
  BY DequeueFacts
<1>2. Has(queue, queue[i])
  BY DEF Has
<1> QED
  BY <1>1, <1>2 DEF AttInv, TaskInv, OwnInv, QueuedWaits

-----------------------------------------------------------------------------
(* The actions. *)

LEMMA DispatcherAttempt ==
  ASSUME TypeInv, OwnInv, AttInv, Dispatcher
  PROVE  AttInv'
<1>1. CASE Wake \/ Sleep \/ ListRecoverable
  BY <1>1, StillStep
  DEF Wake, Sleep, ListRecoverable, storeVars, queueVars, workerVars, ghostVars
<1>2. ASSUME NEW i \in 1..Len(queue), DropCancelled(i) \/ DropExpired(i)
      PROVE  AttInv'
  <2>0. PICK t \in Tasks : t = queue[i]
    BY QueueType DEF TypeInv, TypeOK
  <2>1. /\ Dequeue(i)
        /\ \E s \in {"cancelled", "expired"} : SetTask(t, Marked(task[t], s))
        /\ UNCHANGED <<attempts, workerVars, up, ghostVars>>
    BY <1>2, <2>0 DEF DropCancelled, DropExpired
  <2>2. /\ t \in Tasks /\ Ready(t) /\ task[t].status \in Queueable
        /\ \A u : Has(queue', u) => Has(queue, u) /\ u # t
    BY <2>0, <2>1, DequeueAttempt
  <2>3. PICK s \in {"cancelled", "expired"} : SetTask(t, Marked(task[t], s))
    BY <2>1
  <2>4. /\ Marked(task[t], s).status = s
        /\ Marked(task[t], s).retries = task[t].retries
    BY <2>2, MarkedFacts DEF TypeInv, TypeOK, Status, Terminal
  <2>5. /\ \A u \in Tasks : u # t => task'[u] = task[u]
        /\ task'[t].status = s /\ task'[t].retries = task[t].retries
    BY <2>2, <2>3, <2>4 DEF SetTask, TypeInv, TypeOK
  <2>6. TaskInv(t)'
    BY <2>1, <2>2, <2>5 DEF AttInv, TaskInv, Pending
  <2> QED
    BY <2>1, <2>2, <2>5, <2>6, UnownedAttempt
    DEF workerVars, ghostVars, Queueable, Pending
<1>3. ASSUME NEW i \in 1..Len(queue), Claim(i)
      PROVE  AttInv'
  <2>0. PICK t \in Tasks : t = queue[i]
    BY QueueType DEF TypeInv, TypeOK
  <2>1. PICK w \in Workers :
          /\ wstate[w] = "idle"
          /\ cur' = [cur EXCEPT ![w] = t]
          /\ pc' = [pc EXCEPT ![w] = "spawned"]
    BY <1>3, <2>0 DEF Claim, FirstIdle
  <2>2. Dequeue(i) /\ SetTask(t, MarkedRunning(task[t]))
        /\ UNCHANGED <<attempts, kill, up, sent>>
    BY <1>3, <2>0 DEF Claim, ghostVars
  <2>3. /\ t \in Tasks /\ Ready(t) /\ task[t].status \in Queueable
        /\ \A u : Has(queue', u) => Has(queue, u) /\ u # t
    BY <2>0, <2>2, DequeueAttempt
  <2>4. \A v \in Workers : Owns(v) => cur[v] # t /\ cur[v] \in Tasks
    BY <2>0, <2>2, DequeueFacts DEF TypeInv, Owns
  <2>5. /\ \A u \in Tasks : u # t => task'[u] = task[u]
        /\ task'[t].status = "running" /\ task'[t].retries = task[t].retries
    BY <2>2, <2>3, MarkedRunningFacts DEF SetTask, TypeInv, TypeOK
  <2>6. /\ cur'[w] = t /\ pc'[w] = "spawned"
        /\ \A v \in Workers : v # w => cur'[v] = cur[v] /\ pc'[v] = pc[v]
    BY <2>1 DEF TypeInv, TypeOK
  <2>7. pc[w] = "none" /\ ~kill[w]
    BY <2>1 DEF OwnInv, BusySlots, AttInv, WorkerInv
  <2>8. ASSUME NEW v \in Workers
        PROVE  WorkerInv(v)'
    <3>1. CASE v = w
      <4>1. /\ sent'[t] # "confirmed"
            /\ \A n \in attempts'[t] : n <= task'[t].retries
        BY <2>2, <2>3, <2>5 DEF Ready, Fresh
      <4> QED
        BY <2>2, <2>6, <2>7, <3>1, <4>1 DEF WorkerInv, Ready, Fresh
    <3>2. CASE v # w /\ Owns(v)
      <4>1. /\ cur'[v] = cur[v] /\ pc'[v] = pc[v] /\ kill'[v] = kill[v]
            /\ task'[cur[v]] = task[cur[v]]
        BY <2>2, <2>4, <2>5, <2>6, <3>2
      <4> QED
        BY <2>2, <3>2, <4>1 DEF AttInv, WorkerInv, Ready, Fresh, Owns
    <3>3. CASE v # w /\ ~Owns(v)
      <4>1. pc[v] # "spawned" /\ ~Owns(v)' /\ pc'[v] = pc[v] /\ kill'[v] = kill[v]
        BY <2>2, <2>6, <3>3 DEF Owns
      <4> QED
        BY <3>3, <4>1 DEF AttInv, WorkerInv
    <3> QED
      BY <3>1, <3>2, <3>3
  <2>9. ASSUME NEW u \in Tasks
        PROVE  TaskInv(u)' /\ (up' => Worked(u)')
    <3>1. CASE u = t
      <4>1. TaskInv(t)'
        BY <2>2, <2>3, <2>5 DEF AttInv, TaskInv, Pending
      <4>2. Worked(t)'
        BY <2>6 DEF Worked, Owns
      <4> QED
        BY <3>1, <4>1, <4>2
    <3>2. CASE u # t
      <4>1. task'[u] = task[u] /\ (Has(queue', u) => Has(queue, u))
        BY <2>3, <2>5, <3>2
      <4>2. TaskInv(u)'
        BY <2>2, <4>1 DEF AttInv, TaskInv, Ready, Fresh
      <4>3. ASSUME NEW v \in Workers, Owns(v)
            PROVE  v # w /\ Owns(v)' /\ cur'[v] = cur[v] /\ pc'[v] = pc[v]
        BY <2>6, <2>7, <4>3 DEF Owns
      <4>4. up' => Worked(u)'
        BY <2>2, <4>1, <4>3 DEF AttInv, Worked
      <4> QED
        BY <4>2, <4>4
    <3> QED
      BY <3>1, <3>2
  <2> QED
    BY <2>8, <2>9 DEF AttInv
<1>4. ASSUME NEW t \in Tasks, RecoverDrop(t)
      PROVE  AttInv'
  <2>1. task[t].status \in Pending
    BY <1>4 DEF RecoverDrop, NextRow, OwnInv, RowsPending
  <2>2. PICK s \in {"expired", "failed"} : SetTask(t, Marked(task[t], s))
    BY <1>4 DEF RecoverDrop
  <2>3. /\ Marked(task[t], s).status = s
        /\ Marked(task[t], s).retries = task[t].retries
    BY MarkedFacts DEF TypeInv, TypeOK, Status, Terminal
  <2>4. /\ \A u \in Tasks : u # t => task'[u] = task[u]
        /\ task'[t].status = s /\ task'[t].retries = task[t].retries
    BY <2>2, <2>3 DEF SetTask, TypeInv, TypeOK
  <2>5. UNCHANGED <<attempts, queueVars, workerVars, up, ghostVars>>
    BY <1>4 DEF RecoverDrop
  <2>6. TaskInv(t)'
    BY <2>1, <2>4, <2>5 DEF AttInv, TaskInv, Ready, Fresh, queueVars, ghostVars, Pending
  <2> QED
    BY <2>1, <2>4, <2>5, <2>6, UnownedAttempt
    DEF queueVars, workerVars, ghostVars, Pending
<1>5. ASSUME NEW t \in Tasks, RecoverEnqueue(t)
      PROVE  AttInv'
  <2>1. task[t].status \in Pending
    BY <1>5 DEF RecoverEnqueue, NextRow, OwnInv, RowsPending
  <2>2. UNCHANGED <<storeVars, workerVars, up, ghostVars>>
    BY <1>5 DEF RecoverEnqueue
  <2>3. ASSUME NEW u \in Tasks, u # t, Has(queue', u)
        PROVE  Has(queue, u)
    <3>1. CASE queue' = queue
      BY <2>3, <3>1
    <3>2. CASE queue' = Append(queue, t)
      <4>1. queue \in Seq(Tasks) /\ Len(queue) \in Nat
        BY LenProperties DEF TypeInv, TypeOK
      <4>2. /\ Len(Append(queue, t)) = Len(queue) + 1
            /\ \A i \in 1..Len(queue) : Append(queue, t)[i] = queue[i]
            /\ Append(queue, t)[Len(queue) + 1] = t
        BY <4>1, AppendProperties
      <4> QED
        BY <2>3, <3>2, <4>1, <4>2 DEF Has
    <3> QED
      BY <1>5, <3>1, <3>2 DEF RecoverEnqueue
  <2>4. TaskInv(t)'
    BY <2>1, <2>2 DEF AttInv, TaskInv, Ready, Fresh, storeVars, ghostVars, Pending
  <2> QED
    BY <2>1, <2>2, <2>3, <2>4, UnownedAttempt
    DEF storeVars, workerVars, ghostVars, Pending
<1> QED
  BY <1>1, <1>2, <1>3, <1>4, <1>5 DEF Dispatcher

LEMMA ApiAttempt ==
  ASSUME TypeInv, OwnInv, AttInv, Api
  PROVE  AttInv'
<1>1. ASSUME NEW t \in Tasks, Submit(t)
      PROVE  AttInv'
  <2>1. /\ \A u \in Tasks : u # t => task'[u] = task[u]
        /\ task'[t].status = "queued" /\ task'[t].retries = 0
    BY <1>1 DEF Submit, SetTask, TypeInv, TypeOK, NewRecord, NoRecord
  <2>2. /\ task[t].status = "none" /\ queue' = Append(queue, t)
        /\ UNCHANGED <<attempts, workerVars, up, ghostVars>>
    BY <1>1 DEF Submit
  <2>3. ASSUME NEW u \in Tasks, u # t, Has(queue', u)
        PROVE  Has(queue, u)
    <3>1. queue \in Seq(Tasks) /\ Len(queue) \in Nat
      BY LenProperties DEF TypeInv, TypeOK
    <3>2. /\ Len(Append(queue, t)) = Len(queue) + 1
          /\ \A i \in 1..Len(queue) : Append(queue, t)[i] = queue[i]
          /\ Append(queue, t)[Len(queue) + 1] = t
      BY <3>1, AppendProperties
    <3> QED
      BY <2>2, <2>3, <3>1, <3>2 DEF Has
  <2>4. attempts[t] = {} /\ sent[t] = "no"
    BY <2>2 DEF AttInv, TaskInv
  <2>5. TaskInv(t)'
    BY <2>1, <2>2, <2>4 DEF TaskInv, Ready, Fresh, ghostVars
  <2> QED
    BY <2>1, <2>2, <2>3, <2>5, UnownedAttempt DEF workerVars, ghostVars
<1>2. ASSUME NEW t \in Tasks, Resubmit(t)
      PROVE  AttInv'
  BY <1>2, StillStep DEF Resubmit, storeVars, workerVars, ghostVars
<1>3. ASSUME NEW t \in Tasks, Cancel(t)
      PROVE  AttInv'
  <2>1. /\ \A u \in Tasks : u # t => task'[u] = task[u]
        /\ task'[t].status = task[t].status /\ task'[t].retries = task[t].retries
        /\ task'[t].cancel
    BY <1>3, FieldFacts DEF Cancel, SetTask, TypeInv, TypeOK, TaskRecord
  <2>2. UNCHANGED <<attempts, queue, pc, cur, up, sent>>
    BY <1>3 DEF Cancel, queueVars, ghostVars
  <2>3. \A w \in Workers : kill'[w] <=> kill[w] \/ AskedToStop(t, w)
    BY <1>3 DEF Cancel
  <2>4. ASSUME NEW u \in Tasks
        PROVE  TaskInv(u)' /\ (up' => Worked(u)')
    BY <2>1, <2>2, <2>4 DEF AttInv, TaskInv, Worked, Ready, Fresh, Owns
  <2>5. ASSUME NEW w \in Workers
        PROVE  WorkerInv(w)'
    <3>1. Owns(w) => cur[w] \in Tasks
      BY DEF TypeInv, Owns
    <3>2. pc[w] = "spawned" => Owns(w)
      BY DEF Owns
    <3>3. /\ pc'[w] = "spawned" => Ready(cur[w])'
          /\ Owns(w)' /\ sent'[cur'[w]] = "confirmed" => pc'[w] = "generating"
      BY <2>1, <2>2, <3>1, <3>2 DEF AttInv, WorkerInv, Ready, Fresh, Owns
    <3>4. kill'[w] => pc'[w] # "none" /\ (Owns(w)' => task'[cur'[w]].cancel)
      BY <2>1, <2>2, <2>3, <3>1 DEF AttInv, WorkerInv, AskedToStop, Alive, Owns
    <3> QED
      BY <3>3, <3>4 DEF WorkerInv
  <2> QED
    BY <2>4, <2>5 DEF AttInv
<1>4. ASSUME NEW t \in Tasks, ManualRetry(t)
      PROVE  AttInv'
  <2>1. /\ MarkedRetry(task[t], FALSE) \in TaskRecord
        /\ MarkedRetry(task[t], FALSE).status \in Pending
        /\ MarkedRetry(task[t], FALSE).retries = task[t].retries + 1
    BY MarkedRetryFacts DEF TypeInv, TypeOK
  <2>2. PICK r \in TaskRecord : /\ r.status \in Pending
                                /\ r.retries = task[t].retries + 1
                                /\ Reenqueue(t, r)
    BY <1>4, <2>1, FieldFacts DEF ManualRetry
  <2>3. /\ \A u \in Tasks : u # t => /\ task'[u] = task[u]
                                     /\ Has(queue', u) => Has(queue, u)
        /\ task'[t].status \in Pending \cup {"failed"}
        /\ task'[t].retries = task[t].retries + 1
    <3>1. /\ \A u \in Tasks : u # t => /\ task'[u] = task[u]
                                       /\ Has(queue', u) => Has(queue, u)
          /\ task'[t].status \in {r.status, "failed"}
          /\ task'[t].retries = r.retries
      BY <2>2, ReenqueueAttempt
    <3> QED
      BY <2>2, <3>1
  <2>4. /\ task[t].status \in Terminal /\ UNCHANGED <<attempts, workerVars, up>>
        /\ sent' = [sent EXCEPT ![t] = "no"]
    BY <1>4 DEF ManualRetry, Retryable
  <2>5. /\ sent'[t] = "no" /\ \A u \in Tasks : u # t => sent'[u] = sent[u]
    BY <2>4 DEF TypeInv, TypeOK
  <2>6. /\ task[t].retries \in Nat /\ attempts[t] \subseteq Nat
        /\ \A n \in attempts[t] : n <= task[t].retries + 1
    BY DEF AttInv, TaskInv, TypeInv, TypeOK, TaskRecord
  <2>7. TaskInv(t)'
    BY <2>3, <2>4, <2>5, <2>6 DEF TaskInv, Ready, Fresh, Pending
  <2> QED
    BY <2>3, <2>4, <2>5, <2>7, UnownedAttempt DEF workerVars, Terminal, Pending
<1> QED
  BY <1>1, <1>2, <1>3, <1>4 DEF Api

LEMMA ClockAttempt ==
  ASSUME TypeInv, OwnInv, AttInv, Clock
  PROVE  AttInv'
<1>1. PICK t \in Tasks : DeadlinePasses(t) \/ RetryDue(t)
  BY DEF Clock
<1>2. \E r : /\ r.status = task[t].status /\ r.retries = task[t].retries
             /\ r.cancel = task[t].cancel /\ task' = [task EXCEPT ![t] = r]
  <2>1. task[t] \in TaskRecord
    BY DEF TypeInv, TypeOK
  <2>2. [task[t] EXCEPT !.late = TRUE].cancel = task[t].cancel
    BY <2>1 DEF TaskRecord
  <2>3. [task[t] EXCEPT !.wait = FALSE].cancel = task[t].cancel
    BY <2>1 DEF TaskRecord
  <2>4. CASE task' = [task EXCEPT ![t] = [task[t] EXCEPT !.late = TRUE]]
    BY <2>1, <2>2, <2>4, FieldFacts
  <2>5. CASE task' = [task EXCEPT ![t] = [task[t] EXCEPT !.wait = FALSE]]
    BY <2>1, <2>3, <2>5, FieldFacts
  <2> QED
    BY <1>1, <2>4, <2>5 DEF DeadlinePasses, RetryDue, SetTask
<1>3. \A u \in Tasks : /\ task'[u].status = task[u].status
                       /\ task'[u].retries = task[u].retries
                       /\ task'[u].cancel = task[u].cancel
  BY <1>2 DEF TypeInv, TypeOK
<1> QED
  BY <1>1, <1>3, StillStep DEF DeadlinePasses, RetryDue, workerVars, ghostVars

LEMMA ProcessAttempt ==
  ASSUME TypeInv, OwnInv, AttInv, Process
  PROVE  AttInv'
<1>1. CASE Crash \/ Stop
  <2>1. /\ \A w \in Workers : pc'[w] = "none" /\ ~kill'[w]
        /\ queue' = <<>> /\ ~up' /\ UNCHANGED <<attempts, sent>>
    BY <1>1 DEF Crash, Stop, Down, storeVars
  <2>2. ASSUME NEW w \in Workers
        PROVE  WorkerInv(w)'
    BY <2>1 DEF WorkerInv, Owns
  <2>3. ASSUME NEW t \in Tasks
        PROVE  /\ task'[t].retries = task[t].retries
               /\ task'[t].status # task[t].status =>
                    task'[t].status \notin Pending \cup {"none"}
    <3>1. AfterKill(t) \in Status \ (Pending \cup {"none"})
      BY DEF AfterKill, Status, Terminal, Pending
    <3>2. task'[t] \in {task[t], Marked(task[t], AfterKill(t))}
      BY <1>1 DEF Crash, Stop, storeVars
    <3> QED
      BY <3>1, <3>2, MarkedFacts DEF TypeInv, TypeOK
  <2>4. ASSUME NEW t \in Tasks
        PROVE  TaskInv(t)'
    <3>1. ~Has(queue', t)
      BY <2>1, EmptySeq DEF Has
    <3> QED
      BY <2>1, <2>3, <3>1 DEF AttInv, TaskInv, Ready, Fresh
  <2> QED
    BY <2>1, <2>2, <2>4 DEF AttInv
<1>2. CASE Start
  <2>1. /\ UNCHANGED <<attempts, queue, cur, pc, kill, sent>>
        /\ \A t \in Tasks : task'[t] = Interrupted(task[t])
    BY <1>2 DEF Start, queueVars, ghostVars
  <2>2. \A w \in Workers : pc[w] = "none"
    BY <1>2 DEF Start, OwnInv, DownIdle
  <2>3. ASSUME NEW w \in Workers
        PROVE  WorkerInv(w)'
    BY <2>1, <2>2 DEF AttInv, WorkerInv, Owns
  <2>4. ASSUME NEW t \in Tasks
        PROVE  /\ task'[t].retries = task[t].retries
               /\ task'[t].status # "running"
               /\ task'[t].status # task[t].status => task'[t].status = "interrupted"
    <3>1. CASE task[t].status # "running"
      BY <2>1, <3>1 DEF Interrupted
    <3>2. CASE task[t].status = "running"
      <4>1. task[t] \in TaskRecord /\ "interrupted" \in Status
        BY DEF TypeInv, TypeOK, Status, Terminal
      <4>2. task'[t] = Marked(task[t], "interrupted")
        BY <2>1, <3>2 DEF Interrupted
      <4> QED
        BY <4>1, <4>2, MarkedFacts
    <3> QED
      BY <3>1, <3>2
  <2>5. ASSUME NEW t \in Tasks
        PROVE  TaskInv(t)' /\ Worked(t)'
    BY <2>1, <2>4 DEF AttInv, TaskInv, Worked, Ready, Fresh, Pending
  <2> QED
    BY <2>3, <2>5 DEF AttInv
<1> QED
  BY <1>1, <1>2 DEF Process

LEMMA CoroutineAttempt ==
  ASSUME TypeInv, OwnInv, AttInv, NEW w \in Workers, Coroutine(w)
  PROVE  AttInv'
<1> DEFINE Attempting == pc[w] \in Executing \cup {"spawned", "rebuild_retry"}
           Others == \A v \in Workers : v # w => /\ pc'[v] = pc[v] /\ cur'[v] = cur[v]
                                                /\ kill'[v] = kill[v]
           Ends == \/ \E x : Release(w, x)
                   \/ /\ pc' = [pc EXCEPT ![w] = "rebuild_finish"]
                      /\ UNCHANGED cur
                      /\ \/ ~kill[w] /\ UNCHANGED kill
                         \/ kill' = [kill EXCEPT ![w] = FALSE]
<1>1. PICK t \in Tasks : cur[w] = t
  <2>1. pc[w] # "none"
    BY DEF Coroutine, At, Killed, Begin, OpenChat, ConfigureModel, Click,
       ConfirmSent, Answer, UnusableAnswer, UnsavedAnswer, FailBeforeSend,
       TimeoutInSend, LoseOutcome, PollSeesCancel, ExternalUnsent, ExternalFailed,
       ExternalCancelled, ExternalUnknown, Rebuilt, RebuildFails, KillUnstarted,
       KillExecuting, KillRebuild, Executing
  <2> QED
    BY <2>1 DEF TypeInv
<1>2. Attempting => Owns(w) /\ ~Has(queue, t) /\ task[t].status = "running"
  BY <1>1 DEF Owns, Executing, OwnInv, OwnedRunning, QueueSound, InQueue, Has
<1>3. UNCHANGED up
  <2>1. Rest
    BY DEF Coroutine, Begin, OpenChat, ConfigureModel, Click,
       ConfirmSent, Answer, UnusableAnswer, UnsavedAnswer, FailBeforeSend,
       TimeoutInSend, LoseOutcome, PollSeesCancel, ExternalUnsent, ExternalFailed,
       ExternalCancelled, ExternalUnknown, Rebuilt, RebuildFails, KillUnstarted,
       KillExecuting, KillRebuild
  <2> QED
    BY <2>1 DEF Rest
<1>4. Ends => /\ Others /\ ~kill'[w] /\ pc'[w] \in {"none", "rebuild_finish"}
  BY DEF Release, TypeInv, TypeOK
<1>5. Ends => WorkerInv(w)' /\ Others
  BY <1>4 DEF WorkerInv, Owns
<1>6. \A stage : pc' = [pc EXCEPT ![w] = stage] /\ UNCHANGED <<cur, kill>> =>
        /\ Others /\ pc'[w] = stage /\ cur'[w] = t /\ kill'[w] = kill[w]
  BY <1>1 DEF TypeInv, TypeOK
<1>7. \A v : SetSent(w, v) => /\ sent'[t] = v
                              /\ \A u \in Tasks : u # t => sent'[u] = sent[u]
  BY <1>1 DEF SetSent, TypeInv, TypeOK
<1> HIDE DEF Others, Ends
(* The attempt moves on. *)
<1>8. ASSUME NEW stage \in Executing \cup {"rebuild_retry"}, Attempting, ~kill[w],
             pc' = [pc EXCEPT ![w] = stage],
             UNCHANGED <<task, queue, cur, kill>>,
             \A n \in attempts'[t] : n <= task[t].retries + 1,
             \A u \in Tasks : u # t => /\ attempts'[u] = attempts[u]
                                       /\ sent'[u] = sent[u],
             sent'[t] = "confirmed" => stage = "generating"
      PROVE  AttInv'
  <2>1. Others /\ pc'[w] = stage /\ cur'[w] = t /\ kill'[w] = kill[w]
    BY <1>6, <1>8
  <2>2. WorkerInv(w)'
    BY <1>8, <2>1 DEF WorkerInv, Owns, Executing
  <2>3. TaskInv(t)'
    BY <1>2, <1>8 DEF TaskInv, Pending
  <2>4. Worked(t)'
    BY <1>8, <2>1 DEF Worked, Owns, Executing
  <2> QED
    BY <1>1, <1>2, <1>3, <1>8, <2>1, <2>2, <2>3, <2>4, AttemptStep DEF Others
(* It ends and marks its task. *)
<1>9. ASSUME NEW s \in Terminal, Attempting, Mark(w, s), UNCHANGED queueVars, Ends,
             \A n \in attempts'[t] : n <= task[t].retries + 1,
             \A u \in Tasks : u # t => /\ attempts'[u] = attempts[u]
                                       /\ sent'[u] = sent[u]
      PROVE  AttInv'
  <2>1. /\ \A u \in Tasks : u # t => task'[u] = task[u]
        /\ task'[t].status = s /\ task'[t].retries = task[t].retries
    BY <1>1, <1>9, MarkedFacts DEF Mark, SetTask, TypeInv, TypeOK, Status
  <2>2. UNCHANGED queue
    BY <1>9 DEF queueVars
  <2>3. TaskInv(t)' /\ Worked(t)'
    BY <1>2, <1>9, <2>1, <2>2 DEF TaskInv, Worked, Pending, Terminal
  <2> QED
    BY <1>1, <1>2, <1>3, <1>5, <1>9, <2>1, <2>2, <2>3, AttemptStep DEF Others
(* It ends and asks for another attempt: no prompt is left unanswered. *)
<1>10. ASSUME Attempting, OnRetry(t), Ends, UNCHANGED attempts,
              sent'[t] # "confirmed",
              \A u \in Tasks : u # t => sent'[u] = sent[u]
       PROVE  AttInv'
  <2>1. /\ \A u \in Tasks : u # t => /\ task'[u] = task[u]
                                     /\ Has(queue', u) => Has(queue, u)
        /\ task'[t].status \in Pending \cup {"failed"}
        /\ \/ task'[t].retries = task[t].retries + 1
           \/ /\ task'[t].status = "failed" /\ UNCHANGED queue
              /\ task'[t].retries = task[t].retries
    BY <1>10, OnRetryAttempt
  <2>2. /\ task[t].retries \in Nat /\ attempts[t] \subseteq Nat
        /\ \A n \in attempts[t] : n <= task[t].retries + 1
    BY DEF AttInv, TaskInv, TypeInv, TypeOK, TaskRecord
  <2>3. TaskInv(t)'
    BY <1>2, <1>10, <2>1, <2>2 DEF TaskInv, Ready, Fresh, Pending
  <2>4. Worked(t)'
    BY <2>1 DEF Worked, Pending
  <2> QED
    BY <1>1, <1>2, <1>3, <1>5, <1>10, <2>1, <2>3, <2>4, AttemptStep DEF Others
(* It ends and leaves its task as it is: marked before, or asked to stop. *)
<1>11. ASSUME UNCHANGED <<task, queue, attempts, sent>>, Ends,
              Owns(w) => kill[w]
       PROVE  AttInv'
  <2>1. ASSUME Owns(w)
        PROVE  TaskInv(t)' /\ Worked(t)'
    <3>1. task[t].cancel
      BY <1>1, <1>11, <2>1 DEF AttInv, WorkerInv
    <3> QED
      BY <1>11, <3>1 DEF AttInv, TaskInv, Worked, Ready, Fresh
  <2> QED
    BY <1>1, <1>3, <1>5, <1>11, <2>1, AttemptStep DEF Others
<1>12. /\ \A S : At(w, S) => pc[w] \in S /\ ~kill[w]
       /\ \A S : Killed(w, S) => pc[w] \in S /\ kill[w]
       /\ \A x : Release(w, x) => Ends
       /\ ~kill[w] /\ Goto(w, "rebuild_finish") => Ends
       /\ \A stage : Goto(w, stage) => /\ pc' = [pc EXCEPT ![w] = stage]
                                       /\ UNCHANGED <<cur, kill>>
  BY DEF At, Killed, Ends, Goto
<1>13. /\ UNCHANGED queueVars => UNCHANGED queue
       /\ UNCHANGED storeVars => UNCHANGED <<task, attempts>>
       /\ UNCHANGED ghostVars => UNCHANGED sent
  BY DEF queueVars, storeVars, ghostVars
<1>14. /\ \A n \in attempts[t] : n <= task[t].retries + 1
       /\ pc[w] = "spawned" => Ready(t)
       /\ Attempting /\ sent[t] = "confirmed" => pc[w] = "generating"
  BY <1>1, <1>2 DEF AttInv, TaskInv, WorkerInv
<1>15. {"done", "failed", "cancelled", "interrupted", "outcome_unknown"} \subseteq Terminal
  BY DEF Terminal
<1> HIDE DEF Attempting
<1>16. \A S : pc[w] \in S /\ S \subseteq Executing \cup {"spawned", "rebuild_retry"} => Attempting
  BY DEF Attempting
<1>17. CASE Begin(w)
  <2>1. /\ \A n \in attempts'[t] : n <= task[t].retries + 1
        /\ \A u \in Tasks : u # t => attempts'[u] = attempts[u]
    <3>1. attempts' = [attempts EXCEPT ![t] = @ \cup {task[t].retries + 1}]
      BY <1>1, <1>17 DEF Begin
    <3>2. attempts'[t] = attempts[t] \cup {task[t].retries + 1}
      BY <3>1 DEF TypeInv, TypeOK
    <3>3. task[t].retries + 1 <= task[t].retries + 1
      BY DEF TypeInv, TypeOK, TaskRecord
    <3> QED
      BY <1>14, <3>1, <3>2, <3>3 DEF TypeInv, TypeOK
  <2>2. sent[t] # "confirmed" /\ Attempting /\ ~kill[w]
    BY <1>12, <1>14, <1>17 DEF Begin, Ready, Attempting
  <2>3. UNCHANGED <<queueVars, queue, sent>>
    BY <1>13, <1>17 DEF Begin, ghostVars
  <2>4. CASE Mark(w, "cancelled") /\ Release(w, "idle")
    BY <1>9, <1>12, <1>15, <2>1, <2>2, <2>3, <2>4
  <2>5. CASE Goto(w, IF IsBrowser(w) THEN "opening" ELSE "sending") /\ UNCHANGED task
    BY <1>8, <1>12, <2>1, <2>2, <2>3, <2>5 DEF Executing
  <2> QED
    BY <1>17, <2>4, <2>5 DEF Begin
<1>18. CASE OpenChat(w) \/ ConfigureModel(w) \/ FailBeforeSend(w) \/ TimeoutInSend(w)
  <2>1. pc[w] \in {"opening", "configuring", "sending", "clicked"} /\ ~kill[w]
    BY <1>12, <1>18 DEF OpenChat, ConfigureModel, FailBeforeSend, TimeoutInSend
  <2>2. Attempting /\ sent[t] # "confirmed"
    BY <1>14, <2>1 DEF Attempting, Executing
  <2>3. UNCHANGED <<attempts, queueVars, queue, sent>>
    BY <1>13, <1>18 DEF OpenChat, ConfigureModel, FailBeforeSend, TimeoutInSend
  <2>4. CASE Mark(w, "cancelled") /\ Release(w, "idle")
    BY <1>9, <1>12, <1>14, <1>15, <2>2, <2>3, <2>4
  <2>5. ASSUME NEW stage \in Executing \cup {"rebuild_retry"},
               Goto(w, stage), UNCHANGED task
        PROVE  AttInv'
    BY <1>8, <1>12, <1>14, <2>1, <2>2, <2>3, <2>5
  <2> QED
    BY <1>13, <1>18, <2>4, <2>5
    DEF OpenChat, ConfigureModel, FailBeforeSend, TimeoutInSend, Executing
<1>19. CASE Click(w) \/ ConfirmSent(w)
  <2>1. pc[w] \in {"sending", "clicked"} /\ ~kill[w]
    BY <1>12, <1>19 DEF Click, ConfirmSent
  <2>2. Attempting /\ sent[t] # "confirmed"
    BY <1>14, <2>1 DEF Attempting, Executing
  <2>3. UNCHANGED <<task, attempts, queue>>
    BY <1>13, <1>19 DEF Click, ConfirmSent
  <2>4. CASE Click(w)
    <3>1. Goto(w, "clicked") /\ \E v \in {"clicked", sent[t]} : SetSent(w, v)
      BY <1>1, <2>4 DEF Click
    <3>2. sent'[t] # "confirmed" /\ \A u \in Tasks : u # t => sent'[u] = sent[u]
      BY <1>7, <2>2, <3>1
    <3> QED
      BY <1>8, <1>12, <1>14, <2>1, <2>2, <2>3, <3>1, <3>2 DEF Executing
  <2>5. CASE ConfirmSent(w)
    <3>1. Goto(w, "generating") /\ SetSent(w, "confirmed")
      BY <2>5 DEF ConfirmSent
    <3> QED
      BY <1>7, <1>8, <1>12, <1>14, <2>1, <2>2, <2>3, <3>1 DEF Executing
  <2> QED
    BY <1>19, <2>4, <2>5
<1>20. CASE \/ Answer(w) \/ UnsavedAnswer(w) \/ LoseOutcome(w) \/ PollSeesCancel(w)
            \/ ExternalFailed(w) \/ ExternalCancelled(w) \/ ExternalUnknown(w)
  <2>1. pc[w] \in {"sending", "clicked", "generating"} /\ ~kill[w]
    BY <1>12, <1>20 DEF Answer, UnsavedAnswer, LoseOutcome, PollSeesCancel,
       ExternalFailed, ExternalCancelled, ExternalUnknown
  <2>2. Attempting
    BY <2>1 DEF Attempting, Executing
  <2>3. \E s \in Terminal : Mark(w, s)
    BY <1>15, <1>20 DEF Answer, UnsavedAnswer, LoseOutcome, PollSeesCancel,
       ExternalFailed, ExternalCancelled, ExternalUnknown
  <2>4. UNCHANGED <<attempts, queueVars>>
    BY <1>20 DEF Answer, UnsavedAnswer, LoseOutcome, PollSeesCancel,
       ExternalFailed, ExternalCancelled, ExternalUnknown
  <2>5. Ends
    BY <1>12, <1>20, <2>1 DEF Answer, UnsavedAnswer, LoseOutcome, PollSeesCancel,
       ExternalFailed, ExternalCancelled, ExternalUnknown
  <2>6. UNCHANGED sent \/ \E v : SetSent(w, v)
    BY <1>13, <1>20 DEF Answer, UnsavedAnswer, LoseOutcome, PollSeesCancel,
       ExternalFailed, ExternalCancelled, ExternalUnknown
  <2>7. \A u \in Tasks : u # t => sent'[u] = sent[u]
    BY <1>7, <2>6
  <2> QED
    BY <1>9, <1>14, <2>2, <2>3, <2>4, <2>5, <2>7
<1>21. CASE UnusableAnswer(w) \/ ExternalUnsent(w)
  <2>1. pc[w] \in {"sending", "generating"} /\ OnRetry(t) /\ UNCHANGED attempts
    BY <1>1, <1>12, <1>21 DEF UnusableAnswer, ExternalUnsent
  <2>2. Attempting /\ Ends
    BY <1>12, <1>21, <2>1 DEF UnusableAnswer, ExternalUnsent, Attempting, Executing
  <2>3. sent'[t] # "confirmed" /\ \A u \in Tasks : u # t => sent'[u] = sent[u]
    <3>1. CASE UnusableAnswer(w)
      BY <1>7, <3>1 DEF UnusableAnswer
    <3>2. CASE ExternalUnsent(w)
      BY <1>12, <1>13, <1>14, <2>2, <3>2 DEF ExternalUnsent
    <3> QED
      BY <1>21, <3>1, <3>2
  <2> QED
    BY <1>10, <2>1, <2>2, <2>3
<1>22. CASE Rebuilt(w) \/ RebuildFails(w)
  <2>1. pc[w] \in {"rebuild_retry", "rebuild_finish"}
        /\ UNCHANGED <<attempts, sent>> /\ Ends
    BY <1>12, <1>13, <1>22 DEF Rebuilt, RebuildFails
  <2>2. CASE pc[w] = "rebuild_retry"
    <3>1. OnRetry(t)
      BY <1>1, <1>22, <2>2 DEF Rebuilt, RebuildFails
    <3>2. Attempting /\ sent[t] # "confirmed"
      BY <1>14, <2>2 DEF Attempting
    <3> QED
      BY <1>10, <2>1, <3>1, <3>2
  <2>3. CASE pc[w] = "rebuild_finish"
    <3>1. UNCHANGED <<task, queueVars>> /\ ~Owns(w)
      BY <1>22, <2>3 DEF Rebuilt, RebuildFails, Owns
    <3> QED
      BY <1>11, <1>13, <2>1, <3>1
  <2> QED
    BY <2>1, <2>2, <2>3
<1>23. CASE KillUnstarted(w)
  <2>1. /\ kill[w] /\ Owns(w) /\ kill' = [kill EXCEPT ![w] = FALSE]
        /\ pc' = [pc EXCEPT ![w] = "dead"]
        /\ UNCHANGED <<task, attempts, queue, cur, sent>>
    BY <1>12, <1>13, <1>23 DEF KillUnstarted, Owns
  <2>2. Others /\ pc'[w] = "dead" /\ cur'[w] = t /\ ~kill'[w]
    BY <1>1, <2>1 DEF Others, TypeInv, TypeOK
  <2>3. task[t].cancel /\ sent[t] # "confirmed"
    BY <1>1, <1>12, <1>14, <1>23, <2>1
    DEF KillUnstarted, Ready, AttInv, WorkerInv
  <2>4. WorkerInv(w)'
    BY <2>1, <2>2, <2>3 DEF WorkerInv
  <2>5. TaskInv(t)' /\ Worked(t)'
    BY <2>1, <2>3 DEF AttInv, TaskInv, Worked, Ready, Fresh
  <2> QED
    BY <1>1, <1>3, <2>1, <2>2, <2>4, <2>5, AttemptStep DEF Others
<1>24. CASE KillExecuting(w)
  <2>1. AfterKill(cur[w]) \in Terminal
    BY <1>15 DEF AfterKill
  <2>2. Attempting /\ Ends /\ UNCHANGED <<attempts, queueVars, sent>>
    BY <1>12, <1>13, <1>24 DEF KillExecuting, Attempting, Ends
  <2> QED
    BY <1>9, <1>14, <1>24, <2>1, <2>2 DEF KillExecuting
<1>25. CASE KillRebuild(w)
  <2>1. kill[w] /\ Ends /\ UNCHANGED <<task, queue, attempts, sent>>
    BY <1>12, <1>13, <1>25 DEF KillRebuild
  <2> QED
    BY <1>11, <2>1
<1> QED
  BY <1>17, <1>18, <1>19, <1>20, <1>21, <1>22, <1>23, <1>24, <1>25 DEF Coroutine

LEMMA AttemptInvariant == Spec => [](TypeInv /\ OwnInv /\ AttInv)
<1>1. Init => AttInv
  BY EmptySeq DEF Init, AttInv, TaskInv, WorkerInv, Worked, Ready, Fresh, Has, NoRecord,
     Pending, Owns
<1>2. TypeInv /\ OwnInv /\ AttInv /\ [Next]_vars => AttInv'
  <2> SUFFICES ASSUME TypeInv, OwnInv, AttInv, [Next]_vars
               PROVE  AttInv'
    OBVIOUS
  <2>1. ASSUME NEW w \in Workers, RecoverTab(w)
        PROVE  AttInv'
    BY <2>1, StillStep DEF RecoverTab, Rest, storeVars, queueVars
  <2>2. CASE Next
    BY <2>1, <2>2, DispatcherAttempt, ApiAttempt, ClockAttempt, ProcessAttempt,
       CoroutineAttempt DEF Next
  <2>3. CASE UNCHANGED vars
    BY <2>3, StillStep DEF vars, storeVars, queueVars, workerVars, ghostVars
  <2> QED
    BY <2>2, <2>3
<1> QED
  BY <1>1, <1>2, OwnershipInvariant, PTL DEF Spec

(* start_attempt never meets an attempt number that is already in the      *)
(* store: retries has moved on since the last attempt, on every path from  *)
(* one claim to the next.                                                  *)
THEOREM AttemptNumbersFresh == Spec => []AttemptNumberFresh
<1>1. TypeInv /\ AttInv => AttemptNumberFresh
  <2> SUFFICES ASSUME TypeInv, AttInv, NEW w \in Workers, pc[w] = "spawned"
               PROVE  task[cur[w]].retries + 1 \notin attempts[cur[w]]
    BY DEF AttemptNumberFresh
  <2>1. cur[w] \in Tasks /\ \A n \in attempts[cur[w]] : n <= task[cur[w]].retries
    BY DEF TypeInv, AttInv, WorkerInv, Ready, Fresh
  <2>2. task[cur[w]].retries \in Nat
    BY <2>1 DEF TypeInv, TypeOK, TaskRecord
  <2> QED
    BY <2>1, <2>2
<1> QED
  BY <1>1, AttemptInvariant, PTL

(* A prompt confirmed sent, with no known answer, never waits for          *)
(* automatic dispatch: mark_retry is out of reach until the answer is      *)
(* definite or a human asks.                                               *)
THEOREM ConfirmedStaysPut == Spec => []ConfirmedNotReplayed
<1>1. AttInv => ConfirmedNotReplayed
  BY DEF AttInv, TaskInv, Ready, ConfirmedNotReplayed
<1> QED
  BY <1>1, AttemptInvariant, PTL

(* While the process is up, a running task that nobody asked to cancel has *)
(* a live coroutine: every exit of run_task marks the task, and            *)
(* Task.cancel() is only called for a task whose cancel is requested.      *)
THEOREM WorkIsNeverForgotten == Spec => []RunningIsWorkedOn
<1>1. AttInv => RunningIsWorkedOn
  BY DEF AttInv, Worked, RunningIsWorkedOn
<1> QED
  BY <1>1, AttemptInvariant, PTL

-----------------------------------------------------------------------------
(* Deployments without webbridge targets.  A CLI, an agent or an API has   *)
(* the prompt or has it not: there is no click that may have arrived, and  *)
(* no handler outlives its attempt, so pool.cancel_task always meets the   *)
(* worker that is on the task.                                             *)
NoBrowsers == \A w \in Workers : ~IsBrowser(w)

ExternalWorker(w) ==
  /\ pc[w] \in {"none", "spawned", "sending", "generating", "dead"}
  /\ cur[w] # 0 => pc[w] # "none"
  /\ pc[w] = "sending" /\ task[cur[w]].cancel => kill[w]

ExternalInv ==
  /\ \A w \in Workers : ExternalWorker(w)
  /\ \A t \in Tasks : sent[t] # "clicked"

(* The attempts stay as they are, and so do their tasks' cancel requests. *)
LEMMA AttemptsStill ==
  ASSUME TypeInv, ExternalInv, UNCHANGED <<pc, cur, kill>>,
         \A w \in Workers : Owns(w) => task'[cur[w]].cancel = task[cur[w]].cancel,
         \A t \in Tasks : sent'[t] \in {sent[t], "no"}
  PROVE  ExternalInv'
<1>1. ASSUME NEW w \in Workers
      PROVE  ExternalWorker(w)'
  BY DEF ExternalInv, ExternalWorker, Owns
<1> QED
  BY <1>1 DEF ExternalInv

(* One coroutine steps or is created. *)
LEMMA OneAttemptSteps ==
  ASSUME ExternalInv, NEW w \in Workers, ExternalWorker(w)',
         \A v \in Workers : v # w => /\ pc'[v] = pc[v] /\ cur'[v] = cur[v]
                                     /\ kill'[v] = kill[v]
                                     /\ Owns(v) => task'[cur[v]] = task[cur[v]],
         \A t \in Tasks : sent'[t] \in {sent[t], "no", "confirmed"}
  PROVE  ExternalInv'
<1>1. ASSUME NEW v \in Workers
      PROVE  ExternalWorker(v)'
  <2>1. CASE v = w
    BY <2>1
  <2>2. CASE v # w
    BY <2>2 DEF ExternalInv, ExternalWorker, Owns
  <2> QED
    BY <2>1, <2>2
<1> QED
  BY <1>1 DEF ExternalInv

LEMMA ExternalDispatcher ==
  ASSUME TypeInv, OwnInv, AttInv, ExternalInv, Dispatcher
  PROVE  ExternalInv'
<1>1. UNCHANGED sent
  BY DEF Dispatcher, Wake, Sleep, ListRecoverable, DropCancelled, DropExpired, Claim,
     RecoverDrop, RecoverEnqueue, ghostVars
<1>2. CASE Wake \/ Sleep \/ ListRecoverable
  BY <1>1, <1>2, AttemptsStill DEF Wake, Sleep, ListRecoverable, storeVars, workerVars
<1>3. ASSUME NEW i \in 1..Len(queue), DropCancelled(i) \/ DropExpired(i)
      PROVE  ExternalInv'
  <2>1. /\ Dequeue(i) /\ UNCHANGED workerVars
        /\ \E r : task' = [task EXCEPT ![queue[i]] = r]
    BY <1>3 DEF DropCancelled, DropExpired, SetTask
  <2>2. \A w \in Workers : Owns(w) => cur[w] # queue[i] /\ cur[w] \in Tasks
    BY <2>1, DequeueFacts DEF TypeInv, Owns
  <2>3. \A w \in Workers : Owns(w) => task'[cur[w]] = task[cur[w]]
    BY <2>1, <2>2 DEF TypeInv, TypeOK
  <2> QED
    BY <1>1, <2>1, <2>3, AttemptsStill DEF workerVars
<1>4. ASSUME NEW i \in 1..Len(queue), Claim(i)
      PROVE  ExternalInv'
  <2>1. /\ Dequeue(i) /\ UNCHANGED kill
        /\ \E r : task' = [task EXCEPT ![queue[i]] = r]
    BY <1>4 DEF Claim, SetTask
  <2>2. PICK w \in Workers : /\ cur' = [cur EXCEPT ![w] = queue[i]]
                             /\ pc' = [pc EXCEPT ![w] = "spawned"]
    BY <1>4 DEF Claim
  <2>3. \A v \in Workers : Owns(v) => cur[v] # queue[i] /\ cur[v] \in Tasks
    BY <2>1, DequeueFacts DEF TypeInv, Owns
  <2>4. \A v \in Workers : Owns(v) => task'[cur[v]] = task[cur[v]]
    BY <2>1, <2>3 DEF TypeInv, TypeOK
  <2>5. /\ pc'[w] = "spawned"
        /\ \A v \in Workers : v # w => cur'[v] = cur[v] /\ pc'[v] = pc[v]
    BY <2>2 DEF TypeInv, TypeOK
  <2>6. ExternalWorker(w)'
    BY <2>5 DEF ExternalWorker
  <2> QED
    BY <1>1, <2>1, <2>4, <2>5, <2>6, OneAttemptSteps
<1>5. ASSUME NEW t \in Tasks, RecoverDrop(t) \/ RecoverEnqueue(t)
      PROVE  ExternalInv'
  <2>1. /\ UNCHANGED workerVars
        /\ task' = task \/ \E r : task' = [task EXCEPT ![t] = r]
        /\ task[t].status \in Pending
    BY <1>5 DEF RecoverDrop, RecoverEnqueue, SetTask, storeVars, NextRow, OwnInv, RowsPending
  <2>2. \A w \in Workers : Owns(w) => cur[w] # t /\ cur[w] \in Tasks
    BY <2>1 DEF TypeInv, Owns, OwnInv, OwnedRunning, Pending
  <2>3. \A w \in Workers : Owns(w) => task'[cur[w]] = task[cur[w]]
    BY <2>1, <2>2 DEF TypeInv, TypeOK
  <2> QED
    BY <1>1, <2>1, <2>3, AttemptsStill DEF workerVars
<1> QED
  BY <1>2, <1>3, <1>4, <1>5 DEF Dispatcher

LEMMA ExternalApi ==
  ASSUME TypeInv, OwnInv, AttInv, ExternalInv, Api
  PROVE  ExternalInv'
<1>1. ASSUME NEW t \in Tasks, Submit(t) \/ ManualRetry(t)
      PROVE  ExternalInv'
  <2>1. UNCHANGED workerVars /\ task[t].status # "running"
    BY <1>1 DEF Submit, ManualRetry, Retryable, Terminal
  <2>2. \A u \in Tasks : u # t => task'[u] = task[u]
    BY <1>1 DEF Submit, ManualRetry, Reenqueue, SetTask, TypeInv, TypeOK
  <2>3. \A u \in Tasks : sent'[u] \in {sent[u], "no"}
    BY <1>1 DEF Submit, ManualRetry, ghostVars, TypeInv, TypeOK
  <2>4. \A w \in Workers : Owns(w) => cur[w] # t /\ cur[w] \in Tasks
    BY <2>1 DEF TypeInv, Owns, OwnInv, OwnedRunning
  <2> QED
    BY <2>1, <2>2, <2>3, <2>4, AttemptsStill DEF workerVars
<1>2. ASSUME NEW t \in Tasks, Resubmit(t)
      PROVE  ExternalInv'
  BY <1>2, AttemptsStill DEF Resubmit, storeVars, workerVars, ghostVars
<1>3. ASSUME NEW t \in Tasks, Cancel(t)
      PROVE  ExternalInv'
  <2>1. /\ \A u \in Tasks : u # t => task'[u] = task[u]
        /\ UNCHANGED <<pc, cur, sent>>
        /\ \A w \in Workers : kill'[w] <=> kill[w] \/ AskedToStop(t, w)
    BY <1>3 DEF Cancel, SetTask, TypeInv, TypeOK, ghostVars
  <2>2. ASSUME NEW w \in Workers
        PROVE  ExternalWorker(w)'
    <3>1. CASE pc[w] = "sending" /\ cur[w] = t
      <4>1. ASSUME NEW v \in Workers, cur[v] = t
            PROVE  v = w
        <5>1. t # 0
          BY DEF Tasks
        <5>2. Owns(v) /\ Owns(w)
          BY <3>1, <4>1, <5>1 DEF ExternalInv, ExternalWorker, Owns
        <5> QED
          BY <3>1, <4>1, <5>2 DEF OwnInv, SingleOwner
      <4>2. AskedToStop(t, w)
        <5>1. \A v \in 1..(w - 1) : v \in Workers /\ v # w
          BY SizesAssumption DEF Workers
        <5> QED
          BY <3>1, <4>1, <5>1 DEF AskedToStop, Alive
      <4> QED
        BY <2>1, <3>1, <4>2 DEF ExternalInv, ExternalWorker
    <3>2. CASE pc[w] # "sending"
      BY <2>1, <3>2 DEF ExternalInv, ExternalWorker
    <3>3. CASE pc[w] = "sending" /\ cur[w] # t
      <4>1. cur[w] \in Tasks
        BY <3>3 DEF TypeInv
      <4> QED
        BY <2>1, <3>3, <4>1 DEF ExternalInv, ExternalWorker
    <3> QED
      BY <3>1, <3>2, <3>3
  <2> QED
    BY <2>1, <2>2 DEF ExternalInv
<1> QED
  BY <1>1, <1>2, <1>3 DEF Api

LEMMA ExternalCoroutine ==
  ASSUME NoBrowsers, TypeInv, OwnInv, AttInv, ExternalInv, NEW w \in Workers, Coroutine(w)
  PROVE  ExternalInv'
<1>1. ~IsBrowser(w) /\ ExternalWorker(w)
  BY DEF NoBrowsers, ExternalInv
<1>2. \/ Begin(w) \/ ConfirmSent(w) \/ Answer(w) \/ UnusableAnswer(w)
      \/ UnsavedAnswer(w) \/ ExternalUnsent(w) \/ ExternalFailed(w)
      \/ ExternalCancelled(w) \/ ExternalUnknown(w)
      \/ KillUnstarted(w) \/ KillExecuting(w)
  BY <1>1 DEF Coroutine, OpenChat, ConfigureModel, Click, FailBeforeSend, TimeoutInSend,
     LoseOutcome, PollSeesCancel, Rebuilt, RebuildFails, KillRebuild, At, Killed,
     ExternalWorker
<1>3. Owns(w) /\ cur[w] \in Tasks
  BY <1>2 DEF TypeInv, Owns, At, Killed, Begin, ConfirmSent, Answer, UnusableAnswer,
     UnsavedAnswer, ExternalUnsent, ExternalFailed, ExternalCancelled, ExternalUnknown,
     KillUnstarted, KillExecuting, Executing
<1>4. \A v \in Workers : v # w /\ Owns(v) => cur[v] # cur[w] /\ cur[v] \in Tasks
  BY <1>3 DEF OwnInv, SingleOwner, TypeInv, Owns
<1>5. \A u \in Tasks : u # cur[w] => task'[u] = task[u]
  <2>1. OnRetry(cur[w]) => \A u \in Tasks : u # cur[w] => task'[u] = task[u]
    BY <1>3, OnRetryAttempt
  <2>2. (\E s : Mark(w, s)) \/ UNCHANGED task \/ OnRetry(cur[w])
    BY <1>2 DEF Begin, ConfirmSent, Answer, UnusableAnswer, UnsavedAnswer, ExternalUnsent,
       ExternalFailed, ExternalCancelled, ExternalUnknown, KillUnstarted, KillExecuting,
       storeVars
  <2> QED
    BY <2>1, <2>2 DEF Mark, SetTask, TypeInv, TypeOK
<1>6. \A u \in Tasks : sent'[u] \in {sent[u], "no", "confirmed"}
  <2>1. UNCHANGED sent \/ \E v \in {sent[cur[w]], "no", "confirmed"} : SetSent(w, v)
    BY <1>2 DEF Begin, ConfirmSent, Answer, UnusableAnswer, UnsavedAnswer, ExternalUnsent,
       ExternalFailed, ExternalCancelled, ExternalUnknown, KillUnstarted, KillExecuting,
       ghostVars
  <2> QED
    BY <1>3, <2>1 DEF SetSent, TypeInv, TypeOK
<1>7. /\ \A v \in Workers : v # w => /\ pc'[v] = pc[v] /\ cur'[v] = cur[v]
                                     /\ kill'[v] = kill[v]
      /\ ExternalWorker(w)'
  <2>1. ASSUME NEW s, Release(w, s)
        PROVE  /\ \A v \in Workers : v # w => /\ pc'[v] = pc[v] /\ cur'[v] = cur[v]
                                              /\ kill'[v] = kill[v]
               /\ pc'[w] = "none" /\ cur'[w] = 0
    BY <2>1 DEF Release, TypeInv, TypeOK
  <2>2. CASE \E s : Release(w, s)
    BY <2>1, <2>2 DEF ExternalWorker
  <2>3. ASSUME NEW stage \in {"sending", "generating", "dead"},
               pc' = [pc EXCEPT ![w] = stage], UNCHANGED cur,
               UNCHANGED kill \/ kill' = [kill EXCEPT ![w] = FALSE]
        PROVE  /\ \A v \in Workers : v # w => /\ pc'[v] = pc[v] /\ cur'[v] = cur[v]
                                              /\ kill'[v] = kill[v]
               /\ pc'[w] = stage /\ cur'[w] = cur[w]
    BY <2>3 DEF TypeInv, TypeOK
  <2>4. CASE Begin(w)
    <3>1. CASE ~task[cur[w]].cancel /\ UNCHANGED task /\ Goto(w, "sending")
      BY <2>3, <3>1 DEF Goto, ExternalWorker
    <3> QED
      BY <1>1, <2>2, <2>4, <3>1 DEF Begin
  <2>5. CASE ConfirmSent(w)
    BY <2>3, <2>5 DEF ConfirmSent, Goto, ExternalWorker
  <2>6. CASE KillUnstarted(w)
    BY <2>3, <2>6 DEF KillUnstarted, ExternalWorker
  <2>7. CASE \/ Answer(w) \/ UnusableAnswer(w) \/ UnsavedAnswer(w) \/ ExternalUnsent(w)
             \/ ExternalFailed(w) \/ ExternalCancelled(w) \/ ExternalUnknown(w)
             \/ KillExecuting(w)
    <3>1. \E s : Release(w, s)
      BY <1>1, <2>7 DEF Answer, UnusableAnswer, UnsavedAnswer, ExternalUnsent,
         ExternalFailed, ExternalCancelled, ExternalUnknown, KillExecuting
    <3> QED
      BY <2>2, <3>1
  <2> QED
    BY <1>2, <2>4, <2>5, <2>6, <2>7
<1> QED
  BY <1>4, <1>5, <1>6, <1>7, OneAttemptSteps

LEMMA ExternalInvariant ==
  ASSUME NoBrowsers
  PROVE  Spec => [](TypeInv /\ OwnInv /\ AttInv /\ ExternalInv)
<1>1. Init => ExternalInv
  BY DEF Init, ExternalInv, ExternalWorker
<1>2. TypeInv /\ OwnInv /\ AttInv /\ ExternalInv /\ [Next]_vars => ExternalInv'
  <2> SUFFICES ASSUME TypeInv, OwnInv, AttInv, ExternalInv, [Next]_vars
               PROVE  ExternalInv'
    OBVIOUS
  <2>1. CASE Clock
    <3>1. \A u \in Tasks : task'[u].cancel = task[u].cancel
      <4>1. PICK t \in Tasks : DeadlinePasses(t) \/ RetryDue(t)
        BY <2>1 DEF Clock
      <4>2. /\ [task[t] EXCEPT !.late = TRUE].cancel = task[t].cancel
            /\ [task[t] EXCEPT !.wait = FALSE].cancel = task[t].cancel
        BY DEF TypeInv, TypeOK, TaskRecord
      <4>3. \E r : r.cancel = task[t].cancel /\ task' = [task EXCEPT ![t] = r]
        BY <4>1, <4>2 DEF DeadlinePasses, RetryDue, SetTask
      <4> QED
        BY <4>3 DEF TypeInv, TypeOK
    <3>2. \A w \in Workers : Owns(w) => cur[w] \in Tasks
      BY DEF TypeInv, Owns
    <3> QED
      BY <2>1, <3>1, <3>2, AttemptsStill DEF Clock, DeadlinePasses, RetryDue, workerVars,
         ghostVars
  <2>2. CASE Process
    <3>1. /\ UNCHANGED sent
          /\ \A w \in Workers : pc'[w] = "none" /\ cur'[w] = 0
      <4>1. CASE Crash \/ Stop
        BY <4>1 DEF Crash, Stop, Down
      <4>2. CASE Start
        <5>1. \A w \in Workers : pc[w] = "none" /\ cur[w] = 0
          BY <4>2 DEF Start, OwnInv, DownIdle, ExternalInv, ExternalWorker
        <5> QED
          BY <4>2, <5>1 DEF Start, ghostVars
      <4> QED
        BY <2>2, <4>1, <4>2 DEF Process
    <3> QED
      BY <3>1 DEF ExternalInv, ExternalWorker
  <2>3. ASSUME NEW w \in Workers, RecoverTab(w)
        PROVE  ExternalInv'
    BY <2>3, AttemptsStill DEF RecoverTab, storeVars
  <2>4. CASE UNCHANGED vars
    BY <2>4, AttemptsStill DEF vars, storeVars, workerVars, ghostVars
  <2> QED
    BY <2>1, <2>2, <2>3, <2>4, ExternalDispatcher, ExternalApi, ExternalCoroutine DEF Next
<1> QED
  BY <1>1, <1>2, AttemptInvariant, PTL DEF Spec

(* Without webbridge targets no task waits for dispatch while a prompt of  *)
(* it may be out: the CLI, ACP and API workers never cause a prompt to be  *)
(* sent twice without a human.                                             *)
THEOREM ExternalNeverReplays ==
  ASSUME NoBrowsers
  PROVE  Spec => []NeverReplayed
<1>1. TypeInv /\ AttInv /\ ExternalInv => NeverReplayed
  BY DEF TypeInv, TypeOK, AttInv, TaskInv, Ready, ExternalInv, NeverReplayed
<1> QED
  BY <1>1, ExternalInvariant, PTL

(* Without webbridge targets a prompt is not handed over once its task has *)
(* a cancel request: pool.cancel_task has cancelled the coroutine, whoever *)
(* else was cancelled, retried or killed before.                           *)
THEOREM ExternalCancelStopsSending ==
  ASSUME NoBrowsers
  PROVE  Spec => CancelledIsNotSent
<1> DEFINE Step(w) == pc[w] = "sending" /\ pc'[w] \in {"clicked", "generating"} =>
                        ~task[cur[w]].cancel
<1>1. ASSUME TypeInv, ExternalInv, [Next]_vars, NEW w \in Workers
      PROVE  Step(w)
  <2>1. CASE ConfirmSent(w)
    <3>1. ~kill[w]
      BY <2>1 DEF ConfirmSent, At
    <3> QED
      BY <1>1, <3>1 DEF ExternalInv, ExternalWorker
  <2>2. CASE pc'[w] \in {pc[w], "none", "spawned", "sending", "dead"}
    BY <2>2
  <2>3. ASSUME NEW v \in Workers, Coroutine(v), ~ConfirmSent(w)
        PROVE  pc'[w] \in {pc[w], "none", "spawned", "sending", "dead"}
               \/ pc[w] # "sending"
    <3>1. ~IsBrowser(v) /\ ExternalWorker(v)
      BY <1>1 DEF NoBrowsers, ExternalInv
    <3>2. \/ Begin(v) \/ ConfirmSent(v) \/ Answer(v) \/ UnusableAnswer(v)
          \/ UnsavedAnswer(v) \/ ExternalUnsent(v) \/ ExternalFailed(v)
          \/ ExternalCancelled(v) \/ ExternalUnknown(v)
          \/ KillUnstarted(v) \/ KillExecuting(v)
      BY <2>3, <3>1 DEF Coroutine, OpenChat, ConfigureModel, Click, FailBeforeSend,
         TimeoutInSend, LoseOutcome, PollSeesCancel, Rebuilt, RebuildFails, KillRebuild,
         At, Killed, ExternalWorker
    <3> DEFINE To(stage) == pc' = [pc EXCEPT ![v] = stage]
    <3>3. CASE Begin(v)
      <4>1. To("sending") \/ To("none")
        BY <3>1, <3>3 DEF Begin, Release, Goto
      <4> QED
        BY <1>1, <2>3, <4>1 DEF TypeInv, TypeOK
    <3>4. CASE ConfirmSent(v)
      <4>1. To("generating") /\ v # w
        BY <2>3, <3>4 DEF ConfirmSent, Goto
      <4> QED
        BY <1>1, <2>3, <4>1 DEF TypeInv, TypeOK
    <3>5. CASE KillUnstarted(v)
      <4>1. To("dead")
        BY <3>5 DEF KillUnstarted
      <4> QED
        BY <1>1, <2>3, <4>1 DEF TypeInv, TypeOK
    <3>6. CASE \/ Answer(v) \/ UnusableAnswer(v) \/ UnsavedAnswer(v)
               \/ ExternalUnsent(v) \/ ExternalFailed(v) \/ ExternalCancelled(v)
               \/ ExternalUnknown(v) \/ KillExecuting(v)
      <4>1. To("none")
        BY <3>1, <3>6 DEF Answer, UnusableAnswer, UnsavedAnswer, ExternalUnsent,
           ExternalFailed, ExternalCancelled, ExternalUnknown, KillExecuting, Release
      <4> QED
        BY <1>1, <2>3, <4>1 DEF TypeInv, TypeOK
    <3> QED
      BY <3>2, <3>3, <3>4, <3>5, <3>6
  <2>4. CASE Dispatcher \/ Api \/ Clock \/ Process \/ UNCHANGED vars
    <3>1. CASE UNCHANGED pc
      BY <3>1
    <3>2. ASSUME NEW i \in 1..Len(queue), Claim(i)
          PROVE  pc'[w] \in {pc[w], "spawned"}
      BY <1>1, <3>2 DEF Claim, TypeInv, TypeOK
    <3>3. ASSUME Crash \/ Stop
          PROVE  pc'[w] = "none"
      BY <3>3 DEF Crash, Stop, Down
    <3>4. \/ UNCHANGED pc \/ Crash \/ Stop
          \/ \E i \in 1..Len(queue) : Claim(i)
      BY <2>4 DEF Dispatcher, Wake, ListRecoverable, Sleep, DropCancelled, DropExpired,
         RecoverDrop, RecoverEnqueue, Api, Submit, Resubmit, Cancel, ManualRetry, Clock,
         DeadlinePasses, RetryDue, Process, Start, vars, workerVars
    <3> QED
      BY <2>2, <3>1, <3>2, <3>3, <3>4
  <2>5. ASSUME NEW v \in Workers, RecoverTab(v)
        PROVE  UNCHANGED pc
    BY <2>5 DEF RecoverTab
  <2> QED
    BY <1>1, <2>1, <2>2, <2>3, <2>4, <2>5 DEF Next
<1>2. TypeInv /\ ExternalInv /\ [Next]_vars => \A w \in Workers : Step(w)
  BY <1>1
<1> QED
  BY <1>2, ExternalInvariant, PTL DEF Spec, CancelledIsNotSent

-----------------------------------------------------------------------------
(* Promises.                                                               *)

(* No restart takes away the only target of a pinned task. *)
TargetsStay == \A t \in Pinned : Route[t] \cap Kept # {}

View(t) ==
  /\ ~Has(queue, t) => ~entry[t].own
  /\ Has(queue, t) =>
       /\ task[t].late => Seen(t).late
       /\ t \in rows => ~Seen(t).cancel
       /\ task[t].status \notin Pending =>
            task[t].status = "expired" /\ Seen(t).late /\ ~Seen(t).cancel

ViewInv ==
  /\ \A t \in Tasks : View(t)
  /\ ~up => \A t \in Tasks : ~Has(queue, t)

(* The step is one that the promise to t allows. *)
Keeps(t) == [Promise(t)!Next]_(Promise(t)!vars)

LEMMA TargetStays ==
  ASSUME TargetsStay, NEW t \in Tasks
  PROVE  ~TargetRemoved(t)
BY RoutingAssumption DEF TargetsStay, TargetRemoved, Live

-----------------------------------------------------------------------------
(* The queue as a set. *)

LEMMA AppendKeeps ==
  ASSUME NEW q \in Seq(Tasks), NEW t \in Tasks
  PROVE  \A u : Has(Append(q, t), u) <=> Has(q, u) \/ u = t
<1>1. /\ Len(Append(q, t)) = Len(q) + 1
      /\ \A i \in 1..Len(q) : Append(q, t)[i] = q[i]
      /\ Append(q, t)[Len(q) + 1] = t
  BY AppendProperties
<1>2. Len(q) \in Nat
  BY LenProperties
<1> QED
  BY <1>1, <1>2 DEF Has

LEMMA RemoveKeeps ==
  ASSUME NEW q \in Seq(Tasks), NEW i \in 1..Len(q), Distinct(q)
  PROVE  \A u : Has(RemoveAt(q, i), u) <=> Has(q, u) /\ u # q[i]
<1>1. \A u : Has(RemoveAt(q, i), u) => Has(q, u) /\ u # q[i]
  BY RemoveHas
<1>2. ASSUME NEW u, Has(q, u), u # q[i]
      PROVE  Has(RemoveAt(q, i), u)
  <2>1. /\ Len(RemoveAt(q, i)) = Len(q) - 1
        /\ \A j \in 1..(Len(q) - 1) :
             RemoveAt(q, i)[j] = IF j < i THEN q[j] ELSE q[j + 1]
    BY RemoveAtQueue
  <2>2. Len(q) \in Nat
    BY LenProperties
  <2>3. PICK k \in 1..Len(q) : q[k] = u
    BY <1>2 DEF Has
  <2>4. CASE k < i
    <3>1. k \in 1..(Len(q) - 1) /\ RemoveAt(q, i)[k] = u
      BY <2>1, <2>2, <2>3, <2>4
    <3> QED
      BY <2>1, <3>1 DEF Has
  <2>5. CASE k > i
    <3>1. k - 1 \in 1..(Len(q) - 1) /\ ~(k - 1 < i) /\ (k - 1) + 1 = k
      BY <2>2, <2>5
    <3>2. RemoveAt(q, i)[k - 1] = u
      BY <2>1, <2>3, <3>1
    <3> QED
      BY <2>1, <3>1, <3>2 DEF Has
  <2> QED
    BY <1>2, <2>2, <2>3, <2>4, <2>5
<1> QED
  BY <1>1, <1>2

-----------------------------------------------------------------------------
(* Two shapes of step. *)

(* Nothing moves that a client of any task could see. *)
LEMMA SameToClients ==
  ASSUME NEW t \in Tasks, task'[t].status = task[t].status,
         task'[t].retries = task[t].retries, sent'[t] = sent[t]
  PROVE  Keeps(t)
BY DEF Keeps, Promise!vars

(* One task, at most, is rewritten, queued or taken off the queue. *)
LEMMA OneTaskStep ==
  ASSUME ViewInv, NEW t \in Tasks,
         \A u \in Tasks : u # t =>
           /\ task'[u] = task[u] /\ entry'[u] = entry[u] /\ sent'[u] = sent[u]
           /\ Has(queue', u) <=> Has(queue, u),
         rows' \subseteq rows, up' = up, ~up => ~Has(queue', t),
         View(t)', Keeps(t)
  PROVE  ViewInv' /\ \A u \in Tasks : Keeps(u)
<1>1. ASSUME NEW u \in Tasks, u # t
      PROVE  View(u)' /\ Keeps(u) /\ (~up => ~Has(queue', u))
  <2>1. /\ task'[u] = task[u] /\ entry'[u] = entry[u] /\ sent'[u] = sent[u]
        /\ Has(queue', u) <=> Has(queue, u)
    BY <1>1
  <2>2. View(u)'
    BY <2>1 DEF ViewInv, View, Seen, Copy
  <2> QED
    BY <2>1, <2>2, SameToClients DEF ViewInv
<1> QED
  BY <1>1 DEF ViewInv

(* No task changes for its client; queued objects may be replaced by       *)
(* copies that say the same.                                               *)
LEMMA NoTaskStep ==
  ASSUME ViewInv, UNCHANGED <<task, queue, sent, up>>,
         \A t \in Tasks : /\ entry'[t] = entry[t] \/ Has(queue, t)
                          /\ Seen(t)' = Seen(t),
         \A t \in rows' : t \in rows \/ (Has(queue, t) => ~Seen(t).cancel)
  PROVE  ViewInv' /\ \A t \in Tasks : Keeps(t)
<1>1. ASSUME NEW t \in Tasks
      PROVE  View(t)' /\ Keeps(t)
  <2>1. View(t)'
    BY DEF ViewInv, View
  <2> QED
    BY <2>1, SameToClients
<1> QED
  BY <1>1 DEF ViewInv

(* What the dispatcher reads does not change when the object is replaced.  *)
LEMMA DetachedView ==
  ASSUME TypeInv, NEW S, entry' = Detached(S), task' = task, NEW t \in Tasks
  PROVE  /\ entry'[t] = entry[t] \/ Has(queue, t)
         /\ Seen(t)' = Seen(t)
<1>1. entry'[t] = IF t \in S /\ InQueue(t) THEN Seen(t) ELSE entry[t]
  BY DEF Detached
<1>2. Seen(t).own
  BY DEF Seen, Copy
<1> QED
  BY <1>1, <1>2 DEF Seen, InQueue, Has

-----------------------------------------------------------------------------
(* The dispatcher. *)

(* A task that is dropped or claimed leaves the queue. *)
LEMMA DequeueView ==
  ASSUME TypeInv, OwnInv, ViewInv, NEW i \in 1..Len(queue), Dequeue(i),
         NEW t \in Tasks, t = queue[i]
  PROVE  /\ Has(queue, t) /\ ~Has(queue', t) /\ entry'[t] = Shared
         /\ \A u \in Tasks : u # t => /\ entry'[u] = entry[u]
                                      /\ Has(queue', u) <=> Has(queue, u)
<1>1. queue \in Seq(Tasks) /\ Distinct(queue)
  BY DEF TypeInv, TypeOK, OwnInv, QueueSound, Distinct
<1>2. \A u : Has(queue', u) <=> Has(queue, u) /\ u # t
  BY <1>1, RemoveKeeps DEF Dequeue
<1>3. Has(queue, t)
  BY DEF Has
<1>4. /\ entry'[t] = Shared
      /\ \A u \in Tasks : u # t => entry'[u] = entry[u]
  BY DEF Dequeue, TypeInv, TypeOK
<1> QED
  BY <1>2, <1>3, <1>4

(* The scan marks a task cancelled or expired: the task waits, or it has   *)
(* expired before and expires again.                                       *)
LEMMA DropPromise ==
  ASSUME TypeInv, OwnInv, ViewInv, NEW i \in 1..Len(queue),
         DropCancelled(i) \/ DropExpired(i)
  PROVE  ViewInv' /\ \A t \in Tasks : Keeps(t)
<1>1. PICK t \in Tasks : t = queue[i]
  BY QueueType DEF TypeInv, TypeOK
<1>2. Dequeue(i) /\ UNCHANGED <<rows, up, sent>>
  BY DEF DropCancelled, DropExpired, dispVars, ghostVars
<1>3. /\ Has(queue, t) /\ ~Has(queue', t) /\ entry'[t] = Shared
      /\ \A u \in Tasks : u # t => /\ entry'[u] = entry[u]
                                   /\ Has(queue', u) <=> Has(queue, u)
  BY <1>1, <1>2, DequeueView
<1>4. \E s \in {"cancelled", "expired"} :
        /\ SetTask(t, Marked(task[t], s))
        /\ s = "cancelled" => Seen(t).cancel
  BY <1>1 DEF DropCancelled, DropExpired
<1>5. PICK s \in {"cancelled", "expired"} :
        /\ SetTask(t, Marked(task[t], s))
        /\ s = "cancelled" => Seen(t).cancel
  BY <1>4
<1>6. /\ \A u \in Tasks : u # t => task'[u] = task[u]
      /\ task'[t].status = s /\ task'[t].retries = task[t].retries
  BY <1>5, MarkedFacts DEF SetTask, TypeInv, TypeOK, Status, Terminal
<1>7. View(t)'
  BY <1>3 DEF View, Shared
<1>8. Keeps(t)
  <2>1. CASE task[t].status \in Pending
    <3>1. Promise(t)!Drop
      BY <1>2, <1>6, <2>1 DEF Promise!Drop, Promise!Waiting, Pending
    <3> QED
      BY <3>1 DEF Keeps, Promise!Next
  <2>2. CASE task[t].status \notin Pending
    <3>1. task[t].status = "expired" /\ s = "expired"
      BY <1>3, <1>5, <2>2 DEF ViewInv, View
    <3> QED
      BY <1>2, <1>6, <3>1, SameToClients
  <2> QED
    BY <2>1, <2>2
<1> QED
  BY <1>2, <1>3, <1>6, <1>7, <1>8, OneTaskStep DEF ViewInv

(* A claimed task waits: what has expired is seen to be late. *)
LEMMA ClaimPromise ==
  ASSUME TypeInv, OwnInv, ViewInv, NEW i \in 1..Len(queue), Claim(i)
  PROVE  ViewInv' /\ \A t \in Tasks : Keeps(t)
<1>1. PICK t \in Tasks : t = queue[i]
  BY QueueType DEF TypeInv, TypeOK
<1>2. /\ Dequeue(i) /\ UNCHANGED <<rows, up, sent>>
      /\ SetTask(t, MarkedRunning(task[t])) /\ ~Seen(t).late
  BY <1>1 DEF Claim, dispVars, ghostVars
<1>3. /\ Has(queue, t) /\ ~Has(queue', t) /\ entry'[t] = Shared
      /\ \A u \in Tasks : u # t => /\ entry'[u] = entry[u]
                                   /\ Has(queue', u) <=> Has(queue, u)
  BY <1>1, <1>2, DequeueView
<1>4. /\ \A u \in Tasks : u # t => task'[u] = task[u]
      /\ task'[t].status = "running" /\ task'[t].retries = task[t].retries
  BY <1>2, MarkedRunningFacts DEF SetTask, TypeInv, TypeOK
<1>5. View(t)'
  BY <1>3 DEF View, Shared
<1>6. task[t].status \in Pending
  BY <1>2, <1>3 DEF ViewInv, View
<1>7. Promise(t)!Take
  BY <1>2, <1>4, <1>6 DEF Promise!Take, Promise!Waiting, Pending
<1>8. Keeps(t)
  BY <1>7 DEF Keeps, Promise!Next
<1> QED
  BY <1>2, <1>3, <1>4, <1>5, <1>8, OneTaskStep DEF ViewInv

(* The recovery pass drops a task that waits; its queued object, if it has *)
(* one, is not cancelled and late.                                         *)
LEMMA RecoverPromise ==
  ASSUME TargetsStay, TypeInv, OwnInv, ViewInv, NEW t \in Tasks,
         RecoverDrop(t) \/ RecoverEnqueue(t)
  PROVE  ViewInv' /\ \A u \in Tasks : Keeps(u)
<1>1. /\ task[t].status \in Pending /\ t \in rows
      /\ up /\ UNCHANGED <<entry, up, sent>>
  BY DEF RecoverDrop, RecoverEnqueue, NextRow, OwnInv, RowsPending, queueVars, ghostVars
<1>2. CASE RecoverDrop(t)
  <2>1. task[t].late /\ SetTask(t, Marked(task[t], "expired"))
    BY <1>2, TargetStays DEF RecoverDrop
  <2>2. rows' = rows \ {t} /\ UNCHANGED queue
    BY <1>2 DEF RecoverDrop, queueVars
  <2>3. /\ \A u \in Tasks : u # t => task'[u] = task[u]
        /\ task'[t].status = "expired" /\ task'[t].retries = task[t].retries
        /\ task'[t].cancel = task[t].cancel /\ task'[t].late = task[t].late
    <3>1. task[t] \in TaskRecord
      BY DEF TypeInv, TypeOK
    <3>2. /\ Marked(task[t], "expired").status = "expired"
          /\ Marked(task[t], "expired").retries = task[t].retries
          /\ Marked(task[t], "expired").cancel = task[t].cancel
          /\ Marked(task[t], "expired").late = task[t].late
      BY <3>1 DEF Marked, TaskRecord
    <3> QED
      BY <2>1, <3>2 DEF SetTask, TypeInv, TypeOK
  <2>4. Seen(t)'.late = Seen(t).late /\ Seen(t)'.cancel = Seen(t).cancel
    BY <1>1, <2>3 DEF Seen, Copy
  <2>5. View(t)'
    BY <1>1, <2>1, <2>2, <2>3, <2>4 DEF ViewInv, View
  <2>6. Promise(t)!Drop
    BY <1>1, <2>3 DEF Promise!Drop, Promise!Waiting, Pending
  <2>7. Keeps(t)
    BY <2>6 DEF Keeps, Promise!Next
  <2> QED
    BY <1>1, <2>2, <2>3, <2>5, <2>7, OneTaskStep
<1>3. CASE RecoverEnqueue(t)
  <2>1. UNCHANGED task /\ rows' \subseteq rows /\ t \notin rows'
    BY <1>3 DEF RecoverEnqueue, storeVars
  <2>2. \/ queue' = queue
        \/ ~Has(queue, t) /\ queue' = Append(queue, t)
    <3>1. InQueue(t) <=> Has(queue, t)
      BY DEF InQueue, Has
    <3> QED
      BY <1>3, <3>1 DEF RecoverEnqueue
  <2>3. /\ \A u \in Tasks : u # t => (Has(queue', u) <=> Has(queue, u))
        /\ Has(queue', t) => ~entry[t].own \/ Has(queue, t)
    <3>1. CASE queue' = queue
      BY <3>1
    <3>2. CASE ~Has(queue, t) /\ queue' = Append(queue, t)
      <4>1. \A u : Has(queue', u) <=> Has(queue, u) \/ u = t
        BY <3>2, AppendKeeps DEF TypeInv, TypeOK
      <4> QED
        BY <3>2, <4>1 DEF ViewInv, View
    <3> QED
      BY <2>2, <3>1, <3>2
  <2>4. Has(queue, t) => Has(queue', t)
    <3>1. CASE queue' = queue
      BY <3>1
    <3>2. CASE ~Has(queue, t) /\ queue' = Append(queue, t)
      BY <3>2
    <3> QED
      BY <2>2, <3>1, <3>2
  <2>5. View(t)'
    <3>1. Seen(t)' = Seen(t)
      BY <1>1, <2>1 DEF Seen, Copy
    <3>2. ~entry[t].own => Seen(t).late = task[t].late
      BY DEF Seen, Copy
    <3> QED
      BY <1>1, <2>1, <2>3, <2>4, <3>1, <3>2 DEF ViewInv, View
  <2>6. Keeps(t)
    BY <1>1, <2>1, SameToClients
  <2> QED
    BY <1>1, <2>1, <2>3, <2>5, <2>6, OneTaskStep
<1> QED
  BY <1>2, <1>3

LEMMA DispatcherPromise ==
  ASSUME TargetsStay, TypeInv, OwnInv, ViewInv, Dispatcher
  PROVE  ViewInv' /\ \A t \in Tasks : Keeps(t)
<1>1. CASE Wake \/ Sleep
  <2>1. UNCHANGED <<task, queue, sent, up, entry, rows>>
    BY <1>1 DEF Wake, Sleep, storeVars, queueVars, ghostVars
  <2>2. \A t \in Tasks : Seen(t)' = Seen(t)
    BY <2>1 DEF Seen, Copy
  <2> QED
    BY <2>1, <2>2, NoTaskStep
<1>2. CASE ListRecoverable
  <2>1. /\ UNCHANGED <<task, queue, sent, up>>
        /\ entry' = Detached(Recoverable)
        /\ \A i \in 1..Len(queue) : ~Actionable(queue[i])
    BY <1>2 DEF ListRecoverable, storeVars, ghostVars
  <2>2. \A t \in rows' : Has(queue, t) => ~Seen(t).cancel
    BY <2>1 DEF Has, Actionable
  <2> QED
    BY <2>1, <2>2, NoTaskStep, DetachedView
<1> QED
  BY <1>1, <1>2, DropPromise, ClaimPromise, RecoverPromise DEF Dispatcher

-----------------------------------------------------------------------------
(* The HTTP operations, the clock and the process. *)

(* _enqueue_existing: queued already, queued now, or failed for want of    *)
(* room.                                                                   *)
LEMMA ReenqueueView ==
  ASSUME TypeInv, ViewInv, NEW t \in Tasks, NEW r \in TaskRecord,
         r.status \in Pending, ~r.late, Reenqueue(t, r)
  PROVE  /\ UNCHANGED entry
         /\ \A u \in Tasks : u # t => /\ task'[u] = task[u]
                                      /\ Has(queue', u) <=> Has(queue, u)
         /\ task'[t].status \in {r.status, "failed"} /\ task'[t].retries = r.retries
         /\ rows' = {} => View(t)'
<1>1. /\ Marked(r, "failed").status = "failed"
      /\ Marked(r, "failed").retries = r.retries
  BY MarkedFacts DEF Status, Terminal
<1>2. InQueue(t) <=> Has(queue, t)
  BY DEF InQueue, Has
<1>3. UNCHANGED entry
  BY DEF Reenqueue, queueVars
<1>4. ASSUME NEW x, SetTask(t, x)
      PROVE  task'[t] = x /\ \A u \in Tasks : u # t => task'[u] = task[u]
  BY <1>4 DEF SetTask, TypeInv, TypeOK
<1>5. CASE Has(queue, t) /\ SetTask(t, r) /\ UNCHANGED queueVars
  BY <1>3, <1>4, <1>5 DEF queueVars, View
<1>6. CASE ~Has(queue, t) /\ SetTask(t, r) /\ queue' = Append(queue, t)
  <2>1. \A u : Has(queue', u) <=> Has(queue, u) \/ u = t
    BY <1>6, AppendKeeps DEF TypeInv, TypeOK
  <2>2. task'[t] = r /\ \A u \in Tasks : u # t => task'[u] = task[u]
    BY <1>4, <1>6
  <2> QED
    BY <1>3, <2>1, <2>2 DEF View
<1>7. CASE ~Has(queue, t) /\ SetTask(t, Marked(r, "failed")) /\ UNCHANGED queueVars
  <2>1. /\ task'[t] = Marked(r, "failed")
        /\ \A u \in Tasks : u # t => task'[u] = task[u]
    BY <1>4, <1>7
  <2>2. ~entry[t].own /\ UNCHANGED queue
    BY <1>7 DEF ViewInv, View, queueVars
  <2> QED
    BY <1>1, <1>3, <1>7, <2>1, <2>2 DEF View
<1> QED
  BY <1>2, <1>3, <1>5, <1>6, <1>7 DEF Reenqueue

LEMMA ApiPromise ==
  ASSUME TypeInv, OwnInv, AttInv, ViewInv, Api
  PROVE  ViewInv' /\ \A t \in Tasks : Keeps(t)
<1>1. rows = {} /\ UNCHANGED <<rows, up>> /\ up
  BY DEF OwnInv, RowsPending, Api, ApiReady, Submit, Resubmit, Cancel, ManualRetry, dispVars
<1>2. ASSUME NEW t \in Tasks, Submit(t)
      PROVE  ViewInv' /\ \A u \in Tasks : Keeps(u)
  <2>1. /\ \A u \in Tasks : u # t => task'[u] = task[u]
        /\ task'[t].status = "queued" /\ task'[t].retries = 0 /\ ~task'[t].late
    BY <1>2 DEF Submit, SetTask, TypeInv, TypeOK, NewRecord, NoRecord
  <2>2. /\ task[t].status = "none" /\ queue' = Append(queue, t)
        /\ UNCHANGED <<entry, sent>>
    BY <1>2 DEF Submit, ghostVars
  <2>3. \A u : Has(queue', u) <=> Has(queue, u) \/ u = t
    BY <2>2, AppendKeeps DEF TypeInv, TypeOK
  <2>4. View(t)'
    BY <1>1, <2>1, <2>3 DEF View, Pending
  <2>5. task[t].retries = 0
    BY <2>2 DEF AttInv, TaskInv
  <2>6. Promise(t)!Accept
    BY <2>1, <2>2, <2>5 DEF Promise!Accept
  <2>7. Keeps(t)
    BY <2>6 DEF Keeps, Promise!Next
  <2> QED
    BY <1>1, <2>1, <2>2, <2>3, <2>4, <2>7, OneTaskStep
<1>3. ASSUME NEW t \in Tasks, Resubmit(t)
      PROVE  ViewInv' /\ \A u \in Tasks : Keeps(u)
  <2>1. UNCHANGED <<task, queue, sent>> /\ entry' = Detached({t})
    BY <1>3 DEF Resubmit, storeVars, ghostVars
  <2> QED
    BY <1>1, <2>1, NoTaskStep, DetachedView
<1>4. ASSUME NEW t \in Tasks, Cancel(t)
      PROVE  ViewInv' /\ \A u \in Tasks : Keeps(u)
  <2>1. /\ \A u \in Tasks : u # t => task'[u] = task[u]
        /\ task'[t].status = task[t].status /\ task'[t].retries = task[t].retries
        /\ task'[t].late = task[t].late
    BY <1>4, FieldFacts DEF Cancel, SetTask, TypeInv, TypeOK, TaskRecord
  <2>2. UNCHANGED <<queue, entry, sent>>
    BY <1>4 DEF Cancel, queueVars, ghostVars
  <2>3. Has(queue, t) => task[t].status \in Pending
    <3>1. task[t].status \in Pending \cup {"running"}
      BY <1>4 DEF Cancel
    <3>2. Has(queue, t) => task[t].status \in Queueable
      BY DEF OwnInv, QueuedWaits
    <3> QED
      BY <3>1, <3>2 DEF Queueable, Pending
  <2>4. Seen(t)'.late = Seen(t).late
    BY <2>1, <2>2 DEF Seen, Copy
  <2>5. View(t)'
    BY <1>1, <2>1, <2>2, <2>3, <2>4 DEF ViewInv, View
  <2>6. Keeps(t)
    BY <2>1, <2>2, SameToClients
  <2> QED
    BY <1>1, <2>1, <2>2, <2>5, <2>6, OneTaskStep
<1>5. ASSUME NEW t \in Tasks, ManualRetry(t)
      PROVE  ViewInv' /\ \A u \in Tasks : Keeps(u)
  <2>1. /\ MarkedRetry(task[t], FALSE) \in TaskRecord
        /\ MarkedRetry(task[t], FALSE).status = "queued"
        /\ MarkedRetry(task[t], FALSE).retries = task[t].retries + 1
    BY MarkedRetryFacts DEF TypeInv, TypeOK, MarkedRetry
  <2>2. [MarkedRetry(task[t], FALSE) EXCEPT !.late = FALSE].late = FALSE
    BY <2>1 DEF TaskRecord
  <2>3. PICK r \in TaskRecord : /\ r.status = "queued" /\ ~r.late
                                /\ r.retries = task[t].retries + 1
                                /\ Reenqueue(t, r)
    BY <1>5, <2>1, <2>2, FieldFacts DEF ManualRetry
  <2>4. r.status \in Pending
    BY <2>3 DEF Pending
  <2>5. /\ UNCHANGED entry
        /\ \A u \in Tasks : u # t => /\ task'[u] = task[u]
                                     /\ Has(queue', u) <=> Has(queue, u)
        /\ task'[t].status \in {r.status, "failed"} /\ task'[t].retries = r.retries
        /\ rows' = {} => View(t)'
    BY <2>3, <2>4, ReenqueueView
  <2>6. /\ task[t].status \in Retryable
        /\ sent'[t] = "no" /\ \A u \in Tasks : u # t => sent'[u] = sent[u]
    BY <1>5 DEF ManualRetry, TypeInv, TypeOK
  <2>7. Promise(t)!Again
    BY <2>3, <2>5, <2>6 DEF Promise!Again, Promise!Final, Retryable, Terminal
  <2>8. Keeps(t)
    BY <2>7 DEF Keeps, Promise!Next
  <2> QED
    BY <1>1, <2>5, <2>6, <2>8, OneTaskStep
<1> QED
  BY <1>2, <1>3, <1>4, <1>5 DEF Api

LEMMA ClockPromise ==
  ASSUME TypeInv, OwnInv, ViewInv, Clock
  PROVE  ViewInv' /\ \A t \in Tasks : Keeps(t)
<1>1. ASSUME NEW t \in Tasks, DeadlinePasses(t)
      PROVE  ViewInv' /\ \A u \in Tasks : Keeps(u)
  <2>1. UNCHANGED <<queue, rows, up, sent>>
    BY <1>1 DEF DeadlinePasses, dispVars, ghostVars
  <2>2. /\ \A u \in Tasks : u # t => task'[u] = task[u]
        /\ task'[t].status = task[t].status /\ task'[t].retries = task[t].retries
        /\ task'[t].cancel = task[t].cancel /\ task'[t].late
    <3>1. task[t] \in TaskRecord
      BY DEF TypeInv, TypeOK
    <3>2. /\ [task[t] EXCEPT !.late = TRUE].status = task[t].status
          /\ [task[t] EXCEPT !.late = TRUE].retries = task[t].retries
          /\ [task[t] EXCEPT !.late = TRUE].cancel = task[t].cancel
          /\ [task[t] EXCEPT !.late = TRUE].late
      BY <3>1 DEF TaskRecord
    <3> QED
      BY <1>1, <3>2 DEF DeadlinePasses, SetTask, TypeInv, TypeOK
  <2>3. /\ \A u \in Tasks : u # t => entry'[u] = entry[u]
        /\ entry'[t].own = entry[t].own /\ entry'[t].late = entry[t].own
        /\ entry'[t].cancel = entry[t].cancel
    <3>1. entry' = [entry EXCEPT ![t] = [entry[t] EXCEPT !.late = entry[t].own]]
      BY <1>1 DEF DeadlinePasses
    <3>2. entry[t] \in QueuedView /\ entry \in [Tasks -> QueuedView]
      BY DEF TypeInv, TypeOK
    <3>3. /\ entry'[t] = [entry[t] EXCEPT !.late = entry[t].own]
          /\ \A u \in Tasks : u # t => entry'[u] = entry[u]
      BY <3>1, <3>2
    <3> QED
      BY <3>2, <3>3 DEF QueuedView
  <2>4. Seen(t)'.late /\ Seen(t)'.cancel = Seen(t).cancel
    BY <2>2, <2>3 DEF Seen, Copy
  <2>5. View(t)'
    BY <2>1, <2>2, <2>3, <2>4 DEF ViewInv, View
  <2>6. Keeps(t)
    BY <2>1, <2>2, SameToClients
  <2> QED
    BY <2>1, <2>2, <2>3, <2>5, <2>6, OneTaskStep DEF ViewInv
<1>2. ASSUME NEW t \in Tasks, RetryDue(t)
      PROVE  ViewInv' /\ \A u \in Tasks : Keeps(u)
  <2>1. UNCHANGED <<queue, rows, up, sent>>
    BY <1>2 DEF RetryDue, dispVars, ghostVars
  <2>2. /\ \A u \in Tasks : u # t => task'[u] = task[u]
        /\ task'[t].status = task[t].status /\ task'[t].retries = task[t].retries
        /\ task'[t].cancel = task[t].cancel /\ task'[t].late = task[t].late
    <3>1. task[t] \in TaskRecord
      BY DEF TypeInv, TypeOK
    <3>2. /\ [task[t] EXCEPT !.wait = FALSE].status = task[t].status
          /\ [task[t] EXCEPT !.wait = FALSE].retries = task[t].retries
          /\ [task[t] EXCEPT !.wait = FALSE].cancel = task[t].cancel
          /\ [task[t] EXCEPT !.wait = FALSE].late = task[t].late
      BY <3>1 DEF TaskRecord
    <3> QED
      BY <1>2, <3>2 DEF RetryDue, SetTask, TypeInv, TypeOK
  <2>3. /\ \A u \in Tasks : u # t => entry'[u] = entry[u]
        /\ entry'[t].own = entry[t].own /\ entry'[t].late = entry[t].late
        /\ entry'[t].cancel = entry[t].cancel
    <3>1. entry' = [entry EXCEPT ![t] = [entry[t] EXCEPT !.wait = FALSE]]
      BY <1>2 DEF RetryDue
    <3>2. entry[t] \in QueuedView /\ entry \in [Tasks -> QueuedView]
      BY DEF TypeInv, TypeOK
    <3>3. /\ entry'[t] = [entry[t] EXCEPT !.wait = FALSE]
          /\ \A u \in Tasks : u # t => entry'[u] = entry[u]
      BY <3>1, <3>2
    <3> QED
      BY <3>2, <3>3 DEF QueuedView
  <2>4. Seen(t)'.late = Seen(t).late /\ Seen(t)'.cancel = Seen(t).cancel
    BY <2>2, <2>3 DEF Seen, Copy
  <2>5. View(t)'
    BY <2>1, <2>2, <2>3, <2>4 DEF ViewInv, View
  <2>6. Keeps(t)
    BY <2>1, <2>2, SameToClients
  <2> QED
    BY <2>1, <2>2, <2>3, <2>5, <2>6, OneTaskStep DEF ViewInv
<1> QED
  BY <1>1, <1>2 DEF Clock

LEMMA ProcessPromise ==
  ASSUME TypeInv, OwnInv, ViewInv, Process
  PROVE  ViewInv' /\ \A t \in Tasks : Keeps(t)
<1>1. ASSUME NEW t \in Tasks, task'[t] # task[t] =>
               /\ task[t].status = "running"
               /\ task'[t] \in {Marked(task[t], "cancelled"), Marked(task[t], "interrupted")},
             sent'[t] = sent[t]
      PROVE  Keeps(t)
  <2>1. CASE task'[t] = task[t]
    BY <1>1, <2>1, SameToClients
  <2>2. CASE task'[t] # task[t]
    <3>1. /\ task[t].status = "running" /\ task'[t].retries = task[t].retries
          /\ task'[t].status \in {"cancelled", "interrupted"}
      BY <1>1, <2>2, MarkedFacts DEF TypeInv, TypeOK, Status, Terminal
    <3>2. Promise(t)!Conclude
      BY <1>1, <3>1 DEF Promise!Conclude, Promise!Final
    <3> QED
      BY <3>2 DEF Keeps, Promise!Next
  <2> QED
    BY <2>1, <2>2
<1>2. CASE Crash \/ Stop
  <2>1. UNCHANGED sent /\ queue' = <<>> /\ entry' = [t \in Tasks |-> Shared]
    BY <1>2 DEF Crash, Stop, Down
  <2>2. \A t \in Tasks : ~Has(queue', t)
    BY <2>1, EmptySeq DEF Has
  <2>3. ViewInv'
    BY <2>1, <2>2 DEF ViewInv, View, Shared
  <2>4. ASSUME NEW t \in Tasks
        PROVE  Keeps(t)
    <3>1. CASE Crash
      BY <1>1, <2>1, <3>1 DEF Crash, storeVars
    <3>2. CASE Stop
      <4>1. task'[t] # task[t] =>
              /\ \E w \in Workers : cur[w] = t /\ pc[w] \in Executing
              /\ task'[t] = Marked(task[t], AfterKill(t))
        BY <3>2 DEF Stop
      <4>2. \A w \in Workers : cur[w] = t /\ pc[w] \in Executing => task[t].status = "running"
        BY DEF OwnInv, OwnedRunning, Owns, Executing
      <4>3. AfterKill(t) \in {"cancelled", "interrupted"}
        BY DEF AfterKill
      <4> QED
        BY <1>1, <2>1, <4>1, <4>2, <4>3
    <3> QED
      BY <1>2, <3>1, <3>2
  <2> QED
    BY <2>3, <2>4
<1>3. CASE Start
  <2>1. /\ UNCHANGED <<queue, entry, sent>>
        /\ \A t \in Tasks : task'[t] = Interrupted(task[t]) /\ ~Has(queue, t)
    BY <1>3 DEF Start, queueVars, ghostVars, ViewInv
  <2>2. ViewInv'
    BY <2>1 DEF ViewInv, View
  <2>3. ASSUME NEW t \in Tasks
        PROVE  Keeps(t)
    BY <1>1, <2>1 DEF Interrupted
  <2> QED
    BY <2>2, <2>3
<1> QED
  BY <1>2, <1>3 DEF Process

-----------------------------------------------------------------------------
(* The run_task coroutine. *)

LEMMA CoroutinePromise ==
  ASSUME TypeInv, OwnInv, AttInv, ViewInv, NEW w \in Workers, Coroutine(w)
  PROVE  ViewInv' /\ \A t \in Tasks : Keeps(t)
<1> DEFINE Attempting == pc[w] \in Executing \cup {"spawned", "rebuild_retry"}
<1>1. PICK t \in Tasks : cur[w] = t
  <2>1. pc[w] # "none"
    BY DEF Coroutine, At, Killed, Begin, OpenChat, ConfigureModel, Click,
       ConfirmSent, Answer, UnusableAnswer, UnsavedAnswer, FailBeforeSend,
       TimeoutInSend, LoseOutcome, PollSeesCancel, ExternalUnsent, ExternalFailed,
       ExternalCancelled, ExternalUnknown, Rebuilt, RebuildFails, KillUnstarted,
       KillExecuting, KillRebuild, Executing
  <2> QED
    BY <2>1 DEF TypeInv
<1>2. Attempting => ~Has(queue, t) /\ task[t].status = "running" /\ ~entry[t].own
  BY <1>1 DEF Owns, Executing, OwnInv, OwnedRunning, QueueSound, InQueue, Has,
     ViewInv, View
<1>3. rows' = {} /\ rows = {} /\ up' = up /\ up
  <2>1. Rest /\ up /\ disp = "sleep"
    BY DEF Coroutine, At, Killed, Begin, OpenChat, ConfigureModel, Click,
       ConfirmSent, Answer, UnusableAnswer, UnsavedAnswer, FailBeforeSend,
       TimeoutInSend, LoseOutcome, PollSeesCancel, ExternalUnsent, ExternalFailed,
       ExternalCancelled, ExternalUnknown, Rebuilt, RebuildFails, KillUnstarted,
       KillExecuting, KillRebuild
  <2> QED
    BY <2>1 DEF Rest, dispVars, OwnInv, RowsPending
<1>4. \A v : SetSent(w, v) => /\ sent'[t] = v
                              /\ \A u \in Tasks : u # t => sent'[u] = sent[u]
  BY <1>1 DEF SetSent, TypeInv, TypeOK
(* The attempt goes on, or ends without touching its task. *)
<1>5. ASSUME UNCHANGED <<task, queue, entry>>,
             \A u \in Tasks : u # t => sent'[u] = sent[u],
             Keeps(t)
      PROVE  ViewInv' /\ \A u \in Tasks : Keeps(u)
  <2>1. Seen(t)' = Seen(t)
    BY <1>5 DEF Seen, Copy
  <2>2. View(t)'
    BY <1>3, <1>5, <2>1 DEF ViewInv, View
  <2> QED
    BY <1>3, <1>5, <2>2, OneTaskStep
<1>6. ASSUME UNCHANGED <<task, queue, entry, sent>>
      PROVE  ViewInv' /\ \A u \in Tasks : Keeps(u)
  BY <1>5, <1>6, SameToClients
(* It ends and marks its task. *)
<1>7. ASSUME NEW s \in Terminal \ {"expired"}, Attempting, Mark(w, s),
             UNCHANGED <<queue, entry>>,
             sent'[t] \in {sent[t], "no"}, s = "done" => sent'[t] = "no",
             \A u \in Tasks : u # t => sent'[u] = sent[u]
      PROVE  ViewInv' /\ \A u \in Tasks : Keeps(u)
  <2>1. /\ \A u \in Tasks : u # t => task'[u] = task[u]
        /\ task'[t].status = s /\ task'[t].retries = task[t].retries
    <3>1. task[t] \in TaskRecord /\ s \in Status
      BY <1>7 DEF TypeInv, TypeOK, Status
    <3>2. Marked(task[t], s).status = s /\ Marked(task[t], s).retries = task[t].retries
      BY <3>1, MarkedFacts
    <3>3. task' = [task EXCEPT ![t] = Marked(task[t], s)]
      BY <1>1, <1>7 DEF Mark, SetTask
    <3> QED
      BY <3>2, <3>3 DEF TypeInv, TypeOK
  <2>2. View(t)'
    BY <1>2, <1>7 DEF View
  <2>3. Promise(t)!Conclude
    BY <1>2, <1>7, <2>1 DEF Promise!Conclude, Promise!Final, Terminal
  <2>4. Keeps(t)
    BY <2>3 DEF Keeps, Promise!Next
  <2> QED
    BY <1>2, <1>3, <1>7, <2>1, <2>2, <2>4, OneTaskStep
(* It ends and asks for another attempt. *)
<1>8. ASSUME Attempting, OnRetry(t), sent'[t] \in {sent[t], "no"}, sent'[t] # "confirmed",
             \A u \in Tasks : u # t => sent'[u] = sent[u]
      PROVE  ViewInv' /\ \A u \in Tasks : Keeps(u)
  <2>1. InQueue(t) <=> Has(queue, t)
    BY DEF InQueue, Has
  <2>2. task[t] \in TaskRecord /\ sent[t] \in {"no", "clicked", "confirmed"}
    BY DEF TypeInv, TypeOK
  <2>3. ASSUME NEW x, SetTask(t, x)
        PROVE  task'[t] = x /\ \A u \in Tasks : u # t => task'[u] = task[u]
    BY <2>3 DEF SetTask, TypeInv, TypeOK
  <2>4. CASE SetTask(t, Marked(task[t], "failed")) /\ UNCHANGED queueVars
    <3>1. /\ Marked(task[t], "failed").status = "failed"
          /\ Marked(task[t], "failed").retries = task[t].retries
      BY <2>2, MarkedFacts DEF Status, Terminal
    <3>2. UNCHANGED <<queue, entry>>
      BY <2>4 DEF queueVars
    <3>3. View(t)'
      BY <1>2, <1>8, <3>2 DEF View
    <3>4. Promise(t)!Conclude
      BY <1>2, <1>8, <2>3, <2>4, <3>1 DEF Promise!Conclude, Promise!Final
    <3>5. Keeps(t)
      BY <3>4 DEF Keeps, Promise!Next
    <3> QED
      BY <1>2, <1>3, <1>8, <2>3, <2>4, <3>2, <3>3, <3>5, OneTaskStep
  <2>5. CASE task[t].retries < MaxRetries /\ Reenqueue(t, MarkedRetry(task[t], TRUE))
    <3> DEFINE r == MarkedRetry(task[t], TRUE)
    <3>1. /\ r \in TaskRecord /\ r.status = "retry_wait"
          /\ r.retries = task[t].retries + 1
      BY <2>2, MarkedRetryFacts DEF MarkedRetry
    <3> HIDE DEF r
    <3>2. /\ Marked(r, "failed").status = "failed"
          /\ Marked(r, "failed").retries = r.retries
      BY <3>1, MarkedFacts DEF Status, Terminal
    <3>3. ~InQueue(t)
      BY <1>2, <1>8, <2>1
    <3>4. \/ SetTask(t, r) /\ queue' = Append(queue, t) /\ UNCHANGED entry
          \/ SetTask(t, Marked(r, "failed")) /\ UNCHANGED <<queue, entry>>
      BY <2>5, <3>3 DEF Reenqueue, queueVars, r
    <3>5. /\ \A u \in Tasks : u # t => task'[u] = task[u]
          /\ task'[t].retries = task[t].retries + 1
          /\ task'[t].status \in {"retry_wait", "failed"}
          /\ UNCHANGED entry
          /\ \A u \in Tasks : u # t => (Has(queue', u) <=> Has(queue, u))
          /\ Has(queue', t) => task'[t].status = "retry_wait"
      <4>1. CASE SetTask(t, r) /\ queue' = Append(queue, t) /\ UNCHANGED entry
        <5>1. \A u : Has(queue', u) <=> Has(queue, u) \/ u = t
          BY <4>1, AppendKeeps DEF TypeInv, TypeOK
        <5> QED
          BY <2>3, <3>1, <4>1, <5>1
      <4>2. CASE SetTask(t, Marked(r, "failed")) /\ UNCHANGED <<queue, entry>>
        BY <1>2, <1>8, <2>3, <3>1, <3>2, <4>2
      <4> QED
        BY <3>4, <4>1, <4>2
    <3>6. View(t)'
      BY <1>2, <1>3, <1>8, <3>5 DEF View, Seen, Copy, Pending
    <3>7. Promise(t)!Repeat
      BY <1>2, <1>8, <2>2, <2>5, <3>5 DEF Promise!Repeat
    <3>8. Keeps(t)
      BY <3>7 DEF Keeps, Promise!Next
    <3> QED
      BY <1>3, <1>8, <3>5, <3>6, <3>8, OneTaskStep
  <2> QED
    BY <1>8, <2>4, <2>5 DEF OnRetry
<1>9. /\ \A S : At(w, S) => pc[w] \in S
      /\ \A S : Killed(w, S) => pc[w] \in S
  BY DEF At, Killed
<1>10. /\ UNCHANGED queueVars => UNCHANGED <<queue, entry>>
       /\ UNCHANGED storeVars => UNCHANGED <<task, attempts>>
       /\ UNCHANGED ghostVars => UNCHANGED sent
  BY DEF queueVars, storeVars, ghostVars
<1>11. /\ Attempting /\ sent[t] = "confirmed" => pc[w] = "generating"
       /\ sent[t] \in {"no", "clicked", "confirmed"}
  BY <1>1 DEF AttInv, WorkerInv, Owns, Executing, TypeInv, TypeOK
<1>12. {"done", "failed", "cancelled", "interrupted", "outcome_unknown"}
         \subseteq Terminal \ {"expired"}
  BY DEF Terminal
<1> HIDE DEF Attempting
<1>13. CASE Begin(w) \/ OpenChat(w)
  <2>1. UNCHANGED <<queue, entry, sent>> /\ Attempting
    BY <1>9, <1>10, <1>13 DEF Begin, OpenChat, Attempting, Executing
  <2>2. CASE Mark(w, "cancelled")
    BY <1>7, <1>12, <2>1, <2>2
  <2>3. CASE UNCHANGED task
    BY <1>6, <2>1, <2>3
  <2> QED
    BY <1>13, <2>2, <2>3 DEF Begin, OpenChat
<1>14. CASE ConfigureModel(w) \/ FailBeforeSend(w) \/ TimeoutInSend(w) \/ KillUnstarted(w)
            \/ KillRebuild(w)
  BY <1>6, <1>10, <1>14
  DEF ConfigureModel, FailBeforeSend, TimeoutInSend, KillUnstarted, KillRebuild
<1>15. CASE Click(w) \/ ConfirmSent(w)
  <2>1. UNCHANGED <<task, queue, entry>>
    BY <1>10, <1>15 DEF Click, ConfirmSent
  <2>2. Attempting /\ pc[w] # "generating"
    BY <1>9, <1>15 DEF Click, ConfirmSent, Attempting, Executing
  <2>3. PICK v \in {"clicked", "confirmed"} : SetSent(w, v) \/ UNCHANGED sent
    <3>1. CASE Click(w)
      <4>1. SetSent(w, IF sent[t] = "no" THEN "clicked" ELSE sent[t])
        BY <1>1, <3>1 DEF Click
      <4>2. CASE sent[t] = "no"
        BY <4>1, <4>2
      <4>3. CASE sent[t] # "no"
        <5>1. sent[t] = "clicked"
          BY <1>11, <2>2, <4>3
        <5> QED
          BY <4>1, <5>1
      <4> QED
        BY <4>2, <4>3
    <3>2. CASE ConfirmSent(w)
      BY <3>2 DEF ConfirmSent
    <3> QED
      BY <1>15, <3>1, <3>2
  <2>4. CASE UNCHANGED sent
    BY <1>6, <2>1, <2>4
  <2>5. CASE SetSent(w, v)
    <3>1. sent'[t] = v /\ \A u \in Tasks : u # t => sent'[u] = sent[u]
      BY <1>4, <2>5
    <3>2. sent[t] # "confirmed" /\ task[t].status = "running"
      BY <1>2, <1>11, <2>2
    <3>3. Promise(t)!Send
      BY <2>1, <3>1, <3>2 DEF Promise!Send
    <3>4. Keeps(t)
      BY <3>3 DEF Keeps, Promise!Next
    <3> QED
      BY <1>5, <2>1, <3>1, <3>4
  <2> QED
    BY <2>3, <2>4, <2>5
<1>16. CASE \/ Answer(w) \/ UnsavedAnswer(w) \/ LoseOutcome(w) \/ PollSeesCancel(w)
            \/ ExternalFailed(w) \/ ExternalCancelled(w) \/ ExternalUnknown(w)
  <2>1. pc[w] \in {"sending", "clicked", "generating"}
    BY <1>9, <1>16 DEF Answer, UnsavedAnswer, LoseOutcome, PollSeesCancel,
       ExternalFailed, ExternalCancelled, ExternalUnknown
  <2>2. Attempting
    BY <2>1 DEF Attempting, Executing
  <2>3. UNCHANGED <<queue, entry>>
    BY <1>10, <1>16 DEF Answer, UnsavedAnswer, LoseOutcome, PollSeesCancel,
       ExternalFailed, ExternalCancelled, ExternalUnknown
  <2>4. \E s \in Terminal \ {"expired"} :
          Mark(w, s) /\ (s = "done" => SetSent(w, "no"))
    BY <1>12, <1>16 DEF Answer, UnsavedAnswer, LoseOutcome, PollSeesCancel,
       ExternalFailed, ExternalCancelled, ExternalUnknown
  <2>5. UNCHANGED sent \/ \E v \in {sent[t], "no"} : SetSent(w, v)
    BY <1>1, <1>10, <1>16 DEF Answer, UnsavedAnswer, LoseOutcome, PollSeesCancel,
       ExternalFailed, ExternalCancelled, ExternalUnknown
  <2>6. /\ sent'[t] \in {sent[t], "no"}
        /\ \A u \in Tasks : u # t => sent'[u] = sent[u]
    BY <1>4, <2>5
  <2>7. SetSent(w, "no") => sent'[t] = "no"
    BY <1>4
  <2> QED
    BY <1>7, <2>2, <2>3, <2>4, <2>6, <2>7
<1>17. CASE UnusableAnswer(w) \/ ExternalUnsent(w)
  <2>1. pc[w] \in {"sending", "generating"} /\ OnRetry(t)
    BY <1>1, <1>9, <1>17 DEF UnusableAnswer, ExternalUnsent
  <2>2. Attempting
    BY <2>1 DEF Attempting, Executing
  <2>3. CASE UnusableAnswer(w)
    <3>1. sent'[t] = "no" /\ \A u \in Tasks : u # t => sent'[u] = sent[u]
      BY <1>4, <2>3 DEF UnusableAnswer
    <3> QED
      BY <1>8, <2>1, <2>2, <3>1
  <2>4. CASE ExternalUnsent(w)
    <3>1. UNCHANGED sent /\ pc[w] = "sending"
      BY <1>9, <1>10, <2>4 DEF ExternalUnsent
    <3> QED
      BY <1>8, <1>11, <2>1, <2>2, <3>1
  <2> QED
    BY <1>17, <2>3, <2>4
<1>18. CASE Rebuilt(w) \/ RebuildFails(w)
  <2>1. UNCHANGED sent
    BY <1>10, <1>18 DEF Rebuilt, RebuildFails
  <2>2. CASE pc[w] = "rebuild_retry" /\ OnRetry(t)
    <3>1. Attempting /\ sent[t] # "confirmed"
      BY <1>11, <2>2 DEF Attempting
    <3> QED
      BY <1>8, <2>1, <2>2, <3>1
  <2>3. CASE UNCHANGED <<task, queueVars>>
    BY <1>6, <1>10, <2>1, <2>3
  <2> QED
    BY <1>1, <1>18, <2>2, <2>3 DEF Rebuilt, RebuildFails
<1>19. CASE KillExecuting(w)
  <2>1. AfterKill(cur[w]) \in Terminal \ {"expired"} /\ AfterKill(cur[w]) # "done"
    BY <1>12 DEF AfterKill
  <2>2. Attempting /\ UNCHANGED <<queue, entry, sent>>
    BY <1>9, <1>10, <1>19 DEF KillExecuting, Attempting
  <2> QED
    BY <1>7, <1>19, <2>1, <2>2 DEF KillExecuting
<1> QED
  BY <1>13, <1>14, <1>15, <1>16, <1>17, <1>18, <1>19 DEF Coroutine

-----------------------------------------------------------------------------
(* The theorems. *)

LEMMA PromiseStep ==
  ASSUME TargetsStay, TypeInv, OwnInv, AttInv, ViewInv, [Next]_vars
  PROVE  ViewInv' /\ \A t \in Tasks : Keeps(t)
<1>1. CASE UNCHANGED <<task, queue, entry, rows, sent, up>>
  <2>1. \A t \in Tasks : Seen(t)' = Seen(t)
    BY <1>1 DEF Seen, Copy
  <2> QED
    BY <1>1, <2>1, NoTaskStep
<1>2. ASSUME NEW w \in Workers, RecoverTab(w)
      PROVE  UNCHANGED <<task, queue, entry, rows, sent, up>>
  BY <1>2 DEF RecoverTab, Rest, storeVars, queueVars, dispVars
<1>3. CASE UNCHANGED vars
  BY <1>1, <1>3 DEF vars, storeVars, queueVars, dispVars, ghostVars
<1> QED
  BY <1>1, <1>2, <1>3, DispatcherPromise, ApiPromise, ClockPromise, ProcessPromise,
     CoroutinePromise DEF Next

LEMMA PromiseInit == Init => ViewInv /\ \A t \in Tasks : Promise(t)!Init
<1>1. Init => ViewInv
  BY EmptySeq DEF Init, ViewInv, View, Shared, Has
<1>2. Init => \A t \in Tasks : Promise(t)!Init
  BY DEF Init, NoRecord, Promise!Init
<1> QED
  BY <1>1, <1>2

(* Every step of the relay is, for every task, a step of TaskLifecycle or  *)
(* none: what the dispatcher, the workers, the clients, the clock and the  *)
(* restarts do to a task adds up to the promise made to its client.        *)
THEOREM PromisesKept ==
  ASSUME TargetsStay
  PROVE  Spec => KeepsPromises
<1>1. TypeInv /\ OwnInv /\ AttInv /\ ViewInv /\ [Next]_vars => ViewInv'
  BY PromiseStep
<1>2. Init => ViewInv
  BY PromiseInit
<1>3. Spec => [](TypeInv /\ OwnInv /\ AttInv /\ ViewInv)
  BY <1>1, <1>2, AttemptInvariant, PTL DEF Spec
<1>4. TypeInv /\ OwnInv /\ AttInv /\ ViewInv /\ [Next]_vars =>
        \A t \in Tasks : [Promise(t)!Next]_(Promise(t)!vars)
  BY PromiseStep DEF Keeps
<1>5. Init => \A t \in Tasks : Promise(t)!Init
  BY PromiseInit
<1> QED
  BY <1>3, <1>4, <1>5, PTL DEF Spec, KeepsPromises

(* Late coroutines, stale queue objects and recovery do not overwrite an   *)
(* outcome: a terminal status is left only by a retry that counts as a new *)
(* attempt, and "done" never.                                              *)
THEOREM OutcomesStay ==
  ASSUME TargetsStay
  PROVE  Spec => TerminalStable
<1>1. ASSUME NEW t \in Tasks, [Promise(t)!Next]_(Promise(t)!vars),
             task[t].status \in Terminal, task'[t].status # task[t].status
      PROVE  task[t].status # "done" /\ task'[t].retries = task[t].retries + 1
  <2>1. Promise(t)!Next
    BY <1>1 DEF Promise!vars
  <2>2. ~ (\/ Promise(t)!Accept \/ Promise(t)!Take \/ Promise(t)!Drop
           \/ Promise(t)!Send \/ Promise(t)!Conclude \/ Promise(t)!Repeat)
    BY <1>1 DEF Promise!Accept, Promise!Take, Promise!Drop, Promise!Send,
       Promise!Conclude, Promise!Repeat, Promise!Waiting, Terminal
  <2>3. Promise(t)!Again
    BY <2>1, <2>2 DEF Promise!Next
  <2> QED
    BY <2>3 DEF Promise!Again
<1>2. (\A t \in Tasks : [Promise(t)!Next]_(Promise(t)!vars)) =>
        \A t \in Tasks :
          task[t].status \in Terminal /\ task'[t].status # task[t].status =>
            /\ task[t].status # "done"
            /\ task'[t].retries = task[t].retries + 1
  BY <1>1
<1> QED
  BY <1>2, PromisesKept, PTL DEF KeepsPromises, TerminalStable
=============================================================================
