---------------------------- MODULE RelayProofs -----------------------------
(***************************************************************************)
(* Theorems about Relay, for every number of tasks and workers, every      *)
(* routing, and every bound.                                               *)
(*                                                                         *)
(* Types: TypeOK.                                                          *)
(*                                                                         *)
(* Ownership: a task is with at most one worker, and the queue, the rows   *)
(* being recovered and the running attempts never overlap: SingleOwner and *)
(* QueueSound for every configuration. The workers on tasks of the policy  *)
(* are never more than its cap: PolicyCap.                                 *)
(*                                                                         *)
(* SingleOwner and QueueSound are not inductive. A task enters the queue   *)
(* on four paths, each guarded by its status only; that no worker is still *)
(* on it follows from OwnedRunning, which in turn needs SingleOwner (only  *)
(* the owner may take "running" away) and RowsPending (a recovered row is  *)
(* not running).                                                           *)
(***************************************************************************)
EXTENDS Relay, SequenceTheorems, FiniteSetTheorems, TLAPS

-----------------------------------------------------------------------------
(* Types.                                                                  *)

(* RemoveAt shortens the queue by one element and keeps the others.        *)
LEMMA RemoveAtQueue ==
  ASSUME NEW S, NEW q \in Seq(S), NEW i \in 1..Len(q)
  PROVE  /\ RemoveAt(q, i) \in Seq(S)
         /\ Len(RemoveAt(q, i)) = Len(q) - 1
         /\ \A j \in 1..(Len(q) - 1) :
              RemoveAt(q, i)[j] = IF j < i THEN q[j] ELSE q[j + 1]
<1> DEFINE a == SubSeq(q, 1, i - 1)
           b == SubSeq(q, i + 1, Len(q))
<1>1. /\ a \in Seq(S) /\ Len(a) = i - 1
      /\ \A j \in 1..(i - 1) : a[j] = q[j]
  BY SubSeqProperties, ElementOfSeq, LenProperties
<1>2. /\ b \in Seq(S) /\ Len(b) = Len(q) - i
      /\ \A j \in 1..(Len(q) - i) : b[j] = q[i + j]
  BY SubSeqProperties, ElementOfSeq, LenProperties
<1>3. RemoveAt(q, i) = a \o b
  BY DEF RemoveAt
<1> HIDE DEF a, b
<1>4. /\ a \o b \in Seq(S) /\ Len(a \o b) = Len(a) + Len(b)
      /\ \A j \in 1..(Len(a) + Len(b)) :
           (a \o b)[j] = IF j <= Len(a) THEN a[j] ELSE b[j - Len(a)]
  BY <1>1, <1>2, ConcatProperties
<1>5. Len(q) \in Nat /\ i \in Nat /\ Len(a) + Len(b) = Len(q) - 1
  BY <1>1, <1>2, LenProperties
<1>6. ASSUME NEW j \in 1..(Len(q) - 1)
      PROVE  (a \o b)[j] = IF j < i THEN q[j] ELSE q[j + 1]
  <2>1. CASE j < i
    BY <2>1, <1>1, <1>4, <1>5
  <2>2. CASE ~(j < i)
    <3>1. (a \o b)[j] = b[j - (i - 1)]
      BY <2>2, <1>1, <1>4, <1>5
    <3>2. j - (i - 1) \in 1..(Len(q) - i)
      BY <2>2, <1>5
    <3>3. b[j - (i - 1)] = q[i + (j - (i - 1))]
      BY <3>2, <1>2
    <3>4. i + (j - (i - 1)) = j + 1
      BY <1>5
    <3> QED
      BY <3>1, <3>3, <3>4, <2>2
  <2> QED
    BY <2>1, <2>2
<1> QED
  BY <1>3, <1>4, <1>5, <1>6

-----------------------------------------------------------------------------
(* Type correctness.                                                       *)

LEMMA QueueType ==
  ASSUME queue \in Seq(Tasks)
  PROVE  \A i \in 1..Len(queue) : queue[i] \in Tasks /\ RemoveAt(queue, i) \in Seq(Tasks)
BY ElementOfSeq, RemoveAtQueue

LEMMA MarkedFacts ==
  ASSUME NEW r \in TaskRecord, NEW s \in Status
  PROVE  /\ Marked(r, s) \in TaskRecord
         /\ Marked(r, s).status = s
         /\ Marked(r, s).retries = r.retries
BY DEF Marked, TaskRecord

LEMMA MarkedRunningFacts ==
  ASSUME NEW r \in TaskRecord
  PROVE  /\ MarkedRunning(r) \in TaskRecord
         /\ MarkedRunning(r).status = "running"
         /\ MarkedRunning(r).retries = r.retries
BY DEF MarkedRunning, TaskRecord, Status

LEMMA MarkedRetryFacts ==
  ASSUME NEW r \in TaskRecord, NEW b \in BOOLEAN
  PROVE  /\ MarkedRetry(r, b) \in TaskRecord
         /\ MarkedRetry(r, b).status \in Pending
         /\ MarkedRetry(r, b).retries = r.retries + 1
BY DEF MarkedRetry, TaskRecord, Status, Pending

LEMMA FieldFacts ==
  ASSUME NEW r \in TaskRecord
  PROVE  /\ [r EXCEPT !.cancel = TRUE] \in TaskRecord
         /\ [r EXCEPT !.cancel = TRUE].status = r.status
         /\ [r EXCEPT !.cancel = TRUE].retries = r.retries
         /\ \A b \in BOOLEAN :
              /\ [r EXCEPT !.late = b] \in TaskRecord
              /\ [r EXCEPT !.late = b].status = r.status
              /\ [r EXCEPT !.late = b].retries = r.retries
         /\ [r EXCEPT !.wait = FALSE] \in TaskRecord
         /\ [r EXCEPT !.wait = FALSE].status = r.status
         /\ [r EXCEPT !.wait = FALSE].retries = r.retries
BY DEF TaskRecord

LEMMA DetachedType ==
  ASSUME TypeOK, NEW S
  PROVE  Detached(S) \in [Tasks -> QueuedView]
<1>1. \A t \in Tasks : Seen(t) \in QueuedView
  BY DEF TypeOK, Seen, Copy, QueuedView, TaskRecord
<1> QED
  BY <1>1 DEF TypeOK, Detached

(* What _enqueue_existing does to the types. *)
LEMMA ReenqueueType ==
  ASSUME TypeOK, NEW t \in Tasks, NEW r \in TaskRecord, Reenqueue(t, r)
  PROVE  /\ task' \in [Tasks -> TaskRecord]
         /\ queue' \in Seq(Tasks)
         /\ entry' = entry
<1>1. Marked(r, "failed") \in TaskRecord
  BY MarkedFacts DEF Status, Terminal
<1>2. CASE InQueue(t) /\ SetTask(t, r) /\ UNCHANGED queueVars
  BY <1>2 DEF TypeOK, SetTask, queueVars
<1>3. CASE SetTask(t, r) /\ queue' = Append(queue, t) /\ UNCHANGED entry
  BY <1>3, AppendProperties DEF TypeOK, SetTask
<1>4. CASE SetTask(t, Marked(r, "failed")) /\ UNCHANGED queueVars
  BY <1>1, <1>4 DEF TypeOK, SetTask, queueVars
<1> QED
  BY <1>2, <1>3, <1>4 DEF Reenqueue

LEMMA OnRetryType ==
  ASSUME TypeOK, NEW t \in Tasks, OnRetry(t)
  PROVE  /\ task' \in [Tasks -> TaskRecord]
         /\ queue' \in Seq(Tasks)
         /\ entry' = entry
<1>1. task[t] \in TaskRecord
  BY DEF TypeOK
<1>2. Marked(task[t], "failed") \in TaskRecord /\ MarkedRetry(task[t], TRUE) \in TaskRecord
  BY <1>1, MarkedFacts, MarkedRetryFacts DEF Status, Terminal
<1>3. CASE Reenqueue(t, MarkedRetry(task[t], TRUE))
  BY <1>2, <1>3, ReenqueueType
<1>4. CASE SetTask(t, Marked(task[t], "failed")) /\ UNCHANGED queueVars
  BY <1>2, <1>4 DEF SetTask, queueVars, TypeOK
<1> QED
  BY <1>3, <1>4 DEF OnRetry

(* A coroutine always has a task, which makes TypeOK inductive.            *)
TypeInv == TypeOK /\ \A w \in Workers : pc[w] # "none" => cur[w] \in Tasks

LEMMA ReleaseType ==
  ASSUME TypeInv, NEW w \in Workers, NEW s \in {"idle", "degraded"},
         Release(w, s)
  PROVE  /\ wstate' \in [Workers -> {"off", "idle", "busy", "degraded"}]
         /\ cur' \in [Workers -> Tasks \cup {0}]
         /\ pc' \in [Workers -> Stages]
         /\ kill' \in [Workers -> BOOLEAN]
         /\ \A v \in Workers : pc'[v] # "none" => cur'[v] \in Tasks
BY DEF TypeInv, TypeOK, Release, Stages

LEMMA GotoType ==
  ASSUME TypeInv, NEW w \in Workers, NEW stage \in Stages, Goto(w, stage),
         pc[w] # "none"
  PROVE  /\ wstate' \in [Workers -> {"off", "idle", "busy", "degraded"}]
         /\ cur' \in [Workers -> Tasks \cup {0}]
         /\ pc' \in [Workers -> Stages]
         /\ kill' \in [Workers -> BOOLEAN]
         /\ \A v \in Workers : pc'[v] # "none" => cur'[v] \in Tasks
BY DEF TypeInv, TypeOK, Goto

LEMMA MarkType ==
  ASSUME TypeInv, NEW w \in Workers, pc[w] # "none", NEW s \in Status,
         Mark(w, s)
  PROVE  task' \in [Tasks -> TaskRecord]
<1>1. cur[w] \in Tasks /\ task[cur[w]] \in TaskRecord
  BY DEF TypeInv, TypeOK
<1>2. Marked(task[cur[w]], s) \in TaskRecord
  BY <1>1, MarkedFacts
<1> QED
  BY <1>2 DEF Mark, SetTask, TypeInv, TypeOK

LEMMA GhostType ==
  ASSUME TypeInv, NEW w \in Workers
  PROVE  /\ \A b \in BOOLEAN : SetDirty(w, b) => dirty' \in [Workers -> BOOLEAN]
         /\ \A v \in {"no", "clicked", "confirmed"} :
              SetSent(w, v) => sent' \in [Tasks -> {"no", "clicked", "confirmed"}]
BY DEF TypeInv, TypeOK, SetDirty, SetSent

LEMMA DispatcherType ==
  ASSUME TypeInv, Dispatcher
  PROVE  TypeInv'
<1> USE DEF TypeInv, TypeOK
<1>1. CASE Wake
  BY <1>1 DEF Wake, storeVars, queueVars, workerVars, ghostVars
<1>2. CASE ListRecoverable
  <2>1. Recoverable \subseteq Tasks /\ Detached(Recoverable) \in [Tasks -> QueuedView]
    BY DetachedType DEF Recoverable
  <2> QED
    BY <1>2, <2>1 DEF ListRecoverable, storeVars, workerVars, ghostVars
<1>3. CASE Sleep
  BY <1>3 DEF Sleep, storeVars, queueVars, workerVars, ghostVars
<1>4. ASSUME NEW i \in 1..Len(queue),
             DropCancelled(i) \/ DropExpired(i) \/ Claim(i)
      PROVE  TypeInv'
  <2>1. queue[i] \in Tasks /\ RemoveAt(queue, i) \in Seq(Tasks)
    BY QueueType
  <2>2. Dequeue(i)
    BY <1>4 DEF DropCancelled, DropExpired, Claim
  <2>3. queue' \in Seq(Tasks) /\ entry' \in [Tasks -> QueuedView]
    BY <2>1, <2>2 DEF Dequeue, Shared, QueuedView
  <2>4. task[queue[i]] \in TaskRecord
    BY <2>1
  <2>5. CASE DropCancelled(i)
    <3>1. Marked(task[queue[i]], "cancelled") \in TaskRecord
      BY <2>4, MarkedFacts DEF Status, Terminal
    <3> QED
      BY <2>5, <2>3, <3>1 DEF DropCancelled, SetTask, dispVars, workerVars, ghostVars
  <2>6. CASE DropExpired(i)
    <3>1. Marked(task[queue[i]], "expired") \in TaskRecord
      BY <2>4, MarkedFacts DEF Status, Terminal
    <3> QED
      BY <2>6, <2>3, <3>1 DEF DropExpired, SetTask, dispVars, workerVars, ghostVars
  <2>7. CASE Claim(i)
    <3>1. MarkedRunning(task[queue[i]]) \in TaskRecord
      BY <2>4, MarkedRunningFacts
    <3>2. PICK w \in Workers :
            /\ wstate' = [wstate EXCEPT ![w] = "busy"]
            /\ cur' = [cur EXCEPT ![w] = queue[i]]
            /\ pc' = [pc EXCEPT ![w] = "spawned"]
      BY <2>7 DEF Claim
    <3>3. \A v \in Workers : pc'[v] # "none" => cur'[v] \in Tasks
      BY <3>2, <2>1
    <3> QED
      BY <2>7, <2>1, <2>3, <3>1, <3>2, <3>3
      DEF Claim, SetTask, Stages, dispVars, ghostVars
  <2> QED
    BY <1>4, <2>5, <2>6, <2>7
<1>5. ASSUME NEW t \in Tasks, RecoverDrop(t)
      PROVE  TypeInv'
  <2>1. Marked(task[t], IF task[t].late THEN "expired" ELSE "failed") \in TaskRecord
    BY MarkedFacts DEF Status, Terminal
  <2> QED
    BY <1>5, <2>1 DEF RecoverDrop, SetTask, queueVars, workerVars, ghostVars
<1>6. ASSUME NEW t \in Tasks, RecoverEnqueue(t)
      PROVE  TypeInv'
  <2>1. queue' \in Seq(Tasks)
    BY <1>6, AppendProperties DEF RecoverEnqueue
  <2>2. rows' \in SUBSET Tasks
    BY <1>6 DEF RecoverEnqueue
  <2> QED
    BY <1>6, <2>1, <2>2 DEF RecoverEnqueue, storeVars, workerVars, ghostVars
<1> QED
  BY <1>1, <1>2, <1>3, <1>4, <1>5, <1>6 DEF Dispatcher

LEMMA ApiType ==
  ASSUME TypeInv, Api
  PROVE  TypeInv'
<1> USE DEF TypeInv, TypeOK
<1>1. ASSUME NEW t \in Tasks, Submit(t)
      PROVE  TypeInv'
  <2>1. NewRecord \in TaskRecord
    BY DEF NewRecord, NoRecord, TaskRecord, Status, Pending
  <2>2. Append(queue, t) \in Seq(Tasks)
    BY AppendProperties
  <2> QED
    BY <1>1, <2>1, <2>2 DEF Submit, SetTask, dispVars, workerVars, ghostVars
<1>2. ASSUME NEW t \in Tasks, Resubmit(t)
      PROVE  TypeInv'
  <2>1. Detached({t}) \in [Tasks -> QueuedView]
    BY DetachedType
  <2> QED
    BY <1>2, <2>1 DEF Resubmit, storeVars, dispVars, workerVars, ghostVars
<1>3. ASSUME NEW t \in Tasks, Cancel(t)
      PROVE  TypeInv'
  <2>1. [task[t] EXCEPT !.cancel = TRUE] \in TaskRecord
    BY FieldFacts
  <2>2. kill' \in [Workers -> BOOLEAN]
    BY <1>3 DEF Cancel
  <2> QED
    BY <1>3, <2>1, <2>2 DEF Cancel, SetTask, queueVars, dispVars, ghostVars
<1>4. ASSUME NEW t \in Tasks, ManualRetry(t)
      PROVE  TypeInv'
  <2> DEFINE r == [MarkedRetry(task[t], FALSE) EXCEPT !.late = FALSE]
  <2>1. r \in TaskRecord
    BY MarkedRetryFacts, FieldFacts
  <2>2. Reenqueue(t, r)
    BY <1>4 DEF ManualRetry
  <2>3. task' \in [Tasks -> TaskRecord] /\ queue' \in Seq(Tasks) /\ entry' = entry
    BY <2>1, <2>2, ReenqueueType
  <2> QED
    BY <1>4, <2>3 DEF ManualRetry, dispVars, workerVars
<1> QED
  BY <1>1, <1>2, <1>3, <1>4 DEF Api

LEMMA ClockType ==
  ASSUME TypeInv, Clock
  PROVE  TypeInv'
<1> USE DEF TypeInv, TypeOK
<1>1. ASSUME NEW t \in Tasks, DeadlinePasses(t)
      PROVE  TypeInv'
  <2>1. [task[t] EXCEPT !.late = TRUE] \in TaskRecord
    BY FieldFacts
  <2>2. [entry EXCEPT ![t].late = entry[t].own] \in [Tasks -> QueuedView]
    BY DEF QueuedView
  <2> QED
    BY <1>1, <2>1, <2>2 DEF DeadlinePasses, SetTask, dispVars, workerVars, ghostVars
<1>2. ASSUME NEW t \in Tasks, RetryDue(t)
      PROVE  TypeInv'
  <2>1. [task[t] EXCEPT !.wait = FALSE] \in TaskRecord
    BY FieldFacts
  <2>2. [entry EXCEPT ![t].wait = FALSE] \in [Tasks -> QueuedView]
    BY DEF QueuedView
  <2> QED
    BY <1>2, <2>1, <2>2 DEF RetryDue, SetTask, dispVars, workerVars, ghostVars
<1> QED
  BY <1>1, <1>2 DEF Clock

LEMMA ProcessType ==
  ASSUME TypeInv, Process
  PROVE  TypeInv'
<1> USE DEF TypeInv, TypeOK
<1>1. ASSUME Down
      PROVE  /\ up' \in BOOLEAN /\ queue' \in Seq(Tasks)
             /\ entry' \in [Tasks -> QueuedView]
             /\ disp' = "sleep" /\ rows' = {}
             /\ wstate' \in [Workers -> {"off", "idle", "busy", "degraded"}]
             /\ cur' \in [Workers -> Tasks \cup {0}]
             /\ pc' \in [Workers -> Stages]
             /\ kill' \in [Workers -> BOOLEAN]
             /\ dirty' \in [Workers -> BOOLEAN]
             /\ \A w \in Workers : pc'[w] # "none" => cur'[w] \in Tasks
  BY <1>1, EmptySeq DEF Down, Shared, QueuedView, Stages
<1>2. CASE Crash
  BY <1>1, <1>2 DEF Crash, storeVars
<1>3. CASE Stop
  <2>1. \A t \in Tasks : Marked(task[t], AfterKill(t)) \in TaskRecord
    BY MarkedFacts DEF AfterKill, Status, Terminal
  <2>2. task' \in [Tasks -> TaskRecord]
    BY <1>3, <2>1 DEF Stop
  <2> QED
    BY <1>1, <1>3, <2>2 DEF Stop
<1>4. CASE Start
  <2>1. \A t \in Tasks : Interrupted(task[t]) \in TaskRecord
    BY MarkedFacts DEF Interrupted, Status, Terminal
  <2>2. task' \in [Tasks -> TaskRecord]
    BY <1>4, <2>1 DEF Start
  <2>3. rows' \in SUBSET Tasks
    BY <1>4 DEF Start, Recoverable
  <2> QED
    BY <1>4, <2>2, <2>3 DEF Start, queueVars, ghostVars
<1> QED
  BY <1>2, <1>3, <1>4 DEF Process

LEMMA CoroutineType ==
  ASSUME TypeInv, NEW w \in Workers, Coroutine(w)
  PROVE  TypeInv'
<1> DEFINE SlotType ==
      /\ wstate' \in [Workers -> {"off", "idle", "busy", "degraded"}]
      /\ cur' \in [Workers -> Tasks \cup {0}]
      /\ pc' \in [Workers -> Stages]
      /\ kill' \in [Workers -> BOOLEAN]
      /\ \A v \in Workers : pc'[v] # "none" => cur'[v] \in Tasks
    StoreType == task' \in [Tasks -> TaskRecord] /\ attempts' \in [Tasks -> SUBSET Nat]
    QueueType1 == queue' \in Seq(Tasks) /\ entry' \in [Tasks -> QueuedView]
    GhostType1 == /\ dirty' \in [Workers -> BOOLEAN]
                  /\ sent' \in [Tasks -> {"no", "clicked", "confirmed"}]
<1>1. pc[w] # "none"
  BY DEF Coroutine, At, Killed, Executing, Begin, OpenChat, ConfigureModel, Click,
     ConfirmSent, Answer, UnusableAnswer, UnsavedAnswer, FailBeforeSend,
     TimeoutInSend, LoseOutcome, PollSeesCancel, ExternalUnsent, ExternalFailed,
     ExternalCancelled, ExternalUnknown, Rebuilt, RebuildFails, KillUnstarted,
     KillExecuting, KillRebuild
<1>2. cur[w] \in Tasks /\ task[cur[w]] \in TaskRecord
  BY <1>1 DEF TypeInv, TypeOK
<1>3. ASSUME NEW s \in {"idle", "degraded"}, Release(w, s)
      PROVE  SlotType
  BY <1>3, ReleaseType
<1>4. ASSUME NEW stage \in Stages, Goto(w, stage)
      PROVE  SlotType
  BY <1>1, <1>4, GotoType
<1>5. ASSUME NEW s \in Status, Mark(w, s)
      PROVE  task' \in [Tasks -> TaskRecord]
  BY <1>1, <1>5, MarkType
<1>6. ASSUME OnRetry(cur[w])
      PROVE  task' \in [Tasks -> TaskRecord] /\ QueueType1
  BY <1>2, <1>6, OnRetryType DEF TypeInv, TypeOK
<1>7. ASSUME SlotType, StoreType, QueueType1, GhostType1, Rest
      PROVE  TypeInv'
  BY <1>7 DEF TypeInv, TypeOK, Rest, dispVars
<1>8. UNCHANGED task => task' \in [Tasks -> TaskRecord]
  BY DEF TypeInv, TypeOK
<1>9. UNCHANGED attempts => attempts' \in [Tasks -> SUBSET Nat]
  BY DEF TypeInv, TypeOK
<1>10. UNCHANGED queueVars => QueueType1
  BY DEF TypeInv, TypeOK, queueVars
<1>11. UNCHANGED ghostVars => GhostType1
  BY DEF TypeInv, TypeOK, ghostVars
<1>12. /\ \A b \in BOOLEAN : SetDirty(w, b) => dirty' \in [Workers -> BOOLEAN]
       /\ \A v \in {"no", "clicked", "confirmed"} :
            SetSent(w, v) => sent' \in [Tasks -> {"no", "clicked", "confirmed"}]
       /\ UNCHANGED dirty => dirty' \in [Workers -> BOOLEAN]
       /\ UNCHANGED sent => sent' \in [Tasks -> {"no", "clicked", "confirmed"}]
  BY GhostType DEF TypeInv, TypeOK
<1>13. sent[cur[w]] \in {"no", "clicked", "confirmed"} /\ dirty[w] \in BOOLEAN
  BY <1>2 DEF TypeInv, TypeOK
<1>14. {"done", "failed", "cancelled", "interrupted", "outcome_unknown"} \subseteq Status
  BY DEF Status, Terminal
<1>15. {"opening", "configuring", "sending", "clicked", "generating",
        "rebuild_retry", "rebuild_finish", "dead"} \subseteq Stages
  BY DEF Stages, Executing
<1> HIDE DEF SlotType, QueueType1, GhostType1
<1>16. CASE Begin(w)
  <2>1. attempts' \in [Tasks -> SUBSET Nat]
    <3>1. task[cur[w]].retries + 1 \in Nat
      BY <1>2 DEF TaskRecord
    <3> QED
      BY <1>16, <1>2, <3>1 DEF Begin, TypeInv, TypeOK
  <2> QED
    BY <1>16, <2>1, <1>3, <1>4, <1>5, <1>7, <1>8, <1>10, <1>11, <1>14, <1>15 DEF Begin
<1>17. CASE OpenChat(w) \/ ConfigureModel(w)
  BY <1>17, <1>3, <1>4, <1>5, <1>7, <1>8, <1>9, <1>10, <1>11, <1>14, <1>15
  DEF OpenChat, ConfigureModel, storeVars
<1>18. CASE Click(w) \/ ConfirmSent(w)
  BY <1>18, <1>4, <1>7, <1>8, <1>9, <1>10, <1>12, <1>13, <1>15
  DEF Click, ConfirmSent, storeVars, GhostType1
<1>19. CASE Answer(w)
  BY <1>19, <1>3, <1>5, <1>7, <1>9, <1>10, <1>12, <1>14 DEF Answer, GhostType1
<1>20. CASE UnusableAnswer(w)
  BY <1>20, <1>3, <1>6, <1>7, <1>9, <1>12 DEF UnusableAnswer, GhostType1
<1>21. CASE UnsavedAnswer(w)
  BY <1>21, <1>3, <1>5, <1>7, <1>9, <1>10, <1>12, <1>14 DEF UnsavedAnswer, GhostType1
<1>22. CASE FailBeforeSend(w) \/ TimeoutInSend(w)
  BY <1>22, <1>4, <1>7, <1>8, <1>9, <1>10, <1>11, <1>15
  DEF FailBeforeSend, TimeoutInSend, storeVars
<1>23. CASE LoseOutcome(w)
  BY <1>23, <1>4, <1>5, <1>7, <1>9, <1>10, <1>11, <1>14, <1>15 DEF LoseOutcome
<1>24. CASE PollSeesCancel(w)
  BY <1>24, <1>3, <1>5, <1>7, <1>9, <1>10, <1>11, <1>14 DEF PollSeesCancel
<1>25. CASE ExternalUnsent(w)
  BY <1>25, <1>3, <1>6, <1>7, <1>9, <1>11 DEF ExternalUnsent
<1>26. CASE ExternalFailed(w)
  BY <1>26, <1>3, <1>5, <1>7, <1>9, <1>10, <1>12, <1>13, <1>14
  DEF ExternalFailed, GhostType1
<1>27. CASE ExternalCancelled(w)
  BY <1>27, <1>3, <1>5, <1>7, <1>9, <1>10, <1>12, <1>13, <1>14
  DEF ExternalCancelled, GhostType1
<1>28. CASE ExternalUnknown(w)
  BY <1>28, <1>3, <1>5, <1>7, <1>9, <1>10, <1>11, <1>14 DEF ExternalUnknown
<1>29. CASE Rebuilt(w)
  BY <1>29, <1>3, <1>6, <1>7, <1>8, <1>9, <1>10, <1>12 DEF Rebuilt, GhostType1, queueVars
<1>30. CASE RebuildFails(w)
  BY <1>30, <1>3, <1>6, <1>7, <1>8, <1>9, <1>10, <1>11 DEF RebuildFails, queueVars
<1>31. CASE KillUnstarted(w)
  <2>1. SlotType
    BY <1>31, <1>2, <1>15 DEF KillUnstarted, SlotType, TypeInv, TypeOK
  <2> QED
    BY <1>31, <2>1, <1>7, <1>8, <1>9, <1>10, <1>11 DEF KillUnstarted, storeVars
<1>32. CASE KillExecuting(w)
  <2>1. SlotType
    <3>1. CASE Release(w, "idle")
      BY <3>1, <1>3
    <3>2. CASE /\ pc' = [pc EXCEPT ![w] = "rebuild_finish"]
               /\ kill' = [kill EXCEPT ![w] = FALSE]
               /\ UNCHANGED <<wstate, cur>>
      BY <3>2, <1>2, <1>15 DEF SlotType, TypeInv, TypeOK
    <3> QED
      BY <1>32, <3>1, <3>2 DEF KillExecuting
  <2>2. AfterKill(cur[w]) \in Status
    BY <1>14 DEF AfterKill
  <2> QED
    BY <1>32, <2>1, <2>2, <1>5, <1>7, <1>9, <1>10, <1>11 DEF KillExecuting
<1>33. CASE KillRebuild(w)
  BY <1>33, <1>3, <1>7, <1>8, <1>9, <1>10, <1>12, <1>13
  DEF KillRebuild, storeVars, GhostType1
<1> QED
  BY <1>16, <1>17, <1>18, <1>19, <1>20, <1>21, <1>22, <1>23, <1>24, <1>25, <1>26,
     <1>27, <1>28, <1>29, <1>30, <1>31, <1>32, <1>33 DEF Coroutine

LEMMA RecoverTabType ==
  ASSUME TypeInv, NEW w \in Workers, RecoverTab(w)
  PROVE  TypeInv'
BY DEF TypeInv, TypeOK, RecoverTab, SetDirty, Rest, dispVars, storeVars, queueVars

LEMMA TypeInvariant == Spec => []TypeInv
<1>1. Init => TypeInv
  BY EmptySeq
  DEF Init, TypeInv, TypeOK, NoRecord, TaskRecord, Shared, QueuedView, Status, Stages
<1>2. TypeInv /\ [Next]_vars => TypeInv'
  <2> SUFFICES ASSUME TypeInv, [Next]_vars
               PROVE  TypeInv'
    OBVIOUS
  <2>1. CASE Next
    BY <2>1, DispatcherType, ApiType, ClockType, ProcessType, CoroutineType,
       RecoverTabType DEF Next
  <2>2. CASE UNCHANGED vars
    BY <2>2 DEF vars, storeVars, queueVars, dispVars, workerVars, ghostVars,
       TypeInv, TypeOK
  <2> QED
    BY <2>1, <2>2
<1> QED
  BY <1>1, <1>2, PTL DEF Spec

(* Every variable of Relay keeps its type, for every configuration.        *)
THEOREM TypeCorrect == Spec => []TypeOK
<1>1. TypeInv => TypeOK
  BY DEF TypeInv
<1> QED
  BY <1>1, TypeInvariant, PTL

-----------------------------------------------------------------------------
(* Ownership.                                                              *)

Has(q, t) == \E i \in 1..Len(q) : q[i] = t
Distinct(q) == \A i, j \in 1..Len(q) : q[i] = q[j] => i = j

LEMMA AppendHas ==
  ASSUME NEW q \in Seq(Tasks), NEW t \in Tasks, ~Has(q, t), Distinct(q)
  PROVE  /\ Len(Append(q, t)) = Len(q) + 1
         /\ Distinct(Append(q, t))
         /\ \A u : Has(Append(q, t), u) => Has(q, u) \/ u = t
<1>1. /\ Len(Append(q, t)) = Len(q) + 1
      /\ \A i \in 1..Len(q) : Append(q, t)[i] = q[i]
      /\ Append(q, t)[Len(q) + 1] = t
  BY AppendProperties
<1>2. Len(q) \in Nat
  BY LenProperties
<1> QED
  BY <1>1, <1>2 DEF Has, Distinct

LEMMA RemoveHas ==
  ASSUME NEW q \in Seq(Tasks), NEW i \in 1..Len(q), Distinct(q)
  PROVE  /\ Len(RemoveAt(q, i)) = Len(q) - 1
         /\ Distinct(RemoveAt(q, i))
         /\ \A u : Has(RemoveAt(q, i), u) => Has(q, u) /\ u # q[i]
<1> DEFINE p == RemoveAt(q, i)
           Old(j) == IF j < i THEN j ELSE j + 1
<1>1. /\ Len(p) = Len(q) - 1
      /\ \A j \in 1..(Len(q) - 1) : p[j] = IF j < i THEN q[j] ELSE q[j + 1]
  BY RemoveAtQueue
<1>2. Len(q) \in Nat
  BY LenProperties
<1> HIDE DEF p
<1>3. \A j \in 1..Len(p) : Old(j) \in 1..Len(q) /\ Old(j) # i /\ p[j] = q[Old(j)]
  BY <1>1, <1>2
<1>4. \A j, k \in 1..Len(p) : Old(j) = Old(k) => j = k
  BY <1>1, <1>2
<1> HIDE DEF Old
<1>5. Distinct(p)
  BY <1>3, <1>4 DEF Distinct
<1>6. \A u : Has(p, u) => Has(q, u) /\ u # q[i]
  BY <1>3 DEF Has, Distinct
<1> QED
  BY <1>1, <1>5, <1>6 DEF p

-----------------------------------------------------------------------------
(* A worker with a coroutine is busy. *)
BusySlots == \A w \in Workers : pc[w] # "none" => wstate[w] = "busy"

(* The task of an attempt is marked running. *)
OwnedRunning == \A w \in Workers : Owns(w) => task[cur[w]].status = "running"

(* The rows of a recovery pass still wait; there are none outside a pass. *)
RowsPending ==
  /\ \A t \in rows : task[t].status \in Pending
  /\ disp # "recover" => rows = {}

(* A process that is down has no coroutine and no dispatcher. *)
DownIdle == ~up => disp = "sleep" /\ \A w \in Workers : pc[w] = "none"

(* A queued task waits, or the recovery pass has just given it up. *)
Queueable == Pending \cup {"expired", "failed"}
QueuedWaits == \A t \in Tasks : Has(queue, t) => task[t].status \in Queueable

OwnInv ==
  /\ BusySlots /\ OwnedRunning /\ RowsPending /\ DownIdle /\ QueuedWaits
  /\ SingleOwner /\ QueueSound

(* No coroutine moves and no status changes. *)
LEMMA QuietStep ==
  ASSUME TypeInv, OwnInv,
         pc' = pc, cur' = cur, queue' = queue, up' = up,
         \A t \in Tasks : task'[t].status = task[t].status,
         \A w \in Workers : wstate[w] = "busy" => wstate'[w] = "busy",
         \A t \in rows' : task[t].status \in Pending /\ t \in Tasks,
         disp' # "recover" => rows' = {},
         ~up => disp' = "sleep"
  PROVE  OwnInv'
<1>1. BusySlots' /\ SingleOwner' /\ QueueSound' /\ DownIdle'
  BY DEF OwnInv, BusySlots, SingleOwner, QueueSound, DownIdle, Owns, InQueue
<1>2. OwnedRunning'
  <2>1. \A w \in Workers : Owns(w) => cur[w] \in Tasks
    BY DEF TypeInv, Owns
  <2> QED
    BY <2>1 DEF OwnInv, OwnedRunning, Owns
<1>3. RowsPending' /\ QueuedWaits'
  BY DEF OwnInv, RowsPending, QueuedWaits
<1> QED
  BY <1>1, <1>2, <1>3 DEF OwnInv

(* A task that no worker runs is rewritten, queued or taken off the queue. *)
LEMMA UnownedStep ==
  ASSUME TypeInv, OwnInv, NEW t \in Tasks, task[t].status # "running",
         pc' = pc, cur' = cur, wstate' = wstate, up' = up, disp' = disp,
         \A u \in Tasks : u # t => task'[u] = task[u],
         Len(queue') <= MaxQueue, Distinct(queue'),
         \A u : Has(queue', u) => Has(queue, u) \/ u = t,
         Has(queue', t) => task'[t].status \in Queueable,
         rows' \subseteq rows, t \in rows' => task'[t].status \in Pending
  PROVE  OwnInv'
<1>1. \A w \in Workers : Owns(w) => cur[w] \in Tasks /\ cur[w] # t
  BY DEF TypeInv, Owns, OwnInv, OwnedRunning
<1>2. BusySlots' /\ SingleOwner' /\ DownIdle'
  BY DEF OwnInv, BusySlots, SingleOwner, DownIdle, Owns
<1>3. OwnedRunning'
  BY <1>1 DEF OwnInv, OwnedRunning, Owns
<1>4. RowsPending'
  BY DEF OwnInv, RowsPending, TypeInv, TypeOK
<1>5. QueueSound'
  <2>1. \A w \in Workers : Owns(w)' => ~Has(queue', cur'[w])
    BY <1>1 DEF OwnInv, QueueSound, Owns, InQueue, Has
  <2> QED
    BY <2>1 DEF QueueSound, Distinct, Has, InQueue
<1>6. QueuedWaits'
  BY DEF OwnInv, QueuedWaits
<1> QED
  BY <1>2, <1>3, <1>4, <1>5, <1>6 DEF OwnInv

(* The owner of a task gives it up; the task may be queued again. *)
LEMMA GiveUpStep ==
  ASSUME TypeInv, OwnInv, NEW w \in Workers,
         Owns(w) \/ UNCHANGED <<task, queue>>,
         \A v \in Workers : v # w => /\ pc'[v] = pc[v] /\ cur'[v] = cur[v]
                                     /\ wstate'[v] = wstate[v],
         \/ pc'[w] = "none"
         \/ pc'[w] = "rebuild_finish" /\ wstate'[w] = wstate[w] /\ Owns(w),
         \A u \in Tasks : u # cur[w] => task'[u] = task[u],
         up /\ up', disp = "sleep", UNCHANGED dispVars,
         Len(queue') <= MaxQueue, Distinct(queue'),
         \A u : Has(queue', u) => Has(queue, u) \/ u = cur[w],
         Owns(w) /\ Has(queue', cur[w]) => task'[cur[w]].status \in Queueable
  PROVE  OwnInv'
<1>1. ~Owns(w)' /\ \A v \in Workers : v # w => (Owns(v)' <=> Owns(v))
  BY DEF Owns
<1>2. \A v \in Workers : Owns(v) => cur[v] \in Tasks
  BY DEF TypeInv, Owns
<1>3. Owns(w) => \A v \in Workers : v # w /\ Owns(v) => cur[v] # cur[w]
  BY DEF OwnInv, SingleOwner
<1>4. BusySlots'
  BY DEF OwnInv, BusySlots, Owns
<1>5. OwnedRunning' /\ SingleOwner'
  BY <1>1, <1>2, <1>3 DEF OwnInv, OwnedRunning, SingleOwner
<1>6. RowsPending' /\ DownIdle'
  BY DEF OwnInv, RowsPending, DownIdle, dispVars
<1>7. QueueSound'
  <2>1. \A v \in Workers : Owns(v) => ~Has(queue, cur[v])
    BY DEF OwnInv, QueueSound, InQueue, Has
  <2>2. \A v \in Workers : Owns(v)' => ~Has(queue', cur'[v])
    <3>1. CASE Owns(w)
      BY <1>1, <1>3, <2>1, <3>1
    <3>2. CASE UNCHANGED <<task, queue>>
      BY <1>1, <2>1, <3>2
    <3> QED
      BY <3>1, <3>2
  <2> QED
    BY <2>2 DEF QueueSound, Distinct, Has, InQueue
<1>8. QueuedWaits'
  BY DEF OwnInv, QueuedWaits
<1> QED
  BY <1>4, <1>5, <1>6, <1>7, <1>8 DEF OwnInv

(* A coroutine moves to another stage of the attempt. *)
LEMMA MoveStep ==
  ASSUME TypeInv, OwnInv, NEW w \in Workers, Owns(w),
         NEW stage \in Stages \ {"none", "rebuild_finish"},
         pc' = [pc EXCEPT ![w] = stage],
         UNCHANGED <<task, queue, cur, wstate, dispVars, up>>, up
  PROVE  OwnInv'
<1>1. pc[w] # "none"
  BY DEF Owns
<1>2. \A v \in Workers : (Owns(v)' <=> Owns(v)) /\ (pc'[v] = "none" <=> pc[v] = "none")
  BY <1>1 DEF Owns, TypeInv, TypeOK
<1>3. BusySlots' /\ OwnedRunning' /\ SingleOwner' /\ RowsPending' /\ DownIdle'
  BY <1>2 DEF OwnInv, BusySlots, OwnedRunning, SingleOwner, RowsPending, DownIdle, dispVars
<1>4. QueueSound' /\ QueuedWaits'
  BY <1>2 DEF OwnInv, QueueSound, InQueue, QueuedWaits
<1> QED
  BY <1>3, <1>4 DEF OwnInv

-----------------------------------------------------------------------------
(* What the shared operators do. *)

LEMMA ReenqueueFacts ==
  ASSUME TypeInv, OwnInv, NEW t \in Tasks, NEW r \in TaskRecord,
         r.status \in Pending, Reenqueue(t, r)
  PROVE  /\ \A u \in Tasks : u # t => task'[u] = task[u]
         /\ Len(queue') <= MaxQueue /\ Distinct(queue')
         /\ \A u : Has(queue', u) => Has(queue, u) \/ u = t
         /\ task'[t].status \in Queueable
<1>1. \A u \in Tasks : u # t => task'[u] = task[u]
  BY DEF Reenqueue, SetTask, TypeInv, TypeOK
<1>5. task'[t].status \in Queueable
  BY MarkedFacts DEF Reenqueue, SetTask, TypeInv, TypeOK, Queueable, Status, Terminal
<1>2. Len(queue) <= MaxQueue /\ Distinct(queue)
  BY DEF OwnInv, QueueSound, Distinct
<1>3. CASE UNCHANGED queue
  BY <1>1, <1>2, <1>3, <1>5
<1>4. CASE ~InQueue(t) /\ Len(queue) < MaxQueue /\ queue' = Append(queue, t)
  <2>1. queue \in Seq(Tasks) /\ ~Has(queue, t)
    BY <1>4 DEF TypeInv, TypeOK, InQueue, Has
  <2>2. Len(queue) \in Nat /\ MaxQueue \in Nat
    BY <2>1, LenProperties, SizesAssumption
  <2> QED
    BY <1>1, <1>2, <1>4, <1>5, <2>1, <2>2, AppendHas
<1> QED
  BY <1>3, <1>4 DEF Reenqueue, queueVars

LEMMA OnRetryFacts ==
  ASSUME TypeInv, OwnInv, NEW t \in Tasks, OnRetry(t)
  PROVE  /\ \A u \in Tasks : u # t => task'[u] = task[u]
         /\ Len(queue') <= MaxQueue /\ Distinct(queue')
         /\ \A u : Has(queue', u) => Has(queue, u) \/ u = t
         /\ task'[t].status \in Queueable
<1>1. CASE Reenqueue(t, MarkedRetry(task[t], TRUE))
  BY <1>1, ReenqueueFacts, MarkedRetryFacts DEF TypeInv, TypeOK
<1>2. CASE SetTask(t, Marked(task[t], "failed")) /\ UNCHANGED queueVars
  BY <1>2, MarkedFacts DEF SetTask, TypeInv, TypeOK, queueVars, OwnInv, QueueSound,
     Distinct, Queueable, Status, Terminal
<1> QED
  BY <1>1, <1>2 DEF OnRetry

LEMMA DequeueFacts ==
  ASSUME TypeInv, OwnInv, NEW i \in 1..Len(queue), Dequeue(i)
  PROVE  /\ queue[i] \in Tasks
         /\ Len(queue') <= MaxQueue /\ Distinct(queue')
         /\ \A u : Has(queue', u) => Has(queue, u) /\ u # queue[i]
         /\ \A w \in Workers : Owns(w) => cur[w] # queue[i]
<1>1. queue \in Seq(Tasks) /\ Len(queue) \in Nat /\ MaxQueue \in Nat
  BY LenProperties, SizesAssumption DEF TypeInv, TypeOK
<1>2. Distinct(queue) /\ Len(queue) <= MaxQueue
  BY DEF OwnInv, QueueSound, Distinct
<1>3. \A w \in Workers : Owns(w) => cur[w] # queue[i]
  BY DEF OwnInv, QueueSound, InQueue
<1> QED
  BY <1>1, <1>2, <1>3, RemoveHas, QueueType DEF Dequeue

-----------------------------------------------------------------------------
(* The actions. *)

LEMMA DispatcherOwnership ==
  ASSUME TypeInv, OwnInv, Dispatcher
  PROVE  OwnInv'
<1>1. Len(queue) <= MaxQueue /\ Distinct(queue)
  BY DEF OwnInv, QueueSound, Distinct
<1>2. CASE Wake \/ Sleep
  <2>1. RowsPending
    BY DEF OwnInv
  <2> QED
    BY <1>2, <2>1, QuietStep
    DEF Wake, Sleep, storeVars, queueVars, workerVars, RowsPending, TypeInv, TypeOK
<1>3. CASE ListRecoverable
  BY <1>3, QuietStep DEF ListRecoverable, Recoverable, storeVars, workerVars
<1>4. ASSUME NEW i \in 1..Len(queue), DropCancelled(i) \/ DropExpired(i)
      PROVE  OwnInv'
  <2>1. /\ Dequeue(i) /\ disp # "recover"
        /\ \E s : SetTask(queue[i], Marked(task[queue[i]], s))
        /\ UNCHANGED <<dispVars, workerVars, up>>
    BY <1>4 DEF DropCancelled, DropExpired, First
  <2>2. rows' = {}
    BY <2>1 DEF OwnInv, RowsPending, dispVars
  <2>3. \A u \in Tasks : u # queue[i] => task'[u] = task[u]
    BY <2>1 DEF SetTask, TypeInv, TypeOK
  <2>4. \A w \in Workers : Owns(w) => cur[w] # queue[i] /\ cur[w] \in Tasks
    BY <2>1, DequeueFacts DEF TypeInv, Owns
  <2>5. /\ Len(queue') <= MaxQueue /\ Distinct(queue')
        /\ \A u : Has(queue', u) => Has(queue, u)
    BY <2>1, DequeueFacts
  <2>6. BusySlots' /\ SingleOwner' /\ RowsPending' /\ DownIdle' /\ OwnedRunning'
    BY <2>1, <2>2, <2>3, <2>4
    DEF OwnInv, BusySlots, SingleOwner, RowsPending, DownIdle, OwnedRunning, Owns,
        workerVars, dispVars
  <2>7. QueueSound'
    BY <2>1, <2>5 DEF OwnInv, QueueSound, Distinct, Has, InQueue, Owns, workerVars
  <2>8. QueuedWaits'
    <3>1. ~Has(queue', queue[i])
      BY <2>1, DequeueFacts
    <3> QED
      BY <2>3, <2>5, <3>1 DEF OwnInv, QueuedWaits
  <2> QED
    BY <2>6, <2>7, <2>8 DEF OwnInv
<1>5. ASSUME NEW i \in 1..Len(queue), Claim(i)
      PROVE  OwnInv'
  <2> DEFINE t == queue[i]
  <2>1. PICK w \in Workers :
          /\ wstate[w] = "idle"
          /\ wstate' = [wstate EXCEPT ![w] = "busy"]
          /\ cur' = [cur EXCEPT ![w] = t]
          /\ pc' = [pc EXCEPT ![w] = "spawned"]
    BY <1>5 DEF Claim, FirstIdle
  <2>2. Dequeue(i) /\ disp # "recover" /\ up /\ UNCHANGED <<dispVars, up>>
    BY <1>5 DEF Claim, First
  <2>3. /\ t \in Tasks /\ Len(queue') <= MaxQueue /\ Distinct(queue')
        /\ \A u : Has(queue', u) => Has(queue, u) /\ u # t
        /\ \A v \in Workers : Owns(v) => cur[v] # t
    BY <2>2, DequeueFacts
  <2>4. task' = [task EXCEPT ![t] = MarkedRunning(task[t])]
    BY <1>5 DEF Claim, SetTask
  <2>5. /\ task'[t].status = "running"
        /\ \A u \in Tasks : u # t => task'[u] = task[u]
    BY <2>3, <2>4, MarkedRunningFacts DEF TypeInv, TypeOK
  <2>6. /\ cur'[w] = t /\ pc'[w] = "spawned" /\ wstate'[w] = "busy"
        /\ \A v \in Workers : v # w => /\ cur'[v] = cur[v] /\ pc'[v] = pc[v]
                                        /\ wstate'[v] = wstate[v]
    BY <2>1 DEF TypeInv, TypeOK
  <2> HIDE DEF t
  <2>7. \A v \in Workers : v # w => (Owns(v)' <=> Owns(v))
    BY <2>6 DEF Owns
  <2>8. \A v \in Workers : Owns(v) => cur[v] \in Tasks
    BY DEF TypeInv, Owns
  <2>9. BusySlots' /\ SingleOwner' /\ OwnedRunning'
    BY <2>3, <2>5, <2>6, <2>7, <2>8 DEF OwnInv, BusySlots, SingleOwner, OwnedRunning
  <2>10. RowsPending' /\ DownIdle'
    BY <2>2 DEF OwnInv, RowsPending, DownIdle, dispVars
  <2>11. QueueSound'
    <3>1. \A v \in Workers : Owns(v) => ~Has(queue, cur[v])
      BY DEF OwnInv, QueueSound, InQueue, Has
    <3>2. \A v \in Workers : Owns(v)' => ~Has(queue', cur'[v])
      BY <2>3, <2>6, <2>7, <3>1
    <3> QED
      BY <2>3, <3>2 DEF QueueSound, Distinct, Has, InQueue
  <2>12. QueuedWaits'
    BY <2>3, <2>5 DEF OwnInv, QueuedWaits
  <2> QED
    BY <2>9, <2>10, <2>11, <2>12 DEF OwnInv
<1>6. ASSUME NEW t \in Tasks, RecoverDrop(t)
      PROVE  OwnInv'
  <2>1. t \in rows /\ task[t].status \in Pending
    BY <1>6 DEF RecoverDrop, NextRow, OwnInv, RowsPending
  <2>2. \A u \in Tasks : u # t => task'[u] = task[u]
    BY <1>6 DEF RecoverDrop, SetTask, TypeInv, TypeOK
  <2>3. task'[t].status \in Queueable
    BY <1>6, MarkedFacts
    DEF RecoverDrop, SetTask, TypeInv, TypeOK, Queueable, Status, Terminal
  <2> QED
    BY <1>1, <1>6, <2>1, <2>2, <2>3, UnownedStep
    DEF RecoverDrop, queueVars, workerVars, Pending
<1>7. ASSUME NEW t \in Tasks, RecoverEnqueue(t)
      PROVE  OwnInv'
  <2>1. task[t].status # "running"
    BY <1>7 DEF RecoverEnqueue, NextRow, OwnInv, RowsPending, Pending
  <2>2. /\ Len(queue') <= MaxQueue /\ Distinct(queue')
        /\ \A u : Has(queue', u) => Has(queue, u) \/ u = t
    <3>1. CASE UNCHANGED queue
      BY <1>1, <3>1
    <3>2. CASE ~InQueue(t) /\ Len(queue) < MaxQueue /\ queue' = Append(queue, t)
      <4>1. queue \in Seq(Tasks) /\ ~Has(queue, t)
        BY <3>2 DEF TypeInv, TypeOK, InQueue, Has
      <4>2. Len(queue) \in Nat /\ MaxQueue \in Nat
        BY <4>1, LenProperties, SizesAssumption
      <4> QED
        BY <1>1, <3>2, <4>1, <4>2, AppendHas
    <3> QED
      BY <1>7, <3>1, <3>2 DEF RecoverEnqueue
  <2>3. rows' \subseteq rows /\ t \notin rows'
    BY <1>7 DEF RecoverEnqueue
  <2>4. task' = task /\ task[t].status \in Queueable
    BY <1>7 DEF RecoverEnqueue, NextRow, storeVars, OwnInv, RowsPending, Queueable
  <2> QED
    BY <1>7, <2>1, <2>2, <2>3, <2>4, UnownedStep DEF RecoverEnqueue, storeVars, workerVars
<1> QED
  BY <1>2, <1>3, <1>4, <1>5, <1>6, <1>7 DEF Dispatcher

LEMMA ApiOwnership ==
  ASSUME TypeInv, OwnInv, Api
  PROVE  OwnInv'
<1>1. rows = {}
  BY DEF OwnInv, RowsPending, Api, ApiReady, Submit, Resubmit, Cancel, ManualRetry
<1>2. Len(queue) <= MaxQueue /\ Distinct(queue)
  BY DEF OwnInv, QueueSound, Distinct
<1>3. ASSUME NEW t \in Tasks, Submit(t)
      PROVE  OwnInv'
  <2>1. /\ task[t].status = "none"
        /\ task'[t].status \in Queueable
        /\ \A u \in Tasks : u # t => task'[u] = task[u]
    BY <1>3 DEF Submit, SetTask, TypeInv, TypeOK, NewRecord, NoRecord, Queueable, Pending
  <2>2. queue \in Seq(Tasks) /\ ~Has(queue, t)
    BY <2>1 DEF TypeInv, TypeOK, OwnInv, QueuedWaits, Queueable, Pending
  <2>3. Len(queue) < MaxQueue /\ Len(queue) \in Nat /\ MaxQueue \in Nat
    BY <1>3, <2>2, LenProperties, SizesAssumption DEF Submit
  <2>4. /\ Len(queue') <= MaxQueue /\ Distinct(queue')
        /\ \A u : Has(queue', u) => Has(queue, u) \/ u = t
    BY <1>2, <1>3, <2>2, <2>3, AppendHas DEF Submit
  <2> QED
    BY <1>1, <1>3, <2>1, <2>4, UnownedStep DEF Submit, dispVars, workerVars
<1>4. ASSUME NEW t \in Tasks, Resubmit(t)
      PROVE  OwnInv'
  BY <1>1, <1>4, QuietStep
  DEF Resubmit, storeVars, dispVars, workerVars, OwnInv, DownIdle
<1>5. ASSUME NEW t \in Tasks, Cancel(t)
      PROVE  OwnInv'
  <2>1. \A u \in Tasks : task'[u].status = task[u].status
    BY <1>5, FieldFacts DEF Cancel, SetTask, TypeInv, TypeOK
  <2> QED
    BY <1>1, <1>5, <2>1, QuietStep DEF Cancel, queueVars, dispVars, OwnInv, DownIdle
<1>6. ASSUME NEW t \in Tasks, ManualRetry(t)
      PROVE  OwnInv'
  <2> DEFINE r == [MarkedRetry(task[t], FALSE) EXCEPT !.late = FALSE]
  <2>1. MarkedRetry(task[t], FALSE) \in TaskRecord
        /\ MarkedRetry(task[t], FALSE).status \in Pending
    BY MarkedRetryFacts DEF TypeInv, TypeOK
  <2>2. r \in TaskRecord /\ r.status \in Pending
    BY <2>1, FieldFacts
  <2>3. Reenqueue(t, r) /\ task[t].status \in Terminal
    BY <1>6 DEF ManualRetry, Retryable
  <2> HIDE DEF r
  <2>4. /\ \A u \in Tasks : u # t => task'[u] = task[u]
        /\ Len(queue') <= MaxQueue /\ Distinct(queue')
        /\ \A u : Has(queue', u) => Has(queue, u) \/ u = t
        /\ task'[t].status \in Queueable
    BY <2>2, <2>3, ReenqueueFacts
  <2> QED
    BY <1>1, <1>6, <2>3, <2>4, UnownedStep
    DEF ManualRetry, dispVars, workerVars, Terminal
<1> QED
  BY <1>3, <1>4, <1>5, <1>6 DEF Api

LEMMA ClockOwnership ==
  ASSUME TypeInv, OwnInv, Clock
  PROVE  OwnInv'
<1>1. PICK t \in Tasks : DeadlinePasses(t) \/ RetryDue(t)
  BY DEF Clock
<1>2. \A u \in Tasks : task'[u].status = task[u].status
  <2>1. task[t] \in TaskRecord
    BY DEF TypeInv, TypeOK
  <2>2. [task[t] EXCEPT !.late = TRUE].status = task[t].status
    BY <2>1, FieldFacts
  <2>3. [task[t] EXCEPT !.wait = FALSE].status = task[t].status
    BY <2>1, FieldFacts
  <2>4. \E r : r.status = task[t].status /\ task' = [task EXCEPT ![t] = r]
    BY <1>1, <2>2, <2>3 DEF DeadlinePasses, RetryDue, SetTask
  <2> QED
    BY <2>4 DEF TypeInv, TypeOK
<1>3. UNCHANGED <<queue, dispVars, workerVars, up>>
  BY <1>1 DEF DeadlinePasses, RetryDue
<1>4. \A u \in rows' : task[u].status \in Pending /\ u \in Tasks
  BY <1>3 DEF OwnInv, RowsPending, dispVars, TypeInv, TypeOK
<1>5. (disp' # "recover" => rows' = {}) /\ (~up => disp' = "sleep")
  BY <1>3 DEF OwnInv, RowsPending, DownIdle, dispVars
<1> QED
  BY <1>2, <1>3, <1>4, <1>5, QuietStep DEF workerVars

LEMMA CoroutineOwnership ==
  ASSUME TypeInv, OwnInv, NEW w \in Workers, Coroutine(w)
  PROVE  OwnInv'
<1> DEFINE Others == \A v \in Workers : v # w => /\ pc'[v] = pc[v] /\ cur'[v] = cur[v]
                                               /\ wstate'[v] = wstate[v]
           Attempting == pc[w] \in Executing \cup {"spawned", "rebuild_retry"}
           Awake == up /\ up' /\ disp = "sleep" /\ UNCHANGED dispVars
<1>1. \A s : Release(w, s) => Others /\ pc'[w] = "none"
  BY DEF Release, TypeInv, TypeOK
<1>2. Attempting => Owns(w)
  BY DEF Owns, Executing
<1>3. Len(queue) <= MaxQueue /\ Distinct(queue)
  BY DEF OwnInv, QueueSound, Distinct
<1>4. Awake
  <2>1. Rest /\ up /\ disp = "sleep"
    BY DEF Coroutine, At, Killed, Begin, OpenChat, ConfigureModel, Click,
       ConfirmSent, Answer, UnusableAnswer, UnsavedAnswer, FailBeforeSend,
       TimeoutInSend, LoseOutcome, PollSeesCancel, ExternalUnsent, ExternalFailed,
       ExternalCancelled, ExternalUnknown, Rebuilt, RebuildFails, KillUnstarted,
       KillExecuting, KillRebuild
  <2> QED
    BY <2>1 DEF Rest
(* The attempt moves on. *)
<1>5. ASSUME NEW stage \in Stages \ {"none", "rebuild_finish"}, Attempting,
             pc' = [pc EXCEPT ![w] = stage],
             UNCHANGED <<task, queue, cur, wstate>>
      PROVE  OwnInv'
  BY <1>2, <1>4, <1>5, MoveStep
(* It ends and marks its task. *)
<1>6. ASSUME NEW s \in Status, Attempting, Mark(w, s), UNCHANGED queueVars,
             \/ \E x : Release(w, x)
             \/ /\ pc' = [pc EXCEPT ![w] = "rebuild_finish"]
                /\ UNCHANGED <<wstate, cur>>
      PROVE  OwnInv'
  <2>1. \A u \in Tasks : u # cur[w] => task'[u] = task[u]
    BY <1>6 DEF Mark, SetTask, TypeInv, TypeOK
  <2>2. UNCHANGED queue /\ Owns(w)
    BY <1>2, <1>6 DEF queueVars
  <2>3. ~Has(queue', cur[w])
    BY <2>2 DEF OwnInv, QueueSound, InQueue, Has
  <2>4. Others /\ pc'[w] \in {"none", "rebuild_finish"}
        /\ (pc'[w] = "none" \/ wstate'[w] = wstate[w])
    BY <1>1, <1>6 DEF TypeInv, TypeOK
  <2> QED
    BY <1>3, <1>4, <2>1, <2>2, <2>3, <2>4, GiveUpStep
(* It ends and asks for another attempt. *)
<1>7. ASSUME Attempting, OnRetry(cur[w]), \E x : Release(w, x)
      PROVE  OwnInv'
  <2>1. cur[w] \in Tasks
    BY <1>7 DEF TypeInv, Executing
  <2>2. /\ \A u \in Tasks : u # cur[w] => task'[u] = task[u]
        /\ Len(queue') <= MaxQueue /\ Distinct(queue')
        /\ \A u : Has(queue', u) => Has(queue, u) \/ u = cur[w]
        /\ task'[cur[w]].status \in Queueable
    BY <1>7, <2>1, OnRetryFacts
  <2> QED
    BY <1>1, <1>2, <1>4, <1>7, <2>2, GiveUpStep
(* It ends and leaves its task as it is. *)
<1>8. ASSUME UNCHANGED <<task, queueVars>>, \E x : Release(w, x)
      PROVE  OwnInv'
  <2>1. UNCHANGED <<task, queue>>
    BY <1>8 DEF queueVars
  <2>2. Owns(w) => ~Has(queue', cur[w])
    BY <2>1 DEF OwnInv, QueueSound, InQueue, Has
  <2> QED
    BY <1>1, <1>3, <1>4, <1>8, <2>1, <2>2, GiveUpStep
<1>9. {"done", "failed", "cancelled", "interrupted", "outcome_unknown"} \subseteq Status
  BY DEF Status, Terminal
<1>10. {"opening", "configuring", "sending", "clicked", "generating",
        "rebuild_retry", "dead"} \subseteq Stages \ {"none", "rebuild_finish"}
  BY DEF Stages, Executing
<1>11. \A stage : Goto(w, stage) => /\ pc' = [pc EXCEPT ![w] = stage]
                                   /\ UNCHANGED <<cur, wstate>>
  BY DEF Goto
<1>12. \A S : At(w, S) => pc[w] \in S
  BY DEF At
<1>13. \A S : Killed(w, S) => pc[w] \in S
  BY DEF Killed
<1>14. /\ UNCHANGED queueVars => UNCHANGED queue
       /\ UNCHANGED storeVars => UNCHANGED task
  BY DEF queueVars, storeVars
<1> HIDE DEF Others, Awake
<1>15. CASE Begin(w) \/ OpenChat(w) \/ ConfigureModel(w)
  BY <1>15, <1>5, <1>6, <1>9, <1>10, <1>11, <1>12, <1>14
  DEF Begin, OpenChat, ConfigureModel, Executing
<1>16. CASE Click(w) \/ ConfirmSent(w)
  BY <1>16, <1>5, <1>10, <1>11, <1>12, <1>14 DEF Click, ConfirmSent, Executing
<1>17. CASE FailBeforeSend(w) \/ TimeoutInSend(w)
  BY <1>17, <1>5, <1>10, <1>11, <1>12, <1>14 DEF FailBeforeSend, TimeoutInSend, Executing
<1>18. CASE Answer(w) \/ UnsavedAnswer(w) \/ PollSeesCancel(w)
  BY <1>18, <1>6, <1>9, <1>12 DEF Answer, UnsavedAnswer, PollSeesCancel, Executing
<1>19. CASE LoseOutcome(w)
  BY <1>19, <1>6, <1>9, <1>11, <1>12 DEF LoseOutcome, Executing
<1>20. CASE ExternalFailed(w) \/ ExternalCancelled(w) \/ ExternalUnknown(w)
  BY <1>20, <1>6, <1>9, <1>12
  DEF ExternalFailed, ExternalCancelled, ExternalUnknown, Executing
<1>21. CASE UnusableAnswer(w) \/ ExternalUnsent(w)
  BY <1>21, <1>7, <1>12 DEF UnusableAnswer, ExternalUnsent, Executing
<1>22. CASE Rebuilt(w) \/ RebuildFails(w)
  BY <1>22, <1>7, <1>8 DEF Rebuilt, RebuildFails
<1>23. CASE KillUnstarted(w)
  BY <1>23, <1>5, <1>10, <1>13, <1>14 DEF KillUnstarted
<1>24. CASE KillExecuting(w)
  <2>1. AfterKill(cur[w]) \in Status
    BY <1>9 DEF AfterKill
  <2> QED
    BY <1>24, <2>1, <1>6, <1>13 DEF KillExecuting
<1>25. CASE KillRebuild(w)
  BY <1>25, <1>8 DEF KillRebuild, storeVars
<1> QED
  BY <1>15, <1>16, <1>17, <1>18, <1>19, <1>20, <1>21, <1>22, <1>23, <1>24, <1>25
  DEF Coroutine

LEMMA RecoverTabOwnership ==
  ASSUME TypeInv, OwnInv, NEW w \in Workers, RecoverTab(w)
  PROVE  OwnInv'
<1>1. \A v \in Workers : wstate[v] = "busy" => wstate'[v] = "busy"
  BY DEF RecoverTab, TypeInv, TypeOK
<1> QED
  BY <1>1, QuietStep
  DEF RecoverTab, Rest, storeVars, queueVars, dispVars, OwnInv, RowsPending

LEMMA ProcessOwnership ==
  ASSUME TypeInv, OwnInv, Process
  PROVE  OwnInv'
<1>1. CASE Crash \/ Stop
  <2>1. /\ \A w \in Workers : pc'[w] = "none"
        /\ queue' = <<>> /\ rows' = {} /\ disp' = "sleep"
    BY <1>1 DEF Crash, Stop, Down
  <2>2. Len(queue') = 0 /\ MaxQueue \in Nat
    BY <2>1, SizesAssumption, EmptySeq
  <2> QED
    BY <2>1, <2>2
    DEF OwnInv, BusySlots, OwnedRunning, RowsPending, DownIdle, QueuedWaits, Has,
        SingleOwner, QueueSound, InQueue, Owns
<1>2. CASE Start
  <2>1. /\ \A w \in Workers : pc'[w] = "none"
        /\ UNCHANGED queue /\ rows' = Recoverable /\ disp' = "recover"
        /\ up' = TRUE
    BY <1>2 DEF Start, queueVars, OwnInv, DownIdle
  <2>2. \A t \in Tasks : task[t].status # "running" => task'[t] = task[t]
    BY <1>2 DEF Start, Interrupted
  <2> QED
    BY <2>1, <2>2
    DEF OwnInv, BusySlots, OwnedRunning, RowsPending, DownIdle, QueuedWaits, Queueable,
        SingleOwner, QueueSound, InQueue, Owns, Recoverable, Pending
<1> QED
  BY <1>1, <1>2 DEF Process

LEMMA OwnershipInvariant == Spec => [](TypeInv /\ OwnInv)
<1>1. Init => OwnInv
  BY EmptySeq, SizesAssumption
  DEF Init, OwnInv, BusySlots, OwnedRunning, RowsPending, DownIdle, QueuedWaits, Has,
      SingleOwner, QueueSound, InQueue, Owns
<1>2. TypeInv /\ OwnInv /\ [Next]_vars => OwnInv'
  <2> SUFFICES ASSUME TypeInv, OwnInv, [Next]_vars
               PROVE  OwnInv'
    OBVIOUS
  <2>1. CASE Next
    BY <2>1, DispatcherOwnership, ApiOwnership, ClockOwnership, ProcessOwnership,
       CoroutineOwnership, RecoverTabOwnership DEF Next
  <2>2. CASE UNCHANGED vars
    BY <2>2, QuietStep
    DEF vars, storeVars, queueVars, dispVars, workerVars, OwnInv, RowsPending, DownIdle,
        TypeInv, TypeOK
  <2> QED
    BY <2>1, <2>2
<1> QED
  BY <1>1, <1>2, TypeInvariant, PTL DEF Spec

(* No task is ever with two workers, however cancels, retries by hand,     *)
(* recovery passes, crashes and rebuilding workers interleave.             *)
THEOREM OneOwner == Spec => []SingleOwner
<1>1. OwnInv => SingleOwner
  BY DEF OwnInv
<1> QED
  BY <1>1, OwnershipInvariant, PTL

(* The queue stays within max_size, without duplicates, and apart from the *)
(* tasks that workers are on.                                              *)
THEOREM QueueStaysSound == Spec => []QueueSound
<1>1. OwnInv => QueueSound
  BY DEF OwnInv
<1> QED
  BY <1>1, OwnershipInvariant, PTL

-----------------------------------------------------------------------------
(* The policy cap.  It is inductive: the claim counts the workers that are *)
(* busy before it adds one, and nothing else makes a worker busy.          *)

(* What the cap counts. *)
OnPolicy(g) == {w \in InFlight(g) : cur[w] \in Capped}

(* Workers only leave the policy's tasks. *)
LEMMA NoNewBusy ==
  ASSUME PolicyCap,
         \A w \in Workers : wstate'[w] = "busy" => wstate[w] = "busy" /\ cur'[w] = cur[w]
  PROVE  PolicyCap'
<1> SUFFICES ASSUME NEW g \in Targets
             PROVE  Cardinality(OnPolicy(g)') <= Cap
  BY DEF PolicyCap, OnPolicy
<1>1. OnPolicy(g)' \subseteq OnPolicy(g)
  BY DEF OnPolicy, InFlight
<1>2. OnPolicy(g) \subseteq Workers /\ IsFiniteSet(Workers)
  BY FS_Interval, SizesAssumption DEF OnPolicy, InFlight, Workers
<1>3. /\ IsFiniteSet(OnPolicy(g)') /\ IsFiniteSet(OnPolicy(g))
      /\ Cardinality(OnPolicy(g)') <= Cardinality(OnPolicy(g))
  <2>1. IsFiniteSet(OnPolicy(g))
    BY <1>2, FS_Subset
  <2> QED
    BY <1>1, <2>1, FS_Subset
<1>4. /\ Cardinality(OnPolicy(g)') \in Nat /\ Cardinality(OnPolicy(g)) \in Nat
      /\ Cap \in Nat
  BY <1>3, FS_CardinalityType, SizesAssumption
<1>5. Cardinality(OnPolicy(g)) <= Cap
  BY DEF PolicyCap, OnPolicy
<1> QED
  BY <1>3, <1>4, <1>5

LEMMA ClaimCap ==
  ASSUME TypeInv, PolicyCap, NEW i \in 1..Len(queue), Claim(i)
  PROVE  PolicyCap'
<1> DEFINE t == queue[i]
<1>1. PICK w \in Workers :
        /\ wstate[w] = "idle" /\ TargetOf[w] \in Eligible(t)
        /\ wstate' = [wstate EXCEPT ![w] = "busy"]
        /\ cur' = [cur EXCEPT ![w] = t]
  BY DEF Claim, FirstIdle
<1>2. t \in Capped => Cardinality(InFlight(TargetOf[w])) < Cap
  BY <1>1 DEF Eligible
<1> HIDE DEF t
<1>3. /\ wstate'[w] = "busy" /\ cur'[w] = t
      /\ \A v \in Workers : v # w => wstate'[v] = wstate[v] /\ cur'[v] = cur[v]
  BY <1>1 DEF TypeInv, TypeOK
<1> SUFFICES ASSUME NEW g \in Targets
             PROVE  Cardinality(OnPolicy(g)') <= Cap
  BY DEF PolicyCap, OnPolicy
<1>4. /\ IsFiniteSet(InFlight(g)) /\ OnPolicy(g) \subseteq InFlight(g)
      /\ IsFiniteSet(OnPolicy(g))
  <2>1. InFlight(g) \subseteq Workers /\ OnPolicy(g) \subseteq InFlight(g)
    BY DEF InFlight, OnPolicy
  <2>2. IsFiniteSet(Workers)
    BY FS_Interval, SizesAssumption DEF Workers
  <2>3. IsFiniteSet(InFlight(g))
    BY <2>1, <2>2, FS_Subset
  <2> QED
    BY <2>1, <2>3, FS_Subset
<1>5. Cap \in Nat /\ Cardinality(InFlight(g)) \in Nat /\ Cardinality(OnPolicy(g)) \in Nat
  BY <1>4, FS_CardinalityType, SizesAssumption
<1>6. CASE t \in Capped /\ g = TargetOf[w]
  <2>1. OnPolicy(g)' \subseteq InFlight(g) \cup {w}
    BY <1>3 DEF OnPolicy, InFlight
  <2>2. /\ IsFiniteSet(InFlight(g) \cup {w})
        /\ Cardinality(InFlight(g) \cup {w}) <= Cardinality(InFlight(g)) + 1
    <3> DEFINE S == InFlight(g)
    <3>1. IsFiniteSet(S) /\ Cardinality(S) \in Nat
      BY <1>4, <1>5
    <3> HIDE DEF S
    <3>2. /\ IsFiniteSet(S \cup {w})
          /\ Cardinality(S \cup {w}) = IF w \in S THEN Cardinality(S) ELSE Cardinality(S) + 1
      BY <3>1, FS_AddElement
    <3>3. IsFiniteSet(S \cup {w}) /\ Cardinality(S \cup {w}) <= Cardinality(S) + 1
      BY <3>1, <3>2
    <3> QED
      BY <3>3 DEF S
  <2>3. /\ IsFiniteSet(OnPolicy(g)')
        /\ Cardinality(OnPolicy(g)') <= Cardinality(InFlight(g) \cup {w})
    BY <2>1, <2>2, FS_Subset
  <2>4. /\ Cardinality(OnPolicy(g)') \in Nat
        /\ Cardinality(InFlight(g) \cup {w}) \in Nat
    BY <2>2, <2>3, FS_CardinalityType
  <2> QED
    BY <1>2, <1>5, <1>6, <2>2, <2>3, <2>4
<1>7. CASE ~(t \in Capped /\ g = TargetOf[w])
  <2>1. OnPolicy(g)' \subseteq OnPolicy(g)
    BY <1>3, <1>7 DEF OnPolicy, InFlight
  <2>2. /\ IsFiniteSet(OnPolicy(g)')
        /\ Cardinality(OnPolicy(g)') <= Cardinality(OnPolicy(g))
    BY <1>4, <2>1, FS_Subset
  <2>3. Cardinality(OnPolicy(g)') \in Nat
    BY <2>2, FS_CardinalityType
  <2>4. Cardinality(OnPolicy(g)) <= Cap
    BY DEF PolicyCap, OnPolicy
  <2> QED
    BY <1>5, <2>2, <2>3, <2>4
<1> QED
  BY <1>6, <1>7

LEMMA CoroutineCap ==
  ASSUME TypeInv, PolicyCap, NEW w \in Workers, Coroutine(w)
  PROVE  PolicyCap'
<1>1. UNCHANGED <<wstate, cur>> \/ \E s \in {"idle", "degraded"} : Release(w, s)
  BY DEF Coroutine, Begin, OpenChat, ConfigureModel, Click, ConfirmSent, Answer,
     UnusableAnswer, UnsavedAnswer, FailBeforeSend, TimeoutInSend, LoseOutcome,
     PollSeesCancel, ExternalUnsent, ExternalFailed, ExternalCancelled,
     ExternalUnknown, Rebuilt, RebuildFails, KillUnstarted, KillExecuting,
     KillRebuild, Goto
<1>2. CASE UNCHANGED <<wstate, cur>>
  BY <1>2, NoNewBusy
<1>3. ASSUME NEW s \in {"idle", "degraded"}, Release(w, s)
      PROVE  PolicyCap'
  <2>1. /\ wstate'[w] # "busy"
        /\ \A v \in Workers : v # w => wstate'[v] = wstate[v] /\ cur'[v] = cur[v]
    BY <1>3 DEF Release, TypeInv, TypeOK
  <2> QED
    BY <2>1, NoNewBusy
<1> QED
  BY <1>1, <1>2, <1>3

(* No target ever has more than Cap workers on tasks of a policy that caps *)
(* it, whatever finishes, degrades or restarts in between.                 *)
THEOREM CapHolds == Spec => []PolicyCap
<1>1. Init => PolicyCap
  <2> SUFFICES ASSUME Init, NEW g \in Targets
               PROVE  Cardinality(OnPolicy(g)) <= Cap
    BY DEF PolicyCap, OnPolicy
  <2>1. OnPolicy(g) = {}
    BY DEF Init, OnPolicy, InFlight
  <2> QED
    BY <2>1, FS_EmptySet, SizesAssumption
<1>2. TypeInv /\ PolicyCap /\ [Next]_vars => PolicyCap'
  <2> SUFFICES ASSUME TypeInv, PolicyCap, [Next]_vars
               PROVE  PolicyCap'
    OBVIOUS
  <2>1. CASE UNCHANGED <<wstate, cur>>
    BY <2>1, NoNewBusy
  <2>2. CASE Dispatcher
    <3>1. (\E i \in 1..Len(queue) : Claim(i)) \/ UNCHANGED <<wstate, cur>>
      BY <2>2 DEF Dispatcher, Wake, ListRecoverable, Sleep, DropCancelled, DropExpired,
         RecoverDrop, RecoverEnqueue, workerVars
    <3> QED
      BY <2>1, <3>1, ClaimCap
  <2>3. CASE Api \/ Clock
    BY <2>1, <2>3 DEF Api, Submit, Resubmit, Cancel, ManualRetry, Clock, DeadlinePasses,
       RetryDue, workerVars
  <2>4. CASE Process
    <3>1. \A w \in Workers : wstate'[w] # "busy"
      BY <2>4 DEF Process, Crash, Stop, Start, Down
    <3> QED
      BY <3>1, NoNewBusy
  <2>5. ASSUME NEW w \in Workers, RecoverTab(w)
        PROVE  PolicyCap'
    <3>1. \A v \in Workers : wstate'[v] = "busy" => wstate[v] = "busy" /\ cur'[v] = cur[v]
      BY <2>5 DEF RecoverTab, TypeInv, TypeOK
    <3> QED
      BY <3>1, NoNewBusy
  <2>6. CASE UNCHANGED vars
    BY <2>1, <2>6 DEF vars, workerVars
  <2> QED
    BY <2>2, <2>3, <2>4, <2>5, <2>6, CoroutineCap DEF Next
<1> QED
  BY <1>1, <1>2, TypeInvariant, PTL DEF Spec
=============================================================================
