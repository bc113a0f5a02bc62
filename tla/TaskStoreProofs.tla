-------------------------- MODULE TaskStoreProofs --------------------------
(***************************************************************************)
(* The properties of TaskStore for every number of tasks, retries, faults  *)
(* and crashes.  None of them is inductive: each is about the moment       *)
(* between two operations or about what a restart would find, and holds    *)
(* because of what is still ahead inside an operation.  The inductive      *)
(* invariant is a conjunction of layers, each resting on those before it:  *)
(*                                                                         *)
(*   TypeInv       control: which writes may be ahead of a label, where a  *)
(*                 failure of one leads, and when the coroutine is busy;   *)
(*   KeyInv        the connection and the disk agree but for a discarded   *)
(*                 task, one row per key, and what is queued, running or   *)
(*                 about to be is so in memory and on disk;                *)
(*   RecordInv     a task whose prompt is recorded as sent is not on its   *)
(*                 way to be sent;                                         *)
(*   AuditInv      attempts are numbered up to what the record counts, the *)
(*                 next number is free, and the attempt of a prompt that   *)
(*                 may be out is committed;                                *)
(*   DoneInv       what mark_done has still to write, and that a task is   *)
(*                 otherwise done in memory and on disk at once;           *)
(*   FaultlessInv  while no write has failed, a record that differs from   *)
(*                 its row is about to be written, and an attempt that     *)
(*                 ends is closed before its row says so.                  *)
(***************************************************************************)
EXTENDS TaskStore, TLAPS

-----------------------------------------------------------------------------
(* Control: which writes are ahead of which label, and who is where.       *)

WorkerLabels == {"audit", "not audited", "execute", "send", "recorded",
                 "failed early", "valid", "unreliable", "on retry", "requeue",
                 "release"}

NoTask == {"idle", "evict", "janitor dies"}

\* The writes that may still be ahead of label n.
Ahead(n) ==
  CASE n = "reuse" -> {<<"lookup">>, <<>>}
    [] n = "created" -> {<<"create">>, <<>>}
    [] n = "discarded" -> {<<"delete">>, <<>>}
    [] n = "mark running" -> {<<"event">>, <<>>}
    [] n = "execute" -> {<<"insert">>, <<>>}
    [] n = "evict" -> {<<"prune">>, <<>>}
    [] n \in {"stop worker", "start task", "audit", "failed early"} ->
         {<<"row">>, <<>>}
    [] n \in {"return", "enqueue by hand", "requeue"} ->
         {<<"error", "row">>, <<"row">>, <<>>}
    [] n \in {"send", "recorded", "valid", "on retry"} ->
         {<<"note", "row", "note", "row">>, <<"row", "note", "row">>,
          <<"note", "row", "note">>, <<"row", "note">>, <<"note", "row">>,
          <<"note">>, <<"row">>, <<>>}
    [] n = "release" ->
         {<<"error", "row">>, <<"unknown", "row">>, <<"ok", "row">>, <<"row">>, <<>>}
    [] OTHER -> {<<>>}

\* Where an exception before label n may lead.
Fails(n) ==
  CASE n \in {"reuse", "created", "discarded", "stop worker",
              "enqueue by hand"} -> {"return"}
    [] n = "return" -> {"return", "dispatcher dies"}
    [] n \in {"mark running", "start task"} -> {"dispatcher dies"}
    [] n \in {"audit", "send"} -> {"failed early"}
    [] n = "execute" -> {"not audited"}
    [] n = "recorded" -> {"failed early", "unreliable"}
    [] n = "valid" -> {"unreliable"}
    [] n = "on retry" -> {"on retry", "unreliable"}
    [] n = "requeue" -> {"release"}
    [] n = "release" -> {"release", "unreliable"}
    [] n = "evict" -> {"janitor dies"}
    [] OTHER -> {n}

ShapeInv ==
  /\ call.todo \in Ahead(call.next) /\ call.fail \in Fails(call.next)
  /\ call.t = 0 <=> call.next \in NoTask
  /\ call.next = "idle" => call = NoCall
  /\ at = 0 <=> pc = "none"
  /\ kill => pc # "none"
  /\ pc = "busy" <=> call.next \in WorkerLabels
  /\ pc = "busy" => at = call.t
  /\ ~up => call = NoCall /\ pc = "none" /\ queued = {} /\ ~open
            /\ mem = [t \in Tasks |-> NoRecord]

TypeInv == TypeOK /\ ShapeInv

-----------------------------------------------------------------------------
(* Tables.                                                                 *)

\* What the connection sees is what is committed, but for a discarded task.
ViewInv ==
  /\ ~open => view = disk
  /\ \A t \in Tasks : view.row[t] = disk.row[t]
                      \/ (view.row[t] = NoRecord /\ t \notin queued /\ t # at)

Unique == \A t, u \in Tasks : Known(disk.row[t]) /\ Known(disk.row[u]) => t = u

QueueInv ==
  \A t \in queued : mem[t].status \in Pending /\ disk.row[t].status \in Pending

\* Labels whose task is still running in memory and on disk.
Live == {"audit", "not audited", "execute", "send", "recorded", "failed early",
         "valid"}

Running(t) ==
  /\ mem[t].status = "running" /\ disk.row[t].status = "running"

SlotInv ==
  /\ pc \notin {"none", "busy"} \/ call.next \in Live => Running(at)
  /\ pc = "busy" =>
       /\ Known(mem[at]) /\ Known(disk.row[at])
       /\ call.next # "release" \/ call.todo # <<>> => at \notin queued

CallInv ==
  LET t == call.t IN
  /\ call.next = "reuse" => Known(view.row[t]) /\ (call.todo = <<>> => ~open)
  /\ call.next = "created" /\ call.todo # <<>> => ~HasKey(view)
  /\ call.next = "created" /\ call.todo = <<>> =>
       /\ ~open /\ view.row[t] = NewRecord /\ queued = {} /\ pc = "none"
  /\ call.next = "discarded" =>
       mem[t].status = "queued" /\ t \notin queued /\ t # at
  /\ call.next = "mark running" =>
       /\ pc = "none" /\ t \notin queued
       /\ mem[t].status \in Pending /\ disk.row[t].status \in Pending
  /\ call.next = "start task" =>
       /\ pc = "none" /\ t \notin queued /\ mem[t].status = "running"
       /\ call.todo = <<>> => disk.row[t].status = "running" /\ ~open
  /\ call.next \in {"requeue", "enqueue by hand"} =>
       /\ t \notin queued /\ mem[t].status \in Pending
       /\ call.todo = <<>> => disk.row[t] = mem[t] /\ ~open
  /\ call.next = "enqueue by hand" => t # at
  /\ call.next = "return" /\ call.todo # <<>> =>
       t # at /\ t \notin queued /\ mem[t].status \in Terminal
  /\ call.next = "stop worker" => mem[t].status \in Pending \cup {"running"}

KeyInv == ViewInv /\ Unique /\ QueueInv /\ SlotInv /\ CallInv

-----------------------------------------------------------------------------
(* Attempts.                                                               *)

\* The attempts a record counts: one more than its retries once it has run.
Used(r) == r.retries + (IF r.status \in Pending THEN 0 ELSE 1)
Counted(v, t, r) == \A n \in Numbers : v.att[t][n] # "none" => n <= Used(r)

TableFresh(v) ==
  \A t \in Tasks : IF Known(v.row[t]) THEN Counted(v, t, v.row[t])
                                      ELSE v.att[t] = NoAttempts

\* A record t may have in memory.
Good(t, r) == Known(r) => Counted(view, t, r) /\ Counted(disk, t, r)

FreshInv ==
  TableFresh(view) /\ TableFresh(disk) /\ (\A t \in Tasks : Good(t, mem[t]))

\* Memory and table agree on the attempt number of whoever is on its way.
SameRetries(t) == mem[t].retries = disk.row[t].retries

RetriesInv ==
  /\ \A t \in queued : SameRetries(t)
  /\ pc \notin {"none", "busy"} \/ call.next \in Live => SameRetries(at)
  /\ call.next \in {"mark running", "start task"} => SameRetries(call.t)

\* The next attempt of t has a number of its own.
NextFresh(t) ==
  \A n \in Numbers : n > mem[t].retries =>
    view.att[t][n] = "none" /\ disk.att[t][n] = "none"

NextInv ==
  /\ pc = "spawned" => NextFresh(at)
  /\ \/ call.next \in {"mark running", "start task", "audit"}
     \/ call.next = "execute" /\ call.todo # <<>>
     => NextFresh(call.t)

\* An attempt of t is on disk that a restart would find.
Audited(t) ==
  LET n == mem[t].retries + 1
  IN /\ mem[t].cur = n /\ disk.row[t].cur = n
     /\ view.att[t][n] = "open" /\ disk.att[t][n] = "open"

AuditedInv ==
  /\ call.next = "audit" => mem[at].cur = mem[at].retries + 1
  /\ call.next = "execute" \/ (call.next = "audit" /\ call.todo = <<>>) =>
       mem[at].cur = mem[at].retries + 1 /\ disk.row[at].cur = mem[at].cur
  /\ \/ call.next = "execute" /\ call.todo = <<>>
     \/ call.next \in {"send", "recorded", "valid"}
     \/ pc \in {"sending", "generating"}
     => Audited(at)

AuditInv == FreshInv /\ RetriesInv /\ NextInv /\ AuditedInv

-----------------------------------------------------------------------------
(* Done.                                                                   *)

DoneOk(v) ==
  \A t \in Tasks : v.row[t].status = "done" =>
                     v.row[t].cur # 0 /\ v.att[t][v.row[t].cur] = "ok"

\* mark_done is writing the result of t.
Finishing(t) ==
  /\ call.t = t /\ pc = "busy" /\ call.fail = "unreliable"
  /\ (call.next = "release" /\ call.todo # <<>>) \/ call.next = "unreliable"

\* Rows of finished tasks are the same on the connection and on disk.
DoneRows ==
  /\ DoneOk(view) /\ DoneOk(disk)
  /\ \A t \in Tasks : disk.row[t].status = "done" => view.row[t] = disk.row[t]
  /\ call.next = "discarded" => disk.row[call.t].status # "done"
  /\ pc = "busy" /\ (call.next # "release" \/ call.todo # <<>>) =>
       disk.row[at].status # "done"

\* A task is finished in memory and on disk, but for what mark_done still has
\* to write and what retention has pruned but not evicted yet.
DoneBoth ==
  /\ \A t \in Tasks : disk.row[t].status = "done" =>
       ~Known(mem[t]) \/ mem[t].status = "done"
  /\ \A t \in Tasks : mem[t].status = "done" =>
       \/ disk.row[t].status = "done" /\ mem[t].age = disk.row[t].age
       \/ Finishing(t)
       \/ call.next = "evict" /\ call.todo = <<>> /\ mem[t].age >= Evictable

\* What mark_done has still to write, and that nobody else writes of it.
DoneMark ==
  /\ call.next = "release" /\ call.fail = "unreliable" =>
       /\ mem[at].status = "done"
       /\ call.todo \in {<<"ok", "row">>, <<"row">>, <<>>}
       /\ call.todo = <<"ok", "row">> =>
            mem[at].cur # 0 /\ view.att[at][mem[at].cur] # "none"
       /\ call.todo = <<"row">> =>
            mem[at].cur # 0 /\ view.att[at][mem[at].cur] = "ok"
  /\ call.todo # <<>> /\ call.next \notin {"reuse", "created", "evict"}
       /\ mem[call.t].status = "done" => Finishing(call.t)

DoneInv == DoneRows /\ DoneBoth /\ DoneMark

-----------------------------------------------------------------------------
(* Without failing writes.                                                 *)

Same(t) == Known(mem[t]) => mem[t] = disk.row[t]
NoOpen(t) == \A n \in Numbers : disk.att[t][n] # "open"

\* The writes of finish_attempt and then of the row.
Closing == {<<"error", "row">>, <<"unknown", "row">>, <<"ok", "row">>}

\* The record of t has changed and its row is about to be written.  If the
\* change is one that ends an attempt, the attempt is closed first.
Behind(t) ==
  /\ call.t = t /\ Known(disk.row[t]) /\ call.todo \in Closing \cup {<<"row">>}
  /\ call.todo = <<"row">> =>
       \/ NoOpen(t)
       \/ mem[t].status = disk.row[t].status /\ mem[t].cur = disk.row[t].cur
  /\ call.todo # <<"row">> => mem[t].cur = disk.row[t].cur

\* The row of t is gone, or redacted, and its record goes next.
Dropped(t) ==
  /\ call.todo = <<>>
  /\ \/ call.next = "discarded" /\ call.t = t
     \/ call.next = "evict" /\ mem[t].status \in Terminal
          /\ mem[t].age >= Evictable

Failures == {"dispatcher dies", "janitor dies", "not audited", "failed early",
             "unreliable"}

\* Where an attempt is about to start no other is open.
StartInv ==
  /\ pc = "spawned" => NoOpen(at)
  /\ \/ call.next \in {"mark running", "start task", "audit"}
     \/ call.next = "execute" /\ call.todo # <<>>
     => NoOpen(call.t)

QuietInv ==
  /\ ~open /\ (up => disp /\ janitor) /\ call.next \notin Failures
  /\ \A t \in Tasks : Same(t) \/ Behind(t) \/ Dropped(t)
  /\ OpenAttemptIsRunning /\ StartInv

FaultlessInv == faults = 0 => QuietInv

-----------------------------------------------------------------------------
(* Recorded prompts.                                                       *)

Settled(t) ==
  /\ mem[t].status \notin Pending /\ disk.row[t].status \notin Pending
  /\ at = t => \/ pc = "generating"
               \/ call.next \in {"recorded", "valid", "unreliable", "release"}
                  /\ (call.next = "recorded" => call.fail = "unreliable")
  /\ call.t = t => call.next \notin {"created", "mark running", "start task"}

RecordInv == \A t \in Tasks : sent[t] = "recorded" => Settled(t)

-----------------------------------------------------------------------------
(* The writes one by one.                                                  *)

\* Write w is next on the way to label n, and rest comes after it.
WriteAt(n, w, rest) ==
  \/ n = "reuse" /\ w = "lookup" /\ rest = <<>>
  \/ n = "created" /\ w = "create" /\ rest = <<>>
  \/ n = "discarded" /\ w = "delete" /\ rest = <<>>
  \/ n = "mark running" /\ w = "event" /\ rest = <<>>
  \/ n = "execute" /\ w = "insert" /\ rest = <<>>
  \/ n = "evict" /\ w = "prune" /\ rest = <<>>
  \/ n \in {"stop worker", "start task", "audit", "failed early", "return",
            "enqueue by hand", "requeue", "release"} /\ w = "row" /\ rest = <<>>
  \/ n \in {"return", "enqueue by hand", "requeue", "release"}
       /\ w = "error" /\ rest = <<"row">>
  \/ n = "release" /\ w \in {"unknown", "ok"} /\ rest = <<"row">>
  \/ n \in {"send", "recorded", "valid", "on retry"}
       /\ w \in {"note", "row"} /\ rest \in Ahead(n)

LEMMA Literals ==
  /\ <<"lookup">> # <<>> /\ Head(<<"lookup">>) = "lookup"
       /\ Tail(<<"lookup">>) = <<>>
  /\ <<"create">> # <<>> /\ Head(<<"create">>) = "create"
       /\ Tail(<<"create">>) = <<>>
  /\ <<"delete">> # <<>> /\ Head(<<"delete">>) = "delete"
       /\ Tail(<<"delete">>) = <<>>
  /\ <<"event">> # <<>> /\ Head(<<"event">>) = "event"
       /\ Tail(<<"event">>) = <<>>
  /\ <<"insert">> # <<>> /\ Head(<<"insert">>) = "insert"
       /\ Tail(<<"insert">>) = <<>>
  /\ <<"prune">> # <<>> /\ Head(<<"prune">>) = "prune"
       /\ Tail(<<"prune">>) = <<>>
  /\ <<"row">> # <<>> /\ Head(<<"row">>) = "row"
       /\ Tail(<<"row">>) = <<>>
  /\ <<"note">> # <<>> /\ Head(<<"note">>) = "note"
       /\ Tail(<<"note">>) = <<>>
  /\ <<"error", "row">> # <<>> /\ Head(<<"error", "row">>) = "error"
       /\ Tail(<<"error", "row">>) = <<"row">>
  /\ <<"unknown", "row">> # <<>> /\ Head(<<"unknown", "row">>) = "unknown"
       /\ Tail(<<"unknown", "row">>) = <<"row">>
  /\ <<"ok", "row">> # <<>> /\ Head(<<"ok", "row">>) = "ok"
       /\ Tail(<<"ok", "row">>) = <<"row">>
  /\ <<"note", "row">> # <<>> /\ Head(<<"note", "row">>) = "note"
       /\ Tail(<<"note", "row">>) = <<"row">>
  /\ <<"row", "note">> # <<>> /\ Head(<<"row", "note">>) = "row"
       /\ Tail(<<"row", "note">>) = <<"note">>
  /\ <<"note", "row", "note">> # <<>> /\ Head(<<"note", "row", "note">>) = "note"
       /\ Tail(<<"note", "row", "note">>) = <<"row", "note">>
  /\ <<"row", "note", "row">> # <<>> /\ Head(<<"row", "note", "row">>) = "row"
       /\ Tail(<<"row", "note", "row">>) = <<"note", "row">>
  /\ <<"note", "row", "note", "row">> # <<>> /\ Head(<<"note", "row", "note", "row">>) = "note"
       /\ Tail(<<"note", "row", "note", "row">>) = <<"row", "note", "row">>
  /\ <<"row">> # <<"ok", "row">> /\ <<"error", "row">> # <<"ok", "row">>
  /\ <<"unknown", "row">> # <<"ok", "row">>
OBVIOUS

LEMMA NextWrite ==
  ASSUME NEW n \in Labels, NEW todo \in Ahead(n), todo # <<>>
  PROVE  /\ WriteAt(n, Head(todo), Tail(todo))
         /\ Tail(todo) \in Ahead(n)
         /\ n = "release" => /\ Head(todo) = "ok" <=> todo = <<"ok", "row">>
                             /\ Head(todo) = "row" <=> todo = <<"row">>
<1>1. CASE n = "reuse"
  <2>1. Ahead(n) = {<<"lookup">>, <<>>}
    BY <1>1 DEF Ahead
  <2> QED
    BY <1>1, <2>1, Literals DEF WriteAt
<1>2. CASE n = "created"
  <2>1. Ahead(n) = {<<"create">>, <<>>}
    BY <1>2 DEF Ahead
  <2> QED
    BY <1>2, <2>1, Literals DEF WriteAt
<1>3. CASE n = "discarded"
  <2>1. Ahead(n) = {<<"delete">>, <<>>}
    BY <1>3 DEF Ahead
  <2> QED
    BY <1>3, <2>1, Literals DEF WriteAt
<1>4. CASE n = "mark running"
  <2>1. Ahead(n) = {<<"event">>, <<>>}
    BY <1>4 DEF Ahead
  <2> QED
    BY <1>4, <2>1, Literals DEF WriteAt
<1>5. CASE n = "execute"
  <2>1. Ahead(n) = {<<"insert">>, <<>>}
    BY <1>5 DEF Ahead
  <2> QED
    BY <1>5, <2>1, Literals DEF WriteAt
<1>6. CASE n = "evict"
  <2>1. Ahead(n) = {<<"prune">>, <<>>}
    BY <1>6 DEF Ahead
  <2> QED
    BY <1>6, <2>1, Literals DEF WriteAt
<1>7. CASE n \in {"stop worker", "start task", "audit", "failed early"}
  <2>1. Ahead(n) = {<<"row">>, <<>>}
    BY <1>7 DEF Ahead
  <2> QED
    BY <1>7, <2>1, Literals DEF WriteAt
<1>8. CASE n \in {"return", "enqueue by hand", "requeue"}
  <2>1. Ahead(n) = {<<"error", "row">>, <<"row">>, <<>>}
    BY <1>8 DEF Ahead
  <2> QED
    BY <1>8, <2>1, Literals DEF WriteAt
<1>9. CASE n = "release"
  <2>1. Ahead(n) = {<<"error", "row">>, <<"unknown", "row">>, <<"ok", "row">>, <<"row">>, <<>>}
    BY <1>9 DEF Ahead
  <2> QED
    BY <1>9, <2>1, Literals DEF WriteAt
<1>10. CASE n \in {"send", "recorded", "valid", "on retry"}
  <2>1. Ahead(n) = {<<"note", "row", "note", "row">>, <<"row", "note", "row">>,
          <<"note", "row", "note">>, <<"row", "note">>, <<"note", "row">>,
          <<"note">>, <<"row">>, <<>>}
    BY <1>10 DEF Ahead
  <2> QED
    BY <1>10, <2>1, Literals DEF WriteAt
<1>11. CASE n \in {"idle", "dispatcher dies", "not audited", "unreliable", "janitor dies"}
  BY <1>11 DEF Ahead
<1> QED
  BY <1>1, <1>2, <1>3, <1>4, <1>5, <1>6, <1>7, <1>8, <1>9, <1>10, <1>11 DEF Labels

-----------------------------------------------------------------------------
(* Records and tables.                                                     *)

LEMMA Bounds ==
  /\ RetryBound \in Nat /\ MaxRetries \in Nat /\ MaxRetries <= RetryBound
  /\ \A r \in 0..RetryBound : r + 1 \in Numbers
  /\ 0 \notin Tasks /\ 0 \notin Numbers
BY StoreAssumption DEF Numbers, Tasks

LEMMA FinishedFacts ==
  ASSUME NEW r \in Record, NEW s \in Terminal
  PROVE  /\ Finished(r, s) \in Record
         /\ Finished(r, s).status = s /\ Finished(r, s).age = 1
         /\ Finished(r, s).retries = r.retries /\ Finished(r, s).cur = r.cur
<1>1. s \in Status /\ 1 \in Ages
  BY DEF Status, Ages
<1> QED
  BY <1>1 DEF Finished, Record

LEMMA RetriedFacts ==
  ASSUME NEW r \in Record, NEW s \in Pending, r.retries < RetryBound
  PROVE  /\ Retried(r, s) \in Record
         /\ Retried(r, s).status = s
         /\ Retried(r, s).retries = r.retries + 1 /\ Retried(r, s).cur = r.cur
<1>1. s \in Status /\ 0 \in Ages
  BY DEF Status, Ages
<1>2. r.retries \in 0..RetryBound
  BY DEF Record
<1>3. r.retries + 1 \in 0..RetryBound
  BY <1>2, Bounds
<1> QED
  BY <1>1, <1>3 DEF Retried, Record

LEMMA UpdateFacts ==
  ASSUME NEW r \in Record
  PROVE  /\ [r EXCEPT !.cancel = TRUE] \in Record
         /\ [r EXCEPT !.cancel = TRUE].status = r.status
         /\ [r EXCEPT !.cancel = TRUE].retries = r.retries
         /\ [r EXCEPT !.cancel = TRUE].cur = r.cur
         /\ [r EXCEPT !.cancel = TRUE].age = r.age
         /\ [r EXCEPT !.status = "running"] \in Record
         /\ [r EXCEPT !.status = "running"].status = "running"
         /\ [r EXCEPT !.status = "running"].retries = r.retries
         /\ \A n \in {0} \cup Numbers :
              /\ [r EXCEPT !.cur = n] \in Record
              /\ [r EXCEPT !.cur = n].status = r.status
              /\ [r EXCEPT !.cur = n].retries = r.retries
              /\ [r EXCEPT !.cur = n].cur = n
              /\ [r EXCEPT !.cur = n].age = r.age
BY DEF Record, Status

LEMMA NewFacts ==
  /\ NoRecord \in Record /\ NewRecord \in Record
  /\ ~Known(NoRecord) /\ NewRecord.status = "queued" /\ NewRecord.retries = 0
  /\ NoAttempts \in [Numbers -> Outcomes] /\ EmptyTables \in Tables
<1>1. NoRecord \in Record /\ ~Known(NoRecord)
  BY Bounds DEF NoRecord, Record, Status, Ages, Known
<1>2. NewRecord \in Record /\ NewRecord.status = "queued" /\ NewRecord.retries = 0
  <2>1. "queued" \in Status
    BY DEF Status, Pending
  <2>2. NoRecord.retries = 0
    BY DEF NoRecord
  <2> QED
    BY <1>1, <2>1, <2>2 DEF NewRecord, Record
<1>3. NoAttempts \in [Numbers -> Outcomes]
  BY DEF NoAttempts, Outcomes
<1> QED
  BY <1>1, <1>2, <1>3 DEF EmptyTables, Tables

LEMMA OlderFacts ==
  ASSUME NEW r \in Record
  PROVE  /\ Older(r) \in Record /\ Older(r).status = r.status
         /\ Older(r).retries = r.retries /\ Older(r).cur = r.cur
         /\ Older(r).age = IF r.age \in 1..3 THEN r.age + 1 ELSE r.age
         /\ r.age = 0 => Older(r) = r
BY DEF Older, Record, Ages

(* What a write does to the tables.                                        *)
LEMMA RowEffect ==
  ASSUME TypeOK, NEW v \in Tables, NEW t \in Tasks
  PROVE  /\ Effect(v, t, "row") \in Tables
         /\ Effect(v, t, "row").row = [v.row EXCEPT ![t] = mem[t]]
         /\ Effect(v, t, "row").att = v.att
BY DEF Effect, Tables, TypeOK

LEMMA CreateEffect ==
  ASSUME NEW v \in Tables, NEW t \in Tasks
  PROVE  /\ Effect(v, t, "create") \in Tables
         /\ Effect(v, t, "create").row = [v.row EXCEPT ![t] = NewRecord]
         /\ Effect(v, t, "create").att = v.att
BY NewFacts DEF Effect, Tables

LEMMA DeleteEffect ==
  ASSUME NEW v \in Tables, NEW t \in Tasks
  PROVE  /\ Effect(v, t, "delete") \in Tables
         /\ Effect(v, t, "delete").row = [v.row EXCEPT ![t] = NoRecord]
         /\ Effect(v, t, "delete").att = [v.att EXCEPT ![t] = NoAttempts]
BY NewFacts DEF Effect, Tables

LEMMA InsertEffect ==
  ASSUME TypeOK, NEW v \in Tables, NEW t \in Tasks
  PROVE  /\ Effect(v, t, "insert") \in Tables
         /\ Effect(v, t, "insert").row = v.row
         /\ Effect(v, t, "insert").att =
              [v.att EXCEPT ![t][mem[t].retries + 1] = "open"]
BY Bounds DEF Effect, Tables, TypeOK, Record, Outcomes

LEMMA CloseEffect ==
  ASSUME TypeOK, NEW v \in Tables, NEW t \in Tasks, NEW w \in {"ok", "error", "unknown"}
  PROVE  /\ Effect(v, t, w) \in Tables
         /\ Effect(v, t, w).row = v.row
         /\ mem[t].cur = 0 \/ v.att[t][mem[t].cur] = "none" => Effect(v, t, w).att = v.att
         /\ \A c \in Numbers : c = mem[t].cur /\ v.att[t][c] # "none" =>
              Effect(v, t, w).att = [v.att EXCEPT ![t][c] = w]
<1>1. Effect(v, t, w) = Closed(v, t, w)
  BY DEF Effect
<1>2. mem[t].cur \in {0} \cup Numbers
  BY DEF TypeOK, Record
<1>3. CASE mem[t].cur = 0 \/ v.att[t][mem[t].cur] = "none"
  BY <1>1, <1>3, Bounds DEF Closed
<1>4. CASE ~(mem[t].cur = 0 \/ v.att[t][mem[t].cur] = "none")
  <2>1. PICK c \in Numbers : c = mem[t].cur
    BY <1>2, <1>4
  <2>2. Effect(v, t, w) = [v EXCEPT !.att[t][c] = w]
    BY <1>1, <1>4, <2>1 DEF Closed
  <2>3. [v EXCEPT !.att[t][c] = w].row = v.row
    BY DEF Tables
  <2>4. [v EXCEPT !.att[t][c] = w].att = [v.att EXCEPT ![t][c] = w]
    BY DEF Tables
  <2>5. w \in Outcomes
    BY DEF Outcomes
  <2>6. [v.att EXCEPT ![t][c] = w] \in [Tasks -> [Numbers -> Outcomes]]
    BY <2>5 DEF Tables
  <2>7. [v EXCEPT !.att[t][c] = w] \in Tables
    BY <2>5 DEF Tables
  <2> QED
    BY <1>4, <2>1, <2>2, <2>3, <2>4, <2>7
<1> QED
  BY <1>3, <1>4

LEMMA CloseNothing ==
  ASSUME NEW v, NEW t, NEW w \in {"ok", "error", "unknown"},
         mem[t].cur = 0 \/ v.att[t][mem[t].cur] = "none"
  PROVE  Effect(v, t, w) = v
BY DEF Effect, Closed

LEMMA CloseOne ==
  ASSUME NEW v \in Tables, NEW t \in Tasks, NEW w \in {"ok", "error", "unknown"},
         NEW c \in Numbers, c = mem[t].cur, v.att[t][c] # "none", NEW u \in Tasks, NEW n \in Numbers
  PROVE  Effect(v, t, w).att[u][n] = IF u = t /\ n = c THEN w ELSE v.att[u][n]
<1>1. Effect(v, t, w) = [v EXCEPT !.att[t][c] = w]
  BY Bounds DEF Effect, Closed
<1>2. [v EXCEPT !.att[t][c] = w].att = [v.att EXCEPT ![t][c] = w]
  BY DEF Tables
<1>3. [v.att EXCEPT ![t][c] = w][u][n] = IF u = t /\ n = c THEN w ELSE v.att[u][n]
  BY DEF Tables
<1> QED
  BY <1>1, <1>2, <1>3

LEMMA OtherEffect ==
  ASSUME NEW v, NEW t, NEW w \in {"lookup", "note", "event"}
  PROVE  Effect(v, t, w) = v
BY DEF Effect

\* The record prune leaves of r.
Kept(r) == IF r.status \in Terminal /\ r.age >= Deletable THEN NoRecord
           ELSE IF r.status \in Terminal /\ r.age >= Redactable
                THEN [r EXCEPT !.text = "redacted"] ELSE r

LEMMA PruneEffect ==
  ASSUME NEW v \in Tables, NEW t
  PROVE  /\ Effect(v, t, "prune") \in Tables
         /\ Effect(v, t, "prune").row = [u \in Tasks |-> Kept(v.row[u])]
         /\ Effect(v, t, "prune").att =
              [u \in Tasks |-> IF v.row[u].status \in Terminal /\ v.row[u].age >= Deletable
                               THEN NoAttempts ELSE v.att[u]]
<1>1. Effect(v, t, "prune") = Pruned(v)
  BY DEF Effect
<1>2. \A r \in Record : Kept(r) \in Record
  BY NewFacts DEF Kept, Record
<1>3. Pruned(v).row = [u \in Tasks |-> Kept(v.row[u])]
  BY DEF Pruned, Kept
<1>4. Pruned(v).att =
        [u \in Tasks |-> IF v.row[u].status \in Terminal /\ v.row[u].age >= Deletable
                         THEN NoAttempts ELSE v.att[u]]
  BY DEF Pruned
<1>5. /\ [u \in Tasks |-> Kept(v.row[u])] \in [Tasks -> Record]
      /\ [u \in Tasks |-> IF v.row[u].status \in Terminal /\ v.row[u].age >= Deletable
                           THEN NoAttempts ELSE v.att[u]] \in [Tasks -> [Numbers -> Outcomes]]
  BY <1>2, NewFacts DEF Tables
<1> QED
  BY <1>1, <1>3, <1>4, <1>5 DEF Tables, Pruned

-----------------------------------------------------------------------------
(* Starting a call.                                                        *)

CallType == [t : {0} \cup Tasks, todo : Seq(Guarded \cup Plain),
             next : Labels, fail : Labels]

LEMMA AheadTyped ==
  ASSUME NEW n \in Labels
  PROVE  /\ Ahead(n) \subseteq Seq(Guarded \cup Plain) /\ <<>> \in Ahead(n)
         /\ Fails(n) \subseteq Labels
<1> DEFINE W == Guarded \cup Plain
<1>1. /\ "row" \in W /\ "create" \in W /\ "lookup" \in W /\ "prune" \in W
      /\ "insert" \in W /\ "note" \in W /\ "event" \in W /\ "delete" \in W
      /\ "ok" \in W /\ "error" \in W /\ "unknown" \in W
  BY DEF Guarded, Plain
<1> HIDE DEF W
<1>2. /\ <<>> \in Seq(W) /\ <<"lookup">> \in Seq(W) /\ <<"create">> \in Seq(W)
      /\ <<"delete">> \in Seq(W) /\ <<"event">> \in Seq(W)
      /\ <<"insert">> \in Seq(W) /\ <<"prune">> \in Seq(W)
      /\ <<"row">> \in Seq(W) /\ <<"note">> \in Seq(W)
  BY <1>1
<1>3. /\ <<"error", "row">> \in Seq(W) /\ <<"unknown", "row">> \in Seq(W)
      /\ <<"ok", "row">> \in Seq(W) /\ <<"row", "note">> \in Seq(W)
      /\ <<"note", "row">> \in Seq(W)
  BY <1>1
<1>4. /\ <<"note", "row", "note">> \in Seq(W) /\ <<"row", "note", "row">> \in Seq(W)
      /\ <<"note", "row", "note", "row">> \in Seq(W)
  BY <1>1
<1>5. Ahead(n) \subseteq Seq(W) /\ <<>> \in Ahead(n)
  <2>1. CASE n \in {"send", "recorded", "valid", "on retry"}
    <3>1. Ahead(n) = {<<"note", "row", "note", "row">>, <<"row", "note", "row">>,
          <<"note", "row", "note">>, <<"row", "note">>, <<"note", "row">>,
          <<"note">>, <<"row">>, <<>>}
      BY <2>1 DEF Ahead
    <3> QED
      BY <3>1, <1>2, <1>3, <1>4
  <2>2. CASE n \in {"return", "enqueue by hand", "requeue"}
    BY <1>2, <1>3, <2>2 DEF Ahead
  <2>3. CASE n = "release"
    BY <1>2, <1>3, <2>3 DEF Ahead
  <2>4. CASE n \in {"stop worker", "start task", "audit", "failed early"}
    BY <1>2, <2>4 DEF Ahead
  <2>5. CASE n \in {"reuse", "created", "discarded", "mark running", "execute", "evict"}
    BY <1>2, <2>5 DEF Ahead
  <2>6. CASE n \in {"idle", "dispatcher dies", "not audited", "unreliable", "janitor dies"}
    BY <1>2, <2>6 DEF Ahead
  <2> QED
    BY <2>1, <2>2, <2>3, <2>4, <2>5, <2>6 DEF Labels
<1>6. Fails(n) \subseteq Labels
  BY DEF Fails, Labels
<1> QED
  BY <1>5, <1>6 DEF W

LEMMA RunFacts ==
  ASSUME NEW t \in {0} \cup Tasks, NEW n \in Labels \ {"idle"}, NEW todo \in Ahead(n),
         NEW f \in Fails(n), Run(t, todo, n, f)
  PROVE  /\ call' \in CallType /\ call' # NoCall
         /\ call'.t = t /\ call'.todo = todo /\ call'.next = n /\ call'.fail = f
<1>1. todo \in Seq(Guarded \cup Plain) /\ f \in Labels
  BY AheadTyped
<1> QED
  BY <1>1 DEF Run, CallType, NoCall

Sents == {"none", "no", "confirmed", "recorded"}
Stages == {"none", "busy", "spawned", "sending", "generating", "rebuilding"}

LEMMA RunType ==
  ASSUME TypeInv, up, up' = up,
         NEW t \in {0} \cup Tasks, NEW n \in Labels \ {"idle"},
         NEW todo \in Ahead(n), NEW f \in Fails(n), Run(t, todo, n, f),
         t = 0 <=> n \in NoTask,
         n \in WorkerLabels => at = t /\ pc' = "busy",
         n \notin WorkerLabels => pc' = pc /\ pc # "busy",
         at' = at, kill' \in BOOLEAN, kill' => kill,
         UNCHANGED <<tables, loops, budget>>,
         mem' \in [Tasks -> Record], queued' \subseteq Tasks,
         sent' \in [Tasks -> Sents]
  PROVE  TypeInv'
<1>1. /\ call' \in CallType /\ call' # NoCall
      /\ call'.t = t /\ call'.todo = todo /\ call'.next = n /\ call'.fail = f
  BY RunFacts
<1>2. TypeOK'
  BY <1>1 DEF TypeInv, TypeOK, CallType, Sents, tables, loops, budget
<1>3. t # 0 <=> t \in Tasks
  BY Bounds
<1>4. ShapeInv'
  BY <1>1, <1>3, Bounds DEF TypeInv, TypeOK, ShapeInv, WorkerLabels, NoTask, Labels
<1> QED
  BY <1>2, <1>4 DEF TypeInv

LEMMA ReturnType ==
  ASSUME TypeInv, up' = TRUE, Return,
         pc' \in Stages \ {"busy"}, at' \in {0} \cup Tasks, kill' \in BOOLEAN,
         at' = 0 <=> pc' = "none", kill' => pc' # "none",
         disp' \in BOOLEAN, janitor' \in BOOLEAN,
         view' \in Tables, disk' \in Tables, open' \in BOOLEAN,
         mem' \in [Tasks -> Record], queued' \subseteq Tasks,
         UNCHANGED budget, sent' \in [Tasks -> Sents]
  PROVE  TypeInv'
<1>1. /\ NoCall \in CallType /\ NoCall.t = 0 /\ NoCall.todo = <<>>
      /\ NoCall.next = "idle" /\ NoCall.fail = "idle"
  BY AheadTyped DEF NoCall, CallType, Labels
<1>2. TypeOK'
  BY <1>1 DEF TypeInv, TypeOK, CallType, Sents, budget, Return, Stages
<1>3. <<>> \in Ahead("idle") /\ "idle" \in Fails("idle")
  BY DEF Ahead, Fails
<1>4. ShapeInv'
  BY <1>1, <1>3 DEF ShapeInv, Return, WorkerLabels, NoTask
<1> QED
  BY <1>2, <1>4 DEF TypeInv

LEMMA EffectTyped ==
  ASSUME TypeOK, NEW v \in Tables, NEW t \in {0} \cup Tasks,
         NEW w \in Guarded \cup Plain, t = 0 => w = "prune"
  PROVE  Effect(v, t, w) \in Tables
<1>1. CASE w = "prune"
  BY <1>1, PruneEffect
<1>2. CASE w # "prune"
  <2>1. t \in Tasks
    BY <1>2
  <2>2. CASE w = "row"
    BY <2>1, <2>2, RowEffect
  <2>3. CASE w = "create"
    BY <2>1, <2>3, CreateEffect
  <2>4. CASE w = "delete"
    BY <2>1, <2>4, DeleteEffect
  <2>5. CASE w = "insert"
    BY <2>1, <2>5, InsertEffect
  <2>6. CASE w \in {"ok", "error", "unknown"}
    BY <2>1, <2>6, CloseEffect
  <2>7. CASE w \in {"lookup", "note", "event"}
    BY <2>7, OtherEffect
  <2> QED
    BY <1>2, <2>2, <2>3, <2>4, <2>5, <2>6, <2>7 DEF Guarded, Plain
<1> QED
  BY <1>1, <1>2

LEMMA WritingFacts ==
  ASSUME TypeInv, Writing
  PROVE  /\ up /\ call.next \in Labels \ {"idle"} /\ call.todo \in Ahead(call.next)
         /\ call.todo # <<>> /\ Head(call.todo) \in Guarded \cup Plain
         /\ WriteAt(call.next, Head(call.todo), Tail(call.todo))
         /\ Tail(call.todo) \in Ahead(call.next)
         /\ call.t = 0 <=> call.next = "evict"
         /\ call.next # "evict" => call.t \in Tasks
         /\ call.next = "release" => /\ Head(call.todo) = "ok" <=> call.todo = <<"ok", "row">>
                                     /\ Head(call.todo) = "row" <=> call.todo = <<"row">>
<1>1. /\ up /\ call # NoCall /\ call.next \in Labels \ {"idle"}
      /\ call.todo \in Ahead(call.next) /\ call.todo # <<>> /\ call.t \in {0} \cup Tasks
      /\ call.t = 0 <=> call.next \in NoTask
  BY DEF TypeInv, TypeOK, ShapeInv, Writing
<1>2. /\ WriteAt(call.next, Head(call.todo), Tail(call.todo))
      /\ Tail(call.todo) \in Ahead(call.next)
      /\ call.next = "release" => /\ Head(call.todo) = "ok" <=> call.todo = <<"ok", "row">>
                                  /\ Head(call.todo) = "row" <=> call.todo = <<"row">>
  BY <1>1, NextWrite
<1>3. Head(call.todo) \in Guarded \cup Plain
  BY <1>1 DEF TypeInv, TypeOK
<1>4. call.next # "janitor dies"
  BY <1>2 DEF WriteAt
<1> QED
  BY <1>1, <1>2, <1>3, <1>4 DEF NoTask

\* The write that goes on, and the one that raises.
LEMMA OnFacts ==
  ASSUME TypeInv, Writing, call' = [call EXCEPT !.todo = Tail(call.todo)]
  PROVE  /\ call' \in CallType
         /\ call'.t = call.t /\ call'.next = call.next /\ call'.fail = call.fail
         /\ call'.todo = Tail(call.todo)
<1>1. Tail(call.todo) \in Seq(Guarded \cup Plain)
  BY WritingFacts, AheadTyped
<1> QED
  BY <1>1 DEF TypeInv, TypeOK, CallType

LEMMA RaisedFacts ==
  ASSUME TypeInv, Writing, Raised
  PROVE  /\ call' \in CallType
         /\ call'.t = call.t /\ call'.next = call.fail /\ call'.fail = call.fail
         /\ call'.todo = <<>>
<1>1. <<>> \in Seq(Guarded \cup Plain)
  OBVIOUS
<1> QED
  BY <1>1 DEF TypeInv, TypeOK, CallType, Raised

LEMMA FailFacts ==
  ASSUME NEW n \in Labels \ {"idle"}, NEW f \in Fails(n)
  PROVE  /\ f \in Fails(f) /\ f # "idle"
         /\ f \in WorkerLabels <=> n \in WorkerLabels
         /\ f \in NoTask <=> n \in NoTask
BY DEF Labels, Fails, WorkerLabels, NoTask

LEMMA TransactionType ==
  ASSUME TypeInv, Transaction
  PROVE  TypeInv'
<1>1. CASE Write
  <2>1. Writing /\ call' = [call EXCEPT !.todo = Tail(call.todo)]
    BY <1>1 DEF Write
  <2>2. /\ call' \in CallType
        /\ call'.t = call.t /\ call'.next = call.next /\ call'.fail = call.fail
        /\ call'.todo \in Ahead(call'.next)
    BY <2>1, OnFacts, WritingFacts
  <2>3. Effect(view, call.t, Head(call.todo)) \in Tables
    <3>1. WriteAt(call.next, Head(call.todo), Tail(call.todo)) /\ Head(call.todo) \in Guarded \cup Plain
      BY <2>1, WritingFacts
    <3>2. call.t = 0 => Head(call.todo) = "prune"
      BY <2>1, <3>1, WritingFacts DEF WriteAt
    <3> QED
      BY <3>1, <3>2, EffectTyped DEF TypeInv, TypeOK
  <2>4. view' \in Tables /\ disk' \in Tables /\ open' \in BOOLEAN
    BY <1>1, <2>3 DEF Write, tables, TypeInv, TypeOK
  <2>5. TypeOK'
    BY <1>1, <2>2, <2>4 DEF Write, TypeInv, TypeOK, CallType, slot, loops, budget
  <2>6. up' /\ call.next # "idle" /\ call.todo # <<>>
    BY <1>1, <2>1, WritingFacts DEF Write
  <2>7. ShapeInv'
    BY <1>1, <2>2, <2>6 DEF Write, TypeInv, ShapeInv, slot
  <2> QED
    BY <2>5, <2>7 DEF TypeInv
<1>2. CASE RaiseGuarded \/ RaisePlain
  <2>1. Writing /\ Raised /\ up' = up
    BY <1>2 DEF RaiseGuarded, RaisePlain
  <2>2. /\ call' \in CallType
        /\ call'.t = call.t /\ call'.next = call.fail /\ call'.fail = call.fail
        /\ call'.todo = <<>>
    BY <2>1, RaisedFacts
  <2>3. /\ call.fail \in Fails(call.fail) /\ call.fail # "idle" /\ call.fail \in Labels
        /\ call.fail \in WorkerLabels <=> call.next \in WorkerLabels
        /\ call.fail \in NoTask <=> call.next \in NoTask
    BY <2>1, FailFacts, WritingFacts, AheadTyped DEF TypeInv, ShapeInv
  <2>4. Effect(view, call.t, Head(call.todo)) \in Tables
    <3>1. WriteAt(call.next, Head(call.todo), Tail(call.todo)) /\ Head(call.todo) \in Guarded \cup Plain
      BY <2>1, WritingFacts
    <3>2. call.t = 0 => Head(call.todo) = "prune"
      BY <2>1, <3>1, WritingFacts DEF WriteAt
    <3> QED
      BY <3>1, <3>2, EffectTyped DEF TypeInv, TypeOK
  <2>5. view' \in Tables /\ disk' = disk /\ open' \in BOOLEAN
    BY <1>2, <2>4 DEF RaiseGuarded, RaisePlain, TypeInv, TypeOK
  <2>6. faults' \in 0..MaxFaults
    BY <1>2, StoreAssumption DEF RaiseGuarded, RaisePlain, TypeInv, TypeOK
  <2>7. UNCHANGED <<mem, queued, pc, at, kill, disp, janitor, up, crashes, sent>>
    BY <1>2 DEF RaiseGuarded, RaisePlain, slot, loops
  <2>8. TypeOK'
    BY <2>2, <2>5, <2>6, <2>7 DEF TypeInv, TypeOK, CallType
  <2>9. <<>> \in Ahead(call.fail) /\ up
    BY <2>1, <2>3, AheadTyped DEF Writing
  <2>10. ShapeInv'
    BY <2>2, <2>3, <2>7, <2>9 DEF TypeInv, ShapeInv
  <2> QED
    BY <2>8, <2>10 DEF TypeInv
<1>3. CASE OtherTaskWrites
  <2>1. TypeOK'
    BY <1>3 DEF OtherTaskWrites, TypeInv, TypeOK, slot, loops, budget
  <2>2. ShapeInv'
    BY <1>3 DEF OtherTaskWrites, TypeInv, ShapeInv, slot, Idle
  <2> QED
    BY <2>1, <2>2 DEF TypeInv
<1> QED
  BY <1>1, <1>2, <1>3 DEF Transaction

LEMMA Runs ==
  /\ <<"lookup">> \in Ahead("reuse") /\ <<"create">> \in Ahead("created")
  /\ <<"delete">> \in Ahead("discarded") /\ <<"row">> \in Ahead("stop worker")
  /\ <<"error", "row">> \in Ahead("enqueue by hand")
  /\ <<"error", "row">> \in Ahead("return") /\ <<"row">> \in Ahead("return")
  /\ <<>> \in Ahead("return") /\ <<>> \in Ahead("release") /\ <<>> \in Ahead("on retry")
  /\ <<"event">> \in Ahead("mark running") /\ <<"row">> \in Ahead("start task")
  /\ <<"row">> \in Ahead("audit") /\ <<"insert">> \in Ahead("execute")
  /\ <<"row">> \in Ahead("failed early") /\ <<"error", "row">> \in Ahead("release")
  /\ <<"note", "row", "note">> \in Ahead("send") /\ <<"unknown", "row">> \in Ahead("release")
  /\ <<"note", "row", "note">> \in Ahead("recorded") /\ <<"note", "row">> \in Ahead("recorded")
  /\ <<"note", "row">> \in Ahead("valid") /\ <<"note", "row", "note", "row">> \in Ahead("on retry")
  /\ <<"ok", "row">> \in Ahead("release") /\ <<"error", "row">> \in Ahead("requeue")
  /\ <<"prune">> \in Ahead("evict")
BY DEF Ahead

LEMMA IdleFacts ==
  ASSUME TypeInv, Idle
  PROVE  /\ up /\ call = NoCall /\ call.next = "idle" /\ call.todo = <<>> /\ call.t = 0
         /\ pc # "busy"
BY DEF TypeInv, ShapeInv, Idle, NoCall, WorkerLabels

LEMMA GetTyped ==
  ASSUME TypeInv, NEW t \in Tasks
  PROVE  /\ Get(t) \in Record /\ mem[t] \in Record
         /\ view.row[t] \in Record /\ disk.row[t] \in Record
BY DEF TypeInv, TypeOK, Tables, Get

LEMMA Typed ==
  ASSUME TypeInv
  PROVE  /\ mem \in [Tasks -> Record] /\ sent \in [Tasks -> Sents] /\ queued \subseteq Tasks
         /\ view \in Tables /\ disk \in Tables /\ open \in BOOLEAN
         /\ at \in {0} \cup Tasks /\ kill \in BOOLEAN /\ pc \in Stages
         /\ disp \in BOOLEAN /\ janitor \in BOOLEAN
         /\ at = 0 <=> pc = "none"
         /\ kill => pc # "none"
BY DEF TypeInv, TypeOK, ShapeInv, Sents, Stages

\* Runs outside the worker, and in it.
PlainLabels == {"return", "reuse", "created", "discarded", "stop worker",
                "enqueue by hand", "mark running", "start task"}

LEMMA PlainReach ==
  ASSUME TypeInv, call.next \in PlainLabels \cup {"dispatcher dies"}
  PROVE  call.t \in Tasks /\ pc # "busy"
BY DEF TypeInv, TypeOK, ShapeInv, PlainLabels, NoTask, WorkerLabels

LEMMA WorkerReach ==
  ASSUME TypeInv, call.next \in WorkerLabels
  PROVE  call.t \in Tasks /\ pc = "busy" /\ at = call.t /\ at \in Tasks
BY DEF TypeInv, TypeOK, ShapeInv, NoTask, WorkerLabels

LEMMA PlainRun ==
  ASSUME TypeInv, up, up' = up, pc # "busy",
         NEW t \in Tasks, NEW n \in PlainLabels,
         NEW todo \in Ahead(n), NEW f \in Fails(n), Run(t, todo, n, f),
         UNCHANGED <<tables, slot, loops, budget>>,
         mem' \in [Tasks -> Record], queued' \subseteq Tasks,
         sent' \in [Tasks -> Sents]
  PROVE  TypeInv'
<1>1. n \in Labels \ {"idle"} /\ n \notin NoTask /\ n \notin WorkerLabels
  BY DEF PlainLabels, Labels, NoTask, WorkerLabels
<1>2. t \in {0} \cup Tasks /\ t # 0
  BY Bounds
<1>3. pc' = pc /\ at' = at /\ kill' = kill /\ kill \in BOOLEAN
  BY Typed DEF slot
<1> QED
  BY <1>1, <1>2, <1>3, RunType

LEMMA WorkerRun ==
  ASSUME TypeInv, up, up' = up, at \in Tasks,
         NEW n \in WorkerLabels,
         NEW todo \in Ahead(n), NEW f \in Fails(n), Run(at, todo, n, f),
         pc' = "busy", at' = at, kill' \in BOOLEAN, kill' => kill,
         UNCHANGED <<tables, loops, budget>>,
         mem' \in [Tasks -> Record], queued' \subseteq Tasks,
         sent' \in [Tasks -> Sents]
  PROVE  TypeInv'
<1>1. n \in Labels \ {"idle"} /\ n \notin NoTask
  BY DEF Labels, NoTask, WorkerLabels
<1>2. PICK t \in Tasks : t = at
  OBVIOUS
<1>3. t \in {0} \cup Tasks /\ t # 0
  BY Bounds
<1>4. Run(t, todo, n, f)
  BY <1>2
<1> QED
  BY <1>1, <1>2, <1>3, <1>4, RunType

LEMMA HttpType ==
  ASSUME TypeInv, Http
  PROVE  TypeInv'
<1>1. ASSUME NEW t \in Tasks, Submit(t)
      PROVE  TypeInv'
  <2>1. up /\ up' = up /\ pc # "busy" /\ UNCHANGED <<mem, queued, sent, tables, slot, loops, budget>>
    BY <1>1, IdleFacts DEF Submit
  <2>2. Run(t, <<"lookup">>, "reuse", "return") \/ Run(t, <<"create">>, "created", "return")
    BY <1>1 DEF Submit
  <2> QED
    BY <2>1, <2>2, Typed, PlainRun, Runs DEF PlainLabels, Fails
<1>2. ASSUME NEW t \in Tasks, Cancel(t)
      PROVE  TypeInv'
  <2>1. up /\ up' = up /\ pc # "busy" /\ UNCHANGED <<queued, sent, tables, slot, loops, budget>>
    BY <1>2, IdleFacts DEF Cancel
  <2>2. Run(t, <<"row">>, "stop worker", "return")
    BY <1>2 DEF Cancel
  <2>3. mem' \in [Tasks -> Record]
    BY <1>2, GetTyped, Typed, UpdateFacts DEF Cancel, SetMem
  <2> QED
    BY <2>1, <2>2, <2>3, Typed, PlainRun, Runs DEF PlainLabels, Fails
<1>3. ASSUME NEW t \in Tasks, ManualRetry(t)
      PROVE  TypeInv'
  <2>1. up /\ up' = up /\ pc # "busy" /\ UNCHANGED <<queued, tables, slot, loops, budget>>
    BY <1>3, IdleFacts DEF ManualRetry
  <2>2. Run(t, <<"error", "row">>, "enqueue by hand", "return")
    BY <1>3 DEF ManualRetry
  <2>3. Retried(Get(t), "queued") \in Record
    BY <1>3, GetTyped, RetriedFacts DEF ManualRetry, Pending
  <2>4. mem' \in [Tasks -> Record] /\ sent' \in [Tasks -> Sents]
    BY <1>3, <2>3, Typed DEF ManualRetry, SetMem, Sents
  <2> QED
    BY <2>1, <2>2, <2>4, Typed, PlainRun, Runs DEF PlainLabels, Fails
<1>4. CASE Reuse \/ Discarded \/ StopWorker \/ Returned
  <2>1. /\ up' = TRUE /\ Return /\ pc # "busy" /\ queued' = queued /\ sent' = sent
        /\ pc' = pc /\ at' = at /\ UNCHANGED <<tables, loops, budget>>
    BY <1>4, PlainReach
    DEF Reuse, Discarded, StopWorker, Returned, Reaches, slot, PlainLabels, TypeInv, TypeOK
  <2>2. kill' \in BOOLEAN /\ (kill' => pc # "none")
    <3>1. CASE StopWorker
      <4>1. at = call.t => pc # "none"
        BY <1>4, <3>1, PlainReach, Typed, Bounds DEF StopWorker, Reaches, PlainLabels
      <4>2. kill' = (kill \/ (at = call.t))
        BY <3>1 DEF StopWorker
      <4> QED
        BY <4>1, <4>2, Typed
    <3>2. CASE Reuse \/ Discarded \/ Returned
      BY <3>2, Typed DEF Reuse, Discarded, Returned, slot
    <3> QED
      BY <1>4, <3>1, <3>2
  <2>3. mem' \in [Tasks -> Record]
    BY <1>4, PlainReach, GetTyped, Typed, NewFacts
    DEF Reuse, Discarded, StopWorker, Returned, SetMem, Reaches, PlainLabels
  <2>4. /\ pc' \in Stages \ {"busy"} /\ at' \in {0} \cup Tasks /\ (at' = 0 <=> pc' = "none")
        /\ kill' => pc' # "none"
    BY <2>1, <2>2, Typed
  <2>5. /\ disp' \in BOOLEAN /\ janitor' \in BOOLEAN
        /\ view' \in Tables /\ disk' \in Tables /\ open' \in BOOLEAN
        /\ queued' \subseteq Tasks /\ sent' \in [Tasks -> Sents]
    BY <2>1, Typed DEF tables, loops
  <2> QED
    BY <2>1, <2>2, <2>3, <2>4, <2>5, ReturnType
<1>5. CASE Created
  <2>1. up /\ up' = up /\ pc # "busy" /\ call.t \in Tasks /\ UNCHANGED <<tables, slot, loops, budget>>
    BY <1>5, PlainReach DEF Created, Reaches, PlainLabels
  <2>2. /\ mem' \in [Tasks -> Record] /\ queued' \subseteq Tasks /\ sent' \in [Tasks -> Sents]
    BY <1>5, <2>1, GetTyped, Typed DEF Created, SetMem, Enqueue, QueueFull, Sents
  <2>3. Return \/ Run(call.t, <<"delete">>, "discarded", "return")
    BY <1>5 DEF Created
  <2>4. CASE Return
    BY <2>1, <2>2, <2>4, Typed, ReturnType DEF tables, loops, slot
  <2>5. CASE Run(call.t, <<"delete">>, "discarded", "return")
    <3>1. PICK t \in Tasks : t = call.t
      BY <2>1
    <3> QED
      BY <2>1, <2>2, <2>5, <3>1, PlainRun, Runs DEF PlainLabels, Fails
  <2> QED
    BY <2>3, <2>4, <2>5
<1>6. CASE EnqueueByHand
  <2>1. up /\ up' = up /\ pc # "busy" /\ call.t \in Tasks /\ UNCHANGED <<tables, slot, loops, budget, sent>>
    BY <1>6, PlainReach DEF EnqueueByHand, Reaches, PlainLabels
  <2>2. Finished(mem[call.t], "failed") \in Record
    BY <2>1, GetTyped, FinishedFacts DEF Terminal
  <2>3. mem' \in [Tasks -> Record] /\ queued' \subseteq Tasks
    BY <1>6, <2>1, <2>2, Typed DEF EnqueueByHand, Requeue, SetMem, Enqueue, QueueFull
  <2>4. Run(call.t, <<>>, "return", "return") \/ Run(call.t, <<"error", "row">>, "return", "return")
    BY <1>6 DEF EnqueueByHand, Requeue
  <2>5. PICK t \in Tasks : t = call.t
    BY <2>1
  <2> QED
    BY <2>1, <2>3, <2>4, <2>5, Typed, PlainRun, Runs DEF PlainLabels, Fails
<1> QED
  BY <1>1, <1>2, <1>3, <1>4, <1>5, <1>6 DEF Http

LEMMA DispatcherType ==
  ASSUME TypeInv, Dispatcher
  PROVE  TypeInv'
<1>1. ASSUME NEW t \in Tasks, DropCancelled(t) \/ DropExpired(t)
      PROVE  TypeInv'
  <2>1. up /\ up' = up /\ pc # "busy" /\ UNCHANGED <<sent, tables, slot, loops, budget>>
    BY <1>1, IdleFacts DEF DropCancelled, DropExpired, Dispatching
  <2>2. /\ Run(t, <<"error", "row">>, "return", "dispatcher dies")
           \/ Run(t, <<"row">>, "return", "dispatcher dies")
        /\ queued' = queued \ {t}
    BY <1>1 DEF DropCancelled, DropExpired
  <2>3. /\ Finished(mem[t], "cancelled") \in Record /\ Finished(mem[t], "expired") \in Record
        /\ Finished(view.row[t], "expired") \in Record
    BY GetTyped, FinishedFacts DEF Terminal
  <2>4. mem' \in [Tasks -> Record] /\ queued' \subseteq Tasks
    BY <1>1, <2>2, <2>3, Typed DEF DropCancelled, DropExpired, SetMem
  <2> QED
    BY <2>1, <2>2, <2>4, Typed, PlainRun, Runs DEF PlainLabels, Fails
<1>2. ASSUME NEW t \in Tasks, Claim(t)
      PROVE  TypeInv'
  <2>1. up /\ up' = up /\ pc # "busy" /\ UNCHANGED <<mem, sent, tables, slot, loops, budget>>
    BY <1>2, IdleFacts DEF Claim, Dispatching
  <2>2. Run(t, <<"event">>, "mark running", "dispatcher dies") /\ queued' \subseteq Tasks
    BY <1>2, Typed DEF Claim
  <2> QED
    BY <2>1, <2>2, Typed, PlainRun, Runs DEF PlainLabels, Fails
<1>3. CASE MarkRunning
  <2>1. up /\ up' = up /\ pc # "busy" /\ call.t \in Tasks /\ UNCHANGED <<queued, tables, slot, loops, budget, sent>>
    BY <1>3, PlainReach DEF MarkRunning, Reaches, PlainLabels
  <2>2. mem' \in [Tasks -> Record]
    BY <1>3, <2>1, GetTyped, UpdateFacts, Typed DEF MarkRunning, SetMem
  <2>3. Run(call.t, <<"row">>, "start task", "dispatcher dies")
    BY <1>3 DEF MarkRunning
  <2>4. PICK t \in Tasks : t = call.t
    BY <2>1
  <2> QED
    BY <2>1, <2>2, <2>3, <2>4, Typed, PlainRun, Runs DEF PlainLabels, Fails
<1>4. CASE StartTask
  <2>1. call.t \in Tasks /\ up
    BY <1>4, PlainReach DEF StartTask, Reaches, PlainLabels
  <2> QED
    BY <1>4, <2>1, Bounds, Typed, ReturnType DEF StartTask, tables, loops, Stages, TypeInv, TypeOK
<1>5. CASE DispatcherDies
  <2>1. up /\ pc # "busy"
    BY <1>5, PlainReach DEF DispatcherDies, Reaches, PlainLabels
  <2> QED
    BY <1>5, <2>1, Typed, ReturnType DEF DispatcherDies, tables, slot, TypeInv, TypeOK
<1>6. CASE RecoverPending
  <2>1. Idle /\ UNCHANGED <<tables, slot, loops, call, up, budget, sent>>
    BY <1>6 DEF RecoverPending, Dispatching
  <2>2. mem' \in [Tasks -> Record] /\ queued' \subseteq Tasks
    BY <1>6, Typed, GetTyped DEF RecoverPending
  <2>3. TypeOK'
    BY <2>1, <2>2 DEF TypeInv, TypeOK, tables, slot, loops, budget
  <2>4. ShapeInv'
    BY <2>1, <2>2 DEF TypeInv, ShapeInv, slot, Idle
  <2> QED
    BY <2>3, <2>4 DEF TypeInv
<1> QED
  BY <1>1, <1>2, <1>3, <1>4, <1>5, <1>6 DEF Dispatcher

LEMMA AwaitType ==
  ASSUME TypeInv, up' = TRUE, pc # "none", NEW s \in Stages \ {"none", "busy"}, Await(s),
         UNCHANGED <<mem, tables, queued, loops, budget>>, sent' \in [Tasks -> Sents]
  PROVE  TypeInv'
<1>1. Return /\ pc' = s /\ at' = at /\ kill' = kill
  BY DEF Await
<1>2. /\ pc' \in Stages \ {"busy"} /\ at' \in {0} \cup Tasks /\ (at' = 0 <=> pc' = "none")
      /\ kill' \in BOOLEAN /\ pc' # "none"
  BY <1>1, Typed
<1>3. /\ disp' \in BOOLEAN /\ janitor' \in BOOLEAN
      /\ view' \in Tables /\ disk' \in Tables /\ open' \in BOOLEAN
      /\ queued' \subseteq Tasks /\ mem' \in [Tasks -> Record]
  BY Typed DEF tables, loops
<1> QED
  BY <1>1, <1>2, <1>3, ReturnType

LEMMA WorkerType ==
  ASSUME TypeInv, Worker
  PROVE  TypeInv'
<1>1. CASE Send \/ PromptConfirmed \/ PromptRecorded \/ PromptNotSent \/ FailedEarly \/ Poll
           \/ Rebuilt \/ Answered
  <2>1. CASE Send \/ FailedEarly \/ PromptRecorded
    <3>1. up' = TRUE /\ pc # "none" /\ at \in Tasks /\ UNCHANGED <<mem, tables, queued, loops, budget>>
      BY <2>1, WorkerReach DEF Send, FailedEarly, PromptRecorded, Reaches, WorkerLabels, TypeInv, TypeOK
    <3>2. sent' \in [Tasks -> Sents]
      BY <2>1, <3>1, Typed DEF Send, FailedEarly, PromptRecorded, Sents
    <3>3. Await("sending") \/ Await("rebuilding") \/ Await("generating")
      BY <2>1 DEF Send, FailedEarly, PromptRecorded
    <3> QED
      BY <3>1, <3>2, <3>3, AwaitType DEF Stages
  <2>2. CASE PromptNotSent
    <3>1. up' = TRUE /\ pc # "none" /\ UNCHANGED <<mem, tables, queued, loops, budget, sent>>
      BY <2>2, IdleFacts DEF PromptNotSent, AtAwait, TypeInv, TypeOK
    <3>2. Await("rebuilding")
      BY <2>2 DEF PromptNotSent
    <3> QED
      BY <3>1, <3>2, Typed, AwaitType DEF Stages
  <2>3. CASE PromptConfirmed \/ Poll \/ Rebuilt \/ Answered
    <3>1. /\ up /\ up' = up /\ at # 0 /\ Busy /\ UNCHANGED <<mem, tables, queued, loops, budget>>
      BY <2>3, IdleFacts, Typed DEF PromptConfirmed, Poll, Rebuilt, Answered, AtAwait
    <3>2. at \in Tasks /\ kill' \in BOOLEAN /\ (kill' => kill) /\ pc' = "busy" /\ at' = at
      BY <3>1, Typed DEF Busy
    <3>3. sent' \in [Tasks -> Sents]
      BY <2>3, <3>2, Typed DEF PromptConfirmed, Poll, Rebuilt, Answered, Sents
    <3>4. \/ Run(at, <<"note", "row", "note">>, "recorded", "failed early")
          \/ Run(at, <<"note", "row">>, "recorded", "unreliable")
          \/ Run(at, <<>>, "on retry", "on retry")
          \/ Run(at, <<"note", "row">>, "valid", "unreliable")
          \/ Run(at, <<"note", "row", "note", "row">>, "on retry", "unreliable")
      BY <2>3 DEF PromptConfirmed, Poll, Rebuilt, Answered
    <3> QED
      BY <3>1, <3>2, <3>3, <3>4, Typed, WorkerRun, Runs DEF Fails, WorkerLabels
  <2> QED
    BY <1>1, <2>1, <2>2, <2>3
<1>2. CASE Audit \/ NotAudited \/ Execute \/ Valid \/ Unreliable
  <2>1. /\ up /\ up' = up /\ at \in Tasks /\ pc' = "busy" /\ at' = at /\ kill' = kill
        /\ UNCHANGED <<tables, queued, loops, budget, sent>>
    BY <1>2, WorkerReach
    DEF Audit, NotAudited, Execute, Valid, Unreliable, Unknown, Reaches, WorkerLabels, slot
  <2>2. mem' \in [Tasks -> Record]
    <3>1. /\ Finished(mem[at], "cancelled") \in Record /\ Finished(mem[at], "done") \in Record
          /\ Finished(mem[at], "outcome_unknown") \in Record
      BY <2>1, GetTyped, FinishedFacts DEF Terminal
    <3>2. [mem[at] EXCEPT !.cur = 0] \in Record
      BY <2>1, GetTyped, UpdateFacts
    <3> QED
      BY <1>2, <2>1, <3>1, <3>2, Typed
      DEF Audit, NotAudited, Execute, Valid, Unreliable, Unknown, SetMem
  <2>3. \/ Run(at, <<"insert">>, "execute", "not audited")
        \/ Run(at, <<"row">>, "failed early", "failed early")
        \/ Run(at, <<"error", "row">>, "release", "release")
        \/ Run(at, <<"note", "row", "note">>, "send", "failed early")
        \/ Run(at, <<"ok", "row">>, "release", "unreliable")
        \/ Run(at, <<"unknown", "row">>, "release", "release")
    BY <1>2 DEF Audit, NotAudited, Execute, Valid, Unreliable, Unknown
  <2> QED
    BY <2>1, <2>2, <2>3, Typed, WorkerRun, Runs DEF Fails, WorkerLabels
<1>3. CASE Begin \/ OutcomeLost \/ Cancelled
  <2>1. /\ up /\ up' = up /\ at \in Tasks /\ pc' = "busy" /\ at' = at
        /\ kill' \in BOOLEAN /\ (kill' => kill)
        /\ UNCHANGED <<tables, queued, loops, budget, sent>>
    <3>1. CASE Begin \/ OutcomeLost
      <4>1. at \in Tasks /\ Idle /\ up
        BY <3>1, IdleFacts, Typed DEF Begin, OutcomeLost, AtAwait
      <4>2. kill' = kill /\ pc' = "busy" /\ at' = at
        BY <3>1 DEF Begin, OutcomeLost, Busy
      <4>3. UNCHANGED <<tables, queued, loops, up, budget, sent>>
        BY <3>1 DEF Begin, OutcomeLost
      <4> QED
        BY <4>1, <4>2, <4>3, Typed
    <3>2. CASE Cancelled
      <4>1. at \in Tasks
        BY <3>2, Typed DEF Cancelled
      <4> QED
        BY <3>2, <4>1, IdleFacts DEF Cancelled
    <3> QED
      BY <1>3, <3>1, <3>2
  <2>2. mem' \in [Tasks -> Record]
    <3>1. /\ Finished(mem[at], "cancelled") \in Record
          /\ Finished(mem[at], "outcome_unknown") \in Record
      BY <2>1, GetTyped, FinishedFacts DEF Terminal
    <3>2. CASE Begin
      <4>1. mem[at].retries + 1 \in Numbers
        BY <2>1, GetTyped, Bounds DEF Record
      <4>2. [mem[at] EXCEPT !.cur = mem[at].retries + 1] \in Record
        BY <2>1, <4>1, GetTyped, UpdateFacts
      <4> QED
        BY <2>1, <3>2, <4>2, Typed DEF Begin, SetMem
    <3>3. CASE OutcomeLost \/ Cancelled
      BY <2>1, <3>1, <3>3, Typed DEF OutcomeLost, Cancelled, Unknown, SetMem
    <3> QED
      BY <1>3, <3>2, <3>3
  <2>3. \/ Run(at, <<"row">>, "audit", "failed early")
        \/ Run(at, <<>>, "release", "release")
        \/ Run(at, <<"error", "row">>, "release", "release")
        \/ Run(at, <<"unknown", "row">>, "release", "release")
    BY <1>3 DEF Begin, OutcomeLost, Cancelled, Unknown
  <2> QED
    BY <2>1, <2>2, <2>3, Typed, WorkerRun, Runs DEF Fails, WorkerLabels
<1>4. CASE OnRetry \/ EnqueueRetry
  <2>1. /\ up /\ up' = up /\ at \in Tasks /\ pc' = "busy" /\ at' = at /\ kill' = kill /\ at = call.t
        /\ UNCHANGED <<tables, loops, budget, sent>>
    BY <1>4, WorkerReach DEF OnRetry, EnqueueRetry, Reaches, WorkerLabels, slot
  <2>2. mem' \in [Tasks -> Record] /\ queued' \subseteq Tasks
    <3>1. Finished(mem[at], "failed") \in Record
      BY <2>1, GetTyped, FinishedFacts DEF Terminal
    <3>2. mem[at].retries < MaxRetries => Retried(mem[at], "retry_wait") \in Record
      <4>1. mem[at].retries < MaxRetries => mem[at].retries < RetryBound
        BY <2>1, GetTyped, Bounds DEF Record
      <4> QED
        BY <2>1, <4>1, GetTyped, RetriedFacts DEF Pending
    <3>3. mem[at].retries >= MaxRetries \/ mem[at].retries < MaxRetries
      BY <2>1, GetTyped, Bounds DEF Record
    <3> QED
      BY <1>4, <2>1, <3>1, <3>2, <3>3, Typed
      DEF OnRetry, EnqueueRetry, Requeue, SetMem, Enqueue, QueueFull
  <2>3. \/ Run(at, <<"error", "row">>, "release", "release")
        \/ Run(at, <<"error", "row">>, "requeue", "release")
        \/ Run(at, <<>>, "release", "release")
    BY <1>4, <2>1 DEF OnRetry, EnqueueRetry, Requeue
  <2> QED
    BY <2>1, <2>2, <2>3, Typed, WorkerRun, Runs DEF Fails, WorkerLabels
<1>5. CASE Release
  <2>1. up
    BY <1>5 DEF Release, Reaches
  <2> QED
    BY <1>5, <2>1, Typed, ReturnType DEF Release, tables, loops, Stages, TypeInv, TypeOK
<1> QED
  BY <1>1, <1>2, <1>3, <1>4, <1>5 DEF Worker

LEMMA RetentionType ==
  ASSUME TypeInv, Retention
  PROVE  TypeInv'
<1>1. CASE Tick
  <2>1. \A v \in Tables : [v EXCEPT !.row = [t \in Tasks |-> Older(v.row[t])]] \in Tables
    BY OlderFacts DEF Tables
  <2>2. mem' \in [Tasks -> Record] /\ view' \in Tables /\ disk' \in Tables
    BY <1>1, <2>1, Typed, OlderFacts DEF Tick
  <2>3. TypeOK'
    BY <1>1, <2>2 DEF Tick, TypeInv, TypeOK, slot, loops, budget
  <2>4. ShapeInv'
    BY <1>1 DEF Tick, TypeInv, ShapeInv, slot, Idle
  <2> QED
    BY <2>3, <2>4 DEF TypeInv
<1>2. CASE Sweep
  <2>1. /\ up /\ up' = up /\ pc # "busy"
        /\ UNCHANGED <<mem, tables, queued, slot, loops, budget, sent>>
    BY <1>2, IdleFacts DEF Sweep
  <2>2. "evict" \in Labels \ {"idle"} /\ "evict" \in NoTask /\ "evict" \notin WorkerLabels
        /\ "janitor dies" \in Fails("evict")
    BY DEF Labels, NoTask, WorkerLabels, Fails
  <2>3. Run(0, <<"prune">>, "evict", "janitor dies")
    BY <1>2 DEF Sweep
  <2> QED
    BY <2>1, <2>2, <2>3, Runs, Typed, RunType DEF slot
<1>3. CASE Evict \/ JanitorDies
  <2>1. up' = TRUE /\ pc # "busy" /\ Return /\ UNCHANGED <<tables, slot, queued, budget, sent>>
        /\ disp' \in BOOLEAN /\ janitor' \in BOOLEAN
    BY <1>3, Typed DEF Evict, JanitorDies, Reaches, TypeInv, TypeOK, ShapeInv, WorkerLabels, loops
  <2>2. mem' \in [Tasks -> Record]
    BY <1>3, Typed, NewFacts DEF Evict, JanitorDies
  <2> QED
    BY <2>1, <2>2, Typed, ReturnType DEF tables, slot
<1> QED
  BY <1>1, <1>2, <1>3 DEF Retention

LEMMA RecoveredEffect ==
  ASSUME NEW v \in Tables
  PROVE  /\ Recovered(v) \in Tables
         /\ Recovered(v).row = [t \in Tasks |-> IF v.row[t].status = "running"
                                 THEN Finished(v.row[t], "interrupted") ELSE v.row[t]]
         /\ \A t \in Tasks, n \in Numbers :
              Recovered(v).att[t][n] =
                IF v.row[t].status = "running" /\ v.att[t][n] = "open" THEN "error"
                ELSE v.att[t][n]
<1>1. Recovered(v).row = [t \in Tasks |-> IF v.row[t].status = "running"
                           THEN Finished(v.row[t], "interrupted") ELSE v.row[t]]
  BY DEF Recovered
<1>2. Recovered(v).att = [t \in Tasks |-> [n \in Numbers |->
        IF v.row[t].status = "running" /\ v.att[t][n] = "open" THEN "error"
        ELSE v.att[t][n]]]
  BY DEF Recovered
<1>3. "interrupted" \in Terminal /\ "error" \in Outcomes
  BY DEF Terminal, Outcomes
<1>4. /\ Recovered(v).row \in [Tasks -> Record]
      /\ Recovered(v).att \in [Tasks -> [Numbers -> Outcomes]]
  BY <1>1, <1>2, <1>3, FinishedFacts DEF Tables
<1>5. Recovered(v) = [row |-> Recovered(v).row, att |-> Recovered(v).att]
  BY DEF Recovered
<1> QED
  BY <1>1, <1>2, <1>4, <1>5 DEF Tables

LEMMA RestartType ==
  ASSUME TypeInv, Crash \/ Restart
  PROVE  TypeInv'
<1>1. CASE Crash
  <2>1. /\ NoCall \in CallType /\ NoCall.t = 0 /\ NoCall.todo = <<>>
        /\ NoCall.next = "idle" /\ NoCall.fail = "idle"
    BY AheadTyped DEF NoCall, CallType, Labels
  <2>4. crashes' \in 0..MaxCrashes
    BY <1>1, StoreAssumption DEF Crash, TypeInv, TypeOK
  <2>5. mem' \in [Tasks -> Record]
    BY <1>1, NewFacts DEF Crash
  <2>2. TypeOK'
    BY <1>1, <2>1, <2>4, <2>5 DEF Crash, TypeInv, TypeOK, CallType, Return, loops
  <2>3. <<>> \in Ahead("idle") /\ "idle" \in Fails("idle")
    BY DEF Ahead, Fails
  <2>6. ShapeInv'
    BY <1>1, <2>1, <2>3 DEF Crash, ShapeInv, Return, WorkerLabels, NoTask
  <2> QED
    BY <2>2, <2>6 DEF TypeInv
<1>2. CASE Restart
  <2>1. TypeOK'
    BY <1>2, RecoveredEffect DEF Restart, TypeInv, TypeOK, slot, budget
  <2>2. ShapeInv'
    BY <1>2 DEF Restart, TypeInv, ShapeInv, slot
  <2> QED
    BY <2>1, <2>2 DEF TypeInv
<1> QED
  BY <1>1, <1>2

LEMMA TypeInit ==
  ASSUME Init
  PROVE  TypeInv
<1>1. /\ NoCall \in CallType /\ NoCall.t = 0 /\ NoCall.todo = <<>>
      /\ NoCall.next = "idle" /\ NoCall.fail = "idle"
  BY AheadTyped DEF NoCall, CallType, Labels
<1>2. TypeOK
  <2>1. 0 \in 0..MaxFaults /\ 0 \in 0..MaxCrashes
    BY StoreAssumption
  <2>2. mem \in [Tasks -> Record] /\ view \in Tables /\ disk \in Tables
    BY NewFacts DEF Init
  <2> QED
    BY <1>1, <2>1, <2>2 DEF Init, TypeOK, CallType
<1>3. <<>> \in Ahead("idle") /\ "idle" \in Fails("idle")
  BY DEF Ahead, Fails
<1>4. ShapeInv
  BY <1>1, <1>3 DEF Init, ShapeInv, WorkerLabels, NoTask
<1> QED
  BY <1>2, <1>4 DEF TypeInv

LEMMA TypeStep ==
  ASSUME TypeInv, [Next]_vars
  PROVE  TypeInv'
<1>1. CASE Next
  BY <1>1, TransactionType, HttpType, DispatcherType, WorkerType, RetentionType, RestartType DEF Next
<1>2. CASE UNCHANGED vars
  BY <1>2 DEF vars, tables, slot, loops, budget, TypeInv, TypeOK, ShapeInv
<1> QED
  BY <1>1, <1>2

\* TypeOK, and which write and which label may come when.
\* The variables keep their types, and control its shape.
THEOREM TypesHold == Spec => []TypeInv
BY TypeInit, TypeStep, PTL DEF Spec

-----------------------------------------------------------------------------
(* One task per key: the writes.                                           *)

InUse(t) == t \in queued \/ t = at

LEMMA ViewFacts ==
  ASSUME TypeInv, KeyInv, NEW t \in Tasks
  PROVE  /\ view.row[t] = disk.row[t] \/ (view.row[t] = NoRecord /\ ~InUse(t))
         /\ Known(view.row[t]) => view.row[t] = disk.row[t]
BY NewFacts DEF KeyInv, ViewInv, InUse

LEMMA HasNoKey ==
  ASSUME TypeInv, KeyInv, ~HasKey(view)
  PROVE  /\ queued = {} /\ (pc # "busy" => pc = "none")
         /\ \A t \in Tasks : InUse(t) => ~Known(disk.row[t])
<1>1. \A t \in Tasks : ~Known(view.row[t])
  BY DEF HasKey
<1>2. \A t \in Tasks : InUse(t) => ~Known(disk.row[t])
  BY <1>1, ViewFacts
<1>3. ASSUME NEW t \in queued
      PROVE  FALSE
  <2>1. t \in Tasks /\ disk.row[t].status \in Pending
    BY <1>3, Typed DEF KeyInv, QueueInv
  <2> QED
    BY <2>1, <1>2 DEF InUse, Known, Pending
<1>4. ASSUME pc # "busy", pc # "none"
      PROVE  FALSE
  <2>1. at \in Tasks /\ disk.row[at].status = "running"
    BY <1>4, Typed DEF KeyInv, SlotInv, Running
  <2> QED
    BY <2>1, <1>2 DEF InUse, Known
<1> QED
  BY <1>2, <1>3, <1>4

\* The row of u after write w of t.
RowAfter(v, t, w, u) ==
  IF w = "prune" THEN Kept(v.row[u])
  ELSE IF u # t THEN v.row[u]
  ELSE IF w = "row" THEN mem[t]
  ELSE IF w = "create" THEN NewRecord
  ELSE IF w = "delete" THEN NoRecord
  ELSE v.row[u]

LEMMA EffectRow ==
  ASSUME TypeOK, NEW v \in Tables, NEW t \in {0} \cup Tasks,
         NEW w \in Guarded \cup Plain, t = 0 => w = "prune", NEW u \in Tasks
  PROVE  Effect(v, t, w).row[u] = RowAfter(v, t, w, u)
<1>1. CASE w = "prune"
  <2>1. Effect(v, t, "prune").row = [x \in Tasks |-> Kept(v.row[x])]
    BY PruneEffect
  <2>2. Effect(v, t, "prune").row[u] = Kept(v.row[u])
    BY <2>1
  <2> QED
    BY <1>1, <2>2 DEF RowAfter
<1>2. CASE w # "prune"
  <2>1. t \in Tasks
    BY <1>2
  <2>2. CASE w = "row"
    <3>1. Effect(v, t, "row").row = [v.row EXCEPT ![t] = mem[t]]
      BY <2>1, RowEffect
    <3>2. Effect(v, t, "row").row[u] = IF u = t THEN mem[t] ELSE v.row[u]
      BY <2>1, <3>1 DEF Tables
    <3> QED
      BY <2>2, <3>2 DEF RowAfter
  <2>3. CASE w = "create"
    <3>1. Effect(v, t, "create").row = [v.row EXCEPT ![t] = NewRecord]
      BY <2>1, CreateEffect
    <3>2. Effect(v, t, "create").row[u] = IF u = t THEN NewRecord ELSE v.row[u]
      BY <2>1, <3>1 DEF Tables
    <3> QED
      BY <2>3, <3>2 DEF RowAfter
  <2>4. CASE w = "delete"
    <3>1. Effect(v, t, "delete").row = [v.row EXCEPT ![t] = NoRecord]
      BY <2>1, DeleteEffect
    <3>2. Effect(v, t, "delete").row[u] = IF u = t THEN NoRecord ELSE v.row[u]
      BY <2>1, <3>1 DEF Tables
    <3> QED
      BY <2>4, <3>2 DEF RowAfter
  <2>5. CASE w = "insert"
    <3>1. Effect(v, t, "insert").row = v.row
      BY <2>1, InsertEffect
    <3> QED
      BY <2>5, <3>1 DEF RowAfter
  <2>6. CASE w \in {"ok", "error", "unknown"}
    <3>1. Effect(v, t, w).row = v.row
      BY <2>1, <2>6, CloseEffect
    <3> QED
      BY <2>6, <3>1 DEF RowAfter
  <2>7. CASE w \in {"lookup", "note", "event"}
    <3>1. Effect(v, t, w) = v
      BY <2>7, OtherEffect
    <3> QED
      BY <2>7, <3>1 DEF RowAfter
  <2> QED
    BY <1>2, <2>2, <2>3, <2>4, <2>5, <2>6, <2>7 DEF Guarded, Plain
<1> QED
  BY <1>1, <1>2

\* Either nothing is written, or all of it is committed.
LEMMA WriteTables ==
  ASSUME TypeInv, Write
  PROVE  LET w == Head(call.todo) IN
         \/ /\ view' = Effect(view, call.t, w) /\ disk' = view' /\ open' = FALSE
            /\ ~Refused(w, call.t)
            /\ \A u \in Tasks : disk'.row[u] = RowAfter(view, call.t, w, u)
         \/ UNCHANGED <<view, disk, open>> /\ w \in {"note", "ok", "error", "unknown"}
<1>1. PICK t, w : t = call.t /\ w = Head(call.todo)
  OBVIOUS
<1>2. Writing
  BY DEF Write
<1>3. t \in {0} \cup Tasks /\ w \in Guarded \cup Plain /\ (t = 0 => w = "prune")
  BY <1>1, <1>2, WritingFacts DEF WriteAt
<1>4. \/ view' = Effect(view, t, w) /\ disk' = view' /\ open' = FALSE /\ ~Refused(w, t)
      \/ UNCHANGED <<view, disk, open>> /\ w \in {"note", "ok", "error", "unknown"}
  BY <1>1 DEF Write, tables, Skipped
<1>5. \A u \in Tasks : Effect(view, t, w).row[u] = RowAfter(view, t, w, u)
  BY <1>3, EffectRow, Typed DEF TypeInv
<1> QED
  BY <1>1, <1>4, <1>5

LEMMA WriteRows ==
  ASSUME TypeInv, KeyInv, Write, NEW u \in Tasks,
         InUse(u), Known(disk.row[u]), u = call.t => Head(call.todo) # "row",
         disk.row[u].status \notin Terminal \/ call.next # "evict"
  PROVE  disk'.row[u] = disk.row[u]
<1>1. Writing
  BY DEF Write
<1>2. PICK t, w : t = call.t /\ w = Head(call.todo)
  OBVIOUS
<1>3. WriteAt(call.next, w, Tail(call.todo)) /\ call.todo # <<>>
  BY <1>1, <1>2, WritingFacts
<1>4. view.row[u] = disk.row[u]
  BY ViewFacts
<1>5. CASE UNCHANGED disk
  BY <1>5
<1>6. CASE disk'.row[u] = RowAfter(view, t, w, u)
  <2>1. CASE w = "prune"
    <3>1. call.next = "evict"
      BY <1>3, <2>1 DEF WriteAt
    <3> QED
      BY <1>4, <1>6, <2>1, <3>1 DEF RowAfter, Kept
  <2>2. CASE w = "create"
    <3>1. call.next = "created"
      BY <1>3, <2>2 DEF WriteAt
    <3> QED
      BY <1>3, <3>1, HasNoKey DEF KeyInv, CallInv
  <2>3. CASE w = "delete"
    <3>1. call.next = "discarded"
      BY <1>3, <2>3 DEF WriteAt
    <3>2. u # t
      BY <1>2, <3>1 DEF KeyInv, CallInv, InUse
    <3> QED
      BY <1>4, <1>6, <2>3, <3>2 DEF RowAfter
  <2> QED
    BY <1>2, <1>4, <1>6, <2>1, <2>2, <2>3 DEF RowAfter
<1> QED
  BY <1>2, <1>5, <1>6, WriteTables

LEMMA RowWritten ==
  ASSUME TypeInv, Write, Head(call.todo) = "row", call.t \in Tasks
  PROVE  /\ disk'.row[call.t] = mem[call.t] /\ view' = disk' /\ ~open'
         /\ \A u \in Tasks \ {call.t} : ~Known(disk'.row[u])
<1>1. PICK t \in Tasks : t = call.t
  OBVIOUS
<1>2. /\ view' = disk' /\ open' = FALSE /\ ~Refused("row", t)
      /\ \A u \in Tasks : disk'.row[u] = RowAfter(view, t, "row", u)
  BY <1>1, WriteTables
<1>3. \A u \in Tasks \ {t} : ~Known(view.row[u])
  BY <1>2 DEF Refused, Clash
<1> QED
  BY <1>1, <1>2, <1>3 DEF RowAfter

LEMMA WriteUnique ==
  ASSUME TypeInv, KeyInv, Write
  PROVE  Unique'
<1>1. Writing
  BY DEF Write
<1>2. PICK t, w : t = call.t /\ w = Head(call.todo)
  OBVIOUS
<1>3. WriteAt(call.next, w, Tail(call.todo)) /\ call.todo # <<>>
  BY <1>1, <1>2, WritingFacts
<1>4. CASE UNCHANGED disk
  BY <1>4 DEF KeyInv, Unique
<1>5. CASE ~Refused(w, t) /\ \A u \in Tasks : disk'.row[u] = RowAfter(view, t, w, u)
  <2>1. CASE w \in {"row", "create"}
    <3>1. \A u \in Tasks : u # t => ~Known(view.row[u])
      BY <1>5, <2>1 DEF Refused, Clash
    <3>2. \A u \in Tasks : u # t => disk'.row[u] = view.row[u]
      BY <1>5, <2>1 DEF RowAfter
    <3> QED
      BY <3>1, <3>2 DEF Unique
  <2>2. CASE w \notin {"row", "create"}
    <3>1. \A u \in Tasks : Known(disk'.row[u]) => Known(view.row[u])
      BY <1>5, <2>2, NewFacts DEF RowAfter, Kept, Known, Terminal
    <3>2. \A u \in Tasks : Known(disk'.row[u]) => Known(disk.row[u])
      BY <3>1, ViewFacts
    <3> QED
      BY <3>2 DEF KeyInv, Unique
  <2> QED
    BY <2>1, <2>2
<1> QED
  BY <1>2, <1>4, <1>5, WriteTables

LEMMA WriteView ==
  ASSUME TypeInv, KeyInv, Write
  PROVE  ViewInv'
<1>1. UNCHANGED <<queued, at>>
  BY DEF Write, slot
<1>2. CASE view' = disk'
  BY <1>2 DEF ViewInv
<1>3. CASE UNCHANGED <<view, disk, open>>
  BY <1>1, <1>3 DEF KeyInv, ViewInv
<1> QED
  BY <1>2, <1>3, WriteTables

LEMMA WriteQueue ==
  ASSUME TypeInv, KeyInv, Write
  PROVE  QueueInv'
<1>1. queued' = queued /\ mem' = mem
  BY DEF Write
<1>2. SUFFICES ASSUME NEW u \in Tasks, u \in queued
               PROVE  disk'.row[u].status \in Pending
  BY <1>1, Typed DEF KeyInv, QueueInv
<1>3. mem[u].status \in Pending /\ disk.row[u].status \in Pending
  BY <1>2 DEF KeyInv, QueueInv
<1>4. CASE u = call.t /\ Head(call.todo) = "row"
  BY <1>3, <1>4, RowWritten
<1>5. CASE ~(u = call.t /\ Head(call.todo) = "row")
  <2>1. InUse(u) /\ Known(disk.row[u]) /\ disk.row[u].status \notin Terminal
    BY <1>2, <1>3 DEF InUse, Known, Pending, Terminal
  <2> QED
    BY <1>3, <1>5, <2>1, WriteRows
<1> QED
  BY <1>4, <1>5

LEMMA WriteSlot ==
  ASSUME TypeInv, KeyInv, Write
  PROVE  SlotInv'
<1>1. UNCHANGED <<mem, queued, pc, at>> /\ Writing
  BY DEF Write, slot
<1>2. /\ call'.next = call.next /\ call'.todo = Tail(call.todo) /\ call.todo # <<>>
      /\ call.next \in WorkerLabels <=> pc = "busy"
      /\ pc = "busy" => at = call.t /\ at \in Tasks
  BY <1>1, OnFacts, WritingFacts, WorkerReach DEF Write, TypeInv, ShapeInv
<1>3. ASSUME pc \notin {"none", "busy"} \/ call.next \in Live
      PROVE  at \in Tasks /\ disk'.row[at].status = "running" /\ mem[at].status = "running"
  <2>1. at \in Tasks
    BY <1>2, <1>3, Typed DEF Live, WorkerLabels
  <2>2. mem[at].status = "running" /\ disk.row[at].status = "running"
    BY <1>3 DEF KeyInv, SlotInv, Running
  <2>3. CASE at = call.t /\ Head(call.todo) = "row"
    BY <2>1, <2>2, <2>3, RowWritten
  <2>4. CASE ~(at = call.t /\ Head(call.todo) = "row")
    <3>1. InUse(at) /\ Known(disk.row[at]) /\ disk.row[at].status \notin Terminal
      BY <2>2 DEF InUse, Known, Terminal
    <3> QED
      BY <2>1, <2>2, <2>4, <3>1, WriteRows
  <2> QED
    BY <2>1, <2>2, <2>3, <2>4
<1>4. ASSUME pc = "busy"
      PROVE  Known(mem[at]) /\ Known(disk'.row[at]) /\ at \notin queued
  <2>1. Known(mem[at]) /\ Known(disk.row[at]) /\ at \notin queued
    BY <1>2, <1>4 DEF KeyInv, SlotInv
  <2>2. CASE Head(call.todo) = "row"
    BY <1>2, <1>4, <2>1, <2>2, RowWritten
  <2>3. CASE Head(call.todo) # "row"
    <3>1. call.next # "evict"
      BY <1>2, <1>4 DEF WorkerLabels
    <3> QED
      BY <1>2, <1>4, <2>1, <2>3, <3>1, WriteRows DEF InUse
  <2> QED
    BY <2>1, <2>2, <2>3
<1> QED
  BY <1>1, <1>2, <1>3, <1>4 DEF SlotInv, Running

LEMMA CallFree ==
  ASSUME call'.next \notin {"reuse", "created", "discarded", "mark running", "start task",
                            "requeue", "enqueue by hand", "stop worker"},
         call'.next = "return" => call'.todo = <<>>
  PROVE  CallInv'
BY DEF CallInv

LEMMA WriteCall ==
  ASSUME TypeInv, KeyInv, Write
  PROVE  CallInv'
<1>1. UNCHANGED <<mem, queued, pc, at>> /\ Writing
  BY DEF Write, slot
<1>2. PICK t, w, n, rest : t = call.t /\ w = Head(call.todo) /\ n = call.next /\ rest = Tail(call.todo)
  OBVIOUS
<1>3. /\ call'.next = n /\ call'.todo = rest /\ call'.t = t /\ call.todo # <<>>
      /\ WriteAt(n, w, rest) /\ (n # "evict" => t \in Tasks)
  BY <1>1, <1>2, OnFacts, WritingFacts DEF Write
<1>4. w \notin {"note", "ok", "error", "unknown"} =>
        /\ view' = disk' /\ open' = FALSE
        /\ \A u \in Tasks : disk'.row[u] = RowAfter(view, t, w, u)
  BY <1>2, WriteTables
<1>5. CASE n = "reuse"
  <2>1. w = "lookup" /\ t \in Tasks
    BY <1>3, <1>5 DEF WriteAt
  <2>2. Known(view.row[t])
    BY <1>2, <1>5 DEF KeyInv, CallInv
  <2>3. Known(view'.row[t]) /\ open' = FALSE
    BY <1>4, <2>1, <2>2 DEF RowAfter
  <2> QED
    BY <1>3, <1>5, <2>3 DEF CallInv
<1>6. CASE n = "created"
  <2>1. w = "create" /\ rest = <<>> /\ t \in Tasks
    BY <1>3, <1>6 DEF WriteAt
  <2>2. ~HasKey(view)
    BY <1>2, <1>3, <1>6 DEF KeyInv, CallInv
  <2>3. queued = {} /\ pc = "none"
    BY <1>1, <1>2, <1>6, <2>2, HasNoKey DEF TypeInv, ShapeInv, WorkerLabels
  <2>4. view'.row[t] = NewRecord /\ open' = FALSE
    BY <1>4, <2>1 DEF RowAfter
  <2> QED
    BY <1>1, <1>3, <1>6, <2>1, <2>3, <2>4 DEF CallInv
<1>7. CASE n = "start task"
  <2>1. w = "row" /\ rest = <<>> /\ t \in Tasks
    BY <1>3, <1>7 DEF WriteAt
  <2>2. disk'.row[t] = mem[t] /\ open' = FALSE
    BY <1>4, <2>1 DEF RowAfter
  <2>3. pc = "none" /\ t \notin queued /\ mem[t].status = "running"
    BY <1>2, <1>7 DEF KeyInv, CallInv
  <2> QED
    BY <1>1, <1>3, <1>7, <2>2, <2>3 DEF CallInv
<1>8. CASE n \in {"requeue", "enqueue by hand"}
  <2>1. t \in Tasks /\ (rest = <<>> => w = "row")
    BY <1>3, <1>8, Literals DEF WriteAt
  <2>2. rest = <<>> => disk'.row[t] = mem[t] /\ open' = FALSE
    BY <1>4, <2>1 DEF RowAfter
  <2>3. t \notin queued /\ mem[t].status \in Pending /\ (n = "enqueue by hand" => t # at)
    BY <1>2, <1>8 DEF KeyInv, CallInv
  <2> QED
    BY <1>1, <1>3, <1>8, <2>2, <2>3 DEF CallInv
<1>9. CASE n = "mark running"
  <2>1. w = "event" /\ t \in Tasks
    BY <1>3, <1>9 DEF WriteAt
  <2>2. /\ pc = "none" /\ t \notin queued
        /\ mem[t].status \in Pending /\ disk.row[t].status \in Pending
    BY <1>2, <1>9 DEF KeyInv, CallInv
  <2>3. Known(view.row[t])
    BY <1>2, <2>1, WriteTables DEF Refused
  <2>4. disk'.row[t] = view.row[t]
    BY <1>4, <2>1 DEF RowAfter
  <2>5. disk'.row[t].status \in Pending
    BY <2>1, <2>2, <2>3, <2>4, ViewFacts
  <2> QED
    BY <1>1, <1>3, <1>9, <2>2, <2>5 DEF CallInv
<1>10. CASE n \in {"discarded", "stop worker"}
  BY <1>1, <1>2, <1>3, <1>10 DEF KeyInv, CallInv
<1>11. CASE n = "return"
  BY <1>1, <1>2, <1>3, <1>11 DEF KeyInv, CallInv
<1>12. CASE n \notin {"reuse", "created", "discarded", "mark running", "start task",
                     "requeue", "enqueue by hand", "stop worker", "return"}
  BY <1>3, <1>12, CallFree
<1> QED
  BY <1>5, <1>6, <1>7, <1>8, <1>9, <1>10, <1>11, <1>12

LEMMA RaiseKey ==
  ASSUME TypeInv, KeyInv, RaiseGuarded \/ RaisePlain
  PROVE  KeyInv'
<1>1. Writing /\ Raised /\ UNCHANGED <<mem, disk, queued, pc, at>>
  BY DEF RaiseGuarded, RaisePlain, slot
<1>2. /\ call'.t = call.t /\ call'.next = call.fail /\ call'.todo = <<>>
      /\ call.todo # <<>> /\ call.fail \in Fails(call.next) /\ call.next \in Labels \ {"idle"}
      /\ call.next \in WorkerLabels <=> pc = "busy"
  BY <1>1, RaisedFacts, WritingFacts DEF TypeInv, ShapeInv
<1>3. ViewInv'
  <2>1. CASE view' = disk
    BY <1>1, <2>1 DEF ViewInv
  <2>2. CASE open' = TRUE /\ view' = view
    BY <1>1, <2>2 DEF KeyInv, ViewInv
  <2>3. CASE open' = TRUE /\ view' = Effect(view, call.t, Head(call.todo))
             /\ Head(call.todo) \in Plain
    <3>1. PICK t, w : t = call.t /\ w = Head(call.todo)
      OBVIOUS
    <3>2. WriteAt(call.next, w, Tail(call.todo)) /\ t \in {0} \cup Tasks /\ w \in Plain
      BY <1>1, <2>3, <3>1, WritingFacts DEF TypeInv, TypeOK
    <3>3. t # 0
      BY <1>1, <3>1, <3>2, WritingFacts DEF WriteAt, Plain
    <3>4. \A u \in Tasks : view'.row[u] = RowAfter(view, t, w, u)
      <4>1. view' = Effect(view, t, w)
        BY <2>3, <3>1
      <4>2. w \in Guarded \cup Plain /\ (t = 0 => w = "prune")
        BY <3>2, <3>3
      <4>3. \A u \in Tasks : Effect(view, t, w).row[u] = RowAfter(view, t, w, u)
        BY <3>2, <4>2, EffectRow, Typed DEF TypeInv
      <4> QED
        BY <4>1, <4>3
    <3>5. w = "delete" => t \notin queued /\ t # at
      BY <3>1, <3>2 DEF WriteAt, KeyInv, CallInv
    <3>6. w \notin {"prune", "row", "create"}
      BY <3>2 DEF Plain
    <3> QED
      BY <1>1, <2>3, <3>4, <3>5, <3>6 DEF KeyInv, ViewInv, RowAfter
  <2> QED
    BY <1>2, <2>1, <2>2, <2>3, Typed DEF RaiseGuarded, RaisePlain
<1>4. Unique' /\ QueueInv'
  BY <1>1 DEF KeyInv, Unique, QueueInv
<1>5. SlotInv'
  <2>1. call.fail \in Live => call.next \in Live
    BY <1>2 DEF Fails, Live, Labels
  <2> QED
    BY <1>1, <1>2, <2>1 DEF KeyInv, SlotInv, Running
<1>6. CallInv'
  <2>1. call'.next \notin {"reuse", "created", "discarded", "mark running", "start task",
                           "requeue", "enqueue by hand", "stop worker"}
    <3>1. WriteAt(call.next, Head(call.todo), Tail(call.todo))
      BY <1>1, WritingFacts
    <3> QED
      BY <1>2, <3>1 DEF Fails, Labels, WriteAt
  <2> QED
    BY <1>2, <2>1, CallFree
<1> QED
  BY <1>3, <1>4, <1>5, <1>6 DEF KeyInv

LEMMA OtherKey ==
  ASSUME TypeInv, KeyInv, OtherTaskWrites
  PROVE  KeyInv'
<1>1. /\ UNCHANGED <<mem, queued, pc, at, call>> /\ open' = FALSE /\ Idle
      /\ (disk' = view /\ view' = view) \/ (view' = disk /\ disk' = disk)
  BY DEF OtherTaskWrites, slot
<1>2. pc # "busy" /\ call.next = "idle"
  BY <1>1, IdleFacts
<1>3. ViewInv'
  BY <1>1 DEF ViewInv
<1>4. \A u \in Tasks : Known(disk'.row[u]) => disk'.row[u] = disk.row[u]
  BY <1>1, ViewFacts
<1>5. \A u \in Tasks : InUse(u) => disk'.row[u] = disk.row[u]
  BY <1>1, ViewFacts
<1>6. Unique'
  BY <1>4 DEF KeyInv, Unique
<1>7. QueueInv'
  BY <1>1, <1>5, Typed DEF KeyInv, QueueInv, InUse
<1>8. SlotInv'
  <2>1. pc \notin {"none", "busy"} => at \in Tasks /\ InUse(at) /\ Running(at)
    BY Typed DEF KeyInv, SlotInv, InUse
  <2> QED
    BY <1>1, <1>2, <1>5, <2>1 DEF SlotInv, Running, Live
<1>9. CallInv'
  BY <1>1, <1>2, CallFree
<1> QED
  BY <1>3, <1>6, <1>7, <1>8, <1>9 DEF KeyInv

LEMMA TransactionKey ==
  ASSUME TypeInv, KeyInv, Transaction
  PROVE  KeyInv'
<1>1. CASE Write
  BY <1>1, WriteView, WriteUnique, WriteQueue, WriteSlot, WriteCall DEF KeyInv
<1> QED
  BY <1>1, RaiseKey, OtherKey DEF Transaction

-----------------------------------------------------------------------------
(* One task per key: the steps that leave the tables alone.                *)

LEMMA Frame ==
  ASSUME TypeInv, KeyInv, UNCHANGED <<view, disk, open>>,
         \A t \in Tasks : t \in queued' \/ t = at' => InUse(t) \/ view.row[t] = disk.row[t]
  PROVE  ViewInv' /\ Unique'
BY DEF KeyInv, ViewInv, Unique, InUse

\* The worker waits: its task is running, in memory and on disk.
LEMMA SlotFacts ==
  ASSUME TypeInv, KeyInv, pc # "busy"
  PROVE  /\ \A t \in Tasks : t = at =>
              /\ mem[t].status = "running" /\ disk.row[t].status = "running" /\ t \notin queued
              /\ view.row[t] = disk.row[t] /\ pc # "none"
         /\ \A t \in queued : /\ t \in Tasks /\ t # at /\ Known(mem[t])
                              /\ mem[t].status \in Pending /\ disk.row[t].status \in Pending
                              /\ view.row[t] = disk.row[t]
         /\ pc # "none" => at \in Tasks
<1>1. \A t \in queued : /\ t \in Tasks /\ mem[t].status \in Pending /\ disk.row[t].status \in Pending
                        /\ Known(mem[t])
  BY Typed DEF KeyInv, QueueInv, Known, Pending
<1>2. \A t \in Tasks : t = at => pc # "none" /\ mem[t].status = "running" /\ disk.row[t].status = "running"
  BY Typed, Bounds DEF KeyInv, SlotInv, Running
<1>3. \A t \in queued : t # at
  BY <1>1, <1>2 DEF Pending
<1>4. \A t \in Tasks : t \in queued \/ t = at => view.row[t] = disk.row[t]
  BY ViewFacts, <1>1, <1>2 DEF InUse
<1> QED
  BY <1>1, <1>2, <1>3, <1>4, Typed

LEMMA PlainSlot ==
  ASSUME TypeInv, KeyInv, pc # "busy", pc' = pc, at' = at, disk' = disk,
         call'.next \notin Live,
         \A t \in Tasks : t = at => mem'[t].status = mem[t].status
  PROVE  SlotInv'
<1>1. pc \notin {"none", "busy"} => at \in Tasks
  BY Typed
<1> QED
  BY <1>1 DEF KeyInv, SlotInv, Running

LEMMA IdleCall == Return => call'.next = "idle" /\ call'.todo = <<>>
BY DEF Return, NoCall

LEMMA RunCall ==
  ASSUME NEW t, NEW todo, NEW n, NEW f, Run(t, todo, n, f)
  PROVE  call'.t = t /\ call'.todo = todo /\ call'.next = n /\ call'.fail = f
BY DEF Run

LEMMA HttpKey ==
  ASSUME TypeInv, KeyInv, Http
  PROVE  KeyInv'
<1>1. ASSUME NEW t \in Tasks, Submit(t)
      PROVE  KeyInv'
  <2>1. pc # "busy" /\ UNCHANGED <<mem, queued, pc, at, view, disk, open>>
    BY <1>1, IdleFacts DEF Submit, slot, tables
  <2>2. /\ call'.t = t
        /\ \/ call'.next = "reuse" /\ call'.todo = <<"lookup">> /\ Known(view.row[t])
           \/ call'.next = "created" /\ call'.todo = <<"create">> /\ ~HasKey(view)
    BY <1>1, RunCall DEF Submit
  <2>3. ViewInv' /\ Unique'
    BY <2>1, Frame DEF InUse
  <2>4. QueueInv'
    BY <2>1 DEF KeyInv, QueueInv
  <2>5. SlotInv'
    BY <2>1, <2>2, PlainSlot DEF Live
  <2>6. CallInv'
    BY <2>1, <2>2, Literals DEF CallInv, HasKey
  <2> QED
    BY <2>3, <2>4, <2>5, <2>6 DEF KeyInv
<1>2. ASSUME NEW t \in Tasks, Cancel(t)
      PROVE  KeyInv'
  <2>1. pc # "busy" /\ UNCHANGED <<queued, pc, at, view, disk, open>>
    BY <1>2, IdleFacts DEF Cancel, slot, tables
  <2>2. /\ call'.t = t /\ call'.next = "stop worker" /\ call'.todo = <<"row">>
        /\ mem' = [mem EXCEPT ![t] = [Get(t) EXCEPT !.cancel = TRUE]]
        /\ Get(t).status \in Pending \cup {"running"}
    BY <1>2, RunCall DEF Cancel, SetMem
  <2>3. /\ mem'[t].status = Get(t).status /\ (Known(mem[t]) => Get(t) = mem[t])
        /\ \A u \in Tasks : u # t => mem'[u] = mem[u]
    <3>1. PICK r \in Record : r = Get(t)
      BY GetTyped
    <3>2. [r EXCEPT !.cancel = TRUE].status = r.status
      BY UpdateFacts
    <3>3. mem' = [mem EXCEPT ![t] = [r EXCEPT !.cancel = TRUE]]
      BY <2>2, <3>1
    <3>4. Known(mem[t]) => r = mem[t]
      BY <3>1 DEF Get
    <3> QED
      BY <3>1, <3>2, <3>3, <3>4, Typed
  <2>4. ViewInv' /\ Unique'
    BY <2>1, Frame DEF InUse
  <2>5. QueueInv'
    BY <2>1, <2>3, SlotFacts DEF QueueInv
  <2>6. SlotInv'
    <3>1. \A u \in Tasks : u = at => mem'[u].status = mem[u].status
      BY <2>1, <2>3, SlotFacts DEF Known
    <3> QED
      BY <2>1, <2>2, <3>1, PlainSlot DEF Live
  <2>7. CallInv'
    BY <2>2, <2>3 DEF CallInv
  <2> QED
    BY <2>4, <2>5, <2>6, <2>7 DEF KeyInv
<1>3. ASSUME NEW t \in Tasks, ManualRetry(t)
      PROVE  KeyInv'
  <2>1. pc # "busy" /\ UNCHANGED <<queued, pc, at, view, disk, open>>
    BY <1>3, IdleFacts DEF ManualRetry, slot, tables
  <2>2. /\ call'.t = t /\ call'.next = "enqueue by hand" /\ call'.todo = <<"error", "row">>
        /\ mem' = [mem EXCEPT ![t] = Retried(Get(t), "queued")]
        /\ Get(t).status \in Terminal /\ Get(t).retries < RetryBound
    BY <1>3, RunCall DEF ManualRetry, SetMem
  <2>3. /\ mem'[t].status = "queued"
        /\ \A u \in Tasks : u # t => mem'[u] = mem[u]
    BY <2>2, GetTyped, RetriedFacts, Typed DEF Pending
  <2>4. t \notin queued /\ t # at
    BY <2>1, <2>2, SlotFacts DEF Get, Known, Pending, Terminal
  <2>5. ViewInv' /\ Unique'
    BY <2>1, Frame DEF InUse
  <2>6. QueueInv'
    BY <2>1, <2>3, <2>4, SlotFacts DEF QueueInv
  <2>7. SlotInv'
    BY <2>1, <2>2, <2>3, <2>4, PlainSlot DEF Live
  <2>8. CallInv'
    BY <2>1, <2>2, <2>3, <2>4, Literals DEF CallInv, Pending
  <2> QED
    BY <2>5, <2>6, <2>7, <2>8 DEF KeyInv
<1>4. CASE Reuse \/ Discarded
  <2>1. PICK t \in Tasks : t = call.t
    BY <1>4, PlainReach DEF Reuse, Discarded, Reaches, PlainLabels
  <2>2. /\ pc # "busy" /\ UNCHANGED <<queued, pc, at, view, disk, open>>
        /\ call'.next = "idle"
    BY <1>4, PlainReach, IdleCall DEF Reuse, Discarded, Reaches, PlainLabels, slot, tables
  <2>3. /\ \A u \in Tasks : u # t => mem'[u] = mem[u]
        /\ mem'[t] = view.row[t] \/ ~InUse(t)
    BY <1>4, <2>1, Typed DEF Reuse, Discarded, SetMem, Reaches, KeyInv, CallInv, InUse
  <2>4. QueueInv'
    BY <2>2, <2>3, SlotFacts DEF QueueInv, InUse
  <2>5. SlotInv'
    <3>1. \A u \in Tasks : u = at => mem'[u].status = mem[u].status
      BY <2>2, <2>3, SlotFacts DEF InUse
    <3> QED
      BY <2>2, <3>1, PlainSlot DEF Live
  <2>6. ViewInv' /\ Unique'
    BY <2>2, Frame DEF InUse
  <2>7. CallInv'
    BY <2>2, CallFree
  <2> QED
    BY <2>4, <2>5, <2>6, <2>7 DEF KeyInv
<1>5. CASE StopWorker \/ Returned
  <2>1. /\ pc # "busy" /\ UNCHANGED <<mem, queued, pc, at, view, disk, open>>
        /\ call'.next = "idle"
    BY <1>5, PlainReach, IdleCall DEF StopWorker, Returned, Reaches, PlainLabels, slot, tables
  <2>2. ViewInv' /\ Unique'
    BY <2>1, Frame DEF InUse
  <2>3. QueueInv' /\ SlotInv' /\ CallInv'
    BY <2>1, PlainSlot, CallFree DEF KeyInv, QueueInv, Live
  <2> QED
    BY <2>2, <2>3 DEF KeyInv
<1>6. CASE Created
  <2>1. PICK t \in Tasks : t = call.t
    BY <1>6, PlainReach DEF Created, Reaches, PlainLabels
  <2>2. /\ UNCHANGED <<pc, at, view, disk, open>>
        /\ ~open /\ view.row[t] = NewRecord /\ queued = {} /\ pc = "none" /\ at = 0
    BY <1>6, <2>1, Typed DEF Created, Reaches, slot, tables, KeyInv, CallInv
  <2>3. mem'[t] = NewRecord /\ disk.row[t] = NewRecord
    BY <1>6, <2>1, <2>2, Typed DEF Created, SetMem, KeyInv, ViewInv
  <2>4. \/ queued' = {t} /\ call'.next = "idle"
        \/ queued' = {} /\ call'.next = "discarded" /\ call'.t = t
    BY <1>6, <2>1, <2>2, IdleCall, RunCall DEF Created, Enqueue, QueueFull
  <2>5. ViewInv' /\ Unique'
    BY <2>2, <2>3, <2>4, Frame, Bounds
  <2>6. QueueInv'
    BY <2>2, <2>3, <2>4, NewFacts DEF QueueInv, Pending
  <2>7. SlotInv'
    BY <2>2, <2>4 DEF SlotInv, Live
  <2>8. CallInv'
    <3>1. mem'[t].status = "queued" /\ t # at'
      BY <2>2, <2>3, NewFacts, Bounds
    <3> QED
      BY <2>4, <3>1 DEF CallInv
  <2> QED
    BY <2>5, <2>6, <2>7, <2>8 DEF KeyInv
<1>7. CASE EnqueueByHand
  <2>1. PICK t \in Tasks : t = call.t
    BY <1>7, PlainReach DEF EnqueueByHand, Reaches, PlainLabels
  <2>2. /\ pc # "busy" /\ UNCHANGED <<pc, at, view, disk, open>>
    BY <1>7, PlainReach DEF EnqueueByHand, Reaches, PlainLabels, slot, tables
  <2>3. /\ t \notin queued /\ t # at /\ mem[t].status \in Pending
        /\ disk.row[t] = mem[t] /\ view.row[t] = disk.row[t]
    BY <1>7, <2>1 DEF EnqueueByHand, Reaches, KeyInv, CallInv, ViewInv
  <2>4. /\ call'.t = t /\ call'.next = "return"
        /\ \/ mem' = mem /\ queued' = queued \cup {t} /\ call'.todo = <<>>
           \/ queued' = queued /\ mem' = [mem EXCEPT ![t] = Finished(mem[t], "failed")]
    BY <1>7, <2>1, RunCall DEF EnqueueByHand, Requeue, Enqueue, QueueFull, SetMem
  <2>5. /\ \A u \in Tasks : u # t => mem'[u] = mem[u]
        /\ \/ mem' = mem /\ queued' = queued \cup {t} /\ call'.todo = <<>>
           \/ queued' = queued /\ mem'[t].status \in Terminal
    BY <2>4, GetTyped, FinishedFacts, Typed DEF Terminal
  <2>6. ViewInv' /\ Unique'
    BY <2>2, <2>3, <2>4, Frame DEF InUse
  <2>7. QueueInv'
    BY <2>2, <2>3, <2>4, <2>5, SlotFacts DEF QueueInv
  <2>8. SlotInv'
    BY <2>2, <2>3, <2>4, <2>5, PlainSlot DEF Live
  <2>9. CallInv'
    <3>1. CASE call'.todo = <<>>
      BY <2>4, <3>1, CallFree
    <3>2. CASE queued' = queued /\ mem'[t].status \in Terminal
      BY <2>2, <2>3, <2>4, <3>2 DEF CallInv
    <3> QED
      BY <2>5, <3>1, <3>2
  <2> QED
    BY <2>6, <2>7, <2>8, <2>9 DEF KeyInv
<1> QED
  BY <1>1, <1>2, <1>3, <1>4, <1>5, <1>6, <1>7 DEF Http

LEMMA DispatcherKey ==
  ASSUME TypeInv, KeyInv, Dispatcher
  PROVE  KeyInv'
<1>1. ASSUME NEW t \in Tasks, DropCancelled(t) \/ DropExpired(t)
      PROVE  KeyInv'
  <2>1. pc # "busy" /\ UNCHANGED <<pc, at, view, disk, open>> /\ queued' = queued \ {t}
    BY <1>1, IdleFacts DEF DropCancelled, DropExpired, Dispatching, slot, tables
  <2>2. call'.t = t /\ call'.next = "return"
    BY <1>1, RunCall DEF DropCancelled, DropExpired
  <2>3. t \in queued \/ view.row[t].status \in Pending
    BY <1>1 DEF DropCancelled, DropExpired
  <2>4. t # at
    BY <2>1, <2>3, SlotFacts DEF Pending
  <2>5. /\ \A u \in Tasks : u # t => mem'[u] = mem[u]
        /\ mem'[t].status \in Terminal
    <3>1. PICK r \in Record, s \in Terminal : mem' = [mem EXCEPT ![t] = Finished(r, s)]
      BY <1>1, GetTyped DEF DropCancelled, DropExpired, SetMem, Terminal
    <3>2. Finished(r, s).status = s
      BY FinishedFacts
    <3> QED
      BY <3>1, <3>2, Typed
  <2>6. ViewInv' /\ Unique'
    BY <2>1, Frame DEF InUse
  <2>7. QueueInv'
    BY <2>1, <2>5, SlotFacts DEF QueueInv
  <2>8. SlotInv'
    BY <2>1, <2>2, <2>4, <2>5, PlainSlot DEF Live
  <2>9. CallInv'
    BY <2>1, <2>2, <2>4, <2>5 DEF CallInv
  <2> QED
    BY <2>6, <2>7, <2>8, <2>9 DEF KeyInv
<1>2. ASSUME NEW t \in Tasks, Claim(t)
      PROVE  KeyInv'
  <2>1. pc = "none" /\ UNCHANGED <<mem, pc, at, view, disk, open>> /\ queued' = queued \ {t} /\ t \in queued
    BY <1>2 DEF Claim, slot, tables
  <2>2. call'.t = t /\ call'.next = "mark running"
    BY <1>2, RunCall DEF Claim
  <2>3. ViewInv' /\ Unique'
    BY <2>1, Frame DEF InUse
  <2>4. QueueInv'
    BY <2>1 DEF KeyInv, QueueInv
  <2>5. SlotInv'
    BY <2>1, <2>2, PlainSlot DEF Live
  <2>6. CallInv'
    BY <2>1, <2>2, SlotFacts DEF CallInv
  <2> QED
    BY <2>3, <2>4, <2>5, <2>6 DEF KeyInv
<1>3. CASE MarkRunning
  <2>1. PICK t \in Tasks : t = call.t
    BY <1>3, PlainReach DEF MarkRunning, Reaches, PlainLabels
  <2>2. /\ pc = "none" /\ at = 0 /\ t \notin queued
        /\ UNCHANGED <<queued, pc, at, view, disk, open>>
    BY <1>3, <2>1, Typed DEF MarkRunning, Reaches, KeyInv, CallInv, slot, tables
  <2>3. /\ call'.t = t /\ call'.next = "start task" /\ call'.todo = <<"row">>
        /\ mem' = [mem EXCEPT ![t] = [mem[t] EXCEPT !.status = "running"]]
    BY <1>3, <2>1, RunCall DEF MarkRunning, SetMem
  <2>4. /\ \A u \in Tasks : u # t => mem'[u] = mem[u]
        /\ mem'[t].status = "running"
    BY <2>3, GetTyped, UpdateFacts, Typed
  <2>5. ViewInv' /\ Unique'
    BY <2>2, Frame DEF InUse
  <2>6. QueueInv'
    BY <2>2, <2>4, SlotFacts DEF QueueInv
  <2>7. SlotInv'
    BY <2>2, <2>3 DEF SlotInv, Live
  <2>8. CallInv'
    BY <2>2, <2>3, <2>4, Literals DEF CallInv
  <2> QED
    BY <2>5, <2>6, <2>7, <2>8 DEF KeyInv
<1>4. CASE StartTask
  <2>1. PICK t \in Tasks : t = call.t
    BY <1>4, PlainReach DEF StartTask, Reaches, PlainLabels
  <2>2. /\ t \notin queued /\ mem[t].status = "running" /\ disk.row[t].status = "running"
        /\ view.row[t] = disk.row[t]
        /\ UNCHANGED <<mem, queued, view, disk, open>> /\ pc' = "spawned" /\ at' = t
        /\ call'.next = "idle"
    BY <1>4, <2>1, IdleCall DEF StartTask, Reaches, KeyInv, CallInv, ViewInv, tables
  <2>3. ViewInv' /\ Unique'
    BY <2>2, Frame DEF InUse
  <2>4. QueueInv'
    BY <2>2 DEF KeyInv, QueueInv
  <2>5. SlotInv'
    BY <2>2 DEF SlotInv, Running, Live
  <2>6. CallInv'
    BY <2>2, CallFree
  <2> QED
    BY <2>3, <2>4, <2>5, <2>6 DEF KeyInv
<1>5. CASE DispatcherDies
  <2>1. /\ pc # "busy" /\ UNCHANGED <<mem, queued, pc, at, view, disk, open>>
        /\ call'.next = "idle"
    BY <1>5, PlainReach, IdleCall DEF DispatcherDies, Reaches, PlainLabels, slot, tables
  <2>2. ViewInv' /\ Unique'
    BY <2>1, Frame DEF InUse
  <2>3. QueueInv' /\ SlotInv' /\ CallInv'
    BY <2>1, PlainSlot, CallFree DEF KeyInv, QueueInv, Live
  <2> QED
    BY <2>2, <2>3 DEF KeyInv
<1>6. CASE RecoverPending
  <2> DEFINE due == {t \in Tasks : view.row[t].status \in Pending}
  <2>1. /\ pc # "busy" /\ UNCHANGED <<pc, at, view, disk, open, call>> /\ call.next = "idle"
        /\ mem' = [t \in Tasks |-> IF t \in due THEN view.row[t] ELSE mem[t]]
        /\ queued' \subseteq queued \cup due
    BY <1>6, IdleFacts DEF RecoverPending, Dispatching, slot, tables
  <2>2. \A t \in due : view.row[t] = disk.row[t]
    BY ViewFacts DEF Known, Pending
  <2>3. ViewInv' /\ Unique'
    BY <2>1, <2>2, Frame DEF InUse
  <2>4. QueueInv'
    BY <2>1, <2>2, SlotFacts DEF QueueInv
  <2>5. SlotInv'
    <3>1. \A u \in Tasks : u = at => mem'[u].status = mem[u].status
      BY <2>1, SlotFacts DEF Pending
    <3> QED
      BY <2>1, <3>1, PlainSlot DEF Live
  <2>6. CallInv'
    BY <2>1, CallFree
  <2> QED
    BY <2>3, <2>4, <2>5, <2>6 DEF KeyInv
<1> QED
  BY <1>1, <1>2, <1>3, <1>4, <1>5, <1>6 DEF Dispatcher

\* A step of the worker's own: its record keeps its status or is finished.
LEMMA WorkerFrame ==
  ASSUME TypeInv, KeyInv, NEW t \in Tasks, t = at, at' = at,
         UNCHANGED <<queued, view, disk, open>>,
         \A u \in Tasks : u # t => mem'[u] = mem[u],
         t \notin queued
  PROVE  ViewInv' /\ Unique' /\ QueueInv'
<1>1. ViewInv' /\ Unique'
  BY Frame DEF InUse
<1>2. QueueInv'
  BY Typed DEF KeyInv, QueueInv
<1> QED
  BY <1>1, <1>2

LEMMA BusyFacts ==
  ASSUME TypeInv, KeyInv, NEW t \in Tasks, t = at,
         pc # "busy" \/ (pc = "busy" /\ (call.next # "release" \/ call.todo # <<>>))
  PROVE  t \notin queued /\ Known(mem[t]) /\ Known(disk.row[t])
         /\ (pc # "busy" \/ call.next \in Live => mem[t].status = "running" /\ disk.row[t].status = "running")
<1>1. CASE pc # "busy"
  BY <1>1, SlotFacts DEF Known
<1>2. CASE pc = "busy"
  BY <1>2 DEF KeyInv, SlotInv, Running
<1> QED
  BY <1>1, <1>2

LEMMA WorkerKeep ==
  ASSUME TypeInv, KeyInv, NEW t \in Tasks, t = at, at' = at,
         pc # "busy" \/ (pc = "busy" /\ (call.next # "release" \/ call.todo # <<>>)),
         UNCHANGED <<queued, view, disk, open>>,
         \A u \in Tasks : u # t => mem'[u] = mem[u],
         Known(mem'[t]),
         pc' # "busy" \/ call'.next \in Live =>
           mem'[t].status = "running" /\ (pc # "busy" \/ call.next \in Live),
         CallInv'
  PROVE  KeyInv'
<1>1. /\ t \notin queued /\ Known(disk.row[t])
      /\ pc # "busy" \/ call.next \in Live => disk.row[t].status = "running"
  BY BusyFacts
<1>2. ViewInv' /\ Unique' /\ QueueInv'
  BY <1>1, WorkerFrame
<1>3. SlotInv'
  BY <1>1 DEF SlotInv, Running
<1> QED
  BY <1>2, <1>3 DEF KeyInv

LEMMA WorkerKey ==
  ASSUME TypeInv, KeyInv, Worker
  PROVE  KeyInv'
<1>1. CASE Begin \/ PromptConfirmed \/ PromptNotSent \/ Poll \/ Answered \/ OutcomeLost
           \/ Rebuilt \/ Cancelled
  <2>1. /\ pc # "busy" /\ pc # "none" /\ at' = at /\ UNCHANGED <<queued, view, disk, open>>
    BY <1>1, IdleFacts, Typed
    DEF Begin, PromptConfirmed, PromptNotSent, Poll, Answered, OutcomeLost, Rebuilt,
        Cancelled, AtAwait, Busy, Await, tables
  <2>2. PICK t \in Tasks : t = at
    BY <2>1, Typed
  <2>3. mem[t] \in Record /\ mem[t].status = "running"
    BY <2>1, <2>2, SlotFacts, GetTyped
  <2>4. \A u \in Tasks : u # t => mem'[u] = mem[u]
    <3>1. mem' = mem \/ \E r : mem' = [mem EXCEPT ![t] = r]
      BY <1>1, <2>2
      DEF Begin, PromptConfirmed, PromptNotSent, Poll, Answered, OutcomeLost, Rebuilt,
          Cancelled, Unknown, SetMem
    <3> QED
      BY <3>1, Typed
  <2>5. /\ Known(mem'[t])
        /\ pc' # "busy" \/ call'.next \in Live => mem'[t].status = "running"
        /\ CallInv'
    <3>1. CASE Begin
      <4>1. mem[t].retries + 1 \in Numbers
        BY <2>3, Bounds DEF Record
      <4>2. mem'[t] = [mem[t] EXCEPT !.cur = mem[t].retries + 1]
        BY <2>2, <3>1, Typed DEF Begin, SetMem
      <4>3. mem'[t].status = "running"
        BY <2>3, <4>1, <4>2, UpdateFacts
      <4>4. call'.next = "audit"
        BY <3>1, RunCall DEF Begin
      <4> QED
        BY <4>3, <4>4, CallFree DEF Known
    <3>2. CASE PromptConfirmed \/ Poll \/ Answered \/ Rebuilt
      <4>1. mem' = mem /\ call'.next \in {"recorded", "valid", "on retry"}
        BY <3>2, RunCall DEF PromptConfirmed, Poll, Answered, Rebuilt
      <4> QED
        BY <2>3, <4>1, CallFree DEF Known
    <3>3. CASE PromptNotSent
      <4>1. mem' = mem /\ call'.next = "idle"
        BY <3>3, IdleCall DEF PromptNotSent, Await
      <4> QED
        BY <2>3, <4>1, CallFree DEF Known
    <3>4. CASE OutcomeLost \/ Cancelled
      <4>1. call'.next = "release" /\ pc' = "busy"
        BY <3>4, RunCall DEF OutcomeLost, Cancelled, Unknown, Busy
      <4>2. mem' = mem \/ \E s \in Terminal : mem'[t] = Finished(mem[t], s)
        BY <2>2, <3>4, Typed DEF OutcomeLost, Cancelled, Unknown, SetMem, Terminal
      <4>3. Known(mem'[t])
        BY <2>3, <4>2, FinishedFacts DEF Known, Terminal
      <4> QED
        BY <4>1, <4>3, CallFree DEF Live
    <3> QED
      BY <1>1, <3>1, <3>2, <3>3, <3>4
  <2> QED
    BY <2>1, <2>2, <2>4, <2>5, WorkerKeep
<1>2. CASE Audit \/ NotAudited \/ Execute \/ Send \/ PromptRecorded \/ FailedEarly
           \/ Valid \/ Unreliable \/ OnRetry
  <2>1. /\ pc = "busy" /\ at \in Tasks /\ at = call.t /\ at' = at
        /\ call.next # "release" /\ UNCHANGED <<queued, view, disk, open>>
    BY <1>2, WorkerReach
    DEF Audit, NotAudited, Execute, Send, PromptRecorded, FailedEarly, Valid, Unreliable,
        OnRetry, Unknown, Reaches, Await, WorkerLabels, slot, tables
  <2>2. PICK t \in Tasks : t = at
    BY <2>1
  <2>3. /\ mem[t] \in Record /\ Known(mem[t]) /\ t \notin queued
        /\ call.next \in Live => mem[t].status = "running"
    BY <2>1, <2>2, BusyFacts, GetTyped
  <2>4. \A u \in Tasks : u # t => mem'[u] = mem[u]
    <3>1. mem' = mem \/ \E r : mem' = [mem EXCEPT ![t] = r]
      BY <1>2, <2>2
      DEF Audit, NotAudited, Execute, Send, PromptRecorded, FailedEarly, Valid, Unreliable,
          OnRetry, Unknown, SetMem
    <3> QED
      BY <3>1, Typed
  <2>5. /\ Known(mem'[t])
        /\ pc' # "busy" \/ call'.next \in Live =>
             mem'[t].status = "running" /\ call.next \in Live
        /\ CallInv'
    <3>1. CASE Audit \/ Send \/ PromptRecorded \/ FailedEarly
      <4>1. mem' = mem /\ call'.next \in {"execute", "idle"} /\ call.next \in Live
        BY <3>1, RunCall, IdleCall DEF Audit, Send, PromptRecorded, FailedEarly, Await, Reaches, Live
      <4> QED
        BY <2>3, <4>1, CallFree
    <3>2. CASE NotAudited
      <4>1. mem'[t] = [mem[t] EXCEPT !.cur = 0] /\ call.next \in Live
        BY <2>2, <3>2, Typed DEF NotAudited, SetMem, Reaches, Live
      <4>2. mem'[t].status = "running"
        BY <2>3, <4>1, UpdateFacts
      <4>3. call'.next = "failed early"
        BY <3>2, RunCall DEF NotAudited
      <4> QED
        BY <4>1, <4>2, <4>3, CallFree DEF Known
    <3>3. CASE Execute /\ ~mem[at].cancel
      <4>1. mem' = mem /\ call'.next = "send" /\ call.next \in Live
        BY <3>3, RunCall DEF Execute, Reaches, Live
      <4> QED
        BY <2>3, <4>1, CallFree
    <3>4. CASE (Execute /\ mem[at].cancel) \/ Valid \/ Unreliable
      <4>1. call'.next = "release" /\ pc' = "busy"
        BY <2>1, <3>4, RunCall DEF Execute, Valid, Unreliable, Unknown, slot
      <4>2. \E s \in Terminal : mem'[t] = Finished(mem[t], s)
        BY <2>2, <3>4, Typed DEF Execute, Valid, Unreliable, Unknown, SetMem, Terminal
      <4>3. Known(mem'[t])
        BY <2>3, <4>2, FinishedFacts DEF Known, Terminal
      <4> QED
        BY <4>1, <4>3, CallFree DEF Live
    <3>5. CASE OnRetry
      <4>1. pc' = "busy" /\ call'.t = t
        BY <2>1, <2>2, <3>5, RunCall DEF OnRetry, slot
      <4>2. CASE mem[at].retries >= MaxRetries
        <5>1. mem'[t] = Finished(mem[t], "failed") /\ call'.next = "release"
          BY <2>2, <3>5, <4>2, RunCall, Typed DEF OnRetry, SetMem
        <5>2. Known(mem'[t])
          BY <2>3, <5>1, FinishedFacts DEF Known, Terminal
        <5> QED
          BY <4>1, <5>1, <5>2, CallFree DEF Live
      <4>3. CASE ~(mem[at].retries >= MaxRetries)
        <5>1. /\ mem'[t] = Retried(mem[t], "retry_wait") /\ call'.next = "requeue"
              /\ call'.todo = <<"error", "row">>
          BY <2>2, <3>5, <4>3, RunCall, Typed DEF OnRetry, SetMem
        <5>2. mem[t].retries < RetryBound
          BY <2>2, <2>3, <4>3, Bounds DEF Record
        <5>3. mem'[t].status = "retry_wait"
          BY <2>3, <5>1, <5>2, RetriedFacts DEF Pending
        <5>4. CallInv'
          BY <2>1, <2>3, <4>1, <5>1, <5>3, Literals DEF CallInv, Pending
        <5> QED
          BY <4>1, <5>1, <5>3, <5>4 DEF Live, Known
      <4> QED
        BY <4>2, <4>3
    <3> QED
      BY <1>2, <3>1, <3>2, <3>3, <3>4, <3>5
  <2> QED
    BY <2>1, <2>2, <2>4, <2>5, WorkerKeep
<1>3. CASE EnqueueRetry
  <2>1. PICK t \in Tasks : t = at
    BY <1>3, WorkerReach DEF EnqueueRetry, Reaches, WorkerLabels
  <2>2. /\ pc = "busy" /\ t = call.t /\ pc' = pc /\ at' = at /\ UNCHANGED <<view, disk, open>>
    BY <1>3, <2>1, WorkerReach DEF EnqueueRetry, Reaches, WorkerLabels, slot, tables
  <2>3. /\ t \notin queued /\ mem[t].status \in Pending
        /\ disk.row[t] = mem[t] /\ view.row[t] = disk.row[t]
    BY <1>3, <2>2 DEF EnqueueRetry, Reaches, KeyInv, CallInv, ViewInv
  <2>4. /\ call'.next = "release"
        /\ \/ mem' = mem /\ queued' = queued \cup {t} /\ call'.todo = <<>>
           \/ queued' = queued /\ mem' = [mem EXCEPT ![t] = Finished(mem[t], "failed")]
    BY <1>3, <2>2, RunCall DEF EnqueueRetry, Requeue, Enqueue, QueueFull, SetMem
  <2>5. /\ \A u \in Tasks : u # t => mem'[u] = mem[u]
        /\ \/ mem' = mem /\ queued' = queued \cup {t} /\ call'.todo = <<>>
           \/ queued' = queued /\ mem'[t].status \in Terminal
    BY <2>4, GetTyped, FinishedFacts, Typed DEF Terminal
  <2>6. ViewInv' /\ Unique'
    BY <2>2, <2>3, <2>4, Frame DEF InUse
  <2>7. QueueInv'
    BY <2>2, <2>3, <2>5, Typed DEF QueueInv, KeyInv
  <2>8. SlotInv'
    <3>1. Known(mem'[t]) /\ Known(disk'.row[t])
      BY <2>2, <2>3, <2>5 DEF Known, Pending, Terminal
    <3> QED
      BY <2>1, <2>2, <2>3, <2>4, <2>5, <3>1 DEF SlotInv, Live
  <2>9. CallInv'
    BY <2>4, CallFree
  <2> QED
    BY <2>6, <2>7, <2>8, <2>9 DEF KeyInv
<1>4. CASE Release
  <2>1. /\ UNCHANGED <<mem, queued, view, disk, open>> /\ pc' = "none" /\ at' = 0
        /\ call'.next = "idle"
    BY <1>4, IdleCall DEF Release, tables
  <2>2. ViewInv' /\ Unique'
    BY <2>1, Frame, Bounds DEF InUse
  <2>3. QueueInv' /\ SlotInv' /\ CallInv'
    BY <2>1, CallFree DEF KeyInv, QueueInv, SlotInv, Live
  <2> QED
    BY <2>2, <2>3 DEF KeyInv
<1> QED
  BY <1>1, <1>2, <1>3, <1>4 DEF Worker

LEMMA RetentionKey ==
  ASSUME TypeInv, KeyInv, Retention
  PROVE  KeyInv'
<1>1. CASE Tick
  <2>1. /\ pc = "none" /\ pc' = "none" /\ queued' = {} /\ open' = open /\ call' = call
        /\ call.next = "idle" /\ at' = 0
    BY <1>1, IdleFacts, Typed DEF Tick, slot
  <2>2. /\ view' = [view EXCEPT !.row = [t \in Tasks |-> Older(view.row[t])]]
        /\ disk' = [disk EXCEPT !.row = [t \in Tasks |-> Older(disk.row[t])]]
    BY <1>1 DEF Tick
  <2>3. \A t \in Tasks : view'.row[t] = Older(view.row[t]) /\ disk'.row[t] = Older(disk.row[t])
    BY <2>2, Typed DEF Tables
  <2>4. Older(NoRecord) = NoRecord
    BY DEF Older, NoRecord
  <2>5. ViewInv'
    <3>1. ~open => view' = disk'
      BY <2>2 DEF KeyInv, ViewInv
    <3>2. \A t \in Tasks : view.row[t] = disk.row[t] \/ view.row[t] = NoRecord
      BY ViewFacts
    <3>3. \A t \in Tasks : view'.row[t] = disk'.row[t] \/ view'.row[t] = NoRecord
      BY <2>3, <2>4, <3>2
    <3> QED
      BY <2>1, <3>1, <3>3, Bounds DEF ViewInv
  <2>6. Unique'
    <3>1. \A t \in Tasks : Known(disk'.row[t]) => Known(disk.row[t])
      BY <2>3, OlderFacts, GetTyped DEF Known
    <3> QED
      BY <3>1 DEF KeyInv, Unique
  <2>7. QueueInv' /\ SlotInv' /\ CallInv'
    BY <2>1, CallFree DEF QueueInv, SlotInv, Live
  <2> QED
    BY <2>5, <2>6, <2>7 DEF KeyInv
<1>2. CASE Sweep \/ JanitorDies
  <2>1. /\ UNCHANGED <<mem, queued, pc, at, view, disk, open>> /\ call'.next \in {"evict", "idle"}
        /\ pc # "busy"
    BY <1>2, IdleFacts, IdleCall, RunCall
    DEF Sweep, JanitorDies, slot, tables, Reaches, TypeInv, ShapeInv, WorkerLabels
  <2>2. ViewInv' /\ Unique'
    BY <2>1, Frame DEF InUse
  <2>3. QueueInv' /\ SlotInv' /\ CallInv'
    BY <2>1, PlainSlot, CallFree DEF KeyInv, QueueInv, Live
  <2> QED
    BY <2>2, <2>3 DEF KeyInv
<1>3. CASE Evict
  <2>1. /\ UNCHANGED <<queued, pc, at, view, disk, open>> /\ call'.next = "idle" /\ pc # "busy"
    BY <1>3, IdleCall DEF Evict, slot, tables, Reaches, TypeInv, ShapeInv, WorkerLabels
  <2>2. \A t \in Tasks : mem[t].status \notin Terminal => mem'[t] = mem[t]
    BY <1>3 DEF Evict
  <2>3. ViewInv' /\ Unique'
    BY <2>1, Frame DEF InUse
  <2>4. QueueInv'
    BY <2>1, <2>2, SlotFacts DEF QueueInv, Pending, Terminal
  <2>5. SlotInv'
    <3>1. \A t \in Tasks : t = at => mem'[t].status = mem[t].status
      BY <2>1, <2>2, SlotFacts DEF Terminal
    <3> QED
      BY <2>1, <3>1, PlainSlot DEF Live
  <2>6. CallInv'
    BY <2>1, CallFree
  <2> QED
    BY <2>3, <2>4, <2>5, <2>6 DEF KeyInv
<1> QED
  BY <1>1, <1>2, <1>3 DEF Retention

LEMMA RestartKey ==
  ASSUME TypeInv, KeyInv, Crash \/ Restart
  PROVE  KeyInv'
<1>1. CASE Crash
  <2>1. /\ view' = disk /\ disk' = disk /\ queued' = {} /\ pc' = "none" /\ at' = 0
        /\ call'.next = "idle"
    BY <1>1, IdleCall DEF Crash
  <2> QED
    BY <2>1, CallFree DEF KeyInv, ViewInv, Unique, QueueInv, SlotInv, Live
<1>2. CASE Restart
  <2>1. /\ view' = disk' /\ disk' = Recovered(disk) /\ queued' = {} /\ pc' = "none"
        /\ call'.next = "idle"
    BY <1>2 DEF Restart, TypeInv, ShapeInv, NoCall, slot
  <2>2. \A t \in Tasks : Known(disk'.row[t]) => Known(disk.row[t])
    BY <2>1, RecoveredEffect, Typed DEF Known
  <2>3. Unique'
    BY <2>2 DEF KeyInv, Unique
  <2> QED
    BY <2>1, <2>3, CallFree DEF KeyInv, ViewInv, QueueInv, SlotInv, Live
<1> QED
  BY <1>1, <1>2

LEMMA KeyInit ==
  ASSUME Init
  PROVE  KeyInv
<1>1. \A t \in Tasks : ~Known(disk.row[t])
  BY NewFacts DEF Init, EmptyTables
<1>2. call.next = "idle"
  BY DEF Init, NoCall
<1> QED
  BY <1>1, <1>2 DEF Init, KeyInv, ViewInv, Unique, QueueInv, SlotInv, CallInv, Live

LEMMA KeyStep ==
  ASSUME TypeInv, KeyInv, [Next]_vars
  PROVE  KeyInv'
<1>1. CASE Next
  BY <1>1, TransactionKey, HttpKey, DispatcherKey, WorkerKey, RetentionKey, RestartKey DEF Next
<1>2. CASE UNCHANGED vars
  <2>1. UNCHANGED <<mem, view, disk, open, queued, pc, at, call>>
    BY <1>2 DEF vars, tables, slot
  <2>2. ViewInv' /\ Unique' /\ QueueInv'
    BY <2>1 DEF KeyInv, ViewInv, Unique, QueueInv
  <2>3. SlotInv'
    BY <2>1 DEF KeyInv, SlotInv, Running
  <2>4. CallInv'
    BY <2>1 DEF KeyInv, CallInv, HasKey
  <2> QED
    BY <2>2, <2>3, <2>4 DEF KeyInv
<1> QED
  BY <1>1, <1>2

\* Whose row is pending or running is known; whoever is underway has a row.
LEMMA KeyIsOneTask ==
  ASSUME TypeInv, KeyInv
  PROVE  OneTaskPerKey
<1>1. \A t \in Tasks : Underway(t) => Known(disk.row[t])
  <2>1. \A t \in queued : Known(disk.row[t])
    BY DEF KeyInv, QueueInv, Known, Pending
  <2>2. ASSUME NEW t \in Tasks, at = t
        PROVE  Known(disk.row[t])
    <3>1. CASE pc = "busy"
      BY <2>2, <3>1 DEF KeyInv, SlotInv
    <3>2. CASE pc # "busy"
      BY <2>2, <3>2, SlotFacts DEF Known
    <3> QED
      BY <3>1, <3>2
  <2> QED
    BY <2>1, <2>2 DEF Underway, Known, Pending
<1> QED
  BY <1>1 DEF OneTaskPerKey, KeyInv, Unique

\* Two tasks of one idempotency key are never both on their way, for every
\* number of tasks, retries, failing writes and crashes.
THEOREM KeyIsOne == Spec => []OneTaskPerKey
<1>1. Init => TypeInv /\ KeyInv
  BY TypeInit, KeyInit
<1>2. TypeInv /\ KeyInv /\ [Next]_vars => (TypeInv /\ KeyInv)'
  BY TypeStep, KeyStep
<1>3. TypeInv /\ KeyInv => OneTaskPerKey
  BY KeyIsOneTask
<1> QED
  BY <1>1, <1>2, <1>3, PTL DEF Spec

-----------------------------------------------------------------------------
(* Recorded prompts.                                                       *)

LEMMA TransactionRecord ==
  ASSUME TypeInv, KeyInv, NEW t \in Tasks, Settled(t), Transaction
  PROVE  Settled(t)'
<1>1. UNCHANGED <<mem, pc, at>>
  BY DEF Transaction, Write, RaiseGuarded, RaisePlain, OtherTaskWrites, slot
<1>2. \A r : r.status \notin Pending => Kept(r).status \notin Pending
  BY NewFacts DEF Kept, Pending, Terminal, NoRecord
<1>3. view.row[t].status \notin Pending
  BY ViewFacts DEF Settled, Known, Pending
<1>4. CASE Write
  <2>1. Writing /\ call'.t = call.t /\ call'.next = call.next /\ call'.fail = call.fail
    BY <1>4, OnFacts DEF Write
  <2>2. PICK u, w : u = call.t /\ w = Head(call.todo)
    OBVIOUS
  <2>3. w = "create" => call.next = "created"
    BY <2>1, <2>2, WritingFacts DEF WriteAt
  <2>4. disk'.row[t] = disk.row[t] \/ disk'.row[t] = RowAfter(view, u, w, t)
    BY <1>4, <2>2, WriteTables
  <2>5. disk'.row[t].status \notin Pending
    <3>1. w = "create" => u # t
      BY <2>2, <2>3 DEF Settled
    <3>2. RowAfter(view, u, w, t).status \notin Pending
      <4>1. CASE w = "prune"
        <5>1. PICK r : r = view.row[t]
          OBVIOUS
        <5>2. Kept(r).status \notin Pending
          BY <1>2, <1>3, <5>1
        <5> QED
          BY <4>1, <5>1, <5>2 DEF RowAfter
      <4>2. CASE w # "prune"
        BY <1>3, <3>1, <4>2, NewFacts DEF RowAfter, Settled, NoRecord, Pending
      <4> QED
        BY <4>1, <4>2
    <3> QED
      BY <2>4, <3>2 DEF Settled
  <2> QED
    BY <1>1, <2>1, <2>5 DEF Settled
<1>5. CASE RaiseGuarded \/ RaisePlain
  <2>1. Writing /\ Raised /\ disk' = disk
    BY <1>5 DEF RaiseGuarded, RaisePlain
  <2>2. /\ call'.t = call.t /\ call'.next = call.fail /\ call'.fail = call.fail
        /\ call.next \in Labels \ {"idle"} /\ call.fail \in Fails(call.next)
    BY <2>1, RaisedFacts, WritingFacts DEF TypeInv, ShapeInv
  <2>3. /\ call.next = "valid" => call.fail = "unreliable"
        /\ call.next = "unreliable" => call.fail = "unreliable"
        /\ call.next = "release" => call.fail \in {"release", "unreliable"}
        /\ call.next \notin {"created", "mark running", "start task"} =>
             call.fail \notin {"created", "mark running", "start task"}
        /\ call.next = "mark running" => call.fail = "dispatcher dies"
    BY <2>2 DEF Fails, Labels
  <2> QED
    BY <1>1, <2>1, <2>2, <2>3 DEF Settled
<1>6. CASE OtherTaskWrites
  <2>1. call' = call /\ (disk' = view \/ disk' = disk)
    BY <1>6 DEF OtherTaskWrites
  <2> QED
    BY <1>1, <1>3, <2>1 DEF Settled
<1> QED
  BY <1>4, <1>5, <1>6 DEF Transaction

LEMMA HttpRecord ==
  ASSUME TypeInv, KeyInv, RecordInv, Http, NEW t \in Tasks, sent'[t] = "recorded"
  PROVE  Settled(t)'
<1>1. disk' = disk /\ pc' = pc /\ at' = at
  BY DEF Http, Submit, Cancel, ManualRetry, Reuse, Created, Discarded, StopWorker,
         EnqueueByHand, Returned, tables, slot
<1>2. sent[t] = "recorded" /\ Settled(t)
  <2>1. sent' = sent \/ \E u \in Tasks : sent' = [sent EXCEPT ![u] = "no"]
    BY PlainReach DEF Http, Submit, Cancel, ManualRetry, Reuse, Created, Discarded, StopWorker,
         EnqueueByHand, Returned, Reaches, PlainLabels
  <2>2. sent[t] = "recorded"
    BY <2>1, Typed
  <2> QED
    BY <2>2 DEF RecordInv
<1>3. pc # "busy"
  BY PlainReach, IdleFacts DEF Http, Submit, Cancel, ManualRetry, Reuse, Created, Discarded,
         StopWorker, EnqueueByHand, Returned, Reaches, PlainLabels
<1>4. at = t => pc = "generating"
  BY <1>2, <1>3 DEF Settled, TypeInv, ShapeInv, WorkerLabels
<1>5. view.row[t].status \notin Pending
  BY <1>2, ViewFacts DEF Settled, Known, Pending
<1>6. mem'[t].status \notin Pending
  <2>1. ASSUME NEW u \in Tasks, Cancel(u)
        PROVE  mem'[t].status \notin Pending
    <3>1. PICK r \in Record : r = Get(u)
      BY GetTyped
    <3>2. mem' = [mem EXCEPT ![u] = [r EXCEPT !.cancel = TRUE]]
      BY <2>1, <3>1 DEF Cancel, SetMem
    <3>3. [r EXCEPT !.cancel = TRUE].status = r.status
      BY UpdateFacts
    <3>4. u = t => r.status \notin Pending
      BY <1>2, <1>5, <3>1 DEF Get, Settled
    <3> QED
      BY <1>2, <3>2, <3>3, <3>4, Typed DEF Settled
  <2>2. ASSUME NEW u \in Tasks, ManualRetry(u)
        PROVE  mem'[t].status \notin Pending
    <3>1. u # t
      BY <2>2, Typed DEF ManualRetry
    <3> QED
      BY <1>2, <2>2, <3>1, Typed DEF ManualRetry, SetMem, Settled
  <2>3. CASE Reuse \/ Created \/ Discarded
    <3>1. PICK u \in Tasks : u = call.t
      BY <2>3, PlainReach DEF Reuse, Created, Discarded, Reaches, PlainLabels
    <3>2. \/ mem' = [mem EXCEPT ![u] = view.row[u]]
          \/ mem' = [mem EXCEPT ![u] = NoRecord]
      BY <2>3, <3>1 DEF Reuse, Created, Discarded, SetMem
    <3>3. mem'[t] = mem[t] \/ mem'[t] = view.row[t] \/ mem'[t] = NoRecord
      BY <3>2, Typed
    <3> QED
      BY <1>2, <1>5, <3>3, NewFacts DEF Settled, Known, Pending
  <2>4. CASE EnqueueByHand
    <3>1. PICK u \in Tasks : u = call.t
      BY <2>4, PlainReach DEF EnqueueByHand, Reaches, PlainLabels
    <3>2. mem' = mem \/ mem' = [mem EXCEPT ![u] = Finished(mem[u], "failed")]
      BY <2>4, <3>1 DEF EnqueueByHand, Requeue, SetMem
    <3>3. Finished(mem[u], "failed").status = "failed"
      BY GetTyped, FinishedFacts DEF Terminal
    <3> QED
      BY <1>2, <3>2, <3>3, Typed DEF Settled, Pending
  <2>5. CASE (\E u \in Tasks : Submit(u)) \/ StopWorker \/ Returned
    BY <1>2, <2>5 DEF Submit, StopWorker, Returned, Settled
  <2> QED
    BY <2>1, <2>2, <2>3, <2>4, <2>5 DEF Http
<1>7. call'.t = t => call'.next \notin {"created", "mark running", "start task"}
  <2>1. ASSUME NEW u \in Tasks, Submit(u)
        PROVE  call'.next = "reuse" \/ call'.t # t
    <3>1. call'.t = u /\ (call'.next = "reuse" \/ sent[u] = "none")
      BY <2>1, RunCall DEF Submit
    <3> QED
      BY <1>2, <3>1
  <2>2. CASE \E u \in Tasks : Submit(u)
    BY <2>1, <2>2
  <2>3. CASE Reuse \/ Discarded \/ StopWorker \/ Returned
    BY <2>3, IdleCall DEF Reuse, Discarded, StopWorker, Returned
  <2>4. CASE Created
    BY <2>4, IdleCall, RunCall DEF Created
  <2>5. CASE EnqueueByHand
    BY <2>5, RunCall DEF EnqueueByHand, Requeue
  <2>6. ASSUME NEW u \in Tasks, Cancel(u)
        PROVE  call'.next = "stop worker"
    BY <2>6, RunCall DEF Cancel
  <2>7. ASSUME NEW u \in Tasks, ManualRetry(u)
        PROVE  call'.next = "enqueue by hand"
    BY <2>7, RunCall DEF ManualRetry
  <2> QED
    BY <2>2, <2>3, <2>4, <2>5, <2>6, <2>7 DEF Http
<1> QED
  BY <1>1, <1>2, <1>4, <1>6, <1>7 DEF Settled

LEMMA DispatcherRecord ==
  ASSUME TypeInv, KeyInv, NEW t \in Tasks, Settled(t), Dispatcher
  PROVE  Settled(t)'
<1>1. disk' = disk /\ pc # "busy"
  BY PlainReach, IdleFacts DEF Dispatcher, DropCancelled, DropExpired, Claim, RecoverPending,
     MarkRunning, StartTask, DispatcherDies, Dispatching, Reaches, PlainLabels, tables
<1>2. at = t => pc = "generating"
  BY <1>1 DEF Settled, TypeInv, ShapeInv, WorkerLabels
<1>3. at' = t => pc' = "generating"
  <2>1. CASE StartTask
    BY <2>1 DEF StartTask, Reaches, Settled
  <2>2. CASE ~StartTask
    BY <1>2, <2>2 DEF Dispatcher, DropCancelled, DropExpired, Claim, RecoverPending,
       MarkRunning, DispatcherDies, slot
  <2> QED
    BY <2>1, <2>2
<1>4. view.row[t].status \notin Pending /\ t \notin queued
  BY ViewFacts DEF Settled, Known, Pending, KeyInv, QueueInv
<1>5. mem'[t].status \notin Pending
  <2>1. ASSUME NEW u \in Tasks, DropCancelled(u) \/ DropExpired(u)
        PROVE  mem'[t].status \notin Pending
    <3>1. PICK r \in Record, s \in Terminal : mem' = [mem EXCEPT ![u] = Finished(r, s)]
      BY <2>1, GetTyped DEF DropCancelled, DropExpired, SetMem, Terminal
    <3>2. Finished(r, s).status = s
      BY FinishedFacts
    <3> QED
      BY <3>1, <3>2, Typed DEF Settled, Pending, Terminal
  <2>2. CASE RecoverPending
    BY <1>4, <2>2 DEF RecoverPending, Settled
  <2>3. CASE MarkRunning
    <3>1. PICK u \in Tasks : u = call.t
      BY <2>3, PlainReach DEF MarkRunning, Reaches, PlainLabels
    <3>2. mem' = [mem EXCEPT ![u] = [mem[u] EXCEPT !.status = "running"]]
      BY <2>3, <3>1 DEF MarkRunning, SetMem
    <3>3. [mem[u] EXCEPT !.status = "running"].status = "running"
      BY GetTyped, UpdateFacts
    <3> QED
      BY <3>2, <3>3, Typed DEF Settled, Pending
  <2>4. CASE (\E u \in Tasks : Claim(u)) \/ StartTask \/ DispatcherDies
    BY <2>4 DEF Claim, StartTask, DispatcherDies, Settled
  <2> QED
    BY <2>1, <2>2, <2>3, <2>4 DEF Dispatcher
<1>6. call'.t = t => call'.next \notin {"created", "mark running", "start task"}
  <2>1. ASSUME NEW u \in Tasks, DropCancelled(u) \/ DropExpired(u)
        PROVE  call'.next = "return"
    BY <2>1, RunCall DEF DropCancelled, DropExpired
  <2>2. ASSUME NEW u \in Tasks, Claim(u)
        PROVE  call'.t # t
    <3>1. call'.t = u /\ u \in queued
      BY <2>2, RunCall DEF Claim
    <3> QED
      BY <1>4, <3>1
  <2>3. CASE MarkRunning
    <3>1. call'.t = call.t /\ call.next = "mark running"
      BY <2>3, RunCall DEF MarkRunning, Reaches
    <3> QED
      BY <3>1 DEF Settled
  <2>4. CASE StartTask \/ DispatcherDies
    BY <2>4, IdleCall DEF StartTask, DispatcherDies
  <2>5. CASE RecoverPending
    BY <2>5 DEF RecoverPending, Settled
  <2> QED
    BY <2>1, <2>2, <2>3, <2>4, <2>5 DEF Dispatcher
<1> QED
  BY <1>1, <1>3, <1>5, <1>6 DEF Settled

LEMMA WorkerRecord ==
  ASSUME TypeInv, KeyInv, RecordInv, Worker, NEW t \in Tasks, sent'[t] = "recorded"
  PROVE  Settled(t)'
<1>1. disk' = disk
  BY DEF Worker, Begin, Audit, NotAudited, Execute, Send, PromptConfirmed, PromptRecorded,
     PromptNotSent, FailedEarly, OutcomeLost, Poll, Answered, Valid, Unreliable, Rebuilt,
     OnRetry, EnqueueRetry, Cancelled, Release, tables
<1>2. call'.next \notin {"created", "mark running", "start task"}
  <2>1. CASE Send \/ PromptRecorded \/ PromptNotSent \/ FailedEarly \/ Release
    BY <2>1, IdleCall DEF Send, PromptRecorded, PromptNotSent, FailedEarly, Release, Await
  <2>2. Begin => call'.next = "audit"
    BY RunCall DEF Begin
  <2>3. Audit => call'.next = "execute"
    BY RunCall DEF Audit
  <2>4. NotAudited => call'.next = "failed early"
    BY RunCall DEF NotAudited
  <2>5. Execute => call'.next = "release" \/ call'.next = "send"
    BY RunCall DEF Execute
  <2>6. PromptConfirmed => call'.next = "recorded"
    BY RunCall DEF PromptConfirmed
  <2>7. OutcomeLost => call'.next = "release"
    BY RunCall DEF OutcomeLost, Unknown
  <2>8. Poll => call'.next = "recorded"
    BY RunCall DEF Poll
  <2>9. Answered => call'.next = "valid" \/ call'.next = "on retry"
    BY RunCall DEF Answered
  <2>10. Valid => call'.next = "release"
    BY RunCall DEF Valid
  <2>11. Unreliable => call'.next = "release"
    BY RunCall DEF Unreliable, Unknown
  <2>12. Rebuilt => call'.next = "on retry"
    BY RunCall DEF Rebuilt
  <2>13. OnRetry => call'.next = "release" \/ call'.next = "requeue"
    BY RunCall DEF OnRetry
  <2>14. EnqueueRetry => call'.next = "release"
    BY RunCall DEF EnqueueRetry, Requeue
  <2>15. Cancelled => call'.next = "release"
    BY RunCall DEF Cancelled
  <2> QED
    BY <2>1, <2>2, <2>3, <2>4, <2>5, <2>6, <2>7, <2>8, <2>9, <2>10, <2>11, <2>12, <2>13, <2>14, <2>15 DEF Worker
<1>3. CASE PromptRecorded
  <2>1. pc' = "generating" /\ at \in Tasks /\ mem' = mem /\ call.next = "recorded"
    BY <1>3, WorkerReach DEF PromptRecorded, Await, Reaches, WorkerLabels
  <2>2. CASE t = at
    <3>1. mem[t].status = "running" /\ disk.row[t].status = "running"
      BY <2>1, <2>2 DEF KeyInv, SlotInv, Running, Live
    <3> QED
      BY <1>1, <1>2, <2>1, <3>1 DEF Settled, Pending
  <2>3. CASE t # at
    <3>1. sent[t] = "recorded" /\ at' = at
      BY <1>3, <2>3, Typed DEF PromptRecorded, Await
    <3> QED
      BY <1>1, <1>2, <2>1, <2>3, <3>1 DEF RecordInv, Settled
  <2> QED
    BY <2>2, <2>3
<1>4. CASE ~PromptRecorded
  <2>1. sent' = sent \/ sent' = [sent EXCEPT ![at] = "confirmed"] \/ sent' = [sent EXCEPT ![at] = "no"]
    BY <1>4
    DEF Worker, Begin, Audit, NotAudited, Execute, Send, PromptConfirmed,
     PromptNotSent, FailedEarly, OutcomeLost, Poll, Answered, Valid, Unreliable, Rebuilt,
     OnRetry, EnqueueRetry, Cancelled, Release
  <2>2. sent[t] = "recorded"
    BY <2>1, Typed
  <2>3. Settled(t)
    BY <2>2 DEF RecordInv
  <2>4. CASE at # t
    <3>1. at' = at \/ at' = 0
      BY <1>4
      DEF Worker, Begin, Audit, NotAudited, Execute, Send, PromptConfirmed,
       PromptNotSent, FailedEarly, OutcomeLost, Poll, Answered, Valid, Unreliable, Rebuilt,
       OnRetry, EnqueueRetry, Cancelled, Release, Await, Busy, slot
    <3>2. mem' = mem \/ \E r : mem' = [mem EXCEPT ![at] = r]
      <4>1. CASE EnqueueRetry
        <5>1. call.t = at
          BY <4>1, WorkerReach DEF EnqueueRetry, Reaches, WorkerLabels
        <5> QED
          BY <4>1, <5>1 DEF EnqueueRetry, Requeue, SetMem
      <4>2. CASE ~EnqueueRetry
        BY <1>4, <4>2
        DEF Worker, Begin, Audit, NotAudited, Execute, Send, PromptConfirmed,
         PromptNotSent, FailedEarly, OutcomeLost, Poll, Answered, Valid, Unreliable, Unknown,
         Rebuilt, OnRetry, Cancelled, Release, SetMem
      <4> QED
        BY <4>1, <4>2
    <3>3. mem'[t] = mem[t] /\ at' # t
      BY <2>4, <3>1, <3>2, Typed, Bounds
    <3> QED
      BY <1>1, <1>2, <2>3, <3>3 DEF Settled
  <2>5. CASE at = t
    <3>1. pc = "generating" \/ call.next \in {"recorded", "valid", "unreliable", "release"}
      BY <2>3, <2>5 DEF Settled
    <3>2. /\ ~Begin /\ ~Audit /\ ~NotAudited /\ ~Execute /\ ~Send /\ ~PromptConfirmed
          /\ ~PromptNotSent /\ ~FailedEarly /\ ~Rebuilt /\ ~OnRetry /\ ~EnqueueRetry
      BY <3>1, IdleFacts, WorkerReach
      DEF Begin, Audit, NotAudited, Execute, Send, PromptConfirmed, PromptNotSent,
          FailedEarly, Rebuilt, OnRetry, EnqueueRetry, AtAwait, Reaches, WorkerLabels
    <3>3. CASE Poll \/ Answered
      <4>1. mem' = mem /\ (call'.next = "valid" \/ (call'.next = "recorded" /\ call'.fail = "unreliable")
                           \/ sent' = [sent EXCEPT ![at] = "no"])
        BY <3>3, RunCall DEF Poll, Answered
      <4>2. sent' # [sent EXCEPT ![at] = "no"]
        BY <2>5, Typed
      <4> QED
        BY <1>1, <1>2, <2>3, <4>1, <4>2 DEF Settled
    <3>4. CASE OutcomeLost \/ Valid \/ Unreliable \/ Cancelled
      <4>1. call'.next = "release"
        BY <3>4, RunCall DEF OutcomeLost, Valid, Unreliable, Cancelled, Unknown
      <4>2. mem' = mem \/ \E s \in Terminal : mem' = [mem EXCEPT ![t] = Finished(mem[t], s)]
        BY <2>5, <3>4 DEF OutcomeLost, Valid, Unreliable, Cancelled, Unknown, SetMem, Terminal
      <4>3. mem'[t].status \notin Pending
        <5>1. CASE mem' = mem
          BY <2>3, <5>1 DEF Settled
        <5>2. CASE \E s \in Terminal : mem' = [mem EXCEPT ![t] = Finished(mem[t], s)]
          <6>1. PICK s \in Terminal : mem' = [mem EXCEPT ![t] = Finished(mem[t], s)]
            BY <5>2
          <6>2. mem'[t] = Finished(mem[t], s)
            BY <6>1, Typed
          <6>3. mem'[t].status = s
            BY <6>2, GetTyped, FinishedFacts
          <6> QED
            BY <6>3 DEF Pending, Terminal
        <5> QED
          BY <4>2, <5>1, <5>2
      <4> QED
        BY <1>1, <1>2, <2>3, <4>1, <4>3 DEF Settled
    <3>5. CASE Release
      <4>1. mem' = mem /\ at' = 0
        BY <3>5 DEF Release
      <4> QED
        BY <1>1, <1>2, <2>3, <4>1, Bounds DEF Settled
    <3> QED
      BY <1>4, <3>2, <3>3, <3>4, <3>5 DEF Worker
  <2> QED
    BY <2>4, <2>5
<1> QED
  BY <1>3, <1>4

LEMMA OtherRecord ==
  ASSUME TypeInv, KeyInv, NEW t \in Tasks, Settled(t), Retention \/ Crash \/ Restart
  PROVE  Settled(t)'
<1>1. CASE Tick
  <2>1. mem'[t].status = mem[t].status /\ disk'.row[t].status = disk.row[t].status
    BY <1>1, OlderFacts, GetTyped, Typed DEF Tick, Tables
  <2>2. at' = at /\ pc' = pc /\ call' = call
    BY <1>1 DEF Tick, slot
  <2> QED
    BY <2>1, <2>2 DEF Settled
<1>2. CASE Sweep \/ Evict \/ JanitorDies
  <2>1. /\ disk' = disk /\ at' = at /\ pc' = pc /\ call'.next \in {"evict", "idle"} /\ pc # "busy"
    BY <1>2, IdleFacts, IdleCall, RunCall
    DEF Sweep, Evict, JanitorDies, slot, tables, Reaches, TypeInv, ShapeInv, WorkerLabels
  <2>2. mem'[t].status \notin Pending
    <3>1. mem'[t] = mem[t] \/ mem'[t] = NoRecord
      BY <1>2, Typed DEF Sweep, Evict, JanitorDies
    <3> QED
      BY <3>1, NewFacts DEF Settled, Known, Pending
  <2>3. at = t => pc = "generating"
    BY <2>1 DEF Settled, TypeInv, ShapeInv, WorkerLabels
  <2> QED
    BY <2>1, <2>2, <2>3 DEF Settled
<1>3. CASE Crash
  <2>1. disk' = disk /\ at' = 0 /\ mem'[t] = NoRecord /\ call'.next = "idle"
    BY <1>3, IdleCall DEF Crash
  <2> QED
    BY <2>1, NewFacts, Bounds DEF Settled, Known, Pending
<1>4. CASE Restart
  <2>1. UNCHANGED <<mem, at, pc, call>>
    BY <1>4 DEF Restart, slot
  <2>2. disk'.row[t].status \notin Pending
    <3>1. disk' = Recovered(disk)
      BY <1>4 DEF Restart
    <3>2. disk'.row[t] = disk.row[t] \/ disk'.row[t] = Finished(disk.row[t], "interrupted")
      <4>1. PICK v \in Tables : v = disk
        BY Typed
      <4>2. Recovered(v).row = [x \in Tasks |-> IF v.row[x].status = "running"
                                THEN Finished(v.row[x], "interrupted") ELSE v.row[x]]
        BY RecoveredEffect
      <4> QED
        BY <3>1, <4>1, <4>2
    <3>3. Finished(disk.row[t], "interrupted").status = "interrupted"
      BY GetTyped, FinishedFacts DEF Terminal
    <3> QED
      BY <3>2, <3>3 DEF Settled, Pending
  <2> QED
    BY <2>1, <2>2 DEF Settled
<1> QED
  BY <1>1, <1>2, <1>3, <1>4 DEF Retention

LEMMA RecordStep ==
  ASSUME TypeInv, KeyInv, RecordInv, [Next]_vars
  PROVE  RecordInv'
<1> SUFFICES ASSUME NEW t \in Tasks, sent'[t] = "recorded"
             PROVE  Settled(t)'
  BY DEF RecordInv
<1>1. CASE Http
  BY <1>1, HttpRecord
<1>2. CASE Worker
  BY <1>2, WorkerRecord
<1>3. CASE Transaction \/ Dispatcher \/ Retention \/ Crash \/ Restart
  <2>1. sent' = sent
    BY <1>3 DEF Transaction, Write, RaiseGuarded, RaisePlain, OtherTaskWrites,
       Dispatcher, DropCancelled, DropExpired, Claim, RecoverPending, MarkRunning, StartTask,
       DispatcherDies, Retention, Tick, Sweep, Evict, JanitorDies, Crash, Restart
  <2>2. Settled(t)
    BY <2>1 DEF RecordInv
  <2> QED
    BY <1>3, <2>2, TransactionRecord, DispatcherRecord, OtherRecord
<1>4. CASE UNCHANGED vars
  BY <1>4 DEF vars, tables, slot, RecordInv, Settled
<1> QED
  BY <1>1, <1>2, <1>3, <1>4 DEF Next

\* Only Send starts a prompt, and it has none that was recorded before it.
LEMMA SendNotRecorded ==
  ASSUME TypeInv, RecordInv, [Next]_vars, pc # "sending", pc' = "sending"
  PROVE  sent[at'] # "recorded"
<1>1. Send
  BY DEF Next, vars, slot, Transaction, Write, RaiseGuarded, RaisePlain, OtherTaskWrites,
     Http, Submit, Cancel, ManualRetry, Reuse, Created, Discarded, StopWorker, EnqueueByHand,
     Returned, Dispatcher, DropCancelled, DropExpired, Claim, RecoverPending, MarkRunning,
     StartTask, DispatcherDies, Worker, Begin, Audit, NotAudited, Execute, PromptConfirmed,
     PromptRecorded, PromptNotSent, FailedEarly, OutcomeLost, Poll, Answered, Valid, Unreliable,
     Rebuilt, OnRetry, EnqueueRetry, Cancelled, Release, Await, Busy, Retention, Tick, Sweep,
     Evict, JanitorDies, Crash, Restart
<1>2. call.next = "send" /\ at \in Tasks /\ pc = "busy" /\ sent' = sent /\ at' = at
  BY <1>1, WorkerReach DEF Send, Reaches, Await, WorkerLabels
<1> QED
  BY <1>2 DEF RecordInv, Settled

\* A prompt whose confirmation is recorded is not sent again without a manual
\* retry, whatever fails or dies in between.
THEOREM RecordedStaysPut == Spec => RecordedNotReplayed
<1>1. Init => TypeInv /\ KeyInv /\ RecordInv
  <2>1. Init => RecordInv
    BY DEF Init, RecordInv
  <2> QED
    BY <2>1, TypeInit, KeyInit
<1>2. TypeInv /\ KeyInv /\ RecordInv /\ [Next]_vars => (TypeInv /\ KeyInv /\ RecordInv)'
  BY TypeStep, KeyStep, RecordStep
<1>3. TypeInv /\ KeyInv /\ RecordInv /\ [Next]_vars =>
        [pc # "sending" /\ pc' = "sending" => sent[at'] # "recorded"]_vars
  BY SendNotRecorded
<1> QED
  BY <1>1, <1>2, <1>3, PTL DEF Spec, RecordedNotReplayed

-----------------------------------------------------------------------------
(* Audited attempts: what a write does to them.                            *)

\* Attempt n of u after write w of t.
AttAfter(v, t, w, u, n) ==
  IF w = "prune" THEN IF v.row[u].status \in Terminal /\ v.row[u].age >= Deletable
                      THEN "none" ELSE v.att[u][n]
  ELSE IF u # t THEN v.att[u][n]
  ELSE IF w = "delete" THEN "none"
  ELSE IF w = "insert" /\ n = mem[t].retries + 1 THEN "open"
  ELSE IF w \in {"ok", "error", "unknown"} /\ n = mem[t].cur /\ v.att[t][n] # "none" THEN w
  ELSE v.att[u][n]

LEMMA EffectAtt ==
  ASSUME TypeOK, NEW v \in Tables, NEW t \in {0} \cup Tasks,
         NEW w \in Guarded \cup Plain, t = 0 => w = "prune", NEW u \in Tasks, NEW n \in Numbers
  PROVE  Effect(v, t, w).att[u][n] = AttAfter(v, t, w, u, n)
<1>1. CASE w = "prune"
  <2>1. Effect(v, t, "prune").att =
          [x \in Tasks |-> IF v.row[x].status \in Terminal /\ v.row[x].age >= Deletable
                           THEN NoAttempts ELSE v.att[x]]
    BY PruneEffect
  <2>2. Effect(v, t, "prune").att[u] =
          IF v.row[u].status \in Terminal /\ v.row[u].age >= Deletable
          THEN NoAttempts ELSE v.att[u]
    BY <2>1
  <2> QED
    BY <1>1, <2>2 DEF AttAfter, NoAttempts
<1>2. CASE w # "prune"
  <2>1. t \in Tasks
    BY <1>2
  <2>2. CASE w = "row"
    <3>1. Effect(v, t, "row").att = v.att
      BY <2>1, RowEffect
    <3> QED
      BY <2>2, <3>1 DEF AttAfter
  <2>3. CASE w = "create"
    <3>1. Effect(v, t, "create").att = v.att
      BY <2>1, CreateEffect
    <3> QED
      BY <2>3, <3>1 DEF AttAfter
  <2>4. CASE w = "delete"
    <3>1. Effect(v, t, "delete").att = [v.att EXCEPT ![t] = NoAttempts]
      BY <2>1, DeleteEffect
    <3>2. Effect(v, t, "delete").att[u] = IF u = t THEN NoAttempts ELSE v.att[u]
      BY <2>1, <3>1 DEF Tables
    <3> QED
      BY <2>4, <3>2 DEF AttAfter, NoAttempts
  <2>5. CASE w = "insert"
    <3>1. PICK m \in Numbers : m = mem[t].retries + 1
      BY <2>1, Bounds DEF TypeOK, Record
    <3>2. Effect(v, t, "insert").att = [v.att EXCEPT ![t][m] = "open"]
      BY <2>1, <3>1, InsertEffect
    <3>3. Effect(v, t, "insert").att[u][n] = IF u = t /\ n = m THEN "open" ELSE v.att[u][n]
      BY <2>1, <3>2 DEF Tables
    <3> QED
      BY <2>5, <3>1, <3>3 DEF AttAfter
  <2>6. CASE w \in {"ok", "error", "unknown"}
    <3>2. CASE mem[t].cur = 0 \/ v.att[t][mem[t].cur] = "none"
      <4>1. Effect(v, t, w) = v
        BY <2>6, <3>2, CloseNothing
      <4> QED
        BY <2>6, <3>2, <4>1, Bounds DEF AttAfter
    <3>3. CASE ~(mem[t].cur = 0 \/ v.att[t][mem[t].cur] = "none")
      <4>1. PICK m \in Numbers : m = mem[t].cur
        BY <2>1, <3>3 DEF TypeOK, Record
      <4>2. Effect(v, t, w).att[u][n] = IF u = t /\ n = m THEN w ELSE v.att[u][n]
        BY <2>1, <2>6, <3>3, <4>1, CloseOne
      <4> QED
        BY <2>6, <3>3, <4>1, <4>2 DEF AttAfter
    <3> QED
      BY <3>2, <3>3
  <2>7. CASE w \in {"lookup", "note", "event"}
    <3>1. Effect(v, t, w) = v
      BY <2>7, OtherEffect
    <3> QED
      BY <2>7, <3>1 DEF AttAfter
  <2> QED
    BY <1>2, <2>2, <2>3, <2>4, <2>5, <2>6, <2>7 DEF Guarded, Plain
<1> QED
  BY <1>1, <1>2

LEMMA UsedFacts ==
  ASSUME NEW r \in Record
  PROVE  /\ Used(r) \in Nat /\ r.retries \in Nat
         /\ Used(r) = IF r.status \in Pending THEN r.retries ELSE r.retries + 1
<1>1. r.retries \in Nat
  BY Bounds DEF Record
<1> QED
  BY <1>1 DEF Used

\* The only attempt a write can add is the one it inserts.
LEMMA CountedEffect ==
  ASSUME TypeOK, NEW v \in Tables, NEW t \in {0} \cup Tasks,
         NEW w \in Guarded \cup Plain, t = 0 => w = "prune", NEW u \in Tasks,
         NEW r \in Record, Counted(v, u, r),
         w = "insert" /\ u = t => r.status \notin Pending /\ r.retries = mem[t].retries
  PROVE  Counted(Effect(v, t, w), u, r)
<1> SUFFICES ASSUME NEW n \in Numbers, Effect(v, t, w).att[u][n] # "none"
             PROVE  n <= Used(r)
  BY DEF Counted
<1>1. AttAfter(v, t, w, u, n) # "none"
  BY EffectAtt
<1>2. CASE v.att[u][n] # "none"
  BY <1>2 DEF Counted
<1>3. CASE v.att[u][n] = "none"
  <2>1. w = "insert" /\ u = t /\ n = mem[t].retries + 1
    BY <1>1, <1>3 DEF AttAfter
  <2> QED
    BY <2>1, UsedFacts DEF Numbers
<1> QED
  BY <1>2, <1>3

LEMMA FreshEffect ==
  ASSUME TypeOK, NEW v \in Tables, TableFresh(v), NEW t \in {0} \cup Tasks,
         NEW w \in Guarded \cup Plain, t = 0 => w = "prune",
         w = "row" => Known(mem[t]) /\ Counted(v, t, mem[t]),
         w = "create" => ~Known(v.row[t]),
         w = "insert" => /\ Known(v.row[t]) /\ v.row[t].status \notin Pending
                         /\ v.row[t].retries = mem[t].retries
  PROVE  TableFresh(Effect(v, t, w))
<1> SUFFICES ASSUME NEW u \in Tasks
             PROVE  IF Known(Effect(v, t, w).row[u]) THEN Counted(Effect(v, t, w), u, Effect(v, t, w).row[u])
                    ELSE Effect(v, t, w).att[u] = NoAttempts
  BY DEF TableFresh
<1>1. PICK x \in Tables : x = Effect(v, t, w)
  BY EffectTyped
<1>2. x.row[u] = RowAfter(v, t, w, u) /\ x.row[u] \in Record
  BY <1>1, EffectRow DEF Tables
<1>3. \A n \in Numbers : x.att[u][n] = AttAfter(v, t, w, u, n)
  BY <1>1, EffectAtt
<1>4. IF Known(v.row[u]) THEN Counted(v, u, v.row[u]) ELSE v.att[u] = NoAttempts
  BY DEF TableFresh
<1>5. \A n \in Numbers : ~Known(v.row[u]) => v.att[u][n] = "none"
  BY <1>4 DEF NoAttempts
<1>6. ASSUME Known(x.row[u])
      PROVE  Counted(x, u, x.row[u])
  <2>1. CASE w = "row" /\ u = t
    BY <1>1, <1>2, <2>1, CountedEffect DEF RowAfter
  <2>2. CASE w = "create" /\ u = t
    <3>1. \A n \in Numbers : x.att[u][n] = "none"
      BY <1>3, <1>5, <2>2 DEF AttAfter
    <3> QED
      BY <3>1 DEF Counted
  <2>3. CASE ~(w \in {"row", "create"} /\ u = t)
    <3>1. /\ Known(v.row[u]) /\ v.row[u] \in Record
          /\ x.row[u].status = v.row[u].status /\ x.row[u].retries = v.row[u].retries
      <4>1. v.row[u] \in Record
        BY DEF Tables
      <4>2. CASE w = "prune"
        <5>1. x.row[u] = Kept(v.row[u]) /\ Kept(v.row[u]) # NoRecord
          BY <1>2, <1>6, <4>2, NewFacts DEF RowAfter
        <5>2. x.row[u] = v.row[u] \/ x.row[u] = [v.row[u] EXCEPT !.text = "redacted"]
          BY <5>1 DEF Kept
        <5>3. x.row[u].status = v.row[u].status /\ x.row[u].retries = v.row[u].retries
          BY <4>1, <5>2 DEF Record
        <5> QED
          BY <1>6, <4>1, <5>3 DEF Known
      <4>3. CASE w # "prune"
        <5>1. x.row[u] = v.row[u]
          BY <1>2, <1>6, <2>3, <4>3, NewFacts DEF RowAfter
        <5> QED
          BY <1>6, <4>1, <5>1
      <4> QED
        BY <4>2, <4>3
    <3>2. Counted(v, u, v.row[u])
      BY <1>4, <3>1
    <3>3. Counted(x, u, v.row[u])
      BY <1>1, <3>1, <3>2, CountedEffect
    <3>4. Used(x.row[u]) = Used(v.row[u])
      BY <3>1 DEF Used
    <3> QED
      BY <3>3, <3>4 DEF Counted
  <2> QED
    BY <2>1, <2>2, <2>3
<1>7. ASSUME ~Known(x.row[u])
      PROVE  x.att[u] = NoAttempts
  <2>1. \A n \in Numbers : x.att[u][n] = "none"
    <3>1. CASE w = "prune" /\ v.row[u].status \in Terminal /\ v.row[u].age >= Deletable
      BY <1>3, <3>1 DEF AttAfter
    <3>2. CASE w = "delete" /\ u = t
      BY <1>3, <3>2 DEF AttAfter
    <3>3. CASE ~(w = "prune" /\ v.row[u].status \in Terminal /\ v.row[u].age >= Deletable)
               /\ ~(w = "delete" /\ u = t)
      <4>1. ~Known(v.row[u]) /\ ~(w = "insert" /\ u = t)
        <5>1. CASE w = "prune"
          <6>1. x.row[u].status = v.row[u].status
            BY <1>2, <3>3, <5>1 DEF RowAfter, Kept, Tables, Record
          <6> QED
            BY <1>7, <5>1, <6>1 DEF Known
        <5>2. CASE w # "prune"
          BY <1>2, <1>7, <3>3, <5>2, NewFacts DEF RowAfter, Known
        <5> QED
          BY <5>1, <5>2
      <4>2. \A n \in Numbers : v.att[u][n] = "none"
        BY <1>5, <4>1
      <4> QED
        BY <1>3, <4>1, <4>2 DEF AttAfter
    <3> QED
      BY <3>1, <3>2, <3>3
  <2>2. x.att[u] \in [Numbers -> Outcomes]
    BY DEF Tables
  <2> QED
    BY <2>1, <2>2 DEF NoAttempts
<1> QED
  BY <1>1, <1>6, <1>7

LEMMA GoodUpdate ==
  ASSUME NEW t \in Tasks, NEW r \in Record, NEW q \in Record, Known(r), Good(t, r),
         Used(q) >= Used(r)
  PROVE  Good(t, q)
<1>1. Used(q) \in Nat /\ Used(r) \in Nat
  BY UsedFacts
<1> QED
  BY <1>1 DEF Good, Counted, Numbers

LEMMA GoodRows ==
  ASSUME TypeInv, KeyInv, FreshInv, NEW t \in Tasks
  PROVE  /\ Good(t, mem[t]) /\ Good(t, view.row[t]) /\ Good(t, Get(t)) /\ Good(t, NoRecord)
<1>1. Good(t, mem[t])
  BY DEF FreshInv
<1>2. Good(t, view.row[t])
  <2>1. Known(view.row[t]) => view.row[t] = disk.row[t]
    BY ViewFacts
  <2> QED
    BY <2>1 DEF FreshInv, TableFresh, Good
<1> QED
  BY <1>1, <1>2, NewFacts DEF Get, Good

\* The write of a record finds one in memory.
LEMMA RowKnown ==
  ASSUME TypeInv, KeyInv, Writing, Head(call.todo) = "row"
  PROVE  call.t \in Tasks /\ Known(mem[call.t])
<1>1. /\ WriteAt(call.next, "row", Tail(call.todo)) /\ call.todo # <<>>
      /\ call.next # "evict" => call.t \in Tasks
  BY WritingFacts
<1>2. call.t \in Tasks
  BY <1>1 DEF WriteAt
<1>3. CASE call.next \in WorkerLabels
  BY <1>3, WorkerReach DEF KeyInv, SlotInv
<1>4. CASE call.next \notin WorkerLabels
  <2>1. call.next \in {"stop worker", "start task", "return", "enqueue by hand"}
    BY <1>1, <1>4 DEF WriteAt, WorkerLabels
  <2>2. mem[call.t].status \in Pending \cup {"running"} \cup Terminal
    BY <1>1, <2>1 DEF KeyInv, CallInv
  <2> QED
    BY <1>2, <2>2 DEF Known, Pending, Terminal
<1> QED
  BY <1>2, <1>3, <1>4

\* What the write ahead needs of the tables it changes.
LEMMA AheadFresh ==
  ASSUME TypeInv, KeyInv, AuditInv, Writing, ~Refused(Head(call.todo), call.t)
  PROVE  LET t == call.t  w == Head(call.todo) IN
         /\ t \in {0} \cup Tasks /\ w \in Guarded \cup Plain /\ (t = 0 => w = "prune")
         /\ w = "row" => Known(mem[t]) /\ Counted(view, t, mem[t])
         /\ w = "create" => ~Known(view.row[t])
         /\ w = "insert" => /\ Known(view.row[t]) /\ view.row[t].status \notin Pending
                            /\ view.row[t].retries = mem[t].retries
                            /\ mem[t].status \notin Pending
                            /\ call.next = "execute" /\ t = at /\ Tail(call.todo) = <<>>
<1>1. PICK t, w : t = call.t /\ w = Head(call.todo)
  OBVIOUS
<1>2. /\ t \in {0} \cup Tasks /\ w \in Guarded \cup Plain /\ (t = 0 => w = "prune")
      /\ WriteAt(call.next, w, Tail(call.todo)) /\ call.todo # <<>>
  BY <1>1, WritingFacts DEF WriteAt
<1>3. w = "row" => Known(mem[t]) /\ Counted(view, t, mem[t])
  BY <1>1, RowKnown DEF AuditInv, FreshInv, Good
<1>4. ASSUME w = "create"
      PROVE  ~Known(view.row[t])
  <2>1. call.next = "created"
    BY <1>2, <1>4 DEF WriteAt
  <2> QED
    BY <1>2, <1>4, <2>1 DEF KeyInv, CallInv, HasKey
<1>5. ASSUME w = "insert"
      PROVE  /\ Known(view.row[t]) /\ view.row[t].status \notin Pending
             /\ view.row[t].retries = mem[t].retries
             /\ mem[t].status \notin Pending
             /\ call.next = "execute" /\ t = at /\ Tail(call.todo) = <<>>
  <2>1. call.next = "execute" /\ t \in Tasks /\ Tail(call.todo) = <<>>
    BY <1>2, <1>5 DEF WriteAt
  <2>2. t = at
    BY <1>1, <2>1, WorkerReach DEF WorkerLabels
  <2>3. Running(t) /\ SameRetries(t)
    BY <2>1, <2>2 DEF KeyInv, SlotInv, AuditInv, RetriesInv, Live
  <2>4. Known(view.row[t])
    BY <1>1, <1>5 DEF Refused
  <2>5. view.row[t] = disk.row[t]
    BY <2>1, <2>4, ViewFacts
  <2> QED
    BY <2>1, <2>2, <2>3, <2>4, <2>5 DEF Running, SameRetries, Pending
<1> QED
  BY <1>1, <1>2, <1>3, <1>4, <1>5

\* A write keeps the numbers in order, whether it is committed or not.
LEMMA FreshWrite ==
  ASSUME TypeInv, KeyInv, AuditInv, Writing, ~Refused(Head(call.todo), call.t)
  PROVE  /\ TableFresh(Effect(view, call.t, Head(call.todo)))
         /\ \A u \in Tasks : Known(mem[u]) =>
              Counted(Effect(view, call.t, Head(call.todo)), u, mem[u])
<1>1. PICK t, w : t = call.t /\ w = Head(call.todo)
  OBVIOUS
<1>2. /\ t \in {0} \cup Tasks /\ w \in Guarded \cup Plain /\ (t = 0 => w = "prune")
      /\ w = "row" => Known(mem[t]) /\ Counted(view, t, mem[t])
      /\ w = "create" => ~Known(view.row[t])
      /\ w = "insert" => /\ Known(view.row[t]) /\ view.row[t].status \notin Pending
                         /\ view.row[t].retries = mem[t].retries
                         /\ mem[t].status \notin Pending
  BY <1>1, AheadFresh
<1>3. TypeOK /\ view \in Tables /\ TableFresh(view)
  BY Typed DEF TypeInv, AuditInv, FreshInv
<1>4. TableFresh(Effect(view, t, w))
  BY <1>2, <1>3, FreshEffect
<1>5. ASSUME NEW u \in Tasks, Known(mem[u])
      PROVE  Counted(Effect(view, t, w), u, mem[u])
  <2>1. mem[u] \in Record /\ Counted(view, u, mem[u])
    BY <1>5, GetTyped DEF AuditInv, FreshInv, Good
  <2> QED
    BY <1>2, <1>3, <2>1, CountedEffect
<1> QED
  BY <1>1, <1>4, <1>5

\* The attempts a write leaves alone.
LEMMA AttKept ==
  ASSUME TypeInv, KeyInv, AuditInv, Writing, ~Refused(Head(call.todo), call.t),
         NEW u \in Tasks, NEW n \in Numbers
  PROVE  /\ view.att[u][n] = "none" /\ (u # call.t \/ Head(call.todo) # "insert")
              => Effect(view, call.t, Head(call.todo)).att[u][n] = "none"
         /\ /\ u # call.t \/ Head(call.todo) \notin {"insert", "delete", "ok", "error", "unknown"}
            /\ view.row[u].status \notin Terminal
            => Effect(view, call.t, Head(call.todo)).att[u][n] = view.att[u][n]
<1>1. PICK t, w : t = call.t /\ w = Head(call.todo)
  OBVIOUS
<1>2. t \in {0} \cup Tasks /\ w \in Guarded \cup Plain /\ (t = 0 => w = "prune")
  BY <1>1, AheadFresh
<1>3. Effect(view, t, w).att[u][n] = AttAfter(view, t, w, u, n)
  BY <1>2, EffectAtt, Typed DEF TypeInv
<1> QED
  BY <1>1, <1>3 DEF AttAfter

LEMMA WriteFresh ==
  ASSUME TypeInv, KeyInv, AuditInv, Write
  PROVE  FreshInv'
<1>1. mem' = mem /\ Writing
  BY DEF Write
<1>2. CASE UNCHANGED <<view, disk, open>>
  BY <1>1, <1>2 DEF AuditInv, FreshInv, TableFresh, Good, Counted
<1>3. CASE view' = Effect(view, call.t, Head(call.todo)) /\ disk' = view'
           /\ ~Refused(Head(call.todo), call.t)
  <2>1. TableFresh(view') /\ \A u \in Tasks : Known(mem[u]) => Counted(view', u, mem[u])
    BY <1>1, <1>3, FreshWrite
  <2> QED
    BY <1>1, <1>3, <2>1 DEF FreshInv, TableFresh, Good, Counted
<1> QED
  BY <1>2, <1>3, WriteTables

\* The row of a task in use is as it was, or as in memory.
LEMMA WriteInUse ==
  ASSUME TypeInv, KeyInv, Write, NEW u \in Tasks, InUse(u),
         disk.row[u].status \in Pending \cup {"running"}
  PROVE  disk'.row[u] = disk.row[u] \/ (u = call.t /\ disk'.row[u] = mem[u])
<1>1. Known(disk.row[u]) /\ disk.row[u].status \notin Terminal
  BY DEF Known, Pending, Terminal
<1>2. CASE u = call.t /\ Head(call.todo) = "row"
  BY <1>2, RowWritten
<1>3. CASE ~(u = call.t /\ Head(call.todo) = "row")
  BY <1>1, <1>3, WriteRows
<1> QED
  BY <1>2, <1>3

LEMMA WriteRetries ==
  ASSUME TypeInv, KeyInv, AuditInv, Write
  PROVE  RetriesInv'
<1>1. UNCHANGED <<mem, queued, pc, at>> /\ Writing
  BY DEF Write, slot
<1>2. /\ call'.next = call.next /\ call'.t = call.t /\ call.todo # <<>>
      /\ WriteAt(call.next, Head(call.todo), Tail(call.todo))
      /\ call.next # "evict" => call.t \in Tasks
  BY <1>1, OnFacts, WritingFacts DEF Write
<1>3. ASSUME NEW u \in Tasks, InUse(u), SameRetries(u),
             disk.row[u].status \in Pending \cup {"running"}
      PROVE  mem[u].retries = disk'.row[u].retries
  BY <1>3, WriteInUse DEF SameRetries
<1>4. ASSUME NEW u \in queued
      PROVE  mem[u].retries = disk'.row[u].retries
  <2>1. u \in Tasks /\ InUse(u) /\ SameRetries(u) /\ disk.row[u].status \in Pending
    BY Typed DEF InUse, AuditInv, RetriesInv, KeyInv, QueueInv
  <2> QED
    BY <1>3, <2>1
<1>5. ASSUME pc \notin {"none", "busy"} \/ call.next \in Live
      PROVE  mem[at].retries = disk'.row[at].retries
  <2>1. at \in Tasks
    BY <1>5, Typed, WorkerReach DEF Live, WorkerLabels
  <2>2. InUse(at) /\ SameRetries(at) /\ disk.row[at].status = "running"
    BY <1>5 DEF InUse, AuditInv, RetriesInv, KeyInv, SlotInv, Running
  <2> QED
    BY <1>3, <2>1, <2>2
<1>6. ASSUME call.next \in {"mark running", "start task"}
      PROVE  mem[call.t].retries = disk'.row[call.t].retries
  <2>1. PICK t \in Tasks : t = call.t
    BY <1>2, <1>6
  <2>2. SameRetries(t)
    BY <1>6, <2>1 DEF AuditInv, RetriesInv
  <2>3. CASE call.next = "start task"
    <3>1. Head(call.todo) = "row"
      BY <1>2, <2>3 DEF WriteAt
    <3> QED
      BY <2>1, <3>1, RowWritten
  <2>4. CASE call.next = "mark running"
    <3>1. Head(call.todo) = "event"
      BY <1>2, <2>4 DEF WriteAt
    <3>2. Known(view.row[t]) /\ disk'.row[t] = RowAfter(view, t, "event", t)
      BY <2>1, <3>1, WriteTables DEF Refused
    <3>3. disk'.row[t] = disk.row[t]
      BY <2>1, <3>2, ViewFacts DEF RowAfter
    <3> QED
      BY <2>1, <2>2, <3>3 DEF SameRetries
  <2> QED
    BY <1>6, <2>3, <2>4
<1> QED
  BY <1>1, <1>2, <1>4, <1>5, <1>6 DEF RetriesInv, SameRetries

\* No attempt appears but the one that is inserted.
LEMMA WriteNone ==
  ASSUME TypeInv, KeyInv, AuditInv, Write, NEW u \in Tasks, NEW n \in Numbers,
         view.att[u][n] = "none" /\ disk.att[u][n] = "none",
         u # call.t \/ Head(call.todo) # "insert"
  PROVE  view'.att[u][n] = "none" /\ disk'.att[u][n] = "none"
<1>1. Writing
  BY DEF Write
<1>2. CASE UNCHANGED <<view, disk, open>>
  BY <1>2
<1>3. CASE view' = Effect(view, call.t, Head(call.todo)) /\ disk' = view'
           /\ ~Refused(Head(call.todo), call.t)
  BY <1>1, <1>3, AttKept
<1> QED
  BY <1>2, <1>3, WriteTables

LEMMA WriteNext ==
  ASSUME TypeInv, KeyInv, AuditInv, Write
  PROVE  NextInv'
<1>1. UNCHANGED <<mem, queued, pc, at>> /\ Writing
  BY DEF Write, slot
<1>2. /\ call'.next = call.next /\ call'.t = call.t /\ call.todo # <<>>
      /\ call'.todo = Tail(call.todo)
      /\ WriteAt(call.next, Head(call.todo), Tail(call.todo))
      /\ call.next # "evict" => call.t \in Tasks
      /\ Head(call.todo) = "insert" => call.next = "execute" /\ Tail(call.todo) = <<>>
  BY <1>1, OnFacts, WritingFacts DEF Write, WriteAt
<1>3. ASSUME NEW u \in Tasks, NextFresh(u), Head(call.todo) # "insert"
      PROVE  NextFresh(u)'
  BY <1>1, <1>3, WriteNone DEF NextFresh
<1>4. ASSUME pc = "spawned"
      PROVE  NextFresh(at)'
  <2>1. PICK u \in Tasks : u = at
    BY <1>4, Typed
  <2>2. NextFresh(u) /\ Head(call.todo) # "insert"
    BY <1>2, <1>4, <2>1, WorkerReach DEF AuditInv, NextInv, WorkerLabels
  <2>3. NextFresh(u)'
    BY <1>3, <2>2
  <2> QED
    BY <1>1, <2>1, <2>3 DEF NextFresh
<1>5. ASSUME \/ call'.next \in {"mark running", "start task", "audit"}
             \/ call'.next = "execute" /\ call'.todo # <<>>
      PROVE  NextFresh(call.t)'
  <2>1. PICK u \in Tasks : u = call.t
    BY <1>2, <1>5
  <2>2. NextFresh(u) /\ Head(call.todo) # "insert"
    BY <1>2, <1>5, <2>1 DEF AuditInv, NextInv
  <2>3. NextFresh(u)'
    BY <1>3, <2>2
  <2> QED
    BY <1>2, <2>1, <2>3 DEF NextFresh
<1> QED
  BY <1>1, <1>4, <1>5 DEF NextInv

LEMMA WriteKeepsAudited ==
  ASSUME TypeInv, KeyInv, AuditInv, Write, NEW u \in Tasks, u = at, Running(u), Audited(u),
         u # call.t \/ Head(call.todo) \notin {"insert", "delete", "ok", "error", "unknown"}
  PROVE  Audited(u)'
<1>1. mem' = mem /\ Writing
  BY DEF Write
<1>2. PICK n \in Numbers : n = mem[u].retries + 1
  BY GetTyped, Bounds DEF Record
<1>3. /\ mem[u].cur = n /\ disk.row[u].cur = n
      /\ view.att[u][n] = "open" /\ disk.att[u][n] = "open"
  BY <1>2 DEF Audited
<1>4. InUse(u) /\ disk.row[u].status = "running" /\ view.row[u] = disk.row[u]
  BY ViewFacts DEF InUse, Running, Known
<1>5. disk'.row[u].cur = n
  BY <1>3, <1>4, WriteInUse
<1>6. view'.att[u][n] = "open" /\ disk'.att[u][n] = "open"
  <2>1. CASE UNCHANGED <<view, disk, open>>
    BY <1>3, <2>1
  <2>2. CASE view' = Effect(view, call.t, Head(call.todo)) /\ disk' = view'
             /\ ~Refused(Head(call.todo), call.t)
    <3>1. view.row[u].status \notin Terminal
      BY <1>4 DEF Terminal
    <3>2. Effect(view, call.t, Head(call.todo)).att[u][n] = view.att[u][n]
      BY <1>1, <2>2, <3>1, AttKept
    <3> QED
      BY <1>3, <2>2, <3>2
  <2> QED
    BY <2>1, <2>2, WriteTables
<1> QED
  BY <1>1, <1>2, <1>3, <1>5, <1>6 DEF Audited

LEMMA WriteAudited ==
  ASSUME TypeInv, KeyInv, AuditInv, Write
  PROVE  AuditedInv'
<1>1. UNCHANGED <<mem, queued, pc, at>> /\ Writing
  BY DEF Write, slot
<1>2. /\ call'.next = call.next /\ call'.t = call.t /\ call.todo # <<>>
      /\ call'.todo = Tail(call.todo)
      /\ WriteAt(call.next, Head(call.todo), Tail(call.todo))
      /\ call.next \in WorkerLabels => at = call.t /\ at \in Tasks
      /\ call.next \in WorkerLabels <=> pc = "busy"
  BY <1>1, OnFacts, WritingFacts, WorkerReach DEF Write, TypeInv, ShapeInv
<1>3. ASSUME call.next = "audit"
      PROVE  mem[at].cur = mem[at].retries + 1 /\ disk'.row[at].cur = mem[at].cur
  <2>1. Head(call.todo) = "row" /\ at = call.t /\ at \in Tasks
    BY <1>2, <1>3 DEF WriteAt, WorkerLabels
  <2>2. disk'.row[at] = mem[at]
    BY <2>1, RowWritten
  <2> QED
    BY <1>3, <2>2 DEF AuditInv, AuditedInv
<1>4. ASSUME call.next = "execute"
      PROVE  Audited(at)'
  <2>1. PICK u \in Tasks : u = at /\ u = call.t
    BY <1>2, <1>4 DEF WorkerLabels
  <2>2. Head(call.todo) = "insert"
    BY <1>2, <1>4 DEF WriteAt
  <2>3. PICK n \in Numbers : n = mem[u].retries + 1
    BY GetTyped, Bounds DEF Record
  <2>4. mem[u].cur = n /\ disk.row[u].cur = n
    BY <1>4, <2>1, <2>3 DEF AuditInv, AuditedInv
  <2>5. InUse(u) /\ disk.row[u].status = "running"
    BY <1>4, <2>1 DEF InUse, KeyInv, SlotInv, Running, Live
  <2>6. disk'.row[u].cur = n
    BY <2>4, <2>5, WriteInUse
  <2>7. view' = Effect(view, u, "insert") /\ disk' = view'
    BY <2>1, <2>2, WriteTables
  <2>8. Effect(view, u, "insert").att[u][n] = AttAfter(view, u, "insert", u, n)
    BY EffectAtt, Typed, Bounds DEF TypeInv, Plain
  <2>9. view'.att[u][n] = "open"
    BY <2>3, <2>7, <2>8 DEF AttAfter
  <2> QED
    BY <1>1, <2>1, <2>3, <2>4, <2>6, <2>7, <2>9 DEF Audited
<1>5. ASSUME call.next \in {"send", "recorded", "valid"} \/ pc \in {"sending", "generating"}
      PROVE  Audited(at)'
  <2>1. PICK u \in Tasks : u = at
    BY <1>2, <1>5, Typed DEF WorkerLabels
  <2>2. Running(u) /\ Audited(u)
    BY <1>5, <2>1 DEF KeyInv, SlotInv, AuditInv, AuditedInv, Live
  <2>3. u # call.t \/ Head(call.todo) \notin {"insert", "delete", "ok", "error", "unknown"}
    <3>1. CASE call.next \in WorkerLabels
      BY <1>2, <1>5, <3>1 DEF WriteAt
    <3>2. CASE call.next \notin WorkerLabels /\ call.next # "enqueue by hand"
      BY <1>2, <2>1, <3>2 DEF WriteAt, WorkerLabels, KeyInv, CallInv
    <3>3. CASE call.next = "enqueue by hand"
      BY <2>1, <3>3 DEF KeyInv, CallInv
    <3> QED
      BY <3>1, <3>2, <3>3
  <2>4. Audited(u)'
    BY <2>1, <2>2, <2>3, WriteKeepsAudited
  <2> QED
    BY <1>1, <2>1, <2>4 DEF Audited
<1>6. call'.next = "execute" => mem'[at'].cur = mem'[at'].retries + 1 /\ disk'.row[at'].cur = mem'[at'].cur
  BY <1>1, <1>2, <1>4 DEF Audited
<1>7. call'.next = "audit" => mem'[at'].cur = mem'[at'].retries + 1 /\ disk'.row[at'].cur = mem'[at'].cur
  BY <1>1, <1>2, <1>3
<1>8. \/ call'.next = "execute" /\ call'.todo = <<>>
      \/ call'.next \in {"send", "recorded", "valid"}
      \/ pc' \in {"sending", "generating"}
      => Audited(at)'
  BY <1>1, <1>2, <1>4, <1>5
<1> QED
  BY <1>6, <1>7, <1>8 DEF AuditedInv

\* A write that raises, whatever it leaves in the open transaction.
LEMMA RaiseAudit ==
  ASSUME TypeInv, KeyInv, AuditInv, RaiseGuarded \/ RaisePlain
  PROVE  AuditInv'
<1>1. Writing /\ Raised /\ UNCHANGED <<mem, disk, queued, pc, at>>
  BY DEF RaiseGuarded, RaisePlain, slot
<1>2. /\ call'.t = call.t /\ call'.next = call.fail /\ call'.todo = <<>>
      /\ call.todo # <<>> /\ call.fail \in Fails(call.next) /\ call.next \in Labels \ {"idle"}
      /\ WriteAt(call.next, Head(call.todo), Tail(call.todo))
      /\ call.next \in WorkerLabels <=> pc = "busy"
  BY <1>1, RaisedFacts, WritingFacts DEF TypeInv, ShapeInv
<1>3. /\ call.fail \notin {"audit", "execute", "send", "recorded", "valid", "mark running", "start task"}
      /\ call.fail \in Live => call.next \in Live
  BY <1>2 DEF Fails, Labels, Live, WriteAt
<1>4. \/ view' = disk \/ view' = view
      \/ /\ view' = Effect(view, call.t, Head(call.todo))
         /\ ~Refused(Head(call.todo), call.t) /\ Head(call.todo) \in Plain
  BY DEF RaiseGuarded, RaisePlain
<1>5. FreshInv'
  <2>1. TableFresh(view') /\ \A u \in Tasks : Known(mem[u]) => Counted(view', u, mem[u])
    <3>1. CASE view' = disk \/ view' = view
      BY <3>1 DEF AuditInv, FreshInv, TableFresh, Good, Counted
    <3>2. CASE view' = Effect(view, call.t, Head(call.todo)) /\ ~Refused(Head(call.todo), call.t)
      BY <1>1, <3>2, FreshWrite
    <3> QED
      BY <1>4, <3>1, <3>2
  <2> QED
    BY <1>1, <2>1 DEF AuditInv, FreshInv, TableFresh, Good, Counted
<1>6. RetriesInv'
  BY <1>1, <1>2, <1>3 DEF AuditInv, RetriesInv, SameRetries
<1>7. NextInv'
  <2>1. ASSUME pc = "spawned"
        PROVE  NextFresh(at)'
    <3>1. PICK u \in Tasks : u = at
      BY <2>1, Typed
    <3>2. NextFresh(u) /\ Head(call.todo) # "insert"
      BY <1>2, <2>1, <3>1 DEF AuditInv, NextInv, WriteAt, WorkerLabels
    <3>3. \A n \in Numbers : n > mem[u].retries => view'.att[u][n] = "none"
      <4>1. CASE view' = disk \/ view' = view
        BY <3>2, <4>1 DEF NextFresh
      <4>2. CASE view' = Effect(view, call.t, Head(call.todo)) /\ ~Refused(Head(call.todo), call.t)
        BY <1>1, <3>2, <4>2, AttKept DEF NextFresh
      <4> QED
        BY <1>4, <4>1, <4>2
    <3> QED
      BY <1>1, <3>1, <3>2, <3>3 DEF NextFresh
  <2> QED
    BY <1>1, <1>2, <1>3, <2>1 DEF NextInv
<1>8. AuditedInv'
  <2>1. ASSUME pc \in {"sending", "generating"}
        PROVE  Audited(at)'
    <3>1. PICK u \in Tasks : u = at
      BY <2>1, Typed
    <3>2. PICK n \in Numbers : n = mem[u].retries + 1
      BY GetTyped, Bounds DEF Record
    <3>3. Running(u) /\ Audited(u)
      BY <2>1, <3>1 DEF KeyInv, SlotInv, AuditInv, AuditedInv
    <3>4. view'.att[u][n] = "open"
      <4>1. CASE view' = disk \/ view' = view
        BY <3>2, <3>3, <4>1 DEF Audited
      <4>2. CASE view' = Effect(view, call.t, Head(call.todo)) /\ ~Refused(Head(call.todo), call.t)
        <5>1. u # call.t \/ Head(call.todo) \notin {"insert", "delete", "ok", "error", "unknown"}
          <6>1. CASE call.next # "enqueue by hand"
            BY <1>2, <2>1, <3>1, <6>1 DEF WriteAt, WorkerLabels, KeyInv, CallInv
          <6>2. CASE call.next = "enqueue by hand"
            BY <3>1, <6>2 DEF KeyInv, CallInv
          <6> QED
            BY <6>1, <6>2
        <5>2. view.row[u].status \notin Terminal
          BY <3>1, <3>3, ViewFacts DEF InUse, Running, Terminal
        <5>3. Effect(view, call.t, Head(call.todo)).att[u][n] = view.att[u][n]
          BY <1>1, <4>2, <5>1, <5>2, AttKept
        <5> QED
          BY <3>2, <3>3, <4>2, <5>3 DEF Audited
      <4> QED
        BY <1>4, <4>1, <4>2
    <3> QED
      BY <1>1, <3>1, <3>2, <3>3, <3>4 DEF Audited
  <2> QED
    BY <1>1, <1>2, <1>3, <2>1 DEF AuditedInv
<1> QED
  BY <1>5, <1>6, <1>7, <1>8 DEF AuditInv

LEMMA OtherAudit ==
  ASSUME TypeInv, KeyInv, AuditInv, OtherTaskWrites
  PROVE  AuditInv'
<1>1. /\ UNCHANGED <<mem, queued, pc, at, call>> /\ Idle
      /\ (disk' = view /\ view' = view) \/ (view' = disk /\ disk' = disk)
  BY DEF OtherTaskWrites, slot
<1>2. pc # "busy" /\ call.next = "idle"
  BY <1>1, IdleFacts
<1>3. FreshInv'
  BY <1>1 DEF AuditInv, FreshInv, TableFresh, Good, Counted
<1>4. \A u \in Tasks : InUse(u) => disk'.row[u] = disk.row[u]
  BY <1>1, ViewFacts
<1>5. RetriesInv'
  <2>1. \A u \in queued : u \in Tasks /\ InUse(u)
    BY Typed DEF InUse
  <2>2. pc \notin {"none", "busy"} => at \in Tasks /\ InUse(at)
    BY Typed DEF InUse
  <2> QED
    BY <1>1, <1>2, <1>4, <2>1, <2>2 DEF AuditInv, RetriesInv, SameRetries, Live
<1>6. NextInv'
  BY <1>1, <1>2 DEF AuditInv, NextInv, NextFresh
<1>7. AuditedInv'
  <2>1. ASSUME pc \in {"sending", "generating"}
        PROVE  Audited(at)'
    <3>1. PICK u \in Tasks : u = at /\ InUse(u)
      BY <2>1, Typed DEF InUse
    <3>2. Audited(u) /\ disk'.row[u] = disk.row[u]
      BY <1>4, <2>1, <3>1 DEF AuditInv, AuditedInv
    <3> QED
      BY <1>1, <3>1, <3>2 DEF Audited
  <2> QED
    BY <1>1, <1>2, <2>1 DEF AuditedInv
<1> QED
  BY <1>3, <1>5, <1>6, <1>7 DEF AuditInv

LEMMA TransactionAudit ==
  ASSUME TypeInv, KeyInv, AuditInv, Transaction
  PROVE  AuditInv'
<1>1. CASE Write
  BY <1>1, WriteFresh, WriteRetries, WriteNext, WriteAudited DEF AuditInv
<1> QED
  BY <1>1, RaiseAudit, OtherAudit DEF Transaction

-----------------------------------------------------------------------------
(* Audited attempts: the steps that leave the tables alone.                *)

\* Outside the worker: who is at the worker or stays in the queue keeps its
\* numbers, and the records in memory count every attempt.
LEMMA PlainAudit ==
  ASSUME TypeInv, KeyInv, AuditInv, pc # "busy", UNCHANGED <<view, disk, pc, at>>,
         call'.next \notin Live,
         \A t \in Tasks : Good(t, mem'[t]),
         \A t \in Tasks : t = at =>
           /\ mem'[t].retries = mem[t].retries
           /\ pc \in {"sending", "generating"} => mem'[t].cur = mem[t].cur,
         \A t \in queued' : mem'[t].retries = disk.row[t].retries,
         call'.next \in {"mark running", "start task"} =>
           /\ call'.t \in Tasks /\ mem'[call'.t].retries = disk.row[call'.t].retries
           /\ \A n \in Numbers : n > mem'[call'.t].retries =>
                view.att[call'.t][n] = "none" /\ disk.att[call'.t][n] = "none"
  PROVE  AuditInv'
<1>1. call'.next \notin {"audit", "execute", "send", "recorded", "valid"}
  BY DEF Live
<1>2. FreshInv'
  BY DEF AuditInv, FreshInv, TableFresh, Good, Counted
<1>3. pc # "none" => at \in Tasks
  BY Typed
<1>4. RetriesInv'
  BY <1>3 DEF AuditInv, RetriesInv, SameRetries
<1>5. NextInv'
  <2>1. pc = "spawned" => NextFresh(at)'
    BY <1>3 DEF AuditInv, NextInv, NextFresh
  <2>2. call'.next \in {"mark running", "start task"} => NextFresh(call.t)'
    BY DEF NextFresh
  <2> QED
    BY <1>1, <2>1, <2>2 DEF NextInv
<1>6. AuditedInv'
  <2>1. pc \in {"sending", "generating"} => Audited(at)'
    BY <1>3 DEF AuditInv, AuditedInv, Audited
  <2> QED
    BY <1>1, <2>1 DEF AuditedInv
<1> QED
  BY <1>2, <1>4, <1>5, <1>6 DEF AuditInv

\* Records a task may have next.
LEMMA GoodNext ==
  ASSUME TypeInv, KeyInv, AuditInv, NEW t \in Tasks
  PROVE  /\ Good(t, mem[t]) /\ Good(t, view.row[t]) /\ Good(t, NoRecord)
         /\ Known(Get(t)) => Good(t, [Get(t) EXCEPT !.cancel = TRUE])
         /\ \A s \in Terminal : /\ Known(mem[t]) => Good(t, Finished(mem[t], s))
                                /\ Known(view.row[t]) => Good(t, Finished(view.row[t], s))
         /\ \A s \in Pending : /\ Known(Get(t)) /\ Get(t).retries < RetryBound
                                    => Good(t, Retried(Get(t), s))
                               /\ Known(mem[t]) /\ mem[t].retries < RetryBound
                                    => Good(t, Retried(mem[t], s))
<1>1. /\ Good(t, mem[t]) /\ Good(t, view.row[t]) /\ Good(t, Get(t)) /\ Good(t, NoRecord)
  BY GoodRows DEF AuditInv
<1>2. mem[t] \in Record /\ view.row[t] \in Record /\ Get(t) \in Record
  BY GetTyped
<1>3. ASSUME NEW r \in Record, Known(r), Good(t, r)
      PROVE  Good(t, [r EXCEPT !.cancel = TRUE])
  <2>1. PICK q \in Record : /\ q = [r EXCEPT !.cancel = TRUE]
                            /\ q.status = r.status /\ q.retries = r.retries
    BY UpdateFacts
  <2>2. Used(q) = Used(r)
    BY <2>1 DEF Used
  <2> QED
    BY <1>3, <2>1, <2>2, UsedFacts, GoodUpdate
<1>4. ASSUME NEW r \in Record, Known(r), Good(t, r), NEW s \in Terminal
      PROVE  Good(t, Finished(r, s))
  <2>1. PICK q \in Record : q = Finished(r, s) /\ q.status = s /\ q.retries = r.retries
    BY FinishedFacts
  <2>2. Used(q) >= Used(r)
    BY <2>1, UsedFacts DEF Pending, Terminal
  <2> QED
    BY <1>4, <2>1, <2>2, GoodUpdate
<1>5. ASSUME NEW r \in Record, Known(r), Good(t, r), NEW s \in Pending,
             r.retries < RetryBound
      PROVE  Good(t, Retried(r, s))
  <2>1. PICK q \in Record : q = Retried(r, s) /\ q.status = s /\ q.retries = r.retries + 1
    BY <1>5, RetriedFacts
  <2>2. Used(q) >= Used(r)
    BY <1>5, <2>1, UsedFacts
  <2> QED
    BY <1>5, <2>1, <2>2, GoodUpdate
<1> QED
  BY <1>1, <1>2, <1>3, <1>4, <1>5

\* A step that changes the record of t and starts no work.
LEMMA PlainChange ==
  ASSUME TypeInv, KeyInv, AuditInv, pc # "busy", UNCHANGED <<view, disk, pc, at>>,
         call'.next \notin Live \cup {"mark running", "start task"},
         NEW t \in Tasks, \A u \in Tasks : u # t => mem'[u] = mem[u],
         Good(t, mem'[t]), queued' \subseteq queued \cup {t},
         t \in queued' => mem'[t].retries = disk.row[t].retries,
         t = at => /\ mem'[t].retries = mem[t].retries
                   /\ pc \in {"sending", "generating"} => mem'[t].cur = mem[t].cur
  PROVE  AuditInv'
<1>1. \A u \in Tasks : Good(u, mem'[u])
  BY GoodNext
<1>2. \A u \in Tasks : u = at =>
           /\ mem'[u].retries = mem[u].retries
           /\ pc \in {"sending", "generating"} => mem'[u].cur = mem[u].cur
  OBVIOUS
<1>3. \A u \in queued' : mem'[u].retries = disk.row[u].retries
  <2>1. \A u \in queued : u \in Tasks /\ mem[u].retries = disk.row[u].retries
    BY Typed DEF AuditInv, RetriesInv, SameRetries
  <2> QED
    BY <2>1
<1>4. call'.next \notin Live /\ call'.next \notin {"mark running", "start task"}
  OBVIOUS
<1> QED
  BY <1>1, <1>2, <1>3, <1>4, PlainAudit

LEMMA HttpAudit ==
  ASSUME TypeInv, KeyInv, AuditInv, Http
  PROVE  AuditInv'
<1>1. ASSUME NEW t \in Tasks, Submit(t)
      PROVE  AuditInv'
  <2>1. pc # "busy" /\ UNCHANGED <<mem, queued, pc, at, view, disk>>
    BY <1>1, IdleFacts DEF Submit, slot, tables
  <2>2. call'.next \in {"reuse", "created"}
    BY <1>1, RunCall DEF Submit
  <2>3. Good(t, mem[t]) /\ (t \in queued => mem[t].retries = disk.row[t].retries)
    BY GoodNext DEF AuditInv, RetriesInv, SameRetries
  <2> QED
    BY <2>1, <2>2, <2>3, PlainChange DEF Live
<1>2. ASSUME NEW t \in Tasks, Cancel(t)
      PROVE  AuditInv'
  <2>1. pc # "busy" /\ UNCHANGED <<queued, pc, at, view, disk>>
    BY <1>2, IdleFacts DEF Cancel, slot, tables
  <2>2. /\ call'.next = "stop worker"
        /\ mem' = [mem EXCEPT ![t] = [Get(t) EXCEPT !.cancel = TRUE]]
        /\ Known(Get(t))
    BY <1>2, RunCall DEF Cancel, SetMem, Known, Pending
  <2>3. /\ mem'[t].retries = Get(t).retries /\ mem'[t].cur = Get(t).cur
        /\ Good(t, mem'[t])
        /\ Known(mem[t]) => Get(t) = mem[t]
        /\ \A u \in Tasks : u # t => mem'[u] = mem[u]
    <3>1. PICK r \in Record : r = Get(t)
      BY GetTyped
    <3>2. [r EXCEPT !.cancel = TRUE].retries = r.retries /\ [r EXCEPT !.cancel = TRUE].cur = r.cur
      BY UpdateFacts
    <3>3. mem' = [mem EXCEPT ![t] = [r EXCEPT !.cancel = TRUE]]
      BY <2>2, <3>1
    <3>4. Good(t, [r EXCEPT !.cancel = TRUE])
      BY <2>2, <3>1, GoodNext
    <3>5. Known(mem[t]) => r = mem[t]
      BY <3>1 DEF Get
    <3> QED
      BY <3>1, <3>2, <3>3, <3>4, <3>5, Typed
  <2>4. t \in queued \/ t = at => Known(mem[t])
    BY <2>1, SlotFacts DEF Known
  <2>5. t \in queued => mem'[t].retries = disk.row[t].retries
    BY <2>3, <2>4 DEF AuditInv, RetriesInv, SameRetries
  <2> QED
    BY <2>1, <2>2, <2>3, <2>4, <2>5, PlainChange DEF Live
<1>3. ASSUME NEW t \in Tasks, ManualRetry(t)
      PROVE  AuditInv'
  <2>1. pc # "busy" /\ UNCHANGED <<queued, pc, at, view, disk>>
    BY <1>3, IdleFacts DEF ManualRetry, slot, tables
  <2>2. /\ call'.next = "enqueue by hand"
        /\ mem' = [mem EXCEPT ![t] = Retried(Get(t), "queued")]
        /\ Get(t).status \in Terminal /\ Get(t).retries < RetryBound
    BY <1>3, RunCall DEF ManualRetry, SetMem
  <2>3. Good(t, mem'[t]) /\ \A u \in Tasks : u # t => mem'[u] = mem[u]
    <3>1. Get(t).status \notin Pending /\ Known(Get(t)) /\ "queued" \in Pending
      BY <2>2 DEF Pending, Terminal, Known
    <3>2. Good(t, Retried(Get(t), "queued"))
      BY <2>2, <3>1, GoodNext
    <3> QED
      BY <2>2, <3>2, Typed
  <2>4. t \notin queued /\ t # at
    BY <2>1, <2>2, SlotFacts DEF Get, Known, Pending, Terminal
  <2> QED
    BY <2>1, <2>2, <2>3, <2>4, PlainChange DEF Live
<1>4. CASE Reuse \/ Discarded
  <2>1. PICK t \in Tasks : t = call.t
    BY <1>4, PlainReach DEF Reuse, Discarded, Reaches, PlainLabels
  <2>2. /\ pc # "busy" /\ UNCHANGED <<queued, pc, at, view, disk>>
        /\ call'.next = "idle"
    BY <1>4, PlainReach, IdleCall DEF Reuse, Discarded, Reaches, PlainLabels, slot, tables
  <2>3. /\ \A u \in Tasks : u # t => mem'[u] = mem[u]
        /\ mem'[t] = view.row[t] \/ (mem'[t] = NoRecord /\ ~InUse(t))
    BY <1>4, <2>1, Typed DEF Reuse, Discarded, SetMem, Reaches, KeyInv, CallInv, InUse
  <2>4. Good(t, mem'[t])
    BY <2>3, GoodNext
  <2>5. InUse(t) => mem'[t] = disk.row[t]
    BY <2>2, <2>3, SlotFacts DEF InUse
  <2>6. t = at => /\ mem[t].retries = disk.row[t].retries
                  /\ pc \in {"sending", "generating"} => mem[t].cur = disk.row[t].cur
    BY <2>2, Typed, Bounds DEF AuditInv, RetriesInv, SameRetries, AuditedInv, Audited
  <2> QED
    BY <2>2, <2>3, <2>4, <2>5, <2>6, PlainChange DEF Live, InUse
<1>5. CASE StopWorker \/ Returned
  <2>1. /\ pc # "busy" /\ UNCHANGED <<mem, queued, pc, at, view, disk>>
        /\ call'.next = "idle"
    BY <1>5, PlainReach, IdleCall DEF StopWorker, Returned, Reaches, PlainLabels, slot, tables
  <2>2. PICK t \in Tasks : t = call.t
    BY <1>5, PlainReach DEF StopWorker, Returned, Reaches, PlainLabels
  <2>3. Good(t, mem[t]) /\ (t \in queued => mem[t].retries = disk.row[t].retries)
    BY GoodNext DEF AuditInv, RetriesInv, SameRetries
  <2> QED
    BY <2>1, <2>2, <2>3, PlainChange DEF Live
<1>6. CASE Created
  <2>1. PICK t \in Tasks : t = call.t
    BY <1>6, PlainReach DEF Created, Reaches, PlainLabels
  <2>2. /\ UNCHANGED <<pc, at, view, disk>>
        /\ ~open /\ view.row[t] = NewRecord /\ queued = {} /\ pc = "none" /\ at = 0
    BY <1>6, <2>1, Typed DEF Created, Reaches, slot, tables, KeyInv, CallInv
  <2>3. mem'[t] = view.row[t] /\ disk.row[t] = view.row[t] /\ \A u \in Tasks : u # t => mem'[u] = mem[u]
    BY <1>6, <2>1, <2>2, Typed DEF Created, SetMem, KeyInv, ViewInv
  <2>4. queued' \subseteq queued \cup {t} /\ call'.next \in {"idle", "discarded"}
    BY <1>6, <2>1, <2>2, IdleCall, RunCall DEF Created, Enqueue, QueueFull
  <2>5. Good(t, mem'[t])
    BY <2>3, GoodNext
  <2> QED
    BY <2>2, <2>3, <2>4, <2>5, PlainChange, Bounds DEF Live
<1>7. CASE EnqueueByHand
  <2>1. PICK t \in Tasks : t = call.t
    BY <1>7, PlainReach DEF EnqueueByHand, Reaches, PlainLabels
  <2>2. /\ pc # "busy" /\ UNCHANGED <<pc, at, view, disk>>
    BY <1>7, PlainReach DEF EnqueueByHand, Reaches, PlainLabels, slot, tables
  <2>3. /\ t \notin queued /\ t # at /\ mem[t].status \in Pending /\ disk.row[t] = mem[t]
    BY <1>7, <2>1 DEF EnqueueByHand, Reaches, KeyInv, CallInv
  <2>4. /\ call'.next = "return"
        /\ \/ mem' = mem /\ queued' = queued \cup {t}
           \/ queued' = queued /\ mem' = [mem EXCEPT ![t] = Finished(mem[t], "failed")]
    BY <1>7, <2>1, RunCall DEF EnqueueByHand, Requeue, Enqueue, QueueFull, SetMem
  <2>5. /\ \A u \in Tasks : u # t => mem'[u] = mem[u]
        /\ Good(t, mem'[t])
        /\ t \in queued' => mem'[t] = mem[t]
    <3>1. Good(t, mem[t]) /\ Good(t, Finished(mem[t], "failed"))
      BY <2>3, GoodNext DEF Known, Pending, Terminal
    <3> QED
      BY <2>3, <2>4, <3>1, Typed
  <2>6. queued' \subseteq queued \cup {t}
    BY <2>4
  <2> QED
    BY <2>2, <2>3, <2>4, <2>5, <2>6, PlainChange DEF Live
<1> QED
  BY <1>1, <1>2, <1>3, <1>4, <1>5, <1>6, <1>7 DEF Http

LEMMA DispatcherAudit ==
  ASSUME TypeInv, KeyInv, AuditInv, Dispatcher
  PROVE  AuditInv'
<1>1. ASSUME NEW t \in Tasks, DropCancelled(t) \/ DropExpired(t)
      PROVE  AuditInv'
  <2>1. pc # "busy" /\ UNCHANGED <<pc, at, view, disk>> /\ queued' = queued \ {t}
    BY <1>1, IdleFacts DEF DropCancelled, DropExpired, Dispatching, slot, tables
  <2>2. call'.next = "return"
    BY <1>1, RunCall DEF DropCancelled, DropExpired
  <2>3. \/ t \in queued /\ \E s \in Terminal : mem' = [mem EXCEPT ![t] = Finished(mem[t], s)]
        \/ view.row[t].status \in Pending
             /\ \E s \in Terminal : mem' = [mem EXCEPT ![t] = Finished(view.row[t], s)]
    BY <1>1 DEF DropCancelled, DropExpired, SetMem, Terminal
  <2>4. t # at
    BY <2>1, <2>3, SlotFacts DEF Pending
  <2>5. Good(t, mem'[t]) /\ \A u \in Tasks : u # t => mem'[u] = mem[u]
    <3>1. \/ Known(mem[t]) /\ \E s \in Terminal : mem' = [mem EXCEPT ![t] = Finished(mem[t], s)]
          \/ Known(view.row[t]) /\ \E s \in Terminal : mem' = [mem EXCEPT ![t] = Finished(view.row[t], s)]
      BY <2>1, <2>3, SlotFacts DEF Known, Pending
    <3>2. \E r : mem' = [mem EXCEPT ![t] = r] /\ Good(t, r)
      BY <3>1, GoodNext
    <3> QED
      BY <3>2, Typed
  <2> QED
    BY <2>1, <2>2, <2>4, <2>5, PlainChange DEF Live
<1>2. ASSUME NEW t \in Tasks, Claim(t)
      PROVE  AuditInv'
  <2>1. /\ pc = "none" /\ UNCHANGED <<mem, pc, at, view, disk>>
        /\ queued' \subseteq queued /\ t \in queued
    BY <1>2 DEF Claim, slot, tables
  <2>2. call'.t = t /\ call'.next = "mark running"
    BY <1>2, RunCall DEF Claim
  <2>3. \A u \in Tasks : Good(u, mem[u])
    BY GoodNext
  <2>4. \A u \in queued : mem[u].retries = disk.row[u].retries
    BY DEF AuditInv, RetriesInv, SameRetries
  <2>5. \A n \in Numbers : n > mem[t].retries => view.att[t][n] = "none" /\ disk.att[t][n] = "none"
    <3>1. Known(mem[t]) /\ mem[t].status \in Pending /\ mem[t] \in Record
      BY <2>1, SlotFacts, GetTyped
    <3>2. Used(mem[t]) = mem[t].retries /\ mem[t].retries \in Nat
      BY <3>1, UsedFacts
    <3>3. Good(t, mem[t])
      BY GoodNext
    <3> QED
      BY <3>1, <3>2, <3>3 DEF Good, Counted, Numbers
  <2> QED
    BY <2>1, <2>2, <2>3, <2>4, <2>5, PlainAudit DEF Live
<1>3. CASE MarkRunning
  <2>1. PICK t \in Tasks : t = call.t
    BY <1>3, PlainReach DEF MarkRunning, Reaches, PlainLabels
  <2>2. /\ pc = "none" /\ at = 0 /\ t \notin queued /\ mem[t].status \in Pending
        /\ UNCHANGED <<queued, pc, at, view, disk>>
        /\ mem[t].retries = disk.row[t].retries /\ NextFresh(t)
    BY <1>3, <2>1, Typed
    DEF MarkRunning, Reaches, KeyInv, CallInv, slot, tables, AuditInv, RetriesInv, SameRetries, NextInv
  <2>3. /\ call'.t = t /\ call'.next = "start task"
        /\ mem' = [mem EXCEPT ![t] = [mem[t] EXCEPT !.status = "running"]]
    BY <1>3, <2>1, RunCall DEF MarkRunning, SetMem
  <2>4. PICK q \in Record : /\ q = [mem[t] EXCEPT !.status = "running"]
                            /\ q.status = "running" /\ q.retries = mem[t].retries
    BY GetTyped, UpdateFacts
  <2>5. Good(t, q)
    <3>1. mem[t] \in Record /\ Known(mem[t]) /\ Good(t, mem[t])
      BY <2>2, GetTyped, GoodNext DEF Known, Pending
    <3>2. Used(mem[t]) = mem[t].retries /\ mem[t].retries \in Nat
      BY <2>2, <3>1, UsedFacts
    <3>3. Used(q) = q.retries + 1
      BY <2>4, UsedFacts DEF Pending
    <3>4. Used(q) >= Used(mem[t])
      BY <2>4, <3>2, <3>3
    <3> QED
      BY <3>1, <3>4, GoodUpdate
  <2>6. mem'[t] = q /\ \A u \in Tasks : u # t => mem'[u] = mem[u]
    BY <2>3, <2>4, Typed
  <2>7. \A u \in Tasks : Good(u, mem'[u])
    BY <2>5, <2>6, GoodNext
  <2>8. \A u \in queued : mem'[u].retries = disk.row[u].retries
    BY <2>2, <2>6, Typed DEF AuditInv, RetriesInv, SameRetries
  <2>9. \A n \in Numbers : n > mem'[t].retries => view.att[t][n] = "none" /\ disk.att[t][n] = "none"
    BY <2>2, <2>4, <2>6 DEF NextFresh
  <2>10. \A u \in Tasks : u # at
    BY <2>2, Bounds
  <2> QED
    BY <2>2, <2>3, <2>4, <2>6, <2>7, <2>8, <2>9, <2>10, PlainAudit DEF Live
<1>4. CASE StartTask
  <2>1. PICK t \in Tasks : t = call.t
    BY <1>4, PlainReach DEF StartTask, Reaches, PlainLabels
  <2>2. /\ UNCHANGED <<mem, queued, view, disk>> /\ pc' = "spawned" /\ at' = t /\ call'.next = "idle"
    BY <1>4, <2>1, IdleCall DEF StartTask, tables
  <2>3. SameRetries(t) /\ NextFresh(t)
    BY <1>4, <2>1 DEF StartTask, Reaches, AuditInv, RetriesInv, NextInv
  <2>4. FreshInv'
    BY <2>2 DEF AuditInv, FreshInv, TableFresh, Good, Counted
  <2>5. RetriesInv'
    BY <2>2, <2>3 DEF AuditInv, RetriesInv, SameRetries, Live
  <2>6. NextInv'
    BY <2>2, <2>3 DEF NextInv, NextFresh
  <2>7. AuditedInv'
    BY <2>2 DEF AuditedInv
  <2> QED
    BY <2>4, <2>5, <2>6, <2>7 DEF AuditInv
<1>5. CASE DispatcherDies
  <2>1. /\ UNCHANGED <<mem, queued, pc, at, view, disk>> /\ call'.next = "idle" /\ pc # "busy"
    BY <1>5, PlainReach, IdleCall DEF DispatcherDies, Reaches, slot, tables
  <2>2. PICK t \in Tasks : t = call.t
    BY <1>5, PlainReach DEF DispatcherDies, Reaches
  <2>3. Good(t, mem[t]) /\ (t \in queued => mem[t].retries = disk.row[t].retries)
    BY GoodNext DEF AuditInv, RetriesInv, SameRetries
  <2> QED
    BY <2>1, <2>2, <2>3, PlainChange DEF Live
<1>6. CASE RecoverPending
  <2>1. /\ UNCHANGED <<pc, at, view, disk>> /\ call'.next = "idle" /\ pc # "busy"
    BY <1>6, IdleFacts DEF RecoverPending, Dispatching, slot, tables
  <2>2. /\ \A t \in Tasks : mem'[t] = IF view.row[t].status \in Pending THEN view.row[t] ELSE mem[t]
        /\ \A t \in queued' : t \in queued \/ (t \in Tasks /\ view.row[t].status \in Pending)
    BY <1>6 DEF RecoverPending
  <2>3. \A t \in Tasks : Good(t, mem'[t])
    BY <2>2, GoodNext
  <2>4. \A t \in Tasks : view.row[t].status \in Pending => view.row[t] = disk.row[t]
    BY ViewFacts DEF Known, Pending
  <2>5. \A t \in Tasks : t = at => mem'[t] = mem[t]
    BY <2>1, <2>2, SlotFacts DEF Pending
  <2>6. \A t \in queued' : mem'[t].retries = disk.row[t].retries
    BY <2>2, <2>4, Typed DEF AuditInv, RetriesInv, SameRetries
  <2> QED
    BY <2>1, <2>3, <2>5, <2>6, PlainAudit DEF Live
<1> QED
  BY <1>1, <1>2, <1>3, <1>4, <1>5, <1>6 DEF Dispatcher

LEMMA RetentionAudit ==
  ASSUME TypeInv, KeyInv, AuditInv, Retention
  PROVE  AuditInv'
<1>1. CASE Tick
  <2>1. /\ pc' = "none" /\ queued' = {} /\ call'.next = "idle"
    BY <1>1, IdleFacts DEF Tick, slot
  <2>2. /\ mem' = [t \in Tasks |-> Older(mem[t])]
        /\ view' = [view EXCEPT !.row = [t \in Tasks |-> Older(view.row[t])]]
        /\ disk' = [disk EXCEPT !.row = [t \in Tasks |-> Older(disk.row[t])]]
    BY <1>1 DEF Tick
  <2>3. /\ \A t \in Tasks : /\ mem'[t] = Older(mem[t])
                            /\ view'.row[t] = Older(view.row[t]) /\ disk'.row[t] = Older(disk.row[t])
        /\ view'.att = view.att /\ disk'.att = disk.att
    BY <2>2, Typed DEF Tables
  <2>4. \A r \in Record : (Known(Older(r)) <=> Known(r)) /\ Used(Older(r)) = Used(r)
    BY OlderFacts DEF Known, Used
  <2>5. FreshInv'
    <3>1. TableFresh(view)' /\ TableFresh(disk)'
      BY <2>3, <2>4, GetTyped DEF AuditInv, FreshInv, TableFresh, Counted
    <3>2. \A t \in Tasks : Good(t, mem[t])'
      BY <2>3, <2>4, GetTyped DEF AuditInv, FreshInv, Good, Counted
    <3> QED
      BY <3>1, <3>2 DEF FreshInv
  <2>6. RetriesInv' /\ NextInv' /\ AuditedInv'
    BY <2>1 DEF RetriesInv, NextInv, AuditedInv, Live
  <2> QED
    BY <2>5, <2>6 DEF AuditInv
<1>2. CASE Sweep \/ JanitorDies
  <2>1. /\ UNCHANGED <<mem, queued, pc, at, view, disk>> /\ call'.next \in {"evict", "idle"}
        /\ pc # "busy"
    BY <1>2, IdleFacts, IdleCall, RunCall
    DEF Sweep, JanitorDies, slot, tables, Reaches, TypeInv, ShapeInv, WorkerLabels
  <2>2. \A t \in Tasks : Good(t, mem[t])
    BY GoodNext
  <2>3. \A t \in queued : mem[t].retries = disk.row[t].retries
    BY DEF AuditInv, RetriesInv, SameRetries
  <2> QED
    BY <2>1, <2>2, <2>3, PlainAudit DEF Live
<1>3. CASE Evict
  <2>1. /\ UNCHANGED <<queued, pc, at, view, disk>> /\ call'.next = "idle" /\ pc # "busy"
    BY <1>3, IdleCall DEF Evict, slot, tables, Reaches, TypeInv, ShapeInv, WorkerLabels
  <2>2. \A t \in Tasks : mem'[t] = mem[t] \/ (mem'[t] = NoRecord /\ mem[t].status \in Terminal)
    BY <1>3 DEF Evict
  <2>3. \A t \in Tasks : Good(t, mem'[t])
    BY <2>2, GoodNext
  <2>4. \A t \in Tasks : t = at \/ t \in queued => mem'[t] = mem[t]
    BY <2>1, <2>2, SlotFacts DEF Pending, Terminal
  <2>5. \A t \in queued : mem'[t].retries = disk.row[t].retries
    BY <2>4, Typed DEF AuditInv, RetriesInv, SameRetries
  <2> QED
    BY <2>1, <2>3, <2>4, <2>5, PlainAudit DEF Live
<1> QED
  BY <1>1, <1>2, <1>3 DEF Retention

LEMMA RestartAudit ==
  ASSUME TypeInv, KeyInv, AuditInv, Crash \/ Restart
  PROVE  AuditInv'
<1>1. CASE Crash
  <2>1. /\ view' = disk /\ disk' = disk /\ queued' = {} /\ pc' = "none"
        /\ call'.next = "idle" /\ \A t \in Tasks : ~Known(mem'[t])
    BY <1>1, IdleCall, NewFacts DEF Crash
  <2>2. FreshInv'
    BY <2>1 DEF AuditInv, FreshInv, TableFresh, Good, Counted
  <2>3. RetriesInv' /\ NextInv' /\ AuditedInv'
    BY <2>1 DEF RetriesInv, NextInv, AuditedInv, Live
  <2> QED
    BY <2>2, <2>3 DEF AuditInv
<1>2. CASE Restart
  <2>1. /\ view' = disk' /\ disk' = Recovered(disk) /\ queued' = {} /\ pc' = "none"
        /\ call'.next = "idle" /\ \A t \in Tasks : ~Known(mem'[t])
    BY <1>2, NewFacts DEF Restart, TypeInv, ShapeInv, NoCall, slot
  <2>2. ASSUME NEW t \in Tasks
        PROVE  IF Known(disk'.row[t]) THEN Counted(disk', t, disk'.row[t])
                                      ELSE disk'.att[t] = NoAttempts
    <3>1. disk.row[t] \in Record /\ disk.att[t] \in [Numbers -> Outcomes]
      BY Typed DEF Tables
    <3>2. \A n \in Numbers : disk'.att[t][n] = "none" <=> disk.att[t][n] = "none"
      BY <2>1, <2>2, Typed DEF Recovered
    <3>3. /\ Known(disk'.row[t]) <=> Known(disk.row[t])
          /\ Used(disk'.row[t]) = Used(disk.row[t])
      <4>1. disk'.row[t] = IF disk.row[t].status = "running"
                           THEN Finished(disk.row[t], "interrupted") ELSE disk.row[t]
        BY <2>1, <2>2 DEF Recovered
      <4>2. "interrupted" \in Terminal
        BY DEF Terminal
      <4>3. /\ Finished(disk.row[t], "interrupted").status = "interrupted"
            /\ Finished(disk.row[t], "interrupted").retries = disk.row[t].retries
        BY <3>1, <4>2, FinishedFacts
      <4> QED
        BY <4>1, <4>3 DEF Known, Used, Pending
    <3>4. IF Known(disk.row[t]) THEN Counted(disk, t, disk.row[t]) ELSE disk.att[t] = NoAttempts
      BY DEF AuditInv, FreshInv, TableFresh
    <3>5. CASE Known(disk.row[t])
      BY <3>2, <3>3, <3>4, <3>5 DEF Counted
    <3>6. CASE ~Known(disk.row[t])
      <4>1. \A n \in Numbers : disk'.att[t][n] = "none"
        BY <3>2, <3>4, <3>6 DEF NoAttempts
      <4>2. disk'.att[t] \in [Numbers -> Outcomes]
        BY <2>1, RecoveredEffect, Typed DEF Tables
      <4> QED
        BY <3>3, <3>6, <4>1, <4>2 DEF NoAttempts
    <3> QED
      BY <3>5, <3>6
  <2>3. FreshInv'
    BY <2>1, <2>2 DEF FreshInv, TableFresh, Good
  <2>4. RetriesInv' /\ NextInv' /\ AuditedInv'
    BY <2>1 DEF RetriesInv, NextInv, AuditedInv, Live
  <2> QED
    BY <2>3, <2>4 DEF AuditInv
<1> QED
  BY <1>1, <1>2

-----------------------------------------------------------------------------
(* Audited attempts: the worker.                                           *)

\* A step of the worker at t.  A prompt goes out only under the attempt that
\* was audited, and a new attempt has a number of its own.
LEMMA WorkerAuditKeep ==
  ASSUME TypeInv, KeyInv, AuditInv, NEW t \in Tasks, t = at, at' = at,
         UNCHANGED <<queued, view, disk>>, t \notin queued,
         \A u \in Tasks : u # t => mem'[u] = mem[u],
         Good(t, mem'[t]), pc' # "spawned",
         pc' # "busy" \/ call'.next \in Live =>
           /\ pc # "busy" \/ call.next \in Live
           /\ mem'[t].retries = mem[t].retries,
         call'.next \notin {"mark running", "start task"},
         call'.next = "audit" =>
           /\ call'.t = t /\ call'.todo # <<>> /\ NextFresh(t)
           /\ mem'[t].cur = mem'[t].retries + 1,
         call'.next = "execute" =>
           /\ call'.t = t /\ call'.todo # <<>> /\ call.t = t /\ mem'[t] = mem[t]
           /\ call.next = "audit" /\ call.todo = <<>>,
         call'.next \in {"send", "recorded", "valid"} \/ pc' \in {"sending", "generating"} =>
           Audited(t) /\ mem'[t] = mem[t]
  PROVE  AuditInv'
<1>1. FreshInv'
  <2>1. \A u \in Tasks : Good(u, mem'[u])
    BY GoodNext
  <2> QED
    BY <2>1 DEF AuditInv, FreshInv, TableFresh, Good, Counted
<1>2. RetriesInv'
  <2>1. \A u \in queued : mem'[u].retries = disk.row[u].retries
    BY Typed DEF AuditInv, RetriesInv, SameRetries
  <2>2. pc # "busy" \/ call.next \in Live => mem[t].retries = disk.row[t].retries
    <3>1. pc # "none"
      BY Typed, Bounds
    <3> QED
      BY <3>1 DEF AuditInv, RetriesInv, SameRetries
  <2> QED
    BY <2>1, <2>2 DEF RetriesInv, SameRetries
<1>3. NextInv'
  <2>1. call'.next = "audit" => NextFresh(call.t)'
    <3>1. call'.next = "audit" => /\ call'.t = t /\ NextFresh(t)
                                  /\ mem'[t].retries = mem[t].retries
      BY DEF Live
    <3> QED
      BY <3>1 DEF NextFresh
  <2>2. call'.next = "execute" => NextFresh(call.t)'
    <3>1. call.next = "audit" => NextFresh(call.t)
      BY DEF AuditInv, NextInv
    <3> QED
      BY <3>1 DEF NextFresh
  <2> QED
    BY <2>1, <2>2 DEF NextInv
<1>4. AuditedInv'
  <2>1. call'.next = "execute" => mem'[at'].cur = mem'[at'].retries + 1 /\ disk'.row[at'].cur = mem'[at'].cur
    BY DEF AuditInv, AuditedInv
  <2>2. call'.next \in {"send", "recorded", "valid"} \/ pc' \in {"sending", "generating"} => Audited(at)'
    BY DEF Audited
  <2> QED
    BY <2>1, <2>2 DEF AuditedInv
<1> QED
  BY <1>1, <1>2, <1>3, <1>4 DEF AuditInv

\* Worker steps that leave the record alone.
LEMMA SteadyAudit ==
  ASSUME TypeInv, KeyInv, AuditInv,
         Audit \/ (Execute /\ ~mem[at].cancel) \/ Send \/ PromptConfirmed \/ PromptRecorded
           \/ PromptNotSent \/ FailedEarly \/ Poll \/ Answered \/ Rebuilt
           \/ (Cancelled /\ pc = "rebuilding")
  PROVE  AuditInv'
<1>1. UNCHANGED <<mem, queued, view, disk>> /\ at' = at
  BY DEF Audit, Execute, Send, PromptConfirmed, PromptRecorded, PromptNotSent, FailedEarly,
         Poll, Answered, Rebuilt, Cancelled, Busy, Await, slot, tables
<1>2. /\ at \in Tasks
      /\ pc # "busy" \/ (pc = "busy" /\ call.next # "release")
      /\ pc # "busy" \/ call.next \in Live
  BY IdleFacts, WorkerReach, Typed
  DEF Audit, Execute, Send, PromptConfirmed, PromptRecorded, PromptNotSent, FailedEarly,
      Poll, Answered, Rebuilt, Cancelled, AtAwait, Reaches, Live, WorkerLabels
<1>3. PICK t \in Tasks : t = at
  BY <1>2
<1>4. t \notin queued /\ Good(t, mem[t])
  BY <1>2, <1>3, BusyFacts, GoodNext
<1>5. CASE Audit
  <2>1. /\ call'.next = "execute" /\ call'.t = t /\ call'.todo = <<"insert">> /\ pc' = pc
        /\ call.next = "audit" /\ call.todo = <<>> /\ call.t = t /\ pc = "busy"
    BY <1>3, <1>5, RunCall, WorkerReach DEF Audit, Reaches, WorkerLabels, slot
  <2> QED
    BY <1>1, <1>2, <1>3, <1>4, <2>1, Literals, WorkerAuditKeep
<1>6. CASE (Execute /\ ~mem[at].cancel) \/ Send \/ PromptConfirmed \/ PromptRecorded \/ Poll
  <2>1. Audited(t)
    BY <1>3, <1>6, IdleFacts
    DEF Execute, Send, PromptConfirmed, PromptRecorded, Poll, AtAwait, Reaches, AuditInv, AuditedInv
  <2>2. call'.next \in {"send", "recorded", "idle"} /\ pc' \in {"busy", "sending", "generating"}
    <3>1. CASE Execute /\ ~mem[at].cancel
      BY <3>1, RunCall, WorkerReach DEF Execute, slot, Reaches, WorkerLabels
    <3>2. CASE Send \/ PromptRecorded
      BY <3>2, IdleCall DEF Send, PromptRecorded, Await
    <3>3. CASE PromptConfirmed \/ Poll
      BY <3>3, RunCall DEF PromptConfirmed, Poll, Busy
    <3> QED
      BY <1>6, <3>1, <3>2, <3>3
  <2> QED
    BY <1>1, <1>2, <1>3, <1>4, <2>1, <2>2, WorkerAuditKeep
<1>7. CASE Answered
  <2>1. Audited(t)
    BY <1>3, <1>7 DEF Answered, AtAwait, AuditInv, AuditedInv
  <2>2. call'.next \in {"valid", "on retry"} /\ pc' = "busy"
    BY <1>7, RunCall DEF Answered, Busy
  <2> QED
    BY <1>1, <1>2, <1>3, <1>4, <2>1, <2>2, WorkerAuditKeep
<1>8. CASE PromptNotSent \/ FailedEarly \/ Rebuilt \/ (Cancelled /\ pc = "rebuilding")
  <2>1. call'.next \in {"idle", "on retry", "release"} /\ pc' \in {"rebuilding", "busy"}
    BY <1>8, RunCall, IdleCall DEF PromptNotSent, FailedEarly, Rebuilt, Cancelled, Await, Busy
  <2> QED
    BY <1>1, <1>2, <1>3, <1>4, <2>1, WorkerAuditKeep
<1> QED
  BY <1>5, <1>6, <1>7, <1>8

\* Worker steps that finish or retry the task.
LEMMA FinishAudit ==
  ASSUME TypeInv, KeyInv, AuditInv, NEW t \in Tasks, t = at, at' = at, pc' = "busy",
         pc # "busy" \/ (pc = "busy" /\ call.next # "release"),
         UNCHANGED <<queued, view, disk>>, call'.next \in {"release", "requeue"},
         \/ \E s \in Terminal : mem' = [mem EXCEPT ![t] = Finished(mem[t], s)]
         \/ \E s \in Pending : mem' = [mem EXCEPT ![t] = Retried(mem[t], s)]
                               /\ mem[t].retries < RetryBound
  PROVE  AuditInv'
<1>1. t \notin queued /\ Known(mem[t])
  BY BusyFacts
<1>2. \E r : mem' = [mem EXCEPT ![t] = r] /\ Good(t, r)
  BY <1>1, GoodNext
<1>3. Good(t, mem'[t]) /\ \A u \in Tasks : u # t => mem'[u] = mem[u]
  BY <1>2, Typed
<1> QED
  BY <1>1, <1>3, WorkerAuditKeep DEF Live

LEMMA WorkerAudit ==
  ASSUME TypeInv, KeyInv, AuditInv, Worker
  PROVE  AuditInv'
<1>1. CASE Begin \/ NotAudited
  <2>1. /\ at \in Tasks /\ at' = at /\ pc' = "busy" /\ UNCHANGED <<queued, view, disk>>
        /\ pc # "busy" \/ (pc = "busy" /\ call.next # "release")
        /\ pc # "busy" \/ call.next \in Live
    BY <1>1, IdleFacts, WorkerReach, Typed
    DEF Begin, NotAudited, AtAwait, Reaches, Busy, Live, WorkerLabels, slot, tables
  <2>2. PICK t \in Tasks : t = at
    BY <2>1
  <2>3. t \notin queued /\ Good(t, mem[t]) /\ Known(mem[t]) /\ mem[t] \in Record
    BY <2>1, <2>2, BusyFacts, GoodNext, GetTyped
  <2>4. PICK n \in {0} \cup Numbers :
          /\ mem' = [mem EXCEPT ![t] = [mem[t] EXCEPT !.cur = n]]
          /\ \/ Begin /\ n = mem[t].retries + 1
             \/ NotAudited /\ n = 0
    <3>1. mem[t].retries + 1 \in Numbers
      BY <2>3, Bounds DEF Record
    <3> QED
      BY <1>1, <2>2, <3>1 DEF Begin, NotAudited, SetMem
  <2>5. PICK q \in Record : q = [mem[t] EXCEPT !.cur = n] /\ q.status = mem[t].status
                            /\ q.retries = mem[t].retries /\ q.cur = n
    BY <2>3, UpdateFacts
  <2>6. mem'[t] = q /\ \A u \in Tasks : u # t => mem'[u] = mem[u]
    BY <2>4, <2>5, Typed
  <2>7. Good(t, q)
    <3>1. Used(q) = Used(mem[t])
      BY <2>5 DEF Used
    <3> QED
      BY <2>3, <3>1, UsedFacts, GoodUpdate
  <2>8. CASE Begin
    <3>1. n = mem[t].retries + 1
      BY <2>4, <2>8, Bounds, IdleFacts DEF Begin, NotAudited, AtAwait, Reaches
    <3>2. call'.next = "audit" /\ call'.t = t /\ call'.todo = <<"row">>
      BY <2>2, <2>8, RunCall DEF Begin
    <3>3. NextFresh(t)
      BY <2>2, <2>8 DEF Begin, AtAwait, AuditInv, NextInv
    <3>4. /\ call'.todo # <<>> /\ mem'[t].retries = mem[t].retries
          /\ mem'[t].cur = mem'[t].retries + 1 /\ Good(t, mem'[t])
      BY <2>5, <2>6, <2>7, <3>1, <3>2, Literals
    <3>5. call'.next \notin {"mark running", "start task", "execute", "send", "recorded", "valid"}
      BY <3>2
    <3> QED
      BY <2>1, <2>2, <2>3, <2>6, <3>2, <3>3, <3>4, <3>5, WorkerAuditKeep
  <2>9. CASE NotAudited
    <3>1. call'.next = "failed early"
      BY <2>9, RunCall DEF NotAudited
    <3> QED
      BY <2>1, <2>2, <2>3, <2>5, <2>6, <2>7, <3>1, WorkerAuditKeep
  <2> QED
    BY <1>1, <2>8, <2>9
<1>2. CASE (Execute /\ mem[at].cancel) \/ OutcomeLost \/ Valid \/ Unreliable \/ OnRetry
           \/ (Cancelled /\ pc # "rebuilding")
  <2>1. /\ at \in Tasks /\ at' = at /\ pc' = "busy" /\ UNCHANGED <<queued, view, disk>>
        /\ pc # "busy" \/ (pc = "busy" /\ call.next # "release")
    BY <1>2, IdleFacts, WorkerReach, Typed
    DEF Execute, OutcomeLost, Valid, Unreliable, OnRetry, Cancelled, AtAwait, Reaches, Busy,
        WorkerLabels, slot, tables
  <2>2. PICK t \in Tasks : t = at
    BY <2>1
  <2>3. call'.next \in {"release", "requeue"}
    BY <1>2, RunCall DEF Execute, OutcomeLost, Valid, Unreliable, Unknown, OnRetry, Cancelled
  <2>4. \/ \E s \in Terminal : mem' = [mem EXCEPT ![t] = Finished(mem[t], s)]
        \/ \E s \in Pending : mem' = [mem EXCEPT ![t] = Retried(mem[t], s)]
                              /\ ~(mem[t].retries >= MaxRetries)
    BY <1>2, <2>2
    DEF Execute, OutcomeLost, Valid, Unreliable, Unknown, OnRetry, Cancelled, SetMem, Terminal, Pending
  <2>5. ~(mem[t].retries >= MaxRetries) => mem[t].retries < RetryBound
    BY GetTyped, Bounds DEF Record
  <2> QED
    BY <2>1, <2>2, <2>3, <2>4, <2>5, FinishAudit
<1>3. CASE EnqueueRetry
  <2>1. PICK t \in Tasks : t = at
    BY <1>3, WorkerReach DEF EnqueueRetry, Reaches, WorkerLabels
  <2>2. /\ pc' = "busy" /\ t = call.t /\ at' = at /\ UNCHANGED <<view, disk>> /\ pc = "busy"
    BY <1>3, <2>1, WorkerReach DEF EnqueueRetry, Reaches, WorkerLabels, slot, tables
  <2>3. t \notin queued /\ mem[t].status \in Pending /\ disk.row[t] = mem[t]
    BY <1>3, <2>2 DEF EnqueueRetry, Reaches, KeyInv, CallInv
  <2>4. /\ call'.next = "release"
        /\ \/ mem' = mem /\ queued' = queued \cup {t}
           \/ queued' = queued /\ mem' = [mem EXCEPT ![t] = Finished(mem[t], "failed")]
    BY <1>3, <2>2, RunCall DEF EnqueueRetry, Requeue, Enqueue, QueueFull, SetMem
  <2>5. CASE mem' = mem /\ queued' = queued \cup {t}
    <3>1. FreshInv'
      BY <2>2, <2>5 DEF AuditInv, FreshInv, TableFresh, Good, Counted
    <3>2. RetriesInv'
      BY <2>2, <2>3, <2>4, <2>5 DEF AuditInv, RetriesInv, SameRetries, Live
    <3>3. NextInv' /\ AuditedInv'
      BY <2>2, <2>4 DEF NextInv, AuditedInv
    <3> QED
      BY <3>1, <3>2, <3>3 DEF AuditInv
  <2>6. CASE queued' = queued /\ mem' = [mem EXCEPT ![t] = Finished(mem[t], "failed")]
    <3>1. call.next # "release" /\ "failed" \in Terminal
      BY <1>3 DEF EnqueueRetry, Reaches, Terminal
    <3> QED
      BY <2>1, <2>2, <2>4, <2>6, <3>1, FinishAudit
  <2> QED
    BY <2>4, <2>5, <2>6
<1>4. CASE Release
  <2>1. /\ UNCHANGED <<mem, queued, view, disk>> /\ pc' = "none" /\ call'.next = "idle"
    BY <1>4, IdleCall DEF Release, tables
  <2>2. FreshInv'
    BY <2>1 DEF AuditInv, FreshInv, TableFresh, Good, Counted
  <2>3. RetriesInv' /\ NextInv' /\ AuditedInv'
    BY <2>1 DEF AuditInv, RetriesInv, SameRetries, NextInv, AuditedInv, Live
  <2> QED
    BY <2>2, <2>3 DEF AuditInv
<1>5. CASE Audit \/ (Execute /\ ~mem[at].cancel) \/ Send \/ PromptConfirmed \/ PromptRecorded
           \/ PromptNotSent \/ FailedEarly \/ Poll \/ Answered \/ Rebuilt
           \/ (Cancelled /\ pc = "rebuilding")
  BY <1>5, SteadyAudit
<1> QED
  BY <1>1, <1>2, <1>3, <1>4, <1>5 DEF Worker

LEMMA AuditInit ==
  ASSUME Init
  PROVE  AuditInv
<1>1. /\ \A t \in Tasks : ~Known(mem[t]) /\ ~Known(disk.row[t]) /\ disk.att[t] = NoAttempts
      /\ view = disk /\ queued = {} /\ pc = "none" /\ call.next = "idle"
  BY NewFacts DEF Init, EmptyTables, NoCall
<1>2. FreshInv
  BY <1>1 DEF FreshInv, TableFresh, Good
<1> QED
  BY <1>1, <1>2 DEF AuditInv, RetriesInv, NextInv, AuditedInv, Live

LEMMA AuditStep ==
  ASSUME TypeInv, KeyInv, AuditInv, [Next]_vars
  PROVE  AuditInv'
<1>1. CASE Next
  BY <1>1, TransactionAudit, HttpAudit, DispatcherAudit, WorkerAudit, RetentionAudit, RestartAudit
  DEF Next
<1>2. CASE UNCHANGED vars
  <2>1. UNCHANGED <<mem, view, disk, queued, pc, at, call>>
    BY <1>2 DEF vars, tables, slot
  <2>2. FreshInv' /\ RetriesInv'
    BY <2>1 DEF AuditInv, FreshInv, TableFresh, Good, Counted, RetriesInv, SameRetries
  <2>3. NextInv' /\ AuditedInv'
    BY <2>1 DEF AuditInv, NextInv, NextFresh, AuditedInv, Audited
  <2> QED
    BY <2>2, <2>3 DEF AuditInv
<1> QED
  BY <1>1, <1>2

LEMMA AuditIsSound ==
  ASSUME TypeInv, KeyInv, AuditInv
  PROVE  AuditSound
<1>1. ASSUME up, pc \in {"sending", "generating"}
      PROVE  LET n == mem[at].retries + 1
             IN /\ disk.row[at].status = "running" /\ disk.row[at].cur = n
                /\ disk.att[at][n] = "open"
  <2>1. Audited(at) /\ Running(at)
    BY <1>1 DEF AuditInv, AuditedInv, KeyInv, SlotInv
  <2> QED
    BY <2>1 DEF Audited, Running
<1>2. ASSUME Writing, Head(call.todo) = "insert"
      PROVE  view.att[call.t][mem[call.t].retries + 1] = "none"
  <2>1. call.next = "execute" /\ call.todo # <<>>
    BY <1>2, WritingFacts DEF WriteAt
  <2>2. PICK t \in Tasks : t = call.t
    BY <2>1, WorkerReach DEF WorkerLabels
  <2>3. NextFresh(t)
    BY <2>1, <2>2 DEF AuditInv, NextInv
  <2>4. PICK n \in Numbers : n = mem[t].retries + 1 /\ mem[t].retries \in Nat
    BY GetTyped, Bounds DEF Record
  <2>5. n > mem[t].retries
    BY <2>4
  <2> QED
    BY <2>2, <2>3, <2>4, <2>5 DEF NextFresh
<1> QED
  BY <1>1, <1>2 DEF AuditSound, SentIsAudited, AttemptNumberFresh

\* A prompt is only out under an attempt that is committed, and the number of
\* a new attempt is never taken, whatever failed, restarted or was deleted.
THEOREM AuditHolds == Spec => []AuditSound
<1>1. Init => TypeInv /\ KeyInv /\ AuditInv
  BY TypeInit, KeyInit, AuditInit
<1>2. TypeInv /\ KeyInv /\ AuditInv /\ [Next]_vars => (TypeInv /\ KeyInv /\ AuditInv)'
  BY TypeStep, KeyStep, AuditStep
<1>3. TypeInv /\ KeyInv /\ AuditInv => AuditSound
  BY AuditIsSound
<1> QED
  BY <1>1, <1>2, <1>3, PTL DEF Spec

-----------------------------------------------------------------------------
(* Done: the writes.                                                       *)

\* Whom a write is about: a write of another kind than these finds a task
\* that is done neither in memory nor in its row, unless mark_done writes it.
LEMMA DoneWriting ==
  ASSUME TypeInv, KeyInv, DoneInv, Writing,
         Head(call.todo) \notin {"lookup", "create", "prune"}
  PROVE  /\ call.t \in Tasks
         /\ \/ mem[call.t].status # "done"
            \/ /\ mem[call.t].status = "done" /\ call.t = at /\ pc = "busy"
               /\ call.next = "release" /\ call.fail = "unreliable"
               /\ call.todo \in {<<"ok", "row">>, <<"row">>}
<1>1. /\ WriteAt(call.next, Head(call.todo), Tail(call.todo)) /\ call.todo # <<>>
      /\ call.next # "evict" => call.t \in Tasks
      /\ call.todo \in Ahead(call.next)
  BY WritingFacts
<1>2. call.next \notin {"reuse", "created", "evict"}
  BY <1>1 DEF WriteAt
<1>3. Ahead("unreliable") = {<<>>}
  BY DEF Ahead
<1>4. mem[call.t].status = "done" => Finishing(call.t)
  BY <1>1, <1>2 DEF DoneInv, DoneMark
<1>5. Finishing(call.t) => /\ call.next = "release" /\ call.fail = "unreliable" /\ pc = "busy"
                           /\ call.t = at
  BY <1>1, <1>3 DEF Finishing, TypeInv, ShapeInv
<1> QED
  BY <1>1, <1>2, <1>4, <1>5 DEF DoneInv, DoneMark

LEMMA DoneEffect ==
  ASSUME TypeInv, KeyInv, AuditInv, DoneInv, Writing, ~Refused(Head(call.todo), call.t)
  PROVE  DoneOk(Effect(view, call.t, Head(call.todo)))
<1>1. PICK t, w : t = call.t /\ w = Head(call.todo)
  OBVIOUS
<1>2. /\ t \in {0} \cup Tasks /\ w \in Guarded \cup Plain /\ (t = 0 => w = "prune")
      /\ w = "insert" => call.next = "execute" /\ t = at
  BY <1>1, AheadFresh
<1>3. PICK x \in Tables : x = Effect(view, t, w)
  BY <1>2, EffectTyped, Typed DEF TypeInv
<1>4. SUFFICES ASSUME NEW u \in Tasks, x.row[u].status = "done"
               PROVE  x.row[u].cur # 0 /\ x.att[u][x.row[u].cur] = "ok"
  BY <1>1, <1>3 DEF DoneOk
<1>5. x.row[u] = RowAfter(view, t, w, u) /\ view.row[u] \in Record /\ x.row[u] \in Record
  <2>1. Effect(view, t, w).row[u] = RowAfter(view, t, w, u)
    BY <1>2, EffectRow, Typed DEF TypeInv
  <2>2. view.row[u] \in Record /\ x.row[u] \in Record
    BY GetTyped DEF Tables
  <2> QED
    BY <1>3, <2>1, <2>2
<1>6. \A n \in Numbers : x.att[u][n] = AttAfter(view, t, w, u, n)
  BY <1>2, <1>3, EffectAtt, Typed DEF TypeInv
<1>7. ASSUME view.row[u].status = "done"
      PROVE  view.row[u].cur \in Numbers /\ view.att[u][view.row[u].cur] = "ok"
  BY <1>5, <1>7 DEF DoneInv, DoneRows, DoneOk, Record
<1>8. CASE w = "prune"
  <2>1. x.row[u] = Kept(view.row[u]) /\ x.row[u] # NoRecord
    BY <1>4, <1>5, <1>8, NewFacts DEF RowAfter, NoRecord
  <2>2. /\ x.row[u] = view.row[u] \/ x.row[u] = [view.row[u] EXCEPT !.text = "redacted"]
        /\ ~(view.row[u].status \in Terminal /\ view.row[u].age >= Deletable)
    BY <2>1 DEF Kept
  <2>3. x.row[u].status = view.row[u].status /\ x.row[u].cur = view.row[u].cur
    BY <1>5, <2>2 DEF Record
  <2> QED
    BY <1>4, <1>6, <1>7, <1>8, <2>2, <2>3, Bounds DEF AttAfter
<1>9. CASE w = "row" /\ u = t
  <2>1. x.row[u] = mem[t]
    BY <1>5, <1>9 DEF RowAfter
  <2>2. call.next = "release" /\ call.fail = "unreliable" /\ t = at
    BY <1>1, <1>4, <1>9, <2>1, DoneWriting
  <2>3. call.todo = <<"row">>
    BY <1>1, <1>9, <2>2, WritingFacts
  <2>4. mem[t].cur # 0 /\ view.att[t][mem[t].cur] = "ok"
    BY <2>2, <2>3 DEF DoneInv, DoneMark
  <2>5. mem[t].cur \in Numbers
    BY <1>5, <2>1, <2>4 DEF Record
  <2> QED
    BY <1>6, <1>9, <2>1, <2>4, <2>5 DEF AttAfter
<1>10. CASE w = "create" /\ u = t
  BY <1>4, <1>5, <1>10, NewFacts DEF RowAfter
<1>11. CASE w = "delete" /\ u = t
  BY <1>4, <1>5, <1>11, NewFacts DEF RowAfter, NoRecord
<1>12. CASE w # "prune" /\ ~(w \in {"row", "create", "delete"} /\ u = t)
  <2>1. x.row[u] = view.row[u]
    BY <1>5, <1>12 DEF RowAfter
  <2>2. PICK n \in Numbers : n = x.row[u].cur /\ view.att[u][n] = "ok"
    BY <1>4, <1>7, <2>1
  <2>3. AttAfter(view, t, w, u, n) = "ok"
    <3>1. CASE u # t \/ w \notin {"insert", "ok", "error", "unknown"}
      BY <1>12, <2>2, <3>1 DEF AttAfter
    <3>2. CASE u = t /\ w \in {"insert", "ok", "error", "unknown"}
      <4>1. disk.row[u].status = "done" /\ Known(view.row[u])
        BY <1>4, <2>1, ViewFacts DEF Known
      <4>2. w # "insert"
        BY <1>2, <3>2, <4>1 DEF KeyInv, SlotInv, Live, Running
      <4>3. Known(mem[t])
        <5>1. WriteAt(call.next, w, Tail(call.todo)) /\ call.todo # <<>> /\ call.next \in Labels
          BY <1>1, WritingFacts
        <5>2. call.next \in WorkerLabels \/ call.next \in {"return", "enqueue by hand"}
          BY <3>2, <4>2, <5>1 DEF WriteAt, WorkerLabels
        <5>3. call.next \in WorkerLabels => Known(mem[t])
          BY <1>1, WorkerReach DEF KeyInv, SlotInv
        <5>4. call.next \in {"return", "enqueue by hand"} => mem[t].status \in Terminal \cup Pending
          BY <1>1, <5>1 DEF KeyInv, CallInv
        <5> QED
          BY <5>2, <5>3, <5>4 DEF Known, Pending, Terminal
      <4>4. mem[t].status = "done"
        BY <3>2, <4>1, <4>3 DEF DoneInv, DoneBoth
      <4>5. call.next = "release" /\ call.todo \in {<<"ok", "row">>, <<"row">>}
        BY <1>1, <3>2, <4>4, DoneWriting
      <4>6. w = "ok"
        BY <1>1, <3>2, <4>2, <4>5, Literals
      <4> QED
        BY <1>12, <2>2, <3>2, <4>6 DEF AttAfter
    <3> QED
      BY <3>1, <3>2
  <2> QED
    BY <1>6, <2>2, <2>3, Bounds
<1> QED
  BY <1>8, <1>9, <1>10, <1>11, <1>12

\* The row of u, if it was done or is done after a write.
LEMMA DoneRowWritten ==
  ASSUME TypeInv, KeyInv, DoneInv, Write, NEW u \in Tasks
  PROVE  /\ disk.row[u].status = "done" =>
              \/ disk'.row[u].status = "done" /\ disk'.row[u].age = disk.row[u].age
              \/ disk'.row[u] = mem[u] /\ u = call.t
              \/ /\ disk'.row[u] = NoRecord
                 /\ \/ u = call.t /\ call.next = "discarded"
                    \/ /\ call.next = "evict" /\ Tail(call.todo) = <<>>
                       /\ disk.row[u].age >= Deletable
                    \/ call.next = "created"
         /\ disk'.row[u].status = "done" =>
              \/ disk.row[u].status = "done" /\ disk'.row[u].age = disk.row[u].age
              \/ u = call.t /\ Head(call.todo) = "row" /\ disk'.row[u] = mem[u]
<1>1. PICK t, w : t = call.t /\ w = Head(call.todo)
  OBVIOUS
<1>2. WriteAt(call.next, w, Tail(call.todo)) /\ call.todo # <<>>
  BY <1>1, WritingFacts DEF Write
<1>3. \/ UNCHANGED <<view, disk, open>>
      \/ disk'.row[u] = RowAfter(view, t, w, u)
  BY <1>1, WriteTables
<1>4. /\ disk.row[u].status = "done" => view.row[u] = disk.row[u]
      /\ Known(view.row[u]) => view.row[u] = disk.row[u]
      /\ view.row[u] \in Record
  BY ViewFacts, GetTyped DEF DoneInv, DoneRows
<1>5. CASE UNCHANGED <<view, disk, open>>
  BY <1>5
<1>6. CASE disk'.row[u] = RowAfter(view, t, w, u) /\ w = "prune"
  <2>1. call.next = "evict" /\ Tail(call.todo) = <<>>
    BY <1>2, <1>6 DEF WriteAt
  <2>2. disk'.row[u] = Kept(view.row[u])
    BY <1>6 DEF RowAfter
  <2>3. \/ disk'.row[u] = NoRecord /\ view.row[u].age >= Deletable
        \/ disk'.row[u].status = view.row[u].status /\ disk'.row[u].age = view.row[u].age
    BY <1>4, <2>2 DEF Kept, Record
  <2> QED
    BY <1>4, <2>1, <2>3, NewFacts DEF Known, NoRecord
<1>7. CASE disk'.row[u] = RowAfter(view, t, w, u) /\ w = "row" /\ u = t
  BY <1>1, <1>7 DEF RowAfter
<1>8. CASE disk'.row[u] = RowAfter(view, t, w, u) /\ w = "create" /\ u = t
  <2>1. call.next = "created" /\ disk'.row[u] = NewRecord
    BY <1>2, <1>8 DEF WriteAt, RowAfter
  <2>2. ~Known(view.row[u])
    BY <1>2, <2>1 DEF KeyInv, CallInv, HasKey
  <2>3. disk.row[u].status # "done"
    BY <1>4, <2>2 DEF Known
  <2> QED
    BY <2>1, <2>3, NewFacts
<1>9. CASE disk'.row[u] = RowAfter(view, t, w, u) /\ w = "delete" /\ u = t
  <2>1. call.next = "discarded" /\ disk'.row[u] = NoRecord
    BY <1>2, <1>9 DEF WriteAt, RowAfter
  <2> QED
    BY <1>1, <1>9, <2>1, NewFacts DEF NoRecord
<1>10. CASE disk'.row[u] = RowAfter(view, t, w, u) /\ w # "prune"
            /\ ~(w \in {"row", "create", "delete"} /\ u = t)
  <2>1. disk'.row[u] = view.row[u]
    BY <1>10 DEF RowAfter
  <2> QED
    BY <1>4, <2>1 DEF Known
<1> QED
  BY <1>3, <1>5, <1>6, <1>7, <1>8, <1>9, <1>10

LEMMA WriteDone ==
  ASSUME TypeInv, KeyInv, AuditInv, DoneInv, Write
  PROVE  DoneInv'
<1>1. UNCHANGED <<mem, queued, pc, at>> /\ Writing
  BY DEF Write, slot
<1>2. /\ call'.next = call.next /\ call'.t = call.t /\ call.todo # <<>>
      /\ call'.todo = Tail(call.todo) /\ call'.fail = call.fail
      /\ WriteAt(call.next, Head(call.todo), Tail(call.todo))
      /\ call.next \in WorkerLabels <=> pc = "busy"
      /\ pc = "busy" => at = call.t /\ at \in Tasks
  BY <1>1, OnFacts, WritingFacts, WorkerReach DEF Write, TypeInv, ShapeInv
<1>3. /\ mem[call.t].status = "done" /\ call.next \notin {"reuse", "created", "evict"} =>
           /\ call.t = at /\ pc = "busy" /\ call.next = "release" /\ call.fail = "unreliable"
           /\ call.todo \in {<<"ok", "row">>, <<"row">>}
      /\ Head(call.todo) = "row" => call.next \notin {"reuse", "created", "evict"}
  BY <1>1, <1>2, DoneWriting DEF WriteAt
<1>4. DoneOk(view') /\ DoneOk(disk')
  <2>1. CASE UNCHANGED <<view, disk, open>>
    BY <2>1 DEF DoneInv, DoneRows, DoneOk
  <2>2. CASE view' = Effect(view, call.t, Head(call.todo)) /\ disk' = view'
             /\ ~Refused(Head(call.todo), call.t)
    BY <1>1, <2>2, DoneEffect
  <2> QED
    BY <2>1, <2>2, WriteTables
<1>5. DoneRows'
  <2>1. \A u \in Tasks : disk'.row[u].status = "done" => view'.row[u] = disk'.row[u]
    BY WriteTables DEF DoneInv, DoneRows
  <2>2. call'.next = "discarded" => disk'.row[call'.t].status # "done"
    <3>1. CASE call.next = "discarded"
      <4>1. Head(call.todo) = "delete" /\ call.t \in Tasks
        BY <1>1, <1>2, <3>1, WritingFacts DEF WriteAt
      <4> QED
        BY <1>2, <3>1, <4>1, DoneRowWritten DEF DoneInv, DoneRows
    <3> QED
      BY <1>2, <3>1
  <2>3. ASSUME pc = "busy", call.next # "release" \/ Tail(call.todo) # <<>>
        PROVE  disk'.row[at].status # "done"
    <3>1. at = call.t /\ at \in Tasks /\ disk.row[at].status # "done"
      BY <1>2, <2>3 DEF DoneInv, DoneRows
    <3>2. ~(Head(call.todo) = "row" /\ mem[at].status = "done")
      <4>1. call.todo = <<"row">> => Tail(call.todo) = <<>>
        BY Literals
      <4>2. call.todo = <<"ok", "row">> => Head(call.todo) = "ok"
        BY Literals
      <4> QED
        BY <1>2, <1>3, <2>3, <3>1, <4>1, <4>2
    <3> QED
      BY <3>1, <3>2, DoneRowWritten
  <2> QED
    BY <1>1, <1>2, <1>4, <2>1, <2>2, <2>3 DEF DoneRows, DoneOk
<1>6. DoneBoth'
  <2>1. ASSUME NEW u \in Tasks, disk'.row[u].status = "done"
        PROVE  ~Known(mem[u]) \/ mem[u].status = "done"
    BY <2>1, DoneRowWritten DEF DoneInv, DoneBoth
  <2>2. ASSUME NEW u \in Tasks, mem[u].status = "done"
        PROVE  \/ disk'.row[u].status = "done" /\ mem[u].age = disk'.row[u].age
               \/ Finishing(u)'
               \/ call.next = "evict" /\ Tail(call.todo) = <<>> /\ mem[u].age >= Evictable
    <3>1. CASE disk.row[u].status = "done" /\ mem[u].age = disk.row[u].age
      <4>1. ~(u = call.t /\ call.next = "discarded")
        BY <2>2 DEF KeyInv, CallInv
      <4>2. disk'.row[u] = NoRecord => call.next # "created"
        <5>1. CASE call.next = "created"
          <6>1. ~Known(view.row[u]) /\ view.row[u] = disk.row[u]
            BY <1>2, <3>1, <5>1 DEF KeyInv, CallInv, HasKey, DoneInv, DoneRows
          <6> QED
            BY <3>1, <6>1 DEF Known
        <5> QED
          BY <5>1
      <4>3. disk.row[u].age >= Deletable => mem[u].age >= Evictable
        BY <3>1, GetTyped DEF Deletable, Evictable, Record, Ages
      <4> QED
        BY <2>2, <3>1, <4>1, <4>2, <4>3, DoneRowWritten
    <3>2. CASE Finishing(u)
      <4>1. /\ call.t = u /\ u = at /\ pc = "busy" /\ call.fail = "unreliable"
            /\ call.next = "release" /\ call.todo \in {<<"ok", "row">>, <<"row">>}
        BY <1>2, <1>3, <2>2, <3>2 DEF Finishing, WriteAt
      <4>2. CASE call.todo = <<"ok", "row">>
        BY <1>1, <1>2, <4>1, <4>2, Literals DEF Finishing
      <4>3. CASE call.todo = <<"row">>
        <5>1. disk'.row[u] = mem[u]
          BY <4>1, <4>3, RowWritten, Literals
        <5> QED
          BY <2>2, <5>1
      <4> QED
        BY <4>1, <4>2, <4>3
    <3> QED
      BY <1>2, <2>2, <3>1, <3>2 DEF DoneInv, DoneBoth
  <2> QED
    BY <1>1, <1>2, <2>1, <2>2 DEF DoneBoth
<1>7. DoneMark'
  <2>1. ASSUME call.next = "release", call.fail = "unreliable"
        PROVE  /\ mem[at].status = "done"
               /\ Tail(call.todo) \in {<<"row">>, <<>>}
               /\ Tail(call.todo) = <<"row">> =>
                    mem[at].cur # 0 /\ view'.att[at][mem[at].cur] = "ok"
    <3>1. PICK u \in Tasks : u = at /\ u = call.t
      BY <1>2, <2>1 DEF WorkerLabels
    <3>2. mem[u].status = "done" /\ call.todo \in {<<"ok", "row">>, <<"row">>}
      BY <1>2, <2>1, <3>1 DEF DoneInv, DoneMark
    <3>3. Tail(call.todo) \in {<<"row">>, <<>>}
      BY <3>2, Literals
    <3>4. ASSUME call.todo = <<"ok", "row">>
          PROVE  mem[u].cur # 0 /\ view'.att[u][mem[u].cur] = "ok"
      <4>1. PICK n \in Numbers : n = mem[u].cur /\ view.att[u][n] # "none"
        BY <2>1, <3>1, <3>4, GetTyped DEF DoneInv, DoneMark, Record
      <4>2. Head(call.todo) = "ok" /\ ~Skipped("ok", u)
        BY <3>4, <4>1, Literals, Bounds DEF Skipped
      <4>3. view' = Effect(view, u, "ok")
        BY <3>1, <4>2 DEF Write
      <4>4. Effect(view, u, "ok").att[u][n] = AttAfter(view, u, "ok", u, n)
        BY EffectAtt, Typed, Bounds DEF TypeInv, Plain
      <4> QED
        BY <4>1, <4>3, <4>4, Bounds DEF AttAfter
    <3> QED
      BY <3>1, <3>2, <3>3, <3>4, Literals
  <2>2. ASSUME Tail(call.todo) # <<>>, call.next \notin {"reuse", "created", "evict"},
               mem[call.t].status = "done"
        PROVE  Finishing(call.t)'
    BY <1>1, <1>2, <1>3, <2>2 DEF Finishing
  <2>3. <<"ok", "row">> \notin {<<"row">>, <<>>} /\ <<"row">> # <<>>
    BY Literals
  <2> QED
    BY <1>1, <1>2, <2>1, <2>2, <2>3 DEF DoneMark, Finishing
<1> QED
  BY <1>5, <1>6, <1>7 DEF DoneInv

LEMMA RaiseDone ==
  ASSUME TypeInv, KeyInv, AuditInv, DoneInv, RaiseGuarded \/ RaisePlain
  PROVE  DoneInv'
<1>1. Writing /\ Raised /\ UNCHANGED <<mem, disk, queued, pc, at>>
  BY DEF RaiseGuarded, RaisePlain, slot
<1>2. /\ call'.t = call.t /\ call'.next = call.fail /\ call'.todo = <<>>
      /\ call'.fail = call.fail
      /\ call.todo # <<>> /\ call.fail \in Fails(call.next) /\ call.next \in Labels \ {"idle"}
      /\ WriteAt(call.next, Head(call.todo), Tail(call.todo))
      /\ call.next \in WorkerLabels <=> pc = "busy"
  BY <1>1, RaisedFacts, WritingFacts DEF TypeInv, ShapeInv
<1>3. \/ view' = disk \/ view' = view
      \/ /\ view' = Effect(view, call.t, Head(call.todo))
         /\ ~Refused(Head(call.todo), call.t) /\ Head(call.todo) \in Plain
  BY DEF RaiseGuarded, RaisePlain
<1>4. DoneOk(view')
  <2>1. CASE view' = disk \/ view' = view
    BY <2>1 DEF DoneInv, DoneRows, DoneOk
  <2>2. CASE view' = Effect(view, call.t, Head(call.todo)) /\ ~Refused(Head(call.todo), call.t)
    BY <1>1, <2>2, DoneEffect
  <2> QED
    BY <1>3, <2>1, <2>2
<1>5. ASSUME NEW u \in Tasks, disk.row[u].status = "done"
      PROVE  view'.row[u] = disk.row[u]
  <2>1. view.row[u] = disk.row[u]
    BY <1>5 DEF DoneInv, DoneRows
  <2>2. CASE view' = disk \/ view' = view
    BY <2>1, <2>2
  <2>3. CASE view' = Effect(view, call.t, Head(call.todo)) /\ Head(call.todo) \in Plain
    <3>1. PICK t, w : t = call.t /\ w = Head(call.todo)
      OBVIOUS
    <3>2. t \in {0} \cup Tasks /\ w \in Guarded \cup Plain /\ (t = 0 => w = "prune")
          /\ w \notin {"prune", "row", "create"}
      BY <1>1, <2>3, <3>1, WritingFacts DEF WriteAt, Plain
    <3>3. Effect(view, t, w).row[u] = RowAfter(view, t, w, u)
      BY <3>2, EffectRow, Typed DEF TypeInv
    <3>4. ~(u = t /\ w = "delete")
      <4>1. w = "delete" => call.next = "discarded"
        BY <1>2, <3>1 DEF WriteAt
      <4> QED
        BY <1>5, <3>1, <4>1 DEF DoneInv, DoneRows
    <3> QED
      BY <2>1, <2>3, <3>1, <3>2, <3>3, <3>4 DEF RowAfter
  <2> QED
    BY <1>3, <2>2, <2>3
<1>6. DoneRows'
  <2>1. call.fail # "discarded"
    BY <1>2 DEF Fails, Labels
  <2>2. pc = "busy" => disk.row[at].status # "done"
    BY <1>2 DEF DoneInv, DoneRows
  <2> QED
    BY <1>1, <1>2, <1>4, <1>5, <2>1, <2>2 DEF DoneInv, DoneRows, DoneOk
<1>7. DoneBoth'
  <2>1. ASSUME NEW u \in Tasks, Finishing(u)
        PROVE  Finishing(u)'
    BY <1>1, <1>2, <2>1 DEF Finishing, WriteAt
  <2> QED
    BY <1>1, <1>2, <2>1 DEF DoneInv, DoneBoth
<1>8. DoneMark'
  BY <1>2 DEF DoneMark
<1> QED
  BY <1>6, <1>7, <1>8 DEF DoneInv

LEMMA OtherDone ==
  ASSUME TypeInv, KeyInv, DoneInv, OtherTaskWrites
  PROVE  DoneInv'
<1>1. /\ UNCHANGED <<mem, queued, pc, at, call>> /\ Idle
      /\ (disk' = view /\ view' = view) \/ (view' = disk /\ disk' = disk)
  BY DEF OtherTaskWrites, slot
<1>2. pc # "busy" /\ call.next = "idle" /\ call.todo = <<>>
  BY <1>1, IdleFacts
<1>3. ASSUME NEW u \in Tasks
      PROVE  /\ disk'.row[u].status = "done" <=> disk.row[u].status = "done"
             /\ disk.row[u].status = "done" => disk'.row[u] = disk.row[u] /\ view'.row[u] = disk'.row[u]
  BY <1>1, ViewFacts DEF Known, DoneInv, DoneRows
<1>4. DoneRows'
  BY <1>1, <1>2, <1>3 DEF DoneInv, DoneRows, DoneOk
<1>5. DoneBoth'
  BY <1>1, <1>2, <1>3 DEF DoneInv, DoneBoth, Finishing
<1>6. DoneMark'
  BY <1>1, <1>2 DEF DoneMark
<1> QED
  BY <1>4, <1>5, <1>6 DEF DoneInv

LEMMA TransactionDone ==
  ASSUME TypeInv, KeyInv, AuditInv, DoneInv, Transaction
  PROVE  DoneInv'
BY WriteDone, RaiseDone, OtherDone DEF Transaction

-----------------------------------------------------------------------------
(* Done: the steps that leave the tables alone.                            *)

\* Outside the worker: a record that changes is of a task that is not done on
\* disk, or becomes what is on disk.
LEMMA PlainDone ==
  ASSUME TypeInv, KeyInv, DoneInv, pc # "busy", UNCHANGED <<view, disk>>,
         call.next # "evict", pc' # "busy",
         call'.next # "release",
         call'.next = "discarded" => disk.row[call'.t].status # "done",
         call'.todo # <<>> /\ call'.next \notin {"reuse", "created", "evict"} =>
           mem'[call'.t].status # "done",
         \A u \in Tasks :
           \/ mem'[u] = mem[u] \/ mem'[u] = disk.row[u]
           \/ mem'[u] = NoRecord
           \/ mem'[u].status # "done" /\ disk.row[u].status # "done"
  PROVE  DoneInv'
<1>1. DoneRows'
  BY DEF DoneInv, DoneRows, DoneOk
<1>2. DoneBoth'
  <2>1. \A u \in Tasks : mem[u].status = "done" =>
          disk.row[u].status = "done" /\ mem[u].age = disk.row[u].age
    BY DEF DoneInv, DoneBoth, Finishing
  <2> QED
    BY <2>1, NewFacts DEF DoneInv, DoneBoth, NoRecord
<1>3. DoneMark'
  BY DEF DoneMark
<1> QED
  BY <1>1, <1>2, <1>3 DEF DoneInv

\* Whoever is on its way is not done.
LEMMA NotDone ==
  ASSUME TypeInv, KeyInv, DoneInv, NEW t \in Tasks
  PROVE  /\ Known(Get(t)) /\ Get(t).status # "done" => disk.row[t].status # "done"
         /\ Known(view.row[t]) /\ view.row[t].status # "done" => disk.row[t].status # "done"
         /\ t \in queued => disk.row[t].status # "done" /\ mem[t].status # "done"
<1>1. Known(view.row[t]) => view.row[t] = disk.row[t]
  BY ViewFacts
<1>2. Known(mem[t]) /\ mem[t].status # "done" => disk.row[t].status # "done"
  BY DEF DoneInv, DoneBoth
<1>3. t \in queued => disk.row[t].status # "done" /\ mem[t].status # "done"
  BY DEF KeyInv, QueueInv, Pending
<1> QED
  BY <1>1, <1>2, <1>3 DEF Get

LEMMA HttpDone ==
  ASSUME TypeInv, KeyInv, DoneInv, Http
  PROVE  DoneInv'
<1>1. ASSUME NEW t \in Tasks, Submit(t)
      PROVE  DoneInv'
  <2>1. pc # "busy" /\ call.next = "idle" /\ UNCHANGED <<mem, pc, view, disk>>
    BY <1>1, IdleFacts DEF Submit, slot, tables
  <2>2. call'.next \in {"reuse", "created"}
    BY <1>1, RunCall DEF Submit
  <2> QED
    BY <2>1, <2>2, PlainDone
<1>2. ASSUME NEW t \in Tasks, Cancel(t)
      PROVE  DoneInv'
  <2>1. pc # "busy" /\ call.next = "idle" /\ UNCHANGED <<pc, view, disk>>
    BY <1>2, IdleFacts DEF Cancel, slot, tables
  <2>2. /\ call'.next = "stop worker" /\ call'.t = t
        /\ mem' = [mem EXCEPT ![t] = [Get(t) EXCEPT !.cancel = TRUE]]
        /\ Known(Get(t)) /\ Get(t).status # "done"
    BY <1>2, RunCall DEF Cancel, SetMem, Known, Pending
  <2>3. /\ mem'[t].status = Get(t).status
        /\ \A u \in Tasks : u # t => mem'[u] = mem[u]
    <3>1. PICK r \in Record : r = Get(t)
      BY GetTyped
    <3>2. [r EXCEPT !.cancel = TRUE].status = r.status
      BY UpdateFacts
    <3>3. mem' = [mem EXCEPT ![t] = [r EXCEPT !.cancel = TRUE]]
      BY <2>2, <3>1
    <3> QED
      BY <3>1, <3>2, <3>3, Typed
  <2>4. disk.row[t].status # "done"
    BY <2>2, NotDone
  <2> QED
    BY <2>1, <2>2, <2>3, <2>4, PlainDone
<1>3. ASSUME NEW t \in Tasks, ManualRetry(t)
      PROVE  DoneInv'
  <2>1. pc # "busy" /\ call.next = "idle" /\ UNCHANGED <<pc, view, disk>>
    BY <1>3, IdleFacts DEF ManualRetry, slot, tables
  <2>2. /\ call'.next = "enqueue by hand" /\ call'.t = t
        /\ mem' = [mem EXCEPT ![t] = Retried(Get(t), "queued")]
        /\ Known(Get(t)) /\ Get(t).status # "done" /\ Get(t).retries < RetryBound
    BY <1>3, RunCall DEF ManualRetry, SetMem, Known, Terminal
  <2>3. /\ mem'[t].status = "queued"
        /\ \A u \in Tasks : u # t => mem'[u] = mem[u]
    BY <2>2, GetTyped, RetriedFacts, Typed DEF Pending
  <2>4. disk.row[t].status # "done"
    BY <2>2, NotDone
  <2> QED
    BY <2>1, <2>2, <2>3, <2>4, PlainDone
<1>4. CASE Reuse \/ Discarded
  <2>1. PICK t \in Tasks : t = call.t
    BY <1>4, PlainReach DEF Reuse, Discarded, Reaches, PlainLabels
  <2>2. /\ pc # "busy" /\ UNCHANGED <<pc, view, disk>> /\ call.next # "evict"
        /\ call'.next = "idle" /\ call'.todo = <<>>
    BY <1>4, PlainReach, IdleCall DEF Reuse, Discarded, Reaches, PlainLabels, slot, tables
  <2>3. /\ \A u \in Tasks : u # t => mem'[u] = mem[u]
        /\ mem'[t] = disk.row[t] \/ mem'[t] = NoRecord
    BY <1>4, <2>1, Typed DEF Reuse, Discarded, SetMem, Reaches, KeyInv, CallInv, ViewInv
  <2> QED
    BY <2>2, <2>3, PlainDone
<1>5. CASE StopWorker \/ Returned
  <2>1. /\ pc # "busy" /\ UNCHANGED <<mem, pc, view, disk>> /\ call.next # "evict"
        /\ call'.next = "idle" /\ call'.todo = <<>>
    BY <1>5, PlainReach, IdleCall DEF StopWorker, Returned, Reaches, PlainLabels, slot, tables
  <2> QED
    BY <2>1, PlainDone
<1>6. CASE Created
  <2>1. PICK t \in Tasks : t = call.t
    BY <1>6, PlainReach DEF Created, Reaches, PlainLabels
  <2>2. /\ UNCHANGED <<pc, view, disk>> /\ pc # "busy" /\ call.next # "evict"
        /\ ~open /\ view.row[t] = NewRecord
    BY <1>6, <2>1 DEF Created, Reaches, slot, tables, KeyInv, CallInv
  <2>3. mem'[t] = disk.row[t] /\ disk.row[t] = NewRecord /\ \A u \in Tasks : u # t => mem'[u] = mem[u]
    BY <1>6, <2>1, <2>2, Typed DEF Created, SetMem, KeyInv, ViewInv
  <2>4. \/ call'.next = "idle" /\ call'.todo = <<>>
        \/ call'.next = "discarded" /\ call'.t = t
    BY <1>6, <2>1, IdleCall, RunCall DEF Created
  <2>5. NewRecord.status # "done"
    BY NewFacts
  <2> QED
    BY <2>2, <2>3, <2>4, <2>5, PlainDone
<1>7. CASE EnqueueByHand
  <2>1. PICK t \in Tasks : t = call.t
    BY <1>7, PlainReach DEF EnqueueByHand, Reaches, PlainLabels
  <2>2. /\ pc # "busy" /\ UNCHANGED <<pc, view, disk>> /\ call.next # "evict"
    BY <1>7, PlainReach DEF EnqueueByHand, Reaches, PlainLabels, slot, tables
  <2>3. mem[t].status \in Pending /\ disk.row[t] = mem[t]
    BY <1>7, <2>1 DEF EnqueueByHand, Reaches, KeyInv, CallInv
  <2>4. /\ call'.next = "return" /\ call'.t = t
        /\ mem' = mem \/ mem' = [mem EXCEPT ![t] = Finished(mem[t], "failed")]
    BY <1>7, <2>1, RunCall DEF EnqueueByHand, Requeue, SetMem
  <2>5. /\ \A u \in Tasks : u # t => mem'[u] = mem[u]
        /\ mem'[t].status # "done" /\ disk.row[t].status # "done"
    BY <2>3, <2>4, GetTyped, FinishedFacts, Typed DEF Terminal, Pending
  <2> QED
    BY <2>2, <2>4, <2>5, PlainDone
<1> QED
  BY <1>1, <1>2, <1>3, <1>4, <1>5, <1>6, <1>7 DEF Http

LEMMA DispatcherDone ==
  ASSUME TypeInv, KeyInv, DoneInv, Dispatcher
  PROVE  DoneInv'
<1>1. ASSUME NEW t \in Tasks, DropCancelled(t) \/ DropExpired(t)
      PROVE  DoneInv'
  <2>1. pc # "busy" /\ call.next = "idle" /\ UNCHANGED <<pc, view, disk>>
    BY <1>1, IdleFacts DEF DropCancelled, DropExpired, Dispatching, slot, tables
  <2>2. call'.next = "return" /\ call'.t = t
    BY <1>1, RunCall DEF DropCancelled, DropExpired
  <2>3. disk.row[t].status # "done"
    BY <1>1, NotDone DEF DropCancelled, DropExpired, Pending, Known
  <2>4. PICK r \in Record, s \in Terminal : mem' = [mem EXCEPT ![t] = Finished(r, s)] /\ s # "done"
    BY <1>1, GetTyped DEF DropCancelled, DropExpired, SetMem, Terminal
  <2>5. Finished(r, s).status = s
    BY FinishedFacts
  <2>6. mem'[t].status # "done" /\ \A u \in Tasks : u # t => mem'[u] = mem[u]
    BY <2>4, <2>5, Typed
  <2> QED
    BY <2>1, <2>2, <2>3, <2>6, PlainDone
<1>2. ASSUME NEW t \in Tasks, Claim(t)
      PROVE  DoneInv'
  <2>1. pc # "busy" /\ call.next = "idle" /\ UNCHANGED <<mem, pc, view, disk>> /\ t \in queued
    BY <1>2, IdleFacts DEF Claim, Dispatching, slot, tables
  <2>2. call'.t = t /\ call'.next = "mark running" /\ mem[t].status # "done"
    BY <1>2, <2>1, NotDone, RunCall DEF Claim
  <2> QED
    BY <2>1, <2>2, PlainDone
<1>3. CASE MarkRunning
  <2>1. PICK t \in Tasks : t = call.t
    BY <1>3, PlainReach DEF MarkRunning, Reaches, PlainLabels
  <2>2. /\ pc # "busy" /\ UNCHANGED <<pc, view, disk>> /\ call.next # "evict"
        /\ disk.row[t].status # "done"
    BY <1>3, <2>1, PlainReach
    DEF MarkRunning, Reaches, PlainLabels, slot, tables, KeyInv, CallInv, Pending
  <2>3. /\ call'.t = t /\ call'.next = "start task"
        /\ mem' = [mem EXCEPT ![t] = [mem[t] EXCEPT !.status = "running"]]
    BY <1>3, <2>1, RunCall DEF MarkRunning, SetMem
  <2>4. [mem[t] EXCEPT !.status = "running"].status = "running"
    BY GetTyped, UpdateFacts
  <2>5. mem'[t].status # "done" /\ \A u \in Tasks : u # t => mem'[u] = mem[u]
    BY <2>3, <2>4, Typed
  <2> QED
    BY <2>2, <2>3, <2>5, PlainDone
<1>4. CASE StartTask \/ DispatcherDies
  <2>1. /\ pc # "busy" /\ pc' # "busy" /\ UNCHANGED <<mem, view, disk>> /\ call.next # "evict"
        /\ call'.next = "idle" /\ call'.todo = <<>>
    BY <1>4, PlainReach, IdleCall DEF StartTask, DispatcherDies, Reaches, PlainLabels, slot, tables
  <2> QED
    BY <2>1, PlainDone
<1>5. CASE RecoverPending
  <2>1. /\ pc # "busy" /\ UNCHANGED <<pc, view, disk>> /\ call.next = "idle"
        /\ call'.next = "idle" /\ call'.todo = <<>>
    BY <1>5, IdleFacts DEF RecoverPending, Dispatching, slot, tables
  <2>2. \A t \in Tasks : mem'[t] = mem[t] \/ mem'[t] = disk.row[t]
    BY <1>5, ViewFacts DEF RecoverPending, Known, Pending
  <2> QED
    BY <2>1, <2>2, PlainDone
<1> QED
  BY <1>1, <1>2, <1>3, <1>4, <1>5 DEF Dispatcher

\* A step of the worker that does not mark its task done.
LEMMA WorkerDoneKeep ==
  ASSUME TypeInv, KeyInv, DoneInv, NEW t \in Tasks, t = at, at' = at, UNCHANGED <<view, disk>>,
         \A u \in Tasks : u # t => mem'[u] = mem[u],
         call.next # "evict", disk.row[t].status # "done", mem'[t].status # "done",
         call'.next # "discarded", call'.next = "release" => call'.fail # "unreliable",
         call'.todo # <<>> => call'.t = t
  PROVE  DoneInv'
<1>1. DoneRows'
  BY DEF DoneInv, DoneRows, DoneOk
<1>2. DoneBoth'
  <2>1. \A u \in Tasks : Finishing(u) => u = t
    BY DEF Finishing, TypeInv, ShapeInv
  <2> QED
    BY <2>1 DEF DoneInv, DoneBoth
<1>3. DoneMark'
  BY DEF DoneMark
<1> QED
  BY <1>1, <1>2, <1>3 DEF DoneInv

\* Its task is not done on disk before mark_done.
LEMMA WorkerNotDone ==
  ASSUME TypeInv, KeyInv, DoneInv, NEW t \in Tasks, t = at,
         pc # "busy" \/ (pc = "busy" /\ call.next # "release")
  PROVE  disk.row[t].status # "done"
<1>1. CASE pc # "busy"
  BY <1>1, SlotFacts
<1>2. CASE pc = "busy"
  BY <1>2 DEF DoneInv, DoneRows
<1> QED
  BY <1>1, <1>2

LEMMA WorkerDone ==
  ASSUME TypeInv, KeyInv, AuditInv, DoneInv, Worker
  PROVE  DoneInv'
<1>1. CASE Audit \/ (Execute /\ ~mem[at].cancel) \/ Send \/ PromptConfirmed \/ PromptRecorded
           \/ PromptNotSent \/ FailedEarly \/ Poll \/ Answered \/ Rebuilt
           \/ (Cancelled /\ pc = "rebuilding")
  <2>1. UNCHANGED <<mem, view, disk>> /\ at' = at
    BY <1>1 DEF Audit, Execute, Send, PromptConfirmed, PromptRecorded, PromptNotSent,
       FailedEarly, Poll, Answered, Rebuilt, Cancelled, Busy, Await, slot, tables
  <2>2. /\ at \in Tasks /\ call.next # "evict"
        /\ pc # "busy" \/ (pc = "busy" /\ call.next # "release")
        /\ pc # "busy" \/ call.next \in Live
    BY <1>1, IdleFacts, WorkerReach, Typed
    DEF Audit, Execute, Send, PromptConfirmed, PromptRecorded, PromptNotSent, FailedEarly,
        Poll, Answered, Rebuilt, Cancelled, AtAwait, Reaches, Live, WorkerLabels
  <2>3. PICK t \in Tasks : t = at
    BY <2>2
  <2>4. mem[t].status # "done" /\ disk.row[t].status # "done"
    BY <2>2, <2>3, BusyFacts
  <2>5. /\ call'.next # "discarded" /\ (call'.next = "release" => call'.fail # "unreliable")
        /\ call'.todo # <<>> => call'.t = t
    <3>1. CASE Audit \/ (Execute /\ ~mem[at].cancel) \/ PromptConfirmed \/ Poll \/ Rebuilt
      <4>1. call'.next \in {"execute", "send", "recorded", "on retry"} /\ call'.t = t
        BY <2>3, <3>1, RunCall DEF Audit, Execute, PromptConfirmed, Poll, Rebuilt
      <4> QED
        BY <4>1
    <3>2. CASE Send \/ PromptRecorded \/ PromptNotSent \/ FailedEarly
      BY <3>2, IdleCall DEF Send, PromptRecorded, PromptNotSent, FailedEarly, Await
    <3>3. CASE Answered
      <4>1. call'.next \in {"valid", "on retry"} /\ call'.t = t
        BY <2>3, <3>3, RunCall DEF Answered
      <4> QED
        BY <4>1
    <3>4. CASE Cancelled /\ pc = "rebuilding"
      <4>1. call'.next = "release" /\ call'.fail = "release" /\ call'.t = t
        BY <2>3, <3>4, RunCall DEF Cancelled
      <4> QED
        BY <4>1
    <3> QED
      BY <1>1, <3>1, <3>2, <3>3, <3>4
  <2> QED
    BY <2>1, <2>2, <2>3, <2>4, <2>5, WorkerDoneKeep
<1>2. CASE Begin \/ NotAudited
  <2>1. /\ at \in Tasks /\ at' = at /\ UNCHANGED <<view, disk>> /\ call.next # "evict"
        /\ pc # "busy" \/ (pc = "busy" /\ call.next # "release")
        /\ pc # "busy" \/ call.next \in Live
    BY <1>2, IdleFacts, WorkerReach, Typed
    DEF Begin, NotAudited, AtAwait, Reaches, Busy, Live, WorkerLabels, slot, tables
  <2>2. PICK t \in Tasks : t = at
    BY <2>1
  <2>3. mem[t].status = "running" /\ disk.row[t].status # "done" /\ mem[t] \in Record
    BY <2>1, <2>2, BusyFacts, GetTyped
  <2>4. PICK n \in {0} \cup Numbers : mem' = [mem EXCEPT ![t] = [mem[t] EXCEPT !.cur = n]]
    <3>1. mem[t].retries + 1 \in Numbers
      BY <2>3, Bounds DEF Record
    <3> QED
      BY <1>2, <2>2, <3>1 DEF Begin, NotAudited, SetMem
  <2>5. [mem[t] EXCEPT !.cur = n].status = "running"
    BY <2>3, UpdateFacts
  <2>6. mem'[t].status # "done" /\ \A u \in Tasks : u # t => mem'[u] = mem[u]
    BY <2>4, <2>5, Typed
  <2>7. call'.next \in {"audit", "failed early"} /\ call'.t = t
    BY <1>2, <2>2, RunCall DEF Begin, NotAudited
  <2> QED
    BY <2>1, <2>2, <2>3, <2>6, <2>7, WorkerDoneKeep
<1>3. CASE (Execute /\ mem[at].cancel) \/ OutcomeLost \/ Unreliable \/ OnRetry
           \/ (Cancelled /\ pc # "rebuilding")
  <2>1. /\ at \in Tasks /\ at' = at /\ UNCHANGED <<view, disk>> /\ call.next # "evict"
        /\ pc # "busy" \/ (pc = "busy" /\ call.next # "release")
    BY <1>3, IdleFacts, WorkerReach, Typed
    DEF Execute, OutcomeLost, Unreliable, OnRetry, Cancelled, AtAwait, Reaches, Busy,
        WorkerLabels, slot, tables
  <2>2. PICK t \in Tasks : t = at
    BY <2>1
  <2>3. /\ call'.next \in {"release", "requeue"} /\ call'.t = t
        /\ call'.fail = "release"
    BY <1>3, <2>2, RunCall DEF Execute, OutcomeLost, Unreliable, Unknown, OnRetry, Cancelled
  <2>4. \/ \E s \in Terminal : mem' = [mem EXCEPT ![t] = Finished(mem[t], s)] /\ s # "done"
        \/ \E s \in Pending : mem' = [mem EXCEPT ![t] = Retried(mem[t], s)]
                              /\ ~(mem[t].retries >= MaxRetries)
    BY <1>3, <2>2
    DEF Execute, OutcomeLost, Unreliable, Unknown, OnRetry, Cancelled, SetMem, Terminal, Pending
  <2>5. ~(mem[t].retries >= MaxRetries) => mem[t].retries < RetryBound
    BY GetTyped, Bounds DEF Record
  <2>6. mem'[t].status # "done" /\ \A u \in Tasks : u # t => mem'[u] = mem[u]
    <3>1. \E r : mem' = [mem EXCEPT ![t] = r] /\ r.status # "done"
      <4>1. \A s \in Terminal : Finished(mem[t], s).status = s
        BY GetTyped, FinishedFacts
      <4>2. mem[t].retries < RetryBound => \A s \in Pending : Retried(mem[t], s).status = s
        BY GetTyped, RetriedFacts
      <4>3. "done" \notin Pending
        BY DEF Pending
      <4> QED
        BY <2>4, <2>5, <4>1, <4>2, <4>3
    <3> QED
      BY <3>1, Typed
  <2> QED
    BY <2>1, <2>2, <2>3, <2>6, WorkerNotDone, WorkerDoneKeep
<1>4. CASE EnqueueRetry
  <2>1. PICK t \in Tasks : t = at
    BY <1>4, WorkerReach DEF EnqueueRetry, Reaches, WorkerLabels
  <2>2. /\ t = call.t /\ at' = at /\ UNCHANGED <<view, disk>> /\ call.next = "requeue"
    BY <1>4, <2>1, WorkerReach DEF EnqueueRetry, Reaches, WorkerLabels, slot, tables
  <2>3. mem[t].status \in Pending /\ disk.row[t] = mem[t]
    BY <1>4, <2>2 DEF EnqueueRetry, Reaches, KeyInv, CallInv
  <2>4. /\ call'.next = "release" /\ call'.t = t /\ call'.fail = "release"
        /\ mem' = mem \/ mem' = [mem EXCEPT ![t] = Finished(mem[t], "failed")]
    BY <1>4, <2>2, RunCall DEF EnqueueRetry, Requeue, SetMem
  <2>5. /\ \A u \in Tasks : u # t => mem'[u] = mem[u]
        /\ mem'[t].status # "done" /\ disk.row[t].status # "done"
    BY <2>3, <2>4, GetTyped, FinishedFacts, Typed DEF Terminal, Pending
  <2> QED
    BY <2>1, <2>2, <2>4, <2>5, WorkerDoneKeep
<1>5. CASE Release
  <2>1. /\ UNCHANGED <<mem, view, disk>> /\ pc' = "none" /\ call'.next = "idle" /\ call'.todo = <<>>
        /\ call.next = "release" /\ call.todo = <<>>
    BY <1>5, IdleCall DEF Release, tables, Reaches
  <2>2. DoneRows' /\ DoneMark'
    BY <2>1 DEF DoneInv, DoneRows, DoneOk, DoneMark
  <2>3. DoneBoth'
    BY <2>1 DEF DoneInv, DoneBoth, Finishing
  <2> QED
    BY <2>2, <2>3 DEF DoneInv
<1>6. CASE Valid
  <2>1. /\ at \in Tasks /\ at' = at /\ UNCHANGED <<view, disk>> /\ call.next = "valid"
        /\ pc = "busy" /\ pc' = "busy"
    BY <1>6, WorkerReach DEF Valid, Reaches, WorkerLabels, slot, tables
  <2>2. PICK t \in Tasks : t = at
    BY <2>1
  <2>3. /\ call'.next = "release" /\ call'.t = t /\ call'.todo = <<"ok", "row">>
        /\ call'.fail = "unreliable" /\ mem' = [mem EXCEPT ![t] = Finished(mem[t], "done")]
    BY <1>6, <2>2, RunCall DEF Valid, SetMem
  <2>4. PICK q \in Record : /\ q = Finished(mem[t], "done") /\ q.status = "done"
                            /\ q.cur = mem[t].cur
    BY GetTyped, FinishedFacts DEF Terminal
  <2>5. mem'[t] = q /\ \A u \in Tasks : u # t => mem'[u] = mem[u]
    BY <2>3, <2>4, Typed
  <2>6. disk.row[t].status = "running" /\ Audited(t)
    BY <2>1, <2>2 DEF KeyInv, SlotInv, Live, Running, AuditInv, AuditedInv
  <2>7. mem[t].cur # 0 /\ view.att[t][mem[t].cur] # "none"
    <3>1. mem[t].retries + 1 \in Numbers
      BY GetTyped, Bounds DEF Record
    <3> QED
      BY <2>6, <3>1, Bounds DEF Audited
  <2>8. Finishing(t)' /\ <<"ok", "row">> # <<"row">>
    BY <2>1, <2>2, <2>3, Literals DEF Finishing
  <2>9. DoneRows'
    BY <2>1, <2>2, <2>3, <2>6 DEF DoneInv, DoneRows, DoneOk
  <2>10. DoneBoth'
    <3>1. \A u \in Tasks : Finishing(u) => u = t
      BY <2>2 DEF Finishing, TypeInv, ShapeInv
    <3> QED
      BY <2>1, <2>5, <2>6, <2>8, <3>1 DEF DoneInv, DoneBoth
  <2>11. DoneMark'
    BY <2>1, <2>2, <2>3, <2>4, <2>5, <2>7, <2>8 DEF DoneMark
  <2> QED
    BY <2>9, <2>10, <2>11 DEF DoneInv
<1> QED
  BY <1>1, <1>2, <1>3, <1>4, <1>5, <1>6 DEF Worker

LEMMA RetentionDone ==
  ASSUME TypeInv, KeyInv, DoneInv, Retention
  PROVE  DoneInv'
<1>1. CASE Tick
  <2>1. /\ pc = "none" /\ pc' = "none" /\ call' = call /\ call.next = "idle" /\ call.todo = <<>>
    BY <1>1, IdleFacts DEF Tick, slot
  <2>2. /\ mem' = [t \in Tasks |-> Older(mem[t])]
        /\ view' = [view EXCEPT !.row = [t \in Tasks |-> Older(view.row[t])]]
        /\ disk' = [disk EXCEPT !.row = [t \in Tasks |-> Older(disk.row[t])]]
    BY <1>1 DEF Tick
  <2>3. /\ \A t \in Tasks : /\ mem'[t] = Older(mem[t])
                            /\ view'.row[t] = Older(view.row[t]) /\ disk'.row[t] = Older(disk.row[t])
        /\ view'.att = view.att /\ disk'.att = disk.att
    BY <2>2, Typed DEF Tables
  <2>4. \A r \in Record : /\ Older(r).status = r.status /\ Older(r).cur = r.cur
                          /\ Older(r).age = IF r.age \in 1..3 THEN r.age + 1 ELSE r.age
    BY OlderFacts
  <2>5. DoneRows'
    BY <2>1, <2>3, <2>4, GetTyped DEF DoneInv, DoneRows, DoneOk
  <2>6. DoneBoth'
    <3>1. \A t \in Tasks : mem[t].status = "done" =>
            disk.row[t].status = "done" /\ mem[t].age = disk.row[t].age
      BY <2>1 DEF DoneInv, DoneBoth, Finishing
    <3>2. \A t \in Tasks : /\ mem'[t].status = mem[t].status /\ disk'.row[t].status = disk.row[t].status
                           /\ mem[t].age = disk.row[t].age => mem'[t].age = disk'.row[t].age
      BY <2>3, <2>4, GetTyped
    <3> QED
      BY <3>1, <3>2 DEF DoneInv, DoneBoth, Known
  <2>7. DoneMark'
    BY <2>1 DEF DoneMark
  <2> QED
    BY <2>5, <2>6, <2>7 DEF DoneInv
<1>2. CASE Sweep \/ JanitorDies
  <2>1. /\ UNCHANGED <<mem, pc, view, disk>> /\ pc # "busy" /\ call.next # "evict"
        /\ \/ call'.next = "evict"
           \/ call'.next = "idle" /\ call'.todo = <<>>
    BY <1>2, IdleFacts, IdleCall, RunCall
    DEF Sweep, JanitorDies, slot, tables, Reaches, TypeInv, ShapeInv, WorkerLabels
  <2> QED
    BY <2>1, PlainDone
<1>3. CASE Evict
  <2>1. /\ UNCHANGED <<pc, view, disk>> /\ pc # "busy" /\ call'.next = "idle" /\ call'.todo = <<>>
    BY <1>3, IdleCall DEF Evict, slot, tables, Reaches, TypeInv, ShapeInv, WorkerLabels
  <2>2. \A t \in Tasks :
          \/ mem'[t] = NoRecord
          \/ mem'[t] = mem[t] /\ ~(mem[t].status \in Terminal /\ mem[t].age >= Evictable)
    BY <1>3 DEF Evict
  <2>3. DoneRows' /\ DoneMark'
    BY <2>1 DEF DoneInv, DoneRows, DoneOk, DoneMark
  <2>4. DoneBoth'
    BY <2>1, <2>2, NewFacts DEF DoneInv, DoneBoth, Finishing, NoRecord, Terminal
  <2> QED
    BY <2>3, <2>4 DEF DoneInv
<1> QED
  BY <1>1, <1>2, <1>3 DEF Retention

LEMMA RestartDone ==
  ASSUME TypeInv, KeyInv, DoneInv, Crash \/ Restart
  PROVE  DoneInv'
<1>1. call'.next = "idle" /\ call'.todo = <<>> /\ pc' = "none" /\ \A t \in Tasks : mem'[t] = NoRecord
  BY IdleCall DEF Crash, Restart, TypeInv, ShapeInv, NoCall, slot
<1>2. DoneBoth' /\ DoneMark'
  BY <1>1, NewFacts DEF DoneBoth, DoneMark, NoRecord
<1>3. CASE Crash
  <2>1. view' = disk /\ disk' = disk
    BY <1>3 DEF Crash
  <2>2. DoneRows'
    BY <1>1, <2>1 DEF DoneInv, DoneRows, DoneOk
  <2> QED
    BY <1>2, <2>2 DEF DoneInv
<1>4. CASE Restart
  <2>1. view' = disk' /\ disk' = Recovered(disk)
    BY <1>4 DEF Restart
  <2>2. ASSUME NEW t \in Tasks, disk'.row[t].status = "done"
        PROVE  disk'.row[t].cur # 0 /\ disk'.att[t][disk'.row[t].cur] = "ok"
    <3>1. disk.row[t] \in Record /\ "interrupted" \in Terminal
      BY GetTyped DEF Terminal
    <3>2. Finished(disk.row[t], "interrupted").status = "interrupted"
      BY <3>1, FinishedFacts
    <3>3. disk'.row[t] = disk.row[t]
      BY <2>1, <2>2, <3>2 DEF Recovered
    <3>4. disk.row[t].cur # 0 /\ disk.att[t][disk.row[t].cur] = "ok" /\ disk.row[t].cur \in Numbers
      BY <2>2, <3>1, <3>3 DEF DoneInv, DoneRows, DoneOk, Record
    <3>5. \A n \in Numbers : disk'.att[t][n] = IF disk.row[t].status = "running" /\ disk.att[t][n] = "open"
                                              THEN "error" ELSE disk.att[t][n]
      BY <2>1, RecoveredEffect, Typed
    <3> QED
      BY <3>3, <3>4, <3>5
  <2>3. DoneRows'
    BY <1>1, <2>1, <2>2 DEF DoneRows, DoneOk
  <2> QED
    BY <1>2, <2>3 DEF DoneInv
<1> QED
  BY <1>3, <1>4

LEMMA DoneInit ==
  ASSUME Init
  PROVE  DoneInv
<1>1. /\ \A t \in Tasks : ~Known(mem[t]) /\ ~Known(disk.row[t])
      /\ view = disk /\ pc = "none" /\ call.next = "idle" /\ call.todo = <<>>
  BY NewFacts DEF Init, EmptyTables, NoCall
<1> QED
  BY <1>1 DEF DoneInv, DoneRows, DoneOk, DoneBoth, DoneMark, Known

LEMMA DoneStep ==
  ASSUME TypeInv, KeyInv, AuditInv, DoneInv, [Next]_vars
  PROVE  DoneInv'
<1>1. CASE Next
  BY <1>1, TransactionDone, HttpDone, DispatcherDone, WorkerDone, RetentionDone, RestartDone
  DEF Next
<1>2. CASE UNCHANGED vars
  <2>1. UNCHANGED <<mem, view, disk, pc, at, call>>
    BY <1>2 DEF vars, tables, slot
  <2>2. DoneRows' /\ DoneBoth' /\ DoneMark'
    BY <2>1 DEF DoneInv, DoneRows, DoneOk, DoneBoth, DoneMark, Finishing
  <2> QED
    BY <2>2 DEF DoneInv
<1> QED
  BY <1>1, <1>2

LEMMA DoneInvIsTrue ==
  ASSUME TypeInv, DoneInv
  PROVE  DoneIsTrue
<1>1. DoneIsDurable
  BY IdleFacts DEF DoneIsDurable, DoneInv, DoneBoth, Finishing
<1>2. DoneHasOkAttempt
  BY DEF DoneHasOkAttempt, DoneInv, DoneRows, DoneOk
<1> QED
  BY <1>1, <1>2 DEF DoneIsTrue

\* Whatever fails or dies between the steps of mark_done, what a client is told
\* is done a restart finds done, with an attempt that succeeded.
THEOREM DoneStays == Spec => []DoneIsTrue
<1>1. Init => TypeInv /\ KeyInv /\ AuditInv /\ DoneInv
  BY TypeInit, KeyInit, AuditInit, DoneInit
<1>2. TypeInv /\ KeyInv /\ AuditInv /\ DoneInv /\ [Next]_vars
        => (TypeInv /\ KeyInv /\ AuditInv /\ DoneInv)'
  BY TypeStep, KeyStep, AuditStep, DoneStep
<1>3. TypeInv /\ KeyInv /\ AuditInv /\ DoneInv => DoneIsTrue
  BY DoneInvIsTrue
<1> QED
  BY <1>1, <1>2, <1>3, PTL DEF Spec

-----------------------------------------------------------------------------
(* Without failing writes: the writes.                                     *)

LEMMA QuietView ==
  ASSUME TypeInv, KeyInv, QuietInv
  PROVE  view = disk /\ ~open
BY DEF QuietInv, KeyInv, ViewInv

LEMMA WritingPair ==
  ASSUME TypeInv, QuietInv, Writing, NEW t \in Tasks
  PROVE  Same(t) \/ Behind(t)
BY DEF QuietInv, Dropped, Writing

LEMMA NeverRefused ==
  ASSUME TypeInv, KeyInv, AuditInv, QuietInv, Writing
  PROVE  ~Refused(Head(call.todo), call.t)
<1> DEFINE w == Head(call.todo)
<1>1. view = disk /\ WriteAt(call.next, w, Tail(call.todo))
  BY QuietView, WritingFacts
<1>2. CASE w = "row"
  <2>1. call.t \in Tasks /\ Known(mem[call.t])
    BY <1>2, RowKnown
  <2>2. Known(disk.row[call.t])
    BY <2>1, WritingPair DEF Same, Behind
  <2>3. ~Clash(view, call.t)
    BY <1>1, <2>1, <2>2 DEF Clash, KeyInv, Unique
  <2> QED
    BY <1>2, <2>3 DEF Refused
<1>3. CASE w = "create"
  <2>1. ~HasKey(view)
    BY <1>1, <1>3 DEF Writing, WriteAt, KeyInv, CallInv
  <2>2. ~Clash(view, call.t)
    BY <2>1 DEF Clash, HasKey
  <2> QED
    BY <1>3, <2>2 DEF Refused
<1>4. CASE w = "insert"
  <2>1. PICK t \in Tasks : t = call.t /\ t = at
    BY <1>1, <1>4, WorkerReach DEF WriteAt, WorkerLabels
  <2>2. call.next = "execute" /\ call.todo # <<>>
    BY <1>1, <1>4 DEF WriteAt, Writing
  <2>3. Known(view.row[t])
    BY <1>1, <2>1, <2>2 DEF KeyInv, SlotInv, Live, Running, Known
  <2>4. NextFresh(t)
    BY <2>1, <2>2 DEF AuditInv, NextInv
  <2>5. mem[t].retries + 1 \in Numbers /\ mem[t].retries + 1 > mem[t].retries
    BY GetTyped, Bounds DEF Record
  <2>6. view.att[t][mem[t].retries + 1] = "none"
    BY <2>4, <2>5 DEF NextFresh
  <2> QED
    BY <1>4, <2>1, <2>3, <2>6 DEF Refused
<1>5. CASE w = "event"
  <2>1. call.next = "mark running" /\ call.t \in Tasks
    BY <1>1, <1>5, PlainReach DEF WriteAt, PlainLabels
  <2>2. Known(view.row[call.t])
    BY <1>1, <2>1 DEF KeyInv, CallInv, Known, Pending
  <2> QED
    BY <1>5, <2>2 DEF Refused
<1> QED
  BY <1>2, <1>3, <1>4, <1>5 DEF Refused

\* Nothing raises unless a write fails for a reason of its own.
LEMMA RaiseQuiet ==
  ASSUME TypeInv, KeyInv, AuditInv, QuietInv, RaiseGuarded \/ RaisePlain
  PROVE  faults' = faults + 1
BY NeverRefused, QuietView DEF RaiseGuarded, RaisePlain

\* The tables after a write.
LEMMA QuietWrite ==
  ASSUME TypeInv, KeyInv, AuditInv, QuietInv, Write
  PROVE  LET w == Head(call.todo) t == call.t IN
         /\ view' = disk' /\ ~open'
         /\ \/ UNCHANGED disk /\ w \in {"note", "ok", "error", "unknown"} /\ Skipped(w, t)
            \/ \A u \in Tasks :
                 /\ disk'.row[u] = RowAfter(disk, t, w, u)
                 /\ \A n \in Numbers : disk'.att[u][n] = AttAfter(disk, t, w, u, n)
<1> DEFINE w == Head(call.todo)
<1> DEFINE t == call.t
<1>1. /\ t \in {0} \cup Tasks /\ w \in Guarded \cup Plain /\ (t = 0 => w = "prune")
      /\ Writing /\ disk \in Tables
  BY WritingFacts, Typed DEF Write, WriteAt
<1>2. view = disk /\ ~open
  BY QuietView
<1>3. CASE Skipped(w, t)
  BY <1>2, <1>3 DEF Write, tables, Skipped
<1>4. CASE ~Skipped(w, t)
  <2>1. view' = Effect(disk, t, w) /\ disk' = view' /\ ~open'
    BY <1>2, <1>4 DEF Write
  <2>2. TypeOK
    BY DEF TypeInv
  <2> QED
    BY <1>1, <2>1, <2>2, EffectRow, EffectAtt
<1> QED
  BY <1>3, <1>4

-----------------------------------------------------------------------------
LEMMA WriteOpens ==
  ASSUME TypeInv, KeyInv, AuditInv, QuietInv, Write, Head(call.todo) # "insert",
         NEW u \in Tasks, NEW n \in Numbers, disk'.att[u][n] = "open"
  PROVE  disk.att[u][n] = "open"
BY QuietWrite DEF AttAfter

LEMMA CloseHead ==
  \A todo \in Closing : /\ Head(todo) \in {"ok", "error", "unknown"}
                        /\ Tail(todo) = <<"row">> /\ todo # <<"row">>
BY Literals DEF Closing

\* Closing the attempt a record names leaves none open.
LEMMA ClosedNow ==
  ASSUME TypeInv, KeyInv, AuditInv, QuietInv, Write, NEW t \in Tasks,
         Behind(t), call.todo \in Closing
  PROVE  NoOpen(t)'
<1>1. /\ Head(call.todo) \in {"ok", "error", "unknown"} /\ call.t = t
      /\ mem[t].cur = disk.row[t].cur
  BY CloseHead DEF Behind
<1> SUFFICES ASSUME NEW n \in Numbers, disk'.att[t][n] = "open"
             PROVE  FALSE
  BY DEF NoOpen
<1>2. disk.att[t][n] = "open"
  BY <1>1, WriteOpens
<1>3. n = mem[t].cur
  BY <1>1, <1>2 DEF QuietInv, OpenAttemptIsRunning
<1>4. ~Skipped(Head(call.todo), t)
  BY <1>3, Bounds DEF Skipped
<1>5. disk'.att[t][n] = Head(call.todo)
  BY <1>1, <1>2, <1>3, <1>4, QuietWrite DEF AttAfter
<1> QED
  BY <1>1, <1>5

LEMMA WritePair ==
  ASSUME TypeInv, KeyInv, AuditInv, QuietInv, Write, NEW u \in Tasks
  PROVE  Same(u)' \/ Behind(u)' \/ Dropped(u)'
<1> DEFINE w == Head(call.todo)
<1>1. /\ Writing /\ WriteAt(call.next, w, Tail(call.todo)) /\ mem' = mem
      /\ call'.t = call.t /\ call'.next = call.next /\ call'.todo = Tail(call.todo)
      /\ w \in Guarded \cup Plain
  BY WritingFacts, OnFacts DEF Write
<1>2. Same(u) \/ Behind(u)
  BY <1>1, WritingPair
<1>3. Behind(u) => u = call.t /\ w \in {"ok", "error", "unknown", "row"}
  BY CloseHead, Literals DEF Behind
<1>4. CASE w = "prune"
  <2>1. Same(u) /\ call'.next = "evict" /\ call'.todo = <<>>
    BY <1>1, <1>2, <1>3, <1>4 DEF WriteAt
  <2>2. disk'.row[u] = Kept(disk.row[u])
    BY <1>4, QuietWrite DEF RowAfter
  <2>3. disk.row[u].age \in Ages
    BY GetTyped DEF Record
  <2>4. CASE disk.row[u].status \in Terminal /\ disk.row[u].age >= Redactable
    <3>1. disk.row[u].age >= Evictable
      BY <2>3, <2>4 DEF Redactable, Evictable, Ages
    <3> QED
      BY <1>1, <2>1, <2>4, <3>1 DEF Same, Dropped
  <2>5. CASE ~(disk.row[u].status \in Terminal /\ disk.row[u].age >= Redactable)
    <3>1. disk'.row[u] = disk.row[u]
      BY <2>2, <2>3, <2>5 DEF Kept, Redactable, Deletable, Ages
    <3> QED
      BY <1>1, <2>1, <3>1 DEF Same
  <2> QED
    BY <2>4, <2>5
<1>5. CASE w # "prune" /\ u # call.t
  <2>1. disk'.row[u] = disk.row[u]
    BY <1>5, QuietWrite DEF RowAfter
  <2> QED
    BY <1>1, <1>2, <1>3, <1>5, <2>1 DEF Same
<1>6. CASE w = "row" /\ u = call.t
  BY <1>1, <1>6, QuietWrite DEF RowAfter, Same
<1>7. CASE w = "create" /\ u = call.t
  <2>1. ~Known(disk.row[u])
    BY <1>1, <1>7, QuietView DEF Writing, WriteAt, KeyInv, CallInv, HasKey
  <2>2. ~Known(mem[u])
    BY <1>2, <1>3, <1>7, <2>1 DEF Same
  <2> QED
    BY <1>1, <2>2 DEF Same
<1>8. CASE w = "delete" /\ u = call.t
  BY <1>1, <1>8 DEF WriteAt, Dropped
<1>9. CASE w \in {"insert", "lookup", "event", "note"} /\ u = call.t
  <2>1. disk'.row[u] = disk.row[u]
    BY <1>9, QuietWrite DEF RowAfter
  <2> QED
    BY <1>1, <1>2, <1>3, <1>9, <2>1 DEF Same
<1>10. CASE w \in {"ok", "error", "unknown"} /\ u = call.t
  <2>1. disk'.row[u] = disk.row[u]
    BY <1>10, QuietWrite DEF RowAfter
  <2>2. CASE Same(u)
    BY <1>1, <2>1, <2>2 DEF Same
  <2>3. CASE Behind(u)
    <3>1. call.todo \in Closing
      BY <1>10, <2>3, Literals DEF Behind
    <3>2. NoOpen(u)' /\ call'.todo = <<"row">>
      BY <1>1, <2>3, <3>1, ClosedNow, CloseHead
    <3> QED
      BY <1>1, <1>10, <2>1, <2>3, <3>2 DEF Behind
  <2> QED
    BY <1>2, <2>2, <2>3
<1> QED
  BY <1>1, <1>4, <1>5, <1>6, <1>7, <1>8, <1>9, <1>10 DEF Guarded, Plain

LEMMA WriteRunning ==
  ASSUME TypeInv, KeyInv, AuditInv, QuietInv, Write
  PROVE  OpenAttemptIsRunning'
<1> DEFINE w == Head(call.todo)
<1>1. /\ Writing /\ WriteAt(call.next, w, Tail(call.todo)) /\ w \in Guarded \cup Plain
  BY WritingFacts DEF Write
<1> SUFFICES ASSUME NEW u \in Tasks, NEW n \in Numbers, disk'.att[u][n] = "open"
             PROVE  disk'.row[u].status = "running" /\ disk'.row[u].cur = n
  BY DEF OpenAttemptIsRunning
<1>2. CASE w = "insert"
  <2>1. call.next = "execute" /\ call.todo # <<>>
    BY <1>1, <1>2 DEF WriteAt, Writing
  <2>2. PICK t \in Tasks : t = call.t /\ t = at
    BY <2>1, WorkerReach DEF WorkerLabels
  <2>3. disk'.row[u] = disk.row[u] /\ disk'.att[u][n] = AttAfter(disk, t, w, u, n)
    BY <1>2, <2>2, QuietWrite DEF RowAfter
  <2>4. NoOpen(t)
    BY <2>1, <2>2 DEF QuietInv, StartInv
  <2>5. CASE u = t
    <3>1. n = mem[t].retries + 1
      BY <1>2, <2>3, <2>4, <2>5 DEF AttAfter, NoOpen
    <3>2. disk.row[t].cur = n
      BY <2>1, <2>2, <3>1 DEF AuditInv, AuditedInv
    <3>3. disk.row[t].status = "running"
      BY <2>1, <2>2 DEF KeyInv, SlotInv, Live, Running
    <3> QED
      BY <2>3, <2>5, <3>2, <3>3
  <2>6. CASE u # t
    BY <1>2, <2>3, <2>6 DEF AttAfter, QuietInv, OpenAttemptIsRunning
  <2> QED
    BY <2>5, <2>6
<1>3. CASE w # "insert"
  <2>1. /\ disk.att[u][n] = "open" /\ disk.row[u].status = "running"
        /\ disk.row[u].cur = n
    BY <1>3, WriteOpens DEF QuietInv, OpenAttemptIsRunning
  <2>2. CASE w = "prune"
    BY <2>1, <2>2, QuietWrite DEF RowAfter, Kept, Terminal
  <2>3. CASE w = "row" /\ u = call.t
    <3>1. disk'.row[u] = mem[u] /\ Known(mem[u])
      BY <2>3, QuietWrite, RowKnown, <1>1 DEF RowAfter
    <3>2. Same(u) \/ Behind(u)
      BY <1>1, WritingPair
    <3>3. CASE Behind(u)
      <4>1. call.todo = <<"row">>
        BY <2>3, <3>3, CloseHead DEF Behind
      <4>2. mem[u].status = disk.row[u].status /\ mem[u].cur = disk.row[u].cur
        BY <2>1, <3>3, <4>1 DEF Behind, NoOpen
      <4> QED
        BY <2>1, <3>1, <4>2
    <3> QED
      BY <2>1, <3>1, <3>2, <3>3 DEF Same
  <2>4. CASE w = "create" /\ u = call.t
    <3>1. ~Known(disk.row[u])
      BY <1>1, <2>4, QuietView DEF Writing, WriteAt, KeyInv, CallInv, HasKey
    <3> QED
      BY <2>1, <3>1 DEF Known
  <2>5. CASE w = "delete" /\ u = call.t
    <3>1. disk'.att[u][n] = "none"
      BY <2>5, QuietWrite DEF AttAfter
    <3> QED
      BY <3>1
  <2>6. CASE w # "prune" /\ (u # call.t \/ w \notin {"row", "create", "delete"})
    <3>1. disk'.row[u] = disk.row[u]
      BY <2>6, QuietWrite DEF RowAfter
    <3> QED
      BY <2>1, <3>1
  <2> QED
    BY <2>2, <2>3, <2>4, <2>5, <2>6
<1> QED
  BY <1>2, <1>3

LEMMA WriteStart ==
  ASSUME TypeInv, KeyInv, AuditInv, QuietInv, Write
  PROVE  StartInv'
<1>1. /\ Writing /\ WriteAt(call.next, Head(call.todo), Tail(call.todo))
      /\ call'.t = call.t /\ call'.next = call.next /\ call'.todo = Tail(call.todo)
      /\ pc' = pc /\ at' = at
  BY WritingFacts, OnFacts DEF Write, slot
<1>2. CASE Head(call.todo) = "insert"
  <2>1. call.next = "execute" /\ call'.todo = <<>>
    BY <1>1, <1>2 DEF WriteAt
  <2>2. pc = "busy"
    BY <2>1, WorkerReach DEF WorkerLabels
  <2> QED
    BY <1>1, <2>1, <2>2 DEF StartInv
<1>3. CASE Head(call.todo) # "insert"
  <2>1. ASSUME NEW u \in Tasks, NoOpen(u)
        PROVE  NoOpen(u)'
    BY <1>3, <2>1, WriteOpens DEF NoOpen
  <2>2. pc = "spawned" => at \in Tasks
    BY Typed
  <2>3. call.next \in {"mark running", "start task", "audit", "execute"} => call.t \in Tasks
    BY PlainReach, WorkerReach DEF PlainLabels, WorkerLabels
  <2>4. call.todo # <<>>
    BY <1>1 DEF Writing
  <2>5. StartInv
    BY DEF QuietInv
  <2>6. ASSUME NEW u \in Tasks, u = at, pc = "spawned"
        PROVE  NoOpen(u)'
    BY <2>1, <2>5, <2>6 DEF StartInv
  <2>7. ASSUME NEW u \in Tasks, u = call.t,
               call.next \in {"mark running", "start task", "audit", "execute"}
        PROVE  NoOpen(u)'
    BY <2>1, <2>4, <2>5, <2>7 DEF StartInv
  <2> QED
    BY <1>1, <2>2, <2>3, <2>6, <2>7 DEF StartInv
<1> QED
  BY <1>2, <1>3

LEMMA WriteQuiet ==
  ASSUME TypeInv, KeyInv, AuditInv, QuietInv, Write
  PROVE  QuietInv'
<1>1. ~open' /\ call'.next = call.next /\ UNCHANGED <<up, disp, janitor>>
  BY QuietWrite, OnFacts DEF Write, loops
<1> QED
  BY <1>1, WritePair, WriteRunning, WriteStart DEF QuietInv

-----------------------------------------------------------------------------
(* Without failing writes: the steps that write nothing.                   *)

LEMMA QuietRest ==
  ASSUME TypeInv, KeyInv, QuietInv, call.todo = <<>>,
         call.next \notin {"discarded", "evict"}, NEW t \in Tasks
  PROVE  Same(t) /\ Get(t) = disk.row[t] /\ view.row[t] = disk.row[t]
<1>1. Same(t)
  <2>1. call.todo \notin Closing \cup {<<"row">>}
    BY Literals DEF Closing
  <2> QED
    BY <2>1 DEF QuietInv, Behind, Dropped
<1> QED
  BY <1>1, QuietView DEF Get, Same

\* A change that ends an attempt, before its first write.
LEMMA BehindClosing ==
  ASSUME NEW t \in Tasks, call'.t = t, Known(disk.row[t]), disk' = disk,
         call'.todo \in Closing, mem'[t].cur = disk.row[t].cur
  PROVE  Behind(t)'
BY CloseHead DEF Behind

LEMMA ClosingWrites ==
  <<"error", "row">> \in Closing /\ <<"unknown", "row">> \in Closing
    /\ <<"ok", "row">> \in Closing
BY DEF Closing

LEMMA QuietKeep ==
  ASSUME TypeInv, KeyInv, QuietInv, call.todo = <<>>,
         call.next \notin {"discarded", "evict"},
         UNCHANGED <<disk, open, disp, janitor, up>>,
         call'.next \notin Failures, StartInv',
         \A t \in Tasks : mem'[t] = mem[t] \/ Same(t)' \/ Behind(t)'
  PROVE  QuietInv'
<1>1. \A t \in Tasks : Same(t)' \/ Behind(t)'
  <2> TAKE t \in Tasks
  <2>1. Same(t)
    BY QuietRest
  <2> QED
    BY <2>1 DEF Same
<1>2. OpenAttemptIsRunning'
  BY DEF QuietInv, OpenAttemptIsRunning
<1> QED
  BY <1>1, <1>2 DEF QuietInv

\* No attempt is open of a task that is not running.
LEMMA NotRunning ==
  ASSUME QuietInv, NEW t \in Tasks, disk.row[t].status # "running"
  PROVE  NoOpen(t)
BY DEF QuietInv, OpenAttemptIsRunning, NoOpen

\* Steps that start no attempt.
LEMMA StartKept ==
  ASSUME TypeInv, QuietInv, UNCHANGED disk, pc' = "spawned" => pc = "spawned" /\ at' = at,
         call'.next \notin {"mark running", "start task", "audit", "execute"}
  PROVE  StartInv'
<1>1. pc = "spawned" => NoOpen(at)
  BY DEF QuietInv, StartInv
<1> QED
  BY <1>1 DEF StartInv, NoOpen

LEMMA HttpQuiet ==
  ASSUME TypeInv, KeyInv, QuietInv, Http
  PROVE  QuietInv'
<1>1. ASSUME NEW t \in Tasks, Submit(t)
      PROVE  QuietInv'
  <2>1. /\ call.todo = <<>> /\ call.next = "idle"
        /\ UNCHANGED <<mem, pc, at, disk, open, disp, janitor, up>>
    BY <1>1, IdleFacts DEF Submit, slot, tables, loops
  <2>2. call'.next \in {"reuse", "created"}
    BY <1>1, RunCall DEF Submit
  <2>3. StartInv'
    BY <2>1, <2>2, StartKept
  <2> QED
    BY <2>1, <2>2, <2>3, QuietKeep DEF Failures
<1>2. ASSUME NEW t \in Tasks, Cancel(t)
      PROVE  QuietInv'
  <2>1. /\ call.todo = <<>> /\ call.next = "idle"
        /\ UNCHANGED <<pc, at, disk, open, disp, janitor, up>>
    BY <1>2, IdleFacts DEF Cancel, slot, tables, loops
  <2>2. /\ call'.next = "stop worker" /\ call'.t = t /\ call'.todo = <<"row">>
        /\ mem' = [mem EXCEPT ![t] = [Get(t) EXCEPT !.cancel = TRUE]]
        /\ Known(Get(t))
    BY <1>2, RunCall DEF Cancel, SetMem, Known, Pending
  <2>3. PICK r \in Record : r = disk.row[t] /\ r = Get(t)
    BY <2>1, QuietRest, GetTyped
  <2>4. /\ [r EXCEPT !.cancel = TRUE].status = r.status
        /\ [r EXCEPT !.cancel = TRUE].cur = r.cur
    BY UpdateFacts
  <2>5. /\ mem'[t].status = disk.row[t].status /\ mem'[t].cur = disk.row[t].cur
        /\ \A u \in Tasks : u # t => mem'[u] = mem[u]
    <3>1. mem' = [mem EXCEPT ![t] = [r EXCEPT !.cancel = TRUE]]
      BY <2>2, <2>3
    <3> QED
      BY <2>3, <2>4, <3>1, Typed
  <2>6. Behind(t)'
    <3>1. /\ call'.todo \in Closing \cup {<<"row">>} /\ Known(disk'.row[t])
      BY <2>1, <2>2, <2>3
    <3> QED
      BY <2>1, <2>2, <2>5, <3>1 DEF Behind
  <2>7. StartInv'
    BY <2>1, <2>2, StartKept
  <2> QED
    BY <2>1, <2>2, <2>5, <2>6, <2>7, QuietKeep DEF Failures
<1>3. ASSUME NEW t \in Tasks, ManualRetry(t)
      PROVE  QuietInv'
  <2>1. /\ call.todo = <<>> /\ call.next = "idle"
        /\ UNCHANGED <<pc, at, disk, open, disp, janitor, up>>
    BY <1>3, IdleFacts DEF ManualRetry, slot, tables, loops
  <2>2. /\ call'.next = "enqueue by hand" /\ call'.t = t /\ call'.todo = <<"error", "row">>
        /\ mem' = [mem EXCEPT ![t] = Retried(Get(t), "queued")]
        /\ Known(Get(t)) /\ Get(t).retries < RetryBound
    BY <1>3, RunCall DEF ManualRetry, SetMem, Known, Terminal
  <2>3. Get(t) = disk.row[t]
    BY <2>1, QuietRest
  <2>4. /\ mem'[t].cur = disk.row[t].cur
        /\ \A u \in Tasks : u # t => mem'[u] = mem[u]
    <3>1. PICK r \in Record : r = Get(t)
      BY GetTyped
    <3>2. Retried(r, "queued").cur = r.cur
      BY <2>2, <3>1, RetriedFacts DEF Pending
    <3>3. mem' = [mem EXCEPT ![t] = Retried(r, "queued")]
      BY <2>2, <3>1
    <3> QED
      BY <2>3, <3>1, <3>2, <3>3, Typed
  <2>5. Behind(t)'
    BY <2>1, <2>2, <2>3, <2>4, BehindClosing, ClosingWrites
  <2>6. StartInv'
    BY <2>1, <2>2, StartKept
  <2> QED
    BY <2>1, <2>2, <2>4, <2>5, <2>6, QuietKeep DEF Failures
<1>4. CASE Reuse \/ Created
  <2>1. PICK t \in Tasks : t = call.t
    BY <1>4, PlainReach DEF Reuse, Created, Reaches, PlainLabels
  <2>2. /\ call.todo = <<>> /\ call.next \in {"reuse", "created"}
        /\ UNCHANGED <<pc, at, disk, open, disp, janitor, up>>
    BY <1>4 DEF Reuse, Created, Reaches, slot, tables, loops
  <2>3. /\ mem'[t] = disk.row[t] /\ \A u \in Tasks : u # t => mem'[u] = mem[u]
    BY <1>4, <2>1, QuietView, Typed DEF Reuse, Created, SetMem
  <2>4. call'.next \in {"idle", "discarded"}
    BY <1>4, IdleCall, RunCall DEF Reuse, Created
  <2>5. Same(t)'
    BY <2>2, <2>3 DEF Same
  <2>6. StartInv'
    BY <2>2, <2>4, StartKept
  <2> QED
    BY <2>2, <2>3, <2>4, <2>5, <2>6, QuietKeep DEF Failures
<1>5. CASE Discarded
  <2>1. PICK t \in Tasks : t = call.t
    BY <1>5, PlainReach DEF Discarded, Reaches, PlainLabels
  <2>2. /\ call.todo = <<>> /\ call.next = "discarded" /\ call'.next = "idle"
        /\ UNCHANGED <<pc, at, disk, open, disp, janitor, up>>
    BY <1>5, IdleCall DEF Discarded, Reaches, slot, tables, loops
  <2>3. mem'[t] = NoRecord /\ \A u \in Tasks : u # t => mem'[u] = mem[u]
    BY <1>5, <2>1, Typed DEF Discarded, SetMem
  <2>4. \A u \in Tasks : Same(u)'
    <3> TAKE u \in Tasks
    <3>1. CASE u = t
      BY <2>3, <3>1, NewFacts DEF Same
    <3>2. CASE u # t
      <4>1. Same(u)
        BY <2>1, <2>2, <3>2 DEF QuietInv, Behind, Dropped
      <4> QED
        BY <2>2, <2>3, <3>2, <4>1 DEF Same
    <3> QED
      BY <3>1, <3>2
  <2>5. StartInv'
    BY <2>2, StartKept
  <2>6. OpenAttemptIsRunning'
    BY <2>2 DEF QuietInv, OpenAttemptIsRunning
  <2> QED
    BY <2>2, <2>4, <2>5, <2>6 DEF QuietInv, Failures
<1>6. CASE StopWorker \/ Returned
  <2>1. /\ call.todo = <<>> /\ call.next \in {"stop worker", "return"} /\ call'.next = "idle"
        /\ UNCHANGED <<mem, pc, at, disk, open, disp, janitor, up>>
    BY <1>6, IdleCall DEF StopWorker, Returned, Reaches, slot, tables, loops
  <2>2. StartInv'
    BY <2>1, StartKept
  <2> QED
    BY <2>1, <2>2, QuietKeep DEF Failures
<1>7. CASE EnqueueByHand
  <2>1. PICK t \in Tasks : t = call.t
    BY <1>7, PlainReach DEF EnqueueByHand, Reaches, PlainLabels
  <2>2. /\ call.todo = <<>> /\ call.next = "enqueue by hand"
        /\ UNCHANGED <<pc, at, disk, open, disp, janitor, up>>
    BY <1>7 DEF EnqueueByHand, Reaches, slot, tables, loops
  <2>3. mem[t].status \in Pending /\ disk.row[t] = mem[t]
    BY <2>1, <2>2 DEF KeyInv, CallInv
  <2>4. /\ call'.next = "return" /\ call'.t = t
        /\ \/ mem' = mem
           \/ /\ mem' = [mem EXCEPT ![t] = Finished(mem[t], "failed")]
              /\ call'.todo = <<"error", "row">>
    BY <1>7, <2>1, RunCall DEF EnqueueByHand, Requeue, SetMem
  <2>5. \A u \in Tasks : u # t => mem'[u] = mem[u]
    BY <2>4, Typed
  <2>6. mem'[t] = mem[t] \/ Behind(t)'
    <3>1. mem'[t].cur = disk.row[t].cur
      BY <2>3, <2>4, GetTyped, FinishedFacts, Typed DEF Terminal
    <3>2. Known(disk.row[t])
      BY <2>3 DEF Known, Pending
    <3> QED
      BY <2>2, <2>4, <3>1, <3>2, BehindClosing, ClosingWrites
  <2>7. StartInv'
    BY <2>2, <2>4, StartKept
  <2> QED
    BY <2>2, <2>4, <2>5, <2>6, <2>7, QuietKeep DEF Failures
<1> QED
  BY <1>1, <1>2, <1>3, <1>4, <1>5, <1>6, <1>7 DEF Http

-----------------------------------------------------------------------------
LEMMA DispatcherQuiet ==
  ASSUME TypeInv, KeyInv, QuietInv, Dispatcher
  PROVE  QuietInv'
<1>1. ASSUME NEW t \in Tasks, DropCancelled(t)
      PROVE  QuietInv'
  <2>1. /\ call.todo = <<>> /\ call.next = "idle" /\ t \in queued
        /\ UNCHANGED <<pc, at, disk, open, disp, janitor, up>>
    BY <1>1, IdleFacts DEF DropCancelled, Dispatching, slot, tables, loops
  <2>2. /\ call'.next = "return" /\ call'.t = t /\ call'.todo = <<"error", "row">>
        /\ mem' = [mem EXCEPT ![t] = Finished(mem[t], "cancelled")]
    BY <1>1, RunCall DEF DropCancelled, SetMem
  <2>3. Known(mem[t]) /\ mem[t] = disk.row[t]
    <3>1. Known(mem[t])
      BY <2>1 DEF KeyInv, QueueInv, Known, Pending
    <3> QED
      BY <2>1, <3>1, QuietRest DEF Same
  <2>4. /\ mem'[t].cur = disk.row[t].cur
        /\ \A u \in Tasks : u # t => mem'[u] = mem[u]
    <3>1. Finished(mem[t], "cancelled").cur = mem[t].cur
      BY GetTyped, FinishedFacts DEF Terminal
    <3> QED
      BY <2>2, <2>3, <3>1, Typed
  <2>5. Behind(t)'
    BY <2>1, <2>2, <2>3, <2>4, BehindClosing, ClosingWrites
  <2>6. StartInv'
    BY <2>1, <2>2, StartKept
  <2> QED
    BY <2>1, <2>2, <2>4, <2>5, <2>6, QuietKeep DEF Failures
<1>2. ASSUME NEW t \in Tasks, DropExpired(t)
      PROVE  QuietInv'
  <2>1. /\ call.todo = <<>> /\ call.next = "idle"
        /\ UNCHANGED <<pc, at, disk, open, disp, janitor, up>>
    BY <1>2, IdleFacts DEF DropExpired, Dispatching, slot, tables, loops
  <2>2. /\ call'.next = "return" /\ call'.t = t /\ call'.todo = <<"row">>
        /\ \E r : mem' = [mem EXCEPT ![t] = r]
    BY <1>2, RunCall DEF DropExpired, SetMem
  <2>3. disk.row[t].status \in Pending
    BY <1>2, QuietView DEF DropExpired, KeyInv, QueueInv
  <2>4. NoOpen(t) /\ Known(disk.row[t])
    BY <2>3, NotRunning DEF Pending, Known
  <2>5. \A u \in Tasks : u # t => mem'[u] = mem[u]
    BY <2>2, Typed
  <2>6. Behind(t)'
    <3>1. /\ call'.todo \in Closing \cup {<<"row">>} /\ Known(disk'.row[t])
      BY <2>1, <2>2, <2>4
    <3>2. NoOpen(t)'
      BY <2>1, <2>4 DEF NoOpen
    <3> QED
      BY <2>2, <3>1, <3>2 DEF Behind
  <2>7. StartInv'
    BY <2>1, <2>2, StartKept
  <2> QED
    BY <2>1, <2>2, <2>5, <2>6, <2>7, QuietKeep DEF Failures
<1>3. ASSUME NEW t \in Tasks, Claim(t)
      PROVE  QuietInv'
  <2>1. /\ call.todo = <<>> /\ call.next = "idle" /\ t \in queued /\ pc' = "none"
        /\ UNCHANGED <<mem, pc, at, disk, open, disp, janitor, up>>
    BY <1>3, IdleFacts DEF Claim, Dispatching, slot, tables, loops
  <2>2. call'.next = "mark running" /\ call'.t = t
    BY <1>3, RunCall DEF Claim
  <2>3. disk.row[t].status # "running"
    BY <2>1 DEF KeyInv, QueueInv, Pending
  <2>4. NoOpen(t)'
    BY <2>1, <2>3, NotRunning DEF NoOpen
  <2>5. StartInv'
    BY <2>1, <2>2, <2>4 DEF StartInv
  <2> QED
    BY <2>1, <2>2, <2>5, QuietKeep DEF Failures
<1>4. CASE MarkRunning
  <2>1. PICK t \in Tasks : t = call.t
    BY <1>4, PlainReach DEF MarkRunning, Reaches, PlainLabels
  <2>2. /\ call.todo = <<>> /\ call.next = "mark running"
        /\ UNCHANGED <<pc, at, disk, open, disp, janitor, up>>
    BY <1>4 DEF MarkRunning, Reaches, slot, tables, loops
  <2>3. /\ call'.next = "start task" /\ call'.t = t /\ call'.todo = <<"row">>
        /\ \E r : mem' = [mem EXCEPT ![t] = r]
    BY <1>4, <2>1, RunCall DEF MarkRunning, SetMem
  <2>4. /\ pc = "none" /\ Known(disk.row[t]) /\ NoOpen(t)
    BY <2>1, <2>2 DEF KeyInv, CallInv, Known, Pending, QuietInv, StartInv
  <2>5. \A u \in Tasks : u # t => mem'[u] = mem[u]
    BY <2>3, Typed
  <2>6. NoOpen(t)'
    BY <2>2, <2>4 DEF NoOpen
  <2>7. Behind(t)'
    <3>1. /\ call'.todo \in Closing \cup {<<"row">>} /\ Known(disk'.row[t])
      BY <2>2, <2>3, <2>4
    <3> QED
      BY <2>3, <2>6, <3>1 DEF Behind
  <2>8. StartInv'
    BY <2>2, <2>3, <2>4, <2>6 DEF StartInv
  <2> QED
    BY <2>2, <2>3, <2>5, <2>7, <2>8, QuietKeep DEF Failures
<1>5. CASE StartTask
  <2>1. PICK t \in Tasks : t = call.t
    BY <1>5, PlainReach DEF StartTask, Reaches, PlainLabels
  <2>2. /\ call.todo = <<>> /\ call.next = "start task" /\ at' = t
        /\ UNCHANGED <<mem, disk, open, disp, janitor, up>> /\ call'.next = "idle"
    BY <1>5, <2>1, IdleCall DEF StartTask, Reaches, tables, loops
  <2>3. NoOpen(t)'
    BY <2>1, <2>2 DEF QuietInv, StartInv, NoOpen
  <2>4. StartInv'
    BY <2>2, <2>3 DEF StartInv
  <2> QED
    BY <2>2, <2>4, QuietKeep DEF Failures
<1>6. CASE DispatcherDies
  BY <1>6 DEF DispatcherDies, Reaches, QuietInv, Failures
<1>7. CASE RecoverPending
  <2>1. /\ call.todo = <<>> /\ call.next = "idle" /\ call' = call
        /\ UNCHANGED <<pc, at, disk, open, disp, janitor, up>>
    BY <1>7, IdleFacts DEF RecoverPending, Dispatching, slot, tables, loops
  <2>2. \A t \in Tasks : mem'[t] = mem[t] \/ mem'[t] = disk.row[t]
    BY <1>7, QuietView DEF RecoverPending
  <2>3. \A t \in Tasks : mem'[t] = mem[t] \/ Same(t)'
    BY <2>1, <2>2 DEF Same
  <2>4. StartInv'
    BY <2>1, StartKept
  <2> QED
    BY <2>1, <2>3, <2>4, QuietKeep DEF Failures
<1> QED
  BY <1>1, <1>2, <1>3, <1>4, <1>5, <1>6, <1>7 DEF Dispatcher

LEMMA RetentionQuiet ==
  ASSUME TypeInv, KeyInv, QuietInv, Retention
  PROVE  QuietInv'
<1>1. CASE Tick
  <2>1. /\ call.todo = <<>> /\ call.next = "idle" /\ call' = call
        /\ UNCHANGED <<pc, at, open, disp, janitor, up>>
        /\ mem' = [t \in Tasks |-> Older(mem[t])]
        /\ disk' = [disk EXCEPT !.row = [t \in Tasks |-> Older(disk.row[t])]]
    BY <1>1, IdleFacts DEF Tick, slot, loops
  <2>2. /\ disk'.att = disk.att /\ \A t \in Tasks : disk'.row[t] = Older(disk.row[t])
    BY <2>1, Typed DEF Tables
  <2>3. \A t \in Tasks : /\ Older(mem[t]).status = mem[t].status
                         /\ Older(disk.row[t]).status = disk.row[t].status
                         /\ Older(disk.row[t]).cur = disk.row[t].cur
    BY GetTyped, OlderFacts
  <2>4. \A t \in Tasks : Same(t)'
    <3> TAKE t \in Tasks
    <3>1. Same(t)
      BY <2>1, QuietRest
    <3> QED
      BY <2>1, <2>2, <2>3, <3>1 DEF Same, Known
  <2>5. OpenAttemptIsRunning'
    BY <2>2, <2>3 DEF QuietInv, OpenAttemptIsRunning
  <2>6. StartInv'
    BY <2>1, <2>2 DEF QuietInv, StartInv, NoOpen
  <2> QED
    BY <2>1, <2>4, <2>5, <2>6 DEF QuietInv
<1>2. CASE Sweep
  <2>1. /\ call.todo = <<>> /\ call.next = "idle"
        /\ UNCHANGED <<mem, pc, at, disk, open, disp, janitor, up>>
    BY <1>2, IdleFacts DEF Sweep, slot, tables, loops
  <2>2. call'.next = "evict"
    BY <1>2, RunCall DEF Sweep
  <2>3. StartInv'
    BY <2>1, <2>2, StartKept
  <2> QED
    BY <2>1, <2>2, <2>3, QuietKeep DEF Failures
<1>3. CASE Evict
  <2>1. /\ call.todo = <<>> /\ call.next = "evict" /\ call'.next = "idle"
        /\ UNCHANGED <<pc, at, disk, open, disp, janitor, up>>
        /\ mem' = [t \in Tasks |->
             IF mem[t].status \in Terminal /\ mem[t].age >= Evictable
             THEN NoRecord ELSE mem[t]]
    BY <1>3, IdleCall DEF Evict, Reaches, slot, tables, loops
  <2>2. \A t \in Tasks : Same(t)'
    <3> TAKE t \in Tasks
    <3>1. CASE mem[t].status \in Terminal /\ mem[t].age >= Evictable
      BY <2>1, <3>1, NewFacts DEF Same
    <3>2. CASE ~(mem[t].status \in Terminal /\ mem[t].age >= Evictable)
      <4>1. call.todo \notin Closing \cup {<<"row">>}
        BY <2>1, Literals DEF Closing
      <4>2. Same(t)
        BY <2>1, <3>2, <4>1 DEF QuietInv, Behind, Dropped
      <4> QED
        BY <2>1, <3>2, <4>2 DEF Same
    <3> QED
      BY <3>1, <3>2
  <2>3. StartInv'
    BY <2>1, StartKept
  <2>4. OpenAttemptIsRunning'
    BY <2>1 DEF QuietInv, OpenAttemptIsRunning
  <2> QED
    BY <2>1, <2>2, <2>3, <2>4 DEF QuietInv, Failures
<1>4. CASE JanitorDies
  BY <1>4 DEF JanitorDies, Reaches, QuietInv, Failures
<1> QED
  BY <1>1, <1>2, <1>3, <1>4 DEF Retention

LEMMA RestartQuiet ==
  ASSUME TypeInv, QuietInv, Crash \/ Restart
  PROVE  QuietInv'
<1>1. CASE Crash
  <2>1. /\ ~open' /\ ~up' /\ pc' = "none" /\ call'.next = "idle" /\ disk' = disk
        /\ \A t \in Tasks : mem'[t] = NoRecord
    BY <1>1, IdleCall DEF Crash
  <2>2. \A t \in Tasks : Same(t)'
    BY <2>1, NewFacts DEF Same
  <2>3. OpenAttemptIsRunning' /\ StartInv'
    BY <2>1 DEF QuietInv, OpenAttemptIsRunning, StartInv
  <2> QED
    BY <2>1, <2>2, <2>3 DEF QuietInv, Failures
<1>2. CASE Restart
  <2>1. /\ call' = NoCall /\ pc' = "none" /\ ~open' /\ disp' /\ janitor' /\ mem' = mem
        /\ mem = [t \in Tasks |-> NoRecord] /\ disk' = Recovered(disk)
    BY <1>2 DEF Restart, slot, TypeInv, ShapeInv
  <2>2. \A t \in Tasks : Same(t)'
    BY <2>1, NewFacts DEF Same
  <2>3. \A t \in Tasks, n \in Numbers :
          disk'.att[t][n] = IF disk.row[t].status = "running" /\ disk.att[t][n] = "open"
                            THEN "error" ELSE disk.att[t][n]
    BY <2>1, Typed, RecoveredEffect
  <2>4. \A t \in Tasks, n \in Numbers : disk'.att[t][n] # "open"
    BY <2>3 DEF QuietInv, OpenAttemptIsRunning
  <2>5. OpenAttemptIsRunning'
    BY <2>4 DEF OpenAttemptIsRunning
  <2>6. StartInv' /\ call'.next \notin Failures
    BY <2>1 DEF StartInv, NoCall, Failures
  <2> QED
    BY <2>1, <2>2, <2>5, <2>6 DEF QuietInv
<1> QED
  BY <1>1, <1>2

-----------------------------------------------------------------------------
LEMMA WorkerQuiet ==
  ASSUME TypeInv, KeyInv, QuietInv, Worker
  PROVE  QuietInv'
<1>1. CASE Audit
  <2>1. PICK t \in Tasks : t = at /\ t = call.t
    BY <1>1, WorkerReach DEF Audit, Reaches, WorkerLabels
  <2>2. /\ call.todo = <<>> /\ call.next = "audit"
        /\ UNCHANGED <<mem, pc, at, disk, open, disp, janitor, up>> /\ pc = "busy"
    BY <1>1, WorkerReach DEF Audit, Reaches, WorkerLabels, slot, tables, loops
  <2>3. call'.next = "execute" /\ call'.t = t
    BY <1>1, <2>1, RunCall DEF Audit
  <2>4. NoOpen(t)'
    BY <2>1, <2>2 DEF QuietInv, StartInv, NoOpen
  <2>5. StartInv'
    BY <2>2, <2>3, <2>4 DEF StartInv
  <2> QED
    BY <2>2, <2>3, <2>5, QuietKeep DEF Failures
<1>2. CASE (Execute /\ ~mem[at].cancel) \/ Send \/ PromptConfirmed \/ PromptRecorded
           \/ PromptNotSent \/ Poll \/ Answered \/ Rebuilt
           \/ (Cancelled /\ pc = "rebuilding") \/ Release
  <2>1. UNCHANGED <<mem, disk, open, disp, janitor, up>>
    BY <1>2 DEF Execute, Send, PromptConfirmed, PromptRecorded, PromptNotSent,
       Poll, Answered, Rebuilt, Cancelled, Release, tables, loops
  <2>2. call.todo = <<>> /\ call.next \notin {"discarded", "evict"}
    BY <1>2, IdleFacts
    DEF Execute, Send, PromptConfirmed, PromptRecorded, PromptNotSent,
        Poll, Answered, Rebuilt, Cancelled, Release, AtAwait, Reaches
  <2>3. pc' # "spawned"
    BY <1>2, WorkerReach
    DEF Execute, Send, PromptConfirmed, PromptRecorded, PromptNotSent,
        Poll, Answered, Rebuilt, Cancelled, Release, Busy, Await, Reaches, WorkerLabels, slot
  <2>4. call'.next \in {"idle", "send", "recorded", "valid", "on retry", "release"}
    <3>1. CASE (Execute /\ ~mem[at].cancel) \/ PromptConfirmed \/ Poll \/ Answered \/ Rebuilt
      BY <3>1, RunCall DEF Execute, PromptConfirmed, Poll, Answered, Rebuilt
    <3>2. CASE Cancelled /\ pc = "rebuilding"
      BY <3>2, RunCall DEF Cancelled
    <3>3. CASE Send \/ PromptRecorded \/ PromptNotSent \/ Release
      BY <3>3, IdleCall DEF Send, PromptRecorded, PromptNotSent, Release, Await
    <3> QED
      BY <1>2, <3>1, <3>2, <3>3
  <2>5. StartInv'
    BY <2>3, <2>4 DEF StartInv
  <2> QED
    BY <2>1, <2>2, <2>4, <2>5, QuietKeep DEF Failures
<1>3. CASE Begin
  <2>1. PICK t \in Tasks : t = at
    BY <1>3, Typed DEF Begin, AtAwait
  <2>2. /\ call.todo = <<>> /\ call.next = "idle" /\ pc = "spawned" /\ pc' = "busy"
        /\ UNCHANGED <<at, disk, open, disp, janitor, up>>
    BY <1>3, IdleFacts DEF Begin, AtAwait, Busy, tables, loops
  <2>3. /\ call'.next = "audit" /\ call'.t = t /\ call'.todo = <<"row">>
        /\ \E r : mem' = [mem EXCEPT ![t] = r]
    BY <1>3, <2>1, RunCall DEF Begin, SetMem
  <2>4. Known(disk.row[t])
    BY <2>1, <2>2, BusyFacts
  <2>5. NoOpen(t)'
    BY <2>1, <2>2 DEF QuietInv, StartInv, NoOpen
  <2>6. \A u \in Tasks : u # t => mem'[u] = mem[u]
    BY <2>3, Typed
  <2>7. Behind(t)'
    <3>1. /\ call'.todo \in Closing \cup {<<"row">>} /\ Known(disk'.row[t])
      BY <2>2, <2>3, <2>4
    <3> QED
      BY <2>3, <2>5, <3>1 DEF Behind
  <2>8. StartInv'
    BY <2>2, <2>3, <2>5 DEF StartInv
  <2> QED
    BY <2>2, <2>3, <2>6, <2>7, <2>8, QuietKeep DEF Failures
<1>4. CASE (Execute /\ mem[at].cancel) \/ OutcomeLost \/ OnRetry \/ Valid
           \/ (Cancelled /\ pc # "rebuilding")
  <2>1. /\ at \in Tasks /\ UNCHANGED <<disk, open, disp, janitor, up>>
        /\ call.todo = <<>> /\ call.next \notin {"evict", "discarded", "release"}
        /\ pc' = "busy"
    BY <1>4, IdleFacts, WorkerReach, Typed
    DEF Execute, OutcomeLost, OnRetry, Valid, Cancelled, AtAwait, Reaches, Busy,
        WorkerLabels, slot, tables, loops
  <2>2. PICK t \in Tasks : t = at
    BY <2>1
  <2>3. /\ call'.next \in {"release", "requeue"} /\ call'.t = t
        /\ call'.todo \in {<<"error", "row">>, <<"unknown", "row">>, <<"ok", "row">>}
    BY <1>4, <2>2, RunCall DEF Execute, OutcomeLost, Unknown, OnRetry, Valid, Cancelled
  <2>4. Known(mem[t]) /\ Known(disk.row[t]) /\ mem[t] = disk.row[t]
    <3>1. Known(mem[t]) /\ Known(disk.row[t])
      BY <2>1, <2>2, BusyFacts
    <3> QED
      BY <2>1, <3>1, QuietRest DEF Same
  <2>5. \/ \E s \in Terminal : mem' = [mem EXCEPT ![t] = Finished(mem[t], s)]
        \/ \E s \in Pending : mem' = [mem EXCEPT ![t] = Retried(mem[t], s)]
                              /\ ~(mem[t].retries >= MaxRetries)
    BY <1>4, <2>2
    DEF Execute, OutcomeLost, Unknown, OnRetry, Valid, Cancelled, SetMem, Terminal, Pending
  <2>6. ~(mem[t].retries >= MaxRetries) => mem[t].retries < RetryBound
    BY GetTyped, Bounds DEF Record
  <2>7. mem'[t].cur = disk.row[t].cur /\ \A u \in Tasks : u # t => mem'[u] = mem[u]
    <3>1. \E r : mem' = [mem EXCEPT ![t] = r] /\ r.cur = mem[t].cur
      <4>1. \A s \in Terminal : Finished(mem[t], s).cur = mem[t].cur
        BY GetTyped, FinishedFacts
      <4>2. mem[t].retries < RetryBound => \A s \in Pending : Retried(mem[t], s).cur = mem[t].cur
        BY GetTyped, RetriedFacts
      <4> QED
        BY <2>5, <2>6, <4>1, <4>2
    <3> QED
      BY <2>4, <3>1, Typed
  <2>8. Behind(t)'
    BY <2>1, <2>3, <2>4, <2>7, BehindClosing, ClosingWrites
  <2>9. StartInv'
    BY <2>1, <2>3 DEF StartInv
  <2> QED
    BY <2>1, <2>3, <2>7, <2>8, <2>9, QuietKeep DEF Failures
<1>5. CASE EnqueueRetry
  <2>1. PICK t \in Tasks : t = at /\ t = call.t
    BY <1>5, WorkerReach DEF EnqueueRetry, Reaches, WorkerLabels
  <2>2. /\ call.todo = <<>> /\ call.next = "requeue" /\ pc = "busy"
        /\ UNCHANGED <<pc, at, disk, open, disp, janitor, up>>
    BY <1>5, WorkerReach DEF EnqueueRetry, Reaches, WorkerLabels, slot, tables, loops
  <2>3. mem[t].status \in Pending /\ disk.row[t] = mem[t]
    BY <2>1, <2>2 DEF KeyInv, CallInv
  <2>4. /\ call'.next = "release" /\ call'.t = t
        /\ \/ mem' = mem
           \/ /\ mem' = [mem EXCEPT ![t] = Finished(mem[t], "failed")]
              /\ call'.todo = <<"error", "row">>
    BY <1>5, <2>1, RunCall DEF EnqueueRetry, Requeue, SetMem
  <2>5. \A u \in Tasks : u # t => mem'[u] = mem[u]
    BY <2>4, Typed
  <2>6. mem'[t] = mem[t] \/ Behind(t)'
    <3>1. mem'[t].cur = disk.row[t].cur
      BY <2>3, <2>4, GetTyped, FinishedFacts, Typed DEF Terminal
    <3>2. Known(disk.row[t])
      BY <2>3 DEF Known, Pending
    <3> QED
      BY <2>2, <2>4, <3>1, <3>2, BehindClosing, ClosingWrites
  <2>7. StartInv'
    BY <2>2, <2>4 DEF StartInv
  <2> QED
    BY <2>2, <2>4, <2>5, <2>6, <2>7, QuietKeep DEF Failures
<1>6. CASE NotAudited \/ FailedEarly \/ Unreliable
  BY <1>6 DEF NotAudited, FailedEarly, Unreliable, Reaches, QuietInv, Failures
<1> QED
  BY <1>1, <1>2, <1>3, <1>4, <1>5, <1>6 DEF Worker

LEMMA FaultlessInit ==
  ASSUME Init
  PROVE  FaultlessInv
<1>1. /\ ~open /\ disp /\ janitor /\ call.next = "idle" /\ pc = "none"
      /\ \A t \in Tasks : mem[t] = NoRecord
      /\ disk = EmptyTables
  BY DEF Init, NoCall
<1>2. \A t \in Tasks : Same(t)
  BY <1>1, NewFacts DEF Same
<1>3. OpenAttemptIsRunning /\ StartInv
  BY <1>1 DEF OpenAttemptIsRunning, EmptyTables, NoAttempts, StartInv
<1> QED
  BY <1>1, <1>2, <1>3 DEF FaultlessInv, QuietInv, Failures

LEMMA FaultlessStep ==
  ASSUME TypeInv, KeyInv, AuditInv, FaultlessInv, [Next]_vars
  PROVE  FaultlessInv'
<1> SUFFICES ASSUME faults' = 0
             PROVE  QuietInv'
  BY DEF FaultlessInv
<1>1. faults \in Nat
  BY StoreAssumption DEF TypeInv, TypeOK
<1>2. faults' = faults \/ faults' = faults + 1
  <2>1. CASE UNCHANGED vars
    BY <2>1 DEF vars, budget
  <2>2. CASE Transaction
    BY <2>2 DEF Transaction, Write, RaiseGuarded, RaisePlain, OtherTaskWrites, budget
  <2>3. CASE Http
    BY <2>3 DEF Http, Submit, Cancel, ManualRetry, Reuse, Created, Discarded, StopWorker,
       EnqueueByHand, Returned, budget
  <2>4. CASE Dispatcher
    BY <2>4 DEF Dispatcher, DropCancelled, DropExpired, Claim, RecoverPending, MarkRunning,
       StartTask, DispatcherDies, budget
  <2>5. CASE Worker
    BY <2>5 DEF Worker, Begin, Audit, NotAudited, Execute, Send, PromptConfirmed,
       PromptRecorded, PromptNotSent, FailedEarly, OutcomeLost, Poll, Answered, Valid,
       Unreliable, Rebuilt, OnRetry, EnqueueRetry, Cancelled, Release, budget
  <2>6. CASE Retention \/ Crash \/ Restart
    BY <2>6 DEF Retention, Tick, Sweep, Evict, JanitorDies, Crash, Restart, budget
  <2> QED
    BY <2>1, <2>2, <2>3, <2>4, <2>5, <2>6 DEF Next
<1>3. faults = 0 /\ faults' = faults
  BY <1>1, <1>2
<1>4. QuietInv
  BY <1>3 DEF FaultlessInv
<1>5. CASE UNCHANGED vars
  <2>1. UNCHANGED <<mem, disk, open, call, pc, at, disp, janitor, up>>
    BY <1>5 DEF vars, tables, slot, loops
  <2> QED
    BY <1>4, <2>1 DEF QuietInv, Same, Behind, Dropped, NoOpen, OpenAttemptIsRunning, StartInv
<1>6. CASE Transaction
  <2>1. ~(RaiseGuarded \/ RaisePlain)
    BY <1>3, <1>4, RaiseQuiet
  <2>2. ~OtherTaskWrites
    BY <1>4 DEF QuietInv, OtherTaskWrites
  <2> QED
    BY <1>4, <1>6, <2>1, <2>2, WriteQuiet DEF Transaction
<1> QED
  BY <1>4, <1>5, <1>6, HttpQuiet, DispatcherQuiet, WorkerQuiet, RetentionQuiet, RestartQuiet
  DEF Next

LEMMA FaultlessIsWhole ==
  ASSUME TypeInv, KeyInv, FaultlessInv
  PROVE  NothingForgotten /\ LoopsSurvive
<1>1. faults = 0 => WrittenThrough
  <2> SUFFICES ASSUME faults = 0, Idle, NEW t \in Tasks, Known(mem[t])
               PROVE  mem[t] = disk.row[t]
    BY DEF WrittenThrough
  <2>1. QuietInv /\ call.todo = <<>> /\ call.next = "idle"
    BY IdleFacts DEF FaultlessInv
  <2> QED
    BY <2>1, QuietRest DEF Same
<1> QED
  BY <1>1 DEF FaultlessInv, QuietInv, NothingForgotten, LoopsSurvive, TypeInv

\* Crashes and retention alone lose nothing: every open attempt is the current
\* one of a running row, and between two steps memory is what the table holds.
THEOREM NothingIsForgotten == Spec => []NothingForgotten
<1>1. Init => TypeInv /\ KeyInv /\ AuditInv /\ FaultlessInv
  BY TypeInit, KeyInit, AuditInit, FaultlessInit
<1>2. TypeInv /\ KeyInv /\ AuditInv /\ FaultlessInv /\ [Next]_vars
        => (TypeInv /\ KeyInv /\ AuditInv /\ FaultlessInv)'
  BY TypeStep, KeyStep, AuditStep, FaultlessStep
<1>3. TypeInv /\ KeyInv /\ AuditInv /\ FaultlessInv => NothingForgotten
  BY FaultlessIsWhole
<1> QED
  BY <1>1, <1>2, <1>3, PTL DEF Spec

\* Without a failing write no constraint refuses a row and nothing raises, so
\* neither the dispatcher nor the janitor ends.
THEOREM LoopsStay == Spec => []LoopsSurvive
<1>1. Init => TypeInv /\ KeyInv /\ AuditInv /\ FaultlessInv
  BY TypeInit, KeyInit, AuditInit, FaultlessInit
<1>2. TypeInv /\ KeyInv /\ AuditInv /\ FaultlessInv /\ [Next]_vars
        => (TypeInv /\ KeyInv /\ AuditInv /\ FaultlessInv)'
  BY TypeStep, KeyStep, AuditStep, FaultlessStep
<1>3. TypeInv /\ KeyInv /\ AuditInv /\ FaultlessInv => LoopsSurvive
  BY FaultlessIsWhole
<1> QED
  BY <1>1, <1>2, <1>3, PTL DEF Spec

=============================================================================
