------------------------------ MODULE Lifespan ------------------------------
(***************************************************************************)
(* Processes that start, serve and stop on one task database.  The file    *)
(* lock is taken first and given back last; in between a process opens the *)
(* database, declares the running rows it finds interrupted, starts the    *)
(* janitor, the dispatcher and the mDNS publisher, and undoes that in the  *)
(* finally clause.  A step of the clause that raises skips the rest of it; *)
(* the process then exits, and asyncio.run cancels what still runs.        *)
(***************************************************************************)
EXTENDS Naturals

CONSTANTS
  Procs,       \* processes started with the same configuration
  Tasks,       \* rows of the table
  Nobody,      \* no process
  MaxRuns,     \* bound: starts, of all processes together
  MaxCrashes   \* bound: crashes

ASSUME LifespanAssumption ==
  /\ Nobody \notin Procs
  /\ MaxRuns \in Nat /\ MaxCrashes \in Nat

VARIABLES
  lock,      \* who holds the flock
  pc,        \* pc[p]: where lifespan, or what comes after it, is
  conn,      \* conn[p]: the connection to the database is open
  disp,      \* disp[p]: the dispatcher task
  janitor,   \* janitor[p]: the janitor task
  row,       \* status of a task, "over" for done, failed and so on
  owner,     \* owner[t]: the process that started the last run_task of t,
             \* until that has returned or the process has ended
  at,        \* at[t]: where this run_task is, or how a cancel ended it
  runs,      \* starts so far
  crashes    \* crashes so far

process == <<pc, conn, disp, janitor>>
table == <<row, owner, at>>
vars == <<lock, process, table, runs, crashes>>

Goto(p, l) == pc' = [pc EXCEPT ![p] = l]

\* The coroutine of t exists.
Lives(t) == owner[t] # Nobody /\ at[t] \in {"new", "runs", "rebuilds"}

\* Mutant: what can still be closed is closed.
RaisedGoesOn(p) == Goto(p, "end db")

\* The rest of the finally clause is skipped.
Raised(p) == Goto(p, "exit")

-----------------------------------------------------------------------------
(* Startup.                                                                *)

Boot(p) ==
  /\ pc[p] = "down" /\ runs < MaxRuns
  /\ runs' = runs + 1 /\ Goto(p, "lock")
  /\ UNCHANGED <<lock, conn, disp, janitor, table, crashes>>

\* Mutant: a lock file without a living owner in it is good enough.
AcquireUnlocked(p) ==
  /\ pc[p] = "lock"
  /\ lock' = p /\ Goto(p, "init")
  /\ UNCHANGED <<conn, disp, janitor, table, runs, crashes>>

Acquire(p) ==
  /\ pc[p] = "lock" /\ lock = Nobody
  /\ lock' = p /\ Goto(p, "init")
  /\ UNCHANGED <<conn, disp, janitor, table, runs, crashes>>

\* Another process has it, or the file cannot be opened.
Refused(p) ==
  /\ pc[p] = "lock" /\ Goto(p, "exit")
  /\ UNCHANGED <<lock, conn, disp, janitor, table, runs, crashes>>

InitDb(p) ==
  /\ pc[p] = "init"
  /\ \/ conn' = [conn EXCEPT ![p] = TRUE] /\ Goto(p, "recover")
     \/ UNCHANGED conn /\ Goto(p, "release")      \* it raises
  /\ UNCHANGED <<lock, disp, janitor, table, runs, crashes>>

\* recover_unfinished.
Recovered ==
  [t \in Tasks |-> IF row[t] = "running" THEN "interrupted" ELSE row[t]]

Recover(p) ==
  /\ pc[p] = "recover"
  /\ \/ row' = Recovered /\ Goto(p, "start")
     \/ UNCHANGED row /\ Goto(p, "end db")
  /\ UNCHANGED <<lock, conn, disp, janitor, owner, at, runs, crashes>>

\* The store; then the pool, which may raise in its recovery pass.
Start(p) ==
  /\ pc[p] = "start"
  /\ janitor' = [janitor EXCEPT ![p] = "alive"]
  /\ \/ disp' = [disp EXCEPT ![p] = "alive"] /\ Goto(p, "announce")
     \/ UNCHANGED disp /\ Goto(p, "end pool")
  /\ UNCHANGED <<lock, conn, table, runs, crashes>>

\* The identity file may be unusable; the publisher itself does not raise.
Announce(p) ==
  /\ pc[p] = "announce"
  /\ Goto(p, "serve") \/ Goto(p, "end pool")
  /\ UNCHANGED <<lock, conn, disp, janitor, table, runs, crashes>>

-----------------------------------------------------------------------------
(* At work.                                                                *)

Submit(p, t) ==
  /\ pc[p] = "serve" /\ row[t] = "none"
  /\ row' = [row EXCEPT ![t] = "queued"]
  /\ UNCHANGED <<lock, process, owner, at, runs, crashes>>

\* mark_running and start_task.
Dispatch(p, t) ==
  /\ disp[p] = "alive" /\ row[t] = "queued"
  /\ row' = [row EXCEPT ![t] = "running"]
  /\ owner' = [owner EXCEPT ![t] = p]
  /\ at' = [at EXCEPT ![t] = "new"]
  /\ UNCHANGED <<lock, process, runs, crashes>>

Begin(t) ==
  /\ Lives(t) /\ at[t] = "new"
  /\ at' = [at EXCEPT ![t] = "runs"]
  /\ UNCHANGED <<lock, process, row, owner, runs, crashes>>

\* With an outcome, or on_retry puts the task back.
Returns(t, r) ==
  /\ row' = [row EXCEPT ![t] = r]
  /\ owner' = [owner EXCEPT ![t] = Nobody]
  /\ UNCHANGED <<lock, process, at, runs, crashes>>

Finish(t) ==
  /\ Lives(t) /\ at[t] = "runs"
  /\ \E r \in {"queued", "over"} : Returns(t, r)

\* A handler of run_task: an unknown outcome is written before the tab is
\* rebuilt, a failure before the send only afterwards.
Fails(t) ==
  /\ Lives(t) /\ at[t] = "runs"
  /\ \E r \in {"running", "over"} : row' = [row EXCEPT ![t] = r]
  /\ at' = [at EXCEPT ![t] = "rebuilds"]
  /\ UNCHANGED <<lock, process, owner, runs, crashes>>

Rebuilt(t) ==
  /\ Lives(t) /\ at[t] = "rebuilds"
  /\ IF row[t] = "running" THEN \E r \in {"queued", "over"} : Returns(t, r)
                            ELSE Returns(t, row[t])

\* A client's cancel of a running task: run_task writes it and rebuilds the
\* tab, unless it has not begun or is in a handler, out of its try.
CancelTask(p, t) ==
  /\ pc[p] = "serve" /\ owner[t] = p /\ Lives(t) /\ row[t] = "running"
  /\ IF at[t] = "runs"
     THEN /\ row' = [row EXCEPT ![t] = "over"]
          /\ at' = [at EXCEPT ![t] = "rebuilds"]
     ELSE at' = [at EXCEPT ![t] = "lost"] /\ UNCHANGED row
  /\ UNCHANGED <<lock, process, owner, runs, crashes>>

\* A write fails in the dispatcher or in the janitor and ends it.
DispatcherDies(p) ==
  /\ disp[p] = "alive" /\ disp' = [disp EXCEPT ![p] = "dead"]
  /\ UNCHANGED <<lock, pc, conn, janitor, table, runs, crashes>>

JanitorDies(p) ==
  /\ janitor[p] = "alive" /\ janitor' = [janitor EXCEPT ![p] = "dead"]
  /\ UNCHANGED <<lock, pc, conn, disp, table, runs, crashes>>

-----------------------------------------------------------------------------
(* Shutdown.                                                               *)

\* CancelledError in a coroutine: run_task writes the row if it catches it
\* and the connection is open.  Before its first step, and in a handler's
\* _rebuild_tab, it does not catch it.
Cancelled(p, t) ==
  /\ owner[t] = p /\ Lives(t)
  /\ IF at[t] = "runs"
     THEN /\ at' = [at EXCEPT ![t] = "caught"]
          /\ row' = IF conn[p] THEN [row EXCEPT ![t] = "interrupted"] ELSE row
     ELSE at' = [at EXCEPT ![t] = "lost"] /\ UNCHANGED row
  /\ UNCHANGED <<lock, process, owner, runs, crashes>>

\* The end of serving; stopping the publisher may raise.
Shutdown(p) ==
  /\ pc[p] = "serve"
  /\ Goto(p, "end pool") \/ Raised(p)
  /\ UNCHANGED <<lock, conn, disp, janitor, table, runs, crashes>>

\* pool.stop awaits the dispatcher first; one that has died raises there.
EndPool(p) ==
  /\ pc[p] = "end pool"
  /\ IF disp[p] = "dead"
     THEN Raised(p) /\ UNCHANGED disp
     ELSE disp' = [disp EXCEPT ![p] = "off"] /\ Goto(p, "end workers")
  /\ UNCHANGED <<lock, conn, janitor, table, runs, crashes>>

\* Mutant: running attempts are let finish.
EndWorkerWaits(p, t) == FALSE

EndWorker(p, t) == pc[p] = "end workers" /\ Cancelled(p, t)

Idle(p) == \A t \in Tasks : Lives(t) => owner[t] # p

\* All workers have stopped; closing the HTTP client may raise.
EndWorkers(p) ==
  /\ pc[p] = "end workers" /\ Idle(p)
  /\ Goto(p, "end store") \/ Raised(p)
  /\ UNCHANGED <<lock, conn, disp, janitor, table, runs, crashes>>

\* store.stop awaits the janitor.
EndStore(p) ==
  /\ pc[p] = "end store"
  /\ IF janitor[p] = "dead"
     THEN Raised(p) /\ UNCHANGED janitor
     ELSE janitor' = [janitor EXCEPT ![p] = "off"] /\ Goto(p, "end db")
  /\ UNCHANGED <<lock, conn, disp, table, runs, crashes>>

EndDb(p) ==
  /\ pc[p] = "end db"
  /\ conn' = [conn EXCEPT ![p] = FALSE] /\ Goto(p, "release")
  /\ UNCHANGED <<lock, disp, janitor, table, runs, crashes>>

Release(p) ==
  /\ pc[p] = "release"
  /\ lock' = Nobody /\ Goto(p, "exit")
  /\ UNCHANGED <<conn, disp, janitor, table, runs, crashes>>

\* asyncio.run cancels every task that is left, then waits for them.
CancelAll(p) ==
  /\ pc[p] = "exit"
  /\ disp' = [disp EXCEPT ![p] = "off"]
  /\ janitor' = [janitor EXCEPT ![p] = "off"]
  /\ Goto(p, "cancelled")
  /\ UNCHANGED <<lock, conn, table, runs, crashes>>

ExitWorker(p, t) == pc[p] = "cancelled" /\ Cancelled(p, t)

\* The end of a process: the kernel closes the lock file.
Vanish(p) ==
  /\ Goto(p, "down")
  /\ lock' = IF lock = p THEN Nobody ELSE lock
  /\ conn' = [conn EXCEPT ![p] = FALSE]
  /\ disp' = [disp EXCEPT ![p] = "off"]
  /\ janitor' = [janitor EXCEPT ![p] = "off"]
  /\ owner' = [t \in Tasks |-> IF owner[t] = p THEN Nobody ELSE owner[t]]

Gone(p) ==
  /\ pc[p] = "cancelled" /\ Idle(p)
  /\ Vanish(p) /\ UNCHANGED <<row, at, runs, crashes>>

Crash(p) ==
  /\ pc[p] # "down" /\ crashes < MaxCrashes
  /\ crashes' = crashes + 1 /\ Vanish(p)
  /\ UNCHANGED <<row, at, runs>>

-----------------------------------------------------------------------------
Init ==
  /\ lock = Nobody
  /\ pc = [p \in Procs |-> "down"] /\ conn = [p \in Procs |-> FALSE]
  /\ disp = [p \in Procs |-> "off"] /\ janitor = [p \in Procs |-> "off"]
  /\ row = [t \in Tasks |-> "none"] /\ owner = [t \in Tasks |-> Nobody]
  /\ at = [t \in Tasks |-> "new"]
  /\ runs = 0 /\ crashes = 0

Startup(p) ==
  Acquire(p) \/ Refused(p) \/ InitDb(p) \/ Recover(p) \/ Start(p) \/ Announce(p)

Teardown(p) ==
  \/ EndPool(p) \/ EndWorkers(p) \/ EndStore(p) \/ EndDb(p) \/ Release(p)
  \/ CancelAll(p) \/ Gone(p)
  \/ \E t \in Tasks : EndWorker(p, t) \/ ExitWorker(p, t)

Work(p) ==
  \/ \E t \in Tasks : Submit(p, t) \/ Dispatch(p, t) \/ CancelTask(p, t)
  \/ DispatcherDies(p) \/ JanitorDies(p)

Next ==
  \/ \E p \in Procs :
       Boot(p) \/ Startup(p) \/ Work(p) \/ Shutdown(p) \/ Teardown(p) \/ Crash(p)
  \/ \E t \in Tasks : Begin(t) \/ Finish(t) \/ Fails(t) \/ Rebuilt(t)

Spec == Init /\ [][Next]_vars

\* Startup and teardown go on by themselves; attempts need not.
FairSpec == Spec /\ \A p \in Procs : WF_vars(Startup(p)) /\ WF_vars(Teardown(p))

-----------------------------------------------------------------------------
(* Properties.                                                              *)

Places == {"down", "lock", "init", "recover", "start", "announce", "serve",
           "end pool", "end workers", "end store", "end db", "release",
           "exit", "cancelled"}
Loop == {"off", "alive", "dead"}

\* The values the variables take.
TypeOK ==
  /\ lock \in Procs \cup {Nobody}
  /\ pc \in [Procs -> Places] /\ conn \in [Procs -> BOOLEAN]
  /\ disp \in [Procs -> Loop] /\ janitor \in [Procs -> Loop]
  /\ row \in [Tasks -> {"none", "queued", "running", "interrupted", "over"}]
  /\ owner \in [Tasks -> Procs \cup {Nobody}]
  /\ at \in [Tasks -> {"new", "runs", "rebuilds", "caught", "lost"}]
  /\ runs \in 0..MaxRuns /\ crashes \in 0..MaxCrashes

\* p may still read or write tasks.
AtWork(p) ==
  conn[p] \/ disp[p] = "alive" \/ janitor[p] = "alive" \/ ~Idle(p)

(* Two processes are never at work on the database at once, wherever either *)
(* of them fails, raises in its shutdown or dies (InstanceLock).            *)
OneAtWork == \A p, q \in Procs : AtWork(p) /\ AtWork(q) => p = q

\* No attempt is declared interrupted that some coroutine is still at.
InterruptedIsDead == \A t \in Tasks : row[t] = "interrupted" => ~Lives(t)

\* A row that runs while p serves is from this life of p.
ServesItsOwn ==
  \A p \in Procs : pc[p] = "serve" =>
    \A t \in Tasks : row[t] = "running" => owner[t] = p

\* Without a crash a row runs with a coroutine at it, or its cancel struck
\* where run_task does not catch it.
StopLeavesNoAttempt ==
  crashes = 0 =>
    \A t \in Tasks : row[t] = "running" => Lives(t) \/ at[t] = "lost"

(* Rows and coroutines agree across processes: recover_unfinished declares  *)
(* no living attempt interrupted, nothing an earlier process left behind    *)
(* goes on looking alive, and whatever run_task catches of a shutdown it    *)
(* can still write, even if the dispatcher or the janitor had died and the  *)
(* clause raises half way (recover_unfinished, the finally clause of        *)
(* lifespan, asyncio.run).                                                  *)
RowsMatchOwners ==
  TypeOK /\ InterruptedIsDead /\ ServesItsOwn /\ StopLeavesNoAttempt

Ending(p) == pc[p] \in {"end pool", "end workers", "end store", "end db",
                        "release", "exit", "cancelled"}

(* Whoever stops, or fails to start, gives the lock back in the end, however *)
(* long the attempts under way would take (InstanceLock.release, lifespan). *)
LockComesFree ==
  \A p \in Procs : (lock = p /\ Ending(p)) ~> (lock # p)
=============================================================================
