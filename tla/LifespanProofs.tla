--------------------------- MODULE LifespanProofs ---------------------------
(***************************************************************************)
(* The two safety properties of Lifespan, for any number of processes,     *)
(* tasks, starts and crashes.                                              *)
(***************************************************************************)
EXTENDS Lifespan, TLAPS

\* The steps of lifespan between taking the lock and giving it back.
Locked == {"init", "recover", "start", "announce", "serve", "end pool",
           "end workers", "end store", "end db", "release"}

\* Whoever is inside, or still at work outside, has the lock.
HolderOnly(p) == pc[p] \in Locked \/ AtWork(p) => lock = p

\* What has not been started yet, or has been ended already.
PartsInOrder(p) ==
  /\ pc[p] \in {"down", "lock", "init", "release"} => ~AtWork(p)
  /\ pc[p] \in {"down", "lock", "init", "recover", "start"} =>
       disp[p] = "off" /\ janitor[p] = "off" /\ Idle(p)
  /\ pc[p] \in {"end workers", "end store", "end db", "cancelled"} =>
       disp[p] # "alive"
  /\ pc[p] \in {"end store", "end db"} => Idle(p)
  /\ pc[p] \in {"end db", "cancelled"} => janitor[p] # "alive"

\* The database stays open as long as somebody may write an attempt's end.
ConnOpen(p) ==
  pc[p] \in {"recover", "start"} \/ disp[p] = "alive" \/ ~Idle(p) => conn[p]

\* From recover_unfinished on, running rows are this process's own.
RunsOwned(p) ==
  pc[p] \in {"start", "announce", "serve"} =>
    \A t \in Tasks : row[t] = "running" => owner[t] = p

ProcInv(p) == HolderOnly(p) /\ PartsInOrder(p) /\ ConnOpen(p) /\ RunsOwned(p)

\* A coroutine's row runs, or the coroutine winds down; a cancel that was
\* caught has been written; only a crash takes a coroutine away silently.
TaskInv(t) ==
  /\ Lives(t) => row[t] = "running" \/ (at[t] = "rebuilds" /\ row[t] = "over")
  /\ at[t] = "caught" => row[t] # "running"
  /\ crashes = 0 /\ row[t] = "running" => Lives(t) \/ at[t] = "lost"

LifeInv ==
  TypeOK /\ (\A p \in Procs : ProcInv(p)) /\ \A t \in Tasks : TaskInv(t)

\* The other processes are where they were.
OthersStay(p) ==
  \A q \in Procs \ {p} :
    /\ pc'[q] = pc[q] /\ conn'[q] = conn[q]
    /\ disp'[q] = disp[q] /\ janitor'[q] = janitor[q]
    /\ lock = q => lock' = q

-----------------------------------------------------------------------------
(* LifeInv holds of a table without rows and processes that are not there.  *)
LEMMA LifeInit == Init => LifeInv
BY LifespanAssumption
   DEF Init, LifeInv, TypeOK, Places, Loop, ProcInv, TaskInv, HolderOnly, Locked,
       AtWork, Idle, Lives, PartsInOrder, ConnOpen, RunsOwned

(* A step of startup or shutdown concerns the process that takes it only, if *)
(* rows and owners stay as they are.                                        *)
LEMMA OneProcess ==
  ASSUME LifeInv, NEW p \in Procs, UNCHANGED <<table, crashes>>,
         TypeOK', OthersStay(p), ProcInv(p)'
  PROVE  LifeInv'
<1>1. ASSUME NEW q \in Procs, q # p PROVE ProcInv(q)'
  <2>1. Idle(q)' <=> Idle(q)
    BY DEF Idle, Lives, table
  <2>2. AtWork(q)' <=> AtWork(q)
    BY <1>1, <2>1 DEF AtWork, OthersStay
  <2>3. HolderOnly(q)'
    BY <1>1, <2>2 DEF LifeInv, ProcInv, HolderOnly, OthersStay
  <2>4. PartsInOrder(q)'
    BY <1>1, <2>1, <2>2 DEF LifeInv, ProcInv, PartsInOrder, OthersStay
  <2>5. ConnOpen(q)'
    BY <1>1, <2>1 DEF LifeInv, ProcInv, ConnOpen, OthersStay
  <2>6. RunsOwned(q)'
    BY <1>1 DEF LifeInv, ProcInv, RunsOwned, OthersStay, table
  <2> QED BY <2>3, <2>4, <2>5, <2>6 DEF ProcInv
<1>2. \A t \in Tasks : TaskInv(t)'
  BY DEF LifeInv, TaskInv, Lives, table
<1> QED BY <1>1, <1>2 DEF LifeInv

\* A process that is not there has nothing at work.
LEMMA BootStep == ASSUME LifeInv, NEW p \in Procs, Boot(p) PROVE LifeInv'
<1> USE LifespanAssumption DEF LifeInv, Boot, Goto, table
<1>1. TypeOK'
  <2>1. runs' \in 0..MaxRuns
    BY DEF TypeOK
  <2> QED BY <2>1 DEF TypeOK, Places
<1>2. OthersStay(p)
  BY DEF TypeOK, OthersStay, ProcInv, HolderOnly, Locked
<1>3. Idle(p)' <=> Idle(p)
  BY DEF Idle, Lives
<1>4. ProcInv(p)'
  <2>1. HolderOnly(p)'
    BY <1>3 DEF TypeOK, ProcInv, HolderOnly, PartsInOrder, Locked, AtWork
  <2>2. PartsInOrder(p)'
    BY <1>3 DEF TypeOK, ProcInv, PartsInOrder, AtWork
  <2>3. ConnOpen(p)'
    BY <1>3 DEF TypeOK, ProcInv, PartsInOrder, ConnOpen, AtWork
  <2>4. RunsOwned(p)'
    BY DEF TypeOK, ProcInv, RunsOwned
  <2> QED BY <2>1, <2>2, <2>3, <2>4 DEF ProcInv
<1> QED BY <1>1, <1>2, <1>4, OneProcess

\* Nobody had the lock, so nobody was at work.
LEMMA AcquireStep == ASSUME LifeInv, NEW p \in Procs, Acquire(p) PROVE LifeInv'
<1> USE LifespanAssumption DEF LifeInv, Acquire, Goto, table
<1>1. TypeOK'
  BY DEF TypeOK, Places, Loop
<1>2. OthersStay(p)
  BY DEF TypeOK, OthersStay, ProcInv, HolderOnly, Locked
<1>3. Idle(p)' <=> Idle(p)
  BY DEF Idle, Lives
<1>4. ProcInv(p)'
  <2>1. HolderOnly(p)'
    BY <1>3 DEF TypeOK, ProcInv, HolderOnly, PartsInOrder, Locked, AtWork
  <2>2. PartsInOrder(p)'
    BY <1>3 DEF TypeOK, ProcInv, PartsInOrder, AtWork
  <2>3. ConnOpen(p)'
    BY <1>3 DEF TypeOK, ProcInv, PartsInOrder, ConnOpen, AtWork
  <2>4. RunsOwned(p)'
    BY DEF TypeOK, ProcInv, RunsOwned
  <2> QED BY <2>1, <2>2, <2>3, <2>4 DEF ProcInv
<1> QED BY <1>1, <1>2, <1>4, OneProcess

\* Without the lock nothing has been started.
LEMMA RefusedStep == ASSUME LifeInv, NEW p \in Procs, Refused(p) PROVE LifeInv'
<1> USE LifespanAssumption DEF LifeInv, Refused, Goto, table
<1>1. TypeOK'
  BY DEF TypeOK, Places, Loop
<1>2. OthersStay(p)
  BY DEF TypeOK, OthersStay, ProcInv, HolderOnly, Locked
<1>3. Idle(p)' <=> Idle(p)
  BY DEF Idle, Lives
<1>4. ProcInv(p)'
  <2>1. HolderOnly(p)'
    BY <1>3 DEF TypeOK, ProcInv, HolderOnly, PartsInOrder, Locked, AtWork
  <2>2. PartsInOrder(p)'
    BY <1>3 DEF TypeOK, ProcInv, PartsInOrder, AtWork
  <2>3. ConnOpen(p)'
    BY <1>3 DEF TypeOK, ProcInv, PartsInOrder, ConnOpen, AtWork
  <2>4. RunsOwned(p)'
    BY DEF TypeOK, ProcInv, RunsOwned
  <2> QED BY <2>1, <2>2, <2>3, <2>4 DEF ProcInv
<1> QED BY <1>1, <1>2, <1>4, OneProcess

\* The connection is the first part at work.
LEMMA InitDbStep == ASSUME LifeInv, NEW p \in Procs, InitDb(p) PROVE LifeInv'
<1> USE LifespanAssumption DEF LifeInv, InitDb, Goto, table
<1>1. TypeOK'
  BY DEF TypeOK, Places, Loop
<1>2. OthersStay(p)
  BY DEF TypeOK, OthersStay, ProcInv, HolderOnly, Locked
<1>3. Idle(p)' <=> Idle(p)
  BY DEF Idle, Lives
<1>4. ProcInv(p)'
  <2>1. HolderOnly(p)'
    BY <1>3 DEF TypeOK, ProcInv, HolderOnly, PartsInOrder, Locked, AtWork
  <2>2. PartsInOrder(p)'
    BY <1>3 DEF TypeOK, ProcInv, PartsInOrder, AtWork
  <2>3. ConnOpen(p)'
    BY <1>3 DEF TypeOK, ProcInv, PartsInOrder, ConnOpen, AtWork
  <2>4. RunsOwned(p)'
    BY DEF TypeOK, ProcInv, RunsOwned
  <2> QED BY <2>1, <2>2, <2>3, <2>4 DEF ProcInv
<1> QED BY <1>1, <1>2, <1>4, OneProcess

\* The running rows are still none.
LEMMA StartStep == ASSUME LifeInv, NEW p \in Procs, Start(p) PROVE LifeInv'
<1> USE LifespanAssumption DEF LifeInv, Start, Goto, table
<1>1. TypeOK'
  BY DEF TypeOK, Places, Loop
<1>2. OthersStay(p)
  BY DEF TypeOK, OthersStay, ProcInv, HolderOnly, Locked
<1>3. Idle(p)' <=> Idle(p)
  BY DEF Idle, Lives
<1>4. ProcInv(p)'
  <2>1. HolderOnly(p)'
    BY <1>3 DEF TypeOK, ProcInv, HolderOnly, PartsInOrder, Locked, AtWork
  <2>2. PartsInOrder(p)'
    BY <1>3 DEF TypeOK, ProcInv, PartsInOrder, AtWork
  <2>3. ConnOpen(p)'
    BY <1>3 DEF TypeOK, ProcInv, PartsInOrder, ConnOpen, AtWork
  <2>4. RunsOwned(p)'
    BY DEF TypeOK, ProcInv, RunsOwned
  <2> QED BY <2>1, <2>2, <2>3, <2>4 DEF ProcInv
<1> QED BY <1>1, <1>2, <1>4, OneProcess

\* Serving begins with no running row but its own.
LEMMA AnnounceStep == ASSUME LifeInv, NEW p \in Procs, Announce(p) PROVE LifeInv'
<1> USE LifespanAssumption DEF LifeInv, Announce, Goto, table
<1>1. TypeOK'
  BY DEF TypeOK, Places, Loop
<1>2. OthersStay(p)
  BY DEF TypeOK, OthersStay, ProcInv, HolderOnly, Locked
<1>3. Idle(p)' <=> Idle(p)
  BY DEF Idle, Lives
<1>4. ProcInv(p)'
  <2>1. HolderOnly(p)'
    BY <1>3 DEF TypeOK, ProcInv, HolderOnly, PartsInOrder, Locked, AtWork
  <2>2. PartsInOrder(p)'
    BY <1>3 DEF TypeOK, ProcInv, PartsInOrder, AtWork
  <2>3. ConnOpen(p)'
    BY <1>3 DEF TypeOK, ProcInv, PartsInOrder, ConnOpen, AtWork
  <2>4. RunsOwned(p)'
    BY DEF TypeOK, ProcInv, RunsOwned
  <2> QED BY <2>1, <2>2, <2>3, <2>4 DEF ProcInv
<1> QED BY <1>1, <1>2, <1>4, OneProcess

\* A dead loop writes no more.
LEMMA DispatcherDiesStep == ASSUME LifeInv, NEW p \in Procs, DispatcherDies(p) PROVE LifeInv'
<1> USE LifespanAssumption DEF LifeInv, DispatcherDies, table
<1>1. TypeOK'
  BY DEF TypeOK, Places, Loop
<1>2. OthersStay(p)
  BY DEF TypeOK, OthersStay, ProcInv, HolderOnly, Locked
<1>3. Idle(p)' <=> Idle(p)
  BY DEF Idle, Lives
<1>4. ProcInv(p)'
  <2>1. HolderOnly(p)'
    BY <1>3 DEF TypeOK, ProcInv, HolderOnly, PartsInOrder, Locked, AtWork
  <2>2. PartsInOrder(p)'
    BY <1>3 DEF TypeOK, ProcInv, PartsInOrder, AtWork
  <2>3. ConnOpen(p)'
    BY <1>3 DEF TypeOK, ProcInv, PartsInOrder, ConnOpen, AtWork
  <2>4. RunsOwned(p)'
    BY DEF TypeOK, ProcInv, RunsOwned
  <2> QED BY <2>1, <2>2, <2>3, <2>4 DEF ProcInv
<1> QED BY <1>1, <1>2, <1>4, OneProcess

\* A dead loop writes no more.
LEMMA JanitorDiesStep == ASSUME LifeInv, NEW p \in Procs, JanitorDies(p) PROVE LifeInv'
<1> USE LifespanAssumption DEF LifeInv, JanitorDies, table
<1>1. TypeOK'
  BY DEF TypeOK, Places, Loop
<1>2. OthersStay(p)
  BY DEF TypeOK, OthersStay, ProcInv, HolderOnly, Locked
<1>3. Idle(p)' <=> Idle(p)
  BY DEF Idle, Lives
<1>4. ProcInv(p)'
  <2>1. HolderOnly(p)'
    BY <1>3 DEF TypeOK, ProcInv, HolderOnly, PartsInOrder, Locked, AtWork
  <2>2. PartsInOrder(p)'
    BY <1>3 DEF TypeOK, ProcInv, PartsInOrder, AtWork
  <2>3. ConnOpen(p)'
    BY <1>3 DEF TypeOK, ProcInv, PartsInOrder, ConnOpen, AtWork
  <2>4. RunsOwned(p)'
    BY DEF TypeOK, ProcInv, RunsOwned
  <2> QED BY <2>1, <2>2, <2>3, <2>4 DEF ProcInv
<1> QED BY <1>1, <1>2, <1>4, OneProcess

\* A clause that raises leaves the lock where it is.
LEMMA ShutdownStep == ASSUME LifeInv, NEW p \in Procs, Shutdown(p) PROVE LifeInv'
<1> USE LifespanAssumption DEF LifeInv, Shutdown, Goto, Raised, table
<1>1. TypeOK'
  BY DEF TypeOK, Places, Loop
<1>2. OthersStay(p)
  BY DEF TypeOK, OthersStay, ProcInv, HolderOnly, Locked
<1>3. Idle(p)' <=> Idle(p)
  BY DEF Idle, Lives
<1>4. ProcInv(p)'
  <2>1. HolderOnly(p)'
    BY <1>3 DEF TypeOK, ProcInv, HolderOnly, PartsInOrder, Locked, AtWork
  <2>2. PartsInOrder(p)'
    BY <1>3 DEF TypeOK, ProcInv, PartsInOrder, AtWork
  <2>3. ConnOpen(p)'
    BY <1>3 DEF TypeOK, ProcInv, PartsInOrder, ConnOpen, AtWork
  <2>4. RunsOwned(p)'
    BY DEF TypeOK, ProcInv, RunsOwned
  <2> QED BY <2>1, <2>2, <2>3, <2>4 DEF ProcInv
<1> QED BY <1>1, <1>2, <1>4, OneProcess

\* The dispatcher has ended, or the rest is skipped.
LEMMA EndPoolStep == ASSUME LifeInv, NEW p \in Procs, EndPool(p) PROVE LifeInv'
<1> USE LifespanAssumption DEF LifeInv, EndPool, Goto, Raised, table
<1>1. TypeOK'
  BY DEF TypeOK, Places, Loop
<1>2. OthersStay(p)
  BY DEF TypeOK, OthersStay, ProcInv, HolderOnly, Locked
<1>3. Idle(p)' <=> Idle(p)
  BY DEF Idle, Lives
<1>4. ProcInv(p)'
  <2>1. HolderOnly(p)'
    BY <1>3 DEF TypeOK, ProcInv, HolderOnly, PartsInOrder, Locked, AtWork
  <2>2. PartsInOrder(p)'
    BY <1>3 DEF TypeOK, ProcInv, PartsInOrder, AtWork
  <2>3. ConnOpen(p)'
    BY <1>3 DEF TypeOK, ProcInv, PartsInOrder, ConnOpen, AtWork
  <2>4. RunsOwned(p)'
    BY DEF TypeOK, ProcInv, RunsOwned
  <2> QED BY <2>1, <2>2, <2>3, <2>4 DEF ProcInv
<1> QED BY <1>1, <1>2, <1>4, OneProcess

\* No attempt is left, or the rest is skipped.
LEMMA EndWorkersStep == ASSUME LifeInv, NEW p \in Procs, EndWorkers(p) PROVE LifeInv'
<1> USE LifespanAssumption DEF LifeInv, EndWorkers, Goto, Raised, table
<1>1. TypeOK'
  BY DEF TypeOK, Places, Loop
<1>2. OthersStay(p)
  BY DEF TypeOK, OthersStay, ProcInv, HolderOnly, Locked
<1>3. Idle(p)' <=> Idle(p)
  BY DEF Idle, Lives
<1>4. ProcInv(p)'
  <2>1. HolderOnly(p)'
    BY <1>3 DEF TypeOK, ProcInv, HolderOnly, PartsInOrder, Locked, AtWork
  <2>2. PartsInOrder(p)'
    BY <1>3 DEF TypeOK, ProcInv, PartsInOrder, AtWork
  <2>3. ConnOpen(p)'
    BY <1>3 DEF TypeOK, ProcInv, PartsInOrder, ConnOpen, AtWork
  <2>4. RunsOwned(p)'
    BY DEF TypeOK, ProcInv, RunsOwned
  <2> QED BY <2>1, <2>2, <2>3, <2>4 DEF ProcInv
<1> QED BY <1>1, <1>2, <1>4, OneProcess

\* The janitor has ended, or the rest is skipped.
LEMMA EndStoreStep == ASSUME LifeInv, NEW p \in Procs, EndStore(p) PROVE LifeInv'
<1> USE LifespanAssumption DEF LifeInv, EndStore, Goto, Raised, table
<1>1. TypeOK'
  BY DEF TypeOK, Places, Loop
<1>2. OthersStay(p)
  BY DEF TypeOK, OthersStay, ProcInv, HolderOnly, Locked
<1>3. Idle(p)' <=> Idle(p)
  BY DEF Idle, Lives
<1>4. ProcInv(p)'
  <2>1. HolderOnly(p)'
    BY <1>3 DEF TypeOK, ProcInv, HolderOnly, PartsInOrder, Locked, AtWork
  <2>2. PartsInOrder(p)'
    BY <1>3 DEF TypeOK, ProcInv, PartsInOrder, AtWork
  <2>3. ConnOpen(p)'
    BY <1>3 DEF TypeOK, ProcInv, PartsInOrder, ConnOpen, AtWork
  <2>4. RunsOwned(p)'
    BY DEF TypeOK, ProcInv, RunsOwned
  <2> QED BY <2>1, <2>2, <2>3, <2>4 DEF ProcInv
<1> QED BY <1>1, <1>2, <1>4, OneProcess

\* Only now that nobody writes the connection goes.
LEMMA EndDbStep == ASSUME LifeInv, NEW p \in Procs, EndDb(p) PROVE LifeInv'
<1> USE LifespanAssumption DEF LifeInv, EndDb, Goto, table
<1>1. TypeOK'
  BY DEF TypeOK, Places, Loop
<1>2. OthersStay(p)
  BY DEF TypeOK, OthersStay, ProcInv, HolderOnly, Locked
<1>3. Idle(p)' <=> Idle(p)
  BY DEF Idle, Lives
<1>4. ProcInv(p)'
  <2>1. HolderOnly(p)'
    BY <1>3 DEF TypeOK, ProcInv, HolderOnly, PartsInOrder, Locked, AtWork
  <2>2. PartsInOrder(p)'
    BY <1>3 DEF TypeOK, ProcInv, PartsInOrder, AtWork
  <2>3. ConnOpen(p)'
    BY <1>3 DEF TypeOK, ProcInv, PartsInOrder, ConnOpen, AtWork
  <2>4. RunsOwned(p)'
    BY DEF TypeOK, ProcInv, RunsOwned
  <2> QED BY <2>1, <2>2, <2>3, <2>4 DEF ProcInv
<1> QED BY <1>1, <1>2, <1>4, OneProcess

\* The lock is given back with nothing at work.
LEMMA ReleaseStep == ASSUME LifeInv, NEW p \in Procs, Release(p) PROVE LifeInv'
<1> USE LifespanAssumption DEF LifeInv, Release, Goto, table
<1>1. TypeOK'
  BY DEF TypeOK, Places, Loop
<1>2. OthersStay(p)
  BY DEF TypeOK, OthersStay, ProcInv, HolderOnly, Locked
<1>3. Idle(p)' <=> Idle(p)
  BY DEF Idle, Lives
<1>4. ProcInv(p)'
  <2>1. HolderOnly(p)'
    BY <1>3 DEF TypeOK, ProcInv, HolderOnly, PartsInOrder, Locked, AtWork
  <2>2. PartsInOrder(p)'
    BY <1>3 DEF TypeOK, ProcInv, PartsInOrder, AtWork
  <2>3. ConnOpen(p)'
    BY <1>3 DEF TypeOK, ProcInv, PartsInOrder, ConnOpen, AtWork
  <2>4. RunsOwned(p)'
    BY DEF TypeOK, ProcInv, RunsOwned
  <2> QED BY <2>1, <2>2, <2>3, <2>4 DEF ProcInv
<1> QED BY <1>1, <1>2, <1>4, OneProcess

\* The loops end before the attempts do.
LEMMA CancelAllStep == ASSUME LifeInv, NEW p \in Procs, CancelAll(p) PROVE LifeInv'
<1> USE LifespanAssumption DEF LifeInv, CancelAll, Goto, table
<1>1. TypeOK'
  BY DEF TypeOK, Places, Loop
<1>2. OthersStay(p)
  BY DEF TypeOK, OthersStay, ProcInv, HolderOnly, Locked
<1>3. Idle(p)' <=> Idle(p)
  BY DEF Idle, Lives
<1>4. ProcInv(p)'
  <2>1. HolderOnly(p)'
    BY <1>3 DEF TypeOK, ProcInv, HolderOnly, PartsInOrder, Locked, AtWork
  <2>2. PartsInOrder(p)'
    BY <1>3 DEF TypeOK, ProcInv, PartsInOrder, AtWork
  <2>3. ConnOpen(p)'
    BY <1>3 DEF TypeOK, ProcInv, PartsInOrder, ConnOpen, AtWork
  <2>4. RunsOwned(p)'
    BY DEF TypeOK, ProcInv, RunsOwned
  <2> QED BY <2>1, <2>2, <2>3, <2>4 DEF ProcInv
<1> QED BY <1>1, <1>2, <1>4, OneProcess

\* Every row that runs is declared interrupted, and has no coroutine: whoever
\* had one would have the lock.
LEMMA RecoverStep == ASSUME LifeInv, NEW p \in Procs, Recover(p) PROVE LifeInv'
<1> USE LifespanAssumption DEF LifeInv, Recover, Goto
<1>1. TypeOK'
  BY DEF TypeOK, Places, Recovered
<1>2. lock = p
  BY DEF ProcInv, HolderOnly, Locked
<1>3. \A t \in Tasks : ~Lives(t) /\ ~Lives(t)'
  <2>1. \A q \in Procs : Idle(q)
    BY <1>2 DEF ProcInv, HolderOnly, PartsInOrder, AtWork
  <2> QED BY <2>1 DEF TypeOK, Idle, Lives
<1>4. \A q \in Procs : Idle(q)'
  BY <1>3 DEF Idle
<1>5. ASSUME NEW q \in Procs, q # p PROVE ProcInv(q)'
  <2>1. pc[q] \notin Locked /\ pc'[q] = pc[q] /\ ~AtWork(q) /\ ~AtWork(q)'
    BY <1>2, <1>4, <1>5 DEF TypeOK, ProcInv, HolderOnly, AtWork
  <2> QED BY <1>4, <1>5, <2>1
          DEF ProcInv, HolderOnly, PartsInOrder, ConnOpen, RunsOwned, Locked, AtWork
<1>6. ProcInv(p)'
  <2>1. pc'[p] \in {"start", "end db"} /\ (pc'[p] = "start" => row' = Recovered)
    BY DEF TypeOK
  <2>2. HolderOnly(p)'
    BY <1>2 DEF HolderOnly
  <2>3. PartsInOrder(p)'
    BY <1>4, <2>1 DEF ProcInv, PartsInOrder
  <2>4. conn'[p]
    BY DEF ProcInv, PartsInOrder, ConnOpen
  <2>5. RunsOwned(p)'
    BY <2>1 DEF RunsOwned, Recovered
  <2> QED BY <2>2, <2>3, <2>4, <2>5 DEF ProcInv, ConnOpen
<1>7. \A t \in Tasks : TaskInv(t)'
  BY <1>3 DEF TypeOK, TaskInv, Recovered
<1> QED BY <1>1, <1>5, <1>6, <1>7

(* A process ends, with its coroutines or without any.  The rows stay.      *)
LEMMA VanishStep ==
  ASSUME LifeInv, NEW p \in Procs, Vanish(p), UNCHANGED <<row, at, runs>>,
         crashes' \in 0..MaxCrashes, crashes' # 0 \/ (Idle(p) /\ crashes' = crashes)
  PROVE  LifeInv'
<1> USE LifespanAssumption DEF LifeInv, Vanish, Goto
<1>2. TypeOK'
  BY DEF TypeOK, Places, Loop
<1>3. \A t \in Tasks : owner'[t] = IF owner[t] = p THEN Nobody ELSE owner[t]
  BY DEF TypeOK
<1>4. ASSUME NEW q \in Procs, q # p PROVE ProcInv(q)'
  <2>1. /\ pc'[q] = pc[q] /\ conn'[q] = conn[q]
        /\ disp'[q] = disp[q] /\ janitor'[q] = janitor[q] /\ (lock = q => lock' = q)
    BY <1>4 DEF TypeOK
  <2>2. Idle(q)' <=> Idle(q)
    BY <1>3, <1>4 DEF Idle, Lives
  <2>3. AtWork(q)' <=> AtWork(q)
    BY <2>1, <2>2 DEF AtWork
  <2>4. RunsOwned(q)'
    BY <1>3, <1>4, <2>1 DEF ProcInv, RunsOwned
  <2> QED BY <2>1, <2>2, <2>3, <2>4 DEF ProcInv, HolderOnly, PartsInOrder, ConnOpen
<1>5. ProcInv(p)'
  <2>1. Idle(p)'
    BY <1>3 DEF Idle, Lives
  <2>2. pc'[p] = "down" /\ ~conn'[p] /\ disp'[p] = "off" /\ janitor'[p] = "off"
    BY DEF TypeOK
  <2> QED BY <2>1, <2>2
          DEF ProcInv, HolderOnly, PartsInOrder, ConnOpen, RunsOwned, AtWork, Locked
<1>6. ASSUME NEW t \in Tasks PROVE TaskInv(t)'
  <2>1. Lives(t)' => Lives(t)
    BY <1>3 DEF Lives
  <2>2. Idle(p) /\ Lives(t) => Lives(t)'
    BY <1>3 DEF Idle, Lives
  <2> QED BY <2>1, <2>2 DEF TaskInv
<1> QED BY <1>2, <1>4, <1>5, <1>6

\* Nothing is at work when the kernel frees the lock.
LEMMA GoneStep == ASSUME LifeInv, NEW p \in Procs, Gone(p) PROVE LifeInv'
<1>1. crashes' \in 0..MaxCrashes /\ crashes' = crashes
  BY DEF Gone, LifeInv, TypeOK
<1> QED BY <1>1, VanishStep DEF Gone

\* The coroutines die with their process.
LEMMA CrashStep == ASSUME LifeInv, NEW p \in Procs, Crash(p) PROVE LifeInv'
<1>1. crashes' \in 0..MaxCrashes /\ crashes' # 0
  BY LifespanAssumption DEF Crash, LifeInv, TypeOK
<1> QED BY <1>1, VanishStep DEF Crash

-----------------------------------------------------------------------------
(* A step about one task leaves the processes where they are: an attempt may *)
(* end, or begin where a dispatcher lives.                                   *)
LEMMA OneTask ==
  ASSUME LifeInv, NEW t \in Tasks, UNCHANGED <<lock, process, crashes>>, TypeOK',
         \A u \in Tasks \ {t} :
           row'[u] = row[u] /\ owner'[u] = owner[u] /\ at'[u] = at[u],
         Lives(t)' => \/ Lives(t) /\ owner'[t] = owner[t]
                      \/ disp[owner'[t]] = "alive",
         TaskInv(t)',
         \A q \in Procs :
           pc[q] \in {"start", "announce", "serve"} /\ row'[t] = "running"
             => owner'[t] = q
  PROVE  LifeInv'
<1>1. ASSUME NEW q \in Procs PROVE ProcInv(q)'
  <2>1. pc'[q] = pc[q] /\ conn'[q] = conn[q] /\ disp'[q] = disp[q]
        /\ janitor'[q] = janitor[q] /\ lock' = lock
    BY DEF process
  <2>2. Idle(q) => Idle(q)' \/ disp[q] = "alive"
    <3>1. \A u \in Tasks \ {t} : Lives(u)' => Lives(u)
      BY DEF Lives
    <3> QED BY <3>1 DEF Idle
  <2>3. AtWork(q)' => AtWork(q)
    BY <2>1, <2>2 DEF AtWork
  <2>4. HolderOnly(q)'
    BY <2>1, <2>3 DEF LifeInv, ProcInv, HolderOnly
  <2>5. PartsInOrder(q)'
    BY <2>1, <2>2, <2>3 DEF LifeInv, ProcInv, PartsInOrder
  <2>6. ConnOpen(q)'
    BY <2>1, <2>2 DEF LifeInv, ProcInv, ConnOpen
  <2>7. RunsOwned(q)'
    BY <2>1 DEF LifeInv, ProcInv, RunsOwned
  <2> QED BY <2>4, <2>5, <2>6, <2>7 DEF ProcInv
<1>2. ASSUME NEW u \in Tasks PROVE TaskInv(u)'
  <2>1. CASE u = t
    BY <2>1
  <2>2. CASE u # t
    BY <2>2 DEF LifeInv, TaskInv, Lives
  <2> QED BY <2>1, <2>2
<1> QED BY <1>1, <1>2 DEF LifeInv

\* A running row is its server's own, whoever that is.
LEMMA OwnRows ==
  ASSUME LifeInv, NEW t \in Tasks, NEW q \in Procs,
         pc[q] \in {"start", "announce", "serve"}, row[t] = "running"
  PROVE  owner[t] = q
BY DEF LifeInv, ProcInv, RunsOwned

\* A queued row asks nothing of anybody.
LEMMA SubmitStep ==
  ASSUME LifeInv, NEW p \in Procs, NEW t \in Tasks, Submit(p, t) PROVE LifeInv'
<1> USE DEF Submit
<1>1. TypeOK'
  BY DEF LifeInv, TypeOK, process
<1>2. /\ row'[t] = "queued" /\ ~Lives(t) /\ owner' = owner /\ at' = at
      /\ \A u \in Tasks \ {t} : row'[u] = row[u]
  BY DEF LifeInv, TypeOK, TaskInv
<1>3. TaskInv(t)' /\ ~Lives(t)'
  BY <1>2 DEF TaskInv, Lives
<1> QED BY <1>1, <1>2, <1>3, OneTask

\* Only the holder of the lock has a dispatcher, so nobody else serves.
LEMMA DispatchStep ==
  ASSUME LifeInv, NEW p \in Procs, NEW t \in Tasks, Dispatch(p, t) PROVE LifeInv'
<1> USE DEF Dispatch
<1>1. TypeOK'
  BY DEF LifeInv, TypeOK, process
<1>2. /\ owner'[t] = p /\ row'[t] = "running" /\ at'[t] = "new" /\ p # Nobody
      /\ \A u \in Tasks \ {t} :
           row'[u] = row[u] /\ owner'[u] = owner[u] /\ at'[u] = at[u]
  BY LifespanAssumption DEF LifeInv, TypeOK
<1>3. ASSUME NEW q \in Procs, pc[q] \in {"start", "announce", "serve"} PROVE q = p
  BY <1>3 DEF LifeInv, ProcInv, HolderOnly, Locked, AtWork
<1>4. TaskInv(t)'
  BY <1>2 DEF TaskInv, Lives
<1> QED BY <1>1, <1>2, <1>3, <1>4, OneTask

(* A coroutine that goes on: it begins, or fails and rebuilds its tab, or is *)
(* cancelled by a client.                                                   *)
LEMMA AttemptStep ==
  ASSUME LifeInv, NEW t \in Tasks,
         Begin(t) \/ Fails(t) \/ \E p \in Procs : CancelTask(p, t)
  PROVE  LifeInv'
<1>1. /\ Lives(t) /\ owner' = owner /\ UNCHANGED <<lock, process, runs, crashes>>
      /\ \E r \in {row[t], "running", "over"} : row' = [row EXCEPT ![t] = r]
      /\ \E a \in {"runs", "rebuilds", "lost"} : at' = [at EXCEPT ![t] = a]
  BY DEF LifeInv, TypeOK, Begin, Fails, CancelTask
<1>2. TypeOK'
  BY <1>1 DEF LifeInv, TypeOK, process
<1>3. \A u \in Tasks \ {t} : row'[u] = row[u] /\ at'[u] = at[u]
  BY <1>1 DEF LifeInv, TypeOK
<1>4. \/ at'[t] = "runs" /\ row'[t] = row[t] /\ at[t] = "new"
      \/ at'[t] = "rebuilds" /\ row'[t] \in {"running", "over"} /\ at[t] = "runs"
      \/ at'[t] = "lost" /\ row'[t] = row[t]
  BY DEF LifeInv, TypeOK, Begin, Fails, CancelTask
<1>5. row'[t] = "running" => row[t] = "running"
  BY <1>1, <1>4 DEF LifeInv, TaskInv
<1>6. TaskInv(t)'
  BY <1>1, <1>4 DEF LifeInv, TaskInv, Lives
<1> QED BY <1>1, <1>2, <1>3, <1>5, <1>6, OneTask, OwnRows

\* An attempt that returns leaves no running row.
LEMMA ReturnStep ==
  ASSUME LifeInv, NEW t \in Tasks, Finish(t) \/ Rebuilt(t) PROVE LifeInv'
<1>1. PICK r \in {"queued", "over"} : Returns(t, r)
  BY DEF Finish, Rebuilt, LifeInv, TaskInv
<1>2. TypeOK'
  BY <1>1 DEF LifeInv, TypeOK, process, Returns
<1>3. /\ row'[t] = r /\ owner'[t] = Nobody /\ at' = at
      /\ \A u \in Tasks \ {t} : row'[u] = row[u] /\ owner'[u] = owner[u]
  BY <1>1 DEF LifeInv, TypeOK, Returns
<1>4. TaskInv(t)' /\ ~Lives(t)'
  BY <1>3 DEF LifeInv, TaskInv, Lives
<1> QED BY <1>1, <1>2, <1>3, <1>4, OneTask DEF Returns

\* A cancel that is caught is written: there is a connection as long as there
\* are coroutines.
LEMMA CancelledStep ==
  ASSUME LifeInv, NEW p \in Procs, NEW t \in Tasks, Cancelled(p, t)
  PROVE  LifeInv'
<1> USE DEF Cancelled
<1>1. conn[p] /\ owner[t] = p /\ Lives(t)
  BY DEF LifeInv, ProcInv, ConnOpen, Idle
<1>2. TypeOK'
  BY DEF LifeInv, TypeOK, process
<1>3. /\ owner' = owner
      /\ \A u \in Tasks \ {t} : row'[u] = row[u] /\ at'[u] = at[u]
      /\ \/ at'[t] = "caught" /\ row'[t] = "interrupted"
         \/ at'[t] = "lost" /\ row'[t] = row[t]
  BY <1>1 DEF LifeInv, TypeOK
<1>4. TaskInv(t)' /\ ~Lives(t)'
  BY <1>3 DEF TaskInv, Lives
<1> QED BY <1>2, <1>3, <1>4, OneTask, OwnRows

-----------------------------------------------------------------------------
(* Every step keeps the invariant.                                          *)
LEMMA LifeNext == LifeInv /\ [Next]_vars => LifeInv'
<1> SUFFICES ASSUME LifeInv, [Next]_vars PROVE LifeInv'
  OBVIOUS
<1>1. ASSUME NEW p \in Procs,
             Boot(p) \/ Startup(p) \/ Work(p) \/ Shutdown(p) \/ Teardown(p) \/ Crash(p)
      PROVE  LifeInv'
  <2>1. CASE Startup(p)
    BY <2>1, AcquireStep, RefusedStep, InitDbStep, RecoverStep, StartStep, AnnounceStep
       DEF Startup
  <2>2. CASE Work(p)
    BY <2>2, SubmitStep, DispatchStep, AttemptStep, DispatcherDiesStep,
       JanitorDiesStep DEF Work
  <2>3. CASE Teardown(p)
    BY <2>3, EndPoolStep, EndWorkersStep, EndStoreStep, EndDbStep, ReleaseStep,
       CancelAllStep, GoneStep, CancelledStep DEF Teardown, EndWorker, ExitWorker
  <2> QED BY <1>1, <2>1, <2>2, <2>3, BootStep, ShutdownStep, CrashStep
<1>2. ASSUME NEW t \in Tasks, Begin(t) \/ Finish(t) \/ Fails(t) \/ Rebuilt(t)
      PROVE  LifeInv'
  BY <1>2, AttemptStep, ReturnStep
<1>3. ASSUME UNCHANGED vars PROVE LifeInv'
  <2>1. UNCHANGED <<lock, pc, conn, disp, janitor, row, owner, at, runs, crashes>>
    BY <1>3 DEF vars, process, table
  <2>2. TypeOK'
    BY <2>1 DEF LifeInv, TypeOK
  <2>3. \A t \in Tasks : TaskInv(t)'
    BY <2>1 DEF LifeInv, TaskInv, Lives
  <2>4. ASSUME NEW p \in Procs PROVE ProcInv(p)'
    <3>1. Idle(p)' <=> Idle(p)
      BY <2>1 DEF Idle, Lives
    <3> QED BY <2>1, <3>1
            DEF LifeInv, ProcInv, HolderOnly, PartsInOrder, ConnOpen, RunsOwned, AtWork
  <2> QED BY <2>2, <2>3, <2>4 DEF LifeInv
<1> QED BY <1>1, <1>2, <1>3 DEF Next

(* What lifespan keeps true of lock, parts, rows and coroutines.            *)
THEOREM LifeSound == Spec => []LifeInv
BY LifeInit, LifeNext, PTL DEF Spec

(* Two processes are never at work on one database, for any number of       *)
(* processes, tasks, starts and crashes (InstanceLock, lifespan).           *)
THEOREM OneAtATime == Spec => []OneAtWork
<1>1. LifeInv => OneAtWork
  BY DEF LifeInv, ProcInv, HolderOnly, OneAtWork
<1> QED BY <1>1, LifeSound, PTL

(* Rows and coroutines agree across processes, restarts and crashes, for    *)
(* any number of them (recover_unfinished, the finally clause of lifespan). *)
THEOREM RowsStayTrue == Spec => []RowsMatchOwners
<1>1. LifeInv => RowsMatchOwners
  <2> SUFFICES ASSUME LifeInv PROVE RowsMatchOwners
    OBVIOUS
  <2>1. InterruptedIsDead
    BY DEF LifeInv, TaskInv, InterruptedIsDead
  <2>2. ServesItsOwn
    BY DEF LifeInv, ProcInv, RunsOwned, ServesItsOwn
  <2>3. StopLeavesNoAttempt
    BY DEF LifeInv, TaskInv, StopLeavesNoAttempt
  <2> QED BY <2>1, <2>2, <2>3 DEF LifeInv, RowsMatchOwners
<1> QED BY <1>1, LifeSound, PTL
=============================================================================
