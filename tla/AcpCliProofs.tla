---------------------------- MODULE AcpCliProofs ----------------------------
(***************************************************************************)
(* The safety properties of AcpCli for every limit, every number of faults *)
(* and interruptions, and both behaviours of Process.wait().               *)
(*                                                                         *)
(* All follow from CliInv.  Its parts are proved one lemma each, with one  *)
(* case for each action; they lean on each other in the order in which     *)
(* they stand: that an exit is certain (ExitInv), that nothing precedes    *)
(* the child (SpawnInv), what was read (ReadInv), what a termination has   *)
(* achieved (TermInv), who interrupted (StopInv), what may be concluded    *)
(* (VerdictInv).  The types come last, since the range of hits follows     *)
(* from StopInv.                                                           *)
(***************************************************************************)
EXTENDS AcpCli, TLAPS

\* A cause that can interrupt only once counts once.
Extra(x) == IF x \in causes THEN 1 ELSE 0

\* Awaits at which both readers are at work or at their end.
Serving == {"wait", "drain", "collect", "fail", "fail sweep"}

\* Who knows of the exit of the main process, and when it is certain.
ExitInv ==
  /\ rc # "none" => reaper # "none"
  /\ reaper # "none" => code # "none"
  /\ code # "none" => "main" \notin group
  /\ seen \in {"zero", "fail"} => code = seen
  /\ reaper # "poll" /\ rc # "none" => rc = code
  /\ pc \in {"spawn", "confirm", "wait"} => reaper # "poll"
  /\ pc \in {"drain", "collect", "fail", "fail sweep"} =>
       code # "none" /\ seen # "none"

\* Before the child is spawned.
SpawnInv ==
  /\ pc = "spawn" => /\ group = {} /\ code = "none" /\ ~active
                     /\ stage = [a \in {"run", "stop"} |-> "off"]
  /\ pc \in {"spawn", "confirm"} =>
       /\ causes = {} /\ hits = 0 /\ stopping = "no"
       /\ \A s \in Streams : reader[s] = "off"
  /\ pc \notin {"spawn", "ended"} => active

\* What the reader of s has read, and what is left for it.
Counted(s) ==
  /\ pipe[s] <= wrote[s]
  /\ reader[s] \notin {"over", "cut"} => wrote[s] <= MaxOutput + pipe[s]
  /\ reader[s] = "off" => wrote[s] = pipe[s]
  /\ reader[s] = "eof" => holds[s] = {} /\ pipe[s] = 0
  /\ pc \in Serving => reader[s] \notin {"off", "cut"}

ReadInv == \A s \in Streams : Counted(s)

\* A termination that is over has seen the main process gone.
TermInv ==
  /\ stage["stop"] \notin {"sweep", "swept"}
  /\ stage["stop"] \in {"kill", "over"} => "main" \notin group
  /\ pc = "cut" => /\ stage["run"] \notin {"sweep", "swept"}
                   /\ stage["run"] \in {"kill", "over"} => "main" \notin group
  /\ pc = "cut" => causes # {} /\ hits >= 1
  /\ pc \in {"fail", "fail sweep"} => SomeOver

\* Who interrupted, and what it may have left behind.
StopInv ==
  /\ hits <= MaxInterrupts + Extra("timeout") + Extra("stop")
  /\ "stop" \in causes => stopping = "cancel"
  /\ stopping = "cancel" =>
       "main" \notin group \/ (pc = "ended" /\ hits >= 2 /\ "stop" \notin causes)
  /\ pc = "ended" => \/ "main" \notin group
                     \/ active /\ faults > 0 /\ hits = 0
                     \/ ~active /\ hits >= 2

\* What a verdict says of the child.
VerdictInv ==
  /\ pc # "ended" => verdict = "none"
  /\ verdict = "retry" => group = {} /\ code = "none"
  /\ verdict \in {"done", "invalid", "failed"} /\ Ran /\ faults = 0 =>
       code = "zero" \/ Guessed
  /\ verdict = "failed" /\ Ran /\ faults = 0 =>
       ~text /\ \A s \in Streams : holds[s] = {}
  /\ verdict = "unknown" => code = "fail" \/ SomeOver \/ "timeout" \in causes
  /\ AnswerWhole

CliInv ==
  /\ TypeOK /\ ExitInv /\ SpawnInv /\ ReadInv
  /\ TermInv /\ StopInv /\ VerdictInv

\* What the arithmetic below needs of the types.
LEMMA Numbers ==
  ASSUME TypeOK
  PROVE  /\ hits \in Nat
         /\ \A s \in Streams : wrote[s] \in Nat /\ pipe[s] \in {0, 1}
  <1>1. /\ hits \in 0..(MaxInterrupts + 2)
        /\ wrote \in [Streams -> 0..MaxWrites] /\ pipe \in [Streams -> 0..1]
    BY DEF TypeOK
  <1>2. hits \in Nat
    BY <1>1, CliAssumption
  <1>3. ASSUME NEW s \in Streams
        PROVE  wrote[s] \in Nat /\ pipe[s] \in {0, 1}
    BY <1>1, CliAssumption
  <1>. QED BY <1>2, <1>3

USE CliAssumption DEF output, processes, child, ends, vars

(* No step makes an exit known before it has happened: watcher and poll    *)
(* reap only what has exited, and asyncio learns only of what was reaped.   *)
LEMMA ExitStep ==
  ASSUME CliInv, Next
  PROVE  ExitInv'
  <1>0. TypeOK /\ ExitInv /\ SpawnInv
    BY DEF CliInv
  <1>1. CASE Group
    <2>1. CASE MainForks
      BY <1>0, <2>1 DEF ExitInv, MainForks
    <2>2. ASSUME NEW c \in {"zero", "fail"}, MainExits(c)
          PROVE  ExitInv'
      <3>1. code = "none"
        BY <1>0, <2>2 DEF ExitInv, MainExits, Leaves
      <3>2. seen \notin {"zero", "fail"} /\ reaper = "none" /\ rc = "none"
        BY <1>0, <3>1 DEF TypeOK, Codes, ExitInv
      <3>3. /\ UNCHANGED <<rc, reaper, seen, pc>> /\ code' = c
            /\ "main" \notin group'
        BY <2>2 DEF MainExits, Leaves
      <3>. QED BY <1>0, <3>1, <3>2, <3>3 DEF ExitInv
    <2>3. ASSUME NEW p \in Processes, NEW s \in Streams,
                 ProcessWrites(p, s) \/ LetsGo(p, s) \/ HelperExits
          PROVE  ExitInv'
      <3>1. /\ UNCHANGED <<rc, reaper, seen, pc, code>>
            /\ "main" \notin group => "main" \notin group'
        BY <2>3 DEF ProcessWrites, LetsGo, HelperExits, Leaves
      <3>. QED BY <1>0, <3>1 DEF ExitInv
    <2>. QED BY <1>1, <2>1, <2>2, <2>3 DEF Group, Processes, Streams
  <1>2. CASE Loop
    <2>1. CASE WatcherReaps
      BY <1>0, <2>1 DEF ExitInv, WatcherReaps
    <2>2. CASE WatcherTells
      BY <1>0, <2>2 DEF TypeOK, ExitInv, SpawnInv, Codes, WatcherTells
    <2>3. ASSUME NEW s \in Streams, ReaderReads(s)
          PROVE  ExitInv'
      BY <1>0, <2>3 DEF TypeOK, ExitInv, SpawnInv, Codes, ReaderReads, Read,
        Got
    <2>4. ASSUME NEW s \in Streams, ReaderEnds(s)
          PROVE  ExitInv'
      BY <1>0, <2>4 DEF TypeOK, ExitInv, SpawnInv, Codes, ReaderEnds
    <2>. QED BY <1>2, <2>1, <2>2, <2>3, <2>4 DEF Loop
  <1>3. CASE Termination
    BY <1>0, <1>3 DEF TypeOK, ExitInv, SpawnInv, Codes, Termination,
      TermEnter, TermWaited, TermKill, Waited, Killed, SweepEnter,
      SweepReturns, SweepKills
  <1>4. CASE SpawnFails \/ Spawned \/ Confirm \/ ConfirmFails
    <2>1. CASE SpawnFails
      BY <1>0, <2>1 DEF TypeOK, ExitInv, SpawnInv, Codes, SpawnFails, Ends
    <2>2. CASE Spawned
      BY <1>0, <2>2 DEF TypeOK, ExitInv, SpawnInv, Codes, Spawned
    <2>3. CASE ConfirmFails
      BY <1>0, <2>3 DEF TypeOK, ExitInv, SpawnInv, Codes, ConfirmFails, Ends
    <2>4. CASE Confirm
      BY <1>0, <2>4 DEF TypeOK, ExitInv, SpawnInv, Codes, Confirm, BothReaders
    <2>. QED BY <1>4, <2>1, <2>2, <2>3, <2>4
  <1>5. CASE \/ ReturncodeSeen \/ PollReaps \/ PollGuesses
             \/ Drained \/ DrainTimeout \/ DrainSwept
    <2>1. CASE ReturncodeSeen
      BY <1>0, <2>1 DEF TypeOK, ExitInv, SpawnInv, Codes, ReturncodeSeen,
        Drain, AllDone
    <2>2. CASE PollReaps
      BY <1>0, <2>2 DEF TypeOK, ExitInv, SpawnInv, Codes, PollReaps, Drain,
        AllDone
    <2>3. CASE PollGuesses
      BY <1>0, <2>3 DEF TypeOK, ExitInv, SpawnInv, Codes, PollGuesses, Drain,
        AllDone
    <2>4. CASE Drained
      BY <1>0, <2>4 DEF TypeOK, ExitInv, SpawnInv, Codes, Drained, AllEof
    <2>5. CASE DrainTimeout
      BY <1>0, <2>5 DEF TypeOK, ExitInv, SpawnInv, Codes, DrainTimeout
    <2>6. CASE DrainSwept
      BY <1>0, <2>6 DEF TypeOK, ExitInv, SpawnInv, Codes, DrainSwept
    <2>. QED BY <1>5, <2>1, <2>2, <2>3, <2>4, <2>5, <2>6
  <1>6. CASE ReadFailed \/ FailTerminated \/ FailSwept
    BY <1>0, <1>6 DEF TypeOK, ExitInv, SpawnInv, Codes, ReadFailed,
      FailTerminated, FailSwept, SomeOver, AllDone, Ends
  <1>7. CASE Judged \/ RecordFails \/ CutTerminated
    BY <1>0, <1>7 DEF TypeOK, ExitInv, SpawnInv, Codes, Judged, RecordFails,
      Collected, AllEof, Judge, Got, Ends, CutTerminated, CutVerdict
  <1>8. ASSUME NEW c \in Causes, Interrupted(c)
        PROVE  ExitInv'
    <2>1. CASE pc = "spawn"
      BY <1>0, <1>8, <2>1 DEF TypeOK, ExitInv, SpawnInv, Codes, Interrupted,
        Ends, CutVerdict, Awaiting
    <2>2. CASE pc # "spawn" /\ pc # "cut"
      BY <1>0, <1>8, <2>2 DEF TypeOK, ExitInv, SpawnInv, Codes, Interrupted,
        Cut, Awaiting
    <2>3. CASE pc = "cut"
      BY <1>0, <1>8, <2>3 DEF TypeOK, ExitInv, SpawnInv, Codes, Interrupted,
        Cut, Awaiting, Ends, CutVerdict
    <2>. QED BY <2>1, <2>2, <2>3
  <1>9. CASE Stop
    BY <1>0, <1>9 DEF TypeOK, ExitInv, SpawnInv, Codes, Stop
  <1>10. CASE StopCancels /\ pc = "ended"
    BY <1>0, <1>10 DEF TypeOK, ExitInv, SpawnInv, Codes, StopCancels
  <1>. QED BY <1>1, <1>2, <1>3, <1>4, <1>5, <1>6, <1>7, <1>8, <1>9, <1>10
         DEF Next, Attempt, Cancel, Timeout, StopCancels, Causes

(* Before the child is spawned nothing of the attempt exists, and nothing   *)
(* interrupts it between the spawn and the first await after it.            *)
LEMMA SpawnStep ==
  ASSUME CliInv, Next
  PROVE  SpawnInv'
  <1>0. TypeOK /\ SpawnInv
    BY DEF CliInv
  <1>1. CASE Group
    <2>1. /\ UNCHANGED <<pc, active, stage, causes, hits, stopping, reader>>
          /\ group = {} => group' = {} /\ code' = code
      BY <1>1 DEF Group, ProcessWrites, MainForks, LetsGo, Leaves, MainExits,
        HelperExits
    <2>. QED BY <1>0, <2>1 DEF SpawnInv
  <1>2. CASE Loop
    <2>1. CASE WatcherReaps
      BY <1>0, <2>1 DEF TypeOK, SpawnInv, Processes, WatcherReaps
    <2>2. CASE WatcherTells
      BY <1>0, <2>2 DEF TypeOK, SpawnInv, Processes, WatcherTells
    <2>3. ASSUME NEW s \in Streams, ReaderReads(s)
          PROVE  SpawnInv'
      BY <1>0, <2>3 DEF TypeOK, SpawnInv, Processes, ReaderReads, Read, Got
    <2>4. ASSUME NEW s \in Streams, ReaderEnds(s)
          PROVE  SpawnInv'
      BY <1>0, <2>4 DEF TypeOK, SpawnInv, Processes, ReaderEnds
    <2>. QED BY <1>2, <2>1, <2>2, <2>3, <2>4 DEF Loop
  <1>3. CASE Termination
    BY <1>0, <1>3 DEF TypeOK, SpawnInv, Processes, Termination, TermEnter,
      TermWaited, TermKill, Waited, Killed, SweepEnter, SweepReturns,
      SweepKills
  <1>4. CASE SpawnFails \/ Spawned \/ Confirm \/ ConfirmFails
    BY <1>0, <1>4 DEF TypeOK, SpawnInv, Processes, SpawnFails, Spawned,
      Confirm, ConfirmFails, BothReaders, Ends
  <1>5. CASE \/ ReturncodeSeen \/ PollReaps \/ PollGuesses
             \/ Drained \/ DrainTimeout \/ DrainSwept
    <2>1. CASE ReturncodeSeen
      BY <1>0, <2>1 DEF TypeOK, SpawnInv, Processes, ReturncodeSeen, Drain,
        AllDone
    <2>2. CASE PollReaps
      BY <1>0, <2>2 DEF SpawnInv, PollReaps, Drain
    <2>3. CASE PollGuesses
      BY <1>0, <2>3 DEF TypeOK, SpawnInv, Processes, PollGuesses, Drain,
        AllDone
    <2>4. CASE Drained
      BY <1>0, <2>4 DEF TypeOK, SpawnInv, Processes, Drained, AllEof
    <2>5. CASE DrainTimeout
      BY <1>0, <2>5 DEF TypeOK, SpawnInv, Processes, DrainTimeout
    <2>6. CASE DrainSwept
      BY <1>0, <2>6 DEF TypeOK, SpawnInv, Processes, DrainSwept
    <2>. QED BY <1>5, <2>1, <2>2, <2>3, <2>4, <2>5, <2>6
  <1>6. CASE ReadFailed \/ FailTerminated \/ FailSwept
    BY <1>0, <1>6 DEF TypeOK, SpawnInv, Processes, ReadFailed, FailTerminated,
      FailSwept, SomeOver, AllDone, Ends
  <1>7. CASE Judged \/ RecordFails \/ CutTerminated
    BY <1>0, <1>7 DEF TypeOK, SpawnInv, Processes, Judged, RecordFails,
      Collected, AllEof, Judge, Got, Ends, CutTerminated, CutVerdict
  <1>8. ASSUME NEW c \in Causes, Interrupted(c)
        PROVE  SpawnInv'
    <2>1. CASE pc = "spawn"
      BY <1>0, <1>8, <2>1 DEF TypeOK, SpawnInv, Processes, Interrupted, Ends,
        CutVerdict, Awaiting
    <2>2. CASE pc # "spawn" /\ pc # "cut"
      BY <1>0, <1>8, <2>2 DEF TypeOK, SpawnInv, Processes, Interrupted, Cut,
        Awaiting
    <2>3. CASE pc = "cut"
      BY <1>0, <1>8, <2>3 DEF TypeOK, SpawnInv, Processes, Interrupted, Cut,
        Awaiting, Ends, CutVerdict
    <2>. QED BY <2>1, <2>2, <2>3
  <1>9. CASE Stop
    BY <1>0, <1>9 DEF TypeOK, SpawnInv, Processes, Stop
  <1>10. CASE StopCancels /\ pc = "ended"
    BY <1>0, <1>10 DEF TypeOK, SpawnInv, Processes, StopCancels
  <1>. QED BY <1>1, <1>2, <1>3, <1>4, <1>5, <1>6, <1>7, <1>8, <1>9, <1>10
         DEF Next, Attempt, Cancel, Timeout, StopCancels, Causes

(* Every unit that was written is in the pipe or counted by the reader, and *)
(* a reader that has ended left nothing behind and nobody to write more.    *)
LEMMA ReadStep ==
  ASSUME CliInv, Next
  PROVE  ReadInv'
  <1>0. TypeOK /\ ReadInv /\ SpawnInv
    BY DEF CliInv
  <1>1. CASE Group
    <2>1. ASSUME NEW p \in Processes, NEW s \in Streams, ProcessWrites(p, s)
          PROVE  ReadInv'
      <3>. SUFFICES ASSUME NEW q \in Streams
                    PROVE  Counted(q)'
        BY DEF ReadInv
      <3>1. Counted(q) /\ Counted(s)
        BY <1>0, <2>1 DEF ReadInv
      <3>2. /\ wrote[q] \in Nat /\ wrote'[q] = wrote[q] + (IF q = s THEN 1 ELSE 0)
            /\ pipe'[q] = (IF q = s THEN 1 ELSE pipe[q]) /\ pipe[s] = 0
            /\ p \in holds[s] /\ UNCHANGED <<holds, reader, pc>>
        <4>1. /\ p \in holds[s] /\ pipe[s] = 0 /\ UNCHANGED <<holds, reader, pc>>
              /\ wrote' = [wrote EXCEPT ![s] = @ + 1] /\ pipe' = [pipe EXCEPT ![s] = 1]
          BY <2>1 DEF ProcessWrites
        <4>2. /\ wrote[q] \in Nat /\ wrote \in [Streams -> 0..MaxWrites]
              /\ pipe \in [Streams -> 0..1]
          BY <1>0, Numbers DEF TypeOK
        <4>. QED BY <4>1, <4>2
      <3>3. CASE q = s
        BY <3>1, <3>2, <3>3 DEF Counted
      <3>4. CASE q # s
        BY <3>1, <3>2, <3>4 DEF Counted
      <3>. QED BY <3>3, <3>4
    <2>2. CASE MainForks
      BY <1>0, <2>2 DEF TypeOK, ReadInv, Counted, SpawnInv, Serving, MainForks
    <2>3. ASSUME NEW c \in {"zero", "fail"}, MainExits(c)
          PROVE  ReadInv'
      BY <1>0, <2>3 DEF TypeOK, ReadInv, Counted, SpawnInv, Serving, MainExits, Leaves
    <2>4. CASE HelperExits
      BY <1>0, <2>4 DEF TypeOK, ReadInv, Counted, SpawnInv, Serving,
        HelperExits, Leaves
    <2>5. ASSUME NEW p \in Processes, NEW s \in Streams, LetsGo(p, s)
          PROVE  ReadInv'
      <3>1. /\ holds' = [holds EXCEPT ![s] = holds[s] \ {p}]
            /\ UNCHANGED <<wrote, pipe, reader, pc>>
        BY <2>5 DEF LetsGo
      <3>2. \A q \in Streams : holds[q] = {} => holds'[q] = {}
        BY <1>0, <3>1 DEF TypeOK
      <3>. QED BY <1>0, <3>1, <3>2 DEF ReadInv, Counted
    <2>. QED BY <1>1, <2>1, <2>2, <2>3, <2>4, <2>5 DEF Group
  <1>2. CASE Loop
    <2>1. CASE WatcherReaps
      BY <1>0, <2>1 DEF TypeOK, ReadInv, Counted, SpawnInv, Serving,
        WatcherReaps
    <2>2. CASE WatcherTells
      BY <1>0, <2>2 DEF TypeOK, ReadInv, Counted, SpawnInv, Serving,
        WatcherTells
    <2>3. ASSUME NEW s \in Streams, ReaderReads(s)
          PROVE  ReadInv'
      <3>. SUFFICES ASSUME NEW q \in Streams
                    PROVE  Counted(q)'
        BY DEF ReadInv
      <3>1. Counted(q) /\ Counted(s)
        BY <1>0, <2>3 DEF ReadInv
      <3>2. CASE q = s
        <4>1. /\ reader[q] = "reading" /\ pipe[q] > 0 /\ UNCHANGED <<holds, wrote, pc>>
              /\ reader' = [reader EXCEPT ![s] = Read(s)]
              /\ pipe' = [pipe EXCEPT ![s] = 0]
          BY <2>3, <3>2 DEF ReaderReads
        <4>2. pipe'[q] = 0 /\ reader'[q] = Read(q)
          BY <1>0, <3>2, <4>1 DEF TypeOK
        <4>3. wrote[q] \in Nat /\ pipe[q] = 1
          BY <1>0, <4>1, Numbers
        <4>4. Read(q) = IF wrote[q] > MaxOutput THEN "over" ELSE "reading"
          BY <4>3 DEF Read, Got
        <4>. QED BY <3>1, <4>1, <4>2, <4>3, <4>4 DEF Counted
      <3>3. CASE q # s
        BY <1>0, <2>3, <3>1, <3>3 DEF TypeOK, Counted, ReaderReads
      <3>. QED BY <3>2, <3>3
    <2>4. ASSUME NEW s \in Streams, ReaderEnds(s)
          PROVE  ReadInv'
      BY <1>0, <2>4 DEF TypeOK, ReadInv, Counted, SpawnInv, Serving,
        ReaderEnds
    <2>. QED BY <1>2, <2>1, <2>2, <2>3, <2>4 DEF Loop
  <1>3. CASE Termination
    BY <1>0, <1>3 DEF TypeOK, ReadInv, Counted, SpawnInv, Serving,
      Termination, TermEnter, TermWaited, TermKill, Waited, Killed,
      SweepEnter, SweepReturns, SweepKills
  <1>4. CASE SpawnFails \/ Spawned \/ Confirm \/ ConfirmFails
    BY <1>0, <1>4 DEF TypeOK, ReadInv, Counted, SpawnInv, Serving, SpawnFails,
      Spawned, Confirm, ConfirmFails, BothReaders, Ends
  <1>5. CASE \/ ReturncodeSeen \/ PollReaps \/ PollGuesses
             \/ Drained \/ DrainTimeout \/ DrainSwept
    BY <1>0, <1>5 DEF TypeOK, ReadInv, Counted, SpawnInv, Serving,
      ReturncodeSeen, PollReaps, PollGuesses, Drain, AllDone, Drained, AllEof,
      DrainTimeout, DrainSwept
  <1>6. CASE ReadFailed \/ FailTerminated \/ FailSwept
    BY <1>0, <1>6 DEF TypeOK, ReadInv, Counted, SpawnInv, Serving, ReadFailed,
      FailTerminated, FailSwept, SomeOver, AllDone, Ends
  <1>7. CASE Judged \/ RecordFails \/ CutTerminated
    BY <1>0, <1>7 DEF TypeOK, ReadInv, Counted, SpawnInv, Serving, Judged,
      RecordFails, Collected, AllEof, Judge, Got, Ends, CutTerminated,
      CutVerdict
  <1>8. ASSUME NEW c \in Causes, Interrupted(c)
        PROVE  ReadInv'
    <2>1. CASE pc = "spawn"
      BY <1>0, <1>8, <2>1 DEF TypeOK, ReadInv, Counted, SpawnInv, Serving,
        Interrupted, Ends, CutVerdict, Awaiting
    <2>2. CASE pc # "spawn" /\ pc # "cut"
      <3>. SUFFICES ASSUME NEW q \in Streams
                    PROVE  Counted(q)'
        BY DEF ReadInv
      <3>1. Counted(q) /\ pc' = "cut"
        BY <1>0, <1>8, <2>2 DEF ReadInv, Interrupted, Cut
      <3>2. reader'[q] \in {reader[q], "cut"}
        BY <1>0, <1>8, <2>2 DEF TypeOK, Interrupted
      <3>3. UNCHANGED <<wrote, pipe, holds>>
        BY <1>8 DEF Interrupted
      <3>. QED BY <3>1, <3>2, <3>3 DEF Counted, Serving
    <2>3. CASE pc = "cut"
      BY <1>0, <1>8, <2>3 DEF TypeOK, ReadInv, Counted, SpawnInv, Serving,
        Interrupted, Cut, Awaiting, Ends, CutVerdict
    <2>. QED BY <2>1, <2>2, <2>3
  <1>9. CASE Stop
    BY <1>0, <1>9 DEF TypeOK, ReadInv, Counted, SpawnInv, Serving, Stop
  <1>10. CASE StopCancels /\ pc = "ended"
    BY <1>0, <1>10 DEF TypeOK, ReadInv, Counted, SpawnInv, Serving,
      StopCancels
  <1>. QED BY <1>1, <1>2, <1>3, <1>4, <1>5, <1>6, <1>7, <1>8, <1>9, <1>10
         DEF Next, Attempt, Cancel, Timeout, StopCancels, Causes

(* A termination that goes beyond SIGTERM has seen the main process gone.   *)
LEMMA TermStep ==
  ASSUME CliInv, Next
  PROVE  TermInv'
  <1>0. TypeOK /\ TermInv /\ ExitInv /\ SpawnInv
    BY DEF CliInv
  <1>1. CASE Group
    BY <1>0, <1>1 DEF TypeOK, TermInv, ExitInv, SpawnInv, SomeOver, Group,
      ProcessWrites, MainForks, LetsGo, Leaves, MainExits, HelperExits
  <1>2. CASE Loop
    <2>1. CASE WatcherReaps
      BY <1>0, <2>1 DEF TypeOK, TermInv, ExitInv, SpawnInv, SomeOver,
        WatcherReaps
    <2>2. CASE WatcherTells
      BY <1>0, <2>2 DEF TypeOK, TermInv, ExitInv, SpawnInv, SomeOver,
        WatcherTells
    <2>3. ASSUME NEW s \in Streams, ReaderReads(s)
          PROVE  TermInv'
      BY <1>0, <2>3 DEF TypeOK, TermInv, ExitInv, SpawnInv, SomeOver,
        ReaderReads, Read, Got
    <2>4. ASSUME NEW s \in Streams, ReaderEnds(s)
          PROVE  TermInv'
      BY <1>0, <2>4 DEF TypeOK, TermInv, ExitInv, SpawnInv, SomeOver,
        ReaderEnds
    <2>. QED BY <1>2, <2>1, <2>2, <2>3, <2>4 DEF Loop
  <1>3. CASE Termination
    <2>1. ASSUME NEW a \in {"run", "stop"}, TermEnter(a)
          PROVE  TermInv'
      BY <1>0, <2>1 DEF TypeOK, TermInv, ExitInv, SpawnInv, SomeOver,
        TermEnter
    <2>2. ASSUME NEW a \in {"run", "stop"}, TermWaited(a)
          PROVE  TermInv'
      BY <1>0, <2>2 DEF TypeOK, TermInv, ExitInv, SpawnInv, SomeOver,
        TermWaited, Waited
    <2>3. ASSUME NEW a \in {"run", "stop"}, TermKill(a)
          PROVE  TermInv'
      BY <1>0, <2>3 DEF TypeOK, TermInv, ExitInv, SpawnInv, SomeOver,
        TermKill, Killed
    <2>4. CASE SweepEnter
      BY <1>0, <2>4 DEF TypeOK, TermInv, ExitInv, SpawnInv, SomeOver,
        SweepEnter
    <2>5. CASE SweepReturns
      BY <1>0, <2>5 DEF TypeOK, TermInv, ExitInv, SpawnInv, SomeOver,
        SweepReturns
    <2>6. CASE SweepKills
      BY <1>0, <2>6 DEF TypeOK, TermInv, ExitInv, SpawnInv, SomeOver,
        SweepKills, Killed
    <2>. QED BY <1>3, <2>1, <2>2, <2>3, <2>4, <2>5, <2>6 DEF Termination
  <1>4. CASE SpawnFails \/ Spawned \/ Confirm \/ ConfirmFails
    BY <1>0, <1>4 DEF TypeOK, TermInv, ExitInv, SpawnInv, SomeOver,
      SpawnFails, Spawned, Confirm, ConfirmFails, BothReaders, Ends
  <1>5. CASE \/ ReturncodeSeen \/ PollReaps \/ PollGuesses
             \/ Drained \/ DrainTimeout \/ DrainSwept
    BY <1>0, <1>5 DEF TypeOK, TermInv, ExitInv, SpawnInv, SomeOver,
      ReturncodeSeen, PollReaps, PollGuesses, Drain, AllDone, Drained, AllEof,
      DrainTimeout, DrainSwept
  <1>6. CASE ReadFailed \/ FailTerminated \/ FailSwept
    BY <1>0, <1>6 DEF TypeOK, TermInv, ExitInv, SpawnInv, SomeOver,
      ReadFailed, FailTerminated, FailSwept, AllDone, Ends
  <1>7. CASE Judged \/ RecordFails \/ CutTerminated
    BY <1>0, <1>7 DEF TypeOK, TermInv, ExitInv, SpawnInv, SomeOver, Judged,
      RecordFails, Collected, AllEof, Judge, Got, Ends, CutTerminated,
      CutVerdict
  <1>8. ASSUME NEW c \in Causes, Interrupted(c)
        PROVE  TermInv'
    <2>1. CASE pc = "spawn"
      BY <1>0, <1>8, <2>1 DEF TypeOK, TermInv, ExitInv, SpawnInv, SomeOver,
        Interrupted, Ends, CutVerdict, Awaiting
    <2>2. CASE pc # "spawn" /\ pc # "cut"
      <3>1. /\ pc' = "cut" /\ hits' = hits + 1 /\ c \in causes'
            /\ stage' = [stage EXCEPT !["run"] = "enter"] /\ group' = group
        BY <1>8, <2>2 DEF Interrupted, Cut
      <3>2. stage'["run"] = "enter" /\ stage'["stop"] = stage["stop"]
        BY <1>0, <3>1 DEF TypeOK
      <3>3. hits' >= 1 /\ causes' # {}
        BY <1>0, <3>1, Numbers
      <3>. QED BY <1>0, <3>1, <3>2, <3>3 DEF TermInv
    <2>3. CASE pc = "cut"
      BY <1>0, <1>8, <2>3 DEF TypeOK, TermInv, ExitInv, SpawnInv, SomeOver,
        Interrupted, Cut, Awaiting, Ends, CutVerdict
    <2>. QED BY <2>1, <2>2, <2>3
  <1>9. CASE Stop
    BY <1>0, <1>9 DEF TypeOK, TermInv, ExitInv, SpawnInv, SomeOver, Stop
  <1>10. CASE StopCancels /\ pc = "ended"
    BY <1>0, <1>10 DEF TypeOK, TermInv, ExitInv, SpawnInv, SomeOver,
      StopCancels
  <1>. QED BY <1>1, <1>2, <1>3, <1>4, <1>5, <1>6, <1>7, <1>8, <1>9, <1>10
         DEF Next, Attempt, Cancel, Timeout, StopCancels, Causes

(* An attempt leaves a main process behind only after a failed write, or    *)
(* after two interruptions, the second of which cut the handler short.      *)
LEMMA StopStep ==
  ASSUME CliInv, Next
  PROVE  StopInv'
  <1>0. TypeOK /\ StopInv /\ ExitInv /\ SpawnInv /\ TermInv
    BY DEF CliInv
  <1>1. CASE Group
    <2>1. ASSUME NEW p \in Processes, NEW s \in Streams, ProcessWrites(p, s)
          PROVE  StopInv'
      BY <1>0, <2>1 DEF TypeOK, StopInv, ExitInv, SpawnInv, TermInv, Extra,
        ProcessWrites
    <2>2. CASE MainForks
      BY <1>0, <2>2 DEF TypeOK, StopInv, ExitInv, SpawnInv, TermInv, Extra,
        MainForks
    <2>3. ASSUME NEW c \in {"zero", "fail"}, MainExits(c)
          PROVE  StopInv'
      BY <1>0, <2>3 DEF TypeOK, StopInv, ExitInv, SpawnInv, TermInv, Extra,
        MainExits, Leaves
    <2>4. CASE HelperExits
      BY <1>0, <2>4 DEF TypeOK, StopInv, ExitInv, SpawnInv, TermInv, Extra,
        HelperExits, Leaves
    <2>5. ASSUME NEW p \in Processes, NEW s \in Streams, LetsGo(p, s)
          PROVE  StopInv'
      BY <1>0, <2>5 DEF TypeOK, StopInv, ExitInv, SpawnInv, TermInv, Extra,
        LetsGo
    <2>. QED BY <1>1, <2>1, <2>2, <2>3, <2>4, <2>5 DEF Group
  <1>2. CASE Loop
    <2>1. CASE WatcherReaps
      BY <1>0, <2>1 DEF TypeOK, StopInv, ExitInv, SpawnInv, TermInv, Extra,
        WatcherReaps
    <2>2. CASE WatcherTells
      BY <1>0, <2>2 DEF TypeOK, StopInv, ExitInv, SpawnInv, TermInv, Extra,
        WatcherTells
    <2>3. ASSUME NEW s \in Streams, ReaderReads(s)
          PROVE  StopInv'
      BY <1>0, <2>3 DEF TypeOK, StopInv, ExitInv, SpawnInv, TermInv, Extra,
        ReaderReads, Read, Got
    <2>4. ASSUME NEW s \in Streams, ReaderEnds(s)
          PROVE  StopInv'
      BY <1>0, <2>4 DEF TypeOK, StopInv, ExitInv, SpawnInv, TermInv, Extra,
        ReaderEnds
    <2>. QED BY <1>2, <2>1, <2>2, <2>3, <2>4 DEF Loop
  <1>3. CASE Termination
    <2>1. ASSUME NEW a \in {"run", "stop"}, TermEnter(a)
          PROVE  StopInv'
      BY <1>0, <2>1 DEF TypeOK, StopInv, ExitInv, SpawnInv, TermInv, Extra,
        TermEnter
    <2>2. ASSUME NEW a \in {"run", "stop"}, TermWaited(a)
          PROVE  StopInv'
      BY <1>0, <2>2 DEF TypeOK, StopInv, ExitInv, SpawnInv, TermInv, Extra,
        TermWaited, Waited
    <2>3. ASSUME NEW a \in {"run", "stop"}, TermKill(a)
          PROVE  StopInv'
      BY <1>0, <2>3 DEF TypeOK, StopInv, ExitInv, SpawnInv, TermInv, Extra,
        TermKill, Killed
    <2>4. CASE SweepEnter
      BY <1>0, <2>4 DEF TypeOK, StopInv, ExitInv, SpawnInv, TermInv, Extra,
        SweepEnter
    <2>5. CASE SweepReturns
      BY <1>0, <2>5 DEF TypeOK, StopInv, ExitInv, SpawnInv, TermInv, Extra,
        SweepReturns
    <2>6. CASE SweepKills
      BY <1>0, <2>6 DEF TypeOK, StopInv, ExitInv, SpawnInv, TermInv, Extra,
        SweepKills, Killed
    <2>. QED BY <1>3, <2>1, <2>2, <2>3, <2>4, <2>5, <2>6 DEF Termination
  <1>4. CASE SpawnFails \/ Spawned \/ Confirm \/ ConfirmFails
    <2>1. CASE SpawnFails
      BY <1>0, <2>1 DEF TypeOK, StopInv, ExitInv, SpawnInv, TermInv, Extra,
        SpawnFails, Ends
    <2>2. CASE Spawned
      BY <1>0, <2>2 DEF TypeOK, StopInv, ExitInv, SpawnInv, TermInv, Extra,
        Spawned
    <2>3. CASE ConfirmFails
      BY <1>0, <2>3 DEF TypeOK, StopInv, ExitInv, SpawnInv, TermInv, Extra,
        ConfirmFails, Ends
    <2>4. CASE Confirm
      BY <1>0, <2>4 DEF TypeOK, StopInv, ExitInv, SpawnInv, TermInv, Extra,
        Confirm, BothReaders
    <2>. QED BY <1>4, <2>1, <2>2, <2>3, <2>4
  <1>5. CASE \/ ReturncodeSeen \/ PollReaps \/ PollGuesses
             \/ Drained \/ DrainTimeout \/ DrainSwept
    <2>1. CASE ReturncodeSeen
      BY <1>0, <2>1 DEF TypeOK, StopInv, ExitInv, SpawnInv, TermInv, Extra,
        ReturncodeSeen, Drain, AllDone
    <2>2. CASE PollReaps
      BY <1>0, <2>2 DEF TypeOK, StopInv, ExitInv, SpawnInv, TermInv, Extra,
        PollReaps, Drain, AllDone
    <2>3. CASE PollGuesses
      BY <1>0, <2>3 DEF TypeOK, StopInv, ExitInv, SpawnInv, TermInv, Extra,
        PollGuesses, Drain, AllDone
    <2>4. CASE Drained
      BY <1>0, <2>4 DEF TypeOK, StopInv, ExitInv, SpawnInv, TermInv, Extra,
        Drained, AllEof
    <2>5. CASE DrainTimeout
      BY <1>0, <2>5 DEF TypeOK, StopInv, ExitInv, SpawnInv, TermInv, Extra,
        DrainTimeout
    <2>6. CASE DrainSwept
      BY <1>0, <2>6 DEF TypeOK, StopInv, ExitInv, SpawnInv, TermInv, Extra,
        DrainSwept
    <2>. QED BY <1>5, <2>1, <2>2, <2>3, <2>4, <2>5, <2>6
  <1>6. CASE ReadFailed \/ FailTerminated \/ FailSwept
    <2>1. CASE ReadFailed
      BY <1>0, <2>1 DEF TypeOK, StopInv, ExitInv, SpawnInv, TermInv, Extra,
        ReadFailed, SomeOver
    <2>2. CASE FailTerminated
      BY <1>0, <2>2 DEF TypeOK, StopInv, ExitInv, SpawnInv, TermInv, Extra,
        FailTerminated
    <2>3. CASE FailSwept
      BY <1>0, <2>3 DEF TypeOK, StopInv, ExitInv, SpawnInv, TermInv, Extra,
        FailSwept, AllDone, SomeOver, Ends
    <2>. QED BY <1>6, <2>1, <2>2, <2>3
  <1>7. CASE Judged \/ RecordFails \/ CutTerminated
    <2>1. CASE Judged
      BY <1>0, <2>1 DEF TypeOK, StopInv, ExitInv, SpawnInv, TermInv, Extra,
        Judged, Collected, AllEof, Judge, Got, Ends
    <2>2. CASE RecordFails
      BY <1>0, <2>2 DEF TypeOK, StopInv, ExitInv, SpawnInv, TermInv, Extra,
        RecordFails, Collected, AllEof, Ends
    <2>3. CASE CutTerminated
      BY <1>0, <2>3 DEF TypeOK, StopInv, ExitInv, SpawnInv, TermInv, Extra,
        CutTerminated, Ends, CutVerdict
    <2>. QED BY <1>7, <2>1, <2>2, <2>3
  <1>8. ASSUME NEW c \in Causes, Interrupted(c)
        PROVE  /\ pc' = "ended" => "main" \notin group' \/ (~active' /\ hits' >= 2)
               /\ hits' = hits + 1 /\ causes' = causes \cup {c}
               /\ group' = group
    <2>0. hits' = hits + 1 /\ causes' = causes \cup {c} /\ group' = group
      BY <1>8 DEF Interrupted
    <2>1. CASE pc = "spawn"
      BY <1>0, <1>8, <2>1 DEF SpawnInv, Interrupted, Awaiting
    <2>2. CASE pc # "spawn" /\ pc # "cut"
      BY <1>8, <2>2 DEF Interrupted, Cut
    <2>3. CASE pc = "cut"
      <3>1. hits \in Nat /\ hits >= 1
        BY <1>0, <2>3, Numbers DEF TermInv
      <3>2. ~active'
        BY <1>8, <2>3 DEF Interrupted
      <3>. QED BY <2>0, <3>1, <3>2
    <2>. QED BY <2>0, <2>1, <2>2, <2>3
  <1>9. ASSUME NEW c \in Causes, Interrupted(c)
        PROVE  pc # "ended"
    BY <1>9 DEF Interrupted, Awaiting
  <1>10. CASE Cancel
    <2>1. /\ "cancel" \in Causes /\ Interrupted("cancel") /\ hits < MaxInterrupts
          /\ stopping' = stopping
      BY <1>10 DEF Cancel, Causes
    <2>2. /\ hits \in Nat /\ hits' = hits + 1 /\ group' = group /\ pc # "ended"
          /\ causes' = causes \cup {"cancel"}
          /\ pc' = "ended" => "main" \notin group' \/ (~active' /\ hits' >= 2)
      BY <1>0, <2>1, <1>8, <1>9, Numbers
    <2>3. \A x \in {"timeout", "stop"} : Extra(x)' = Extra(x) /\ Extra(x) \in {0, 1}
      BY <2>2 DEF Extra
    <2>. QED BY <1>0, <2>1, <2>2, <2>3 DEF StopInv
  <1>11. CASE Timeout
    <2>1. /\ "timeout" \in Causes /\ Interrupted("timeout")
          /\ "timeout" \notin causes /\ stopping' = stopping
      BY <1>11 DEF Timeout, Causes
    <2>2. /\ hits \in Nat /\ hits' = hits + 1 /\ group' = group /\ pc # "ended"
          /\ causes' = causes \cup {"timeout"}
          /\ pc' = "ended" => "main" \notin group' \/ (~active' /\ hits' >= 2)
      BY <1>0, <2>1, <1>8, <1>9, Numbers
    <2>3. /\ Extra("timeout")' = 1 /\ Extra("timeout") = 0
          /\ Extra("stop")' = Extra("stop") /\ Extra("stop") \in {0, 1}
      BY <2>1, <2>2 DEF Extra
    <2>. QED BY <1>0, <2>1, <2>2, <2>3 DEF StopInv
  <1>12. CASE Stop
    BY <1>0, <1>12 DEF StopInv, Extra, Stop
  <1>13. CASE StopCancels
    <2>1. CASE pc = "ended"
      BY <1>0, <1>13, <2>1 DEF TypeOK, StopInv, ExitInv, TermInv, SpawnInv, Extra, StopCancels
    <2>2. CASE pc # "ended"
      <3>1. Interrupted("stop") /\ stopping' = "cancel" /\ stopping # "cancel"
        BY <1>13, <2>2 DEF StopCancels
      <3>2. "main" \notin group
        BY <1>0, <1>13, <2>2 DEF TypeOK, SpawnInv, ExitInv, TermInv, StopCancels
      <3>3. /\ hits \in Nat /\ hits' = hits + 1 /\ group' = group
            /\ causes' = causes \cup {"stop"}
        BY <1>0, <3>1, <1>8, Numbers DEF Causes
      <3>4. "stop" \notin causes
        BY <1>0, <3>1 DEF StopInv
      <3>5. /\ Extra("stop")' = 1 /\ Extra("stop") = 0
            /\ Extra("timeout")' = Extra("timeout") /\ Extra("timeout") \in {0, 1}
        BY <3>3, <3>4 DEF Extra
      <3>. QED BY <1>0, <3>1, <3>2, <3>3, <3>5 DEF StopInv
    <2>. QED BY <2>1, <2>2
  <1>. QED BY <1>1, <1>2, <1>3, <1>4, <1>5, <1>6, <1>7, <1>10, <1>11, <1>12,
              <1>13
         DEF Next, Attempt

\* A step that concludes nothing and takes nothing back.
Quiet ==
  /\ UNCHANGED <<pc, verdict, seen, causes, faults>>
  /\ group = {} => group' = {}
  /\ "main" \notin group => "main" \notin group' /\ code' = code
  /\ (\A s \in Streams : holds[s] = {}) =>
       (\A s \in Streams : holds'[s] = {}) /\ UNCHANGED <<wrote, text>>
  /\ holds["stdout"] = {} /\ pipe["stdout"] = 0 => pipe'["stdout"] = 0
  /\ SomeOver => SomeOver'

\* It leaves every verdict as true as it was.
LEMMA QuietVerdict ==
  ASSUME VerdictInv, ExitInv, Quiet
  PROVE  VerdictInv'
  <1>. /\ pc' = pc /\ verdict' = verdict /\ seen' = seen /\ causes' = causes
       /\ faults' = faults
    BY DEF Quiet
  <1>1. Ran' => Ran
    BY DEF Ran, Quiet
  <1>2. (code \in {"zero", "fail"} => code' = code) /\ (Guessed' = Guessed)
    BY DEF Quiet, ExitInv, Guessed
  <1>3. verdict' = "retry" => group' = {} /\ code' = "none"
    BY DEF VerdictInv, Quiet
  <1>4. verdict' = "failed" /\ Ran' /\ faults' = 0 =>
          ~text' /\ \A s \in Streams : holds'[s] = {}
    BY <1>1 DEF VerdictInv, Quiet
  <1>5. verdict' = "unknown" =>
          code' = "fail" \/ SomeOver' \/ "timeout" \in causes'
    BY <1>2 DEF VerdictInv, Quiet
  <1>6. AnswerWhole'
    BY DEF VerdictInv, AnswerWhole, Quiet, Streams
  <1>. QED BY <1>1, <1>2, <1>3, <1>4, <1>5, <1>6 DEF VerdictInv

(* The verdict says no more of the child than is known (run_task).          *)
LEMMA VerdictStep ==
  ASSUME CliInv, Next
  PROVE  VerdictInv'
  <1>0. TypeOK /\ VerdictInv /\ ExitInv /\ SpawnInv /\ ReadInv /\ TermInv
    BY DEF CliInv
  <1>a. /\ holds \in [Streams -> SUBSET Processes] /\ faults \in 0..MaxFaults
        /\ pipe \in [Streams -> 0..1] /\ "stdout" \in Streams
        /\ reader \in [Streams -> {"off", "reading", "eof", "over", "cut"}]
    BY <1>0 DEF TypeOK, Streams
  <1>1. CASE Group
    <2>1. ASSUME NEW p \in Processes, NEW s \in Streams, ProcessWrites(p, s)
          PROVE  Quiet
      <3>1. \E q \in Streams : holds[q] # {}
        BY <2>1 DEF ProcessWrites
      <3>2. holds["stdout"] = {} => s # "stdout"
        BY <2>1 DEF ProcessWrites
      <3>. QED BY <1>a, <2>1, <3>1, <3>2 DEF Quiet, SomeOver, ProcessWrites
    <2>2. ASSUME NEW p \in Processes, NEW s \in Streams, LetsGo(p, s)
          PROVE  Quiet
      <3>1. /\ UNCHANGED <<pc, verdict, seen, causes, faults, group, code, wrote,
                           text, pipe, reader>>
            /\ p \in holds[s]
        BY <2>2 DEF LetsGo
      <3>. QED BY <3>1 DEF Quiet, SomeOver
    <2>3. ASSUME MainForks
          PROVE  Quiet
      <3>1. /\ UNCHANGED <<pc, verdict, seen, causes, faults, code, wrote, text,
                           pipe, reader>>
            /\ "main" \in group
        BY <2>3 DEF MainForks
      <3>2. (\A s \in Streams : holds[s] = {}) => \A s \in Streams : holds'[s] = {}
        BY <2>3 DEF MainForks
      <3>3. (group = {} => group' = {}) /\ (SomeOver => SomeOver')
        BY <3>1 DEF SomeOver
      <3>. QED BY <3>1, <3>2, <3>3 DEF Quiet
    <2>4. ASSUME NEW c \in {"zero", "fail"}, MainExits(c)
          PROVE  Quiet
      <3>1. /\ UNCHANGED <<pc, verdict, seen, causes, faults, wrote, text, pipe,
                           reader>>
            /\ "main" \in group
            /\ holds' = [s \in Streams |-> holds[s] \ {"main"}]
        BY <2>4 DEF MainExits, Leaves
      <3>2. (\A s \in Streams : holds[s] = {}) => \A s \in Streams : holds'[s] = {}
        BY <3>1
      <3>. QED BY <3>1, <3>2 DEF Quiet, SomeOver
    <2>5. ASSUME HelperExits
          PROVE  Quiet
      <3>1. /\ UNCHANGED <<pc, verdict, seen, causes, faults, code, wrote, text,
                           pipe, reader>>
            /\ group' = group \ {"helper"}
        BY <2>5 DEF HelperExits, Leaves
      <3>2. (\A s \in Streams : holds[s] = {}) => \A s \in Streams : holds'[s] = {}
        BY <2>5 DEF HelperExits, Leaves
      <3>3. /\ group = {} => group' = {}
            /\ "main" \notin group => "main" \notin group'
            /\ SomeOver => SomeOver'
        BY <3>1 DEF SomeOver
      <3>. QED BY <3>1, <3>2, <3>3 DEF Quiet
    <2>. QED BY <1>0, <1>1, <2>1, <2>2, <2>3, <2>4, <2>5, QuietVerdict
           DEF Group
  <1>2. CASE Loop
    <2>1. ASSUME WatcherReaps \/ WatcherTells
          PROVE  Quiet
      <3>1. UNCHANGED <<processes, pc, verdict, seen, causes, faults, pipe,
                        reader>>
        BY <2>1 DEF WatcherReaps, WatcherTells
      <3>. QED BY <3>1 DEF Quiet, SomeOver
    <2>2. ASSUME NEW s \in Streams, ReaderReads(s)
          PROVE  Quiet
      <3>1. /\ UNCHANGED <<pc, verdict, seen, causes, faults, code, wrote, text,
                           group, holds>>
            /\ pipe' = [pipe EXCEPT ![s] = 0] /\ reader[s] = "reading"
            /\ reader' = [reader EXCEPT ![s] = Read(s)]
        BY <2>2 DEF ReaderReads
      <3>2. pipe["stdout"] = 0 => pipe'["stdout"] = 0
        BY <1>a, <3>1
      <3>3. SomeOver => SomeOver'
        BY <1>a, <3>1 DEF SomeOver
      <3>. QED BY <3>1, <3>2, <3>3 DEF Quiet
    <2>3. ASSUME NEW s \in Streams, ReaderEnds(s)
          PROVE  Quiet
      BY <1>a, <2>3 DEF Quiet, SomeOver, ReaderEnds
    <2>. QED BY <1>0, <1>2, <2>1, <2>2, <2>3, QuietVerdict DEF Loop
  <1>3. CASE Termination
    <2>1. ASSUME NEW a \in {"run", "stop"},
                 TermEnter(a) \/ TermWaited(a) \/ TermKill(a)
          PROVE  Quiet
      BY <2>1 DEF Quiet, SomeOver, TermEnter, TermWaited, TermKill, Killed
    <2>2. ASSUME SweepEnter \/ SweepReturns \/ SweepKills
          PROVE  Quiet
      <3>1. UNCHANGED <<pc, verdict, seen, causes, faults, wrote, text, pipe,
                        reader>>
        BY <2>2 DEF SweepEnter, SweepReturns, SweepKills
      <3>2. \/ UNCHANGED <<group, code, holds>>
            \/ Killed
        BY <2>2 DEF SweepEnter, SweepReturns, SweepKills
      <3>3. SomeOver => SomeOver'
        BY <3>1 DEF SomeOver
      <3>. QED BY <3>1, <3>2, <3>3 DEF Quiet, Killed
    <2>. QED BY <1>0, <1>3, <2>1, <2>2, QuietVerdict DEF Termination
  <1>4. CASE Stop \/ (StopCancels /\ pc = "ended")
    <2>1. Quiet
      BY <1>4 DEF Quiet, SomeOver, Stop, StopCancels
    <2>. QED BY <1>0, <2>1, QuietVerdict
  <1>5. ASSUME pc # "ended", pc' # "ended", verdict' = verdict
        PROVE  VerdictInv'
    BY <1>0, <1>5 DEF VerdictInv, AnswerWhole
  <1>6. CASE \/ Spawned \/ Confirm \/ ReturncodeSeen \/ PollReaps
             \/ PollGuesses \/ Drained \/ DrainTimeout \/ DrainSwept
             \/ ReadFailed \/ FailTerminated
    <2>1. pc # "ended" /\ pc' # "ended" /\ verdict' = verdict
      BY <1>6 DEF Spawned, Confirm, ReturncodeSeen, PollReaps, PollGuesses,
        Drain, Drained, DrainTimeout, DrainSwept, ReadFailed, FailTerminated
    <2>. QED BY <1>5, <2>1
  <1>7. CASE SpawnFails
    <2>1. /\ pc' = "ended" /\ verdict' \in {"retry", "failed"}
          /\ group' = {} /\ code' = "none"
      BY <1>0, <1>7 DEF SpawnInv, SpawnFails, Ends
    <2>. QED BY <2>1 DEF VerdictInv, AnswerWhole, Ran
  <1>8. CASE ConfirmFails \/ RecordFails
    <2>1. faults \in Nat
      BY <1>a
    <2>2. pc' = "ended" /\ verdict' = "failed" /\ faults' = faults + 1
      BY <1>8 DEF ConfirmFails, RecordFails, Ends
    <2>. QED BY <2>1, <2>2 DEF VerdictInv, AnswerWhole
  <1>9. CASE FailSwept
    <2>1. pc' = "ended" /\ verdict' = "unknown" /\ reader' = reader
      BY <1>9 DEF FailSwept, Ends
    <2>2. SomeOver'
      BY <1>0, <1>9, <2>1 DEF TermInv, FailSwept, SomeOver
    <2>. QED BY <2>1, <2>2 DEF VerdictInv, AnswerWhole
  <1>10. CASE Judged
    <2>1. /\ pc = "collect" /\ AllEof /\ pc' = "ended" /\ verdict' \in Judge
          /\ UNCHANGED <<group, code, holds, wrote, text, pipe, seen>>
      BY <1>10 DEF Judged, Collected, Ends
    <2>2. code # "none" /\ seen # "none" /\ "main" \notin group
      BY <1>0, <2>1 DEF ExitInv
    <2>3. ASSUME NEW s \in Streams
          PROVE  holds[s] = {} /\ pipe[s] = 0 /\ wrote[s] <= MaxOutput
      <3>1. Counted(s) /\ reader[s] = "eof" /\ wrote[s] \in Nat
        BY <1>0, <2>1, Numbers DEF ReadInv, AllEof
      <3>. QED BY <3>1 DEF Counted
    <2>4. CASE seen = "fail"
      <3>1. verdict' = "unknown" /\ code' = "fail"
        BY <1>0, <2>1, <2>4 DEF Judge, ExitInv
      <3>. QED BY <2>1, <3>1 DEF VerdictInv, AnswerWhole
    <2>5. CASE seen # "fail"
      <3>1. code' = "zero" \/ Guessed'
        BY <1>0, <2>1, <2>2, <2>5 DEF TypeOK, ExitInv, Guessed, Codes
      <3>2. \/ text /\ verdict' \in {"done", "invalid"}
            \/ ~text /\ verdict' = "failed"
        BY <2>1, <2>5 DEF Judge
      <3>3. \A s \in Streams : holds'[s] = {}
        BY <2>1, <2>3
      <3>4. AnswerWhole'
        BY <2>1, <2>2, <2>3, <3>2 DEF AnswerWhole, Streams
      <3>. QED BY <2>1, <3>1, <3>2, <3>3, <3>4 DEF VerdictInv
    <2>. QED BY <2>4, <2>5
  <1>11. CASE CutTerminated
    <2>1. /\ pc' = "ended" /\ verdict' = CutVerdict(causes)
          /\ causes' = causes
      BY <1>11 DEF CutTerminated, Ends
    <2>2. causes # {}
      BY <1>0, <1>11 DEF TermInv, CutTerminated
    <2>3. verdict' = "unknown" => "timeout" \in causes
      BY <1>0, <2>1, <2>2 DEF TypeOK, CutVerdict, Causes
    <2>. QED BY <2>1, <2>3 DEF VerdictInv, AnswerWhole, CutVerdict
  <1>12. ASSUME NEW c \in Causes, Interrupted(c)
         PROVE  VerdictInv'
    <2>1. CASE pc \in {"spawn", "cut"}
      <3>1. /\ pc' = "ended" /\ verdict' = CutVerdict(causes')
            /\ causes' = causes \cup {c}
        BY <1>12, <2>1 DEF Interrupted, Cut, Ends, Awaiting
      <3>2. verdict' = "unknown" => "timeout" \in causes'
        BY <1>0, <3>1 DEF TypeOK, CutVerdict, Causes
      <3>. QED BY <3>1, <3>2 DEF VerdictInv, AnswerWhole, CutVerdict
    <2>2. CASE pc \notin {"spawn", "cut"}
      <3>1. pc # "ended" /\ pc' # "ended" /\ verdict' = verdict
        BY <1>12, <2>2 DEF Interrupted, Cut, Awaiting
      <3>. QED BY <1>5, <3>1
    <2>. QED BY <2>1, <2>2
  <1>. QED BY <1>1, <1>2, <1>3, <1>4, <1>6, <1>7, <1>8, <1>9, <1>10, <1>11,
              <1>12
         DEF Next, Attempt, Cancel, Timeout, StopCancels, Causes

(* Whoever lets go, inherits or dies: the pipes are held by processes.      *)
LEMMA HoldsType ==
  ASSUME TypeOK, Next
  PROVE  holds' \in [Streams -> SUBSET Processes] /\ text' \in BOOLEAN
  <1>0. holds \in [Streams -> SUBSET Processes] /\ text \in BOOLEAN
    BY DEF TypeOK
  <1>1. CASE Group
    <2>1. ASSUME NEW p \in Processes, NEW s \in Streams, ProcessWrites(p, s)
          PROVE  holds' = holds /\ text' \in BOOLEAN
      BY <1>0, <2>1 DEF ProcessWrites
    <2>2. ASSUME NEW p \in Processes, NEW s \in Streams, LetsGo(p, s)
          PROVE  holds' \in [Streams -> SUBSET Processes] /\ text' = text
      <3>1. holds' = [holds EXCEPT ![s] = holds[s] \ {p}] /\ text' = text
        BY <2>2 DEF LetsGo
      <3>. QED BY <1>0, <3>1
    <2>3. CASE MainForks
      BY <1>0, <2>3 DEF MainForks
    <2>4. ASSUME NEW c \in {"zero", "fail"}, MainExits(c)
          PROVE  holds' \in [Streams -> SUBSET Processes] /\ text' = text
      BY <1>0, <2>4 DEF MainExits, Leaves
    <2>5. CASE HelperExits
      BY <1>0, <2>5 DEF HelperExits, Leaves
    <2>. QED BY <1>0, <1>1, <2>1, <2>2, <2>3, <2>4, <2>5 DEF Group
  <1>2. CASE Loop
    BY <1>0, <1>2 DEF Loop, WatcherReaps, WatcherTells, ReaderReads, ReaderEnds
  <1>3. CASE Termination
    <2>1. holds' \in {holds, [s \in Streams |-> {}]} /\ text' = text
      BY <1>3 DEF Termination, TermEnter, TermWaited, TermKill, SweepEnter,
        SweepReturns, SweepKills, Killed
    <2>. QED BY <1>0, <2>1
  <1>4. CASE Spawned
    <2>1. holds' = [s \in Streams |-> {"main"}] /\ text' = text
      BY <1>4 DEF Spawned
    <2>. QED BY <1>0, <2>1 DEF Processes
  <1>5. CASE \/ SpawnFails \/ Confirm \/ ConfirmFails
             \/ ReturncodeSeen \/ PollReaps \/ PollGuesses
             \/ Drained \/ DrainTimeout \/ DrainSwept
             \/ ReadFailed \/ FailTerminated \/ FailSwept
             \/ Judged \/ RecordFails \/ CutTerminated
    <2>1. holds' = holds /\ text' = text
      BY <1>5 DEF SpawnFails, Confirm, ConfirmFails, ReturncodeSeen, PollReaps,
        PollGuesses, Drain, Drained, DrainTimeout, DrainSwept, ReadFailed,
        FailTerminated, FailSwept, Judged, RecordFails, CutTerminated
    <2>. QED BY <1>0, <2>1
  <1>6. CASE Cancel \/ Timeout \/ Stop \/ StopCancels
    <2>1. holds' = holds /\ text' = text
      BY <1>6 DEF Cancel, Timeout, Stop, StopCancels, Interrupted
    <2>. QED BY <1>0, <2>1
  <1>. QED BY <1>1, <1>2, <1>3, <1>4, <1>5, <1>6 DEF Next, Attempt

(* The types, by who sets the variables.                                    *)
HolderTypes == holds \in [Streams -> SUBSET Processes] /\ text \in BOOLEAN

ChildTypes ==
  /\ group \subseteq Processes /\ code \in Codes /\ rc \in Codes
  /\ reaper \in {"none", "watcher", "poll"}

PipeTypes ==
  /\ wrote \in [Streams -> 0..MaxWrites] /\ pipe \in [Streams -> 0..1]
  /\ reader \in [Streams -> {"off", "reading", "eof", "over", "cut"}]

RunTypes ==
  /\ pc \in {"spawn", "confirm", "wait", "drain", "collect", "fail",
             "fail sweep", "cut", "ended"}
  /\ seen \in Codes \cup {"guess"}
  /\ stage \in [{"run", "stop"} ->
                {"off", "enter", "term", "kill", "sweep", "swept", "over"}]

EndTypes ==
  /\ active \in BOOLEAN /\ stopping \in {"no", "term", "cancel"}
  /\ causes \subseteq Causes /\ hits \in 0..(MaxInterrupts + 2)
  /\ faults \in 0..MaxFaults
  /\ verdict \in {"none", "done", "invalid", "failed", "retry", "unknown",
                  "cancelled", "interrupted"}

AllTypes == HolderTypes /\ ChildTypes /\ PipeTypes /\ RunTypes /\ EndTypes

LEMMA TypesSplit == TypeOK <=> AllTypes
  <1>1. TypeOK => AllTypes
    BY DEF TypeOK, AllTypes, HolderTypes, ChildTypes, PipeTypes, RunTypes,
           EndTypes
  <1>2. AllTypes => TypeOK
    BY DEF TypeOK, AllTypes, HolderTypes, ChildTypes, PipeTypes, RunTypes,
           EndTypes
  <1>. QED BY <1>1, <1>2

\* What does not change keeps its type.
LEMMA TypesKept ==
  ASSUME AllTypes
  PROVE  /\ UNCHANGED <<holds, text>> => HolderTypes'
         /\ UNCHANGED <<group, code, rc, reaper>> => ChildTypes'
         /\ UNCHANGED <<wrote, pipe, reader>> => PipeTypes'
         /\ UNCHANGED <<pc, seen, stage>> => RunTypes'
         /\ UNCHANGED ends => EndTypes'
  <1>1. UNCHANGED <<holds, text>> => HolderTypes'
    BY DEF AllTypes, HolderTypes
  <1>2. UNCHANGED <<group, code, rc, reaper>> => ChildTypes'
    BY DEF AllTypes, ChildTypes
  <1>3. UNCHANGED <<wrote, pipe, reader>> => PipeTypes'
    BY DEF AllTypes, PipeTypes
  <1>4. UNCHANGED <<pc, seen, stage>> => RunTypes'
    BY DEF AllTypes, RunTypes
  <1>5. UNCHANGED ends => EndTypes'
    BY DEF AllTypes, EndTypes
  <1>. QED BY <1>1, <1>2, <1>3, <1>4, <1>5

(* The child, its helper and their pipes keep their types.                  *)
LEMMA GroupTypes ==
  ASSUME TypeOK, Group
  PROVE  ChildTypes' /\ PipeTypes' /\ RunTypes' /\ EndTypes'
  <1>0. AllTypes
    BY TypesSplit
  <1>1. RunTypes' /\ EndTypes'
    <2>1. UNCHANGED <<pc, seen, stage>> /\ UNCHANGED ends
      BY DEF Group, ProcessWrites, LetsGo, MainForks, MainExits, HelperExits
    <2>. QED BY <1>0, <2>1, TypesKept
  <1>2. ASSUME NEW p \in Processes, NEW s \in Streams, ProcessWrites(p, s)
        PROVE  ChildTypes' /\ PipeTypes'
    <2>1. /\ wrote[s] \in Nat /\ wrote[s] < MaxWrites
          /\ wrote' = [wrote EXCEPT ![s] = wrote[s] + 1]
          /\ pipe' = [pipe EXCEPT ![s] = 1]
          /\ UNCHANGED <<group, code, rc, reaper>> /\ reader' = reader
      BY <1>2, Numbers DEF ProcessWrites
    <2>2. PipeTypes
      BY <1>0 DEF AllTypes
    <2>3. wrote[s] + 1 \in 0..MaxWrites
      BY <2>1, CliAssumption
    <2>4. wrote' \in [Streams -> 0..MaxWrites] /\ pipe' \in [Streams -> 0..1]
      BY <2>1, <2>2, <2>3 DEF PipeTypes
    <2>5. PipeTypes'
      BY <2>1, <2>2, <2>4 DEF PipeTypes
    <2>. QED BY <1>0, <2>1, <2>5, TypesKept
  <1>3. CASE ~\E p \in Processes, s \in Streams : ProcessWrites(p, s)
    <2>1. UNCHANGED <<wrote, pipe, reader>>
      BY <1>3 DEF Group, LetsGo, MainForks, MainExits, HelperExits, output
    <2>2. /\ group' \in {group, Processes, group \ {"main"}, group \ {"helper"}}
          /\ code' \in {code, "zero", "fail"} /\ UNCHANGED <<rc, reaper>>
      BY <1>3 DEF Group, LetsGo, MainForks, MainExits, HelperExits, Leaves
    <2>3. ChildTypes'
      BY <1>0, <2>2 DEF AllTypes, ChildTypes, Codes
    <2>. QED BY <1>0, <1>1, <2>1, <2>3, TypesKept
  <1>4. CASE \E p \in Processes, s \in Streams : ProcessWrites(p, s)
    <2>1. PICK p \in Processes, s \in Streams : ProcessWrites(p, s)
      BY <1>4
    <2>. QED BY <1>1, <1>2, <2>1
  <1>. QED BY <1>3, <1>4

(* So they do while the loop reads, reaps and terminates.                   *)
LEMMA LoopTypes ==
  ASSUME TypeOK, Loop \/ Termination
  PROVE  ChildTypes' /\ PipeTypes' /\ RunTypes' /\ EndTypes'
  <1>0. AllTypes
    BY TypesSplit
  <1>1. CASE Loop
    <2>1. RunTypes' /\ EndTypes'
      <3>1. UNCHANGED <<pc, seen, stage>> /\ UNCHANGED ends
        BY <1>1 DEF Loop, WatcherReaps, WatcherTells, ReaderReads, ReaderEnds
      <3>. QED BY <1>0, <3>1, TypesKept
    <2>2. CASE WatcherReaps \/ WatcherTells
      <3>1. /\ UNCHANGED <<group, code, wrote, pipe, reader>>
            /\ rc' \in {rc, code, "fail"} /\ reaper' \in {reaper, "watcher"}
        BY <2>2 DEF WatcherReaps, WatcherTells, processes, output
      <3>2. ChildTypes'
        BY <1>0, <3>1 DEF AllTypes, ChildTypes, Codes
      <3>. QED BY <1>0, <2>1, <3>1, <3>2, TypesKept
    <2>3. ASSUME NEW s \in Streams, ReaderReads(s) \/ ReaderEnds(s)
          PROVE  ChildTypes' /\ PipeTypes'
      <3>1. PICK r \in {"over", "reading", "eof"} :
              /\ reader' = [reader EXCEPT ![s] = r]
              /\ pipe' \in {pipe, [pipe EXCEPT ![s] = 0]} /\ UNCHANGED child
        BY <2>3 DEF ReaderReads, ReaderEnds, Read
      <3>2. UNCHANGED <<group, code, rc, reaper, wrote>>
        BY <3>1 DEF child, processes, output
      <3>3. PipeTypes
        BY <1>0 DEF AllTypes
      <3>4. PipeTypes'
        BY <3>1, <3>2, <3>3 DEF PipeTypes
      <3>. QED BY <1>0, <3>2, <3>4, TypesKept
    <2>. QED BY <1>1, <2>1, <2>2, <2>3 DEF Loop
  <1>2. CASE Termination
    <2>1. PICK a \in {"run", "stop"}, x \in {"term", "kill", "swept", "over"} :
            stage' = [stage EXCEPT ![a] = x]
      BY <1>2 DEF Termination, TermEnter, TermWaited, TermKill, SweepEnter,
                  SweepReturns, SweepKills
    <2>2. /\ UNCHANGED <<pc, seen, rc, reaper, wrote, pipe, reader>>
          /\ UNCHANGED ends
          /\ group' \in {group, {}} /\ code' \in {code, "fail"}
      BY <1>2 DEF Termination, TermEnter, TermWaited, TermKill, SweepEnter,
                  SweepReturns, SweepKills, Killed, child, processes, output
    <2>3. RunTypes'
      BY <1>0, <2>1, <2>2 DEF AllTypes, RunTypes
    <2>4. ChildTypes'
      BY <1>0, <2>2 DEF AllTypes, ChildTypes, Codes
    <2>. QED BY <1>0, <2>2, <2>3, <2>4, TypesKept
  <1>. QED BY <1>1, <1>2

(* And in each step of the coroutine itself.                                *)
LEMMA AttemptTypes ==
  ASSUME TypeOK, SpawnInv, Attempt
  PROVE  ChildTypes' /\ PipeTypes' /\ RunTypes' /\ EndTypes'
  <1>0. AllTypes
    BY TypesSplit
  <1>1. CASE SpawnFails \/ Spawned \/ Confirm \/ ConfirmFails
    <2>1. /\ UNCHANGED <<code, rc, reaper, wrote, pipe, seen, stage>>
          /\ group' \in {group, {"main"}} /\ pc' \in {"ended", "confirm", "wait"}
          /\ reader' \in {reader, [s \in Streams |-> "reading"]}
      BY <1>1 DEF SpawnFails, Spawned, Confirm, ConfirmFails, BothReaders, Ends,
                  child, processes, output
    <2>2. /\ UNCHANGED <<stopping, causes, hits>> /\ active' \in {active, TRUE}
          /\ verdict' \in {verdict, "retry", "failed"}
          /\ \/ faults' = faults
             \/ faults < MaxFaults /\ faults' = faults + 1
      BY <1>1 DEF SpawnFails, Spawned, Confirm, ConfirmFails, Ends, ends
    <2>3. ChildTypes' /\ RunTypes'
      BY <1>0, <2>1 DEF AllTypes, ChildTypes, RunTypes, Processes
    <2>4. PipeTypes'
      BY <1>0, <2>1 DEF AllTypes, PipeTypes
    <2>5. faults' \in 0..MaxFaults
      BY <1>0, <2>2, CliAssumption DEF AllTypes, EndTypes
    <2>6. EndTypes'
      BY <1>0, <2>2, <2>5 DEF AllTypes, EndTypes
    <2>. QED BY <2>3, <2>4, <2>6
  <1>2. CASE ReturncodeSeen \/ PollReaps \/ PollGuesses
    <2>1. /\ UNCHANGED <<group, code, rc, wrote, pipe, reader, stage>>
          /\ UNCHANGED ends /\ reaper' \in {reaper, "poll"}
          /\ seen' \in {rc, code, "guess"} /\ pc' \in {"collect", "drain"}
      BY <1>2 DEF ReturncodeSeen, PollReaps, PollGuesses, Drain, processes,
                  output
    <2>2. ChildTypes' /\ RunTypes'
      BY <1>0, <2>1 DEF AllTypes, ChildTypes, RunTypes
    <2>. QED BY <1>0, <2>1, <2>2, TypesKept
  <1>3. CASE \/ Drained \/ DrainTimeout \/ DrainSwept
             \/ ReadFailed \/ FailTerminated \/ FailSwept
             \/ Judged \/ RecordFails \/ CutTerminated
    <2>1. UNCHANGED child /\ UNCHANGED <<pipe, reader, seen>>
      BY <1>3 DEF Drained, DrainTimeout, DrainSwept, ReadFailed, FailTerminated,
                  FailSwept, Judged, RecordFails, CutTerminated
    <2>2. ChildTypes' /\ PipeTypes'
      <3>1. UNCHANGED <<group, code, rc, reaper, wrote>>
        BY <2>1 DEF child, processes, output
      <3>. QED BY <1>0, <2>1, <3>1, TypesKept
    <2>3. /\ pc' \in {pc, "collect", "fail", "fail sweep", "ended"}
          /\ \/ stage' = stage
             \/ \E x \in {"off", "enter", "sweep"} :
                  stage' = [stage EXCEPT !["run"] = x]
      BY <1>3 DEF Drained, DrainTimeout, DrainSwept, ReadFailed, FailTerminated,
                  FailSwept, Judged, RecordFails, CutTerminated, Ends
    <2>4. RunTypes'
      BY <1>0, <2>1, <2>3 DEF AllTypes, RunTypes
    <2>5. /\ UNCHANGED <<stopping, causes, hits>> /\ active' \in {active, FALSE}
          /\ verdict' \in {verdict, "done", "invalid", "failed", "unknown",
                           "cancelled", "interrupted"}
          /\ \/ faults' = faults
             \/ faults < MaxFaults /\ faults' = faults + 1
      BY <1>3 DEF Drained, DrainTimeout, DrainSwept, ReadFailed, FailTerminated,
                  FailSwept, Judged, Judge, RecordFails, CutTerminated,
                  CutVerdict, Ends, ends
    <2>6. faults' \in 0..MaxFaults
      BY <1>0, <2>5, CliAssumption DEF AllTypes, EndTypes
    <2>7. EndTypes'
      BY <1>0, <2>5, <2>6 DEF AllTypes, EndTypes
    <2>. QED BY <2>2, <2>4, <2>7
  <1>. QED BY <1>1, <1>2, <1>3 DEF Attempt

(* An interruption.  That hits stays within its range needs StopInv after   *)
(* the step.                                                                *)
LEMMA InterruptTypes ==
  ASSUME TypeOK, StopInv', NEW c \in Causes, Interrupted(c),
         stopping' \in {"no", "term", "cancel"}
  PROVE  ChildTypes' /\ PipeTypes' /\ RunTypes' /\ EndTypes'
  <1>0. AllTypes
    BY TypesSplit
  <1>1. hits' \in 0..(MaxInterrupts + 2)
    <2>1. hits' \in Nat
      <3>1. hits' = hits + 1
        BY DEF Interrupted
      <3>. QED BY <3>1, Numbers
    <2>2. hits' <= MaxInterrupts + (IF "timeout" \in causes' THEN 1 ELSE 0)
                                 + (IF "stop" \in causes' THEN 1 ELSE 0)
      BY DEF StopInv, Extra
    <2>. QED BY <2>1, <2>2, CliAssumption
  <1>2. /\ UNCHANGED child /\ UNCHANGED <<pipe, seen, faults>>
        /\ causes' = causes \cup {c}
    BY DEF Interrupted
  <1>3. ChildTypes'
    <2>1. UNCHANGED <<group, code, rc, reaper>>
      BY <1>2 DEF child, processes
    <2>. QED BY <1>0, <2>1, TypesKept
  <1>4. PipeTypes'
    <2>1. \/ reader' = reader
          \/ reader' = [s \in Streams |-> IF reader[s] = "reading"
                                          THEN "cut" ELSE reader[s]]
      BY DEF Interrupted
    <2>2. wrote' = wrote
      BY <1>2 DEF child, processes, output
    <2>3. PipeTypes
      BY <1>0 DEF AllTypes
    <2>4. reader' \in [Streams -> {"off", "reading", "eof", "over", "cut"}]
      BY <2>1, <2>3 DEF PipeTypes
    <2>. QED BY <1>2, <2>2, <2>3, <2>4 DEF PipeTypes
  <1>5. /\ pc' \in {"cut", "ended"}
        /\ stage' \in {stage, [stage EXCEPT !["run"] = "enter"]}
        /\ active' \in {active, active /\ pc # "cut"}
        /\ verdict' \in {verdict, "cancelled", "interrupted", "unknown"}
    BY DEF Interrupted, Cut, Ends, CutVerdict
  <1>6. RunTypes'
    BY <1>0, <1>2, <1>5 DEF AllTypes, RunTypes
  <1>7. EndTypes'
    <2>1. active' \in BOOLEAN
      BY <1>0, <1>5 DEF AllTypes, EndTypes
    <2>. QED BY <1>0, <1>1, <1>2, <1>5, <2>1 DEF AllTypes, EndTypes
  <1>. QED BY <1>3, <1>4, <1>6, <1>7

LEMMA TypeStep ==
  ASSUME CliInv, Next, StopInv'
  PROVE  TypeOK'
  <1>0. TypeOK /\ SpawnInv /\ AllTypes
    BY TypesSplit DEF CliInv
  <1>1. HolderTypes'
    BY <1>0, HoldsType DEF HolderTypes
  <1>2. SUFFICES ChildTypes' /\ PipeTypes' /\ RunTypes' /\ EndTypes'
    <2>1. AllTypes'
      BY <1>1, <1>2 DEF AllTypes
    <2>. QED BY <2>1, TypesSplit, PTL
  <1>3. CASE Group
    BY <1>0, <1>3, GroupTypes
  <1>4. CASE Loop \/ Termination
    BY <1>0, <1>4, LoopTypes
  <1>5. CASE Attempt
    BY <1>0, <1>5, AttemptTypes
  <1>6. CASE Cancel \/ Timeout
    <2>1. PICK c \in Causes : Interrupted(c)
      BY <1>6 DEF Cancel, Timeout, Causes
    <2>2. stopping' \in {"no", "term", "cancel"}
      BY <1>0, <1>6 DEF Cancel, Timeout, AllTypes, EndTypes
    <2>. QED BY <1>0, <2>1, <2>2, InterruptTypes
  <1>7. CASE Stop
    <2>1. /\ UNCHANGED child
          /\ UNCHANGED <<pipe, reader, pc, seen, active, causes, hits, verdict,
                         faults>>
          /\ stage' = [stage EXCEPT !["stop"] = "enter"] /\ stopping' = "term"
      BY <1>7 DEF Stop
    <2>2. UNCHANGED <<group, code, rc, reaper, wrote>>
      BY <2>1 DEF child, processes, output
    <2>3. RunTypes' /\ EndTypes'
      BY <1>0, <2>1 DEF AllTypes, RunTypes, EndTypes
    <2>. QED BY <1>0, <2>1, <2>2, <2>3, TypesKept
  <1>8. CASE StopCancels
    <2>1. stopping' = "cancel"
      BY <1>8 DEF StopCancels
    <2>2. CASE pc = "ended"
      <3>1. /\ UNCHANGED child
            /\ UNCHANGED <<pipe, reader, pc, seen, stage, active, causes, hits,
                           verdict, faults>>
        BY <1>8, <2>2 DEF StopCancels
      <3>2. UNCHANGED <<group, code, rc, reaper, wrote>>
        BY <3>1 DEF child, processes, output
      <3>3. EndTypes'
        BY <1>0, <2>1, <3>1 DEF AllTypes, EndTypes
      <3>. QED BY <1>0, <3>1, <3>2, <3>3, TypesKept
    <2>3. CASE pc # "ended"
      <3>1. Interrupted("stop") /\ "stop" \in Causes
        BY <1>8, <2>3 DEF StopCancels, Causes
      <3>. QED BY <1>0, <2>1, <3>1, InterruptTypes
    <2>. QED BY <2>2, <2>3
  <1>. QED BY <1>3, <1>4, <1>5, <1>6, <1>7, <1>8 DEF Next

-----------------------------------------------------------------------------
\* Initially no process exists and nothing has been judged.
LEMMA InitInv ==
  ASSUME Init
  PROVE  CliInv
  <1>1. TypeOK
    <2>1. /\ 0 \in 0..MaxWrites /\ 0 \in 0..(MaxInterrupts + 2)
          /\ 0 \in 0..MaxFaults /\ 0 \in 0..1
      BY CliAssumption
    <2>2. /\ wrote \in [Streams -> 0..MaxWrites] /\ pipe \in [Streams -> 0..1]
          /\ reader \in [Streams -> {"off", "reading", "eof", "over", "cut"}]
      BY <2>1 DEF Init
    <2>. QED BY <2>1, <2>2 DEF Init, TypeOK, Codes
  <1>2. ExitInv /\ SpawnInv
    BY DEF Init, ExitInv, SpawnInv
  <1>3. ReadInv
    BY DEF Init, ReadInv, Counted, Serving
  <1>4. TermInv /\ StopInv
    BY DEF Init, TermInv, StopInv, Extra
  <1>5. VerdictInv
    BY DEF Init, VerdictInv, AnswerWhole
  <1>. QED BY <1>1, <1>2, <1>3, <1>4, <1>5 DEF CliInv

\* Every step keeps the invariant.
LEMMA StepInv ==
  ASSUME CliInv, [Next]_vars
  PROVE  CliInv'
  <1>1. CASE Next
    BY <1>1, ExitStep, SpawnStep, ReadStep, TermStep, VerdictStep, StopStep,
       TypeStep DEF CliInv
  <1>2. CASE UNCHANGED vars
    <2>1. TypeOK'
      <3>1. AllTypes
        BY TypesSplit DEF CliInv
      <3>2. /\ UNCHANGED <<group, code, rc, reaper, pipe, reader, pc, seen, stage>>
            /\ UNCHANGED <<holds, wrote, text>> /\ UNCHANGED ends
        BY <1>2
      <3>3. AllTypes'
        BY <3>1, <3>2, TypesKept DEF AllTypes
      <3>. QED BY <3>3, TypesSplit, PTL
    <2>2. ExitInv' /\ SpawnInv' /\ TermInv'
      BY <1>2 DEF CliInv, ExitInv, SpawnInv, TermInv, SomeOver
    <2>3. ReadInv'
      BY <1>2 DEF CliInv, ReadInv, Counted
    <2>4. StopInv'
      BY <1>2 DEF CliInv, StopInv, Extra
    <2>5. VerdictInv'
      <3>1. VerdictInv /\ ExitInv
        BY DEF CliInv
      <3>2. /\ UNCHANGED <<pc, verdict, seen, causes, faults, group, code, wrote,
                           text, pipe, reader>>
            /\ holds' = holds
        BY <1>2
      <3>3. SomeOver => SomeOver'
        BY <3>2 DEF SomeOver
      <3>4. Quiet
        BY <3>2, <3>3 DEF Quiet
      <3>. QED BY <3>1, <3>4, QuietVerdict
    <2>. QED BY <2>1, <2>2, <2>3, <2>4, <2>5 DEF CliInv
  <1>. QED BY <1>1, <1>2

\* The invariant holds of every attempt.
LEMMA InvHolds == Spec => []CliInv
  <1>. USE CliAssumption
  <1>. QED BY InitInv, StepInv, PTL DEF Spec

-----------------------------------------------------------------------------
(* An answer is everything the group ever wrote to stdout, not blank, and   *)
(* nobody who may still live holds a pipe to add to it, whatever the sizes  *)
(* of pipes and limits (_communicate_limited, _execute).                    *)
THEOREM AnswersAreWhole == Spec => []AnswerWhole
  <1>1. CliInv => AnswerWhole
    BY DEF CliInv, VerdictInv
  <1>. QED BY <1>1, InvHolds, PTL

(* A child that ran with the prompt is not run again; the attempt is done,  *)
(* invalid or failed only after a good exit or one that was guessed to be   *)
(* good, and unknown only for a reason (_execute, run_task).                *)
THEOREM UnsureStaysUnknown == Spec => []UnsureIsUnknown
  <1>1. CliInv => UnsureIsUnknown
    BY DEF CliInv, VerdictInv, UnsureIsUnknown, Ran
  <1>. QED BY <1>1, InvHolds, PTL

(* While the attempt waits for its child, each full pipe has a reader, or   *)
(* its stream is over the limit (_communicate_limited).                     *)
THEOREM PipesAreServed == Spec => []PipeServed
  <1>1. CliInv => PipeServed
    <2>. SUFFICES ASSUME CliInv, pc \in {"wait", "drain"},
                         NEW s \in Streams, pipe[s] = 1
                  PROVE  reader[s] \in {"reading", "over"}
      BY DEF PipeServed
    <2>1. reader[s] \in {"off", "reading", "eof", "over", "cut"}
      BY DEF CliInv, TypeOK
    <2>2. reader[s] \notin {"off", "cut", "eof"}
      <3>1. Counted(s)
        BY DEF CliInv, ReadInv
      <3>2. reader[s] # "eof"
        BY <3>1 DEF Counted
      <3>3. reader[s] \notin {"off", "cut"}
        BY <3>1 DEF Counted, Serving
      <3>. QED BY <3>2, <3>3
    <2>. QED BY <2>1, <2>2
  <1>. QED BY <1>1, InvHolds, PTL

(* Neither the end of an attempt nor stop() leaves a main process behind,   *)
(* unless the store failed or a second interruption struck (the handlers of *)
(* _execute and _communicate_limited, stop).                                *)
THEOREM NoMainIsLeft == Spec => []NoStrayMain
  <1>1. CliInv => MainGone
    <2>. SUFFICES ASSUME CliInv, pc = "ended", faults = 0, hits <= 1
                  PROVE  "main" \notin group
      BY DEF MainGone
    <2>. QED BY Numbers DEF CliInv, StopInv
  <1>2. CliInv => StopEndsMain
    <2>. SUFFICES ASSUME CliInv, stopping = "cancel", pc = "ended",
                         hits <= 1 \/ "stop" \in causes
                  PROVE  "main" \notin group
      BY DEF StopEndsMain
    <2>. QED BY Numbers DEF CliInv, StopInv
  <1>3. CliInv => NoStrayMain
    BY <1>1, <1>2 DEF CliInv, NoStrayMain
  <1>. QED BY <1>3, InvHolds, PTL
=============================================================================
