------------------------------- MODULE AcpCli -------------------------------
(***************************************************************************)
(* One attempt of an AcpWorker: a child process in a group of its own, a   *)
(* helper it may fork into the group, two pipes that each of them may hold *)
(* or let go of, two reader tasks, and the coroutine that waits for the    *)
(* exit, drains the pipes, cleans the group up and judges.  A cancel, the  *)
(* end-to-end timeout and the stop of the worker may strike at every await.*)
(*                                                                         *)
(* Output is counted in units as large as a pipe and the buffer of its     *)
(* StreamReader together, so that one unread unit pauses the transport.    *)
(***************************************************************************)
EXTENDS Naturals

CONSTANTS
  MaxWrites,        \* bound: units the group writes to a pipe
  MaxOutput,        \* output_max_chars, in units
  MaxInterrupts,    \* bound: no more cancels by clients after this many
                    \* CancelledErrors
  MaxFaults,        \* bound: store writes of the attempt that raise
  WaitNeedsPipes    \* Process.wait() also waits for the pipes to close, as
                    \* it does in Python 3.11

Streams == {"stdout", "stderr"}
Processes == {"main", "helper"}
Causes == {"cancel", "stop", "timeout"}

ASSUME CliAssumption ==
  /\ MaxWrites \in Nat \ {0} /\ MaxOutput \in Nat \ {0}
  /\ MaxInterrupts \in Nat /\ MaxFaults \in Nat
  /\ WaitNeedsPipes \in BOOLEAN

VARIABLES
  group,     \* living processes of the group
  code,      \* how the main process exited, "none" while it has not
  rc,        \* Process.returncode
  reaper,    \* who has reaped it: the child watcher or the poll
  holds,     \* holds[s]: who has the write end of s open
  wrote,     \* units the group has written to a pipe
  text,      \* not all of stdout is white space
  pipe,      \* units written and not yet read
  reader,    \* the two read_limited tasks
  pc,        \* await of the run_task coroutine
  seen,      \* the exit code _wait_process_exit returned, "guess" for the
             \* 0 it returns when it cannot know
  stage,     \* progress of _terminate_process, _terminate_process_group
  active,    \* _active_process is set
  stopping,  \* progress of stop()
  causes,    \* why CancelledError was thrown into the coroutine, and how
  hits,      \* often
  verdict,   \* what became of the attempt
  faults     \* store writes that raised so far

output == <<wrote, text>>
processes == <<group, code, holds, output>>
child == <<processes, rc, reaper>>
ends == <<active, stopping, causes, hits, verdict, faults>>
vars == <<child, pipe, reader, pc, seen, stage, ends>>

Got(s) == wrote[s] - pipe[s]

-----------------------------------------------------------------------------
(* The child and its helper.                                               *)

\* A full pipe blocks the writer.
ProcessWrites(p, s) ==
  /\ p \in holds[s] /\ pipe[s] = 0 /\ wrote[s] < MaxWrites
  /\ wrote' = [wrote EXCEPT ![s] = @ + 1]
  /\ IF s = "stdout" THEN text' \in {text, TRUE} ELSE UNCHANGED text
  /\ pipe' = [pipe EXCEPT ![s] = 1]
  /\ UNCHANGED <<group, code, holds, rc, reaper, reader, pc, seen,
                 stage, ends>>

\* A process closes the stream, or redirects it elsewhere, and lives on.
LetsGo(p, s) ==
  /\ p \in holds[s] /\ holds' = [holds EXCEPT ![s] = @ \ {p}]
  /\ UNCHANGED <<group, code, output, rc, reaper, pipe, reader, pc, seen,
                 stage, ends>>

\* The helper inherits what its parent holds.
MainForks ==
  /\ "main" \in group /\ "helper" \notin group /\ group' = Processes
  /\ holds' = [s \in Streams |-> IF "main" \in holds[s] THEN Processes
                                                        ELSE holds[s]]
  /\ UNCHANGED <<code, output, rc, reaper, pipe, reader, pc,
                 seen, stage, ends>>

\* By itself or by a SIGTERM, whatever it had still to write.
Leaves(p) ==
  /\ p \in group /\ group' = group \ {p}
  /\ holds' = [s \in Streams |-> holds[s] \ {p}]

MainExits(c) ==
  /\ Leaves("main") /\ code' = c
  /\ UNCHANGED <<output, rc, reaper, pipe, reader, pc, seen,
                 stage, ends>>

HelperExits ==
  /\ Leaves("helper")
  /\ UNCHANGED <<code, output, rc, reaper, pipe, reader, pc,
                 seen, stage, ends>>

\* asyncio's child watcher reaps the process, and tells the loop later.  If
\* the poll was first, it can only tell 255.
WatcherReaps ==
  /\ code # "none" /\ reaper = "none" /\ reaper' = "watcher"
  /\ UNCHANGED <<processes, rc, pipe, reader, pc, seen, stage, ends>>

WatcherTells ==
  /\ rc = "none" /\ reaper # "none"
  /\ rc' = IF reaper = "watcher" THEN code ELSE "fail"
  /\ UNCHANGED <<processes, reaper, pipe, reader, pc, seen, stage, ends>>

-----------------------------------------------------------------------------
(* read_limited.                                                           *)

\* Got counts what read() returned, the chunk that is too much included.
Read(s) == IF Got(s) + 1 > MaxOutput THEN "over" ELSE "reading"

ReaderReads(s) ==
  /\ reader[s] = "reading" /\ pipe[s] > 0
  /\ pipe' = [pipe EXCEPT ![s] = 0]
  /\ reader' = [reader EXCEPT ![s] = Read(s)]
  /\ UNCHANGED <<child, pc, seen, stage, ends>>

\* Nobody has the write end open any more; the processes may live.
ReaderEnds(s) ==
  /\ reader[s] = "reading" /\ pipe[s] = 0 /\ holds[s] = {}
  /\ reader' = [reader EXCEPT ![s] = "eof"]
  /\ UNCHANGED <<child, pipe, pc, seen, stage, ends>>

AllEof == \A s \in Streams : reader[s] = "eof"
SomeOver == \E s \in Streams : reader[s] = "over"
AllDone == \A s \in Streams : reader[s] # "reading"

-----------------------------------------------------------------------------
(* _terminate_process, by the coroutine or by stop(), and                  *)
(* _terminate_process_group.                                               *)

\* Process.wait() returns.  (A wait that begins after the exit is known
\* returns at once; TermEnter and TermKill skip it.)
Waited ==
  /\ rc # "none"
  /\ WaitNeedsPipes => \A s \in Streams : holds[s] = {} /\ pipe[s] = 0

Killed ==
  /\ group' = {} /\ holds' = [s \in Streams |-> {}]
  /\ code' = IF "main" \in group THEN "fail" ELSE code

\* SIGTERM, which a process may act on at any later time or ignore.
TermEnter(a) ==
  /\ stage[a] = "enter"
  /\ stage' = [stage EXCEPT ![a] = IF rc # "none" THEN "over" ELSE "term"]
  /\ UNCHANGED <<child, pipe, reader, pc, seen, ends>>

TermWaited(a) ==
  /\ stage[a] \in {"term", "kill"} /\ Waited
  /\ stage' = [stage EXCEPT ![a] = "over"]
  /\ UNCHANGED <<child, pipe, reader, pc, seen, ends>>

\* Mutant: no SIGKILL, another grace period instead.
TermPatient(a) == stage[a] = "term" /\ UNCHANGED vars

\* graceful_shutdown_seconds have passed.
TermKill(a) ==
  /\ stage[a] = "term" /\ Killed
  /\ stage' = [stage EXCEPT ![a] = IF rc # "none" THEN "over" ELSE "kill"]
  /\ UNCHANGED <<output, rc, reaper, pipe, reader, pc, seen, ends>>

SweepEnter ==
  /\ stage["run"] = "sweep"
  /\ stage' = [stage EXCEPT !["run"] = IF group = {} THEN "over" ELSE "swept"]
  /\ UNCHANGED <<child, pipe, reader, pc, seen, ends>>

\* _wait_process_group_empty returns: the group is empty, or its deadline
\* has passed.  It is the same as that of the wait_for around it; whichever
\* the loop sees first decides whether SIGKILL is sent.
SweepReturns ==
  /\ stage["run"] = "swept"
  /\ stage' = [stage EXCEPT !["run"] = "over"]
  /\ UNCHANGED <<child, pipe, reader, pc, seen, ends>>

SweepKills ==
  /\ stage["run"] = "swept" /\ Killed
  /\ stage' = [stage EXCEPT !["run"] = "over"]
  /\ UNCHANGED <<output, rc, reaper, pipe, reader, pc, seen, ends>>

-----------------------------------------------------------------------------
(* run_task and _execute.                                                  *)

\* The coroutine is left with verdict v.
Ends(v) == pc' = "ended" /\ verdict' = v

SpawnFails ==
  /\ pc = "spawn"
  /\ \E v \in {"retry", "failed"} : Ends(v)     \* OSError, FileNotFoundError
  /\ UNCHANGED <<child, pipe, reader, seen, stage, active, stopping, causes,
                 hits, faults>>

Spawned ==
  /\ pc = "spawn"
  /\ group' = {"main"} /\ holds' = [s \in Streams |-> {"main"}]
  /\ active' = TRUE /\ pc' = "confirm"
  /\ UNCHANGED <<code, output, rc, reaper, pipe, reader, seen, stage,
                 stopping, causes, hits, verdict, faults>>

\* set_phase or update_attempt raises before the try.
ConfirmFails ==
  /\ pc = "confirm" /\ faults < MaxFaults
  /\ faults' = faults + 1 /\ Ends("failed")
  /\ UNCHANGED <<child, pipe, reader, seen, stage, active, stopping, causes,
                 hits>>

\* Mutant: stderr is read once stdout has ended.
OneReader == [s \in Streams |-> IF s = "stdout" THEN "reading" ELSE "off"]

BothReaders == [s \in Streams |-> "reading"]

Confirm ==
  /\ pc = "confirm" /\ pc' = "wait" /\ reader' = BothReaders
  /\ UNCHANGED <<child, pipe, seen, stage, ends>>

Drain ==
  /\ pc' = IF AllDone THEN "collect" ELSE "drain"
  /\ UNCHANGED <<processes, rc, pipe, reader, stage, ends>>

\* _wait_process_exit.
ReturncodeSeen ==
  /\ pc = "wait" /\ rc # "none"
  /\ seen' = rc /\ Drain /\ UNCHANGED reaper

PollReaps ==
  /\ pc = "wait" /\ code # "none" /\ reaper = "none"
  /\ reaper' = "poll" /\ seen' = code /\ Drain

\* The watcher has reaped it and is late with the return code.
PollGuesses ==
  /\ pc = "wait" /\ reaper = "watcher" /\ rc = "none"
  /\ seen' = "guess" /\ Drain /\ UNCHANGED reaper

Drained ==
  /\ pc = "drain" /\ stage["run"] = "off" /\ AllEof
  /\ pc' = "collect"
  /\ UNCHANGED <<child, pipe, reader, seen, stage, ends>>

\* pipe_drain_after_exit_seconds have passed.
DrainTimeout ==
  /\ pc = "drain" /\ stage["run"] = "off"
  /\ stage' = [stage EXCEPT !["run"] = "sweep"]
  /\ UNCHANGED <<child, pipe, reader, pc, seen, ends>>

DrainSwept ==
  /\ pc = "drain" /\ stage["run"] = "over"
  /\ pc' = "collect" /\ stage' = [stage EXCEPT !["run"] = "off"]
  /\ UNCHANGED <<child, pipe, reader, seen, ends>>

\* A reader has raised; the handler of _communicate_limited terminates.
ReadFailed ==
  /\ \/ pc = "drain" /\ stage["run"] = "off"
     \/ pc = "collect"
  /\ SomeOver
  /\ pc' = "fail" /\ stage' = [stage EXCEPT !["run"] = "enter"]
  /\ UNCHANGED <<child, pipe, reader, seen, ends>>

\* Its child is gone, then its group; then it gathers both readers.
FailTerminated ==
  /\ pc = "fail" /\ stage["run"] = "over"
  /\ pc' = "fail sweep"
  /\ stage' = [stage EXCEPT !["run"] = "sweep"]
  /\ UNCHANGED <<child, pipe, reader, seen, ends>>

FailSwept ==
  /\ pc = "fail sweep" /\ stage["run"] = "over" /\ AllDone
  /\ Ends("unknown") /\ stage' = [stage EXCEPT !["run"] = "off"]
  /\ active' = FALSE
  /\ UNCHANGED <<child, pipe, reader, seen, stopping, causes, hits, faults>>

\* Mutant: after the sweep whatever has been read is taken.
CollectRead == pc = "collect" /\ ~SomeOver

\* Both streams are at their end.
Collected == pc = "collect" /\ AllEof

\* Mutant: what a child wrote counts more than how it ended.
JudgeByText ==
  IF text THEN {"done", "invalid"}
  ELSE IF seen = "fail" THEN {"unknown"} ELSE {"failed"}

\* White space is no answer.  A text that breaks the output contract is
\* "invalid" and may be retried.
Judge ==
  IF seen = "fail" THEN {"unknown"}
  ELSE IF text THEN {"done", "invalid"} ELSE {"failed"}

Judged ==
  /\ Collected /\ \E v \in Judge : Ends(v)
  /\ active' = FALSE
  /\ UNCHANGED <<child, pipe, reader, seen, stage, stopping, causes, hits,
                 faults>>

\* The exit code cannot be recorded: an exception of no known kind.
RecordFails ==
  /\ Collected /\ seen = "fail" /\ faults < MaxFaults
  /\ faults' = faults + 1 /\ Ends("failed") /\ active' = FALSE
  /\ UNCHANGED <<child, pipe, reader, seen, stage, stopping, causes, hits>>

-----------------------------------------------------------------------------
(* CancelledError.                                                         *)

\* run_task: a user's cancel before the stop, and only the end-to-end
\* timeout alone becomes a TimeoutError.
CutVerdict(c) ==
  IF "cancel" \in c THEN "cancelled"
  ELSE IF "stop" \in c THEN "interrupted" ELSE "unknown"

\* Mutant: the child is left to itself.
CutAtOnce == Ends(CutVerdict(causes')) /\ UNCHANGED stage

\* The handler of _execute terminates; a second CancelledError leaves it.
Cut ==
  IF pc = "cut" THEN Ends(CutVerdict(causes')) /\ UNCHANGED stage
  ELSE /\ pc' = "cut" /\ stage' = [stage EXCEPT !["run"] = "enter"]
       /\ UNCHANGED verdict

Awaiting == pc \in {"wait", "drain", "collect", "fail", "fail sweep", "cut"}

\* A gather that is not shielded takes its readers along.
Interrupted(c) ==
  /\ causes' = causes \cup {c} /\ hits' = hits + 1
  /\ \/ /\ pc = "spawn" /\ Ends(CutVerdict(causes'))
        /\ UNCHANGED <<reader, stage, active>>
     \/ /\ Awaiting /\ Cut
        /\ active' = (active /\ pc # "cut")
        /\ reader' = IF \/ pc = "collect"
                        \/ pc = "fail sweep" /\ stage["run"] = "over"
                     THEN [s \in Streams |-> IF reader[s] = "reading"
                                             THEN "cut" ELSE reader[s]]
                     ELSE reader
  /\ UNCHANGED <<child, pipe, seen, faults>>

Cancel == hits < MaxInterrupts /\ Interrupted("cancel") /\ UNCHANGED stopping

Timeout == "timeout" \notin causes /\ Interrupted("timeout") /\ UNCHANGED stopping

CutTerminated ==
  /\ pc = "cut" /\ stage["run"] = "over"
  /\ Ends(CutVerdict(causes)) /\ stage' = [stage EXCEPT !["run"] = "off"]
  /\ active' = FALSE
  /\ UNCHANGED <<child, pipe, reader, seen, stopping, causes, hits, faults>>

\* stop(): first the process, if there is one, then the coroutine.
Stop ==
  /\ stopping = "no" /\ active /\ rc = "none" /\ pc # "confirm"
  /\ stopping' = "term" /\ stage' = [stage EXCEPT !["stop"] = "enter"]
  /\ UNCHANGED <<child, pipe, reader, pc, seen, active, causes, hits, verdict,
                 faults>>

StopCancels ==
  /\ \/ stopping = "no" /\ ~(active /\ rc = "none")
     \/ stopping = "term" /\ stage["stop"] = "over"
  /\ pc # "confirm" /\ stopping' = "cancel"
  /\ IF pc = "ended"
     THEN UNCHANGED <<child, pipe, reader, pc, seen, stage, active, causes,
                      hits, verdict, faults>>
     ELSE Interrupted("stop")

-----------------------------------------------------------------------------
Init ==
  /\ group = {} /\ code = "none"
  /\ rc = "none" /\ reaper = "none"
  /\ holds = [s \in Streams |-> {}]
  /\ wrote = [s \in Streams |-> 0] /\ text = FALSE
  /\ pipe = [s \in Streams |-> 0] /\ reader = [s \in Streams |-> "off"]
  /\ pc = "spawn" /\ seen = "none"
  /\ stage = [a \in {"run", "stop"} |-> "off"]
  /\ active = FALSE /\ stopping = "no"
  /\ causes = {} /\ hits = 0 /\ verdict = "none" /\ faults = 0

Group ==
  \/ \E p \in Processes, s \in Streams : ProcessWrites(p, s) \/ LetsGo(p, s)
  \/ MainForks \/ HelperExits \/ \E c \in {"zero", "fail"} : MainExits(c)

Loop ==
  \/ WatcherReaps \/ WatcherTells
  \/ \E s \in Streams : ReaderReads(s) \/ ReaderEnds(s)

Termination ==
  \/ \E a \in {"run", "stop"} : TermEnter(a) \/ TermWaited(a) \/ TermKill(a)
  \/ SweepEnter \/ SweepReturns \/ SweepKills

Attempt ==
  \/ SpawnFails \/ Spawned \/ Confirm \/ ConfirmFails
  \/ ReturncodeSeen \/ PollReaps \/ PollGuesses
  \/ Drained \/ DrainTimeout \/ DrainSwept
  \/ ReadFailed \/ FailTerminated \/ FailSwept
  \/ Judged \/ RecordFails \/ CutTerminated

Next == Group \/ Loop \/ Termination \/ Attempt
          \/ Cancel \/ Timeout \/ Stop \/ StopCancels

Spec == Init /\ [][Next]_vars

\* The loop runs what is ready, and timers fire: the grace periods, the
\* drain and the end-to-end timeout.  Nothing is assumed of the processes.
Fairness ==
  /\ WF_vars(Attempt) /\ WF_vars(Timeout)
  /\ WF_vars(WatcherReaps) /\ WF_vars(WatcherTells)
  /\ \A s \in Streams : WF_vars(ReaderReads(s) \/ ReaderEnds(s))
  /\ \A a \in {"run", "stop"} :
       WF_vars(TermEnter(a)) /\ WF_vars(TermWaited(a)) /\ WF_vars(TermKill(a))
  /\ WF_vars(SweepEnter \/ SweepReturns \/ SweepKills)

FairSpec == Spec /\ Fairness

-----------------------------------------------------------------------------
(* Properties.                                                              *)

Codes == {"none", "zero", "fail"}

\* The values the variables take; a verdict is one run_task knows.
TypeOK ==
  /\ group \subseteq Processes
  /\ code \in Codes /\ rc \in Codes /\ seen \in Codes \cup {"guess"}
  /\ reaper \in {"none", "watcher", "poll"}
  /\ holds \in [Streams -> SUBSET Processes] /\ text \in BOOLEAN
  /\ wrote \in [Streams -> 0..MaxWrites]
  /\ pipe \in [Streams -> 0..1]
  /\ reader \in [Streams -> {"off", "reading", "eof", "over", "cut"}]
  /\ pc \in {"spawn", "confirm", "wait", "drain", "collect", "fail",
             "fail sweep", "cut", "ended"}
  /\ stage \in [{"run", "stop"} ->
                {"off", "enter", "term", "kill", "sweep", "swept", "over"}]
  /\ active \in BOOLEAN /\ stopping \in {"no", "term", "cancel"}
  /\ causes \subseteq Causes /\ hits \in 0..(MaxInterrupts + 2)
  /\ faults \in 0..MaxFaults
  /\ verdict \in {"none", "done", "invalid", "failed", "retry", "unknown",
                  "cancelled", "interrupted"}

Ran == code # "none" \/ "main" \in group

(* An answer is all that the group ever wrote to stdout, within the limit:  *)
(* the child is gone and whoever of the group may still live has let go of  *)
(* both pipes, so that neither the drain timeout nor the sweep cuts an      *)
(* answer short.  It is not blank (_communicate_limited, _execute).         *)
AnswerWhole ==
  verdict \in {"done", "invalid"} =>
    /\ "main" \notin group /\ \A s \in Streams : holds[s] = {}
    /\ pipe["stdout"] = 0 /\ text
    /\ wrote["stdout"] <= MaxOutput /\ wrote["stderr"] <= MaxOutput

\* The exit code is a guess: the child watcher has it and has not told.
Guessed == seen = "guess"

(* Once the child has run with the prompt the attempt is not repeated.  It  *)
(* has an outcome that a client takes for certain only after a good exit;   *)
(* the one excuse is an exit code that was guessed, see ExitHonoured.  It   *)
(* is failed only when both streams ended and stdout was blank, and unknown *)
(* only for a bad exit, a stream over its limit or the end-to-end timeout   *)
(* (_execute, run_task).                                                    *)
UnsureIsUnknown ==
  pc = "ended" /\ Ran /\ faults = 0 =>
    /\ verdict # "retry"
    /\ verdict \in {"done", "invalid", "failed"} => code = "zero" \/ Guessed
    /\ verdict = "failed" => ~text /\ \A s \in Streams : holds[s] = {}
    /\ verdict = "unknown" => code = "fail" \/ SomeOver \/ "timeout" \in causes

(* Until both streams have ended, a child or helper that has filled a pipe  *)
(* is being read, unless that stream is found over the limit: no reader     *)
(* gives up early, and the two pipes cannot block child and worker against  *)
(* each other (_communicate_limited).                                       *)
PipeServed ==
  pc \in {"wait", "drain"} =>
    \A s \in Streams : pipe[s] = 1 => reader[s] \in {"reading", "over"}

\* No main process outlives its attempt, however it ignores SIGTERM, if the
\* store did not fail and CancelledError came no more than once.
MainGone ==
  pc = "ended" /\ faults = 0 /\ hits <= 1 => "main" \notin group

\* After stop() no main process is left, not even one that a failed write
\* had left behind, unless two interruptions had already ended the attempt.
StopEndsMain ==
  stopping = "cancel" /\ pc = "ended" /\ (hits <= 1 \/ "stop" \in causes) =>
    "main" \notin group

(* The variables keep their types, and neither the end of an attempt nor    *)
(* the stop of the worker leaves a main process behind, within what each    *)
(* can withstand (the handlers of _execute and _communicate_limited, stop). *)
NoStrayMain == TypeOK /\ MainGone /\ StopEndsMain

(* An attempt ends whatever the processes do.                               *)
AttemptEnds == (pc = "spawn") ~> (pc = "ended")

(* Claimed of _communicate_limited and of a cancel: helpers that hold the   *)
(* pipes are cleaned up, nothing of the group outlives the attempt.         *)
NothingLeftRunning == pc = "ended" => group = {}

(* Claimed of _wait_process_exit and of a child that ends with another exit *)
(* code than 0: the outcome is unknown, never done and never failed.        *)
ExitHonoured ==
  verdict \in {"done", "invalid", "failed"} /\ Ran /\ faults = 0 => code = "zero"
=============================================================================
