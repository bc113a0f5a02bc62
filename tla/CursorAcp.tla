------------------------------ MODULE CursorAcp ------------------------------
(***************************************************************************)
(* One cursor_acp worker slot: attempts run one after the other over a     *)
(* long-lived JSON-RPC connection to an agent process, each in a session   *)
(* of its own.                                                             *)
(*                                                                         *)
(* The event loop runs two coroutines here: the worker's _execute and the  *)
(* connection's reader.  The agent answers in any order, late or never,    *)
(* may die, and may write a line that is not JSON-RPC.  Attempt a asks for *)
(* at most one session, so session a is the one it asked for; a request is *)
(* <<a, method>>, which is as unique as the counter of request ids.        *)
(*                                                                         *)
(* Writing a request is one step: drain() fails only while a part of the   *)
(* line is still in our buffer, and then the agent has not got the request.*)
(* Requests of the agent to us (permissions, file reads) are answered by   *)
(* tasks of their own and touch nothing modelled here.                     *)
(***************************************************************************)
EXTENDS Naturals, FiniteSets, SequencesExt

CONSTANTS
  MaxAttempts,  \* bound: attempts explored
  MaxChunks,    \* bound: message chunks the agent writes in one session
  MaxFaults,    \* bound: crashes and illegal lines of agents
  MaxSessions   \* target.max_sessions_per_connection

ASSUME AcpAssumption ==
  /\ MaxAttempts \in Nat /\ MaxChunks \in Nat /\ MaxFaults \in Nat
  /\ MaxSessions \in Nat \ {0}

Attempts == 1..MaxAttempts

(* Where _execute is suspended.                                            *)
Stages == {"idle",          \* not running
           "starting",      \* closing the old connection, spawning
           "initializing",  \* initialize, on a connection not yet ours
           "opening",       \* session/new
           "prompting",     \* session/prompt
           "cancelling",    \* _cancel_session waits for the prompt's future
           "closing",       \* session/close
           "recycling"}     \* connection.close() in _finish_session

(* How the try block, and then the attempt, ended.                         *)
Verdicts == {"none", "answer", "failed", "retry", "cancelled", "unknown",
             "stopped"}

Method == [s \in {"opening", "prompting", "cancelling", "closing"} |->
             CASE s = "opening" -> "new"
               [] s \in {"prompting", "cancelling"} -> "prompt"
               [] s = "closing" -> "close"]

Requests == Attempts \X {"new", "prompt", "close"}

(* What a reply says: "ok" a session id or a regular stopReason,           *)
(* "cancelled" error -32800 or stopReason cancelled, "failed" any other    *)
(* stopReason, "error" any other error or a result without session id.     *)
Replies == {"ok", "cancelled", "failed", "error"}

Reply(r, x) == [type |-> "reply", req |-> r, says |-> x]
Chunk(a, k) == [type |-> "chunk", session |-> a, no |-> k]
BadLine == [type |-> "bad"]

Chunks == Attempts \X (1..MaxChunks)

VARIABLES
  stage,     \* where _execute is
  attempt,   \* the attempt it runs, or ran last
  verdict,   \* what it will end with, known while it still cleans up
  fut,       \* the future it awaits: is = "wait", a reply, or an exception;
             \* of = the session a session/new reply names
  timer,     \* the end-to-end asyncio.timeout may still fire
  outcome,   \* how the last attempt ended
  sid,       \* _session_id, 0 for None
  parts,     \* _response_parts, as a set
  conn,      \* _connection: "none", "open" or "closed"
  count,     \* _sessions_created
  canClose,  \* the agent's capabilities include session/close
  pending,   \* _pending: requests with a future
  reader,    \* the reader loop runs
  agent,     \* the agent: "up", "gone" (pipes closed, no return code yet), or
             \* "reaped" (return code known)
  jobs,      \* requests the agent has got and not answered
  said,      \* said[a]: chunks the agent has written for session a
  out,       \* the agent's stdout
  faults,    \* crashes and illegal lines so far
  strays,    \* agents still up that no connection refers to
  stopping,  \* Worker.stop was called
  prompted   \* observed: the agent has got the attempt's prompt

coroVars == <<stage, verdict, fut, outcome>>
attemptVars == <<attempt, timer>>
sessionVars == <<sid, parts, count>>
connVars == <<conn, canClose, pending, reader>>
agentVars == <<agent, jobs, said, out>>
otherVars == <<strays, faults, stopping, prompted>>
vars == <<coroVars, attemptVars, sessionVars, connVars, agentVars, otherVars>>

-----------------------------------------------------------------------------
(* The connection.                                                         *)

\* AcpConnection.is_running of _connection.
IsRunning == conn = "open" /\ agent # "reaped"

NoReply == [is |-> "wait", of |-> 0]

\* The request whose future _execute awaits.
Awaited == <<attempt, Method[stage]>>
Waits == stage \in DOMAIN Method /\ fut.is = "wait"

\* begin_request with a live pipe.  An agent that is gone never reads it.
SendTo(p, r) ==
  /\ pending' = p \cup {r}
  /\ jobs' = IF agent = "up" THEN jobs \cup {r} ELSE jobs

\* Mutant: a reply is taken for the oldest request that waits.
ResolvesOldest(r) ==
  {q \in pending : \A p \in pending : q[1] <= p[1]}

\* The futures a reply to r resolves: pending.pop(id).
Resolves(r) == pending \cap {r}

\* Mutant: the futures are dropped, but nobody is told.
FailPendingQuietly(e) == pending' = {} /\ UNCHANGED fut

\* _fail_pending
FailPending(e) ==
  /\ pending' = {}
  /\ fut' = IF Waits /\ Awaited \in pending
            THEN [is |-> e, of |-> 0] ELSE fut

\* A new agent process and its pipes.
FreshAgent(a) ==
  /\ agent' = a
  /\ jobs' = {} /\ out' = <<>>
  /\ said' = [s \in Attempts |-> 0]
  /\ pending' = {}

\* close() of a connection that no longer runs has come to its end.
OldClosed ==
  /\ FreshAgent("reaped")
  /\ reader' = FALSE
  /\ conn' = IF conn = "open" THEN "closed" ELSE conn

-----------------------------------------------------------------------------
(* The reader loop.                                                        *)

\* Mutant: notifications are handled in tasks of their own, which a reply may
\* overtake.
NextLineOvertakes(i) ==
  i \in 1..Len(out) /\ \A j \in 1..(i - 1) : out[j].type = "chunk"

\* Notifications are awaited, so lines are handled in order.
NextLine(i) == i = 1 /\ out # <<>>

ReadReply(i) ==
  /\ reader /\ NextLine(i) /\ out[i].type = "reply"
  /\ out' = RemoveAt(out, i)
  /\ pending' = pending \ Resolves(out[i].req)
  /\ fut' = IF Waits /\ Awaited \in Resolves(out[i].req)
            THEN [is |-> out[i].says, of |-> out[i].req[1]] ELSE fut
  /\ UNCHANGED <<stage, verdict, outcome, attemptVars, sessionVars, conn,
                 canClose, reader, agent, jobs, said, otherVars>>

\* _handle_notification: a chunk of another session is dropped, but only
\* while the worker has a session.
ReadChunk(i) ==
  /\ reader /\ NextLine(i) /\ out[i].type = "chunk"
  /\ out' = RemoveAt(out, i)
  /\ parts' = IF sid \in {0, out[i].session}
              THEN parts \cup {<<out[i].session, out[i].no>>} ELSE parts
  /\ UNCHANGED <<coroVars, attemptVars, sid, count, connVars, agent, jobs,
                 said, otherVars>>

\* A line that is no JSON-RPC message ("bad"), one that readline() finds too
\* long for its buffer ("long", a ValueError), or the end of stdout: the loop
\* ends, whatever the process does.
ReaderEnds ==
  /\ reader
  /\ \/ /\ out # <<>> /\ Head(out) = BadLine
        /\ \E e \in {"bad", "long"} : FailPending(e)
     \/ out = <<>> /\ agent # "up" /\ FailPending("closed")
  /\ reader' = FALSE /\ out' = <<>>
  /\ UNCHANGED <<stage, verdict, outcome, attemptVars, sessionVars, conn,
                 canClose, agent, jobs, said, otherVars>>

-----------------------------------------------------------------------------
(* The worker.                                                             *)

\* _execute has returned or raised v; an empty text is a failure.
Ended(v) == IF v = "answer" /\ parts = {} THEN "failed" ELSE v

End(v) ==
  /\ stage' = "idle" /\ verdict' = "none" /\ fut' = NoReply /\ sid' = 0
  /\ outcome' = Ended(v)

Await(s, v) == stage' = s /\ verdict' = v /\ fut' = NoReply

\* The connection is to be replaced after n sessions.
RecycleDue(n) == ~canClose /\ n >= MaxSessions

\* Mutant: the worker lets go of the connection before it is closed.
DropConnectionFirst == conn' = "none" /\ pending' = {}

\* AcpConnection.close up to its first await.
DropConnection == conn' = "closed" /\ pending' = {}

\* The finally clause: _session_id = None and _finish_session, after the try
\* block ended with v, n sessions being counted.
Finish(v, n) ==
  /\ count' = n
  /\ \/ /\ IsRunning /\ canClose
        /\ Await("closing", v) /\ sid' = 0
        /\ SendTo(pending, <<attempt, "close">>)
        /\ UNCHANGED <<outcome, conn>>
     \/ /\ canClose /\ (IsRunning => agent = "gone")
        /\ End(v)
        /\ UNCHANGED <<conn, pending, jobs>>
     \/ /\ RecycleDue(n)
        /\ Await("recycling", v) /\ sid' = 0
        /\ DropConnection
        /\ UNCHANGED <<outcome, jobs>>
     \/ /\ ~canClose /\ ~RecycleDue(n)
        /\ End(v)
        /\ UNCHANGED <<conn, pending, jobs>>
  /\ UNCHANGED <<canClose, reader, agent, said, out, strays, faults>>

\* The session lock is free: an attempt is alone on its worker.
Open(p) ==
  /\ parts' = {}
  /\ \/ /\ agent # "reaped"
        /\ Await("opening", "none")
        /\ SendTo(p, <<attempt', "new">>)
        /\ outcome' = "none" /\ UNCHANGED sid
     \/ /\ agent # "up"
        /\ stage' = "idle" /\ verdict' = "none" /\ fut' = NoReply /\ sid' = 0
        /\ outcome' = "retry"
        /\ pending' = p /\ UNCHANGED jobs

NextAttempt ==
  /\ stage = "idle" /\ ~stopping /\ attempt < MaxAttempts
  /\ attempt' = attempt + 1 /\ prompted' = FALSE

\* _check_cancel at the start.
BeginCancelled ==
  /\ NextAttempt
  /\ outcome' = "cancelled"
  /\ UNCHANGED <<stage, verdict, fut, timer, sessionVars, connVars, agentVars,
                 strays, faults, stopping>>

\* _ensure_connection finds a connection it takes for alive.
BeginConnected ==
  /\ NextAttempt
  /\ IsRunning
  /\ timer' = TRUE
  /\ Open(pending)
  /\ UNCHANGED <<count, conn, canClose, reader, agent, said, out, strays,
                 faults, stopping>>

BeginUnconnected ==
  /\ NextAttempt
  /\ ~IsRunning
  /\ timer' = TRUE
  /\ Await("starting", "none") /\ outcome' = "none"
  /\ UNCHANGED <<sessionVars, connVars, agentVars, strays, faults, stopping>>

\* close() of the old connection and start() of a new one.
Spawn ==
  /\ stage = "starting"
  /\ Await("initializing", "none")
  /\ FreshAgent("up")
  /\ reader' = TRUE
  /\ conn' = IF conn = "open" THEN "closed" ELSE conn
  /\ UNCHANGED <<outcome, attemptVars, sessionVars, canClose, otherVars>>

SpawnFails ==
  /\ stage = "starting"
  /\ End("failed")
  /\ OldClosed
  /\ UNCHANGED <<attemptVars, parts, count, canClose, otherVars>>

Initialized ==
  /\ stage = "initializing"
  /\ conn' = "open" /\ canClose' \in BOOLEAN /\ count' = 0
  /\ UNCHANGED attempt
  /\ Open(pending)
  /\ UNCHANGED <<timer, reader, agent, said, out, otherVars>>

\* An error or the initialize timeout; the new connection is closed.
InitializeFails ==
  /\ stage = "initializing"
  /\ \E v \in {"failed", "unknown"} : End(v)
  /\ FreshAgent("reaped")
  /\ reader' = FALSE
  /\ UNCHANGED <<attemptVars, parts, count, conn, canClose, otherVars>>

\* session/new is answered and session/prompt goes out.
SendPrompt ==
  /\ stage = "opening" /\ fut.is = "ok"
  /\ IsRunning
  /\ Await("prompting", "none")
  /\ sid' = fut.of /\ count' = count + 1
  /\ SendTo(pending, <<attempt, "prompt">>)
  /\ prompted' = (agent = "up")
  /\ UNCHANGED <<outcome, attemptVars, parts, conn, canClose, reader, agent,
                 said, out, strays, faults, stopping>>

\* The same, but the agent is gone or the prompt is longer than a line may be,
\* or the task has a cancel request that did not come as Task.cancel() (it went
\* to another slot).
PromptUnsent ==
  /\ stage = "opening" /\ fut.is = "ok"
  /\ \E v \in {"retry", "cancelled"} : Finish(v, count + 1)
  /\ UNCHANGED <<attemptVars, parts, stopping, prompted>>

\* What becomes of a session/new whose future says is.
OpenVerdict ==
  [is \in {"cancelled", "error", "closed", "bad", "long"} |->
     CASE is = "cancelled" -> "cancelled"
       [] is \in {"error", "long"} -> "failed"
       [] is \in {"closed", "bad"} -> "retry"]

\* session/new ends in an error.  There is no session to finish.
OpenFails ==
  /\ stage = "opening" /\ fut.is \in DOMAIN OpenVerdict
  /\ End(OpenVerdict[fut.is])
  /\ UNCHANGED <<attemptVars, parts, count, connVars, agentVars, otherVars>>

\* Mutant: _prompt_started is not looked at when the connection breaks.
PromptVerdictUnstarted(is) ==
  CASE is = "ok" -> "answer"
    [] is \in {"cancelled", "failed"} -> is
    [] is = "long" -> "failed"
    [] is = "error" -> "unknown"
    [] is \in {"closed", "bad"} -> "retry"

\* What becomes of a prompt whose future says is.  A ValueError is no protocol
\* error for _execute, so the prompt is not looked at.
PromptVerdict(is) ==
  CASE is = "ok" -> "answer"
    [] is \in {"cancelled", "failed"} -> is
    [] is = "long" -> "failed"
    [] is \in {"error", "closed", "bad"} -> "unknown"

PromptEnds ==
  /\ stage = "prompting" /\ fut.is # "wait"
  /\ Finish(PromptVerdict(fut.is), count)
  /\ UNCHANGED <<attemptVars, parts, stopping, prompted>>

\* Mutant: _cancel_session waits for the prompt without a limit.
BoundedUnlessCancelled == {"opening", "prompting", "closing"}

\* The waits that have a timeout of their own.
Bounded == {"opening", "prompting", "cancelling", "closing"}

\* request(timeout=...) forgets the future.
OpenTimesOut ==
  /\ stage = "opening" /\ stage \in Bounded /\ fut.is = "wait"
  /\ End("unknown")
  /\ pending' = pending \ {Awaited}
  /\ UNCHANGED <<attemptVars, parts, count, conn, canClose, reader, agentVars,
                 otherVars>>

\* wait_for(shield(...)) leaves the future and the session as they are.
PromptTimesOut ==
  /\ stage = "prompting" /\ stage \in Bounded /\ fut.is = "wait"
  /\ Finish("unknown", count)
  /\ UNCHANGED <<attemptVars, parts, stopping, prompted>>

CancelWaited ==
  /\ stage = "cancelling"
  /\ fut.is # "wait" \/ stage \in Bounded
  /\ Finish(verdict, count)
  /\ UNCHANGED <<attemptVars, parts, stopping, prompted>>

SessionClosed ==
  /\ stage = "closing"
  /\ fut.is # "wait" \/ stage \in Bounded
  /\ End(verdict)
  /\ pending' = pending \ {Awaited}
  /\ UNCHANGED <<attemptVars, parts, count, conn, canClose, reader, agentVars,
                 otherVars>>

\* The process has been terminated, by force in the end.
Recycled ==
  /\ stage = "recycling"
  /\ End(verdict)
  /\ FreshAgent("reaped")
  /\ conn' = "none" /\ reader' = FALSE /\ count' = 0
  /\ UNCHANGED <<attemptVars, parts, canClose, otherVars>>

-----------------------------------------------------------------------------
(* CancelledError arrives in _execute, from Task.cancel() or from the      *)
(* end-to-end timeout.                                                     *)

\* The end-to-end timeout gives way to a Task.cancel().
CutVerdict(cause) ==
  IF cause = "kill" \/ verdict = "stopped" THEN "stopped" ELSE "unknown"

\* While a process starts up, before or after the old one is closed: a spawn
\* that is cancelled kills its child, but
\* "except Exception" around initialize does not close the connection.
CutStartup(v) ==
  /\ stage \in {"starting", "initializing"}
  /\ End(v)
  /\ \/ /\ stage = "starting"
        /\ UNCHANGED <<connVars, agentVars, strays, faults>>
     \/ /\ stage = "starting"
        /\ OldClosed
        /\ UNCHANGED <<canClose, strays, faults>>
     \/ /\ stage = "initializing"
        /\ FreshAgent("reaped")
        /\ reader' = FALSE
        /\ strays' = IF agent = "up" THEN strays + 1 ELSE strays
        /\ UNCHANGED <<conn, canClose, faults>>
  /\ UNCHANGED count

\* Without a session there is nothing to cancel; during the clean-up the rest
\* of it is skipped.
CutPlain(v) ==
  /\ stage \in {"opening", "closing", "recycling"}
  /\ End(v)
  /\ UNCHANGED <<count, connVars, agentVars, strays, faults>>

\* _cancel_session, up to the wait for the prompt's future.
CutPrompt(v) ==
  /\ stage = "prompting" /\ IsRunning /\ fut.is = "wait"
  /\ stage' = "cancelling" /\ verdict' = v
  /\ UNCHANGED <<fut, outcome, sid, count, connVars, agentVars, strays,
                 faults>>

CutToFinish(v) ==
  /\ \/ stage = "cancelling"
     \/ stage = "prompting" /\ ~(IsRunning /\ fut.is = "wait")
  /\ Finish(v, count)

Cut(cause) ==
  /\ stage # "idle"
  /\ cause = "time" => timer
  /\ timer' = (timer /\ cause # "time")
  /\ \/ CutStartup(CutVerdict(cause))
     \/ CutPlain(CutVerdict(cause))
     \/ CutPrompt(CutVerdict(cause))
     \/ CutToFinish(CutVerdict(cause))
  /\ UNCHANGED <<attempt, parts, stopping, prompted>>

\* stop: the running attempt, if any, is cancelled (Cut) and awaited; then the
\* connection is closed and no attempt follows.
Stop ==
  /\ ~stopping /\ stage = "idle"
  /\ stopping' = TRUE
  /\ FreshAgent("reaped")
  /\ conn' = "none" /\ reader' = FALSE
  /\ UNCHANGED <<coroVars, attemptVars, sessionVars, canClose, strays, faults,
                 prompted>>

-----------------------------------------------------------------------------
(* The agent.                                                              *)

\* Nobody reads on once the reader loop has ended.
Write(m) == out' = IF reader THEN Append(out, m) ELSE out

AgentRest ==
  UNCHANGED <<coroVars, attemptVars, sessionVars, connVars, strays, stopping,
              prompted>>

\* A reply that _execute does not wait for says no more than its id.
AgentReplies(r) ==
  /\ agent = "up" /\ r \in jobs
  /\ jobs' = jobs \ {r}
  /\ \E x \in Replies :
       /\ r[2] = "close" \/ ~Waits \/ Awaited # r => x = "ok"
       /\ r[2] = "new" => x # "failed"
       /\ Write(Reply(r, x))
  /\ UNCHANGED <<agent, said, faults>> /\ AgentRest

\* session/update with an agent_message_chunk, while the prompt runs.
AgentSpeaks(a) ==
  /\ agent = "up" /\ <<a, "prompt">> \in jobs
  /\ said[a] < MaxChunks
  /\ said' = [said EXCEPT ![a] = @ + 1]
  /\ Write(Chunk(a, said[a] + 1))
  /\ UNCHANGED <<agent, jobs, faults>> /\ AgentRest

\* Only the first such line matters.
AgentBabbles ==
  /\ agent = "up" /\ reader
  /\ \A i \in 1..Len(out) : out[i] # BadLine
  /\ Write(BadLine)
  /\ faults < MaxFaults /\ faults' = faults + 1
  /\ UNCHANGED <<agent, jobs, said>> /\ AgentRest

AgentDies ==
  /\ agent = "up"
  /\ agent' = "gone" /\ jobs' = {}
  /\ faults < MaxFaults /\ faults' = faults + 1
  /\ UNCHANGED <<said, out>> /\ AgentRest

\* The event loop learns the return code.
AgentReaped ==
  /\ agent = "gone"
  /\ agent' = "reaped"
  /\ UNCHANGED <<jobs, said, out, faults>> /\ AgentRest

-----------------------------------------------------------------------------
\* Worker.start has been successful.
Init ==
  /\ stage = "idle" /\ attempt = 0 /\ verdict = "none" /\ fut = NoReply
  /\ timer = FALSE
  /\ outcome = "none"
  /\ sid = 0 /\ parts = {} /\ count = 0
  /\ conn = "open" /\ canClose \in BOOLEAN /\ pending = {} /\ reader = TRUE
  /\ agent = "up" /\ jobs = {} /\ out = <<>>
  /\ said = [a \in Attempts |-> 0]
  /\ strays = 0 /\ faults = 0 /\ stopping = FALSE /\ prompted = FALSE

Begin == BeginCancelled \/ BeginConnected \/ BeginUnconnected

\* _execute goes on by itself: every wait is answered or times out.
Execute ==
  \/ Spawn \/ SpawnFails \/ Initialized \/ InitializeFails
  \/ SendPrompt \/ PromptUnsent \/ OpenFails \/ OpenTimesOut
  \/ PromptEnds \/ PromptTimesOut \/ CancelWaited
  \/ SessionClosed \/ Recycled

Reader == (\E i \in 1..Len(out) : ReadReply(i) \/ ReadChunk(i)) \/ ReaderEnds

Agent ==
  \/ \E r \in Requests : AgentReplies(r)
  \/ \E a \in Attempts : AgentSpeaks(a)
  \/ AgentBabbles \/ AgentDies \/ AgentReaped

Next ==
  \/ Begin \/ Execute \/ Reader \/ Agent \/ Stop
  \/ \E cause \in {"kill", "time"} : Cut(cause)

Spec == Init /\ [][Next]_vars

\* The coroutine runs when its future is done, and timers fire.  Nothing is
\* assumed of the agent, of the reader, or of cancellation.
FairSpec == Spec /\ WF_vars(Execute)

-----------------------------------------------------------------------------
(* Properties.                                                             *)

Message ==
  {Reply(r, x) : r \in Requests, x \in Replies}
    \cup {Chunk(c[1], c[2]) : c \in Chunks} \cup {BadLine}

\* Every variable has its type.
TypeOK ==
  /\ stage \in Stages /\ attempt \in 0..MaxAttempts /\ verdict \in Verdicts
  /\ fut \in [is : {"wait", "closed", "bad", "long"} \cup Replies,
              of : 0..MaxAttempts]
  /\ timer \in BOOLEAN /\ outcome \in Verdicts
  /\ sid \in 0..MaxAttempts /\ parts \subseteq Chunks /\ count \in Nat
  /\ conn \in {"none", "open", "closed"} /\ canClose \in BOOLEAN
  /\ pending \subseteq Requests /\ reader \in BOOLEAN
  /\ agent \in {"up", "gone", "reaped"} /\ jobs \subseteq Requests
  /\ said \in [Attempts -> 0..MaxChunks]
  /\ out \in Seq(Message) /\ strays \in Nat /\ faults \in 0..MaxFaults
  /\ stopping \in BOOLEAN /\ prompted \in BOOLEAN

\* A prompt runs in the session that its own attempt asked for: late replies
\* to requests of earlier attempts are not taken for this one's.
SessionIsOwn == stage \in {"prompting", "cancelling"} => sid = attempt

\* An attempt whose prompt the agent has got is never retried by itself,
\* whichever way connection, reader or agent fail afterwards.
PromptNotRepeated == prompted => outcome # "retry"

\* A coroutine waits only for a future that is still in _pending, where the
\* reader and close() find it: when the reader stops, nobody waits in vain.
NoLostFuture == Waits => Awaited \in pending

\* No agent makes more than max_sessions_per_connection sessions that the
\* worker knows of, unless it can close them.
SessionsCounted == canClose \/ count <= MaxSessions

\* An agent process that runs is one that stop or the next attempt closes:
\* the worker has a connection to it, or is setting one up.
AgentReachable ==
  agent # "reaped" => conn # "none" \/ stage = "initializing"

\* Through failures, cancels and recycling the worker neither overuses nor
\* loses the agent it knows of (_finish_session, close), and every variable
\* keeps its type.
ConnectionKept == TypeOK /\ SessionsCounted /\ AgentReachable

\* When an attempt returns its answer, every chunk the agent wrote for it
\* before the reply is in the text (the comment in _dispatch_message).
AnswerComplete ==
  [][outcome # "answer" /\ outcome' = "answer" =>
       \A k \in 1..said[attempt] : <<attempt, k>> \in parts]_vars

\* The text of an answer has no chunk of another attempt's session.
AnswerIsOwn ==
  [][outcome # "answer" /\ outcome' = "answer" =>
       \A c \in parts : c[1] = attempt]_vars

\* A worker slot has at most one agent process.
OneAgent == strays + (IF agent = "up" THEN 1 ELSE 0) <= 1

\* Every attempt ends, whatever the agent does or does not do.
AttemptEnds == stage # "idle" ~> stage = "idle"

=============================================================================
