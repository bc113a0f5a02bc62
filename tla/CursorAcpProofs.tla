-------------------------- MODULE CursorAcpProofs ---------------------------
(***************************************************************************)
(* The safety of CursorAcp for any number of attempts, chunks, faults and  *)
(* sessions per connection.                                                *)
(*                                                                         *)
(* All follows from AcpInv.  SessionIsOwn needs to know that the future of *)
(* a session/new names the attempt's own session (OwnInv); SessionsCounted *)
(* that a connection with its last session is given up before the next     *)
(* attempt (CountInv).  AnswerComplete needs most: of a prompt that has    *)
(* not gone out the agent knows nothing (SilentInv), every chunk said is   *)
(* either in the text or in the stream, before the reply if that is there  *)
(* (HeardInv), so that nothing is missing when the reply is read           *)
(* (CompleteInv), through the clean-up as well.                            *)
(*                                                                         *)
(* Each part is proved by cases over the actions; those that need an       *)
(* argument of their own have a lemma before it.                           *)
(***************************************************************************)
EXTENDS CursorAcp, SequenceTheorems, TLAPS

\* On the way to a prompt, which has not gone out.
Before == {"starting", "initializing", "opening"}

\* Awaits of a request on the worker's own connection.
Talking == {"opening", "prompting", "cancelling", "closing"}

\* Who is where: an attempt ends once, and talks on an open connection.
StageInv ==
  /\ stage # "idle" => attempt >= 1 /\ outcome = "none"
  /\ stage \in Before \cup {"prompting"} => verdict = "none"
  /\ stage = "idle" => verdict = "none"
  /\ stage = "cancelling" => verdict \in {"stopped", "unknown"}
  /\ stage \in Talking => conn = "open"
  /\ stage = "closing" => canClose
  /\ stage = "initializing" => conn # "open"

\* A session and its prompt are this attempt's.
OwnInv ==
  /\ stage = "opening" /\ fut.is \in Replies => fut.of = attempt
  /\ SessionIsOwn

\* Nothing is retried after a prompt.
PromptInv ==
  /\ stage \in Before => ~prompted
  /\ verdict = "retry" => ~prompted
  /\ PromptNotRepeated

\* One session more than counted is still allowed where a session begins.
CountInv ==
  ~canClose =>
    \/ count < MaxSessions
    \/ /\ count = MaxSessions
       /\ conn = "open" => stage \in {"prompting", "cancelling"}

\* The agent knows nothing of a prompt of attempt a.
Unknown(a) ==
  /\ said[a] = 0 /\ <<a, "prompt">> \notin jobs
  /\ \A i \in 1..Len(out) :
       out[i].type = "reply" => out[i].req # <<a, "prompt">>

\* Chunk k of the attempt has been read, or is among the first n lines.
Heard(k, n) ==
  <<attempt, k>> \in parts \/ \E j \in 1..n : out[j] = Chunk(attempt, k)

Complete ==
  /\ <<attempt, "prompt">> \notin jobs
  /\ \A k \in 1..said[attempt] : <<attempt, k>> \in parts

\* Of a prompt that has not gone out the agent knows nothing.
SilentInv ==
  \A a \in Attempts :
    a > attempt \/ (a = attempt /\ stage \in Before) => Unknown(a)

\* What was said is in the text, or in front of the reply.
HeardInv ==
  stage = "prompting" /\ reader =>
    /\ \A k \in 1..said[attempt] : Heard(k, Len(out))
    /\ \A i \in 1..Len(out) :
         out[i].type = "reply" /\ out[i].req = <<attempt, "prompt">> =>
           /\ <<attempt, "prompt">> \notin jobs
           /\ \A k \in 1..said[attempt] : Heard(k, i - 1)

\* A regular end has been read after all of the text.
CompleteInv ==
  /\ stage = "prompting" /\ fut.is = "ok" => Complete
  /\ verdict = "answer" => Complete

\* The parts of TypeOK.
ControlOK ==
  /\ stage \in Stages /\ verdict \in Verdicts /\ outcome \in Verdicts
  /\ timer \in BOOLEAN /\ canClose \in BOOLEAN /\ reader \in BOOLEAN
  /\ stopping \in BOOLEAN /\ prompted \in BOOLEAN
  /\ conn \in {"none", "open", "closed"} /\ agent \in {"up", "gone", "reaped"}

CountOK ==
  /\ attempt \in 0..MaxAttempts /\ sid \in 0..MaxAttempts /\ count \in Nat
  /\ strays \in Nat /\ faults \in 0..MaxFaults
  /\ said \in [Attempts -> 0..MaxChunks]

DataOK ==
  /\ fut \in [is : {"wait", "closed", "bad", "long"} \cup Replies,
              of : 0..MaxAttempts]
  /\ pending \subseteq Requests /\ jobs \subseteq Requests
  /\ parts \subseteq Chunks /\ out \in Seq(Message)

AcpInv ==
  /\ TypeOK /\ StageInv /\ OwnInv /\ NoLostFuture /\ PromptInv
  /\ CountInv /\ AgentReachable /\ SilentInv /\ HeardInv /\ CompleteInv

-----------------------------------------------------------------------------
(* Lines of the agent.                                                     *)

(* What a line says about requests and chunks is of their types.           *)
LEMMA MessageTypes ==
  ASSUME NEW m \in Message
  PROVE  /\ m.type \in {"reply", "chunk", "bad"}
         /\ m.type = "reply" => m.req \in Requests /\ m.says \in Replies
         /\ m.type = "chunk" => <<m.session, m.no>> \in Chunks
  <1>1. CASE m \in {Reply(r, x) : r \in Requests, x \in Replies}
    <2>1. PICK r \in Requests, x \in Replies : m = Reply(r, x)
      BY <1>1
    <2>. QED BY <2>1 DEF Reply
  <1>2. CASE m \in {Chunk(c[1], c[2]) : c \in Chunks}
    <2>1. PICK c \in Chunks : m = Chunk(c[1], c[2])
      BY <1>2
    <2>2. <<c[1], c[2]>> \in Chunks
      BY DEF Chunks
    <2>. QED BY <2>1, <2>2 DEF Chunk
  <1>3. CASE m = BadLine
    BY <1>3 DEF BadLine
  <1>. QED BY <1>1, <1>2, <1>3 DEF Message

(* Reading takes the first line. *)
LEMMA Removed ==
  ASSUME NEW q \in Seq(Message), Len(q) >= 1
  PROVE  /\ RemoveAt(q, 1) \in Seq(Message)
         /\ Len(RemoveAt(q, 1)) = Len(q) - 1
         /\ \A j \in 1..(Len(q) - 1) : RemoveAt(q, 1)[j] = q[j + 1]
  <1>1. Len(q) \in Nat /\ \A j \in 2..Len(q) : q[j] \in Message
    BY LenProperties, ElementOfSeq
  <1>2. PICK n \in Nat : Len(q) = n + 1
    BY <1>1
  <1>3. PICK rest : rest = SubSeq(q, 2, n + 1)
    OBVIOUS
  <1>4. /\ rest \in Seq(Message) /\ Len(rest) = n
        /\ \A j \in 1..n : rest[j] = q[j + 1]
    <2>1. /\ rest \in Seq(Message)
          /\ Len(rest) = IF 2 <= n + 1 THEN n + 1 - 2 + 1 ELSE 0
          /\ \A j \in 1..(n + 1 - 2 + 1) : rest[j] = q[2 + j - 1]
      BY <1>1, <1>2, <1>3, SubSeqProperties
    <2>2. \A j \in 1..n : 2 + j - 1 = j + 1
      OBVIOUS
    <2>. QED BY <2>1, <2>2
  <1>5. RemoveAt(q, 1) = SubSeq(q, 1, 0) \o SubSeq(q, 2, Len(q))
    BY DEF RemoveAt
  <1>6. RemoveAt(q, 1) = <<>> \o rest
    BY <1>2, <1>3, <1>5, SubSeqEmpty
  <1>7. RemoveAt(q, 1) = rest
    BY <1>4, <1>6, ConcatEmptySeq
  <1>. QED BY <1>2, <1>4, <1>7

(* The next chunk of a session is one of its chunks. *)
LEMMA ChunkSaid ==
  ASSUME TypeOK, NEW a \in Attempts, said[a] < MaxChunks
  PROVE  Chunk(a, said[a] + 1) \in Message /\ said[a] \in Nat
  <1>1. said[a] \in 0..MaxChunks /\ MaxChunks \in Nat
    BY AcpAssumption DEF TypeOK
  <1>2. said[a] + 1 \in 1..MaxChunks /\ said[a] \in Nat
    BY <1>1
  <1>3. PICK c : c = <<a, said[a] + 1>>
    OBVIOUS
  <1>4. c \in Chunks /\ c[1] = a /\ c[2] = said[a] + 1
    BY <1>2, <1>3 DEF Chunks
  <1>. QED BY <1>2, <1>4 DEF Message

(* A line that is read leaves the stream. *)
LEMMA LineRead ==
  ASSUME TypeOK, NEW i \in 1..Len(out), NextLine(i), out' = RemoveAt(out, i)
  PROVE  /\ i = 1 /\ Len(out) \in Nat /\ out[1] \in Message
         /\ out' \in Seq(Message) /\ Len(out') = Len(out) - 1
         /\ \A j \in 1..Len(out') : out'[j] = out[j + 1]
  <1>1. i = 1 /\ out \in Seq(Message)
    BY DEF TypeOK, NextLine
  <1>2. Len(out) \in Nat /\ Len(out) >= 1 /\ out[1] \in Message
    BY <1>1, LenProperties, ElementOfSeq
  <1>. QED BY <1>1, <1>2, Removed

(* A line that is written comes last. *)
LEMMA LineWritten ==
  ASSUME TypeOK, NEW m \in Message, Write(m)
  PROVE  /\ Len(out) \in Nat /\ out' \in Seq(Message)
         /\ reader => Len(out') = Len(out) + 1 /\ out'[Len(out')] = m
         /\ ~reader => out' = out
         /\ \A j \in 1..Len(out) : out'[j] = out[j]
  <1>1. out \in Seq(Message)
    BY DEF TypeOK
  <1>2. Len(out) \in Nat
    BY <1>1, LenProperties
  <1>3. /\ Append(out, m) \in Seq(Message)
        /\ Len(Append(out, m)) = Len(out) + 1
        /\ \A j \in 1..Len(out) : Append(out, m)[j] = out[j]
        /\ Append(out, m)[Len(out) + 1] = m
    BY <1>1, AppendProperties
  <1>. QED BY <1>1, <1>2, <1>3 DEF Write

(* How the prompt's future decides. *)
LEMMA PromptVerdicts ==
  ASSUME TypeOK, fut.is # "wait"
  PROVE  /\ PromptVerdict(fut.is) \in
              {"answer", "cancelled", "failed", "unknown"}
         /\ PromptVerdict(fut.is) = "answer" <=> fut.is = "ok"
  <1>1. fut.is \in {"closed", "bad", "long"} \cup Replies
    BY DEF TypeOK
  <1>. QED BY <1>1 DEF PromptVerdict, Replies


-----------------------------------------------------------------------------
(* The steps.                                                               *)

USE AcpAssumption
USE DEF vars, coroVars, attemptVars, sessionVars, connVars, agentVars,
        otherVars

(* What the agent does touches nothing of the worker or connection.          *)
LEMMA AgentKeeps ==
  ASSUME Agent
  PROVE  /\ UNCHANGED <<stage, verdict, fut, outcome, attempt, timer>>
         /\ UNCHANGED <<sid, parts, count, conn, canClose, pending, reader>>
         /\ UNCHANGED <<strays, stopping, prompted>>
         /\ agent' \in {agent, "gone", "reaped"}
         /\ agent' # "reaped" => agent # "reaped"
  BY DEF Agent, AgentReplies, AgentSpeaks, AgentBabbles, AgentDies,
         AgentReaped, AgentRest

(* No step takes a flag or the place of the coroutine out of its type.      *)
LEMMA ControlStep ==
  ASSUME AcpInv, Next
  PROVE  ControlOK'
  <1>0. TypeOK /\ StageInv
    BY DEF AcpInv
  <1>1. CASE Begin
    BY <1>0, <1>1 DEF TypeOK, ControlOK, Stages, Verdicts, StageInv, Begin,
       BeginCancelled, NextAttempt, BeginConnected, Open, Await,
       BeginUnconnected
  <1>2. CASE Execute
    <2>1. CASE Spawn
      BY <1>0, <2>1 DEF TypeOK, ControlOK, Stages, StageInv, Spawn, Await,
         FreshAgent
    <2>2. CASE SpawnFails
      BY <1>0, <2>2 DEF TypeOK, ControlOK, Stages, Verdicts, SpawnFails, End,
         Ended, OldClosed, FreshAgent
    <2>3. CASE Initialized
      BY <1>0, <2>3 DEF TypeOK, ControlOK, Stages, Verdicts, Initialized,
         Open, Await
    <2>4. CASE InitializeFails
      BY <1>0, <2>4 DEF TypeOK, ControlOK, Stages, Verdicts, InitializeFails,
         End, Ended, FreshAgent
    <2>5. CASE SendPrompt
      BY <1>0, <2>5 DEF TypeOK, ControlOK, Stages, StageInv, SendPrompt,
         Await
    <2>6. CASE PromptUnsent
      BY <1>0, <2>6 DEF TypeOK, ControlOK, Stages, Verdicts, PromptUnsent,
         Finish, End, Ended, Await, DropConnection
    <2>7. CASE OpenFails
      BY <1>0, <2>7 DEF TypeOK, ControlOK, Stages, Verdicts, OpenFails,
         OpenVerdict, End, Ended
    <2>8. CASE OpenTimesOut
      BY <1>0, <2>8 DEF TypeOK, ControlOK, Stages, Verdicts, OpenTimesOut,
         End, Ended
    <2>9. CASE PromptEnds
      <3>1. Ended(PromptVerdict(fut.is)) \in Verdicts
        BY <1>0, <2>9, PromptVerdicts DEF PromptEnds, Ended, Verdicts
      <3>2. PromptVerdict(fut.is) \in Verdicts
        BY <1>0, <2>9, PromptVerdicts DEF PromptEnds, Verdicts
      <3>3. /\ stage' \in {"idle", "closing", "recycling"}
            /\ verdict' \in {"none", PromptVerdict(fut.is)}
            /\ outcome' \in {outcome, Ended(PromptVerdict(fut.is))}
            /\ conn' \in {conn, "closed"}
            /\ UNCHANGED <<timer, canClose, reader, stopping, prompted,
                           agent>>
        BY <2>9 DEF PromptEnds, Finish, End, Await, DropConnection
      <3>. QED BY <1>0, <3>1, <3>2, <3>3
               DEF TypeOK, ControlOK, Stages, Verdicts
    <2>10. CASE PromptTimesOut
      BY <1>0, <2>10 DEF TypeOK, ControlOK, Stages, Verdicts, PromptTimesOut,
         Finish, End, Ended, Await, DropConnection
    <2>11. CASE CancelWaited
      BY <1>0, <2>11 DEF TypeOK, ControlOK, Stages, StageInv, CancelWaited,
         Finish, End, Ended, Await, DropConnection
    <2>12. CASE SessionClosed
      BY <1>0, <2>12 DEF TypeOK, ControlOK, Stages, Verdicts, SessionClosed,
         End, Ended
    <2>13. CASE Recycled
      BY <1>0, <2>13 DEF TypeOK, ControlOK, Stages, Verdicts, Recycled, End,
         Ended, FreshAgent
    <2>. QED BY <1>2, <2>1, <2>2, <2>3, <2>4, <2>5, <2>6, <2>7, <2>8, <2>9,
       <2>10, <2>11, <2>12, <2>13 DEF Execute
  <1>3. CASE Reader
    <2>1. ASSUME NEW i \in 1..Len(out), ReadReply(i)
          PROVE  ControlOK'
      BY <1>0, <2>1 DEF TypeOK, ControlOK, ReadReply
    <2>2. ASSUME NEW i \in 1..Len(out), ReadChunk(i)
          PROVE  ControlOK'
      BY <1>0, <2>2 DEF TypeOK, ControlOK, ReadChunk
    <2>3. CASE ReaderEnds
      <3>1. /\ reader' = FALSE
            /\ UNCHANGED <<stage, verdict, outcome, timer, canClose, stopping,
                           prompted, conn, agent>>
        BY <2>3 DEF ReaderEnds
      <3>. QED BY <1>0, <3>1 DEF TypeOK, ControlOK
    <2>. QED BY <1>3, <2>1, <2>2, <2>3 DEF Reader
  <1>4. CASE Agent
    BY <1>0, <1>4, AgentKeeps DEF TypeOK, ControlOK
  <1>5. CASE Stop
    BY <1>0, <1>5 DEF TypeOK, ControlOK, Stop, FreshAgent
  <1>6. ASSUME NEW c \in {"kill", "time"}, Cut(c)
        PROVE  ControlOK'
    BY <1>0, <1>6 DEF TypeOK, ControlOK, Stages, Verdicts, Cut, CutVerdict,
       CutStartup, End, Ended, OldClosed, FreshAgent, CutPlain, CutPrompt,
       IsRunning, CutToFinish, Finish, Await, DropConnection
  <1>. QED BY <1>1, <1>2, <1>3, <1>4, <1>5, <1>6 DEF Next

(* No step takes a number out of its range.                                 *)
LEMMA CountStep ==
  ASSUME AcpInv, Next
  PROVE  CountOK'
  <1>0. TypeOK
    BY DEF AcpInv
  <1>1. CASE Begin
    BY <1>0, <1>1 DEF TypeOK, CountOK, Begin, BeginCancelled, NextAttempt,
       BeginConnected, Open, BeginUnconnected
  <1>2. CASE Execute
    <2>1. CASE Spawn
      BY <1>0, <2>1 DEF TypeOK, CountOK, Spawn, FreshAgent
    <2>2. CASE SpawnFails
      BY <1>0, <2>2 DEF TypeOK, CountOK, SpawnFails, End, OldClosed,
         FreshAgent
    <2>3. CASE Initialized
      BY <1>0, <2>3 DEF TypeOK, CountOK, Initialized, Open
    <2>4. CASE InitializeFails
      BY <1>0, <2>4 DEF TypeOK, CountOK, InitializeFails, End, FreshAgent
    <2>5. CASE SendPrompt
      BY <1>0, <2>5 DEF TypeOK, CountOK, SendPrompt
    <2>6. CASE PromptUnsent
      BY <1>0, <2>6 DEF TypeOK, CountOK, PromptUnsent, Finish, End
    <2>7. CASE OpenFails
      BY <1>0, <2>7 DEF TypeOK, CountOK, OpenFails, End
    <2>8. CASE OpenTimesOut
      BY <1>0, <2>8 DEF TypeOK, CountOK, OpenTimesOut, End
    <2>9. CASE PromptEnds
      BY <1>0, <2>9 DEF TypeOK, CountOK, PromptEnds, Finish, End
    <2>10. CASE PromptTimesOut
      BY <1>0, <2>10 DEF TypeOK, CountOK, PromptTimesOut, Finish, End
    <2>11. CASE CancelWaited
      BY <1>0, <2>11 DEF TypeOK, CountOK, CancelWaited, Finish, End
    <2>12. CASE SessionClosed
      BY <1>0, <2>12 DEF TypeOK, CountOK, SessionClosed, End
    <2>13. CASE Recycled
      BY <1>0, <2>13 DEF TypeOK, CountOK, Recycled, End, FreshAgent
    <2>. QED BY <1>2, <2>1, <2>2, <2>3, <2>4, <2>5, <2>6, <2>7, <2>8, <2>9,
       <2>10, <2>11, <2>12, <2>13 DEF Execute
  <1>3. CASE Reader
    BY <1>0, <1>3 DEF TypeOK, CountOK, Reader, ReadReply, ReadChunk,
       ReaderEnds
  <1>4. CASE Agent
    <2>1. ASSUME NEW r \in Requests, AgentReplies(r)
          PROVE  CountOK'
      BY <1>0, <2>1 DEF TypeOK, CountOK, AgentReplies, AgentRest
    <2>2. ASSUME NEW a \in Attempts, AgentSpeaks(a)
          PROVE  CountOK'
      <3>1. /\ said[a] < MaxChunks /\ said' = [said EXCEPT ![a] = @ + 1]
            /\ UNCHANGED <<attempt, sid, count, strays, faults>>
        BY <2>2 DEF AgentSpeaks, AgentRest
      <3>2. said[a] \in 0..MaxChunks /\ said \in [Attempts -> 0..MaxChunks]
        BY <1>0 DEF TypeOK
      <3>3. said[a] + 1 \in 0..MaxChunks
        BY <3>1, <3>2
      <3>. QED BY <1>0, <3>1, <3>2, <3>3 DEF TypeOK, CountOK
    <2>3. CASE AgentBabbles
      BY <1>0, <2>3 DEF TypeOK, CountOK, AgentBabbles, AgentRest
    <2>4. CASE AgentDies
      BY <1>0, <2>4 DEF TypeOK, CountOK, AgentDies, AgentRest
    <2>5. CASE AgentReaped
      BY <1>0, <2>5 DEF TypeOK, CountOK, AgentReaped, AgentRest
    <2>. QED BY <1>4, <2>1, <2>2, <2>3, <2>4, <2>5 DEF Agent
  <1>5. CASE Stop
    BY <1>0, <1>5 DEF TypeOK, CountOK, Stop, FreshAgent
  <1>6. ASSUME NEW c \in {"kill", "time"}, Cut(c)
        PROVE  CountOK'
    BY <1>0, <1>6 DEF TypeOK, CountOK, Cut, CutStartup, End, OldClosed,
       FreshAgent, CutPlain, CutPrompt, CutToFinish, Finish
  <1>. QED BY <1>1, <1>2, <1>3, <1>4, <1>5, <1>6 DEF Next

(* Futures, requests, chunks and lines keep their types.                    *)
LEMMA DataStep ==
  ASSUME AcpInv, Next
  PROVE  DataOK'
  <1>0. TypeOK /\ StageInv
    BY DEF AcpInv
  <1>1. CASE Begin
    BY <1>0, <1>1 DEF TypeOK, DataOK, StageInv, Requests, Attempts, Awaited,
       Method, Begin, BeginCancelled, NextAttempt, BeginConnected, IsRunning,
       Open, Await, SendTo, NoReply, BeginUnconnected
  <1>2. CASE Execute
    <2>1. CASE Spawn
      BY <1>0, <2>1 DEF TypeOK, DataOK, Spawn, Await, FreshAgent, NoReply
    <2>2. CASE SpawnFails
      BY <1>0, <2>2 DEF TypeOK, DataOK, SpawnFails, End, OldClosed,
         FreshAgent, NoReply
    <2>3. CASE Initialized
      BY <1>0, <2>3 DEF TypeOK, DataOK, StageInv, Requests, Attempts,
         Initialized, Open, Await, SendTo, NoReply
    <2>4. CASE InitializeFails
      BY <1>0, <2>4 DEF TypeOK, DataOK, InitializeFails, End, FreshAgent,
         NoReply
    <2>5. CASE SendPrompt
      BY <1>0, <2>5 DEF TypeOK, DataOK, StageInv, Requests, Attempts,
         SendPrompt, Await, SendTo, NoReply
    <2>6. CASE PromptUnsent
      BY <1>0, <2>6 DEF TypeOK, DataOK, StageInv, Requests, Attempts,
         PromptUnsent, Finish, End, Await, SendTo, DropConnection, IsRunning,
         NoReply
    <2>7. CASE OpenFails
      BY <1>0, <2>7 DEF TypeOK, DataOK, OpenFails, End, NoReply
    <2>8. CASE OpenTimesOut
      BY <1>0, <2>8 DEF TypeOK, DataOK, OpenTimesOut, End, NoReply
    <2>9. CASE PromptEnds
      BY <1>0, <2>9 DEF TypeOK, DataOK, StageInv, Requests, Attempts,
         PromptEnds, Finish, End, Await, SendTo, DropConnection, NoReply
    <2>10. CASE PromptTimesOut
      BY <1>0, <2>10 DEF TypeOK, DataOK, StageInv, Requests, Attempts,
         PromptTimesOut, Finish, End, Await, SendTo, DropConnection, NoReply
    <2>11. CASE CancelWaited
      BY <1>0, <2>11 DEF TypeOK, DataOK, StageInv, Requests, Attempts,
         CancelWaited, Finish, End, Await, SendTo, DropConnection, NoReply
    <2>12. CASE SessionClosed
      BY <1>0, <2>12 DEF TypeOK, DataOK, SessionClosed, End, NoReply
    <2>13. CASE Recycled
      BY <1>0, <2>13 DEF TypeOK, DataOK, Recycled, End, FreshAgent, NoReply
    <2>. QED BY <1>2, <2>1, <2>2, <2>3, <2>4, <2>5, <2>6, <2>7, <2>8, <2>9,
       <2>10, <2>11, <2>12, <2>13 DEF Execute
  <1>3. CASE Reader
    <2>1. ASSUME NEW i \in 1..Len(out), ReadReply(i)
          PROVE  DataOK'
      <3>1. out[i].req \in Requests /\ out[i].says \in Replies
        BY <1>0, <2>1, LineRead, MessageTypes DEF ReadReply
      <3>2. out' \in Seq(Message)
        BY <1>0, <2>1, LineRead DEF ReadReply
      <3>3. [is |-> out[i].says, of |-> out[i].req[1]] \in
              [is : {"wait", "closed", "bad", "long"} \cup Replies,
               of : 0..MaxAttempts]
        BY <3>1 DEF Requests, Attempts
      <3>4. /\ fut' \in {fut, [is |-> out[i].says, of |-> out[i].req[1]]}
            /\ pending' \subseteq pending /\ UNCHANGED <<jobs, parts>>
        BY <2>1 DEF ReadReply
      <3>. QED BY <1>0, <3>2, <3>3, <3>4 DEF TypeOK, DataOK
    <2>2. ASSUME NEW i \in 1..Len(out), ReadChunk(i)
          PROVE  DataOK'
      <3>1. <<out[i].session, out[i].no>> \in Chunks
        BY <1>0, <2>2, LineRead, MessageTypes DEF ReadChunk
      <3>2. out' \in Seq(Message)
        BY <1>0, <2>2, LineRead DEF ReadChunk
      <3>3. /\ parts' \subseteq parts \cup {<<out[i].session, out[i].no>>}
            /\ UNCHANGED <<fut, pending, jobs>>
        BY <2>2 DEF ReadChunk
      <3>. QED BY <1>0, <3>1, <3>2, <3>3 DEF TypeOK, DataOK
    <2>3. CASE ReaderEnds
      BY <1>0, <2>3, EmptySeq DEF TypeOK, DataOK, ReaderEnds, FailPending
    <2>. QED BY <1>3, <2>1, <2>2, <2>3 DEF Reader
  <1>4. CASE Agent
    <2>1. ASSUME NEW r \in Requests, AgentReplies(r)
          PROVE  DataOK'
      <3>1. PICK x \in Replies : Write(Reply(r, x))
        BY <2>1 DEF AgentReplies
      <3>2. Reply(r, x) \in Message
        BY DEF Message
      <3>3. out' \in Seq(Message)
        BY <1>0, <3>1, <3>2, LineWritten
      <3>4. jobs' \subseteq jobs /\ UNCHANGED <<fut, pending, parts>>
        BY <2>1 DEF AgentReplies, AgentRest
      <3>. QED BY <1>0, <3>3, <3>4 DEF TypeOK, DataOK
    <2>2. ASSUME NEW a \in Attempts, AgentSpeaks(a)
          PROVE  DataOK'
      <3>1. out' \in Seq(Message)
        BY <1>0, <2>2, ChunkSaid, LineWritten DEF AgentSpeaks
      <3>2. UNCHANGED <<fut, pending, jobs, parts>>
        BY <2>2 DEF AgentSpeaks, AgentRest
      <3>. QED BY <1>0, <3>1, <3>2 DEF TypeOK, DataOK
    <2>3. CASE AgentBabbles
      <3>1. BadLine \in Message
        BY DEF Message
      <3>2. out' \in Seq(Message)
        BY <1>0, <2>3, <3>1, LineWritten DEF AgentBabbles
      <3>3. UNCHANGED <<fut, pending, jobs, parts>>
        BY <2>3 DEF AgentBabbles, AgentRest
      <3>. QED BY <1>0, <3>2, <3>3 DEF TypeOK, DataOK
    <2>4. CASE AgentDies
      BY <1>0, <2>4 DEF TypeOK, DataOK, AgentDies, AgentRest
    <2>5. CASE AgentReaped
      BY <1>0, <2>5 DEF TypeOK, DataOK, AgentReaped, AgentRest
    <2>. QED BY <1>4, <2>1, <2>2, <2>3, <2>4, <2>5 DEF Agent
  <1>5. CASE Stop
    BY <1>0, <1>5, EmptySeq DEF TypeOK, DataOK, Stop, FreshAgent
  <1>6. ASSUME NEW c \in {"kill", "time"}, Cut(c)
        PROVE  DataOK'
    <2>1. CASE CutStartup(CutVerdict(c))
      <3>1. out' \in Seq(Message)
        BY <1>0, <2>1, EmptySeq
           DEF TypeOK, CutStartup, OldClosed, FreshAgent
      <3>2. /\ fut' = NoReply /\ pending' \in {pending, {}}
            /\ jobs' \in {jobs, {}} /\ UNCHANGED parts
        BY <1>6, <2>1 DEF Cut, CutStartup, End, OldClosed, FreshAgent
      <3>. QED BY <1>0, <3>1, <3>2 DEF TypeOK, DataOK, NoReply
    <2>2. CASE CutPlain(CutVerdict(c))
      BY <1>0, <1>6, <2>2 DEF TypeOK, DataOK, CutPlain, End, NoReply, Cut
    <2>3. CASE CutPrompt(CutVerdict(c))
      BY <1>0, <1>6, <2>3 DEF TypeOK, DataOK, CutPrompt, Cut
    <2>4. CASE CutToFinish(CutVerdict(c))
      BY <1>0, <1>6, <2>4 DEF TypeOK, DataOK, StageInv, Requests, Attempts,
         CutToFinish, Finish, End, Await, SendTo, DropConnection, NoReply,
         Cut
    <2>. QED BY <1>6, <2>1, <2>2, <2>3, <2>4 DEF Cut
  <1>. QED BY <1>1, <1>2, <1>3, <1>4, <1>5, <1>6 DEF Next

(* The coroutine talks only on a connection that is open.                   *)
LEMMA StageStep ==
  ASSUME AcpInv, Next
  PROVE  StageInv'
  <1>0. TypeOK /\ StageInv /\ AgentReachable
    BY DEF AcpInv
  <1>1. CASE Begin
    BY <1>0, <1>1 DEF TypeOK, StageInv, Talking, Begin, BeginCancelled,
       NextAttempt, BeginConnected, IsRunning, Open, Await, BeginUnconnected
  <1>2. CASE Execute
    <2>1. CASE Spawn
      BY <1>0, <2>1 DEF StageInv, Talking, Spawn, Await
    <2>2. CASE SpawnFails
      BY <1>0, <2>2 DEF StageInv, Talking, SpawnFails, End
    <2>3. CASE Initialized
      BY <1>0, <2>3 DEF StageInv, Initialized, Open, Await
    <2>4. CASE InitializeFails
      BY <1>0, <2>4 DEF StageInv, Talking, InitializeFails, End
    <2>5. CASE SendPrompt
      BY <1>0, <2>5 DEF StageInv, SendPrompt, IsRunning, Await
    <2>6. CASE PromptUnsent
      BY <1>0, <2>6 DEF StageInv, Before, Talking, PromptUnsent, Finish, End,
         Await
    <2>7. CASE OpenFails
      BY <1>0, <2>7 DEF StageInv, Talking, OpenFails, End
    <2>8. CASE OpenTimesOut
      BY <1>0, <2>8 DEF StageInv, Talking, OpenTimesOut, End
    <2>9. CASE PromptEnds
      BY <1>0, <2>9 DEF StageInv, Before, Talking, PromptEnds, Finish, End,
         Await
    <2>10. CASE PromptTimesOut
      BY <1>0, <2>10 DEF StageInv, Before, Talking, PromptTimesOut, Finish,
         End, Await
    <2>11. CASE CancelWaited
      BY <1>0, <2>11 DEF StageInv, Before, Talking, CancelWaited, Finish,
         End, Await
    <2>12. CASE SessionClosed
      BY <1>0, <2>12 DEF StageInv, Talking, SessionClosed, End
    <2>13. CASE Recycled
      BY <1>0, <2>13 DEF StageInv, Talking, Recycled, End
    <2>. QED BY <1>2, <2>1, <2>2, <2>3, <2>4, <2>5, <2>6, <2>7, <2>8, <2>9,
       <2>10, <2>11, <2>12, <2>13 DEF Execute
  <1>3. CASE Reader
    BY <1>0, <1>3 DEF StageInv, Reader, ReadReply, ReadChunk, ReaderEnds
  <1>4. CASE Agent
    BY <1>0, <1>4, AgentKeeps DEF StageInv
  <1>5. CASE Stop
    BY <1>0, <1>5 DEF StageInv, Talking, Stop
  <1>6. ASSUME NEW c \in {"kill", "time"}, Cut(c)
        PROVE  StageInv'
    BY <1>0, <1>6 DEF StageInv, Before, Talking, Cut, CutVerdict, CutStartup,
       End, CutPlain, CutPrompt, CutToFinish, Finish, Await
  <1>. QED BY <1>1, <1>2, <1>3, <1>4, <1>5, <1>6 DEF Next

(* A reply that is taken for session/new names this attempt's session.      *)
LEMMA ReplyIsOwn ==
  ASSUME TypeOK, StageInv, OwnInv, NEW i \in 1..Len(out), ReadReply(i)
  PROVE  OwnInv'
  <1>1. CASE Waits /\ Awaited \in Resolves(out[i].req)
    <2>1. /\ out[i].req = <<attempt, Method[stage]>>
          /\ fut'.of = out[i].req[1] /\ UNCHANGED <<stage, attempt, sid>>
      BY <1>1 DEF ReadReply, Awaited, Resolves
    <2>. QED BY <2>1 DEF OwnInv, SessionIsOwn
  <1>2. CASE ~(Waits /\ Awaited \in Resolves(out[i].req))
    BY <1>2 DEF ReadReply, OwnInv, SessionIsOwn
  <1>. QED BY <1>1, <1>2

(* The session of a prompt is the one this attempt asked for.               *)
LEMMA OwnStep ==
  ASSUME AcpInv, Next
  PROVE  OwnInv'
  <1>0. TypeOK /\ StageInv /\ OwnInv
    BY DEF AcpInv
  <1>1. CASE Begin
    BY <1>0, <1>1 DEF OwnInv, SessionIsOwn, Replies, Begin, BeginCancelled,
       NextAttempt, BeginConnected, Open, Await, NoReply, BeginUnconnected
  <1>2. CASE Execute
    <2>1. CASE Spawn
      BY <1>0, <2>1 DEF OwnInv, SessionIsOwn, Spawn, Await
    <2>2. CASE SpawnFails
      BY <1>0, <2>2 DEF OwnInv, SessionIsOwn, SpawnFails, End
    <2>3. CASE Initialized
      BY <1>0, <2>3 DEF OwnInv, SessionIsOwn, Replies, Initialized, Open,
         Await, NoReply
    <2>4. CASE InitializeFails
      BY <1>0, <2>4 DEF OwnInv, SessionIsOwn, InitializeFails, End
    <2>5. CASE SendPrompt
      BY <1>0, <2>5 DEF OwnInv, SessionIsOwn, Replies, SendPrompt, Await
    <2>6. CASE PromptUnsent
      BY <1>0, <2>6 DEF OwnInv, SessionIsOwn, PromptUnsent, Finish, End,
         Await
    <2>7. CASE OpenFails
      BY <1>0, <2>7 DEF OwnInv, SessionIsOwn, OpenFails, End
    <2>8. CASE OpenTimesOut
      BY <1>0, <2>8 DEF OwnInv, SessionIsOwn, OpenTimesOut, End
    <2>9. CASE PromptEnds
      BY <1>0, <2>9 DEF OwnInv, SessionIsOwn, PromptEnds, Finish, End, Await
    <2>10. CASE PromptTimesOut
      BY <1>0, <2>10 DEF OwnInv, SessionIsOwn, PromptTimesOut, Finish, End,
         Await
    <2>11. CASE CancelWaited
      BY <1>0, <2>11 DEF OwnInv, SessionIsOwn, CancelWaited, Finish, End,
         Await
    <2>12. CASE SessionClosed
      BY <1>0, <2>12 DEF OwnInv, SessionIsOwn, SessionClosed, End
    <2>13. CASE Recycled
      BY <1>0, <2>13 DEF OwnInv, SessionIsOwn, Recycled, End
    <2>. QED BY <1>2, <2>1, <2>2, <2>3, <2>4, <2>5, <2>6, <2>7, <2>8, <2>9,
       <2>10, <2>11, <2>12, <2>13 DEF Execute
  <1>3. CASE Reader
    <2>1. ASSUME NEW i \in 1..Len(out), ReadReply(i)
          PROVE  OwnInv'
      BY <1>0, <2>1, ReplyIsOwn
    <2>2. ASSUME NEW i \in 1..Len(out), ReadChunk(i)
          PROVE  OwnInv'
      BY <1>0, <2>2 DEF OwnInv, SessionIsOwn, ReadChunk
    <2>3. CASE ReaderEnds
      BY <1>0, <2>3 DEF OwnInv, SessionIsOwn, Replies, ReaderEnds,
         FailPending
    <2>. QED BY <1>3, <2>1, <2>2, <2>3 DEF Reader
  <1>4. CASE Agent
    BY <1>0, <1>4, AgentKeeps DEF OwnInv, SessionIsOwn
  <1>5. CASE Stop
    BY <1>0, <1>5 DEF OwnInv, SessionIsOwn, Stop
  <1>6. ASSUME NEW c \in {"kill", "time"}, Cut(c)
        PROVE  OwnInv'
    BY <1>0, <1>6 DEF OwnInv, SessionIsOwn, Cut, CutStartup, End, CutPlain,
       CutPrompt, CutToFinish, Finish, Await
  <1>. QED BY <1>1, <1>2, <1>3, <1>4, <1>5, <1>6 DEF Next

(* A reply that is read wakes its waiter or leaves its future alone.        *)
LEMMA ReplyAwaited ==
  ASSUME TypeOK, StageInv, NoLostFuture, NEW i \in 1..Len(out), ReadReply(i)
  PROVE  NoLostFuture'
  <1>1. CASE Waits /\ Awaited \in Resolves(out[i].req)
    <2>1. /\ out[i] \in Message /\ out[i].type = "reply"
          /\ fut'.is = out[i].says
      BY <1>1, LineRead DEF ReadReply
    <2>2. fut'.is # "wait"
      BY <2>1, MessageTypes DEF Replies
    <2>. QED BY <2>2 DEF NoLostFuture, Waits
  <1>2. CASE ~(Waits /\ Awaited \in Resolves(out[i].req))
    BY <1>2 DEF ReadReply, NoLostFuture, Waits, Awaited, Resolves
  <1>. QED BY <1>1, <1>2

(* A future that is awaited stays in _pending until it is resolved.         *)
LEMMA FutureStep ==
  ASSUME AcpInv, Next
  PROVE  NoLostFuture'
  <1>0. TypeOK /\ StageInv /\ NoLostFuture
    BY DEF AcpInv
  <1>1. CASE Begin
    BY <1>0, <1>1 DEF NoLostFuture, Waits, Awaited, Method, Begin,
       BeginCancelled, NextAttempt, BeginConnected, Open, Await, SendTo,
       BeginUnconnected
  <1>2. CASE Execute
    <2>1. CASE Spawn
      BY <1>0, <2>1 DEF NoLostFuture, Waits, Method, Spawn, Await
    <2>2. CASE SpawnFails
      BY <1>0, <2>2 DEF NoLostFuture, Waits, Method, SpawnFails, End
    <2>3. CASE Initialized
      BY <1>0, <2>3 DEF NoLostFuture, Waits, Awaited, Method, Initialized,
         Open, Await, SendTo
    <2>4. CASE InitializeFails
      BY <1>0, <2>4 DEF NoLostFuture, Waits, Method, InitializeFails, End
    <2>5. CASE SendPrompt
      BY <1>0, <2>5 DEF NoLostFuture, Awaited, Method, SendPrompt, Await,
         SendTo
    <2>6. CASE PromptUnsent
      BY <1>0, <2>6 DEF NoLostFuture, Waits, Awaited, Method, PromptUnsent,
         Finish, End, Await, SendTo
    <2>7. CASE OpenFails
      BY <1>0, <2>7 DEF NoLostFuture, Waits, Method, OpenFails, End
    <2>8. CASE OpenTimesOut
      BY <1>0, <2>8 DEF NoLostFuture, Waits, Method, OpenTimesOut, End
    <2>9. CASE PromptEnds
      BY <1>0, <2>9 DEF NoLostFuture, Waits, Awaited, Method, PromptEnds,
         Finish, End, Await, SendTo
    <2>10. CASE PromptTimesOut
      BY <1>0, <2>10 DEF NoLostFuture, Waits, Awaited, Method,
         PromptTimesOut, Finish, End, Await, SendTo
    <2>11. CASE CancelWaited
      BY <1>0, <2>11 DEF NoLostFuture, Waits, Awaited, Method, CancelWaited,
         Finish, End, Await, SendTo
    <2>12. CASE SessionClosed
      BY <1>0, <2>12 DEF NoLostFuture, Waits, Method, SessionClosed, End
    <2>13. CASE Recycled
      BY <1>0, <2>13 DEF NoLostFuture, Waits, Method, Recycled, End
    <2>. QED BY <1>2, <2>1, <2>2, <2>3, <2>4, <2>5, <2>6, <2>7, <2>8, <2>9,
       <2>10, <2>11, <2>12, <2>13 DEF Execute
  <1>3. CASE Reader
    <2>1. ASSUME NEW i \in 1..Len(out), ReadReply(i)
          PROVE  NoLostFuture'
      BY <1>0, <2>1, ReplyAwaited
    <2>2. ASSUME NEW i \in 1..Len(out), ReadChunk(i)
          PROVE  NoLostFuture'
      BY <1>0, <2>2 DEF NoLostFuture, Waits, Awaited, ReadChunk
    <2>3. CASE ReaderEnds
      BY <1>0, <2>3 DEF NoLostFuture, Waits, ReaderEnds, FailPending
    <2>. QED BY <1>3, <2>1, <2>2, <2>3 DEF Reader
  <1>4. CASE Agent
    BY <1>0, <1>4, AgentKeeps DEF NoLostFuture, Waits, Awaited
  <1>5. CASE Stop
    BY <1>0, <1>5 DEF NoLostFuture, Waits, Method, Stop
  <1>6. ASSUME NEW c \in {"kill", "time"}, Cut(c)
        PROVE  NoLostFuture'
    BY <1>0, <1>6 DEF NoLostFuture, Waits, Awaited, Method, Cut, CutStartup,
       End, CutPlain, CutPrompt, CutToFinish, Finish, Await, SendTo
  <1>. QED BY <1>1, <1>2, <1>3, <1>4, <1>5, <1>6 DEF Next

(* No end of a prompt is a retry.                                           *)
LEMMA PromptEndsOnce ==
  ASSUME TypeOK, StageInv, PromptInv, PromptEnds
  PROVE  PromptInv'
  <1>1. /\ PromptVerdict(fut.is) # "retry"
        /\ Ended(PromptVerdict(fut.is)) # "retry" /\ UNCHANGED prompted
    BY PromptVerdicts DEF PromptEnds, Ended
  <1>2. stage' \notin Before /\ verdict' # "retry" /\ outcome' # "retry"
    BY <1>1 DEF PromptEnds, Finish, Await, End, StageInv, Before
  <1>. QED BY <1>2 DEF PromptInv, PromptNotRepeated

(* No path leads from a prompt to a retry.                                  *)
LEMMA PromptStep ==
  ASSUME AcpInv, Next
  PROVE  PromptInv'
  <1>0. TypeOK /\ StageInv /\ PromptInv
    BY DEF AcpInv
  <1>1. CASE Begin
    BY <1>0, <1>1 DEF PromptInv, PromptNotRepeated, Begin, BeginCancelled,
       NextAttempt, BeginConnected, BeginUnconnected
  <1>2. CASE Execute
    <2>1. CASE Spawn
      BY <1>0, <2>1 DEF PromptInv, PromptNotRepeated, Before, Spawn
    <2>2. CASE SpawnFails
      BY <1>0, <2>2 DEF PromptInv, PromptNotRepeated, Before, SpawnFails
    <2>3. CASE Initialized
      BY <1>0, <2>3 DEF PromptInv, PromptNotRepeated, Before, Initialized
    <2>4. CASE InitializeFails
      BY <1>0, <2>4 DEF PromptInv, PromptNotRepeated, Before, InitializeFails
    <2>5. CASE SendPrompt
      BY <1>0, <2>5 DEF StageInv, PromptInv, PromptNotRepeated, Before,
         SendPrompt, Await
    <2>6. CASE PromptUnsent
      BY <1>0, <2>6 DEF PromptInv, PromptNotRepeated, Before, PromptUnsent
    <2>7. CASE OpenFails
      BY <1>0, <2>7 DEF PromptInv, PromptNotRepeated, Before, OpenFails
    <2>8. CASE OpenTimesOut
      BY <1>0, <2>8 DEF PromptInv, PromptNotRepeated, Before, OpenTimesOut
    <2>9. CASE PromptEnds
      BY <1>0, <2>9, PromptEndsOnce
    <2>10. CASE PromptTimesOut
      BY <1>0, <2>10 DEF PromptInv, PromptNotRepeated, Before,
         PromptTimesOut, Finish, End, Ended, Await
    <2>11. CASE CancelWaited
      BY <1>0, <2>11 DEF PromptInv, PromptNotRepeated, Before, CancelWaited,
         Finish, End, Ended, Await
    <2>12. CASE SessionClosed
      BY <1>0, <2>12 DEF PromptInv, PromptNotRepeated, Before, SessionClosed,
         End, Ended
    <2>13. CASE Recycled
      BY <1>0, <2>13 DEF PromptInv, PromptNotRepeated, Before, Recycled, End,
         Ended
    <2>. QED BY <1>2, <2>1, <2>2, <2>3, <2>4, <2>5, <2>6, <2>7, <2>8, <2>9,
       <2>10, <2>11, <2>12, <2>13 DEF Execute
  <1>3. CASE Reader
    BY <1>0, <1>3 DEF PromptInv, PromptNotRepeated, Reader, ReadReply,
       ReadChunk, ReaderEnds
  <1>4. CASE Agent
    BY <1>0, <1>4, AgentKeeps DEF PromptInv, PromptNotRepeated
  <1>5. CASE Stop
    BY <1>0, <1>5 DEF PromptInv, PromptNotRepeated, Stop
  <1>6. ASSUME NEW c \in {"kill", "time"}, Cut(c)
        PROVE  PromptInv'
    BY <1>0, <1>6 DEF PromptInv, PromptNotRepeated, Before, Cut, CutVerdict,
       CutStartup, End, Ended, CutPlain, CutPrompt, CutToFinish, Finish,
       Await
  <1>. QED BY <1>1, <1>2, <1>3, <1>4, <1>5, <1>6 DEF Next

(* A connection with its last session is given up before the next attempt.  *)
LEMMA CountedStep ==
  ASSUME AcpInv, Next
  PROVE  CountInv'
  <1>0. TypeOK /\ StageInv /\ CountInv
    BY DEF AcpInv
  <1>1. CASE Begin
    BY <1>0, <1>1 DEF CountInv, Begin, BeginCancelled, NextAttempt,
       BeginConnected, BeginUnconnected
  <1>2. CASE Execute
    <2>1. CASE Spawn
      BY <1>0, <2>1 DEF CountInv, Spawn
    <2>2. CASE SpawnFails
      BY <1>0, <2>2 DEF CountInv, SpawnFails, OldClosed
    <2>3. CASE Initialized
      BY <1>0, <2>3 DEF CountInv, Initialized
    <2>4. CASE InitializeFails
      BY <1>0, <2>4 DEF CountInv, InitializeFails
    <2>5. CASE SendPrompt
      BY <1>0, <2>5 DEF TypeOK, CountInv, SendPrompt, IsRunning, Await
    <2>6. CASE PromptUnsent
      BY <1>0, <2>6 DEF TypeOK, StageInv, CountInv, Talking, PromptUnsent,
         Finish, DropConnection, RecycleDue
    <2>7. CASE OpenFails
      BY <1>0, <2>7 DEF CountInv, OpenFails
    <2>8. CASE OpenTimesOut
      BY <1>0, <2>8 DEF CountInv, OpenTimesOut
    <2>9. CASE PromptEnds
      BY <1>0, <2>9 DEF CountInv, PromptEnds, Finish, DropConnection,
         RecycleDue
    <2>10. CASE PromptTimesOut
      BY <1>0, <2>10 DEF CountInv, PromptTimesOut, Finish, DropConnection,
         RecycleDue
    <2>11. CASE CancelWaited
      BY <1>0, <2>11 DEF CountInv, CancelWaited, Finish, DropConnection,
         RecycleDue
    <2>12. CASE SessionClosed
      BY <1>0, <2>12 DEF CountInv, SessionClosed
    <2>13. CASE Recycled
      BY <1>0, <2>13 DEF CountInv, Recycled
    <2>. QED BY <1>2, <2>1, <2>2, <2>3, <2>4, <2>5, <2>6, <2>7, <2>8, <2>9,
       <2>10, <2>11, <2>12, <2>13 DEF Execute
  <1>3. CASE Reader
    BY <1>0, <1>3 DEF CountInv, Reader, ReadReply, ReadChunk, ReaderEnds
  <1>4. CASE Agent
    BY <1>0, <1>4, AgentKeeps DEF CountInv
  <1>5. CASE Stop
    BY <1>0, <1>5 DEF CountInv, Stop
  <1>6. ASSUME NEW c \in {"kill", "time"}, Cut(c)
        PROVE  CountInv'
    BY <1>0, <1>6 DEF CountInv, Cut, CutStartup, OldClosed, CutPlain,
       CutPrompt, CutToFinish, Finish, DropConnection, RecycleDue
  <1>. QED BY <1>1, <1>2, <1>3, <1>4, <1>5, <1>6 DEF Next

(* No agent is left that no connection refers to.                           *)
LEMMA ReachableStep ==
  ASSUME AcpInv, Next
  PROVE  AgentReachable'
  <1>0. TypeOK /\ StageInv /\ AgentReachable
    BY DEF AcpInv
  <1>1. CASE Begin
    BY <1>0, <1>1 DEF AgentReachable, Begin, BeginCancelled, NextAttempt,
       BeginConnected, BeginUnconnected
  <1>2. CASE Execute
    <2>1. CASE Spawn
      BY <1>0, <2>1 DEF AgentReachable, Spawn, Await
    <2>2. CASE SpawnFails
      BY <1>0, <2>2 DEF AgentReachable, SpawnFails, OldClosed, FreshAgent
    <2>3. CASE Initialized
      BY <1>0, <2>3 DEF AgentReachable, Initialized
    <2>4. CASE InitializeFails
      BY <1>0, <2>4 DEF AgentReachable, InitializeFails, FreshAgent
    <2>5. CASE SendPrompt
      BY <1>0, <2>5 DEF AgentReachable, SendPrompt
    <2>6. CASE PromptUnsent
      BY <1>0, <2>6 DEF AgentReachable, PromptUnsent, Finish, DropConnection
    <2>7. CASE OpenFails
      BY <1>0, <2>7 DEF AgentReachable, OpenFails
    <2>8. CASE OpenTimesOut
      BY <1>0, <2>8 DEF AgentReachable, OpenTimesOut
    <2>9. CASE PromptEnds
      BY <1>0, <2>9 DEF AgentReachable, PromptEnds, Finish, DropConnection
    <2>10. CASE PromptTimesOut
      BY <1>0, <2>10 DEF AgentReachable, PromptTimesOut, Finish,
         DropConnection
    <2>11. CASE CancelWaited
      BY <1>0, <2>11 DEF AgentReachable, CancelWaited, Finish, DropConnection
    <2>12. CASE SessionClosed
      BY <1>0, <2>12 DEF AgentReachable, SessionClosed
    <2>13. CASE Recycled
      BY <1>0, <2>13 DEF AgentReachable, Recycled, FreshAgent
    <2>. QED BY <1>2, <2>1, <2>2, <2>3, <2>4, <2>5, <2>6, <2>7, <2>8, <2>9,
       <2>10, <2>11, <2>12, <2>13 DEF Execute
  <1>3. CASE Reader
    BY <1>0, <1>3 DEF AgentReachable, Reader, ReadReply, ReadChunk,
       ReaderEnds
  <1>4. CASE Agent
    BY <1>0, <1>4, AgentKeeps DEF AgentReachable
  <1>5. CASE Stop
    BY <1>0, <1>5 DEF AgentReachable, Stop, FreshAgent
  <1>6. ASSUME NEW c \in {"kill", "time"}, Cut(c)
        PROVE  AgentReachable'
    BY <1>0, <1>6 DEF AgentReachable, Cut, CutStartup, OldClosed, FreshAgent,
       CutPlain, CutPrompt, CutToFinish, Finish, DropConnection
  <1>. QED BY <1>1, <1>2, <1>3, <1>4, <1>5, <1>6 DEF Next

(* The agent knows nothing of an attempt that begins.                       *)
LEMMA BeginSilent ==
  ASSUME TypeOK, StageInv, SilentInv, Begin
  PROVE  SilentInv'
  <1>1. /\ attempt' = attempt + 1 /\ attempt \in Nat
        /\ UNCHANGED <<said, out>>
        /\ jobs' \subseteq jobs \cup {<<attempt', "new">>}
    BY DEF TypeOK, Begin, BeginCancelled, BeginConnected, BeginUnconnected,
       NextAttempt, Open, SendTo
  <1>2. ASSUME NEW a \in Attempts, a > attempt' \/ a = attempt'
        PROVE  Unknown(a)'
    <2>1. a > attempt
      BY <1>1, <1>2 DEF Attempts
    <2>2. Unknown(a)
      BY <2>1 DEF SilentInv
    <2>. QED BY <1>1, <2>2 DEF Unknown
  <1>. QED BY <1>2 DEF SilentInv

(* The prompt goes out for this attempt only.                               *)
LEMMA SendSilent ==
  ASSUME TypeOK, StageInv, SilentInv, SendPrompt
  PROVE  SilentInv'
  <1>1. /\ stage' = "prompting" /\ attempt \in Nat
        /\ UNCHANGED <<attempt, said, out>>
        /\ jobs' \subseteq jobs \cup {<<attempt, "prompt">>}
    BY DEF TypeOK, SendPrompt, Await, SendTo
  <1>2. ASSUME NEW a \in Attempts, a > attempt
        PROVE  Unknown(a)'
    <2>1. Unknown(a) /\ a # attempt
      BY <1>1, <1>2 DEF SilentInv, Attempts
    <2>. QED BY <1>1, <2>1 DEF Unknown
  <1>. QED BY <1>1, <1>2 DEF SilentInv, Before

(* What is read was there before. *)
LEMMA SilentRead ==
  ASSUME TypeOK, SilentInv, NEW i \in 1..Len(out), NextLine(i),
         out' = RemoveAt(out, i),
         UNCHANGED <<stage, attempt, said, jobs>>
  PROVE  SilentInv'
  <1>1. \A j \in 1..Len(out') : j + 1 \in 1..Len(out) /\ out'[j] = out[j + 1]
    BY LineRead
  <1>2. \A a \in Attempts : Unknown(a) => Unknown(a)'
    BY <1>1 DEF Unknown
  <1>. QED BY <1>2 DEF SilentInv

(* A line that is written tells nothing of a prompt unless it answers it. *)
LEMMA SilentWrite ==
  ASSUME TypeOK, NEW a \in Attempts, Unknown(a), NEW m \in Message, Write(m),
         m.type = "reply" => m.req # <<a, "prompt">>,
         said'[a] = said[a], <<a, "prompt">> \notin jobs'
  PROVE  Unknown(a)'
  <1>1. CASE reader
    <2>1. \A i \in 1..Len(out') :
            (i \in 1..Len(out) /\ out'[i] = out[i]) \/ out'[i] = m
      BY <1>1, LineWritten
    <2>. QED BY <2>1 DEF Unknown
  <1>2. CASE ~reader
    BY <1>2, LineWritten DEF Unknown
  <1>. QED BY <1>1, <1>2

(* The agent replies to what it has got.                                    *)
LEMMA ReplySilent ==
  ASSUME TypeOK, StageInv, SilentInv, NEW r \in Requests, AgentReplies(r)
  PROVE  SilentInv'
  <1>1. PICK x \in Replies : Write(Reply(r, x))
    BY DEF AgentReplies
  <1>2. /\ r \in jobs /\ jobs' = jobs \ {r}
        /\ UNCHANGED <<stage, attempt, said>>
    BY DEF AgentReplies, AgentRest
  <1>3. Reply(r, x) \in Message /\ Reply(r, x).req = r
    BY DEF Message, Reply
  <1>4. ASSUME NEW a \in Attempts, Unknown(a)
        PROVE  Unknown(a)'
    BY <1>1, <1>2, <1>3, <1>4, SilentWrite DEF Unknown
  <1>. QED BY <1>2, <1>4 DEF SilentInv

(* The agent speaks while the prompt runs.                                  *)
LEMMA ChunkSilent ==
  ASSUME TypeOK, StageInv, SilentInv, NEW b \in Attempts, AgentSpeaks(b)
  PROVE  SilentInv'
  <1>1. /\ <<b, "prompt">> \in jobs /\ said[b] < MaxChunks
        /\ said' = [said EXCEPT ![b] = @ + 1]
        /\ Write(Chunk(b, said[b] + 1)) /\ UNCHANGED <<stage, attempt, jobs>>
    BY DEF AgentSpeaks, AgentRest
  <1>2. /\ Chunk(b, said[b] + 1) \in Message
        /\ Chunk(b, said[b] + 1).type = "chunk"
    BY <1>1, ChunkSaid DEF Chunk
  <1>3. \A a \in Attempts : a # b => said'[a] = said[a]
    BY <1>1 DEF TypeOK
  <1>4. ASSUME NEW a \in Attempts, Unknown(a)
        PROVE  Unknown(a)'
    <2>1. a # b /\ <<a, "prompt">> \notin jobs'
      BY <1>1, <1>4 DEF Unknown
    <2>. QED BY <1>1, <1>2, <1>3, <1>4, <2>1, SilentWrite
  <1>. QED BY <1>1, <1>4 DEF SilentInv

(* An illegal line is not a reply.                                          *)
LEMMA BabbleSilent ==
  ASSUME TypeOK, StageInv, SilentInv, AgentBabbles
  PROVE  SilentInv'
  <1>1. /\ Write(BadLine) /\ UNCHANGED <<stage, attempt, said, jobs>>
        /\ BadLine \in Message /\ BadLine.type = "bad"
    BY DEF AgentBabbles, AgentRest, Message, BadLine
  <1>2. ASSUME NEW a \in Attempts, Unknown(a)
        PROVE  Unknown(a)'
    BY <1>1, <1>2, SilentWrite DEF Unknown
  <1>. QED BY <1>1, <1>2 DEF SilentInv

(* Nothing is heard of a prompt that has not gone out.                      *)
LEMMA SilentStep ==
  ASSUME AcpInv, Next
  PROVE  SilentInv'
  <1>0. TypeOK /\ StageInv /\ SilentInv
    BY DEF AcpInv
  <1>1. CASE Begin
    BY <1>0, <1>1, BeginSilent
  <1>2. CASE Execute
    <2>1. CASE Spawn
      BY <1>0, <2>1 DEF SilentInv, Unknown, Spawn, FreshAgent
    <2>2. CASE SpawnFails
      BY <1>0, <2>2 DEF SilentInv, Unknown, SpawnFails, OldClosed, FreshAgent
    <2>3. CASE Initialized
      BY <1>0, <2>3 DEF SilentInv, Unknown, Before, Initialized, Open, SendTo
    <2>4. CASE InitializeFails
      BY <1>0, <2>4 DEF SilentInv, Unknown, InitializeFails, FreshAgent
    <2>5. CASE SendPrompt
      BY <1>0, <2>5, SendSilent
    <2>6. CASE PromptUnsent
      BY <1>0, <2>6 DEF SilentInv, Unknown, Before, PromptUnsent, Finish,
         SendTo
    <2>7. CASE OpenFails
      BY <1>0, <2>7 DEF SilentInv, Unknown, Before, OpenFails
    <2>8. CASE OpenTimesOut
      BY <1>0, <2>8 DEF SilentInv, Unknown, Before, OpenTimesOut
    <2>9. CASE PromptEnds
      BY <1>0, <2>9 DEF SilentInv, Unknown, Before, PromptEnds, Finish, End,
         Await, SendTo
    <2>10. CASE PromptTimesOut
      BY <1>0, <2>10 DEF SilentInv, Unknown, Before, PromptTimesOut, Finish,
         End, Await, SendTo
    <2>11. CASE CancelWaited
      BY <1>0, <2>11 DEF SilentInv, Unknown, Before, CancelWaited, Finish,
         End, Await, SendTo
    <2>12. CASE SessionClosed
      BY <1>0, <2>12 DEF SilentInv, Unknown, Before, SessionClosed, End
    <2>13. CASE Recycled
      BY <1>0, <2>13 DEF SilentInv, Unknown, Recycled, FreshAgent
    <2>. QED BY <1>2, <2>1, <2>2, <2>3, <2>4, <2>5, <2>6, <2>7, <2>8, <2>9,
       <2>10, <2>11, <2>12, <2>13 DEF Execute
  <1>3. CASE Reader
    <2>1. ASSUME NEW i \in 1..Len(out), ReadReply(i)
          PROVE  SilentInv'
      BY <1>0, <2>1, SilentRead DEF ReadReply
    <2>2. ASSUME NEW i \in 1..Len(out), ReadChunk(i)
          PROVE  SilentInv'
      BY <1>0, <2>2, SilentRead DEF ReadChunk
    <2>3. CASE ReaderEnds
      BY <1>0, <2>3 DEF SilentInv, Unknown, ReaderEnds
    <2>. QED BY <1>3, <2>1, <2>2, <2>3 DEF Reader
  <1>4. CASE Agent
    <2>1. ASSUME NEW r \in Requests, AgentReplies(r)
          PROVE  SilentInv'
      BY <1>0, <2>1, ReplySilent
    <2>2. ASSUME NEW a \in Attempts, AgentSpeaks(a)
          PROVE  SilentInv'
      BY <1>0, <2>2, ChunkSilent
    <2>3. CASE AgentBabbles
      BY <1>0, <2>3, BabbleSilent
    <2>4. CASE AgentDies
      BY <1>0, <2>4 DEF SilentInv, Unknown, AgentDies, AgentRest
    <2>5. CASE AgentReaped
      BY <1>0, <2>5 DEF SilentInv, Unknown, AgentReaped, AgentRest
    <2>. QED BY <1>4, <2>1, <2>2, <2>3, <2>4, <2>5 DEF Agent
  <1>5. CASE Stop
    BY <1>0, <1>5 DEF SilentInv, Unknown, Stop, FreshAgent
  <1>6. ASSUME NEW c \in {"kill", "time"}, Cut(c)
        PROVE  SilentInv'
    BY <1>0, <1>6 DEF SilentInv, Unknown, Before, Cut, CutStartup, End,
       OldClosed, FreshAgent, CutPlain, CutPrompt, CutToFinish, Finish,
       Await, SendTo
  <1>. QED BY <1>1, <1>2, <1>3, <1>4, <1>5, <1>6 DEF Next

(* A chunk that is read is in the text, so what is heard stays heard. *)
LEMMA HeardRead ==
  ASSUME TypeOK, NEW i \in 1..Len(out), NextLine(i), out' = RemoveAt(out, i),
         attempt' = attempt, parts \subseteq parts',
         \A k : out[1] = Chunk(attempt, k) => <<attempt, k>> \in parts',
         NEW k, NEW n \in 0..Len(out), Heard(k, n)
  PROVE  Heard(k, n - 1)'
  <1>1. i = 1 /\ Len(out) \in Nat /\ Len(out') = Len(out) - 1
    BY LineRead
  <1>2. \A j \in 1..Len(out') : out'[j] = out[j + 1]
    BY LineRead
  <1>3. ASSUME NEW j \in 1..n, out[j] = Chunk(attempt, k), j # 1
        PROVE  Heard(k, n - 1)'
    <2>1. j - 1 \in 1..(n - 1) /\ j - 1 \in 1..Len(out') /\ (j - 1) + 1 = j
      BY <1>1, <1>3
    <2>2. out'[j - 1] = Chunk(attempt, k)
      BY <1>2, <1>3, <2>1
    <2>. QED BY <2>1, <2>2 DEF Heard, Chunk
  <1>. QED BY <1>3 DEF Heard

(* The lines before stay the same. *)
LEMMA HeardWrite ==
  ASSUME TypeOK, NEW m \in Message, Write(m), UNCHANGED <<attempt, parts>>,
         NEW k, NEW n \in 0..Len(out), Heard(k, n)
  PROVE  Heard(k, n)'
  <1>1. Len(out) \in Nat /\ \A j \in 1..Len(out) : out'[j] = out[j]
    BY LineWritten
  <1>2. \A j \in 1..n : j \in 1..Len(out)
    BY <1>1
  <1>. QED BY <1>1, <1>2 DEF Heard, Chunk

(* When the prompt goes out nothing has been said.                          *)
LEMMA SendHeard ==
  ASSUME TypeOK, StageInv, SilentInv, SendPrompt
  PROVE  HeardInv'
  <1>1. stage = "opening" /\ UNCHANGED <<attempt, said, out>>
    BY DEF SendPrompt
  <1>2. attempt \in Attempts
    BY <1>1 DEF TypeOK, StageInv, Attempts
  <1>3. Unknown(attempt)
    BY <1>1, <1>2 DEF SilentInv, Before
  <1>. QED BY <1>1, <1>3 DEF HeardInv, Unknown

(* Reading a line loses nothing that was heard. *)
LEMMA HeardAfterRead ==
  ASSUME TypeOK, HeardInv, reader,
         NEW i \in 1..Len(out), NextLine(i), out' = RemoveAt(out, i),
         UNCHANGED <<stage, attempt, said, jobs, reader>>,
         parts \subseteq parts',
         stage = "prompting" =>
           \A k : out[1] = Chunk(attempt, k) => <<attempt, k>> \in parts'
  PROVE  HeardInv'
  <1>1. SUFFICES ASSUME stage = "prompting"
                 PROVE  HeardInv'
    BY DEF HeardInv
  <1>2. PICK n \in Nat : n = Len(out') /\ Len(out) = n + 1
    BY LineRead
  <1>3. \A j \in 1..n : j + 1 \in 1..(n + 1) /\ out'[j] = out[j + 1]
    BY <1>2, LineRead
  <1>4. ASSUME NEW k, NEW j \in 1..(n + 1), Heard(k, j)
        PROVE  Heard(k, j - 1)'
    BY <1>1, <1>2, <1>4, HeardRead
  <1>5. \A k \in 1..said[attempt] : Heard(k, n)'
    <2>1. \A k \in 1..said[attempt] : Heard(k, n + 1) /\ (n + 1) - 1 = n
      BY <1>1, <1>2 DEF HeardInv
    <2>. QED BY <1>4, <2>1
  <1>6. ASSUME NEW j \in 1..n, out'[j].type = "reply",
               out'[j].req = <<attempt, "prompt">>
        PROVE  /\ <<attempt, "prompt">> \notin jobs
               /\ \A k \in 1..said[attempt] : Heard(k, j - 1)'
    <2>1. j \in 1..(n + 1) /\ (j + 1) - 1 = j
      OBVIOUS
    <2>2. /\ <<attempt, "prompt">> \notin jobs
          /\ \A k \in 1..said[attempt] : Heard(k, j)
      BY <1>1, <1>2, <1>3, <1>6, <2>1 DEF HeardInv
    <2>. QED BY <1>4, <2>1, <2>2
  <1>. QED BY <1>2, <1>5, <1>6 DEF HeardInv

(* A reply is no chunk.                                                     *)
LEMMA ReplyReadHeard ==
  ASSUME TypeOK, StageInv, HeardInv, NEW i \in 1..Len(out), ReadReply(i)
  PROVE  HeardInv'
  <1>1. /\ reader /\ NextLine(i) /\ out' = RemoveAt(out, i)
        /\ out[i].type = "reply"
        /\ UNCHANGED <<stage, attempt, said, jobs, parts, reader>>
    BY DEF ReadReply
  <1>2. \A k : out[1] # Chunk(attempt, k)
    BY <1>1, LineRead DEF Chunk
  <1>. QED BY <1>1, <1>2, HeardAfterRead

(* A chunk of the attempt's session goes into the text.                     *)
LEMMA ChunkReadHeard ==
  ASSUME TypeOK, StageInv, OwnInv, HeardInv, NEW i \in 1..Len(out),
         ReadChunk(i)
  PROVE  HeardInv'
  <1>1. /\ reader /\ NextLine(i) /\ out' = RemoveAt(out, i)
        /\ parts \subseteq parts'
        /\ UNCHANGED <<stage, attempt, said, jobs, reader>>
    BY DEF ReadChunk
  <1>2. ASSUME stage = "prompting", NEW k, out[1] = Chunk(attempt, k)
        PROVE  <<attempt, k>> \in parts'
    <2>1. out[i].session = attempt /\ out[i].no = k /\ sid = attempt
      BY <1>1, <1>2, LineRead DEF Chunk, OwnInv, SessionIsOwn
    <2>. QED BY <2>1 DEF ReadChunk
  <1>. QED BY <1>1, <1>2, HeardAfterRead

(* What was heard before a line is written is heard after it; a line that  *)
(* answers the prompt needs more.                                          *)
LEMMA HeardAfterWrite ==
  ASSUME TypeOK, HeardInv, NEW m \in Message, Write(m), jobs' \subseteq jobs,
         UNCHANGED <<stage, attempt, parts, reader>>,
         stage = "prompting" =>
           /\ \A k \in 1..said'[attempt] :
                k \in 1..said[attempt] \/ m = Chunk(attempt, k)
           /\ <<attempt, "prompt">> \notin jobs =>
                said'[attempt] = said[attempt]
           /\ m.type = "reply" /\ m.req = <<attempt, "prompt">> =>
                /\ <<attempt, "prompt">> \notin jobs'
                /\ said'[attempt] = said[attempt]
  PROVE  HeardInv'
  <1>1. SUFFICES ASSUME stage = "prompting" /\ reader
                 PROVE  HeardInv'
    BY DEF HeardInv
  <1>2. PICK n \in Nat : n = Len(out) /\ Len(out') = n + 1
    BY <1>1, LineWritten
  <1>3. out'[n + 1] = m /\ \A j \in 1..n : out'[j] = out[j]
    BY <1>1, <1>2, LineWritten
  <1>4. ASSUME NEW k, NEW j \in 0..n, Heard(k, j)
        PROVE  Heard(k, j)'
    BY <1>2, <1>4, HeardWrite
  <1>5. \A k \in 1..said[attempt] : Heard(k, n)'
    BY <1>1, <1>2, <1>4 DEF HeardInv
  <1>6. \A k \in 1..said'[attempt] : Heard(k, n + 1)'
    BY <1>1, <1>2, <1>3, <1>5 DEF Heard, Chunk
  <1>7. ASSUME NEW j \in 1..(n + 1), out'[j].type = "reply",
               out'[j].req = <<attempt, "prompt">>
        PROVE  /\ <<attempt, "prompt">> \notin jobs'
               /\ \A k \in 1..said'[attempt] : Heard(k, j - 1)'
    <2>1. CASE j \in 1..n
      <3>1. /\ <<attempt, "prompt">> \notin jobs
            /\ \A k \in 1..said[attempt] : Heard(k, j - 1)
        BY <1>1, <1>2, <1>3, <1>7, <2>1 DEF HeardInv
      <3>2. j - 1 \in 0..n /\ said'[attempt] = said[attempt]
        BY <1>1, <2>1, <3>1
      <3>. QED BY <1>4, <3>1, <3>2
    <2>2. CASE j = n + 1
      BY <1>1, <1>3, <1>5, <1>7, <2>2
    <2>. QED BY <2>1, <2>2
  <1>. QED BY <1>2, <1>6, <1>7 DEF HeardInv

(* After the reply nothing more is said.                                    *)
LEMMA ReplyHeard ==
  ASSUME TypeOK, StageInv, HeardInv, NEW r \in Requests, AgentReplies(r)
  PROVE  HeardInv'
  <1>1. PICK x \in Replies : Write(Reply(r, x))
    BY DEF AgentReplies
  <1>2. PICK m : /\ m = Reply(r, x) /\ m \in Message
                 /\ m.req = r /\ m.type = "reply"
    <2>1. Reply(r, x) \in Message
      BY DEF Message
    <2>. QED BY <2>1 DEF Reply
  <1>3. /\ jobs' = jobs \ {r}
        /\ UNCHANGED <<stage, attempt, said, parts, reader>>
    BY DEF AgentReplies, AgentRest
  <1>. QED BY <1>1, <1>2, <1>3, HeardAfterWrite

(* A chunk goes to the end of the stream.                                   *)
LEMMA ChunkHeard ==
  ASSUME TypeOK, StageInv, HeardInv, NEW b \in Attempts, AgentSpeaks(b)
  PROVE  HeardInv'
  <1>1. /\ <<b, "prompt">> \in jobs /\ said[b] < MaxChunks
        /\ said' = [said EXCEPT ![b] = @ + 1] /\ Write(Chunk(b, said[b] + 1))
        /\ UNCHANGED <<stage, attempt, jobs, parts, reader>>
    BY DEF AgentSpeaks, AgentRest
  <1>2. PICK m \in Message : m = Chunk(b, said[b] + 1) /\ m.type = "chunk"
    BY <1>1, ChunkSaid DEF Chunk
  <1>3. said[b] \in Nat
    BY <1>1, ChunkSaid
  <1>4. ASSUME stage = "prompting"
        PROVE  /\ \A k \in 1..said'[attempt] :
                    k \in 1..said[attempt] \/ m = Chunk(attempt, k)
               /\ attempt # b => said'[attempt] = said[attempt]
    <2>1. attempt \in Attempts
      BY <1>4 DEF TypeOK, StageInv, Attempts
    <2>2. said'[attempt] = IF attempt = b THEN said[b] + 1 ELSE said[attempt]
      BY <1>1, <2>1 DEF TypeOK
    <2>. QED BY <1>2, <1>3, <2>2
  <1>. QED BY <1>1, <1>2, <1>4, HeardAfterWrite

(* An illegal line is neither.                                              *)
LEMMA BabbleHeard ==
  ASSUME TypeOK, StageInv, HeardInv, AgentBabbles
  PROVE  HeardInv'
  <1>1. /\ Write(BadLine)
        /\ UNCHANGED <<stage, attempt, said, jobs, parts, reader>>
    BY DEF AgentBabbles, AgentRest
  <1>2. /\ BadLine \in Message /\ BadLine.type = "bad"
        /\ \A k : BadLine # Chunk(attempt, k)
    <2>1. BadLine \in Message
      BY DEF Message
    <2>. QED BY <2>1 DEF BadLine, Chunk
  <1>. QED BY <1>1, <1>2, HeardAfterWrite

(* What was said is in the text or in the stream, before the reply.         *)
LEMMA HeardStep ==
  ASSUME AcpInv, Next
  PROVE  HeardInv'
  <1>0. TypeOK /\ StageInv /\ OwnInv /\ SilentInv /\ HeardInv
    BY DEF AcpInv
  <1>1. CASE Begin
    BY <1>0, <1>1 DEF HeardInv, Begin, BeginCancelled, NextAttempt,
       BeginConnected, Open, Await, BeginUnconnected
  <1>2. CASE Execute
    <2>1. CASE Spawn
      BY <1>0, <2>1 DEF HeardInv, Spawn, Await
    <2>2. CASE SpawnFails
      BY <1>0, <2>2 DEF HeardInv, SpawnFails, OldClosed
    <2>3. CASE Initialized
      BY <1>0, <2>3 DEF HeardInv, Initialized, Open, Await
    <2>4. CASE InitializeFails
      BY <1>0, <2>4 DEF HeardInv, InitializeFails
    <2>5. CASE SendPrompt
      BY <1>0, <2>5, SendHeard
    <2>6. CASE PromptUnsent
      BY <1>0, <2>6 DEF HeardInv, PromptUnsent, Finish, End, Await
    <2>7. CASE OpenFails
      BY <1>0, <2>7 DEF HeardInv, OpenFails, End
    <2>8. CASE OpenTimesOut
      BY <1>0, <2>8 DEF HeardInv, OpenTimesOut, End
    <2>9. CASE PromptEnds
      BY <1>0, <2>9 DEF HeardInv, PromptEnds, Finish, End, Await
    <2>10. CASE PromptTimesOut
      BY <1>0, <2>10 DEF HeardInv, PromptTimesOut, Finish, End, Await
    <2>11. CASE CancelWaited
      BY <1>0, <2>11 DEF HeardInv, CancelWaited, Finish, End, Await
    <2>12. CASE SessionClosed
      BY <1>0, <2>12 DEF HeardInv, SessionClosed, End
    <2>13. CASE Recycled
      BY <1>0, <2>13 DEF HeardInv, Recycled
    <2>. QED BY <1>2, <2>1, <2>2, <2>3, <2>4, <2>5, <2>6, <2>7, <2>8, <2>9,
       <2>10, <2>11, <2>12, <2>13 DEF Execute
  <1>3. CASE Reader
    <2>1. ASSUME NEW i \in 1..Len(out), ReadReply(i)
          PROVE  HeardInv'
      BY <1>0, <2>1, ReplyReadHeard
    <2>2. ASSUME NEW i \in 1..Len(out), ReadChunk(i)
          PROVE  HeardInv'
      BY <1>0, <2>2, ChunkReadHeard
    <2>3. CASE ReaderEnds
      BY <1>0, <2>3 DEF HeardInv, ReaderEnds
    <2>. QED BY <1>3, <2>1, <2>2, <2>3 DEF Reader
  <1>4. CASE Agent
    <2>1. ASSUME NEW r \in Requests, AgentReplies(r)
          PROVE  HeardInv'
      BY <1>0, <2>1, ReplyHeard
    <2>2. ASSUME NEW a \in Attempts, AgentSpeaks(a)
          PROVE  HeardInv'
      BY <1>0, <2>2, ChunkHeard
    <2>3. CASE AgentBabbles
      BY <1>0, <2>3, BabbleHeard
    <2>4. CASE AgentDies
      BY <1>0, <2>4 DEF HeardInv, Heard, AgentDies, AgentRest
    <2>5. CASE AgentReaped
      BY <1>0, <2>5 DEF HeardInv, Heard, AgentReaped, AgentRest
    <2>. QED BY <1>4, <2>1, <2>2, <2>3, <2>4, <2>5 DEF Agent
  <1>5. CASE Stop
    BY <1>0, <1>5 DEF HeardInv, Stop
  <1>6. ASSUME NEW c \in {"kill", "time"}, Cut(c)
        PROVE  HeardInv'
    BY <1>0, <1>6 DEF HeardInv, Cut, CutStartup, End, CutPlain, CutPrompt,
       CutToFinish, Finish, Await
  <1>. QED BY <1>1, <1>2, <1>3, <1>4, <1>5, <1>6 DEF Next

(* Only a regular end makes an answer.                                      *)
LEMMA EndIsComplete ==
  ASSUME TypeOK, StageInv, CompleteInv, PromptEnds
  PROVE  CompleteInv'
  <1>1. /\ stage' # "prompting"
        /\ verdict' \in {"none", PromptVerdict(fut.is)}
        /\ UNCHANGED <<parts, said, attempt>>
    BY DEF PromptEnds, Finish, Await, End
  <1>2. jobs' \subseteq jobs \cup {<<attempt, "close">>}
    BY DEF PromptEnds, Finish, SendTo
  <1>3. verdict' = "answer" => fut.is = "ok"
    BY <1>1, PromptVerdicts DEF PromptEnds
  <1>. QED BY <1>1, <1>2, <1>3 DEF PromptEnds, CompleteInv, Complete

(* When the reply to the prompt is read, nothing is in front of it.        *)
LEMMA ReplyCompletes ==
  ASSUME TypeOK, StageInv, HeardInv, CompleteInv, NEW i \in 1..Len(out),
         ReadReply(i)
  PROVE  CompleteInv'
  <1>1. /\ i = 1 /\ Len(out) \in Nat
        /\ UNCHANGED <<stage, attempt, verdict, jobs, said, parts>>
    BY LineRead DEF ReadReply
  <1>2. CASE stage = "prompting" /\ Waits /\ Awaited \in Resolves(out[i].req)
    <2>1. /\ out[1].req = <<attempt, "prompt">> /\ out[1].type = "reply"
          /\ reader
      BY <1>1, <1>2 DEF ReadReply, Awaited, Resolves, Method
    <2>2. /\ <<attempt, "prompt">> \notin jobs
          /\ \A k \in 1..said[attempt] : Heard(k, 1 - 1)
      BY <1>1, <1>2, <2>1 DEF HeardInv
    <2>3. Complete
      BY <2>2 DEF Complete, Heard
    <2>. QED BY <1>1, <2>3 DEF CompleteInv, Complete
  <1>3. CASE ~(/\ stage = "prompting" /\ Waits
              /\ Awaited \in Resolves(out[i].req))
    BY <1>1, <1>3 DEF ReadReply, CompleteInv, Complete
  <1>. QED BY <1>2, <1>3

(* An answer that is being cleaned up after stays complete.                 *)
LEMMA CompleteStep ==
  ASSUME AcpInv, Next
  PROVE  CompleteInv'
  <1>0. TypeOK /\ StageInv /\ OwnInv /\ HeardInv /\ CompleteInv
    BY DEF AcpInv
  <1>1. CASE Begin
    BY <1>0, <1>1 DEF StageInv, CompleteInv, Begin, BeginCancelled,
       NextAttempt, BeginConnected, Open, Await, BeginUnconnected
  <1>2. CASE Execute
    <2>1. CASE Spawn
      BY <1>0, <2>1 DEF CompleteInv, Spawn, Await
    <2>2. CASE SpawnFails
      BY <1>0, <2>2 DEF CompleteInv, SpawnFails, End
    <2>3. CASE Initialized
      BY <1>0, <2>3 DEF CompleteInv, Initialized, Open, Await
    <2>4. CASE InitializeFails
      BY <1>0, <2>4 DEF CompleteInv, InitializeFails, End
    <2>5. CASE SendPrompt
      BY <1>0, <2>5 DEF CompleteInv, SendPrompt, Await, NoReply
    <2>6. CASE PromptUnsent
      BY <1>0, <2>6 DEF CompleteInv, PromptUnsent, Finish, End, Await
    <2>7. CASE OpenFails
      BY <1>0, <2>7 DEF CompleteInv, OpenFails, End
    <2>8. CASE OpenTimesOut
      BY <1>0, <2>8 DEF CompleteInv, OpenTimesOut, End
    <2>9. CASE PromptEnds
      BY <1>0, <2>9, EndIsComplete
    <2>10. CASE PromptTimesOut
      BY <1>0, <2>10 DEF CompleteInv, PromptTimesOut, Finish, End, Await
    <2>11. CASE CancelWaited
      BY <1>0, <2>11 DEF CompleteInv, Complete, CancelWaited, Finish, End,
         Await, SendTo
    <2>12. CASE SessionClosed
      BY <1>0, <2>12 DEF CompleteInv, SessionClosed, End
    <2>13. CASE Recycled
      BY <1>0, <2>13 DEF CompleteInv, Recycled, End
    <2>. QED BY <1>2, <2>1, <2>2, <2>3, <2>4, <2>5, <2>6, <2>7, <2>8, <2>9,
       <2>10, <2>11, <2>12, <2>13 DEF Execute
  <1>3. CASE Reader
    <2>1. ASSUME NEW i \in 1..Len(out), ReadReply(i)
          PROVE  CompleteInv'
      BY <1>0, <2>1, ReplyCompletes
    <2>2. ASSUME NEW i \in 1..Len(out), ReadChunk(i)
          PROVE  CompleteInv'
      BY <1>0, <2>2 DEF CompleteInv, Complete, ReadChunk
    <2>3. CASE ReaderEnds
      BY <1>0, <2>3 DEF CompleteInv, Complete, ReaderEnds, FailPending
    <2>. QED BY <1>3, <2>1, <2>2, <2>3 DEF Reader
  <1>4. CASE Agent
    <2>1. ASSUME NEW r \in Requests, AgentReplies(r)
          PROVE  CompleteInv'
      BY <1>0, <2>1 DEF CompleteInv, Complete, AgentReplies, AgentRest
    <2>2. ASSUME NEW a \in Attempts, AgentSpeaks(a)
          PROVE  CompleteInv'
      <3>1. /\ <<a, "prompt">> \in jobs /\ said' = [said EXCEPT ![a] = @ + 1]
            /\ UNCHANGED <<stage, fut, verdict, attempt, parts, jobs>>
        BY <2>2 DEF AgentSpeaks, AgentRest
      <3>2. a # attempt => said'[attempt] = said[attempt]
        BY <1>0, <3>1 DEF TypeOK
      <3>. QED BY <1>0, <3>1, <3>2 DEF CompleteInv, Complete
    <2>3. CASE AgentBabbles
      BY <1>0, <2>3 DEF CompleteInv, Complete, AgentBabbles, AgentRest
    <2>4. CASE AgentDies
      BY <1>0, <2>4 DEF CompleteInv, Complete, AgentDies, AgentRest
    <2>5. CASE AgentReaped
      BY <1>0, <2>5 DEF CompleteInv, Complete, AgentReaped, AgentRest
    <2>. QED BY <1>4, <2>1, <2>2, <2>3, <2>4, <2>5 DEF Agent
  <1>5. CASE Stop
    BY <1>0, <1>5 DEF StageInv, CompleteInv, Stop
  <1>6. ASSUME NEW c \in {"kill", "time"}, Cut(c)
        PROVE  CompleteInv'
    BY <1>0, <1>6 DEF CompleteInv, Cut, CutVerdict, CutStartup, End,
       CutPlain, CutPrompt, CutToFinish, Finish, Await
  <1>. QED BY <1>1, <1>2, <1>3, <1>4, <1>5, <1>6 DEF Next

LEMMA InitInv == Init => AcpInv
  <1>. SUFFICES ASSUME Init
                PROVE  AcpInv
    OBVIOUS
  <1>1. ControlOK /\ CountOK
    <2>1. [a \in Attempts |-> 0] \in [Attempts -> 0..MaxChunks]
      OBVIOUS
    <2>2. 0 \in 0..MaxAttempts /\ 0 \in 0..MaxFaults
      OBVIOUS
    <2>. QED BY <2>1, <2>2 DEF Init, ControlOK, CountOK, Stages, Verdicts
  <1>2. DataOK
    BY EmptySeq DEF Init, NoReply, DataOK
  <1>3. /\ StageInv /\ OwnInv /\ NoLostFuture /\ PromptInv /\ CountInv
        /\ AgentReachable
    BY DEF Init, NoReply, StageInv, OwnInv, SessionIsOwn, NoLostFuture, Waits,
           Method, PromptInv, PromptNotRepeated, CountInv, AgentReachable,
           Before, Talking
  <1>4. SilentInv /\ HeardInv /\ CompleteInv
    BY DEF Init, NoReply, SilentInv, Unknown, HeardInv, CompleteInv
  <1>. QED BY <1>1, <1>2, <1>3, <1>4 DEF AcpInv, TypeOK, ControlOK, CountOK,
           DataOK

LEMMA StepInv == AcpInv /\ [Next]_vars => AcpInv'
  <1>1. ASSUME AcpInv, Next
        PROVE  AcpInv'
    <2>1. TypeOK'
      BY <1>1, ControlStep, CountStep, DataStep
         DEF TypeOK, ControlOK, CountOK, DataOK
    <2>. QED BY <1>1, <2>1, StageStep, OwnStep, FutureStep, PromptStep,
             CountedStep, ReachableStep, SilentStep, HeardStep, CompleteStep
             DEF AcpInv
  <1>2. ASSUME AcpInv, UNCHANGED vars
        PROVE  AcpInv'
    <2>1. TypeOK'
      BY <1>2 DEF AcpInv, TypeOK
    <2>2. StageInv' /\ OwnInv' /\ PromptInv' /\ CountInv' /\ AgentReachable'
      BY <1>2 DEF AcpInv, StageInv, OwnInv, SessionIsOwn, PromptInv,
                  PromptNotRepeated, CountInv, AgentReachable
    <2>3. NoLostFuture'
      BY <1>2 DEF AcpInv, NoLostFuture, Waits, Awaited
    <2>4. SilentInv'
      BY <1>2 DEF AcpInv, SilentInv, Unknown
    <2>5. HeardInv' /\ CompleteInv'
      BY <1>2 DEF AcpInv, HeardInv, Heard, CompleteInv, Complete
    <2>. QED BY <2>1, <2>2, <2>3, <2>4, <2>5 DEF AcpInv
  <1>. QED BY <1>1, <1>2

\* The invariant holds of every worker.
LEMMA InvHolds == Spec => []AcpInv
  <1>. QED BY InitInv, StepInv, PTL DEF Spec

-----------------------------------------------------------------------------
(* A prompt runs in the session its own attempt asked for, whichever late   *)
(* replies of earlier attempts the connection still brings (_dispatch,      *)
(* _execute).                                                               *)
THEOREM SessionsAreOwn == Spec => []SessionIsOwn
  <1>1. AcpInv => SessionIsOwn
    BY DEF AcpInv, OwnInv
  <1>. QED BY <1>1, InvHolds, PTL

(* Whichever way connection, reader or agent fail after the agent has got   *)
(* the prompt, the attempt does not ask for a retry (_prompt_started).      *)
THEOREM PromptsGoOnce == Spec => []PromptNotRepeated
  <1>1. AcpInv => PromptNotRepeated
    BY DEF AcpInv, PromptInv
  <1>. QED BY <1>1, InvHolds, PTL

(* Nobody waits for a future that the reader and close() no longer find     *)
(* (_pending).                                                              *)
THEOREM FuturesAreKept == Spec => []NoLostFuture
  <1>1. AcpInv => NoLostFuture
    BY DEF AcpInv
  <1>. QED BY <1>1, InvHolds, PTL

(* For any number of sessions per connection the worker neither overuses    *)
(* nor loses the agent it knows of, and every variable keeps its type       *)
(* (_finish_session, close).                                                *)
THEOREM ConnectionsAreKept == Spec => []ConnectionKept
  <1>1. AcpInv => ConnectionKept
    <2>1. AcpInv => count \in Nat /\ MaxSessions \in Nat
      BY DEF AcpInv, TypeOK
    <2>2. AcpInv => SessionsCounted
      BY <2>1 DEF AcpInv, CountInv, SessionsCounted
    <2>. QED BY <2>2 DEF AcpInv, ConnectionKept
  <1>. QED BY <1>1, InvHolds, PTL

(* Only a complete text makes an answer.                                    *)
LEMMA AnswerStep ==
  ASSUME AcpInv, Next, outcome # "answer", outcome' = "answer"
  PROVE  \A k \in 1..said[attempt] : <<attempt, k>> \in parts
  <1>0. TypeOK /\ StageInv /\ CompleteInv
    BY DEF AcpInv
  <1>1. SUFFICES Complete
    BY DEF Complete
  <1>2. CASE Begin
    BY <1>2 DEF Begin, BeginCancelled, BeginConnected, BeginUnconnected, Open
  <1>3. CASE Execute
    <2>1. CASE Spawn
      BY <2>1 DEF Spawn
    <2>2. CASE SpawnFails \/ InitializeFails \/ OpenTimesOut
      BY <2>2 DEF SpawnFails, InitializeFails, OpenTimesOut, End, Ended
    <2>3. CASE Initialized
      BY <2>3 DEF Initialized, Open
    <2>4. CASE SendPrompt
      BY <2>4 DEF SendPrompt
    <2>5. CASE PromptUnsent
      BY <2>5 DEF PromptUnsent, Finish, End, Ended
    <2>6. CASE OpenFails
      BY <2>6 DEF OpenFails, OpenVerdict, End, Ended
    <2>7. CASE PromptEnds
      <3>1. PromptVerdict(fut.is) = "answer"
        BY <2>7 DEF PromptEnds, Finish, End, Ended
      <3>. QED BY <1>0, <2>7, <3>1, PromptVerdicts DEF PromptEnds, CompleteInv
    <2>8. CASE PromptTimesOut
      BY <2>8 DEF PromptTimesOut, Finish, End, Ended
    <2>9. CASE CancelWaited \/ SessionClosed \/ Recycled
      <3>1. verdict = "answer"
        BY <2>9 DEF CancelWaited, SessionClosed, Recycled, Finish, End, Ended
      <3>. QED BY <1>0, <3>1 DEF CompleteInv
    <2>. QED BY <1>3, <2>1, <2>2, <2>3, <2>4, <2>5, <2>6, <2>7, <2>8, <2>9
             DEF Execute
  <1>4. CASE Reader
    BY <1>4 DEF Reader, ReadReply, ReadChunk, ReaderEnds
  <1>5. CASE Agent
    BY <1>5, AgentKeeps
  <1>6. CASE Stop
    BY <1>6 DEF Stop
  <1>7. ASSUME NEW c \in {"kill", "time"}, Cut(c)
        PROVE  FALSE
    BY <1>7 DEF Cut, CutVerdict, CutStartup, CutPlain, CutPrompt, CutToFinish,
                Finish, End, Ended
  <1>. QED BY <1>2, <1>3, <1>4, <1>5, <1>6, <1>7 DEF Next

(* However the replies, chunks and illegal lines are ordered and wherever   *)
(* the clean-up is cut off: an answer that is returned has every chunk the  *)
(* agent wrote for it (_dispatch_message awaits notifications).             *)
THEOREM AnswersAreComplete == Spec => AnswerComplete
  <1>1. AcpInv /\ [Next]_vars =>
          [outcome # "answer" /\ outcome' = "answer" =>
             \A k \in 1..said[attempt] : <<attempt, k>> \in parts]_vars
    BY AnswerStep
  <1>. QED BY <1>1, InvHolds, PTL DEF Spec, AnswerComplete
=============================================================================
