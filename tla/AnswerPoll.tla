----------------------------- MODULE AnswerPoll -----------------------------
(***************************************************************************)
(* How a browser worker decides that an answer is complete, from the send  *)
(* on.  The page is whatever poll_once reads: it may freeze, flicker, keep *)
(* its stop button for good or go back to an earlier text.  reads records  *)
(* what was read and when, for the properties; the loop keeps the last     *)
(* answer, a count and two deadlines instead.                              *)
(***************************************************************************)
EXTENDS Integers, Sequences, FiniteSetsExt

CONSTANTS
  Answers,    \* texts a page may show as the latest answer
  NoAnswer,   \* answer is None or empty
  Valid,      \* texts that satisfy the output contract
  Stall,      \* stall_seconds, in POLL_INTERVALs
  Hard,       \* hard_timeout_seconds
  Whole,      \* the end-to-end timeout, as far as it is left at the send
  MaxPoll     \* longest poll_once, the command timeout of the bridge

ASSUME PollAssumption ==
  /\ NoAnswer \notin Answers /\ Valid \subseteq Answers
  /\ {Stall, Hard, Whole} \subseteq Nat \ {0} /\ MaxPoll \in Nat

Interval == 1
Texts == Answers \cup {NoAnswer}

VARIABLES
  baseline,   \* the answer shown before the prompt was sent
  contract,   \* task.response_format is set
  pc,         \* await of the loop: "sleep", "poll", or "ended"
  clock,      \* time since the send was confirmed
  stallAt,    \* stall_deadline
  progress,   \* last_progress_answer
  previous,   \* previous_answer
  stable,     \* stable_contract_answer and stable_contract_polls
  cancel,     \* cancel_requested
  result,     \* the answer returned
  why,        \* how the loop ended
  reads       \* what poll_once returned so far, and when

memory == <<stallAt, progress, previous, stable>>
vars == <<baseline, contract, pc, clock, memory, cancel, result, why, reads>>

Snapshots == [answer : Texts, generating : BOOLEAN]
NotStable == [answer |-> NoAnswer, polls |-> 0]

Ends(reason) == pc' = "ended" /\ why' = reason

\* A text the page did not show before.
Fresh(a) == a \notin {NoAnswer, baseline}

-----------------------------------------------------------------------------
(* One round.                                                              *)

\* The checks after the sleep, in their order.
Checks ==
  IF cancel THEN Ends("cancelled")
  ELSE IF clock' > Hard THEN Ends("hard")
  ELSE IF clock' > stallAt THEN Ends("stall")
  ELSE pc' = "poll" /\ UNCHANGED why

Sleep ==
  /\ pc = "sleep"
  /\ clock' = clock + Interval
  /\ Checks
  /\ UNCHANGED <<baseline, contract, memory, cancel, result, reads>>

\* Mutant: a stop button counts as progress.
ProgressByButton(s) ==
  IF s.generating
  THEN stallAt' = clock' + Stall /\ progress' = s.answer
  ELSE UNCHANGED <<stallAt, progress>>

\* Mutant: the deadline moves on for the first text only.
ProgressOnce(s) ==
  IF Fresh(s.answer) /\ progress = baseline
  THEN stallAt' = clock' + Stall /\ progress' = s.answer
  ELSE UNCHANGED <<stallAt, progress>>

\* New text moves the stall deadline.
Progress(s) ==
  IF Fresh(s.answer) /\ s.answer # progress
  THEN stallAt' = clock' + Stall /\ progress' = s.answer
  ELSE UNCHANGED <<stallAt, progress>>

\* The count of equal valid answers under a stop button.
Recount(s) ==
  IF Fresh(s.answer) /\ contract /\ s.answer \in Valid
  THEN [answer |-> s.answer,
        polls |-> IF s.answer = stable.answer THEN stable.polls + 1 ELSE 1]
  ELSE NotStable

Returned(a) == result' = a /\ Ends("answer")
GoOn == pc' = "sleep" /\ UNCHANGED <<result, why>>

StillGenerating(s) ==
  /\ s.generating
  /\ previous' = NoAnswer /\ stable' = Recount(s)
  /\ IF stable'.polls >= 3 THEN Returned(s.answer) ELSE GoOn

NothingYet(s) ==
  /\ ~s.generating /\ ~Fresh(s.answer)
  /\ previous' = NoAnswer
  /\ GoOn /\ UNCHANGED stable

\* Mutant: the answer may have been seen while it was being written.
QuietAfterProgress(s) ==
  /\ ~s.generating /\ Fresh(s.answer)
  /\ previous' = s.answer
  /\ IF s.answer \in {previous, progress} THEN Returned(s.answer) ELSE GoOn
  /\ UNCHANGED stable

\* Mutant: the answer is not kept for the next look.
QuietOnlyOnce(s) ==
  /\ ~s.generating /\ Fresh(s.answer)
  /\ GoOn /\ UNCHANGED <<previous, stable>>

Quiet(s) ==
  /\ ~s.generating /\ Fresh(s.answer)
  /\ previous' = s.answer
  /\ IF s.answer = previous THEN Returned(s.answer) ELSE GoOn
  /\ UNCHANGED stable

\* poll_once takes d and returns s.
Poll(s, d) ==
  /\ pc = "poll"
  /\ clock' = clock + d
  /\ reads' = Append(reads, [answer |-> s.answer, at |-> clock',
                             generating |-> s.generating])
  /\ Progress(s)
  /\ StillGenerating(s) \/ NothingYet(s) \/ Quiet(s)
  /\ UNCHANGED <<baseline, contract, cancel>>

\* The page shows an error, or the bridge raises.
PollFails(d) ==
  /\ pc = "poll"
  /\ clock' = clock + d /\ Ends("error")
  /\ UNCHANGED <<baseline, contract, memory, cancel, result, reads>>

\* asyncio.timeout of run_task.
EndToEnd ==
  /\ pc # "ended" /\ clock >= Whole
  /\ Ends("end to end")
  /\ UNCHANGED <<baseline, contract, clock, memory, cancel, result, reads>>

Cancel ==
  /\ pc # "ended" /\ ~cancel /\ cancel' = TRUE
  /\ UNCHANGED <<baseline, contract, pc, clock, memory, result, why, reads>>

Init ==
  /\ baseline \in Texts /\ contract \in BOOLEAN
  /\ pc = "sleep" /\ clock = 0 /\ stallAt = Stall
  /\ progress = baseline /\ previous = NoAnswer /\ stable = NotStable
  /\ cancel = FALSE /\ result = NoAnswer /\ why = "none" /\ reads = <<>>

Round ==
  \/ Sleep
  \/ \E d \in 0..MaxPoll : PollFails(d) \/ \E s \in Snapshots : Poll(s, d)

Next == Round \/ EndToEnd \/ Cancel

Spec == Init /\ [][Next]_vars

-----------------------------------------------------------------------------
(* Properties, over what was read.                                         *)

Ended == pc = "ended"
Count == Len(reads)

\* Read i brought text that differs from the last text read before it.
IsNew(i) ==
  /\ Fresh(reads[i].answer)
  /\ \E j \in 0..(i - 1) :
       /\ j > 0 => Fresh(reads[j].answer) /\ reads[j].answer # reads[i].answer
       /\ \A k \in (j + 1)..(i - 1) : ~Fresh(reads[k].answer)

\* When new text was last read, 0 for the send.
LastNew == Max({0} \cup {reads[i].at : i \in {j \in 1..Count : IsNew(j)}})

\* The last two reads agree on a fresh answer, the page being at rest.
AtRest ==
  /\ Count >= 2 /\ Fresh(reads[Count].answer)
  /\ \A i \in {Count - 1, Count} :
       ~reads[i].generating /\ reads[i].answer = reads[Count].answer

\* The last three reads under a stop button agree on a valid answer; what was
\* read without one in between neither counts nor resets the count.
SteadyUnderButton ==
  /\ contract /\ Count >= 3 /\ reads[Count].answer \in Valid
  /\ Fresh(reads[Count].answer)
  /\ LET busy == {i \in 1..Count : reads[i].generating}
     IN /\ Count \in busy
        /\ \E i, j \in busy :
             /\ i < j /\ j < Count
             /\ \A k \in busy :
                  k >= i => k \in {i, j, Count}
                            /\ reads[k].answer = reads[Count].answer

\* The last three reads agree on a valid answer, all under a stop button.
ThreeInARow ==
  /\ contract /\ Count >= 3 /\ reads[Count].answer \in Valid
  /\ Fresh(reads[Count].answer)
  /\ \A i \in (Count - 2)..Count :
       reads[i].generating /\ reads[i].answer = reads[Count].answer

\* The values the variables take; no count outlives its answer.
TypeOK ==
  /\ baseline \in Texts /\ contract \in BOOLEAN
  /\ pc \in {"sleep", "poll", "ended"}
  /\ clock \in 0..(Hard + Interval + MaxPoll)
  /\ stallAt \in Stall..(Hard + MaxPoll + Stall)
  /\ progress \in Texts /\ previous \in Texts
  /\ stable \in [answer : Texts, polls : 0..3]
  /\ cancel \in BOOLEAN /\ result \in Texts
  /\ why \in {"none", "answer", "hard", "stall", "error", "cancelled",
              "end to end"}

(* What is returned was the last thing read and was not on the page before  *)
(* the send.  It was read twice in a row at rest, or it is valid and the    *)
(* last three reads under a stop button all brought it; those three need    *)
(* not follow each other, see ReadThriceInARow (_execute).                  *)
AnswerSettled ==
  why = "answer" => /\ result = reads[Count].answer
                    /\ AtRest \/ SteadyUnderButton

(* Claimed by the comment in _execute: a page that keeps its stop button is *)
(* only believed after three reads in a row that are the same and valid.    *)
(* It does not hold: a look without a stop button does not reset the count, *)
(* even if it brings another text.                                          *)
ReadThriceInARow == why = "answer" => AtRest \/ ThreeInARow

(* An answer that has come to rest is taken at the second look at it, and a *)
(* valid one that stays under the stop button at the third, whatever was    *)
(* read before; no timeout overtakes it (_execute).                         *)
AnswerNotMissed == AtRest \/ SteadyUnderButton => why = "answer"

(* A page that shows new text within every stall_seconds is not stalled.    *)
StallIsStall == why = "stall" => clock > LastNew + Stall

\* A page without new text is given up, even if its stop button or a flicker
\* to the old answer never ends.
FrozenPageEnds == ~Ended => clock <= LastNew + Stall + Interval + MaxPoll

\* However the page goes on, the loop is over soon after hard_timeout.
HardBound == ~Ended => clock <= Hard + MaxPoll

(* The counts and deadlines keep within their bounds, and no page holds a   *)
(* worker for longer than the stall or the hard timeout and one round.      *)
GivenUpInTime == TypeOK /\ FrozenPageEnds /\ HardBound
=============================================================================
