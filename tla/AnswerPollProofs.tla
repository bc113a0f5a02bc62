-------------------------- MODULE AnswerPollProofs --------------------------
(***************************************************************************)
(* The four properties of AnswerPoll for every set of texts, every order   *)
(* of the three timeouts and every duration of a poll.                     *)
(*                                                                         *)
(* The loop never looks back: what it keeps must stand for what it has     *)
(* read.  The inductive invariant says how.  progress is the last fresh    *)
(* text read, stallAt the time new text was last read plus Stall, previous *)
(* the last read if that was a fresh text at rest, and stable counts the   *)
(* latest reads under a stop button, whatever was read between them.       *)
(***************************************************************************)
EXTENDS AnswerPoll, TLAPS

ReadRecord == [answer : Texts, at : Nat, generating : BOOLEAN]

ReadsInv ==
  /\ reads \in Seq(ReadRecord)
  /\ \A i \in 1..Count : reads[i].at <= clock

\* The last fresh read is the one at j, 0 for none.
LastFresh(j) ==
  /\ j > 0 => Fresh(reads[j].answer)
  /\ \A k \in (j + 1)..Count : ~Fresh(reads[k].answer)

ProgressInv ==
  \E j \in 0..Count :
    /\ LastFresh(j)
    /\ progress = IF j = 0 THEN baseline ELSE reads[j].answer

NewTimes == {0} \cup {reads[i].at : i \in {j \in 1..Count : IsNew(j)}}

DeadlineInv ==
  /\ stallAt - Stall \in NewTimes
  /\ \A x \in NewTimes : x <= stallAt - Stall

Resting(i) == ~reads[i].generating /\ Fresh(reads[i].answer)

PreviousInv ==
  ~Ended => previous = IF Count > 0 /\ Resting(Count)
                       THEN reads[Count].answer ELSE NoAnswer

\* From read i on, the reads under a stop button are those in S, and all of
\* them show a.
Shown(a, i, S) ==
  /\ \A k \in S : reads[k].generating /\ reads[k].answer = a
  /\ \A k \in i..Count : reads[k].generating => k \in S

StableInv ==
  ~Ended =>
    /\ stable.polls \in {0, 1, 2}
    /\ stable.polls = 0 => stable.answer = NoAnswer
    /\ stable.polls > 0 => contract /\ stable.answer \in Valid /\ Fresh(stable.answer)
    /\ stable.polls = 1 => \E i \in 1..Count : Shown(stable.answer, i, {i})
    /\ stable.polls = 2 => \E i, j \in 1..Count :
                             i < j /\ Shown(stable.answer, i, {i, j})

\* No read under a stop button is left out of the count.
SteadyInv ==
  ~Ended => \A a \in Valid, i \in 1..Count : contract /\ Fresh(a) =>
    /\ Shown(a, i, {i}) => stable.answer = a /\ stable.polls > 0
    /\ \A j \in 1..Count : i < j /\ Shown(a, i, {i, j}) =>
         stable.answer = a /\ stable.polls = 2

TimeInv ==
  /\ ~Ended => why = "none"
  /\ pc = "poll" => clock <= Hard /\ clock <= stallAt
  /\ pc = "sleep" => clock <= Hard + MaxPoll /\ clock <= stallAt + MaxPoll
  /\ why = "stall" => clock > stallAt

PollInv ==
  /\ TypeOK /\ ReadsInv /\ ProgressInv /\ DeadlineInv /\ PreviousInv /\ StableInv
  /\ SteadyInv /\ TimeInv /\ AnswerSettled /\ AnswerNotMissed

-----------------------------------------------------------------------------
(* One more read.                                                          *)

LEMMA Sizes ==
  Stall \in Nat /\ Stall > 0 /\ Hard \in Nat /\ Hard > 0 /\ MaxPoll \in Nat
BY PollAssumption

(* The clock and the deadline are numbers, and a deadline lies ahead.      *)
LEMMA Times ==
  ASSUME PollInv
  PROVE  clock \in Nat /\ stallAt \in Nat /\ stallAt >= Stall
<1>1. clock \in 0..(Hard + Interval + MaxPoll) /\ stallAt \in Stall..(Hard + MaxPoll + Stall)
  BY DEF PollInv, TypeOK
<1> QED
  BY <1>1, Sizes

LEMMA ReadAppended ==
  ASSUME PollInv, NEW s \in Snapshots, NEW d \in 0..MaxPoll, Poll(s, d)
  PROVE  /\ Count \in Nat /\ Count' = Count + 1
         /\ clock \in Nat /\ clock' \in Nat /\ clock <= clock'
         /\ \A i \in 1..Count : reads'[i] = reads[i]
         /\ reads' \in Seq(ReadRecord)
         /\ reads'[Count + 1].answer = s.answer
         /\ reads'[Count + 1].at = clock'
         /\ reads'[Count + 1].generating = s.generating
         /\ UNCHANGED <<baseline, contract, cancel>>
         /\ s.answer \in Texts /\ s.generating \in BOOLEAN
<1> DEFINE r == [answer |-> s.answer, at |-> clock', generating |-> s.generating]
<1>1. /\ reads \in Seq(ReadRecord) /\ clock \in Nat /\ d \in Nat
      /\ clock' = clock + d
      /\ reads' = Append(reads, r)
      /\ UNCHANGED <<baseline, contract, cancel>>
  <2>1. reads \in Seq(ReadRecord)
    BY DEF PollInv, ReadsInv
  <2>2. clock \in Nat /\ d \in Nat
    BY Sizes, Times
  <2>3. clock' = clock + d /\ UNCHANGED <<baseline, contract, cancel>>
    BY DEF Poll
  <2>4. reads' = Append(reads, r)
    BY DEF Poll
  <2> QED
    BY <2>1, <2>2, <2>3, <2>4
<1>2. s.answer \in Texts /\ s.generating \in BOOLEAN
  BY DEF Snapshots
<1>3. clock' \in Nat /\ clock <= clock'
  BY <1>1
<1>4. r \in ReadRecord /\ r.answer = s.answer /\ r.at = clock' /\ r.generating = s.generating
  BY <1>2, <1>3 DEF ReadRecord
<1> HIDE DEF r
<1>5. /\ Count \in Nat /\ Count' = Count + 1 /\ reads' \in Seq(ReadRecord)
      /\ \A i \in 1..Count : reads'[i] = reads[i]
      /\ reads'[Count + 1] = r
  BY <1>1, <1>4 DEF Count
<1> QED
  BY <1>1, <1>2, <1>3, <1>4, <1>5

(* Whether an earlier read was new does not change, and the last one is if *)
(* it brought fresh text that is not the progress kept.                    *)
LEMMA NewRead ==
  ASSUME PollInv, NEW s \in Snapshots, NEW d \in 0..MaxPoll, Poll(s, d)
  PROVE  /\ \A i \in 1..Count : IsNew(i)' <=> IsNew(i)
         /\ \A n : n = Count + 1 =>
              (IsNew(n)' <=> Fresh(s.answer) /\ s.answer # progress)
<1>1. /\ Count \in Nat
      /\ \A i \in 1..Count : reads'[i] = reads[i]
      /\ reads'[Count + 1].answer = s.answer
      /\ UNCHANGED baseline
  BY ReadAppended
<1>3. ASSUME NEW i \in 1..Count
      PROVE  IsNew(i)' <=> IsNew(i)
  BY <1>1 DEF IsNew, Fresh
<1>4. ASSUME NEW n, n = Count + 1
      PROVE  IsNew(n)' <=> Fresh(s.answer) /\ s.answer # progress
  <2>1. PICK j \in 0..Count :
          /\ LastFresh(j)
          /\ progress = IF j = 0 THEN baseline ELSE reads[j].answer
    BY DEF PollInv, ProgressInv
  <2>2. IsNew(n)' <=> /\ Fresh(s.answer)
                      /\ \E l \in 0..Count :
                           /\ l > 0 => Fresh(reads[l].answer) /\ reads[l].answer # s.answer
                           /\ \A k \in (l + 1)..Count : ~Fresh(reads[k].answer)
    BY <1>1, <1>4 DEF IsNew, Fresh
  <2>3. ASSUME NEW l \in 0..Count, \A k \in (l + 1)..Count : ~Fresh(reads[k].answer),
               l > 0 => Fresh(reads[l].answer)
        PROVE  l = j
    BY <2>1, <2>3, <1>1 DEF LastFresh
  <2> QED
    BY <2>1, <2>2, <2>3 DEF LastFresh, Fresh
<1> QED
  BY <1>3, <1>4

LEMMA ProgressKept ==
  ASSUME PollInv, NEW s \in Snapshots, NEW d \in 0..MaxPoll, Poll(s, d)
  PROVE  ProgressInv'
<1>1. /\ Count \in Nat /\ Count' = Count + 1
      /\ \A i \in 1..Count : reads'[i] = reads[i]
      /\ reads'[Count + 1].answer = s.answer
      /\ UNCHANGED baseline
  BY ReadAppended
<1>3. progress' = IF Fresh(s.answer) THEN s.answer ELSE progress
  BY DEF Poll, Progress
<1>4. CASE Fresh(s.answer)
  <2> PICK n \in Nat : n = Count + 1
    BY <1>1
  <2>1. n \in 0..Count' /\ LastFresh(n)' /\ n # 0 /\ progress' = reads'[n].answer
    BY <1>1, <1>3, <1>4 DEF LastFresh, Fresh
  <2> QED
    BY <2>1 DEF ProgressInv
<1>5. CASE ~Fresh(s.answer)
  <2>1. PICK j \in 0..Count :
          /\ LastFresh(j)
          /\ progress = IF j = 0 THEN baseline ELSE reads[j].answer
    BY DEF PollInv, ProgressInv
  <2>2. LastFresh(j)'
    BY <2>1, <1>1, <1>5 DEF LastFresh, Fresh
  <2> QED
    BY <2>1, <2>2, <1>1, <1>3, <1>5 DEF ProgressInv
<1> QED
  BY <1>4, <1>5

LEMMA DeadlineKept ==
  ASSUME PollInv, NEW s \in Snapshots, NEW d \in 0..MaxPoll, Poll(s, d)
  PROVE  DeadlineInv' /\ stallAt <= stallAt' /\ clock' <= stallAt' + MaxPoll
<1> PICK n \in Nat : n = Count + 1
  BY ReadAppended
<1>1. /\ Count \in Nat /\ Count' = n
      /\ clock \in Nat /\ clock' \in Nat /\ clock <= clock'
      /\ \A i \in 1..Count : reads'[i] = reads[i]
      /\ reads'[n].at = clock'
  BY ReadAppended
<1>6. clock' <= clock + MaxPoll
  BY <1>1, Sizes DEF Poll
<1>7. ASSUME NEW i \in 1..Count
      PROVE  reads[i].at \in Nat /\ reads[i].at <= clock
  <2>1. reads[i] \in ReadRecord
    BY DEF PollInv, ReadsInv, Count
  <2> QED
    BY <2>1 DEF PollInv, ReadsInv, ReadRecord
<1>2. /\ \A i \in 1..Count : IsNew(i)' <=> IsNew(i)
      /\ IsNew(n)' <=> Fresh(s.answer) /\ s.answer # progress
  BY NewRead
<1> DEFINE New == Fresh(s.answer) /\ s.answer # progress
<1>3. \A x : x \in NewTimes' <=> x \in NewTimes \/ (New /\ x = clock')
  BY <1>1, <1>2 DEF NewTimes
<1>4. stallAt' = IF New THEN clock' + Stall ELSE stallAt
  BY DEF Poll, Progress
<1>8. clock <= stallAt
  BY DEF Poll, PollInv, TimeInv
<1>9. stallAt \in Nat /\ stallAt >= Stall
  BY Times
<1>5. \A x \in NewTimes : x \in Nat /\ x <= clock
  BY <1>1, <1>7 DEF NewTimes
<1> HIDE DEF New
<1>10. CASE New
  <2> PICK now \in Nat : clock' = now
    BY <1>1
  <2>1. stallAt' = now + Stall
    BY <1>4, <1>10
  <2>2. stallAt' - Stall = now
    BY <2>1, Sizes
  <2>6. now \in NewTimes'
    BY <1>3, <1>10
  <2>3. \A x \in NewTimes' : x <= now
    BY <1>1, <1>3, <1>5
  <2>4. stallAt - Stall <= clock
    BY <1>5 DEF PollInv, DeadlineInv
  <2>5. stallAt <= now + Stall
    BY <2>4, <1>1, <1>9, Sizes
  <2>7. now <= now + Stall + MaxPoll
    BY Sizes
  <2> QED
    BY <2>1, <2>2, <2>3, <2>5, <2>6, <2>7 DEF DeadlineInv
<1>11. CASE ~New
  <2>1. stallAt' = stallAt /\ NewTimes' = NewTimes
    BY <1>3, <1>4, <1>11
  <2>2. DeadlineInv
    BY DEF PollInv
  <2>3. DeadlineInv'
    BY <2>1, <2>2 DEF DeadlineInv
  <2> QED
    BY <2>1, <2>3, <1>1, <1>6, <1>8, <1>9, Sizes
<1> QED
  BY <1>10, <1>11

(* previous: the last read if it was a fresh text at rest.                 *)
LEMMA PreviousKept ==
  ASSUME PollInv, NEW s \in Snapshots, NEW d \in 0..MaxPoll, Poll(s, d)
  PROVE  PreviousInv'
<1> PICK n \in Nat \ {0} : n = Count + 1
  BY ReadAppended
<1>1. /\ Count' = n
      /\ reads'[n].answer = s.answer /\ reads'[n].generating = s.generating
      /\ baseline' = baseline
  BY ReadAppended
<1>2. previous' = IF ~s.generating /\ Fresh(s.answer) THEN s.answer ELSE NoAnswer
  BY DEF Poll, StillGenerating, NothingYet, Quiet
<1>3. Resting(n)' <=> ~s.generating /\ Fresh(s.answer)
  BY <1>1 DEF Resting, Fresh
<1> QED
  BY <1>1, <1>2, <1>3 DEF PreviousInv, Resting, Fresh

(* AnswerNotMissed: the loop ends with an answer when it reads the text    *)
(* that previous holds once more.                                          *)
LEMMA SecondLook ==
  ASSUME PollInv, NEW s \in Snapshots, NEW d \in 0..MaxPoll, Poll(s, d), AtRest'
  PROVE  why' = "answer"
<1> PICK n \in Nat \ {0} : n = Count + 1
  BY ReadAppended
<1>1. /\ Count \in Nat /\ Count' = n
      /\ reads'[n].answer = s.answer /\ reads'[n].generating = s.generating
      /\ \A i \in 1..Count : reads'[i] = reads[i]
      /\ baseline' = baseline
  BY ReadAppended
<1>2. /\ Count > 0 /\ n - 1 = Count
      /\ Fresh(s.answer)
      /\ \A i \in {n - 1, n} : ~reads'[i].generating /\ reads'[i].answer = s.answer
  BY <1>1 DEF AtRest, Fresh
<1>3. Resting(Count) /\ reads[Count].answer = s.answer /\ ~s.generating
  BY <1>1, <1>2 DEF Resting
<1>4. previous = s.answer
  BY <1>2, <1>3 DEF PollInv, PreviousInv, Ended, Poll
<1> QED
  BY <1>2, <1>3, <1>4 DEF Poll, StillGenerating, NothingYet, Quiet, Returned, Ends

(* The count under a stop button.  The third equal valid answer is the     *)
(* last of three reads that nothing else came between under the button.    *)
LEMMA CountKept ==
  ASSUME PollInv, NEW s \in Snapshots, NEW d \in 0..MaxPoll, Poll(s, d)
  PROVE  /\ StableInv'
         /\ stable' \in [answer : Texts, polls : 0..3]
         /\ s.generating /\ stable'.polls >= 3 => SteadyUnderButton'
<1> PICK m \in Nat : Count = m
  BY ReadAppended
<1> PICK n \in Nat \ {0} : n = m + 1
  OBVIOUS
<1>1. /\ Count = m /\ Count' = n /\ m = n - 1
      /\ \A i \in 1..Count : reads'[i] = reads[i]
      /\ reads'[n].answer = s.answer /\ reads'[n].generating = s.generating
      /\ baseline' = baseline /\ contract' = contract
      /\ s.answer \in Texts
  BY ReadAppended
<1>2. PICK a \in Texts, p \in {0, 1, 2} :
        /\ stable = [answer |-> a, polls |-> p]
        /\ p = 0 => a = NoAnswer
        /\ p > 0 => contract /\ a \in Valid /\ Fresh(a)
        /\ p = 1 => \E i \in 1..Count : Shown(a, i, {i})
        /\ p = 2 => \E i, j \in 1..Count : i < j /\ Shown(a, i, {i, j})
  <2>1. stable \in [answer : Texts, polls : 0..3]
    BY DEF PollInv, TypeOK
  <2>2. pc = "poll" /\ StableInv
    BY DEF PollInv, Poll
  <2> QED
    BY <2>1, <2>2 DEF StableInv, Ended
\* Reads before the last one stay shown.
<1>3. ASSUME NEW i \in 1..Count, NEW S, S \subseteq 1..Count, Shown(a, i, S)
      PROVE  /\ ~s.generating => Shown(a, i, S)'
             /\ s.generating /\ s.answer = a => Shown(a, i, S \cup {n})'
  <2>1. \A k \in S : reads'[k] = reads[k] /\ reads[k].generating /\ reads[k].answer = a
    BY <1>1, <1>3 DEF Shown
  <2>2. ASSUME NEW k \in i..n, reads'[k].generating
        PROVE  k \in S \/ (k = n /\ s.generating)
    <3>1. k = n \/ (k \in 1..Count /\ k \in i..Count)
      BY <1>1
    <3> QED
      BY <1>1, <1>3, <2>2, <3>1 DEF Shown
  <2> QED
    BY <1>1, <2>1, <2>2 DEF Shown
\* What has to be shown of the new count.
<1> DEFINE Counts(b, q) ==
      /\ q = 0 => b = NoAnswer
      /\ q > 0 => contract /\ b \in Valid /\ Fresh(b)
      /\ q = 1 => \E i \in 1..n : Shown(b, i, {i})'
      /\ q = 2 => \E i, j \in 1..n : i < j /\ Shown(b, i, {i, j})'
<1>8. ASSUME NEW b \in Texts, NEW q \in {0, 1, 2}, Counts(b, q),
             stable' = [answer |-> b, polls |-> q]
      PROVE  /\ StableInv' /\ ~(stable'.polls >= 3)
             /\ stable' \in [answer : Texts, polls : 0..3]
  <2>1. stable'.answer = b /\ stable'.polls = q
    BY <1>8
  <2>2. contract' = contract /\ (Fresh(b)' <=> Fresh(b)) /\ Count' = n
    BY <1>1 DEF Fresh
  <2>3. StableInv'
    BY <1>8, <2>1, <2>2 DEF StableInv
  <2> QED
    BY <1>8, <2>1, <2>3
<1> HIDE DEF Counts
<1>4. CASE ~s.generating
  <2>1. stable' = [answer |-> a, polls |-> p]
    BY <1>2, <1>4 DEF Poll, StillGenerating, NothingYet, Quiet
  <2>2. ASSUME p = 1
        PROVE  \E i \in 1..n : Shown(a, i, {i})'
    <3>1. PICK i \in 1..Count : Shown(a, i, {i})
      BY <1>2, <2>2
    <3>2. i \in 1..n /\ {i} \subseteq 1..Count
      BY <1>1
    <3>3. Shown(a, i, {i})'
      BY <1>3, <1>4, <3>1, <3>2
    <3> QED
      BY <3>2, <3>3
  <2>3. ASSUME p = 2
        PROVE  \E i, j \in 1..n : i < j /\ Shown(a, i, {i, j})'
    <3>1. PICK i, j \in 1..Count : i < j /\ Shown(a, i, {i, j})
      BY <1>2, <2>3
    <3>2. i \in 1..n /\ j \in 1..n /\ {i, j} \subseteq 1..Count
      BY <1>1
    <3>3. Shown(a, i, {i, j})'
      BY <1>3, <1>4, <3>1, <3>2
    <3> QED
      BY <3>1, <3>2, <3>3
  <2> QED
    BY <1>2, <1>4, <1>8, <2>1, <2>2, <2>3 DEF Counts
<1>5. CASE s.generating /\ ~(Fresh(s.answer) /\ contract /\ s.answer \in Valid)
  <2>1. stable' = [answer |-> NoAnswer, polls |-> 0]
    BY <1>5 DEF Poll, StillGenerating, NothingYet, Quiet, Recount, NotStable
  <2> QED
    BY <1>5, <2>1 DEF StableInv, Texts
<1>6. CASE /\ s.generating /\ Fresh(s.answer) /\ contract /\ s.answer \in Valid
           /\ s.answer # a
  <2>1. stable' = [answer |-> s.answer, polls |-> 1]
    BY <1>2, <1>6 DEF Poll, StillGenerating, NothingYet, Quiet, Recount
  <2> PICK b \in Texts : s.answer = b
    BY <1>1
  <2>2. n \in 1..n /\ Shown(b, n, {n})'
    <3>1. \A k \in n..n : k = n
      OBVIOUS
    <3>2. reads'[n].generating /\ reads'[n].answer = b
      BY <1>1, <1>6
    <3>3. \A k \in n..Count' : k \in {n}
      BY <1>1, <3>1
    <3> QED
      BY <3>2, <3>3 DEF Shown
  <2>3. Counts(b, 1)
    <3>1. contract /\ b \in Valid /\ Fresh(b)
      BY <1>6 DEF Fresh
    <3>2. \E i \in 1..n : Shown(b, i, {i})'
      BY <2>2
    <3> QED
      BY <3>1, <3>2 DEF Counts
  <2>4. stable' = [answer |-> b, polls |-> 1]
    BY <2>1
  <2> QED
    BY <1>8, <2>3, <2>4
<1>7. CASE /\ s.generating /\ Fresh(s.answer) /\ contract /\ s.answer \in Valid
           /\ s.answer = a
  <2>1. stable' = [answer |-> a, polls |-> p + 1] /\ p \in {1, 2}
    BY <1>2, <1>7 DEF Poll, StillGenerating, NothingYet, Quiet, Recount, Fresh
  <2>2. CASE p = 1
    <3>1. PICK i \in 1..Count : Shown(a, i, {i})
      BY <1>2, <2>2
    <3>2. Shown(a, i, {i} \cup {n})'
      BY <1>3, <1>7, <3>1
    <3>3. i \in 1..n /\ n \in 1..n /\ i < n /\ {i} \cup {n} = {i, n}
      BY <1>1
    <3>4. Shown(a, i, {i, n})'
      BY <3>2, <3>3
    <3> QED
      <4>1. stable' = [answer |-> a, polls |-> 2]
        BY <2>1, <2>2
      <4>2. Counts(a, 2)
        <5>1. contract /\ a \in Valid /\ Fresh(a)
          BY <1>7 DEF Fresh
        <5>2. \E l, j \in 1..n : l < j /\ Shown(a, l, {l, j})'
          BY <3>3, <3>4
        <5>3. 2 # 0 /\ 2 # 1
          OBVIOUS
        <5> QED
          BY <5>1, <5>2, <5>3, Zenon DEF Counts
      <4> QED
        BY <1>8, <4>1, <4>2
  <2>3. CASE p = 2
    <3>1. PICK i, j \in 1..Count : i < j /\ Shown(a, i, {i, j})
      BY <1>2, <2>3
    <3>2. Shown(a, i, {i, j} \cup {n})'
      BY <1>3, <1>7, <3>1
    <3>3. pc' = "ended"
      BY <1>7, <2>1, <2>3 DEF Poll, StillGenerating, NothingYet, Quiet, Returned, Ends
    <3>4. SteadyUnderButton'
      <4>1. /\ contract' /\ reads'[n].answer = a /\ a \in Valid /\ Fresh(a)'
            /\ reads'[n].generating /\ n \in 1..n
        <5>1. /\ contract' = contract /\ baseline' = baseline
              /\ reads'[n].answer = s.answer /\ reads'[n].generating = s.generating
          BY <1>1
        <5>2. contract /\ s.generating /\ s.answer = a
          BY <1>7
        <5> QED
          BY <1>7, <5>1, <5>2 DEF Fresh
      <4>2. /\ i \in 1..n /\ reads'[i].generating
            /\ j \in 1..n /\ reads'[j].generating /\ i < j /\ j < n
        BY <1>1, <3>1, <3>2 DEF Shown
      <4>3. \A k \in 1..n : reads'[k].generating /\ k >= i =>
              k \in {i, j, n} /\ reads'[k].answer = a
        BY <1>1, <3>2 DEF Shown
      <4> QED
        BY <1>1, <4>1, <4>2, <4>3 DEF SteadyUnderButton, Fresh
    <3> QED
      BY <1>1, <1>7, <2>1, <2>3, <3>3, <3>4 DEF StableInv, Ended
  <2> QED
    BY <2>1, <2>2, <2>3
<1> QED
  BY <1>4, <1>5, <1>6, <1>7

(* The same the other way round: equal valid reads under a stop button are *)
(* all counted, so the third of them is returned.                          *)
LEMMA NothingUncounted ==
  ASSUME PollInv, NEW s \in Snapshots, NEW d \in 0..MaxPoll, Poll(s, d)
  PROVE  SteadyInv' /\ (SteadyUnderButton' => why' = "answer")
<1> PICK m \in Nat : Count = m
  BY ReadAppended
<1> PICK n \in Nat \ {0} : n = m + 1
  OBVIOUS
<1>1. /\ Count = m /\ Count' = n /\ m = n - 1
      /\ \A i \in 1..m : reads'[i] = reads[i]
      /\ reads'[n].answer = s.answer /\ reads'[n].generating = s.generating
      /\ baseline' = baseline /\ contract' = contract
  BY ReadAppended
<1>2. SteadyInv /\ StableInv /\ pc = "poll" /\ stable \in [answer : Texts, polls : 0..3]
  BY DEF PollInv, Poll, TypeOK
<1>3. /\ ~s.generating => stable' = stable
      /\ s.generating => stable' = Recount(s)
      /\ s.generating /\ stable'.polls >= 3 => pc' = "ended" /\ why' = "answer"
  BY DEF Poll, StillGenerating, NothingYet, Quiet, Returned, Ends
\* What is shown after the read was shown before, but for the read itself.
<1>4. ASSUME NEW a, NEW i \in 1..m, NEW S \in SUBSET (1..n), Shown(a, i, S)'
      PROVE  /\ Shown(a, i, S \ {n})
             /\ s.generating => n \in S /\ s.answer = a
             /\ n \in S => s.generating
  <2>1. ASSUME NEW k \in S \ {n}
        PROVE  reads[k].generating /\ reads[k].answer = a
    <3>1. k \in 1..m
      BY <1>1
    <3> QED
      BY <1>1, <1>4, <3>1 DEF Shown
  <2>2. ASSUME NEW k \in i..m, reads[k].generating
        PROVE  k \in S \ {n}
    <3>1. k \in 1..m /\ k \in i..n /\ k # n
      BY <1>1
    <3> QED
      BY <1>1, <1>4, <2>2, <3>1 DEF Shown
  <2>3. n \in i..n
    BY <1>1
  <2> QED
    BY <1>1, <1>4, <2>1, <2>2, <2>3 DEF Shown
<1>5. ASSUME NEW a \in Valid, contract, Fresh(a), s.generating, s.answer = a
      PROVE  /\ stable'.answer = a /\ stable'.polls > 0
             /\ stable.answer = a => stable'.polls = stable.polls + 1
  BY <1>2, <1>3, <1>5 DEF Recount
<1>6. ASSUME NEW a \in Valid, NEW i \in 1..n, contract, Fresh(a), ~Ended',
             Shown(a, i, {i})'
      PROVE  stable'.answer = a /\ stable'.polls > 0
  <2>1. CASE i = n
    <3>1. s.generating /\ s.answer = a
      BY <1>1, <1>6, <2>1 DEF Shown
    <3> QED
      BY <1>5, <1>6, <3>1
  <2>2. CASE i \in 1..m
    <3>1. {i} \in SUBSET (1..n) /\ n \notin {i}
      BY <1>1, <2>2
    <3>2. Shown(a, i, {i} \ {n}) /\ ~s.generating
      BY <1>4, <1>6, <2>2, <3>1
    <3>3. {i} \ {n} = {i}
      BY <3>1
    <3>4. Shown(a, i, {i})
      BY <3>2, <3>3
    <3> QED
      BY <1>1, <1>2, <1>3, <1>6, <2>2, <3>2, <3>4 DEF SteadyInv, Ended
  <2> QED
    BY <1>1, <2>1, <2>2
\* Of two reads that show a the second may be the new one.
<1>7. ASSUME NEW a \in Valid, NEW i \in 1..n, NEW j \in 1..n, contract, Fresh(a),
             i < j, Shown(a, i, {i, j})'
      PROVE  stable'.answer = a /\ (stable'.polls = 2 \/ Ended')
  <2>1. i \in 1..m /\ {i, j} \in SUBSET (1..n) /\ i # n
    BY <1>1, <1>7
  <2>2. CASE j = n
    <3>1. {i, j} \ {n} = {i}
      BY <2>1, <2>2
    <3>2. Shown(a, i, {i}) /\ s.generating /\ s.answer = a
      BY <1>4, <1>7, <2>1, <2>2, <3>1
    <3>3. stable.answer = a /\ stable.polls > 0
      BY <1>1, <1>2, <1>7, <2>1, <3>2 DEF SteadyInv, Ended
    <3>4. stable.polls \in {1, 2}
      BY <1>2, <3>3 DEF StableInv, Ended
    <3>5. stable'.answer = a /\ stable'.polls = stable.polls + 1
      BY <1>5, <1>7, <3>2, <3>3
    <3>6. stable.polls = 2 => stable'.polls >= 3
      BY <3>5
    <3> QED
      BY <1>3, <3>2, <3>4, <3>5, <3>6 DEF Ended
  <2>3. CASE j # n
    <3>1. j \in 1..m /\ {i, j} \ {n} = {i, j}
      BY <1>1, <2>1, <2>3
    <3>2. Shown(a, i, {i, j}) /\ ~s.generating
      BY <1>4, <1>7, <2>1, <2>3, <3>1
    <3> QED
      BY <1>1, <1>2, <1>3, <1>7, <2>1, <3>1, <3>2 DEF SteadyInv, Ended
  <2> QED
    BY <2>2, <2>3
<1>8. SteadyInv'
  <2>1. ASSUME NEW a
        PROVE  Fresh(a)' <=> Fresh(a)
    BY <1>1 DEF Fresh
  <2> QED
    BY <1>1, <1>6, <1>7, <2>1 DEF SteadyInv
<1>9. ASSUME SteadyUnderButton'
      PROVE  why' = "answer"
  <2> PICK a : a = s.answer
    OBVIOUS
  <2>1. a \in Valid /\ contract /\ Fresh(a) /\ s.generating
    BY <1>1, <1>9 DEF SteadyUnderButton, Fresh
  <2>2. PICK i, j \in 1..n :
          /\ reads'[i].generating /\ reads'[j].generating /\ i < j /\ j < n
          /\ \A k \in 1..n : reads'[k].generating /\ k >= i =>
               k \in {i, j, n} /\ reads'[k].answer = a
    BY <1>1, <1>9 DEF SteadyUnderButton
  <2>3. i \in 1..m /\ j \in 1..m
    BY <1>1, <2>2
  <2>4. Shown(a, i, {i, j})
    <3>1. ASSUME NEW k \in {i, j}
          PROVE  reads[k].generating /\ reads[k].answer = a
      <4>1. k \in 1..n /\ k \in 1..m /\ k >= i /\ reads'[k].generating
        BY <2>2, <2>3
      <4> QED
        BY <1>1, <2>2, <4>1
    <3>2. ASSUME NEW k \in i..m, reads[k].generating
          PROVE  k \in {i, j}
      <4>1. k \in 1..m /\ k \in 1..n /\ k >= i /\ k # n
        BY <1>1, <2>3
      <4> QED
        BY <1>1, <2>2, <3>2, <4>1
    <3> QED
      BY <1>1, <3>1, <3>2 DEF Shown
  <2>5. stable.answer = a /\ stable.polls = 2
    BY <1>1, <1>2, <2>1, <2>2, <2>3, <2>4 DEF SteadyInv, Ended
  <2>6. stable'.polls = 3
    BY <1>5, <2>1, <2>5
  <2> QED
    BY <1>3, <2>1, <2>6
<1> QED
  BY <1>8, <1>9

(* AnswerSettled: the two ways to return an answer.                        *)
LEMMA ReturnSettled ==
  ASSUME PollInv, NEW s \in Snapshots, NEW d \in 0..MaxPoll, Poll(s, d),
         why' = "answer"
  PROVE  result' = s.answer /\ (AtRest' \/ SteadyUnderButton')
<1>1. why # "answer"
  BY DEF PollInv, TimeInv, Ended, Poll
<1>2. \/ s.generating /\ stable'.polls >= 3 /\ Returned(s.answer)
      \/ Quiet(s) /\ s.answer = previous /\ Returned(s.answer)
  <2>1. Returned(s.answer) \/ UNCHANGED why
    BY DEF Poll, StillGenerating, NothingYet, Quiet, GoOn
  <2>2. ~UNCHANGED why
    BY <1>1
  <2> QED
    BY <2>2 DEF Poll, StillGenerating, NothingYet, Quiet, GoOn
<1>3. CASE s.generating /\ stable'.polls >= 3 /\ Returned(s.answer)
  BY <1>3, CountKept DEF Returned
<1>4. CASE Quiet(s) /\ s.answer = previous /\ Returned(s.answer)
  <2> PICK m \in Nat : Count = m
    BY ReadAppended
  <2> PICK n \in Nat \ {0} : n = m + 1
    OBVIOUS
  <2>1. /\ Count' = n /\ m = n - 1
        /\ reads'[n].answer = s.answer /\ reads'[n].generating = s.generating
        /\ \A i \in 1..m : reads'[i] = reads[i]
        /\ baseline' = baseline
    BY ReadAppended
  <2>2. ~s.generating /\ Fresh(s.answer) /\ previous # NoAnswer
    BY <1>4 DEF Quiet, Fresh
  <2>3. m > 0 /\ Resting(m) /\ reads[m].answer = previous
    BY <2>2 DEF PollInv, PreviousInv, Ended, Poll
  <2>4. /\ ~reads'[n].generating /\ reads'[n].answer = s.answer
        /\ ~reads'[m].generating /\ reads'[m].answer = s.answer
    BY <1>4, <2>1, <2>2, <2>3 DEF Resting
  <2>5. reads'[n].answer \notin {NoAnswer, baseline'}
    BY <2>1, <2>2 DEF Fresh
  <2>6. AtRest'
    BY <2>1, <2>3, <2>4, <2>5 DEF AtRest, Fresh
  <2> QED
    BY <1>4, <2>6 DEF Returned
<1> QED
  BY <1>2, <1>3, <1>4

LEMMA PollKeeps ==
  ASSUME PollInv, NEW s \in Snapshots, NEW d \in 0..MaxPoll, Poll(s, d)
  PROVE  PollInv'
<1>1. /\ pc = "poll" /\ pc' \in {"sleep", "ended"} /\ clock' = clock + d
      /\ UNCHANGED <<baseline, contract, cancel>>
  BY DEF Poll, StillGenerating, NothingYet, Quiet, Returned, GoOn, Ends
<1>2. why = "none" /\ clock <= Hard /\ clock <= stallAt
  BY <1>1 DEF PollInv, TimeInv, Ended
<1>3. \/ why' = "answer" /\ pc' = "ended"
      \/ why' = why /\ pc' = "sleep" /\ result' = result
  BY DEF Poll, StillGenerating, NothingYet, Quiet, Returned, GoOn, Ends
<1>4. s.answer \in Texts /\ Count' \in Nat /\ reads' \in Seq(ReadRecord)
      /\ clock' \in Nat
  BY ReadAppended
<1>5. clock' <= Hard + MaxPoll
  BY <1>1, <1>2, Times, Sizes
<1>6. TypeOK'
  <2>1. clock' \in 0..(Hard + Interval + MaxPoll)
    BY <1>4, <1>5, Sizes DEF Interval
  <2>2. stallAt' \in Stall..(Hard + MaxPoll + Stall)
    <3>1. stallAt' = stallAt \/ stallAt' = clock' + Stall
      BY DEF Poll, Progress
    <3> PICK now \in Nat : clock' = now
      BY <1>4
    <3>2. now + Stall \in Stall..(Hard + MaxPoll + Stall)
      BY <1>5, Sizes
    <3> QED
      BY <3>1, <3>2 DEF PollInv, TypeOK
  <2>3. progress' \in Texts /\ previous' \in Texts /\ result' \in Texts
    <3>1. progress' \in {progress, s.answer} /\ previous' \in {s.answer, NoAnswer}
      BY DEF Poll, Progress, StillGenerating, NothingYet, Quiet
    <3>2. result' \in {result, s.answer}
      BY <1>3, ReturnSettled
    <3> QED
      BY <1>4, <3>1, <3>2 DEF PollInv, TypeOK, Texts
  <2>4. stable' \in [answer : Texts, polls : 0..3]
    BY CountKept
  <2>5. pc' \in {"sleep", "poll", "ended"} /\ why' \in {"none", "answer"}
    BY <1>2, <1>3
  <2>6. baseline' \in Texts /\ contract' \in BOOLEAN /\ cancel' \in BOOLEAN
    BY <1>1 DEF PollInv, TypeOK
  <2> QED
    BY <2>1, <2>2, <2>3, <2>4, <2>5, <2>6 DEF TypeOK
<1>7. ReadsInv'
  <2> PICK now \in Nat : clock' = now
    BY <1>4
  <2> PICK m \in Nat : Count = m
    BY ReadAppended
  <2>1. ASSUME NEW i \in 1..(m + 1)
        PROVE  reads'[i].at <= now
    <3>1. CASE i = m + 1
      BY <3>1, ReadAppended
    <3>2. CASE i \in 1..m
      <4>1. reads'[i] = reads[i] /\ clock <= now
        BY <3>2, ReadAppended
      <4>2. reads[i] \in ReadRecord /\ reads[i].at <= clock
        BY <3>2 DEF PollInv, ReadsInv, Count
      <4> QED
        BY <4>1, <4>2, Times DEF ReadRecord
    <3> QED
      BY <3>1, <3>2
  <2> QED
    BY <1>4, <2>1, ReadAppended DEF ReadsInv
<1>8. TimeInv'
  <2>1. clock' <= stallAt' + MaxPoll
    BY DeadlineKept
  <2> QED
    BY <1>1, <1>2, <1>3, <1>5, <2>1 DEF TimeInv, Ended
<1>9. AnswerSettled'
  <2>1. why' = "answer" => result' = reads'[Count'].answer
    BY ReturnSettled, ReadAppended
  <2> QED
    BY <2>1, ReturnSettled DEF AnswerSettled
<1>10. AnswerNotMissed'
  BY SecondLook, NothingUncounted DEF AnswerNotMissed
<1> QED
  BY <1>6, <1>7, <1>8, <1>9, <1>10, ProgressKept, DeadlineKept, PreviousKept, CountKept,
     NothingUncounted
     DEF PollInv

-----------------------------------------------------------------------------
(* The steps that read nothing.                                            *)

LEMMA NothingRead ==
  ASSUME PollInv, UNCHANGED <<baseline, contract, memory, result, reads>>,
         TypeOK', clock <= clock', TimeInv',
         pc = "ended" => pc' = "ended" /\ why' = why,
         pc # "ended" => why' # "answer"
  PROVE  PollInv'
<1>1. ReadsInv' /\ ProgressInv' /\ DeadlineInv'
  <2>1. ReadsInv'
    <3>1. ASSUME NEW i \in 1..Count
          PROVE  reads[i].at <= clock'
      <4>1. reads[i] \in ReadRecord /\ reads[i].at <= clock
        BY DEF PollInv, ReadsInv, Count
      <4>2. clock \in Nat /\ clock' \in 0..(Hard + Interval + MaxPoll)
        BY Times DEF TypeOK
      <4> QED
        BY <4>1, <4>2, Sizes DEF ReadRecord, Interval
    <3> QED
      BY <3>1 DEF PollInv, ReadsInv, Count
  <2>2. ProgressInv' <=> ProgressInv
    BY DEF memory, ProgressInv, LastFresh, Fresh, Count
  <2>3. DeadlineInv' <=> DeadlineInv
    BY DEF memory, DeadlineInv, NewTimes, IsNew, Fresh, Count
  <2> QED
    BY <2>1, <2>2, <2>3 DEF PollInv
<1>2. PreviousInv' /\ StableInv' /\ SteadyInv'
  <2>1. PreviousInv' /\ StableInv'
    BY DEF PollInv, memory, PreviousInv, StableInv, Ended, Shown, Resting, Fresh, Count
  <2>2. SteadyInv'
    BY DEF PollInv, memory, SteadyInv, Ended, Shown, Fresh, Count
  <2> QED
    BY <2>1, <2>2
<1>3. /\ AtRest' <=> AtRest
      /\ SteadyUnderButton' <=> SteadyUnderButton
  BY DEF AtRest, SteadyUnderButton, Fresh, Count
<1>4. AnswerSettled' /\ AnswerNotMissed'
  BY <1>3 DEF PollInv, AnswerSettled, AnswerNotMissed, TimeInv, Ended, Count
<1> QED
  BY <1>1, <1>2, <1>4 DEF PollInv

LEMMA SleepKeeps ==
  ASSUME PollInv, Sleep
  PROVE  PollInv'
<1>1. /\ pc = "sleep" /\ clock' = clock + 1
      /\ UNCHANGED <<baseline, contract, memory, cancel, result, reads>>
  BY DEF Sleep, Interval
<1>2. why = "none" /\ clock <= Hard + MaxPoll /\ clock <= stallAt + MaxPoll
  BY <1>1 DEF PollInv, TimeInv, Ended
<1> PICK now \in Nat : clock' = now
  BY <1>1, Times
<1>3. \/ pc' = "ended" /\ why' \in {"cancelled", "hard"}
      \/ pc' = "ended" /\ why' = "stall" /\ now > stallAt
      \/ pc' = "poll" /\ why' = why /\ ~(now > Hard) /\ ~(now > stallAt)
  BY DEF Sleep, Checks, Ends
<1>4. clock <= now /\ now \in 0..(Hard + Interval + MaxPoll)
  BY <1>1, <1>2, Times, Sizes DEF Interval
<1>5. TypeOK'
  BY <1>1, <1>2, <1>3, <1>4 DEF PollInv, TypeOK, memory
<1>6. TimeInv'
  BY <1>1, <1>2, <1>3, Times, Sizes DEF TimeInv, Ended, memory
<1> QED
  <2>1. clock <= clock'
    BY <1>4
  <2>2. pc # "ended" /\ why' # "answer"
    BY <1>1, <1>2, <1>3
  <2> QED
    BY <1>1, <1>5, <1>6, <2>1, <2>2, NothingRead

LEMMA OthersKeep ==
  ASSUME PollInv, (\E d \in 0..MaxPoll : PollFails(d)) \/ EndToEnd \/ Cancel \/ UNCHANGED vars
  PROVE  PollInv'
<1>1. UNCHANGED <<baseline, contract, memory, result, reads>>
  BY DEF PollFails, EndToEnd, Cancel, vars
<1>2. CASE UNCHANGED <<pc, clock, why>> /\ cancel' \in BOOLEAN
  <2>1. TypeOK' /\ TimeInv'
    BY <1>1, <1>2 DEF PollInv, TypeOK, TimeInv, Ended, memory
  <2>2. pc # "ended" => why # "answer"
    BY DEF PollInv, TimeInv, Ended
  <2> QED
    BY <1>1, <1>2, <2>1, <2>2, Times, NothingRead
<1>3. CASE EndToEnd
  <2>1. TypeOK' /\ TimeInv'
    BY <1>1, <1>3 DEF EndToEnd, Ends, PollInv, TypeOK, TimeInv, Ended, memory
  <2> QED
    <3>1. pc # "ended" /\ why' # "answer" /\ clock' = clock
      BY <1>3 DEF EndToEnd, Ends
    <3>2. clock <= clock'
      BY <3>1, Times
    <3> QED
      BY <1>1, <2>1, <3>1, <3>2, NothingRead
<1>4. ASSUME NEW d \in 0..MaxPoll, PollFails(d)
      PROVE  PollInv'
  <2>1. clock' = clock + d /\ pc = "poll" /\ pc' = "ended" /\ why' = "error"
    BY <1>4 DEF PollFails, Ends
  <2> PICK now \in Nat : clock' = now
    BY <2>1, Times, Sizes
  <2>2. clock <= now /\ now \in 0..(Hard + Interval + MaxPoll)
    BY <2>1, Times, Sizes DEF PollInv, TimeInv, Interval
  <2>3. TypeOK'
    BY <1>1, <1>4, <2>1, <2>2 DEF PollFails, PollInv, TypeOK, memory
  <2>4. TimeInv'
    BY <2>1 DEF TimeInv, Ended
  <2>5. clock <= clock'
    BY <2>2
  <2>6. pc # "ended" /\ why' # "answer"
    BY <2>1
  <2> QED
    BY <1>1, <2>3, <2>4, <2>5, <2>6, NothingRead
<1> QED
  BY <1>2, <1>3, <1>4 DEF Cancel, vars, PollInv, TypeOK

LEMMA PollInit == Init => PollInv
<1> SUFFICES ASSUME Init
             PROVE  PollInv
  OBVIOUS
<1>1. Count = 0 /\ reads = <<>>
  BY DEF Init, Count
<1>2. TypeOK
  <2>1. /\ 0 \in 0..(Hard + Interval + MaxPoll)
        /\ Stall \in Stall..(Hard + MaxPoll + Stall)
    BY Sizes DEF Interval
  <2>2. NotStable \in [answer : Texts, polls : 0..3] /\ NoAnswer \in Texts
    BY DEF NotStable, Texts
  <2> QED
    BY <2>1, <2>2 DEF Init, TypeOK
<1>3. ReadsInv
  BY <1>1 DEF ReadsInv
<1>4. ProgressInv
  BY <1>1 DEF Init, ProgressInv, LastFresh
<1>5. DeadlineInv
  <2>1. NewTimes = {0}
    BY <1>1 DEF NewTimes
  <2> QED
    BY <2>1, Sizes DEF Init, DeadlineInv
<1>6. PreviousInv /\ StableInv /\ SteadyInv
  BY <1>1 DEF Init, PreviousInv, StableInv, SteadyInv, NotStable
<1>7. TimeInv
  BY Sizes DEF Init, TimeInv, Ended
<1>8. AnswerSettled /\ AnswerNotMissed
  BY <1>1 DEF Init, AnswerSettled, AnswerNotMissed, AtRest, SteadyUnderButton
<1> QED
  BY <1>2, <1>3, <1>4, <1>5, <1>6, <1>7, <1>8 DEF PollInv

(* What the loop keeps stands for what it read, for every run.             *)
LEMMA PollInvariant == Spec => []PollInv
<1>1. ASSUME PollInv, [Next]_vars
      PROVE  PollInv'
  <2>1. \/ Sleep \/ Cancel \/ EndToEnd \/ UNCHANGED vars
        \/ \E d \in 0..MaxPoll : PollFails(d)
        \/ \E d \in 0..MaxPoll, s \in Snapshots : Poll(s, d)
    BY <1>1 DEF Next, Round
  <2> QED
    BY <1>1, <2>1, SleepKeeps, PollKeeps, OthersKeep
<1> QED
  BY <1>1, PollInit, PTL DEF Spec

LEMMA DeadlineStands ==
  ASSUME PollInv
  PROVE  stallAt = LastNew + Stall /\ LastNew \in Nat
<1> PICK last : last = stallAt - Stall
  OBVIOUS
<1>1. last \in NewTimes /\ \A x \in NewTimes : x <= last
  BY DEF PollInv, DeadlineInv
<1>2. NewTimes \subseteq Nat
  <2>1. ASSUME NEW i \in 1..Count
        PROVE  reads[i].at \in Nat
    <3>1. reads[i] \in ReadRecord
      BY DEF PollInv, ReadsInv, Count
    <3> QED
      BY <3>1 DEF ReadRecord
  <2> QED
    BY <2>1 DEF NewTimes
<1>3. LastNew = CHOOSE x \in NewTimes : \A y \in NewTimes : x >= y
  BY DEF LastNew, NewTimes, Max
<1>4. \E x \in NewTimes : \A y \in NewTimes : x >= y
  BY <1>1, <1>2
<1>5. LastNew \in NewTimes /\ \A y \in NewTimes : LastNew >= y
  BY <1>3, <1>4
<1>6. LastNew = last
  BY <1>1, <1>2, <1>5
<1> QED
  BY <1>1, <1>2, <1>6, Times, Sizes

(* What is returned was read last, and twice at rest or three times under  *)
(* a stop button, none of it from before the send.                         *)
THEOREM ReturnedIsSettled == Spec => []AnswerSettled
<1>1. PollInv => AnswerSettled
  BY DEF PollInv
<1> QED
  BY <1>1, PollInvariant, PTL

(* No timeout overtakes an answer that has come to rest.                   *)
THEOREM RestIsAnswer == Spec => []AnswerNotMissed
<1>1. PollInv => AnswerNotMissed
  BY DEF PollInv
<1> QED
  BY <1>1, PollInvariant, PTL

(* Only a page without new text for stall_seconds is given up as stalled,  *)
(* whatever flickers or a stop button it showed in between.                *)
THEOREM StalledIsStill == Spec => []StallIsStall
<1>1. PollInv => StallIsStall
  BY DeadlineStands DEF PollInv, TimeInv, StallIsStall
<1> QED
  BY <1>1, PollInvariant, PTL

(* No page holds a worker for longer than the hard or the stall timeout    *)
(* and one round of the loop.                                              *)
THEOREM PagesAreGivenUp == Spec => []GivenUpInTime
<1>1. ASSUME PollInv, ~Ended
      PROVE  clock <= LastNew + Stall + Interval + MaxPoll /\ clock <= Hard + MaxPoll
  <2>1. pc \in {"sleep", "poll"}
    BY <1>1 DEF PollInv, TypeOK, Ended
  <2>2. clock <= stallAt + MaxPoll /\ clock <= Hard + MaxPoll
    BY <1>1, <2>1, Times, Sizes DEF PollInv, TimeInv
  <2>3. LastNew \in Nat /\ stallAt = LastNew + Stall
    BY <1>1, DeadlineStands
  <2> QED
    BY <1>1, <2>2, <2>3, Times, Sizes DEF Interval
<1>2. PollInv => GivenUpInTime
  BY <1>1 DEF PollInv, GivenUpInTime, FrozenPageEnds, HardBound
<1> QED
  BY <1>2, PollInvariant, PTL

=============================================================================
