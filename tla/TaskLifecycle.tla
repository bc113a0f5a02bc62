---------------------------- MODULE TaskLifecycle ----------------------------
(***************************************************************************)
(* What ai-relay promises the client of one task, with no queue, no worker *)
(* and no process in sight: the statuses a task goes through, how often    *)
(* it may be tried again, and when its prompt may be sent again.           *)
(***************************************************************************)
EXTENDS Naturals

CONSTANT MaxRetries   \* retry budget of the task, a natural number

VARIABLES
  status,    \* the status the API shows
  retries,   \* attempts beyond the first, automatic and manual
  sent       \* "no", "clicked" or "confirmed": a prompt is out, unanswered

vars == <<status, retries, sent>>

Waiting == {"queued", "retry_wait"}
Final == {"done", "failed", "cancelled", "expired", "interrupted",
          "outcome_unknown"}

Init == status = "none" /\ retries = 0 /\ sent = "no"

\* The task is accepted.
Accept ==
  /\ status = "none" /\ status' = "queued"
  /\ UNCHANGED <<retries, sent>>

\* A worker takes it.
Take ==
  /\ status \in Waiting /\ status' = "running"
  /\ UNCHANGED <<retries, sent>>

\* A waiting task is given up.
Drop ==
  /\ status \in Waiting /\ status' \in {"cancelled", "expired", "failed"}
  /\ UNCHANGED <<retries, sent>>

\* The prompt goes out, only from a running attempt.
Send ==
  /\ status = "running"
  /\ sent # "confirmed" /\ sent' \in {"clicked", "confirmed"}
  /\ UNCHANGED <<status, retries>>

\* The attempt ends the task.  "done" means that the answer is known.
Conclude ==
  /\ status = "running" /\ status' \in Final \ {"expired"}
  /\ sent' \in {sent, "no"}
  /\ status' = "done" => sent' = "no"
  /\ UNCHANGED retries

\* The attempt is to be repeated, within the budget, and never while a prompt
\* confirmed sent has no known answer; or there is no room to wait.
Repeat ==
  /\ status = "running" /\ status' \in {"retry_wait", "failed"}
  /\ retries < MaxRetries /\ retries' = retries + 1
  /\ sent' \in {sent, "no"}
  /\ sent = "confirmed" => sent' = "no"

\* Somebody asks for a new attempt, having looked at the outcome.
Again ==
  /\ status \in Final \ {"done"} /\ status' \in {"queued", "failed"}
  /\ retries' = retries + 1
  /\ sent' = "no"

Next == Accept \/ Take \/ Drop \/ Send \/ Conclude \/ Repeat \/ Again

Spec == Init /\ [][Next]_vars
=============================================================================
