--------------------------- MODULE RelayRefinement ---------------------------
(***************************************************************************)
(* Relay implements the promise of TaskLifecycle to every task at once.    *)
(***************************************************************************)
EXTENDS Relay

Promise(t) == INSTANCE TaskLifecycle
  WITH status <- task[t].status, retries <- task[t].retries, sent <- sent[t]

\* Every step of the relay is, seen from any task, a step that the task's
\* promise allows or no step at all: TaskStatus as the API reports it, the
\* budget of _on_retry_needed, and "outcome_unknown is never replayed".
KeepsPromises ==
  /\ \A t \in Tasks : Promise(t)!Init
  /\ [][\A t \in Tasks : [Promise(t)!Next]_(Promise(t)!vars)]_vars
=============================================================================
