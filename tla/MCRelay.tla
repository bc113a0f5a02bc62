------------------------------ MODULE MCRelay ------------------------------
(***************************************************************************)
(* Small deployments of Relay for TLC: which targets there are, which      *)
(* worker slot belongs to which, and where tasks may go.                   *)
(***************************************************************************)
EXTENDS RelayRefinement

\* All slots on one webbridge target, or all on one CLI, ACP or API target.
OneTarget == {"target"}
SameTarget == [w \in Workers |-> "target"]
SameRoute == [t \in Tasks |-> OneTarget]

\* Slot 1 on one target, the others on another; task 1 is adaptive and may go
\* to either, the others are pinned to the second.
TwoTargets == {"first", "second"}
SlotFirst == [w \in Workers |-> IF w = 1 THEN "first" ELSE "second"]
TaskAnywhere == [t \in Tasks |-> IF t = 1 THEN TwoTargets ELSE {"second"}]
AllButFirst == Tasks \ {1}

NoTargets == {}
NoTasks == {}
AllTasks == Tasks
FirstTwo == {1, 2}
=============================================================================
