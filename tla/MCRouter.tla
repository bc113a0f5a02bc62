------------------------------ MODULE MCRouter ------------------------------
(***************************************************************************)
(* Two browser targets on sites of their own and an API target, with the   *)
(* routing defaults of config.py.                                          *)
(***************************************************************************)
EXTENDS Router

ThreeTargets == 1..3
FourSlots == <<1, 1, 2, 3>>
TwoSites == <<"kimi", "kimi", "minimax", "none">>
TwoModels == {"k2", "m1"}

\* A site of its own for each model; the API target has m1.
ModelFits == <<{"k2"}, {"m1"}, {"m1"}>>
OnlyBrowsers == {1, 2}

\* No latency, and so many references that nothing is left.
TwoLevels == <<10000, 0>>
=============================================================================
