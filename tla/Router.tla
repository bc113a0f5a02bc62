------------------------------- MODULE Router -------------------------------
(***************************************************************************)
(* Which worker the pool gives a task: exact targets, browser tasks by     *)
(* site, adaptive tasks by a weighted draw over the targets' history.  The *)
(* state is what a decision reads, the states of the slots and the metrics *)
(* of the targets; the properties are about every task and every draw in   *)
(* it.  Weights are fixed-point numbers, Unit for 1.0.                     *)
(***************************************************************************)
EXTENDS Integers, Sequences, FiniteSetsExt

CONSTANTS
  Targets,         \* target ids, in sorted order: 1..n
  TargetOf,        \* TargetOf[w]: the target of slot w; slots are 1..m, as in
                   \* the configuration
  SiteOf,          \* SiteOf[w]: its site, NoSite for an external target
  NoSite,
  Models,          \* the models a task may ask for
  NoModel,         \* of a task that asks for none
  Fits,            \* Fits[t]: those whose name occurs in the model of t, which
                   \* all its slots have
  Allowed, Cap,    \* a task policy: allowed_targets, max_in_flight_per_target
  LatencyScore,    \* exp(-latency / reference) by level; level 1: no latency
  MinSamples, Exploration, FailurePenalty, UnknownPenalty,  \* config.routing
  MaxAttempts      \* bound: attempts in the window, of all targets

Unit == 10000

ASSUME RouterAssumption ==
  /\ IsFiniteSet(Targets) /\ Targets = 1..Cardinality(Targets)
  /\ TargetOf \in Seq(Targets)
  /\ Fits \in [Targets -> SUBSET Models] /\ NoModel \notin Models
  /\ Allowed \subseteq Targets /\ Cap \in Nat \ {0}
  /\ 1 \in DOMAIN LatencyScore /\ LatencyScore[1] = Unit
  /\ \A l \in DOMAIN LatencyScore : LatencyScore[l] \in 0..Unit
  /\ MinSamples \in Nat \ {0} /\ MaxAttempts \in Nat
  /\ {Exploration, FailurePenalty, UnknownPenalty} \subseteq 0..Unit

Workers == DOMAIN TargetOf
Slots(t) == {w \in Workers : TargetOf[w] = t}
Browsers == {w \in Workers : SiteOf[w] # NoSite}
Sites == {SiteOf[w] : w \in Browsers}
Levels == DOMAIN LatencyScore

VARIABLES
  state,    \* state[w]: WorkerState
  metrics   \* metrics[t]: the finished attempts of t in the window.  ok and
            \* error by error_code; unknown: send_outcome_unknown; dragged:
            \* errors of tasks that ended outcome_unknown, counted twice

vars == <<state, metrics>>

In(s) == {w \in Workers : state[w] = s}
NoMetrics == [ok |-> 0, error |-> 0, unknown |-> 0, dragged |-> 0, level |-> 1]
Attempts(t) == metrics[t].ok + metrics[t].error + metrics[t].unknown
Unknowns(t) == metrics[t].unknown + metrics[t].dragged

\* Sums(f)[n]: the sum of f over the first n targets.
Sums(f) ==
  LET sum[n \in 0..Cardinality(Targets)] ==
        IF n = 0 THEN 0 ELSE sum[n - 1] + f[n]
  IN sum

\* The attempts of all targets, which MaxAttempts bounds.
InWindow == Sums([t \in Targets |-> Attempts(t)])[Cardinality(Targets)]

-----------------------------------------------------------------------------
(* AdaptiveRouter._score.                                                  *)

Times(x, y) == (x * y) \div Unit
Ratio(n, m) == (n * Unit) \div m

SuccessRate(t) == Ratio(metrics[t].ok + 2, Attempts(t) + 4)

Rate(n, t) == IF Attempts(t) = 0 THEN 0 ELSE Ratio(n, Attempts(t))

Reliability(t) ==
  Max({Unit \div 20,
       Times(Times(SuccessRate(t),
                   Unit - Times(FailurePenalty, Rate(metrics[t].error, t))),
             Unit - Times(UnknownPenalty, Rate(Unknowns(t), t)))})

Capacity(t) ==
  (Unit + Ratio(Cardinality(Slots(t) \cap In("idle")) + 1,
                Cardinality(Slots(t)) + 1)) \div 2

\* Mutant: successes are counted, not samples.
BonusUntilSuccess(t) ==
  (Exploration * Max({0, MinSamples - metrics[t].ok})) \div MinSamples

Bonus(t) == (Exploration * Max({0, MinSamples - Attempts(t)})) \div MinSamples

Weight(t) ==
  Max({1, Times(Times(Reliability(t), LatencyScore[metrics[t].level]),
                Capacity(t)) + Bonus(t)})

-----------------------------------------------------------------------------
(* AdaptiveRouter.rank and choose.  A policy is [allowed, cap]; NoPolicy   *)
(* allows every target any number of slots.                                *)

NoPolicy == [allowed |-> Targets, cap |-> Cardinality(Workers) + 1]
Policies == {NoPolicy, [allowed |-> Allowed, cap |-> Cap]}

Busy(t) == Cardinality(Slots(t) \cap In("busy"))

\* Mutant: a target may still be starting.
EligibleAlive(p) ==
  {t \in p.allowed : ~(Slots(t) \subseteq In("degraded")) /\ Busy(t) < p.cap}

\* With require_idle, as the dispatcher asks.
Eligible(p) ==
  {t \in p.allowed : Slots(t) \cap In("idle") # {} /\ Busy(t) < p.cap}

\* Sum of the weights of E up to t.
Cumulative(E, t) ==
  Sums([u \in Targets |-> IF u \in E THEN Weight(u) ELSE 0])[t]

\* The first target whose cumulative weight reaches the threshold x.
Drawn(E, x) ==
  LET hit == {t \in E : x <= Cumulative(E, t)}
  IN IF hit = {} THEN Max(E) ELSE Min(hit)

-----------------------------------------------------------------------------
(* WorkerPool._find_dispatch_worker.  0 stands for None.                   *)

First(S) == IF S = {} THEN 0 ELSE Min(S)

\* A task may name a model that no slot has: a target accepts others than its
\* own (allowed_models), a recovered task names one of an older configuration.
Tasks ==
  LET model == Models \cup {NoModel}
  IN [mode : {"target"}, target : Targets, policy : Policies, model : model]
       \cup [mode : {"adaptive"}, policy : Policies]
       \cup [mode : {"browser"}, site : Sites \cup {NoSite},
             tried : SUBSET Sites, switch : BOOLEAN, model : model]

\* _model_matches, for the modes that look at the model.
Matches(w, k) == k.model = NoModel \/ k.model \in Fits[TargetOf[w]]

\* An exact target; the cap of a policy holds for it too.
FindExact(k) ==
  IF Busy(k.target) >= k.policy.cap THEN 0
  ELSE First({w \in Slots(k.target) \cap In("idle") : Matches(w, k)})

FindAdaptive(k, x) ==
  LET E == Eligible(k.policy)
  IN IF E = {} THEN 0 ELSE First(Slots(Drawn(E, x)) \cap In("idle"))

\* _find_legacy_idle_worker.
FindSite(k) ==
  LET idle == {w \in Browsers \cap In("idle") : Matches(w, k)}
      own == {w \in idle : SiteOf[w] = k.site}
      untried == {w \in idle : SiteOf[w] \notin k.tried}
      named == k.site # NoSite /\ k.site \notin k.tried
  IN IF ~k.switch THEN IF k.site = NoSite THEN First(idle) ELSE First(own)
     ELSE IF named /\ own # {} THEN First(own)
     ELSE IF named /\ k.tried = {} THEN 0
     ELSE IF untried # {} THEN First(untried) ELSE First(idle)

Found(k, x) ==
  CASE k.mode = "target" -> FindExact(k)
    [] k.mode = "adaptive" -> FindAdaptive(k, x)
    [] k.mode = "browser" -> FindSite(k)

-----------------------------------------------------------------------------
(* What a decision reads changes.                                          *)

\* A slot that is starting again counts like one that is degraded.
WorkerChanges(w) ==
  /\ \E s \in {"idle", "busy", "degraded"} :
       state' = [state EXCEPT ![w] = s]
  /\ UNCHANGED metrics

\* An attempt of t ends with code c; the average latency moves with it.
AttemptEnds(t, c) ==
  /\ InWindow < MaxAttempts
  /\ \E l \in Levels :
       metrics' =
         [metrics EXCEPT ![t] = [metrics[t] EXCEPT ![c] = @ + 1, !.level = l]]
  /\ UNCHANGED state

\* A task whose earlier attempt failed on t ends outcome_unknown, there or on
\* another target.
AttemptDragged(t) ==
  /\ metrics[t].dragged < metrics[t].error
  /\ metrics' = [metrics EXCEPT ![t].dragged = @ + 1]
  /\ UNCHANGED state

\* The attempts of t are older than window_seconds.
WindowPasses(t) ==
  /\ metrics' = [metrics EXCEPT ![t] = NoMetrics]
  /\ UNCHANGED state

Init ==
  /\ state \in [Workers -> {"idle", "degraded"}]
  /\ metrics = [t \in Targets |-> NoMetrics]

Next ==
  \/ \E w \in Workers : WorkerChanges(w)
  \/ \E t \in Targets :
       \/ \E c \in {"ok", "error", "unknown"} : AttemptEnds(t, c)
       \/ AttemptDragged(t) \/ WindowPasses(t)

Spec == Init /\ [][Next]_vars

-----------------------------------------------------------------------------
(* Properties, for every task and draw.  It is enough to draw at the ends  *)
(* of the targets' intervals.                                              *)

Draws(p) ==
  LET E == Eligible(p)
      ends == {0} \cup {Cumulative(E, t) : t \in E}
  IN ends \cup {x + 1 : x \in ends \ {Max(ends)}}

DrawsFor(k) == IF k.mode = "adaptive" THEN Draws(k.policy) ELSE {0}

\* The values the variables and the scores take: no history drives a factor
\* out of its range.
TypeOK ==
  /\ state \in [Workers -> {"idle", "busy", "degraded"}]
  /\ \A t \in Targets :
       /\ Attempts(t) <= MaxAttempts /\ Unknowns(t) <= Attempts(t)
       /\ Reliability(t) \in (Unit \div 20)..Unit
       /\ Weight(t) \in 1..(2 * Unit)

\* Task k may be given to worker w now.
Admits(k, w) ==
  /\ w \in In("idle")
  /\ CASE k.mode = "target" -> /\ TargetOf[w] = k.target /\ Matches(w, k)
                               /\ Busy(k.target) < k.policy.cap
       [] k.mode = "adaptive" -> /\ TargetOf[w] \in k.policy.allowed
                                 /\ Busy(TargetOf[w]) < k.policy.cap
       [] k.mode = "browser" ->
            /\ w \in Browsers /\ Matches(w, k)
            /\ \/ k.site \in {NoSite, SiteOf[w]}
               \/ k.switch /\ k.tried # {}

\* A task is given a worker exactly when there is one it may have, and then
\* one of those, whatever is drawn.
ServedIfPossible ==
  \A k \in Tasks : \A x \in DrawsFor(k) :
    IF \E w \in Workers : Admits(k, w)
    THEN Admits(k, Found(k, x)) ELSE Found(k, x) = 0

\* A browser task that may switch gets a site it has tried only when all sites
\* with an idle slot of its model have been tried, and its own site, if that is
\* one of them, as long as it has not failed there.
SitesInTurn ==
  \A k \in Tasks : k.mode = "browser" /\ k.switch =>
    LET w == Found(k, 0)
        idle == {SiteOf[v] :
                   v \in {u \in Browsers \cap In("idle") : Matches(u, k)}}
    IN w # 0 =>
         /\ SiteOf[w] \in k.tried => idle \subseteq k.tried
         /\ k.site \in idle \ k.tried => SiteOf[w] = k.site

(* For every task: it is served if it can be, no exact task leaves its      *)
(* target, no first browser attempt its site, neither the model it asks     *)
(* for, no policy its targets and cap, no draw lands on a target without an *)
(* idle slot, and a retry goes through the sites in turn                    *)
(* (_find_dispatch_worker).                                                 *)
RightWorker == ServedIfPossible /\ SitesInTurn

\* Each eligible target has its weight's share of the draws, and none has an
\* empty share.
DrawIsProportional ==
  \A p \in Policies : LET E == Eligible(p) IN
    \A t \in E :
      /\ Weight(t) >= 1
      /\ Drawn(E, Cumulative(E, t)) = t
      /\ Drawn(E, Cumulative(E, t) - Weight(t) + 1) = t

\* t has done no better than u, with as many slots and attempts.
NoBetter(t, u) ==
  /\ Cardinality(Slots(t)) = Cardinality(Slots(u))
  /\ Cardinality(Slots(t) \cap In("idle"))
       = Cardinality(Slots(u) \cap In("idle"))
  /\ Attempts(t) = Attempts(u) /\ metrics[t].ok <= metrics[u].ok
  /\ metrics[t].error >= metrics[u].error /\ Unknowns(t) >= Unknowns(u)
  /\ LatencyScore[metrics[t].level] <= LatencyScore[metrics[u].level]

\* Of two targets with as many slots and attempts, the one that failed and
\* was unknown no less often, succeeded no more often and was no faster has
\* no greater weight.
WorseIsRarer ==
  \A t, u \in Targets : NoBetter(t, u) => Weight(t) <= Weight(u)

(* For every history and policy: the scores keep their ranges, the draw     *)
(* follows the weights, no target is shut out for good, and a target that   *)
(* did worse is not drawn more often ("adaptive routing" in the README).    *)
FairDraw == TypeOK /\ DrawIsProportional /\ WorseIsRarer

(* Claimed by the docstring of AdaptiveRouter: every healthy target keeps a *)
(* probability of exploration_weight.  It does not hold: the bonus is added *)
(* to a weight, is not a share of the draw, and ends with min_samples.      *)
KeepsExploration ==
  LET E == Eligible(NoPolicy) IN
    \A t \in E : Weight(t) * Unit >= Exploration * Cumulative(E, Max(Targets))

(* Meant by allowed_models: submit takes a model for an API target because  *)
(* the target lists it, and the worker would ask the API for it.  It does   *)
(* not hold: slots are compared with the target's own model (pool.py:436),  *)
(* so such a task waits beside idle slots until it expires.                 *)
AnyModelIsServed ==
  \A k \in Tasks :
    LET slots == Slots(k.target)
    IN /\ k.mode = "target" /\ slots # {} /\ slots \subseteq In("idle")
       /\ \A w \in slots : SiteOf[w] = NoSite
       => Found(k, 0) # 0
=============================================================================
