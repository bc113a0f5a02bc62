---------------------------- MODULE RouterProofs ----------------------------
(***************************************************************************)
(* For every configuration, history, state of the slots and draw, the pool *)
(* finds the right worker (RightWorker) and the draw is fair (FairDraw).   *)
(*                                                                         *)
(* RightWorker holds of every state: it is a fact about the choice.  The   *)
(* scores of FairDraw need a history that is counted rightly (HistoryInv); *)
(* given one, each factor is a share of Unit and keeps the order of what   *)
(* it is computed from, and the draw is a fact about cumulative sums.      *)
(*                                                                         *)
(* Sums is a recursive function.  That its equation defines it, and what   *)
(* follows by going through the targets, is proved with Induct, induction  *)
(* over a set of numbers: were a number missing, the least one missing     *)
(* (WFMin) would be the successor of one that is there.                    *)
(***************************************************************************)
EXTENDS Router, SequenceTheorems, FiniteSetTheorems, WellFoundedInduction,
        TLAPS

\* The number of targets.
Last == Cardinality(Targets)

-----------------------------------------------------------------------------
(* Numbers.                                                                *)

(* A set of naturals has a least element.                                  *)
LEMMA Least ==
  ASSUME NEW T \in SUBSET Nat, T # {}
  PROVE  \E x \in T : \A y \in T : x <= y
  <1>1. PICK x \in T : \A y \in T : <<y, x>> \notin OpToRel(<, Nat)
    BY NatLessThanWellFounded, WFMin
  <1>2. ASSUME NEW y \in T
        PROVE  x <= y
    <2>1. x \in Nat /\ y \in Nat /\ ~(y < x)
      BY <1>1 DEF OpToRel
    <2>. QED BY <2>1
  <1>. QED BY <1>2

(* What holds of 0 and of every successor holds of every number.           *)
LEMMA Induct ==
  ASSUME NEW T, 0 \in T, \A n \in Nat : n \in T => n + 1 \in T
  PROVE  \A n \in Nat : n \in T
  <1>1. SUFFICES ASSUME Nat \ T # {}
                 PROVE  FALSE
    OBVIOUS
  <1>2. PICK x \in Nat \ T : \A y \in Nat \ T : x <= y
    BY <1>1, Least
  <1>3. x # 0 /\ x - 1 \in Nat /\ ~(x <= x - 1) /\ (x - 1) + 1 = x
    BY <1>2
  <1>4. x - 1 \in T
    BY <1>2, <1>3
  <1>. QED BY <1>2, <1>3, <1>4

LEMMA MinIsLeast ==
  ASSUME NEW T \in SUBSET Nat, T # {}
  PROVE  Min(T) \in T /\ \A y \in T : Min(T) <= y
  BY Least DEF Min

LEMMA MaxIsIn ==
  ASSUME NEW n \in Nat, NEW T \in SUBSET (0..n), T # {}
  PROVE  Max(T) \in T
  <1> DEFINE U == {n - y : y \in T}
  <1>1. U \in SUBSET Nat /\ U # {}
    <2>1. \A y \in T : n - y \in Nat
      OBVIOUS
    <2>. QED BY <2>1
  <1>2. PICK u \in U : \A v \in U : u <= v
    BY <1>1, Least
  <1>3. PICK x \in T : u = n - x
    BY <1>2
  <1>4. ASSUME NEW y \in T
        PROVE  x >= y
    <2>1. n - y \in U
      OBVIOUS
    <2>2. n - x <= n - y
      BY <1>2, <1>3, <2>1
    <2>3. x \in Nat /\ y \in Nat
      OBVIOUS
    <2> HIDE DEF U
    <2>. QED BY <2>2, <2>3
  <1>5. \E z \in T : \A y \in T : z >= y
    BY <1>4
  <1>. QED BY <1>5 DEF Max

LEMMA MaxOfTwo ==
  ASSUME NEW x \in Int, NEW y \in Int
  PROVE  Max({x, y}) = IF x >= y THEN x ELSE y
  <1>1. CASE x >= y
    BY <1>1 DEF Max
  <1>2. CASE ~(x >= y)
    BY <1>2 DEF Max
  <1>. QED BY <1>1, <1>2

(* g is the function of the first m sums of f.                             *)
IsSum(f, g, m) ==
  g = [n \in 0..m |-> IF n = 0 THEN 0 ELSE g[n - 1] + f[n]]

LEMMA SumValues ==
  ASSUME NEW f, NEW g, NEW m \in Nat, IsSum(f, g, m)
  PROVE  g[0] = 0 /\ \A n \in 1..m : g[n] = g[n - 1] + f[n]
  BY DEF IsSum

(* There is one, as far as there are targets.                              *)
LEMMA SumExists ==
  ASSUME NEW f \in [1..Last -> Nat], Last \in Nat
  PROVE  \E g : IsSum(f, g, Last)
  <1> DEFINE T == {m \in Nat : m <= Last => \E g : IsSum(f, g, m)}
  <1>1. 0 \in T
    <2>1. IsSum(f, [n \in 0..0 |-> 0], 0)
      BY DEF IsSum
    <2>. QED BY <2>1
  <1>2. ASSUME NEW m \in Nat, m \in T
        PROVE  m + 1 \in T
    <2>1. SUFFICES ASSUME m + 1 <= Last
                   PROVE  \E g : IsSum(f, g, m + 1)
      BY <1>2
    <2>2. m <= Last
      BY <2>1
    <2>3. PICK g : IsSum(f, g, m)
      BY <1>2, <2>2
    <2> DEFINE h == [n \in 0..(m + 1) |->
                       IF n = m + 1 THEN g[m] + f[m + 1] ELSE g[n]]
    <2>4. ASSUME NEW n \in 0..(m + 1)
          PROVE  h[n] = IF n = 0 THEN 0 ELSE h[n - 1] + f[n]
      <3>1. CASE n = m + 1
        BY <3>1
      <3>2. CASE n \in 1..m
        <4>1. /\ n # m + 1 /\ n - 1 # m + 1 /\ n # 0
              /\ n \in 0..(m + 1) /\ n - 1 \in 0..(m + 1)
          BY <3>2
        <4>2. g[n] = g[n - 1] + f[n]
          <5> HIDE DEF h
          <5>. QED BY <2>3, <3>2, SumValues
        <4>3. h[n] = g[n] /\ h[n - 1] = g[n - 1]
          BY <4>1
        <4> HIDE DEF h
        <4>. QED BY <4>1, <4>2, <4>3
      <3>3. CASE n = 0
        <4>1. g[0] = 0 /\ 0 # m + 1 /\ n \in 0..(m + 1)
          BY <2>3, SumValues
        <4>2. h[0] = g[0]
          BY <3>3, <4>1
        <4>. QED BY <3>3, <4>1, <4>2
      <3>. QED BY <3>1, <3>2, <3>3
    <2>5. h = [n \in 0..(m + 1) |-> h[n]]
      OBVIOUS
    <2> HIDE DEF h
    <2>6. IsSum(f, h, m + 1)
      BY <2>4, <2>5 DEF IsSum
    <2>. QED BY <2>6
  <1>3. Last \in T
    <2> HIDE DEF T
    <2>. QED BY <1>1, <1>2, Induct
  <1>. QED BY <1>3

LEMMA TargetNumbers == Last \in Nat /\ Targets = 1..Last
  BY RouterAssumption, FS_CardinalityType DEF Last

(* So the recursion of Sums defines it.                                    *)
LEMMA SumsEquation ==
  ASSUME NEW f \in [Targets -> Nat]
  PROVE  /\ Sums(f)[0] = 0
         /\ \A n \in 1..Last : Sums(f)[n] = Sums(f)[n - 1] + f[n]
         /\ \A n \in 0..Last : Sums(f)[n] \in Nat
  <1>1. \E g : IsSum(f, g, Last)
    BY TargetNumbers, SumExists
  <1>2. Sums(f) = CHOOSE g : IsSum(f, g, Last)
    BY DEF Sums, Last, IsSum
  <1>3. IsSum(f, Sums(f), Last)
    BY <1>1, <1>2
  <1>4. /\ Sums(f)[0] = 0
        /\ \A n \in 1..Last : Sums(f)[n] = Sums(f)[n - 1] + f[n]
    BY <1>3, TargetNumbers, SumValues
  <1> DEFINE T == {n \in Nat : n <= Last => Sums(f)[n] \in Nat}
  <1>5. 0 \in T
    BY <1>4
  <1>6. ASSUME NEW n \in Nat, n \in T
        PROVE  n + 1 \in T
    <2>1. SUFFICES ASSUME n + 1 <= Last
                   PROVE  Sums(f)[n + 1] \in Nat
      BY <1>6
    <2>2. n <= Last /\ n + 1 \in 1..Last /\ (n + 1) - 1 = n
      BY <2>1, TargetNumbers
    <2>3. f[n + 1] \in Nat /\ Sums(f)[n] \in Nat
      BY <1>6, <2>2, TargetNumbers
    <2>4. Sums(f)[n + 1] = Sums(f)[n] + f[n + 1]
      BY <1>4, <2>2
    <2>. QED BY <2>3, <2>4
  <1>7. \A n \in Nat : n \in T
    <2> HIDE DEF T
    <2>. QED BY <1>5, <1>6, Induct
  <1>. QED BY <1>4, <1>7, TargetNumbers

(* Sums grow.                                                              *)
LEMMA SumsGrow ==
  ASSUME NEW f \in [Targets -> Nat], NEW m \in 0..Last,
         NEW n \in 0..Last, m <= n
  PROVE  Sums(f)[m] <= Sums(f)[n]
  <1> DEFINE T == {k \in Nat : m + k <= Last => Sums(f)[m] <= Sums(f)[m + k]}
  <1>0. m \in Nat /\ Last \in Nat
    BY TargetNumbers
  <1>1. 0 \in T
    BY <1>0, SumsEquation
  <1>2. ASSUME NEW k \in Nat, k \in T
        PROVE  k + 1 \in T
    <2>1. SUFFICES ASSUME m + (k + 1) <= Last
                   PROVE  Sums(f)[m] <= Sums(f)[m + (k + 1)]
      BY <1>2
    <2>2. /\ m + k <= Last /\ m + k \in 0..Last /\ m + (k + 1) \in 1..Last
          /\ (m + (k + 1)) - 1 = m + k
      BY <1>0, <2>1
    <2>3. /\ Sums(f)[m + k] \in Nat /\ Sums(f)[m] \in Nat
          /\ Sums(f)[m + (k + 1)] = Sums(f)[m + k] + f[m + (k + 1)]
      BY <2>2, SumsEquation
    <2>4. f[m + (k + 1)] \in Nat /\ Sums(f)[m] <= Sums(f)[m + k]
      BY <1>2, <2>2, TargetNumbers
    <2>. QED BY <2>3, <2>4
  <1>3. n - m \in T
    <2>1. n - m \in Nat
      BY <1>0
    <2> HIDE DEF T
    <2>. QED BY <1>1, <1>2, <2>1, Induct
  <1>4. m + (n - m) = n /\ n <= Last
    BY <1>0
  <1>. QED BY <1>3, <1>4

-----------------------------------------------------------------------------
(* The choice of a worker.                                                 *)

LEMMA WorkerNumbers ==
  /\ Workers \in SUBSET Nat /\ IsFiniteSet(Workers) /\ 0 \notin Workers
  /\ \A w \in Workers : TargetOf[w] \in Targets
  <1>1. TargetOf \in Seq(Targets)
    BY RouterAssumption
  <1>2. Len(TargetOf) \in Nat /\ Workers = 1..Len(TargetOf)
    BY <1>1, LenProperties DEF Workers
  <1>3. \A w \in 1..Len(TargetOf) : TargetOf[w] \in Targets
    BY <1>1, ElementOfSeq
  <1>4. IsFiniteSet(1..Len(TargetOf))
    BY <1>2, FS_Interval
  <1>. QED BY <1>2, <1>3, <1>4

(* Numbers of slots.                                                       *)
LEMMA SlotNumbers ==
  ASSUME NEW t
  PROVE  /\ Busy(t) \in Nat /\ Cardinality(Slots(t)) \in Nat
         /\ \A s : /\ Cardinality(Slots(t) \cap In(s)) \in Nat
                  /\ Cardinality(Slots(t) \cap In(s)) <= Cardinality(Slots(t))
  <1>1. IsFiniteSet(Slots(t))
    BY WorkerNumbers, FS_Subset DEF Slots
  <1>2. \A s : /\ IsFiniteSet(Slots(t) \cap In(s))
              /\ Cardinality(Slots(t) \cap In(s)) <= Cardinality(Slots(t))
    BY <1>1, FS_Subset
  <1>. QED BY <1>1, <1>2, FS_CardinalityType DEF Busy

(* First finds a worker where there is one.                                *)
LEMMA FirstIsIn ==
  ASSUME NEW S \in SUBSET Workers
  PROVE  /\ S # {} => First(S) \in S /\ First(S) # 0
         /\ S = {} => First(S) = 0
  <1>1. CASE S # {}
    <2>1. S \in SUBSET Nat /\ 0 \notin S
      BY WorkerNumbers
    <2>. QED BY <1>1, <2>1, MinIsLeast DEF First
  <1>2. CASE S = {}
    BY <1>2 DEF First
  <1>. QED BY <1>1, <1>2

(* A draw lands on one of the candidates.                                  *)
LEMMA DrawnIsIn ==
  ASSUME NEW E \in SUBSET Targets, E # {}, NEW x
  PROVE  Drawn(E, x) \in E
  <1>1. E \in SUBSET (0..Last) /\ Last \in Nat
    BY TargetNumbers
  <1>2. Max(E) \in E
    BY <1>1, MaxIsIn
  <1>3. \A T \in SUBSET E : T # {} => Min(T) \in T
    BY <1>1, MinIsLeast
  <1>. QED BY <1>2, <1>3 DEF Drawn

LEMMA PolicyTypes ==
  ASSUME NEW p \in Policies
  PROVE  p.allowed \in SUBSET Targets /\ p.cap \in Nat
  <1>1. Cardinality(Workers) \in Nat
    BY WorkerNumbers, FS_CardinalityType
  <1>. QED BY <1>1, RouterAssumption DEF Policies, NoPolicy

LEMMA ExactServed ==
  ASSUME NEW k \in Tasks, k.mode = "target", NEW x
  PROVE  IF \E w \in Workers : Admits(k, w)
         THEN Admits(k, Found(k, x)) ELSE Found(k, x) = 0
  <1>1. k.target \in Targets /\ k.policy \in Policies
    BY DEF Tasks
  <1>2. Busy(k.target) \in Nat /\ k.policy.cap \in Nat
    BY <1>1, SlotNumbers, PolicyTypes
  <1> DEFINE S == {w \in Slots(k.target) \cap In("idle") : Matches(w, k)}
  <1>3. S \in SUBSET Workers
    BY DEF Slots
  <1>4. \A w : w \in S <=> /\ w \in In("idle") /\ TargetOf[w] = k.target
                          /\ Matches(w, k)
    BY DEF Slots, In
  <1>5. \A w : Admits(k, w) <=> w \in S /\ Busy(k.target) < k.policy.cap
    BY <1>4 DEF Admits
  <1>6. Found(k, x) = IF Busy(k.target) >= k.policy.cap THEN 0 ELSE First(S)
    BY DEF Found, FindExact
  <1> HIDE DEF S
  <1>7. CASE Busy(k.target) >= k.policy.cap
    BY <1>2, <1>5, <1>6, <1>7
  <1>8. CASE Busy(k.target) < k.policy.cap
    BY <1>2, <1>3, <1>5, <1>6, <1>8, FirstIsIn
  <1>. QED BY <1>2, <1>7, <1>8

LEMMA AdaptiveServed ==
  ASSUME NEW k \in Tasks, k.mode = "adaptive", NEW x
  PROVE  IF \E w \in Workers : Admits(k, w)
         THEN Admits(k, Found(k, x)) ELSE Found(k, x) = 0
  <1>1. k.policy \in Policies
    BY DEF Tasks
  <1>2. k.policy.allowed \in SUBSET Targets
    BY <1>1, PolicyTypes
  <1> DEFINE E == Eligible(k.policy)
             S(t) == Slots(t) \cap In("idle")
  <1>3. /\ E \in SUBSET Targets
        /\ \A t \in E : /\ t \in k.policy.allowed /\ S(t) # {}
                        /\ Busy(t) < k.policy.cap
    BY <1>2 DEF Eligible
  <1>4. \A w : Admits(k, w) <=> /\ w \in In("idle")
                               /\ TargetOf[w] \in k.policy.allowed
                               /\ Busy(TargetOf[w]) < k.policy.cap
    BY DEF Admits
  <1>5. \A t : \A w \in S(t) : w \in In("idle") /\ TargetOf[w] = t
    BY DEF Slots
  <1>6. Found(k, x) = IF E = {} THEN 0 ELSE First(S(Drawn(E, x)))
    BY DEF Found, FindAdaptive
  <1>7. CASE E = {}
    <2>1. ASSUME NEW w \in Workers, Admits(k, w)
          PROVE  FALSE
      <3>1. w \in S(TargetOf[w])
        BY <1>4, <2>1 DEF Slots
      <3>2. TargetOf[w] \in E
        BY <1>4, <2>1, <3>1 DEF Eligible
      <3>. QED BY <1>7, <3>2
    <2>. QED BY <1>6, <1>7, <2>1
  <1>8. CASE E # {}
    <2>1. PICK t : t = Drawn(E, x)
      OBVIOUS
    <2>2. t \in E
      BY <1>3, <1>8, <2>1, DrawnIsIn
    <2>3. S(t) \in SUBSET Workers
      BY DEF Slots
    <2>4. Found(k, x) \in S(t)
      BY <1>3, <1>6, <1>8, <2>1, <2>2, <2>3, FirstIsIn
    <2>5. Admits(k, Found(k, x))
      BY <1>3, <1>4, <1>5, <2>2, <2>4
    <2>6. Found(k, x) \in Workers
      BY <2>3, <2>4
    <2>. QED BY <2>5, <2>6
  <1>. QED BY <1>7, <1>8

(* The branches of _find_legacy_idle_worker, each with what is known there. *)
LEMMA SiteBranches ==
  ASSUME NEW k \in Tasks, k.mode = "browser"
  PROVE  LET idle == {w \in Browsers \cap In("idle") : Matches(w, k)}
             w == FindSite(k)
         IN  \/ w = 0 /\ idle = {}
             \/ w = 0 /\ k.site # NoSite /\ (k.switch => k.tried = {})
                     /\ \A v \in idle : SiteOf[v] # k.site
             \/ /\ w \in idle /\ w # 0 /\ ~k.switch
                /\ k.site \in {NoSite, SiteOf[w]}
             \/ /\ w \in idle /\ w # 0 /\ k.switch
                /\ SiteOf[w] = k.site /\ k.site \notin k.tried
             \/ /\ w \in idle /\ w # 0 /\ k.switch
                /\ k.site = NoSite \/ k.tried # {}
                /\ SiteOf[w] \in k.tried =>
                     \A v \in idle : SiteOf[v] \in k.tried
                /\ \A v \in idle : SiteOf[v] = k.site => k.site \in k.tried
  <1>0. k.switch \in BOOLEAN
    BY DEF Tasks
  <1> DEFINE idle == {w \in Browsers \cap In("idle") : Matches(w, k)}
             own == {w \in idle : SiteOf[w] = k.site}
             untried == {w \in idle : SiteOf[w] \notin k.tried}
             named == k.site # NoSite /\ k.site \notin k.tried
             w == FindSite(k)
  <1>1. idle \in SUBSET Workers /\ \A v \in idle : SiteOf[v] # NoSite
    BY DEF Browsers
  <1>2. own \in SUBSET idle /\ untried \in SUBSET idle
    OBVIOUS
  <1>3. \A S \in SUBSET idle : IF S = {} THEN First(S) = 0
                               ELSE First(S) \in S /\ First(S) # 0
    BY <1>1, FirstIsIn
  <1>4. w = IF ~k.switch
            THEN IF k.site = NoSite THEN First(idle) ELSE First(own)
            ELSE IF named /\ own # {} THEN First(own)
            ELSE IF named /\ k.tried = {} THEN 0
            ELSE IF untried # {} THEN First(untried) ELSE First(idle)
    BY DEF FindSite
  <1>5. /\ \A v : v \in own <=> v \in idle /\ SiteOf[v] = k.site
        /\ \A v : v \in untried <=> v \in idle /\ SiteOf[v] \notin k.tried
    OBVIOUS
  <1> HIDE DEF idle, own, untried, w
  <1>6. CASE ~k.switch /\ k.site = NoSite
    BY <1>3, <1>4, <1>6 DEF idle, w
  <1>7. CASE ~k.switch /\ k.site # NoSite
    BY <1>2, <1>3, <1>4, <1>5, <1>7 DEF idle, w
  <1>8. CASE k.switch /\ named /\ own # {}
    BY <1>2, <1>3, <1>4, <1>5, <1>8 DEF idle, w
  <1>9. CASE k.switch /\ named /\ own = {} /\ k.tried = {}
    BY <1>4, <1>5, <1>9 DEF idle, w
  <1>10. CASE k.switch /\ ~(named /\ own # {}) /\ ~(named /\ k.tried = {})
    <2>1. /\ k.site = NoSite \/ k.tried # {}
          /\ \A v \in idle : SiteOf[v] = k.site => k.site \in k.tried
      BY <1>1, <1>5, <1>10
    <2>2. CASE untried # {}
      BY <1>2, <1>3, <1>4, <1>5, <1>10, <2>1, <2>2 DEF idle, w
    <2>3. CASE untried = {}
      BY <1>3, <1>4, <1>5, <1>10, <2>1, <2>3 DEF idle, w
    <2>. QED BY <2>2, <2>3
  <1>. QED BY <1>0, <1>6, <1>7, <1>8, <1>9, <1>10

LEMMA SiteServed ==
  ASSUME NEW k \in Tasks, k.mode = "browser", NEW x
  PROVE  IF \E w \in Workers : Admits(k, w)
         THEN Admits(k, Found(k, x)) ELSE Found(k, x) = 0
  <1>1. Found(k, x) = FindSite(k)
    BY DEF Found
  <1>2. \A w : Admits(k, w) <=>
          /\ w \in In("idle") /\ w \in Browsers /\ Matches(w, k)
          /\ \/ k.site \in {NoSite, SiteOf[w]}
             \/ k.switch /\ k.tried # {}
    BY DEF Admits
  <1>3. \A w \in Browsers : w \in Workers
    BY DEF Browsers
  <1>. QED BY <1>1, <1>2, <1>3, SiteBranches

LEMMA TasksServed == ServedIfPossible
  <1>1. \A k \in Tasks : k.mode \in {"target", "adaptive", "browser"}
    BY DEF Tasks
  <1>. QED BY <1>1, ExactServed, AdaptiveServed, SiteServed
           DEF ServedIfPossible

LEMMA SitesTaken == SitesInTurn
  <1>1. \A k \in Tasks : k.mode = "browser" => Found(k, 0) = FindSite(k)
    BY DEF Found
  <1>2. ASSUME NEW k \in Tasks, k.mode = "browser", k.switch,
               NEW w, w = FindSite(k), w # 0,
               NEW idle,
               idle = {SiteOf[v] :
                         v \in {u \in Browsers \cap In("idle") : Matches(u, k)}}
        PROVE  /\ SiteOf[w] \in k.tried => idle \subseteq k.tried
               /\ k.site \in idle \ k.tried => SiteOf[w] = k.site
    BY <1>2, SiteBranches
  <1>. QED BY <1>1, <1>2 DEF SitesInTurn

(* For every configuration, every state of the slots, every history and     *)
(* every draw: a task gets a worker exactly when there is one it may have   *)
(* by target or site, model and cap, and one of those, and retries go       *)
(* through the sites with an idle slot of the model in turn                 *)
(* (_find_dispatch_worker, _model_matches).                                 *)
THEOREM WorkersAreRight == Spec => []RightWorker
  <1>1. RightWorker
    BY TasksServed, SitesTaken DEF RightWorker
  <1>. QED BY <1>1, PTL

-----------------------------------------------------------------------------
(* Shares of Unit.                                                         *)

Share == 0..Unit

LEMMA ShareNumbers ==
  /\ Unit \in Nat /\ Unit > 0 /\ Unit \div 20 \in Share
  /\ \A x : x \in Share <=> x \in Nat /\ x <= Unit
  /\ \A x \in Share : Unit - x \in Share
  <1>1. Unit = 10000
    BY DEF Unit
  <1>2. Unit \div 20 = 500
    BY <1>1
  <1> HIDE DEF Unit
  <1>3. Unit \in Nat /\ Unit > 0 /\ 500 \in 0..Unit
    BY <1>1
  <1>4. \A x : x \in 0..Unit <=> x \in Nat /\ x <= Unit
    BY <1>3
  <1>5. \A x \in 0..Unit : Unit - x \in 0..Unit
    BY <1>3
  <1>. QED BY <1>2, <1>3, <1>4, <1>5 DEF Share

LEMMA DivRange ==
  ASSUME NEW z \in Nat, NEW m \in Nat \ {0}, NEW b \in Nat, z <= b * m
  PROVE  z \div m \in Nat /\ z \div m <= b
  OBVIOUS

LEMMA DivMono ==
  ASSUME NEW z \in Nat, NEW y \in Nat, NEW m \in Nat \ {0}, z <= y
  PROVE  z \div m <= y \div m
  OBVIOUS

LEMMA ProductMono ==
  ASSUME NEW x \in Nat, NEW y \in Nat, NEW v \in Nat, NEW w \in Nat,
         x <= v, y <= w
  PROVE  x * y \in Nat /\ v * w \in Nat /\ x * y <= v * w
  <1>1. x * y <= v * y
    OBVIOUS
  <1>2. v * y <= v * w
    OBVIOUS
  <1>3. x * y \in Nat /\ v * y \in Nat /\ v * w \in Nat
    OBVIOUS
  <1>. QED BY <1>1, <1>2, <1>3

LEMMA TimesRange ==
  ASSUME NEW x \in Share, NEW y \in Share
  PROVE  Times(x, y) \in Share
  <1>1. x \in Nat /\ y \in Nat /\ x <= Unit /\ y <= Unit /\ Unit \in Nat \ {0}
    BY ShareNumbers
  <1>2. x * y \in Nat /\ x * y <= Unit * Unit
    BY <1>1, ProductMono
  <1>3. (x * y) \div Unit \in Nat /\ (x * y) \div Unit <= Unit
    BY <1>1, <1>2, DivRange
  <1>. QED BY <1>3, ShareNumbers DEF Times

LEMMA TimesMono ==
  ASSUME NEW x \in Share, NEW y \in Share, NEW v \in Share, NEW w \in Share,
         x <= v, y <= w
  PROVE  Times(x, y) <= Times(v, w)
  <1>1. /\ x \in Nat /\ y \in Nat /\ v \in Nat /\ w \in Nat
        /\ Unit \in Nat \ {0}
    BY ShareNumbers
  <1>2. x * y \in Nat /\ v * w \in Nat /\ x * y <= v * w
    BY <1>1, ProductMono
  <1>. QED BY <1>1, <1>2, DivMono DEF Times

LEMMA RatioRange ==
  ASSUME NEW n \in Nat, NEW m \in Nat \ {0}, n <= m
  PROVE  Ratio(n, m) \in Share
  <1>1. n * Unit \in Nat /\ n * Unit <= Unit * m
    BY DEF Unit
  <1>2. (n * Unit) \div m \in Nat /\ (n * Unit) \div m <= Unit
    BY <1>1, ShareNumbers, DivRange
  <1>. QED BY <1>2, ShareNumbers DEF Ratio

LEMMA RatioMono ==
  ASSUME NEW n \in Nat, NEW l \in Nat, NEW m \in Nat \ {0}, n <= l
  PROVE  Ratio(n, m) <= Ratio(l, m)
  <1>1. n * Unit \in Nat /\ l * Unit \in Nat /\ n * Unit <= l * Unit
    BY DEF Unit
  <1>. QED BY <1>1, DivMono DEF Ratio

(* A weight falls by what it is multiplied with.                           *)
LEMMA ComplementMono ==
  ASSUME NEW p \in Share, NEW x \in Share, NEW y \in Share, x <= y
  PROVE  /\ Unit - Times(p, x) \in Share
         /\ Unit - Times(p, y) <= Unit - Times(p, x)
  <1>1. p <= p /\ Times(p, x) \in Share /\ Times(p, y) \in Share
    BY ShareNumbers, TimesRange
  <1>2. Times(p, x) <= Times(p, y)
    BY <1>1, TimesMono
  <1>3. Times(p, x) \in Nat /\ Times(p, y) \in Nat /\ Unit \in Nat
    BY <1>1, ShareNumbers
  <1>4. Unit - Times(p, y) <= Unit - Times(p, x)
    BY <1>2, <1>3
  <1>. QED BY <1>1, <1>4, ShareNumbers

LEMMA MaxMono ==
  ASSUME NEW c \in Nat, NEW x \in Nat, NEW y \in Nat, x <= y
  PROVE  Max({c, x}) <= Max({c, y})
  BY MaxOfTwo

-----------------------------------------------------------------------------
(* The scores.                                                             *)

Metric == [ok : Nat, error : Nat, unknown : Nat, dragged : Nat, level : Levels]

(* The history is counted, and no attempt is dragged that did not fail.    *)
History ==
  /\ metrics \in [Targets -> Metric]
  /\ \A t \in Targets : metrics[t].dragged <= metrics[t].error

LEMMA Settings ==
  /\ Exploration \in Share
  /\ FailurePenalty \in Share /\ UnknownPenalty \in Share
  /\ MinSamples \in Nat \ {0} /\ \A l \in Levels : LatencyScore[l] \in Share
  BY RouterAssumption DEF Share, Levels

LEMMA HistoryNumbers ==
  ASSUME History, NEW t \in Targets
  PROVE  /\ metrics[t].ok \in Nat /\ metrics[t].error \in Nat
         /\ metrics[t].unknown \in Nat /\ metrics[t].dragged \in Nat
         /\ metrics[t].level \in Levels
         /\ Attempts(t) \in Nat /\ Unknowns(t) \in Nat
         /\ metrics[t].ok <= Attempts(t) /\ metrics[t].error <= Attempts(t)
         /\ Unknowns(t) <= Attempts(t)
  <1>1. metrics[t] \in Metric /\ metrics[t].dragged <= metrics[t].error
    BY DEF History
  <1>2. /\ metrics[t].ok \in Nat /\ metrics[t].error \in Nat
        /\ metrics[t].unknown \in Nat /\ metrics[t].dragged \in Nat
        /\ metrics[t].level \in Levels
    BY <1>1 DEF Metric
  <1>. QED BY <1>1, <1>2 DEF Attempts, Unknowns

LEMMA RateRange ==
  ASSUME History, NEW t \in Targets, NEW n \in Nat, n <= Attempts(t)
  PROVE  Rate(n, t) \in Share
  <1>1. CASE Attempts(t) = 0
    BY <1>1, ShareNumbers DEF Rate
  <1>2. CASE Attempts(t) # 0
    <2>1. Attempts(t) \in Nat \ {0}
      BY <1>2, HistoryNumbers
    <2>. QED BY <1>2, <2>1, RatioRange DEF Rate
  <1>. QED BY <1>1, <1>2

LEMMA RateMono ==
  ASSUME History, NEW t \in Targets, NEW u \in Targets, NEW n \in Nat,
         NEW m \in Nat, n <= m, m <= Attempts(u), Attempts(t) = Attempts(u)
  PROVE  Rate(n, u) <= Rate(m, t)
  <1>1. CASE Attempts(t) = 0
    BY <1>1 DEF Rate
  <1>2. CASE Attempts(t) # 0
    <2>1. Attempts(t) \in Nat \ {0}
      BY <1>2, HistoryNumbers
    <2>2. /\ Rate(n, u) = Ratio(n, Attempts(t))
          /\ Rate(m, t) = Ratio(m, Attempts(t))
      BY <1>2 DEF Rate
    <2>. QED BY <2>1, <2>2, RatioMono
  <1>. QED BY <1>1, <1>2

\* The factor of the failures and that of the unknown outcomes.
Failures(t) == Unit - Times(FailurePenalty, Rate(metrics[t].error, t))
Doubts(t) == Unit - Times(UnknownPenalty, Rate(Unknowns(t), t))
Success(t) == Times(Times(SuccessRate(t), Failures(t)), Doubts(t))

LEMMA FactorRanges ==
  ASSUME History, NEW t \in Targets
  PROVE  /\ SuccessRate(t) \in Share
         /\ Failures(t) \in Share /\ Doubts(t) \in Share
         /\ Times(SuccessRate(t), Failures(t)) \in Share
         /\ Success(t) \in Share
  <1>1. /\ metrics[t].ok + 2 \in Nat /\ Attempts(t) + 4 \in Nat \ {0}
        /\ metrics[t].ok + 2 <= Attempts(t) + 4
    BY HistoryNumbers
  <1>2. SuccessRate(t) \in Share
    BY <1>1, RatioRange DEF SuccessRate
  <1>3. Rate(metrics[t].error, t) \in Share /\ Rate(Unknowns(t), t) \in Share
    BY HistoryNumbers, RateRange
  <1>4. Failures(t) \in Share /\ Doubts(t) \in Share
    BY <1>3, Settings, TimesRange, ShareNumbers DEF Failures, Doubts
  <1>5. Times(SuccessRate(t), Failures(t)) \in Share
    BY <1>2, <1>4, TimesRange
  <1>. QED BY <1>2, <1>4, <1>5, TimesRange DEF Success

LEMMA ReliabilityRange ==
  ASSUME History, NEW t \in Targets
  PROVE  /\ Reliability(t) = Max({Unit \div 20, Success(t)})
         /\ Reliability(t) \in (Unit \div 20)..Unit /\ Reliability(t) \in Share
  <1>1. Reliability(t) = Max({Unit \div 20, Success(t)})
    BY DEF Reliability, Success, Failures, Doubts
  <1>2. /\ Unit \in Nat /\ Unit \div 20 \in Nat /\ Unit \div 20 <= Unit
        /\ Success(t) \in Nat /\ Success(t) <= Unit
    BY ShareNumbers, FactorRanges
  <1>3. /\ Reliability(t) \in Nat /\ Unit \div 20 <= Reliability(t)
        /\ Reliability(t) <= Unit
    BY <1>1, <1>2, MaxOfTwo
  <1>. QED BY <1>1, <1>2, <1>3, ShareNumbers

LEMMA CapacityRange ==
  ASSUME NEW t
  PROVE  Capacity(t) \in Share
  <1> DEFINE a == Cardinality(Slots(t) \cap In("idle"))
             b == Cardinality(Slots(t))
             r == Ratio(a + 1, b + 1)
  <1>1. a \in Nat /\ b \in Nat /\ a <= b
    BY SlotNumbers
  <1>2. Capacity(t) = (Unit + r) \div 2
    BY DEF Capacity
  <1>3. a + 1 \in Nat /\ b + 1 \in Nat \ {0} /\ a + 1 <= b + 1
    <2> HIDE DEF a, b
    <2>. QED BY <1>1
  <1>4. r \in Share
    BY <1>3, RatioRange
  <1>5. r \in Nat /\ r <= Unit /\ Unit \in Nat
    BY <1>4, ShareNumbers
  <1> HIDE DEF r
  <1>6. Unit + r \in Nat /\ Unit + r <= Unit * 2
    BY <1>5
  <1>7. (Unit + r) \div 2 \in Nat /\ (Unit + r) \div 2 <= Unit
    BY <1>5, <1>6, DivRange
  <1>. QED BY <1>2, <1>7, ShareNumbers

LEMMA BonusRange ==
  ASSUME History, NEW t \in Targets
  PROVE  Bonus(t) \in Share
  <1> DEFINE d == Max({0, MinSamples - Attempts(t)})
  <1>1. Attempts(t) \in Nat /\ MinSamples \in Nat \ {0}
    BY HistoryNumbers, Settings
  <1>2. d \in Nat /\ d <= MinSamples
    BY <1>1, MaxOfTwo
  <1>3. Bonus(t) = (Exploration * d) \div MinSamples
    BY DEF Bonus
  <1>4. Exploration \in Nat /\ Exploration <= Unit /\ Unit \in Nat
    BY Settings, ShareNumbers
  <1> HIDE DEF d
  <1>5. Exploration * d \in Nat /\ Exploration * d <= Unit * MinSamples
    BY <1>1, <1>2, <1>4, ProductMono
  <1>6. (Exploration * d) \div MinSamples \in Nat
    BY <1>1, <1>5, <1>4, DivRange
  <1>7. (Exploration * d) \div MinSamples <= Unit
    BY <1>1, <1>5, <1>4, DivRange
  <1>. QED BY <1>3, <1>6, <1>7, ShareNumbers

\* What the bonus is added to.
Score(t) ==
  Times(Times(Reliability(t), LatencyScore[metrics[t].level]), Capacity(t))

LEMMA ScoreRange ==
  ASSUME History, NEW t \in Targets
  PROVE  /\ LatencyScore[metrics[t].level] \in Share
         /\ Times(Reliability(t), LatencyScore[metrics[t].level]) \in Share
         /\ Score(t) \in Share /\ Bonus(t) \in Share
         /\ Weight(t) = Max({1, Score(t) + Bonus(t)})
  <1>1. LatencyScore[metrics[t].level] \in Share
    BY HistoryNumbers, Settings
  <1>2. Times(Reliability(t), LatencyScore[metrics[t].level]) \in Share
    BY <1>1, ReliabilityRange, TimesRange
  <1>3. Score(t) \in Share
    BY <1>2, CapacityRange, TimesRange DEF Score
  <1>. QED BY <1>1, <1>2, <1>3, BonusRange DEF Weight, Score

LEMMA WeightRange ==
  ASSUME History, NEW t \in Targets
  PROVE  Weight(t) \in 1..(2 * Unit) /\ Weight(t) \in Nat /\ Weight(t) >= 1
  <1>1. /\ Score(t) \in Nat /\ Score(t) <= Unit /\ Bonus(t) \in Nat
        /\ Bonus(t) <= Unit /\ Unit \in Nat /\ Unit > 0
    BY ScoreRange, ShareNumbers
  <1>2. Weight(t) = Max({1, Score(t) + Bonus(t)})
    BY ScoreRange
  <1>3. Score(t) + Bonus(t) \in Nat /\ Score(t) + Bonus(t) <= 2 * Unit
    BY <1>1
  <1>4. Weight(t) = IF 1 >= Score(t) + Bonus(t) THEN 1 ELSE Score(t) + Bonus(t)
    BY <1>2, <1>3, MaxOfTwo
  <1>5. Unit >= 1
    BY <1>1
  <1>. QED BY <1>1, <1>3, <1>4, <1>5


LEMMA WorseFactors ==
  ASSUME History, NEW t \in Targets, NEW u \in Targets, NoBetter(t, u)
  PROVE  /\ SuccessRate(t) <= SuccessRate(u)
         /\ Failures(t) <= Failures(u) /\ Doubts(t) <= Doubts(u)
  <1>1. /\ Attempts(t) = Attempts(u) /\ metrics[t].ok <= metrics[u].ok
        /\ metrics[u].error <= metrics[t].error /\ Unknowns(u) <= Unknowns(t)
    <2>1. metrics[t].error >= metrics[u].error /\ Unknowns(t) >= Unknowns(u)
      BY DEF NoBetter
    <2>2. /\ metrics[u].error <= metrics[t].error
          /\ Unknowns(u) <= Unknowns(t)
      BY <2>1, HistoryNumbers
    <2>. QED BY <2>2 DEF NoBetter
  <1>2. SuccessRate(t) <= SuccessRate(u)
    <2>1. /\ metrics[t].ok + 2 \in Nat /\ metrics[u].ok + 2 \in Nat
          /\ Attempts(t) + 4 \in Nat \ {0}
          /\ metrics[t].ok + 2 <= metrics[u].ok + 2
      BY <1>1, HistoryNumbers
    <2>. QED BY <1>1, <2>1, RatioMono DEF SuccessRate
  <1>3. Failures(t) <= Failures(u)
    <2>1. Rate(metrics[u].error, u) <= Rate(metrics[t].error, t)
      <3>1. metrics[t].error <= Attempts(u)
        BY <1>1, HistoryNumbers
      <3>2. metrics[u].error \in Nat /\ metrics[t].error \in Nat
        BY HistoryNumbers
      <3>. QED BY <1>1, <3>1, <3>2, RateMono
    <2>2. /\ Rate(metrics[u].error, u) \in Share
          /\ Rate(metrics[t].error, t) \in Share
      BY HistoryNumbers, RateRange
    <2>. QED BY <2>1, <2>2, Settings, ComplementMono DEF Failures
  <1>4. Doubts(t) <= Doubts(u)
    <2>1. Rate(Unknowns(u), u) <= Rate(Unknowns(t), t)
      <3>1. Unknowns(t) <= Attempts(u)
        BY <1>1, HistoryNumbers
      <3>2. Unknowns(u) \in Nat /\ Unknowns(t) \in Nat
        BY HistoryNumbers
      <3>. QED BY <1>1, <3>1, <3>2, RateMono
    <2>2. Rate(Unknowns(u), u) \in Share /\ Rate(Unknowns(t), t) \in Share
      BY HistoryNumbers, RateRange
    <2>. QED BY <2>1, <2>2, Settings, ComplementMono DEF Doubts
  <1>. QED BY <1>2, <1>3, <1>4

LEMMA WorseWeighs ==
  ASSUME History, NEW t \in Targets, NEW u \in Targets, NoBetter(t, u)
  PROVE  Weight(t) <= Weight(u)
  <1>1. Times(SuccessRate(t), Failures(t))
          <= Times(SuccessRate(u), Failures(u))
    BY WorseFactors, FactorRanges, TimesMono
  <1>2. Success(t) <= Success(u)
    BY <1>1, WorseFactors, FactorRanges, TimesMono DEF Success
  <1>3. Reliability(t) <= Reliability(u)
    <2>1. /\ Unit \div 20 \in Nat /\ Success(t) \in Nat /\ Success(u) \in Nat
      BY ShareNumbers, FactorRanges
    <2>. QED BY <1>2, <2>1, MaxMono, ReliabilityRange
  <1>4. LatencyScore[metrics[t].level] <= LatencyScore[metrics[u].level]
    BY DEF NoBetter
  <1>5. Times(Reliability(t), LatencyScore[metrics[t].level])
          <= Times(Reliability(u), LatencyScore[metrics[u].level])
    BY <1>3, <1>4, ReliabilityRange, ScoreRange, TimesMono
  <1>6. Capacity(t) = Capacity(u) /\ Capacity(t) <= Capacity(u)
    <2>1. Capacity(t) = Capacity(u)
      BY DEF NoBetter, Capacity
    <2>2. Capacity(u) \in Nat
      BY CapacityRange, ShareNumbers
    <2>. QED BY <2>1, <2>2
  <1>7. Score(t) <= Score(u)
    BY <1>5, <1>6, ScoreRange, CapacityRange, TimesMono DEF Score
  <1>8. Bonus(t) = Bonus(u)
    BY DEF Bonus, NoBetter
  <1>9. /\ Score(t) \in Nat /\ Score(u) \in Nat /\ Bonus(u) \in Nat
        /\ Bonus(t) \in Nat
    BY ScoreRange, ShareNumbers
  <1>10. /\ Score(t) + Bonus(t) \in Nat /\ Score(u) + Bonus(u) \in Nat
         /\ Score(t) + Bonus(t) <= Score(u) + Bonus(u)
    BY <1>7, <1>8, <1>9
  <1>11. Max({1, Score(t) + Bonus(t)}) <= Max({1, Score(u) + Bonus(u)})
    BY <1>10, MaxMono
  <1>. QED BY <1>11, ScoreRange

-----------------------------------------------------------------------------
(* The draw.                                                               *)

\* The weights that are added up for E.
Weights(E) == [u \in Targets |-> IF u \in E THEN Weight(u) ELSE 0]

LEMMA WeightsAdded ==
  ASSUME History, NEW E \in SUBSET Targets
  PROVE  /\ Weights(E) \in [Targets -> Nat]
         /\ \A t : Cumulative(E, t) = Sums(Weights(E))[t]
         /\ \A t \in E : Weights(E)[t] = Weight(t)
  <1>1. \A t : Cumulative(E, t) = Sums(Weights(E))[t]
    BY DEF Cumulative, Weights
  <1>. QED BY <1>1, WeightRange DEF Weights

(* A draw in the interval of t lands on t.                                 *)
LEMMA DrawInInterval ==
  ASSUME History, NEW E \in SUBSET Targets, NEW t \in E, NEW x \in Int,
         Cumulative(E, t) - Weight(t) < x, x <= Cumulative(E, t)
  PROVE  Drawn(E, x) = t
  <1> DEFINE f == Weights(E)
             hit == {u \in E : x <= Cumulative(E, u)}
  <1>1. f \in [Targets -> Nat]
    BY WeightsAdded
  <1>2. /\ t \in 1..Last /\ t - 1 \in 0..Last /\ t \in 0..Last /\ t \in Nat
        /\ Last \in Nat
    BY TargetNumbers
  <1>3. Sums(f)[t] = Sums(f)[t - 1] + Weight(t)
    <2>1. f[t] = Weight(t)
      BY WeightsAdded
    <2> HIDE DEF f
    <2>. QED BY <1>1, <1>2, <2>1, SumsEquation
  <1>4. Sums(f)[t - 1] \in Nat /\ Weight(t) \in Nat
    <2> HIDE DEF f
    <2>. QED BY <1>1, <1>2, SumsEquation, WeightRange
  <1>5. \A u : Cumulative(E, u) = Sums(f)[u]
    BY WeightsAdded
  <1> HIDE DEF f
  <1>6. Sums(f)[t - 1] < x
    BY <1>3, <1>4, <1>5
  <1>7. t \in hit
    OBVIOUS
  <1>8. ASSUME NEW u \in hit
        PROVE  t <= u
    <2>1. u \in 0..Last /\ u \in Nat /\ x <= Sums(f)[u]
      BY <1>5, TargetNumbers
    <2>2. CASE u <= t - 1
      <3>1. Sums(f)[u] <= Sums(f)[t - 1]
        BY <1>1, <1>2, <2>1, <2>2, SumsGrow
      <3>2. Sums(f)[u] \in Nat
        BY <1>1, <2>1, SumsEquation
      <3>. QED BY <1>4, <1>6, <2>1, <3>1, <3>2
    <2>3. t <= u \/ u <= t - 1
      BY <1>2, <2>1
    <2>. QED BY <2>2, <2>3
  <1>9. hit \in SUBSET Nat
    <2>1. \A u \in Targets : u \in Nat
      BY TargetNumbers
    <2>. QED BY <2>1
  <1>10. Drawn(E, x) = IF hit = {} THEN Max(E) ELSE Min(hit)
    BY DEF Drawn
  <1> HIDE DEF hit
  <1>11. Min(hit) \in hit /\ Min(hit) <= t
    BY <1>7, <1>9, MinIsLeast
  <1>12. t <= Min(hit) /\ Min(hit) \in Nat
    BY <1>8, <1>9, <1>11
  <1>13. Min(hit) = t
    BY <1>2, <1>11, <1>12
  <1>. QED BY <1>7, <1>10, <1>13

LEMMA DrawsShared ==
  ASSUME History
  PROVE  DrawIsProportional
  <1>1. SUFFICES ASSUME NEW p \in Policies, NEW t \in Eligible(p)
                 PROVE  /\ Weight(t) >= 1
                        /\ Drawn(Eligible(p), Cumulative(Eligible(p), t)) = t
                        /\ Drawn(Eligible(p), Cumulative(Eligible(p), t)
                                                - Weight(t) + 1) = t
    BY DEF DrawIsProportional
  <1>2. PICK E : E = Eligible(p)
    OBVIOUS
  <1>3. E \in SUBSET Targets /\ t \in E /\ t \in Targets
    BY <1>2, PolicyTypes DEF Eligible
  <1>4. Weight(t) \in Nat /\ Weight(t) >= 1
    BY <1>3, WeightRange
  <1>5. Cumulative(E, t) \in Nat
    <2>1. Weights(E) \in [Targets -> Nat] /\ t \in 0..Last
      BY <1>3, WeightsAdded, TargetNumbers
    <2>2. Sums(Weights(E))[t] \in Nat
      BY <2>1, SumsEquation
    <2>. QED BY <1>3, <2>2, WeightsAdded
  <1>6. Drawn(E, Cumulative(E, t)) = t
    BY <1>3, <1>4, <1>5, DrawInInterval
  <1>7. Drawn(E, Cumulative(E, t) - Weight(t) + 1) = t
    BY <1>3, <1>4, <1>5, DrawInInterval
  <1>. QED BY <1>2, <1>4, <1>6, <1>7

-----------------------------------------------------------------------------
(* The history that is read.                                               *)

(* Sums rise by no more than their one summand that does.                  *)
LEMMA SumsRise ==
  ASSUME NEW f \in [Targets -> Nat], NEW g \in [Targets -> Nat],
         NEW t \in Targets, NEW d \in Nat, g[t] <= f[t] + d,
         \A u \in Targets : u # t => g[u] <= f[u]
  PROVE  Sums(g)[Last] <= Sums(f)[Last] + d
  <1> DEFINE D(n) == IF t <= n THEN d ELSE 0
             T == {n \in Nat : n <= Last => Sums(g)[n] <= Sums(f)[n] + D(n)}
  <1>1. 0 \in T
    <2>1. D(0) = 0
      BY TargetNumbers
    <2>2. Sums(f)[0] = 0 /\ Sums(g)[0] = 0
      BY SumsEquation
    <2>. QED BY <2>1, <2>2
  <1>2. ASSUME NEW n \in Nat, n \in T
        PROVE  n + 1 \in T
    <2>1. SUFFICES ASSUME n + 1 <= Last
                   PROVE  Sums(g)[n + 1] <= Sums(f)[n + 1] + D(n + 1)
      BY <1>2
    <2>2. /\ n <= Last /\ n \in 0..Last /\ n + 1 \in 1..Last /\ (n + 1) - 1 = n
          /\ n + 1 \in Targets
      BY <2>1, TargetNumbers
    <2>3. /\ Sums(f)[n + 1] = Sums(f)[n] + f[n + 1] /\ Sums(f)[n] \in Nat
          /\ Sums(g)[n + 1] = Sums(g)[n] + g[n + 1] /\ Sums(g)[n] \in Nat
          /\ f[n + 1] \in Nat /\ g[n + 1] \in Nat
      BY <2>2, SumsEquation
    <2>4. Sums(g)[n] <= Sums(f)[n] + D(n)
      BY <1>2, <2>2
    <2>5. D(n) + (IF t = n + 1 THEN d ELSE 0) <= D(n + 1) /\ D(n) \in Nat
      BY TargetNumbers
    <2>6. g[n + 1] <= f[n + 1] + (IF t = n + 1 THEN d ELSE 0)
      BY <2>2, <2>3
    <2>7. (IF t = n + 1 THEN d ELSE 0) \in Nat /\ D(n + 1) \in Nat
      OBVIOUS
    <2> HIDE DEF D
    <2>. QED BY <2>3, <2>4, <2>5, <2>6, <2>7
  <1>3. Last \in T
    <2> HIDE DEF T
    <2>. QED BY <1>1, <1>2, Induct, TargetNumbers
  <1>. QED BY <1>3, TargetNumbers

(* A summand is no more than the sum.                                      *)
LEMMA SummandOfSum ==
  ASSUME NEW f \in [Targets -> Nat], NEW t \in Targets
  PROVE  f[t] <= Sums(f)[Last]
  <1>1. t \in 1..Last /\ t \in 0..Last /\ t - 1 \in 0..Last /\ Last \in 0..Last
        /\ t <= Last
    BY TargetNumbers
  <1>2. Sums(f)[t] <= Sums(f)[Last]
    BY <1>1, SumsGrow
  <1>3. /\ Sums(f)[t] = Sums(f)[t - 1] + f[t] /\ Sums(f)[t - 1] \in Nat
        /\ f[t] \in Nat /\ Sums(f)[Last] \in Nat
    BY <1>1, SumsEquation
  <1>. QED BY <1>2, <1>3

\* The attempts of a target, for any metrics m.
Count(m) == [t \in Targets |-> m[t].ok + m[t].error + m[t].unknown]

LEMMA CountedWindow ==
  /\ InWindow = Sums(Count(metrics))[Last]
  /\ metrics \in [Targets -> Metric] => Count(metrics) \in [Targets -> Nat]
  /\ \A t \in Targets : Count(metrics)[t] = Attempts(t)
  BY DEF InWindow, Count, Last, Attempts, Metric

LEMMA WindowNumber ==
  ASSUME metrics \in [Targets -> Metric]
  PROVE  InWindow \in Nat /\ MaxAttempts \in Nat
  <1>1. Count(metrics) \in [Targets -> Nat] /\ Last \in 0..Last
    BY CountedWindow, TargetNumbers
  <1>2. Sums(Count(metrics))[Last] \in Nat
    BY <1>1, SumsEquation
  <1>. QED BY <1>2, CountedWindow, RouterAssumption

\* The inductive invariant.
HistoryInv ==
  /\ state \in [Workers -> {"idle", "busy", "degraded"}]
  /\ History
  /\ InWindow <= MaxAttempts

LEMMA HistoryStarts == Init => HistoryInv
  <1>1. SUFFICES ASSUME Init
                 PROVE  HistoryInv
    OBVIOUS
  <1>2. state \in [Workers -> {"idle", "busy", "degraded"}]
    BY <1>1 DEF Init
  <1>3. 1 \in Levels
    BY RouterAssumption DEF Levels
  <1>4. /\ metrics \in [Targets -> Metric]
        /\ \A t \in Targets : metrics[t] = NoMetrics
    BY <1>1, <1>3 DEF Init, NoMetrics, Metric
  <1>5. \A t \in Targets : metrics[t].dragged <= metrics[t].error
    BY <1>4 DEF NoMetrics
  <1>6. InWindow <= MaxAttempts
    <2> DEFINE f == Count(metrics)
    <2>1. f \in [Targets -> Nat] /\ \A t \in Targets : f[t] = 0
      BY <1>4, CountedWindow DEF NoMetrics, Attempts
    <2> DEFINE T == {n \in Nat : n <= Last => Sums(f)[n] = 0}
    <2> HIDE DEF f
    <2>2. 0 \in T
      BY <2>1, SumsEquation
    <2>3. ASSUME NEW n \in Nat, n \in T
          PROVE  n + 1 \in T
      <3>1. SUFFICES ASSUME n + 1 <= Last
                     PROVE  Sums(f)[n + 1] = 0
        BY <2>3
      <3>2. /\ n <= Last /\ n + 1 \in 1..Last /\ (n + 1) - 1 = n
            /\ n + 1 \in Targets
        BY <3>1, TargetNumbers
      <3>3. Sums(f)[n + 1] = Sums(f)[n] + f[n + 1]
        BY <2>1, <3>2, SumsEquation
      <3>. QED BY <2>1, <2>3, <3>2, <3>3
    <2>4. Last \in T
      <3> HIDE DEF T
      <3>. QED BY <2>2, <2>3, Induct, TargetNumbers
    <2>5. Sums(f)[Last] = 0
      BY <2>4, TargetNumbers
    <2>. QED BY <2>5, CountedWindow, RouterAssumption DEF f
  <1>. QED BY <1>2, <1>4, <1>5, <1>6 DEF HistoryInv, History

(* The history after one target's metrics are set to r.                    *)
LEMMA OneTargetSet ==
  ASSUME HistoryInv, NEW t \in Targets, NEW r \in Metric, NEW d \in Nat,
         r.dragged <= r.error, r.ok + r.error + r.unknown <= Attempts(t) + d,
         metrics' = [metrics EXCEPT ![t] = r], UNCHANGED state,
         InWindow + d <= MaxAttempts
  PROVE  HistoryInv'
  <1>1. metrics \in [Targets -> Metric] /\ metrics' \in [Targets -> Metric]
    BY DEF HistoryInv, History
  <1>2. metrics'[t] = r /\ \A u \in Targets : u # t => metrics'[u] = metrics[u]
    BY <1>1
  <1>3. \A u \in Targets : metrics'[u].dragged <= metrics'[u].error
    BY <1>2 DEF HistoryInv, History
  <1>4. (InWindow)' = Sums(Count(metrics'))[Last]
    BY DEF InWindow, Count, Last, Attempts, Sums
  <1>5. /\ Count(metrics) \in [Targets -> Nat]
        /\ Count(metrics') \in [Targets -> Nat]
    BY <1>1 DEF Count, Metric
  <1>6. Count(metrics')[t] <= Count(metrics)[t] + d
    BY <1>2 DEF Count, Attempts
  <1>7. \A u \in Targets : u # t => Count(metrics')[u] <= Count(metrics)[u]
    <2>1. \A u \in Targets : u # t => Count(metrics')[u] = Count(metrics)[u]
      BY <1>2 DEF Count
    <2>2. \A u \in Targets : Count(metrics)[u] \in Nat
      BY <1>5
    <2>3. \A x \in Nat : x <= x
      OBVIOUS
    <2>. QED BY <2>1, <2>2, <2>3
  <1>8. Sums(Count(metrics'))[Last] <= InWindow + d
    <2>1. InWindow = Sums(Count(metrics))[Last]
      BY CountedWindow
    <2>2. Sums(Count(metrics'))[Last] <= Sums(Count(metrics))[Last] + d
      BY <1>5, <1>6, <1>7, SumsRise
    <2>. QED BY <2>1, <2>2
  <1>9. /\ InWindow \in Nat /\ Sums(Count(metrics'))[Last] \in Nat
        /\ MaxAttempts \in Nat
    <2>1. Sums(Count(metrics'))[Last] \in Nat
      <3>1. Last \in 0..Last
        BY TargetNumbers
      <3>. QED BY <1>5, <3>1, SumsEquation
    <2>. QED BY <1>1, <2>1, WindowNumber
  <1>10. (InWindow)' <= MaxAttempts
    BY <1>4, <1>8, <1>9
  <1>. QED BY <1>1, <1>3, <1>10 DEF HistoryInv, History

(* An attempt is counted once, as what it was.                             *)
LEMMA AttemptCounted ==
  ASSUME NEW m \in Metric, NEW c \in {"ok", "error", "unknown"},
         NEW l \in Levels, m.dragged <= m.error
  PROVE  LET r == [m EXCEPT ![c] = @ + 1, !.level = l]
         IN  /\ r \in Metric /\ r.dragged <= r.error
             /\ r.ok + r.error + r.unknown <= m.ok + m.error + m.unknown + 1
  <1> DEFINE r == [m EXCEPT ![c] = @ + 1, !.level = l]
  <1> SUFFICES /\ r \in Metric /\ r.dragged <= r.error
               /\ r.ok + r.error + r.unknown <= m.ok + m.error + m.unknown + 1
    OBVIOUS
  <1>1. c = "ok" => r = [m EXCEPT !.ok = @ + 1, !.level = l]
    OBVIOUS
  <1>2. c = "error" => r = [m EXCEPT !.error = @ + 1, !.level = l]
    OBVIOUS
  <1>3. c = "unknown" => r = [m EXCEPT !.unknown = @ + 1, !.level = l]
    OBVIOUS
  <1> HIDE DEF r
  <1>4. /\ m.ok \in Nat /\ m.error \in Nat /\ m.unknown \in Nat
        /\ m.dragged \in Nat
    BY DEF Metric
  <1>5. CASE c = "ok"
    <2>1. r = [ok |-> m.ok + 1, error |-> m.error, unknown |-> m.unknown,
               dragged |-> m.dragged, level |-> l]
      BY <1>1, <1>5 DEF Metric
    <2>2. r \in Metric
      BY <1>4, <2>1 DEF Metric
    <2>3. r.dragged <= r.error
      BY <1>4, <2>1
    <2>4. r.ok + r.error + r.unknown <= m.ok + m.error + m.unknown + 1
      BY <1>4, <2>1
    <2>. QED BY <2>2, <2>3, <2>4
  <1>6. CASE c = "error"
    <2>1. r = [ok |-> m.ok, error |-> m.error + 1, unknown |-> m.unknown,
               dragged |-> m.dragged, level |-> l]
      BY <1>2, <1>6 DEF Metric
    <2>2. r \in Metric
      BY <1>4, <2>1 DEF Metric
    <2>3. r.dragged <= r.error
      BY <1>4, <2>1
    <2>4. r.ok + r.error + r.unknown <= m.ok + m.error + m.unknown + 1
      BY <1>4, <2>1
    <2>. QED BY <2>2, <2>3, <2>4
  <1>7. CASE c = "unknown"
    <2>1. r = [ok |-> m.ok, error |-> m.error, unknown |-> m.unknown + 1,
               dragged |-> m.dragged, level |-> l]
      BY <1>3, <1>7 DEF Metric
    <2>2. r \in Metric
      BY <1>4, <2>1 DEF Metric
    <2>3. r.dragged <= r.error
      BY <1>4, <2>1
    <2>4. r.ok + r.error + r.unknown <= m.ok + m.error + m.unknown + 1
      BY <1>4, <2>1
    <2>. QED BY <2>2, <2>3, <2>4
  <1>. QED BY <1>5, <1>6, <1>7

LEMMA HistoryKept == HistoryInv /\ [Next]_vars => HistoryInv'
  <1> SUFFICES ASSUME HistoryInv, [Next]_vars
               PROVE  HistoryInv'
    OBVIOUS
  <1>1. ASSUME NEW w \in Workers, WorkerChanges(w)
        PROVE  HistoryInv'
    <2>1. state' \in [Workers -> {"idle", "busy", "degraded"}]
      BY <1>1 DEF WorkerChanges, HistoryInv
    <2>2. metrics' = metrics
      BY <1>1 DEF WorkerChanges
    <2>3. History' /\ (InWindow <= MaxAttempts)'
      BY <2>2 DEF HistoryInv, History, InWindow, Attempts, Sums
    <2>. QED BY <2>1, <2>3 DEF HistoryInv
  <1>2. ASSUME NEW t \in Targets, NEW c \in {"ok", "error", "unknown"},
               AttemptEnds(t, c)
        PROVE  HistoryInv'
    <2>1. PICK l \in Levels :
            metrics' =
              [metrics EXCEPT
                 ![t] = [metrics[t] EXCEPT ![c] = @ + 1, !.level = l]]
      BY <1>2 DEF AttemptEnds
    <2>2. UNCHANGED state /\ InWindow < MaxAttempts
      BY <1>2 DEF AttemptEnds
    <2>3. History /\ metrics \in [Targets -> Metric]
      BY DEF HistoryInv, History
    <2> DEFINE r == [metrics[t] EXCEPT ![c] = @ + 1, !.level = l]
    <2>5. metrics' = [metrics EXCEPT ![t] = r]
      BY <2>1
    <2>6. metrics[t] \in Metric /\ metrics[t].dragged <= metrics[t].error
      BY <2>3 DEF History
    <2>7. /\ r \in Metric /\ r.dragged <= r.error
          /\ r.ok + r.error + r.unknown <= Attempts(t) + 1
      BY <2>6, AttemptCounted DEF Attempts
    <2> HIDE DEF r
    <2>8. InWindow + 1 <= MaxAttempts
      <3>1. InWindow \in Nat /\ MaxAttempts \in Nat
        BY <2>3, WindowNumber
      <3>. QED BY <2>2, <3>1
    <2>. QED BY <2>2, <2>5, <2>7, <2>8, OneTargetSet
  <1>3. ASSUME NEW t \in Targets, AttemptDragged(t)
        PROVE  HistoryInv'
    <2>1. /\ metrics[t].dragged < metrics[t].error /\ UNCHANGED state
          /\ metrics' = [metrics EXCEPT ![t].dragged = @ + 1]
      BY <1>3 DEF AttemptDragged
    <2>3. History /\ metrics \in [Targets -> Metric]
      BY DEF HistoryInv, History
    <2> DEFINE r == [metrics[t] EXCEPT !.dragged = @ + 1]
    <2>4. metrics' = [metrics EXCEPT ![t] = r]
      BY <2>1, <2>3
    <2>5. metrics[t] \in Metric
      BY <2>3
    <2>6. r \in Metric
      BY <2>5 DEF Metric
    <2>7. r.dragged <= r.error /\ r.ok + r.error + r.unknown <= Attempts(t) + 0
      BY <2>1, <2>5 DEF Metric, Attempts
    <2>8. InWindow + 0 <= MaxAttempts
      <3>1. InWindow \in Nat
        BY <2>3, WindowNumber
      <3>. QED BY <3>1 DEF HistoryInv
    <2> HIDE DEF r
    <2>. QED BY <2>1, <2>4, <2>6, <2>7, <2>8, OneTargetSet
  <1>4. ASSUME NEW t \in Targets, WindowPasses(t)
        PROVE  HistoryInv'
    <2>1. metrics' = [metrics EXCEPT ![t] = NoMetrics] /\ UNCHANGED state
      BY <1>4 DEF WindowPasses
    <2>2. History /\ metrics \in [Targets -> Metric]
      BY DEF HistoryInv, History
    <2>3. NoMetrics \in Metric /\ NoMetrics.dragged <= NoMetrics.error
      BY RouterAssumption DEF NoMetrics, Metric, Levels
    <2>4. NoMetrics.ok + NoMetrics.error + NoMetrics.unknown <= Attempts(t) + 0
      <3>1. Attempts(t) \in Nat
        BY <2>2, HistoryNumbers
      <3>. QED BY <3>1 DEF NoMetrics
    <2>5. InWindow + 0 <= MaxAttempts
      <3>1. InWindow \in Nat
        BY <2>2, WindowNumber
      <3>. QED BY <3>1 DEF HistoryInv
    <2>. QED BY <2>1, <2>3, <2>4, <2>5, OneTargetSet
  <1>5. CASE UNCHANGED vars
    BY <1>5 DEF vars, HistoryInv, History, InWindow, Attempts, Sums
  <1>. QED BY <1>1, <1>2, <1>3, <1>4, <1>5 DEF Next

LEMMA HistoryTypes ==
  ASSUME HistoryInv
  PROVE  TypeOK
  <1>1. History /\ metrics \in [Targets -> Metric]
    BY DEF HistoryInv, History
  <1>2. ASSUME NEW t \in Targets
        PROVE  Attempts(t) <= MaxAttempts
    <2>1. Attempts(t) <= InWindow
      <3>1. Count(metrics)[t] <= Sums(Count(metrics))[Last]
        BY <1>1, CountedWindow, SummandOfSum
      <3>. QED BY <3>1, CountedWindow
    <2>2. InWindow \in Nat /\ MaxAttempts \in Nat /\ Attempts(t) \in Nat
      BY <1>1, WindowNumber, HistoryNumbers
    <2>. QED BY <2>1, <2>2 DEF HistoryInv
  <1>. QED BY <1>1, <1>2, HistoryNumbers, ReliabilityRange, WeightRange
           DEF TypeOK, HistoryInv

(* For every configuration, policy and history, of any length: the scores   *)
(* keep their ranges, each eligible target has exactly its weight's share   *)
(* of the draws and never an empty one, and a target that did worse does    *)
(* not weigh more (_score, choose).                                         *)
THEOREM DrawsAreFair == Spec => []FairDraw
  <1>1. ASSUME HistoryInv
        PROVE  FairDraw
    <2>1. History
      BY <1>1 DEF HistoryInv
    <2>2. TypeOK /\ DrawIsProportional
      BY <1>1, <2>1, HistoryTypes, DrawsShared
    <2>3. WorseIsRarer
      BY <2>1, WorseWeighs DEF WorseIsRarer
    <2>. QED BY <2>2, <2>3 DEF FairDraw
  <1>. QED BY <1>1, HistoryStarts, HistoryKept, PTL DEF Spec
=============================================================================
