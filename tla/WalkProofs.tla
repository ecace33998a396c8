------------------------------ MODULE WalkProofs ------------------------------
(***************************************************************************)
(* What the flow interpreter computes, for every flow, start, outcome map, *)
(* decision and hop limit: a proof by induction on the turns of its loop.  *)
(* The library's induction theorems take an operator as a parameter; the   *)
(* induction below is over a set of numbers, from the minimum principle    *)
(* of well-founded relations.                                              *)
(***************************************************************************)
EXTENDS LegacyWalk, WellFoundedInduction, TLAPS

LEMMA NatSetInduction ==
  ASSUME NEW T, 0 \in T, \A n \in Nat : n \in T => n + 1 \in T
  PROVE  Nat \subseteq T
<1> DEFINE Less == OpToRel(<, Nat)
           Missing == Nat \ T
<1>1. \A x, y \in Nat : <<x, y>> \in Less <=> x < y
  BY DEF OpToRel
<1>2. IsWellFoundedOn(Less, Nat)
  BY NatLessThanWellFounded
<1> HIDE DEF Less
<1> SUFFICES ASSUME Missing # {} PROVE FALSE
  OBVIOUS
<1>3. Missing \subseteq Nat
  OBVIOUS
<1>4. PICK x \in Missing : \A y \in Missing : ~(<<y, x>> \in Less)
  <2> HIDE DEF Missing
  <2> QED BY <1>2, <1>3, WFMin
<1>5. x # 0 /\ x - 1 \in Nat /\ x - 1 < x
  OBVIOUS
<1>6. x - 1 \in T
  BY <1>1, <1>4, <1>5
<1> QED BY <1>5, <1>6

\* One turn of the loop: nothing more happens once the walk has a result.
Turn(f, outcomes, decision, w) ==
  IF w.result = "running" THEN Hop(f, outcomes, decision, w) ELSE w

\* g is the walk of the first n turns.
IsWalk(g, n, f, start, outcomes, decision) ==
  g = [i \in 0 .. n |-> IF i = 0 THEN StartAt(start) ELSE Turn(f, outcomes, decision, g[i - 1])]

LEMMA WalkExists ==
  ASSUME NEW f, NEW start, NEW outcomes, NEW decision, NEW n \in Nat
  PROVE  \E g : IsWalk(g, n, f, start, outcomes, decision)
<1> DEFINE T == {m \in Nat : \E g : IsWalk(g, m, f, start, outcomes, decision)}
<1>1. 0 \in T
  <2> DEFINE g == [i \in 0 .. 0 |-> StartAt(start)]
  <2>1. IsWalk(g, 0, f, start, outcomes, decision)
    BY DEF IsWalk
  <2> QED BY <2>1
<1>2. ASSUME NEW m \in Nat, m \in T PROVE m + 1 \in T
  <2>1. PICK g : IsWalk(g, m, f, start, outcomes, decision)
    BY <1>2
  <2> DEFINE h == [i \in 0 .. m + 1 |-> IF i <= m THEN g[i] ELSE Turn(f, outcomes, decision, g[m])]
  <2>2. \A i \in 0 .. m + 1 :
          h[i] = IF i = 0 THEN StartAt(start) ELSE Turn(f, outcomes, decision, h[i - 1])
    BY <2>1 DEF IsWalk
  <2>3. IsWalk(h, m + 1, f, start, outcomes, decision)
    <3>1. h = [i \in 0 .. m + 1 |-> h[i]]
      OBVIOUS
    <3> HIDE DEF h
    <3> QED BY <2>2, <3>1 DEF IsWalk
  <2> QED BY <2>3
<1> HIDE DEF T
<1>3. n \in T
  BY <1>1, <1>2, NatSetInduction
<1> QED BY <1>3 DEF T

LEMMA WalkIs ==
  ASSUME NEW f, NEW start, NEW outcomes, NEW decision
  PROVE  \E g : /\ IsWalk(g, Hops, f, start, outcomes, decision)
                /\ ExecuteContractFlow(f, start, outcomes, decision)
                     = IF g[Hops].result = "running" THEN [g[Hops] EXCEPT !.result = "ended"]
                       ELSE g[Hops]
<1> DEFINE walk[n \in 0 .. Hops] ==
             IF n = 0 THEN StartAt(start)
             ELSE IF walk[n - 1].result = "running" THEN Hop(f, outcomes, decision, walk[n - 1])
             ELSE walk[n - 1]
<1>1. \E g : IsWalk(g, Hops, f, start, outcomes, decision)
  BY WalkExists, HopsAssumption
<1>2. IsWalk(walk, Hops, f, start, outcomes, decision)
  BY <1>1 DEF IsWalk, Turn
<1>3. ExecuteContractFlow(f, start, outcomes, decision)
        = IF walk[Hops].result = "running" THEN [walk[Hops] EXCEPT !.result = "ended"]
          ELSE walk[Hops]
  BY DEF ExecuteContractFlow
<1> HIDE DEF walk
<1> QED BY <1>2, <1>3

-----------------------------------------------------------------------------
(* What the loop keeps *)

\* The position of a trace at which a decision is due: that of the first gate.
DecisionDue(f, decision, t, i) ==
  /\ decision # None /\ i \in DOMAIN t /\ IsGate(f, t[i])
  /\ \A j \in DOMAIN t : IsGate(f, t[j]) => i <= j

\* Where the walk t goes from its i-th step.
Onward(f, outcomes, decision, t, i) ==
  PickNextTarget(f.steps[t[i]],
                 IF DecisionDue(f, decision, t, i) THEN decision ELSE outcomes[t[i]])

MetGate(f, t) == \E i \in DOMAIN t : IsGate(f, t[i])

\* The trace is a path of the flow, and goes past no gate without a decision.
PathOK(f, outcomes, decision, t) ==
  /\ \A i \in 1 .. Len(t) - 1 : t[i + 1] = Onward(f, outcomes, decision, t, i)
  /\ decision = None => \A i \in 1 .. Len(t) - 1 : ~IsGate(f, t[i])

\* The loop after n turns; w has no result yet.
Running(f, start, outcomes, decision, n, w) ==
  /\ w \in Walk /\ w.result = "running" /\ w.terminal = None
  /\ Len(w.trace) = n
  /\ PathOK(f, outcomes, decision, w.trace)
  /\ decision = None => ~MetGate(f, w.trace)
  /\ w.used <=> decision # None /\ MetGate(f, w.trace)
  /\ n = 0 => w.at = start
  /\ n > 0 => w.at = Onward(f, outcomes, decision, w.trace, n) /\ HasStep(f, w.at)

\* A walk that stands at a gate, or has met a terminal; it has taken n turns at most.
Stopped(f, outcomes, decision, n, w) ==
  /\ w \in Walk /\ w.result \in {"waiting", "ended"} /\ Len(w.trace) \in 1 .. n
  /\ w.at = w.trace[Len(w.trace)] /\ HasStep(f, w.at)
  /\ PathOK(f, outcomes, decision, w.trace)
  /\ w.result = "waiting" => decision = None /\ IsGate(f, w.at) /\ w.terminal = None
  /\ w.result = "ended" => /\ w.terminal = Onward(f, outcomes, decision, w.trace, Len(w.trace))
                           /\ w.terminal \in Terminals
                           /\ decision = None => ~MetGate(f, w.trace)

LoopInv(f, start, outcomes, decision, n, w) ==
  \/ Running(f, start, outcomes, decision, n, w)
  \/ Stopped(f, outcomes, decision, n, w)
  \/ w.result = "error"

-----------------------------------------------------------------------------

\* A step appended to a trace does not change where the walk went before.
LEMMA TraceGrows ==
  ASSUME NEW t \in Seq(Steps), NEW s \in Steps, NEW u, u = Append(t, s)
  PROVE  /\ u \in Seq(Steps) /\ Len(t) \in Nat /\ Len(u) = Len(t) + 1 /\ u[Len(t) + 1] = s
         /\ DOMAIN u = 1 .. Len(t) + 1 /\ DOMAIN t = 1 .. Len(t)
         /\ \A i \in 1 .. Len(t) : u[i] = t[i]
  OBVIOUS

\* u is the trace t and one step more.
Extends(u, t, n) ==
  n \in Nat /\ DOMAIN u = 1 .. n + 1 /\ DOMAIN t = 1 .. n /\ \A i \in 1 .. n : u[i] = t[i]

LEMMA GatesGrow ==
  ASSUME NEW f, NEW t, NEW u, NEW n, Extends(u, t, n)
  PROVE  MetGate(f, u) <=> (MetGate(f, t) \/ IsGate(f, u[n + 1]))
BY DEF MetGate, Extends

LEMMA DueGrows ==
  ASSUME NEW f, NEW decision, NEW t, NEW u, NEW n, Extends(u, t, n)
  PROVE  DecisionDue(f, decision, u, n + 1)
           <=> (decision # None /\ IsGate(f, u[n + 1]) /\ ~MetGate(f, t))
BY DEF DecisionDue, MetGate, Extends

LEMMA OnwardStays ==
  ASSUME NEW f, NEW outcomes, NEW decision, NEW t, NEW u, NEW n, Extends(u, t, n), NEW i \in 1 .. n
  PROVE  Onward(f, outcomes, decision, u, i) = Onward(f, outcomes, decision, t, i)
<1>1. DecisionDue(f, decision, u, i) <=> DecisionDue(f, decision, t, i)
  BY DEF DecisionDue, Extends
<1> QED BY <1>1 DEF Onward, Extends

LEMMA TargetType ==
  ASSUME NEW f \in LegacyFlow, ValidLegacyFlow(f), NEW s \in Steps, HasStep(f, s), NEW o \in Outcomes
  PROVE  /\ PickNextTarget(f.steps[s], o) \in Target \cup {None}
         /\ PickNextTarget(f.steps[s], o) \in Steps => HasStep(f, PickNextTarget(f.steps[s], o))
<1>1. f.steps[s] \in GateStep
  BY DEF LegacyFlow, HasStep
<1>2. \A p \in Outcomes : /\ f.steps[s].next[p] \in Target \cup {None}
                          /\ f.steps[s].next[p] \in Steps => HasStep(f, f.steps[s].next[p])
  BY <1>1 DEF GateStep, ValidLegacyFlow, StepIds
<1> QED BY <1>2 DEF PickNextTarget, Outcomes

\* What a turn makes of the loop's variables before it looks at the target.
LEMMA HereIs ==
  ASSUME NEW w \in Walk, NEW b \in BOOLEAN
  PROVE  LET here == [w EXCEPT !.trace = Append(@, w.at), !.used = b] IN
         /\ here \in Walk /\ here.trace = Append(w.trace, w.at) /\ here.used = b
         /\ here.at = w.at /\ here.result = w.result /\ here.terminal = w.terminal
<1> DEFINE a == [w EXCEPT !.trace = Append(w.trace, w.at)]
           h == [a EXCEPT !.used = b]
<1>0. Append(w.trace, w.at) \in Seq(Steps)
  BY DEF Walk
<1>1. /\ a \in Walk /\ a.trace = Append(w.trace, w.at)
      /\ a.at = w.at /\ a.result = w.result /\ a.terminal = w.terminal
  BY <1>0 DEF Walk
<1>2. h = [w EXCEPT !.trace = Append(@, w.at), !.used = b]
  OBVIOUS
<1> HIDE DEF a
<1>3. /\ h \in Walk /\ h.trace = a.trace /\ h.used = b
      /\ h.at = a.at /\ h.result = a.result /\ h.terminal = a.terminal
  BY <1>1 DEF Walk
<1> HIDE DEF h
<1> QED BY <1>1, <1>2, <1>3

\* A turn of a walk that is running.
LEMMA HopKeeps ==
  ASSUME NEW f \in LegacyFlow, ValidLegacyFlow(f), NEW start \in Steps,
         NEW outcomes \in [Steps -> Outcomes], NEW decision \in {None, "approve", "reject"},
         NEW n \in Nat, NEW w, Running(f, start, outcomes, decision, n, w)
  PROVE  LoopInv(f, start, outcomes, decision, n + 1, Hop(f, outcomes, decision, w))
<1> DEFINE Spends == IsGate(f, w.at) /\ decision # None /\ ~w.used
           Aim    == PickNextTarget(f.steps[w.at], IF Spends THEN decision ELSE outcomes[w.at])
           Past   == [w EXCEPT !.trace = Append(@, w.at), !.used = @ \/ Spends]
<1>0. HasStep(f, w.at) =>
        Hop(f, outcomes, decision, w)
          = IF IsGate(f, w.at) /\ decision = None THEN [Past EXCEPT !.result = "waiting"]
            ELSE CASE Aim = None    -> [Past EXCEPT !.result = "error"]
                   [] Aim \in Steps -> [Past EXCEPT !.at = Aim]
                   [] OTHER         -> [Past EXCEPT !.result = "ended", !.terminal = Aim]
  BY DEF Hop
<1>1. PICK s, t, spend, outcome, target, here :
        /\ s = w.at /\ t = w.trace
        /\ spend = (IsGate(f, s) /\ decision # None /\ ~w.used)
        /\ outcome = IF spend THEN decision ELSE outcomes[s]
        /\ target = PickNextTarget(f.steps[s], outcome)
        /\ here = [w EXCEPT !.trace = Append(@, w.at), !.used = @ \/ spend]
        /\ target = Aim /\ here = Past
  OBVIOUS
<1> HIDE DEF Spends, Aim, Past
<1>2. /\ w \in Walk /\ s \in Steps /\ t \in Seq(Steps) /\ Len(t) = n /\ w.used \in BOOLEAN
      /\ w.terminal = None /\ w.result = "running"
  BY <1>1 DEF Running, Walk
<1>3. CASE ~HasStep(f, s)
  <2>1. Hop(f, outcomes, decision, w) = [w EXCEPT !.result = "error"]
    BY <1>1, <1>3 DEF Hop
  <2>2. [w EXCEPT !.result = "error"].result = "error"
    BY <1>2 DEF Walk
  <2> QED BY <2>1, <2>2 DEF LoopInv
<1>4. CASE HasStep(f, s)
  <2>1. Hop(f, outcomes, decision, w)
          = IF IsGate(f, s) /\ decision = None THEN [here EXCEPT !.result = "waiting"]
            ELSE CASE target = None    -> [here EXCEPT !.result = "error"]
                   [] target \in Steps -> [here EXCEPT !.at = target]
                   [] OTHER            -> [here EXCEPT !.result = "ended", !.terminal = target]
    BY <1>0, <1>1, <1>4
  <2>2. PICK b \in BOOLEAN : b = (w.used \/ spend)
    BY <1>1, <1>2
  <2>3. /\ here \in Walk /\ here.trace = Append(t, s) /\ here.used = b
        /\ here.at = s /\ here.result = "running" /\ here.terminal = None
    <3>1. here = [w EXCEPT !.trace = Append(@, w.at), !.used = b]
      BY <1>1, <2>2
    <3>2. [w EXCEPT !.trace = Append(@, w.at), !.used = b] = here
      BY <3>1
    <3>3. /\ here \in Walk /\ here.trace = Append(w.trace, w.at) /\ here.used = b
          /\ here.at = w.at /\ here.result = w.result /\ here.terminal = w.terminal
      <4>1. w \in Walk
        BY <1>2
      <4> QED BY <3>2, <4>1, HereIs
    <3> QED BY <1>1, <1>2, <3>3
  <2>4. PICK u : u = Append(t, s)
    OBVIOUS
  <2>5. /\ u \in Seq(Steps) /\ Len(u) = n + 1 /\ u[n + 1] = s
        /\ (MetGate(f, u) <=> MetGate(f, t) \/ IsGate(f, s))
        /\ \A i \in 1 .. n : Onward(f, outcomes, decision, u, i) = Onward(f, outcomes, decision, t, i)
        /\ (DecisionDue(f, decision, u, n + 1) <=> (decision # None /\ IsGate(f, s) /\ ~MetGate(f, t)))
        /\ \A i \in 1 .. n : u[i] = t[i]
    <3>1. u \in Seq(Steps) /\ Len(u) = n + 1 /\ u[n + 1] = s /\ Extends(u, t, n)
      BY <1>2, <2>4, TraceGrows DEF Extends
    <3>2. \A i \in 1 .. n : u[i] = t[i]
      BY <3>1 DEF Extends
    <3>3. MetGate(f, u) <=> (MetGate(f, t) \/ IsGate(f, s))
      BY <3>1, GatesGrow
    <3>4. DecisionDue(f, decision, u, n + 1) <=> (decision # None /\ IsGate(f, s) /\ ~MetGate(f, t))
      BY <3>1, DueGrows
    <3>5. \A i \in 1 .. n : Onward(f, outcomes, decision, u, i) = Onward(f, outcomes, decision, t, i)
      BY <3>1, OnwardStays
    <3> QED BY <3>1, <3>2, <3>3, <3>4, <3>5
  <2>6. target \in Target \cup {None} /\ (target \in Steps => HasStep(f, target))
    <3>1. outcome \in Outcomes
      BY <1>1, <1>2 DEF Outcomes
    <3> QED BY <1>1, <1>2, <1>4, <3>1, TargetType
  <2>7. spend <=> DecisionDue(f, decision, u, n + 1)
    BY <1>1, <2>5 DEF Running
  <2>8. target = Onward(f, outcomes, decision, u, n + 1)
    BY <1>1, <2>5, <2>7 DEF Onward
  <2>9. PathOK(f, outcomes, decision, u)
    <3>1. ASSUME NEW i \in 1 .. n PROVE u[i + 1] = Onward(f, outcomes, decision, u, i)
      <4>1. CASE i < n
        <5>1. t[i + 1] = Onward(f, outcomes, decision, t, i) /\ u[i + 1] = t[i + 1]
          BY <1>1, <1>2, <2>5, <4>1 DEF Running, PathOK
        <5> QED BY <2>5, <5>1
      <4>2. CASE i = n
        BY <1>1, <2>5, <4>2 DEF Running
      <4> QED BY <4>1, <4>2
    <3>2. ASSUME decision = None, NEW i \in 1 .. n PROVE ~IsGate(f, u[i])
      <4>1. ~MetGate(f, t) /\ DOMAIN t = 1 .. n
        BY <1>1, <1>2, <3>2 DEF Running
      <4> QED BY <2>5, <4>1 DEF MetGate
    <3> QED BY <2>5, <3>1, <3>2 DEF PathOK
  <2>10. b <=> decision # None /\ MetGate(f, u)
    BY <1>1, <2>2, <2>5 DEF Running
  <2>11. CASE IsGate(f, s) /\ decision = None
    <3>1. PICK v : v = [here EXCEPT !.result = "waiting"]
      OBVIOUS
    <3>2. v \in Walk /\ v.result = "waiting" /\ v.trace = u /\ v.at = s /\ v.terminal = None
      BY <2>3, <2>4, <3>1 DEF Walk, Results
    <3>3. Stopped(f, outcomes, decision, n + 1, v)
      BY <1>4, <2>5, <2>9, <2>11, <3>2 DEF Stopped
    <3> QED BY <2>1, <2>11, <3>1, <3>3 DEF LoopInv
  <2>12. CASE ~(IsGate(f, s) /\ decision = None) /\ target = None
    <3>1. [here EXCEPT !.result = "error"].result = "error"
      BY <2>3 DEF Walk
    <3>2. target \notin Steps
      BY <2>12, NamesAssumption
    <3>3. Hop(f, outcomes, decision, w) = [here EXCEPT !.result = "error"]
      BY <2>1, <2>12, <3>2
    <3> QED BY <3>1, <3>3 DEF LoopInv
  <2>13. CASE ~(IsGate(f, s) /\ decision = None) /\ target \in Steps
    <3>0. target # None
      BY <2>13, NamesAssumption
    <3>1. PICK v : v = [here EXCEPT !.at = target]
      OBVIOUS
    <3>2. /\ v \in Walk /\ v.result = "running" /\ v.trace = u /\ v.at = target
          /\ v.terminal = None /\ v.used = b
      BY <2>3, <2>4, <2>13, <3>1 DEF Walk
    <3>3. decision = None => ~MetGate(f, u)
      BY <1>1, <2>5, <2>13 DEF Running
    <3>4. Running(f, start, outcomes, decision, n + 1, v)
      BY <2>5, <2>6, <2>8, <2>9, <2>10, <2>13, <3>2, <3>3 DEF Running
    <3> QED BY <2>1, <2>13, <3>0, <3>1, <3>4 DEF LoopInv
  <2>14. CASE ~(IsGate(f, s) /\ decision = None) /\ target # None /\ target \notin Steps
    <3>1. target \in Terminals
      BY <2>6, <2>14 DEF Target
    <3>2. PICK v : v = [here EXCEPT !.result = "ended", !.terminal = target]
      OBVIOUS
    <3>3. v \in Walk /\ v.result = "ended" /\ v.trace = u /\ v.at = s /\ v.terminal = target
      BY <2>3, <2>4, <3>1, <3>2 DEF Walk, Results
    <3>4. decision = None => ~MetGate(f, u)
      BY <1>1, <2>5, <2>14 DEF Running
    <3>5. Stopped(f, outcomes, decision, n + 1, v)
      BY <1>4, <2>5, <2>8, <2>9, <3>1, <3>3, <3>4 DEF Stopped
    <3> QED BY <2>1, <2>14, <3>2, <3>5 DEF LoopInv
  <2> QED BY <2>11, <2>12, <2>13, <2>14
<1> QED BY <1>3, <1>4

LEMMA WalkBegins ==
  ASSUME NEW f \in LegacyFlow, NEW start \in Steps, NEW outcomes \in [Steps -> Outcomes],
         NEW decision \in {None, "approve", "reject"}
  PROVE  Running(f, start, outcomes, decision, 0, StartAt(start))
<1> DEFINE w == StartAt(start)
<1>1. /\ w \in Walk /\ w.result = "running" /\ w.terminal = None /\ w.trace = << >>
      /\ w.used = FALSE /\ w.at = start
  BY DEF StartAt, Walk
<1> HIDE DEF w
<1>2. Len(w.trace) = 0 /\ DOMAIN w.trace = {}
  BY <1>1
<1>3. PathOK(f, outcomes, decision, w.trace) /\ ~MetGate(f, w.trace)
  BY <1>2 DEF PathOK, MetGate
<1> QED BY <1>1, <1>2, <1>3 DEF Running, w

\* Every turn of the loop keeps its invariant.
LEMMA LoopKept ==
  ASSUME NEW f \in LegacyFlow, ValidLegacyFlow(f), NEW start \in Steps,
         NEW outcomes \in [Steps -> Outcomes], NEW decision \in {None, "approve", "reject"},
         NEW g, IsWalk(g, Hops, f, start, outcomes, decision)
  PROVE  LoopInv(f, start, outcomes, decision, Hops, g[Hops])
<1> DEFINE T == {m \in Nat : m <= Hops => LoopInv(f, start, outcomes, decision, m, g[m])}
<1>1. 0 \in T
  <2>1. g[0] = StartAt(start)
    BY HopsAssumption DEF IsWalk
  <2> QED BY <2>1, WalkBegins DEF LoopInv
<1>2. ASSUME NEW m \in Nat, m \in T PROVE m + 1 \in T
  <2> SUFFICES ASSUME m + 1 <= Hops PROVE LoopInv(f, start, outcomes, decision, m + 1, g[m + 1])
    OBVIOUS
  <2>1. g[m + 1] = Turn(f, outcomes, decision, g[m])
    BY HopsAssumption DEF IsWalk
  <2>2. LoopInv(f, start, outcomes, decision, m, g[m])
    BY <1>2, HopsAssumption
  <2>3. CASE Running(f, start, outcomes, decision, m, g[m])
    <3>1. g[m].result = "running"
      BY <2>3 DEF Running
    <3>2. g[m + 1] = Hop(f, outcomes, decision, g[m])
      BY <2>1, <3>1 DEF Turn
    <3> QED BY <2>3, <3>2, HopKeeps
  <2>4. CASE Stopped(f, outcomes, decision, m, g[m])
    <3>1. g[m].result # "running"
      BY <2>4 DEF Stopped
    <3>2. g[m + 1] = g[m]
      BY <2>1, <3>1 DEF Turn
    <3>3. Stopped(f, outcomes, decision, m + 1, g[m])
      BY <2>4 DEF Stopped
    <3> QED BY <3>2, <3>3 DEF LoopInv
  <2>5. CASE g[m].result = "error"
    BY <2>1, <2>5 DEF Turn, LoopInv
  <2> QED BY <2>2, <2>3, <2>4, <2>5 DEF LoopInv
<1> HIDE DEF T
<1>3. Hops \in T
  BY <1>1, <1>2, NatSetInduction, HopsAssumption
<1> QED BY <1>3, HopsAssumption DEF T

-----------------------------------------------------------------------------
(* What the interpreter returns *)

\* The walk follows the flow to a terminal, to a gate or for Hops steps, and
\* without a decision its last step is the only one that may be a gate.
Followed(f, outcomes, decision, w) ==
  /\ w \in Walk /\ HasStep(f, w.at)
  /\ w.result \in {"waiting", "ended"} /\ Len(w.trace) \in 1 .. Hops
  /\ PathOK(f, outcomes, decision, w.trace)
  /\ w.result = "ended" =>
       \/ w.terminal = Onward(f, outcomes, decision, w.trace, Len(w.trace))
       \/ /\ w.terminal = None /\ Len(w.trace) = Hops
          /\ w.at = Onward(f, outcomes, decision, w.trace, Len(w.trace))
  /\ decision = None /\ w.terminal # None => ~MetGate(f, w.trace)

\* A walk waits at a gate of its flow, and only one that nobody has decided.
PausedAtGate(f, decision, w) == w.result = "waiting" => decision = None /\ IsGate(f, w.at)

LEMMA StoppedFollows ==
  ASSUME NEW f, NEW outcomes, NEW decision, NEW w, Stopped(f, outcomes, decision, Hops, w)
  PROVE  Followed(f, outcomes, decision, w) /\ PausedAtGate(f, decision, w)
BY DEF Stopped, Followed, PausedAtGate

\* The hop limit: the walk stops where its last step leads.
LEMMA LimitFollows ==
  ASSUME NEW f, NEW start, NEW outcomes, NEW decision, NEW w,
         Running(f, start, outcomes, decision, Hops, w)
  PROVE  LET v == [w EXCEPT !.result = "ended"]
         IN Followed(f, outcomes, decision, v) /\ PausedAtGate(f, decision, v)
<1> DEFINE v == [w EXCEPT !.result = "ended"]
<1>1. /\ v \in Walk /\ v.result = "ended" /\ v.at = w.at /\ v.trace = w.trace
      /\ v.terminal = w.terminal
  BY DEF Running, Walk, Results
<1> HIDE DEF v
<1>2. Len(w.trace) = Hops /\ w.terminal = None /\ PathOK(f, outcomes, decision, w.trace)
      /\ w.at = Onward(f, outcomes, decision, w.trace, Hops) /\ HasStep(f, w.at)
  BY HopsAssumption DEF Running
<1>3. Followed(f, outcomes, decision, v) /\ PausedAtGate(f, decision, v)
  BY <1>1, <1>2, HopsAssumption DEF Followed, PausedAtGate
<1> QED BY <1>3 DEF v

\* What the interpreter returns for a registered flow, whatever the flow, the
\* step it starts at, the outcomes, the decision and the hop limit: an error,
\* or a walk that follows the flow and waits at a gate only (execute_contract_flow).
THEOREM ExecutedWalk ==
  ASSUME NEW f \in LegacyFlow, ValidLegacyFlow(f), NEW start \in Steps,
         NEW outcomes \in [Steps -> Outcomes], NEW decision \in {None, "approve", "reject"},
         NEW w, w = ExecuteContractFlow(f, start, outcomes, decision)
  PROVE  \/ w.result = "error"
         \/ Followed(f, outcomes, decision, w) /\ PausedAtGate(f, decision, w)
<1>1. PICK g : /\ IsWalk(g, Hops, f, start, outcomes, decision)
               /\ w = IF g[Hops].result = "running" THEN [g[Hops] EXCEPT !.result = "ended"]
                      ELSE g[Hops]
  BY WalkIs
<1>2. LoopInv(f, start, outcomes, decision, Hops, g[Hops])
  BY <1>1, LoopKept
<1>3. CASE Running(f, start, outcomes, decision, Hops, g[Hops])
  <2>1. g[Hops].result = "running"
    BY <1>3 DEF Running
  <2>2. w = [g[Hops] EXCEPT !.result = "ended"]
    BY <1>1, <2>1
  <2> QED BY <1>3, <2>2, LimitFollows
<1>4. CASE Stopped(f, outcomes, decision, Hops, g[Hops])
  <2>1. g[Hops].result # "running"
    BY <1>4 DEF Stopped
  <2> QED BY <1>1, <1>4, <2>1, StoppedFollows
<1>5. CASE g[Hops].result = "error"
  BY <1>1, <1>5
<1> QED BY <1>2, <1>3, <1>4, <1>5 DEF LoopInv

=============================================================================
