------------------------------ MODULE LegacyWalk ------------------------------
(***************************************************************************)
(* The flow interpreter of the compatibility endpoints                     *)
(* (execute_contract_flow in src/http/mod.rs and, word for word, in        *)
(* src/worker_adapter.rs).  Unlike the corridor it walks a whole flow in   *)
(* one call: it follows transitions from a start step until a terminal, a  *)
(* human gate at which it has to pause, an error, or the hop limit.  A     *)
(* step is reduced to whether it is a gate and to its transitions; what it *)
(* would do (markers, delivery) is a function of the trace.                *)
(***************************************************************************)
EXTENDS ContractFlow

CONSTANT Hops          \* the iterations of the interpreter's loop, 128 in the code

ASSUME HopsAssumption == Hops \in Nat \ {0}

GateStep == [gate : BOOLEAN, next : [Outcomes -> Target \cup {None}]]

LegacyFlow == [entry : Steps, steps : [Steps -> GateStep \cup {None}]]

\* The flow shape a registration requires of these endpoints.
ValidLegacyFlow(f) == EntryExists(f) /\ \A s \in StepIds(f) :
                        /\ \E o \in Outcomes : f.steps[s].next[o] # None
                        /\ \A o \in Outcomes : f.steps[s].next[o] \in Steps
                                                 => HasStep(f, f.steps[s].next[o])

IsGate(f, s) == f.steps[s].gate

Results == {"waiting", "ended", "error"}

Walk == [at : Steps, trace : Seq(Steps), used : BOOLEAN, result : Results \cup {"running"},
         terminal : Terminals \cup {None}]

\* The state of the loop; `used` tells whether the decision has been spent.
StartAt(s) == [at |-> s, trace |-> << >>, used |-> FALSE, result |-> "running", terminal |-> None]

\* Mutants of Hop: the decision is spent at the first step, gate or not; a gate
\* is passed without a decision; the walk moves onto the terminal it ends with.
HopSpendsAtOnce(f, outcomes, decision, w) ==
  IF ~HasStep(f, w.at) THEN [w EXCEPT !.result = "error"]
  ELSE LET spend  == decision # None /\ ~w.used
           target == PickNextTarget(f.steps[w.at], IF spend THEN decision ELSE outcomes[w.at])
           here   == [w EXCEPT !.trace = Append(@, w.at), !.used = @ \/ spend]
       IN IF IsGate(f, w.at) /\ decision = None THEN [here EXCEPT !.result = "waiting"]
          ELSE CASE target = None     -> [here EXCEPT !.result = "error"]
                 [] target \in Steps  -> [here EXCEPT !.at = target]
                 [] OTHER             -> [here EXCEPT !.result = "ended", !.terminal = target]

HopNeverPauses(f, outcomes, decision, w) ==
  IF ~HasStep(f, w.at) THEN [w EXCEPT !.result = "error"]
  ELSE LET spend  == IsGate(f, w.at) /\ decision # None /\ ~w.used
           target == PickNextTarget(f.steps[w.at], IF spend THEN decision ELSE outcomes[w.at])
           here   == [w EXCEPT !.trace = Append(@, w.at), !.used = @ \/ spend]
       IN CASE target = None     -> [here EXCEPT !.result = "error"]
            [] target \in Steps  -> [here EXCEPT !.at = target]
            [] OTHER             -> [here EXCEPT !.result = "ended", !.terminal = target]

HopOntoTerminal(f, outcomes, decision, w) ==
  IF ~HasStep(f, w.at) THEN [w EXCEPT !.result = "error"]
  ELSE LET spend  == IsGate(f, w.at) /\ decision # None /\ ~w.used
           target == PickNextTarget(f.steps[w.at], IF spend THEN decision ELSE outcomes[w.at])
           here   == [w EXCEPT !.trace = Append(@, w.at), !.used = @ \/ spend]
       IN IF IsGate(f, w.at) /\ decision = None THEN [here EXCEPT !.result = "waiting"]
          ELSE CASE target = None     -> [here EXCEPT !.result = "error"]
                 [] target \in Steps  -> [here EXCEPT !.at = target]
                 [] OTHER             -> [here EXCEPT !.at = target, !.result = "ended",
                                                      !.terminal = target]

\* One iteration: decision is None when the flow is run rather than continued,
\* and then the walk pauses at the first gate.
Hop(f, outcomes, decision, w) ==
  IF ~HasStep(f, w.at) THEN [w EXCEPT !.result = "error"]
  ELSE LET spend  == IsGate(f, w.at) /\ decision # None /\ ~w.used
           target == PickNextTarget(f.steps[w.at], IF spend THEN decision ELSE outcomes[w.at])
           here   == [w EXCEPT !.trace = Append(@, w.at), !.used = @ \/ spend]
       IN IF IsGate(f, w.at) /\ decision = None THEN [here EXCEPT !.result = "waiting"]
          ELSE CASE target = None     -> [here EXCEPT !.result = "error"]
                 [] target \in Steps  -> [here EXCEPT !.at = target]
                 [] OTHER             -> [here EXCEPT !.result = "ended", !.terminal = target]

ExecuteContractFlow(f, start, outcomes, decision) ==
  LET walk[n \in 0 .. Hops] ==
        IF n = 0 THEN StartAt(start)
        ELSE IF walk[n - 1].result = "running" THEN Hop(f, outcomes, decision, walk[n - 1])
             ELSE walk[n - 1]
      w == walk[Hops]
  IN IF w.result = "running" THEN [w EXCEPT !.result = "ended"] ELSE w

\* The status the client is told; a walk that ran out of hops is "completed".
StatusOf(w) == CASE w.result = "waiting" -> "waiting_human"
                 [] w.terminal = None    -> "completed"
                 [] OTHER                -> w.terminal

=============================================================================
