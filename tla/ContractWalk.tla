----------------------------- MODULE ContractWalk -----------------------------
(***************************************************************************)
(* What the corridor promises its clients: a run is a walk along the flow  *)
(* of its contract.  It begins at the entry, leaves a step only by the     *)
(* transition the flow gives for the step's outcome, waits at every human  *)
(* gate until the gate is decided, and stays where it ended until the run  *)
(* is begun anew.  There are no requests, clones, logs or retries here;    *)
(* ContractRunProperties checks that the handlers implement this.          *)
(***************************************************************************)
EXTENDS ContractFlow

CONSTANTS RunIds, Contracts, Flows  \* contract id -> flow or None

VARIABLE walk                       \* run id -> position or None

Phases == {"ready", "review", "approved"} \cup Terminals

Position == [contract : Contracts, step : Steps, phase : Phases]

WalkTypeOK == walk \in [RunIds -> Position \cup {None}]

StepAt(p) == Flows[p.contract].steps[p.step]

\* The position on arriving at step s.
ArriveAt(p, s) ==
  [p EXCEPT !.step  = s,
            !.phase = CASE Flows[p.contract].steps[s].type = "human_gate" -> "review"
                        [] Flows[p.contract].steps[s].type = "terminal"   -> "completed"
                        [] OTHER                                          -> "ready"]

Move(p, outcome) ==
  LET t == ResolveFlowTransition(Flows[p.contract], p.step, outcome) IN
  IF t \in Steps THEN ArriveAt(p, t)
  ELSE [p EXCEPT !.phase = IF t = None THEN "failed" ELSE t]

GoTo(r, p) == walk' = [walk EXCEPT ![r] = p]

Begin(r, c) ==
  /\ Flows[c] # None
  /\ GoTo(r, [contract |-> c, step |-> Flows[c].entry, phase |-> "ready"])

Walking(r, phase) == walk[r] # None /\ walk[r].phase = phase

Perform(r) == /\ Walking(r, "ready")
              /\ StepAt(walk[r]).type \in {"connector_action", "deterministic_action"}
              /\ GoTo(r, Move(walk[r], "default"))

PerformGated(r) == Walking(r, "approved") /\ GoTo(r, Move(walk[r], "approve"))

ApproveGate(r) == Walking(r, "review") /\ GoTo(r, [walk[r] EXCEPT !.phase = "approved"])

RejectGate(r) == Walking(r, "review") /\ GoTo(r, Move(walk[r], "reject"))

WalkInit == walk = [r \in RunIds |-> None]

WalkNext == \E r \in RunIds : \/ \E c \in Contracts : Begin(r, c)
                              \/ Perform(r) \/ PerformGated(r)
                              \/ ApproveGate(r) \/ RejectGate(r)

WalkSpec == WalkInit /\ [][WalkNext]_walk

=============================================================================
