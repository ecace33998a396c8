----------------------------- MODULE ContractFlow -----------------------------
(***************************************************************************)
(* Contract flows: the data a registered contract carries, the validation  *)
(* it passes before it is admitted, and the resolution of a transition.    *)
(* Models src/contracts/mod.rs and the pure half of                        *)
(* src/contract_run/mod.rs.  Step ids and operation ids are opaque; the    *)
(* JSON object `next` is a function from outcome keys to targets; the      *)
(* connector object is reduced to whether its metadata is complete.        *)
(***************************************************************************)
EXTENDS Naturals, Sequences

CONSTANTS
  Steps,   \* step ids a flow may use
  Ops,     \* operation ids
  None     \* the absent value (Option::None, a missing key)

StepTypes == {"connector_action", "deterministic_action", "human_gate", "terminal"}

Terminals == {"completed", "blocked", "failed"}

\* The keys a flow may give a transition for; no handler resolves "error".
Outcomes == {"default", "approve", "reject", "error"}

ASSUME NamesAssumption == /\ None \notin Steps \cup Ops \cup Terminals
                          /\ Steps \cap Terminals = {}

Target == Steps \cup Terminals

FlowStep == [type      : StepTypes,
             op        : Ops \cup {None},
             connector : BOOLEAN,
             next      : [Outcomes -> Target \cup {None}]]

Flow == [entry : Steps, steps : [Steps -> FlowStep \cup {None}]]

\* A missing flow or step is None, never a record.
ASSUME AbsenceAssumption == None \notin Flow /\ None \notin FlowStep

HasStep(f, s) == f.steps[s] # None

StepIds(f) == {s \in Steps : HasStep(f, s)}

-----------------------------------------------------------------------------
(* Validation, in the order the code runs it; step ids are unique because  *)
(* `steps` is a function.                                                  *)

EntryExists(f) == HasStep(f, f.entry)

ExecutableStepsHaveOps(f) ==
  \A s \in StepIds(f) : f.steps[s].type # "terminal" => f.steps[s].op # None

ConnectorMetadataComplete(f) ==
  \A s \in StepIds(f) : f.steps[s].type = "connector_action" => f.steps[s].connector

TransitionTargetsValid(f) ==
  \A s \in StepIds(f) :
    LET next == f.steps[s].next IN
    /\ \E o \in Outcomes : next[o] # None
    /\ f.steps[s].type = "human_gate" => next["approve"] # None \/ next["reject"] # None
    /\ \A o \in Outcomes : next[o] \in Steps => HasStep(f, next[o])

\* What POST /contracts/register and POST /contracts/{id}/runs both require.
ValidFlow(f) == /\ EntryExists(f)
                /\ ExecutableStepsHaveOps(f)
                /\ ConnectorMetadataComplete(f)
                /\ TransitionTargetsValid(f)

-----------------------------------------------------------------------------
(* Transition resolution.  None stands for the Err results                 *)
(* contract_step_not_found and transition_not_found.                       *)

PickNextTarget(step, outcome) ==
  IF step.next[outcome] # None THEN step.next[outcome] ELSE step.next["default"]

ResolveFlowTransition(f, s, outcome) ==
  IF HasStep(f, s) THEN PickNextTarget(f.steps[s], outcome) ELSE None

=============================================================================
