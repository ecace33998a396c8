------------------------- MODULE ContractRunProperties -------------------------
(***************************************************************************)
(* Properties of ContractRun that depend on how the corridor is used:      *)
(* those that hold when the requests on a run never overlap (one worker)   *)
(* and no contract is registered anew, the refinement of ContractWalk, the *)
(* progress a fair operator can rely on, and a statement of the            *)
(* repository's documents that the code does not keep.                     *)
(***************************************************************************)
EXTENDS ContractRun

-----------------------------------------------------------------------------
(* The refinement: what a client can see of a run *)

PhaseOf(x) ==
  IF IsTerminal(x) THEN x.status
  ELSE IF x.gate = None THEN "ready"
  ELSE IF x.gate.status = "waiting_review" THEN "review"
  ELSE IF x.gate.decision = "approve" THEN "approved" ELSE "ready"

PositionOf(x) ==
  IF x = None THEN None
  ELSE [contract |-> x.contract, step |-> x.step, phase |-> PhaseOf(x)]

Walk == INSTANCE ContractWalk WITH
          Flows <- Seeded, walk <- [r \in RunIds |-> PositionOf(runs[r])]

ASSUME PositionAbsenceAssumption == None \notin Walk!Position

\* Requests that never overlap make every run a walk along its contract's
\* flow: no step skipped, repeated or left without its outcome, no gated step
\* without its decision, nothing after the end but a new start.
StateAdvancesByFlow == Walk!WalkSpec

-----------------------------------------------------------------------------
(* The evidence log against the state *)

Quiet(r) == \A w \in Workers : Idle(w) \/ req[w].run # r

Moves(r) == {i \in DOMAIN log[r] :
               log[r][i].event \in {"started", "transition_applied", "transition_failed"}}

LastMove(r) == log[r][CHOOSE i \in Moves(r) : \A j \in Moves(r) : j <= i]

\* The evidence alone says where a run stands: with no request in flight, the
\* last start or transition in the log is the one that put the run on its step
\* or ended it.
EvidenceLocatesRun ==
  \A r \in RunIds : runs[r] # None /\ Quiet(r) =>
    LET m == LastMove(r) IN
    CASE m.event = "started"           -> runs[r].step = m.step /\ ~IsTerminal(runs[r])
      [] m.event = "transition_failed" -> runs[r].step = m.step /\ runs[r].status = "failed"
      [] m.event = "transition_applied" /\ m.detail \in Steps ->
           runs[r].step = m.detail
      [] m.event = "transition_applied" /\ m.detail \notin Steps ->
           runs[r].step = m.step /\ runs[r].status = m.detail

Count(r, event, s, outcome) ==
  Cardinality({i \in DOMAIN log[r] : /\ log[r][i].event = event
                                     /\ log[r][i].step = s
                                     /\ log[r][i].outcome = outcome})

\* One approval opens a gated step once: the step is left by `approve` no more
\* often than it was approved, also when the flow comes back to the gate.
ApprovalSpentOnce ==
  \A r \in RunIds : \A s \in Steps :
    Count(r, "transition_applied", s, "approve") <= Count(r, "gate_resolved", s, "approve")

\* The evidence on record grows with the run: what a snapshot once said, every
\* later snapshot of the run says too, also after the run was started again and
\* after puts that failed.
EvidenceGrows ==
  [][\A r \in RunIds : store[r] # None =>
       /\ Len(store[r].obs) <= Len(store'[r].obs)
       /\ SubSeq(store'[r].obs, 1, Len(store[r].obs)) = store[r].obs]_vars

-----------------------------------------------------------------------------
(* Progress, for an operator who keeps serving the run *)

ServeRun(w) == \E r \in RunIds :
                 \/ \E s \in Steps, op \in Ops : ExecuteRead(w, r, s, op)
                 \/ \E s \in Steps, d \in Decisions : ResolveRead(w, r, s, d)

\* Handlers are tasks of a runtime that polls each of them again (WF); the
\* operator keeps trying what GET next and GET gates/current offer (SF, since
\* other requests may keep the worker busy in between).
FairSpec == /\ Spec
            /\ \A w \in Workers : WF_vars(Handle(w)) /\ SF_vars(ServeRun(w))

\* No run gets stuck: a started run ends, or the operator's attempts (after
\* connector errors, or around a loop of the flow) use up the bound.
RunsSettle ==
  \A r \in RunIds : runs[r] # None ~> (runs[r] # None /\ IsTerminal(runs[r])) \/ ~WithinBound(r)

-----------------------------------------------------------------------------
(* A statement of the repository the code does not keep: the property of a   *)
(* run that ends in a counterexample.                                        *)

\* docs/MOVA_AGENT_API_SPEC_V0.md: gates/{gate}/resolve resolves the current
\* gate.  A run that waits for review has a gate that can be resolved.
WaitingRunHasOpenGate ==
  \A r \in RunIds : runs[r] # None /\ runs[r].status = "waiting_review" =>
    runs[r].gate # None /\ runs[r].gate.status = "waiting_review"

=============================================================================
